\* Three retries, with one expiry under a running request, one process death
\* and one rejected call at any point.
SPECIFICATION LiveSpec
CONSTANTS
  Requests = {r1, r2, r3}
  Absent = Absent
  Pending = Pending
  MaxExpiries = 1
  MaxCrashes = 1
  MaxErrors = 1
INVARIANTS
  ExactlyOneWins
  OneDocument
  NoFailureIsReplayed
PROPERTIES
  RecordedIsFinal
  KeyIsFreed
\* Every request is answered.
CHECK_DEADLOCK FALSE
