\* Without a process death or a failed call.
SPECIFICATION Spec
CONSTANTS
  Docs = {d1}
  Removers = {r1}
  Attempts = 3
  MaxStalls = 1
  Concurrency = 1
  MaxCrashes = 0
  MaxErrors = 0
INVARIANT NoOrphanedObject
CHECK_DEADLOCK FALSE
