\* Three retries, nothing but a failed render.
SPECIFICATION Spec
CONSTANTS
  Requests = {r1, r2, r3}
  Absent = Absent
  Pending = Pending
  MaxExpiries = 0
  MaxCrashes = 0
  MaxErrors = 0
SYMMETRY Symmetry
INVARIANT NoSecondRender
CHECK_DEADLOCK FALSE
