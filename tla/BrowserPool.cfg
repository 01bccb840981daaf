\* Four calls over two slots that take two jobs each; one browser wears out
\* and two launches fail at any point.
SPECIFICATION LiveSpec
CONSTANTS
  Calls = {c1, c2, c3, c4}
  Slots = {s1, s2}
  NoSlot = NoSlot
  MaxJobs = 2
  MaxDeaths = 1
  MaxFailures = 2
INVARIANTS
  OneHolder
PROPERTIES
  EveryCallSettles
  SemaphoreSpec
\* The pool is stopped.
CHECK_DEADLOCK FALSE
