\* A deviation: a browser that stops answering keeps its call for ever; of what
\* a render awaits only setContent has a timeout.
SPECIFICATION LiveSpec
CONSTANTS
  Calls = {c1, c2}
  Slots = {s1}
  NoSlot = NoSlot
  MaxJobs = 2
  MaxDeaths = 0
  MaxFailures = 0
PROPERTY
  EveryCallIsAnswered
\* The pool is stopped.
CHECK_DEADLOCK FALSE
