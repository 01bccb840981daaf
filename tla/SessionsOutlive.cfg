\* A deviation: one tab, one session; a refresh rounds its TTL up, or falls back
\* to a whole window, and the index expires under it.
SPECIFICATION Spec
CONSTANTS
  Tabs = {t1}
  Browsers = {b1}
  Jar <- OneJar
  Families = {f1}
  NoToken = NoToken
  MaxGeneration = 2
  MaxChanges = 0
  MaxFaults = 0
INVARIANT IndexIsComplete
CHECK_DEADLOCK FALSE
