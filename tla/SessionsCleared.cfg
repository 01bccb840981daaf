\* One tab, one session, one rejected call.
SPECIFICATION Spec
CONSTANTS
  Tabs = {t1}
  Browsers = {b1}
  Jar <- OneJar
  Families = {f1}
  NoToken = NoToken
  MaxGeneration = 2
  MaxChanges = 0
  MaxFaults = 1
INVARIANT ClearedCookieIsWorthless
CHECK_DEADLOCK FALSE
