\* Two tabs of one browser and two logins, one change of the password, and one
\* rejected call or lost request at any point.
SPECIFICATION Spec
CONSTANTS
  Tabs = {t1, t2}
  Browsers = {b1}
  Jar <- OneJar
  Families = {f1, f2}
  NoToken = NoToken
  MaxGeneration = 3
  MaxChanges = 1
  MaxFaults = 1
SYMMETRY Symmetry
INVARIANTS
  CookieIsCurrent
  OldSessionsEnd
PROPERTIES
  GoneStaysGone
\* All families may be used up and the user signed out.
CHECK_DEADLOCK FALSE
