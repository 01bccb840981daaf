\* Two changes (a creation, an update, a removal) and a test or an alert, over two
\* configurations and two instances.
SPECIFICATION SmtpSpec
CONSTANTS
  o1 = o1
  o2 = o2
  o3 = o3
  Ops = {o1, o2, o3}
  Configs = {c1, c2}
  Instances = {i1, i2}
  NoConfig = NoConfig
  KindsOf <- MCKindsOf
SYMMETRY Symmetry
INVARIANTS
  TransportIsCurrent
  VerifiedMeansTested
  ConflictNeedsOverlap
  WaitsEnd
\* The requests end.
CHECK_DEADLOCK FALSE
