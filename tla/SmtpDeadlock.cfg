\* A deviation: three changes of the default over three configurations; one has
\* looked before another took the flag, and waits in the index with its own row
\* in hand for a third, which wants that row.
SPECIFICATION SmtpSpec
CONSTANTS
  o1 = o1
  o2 = o2
  o3 = o3
  Ops = {o1, o2, o3}
  Configs = {c1, c2, c3}
  Instances = {i1}
  NoConfig = NoConfig
  KindsOf <- CircleKindsOf
SYMMETRY Symmetry
INVARIANT
  NoDeadlock
\* The requests end.
CHECK_DEADLOCK FALSE
