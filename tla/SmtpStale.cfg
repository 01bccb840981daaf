\* A deviation: an update and two alerts over one instance; an alert that has
\* read the row goes out with the old settings after the update answered.
SPECIFICATION SmtpSpec
CONSTANTS
  o1 = o1
  o2 = o2
  o3 = o3
  Ops = {o1, o2, o3}
  Configs = {c1, c2}
  Instances = {i1}
  NoConfig = NoConfig
  KindsOf <- StaleKindsOf
INVARIANT
  ChangeTakesEffect
\* The requests end.
CHECK_DEADLOCK FALSE
