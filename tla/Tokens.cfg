\* Two revocations of one token and a creation race; either id may exist
\* before.
SPECIFICATION Spec
CONSTANTS
  r1 = r1
  r2 = r2
  r3 = r3
  t1 = t1
  t2 = t2
  Ids = {t1, t2}
  NoToken = NoToken
  Requests = {r1, r2, r3}
SYMMETRY Symmetry
INVARIANTS
  AuditTellsTheHistory
  PageKeepsUp
\* The requests end.
CHECK_DEADLOCK FALSE
