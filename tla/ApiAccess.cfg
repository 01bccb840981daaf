\* Three requests; an instance's time lags by up to one tick; the token expires
\* at half time, unless it is revoked before.
SPECIFICATION AccessSpec
CONSTANTS
  c1 = c1
  c2 = c2
  c3 = c3
  t1 = t1
  u1 = u1
  a1 = a1
  Calls = {c1, c2, c3}
  Tokens = {t1}
  Users = {u1}
  Addresses = {a1}
  Nothing = Nothing
  Garbage = Garbage
  ScopesOf <- MCScopesOf
  ExpiresAt <- MCExpiresAt
  Arrivals <- MCArrivals
  DefaultLimit = 2
  AuthLimit = 1
  RefreshLimit = 2
  Window = 3
  Second = 2
  Lag = 1
  Lead = 0
  MaxClock = 6
SYMMETRY Symmetry
INVARIANTS
  RetryAfterIsHonest
  DeadTokenDoesNothing
PROPERTIES
  LimiterSpec
\* The requests end.
CHECK_DEADLOCK FALSE
