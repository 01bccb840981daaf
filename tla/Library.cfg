\* Two queries of an open page, or two sweeps; one deletion.
SPECIFICATION Spec
CONSTANTS
  Docs = {1, 2, 3}
  Landed = {1, 2}
  CreatedAt <- MCCreatedAt
  SourceOf <- MCSourceOf
  Sources = {"api", "ui"}
  All = "any"
  Keyless = {3}
  Expiring = {1, 2}
  Sweepers = {s1, s2}
  NoDoc = 0
  Setups = {{"page"}, {"sweep"}}
  PageSize = 1
  BatchSize = 2
  MaxBatches = 2
  MaxQueries = 2
  MaxClicks = 2
  MaxRemovals = 1
  MaxFaults = 1
INVARIANTS
  PagesJoin
  RowOutlivesObject
PROPERTIES
  ExpiredIsRemoved
\* A visit to the page ends, and the sweeps may be switched off.
CHECK_DEADLOCK FALSE
