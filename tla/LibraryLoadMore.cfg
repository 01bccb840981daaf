\* A page whose filter changes while more rows are on their way.
SPECIFICATION Spec
CONSTANTS
  Docs = {1, 2, 3}
  Landed = {1, 2}
  CreatedAt <- MCCreatedAt
  SourceOf <- MCSourceOf
  Sources = {"api", "ui"}
  All = "any"
  Keyless = {}
  Expiring = {1, 2}
  Sweepers = {s1, s2}
  NoDoc = 0
  Setups = {{"page"}}
  PageSize = 1
  BatchSize = 2
  MaxBatches = 2
  MaxQueries = 2
  MaxClicks = 2
  MaxRemovals = 0
  MaxFaults = 0
INVARIANTS
  OnlyNewestQueryWrites
\* A visit to the page ends.
CHECK_DEADLOCK FALSE
