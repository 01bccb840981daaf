\* One request against one removal, with two process deaths and two failed
\* calls anywhere on its way.
SPECIFICATION LiveSpec
CONSTANTS
  Docs = {d1}
  Removers = {r1}
  Attempts = 3
  MaxStalls = 1
  Concurrency = 1
  MaxCrashes = 2
  MaxErrors = 2
INVARIANTS
  NeverUnprotected
  StoreAgreesWithRow
  QueueAgreesWithDocument
  FailureIsReported
  CompletedEventMeansFile
PROPERTIES
  RemovedStaysRemoved
  JobIsAnswered
  SecretSpec
\* A request that settled has nothing left to do.
CHECK_DEADLOCK FALSE
