\* One day, one flush, one rejected call.
CONSTANTS
    Days = {e1}
    Flushes = {f1}
    Batch = 1
    MaxRenders = 1
    MaxCrashes = 0
    MaxErrors = 1
SPECIFICATION Spec
INVARIANT FailedFlushCanBeRetried
