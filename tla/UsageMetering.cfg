\* Two days, two overlapping flushes that take one entry each, two renders per
\* day; one process death and one rejected call at any point.
CONSTANTS
    Days = {e1, e2}
    Flushes = {f1, f2}
    Batch = 1
    MaxRenders = 2
    MaxCrashes = 1
    MaxErrors = 1
SPECIFICATION LiveSpec
INVARIANTS
    CountedOnce
    NothingStranded
PROPERTIES
    EventuallyFlushed
