SPECIFICATION BatchFairSpec
CONSTANTS
    r1 = r1
    r2 = r2
    Ids <- MCIds
    BatchUpdateEnabled = TRUE
    Deltas <- MCDeltas
    MaxCalls = 2
    MaxFaults = 1
PROPERTY DirectSpec
PROPERTY EventuallyFlushed
