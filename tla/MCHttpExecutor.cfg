CONSTANTS
    WorkerCount = 2
    Submitters = {s1}
    MaxCycles = 2
    MaxItems = 2
SPECIFICATION FairSpec
INVARIANTS CyclesAreIntact NoStrandedPromise StopLeavesOnlyDetached
PROPERTIES EveryFutureSettles
CHECK_DEADLOCK FALSE
