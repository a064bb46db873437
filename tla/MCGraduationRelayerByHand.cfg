\* Scripts run by hand beside the watcher, on one wallet.
SPECIFICATION Spec
CONSTANTS
    Curves = {"d", "t"}
    Operators = {"operator"}
    Target <- MCTarget
    BelowFloor <- MCBelowFloor
    PoolSui <- MCPoolSui
    LpSupply = 6
    Headroom = 1
    Float = 1
    Limit = 2
    MaxFailures = 2
INVARIANTS
    TypeOK
    RecordedHasPool
    DeepBookSeededOnce
CHECK_DEADLOCK FALSE
