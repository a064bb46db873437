\* The watcher alone, through failures and crashes.
SPECIFICATION FairSpec
CONSTANTS
    Curves = {"t", "low", "c"}
    Operators = {}
    Target <- MCTarget
    BelowFloor <- MCBelowFloor
    PoolSui <- MCPoolSui
    LpSupply = 6
    Headroom = 1
    Float = 1
    Limit = 3
    MaxFailures = 2
INVARIANTS
    MarkedHasPool

    
CHECK_DEADLOCK FALSE
