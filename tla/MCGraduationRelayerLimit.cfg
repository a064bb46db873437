\* More unfinished rows than the query returns, and no failures.
SPECIFICATION FairSpec
CONSTANTS
    Curves = {"d", "t"}
    Operators = {}
    Target <- MCTarget
    BelowFloor <- MCBelowFloor
    PoolSui <- MCPoolSui
    LpSupply = 6
    Headroom = 1
    Float = 1
    Limit = 1
    MaxFailures = 0
PROPERTIES
    EveryGraduationDispatched
CHECK_DEADLOCK FALSE
