\* One curve, a budget of two buys, one fault.
SPECIFICATION Spec
CONSTANTS
    Curves <- MCCurves
    Parent = "parent"
    Kinds <- MCKinds
    Budget = 2
    MaxOpen = 1
    Funds = 4
    Generations = 2
    MaxCancels = 1
    MaxFaults = 1
INVARIANTS
    BrainTypeOK
    
    ExitArmed

    
CHECK_DEADLOCK FALSE
