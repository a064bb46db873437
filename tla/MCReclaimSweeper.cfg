\* One proposal, a vote withdrawn and cast again, the indexer and the sweeper.
SPECIFICATION SweeperSpec
CONSTANTS
    Users <- MCUsers
    FirstCreator = "bob"
    Amounts <- MCAmounts
    BPS_DENOMINATOR = 3
    CURVE_SUPPLY = 3
    TOTAL_SUPPLY = 4
    CTO_INACTIVITY_MS = 1
    CTO_WINDOW_MS = 1
    CTO_COOLDOWN_MS = 1
    CTO_NOMINATE_BPS = 2
    CTO_QUORUM_BPS = 3
    CTO_MIN_VOTE_BPS = 1
    MaxTime = 2
    MaxProposals = 1
    TypeOrder <- MCTypes
    PageSize = 2
    CheckpointSize = 1
    MaxFailures = 1
    Held <- MCHeld
    BatchSize = 2
    MaxCalls = 3
INVARIANTS
    NothingBehindCursor
PROPERTIES
    EventsArrive
    
CHECK_DEADLOCK FALSE
