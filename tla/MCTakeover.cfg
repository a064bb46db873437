\* Two proposals, all orders of trades, votes, resolution and reclaims.
SPECIFICATION FairSpec
CONSTANTS
    Users <- MCUsers
    FirstCreator = "creator"
    Amounts <- MCAmounts
    BPS_DENOMINATOR = 4
    CURVE_SUPPLY = 3
    TOTAL_SUPPLY = 4
    CTO_INACTIVITY_MS = 1
    CTO_WINDOW_MS = 1
    CTO_COOLDOWN_MS = 1
    CTO_NOMINATE_BPS = 1
    CTO_QUORUM_BPS = 3
    CTO_MIN_VOTE_BPS = 2
    MaxTime = 4
    MaxProposals = 2
INVARIANTS
    EscrowIsVotes
    BondLocked
    OneLiveProposal
    ProposalsSpaced
PROPERTIES
    TallyIsFinal
    TakeoverIsBacked
    EscrowReturned
