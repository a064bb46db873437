\* Whether a page trades once on an event the indexer reads twice.
SPECIFICATION FeedSpec
CONSTANTS
    TypeOrder <- MCTypes
    PageSize = 2
    CheckpointSize = 2
    MaxFailures = 0
    Wallets = {"trader"}
    Me = "me"
    NoCurve = 0
    MaxEvents = 2
INVARIANT EventTradedOnce
\* Nothing else happens on the chain.
CHECK_DEADLOCK FALSE
