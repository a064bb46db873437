\* The session key, the owner and a passer-by, with nested borrows.
SPECIFICATION FairSpec
CONSTANTS
    Owner = "owner"
    SessionKey = "key"
    Others <- MCOthers
    NoSender = "none"
    Amounts <- MCAmounts
    Deposit = 3
    SpendCap = 2
    Expiry = 1
    MaxTime = 2
    MaxEscrow = 4
    MaxParked = 2
    MaxTickets = 2
INVARIANTS
    TypeOK
    LossWithinCap
PROPERTIES
    ClosedIsFinal
    OwnerGetsEscrowBack
