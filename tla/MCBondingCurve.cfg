\* Trading, buyback, graduation and exit of one curve.
SPECIFICATION Spec
CONSTANTS
    BPS_DENOMINATOR = 10
    TRADE_FEE_BPS = 1
    CREATOR_SHARE_BPS = 4
    LP_SHARE_BPS = 2
    REFERRAL_SHARE_BPS = 2
    CREATOR_GRAD_BONUS_BPS = 1
    PROTOCOL_GRAD_BONUS_BPS = 1
    CURVE_SUPPLY = 80
    TOTAL_SUPPLY = 100
    VIRTUAL_SUI_RESERVE = 44
    VIRTUAL_TOKEN_RESERVE = 107
    BASE_GRAD_MIST = 96
    PRICE_ANCHOR = 4
    PRECISION = 1
    Users <- MCUsers
    Creator = "creator"
    NoReferral = "none"
    SuiAmounts <- MCSui
    TokenAmounts <- MCTokens
    BuybackChoices <- MCBuybacks
    Prices <- MCPrices
    GradThresholds <- MCThresholds
    PRICE_MAX_AGE_MS = 1
    ANTI_BOT_DELAY = 1
    LAUNCH_FEE_MIST = 2
    ProtocolPayments = {1}
    MIN_GRAD_RESERVE_MIST = 30
    MaxTime = 2
    MaxOps = 4
INVARIANTS
    TypeOK
    SellersAlwaysPaid
    
    GraduatedIsClaimable
    RefundIsTail
PROPERTIES
    
    ImplementsLifecycle
