\* The small parts, side by side.
SPECIFICATION Spec
CONSTANTS
    BPS_DENOMINATOR = 10
    TRADE_FEE_BPS = 1
    CREATOR_SHARE_BPS = 4
    LP_SHARE_BPS = 2
    REFERRAL_SHARE_BPS = 2
    CREATOR_GRAD_BONUS_BPS = 1
    PROTOCOL_GRAD_BONUS_BPS = 1
    CURVE_SUPPLY = 80
    TOTAL_SUPPLY = 100
    VIRTUAL_SUI_RESERVE = 44
    VIRTUAL_TOKEN_RESERVE = 107
    BASE_GRAD_MIST = 90
    PRICE_ANCHOR = 100
    PRECISION = 10000
    MaxInput = 400
    Holders = {ann}
    Held <- MCHeld
    Lots = {0, 7}
    Times = {0, 1, 2, 3, 4, 6, 13}
    Durations = {1, 2, 5, 12}
    VEST_30D = 2
    MONTH_MS = 2
    Sources = {binance, coinbase, kraken}
    Broken = {binance}
    Quotes = {9, 95, 100, 104, 105, 200}
    MIN_SOURCES = 2
    MAX_SPREAD = 5
    MIN_PRICE_SCALED = 10
    MAX_PRICE_SCALED = 150
    MaxReadings = 3
    Posts = {post, reply}
    Submitters = {web}
    MonthlyBudget = 3
    GovPause = 2
    PageSize = 2
    BatchSize = 1
    MaxDiscoveryPages = 3
    MaxMonths = 2
    MaxMissed = 1
    Wallets = {w1, w2, w3, w4}
    Funders = {f}
    None = None
    COBUY_BUCKET = 1
    LAUNCH_WINDOW = 1
    AMOUNT_WINDOW = 2
    MIN_FUNDING_WALLETS = 2
    MIN_TEMPORAL_WALLETS = 2
    BuyTimes = {0, 1, 2}
    BuyAmounts = {1, 2}
    MaxBuys = 3
    MaxCaps = 3
    Owners = {alice, bob}
    Builds = {v1, v2}
    MaxKeys = 2
    MaxSessions = 2
    Pages = {tab}
    TimeOrders = {t}
    DipOrders = {d}
    Limit <- MCLimit
    MaxTicks = 2
    MaxReloads = 1
    MaxRepeats = 2
INVARIANTS
    ISqrtIsRoot
    ThresholdFollowsRoot
    PaidAsVested
    PriceFollowsMarket
    BudgetHeld
    ClustersAreLinks
    OneAuthority
    KeysStayWithOwners
    OverspendNeedsOverlap
    CancelledStaysAway
\* The parts stop at their bounds.
CHECK_DEADLOCK FALSE
