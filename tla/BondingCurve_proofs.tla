------------------------- MODULE BondingCurve_proofs -------------------------
(***************************************************************************)
(* Proofs about BondingCurve, for every value of its constants that meets  *)
(* their assumptions.  The argument: a trade changes the two reserves so   *)
(* that their product, virtual reserves included, does not fall; so the    *)
(* real reserve can always pay the holders out, and the curve is never     *)
(* drained of its tokens without the SUI that goes with the last of them.  *)
(***************************************************************************)
EXTENDS BondingCurve, Numbers_proofs

---------------------------------------------------------------------------
(* The operators of CurveMath *)

\* A share in basis points, rounded down, and its bounds.
LEMMA BpsBounds ==
    ASSUME NEW amount \in Nat, NEW bps \in Nat
    PROVE  /\ Bps(amount, bps) \in Nat
           /\ BPS_DENOMINATOR * Bps(amount, bps) <= amount * bps
           /\ bps <= BPS_DENOMINATOR => Bps(amount, bps) <= amount
<1>1. BPS_DENOMINATOR \in Nat /\ BPS_DENOMINATOR > 0 /\ amount * bps \in Nat
  BY FeeAssumption
<1>2. Bps(amount, bps) \in Nat /\ BPS_DENOMINATOR * Bps(amount, bps) <= amount * bps
  BY <1>1, DivBounds DEF Bps
<1>3. ASSUME bps <= BPS_DENOMINATOR PROVE Bps(amount, bps) <= amount
  <2>1. amount * bps <= amount * BPS_DENOMINATOR
    BY <1>1, <1>3, MulLe
  <2> QED BY <1>1, <2>1, DivLe DEF Bps
<1>4. QED
  BY <1>2, <1>3

\* The share of a larger amount is no smaller.
LEMMA BpsMono ==
    ASSUME NEW a \in Nat, NEW c \in Nat, NEW bps \in Nat, a <= c
    PROVE  Bps(a, bps) <= Bps(c, bps)
<1>1. a * bps <= c * bps /\ a * bps \in Nat /\ c * bps \in Nat
  BY MulLe
<1>2. QED
  BY <1>1, FeeAssumption, DivMono DEF Bps

\* The slices of split_fee_v7 are numbers and add up to the fee.
LEMMA SplitFeeSums ==
    ASSUME NEW fee \in Nat, NEW hasReferral \in BOOLEAN
    PROVE  LET s == SplitFee(fee, hasReferral)
           IN  /\ s.creator \in Nat /\ s.lp \in Nat /\ s.referral \in Nat
               /\ s.airdrop \in Nat /\ s.protocol \in Nat
               /\ s.creator + s.lp + s.referral + s.airdrop + s.protocol = fee
<1> DEFINE c == Bps(fee, CREATOR_SHARE_BPS)
           l == Bps(fee, LP_SHARE_BPS)
           r == IF hasReferral THEN Bps(fee, REFERRAL_SHARE_BPS) ELSE 0
           R == Bps(fee, REFERRAL_SHARE_BPS)
           bucket == fee - c - l - r
<1>1. /\ c \in Nat /\ l \in Nat /\ R \in Nat
      /\ BPS_DENOMINATOR * c <= fee * CREATOR_SHARE_BPS
      /\ BPS_DENOMINATOR * l <= fee * LP_SHARE_BPS
      /\ BPS_DENOMINATOR * R <= fee * REFERRAL_SHARE_BPS
  BY BpsBounds, FeeAssumption
<1>2. fee * (CREATOR_SHARE_BPS + LP_SHARE_BPS + REFERRAL_SHARE_BPS)
        <= fee * BPS_DENOMINATOR
  BY FeeAssumption, MulLe
<1>3. BPS_DENOMINATOR * (c + l + R) <= BPS_DENOMINATOR * fee
  BY <1>1, <1>2, FeeAssumption
<1>4. c + l + R <= fee
  <2> SUFFICES ASSUME c + l + R >= fee + 1 PROVE FALSE
    BY <1>1
  <2>1. (fee + 1) * BPS_DENOMINATOR <= (c + l + R) * BPS_DENOMINATOR
    BY <1>1, FeeAssumption, MulLe
  <2> QED
    BY <2>1, <1>1, <1>3, FeeAssumption
<1>5. r \in Nat /\ r <= R
  BY <1>1
<1>6. bucket \in Nat
  BY <1>1, <1>4, <1>5
<1>7. bucket \div 2 \in Nat /\ bucket \div 2 <= bucket
  BY <1>6, DivBounds
<1> HIDE DEF c, l, r, bucket
<1>8. SplitFee(fee, hasReferral)
        = [creator |-> c, lp |-> l, referral |-> r,
           airdrop |-> bucket \div 2, protocol |-> bucket - bucket \div 2]
  BY DEF SplitFee, c, l, r, bucket
<1>9. c + l + r + bucket = fee
  BY <1>1, <1>5, <1>6 DEF bucket
<1>10. QED
  BY <1>1, <1>5, <1>6, <1>7, <1>8, <1>9

\* quote_out never empties a pool and never lowers its product.
LEMMA QuoteOutBounds ==
    ASSUME NEW dx \in Nat, NEW x \in Nat, NEW y \in Nat, x > 0
    PROVE  /\ QuoteOut(dx, x, y) \in Nat
           /\ QuoteOut(dx, x, y) <= y
           /\ (x + dx) * (y - QuoteOut(dx, x, y)) >= x * y
<1> DEFINE q == QuoteOut(dx, x, y)
<1>1. x + dx \in Nat /\ x + dx > 0 /\ y * dx \in Nat
  OBVIOUS
<1>2. q \in Nat /\ (x + dx) * q <= y * dx
  BY <1>1, DivBounds DEF QuoteOut
<1>3. y * dx <= y * (x + dx)
  BY MulLe
<1>4. q <= y
  BY <1>1, <1>3, DivLe DEF QuoteOut
<1>5. (x + dx) * (y - q) = x * y + y * dx - (x + dx) * q
  BY <1>2
<1>6. QED
  BY <1>2, <1>4, <1>5

\* The last tokens of a pool cost enough to leave it, up to the rounding of
\* one unit, worth what it was.
LEMMA QuoteInBounds ==
    ASSUME NEW dy \in Nat, NEW x \in Nat, NEW y \in Nat, dy < y
    PROVE  /\ QuoteIn(dy, x, y) \in Nat
           /\ (x + QuoteIn(dy, x, y) + 1) * (y - dy) > x * y
<1> DEFINE q == QuoteIn(dy, x, y)
<1>1. y - dy \in Nat /\ y - dy > 0 /\ x * dy \in Nat
  OBVIOUS
<1>2. q \in Nat /\ x * dy < (y - dy) * q + (y - dy)
  BY <1>1, DivBounds DEF QuoteIn
<1> HIDE DEF q
<1>3. (x + q + 1) * (y - dy) = x * y - x * dy + (y - dy) * q + (y - dy)
  BY <1>2
<1>4. QED
  BY <1>2, <1>3, <1>1 DEF q


\* Selling back at once what dx bought never returns more than dx, at any
\* reserves.
THEOREM RoundTripIsALoss ==
    ASSUME NEW dx \in Nat, NEW x \in Nat, NEW y \in Nat, x > 0, y > 0
    PROVE  LET bought == QuoteOut(dx, x, y)
           IN  QuoteOut(bought, y - bought, x + dx) <= dx
<1> DEFINE bought == QuoteOut(dx, x, y)
<1>1. /\ bought \in Nat /\ bought <= y
      /\ (x + dx) * bought <= y * dx
  <2>1. x + dx \in Nat /\ x + dx > 0 /\ y * dx \in Nat
    OBVIOUS
  <2>2. /\ (y * dx) \div (x + dx) \in Nat
        /\ (x + dx) * ((y * dx) \div (x + dx)) <= y * dx
    BY <2>1, DivBounds
  <2>. QED BY <2>2, QuoteOutBounds DEF QuoteOut
<1>. HIDE DEF bought
<1>2. (y - bought) + bought = y
  BY <1>1
<1>3. (x + dx) * bought \in Nat /\ dx * y = y * dx
  BY <1>1
<1>4. ((x + dx) * bought) \div y <= dx
  BY <1>1, <1>3, DivLe
<1>. QED
  BY <1>2, <1>4 DEF QuoteOut, bought

---------------------------------------------------------------------------
(* The curve *)

\* Facts about the constants, in the form the steps below use.
LEMMA Constants ==
    /\ BPS_DENOMINATOR \in Nat /\ BPS_DENOMINATOR > 0
    /\ TRADE_FEE_BPS \in Nat /\ TRADE_FEE_BPS <= BPS_DENOMINATOR
    /\ CREATOR_GRAD_BONUS_BPS \in Nat /\ PROTOCOL_GRAD_BONUS_BPS \in Nat
    /\ CREATOR_GRAD_BONUS_BPS + PROTOCOL_GRAD_BONUS_BPS <= BPS_DENOMINATOR
    /\ CURVE_SUPPLY \in Nat /\ TOTAL_SUPPLY \in Nat /\ TOTAL_SUPPLY >= CURVE_SUPPLY
    /\ VIRTUAL_SUI_RESERVE \in Nat /\ VIRTUAL_SUI_RESERVE > 0
    /\ VIRTUAL_TOKEN_RESERVE \in Nat /\ VIRTUAL_TOKEN_RESERVE > CURVE_SUPPLY
    /\ BASE_GRAD_MIST \in Nat /\ BASE_GRAD_MIST > 0
    /\ LAUNCH_FEE_MIST \in Nat /\ ProtocolPayments \subseteq Nat
    /\ MIN_GRAD_RESERVE_MIST \in Nat
  BY FeeAssumption, CurveAssumption, PriceAssumption, MarketAssumption

\* Every graduation threshold is a positive number.
LEMMA ThresholdsPositive ==
    \A t \in Thresholds : t \in Nat /\ t > 0
  BY Constants, MarketAssumption DEF Thresholds

\* resolve_grad_threshold returns one of the thresholds.
LEMMA ResolvedIsThreshold ==
    ASSUME TypeOK
    PROVE  ResolveGradThreshold \in Thresholds
  BY DEF TypeOK, ResolveGradThreshold, Thresholds

\* Both bonuses together are at most the reserve they are paid from.
LEMMA BonusBounds ==
    ASSUME NEW reserve \in Nat
    PROVE  /\ AfterBonuses(reserve) \in Nat
           /\ AfterBonuses(reserve) <= reserve
           /\ BPS_DENOMINATOR * AfterBonuses(reserve) >=
                reserve * (BPS_DENOMINATOR - CREATOR_GRAD_BONUS_BPS
                                           - PROTOCOL_GRAD_BONUS_BPS)
<1> DEFINE c == Bps(reserve, CREATOR_GRAD_BONUS_BPS)
           p == Bps(reserve, PROTOCOL_GRAD_BONUS_BPS)
<1>1. /\ c \in Nat /\ BPS_DENOMINATOR * c <= reserve * CREATOR_GRAD_BONUS_BPS
      /\ p \in Nat /\ BPS_DENOMINATOR * p <= reserve * PROTOCOL_GRAD_BONUS_BPS
  BY Constants, BpsBounds
<1> HIDE DEF c, p
<1>2. BPS_DENOMINATOR * (reserve - c - p) >=
        reserve * (BPS_DENOMINATOR - CREATOR_GRAD_BONUS_BPS - PROTOCOL_GRAD_BONUS_BPS)
  BY <1>1, Constants
<1>3. reserve * (BPS_DENOMINATOR - CREATOR_GRAD_BONUS_BPS - PROTOCOL_GRAD_BONUS_BPS) >= 0
  BY Constants
<1>4. reserve - c - p >= 0
  <2> SUFFICES ASSUME reserve - c - p <= -1 PROVE FALSE
    BY <1>1
  <2>1. BPS_DENOMINATOR * (reserve - c - p) < 0
    BY Constants, <1>1
  <2> QED
    BY <2>1, <1>1, <1>2, <1>3, Constants
<1>5. QED
  BY <1>1, <1>2, <1>4 DEF AfterBonuses, c, p

\* A reserve at or above one that FloorAssumption covers stays claimable when
\* the bonuses are paid.
LEMMA FloorHolds ==
    ASSUME NEW reserve \in Nat, NEW floor \in Thresholds \cup {DrainReserve},
           floor \in Int, reserve >= floor
    PROVE  AfterBonuses(reserve) >= MIN_GRAD_RESERVE_MIST
<1> DEFINE keep == BPS_DENOMINATOR - CREATOR_GRAD_BONUS_BPS - PROTOCOL_GRAD_BONUS_BPS
<1>1. keep \in Nat
  BY Constants
<1>2. floor * keep >= MIN_GRAD_RESERVE_MIST * BPS_DENOMINATOR
  BY FloorAssumption
<1>3. reserve * keep >= floor * keep
  BY <1>1
<1>4. /\ AfterBonuses(reserve) \in Nat
      /\ BPS_DENOMINATOR * AfterBonuses(reserve) >= reserve * keep
  BY BonusBounds
<1> HIDE DEF keep
<1>5. BPS_DENOMINATOR * AfterBonuses(reserve) >= MIN_GRAD_RESERVE_MIST * BPS_DENOMINATOR
  BY <1>1, <1>2, <1>3, <1>4, Constants
<1>6. QED
  <2> SUFFICES ASSUME AfterBonuses(reserve) + 1 <= MIN_GRAD_RESERVE_MIST PROVE FALSE
    BY <1>4, Constants
  <2>1. (AfterBonuses(reserve) + 1) * BPS_DENOMINATOR
          <= MIN_GRAD_RESERVE_MIST * BPS_DENOMINATOR
    BY <1>4, Constants, MulLe
  <2> QED
    BY <2>1, <1>4, <1>5, Constants

\* DrainReserve is a whole number, and a curve worth at least its launch
\* value, up to one unit, that has no token left holds at least that much.
LEMMA DrainedHolds ==
    ASSUME NEW reserve \in Nat,
           (reserve + VIRTUAL_SUI_RESERVE + 1) * (VIRTUAL_TOKEN_RESERVE - CURVE_SUPPLY)
             > VIRTUAL_SUI_RESERVE * VIRTUAL_TOKEN_RESERVE
    PROVE  DrainReserve \in Int /\ reserve >= DrainReserve
<1> DEFINE left == VIRTUAL_TOKEN_RESERVE - CURVE_SUPPLY
           worth == VIRTUAL_SUI_RESERVE * VIRTUAL_TOKEN_RESERVE
           q == worth \div left
<1>1. left \in Nat /\ left > 0 /\ worth \in Nat
  BY Constants
<1>2. q \in Nat /\ left * q <= worth
  BY <1>1, DivBounds
<1>3. (reserve + VIRTUAL_SUI_RESERVE + 1) * left > left * q
  BY <1>1, <1>2, Constants
<1>4. reserve + VIRTUAL_SUI_RESERVE + 1 > q
  <2> SUFFICES ASSUME reserve + VIRTUAL_SUI_RESERVE + 1 <= q PROVE FALSE
    BY <1>2, Constants
  <2>1. (reserve + VIRTUAL_SUI_RESERVE + 1) * left <= q * left
    BY <1>1, <1>2, Constants, MulLe
  <2> QED
    BY <2>1, <1>1, <1>2, <1>3, Constants
<1>5. QED
  BY <1>2, <1>4, Constants DEF DrainReserve

---------------------------------------------------------------------------
(* The state the trades start from *)

\* The effective reserves of quote_out are numbers, and the effective token
\* reserve always exceeds what is left to sell.
LEMMA Reserves ==
    ASSUME TypeOK
    PROVE  /\ EffectiveSui \in Nat /\ EffectiveSui > 0
           /\ EffectiveSui = suiReserve + VIRTUAL_SUI_RESERVE
           /\ EffectiveToken \in Nat
           /\ EffectiveToken = VIRTUAL_TOKEN_RESERVE - CURVE_SUPPLY + tokenReserve
           /\ EffectiveToken > tokenReserve
  BY Constants DEF TypeOK, EffectiveSui, EffectiveToken, Sold

\* The fee on a trade is at most what is traded.
LEMMA TradeFee ==
    ASSUME NEW amount \in Nat
    PROVE  /\ Bps(amount, TRADE_FEE_BPS) \in Nat
           /\ Bps(amount, TRADE_FEE_BPS) <= amount
<1>1. TRADE_FEE_BPS \in Nat /\ TRADE_FEE_BPS <= BPS_DENOMINATOR
  BY Constants
<1>2. QED
  BY <1>1, BpsBounds

\* The part of a payment that is swapped is the payment less its fee.
LEMMA SwapBounds ==
    ASSUME NEW suiIn \in Nat
    PROVE  /\ SwapOf(suiIn) \in Nat
           /\ SwapOf(suiIn) = suiIn - Bps(suiIn, TRADE_FEE_BPS)
           /\ Bps(suiIn, TRADE_FEE_BPS) \in Nat
           /\ Bps(suiIn, TRADE_FEE_BPS) <= suiIn
  BY TradeFee DEF SwapOf

\* What buy() puts in the reserve is at least the swap it quoted: the fee is
\* charged again on the clipped payment, and can only have shrunk.
LEMMA ToReserveCoversSwap ==
    ASSUME NEW suiIn \in Nat, NEW tail \in Nat, tail <= SwapOf(suiIn),
           NEW lp \in Nat
    PROVE  LET fee == Bps(suiIn - tail, TRADE_FEE_BPS)
           IN  /\ suiIn - tail \in Nat
               /\ fee \in Nat
               /\ ToReserve(suiIn - tail, fee, lp) \in Nat
               /\ ToReserve(suiIn - tail, fee, lp) >= SwapOf(suiIn) - tail
               /\ ToReserve(suiIn - tail, fee, lp) = suiIn - tail - fee + lp
<1>1. suiIn - tail \in Nat
  BY SwapBounds
<1>2. /\ Bps(suiIn - tail, TRADE_FEE_BPS) \in Nat
      /\ Bps(suiIn - tail, TRADE_FEE_BPS) <= suiIn - tail
  BY <1>1, TradeFee
<1>3. Bps(suiIn - tail, TRADE_FEE_BPS) <= Bps(suiIn, TRADE_FEE_BPS)
  <2>1. TRADE_FEE_BPS \in Nat /\ suiIn - tail <= suiIn
    BY Constants
  <2>2. QED
    BY <1>1, <2>1, BpsMono
<1>4. QED
  BY <1>1, <1>2, <1>3, SwapBounds DEF ToReserve

\* A trade that adds SUI and takes tokens out at no more than its quote keeps
\* the product, whatever is added on top.
LEMMA ProductKept ==
    ASSUME NEW x \in Nat, NEW y \in Nat, NEW dx \in Nat, NEW more \in Nat, x > 0,
           NEW out \in Nat, out <= QuoteOut(dx, x, y), more >= dx
    PROVE  (x + more) * (y - out) >= x * y
<1> DEFINE q == QuoteOut(dx, x, y)
<1>1. q \in Nat /\ q <= y /\ (x + dx) * (y - q) >= x * y
  BY QuoteOutBounds
<1> HIDE DEF q
<1>2. y - q \in Nat /\ y - out \in Nat /\ y - q <= y - out
  BY <1>1 DEF q
<1>3. (y - q) * (x + dx) <= (y - out) * (x + dx)
  BY <1>2, MulLe
<1>4. (x + dx) * (y - out) <= (x + more) * (y - out)
  BY <1>2, MulLe
<1>5. QED
  BY <1>1, <1>2, <1>3, <1>4

\* A step that does not lower the product keeps the curve backed.
LEMMA BackedKept ==
    ASSUME IInv, ~graduated, TypeOK', Product' >= Product
    PROVE  Backed'
<1>1. Product \in Int /\ VIRTUAL_SUI_RESERVE * VIRTUAL_TOKEN_RESERVE \in Int
  BY Reserves, Constants DEF IInv, Product
<1>2. EffectiveSui' \in Int /\ EffectiveToken' \in Int
  BY Constants DEF TypeOK, EffectiveSui, EffectiveToken, Sold
<1>3. Product' \in Int
  BY <1>2 DEF Product
<1>4. Product >= VIRTUAL_SUI_RESERVE * VIRTUAL_TOKEN_RESERVE
  BY DEF IInv, Backed
<1>5. QED
  BY <1>1, <1>3, <1>4 DEF Backed

---------------------------------------------------------------------------
(* Buying *)

\* What the three paths of buy() share preserves the invariant, provided that
\* the tokens it hands out are paid for: at the quote if some are left, and
\* within a unit of it if they are the last ones.
LEMMA SettleBuyStep ==
    ASSUME IInv, ~graduated,
           NEW suiIn \in Nat, NEW hasReferral \in BOOLEAN,
           NEW tokensOut \in 0 .. tokenReserve,
           NEW tail \in Nat, tail <= SwapOf(suiIn),
           NEW threshold \in Thresholds,
           tokensOut < tokenReserve =>
               tokensOut <= QuoteOut(SwapOf(suiIn) - tail, EffectiveSui, EffectiveToken),
           tokensOut = tokenReserve =>
               (EffectiveSui + (SwapOf(suiIn) - tail) + 1) * (EffectiveToken - tokenReserve)
                 > EffectiveSui * EffectiveToken,
           SettleBuy(suiIn, hasReferral, tokensOut, tail, threshold)
    PROVE  IInv' /\ (~graduated' => Product' >= Product)
<1> DEFINE effective == suiIn - tail
           fee       == Bps(effective, TRADE_FEE_BPS)
           slice     == SplitFee(fee, hasReferral)
           buyback   == Bps(slice.creator, buybackBps)
           toReserve == ToReserve(effective, fee, slice.lp)
           refund    == suiIn - slice.creator - slice.protocol - slice.airdrop
                              - slice.referral - toReserve
           reserve   == suiReserve + toReserve
           drained   == tokenReserve - tokensOut = 0
           graduates == drained \/ reserve >= threshold
<1>1. effective \in Nat /\ fee \in Nat
  BY SwapBounds, TradeFee
<1>2. /\ slice.creator \in Nat /\ slice.lp \in Nat /\ slice.referral \in Nat
      /\ slice.airdrop \in Nat /\ slice.protocol \in Nat
      /\ slice.creator + slice.lp + slice.referral + slice.airdrop + slice.protocol = fee
  BY <1>1, SplitFeeSums
<1>3. buyback \in Nat /\ buyback <= slice.creator
  <2>1. buybackBps \in Nat /\ buybackBps <= BPS_DENOMINATOR
    BY Constants DEF IInv, TypeOK
  <2> HIDE DEF slice
  <2>2. QED
    BY <1>2, <2>1, BpsBounds
<1>4. /\ toReserve \in Nat /\ toReserve >= SwapOf(suiIn) - tail
      /\ toReserve = effective - fee + slice.lp
  BY <1>2, ToReserveCoversSwap
<1>5. refund = tail
  BY <1>1, <1>2, <1>4
<1>6. reserve \in Nat
  BY <1>4 DEF IInv, TypeOK
<1>7. /\ currentGradThreshold' = threshold
      /\ tokenReserve' = tokenReserve - tokensOut
      /\ held' = held + tokensOut
      /\ graduated' = graduates
      /\ suiReserve' = IF graduates THEN AfterBonuses(reserve) ELSE reserve
      /\ creatorFees' = creatorFees + (slice.creator - buyback)
      /\ protocolFees' = protocolFees + slice.protocol
           + IF graduates THEN Bps(reserve, PROTOCOL_GRAD_BONUS_BPS) ELSE 0
      /\ airdropFees' = airdropFees + slice.airdrop
      /\ buybackFees' = buybackFees + buyback
      /\ lpFeesAccumulated' = lpFeesAccumulated + slice.lp
      /\ lastBuy' = [tail |-> tail, refund |-> refund]
      /\ ops' = ops + 1
      /\ UNCHANGED <<config, exit, supply, oracle>>
  BY DEF SettleBuy, Spend
<1> HIDE DEF effective, fee, slice, buyback, toReserve, refund, reserve
<1>8. /\ AfterBonuses(reserve) \in Nat
      /\ Bps(reserve, PROTOCOL_GRAD_BONUS_BPS) \in Nat
      /\ threshold \in Nat /\ threshold > 0
  <2>1. PROTOCOL_GRAD_BONUS_BPS \in Nat
    BY Constants
  <2>2. Bps(reserve, PROTOCOL_GRAD_BONUS_BPS) \in Nat
    BY <1>6, <2>1, BpsBounds
  <2>3. QED
    BY <1>6, <2>2, BonusBounds, ThresholdsPositive
<1>9. TypeOK'
  <2>1. /\ suiReserve' \in Nat /\ tokenReserve' \in 0 .. CURVE_SUPPLY /\ held' \in Nat
        /\ graduated' \in BOOLEAN /\ currentGradThreshold' \in Nat /\ ops' \in Nat
    BY <1>6, <1>7, <1>8, Constants DEF IInv, TypeOK
  <2>2. /\ creatorFees' \in Nat /\ airdropFees' \in Nat /\ buybackFees' \in Nat
        /\ lpFeesAccumulated' \in Nat /\ lastBuy' \in [tail : Nat, refund : Nat]
    BY <1>2, <1>3, <1>5, <1>7 DEF IInv, TypeOK
  <2>3. protocolFees' \in Nat
    BY <1>2, <1>7, <1>8 DEF IInv, TypeOK
  <2>4. QED
    BY <1>7, <2>1, <2>2, <2>3 DEF IInv, TypeOK, config, exit, oracle
<1>10. ~claimed
  BY DEF IInv
<1>11. MintedOnce'
  BY <1>7, <1>10 DEF IInv, TypeOK, MintedOnce, exit
<1>12. RefundIsTail'
  BY <1>5, <1>7 DEF RefundIsTail
<1>13. ~graduated' => Product' >= Product
  <2> SUFFICES ASSUME ~graduated' PROVE Product' >= Product
    OBVIOUS
  <2>1. tokensOut < tokenReserve
    <3>1. ~graduates
      BY <1>7, Zenon
    <3>2. tokensOut \in Nat /\ tokenReserve \in Nat /\ tokensOut <= tokenReserve
      BY Constants DEF IInv, TypeOK
    <3>3. QED
      BY <3>1, <3>2
  <2>2. /\ SwapOf(suiIn) - tail \in Nat
        /\ tokensOut \in Nat
        /\ tokensOut <= QuoteOut(SwapOf(suiIn) - tail, EffectiveSui, EffectiveToken)
        /\ EffectiveSui \in Nat /\ EffectiveSui > 0 /\ EffectiveToken \in Nat
    BY <2>1, SwapBounds, Reserves DEF IInv
  <2>3. (EffectiveSui + toReserve) * (EffectiveToken - tokensOut)
              >= EffectiveSui * EffectiveToken
    BY <2>2, <1>4, ProductKept
  <2>4. suiReserve' = suiReserve + toReserve
    BY <1>7 DEF reserve
  <2>5. EffectiveSui' = EffectiveSui + toReserve
    BY <2>4, Constants, <1>4 DEF IInv, TypeOK, EffectiveSui
  <2>6. EffectiveToken' = EffectiveToken - tokensOut
    BY <1>7, Constants DEF IInv, TypeOK, EffectiveToken, Sold
  <2>7. QED
    BY <2>3, <2>5, <2>6 DEF Product
<1>14. Backed'
  BY <1>9, <1>13, BackedKept DEF Backed
<1>15. GraduatedIsClaimable'
  <2> SUFFICES ASSUME graduates PROVE AfterBonuses(reserve) >= MIN_GRAD_RESERVE_MIST
    BY <1>7 DEF GraduatedIsClaimable
  <2>1. CASE reserve >= threshold
    BY <2>1, <1>6, <1>8, FloorHolds
  <2>2. CASE drained
    <3>1. tokensOut = tokenReserve
      BY <2>2 DEF IInv, TypeOK
    <3> DEFINE used == SwapOf(suiIn) - tail
    <3>2. used \in Nat /\ used <= toReserve
      BY <1>4, SwapBounds
    <3>3. (EffectiveSui + used + 1) * (EffectiveToken - tokenReserve)
            > EffectiveSui * EffectiveToken
      BY <3>1
    <3> HIDE DEF used
    <3>4. EffectiveSui * EffectiveToken >= VIRTUAL_SUI_RESERVE * VIRTUAL_TOKEN_RESERVE
      BY DEF IInv, Backed, Product
    <3>5. EffectiveToken - tokenReserve = VIRTUAL_TOKEN_RESERVE - CURVE_SUPPLY
      BY Reserves, Constants DEF IInv, TypeOK
    <3>6. (suiReserve + used + VIRTUAL_SUI_RESERVE + 1)
            * (VIRTUAL_TOKEN_RESERVE - CURVE_SUPPLY)
            > VIRTUAL_SUI_RESERVE * VIRTUAL_TOKEN_RESERVE
      <4>1. EffectiveSui + used + 1 = suiReserve + used + VIRTUAL_SUI_RESERVE + 1
        BY <3>2, Constants DEF IInv, TypeOK, EffectiveSui
      <4>2. /\ EffectiveSui * EffectiveToken \in Nat
            /\ VIRTUAL_SUI_RESERVE * VIRTUAL_TOKEN_RESERVE \in Nat
            /\ (suiReserve + used + VIRTUAL_SUI_RESERVE + 1)
                 * (VIRTUAL_TOKEN_RESERVE - CURVE_SUPPLY) \in Int
        BY <3>2, Reserves, Constants DEF IInv, TypeOK
      <4>3. QED
        BY <3>3, <3>4, <3>5, <4>1, <4>2
    <3>7. suiReserve + used \in Nat
      BY <3>2 DEF IInv, TypeOK
    <3>8. DrainReserve \in Int /\ suiReserve + used >= DrainReserve
      BY <3>6, <3>7, DrainedHolds
    <3>9. reserve >= DrainReserve
      BY <3>2, <3>8, <1>4 DEF IInv, TypeOK, reserve
    <3>10. QED
      BY <3>8, <3>9, <1>6, FloorHolds
  <2>3. QED
    BY <2>1, <2>2
<1>16. (claimed => graduated)' /\ (currentGradThreshold \in Thresholds \cup {0})'
  BY <1>7, <1>10 DEF exit
<1>17. QED
  BY <1>9, <1>11, <1>12, <1>13, <1>14, <1>15, <1>16 DEF IInv

\* The last tokens, handed out at no more than the quote, are paid for.
LEMMA QuotedIsPaid ==
    ASSUME NEW x \in Nat, NEW y \in Nat, NEW dx \in Nat, x > 0,
           NEW out \in Nat, out < y, out <= QuoteOut(dx, x, y)
    PROVE  (x + dx + 1) * (y - out) > x * y
<1>1. (x + dx) * (y - out) >= x * y
  <2>1. dx >= dx
    OBVIOUS
  <2>2. QED
    BY <2>1, ProductKept
<1>2. (x + dx + 1) * (y - out) = (x + dx) * (y - out) + (y - out)
  OBVIOUS
<1>3. QED
  BY <1>1, <1>2

\* Path A of buy() preserves the invariant and the pool's worth.
LEMMA BuyDrainStep ==
    ASSUME IInv, NEW suiIn \in SuiAmounts, NEW sender, NEW referral,
           BuyDrain(suiIn, sender, referral)
    PROVE  IInv' /\ (~graduated' => Product' >= Product)
<1> DEFINE swap == SwapOf(suiIn)
           cost == QuoteIn(tokenReserve, EffectiveSui, EffectiveToken)
           used == IF cost > swap THEN swap ELSE cost
           paid == referral # NoReferral
<1>1. /\ suiIn \in Nat /\ swap \in Nat /\ tokenReserve \in Nat
      /\ EffectiveSui \in Nat /\ EffectiveSui > 0
      /\ EffectiveToken \in Nat /\ EffectiveToken > tokenReserve
  BY MarketAssumption, SwapBounds, Reserves, Constants DEF IInv, TypeOK
<1>2. /\ ~graduated
      /\ NaiveOut(suiIn) >= tokenReserve
      /\ SettleBuy(suiIn, paid, tokenReserve, swap - used, ResolveGradThreshold)
  BY DEF BuyDrain, BuyAllowed
<1>3. /\ cost \in Nat
      /\ (EffectiveSui + cost + 1) * (EffectiveToken - tokenReserve)
           > EffectiveSui * EffectiveToken
  BY <1>1, QuoteInBounds
<1>4. (EffectiveSui + swap + 1) * (EffectiveToken - tokenReserve)
           > EffectiveSui * EffectiveToken
  <2>1. tokenReserve <= QuoteOut(swap, EffectiveSui, EffectiveToken)
    <3>1. QuoteOut(swap, EffectiveSui, EffectiveToken) \in Nat
      BY <1>1, QuoteOutBounds
    <3>2. QED
      BY <1>1, <1>2, <3>1 DEF NaiveOut
  <2>2. QED
    BY <1>1, <2>1, QuotedIsPaid
<1> HIDE DEF swap, cost
<1>5. /\ used \in Nat /\ used <= swap
      /\ (EffectiveSui + used + 1) * (EffectiveToken - tokenReserve)
           > EffectiveSui * EffectiveToken
  BY <1>1, <1>3, <1>4
<1>6. /\ swap - used \in Nat /\ swap - used <= SwapOf(suiIn)
      /\ SwapOf(suiIn) - (swap - used) = used
  BY <1>1, <1>5 DEF swap
<1>7. tokenReserve \in 0 .. tokenReserve /\ ~(tokenReserve < tokenReserve)
  BY <1>1
<1>8. ResolveGradThreshold \in Thresholds
  BY ResolvedIsThreshold DEF IInv
<1> HIDE DEF used
<1>9. paid \in BOOLEAN
  OBVIOUS
<1> HIDE DEF paid
<1>10. QED
  BY <1>1, <1>2, <1>5, <1>6, <1>7, <1>8, <1>9, SettleBuyStep

\* Path B of buy() preserves the invariant and the pool's worth.
LEMMA BuyToThresholdStep ==
    ASSUME IInv, NEW suiIn \in SuiAmounts, NEW sender, NEW referral,
           BuyToThreshold(suiIn, sender, referral)
    PROVE  IInv' /\ (~graduated' => Product' >= Product)
<1> DEFINE swap == SwapOf(suiIn)
           threshold == ResolveGradThreshold
           missing == IF threshold > suiReserve THEN threshold - suiReserve ELSE 0
           used == IF missing > swap THEN swap ELSE missing
           clipped == QuoteOut(used, EffectiveSui, EffectiveToken)
           out == IF clipped > tokenReserve THEN tokenReserve ELSE clipped
           paid == referral # NoReferral
<1>1. /\ suiIn \in Nat /\ swap \in Nat /\ tokenReserve \in Nat /\ suiReserve \in Nat
      /\ EffectiveSui \in Nat /\ EffectiveSui > 0
      /\ EffectiveToken \in Nat /\ EffectiveToken > tokenReserve
  BY MarketAssumption, SwapBounds, Reserves, Constants DEF IInv, TypeOK
<1>2. /\ ~graduated
      /\ SettleBuy(suiIn, paid, out, swap - used, threshold)
  BY DEF BuyToThreshold, BuyAllowed
<1>3. threshold \in Thresholds /\ threshold \in Nat
  BY ResolvedIsThreshold, ThresholdsPositive DEF IInv
<1> HIDE DEF swap, threshold
<1>4. used \in Nat /\ used <= swap
  BY <1>1, <1>3
<1> HIDE DEF used
<1>5. clipped \in Nat
  BY <1>1, <1>4, QuoteOutBounds
<1> HIDE DEF clipped
<1>6. out \in 0 .. tokenReserve /\ out \in Nat /\ out <= clipped
  BY <1>1, <1>5
<1> HIDE DEF out
<1>7. (EffectiveSui + used + 1) * (EffectiveToken - out) > EffectiveSui * EffectiveToken
  BY <1>1, <1>4, <1>6, QuotedIsPaid DEF clipped
<1>8. /\ swap - used \in Nat /\ swap - used <= SwapOf(suiIn)
      /\ SwapOf(suiIn) - (swap - used) = used
  BY <1>1, <1>4 DEF swap
<1>9. paid \in BOOLEAN
  OBVIOUS
<1> HIDE DEF paid
<1>10. QED
  BY <1>1, <1>2, <1>3, <1>6, <1>7, <1>8, <1>9, SettleBuyStep DEF clipped

\* Path C of buy() preserves the invariant and the pool's worth.
LEMMA BuyThroughStep ==
    ASSUME IInv, NEW suiIn \in SuiAmounts, NEW sender, NEW referral,
           BuyThrough(suiIn, sender, referral)
    PROVE  IInv' /\ (~graduated' => Product' >= Product)
<1> DEFINE out == NaiveOut(suiIn)
           paid == referral # NoReferral
<1>1. /\ suiIn \in Nat /\ SwapOf(suiIn) \in Nat /\ tokenReserve \in Nat
      /\ EffectiveSui \in Nat /\ EffectiveSui > 0 /\ EffectiveToken \in Nat
  BY MarketAssumption, SwapBounds, Reserves, Constants DEF IInv, TypeOK
<1>2. /\ ~graduated /\ out < tokenReserve
      /\ SettleBuy(suiIn, paid, out, 0, ResolveGradThreshold)
  BY DEF BuyThrough, BuyAllowed
<1>3. out \in Nat /\ out = QuoteOut(SwapOf(suiIn) - 0, EffectiveSui, EffectiveToken)
  BY <1>1, QuoteOutBounds DEF NaiveOut
<1>4. ResolveGradThreshold \in Thresholds
  BY ResolvedIsThreshold DEF IInv
<1> HIDE DEF out
<1>5. out \in 0 .. tokenReserve /\ out # tokenReserve
      /\ out <= QuoteOut(SwapOf(suiIn) - 0, EffectiveSui, EffectiveToken)
  BY <1>1, <1>2, <1>3
<1>6. paid \in BOOLEAN /\ 0 \in Nat /\ 0 <= SwapOf(suiIn)
  BY <1>1
<1> HIDE DEF paid
<1>7. QED
  BY <1>1, <1>2, <1>4, <1>5, <1>6, SettleBuyStep

---------------------------------------------------------------------------
(* Selling *)

\* What a sale is quoted keeps the product, and what it takes out of the
\* reserve is at most that quote.
LEMMA SellQuote ==
    ASSUME TypeOK, NEW tokensIn \in Nat
    PROVE  /\ GrossOut(tokensIn) \in Nat /\ GrossOut(tokensIn) <= EffectiveSui
           /\ SellWithdraw(tokensIn) \in Nat
           /\ SellWithdraw(tokensIn) <= GrossOut(tokensIn)
           /\ (EffectiveToken + tokensIn) * (EffectiveSui - GrossOut(tokensIn))
                >= EffectiveToken * EffectiveSui
<1>1. /\ EffectiveSui \in Nat /\ EffectiveToken \in Nat /\ EffectiveToken > 0
  BY Reserves DEF TypeOK
<1>2. /\ GrossOut(tokensIn) \in Nat /\ GrossOut(tokensIn) <= EffectiveSui
      /\ (EffectiveToken + tokensIn) * (EffectiveSui - GrossOut(tokensIn))
            >= EffectiveToken * EffectiveSui
  BY <1>1, QuoteOutBounds DEF GrossOut
<1> DEFINE fee == Bps(GrossOut(tokensIn), TRADE_FEE_BPS)
<1>3. fee \in Nat /\ fee <= GrossOut(tokensIn)
  BY <1>2, TradeFee
<1> HIDE DEF fee
<1> DEFINE s == SplitFee(fee, FALSE)
<1>4. /\ s.creator \in Nat /\ s.lp \in Nat /\ s.referral \in Nat
      /\ s.airdrop \in Nat /\ s.protocol \in Nat
      /\ s.creator + s.lp + s.referral + s.airdrop + s.protocol = fee
  BY <1>3, SplitFeeSums
<1>5. SellLp(tokensIn) \in Nat /\ SellLp(tokensIn) <= GrossOut(tokensIn)
  <2>1. SellLp(tokensIn) = s.lp
    BY DEF SellLp, fee
  <2> HIDE DEF s
  <2>2. QED
    BY <2>1, <1>2, <1>3, <1>4
<1>6. QED
  BY <1>2, <1>5 DEF SellWithdraw

\* What is in circulation before the exit is at most what the curve has sold.
LEMMA HeldIsSold ==
    ASSUME IInv, ~graduated
    PROVE  tokenReserve + held <= CURVE_SUPPLY
  BY Constants DEF IInv, TypeOK, MintedOnce

\* From the invariant: any sale of what is in circulation leaves the virtual
\* SUI in the pool, hence takes out at most the real reserve.
LEMMA SellersPaid ==
    ASSUME IInv
    PROVE  SellersAlwaysPaid
<1> SUFFICES ASSUME ~graduated, NEW tokensIn \in 1 .. held
             PROVE  suiReserve >= SellWithdraw(tokensIn)
  BY DEF SellersAlwaysPaid
<1> DEFINE x == EffectiveToken
           y == EffectiveSui
           gross == GrossOut(tokensIn)
           VS == VIRTUAL_SUI_RESERVE
           VT == VIRTUAL_TOKEN_RESERVE
<1>1. /\ x \in Nat /\ y \in Nat /\ tokensIn \in Nat /\ VS \in Nat /\ VT \in Nat
      /\ suiReserve \in Nat
      /\ y = suiReserve + VS
  BY Reserves, Constants DEF IInv, TypeOK
<1>2. x + tokensIn <= VT /\ x + tokensIn > 0
  BY HeldIsSold, Reserves, Constants DEF IInv, TypeOK
<1>3. /\ gross \in Nat /\ gross <= y
      /\ SellWithdraw(tokensIn) \in Nat /\ SellWithdraw(tokensIn) <= gross
      /\ (x + tokensIn) * (y - gross) >= x * y
  BY <1>1, SellQuote DEF IInv
<1>4. y * x >= VS * VT
  BY DEF IInv, Backed, Product
<1> HIDE DEF x, y, gross, VS, VT
<1>5. VS * VT >= VS * (x + tokensIn)
  BY <1>1, <1>2
<1>6. (x + tokensIn) * (y - gross) >= VS * (x + tokensIn)
  <2>1. /\ (x + tokensIn) * (y - gross) \in Int /\ x * y \in Int /\ x * y = y * x
        /\ VS * VT \in Int /\ VS * (x + tokensIn) \in Int
    BY <1>1, <1>3
  <2>2. QED
    BY <1>3, <1>4, <1>5, <2>1
<1>7. y - gross >= VS
  <2> SUFFICES ASSUME y - gross + 1 <= VS PROVE FALSE
    BY <1>1, <1>3
  <2>1. (y - gross + 1) * (x + tokensIn) <= VS * (x + tokensIn)
    BY <1>1, <1>3, MulLe
  <2>2. QED
    BY <2>1, <1>1, <1>2, <1>3, <1>6
<1>8. QED
  BY <1>1, <1>3, <1>7

\* sell() preserves the invariant and the pool's worth.
LEMMA SellStep ==
    ASSUME IInv, NEW tokensIn \in TokenAmounts, NEW referral, Sell(tokensIn, referral)
    PROVE  IInv' /\ (~graduated' => Product' >= Product)
<1> DEFINE fee     == Bps(GrossOut(tokensIn), TRADE_FEE_BPS)
           paid    == referral # NoReferral
           slice   == SplitFee(fee, paid)
           buyback == Bps(slice.creator, buybackBps)
           out     == SellWithdraw(tokensIn)
           gross   == GrossOut(tokensIn)
<1>1. /\ tokensIn \in Nat /\ tokensIn <= held /\ ~graduated /\ suiReserve >= out
      /\ suiReserve' = suiReserve - out
      /\ tokenReserve' = tokenReserve + tokensIn
      /\ held' = held - tokensIn
      /\ creatorFees' = creatorFees + (slice.creator - buyback)
      /\ protocolFees' = protocolFees + slice.protocol
      /\ airdropFees' = airdropFees + slice.airdrop
      /\ buybackFees' = buybackFees + buyback
      /\ ops' = ops + 1
      /\ UNCHANGED <<lpFeesAccumulated, config, graduated, exit,
                     currentGradThreshold, supply, oracle, lastBuy>>
  BY MarketAssumption DEF Sell, Spend, IInv, TypeOK
<1>2. /\ gross \in Nat /\ gross <= EffectiveSui /\ out \in Nat /\ out <= gross
      /\ (EffectiveToken + tokensIn) * (EffectiveSui - gross)
           >= EffectiveToken * EffectiveSui
  BY <1>1, SellQuote DEF IInv
<1>3. /\ slice.creator \in Nat /\ slice.airdrop \in Nat /\ slice.protocol \in Nat
  <2>1. paid \in BOOLEAN
    OBVIOUS
  <2>2. fee \in Nat
    BY <1>2, TradeFee
  <2> HIDE DEF paid, fee
  <2>3. QED
    BY <2>1, <2>2, SplitFeeSums
<1>4. buyback \in Nat /\ buyback <= slice.creator
  <2>1. buybackBps \in Nat /\ buybackBps <= BPS_DENOMINATOR
    BY Constants DEF IInv, TypeOK
  <2> HIDE DEF slice
  <2>2. QED
    BY <1>3, <2>1, BpsBounds
<1> HIDE DEF fee, paid, slice, buyback, out, gross
<1>5. tokenReserve + tokensIn <= CURVE_SUPPLY
  BY <1>1, HeldIsSold, Constants DEF IInv, TypeOK
<1>6. TypeOK'
  <2>1. /\ suiReserve' \in Nat /\ tokenReserve' \in 0 .. CURVE_SUPPLY /\ held' \in Nat
        /\ ops' \in Nat
    BY <1>1, <1>2, <1>5, Constants DEF IInv, TypeOK
  <2>2. /\ creatorFees' \in Nat /\ airdropFees' \in Nat /\ buybackFees' \in Nat
        /\ protocolFees' \in Nat
    BY <1>1, <1>3, <1>4 DEF IInv, TypeOK
  <2>3. QED
    BY <1>1, <2>1, <2>2 DEF IInv, TypeOK, config, exit, oracle
<1>7. Product' >= Product
  <2>1. EffectiveSui' = EffectiveSui - out
    BY <1>1, <1>2, Constants DEF IInv, TypeOK, EffectiveSui
  <2>2. EffectiveToken' = EffectiveToken + tokensIn
    BY <1>1, Constants DEF IInv, TypeOK, EffectiveToken, Sold
  <2>3. EffectiveSui \in Nat /\ EffectiveToken \in Nat
    BY Reserves DEF IInv
  <2>4. (EffectiveSui - gross) * (EffectiveToken + tokensIn)
          <= (EffectiveSui - out) * (EffectiveToken + tokensIn)
    BY <1>1, <1>2, <2>3, MulLe
  <2>5. (EffectiveSui - out) * (EffectiveToken + tokensIn)
          >= EffectiveSui * EffectiveToken
    BY <1>1, <1>2, <2>3, <2>4
  <2>6. QED
    BY <2>1, <2>2, <2>5 DEF Product
<1>8. Backed'
  BY <1>1, <1>6, <1>7, BackedKept
<1>9. MintedOnce'
  BY <1>1, Constants DEF IInv, TypeOK, MintedOnce, exit
<1>10. GraduatedIsClaimable' /\ RefundIsTail' /\ (claimed => graduated)'
         /\ (currentGradThreshold \in Thresholds \cup {0})'
  BY <1>1 DEF IInv, GraduatedIsClaimable, RefundIsTail, exit
<1>11. QED
  BY <1>6, <1>7, <1>8, <1>9, <1>10 DEF IInv

---------------------------------------------------------------------------
(* Buyback, graduation, exit *)

\* execute_buyback() preserves the invariant and the pool's worth.
LEMMA ExecuteBuybackStep ==
    ASSUME IInv, ExecuteBuyback
    PROVE  IInv' /\ (~graduated' => Product' >= Product)
<1> DEFINE naive  == QuoteOut(buybackFees, EffectiveSui, EffectiveToken)
           bought == IF naive > tokenReserve THEN tokenReserve ELSE naive
<1>1. /\ ~graduated
      /\ suiReserve' = suiReserve + buybackFees
      /\ buybackFees' = 0
      /\ tokenReserve' = tokenReserve - bought
      /\ supply' = IF buybackBurn THEN supply - bought ELSE supply
      /\ held' = IF buybackBurn THEN held ELSE held + bought
      /\ ops' = ops + 1
      /\ UNCHANGED <<creatorFees, protocolFees, airdropFees, lpFeesAccumulated,
                     config, graduated, exit, currentGradThreshold, oracle, lastBuy>>
  BY DEF ExecuteBuyback, BuybackAllowed, HeldAfterBuyback, Spend
<1>2. /\ EffectiveSui \in Nat /\ EffectiveSui > 0 /\ EffectiveToken \in Nat
      /\ buybackFees \in Nat /\ tokenReserve \in Nat /\ tokenReserve <= CURVE_SUPPLY
      /\ CURVE_SUPPLY \in Nat
  BY Reserves, Constants DEF IInv, TypeOK
<1>3. naive \in Nat
  BY <1>2, QuoteOutBounds
<1> HIDE DEF naive
<1>4. bought \in Nat /\ bought <= tokenReserve /\ bought <= naive
  BY <1>2, <1>3
<1> HIDE DEF bought
<1>5. TypeOK'
  <2>1. supply - bought \in Nat
    BY <1>2, <1>4 DEF IInv, TypeOK, MintedOnce
  <2>2. /\ suiReserve' \in Nat /\ tokenReserve' \in 0 .. CURVE_SUPPLY /\ held' \in Nat
        /\ supply' \in Nat /\ buybackFees' \in Nat /\ ops' \in Nat
    BY <1>1, <1>2, <1>4, <2>1 DEF IInv, TypeOK
  <2>3. QED
    BY <1>1, <2>2 DEF IInv, TypeOK, config, exit, oracle
<1>6. Product' >= Product
  <2>1. EffectiveSui' = EffectiveSui + buybackFees
    BY <1>1, <1>2, Constants DEF IInv, TypeOK, EffectiveSui
  <2>2. EffectiveToken' = EffectiveToken - bought
    BY <1>1, <1>2, <1>4, Constants DEF EffectiveToken, Sold
  <2>3. buybackFees >= buybackFees
    BY <1>2
  <2>4. (EffectiveSui + buybackFees) * (EffectiveToken - bought)
          >= EffectiveSui * EffectiveToken
    BY <1>2, <1>4, <2>3, ProductKept DEF naive
  <2>5. QED
    BY <2>1, <2>2, <2>4 DEF Product
<1>7. Backed'
  BY <1>1, <1>5, <1>6, BackedKept
<1>8. MintedOnce'
  BY <1>1, <1>2, <1>4, Constants DEF IInv, TypeOK, MintedOnce, exit
<1>9. GraduatedIsClaimable' /\ RefundIsTail' /\ (claimed => graduated)'
        /\ (currentGradThreshold \in Thresholds \cup {0})'
  BY <1>1 DEF IInv, GraduatedIsClaimable, RefundIsTail, exit
<1>10. QED
  BY <1>5, <1>6, <1>7, <1>8, <1>9 DEF IInv

\* graduate() preserves the invariant.
LEMMA GraduateStep ==
    ASSUME IInv, Graduate
    PROVE  IInv' /\ graduated'
<1>1. /\ ~graduated
      /\ graduated' = TRUE
      /\ suiReserve' = AfterBonuses(suiReserve)
      /\ protocolFees' = protocolFees + Bps(suiReserve, PROTOCOL_GRAD_BONUS_BPS)
      /\ UNCHANGED <<tokenReserve, creatorFees, airdropFees, buybackFees,
                     lpFeesAccumulated, config, exit, currentGradThreshold, supply,
                     held, oracle, lastBuy, ops>>
  BY DEF Graduate
<1>2. suiReserve \in Nat
  BY DEF IInv, TypeOK
<1>3. AfterBonuses(suiReserve) \in Nat
  BY <1>2, BonusBounds
<1>4. Bps(suiReserve, PROTOCOL_GRAD_BONUS_BPS) \in Nat
  <2>1. PROTOCOL_GRAD_BONUS_BPS \in Nat
    BY Constants
  <2>2. QED
    BY <1>2, <2>1, BpsBounds
<1>5. TypeOK'
  BY <1>1, <1>3, <1>4 DEF IInv, TypeOK, config, exit, oracle
<1>6. AfterBonuses(suiReserve) >= MIN_GRAD_RESERVE_MIST
  <2>1. CASE tokenReserve = 0
    <3>1. (suiReserve + VIRTUAL_SUI_RESERVE) * (VIRTUAL_TOKEN_RESERVE - CURVE_SUPPLY)
            >= VIRTUAL_SUI_RESERVE * VIRTUAL_TOKEN_RESERVE
      <4>1. EffectiveToken = VIRTUAL_TOKEN_RESERVE - CURVE_SUPPLY
        BY <2>1, Constants DEF EffectiveToken, Sold
      <4>2. QED
        BY <1>1, <4>1 DEF IInv, Backed, Product, EffectiveSui
    <3>2. (suiReserve + VIRTUAL_SUI_RESERVE + 1) * (VIRTUAL_TOKEN_RESERVE - CURVE_SUPPLY)
            > VIRTUAL_SUI_RESERVE * VIRTUAL_TOKEN_RESERVE
      <4> DEFINE left == VIRTUAL_TOKEN_RESERVE - CURVE_SUPPLY
      <4>1. left \in Nat /\ left > 0
        BY Constants
      <4> HIDE DEF left
      <4>2. (suiReserve + VIRTUAL_SUI_RESERVE + 1) * left
              = (suiReserve + VIRTUAL_SUI_RESERVE) * left + left
        BY <1>2, <4>1, Constants
      <4>3. QED
        BY <1>2, <3>1, <4>1, <4>2, Constants DEF left
    <3>3. DrainReserve \in Int /\ suiReserve >= DrainReserve
      BY <1>2, <3>2, DrainedHolds
    <3>4. QED
      BY <1>2, <3>3, FloorHolds
  <2>2. CASE currentGradThreshold > 0 /\ suiReserve >= currentGradThreshold
    <3>1. currentGradThreshold \in Thresholds /\ currentGradThreshold \in Int
      BY <2>2 DEF IInv, TypeOK
    <3>2. QED
      BY <1>2, <2>2, <3>1, FloorHolds
  <2>3. QED
    BY <2>1, <2>2 DEF Graduate, GraduateReady
<1>7. Backed' /\ MintedOnce' /\ GraduatedIsClaimable' /\ RefundIsTail'
        /\ (claimed => graduated)' /\ (currentGradThreshold \in Thresholds \cup {0})'
  BY <1>1, <1>6
     DEF IInv, Backed, MintedOnce, GraduatedIsClaimable, RefundIsTail, exit
<1>8. QED
  BY <1>1, <1>5, <1>7 DEF IInv

\* claim_graduation_funds_impl() preserves the invariant.
LEMMA ClaimStep ==
    ASSUME IInv, ClaimGraduationFunds
    PROVE  IInv' /\ graduated'
<1>1. TypeOK'
  BY Constants DEF ClaimGraduationFunds, IInv, TypeOK, buckets, config, oracle
<1>2. MintedOnce'
  BY Constants DEF ClaimGraduationFunds, IInv, TypeOK, MintedOnce
<1>3. QED
  BY <1>1, <1>2
     DEF ClaimGraduationFunds, IInv, Backed, GraduatedIsClaimable, RefundIsTail

\* Everything that touches neither the reserves, the tokens nor the threshold.
LEMMA SideStep ==
    ASSUME IInv, TypeOK',
           UNCHANGED <<suiReserve, tokenReserve, graduated, claimed,
                       currentGradThreshold, supply, held, lastBuy>>
    PROVE  IInv' /\ (~graduated' => Product' >= Product)
<1>1. Product' = Product /\ Product \in Nat
  BY Reserves DEF IInv, Product, EffectiveSui, EffectiveToken, Sold
<1>2. QED
  BY <1>1 DEF IInv, Backed, MintedOnce, GraduatedIsClaimable, RefundIsTail

\* Fee claims, comments, pause, configuration, prices and time preserve the
\* invariant.
LEMMA OtherSteps ==
    ASSUME IInv,
           \/ \E bps \in BuybackChoices, burn \in BOOLEAN : SetBuybackConfig(bps, burn)
           \/ RecordGraduationPool \/ ClaimFees
           \/ (\E amount \in ProtocolPayments : PayProtocol(amount))
           \/ \E value \in BOOLEAN : SetPaused(value)
           \/ \E p \in Prices : SetSuiPrice(p)
           \/ Tick \/ UNCHANGED vars
    PROVE  IInv' /\ (~graduated' => Product' >= Product)
<1> USE DEF IInv, TypeOK, buckets, config, exit, oracle
<1>1. CASE \E bps \in BuybackChoices, burn \in BOOLEAN : SetBuybackConfig(bps, burn)
  BY <1>1, SideStep, MarketAssumption, Constants
     DEF SetBuybackConfig, BuybackBpsValid, Spend
<1>2. CASE RecordGraduationPool
  BY <1>2, SideStep DEF RecordGraduationPool
<1>3. CASE ClaimFees
  BY <1>3, SideStep DEF ClaimFees
<1>4. CASE \E amount \in ProtocolPayments : PayProtocol(amount)
  BY <1>4, SideStep, Constants DEF PayProtocol, Spend
<1>5. CASE \E value \in BOOLEAN : SetPaused(value)
  BY <1>5, SideStep DEF SetPaused
<1>6. CASE \E p \in Prices : SetSuiPrice(p)
  BY <1>6, SideStep DEF SetSuiPrice
<1>7. CASE Tick
  BY <1>7, SideStep DEF Tick
<1>8. CASE UNCHANGED vars
  BY <1>8, SideStep DEF vars
<1>9. QED
  BY <1>1, <1>2, <1>3, <1>4, <1>5, <1>6, <1>7, <1>8

---------------------------------------------------------------------------
(* The theorems *)

\* A newly created curve satisfies the invariant.
LEMMA InitIInv == Init => IInv
<1> SUFFICES ASSUME Init PROVE IInv
  OBVIOUS
<1>1. TypeOK
  <2>1. lastBuy \in [tail : Nat, refund : Nat]
    BY DEF Init, NoBuy
  <2>2. tokenReserve \in 0 .. CURVE_SUPPLY /\ supply \in Nat /\ protocolFees \in Nat
        /\ buybackBps \in 0 .. BPS_DENOMINATOR
    BY Constants DEF Init
  <2>3. QED
    BY <2>1, <2>2 DEF Init, TypeOK
<1>2. Backed
  BY Constants DEF Init, Backed, Product, EffectiveSui, EffectiveToken, Sold
<1>3. QED
  BY <1>1, <1>2, Constants
     DEF Init, IInv, MintedOnce, GraduatedIsClaimable, RefundIsTail, NoBuy

\* Every step preserves the invariant and, on an open curve, the pool's worth.
LEMMA NextIInv ==
    ASSUME IInv, [Next]_vars
    PROVE  IInv' /\ (~graduated' => Product' >= Product)
<1>1. CASE \E suiIn \in SuiAmounts, sender \in Users, referral \in Users \cup {NoReferral} :
             \/ BuyDrain(suiIn, sender, referral)
             \/ BuyToThreshold(suiIn, sender, referral)
             \/ BuyThrough(suiIn, sender, referral)
  BY <1>1, BuyDrainStep, BuyToThresholdStep, BuyThroughStep
<1>2. CASE \E tokensIn \in TokenAmounts, referral \in Users \cup {NoReferral} :
             Sell(tokensIn, referral)
  BY <1>2, SellStep
<1>3. CASE ExecuteBuyback
  BY <1>3, ExecuteBuybackStep
<1>4. CASE Graduate
  BY <1>4, GraduateStep
<1>5. CASE ClaimGraduationFunds
  BY <1>5, ClaimStep
<1>6. QED
  BY <1>1, <1>2, <1>3, <1>4, <1>5, OtherSteps DEF Next

\* The inductive invariant of the curve.
THEOREM CurveInvariant == Spec => []IInv
<1>1. Init => IInv
  BY InitIInv
<1>2. IInv /\ [Next]_vars => IInv'
  BY NextIInv
<1>3. QED
  BY <1>1, <1>2, PTL DEF Spec

\* Type correctness of the curve: no bucket, reserve or counter ever underflows.
THEOREM TypeCorrect == Spec => []TypeOK
<1>1. IInv => TypeOK
  BY DEF IInv
<1>2. QED
  BY <1>1, CurveInvariant, PTL

\* sell()'s EInsufficientTokens assert is unreachable: every holder can always
\* be paid out of the real reserve.
THEOREM Solvency == Spec => []SellersAlwaysPaid
<1>1. IInv => SellersAlwaysPaid
  BY SellersPaid
<1>2. QED
  BY <1>1, CurveInvariant, PTL

\* The TreasuryCap mints beyond the curve supply once, in the one-shot claim.
THEOREM MintingIsOneShot == Spec => []MintedOnce
<1>1. IInv => MintedOnce
  BY DEF IInv
<1>2. QED
  BY <1>1, CurveInvariant, PTL

\* EReserveTooLow never blocks the claim of a graduated curve, on any path to
\* graduation, if FloorAssumption holds of the published thresholds.
THEOREM ClaimNeverBlocked == Spec => []GraduatedIsClaimable
<1>1. IInv => GraduatedIsClaimable
  BY DEF IInv
<1>2. QED
  BY <1>1, CurveInvariant, PTL

\* buy() hands back the clipped tail and nothing else.
THEOREM RefundIsExact == Spec => []RefundIsTail
<1>1. IInv => RefundIsTail
  BY DEF IInv
<1>2. QED
  BY <1>1, CurveInvariant, PTL

\* No trade or buyback makes the pool of an open curve worth less.
THEOREM PoolKeepsValue == Spec => PoolNeverLosesValue
<1>1. IInv /\ [Next]_vars => [~graduated' => Product' >= Product]_vars
  BY NextIInv
<1>2. QED
  BY <1>1, CurveInvariant, PTL DEF Spec, PoolNeverLosesValue

---------------------------------------------------------------------------
(* The curve implements the launch's life cycle *)

\* The claim of a graduated curve is the life cycle's exit.
LEMMA ClaimIsExit ==
    ASSUME IInv, ClaimGraduationFunds
    PROVE  Lifecycle!Exit
<1>1. TOTAL_SUPPLY - CURVE_SUPPLY = 0 + (TOTAL_SUPPLY - CURVE_SUPPLY)
  BY Constants
<1>2. QED
  BY <1>1 DEF ClaimGraduationFunds, Lifecycle!Exit

\* Steps that leave the claim marker alone.  A graduated curve's reserve moves
\* in the claim only; an open one's may move, or graduate, at any time.
LEMMA OpenIsTradeOrGraduation ==
    ASSUME IInv, IInv', ~graduated, claimed' = claimed
    PROVE  Lifecycle!Trade \/ Lifecycle!Graduation
<1>1. ~claimed /\ ~claimed'
  BY DEF IInv
<1>2. suiReserve' \in Nat /\ graduated' \in BOOLEAN
  BY DEF IInv, TypeOK
<1>3. CASE ~graduated'
  BY <1>1, <1>2, <1>3 DEF Lifecycle!Trade
<1>4. CASE graduated'
  <2>1. suiReserve' >= MIN_GRAD_RESERVE_MIST
    BY <1>1, <1>4 DEF IInv, GraduatedIsClaimable
  <2>2. QED
    BY <1>1, <1>2, <1>4, <2>1 DEF Lifecycle!Graduation
<1>5. QED
  BY <1>3, <1>4

\* On a graduated curve every step but the claim keeps the reserve.
LEMMA GraduatedIsQuiet ==
    ASSUME IInv, [Next]_vars, graduated, ~ClaimGraduationFunds
    PROVE  UNCHANGED <<suiReserve, graduated, claimed>>
<1> USE DEF config, exit
<1>1. ASSUME NEW suiIn, NEW sender, NEW referral,
             \/ BuyDrain(suiIn, sender, referral)
             \/ BuyToThreshold(suiIn, sender, referral)
             \/ BuyThrough(suiIn, sender, referral)
      PROVE  FALSE
  BY <1>1 DEF BuyDrain, BuyToThreshold, BuyThrough, BuyAllowed
<1>2. ASSUME NEW tokensIn, NEW referral, Sell(tokensIn, referral) PROVE FALSE
  BY <1>2 DEF Sell
<1>3. ~ExecuteBuyback /\ ~Graduate
  BY DEF ExecuteBuyback, BuybackAllowed, Graduate
<1>4. CASE \E bps \in BuybackChoices, burn \in BOOLEAN : SetBuybackConfig(bps, burn)
  BY <1>4 DEF SetBuybackConfig
<1>5. CASE RecordGraduationPool
  BY <1>5 DEF RecordGraduationPool
<1>6. CASE ClaimFees
  BY <1>6 DEF ClaimFees
<1>7. CASE \E amount \in ProtocolPayments : PayProtocol(amount)
  BY <1>7 DEF PayProtocol
<1>8. CASE \E value \in BOOLEAN : SetPaused(value)
  BY <1>8 DEF SetPaused
<1>9. CASE (\E p \in Prices : SetSuiPrice(p)) \/ Tick
  BY <1>9 DEF SetSuiPrice, Tick
<1>10. CASE UNCHANGED vars
  BY <1>10 DEF vars
<1>11. QED
  BY <1>1, <1>2, <1>3, <1>4, <1>5, <1>6, <1>7, <1>8, <1>9, <1>10 DEF Next

\* On an open curve no step sets the claim marker.
LEMMA OpenKeepsMarker ==
    ASSUME IInv, [Next]_vars, ~graduated
    PROVE  claimed' = claimed
<1> USE DEF config, exit
<1>1. ASSUME NEW suiIn, NEW sender, NEW referral,
             \/ BuyDrain(suiIn, sender, referral)
             \/ BuyToThreshold(suiIn, sender, referral)
             \/ BuyThrough(suiIn, sender, referral)
      PROVE  claimed' = claimed
  BY <1>1 DEF BuyDrain, BuyToThreshold, BuyThrough, SettleBuy
<1>2. ASSUME NEW tokensIn, NEW referral, Sell(tokensIn, referral)
      PROVE  claimed' = claimed
  BY <1>2 DEF Sell
<1>3. CASE ExecuteBuyback \/ Graduate
  BY <1>3 DEF ExecuteBuyback, Graduate
<1>4. ~ClaimGraduationFunds
  BY DEF ClaimGraduationFunds
<1>5. CASE \E bps \in BuybackChoices, burn \in BOOLEAN : SetBuybackConfig(bps, burn)
  BY <1>5 DEF SetBuybackConfig
<1>6. CASE RecordGraduationPool \/ ClaimFees
           \/ (\E amount \in ProtocolPayments : PayProtocol(amount))
  BY <1>6 DEF RecordGraduationPool, ClaimFees, PayProtocol
<1>7. CASE \E value \in BOOLEAN : SetPaused(value)
  BY <1>7 DEF SetPaused
<1>8. CASE (\E p \in Prices : SetSuiPrice(p)) \/ Tick
  BY <1>8 DEF SetSuiPrice, Tick
<1>9. CASE UNCHANGED vars
  BY <1>9 DEF vars
<1>10. QED
  BY <1>1, <1>2, <1>3, <1>4, <1>5, <1>6, <1>7, <1>8, <1>9 DEF Next

\* The curve implements LaunchLifecycle: whatever happens to it, the launch
\* graduates once, with the pool's minimum behind it, and exits once.
THEOREM CurveImplementsLifecycle == Spec => ImplementsLifecycle
<1>1. Init => Lifecycle!LifecycleInit
  BY DEF Init, Lifecycle!LifecycleInit
<1>2. IInv /\ IInv' /\ [Next]_vars
        => [Lifecycle!LifecycleNext]_(Lifecycle!lifecycle)
  <2> SUFFICES ASSUME IInv, IInv', [Next]_vars
               PROVE  [Lifecycle!LifecycleNext]_(Lifecycle!lifecycle)
    OBVIOUS
  <2>1. CASE ~graduated
    BY <2>1, OpenKeepsMarker, OpenIsTradeOrGraduation DEF Lifecycle!LifecycleNext
  <2>2. CASE ClaimGraduationFunds
    BY <2>2, ClaimIsExit DEF Lifecycle!LifecycleNext
  <2>3. CASE graduated /\ ~ClaimGraduationFunds
    <3>1. suiReserve' = suiReserve /\ graduated' = graduated /\ claimed' = claimed
      BY <2>3, GraduatedIsQuiet
    <3>2. UNCHANGED Lifecycle!lifecycle
      BY <3>1 DEF Lifecycle!lifecycle
    <3>3. QED
      BY <3>2
  <2>4. QED
    BY <2>1, <2>2, <2>3
<1>3. QED
  BY <1>1, <1>2, CurveInvariant, PTL
     DEF Spec, ImplementsLifecycle, Lifecycle!LifecycleSpec
=============================================================================
