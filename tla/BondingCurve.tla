---------------------------- MODULE BondingCurve ----------------------------
(***************************************************************************)
(* One Curve<T> shared object of contracts-v10/sources/bonding_curve.move, *)
(* with the PriceConfig it reads: trading, fee buckets, fee-funded         *)
(* buyback, graduation, and the exit of the reserve to a DEX pool.  A Move *)
(* transaction is atomic and a failed assert undoes it, so every entry     *)
(* function is one action, its asserts are the action's guards and an      *)
(* aborted call is a stuttering step.  Slippage limits are asserts on the  *)
(* caller's own input, hence also stuttering steps.  The tokens of all     *)
(* holders are one number, "held": nothing here depends on who holds them. *)
(***************************************************************************)
EXTENDS CurveMath

CONSTANTS
    Users, Creator, NoReferral, \* addresses; Creator is curve.creator
    SuiAmounts,                 \* the payments buy() is called with
    TokenAmounts,               \* the amounts sell() is called with
    BuybackChoices,             \* the buyback_bps the creator configures
    Prices,                     \* the price_scaled values the relayer publishes
    GradThresholds,             \* dampened_grad_threshold on Prices
    PRICE_MAX_AGE_MS,
    ANTI_BOT_DELAY,
    LAUNCH_FEE_MIST,
    ProtocolPayments,           \* COMMENT_FEE_MIST, and what launch surcharges pay
    MIN_GRAD_RESERVE_MIST,
    MaxTime, MaxOps             \* bounds of the model, not of the code

ASSUME MarketAssumption ==
    /\ Creator \in Users /\ NoReferral \notin Users
    /\ SuiAmounts \subseteq Nat /\ TokenAmounts \subseteq Nat
    /\ BuybackChoices \subseteq Nat /\ ProtocolPayments \subseteq Nat
    /\ Prices \subseteq Nat \ {0}
    /\ GradThresholds \in [Prices -> Nat \ {0}]
    /\ {PRICE_MAX_AGE_MS, ANTI_BOT_DELAY, LAUNCH_FEE_MIST,
        MIN_GRAD_RESERVE_MIST, MaxTime, MaxOps} \subseteq Nat

\* Every threshold resolve_grad_threshold returns.
Thresholds == {BASE_GRAD_MIST} \cup {GradThresholds[p] : p \in Prices}

\* The SUI a curve holds when its last token is sold (12,803 in the code).
DrainReserve ==
    (VIRTUAL_SUI_RESERVE * VIRTUAL_TOKEN_RESERVE)
      \div (VIRTUAL_TOKEN_RESERVE - CURVE_SUPPLY) - VIRTUAL_SUI_RESERVE

\* MIN_GRAD_RESERVE_MIST "must sit BELOW the smallest LEGITIMATE threshold",
\* both bonuses deducted.
ASSUME FloorAssumption ==
    \A reserve \in Thresholds \cup {DrainReserve} :
        reserve * (BPS_DENOMINATOR - CREATOR_GRAD_BONUS_BPS - PROTOCOL_GRAD_BONUS_BPS)
          >= MIN_GRAD_RESERVE_MIST * BPS_DENOMINATOR

VARIABLES
    suiReserve, tokenReserve,
    creatorFees, protocolFees, airdropFees, buybackFees, lpFeesAccumulated,
    buybackBps, buybackBurn,
    paused, graduated,
    claimed,                \* the GRAD_CLAIMED_KEY marker is on the curve
    poolRecorded,           \* pool_id is some
    currentGradThreshold,
    supply,                 \* total_supply of the TreasuryCap
    held,                   \* tokens in coins outside the curve
    price, priceUpdatedAt,  \* PriceConfig
    now,
    lastBuy,                \* tail_refund of the last TokensPurchased event, and
                            \* the change buy() handed back
    ops                     \* calls made so far, for the bound MaxOps

buckets  == <<creatorFees, protocolFees, airdropFees, buybackFees>>
config   == <<buybackBps, buybackBurn, paused>>
exit     == <<claimed, poolRecorded>>
oracle   == <<price, priceUpdatedAt, now>>
vars == <<suiReserve, tokenReserve, buckets, lpFeesAccumulated, config, graduated,
          exit, currentGradThreshold, supply, held, oracle, lastBuy, ops>>

NoBuy == [tail |-> 0, refund |-> 0]

\* The curve as create_and_return leaves it, with nothing sold, and the
\* PriceConfig as init or create_price_config shares it, with no price yet.
Init ==
    /\ suiReserve = 0 /\ tokenReserve = CURVE_SUPPLY
    /\ creatorFees = 0 /\ protocolFees = LAUNCH_FEE_MIST
    /\ airdropFees = 0 /\ buybackFees = 0 /\ lpFeesAccumulated = 0
    /\ buybackBps = 0 /\ buybackBurn = FALSE
    /\ paused = FALSE /\ graduated = FALSE /\ claimed = FALSE
    /\ poolRecorded = FALSE /\ currentGradThreshold = 0
    /\ supply = CURVE_SUPPLY /\ held = 0
    /\ price = 0 /\ priceUpdatedAt = 0 /\ now = 0
    /\ lastBuy = NoBuy /\ ops = 0

---------------------------------------------------------------------------
(* What the entry functions compute from the state *)

EffectiveSui   == suiReserve + VIRTUAL_SUI_RESERVE
Sold           == CURVE_SUPPLY - tokenReserve
EffectiveToken == VIRTUAL_TOKEN_RESERVE - Sold

\* resolve_grad_threshold: an absent or stale price falls back to the base.
ResolveGradThreshold ==
    IF price = 0 \/ now > priceUpdatedAt + PRICE_MAX_AGE_MS
    THEN BASE_GRAD_MIST
    ELSE GradThresholds[price]

\* do_graduate_inline: the creator's bonus leaves the curve, the protocol's
\* goes to protocol_fees.
AfterBonuses(reserve) ==
    reserve - Bps(reserve, CREATOR_GRAD_BONUS_BPS)
            - Bps(reserve, PROTOCOL_GRAD_BONUS_BPS)

Spend == /\ ops < MaxOps
         /\ ops' = ops + 1

BuyAllowed(suiIn, sender, referral) ==
    /\ ~graduated /\ ~paused
    /\ suiIn > 0
    /\ referral # Creator
    /\ now < ANTI_BOT_DELAY => sender = Creator

SwapOf(suiIn) == suiIn - Bps(suiIn, TRADE_FEE_BPS)

\* The quote on the whole payment, its fee included.
NaiveOut_mut(suiIn) == QuoteOut(suiIn, EffectiveSui, EffectiveToken)

NaiveOut(suiIn) == QuoteOut(SwapOf(suiIn), EffectiveSui, EffectiveToken)

---------------------------------------------------------------------------
(* buy() *)

\* The reserve receives the swap but not the LP slice of the fee.
ToReserve_mut(effective, fee, lp) == effective - fee

\* What joins sui_reserve: the swap and the LP slice of the fee.
ToReserve(effective, fee, lp) == (effective - fee) + lp

\* The part of buy() that all three paths share, once tokensOut and tail are
\* known: charge the fees on what is not refunded, route them, move the
\* tokens, graduate inline, refund what is left of the payment.
SettleBuy(suiIn, hasReferral, tokensOut, tail, threshold) ==
    LET effective == suiIn - tail
        fee       == Bps(effective, TRADE_FEE_BPS)
        slice     == SplitFee(fee, hasReferral)
        buyback   == Bps(slice.creator, buybackBps)
        toReserve == ToReserve(effective, fee, slice.lp)
        refund    == suiIn - slice.creator - slice.protocol - slice.airdrop
                           - slice.referral - toReserve
        reserve   == suiReserve + toReserve
        drained   == tokenReserve - tokensOut = 0
        graduates == drained \/ reserve >= threshold
    IN  /\ tokensOut > 0
        /\ refund >= 0              \* coin::split aborts on a short payment
        /\ currentGradThreshold' = threshold
        /\ tokenReserve' = tokenReserve - tokensOut
        /\ held' = held + tokensOut
        /\ graduated' = graduates
        /\ suiReserve' = IF graduates THEN AfterBonuses(reserve) ELSE reserve
        /\ creatorFees' = creatorFees + (slice.creator - buyback)
        /\ protocolFees' = protocolFees + slice.protocol
             + IF graduates THEN Bps(reserve, PROTOCOL_GRAD_BONUS_BPS) ELSE 0
        /\ airdropFees' = airdropFees + slice.airdrop
        /\ buybackFees' = buybackFees + buyback
        /\ lpFeesAccumulated' = lpFeesAccumulated + slice.lp
        /\ lastBuy' = [tail |-> tail, refund |-> refund]
        /\ Spend
        /\ UNCHANGED <<config, exit, supply, oracle>>

\* Path A: the payment would buy out the curve.  The buyer gets what is left
\* and pays what that costs.
BuyDrain(suiIn, sender, referral) ==
    LET swap == SwapOf(suiIn)
        cost == QuoteIn(tokenReserve, EffectiveSui, EffectiveToken)
        used == IF cost > swap THEN swap ELSE cost
    IN  /\ BuyAllowed(suiIn, sender, referral)
        /\ NaiveOut(suiIn) >= tokenReserve
        /\ SettleBuy(suiIn, referral # NoReferral, tokenReserve, swap - used,
                     ResolveGradThreshold)

\* Path B: the payment would cross the graduation threshold.  The swap is
\* clipped at the threshold; the fee is charged again on the clipped payment.
BuyToThreshold(suiIn, sender, referral) ==
    LET swap      == SwapOf(suiIn)
        threshold == ResolveGradThreshold
        missing   == IF threshold > suiReserve THEN threshold - suiReserve ELSE 0
        used      == IF missing > swap THEN swap ELSE missing
        clipped   == QuoteOut(used, EffectiveSui, EffectiveToken)
    IN  /\ BuyAllowed(suiIn, sender, referral)
        /\ NaiveOut(suiIn) < tokenReserve
        /\ suiReserve + swap >= threshold
        /\ SettleBuy(suiIn, referral # NoReferral,
                     IF clipped > tokenReserve THEN tokenReserve ELSE clipped,
                     swap - used, threshold)

\* Path C: nothing is clipped.
BuyThrough(suiIn, sender, referral) ==
    /\ BuyAllowed(suiIn, sender, referral)
    /\ NaiveOut(suiIn) < tokenReserve
    /\ suiReserve + SwapOf(suiIn) < ResolveGradThreshold
    /\ SettleBuy(suiIn, referral # NoReferral, NaiveOut(suiIn), 0,
                 ResolveGradThreshold)

---------------------------------------------------------------------------
(* sell() *)

GrossOut(tokensIn) == QuoteOut(tokensIn, EffectiveToken, EffectiveSui)
SellLp(tokensIn) ==
    SplitFee(Bps(GrossOut(tokensIn), TRADE_FEE_BPS), FALSE).lp

\* What leaves sui_reserve, quoted after the tokens have left the pool's side.
SellWithdraw_mut(tokensIn) ==
    QuoteOut(tokensIn, EffectiveToken - tokensIn, EffectiveSui)

\* What leaves sui_reserve when tokensIn are sold: all but the LP slice.
SellWithdraw(tokensIn) == GrossOut(tokensIn) - SellLp(tokensIn)

Sell(tokensIn, referral) ==
    LET slice   == SplitFee(Bps(GrossOut(tokensIn), TRADE_FEE_BPS),
                            referral # NoReferral)
        buyback == Bps(slice.creator, buybackBps)
    IN  /\ ~graduated /\ ~paused
        /\ tokensIn \in 1 .. held
        /\ referral # Creator
        /\ suiReserve >= SellWithdraw(tokensIn)
        /\ suiReserve' = suiReserve - SellWithdraw(tokensIn)
        /\ tokenReserve' = tokenReserve + tokensIn
        /\ held' = held - tokensIn
        /\ creatorFees' = creatorFees + (slice.creator - buyback)
        /\ protocolFees' = protocolFees + slice.protocol
        /\ airdropFees' = airdropFees + slice.airdrop
        /\ buybackFees' = buybackFees + buyback
        /\ Spend
        /\ UNCHANGED <<lpFeesAccumulated, config, graduated, exit,
                       currentGradThreshold, supply, oracle, lastBuy>>
---------------------------------------------------------------------------
(* Fee-funded buyback *)

\* A fraction of the creator's slice above the whole of it.
BuybackBpsValid_mut(bps) == bps <= BPS_DENOMINATOR + 1

BuybackBpsValid(bps) == bps <= BPS_DENOMINATOR

\* set_buyback_config, by the active creator.
SetBuybackConfig(bps, burn) ==
    /\ BuybackBpsValid(bps)
    /\ buybackBps' = bps
    /\ buybackBurn' = burn
    /\ Spend
    /\ UNCHANGED <<suiReserve, tokenReserve, buckets, lpFeesAccumulated, paused,
                   graduated, exit, currentGradThreshold, supply, held, oracle,
                   lastBuy>>

\* The buyback also runs on a graduated curve.
BuybackAllowed_mut == buybackFees > 0

BuybackAllowed == ~graduated /\ buybackFees > 0

\* The bought tokens reach the creator even when they are also burned.
HeldAfterBuyback_mut(bought) == held + bought

HeldAfterBuyback(bought) == IF buybackBurn THEN held ELSE held + bought

\* execute_buyback, by anyone: the whole bucket buys tokens, which are burned
\* or sent to the creator.  It looks at neither the pause nor the threshold.
ExecuteBuyback ==
    LET naive  == QuoteOut(buybackFees, EffectiveSui, EffectiveToken)
        bought == IF naive > tokenReserve THEN tokenReserve ELSE naive
    IN  /\ BuybackAllowed
        /\ bought > 0
        /\ suiReserve' = suiReserve + buybackFees
        /\ buybackFees' = 0
        /\ tokenReserve' = tokenReserve - bought
        /\ supply' = IF buybackBurn THEN supply - bought ELSE supply
        /\ held' = HeldAfterBuyback(bought)
        /\ Spend
        /\ UNCHANGED <<creatorFees, protocolFees, airdropFees, lpFeesAccumulated,
                       config, graduated, exit, currentGradThreshold, oracle,
                       lastBuy>>

---------------------------------------------------------------------------
(* Graduation and the exit to a DEX pool *)

\* graduate() before its self-audit fix F-2.
GraduateReady_mut == tokenReserve = 0 \/ suiReserve >= currentGradThreshold

\* What graduate() asserts: it reads the threshold the last buy stored.
GraduateReady ==
    \/ tokenReserve = 0
    \/ currentGradThreshold > 0 /\ suiReserve >= currentGradThreshold

Graduate ==
    /\ ~graduated
    /\ GraduateReady
    /\ graduated' = TRUE
    /\ suiReserve' = AfterBonuses(suiReserve)
    /\ protocolFees' = protocolFees + Bps(suiReserve, PROTOCOL_GRAD_BONUS_BPS)
    /\ UNCHANGED <<tokenReserve, creatorFees, airdropFees, buybackFees,
                   lpFeesAccumulated, config, exit, currentGradThreshold, supply,
                   held, oracle, lastBuy, ops>>

\* claim_graduation_funds_impl (AdminCap or the active GraduationCap): one
\* shot, drains the reserve and mints the pool's tokens.
ClaimGraduationFunds ==
    /\ graduated
    /\ ~claimed
    /\ suiReserve >= MIN_GRAD_RESERVE_MIST
    /\ claimed' = TRUE
    /\ suiReserve' = 0
    /\ supply' = supply + (TOTAL_SUPPLY - CURVE_SUPPLY)
    /\ held' = held + (TOTAL_SUPPLY - CURVE_SUPPLY)
    /\ UNCHANGED <<tokenReserve, buckets, lpFeesAccumulated, config, graduated,
                   poolRecorded, currentGradThreshold, oracle, lastBuy, ops>>

\* record_graduation_pool_impl.
RecordGraduationPool ==
    /\ graduated
    /\ ~poolRecorded
    /\ poolRecorded' = TRUE
    /\ UNCHANGED <<suiReserve, tokenReserve, buckets, lpFeesAccumulated, config,
                   graduated, claimed, currentGradThreshold, supply, held, oracle,
                   lastBuy, ops>>

---------------------------------------------------------------------------
(* Bucket claims, comments, pause, price *)

\* claim_creator_fees, claim_protocol_fees, claim_airdrop_fees empty a bucket.
ClaimFees ==
    /\ \/ creatorFees > 0 /\ creatorFees' = 0 /\ UNCHANGED <<protocolFees, airdropFees>>
       \/ protocolFees > 0 /\ protocolFees' = 0 /\ UNCHANGED <<creatorFees, airdropFees>>
       \/ airdropFees > 0 /\ airdropFees' = 0 /\ UNCHANGED <<creatorFees, protocolFees>>
    /\ UNCHANGED <<suiReserve, tokenReserve, buybackFees, lpFeesAccumulated, config,
                   graduated, exit, currentGradThreshold, supply, held, oracle,
                   lastBuy, ops>>

\* post_comment and collect_protocol_surcharge pay into protocol_fees.  The
\* first asks for a holder's coin unless the creator has opened the comments
\* to all (set_comment_gate), so anyone may be able to call it.
PayProtocol(amount) ==
    /\ protocolFees' = protocolFees + amount
    /\ Spend
    /\ UNCHANGED <<suiReserve, tokenReserve, creatorFees, airdropFees, buybackFees,
                   lpFeesAccumulated, config, graduated, exit, currentGradThreshold,
                   supply, held, oracle, lastBuy>>

\* set_paused, by the AdminCap holder.
SetPaused(value) ==
    /\ paused' = value
    /\ UNCHANGED <<suiReserve, tokenReserve, buckets, lpFeesAccumulated, buybackBps,
                   buybackBurn, graduated, exit, currentGradThreshold, supply, held,
                   oracle, lastBuy, ops>>

\* set_sui_price, by the PriceRelayerCap holder, within the published band.
SetSuiPrice(p) ==
    /\ price' = p
    /\ priceUpdatedAt' = now
    /\ UNCHANGED <<suiReserve, tokenReserve, buckets, lpFeesAccumulated, config,
                   graduated, exit, currentGradThreshold, supply, held, now, lastBuy,
                   ops>>

Tick ==
    /\ now < MaxTime
    /\ now' = now + 1
    /\ UNCHANGED <<suiReserve, tokenReserve, buckets, lpFeesAccumulated, config,
                   graduated, exit, currentGradThreshold, supply, held, price,
                   priceUpdatedAt, lastBuy, ops>>

Next ==
    \/ \E suiIn \in SuiAmounts, sender \in Users, referral \in Users \cup {NoReferral} :
          \/ BuyDrain(suiIn, sender, referral)
          \/ BuyToThreshold(suiIn, sender, referral)
          \/ BuyThrough(suiIn, sender, referral)
    \/ \E tokensIn \in TokenAmounts, referral \in Users \cup {NoReferral} :
          Sell(tokensIn, referral)
    \/ \E bps \in BuybackChoices, burn \in BOOLEAN : SetBuybackConfig(bps, burn)
    \/ ExecuteBuyback
    \/ Graduate
    \/ ClaimGraduationFunds
    \/ RecordGraduationPool
    \/ ClaimFees
    \/ \E amount \in ProtocolPayments : PayProtocol(amount)
    \/ \E value \in BOOLEAN : SetPaused(value)
    \/ \E p \in Prices : SetSuiPrice(p)
    \/ Tick

Spec == Init /\ [][Next]_vars

---------------------------------------------------------------------------
(* Properties *)

TypeOK ==
    /\ suiReserve \in Nat /\ supply \in Nat /\ held \in Nat
    /\ creatorFees \in Nat /\ protocolFees \in Nat /\ airdropFees \in Nat
    /\ buybackFees \in Nat /\ lpFeesAccumulated \in Nat
    /\ currentGradThreshold \in Nat /\ now \in Nat /\ ops \in Nat
    /\ tokenReserve \in 0 .. CURVE_SUPPLY
    /\ buybackBps \in 0 .. BPS_DENOMINATOR
    /\ buybackBurn \in BOOLEAN /\ paused \in BOOLEAN /\ graduated \in BOOLEAN
    /\ claimed \in BOOLEAN /\ poolRecorded \in BOOLEAN
    /\ price \in Prices \cup {0}
    /\ priceUpdatedAt \in Nat
    /\ lastBuy \in [tail : Nat, refund : Nat]

\* The pool's constant product with the virtual reserves included.
Product == EffectiveSui * EffectiveToken

\* While the curve trades, its reserves are worth at least what they were at
\* launch: no order of buys, sells and buybacks extracts virtual SUI.
Backed == ~graduated => Product >= VIRTUAL_SUI_RESERVE * VIRTUAL_TOKEN_RESERVE

\* sell()'s last assert (EInsufficientTokens) never fires: whatever the
\* history of trades, fees and buybacks, every holder can sell any amount of
\* what is in circulation and the real reserve covers it.
SellersAlwaysPaid ==
    ~graduated => \A tokensIn \in 1 .. held : suiReserve >= SellWithdraw(tokensIn)

\* No trade or buyback on an open curve leaves the pool worth less than it
\* was: rounding always favours the curve, on every path.
PoolNeverLosesValue == [][~graduated' => Product' >= Product]_vars

\* The tokens the TreasuryCap has minted are the ones in the curve and in
\* holders' coins, and only the one-shot claim mints beyond the curve supply.
MintedOnce ==
    /\ supply = tokenReserve + held
    /\ supply <= IF claimed THEN TOTAL_SUPPLY ELSE CURVE_SUPPLY

\* A graduated curve can be claimed until it is: the mint-site floor
\* EReserveTooLow (F-2) never blocks a graduation, whichever path reached it
\* and however the threshold was resolved.
GraduatedIsClaimable ==
    graduated /\ ~claimed => suiReserve >= MIN_GRAD_RESERVE_MIST

\* Fix F-5: what buy() hands back is exactly the clipped tail, so that the fee
\* slices, the LP slice and the swap add up to what the buyer is charged.
RefundIsTail == lastBuy.refund = lastBuy.tail

\* The inductive invariant behind all of the above.
IInv ==
    /\ TypeOK
    /\ claimed => graduated
    /\ currentGradThreshold \in Thresholds \cup {0}
    /\ Backed
    /\ MintedOnce
    /\ GraduatedIsClaimable
    /\ RefundIsTail

\* The curve as LaunchLifecycle describes it.
Lifecycle == INSTANCE LaunchLifecycle WITH
    phase      <- IF claimed THEN "exited" ELSE IF graduated THEN "graduated" ELSE "open",
    backing    <- suiReserve,
    poolMint   <- IF claimed THEN TOTAL_SUPPLY - CURVE_SUPPLY ELSE 0,
    PoolTokens <- TOTAL_SUPPLY - CURVE_SUPPLY,
    MinPoolSui <- MIN_GRAD_RESERVE_MIST

\* The launch graduates once, with a pool's worth of SUI behind it, and that
\* SUI leaves once, with the pool's tokens, never to come back.
ImplementsLifecycle == Lifecycle!LifecycleSpec

\* "current_grad_threshold is now a DISPLAY CACHE ONLY; it is never read back
\* for the graduation decision" (buy), and a curve that has reached its
\* threshold, whose buys all abort, is unblocked by anyone's graduate()
\* (the re-audit's PASS-D-1): graduate() accepts every such curve.
BlockedBuysSelfHeal ==
    ~graduated /\ suiReserve >= ResolveGradThreshold => GraduateReady
=============================================================================
