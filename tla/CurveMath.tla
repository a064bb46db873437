----------------------------- MODULE CurveMath -----------------------------
(***************************************************************************)
(* The pure integer arithmetic of contracts-v10/sources/bonding_curve.move *)
(* All divisions are Move's u64 / u128 divisions: they round down.  The    *)
(* contract's numbers are parameters, so that the state machines that use  *)
(* this module can be checked on small ones and proved about for all.      *)
(***************************************************************************)
EXTENDS Integers

CONSTANTS
    BPS_DENOMINATOR,         \* what a whole is, in basis points
    TRADE_FEE_BPS,           \* the fee on every trade
    CREATOR_SHARE_BPS,       \* the slices of that fee
    LP_SHARE_BPS,
    REFERRAL_SHARE_BPS,
    CREATOR_GRAD_BONUS_BPS,  \* the slices of the reserve paid at graduation
    PROTOCOL_GRAD_BONUS_BPS,
    CURVE_SUPPLY,            \* tokens sold on the curve
    TOTAL_SUPPLY,            \* with the tokens minted for the DEX pool
    VIRTUAL_SUI_RESERVE,
    VIRTUAL_TOKEN_RESERVE,
    BASE_GRAD_MIST,          \* graduation threshold at the anchor price
    PRICE_ANCHOR,            \* price_scaled of one dollar (1_000 in the code)
    PRECISION                \* what both square roots are scaled by

ASSUME FeeAssumption ==
    /\ BPS_DENOMINATOR \in Nat \ {0}
    /\ TRADE_FEE_BPS \in 0 .. BPS_DENOMINATOR
    /\ {CREATOR_SHARE_BPS, LP_SHARE_BPS, REFERRAL_SHARE_BPS} \subseteq Nat
    /\ CREATOR_SHARE_BPS + LP_SHARE_BPS + REFERRAL_SHARE_BPS <= BPS_DENOMINATOR
    /\ {CREATOR_GRAD_BONUS_BPS, PROTOCOL_GRAD_BONUS_BPS} \subseteq Nat
    /\ CREATOR_GRAD_BONUS_BPS + PROTOCOL_GRAD_BONUS_BPS <= BPS_DENOMINATOR

ASSUME CurveAssumption ==
    /\ CURVE_SUPPLY \in Nat \ {0}
    /\ TOTAL_SUPPLY \in Nat /\ TOTAL_SUPPLY >= CURVE_SUPPLY
    /\ VIRTUAL_SUI_RESERVE \in Nat \ {0}
    /\ VIRTUAL_TOKEN_RESERVE \in Nat /\ VIRTUAL_TOKEN_RESERVE > CURVE_SUPPLY

ASSUME PriceAssumption ==
    /\ BASE_GRAD_MIST \in Nat \ {0}
    /\ PRICE_ANCHOR \in Nat \ {0}
    /\ PRECISION \in Nat \ {0}

\* bps of an amount, rounded down.
Bps(amount, bps) == (amount * bps) \div BPS_DENOMINATOR

\* What dx buys from a pool that holds x of dx's coin and y of the other.
QuoteOut(dx, x, y) == (y * dx) \div (x + dx)

\* What dx must be to take dy out of such a pool, rounded down (Path A of buy).
QuoteIn(dy, x, y) == (x * dy) \div (y - dy)

\* split_fee_v7: the creator, LP and referral slices, and what is left halved
\* between airdrop and protocol (the odd unit goes to the protocol).
SplitFee(fee, hasReferral) ==
    LET creator  == Bps(fee, CREATOR_SHARE_BPS)
        lp       == Bps(fee, LP_SHARE_BPS)
        referral == IF hasReferral THEN Bps(fee, REFERRAL_SHARE_BPS) ELSE 0
        bucket   == fee - creator - lp - referral
    IN  [creator |-> creator, lp |-> lp, referral |-> referral,
         airdrop |-> bucket \div 2, protocol |-> bucket - bucket \div 2]

\* The iteration's last y, which overshot, instead of its last x.
ISqrt_mut(n) ==
    LET step[p \in (1 .. n) \X (1 .. n)] ==
            LET x == p[1]
                y == p[2]
            IN  IF y < x THEN step[<<y, (y + n \div y) \div 2>>] ELSE y
    IN  IF n = 0 THEN 0 ELSE step[<<n, (n + 1) \div 2>>]

\* isqrt: the Babylonian iteration, from x = n, y = (n + 1) / 2 until y >= x.
ISqrt(n) ==
    LET step[p \in (1 .. n) \X (1 .. n)] ==
            LET x == p[1]
                y == p[2]
            IN  IF y < x THEN step[<<y, (y + n \div y) \div 2>>] ELSE x
    IN  IF n = 0 THEN 0 ELSE step[<<n, (n + 1) \div 2>>]

\* Before F-4: the denominator is scaled down where the numerator is scaled up.
DampenedGradThreshold_mut(price) ==
    LET num == ISqrt(PRICE_ANCHOR * PRECISION)
        den == ISqrt((price * PRECISION) \div PRICE_ANCHOR)
    IN  IF price = 0 \/ den = 0 THEN BASE_GRAD_MIST
        ELSE (BASE_GRAD_MIST * num) \div den

\* dampened_grad_threshold: BASE * sqrt(anchor) / sqrt(price).
DampenedGradThreshold(price) ==
    LET num == ISqrt(PRICE_ANCHOR * PRECISION)
        den == ISqrt(price * PRECISION)
    IN  IF price = 0 \/ den = 0 THEN BASE_GRAD_MIST
        ELSE (BASE_GRAD_MIST * num) \div den
=============================================================================
