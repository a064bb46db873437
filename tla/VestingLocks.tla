---------------------------- MODULE VestingLocks ----------------------------
(***************************************************************************)
(* Vesting locks (contracts-v10/sources/bonding_curve.move): anyone may    *)
(* put tokens of a curve into a shared VestingLock that releases them to   *)
(* its beneficiary, the one who locked them, all at once at the end, in    *)
(* proportion to the time elapsed, or by the month.                        *)
(***************************************************************************)
EXTENDS Integers, Sequences

CONSTANTS
    Holders, Held,      \* the accounts, and the tokens each has at first
    Lots,               \* the amounts they lock
    Times,              \* readings of the clock
    Durations,          \* VEST_7D, VEST_30D, VEST_180D, VEST_365D
    VEST_30D, MONTH_MS

ASSUME VestingAssumption ==
    /\ Held \in [Holders -> Nat] /\ Lots \subseteq Nat
    /\ Times \subseteq Nat /\ 0 \in Times
    /\ Durations \subseteq Nat \ {0}
    /\ VEST_30D \in Nat /\ MONTH_MS \in Nat \ {0} /\ MONTH_MS <= VEST_30D

VARIABLES
    locks,              \* the VestingLock objects, oldest first
    wallet,             \* coins, by owner
    now

vestingVars == <<locks, wallet, now>>

Modes == {"cliff", "linear", "monthly"}

VestingInit ==
    /\ locks = <<>>
    /\ wallet = Held
    /\ now = 0

LockAllowed(amount, mode, duration) ==
    /\ amount > 0
    /\ mode \in Modes /\ duration \in Durations
    /\ mode = "monthly" => duration >= VEST_30D

LockTokens(u, amount, mode, duration) ==
    /\ LockAllowed(amount, mode, duration)
    /\ amount <= wallet[u]
    /\ wallet' = [wallet EXCEPT ![u] = @ - amount]
    /\ locks' = Append(locks,
         [beneficiary |-> u, locked |-> amount, total |-> amount, claimed |-> 0,
          start |-> now, duration |-> duration, mode |-> mode])
    /\ UNCHANGED now

\* What has come due of total when steps of the schedule's span are over.
Due(total, steps, span) == IF steps >= span THEN total ELSE (total * steps) \div span

VestedAmount(it, at) ==
    IF at < it.start THEN 0
    ELSE LET elapsed == at - it.start
         IN  CASE it.mode = "cliff"   -> IF elapsed >= it.duration THEN it.total ELSE 0
               [] it.mode = "linear"  -> Due(it.total, elapsed, it.duration)
               [] it.mode = "monthly" -> Due(it.total, elapsed \div MONTH_MS,
                                             it.duration \div MONTH_MS)

\* Every claim pays what has vested since the start.
Claimable_mut(l) == VestedAmount(locks[l], now)

Claimable(l) ==
    LET vested == VestedAmount(locks[l], now)
    IN  IF vested > locks[l].claimed THEN vested - locks[l].claimed ELSE 0

ClaimVested(l) ==
    LET amount == Claimable(l)
        it     == locks[l]
    IN  /\ amount > 0
        /\ it.locked >= amount                                 \* balance::split
        /\ locks' = [locks EXCEPT ![l] = [it EXCEPT !.claimed = it.claimed + amount,
                                                    !.locked  = it.locked - amount]]
        /\ wallet' = [wallet EXCEPT ![it.beneficiary] = @ + amount]
        /\ UNCHANGED now

Elapse ==
    /\ now' \in Times /\ now' > now
    /\ UNCHANGED <<locks, wallet>>

VestingNext ==
    \/ \E u \in Holders, amount \in Lots, mode \in Modes, duration \in Durations :
          LockTokens(u, amount, mode, duration)
    \/ \E l \in DOMAIN locks : ClaimVested(l)
    \/ Elapse

VestingSpec == VestingInit /\ [][VestingNext]_vestingVars

---------------------------------------------------------------------------
(* Properties *)

LockType ==
    [beneficiary : Holders, locked : Nat, total : Nat, claimed : Nat, start : Nat,
     duration : Durations, mode : Modes]

VestingTypeOK ==
    /\ locks \in Seq(LockType) /\ wallet \in [Holders -> Nat] /\ now \in Nat
    /\ \A l \in DOMAIN locks :
          /\ locks[l].start <= now
          /\ locks[l].mode = "monthly" => locks[l].duration >= VEST_30D

\* However claims are spread over time, a lock has paid out no more than its
\* schedule allows at this moment, and holds all the rest: the last claim
\* finds its tokens, and no claim runs ahead of the schedule.
PaidAsVested ==
    \A l \in DOMAIN locks :
        /\ locks[l].claimed <= VestedAmount(locks[l], now)
        /\ locks[l].locked = locks[l].total - locks[l].claimed
=============================================================================
