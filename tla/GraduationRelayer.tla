--------------------------- MODULE GraduationRelayer ---------------------------
(***************************************************************************)
(* How a graduated curve gets its DEX pool: the watcher of                 *)
(* indexer/auto_graduate.js and the two scripts it dispatches,             *)
(* graduate_deepbook_full.js and graduate_turbos_full.js, which an         *)
(* operator may also run by hand. The scripts of several curves run at     *)
(* once, all from one wallet; a script is a sequence of transactions with  *)
(* awaits between them, where it may throw or its process may die. A read  *)
(* sees the chain as it is. Curves without token type or without authority *)
(* configured, which are never served, and the holder of a Turbos position *)
(* NFT are left out.                                                       *)
(***************************************************************************)
EXTENDS Integers, Sequences, FiniteSets

CONSTANTS
    Curves,
    Operators,       \* processes of scripts run by hand
    Target,          \* graduation_target: "cetus", "deepbook" or "turbos"
    BelowFloor,      \* curves whose claim aborts with EReserveTooLow
    PoolSui,         \* the reserve of each curve at graduation
    LpSupply,        \* tokens the claim mints
    Headroom,        \* SUI the wallet keeps for gas (0.5 SUI)
    Float,           \* SUI in the wallet beforehand
    Limit,           \* LIMIT of the watcher's query (50)
    MaxFailures      \* bound of the model: calls that fail, crashes

ASSUME RelayerAssumption ==
    /\ "watcher" \notin Operators
    /\ Target \in [Curves -> {"cetus", "deepbook", "turbos"}]
    /\ BelowFloor \subseteq Curves
    /\ PoolSui \in [Curves -> Nat] /\ LpSupply \in Nat \ {0}
    /\ Headroom \in Nat /\ Float \in Nat
    /\ Limit \in Nat \ {0} /\ MaxFailures \in Nat

Watcher   == "watcher"
Processes == {Watcher} \cup Operators

VARIABLES
    graduated, claimed, recorded, \* on chain: flag, GRAD_CLAIMED_KEY, pool_id is some
    walletSui, walletLp,          \* the relayer's wallet, LP tokens by curve
    pools,                        \* the positions made for each curve
    done,                         \* the row's graduated column
    rows,                         \* rows of the last query still to be visited
    at,                           \* where a process's script for a curve is
    failures

chain  == <<graduated, claimed, recorded>>
wallet == <<walletSui, walletLp>>
vars   == <<chain, wallet, pools, done, rows, at, failures>>

Init ==
    /\ graduated = [c \in Curves |-> FALSE]
    /\ claimed = [c \in Curves |-> FALSE] /\ recorded = [c \in Curves |-> FALSE]
    /\ walletSui = Float /\ walletLp = [c \in Curves |-> 0]
    /\ pools = [c \in Curves |-> <<>>]
    /\ done = [c \in Curves |-> FALSE]
    /\ rows = {} /\ failures = 0
    /\ at = [p \in Processes |-> [c \in Curves |-> "idle"]]

\* A curve graduates, by a buy or by graduate().
CurveGraduates(c) ==
    /\ ~graduated[c]
    /\ graduated' = [graduated EXCEPT ![c] = TRUE]
    /\ UNCHANGED <<claimed, recorded, wallet, pools, done, rows, at, failures>>

GoTo(p, c, step) == at' = [at EXCEPT ![p][c] = step]

Fails == /\ failures < MaxFailures
         /\ failures' = failures + 1

---------------------------------------------------------------------------
(* The watcher *)

\* The query has a limit and no order: any rows of that many may be returned.
Poll ==
    /\ rows = {}
    /\ \E some \in SUBSET {c \in Curves : ~done[c]} :
          /\ \/ Cardinality(some) = Limit
             \/ Cardinality(some) < Limit /\ some = {c \in Curves : ~done[c]}
          /\ some # {}
          /\ rows' = some
    /\ UNCHANGED <<chain, wallet, pools, done, at, failures>>

\* One row, unless it is inProgress: the curve is read, and its script started
\* and not waited for.
Visit(c) ==
    LET seen == at[Watcher][c] = "idle" /\ graduated[c]
    IN  /\ c \in rows
        /\ rows' = rows \ {c}
        /\ IF seen /\ ~recorded[c] THEN GoTo(Watcher, c, "start") ELSE UNCHANGED at
        /\ done' = [done EXCEPT ![c] = @ \/ (seen /\ recorded[c])]
        /\ UNCHANGED <<chain, wallet, pools, failures>>

\* The read or the update fails: the row is left for the next query.
VisitThrows(c) ==
    /\ c \in rows
    /\ Fails
    /\ rows' = rows \ {c}
    /\ UNCHANGED <<chain, wallet, pools, done, at>>

\* Every run that returns closes the row, a poolless one too.
Marks_mut(c) == TRUE

\* The row is closed for a pool, a terminal skip, or a target that has none.
Marks(c) == at[Watcher][c] \in {"made", "skipped"} \/ Target[c] = "cetus"

\* Without the finally: a failed script stays in progress.
Released_mut(c) == IF at[Watcher][c] = "failed" THEN "failed" ELSE "idle"

Released(c) == "idle"

Ended(p, c) == at[p][c] \in {"made", "skipped", "failed"}

\* graduateCurve after createDexPool has returned.
Finish(c) ==
    /\ Ended(Watcher, c)
    /\ done' = [done EXCEPT ![c] = @ \/ Marks(c)]
    /\ GoTo(Watcher, c, Released(c))
    /\ UNCHANGED <<chain, wallet, pools, rows, failures>>

\* An operator runs the script of a graduated curve.
ByHand(p, c) ==
    /\ p \in Operators /\ at[p][c] = "idle"
    /\ graduated[c] /\ Target[c] # "cetus"
    /\ GoTo(p, c, "start")
    /\ UNCHANGED <<chain, wallet, pools, done, rows, failures>>

ExitByHand(p, c) ==
    /\ p \in Operators /\ Ended(p, c)
    /\ GoTo(p, c, "idle")
    /\ UNCHANGED <<chain, wallet, pools, done, rows, failures>>

---------------------------------------------------------------------------
(* The scripts *)

\* Claimed funds are taken to be in a pool.
AfterRead_mut(c) ==
    IF recorded[c] THEN "made" ELSE IF claimed[c] THEN "record" ELSE "claim"

\* The state machine of step 2, on a graduated curve.
AfterRead(c) ==
    CASE recorded[c]                 -> "made"
      [] ~recorded[c] /\ claimed[c]  -> "seed"
      [] ~recorded[c] /\ ~claimed[c] -> "claim"

\* createDexPool: no script for Cetus.
Start(p, c) ==
    /\ at[p][c] = "start"
    /\ GoTo(p, c, IF Target[c] = "cetus" THEN "failed" ELSE AfterRead(c))
    /\ UNCHANGED <<chain, wallet, pools, done, rows, failures>>

\* claim_graduation_funds, both coins to the wallet.
Claim(p, c) ==
    /\ at[p][c] = "claim"
    /\ ~claimed[c] /\ c \notin BelowFloor
    /\ claimed' = [claimed EXCEPT ![c] = TRUE]
    /\ walletSui' = walletSui + PoolSui[c]
    /\ walletLp' = [walletLp EXCEPT ![c] = @ + LpSupply]
    /\ GoTo(p, c, "seed")
    /\ UNCHANGED <<graduated, recorded, pools, done, rows, failures>>

\* Another process was first: ELpAlreadyClaimed.
ClaimAborts(p, c) ==
    /\ at[p][c] = "claim" /\ claimed[c]
    /\ GoTo(p, c, "failed")
    /\ UNCHANGED <<chain, wallet, pools, done, rows, failures>>

\* The claim aborts with EReserveTooLow.
Skip(p, c) ==
    /\ at[p][c] = "claim"
    /\ c \in BelowFloor
    /\ GoTo(p, c, "skipped")
    /\ UNCHANGED <<chain, wallet, pools, done, rows, failures>>

Seeded(c, sui, lp) ==
    /\ walletSui' = walletSui - sui
    /\ walletLp' = [walletLp EXCEPT ![c] = @ - lp]

HalfSui(c) == PoolSui[c] \div 2

\* Only the SUI is checked.
Affords_mut(c) == walletSui >= IF Target[c] = "deepbook" THEN PoolSui[c] + Headroom
                                                      ELSE HalfSui(c)

\* What the scripts check or the transaction needs.  That DeepBook's SUI be
\* in one coin is left to Throw.
Affords(c) ==
    IF Target[c] = "deepbook"
    THEN walletLp[c] > 0 /\ walletSui >= PoolSui[c] + Headroom
    ELSE walletLp[c] > 1 /\ walletSui >= HalfSui(c)

Made(p, sui, lp) == [by |-> p, sui |-> sui, lp |-> lp]

\* One transaction fills a BalanceManager with all there is and gives it to
\* the creator.
Deposit(p, c) ==
    /\ at[p][c] = "seed" /\ Target[c] = "deepbook" /\ Affords(c)
    /\ Seeded(c, PoolSui[c], walletLp[c])
    /\ pools' = [pools EXCEPT ![c] = Append(@, Made(p, PoolSui[c], walletLp[c]))]
    /\ GoTo(p, c, "record")
    /\ UNCHANGED <<chain, done, rows, failures>>

\* deploy_pool_and_mint, with half of what there is.
DeployPool(p, c) ==
    LET halfLp == walletLp[c] \div 2
    IN  /\ at[p][c] = "seed" /\ Target[c] = "turbos" /\ Affords(c)
        /\ Seeded(c, HalfSui(c), halfLp)
        /\ pools' = [pools EXCEPT ![c] = Append(@, Made(p, HalfSui(c), halfLp))]
        /\ GoTo(p, c, "protocol")
        /\ UNCHANGED <<chain, done, rows, failures>>

\* "No LP tokens", "No SUI coin large enough", or a transaction that aborts.
SeedThrows(p, c) ==
    /\ at[p][c] = "seed" /\ ~Affords(c)
    /\ GoTo(p, c, "failed")
    /\ UNCHANGED <<chain, wallet, pools, done, rows, failures>>

\* Where the pool this run has deployed is.
OwnPool(p, c) == CHOOSE i \in DOMAIN pools[c] :
    /\ pools[c][i].by = p
    /\ \A k \in DOMAIN pools[c] : pools[c][k].by = p => k <= i

\* The SUI balance is not checked.
AffordsHalf_mut(p, c) == walletLp[c] >= pools[c][OwnPool(p, c)].lp

AffordsHalf(p, c) ==
    /\ walletSui >= HalfSui(c) + Headroom
    /\ walletLp[c] >= pools[c][OwnPool(p, c)].lp

\* The other half joins the same pool.
AddProtocolHalf(p, c) ==
    LET own == OwnPool(p, c)
    IN  /\ at[p][c] = "protocol" /\ AffordsHalf(p, c)
        /\ Seeded(c, HalfSui(c), pools[c][own].lp)
        /\ pools' = [pools EXCEPT ![c][own] = Made(p, @.sui + HalfSui(c), 2 * @.lp)]
        /\ GoTo(p, c, "record")
        /\ UNCHANGED <<chain, done, rows, failures>>

\* Too little left, or a failure, which is not fatal here: the half is left out.
SkipProtocolHalf(p, c) ==
    /\ at[p][c] = "protocol"
    /\ \/ ~AffordsHalf(p, c) /\ UNCHANGED failures
       \/ AffordsHalf(p, c) /\ Fails
    /\ GoTo(p, c, "record")
    /\ UNCHANGED <<chain, wallet, pools, done, rows>>

\* record_graduation_pool.
Record(p, c) ==
    /\ at[p][c] = "record" /\ ~recorded[c]
    /\ recorded' = [recorded EXCEPT ![c] = TRUE]
    /\ GoTo(p, c, "made")
    /\ UNCHANGED <<graduated, claimed, wallet, pools, done, rows, failures>>

\* EPoolAlreadyRecorded, or another failure of the transaction: a warning, and
\* the script returns its pool.
RecordAborts(p, c) ==
    /\ at[p][c] = "record"
    /\ \/ recorded[c] /\ UNCHANGED failures
       \/ ~recorded[c] /\ Fails
    /\ GoTo(p, c, "made")
    /\ UNCHANGED <<chain, wallet, pools, done, rows>>

---------------------------------------------------------------------------
(* Failures *)

\* An await of a script rejects; createDexPool or the command line catches it.
Throw(p, c) ==
    /\ at[p][c] # "idle" /\ ~Ended(p, c)
    /\ Fails
    /\ GoTo(p, c, "failed")
    /\ UNCHANGED <<chain, wallet, pools, done, rows>>

\* The row's update rejects; graduateCurve catches it.
MarkThrows(c) ==
    /\ Ended(Watcher, c)
    /\ Fails
    /\ GoTo(Watcher, c, Released(c))
    /\ UNCHANGED <<chain, wallet, pools, done, rows>>

\* A process dies.  The watcher restarts with nothing in progress.
Crash(p) ==
    /\ Fails
    /\ at' = [at EXCEPT ![p] = [c \in Curves |-> "idle"]]
    /\ rows' = IF p = Watcher THEN {} ELSE rows
    /\ UNCHANGED <<chain, wallet, pools, done>>

---------------------------------------------------------------------------

Step(p, c) ==
    \/ Start(p, c) \/ Claim(p, c) \/ ClaimAborts(p, c) \/ Skip(p, c)
    \/ Deposit(p, c) \/ DeployPool(p, c) \/ SeedThrows(p, c)
    \/ AddProtocolHalf(p, c) \/ SkipProtocolHalf(p, c)
    \/ Record(p, c) \/ RecordAborts(p, c)

Next ==
    \/ Poll
    \/ \E c \in Curves : \/ CurveGraduates(c) \/ Visit(c) \/ VisitThrows(c)
                        \/ Finish(c) \/ MarkThrows(c)
    \/ \E p \in Processes, c \in Curves :
          Step(p, c) \/ ByHand(p, c) \/ ExitByHand(p, c) \/ Throw(p, c)
    \/ \E p \in Processes : Crash(p)

Spec == Init /\ [][Next]_vars

\* The timer and the event loop: polls go on, and what a script of the watcher
\* awaits comes.  Operators need not go on.
FairSpec ==
    /\ Spec
    /\ WF_vars(Poll)
    /\ \A c \in Curves :
          WF_vars(Visit(c)) /\ WF_vars(Step(Watcher, c)) /\ WF_vars(Finish(c))

---------------------------------------------------------------------------
(* Properties *)

Steps == {"idle", "start", "claim", "seed", "protocol", "record", "made", "skipped",
          "failed"}

TypeOK ==
    /\ graduated \in [Curves -> BOOLEAN] /\ claimed \in [Curves -> BOOLEAN]
    /\ recorded \in [Curves -> BOOLEAN] /\ done \in [Curves -> BOOLEAN]
    /\ walletSui \in Nat /\ walletLp \in [Curves -> Nat]
    /\ pools \in [Curves -> Seq([by : Processes, sui : Nat, lp : Nat])]
    /\ rows \subseteq Curves /\ at \in [Processes -> [Curves -> Steps]]
    /\ failures \in Nat

\* "Only mark done once a pool actually exists": whatever fails, and however
\* often, a row is closed only for a curve that has a pool, that cannot have
\* one, or that needs a human.
MarkedHasPool ==
    \A c \in Curves : done[c] =>
        pools[c] # <<>> \/ Target[c] = "cetus" \/ c \in BelowFloor

\* What is recorded on chain is a pool that has been funded: a retry after a
\* crash between the claim and the pool makes the pool first.
RecordedHasPool == \A c \in Curves : recorded[c] => pools[c] # <<>>

\* A DeepBook curve is never seeded twice nor by halves, through any failures,
\* crashes, retries and runs by hand beside the watcher: its creator gets one
\* BalanceManager, with the SUI the curve released and all of its LP tokens.
DeepBookSeededOnce ==
    \A c \in Curves : Target[c] = "deepbook" =>
        \/ pools[c] = <<>>
        \/ \E p \in Processes : pools[c] = <<Made(p, PoolSui[c], LpSupply)>>

\* What keeps a script from ever making a pool.
Stranded(c) == claimed[c] /\ ~recorded[c] /\ ~Affords(c)

\* Every graduation is handled in the end, after any number of failures that
\* is finite, unless its LP tokens went into a pool that was not recorded, or
\* earlier attempts spent the wallet's SUI.
EventuallyHandled ==
    \A c \in Curves : graduated[c] ~> (done[c] \/ Stranded(c))

\* The header of auto_graduate.js: the watcher "polls the DB every 30s for
\* curves that have crossed the graduation threshold and fires the
\* appropriate graduation script automatically".
EveryGraduationDispatched ==
    \A c \in Curves : graduated[c] ~> (done[c] \/ at[Watcher][c] # "idle")
=============================================================================
