--------------------------- MODULE ReclaimSweeper ---------------------------
(***************************************************************************)
(* The sweeper that returns the stakes of resolved takeover proposals to   *)
(* their voters (indexer/cto_reclaim_sweeper.js), with what it works on:   *)
(* the takeovers of the contract, whose calls emit events, and the indexer *)
(* that stores the events it replays and whose process it runs in.  Curves *)
(* whose token type is unknown, which are skipped, are left out.           *)
(***************************************************************************)
EXTENDS Takeover, EventIndexer, SequencesExt

CONSTANTS
    Held,               \* what the users have bought before
    BatchSize,          \* BATCH_SIZE (20)
    MaxCalls            \* bound of the model: votes, withdrawals and reclaims of users

VARIABLES
    sweep               \* the voters the tick has yet to reclaim for, by batch or singly

takeoverRest == <<market, caps, lastCreatorActivity, ctoCooldownUntil, live>>
indexerRest  == <<rows, cursor, phase, todo, streamed, lost, failures>>
sweeperVars  == <<vars, indexerVars, sweep>>

ASSUME SweeperAssumption ==
    /\ Held \in [Users -> Nat] /\ BatchSize \in Nat \ {0} /\ MaxCalls \in Nat
    /\ {"TakeoverProposed", "TakeoverVoted", "TakeoverUnvoted", "TakeoverResolved",
        "VoteReclaimed"} \subseteq Types

Idle == [p |-> 0, voters |-> {}, single |-> {}]

\* The users have bought their tokens, and the creator has been inactive.
SweeperInit ==
    /\ tokenReserve = CURVE_SUPPLY - Total(Held)
    /\ graduated = FALSE /\ poolMinted = FALSE
    /\ wallet = Held
    /\ capOwner = <<FirstCreator>> /\ activeCap = 1 /\ creator = FirstCreator
    /\ lastCreatorActivity = 0 /\ ctoCooldownUntil = 0
    /\ live = 0 /\ proposals = <<>> /\ now = CTO_INACTIVITY_MS
    /\ IndexerInit
    /\ sweep = Idle

---------------------------------------------------------------------------
(* Calls of users, and what they emit *)

ProposalEvent(type, p, u) == [tx |-> NextTx, type |-> type, p |-> p, voter |-> u]

Sends(e) == Emits(<<e>>) /\ UNCHANGED <<indexerRest, sweep>>

Counted == {"TakeoverVoted", "TakeoverUnvoted", "VoteReclaimed"}
MayCall == Cardinality({n \in DOMAIN events : events[n].type \in Counted}) < MaxCalls

UserProposes(u, n) ==
    /\ Propose(u, n)
    /\ Sends(ProposalEvent("TakeoverProposed", Len(proposals) + 1, u))

UserVotes(p, u, n) ==
    /\ MayCall /\ Vote(p, u, n)
    /\ Sends(ProposalEvent("TakeoverVoted", p, u))

UserUnvotes(p, u) ==
    /\ MayCall /\ Unvote(p, u)
    /\ Sends(ProposalEvent("TakeoverUnvoted", p, u))

UserResolves(p) ==
    /\ Resolve(p)
    /\ Sends(ProposalEvent("TakeoverResolved", p, "anyone"))

\* A voter, or somebody else, between the sweeper's read and its call.
UserReclaims(p, u) ==
    /\ MayCall /\ Reclaim(p, u)
    /\ Sends(ProposalEvent("VoteReclaimed", p, u))

TimePasses == Tick /\ UNCHANGED <<indexerVars, sweep>>

---------------------------------------------------------------------------
(* computeOutstanding *)

\* The rows of u's votes on p.
Ledger(p, u) ==
    {r \in DOMAIN rows :
        LET e == events[rows[r]]
        IN  /\ e.type \in {"TakeoverVoted", "TakeoverUnvoted", "VoteReclaimed"}
            /\ e.p = p /\ e.voter = u}

\* ORDER BY id, that is, as they were inserted.
Replayed_mut(r, s) == r < s

\* ORDER BY timestamp_ms, id; the timestamp is the transaction's.
Replayed(r, s) ==
    LET at(x) == events[rows[x]].tx
    IN  at(r) < at(s) \/ (at(r) = at(s) /\ r < s)

\* A stored proposal seeds its proposer.
Seeded(p, u) ==
    \E r \in DOMAIN rows :
        LET e == events[rows[r]]
        IN  e.type = "TakeoverProposed" /\ e.p = p /\ e.voter = u

Outstanding(p) ==
    {u \in Users :
        IF Ledger(p, u) = {} THEN Seeded(p, u)
        ELSE \E r \in Ledger(p, u) :
                /\ \A s \in Ledger(p, u) \ {r} : Replayed(s, r)
                /\ events[rows[r]].type = "TakeoverVoted"}

KnownResolved(p) ==
    \E r \in DOMAIN rows :
        events[rows[r]].type = "TakeoverResolved" /\ events[rows[r]].p = p

---------------------------------------------------------------------------
(* sweepTick, reclaimAll *)

\* A proposal of the tick's query whose voters are not all served.
SweepReads(p) ==
    /\ phase # "boot" /\ sweep = Idle
    /\ KnownResolved(p) /\ Outstanding(p) # {}
    /\ sweep' = [Idle EXCEPT !.p = p, !.voters = Outstanding(p)]
    /\ UNCHANGED <<vars, indexerVars>>

After(voters, single) ==
    sweep' = IF voters = {} /\ single = {} THEN Idle
             ELSE [sweep EXCEPT !.voters = voters, !.single = single]

\* reclaim_vote for each voter, in one transaction: ECtoNotVoter for one aborts all.
CanReclaim(p, batch) ==
    ReclaimAllowed(p) /\ \A u \in batch : proposals[p].votes[u] > 0

ReclaimAll(p, batch) ==
    LET back == [u \in Users |-> IF u \in batch THEN proposals[p].votes[u] ELSE 0]
    IN  /\ wallet' = [u \in Users |-> wallet[u] + back[u]]
        /\ proposals' = [proposals EXCEPT ![p].escrow = @ - Total(back),
                                          ![p].votes = [u \in Users |-> @[u] - back[u]]]
        /\ LET order == SetToSeq(batch)
           IN  Emits([i \in DOMAIN order |-> ProposalEvent("VoteReclaimed", p, order[i])])
        /\ UNCHANGED <<takeoverRest, now>>

Unreclaimed == UNCHANGED <<vars, events>>

\* The voters of a batch that fails are given up.
Retried_mut(batch) == {}

Retried(batch) == batch

\* It lands, or aborts, or fails, or lands and its answer is lost.
SweepsBatch(batch) ==
    LET p == sweep.p
    IN  /\ sweep.single = {} /\ batch # {} /\ batch \subseteq sweep.voters
        /\ Cardinality(batch) = BatchSize \/ (batch = sweep.voters /\ Cardinality(batch) < BatchSize)
        /\ \/ /\ CanReclaim(p, batch) /\ ReclaimAll(p, batch)
              /\ After(sweep.voters \ batch, {})
              /\ UNCHANGED failures
           \/ /\ ~CanReclaim(p, batch) /\ Unreclaimed
              /\ After(sweep.voters \ batch, Retried(batch))
              /\ UNCHANGED failures
           \/ /\ IndexerFails
              /\ Unreclaimed \/ (CanReclaim(p, batch) /\ ReclaimAll(p, batch))
              /\ After(sweep.voters \ batch, Retried(batch))
        /\ UNCHANGED <<rows, cursor, phase, todo, streamed, lost>>

SweepsOne(u) ==
    LET p == sweep.p
    IN  /\ u \in sweep.single
        /\ After(sweep.voters, sweep.single \ {u})
        /\ \/ CanReclaim(p, {u}) /\ ReclaimAll(p, {u}) /\ UNCHANGED failures
           \/ ~CanReclaim(p, {u}) /\ Unreclaimed /\ UNCHANGED failures
           \/ IndexerFails /\ Unreclaimed
        /\ UNCHANGED <<rows, cursor, phase, todo, streamed, lost>>

SweepStep ==
    \/ \E p \in Proposals : SweepReads(p)
    \/ \E batch \in SUBSET Users : SweepsBatch(batch)
    \/ \E u \in Users : SweepsOne(u)

---------------------------------------------------------------------------

Crash == IndexerCrash /\ sweep' = Idle /\ UNCHANGED vars

IndexerMoves ==
    /\ IndexerStep \/ IndexerFault \/ StreamEnds
    /\ UNCHANGED <<vars, sweep>>

SweeperNext ==
    \/ \E u \in Users, n \in Amounts :
          \/ UserProposes(u, n)
          \/ \E p \in Proposals : UserVotes(p, u, n)
    \/ \E p \in Proposals : \/ \E u \in Users : UserUnvotes(p, u) \/ UserReclaims(p, u)
                            \/ UserResolves(p)
    \/ TimePasses \/ IndexerMoves \/ SweepStep \/ Crash

\* The event loop of the process turns; strongly for the sweeper, whose calls the
\* model holds back, as it does all calls, while a backfill is being answered.
\* No stream lasts for ever.  Nothing is assumed of users, and nobody but the
\* sweeper need reclaim.
SweeperSpec ==
    /\ SweeperInit /\ [][SweeperNext]_sweeperVars
    /\ WF_sweeperVars(UNCHANGED <<sweep, vars>> /\ IndexerStep)
    /\ WF_sweeperVars(UNCHANGED <<sweep, vars>> /\ StreamEnds)
    /\ SF_sweeperVars(SweepStep)

---------------------------------------------------------------------------
(* Properties *)

\* Every event reaches the table: whatever a reconnect, a late GraphQL answer,
\* a failed projection or a crash left out of the stream, the next backfills
\* bring in.
EventsArrive == []<>(\A n \in DOMAIN events : Stored(n) \/ n \in lost)

\* What makes the replay of the stored votes of u on p differ from the chain's:
\* a row that was lost, or a proposer who withdrew all but the bond.
About(p, u) ==
    {n \in DOMAIN events :
        /\ events[n].type \in {"TakeoverProposed", "TakeoverVoted", "TakeoverUnvoted",
                               "TakeoverResolved"}
        /\ events[n].p = p
        /\ events[n].voter = u \/ events[n].type = "TakeoverResolved"}

Misread(p, u) ==
    \/ \E n \in About(p, u) : n \in lost
    \/ /\ u = proposals[p].proposer
       /\ \E n \in About(p, u) : events[n].type = "TakeoverUnvoted"

Unswept(p, u) ==
    /\ proposals[p].resolved /\ proposals[p].votes[u] > 0 /\ ~Misread(p, u)

\* A stake in a resolved proposal that is not misread goes back to its voter
\* without the voter's doing anything, whatever order the votes came in and
\* were stored in, through failed batches, reclaims of others and restarts.
StakesSwept == []<>(\A p \in Proposals, u \in Users : ~Unswept(p, u))
=============================================================================
