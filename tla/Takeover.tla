------------------------------ MODULE Takeover ------------------------------
(***************************************************************************)
(* Community takeover of a curve whose creator is inactive                 *)
(* (contracts-v10/sources/bonding_curve.move): proposals are shared        *)
(* objects that escrow the tokens voted with; one that reaches a quarter   *)
(* of the circulating supply swaps the curve's active creator cap.         *)
(* Each entry function is one atomic action.  The trades appear by the     *)
(* tokens they move, which is all the takeover reads of them.              *)
(***************************************************************************)
EXTENDS Integers, Sequences, FiniteSets, Functions

CONSTANTS
    Users, FirstCreator,
    Amounts,                 \* the token amounts users move, trade and stake
    BPS_DENOMINATOR, CURVE_SUPPLY, TOTAL_SUPPLY,
    CTO_INACTIVITY_MS, CTO_WINDOW_MS, CTO_COOLDOWN_MS,
    CTO_NOMINATE_BPS, CTO_QUORUM_BPS, CTO_MIN_VOTE_BPS,
    MaxTime, MaxProposals    \* bounds of the model, not of the code

ASSUME TakeoverAssumption ==
    /\ FirstCreator \in Users
    /\ Amounts \subseteq Nat \ {0}
    /\ BPS_DENOMINATOR \in Nat \ {0}
    /\ CURVE_SUPPLY \in Nat /\ TOTAL_SUPPLY \in Nat /\ TOTAL_SUPPLY >= CURVE_SUPPLY
    /\ CTO_INACTIVITY_MS \in Nat \ {0} /\ CTO_WINDOW_MS \in Nat \ {0}
    /\ CTO_COOLDOWN_MS \in Nat
    /\ CTO_NOMINATE_BPS \in Nat /\ CTO_QUORUM_BPS \in Nat /\ CTO_MIN_VOTE_BPS \in Nat
    /\ MaxTime \in Nat /\ MaxProposals \in Nat

ASSUME FiniteUsers == IsFiniteSet(Users)

VARIABLES
    tokenReserve,      \* unsold tokens, in the curve
    wallet,            \* coins, by owner
    graduated,         \* the curve no longer trades
    poolMinted,        \* claim_graduation_funds minted the pool's tokens
    capOwner,          \* owner of each CreatorCap minted for this curve
    activeCap,         \* active_creator_cap_id, an index of capOwner
    creator, lastCreatorActivity, ctoCooldownUntil,
    live,              \* the CTO_LIVE_PROPOSAL_KEY marker, 0 if absent
    proposals,         \* the TakeoverProposal objects, oldest first
    now

market == <<tokenReserve, graduated, poolMinted>>
caps   == <<capOwner, activeCap, creator>>
vars   == <<market, wallet, caps, lastCreatorActivity, ctoCooldownUntil, live,
            proposals, now>>

Init ==
    /\ tokenReserve = CURVE_SUPPLY /\ graduated = FALSE /\ poolMinted = FALSE
    /\ wallet = [u \in Users |-> 0]
    /\ capOwner = <<FirstCreator>> /\ activeCap = 1 /\ creator = FirstCreator
    /\ lastCreatorActivity = 0 /\ ctoCooldownUntil = 0
    /\ live = 0 /\ proposals = <<>> /\ now = 0

---------------------------------------------------------------------------
(* The tokens: trades, wallet transfers, buyback, pool mint *)

\* The buy of the last token graduates the curve, and so may any other.
Buy(u, n, graduates) ==
    /\ ~graduated /\ n <= tokenReserve
    /\ n = tokenReserve => graduates
    /\ graduated' = graduates
    /\ tokenReserve' = tokenReserve - n
    /\ wallet' = [wallet EXCEPT ![u] = @ + n]
    /\ UNCHANGED <<poolMinted, caps, lastCreatorActivity, ctoCooldownUntil,
                   live, proposals, now>>

Sell(u, n) ==
    /\ ~graduated /\ n <= wallet[u]
    /\ tokenReserve' = tokenReserve + n
    /\ wallet' = [wallet EXCEPT ![u] = @ - n]
    /\ UNCHANGED <<graduated, poolMinted, caps, lastCreatorActivity,
                   ctoCooldownUntil, live, proposals, now>>

\* execute_buyback takes tokens off the curve, to burn or to the creator.
ExecuteBuyback(n, burn) ==
    /\ ~graduated /\ n <= tokenReserve
    /\ tokenReserve' = tokenReserve - n
    /\ wallet' = IF burn THEN wallet ELSE [wallet EXCEPT ![creator] = @ + n]
    /\ UNCHANGED <<graduated, poolMinted, caps, lastCreatorActivity, ctoCooldownUntil,
                   live, proposals, now>>

\* graduate(), when the curve has reached what BondingCurve says it must.
Graduate ==
    /\ ~graduated
    /\ graduated' = TRUE
    /\ UNCHANGED <<tokenReserve, poolMinted, wallet, caps, lastCreatorActivity,
                   ctoCooldownUntil, live, proposals, now>>

\* claim_graduation_funds mints the pool's tokens; from there anyone may own
\* them (here, all at once, one user).
MintPool(u) ==
    /\ graduated /\ ~poolMinted
    /\ poolMinted' = TRUE
    /\ wallet' = [wallet EXCEPT ![u] = @ + (TOTAL_SUPPLY - CURVE_SUPPLY)]
    /\ UNCHANGED <<tokenReserve, graduated, caps, lastCreatorActivity,
                   ctoCooldownUntil, live, proposals, now>>

\* A plain coin transfer between two wallets.
Transfer(u, v, n) ==
    /\ u # v /\ n <= wallet[u]
    /\ wallet' = [wallet EXCEPT ![u] = @ - n, ![v] = @ + n]
    /\ UNCHANGED <<market, caps, lastCreatorActivity, ctoCooldownUntil, live,
                   proposals, now>>

---------------------------------------------------------------------------
(* The creator's capability *)

\* Any function gated by assert_active_creator, creator_heartbeat among them.
CreatorAction(cap) ==
    /\ cap = activeCap
    /\ lastCreatorActivity' = now
    /\ UNCHANGED <<market, wallet, caps, ctoCooldownUntil, live, proposals, now>>

---------------------------------------------------------------------------
(* Proposals *)

CirculatingSupply == CURVE_SUPPLY - tokenReserve

MinVote == (CURVE_SUPPLY * CTO_MIN_VOTE_BPS) \div BPS_DENOMINATOR

\* The asserts of propose_takeover, with the one-live-proposal marker forgotten.
ProposeAllowed_mut(n) ==
    /\ now - lastCreatorActivity >= CTO_INACTIVITY_MS
    /\ now >= ctoCooldownUntil
    /\ CirculatingSupply > 0
    /\ n > 0
    /\ n >= (CirculatingSupply * CTO_NOMINATE_BPS) \div BPS_DENOMINATOR

ProposeAllowed(n) ==
    /\ now - lastCreatorActivity >= CTO_INACTIVITY_MS
    /\ now >= ctoCooldownUntil
    /\ live = 0
    /\ CirculatingSupply > 0
    /\ n > 0
    /\ n >= (CirculatingSupply * CTO_NOMINATE_BPS) \div BPS_DENOMINATOR

Propose(u, n) ==
    /\ ProposeAllowed(n)
    /\ n <= wallet[u]
    /\ Len(proposals) < MaxProposals /\ now + CTO_WINDOW_MS <= MaxTime
    /\ wallet' = [wallet EXCEPT ![u] = @ - n]
    /\ proposals' = Append(proposals,
         [proposer |-> u, bond |-> n, openedAt |-> now, deadline |-> now + CTO_WINDOW_MS,
          escrow |-> n, votes |-> [v \in Users |-> IF v = u THEN n ELSE 0],
          weight |-> n,
          quorum |-> (CirculatingSupply * CTO_QUORUM_BPS) \div BPS_DENOMINATOR,
          resolved |-> FALSE, succeeded |-> FALSE])
    /\ live' = Len(proposals) + 1
    /\ UNCHANGED <<market, caps, lastCreatorActivity, ctoCooldownUntil, now>>

\* The votes stay open until someone resolves.
VoteOpen_mut(p) == ~proposals[p].resolved

\* The asserts vote_takeover and unvote_takeover start with.
VoteOpen(p) == ~proposals[p].resolved /\ now < proposals[p].deadline

\* A second vote replaces the first.
AddedVote_mut(votes, u, n) == [votes EXCEPT ![u] = n]

AddedVote(votes, u, n) == [votes EXCEPT ![u] = @ + n]

Vote(p, u, n) ==
    /\ VoteOpen(p)
    /\ n >= MinVote
    /\ n <= wallet[u]
    /\ wallet' = [wallet EXCEPT ![u] = @ - n]
    /\ proposals' = [proposals EXCEPT ![p].escrow = @ + n,
                                      ![p].weight = @ + n,
                                      ![p].votes = AddedVote(@, u, n)]
    /\ UNCHANGED <<market, caps, lastCreatorActivity, ctoCooldownUntil, live, now>>

\* Before PASS-C-1: the proposer can take the bond back too.
Locked_mut(p, u) == 0

\* What unvote_takeover leaves of a vote: the proposer's bond.
Locked(p, u) == IF u = proposals[p].proposer THEN proposals[p].bond ELSE 0

Unvote(p, u) ==
    LET withdraw == proposals[p].votes[u] - Locked(p, u)
    IN  /\ VoteOpen(p)
        /\ withdraw > 0
        /\ proposals[p].escrow >= withdraw             \* balance::split
        /\ wallet' = [wallet EXCEPT ![u] = @ + withdraw]
        /\ proposals' = [proposals EXCEPT ![p].escrow = @ - withdraw,
                                          ![p].weight = @ - withdraw,
                                          ![p].votes[u] = Locked(p, u)]
        /\ UNCHANGED <<market, caps, lastCreatorActivity, ctoCooldownUntil, live, now>>

\* Before F-6.0: the quorum is a share of what circulates at resolution.
Succeeds_mut(p) ==
    /\ proposals[p].weight > 0
    /\ proposals[p].weight >= (CirculatingSupply * CTO_QUORUM_BPS) \div BPS_DENOMINATOR

Succeeds(p) ==
    /\ proposals[p].quorum > 0
    /\ proposals[p].weight > 0
    /\ proposals[p].weight >= proposals[p].quorum

\* The cooldown runs from the opening of the failed proposal.
CooldownEnd_mut(p) == proposals[p].openedAt + CTO_COOLDOWN_MS

CooldownEnd(p) == now + CTO_COOLDOWN_MS

\* A new CreatorCap is minted to the proposer; the older ones stay where they are.
CapsAfter(winner) == Append(capOwner, winner)

Resolve(p) ==
    /\ now >= proposals[p].deadline
    /\ ~proposals[p].resolved
    /\ proposals' = [proposals EXCEPT ![p].resolved = TRUE, ![p].succeeded = Succeeds(p)]
    /\ live # 0 /\ live' = 0                \* df::remove aborts without the marker
    /\ IF Succeeds(p)
       THEN /\ capOwner' = CapsAfter(proposals[p].proposer)
            /\ activeCap' = Len(capOwner) + 1
            /\ creator' = proposals[p].proposer
            /\ lastCreatorActivity' = now
            /\ UNCHANGED ctoCooldownUntil
       ELSE /\ ctoCooldownUntil' = CooldownEnd(p)
            /\ UNCHANGED <<caps, lastCreatorActivity>>
    /\ UNCHANGED <<market, wallet, now>>

\* Only the winners' stakes come back.
ReclaimAllowed_mut(p) == proposals[p].resolved /\ proposals[p].succeeded

ReclaimAllowed(p) == proposals[p].resolved

\* reclaim_vote, by anyone, for the voter u.
Reclaim(p, u) ==
    /\ ReclaimAllowed(p)
    /\ proposals[p].votes[u] > 0
    /\ proposals[p].escrow >= proposals[p].votes[u]    \* balance::split
    /\ wallet' = [wallet EXCEPT ![u] = @ + proposals[p].votes[u]]
    /\ proposals' = [proposals EXCEPT ![p].escrow = @ - proposals[p].votes[u],
                                      ![p].votes[u] = 0]
    /\ UNCHANGED <<market, caps, lastCreatorActivity, ctoCooldownUntil, live, now>>

Tick ==
    /\ now < MaxTime
    /\ now' = now + 1
    /\ UNCHANGED <<market, wallet, caps, lastCreatorActivity, ctoCooldownUntil, live,
                   proposals>>

---------------------------------------------------------------------------

Proposals == 1 .. Len(proposals)

Next ==
    \/ \E u \in Users, n \in Amounts :
          \/ \E graduates \in BOOLEAN : Buy(u, n, graduates)
          \/ Sell(u, n) \/ Propose(u, n)
    \/ \E u, v \in Users, n \in Amounts : Transfer(u, v, n)
    \/ \E n \in Amounts, burn \in BOOLEAN : ExecuteBuyback(n, burn)
    \/ Graduate
    \/ \E u \in Users : MintPool(u)
    \/ \E cap \in DOMAIN capOwner : CreatorAction(cap)
    \/ \E p \in Proposals, u \in Users :
          \/ \E n \in Amounts : Vote(p, u, n)
          \/ Unvote(p, u) \/ Reclaim(p, u)
    \/ \E p \in Proposals : Resolve(p)
    \/ Tick

Spec == Init /\ [][Next]_vars

\* Time passes, somebody resolves what can be resolved, and somebody (the
\* sweeper, or the voter) reclaims what can be reclaimed.  Both calls are open
\* to everyone and nothing another user does disables them.
FairSpec ==
    /\ Spec
    /\ WF_vars(Tick)
    /\ WF_vars(\E p \in Proposals : Resolve(p))
    /\ WF_vars(\E p \in Proposals, u \in Users : Reclaim(p, u))

---------------------------------------------------------------------------
(* Properties *)

ProposalType ==
    [proposer : Users, bond : Nat, openedAt : Nat, deadline : Nat, escrow : Nat,
     votes : [Users -> Nat], weight : Nat, quorum : Nat,
     resolved : BOOLEAN, succeeded : BOOLEAN]

TypeOK ==
    /\ tokenReserve \in Nat /\ graduated \in BOOLEAN /\ poolMinted \in BOOLEAN
    /\ wallet \in [Users -> Nat]
    /\ capOwner \in Seq(Users) /\ activeCap \in 1 .. Len(capOwner) /\ creator \in Users
    /\ lastCreatorActivity \in Nat /\ ctoCooldownUntil \in Nat /\ now \in Nat
    /\ live \in 0 .. Len(proposals)
    /\ proposals \in Seq(ProposalType)

Total(f) == FoldFunction(+, 0, f)

\* "escrow == sum(votes) on every path" (unvote_takeover): whatever order
\* votes, withdrawals, resolution and reclaims come in, the escrow holds the
\* stake of every voter, and until resolution that is also the tally.
EscrowIsVotes ==
    \A p \in Proposals :
        /\ proposals[p].escrow = Total(proposals[p].votes)
        /\ ~proposals[p].resolved => proposals[p].weight = proposals[p].escrow

\* "cur >= proposer_bond always" (unvote_takeover): until its resolution a
\* proposal holds the nominate bond of its proposer, who cannot free it and
\* leave the marker set at no cost (PASS-C-1).
BondLocked ==
    \A p \in Proposals : ~proposals[p].resolved =>
        /\ proposals[p].bond > 0
        /\ proposals[p].votes[proposals[p].proposer] >= proposals[p].bond

\* The marker on the curve is the one unresolved proposal there is, so that
\* every proposal can be resolved and its df::remove never finds another's.
OneLiveProposal ==
    \A p \in Proposals : ~proposals[p].resolved <=> live = p

\* A proposal opens only after the window of the one before, and then the
\* cooldown if it failed, or a new spell of inactivity if it succeeded.
ProposalsSpaced ==
    \A p, q \in Proposals : p < q =>
        proposals[q].openedAt >=
            proposals[p].deadline
              + IF proposals[p].succeeded THEN CTO_INACTIVITY_MS ELSE CTO_COOLDOWN_MS

\* The inductive invariant behind these: until its resolution a proposal's
\* tally is its escrow and it is the newest; the clocks on the curve remember its last outcome.
Timely ==
    /\ live \in {0, Len(proposals)}
    /\ lastCreatorActivity <= now
    /\ ctoCooldownUntil <= now + CTO_COOLDOWN_MS
    /\ \A p \in Proposals :
          LET it == proposals[p]
          IN  /\ it.deadline = it.openedAt + CTO_WINDOW_MS
              /\ it.resolved /\ it.succeeded => lastCreatorActivity >= it.deadline
              /\ it.resolved /\ ~it.succeeded =>
                    ctoCooldownUntil >= it.deadline + CTO_COOLDOWN_MS
              /\ ~it.resolved => it.weight = it.escrow /\ ~it.succeeded

IInv == TypeOK /\ BondLocked /\ OneLiveProposal /\ ProposalsSpaced /\ Timely

\* Once its window is over nobody can move a proposal's tally, and once it is
\* resolved nothing can change its outcome.
TallyIsFinal ==
    [][\A p \in Proposals :
          /\ now >= proposals[p].deadline => proposals'[p].weight = proposals[p].weight
          /\ proposals[p].resolved => /\ proposals'[p].resolved
                                      /\ proposals'[p].succeeded = proposals[p].succeeded]_vars

\* The curve changes hands only by resolving a proposal whose quorum, a quarter
\* of the supply when it opened, is in its escrow at that moment, after a
\* whole window, and the new holder is the one who proposed it.
TakeoverIsBacked ==
    [][activeCap' # activeCap =>
         \E p \in Proposals :
            /\ ~proposals[p].resolved /\ proposals'[p].resolved
            /\ proposals[p].quorum > 0
            /\ proposals[p].escrow >= proposals[p].quorum
            /\ now - proposals[p].openedAt >= CTO_WINDOW_MS
            /\ creator' = proposals[p].proposer
            /\ capOwner'[activeCap'] = creator']_vars

\* Every stake comes back to its voter, of a won or a lost proposal, whatever
\* the others do.
EscrowReturned ==
    \A p \in 1 .. MaxProposals :
        p \in Proposals ~> (p \in Proposals /\ proposals[p].escrow = 0)
=============================================================================
