--------------------------- MODULE Takeover_proofs ---------------------------
(***************************************************************************)
(* Proofs about Takeover, for any finite set of holders, and any supply,   *)
(* periods and percentages that meet TakeoverAssumption.  What the stakes  *)
(* add up to over all voters is reasoned about with the sums of            *)
(* Numbers_proofs.                                                         *)
(***************************************************************************)
EXTENDS Takeover, Numbers_proofs

\* A proposal that is only touched in the way Vote, Unvote and Reclaim touch
\* it: other proposals, and its own terms, stay as they were.
Touches(p, escrow, weight, votes) ==
    /\ p \in Proposals
    /\ proposals' = [proposals EXCEPT ![p].escrow = escrow, ![p].weight = weight,
                                      ![p].votes = votes]

\* A step that touches one proposal's amounts, and neither the curve's clocks
\* nor the marker, preserves the invariant, if it keeps the bond and the tally.
LEMMA TouchStep ==
    ASSUME IInv, NEW p, NEW escrow \in Nat, NEW weight \in Nat,
           NEW votes \in [Users -> Nat], Touches(p, escrow, weight, votes),
           UNCHANGED <<market, caps, lastCreatorActivity, ctoCooldownUntil, live, now>>,
           wallet' \in [Users -> Nat],
           ~proposals[p].resolved =>
               weight = escrow /\ votes[proposals[p].proposer] >= proposals[p].bond
    PROVE  IInv'
<1> USE DEF market, caps
<1> DEFINE new == [proposals[p] EXCEPT !.escrow = escrow, !.weight = weight,
                                       !.votes = votes]
<1>1. /\ p \in Proposals /\ proposals \in Seq(ProposalType)
      /\ proposals[p] \in ProposalType
  BY DEF IInv, TypeOK, Touches, Proposals
<1>2. /\ new \in ProposalType
      /\ new.escrow = escrow /\ new.weight = weight /\ new.votes = votes
      /\ new.proposer = proposals[p].proposer /\ new.bond = proposals[p].bond
      /\ new.openedAt = proposals[p].openedAt /\ new.deadline = proposals[p].deadline
      /\ new.resolved = proposals[p].resolved /\ new.succeeded = proposals[p].succeeded
  BY <1>1 DEF ProposalType
<1>3. proposals' = [proposals EXCEPT ![p] = new]
  BY <1>1 DEF Touches
<1> HIDE DEF new
<1>4. /\ proposals' \in Seq(ProposalType) /\ Len(proposals') = Len(proposals)
      /\ Proposals' = Proposals
      /\ \A q \in Proposals : proposals'[q] = IF q = p THEN new ELSE proposals[q]
  BY <1>1, <1>2, <1>3 DEF Proposals
<1>5. TypeOK'
  BY <1>4 DEF IInv, TypeOK
<1>6. BondLocked'
  BY <1>1, <1>2, <1>4 DEF IInv, BondLocked
<1>7. OneLiveProposal'
  BY <1>1, <1>2, <1>4 DEF IInv, OneLiveProposal
<1>8. ProposalsSpaced'
  BY <1>1, <1>2, <1>4 DEF IInv, ProposalsSpaced
<1>9. Timely'
  BY <1>1, <1>2, <1>4 DEF IInv, Timely
<1>10. QED
  BY <1>5, <1>6, <1>7, <1>8, <1>9 DEF IInv

\* Every proposal is a well-formed one.
LEMMA ProposalTypes ==
    ASSUME TypeOK, NEW p \in Proposals
    PROVE  proposals[p] \in ProposalType
  BY DEF TypeOK, Proposals

\* vote_takeover preserves the invariant.
LEMMA VoteStep ==
    ASSUME IInv, NEW p \in Proposals, NEW u \in Users, NEW n \in Amounts, Vote(p, u, n)
    PROVE  IInv'
<1>1. /\ n \in Nat /\ n <= wallet[u] /\ wallet \in [Users -> Nat]
      /\ proposals[p] \in ProposalType
  <2>1. n \in Nat
    BY TakeoverAssumption
  <2>2. QED
    BY <2>1, ProposalTypes DEF Vote, IInv, TypeOK
<1> DEFINE votes == AddedVote(proposals[p].votes, u, n)
<1>2. /\ votes \in [Users -> Nat]
      /\ \A v \in Users : votes[v] >= proposals[p].votes[v]
      /\ proposals[p].escrow + n \in Nat /\ proposals[p].weight + n \in Nat
  BY <1>1 DEF ProposalType, AddedVote
<1>3. Touches(p, proposals[p].escrow + n, proposals[p].weight + n, votes)
  BY <1>1 DEF Vote, Touches, ProposalType
<1>4. wallet' \in [Users -> Nat]
  BY <1>1 DEF Vote
<1>5. ~proposals[p].resolved =>
        /\ proposals[p].weight + n = proposals[p].escrow + n
        /\ votes[proposals[p].proposer] >= proposals[p].bond
  BY <1>1, <1>2 DEF IInv, Timely, BondLocked, ProposalType
<1> HIDE DEF votes
<1>6. QED
  BY <1>2, <1>3, <1>4, <1>5, TouchStep DEF Vote

\* unvote_takeover preserves the invariant: the proposer's bond stays.
LEMMA UnvoteStep ==
    ASSUME IInv, NEW p \in Proposals, NEW u \in Users, Unvote(p, u)
    PROVE  IInv'
<1> DEFINE left == Locked(p, u)
           withdraw == proposals[p].votes[u] - left
           votes == [proposals[p].votes EXCEPT ![u] = left]
<1>1. /\ wallet \in [Users -> Nat] /\ proposals[p] \in ProposalType
      /\ ~proposals[p].resolved /\ proposals[p].weight = proposals[p].escrow
  BY ProposalTypes DEF Unvote, VoteOpen, IInv, TypeOK, Timely
<1>2. left \in Nat /\ withdraw \in Nat /\ proposals[p].escrow >= withdraw
  BY <1>1 DEF Unvote, Locked, ProposalType
<1>3. u = proposals[p].proposer => left = proposals[p].bond
  BY DEF Locked
<1>4. /\ votes \in [Users -> Nat]
      /\ votes[proposals[p].proposer] >= proposals[p].bond
      /\ proposals[p].escrow - withdraw \in Nat
      /\ proposals[p].weight - withdraw = proposals[p].escrow - withdraw
  <2>1. proposals[p].proposer \in Users /\ proposals[p].bond \in Nat
        /\ proposals[p].votes \in [Users -> Nat] /\ proposals[p].escrow \in Nat
    BY <1>1 DEF ProposalType
  <2>2. proposals[p].votes[proposals[p].proposer] >= proposals[p].bond
    BY <1>1 DEF IInv, BondLocked
  <2> HIDE DEF left
  <2>3. QED
    BY <1>1, <1>2, <1>3, <2>1, <2>2
<1>5. Touches(p, proposals[p].escrow - withdraw, proposals[p].weight - withdraw, votes)
  BY <1>1 DEF Unvote, Touches, ProposalType
<1>6. wallet' \in [Users -> Nat]
  BY <1>1, <1>2 DEF Unvote
<1> HIDE DEF votes, withdraw
<1>7. QED
  BY <1>1, <1>4, <1>5, <1>6, TouchStep DEF Unvote

\* Such a step leaves the outcome of the proposal alone.
LEMMA TouchKeepsOutcome ==
    ASSUME TypeOK, NEW p \in Proposals, NEW escrow, NEW weight, NEW votes,
           Touches(p, escrow, weight, votes)
    PROVE  /\ proposals'[p].weight = weight
           /\ proposals'[p].resolved = proposals[p].resolved
           /\ proposals'[p].succeeded = proposals[p].succeeded
<1> DEFINE new == [proposals[p] EXCEPT !.escrow = escrow, !.weight = weight,
                                       !.votes = votes]
<1>1. proposals \in Seq(ProposalType) /\ proposals[p] \in ProposalType
  BY ProposalTypes DEF TypeOK
<1>2. /\ new.weight = weight /\ new.resolved = proposals[p].resolved
      /\ new.succeeded = proposals[p].succeeded
  BY <1>1 DEF ProposalType
<1>3. proposals' = [proposals EXCEPT ![p] = new]
  BY <1>1 DEF Touches
<1> HIDE DEF new
<1>4. proposals'[p] = new
  BY <1>1, <1>3 DEF Proposals
<1>5. QED
  BY <1>2, <1>4

\* reclaim_vote leaves the tally and the outcome alone.
LEMMA ReclaimTouches ==
    ASSUME TypeOK, NEW p \in Proposals, NEW u, Reclaim(p, u)
    PROVE  Touches(p, proposals[p].escrow - proposals[p].votes[u], proposals[p].weight,
                   [proposals[p].votes EXCEPT ![u] = 0])
<1>1. proposals[p] \in ProposalType
  BY ProposalTypes
<1>2. QED
  BY <1>1 DEF Reclaim, Touches, ProposalType

\* reclaim_vote preserves the invariant.
LEMMA ReclaimStep ==
    ASSUME IInv, NEW p \in Proposals, NEW u \in Users, Reclaim(p, u)
    PROVE  IInv'
<1> DEFINE votes == [proposals[p].votes EXCEPT ![u] = 0]
           stake == proposals[p].votes[u]
<1>1. /\ wallet \in [Users -> Nat] /\ proposals[p] \in ProposalType
      /\ proposals[p].resolved /\ proposals[p].escrow >= stake
  BY ProposalTypes DEF Reclaim, ReclaimAllowed, IInv, TypeOK
<1>2. /\ stake \in Nat /\ votes \in [Users -> Nat]
      /\ proposals[p].escrow - stake \in Nat /\ proposals[p].weight \in Nat
  BY <1>1 DEF ProposalType
<1>3. Touches(p, proposals[p].escrow - stake, proposals[p].weight, votes)
  BY ReclaimTouches DEF IInv
<1>4. wallet' \in [Users -> Nat]
  BY <1>1, <1>2 DEF Reclaim
<1> HIDE DEF votes, stake
<1>5. QED
  BY <1>1, <1>2, <1>3, <1>4, TouchStep DEF Reclaim

\* propose_takeover preserves the invariant: the marker is free, so every
\* earlier proposal is resolved, and the clocks are past what it left behind.
LEMMA ProposeStep ==
    ASSUME IInv, NEW u \in Users, NEW n \in Amounts, Propose(u, n)
    PROVE  IInv'
<1> USE DEF market, caps
<1> DEFINE new ==
      [proposer |-> u, bond |-> n, openedAt |-> now, deadline |-> now + CTO_WINDOW_MS,
       escrow |-> n, votes |-> [v \in Users |-> IF v = u THEN n ELSE 0],
       weight |-> n,
       quorum |-> (CirculatingSupply * CTO_QUORUM_BPS) \div BPS_DENOMINATOR,
       resolved |-> FALSE, succeeded |-> FALSE]
<1>1. /\ n \in Nat /\ n > 0 /\ n <= wallet[u] /\ wallet \in [Users -> Nat]
      /\ now \in Nat /\ live = 0
      /\ now >= ctoCooldownUntil /\ now - lastCreatorActivity >= CTO_INACTIVITY_MS
  <2>1. n \in Nat
    BY TakeoverAssumption
  <2>2. QED
    BY <2>1 DEF Propose, ProposeAllowed, IInv, TypeOK
<1>2. /\ CTO_WINDOW_MS \in Nat /\ CTO_INACTIVITY_MS \in Nat /\ CTO_COOLDOWN_MS \in Nat
      /\ CTO_QUORUM_BPS \in Nat /\ BPS_DENOMINATOR \in Nat \ {0} /\ CURVE_SUPPLY \in Nat
  BY TakeoverAssumption
<1>3. (CirculatingSupply * CTO_QUORUM_BPS) \div BPS_DENOMINATOR \in Nat
  <2>1. CirculatingSupply \in Nat
    BY <1>2 DEF CirculatingSupply, Propose, ProposeAllowed, IInv, TypeOK
  <2>2. CirculatingSupply * CTO_QUORUM_BPS \in Nat
    BY <1>2, <2>1
  <2> HIDE DEF CirculatingSupply
  <2> DEFINE x == CirculatingSupply * CTO_QUORUM_BPS
  <2>3. x \in Nat
    BY <2>2
  <2> HIDE DEF x
  <2>4. x \div BPS_DENOMINATOR \in Nat
    BY <1>2, <2>3
  <2>5. QED
    BY <2>4 DEF x
<1>4. /\ new \in ProposalType
      /\ new.proposer = u /\ new.bond = n /\ new.votes[u] = n
      /\ new.openedAt = now /\ new.deadline = now + CTO_WINDOW_MS
      /\ new.weight = new.escrow /\ ~new.resolved /\ ~new.succeeded
  BY <1>1, <1>2, <1>3 DEF ProposalType
<1>5. /\ proposals' = Append(proposals, new) /\ live' = Len(proposals) + 1
      /\ wallet' = [wallet EXCEPT ![u] = @ - n]
      /\ UNCHANGED <<market, caps, lastCreatorActivity, ctoCooldownUntil, now>>
  BY DEF Propose
<1> HIDE DEF new
<1> DEFINE k == Len(proposals)
<1>6. /\ k \in Nat /\ Proposals = 1 .. k /\ Proposals' = 1 .. (k + 1)
      /\ proposals' \in Seq(ProposalType) /\ Len(proposals') = k + 1
      /\ proposals'[k + 1] = new
      /\ \A q \in 1 .. k : proposals'[q] = proposals[q]
  BY <1>4, <1>5 DEF IInv, TypeOK, Proposals
<1>7. \A q \in 1 .. k : proposals[q].resolved /\ proposals[q] \in ProposalType
  <2>1. \A q \in 1 .. k : live # q
    BY <1>1
  <2>2. QED
    BY <1>6, <2>1, ProposalTypes DEF IInv, OneLiveProposal
<1> HIDE DEF k
<1>8. TypeOK'
  BY <1>1, <1>5, <1>6 DEF IInv, TypeOK, k
<1>9. BondLocked'
  BY <1>1, <1>4, <1>6, <1>7 DEF BondLocked
<1>10. OneLiveProposal'
  BY <1>1, <1>4, <1>5, <1>6, <1>7 DEF OneLiveProposal, k
<1>11. ProposalsSpaced'
  <2> SUFFICES ASSUME NEW q \in Proposals', NEW r \in Proposals', q < r
               PROVE  proposals'[r].openedAt >= proposals'[q].deadline
                        + IF proposals'[q].succeeded THEN CTO_INACTIVITY_MS
                                                     ELSE CTO_COOLDOWN_MS
    BY DEF ProposalsSpaced
  <2>1. q \in 1 .. k /\ proposals'[q] = proposals[q] /\ proposals[q] \in ProposalType
    BY <1>6, <1>7
  <2>2. CASE r = k + 1
    <3>1. proposals'[r].openedAt = now
      BY <1>4, <1>6, <2>2
    <3>2. IF proposals[q].succeeded
          THEN lastCreatorActivity >= proposals[q].deadline
          ELSE ctoCooldownUntil >= proposals[q].deadline + CTO_COOLDOWN_MS
      BY <1>6, <1>7, <2>1 DEF IInv, Timely
    <3>3. /\ lastCreatorActivity \in Nat /\ ctoCooldownUntil \in Nat
          /\ proposals[q].deadline \in Nat
      BY <2>1 DEF IInv, TypeOK, ProposalType
    <3>4. QED
      BY <1>1, <1>2, <2>1, <3>1, <3>2, <3>3
  <2>3. CASE r \in 1 .. k
    BY <1>6, <2>1, <2>3 DEF IInv, ProposalsSpaced
  <2>4. QED
    BY <1>6, <2>2, <2>3
<1>12. Timely'
  <2>1. /\ lastCreatorActivity' <= now'
        /\ ctoCooldownUntil' <= now' + CTO_COOLDOWN_MS
        /\ live' = Len(proposals')
    BY <1>5, <1>6 DEF IInv, Timely, k
  <2>2. \A q \in 1 .. k :
          LET it == proposals'[q]
          IN  /\ it.deadline = it.openedAt + CTO_WINDOW_MS
              /\ it.resolved /\ it.succeeded => lastCreatorActivity' >= it.deadline
              /\ it.resolved /\ ~it.succeeded =>
                    ctoCooldownUntil' >= it.deadline + CTO_COOLDOWN_MS
              /\ ~it.resolved => it.weight = it.escrow /\ ~it.succeeded
    BY <1>5, <1>6 DEF IInv, Timely
  <2>3. QED
    BY <1>4, <1>6, <2>1, <2>2 DEF Timely
<1>13. QED
  BY <1>8, <1>9, <1>10, <1>11, <1>12 DEF IInv

\* resolve_takeover preserves the invariant: the proposal it resolves is the
\* live one, and the clock it sets remembers when.
LEMMA ResolveStep ==
    ASSUME IInv, NEW p \in Proposals, Resolve(p)
    PROVE  IInv'
<1> USE DEF market, caps
<1> DEFINE new == [proposals[p] EXCEPT !.resolved = TRUE, !.succeeded = Succeeds(p)]
<1>1. /\ proposals[p] \in ProposalType /\ ~proposals[p].resolved /\ live = p
      /\ now >= proposals[p].deadline /\ now \in Nat
  BY ProposalTypes DEF Resolve, IInv, TypeOK, OneLiveProposal
<1>2. Succeeds(p) \in BOOLEAN
  BY DEF Succeeds
<1>3. /\ new \in ProposalType
      /\ new.openedAt = proposals[p].openedAt /\ new.deadline = proposals[p].deadline
      /\ new.resolved = TRUE /\ new.succeeded = Succeeds(p)
  BY <1>1, <1>2 DEF ProposalType
<1>4. proposals' = [proposals EXCEPT ![p] = new]
  BY <1>1 DEF Resolve, ProposalType
<1>5. /\ live' = 0 /\ UNCHANGED <<market, wallet, now>>
      /\ Succeeds(p) => /\ capOwner' = Append(capOwner, proposals[p].proposer)
                        /\ activeCap' = Len(capOwner) + 1
                        /\ creator' = proposals[p].proposer
                        /\ lastCreatorActivity' = now
                        /\ ctoCooldownUntil' = ctoCooldownUntil
      /\ ~Succeeds(p) => /\ ctoCooldownUntil' = now + CTO_COOLDOWN_MS
                         /\ UNCHANGED <<caps, lastCreatorActivity>>
  BY DEF Resolve, CooldownEnd, CapsAfter
<1> HIDE DEF new
<1>6. /\ proposals' \in Seq(ProposalType) /\ Len(proposals') = Len(proposals)
      /\ Proposals' = Proposals
      /\ \A q \in Proposals : proposals'[q] = IF q = p THEN new ELSE proposals[q]
  BY <1>3, <1>4 DEF IInv, TypeOK, Proposals
<1>7. CTO_COOLDOWN_MS \in Nat
  BY TakeoverAssumption
<1>8. TypeOK'
  <2>1. /\ capOwner' \in Seq(Users) /\ activeCap' \in 1 .. Len(capOwner')
        /\ creator' \in Users
    <3>1. capOwner \in Seq(Users) /\ activeCap \in 1 .. Len(capOwner) /\ creator \in Users
          /\ proposals[p].proposer \in Users
      BY <1>1 DEF IInv, TypeOK, ProposalType
    <3>2. CASE Succeeds(p)
      BY <1>5, <3>1, <3>2
    <3>3. CASE ~Succeeds(p)
      BY <1>5, <3>1, <3>3
    <3>4. QED
      BY <3>2, <3>3
  <2>2. lastCreatorActivity' \in Nat /\ ctoCooldownUntil' \in Nat
    BY <1>1, <1>2, <1>5, <1>7 DEF IInv, TypeOK
  <2>3. live' \in 0 .. Len(proposals')
    BY <1>5, <1>6 DEF IInv, TypeOK
  <2>4. QED
    BY <1>5, <1>6, <2>1, <2>2, <2>3 DEF IInv, TypeOK
<1>9. BondLocked'
  BY <1>3, <1>6 DEF IInv, BondLocked
<1>10. OneLiveProposal'
  BY <1>1, <1>3, <1>5, <1>6 DEF IInv, OneLiveProposal, Proposals
<1>11. ProposalsSpaced'
  <2>1. \A q \in Proposals : p < q => FALSE
    BY <1>1 DEF IInv, Timely, TypeOK, Proposals
  <2>2. \A q, r \in Proposals : q < r => q # p
    BY <2>1
  <2>3. \A q \in Proposals : /\ proposals'[q].openedAt = proposals[q].openedAt
                             /\ q # p => proposals'[q] = proposals[q]
    BY <1>3, <1>6
  <2>4. ASSUME NEW q \in Proposals, NEW r \in Proposals, q < r
        PROVE  proposals'[r].openedAt >= proposals'[q].deadline
                 + IF proposals'[q].succeeded THEN CTO_INACTIVITY_MS
                                              ELSE CTO_COOLDOWN_MS
    <3>1. proposals'[q] = proposals[q] /\ proposals'[r].openedAt = proposals[r].openedAt
      BY <2>2, <2>3, <2>4
    <3>2. QED
      BY <2>4, <3>1 DEF IInv, ProposalsSpaced
  <2>5. QED
    BY <1>6, <2>4 DEF ProposalsSpaced
<1>12. Timely'
  <2>1. /\ lastCreatorActivity \in Nat /\ ctoCooldownUntil \in Nat
        /\ lastCreatorActivity <= now /\ ctoCooldownUntil <= now + CTO_COOLDOWN_MS
    BY DEF IInv, TypeOK, Timely
  <2>2. /\ lastCreatorActivity' \in Nat /\ ctoCooldownUntil' \in Nat /\ now' = now
        /\ lastCreatorActivity <= lastCreatorActivity' /\ lastCreatorActivity' <= now
        /\ ctoCooldownUntil <= ctoCooldownUntil'
        /\ ctoCooldownUntil' <= now + CTO_COOLDOWN_MS
        /\ Succeeds(p) => lastCreatorActivity' = now
        /\ ~Succeeds(p) => ctoCooldownUntil' = now + CTO_COOLDOWN_MS
    <3>1. CASE Succeeds(p)
      BY <1>1, <1>5, <1>7, <2>1, <3>1
    <3>2. CASE ~Succeeds(p)
      BY <1>1, <1>5, <1>7, <2>1, <3>2
    <3>3. QED
      BY <3>1, <3>2
  <2>3. ASSUME NEW q \in Proposals
        PROVE  LET it == proposals'[q]
               IN  /\ it.deadline = it.openedAt + CTO_WINDOW_MS
                   /\ it.resolved /\ it.succeeded => lastCreatorActivity' >= it.deadline
                   /\ it.resolved /\ ~it.succeeded =>
                         ctoCooldownUntil' >= it.deadline + CTO_COOLDOWN_MS
                   /\ ~it.resolved => it.weight = it.escrow /\ ~it.succeeded
    <3>1. proposals[q] \in ProposalType
      BY ProposalTypes DEF IInv
    <3>2. proposals[q].deadline \in Nat
      BY <3>1 DEF ProposalType
    <3>3. CASE q = p
      <4>1. proposals'[q] = new
        BY <1>6, <3>3
      <4>2. proposals[p].deadline = proposals[p].openedAt + CTO_WINDOW_MS
        BY DEF IInv, Timely
      <4>3. QED
        BY <1>1, <1>3, <1>7, <2>2, <3>2, <3>3, <4>1, <4>2
    <3>4. CASE q # p
      <4>1. proposals'[q] = proposals[q]
        BY <1>6, <3>4
      <4>2. QED
        BY <1>7, <2>1, <2>2, <3>2, <4>1 DEF IInv, Timely
    <3>5. QED
      BY <3>3, <3>4
  <2>4. QED
    BY <1>5, <1>6, <2>2, <2>3 DEF Timely
<1>13. QED
  BY <1>8, <1>9, <1>10, <1>11, <1>12 DEF IInv

\* Trades, transfers, the mint, the creator's actions and time preserve the
\* invariant: they leave the proposals alone.
LEMMA OtherSteps ==
    ASSUME IInv, TypeOK', UNCHANGED <<proposals, live, ctoCooldownUntil>>,
           now' >= now, lastCreatorActivity' >= lastCreatorActivity,
           lastCreatorActivity' <= now'
    PROVE  IInv'
<1>1. /\ lastCreatorActivity \in Nat /\ lastCreatorActivity' \in Nat
      /\ now \in Nat /\ now' \in Nat /\ ctoCooldownUntil \in Nat
      /\ CTO_COOLDOWN_MS \in Nat
  BY TakeoverAssumption DEF IInv, TypeOK
<1>2. BondLocked' /\ OneLiveProposal' /\ ProposalsSpaced'
  BY DEF IInv, BondLocked, OneLiveProposal, ProposalsSpaced, Proposals
<1>3. \A p \in Proposals : proposals[p] \in ProposalType
  BY ProposalTypes DEF IInv
<1>4. \A p \in Proposals : proposals[p].deadline \in Nat
  BY <1>3 DEF ProposalType
<1>5. Timely'
  <2>1. /\ live' \in {0, Len(proposals')}
        /\ lastCreatorActivity' <= now'
        /\ ctoCooldownUntil' <= now' + CTO_COOLDOWN_MS
    BY <1>1 DEF IInv, Timely
  <2>2. ASSUME NEW p \in Proposals'
        PROVE  LET it == proposals'[p]
               IN  /\ it.deadline = it.openedAt + CTO_WINDOW_MS
                   /\ it.resolved /\ it.succeeded => lastCreatorActivity' >= it.deadline
                   /\ it.resolved /\ ~it.succeeded =>
                         ctoCooldownUntil' >= it.deadline + CTO_COOLDOWN_MS
                   /\ ~it.resolved => it.weight = it.escrow /\ ~it.succeeded
    <3>1. p \in Proposals /\ proposals'[p] = proposals[p]
      BY DEF Proposals
    <3>2. proposals[p].deadline \in Nat
      BY <1>4, <3>1
    <3>3. QED
      BY <1>1, <3>1, <3>2 DEF IInv, Timely
  <2>3. QED
    BY <2>1, <2>2 DEF Timely
<1>6. QED
  BY <1>2, <1>5 DEF IInv

\* The steps OtherSteps is about.
LEMMA MarketSteps ==
    ASSUME IInv,
           \/ \E u \in Users, n \in Amounts :
                 (\E graduates \in BOOLEAN : Buy(u, n, graduates)) \/ Sell(u, n)
           \/ \E u, v \in Users, n \in Amounts : Transfer(u, v, n)
           \/ \E n \in Amounts, burn \in BOOLEAN : ExecuteBuyback(n, burn)
           \/ Graduate
           \/ \E u \in Users : MintPool(u)
           \/ \E cap \in DOMAIN capOwner : CreatorAction(cap)
           \/ Tick \/ UNCHANGED vars
    PROVE  IInv'
<1> USE DEF market, caps
<1>1. Amounts \subseteq Nat /\ CURVE_SUPPLY \in Nat /\ TOTAL_SUPPLY - CURVE_SUPPLY \in Nat
  BY TakeoverAssumption
<1>2. now \in Nat /\ lastCreatorActivity \in Nat /\ lastCreatorActivity <= now
  BY DEF IInv, TypeOK, Timely
<1>3. CASE \E u \in Users, n \in Amounts, graduates \in BOOLEAN : Buy(u, n, graduates)
  <2>1. PICK u \in Users, n \in Amounts, graduates \in BOOLEAN : Buy(u, n, graduates)
    BY <1>3
  <2>2. n \in Nat /\ wallet[u] \in Nat
    BY <1>1 DEF IInv, TypeOK
  <2>3. tokenReserve' \in Nat /\ wallet' \in [Users -> Nat]
    BY <2>1, <2>2 DEF Buy, IInv, TypeOK
  <2>4. TypeOK'
    BY <2>1, <2>3 DEF Buy, IInv, TypeOK
  <2>5. QED
    BY <1>2, <2>1, <2>4, OtherSteps DEF Buy
<1>4. CASE \E u \in Users, n \in Amounts : Sell(u, n)
  <2>1. PICK u \in Users, n \in Amounts : Sell(u, n)
    BY <1>4
  <2>2. n \in Nat /\ wallet[u] \in Nat
    BY <1>1 DEF IInv, TypeOK
  <2>3. tokenReserve' \in Nat /\ wallet' \in [Users -> Nat]
    BY <2>1, <2>2 DEF Sell, IInv, TypeOK
  <2>4. TypeOK'
    BY <2>1, <2>3 DEF Sell, IInv, TypeOK
  <2>5. QED
    BY <1>2, <2>1, <2>4, OtherSteps DEF Sell
<1>5. CASE \E u, v \in Users, n \in Amounts : Transfer(u, v, n)
  <2>1. PICK u \in Users, v \in Users, n \in Amounts : Transfer(u, v, n)
    BY <1>5
  <2>2. n \in Nat /\ wallet[u] \in Nat /\ wallet[v] \in Nat /\ n <= wallet[u] /\ u # v
    BY <1>1, <2>1 DEF Transfer, IInv, TypeOK
  <2>3. wallet' \in [Users -> Nat]
    <3>1. wallet' = [[wallet EXCEPT ![u] = @ - n] EXCEPT ![v] = @ + n]
      BY <2>1 DEF Transfer
    <3>2. [wallet EXCEPT ![u] = @ - n] \in [Users -> Nat]
      BY <2>2 DEF IInv, TypeOK
    <3>3. QED
      BY <2>2, <3>1, <3>2
  <2>4. TypeOK'
    BY <2>1, <2>3 DEF Transfer, IInv, TypeOK
  <2>5. QED
    BY <1>2, <2>1, <2>4, OtherSteps DEF Transfer
<1>6. CASE \E n \in Amounts, burn \in BOOLEAN : ExecuteBuyback(n, burn)
  BY <1>1, <1>2, <1>6, OtherSteps DEF ExecuteBuyback, IInv, TypeOK
<1>7. CASE \E u \in Users : MintPool(u)
  BY <1>1, <1>2, <1>7, OtherSteps DEF MintPool, IInv, TypeOK
<1>8. CASE \E cap \in DOMAIN capOwner : CreatorAction(cap)
  BY <1>2, <1>8, OtherSteps DEF CreatorAction, IInv, TypeOK
<1>9. CASE Tick
  BY <1>2, <1>9, OtherSteps DEF Tick, IInv, TypeOK
<1>10. CASE UNCHANGED vars
  BY <1>2, <1>10, OtherSteps DEF vars, IInv, TypeOK
<1>11. CASE Graduate
  BY <1>2, <1>11, OtherSteps DEF Graduate, IInv, TypeOK
<1>12. QED
  BY <1>3, <1>4, <1>5, <1>6, <1>7, <1>8, <1>9, <1>10,
     <1>11

---------------------------------------------------------------------------
(* The theorems *)

\* A new curve, with no proposal, satisfies the invariant.
LEMMA InitIInv == Init => IInv
<1> SUFFICES ASSUME Init PROVE IInv
  OBVIOUS
<1>1. TypeOK
  <2>1. CURVE_SUPPLY \in Nat /\ [u \in Users |-> 0] \in [Users -> Nat]
        /\ <<FirstCreator>> \in Seq(Users) /\ 1 \in 1 .. Len(<<FirstCreator>>)
        /\ FirstCreator \in Users
    BY TakeoverAssumption
  <2>2. <<>> \in Seq(ProposalType) /\ 0 \in 0 .. Len(<<>>)
    OBVIOUS
  <2>3. QED
    BY <2>1, <2>2 DEF Init, TypeOK
<1>2. Proposals = {}
  BY DEF Init, Proposals
<1>3. Timely
  BY <1>2, TakeoverAssumption DEF Init, Timely
<1>4. QED
  BY <1>1, <1>2, <1>3 DEF IInv, BondLocked, OneLiveProposal, ProposalsSpaced

\* Every step preserves the invariant.
LEMMA NextIInv ==
    ASSUME IInv, [Next]_vars
    PROVE  IInv'
<1>1. CASE \E u \in Users, n \in Amounts : Propose(u, n)
  BY <1>1, ProposeStep
<1>2. CASE \E p \in Proposals, u \in Users :
             \/ \E n \in Amounts : Vote(p, u, n)
             \/ Unvote(p, u) \/ Reclaim(p, u)
  BY <1>2, VoteStep, UnvoteStep, ReclaimStep
<1>3. CASE \E p \in Proposals : Resolve(p)
  BY <1>3, ResolveStep
<1>4. QED
  BY <1>1, <1>2, <1>3, MarketSteps DEF Next

\* The inductive invariant of the takeover.
THEOREM TakeoverInvariant == Spec => []IInv
<1>1. IInv /\ [Next]_vars => IInv'
  BY NextIInv
<1>2. QED
  BY <1>1, InitIInv, PTL DEF Spec

\* Every state of a curve's takeovers is type correct: no escrow, tally or
\* wallet goes below zero.
THEOREM TakeoverTypeCorrect == Spec => []TypeOK
<1>1. IInv => TypeOK
  BY DEF IInv
<1>2. QED
  BY <1>1, TakeoverInvariant, PTL

\* PASS-C-1: the nominate bond stays in the escrow until the resolution.
THEOREM BondStaysLocked == Spec => []BondLocked
<1>1. IInv => BondLocked
  BY DEF IInv
<1>2. QED
  BY <1>1, TakeoverInvariant, PTL

\* There is one unresolved proposal when the marker is set and none otherwise,
\* so resolve_takeover always removes the marker of the proposal it resolves.
THEOREM OneProposalAtATime == Spec => []OneLiveProposal
<1>1. IInv => OneLiveProposal
  BY DEF IInv
<1>2. QED
  BY <1>1, TakeoverInvariant, PTL

\* Cooldown and inactivity really separate the windows of two proposals.
THEOREM WindowsAreApart == Spec => []ProposalsSpaced
<1>1. IInv => ProposalsSpaced
  BY DEF IInv
<1>2. QED
  BY <1>1, TakeoverInvariant, PTL

\* Only the resolution of a proposal that has succeeded changes the active cap.
LEMMA OnlyResolveTakesOver ==
    ASSUME IInv, [Next]_vars, activeCap' # activeCap
    PROVE  \E p \in Proposals : Resolve(p) /\ Succeeds(p)
<1> USE DEF caps
<1>1. ASSUME NEW u, NEW n PROVE ~Buy(u, n, TRUE) /\ ~Buy(u, n, FALSE) /\ ~Sell(u, n) /\ ~Propose(u, n)
  BY DEF Buy, Sell, Propose
<1>2. ASSUME NEW u, NEW v, NEW n PROVE ~Transfer(u, v, n) /\ ~ExecuteBuyback(n, v)
  BY DEF Transfer, ExecuteBuyback
<1>3. ASSUME NEW u PROVE ~Graduate /\ ~MintPool(u) /\ ~CreatorAction(u) /\ ~Tick
  BY DEF Graduate, MintPool, CreatorAction, Tick
<1>4. ASSUME NEW p, NEW u, NEW n PROVE ~Vote(p, u, n) /\ ~Unvote(p, u) /\ ~Reclaim(p, u)
  BY DEF Vote, Unvote, Reclaim
<1>5. ~UNCHANGED vars
  BY DEF vars
<1>6. PICK p \in Proposals : Resolve(p)
  BY <1>1, <1>2, <1>3, <1>4, <1>5 DEF Next
<1>7. Succeeds(p)
  BY <1>6 DEF Resolve
<1>8. QED
  BY <1>6, <1>7

\* The curve changes hands only with a whole window and a quorum behind it.
THEOREM TakeoverNeedsQuorum == Spec => TakeoverIsBacked
<1> DEFINE Backed ==
      activeCap' # activeCap =>
         \E p \in Proposals :
            /\ ~proposals[p].resolved /\ proposals'[p].resolved
            /\ proposals[p].quorum > 0
            /\ proposals[p].escrow >= proposals[p].quorum
            /\ now - proposals[p].openedAt >= CTO_WINDOW_MS
            /\ creator' = proposals[p].proposer
            /\ capOwner'[activeCap'] = creator'
<1>1. IInv /\ [Next]_vars => [Backed]_vars
  <2> SUFFICES ASSUME IInv, [Next]_vars, activeCap' # activeCap PROVE Backed
    OBVIOUS
  <2>1. PICK p \in Proposals : Resolve(p) /\ Succeeds(p)
    BY OnlyResolveTakesOver
  <2>2. proposals[p] \in ProposalType
    BY ProposalTypes DEF IInv
  <2>3. /\ ~proposals[p].resolved /\ proposals[p].quorum > 0
        /\ proposals[p].escrow >= proposals[p].quorum
    BY <2>1 DEF Resolve, Succeeds, IInv, Timely
  <2>4. now - proposals[p].openedAt >= CTO_WINDOW_MS
    <3>1. proposals[p].deadline = proposals[p].openedAt + CTO_WINDOW_MS
      BY DEF IInv, Timely
    <3>2. now >= proposals[p].deadline
      BY <2>1 DEF Resolve
    <3>3. now \in Nat /\ proposals[p].openedAt \in Nat /\ CTO_WINDOW_MS \in Nat
      BY <2>2, TakeoverAssumption DEF IInv, TypeOK, ProposalType
    <3>4. QED
      BY <3>1, <3>2, <3>3
  <2>5. proposals'[p].resolved
    <3>1. proposals' = [proposals EXCEPT ![p].resolved = TRUE, ![p].succeeded = Succeeds(p)]
      BY <2>1 DEF Resolve
    <3>2. proposals \in Seq(ProposalType)
      BY DEF IInv, TypeOK
    <3>3. QED
      BY <2>2, <3>1, <3>2 DEF Proposals, ProposalType
  <2>6. creator' = proposals[p].proposer /\ capOwner'[activeCap'] = creator'
    <3>1. /\ capOwner' = Append(capOwner, proposals[p].proposer)
          /\ activeCap' = Len(capOwner) + 1
          /\ creator' = proposals[p].proposer
      BY <2>1 DEF Resolve, CapsAfter
    <3>2. capOwner \in Seq(Users) /\ proposals[p].proposer \in Users
      BY <2>2 DEF IInv, TypeOK, ProposalType
    <3>3. QED
      BY <3>1, <3>2
  <2>7. QED
    BY <2>3, <2>4, <2>5, <2>6
<1>2. QED
  BY <1>1, TakeoverInvariant, PTL DEF Spec, TakeoverIsBacked

\* After the window the tally stands, and after the resolution the outcome.
THEOREM TallyStands == Spec => TallyIsFinal
<1> DEFINE Final(p) ==
      /\ now >= proposals[p].deadline => proposals'[p].weight = proposals[p].weight
      /\ proposals[p].resolved => /\ proposals'[p].resolved
                                  /\ proposals'[p].succeeded = proposals[p].succeeded
<1>1. IInv /\ [Next]_vars => [\A p \in Proposals : Final(p)]_vars
  <2> SUFFICES ASSUME IInv, [Next]_vars, NEW p \in Proposals PROVE Final(p)
    OBVIOUS
  <2>1. /\ proposals[p] \in ProposalType /\ proposals \in Seq(ProposalType)
        /\ p \in 1 .. Len(proposals)
        /\ \A q \in Proposals : proposals[q] \in ProposalType /\ q \in 1 .. Len(proposals)
    BY ProposalTypes DEF IInv, TypeOK, Proposals
  <2>2. CASE UNCHANGED proposals
    BY <2>1, <2>2
  <2>3. CASE \E u \in Users, n \in Amounts : Propose(u, n)
    <3>1. PICK new : proposals' = Append(proposals, new)
      BY <2>3 DEF Propose
    <3>2. proposals'[p] = proposals[p]
      BY <2>1, <3>1
    <3>3. QED
      BY <2>1, <3>2
  <2>4. CASE \E q \in Proposals, u \in Users : \E n \in Amounts : Vote(q, u, n)
    <3>1. PICK q \in Proposals, u \in Users, n \in Amounts : Vote(q, u, n)
      BY <2>4
    <3>2. ~proposals[q].resolved /\ now < proposals[q].deadline
      BY <3>1 DEF Vote, VoteOpen
    <3>3. q # p => proposals'[p] = proposals[p]
      BY <2>1, <3>1 DEF Vote
    <3>4. now \in Nat /\ proposals[q].deadline \in Nat
      BY <2>1 DEF IInv, TypeOK, ProposalType
    <3>5. QED
      BY <2>1, <3>2, <3>3, <3>4
  <2>5. CASE \E q \in Proposals, u \in Users : Unvote(q, u)
    <3>1. PICK q \in Proposals, u \in Users : Unvote(q, u)
      BY <2>5
    <3>2. ~proposals[q].resolved /\ now < proposals[q].deadline
      BY <3>1 DEF Unvote, VoteOpen
    <3>3. q # p => proposals'[p] = proposals[p]
      BY <2>1, <3>1 DEF Unvote
    <3>4. now \in Nat /\ proposals[q].deadline \in Nat
      BY <2>1 DEF IInv, TypeOK, ProposalType
    <3>5. QED
      BY <2>1, <3>2, <3>3, <3>4
  <2>6. CASE \E q \in Proposals, u \in Users : Reclaim(q, u)
    <3>1. PICK q \in Proposals, u \in Users : Reclaim(q, u)
      BY <2>6
    <3>2. q # p => proposals'[p] = proposals[p]
      BY <2>1, <3>1 DEF Reclaim
    <3>3. q = p => /\ proposals'[p].weight = proposals[p].weight
                   /\ proposals'[p].resolved = proposals[p].resolved
                   /\ proposals'[p].succeeded = proposals[p].succeeded
      <4> SUFFICES ASSUME q = p
                   PROVE  /\ proposals'[p].weight = proposals[p].weight
                          /\ proposals'[p].resolved = proposals[p].resolved
                          /\ proposals'[p].succeeded = proposals[p].succeeded
        OBVIOUS
      <4> DEFINE escrow == proposals[p].escrow - proposals[p].votes[u]
                 votes == [proposals[p].votes EXCEPT ![u] = 0]
      <4>1. Touches(p, escrow, proposals[p].weight, votes)
        BY <3>1, ReclaimTouches DEF IInv
      <4> HIDE DEF escrow, votes
      <4>2. QED
        BY <4>1, TouchKeepsOutcome DEF IInv
    <3>4. QED
      BY <2>1, <3>2, <3>3
  <2>7. CASE \E q \in Proposals : Resolve(q)
    <3>1. PICK q \in Proposals : Resolve(q)
      BY <2>7
    <3>2. q # p => proposals'[p] = proposals[p]
      BY <2>1, <3>1 DEF Resolve
    <3>3. q = p => /\ proposals'[p].weight = proposals[p].weight
                   /\ ~proposals[p].resolved
      BY <2>1, <3>1 DEF Resolve, ProposalType
    <3>4. QED
      BY <2>1, <3>2, <3>3
  <2>8. QED
    BY <2>2, <2>3, <2>4, <2>5, <2>6, <2>7
       DEF Next, Buy, Sell, Transfer, ExecuteBuyback, Graduate, MintPool, CreatorAction,
           Tick, vars
<1>2. QED
  BY <1>1, TakeoverInvariant, PTL DEF Spec, TallyIsFinal

---------------------------------------------------------------------------
(* The escrow is the sum of the stakes *)

\* Total is the sum over the users.
LEMMA TotalIsSum ==
    ASSUME NEW f, DOMAIN f = Users
    PROVE  Total(f) = Sums(f, Users)[Users]
<1>1. Total(f) = Sums(f, DOMAIN f)[DOMAIN f]
  BY DEF Total, FoldFunction, FoldFunctionOnSet, MapThenFoldSet, Sums
<1>2. QED
  BY <1>1

\* It is a natural number, no less than any stake, the only stake if there is
\* one, and changes as much as a stake that changes alone.
LEMMA TotalOfStakes ==
    ASSUME NEW f \in [Users -> Nat], NEW u \in Users
    PROVE  /\ Total(f) \in Nat
           /\ f[u] <= Total(f)
           /\ (\A v \in Users \ {u} : f[v] = 0) => Total(f) = f[u]
           /\ \A g \in [Users -> Nat] :
                 (\A v \in Users \ {u} : f[v] = g[v]) => Total(g) = Total(f) - f[u] + g[u]
<1> USE FiniteUsers
<1>1. \A v \in Users : f[v] \in Int /\ f[v] \in Nat
  OBVIOUS
<1>2. Total(f) = Sums(f, Users)[Users]
  BY TotalIsSum
<1>3. Sums(f, Users)[Users] \in Nat /\ Sums(f, Users)[Users \ {u}] \in Nat
  <2>1. \A s \in SUBSET Users : Sums(f, Users)[s] \in Nat
    BY <1>1, SumsNat
  <2>2. Users \in SUBSET Users /\ Users \ {u} \in SUBSET Users
    OBVIOUS
  <2>3. QED
    BY <2>1, <2>2, Zenon
<1>4. Sums(f, Users)[Users] = f[u] + Sums(f, Users)[Users \ {u}]
  BY <1>1, SumsAdd
<1>5. ASSUME NEW g \in [Users -> Nat], \A v \in Users \ {u} : f[v] = g[v]
      PROVE  Total(g) = Total(f) - f[u] + g[u]
  <2>1. \A v \in Users : g[v] \in Int
    OBVIOUS
  <2>2. Total(g) = Sums(g, Users)[Users]
    BY TotalIsSum
  <2>3. QED
    BY <1>1, <1>2, <1>5, <2>1, <2>2, SumsChange
<1>6. ASSUME \A v \in Users \ {u} : f[v] = 0
      PROVE  Total(f) = f[u]
  <2> DEFINE z == [v \in Users |-> 0]
  <2>1. z \in [Users -> Nat] /\ \A v \in Users : z[v] \in Nat /\ z[v] \in Int /\ z[v] = 0
    OBVIOUS
  <2>2. Total(z) = Sums(z, Users)[Users] /\ Sums(z, Users)[Users] = 0
    <3>1. DOMAIN z = Users
      OBVIOUS
    <3> HIDE DEF z
    <3>2. QED
      BY <2>1, <3>1, TotalIsSum, SumsNat
  <2> HIDE DEF z
  <2>3. \A v \in Users \ {u} : z[v] = f[v]
    BY <1>6, <2>1
  <2>4. Sums(f, Users)[Users] = Sums(z, Users)[Users] - z[u] + f[u]
    BY <1>1, <2>1, <2>3, SumsChange
  <2>5. QED
    BY <1>1, <1>2, <2>1, <2>2, <2>4
<1>7. f[u] \in Nat
  OBVIOUS
<1>8. QED
  BY <1>2, <1>3, <1>4, <1>5, <1>6, <1>7

\* The stakes of every proposal are in its escrow.
EscrowsHold == \A p \in Proposals : proposals[p].escrow = Total(proposals[p].votes)

\* A step that changes one voter's stake, and the escrow by as much, keeps it so.
LEMMA TouchKeepsEscrow ==
    ASSUME TypeOK, EscrowsHold, NEW p, NEW u \in Users, NEW escrow, NEW weight,
           NEW votes \in [Users -> Nat], Touches(p, escrow, weight, votes),
           \A v \in Users \ {u} : proposals[p].votes[v] = votes[v],
           escrow = proposals[p].escrow - proposals[p].votes[u] + votes[u]
    PROVE  EscrowsHold'
<1> DEFINE new == [proposals[p] EXCEPT !.escrow = escrow, !.weight = weight,
                                       !.votes = votes]
<1>1. /\ p \in Proposals /\ proposals \in Seq(ProposalType)
      /\ proposals[p] \in ProposalType
  BY ProposalTypes DEF TypeOK, Touches
<1>2. new.escrow = escrow /\ new.votes = votes
  BY <1>1 DEF ProposalType
<1>3. proposals' = [proposals EXCEPT ![p] = new]
  BY <1>1 DEF Touches
<1> HIDE DEF new
<1>4. /\ Proposals' = Proposals
      /\ \A q \in Proposals : proposals'[q] = IF q = p THEN new ELSE proposals[q]
  BY <1>1, <1>3 DEF Proposals
<1>5. escrow = Total(votes)
  <2>1. proposals[p].votes \in [Users -> Nat] /\ proposals[p].escrow = Total(proposals[p].votes)
    BY <1>1 DEF ProposalType, EscrowsHold
  <2>2. Total(votes) = Total(proposals[p].votes) - proposals[p].votes[u] + votes[u]
    BY <2>1, TotalOfStakes
  <2>3. QED
    BY <2>1, <2>2
<1>6. ASSUME NEW q \in Proposals' PROVE proposals'[q].escrow = Total(proposals'[q].votes)
  <2>1. CASE q = p
    <3>1. proposals'[q] = new
      BY <1>1, <1>4, <2>1
    <3>2. QED
      BY <1>2, <1>5, <3>1
  <2>2. CASE q # p
    <3>1. proposals'[q] = proposals[q] /\ q \in Proposals
      BY <1>4, <2>2
    <3>2. QED
      BY <3>1 DEF EscrowsHold
  <2>3. QED
    BY <2>1, <2>2
<1>7. QED
  BY <1>6 DEF EscrowsHold

\* Votes, withdrawals and reclaims move the escrow with the stake.
LEMMA StakeStepsKeepEscrow ==
    ASSUME IInv, EscrowsHold, NEW p \in Proposals, NEW u \in Users,
           \/ \E n \in Amounts : Vote(p, u, n)
           \/ Unvote(p, u) \/ Reclaim(p, u)
    PROVE  EscrowsHold'
<1>1. /\ proposals[p] \in ProposalType /\ TypeOK
      /\ proposals[p].votes \in [Users -> Nat] /\ proposals[p].escrow \in Nat
      /\ proposals[p].bond \in Nat
  BY ProposalTypes DEF IInv, ProposalType
<1>2. CASE \E n \in Amounts : Vote(p, u, n)
  <2>1. PICK n \in Amounts : Vote(p, u, n)
    BY <1>2
  <2> DEFINE votes == AddedVote(proposals[p].votes, u, n)
  <2>2. n \in Nat
    BY TakeoverAssumption
  <2>3. /\ votes \in [Users -> Nat]
        /\ \A v \in Users \ {u} : proposals[p].votes[v] = votes[v]
        /\ votes[u] = proposals[p].votes[u] + n
    BY <1>1, <2>2 DEF AddedVote
  <2>4. Touches(p, proposals[p].escrow + n, proposals[p].weight + n, votes)
    BY <1>1, <2>1 DEF Vote, Touches, ProposalType
  <2>5. proposals[p].escrow + n = proposals[p].escrow - proposals[p].votes[u] + votes[u]
    BY <1>1, <2>2, <2>3
  <2> HIDE DEF votes
  <2>6. QED
    BY <1>1, <2>3, <2>4, <2>5, TouchKeepsEscrow
<1>3. CASE Unvote(p, u)
  <2> DEFINE left == Locked(p, u)
             withdraw == proposals[p].votes[u] - left
             votes == [proposals[p].votes EXCEPT ![u] = left]
  <2>1. left \in Nat
    BY <1>1 DEF Locked
  <2>2. /\ votes \in [Users -> Nat]
        /\ \A v \in Users \ {u} : proposals[p].votes[v] = votes[v]
        /\ votes[u] = left
    BY <1>1, <2>1
  <2>3. Touches(p, proposals[p].escrow - withdraw, proposals[p].weight - withdraw, votes)
    BY <1>1, <1>3 DEF Unvote, Touches, ProposalType
  <2>4. proposals[p].escrow - withdraw = proposals[p].escrow - proposals[p].votes[u] + votes[u]
    <3> HIDE DEF left
    <3>1. proposals[p].votes[u] \in Nat
      BY <1>1
    <3>2. QED
      BY <1>1, <2>1, <2>2, <3>1
  <2> HIDE DEF votes, withdraw
  <2>5. QED
    BY <1>1, <2>2, <2>3, <2>4, TouchKeepsEscrow
<1>4. CASE Reclaim(p, u)
  <2> DEFINE stake == proposals[p].votes[u]
             votes == [proposals[p].votes EXCEPT ![u] = 0]
  <2>1. /\ votes \in [Users -> Nat] /\ stake \in Nat
        /\ \A v \in Users \ {u} : proposals[p].votes[v] = votes[v]
        /\ votes[u] = 0
    BY <1>1
  <2>2. Touches(p, proposals[p].escrow - stake, proposals[p].weight, votes)
    BY <1>1, <1>4, ReclaimTouches
  <2>3. proposals[p].escrow - stake = proposals[p].escrow - proposals[p].votes[u] + votes[u]
    BY <1>1, <2>1
  <2> HIDE DEF votes, stake
  <2>4. QED
    BY <1>1, <2>1, <2>2, <2>3, TouchKeepsEscrow
<1>5. QED
  BY <1>2, <1>3, <1>4

\* A new proposal has one stake, its proposer's.
LEMMA ProposeKeepsEscrow ==
    ASSUME IInv, EscrowsHold, NEW u \in Users, NEW n \in Amounts, Propose(u, n)
    PROVE  EscrowsHold'
<1> DEFINE votes == [v \in Users |-> IF v = u THEN n ELSE 0]
           it == [proposer |-> u, bond |-> n, openedAt |-> now,
                  deadline |-> now + CTO_WINDOW_MS, escrow |-> n, votes |-> votes,
                  weight |-> n,
                  quorum |-> (CirculatingSupply * CTO_QUORUM_BPS) \div BPS_DENOMINATOR,
                  resolved |-> FALSE, succeeded |-> FALSE]
<1>1. /\ proposals' = Append(proposals, it)
      /\ it.escrow = n /\ it.votes = votes
  BY DEF Propose
<1> HIDE DEF it
<1>2. n \in Nat
  BY TakeoverAssumption
<1>3. votes \in [Users -> Nat] /\ votes[u] = n /\ \A v \in Users \ {u} : votes[v] = 0
  BY <1>2
<1> HIDE DEF votes
<1>4. Total(votes) = n
  BY <1>3, TotalOfStakes
<1>5. /\ Proposals' = Proposals \cup {Len(proposals) + 1}
      /\ proposals'[Len(proposals) + 1] = it
      /\ \A q \in Proposals : proposals'[q] = proposals[q]
  BY <1>1 DEF Proposals, IInv, TypeOK
<1>6. QED
  BY <1>1, <1>4, <1>5 DEF EscrowsHold

\* A resolution, and every other step, leaves stakes and escrows alone.
LEMMA OthersKeepEscrow ==
    ASSUME IInv, EscrowsHold,
           \/ \E p \in Proposals : Resolve(p)
           \/ UNCHANGED proposals
    PROVE  EscrowsHold'
<1>1. CASE UNCHANGED proposals
  BY <1>1 DEF EscrowsHold, Proposals
<1>2. ASSUME NEW p \in Proposals, Resolve(p) PROVE EscrowsHold'
  <2> DEFINE new == [proposals[p] EXCEPT !.resolved = TRUE, !.succeeded = Succeeds(p)]
  <2>1. proposals \in Seq(ProposalType) /\ proposals[p] \in ProposalType
    BY ProposalTypes DEF IInv, TypeOK
  <2>2. new.escrow = proposals[p].escrow /\ new.votes = proposals[p].votes
    BY <2>1 DEF ProposalType
  <2>3. proposals' = [proposals EXCEPT ![p] = new]
    BY <1>2, <2>1 DEF Resolve
  <2> HIDE DEF new
  <2>4. /\ Proposals' = Proposals
        /\ \A q \in Proposals : proposals'[q] = IF q = p THEN new ELSE proposals[q]
    BY <2>1, <2>3 DEF Proposals
  <2>5. QED
    BY <2>2, <2>4 DEF EscrowsHold
<1>3. QED
  BY <1>1, <1>2

\* Every step keeps the escrows whole.
LEMMA NextKeepsEscrow ==
    ASSUME IInv, EscrowsHold, [Next]_vars
    PROVE  EscrowsHold'
<1>1. CASE \E u \in Users, n \in Amounts : Propose(u, n)
  BY <1>1, ProposeKeepsEscrow
<1>2. CASE \E p \in Proposals, u \in Users :
             \/ \E n \in Amounts : Vote(p, u, n)
             \/ Unvote(p, u) \/ Reclaim(p, u)
  BY <1>2, StakeStepsKeepEscrow
<1>3. CASE \E p \in Proposals : Resolve(p)
  BY <1>3, OthersKeepEscrow
<1>4. CASE \/ \E u \in Users, n \in Amounts :
                 (\E graduates \in BOOLEAN : Buy(u, n, graduates)) \/ Sell(u, n)
           \/ \E u, v \in Users, n \in Amounts : Transfer(u, v, n)
           \/ \E n \in Amounts, burn \in BOOLEAN : ExecuteBuyback(n, burn)
           \/ Graduate
           \/ \E u \in Users : MintPool(u)
           \/ \E cap \in DOMAIN capOwner : CreatorAction(cap)
           \/ Tick \/ UNCHANGED vars
  <2>1. UNCHANGED proposals
    BY <1>4 DEF Buy, Sell, Transfer, ExecuteBuyback, Graduate, MintPool, CreatorAction,
                Tick, vars
  <2>2. QED
    BY <2>1, OthersKeepEscrow
<1>5. QED
  BY <1>1, <1>2, <1>3, <1>4 DEF Next

\* Whatever order votes, withdrawals, resolutions and reclaims come in, a
\* proposal's escrow is the sum of its stakes, and its tally until resolution.
THEOREM EscrowIsTheStakes == Spec => []EscrowIsVotes
<1>1. Init => EscrowsHold
  BY DEF Init, EscrowsHold, Proposals
<1>2. IInv /\ EscrowsHold /\ [Next]_vars => EscrowsHold'
  BY NextKeepsEscrow
<1>3. IInv /\ EscrowsHold => EscrowIsVotes
  BY DEF IInv, Timely, EscrowsHold, EscrowIsVotes
<1>4. QED
  BY <1>1, <1>2, <1>3, TakeoverInvariant, PTL DEF Spec

\* So the escrow covers every stake, and the split of a withdrawal or a
\* reclaim is never refused.
Covered == \A p \in Proposals, u \in Users : proposals[p].votes[u] <= proposals[p].escrow

THEOREM StakesAreCovered == Spec => []Covered
<1>1. TypeOK /\ EscrowIsVotes => Covered
  <2> SUFFICES ASSUME TypeOK, EscrowIsVotes, NEW p \in Proposals, NEW u \in Users
               PROVE  proposals[p].votes[u] <= proposals[p].escrow
    BY DEF Covered
  <2>1. proposals[p].votes \in [Users -> Nat]
    BY ProposalTypes DEF ProposalType
  <2>2. proposals[p].votes[u] <= Total(proposals[p].votes)
    BY <2>1, TotalOfStakes
  <2>3. QED
    BY <2>2 DEF EscrowIsVotes
<1>2. QED
  BY <1>1, TakeoverTypeCorrect, EscrowIsTheStakes, PTL
=============================================================================
