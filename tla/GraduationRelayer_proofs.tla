---------------------- MODULE GraduationRelayer_proofs ----------------------
(***************************************************************************)
(* For any curves, operators, reserves and number of failures: the wallet  *)
(* is never overdrawn, rows are closed and pools recorded only for funded  *)
(* curves, and a DeepBook curve is seeded once.                            *)
(***************************************************************************)
EXTENDS GraduationRelayer, TLAPS

\* A run between the two halves has a pool of its own, so that OwnPool, the
\* last of them, is defined.
LastOwn(p, c, i) ==
    /\ i \in DOMAIN pools[c] /\ pools[c][i].by = p
    /\ \A k \in DOMAIN pools[c] : pools[c][k].by = p => k <= i

Owned ==
    \A p \in Processes, c \in Curves :
        at[p][c] = "protocol" => \E i \in DOMAIN pools[c] : LastOwn(p, c, i)

\* A half is a natural number, and not more than the whole.
LEMMA Halves == ASSUME NEW n \in Nat
                PROVE  n \div 2 \in Nat /\ n \div 2 <= n
  OBVIOUS

\* What OwnPool is, where it is used.
LEMMA OwnPoolIsOwn ==
    ASSUME NEW p \in Processes, NEW c \in Curves, Owned, at[p][c] = "protocol"
    PROVE  LastOwn(p, c, OwnPool(p, c))
<1>1. PICK i \in DOMAIN pools[c] : LastOwn(p, c, i)
  BY DEF Owned
<1>2. \E j \in DOMAIN pools[c] :
        /\ pools[c][j].by = p
        /\ \A k \in DOMAIN pools[c] : pools[c][k].by = p => k <= j
  BY <1>1 DEF LastOwn
<1> QED
  BY <1>2 DEF OwnPool, LastOwn

---------------------------------------------------------------------------
(* Types *)

LEMMA TypeInit == Init => TypeOK /\ Owned
  BY RelayerAssumption DEF Init, TypeOK, Owned, Processes, Steps

\* Moving a script on, where it does not come to hold a pool.
LEMMA GoToType ==
    ASSUME TypeOK, Owned, NEW p \in Processes, NEW c \in Curves,
           NEW step \in Steps, GoTo(p, c, step)
    PROVE  /\ at' \in [Processes -> [Curves -> Steps]]
           /\ at'[p][c] = step
           /\ \A q \in Processes, d \in Curves : <<q, d>> # <<p, c>> => at'[q][d] = at[q][d]
  BY DEF TypeOK, GoTo

LEMMA GoToOnly ==
    ASSUME TypeOK, NEW p, NEW c, NEW step, GoTo(p, c, step)
    PROVE  \A q \in Processes, d \in Curves : at'[q][d] \in {at[q][d], step}
  BY DEF TypeOK, GoTo

LEMMA OwnedKept ==
    ASSUME Owned, UNCHANGED pools,
           \A q \in Processes, d \in Curves : at'[q][d] = "protocol" => at[q][d] = "protocol"
    PROVE  Owned'
  BY DEF Owned, LastOwn

LEMMA SeededType ==
    ASSUME TypeOK, NEW c \in Curves, NEW sui \in Nat, NEW lp \in Nat,
           sui <= walletSui, lp <= walletLp[c], Seeded(c, sui, lp)
    PROVE  walletSui' \in Nat /\ walletLp' \in [Curves -> Nat]
  BY DEF TypeOK, Seeded

Position == [by : Processes, sui : Nat, lp : Nat]

\* A new position is its maker's last one and nobody else's.
LEMMA AppendOwned ==
    ASSUME TypeOK, Owned, NEW p \in Processes, NEW c \in Curves, NEW step \in Steps,
           GoTo(p, c, step), NEW m \in Position, m.by = p,
           pools' = [pools EXCEPT ![c] = Append(@, m)]
    PROVE  Owned'
<1> SUFFICES ASSUME NEW q \in Processes, NEW d \in Curves, at'[q][d] = "protocol"
             PROVE  \E i \in DOMAIN pools'[d] : LastOwn(q, d, i)'
  BY DEF Owned
<1>0. pools[c] \in Seq(Position) /\ pools'[c] = Append(pools[c], m)
  BY DEF TypeOK, Position
<1>1. CASE d # c
  <2>1. at[q][d] = "protocol"
    BY <1>1, GoToType
  <2>2. pools'[d] = pools[d]
    BY <1>1 DEF TypeOK
  <2>3. PICK i \in DOMAIN pools[d] : LastOwn(q, d, i)
    BY <2>1 DEF Owned
  <2> QED
    BY <2>2, <2>3 DEF LastOwn
<1>2. CASE d = c /\ q = p
  <2> DEFINE n == Len(pools[c]) + 1
  <2>1. /\ n \in Nat /\ DOMAIN pools'[c] = 1 .. n
        /\ n \in DOMAIN pools'[c] /\ pools'[c][n] = m
    BY <1>0
  <2>2. \A k \in DOMAIN pools'[c] : k <= n
    BY <2>1
  <2> QED
    BY <1>2, <2>1, <2>2 DEF LastOwn
<1>3. CASE d = c /\ q # p
  <2>1. at[q][c] = "protocol"
    BY <1>3, GoToType
  <2>2. PICK i \in DOMAIN pools[c] : LastOwn(q, c, i)
    BY <2>1 DEF Owned
  <2>3. LastOwn(q, c, i)'
    BY <1>0, <1>3, <2>2 DEF LastOwn
  <2> QED
    BY <2>3, <1>3 DEF LastOwn
<1> QED
  BY <1>1, <1>2, <1>3

\* Nor does adding to a position change whose it is.
LEMMA ReplaceOwned ==
    ASSUME TypeOK, Owned, NEW p \in Processes, NEW c \in Curves,
           GoTo(p, c, "record"), NEW m \in Position, m.by = p,
           NEW own \in DOMAIN pools[c], pools[c][own].by = p,
           pools' = [pools EXCEPT ![c][own] = m]
    PROVE  Owned' /\ pools' \in [Curves -> Seq(Position)]
<1>0. pools \in [Curves -> Seq(Position)] /\ pools'[c] = [pools[c] EXCEPT ![own] = m]
  BY DEF TypeOK, Position
<1>1. pools'[c] \in Seq(Position) /\ DOMAIN pools'[c] = DOMAIN pools[c]
  BY <1>0
<1>2. \A k \in DOMAIN pools[c] : pools'[c][k].by = pools[c][k].by
  BY <1>0
<1>3. \A d \in Curves : d # c => pools'[d] = pools[d]
  BY <1>0
<1>4. ASSUME NEW q \in Processes, NEW d \in Curves, at'[q][d] = "protocol"
      PROVE  \E i \in DOMAIN pools'[d] : LastOwn(q, d, i)'
  <2>1. at[q][d] = "protocol"
    BY <1>4, GoToType DEF Steps
  <2>2. PICK i \in DOMAIN pools[d] : LastOwn(q, d, i)
    BY <2>1 DEF Owned
  <2>3. LastOwn(q, d, i)'
    BY <1>1, <1>2, <1>3, <2>2 DEF LastOwn
  <2> QED
    BY <2>3 DEF LastOwn
<1> QED
  BY <1>0, <1>1, <1>4 DEF Owned

\* Every way to fund a pool spends what the wallet has.
LEMMA TypePools ==
    ASSUME TypeOK, Owned, NEW p \in Processes, NEW c \in Curves,
           Deposit(p, c) \/ DeployPool(p, c) \/ AddProtocolHalf(p, c)
    PROVE  TypeOK' /\ Owned'
<1>0. /\ PoolSui[c] \in Nat /\ HalfSui(c) \in Nat /\ HalfSui(c) <= PoolSui[c]
      /\ walletLp[c] \in Nat /\ walletLp[c] \div 2 \in Nat
      /\ walletLp[c] \div 2 <= walletLp[c]
      /\ walletSui \in Nat /\ Headroom \in Nat
      /\ pools \in [Curves -> Seq(Position)] /\ pools[c] \in Seq(Position)
  BY RelayerAssumption, Halves DEF TypeOK, HalfSui, Position
<1>1. CASE Deposit(p, c)
  <2> DEFINE m == Made(p, PoolSui[c], walletLp[c])
  <2>1. PoolSui[c] <= walletSui
    BY <1>0, <1>1 DEF Deposit, Affords
  <2>2. walletSui' \in Nat /\ walletLp' \in [Curves -> Nat]
    BY <1>0, <1>1, <2>1, SeededType DEF Deposit
  <2>3. m \in Position /\ m.by = p
    BY <1>0 DEF Made, Position
  <2>4. pools' = [pools EXCEPT ![c] = Append(@, m)]
    BY <1>1 DEF Deposit
  <2>5. pools' \in [Curves -> Seq(Position)]
    BY <1>0, <2>3, <2>4
  <2>6. GoTo(p, c, "record") /\ "record" \in Steps
    BY <1>1 DEF Deposit, Steps
  <2>7. Owned'
    BY <2>3, <2>4, <2>6, AppendOwned
  <2> QED
    BY <1>1, <2>2, <2>5, <2>6, <2>7, GoToType DEF Deposit, TypeOK, chain, Position
<1>2. CASE DeployPool(p, c)
  <2> DEFINE m == Made(p, HalfSui(c), walletLp[c] \div 2)
  <2>1. HalfSui(c) <= walletSui
    BY <1>0, <1>2 DEF DeployPool, Affords
  <2>2. walletSui' \in Nat /\ walletLp' \in [Curves -> Nat]
    BY <1>0, <1>2, <2>1, SeededType DEF DeployPool
  <2>3. m \in Position /\ m.by = p
    BY <1>0 DEF Made, Position
  <2>4. pools' = [pools EXCEPT ![c] = Append(@, m)]
    BY <1>2 DEF DeployPool
  <2>5. pools' \in [Curves -> Seq(Position)]
    BY <1>0, <2>3, <2>4
  <2>6. GoTo(p, c, "protocol") /\ "protocol" \in Steps
    BY <1>2 DEF DeployPool, Steps
  <2>7. Owned'
    BY <2>3, <2>4, <2>6, AppendOwned
  <2> QED
    BY <1>2, <2>2, <2>5, <2>6, <2>7, GoToType DEF DeployPool, TypeOK, chain, Position
<1>3. CASE AddProtocolHalf(p, c)
  <2> DEFINE own == OwnPool(p, c)
             m == Made(p, pools[c][own].sui + HalfSui(c), 2 * pools[c][own].lp)
  <2>0. own \in DOMAIN pools[c] /\ pools[c][own].by = p
    BY <1>3, OwnPoolIsOwn DEF AddProtocolHalf, LastOwn
  <2>1. pools[c][own] \in Position
    BY <1>0, <2>0
  <2>2. HalfSui(c) <= walletSui /\ pools[c][own].lp <= walletLp[c] /\ pools[c][own].lp \in Nat
    BY <1>0, <1>3, <2>1 DEF AddProtocolHalf, AffordsHalf, Position
  <2>3. walletSui' \in Nat /\ walletLp' \in [Curves -> Nat]
    BY <1>0, <1>3, <2>2, SeededType DEF AddProtocolHalf
  <2>4. m \in Position /\ m.by = p
    <3>1. pools[c][own].sui \in Nat /\ pools[c][own].lp \in Nat
      BY <2>1 DEF Position
    <3>2. HalfSui(c) \in Nat
      BY <1>0
    <3> DEFINE sui == pools[c][own].sui
               half == HalfSui(c)
               lp == pools[c][own].lp
    <3>3. sui + half \in Nat /\ 2 * lp \in Nat
      <4> sui \in Nat /\ half \in Nat /\ lp \in Nat
        BY <3>1, <3>2
      <4> HIDE DEF sui, half, lp
      <4> QED
        OBVIOUS
    <3> QED
      BY <1>0, <3>3 DEF Made, Position
  <2>5. pools' = [pools EXCEPT ![c][own] = m]
    BY <1>0, <1>3, <2>0 DEF AddProtocolHalf
  <2>6. GoTo(p, c, "record") /\ "record" \in Steps
    BY <1>3 DEF AddProtocolHalf, Steps
  <2>7. Owned' /\ pools' \in [Curves -> Seq(Position)]
    <3> HIDE DEF own, m
    <3> QED
      BY <2>0, <2>4, <2>5, <2>6, ReplaceOwned
  <2> QED
    BY <1>3, <2>3, <2>6, <2>7, GoToType DEF AddProtocolHalf, TypeOK, chain, Position
<1> QED
  BY <1>1, <1>2, <1>3

\* A script that moves on and funds nothing.
LEMMA QuietType ==
    ASSUME TypeOK, Owned, NEW p \in Processes, NEW c \in Curves,
           NEW step \in Steps, step # "protocol", GoTo(p, c, step), UNCHANGED pools
    PROVE  at' \in [Processes -> [Curves -> Steps]] /\ Owned'
  BY GoToType, OwnedKept

LEMMA FailsType == ASSUME TypeOK, Fails
                   PROVE  failures' \in Nat
  BY DEF TypeOK, Fails

LEMMA TypeScript ==
    ASSUME TypeOK, Owned, NEW p \in Processes, NEW c \in Curves, Step(p, c)
    PROVE  TypeOK' /\ Owned'
<1>1. CASE Start(p, c)
  <2>1. PICK step \in {"failed", "made", "seed", "claim"} : GoTo(p, c, step)
    BY <1>1 DEF Start, AfterRead, TypeOK
  <2>2. at' \in [Processes -> [Curves -> Steps]] /\ Owned'
    BY <1>1, <2>1, QuietType DEF Start, Steps
  <2> QED
    BY <1>1, <2>2 DEF Start, TypeOK, chain, wallet
<1>2. CASE Claim(p, c)
  <2>1. at' \in [Processes -> [Curves -> Steps]] /\ Owned'
    BY <1>2, QuietType DEF Claim, Steps
  <2>2. PoolSui[c] \in Nat /\ LpSupply \in Nat /\ walletLp[c] \in Nat
    BY RelayerAssumption DEF TypeOK
  <2>3. walletSui' \in Nat /\ walletLp' \in [Curves -> Nat]
    BY <1>2, <2>2 DEF Claim, TypeOK
  <2> QED
    BY <1>2, <2>1, <2>3 DEF Claim, TypeOK
<1>3. CASE ClaimAborts(p, c) \/ Skip(p, c) \/ SeedThrows(p, c)
  <2>1. at' \in [Processes -> [Curves -> Steps]] /\ Owned'
    BY <1>3, QuietType DEF ClaimAborts, Skip, SeedThrows, Steps
  <2> QED
    BY <1>3, <2>1 DEF ClaimAborts, Skip, SeedThrows, TypeOK, chain, wallet
<1>4. CASE Deposit(p, c) \/ DeployPool(p, c) \/ AddProtocolHalf(p, c)
  BY <1>4, TypePools
<1>5. CASE SkipProtocolHalf(p, c) \/ RecordAborts(p, c)
  <2>1. at' \in [Processes -> [Curves -> Steps]] /\ Owned'
    BY <1>5, QuietType DEF SkipProtocolHalf, RecordAborts, Steps
  <2> QED
    BY <1>5, <2>1, FailsType DEF SkipProtocolHalf, RecordAborts, TypeOK, chain, wallet
<1>6. CASE Record(p, c)
  <2>1. at' \in [Processes -> [Curves -> Steps]] /\ Owned'
    BY <1>6, QuietType DEF Record, Steps
  <2> QED
    BY <1>6, <2>1 DEF Record, TypeOK, wallet
<1> QED
  BY <1>1, <1>2, <1>3, <1>4, <1>5, <1>6 DEF Step

LEMMA TypeWatcher ==
    ASSUME TypeOK, Owned, NEW c \in Curves,
           CurveGraduates(c) \/ Visit(c) \/ VisitThrows(c) \/ Finish(c) \/ MarkThrows(c)
    PROVE  TypeOK' /\ Owned'
<1>0. Watcher \in Processes
  BY DEF Processes
<1>1. CASE CurveGraduates(c) \/ VisitThrows(c)
  BY <1>1, OwnedKept, FailsType DEF CurveGraduates, VisitThrows, TypeOK, chain, wallet
<1>2. CASE Visit(c)
  <2>1. GoTo(Watcher, c, "start") \/ UNCHANGED at
    BY <1>2 DEF Visit
  <2>2. at' \in [Processes -> [Curves -> Steps]] /\ Owned'
    BY <1>0, <1>2, <2>1, QuietType, OwnedKept DEF Visit, Steps, TypeOK
  <2>3. done' \in [Curves -> BOOLEAN]
    BY <1>2 DEF Visit, TypeOK
  <2> QED
    BY <1>2, <2>2, <2>3 DEF Visit, TypeOK, chain, wallet
<1>3. CASE Finish(c)
  <2>1. at' \in [Processes -> [Curves -> Steps]] /\ Owned'
    BY <1>0, <1>3, QuietType DEF Finish, Released, Steps
  <2>2. done' \in [Curves -> BOOLEAN]
    BY <1>3 DEF Finish, TypeOK
  <2> QED
    BY <1>3, <2>1, <2>2 DEF Finish, TypeOK, chain, wallet
<1>4. CASE MarkThrows(c)
  <2>1. at' \in [Processes -> [Curves -> Steps]] /\ Owned'
    BY <1>0, <1>4, QuietType DEF MarkThrows, Released, Steps
  <2> QED
    BY <1>4, <2>1, FailsType DEF MarkThrows, TypeOK, chain, wallet
<1> QED
  BY <1>1, <1>2, <1>3, <1>4

LEMMA TypeProcess ==
    ASSUME TypeOK, Owned, NEW p \in Processes, NEW c \in Curves,
           ByHand(p, c) \/ ExitByHand(p, c) \/ Throw(p, c)
    PROVE  TypeOK' /\ Owned'
<1>1. at' \in [Processes -> [Curves -> Steps]] /\ Owned'
  BY QuietType DEF ByHand, ExitByHand, Throw, Steps
<1> QED
  BY <1>1, FailsType DEF ByHand, ExitByHand, Throw, TypeOK, chain, wallet

LEMMA TypeStep ==
    ASSUME TypeOK, Owned, [Next]_vars
    PROVE  TypeOK' /\ Owned'
<1>1. CASE Next
  <2>1. CASE Poll
    BY <2>1, OwnedKept DEF Poll, TypeOK, chain, wallet
  <2>2. ASSUME NEW p \in Processes, Crash(p)
        PROVE  TypeOK' /\ Owned'
    <3>1. Owned'
      BY <2>2, OwnedKept DEF Crash, TypeOK
    <3>2. at' \in [Processes -> [Curves -> Steps]]
      BY <2>2 DEF Crash, TypeOK, Steps
    <3> QED
      BY <2>2, <3>1, <3>2, FailsType DEF Crash, TypeOK, chain, wallet
  <2> QED
    BY <1>1, <2>1, <2>2, TypeScript, TypeWatcher, TypeProcess DEF Next
<1>2. CASE UNCHANGED vars
  BY <1>2, OwnedKept DEF vars, TypeOK, chain, wallet
<1> QED
  BY <1>1, <1>2

\* Whatever fails and whoever runs a script, the wallet is never overdrawn and
\* every variable keeps its type.
THEOREM TypeCorrect == Spec => []TypeOK
<1>1. Spec => [](TypeOK /\ Owned)
  BY TypeInit, TypeStep, PTL DEF Spec
<1> QED
  BY <1>1, PTL

---------------------------------------------------------------------------
(* Rows, records and pools *)

Funded(c) == pools[c] # <<>>

\* What the place a script has reached says of its curve.
Progress ==
    \A p \in Processes, c \in Curves :
        /\ at[p][c] \in {"protocol", "record", "made"} => Funded(c)
        /\ at[p][c] = "skipped" => c \in BelowFloor

Served == Progress /\ MarkedHasPool /\ RecordedHasPool

LEMMA ServedInit == Init => Served
  BY DEF Init, Served, Progress, Funded, MarkedHasPool, RecordedHasPool, Processes

\* Positions are never taken back.
LEMMA FundedForGood ==
    ASSUME TypeOK, Owned, [Next]_vars, NEW c \in Curves, Funded(c)
    PROVE  Funded(c)'
<1>0. pools \in [Curves -> Seq(Position)]
  BY DEF TypeOK, Position
<1>1. ASSUME NEW p \in Processes, NEW d \in Curves, Deposit(p, d)
      PROVE  Funded(c)'
  <2>1. PICK m : pools' = [pools EXCEPT ![d] = Append(@, m)]
    BY <1>1 DEF Deposit
  <2> QED
    BY <1>0, <2>1 DEF Funded
<1>2. ASSUME NEW p \in Processes, NEW d \in Curves, DeployPool(p, d)
      PROVE  Funded(c)'
  <2>1. PICK m : pools' = [pools EXCEPT ![d] = Append(@, m)]
    BY <1>2 DEF DeployPool
  <2> QED
    BY <1>0, <2>1 DEF Funded
<1>3. ASSUME NEW p \in Processes, NEW d \in Curves, AddProtocolHalf(p, d)
      PROVE  Funded(c)'
  <2>1. PICK own, m : pools' = [pools EXCEPT ![d][own] = m]
    BY <1>3 DEF AddProtocolHalf
  <2>2. pools'[c] = IF c = d THEN [pools[c] EXCEPT ![own] = m] ELSE pools[c]
    BY <1>0, <2>1
  <2>3. DOMAIN pools'[c] = DOMAIN pools[c]
    BY <2>2
  <2>4. 1 \in DOMAIN pools[c]
    BY <1>0 DEF Funded
  <2> QED
    BY <2>3, <2>4 DEF Funded
<1>4. CASE UNCHANGED pools
  BY <1>4 DEF Funded
<1> QED
  BY <1>1, <1>2, <1>3, <1>4
     DEF Next, vars, Poll, CurveGraduates, Visit, VisitThrows, Finish, MarkThrows, Step,
         Start, Claim, ClaimAborts, Skip, SeedThrows, SkipProtocolHalf, Record,
         RecordAborts, ByHand, ExitByHand, Throw, Crash

LEMMA ServedScript ==
    ASSUME TypeOK, Owned, Served, NEW p \in Processes, NEW c \in Curves, Step(p, c)
    PROVE  Served'
<1>0. /\ pools \in [Curves -> Seq(Position)] /\ at \in [Processes -> [Curves -> Steps]]
      /\ [Next]_vars
  BY DEF TypeOK, Position, Next
<1>1. PICK step \in Steps : GoTo(p, c, step)
  BY DEF Step, Start, AfterRead, Claim, ClaimAborts, Skip, Deposit, DeployPool, SeedThrows,
         AddProtocolHalf, SkipProtocolHalf, Record, RecordAborts, Steps, TypeOK
<1>2. step \in {"protocol", "record", "made"} => Funded(c)'
  <2>1. CASE Deposit(p, c)
    BY <1>0, <2>1 DEF Deposit, Funded
  <2>2. CASE DeployPool(p, c)
    BY <1>0, <2>2 DEF DeployPool, Funded
  <2>3. CASE Start(p, c)
    BY <1>0, <1>1, <2>3, FundedForGood DEF Start, AfterRead, GoTo, Served, RecordedHasPool, Funded, TypeOK
  <2>4. CASE AddProtocolHalf(p, c) \/ SkipProtocolHalf(p, c) \/ Record(p, c) \/ RecordAborts(p, c)
    BY <1>0, <2>4, FundedForGood
       DEF AddProtocolHalf, SkipProtocolHalf, Record, RecordAborts, Served, Progress
  <2>5. CASE Claim(p, c) \/ ClaimAborts(p, c) \/ Skip(p, c) \/ SeedThrows(p, c)
    BY <1>0, <1>1, <2>5 DEF Claim, ClaimAborts, Skip, SeedThrows, GoTo
  <2> QED
    BY <2>1, <2>2, <2>3, <2>4, <2>5 DEF Step
<1>3. step = "skipped" => c \in BelowFloor
  BY <1>0, <1>1 DEF Step, Start, AfterRead, Claim, ClaimAborts, Skip, Deposit, DeployPool,
         SeedThrows, AddProtocolHalf, SkipProtocolHalf, Record, RecordAborts, GoTo, TypeOK
<1>4. Progress'
  <2> SUFFICES ASSUME NEW q \in Processes, NEW d \in Curves
               PROVE  /\ at'[q][d] \in {"protocol", "record", "made"} => Funded(d)'
                      /\ at'[q][d] = "skipped" => d \in BelowFloor
    BY DEF Progress
  <2>1. CASE <<q, d>> = <<p, c>>
    BY <1>1, <1>2, <1>3, <2>1, GoToType
  <2>2. CASE <<q, d>> # <<p, c>>
    BY <1>0, <1>1, <2>2, GoToType, FundedForGood DEF Served, Progress
  <2> QED
    BY <2>1, <2>2
<1>5. done' = done
  BY DEF Step, Start, Claim, ClaimAborts, Skip, Deposit, DeployPool, SeedThrows,
         AddProtocolHalf, SkipProtocolHalf, Record, RecordAborts
<1>6. MarkedHasPool'
  BY <1>0, <1>5, FundedForGood DEF Served, MarkedHasPool, Funded
<1>7. ASSUME NEW d \in Curves, recorded'[d]
      PROVE  Funded(d)'
  <2>1. CASE recorded[d]
    BY <1>0, <2>1, FundedForGood DEF Served, RecordedHasPool, Funded
  <2>2. CASE ~recorded[d]
    <3>1. d = c /\ Record(p, c)
      BY <1>7, <2>2 DEF Step, Start, Claim, ClaimAborts, Skip, Deposit, DeployPool, SeedThrows,
             AddProtocolHalf, SkipProtocolHalf, Record, RecordAborts, chain, TypeOK
    <3> QED
      BY <1>0, <3>1, FundedForGood DEF Record, Served, Progress
  <2> QED
    BY <2>1, <2>2
<1> QED
  BY <1>4, <1>6, <1>7 DEF Served, RecordedHasPool, Funded

\* The steps that fund nothing and record nothing: no script gets further by
\* them, and a row is closed only as the invariant allows.
LEMMA ServedQuiet ==
    ASSUME TypeOK, Served, UNCHANGED <<pools, recorded>>,
           \A p \in Processes, c \in Curves :
               at'[p][c] \in {at[p][c], "idle", "start", "failed"},
           \A c \in Curves : done'[c] =>
               done[c] \/ Funded(c) \/ Target[c] = "cetus" \/ c \in BelowFloor
    PROVE  Served'
<1>1. Progress'
  BY DEF Served, Progress, Funded
<1> QED
  BY <1>1 DEF Served, MarkedHasPool, RecordedHasPool, Funded

LEMMA ServedWatcher ==
    ASSUME TypeOK, Served, NEW c \in Curves,
           CurveGraduates(c) \/ Visit(c) \/ VisitThrows(c) \/ Finish(c) \/ MarkThrows(c)
    PROVE  Served'
<1>0. Watcher \in Processes
  BY DEF Processes
<1>1. \A p \in Processes, d \in Curves : at'[p][d] \in {at[p][d], "idle", "start", "failed"}
  BY <1>0 DEF CurveGraduates, Visit, VisitThrows, Finish, MarkThrows, GoTo, Released, TypeOK
<1>2. UNCHANGED <<pools, recorded>>
  BY DEF CurveGraduates, Visit, VisitThrows, Finish, MarkThrows, chain
<1>3. ASSUME NEW d \in Curves, done'[d], ~done[d]
      PROVE  Funded(d) \/ Target[d] = "cetus" \/ d \in BelowFloor
  <2>1. CASE Visit(c)
    BY <1>3, <2>1 DEF Visit, TypeOK, Served, RecordedHasPool, Funded
  <2>2. CASE Finish(c)
    <3>1. d = c /\ Marks(c)
      BY <1>3, <2>2 DEF Finish, TypeOK
    <3> QED
      BY <1>0, <3>1 DEF Marks, Served, Progress
  <2>3. CASE CurveGraduates(c) \/ VisitThrows(c) \/ MarkThrows(c)
    BY <1>3, <2>3 DEF CurveGraduates, VisitThrows, MarkThrows
  <2> QED
    BY <2>1, <2>2, <2>3
<1> QED
  BY <1>1, <1>2, <1>3, ServedQuiet

LEMMA ServedProcess ==
    ASSUME TypeOK, Served, NEW p \in Processes,
           \/ \E c \in Curves : ByHand(p, c) \/ ExitByHand(p, c) \/ Throw(p, c)
           \/ Crash(p)
    PROVE  Served'
<1>1. \A q \in Processes, d \in Curves : at'[q][d] \in {at[q][d], "idle", "start", "failed"}
  <2>1. ASSUME NEW c \in Curves, ByHand(p, c) \/ ExitByHand(p, c) \/ Throw(p, c)
        PROVE  \E step \in {"idle", "start", "failed"} : GoTo(p, c, step)
    BY <2>1 DEF ByHand, ExitByHand, Throw
  <2>2. CASE Crash(p)
    BY <2>2 DEF Crash, TypeOK
  <2> QED
    BY <2>1, <2>2, GoToOnly
<1>2. UNCHANGED <<pools, recorded, done>>
  BY DEF ByHand, ExitByHand, Throw, Crash, chain
<1> QED
  BY <1>1, <1>2, ServedQuiet

LEMMA ServedStep ==
    ASSUME TypeOK, Owned, Served, [Next]_vars
    PROVE  Served'
<1>1. CASE Poll \/ UNCHANGED vars
  BY <1>1, ServedQuiet DEF Poll, vars, chain
<1> QED
  BY <1>1, ServedScript, ServedWatcher, ServedProcess DEF Next

LEMMA ServedAlways == Spec => [](TypeOK /\ Owned /\ Served)
  BY TypeInit, TypeStep, ServedInit, ServedStep, PTL DEF Spec

\* A row is closed only for a curve that has a pool, that cannot have one, or
\* that needs a human.
THEOREM MarkedCorrect == Spec => []MarkedHasPool
  BY ServedAlways, PTL DEF Served

\* What is recorded on chain is a pool that has been funded.
THEOREM RecordedCorrect == Spec => []RecordedHasPool
  BY ServedAlways, PTL DEF Served

---------------------------------------------------------------------------
(* DeepBook *)

\* The LP tokens of a DeepBook curve are not yet minted, all in the wallet, or
\* all in the one position: this is what makes a second one impossible.
Whole(c) ==
    \/ ~claimed[c] /\ walletLp[c] = 0 /\ pools[c] = <<>>
    \/ claimed[c] /\ walletLp[c] = LpSupply /\ pools[c] = <<>>
    \/ /\ claimed[c] /\ walletLp[c] = 0
       /\ \E p \in Processes : pools[c] = <<Made(p, PoolSui[c], LpSupply)>>

DeepBookWhole ==
    \A c \in Curves : Target[c] = "deepbook" =>
        Whole(c) /\ \A p \in Processes : at[p][c] # "protocol"

LEMMA WholeInit == Init => DeepBookWhole
  BY DEF Init, DeepBookWhole, Whole, Processes

LEMMA WholeKept ==
    ASSUME DeepBookWhole, UNCHANGED <<claimed, walletLp, pools>>,
           \A p \in Processes, c \in Curves : at'[p][c] = "protocol" => at[p][c] = "protocol"
    PROVE  DeepBookWhole'
  BY DEF DeepBookWhole, Whole

LEMMA WholeScript ==
    ASSUME TypeOK, Owned, DeepBookWhole, NEW p \in Processes, NEW c \in Curves, Step(p, c)
    PROVE  DeepBookWhole'
<1>1. CASE Claim(p, c)
  BY <1>1, RelayerAssumption DEF Claim, GoTo, DeepBookWhole, Whole, TypeOK
<1>2. CASE Deposit(p, c)
  <2>1. /\ pools[c] = <<>> /\ walletLp[c] = LpSupply /\ claimed[c]
    BY <1>2, RelayerAssumption DEF Deposit, Affords, DeepBookWhole, Whole, TypeOK
  <2>2. pools'[c] = <<Made(p, PoolSui[c], LpSupply)>> /\ walletLp'[c] = 0 /\ claimed'[c]
    BY <1>2, <2>1, RelayerAssumption DEF Deposit, Seeded, TypeOK, chain
  <2>3. \A d \in Curves : d # c =>
            pools'[d] = pools[d] /\ walletLp'[d] = walletLp[d] /\ claimed'[d] = claimed[d]
    BY <1>2 DEF Deposit, Seeded, TypeOK, chain
  <2>4. \A q \in Processes, d \in Curves : at'[q][d] = "protocol" => at[q][d] = "protocol"
    BY <1>2 DEF Deposit, GoTo, TypeOK
  <2> QED
    BY <2>2, <2>3, <2>4 DEF DeepBookWhole, Whole
<1>3. CASE DeployPool(p, c) \/ AddProtocolHalf(p, c)
  <2>1. Target[c] # "deepbook"
    BY <1>3 DEF DeployPool, AddProtocolHalf, DeepBookWhole
  <2>2. \A d \in Curves : d # c =>
            pools'[d] = pools[d] /\ walletLp'[d] = walletLp[d] /\ claimed'[d] = claimed[d]
    BY <1>3 DEF DeployPool, AddProtocolHalf, Seeded, TypeOK, chain
  <2>3. \A q \in Processes, d \in Curves : d # c => at'[q][d] = at[q][d]
    <3>1. PICK step \in Steps : GoTo(p, c, step)
      BY <1>3 DEF DeployPool, AddProtocolHalf, Steps
    <3> QED
      BY <3>1, GoToType
  <2> QED
    BY <2>1, <2>2, <2>3 DEF DeepBookWhole, Whole
<1>4. CASE \/ Start(p, c) \/ ClaimAborts(p, c) \/ Skip(p, c) \/ SeedThrows(p, c)
           \/ SkipProtocolHalf(p, c) \/ Record(p, c) \/ RecordAborts(p, c)
  <2>1. UNCHANGED <<claimed, walletLp, pools>>
    BY <1>4 DEF Start, ClaimAborts, Skip, SeedThrows, SkipProtocolHalf, Record, RecordAborts,
                chain, wallet
  <2>2. \A q \in Processes, d \in Curves : at'[q][d] = "protocol" => at[q][d] = "protocol"
    <3>1. PICK step : GoTo(p, c, step) /\ step # "protocol"
      BY <1>4 DEF Start, AfterRead, ClaimAborts, Skip, SeedThrows, SkipProtocolHalf, Record,
                  RecordAborts, TypeOK
    <3> QED
      BY <3>1, GoToOnly
  <2> QED
    BY <2>1, <2>2, WholeKept
<1> QED
  BY <1>1, <1>2, <1>3, <1>4 DEF Step

LEMMA WholeStep ==
    ASSUME TypeOK, Owned, DeepBookWhole, [Next]_vars
    PROVE  DeepBookWhole'
<1>1. ASSUME NEW p \in Processes, NEW c \in Curves, Step(p, c)
      PROVE  DeepBookWhole'
  BY <1>1, WholeScript
<1>2. ASSUME NEW c \in Curves,
             \/ CurveGraduates(c) \/ Visit(c) \/ VisitThrows(c) \/ Finish(c) \/ MarkThrows(c)
      PROVE  DeepBookWhole'
  <2>1. \A q \in Processes, d \in Curves : at'[q][d] = "protocol" => at[q][d] = "protocol"
    <3>1. UNCHANGED at \/ \E step \in {"start", "idle"} : GoTo(Watcher, c, step)
      BY <1>2 DEF CurveGraduates, Visit, VisitThrows, Finish, MarkThrows, Released
    <3> QED
      BY <3>1, GoToOnly
  <2> QED
    BY <1>2, <2>1, WholeKept
       DEF CurveGraduates, Visit, VisitThrows, Finish, MarkThrows, chain, wallet
<1>3. ASSUME NEW p \in Processes, NEW c \in Curves,
             ByHand(p, c) \/ ExitByHand(p, c) \/ Throw(p, c)
      PROVE  DeepBookWhole'
  <2>1. \A q \in Processes, d \in Curves : at'[q][d] = "protocol" => at[q][d] = "protocol"
    <3>1. \E step \in {"idle", "start", "failed"} : GoTo(p, c, step)
      BY <1>3 DEF ByHand, ExitByHand, Throw
    <3> QED
      BY <3>1, GoToOnly
  <2> QED
    BY <1>3, <2>1, WholeKept DEF ByHand, ExitByHand, Throw, chain, wallet
<1>4. ASSUME NEW p \in Processes, Crash(p)
      PROVE  DeepBookWhole'
  BY <1>4, WholeKept DEF Crash, chain, wallet, TypeOK
<1>5. CASE Poll \/ UNCHANGED vars
  BY <1>5, WholeKept DEF Poll, vars, chain, wallet
<1> QED
  BY <1>1, <1>2, <1>3, <1>4, <1>5 DEF Next

\* Through any failures, crashes, retries and runs by hand, a DeepBook curve is
\* seeded once, with all of its SUI and all of its LP tokens.
THEOREM DeepBookCorrect == Spec => []DeepBookSeededOnce
<1>1. Spec => [](TypeOK /\ Owned /\ DeepBookWhole)
  BY TypeInit, TypeStep, WholeInit, WholeStep, PTL DEF Spec
<1>2. DeepBookWhole => DeepBookSeededOnce
  BY DEF DeepBookWhole, Whole, DeepBookSeededOnce
<1> QED
  BY <1>1, <1>2, PTL
=============================================================================
