------------------------ MODULE StrategyBrain_proofs ------------------------
(***************************************************************************)
(* Proofs about the strategy brain, for any curves, kinds, budget, funds,  *)
(* generations and bounds.                                                 *)
(*                                                                         *)
(* BrainTypeCorrect rests on Types: only the first job of the queue has    *)
(* begun, and what it has yet to do is one of a few todos, by the kind of  *)
(* its order.  SpendStaysInBudget rests on Own, which says which object of *)
(* Parent a job works on while the sync drops and reloads it, and Paced,   *)
(* which bounds how far any count may be behind the buys.  ExitsAreArmed   *)
(* rests on Armed: an exit is posted after the buys it is for, and is over *)
(* only when it protects nothing.  CancelledStaysGone needs only Types: a  *)
(* job writes no row but that of its own order and those it posts.         *)
(***************************************************************************)
EXTENDS StrategyBrain, Numbers_proofs, SequenceTheorems

---------------------------------------------------------------------------
(* What a job has yet to do *)

AtGate      == <<"gate", "decide">>
AtDecide    == <<"decide">>
AtBuy       == <<"buy">>
AtRetreat   == <<"retreat">>
AtArm       == <<"arm", "count", "record">>
AtCount     == <<"count", "record">>
AtRecord    == <<"record">>
AtLastArm   == <<"arm">>
AtMirror    == <<"mirror">>
AtStop      == <<"stop">>
AtStopped   == <<"stopped", "prune", "record">>
AtPrune     == <<"prune", "record">>
AtLastPrune == <<"prune">>
AtTake      == <<"take">>
AtTaken     == <<"taken", "record">>

Todos == {AtGate, AtDecide, AtBuy, AtRetreat, AtArm, AtCount, AtRecord, AtLastArm, AtMirror,
          AtStop, AtStopped, AtPrune, AtLastPrune, AtTake, AtTaken}

\* The head and the tail of what a job may have to do.
LEMMA TodoParts ==
  /\ Head(AtGate) = "gate" /\ Tail(AtGate) = AtDecide
  /\ Head(AtDecide) = "decide" /\ Tail(AtDecide) = <<>>
  /\ Head(AtBuy) = "buy" /\ Tail(AtBuy) = <<>>
  /\ Head(AtRetreat) = "retreat" /\ Tail(AtRetreat) = <<>>
  /\ Head(AtArm) = "arm" /\ Tail(AtArm) = AtCount
  /\ Head(AtCount) = "count" /\ Tail(AtCount) = AtRecord
  /\ Head(AtRecord) = "record" /\ Tail(AtRecord) = <<>>
  /\ Head(AtLastArm) = "arm" /\ Tail(AtLastArm) = <<>>
  /\ Head(AtMirror) = "mirror" /\ Tail(AtMirror) = <<>>
  /\ Head(AtStop) = "stop" /\ Tail(AtStop) = <<>>
  /\ Head(AtStopped) = "stopped" /\ Tail(AtStopped) = AtPrune
  /\ Head(AtPrune) = "prune" /\ Tail(AtPrune) = AtRecord
  /\ Head(AtLastPrune) = "prune" /\ Tail(AtLastPrune) = <<>>
  /\ Head(AtTake) = "take" /\ Tail(AtTake) = <<>>
  /\ Head(AtTaken) = "taken" /\ Tail(AtTaken) = AtRecord
  BY DEF AtGate, AtDecide, AtBuy, AtRetreat, AtArm, AtCount, AtRecord, AtLastArm, AtMirror,
         AtStop, AtStopped, AtPrune, AtLastPrune, AtTake, AtTaken

\* What a job has yet to do is made of steps, and never empty.
LEMMA TodosAreSteps ==
  ASSUME NEW todo \in Todos
  PROVE  todo # <<>> /\ Range(todo) \subseteq Steps
<1>1. ASSUME NEW a \in Steps
      PROVE  /\ <<a>> # <<>> /\ Range(<<a>>) \subseteq Steps
             /\ \A b \in Steps :
                   /\ <<a, b>> # <<>> /\ Range(<<a, b>>) \subseteq Steps
                   /\ \A c \in Steps : <<a, b, c>> # <<>> /\ Range(<<a, b, c>>) \subseteq Steps
  BY <1>1 DEF Range
<1>2. \/ \E a \in Steps : todo = <<a>>
      \/ \E a, b \in Steps : todo = <<a, b>>
      \/ \E a, b, c \in Steps : todo = <<a, b, c>>
  <2>1. {"gate", "decide", "buy", "retreat", "arm", "count", "record", "mirror", "stop",
         "take", "stopped", "taken", "prune"} \subseteq Steps
    BY DEF Steps
  <2>2. QED
    BY <2>1 DEF Todos, AtGate, AtDecide, AtBuy, AtRetreat, AtArm, AtCount, AtRecord, AtLastArm,
         AtMirror, AtStop, AtStopped, AtPrune, AtLastPrune, AtTake, AtTaken
<1>3. QED
  BY <1>1, <1>2

---------------------------------------------------------------------------
(* Types *)

ParamsType == [count : Nat, curves : SUBSET Curves]
ObjectType == [done : BOOLEAN, count : Nat, curves : SUBSET Curves]
JobType    == [id : Ids, generation : 1 .. Generations, curve : Curves, todo : Todos]

\* What a job of an order may have to do, by what the order is.
CanDo(id, todo) ==
    \/ todo \in {AtGate, AtDecide, AtRecord}
    \/ id # Parent /\ todo \in {AtStop, AtStopped, AtPrune, AtLastPrune, AtTake, AtTaken}
    \/ id = Parent /\ todo \in {AtBuy, AtRetreat}
    \/ id = Parent /\ kind \in {"sniper", "autopilot"} /\ todo \in {AtArm, AtCount}
    \/ id = Parent /\ kind = "dca" /\ todo \in {AtCount, AtLastArm}
    \/ id = Parent /\ kind = "copytrade" /\ todo = AtMirror

\* Only the first job has begun.
Queued ==
    /\ queue \in Seq(JobType)
    /\ \A k \in DOMAIN queue :
          /\ queue[k].curve \in Targets(queue[k].id)
          /\ CanDo(queue[k].id, queue[k].todo)
          /\ k > 1 => queue[k].todo = AtGate

StoreOk == /\ status \in [Ids -> {"none", "active", "done", "cancelled"}]
           /\ saved \in [Ids -> ParamsType]

ChainOk == /\ open \in BOOLEAN /\ graduated \subseteq Curves /\ held \subseteq Curves
           /\ bought \in [Curves -> Nat] /\ TotalBought <= Funds

MemoryOk == /\ kind \in Kinds /\ cancels \in 0 .. MaxCancels
            /\ objects \in [Ids -> [1 .. Generations -> ObjectType]]
            /\ tracked \in [Ids -> 0 .. Generations]
            /\ Queued /\ firing \subseteq {queue[k].id : k \in DOMAIN queue}

FaultsOk == faults \in [Faults -> 0 .. MaxFaults]

Types == StoreOk /\ ChainOk /\ MemoryOk /\ FaultsOk

\* The assumptions on the constants, as the proofs use them.
LEMMA Constants ==
  /\ Parent \notin Curves /\ IsFiniteSet(Curves) /\ Ids = Curves \cup {Parent}
  /\ Budget \in Nat \ {0} /\ Generations \in Nat \ {0} /\ Funds \in Nat \ {0}
  /\ MaxFaults \in Nat /\ MaxCancels \in Nat
  /\ \A k \in Kinds : k \in {"sniper", "dca", "autopilot", "copytrade"}
  BY StoreAssumption, BrainAssumption DEF Ids

\* An exit is about its own curve, a dca order about one, the others about any.
LEMMA TargetsAre ==
  ASSUME NEW id \in Ids
  PROVE  /\ id \in Curves => Targets(id) = {id}
         /\ id = Parent => Targets(id) = IF kind = "dca" THEN {DcaCurve} ELSE Curves
  BY Constants DEF Targets

---------------------------------------------------------------------------
(* The buys that have landed *)

\* The fold of the model is the sum of Numbers_proofs.
LEMMA BoughtIsSum ==
  ASSUME NEW f, DOMAIN f = Curves
  PROVE  Total(f) = Sums(f, Curves)[Curves]
<1>1. Total(f) = Sums(f, DOMAIN f)[DOMAIN f]
  BY DEF Total, FoldFunction, FoldFunctionOnSet, MapThenFoldSet, Sums
<1>2. QED
  BY <1>1

\* A buy on one curve adds one to the total.
LEMMA OneMore ==
  ASSUME NEW f \in [Curves -> Nat], NEW c \in Curves
  PROVE  /\ Total(f) \in Nat /\ f[c] <= Total(f)
         /\ Total([f EXCEPT ![c] = @ + 1]) = Total(f) + 1
<1>0. IsFiniteSet(Curves)
  BY Constants
<1>1. \A d \in Curves : f[d] \in Int /\ f[d] \in Nat
  OBVIOUS
<1>2. Total(f) = Sums(f, Curves)[Curves]
  BY BoughtIsSum
<1>3. Sums(f, Curves)[Curves] \in Nat /\ Sums(f, Curves)[Curves \ {c}] \in Nat
  <2>1. \A s \in SUBSET Curves : Sums(f, Curves)[s] \in Nat
    BY <1>1, <1>0, SumsNat
  <2>2. Curves \in SUBSET Curves /\ Curves \ {c} \in SUBSET Curves
    OBVIOUS
  <2>3. QED
    BY <2>1, <2>2, Zenon
<1>4. Sums(f, Curves)[Curves] = f[c] + Sums(f, Curves)[Curves \ {c}]
  BY <1>1, <1>0, SumsAdd
<1> DEFINE g == [f EXCEPT ![c] = @ + 1]
<1>5. Total(g) = Total(f) + 1
  <2>1. /\ DOMAIN g = Curves /\ g[c] = f[c] + 1
        /\ \A d \in Curves : g[d] \in Int
        /\ \A d \in Curves \ {c} : f[d] = g[d]
    BY <1>1
  <2> HIDE DEF g
  <2>2. Total(g) = Sums(g, Curves)[Curves]
    BY <2>1, BoughtIsSum
  <2>3. Sums(g, Curves)[Curves] = Sums(f, Curves)[Curves] - f[c] + g[c]
    BY <1>1, <2>1, <1>0, SumsChange
  <2>4. QED
    BY <1>1, <1>2, <1>3, <2>1, <2>2, <2>3
<1>6. QED
  BY <1>1, <1>2, <1>3, <1>4, <1>5

---------------------------------------------------------------------------
(* The running job *)

\* The running job is the first of the queue.
LEMMA JobIs ==
  ASSUME Queued, queue # <<>>
  PROVE  /\ 1 \in DOMAIN queue /\ Job = queue[1] /\ Job \in JobType
         /\ Job.curve \in Targets(Job.id) /\ CanDo(Job.id, Job.todo)
<1>1. queue \in Seq(JobType) /\ 1 \in DOMAIN queue /\ Head(queue) = queue[1]
  BY DEF Queued
<1>2. queue[1] \in JobType
  BY <1>1
<1>3. QED
  BY <1>1, <1>2 DEF Queued, Job

\* The step a job is at tells what it has yet to do, and for which orders.
LEMMA DoingIs ==
  ASSUME Queued, queue # <<>>
  PROVE  /\ Doing("gate") => Job.todo = AtGate
         /\ Doing("decide") => Job.todo = AtDecide
         /\ Doing("buy") => Job.todo = AtBuy /\ Job.id = Parent
         /\ Doing("retreat") => Job.todo = AtRetreat /\ Job.id = Parent
         /\ Doing("arm") => /\ Job.id = Parent
                            /\ \/ Job.todo = AtArm /\ kind \in {"sniper", "autopilot"}
                               \/ Job.todo = AtLastArm /\ kind = "dca"
         /\ Doing("count") => /\ Job.todo = AtCount /\ Job.id = Parent
                              /\ kind \in {"sniper", "autopilot", "dca"}
         /\ Doing("record") => Job.todo = AtRecord
         /\ Doing("mirror") => Job.todo = AtMirror /\ Job.id = Parent /\ kind = "copytrade"
         /\ Doing("stop") => Job.todo = AtStop /\ Job.id # Parent
         /\ Doing("take") => Job.todo = AtTake /\ Job.id # Parent
         /\ Doing("stopped") => Job.todo = AtStopped /\ Job.id # Parent
         /\ Doing("taken") => Job.todo = AtTaken /\ Job.id # Parent
         /\ Doing("prune") => Job.todo \in {AtPrune, AtLastPrune} /\ Job.id # Parent
<1>1. CanDo(Job.id, Job.todo)
  BY JobIs
<1>2. \A step : Doing(step) => Head(Job.todo) = step
  BY DEF Doing
<1> HIDE DEF Job
<1>3. QED
  BY <1>1, <1>2, TodoParts DEF CanDo

\* An object is reached by ORDERS or by a job.
Live(id, g) == tracked[id] = g \/ InQueue(id, g, queue)

\* What a step of the running job does to the queue.
LEMMA ProceedQueue ==
  ASSUME Queued, queue # <<>>, NEW order, NEW todo, Proceed(order, todo)
  PROVE  /\ todo # <<>> => /\ DOMAIN queue' = DOMAIN queue
                           /\ queue'[1] = [Job EXCEPT !.todo = todo]
                           /\ \A k \in DOMAIN queue : k > 1 => queue'[k] = queue[k]
         /\ todo = <<>> => /\ \A k \in DOMAIN queue' : k + 1 \in DOMAIN queue /\ queue'[k] = queue[k + 1]
                           /\ \A k \in DOMAIN queue : k > 1 => k - 1 \in DOMAIN queue'
         /\ \A k \in DOMAIN queue : k \in Nat /\ (k = 1 \/ k > 1)
         /\ \A k \in DOMAIN queue' : k \in Nat /\ (k = 1 \/ k > 1)
         /\ UNCHANGED <<tracked, kind, cancels>>
<1>1. queue \in Seq(JobType) /\ Job = queue[1] /\ 1 \in DOMAIN queue
  BY JobIs DEF Queued
<1>2. CASE todo # <<>>
  <2>1. queue' = [queue EXCEPT ![1].todo = todo]
    BY <1>2 DEF Proceed
  <2>2. QED
    BY <1>1, <1>2, <2>1 DEF Proceed
<1>3. CASE todo = <<>>
  <2>1. queue' = Tail(queue)
    BY <1>3 DEF Proceed
  <2>2. QED
    BY <1>1, <1>3, <2>1 DEF Proceed
<1>4. QED
  BY <1>2, <1>3

\* What it does to the objects: it collects some, and leaves its own as order.
LEMMA ProceedObjects ==
  ASSUME Queued, queue # <<>>, NEW order, NEW todo, Proceed(order, todo),
         objects \in [Ids -> [1 .. Generations -> ObjectType]],
         NEW id \in Ids, NEW g \in 1 .. Generations
  PROVE  /\ Live(id, g)' => /\ Live(id, g)
                            /\ objects'[id][g] = IF id = Job.id /\ g = Job.generation
                                                 THEN order ELSE objects[id][g]
         /\ ~Live(id, g)' => objects'[id][g] = NoObject
<1>1. Job.id \in Ids /\ Job.generation \in 1 .. Generations /\ Job = queue[1] /\ 1 \in DOMAIN queue
  BY JobIs DEF JobType
<1>2. objects' = Collected([objects EXCEPT ![Job.id][Job.generation] = order], tracked, queue')
  BY DEF Proceed
<1>3. tracked' = tracked
  BY DEF Proceed
<1>4. objects'[id][g] = IF tracked[id] = g \/ InQueue(id, g, queue')
                        THEN [objects EXCEPT ![Job.id][Job.generation] = order][id][g] ELSE NoObject
  BY <1>2 DEF Collected
<1>5. [objects EXCEPT ![Job.id][Job.generation] = order][id][g] =
        IF id = Job.id /\ g = Job.generation THEN order ELSE objects[id][g]
  BY <1>1
<1>6. Live(id, g)' <=> tracked[id] = g \/ InQueue(id, g, queue')
  BY <1>3 DEF Live
<1>7. ASSUME InQueue(id, g, queue')
      PROVE  InQueue(id, g, queue)
  <2>1. PICK k \in DOMAIN queue' : queue'[k].id = id /\ queue'[k].generation = g
    BY <1>7 DEF InQueue
  <2>2. CASE todo = <<>>
    BY <2>1, <2>2, ProceedQueue DEF InQueue
  <2>3. CASE todo # <<>>
    <3>1. queue'[1].id = Job.id /\ queue'[1].generation = Job.generation
      BY <2>3, ProceedQueue, JobIs DEF JobType
    <3>2. k \in DOMAIN queue /\ (k = 1 \/ k > 1)
      BY <2>1, <2>3, ProceedQueue
    <3>3. queue[k].id = id /\ queue[k].generation = g
      <4>1. CASE k = 1
        BY <1>1, <2>1, <3>1, <4>1
      <4>2. CASE k > 1
        BY <2>1, <2>3, <3>2, <4>2, ProceedQueue
      <4>3. QED
        BY <3>2, <4>1, <4>2
    <3>4. QED
      BY <3>2, <3>3 DEF InQueue
  <2>4. QED
    BY <2>2, <2>3
<1>8. QED
  BY <1>4, <1>5, <1>6, <1>7 DEF Live

\* It keeps the queue, the objects and the ids being fired well-formed.
LEMMA ProceedTypes ==
  ASSUME MemoryOk, queue # <<>>, NEW order \in ObjectType, NEW todo, Proceed(order, todo),
         todo = <<>> \/ (todo \in Todos /\ CanDo(Job.id, todo))
  PROVE  MemoryOk'
<1>1. Queued /\ queue \in Seq(JobType) /\ objects \in [Ids -> [1 .. Generations -> ObjectType]]
  BY DEF MemoryOk, Queued
<1>2. /\ 1 \in DOMAIN queue /\ Job = queue[1] /\ Job \in JobType
      /\ Job.curve \in Targets(Job.id)
  BY <1>1, JobIs
<1>3. kind' = kind /\ tracked' = tracked /\ cancels' = cancels
  BY DEF Proceed
<1>5. queue' \in Seq(JobType)
  <2>1. CASE todo = <<>>
    <3>1. queue' = Tail(queue)
      BY <2>1 DEF Proceed
    <3>2. QED
      BY <1>1, <3>1
  <2>2. CASE todo # <<>>
    <3>1. queue' = [queue EXCEPT ![1] = [queue[1] EXCEPT !.todo = todo]]
      BY <1>1, <1>2, <2>2 DEF Proceed
    <3>2. [queue[1] EXCEPT !.todo = todo] \in JobType
      BY <1>2, <2>2 DEF JobType
    <3>3. QED
      BY <1>1, <1>2, <3>1, <3>2
  <2>3. QED
    BY <2>1, <2>2
<1>6. ASSUME NEW k \in DOMAIN queue'
      PROVE  /\ queue'[k].curve \in Targets(queue'[k].id)
             /\ CanDo(queue'[k].id, queue'[k].todo)
             /\ k > 1 => queue'[k].todo = AtGate
  <2>1. CASE todo = <<>>
    <3>1. k + 1 \in DOMAIN queue /\ queue'[k] = queue[k + 1] /\ k \in Nat
      BY <1>1, <1>6, <2>1, ProceedQueue
    <3>2. k = 1 \/ k > 1
      BY <1>1, <1>6, ProceedQueue
    <3>3. k + 1 > 1
      BY <3>1, <3>2
    <3>4. QED
      BY <1>1, <3>1, <3>2, <3>3 DEF Queued
  <2>2. CASE todo # <<>>
    <3>1. k \in DOMAIN queue /\ (k = 1 \/ k > 1) /\ k \in Nat
      BY <1>1, <1>6, <2>2, ProceedQueue
    <3>2. CASE k = 1
      <4>1. queue'[1] = [Job EXCEPT !.todo = todo]
        BY <1>1, <2>2, ProceedQueue
      <4>2. /\ queue'[1].id = Job.id /\ queue'[1].curve = Job.curve
            /\ queue'[1].todo = todo
        BY <1>2, <4>1 DEF JobType
      <4>3. QED
        BY <1>2, <2>2, <3>1, <3>2, <4>2
    <3>3. CASE k > 1
      BY <1>1, <2>2, <3>1, <3>3, ProceedQueue DEF Queued
    <3>4. QED
      BY <3>1, <3>2, <3>3
  <2>3. QED
    BY <2>1, <2>2
<1>7. Queued'
  BY <1>3, <1>5, <1>6 DEF Queued, CanDo, Targets
<1>8. firing' \subseteq {queue'[k].id : k \in DOMAIN queue'}
  <2>1. ASSUME NEW i \in firing'
        PROVE  \E k \in DOMAIN queue' : queue'[k].id = i
    <3>1. i \in firing /\ (todo = <<>> => i # Job.id)
      BY <2>1 DEF Proceed, Released
    <3>2. PICK k \in DOMAIN queue : queue[k].id = i
      BY <3>1 DEF MemoryOk
    <3>3. k = 1 \/ k > 1
      BY <1>1, <3>2
    <3>4. CASE todo = <<>>
      <4>1. k > 1
        BY <1>1, <1>2, <3>1, <3>2, <3>3, <3>4
      <4>2. k \in Nat /\ k - 1 \in DOMAIN queue'
        BY <1>1, <3>2, <3>4, <4>1, ProceedQueue
      <4>3. queue'[k - 1] = queue[(k - 1) + 1]
        BY <1>1, <3>4, <4>2, ProceedQueue
      <4>4. (k - 1) + 1 = k
        BY <4>2
      <4>5. QED
        BY <3>2, <4>2, <4>3, <4>4
    <3>5. CASE todo # <<>>
      <4>1. queue'[1].id = Job.id /\ DOMAIN queue' = DOMAIN queue
        BY <1>1, <1>2, <3>5, ProceedQueue DEF JobType
      <4>2. CASE k = 1
        BY <1>2, <3>2, <4>1, <4>2
      <4>3. CASE k > 1
        BY <1>1, <3>2, <3>5, <4>1, <4>3, ProceedQueue
      <4>4. QED
        BY <3>3, <4>2, <4>3
    <3>6. QED
      BY <3>4, <3>5
  <2>2. QED
    BY <2>1
<1>9. objects' \in [Ids -> [1 .. Generations -> ObjectType]]
  <2>1. objects' = Collected([objects EXCEPT ![Job.id][Job.generation] = order], tracked, queue')
    BY DEF Proceed
  <2>2. [objects EXCEPT ![Job.id][Job.generation] = order] \in [Ids -> [1 .. Generations -> ObjectType]]
    BY <1>1
  <2>3. NoObject \in ObjectType
    BY DEF NoObject, Object, NewParams, ObjectType
  <2> DEFINE h == [objects EXCEPT ![Job.id][Job.generation] = order]
  <2> HIDE DEF h
  <2>4. h \in [Ids -> [1 .. Generations -> ObjectType]] /\ objects' = Collected(h, tracked, queue')
    BY <2>1, <2>2 DEF h
  <2>5. QED
    BY <2>3, <2>4 DEF Collected
<1>10. /\ kind' \in Kinds /\ tracked' \in [Ids -> 0 .. Generations]
       /\ cancels' \in 0 .. MaxCancels
  BY <1>3 DEF MemoryOk
<1>11. QED
  BY <1>7, <1>8, <1>9, <1>10 DEF MemoryOk

\* A fault counts once, and the bound holds.
LEMMA FaultCounts ==
  ASSUME FaultsOk, NEW f \in Faults, Fault(f)
  PROVE  /\ FaultsOk' /\ faults'[f] = faults[f] + 1
         /\ \A e \in Faults : e # f => faults'[e] = faults[e]
<1>1. \A e \in Faults : faults[e] \in Nat
  BY Constants DEF FaultsOk
<1>2. {"answer", "write", "arm", "crash"} = Faults
  BY DEF Faults
<1>3. faults[f] + 1 \in 0 .. MaxFaults
  <2>1. faults["answer"] + faults["write"] + faults["arm"] + faults["crash"] < MaxFaults
    BY DEF Fault
  <2>2. /\ faults["answer"] \in Nat /\ faults["write"] \in Nat
        /\ faults["arm"] \in Nat /\ faults["crash"] \in Nat
    BY <1>1, <1>2
  <2>3. f = "answer" \/ f = "write" \/ f = "arm" \/ f = "crash"
    BY DEF Faults
  <2>4. QED
    BY <2>1, <2>2, <2>3, Constants
<1>4. faults' = [faults EXCEPT ![f] = faults[f] + 1]
  BY DEF Fault
<1>5. QED
  BY <1>3, <1>4 DEF FaultsOk

\* What a job writes of its object.
LEMMA PersistWrites ==
  ASSUME Types, queue # <<>>, NEW order \in ObjectType, Persist(order)
  PROVE  /\ StoreOk' /\ FaultsOk'
         /\ \/ /\ faults' = faults
               /\ \A id \in Ids : id # Job.id => status'[id] = status[id] /\ saved'[id] = saved[id]
               /\ status'[Job.id] = IF order.done THEN "done" ELSE "active"
               /\ saved'[Job.id].count = order.count /\ saved'[Job.id].curves = order.curves
            \/ Fault("write") /\ status' = status /\ saved' = saved
<1>1. Job.id \in Ids
  BY JobIs DEF Types, MemoryOk, JobType
<1>2. StoreOk /\ FaultsOk
  BY DEF Types
<1>3. CASE Fault("write") /\ UNCHANGED storeVars
  BY <1>2, <1>3, FaultCounts DEF storeVars, StoreOk, Faults
<1>4. CASE /\ PatchOrder(Job.id, IF order.done THEN "done" ELSE "active",
                         [count |-> order.count, curves |-> order.curves])
           /\ UNCHANGED faults
  <2>1. [count |-> order.count, curves |-> order.curves] \in ParamsType
    BY DEF ParamsType, ObjectType
  <2>2. QED
    BY <1>1, <1>2, <1>4, <2>1 DEF PatchOrder, StoreOk, FaultsOk, ParamsType
<1>5. QED
  BY <1>3, <1>4 DEF Persist

\* A job step that touches only the memory is well-typed.
LEMMA QuietTypes ==
  ASSUME Types, queue # <<>>, NEW order \in ObjectType, NEW todo, Proceed(order, todo),
         todo = <<>> \/ (todo \in Todos /\ CanDo(Job.id, todo)),
         UNCHANGED <<storeVars, chainVars, faults>>
  PROVE  Types'
<1>1. MemoryOk'
  BY ProceedTypes DEF Types
<1>2. StoreOk' /\ ChainOk' /\ FaultsOk'
  BY DEF Types, StoreOk, ChainOk, FaultsOk, storeVars, chainVars, TotalBought
<1>3. QED
  BY <1>1, <1>2 DEF Types

\* So is one that persists the object it leaves.
LEMMA PersistTypes ==
  ASSUME Types, queue # <<>>, NEW order \in ObjectType, NEW todo, Proceed(order, todo),
         todo = <<>> \/ (todo \in Todos /\ CanDo(Job.id, todo)),
         Persist(order), UNCHANGED chainVars
  PROVE  Types'
<1>1. MemoryOk'
  BY ProceedTypes DEF Types
<1>2. StoreOk' /\ FaultsOk'
  BY PersistWrites
<1>3. ChainOk'
  BY DEF Types, ChainOk, chainVars, TotalBought
<1>4. QED
  BY <1>1, <1>2, <1>3 DEF Types

\* The object of the running job, and every object a step may leave in its place.
LEMMA OrderIs ==
  ASSUME MemoryOk, queue # <<>>
  PROVE  /\ Order \in ObjectType /\ Job.id \in Ids /\ Job.generation \in 1 .. Generations
         /\ Job.curve \in Curves
         /\ Order = objects[Job.id][Job.generation] /\ Live(Job.id, Job.generation)
         /\ \A d \in BOOLEAN : [Order EXCEPT !.done = d] \in ObjectType
         /\ Claiming \in ObjectType /\ Counted \in ObjectType
         /\ [Order EXCEPT !.curves = @ \ {Job.curve}] \in ObjectType
         /\ \A leg : ExitAfter(leg) \in ObjectType
<1>1. /\ 1 \in DOMAIN queue /\ Job = queue[1] /\ Job \in JobType
  BY JobIs DEF MemoryOk
<1>2. Order = objects[Job.id][Job.generation]
  BY DEF Order
<1>3. objects \in [Ids -> [1 .. Generations -> ObjectType]]
  BY DEF MemoryOk
<1>4. Order \in ObjectType /\ Job.id \in Ids /\ Job.generation \in 1 .. Generations /\ Job.curve \in Curves
  BY <1>1, <1>2, <1>3 DEF JobType
<1>5. Live(Job.id, Job.generation)
  BY <1>1 DEF Live, InQueue
<1> HIDE DEF Order, Job
<1>6. /\ \A d \in BOOLEAN : [Order EXCEPT !.done = d] \in ObjectType
      /\ [Order EXCEPT !.curves = @ \ {Job.curve}] \in ObjectType
      /\ Claiming \in ObjectType
  BY <1>4 DEF ObjectType, Claiming
<1>7. Counted \in ObjectType
  <2>1. Order.count + 1 \in Nat /\ (Order.done \/ Order.count + 1 >= Budget) \in BOOLEAN
    BY <1>4 DEF ObjectType
  <2>2. (IF kind = "dca" THEN Order.curves ELSE Order.curves \cup {Job.curve}) \in SUBSET Curves
    BY <1>4 DEF ObjectType
  <2>3. QED
    BY <1>4, <2>1, <2>2 DEF ObjectType, Counted
<1>8. ASSUME NEW leg PROVE ExitAfter(leg) \in ObjectType
  <2>1. (leg = "stopped" \/ Job.curve \notin held) \in BOOLEAN
    OBVIOUS
  <2>2. (IF leg = "taken" THEN 1 ELSE Order.count) \in Nat
    BY <1>4 DEF ObjectType
  <2>3. QED
    BY <1>4, <2>1, <2>2 DEF ObjectType, ExitAfter
<1>9. QED
  BY <1>2, <1>4, <1>5, <1>6, <1>7, <1>8

\* The steps a job may be left with.
LEMMA MayContinue ==
  ASSUME MemoryOk, queue # <<>>
  PROVE  /\ <<"decide">> \in Todos /\ CanDo(Job.id, <<"decide">>)
         /\ Job.id = Parent => /\ <<"buy">> \in Todos /\ CanDo(Job.id, <<"buy">>)
                               /\ <<"retreat">> \in Todos /\ CanDo(Job.id, <<"retreat">>)
                               /\ AfterBuy \in Todos /\ CanDo(Job.id, AfterBuy)
         /\ Job.id = Parent /\ kind = "dca" => <<"arm">> \in Todos /\ CanDo(Job.id, <<"arm">>)
         /\ Job.id = Parent /\ kind = "copytrade" =>
               <<"mirror">> \in Todos /\ CanDo(Job.id, <<"mirror">>)
         /\ Job.id # Parent => /\ <<"prune">> \in Todos /\ CanDo(Job.id, <<"prune">>)
                               /\ \A leg \in {"stop", "take"} :
                                     /\ <<leg>> \in Todos /\ CanDo(Job.id, <<leg>>)
                                     /\ AfterSell(leg) \in Todos /\ CanDo(Job.id, AfterSell(leg))
         /\ AfterSell("mirror") \in Todos /\ CanDo(Job.id, AfterSell("mirror"))
<1> USE DEF AtGate, AtDecide, AtBuy, AtRetreat, AtArm, AtCount, AtRecord, AtLastArm,
            AtMirror, AtStop, AtStopped, AtPrune, AtLastPrune, AtTake, AtTaken
<1>1. kind \in {"sniper", "dca", "autopilot", "copytrade"}
  BY Constants DEF MemoryOk
<1>2. /\ {<<"decide">>, <<"buy">>, <<"retreat">>, <<"arm">>, <<"mirror">>, <<"prune">>,
          <<"stop">>, <<"take">>} \subseteq Todos
      /\ AfterSell("stop") \in Todos /\ AfterSell("take") \in Todos /\ AfterSell("mirror") \in Todos
  BY DEF Todos, AfterSell
<1>3. AfterBuy \in Todos
  BY <1>1 DEF Todos, AfterBuy
<1>4. Job.id = Parent => CanDo(Job.id, AfterBuy)
  BY <1>1 DEF CanDo, AfterBuy
<1>5. /\ CanDo(Job.id, <<"decide">>) /\ CanDo(Job.id, AfterSell("mirror"))
      /\ Job.id = Parent => CanDo(Job.id, <<"buy">>) /\ CanDo(Job.id, <<"retreat">>)
      /\ Job.id = Parent /\ kind = "dca" => CanDo(Job.id, <<"arm">>)
      /\ Job.id = Parent /\ kind = "copytrade" => CanDo(Job.id, <<"mirror">>)
  BY DEF CanDo, AfterSell
<1>6. Job.id # Parent => /\ CanDo(Job.id, <<"prune">>)
                         /\ CanDo(Job.id, <<"stop">>) /\ CanDo(Job.id, AfterSell("stop"))
                         /\ CanDo(Job.id, <<"take">>) /\ CanDo(Job.id, AfterSell("take"))
  BY DEF CanDo, AfterSell
<1> HIDE DEF AtGate, AtDecide, AtBuy, AtRetreat, AtArm, AtCount, AtRecord, AtLastArm,
            AtMirror, AtStop, AtStopped, AtPrune, AtLastPrune, AtTake, AtTaken
<1>7. QED
  BY <1>2, <1>3, <1>4, <1>5, <1>6

\* The rest of what a job was to do is what it is left with.
LEMMA TailContinues ==
  ASSUME MemoryOk, queue # <<>>,
         \/ \E step \in {"arm", "count", "stopped", "taken", "prune"} : Doing(step)
  PROVE  Tail(Job.todo) = <<>> \/ (Tail(Job.todo) \in Todos /\ CanDo(Job.id, Tail(Job.todo)))
<1>1. Job.todo \in {AtArm, AtLastArm, AtCount, AtStopped, AtTaken, AtPrune, AtLastPrune}
  BY DoingIs DEF MemoryOk
<1>2. CanDo(Job.id, Job.todo)
  BY JobIs DEF MemoryOk
<1>3. /\ CanDo(Job.id, AtArm) => CanDo(Job.id, AtCount)
      /\ CanDo(Job.id, AtCount) => CanDo(Job.id, AtRecord)
      /\ CanDo(Job.id, AtStopped) => CanDo(Job.id, AtPrune)
      /\ CanDo(Job.id, AtTaken) => CanDo(Job.id, AtRecord)
      /\ CanDo(Job.id, AtPrune) => CanDo(Job.id, AtRecord)
  BY TodoParts DEF CanDo
<1>4. AtCount \in Todos /\ AtRecord \in Todos /\ AtPrune \in Todos
  BY DEF Todos
<1> HIDE DEF Job
<1>5. QED
  BY <1>1, <1>2, <1>3, <1>4, TodoParts

\* Every step of the running job is well-typed.
LEMMA JobStepTypes ==
  ASSUME Types, JobStep
  PROVE  Types'
<1>1. queue # <<>> /\ MemoryOk /\ Queued
  BY DEF JobStep, GatePasses, GateCloses, Declines, Closes, ClosesQuietly, DecidesToBuy, ClaimsInVain,
         BuySettles, BuyUnanswered, Buys, BuyFails, Retreats, Arms, Counts, Records, DecidesToMirror,
         ExitCloses, ExitsAsDust, Prunes, DecidesToExit, SellSettles, Sells, SellFails, ExitAdvances,
         Deciding, Doing, Types, MemoryOk
<1> DEFINE Ok(todo) == todo = <<>> \/ (todo \in Todos /\ CanDo(Job.id, todo))
<1>2. /\ Ok(<<>>) /\ Ok(<<"decide">>) /\ Ok(AfterSell("mirror"))
      /\ Job.id = Parent => Ok(<<"buy">>) /\ Ok(<<"retreat">>) /\ Ok(AfterBuy)
      /\ Job.id = Parent /\ kind = "dca" => Ok(<<"arm">>)
      /\ Job.id = Parent /\ kind = "copytrade" => Ok(<<"mirror">>)
      /\ Job.id # Parent => Ok(<<"prune">>)
      /\ \A leg \in {"stop", "take"} : Job.id # Parent => Ok(<<leg>>) /\ Ok(AfterSell(leg))
  BY <1>1, MayContinue
<1>3. /\ Order \in ObjectType /\ Claiming \in ObjectType /\ Counted \in ObjectType
      /\ [Order EXCEPT !.done = TRUE] \in ObjectType
      /\ [Order EXCEPT !.curves = @ \ {Job.curve}] \in ObjectType
      /\ \A leg : ExitAfter(leg) \in ObjectType
      /\ Job.curve \in Curves /\ Job.id \in Ids
  BY <1>1, OrderIs
<1>4. ASSUME NEW step \in {"arm", "count", "stopped", "taken", "prune"}, Doing(step)
      PROVE  Ok(Tail(Job.todo))
  BY <1>1, <1>4, TailContinues
<1>5. ASSUME NEW order \in ObjectType, NEW todo, Proceed(order, todo), Ok(todo),
             UNCHANGED <<storeVars, chainVars, faults>>
      PROVE  Types'
  BY <1>1, <1>5, QuietTypes
<1>6. ASSUME NEW order \in ObjectType, NEW todo, Proceed(order, todo), Ok(todo),
             Persist(order), UNCHANGED chainVars
      PROVE  Types'
  BY <1>1, <1>6, PersistTypes
<1>7. ASSUME NEW order \in ObjectType, NEW todo, Proceed(order, todo), Ok(todo),
             StoreOk', ChainOk', FaultsOk'
      PROVE  Types'
  BY <1>1, <1>7, ProceedTypes DEF Types
<1>8. StoreOk /\ ChainOk /\ FaultsOk
  BY DEF Types
<1>9. /\ UNCHANGED storeVars => StoreOk'
      /\ UNCHANGED chainVars => ChainOk'
      /\ UNCHANGED faults => FaultsOk'
      /\ \A f \in Faults : Fault(f) => FaultsOk'
  BY <1>8, FaultCounts DEF StoreOk, ChainOk, FaultsOk, storeVars, chainVars, TotalBought
<1>10. "write" \in Faults /\ "answer" \in Faults /\ "arm" \in Faults
  BY DEF Faults
<1>11. Buys => ChainOk'
  <2> SUFFICES ASSUME Buys PROVE ChainOk'
    OBVIOUS
  <2>1. /\ Total(bought) < Funds
        /\ bought' = [bought EXCEPT ![Job.curve] = @ + 1]
    BY DEF Buys, TotalBought
  <2>2. Total(bought) \in Nat /\ Total([bought EXCEPT ![Job.curve] = @ + 1]) = Total(bought) + 1
    BY <1>3, <1>8, OneMore DEF ChainOk
  <2>3. Total(bought') <= Funds
    <3>1. Funds \in Nat
      BY Constants
    <3>2. Total(bought') = Total(bought) + 1
      BY <2>1, <2>2, Zenon
    <3>3. Total(bought) < Funds /\ Total(bought) \in Nat
      BY <2>1, <2>2
    <3>4. QED
      BY ONLY <3>1, <3>2, <3>3
  <2>4. bought' \in [Curves -> Nat]
    BY <1>3, <1>8, <2>1 DEF ChainOk
  <2>5. QED
    BY <1>3, <1>8, <2>3, <2>4 DEF ChainOk, Buys, TotalBought
<1>12. \A leg : Sells(leg) => ChainOk'
  BY <1>8 DEF Sells, ChainOk, TotalBought
<1>13. /\ Doing("buy") => Job.id = Parent
       /\ Doing("retreat") => Job.id = Parent
       /\ Doing("mirror") => Job.id = Parent /\ kind = "copytrade"
       /\ Doing("stop") => Job.id # Parent
       /\ Doing("take") => Job.id # Parent
  BY <1>1, DoingIs
<1>14. Job.curve # Parent
  BY <1>3, Constants
<1> HIDE DEF Ok
<1>20. CASE GatePasses
  BY <1>2, <1>3, <1>5, <1>20 DEF GatePasses
<1>21. CASE GateCloses
  <2>1. StoreOk' /\ FaultsOk'
    <3>1. CASE PatchOrder(Job.id, "done", saved[Job.id]) /\ UNCHANGED faults
      BY <1>3, <1>8, <1>9, <3>1 DEF PatchOrder, StoreOk
    <3>2. CASE Fault("write") /\ UNCHANGED storeVars
      BY <1>9, <1>10, <3>2
    <3>3. QED
      BY <1>21, <3>1, <3>2 DEF GateCloses
  <2>2. QED
    BY <1>2, <1>3, <1>7, <1>9, <1>21, <2>1 DEF GateCloses
<1>22. CASE Declines
  BY <1>2, <1>3, <1>5, <1>22 DEF Declines
<1>23. CASE Closes
  BY <1>2, <1>3, <1>6, <1>23 DEF Closes
<1>24. CASE ClosesQuietly
  BY <1>2, <1>3, <1>5, <1>24 DEF ClosesQuietly
<1>25. CASE DecidesToBuy
  BY <1>2, <1>3, <1>5, <1>25 DEF DecidesToBuy, Deciding
<1>26. CASE ClaimsInVain
  BY <1>2, <1>3, <1>5, <1>26 DEF ClaimsInVain
<1>27. CASE BuySettles
  BY <1>2, <1>3, <1>7, <1>9, <1>11, <1>13, <1>27 DEF BuySettles, Buys
<1>28. CASE BuyUnanswered
  BY <1>2, <1>3, <1>7, <1>9, <1>10, <1>11, <1>13, <1>28 DEF BuyUnanswered, Buys
<1>29. CASE BuyFails
  BY <1>2, <1>3, <1>5, <1>13, <1>29 DEF BuyFails
<1>30. CASE Retreats
  <2>1. CASE kind = "sniper"
    BY <1>2, <1>3, <1>5, <1>30, <2>1 DEF Retreats
  <2>2. CASE kind = "dca"
    BY <1>2, <1>3, <1>6, <1>30, <2>2 DEF Retreats
  <2>3. CASE kind \notin {"sniper", "dca"}
    BY <1>2, <1>3, <1>5, <1>30, <2>3 DEF Retreats
  <2>4. QED
    BY <2>1, <2>2, <2>3
<1>31. CASE Arms
  <2>1. StoreOk' /\ FaultsOk'
    <3>1. CASE PostOrder(Job.curve) /\ UNCHANGED faults
      BY <1>3, <1>8, <1>9, <3>1 DEF PostOrder, StoreOk
    <3>2. CASE Fault("arm") /\ UNCHANGED storeVars
      BY <1>9, <1>10, <3>2
    <3>3. QED
      BY <1>31, <3>1, <3>2 DEF Arms
  <2>2. QED
    BY <1>3, <1>4, <1>7, <1>9, <1>31, <2>1 DEF Arms
<1>32. CASE Counts
  BY <1>3, <1>4, <1>6, <1>32 DEF Counts
<1>33. CASE Records
  BY <1>2, <1>3, <1>6, <1>33 DEF Records
<1>34. CASE DecidesToMirror
  BY <1>2, <1>3, <1>5, <1>34 DEF DecidesToMirror, Deciding
<1>35. CASE ExitCloses
  BY <1>2, <1>3, <1>6, <1>35 DEF ExitCloses
<1>36. CASE ExitsAsDust
  BY <1>2, <1>3, <1>6, <1>14, <1>36 DEF ExitsAsDust, Deciding
<1>37. CASE Prunes
  <2>1. StoreOk'
    <3>1. saved'  \in [Ids -> ParamsType]
      <4>1. saved \in [Ids -> ParamsType] /\ Parent \in Ids
        BY <1>8 DEF StoreOk, Ids
      <4>2. CASE saved' = [saved EXCEPT ![Parent].curves = @ \ {Job.curve}]
        <5>1. [saved[Parent] EXCEPT !.curves = @ \ {Job.curve}] \in ParamsType
          BY <4>1 DEF ParamsType
        <5>2. saved' = [saved EXCEPT ![Parent] = [saved[Parent] EXCEPT !.curves = @ \ {Job.curve}]]
          BY <4>1, <4>2
        <5>3. QED
          BY <4>1, <5>1, <5>2
      <4>3. QED
        BY <1>37, <4>1, <4>2 DEF Prunes
    <3>2. QED
      BY <1>8, <1>37, <3>1 DEF Prunes, StoreOk
  <2>2. QED
    BY <1>3, <1>4, <1>7, <1>9, <1>37, <2>1 DEF Prunes
<1>38. ASSUME NEW leg \in {"stop", "take"}, DecidesToExit(leg) PROVE Types'
  BY <1>2, <1>3, <1>5, <1>14, <1>38 DEF DecidesToExit, Deciding
<1>39. ASSUME NEW leg \in {"stop", "take", "mirror"}, SellSettles(leg) PROVE Types'
  <2>1. Ok(AfterSell(leg)) /\ ChainOk'
    BY <1>2, <1>12, <1>13, <1>39 DEF SellSettles, Sells
  <2>2. QED
    BY <1>3, <1>7, <1>9, <1>39, <2>1 DEF SellSettles
<1>40. ASSUME NEW leg \in {"stop", "take", "mirror"}, SellFails(leg) PROVE Types'
  <2>1. ChainOk'
    BY <1>9, <1>12, <1>40 DEF SellFails
  <2>2. QED
    BY <1>2, <1>3, <1>7, <1>9, <1>40, <2>1 DEF SellFails
<1>41. ASSUME NEW leg \in {"stopped", "taken"}, ExitAdvances(leg) PROVE Types'
  BY <1>3, <1>4, <1>6, <1>41 DEF ExitAdvances
<1>42. QED
  BY <1>20, <1>21, <1>22, <1>23, <1>24, <1>25, <1>26, <1>27, <1>28, <1>29, <1>30, <1>31, <1>32,
     <1>33, <1>34, <1>35, <1>36, <1>37, <1>38, <1>39, <1>40, <1>41 DEF JobStep

---------------------------------------------------------------------------
(* The sync *)

\* The sync takes a free generation.
LEMMA FreeIs ==
  ASSUME NEW id, FreeGenerations(id) # {}
  PROVE  Min(FreeGenerations(id)) \in FreeGenerations(id)
<1>1. FreeGenerations(id) \subseteq Nat
  BY DEF FreeGenerations
<1>2. \E m \in FreeGenerations(id) : \A n \in FreeGenerations(id) : m <= n
  BY <1>1, LeastNumber
<1>3. QED
  BY <1>2 DEF Min

\* The exits it wakes, in some order.
LEMMA SetToSeqIs ==
  ASSUME NEW S \in SUBSET Curves
  PROVE  SetToSeq(S) \in Seq(S)
<1>1. IsFiniteSet(S)
  BY Constants, FS_Subset
<1>2. Cardinality(S) \in Nat /\ \E f \in [1 .. Cardinality(S) -> S] : IsInjective(f)
  BY <1>1, FS_CardinalityType DEF ExistsBijection, Bijection, Injection
<1>3. SetToSeq(S) \in [1 .. Cardinality(S) -> S]
  BY <1>2 DEF SetToSeq
<1>4. QED
  BY <1>2, <1>3, SeqDef

\* The sync has loaded the order: it tracks a new object of it.
Loaded(id) == tracked[id] = 0 /\ tracked'[id] # 0

\* What the sync does to what is tracked, to the queue and to the objects.
LEMMA SyncDoes ==
  ASSUME Types, Sync
  PROVE  /\ UNCHANGED <<storeVars, kind, chainVars, cancels, faults>>
         /\ tracked' \in [Ids -> 0 .. Generations]
         /\ \A id \in Ids :
               \/ tracked'[id] = tracked[id] /\ (tracked[id] = 0 \/ status[id] = "active")
               \/ tracked'[id] = 0 /\ status[id] # "active"
               \/ Loaded(id) /\ status[id] = "active" /\ ~InQueue(id, tracked'[id], queue)
         /\ queue' \in Seq(JobType)
         /\ \A k \in DOMAIN queue : k \in DOMAIN queue' /\ queue'[k] = queue[k]
         /\ \A k \in DOMAIN queue' \ DOMAIN queue :
               /\ k \in Nat /\ queue'[k].id \in Curves /\ queue'[k].curve = queue'[k].id
               /\ Loaded(queue'[k].id) /\ queue'[k].generation = tracked'[queue'[k].id]
               /\ queue'[k].todo = AtGate
         /\ firing' \subseteq firing \cup {queue'[k].id : k \in DOMAIN queue' \ DOMAIN queue}
         /\ \A id \in firing : id \in Ids /\ tracked'[id] # 0 => id \in firing'
         /\ objects' \in [Ids -> [1 .. Generations -> ObjectType]]
         /\ \A id \in Ids, g \in 1 .. Generations : Live(id, g)' =>
               IF Loaded(id) /\ g = tracked'[id] THEN objects'[id][g] = Object(FALSE, saved[id])
               ELSE Live(id, g) /\ objects'[id][g] = objects[id][g]
<1> DEFINE new    == {id \in ActiveOrders : tracked[id] = 0 /\ FreeGenerations(id) # {}}
           gen(id) == IF id \in new THEN Min(FreeGenerations(id))
                      ELSE IF id \in Gone THEN 0 ELSE tracked[id]
           loaded == [id \in Ids |-> [g \in 1 .. Generations |->
                         IF id \in new /\ g = gen(id) THEN Object(FALSE, saved[id])
                         ELSE objects[id][g]]]
           S      == new \ ({Parent} \cup firing)
           exits  == SetToSeq(S)
           fresh  == [k \in DOMAIN exits |-> NewJob(exits[k], gen(exits[k]), exits[k])]
<1>1. /\ tracked' = [id \in Ids |-> gen(id)] /\ queue' = queue \o fresh
      /\ firing' = (firing \cup Range(exits)) \ Gone
      /\ objects' = Collected(loaded, tracked', queue')
      /\ UNCHANGED <<storeVars, kind, chainVars, cancels, faults>>
  BY DEF Sync
<1>2. /\ MemoryOk /\ StoreOk /\ tracked \in [Ids -> 0 .. Generations]
      /\ queue \in Seq(JobType) /\ objects \in [Ids -> [1 .. Generations -> ObjectType]]
  BY DEF Types, MemoryOk, Queued
<1>3. ASSUME NEW id \in new
      PROVE  /\ id \in Ids /\ status[id] = "active" /\ tracked[id] = 0
             /\ gen(id) \in 1 .. Generations /\ ~InQueue(id, gen(id), queue)
  <2>1. Min(FreeGenerations(id)) \in FreeGenerations(id)
    BY <1>3, FreeIs
  <2>2. QED
    BY <1>3, <2>1 DEF FreeGenerations, ActiveOrders
<1>4. \A id \in Gone : id \in Ids /\ status[id] # "active" /\ tracked[id] # 0
  BY DEF Gone, ActiveOrders
<1>5. ASSUME NEW id \in Ids
      PROVE  /\ gen(id) \in 0 .. Generations
             /\ \/ gen(id) = tracked[id] /\ (tracked[id] = 0 \/ status[id] = "active")
                \/ gen(id) = 0 /\ status[id] # "active"
                \/ id \in new
  <2>1. CASE id \in new
    <3>1. gen(id) \in 1 .. Generations
      BY <1>3, <2>1
    <3> HIDE DEF gen
    <3>2. gen(id) \in 0 .. Generations
      <4>1. Generations \in Nat
        BY Constants
      <4>2. QED
        BY ONLY <3>1, <4>1
    <3>3. QED
      BY <2>1, <3>2
  <2>2. CASE id \in Gone
    <3>1. gen(id) = 0 /\ status[id] # "active"
      BY <1>3, <1>4, <2>2
    <3> HIDE DEF gen, new
    <3>2. Generations \in Nat
      BY Constants
    <3>3. QED
      BY <3>1, <3>2
  <2>3. CASE id \notin new \cup Gone
    <3>1. tracked[id] = 0 \/ status[id] = "active"
      BY <2>3 DEF Gone, ActiveOrders
    <3>2. QED
      BY <1>2, <2>3, <3>1
  <2>4. QED
    BY <2>1, <2>2, <2>3
<1>6. \A id \in Ids : Loaded(id) <=> id \in new
  <2>1. \A id \in Ids : tracked'[id] = gen(id)
    BY <1>1
  <2>2. ASSUME NEW id \in Ids PROVE Loaded(id) <=> id \in new
    <3>1. CASE id \in new
      BY <1>3, <2>1, <3>1 DEF Loaded
    <3>2. CASE id \notin new
      BY <1>5, <2>1, <3>2 DEF Loaded
    <3>3. QED
      BY <3>1, <3>2
  <2>3. QED
    BY <2>2
<1>7. exits \in Seq(S) /\ S \subseteq Curves
  <2>1. S \in SUBSET Curves
    BY <1>3 DEF Ids
  <2>2. QED
    BY <2>1, SetToSeqIs
<1>8. ASSUME NEW c \in S
      PROVE  NewJob(c, gen(c), c) \in JobType
  BY <1>3, <1>7 DEF NewJob, JobType, Todos, AtGate
<1>9. fresh \in Seq(JobType) /\ Len(fresh) = Len(exits) /\ DOMAIN exits = 1 .. Len(exits)
  <2> HIDE DEF exits, S, gen
  <2>1. Len(exits) \in Nat /\ DOMAIN exits = 1 .. Len(exits) /\ \A k \in DOMAIN exits : exits[k] \in S
    BY <1>7
  <2>2. fresh \in [1 .. Len(exits) -> JobType]
    BY <1>8, <2>1
  <2>3. QED
    BY <2>1, <2>2
<1>10. /\ queue' \in Seq(JobType) /\ Len(queue) \in Nat
       /\ DOMAIN queue = 1 .. Len(queue) /\ DOMAIN queue' = 1 .. Len(queue) + Len(fresh)
       /\ \A k \in 1 .. Len(queue) + Len(fresh) :
             queue'[k] = IF k <= Len(queue) THEN queue[k] ELSE fresh[k - Len(queue)]
  <2> HIDE DEF fresh
  <2>1. queue \in Seq(JobType) /\ fresh \in Seq(JobType) /\ queue' = queue \o fresh
    BY <1>1, <1>2, <1>9
  <2>2. QED
    BY <2>1, ConcatProperties
<1>11. \A k \in DOMAIN queue : k \in DOMAIN queue' /\ queue'[k] = queue[k]
  <2> HIDE DEF fresh
  <2>1. Len(fresh) \in Nat
    BY <1>9
  <2>2. QED
    BY <1>10, <2>1
<1>12. ASSUME NEW k \in DOMAIN queue' \ DOMAIN queue
       PROVE  /\ k \in Nat /\ queue'[k].id \in S /\ queue'[k].curve = queue'[k].id
              /\ queue'[k].generation = gen(queue'[k].id) /\ queue'[k].todo = AtGate
  <2>1. k \in Nat /\ k - Len(queue) \in 1 .. Len(fresh) /\ queue'[k] = fresh[k - Len(queue)]
    <3> HIDE DEF fresh
    <3>1. Len(fresh) \in Nat
      BY <1>9
    <3>2. QED
      BY <1>10, <1>12, <3>1
  <2>2. \A j \in DOMAIN exits : exits[j] \in S /\ fresh[j] = NewJob(exits[j], gen(exits[j]), exits[j])
    <3> HIDE DEF exits, S, gen
    <3>1. QED
      BY <1>7
  <2>3. k - Len(queue) \in DOMAIN exits
    BY <1>9, <2>1
  <2> HIDE DEF exits, S, gen, fresh
  <2>4. queue'[k] = NewJob(exits[k - Len(queue)], gen(exits[k - Len(queue)]), exits[k - Len(queue)])
    BY <2>1, <2>2, <2>3
  <2>5. QED
    BY <2>1, <2>2, <2>3, <2>4 DEF NewJob, AtGate
<1>13. \A j \in DOMAIN exits : \E k \in DOMAIN queue' \ DOMAIN queue : queue'[k].id = exits[j]
  <2> SUFFICES ASSUME NEW j \in DOMAIN exits
               PROVE  \E k \in DOMAIN queue' \ DOMAIN queue : queue'[k].id = exits[j]
    OBVIOUS
  <2>1. fresh[j].id = exits[j]
    <3> HIDE DEF exits
    <3>1. QED
      BY DEF NewJob
  <2> HIDE DEF fresh, exits
  <2>2. j \in Nat /\ j >= 1 /\ j <= Len(fresh) /\ Len(fresh) \in Nat
    BY <1>9
  <2>3. Len(queue) + j \in DOMAIN queue' \ DOMAIN queue
    BY <1>10, <2>2
  <2>4. queue'[Len(queue) + j] = fresh[(Len(queue) + j) - Len(queue)] /\ (Len(queue) + j) - Len(queue) = j
    BY <1>10, <2>2
  <2>5. QED
    BY <2>1, <2>3, <2>4
<1>14. firing' \subseteq firing \cup {queue'[k].id : k \in DOMAIN queue' \ DOMAIN queue}
  <2> HIDE DEF exits
  <2>1. QED
    BY <1>1, <1>13 DEF Range
<1>15. \A id \in firing : id \in Ids /\ tracked'[id] # 0 => id \in firing'
  <2>1. \A id \in Gone : id \in Ids => tracked'[id] = 0
    BY <1>1, <1>3, <1>4
  <2>2. QED
    BY <1>1, <2>1
<1>16. objects' \in [Ids -> [1 .. Generations -> ObjectType]]
  <2>1. NoObject \in ObjectType
    BY DEF NoObject, Object, NewParams, ObjectType
  <2>2. \A id \in Ids : Object(FALSE, saved[id]) \in ObjectType
    BY <1>2 DEF StoreOk, ParamsType, Object, ObjectType
  <2> HIDE DEF new, gen
  <2>3. loaded \in [Ids -> [1 .. Generations -> ObjectType]]
    BY <1>2, <2>2
  <2> HIDE DEF loaded
  <2>4. QED
    BY <1>1, <2>1, <2>3 DEF Collected
<1>17. ASSUME NEW id \in Ids, NEW g \in 1 .. Generations, Live(id, g)'
       PROVE  IF Loaded(id) /\ g = tracked'[id] THEN objects'[id][g] = Object(FALSE, saved[id])
              ELSE Live(id, g) /\ objects'[id][g] = objects[id][g]
  <2>1. tracked'[id] = g \/ InQueue(id, g, queue')
    BY <1>17 DEF Live
  <2>2. objects'[id][g] = loaded[id][g] /\ tracked'[id] = gen(id)
    <3> HIDE DEF loaded, gen
    <3>1. QED
      BY <1>1, <2>1 DEF Collected
  <2>3. CASE Loaded(id) /\ g = tracked'[id]
    BY <1>6, <2>2, <2>3
  <2>4. CASE ~(Loaded(id) /\ g = tracked'[id])
    <3>1. objects'[id][g] = objects[id][g]
      BY <1>6, <2>2, <2>4
    <3>2. CASE tracked'[id] = g
      <4>1. tracked[id] = g
        BY <1>5, <1>6, <2>2, <2>4, <3>2
      <4>2. QED
        BY <2>4, <3>1, <4>1 DEF Live
    <3>3. CASE InQueue(id, g, queue')
      <4>1. PICK k \in DOMAIN queue' : queue'[k].id = id /\ queue'[k].generation = g
        BY <3>3 DEF InQueue
      <4>2. k \in DOMAIN queue
        BY <1>6, <1>12, <2>2, <2>4, <4>1
      <4>3. QED
        BY <1>11, <2>4, <3>1, <4>1, <4>2 DEF Live, InQueue
    <3>4. QED
      BY <2>1, <3>2, <3>3
  <2>5. QED
    BY <2>3, <2>4
<1>18. /\ tracked' \in [Ids -> 0 .. Generations]
       /\ \A id \in Ids :
            \/ tracked'[id] = tracked[id] /\ (tracked[id] = 0 \/ status[id] = "active")
            \/ tracked'[id] = 0 /\ status[id] # "active"
            \/ Loaded(id) /\ status[id] = "active" /\ ~InQueue(id, tracked'[id], queue)
  <2>1. \A id \in Ids : tracked'[id] = gen(id)
    BY <1>1
  <2>2. DOMAIN tracked' = Ids /\ tracked' = [id \in Ids |-> tracked'[id]]
    BY <1>1
  <2>3. tracked' \in [Ids -> 0 .. Generations]
    <3> HIDE DEF gen, new
    <3>1. QED
      BY <1>5, <2>1, <2>2
  <2>4. ASSUME NEW id \in Ids
        PROVE  \/ tracked'[id] = tracked[id] /\ (tracked[id] = 0 \/ status[id] = "active")
               \/ tracked'[id] = 0 /\ status[id] # "active"
               \/ Loaded(id) /\ status[id] = "active" /\ ~InQueue(id, tracked'[id], queue)
    <3>1. id \in new => Loaded(id) /\ status[id] = "active" /\ ~InQueue(id, gen(id), queue)
      BY <1>3, <1>6
    <3> HIDE DEF gen, new
    <3>2. QED
      BY <1>5, <2>1, <3>1
  <2>5. QED
    BY <2>3, <2>4
<1>19. \A k \in DOMAIN queue' \ DOMAIN queue :
          /\ k \in Nat /\ queue'[k].id \in Curves /\ queue'[k].curve = queue'[k].id
          /\ Loaded(queue'[k].id) /\ queue'[k].generation = tracked'[queue'[k].id]
          /\ queue'[k].todo = AtGate
  <2>1. \A c \in S : c \in Curves /\ c \in Ids /\ Loaded(c) /\ tracked'[c] = gen(c)
    BY <1>1, <1>3, <1>6, <1>7
  <2> HIDE DEF S, gen
  <2>2. QED
    BY <1>12, <2>1
<1> HIDE DEF new, gen, loaded, S, exits, fresh
<1>20. QED
  BY <1>1, <1>10, <1>11, <1>14, <1>15, <1>16, <1>17, <1>18, <1>19

\* The sync is well-typed.
LEMMA SyncTypes ==
  ASSUME Types, Sync
  PROVE  Types'
<1>1. /\ UNCHANGED <<storeVars, kind, chainVars, cancels, faults>>
      /\ tracked' \in [Ids -> 0 .. Generations] /\ queue' \in Seq(JobType)
      /\ objects' \in [Ids -> [1 .. Generations -> ObjectType]]
      /\ \A k \in DOMAIN queue : k \in DOMAIN queue' /\ queue'[k] = queue[k]
      /\ \A k \in DOMAIN queue' \ DOMAIN queue :
            /\ queue'[k].id \in Curves /\ queue'[k].curve = queue'[k].id /\ queue'[k].todo = AtGate
      /\ firing' \subseteq firing \cup {queue'[k].id : k \in DOMAIN queue' \ DOMAIN queue}
  BY SyncDoes
<1>2. ASSUME NEW k \in DOMAIN queue'
      PROVE  /\ queue'[k].curve \in Targets(queue'[k].id)
             /\ CanDo(queue'[k].id, queue'[k].todo)
             /\ k > 1 => queue'[k].todo = AtGate
  <2>1. CASE k \in DOMAIN queue
    <3>1. Queued /\ queue'[k] = queue[k]
      BY <1>1, <2>1 DEF Types, MemoryOk
    <3>2. QED
      BY <2>1, <3>1 DEF Queued
  <2>2. CASE k \notin DOMAIN queue
    <3>1. queue'[k].id \in Curves /\ queue'[k].curve = queue'[k].id /\ queue'[k].todo = AtGate
      BY <1>1, <1>2, <2>2
    <3>2. Targets(queue'[k].id) = {queue'[k].id}
      BY <3>1, TargetsAre DEF Ids
    <3>3. CanDo(queue'[k].id, AtGate)
      BY DEF CanDo
    <3>4. QED
      BY <3>1, <3>2, <3>3
  <2>3. QED
    BY <2>1, <2>2
<1>3. kind' = kind /\ queue' \in Seq(JobType)
  BY <1>1
<1>4. Queued'
  BY <1>2, <1>3 DEF Queued, CanDo, Targets
<1>5. firing' \subseteq {queue'[k].id : k \in DOMAIN queue'}
  <2>1. firing \subseteq {queue[k].id : k \in DOMAIN queue}
    BY DEF Types, MemoryOk
  <2>2. {queue[k].id : k \in DOMAIN queue} \subseteq {queue'[k].id : k \in DOMAIN queue'}
    BY <1>1
  <2>3. QED
    BY <1>1, <2>1, <2>2
<1>6. MemoryOk'
  BY <1>1, <1>4, <1>5 DEF Types, MemoryOk
<1>7. StoreOk' /\ ChainOk' /\ FaultsOk'
  BY <1>1 DEF Types, StoreOk, ChainOk, FaultsOk, storeVars, chainVars, TotalBought
<1>8. QED
  BY <1>6, <1>7 DEF Types

---------------------------------------------------------------------------
(* The other steps *)

\* The brain starts well-typed.
LEMMA InitTypes ==
  ASSUME Init
  PROVE  Types
<1>1. StoreOk
  BY DEF Init, StoreInit, StoreOk, NewParams, ParamsType
<1>2. ChainOk
  <2>1. bought = [c \in Curves |-> 0] /\ bought \in [Curves -> Nat]
    BY DEF Init
  <2>2. Total(bought) = 0
    <3>1. \A c \in Curves : bought[c] \in Nat /\ bought[c] = 0
      BY <2>1
    <3>2. IsFiniteSet(Curves)
      BY Constants
    <3>3. Sums(bought, Curves)[Curves] = 0
      BY <3>1, <3>2, SumsNat
    <3>4. DOMAIN bought = Curves
      BY <2>1
    <3>5. QED
      BY <3>3, <3>4, BoughtIsSum
  <2>3. 0 <= Funds
    BY Constants
  <2>4. QED
    BY <2>1, <2>2, <2>3 DEF Init, ChainOk, TotalBought
<1>3. FaultsOk
  BY Constants DEF Init, FaultsOk
<1>4. MemoryOk
  <2>1. objects \in [Ids -> [1 .. Generations -> ObjectType]]
    BY DEF Init, NoObjects, NoObject, Object, NewParams, ObjectType
  <2>2. tracked \in [Ids -> 0 .. Generations]
    BY Constants DEF Init, Untracked
  <2>3. queue \in Seq(JobType) /\ DOMAIN queue = {}
    BY DEF Init
  <2>4. Queued
    BY <2>3 DEF Queued
  <2>5. QED
    BY <2>1, <2>2, <2>4, Constants DEF Init, MemoryOk
<1>5. QED
  BY <1>1, <1>2, <1>3, <1>4 DEF Types

\* A cancel is well-typed.
LEMMA CancelTypes ==
  ASSUME Types, NEW id \in Ids, Cancel(id)
  PROVE  Types'
<1>1. cancels' \in 0 .. MaxCancels
  BY Constants DEF Cancel, Types, MemoryOk
<1>2. StoreOk'
  BY DEF Cancel, CancelOrder, Types, StoreOk
<1>3. ChainOk' /\ FaultsOk'
  BY DEF Cancel, Types, ChainOk, FaultsOk, chainVars, TotalBought
<1>4. MemoryOk'
  BY <1>1 DEF Cancel, Types, MemoryOk, brainVars, Queued, CanDo, Targets
<1>5. QED
  BY <1>2, <1>3, <1>4 DEF Types

\* So are the session closing and a graduation.
LEMMA ChainTypes ==
  ASSUME Types, SessionCloses \/ \E c \in Curves : Graduates(c)
  PROVE  Types'
<1>1. UNCHANGED <<storeVars, kind, held, bought, brainVars, cancels, faults>>
  BY DEF SessionCloses, Graduates
<1>2. open' \in BOOLEAN /\ graduated' \subseteq Curves
  BY DEF SessionCloses, Graduates, Types, ChainOk
<1>3. ChainOk'
  BY <1>1, <1>2 DEF Types, ChainOk, TotalBought
<1>4. StoreOk' /\ FaultsOk'
  BY <1>1 DEF Types, StoreOk, FaultsOk, storeVars
<1>5. MemoryOk'
  BY <1>1 DEF Types, MemoryOk, brainVars, Queued, CanDo, Targets
<1>6. QED
  BY <1>3, <1>4, <1>5 DEF Types

\* So is a restart.
LEMMA RestartTypes ==
  ASSUME Types, Restart
  PROVE  Types'
<1>1. /\ objects' = NoObjects /\ tracked' = Untracked /\ firing' = {} /\ queue' = <<>>
      /\ UNCHANGED <<storeVars, kind, chainVars, cancels>>
  BY DEF Restart
<1>2. FaultsOk'
  <2>1. CASE Fault("crash")
    BY <2>1, FaultCounts DEF Types, Faults
  <2>2. CASE UNCHANGED faults
    BY <2>2 DEF Types, FaultsOk
  <2>3. QED
    BY <2>1, <2>2 DEF Restart
<1>3. StoreOk' /\ ChainOk'
  BY <1>1 DEF Types, StoreOk, ChainOk, storeVars, chainVars, TotalBought
<1>4. MemoryOk'
  <2>1. objects' \in [Ids -> [1 .. Generations -> ObjectType]]
    BY <1>1 DEF NoObjects, NoObject, Object, NewParams, ObjectType
  <2>2. tracked' \in [Ids -> 0 .. Generations]
    BY <1>1, Constants DEF Untracked
  <2>3. queue' \in Seq(JobType) /\ DOMAIN queue' = {}
    BY <1>1
  <2>4. Queued'
    BY <2>3 DEF Queued
  <2>5. QED
    BY <1>1, <2>1, <2>2, <2>4 DEF Types, MemoryOk
<1>5. QED
  BY <1>2, <1>3, <1>4 DEF Types

\* What a launch, a trade or a tick adds to the queue.
LEMMA WakeDoes ==
  ASSUME Types, NEW id \in Ids, NEW c \in Curves, Wake(id, c)
  PROVE  /\ UNCHANGED <<storeVars, kind, chainVars, objects, tracked, cancels, faults>>
         /\ firing' = firing \cup {id} /\ id \notin firing
         /\ tracked[id] \in 1 .. Generations /\ ~objects[id][tracked[id]].done
         /\ queue' \in Seq(JobType) /\ DOMAIN queue' = 1 .. Len(queue) + 1
         /\ Len(queue) \in Nat /\ DOMAIN queue = 1 .. Len(queue)
         /\ \A k \in DOMAIN queue : k \in DOMAIN queue' /\ queue'[k] = queue[k]
         /\ queue'[Len(queue) + 1] = NewJob(id, tracked[id], c)
         /\ Queued'
         /\ \A i \in Ids, g \in 1 .. Generations : Live(i, g)' <=> Live(i, g)
<1>1. /\ queue' = Append(queue, NewJob(id, tracked[id], c)) /\ c \in Targets(id)
      /\ tracked[id] # 0 /\ ~objects[id][tracked[id]].done /\ id \notin firing
      /\ firing' = firing \cup {id}
      /\ UNCHANGED <<storeVars, kind, chainVars, objects, tracked, cancels, faults>>
  BY DEF Wake
<1>2. tracked[id] \in 1 .. Generations
  BY <1>1, Constants DEF Types, MemoryOk
<1>3. NewJob(id, tracked[id], c) \in JobType
  BY <1>2 DEF NewJob, JobType, Todos, AtGate
<1>4. queue \in Seq(JobType)
  BY DEF Types, MemoryOk, Queued
<1>5. /\ queue' \in Seq(JobType) /\ DOMAIN queue' = 1 .. Len(queue) + 1
      /\ Len(queue) \in Nat /\ DOMAIN queue = 1 .. Len(queue)
      /\ \A k \in DOMAIN queue : k \in DOMAIN queue' /\ queue'[k] = queue[k]
      /\ queue'[Len(queue) + 1] = NewJob(id, tracked[id], c)
  BY <1>1, <1>3, <1>4
<1>6. ASSUME NEW k \in DOMAIN queue'
      PROVE  /\ queue'[k].curve \in Targets(queue'[k].id)
             /\ CanDo(queue'[k].id, queue'[k].todo)
             /\ k > 1 => queue'[k].todo = AtGate
  <2>1. CASE k \in DOMAIN queue
    BY <1>5, <2>1 DEF Types, MemoryOk, Queued
  <2>2. CASE k = Len(queue) + 1
    <3>1. queue'[k].curve = c /\ queue'[k].id = id /\ queue'[k].todo = AtGate
      BY <1>5, <2>2 DEF NewJob, AtGate
    <3>2. QED
      BY <1>1, <3>1 DEF CanDo
  <2>3. QED
    BY <1>5, <1>6, <2>1, <2>2
<1>7. Queued'
  BY <1>1, <1>5, <1>6 DEF Queued, CanDo, Targets
<1>8. ASSUME NEW i \in Ids, NEW g \in 1 .. Generations
      PROVE  Live(i, g)' <=> Live(i, g)
  <2>1. \A k \in DOMAIN queue' : k \in DOMAIN queue \/ k = Len(queue) + 1
    BY <1>5
  <2>2. queue'[Len(queue) + 1].id = id /\ queue'[Len(queue) + 1].generation = tracked[id]
    BY <1>5 DEF NewJob
  <2>3. QED
    BY <1>1, <1>5, <2>1, <2>2 DEF Live, InQueue
<1>9. QED
  BY <1>1, <1>2, <1>5, <1>7, <1>8

\* A wake is well-typed.
LEMMA WakeTypes ==
  ASSUME Types, NEW id \in Ids, NEW c \in Curves, Wake(id, c)
  PROVE  Types'
<1>1. /\ UNCHANGED <<storeVars, kind, chainVars, objects, tracked, cancels, faults>>
      /\ firing' = firing \cup {id} /\ Queued'
      /\ \A k \in DOMAIN queue : k \in DOMAIN queue' /\ queue'[k] = queue[k]
      /\ Len(queue) + 1 \in DOMAIN queue' /\ queue'[Len(queue) + 1] = NewJob(id, tracked[id], c)
  BY WakeDoes
<1>2. firing' \subseteq {queue'[k].id : k \in DOMAIN queue'}
  BY <1>1 DEF Types, MemoryOk, NewJob
<1>3. MemoryOk'
  BY <1>1, <1>2 DEF Types, MemoryOk
<1>4. StoreOk' /\ ChainOk' /\ FaultsOk'
  BY <1>1 DEF Types, StoreOk, ChainOk, FaultsOk, storeVars, chainVars, TotalBought
<1>5. QED
  BY <1>3, <1>4 DEF Types

\* Every step is.
LEMMA NextTypes ==
  ASSUME Types, [Next]_vars
  PROVE  Types'
<1>1. CASE UNCHANGED vars
  <2>1. StoreOk' /\ ChainOk' /\ FaultsOk'
    BY <1>1 DEF vars, Types, StoreOk, ChainOk, FaultsOk, storeVars, chainVars, TotalBought
  <2>2. MemoryOk'
    BY <1>1 DEF vars, brainVars, Types, MemoryOk, Queued, CanDo, Targets
  <2>3. QED
    BY <2>1, <2>2 DEF Types
<1>2. QED
  BY <1>1, CancelTypes, ChainTypes, RestartTypes, SyncTypes, WakeTypes, JobStepTypes DEF Next

\* The state is well-formed, and an order is kept from being scheduled only by
\* a job of its own.
THEOREM BrainTypeCorrect == Spec => []BrainTypeOK
<1>1. Types => BrainTypeOK
  <2> SUFFICES ASSUME Types PROVE BrainTypeOK
    OBVIOUS
  <2>1. bought \in [Curves -> 0 .. Funds]
    <3>1. \A c \in Curves : bought[c] \in Nat /\ bought[c] <= Total(bought) /\ Total(bought) \in Nat
      BY OneMore DEF Types, ChainOk
    <3>2. Total(bought) <= Funds /\ Funds \in Nat
      BY Constants DEF Types, ChainOk, TotalBought
    <3>3. \A c \in Curves : bought[c] \in 0 .. Funds
      BY <3>1, <3>2
    <3>4. QED
      BY <3>3 DEF Types, ChainOk
  <2>2. ASSUME NEW k \in DOMAIN queue
        PROVE  /\ queue[k].id \in Ids /\ queue[k].generation \in 1 .. Generations
               /\ queue[k].curve \in Targets(queue[k].id)
               /\ Range(queue[k].todo) \subseteq Steps /\ queue[k].todo # <<>>
    <3>1. Queued
      BY DEF Types, MemoryOk
    <3>2. queue[k] \in JobType /\ queue[k].curve \in Targets(queue[k].id)
      BY <3>1 DEF Queued
    <3>3. queue[k].todo \in Todos
      BY <3>2 DEF JobType
    <3>4. Range(queue[k].todo) \subseteq Steps /\ queue[k].todo # <<>>
      BY <3>3, TodosAreSteps
    <3>5. QED
      BY <3>2, <3>4 DEF JobType
  <2>3. /\ status \in [Ids -> {"none", "active", "done", "cancelled"}]
        /\ saved \in [Ids -> [count : Nat, curves : SUBSET Curves]]
        /\ faults \in [Faults -> 0 .. MaxFaults]
        /\ open \in BOOLEAN /\ graduated \subseteq Curves /\ held \subseteq Curves
    BY DEF Types, StoreOk, ChainOk, FaultsOk, ParamsType
  <2>4. /\ kind \in Kinds /\ cancels \in 0 .. MaxCancels
        /\ objects \in [Ids -> [1 .. Generations -> [done : BOOLEAN, count : Nat, curves : SUBSET Curves]]]
        /\ tracked \in [Ids -> 0 .. Generations]
        /\ firing \subseteq {queue[k].id : k \in DOMAIN queue}
    BY DEF Types, MemoryOk, ObjectType
  <2>5. QED
    BY <2>1, <2>2, <2>3, <2>4 DEF BrainTypeOK
<1>2. QED
  BY <1>1, InitTypes, NextTypes, PTL DEF Spec

---------------------------------------------------------------------------
(* The objects of Parent *)

HeadAt(id, todos) == queue # <<>> /\ Job.id = id /\ Job.todo \in todos

\* A buy has landed that is not counted yet; all of them are.
Uncounted == HeadAt(Parent, {AtArm, AtCount})
Spent == HeadAt(Parent, {AtRecord, AtLastArm})

ParentJobs == {k \in DOMAIN queue : queue[k].id = Parent}

\* The jobs of Parent work on the object that is tracked, or on one that the
\* sync has dropped after a cancel, or the running one has written over that
\* cancel and the row may have been loaded again.
Normal    == \A k \in ParentJobs : queue[k].generation = tracked[Parent]
Dropped   == /\ tracked[Parent] = 0 /\ status[Parent] # "active"
             /\ \A j, k \in ParentJobs : queue[j].generation = queue[k].generation
Overtaken == /\ cancels = 1 /\ status[Parent] = "active" /\ Spent /\ ~Order.done
             /\ \A k \in ParentJobs \ {1} : queue[k].generation = tracked[Parent]

Single ==
    cancels = 0 \/ status[Parent] = "cancelled" =>
        /\ \A j, k \in ParentJobs : j = k
        /\ tracked[Parent] # 0 /\ ParentJobs # {} => Parent \in firing

StatusOk ==
    /\ status[Parent] # "none"
    /\ status[Parent] = "cancelled" => cancels > 0
    /\ status[Parent] = "done" =>
          \A g \in 1 .. Generations : Live(Parent, g) => objects[Parent][g].done

Own == (Normal \/ Dropped \/ Overtaken) /\ Single /\ StatusOk

\* Unless it is overtaken, a running job of Parent has the only object of it.
LEMMA OneOwner ==
  ASSUME MemoryOk, queue # <<>>, Job.id = Parent, Normal \/ Dropped,
         NEW g \in 1 .. Generations, Live(Parent, g)
  PROVE  g = Job.generation
<1>1. 1 \in ParentJobs /\ Job = queue[1] /\ Job.generation \in 1 .. Generations
  BY JobIs DEF MemoryOk, ParentJobs, JobType
<1>2. tracked[Parent] = g \/ \E k \in ParentJobs : queue[k].generation = g
  BY DEF Live, InQueue, ParentJobs
<1>3. CASE Normal
  BY <1>1, <1>2, <1>3 DEF Normal
<1>4. CASE Dropped
  BY <1>1, <1>2, <1>4 DEF Dropped
<1>5. QED
  BY <1>3, <1>4

\* The jobs of Parent after a step of the running job.
LEMMA ProceedParentJobs ==
  ASSUME MemoryOk, queue # <<>>, NEW order, NEW todo, Proceed(order, todo)
  PROVE  /\ todo # <<>> => /\ ParentJobs' = ParentJobs
                           /\ \A k \in ParentJobs : queue'[k].generation = queue[k].generation
         /\ todo = <<>> => \A k \in ParentJobs' : /\ k + 1 \in ParentJobs \ {1}
                                                  /\ queue'[k].generation = queue[k + 1].generation
         /\ 1 \in ParentJobs <=> Job.id = Parent
         /\ ParentJobs \subseteq Nat /\ ParentJobs' \subseteq Nat
<1>1. Queued /\ 1 \in DOMAIN queue /\ Job = queue[1] /\ Job \in JobType
  BY JobIs DEF MemoryOk
<1>2. ParentJobs \subseteq Nat /\ ParentJobs' \subseteq Nat
  BY <1>1, ProceedQueue DEF ParentJobs
<1>3. CASE todo # <<>>
  <2>1. DOMAIN queue' = DOMAIN queue /\ queue'[1] = [Job EXCEPT !.todo = todo]
    BY <1>1, <1>3, ProceedQueue
  <2>2. ASSUME NEW k \in DOMAIN queue
        PROVE  queue'[k].id = queue[k].id /\ queue'[k].generation = queue[k].generation
    <3>1. CASE k = 1
      BY <1>1, <2>1, <3>1 DEF JobType
    <3>2. CASE k > 1
      BY <1>1, <1>3, <3>2, ProceedQueue
    <3>3. QED
      BY <1>1, <3>1, <3>2, ProceedQueue
  <2>3. QED
    BY <1>1, <1>2, <1>3, <2>1, <2>2 DEF ParentJobs
<1>4. CASE todo = <<>>
  <2>1. ASSUME NEW k \in ParentJobs'
        PROVE  k + 1 \in ParentJobs \ {1} /\ queue'[k].generation = queue[k + 1].generation
    <3>1. k \in DOMAIN queue' /\ queue'[k].id = Parent
      BY DEF ParentJobs
    <3>2. k + 1 \in DOMAIN queue /\ queue'[k] = queue[k + 1]
      BY <1>1, <1>4, <3>1, ProceedQueue
    <3>3. k \in Nat /\ (k = 1 \/ k > 1)
      BY <1>1, <3>1, ProceedQueue
    <3>4. k + 1 # 1
      BY <3>3
    <3>5. QED
      BY <3>1, <3>2, <3>4 DEF ParentJobs
  <2>2. QED
    BY <1>1, <1>2, <1>4, <2>1 DEF ParentJobs
<1>5. QED
  BY <1>3, <1>4

\* What the running job is after its step, and its object.
LEMMA ProceedJob ==
  ASSUME MemoryOk, queue # <<>>, NEW order, NEW todo, Proceed(order, todo)
  PROVE  /\ todo # <<>> => /\ queue' # <<>> /\ Job' = [Job EXCEPT !.todo = todo]
                           /\ Job'.id = Job.id /\ Job'.curve = Job.curve /\ Job'.todo = todo
                           /\ Job'.generation = Job.generation
                           /\ Order' = order
         /\ todo = <<>> /\ queue' # <<>> => Job'.todo = AtGate
<1>1. Queued /\ 1 \in DOMAIN queue /\ Job = queue[1] /\ Job \in JobType /\ queue \in Seq(JobType)
  BY JobIs DEF MemoryOk, Queued
<1>2. CASE todo # <<>>
  <2>1. queue' = [queue EXCEPT ![1].todo = todo]
    BY <1>2 DEF Proceed
  <2>2. queue' # <<>> /\ Head(queue') = [Job EXCEPT !.todo = todo]
    BY <1>1, <2>1
  <2>3. /\ Job' = [Job EXCEPT !.todo = todo]
        /\ Job'.id = Job.id /\ Job'.curve = Job.curve /\ Job'.todo = todo
        /\ Job'.generation = Job.generation
    BY <1>1, <2>2 DEF Job, JobType
  <2>4. queue'[1] = [Job EXCEPT !.todo = todo] /\ 1 \in DOMAIN queue'
    BY <1>1, <1>2, ProceedQueue
  <2>5. objects'[Job.id][Job.generation] = order
    <3>1. Job.id \in Ids /\ Job.generation \in 1 .. Generations
      BY <1>1 DEF JobType
    <3>2. objects \in [Ids -> [1 .. Generations -> ObjectType]]
      BY DEF MemoryOk
    <3>3. \E k \in DOMAIN queue' : queue'[k].id = Job.id /\ queue'[k].generation = Job.generation
      BY <1>1, <2>4 DEF JobType
    <3>4. objects' = Collected([objects EXCEPT ![Job.id][Job.generation] = order], tracked, queue')
      BY DEF Proceed
    <3>5. QED
      BY <3>1, <3>2, <3>3, <3>4 DEF Collected, InQueue
  <2>6. Order' = order
    BY <2>3, <2>5 DEF Order
  <2>7. QED
    BY <1>2, <2>2, <2>3, <2>6
<1>3. CASE todo = <<>>
  <2>1. queue' = Tail(queue)
    BY <1>3 DEF Proceed
  <2>2. ASSUME queue' # <<>> PROVE Job'.todo = AtGate
    <3>1. 2 \in DOMAIN queue /\ Head(queue') = queue[2]
      BY <1>1, <2>1, <2>2
    <3>2. QED
      BY <1>1, <3>1 DEF Queued, Job
  <2>3. QED
    BY <1>3, <2>2
<1>4. QED
  BY <1>2, <1>3

\* A step of the running job keeps the ownership of Parent's objects if it
\* writes the status of its object, keeps an object that is done done, and
\* brings an active order back only when it is about to end.
LEMMA ProceedOwn ==
  ASSUME Types, Own, cancels <= 1, queue # <<>>,
         NEW order \in ObjectType, NEW todo, Proceed(order, todo),
         todo = <<>> \/ (todo \in Todos /\ CanDo(Job.id, todo)),
         \/ status'[Parent] = status[Parent]
         \/ Job.id = Parent /\ status'[Parent] = IF order.done THEN "done" ELSE "active",
         Job.id = Parent /\ Order.done => order.done,
         Spent /\ ~Order.done => todo = <<>> /\ order = Order,
         Job.id = Parent /\ status'[Parent] # status[Parent] /\ ~order.done => todo \in {<<>>, AtRecord}
  PROVE  Own'
<1>1. /\ MemoryOk /\ Queued /\ Parent \in Ids /\ cancels \in Nat
      /\ objects \in [Ids -> [1 .. Generations -> ObjectType]]
      /\ tracked' = tracked /\ cancels' = cancels
  BY Constants DEF Types, MemoryOk, Proceed
<1>2. /\ Job.id \in Ids /\ Job.generation \in 1 .. Generations
      /\ Order = objects[Job.id][Job.generation] /\ Live(Job.id, Job.generation)
  BY <1>1, OrderIs
<1>3. ASSUME NEW g \in 1 .. Generations, Live(Parent, g)'
      PROVE  /\ Live(Parent, g)
             /\ objects'[Parent][g] = IF Parent = Job.id /\ g = Job.generation THEN order
                                      ELSE objects[Parent][g]
  BY <1>1, <1>3, ProceedObjects
<1>4. status'[Parent] = "cancelled" => status[Parent] = "cancelled"
  OBVIOUS
<1>5. StatusOk'
  <2>1. status'[Parent] # "none" /\ (status'[Parent] = "cancelled" => cancels > 0)
    BY DEF Own, StatusOk
  <2>2. ASSUME status'[Parent] = "done", NEW g \in 1 .. Generations, Live(Parent, g)'
        PROVE  objects'[Parent][g].done
    <3>1. CASE status[Parent] = "done"
      <4>1. objects[Parent][g].done
        BY <1>3, <2>2, <3>1 DEF Own, StatusOk
      <4>2. QED
        BY <1>2, <1>3, <2>2, <4>1
    <3>2. CASE status[Parent] # "done"
      <4>1. Job.id = Parent /\ order.done
        BY <2>2, <3>2
      <4>2. ~Overtaken
        BY <4>1 DEF Overtaken
      <4>3. g = Job.generation
        BY <1>1, <1>3, <2>2, <4>1, <4>2, OneOwner DEF Own
      <4>4. QED
        BY <1>3, <2>2, <4>1, <4>3
    <3>3. QED
      BY <3>1, <3>2
  <2>3. QED
    BY <1>1, <2>1, <2>2 DEF StatusOk
<1>6. Single'
  <2>1. SUFFICES ASSUME cancels' = 0 \/ status'[Parent] = "cancelled"
                 PROVE  /\ \A j, k \in ParentJobs' : j = k
                        /\ tracked'[Parent] # 0 /\ ParentJobs' # {} => Parent \in firing'
    BY DEF Single
  <2>2. /\ \A j, k \in ParentJobs : j = k
        /\ tracked[Parent] # 0 /\ ParentJobs # {} => Parent \in firing
    BY <1>1, <1>4, <2>1 DEF Own, Single
  <2>3. CASE todo # <<>>
    <3>1. ParentJobs' = ParentJobs
      BY <1>1, <2>3, ProceedParentJobs
    <3>2. firing' = firing
      BY <2>3 DEF Proceed
    <3>3. QED
      BY <1>1, <2>2, <3>1, <3>2
  <2>4. CASE todo = <<>>
    <3>1. ASSUME NEW j \in ParentJobs', NEW k \in ParentJobs' PROVE j = k
      <4>1. j + 1 \in ParentJobs /\ k + 1 \in ParentJobs /\ j \in Nat /\ k \in Nat
        BY <1>1, <2>4, ProceedParentJobs
      <4>2. j + 1 = k + 1
        BY <2>2, <4>1
      <4>3. QED
        BY <4>1, <4>2
    <3>2. ASSUME tracked'[Parent] # 0, NEW k \in ParentJobs' PROVE Parent \in firing'
      <4>1. k + 1 \in ParentJobs /\ k + 1 # 1
        BY <1>1, <2>4, ProceedParentJobs
      <4>2. 1 \notin ParentJobs
        BY <2>2, <4>1
      <4>3. Job.id # Parent /\ Parent \in firing
        BY <1>1, <2>2, <3>2, <4>1, <4>2, ProceedParentJobs
      <4>4. firing' = firing \ {Job.id}
        BY <2>4 DEF Proceed, Released
      <4>5. QED
        BY <4>3, <4>4
    <3>3. QED
      BY <3>1, <3>2
  <2>5. QED
    BY <2>3, <2>4
<1>7. Normal => Normal'
  <2> SUFFICES ASSUME Normal, NEW k \in ParentJobs' PROVE queue'[k].generation = tracked[Parent]
    BY <1>1 DEF Normal
  <2>1. CASE todo # <<>>
    BY <1>1, <2>1, ProceedParentJobs DEF Normal
  <2>2. CASE todo = <<>>
    BY <1>1, <2>2, ProceedParentJobs DEF Normal
  <2>3. QED
    BY <2>1, <2>2
<1>8. Overtaken => Normal'
  <2> SUFFICES ASSUME Overtaken, NEW k \in ParentJobs' PROVE queue'[k].generation = tracked[Parent]
    BY <1>1 DEF Normal
  <2>1. todo = <<>>
    BY DEF Overtaken
  <2>2. QED
    BY <1>1, <2>1, ProceedParentJobs DEF Overtaken
<1>9. Dropped => Normal' \/ Dropped' \/ Overtaken'
  <2> SUFFICES ASSUME Dropped PROVE Normal' \/ Dropped' \/ Overtaken'
    OBVIOUS
  <2>1. CASE status'[Parent] # "active"
    <3>1. ASSUME NEW j \in ParentJobs', NEW k \in ParentJobs'
          PROVE  queue'[j].generation = queue'[k].generation
      <4>1. CASE todo # <<>>
        BY <1>1, <4>1, ProceedParentJobs DEF Dropped
      <4>2. CASE todo = <<>>
        BY <1>1, <4>2, ProceedParentJobs DEF Dropped
      <4>3. QED
        BY <4>1, <4>2
    <3>2. QED
      BY <1>1, <2>1, <3>1 DEF Dropped
  <2>2. CASE status'[Parent] = "active"
    <3>1. Job.id = Parent /\ ~order.done /\ status'[Parent] # status[Parent]
      BY <2>2 DEF Dropped
    <3>2. status[Parent] # "done"
      BY <1>2, <3>1 DEF Own, StatusOk
    <3>3. status[Parent] = "cancelled"
      BY <1>1, <3>2 DEF Types, StoreOk, Own, StatusOk, Dropped
    <3>4. cancels = 1 /\ \A j, k \in ParentJobs : j = k
      BY <1>1, <3>3 DEF Own, StatusOk, Single
    <3>5. 1 \in ParentJobs
      BY <1>1, <3>1, ProceedParentJobs
    <3>6. CASE todo = <<>>
      <4>1. ParentJobs' = {}
        BY <1>1, <3>4, <3>5, <3>6, ProceedParentJobs
      <4>2. QED
        BY <4>1 DEF Normal
    <3>7. CASE todo = AtRecord
      <4>1. todo # <<>>
        BY <3>7 DEF AtRecord
      <4>2. ParentJobs' = ParentJobs
        BY <1>1, <4>1, ProceedParentJobs
      <4>3. queue' # <<>> /\ Job'.id = Parent /\ Job'.todo = AtRecord /\ Order' = order
        BY <1>1, <3>1, <3>7, <4>1, ProceedJob
      <4>4. Spent'
        BY <4>3 DEF Spent, HeadAt
      <4>5. QED
        BY <1>1, <2>2, <3>1, <3>4, <3>5, <4>2, <4>3, <4>4 DEF Overtaken
    <3>8. QED
      BY <3>1, <3>6, <3>7
  <2>3. QED
    BY <2>1, <2>2
<1>10. QED
  BY <1>5, <1>6, <1>7, <1>8, <1>9 DEF Own

\* A step of the running job needs a job.
LEMMA JobStepRuns ==
  ASSUME MemoryOk, JobStep
  PROVE  queue # <<>>
BY DEF JobStep, GatePasses, GateCloses, Declines, Closes, ClosesQuietly, DecidesToBuy, ClaimsInVain,
       BuySettles, BuyUnanswered, Buys, BuyFails, Retreats, Arms, Counts, Records, DecidesToMirror,
       ExitCloses, ExitsAsDust, Prunes, DecidesToExit, SellSettles, Sells, SellFails, ExitAdvances,
       Deciding, Doing

\* Every step of the running job keeps the ownership.
LEMMA JobStepOwn ==
  ASSUME Types, Own, cancels <= 1, JobStep
  PROVE  Own'
<1>1. queue # <<>> /\ MemoryOk /\ Queued
  BY JobStepRuns DEF Types, MemoryOk
<1> DEFINE Ok(todo) == todo = <<>> \/ (todo \in Todos /\ CanDo(Job.id, todo))
<1>2. /\ Ok(<<>>) /\ Ok(<<"decide">>) /\ Ok(AfterSell("mirror"))
      /\ Job.id = Parent => Ok(<<"buy">>) /\ Ok(<<"retreat">>) /\ Ok(AfterBuy)
      /\ Job.id = Parent /\ kind = "dca" => Ok(<<"arm">>)
      /\ Job.id = Parent /\ kind = "copytrade" => Ok(<<"mirror">>)
      /\ Job.id # Parent => Ok(<<"prune">>)
      /\ \A leg \in {"stop", "take"} : Job.id # Parent => Ok(<<leg>>) /\ Ok(AfterSell(leg))
  BY <1>1, MayContinue
<1>3. /\ Order \in ObjectType /\ Claiming \in ObjectType /\ Counted \in ObjectType
      /\ [Order EXCEPT !.done = TRUE] \in ObjectType
      /\ [Order EXCEPT !.curves = @ \ {Job.curve}] \in ObjectType
      /\ \A leg : ExitAfter(leg) \in ObjectType
      /\ Job.curve \in Curves /\ Job.id \in Ids
  BY <1>1, OrderIs
<1>4. ASSUME NEW step \in {"arm", "count", "stopped", "taken", "prune"}, Doing(step)
      PROVE  Ok(Tail(Job.todo))
  BY <1>1, <1>4, TailContinues
<1>5. /\ Parent \in Ids /\ Job.curve # Parent /\ \A c \in Curves : c # Parent
  BY <1>3, Constants
<1>6. /\ Claiming.done = Order.done /\ (Order.done => Counted.done)
      /\ [Order EXCEPT !.done = TRUE].done
      /\ [Order EXCEPT !.curves = @ \ {Job.curve}].done = Order.done
  <2> HIDE DEF Order, Job
  <2>1. QED
    BY <1>3 DEF ObjectType, Claiming, Counted
<1>7. ASSUME NEW order \in ObjectType, NEW todo, Proceed(order, todo), Ok(todo),
             status'[Parent] = status[Parent],
             Job.id = Parent /\ Order.done => order.done, ~Spent \/ (todo = <<>> /\ order = Order)
      PROVE  Own'
  BY <1>1, <1>7, ProceedOwn
<1>8. ASSUME NEW order \in ObjectType, NEW todo, Proceed(order, todo), Ok(todo), Persist(order),
             Job.id = Parent => /\ Order.done => order.done
                                /\ Spent /\ ~Order.done => todo = <<>> /\ order = Order
                                /\ ~order.done => todo \in {<<>>, AtRecord}
      PROVE  Own'
  <2>1. \/ status'[Parent] = status[Parent]
        \/ Job.id = Parent /\ status'[Parent] = IF order.done THEN "done" ELSE "active"
    BY <1>1, <1>5, <1>8, PersistWrites
  <2>2. Spent => Job.id = Parent
    BY DEF Spent, HeadAt
  <2>3. QED
    BY <1>1, <1>8, <2>1, <2>2, ProceedOwn
<1>9. Spent => Doing("record") \/ (Doing("arm") /\ Job.todo = AtLastArm)
  BY TodoParts DEF Spent, HeadAt, Doing
<1>10. ASSUME NEW step \in {"gate", "decide", "buy", "retreat", "count", "mirror", "stop", "take",
                            "stopped", "taken", "prune"}, Doing(step)
       PROVE  ~Spent
  BY <1>9, <1>10 DEF Doing
<1>11. /\ \A f : Fault(f) /\ UNCHANGED storeVars => status' = status
       /\ UNCHANGED storeVars => status' = status
       /\ <<storeVars, chainVars, faults>>' = <<storeVars, chainVars, faults>> => status' = status
  BY DEF storeVars
<1>12. /\ Doing("buy") => Job.id = Parent
       /\ Doing("retreat") => Job.id = Parent
       /\ Doing("mirror") => Job.id = Parent /\ kind = "copytrade"
       /\ Doing("stop") => Job.id # Parent
       /\ Doing("take") => Job.id # Parent
       /\ Doing("stopped") => Job.id # Parent
       /\ Doing("taken") => Job.id # Parent
  BY <1>1, DoingIs
<1> HIDE DEF Ok
<1>20. CASE GatePasses
  BY <1>2, <1>3, <1>7, <1>10, <1>11, <1>20 DEF GatePasses
<1>21. CASE GateCloses
  <2>1. \/ status'[Parent] = status[Parent]
        \/ Job.id = Parent /\ status'[Parent] = "done"
    BY <1>3, <1>5, <1>11, <1>21 DEF GateCloses, PatchOrder, Types, StoreOk
  <2>2. ~Spent
    BY <1>10, <1>21 DEF GateCloses
  <2>3. Proceed([Order EXCEPT !.done = TRUE], <<>>)
    BY <1>21 DEF GateCloses
  <2>4. QED
    BY <1>1, <1>3, <1>6, <2>1, <2>2, <2>3, ProceedOwn
<1>22. CASE Declines
  BY <1>2, <1>3, <1>7, <1>10, <1>11, <1>22 DEF Declines
<1>23. CASE Closes
  BY <1>2, <1>3, <1>6, <1>8, <1>10, <1>23 DEF Closes, Deciding
<1>24. CASE ClosesQuietly
  BY <1>2, <1>3, <1>6, <1>7, <1>10, <1>11, <1>24 DEF ClosesQuietly, Deciding
<1>25. CASE DecidesToBuy
  BY <1>2, <1>3, <1>6, <1>7, <1>10, <1>11, <1>25 DEF DecidesToBuy, Deciding
<1>26. CASE ClaimsInVain
  BY <1>2, <1>3, <1>6, <1>7, <1>10, <1>11, <1>26 DEF ClaimsInVain, Deciding
<1>27. CASE BuySettles
  BY <1>2, <1>3, <1>7, <1>10, <1>11, <1>12, <1>27 DEF BuySettles, Buys
<1>28. CASE BuyUnanswered
  BY <1>2, <1>3, <1>7, <1>10, <1>11, <1>12, <1>28 DEF BuyUnanswered, Buys
<1>29. CASE BuyFails
  BY <1>2, <1>3, <1>7, <1>10, <1>11, <1>12, <1>29 DEF BuyFails
<1>30. CASE Retreats
  <2>1. ~Spent /\ Doing("retreat")
    BY <1>10, <1>30 DEF Retreats
  <2>2. CASE kind = "sniper"
    BY <1>2, <1>3, <1>6, <1>7, <1>11, <1>30, <2>1, <2>2 DEF Retreats
  <2>3. CASE kind = "dca"
    BY <1>2, <1>3, <1>8, <1>30, <2>1, <2>3 DEF Retreats
  <2>4. CASE kind \notin {"sniper", "dca"}
    BY <1>2, <1>3, <1>7, <1>11, <1>30, <2>1, <2>4 DEF Retreats
  <2>5. QED
    BY <2>2, <2>3, <2>4
<1>31. CASE Arms
  <2>1. status'[Parent] = status[Parent]
    BY <1>3, <1>5, <1>11, <1>31 DEF Arms, PostOrder, Types, StoreOk
  <2>2. Doing("arm") /\ Proceed(Order, Tail(Job.todo)) /\ Ok(Tail(Job.todo))
    BY <1>4, <1>31 DEF Arms
  <2>3. Spent => Tail(Job.todo) = <<>>
    BY <1>9, <2>2, TodoParts DEF Doing
  <2>4. QED
    BY <1>3, <1>7, <2>1, <2>2, <2>3
<1>32. CASE Counts
  <2>1. Doing("count") /\ Proceed(Counted, Tail(Job.todo)) /\ Persist(Counted) /\ Ok(Tail(Job.todo))
    BY <1>4, <1>32 DEF Counts
  <2>2. ~Spent /\ Tail(Job.todo) = AtRecord
    BY <1>1, <1>10, <2>1, DoingIs, TodoParts
  <2>3. QED
    BY <1>3, <1>6, <1>8, <2>1, <2>2
<1>33. CASE Records
  BY <1>2, <1>3, <1>8, <1>33 DEF Records
<1>34. CASE DecidesToMirror
  BY <1>2, <1>3, <1>7, <1>10, <1>11, <1>34 DEF DecidesToMirror, Deciding
<1>35. CASE ExitCloses
  BY <1>2, <1>3, <1>5, <1>8, <1>10, <1>35 DEF ExitCloses, Deciding
<1>36. CASE ExitsAsDust
  BY <1>2, <1>3, <1>5, <1>8, <1>10, <1>36 DEF ExitsAsDust, Deciding
<1>37. CASE Prunes
  BY <1>1, <1>3, <1>4, <1>7, <1>10, <1>37, DoingIs DEF Prunes
<1>38. ASSUME NEW leg \in {"stop", "take"}, DecidesToExit(leg) PROVE Own'
  BY <1>2, <1>3, <1>5, <1>7, <1>10, <1>11, <1>38 DEF DecidesToExit, Deciding
<1>39. ASSUME NEW leg \in {"stop", "take", "mirror"}, SellSettles(leg) PROVE Own'
  <2>1. Ok(AfterSell(leg)) /\ ~Spent
    BY <1>2, <1>10, <1>12, <1>39 DEF SellSettles, Sells
  <2>2. QED
    BY <1>3, <1>7, <1>11, <1>39, <2>1 DEF SellSettles
<1>40. ASSUME NEW leg \in {"stop", "take", "mirror"}, SellFails(leg) PROVE Own'
  BY <1>2, <1>3, <1>7, <1>10, <1>11, <1>40 DEF SellFails
<1>41. ASSUME NEW leg \in {"stopped", "taken"}, ExitAdvances(leg) PROVE Own'
  <2>1. Job.id # Parent /\ Ok(Tail(Job.todo))
    BY <1>4, <1>12, <1>41 DEF ExitAdvances
  <2>2. QED
    BY <1>3, <1>8, <1>41, <2>1 DEF ExitAdvances
<1>42. QED
  BY <1>20, <1>21, <1>22, <1>23, <1>24, <1>25, <1>26, <1>27, <1>28, <1>29, <1>30, <1>31, <1>32,
     <1>33, <1>34, <1>35, <1>36, <1>37, <1>38, <1>39, <1>40, <1>41 DEF JobStep

\* A step that leaves the memory and the status of Parent alone.
LEMMA SameOwn ==
  ASSUME Own, UNCHANGED <<brainVars, cancels>>, status'[Parent] = status[Parent]
  PROVE  Own'
BY DEF Own, Normal, Dropped, Overtaken, Single, StatusOk, ParentJobs, Spent, HeadAt, Live, InQueue,
       Order, Job, brainVars

\* The first cancel overtakes nothing.
LEMMA CancelOwn ==
  ASSUME Types, Own, cancels' <= 1, NEW id \in Ids, Cancel(id)
  PROVE  Own'
<1>1. cancels = 0 /\ cancels' = 1
  BY Constants DEF Cancel, Types, MemoryOk
<1>2. /\ status' = [status EXCEPT ![id] = "cancelled"] /\ UNCHANGED brainVars
      /\ status \in [Ids -> {"none", "active", "done", "cancelled"}] /\ Parent \in Ids
  BY DEF Cancel, CancelOrder, Types, StoreOk, Ids
<1>3. status'[Parent] \in {status[Parent], "cancelled"}
  BY <1>2
<1>4. UNCHANGED <<Normal, ParentJobs, tracked, firing>> /\ \A g : Live(Parent, g)' <=> Live(Parent, g)
  BY <1>2 DEF Normal, ParentJobs, Live, InQueue, brainVars
<1>5. ~Overtaken /\ (Dropped => Dropped')
  BY <1>1, <1>2, <1>3, <1>4 DEF Overtaken, Dropped, brainVars
<1>6. Single'
  BY <1>1, <1>4 DEF Own, Single
<1>7. StatusOk'
  BY <1>1, <1>2, <1>3, <1>4 DEF Own, StatusOk, brainVars
<1>8. QED
  BY <1>4, <1>5, <1>6, <1>7 DEF Own

\* A restart leaves no object to own.
LEMMA RestartOwn ==
  ASSUME Types, Own, Restart
  PROVE  Own'
<1>1. /\ tracked' = Untracked /\ queue' = <<>> /\ status' = status /\ cancels' = cancels
  BY DEF Restart, storeVars
<1>2. ParentJobs' = {} /\ tracked'[Parent] = 0 /\ DOMAIN queue' = {}
  BY <1>1 DEF ParentJobs, Untracked, Ids
<1>3. \A g \in 1 .. Generations : ~Live(Parent, g)'
  BY <1>2 DEF Live, InQueue
<1>4. Normal' /\ Single'
  BY <1>2 DEF Normal, Single
<1>5. StatusOk'
  BY <1>1, <1>3 DEF Own, StatusOk
<1>6. QED
  BY <1>4, <1>5 DEF Own

\* A step that only adds to the queue leaves the running job where it is.
LEMMA SameHead ==
  ASSUME queue \in Seq(JobType), queue' \in Seq(JobType), queue # <<>>,
         \A k \in DOMAIN queue : k \in DOMAIN queue' /\ queue'[k] = queue[k]
  PROVE  queue' # <<>> /\ Job' = Job
<1>1. 1 \in DOMAIN queue /\ Head(queue) = queue[1]
  OBVIOUS
<1>2. 1 \in DOMAIN queue' /\ queue'[1] = queue[1]
  BY <1>1
<1>3. Head(queue') = queue'[1] /\ queue' # <<>>
  BY <1>2
<1>4. QED
  BY <1>1, <1>2, <1>3 DEF Job

\* The sync lets the running job go on, and starts none in the middle.
LEMMA SyncHead ==
  ASSUME Types, Sync
  PROVE  /\ queue # <<>> => queue' # <<>> /\ Job' = Job /\ Order' = Order
         /\ queue = <<>> /\ queue' # <<>> => Job'.todo = AtGate
<1>1. queue \in Seq(JobType) /\ Queued /\ MemoryOk
  BY DEF Types, MemoryOk, Queued
<1>2. /\ queue' \in Seq(JobType)
      /\ \A k \in DOMAIN queue : k \in DOMAIN queue' /\ queue'[k] = queue[k]
      /\ \A k \in DOMAIN queue' \ DOMAIN queue : queue'[k].todo = AtGate
  BY SyncDoes
<1>3. ASSUME queue # <<>> PROVE queue' # <<>> /\ Job' = Job /\ Order' = Order
  <2>1. queue' # <<>> /\ Job' = Job
    BY <1>1, <1>2, <1>3, SameHead
  <2>2. /\ Job.id \in Ids /\ Job.generation \in 1 .. Generations
        /\ 1 \in DOMAIN queue /\ queue[1] = Job
    BY <1>1, <1>3, OrderIs, JobIs
  <2>3. PICK id \in Ids, g \in 1 .. Generations : id = Job.id /\ g = Job.generation
    BY <2>2
  <2>4. InQueue(id, g, queue) /\ Live(id, g)'
    <3>1. 1 \in DOMAIN queue' /\ queue'[1] = Job
      BY <1>2, <2>2
    <3>2. QED
      BY <2>2, <2>3, <3>1 DEF Live, InQueue
  <2>5. ~(Loaded(id) /\ g = tracked'[id])
    BY <2>4, SyncDoes DEF Loaded
  <2>6. objects'[id][g] = objects[id][g]
    BY <2>4, <2>5, SyncDoes
  <2>7. QED
    BY <2>1, <2>3, <2>6 DEF Order
<1>4. ASSUME queue = <<>>, queue' # <<>> PROVE Job'.todo = AtGate
  <2>1. 1 \in DOMAIN queue' /\ 1 \notin DOMAIN queue /\ Head(queue') = queue'[1]
    BY <1>2, <1>4
  <2>2. QED
    BY <1>2, <2>1 DEF Job
<1>5. QED
  BY <1>3, <1>4

\* The sync wakes exits only.
LEMMA SyncParentJobs ==
  ASSUME Types, Sync
  PROVE  /\ ParentJobs' = ParentJobs
         /\ \A k \in ParentJobs : queue'[k] = queue[k] /\ queue[k].generation \in 1 .. Generations
<1>1. /\ \A k \in DOMAIN queue : k \in DOMAIN queue' /\ queue'[k] = queue[k]
      /\ \A k \in DOMAIN queue' \ DOMAIN queue : queue'[k].id \in Curves
  BY SyncDoes
<1>2. Parent \notin Curves
  BY Constants
<1>3. \A k \in DOMAIN queue : queue[k].generation \in 1 .. Generations
  <2>1. queue \in Seq(JobType)
    BY DEF Types, MemoryOk, Queued
  <2>2. \A k \in DOMAIN queue : queue[k] \in JobType
    BY <2>1
  <2>3. QED
    BY <2>2 DEF JobType
<1>4. QED
  BY <1>1, <1>2, <1>3 DEF ParentJobs

\* The sync loads Parent only when no job of it is left, or one that has
\* written over a cancel and is about to end.
LEMMA SyncLoadsParent ==
  ASSUME Types, Own, Sync, Loaded(Parent)
  PROVE  /\ status[Parent] = "active" /\ (ParentJobs = {} \/ Overtaken)
         /\ Normal => ParentJobs = {}
         /\ ~InQueue(Parent, tracked'[Parent], queue)
<1>1. Parent \in Ids
  BY Constants
<1>2. status[Parent] = "active" /\ ~InQueue(Parent, tracked'[Parent], queue)
  BY <1>1, SyncDoes DEF Loaded
<1>3. \A k \in ParentJobs : queue[k].generation # 0
  <2>1. \A k \in ParentJobs : queue[k].generation \in 1 .. Generations
    BY SyncParentJobs
  <2>2. QED
    BY <2>1
<1>4. Normal => ParentJobs = {}
  BY <1>3 DEF Normal, Loaded
<1>5. QED
  BY <1>2, <1>4 DEF Own, Dropped

\* The sync drops Parent or loads it when nobody else has it.
LEMMA SyncOwn ==
  ASSUME Types, Own, Sync, cancels <= 1
  PROVE  Own'
<1>1. /\ status' = status /\ cancels' = cancels /\ Parent \in Ids
      /\ \/ tracked'[Parent] = tracked[Parent] /\ (tracked[Parent] = 0 \/ status[Parent] = "active")
         \/ tracked'[Parent] = 0 /\ status[Parent] # "active"
         \/ Loaded(Parent)
  BY SyncDoes, Constants DEF storeVars
<1>2. /\ ParentJobs' = ParentJobs
      /\ \A k \in ParentJobs : queue'[k] = queue[k] /\ queue[k].generation \in 1 .. Generations
  BY SyncParentJobs
<1>3. Overtaken => Overtaken'
  <2> SUFFICES ASSUME Overtaken PROVE Overtaken'
    OBVIOUS
  <2>1. queue # <<>> /\ queue' # <<>> /\ Job' = Job /\ Order' = Order
    BY SyncHead DEF Overtaken, Spent, HeadAt
  <2>2. Spent' /\ ~Order'.done
    BY <2>1 DEF Overtaken, Spent, HeadAt
  <2>3. \A k \in ParentJobs \ {1} : queue[k].generation = tracked'[Parent]
    <3>1. \A k \in ParentJobs \ {1} : queue[k].generation = tracked[Parent] /\ tracked[Parent] # 0
      BY <1>2 DEF Overtaken
    <3>2. status[Parent] = "active"
      BY DEF Overtaken
    <3>3. QED
      BY <1>1, <3>1, <3>2 DEF Loaded
  <2>4. QED
    BY <1>1, <1>2, <2>2, <2>3 DEF Overtaken
<1>4. Normal => Normal' \/ Dropped'
  <2> SUFFICES ASSUME Normal PROVE Normal' \/ Dropped'
    OBVIOUS
  <2>1. CASE tracked'[Parent] = tracked[Parent]
    BY <1>2, <2>1 DEF Normal
  <2>2. CASE tracked'[Parent] = 0 /\ status[Parent] # "active"
    BY <1>1, <1>2, <2>2 DEF Normal, Dropped
  <2>3. CASE Loaded(Parent)
    <3>1. ParentJobs = {}
      BY <2>3, SyncLoadsParent
    <3>2. QED
      BY <1>2, <3>1 DEF Normal
  <2>4. QED
    BY <1>1, <2>1, <2>2, <2>3
<1>5. Dropped => Dropped'
  <2> SUFFICES ASSUME Dropped PROVE Dropped'
    OBVIOUS
  <2>1. tracked'[Parent] = 0
    BY <1>1, SyncLoadsParent DEF Dropped
  <2>2. QED
    BY <1>1, <1>2, <2>1 DEF Dropped
<1>6. Single'
  <2>1. SUFFICES ASSUME cancels = 0 \/ status[Parent] = "cancelled"
                 PROVE  /\ \A j, k \in ParentJobs' : j = k
                        /\ tracked'[Parent] # 0 /\ ParentJobs' # {} => Parent \in firing'
    BY <1>1 DEF Single
  <2>2. /\ \A j, k \in ParentJobs : j = k
        /\ tracked[Parent] # 0 /\ ParentJobs # {} => Parent \in firing
    BY <2>1 DEF Own, Single
  <2>3. ASSUME tracked'[Parent] # 0, ParentJobs # {} PROVE Parent \in firing'
    <3>1. ~Loaded(Parent)
      <4>1. SUFFICES ASSUME Loaded(Parent) PROVE FALSE
        OBVIOUS
      <4>2. Overtaken
        BY <2>3, <4>1, SyncLoadsParent
      <4>3. QED
        BY <2>1, <4>2 DEF Overtaken
    <3>2. Parent \in firing
      BY <1>1, <2>2, <2>3, <3>1 DEF Loaded
    <3>3. QED
      BY <1>1, <2>3, <3>2, SyncDoes
  <2>4. QED
    BY <1>2, <2>2, <2>3
<1>7. StatusOk'
  <2>1. ASSUME status[Parent] = "done", NEW g \in 1 .. Generations, Live(Parent, g)'
        PROVE  objects'[Parent][g].done
    <3>1. ~Loaded(Parent)
      BY <2>1, SyncLoadsParent
    <3>2. Live(Parent, g) /\ objects'[Parent][g] = objects[Parent][g]
      BY <1>1, <2>1, <3>1, SyncDoes
    <3>3. QED
      BY <2>1, <3>2 DEF Own, StatusOk
  <2>2. QED
    BY <1>1, <2>1 DEF Own, StatusOk
<1>8. QED
  BY <1>3, <1>4, <1>5, <1>6, <1>7 DEF Own

\* A wake lets the running job go on, and starts none in the middle.
LEMMA WakeHead ==
  ASSUME Types, NEW id \in Ids, NEW c \in Curves, Wake(id, c)
  PROVE  /\ queue # <<>> => queue' # <<>> /\ Job' = Job /\ Order' = Order
         /\ queue = <<>> /\ queue' # <<>> => Job'.todo = AtGate
<1>1. /\ queue \in Seq(JobType) /\ queue' \in Seq(JobType) /\ objects' = objects
      /\ \A k \in DOMAIN queue : k \in DOMAIN queue' /\ queue'[k] = queue[k]
      /\ Len(queue) + 1 \in DOMAIN queue' /\ queue'[Len(queue) + 1] = NewJob(id, tracked[id], c)
  BY WakeDoes DEF Types, MemoryOk, Queued
<1>2. ASSUME queue # <<>> PROVE queue' # <<>> /\ Job' = Job /\ Order' = Order
  BY <1>1, <1>2, SameHead DEF Order
<1>3. ASSUME queue = <<>> PROVE Job'.todo = AtGate
  <2>1. Len(queue) = 0 /\ Head(queue') = queue'[1]
    BY <1>1, <1>3
  <2>2. QED
    BY <1>1, <2>1 DEF Job, NewJob, AtGate
<1>4. QED
  BY <1>2, <1>3

\* A wake gives Parent a job of the object that is tracked.
LEMMA WakeOwn ==
  ASSUME Types, Own, cancels <= 1, NEW id \in Ids, NEW c \in Curves, Wake(id, c)
  PROVE  Own'
<1>1. /\ status' = status /\ cancels' = cancels /\ tracked' = tracked /\ objects' = objects
      /\ firing' = firing \cup {id} /\ id \notin firing
      /\ tracked[id] # 0
      /\ \A k \in DOMAIN queue' : k \in DOMAIN queue \/ k = Len(queue) + 1
      /\ \A k \in DOMAIN queue : k \in DOMAIN queue' /\ queue'[k] = queue[k]
      /\ Len(queue) + 1 \in DOMAIN queue' /\ Len(queue) + 1 \notin DOMAIN queue
      /\ queue'[Len(queue) + 1].id = id /\ queue'[Len(queue) + 1].generation = tracked[id]
      /\ \A g \in 1 .. Generations : Live(Parent, g)' <=> Live(Parent, g)
  <2>1. /\ UNCHANGED <<storeVars, objects, tracked, cancels>>
        /\ firing' = firing \cup {id} /\ id \notin firing /\ tracked[id] \in 1 .. Generations
    BY WakeDoes
  <2>2. /\ DOMAIN queue' = 1 .. Len(queue) + 1 /\ Len(queue) \in Nat /\ DOMAIN queue = 1 .. Len(queue)
        /\ \A k \in DOMAIN queue : k \in DOMAIN queue' /\ queue'[k] = queue[k]
        /\ queue'[Len(queue) + 1] = NewJob(id, tracked[id], c)
    BY WakeDoes
  <2>3. \A g \in 1 .. Generations : Live(Parent, g)' <=> Live(Parent, g)
    BY WakeDoes, Constants
  <2>4. /\ \A k \in DOMAIN queue' : k \in DOMAIN queue \/ k = Len(queue) + 1
        /\ Len(queue) + 1 \in DOMAIN queue' /\ Len(queue) + 1 \notin DOMAIN queue
    BY <2>2
  <2>5. NewJob(id, tracked[id], c).id = id /\ NewJob(id, tracked[id], c).generation = tracked[id]
    BY DEF NewJob
  <2>6. tracked[id] # 0
    BY <2>1
  <2>7. QED
    BY <2>1, <2>2, <2>3, <2>4, <2>5, <2>6 DEF storeVars
<1>2. /\ \A k \in ParentJobs' : \/ k \in ParentJobs /\ queue'[k] = queue[k]
                                \/ id = Parent /\ queue'[k].generation = tracked[Parent] /\ k = Len(queue) + 1
      /\ id # Parent => ParentJobs' = ParentJobs
  BY <1>1 DEF ParentJobs
<1>3. Normal => Normal'
  BY <1>1, <1>2 DEF Normal
<1>4. Dropped => Dropped'
  BY <1>1, <1>2 DEF Dropped
<1>5. Overtaken => Overtaken'
  <2> SUFFICES ASSUME Overtaken PROVE Overtaken'
    OBVIOUS
  <2>1. queue # <<>> /\ queue' # <<>> /\ Job' = Job /\ Order' = Order
    BY WakeHead DEF Overtaken, Spent, HeadAt
  <2>2. Spent' /\ ~Order'.done
    BY <2>1 DEF Overtaken, Spent, HeadAt
  <2>3. QED
    BY <1>1, <1>2, <2>2 DEF Overtaken
<1>6. Single'
  BY <1>1, <1>2 DEF Own, Single
<1>7. StatusOk'
  BY <1>1 DEF Own, StatusOk
<1>8. QED
  BY <1>3, <1>4, <1>5, <1>6, <1>7 DEF Own

\* The brain starts without objects.
LEMMA InitOwn ==
  ASSUME Init
  PROVE  Own
<1>1. status[Parent] = "active" /\ DOMAIN queue = {}
  BY DEF Init, StoreInit, Ids
<1>2. ParentJobs = {}
  BY <1>1 DEF ParentJobs
<1>3. QED
  BY <1>1, <1>2 DEF Own, Normal, Single, StatusOk

\* A cancel counts, and Parent stays what it is.
LEMMA CancelsGrow ==
  ASSUME Types, [Next]_vars
  PROVE  kind' = kind /\ (cancels' <= 1 => cancels <= 1)
<1>1. kind' = kind /\ (cancels' = cancels \/ \E id \in Ids : Cancel(id))
  <2>1. JobStep => cancels' = cancels /\ kind' = kind
    BY DEF JobStep, GatePasses, GateCloses, Declines, Closes, ClosesQuietly, DecidesToBuy,
           ClaimsInVain, BuySettles, BuyUnanswered, BuyFails, Retreats, Arms, Counts, Records,
           DecidesToMirror, ExitCloses, ExitsAsDust, Prunes, DecidesToExit, SellSettles,
           SellFails, ExitAdvances, Proceed
  <2>2. QED
    BY <2>1 DEF Next, vars, SessionCloses, Graduates, Restart, Sync, Wake, Cancel
<1>2. cancels \in Nat /\ (cancels' = cancels \/ cancels' = cancels + 1)
  BY <1>1 DEF Cancel, Types, MemoryOk
<1>3. QED
  BY <1>1, <1>2

\* With one cancel at most, every step keeps the ownership.
LEMMA NextOwn ==
  ASSUME Types, Own, cancels' <= 1, [Next]_vars
  PROVE  Own'
<1>1. cancels <= 1
  BY CancelsGrow
<1>2. CASE UNCHANGED vars
  <2>1. UNCHANGED <<brainVars, cancels>> /\ status'[Parent] = status[Parent]
    BY <1>2 DEF vars
  <2>2. QED
    BY <1>1, <2>1, SameOwn
<1>3. CASE SessionCloses \/ \E c \in Curves : Graduates(c)
  <2>1. UNCHANGED <<brainVars, cancels>> /\ status'[Parent] = status[Parent]
    BY <1>3 DEF SessionCloses, Graduates, storeVars
  <2>2. QED
    BY <1>1, <2>1, SameOwn
<1>4. QED
  BY <1>1, <1>2, <1>3, CancelOwn, RestartOwn, SyncOwn, WakeOwn, JobStepOwn DEF Next

---------------------------------------------------------------------------
(* The buys against the budget *)

\* What the faults may cost, and the buy that is on its way into the count.
Slack == faults["answer"] + faults["write"] + faults["crash"]
Late == IF Uncounted THEN 1 ELSE 0

\* No count of Parent, in the row or in an object, is behind the buys by more
\* than the slack, and a buy begins below the budget.
Told(count) == TotalBought <= count + Slack + Late

Progress ==
    /\ TotalBought <= Budget + Slack
    /\ Told(saved[Parent].count)
    /\ \A g \in 1 .. Generations : Live(Parent, g) => Told(objects[Parent][g].count)
    /\ HeadAt(Parent, {AtBuy}) => Order.count < Budget

\* The same of a sniper's claims: a curve outside them has been bought by the
\* slack at most, and a buy begins on a claim.
Once(c, curves) == bought[c] <= Slack + IF c \in curves THEN 1 ELSE 0

Snipes ==
    /\ \A c \in Curves : Once(c, saved[Parent].curves \cup IF Uncounted THEN {Job.curve} ELSE {})
    /\ \A g \in 1 .. Generations : Live(Parent, g) =>
          \A c \in Curves : Once(c, objects[Parent][g].curves)
    /\ HeadAt(Parent, {AtBuy, AtRetreat}) => bought[Job.curve] <= Slack
    /\ HeadAt(Parent, {AtBuy}) => Job.curve \in Order.curves

Paced == Progress /\ (kind = "sniper" => Snipes)

\* Each fault that counts against the budget adds one to the slack.
LEMMA SlackIs ==
  ASSUME FaultsOk
  PROVE  /\ Slack \in Nat
         /\ faults' = faults => Slack' = Slack
         /\ \A f \in {"answer", "write", "crash"} : Fault(f) => Slack' = Slack + 1
         /\ Fault("arm") => Slack' = Slack
<1>1. /\ faults["answer"] \in Nat /\ faults["write"] \in Nat /\ faults["crash"] \in Nat
      /\ {"answer", "write", "arm", "crash"} = Faults
  BY Constants DEF FaultsOk, Faults
<1>2. ASSUME NEW f \in Faults, Fault(f)
      PROVE  /\ faults'[f] = faults[f] + 1
             /\ \A e \in Faults : e # f => faults'[e] = faults[e]
  BY <1>2, FaultCounts
<1>3. ASSUME Fault("answer") PROVE Slack' = Slack + 1
  <2>1. /\ faults'["answer"] = faults["answer"] + 1
        /\ faults'["write"] = faults["write"] /\ faults'["crash"] = faults["crash"]
    BY <1>1, <1>2, <1>3
  <2>2. QED
    BY <1>1, <2>1 DEF Slack
<1>4. ASSUME Fault("write") PROVE Slack' = Slack + 1
  <2>1. /\ faults'["write"] = faults["write"] + 1
        /\ faults'["answer"] = faults["answer"] /\ faults'["crash"] = faults["crash"]
    BY <1>1, <1>2, <1>4
  <2>2. QED
    BY <1>1, <2>1 DEF Slack
<1>5. ASSUME Fault("crash") PROVE Slack' = Slack + 1
  <2>1. /\ faults'["crash"] = faults["crash"] + 1
        /\ faults'["answer"] = faults["answer"] /\ faults'["write"] = faults["write"]
    BY <1>1, <1>2, <1>5
  <2>2. QED
    BY <1>1, <2>1 DEF Slack
<1>6. ASSUME Fault("arm") PROVE Slack' = Slack
  <2>1. /\ faults'["crash"] = faults["crash"]
        /\ faults'["answer"] = faults["answer"] /\ faults'["write"] = faults["write"]
    BY <1>1, <1>2, <1>6
  <2>2. QED
    BY <1>1, <2>1 DEF Slack
<1>7. Slack \in Nat /\ (faults' = faults => Slack' = Slack)
  BY <1>1 DEF Slack
<1>8. QED
  BY <1>3, <1>4, <1>5, <1>6, <1>7

\* What the first job of Parent is at after a step of the running job.
LEMMA ProceedHead ==
  ASSUME MemoryOk, queue # <<>>, NEW order, NEW todo, Proceed(order, todo)
  PROVE  \A todos : AtGate \notin todos /\ <<>> \notin todos =>
            (HeadAt(Parent, todos)' <=> Job.id = Parent /\ todo \in todos)
<1>1. CASE todo # <<>>
  <2>1. queue' # <<>> /\ Job'.id = Job.id /\ Job'.todo = todo
    BY <1>1, ProceedJob
  <2>2. QED
    BY <2>1 DEF HeadAt
<1>2. CASE todo = <<>>
  <2>1. queue' # <<>> => Job'.todo = AtGate
    BY <1>2, ProceedJob
  <2>2. QED
    BY <1>2, <2>1 DEF HeadAt
<1>3. QED
  BY <1>1, <1>2

\* Which of the todos differ.
LEMMA TodosDiffer ==
  /\ AtGate \notin {AtArm, AtCount, AtBuy, AtRetreat, AtRecord, AtLastArm, AtStopped}
  /\ <<>> \notin {AtArm, AtCount, AtBuy, AtRetreat, AtRecord, AtLastArm, AtStopped}
  /\ \A todo \in {AtDecide, AtBuy, AtRetreat, AtRecord, AtLastArm, AtMirror, AtPrune, AtLastPrune,
                  AtStop, AtTake, AtStopped, AtTaken, AtGate, <<>>} : todo \notin {AtArm, AtCount}
  /\ \A todo \in {AtDecide, AtRecord, AtLastArm, AtMirror, AtPrune, AtLastPrune, AtArm, AtCount,
                  AtStop, AtTake, AtStopped, AtTaken, AtGate, <<>>} : todo \notin {AtBuy, AtRetreat}
  /\ \A todo \in {AtDecide, AtBuy, AtRetreat, AtMirror, AtPrune, AtLastPrune, AtArm, AtCount,
                  AtStop, AtTake, AtStopped, AtTaken, AtGate, <<>>} : todo \notin {AtRecord, AtLastArm}
  /\ \A todo \in {AtDecide, AtBuy, AtRetreat, AtMirror, AtPrune, AtLastPrune, AtArm, AtCount,
                  AtStop, AtTake, AtTaken, AtGate, AtRecord, AtLastArm, <<>>} : todo # AtStopped
  /\ AtBuy # AtRetreat /\ AtRecord # AtLastArm /\ AtArm # AtCount
  BY DEF AtGate, AtDecide, AtBuy, AtRetreat, AtArm, AtCount, AtRecord, AtLastArm, AtMirror,
         AtStop, AtStopped, AtPrune, AtLastPrune, AtTake, AtTaken

\* The arithmetic of the slack: what a larger slack allows.
LEMMA SlackAllows ==
  ASSUME NEW t \in Nat, NEW n \in Nat, NEW s \in Nat, NEW r \in Nat, NEW l \in Nat
  PROVE  /\ s <= r /\ t <= n + s => t <= n + r
         /\ s + 1 <= r + l /\ t <= n + s => t + 1 <= n + r + l
         /\ s <= r /\ t <= n + s => \A m \in Nat : n < m => t + 1 <= m + r
         /\ (r = s /\ l = 1) \/ r = s + 1 => s + 1 <= r + l
  OBVIOUS

\* The numbers the budget is about are natural numbers.
LEMMA NumbersAre ==
  ASSUME Types
  PROVE  /\ TotalBought \in Nat /\ Slack \in Nat /\ Late \in {0, 1} /\ Budget \in Nat
         /\ \A c \in Curves : bought[c] \in Nat
         /\ Parent \in Ids /\ saved[Parent].count \in Nat
         /\ \A g \in 1 .. Generations : objects[Parent][g].count \in Nat
         /\ queue # <<>> => Order.count \in Nat /\ Job.curve \in Curves
<1>1. \A c \in Curves : bought[c] \in Nat
  BY DEF Types, ChainOk
<1>2. TotalBought \in Nat
  <2>1. \A s \in SUBSET Curves : Sums(bought, Curves)[s] \in Nat
    <3>1. IsFiniteSet(Curves)
      BY Constants
    <3>2. QED
      BY <1>1, <3>1, SumsNat
  <2>2. Curves \in SUBSET Curves
    OBVIOUS
  <2>3. Sums(bought, Curves)[Curves] \in Nat
    BY <2>1, <2>2, Zenon
  <2>4. DOMAIN bought = Curves
    BY DEF Types, ChainOk
  <2>5. Total(bought) = Sums(bought, Curves)[Curves]
    BY <2>4, BoughtIsSum
  <2>6. QED
    BY <2>3, <2>5 DEF TotalBought
<1>3. Slack \in Nat /\ Late \in {0, 1} /\ Budget \in Nat
  BY SlackIs, Constants DEF Types, Late
<1>4. Parent \in Ids /\ saved[Parent].count \in Nat
  BY Constants DEF Types, StoreOk, ParamsType
<1>5. \A g \in 1 .. Generations : objects[Parent][g].count \in Nat
  BY <1>4 DEF Types, MemoryOk, ObjectType
<1>6. queue # <<>> => Order.count \in Nat /\ Job.curve \in Curves
  BY OrderIs DEF Types, ObjectType
<1>7. QED
  BY <1>1, <1>2, <1>3, <1>4, <1>5, <1>6

\* A step of the running job that neither buys nor counts keeps the pace.
LEMMA ProceedPaced ==
  ASSUME Types, Types', Paced, queue # <<>>, NEW order \in ObjectType, NEW todo, Proceed(order, todo),
         bought' = bought, Slack <= Slack',
         Job.id = Parent => (todo \in {AtArm, AtCount} <=> Uncounted),
         \/ /\ saved'[Parent].count = saved[Parent].count
            /\ kind = "sniper" => saved'[Parent].curves = saved[Parent].curves
         \/ /\ Job.id = Parent /\ saved'[Parent].count = order.count
            /\ saved'[Parent].curves = order.curves,
         Job.id = Parent => /\ order.count = Order.count
                            /\ kind = "sniper" => \A c \in Curves : Once(c, order.curves),
         Job.id = Parent /\ todo = AtBuy => /\ order.count < Budget
                                            /\ kind = "sniper" => Job.curve \in order.curves,
         Job.id = Parent /\ kind = "sniper" /\ todo \in {AtBuy, AtRetreat} => bought[Job.curve] <= Slack
  PROVE  Paced'
<1>1. MemoryOk /\ Queued /\ objects \in [Ids -> [1 .. Generations -> ObjectType]] /\ kind' = kind
  BY DEF Types, MemoryOk, Proceed
<1>2. /\ TotalBought \in Nat /\ Slack \in Nat /\ Late \in {0, 1} /\ Budget \in Nat
      /\ \A c \in Curves : bought[c] \in Nat
      /\ Parent \in Ids /\ saved[Parent].count \in Nat
      /\ \A g \in 1 .. Generations : objects[Parent][g].count \in Nat
      /\ Order.count \in Nat /\ Job.curve \in Curves /\ order.count \in Nat
  BY NumbersAre DEF ObjectType
<1>3. TotalBought' = TotalBought /\ Slack' \in Nat
  <2>1. Slack' \in Nat
    <3>1. faults' \in [Faults -> 0 .. MaxFaults] /\ MaxFaults \in Nat
      BY Constants DEF Types, FaultsOk
    <3>2. faults'["answer"] \in Nat /\ faults'["write"] \in Nat /\ faults'["crash"] \in Nat
      BY <3>1 DEF Faults
    <3>3. QED
      BY <3>2 DEF Slack
  <2>2. QED
    BY <2>1 DEF TotalBought
<1>4. Uncounted' <=> Uncounted
  <2>1. Uncounted' <=> Job.id = Parent /\ todo \in {AtArm, AtCount}
    BY <1>1, ProceedHead, TodosDiffer DEF Uncounted
  <2>2. Uncounted => Job.id = Parent
    BY DEF Uncounted, HeadAt
  <2>3. QED
    BY <2>1, <2>2
<1>5. Late' = Late
  BY <1>4 DEF Late
<1>6. /\ HeadAt(Parent, {AtBuy})' <=> Job.id = Parent /\ todo = AtBuy
      /\ HeadAt(Parent, {AtBuy, AtRetreat})' <=> Job.id = Parent /\ todo \in {AtBuy, AtRetreat}
  BY <1>1, ProceedHead, TodosDiffer
<1>7. todo # <<>> => Order' = order /\ Job'.curve = Job.curve
  BY <1>1, ProceedJob
<1>8. AtBuy # <<>> /\ AtRetreat # <<>> /\ AtArm # <<>> /\ AtCount # <<>>
  BY TodosDiffer
<1>9. ASSUME NEW g \in 1 .. Generations, Live(Parent, g)'
      PROVE  /\ Live(Parent, g)
             /\ objects'[Parent][g] = IF Parent = Job.id /\ g = Job.generation THEN order
                                      ELSE objects[Parent][g]
  BY <1>1, <1>2, <1>9, ProceedObjects
<1>10. /\ Live(Job.id, Job.generation) /\ Order = objects[Job.id][Job.generation]
       /\ Job.generation \in 1 .. Generations
  BY <1>1, OrderIs
<1>11. Job.id = Parent => Told(Order.count)
  BY <1>10 DEF Paced, Progress
<1>12. \A n \in Nat : Told(n) => Told(n)'
  BY <1>2, <1>3, <1>5 DEF Told
<1>13. Progress'
  <2>1. TotalBought' <= Budget + Slack'
    BY <1>2, <1>3 DEF Paced, Progress
  <2>2. Told(saved'[Parent].count)
    BY <1>11 DEF Paced, Progress
  <2>3. Told(saved[Parent].count)'
    <3>1. saved'[Parent].count \in Nat
      BY <1>2
    <3>2. QED
      BY <1>3, <1>5, <1>2, <2>2, <3>1 DEF Told
  <2>4. ASSUME NEW g \in 1 .. Generations, Live(Parent, g)'
        PROVE  Told(objects[Parent][g].count)'
    <3>1. Told(objects'[Parent][g].count) /\ objects'[Parent][g].count \in Nat
      BY <1>2, <1>9, <1>11, <2>4 DEF Paced, Progress
    <3>2. QED
      BY <1>2, <1>3, <1>5, <3>1 DEF Told
  <2>5. HeadAt(Parent, {AtBuy})' => Order'.count < Budget
    BY <1>6, <1>7, <1>8
  <2>6. QED
    BY <2>1, <2>3, <2>4, <2>5 DEF Progress
<1>14. ASSUME kind = "sniper" PROVE Snipes'
  <2>1. \A c \in Curves : \A S, R : Once(c, S) /\ S \subseteq R =>
            bought'[c] <= Slack' + IF c \in R THEN 1 ELSE 0
    BY <1>2, <1>3 DEF Once
  <2>2. ASSUME NEW c \in Curves
        PROVE  Once(c, saved[Parent].curves \cup IF Uncounted THEN {Job.curve} ELSE {})'
    <3>1. CASE saved'[Parent].curves = saved[Parent].curves
      <4>1. Once(c, saved[Parent].curves \cup IF Uncounted THEN {Job.curve} ELSE {})
        BY <1>14 DEF Paced, Snipes
      <4>2. (IF Uncounted' THEN {Job'.curve} ELSE {}) = (IF Uncounted THEN {Job.curve} ELSE {})
        <5>1. Uncounted' => todo # <<>>
          <6>1. Uncounted' => Job.id = Parent /\ todo \in {AtArm, AtCount}
            BY <1>1, ProceedHead, TodosDiffer DEF Uncounted
          <6>2. QED
            BY <1>8, <6>1
        <5>2. QED
          BY <1>4, <1>7, <5>1
      <4>3. QED
        BY <2>1, <3>1, <4>1, <4>2 DEF Once
    <3>2. CASE Job.id = Parent /\ saved'[Parent].curves = order.curves
      BY <1>14, <2>1, <3>2 DEF Once
    <3>3. QED
      BY <1>14, <3>1, <3>2
  <2>3. ASSUME NEW g \in 1 .. Generations, Live(Parent, g)', NEW c \in Curves
        PROVE  Once(c, objects[Parent][g].curves)'
    <3>1. Once(c, objects'[Parent][g].curves)
      BY <1>9, <1>14, <2>3 DEF Paced, Snipes
    <3>2. QED
      BY <2>1, <3>1 DEF Once
  <2>4. HeadAt(Parent, {AtBuy, AtRetreat})' => bought'[Job'.curve] <= Slack'
    BY <1>2, <1>3, <1>6, <1>7, <1>8, <1>14
  <2>5. HeadAt(Parent, {AtBuy})' => Job'.curve \in Order'.curves
    BY <1>6, <1>7, <1>8, <1>14
  <2>6. QED
    BY <2>2, <2>3, <2>4, <2>5 DEF Snipes
<1>15. QED
  BY <1>1, <1>13, <1>14 DEF Paced

\* A buy of Parent begins within the budget and on its only object, so that
\* it cannot be one too many, landed or unanswered.
LEMMA BuysPaced ==
  ASSUME Types, Types', Own, Paced, kind # "copytrade", BuySettles \/ BuyUnanswered
  PROVE  Paced'
<1>1. /\ MemoryOk /\ Queued /\ queue # <<>> /\ Doing("buy") /\ Buys
      /\ objects \in [Ids -> [1 .. Generations -> ObjectType]]
      /\ kind \in {"sniper", "dca", "autopilot"}
  BY Constants DEF Types, MemoryOk, BuySettles, BuyUnanswered, Buys, Doing
<1>2. Job.todo = AtBuy /\ Job.id = Parent
  BY <1>1, DoingIs
<1>3. HeadAt(Parent, {AtBuy}) /\ HeadAt(Parent, {AtBuy, AtRetreat}) /\ ~Uncounted /\ Late = 0
  BY <1>1, <1>2, TodosDiffer DEF HeadAt, Uncounted, Late
<1>4. /\ TotalBought \in Nat /\ Slack \in Nat /\ Budget \in Nat
      /\ \A c \in Curves : bought[c] \in Nat
      /\ Parent \in Ids /\ saved[Parent].count \in Nat
      /\ \A g \in 1 .. Generations : objects[Parent][g].count \in Nat
      /\ Order.count \in Nat /\ Job.curve \in Curves
  BY <1>1, NumbersAre
<1>5. /\ bought' = [bought EXCEPT ![Job.curve] = @ + 1] /\ saved' = saved /\ kind' = kind
      /\ Order \in ObjectType
  BY <1>1, OrderIs DEF Buys, BuySettles, BuyUnanswered, storeVars, Proceed
<1>6. /\ TotalBought' = TotalBought + 1
      /\ bought'[Job.curve] = bought[Job.curve] + 1
      /\ \A c \in Curves : c # Job.curve => bought'[c] = bought[c]
  <2>1. bought \in [Curves -> Nat]
    BY DEF Types, ChainOk
  <2>2. Total([bought EXCEPT ![Job.curve] = @ + 1]) = Total(bought) + 1
    BY <1>4, <2>1, OneMore
  <2>3. Total(bought') = Total(bought) + 1
    BY <1>5, <2>2, Zenon
  <2>4. QED
    BY <1>4, <1>5, <2>1, <2>3 DEF TotalBought
<1>7. Live(Job.id, Job.generation) /\ Order = objects[Job.id][Job.generation] /\ Job.generation \in 1 .. Generations
  BY <1>1, OrderIs
<1>8. Order.count < Budget /\ TotalBought <= Order.count + Slack
  BY <1>2, <1>3, <1>4, <1>7 DEF Paced, Progress, Told
<1>9. kind = "sniper" => bought[Job.curve] <= Slack /\ Job.curve \in Order.curves
  BY <1>3 DEF Paced, Snipes
<1>10. PICK todo \in {AfterBuy, AtBuy, AtRetreat} :
          /\ Proceed(Order, todo)
          /\ todo = AfterBuy => (BuySettles /\ Slack' = Slack) \/ Slack' = Slack + 1
          /\ todo # AfterBuy => Slack' = Slack + 1
  <2>1. CASE BuySettles
    <3>1. Slack' = Slack /\ Proceed(Order, AfterBuy)
      BY <2>1, SlackIs DEF BuySettles, Types
    <3>2. QED
      BY <2>1, <3>1
  <2>2. CASE BuyUnanswered
    <3>1. Slack' = Slack + 1
      BY <2>2, SlackIs DEF BuyUnanswered, Types
    <3>2. Proceed(Order, AtBuy) \/ Proceed(Order, AtRetreat)
      BY <2>2 DEF BuyUnanswered, AtBuy, AtRetreat
    <3>3. QED
      BY <3>1, <3>2
  <2>3. QED
    BY <2>1, <2>2
<1>11. AfterBuy \in {AtArm, AtCount} /\ todo # <<>>
  <2>1. AfterBuy \in {AtArm, AtCount}
    BY <1>1 DEF AfterBuy, AtArm, AtCount
  <2>2. QED
    BY <2>1, TodosDiffer
<1>12. /\ Uncounted' <=> todo = AfterBuy
       /\ HeadAt(Parent, {AtBuy})' <=> todo = AtBuy
       /\ queue' # <<>> /\ Job'.curve = Job.curve /\ Order' = Order
  <2>1. Uncounted' <=> todo \in {AtArm, AtCount}
    BY <1>1, <1>2, <1>10, ProceedHead, TodosDiffer DEF Uncounted
  <2>2. HeadAt(Parent, {AtBuy})' <=> todo = AtBuy
    BY <1>1, <1>2, <1>10, ProceedHead, TodosDiffer
  <2>3. queue' # <<>> /\ Job'.curve = Job.curve /\ Order' = Order
    BY <1>1, <1>10, <1>11, ProceedJob
  <2>4. QED
    BY <1>11, <2>1, <2>2, <2>3, TodosDiffer
<1>13. ASSUME NEW g \in 1 .. Generations, Live(Parent, g)'
       PROVE  objects'[Parent][g] = Order /\ g = Job.generation
  <2>1. Live(Parent, g)
    BY <1>1, <1>4, <1>10, <1>13, ProceedObjects
  <2>2. ~Overtaken
    BY <1>2, TodosDiffer DEF Overtaken, Spent, HeadAt
  <2>3. g = Job.generation
    BY <1>1, <1>2, <1>7, <2>1, <2>2, OneOwner DEF Own
  <2>4. QED
    BY <1>1, <1>2, <1>4, <1>10, <1>13, <2>3, ProceedObjects
<1>14. /\ Slack' \in Nat /\ Late' \in Nat /\ Slack <= Slack'
       /\ Slack + 1 <= Slack' + Late'
       /\ Uncounted' \/ Slack' = Slack + 1
  <2>1. Slack \in Nat /\ Slack' \in {Slack, Slack + 1}
    BY <1>4, <1>10
  <2>2. Slack' \in Nat /\ Slack <= Slack'
    BY ONLY <2>1
  <2>3. Late' \in Nat /\ (Uncounted' => Late' = 1)
    BY DEF Late
  <2>4. Uncounted' \/ Slack' = Slack + 1
    BY <1>10, <1>12
  <2>5. Late' = 1 \/ Slack' = Slack + 1
    BY <2>3, <2>4
  <2>6. Late' \in Nat
    BY <2>3
  <2>7. Slack + 1 <= Slack' + Late'
    BY ONLY <2>1, <2>2, <2>5, <2>6, SlackAllows
  <2>8. QED
    BY <2>2, <2>4, <2>6, <2>7
<1>15. Progress'
  <2>1. TotalBought' <= Budget + Slack'
    <3>1. /\ TotalBought \in Nat /\ Slack \in Nat /\ Slack' \in Nat /\ Budget \in Nat
          /\ Order.count \in Nat /\ Slack <= Slack'
          /\ TotalBought' = TotalBought + 1
          /\ Order.count < Budget /\ TotalBought <= Order.count + Slack
      BY <1>4, <1>6, <1>8, <1>14
    <3>2. QED
      BY ONLY <3>1, SlackAllows
  <2>3. ASSUME NEW n \in Nat, TotalBought <= n + Slack
        PROVE  TotalBought + 1 <= n + Slack' + Late'
    <3>1. /\ TotalBought \in Nat /\ Slack \in Nat /\ Slack' \in Nat /\ Late' \in Nat
          /\ Slack + 1 <= Slack' + Late'
      BY <1>4, <1>14
    <3>2. QED
      BY ONLY <2>3, <3>1, SlackAllows
  <2>4. TotalBought <= saved[Parent].count + Slack
    BY <1>3, <1>4 DEF Paced, Progress, Told
  <2>5. Told(saved[Parent].count)'
    BY <1>4, <1>5, <1>6, <2>3, <2>4 DEF Told
  <2>6. ASSUME NEW g \in 1 .. Generations, Live(Parent, g)'
        PROVE  Told(objects[Parent][g].count)'
    <3>1. objects'[Parent][g].count = Order.count
      BY <1>13, <2>6
    <3>2. QED
      BY <1>4, <1>6, <1>8, <2>3, <3>1 DEF Told
  <2>7. HeadAt(Parent, {AtBuy})' => Order'.count < Budget
    BY <1>8, <1>12
  <2>8. QED
    BY <2>1, <2>5, <2>6, <2>7 DEF Progress
<1>16. ASSUME kind = "sniper" PROVE Snipes'
  <2>1. ASSUME NEW c \in Curves
        PROVE  Once(c, saved[Parent].curves \cup IF Uncounted THEN {Job.curve} ELSE {})'
    <3>1. bought[c] <= Slack + IF c \in saved[Parent].curves THEN 1 ELSE 0
      BY <1>3, <1>16 DEF Paced, Snipes, Once
    <3>2. CASE c = Job.curve
      <4>1. Uncounted' \/ Slack' = Slack + 1
        BY <1>10, <1>12
      <4>2. bought'[c] <= Slack + 1
        BY <1>4, <1>6, <1>9, <1>16, <3>2
      <4>3. bought'[c] <= Slack' + IF Uncounted' THEN 1 ELSE 0
        BY <1>4, <1>6, <1>14, <3>2, <4>1, <4>2
      <4>4. CASE Uncounted'
        BY <1>12, <3>2, <4>3, <4>4 DEF Once
      <4>5. CASE ~Uncounted'
        BY <1>4, <1>6, <1>14, <3>2, <4>3, <4>5 DEF Once
      <4>6. QED
        BY <4>4, <4>5
    <3>3. CASE c # Job.curve
      BY <1>4, <1>5, <1>6, <1>14, <3>1, <3>3 DEF Once
    <3>4. QED
      BY <3>2, <3>3
  <2>2. ASSUME NEW g \in 1 .. Generations, Live(Parent, g)', NEW c \in Curves
        PROVE  Once(c, objects[Parent][g].curves)'
    <3>1. objects'[Parent][g].curves = Order.curves
      BY <1>13, <2>2
    <3>2. bought[c] <= Slack + IF c \in Order.curves THEN 1 ELSE 0
      BY <1>2, <1>7, <1>16 DEF Paced, Snipes, Once
    <3>3. CASE c = Job.curve
      BY <1>4, <1>6, <1>9, <1>14, <1>16, <3>1, <3>3 DEF Once
    <3>4. CASE c # Job.curve
      BY <1>4, <1>6, <1>14, <3>1, <3>2, <3>4 DEF Once
    <3>5. QED
      BY <3>3, <3>4
  <2>3. HeadAt(Parent, {AtBuy, AtRetreat})' => bought'[Job'.curve] <= Slack'
    <3>1. HeadAt(Parent, {AtBuy, AtRetreat})' => todo \in {AtBuy, AtRetreat}
      BY <1>1, <1>10, ProceedHead, TodosDiffer
    <3>2. todo \in {AtBuy, AtRetreat} => todo # AfterBuy
      BY <1>11, TodosDiffer
    <3>3. QED
      BY <1>4, <1>6, <1>9, <1>10, <1>12, <1>16, <3>1, <3>2
  <2>4. HeadAt(Parent, {AtBuy})' => Job'.curve \in Order'.curves
    BY <1>9, <1>12, <1>16
  <2>5. QED
    BY <2>1, <2>2, <2>3, <2>4 DEF Snipes
<1>17. QED
  BY <1>5, <1>15, <1>16 DEF Paced

\* A buy that is counted in the object and in the row, or lost to the row by a
\* write that failed.
LEMMA CountsPaced ==
  ASSUME Types, Types', Own, Paced, Counts
  PROVE  Paced'
<1>1. /\ MemoryOk /\ Queued /\ queue # <<>> /\ Doing("count")
      /\ objects \in [Ids -> [1 .. Generations -> ObjectType]]
      /\ Persist(Counted) /\ Proceed(Counted, Tail(Job.todo)) /\ bought' = bought
  BY DEF Types, MemoryOk, Counts, Doing, chainVars
<1>2. Job.todo = AtCount /\ Job.id = Parent /\ Tail(Job.todo) = AtRecord
  BY <1>1, DoingIs, TodoParts
<1>3. Uncounted /\ Late = 1
  BY <1>1, <1>2, TodosDiffer DEF HeadAt, Uncounted, Late
<1>4. /\ TotalBought \in Nat /\ Slack \in Nat /\ Budget \in Nat
      /\ \A c \in Curves : bought[c] \in Nat
      /\ Parent \in Ids /\ saved[Parent].count \in Nat
      /\ Order.count \in Nat /\ Job.curve \in Curves
  BY <1>1, NumbersAre
<1>5. /\ kind' = kind /\ Order \in ObjectType /\ Counted \in ObjectType
      /\ Live(Job.id, Job.generation) /\ Order = objects[Job.id][Job.generation]
      /\ Job.generation \in 1 .. Generations
  BY <1>1, OrderIs DEF Proceed
<1>6. /\ Counted.count = Order.count + 1
      /\ kind = "sniper" => Counted.curves = Order.curves \cup {Job.curve}
  <2> HIDE DEF Order, Job
  <2>1. QED
    BY <1>5 DEF Counted, ObjectType
<1>7. \/ /\ Slack' = Slack
         /\ saved'[Parent].count = Counted.count /\ saved'[Parent].curves = Counted.curves
      \/ Slack' = Slack + 1 /\ saved' = saved
  BY <1>1, <1>2, <1>5, PersistWrites, SlackIs DEF Types
<1>8. /\ ~Uncounted' /\ ~HeadAt(Parent, {AtBuy})' /\ ~HeadAt(Parent, {AtBuy, AtRetreat})'
      /\ TotalBought' = TotalBought
  <2>1. ~Uncounted' /\ ~HeadAt(Parent, {AtBuy})' /\ ~HeadAt(Parent, {AtBuy, AtRetreat})'
    BY <1>1, <1>2, ProceedHead, TodosDiffer DEF Uncounted
  <2>2. QED
    BY <1>1, <2>1 DEF TotalBought
<1>9. Late' = 0
  BY <1>8 DEF Late
<1>10. ASSUME NEW g \in 1 .. Generations, Live(Parent, g)'
       PROVE  objects'[Parent][g] = Counted
  <2>1. Live(Parent, g)
    BY <1>1, <1>4, <1>10, ProceedObjects
  <2>2. ~Overtaken
    BY <1>2, TodosDiffer DEF Overtaken, Spent, HeadAt
  <2>3. g = Job.generation
    BY <1>1, <1>2, <1>5, <2>1, <2>2, OneOwner DEF Own
  <2>4. QED
    BY <1>1, <1>2, <1>4, <1>10, <2>3, ProceedObjects
<1>11. TotalBought <= Order.count + Slack + 1
  BY <1>2, <1>3, <1>5 DEF Paced, Progress, Told
<1>12. Slack' \in Nat /\ Slack <= Slack'
  BY <1>4, <1>7
<1>13. Progress'
  <2>1. TotalBought' <= Budget + Slack'
    <3>1. /\ TotalBought \in Nat /\ Slack \in Nat /\ Slack' \in Nat /\ Budget \in Nat
          /\ Slack <= Slack' /\ TotalBought' = TotalBought /\ TotalBought <= Budget + Slack
      BY <1>4, <1>8, <1>12 DEF Paced, Progress
    <3>2. QED
      BY ONLY <3>1, SlackAllows
  <2>2. TotalBought <= saved[Parent].count + Slack + 1
    BY <1>3 DEF Paced, Progress, Told
  <2>3. Told(saved[Parent].count)'
    BY <1>4, <1>6, <1>7, <1>8, <1>9, <1>11, <2>2 DEF Told
  <2>4. ASSUME NEW g \in 1 .. Generations, Live(Parent, g)'
        PROVE  Told(objects[Parent][g].count)'
    <3>1. objects'[Parent][g].count = Order.count + 1
      BY <1>6, <1>10, <2>4
    <3>2. QED
      BY <1>4, <1>8, <1>9, <1>11, <1>12, <3>1 DEF Told
  <2>5. QED
    BY <1>8, <2>1, <2>3, <2>4 DEF Progress
<1>14. ASSUME kind = "sniper" PROVE Snipes'
  <2>1. ASSUME NEW c \in Curves
        PROVE  bought[c] <= Slack + IF c \in Order.curves THEN 1 ELSE 0
    BY <1>2, <1>5, <1>14 DEF Paced, Snipes, Once
  <2>2. ASSUME NEW c \in Curves
        PROVE  Once(c, saved[Parent].curves \cup IF Uncounted THEN {Job.curve} ELSE {})'
    <3>1. CASE Slack' = Slack + 1 /\ saved' = saved
      <4>1. bought[c] <= Slack + 1
        <5>1. bought[c] <= Slack + IF c \in saved[Parent].curves \cup {Job.curve} THEN 1 ELSE 0
          BY <1>3, <1>14 DEF Paced, Snipes, Once
        <5>2. QED
          BY <1>4, <5>1
      <4>2. QED
        BY <1>1, <1>4, <3>1, <4>1 DEF Once
    <3>2. CASE saved'[Parent].curves = Counted.curves
      BY <1>1, <1>4, <1>6, <1>12, <1>14, <2>1, <3>2 DEF Once
    <3>3. QED
      BY <1>7, <3>1, <3>2
  <2>3. ASSUME NEW g \in 1 .. Generations, Live(Parent, g)', NEW c \in Curves
        PROVE  Once(c, objects[Parent][g].curves)'
    <3>1. objects'[Parent][g].curves = Order.curves \cup {Job.curve}
      BY <1>6, <1>10, <1>14, <2>3
    <3>2. QED
      BY <1>1, <1>4, <1>12, <2>1, <3>1 DEF Once
  <2>4. QED
    BY <1>8, <2>2, <2>3 DEF Snipes
<1>15. QED
  BY <1>5, <1>13, <1>14 DEF Paced

\* Every step of the running job keeps the pace.
LEMMA JobStepPaced ==
  ASSUME Types, Types', Own, Paced, kind # "copytrade", JobStep
  PROVE  Paced'
<1>1. queue # <<>> /\ MemoryOk /\ Queued /\ FaultsOk
  BY JobStepRuns DEF Types, MemoryOk
<1>2. /\ Order \in ObjectType /\ Claiming \in ObjectType /\ Counted \in ObjectType
      /\ [Order EXCEPT !.done = TRUE] \in ObjectType
      /\ [Order EXCEPT !.curves = @ \ {Job.curve}] \in ObjectType
      /\ \A leg : ExitAfter(leg) \in ObjectType
      /\ Job.curve \in Curves /\ Job.id \in Ids
      /\ Live(Job.id, Job.generation) /\ Order = objects[Job.id][Job.generation]
      /\ Job.generation \in 1 .. Generations
  BY <1>1, OrderIs
<1>3. Parent \in Ids /\ Job.curve # Parent
  BY <1>2, Constants
<1>4. /\ Slack \in Nat /\ \A c \in Curves : bought[c] \in Nat
      /\ faults' = faults => Slack <= Slack'
      /\ \A f \in {"answer", "write", "crash"} : Fault(f) => Slack <= Slack'
      /\ Fault("arm") => Slack <= Slack'
  <2>1. Slack \in Nat /\ \A c \in Curves : bought[c] \in Nat
    BY NumbersAre
  <2>2. \A r \in {Slack, Slack + 1} : Slack <= r
    BY <2>1
  <2>3. QED
    BY <1>1, <2>1, <2>2, SlackIs
<1>5. Job.id = Parent /\ kind = "sniper" => \A c \in Curves : Once(c, Order.curves)
  BY <1>2 DEF Paced, Snipes
<1>6. /\ [Order EXCEPT !.done = TRUE].count = Order.count
      /\ [Order EXCEPT !.done = TRUE].curves = Order.curves
      /\ Claiming.count = Order.count
      /\ kind = "sniper" => Claiming.curves = Order.curves \cup {Job.curve}
      /\ [Order EXCEPT !.curves = @ \ {Job.curve}].count = Order.count
      /\ [Order EXCEPT !.curves = @ \ {Job.curve}].curves = Order.curves \ {Job.curve}
  <2> HIDE DEF Order, Job
  <2>1. QED
    BY <1>2 DEF ObjectType, Claiming
<1>7. /\ Doing("buy") => Job.todo = AtBuy /\ Job.id = Parent
      /\ Doing("retreat") => Job.todo = AtRetreat /\ Job.id = Parent
      /\ Doing("mirror") => Job.id = Parent /\ kind = "copytrade"
      /\ Doing("stop") => Job.id # Parent
      /\ Doing("take") => Job.id # Parent
      /\ Doing("stopped") => Job.id # Parent
      /\ Doing("taken") => Job.id # Parent
      /\ Doing("prune") => Job.id # Parent
      /\ Doing("arm") => Job.id = Parent /\ Job.todo \in {AtArm, AtLastArm}
      /\ Doing("gate") => Job.todo = AtGate
      /\ Doing("decide") => Job.todo = AtDecide
      /\ Doing("record") => Job.todo = AtRecord
  BY <1>1, DoingIs
<1>8. ASSUME NEW step \in {"gate", "decide", "buy", "retreat", "record"}, Doing(step)
      PROVE  ~Uncounted
  BY <1>7, <1>8, TodosDiffer DEF Uncounted, HeadAt
\* the step leaves the row of Parent alone
<1>9. ASSUME NEW order \in ObjectType, NEW todo, Proceed(order, todo), bought' = bought, Slack <= Slack',
             saved'[Parent] = saved[Parent],
             Job.id = Parent =>
                /\ todo \in {AtArm, AtCount} <=> Uncounted
                /\ order.count = Order.count
                /\ kind = "sniper" => \A c \in Curves : Once(c, order.curves)
                /\ todo = AtBuy => order.count < Budget /\ (kind = "sniper" => Job.curve \in order.curves)
                /\ kind = "sniper" /\ todo \in {AtBuy, AtRetreat} => bought[Job.curve] <= Slack
      PROVE  Paced'
  BY <1>1, <1>9, ProceedPaced
\* or it persists an object with the progress that Order has
<1>10. ASSUME NEW order \in ObjectType, NEW todo, Proceed(order, todo), bought' = bought,
              Persist(order),
              Job.id = Parent =>
                /\ todo \notin {AtArm, AtCount, AtBuy, AtRetreat} /\ ~Uncounted
                /\ order.count = Order.count
                /\ kind = "sniper" => \A c \in Curves : Once(c, order.curves)
       PROVE  Paced'
  <2>1. Slack <= Slack'
    BY <1>1, <1>4, <1>10, PersistWrites
  <2>2. \/ saved'[Parent] = saved[Parent]
        \/ Job.id = Parent /\ saved'[Parent].count = order.count /\ saved'[Parent].curves = order.curves
    BY <1>1, <1>3, <1>10, PersistWrites
  <2>3. QED
    BY <1>1, <1>10, <2>1, <2>2, ProceedPaced
<1>11. /\ UNCHANGED storeVars => saved'[Parent] = saved[Parent]
       /\ UNCHANGED chainVars => bought' = bought
       /\ UNCHANGED <<storeVars, chainVars, faults>> =>
             saved'[Parent] = saved[Parent] /\ bought' = bought /\ Slack <= Slack'
  BY <1>4 DEF storeVars, chainVars
<1>12. /\ <<"decide">> = AtDecide /\ <<"buy">> = AtBuy /\ <<"retreat">> = AtRetreat /\ <<"mirror">> = AtMirror
       /\ AtDecide \notin {AtArm, AtCount} /\ AtBuy \notin {AtArm, AtCount} /\ AtRetreat \notin {AtArm, AtCount}
       /\ AtDecide \notin {AtBuy, AtRetreat} /\ AtBuy # AtRetreat
       /\ <<>> \notin {AtArm, AtCount, AtBuy, AtRetreat}
       /\ <<"arm">> = AtLastArm /\ AtLastArm \notin {AtArm, AtCount, AtBuy, AtRetreat}
       /\ AtCount \notin {AtBuy, AtRetreat} /\ AtCount \in {AtArm, AtCount}
  BY TodosDiffer DEF AtDecide, AtBuy, AtRetreat, AtMirror, AtLastArm
<1>20. CASE GatePasses
  BY <1>2, <1>5, <1>8, <1>9, <1>11, <1>12, <1>20 DEF GatePasses
<1>21. CASE GateCloses
  <2>1. saved'[Parent] = saved[Parent] /\ Slack <= Slack' /\ bought' = bought
    <3>1. CASE PatchOrder(Job.id, "done", saved[Job.id]) /\ UNCHANGED faults
      BY <1>2, <1>3, <1>4, <1>11, <1>21, <3>1 DEF PatchOrder, Types, StoreOk, GateCloses
    <3>2. CASE Fault("write") /\ UNCHANGED storeVars
      BY <1>4, <1>11, <1>21, <3>2 DEF GateCloses
    <3>3. QED
      BY <1>21, <3>1, <3>2 DEF GateCloses
  <2>2. Doing("gate") /\ Proceed([Order EXCEPT !.done = TRUE], <<>>)
    BY <1>21 DEF GateCloses
  <2>3. QED
    BY <1>2, <1>5, <1>6, <1>8, <1>9, <1>12, <2>1, <2>2
<1>22. CASE Declines
  BY <1>2, <1>5, <1>8, <1>9, <1>11, <1>12, <1>22 DEF Declines
<1>23. CASE Closes
  BY <1>2, <1>5, <1>6, <1>8, <1>10, <1>11, <1>12, <1>23 DEF Closes, Deciding
<1>24. CASE ClosesQuietly
  BY <1>2, <1>5, <1>6, <1>8, <1>9, <1>11, <1>12, <1>24 DEF ClosesQuietly, Deciding
<1>25. ASSUME Deciding(Parent), Buyable, kind = "sniper"
       PROVE  /\ \A c \in Curves : Once(c, Claiming.curves)
              /\ bought[Job.curve] <= Slack /\ Job.curve \in Claiming.curves
  <2>1. Job.id = Parent /\ Job.curve \notin Order.curves
    BY <1>25 DEF Deciding, Buyable
  <2>2. \A c \in Curves : bought[c] <= Slack + IF c \in Order.curves THEN 1 ELSE 0
    BY <1>5, <1>25, <2>1 DEF Once
  <2>3. bought[Job.curve] <= Slack
    BY <1>2, <1>4, <2>1, <2>2
  <2>4. QED
    BY <1>4, <1>6, <1>25, <2>2, <2>3 DEF Once
<1>26. CASE DecidesToBuy
  <2>1. /\ Proceed(Claiming, AtBuy) /\ Deciding(Parent) /\ Doing("decide") /\ Buyable
        /\ UNCHANGED <<storeVars, chainVars, faults>>
    BY <1>12, <1>26 DEF DecidesToBuy, Deciding
  <2>2. Order.count < Budget
    <3>1. kind \in {"sniper", "dca", "autopilot"}
      BY <1>1, Constants DEF MemoryOk
    <3>2. QED
      BY <2>1, <3>1 DEF Buyable, WithinBudget
  <2>3. Claiming.count = Order.count
    BY <1>6
  <2>4. QED
    BY <1>2, <1>8, <1>9, <1>11, <1>12, <1>25, <2>1, <2>2, <2>3
<1>27. CASE ClaimsInVain
  <2>1. /\ Proceed(Claiming, <<>>) /\ Deciding(Parent) /\ Doing("decide") /\ Buyable
        /\ UNCHANGED <<storeVars, chainVars, faults>>
    BY <1>27 DEF ClaimsInVain, Deciding
  <2>2. QED
    BY <1>2, <1>6, <1>8, <1>9, <1>11, <1>12, <1>25, <2>1
<1>28. CASE BuySettles \/ BuyUnanswered
  BY <1>28, BuysPaced
<1>29. CASE BuyFails
  <2>1. /\ Proceed(Order, AtRetreat) /\ Doing("buy") /\ UNCHANGED <<storeVars, chainVars, faults>>
    BY <1>12, <1>29 DEF BuyFails
  <2>2. kind = "sniper" => bought[Job.curve] <= Slack
    BY <1>1, <1>7, <2>1 DEF Paced, Snipes, HeadAt
  <2>3. QED
    BY <1>2, <1>5, <1>8, <1>9, <1>11, <1>12, <2>1, <2>2
<1>30. CASE Retreats
  <2>1. Doing("retreat") /\ bought' = bought /\ ~Uncounted
    BY <1>8, <1>11, <1>30 DEF Retreats
  <2>2. CASE kind = "sniper"
    <3>1. /\ Proceed([Order EXCEPT !.curves = @ \ {Job.curve}], <<>>)
          /\ UNCHANGED <<storeVars, chainVars, faults>>
      BY <1>30, <2>2 DEF Retreats
    <3>2. bought[Job.curve] <= Slack
      BY <1>1, <1>7, <2>1, <2>2 DEF Paced, Snipes, HeadAt
    <3>3. \A c \in Curves : Once(c, Order.curves \ {Job.curve})
      BY <1>4, <1>5, <1>7, <2>1, <2>2, <3>2 DEF Once
    <3>4. QED
      BY <1>2, <1>6, <1>9, <1>11, <1>12, <2>1, <3>1, <3>3
  <2>3. CASE kind = "dca"
    <3>1. Proceed(Order, <<>>) /\ Persist(Order)
      BY <1>30, <2>3 DEF Retreats
    <3>2. QED
      BY <1>2, <1>10, <1>12, <2>1, <2>3, <3>1
  <2>4. CASE kind \notin {"sniper", "dca"}
    <3>1. Proceed(Order, <<>>) /\ UNCHANGED <<storeVars, chainVars, faults>>
      BY <1>30, <2>4 DEF Retreats
    <3>2. QED
      BY <1>2, <1>9, <1>11, <1>12, <2>1, <2>4, <3>1
  <2>5. QED
    BY <2>2, <2>3, <2>4
<1>31. CASE Arms
  <2>1. Doing("arm") /\ Proceed(Order, Tail(Job.todo)) /\ UNCHANGED chainVars
    BY <1>31 DEF Arms
  <2>2. saved'[Parent] = saved[Parent] /\ Slack <= Slack' /\ bought' = bought
    BY <1>4, <1>11, <1>31 DEF Arms, PostOrder
  <2>3. Tail(Job.todo) \in {AtArm, AtCount} <=> Uncounted
    <3>1. CASE Job.todo = AtArm
      BY <1>1, <1>7, <1>12, <2>1, <3>1, TodoParts DEF Uncounted, HeadAt
    <3>2. CASE Job.todo = AtLastArm
      BY <1>1, <1>7, <1>12, <2>1, <3>2, TodoParts DEF Uncounted, HeadAt
    <3>3. QED
      BY <1>7, <2>1, <3>1, <3>2
  <2>4. Tail(Job.todo) \notin {AtBuy, AtRetreat}
    BY <1>7, <1>12, <2>1, TodoParts
  <2>5. QED
    BY <1>2, <1>5, <1>9, <2>1, <2>2, <2>3, <2>4
<1>32. CASE Counts
  BY <1>32, CountsPaced
<1>33. CASE Records
  <2>1. PICK todo \in {<<>>, <<"arm">>} : Proceed(Order, todo)
    BY <1>33 DEF Records
  <2>2. Doing("record") /\ Persist(Order) /\ UNCHANGED chainVars
    BY <1>33 DEF Records
  <2>3. QED
    BY <1>2, <1>5, <1>8, <1>10, <1>11, <1>12, <2>1, <2>2
<1>34. CASE DecidesToMirror
  BY <1>34 DEF DecidesToMirror
<1>35. CASE ExitCloses
  BY <1>2, <1>3, <1>10, <1>11, <1>35 DEF ExitCloses, Deciding
<1>36. CASE ExitsAsDust
  BY <1>2, <1>3, <1>10, <1>11, <1>36 DEF ExitsAsDust, Deciding
<1>37. CASE Prunes
  <2>1. /\ Job.id # Parent /\ Proceed(Order, Tail(Job.todo)) /\ bought' = bought
        /\ faults' = faults
    BY <1>7, <1>11, <1>37 DEF Prunes
  <2>2. saved \in [Ids -> ParamsType]
    BY DEF Types, StoreOk
  <2>3. /\ saved'[Parent].count = saved[Parent].count
        /\ kind = "sniper" => saved'[Parent].curves = saved[Parent].curves
    BY <1>3, <1>37, <2>2 DEF Prunes, ParamsType
  <2>4. QED
    BY <1>1, <1>2, <1>4, <2>1, <2>3, ProceedPaced
<1>38. ASSUME NEW leg \in {"stop", "take"}, DecidesToExit(leg) PROVE Paced'
  BY <1>2, <1>3, <1>9, <1>11, <1>38 DEF DecidesToExit, Deciding
<1>39. ASSUME NEW leg \in {"stop", "take", "mirror"}, SellSettles(leg) PROVE Paced'
  BY <1>2, <1>4, <1>7, <1>9, <1>11, <1>39 DEF SellSettles, Sells
<1>40. ASSUME NEW leg \in {"stop", "take", "mirror"}, SellFails(leg) PROVE Paced'
  <2>1. Job.id # Parent /\ Proceed(Order, <<>>) /\ bought' = bought
    BY <1>7, <1>11, <1>40 DEF SellFails, Sells
  <2>2. QED
    BY <1>2, <1>4, <1>9, <1>11, <1>40, <2>1 DEF SellFails
<1>41. ASSUME NEW leg \in {"stopped", "taken"}, ExitAdvances(leg) PROVE Paced'
  BY <1>2, <1>7, <1>10, <1>11, <1>41 DEF ExitAdvances
<1>42. QED
  BY <1>20, <1>21, <1>22, <1>23, <1>24, <1>26, <1>27, <1>28, <1>29, <1>30, <1>31, <1>32,
     <1>33, <1>34, <1>35, <1>36, <1>37, <1>38, <1>39, <1>40, <1>41 DEF JobStep

\* What a larger slack and a later count allow together.
LEMMA MoreAllowed ==
  ASSUME NEW t \in Nat, NEW n \in Nat, NEW s \in Nat, NEW r \in Nat, NEW l \in Nat, NEW m \in Nat,
         s + l <= r + m, t <= n + s + l
  PROVE  t <= n + r + m
  OBVIOUS

\* A step that neither buys nor writes a row keeps the pace: the objects it
\* leaves were there, or come from the row when no buy is on its way into it.
LEMMA QuietPaced ==
  ASSUME Types, Types', Paced, UNCHANGED <<saved, bought, kind>>,
         Uncounted' => Uncounted /\ Job' = Job,
         (Slack' = Slack /\ (Uncounted => Uncounted')) \/ Slack' = Slack + 1,
         \A g \in 1 .. Generations : Live(Parent, g)' =>
            \/ Live(Parent, g) /\ objects'[Parent][g] = objects[Parent][g]
            \/ ~Uncounted /\ objects'[Parent][g] = Object(FALSE, saved[Parent]),
         \A todos : todos \in {{AtBuy}, {AtBuy, AtRetreat}} /\ HeadAt(Parent, todos)' =>
            HeadAt(Parent, todos) /\ Job' = Job /\ Order' = Order
  PROVE  Paced'
<1>1. /\ TotalBought \in Nat /\ Slack \in Nat /\ Budget \in Nat
      /\ \A c \in Curves : bought[c] \in Nat
      /\ Parent \in Ids /\ saved[Parent].count \in Nat
      /\ \A g \in 1 .. Generations : objects[Parent][g].count \in Nat
  BY NumbersAre
<1>2. TotalBought' = TotalBought
  BY DEF TotalBought
<1>3. /\ Slack' \in Nat /\ Late' \in Nat /\ Late \in Nat
      /\ Slack <= Slack' /\ Slack + Late <= Slack' + Late'
  <2>1. Late \in {0, 1} /\ Late' \in {0, 1} /\ (Uncounted' => Late' = 1)
    BY DEF Late
  <2>2. (Slack' = Slack /\ Late <= Late') \/ Slack' = Slack + 1
    BY <2>1 DEF Late
  <2>3. QED
    BY ONLY <1>1, <2>1, <2>2
<1>4. ASSUME NEW n \in Nat, Told(n) PROVE Told(n)'
  <2>1. /\ TotalBought \in Nat /\ TotalBought' = TotalBought /\ Slack \in Nat /\ Slack' \in Nat
        /\ Late \in Nat /\ Late' \in Nat /\ Slack + Late <= Slack' + Late'
        /\ TotalBought <= n + Slack + Late
    BY <1>1, <1>2, <1>3, <1>4 DEF Told
  <2>2. TotalBought' <= n + Slack' + Late'
    BY ONLY <2>1, <1>4, MoreAllowed
  <2>3. QED
    BY <2>2 DEF Told
<1>5. Object(FALSE, saved[Parent]).count = saved[Parent].count
      /\ Object(FALSE, saved[Parent]).curves = saved[Parent].curves
  BY DEF Object
<1>6. Progress'
  <2>1. TotalBought' <= Budget + Slack'
    <3>1. /\ TotalBought \in Nat /\ TotalBought' = TotalBought /\ Slack \in Nat /\ Slack' \in Nat
          /\ Budget \in Nat /\ Slack <= Slack' /\ TotalBought <= Budget + Slack
      BY <1>1, <1>2, <1>3 DEF Paced, Progress
    <3>2. QED
      BY ONLY <3>1, SlackAllows
  <2>2. Told(saved[Parent].count)'
    BY <1>1, <1>4 DEF Paced, Progress
  <2>3. ASSUME NEW g \in 1 .. Generations, Live(Parent, g)'
        PROVE  Told(objects[Parent][g].count)'
    <3>1. PICK n \in Nat : n = objects'[Parent][g].count /\ Told(n)
      BY <1>1, <1>5, <2>3 DEF Paced, Progress
    <3>2. QED
      BY <1>4, <3>1
  <2>4. HeadAt(Parent, {AtBuy})' => Order'.count < Budget
    BY DEF Paced, Progress
  <2>5. QED
    BY <2>1, <2>2, <2>3, <2>4 DEF Progress
<1>7. ASSUME kind = "sniper" PROVE Snipes'
  <2>1. ASSUME NEW c \in Curves, NEW S, NEW R, Once(c, S), S \subseteq R \/ Slack' = Slack + 1
        PROVE  bought'[c] <= Slack' + IF c \in R THEN 1 ELSE 0
    BY <1>1, <1>3, <2>1 DEF Once
  <2>2. ASSUME NEW c \in Curves
        PROVE  Once(c, saved[Parent].curves \cup IF Uncounted THEN {Job.curve} ELSE {})'
    <3>1. Once(c, saved[Parent].curves \cup IF Uncounted THEN {Job.curve} ELSE {})
      BY <1>7 DEF Paced, Snipes
    <3>2. \/ Slack' = Slack + 1
          \/ saved[Parent].curves \cup (IF Uncounted THEN {Job.curve} ELSE {})
               \subseteq saved'[Parent].curves \cup (IF Uncounted' THEN {Job'.curve} ELSE {})
      OBVIOUS
    <3>3. bought'[c] <= Slack' + IF c \in saved'[Parent].curves \cup (IF Uncounted' THEN {Job'.curve} ELSE {})
                                 THEN 1 ELSE 0
      BY <2>1, <3>1, <3>2
    <3>4. QED
      BY <3>3 DEF Once
  <2>3. ASSUME NEW g \in 1 .. Generations, Live(Parent, g)', NEW c \in Curves
        PROVE  Once(c, objects[Parent][g].curves)'
    <3>1. Once(c, objects'[Parent][g].curves)
      <4>1. CASE Live(Parent, g) /\ objects'[Parent][g] = objects[Parent][g]
        BY <1>7, <4>1 DEF Paced, Snipes
      <4>2. CASE ~Uncounted /\ objects'[Parent][g] = Object(FALSE, saved[Parent])
        <5>1. Once(c, saved[Parent].curves \cup {})
          BY <1>7, <4>2 DEF Paced, Snipes
        <5>2. QED
          BY <1>5, <4>2, <5>1 DEF Once
      <4>3. QED
        BY <2>3, <4>1, <4>2
    <3>2. QED
      BY <2>1, <3>1 DEF Once
  <2>4. HeadAt(Parent, {AtBuy, AtRetreat})' => bought'[Job'.curve] <= Slack'
    <3>1. SUFFICES ASSUME HeadAt(Parent, {AtBuy, AtRetreat})' PROVE bought'[Job'.curve] <= Slack'
      OBVIOUS
    <3>2. HeadAt(Parent, {AtBuy, AtRetreat}) /\ Job' = Job
      BY <3>1
    <3>3. bought[Job.curve] <= Slack /\ Job.curve \in Curves
      BY <1>7, <3>2, NumbersAre DEF Paced, Snipes, HeadAt
    <3>4. QED
      BY <1>1, <1>3, <3>2, <3>3
  <2>5. HeadAt(Parent, {AtBuy})' => Job'.curve \in Order'.curves
    BY <1>7 DEF Paced, Snipes
  <2>6. QED
    BY <2>2, <2>3, <2>4, <2>5 DEF Snipes
<1>8. QED
  BY <1>6, <1>7 DEF Paced

\* Nothing is bought at the start.
LEMMA InitPaced ==
  ASSUME Init
  PROVE  Paced
<1>1. Types
  BY InitTypes
<1>2. bought = [c \in Curves |-> 0] /\ queue = <<>> /\ tracked[Parent] = 0 /\ DOMAIN queue = {}
  BY DEF Init, Untracked, Ids
<1>3. TotalBought = 0
  <2>1. \A c \in Curves : bought[c] \in Nat /\ bought[c] = 0
    BY <1>2
  <2>2. IsFiniteSet(Curves) /\ DOMAIN bought = Curves
    BY <1>2, Constants
  <2>3. Sums(bought, Curves)[Curves] = 0
    BY <2>1, <2>2, SumsNat
  <2>4. QED
    BY <2>2, <2>3, BoughtIsSum DEF TotalBought
<1>4. /\ Slack \in Nat /\ Budget \in Nat /\ Late \in {0, 1} /\ saved[Parent].count \in Nat
  BY <1>1, NumbersAre
<1>5. \A g \in 1 .. Generations : ~Live(Parent, g)
  BY <1>2 DEF Live, InQueue
<1>6. \A todos : ~HeadAt(Parent, todos)
  BY <1>2 DEF HeadAt
<1>7. Progress
  BY <1>3, <1>4, <1>5, <1>6 DEF Progress, Told
<1>8. Snipes
  BY <1>2, <1>4, <1>5, <1>6 DEF Snipes, Once
<1>9. QED
  BY <1>7, <1>8 DEF Paced

\* The user's cancels and what happens on the chain leave the memory alone.
LEMMA SamePaced ==
  ASSUME Types, Types', Paced, UNCHANGED <<saved, bought, kind, brainVars, faults>>
  PROVE  Paced'
<1>1. /\ Job' = Job /\ Order' = Order /\ Uncounted' = Uncounted /\ Slack' = Slack
      /\ \A g : Live(Parent, g)' <=> Live(Parent, g)
      /\ \A todos : HeadAt(Parent, todos)' <=> HeadAt(Parent, todos)
  BY DEF Job, Order, Uncounted, HeadAt, Live, InQueue, Slack, brainVars
<1>2. objects' = objects
  BY DEF brainVars
<1>3. QED
  BY <1>1, <1>2, QuietPaced

\* A restart forgets a buy on its way into the count at the price of a fault.
LEMMA RestartPaced ==
  ASSUME Types, Types', Paced, Restart
  PROVE  Paced'
<1>1. /\ tracked' = Untracked /\ queue' = <<>> /\ UNCHANGED <<storeVars, kind, chainVars>>
  BY DEF Restart
<1>2. DOMAIN queue' = {} /\ tracked'[Parent] = 0
  BY <1>1, Constants DEF Untracked
<1>3. /\ \A g \in 1 .. Generations : ~Live(Parent, g)'
      /\ \A todos : ~HeadAt(Parent, todos)'
  BY <1>1, <1>2 DEF Live, InQueue, HeadAt
<1>4. ~Uncounted'
  BY <1>3 DEF Uncounted
<1>5. Uncounted => Owing
  BY TodoParts DEF Uncounted, HeadAt, Owing, AtArm, AtCount
<1>6. (Slack' = Slack /\ ~Uncounted) \/ Slack' = Slack + 1
  <2>1. CASE Owing
    <3>1. Fault("crash") /\ FaultsOk
      BY <2>1 DEF Restart, Types
    <3>2. QED
      BY <3>1, SlackIs
  <2>2. CASE ~Owing
    <3>1. faults' = faults /\ FaultsOk
      BY <2>2 DEF Restart, Types
    <3>2. QED
      BY <1>5, <2>2, <3>1, SlackIs
  <2>3. QED
    BY <2>1, <2>2
<1>7. UNCHANGED <<saved, bought, kind>>
  BY <1>1 DEF storeVars, chainVars
<1>8. QED
  BY <1>3, <1>4, <1>6, <1>7, QuietPaced

\* The sync loads a count that is not behind.
LEMMA SyncPaced ==
  ASSUME Types, Types', Own, Paced, Sync
  PROVE  Paced'
<1>1. /\ UNCHANGED <<saved, bought, kind, faults>> /\ Parent \in Ids /\ FaultsOk
  BY SyncDoes, Constants DEF storeVars, chainVars, Types
<1>2. /\ queue # <<>> => queue' # <<>> /\ Job' = Job /\ Order' = Order
      /\ queue = <<>> /\ queue' # <<>> => Job'.todo = AtGate
  BY SyncHead
<1>3. ASSUME NEW todos, AtGate \notin todos, HeadAt(Parent, todos)'
      PROVE  HeadAt(Parent, todos) /\ Job' = Job /\ Order' = Order
  BY <1>2, <1>3 DEF HeadAt
<1>4. /\ Uncounted' => Uncounted /\ Job' = Job
      /\ Uncounted => Uncounted'
  <2>1. Uncounted' => Uncounted /\ Job' = Job
    BY <1>3, TodosDiffer DEF Uncounted
  <2>2. Uncounted => Uncounted'
    BY <1>2 DEF Uncounted, HeadAt
  <2>3. QED
    BY <2>1, <2>2
<1>5. ASSUME NEW g \in 1 .. Generations, Live(Parent, g)'
      PROVE  \/ Live(Parent, g) /\ objects'[Parent][g] = objects[Parent][g]
             \/ ~Uncounted /\ objects'[Parent][g] = Object(FALSE, saved[Parent])
  <2>1. CASE Loaded(Parent) /\ g = tracked'[Parent]
    <3>1. objects'[Parent][g] = Object(FALSE, saved[Parent])
      BY <1>1, <1>5, <2>1, SyncDoes
    <3>2. ~Uncounted
      <4>1. ParentJobs = {} \/ Overtaken
        BY <2>1, SyncLoadsParent
      <4>2. CASE Overtaken
        BY <4>2, TodosDiffer DEF Overtaken, Spent, Uncounted, HeadAt
      <4>3. CASE ParentJobs = {}
        <5>1. Uncounted => 1 \in ParentJobs
          <6>1. queue # <<>> => 1 \in DOMAIN queue /\ Job = queue[1]
            BY JobIs DEF Types, MemoryOk
          <6>2. QED
            BY <6>1 DEF Uncounted, HeadAt, ParentJobs
        <5>2. QED
          BY <4>3, <5>1
      <4>4. QED
        BY <4>1, <4>2, <4>3
    <3>3. QED
      BY <3>1, <3>2
  <2>2. CASE ~(Loaded(Parent) /\ g = tracked'[Parent])
    BY <1>1, <1>5, <2>2, SyncDoes
  <2>3. QED
    BY <2>1, <2>2
<1>6. Slack' = Slack
  BY <1>1, SlackIs
<1>7. \A todos : todos \in {{AtBuy}, {AtBuy, AtRetreat}} /\ HeadAt(Parent, todos)' =>
            HeadAt(Parent, todos) /\ Job' = Job /\ Order' = Order
  BY <1>3, TodosDiffer
<1>8. UNCHANGED <<saved, bought, kind>>
  BY <1>1
<1>9. QED
  BY <1>4, <1>5, <1>6, <1>7, <1>8, QuietPaced

\* A wake starts a job that has not bought.
LEMMA WakePaced ==
  ASSUME Types, Types', Paced, NEW id \in Ids, NEW c \in Curves, Wake(id, c)
  PROVE  Paced'
<1>1. /\ UNCHANGED <<saved, bought, kind, faults, objects>> /\ Parent \in Ids /\ FaultsOk
  BY WakeDoes, Constants DEF storeVars, chainVars, Types
<1>2. /\ queue # <<>> => queue' # <<>> /\ Job' = Job /\ Order' = Order
      /\ queue = <<>> /\ queue' # <<>> => Job'.todo = AtGate
  BY WakeHead
<1>3. ASSUME NEW todos, AtGate \notin todos, HeadAt(Parent, todos)'
      PROVE  HeadAt(Parent, todos) /\ Job' = Job /\ Order' = Order
  BY <1>2, <1>3 DEF HeadAt
<1>4. Uncounted' => Uncounted /\ Job' = Job
  BY <1>3, TodosDiffer DEF Uncounted
<1>5. Uncounted => Uncounted'
  BY <1>2 DEF Uncounted, HeadAt
<1>6. \A g \in 1 .. Generations : Live(Parent, g)' => Live(Parent, g) /\ objects'[Parent][g] = objects[Parent][g]
  BY <1>1, WakeDoes
<1>7. Slack' = Slack
  BY <1>1, SlackIs
<1>8. \A todos : todos \in {{AtBuy}, {AtBuy, AtRetreat}} /\ HeadAt(Parent, todos)' =>
            HeadAt(Parent, todos) /\ Job' = Job /\ Order' = Order
  BY <1>3, TodosDiffer
<1>9. UNCHANGED <<saved, bought, kind>>
  BY <1>1
<1>10. QED
  BY <1>4, <1>5, <1>6, <1>7, <1>8, <1>9, QuietPaced

\* Every step keeps the pace.
LEMMA NextPaced ==
  ASSUME Types, Types', Own, Paced, kind # "copytrade", [Next]_vars
  PROVE  Paced'
<1>1. CASE UNCHANGED vars \/ SessionCloses \/ (\E c \in Curves : Graduates(c)) \/ (\E id \in Ids : Cancel(id))
  <2>1. UNCHANGED <<saved, bought, kind, brainVars, faults>>
    BY <1>1 DEF vars, SessionCloses, Graduates, Cancel, CancelOrder, storeVars, chainVars
  <2>2. QED
    BY <2>1, SamePaced
<1>2. QED
  BY <1>1, RestartPaced, SyncPaced, WakePaced, JobStepPaced DEF Next

\* What keeps the budget: whose object a job of Parent works on, and how far
\* any count may be behind the buys.
SpendInv == Types /\ (cancels <= 1 /\ kind # "copytrade" => Own /\ Paced)

\* maxSnipes, buys and spendCapSui hold over cancels, reloads and restarts,
\* and a sniper buys a launch at most once, except for what the faults cost.
THEOREM SpendStaysInBudget == Spec => []SpendWithinBudget
<1>1. Init => SpendInv
  BY InitTypes, InitOwn, InitPaced DEF SpendInv
<1>2. SpendInv /\ [Next]_vars => SpendInv'
  <2> SUFFICES ASSUME SpendInv, [Next]_vars PROVE SpendInv'
    OBVIOUS
  <2>1. Types /\ Types'
    BY NextTypes DEF SpendInv
  <2>2. kind' = kind /\ (cancels' <= 1 => cancels <= 1)
    BY <2>1, CancelsGrow
  <2>3. ASSUME cancels' <= 1, kind # "copytrade" PROVE Own' /\ Paced'
    <3>1. Own /\ Paced
      BY <2>2, <2>3 DEF SpendInv
    <3>2. QED
      BY <2>1, <2>3, <3>1, NextOwn, NextPaced
  <2>4. QED
    BY <2>1, <2>2, <2>3 DEF SpendInv
<1>3. SpendInv => SpendWithinBudget
  <2> SUFFICES ASSUME SpendInv, cancels <= 1, kind # "copytrade"
               PROVE  /\ TotalBought <= Budget + Slack
                      /\ kind = "sniper" => \A c \in Curves : bought[c] <= 1 + Slack
    BY DEF SpendWithinBudget, Slack
  <2>1. Types /\ Paced
    BY DEF SpendInv
  <2>2. TotalBought <= Budget + Slack
    BY <2>1 DEF Paced, Progress
  <2>3. ASSUME kind = "sniper", NEW c \in Curves PROVE bought[c] <= 1 + Slack
    <3>1. \E S : Once(c, S)
      BY <2>1, <2>3 DEF Paced, Snipes
    <3>2. bought[c] \in Nat /\ Slack \in Nat
      BY <2>1, NumbersAre
    <3>3. QED
      BY <3>1, <3>2 DEF Once
  <2>4. QED
    BY <2>2, <2>3
<1>4. QED
  BY <1>1, <1>2, <1>3, PTL DEF Spec

---------------------------------------------------------------------------
(* The exits *)

\* The buys a curve may have had when its exit is posted for the first time.
NewLimit == IF kind = "dca" THEN Budget ELSE 1
Over(c) == ~open \/ c \in graduated
Unneeded(c) == Over(c) \/ c \notin held \/ bought[c] > NewLimit

\* An exit is posted after the buys it is for, and is over, in its row or in
\* an object of it, only when nothing is left for it to protect.
ExitOf(c) ==
    /\ status[c] # "none" => Over(c) \/ bought[c] >= NewLimit
    /\ status[c] = "done" => Unneeded(c)
    /\ \A g \in 1 .. Generations : Live(c, g) =>
          status[c] # "none" /\ (objects[c][g].done => Unneeded(c))
    /\ HeadAt(c, {AtStopped}) => Unneeded(c)

NoFaults == faults["answer"] + faults["arm"] + faults["crash"] = 0

\* What an object of a dca order may say after n buys, and what a job of it
\* may do next.
DcaObject(order, n, over) == order.count <= n /\ (order.done => order.count >= Budget \/ over)
DcaJob(todo, order, n) ==
    /\ todo \in {AtBuy, AtRetreat} => order.count < Budget
    /\ todo = AtCount => order.count < n
    /\ todo = AtRecord => order.count < Budget \/ order.done
    /\ todo = AtLastArm => order.done

\* A dca order whose final buy is counted is about to arm its exit.
DcaPending == NoFaults /\ open /\ status[DcaCurve] = "none" /\ saved[Parent].count >= Budget
DcaOk ==
    /\ held \subseteq {DcaCurve}
    /\ saved[Parent].count <= bought[DcaCurve]
    /\ \A g \in 1 .. Generations : Live(Parent, g) =>
          DcaObject(objects[Parent][g], bought[DcaCurve], Over(DcaCurve))
    /\ queue # <<>> /\ Job.id = Parent => DcaJob(Job.todo, Order, bought[DcaCurve])
    /\ DcaPending => Spent /\ Order.done

\* What a sniper or an autopilot holds has an exit, or is about to get one.
EntriesOk ==
    /\ HeadAt(Parent, {AtArm}) => bought[Job.curve] >= 1
    /\ NoFaults /\ open =>
          \A c \in held \ graduated :
              status[c] # "none" \/ (HeadAt(Parent, {AtArm}) /\ Job.curve = c)

Armed == (\A c \in Curves : ExitOf(c)) /\ IF kind = "dca" THEN DcaOk ELSE EntriesOk

ChainStep == \/ UNCHANGED chainVars \/ Buys \/ SessionCloses
             \/ \E leg \in {"stop", "take", "mirror"} : Sells(leg)
             \/ \E c \in Curves : Graduates(c)

\* A dca order has one curve.
LEMMA DcaIs ==
  /\ Curves # {} => DcaCurve \in Curves
  /\ kind = "dca" => Targets(Parent) = {DcaCurve}
<1>1. Curves # {} => DcaCurve \in Curves
  BY DEF DcaCurve
<1>2. kind = "dca" => Targets(Parent) = {DcaCurve}
  BY TargetsAre, Constants
<1>3. QED
  BY <1>1, <1>2

\* Buys only add up, and a curve that is over stays so; an exit that has been
\* posted and protects nothing never comes to protect something.
LEMMA ChainKeeps ==
  ASSUME Types, ChainStep, kind' = kind, NEW c \in Curves
  PROVE  /\ Over(c) => Over(c)'
         /\ bought[c] \in Nat /\ bought'[c] \in Nat /\ bought[c] <= bought'[c] /\ NewLimit' = NewLimit
         /\ ExitOf(c) /\ status[c] # "none" /\ Unneeded(c) => Unneeded(c)'
         /\ open' => open
<1>1. bought \in [Curves -> Nat] /\ bought[c] \in Nat /\ NewLimit \in Nat /\ NewLimit' = NewLimit
  BY Constants DEF Types, ChainOk, NewLimit
<1>2. CASE UNCHANGED chainVars
  BY <1>1, <1>2 DEF chainVars, Over, Unneeded
<1>3. CASE SessionCloses \/ \E d \in Curves : Graduates(d)
  BY <1>1, <1>3 DEF SessionCloses, Graduates, Over, Unneeded
<1>4. CASE \E leg \in {"stop", "take", "mirror"} : Sells(leg)
  <2>1. UNCHANGED <<open, graduated, bought>> /\ held' \subseteq held
    BY <1>4 DEF Sells
  <2>2. QED
    BY <1>1, <2>1 DEF Over, Unneeded
<1>5. CASE Buys
  <2>1. /\ bought' = [bought EXCEPT ![Job.curve] = @ + 1] /\ held' = held \cup {Job.curve}
        /\ open /\ Job.curve \notin graduated /\ UNCHANGED <<open, graduated>>
    BY <1>5 DEF Buys
  <2>2. bought'[c] \in Nat /\ bought[c] <= bought'[c] /\ (c = Job.curve => bought'[c] = bought[c] + 1)
    BY <1>1, <2>1
  <2>3. Over(c) => Over(c)'
    BY <2>1 DEF Over
  <2>4. ASSUME ExitOf(c), status[c] # "none", Unneeded(c) PROVE Unneeded(c)'
    <3>1. CASE c = Job.curve
      <4>1. ~Over(c)
        BY <2>1, <3>1 DEF Over
      <4>2. bought[c] >= NewLimit
        BY <2>4, <4>1 DEF ExitOf
      <4>3. bought'[c] > NewLimit'
        BY <1>1, <2>2, <3>1, <4>2
      <4>4. QED
        BY <4>3 DEF Unneeded
    <3>2. CASE c # Job.curve
      <4>1. CASE bought[c] > NewLimit
        BY <1>1, <2>2, <4>1 DEF Unneeded
      <4>2. CASE Over(c) \/ c \notin held
        BY <2>1, <2>3, <3>2, <4>2 DEF Unneeded
      <4>3. QED
        BY <2>4, <4>1, <4>2 DEF Unneeded
    <3>3. QED
      BY <3>1, <3>2
  <2>5. QED
    BY <1>1, <2>1, <2>2, <2>3, <2>4
<1>6. QED
  BY <1>2, <1>3, <1>4, <1>5 DEF ChainStep

\* A step that posts an exit after the buys it is for, and ends one only when
\* it protects nothing, keeps the exits right.
LEMMA ExitKept ==
  ASSUME Types, ChainStep, kind' = kind, NEW c \in Curves, ExitOf(c),
         status'[c] # "none" => status[c] # "none" \/ Over(c)' \/ bought'[c] >= NewLimit,
         status'[c] = "done" => status[c] = "done" \/ Unneeded(c)',
         status[c] # "none" => status'[c] # "none",
         \A g \in 1 .. Generations : Live(c, g)' =>
            \/ Live(c, g) /\ (objects'[c][g].done => objects[c][g].done \/ Unneeded(c)')
            \/ status[c] # "none" /\ ~objects'[c][g].done,
         HeadAt(c, {AtStopped})' => HeadAt(c, {AtStopped}) \/ Unneeded(c)'
  PROVE  ExitOf(c)'
<1>1. /\ Over(c) => Over(c)'
      /\ bought[c] \in Nat /\ bought'[c] \in Nat /\ bought[c] <= bought'[c]
      /\ NewLimit' = NewLimit /\ NewLimit \in Nat
      /\ status[c] # "none" /\ Unneeded(c) => Unneeded(c)'
  BY ChainKeeps, Constants DEF NewLimit
<1>2. status'[c] # "none" => Over(c)' \/ bought'[c] >= NewLimit'
  <2>1. CASE status[c] # "none" /\ bought[c] >= NewLimit
    BY <1>1, <2>1
  <2>2. CASE status[c] # "none" /\ Over(c)
    BY <1>1, <2>2
  <2>3. QED
    BY <1>1, <2>1, <2>2 DEF ExitOf
<1>3. status'[c] = "done" => Unneeded(c)'
  BY <1>1 DEF ExitOf
<1>4. ASSUME NEW g \in 1 .. Generations, Live(c, g)'
      PROVE  status'[c] # "none" /\ (objects'[c][g].done => Unneeded(c)')
  BY <1>1, <1>4 DEF ExitOf
<1>5. HeadAt(c, {AtStopped})' => Unneeded(c)'
  <2>1. HeadAt(c, {AtStopped}) => status[c] # "none" /\ Unneeded(c)
    <3>1. HeadAt(c, {AtStopped}) => Live(c, Job.generation) /\ Job.generation \in 1 .. Generations
      BY OrderIs DEF HeadAt, Types
    <3>2. QED
      BY <3>1 DEF ExitOf
  <2>2. QED
    BY <1>1, <2>1
<1>6. QED
  BY <1>2, <1>3, <1>4, <1>5 DEF ExitOf

\* What the first job is at after a step of the running job.
LEMMA ProceedHeadOf ==
  ASSUME MemoryOk, queue # <<>>, NEW order, NEW todo, Proceed(order, todo), NEW id, NEW todos,
         AtGate \notin todos, <<>> \notin todos
  PROVE  HeadAt(id, todos)' => Job.id = id /\ todo \in todos
<1>1. CASE todo # <<>>
  <2>1. queue' # <<>> /\ Job'.id = Job.id /\ Job'.todo = todo
    BY <1>1, ProceedJob
  <2>2. QED
    BY <2>1 DEF HeadAt
<1>2. CASE todo = <<>>
  <2>1. queue' # <<>> => Job'.todo = AtGate
    BY <1>2, ProceedJob
  <2>2. QED
    BY <1>2, <2>1 DEF HeadAt
<1>3. QED
  BY <1>1, <1>2

\* The same of a step of the running job.
LEMMA ProceedExit ==
  ASSUME Types, ChainStep, queue # <<>>, NEW c \in Curves, ExitOf(c),
         NEW order \in ObjectType, NEW todo, Proceed(order, todo),
         status'[c] # "none" => status[c] # "none" \/ Over(c)' \/ bought'[c] >= NewLimit,
         status'[c] = "done" => status[c] = "done" \/ Unneeded(c)',
         status[c] # "none" => status'[c] # "none",
         Job.id = c /\ order.done => Order.done \/ Unneeded(c)',
         Job.id = c /\ todo = AtStopped => Unneeded(c)'
  PROVE  ExitOf(c)'
<1>1. MemoryOk /\ Queued /\ objects \in [Ids -> [1 .. Generations -> ObjectType]] /\ kind' = kind /\ c \in Ids
  BY Constants DEF Types, MemoryOk, Proceed
<1>2. ASSUME NEW g \in 1 .. Generations, Live(c, g)'
      PROVE  Live(c, g) /\ (objects'[c][g].done => objects[c][g].done \/ Unneeded(c)')
  <2>1. /\ Live(c, g)
        /\ objects'[c][g] = IF c = Job.id /\ g = Job.generation THEN order ELSE objects[c][g]
    BY <1>1, <1>2, ProceedObjects
  <2>2. Order = objects[Job.id][Job.generation]
    BY <1>1, OrderIs
  <2>3. QED
    BY <2>1, <2>2
<1>3. HeadAt(c, {AtStopped})' => Unneeded(c)'
  BY <1>1, ProceedHeadOf, TodosDiffer
<1>4. QED
  BY <1>1, <1>2, <1>3, ExitKept

\* What a step of the running job does to the chain.
LEMMA JobStepChain ==
  ASSUME JobStep
  PROVE  ChainStep /\ open' = open /\ graduated' = graduated
BY DEF JobStep, GatePasses, GateCloses, Declines, Closes, ClosesQuietly, DecidesToBuy, ClaimsInVain,
       BuySettles, BuyUnanswered, Buys, BuyFails, Retreats, Arms, Counts, Records, DecidesToMirror,
       ExitCloses, ExitsAsDust, Prunes, DecidesToExit, SellSettles, Sells, SellFails, ExitAdvances,
       ChainStep, chainVars

\* Every step of the running job keeps the exits right.
LEMMA JobStepExit ==
  ASSUME Types, Types', kind # "copytrade", JobStep, Armed, NEW c \in Curves
  PROVE  ExitOf(c)'
<1>1. queue # <<>> /\ MemoryOk /\ Queued /\ ChainStep /\ ExitOf(c)
  BY JobStepRuns, JobStepChain DEF Types, MemoryOk, Armed
<1>2. /\ Order \in ObjectType /\ Claiming \in ObjectType /\ Counted \in ObjectType
      /\ [Order EXCEPT !.done = TRUE] \in ObjectType
      /\ [Order EXCEPT !.curves = @ \ {Job.curve}] \in ObjectType
      /\ \A leg : ExitAfter(leg) \in ObjectType
      /\ Job.curve \in Curves /\ Job.id \in Ids /\ Job.generation \in 1 .. Generations
      /\ Live(Job.id, Job.generation) /\ Order = objects[Job.id][Job.generation]
  BY <1>1, OrderIs
<1>3. c # Parent /\ c \in Ids /\ Job.curve # Parent
  BY <1>2, Constants
<1>4. Job.id = c => Job.curve = c
  BY <1>1, <1>2, <1>3, JobIs, TargetsAre
<1>5. Job.id = c => status[c] # "none" /\ (Order.done => Unneeded(c))
  BY <1>1, <1>2 DEF ExitOf
<1>6. /\ Over(c) => Over(c)'
      /\ status[c] # "none" /\ Unneeded(c) => Unneeded(c)'
  <2>1. kind' = kind
    BY <1>1, CancelsGrow DEF Next
  <2>2. QED
    BY <1>1, <2>1, ChainKeeps
<1>7. Job.id = c /\ Order.done => Unneeded(c)'
  BY <1>5, <1>6
\* the step leaves the row of the exit alone
<1>8. ASSUME NEW order \in ObjectType, NEW todo, Proceed(order, todo), status'[c] = status[c],
             Job.id = c => /\ order.done => Order.done \/ Unneeded(c)'
                           /\ todo # AtStopped \/ Unneeded(c)'
      PROVE  ExitOf(c)'
  BY <1>1, <1>8, ProceedExit
\* or it persists an object of it, done only when it protects nothing
<1>9. ASSUME NEW order \in ObjectType, NEW todo, Proceed(order, todo), Persist(order),
             Job.id = c => (order.done => Unneeded(c)') /\ todo # AtStopped
      PROVE  ExitOf(c)'
  <2>1. \/ status'[c] = status[c]
        \/ Job.id = c /\ status'[c] = IF order.done THEN "done" ELSE "active"
    BY <1>1, <1>3, <1>9, PersistWrites
  <2>2. QED
    BY <1>1, <1>5, <1>9, <2>1, ProceedExit
<1>10. /\ UNCHANGED storeVars => status'[c] = status[c]
       /\ <<storeVars, chainVars, faults>>' = <<storeVars, chainVars, faults>> => status'[c] = status[c]
  BY DEF storeVars
<1>11. /\ Doing("buy") => Job.id = Parent
       /\ Doing("retreat") => Job.id = Parent
       /\ Doing("arm") => Job.id = Parent
       /\ Doing("count") => Job.id = Parent
       /\ Doing("mirror") => Job.id = Parent
       /\ Doing("prune") => Job.todo \in {AtPrune, AtLastPrune}
       /\ Doing("stopped") => Job.todo = AtStopped
       /\ Doing("taken") => Job.todo = AtTaken
  BY <1>1, DoingIs
<1>12. /\ <<"decide">> # AtStopped /\ <<>> # AtStopped /\ <<"prune">> # AtStopped /\ <<"arm">> # AtStopped
       /\ <<"stop">> # AtStopped /\ <<"take">> # AtStopped
       /\ AtPrune # AtStopped /\ AtRecord # AtStopped
       /\ AfterSell("stop") = AtStopped /\ AfterSell("take") # AtStopped /\ AfterSell("mirror") # AtStopped
  BY DEF AtStopped, AtPrune, AtRecord, AfterSell
<1>13. [Order EXCEPT !.done = TRUE].done
  <2> HIDE DEF Order, Job
  <2>1. QED
    BY <1>2 DEF ObjectType
<1>20. CASE GatePasses
  BY <1>2, <1>8, <1>10, <1>12, <1>20 DEF GatePasses
<1>21. CASE GateCloses
  <2>1. ~open' /\ Proceed([Order EXCEPT !.done = TRUE], <<>>)
    BY <1>21 DEF GateCloses, chainVars
  <2>2. Unneeded(c)'
    BY <2>1 DEF Unneeded, Over
  <2>3. status'[c] = status[c] \/ (Job.id = c /\ status'[c] = "done")
    BY <1>2, <1>3, <1>10, <1>21 DEF GateCloses, PatchOrder, Types, StoreOk
  <2>4. QED
    BY <1>1, <1>2, <1>5, <2>1, <2>2, <2>3, ProceedExit
<1>22. CASE Declines
  BY <1>2, <1>8, <1>10, <1>12, <1>22 DEF Declines
<1>23. CASE Closes
  BY <1>2, <1>3, <1>9, <1>23 DEF Closes, Deciding
<1>24. CASE ClosesQuietly
  BY <1>2, <1>3, <1>8, <1>10, <1>24 DEF ClosesQuietly, Deciding
<1>25. CASE DecidesToBuy
  BY <1>2, <1>3, <1>8, <1>10, <1>25 DEF DecidesToBuy, Deciding
<1>26. CASE ClaimsInVain
  BY <1>2, <1>3, <1>8, <1>10, <1>26 DEF ClaimsInVain, Deciding
<1>27. CASE BuySettles
  BY <1>2, <1>3, <1>8, <1>10, <1>11, <1>27 DEF BuySettles, Buys
<1>28. CASE BuyUnanswered
  BY <1>2, <1>3, <1>8, <1>10, <1>11, <1>28 DEF BuyUnanswered, Buys
<1>29. CASE BuyFails
  BY <1>2, <1>3, <1>8, <1>10, <1>11, <1>29 DEF BuyFails
<1>30. CASE Retreats
  <2>1. Doing("retreat") /\ Job.id # c
    BY <1>3, <1>11, <1>30 DEF Retreats
  <2>2. CASE kind = "sniper"
    BY <1>2, <1>8, <1>10, <1>30, <2>1, <2>2 DEF Retreats
  <2>3. CASE kind = "dca"
    BY <1>2, <1>9, <1>30, <2>1, <2>3 DEF Retreats
  <2>4. CASE kind \notin {"sniper", "dca"}
    BY <1>2, <1>8, <1>10, <1>30, <2>1, <2>4 DEF Retreats
  <2>5. QED
    BY <2>2, <2>3, <2>4
<1>31. CASE Arms
  <2>1. Doing("arm") /\ Job.id # c /\ Proceed(Order, Tail(Job.todo)) /\ UNCHANGED chainVars
    BY <1>3, <1>11, <1>31 DEF Arms
  <2>2. status'[c] = status[c] \/ (c = Job.curve /\ status[c] = "none" /\ status'[c] = "active")
    BY <1>2, <1>3, <1>10, <1>31 DEF Arms, PostOrder, Types, StoreOk
  <2>3. CASE status'[c] = status[c]
    BY <1>2, <1>8, <2>1, <2>3
  <2>4. CASE c = Job.curve /\ status'[c] = "active"
    <3>1. Over(c) \/ bought[c] >= NewLimit
      <4>1. CASE kind = "dca"
        <5>1. Job.todo = AtLastArm /\ Job.id = Parent /\ DcaOk
          BY <1>1, <2>1, <4>1, DoingIs DEF Armed
        <5>2. Order.done
          BY <1>1, <5>1 DEF DcaOk, DcaJob
        <5>3. DcaObject(Order, bought[DcaCurve], Over(DcaCurve))
          BY <1>2, <5>1 DEF DcaOk
        <5>4. c = DcaCurve
          BY <1>1, <2>4, <4>1, <5>1, JobIs, DcaIs
        <5>5. bought[c] \in Nat /\ Order.count \in Nat /\ Budget \in Nat
          BY <1>1, NumbersAre
        <5>6. QED
          BY <4>1, <5>2, <5>3, <5>4, <5>5 DEF DcaObject, NewLimit
      <4>2. CASE kind # "dca"
        <5>1. Job.todo = AtArm /\ Job.id = Parent /\ EntriesOk
          BY <1>1, <2>1, <4>2, DoingIs DEF Armed
        <5>2. QED
          BY <1>1, <2>4, <4>2, <5>1 DEF EntriesOk, HeadAt, NewLimit
      <4>3. QED
        BY <4>1, <4>2
    <3>2. Over(c)' \/ bought'[c] >= NewLimit
      BY <1>6, <2>1, <3>1 DEF chainVars
    <3>3. QED
      BY <1>1, <1>2, <2>1, <2>4, <3>2, ProceedExit
  <2>5. QED
    BY <2>2, <2>3, <2>4
<1>32. CASE Counts
  BY <1>2, <1>3, <1>9, <1>11, <1>32 DEF Counts
<1>33. CASE Records
  <2>1. PICK todo \in {<<>>, <<"arm">>} : Proceed(Order, todo) /\ Persist(Order)
    BY <1>33 DEF Records
  <2>2. QED
    BY <1>2, <1>7, <1>9, <1>12, <2>1
<1>34. CASE DecidesToMirror
  BY <1>34 DEF DecidesToMirror
<1>35. CASE ExitCloses
  <2>1. /\ Persist([Order EXCEPT !.done = TRUE]) /\ Proceed([Order EXCEPT !.done = TRUE], <<>>)
        /\ Job.curve \in graduated'
    BY <1>35 DEF ExitCloses, chainVars
  <2>2. Job.id = c => Unneeded(c)'
    BY <1>4, <2>1 DEF Unneeded, Over
  <2>3. QED
    BY <1>2, <1>9, <1>12, <2>1, <2>2
<1>36. CASE ExitsAsDust
  <2>1. /\ Persist([Order EXCEPT !.done = TRUE]) /\ Proceed([Order EXCEPT !.done = TRUE], <<"prune">>)
        /\ Job.curve \notin held'
    BY <1>36 DEF ExitsAsDust, chainVars
  <2>2. Job.id = c => Unneeded(c)'
    BY <1>4, <2>1 DEF Unneeded
  <2>3. QED
    BY <1>2, <1>9, <1>12, <2>1, <2>2
<1>37. CASE Prunes
  <2>1. Doing("prune") /\ Proceed(Order, Tail(Job.todo)) /\ status'[c] = status[c]
    BY <1>37 DEF Prunes
  <2>2. Tail(Job.todo) # AtStopped
    BY <1>11, <1>12, <2>1, TodoParts
  <2>3. QED
    BY <1>2, <1>8, <2>1, <2>2
<1>38. ASSUME NEW leg \in {"stop", "take"}, DecidesToExit(leg) PROVE ExitOf(c)'
  <2>1. Proceed(Order, <<leg>>) /\ status'[c] = status[c] /\ <<leg>> # AtStopped
    BY <1>10, <1>12, <1>38 DEF DecidesToExit
  <2>2. QED
    BY <1>2, <1>8, <2>1
<1>39. ASSUME NEW leg \in {"stop", "take", "mirror"}, SellSettles(leg) PROVE ExitOf(c)'
  <2>1. Proceed(Order, AfterSell(leg)) /\ status'[c] = status[c] /\ Sells(leg)
    BY <1>10, <1>39 DEF SellSettles, storeVars
  <2>2. Job.id = c /\ leg = "stop" => Unneeded(c)'
    BY <1>4, <2>1 DEF Sells, SoldBy, Unneeded
  <2>3. AfterSell(leg) = AtStopped => leg = "stop"
    BY <1>12
  <2>4. QED
    BY <1>2, <1>8, <2>1, <2>2, <2>3
<1>40. ASSUME NEW leg \in {"stop", "take", "mirror"}, SellFails(leg) PROVE ExitOf(c)'
  <2>1. Proceed(Order, <<>>) /\ status'[c] = status[c]
    BY <1>40 DEF SellFails, storeVars
  <2>2. QED
    BY <1>2, <1>8, <1>12, <2>1
<1>41. ASSUME NEW leg \in {"stopped", "taken"}, ExitAdvances(leg) PROVE ExitOf(c)'
  <2>1. /\ Doing(leg) /\ Persist(ExitAfter(leg)) /\ Proceed(ExitAfter(leg), Tail(Job.todo))
        /\ UNCHANGED chainVars
    BY <1>41 DEF ExitAdvances
  <2>2. Tail(Job.todo) # AtStopped
    BY <1>11, <1>12, <2>1, TodoParts
  <2>3. ASSUME Job.id = c, ExitAfter(leg).done PROVE Unneeded(c)'
    <3>1. CASE leg = "stopped"
      <4>1. HeadAt(c, {AtStopped})
        BY <1>1, <1>11, <2>1, <2>3, <3>1 DEF HeadAt
      <4>2. QED
        BY <1>1, <1>5, <1>6, <2>3, <4>1 DEF ExitOf
    <3>2. CASE leg = "taken"
      <4>1. ExitAfter(leg).done = (leg = "stopped" \/ Job.curve \notin held)
        <5> HIDE DEF Order, Job
        <5>1. QED
          BY <1>2 DEF ExitAfter, ObjectType
      <4>2. c \notin held'
        BY <1>4, <2>1, <2>3, <3>2, <4>1 DEF chainVars
      <4>3. QED
        BY <4>2 DEF Unneeded
    <3>3. QED
      BY <3>1, <3>2
  <2>4. QED
    BY <1>2, <1>9, <2>1, <2>2, <2>3
<1>42. QED
  BY <1>20, <1>21, <1>22, <1>23, <1>24, <1>25, <1>26, <1>27, <1>28, <1>29, <1>30, <1>31, <1>32,
     <1>33, <1>34, <1>35, <1>36, <1>37, <1>38, <1>39, <1>40, <1>41 DEF JobStep

\* A step of the running job keeps a dca order right: its object counts no
\* buy that has not landed, and is done only after the budget or on a curve
\* that is over; the final buy, once counted, leaves the job about to arm.
LEMMA ProceedDca ==
  ASSUME Types, Types', DcaOk, kind = "dca", ChainStep, queue # <<>>,
         NEW order \in ObjectType, NEW todo, Proceed(order, todo),
         held' \subseteq {DcaCurve}, saved'[Parent].count <= bought'[DcaCurve],
         Job.id = Parent =>
            /\ DcaObject(order, bought'[DcaCurve], Over(DcaCurve)')
            /\ DcaJob(todo, order, bought'[DcaCurve]),
         DcaPending' => Job.id = Parent /\ todo \in {AtRecord, AtLastArm} /\ order.done
  PROVE  DcaOk'
<1>1. /\ MemoryOk /\ Queued /\ objects \in [Ids -> [1 .. Generations -> ObjectType]]
      /\ kind' = kind /\ Parent \in Ids
  BY Constants DEF Types, MemoryOk, Proceed
<1>2. /\ DcaCurve \in Curves
      /\ bought[DcaCurve] \in Nat /\ bought'[DcaCurve] \in Nat /\ bought[DcaCurve] <= bought'[DcaCurve]
      /\ Over(DcaCurve) => Over(DcaCurve)'
  <2>1. DcaCurve \in Curves
    BY <1>1, OrderIs, DcaIs
  <2>2. QED
    BY <1>1, <2>1, ChainKeeps
<1>3. ASSUME NEW g \in 1 .. Generations, Live(Parent, g)'
      PROVE  DcaObject(objects[Parent][g], bought[DcaCurve], Over(DcaCurve))'
  <2>1. /\ Live(Parent, g)
        /\ objects'[Parent][g] = IF Parent = Job.id /\ g = Job.generation THEN order
                                 ELSE objects[Parent][g]
    BY <1>1, <1>3, ProceedObjects
  <2>2. CASE Parent = Job.id /\ g = Job.generation
    BY <2>1, <2>2 DEF DcaObject
  <2>3. CASE ~(Parent = Job.id /\ g = Job.generation)
    <3>1. DcaObject(objects[Parent][g], bought[DcaCurve], Over(DcaCurve)) /\ objects[Parent][g].count \in Nat
      BY <1>1, <2>1, NumbersAre DEF DcaOk
    <3>2. objects'[Parent][g] = objects[Parent][g]
      BY <2>1, <2>3
    <3>3. QED
      BY <1>2, <3>1, <3>2 DEF DcaObject
  <2>4. QED
    BY <2>2, <2>3
<1>4. ASSUME queue' # <<>>, Job'.id = Parent
      PROVE  DcaJob(Job.todo, Order, bought[DcaCurve])'
  <2>1. CASE todo # <<>>
    <3>1. Job'.todo = todo /\ Order' = order /\ Job'.id = Job.id
      BY <1>1, <2>1, ProceedJob
    <3>2. QED
      BY <1>4, <3>1 DEF DcaJob
  <2>2. CASE todo = <<>>
    <3>1. Job'.todo = AtGate
      BY <1>1, <1>4, <2>2, ProceedJob
    <3>2. QED
      BY <3>1, TodosDiffer DEF DcaJob
  <2>3. QED
    BY <2>1, <2>2
<1>5. ASSUME DcaPending' PROVE Spent' /\ Order'.done
  <2>1. Job.id = Parent /\ todo \in {AtRecord, AtLastArm} /\ order.done /\ todo # <<>>
    BY <1>5, TodosDiffer
  <2>2. queue' # <<>> /\ Job'.id = Job.id /\ Job'.todo = todo /\ Order' = order
    BY <1>1, <2>1, ProceedJob
  <2>3. QED
    BY <2>1, <2>2 DEF Spent, HeadAt
<1>6. QED
  BY <1>3, <1>4, <1>5 DEF DcaOk

\* No step of a job takes an order back to never posted.
LEMMA JobStepStatus ==
  ASSUME Types, JobStep, NEW c \in Curves
  PROVE  status[c] # "none" => status'[c] # "none"
<1>1. queue # <<>>
  BY JobStepRuns DEF Types
<1>2. c \in Ids /\ status \in [Ids -> {"none", "active", "done", "cancelled"}]
  BY Constants DEF Types, StoreOk
<1>3. \A id, params : PatchOrder(id, "done", params) /\ status[c] # "none" => status'[c] # "none"
  BY <1>2 DEF PatchOrder
<1>4. \A id : PostOrder(id) /\ status[c] # "none" => status'[c] # "none"
  BY <1>2 DEF PostOrder
<1>5. ASSUME NEW order, Persist(order) PROVE status[c] # "none" => status'[c] # "none"
  BY <1>2, <1>5 DEF Persist, PatchOrder, storeVars
<1>6. UNCHANGED storeVars => status' = status
  BY DEF storeVars
<1>7. QED
  BY <1>3, <1>4, <1>5, <1>6 DEF JobStep, GatePasses, GateCloses, Declines, Closes, ClosesQuietly,
     DecidesToBuy, ClaimsInVain, BuySettles, BuyUnanswered, BuyFails, Retreats, Arms, Counts, Records,
     DecidesToMirror, ExitCloses, ExitsAsDust, Prunes, DecidesToExit, SellSettles, SellFails, ExitAdvances

\* The faults only add up.
LEMMA NoFaultsYet ==
  ASSUME FaultsOk, (faults' = faults) \/ (\E f \in Faults : Fault(f))
  PROVE  /\ NoFaults' => NoFaults
         /\ \A f \in {"answer", "arm", "crash"} : Fault(f) => ~NoFaults'
<1>1. /\ faults["answer"] \in Nat /\ faults["arm"] \in Nat /\ faults["crash"] \in Nat
      /\ {"answer", "write", "arm", "crash"} = Faults
  BY Constants DEF FaultsOk, Faults
<1>2. ASSUME NEW f \in Faults, Fault(f)
      PROVE  faults'[f] = faults[f] + 1 /\ \A e \in Faults : e # f => faults'[e] = faults[e]
  BY <1>2, FaultCounts
<1>3. CASE faults' = faults
  <2>1. ASSUME NEW f \in Faults, Fault(f) PROVE FALSE
    <3>1. faults'[f] = faults[f] + 1 /\ faults[f] \in Nat
      BY <1>2, <2>1, Constants DEF FaultsOk
    <3>2. QED
      BY <1>3, <3>1
  <2>2. QED
    BY <1>1, <1>3, <2>1 DEF NoFaults
<1>4. ASSUME NEW f \in Faults, Fault(f)
      PROVE  /\ NoFaults' => NoFaults
             /\ f \in {"answer", "arm", "crash"} => ~NoFaults'
  <2>1. faults'[f] = faults[f] + 1 /\ \A e \in Faults : e # f => faults'[e] = faults[e]
    BY <1>2, <1>4
  <2>2. CASE f = "answer"
    <3>1. faults'["answer"] = faults["answer"] + 1 /\ faults'["arm"] = faults["arm"] /\ faults'["crash"] = faults["crash"]
      BY <1>1, <2>1, <2>2
    <3>2. QED
      BY <1>1, <3>1 DEF NoFaults
  <2>3. CASE f = "arm"
    <3>1. faults'["arm"] = faults["arm"] + 1 /\ faults'["answer"] = faults["answer"] /\ faults'["crash"] = faults["crash"]
      BY <1>1, <2>1, <2>3
    <3>2. QED
      BY <1>1, <3>1 DEF NoFaults
  <2>4. CASE f = "crash"
    <3>1. faults'["crash"] = faults["crash"] + 1 /\ faults'["answer"] = faults["answer"] /\ faults'["arm"] = faults["arm"]
      BY <1>1, <2>1, <2>4
    <3>2. QED
      BY <1>1, <3>1 DEF NoFaults
  <2>5. CASE f = "write"
    <3>1. faults'["arm"] = faults["arm"] /\ faults'["answer"] = faults["answer"] /\ faults'["crash"] = faults["crash"]
      BY <1>1, <2>1, <2>5
    <3>2. QED
      BY <1>1, <2>5, <3>1 DEF NoFaults
  <2>6. QED
    BY <1>1, <1>4, <2>2, <2>3, <2>4, <2>5
<1>5. QED
  BY <1>1, <1>3, <1>4

\* A step of a job costs one fault at most.
LEMMA JobStepFaults ==
  ASSUME JobStep
  PROVE  (faults' = faults) \/ (\E f \in Faults : Fault(f))
BY DEF JobStep, GatePasses, GateCloses, Declines, Closes, ClosesQuietly, DecidesToBuy, ClaimsInVain,
       BuySettles, BuyUnanswered, BuyFails, Retreats, Arms, Counts, Records, DecidesToMirror,
       ExitCloses, ExitsAsDust, Prunes, DecidesToExit, SellSettles, SellFails, ExitAdvances,
       Persist, Faults

\* Every step of the running job keeps a dca order right.
LEMMA JobStepDca ==
  ASSUME Types, Types', kind = "dca", JobStep, DcaOk
  PROVE  DcaOk'
<1>1. /\ queue # <<>> /\ MemoryOk /\ Queued /\ FaultsOk
      /\ ChainStep /\ open' = open /\ graduated' = graduated
  BY JobStepRuns, JobStepChain DEF Types, MemoryOk
<1>2. /\ Order \in ObjectType /\ Claiming \in ObjectType /\ Counted \in ObjectType
      /\ [Order EXCEPT !.done = TRUE] \in ObjectType
      /\ \A leg : ExitAfter(leg) \in ObjectType
      /\ Job.curve \in Curves /\ Job.id \in Ids /\ Job.generation \in 1 .. Generations
      /\ Live(Job.id, Job.generation) /\ Order = objects[Job.id][Job.generation]
  BY <1>1, OrderIs
<1>3. DcaCurve \in Curves /\ Parent \in Ids /\ Job.curve # Parent /\ DcaCurve # Parent
  BY <1>2, DcaIs, Constants
<1>4. Job.id = Parent => Job.curve = DcaCurve
  BY <1>1, JobIs, DcaIs
<1>5. /\ Over(DcaCurve) => Over(DcaCurve)'
      /\ bought[DcaCurve] \in Nat /\ bought'[DcaCurve] \in Nat /\ bought[DcaCurve] <= bought'[DcaCurve]
  <2>1. kind' = kind
    BY <1>1, CancelsGrow DEF Next
  <2>2. QED
    BY <1>1, <1>3, <2>1, ChainKeeps
<1>6. Order.count \in Nat /\ Budget \in Nat /\ saved[Parent].count \in Nat
  BY <1>1, NumbersAre
<1>7. held' \subseteq {DcaCurve}
  <2>1. CASE Buys
    <3>1. Job.id = Parent /\ held' = held \cup {Job.curve}
      BY <1>1, <2>1, DoingIs DEF Buys
    <3>2. QED
      BY <1>4, <3>1 DEF DcaOk
  <2>2. CASE held' \subseteq held
    BY <2>2 DEF DcaOk
  <2>3. QED
    BY <1>1, <2>1, <2>2 DEF ChainStep, chainVars, SessionCloses, Graduates, Sells
<1>8. Job.id = Parent => /\ DcaObject(Order, bought[DcaCurve], Over(DcaCurve))
                         /\ DcaObject(Order, bought'[DcaCurve], Over(DcaCurve)')
                         /\ DcaJob(Job.todo, Order, bought[DcaCurve])
  <2>1. Job.id = Parent => /\ DcaObject(Order, bought[DcaCurve], Over(DcaCurve))
                           /\ DcaJob(Job.todo, Order, bought[DcaCurve])
    BY <1>1, <1>2 DEF DcaOk
  <2>2. QED
    BY <1>5, <1>6, <2>1 DEF DcaObject
<1>9. saved[Parent].count <= bought'[DcaCurve]
  BY <1>5, <1>6 DEF DcaOk
<1>10. DcaPending' /\ saved'[Parent].count = saved[Parent].count => DcaPending
  <2>1. NoFaults' => NoFaults
    BY <1>1, JobStepFaults, NoFaultsYet
  <2>2. status'[DcaCurve] = "none" => status[DcaCurve] = "none"
    BY <1>3, JobStepStatus
  <2>3. QED
    BY <1>1, <2>1, <2>2 DEF DcaPending
<1>11. DcaPending => Spent /\ Order.done /\ Job.id = Parent
  BY DEF DcaOk, Spent, HeadAt
<1>12. Spent => Doing("record") \/ Doing("arm")
  BY TodoParts DEF Spent, HeadAt, Doing
<1>13. \A step \in {"gate", "decide", "buy", "retreat", "count"} : Doing(step) => ~DcaPending
  BY <1>11, <1>12 DEF Doing
\* a step of Parent that leaves its row alone
<1>14. ASSUME NEW order \in ObjectType, NEW todo, Proceed(order, todo),
              saved'[Parent].count = saved[Parent].count, DcaPending => Job.id # Parent,
              Job.id = Parent => /\ DcaObject(order, bought'[DcaCurve], Over(DcaCurve)')
                                 /\ DcaJob(todo, order, bought'[DcaCurve])
       PROVE  DcaOk'
  <2>1. ~DcaPending'
    BY <1>10, <1>11, <1>14
  <2>2. saved'[Parent].count <= bought'[DcaCurve]
    BY <1>9, <1>14
  <2>3. QED
    BY <1>1, <1>7, <1>14, <2>1, <2>2, ProceedDca
\* and one that persists an object of it
<1>15. ASSUME NEW order \in ObjectType, NEW todo, Proceed(order, todo), Persist(order), Job.id = Parent,
              DcaObject(order, bought'[DcaCurve], Over(DcaCurve)'),
              DcaJob(todo, order, bought'[DcaCurve]),
              order.count < Budget \/ (todo \in {AtRecord, AtLastArm} /\ order.done),
              DcaPending => todo \in {AtRecord, AtLastArm} /\ order.done
       PROVE  DcaOk'
  <2>1. saved'[Parent].count = order.count \/ saved'[Parent].count = saved[Parent].count
    BY <1>1, <1>3, <1>15, PersistWrites
  <2>2. saved'[Parent].count <= bought'[DcaCurve]
    BY <1>9, <1>15, <2>1 DEF DcaObject
  <2>3. ASSUME DcaPending' PROVE todo \in {AtRecord, AtLastArm} /\ order.done
    <3>1. CASE saved'[Parent].count = saved[Parent].count
      BY <1>10, <1>15, <2>3, <3>1
    <3>2. CASE saved'[Parent].count = order.count
      <4>1. order.count >= Budget /\ order.count \in Nat
        BY <1>15, <2>3, <3>2, Constants DEF DcaPending, ObjectType
      <4>2. QED
        BY <1>6, <1>15, <4>1
    <3>3. QED
      BY <2>1, <3>1, <3>2
  <2>4. QED
    BY <1>1, <1>7, <1>15, <2>2, <2>3, ProceedDca
\* and a step of an exit
<1>16. ASSUME NEW order \in ObjectType, NEW todo, Proceed(order, todo), Job.id # Parent,
              saved'[Parent].count = saved[Parent].count
       PROVE  DcaOk'
  BY <1>14, <1>16
<1>17. ASSUME NEW order \in ObjectType, NEW todo, Proceed(order, todo), Job.id # Parent, Persist(order)
       PROVE  DcaOk'
  <2>1. saved'[Parent] = saved[Parent]
    BY <1>1, <1>3, <1>17, PersistWrites
  <2>2. QED
    BY <1>16, <1>17, <2>1
<1>18. /\ UNCHANGED storeVars => saved'[Parent] = saved[Parent]
       /\ <<storeVars, chainVars, faults>>' = <<storeVars, chainVars, faults>> => saved'[Parent] = saved[Parent]
  BY DEF storeVars
<1>19. /\ Doing("buy") => Job.todo = AtBuy /\ Job.id = Parent
       /\ Doing("retreat") => Job.todo = AtRetreat /\ Job.id = Parent
       /\ Doing("count") => Job.todo = AtCount /\ Job.id = Parent
       /\ Doing("arm") => Job.todo = AtLastArm /\ Job.id = Parent
       /\ Doing("record") => Job.todo = AtRecord
       /\ Doing("mirror") => FALSE
       /\ Doing("stop") => Job.id # Parent
       /\ Doing("take") => Job.id # Parent
       /\ Doing("stopped") => Job.id # Parent
       /\ Doing("taken") => Job.id # Parent
       /\ Doing("prune") => Job.id # Parent
  BY <1>1, DoingIs
<1>20. /\ <<"decide">> = AtDecide /\ <<"buy">> = AtBuy /\ <<"retreat">> = AtRetreat /\ <<"arm">> = AtLastArm
       /\ \A order, n : DcaJob(AtDecide, order, n) /\ DcaJob(<<>>, order, n)
       /\ \A order, n : order.count < Budget => DcaJob(AtBuy, order, n) /\ DcaJob(AtRetreat, order, n)
       /\ \A order, n : order.count < n => DcaJob(AtCount, order, n)
       /\ \A order, n : order.count < Budget \/ order.done => DcaJob(AtRecord, order, n)
       /\ \A order, n : order.done => DcaJob(AtLastArm, order, n)
  BY TodosDiffer DEF DcaJob, AtDecide, AtBuy, AtRetreat, AtLastArm
<1>21. /\ [Order EXCEPT !.done = TRUE].count = Order.count /\ [Order EXCEPT !.done = TRUE].done
       /\ Claiming = Order
       /\ Counted.count = Order.count + 1
       /\ Counted.done <=> Order.done \/ Order.count + 1 >= Budget
  <2> HIDE DEF Order, Job
  <2>1. QED
    BY <1>2 DEF ObjectType, Claiming, Counted
<1>30. CASE GatePasses
  BY <1>2, <1>8, <1>13, <1>14, <1>18, <1>20, <1>30 DEF GatePasses
<1>31. CASE GateCloses
  <2>1. Proceed([Order EXCEPT !.done = TRUE], <<>>) /\ Doing("gate") /\ Over(DcaCurve)'
    BY <1>1, <1>31 DEF GateCloses, Over
  <2>2. saved'[Parent].count = saved[Parent].count
    BY <1>2, <1>3, <1>18, <1>31 DEF GateCloses, PatchOrder, Types, StoreOk
  <2>3. Job.id = Parent => DcaObject([Order EXCEPT !.done = TRUE], bought'[DcaCurve], Over(DcaCurve)')
    BY <1>8, <1>21, <2>1 DEF DcaObject
  <2>4. QED
    BY <1>2, <1>13, <1>14, <1>20, <2>1, <2>2, <2>3
<1>32. CASE Declines
  BY <1>2, <1>8, <1>13, <1>14, <1>18, <1>20, <1>32 DEF Declines
<1>33. CASE Closes
  <2>1. /\ Proceed([Order EXCEPT !.done = TRUE], <<>>) /\ Persist([Order EXCEPT !.done = TRUE])
        /\ Doing("decide") /\ Job.id = Parent /\ Order.count < Budget /\ Job.curve \in graduated
    BY <1>33 DEF Closes, Deciding
  <2>2. DcaObject([Order EXCEPT !.done = TRUE], bought'[DcaCurve], Over(DcaCurve)')
    BY <1>1, <1>4, <1>8, <1>21, <2>1 DEF DcaObject, Over
  <2>3. QED
    BY <1>2, <1>13, <1>15, <1>20, <1>21, <2>1, <2>2
<1>34. CASE ClosesQuietly
  <2>1. /\ Proceed([Order EXCEPT !.done = TRUE], <<>>) /\ UNCHANGED <<storeVars, chainVars, faults>>
        /\ Doing("decide") /\ Job.id = Parent /\ Order.count >= Budget
    BY <1>34 DEF ClosesQuietly, Deciding
  <2>2. DcaObject([Order EXCEPT !.done = TRUE], bought'[DcaCurve], Over(DcaCurve)')
    BY <1>8, <1>21, <2>1 DEF DcaObject
  <2>3. QED
    BY <1>2, <1>13, <1>14, <1>18, <1>20, <2>1, <2>2
<1>35. CASE DecidesToBuy
  <2>1. /\ Proceed(Order, AtBuy) /\ UNCHANGED <<storeVars, chainVars, faults>>
        /\ Doing("decide") /\ Job.id = Parent /\ Order.count < Budget
    BY <1>20, <1>21, <1>35 DEF DecidesToBuy, Deciding, Buyable, WithinBudget
  <2>2. QED
    BY <1>2, <1>8, <1>13, <1>14, <1>18, <1>20, <2>1
<1>36. CASE ClaimsInVain
  BY <1>36 DEF ClaimsInVain
<1>37. CASE BuySettles
  <2>1. Proceed(Order, AtCount) /\ Doing("buy") /\ saved'[Parent] = saved[Parent]
    BY <1>18, <1>37 DEF BuySettles, Buys, AfterBuy, AtCount
  <2>2. Job.id = Parent
    BY <1>19, <2>1
  <2>3. bought'[DcaCurve] = bought[DcaCurve] + 1
    BY <1>2, <1>4, <1>37, <2>2 DEF BuySettles, Buys, Types, ChainOk
  <2>4. Order.count < bought'[DcaCurve]
    BY <1>5, <1>6, <1>8, <2>2, <2>3 DEF DcaObject
  <2>5. QED
    BY <1>2, <1>8, <1>13, <1>14, <1>20, <2>1, <2>4
<1>38. CASE BuyUnanswered
  <2>1. PICK todo \in {AtBuy, AtRetreat} :
           Proceed(Order, todo) /\ Doing("buy") /\ saved'[Parent] = saved[Parent]
    BY <1>18, <1>20, <1>38 DEF BuyUnanswered, Buys
  <2>2. Job.id = Parent /\ Order.count < Budget
    BY <1>8, <1>19, <2>1 DEF DcaJob
  <2>3. QED
    BY <1>2, <1>8, <1>13, <1>14, <1>20, <2>1, <2>2
<1>39. CASE BuyFails
  <2>1. Proceed(Order, AtRetreat) /\ Doing("buy") /\ saved'[Parent] = saved[Parent]
    BY <1>18, <1>20, <1>39 DEF BuyFails
  <2>2. Job.id = Parent /\ Order.count < Budget
    BY <1>8, <1>19, <2>1 DEF DcaJob
  <2>3. QED
    BY <1>2, <1>8, <1>13, <1>14, <1>20, <2>1, <2>2
<1>40. CASE Retreats
  <2>1. Proceed(Order, <<>>) /\ Persist(Order) /\ Doing("retreat")
    BY <1>40 DEF Retreats
  <2>2. Job.id = Parent /\ Order.count < Budget
    BY <1>8, <1>19, <2>1 DEF DcaJob
  <2>3. QED
    BY <1>2, <1>8, <1>13, <1>15, <1>20, <2>1, <2>2
<1>41. CASE Arms
  <2>1. Proceed(Order, Tail(Job.todo)) /\ Doing("arm") /\ saved' = saved
    BY <1>41 DEF Arms, PostOrder, storeVars
  <2>2. Job.id = Parent /\ Tail(Job.todo) = <<>>
    BY <1>19, <2>1, TodoParts
  <2>3. ~DcaPending'
    <3>1. CASE PostOrder(Job.curve)
      <4>1. status'[DcaCurve] # "none"
        BY <1>3, <1>4, <2>2, <3>1 DEF PostOrder, Types, StoreOk, Ids
      <4>2. QED
        BY <4>1 DEF DcaPending
    <3>2. CASE Fault("arm")
      BY <1>1, <3>2, NoFaultsYet DEF DcaPending, Faults
    <3>3. QED
      BY <1>41, <3>1, <3>2 DEF Arms
  <2>4. saved'[Parent].count <= bought'[DcaCurve]
    BY <1>9, <2>1
  <2>5. QED
    BY <1>1, <1>2, <1>7, <1>8, <1>20, <2>1, <2>2, <2>3, <2>4, ProceedDca
<1>42. CASE Counts
  <2>1. Proceed(Counted, Tail(Job.todo)) /\ Persist(Counted) /\ Doing("count") /\ bought' = bought
    BY <1>42 DEF Counts, chainVars
  <2>2. Job.id = Parent /\ Tail(Job.todo) = AtRecord /\ Job.todo = AtCount
    BY <1>19, <2>1, TodoParts
  <2>3. Order.count < bought'[DcaCurve]
    BY <1>8, <2>1, <2>2 DEF DcaJob
  <2>4. DcaObject(Counted, bought'[DcaCurve], Over(DcaCurve)')
    <3>1. Counted.count <= bought'[DcaCurve]
      BY <1>5, <1>6, <1>21, <2>3
    <3>2. Counted.done => Counted.count >= Budget \/ Over(DcaCurve)'
      BY <1>6, <1>8, <1>21, <2>2 DEF DcaObject
    <3>3. QED
      BY <3>1, <3>2 DEF DcaObject
  <2>5. Counted.count < Budget \/ Counted.done
    BY <1>6, <1>21
  <2>6. QED
    BY <1>2, <1>13, <1>15, <1>20, <2>1, <2>2, <2>4, <2>5
<1>43. CASE Records
  <2>1. PICK todo : /\ todo = IF Job.id = Parent /\ Order.done THEN AtLastArm ELSE <<>>
                    /\ Proceed(Order, todo) /\ Persist(Order) /\ Doing("record")
    BY <1>20, <1>43 DEF Records
  <2>2. CASE Job.id = Parent
    <3>1. Order.count < Budget \/ Order.done
      BY <1>8, <1>19, <2>1, <2>2 DEF DcaJob
    <3>2. DcaJob(todo, Order, bought'[DcaCurve])
      BY <1>20, <2>1
    <3>3. Order.done => todo = AtLastArm
      BY <2>1, <2>2
    <3>4. QED
      BY <1>2, <1>8, <1>11, <1>15, <2>1, <2>2, <3>1, <3>2, <3>3
  <2>3. CASE Job.id # Parent
    BY <1>2, <1>17, <2>1, <2>3
  <2>4. QED
    BY <2>2, <2>3
<1>44. CASE DecidesToMirror
  BY <1>44 DEF DecidesToMirror
<1>45. CASE ExitCloses
  BY <1>2, <1>3, <1>17, <1>45 DEF ExitCloses, Deciding
<1>46. CASE ExitsAsDust
  BY <1>2, <1>3, <1>17, <1>46 DEF ExitsAsDust, Deciding
<1>47. CASE Prunes
  <2>1. Doing("prune") /\ Proceed(Order, Tail(Job.todo)) /\ saved' = saved
    BY <1>47 DEF Prunes
  <2>2. QED
    BY <1>2, <1>16, <1>19, <2>1
<1>48. ASSUME NEW leg \in {"stop", "take"}, DecidesToExit(leg) PROVE DcaOk'
  <2>1. Proceed(Order, <<leg>>) /\ saved'[Parent] = saved[Parent] /\ Job.id # Parent
    BY <1>2, <1>3, <1>18, <1>48 DEF DecidesToExit, Deciding
  <2>2. QED
    BY <1>2, <1>16, <2>1
<1>49. ASSUME NEW leg \in {"stop", "take", "mirror"}, SellSettles(leg) PROVE DcaOk'
  <2>1. Proceed(Order, AfterSell(leg)) /\ saved'[Parent] = saved[Parent] /\ Job.id # Parent
    BY <1>18, <1>19, <1>49 DEF SellSettles, Sells
  <2>2. QED
    BY <1>2, <1>16, <2>1
<1>50. ASSUME NEW leg \in {"stop", "take", "mirror"}, SellFails(leg) PROVE DcaOk'
  <2>1. Proceed(Order, <<>>) /\ saved'[Parent] = saved[Parent] /\ Job.id # Parent
    BY <1>19, <1>50 DEF SellFails, storeVars
  <2>2. QED
    BY <1>2, <1>16, <2>1
<1>51. ASSUME NEW leg \in {"stopped", "taken"}, ExitAdvances(leg) PROVE DcaOk'
  BY <1>2, <1>17, <1>19, <1>51 DEF ExitAdvances
<1>52. QED
  BY <1>30, <1>31, <1>32, <1>33, <1>34, <1>35, <1>36, <1>37, <1>38, <1>39, <1>40, <1>41, <1>42,
     <1>43, <1>44, <1>45, <1>46, <1>47, <1>48, <1>49, <1>50, <1>51 DEF JobStep

\* A step of the running job keeps what is held under its exits if what it
\* leaves without one is what it is about to arm.
LEMMA ProceedEntries ==
  ASSUME Types, EntriesOk, queue # <<>>,
         NEW order, NEW todo, Proceed(order, todo),
         Job.id = Parent /\ todo = AtArm => bought'[Job.curve] >= 1,
         NoFaults' /\ open' =>
            \A c \in held' \ graduated' :
                status'[c] # "none" \/ (Job.id = Parent /\ todo = AtArm /\ Job.curve = c)
  PROVE  EntriesOk'
<1>1. MemoryOk
  BY DEF Types
<1>2. todo # <<>> => queue' # <<>> /\ Job'.id = Job.id /\ Job'.todo = todo /\ Job'.curve = Job.curve
  BY <1>1, ProceedJob
<1>3. HeadAt(Parent, {AtArm})' => Job.id = Parent /\ todo = AtArm
  BY <1>1, ProceedHeadOf, TodosDiffer
<1>4. AtArm # <<>>
  BY TodosDiffer
<1>5. HeadAt(Parent, {AtArm})' => bought'[Job'.curve] >= 1
  BY <1>2, <1>3, <1>4
<1>6. Job.id = Parent /\ todo = AtArm => HeadAt(Parent, {AtArm})' /\ Job'.curve = Job.curve
  BY <1>2, <1>4 DEF HeadAt
<1>7. QED
  BY <1>5, <1>6 DEF EntriesOk

\* Every step of the running job keeps what is held under an exit.
LEMMA JobStepEntries ==
  ASSUME Types, kind \in {"sniper", "autopilot"}, JobStep, EntriesOk
  PROVE  EntriesOk'
<1>1. /\ queue # <<>> /\ MemoryOk /\ Queued /\ FaultsOk
      /\ ChainStep /\ open' = open /\ graduated' = graduated
  BY JobStepRuns, JobStepChain DEF Types, MemoryOk
<1>2. /\ Job.curve \in Curves /\ held \subseteq Curves
      /\ \A c \in Curves : status[c] # "none" => status'[c] # "none"
  BY <1>1, OrderIs, JobStepStatus DEF Types, ChainOk
<1>3. /\ NoFaults' => NoFaults
      /\ \A f \in {"answer", "arm", "crash"} : Fault(f) => ~NoFaults'
  BY <1>1, JobStepFaults, NoFaultsYet
<1>4. NoFaults /\ open => \A c \in held \ graduated :
          status[c] # "none" \/ (HeadAt(Parent, {AtArm}) /\ Job.curve = c)
  BY DEF EntriesOk
<1>5. HeadAt(Parent, {AtArm}) => Doing("arm") /\ Job.todo = AtArm
  BY TodoParts DEF HeadAt, Doing
\* any step but the landing of a buy and the post of the exit
<1>6. ASSUME NEW order, NEW todo, Proceed(order, todo), todo # AtArm, held' \subseteq held, ~Doing("arm")
      PROVE  EntriesOk'
  BY <1>1, <1>2, <1>3, <1>4, <1>5, <1>6, ProceedEntries
<1>7. \A step \in {"gate", "decide", "buy", "retreat", "count", "record", "mirror", "stop", "take",
                   "stopped", "taken", "prune"} : Doing(step) => ~Doing("arm")
  BY DEF Doing
<1>8. UNCHANGED chainVars => held' \subseteq held
  BY DEF chainVars
<1>9. /\ <<"decide">> # AtArm /\ <<>> # AtArm /\ <<"buy">> # AtArm /\ <<"retreat">> # AtArm
      /\ <<"mirror">> # AtArm /\ <<"prune">> # AtArm /\ <<"stop">> # AtArm /\ <<"take">> # AtArm
      /\ AtRecord # AtArm /\ AtPrune # AtArm /\ AtCount # AtArm
      /\ AfterSell("stop") # AtArm /\ AfterSell("take") # AtArm /\ AfterSell("mirror") # AtArm
  BY DEF AtArm, AtRecord, AtPrune, AtCount, AfterSell
<1>10. /\ Doing("arm") => Job.todo = AtArm /\ Job.id = Parent
       /\ Doing("buy") => Job.id = Parent
       /\ Doing("count") => Job.todo = AtCount
       /\ Doing("stopped") => Job.todo = AtStopped
       /\ Doing("taken") => Job.todo = AtTaken
       /\ Doing("prune") => Job.todo \in {AtPrune, AtLastPrune}
  BY <1>1, DoingIs
<1>20. CASE GatePasses
  BY <1>6, <1>7, <1>8, <1>9, <1>20 DEF GatePasses
<1>21. CASE GateCloses
  BY <1>6, <1>7, <1>8, <1>9, <1>21 DEF GateCloses
<1>22. CASE Declines
  BY <1>6, <1>7, <1>8, <1>9, <1>22 DEF Declines
<1>23. CASE Closes
  BY <1>6, <1>7, <1>8, <1>9, <1>23 DEF Closes, Deciding
<1>24. CASE ClosesQuietly
  BY <1>6, <1>7, <1>8, <1>9, <1>24 DEF ClosesQuietly, Deciding
<1>25. CASE DecidesToBuy
  BY <1>6, <1>7, <1>8, <1>9, <1>25 DEF DecidesToBuy, Deciding
<1>26. CASE ClaimsInVain
  BY <1>6, <1>7, <1>8, <1>9, <1>26 DEF ClaimsInVain, Deciding
<1>27. CASE BuySettles
  <2>1. Buys /\ Doing("buy") /\ Proceed(Order, AtArm) /\ Job.id = Parent /\ status' = status
    BY <1>10, <1>27 DEF BuySettles, Buys, AfterBuy, AtArm, storeVars
  <2>2. bought'[Job.curve] >= 1
    <3>1. bought \in [Curves -> Nat] /\ bought' = [bought EXCEPT ![Job.curve] = @ + 1]
      BY <2>1 DEF Buys, Types, ChainOk
    <3>2. QED
      BY <1>2, <3>1
  <2>3. ASSUME NoFaults', open', NEW c \in held' \ graduated'
        PROVE  status'[c] # "none" \/ Job.curve = c
    <3>1. c \in held \ graduated \/ c = Job.curve
      BY <1>1, <2>1 DEF Buys
    <3>2. ~HeadAt(Parent, {AtArm})
      BY <1>5, <1>7, <2>1
    <3>3. QED
      BY <1>1, <1>3, <1>4, <2>1, <2>3, <3>1, <3>2
  <2>4. QED
    BY <1>1, <2>1, <2>2, <2>3, ProceedEntries
<1>28. CASE BuyUnanswered
  <2>1. PICK todo \in {<<"buy">>, <<"retreat">>} : Proceed(Order, todo)
    BY <1>28 DEF BuyUnanswered
  <2>2. ~NoFaults'
    BY <1>3, <1>28 DEF BuyUnanswered
  <2>3. QED
    BY <1>1, <1>9, <2>1, <2>2, ProceedEntries
<1>29. CASE BuyFails
  BY <1>6, <1>7, <1>8, <1>9, <1>29 DEF BuyFails
<1>30. CASE Retreats
  BY <1>6, <1>7, <1>8, <1>9, <1>30 DEF Retreats
<1>31. CASE Arms
  <2>1. Doing("arm") /\ Proceed(Order, AtCount) /\ UNCHANGED chainVars
    BY <1>10, <1>31, TodoParts DEF Arms
  <2>2. ASSUME NoFaults', open', NEW c \in held' \ graduated' PROVE status'[c] # "none"
    <3>1. PostOrder(Job.curve)
      BY <1>3, <1>31, <2>2 DEF Arms
    <3>2. c \in Curves /\ c \in held \ graduated
      BY <1>2, <2>1, <2>2 DEF chainVars
    <3>3. CASE c = Job.curve
      BY <3>1, <3>2, <3>3 DEF PostOrder, Types, StoreOk, Ids
    <3>4. CASE c # Job.curve
      BY <1>1, <1>2, <1>3, <1>4, <2>2, <3>2, <3>4
    <3>5. QED
      BY <3>3, <3>4
  <2>3. QED
    BY <1>1, <1>9, <2>1, <2>2, ProceedEntries
<1>32. CASE Counts
  <2>1. Doing("count") /\ Proceed(Counted, Tail(Job.todo)) /\ UNCHANGED chainVars
    BY <1>32 DEF Counts
  <2>2. Tail(Job.todo) # AtArm
    BY <1>9, <1>10, <2>1, TodoParts
  <2>3. QED
    BY <1>6, <1>7, <1>8, <2>1, <2>2
<1>33. CASE Records
  <2>1. Doing("record") /\ Proceed(Order, <<>>) /\ UNCHANGED chainVars
    BY <1>33 DEF Records
  <2>2. QED
    BY <1>6, <1>7, <1>8, <1>9, <2>1
<1>34. CASE DecidesToMirror
  BY <1>34 DEF DecidesToMirror
<1>35. CASE ExitCloses
  BY <1>6, <1>7, <1>8, <1>9, <1>35 DEF ExitCloses, Deciding
<1>36. CASE ExitsAsDust
  BY <1>6, <1>7, <1>8, <1>9, <1>36 DEF ExitsAsDust, Deciding
<1>37. CASE Prunes
  <2>1. Doing("prune") /\ Proceed(Order, Tail(Job.todo)) /\ UNCHANGED chainVars
    BY <1>37 DEF Prunes
  <2>2. Tail(Job.todo) # AtArm
    BY <1>9, <1>10, <2>1, TodoParts
  <2>3. QED
    BY <1>6, <1>7, <1>8, <2>1, <2>2
<1>38. ASSUME NEW leg \in {"stop", "take"}, DecidesToExit(leg) PROVE EntriesOk'
  <2>1. Proceed(Order, <<leg>>) /\ Doing("decide") /\ UNCHANGED chainVars /\ <<leg>> # AtArm
    BY <1>9, <1>38 DEF DecidesToExit, Deciding
  <2>2. QED
    BY <1>6, <1>7, <1>8, <2>1
<1>39. ASSUME NEW leg \in {"stop", "take", "mirror"}, SellSettles(leg) PROVE EntriesOk'
  <2>1. Proceed(Order, AfterSell(leg)) /\ Doing(leg) /\ held' \subseteq held /\ AfterSell(leg) # AtArm
    BY <1>9, <1>39 DEF SellSettles, Sells
  <2>2. QED
    BY <1>6, <1>7, <2>1
<1>40. ASSUME NEW leg \in {"stop", "take", "mirror"}, SellFails(leg) PROVE EntriesOk'
  <2>1. Proceed(Order, <<>>) /\ Doing(leg) /\ held' \subseteq held
    BY <1>8, <1>40 DEF SellFails, Sells
  <2>2. QED
    BY <1>6, <1>7, <1>9, <2>1
<1>41. ASSUME NEW leg \in {"stopped", "taken"}, ExitAdvances(leg) PROVE EntriesOk'
  <2>1. Doing(leg) /\ Proceed(ExitAfter(leg), Tail(Job.todo)) /\ UNCHANGED chainVars
    BY <1>41 DEF ExitAdvances
  <2>2. Tail(Job.todo) # AtArm
    BY <1>9, <1>10, <2>1, TodoParts
  <2>3. QED
    BY <1>6, <1>7, <1>8, <2>1, <2>2
<1>42. QED
  BY <1>20, <1>21, <1>22, <1>23, <1>24, <1>25, <1>26, <1>27, <1>28, <1>29, <1>30, <1>31, <1>32,
     <1>33, <1>34, <1>35, <1>36, <1>37, <1>38, <1>39, <1>40, <1>41 DEF JobStep

\* A step of the user, of the chain or of the sync keeps the exits right: the
\* objects it leaves were there or come from a posted row, and the running job
\* goes on, unless the step is a restart that costs a fault.
LEMMA QuietArmed ==
  ASSUME Types, Types', Armed, ChainStep, UNCHANGED <<saved, bought, held, kind>>,
         open' => open, graduated \subseteq graduated',
         \A c \in Curves : /\ status'[c] # "none" <=> status[c] # "none"
                           /\ status'[c] = "done" => status[c] = "done",
         status'[DcaCurve] = "none" => status[DcaCurve] = "none",
         \A id \in Ids, g \in 1 .. Generations : Live(id, g)' =>
            \/ Live(id, g) /\ objects'[id][g] = objects[id][g]
            \/ status[id] # "none" /\ objects'[id][g] = Object(FALSE, saved[id]),
         queue' # <<>> => \/ Job'.todo = AtGate
                          \/ queue # <<>> /\ Job' = Job /\ Order' = Order,
         NoFaults' => /\ NoFaults
                      /\ Owing => queue' # <<>> /\ Job' = Job /\ Order' = Order
  PROVE  Armed'
<1>1. ASSUME NEW id, NEW todos, AtGate \notin todos, HeadAt(id, todos)'
      PROVE  HeadAt(id, todos) /\ Job' = Job /\ Order' = Order
  BY <1>1 DEF HeadAt
<1>2. ASSUME NEW c \in Curves PROVE ExitOf(c)'
  <2>1. c \in Ids /\ ExitOf(c)
    BY Constants DEF Armed
  <2>2. HeadAt(c, {AtStopped})' => HeadAt(c, {AtStopped})
    BY <1>1, TodosDiffer
  <2>3. ~Object(FALSE, saved[c]).done
    BY DEF Object
  <2>4. QED
    BY <2>1, <2>2, <2>3, ExitKept
<1>3. /\ Spent => Owing
      /\ HeadAt(Parent, {AtArm}) => Owing
  BY TodoParts DEF Spent, HeadAt, Owing, AtArm, AtRecord, AtLastArm
<1>4. ASSUME kind = "dca", DcaOk PROVE DcaOk'
  <2>1. Over(DcaCurve) => Over(DcaCurve)'
    BY DEF Over
  <2>2. ASSUME NEW g \in 1 .. Generations, Live(Parent, g)'
        PROVE  DcaObject(objects[Parent][g], bought[DcaCurve], Over(DcaCurve))'
    <3>1. CASE Live(Parent, g) /\ objects'[Parent][g] = objects[Parent][g]
      <4>1. DcaObject(objects[Parent][g], bought[DcaCurve], Over(DcaCurve))
        BY <1>4, <3>1 DEF DcaOk
      <4>2. QED
        BY <2>1, <3>1, <4>1 DEF DcaObject
    <3>2. CASE objects'[Parent][g] = Object(FALSE, saved[Parent])
      <4>1. objects'[Parent][g].count = saved[Parent].count /\ ~objects'[Parent][g].done
        BY <3>2 DEF Object
      <4>2. saved[Parent].count <= bought[DcaCurve]
        BY <1>4 DEF DcaOk
      <4>3. QED
        BY <4>1, <4>2 DEF DcaObject
    <3>3. QED
      BY <2>2, <3>1, <3>2, Constants
  <2>3. ASSUME queue' # <<>>, Job'.id = Parent
        PROVE  DcaJob(Job.todo, Order, bought[DcaCurve])'
    <3>1. CASE Job'.todo = AtGate
      BY <3>1, TodosDiffer DEF DcaJob
    <3>2. CASE queue # <<>> /\ Job' = Job /\ Order' = Order
      <4>1. DcaJob(Job.todo, Order, bought[DcaCurve])
        BY <1>4, <2>3, <3>2 DEF DcaOk
      <4>2. QED
        BY <3>2, <4>1 DEF DcaJob
    <3>3. QED
      BY <2>3, <3>1, <3>2
  <2>4. ASSUME DcaPending' PROVE Spent' /\ Order'.done
    <3>1. DcaPending
      BY <2>4 DEF DcaPending
    <3>2. Spent /\ Order.done
      BY <1>4, <3>1 DEF DcaOk
    <3>3. queue' # <<>> /\ Job' = Job /\ Order' = Order
      BY <1>3, <2>4, <3>2 DEF DcaPending
    <3>4. QED
      BY <3>2, <3>3 DEF Spent, HeadAt
  <2>5. QED
    BY <1>4, <2>2, <2>3, <2>4 DEF DcaOk
<1>5. ASSUME kind # "dca", EntriesOk PROVE EntriesOk'
  <2>1. HeadAt(Parent, {AtArm})' => bought'[Job'.curve] >= 1
    BY <1>1, <1>5, TodosDiffer DEF EntriesOk
  <2>2. ASSUME NoFaults', open', NEW c \in held' \ graduated'
        PROVE  status'[c] # "none" \/ (HeadAt(Parent, {AtArm})' /\ Job'.curve = c)
    <3>1. c \in Curves /\ c \in held \ graduated
      BY <2>2 DEF Types, ChainOk
    <3>2. status[c] # "none" \/ (HeadAt(Parent, {AtArm}) /\ Job.curve = c)
      BY <1>5, <2>2, <3>1 DEF EntriesOk
    <3>3. HeadAt(Parent, {AtArm}) => HeadAt(Parent, {AtArm})' /\ Job' = Job
      BY <1>3, <2>2 DEF HeadAt
    <3>4. QED
      BY <3>1, <3>2, <3>3
  <2>3. QED
    BY <2>1, <2>2 DEF EntriesOk
<1>6. QED
  BY <1>2, <1>4, <1>5 DEF Armed

\* Nothing is held at the start.
LEMMA InitArmed ==
  ASSUME Init, Curves # {}
  PROVE  Armed
<1>1. /\ held = {} /\ queue = <<>> /\ DOMAIN queue = {} /\ Parent \in Ids
      /\ \A id \in Ids : tracked[id] = 0 /\ saved[id].count = 0
      /\ \A c \in Curves : c \in Ids /\ status[c] = "none"
  BY Constants DEF Init, Untracked, StoreInit, NewParams, Ids
<1>2. /\ \A id \in Ids, g \in 1 .. Generations : ~Live(id, g)
      /\ \A id, todos : ~HeadAt(id, todos)
  BY <1>1 DEF Live, InQueue, HeadAt
<1>3. \A c \in Curves : ExitOf(c)
  BY <1>1, <1>2 DEF ExitOf
<1>4. EntriesOk
  BY <1>1, <1>2 DEF EntriesOk
<1>5. ASSUME kind = "dca" PROVE DcaOk
  <2>1. ~DcaPending
    BY <1>1, Constants DEF DcaPending
  <2>2. saved[Parent].count <= bought[DcaCurve]
    BY <1>1, DcaIs DEF Init
  <2>3. QED
    BY <1>1, <1>2, <2>1, <2>2 DEF DcaOk
<1>6. QED
  BY <1>3, <1>4, <1>5 DEF Armed

\* Closing, graduating and cancelling disarm nothing.
LEMMA ChainArmed ==
  ASSUME Types, Types', Armed, Curves # {},
         UNCHANGED vars \/ SessionCloses \/ (\E c \in Curves : Graduates(c)) \/ (\E id \in Ids : Cancel(id))
  PROVE  Armed'
<1>1. /\ UNCHANGED <<saved, bought, held, kind, brainVars, faults>>
      /\ open' => open
      /\ graduated \subseteq graduated' /\ ChainStep
  BY DEF vars, SessionCloses, Graduates, Cancel, CancelOrder, storeVars, chainVars, ChainStep
<1>2. \A c \in Curves : /\ status'[c] # "none" <=> status[c] # "none"
                        /\ status'[c] = "done" => status[c] = "done"
  BY DEF vars, SessionCloses, Graduates, Cancel, CancelOrder, storeVars, Types, StoreOk, Ids
<1>3. status'[DcaCurve] = "none" => status[DcaCurve] = "none"
  BY <1>2, DcaIs
<1>4. /\ Job' = Job /\ Order' = Order /\ queue' = queue /\ objects' = objects /\ NoFaults' = NoFaults
      /\ \A id, g : Live(id, g)' <=> Live(id, g)
  BY <1>1 DEF Job, Order, Live, InQueue, NoFaults, brainVars
<1>5. Owing => queue # <<>>
  BY DEF Owing
<1>6. QED
  BY <1>1, <1>2, <1>3, <1>4, <1>5, QuietArmed

\* A restart between a buy and its exit is a fault.
LEMMA RestartArmed ==
  ASSUME Types, Types', Armed, Restart
  PROVE  Armed'
<1>1. /\ tracked' = Untracked /\ queue' = <<>> /\ UNCHANGED <<storeVars, kind, chainVars>>
  BY DEF Restart
<1>2. DOMAIN queue' = {} /\ \A id \in Ids : tracked'[id] = 0
  BY <1>1 DEF Untracked
<1>3. \A id \in Ids, g \in 1 .. Generations : ~Live(id, g)'
  BY <1>2 DEF Live, InQueue
<1>4. NoFaults' => NoFaults /\ ~Owing
  BY NoFaultsYet DEF Restart, Types, Faults
<1>5. UNCHANGED <<saved, bought, held, kind, status, open, graduated>> /\ ChainStep
  BY <1>1 DEF storeVars, chainVars, ChainStep
<1>6. QED
  BY <1>1, <1>3, <1>4, <1>5, QuietArmed

\* The sync disarms nothing.
LEMMA SyncArmed ==
  ASSUME Types, Types', Armed, Sync
  PROVE  Armed'
<1>1. UNCHANGED <<saved, bought, held, kind, status, open, graduated, faults>> /\ ChainStep
  BY SyncDoes DEF storeVars, chainVars, ChainStep
<1>2. /\ queue # <<>> => queue' # <<>> /\ Job' = Job /\ Order' = Order
      /\ queue = <<>> /\ queue' # <<>> => Job'.todo = AtGate
  BY SyncHead
<1>3. ASSUME NEW id \in Ids, NEW g \in 1 .. Generations, Live(id, g)'
      PROVE  \/ Live(id, g) /\ objects'[id][g] = objects[id][g]
             \/ status[id] # "none" /\ objects'[id][g] = Object(FALSE, saved[id])
  <2>1. CASE Loaded(id) /\ g = tracked'[id]
    <3>1. objects'[id][g] = Object(FALSE, saved[id])
      BY <1>3, <2>1, SyncDoes
    <3>2. status[id] = "active"
      BY <2>1, SyncDoes DEF Loaded
    <3>3. QED
      BY <3>1, <3>2
  <2>2. CASE ~(Loaded(id) /\ g = tracked'[id])
    BY <1>3, <2>2, SyncDoes
  <2>3. QED
    BY <2>1, <2>2
<1>4. NoFaults' = NoFaults /\ (Owing => queue # <<>>)
  BY <1>1 DEF NoFaults, Owing
<1>5. QED
  BY <1>1, <1>2, <1>3, <1>4, QuietArmed

\* Neither does a wake.
LEMMA WakeArmed ==
  ASSUME Types, Types', Armed, NEW id \in Ids, NEW c \in Curves, Wake(id, c)
  PROVE  Armed'
<1>1. /\ UNCHANGED <<saved, bought, held, kind, status, open, graduated, faults, objects>> /\ ChainStep
      /\ \A i \in Ids, g \in 1 .. Generations : Live(i, g)' <=> Live(i, g)
  BY WakeDoes DEF storeVars, chainVars, ChainStep
<1>2. /\ queue # <<>> => queue' # <<>> /\ Job' = Job /\ Order' = Order
      /\ queue = <<>> /\ queue' # <<>> => Job'.todo = AtGate
  BY WakeHead
<1>3. NoFaults' = NoFaults /\ (Owing => queue # <<>>)
  BY <1>1 DEF NoFaults, Owing
<1>4. QED
  BY <1>1, <1>2, <1>3, QuietArmed

\* What keeps the exits armed.
ExitInv == Types /\ (kind # "copytrade" /\ Curves # {} => Armed)

\* A position is never left without its exit: while the session is open, what
\* was bought is under an exit that is active or that the user has cancelled,
\* or the job that bought it is still to arm one, except after the faults.
THEOREM ExitsAreArmed == Spec => []ExitArmed
<1>1. Init => ExitInv
  BY InitTypes, InitArmed DEF ExitInv
<1>2. ExitInv /\ [Next]_vars => ExitInv'
  <2> SUFFICES ASSUME ExitInv, [Next]_vars PROVE ExitInv'
    OBVIOUS
  <2>1. Types /\ Types' /\ kind' = kind
    BY NextTypes, CancelsGrow DEF ExitInv
  <2>2. ASSUME kind # "copytrade", Curves # {} PROVE Armed'
    <3>1. Armed
      BY <2>2 DEF ExitInv
    <3>2. CASE JobStep
      <4>1. \A c \in Curves : ExitOf(c)'
        BY <2>1, <2>2, <3>1, <3>2, JobStepExit
      <4>2. kind \in {"sniper", "dca", "autopilot"}
        BY <2>1, <2>2, Constants DEF Types, MemoryOk
      <4>3. IF kind = "dca" THEN DcaOk' ELSE EntriesOk'
        BY <2>1, <3>1, <3>2, <4>2, JobStepDca, JobStepEntries DEF Armed
      <4>4. QED
        BY <2>1, <4>1, <4>3 DEF Armed
    <3>3. CASE UNCHANGED vars \/ SessionCloses \/ (\E c \in Curves : Graduates(c)) \/ (\E id \in Ids : Cancel(id))
      BY <2>1, <2>2, <3>1, <3>3, ChainArmed
    <3>4. QED
      BY <2>1, <3>1, <3>2, <3>3, RestartArmed, SyncArmed, WakeArmed DEF Next
  <2>3. QED
    BY <2>1, <2>2 DEF ExitInv
<1>3. ExitInv => ExitArmed
  <2> SUFFICES ASSUME ExitInv, open, NoFaults, NEW c \in held \ graduated, kind # "copytrade",
                      ~(kind = "dca" /\ saved[Parent].count < Budget),
                      ~(bought[c] > (IF kind = "dca" THEN Budget ELSE 1)),
                      status[c] \notin {"active", "cancelled"}
               PROVE  Owing /\ Job.curve = c
    BY DEF ExitArmed, NoFaults
  <2>1. Types /\ Armed /\ c \in Curves
    BY DEF ExitInv, Types, ChainOk
  <2>2. status[c] = "none"
    <3>1. status[c] # "done"
      <4>1. ~Unneeded(c)
        BY DEF Unneeded, Over, NewLimit
      <4>2. QED
        BY <2>1, <4>1 DEF Armed, ExitOf
    <3>2. status[c] \in {"none", "active", "done", "cancelled"}
      BY <2>1, Constants DEF Types, StoreOk
    <3>3. QED
      BY <3>1, <3>2
  <2>3. CASE kind = "dca"
    <3>1. DcaOk /\ c = DcaCurve
      BY <2>1, <2>3 DEF Armed, DcaOk
    <3>2. saved[Parent].count >= Budget
      BY <2>1, <2>3, NumbersAre
    <3>3. Spent
      BY <2>2, <3>1, <3>2 DEF DcaOk, DcaPending
    <3>4. Owing
      BY <3>3, TodoParts DEF Spent, HeadAt, Owing
    <3>5. Job.curve = c
      <4>1. Queued /\ queue # <<>> /\ Job.id = Parent
        BY <2>1, <3>3 DEF Types, MemoryOk, Spent, HeadAt
      <4>2. QED
        BY <2>3, <3>1, <4>1, JobIs, DcaIs
    <3>6. QED
      BY <3>4, <3>5
  <2>4. CASE kind # "dca"
    <3>1. HeadAt(Parent, {AtArm}) /\ Job.curve = c
      BY <2>1, <2>2, <2>4 DEF Armed, EntriesOk
    <3>2. QED
      BY <3>1, TodoParts DEF HeadAt, Owing
  <2>5. QED
    BY <2>3, <2>4
<1>4. QED
  BY <1>1, <1>2, <1>3, PTL DEF Spec

---------------------------------------------------------------------------
(* What the user has cancelled *)

\* A step of a job that is not about an order leaves its cancelled row alone,
\* and puts no job of the order into the queue.
LEMMA JobStepGone ==
  ASSUME Types, JobStep, NEW id \in Ids, LetGo(id)
  PROVE  LetGo(id)' /\ (id = Parent => bought' = bought)
<1>1. queue # <<>> /\ Queued
  BY JobStepRuns DEF Types, MemoryOk
<1>2. Job = queue[1] /\ 1 \in DOMAIN queue /\ Job.id # id /\ Job \in JobType
  BY <1>1, JobIs DEF LetGo
<1>3. status \in [Ids -> {"none", "active", "done", "cancelled"}] /\ status[id] = "cancelled"
  BY DEF Types, StoreOk, LetGo
<1>4. status'[id] = "cancelled"
  <2>1. \A state, params : PatchOrder(Job.id, state, params) => status'[id] = "cancelled"
    BY <1>2, <1>3 DEF PatchOrder
  <2>2. \A c : PostOrder(c) => status'[id] = "cancelled"
    BY <1>3 DEF PostOrder
  <2>3. \A order : Persist(order) => status'[id] = "cancelled"
    BY <1>3, <2>1 DEF Persist, storeVars
  <2>4. UNCHANGED storeVars => status'[id] = "cancelled"
    BY <1>3 DEF storeVars
  <2>5. QED
    BY <1>3, <2>1, <2>2, <2>3, <2>4 DEF JobStep, GatePasses, GateCloses, Declines, Closes, ClosesQuietly,
       DecidesToBuy, ClaimsInVain, BuySettles, BuyUnanswered, BuyFails, Retreats, Arms, Counts, Records,
       DecidesToMirror, ExitCloses, ExitsAsDust, Prunes, DecidesToExit, SellSettles, SellFails, ExitAdvances
<1>5. \E order, todo : Proceed(order, todo)
  BY DEF JobStep, GatePasses, GateCloses, Declines, Closes, ClosesQuietly,
     DecidesToBuy, ClaimsInVain, BuySettles, BuyUnanswered, BuyFails, Retreats, Arms, Counts, Records,
     DecidesToMirror, ExitCloses, ExitsAsDust, Prunes, DecidesToExit, SellSettles, SellFails, ExitAdvances
<1>6. PICK order, todo : Proceed(order, todo)
  BY <1>5
<1>7. tracked'[id] = 0
  BY <1>6 DEF Proceed, LetGo
<1>8. ASSUME NEW k \in DOMAIN queue' PROVE queue'[k].id # id
  <2>1. CASE todo = <<>>
    <3>1. k + 1 \in DOMAIN queue /\ queue'[k] = queue[k + 1]
      BY <1>1, <1>6, <2>1, ProceedQueue
    <3>2. QED
      BY <3>1 DEF LetGo
  <2>2. CASE todo # <<>>
    <3>1. queue'[1].id = Job.id
      BY <1>1, <1>2, <1>6, <2>2, ProceedQueue DEF JobType
    <3>2. k = 1 \/ (k \in DOMAIN queue /\ queue'[k] = queue[k])
      BY <1>1, <1>6, <2>2, ProceedQueue
    <3>3. QED
      BY <1>2, <3>1, <3>2 DEF LetGo
  <2>3. QED
    BY <2>1, <2>2
<1>9. id = Parent => bought' = bought
  <2>1. Buys => Job.id = Parent
    BY <1>1, DoingIs DEF Buys
  <2>2. ~Buys => bought' = bought
    BY JobStepChain DEF ChainStep, Sells, chainVars, SessionCloses, Graduates
  <2>3. QED
    BY <1>2, <2>1, <2>2
<1>10. QED
  BY <1>4, <1>7, <1>8, <1>9 DEF LetGo

\* Neither does any other step: the sync loads active orders only, and what is
\* not tracked is not woken.
LEMMA StepGone ==
  ASSUME Types, [Next]_vars, NEW id \in Ids, LetGo(id)
  PROVE  LetGo(id)' /\ (id = Parent => bought' = bought)
<1>1. status[id] = "cancelled" /\ tracked[id] = 0 /\ \A k \in DOMAIN queue : queue[k].id # id
  BY DEF LetGo
<1>2. CASE UNCHANGED vars \/ SessionCloses \/ (\E c \in Curves : Graduates(c))
  BY <1>1, <1>2 DEF vars, SessionCloses, Graduates, storeVars, chainVars, brainVars, LetGo
<1>3. ASSUME NEW i \in Ids, Cancel(i) PROVE LetGo(id)' /\ (id = Parent => bought' = bought)
  <2>1. status' = [status EXCEPT ![i] = "cancelled"] /\ UNCHANGED <<tracked, queue, bought>>
    BY <1>3 DEF Cancel, CancelOrder, chainVars, brainVars
  <2>2. status'[id] = "cancelled"
    BY <1>1, <2>1 DEF Types, StoreOk
  <2>3. QED
    BY <1>1, <2>1, <2>2 DEF LetGo
<1>4. CASE Restart
  <2>1. tracked' = Untracked /\ queue' = <<>> /\ UNCHANGED <<status, bought>>
    BY <1>4 DEF Restart, storeVars, chainVars
  <2>2. DOMAIN queue' = {} /\ tracked'[id] = 0
    BY <2>1 DEF Untracked
  <2>3. QED
    BY <1>1, <2>1, <2>2 DEF LetGo
<1>5. CASE Sync
  <2>1. UNCHANGED <<status, bought>>
    BY <1>5, SyncDoes DEF storeVars, chainVars
  <2>2. tracked'[id] = 0
    BY <1>1, <1>5, SyncDoes
  <2>3. ASSUME NEW k \in DOMAIN queue' PROVE queue'[k].id # id
    <3>1. CASE k \in DOMAIN queue
      <4>1. queue'[k] = queue[k]
        BY <1>5, <3>1, SyncDoes
      <4>2. QED
        BY <1>1, <3>1, <4>1
    <3>2. CASE k \notin DOMAIN queue
      <4>1. Loaded(queue'[k].id)
        BY <1>5, <2>3, <3>2, SyncDoes
      <4>2. QED
        BY <2>2, <4>1 DEF Loaded
    <3>3. QED
      BY <3>1, <3>2
  <2>4. QED
    BY <1>1, <2>1, <2>2, <2>3 DEF LetGo
<1>6. ASSUME NEW i \in Ids, NEW c \in Curves, Wake(i, c)
      PROVE  LetGo(id)' /\ (id = Parent => bought' = bought)
  <2>1. UNCHANGED <<status, tracked, bought>>
    BY <1>6, WakeDoes DEF storeVars, chainVars
  <2>2. i # id
    BY <1>1, <1>6 DEF Wake
  <2>3. ASSUME NEW k \in DOMAIN queue' PROVE queue'[k].id # id
    <3>1. k \in DOMAIN queue \/ k = Len(queue) + 1
      <4>1. DOMAIN queue' = 1 .. Len(queue) + 1 /\ Len(queue) \in Nat /\ DOMAIN queue = 1 .. Len(queue)
        BY <1>6, WakeDoes
      <4>2. QED
        BY <4>1
    <3>2. queue'[Len(queue) + 1].id = i
      <4>1. queue'[Len(queue) + 1] = NewJob(i, tracked[i], c)
        BY <1>6, WakeDoes
      <4>2. QED
        BY <4>1 DEF NewJob
    <3>3. \A n \in DOMAIN queue : queue'[n] = queue[n]
      BY <1>6, WakeDoes
    <3>4. QED
      BY <1>1, <2>2, <3>1, <3>2, <3>3
  <2>4. QED
    BY <1>1, <2>1, <2>3 DEF LetGo
<1>7. CASE JobStep
  BY <1>7, JobStepGone
<1>8. QED
  BY <1>2, <1>3, <1>4, <1>5, <1>6, <1>7 DEF Next

\* A cancelled order that no job works on and ORDERS does not track is never
\* tracked or scheduled again, by any sync or restart, and buys nothing more.
THEOREM CancelledStaysGone == Spec => StaysGone
<1>1. Types /\ [Next]_vars =>
        [\A id \in Ids : LetGo(id) => LetGo(id)' /\ (id = Parent => bought' = bought)]_vars
  BY StepGone
<1>2. QED
  BY <1>1, InitTypes, NextTypes, PTL DEF Spec, StaysGone

=============================================================================
