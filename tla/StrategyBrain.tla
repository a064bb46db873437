--------------------------- MODULE StrategyBrain ---------------------------
(***************************************************************************)
(* The strategy brain (agent-runner/strategy.js).  It keeps an object in   *)
(* memory for every active order, wakes them on launches, trades and a     *)
(* timer, and runs one job at a time; across the awaits of a job the user  *)
(* cancels, the session closes, the sync removes and reloads orders, and   *)
(* the process restarts.                                                   *)
(*                                                                         *)
(* Parent is a sniper, a dca, an autopilot or a copytrade order.  All but  *)
(* the last carry a `then` block: a take-profit rung that sells a part,    *)
(* and a stop loss.  Prices, sizes, filters and cooldowns are not there: a *)
(* job may decline, and an exit's targets may be crossed, at any time.     *)
(***************************************************************************)
EXTENDS OrderStore, SequencesExt

CONSTANTS Kinds,        \* the strategies Parent may be
          Budget,       \* maxSnipes, buys, spendCapSui / perEntrySui
          MaxOpen,      \* maxOpenPositions
          Funds,        \* how many buys the session can pay
          Generations,  \* bound: objects of one order alive at a time
          MaxCancels,   \* bound: how often the user cancels an order
          MaxFaults     \* bound: lost answers, failed writes, costly restarts

ASSUME BrainAssumption == /\ {Budget, MaxOpen, Funds, Generations} \subseteq Nat \ {0}
                          /\ {MaxFaults, MaxCancels} \subseteq Nat
                          /\ Kinds \subseteq {"sniper", "dca", "autopilot", "copytrade"}

VARIABLES
    kind,       \* the type of Parent
    open,       \* the session is neither revoked nor closed nor expired
    graduated,  \* the curves that have graduated
    held,       \* the curves whose tokens are parked on the session
    bought,     \* how many buys landed on each curve
    objects,    \* the order objects, by id and generation
    tracked,    \* ORDERS: the generation tracked for each id, 0 for none
    firing,     \* the ids with a job
    queue,      \* the jobs; the first one is running
    cancels,    \* how often the user has cancelled
    faults      \* how often each fault has happened

chainVars == <<open, graduated, held, bought>>
brainVars == <<objects, tracked, firing, queue>>
vars == <<status, saved, kind, chainVars, brainVars, cancels, faults>>

\* an object with the progress of params
Object(done, params) == [done |-> done, count |-> params.count, curves |-> params.curves]

NoObject == Object(TRUE, NewParams)
NoObjects == [id \in Ids |-> [g \in 1..Generations |-> NoObject]]
Untracked == [id \in Ids |-> 0]

Faults == {"answer", "write", "arm", "crash"}

Init == /\ StoreInit
        /\ kind \in Kinds
        /\ open = TRUE /\ graduated = {} /\ held = {}
        /\ bought = [c \in Curves |-> 0]
        /\ objects = NoObjects /\ tracked = Untracked
        /\ firing = {} /\ queue = <<>> /\ cancels = 0
        /\ faults = [f \in Faults |-> 0]

Total(buys) == FoldFunction(+, 0, buys)
TotalBought == Total(bought)

Fault(f) == /\ faults["answer"] + faults["write"] + faults["arm"] + faults["crash"] < MaxFaults
            /\ faults' = [faults EXCEPT ![f] = @ + 1]

---------------------------------------------------------------------------
(* Objects and jobs *)

InQueue(id, g, q) == \E k \in DOMAIN q : q[k].id = id /\ q[k].generation = g

\* what memory still reaches, with ORDERS t and the queue q
Collected(h, t, q) ==
    [id \in Ids |-> [g \in 1..Generations |->
        IF t[id] = g \/ InQueue(id, g, q) THEN h[id][g] ELSE NoObject]]

NewJob(id, g, c) == [id |-> id, generation |-> g, curve |-> c, todo |-> <<"gate", "decide">>]

Job == Head(queue)
Order == objects[Job.id][Job.generation]
Doing(step) == queue # <<>> /\ Head(Job.todo) = step

\* the finally of schedule
Released_mut(id) == firing
Released(id) == firing \ {id}

\* The job leaves its object as order and has the steps in todo left; at its
\* end the order may be scheduled again and pump takes the next job.
Proceed(order, todo) ==
    LET ends == todo = <<>>
        rest == IF ends THEN Tail(queue) ELSE [queue EXCEPT ![1].todo = todo]
    IN  /\ queue' = rest
        /\ firing' = IF ends THEN Released(Job.id) ELSE firing
        /\ objects' = Collected([objects EXCEPT ![Job.id][Job.generation] = order], tracked, rest)
        /\ UNCHANGED <<tracked, kind, cancels>>

\* persistParams and persistOrder write the progress and the status of the
\* object over the row; a write that fails is only logged
Persist(order) ==
    \/ /\ PatchOrder(Job.id, IF order.done THEN "done" ELSE "active",
                     [count |-> order.count, curves |-> order.curves])
       /\ UNCHANGED faults
    \/ Fault("write") /\ UNCHANGED storeVars

---------------------------------------------------------------------------
(* The user, the chain, and the loops that feed the queue *)

Cancel(id) == /\ cancels < MaxCancels /\ cancels' = cancels + 1
              /\ CancelOrder(id)
              /\ UNCHANGED <<kind, chainVars, brainVars, faults>>

SessionCloses == /\ open /\ open' = FALSE
                 /\ UNCHANGED <<storeVars, kind, graduated, held, bought, brainVars, cancels, faults>>

Graduates(c) == /\ c \notin graduated
                /\ graduated' = graduated \cup {c}
                /\ UNCHANGED <<storeVars, kind, open, held, bought, brainVars, cancels, faults>>

\* the running job has bought what is not yet counted or not yet protected
Owing == /\ queue # <<>> /\ Job.id = Parent
         /\ Head(Job.todo) \in {"arm", "count", "record"}

Restart ==
    /\ tracked # Untracked \/ queue # <<>>
    /\ objects' = NoObjects /\ tracked' = Untracked
    /\ firing' = {} /\ queue' = <<>>
    /\ IF Owing THEN Fault("crash") ELSE UNCHANGED faults
    /\ UNCHANGED <<storeVars, kind, chainVars, cancels>>

FreeGenerations(id) == {g \in 1..Generations : tracked[id] # g /\ ~InQueue(id, g, queue)}

Gone_mut == {}

\* what is tracked although it is not active any more
Gone == {id \in Ids : tracked[id] # 0} \ ActiveOrders

\* syncOrders: load the active orders that are not tracked, waking the exits
\* among them at once, and drop the others
Sync ==
    LET new    == {id \in ActiveOrders : tracked[id] = 0 /\ FreeGenerations(id) # {}}
        gen(id) == IF id \in new THEN Min(FreeGenerations(id))
                   ELSE IF id \in Gone THEN 0 ELSE tracked[id]
        loaded == [id \in Ids |-> [g \in 1..Generations |->
                      IF id \in new /\ g = gen(id) THEN Object(FALSE, saved[id])
                      ELSE objects[id][g]]]
        exits  == SetToSeq(new \ ({Parent} \cup firing))
        woken  == queue \o [k \in DOMAIN exits |-> NewJob(exits[k], gen(exits[k]), exits[k])]
    IN  /\ tracked' = [id \in Ids |-> gen(id)]
        /\ queue' = woken
        /\ firing' = (firing \cup Range(exits)) \ Gone
        /\ objects' = Collected(loaded, tracked', woken)
        /\ UNCHANGED <<storeVars, kind, chainVars, cancels, faults>>

\* an exit and a dca order have a curve of their own
DcaCurve == CHOOSE c \in Curves : TRUE
Targets(id) == CASE id \in Curves -> {id}
                 [] id = Parent /\ kind = "dca" -> {DcaCurve}
                 [] OTHER -> Curves

\* handleEvent and dcaTick: a launch, a trade or a tick of the timer; an
\* autopilot's curve is the candidate it will find
Wake(id, c) ==
    /\ tracked[id] # 0 /\ ~objects[id][tracked[id]].done /\ id \notin firing
    /\ c \in Targets(id)
    /\ firing' = firing \cup {id}
    /\ queue' = Append(queue, NewJob(id, tracked[id], c))
    /\ UNCHANGED <<storeVars, kind, chainVars, objects, tracked, cancels, faults>>

---------------------------------------------------------------------------
(* Every job: the session gate, and declining *)

\* the gate believes its cache for a while after the session has closed
GatePasses == /\ Doing("gate")
              /\ Proceed(Order, <<"decide">>)
              /\ UNCHANGED <<storeVars, chainVars, faults>>

\* closeOrderNoSession: the reason and the terminal status
GateCloses ==
    /\ Doing("gate") /\ ~open
    /\ \/ PatchOrder(Job.id, "done", saved[Job.id]) /\ UNCHANGED faults
       \/ Fault("write") /\ UNCHANGED storeVars
    /\ Proceed([Order EXCEPT !.done = TRUE], <<>>)
    /\ UNCHANGED chainVars

\* a read failed, the filter did not match, it is too early, nothing to do
Declines == /\ Doing("gate") \/ Doing("decide")
            /\ Proceed(Order, <<>>)
            /\ UNCHANGED <<storeVars, chainVars, faults>>

Deciding(id) == Doing("decide") /\ Job.id = id

\* the order is over before it buys: its budget is used up, or for dca the
\* curve has graduated
Closes ==
    /\ Deciding(Parent)
    /\ \/ kind \in {"sniper", "autopilot"} /\ Order.count >= Budget
          /\ (kind = "sniper" => Job.curve \notin Order.curves)
       \/ kind = "dca" /\ Order.count < Budget /\ Job.curve \in graduated
    /\ Persist([Order EXCEPT !.done = TRUE])
    /\ Proceed([Order EXCEPT !.done = TRUE], <<>>)
    /\ UNCHANGED chainVars

\* a dca order that has made its buys closes in memory only
ClosesQuietly == /\ Deciding(Parent) /\ kind = "dca" /\ Order.count >= Budget
                 /\ Proceed([Order EXCEPT !.done = TRUE], <<>>)
                 /\ UNCHANGED <<storeVars, chainVars, faults>>

---------------------------------------------------------------------------
(* Buying *)

WithinBudget == Order.count < Budget

Buyable == CASE kind = "sniper"    -> WithinBudget /\ Job.curve \notin Order.curves
             [] kind = "dca"       -> WithinBudget /\ Job.curve \notin graduated
             [] kind = "autopilot" -> /\ WithinBudget /\ Job.curve \notin Order.curves \cup graduated
                                      /\ Cardinality(Order.curves) < MaxOpen
             [] kind = "copytrade" -> Job.curve \notin graduated

\* the sniper claims the launch before it awaits anything
Claiming == IF kind = "sniper" THEN [Order EXCEPT !.curves = @ \cup {Job.curve}] ELSE Order

DecidesToBuy == /\ Deciding(Parent) /\ Buyable
                /\ Proceed(Claiming, <<"buy">>)
                /\ UNCHANGED <<storeVars, chainVars, faults>>

\* onCooldown, after the claim
ClaimsInVain == /\ Deciding(Parent) /\ kind = "sniper" /\ Buyable
                /\ Proceed(Claiming, <<>>)
                /\ UNCHANGED <<storeVars, chainVars, faults>>

\* /session-buy lands; the session's escrow and cap bound it
Buys == /\ Doing("buy") /\ open /\ Job.curve \notin graduated /\ TotalBought < Funds
        /\ bought' = [bought EXCEPT ![Job.curve] = @ + 1]
        /\ held' = held \cup {Job.curve}
        /\ UNCHANGED <<open, graduated>>

AfterBuy == CASE kind \in {"sniper", "autopilot"} -> <<"arm", "count", "record">>
              [] kind = "dca"                     -> <<"count", "record">>
              [] kind = "copytrade"               -> <<"record">>

BuySettles == Buys /\ Proceed(Order, AfterBuy) /\ UNCHANGED <<storeVars, faults>>

\* an error after it has landed: most are retried, a timeout is not
BuyUnanswered == /\ Buys /\ Fault("answer")
                 /\ \E todo \in {<<"buy">>, <<"retreat">>} : Proceed(Order, todo)
                 /\ UNCHANGED storeVars

BuyFails == /\ Doing("buy")
            /\ Proceed(Order, <<"retreat">>)
            /\ UNCHANGED <<storeVars, chainVars, faults>>

\* the sniper releases its claim, dca spaces out its next attempt
Retreats ==
    /\ Doing("retreat")
    /\ Proceed(IF kind = "sniper" THEN [Order EXCEPT !.curves = @ \ {Job.curve}] ELSE Order, <<>>)
    /\ IF kind = "dca" THEN Persist(Order) ELSE UNCHANGED <<storeVars, faults>>
    /\ UNCHANGED chainVars

\* spawnChild; a POST that fails is logged and not repeated
Arms == /\ Doing("arm")
        /\ \/ PostOrder(Job.curve) /\ UNCHANGED faults
           \/ Fault("arm") /\ UNCHANGED storeVars
        /\ Proceed(Order, Tail(Job.todo))
        /\ UNCHANGED chainVars

Counted == [Order EXCEPT !.count = @ + 1, !.done = @ \/ Order.count + 1 >= Budget,
                         !.curves = IF kind = "dca" THEN @ ELSE @ \cup {Job.curve}]

Counts == /\ Doing("count")
          /\ Persist(Counted)
          /\ Proceed(Counted, Tail(Job.todo))
          /\ UNCHANGED chainVars

\* recordFire persists once more; dca arms its exit after the final buy
Records ==
    /\ Doing("record")
    /\ Persist(Order)
    /\ Proceed(Order, IF Job.id = Parent /\ kind = "dca" /\ Order.done THEN <<"arm">> ELSE <<>>)
    /\ UNCHANGED chainVars

---------------------------------------------------------------------------
(* Selling: the mirror of a copytrade, and the exits *)

DecidesToMirror == /\ Deciding(Parent) /\ kind = "copytrade"
                   /\ Job.curve \in held \ graduated
                   /\ Proceed(Order, <<"mirror">>)
                   /\ UNCHANGED <<storeVars, chainVars, faults>>

ExitCloses == /\ Deciding(Job.curve) /\ ~Order.done /\ Job.curve \in graduated
              /\ Persist([Order EXCEPT !.done = TRUE])
              /\ Proceed([Order EXCEPT !.done = TRUE], <<>>)
              /\ UNCHANGED chainVars

\* the stop loss is crossed, or the rung that has not fired
Crossed == {"stop"} \cup (IF Order.count = 0 THEN {"take"} ELSE {})

DecidesToExit(leg) == /\ Deciding(Job.curve) /\ ~Order.done /\ leg \in Crossed
                      /\ Job.curve \in held \ graduated
                      /\ Proceed(Order, <<leg>>)
                      /\ UNCHANGED <<storeVars, chainVars, faults>>

\* nothing is left to sell or to protect
ExitsAsDust == /\ Deciding(Job.curve) /\ ~Order.done /\ Job.curve \notin held \cup graduated
               /\ Persist([Order EXCEPT !.done = TRUE])
               /\ Proceed([Order EXCEPT !.done = TRUE], <<"prune">>)
               /\ UNCHANGED chainVars

\* /session-sell lands: all of the tokens or, for a rung and a mirror, a part
SoldBy(leg) == CASE leg = "stop" -> {{Job.curve}} [] leg = "take" -> {{}}
                 [] leg = "mirror" -> {{}, {Job.curve}}

Sells(leg) == /\ Doing(leg) /\ open /\ Job.curve \in held \ graduated
              /\ \E sold \in SoldBy(leg) : held' = held \ sold
              /\ UNCHANGED <<open, graduated, bought>>

AfterSell(leg) == CASE leg = "stop" -> <<"stopped", "prune", "record">>
                    [] leg = "take" -> <<"taken", "record">>
                    [] leg = "mirror" -> <<"record">>

SellSettles(leg) == Sells(leg) /\ Proceed(Order, AfterSell(leg)) /\ UNCHANGED <<storeVars, faults>>

\* the sale failed, or it landed and the balance did not confirm it in time
SellFails(leg) == /\ Doing(leg)
                  /\ Sells(leg) \/ UNCHANGED chainVars
                  /\ Proceed(Order, <<>>)
                  /\ UNCHANGED <<storeVars, faults>>

ExitAfter_mut(leg) == [Order EXCEPT !.count = IF leg = "taken" THEN 1 ELSE @, !.done = TRUE]

\* a stop loss closes the order; a rung does when nothing is left to protect
ExitAfter(leg) == [Order EXCEPT !.count = IF leg = "taken" THEN 1 ELSE @,
                                !.done  = leg = "stopped" \/ Job.curve \notin held]

ExitAdvances(leg) == /\ Doing(leg)
                     /\ Persist(ExitAfter(leg))
                     /\ Proceed(ExitAfter(leg), Tail(Job.todo))
                     /\ UNCHANGED chainVars

\* pruneParentEntered, on the row only and best-effort
Prunes ==
    /\ Doing("prune")
    /\ \/ /\ kind = "autopilot"
          /\ saved' = [saved EXCEPT ![Parent].curves = @ \ {Job.curve}]
       \/ UNCHANGED saved
    /\ Proceed(Order, Tail(Job.todo))
    /\ UNCHANGED <<status, chainVars, faults>>

JobStep ==
    \/ GatePasses \/ GateCloses \/ Declines \/ Closes \/ ClosesQuietly
    \/ DecidesToBuy \/ ClaimsInVain \/ BuySettles \/ BuyUnanswered \/ BuyFails \/ Retreats
    \/ Arms \/ Counts \/ Records
    \/ DecidesToMirror \/ ExitCloses \/ ExitsAsDust \/ Prunes
    \/ \E leg \in {"stop", "take"} : DecidesToExit(leg)
    \/ \E leg \in {"stop", "take", "mirror"} : SellSettles(leg) \/ SellFails(leg)
    \/ \E leg \in {"stopped", "taken"} : ExitAdvances(leg)

Next == \/ \E id \in Ids : Cancel(id)
        \/ SessionCloses \/ \E c \in Curves : Graduates(c)
        \/ Restart \/ Sync
        \/ \E id \in Ids, c \in Curves : Wake(id, c)
        \/ JobStep

\* Every await of a job has a timeout, and the sync has an interval.
Spec == Init /\ [][Next]_vars /\ WF_vars(JobStep) /\ WF_vars(Sync)

---------------------------------------------------------------------------
(* Properties *)

Steps == {"gate", "decide", "buy", "retreat", "arm", "count", "record", "mirror",
          "stop", "take", "stopped", "taken", "prune"}

\* The state is well-formed, and an order is kept from being scheduled only by
\* a job of its own: no path out of a job leaves its id in `firing`, which
\* would silence the order until the next restart.
BrainTypeOK ==
    /\ status \in [Ids -> {"none", "active", "done", "cancelled"}]
    /\ saved \in [Ids -> [count : Nat, curves : SUBSET Curves]]
    /\ kind \in Kinds /\ open \in BOOLEAN
    /\ graduated \subseteq Curves /\ held \subseteq Curves /\ bought \in [Curves -> 0..Funds]
    /\ objects \in [Ids -> [1..Generations -> [done : BOOLEAN, count : Nat, curves : SUBSET Curves]]]
    /\ tracked \in [Ids -> 0..Generations]
    /\ \A k \in DOMAIN queue : /\ queue[k].id \in Ids /\ queue[k].generation \in 1..Generations
                              /\ queue[k].curve \in Targets(queue[k].id)
                              /\ Range(queue[k].todo) \subseteq Steps /\ queue[k].todo # <<>>
    /\ cancels \in 0..MaxCancels /\ faults \in [Faults -> 0..MaxFaults]
    /\ firing \subseteq {queue[k].id : k \in DOMAIN queue}

\* maxSnipes, buys and spendCapSui hold over cancels, reloads and restarts,
\* and a sniper buys a launch at most once, except for what the faults cost:
\* one buy for each answer lost, write lost or restart before a buy is saved.
\* A second cancel may leave two objects of an order buying from two counts.
SpendWithinBudget ==
    LET slack == faults["answer"] + faults["write"] + faults["crash"]
    IN  cancels <= 1 =>
        /\ kind # "copytrade" => TotalBought <= Budget + slack
        /\ kind = "sniper" => \A c \in Curves : bought[c] <= 1 + slack

\* A position is never left without its exit: while the session is open, the
\* tokens a sniper or an autopilot bought, and those of a dca order after its
\* final buy, are under an exit order that is active or that the user has
\* cancelled, or the job that bought them is still to arm one.  Excepted are a
\* lost answer, a failed POST and a restart in that job, a curve that has
\* graduated, and a curve entered again, whose exit has the id of the first.
ExitArmed ==
    open /\ faults["answer"] + faults["arm"] + faults["crash"] = 0 =>
        \A c \in held \ graduated :
            \/ kind = "copytrade"
            \/ kind = "dca" /\ saved[Parent].count < Budget
            \/ bought[c] > (IF kind = "dca" THEN Budget ELSE 1)
            \/ status[c] \in {"active", "cancelled"}
            \/ Owing /\ Job.curve = c

LetGo(id) == /\ status[id] = "cancelled" /\ tracked[id] = 0
             /\ \A k \in DOMAIN queue : queue[k].id # id

\* Once a cancelled order is let go, it neither comes back nor buys again.
StaysGone == [][\A id \in Ids : LetGo(id) => LetGo(id)' /\ (id = Parent => bought' = bought)]_vars

\* orders.js: "mark cancelled so the brain stops tracking it".  A cancelled
\* order is let go in the end, unless a job that was under way writes its
\* status back, and once let go it stays gone.
CancelStops ==
    /\ \A id \in Ids : status[id] = "cancelled" ~> LetGo(id) \/ status[id] # "cancelled"
    /\ StaysGone
=============================================================================
