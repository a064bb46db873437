--------------------------- MODULE TrancheOrders ---------------------------
(***************************************************************************)
(* Orders a page executes by itself (frontend-app useDCA.js): tranches at  *)
(* intervals, and buys on dips.  Orders live in localStorage, which the    *)
(* pages of a wallet share; each page has a timer whose ticks read them,   *)
(* await prices and start buys that are not awaited.  A tick does not wait *)
(* for the one before.  Sizes and prices are choices; that an interval or  *)
(* a cooldown is over is the field ready.  The exit that a first tranche   *)
(* may save for the token's page is left out: no form asks for it.         *)
(***************************************************************************)
EXTENDS Integers, Sequences, FiniteSets, Functions, Ordered

CONSTANTS
    Pages,
    TimeOrders, DipOrders,     \* ids
    Limit,                     \* by id: trancheCount or maxDipBuys
    MaxTicks, MaxReloads, MaxRepeats      \* bounds of the model

OrderIds == TimeOrders \cup DipOrders

\* 0 is no limit
ASSUME TrancheAssumption ==
    /\ Limit \in [OrderIds -> Nat] /\ TimeOrders \cap DipOrders = {}
    /\ {MaxTicks, MaxReloads, MaxRepeats} \subseteq Nat

VARIABLES
    store,      \* localStorage: records id, count, done, ready
    ticks,      \* by page, the ticks that await a price: list, and at, their place in it
    buying,     \* by page, the buys under way: the tick's order, and landed
    firing,     \* by page, firingRef.current
    bought,     \* by id, the buys that have landed (history)
    cancelled,  \* the ids taken out by cancelOrder (history)
    excused,    \* the ids decided on from a list out of date, in two pages,
                \* or in a page that closed or lost the answer (history)
    reloads

trancheVars == <<store, ticks, buying, firing, bought, cancelled, excused, reloads>>

TrancheInit ==
    /\ store = <<>>
    /\ ticks = [p \in Pages |-> <<>>]
    /\ buying = [p \in Pages |-> {}] /\ firing = [p \in Pages |-> {}]
    /\ bought = [id \in OrderIds |-> 0]
    /\ cancelled = {} /\ excused = {} /\ reloads = 0

Stored(id)  == {o \in {store[k] : k \in DOMAIN store} : o.id = id}
StoredIds   == {store[k].id : k \in DOMAIN store}

---------------------------------------------------------------------------
(* The forms *)

\* A tranche is due at once, a dip is not cooling down.
CreateOrder(id) ==
    /\ id \notin StoredIds \cup cancelled /\ bought[id] = 0
    /\ store' = Append(store, [id |-> id, count |-> 0, done |-> FALSE, ready |-> TRUE])
    /\ UNCHANGED <<ticks, buying, firing, bought, cancelled, excused, reloads>>

\* The orders at some places, in the order in which they are stored.
Kept(places) == [k \in 1 .. Cardinality(places) |-> store[InOrder(places)[k]]]

CancelOrder(id) ==
    /\ id \in StoredIds
    /\ store' = Kept({k \in DOMAIN store : store[k].id # id})
    /\ cancelled' = cancelled \cup {id}
    /\ UNCHANGED <<ticks, buying, firing, bought, excused, reloads>>

ClearDone ==
    /\ store' = Kept({k \in DOMAIN store : ~store[k].done})
    /\ UNCHANGED <<ticks, buying, firing, bought, cancelled, excused, reloads>>

\* nextFireAt or the end of the cooldown passes.
BecomesReady(id) ==
    /\ store' = [k \in DOMAIN store |->
                    IF store[k].id = id THEN [store[k] EXCEPT !.ready = TRUE] ELSE store[k]]
    /\ UNCHANGED <<ticks, buying, firing, bought, cancelled, excused, reloads>>

---------------------------------------------------------------------------
(* The ticks *)

\* What the loop goes on with: the guards on the tick's own list, and on firingRef.
Startable(p, o) == ~o.done /\ o.ready /\ o.id \notin firing[p]

\* The next dip order whose price has to be awaited, from a place in the list.
NextAwait(p, list, from) ==
    LET dips == {k \in from .. Len(list) : list[k].id \in DipOrders /\ Startable(p, list[k])}
    IN  IF dips = {} THEN Len(list) + 1 ELSE CHOOSE k \in dips : \A j \in dips : k <= j

\* The tranches that the loop starts on its way there.
TranchesDue(p, list, from) ==
    {o \in {list[k] : k \in from .. NextAwait(p, list, from) - 1} :
        o.id \in TimeOrders /\ Startable(p, o)}

\* Decided on from a list in which the order is not as it is now, or in two pages.
Excuses(p, orders) ==
    {o.id : o \in {o \in orders : \/ o \notin Stored(o.id)
                                  \/ \E q \in Pages \ {p} : o.id \in firing[q]}}

\* Buys are started, and the loop goes on to its next await or ends.
LoopGoesOn(p, orders, rest) ==
    /\ buying' = [buying EXCEPT ![p] = @ \cup {[order |-> o, landed |-> FALSE] : o \in orders}]
    /\ firing' = [firing EXCEPT ![p] = @ \cup {o.id : o \in orders}]
    /\ excused' = excused \cup Excuses(p, orders)
    /\ ticks' = [ticks EXCEPT ![p] = rest]
    /\ UNCHANGED <<store, bought, cancelled, reloads>>

\* The ticks of a page but for one, which awaits another price if there is one.
Awaiting(others, p, list, from) ==
    IF NextAwait(p, list, from) > Len(list) THEN others
    ELSE Append(others, [list |-> list, at |-> NextAwait(p, list, from)])

\* In all pages.
UnderWay == FoldFunction(+, 0, [q \in Pages |-> Len(ticks[q])])

\* The interval's callback, with the trading key at hand.
Tick(p) ==
    /\ UnderWay < MaxTicks
    /\ LoopGoesOn(p, TranchesDue(p, store, 1), Awaiting(ticks[p], p, store, 1))

Others(p, t) == SubSeq(ticks[p], 1, t - 1) \o SubSeq(ticks[p], t + 1, Len(ticks[p]))

\* Another tick may have started the order while this one was waiting.
NotFiring_mut(p, id) == TRUE

\* executeDipBuy looks again at firingRef.
NotFiring(p, id) == id \notin firing[p]

\* The price arrives: too high, or unknown, or low enough; then the rest of the list.
PriceArrives(p, t) ==
    LET list == ticks[p][t].list
        o    == list[ticks[p][t].at]
        from == ticks[p][t].at + 1
    IN  \E dip \in {{}, {o}} :
            /\ dip = {} \/ NotFiring(p, o.id)
            /\ LoopGoesOn(p, dip \cup TranchesDue(p, list, from),
                          Awaiting(Others(p, t), p, list, from))

---------------------------------------------------------------------------
(* The buys *)

BuyLands(p, b) ==
    /\ ~b.landed /\ bought[b.order.id] < MaxRepeats
    /\ buying' = [buying EXCEPT ![p] = (@ \ {b}) \cup {[b EXCEPT !.landed = TRUE]}]
    /\ bought' = [bought EXCEPT ![b.order.id] = @ + 1]
    /\ UNCHANGED <<store, ticks, firing, cancelled, excused, reloads>>

\* updateOrder writes back the list that the tick had read.
Updated_mut(o) ==
    IF o.id \in StoredIds THEN [k \in DOMAIN store |-> IF store[k].id = o.id THEN o ELSE store[k]]
    ELSE Append(store, o)

\* updateOrder: an order that is there is replaced, in the list as it is now.
Updated(o) == [k \in DOMAIN store |-> IF store[k].id = o.id THEN o ELSE store[k]]

\* The order after one more buy, counted from the tick's record of it.
AfterBuy(o) == [o EXCEPT !.count = @ + 1, !.ready = FALSE,
                         !.done = Limit[o.id] > 0 /\ o.count + 1 >= Limit[o.id]]

\* The buy is over.  A failed tranche counts, a failed dip does not; a failure
\* is also an answer that was lost.
BuyEnds(p, b) ==
    /\ buying' = [buying EXCEPT ![p] = @ \ {b}]
    /\ firing' = [firing EXCEPT ![p] = @ \ {b.order.id}]
    /\ \/ /\ b.landed \/ b.order.id \in TimeOrders
          /\ store' = Updated(AfterBuy(b.order)) /\ UNCHANGED excused
       \/ /\ b.order.id \in DipOrders
          /\ excused' = IF b.landed THEN excused \cup {b.order.id} ELSE excused
          /\ UNCHANGED store
    /\ UNCHANGED <<ticks, bought, cancelled, reloads>>

\* The page is closed or reloaded, and forgets everything but the orders.
Reload(p) ==
    /\ reloads < MaxReloads
    /\ reloads' = reloads + 1
    /\ ticks' = [ticks EXCEPT ![p] = <<>>]
    /\ buying' = [buying EXCEPT ![p] = {}] /\ firing' = [firing EXCEPT ![p] = {}]
    /\ excused' = excused \cup {b.order.id : b \in buying[p]}
    /\ \E late \in SUBSET {b \in buying[p] : ~b.landed /\ bought[b.order.id] < MaxRepeats} :
           bought' = [id \in OrderIds |->
                         bought[id] + Cardinality({b \in late : b.order.id = id})]
    /\ UNCHANGED <<store, cancelled>>

TrancheNext ==
    \/ \E id \in OrderIds : CreateOrder(id) \/ CancelOrder(id) \/ BecomesReady(id)
    \/ ClearDone
    \/ \E p \in Pages :
           \/ Tick(p) \/ Reload(p)
           \/ \E t \in DOMAIN ticks[p] : PriceArrives(p, t)
           \/ \E b \in buying[p] : BuyLands(p, b) \/ BuyEnds(p, b)

TrancheSpec == TrancheInit /\ [][TrancheNext]_trancheVars

---------------------------------------------------------------------------
(* Properties *)

\* An order buys more often than its limit only if some buy was decided on from
\* a list out of date, in two pages at a time, or in a page that was closed or
\* lost the answer: with ticks that do not overlap, the count on the order is
\* what has been bought.
OverspendNeedsOverlap ==
    \A id \in OrderIds \ excused : Limit[id] > 0 => bought[id] <= Limit[id]

\* An order that the user has cancelled is not brought back by the end of a buy
\* that was under way.
CancelledStaysAway == cancelled \cap StoredIds = {}
=============================================================================
