----------------------------- MODULE OrderStore -----------------------------
(***************************************************************************)
(* The indexer's store of strategy orders (indexer/orders.js): one row per *)
(* order, written by the user's page (cancel) and by the strategy brain    *)
(* (everything else), each with an unconditional UPDATE.                   *)
(*                                                                         *)
(* The model follows one order a user armed, Parent, and the exit orders   *)
(* it arms on what it buys.  The id of an exit is a function of the parent *)
(* and the curve, so the curve stands for it.  A row's parameters are      *)
(* reduced to a count (buys made, or rungs fired) and a set of curves (the *)
(* ones sniped or entered).                                                *)
(***************************************************************************)
EXTENDS Naturals, Sequences, FiniteSets

CONSTANTS Curves, Parent

ASSUME StoreAssumption == Parent \notin Curves /\ IsFiniteSet(Curves)

VARIABLES status, saved

storeVars == <<status, saved>>

Ids == Curves \cup {Parent}

NewParams == [count |-> 0, curves |-> {}]

StoreInit == /\ status = [id \in Ids |-> IF id = Parent THEN "active" ELSE "none"]
             /\ saved = [id \in Ids |-> NewParams]

\* GET /orders?status=active
ActiveOrders == {id \in Ids : status[id] = "active"}

\* POST /orders: ON CONFLICT (id) DO NOTHING, and the row is answered
PostOrder(id) ==
    /\ status' = [status EXCEPT ![id] = IF @ = "none" THEN "active" ELSE @]
    /\ UNCHANGED saved

PatchOrder_mut(id, state, params) ==
    /\ status' = [status EXCEPT ![id] = state]
    /\ UNCHANGED saved

\* PATCH /orders/:id, whatever the row holds
PatchOrder(id, state, params) ==
    /\ status' = [status EXCEPT ![id] = state]
    /\ saved' = [saved EXCEPT ![id] = params]

\* DELETE /orders/:id, whatever the row holds
CancelOrder(id) ==
    /\ status[id] # "none"
    /\ status' = [status EXCEPT ![id] = "cancelled"]
    /\ UNCHANGED saved
=============================================================================
