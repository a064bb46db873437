-------------------------- MODULE MCReclaimSweeper --------------------------
(***************************************************************************)
(* A proposer and a voter who may withdraw and vote again, and the event   *)
(* types they emit, in the order of EVENT_NAMES.                           *)
(***************************************************************************)
EXTENDS ReclaimSweeper

MCUsers   == {"ann", "bob"}
MCAmounts == {1, 2}
MCHeld    == [ann |-> 2, bob |-> 1]
MCTypes   == <<"TakeoverProposed", "TakeoverVoted",
               "TakeoverUnvoted", "TakeoverResolved", "VoteReclaimed">>
=============================================================================
