----------------------------- MODULE MCTakeover -----------------------------
(***************************************************************************)
(* Two holders and four tokens, of which one is enough to nominate and two *)
(* to take over when at least four circulate; time for two proposals.      *)
(***************************************************************************)
EXTENDS Takeover

MCUsers   == {"creator", "ann"}
MCAmounts == {1, 2}
=============================================================================
