--------------------------- MODULE MCAgentSession ---------------------------
(***************************************************************************)
(* A session of 3 with a cap of 2: two calls of 1 or one of 2 reach the    *)
(* cap, and escrow and profits leave room to go beyond it.                 *)
(***************************************************************************)
EXTENDS AgentSession

MCOthers  == {"passerby"}
MCAmounts == 0 .. 2
=============================================================================
