--------------------------- MODULE MCSessionKeys ---------------------------
(***************************************************************************)
(* Two owners and one build, enough for an enclave that serves both.       *)
(***************************************************************************)
EXTENDS SessionKeys
=============================================================================
