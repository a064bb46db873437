------------------------ MODULE MCGraduationRelayer ------------------------
(***************************************************************************)
(* A curve for each target and one below the floor; each cfg takes two or  *)
(* three of them.  A float of one pays for the gas but for nothing else,   *)
(* so two failures are enough to exhaust the wallet by retries.            *)
(***************************************************************************)
EXTENDS GraduationRelayer

MCKinds      == [d |-> "deepbook", t |-> "turbos", c |-> "cetus", low |-> "deepbook"]
MCTarget     == [c \in Curves |-> MCKinds[c]]
MCPoolSui    == [c \in Curves |-> 2]
MCBelowFloor == Curves \cap {"low"}
=============================================================================
