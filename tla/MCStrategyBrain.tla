-------------------------- MODULE MCStrategyBrain --------------------------
(***************************************************************************)
(* One order of each kind that may buy twice, and the exits it arms.       *)
(***************************************************************************)
EXTENDS StrategyBrain

MCCurves == {"c1"}
MCKinds  == {"sniper", "dca", "autopilot", "copytrade"}
=============================================================================
