--------------------------- MODULE MCBondingCurve ---------------------------
(***************************************************************************)
(* A small market: a curve of 80 tokens over a virtual pool of 44 x 107,   *)
(* which drains at about 130 SUI and graduates at 96, or at 48 once a      *)
(* price of four times the anchor is published. A payment of 50 stops two  *)
(* short of that, which a buyback makes up; one of 130 crosses or drains.  *)
(***************************************************************************)
EXTENDS BondingCurve

MCUsers      == {"creator", "alice"}
MCSui        == {50, 130}
MCTokens     == {1, 30}
MCBuybacks   == {10, 11}
MCPrices     == {16}
MCThresholds == [p \in MCPrices |-> DampenedGradThreshold(p)]
=============================================================================
