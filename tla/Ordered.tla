------------------------------- MODULE Ordered -------------------------------
(***************************************************************************)
(* The members of a finite set of numbers, in increasing order: what       *)
(* SetToSortSeq gives for <, written so that it can be reasoned about.     *)
(***************************************************************************)
EXTENDS Integers, FiniteSets

Below(S, n) == {m \in S : m < n}

InOrder(S) ==
    [k \in 1 .. Cardinality(S) |-> CHOOSE n \in S : Cardinality(Below(S, n)) = k - 1]
=============================================================================
