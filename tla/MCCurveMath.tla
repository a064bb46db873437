---------------------------- MODULE MCCurveMath ----------------------------
(***************************************************************************)
(* The arithmetic of CurveMath against reference definitions, on every     *)
(* input up to MaxInput: one state per input.  PRECISION is large enough   *)
(* for the roots to be good to one percent, as a million is in the code    *)
(* for prices of up to a hundred thousand.                                 *)
(***************************************************************************)
EXTENDS CurveMath

CONSTANT MaxInput

VARIABLE input

\* The next call, with any argument.
NextInput == input' \in 0 .. MaxInput

\* The Babylonian iteration of isqrt ends on the integer square root, for
\* perfect squares, their neighbours and all others.
ISqrtIsRoot ==
    LET root == ISqrt(input)
    IN  root * root <= input /\ input < (root + 1) * (root + 1)

\* F-4: the threshold is BASE * sqrt(anchor / price) to one percent at every
\* price, hence BASE at the anchor, and it falls as SUI appreciates.
ThresholdFollowsRoot ==
    LET threshold == DampenedGradThreshold(input)
        square    == BASE_GRAD_MIST * BASE_GRAD_MIST * PRICE_ANCHOR
        percent   == square \div 100
    IN  input > 0 =>
          /\ threshold * threshold * input <= square + percent
          /\ (threshold + 1) * (threshold + 1) * input >= square - percent
          /\ DampenedGradThreshold(input + 1) <= threshold
=============================================================================
