------------------------------ MODULE FixedPoint -----------------------------
(***************************************************************************)
(* The encrypted arithmetic helpers of ShrudClearingEngine (the settlement *)
(* engine has the first one too).  The confidential library's safe         *)
(* operations give a success flag; each helper threads every flag, so that *)
(* an overflow, an underflow or a division by zero gives zero.             *)
(***************************************************************************)
EXTENDS Integers

CONSTANTS
  Word,    \* 2^256: the values of a euint256 are below it
  Scale    \* ShrudOrderFamily.PRICE_SCALE

ASSUME FixedPointAssumption == Word \in Nat \ {0} /\ Scale \in Nat \ {0}

\* floor(a * b / d)
MulDiv(a, b, d) ==
  IF a * b >= Word \/ d = 0 THEN 0 ELSE (a * b) \div d

\* ceil(a * b / d)
MulDivCeil(a, b, d) ==
  IF d = 0 \/ a * b + (d - 1) >= Word THEN 0 ELSE (a * b + (d - 1)) \div d

SafeSub(a, b) == IF a >= b THEN a - b ELSE 0
==============================================================================
