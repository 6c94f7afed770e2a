--------------------------- MODULE PercentageMath ---------------------------
(***************************************************************************)
(* Integer arithmetic of the lending code: basis-point multiplication and  *)
(* division with rounding half up, and the "clamp at zero" subtraction     *)
(* that LibLoan writes out by hand.  Solidity's own "-" reverts when it    *)
(* would go below zero; the specifications state that as a guard.          *)
(***************************************************************************)
EXTENDS Integers

\* PERCENTAGE_FACTOR: 100.00 per cent, in basis points.
BasisPoints == 10000

\* Rounds value * percentage / 100% to the nearest integer, halves up.
PercentMul(value, percentage) ==
  (value * percentage + 5000) \div BasisPoints

\* Rounds value * 100% / percentage to the nearest integer; percentage # 0.
PercentDiv(value, percentage) ==
  (value * BasisPoints + percentage \div 2) \div percentage

\* "if (a < b) 0 else a - b", as the running interest totals are reduced.
SubOrZero(a, b) == IF a < b THEN 0 ELSE a - b

Lesser(a, b) == IF a < b THEN a ELSE b
=============================================================================
