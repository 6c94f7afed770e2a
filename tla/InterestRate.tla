---------------------------- MODULE InterestRate ----------------------------
(***************************************************************************)
(* The interest of a loan: the fixed-point arithmetic of WadRayMath, the   *)
(* curve of DefaultReserveInterestRateStrategy and LibLoan.previewInterest.*)
(* A strategy is a record of the three values its constructor stores.      *)
(***************************************************************************)
EXTENDS Integers

CONSTANT Ray   \* the fixed-point unit, 10^27 in the code
ASSUME RayAssumption == Ray \in Nat \ {0}

Strategies == [optimal : Nat, slope : Nat, base : Nat]

\* Both round to the nearest integer, halves up.
RayMul(a, b) == (Ray \div 2 + a * b) \div Ray
RayDiv(a, b) == (b \div 2 + a * Ray) \div b

\* Cash of the senior tranche that is not promised to lenders who withdraw.
Available(balance, pending, added, taken) == balance - pending + added - taken

UtilizationRate(available, debt) ==
  IF debt = 0 THEN 0 ELSE RayDiv(debt, available + debt)

\* What a utilization above the optimal one adds to the base rate.
Surcharge(s, utilization) ==
  IF utilization > s.optimal
    THEN RayDiv(RayMul(s.slope, utilization - s.optimal), Ray - s.optimal)
    ELSE 0
CurrentRate(s, available, debt) ==
  s.base + Surcharge(s, UtilizationRate(available, debt))

\* Reverts unless the cash covers what is pending and what is taken.
CalculateBorrowRate(s, balance, pending, added, taken, debt) ==
  CurrentRate(s, Available(balance, pending, added, taken), debt)
RateDefined(balance, pending, added, taken) ==
  balance >= pending /\ balance - pending + added >= taken

\* The interest of nper instalments, one every epoch days.
DaysPerYear == 365
PeriodsPerYear(epoch) == DaysPerYear \div epoch
PreviewInterest(principal, apr, epoch, nper) ==
  RayMul(principal, (apr * nper) \div PeriodsPerYear(epoch))
=============================================================================
