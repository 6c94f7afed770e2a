----------------------------- MODULE MCLoanBook -----------------------------
(***************************************************************************)
(* Model values and configurations for checking LoanBook with TLC, and the *)
(* interest-rate curve, whose results LoanBook takes as given, over a grid. *)
(***************************************************************************)
EXTENDS LoanBookTotals, InterestRate, TLC

CONSTANTS Terms,        \* loan terms the administrators may choose, in days
          GracePeriod   \* days a payment may be late

\* The repository's own test settings (test/setup, LoanFacet tests), scaled:
\* an interval of a day, half of the interest to the senior tranche, a bonus
\* for liquidators, a junior tranche of at least half of what is lent.
MCConfs ==
  {[term |-> term, epoch |-> 1, gracePeriod |-> GracePeriod,
    incomeRatio |-> 5000, liquidationBonus |-> 12500,
    optimalLiquidityRatio |-> 20000, maxTwapStaleness |-> 1,
    twapTolerance |-> 0] : term \in Terms}

\* Vaults and NFTs are interchangeable; only safety is checked.
Sym == Permutations(Vaults) \cup Permutations(Nfts)

-----------------------------------------------------------------------------
\* The curve deployed by 004_interest_rate_strategy.ts (with Ray = 100), and
\* ones with every kind of optimum, up to one that is never exceeded.
MCStrategies ==
  {[optimal |-> 80, slope |-> 4, base |-> 20]}
    \cup [optimal : {0, 33, 99, 100, 120}, slope : {0, 7}, base : {1}]

\* RayDiv and RayMul return the integer nearest to the quotient.
ASSUME RoundsToNearest ==
  \A x, y \in 0..40 :
    /\ 2 * (Ray * RayMul(x, y) - x * y) \in -Ray .. Ray
    /\ y # 0 => 2 * (y * RayDiv(x, y) - x * Ray) \in -y .. y

\* The rate falls with the cash that is left and rises with the debt.
ASSUME CurveMonotone ==
  \A s \in MCStrategies, left, debt \in 0..25 :
    /\ CurrentRate(s, left + 1, debt) <= CurrentRate(s, left, debt)
    /\ CurrentRate(s, left, debt) <= CurrentRate(s, left, debt + 1)
=============================================================================
