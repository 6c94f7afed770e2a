--------------------------- MODULE LoanBookTotals ---------------------------
(***************************************************************************)
(* Properties of LoanBook that relate the running totals LibLoan keeps to  *)
(* the loans they summarise.  The contracts never recompute a total: each  *)
(* is only ever added to and subtracted from.                              *)
(***************************************************************************)
EXTENDS LoanBook, FiniteSetsExt

\* Addresses and configurations are of finitely many bits.
ASSUME FiniteAssumption ==
  IsFiniteSet(Vaults) /\ IsFiniteSet(LoanIds) /\ IsFiniteSet(Confs)

Books == [v \in Vaults |-> borrowData[v].totalPrincipal]
VaultMoney == [v \in Vaults |-> eth[v] + weth[v]]

InitialMoney == SeniorFunds + JuniorFunds + Cardinality(Vaults) * VaultFunds

\* What a loan's instalments up to now leave of its principal.
Outstanding(loan) == loan.principal - loan.paidTimes * loan.pmt.principal

UnpaidBy(v) == SumFunction([l \in LoanIds |-> Outstanding(loans[v][l])])

\* What a vault's books hold beyond its open loans.
Gap(v) == borrowData[v].totalPrincipal - UnpaidBy(v)

NeverDefaulted(v) == repayRecord[v].defaultTimes = 0

\* The numbers of instalments the configurations allow.
Npers == {c.term \div c.epoch : c \in {d \in Confs : d.epoch # 0}}
MaxNper == Max({1} \cup Npers)

\* Money is neither made nor lost: what the contracts and the vaults hold,
\* plus what everyone else received, is what there was at the start.
MoneyConserved ==
  SumFunction(cash) + SumFunction(VaultMoney) + world = InitialMoney

\* Until the first default the collection's debt is the sum of the vaults'.
DebtIsSumOfBooks ==
  (\A v \in Vaults : NeverDefaulted(v)) => borrowState.totalDebt = SumFunction(Books)

\* A vault's books cover its open loans, so no instalment of a vault's own
\* loan can underflow them, even after a liquidation.  A loan of one
\* instalment stays open when buyNow has paid it and can be paid again, out
\* of what the books hold for the vault's other loans; with such loans the
\* books are only sure to cover the rest until the vault's first default.
BooksCoverLoans ==
  \A v \in Vaults : 1 \notin Npers \/ NeverDefaulted(v) => Gap(v) >= 0

\* Until its first default the only principal on a vault's books without an
\* open loan is the remainder of dividing by nper: less than nper per loan.
RoundingDustBounded ==
  \A v \in Vaults :
    NeverDefaulted(v) => Gap(v) <= borrowData[v].paidLoanNumber * (MaxNper - 1)

\* Both: what instalments were computed from is what they are booked against,
\* as far as LibLoan keeps the two in agreement.
BooksMatchLoans == BooksCoverLoans /\ RoundingDustBounded

\* Until the first default of the collection, every open loan can be paid to
\* its end: it has an instalment left, and neither the vault's books nor the
\* collection's are short of it, so that repay depends on the vault's money
\* alone.  Not so where there is no instalment (repay reverts, InvalidDebt),
\* nor for the loans of a vault that has a loan of one instalment: buyNow
\* pays it and leaves it open, and repay takes it from the books once more.
\* A liquidation takes the vault's totals off the collection's and leaves
\* them on the vault's: after it a repayment of any vault may be refused.
RepaymentsAccepted ==
  (\A w \in Vaults : NeverDefaulted(w)) =>
    \A v \in Vaults : (\A m \in LoanIds : loans[v][m].nper # 1) =>
      \A l \in LoanIds :
        Live(v, l) /\ loans[v][l].pmt.principal + loans[v][l].pmt.interest # 0
          => loans[v][l].paidTimes < loans[v][l].nper /\ RepayAccepted(v, l)

\* The tranches' claims to interest never fall short of the interest owed.
InterestAttributed ==
  borrowState.totalInterest
    <= borrowState.totalSeniorInterest + borrowState.totalJuniorInterest
=============================================================================
