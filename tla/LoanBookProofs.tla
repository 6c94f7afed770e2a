--------------------------- MODULE LoanBookProofs ---------------------------
(***************************************************************************)
(* Safety of LoanBook for any number of vaults, NFTs and loans, any prices *)
(* and any configuration: every stored amount stays a natural number, the  *)
(* collateral stays in custody, and the diamond keeps what it was sent for *)
(* nothing and no more; and, for finitely many vaults and loans, its       *)
(* running totals: no money is made or lost, the tranches' claims cover the *)
(* interest, the vaults' books agree with their loans and with the         *)
(* collection's debt, and until a default repayments are accepted.  Last,  *)
(* what the interest-rate curve guarantees, for every strategy and every   *)
(* unit: it is defined, it has a ceiling, and it never falls when more is  *)
(* lent or less is left to lend.                                           *)
(***************************************************************************)
EXTENDS LoanBookTotals, InterestRate, NumberLemmas

-----------------------------------------------------------------------------
(***************************************************************************)
(* What the bookkeeping operators return.                                  *)
(***************************************************************************)

\* Interest is split into two natural numbers.
LEMMA SharesType ==
  ASSUME NEW i \in Nat, NEW r \in 0 .. BasisPoints
  PROVE  /\ SeniorShare(i, r) \in 0 .. i
         /\ JuniorShare(i, r) \in 0 .. i
         /\ SeniorShare(i, r) + JuniorShare(i, r) = i
<1>1. PercentMul(i, r) \in 0 .. i
  BY PercentMulBounded
<1>2. QED
  BY <1>1 DEF SeniorShare, JuniorShare

LEMMA SubOrZeroType ==
  ASSUME NEW a \in Nat, NEW b \in Nat
  PROVE  SubOrZero(a, b) \in 0 .. a
BY DEF SubOrZero

\* The protocol fee of a loan is a natural number.
LEMMA FeeType ==
  ASSUME NEW price \in Nat
  PROVE  PercentMul(price, TakeRate) \in Nat
<1>1. TakeRate \in Nat
  BY ConstantsAssumption DEF BasisPoints
<1>2. QED
  BY <1>1, PercentMulNat

\* A new loan's instalment is no more than the loan.
LEMMA NewLoanType ==
  ASSUME TypeOK, NEW n \in Nfts, NEW price \in Nat, NEW interest \in Nat,
         NEW nper \in Nat \ {0}
  PROVE  /\ NewLoan(n, price, interest, nper) \in Loan
         /\ NewLoan(n, price, interest, nper).pmt \in PMT
         /\ NewLoan(n, price, interest, nper).pmt.principal = price \div nper
         /\ NewLoan(n, price, interest, nper).pmt.principal <= price
         /\ NewLoan(n, price, interest, nper).pmt.interest <= interest
         /\ NewLoan(n, price, interest, nper).pmt.fee
              <= PercentMul(price, TakeRate)
         /\ NewLoan(n, price, interest, nper).collateral = {n}
<1>1. conf \in Configuration /\ now \in Nat
  BY ConstantsAssumption DEF TypeOK
<1>2. PercentMul(price, TakeRate) \in Nat
  BY FeeType
<1>3. /\ price \div nper \in 0 .. price
      /\ interest \div nper \in 0 .. interest
      /\ PercentMul(price, TakeRate) \div nper \in 0 .. PercentMul(price, TakeRate)
  BY <1>2, QuotientBounded
<1>4. QED
  BY <1>1, <1>3 DEF NewLoan, Loan, PMT, Configuration

\* A loan and its first instalment leave a vault's totals natural numbers.
LEMMA LoanBookedType ==
  ASSUME NEW bd \in BorrowData, NEW price \in Nat, NEW interest \in Nat,
         NEW pmt \in PMT, pmt.principal <= price, pmt.interest <= interest,
         pmt.fee <= PercentMul(price, TakeRate)
  PROVE  /\ InstalmentBooked(LoanBooked(bd, price, interest), pmt) \in BorrowData
         /\ InstalmentBooked(LoanBooked(bd, price, interest), pmt).nextLoanNumber
              = bd.nextLoanNumber + 1
<1>1. PercentMul(price, TakeRate) \in Nat
  BY FeeType
<1>2. QED
  BY <1>1 DEF InstalmentBooked, LoanBooked, BorrowData, PMT

LEMMA InstalmentBookedType ==
  ASSUME NEW bd \in BorrowData, NEW pmt \in PMT,
         bd.totalPrincipal >= pmt.principal, bd.totalInterest >= pmt.interest,
         bd.totalFee >= pmt.fee
  PROVE  /\ InstalmentBooked(bd, pmt) \in BorrowData
         /\ InstalmentBooked(bd, pmt).nextLoanNumber = bd.nextLoanNumber
BY DEF InstalmentBooked, BorrowData, PMT

LEMMA DebtAddedType ==
  ASSUME NEW bs \in BorrowState, NEW price \in Nat, NEW interest \in Nat,
         NEW ratio \in 0 .. BasisPoints
  PROVE  /\ DebtAdded(bs, price, interest, ratio) \in BorrowState
         /\ DebtAdded(bs, price, interest, ratio).totalDebt
              = bs.totalDebt + price
<1>1. SeniorShare(interest, ratio) \in Nat /\ JuniorShare(interest, ratio) \in Nat
  BY SharesType
<1>2. QED
  BY <1>1 DEF DebtAdded, BorrowState

LEMMA DebtReducedType ==
  ASSUME NEW bs \in BorrowState, NEW pmt \in PMT, NEW ratio \in 0 .. BasisPoints,
         bs.totalDebt >= pmt.principal
  PROVE  DebtReduced(bs, pmt, ratio) \in BorrowState
<1>1. pmt.principal \in Nat /\ pmt.interest \in Nat
  BY DEF PMT
<1>2. /\ SeniorShare(pmt.interest, ratio) \in Nat
      /\ JuniorShare(pmt.interest, ratio) \in Nat
  BY <1>1, SharesType
<1>3. /\ bs.totalDebt \in Nat /\ bs.totalInterest \in Nat
      /\ bs.totalSeniorInterest \in Nat /\ bs.totalJuniorInterest \in Nat
  BY DEF BorrowState
<1>4. /\ SubOrZero(bs.totalInterest, pmt.interest) \in Nat
      /\ SubOrZero(bs.totalSeniorInterest, SeniorShare(pmt.interest, ratio)) \in Nat
      /\ SubOrZero(bs.totalJuniorInterest, JuniorShare(pmt.interest, ratio)) \in Nat
  BY <1>1, <1>2, <1>3 DEF SubOrZero
<1>5. QED
  BY <1>1, <1>3, <1>4 DEF DebtReduced, BorrowState

-----------------------------------------------------------------------------
(***************************************************************************)
(* Type correctness, one lemma per action.                                 *)
(***************************************************************************)

\* The part of TypeOK about money; the actions reach it along several ways.
MoneyOK ==
  /\ cash \in [Accounts -> Nat]
  /\ weth \in [Vaults -> Nat]
  /\ eth \in [Vaults -> Nat]
  /\ world \in Int
  /\ given \in Nat

\* What the settlement of a purchase takes out of each balance is natural.
LEMMA SettlementType ==
  ASSUME TypeOK, NEW v \in Vaults, NEW currency \in Currencies,
         NEW downpayment \in Nat, NEW dues \in Nat, NEW outstanding \in Nat,
         SettlementSucceeds(v, currency, downpayment, dues, outstanding)
  PROVE  /\ EthAfter(v, currency, downpayment, dues, outstanding) \in Nat
         /\ WethAfter(v, currency, downpayment, dues, outstanding) \in Nat
<1>1. eth[v] \in Nat /\ weth[v] \in Nat
  BY DEF TypeOK
<1>2. /\ Unwrapped(v, currency, downpayment) \in Nat
      /\ Wrapped(v, currency, downpayment, dues) \in Nat
  BY <1>1 DEF Unwrapped, Wrapped, SubOrZero
<1>3. QED
  BY <1>1, <1>2 DEF SettlementSucceeds, EthAfter, WethAfter

LEMMA BorrowTypeOK ==
  ASSUME TypeOK, NEW v \in Vaults, NEW n \in Nfts, NEW price \in Prices,
         NEW interest \in Interests, NEW pending \in Pendings,
         NEW currency \in Currencies, NEW sent \in Gifts,
         Borrow(v, n, price, interest, pending, currency, sent)
  PROVE  TypeOK'
<1> DEFINE nper == conf.term \div conf.epoch
           outstanding == price - price \div nper
           loan == NewLoan(n, price, interest, nper)
           pmt == loan.pmt
           dues == pmt.interest + pmt.fee
           toSenior == SeniorShare(pmt.interest, conf.incomeRatio)
           number == borrowData[v].nextLoanNumber
<1>1. /\ price \in Nat /\ interest \in Nat /\ pending \in Nat /\ sent \in Nat
      /\ conf \in Configuration /\ conf.incomeRatio \in 0 .. BasisPoints
  BY ConstantsAssumption DEF TypeOK, Configuration
<1>2. nper \in Nat \ {0}
  <2>1. conf.term \in Nat /\ conf.epoch \in Nat \ {0} /\ nper # 0
    BY <1>1 DEF Borrow, Configuration
  <2>2. QED
    BY <2>1, QuotientBounded
<1>3. /\ loan \in Loan /\ pmt \in PMT
      /\ pmt.principal = price \div nper
      /\ pmt.principal <= price /\ pmt.interest <= interest
      /\ pmt.fee <= PercentMul(price, TakeRate)
  BY <1>1, <1>2, NewLoanType
<1>4. /\ pmt.principal \in Nat /\ pmt.interest \in Nat /\ pmt.fee \in Nat
      /\ dues \in Nat /\ outstanding \in Nat
  BY <1>1, <1>3 DEF PMT
<1>5. toSenior \in 0 .. pmt.interest
  BY <1>1, <1>4, SharesType
<1>6. /\ LiquidityAccepted(outstanding, pending)
      /\ SettlementSucceeds(v, currency, pmt.principal, dues, outstanding)
      /\ number \in LoanIds
      /\ loans' = [loans EXCEPT ![v][number] = loan]
      /\ borrowData' = [borrowData EXCEPT ![v] =
           InstalmentBooked(LoanBooked(@, price, interest), pmt)]
      /\ borrowState' = DebtReduced(
           DebtAdded(borrowState, price, interest, conf.incomeRatio),
           pmt, conf.incomeRatio)
      /\ cash' = [cash EXCEPT
           !["senior"] = @ - outstanding + toSenior,
           !["junior"] = @ + pmt.interest - toSenior,
           !["treasury"] = @ + pmt.fee,
           !["diamond"] = IF currency = "ETH" THEN 0 ELSE @,
           !["diamondEth"] = DiamondEthAfter(currency, sent)]
      /\ eth' = [eth EXCEPT ![v] =
           EthAfter(v, currency, pmt.principal, dues, outstanding)]
      /\ weth' = [weth EXCEPT ![v] =
           WethAfter(v, currency, pmt.principal, dues, outstanding)]
      /\ world' = world + price - sent /\ given' = given + sent
  BY DEF Borrow
<1>7. loans' \in [Vaults -> [LoanIds -> Loan]]
  BY <1>3, <1>6 DEF TypeOK
<1>8. borrowData' \in [Vaults -> BorrowData]
  <2>1. InstalmentBooked(LoanBooked(borrowData[v], price, interest), pmt)
          \in BorrowData
    BY <1>1, <1>3, LoanBookedType DEF TypeOK
  <2>2. QED
    BY <1>6, <2>1 DEF TypeOK
<1>9. borrowState' \in BorrowState
  <2>1. /\ DebtAdded(borrowState, price, interest, conf.incomeRatio) \in BorrowState
        /\ DebtAdded(borrowState, price, interest, conf.incomeRatio).totalDebt
             = borrowState.totalDebt + price
    BY <1>1, DebtAddedType DEF TypeOK
  <2>2. borrowState.totalDebt \in Nat
    BY DEF TypeOK, BorrowState
  <2>3. QED
    BY <1>1, <1>3, <1>4, <1>6, <2>1, <2>2, DebtReducedType
<1>10. MoneyOK'
  <2>1. cash' \in [Accounts -> Nat]
    <3>1. /\ cash["senior"] \in Nat /\ cash["junior"] \in Nat
          /\ cash["treasury"] \in Nat /\ cash["diamond"] \in Nat
          /\ cash["diamondEth"] \in Nat
      BY DEF TypeOK, Accounts
    <3>2. cash["senior"] - outstanding \in Nat
      BY <1>1, <1>4, <1>6, <3>1 DEF LiquidityAccepted
    <3>3. /\ cash["senior"] - outstanding + toSenior \in Nat
          /\ cash["junior"] + pmt.interest - toSenior \in Nat
          /\ cash["treasury"] + pmt.fee \in Nat
          /\ DiamondEthAfter(currency, sent) \in Nat
      BY <1>1, <1>4, <1>5, <3>1, <3>2 DEF DiamondEthAfter
    <3> HIDE DEF nper, outstanding, loan, pmt, dues, toSenior
    <3>4. QED
      BY <1>6, <3>1, <3>3 DEF TypeOK, Accounts
  <2>2. eth' \in [Vaults -> Nat] /\ weth' \in [Vaults -> Nat]
    BY <1>4, <1>6, SettlementType DEF TypeOK
  <2>3. world' \in Int /\ given' \in Nat
    BY <1>1, <1>6 DEF TypeOK
  <2>4. QED
    BY <2>1, <2>2, <2>3 DEF MoneyOK
<1>11. /\ now' = now /\ twap' = twap /\ conf' = conf
       /\ repayRecord' = repayRecord /\ lien' = lien \cup {n}
       /\ holder' = [holder EXCEPT ![n] = v]
  BY DEF Borrow, marketVars
<1>12. QED
  BY <1>7, <1>8, <1>9, <1>10, <1>11 DEF TypeOK, MoneyOK

LEMMA RepayTypeOK ==
  ASSUME TypeOK, NEW v \in Vaults, NEW l \in LoanIds, Repay(v, l)
  PROVE  TypeOK'
<1> DEFINE loan == loans[v][l]
           pmt == loan.pmt
           due == pmt.principal + pmt.interest + pmt.fee
           wrapped == SubOrZero(due, weth[v])
           toSenior == SeniorShare(pmt.interest, loan.incomeRatio)
<1>1. /\ loan \in Loan /\ pmt \in PMT
      /\ loan.incomeRatio \in 0 .. BasisPoints
      /\ loan.paidTimes \in Nat /\ loan.borrowAt \in Nat /\ loan.epoch \in Nat
  BY DEF TypeOK, Loan
<1>2. /\ pmt.principal \in Nat /\ pmt.interest \in Nat /\ pmt.fee \in Nat
      /\ due \in Nat
  BY <1>1 DEF PMT
<1>3. toSenior \in 0 .. pmt.interest
  BY <1>1, <1>2, SharesType
<1>4. eth[v] \in Nat /\ weth[v] \in Nat
  BY DEF TypeOK
<1>5. wrapped \in Nat /\ weth[v] + wrapped - due \in Nat
  BY <1>2, <1>4 DEF SubOrZero
<1>6. /\ borrowData[v].totalPrincipal >= pmt.principal
      /\ borrowData[v].totalInterest >= pmt.interest
      /\ borrowData[v].totalFee >= pmt.fee
      /\ borrowState.totalDebt >= pmt.principal
      /\ wrapped <= eth[v]
      /\ borrowData' = [borrowData EXCEPT ![v] =
           IF IsFinal(loan) THEN PaidLoanCounted(InstalmentBooked(@, pmt))
           ELSE InstalmentBooked(@, pmt)]
      /\ borrowState' = DebtReduced(borrowState, pmt, loan.incomeRatio)
      /\ loans' = [loans EXCEPT ![v][l] =
           IF IsFinal(loan) THEN NoLoan ELSE AfterInstalment(loan)]
      /\ lien' = IF IsFinal(loan) THEN lien \ loan.collateral ELSE lien
      /\ repayRecord' = [repayRecord EXCEPT ![v].repaidTimes =
           IF IsFinal(loan) THEN @ + 1 ELSE @]
      /\ eth' = [eth EXCEPT ![v] = @ - wrapped]
      /\ weth' = [weth EXCEPT ![v] = @ + wrapped - due]
      /\ cash' = [cash EXCEPT
           !["senior"] = @ + pmt.principal + toSenior,
           !["junior"] = @ + pmt.interest - toSenior,
           !["treasury"] = @ + pmt.fee]
      /\ now' = now /\ twap' = twap /\ conf' = conf
      /\ holder' = holder /\ world' = world /\ given' = given
  BY DEF Repay, RepayAccepted, marketVars
<1>7. loans' \in [Vaults -> [LoanIds -> Loan]]
  <2>1. NoLoan \in Loan
    BY DEF NoLoan, Loan, PMT, BasisPoints
  <2>2. (loan.paidTimes + 1) * loan.epoch \in Nat
    BY <1>1
  <2>3. AfterInstalment(loan) \in Loan
    <3> DEFINE paid == [loan EXCEPT !.paidTimes = @ + 1]
    <3>1. paid \in Loan
      BY <1>1 DEF Loan
    <3>2. [paid EXCEPT !.nextPaymentDue =
             loan.borrowAt + (loan.paidTimes + 1) * loan.epoch] \in Loan
      <4> HIDE DEF paid
      <4>1. loan.borrowAt + (loan.paidTimes + 1) * loan.epoch \in Nat
        BY <1>1, <2>2
      <4>2. QED
        BY <3>1, <4>1 DEF Loan
    <3>3. QED
      BY <3>2 DEF AfterInstalment
  <2> HIDE DEF loan
  <2>4. QED
    BY <1>6, <2>1, <2>3 DEF TypeOK
<1>8. borrowData' \in [Vaults -> BorrowData]
  <2>1. InstalmentBooked(borrowData[v], pmt) \in BorrowData
    BY <1>1, <1>6, InstalmentBookedType DEF TypeOK
  <2>2. PaidLoanCounted(InstalmentBooked(borrowData[v], pmt)) \in BorrowData
    BY <2>1 DEF PaidLoanCounted, BorrowData
  <2> HIDE DEF loan, pmt
  <2>3. QED
    BY <1>6, <2>1, <2>2 DEF TypeOK
<1>9. borrowState' \in BorrowState
  BY <1>1, <1>6, DebtReducedType DEF TypeOK
<1>10. repayRecord' \in [Vaults -> [repaidTimes : Nat, defaultTimes : Nat]]
  <2>1. repayRecord[v] \in [repaidTimes : Nat, defaultTimes : Nat]
    BY DEF TypeOK
  <2>2. [repayRecord[v] EXCEPT !.repaidTimes = IF IsFinal(loan) THEN @ + 1 ELSE @]
          \in [repaidTimes : Nat, defaultTimes : Nat]
    BY <2>1
  <2>3. QED
    BY <1>6, <2>2 DEF TypeOK
<1>11. MoneyOK'
  <2>1. /\ cash["senior"] \in Nat /\ cash["junior"] \in Nat
        /\ cash["treasury"] \in Nat
    BY DEF TypeOK, Accounts
  <2>2. /\ cash["senior"] + pmt.principal + toSenior \in Nat
        /\ cash["junior"] + pmt.interest - toSenior \in Nat
        /\ cash["treasury"] + pmt.fee \in Nat
    BY <1>2, <1>3, <2>1
  <2>3. eth[v] - wrapped \in Nat
    BY <1>4, <1>5, <1>6
  <2> HIDE DEF loan, pmt, due, wrapped, toSenior
  <2>4. cash' \in [Accounts -> Nat]
    BY <1>6, <2>2 DEF TypeOK, Accounts
  <2>5. eth' \in [Vaults -> Nat] /\ weth' \in [Vaults -> Nat]
    BY <1>5, <1>6, <2>3 DEF TypeOK
  <2>6. world' \in Int /\ given' \in Nat
    BY <1>6 DEF TypeOK
  <2>7. QED
    BY <2>4, <2>5, <2>6 DEF MoneyOK
<1>12. now' = now /\ twap' = twap /\ conf' = conf /\ holder' = holder
       /\ lien' \in SUBSET Nfts
  BY <1>6 DEF TypeOK
<1>13. QED
  BY <1>7, <1>8, <1>9, <1>10, <1>11, <1>12 DEF TypeOK, MoneyOK

\* The proceeds of a liquidation and the junior tranche's part are paid out
\* completely, and the junior tranche pays no more than it has.
LEMMA ProceedsPaidOut ==
  ASSUME cash["junior"] \in Nat, NEW value \in Nat, NEW debt \in Nat,
         NEW s \in Nat, NEW j \in Nat, NEW fee \in Nat
  PROVE  /\ JuniorCover(debt, value) \in 0 .. cash["junior"]
         /\ Proceeds(value, debt, s, j, fee) \in
              [principal : Nat, seniorInterest : Nat, juniorInterest : Nat,
               fee : Nat, surplus : Nat]
         /\ Proceeds(value, debt, s, j, fee).principal
              + Proceeds(value, debt, s, j, fee).seniorInterest
              + Proceeds(value, debt, s, j, fee).juniorInterest
              + Proceeds(value, debt, s, j, fee).fee
              + Proceeds(value, debt, s, j, fee).surplus
            = value + JuniorCover(debt, value)
<1> DEFINE over == SubOrZero(value, debt)
           p == Proceeds(value, debt, s, j, fee)
<1>1. over \in Nat /\ SubOrZero(debt, value) \in Nat
  BY DEF SubOrZero
<1>2. JuniorCover(debt, value) \in 0 .. cash["junior"]
  BY <1>1 DEF JuniorCover, Lesser
<1>3. /\ p.principal = Lesser(debt, value + JuniorCover(debt, value))
      /\ p.principal \in Nat
      /\ p.principal + over = value + JuniorCover(debt, value)
  BY <1>1, <1>2 DEF Proceeds, JuniorCover, Lesser, SubOrZero
<1>4. /\ p.seniorInterest = Lesser(over, s)
      /\ p.juniorInterest = Lesser(over - p.seniorInterest, j)
      /\ p.fee = Lesser(over - p.seniorInterest - p.juniorInterest, fee)
      /\ p.surplus = over - p.seniorInterest - p.juniorInterest - p.fee
  BY DEF Proceeds, TryRepay
<1>5. p.seniorInterest \in Nat /\ over - p.seniorInterest \in Nat
  BY <1>1, <1>4 DEF Lesser
<1>6. /\ p.juniorInterest \in Nat
      /\ over - p.seniorInterest - p.juniorInterest \in Nat
  BY <1>4, <1>5, <1>1 DEF Lesser
<1>7. p.fee \in Nat /\ p.surplus \in Nat
  BY <1>4, <1>5, <1>6, <1>1 DEF Lesser
<1>8. p \in [principal : Nat, seniorInterest : Nat, juniorInterest : Nat,
              fee : Nat, surplus : Nat]
  BY <1>3, <1>5, <1>6, <1>7 DEF Proceeds
<1>9. p.principal + p.seniorInterest + p.juniorInterest + p.fee + p.surplus
        = value + JuniorCover(debt, value)
  <2>1. JuniorCover(debt, value) \in Nat
    BY <1>2
  <2> HIDE DEF over, p
  <2>2. QED
    BY <1>1, <1>3, <1>4, <1>5, <1>6, <1>7, <2>1
<1>10. QED
  BY <1>2, <1>8, <1>9

LEMMA LiquidateTypeOK ==
  ASSUME TypeOK, NEW v \in Vaults, NEW l \in LoanIds, Liquidate(v, l)
  PROVE  /\ TypeOK'
         /\ cash'["diamond"] = cash["diamond"]
         /\ cash'["diamondEth"] = cash["diamondEth"]
<1> DEFINE loan == loans[v][l]
           debt == borrowData[v].totalPrincipal
           interest == borrowData[v].totalInterest
           fee == borrowData[v].totalFee
           seniorInterest == SeniorShare(interest, loan.incomeRatio)
           juniorInterest == JuniorShare(interest, loan.incomeRatio)
           value == DiscountedFloor(twap.price) * Cardinality(loan.collateral)
           cover == JuniorCover(debt, value)
           p == Proceeds(value, debt, seniorInterest, juniorInterest, fee)
<1>1. /\ loan.incomeRatio \in 0 .. BasisPoints /\ loan.collateral \in SUBSET Nfts
      /\ debt \in Nat /\ interest \in Nat /\ fee \in Nat /\ twap.price \in Nat
      /\ borrowState \in BorrowState /\ conf \in Configuration
  BY ConstantsAssumption DEF TypeOK, Loan, BorrowData
<1>2. /\ DiscountedFloor(twap.price) >= 0
      /\ borrowState.totalDebt >= debt
      /\ borrowState.totalInterest >= interest
      /\ borrowState.totalSeniorInterest >= seniorInterest
      /\ borrowState.totalJuniorInterest >= juniorInterest
      /\ lien' = lien \ loan.collateral
      /\ loans' = [loans EXCEPT ![v][l] = NoLoan]
      /\ holder' = [n \in Nfts |->
           IF n \in loan.collateral THEN Outside ELSE holder[n]]
      /\ borrowState' =
           [totalDebt |-> borrowState.totalDebt - debt,
            totalInterest |-> borrowState.totalInterest - interest,
            totalSeniorInterest |->
              borrowState.totalSeniorInterest - seniorInterest,
            totalJuniorInterest |->
              borrowState.totalJuniorInterest - juniorInterest]
      /\ cash' = [cash EXCEPT
           !["senior"] = @ + p.principal + p.seniorInterest,
           !["junior"] = @ - cover + p.juniorInterest,
           !["treasury"] = @ + p.fee,
           !["diamond"] = @ + value + cover - p.principal - p.seniorInterest
                            - p.juniorInterest - p.fee - p.surplus]
      /\ weth' = [weth EXCEPT ![v] = @ + p.surplus]
      /\ world' = world - value
      /\ repayRecord' = [repayRecord EXCEPT ![v] =
           [repaidTimes |-> @.repaidTimes + 1,
            defaultTimes |-> @.defaultTimes + 1]]
      /\ now' = now /\ twap' = twap /\ conf' = conf
      /\ borrowData' = borrowData /\ eth' = eth /\ given' = given
  BY DEF Liquidate, marketVars
<1>3. value \in Nat
  <2>1. DiscountedFloor(twap.price) \in Nat
    <3>1. PercentMul(twap.price, conf.liquidationBonus) \in Nat
      BY <1>1, PercentMulNat DEF Configuration
    <3>2. QED
      BY <1>1, <1>2, <3>1 DEF DiscountedFloor, Discount
  <2>2. Cardinality(loan.collateral) \in Nat
    BY <1>1, ConstantsAssumption, FS_Subset, FS_CardinalityType
  <2>3. QED
    BY <2>1, <2>2
<1>4. seniorInterest \in Nat /\ juniorInterest \in Nat
  BY <1>1, SharesType
<1>5. /\ cash["senior"] \in Nat /\ cash["junior"] \in Nat
      /\ cash["treasury"] \in Nat /\ cash["diamond"] \in Nat
      /\ cash["diamondEth"] \in Nat
  BY DEF TypeOK, Accounts
<1>6. /\ cover \in 0 .. cash["junior"]
      /\ p.principal \in Nat /\ p.seniorInterest \in Nat
      /\ p.juniorInterest \in Nat /\ p.fee \in Nat /\ p.surplus \in Nat
      /\ p.principal + p.seniorInterest + p.juniorInterest + p.fee + p.surplus
           = value + cover
  <2>1. /\ cash["junior"] \in Nat /\ value \in Nat /\ debt \in Nat
        /\ seniorInterest \in Nat /\ juniorInterest \in Nat /\ fee \in Nat
    BY <1>1, <1>3, <1>4, <1>5
  <2>2. cover \in 0 .. cash["junior"]
    <3> HIDE DEF debt, fee, seniorInterest, juniorInterest, value
    <3>1. QED
      BY <2>1, ProceedsPaidOut
  <2>3. p \in [principal : Nat, seniorInterest : Nat, juniorInterest : Nat,
              fee : Nat, surplus : Nat]
    <3> HIDE DEF debt, fee, seniorInterest, juniorInterest, value
    <3>1. QED
      BY <2>1, ProceedsPaidOut
  <2>4. p.principal + p.seniorInterest + p.juniorInterest + p.fee + p.surplus
          = value + cover
    <3> HIDE DEF debt, fee, seniorInterest, juniorInterest, value
    <3>1. QED
      BY <2>1, ProceedsPaidOut
  <2> HIDE DEF p, cover
  <2>5. QED
    BY <2>2, <2>3, <2>4
<1>7. loans' \in [Vaults -> [LoanIds -> Loan]]
  <2>1. NoLoan \in Loan
    BY DEF NoLoan, Loan, PMT, BasisPoints
  <2>2. QED
    BY <1>2, <2>1 DEF TypeOK
<1>8. borrowState' \in BorrowState
  <2>1. /\ borrowState.totalDebt - debt \in Nat
        /\ borrowState.totalInterest - interest \in Nat
        /\ borrowState.totalSeniorInterest - seniorInterest \in Nat
        /\ borrowState.totalJuniorInterest - juniorInterest \in Nat
    BY <1>1, <1>2, <1>4 DEF BorrowState
  <2>2. QED
    BY <1>2, <2>1 DEF BorrowState
<1>9. repayRecord' \in [Vaults -> [repaidTimes : Nat, defaultTimes : Nat]]
  BY <1>2 DEF TypeOK
<1>10. /\ MoneyOK'
       /\ cash'["diamond"] = cash["diamond"]
       /\ cash'["diamondEth"] = cash["diamondEth"]
  <2>1. /\ cash["senior"] + p.principal + p.seniorInterest \in Nat
        /\ cash["junior"] - cover + p.juniorInterest \in Nat
        /\ cash["treasury"] + p.fee \in Nat
        /\ cash["diamond"] + value + cover - p.principal - p.seniorInterest
             - p.juniorInterest - p.fee - p.surplus = cash["diamond"]
    <3> HIDE DEF value, cover, p
    <3>1. QED
      BY <1>3, <1>5, <1>6
  <2> HIDE DEF value, cover, p
  <2>2. /\ cash' \in [Accounts -> Nat]
        /\ cash'["diamond"] = cash["diamond"]
        /\ cash'["diamondEth"] = cash["diamondEth"]
    BY <1>2, <1>5, <2>1 DEF TypeOK, Accounts
  <2>3. /\ weth' \in [Vaults -> Nat] /\ eth' \in [Vaults -> Nat]
        /\ world' \in Int /\ given' \in Nat
    BY <1>2, <1>3, <1>6 DEF TypeOK
  <2>4. QED
    BY <2>2, <2>3 DEF MoneyOK
<1>11. /\ now' = now /\ twap' = twap /\ conf' = conf /\ borrowData' = borrowData
       /\ lien' \in SUBSET Nfts
       /\ holder' \in [Nfts -> Vaults \cup {Outside}]
  BY <1>2 DEF TypeOK
<1>12. QED
  BY <1>7, <1>8, <1>9, <1>10, <1>11 DEF TypeOK, MoneyOK

\* What adding to one of several balances, or taking from it, does.
LEMMA CreditedType ==
  ASSUME NEW S, NEW b \in [S -> Nat], NEW a, NEW x \in Nat
  PROVE  /\ Credited(b, a, x) \in [S -> Nat]
         /\ \A y \in S : Credited(b, a, x)[y] = b[y] + (IF y = a THEN x ELSE 0)
         /\ a \notin S => Credited(b, a, x) = b
BY DEF Credited

LEMMA DebitedType ==
  ASSUME NEW S, NEW b \in [S -> Nat], NEW a \in S, NEW x \in Nat, x <= b[a]
  PROVE  /\ Debited(b, a, x) \in [S -> Nat]
         /\ \A y \in S : Debited(b, a, x)[y] = b[y] - (IF y = a THEN x ELSE 0)
BY DEF Debited

\* Money moves alone: no transfer of it touches a loan, an NFT or the market.
LEMMA TransfersMoveMoney ==
  ASSUME VaultMoneyStep \/ GiftStep \/ DepositorStep
  PROVE  UNCHANGED <<marketVars, bookVars, nftVars>>
BY DEF VaultMoneyStep, TransferETH, TransferCurrency, WrapVaultETH,
       UnwrapVaultETH, ReceiveETH, ReceiveCurrency, GiftStep, DepositorStep,
       TrancheDeposit, TrancheWithdraw

\* The owner's and everyone else's transfers.
LEMMA TransferTypeOK ==
  ASSUME TypeOK, NftStep \/ VaultMoneyStep \/ GiftStep \/ DepositorStep
  PROVE  TypeOK'
<1>0. Flows \subseteq Nat /\ Gifts \subseteq Nat
  BY ConstantsAssumption
<1>00. /\ cash \in [Accounts -> Nat] /\ eth \in [Vaults -> Nat] /\ weth \in [Vaults -> Nat]
       /\ world \in Int /\ given \in Nat
  BY DEF TypeOK
<1>1. CASE NftStep
  BY <1>1 DEF NftStep, WithdrawNFT, ReceiveNFT, TypeOK, marketVars, bookVars,
              moneyVars
<1>2. CASE VaultMoneyStep \/ GiftStep
  <2>1. ASSUME NEW to, NEW x \in Nat, ReceiveETH(to, x) \/ ReceiveCurrency(to, x)
        PROVE  MoneyOK'
    BY <1>00, <2>1, CreditedType DEF ReceiveETH, ReceiveCurrency, Counted, MoneyOK
  <2>2. ASSUME NEW v \in Vaults, NEW to, NEW x \in Nat,
               TransferETH(v, to, x) \/ TransferCurrency(v, to, x)
        PROVE  MoneyOK'
    <3>1. CASE TransferETH(v, to, x)
      <4>1. Debited(eth, v, x) \in [Vaults -> Nat]
        BY <1>00, <3>1, DebitedType DEF TransferETH
      <4>2. QED
        BY <1>00, <3>1, <4>1, CreditedType DEF TransferETH, Counted, MoneyOK
    <3>2. CASE TransferCurrency(v, to, x)
      <4>1. Debited(weth, v, x) \in [Vaults -> Nat]
        BY <1>00, <3>2, DebitedType DEF TransferCurrency
      <4>2. QED
        BY <1>00, <3>2, <4>1, CreditedType DEF TransferCurrency, Counted, MoneyOK
    <3>3. QED
      BY <2>2, <3>1, <3>2
  <2>3. ASSUME NEW v \in Vaults, NEW x \in Nat, NEW sent \in Nat, WrapVaultETH(v, x, sent)
        PROVE  MoneyOK'
    BY <1>00, <2>3, CreditedType, DebitedType DEF WrapVaultETH, MoneyOK
  <2>4. ASSUME NEW v \in Vaults, NEW x \in Nat, UnwrapVaultETH(v, x)
        PROVE  MoneyOK'
    BY <1>00, <2>4, CreditedType, DebitedType DEF UnwrapVaultETH, MoneyOK
  <2>5. MoneyOK'
    <3>1. CASE VaultMoneyStep
      BY <1>0, <2>1, <2>2, <2>3, <2>4, <3>1 DEF VaultMoneyStep
    <3>2. CASE GiftStep
      BY <1>0, <2>1, <3>2 DEF GiftStep
    <3>3. QED
      BY <1>2, <3>1, <3>2
  <2>6. UNCHANGED <<marketVars, bookVars, nftVars>>
    BY <1>2, TransfersMoveMoney
  <2>7. QED
    BY <2>5, <2>6 DEF TypeOK, MoneyOK, marketVars, bookVars, nftVars
<1>3. CASE DepositorStep
  <2>1. PICK tranche \in {"senior", "junior"}, x \in Flows :
          TrancheDeposit(tranche, x) \/ TrancheWithdraw(tranche, x)
    BY <1>3 DEF DepositorStep
  <2>2. x \in Nat /\ tranche \in Accounts /\ cash[tranche] \in Nat
    BY <1>0 DEF TypeOK, Accounts
  <2>3. cash' \in [Accounts -> Nat] /\ world' \in Int
    BY <2>1, <2>2 DEF TrancheDeposit, TrancheWithdraw, TypeOK
  <2>4. UNCHANGED <<marketVars, bookVars, nftVars, weth, eth, given>>
    BY <2>1 DEF TrancheDeposit, TrancheWithdraw
  <2>5. QED
    BY <2>3, <2>4 DEF TypeOK, marketVars, bookVars, nftVars
<1>4. QED
  BY <1>1, <1>2, <1>3

\* Clock, oracle and configuration.
LEMMA MarketTypeOK ==
  ASSUME TypeOK, MarketStep
  PROVE  TypeOK'
<1>1. /\ UNCHANGED <<bookVars, nftVars, moneyVars>>
      /\ now' \in StartTime .. MaxTime
      /\ twap' \in [price : Nat, time : Nat]
      /\ conf' \in Confs
  BY ConstantsAssumption
  DEF MarketStep, Tick, UpdateTwap, Configure, TypeOK
<1>2. QED
  BY <1>1 DEF TypeOK, bookVars, nftVars, moneyVars

LEMMA InitTypeOK == Init => TypeOK
<1>1. NoLoan \in Loan
  BY DEF NoLoan, Loan, PMT, BasisPoints
<1>2. QED
  BY <1>1, ConstantsAssumption
  DEF Init, TypeOK, BorrowData, BorrowState, Accounts, Outside

LEMMA NextTypeOK == TypeOK /\ [Next]_vars => TypeOK'
<1> SUFFICES ASSUME TypeOK, [Next]_vars
             PROVE  TypeOK'
  OBVIOUS
<1>1. CASE BuyStep
  BY <1>1, BorrowTypeOK DEF BuyStep, BuyNow, BuyNowV2
<1>2. CASE RepayStep
  BY <1>2, RepayTypeOK DEF RepayStep
<1>3. CASE LiquidateStep
  BY <1>3, LiquidateTypeOK DEF LiquidateStep
<1>4. CASE NftStep \/ VaultMoneyStep \/ GiftStep \/ DepositorStep
  BY <1>4, TransferTypeOK
<1>5. CASE MarketStep
  BY <1>5, MarketTypeOK
<1>6. CASE UNCHANGED vars
  BY <1>6 DEF TypeOK, vars
<1>7. QED
  BY <1>1, <1>2, <1>3, <1>4, <1>5, <1>6 DEF Next

\* No amount the contracts store, and no balance, ever goes below zero: every
\* subtraction of the lending code that is unchecked here is safe.
THEOREM TypeCorrect == Spec => []TypeOK
<1>1. QED
  BY InitTypeOK, NextTypeOK, PTL DEF Spec

-----------------------------------------------------------------------------
(***************************************************************************)
(* Custody of the collateral.  The conjuncts of CollateralInCustody need   *)
(* one another: a purchase cannot pledge an NFT twice because pledged ones *)
(* are in a vault, and it does not overwrite a loan because numbers not    *)
(* yet given out have no collateral.                                       *)
(***************************************************************************)

LEMMA BorrowCustody ==
  ASSUME TypeOK, CollateralInCustody,
         NEW v \in Vaults, NEW n \in Nfts, NEW price \in Prices,
         NEW interest \in Interests, NEW pending \in Pendings,
         NEW currency \in Currencies, NEW sent \in Gifts,
         Borrow(v, n, price, interest, pending, currency, sent)
  PROVE  CollateralInCustody'
<1> DEFINE nper == conf.term \div conf.epoch
           loan == NewLoan(n, price, interest, nper)
           number == borrowData[v].nextLoanNumber
<1>1. /\ number \in LoanIds /\ number \in Nat
      /\ loans' = [loans EXCEPT ![v][number] = loan]
      /\ borrowData' = [borrowData EXCEPT ![v] =
           InstalmentBooked(LoanBooked(@, price, interest), loan.pmt)]
      /\ holder[n] = Outside
      /\ holder' = [holder EXCEPT ![n] = v]
      /\ lien' = lien \cup {n}
  BY ConstantsAssumption DEF Borrow
<1>2. loan.collateral = {n}
  BY DEF NewLoan
<1>3. \A w \in Vaults, l \in LoanIds :
        loans'[w][l].collateral =
          IF w = v /\ l = number THEN {n} ELSE loans[w][l].collateral
  <2> HIDE DEF loan, number
  <2>1. QED
    BY <1>1, <1>2 DEF TypeOK
<1>4. \A w \in Vaults, l \in LoanIds : n \notin loans[w][l].collateral
  BY <1>1, ConstantsAssumption DEF CollateralInCustody, CollateralLocked
<1>5. loans[v][number].collateral = {}
  BY <1>1 DEF CollateralInCustody, FreshNumbersUnused
<1>6. \A w \in Vaults :
        borrowData'[w].nextLoanNumber =
          IF w = v THEN number + 1 ELSE borrowData[w].nextLoanNumber
  BY <1>1 DEF TypeOK, InstalmentBooked, LoanBooked
<1> HIDE DEF number
<1>7. CollateralLocked'
  <2> SUFFICES ASSUME NEW w \in Vaults, NEW l \in LoanIds,
                      NEW k \in loans'[w][l].collateral
               PROVE  k \in lien' /\ holder'[k] = w
    BY DEF CollateralLocked
  <2>1. CASE w = v /\ l = number
    BY <1>1, <1>3, <2>1 DEF TypeOK
  <2>2. CASE ~(w = v /\ l = number)
    <3>1. k \in loans[w][l].collateral /\ k # n
      BY <1>3, <1>4, <2>2
    <3>2. k \in lien /\ holder[k] = w
      BY <3>1 DEF CollateralInCustody, CollateralLocked
    <3>3. k \in Nfts
      BY <3>2 DEF TypeOK
    <3>4. QED
      BY <1>1, <3>1, <3>2, <3>3 DEF TypeOK
  <2>3. QED
    BY <2>1, <2>2
<1>8. LienHasLoan'
  BY <1>1, <1>3, <1>5 DEF CollateralInCustody, LienHasLoan
<1>9. CollateralUnshared'
  BY <1>1, <1>3, <1>4 DEF CollateralInCustody, CollateralUnshared
<1>10. FreshNumbersUnused'
  <2> SUFFICES ASSUME NEW w \in Vaults, NEW l \in LoanIds,
                      l >= borrowData'[w].nextLoanNumber
               PROVE  loans'[w][l].collateral = {}
    BY DEF FreshNumbersUnused
  <2>1. l \in Nat
    BY ConstantsAssumption
  <2>2. CASE w = v
    BY <1>1, <1>3, <1>6, <2>1, <2>2
    DEF CollateralInCustody, FreshNumbersUnused, number
  <2>3. CASE w # v
    BY <1>3, <1>6, <2>3 DEF CollateralInCustody, FreshNumbersUnused
  <2>4. QED
    BY <2>2, <2>3
<1>11. QED
  BY <1>7, <1>8, <1>9, <1>10 DEF CollateralInCustody

\* A loan that is closed takes its liens with it, and no others.
LEMMA CloseCustody ==
  ASSUME TypeOK, CollateralInCustody, NEW v \in Vaults, NEW l \in LoanIds,
         \A w \in Vaults, m \in LoanIds :
           loans'[w][m].collateral =
             IF w = v /\ m = l THEN {} ELSE loans[w][m].collateral,
         lien' = lien \ loans[v][l].collateral,
         \A n \in Nfts :
           n \notin loans[v][l].collateral => holder'[n] = holder[n],
         \A w \in Vaults :
           borrowData'[w].nextLoanNumber = borrowData[w].nextLoanNumber
  PROVE  CollateralInCustody'
<1>0. \A w \in Vaults, m \in LoanIds : loans[w][m].collateral \subseteq Nfts
  BY DEF TypeOK, Loan
<1>1. CollateralLocked'
  <2> SUFFICES ASSUME NEW w \in Vaults, NEW m \in LoanIds,
                      NEW n \in loans'[w][m].collateral
               PROVE  n \in lien' /\ holder'[n] = w
    BY DEF CollateralLocked
  <2>1. ~(w = v /\ m = l) /\ n \in loans[w][m].collateral /\ n \in Nfts
    BY <1>0
  <2>2. n \notin loans[v][l].collateral
    BY <2>1 DEF CollateralInCustody, CollateralUnshared
  <2>3. n \in lien /\ holder[n] = w
    BY <2>1 DEF CollateralInCustody, CollateralLocked
  <2>4. QED
    BY <2>1, <2>2, <2>3
<1>2. LienHasLoan'
  <2> SUFFICES ASSUME NEW n \in lien'
               PROVE  \E w \in Vaults, m \in LoanIds :
                        n \in loans'[w][m].collateral
    BY DEF LienHasLoan
  <2>1. PICK w \in Vaults, m \in LoanIds : n \in loans[w][m].collateral
    BY DEF CollateralInCustody, LienHasLoan
  <2>2. ~(w = v /\ m = l)
    BY <2>1
  <2>3. QED
    BY <2>1, <2>2
<1>3. CollateralUnshared'
  BY DEF CollateralInCustody, CollateralUnshared
<1>4. FreshNumbersUnused'
  BY DEF CollateralInCustody, FreshNumbersUnused
<1>5. QED
  BY <1>1, <1>2, <1>3, <1>4 DEF CollateralInCustody

LEMMA RepayCustody ==
  ASSUME TypeOK, CollateralInCustody, NEW v \in Vaults, NEW l \in LoanIds,
         Repay(v, l)
  PROVE  CollateralInCustody'
<1> DEFINE loan == loans[v][l]
           pmt == loan.pmt
           after == IF IsFinal(loan) THEN NoLoan ELSE AfterInstalment(loan)
<1>1. /\ borrowData' = [borrowData EXCEPT ![v] =
           IF IsFinal(loan) THEN PaidLoanCounted(InstalmentBooked(@, pmt))
           ELSE InstalmentBooked(@, pmt)]
      /\ loans' = [loans EXCEPT ![v][l] = after]
      /\ lien' = IF IsFinal(loan) THEN lien \ loan.collateral ELSE lien
      /\ holder' = holder
  BY DEF Repay
<1>2. after.collateral = IF IsFinal(loan) THEN {} ELSE loan.collateral
  BY DEF NoLoan, AfterInstalment, TypeOK, Loan
<1>3. \A w \in Vaults :
        borrowData'[w].nextLoanNumber = borrowData[w].nextLoanNumber
  BY <1>1 DEF TypeOK, InstalmentBooked, PaidLoanCounted
<1>4. \A w \in Vaults, m \in LoanIds :
        loans'[w][m].collateral =
          IF w = v /\ m = l THEN after.collateral ELSE loans[w][m].collateral
  <2> HIDE DEF after
  <2>1. QED
    BY <1>1 DEF TypeOK
<1>5. CASE IsFinal(loan)
  <2>1. \A w \in Vaults, m \in LoanIds :
          loans'[w][m].collateral =
            IF w = v /\ m = l THEN {} ELSE loans[w][m].collateral
    BY <1>2, <1>4, <1>5
  <2>2. lien' = lien \ loans[v][l].collateral /\ holder' = holder
    BY <1>1, <1>5
  <2>3. QED
    BY <1>3, <2>1, <2>2, CloseCustody
<1>6. CASE ~IsFinal(loan)
  <2>1. \A w \in Vaults, m \in LoanIds :
          loans'[w][m].collateral = loans[w][m].collateral
    BY <1>2, <1>4, <1>6
  <2>2. lien' = lien /\ holder' = holder
    BY <1>1, <1>6
  <2>3. QED
    BY <1>3, <2>1, <2>2
    DEF CollateralInCustody, CollateralLocked, LienHasLoan, CollateralUnshared,
        FreshNumbersUnused
<1>7. QED
  BY <1>5, <1>6

LEMMA LiquidateCustody ==
  ASSUME TypeOK, CollateralInCustody, NEW v \in Vaults, NEW l \in LoanIds,
         Liquidate(v, l)
  PROVE  CollateralInCustody'
<1>1. /\ loans' = [loans EXCEPT ![v][l] = NoLoan]
      /\ lien' = lien \ loans[v][l].collateral
      /\ holder' = [n \in Nfts |->
           IF n \in loans[v][l].collateral THEN Outside ELSE holder[n]]
      /\ borrowData' = borrowData
  BY DEF Liquidate
<1>2. \A w \in Vaults, m \in LoanIds :
        loans'[w][m].collateral =
          IF w = v /\ m = l THEN {} ELSE loans[w][m].collateral
  BY <1>1 DEF TypeOK, NoLoan
<1>3. QED
  BY <1>1, <1>2, CloseCustody

\* NFTs that secure nothing come and go.
LEMMA NftCustody ==
  ASSUME TypeOK, CollateralInCustody, NftStep
  PROVE  CollateralInCustody'
<1>1. PICK v \in Vaults, n \in Nfts : WithdrawNFT(v, n) \/ ReceiveNFT(v, n)
  BY DEF NftStep
<1>2. loans' = loans /\ borrowData' = borrowData /\ lien' = lien
  BY <1>1 DEF WithdrawNFT, ReceiveNFT, bookVars
<1>3. \A w \in Vaults, l \in LoanIds : n \notin loans[w][l].collateral
  BY <1>1, ConstantsAssumption
  DEF WithdrawNFT, ReceiveNFT, CollateralInCustody, CollateralLocked
<1>4. \A k \in Nfts : k # n => holder'[k] = holder[k]
  BY <1>1 DEF WithdrawNFT, ReceiveNFT, TypeOK
<1>5. \A w \in Vaults, l \in LoanIds : loans[w][l].collateral \subseteq Nfts
  BY DEF TypeOK, Loan
<1>6. QED
  BY <1>2, <1>3, <1>4, <1>5
  DEF CollateralInCustody, CollateralLocked, LienHasLoan, CollateralUnshared,
      FreshNumbersUnused

LEMMA OtherCustody ==
  ASSUME CollateralInCustody,
         \/ VaultMoneyStep \/ GiftStep \/ DepositorStep \/ MarketStep
         \/ UNCHANGED vars
  PROVE  CollateralInCustody'
<1>1. UNCHANGED <<loans, borrowData, lien, holder>>
  BY TransfersMoveMoney
  DEF MarketStep, Tick, UpdateTwap, Configure, bookVars, nftVars, vars
<1>2. QED
  BY <1>1 DEF CollateralInCustody, CollateralLocked, LienHasLoan,
              CollateralUnshared, FreshNumbersUnused

\* Whatever the order of purchases, repayments, liquidations, withdrawals and
\* changes of the terms: an NFT that secures an open loan is locked and in the
\* borrower's vault, and an NFT that is locked secures exactly one open loan.
THEOREM CustodyKept == Spec => []CollateralInCustody
<1>1. Init => CollateralInCustody
  BY DEF Init, NoLoan, CollateralInCustody, CollateralLocked, LienHasLoan,
         CollateralUnshared, FreshNumbersUnused
<1>2. TypeOK /\ CollateralInCustody /\ [Next]_vars => CollateralInCustody'
  <2> SUFFICES ASSUME TypeOK, CollateralInCustody, [Next]_vars
               PROVE  CollateralInCustody'
    OBVIOUS
  <2>1. CASE BuyStep
    BY <2>1, BorrowCustody DEF BuyStep, BuyNow, BuyNowV2
  <2>2. CASE RepayStep
    BY <2>2, RepayCustody DEF RepayStep
  <2>3. CASE LiquidateStep
    BY <2>3, LiquidateCustody DEF LiquidateStep
  <2>4. CASE NftStep
    BY <2>4, NftCustody
  <2>5. CASE VaultMoneyStep \/ GiftStep \/ DepositorStep \/ MarketStep
             \/ UNCHANGED vars
    BY <2>5, OtherCustody
  <2>6. QED
    BY <2>1, <2>2, <2>3, <2>4, <2>5 DEF Next
<1>3. QED
  BY <1>1, <1>2, TypeCorrect, PTL DEF Spec

-----------------------------------------------------------------------------
(***************************************************************************)
(* Money.                                                                  *)
(***************************************************************************)

\* For any balances, any order currency and any amounts: a vault that passes
\* the combined check of _initializeLoan never fails in _executeBuyNow for
\* lack of ETH or of WETH.
LEMMA CombinedCheckSound == TypeOK => CombinedCheckSuffices
<1> SUFFICES ASSUME TypeOK, NEW v \in Vaults, NEW currency \in Currencies,
                    NEW outstanding \in Prices,
                    NEW downpayment \in 0 .. eth[v] + weth[v],
                    NEW dues \in 0 .. eth[v] + weth[v],
                    CombinedBalanceCovers(v, downpayment, dues)
             PROVE  SettlementSucceeds(v, currency, downpayment, dues, outstanding)
  BY DEF CombinedCheckSuffices
<1>1. /\ eth[v] \in Nat /\ weth[v] \in Nat
      /\ downpayment \in Nat /\ dues \in Nat /\ outstanding \in Nat
      /\ eth[v] + weth[v] >= downpayment + dues
  BY ConstantsAssumption DEF TypeOK, CombinedBalanceCovers
<1>2. CASE currency = "ETH"
  BY <1>1, <1>2
  DEF SettlementSucceeds, EthAfter, WethAfter, Unwrapped, Wrapped, SubOrZero
<1>3. CASE currency # "ETH"
  BY <1>1, <1>3
  DEF SettlementSucceeds, EthAfter, WethAfter, Unwrapped, Wrapped, SubOrZero
<1>4. QED
  BY <1>2, <1>3

THEOREM CombinedCheckKept == Spec => []CombinedCheckSuffices
<1>1. QED
  BY TypeCorrect, CombinedCheckSound, PTL

-----------------------------------------------------------------------------
(***************************************************************************)
(* The life of a loan.                                                     *)
(***************************************************************************)

\* What a slot that held the loan may hold after a step that changes it.
Successor(loan, after) ==
  \/ after = NoLoan
  \/ /\ ~IsFinal(loan) /\ loan.pmt.principal + loan.pmt.interest # 0
     /\ after = AfterInstalment(loan)
  \/ \E n \in Nfts, price \in Prices, interest \in Interests :
       /\ conf.epoch # 0 /\ conf.term \div conf.epoch # 0
       /\ after = NewLoan(n, price, interest, conf.term \div conf.epoch)

\* A step changes at most one loan.
LEMMA LoanSteps ==
  ASSUME TypeOK, [Next]_vars
  PROVE  \A v \in Vaults, l \in LoanIds :
           \/ loans'[v][l] = loans[v][l]
           \/ Successor(loans[v][l], loans'[v][l])
<1>1. ASSUME NEW v \in Vaults, NEW l \in LoanIds, NEW loan,
             loans' = [loans EXCEPT ![v][l] = loan],
             Successor(loans[v][l], loan)
      PROVE  \A w \in Vaults, m \in LoanIds :
               \/ loans'[w][m] = loans[w][m]
               \/ Successor(loans[w][m], loans'[w][m])
  <2>1. \A w \in Vaults, m \in LoanIds :
          loans'[w][m] = IF w = v /\ m = l THEN loan ELSE loans[w][m]
    BY <1>1 DEF TypeOK
  <2>2. QED
    BY <1>1, <2>1
<1>2. CASE BuyStep
  <2>1. PICK v \in Vaults, n \in Nfts, price \in Prices,
             interest \in Interests, pending \in Pendings,
             currency \in Currencies, sent \in Gifts :
               Borrow(v, n, price, interest, pending, currency, sent)
    BY <1>2 DEF BuyStep, BuyNow, BuyNowV2
  <2> DEFINE number == borrowData[v].nextLoanNumber
             loan == NewLoan(n, price, interest, conf.term \div conf.epoch)
  <2>2. /\ number \in LoanIds
        /\ loans' = [loans EXCEPT ![v][number] = loan]
        /\ conf.epoch # 0 /\ conf.term \div conf.epoch # 0
    BY <2>1 DEF Borrow
  <2>3. Successor(loans[v][number], loan)
    BY <2>2 DEF Successor
  <2> HIDE DEF number, loan
  <2>4. QED
    BY <1>1, <2>2, <2>3
<1>3. CASE RepayStep
  <2>1. PICK v \in Vaults, l \in LoanIds : Repay(v, l)
    BY <1>3 DEF RepayStep
  <2> DEFINE after == IF IsFinal(loans[v][l]) THEN NoLoan
                      ELSE AfterInstalment(loans[v][l])
  <2>2. loans' = [loans EXCEPT ![v][l] = after]
    BY <2>1 DEF Repay, AfterInstalment
  <2>3. Successor(loans[v][l], after)
    BY <2>1 DEF Repay, RepayAccepted, Successor
  <2> HIDE DEF after
  <2>4. QED
    BY <1>1, <2>2, <2>3
<1>4. CASE LiquidateStep
  <2>1. PICK v \in Vaults, l \in LoanIds : Liquidate(v, l)
    BY <1>4 DEF LiquidateStep
  <2>2. loans' = [loans EXCEPT ![v][l] = NoLoan]
    BY <2>1 DEF Liquidate
  <2>3. Successor(loans[v][l], NoLoan)
    BY DEF Successor
  <2>4. QED
    BY <1>1, <2>2, <2>3
<1>5. CASE VaultMoneyStep \/ GiftStep \/ DepositorStep \/ NftStep \/ MarketStep
           \/ UNCHANGED vars
  <2>1. loans' = loans
    BY <1>5, TransfersMoveMoney
    DEF NftStep, WithdrawNFT, ReceiveNFT, MarketStep, Tick, UpdateTwap, Configure, bookVars, vars
  <2>2. QED
    BY <2>1
<1>6. QED
  BY <1>2, <1>3, <1>4, <1>5 DEF Next

\* The stored due date of a loan with collateral is that of the instalment
\* after the ones paid: initDebt and insertRapayment agree on the schedule.
DueDateMatches ==
  \A v \in Vaults, l \in LoanIds :
    loans[v][l].collateral # {} =>
      loans[v][l].nextPaymentDue =
        loans[v][l].borrowAt + loans[v][l].paidTimes * loans[v][l].epoch

LEMMA ScheduleKept == Spec => []DueDateMatches
<1> DEFINE OnSchedule(loan) ==
      loan.collateral # {} =>
        loan.nextPaymentDue = loan.borrowAt + loan.paidTimes * loan.epoch
<1>1. Init => DueDateMatches
  BY DEF Init, NoLoan, DueDateMatches
<1>2. TypeOK /\ DueDateMatches /\ [Next]_vars => DueDateMatches'
  <2> SUFFICES ASSUME TypeOK, DueDateMatches, [Next]_vars,
                      NEW v \in Vaults, NEW l \in LoanIds
               PROVE  OnSchedule(loans'[v][l])
    BY DEF DueDateMatches
  <2> DEFINE loan == loans[v][l]
             after == loans'[v][l]
  <2>1. OnSchedule(loan) /\ loan \in Loan
    BY DEF DueDateMatches, TypeOK
  <2>2. after = loan \/ Successor(loan, after)
    BY LoanSteps
  <2> SUFFICES OnSchedule(after)
    OBVIOUS
  <2> HIDE DEF loan, after
  <2>3. CASE after = NoLoan
    BY <2>3 DEF NoLoan
  <2>4. CASE after = AfterInstalment(loan)
    <3>1. /\ after.paidTimes = loan.paidTimes + 1
          /\ after.borrowAt = loan.borrowAt /\ after.epoch = loan.epoch
          /\ after.nextPaymentDue =
               loan.borrowAt + (loan.paidTimes + 1) * loan.epoch
      BY <2>1, <2>4 DEF AfterInstalment, Loan
    <3>2. QED
      BY <3>1
  <2>5. CASE \E n \in Nfts, price \in Prices, interest \in Interests :
               after = NewLoan(n, price, interest, conf.term \div conf.epoch)
    <3>1. /\ after.paidTimes = 1 /\ after.borrowAt = now
          /\ after.epoch = conf.epoch
          /\ after.nextPaymentDue = now + conf.epoch
      BY <2>5 DEF NewLoan
    <3>2. conf.epoch \in Nat
      BY ConstantsAssumption DEF TypeOK, Configuration
    <3>3. conf.epoch = 1 * conf.epoch
      BY <3>2
    <3>4. QED
      BY <3>1, <3>3
  <2>6. QED
    BY <2>1, <2>2, <2>3, <2>4, <2>5 DEF Successor
<1>3. QED
  BY <1>1, <1>2, TypeCorrect, PTL DEF Spec

-----------------------------------------------------------------------------
(***************************************************************************)
(* What a step may never do.                                               *)
(***************************************************************************)

\* A liquidation that moves an NFT was for the loan it secures, and that loan
\* was overdue.
LEMMA LiquidateDefaults ==
  ASSUME TypeOK, CollateralInCustody, DueDateMatches,
         NEW v \in Vaults, NEW l \in LoanIds, Liquidate(v, l),
         NEW n \in lien, holder'[n] # holder[n]
  PROVE  Defaulted(n)
<1>1. n \in Nfts
  BY DEF TypeOK
<1>2. /\ holder' = [k \in Nfts |->
           IF k \in loans[v][l].collateral THEN Outside ELSE holder[k]]
      /\ Qualified(loans[v][l])
      /\ repayRecord' = [repayRecord EXCEPT ![v] =
           [repaidTimes |-> @.repaidTimes + 1,
            defaultTimes |-> @.defaultTimes + 1]]
  BY DEF Liquidate
<1>3. n \in loans[v][l].collateral
  BY <1>1, <1>2
<1>4. loans[v][l].nextPaymentDue =
        loans[v][l].borrowAt + loans[v][l].paidTimes * loans[v][l].epoch
  BY <1>3 DEF DueDateMatches
<1>5. repayRecord'[v].defaultTimes = repayRecord[v].defaultTimes + 1
  BY <1>2 DEF TypeOK
<1>6. QED
  BY <1>2, <1>3, <1>4, <1>5 DEF Defaulted, Qualified

\* No call of anyone moves an NFT that secures a loan, except a liquidation of
\* that very loan after its grace period, recorded as a default of its vault.
THEOREM CollateralNeverSlips == Spec => CollateralLeavesOnDefault
<1>1. TypeOK /\ CollateralInCustody /\ DueDateMatches /\ [Next]_vars =>
        [\A n \in lien : holder'[n] # holder[n] => Defaulted(n)]_vars
  <2> SUFFICES ASSUME TypeOK, CollateralInCustody, DueDateMatches, Next,
                      NEW n \in lien, holder'[n] # holder[n]
               PROVE  Defaulted(n)
    OBVIOUS
  <2>1. n \in Nfts /\ holder[n] \in Vaults
    BY DEF CollateralInCustody, CollateralLocked, LienHasLoan, TypeOK
  <2>2. CASE BuyStep
    <3>1. PICK v \in Vaults, k \in Nfts :
            holder[k] = Outside /\ holder' = [holder EXCEPT ![k] = v]
      <4>1. PICK v \in Vaults, k \in Nfts, price \in Prices,
                 interest \in Interests, pending \in Pendings,
                 currency \in Currencies, sent \in Gifts :
                   Borrow(v, k, price, interest, pending, currency, sent)
        BY <2>2 DEF BuyStep, BuyNow, BuyNowV2
      <4>2. holder[k] = Outside /\ holder' = [holder EXCEPT ![k] = v]
        BY <4>1 DEF Borrow
      <4>3. QED
        BY <4>2
    <3>2. k # n
      BY <2>1, <3>1, ConstantsAssumption
    <3>3. QED
      BY <2>1, <3>1, <3>2 DEF TypeOK
  <2>3. CASE LiquidateStep
    BY <2>3, LiquidateDefaults DEF LiquidateStep
  <2>4. CASE NftStep
    <3>1. PICK v \in Vaults, k \in Nfts : WithdrawNFT(v, k) \/ ReceiveNFT(v, k)
      BY <2>4 DEF NftStep
    <3>2. k # n
      BY <2>1, <3>1, ConstantsAssumption DEF WithdrawNFT, ReceiveNFT
    <3>3. QED
      BY <2>1, <3>1, <3>2 DEF WithdrawNFT, ReceiveNFT, TypeOK
  <2>5. CASE RepayStep \/ VaultMoneyStep \/ GiftStep \/ DepositorStep \/ MarketStep
    <3>1. holder' = holder
      BY <2>5, TransfersMoveMoney
      DEF RepayStep, Repay, MarketStep, Tick, UpdateTwap, Configure, nftVars
    <3>2. QED
      BY <3>1
  <2>6. QED
    BY <2>2, <2>3, <2>4, <2>5 DEF Next
<1>2. QED
  BY <1>1, TypeCorrect, CustodyKept, ScheduleKept, PTL
  DEF Spec, CollateralLeavesOnDefault

LEMMA BorrowKeepsSeniorPrincipal ==
  ASSUME TypeOK, NEW v \in Vaults, NEW n \in Nfts, NEW price \in Prices,
         NEW interest \in Interests, NEW pending \in Pendings,
         NEW currency \in Currencies, NEW sent \in Gifts,
         Borrow(v, n, price, interest, pending, currency, sent)
  PROVE  SeniorPrincipal' >= SeniorPrincipal
<1> DEFINE nper == conf.term \div conf.epoch
           outstanding == price - price \div nper
           loan == NewLoan(n, price, interest, nper)
           pmt == loan.pmt
           toSenior == SeniorShare(pmt.interest, conf.incomeRatio)
<1>1. /\ price \in Nat /\ interest \in Nat
      /\ conf \in Configuration /\ conf.incomeRatio \in 0 .. BasisPoints
      /\ conf.epoch # 0 /\ nper # 0
  BY ConstantsAssumption DEF TypeOK, Configuration, Borrow
<1>2. nper \in Nat \ {0}
  BY <1>1, QuotientBounded DEF Configuration
<1>3. /\ loan \in Loan /\ pmt \in PMT
      /\ pmt.principal = price \div nper
      /\ pmt.principal <= price /\ pmt.interest <= interest
      /\ pmt.fee <= PercentMul(price, TakeRate)
  <2>1. n \in Nfts /\ price \in Nat /\ interest \in Nat /\ nper \in Nat \ {0}
    BY <1>1, <1>2
  <2> HIDE DEF nper
  <2>2. QED
    BY <2>1, NewLoanType
<1>4. pmt.principal \in Nat /\ pmt.interest \in Nat /\ outstanding \in Nat
  BY <1>1, <1>3 DEF PMT
<1>5. toSenior \in Nat
  BY <1>1, <1>4, SharesType
<1>6. cash'["senior"] = cash["senior"] - outstanding + toSenior
  BY DEF Borrow, TypeOK, Accounts
<1>7. cash["senior"] \in Nat /\ borrowState.totalDebt \in Nat
  BY DEF TypeOK, Accounts, BorrowState
<1>8. borrowState'.totalDebt = borrowState.totalDebt + price - pmt.principal
  <2>1. borrowState' = DebtReduced(
          DebtAdded(borrowState, price, interest, conf.incomeRatio),
          pmt, conf.incomeRatio)
    BY DEF Borrow
  <2> DEFINE added == DebtAdded(borrowState, price, interest, conf.incomeRatio)
  <2>2. added.totalDebt = borrowState.totalDebt + price
    BY DEF DebtAdded
  <2>3. borrowState' = DebtReduced(added, pmt, conf.incomeRatio)
    BY <2>1
  <2> HIDE DEF pmt, added
  <2>4. DebtReduced(added, pmt, conf.incomeRatio).totalDebt
          = added.totalDebt - pmt.principal
    BY DEF DebtReduced
  <2>5. QED
    BY <1>1, <1>4, <1>7, <2>2, <2>3, <2>4
<1>9. outstanding = price - pmt.principal
  BY <1>3
<1> HIDE DEF nper, outstanding, pmt, toSenior
<1>10. QED
  BY <1>1, <1>4, <1>5, <1>6, <1>7, <1>8, <1>9 DEF SeniorPrincipal

LEMMA RepayKeepsSeniorPrincipal ==
  ASSUME TypeOK, NEW v \in Vaults, NEW l \in LoanIds, Repay(v, l)
  PROVE  SeniorPrincipal' >= SeniorPrincipal
<1> DEFINE loan == loans[v][l]
           pmt == loan.pmt
           toSenior == SeniorShare(pmt.interest, loan.incomeRatio)
<1>1. /\ pmt.principal \in Nat /\ pmt.interest \in Nat
      /\ loan.incomeRatio \in 0 .. BasisPoints
  BY DEF TypeOK, Loan, PMT
<1>2. toSenior \in Nat
  BY <1>1, SharesType
<1>3. cash'["senior"] = cash["senior"] + pmt.principal + toSenior
  BY DEF Repay, TypeOK, Accounts
<1>4. borrowState'.totalDebt = borrowState.totalDebt - pmt.principal
  BY DEF Repay, DebtReduced
<1>5. cash["senior"] \in Nat /\ borrowState.totalDebt \in Nat
  BY DEF TypeOK, Accounts, BorrowState
<1> HIDE DEF pmt, toSenior
<1>6. QED
  BY <1>1, <1>2, <1>3, <1>4, <1>5 DEF SeniorPrincipal

\* When the proceeds and the junior tranche together leave a part of the debt
\* unpaid, the junior tranche has given all it had.
LEMMA ShortfallTakesAllJunior ==
  ASSUME cash["junior"] \in Nat, NEW value \in Nat, NEW debt \in Nat,
         NEW s \in Nat, NEW j \in Nat, NEW fee \in Nat,
         Proceeds(value, debt, s, j, fee).principal < debt
  PROVE  /\ JuniorCover(debt, value) = cash["junior"]
         /\ Proceeds(value, debt, s, j, fee).juniorInterest = 0
<1>1. debt > value /\ SubOrZero(value, debt) = 0
  BY DEF Proceeds, JuniorCover, Lesser, SubOrZero
<1>2. JuniorCover(debt, value) = cash["junior"]
  BY <1>1 DEF Proceeds, JuniorCover, Lesser, SubOrZero
<1>3. Proceeds(value, debt, s, j, fee).juniorInterest
        = Lesser(SubOrZero(value, debt) - Lesser(SubOrZero(value, debt), s), j)
  BY DEF Proceeds, TryRepay
<1>4. Lesser(0, s) = 0 /\ Lesser(0 - 0, j) = 0
  BY DEF Lesser
<1>5. QED
  BY <1>1, <1>2, <1>3, <1>4

LEMMA LiquidateLosesJuniorFirst ==
  ASSUME TypeOK, NEW v \in Vaults, NEW l \in LoanIds, Liquidate(v, l),
         SeniorPrincipal' < SeniorPrincipal
  PROVE  cash'["junior"] = 0
<1> DEFINE loan == loans[v][l]
           debt == borrowData[v].totalPrincipal
           interest == borrowData[v].totalInterest
           fee == borrowData[v].totalFee
           s == SeniorShare(interest, loan.incomeRatio)
           j == JuniorShare(interest, loan.incomeRatio)
           value == DiscountedFloor(twap.price) * Cardinality(loan.collateral)
           p == Proceeds(value, debt, s, j, fee)
<1>1. /\ loan.incomeRatio \in 0 .. BasisPoints /\ loan.collateral \in SUBSET Nfts
      /\ debt \in Nat /\ interest \in Nat /\ fee \in Nat /\ twap.price \in Nat
      /\ conf \in Configuration
      /\ cash["senior"] \in Nat /\ cash["junior"] \in Nat
      /\ borrowState.totalDebt \in Nat
  BY ConstantsAssumption DEF TypeOK, Loan, BorrowData, BorrowState, Accounts
<1>2. /\ DiscountedFloor(twap.price) >= 0
      /\ borrowState'.totalDebt = borrowState.totalDebt - debt
  BY DEF Liquidate
<1>3. /\ cash'["senior"] = cash["senior"] + p.principal + p.seniorInterest
      /\ cash'["junior"] =
           cash["junior"] - JuniorCover(debt, value) + p.juniorInterest
  BY DEF Liquidate, TypeOK, Accounts
<1>4. value \in Nat
  <2>1. PercentMul(twap.price, conf.liquidationBonus) \in Nat
    BY <1>1, PercentMulNat DEF Configuration
  <2>2. DiscountedFloor(twap.price) \in Nat
    BY <1>1, <1>2, <2>1 DEF DiscountedFloor, Discount
  <2>3. Cardinality(loan.collateral) \in Nat
    BY <1>1, ConstantsAssumption, FS_Subset, FS_CardinalityType
  <2>4. QED
    BY <2>2, <2>3
<1>5. s \in Nat /\ j \in Nat
  BY <1>1, SharesType
<1> HIDE DEF debt, fee, s, j, value
<1>6. p \in [principal : Nat, seniorInterest : Nat, juniorInterest : Nat,
            fee : Nat, surplus : Nat]
  BY <1>1, <1>4, <1>5, ProceedsPaidOut
<1>7. p.principal < debt
  <2>1. p.principal \in Nat /\ p.seniorInterest \in Nat
    BY <1>6
  <2> HIDE DEF p
  <2>2. QED
    BY <1>1, <1>2, <1>3, <2>1 DEF SeniorPrincipal
<1>8. JuniorCover(debt, value) = cash["junior"] /\ p.juniorInterest = 0
  <2>1. /\ cash["junior"] \in Nat /\ value \in Nat /\ debt \in Nat
        /\ s \in Nat /\ j \in Nat /\ fee \in Nat
        /\ Proceeds(value, debt, s, j, fee).principal < debt
    BY <1>1, <1>4, <1>5, <1>7
  <2>2. JuniorCover(debt, value) = cash["junior"]
    BY <2>1, ShortfallTakesAllJunior
  <2>3. p.juniorInterest = 0
    BY <2>1, ShortfallTakesAllJunior
  <2>4. QED
    BY <2>2, <2>3
<1> HIDE DEF p
<1>9. QED
  BY <1>1, <1>3, <1>8

\* Lending never costs the senior tranche principal while the junior tranche,
\* whose depositors are paid to take the first loss, still has cash.
THEOREM JuniorTakesFirstLoss == Spec => JuniorLosesFirst
<1>1. TypeOK /\ [Next]_vars =>
        [SeniorPrincipal' < SeniorPrincipal =>
           \/ cash'["junior"] = 0
           \/ \E x \in Flows : TrancheWithdraw("senior", x)]_vars
  <2> SUFFICES ASSUME TypeOK, Next, SeniorPrincipal' < SeniorPrincipal
               PROVE  \/ cash'["junior"] = 0
                      \/ \E x \in Flows : TrancheWithdraw("senior", x)
    OBVIOUS
  <2>0. cash["senior"] \in Nat /\ borrowState.totalDebt \in Nat
    BY DEF TypeOK, Accounts, BorrowState
  <2>00. SeniorPrincipal \in Nat
    BY <2>0 DEF SeniorPrincipal
  <2>1. CASE BuyStep
    <3>1. SeniorPrincipal' >= SeniorPrincipal
      BY <2>1, BorrowKeepsSeniorPrincipal DEF BuyStep, BuyNow, BuyNowV2
    <3>2. SeniorPrincipal' \in Nat
      BY <2>1, NextTypeOK DEF Next, TypeOK, Accounts, BorrowState, SeniorPrincipal
    <3>3. QED
      BY <2>00, <3>1, <3>2
  <2>2. CASE RepayStep
    <3>1. SeniorPrincipal' >= SeniorPrincipal
      BY <2>2, RepayKeepsSeniorPrincipal DEF RepayStep
    <3>2. SeniorPrincipal' \in Nat
      BY <2>2, NextTypeOK DEF Next, TypeOK, Accounts, BorrowState, SeniorPrincipal
    <3>3. QED
      BY <2>00, <3>1, <3>2
  <2>3. CASE LiquidateStep
    BY <2>3, LiquidateLosesJuniorFirst DEF LiquidateStep
  <2>4. CASE NftStep \/ MarketStep
    <3>1. cash' = cash /\ borrowState' = borrowState
      BY <2>4
      DEF NftStep, WithdrawNFT, ReceiveNFT, MarketStep, Tick, UpdateTwap,
          Configure, bookVars, moneyVars
    <3>2. QED
      BY <2>00, <3>1 DEF SeniorPrincipal
  <2>45. CASE VaultMoneyStep \/ GiftStep
    <3>1. borrowState' = borrowState
      BY <2>45, TransfersMoveMoney DEF bookVars
    <3>2. cash \in [Accounts -> Nat] /\ "senior" \in Accounts
      BY DEF TypeOK, Accounts
    <3>3. \/ cash' = cash
          \/ \E to \in Vaults \cup Accounts \cup {Outside}, x \in Nat :
               cash' = Credited(cash, to, x)
      <4>1. CASE VaultMoneyStep
        BY <4>1, ConstantsAssumption
        DEF VaultMoneyStep, TransferETH, TransferCurrency, WrapVaultETH, UnwrapVaultETH,
            ReceiveETH, ReceiveCurrency, EthRecipients, WethRecipients, Accounts
      <4>2. CASE GiftStep
        BY <4>2, ConstantsAssumption DEF GiftStep, ReceiveETH, ReceiveCurrency, Accounts
      <4>3. QED
        BY <2>45, <4>1, <4>2
    <3>4. cash'["senior"] \in Nat /\ cash'["senior"] >= cash["senior"]
      BY <2>0, <3>2, <3>3, CreditedType
    <3>5. QED
      BY <2>0, <3>1, <3>4 DEF SeniorPrincipal
  <2>5. CASE DepositorStep
    <3>1. PICK tranche \in {"senior", "junior"}, x \in Flows :
            TrancheDeposit(tranche, x) \/ TrancheWithdraw(tranche, x)
      BY <2>5 DEF DepositorStep
    <3>2. x \in Nat
      BY ConstantsAssumption
    <3>3. CASE tranche = "senior" /\ TrancheWithdraw(tranche, x)
      BY <3>3
    <3>4. CASE ~(tranche = "senior" /\ TrancheWithdraw(tranche, x))
      <4>1. borrowState' = borrowState /\ cash'["senior"] >= cash["senior"]
        BY <2>0, <3>1, <3>2, <3>4
        DEF TrancheDeposit, TrancheWithdraw, bookVars, TypeOK, Accounts
      <4>2. cash'["senior"] \in Nat
        BY <2>5, NextTypeOK DEF Next, TypeOK, Accounts
      <4>3. QED
        BY <2>0, <4>1, <4>2 DEF SeniorPrincipal
    <3>5. QED
      BY <3>3, <3>4
  <2>6. QED
    BY <2>1, <2>2, <2>3, <2>4, <2>45, <2>5 DEF Next
<1>2. QED
  BY <1>1, TypeCorrect, PTL DEF Spec, JuniorLosesFirst

-----------------------------------------------------------------------------
(***************************************************************************)
(* The running totals.                                                     *)
(***************************************************************************)
\* The actions that leave the books alone.
LEMMA BooksUntouched ==
  ASSUME \/ NftStep \/ VaultMoneyStep \/ GiftStep \/ DepositorStep \/ MarketStep
         \/ UNCHANGED vars
  PROVE  UNCHANGED bookVars
BY TransfersMoveMoney
DEF NftStep, WithdrawNFT, ReceiveNFT, MarketStep, Tick, UpdateTwap, Configure,
    bookVars, vars

\* What a purchase does to the books, its loan and first instalment named.
LEMMA BorrowBooks ==
  ASSUME TypeOK, BuyStep
  PROVE  \E v \in Vaults, n \in Nfts, price \in Nat, interest \in Nat, nper \in Nat \ {0},
            number \in LoanIds, loan \in Loan :
           /\ nper \in Npers /\ loan = NewLoan(n, price, interest, nper)
           /\ loan.pmt \in PMT /\ loan.pmt.principal = price \div nper
           /\ loan.pmt.principal <= price /\ loan.pmt.interest <= interest
           /\ loan.pmt.fee <= PercentMul(price, TakeRate)
           /\ conf.incomeRatio \in 0 .. BasisPoints
           /\ number = borrowData[v].nextLoanNumber
           /\ loans' = [loans EXCEPT ![v][number] = loan]
           /\ borrowData' = [borrowData EXCEPT ![v] =
                InstalmentBooked(LoanBooked(@, price, interest), loan.pmt)]
           /\ borrowState' = DebtReduced(
                DebtAdded(borrowState, price, interest, conf.incomeRatio),
                loan.pmt, conf.incomeRatio)
           /\ repayRecord' = repayRecord
<1>1. PICK v \in Vaults, n \in Nfts, price \in Prices, interest \in Interests,
           pending \in Pendings, currency \in Currencies, sent \in Gifts :
             Borrow(v, n, price, interest, pending, currency, sent)
  BY DEF BuyStep, BuyNow, BuyNowV2
<1> DEFINE nper == conf.term \div conf.epoch
           loan == NewLoan(n, price, interest, nper)
           number == borrowData[v].nextLoanNumber
<1>2. /\ price \in Nat /\ interest \in Nat /\ conf \in Confs
      /\ conf \in Configuration /\ conf.incomeRatio \in 0 .. BasisPoints
  BY ConstantsAssumption DEF TypeOK, Configuration
<1>3. nper \in Nat \ {0} /\ nper \in Npers
  <2>1. conf.term \in Nat /\ conf.epoch \in Nat \ {0} /\ nper # 0
    BY <1>1, <1>2 DEF Borrow, Configuration
  <2>2. QED
    BY <1>2, <2>1, QuotientBounded DEF Npers
<1>4. /\ number \in LoanIds
      /\ loans' = [loans EXCEPT ![v][number] = loan]
      /\ borrowData' = [borrowData EXCEPT ![v] =
           InstalmentBooked(LoanBooked(@, price, interest), loan.pmt)]
      /\ borrowState' = DebtReduced(
           DebtAdded(borrowState, price, interest, conf.incomeRatio),
           loan.pmt, conf.incomeRatio)
      /\ repayRecord' = repayRecord
  BY <1>1 DEF Borrow
<1> HIDE DEF nper
<1>5. /\ loan \in Loan /\ loan.pmt \in PMT /\ loan.pmt.principal = price \div nper
      /\ loan.pmt.principal <= price /\ loan.pmt.interest <= interest
      /\ loan.pmt.fee <= PercentMul(price, TakeRate)
  BY <1>2, <1>3, NewLoanType
<1> HIDE DEF loan, number
<1>6. loan = NewLoan(n, price, interest, nper) /\ number = borrowData[v].nextLoanNumber
  BY DEF loan, number
<1>7. QED
  BY <1>2, <1>3, <1>4, <1>5, <1>6

-----------------------------------------------------------------------------
(***************************************************************************)
(* Interest.                                                               *)
(***************************************************************************)
Attributed(bs) ==
  bs.totalInterest <= bs.totalSeniorInterest + bs.totalJuniorInterest

LEMMA AddedAttributed ==
  ASSUME NEW bs \in BorrowState, Attributed(bs), NEW price \in Nat,
         NEW interest \in Nat, NEW ratio \in 0 .. BasisPoints
  PROVE  Attributed(DebtAdded(bs, price, interest, ratio))
<1>1. /\ SeniorShare(interest, ratio) \in Nat /\ JuniorShare(interest, ratio) \in Nat
      /\ SeniorShare(interest, ratio) + JuniorShare(interest, ratio) = interest
  BY SharesType
<1>2. QED
  BY <1>1 DEF Attributed, DebtAdded, BorrowState

\* Clamping a share at zero only helps; clamping the whole does too.
LEMMA ReducedAttributed ==
  ASSUME NEW bs \in BorrowState, Attributed(bs), NEW pmt \in PMT, NEW ratio \in 0 .. BasisPoints
  PROVE  Attributed(DebtReduced(bs, pmt, ratio))
<1>1. PICK i \in Nat, s \in Nat, j \in Nat :
        /\ i = pmt.interest
        /\ s = SeniorShare(pmt.interest, ratio) /\ j = JuniorShare(pmt.interest, ratio)
        /\ s + j = i
  <2>1. pmt.interest \in Nat
    BY DEF PMT
  <2>2. QED
    BY <2>1, SharesType
<1>2. PICK ti \in Nat, ts \in Nat, tj \in Nat :
        /\ ti = bs.totalInterest /\ ts = bs.totalSeniorInterest
        /\ tj = bs.totalJuniorInterest /\ ti <= ts + tj
  BY DEF BorrowState, Attributed
<1>3. SubOrZero(ti, i) <= SubOrZero(ts, s) + SubOrZero(tj, j)
  BY <1>1, <1>2 DEF SubOrZero
<1>4. QED
  BY <1>1, <1>2, <1>3 DEF Attributed, DebtReduced

LEMMA NextAttributed ==
  TypeOK /\ InterestAttributed /\ [Next]_vars => InterestAttributed'
<1>1. SUFFICES ASSUME TypeOK, InterestAttributed, [Next]_vars
               PROVE  Attributed(borrowState')
  BY DEF InterestAttributed, Attributed
<1>2. borrowState \in BorrowState /\ Attributed(borrowState)
  BY <1>1 DEF TypeOK, InterestAttributed, Attributed
<1>3. CASE BuyStep
  <2>1. PICK price \in Nat, interest \in Nat, loan \in Loan :
          /\ loan.pmt \in PMT /\ conf.incomeRatio \in 0 .. BasisPoints
          /\ borrowState' = DebtReduced(
                DebtAdded(borrowState, price, interest, conf.incomeRatio),
                loan.pmt, conf.incomeRatio)
    BY <1>1, <1>3, BorrowBooks
  <2>2. PICK bs \in BorrowState :
          bs = DebtAdded(borrowState, price, interest, conf.incomeRatio) /\ Attributed(bs)
    BY <1>2, <2>1, AddedAttributed, DebtAddedType
  <2>3. QED
    BY <2>1, <2>2, ReducedAttributed
<1>4. CASE RepayStep
  <2>1. PICK v \in Vaults, l \in LoanIds : Repay(v, l)
    BY <1>4 DEF RepayStep
  <2>2. PICK loan \in Loan : loan = loans[v][l]
    BY <1>1 DEF TypeOK
  <2>3. loan.pmt \in PMT /\ loan.incomeRatio \in 0 .. BasisPoints
    BY DEF Loan
  <2>4. borrowState' = DebtReduced(borrowState, loan.pmt, loan.incomeRatio)
    BY <2>1, <2>2 DEF Repay
  <2>5. QED
    BY <1>2, <2>3, <2>4, ReducedAttributed
<1>5. CASE LiquidateStep
  <2>1. PICK v \in Vaults, l \in LoanIds : Liquidate(v, l)
    BY <1>5 DEF LiquidateStep
  <2>2. PICK i \in Nat, ratio \in 0 .. BasisPoints :
          i = borrowData[v].totalInterest /\ ratio = loans[v][l].incomeRatio
    BY <1>1 DEF TypeOK, BorrowData, Loan
  <2>3. PICK s \in Nat, j \in Nat :
          s = SeniorShare(i, ratio) /\ j = JuniorShare(i, ratio) /\ s + j = i
    BY SharesType
  <2>4. /\ borrowState'.totalInterest = borrowState.totalInterest - i
        /\ borrowState'.totalSeniorInterest = borrowState.totalSeniorInterest - s
        /\ borrowState'.totalJuniorInterest = borrowState.totalJuniorInterest - j
    BY <2>1, <2>2, <2>3 DEF Liquidate
  <2>5. QED
    BY <1>2, <2>3, <2>4 DEF Attributed, BorrowState
<1>6. CASE \/ NftStep \/ VaultMoneyStep \/ GiftStep \/ DepositorStep \/ MarketStep
           \/ UNCHANGED vars
  BY <1>2, <1>6, BooksUntouched DEF bookVars
<1>7. QED
  BY <1>1, <1>3, <1>4, <1>5, <1>6 DEF Next

\* However the interest of a loan and of its instalments is split and rounded,
\* the tranches' claims never fall short of the interest owed.
THEOREM InterestStaysAttributed == Spec => []InterestAttributed
<1>1. Init => InterestAttributed
  BY DEF Init, InterestAttributed
<1>2. QED
  BY <1>1, NextAttributed, TypeCorrect, PTL DEF Spec

-----------------------------------------------------------------------------
(***************************************************************************)
(* Money.                                                                  *)
(***************************************************************************)
Held5(c) == c["senior"] + c["junior"] + c["treasury"] + c["diamond"] + c["diamondEth"]

LEMMA CashIsFive ==
  ASSUME NEW c \in [Accounts -> Int]
  PROVE  SumFunction(c) = Held5(c) /\ Held5(c) \in Int
<1> DEFINE s1 == {"diamondEth"}
           s2 == {"diamond", "diamondEth"}
           s3 == {"treasury", "diamond", "diamondEth"}
           s4 == {"junior", "treasury", "diamond", "diamondEth"}
<1>1. /\ c["senior"] \in Int /\ c["junior"] \in Int /\ c["treasury"] \in Int
      /\ c["diamond"] \in Int /\ c["diamondEth"] \in Int
  BY DEF Accounts
<1>2. /\ Accounts = s4 \cup {"senior"} /\ s4 = s3 \cup {"junior"}
      /\ s3 = s2 \cup {"treasury"} /\ s2 = s1 \cup {"diamond"} /\ s1 = {} \cup {"diamondEth"}
  BY DEF Accounts
<1>3. IsFiniteSet({}) /\ IsFiniteSet(s1) /\ IsFiniteSet(s2)
      /\ IsFiniteSet(s3) /\ IsFiniteSet(s4) /\ IsFiniteSet(Accounts)
  <2>1. IsFiniteSet({})
    BY FS_EmptySet
  <2>2. IsFiniteSet(s1)
    BY <1>2, <2>1, FS_AddElement
  <2>3. IsFiniteSet(s2)
    BY <1>2, <2>2, FS_AddElement
  <2>4. IsFiniteSet(s3)
    BY <1>2, <2>3, FS_AddElement
  <2>5. IsFiniteSet(s4)
    BY <1>2, <2>4, FS_AddElement
  <2>6. IsFiniteSet(Accounts)
    BY <1>2, <2>5, FS_AddElement
  <2>7. QED
    BY <2>1, <2>2, <2>3, <2>4, <2>5, <2>6
<1>4. /\ Accounts \ {"senior"} = s4 /\ s4 \ {"junior"} = s3
      /\ s3 \ {"treasury"} = s2 /\ s2 \ {"diamond"} = s1 /\ s1 \ {"diamondEth"} = {}
  BY DEF Accounts
<1>5. /\ "senior" \in Accounts /\ "junior" \in s4 /\ "treasury" \in s3
      /\ "diamond" \in s2 /\ "diamondEth" \in s1
  BY DEF Accounts
<1>6. /\ \A x \in Accounts : c[x] \in Int
      /\ \A x \in s4 : c[x] \in Int
      /\ \A x \in s3 : c[x] \in Int
      /\ \A x \in s2 : c[x] \in Int
      /\ \A x \in s1 : c[x] \in Int
  BY <1>1
<1> HIDE DEF s1, s2, s3, s4
<1>7. SumFunctionOnSet(c, Accounts) = c["senior"] + SumFunctionOnSet(c, s4)
  BY <1>3, <1>4, <1>5, <1>6, SumSplit
<1>8. SumFunctionOnSet(c, s4) = c["junior"] + SumFunctionOnSet(c, s3)
  BY <1>3, <1>4, <1>5, <1>6, SumSplit
<1>9. SumFunctionOnSet(c, s3) = c["treasury"] + SumFunctionOnSet(c, s2)
  BY <1>3, <1>4, <1>5, <1>6, SumSplit
<1>10. SumFunctionOnSet(c, s2) = c["diamond"] + SumFunctionOnSet(c, s1)
  BY <1>3, <1>4, <1>5, <1>6, SumSplit
<1>11. SumFunctionOnSet(c, s1) = c["diamondEth"] + SumFunctionOnSet(c, {})
  BY <1>3, <1>4, <1>5, <1>6, SumSplit
<1>12. SumFunctionOnSet(c, {}) = 0
  BY SumOfNone
<1>13. SumFunction(c) = SumFunctionOnSet(c, Accounts)
  BY DEF SumFunction
<1>14. QED
  BY <1>1, <1>7, <1>8, <1>9, <1>10, <1>11, <1>12, <1>13 DEF Held5

\* A step that moves money between the accounts, one vault and the world.
LEMMA MoneyMoved ==
  ASSUME TypeOK, TypeOK', MoneyConserved, NEW v \in Vaults,
         \A w \in Vaults \ {v} : eth'[w] = eth[w] /\ weth'[w] = weth[w],
         Held5(cash') + (eth'[v] + weth'[v]) + world'
           = Held5(cash) + (eth[v] + weth[v]) + world
  PROVE  MoneyConserved'
<1>1. cash \in [Accounts -> Int] /\ cash' \in [Accounts -> Int]
  BY DEF TypeOK
<1>2. /\ SumFunction(cash) = Held5(cash) /\ SumFunction(cash') = Held5(cash')
      /\ Held5(cash) \in Int /\ Held5(cash') \in Int
  BY <1>1, CashIsFive
<1>3. /\ VaultMoney[v] = eth[v] + weth[v] /\ VaultMoney'[v] = eth'[v] + weth'[v]
      /\ \A w \in Vaults : VaultMoney[w] \in Int /\ VaultMoney'[w] \in Int
      /\ \A w \in Vaults \ {v} : VaultMoney'[w] = VaultMoney[w]
      /\ DOMAIN VaultMoney = Vaults /\ DOMAIN VaultMoney' = Vaults
  BY DEF VaultMoney, TypeOK
<1>4. SumFunctionOnSet(VaultMoney', Vaults)
        = SumFunctionOnSet(VaultMoney, Vaults) + VaultMoney'[v] - VaultMoney[v]
  BY <1>3, FiniteAssumption, SumChanged
<1>5. SumFunctionOnSet(VaultMoney, Vaults) \in Int
  BY <1>3, FiniteAssumption, SumInt
<1>6. /\ SumFunction(VaultMoney) = SumFunctionOnSet(VaultMoney, Vaults)
      /\ SumFunction(VaultMoney') = SumFunctionOnSet(VaultMoney', Vaults)
  BY <1>3 DEF SumFunction
<1>7. /\ world \in Int /\ world' \in Int /\ VaultMoney[v] \in Int /\ VaultMoney'[v] \in Int
  BY <1>3 DEF TypeOK
<1>8. SumFunction(cash') + SumFunction(VaultMoney') + world'
        = SumFunction(cash) + SumFunction(VaultMoney) + world
  <2>1. PICK h \in Int, k \in Int, m \in Int, x \in Int, y \in Int, n \in Int, o \in Int :
          /\ h = Held5(cash) /\ k = Held5(cash')
          /\ m = SumFunctionOnSet(VaultMoney, Vaults)
          /\ x = VaultMoney[v] /\ y = VaultMoney'[v]
          /\ n = world /\ o = world'
    BY <1>2, <1>5, <1>7
  <2>2. k + y + o = h + x + n
    BY <1>3, <2>1
  <2>3. k + (m + y - x) + o = h + m + n
    BY <2>2
  <2>4. SumFunctionOnSet(VaultMoney', Vaults) = m + y - x
    BY <1>4, <2>1
  <2>5. QED
    BY <1>2, <1>6, <2>1, <2>3, <2>4
<1>9. QED
  BY <1>8 DEF MoneyConserved, InitialMoney

\* One that does not involve a vault.
LEMMA MoneyMovedOutside ==
  ASSUME TypeOK, TypeOK', MoneyConserved, UNCHANGED <<eth, weth>>,
         Held5(cash') + world' = Held5(cash) + world
  PROVE  MoneyConserved'
<1>1. cash \in [Accounts -> Int] /\ cash' \in [Accounts -> Int]
  BY DEF TypeOK
<1>2. /\ SumFunction(cash) = Held5(cash) /\ SumFunction(cash') = Held5(cash')
      /\ Held5(cash) \in Int /\ Held5(cash') \in Int
  BY <1>1, CashIsFive
<1>3. VaultMoney' = VaultMoney
  BY DEF VaultMoney
<1>4. SumFunctionOnSet(VaultMoney, Vaults) \in Int /\ DOMAIN VaultMoney = Vaults
  <2>1. \A w \in Vaults : VaultMoney[w] \in Int
    BY DEF VaultMoney, TypeOK
  <2>2. QED
    BY <2>1, FiniteAssumption, SumInt DEF VaultMoney
<1>5. SumFunction(VaultMoney) \in Int /\ world \in Int /\ world' \in Int
  BY <1>4 DEF SumFunction, TypeOK
<1>6. QED
  BY <1>2, <1>3, <1>5 DEF MoneyConserved, InitialMoney

LEMMA InitMoney == Init => MoneyConserved
<1>1. SUFFICES ASSUME Init
               PROVE  SumFunction(cash) + SumFunction(VaultMoney) + world = InitialMoney
  BY DEF MoneyConserved
<1>2. TypeOK
  BY <1>1, InitTypeOK
<1>3. cash \in [Accounts -> Int]
  BY <1>2 DEF TypeOK
<1>4. Held5(cash) = SeniorFunds + JuniorFunds
  BY <1>1, ConstantsAssumption DEF Init, Held5, Accounts
<1>5. SumFunctionOnSet(VaultMoney, Vaults) = Cardinality(Vaults) * VaultFunds
  <2>1. \A v \in Vaults : VaultMoney[v] = VaultFunds
    BY <1>1, ConstantsAssumption DEF Init, VaultMoney
  <2>2. VaultFunds \in Int
    BY ConstantsAssumption
  <2>3. QED
    BY <2>1, <2>2, FiniteAssumption, SumOfEqual
<1>6. SumFunction(VaultMoney) = SumFunctionOnSet(VaultMoney, Vaults)
  BY DEF SumFunction, VaultMoney
<1>7. Cardinality(Vaults) * VaultFunds \in Int
  BY ConstantsAssumption, FiniteAssumption, FS_CardinalityType
<1>8. SumFunction(cash) = SeniorFunds + JuniorFunds /\ world = 0
  BY <1>1, <1>3, <1>4, CashIsFive DEF Init
<1>9. QED
  BY <1>5, <1>6, <1>7, <1>8, ConstantsAssumption DEF InitialMoney

LEMMA BorrowMoney ==
  ASSUME TypeOK, TypeOK', MoneyConserved, NEW v \in Vaults, NEW n \in Nfts,
         NEW price \in Prices, NEW interest \in Interests, NEW pending \in Pendings,
         NEW currency \in Currencies, NEW sent \in Gifts,
         Borrow(v, n, price, interest, pending, currency, sent)
  PROVE  MoneyConserved'
<1> DEFINE nper == conf.term \div conf.epoch
           outstanding == price - price \div nper
           loan == NewLoan(n, price, interest, nper)
           pmt == loan.pmt
           dues == pmt.interest + pmt.fee
           toSenior == SeniorShare(pmt.interest, conf.incomeRatio)
           unwrapped == Unwrapped(v, currency, pmt.principal)
           wrapped == Wrapped(v, currency, pmt.principal, dues)
<1>1. /\ price \in Nat /\ interest \in Nat
      /\ conf \in Configuration /\ conf.incomeRatio \in 0 .. BasisPoints
  BY ConstantsAssumption DEF TypeOK, Configuration
<1>2. nper \in Nat \ {0}
  <2>1. conf.term \in Nat /\ conf.epoch \in Nat \ {0} /\ nper # 0
    BY <1>1 DEF Borrow, Configuration
  <2>2. QED
    BY <2>1, QuotientBounded
<1>3. /\ loan \in Loan /\ pmt \in PMT
      /\ pmt.principal = price \div nper
      /\ pmt.principal <= price /\ pmt.interest <= interest
      /\ pmt.fee <= PercentMul(price, TakeRate)
  <2> HIDE DEF nper
  <2>1. QED
    BY <1>1, <1>2, NewLoanType
<1>4. /\ cash' = [cash EXCEPT
           !["senior"] = @ - outstanding + toSenior,
           !["junior"] = @ + pmt.interest - toSenior,
           !["treasury"] = @ + pmt.fee,
           !["diamond"] = IF currency = "ETH" THEN 0 ELSE @,
           !["diamondEth"] = DiamondEthAfter(currency, sent)]
      /\ eth' = [eth EXCEPT ![v] =
           EthAfter(v, currency, pmt.principal, dues, outstanding)]
      /\ weth' = [weth EXCEPT ![v] =
           WethAfter(v, currency, pmt.principal, dues, outstanding)]
      /\ world' = world + price - sent /\ given' = given + sent
  BY DEF Borrow
<1>5. PICK d \in Nat, i \in Nat, f \in Nat, s \in Nat, o \in Int, p \in Nat :
        /\ d = pmt.principal /\ i = pmt.interest /\ f = pmt.fee
        /\ s = toSenior /\ o = outstanding /\ p = price /\ o = p - d
  <2>1. pmt.principal \in Nat /\ pmt.interest \in Nat /\ pmt.fee \in Nat
    BY <1>3 DEF PMT
  <2>2. toSenior \in Nat
    BY <1>1, <2>1, SharesType
  <2>3. outstanding \in Int /\ outstanding = price - pmt.principal
    BY <1>1, <1>3, <2>1
  <2> HIDE DEF pmt, toSenior, outstanding
  <2>4. QED
    BY <1>1, <2>1, <2>2, <2>3
<1>6. PICK u \in Nat, w \in Nat, e \in Nat, t \in Nat :
        /\ u = unwrapped /\ w = wrapped /\ e = eth[v] /\ t = weth[v]
  <2>1. eth[v] \in Nat /\ weth[v] \in Nat
    BY DEF TypeOK
  <2>2. dues \in Nat /\ pmt.principal \in Nat
    BY <1>5
  <2> HIDE DEF pmt, dues
  <2>3. unwrapped \in Nat /\ wrapped \in Nat
    BY <2>1, <2>2 DEF Unwrapped, Wrapped, SubOrZero
  <2> HIDE DEF unwrapped, wrapped
  <2>4. QED
    BY <2>1, <2>3
<1>7. /\ cash \in [Accounts -> Nat] /\ eth \in [Vaults -> Nat] /\ weth \in [Vaults -> Nat]
      /\ world \in Int
  BY DEF TypeOK
<1>8. Held5(cash') = Held5(cash) - o + i + f + sent
  <2>1. PICK g \in Nat : g = sent
    BY ConstantsAssumption
  <2>2. /\ cash["senior"] \in Int /\ cash["junior"] \in Int /\ cash["treasury"] \in Int
        /\ cash["diamond"] \in Int /\ cash["diamondEth"] \in Int
    BY <1>7 DEF Accounts
  <2> HIDE DEF nper, outstanding, pmt, dues, toSenior, unwrapped, wrapped, loan
  <2>3. /\ cash'["senior"] = cash["senior"] - o + s
        /\ cash'["junior"] = cash["junior"] + i - s
        /\ cash'["treasury"] = cash["treasury"] + f
        /\ cash'["diamond"] = IF currency = "ETH" THEN 0 ELSE cash["diamond"]
        /\ cash'["diamondEth"] = DiamondEthAfter(currency, sent)
    BY <1>4, <1>5, <1>7 DEF Accounts
  <2>4. cash'["diamond"] + cash'["diamondEth"] = cash["diamond"] + cash["diamondEth"] + sent
    BY <2>1, <2>2, <2>3 DEF DiamondEthAfter
  <2>5. /\ cash'["diamond"] \in Int /\ cash'["diamondEth"] \in Int /\ sent \in Int
    BY <2>1, <2>2, <2>3 DEF DiamondEthAfter
  <2>6. PICK a \in Int, b \in Int, c \in Int, x \in Int, y \in Int, k \in Int, m \in Int :
          /\ a = cash["senior"] /\ b = cash["junior"] /\ c = cash["treasury"]
          /\ x = cash["diamond"] /\ y = cash["diamondEth"]
          /\ k = cash'["diamond"] /\ m = cash'["diamondEth"]
    BY <2>2, <2>5
  <2>7. k + m = x + y + g
    BY <2>1, <2>4, <2>6
  <2>8. Held5(cash) = a + b + c + x + y
    BY <2>6 DEF Held5
  <2>9. Held5(cash') = (a - o + s) + (b + i - s) + (c + f) + k + m
    BY <2>3, <2>6 DEF Held5
  <2>10. QED
    BY <2>1, <2>7, <2>8, <2>9
<1>9. eth'[v] + weth'[v] = (eth[v] + weth[v]) - d - i - f
  <2>1. /\ EthAfter(v, currency, pmt.principal, dues, outstanding)
             = IF currency = "ETH" THEN (e + u - w) + o - (d + o) ELSE e + u - w
        /\ WethAfter(v, currency, pmt.principal, dues, outstanding)
             = (IF currency = "ETH" THEN t - u + w ELSE (t - u + w) + o - (d + o)) - (i + f)
    BY <1>5, <1>6 DEF EthAfter, WethAfter
  <2> HIDE DEF nper, outstanding, pmt, dues, toSenior, unwrapped, wrapped, loan
  <2>2. /\ eth'[v] = EthAfter(v, currency, pmt.principal, dues, outstanding)
        /\ weth'[v] = WethAfter(v, currency, pmt.principal, dues, outstanding)
    BY <1>4, <1>7
  <2>3. QED
    BY <1>6, <2>1, <2>2
<1>10. \A x \in Vaults \ {v} : eth'[x] = eth[x] /\ weth'[x] = weth[x]
  BY <1>4, <1>7
<1>11. Held5(cash) \in Int
  BY <1>7, CashIsFive
<1>12. Held5(cash') + (eth'[v] + weth'[v]) + world'
        = Held5(cash) + (eth[v] + weth[v]) + world
  <2>1. PICK h \in Int, x \in Nat, y \in Int, g \in Nat :
          h = Held5(cash) /\ x = eth[v] + weth[v] /\ y = world /\ g = sent
    BY <1>6, <1>7, <1>11, ConstantsAssumption
  <2>2. Held5(cash') = h - o + i + f + g
    BY <1>8, <2>1
  <2>3. eth'[v] + weth'[v] = x - d - i - f
    BY <1>9, <2>1
  <2>4. world' = y + p - g /\ o = p - d
    <3>1. world' = world + price - sent
      BY <1>4
    <3>2. QED
      BY <1>5, <2>1, <3>1
  <2>5. h - o + i + f + g + (x - d - i - f) + (y + p - g) = h + x + y
    BY <2>4
  <2>6. QED
    BY <2>1, <2>2, <2>3, <2>4, <2>5
<1>13. QED
  BY <1>10, <1>12, MoneyMoved

LEMMA RepayMoney ==
  ASSUME TypeOK, TypeOK', MoneyConserved, NEW v \in Vaults, NEW l \in LoanIds, Repay(v, l)
  PROVE  MoneyConserved'
<1>1. PICK pmt \in PMT, ratio \in 0 .. BasisPoints :
        pmt = loans[v][l].pmt /\ ratio = loans[v][l].incomeRatio
  BY DEF TypeOK, Loan
<1>2. PICK p \in Nat, i \in Nat, f \in Nat, s \in Nat :
        p = pmt.principal /\ i = pmt.interest /\ f = pmt.fee /\ s = SeniorShare(pmt.interest, ratio)
  <2>1. pmt.interest \in Nat /\ pmt.principal \in Nat /\ pmt.fee \in Nat
    BY DEF PMT
  <2>2. SeniorShare(pmt.interest, ratio) \in 0 .. pmt.interest
    BY <2>1, SharesType
  <2>3. SeniorShare(pmt.interest, ratio) \in Nat
    BY <2>1, <2>2
  <2>4. QED
    BY <2>1, <2>3
<1>3. PICK w : w = SubOrZero(p + i + f, weth[v])
  OBVIOUS
<1>4. /\ eth' = [eth EXCEPT ![v] = @ - w]
      /\ weth' = [weth EXCEPT ![v] = @ + w - (p + i + f)]
      /\ cash' = [cash EXCEPT
           !["senior"] = @ + p + s, !["junior"] = @ + i - s, !["treasury"] = @ + f]
      /\ world' = world
  BY <1>1, <1>2, <1>3 DEF Repay
<1>5. /\ cash \in [Accounts -> Nat] /\ eth \in [Vaults -> Nat] /\ weth \in [Vaults -> Nat]
      /\ world \in Int
  BY DEF TypeOK
<1>6. w \in Nat
  BY <1>3, <1>5 DEF SubOrZero
<1>7. Held5(cash') = Held5(cash) + (p + i + f)
  <2>1. /\ cash["senior"] \in Int /\ cash["junior"] \in Int /\ cash["treasury"] \in Int
        /\ cash["diamond"] \in Int /\ cash["diamondEth"] \in Int
    BY <1>5 DEF Accounts
  <2>2. /\ cash'["senior"] = cash["senior"] + p + s
        /\ cash'["junior"] = cash["junior"] + i - s
        /\ cash'["treasury"] = cash["treasury"] + f
        /\ cash'["diamond"] = cash["diamond"] /\ cash'["diamondEth"] = cash["diamondEth"]
    BY <1>4, <1>5 DEF Accounts
  <2>3. QED
    BY <2>1, <2>2 DEF Held5
<1>8. \A x \in Vaults \ {v} : eth'[x] = eth[x] /\ weth'[x] = weth[x]
  BY <1>4, <1>5
<1>9. PICK h \in Int, e \in Nat, t \in Nat, y \in Int :
        h = Held5(cash) /\ e = eth[v] /\ t = weth[v] /\ y = world
  BY <1>5, CashIsFive
<1>10. /\ eth'[v] = e - w /\ weth'[v] = t + w - (p + i + f) /\ world' = y
       /\ Held5(cash') = h + (p + i + f)
  BY <1>4, <1>5, <1>7, <1>9
<1>11. h + (p + i + f) + ((e - w) + (t + w - (p + i + f))) + y = h + (e + t) + y
  BY <1>6
<1>12. QED
  BY <1>8, <1>9, <1>10, <1>11, MoneyMoved

LEMMA LiquidateMoney ==
  ASSUME TypeOK, TypeOK', MoneyConserved, NEW v \in Vaults, NEW l \in LoanIds, Liquidate(v, l)
  PROVE  MoneyConserved'
<1>1. PICK debt, interest, fee, ratio, collateral :
        /\ debt = borrowData[v].totalPrincipal /\ interest = borrowData[v].totalInterest
        /\ fee = borrowData[v].totalFee /\ ratio = loans[v][l].incomeRatio
        /\ collateral = loans[v][l].collateral
  OBVIOUS
<1>2. /\ debt \in Nat /\ interest \in Nat /\ fee \in Nat /\ ratio \in 0 .. BasisPoints
      /\ collateral \in SUBSET Nfts /\ twap.price \in Nat /\ conf \in Configuration
  BY <1>1, ConstantsAssumption DEF TypeOK, BorrowData, Loan
<1>3. PICK s \in Nat, j \in Nat : s = SeniorShare(interest, ratio) /\ j = JuniorShare(interest, ratio)
  BY <1>2, SharesType
<1>4. PICK value \in Nat : value = DiscountedFloor(twap.price) * Cardinality(collateral)
  <2>1. DiscountedFloor(twap.price) >= 0
    BY DEF Liquidate
  <2>2. PercentMul(twap.price, conf.liquidationBonus) \in Nat
    BY <1>2, PercentMulNat DEF Configuration
  <2>3. DiscountedFloor(twap.price) \in Nat
    BY <1>2, <2>1, <2>2 DEF DiscountedFloor, Discount
  <2>4. Cardinality(collateral) \in Nat
    BY <1>2, ConstantsAssumption, FS_Subset, FS_CardinalityType
  <2>5. QED
    BY <2>3, <2>4, ProductType
<1>5. PICK p, cover : p = Proceeds(value, debt, s, j, fee) /\ cover = JuniorCover(debt, value)
  OBVIOUS
<1>6. /\ cash' = [cash EXCEPT
           !["senior"] = @ + p.principal + p.seniorInterest,
           !["junior"] = @ - cover + p.juniorInterest,
           !["treasury"] = @ + p.fee,
           !["diamond"] = @ + value + cover - p.principal - p.seniorInterest
                            - p.juniorInterest - p.fee - p.surplus]
      /\ weth' = [weth EXCEPT ![v] = @ + p.surplus]
      /\ world' = world - value /\ eth' = eth
  BY <1>1, <1>3, <1>4, <1>5 DEF Liquidate
<1>7. /\ cash \in [Accounts -> Nat] /\ eth \in [Vaults -> Nat] /\ weth \in [Vaults -> Nat]
      /\ world \in Int /\ cash["junior"] \in Nat
  BY DEF TypeOK, Accounts
<1>8. PICK a \in Nat, b \in Nat, c \in Nat, d \in Nat, e \in Nat, g \in Nat :
        /\ a = p.principal /\ b = p.seniorInterest /\ c = p.juniorInterest
        /\ d = p.fee /\ e = p.surplus /\ g = cover
  <2>1. /\ cover \in 0 .. cash["junior"]
        /\ p \in [principal : Nat, seniorInterest : Nat, juniorInterest : Nat,
                  fee : Nat, surplus : Nat]
    BY <1>2, <1>5, <1>7, ProceedsPaidOut
  <2>2. QED
    BY <1>7, <2>1
<1>9. Held5(cash') = Held5(cash) + value - e
  <2>1. /\ cash["senior"] \in Int /\ cash["junior"] \in Int /\ cash["treasury"] \in Int
        /\ cash["diamond"] \in Int /\ cash["diamondEth"] \in Int
    BY <1>7 DEF Accounts
  <2>2. /\ cash'["senior"] = cash["senior"] + a + b
        /\ cash'["junior"] = cash["junior"] - g + c
        /\ cash'["treasury"] = cash["treasury"] + d
        /\ cash'["diamond"] = cash["diamond"] + value + g - a - b - c - d - e
        /\ cash'["diamondEth"] = cash["diamondEth"]
    BY <1>6, <1>7, <1>8 DEF Accounts
  <2>3. QED
    BY <2>1, <2>2 DEF Held5
<1>10. \A x \in Vaults \ {v} : eth'[x] = eth[x] /\ weth'[x] = weth[x]
  BY <1>6, <1>7
<1>11. PICK h \in Int, m \in Nat, t \in Nat, y \in Int :
         h = Held5(cash) /\ m = eth[v] /\ t = weth[v] /\ y = world
  BY <1>7, CashIsFive
<1>12. /\ eth'[v] = m /\ weth'[v] = t + e /\ world' = y - value
       /\ Held5(cash') = h + value - e
  BY <1>6, <1>7, <1>8, <1>9, <1>11
<1>13. (h + value - e) + (m + (t + e)) + (y - value) = h + (m + t) + y
  OBVIOUS
<1>14. QED
  BY <1>10, <1>11, <1>12, <1>13, MoneyMoved

\* One that moves money from a vault to another.
LEMMA MoneyMovedBetween ==
  ASSUME TypeOK, TypeOK', MoneyConserved, cash' = cash, world' = world,
         NEW v \in Vaults, NEW w \in Vaults, v # w, NEW x \in Nat,
         VaultMoney'[v] = VaultMoney[v] - x, VaultMoney'[w] = VaultMoney[w] + x,
         \A z \in Vaults \ {v, w} : VaultMoney'[z] = VaultMoney[z]
  PROVE  MoneyConserved'
<1>1. /\ \A z \in Vaults : VaultMoney[z] \in Int /\ VaultMoney'[z] \in Int
      /\ DOMAIN VaultMoney = Vaults /\ DOMAIN VaultMoney' = Vaults
  BY DEF VaultMoney, TypeOK
<1>2. PICK between : between = [z \in Vaults |->
                       IF z = v THEN VaultMoney[z] - x ELSE VaultMoney[z]]
  OBVIOUS
<1>3. /\ \A z \in Vaults : between[z] \in Int
      /\ between[v] = VaultMoney[v] - x
      /\ \A z \in Vaults \ {v} : between[z] = VaultMoney[z]
      /\ \A z \in Vaults \ {w} : VaultMoney'[z] = between[z]
  BY <1>1, <1>2
<1>4. SumFunctionOnSet(between, Vaults)
        = SumFunctionOnSet(VaultMoney, Vaults) + between[v] - VaultMoney[v]
  BY <1>1, <1>3, FiniteAssumption, SumChanged
<1>5. SumFunctionOnSet(VaultMoney', Vaults)
        = SumFunctionOnSet(between, Vaults) + VaultMoney'[w] - between[w]
  BY <1>1, <1>3, FiniteAssumption, SumChanged
<1>6. between[w] = VaultMoney[w]
  BY <1>3
<1>7. PICK m \in Int, p \in Int, q \in Int :
        m = SumFunctionOnSet(VaultMoney, Vaults) /\ p = VaultMoney[v] /\ q = VaultMoney[w]
  BY <1>1, FiniteAssumption, SumInt
<1>8. SumFunctionOnSet(between, Vaults) = m - x
  BY <1>3, <1>4, <1>7
<1>9. SumFunctionOnSet(VaultMoney', Vaults) = SumFunctionOnSet(VaultMoney, Vaults)
  BY <1>5, <1>6, <1>7, <1>8
<1>10. SumFunction(VaultMoney') = SumFunction(VaultMoney)
  BY <1>1, <1>9 DEF SumFunction
<1>11. QED
  BY <1>10 DEF MoneyConserved, InitialMoney

\* What a credit does to the sum of the contracts' accounts, and of the two of
\* the diamond.
LEMMA CreditedCash ==
  ASSUME cash \in [Accounts -> Nat], NEW to, NEW x \in Nat
  PROVE  /\ Held5(Credited(cash, to, x))
              = Held5(cash) + (IF to \in Accounts THEN x ELSE 0)
         /\ Credited(cash, to, x)["diamond"] + Credited(cash, to, x)["diamondEth"]
              = cash["diamond"] + cash["diamondEth"] + (IF to \in Diamond THEN x ELSE 0)
<1>1. PICK c : c = Credited(cash, to, x)
  OBVIOUS
<1>2. \A a \in Accounts : c[a] = cash[a] + (IF a = to THEN x ELSE 0)
  BY <1>1, CreditedType
<1>3. /\ c["senior"] = cash["senior"] + (IF "senior" = to THEN x ELSE 0)
      /\ c["junior"] = cash["junior"] + (IF "junior" = to THEN x ELSE 0)
      /\ c["treasury"] = cash["treasury"] + (IF "treasury" = to THEN x ELSE 0)
      /\ c["diamond"] = cash["diamond"] + (IF "diamond" = to THEN x ELSE 0)
      /\ c["diamondEth"] = cash["diamondEth"] + (IF "diamondEth" = to THEN x ELSE 0)
  BY <1>2 DEF Accounts
<1>4. PICK s \in Nat, j \in Nat, t \in Nat, d \in Nat, e \in Nat :
        /\ s = cash["senior"] /\ j = cash["junior"] /\ t = cash["treasury"]
        /\ d = cash["diamond"] /\ e = cash["diamondEth"]
  BY DEF Accounts
<1>5. QED
  BY <1>1, <1>3, <1>4 DEF Held5, Accounts, Diamond

\* A transfer of one currency: what a vault loses arrives at a vault, in one of
\* the contracts or outside.
LEMMA TransfersKeepMoney ==
  ASSUME TypeOK, TypeOK', MoneyConserved, NEW v \in Vaults, NEW x \in Nat,
         NEW to \in Vaults \cup Accounts \cup {Outside},
         TransferETH(v, to, x) \/ TransferCurrency(v, to, x)
  PROVE  MoneyConserved'
<1>1. /\ cash \in [Accounts -> Nat] /\ eth \in [Vaults -> Nat] /\ weth \in [Vaults -> Nat]
      /\ world \in Int
  BY DEF TypeOK
<1>2. /\ cash' = Credited(cash, to, x)
      /\ world' = IF to = Outside THEN world + x ELSE world
  BY DEF TransferETH, TransferCurrency
<1>3. \A z \in Vaults :
        eth'[z] + weth'[z] = eth[z] + weth[z] - (IF z = v THEN x ELSE 0)
                               + (IF z = to THEN x ELSE 0)
  <2>1. CASE TransferETH(v, to, x)
    <3>1. /\ Debited(eth, v, x) \in [Vaults -> Nat]
          /\ \A z \in Vaults : Debited(eth, v, x)[z] = eth[z] - (IF z = v THEN x ELSE 0)
      BY <1>1, <2>1, DebitedType DEF TransferETH
    <3>2. weth' = weth /\ eth' = Credited(Debited(eth, v, x), to, x)
      BY <2>1 DEF TransferETH
    <3>3. \A z \in Vaults : eth'[z] = Debited(eth, v, x)[z] + (IF z = to THEN x ELSE 0)
      BY <3>1, <3>2, CreditedType
    <3>4. QED
      BY <1>1, <3>1, <3>2, <3>3
  <2>2. CASE TransferCurrency(v, to, x)
    <3>1. /\ Debited(weth, v, x) \in [Vaults -> Nat]
          /\ \A z \in Vaults : Debited(weth, v, x)[z] = weth[z] - (IF z = v THEN x ELSE 0)
      BY <1>1, <2>2, DebitedType DEF TransferCurrency
    <3>2. eth' = eth /\ weth' = Credited(Debited(weth, v, x), to, x)
      BY <2>2 DEF TransferCurrency
    <3>3. \A z \in Vaults : weth'[z] = Debited(weth, v, x)[z] + (IF z = to THEN x ELSE 0)
      BY <3>1, <3>2, CreditedType
    <3>4. QED
      BY <1>1, <3>1, <3>2, <3>3
  <2>3. QED
    BY <2>1, <2>2
<1>4. Held5(cash') = Held5(cash) + (IF to \in Accounts THEN x ELSE 0) /\ Held5(cash) \in Int
  BY <1>1, <1>2, CreditedCash, CashIsFive
<1>5. to \in Vaults => to \notin Accounts /\ to # Outside
  BY ConstantsAssumption
<1>6. \A z \in Vaults :
        /\ VaultMoney[z] = eth[z] + weth[z] /\ VaultMoney[z] \in Int
        /\ VaultMoney'[z] = VaultMoney[z] - (IF z = v THEN x ELSE 0) + (IF z = to THEN x ELSE 0)
  BY <1>1, <1>3 DEF VaultMoney
<1>7. CASE to \in Vaults /\ to # v
  <2>1. cash' = cash /\ world' = world
    BY <1>1, <1>2, <1>5, <1>7, CreditedType
  <2>2. /\ VaultMoney'[v] = VaultMoney[v] - x /\ VaultMoney'[to] = VaultMoney[to] + x
        /\ \A z \in Vaults \ {v, to} : VaultMoney'[z] = VaultMoney[z]
    BY <1>6, <1>7
  <2>3. QED
    BY <1>7, <2>1, <2>2, MoneyMovedBetween
<1>8. CASE to = v
  <2>1. cash' = cash /\ world' = world
    BY <1>1, <1>2, <1>5, <1>8, CreditedType
  <2>2. \A z \in Vaults : VaultMoney'[z] = VaultMoney[z]
    BY <1>6, <1>8
  <2>3. VaultMoney' = VaultMoney
    BY <2>2 DEF VaultMoney
  <2>4. QED
    BY <2>1, <2>3 DEF MoneyConserved, InitialMoney
<1>9. CASE to \notin Vaults
  <2>1. \A z \in Vaults : eth'[z] + weth'[z] = eth[z] + weth[z] - (IF z = v THEN x ELSE 0)
    BY <1>1, <1>3, <1>9
  <2>2. \A z \in Vaults \ {v} : eth'[z] = eth[z] /\ weth'[z] = weth[z]
    BY <1>1, <1>9, CreditedType DEF TransferETH, TransferCurrency, Debited, Credited
  <2>3. Held5(cash') + world' = Held5(cash) + world + x
    <3>1. PICK h \in Int, y \in Int : h = Held5(cash) /\ y = world
      BY <1>1, <1>4
    <3>2. CASE to \in Accounts
      <4>1. to # Outside
        BY <3>2 DEF Accounts, Outside
      <4>2. QED
        BY <1>2, <1>4, <3>1, <3>2, <4>1
    <3>3. CASE to \notin Accounts
      <4>1. to = Outside
        BY <1>9, <3>3
      <4>2. QED
        BY <1>2, <1>4, <3>1, <3>3, <4>1
    <3>4. QED
      BY <3>2, <3>3
  <2>4. PICK h \in Int, k \in Int, m \in Nat, y \in Int, z \in Int :
          h = Held5(cash) /\ k = Held5(cash') /\ m = eth[v] + weth[v] /\ y = world /\ z = world'
    BY <1>1, <1>2, <1>4
  <2>5. eth'[v] + weth'[v] = m - x
    <3>1. eth[v] \in Nat /\ weth[v] \in Nat
      BY <1>1
    <3>2. PICK e \in Nat, t \in Nat : e = eth[v] /\ t = weth[v]
      BY <3>1
    <3>3. eth'[v] + weth'[v] = e + t - x
      BY <2>1, <3>2
    <3>4. m = e + t
      BY <2>4, <3>2
    <3>5. QED
      BY <3>3, <3>4
  <2>6. k + (m - x) + z = h + m + y
    BY <2>3, <2>4
  <2>7. QED
    BY <2>2, <2>4, <2>5, <2>6, MoneyMoved
<1>10. QED
  BY <1>7, <1>8, <1>9

\* One from elsewhere.
LEMMA ReceiptsKeepMoney ==
  ASSUME TypeOK, TypeOK', MoneyConserved, NEW x \in Nat, NEW to \in Vaults \cup Diamond,
         ReceiveETH(to, x) \/ ReceiveCurrency(to, x)
  PROVE  MoneyConserved'
<1>1. /\ cash \in [Accounts -> Nat] /\ eth \in [Vaults -> Nat] /\ weth \in [Vaults -> Nat]
      /\ world \in Int
  BY DEF TypeOK
<1>2. cash' = Credited(cash, to, x) /\ world' = world - x
  BY DEF ReceiveETH, ReceiveCurrency
<1>3. Held5(cash') = Held5(cash) + (IF to \in Accounts THEN x ELSE 0) /\ Held5(cash) \in Int
  BY <1>1, <1>2, CreditedCash, CashIsFive
<1>4. CASE to \in Vaults
  <2>1. to \notin Accounts
    BY <1>4, ConstantsAssumption
  <2>2. Held5(cash') = Held5(cash)
    BY <1>3, <2>1
  <2>3. \A z \in Vaults \ {to} : eth'[z] = eth[z] /\ weth'[z] = weth[z]
    BY <1>1, CreditedType DEF ReceiveETH, ReceiveCurrency
  <2>4. eth'[to] + weth'[to] = eth[to] + weth[to] + x
    BY <1>1, <1>4, CreditedType DEF ReceiveETH, ReceiveCurrency
  <2>5. PICK h \in Int, m \in Nat, y \in Int :
          h = Held5(cash) /\ m = eth[to] + weth[to] /\ y = world
    BY <1>1, <1>3, <1>4
  <2>6. h + (m + x) + (y - x) = h + m + y
    OBVIOUS
  <2>7. QED
    BY <1>2, <1>4, <2>2, <2>3, <2>4, <2>5, <2>6, MoneyMoved
<1>5. CASE to \notin Vaults
  <2>1. to \in Accounts
    BY <1>5 DEF Diamond, Accounts
  <2>2. eth' = eth /\ weth' = weth
    BY <1>1, <1>5, CreditedType DEF ReceiveETH, ReceiveCurrency
  <2>3. Held5(cash') + world' = Held5(cash) + world
    <3>1. PICK h \in Int : h = Held5(cash) /\ Held5(cash') = h + x
      BY <1>3, <2>1
    <3>2. QED
      BY <1>1, <1>2, <3>1
  <2>4. QED
    BY <2>2, <2>3, MoneyMovedOutside
<1>6. QED
  BY <1>4, <1>5

\* Conversions of a vault's money; ETH sent along stays in the diamond.
LEMMA WrapsKeepMoney ==
  ASSUME TypeOK, TypeOK', MoneyConserved, NEW v \in Vaults, NEW x \in Nat, NEW sent \in Nat,
         WrapVaultETH(v, x, sent) \/ UnwrapVaultETH(v, x)
  PROVE  MoneyConserved'
<1>1. /\ cash \in [Accounts -> Nat] /\ eth \in [Vaults -> Nat] /\ weth \in [Vaults -> Nat]
      /\ world \in Int
  BY DEF TypeOK
<1>2. /\ \A z \in Vaults \ {v} : eth'[z] = eth[z] /\ weth'[z] = weth[z]
      /\ eth'[v] + weth'[v] = eth[v] + weth[v]
  BY <1>1, CreditedType, DebitedType DEF WrapVaultETH, UnwrapVaultETH
<1>3. Held5(cash') + world' = Held5(cash) + world
  <2>1. CASE UnwrapVaultETH(v, x)
    BY <2>1 DEF UnwrapVaultETH
  <2>2. CASE WrapVaultETH(v, x, sent)
    <3>1. cash' = Credited(cash, "diamondEth", sent) /\ world' = world - sent
      BY <2>2 DEF WrapVaultETH
    <3>2. Held5(cash') = Held5(cash) + sent
      BY <1>1, <3>1, CreditedCash DEF Accounts
    <3>3. PICK h \in Int : h = Held5(cash)
      BY <1>1, CashIsFive
    <3>4. QED
      BY <1>1, <3>1, <3>2, <3>3
  <2>3. QED
    BY <2>1, <2>2
<1>4. PICK h \in Int, k \in Int, m \in Nat, y \in Int, z \in Int :
        h = Held5(cash) /\ k = Held5(cash') /\ m = eth[v] + weth[v] /\ y = world /\ z = world'
  <2>1. cash' \in [Accounts -> Nat] /\ world' \in Int
    BY DEF TypeOK
  <2>2. Held5(cash) \in Int /\ Held5(cash') \in Int
    BY <1>1, <2>1, CashIsFive
  <2>3. QED
    BY <1>1, <2>1, <2>2
<1>5. k + m + z = h + m + y
  BY <1>3, <1>4
<1>6. QED
  BY <1>2, <1>4, <1>5, MoneyMoved

LEMMA TransferMoney ==
  ASSUME TypeOK, TypeOK', MoneyConserved, VaultMoneyStep \/ GiftStep \/ DepositorStep
  PROVE  MoneyConserved'
<1>0. /\ cash \in [Accounts -> Nat] /\ eth \in [Vaults -> Nat] /\ weth \in [Vaults -> Nat]
      /\ world \in Int
  BY DEF TypeOK
<1>1. CASE VaultMoneyStep \/ GiftStep
  <2>1. Flows \subseteq Nat /\ Gifts \subseteq Nat
    BY ConstantsAssumption
  <2>2. /\ EthRecipients \subseteq Vaults \cup Accounts \cup {Outside}
        /\ WethRecipients \subseteq Vaults \cup Accounts \cup {Outside}
    BY DEF EthRecipients, WethRecipients, Accounts
  <2>3. CASE VaultMoneyStep
    BY <2>1, <2>2, <2>3, TransfersKeepMoney, ReceiptsKeepMoney, WrapsKeepMoney
    DEF VaultMoneyStep
  <2>4. CASE GiftStep
    BY <2>1, <2>4, ReceiptsKeepMoney DEF GiftStep, Diamond
  <2>5. QED
    BY <1>1, <2>3, <2>4
<1>2. CASE DepositorStep
  <2>1. PICK tranche \in {"senior", "junior"}, x \in Flows :
          TrancheDeposit(tranche, x) \/ TrancheWithdraw(tranche, x)
    BY <1>2 DEF DepositorStep
  <2>2. x \in Nat
    BY ConstantsAssumption
  <2>3. UNCHANGED <<eth, weth>>
    BY <2>1 DEF TrancheDeposit, TrancheWithdraw
  <2>4. /\ cash["senior"] \in Int /\ cash["junior"] \in Int /\ cash["treasury"] \in Int
        /\ cash["diamond"] \in Int /\ cash["diamondEth"] \in Int
    BY <1>0 DEF Accounts
  <2>5. Held5(cash') + world' = Held5(cash) + world
    <3>1. CASE TrancheDeposit(tranche, x)
      <4>1. cash' = [cash EXCEPT ![tranche] = @ + x] /\ world' = world - x
        BY <3>1 DEF TrancheDeposit
      <4>2. QED
        BY <1>0, <2>1, <2>2, <2>4, <4>1 DEF Held5, Accounts
    <3>2. CASE TrancheWithdraw(tranche, x)
      <4>1. cash' = [cash EXCEPT ![tranche] = @ - x] /\ world' = world + x
        BY <3>2 DEF TrancheWithdraw
      <4>2. QED
        BY <1>0, <2>1, <2>2, <2>4, <4>1 DEF Held5, Accounts
    <3>3. QED
      BY <2>1, <3>1, <3>2
  <2>6. QED
    BY <2>3, <2>5, MoneyMovedOutside
<1>3. QED
  BY <1>1, <1>2

LEMMA NextMoney ==
  TypeOK /\ TypeOK' /\ MoneyConserved /\ [Next]_vars => MoneyConserved'
<1>1. SUFFICES ASSUME TypeOK, TypeOK', MoneyConserved, [Next]_vars
               PROVE  MoneyConserved'
  OBVIOUS
<1>2. CASE BuyStep
  BY <1>1, <1>2, BorrowMoney DEF BuyStep, BuyNow, BuyNowV2
<1>3. CASE RepayStep
  BY <1>1, <1>3, RepayMoney DEF RepayStep
<1>4. CASE LiquidateStep
  BY <1>1, <1>4, LiquidateMoney DEF LiquidateStep
<1>5. CASE VaultMoneyStep \/ GiftStep \/ DepositorStep
  BY <1>1, <1>5, TransferMoney
<1>6. CASE NftStep \/ MarketStep \/ UNCHANGED vars
  <2>1. UNCHANGED moneyVars
    BY <1>6
    DEF NftStep, WithdrawNFT, ReceiveNFT, MarketStep, Tick, UpdateTwap, Configure,
        moneyVars, vars
  <2>2. QED
    BY <1>1, <2>1 DEF moneyVars, MoneyConserved, VaultMoney
<1>7. QED
  BY <1>1, <1>2, <1>3, <1>4, <1>5, <1>6 DEF Next

\* Whatever a transaction moves, in either currency and through the diamond,
\* comes from somewhere and arrives somewhere.
THEOREM MoneyIsConserved == Spec => []MoneyConserved
<1>1. QED
  BY InitMoney, NextMoney, TypeCorrect, PTL DEF Spec

\* The diamond holds what it was sent for nothing and no more: whatever the
\* rounding and however short the proceeds, no purchase or liquidation leaves
\* money of the protocol in it, and none takes what is there.
THEOREM StrayMoneyUntouched == Spec => []StrayMoneyStays
<1>1. Init => StrayMoneyStays
  BY DEF Init, StrayMoneyStays, Accounts
<1>2. TypeOK /\ StrayMoneyStays /\ [Next]_vars => StrayMoneyStays'
  <2> SUFFICES ASSUME TypeOK, StrayMoneyStays, [Next]_vars
               PROVE  StrayMoneyStays'
    OBVIOUS
  <2>0. /\ cash \in [Accounts -> Nat] /\ given \in Nat
        /\ cash["diamond"] \in Nat /\ cash["diamondEth"] \in Nat
        /\ cash["diamond"] + cash["diamondEth"] = given
    BY DEF TypeOK, StrayMoneyStays, Accounts
  <2>1. CASE BuyStep
    <3>1. PICK v \in Vaults, n \in Nfts, price \in Prices, interest \in Interests,
               pending \in Pendings, currency \in Currencies, sent \in Gifts :
                 Borrow(v, n, price, interest, pending, currency, sent)
      BY <2>1 DEF BuyStep, BuyNow, BuyNowV2
    <3>2. /\ cash'["diamond"] = IF currency = "ETH" THEN 0 ELSE cash["diamond"]
          /\ cash'["diamondEth"] = DiamondEthAfter(currency, sent)
          /\ given' = given + sent
      BY <2>0, <3>1 DEF Borrow, Accounts
    <3>3. sent \in Nat
      BY ConstantsAssumption
    <3>4. QED
      BY <2>0, <3>2, <3>3 DEF StrayMoneyStays, DiamondEthAfter
  <2>2. CASE RepayStep
    BY <2>0, <2>2 DEF RepayStep, Repay, StrayMoneyStays, Accounts
  <2>3. CASE LiquidateStep
    <3>1. PICK v \in Vaults, l \in LoanIds : Liquidate(v, l)
      BY <2>3 DEF LiquidateStep
    <3>2. given' = given
      BY <3>1 DEF Liquidate
    <3>3. QED
      BY <3>1, <3>2, LiquidateTypeOK DEF StrayMoneyStays
  <2>4. CASE VaultMoneyStep \/ GiftStep
    <3>1. \/ cash' = cash /\ given' = given
          \/ \E to \in Vaults \cup Accounts \cup {Outside}, x \in Nat :
               cash' = Credited(cash, to, x) /\ given' = Counted(to, x)
      <4>1. ASSUME NEW x \in Nat, NEW sent \in Nat, NEW v \in Vaults, WrapVaultETH(v, x, sent)
            PROVE  cash' = Credited(cash, "diamondEth", sent) /\ given' = Counted("diamondEth", sent)
        BY <4>1 DEF WrapVaultETH, Counted, Diamond
      <4>2. CASE VaultMoneyStep
        BY <4>1, <4>2, ConstantsAssumption
        DEF VaultMoneyStep, TransferETH, TransferCurrency, UnwrapVaultETH,
            ReceiveETH, ReceiveCurrency, EthRecipients, WethRecipients, Accounts
      <4>3. CASE GiftStep
        BY <4>3, ConstantsAssumption DEF GiftStep, ReceiveETH, ReceiveCurrency, Accounts
      <4>4. QED
        BY <2>4, <4>2, <4>3
    <3>3. ASSUME NEW to, NEW x \in Nat,
                 cash' = Credited(cash, to, x), given' = Counted(to, x)
          PROVE  StrayMoneyStays'
      <4>1. cash'["diamond"] + cash'["diamondEth"]
              = cash["diamond"] + cash["diamondEth"] + (IF to \in Diamond THEN x ELSE 0)
        BY <2>0, <3>3, CreditedCash
      <4>2. QED
        BY <2>0, <3>3, <4>1 DEF StrayMoneyStays, Counted
    <3>4. QED
      BY <2>0, <3>1, <3>3 DEF StrayMoneyStays
  <2>5. CASE DepositorStep
    BY <2>0, <2>5
    DEF DepositorStep, TrancheDeposit, TrancheWithdraw, StrayMoneyStays, Accounts
  <2>6. CASE NftStep \/ MarketStep \/ UNCHANGED vars
    BY <2>0, <2>6
    DEF NftStep, WithdrawNFT, ReceiveNFT, MarketStep, Tick, UpdateTwap, Configure,
        moneyVars, vars, StrayMoneyStays
  <2>7. QED
    BY <2>1, <2>2, <2>3, <2>4, <2>5, <2>6 DEF Next
<1>3. QED
  BY <1>1, <1>2, TypeCorrect, PTL DEF Spec

-----------------------------------------------------------------------------
(***************************************************************************)
(* The collection's debt.                                                  *)
(***************************************************************************)

\* A step that changes the debt by as much as one vault's books.
LEMMA DebtMoved ==
  ASSUME TypeOK, TypeOK', DebtIsSumOfBooks, NEW v \in Vaults,
         \A w \in Vaults : repayRecord'[w].defaultTimes = repayRecord[w].defaultTimes,
         \A w \in Vaults \ {v} : borrowData'[w] = borrowData[w],
         borrowState'.totalDebt - borrowState.totalDebt
           = borrowData'[v].totalPrincipal - borrowData[v].totalPrincipal
  PROVE  DebtIsSumOfBooks'
<1>1. SUFFICES ASSUME \A w \in Vaults : NeverDefaulted(w)'
               PROVE  borrowState'.totalDebt = SumFunction(Books')
  BY DEF DebtIsSumOfBooks
<1>2. borrowState.totalDebt = SumFunction(Books)
  BY <1>1 DEF DebtIsSumOfBooks, NeverDefaulted
<1>3. /\ DOMAIN Books = Vaults /\ DOMAIN Books' = Vaults
      /\ \A w \in Vaults : Books[w] \in Int /\ Books'[w] \in Int
      /\ \A w \in Vaults \ {v} : Books'[w] = Books[w]
      /\ Books[v] = borrowData[v].totalPrincipal
      /\ Books'[v] = borrowData'[v].totalPrincipal
  BY DEF Books, TypeOK, BorrowData
<1>4. /\ SumFunction(Books) = SumFunctionOnSet(Books, Vaults)
      /\ SumFunction(Books') = SumFunctionOnSet(Books', Vaults)
  BY <1>3 DEF SumFunction
<1>5. SumFunctionOnSet(Books', Vaults) = SumFunctionOnSet(Books, Vaults) + Books'[v] - Books[v]
  BY <1>3, FiniteAssumption, SumChanged
<1>6. PICK d \in Int, e \in Int, x \in Int, y \in Int :
        /\ d = borrowState.totalDebt /\ e = borrowState'.totalDebt
        /\ x = Books[v] /\ y = Books'[v]
  BY <1>3 DEF TypeOK, BorrowState
<1>7. e - d = y - x
  BY <1>3, <1>6
<1>8. SumFunctionOnSet(Books', Vaults) = d + y - x
  BY <1>2, <1>4, <1>5, <1>6
<1>9. QED
  BY <1>4, <1>6, <1>7, <1>8

LEMMA BorrowDebt ==
  ASSUME TypeOK, TypeOK', DebtIsSumOfBooks, BuyStep
  PROVE  DebtIsSumOfBooks'
<1>1. PICK v \in Vaults, price \in Nat, interest \in Nat, loan \in Loan :
        /\ loan.pmt \in PMT
        /\ borrowData' = [borrowData EXCEPT ![v] =
             InstalmentBooked(LoanBooked(@, price, interest), loan.pmt)]
        /\ borrowState' = DebtReduced(
             DebtAdded(borrowState, price, interest, conf.incomeRatio),
             loan.pmt, conf.incomeRatio)
        /\ repayRecord' = repayRecord
  BY BorrowBooks
<1>2. PICK p \in Nat : p = loan.pmt.principal
  BY <1>1 DEF PMT
<1>3. PICK d \in Nat, b \in Nat :
        d = borrowState.totalDebt /\ b = borrowData[v].totalPrincipal
  BY DEF TypeOK, BorrowState, BorrowData
<1>4. borrowState'.totalDebt = d + price - p
  BY <1>1, <1>2, <1>3 DEF DebtReduced, DebtAdded
<1>5. borrowData'[v].totalPrincipal = b + price - p
  BY <1>1, <1>2, <1>3 DEF InstalmentBooked, LoanBooked, TypeOK
<1>6. \A w \in Vaults \ {v} : borrowData'[w] = borrowData[w]
  BY <1>1 DEF TypeOK
<1>7. borrowState'.totalDebt - borrowState.totalDebt
        = borrowData'[v].totalPrincipal - borrowData[v].totalPrincipal
  BY <1>3, <1>4, <1>5
<1>8. QED
  BY <1>1, <1>6, <1>7, DebtMoved

\* What a repayment does to the books, its instalment named.
LEMMA RepayBooks ==
  ASSUME TypeOK, NEW v \in Vaults, NEW l \in LoanIds, Repay(v, l)
  PROVE  \E p \in Nat :
           /\ p = loans[v][l].pmt.principal
           /\ borrowState'.totalDebt = borrowState.totalDebt - p
           /\ borrowData'[v].totalPrincipal = borrowData[v].totalPrincipal - p
           /\ borrowData'[v].paidLoanNumber = borrowData[v].paidLoanNumber
                                + IF IsFinal(loans[v][l]) THEN 1 ELSE 0
           /\ \A w \in Vaults \ {v} : borrowData'[w] = borrowData[w]
           /\ loans' = [loans EXCEPT ![v][l] =
                 IF IsFinal(loans[v][l]) THEN NoLoan ELSE AfterInstalment(loans[v][l])]
           /\ \A w \in Vaults :
                 repayRecord'[w].defaultTimes = repayRecord[w].defaultTimes
<1>1. PICK loan \in Loan : loan = loans[v][l]
  BY DEF TypeOK
<1>2. PICK pmt \in PMT : pmt = loan.pmt
  BY DEF Loan
<1>3. /\ borrowState' = DebtReduced(borrowState, pmt, loan.incomeRatio)
      /\ borrowData' = [borrowData EXCEPT ![v] =
           IF IsFinal(loan) THEN PaidLoanCounted(InstalmentBooked(@, pmt))
           ELSE InstalmentBooked(@, pmt)]
      /\ loans' = [loans EXCEPT ![v][l] =
           IF IsFinal(loan) THEN NoLoan ELSE AfterInstalment(loan)]
      /\ repayRecord' = [repayRecord EXCEPT ![v].repaidTimes =
           IF IsFinal(loan) THEN @ + 1 ELSE @]
  BY <1>1, <1>2 DEF Repay
<1>4. pmt.principal \in Nat /\ borrowData[v].paidLoanNumber \in Nat
  BY DEF PMT, TypeOK, BorrowData
<1>5. borrowState'.totalDebt = borrowState.totalDebt - pmt.principal
  BY <1>3 DEF DebtReduced
<1>6. /\ borrowData'[v].totalPrincipal = borrowData[v].totalPrincipal - pmt.principal
      /\ borrowData'[v].paidLoanNumber = borrowData[v].paidLoanNumber
                                           + IF IsFinal(loan) THEN 1 ELSE 0
  BY <1>3, <1>4 DEF InstalmentBooked, PaidLoanCounted, TypeOK
<1>7. \A w \in Vaults \ {v} : borrowData'[w] = borrowData[w]
  BY <1>3 DEF TypeOK
<1>8. \A w \in Vaults : repayRecord'[w].defaultTimes = repayRecord[w].defaultTimes
  BY <1>3 DEF TypeOK
<1>9. QED
  BY <1>1, <1>2, <1>3, <1>4, <1>5, <1>6, <1>7, <1>8

LEMMA LiquidateBooks ==
  ASSUME TypeOK, NEW v \in Vaults, NEW l \in LoanIds, Liquidate(v, l)
  PROVE  /\ borrowData' = borrowData /\ loans' = [loans EXCEPT ![v][l] = NoLoan]
         /\ ~NeverDefaulted(v)'
         /\ \A w \in Vaults \ {v} : repayRecord'[w] = repayRecord[w]
<1>1. /\ borrowData' = borrowData /\ loans' = [loans EXCEPT ![v][l] = NoLoan]
      /\ repayRecord' = [repayRecord EXCEPT ![v] =
           [repaidTimes |-> @.repaidTimes + 1, defaultTimes |-> @.defaultTimes + 1]]
  BY DEF Liquidate
<1>2. repayRecord[v].defaultTimes \in Nat
  BY DEF TypeOK
<1>3. QED
  BY <1>1, <1>2 DEF TypeOK, NeverDefaulted

LEMMA NextDebt ==
  TypeOK /\ TypeOK' /\ DebtIsSumOfBooks /\ [Next]_vars => DebtIsSumOfBooks'
<1>1. SUFFICES ASSUME TypeOK, TypeOK', DebtIsSumOfBooks, [Next]_vars
               PROVE  DebtIsSumOfBooks'
  OBVIOUS
<1>2. CASE BuyStep
  BY <1>1, <1>2, BorrowDebt
<1>3. CASE RepayStep
  <2>1. PICK v \in Vaults, l \in LoanIds : Repay(v, l)
    BY <1>3 DEF RepayStep
  <2>2. PICK p \in Nat :
          /\ borrowState'.totalDebt = borrowState.totalDebt - p
          /\ borrowData'[v].totalPrincipal = borrowData[v].totalPrincipal - p
          /\ \A w \in Vaults \ {v} : borrowData'[w] = borrowData[w]
          /\ \A w \in Vaults :
                repayRecord'[w].defaultTimes = repayRecord[w].defaultTimes
    BY <1>1, <2>1, RepayBooks
  <2>3. borrowState.totalDebt \in Nat /\ borrowData[v].totalPrincipal \in Nat
    BY <1>1 DEF TypeOK, BorrowState, BorrowData
  <2>4. borrowState'.totalDebt - borrowState.totalDebt
          = borrowData'[v].totalPrincipal - borrowData[v].totalPrincipal
    BY <2>2, <2>3
  <2>5. QED
    BY <1>1, <2>2, <2>4, DebtMoved
<1>4. CASE LiquidateStep
  BY <1>1, <1>4, LiquidateBooks DEF LiquidateStep, DebtIsSumOfBooks
<1>5. CASE \/ NftStep \/ VaultMoneyStep \/ GiftStep \/ DepositorStep \/ MarketStep
           \/ UNCHANGED vars
  BY <1>1, <1>5, BooksUntouched DEF bookVars, DebtIsSumOfBooks, NeverDefaulted, Books
<1>6. QED
  BY <1>1, <1>2, <1>3, <1>4, <1>5 DEF Next

\* Two totals that are only ever added to and subtracted from, at different
\* places, stay equal: the collection's debt and the sum of its vaults' books.
THEOREM DebtStaysSumOfBooks == Spec => []DebtIsSumOfBooks
<1>1. Init => DebtIsSumOfBooks
  <2>1. SUFFICES ASSUME Init
                 PROVE  borrowState.totalDebt = SumFunction(Books)
    BY DEF DebtIsSumOfBooks
  <2>2. \A v \in Vaults : Books[v] = 0
    BY <2>1 DEF Init, Books
  <2>3. SumFunctionOnSet(Books, Vaults) = Cardinality(Vaults) * 0
    BY <2>2, FiniteAssumption, SumOfEqual
  <2>4. Cardinality(Vaults) * 0 = 0
    BY FiniteAssumption, FS_CardinalityType
  <2>5. QED
    BY <2>1, <2>3, <2>4 DEF SumFunction, Books, Init
<1>2. QED
  BY <1>1, NextDebt, TypeCorrect, PTL DEF Spec

-----------------------------------------------------------------------------
(***************************************************************************)
(* The vaults' books and their loans.                                      *)
(***************************************************************************)

\* What the proofs below need to know of a loan: a slot is empty, or its
\* instalment is the nper-th part of its principal and one is left to pay.
Shaped(loan) ==
  \/ loan = NoLoan
  \/ /\ loan.collateral # {} /\ loan.nper \in Npers \ {0}
     /\ loan.pmt.principal = loan.principal \div loan.nper
     /\ loan.paidTimes < loan.nper \/ loan.nper = 1

LoansShaped == \A v \in Vaults, l \in LoanIds : Shaped(loans[v][l])

LEMMA NewLoanShaped ==
  ASSUME TypeOK, NEW n \in Nfts, NEW price \in Nat, NEW interest \in Nat,
         conf.epoch # 0, conf.term \div conf.epoch # 0
  PROVE  Shaped(NewLoan(n, price, interest, conf.term \div conf.epoch))
<1> DEFINE nper == conf.term \div conf.epoch
<1>1. conf \in Confs /\ conf \in Configuration
  BY ConstantsAssumption DEF TypeOK
<1>2. nper \in Nat \ {0} /\ nper \in Npers
  BY <1>1, QuotientBounded DEF Npers, Configuration
<1> HIDE DEF nper
<1> DEFINE loan == NewLoan(n, price, interest, nper)
<1>3. /\ loan.collateral = {n} /\ loan.nper = nper /\ loan.principal = price
      /\ loan.pmt.principal = price \div nper /\ loan.paidTimes = 1
  BY DEF NewLoan
<1>4. Shaped(loan)
  <2> HIDE DEF loan
  <2>1. QED
    BY <1>2, <1>3 DEF Shaped
<1>5. QED
  BY <1>4 DEF nper

LEMMA AfterInstalmentShaped ==
  ASSUME NEW loan \in Loan, Shaped(loan), ~IsFinal(loan),
         loan.pmt.principal + loan.pmt.interest # 0
  PROVE  Shaped(AfterInstalment(loan))
<1>1. loan # NoLoan
  BY DEF NoLoan
<1>2. PICK after : after = AfterInstalment(loan)
  OBVIOUS
<1>3. /\ after.collateral = loan.collateral /\ after.nper = loan.nper
      /\ after.pmt = loan.pmt /\ after.principal = loan.principal
      /\ after.paidTimes = loan.paidTimes + 1
  BY <1>2 DEF AfterInstalment, Loan
<1>4. loan.paidTimes \in Nat /\ loan.nper \in Nat
  BY DEF Loan
<1>5. Shaped(after)
  BY <1>1, <1>3, <1>4 DEF Shaped, IsFinal
<1>6. QED
  BY <1>2, <1>5

LEMMA NextShaped == TypeOK /\ LoansShaped /\ [Next]_vars => LoansShaped'
<1>1. SUFFICES ASSUME TypeOK, LoansShaped, [Next]_vars,
                      NEW v \in Vaults, NEW l \in LoanIds
               PROVE  Shaped(loans'[v][l])
  BY DEF LoansShaped
<1>2. PICK loan \in Loan : loan = loans[v][l] /\ Shaped(loan)
  BY <1>1 DEF TypeOK, LoansShaped
<1>3. PICK after : after = loans'[v][l]
  OBVIOUS
<1>4. after = loan \/ Successor(loan, after)
  BY <1>1, <1>2, <1>3, LoanSteps
<1>5. CASE after = NoLoan
  BY <1>3, <1>5 DEF Shaped
<1>6. CASE /\ ~IsFinal(loan) /\ loan.pmt.principal + loan.pmt.interest # 0
           /\ after = AfterInstalment(loan)
  BY <1>2, <1>3, <1>6, AfterInstalmentShaped
<1>7. CASE \E n \in Nfts, price \in Prices, interest \in Interests :
             /\ conf.epoch # 0 /\ conf.term \div conf.epoch # 0
             /\ after = NewLoan(n, price, interest, conf.term \div conf.epoch)
  BY <1>1, <1>3, <1>7, NewLoanShaped, ConstantsAssumption
<1>8. QED
  BY <1>2, <1>3, <1>4, <1>5, <1>6, <1>7 DEF Successor

LEMMA InitShaped == Init => LoansShaped
BY DEF Init, LoansShaped, Shaped

\* Among finitely many configurations one allows the most instalments.
LEMMA MostInstalments ==
  /\ MaxNper \in Nat /\ MaxNper >= 1
  /\ \A k \in Npers : k \in Nat /\ k <= MaxNper
<1> DEFINE D == {d \in Confs : d.epoch # 0}
           Of(T) == {c.term \div c.epoch : c \in T}
           U == {T \in SUBSET D : \E m \in {1} \cup Of(T) :
                                   \A k \in {1} \cup Of(T) : k <= m}
<1>1. ASSUME NEW c \in D
      PROVE  c.term \div c.epoch \in Nat
  <2>1. c.term \in Nat /\ c.epoch \in Nat \ {0}
    BY ConstantsAssumption DEF Configuration
  <2>2. QED
    BY <2>1, QuotientBounded
<1>2. IsFiniteSet(D)
  BY FiniteAssumption, FS_Subset
<1>3. {} \in U
  OBVIOUS
<1>4. ASSUME NEW T \in SUBSET D, NEW x \in T, T \ {x} \in U
      PROVE  T \in U
  <2>1. PICK m \in {1} \cup Of(T \ {x}) : \A k \in {1} \cup Of(T \ {x}) : k <= m
    BY <1>4
  <2>2. PICK q \in Nat : q = x.term \div x.epoch
    BY <1>1
  <2>3. {1} \cup Of(T) = ({1} \cup Of(T \ {x})) \cup {q}
    BY <2>2
  <2>4. ({1} \cup Of(T \ {x})) \subseteq Nat
    BY <1>1
  <2>5. \E z \in {1} \cup Of(T) : \A k \in {1} \cup Of(T) : k <= z
    <3>1. PICK W \in SUBSET Nat : W = {1} \cup Of(T \ {x})
      BY <2>4
    <3>2. \E z \in W \cup {q} : \A k \in W \cup {q} : k <= z
      <4>1. CASE q <= m
        BY <2>1, <2>2, <3>1, <4>1
      <4>2. CASE ~(q <= m)
        <5>1. \A k \in W \cup {q} : k <= q
          BY <2>1, <2>2, <3>1, <4>2
        <5>2. QED
          BY <5>1
      <4>3. QED
        BY <4>1, <4>2
    <3>3. QED
      BY <2>3, <3>1, <3>2
  <2>6. QED
    BY <2>5
<1> HIDE DEF D, Of, U
<1>5. D \in U
  <2>1. \A T \in SUBSET D : \A x \in T : T \ {x} \in U => T \in U
    BY <1>4
  <2>2. \A T \in SUBSET D : T \in U
    BY <1>2, <1>3, <2>1, FiniteSubsets
  <2>3. QED
    BY <2>2
<1>6. Of(D) = Npers
  BY DEF Npers, D, Of
<1>7. \E m \in {1} \cup Npers : \A k \in {1} \cup Npers : k <= m
  BY <1>5, <1>6 DEF U
<1>8. ({1} \cup Npers) \subseteq Nat
  BY <1>1, <1>6 DEF Of
<1>9. MaxNper \in {1} \cup Npers /\ \A k \in {1} \cup Npers : MaxNper >= k
  <2>1. \E m \in {1} \cup Npers : \A k \in {1} \cup Npers : m >= k
    BY <1>7, <1>8
  <2>2. QED
    BY <2>1 DEF MaxNper, Max
<1>10. QED
  BY <1>8, <1>9

LEMMA OutstandingType ==
  ASSUME NEW loan \in Loan
  PROVE  Outstanding(loan) \in Int
<1>1. loan.paidTimes \in Nat /\ loan.pmt.principal \in Nat /\ loan.principal \in Nat
  BY DEF Loan, PMT
<1>2. loan.paidTimes * loan.pmt.principal \in Nat
  BY <1>1, ProductType
<1>3. QED
  BY <1>1, <1>2 DEF Outstanding

LEMMA UnpaidType ==
  ASSUME TypeOK, NEW v \in Vaults
  PROVE  UnpaidBy(v) \in Int /\ Gap(v) \in Int
<1> DEFINE f == [l \in LoanIds |-> Outstanding(loans[v][l])]
<1>1. \A l \in LoanIds : f[l] \in Int
  BY OutstandingType DEF TypeOK
<1>2. SumFunctionOnSet(f, LoanIds) \in Int
  <2> HIDE DEF f
  <2>1. QED
    BY <1>1, FiniteAssumption, SumInt
<1>3. UnpaidBy(v) \in Int
  BY <1>2 DEF UnpaidBy, SumFunction
<1>4. QED
  BY <1>3 DEF Gap, TypeOK, BorrowData

\* What a step that changes one loan and its vault's books does to the gap.
LEMMA GapMoved ==
  ASSUME TypeOK, TypeOK', NEW v \in Vaults, NEW l \in LoanIds,
         \A w \in Vaults \ {v} : loans'[w] = loans[w] /\ borrowData'[w] = borrowData[w],
         \A m \in LoanIds \ {l} : loans'[v][m] = loans[v][m]
  PROVE  /\ \A w \in Vaults \ {v} : Gap(w)' = Gap(w)
         /\ Gap(v)' = Gap(v)
              + (borrowData'[v].totalPrincipal - borrowData[v].totalPrincipal)
              + (Outstanding(loans[v][l]) - Outstanding(loans'[v][l]))
<1> DEFINE f == [m \in LoanIds |-> Outstanding(loans[v][m])]
           g == [m \in LoanIds |-> Outstanding(loans'[v][m])]
<1>1. \A m \in LoanIds : f[m] \in Int /\ g[m] \in Int
  BY OutstandingType DEF TypeOK
<1>2. \A m \in LoanIds \ {l} : g[m] = f[m]
  OBVIOUS
<1>3. /\ f[l] = Outstanding(loans[v][l]) /\ g[l] = Outstanding(loans'[v][l])
      /\ UnpaidBy(v) = SumFunctionOnSet(f, LoanIds)
      /\ UnpaidBy(v)' = SumFunctionOnSet(g, LoanIds)
  BY DEF UnpaidBy, SumFunction
<1> HIDE DEF f, g
<1>4. SumFunctionOnSet(g, LoanIds) = SumFunctionOnSet(f, LoanIds) + g[l] - f[l]
  BY <1>1, <1>2, FiniteAssumption, SumChanged
<1>5. PICK u \in Int, x \in Int, y \in Int, b \in Int, c \in Int :
        /\ u = SumFunctionOnSet(f, LoanIds) /\ x = f[l] /\ y = g[l]
        /\ b = borrowData[v].totalPrincipal /\ c = borrowData'[v].totalPrincipal
  <2>1. SumFunctionOnSet(f, LoanIds) \in Int
    BY <1>1, FiniteAssumption, SumInt
  <2>2. borrowData[v].totalPrincipal \in Int /\ borrowData'[v].totalPrincipal \in Int
    BY DEF TypeOK, BorrowData
  <2>3. QED
    BY <1>1, <2>1, <2>2
<1>6. Gap(v) = b - u /\ Gap(v)' = c - (u + y - x)
  BY <1>3, <1>4, <1>5 DEF Gap
<1>7. c - (u + y - x) = (b - u) + (c - b) + (x - y)
  OBVIOUS
<1>8. \A w \in Vaults \ {v} : Gap(w)' = Gap(w)
  BY DEF Gap, UnpaidBy
<1>9. QED
  BY <1>3, <1>5, <1>6, <1>7, <1>8

\* The last instalment leaves what dividing by nper does not bill.
LEMMA LastInstalment ==
  ASSUME NEW loan \in Loan, Shaped(loan), IsFinal(loan)
  PROVE  /\ Outstanding(loan) - loan.pmt.principal >= 0
         /\ Outstanding(loan) - loan.pmt.principal <= MaxNper - 1
<1>1. PICK k \in Nat, q \in Nat, t \in Nat, n \in Nat :
        /\ k = loan.principal /\ q = loan.pmt.principal
        /\ t = loan.paidTimes /\ n = loan.nper
  BY DEF Loan, PMT
<1>2. t + 1 = n
  BY <1>1 DEF IsFinal
<1>3. n \in Npers \ {0} /\ q = k \div n
  BY <1>1, <1>2 DEF Shaped, NoLoan
<1>4. n * q <= k /\ k < n * (q + 1)
  BY <1>3, QuotientFloor
<1>5. Outstanding(loan) = k - t * q
  BY <1>1 DEF Outstanding
<1>6. n * q = t * q + q /\ n * (q + 1) = n * q + n
  BY <1>2
<1>7. n <= MaxNper /\ MaxNper \in Nat
  BY <1>3, MostInstalments
<1>8. t * q \in Nat /\ n * q \in Nat
  BY ProductType
<1>9. QED
  BY <1>1, <1>4, <1>5, <1>6, <1>7, <1>8

\* Where no loan is of one instalment, none is paid beyond its principal.
LEMMA NeverOverpaid ==
  ASSUME NEW loan \in Loan, Shaped(loan), 1 \notin Npers
  PROVE  Outstanding(loan) >= 0
<1>1. PICK k \in Nat, q \in Nat, t \in Nat, n \in Nat :
        /\ k = loan.principal /\ q = loan.pmt.principal
        /\ t = loan.paidTimes /\ n = loan.nper
  BY DEF Loan, PMT
<1>2. Outstanding(loan) = k - t * q
  BY <1>1 DEF Outstanding
<1>3. CASE loan = NoLoan
  BY <1>1, <1>2, <1>3 DEF NoLoan
<1>4. CASE loan # NoLoan
  <2>1. n \in Nat \ {0} /\ q = k \div n /\ t < n
    BY <1>1, <1>4 DEF Shaped
  <2>2. n * q <= k
    BY <2>1, QuotientFloor
  <2>3. t * q <= n * q
    BY <2>1, ProductMonotone
  <2>4. t * q \in Nat /\ n * q \in Nat
    BY ProductType
  <2>5. QED
    BY <1>2, <2>2, <2>3, <2>4
<1>5. QED
  BY <1>3, <1>4

\* BooksMatchLoans, one vault at a time.
VaultMatched(v) ==
  /\ 1 \notin Npers \/ NeverDefaulted(v) => Gap(v) >= 0
  /\ NeverDefaulted(v) => Gap(v) <= borrowData[v].paidLoanNumber * (MaxNper - 1)

LEMMA MatchedByVault == BooksMatchLoans <=> \A v \in Vaults : VaultMatched(v)
BY DEF BooksMatchLoans, BooksCoverLoans, RoundingDustBounded, VaultMatched

\* A vault whose gap stays the same, and that counts as many repaid loans.
LEMMA GapKept ==
  ASSUME NEW v \in Vaults, VaultMatched(v), Gap(v)' = Gap(v),
         borrowData'[v].paidLoanNumber = borrowData[v].paidLoanNumber,
         repayRecord'[v].defaultTimes = repayRecord[v].defaultTimes
  PROVE  VaultMatched(v)'
BY DEF VaultMatched, NeverDefaulted

LEMMA BorrowMatched ==
  ASSUME TypeOK, TypeOK', CollateralInCustody, LoansShaped, BooksMatchLoans, BuyStep
  PROVE  BooksMatchLoans'
<1>1. PICK v \in Vaults, n \in Nfts, price \in Nat, interest \in Nat,
           nper \in Nat \ {0}, l \in LoanIds, loan \in Loan :
        /\ loan = NewLoan(n, price, interest, nper) /\ loan.pmt \in PMT
        /\ l = borrowData[v].nextLoanNumber
        /\ loans' = [loans EXCEPT ![v][l] = loan]
        /\ borrowData' = [borrowData EXCEPT ![v] =
             InstalmentBooked(LoanBooked(@, price, interest), loan.pmt)]
        /\ repayRecord' = repayRecord
  BY BorrowBooks
<1>2. loans[v][l] = NoLoan
  <2>1. borrowData[v].nextLoanNumber \in Nat
    BY DEF TypeOK, BorrowData
  <2>2. loans[v][l].collateral = {}
    BY <1>1, <2>1 DEF CollateralInCustody, FreshNumbersUnused
  <2>3. QED
    BY <2>2 DEF LoansShaped, Shaped
<1>3. PICK p \in Nat, b \in Nat :
        p = loan.pmt.principal /\ b = borrowData[v].totalPrincipal
  BY <1>1 DEF PMT, TypeOK, BorrowData
<1>4. /\ borrowData'[v].totalPrincipal = b + price - p
      /\ borrowData'[v].paidLoanNumber = borrowData[v].paidLoanNumber
  BY <1>1, <1>3 DEF InstalmentBooked, LoanBooked, TypeOK
<1>5. Outstanding(loans[v][l]) = 0 /\ Outstanding(loans'[v][l]) = price - p
  <2>1. loan.principal = price /\ loan.paidTimes = 1
    BY <1>1 DEF NewLoan
  <2>2. loans'[v][l] = loan
    BY <1>1 DEF TypeOK
  <2>3. QED
    BY <1>2, <1>3, <2>1, <2>2 DEF Outstanding, NoLoan
<1>6. /\ \A w \in Vaults \ {v} : loans'[w] = loans[w] /\ borrowData'[w] = borrowData[w]
      /\ \A m \in LoanIds \ {l} : loans'[v][m] = loans[v][m]
  BY <1>1 DEF TypeOK
<1>7. /\ \A w \in Vaults \ {v} : Gap(w)' = Gap(w)
      /\ Gap(v)' = Gap(v)
           + (borrowData'[v].totalPrincipal - borrowData[v].totalPrincipal)
           + (Outstanding(loans[v][l]) - Outstanding(loans'[v][l]))
  BY <1>6, GapMoved
<1>8. Gap(v)' = Gap(v)
  <2>1. PICK g \in Int : g = Gap(v)
    BY UnpaidType
  <2>2. Gap(v)' = g + ((b + price - p) - b) + (0 - (price - p))
    BY <1>3, <1>4, <1>5, <1>7, <2>1
  <2>3. QED
    BY <2>1, <2>2
<1>9. \A w \in Vaults : VaultMatched(w)'
  BY <1>1, <1>4, <1>6, <1>7, <1>8, MatchedByVault, GapKept
<1>10. QED
  BY <1>9 DEF BooksMatchLoans, BooksCoverLoans, RoundingDustBounded, VaultMatched

LEMMA RepayMatched ==
  ASSUME TypeOK, TypeOK', LoansShaped, BooksMatchLoans, RepayStep
  PROVE  BooksMatchLoans'
<1>1. PICK v \in Vaults, l \in LoanIds : Repay(v, l)
  BY DEF RepayStep
<1>2. PICK loan \in Loan : loan = loans[v][l] /\ Shaped(loan)
  BY DEF TypeOK, LoansShaped
<1>3. PICK p \in Nat :
        /\ p = loan.pmt.principal
        /\ borrowData'[v].totalPrincipal = borrowData[v].totalPrincipal - p
        /\ borrowData'[v].paidLoanNumber
             = borrowData[v].paidLoanNumber + IF IsFinal(loan) THEN 1 ELSE 0
        /\ \A w \in Vaults \ {v} : borrowData'[w] = borrowData[w]
        /\ loans' = [loans EXCEPT ![v][l] =
              IF IsFinal(loan) THEN NoLoan ELSE AfterInstalment(loan)]
        /\ \A w \in Vaults : repayRecord'[w].defaultTimes = repayRecord[w].defaultTimes
  BY <1>1, <1>2, RepayBooks
<1>4. /\ \A w \in Vaults \ {v} : loans'[w] = loans[w] /\ borrowData'[w] = borrowData[w]
      /\ \A m \in LoanIds \ {l} : loans'[v][m] = loans[v][m]
      /\ loans'[v][l] = IF IsFinal(loan) THEN NoLoan ELSE AfterInstalment(loan)
  BY <1>3 DEF TypeOK
<1>5. PICK g \in Int, x \in Int, y \in Int, b \in Nat, c \in Nat :
        /\ g = Gap(v) /\ x = Outstanding(loan) /\ y = Outstanding(loans'[v][l])
        /\ b = borrowData[v].totalPrincipal /\ c = borrowData[v].paidLoanNumber
  <2>1. Gap(v) \in Int /\ Outstanding(loan) \in Int /\ Outstanding(loans'[v][l]) \in Int
    BY UnpaidType, OutstandingType DEF TypeOK
  <2>2. QED
    BY <2>1 DEF TypeOK, BorrowData
<1>6. /\ \A w \in Vaults \ {v} : Gap(w)' = Gap(w)
      /\ Gap(v)' = g + ((b - p) - b) + (x - y)
  <2>1. /\ \A w \in Vaults \ {v} : Gap(w)' = Gap(w)
        /\ Gap(v)' = Gap(v)
             + (borrowData'[v].totalPrincipal - borrowData[v].totalPrincipal)
             + (Outstanding(loans[v][l]) - Outstanding(loans'[v][l]))
    BY <1>4, GapMoved
  <2>2. QED
    BY <1>2, <1>3, <1>5, <2>1
<1>7. \A w \in Vaults \ {v} : VaultMatched(w)'
  BY <1>3, <1>6, MatchedByVault, GapKept
<1>8. VaultMatched(v)'
  <2>1. CASE ~IsFinal(loan)
    <3>1. y = x - p
      <4>1. PICK k \in Nat, t \in Nat : k = loan.principal /\ t = loan.paidTimes
        BY DEF Loan
      <4>2. /\ loans'[v][l].principal = k /\ loans'[v][l].paidTimes = t + 1
            /\ loans'[v][l].pmt = loan.pmt
        BY <1>4, <2>1, <4>1 DEF AfterInstalment, Loan
      <4>3. x = k - t * p /\ y = k - (t + 1) * p
        BY <1>3, <1>5, <4>1, <4>2 DEF Outstanding
      <4>4. (t + 1) * p = t * p + p /\ t * p \in Nat
        BY ProductType
      <4>5. QED
        BY <4>3, <4>4
    <3>2. Gap(v)' = Gap(v)
      BY <1>5, <1>6, <3>1
    <3>3. borrowData'[v].paidLoanNumber = borrowData[v].paidLoanNumber
      BY <1>3, <1>5, <2>1
    <3>4. QED
      BY <1>3, <3>2, <3>3, MatchedByVault, GapKept
  <2>2. CASE IsFinal(loan)
    <3>1. y = 0
      BY <1>4, <1>5, <2>2 DEF Outstanding, NoLoan
    <3>2. x - p >= 0 /\ x - p <= MaxNper - 1
      BY <1>2, <1>3, <1>5, <2>2, LastInstalment
    <3>3. Gap(v)' = g + (x - p)
      BY <1>6, <3>1
    <3>4. borrowData'[v].paidLoanNumber = c + 1
      BY <1>3, <1>5, <2>2
    <3>5. NeverDefaulted(v)' = NeverDefaulted(v)
      BY <1>3 DEF NeverDefaulted
    <3>6. /\ 1 \notin Npers \/ NeverDefaulted(v) => g >= 0
          /\ NeverDefaulted(v) => g <= c * (MaxNper - 1)
      BY <1>5, MatchedByVault DEF VaultMatched
    <3>7. MaxNper \in Nat
      BY MostInstalments
    <3>8. (c + 1) * (MaxNper - 1) = c * (MaxNper - 1) + (MaxNper - 1)
      BY <3>7
    <3>9. c * (MaxNper - 1) \in Int
      BY <3>7
    <3>10. NeverDefaulted(v) => g + (x - p) <= (c + 1) * (MaxNper - 1)
      BY <3>2, <3>6, <3>7, <3>8, <3>9
    <3>11. 1 \notin Npers \/ NeverDefaulted(v) => g + (x - p) >= 0
      BY <3>2, <3>6
    <3>12. QED
      BY <3>3, <3>4, <3>5, <3>10, <3>11 DEF VaultMatched
  <2>3. QED
    BY <2>1, <2>2
<1>9. \A w \in Vaults : VaultMatched(w)'
  BY <1>7, <1>8
<1>10. QED
  BY <1>9 DEF BooksMatchLoans, BooksCoverLoans, RoundingDustBounded, VaultMatched

LEMMA LiquidateMatched ==
  ASSUME TypeOK, TypeOK', LoansShaped, BooksMatchLoans, LiquidateStep
  PROVE  BooksMatchLoans'
<1>1. PICK v \in Vaults, l \in LoanIds : Liquidate(v, l)
  BY DEF LiquidateStep
<1>2. PICK loan \in Loan : loan = loans[v][l] /\ Shaped(loan)
  BY DEF TypeOK, LoansShaped
<1>3. /\ borrowData' = borrowData /\ loans' = [loans EXCEPT ![v][l] = NoLoan]
      /\ ~NeverDefaulted(v)'
      /\ \A w \in Vaults \ {v} : repayRecord'[w] = repayRecord[w]
  BY <1>1, LiquidateBooks
<1>4. /\ \A w \in Vaults \ {v} : loans'[w] = loans[w] /\ borrowData'[w] = borrowData[w]
      /\ \A m \in LoanIds \ {l} : loans'[v][m] = loans[v][m]
      /\ loans'[v][l] = NoLoan
  BY <1>3 DEF TypeOK
<1>5. /\ \A w \in Vaults \ {v} : Gap(w)' = Gap(w)
      /\ Gap(v)' = Gap(v)
           + (borrowData'[v].totalPrincipal - borrowData[v].totalPrincipal)
           + (Outstanding(loans[v][l]) - Outstanding(loans'[v][l]))
  BY <1>4, GapMoved
<1>6. PICK g \in Int, x \in Int, b \in Nat :
        g = Gap(v) /\ x = Outstanding(loan) /\ b = borrowData[v].totalPrincipal
  <2>1. Gap(v) \in Int /\ Outstanding(loan) \in Int
    BY UnpaidType, OutstandingType
  <2>2. QED
    BY <2>1 DEF TypeOK, BorrowData
<1>7. Outstanding(loans'[v][l]) = 0
  BY <1>4 DEF Outstanding, NoLoan
<1>8. Gap(v)' = g + x
  BY <1>2, <1>3, <1>5, <1>6, <1>7
<1>9. VaultMatched(v)'
  <2>1. 1 \notin Npers => g >= 0 /\ x >= 0
    BY <1>2, <1>6, MatchedByVault, NeverOverpaid DEF VaultMatched
  <2>2. QED
    BY <1>3, <1>8, <2>1 DEF VaultMatched
<1>10. \A w \in Vaults \ {v} : VaultMatched(w)'
  BY <1>3, <1>4, <1>5, MatchedByVault, GapKept
<1>11. \A w \in Vaults : VaultMatched(w)'
  BY <1>9, <1>10
<1>12. QED
  BY <1>11 DEF BooksMatchLoans, BooksCoverLoans, RoundingDustBounded, VaultMatched

LEMMA NextMatched ==
  /\ TypeOK /\ TypeOK' /\ CollateralInCustody /\ LoansShaped /\ BooksMatchLoans
  /\ [Next]_vars
  => BooksMatchLoans'
<1>1. SUFFICES ASSUME TypeOK, TypeOK', CollateralInCustody, LoansShaped,
                      BooksMatchLoans, [Next]_vars
               PROVE  BooksMatchLoans'
  OBVIOUS
<1>2. CASE \/ NftStep \/ VaultMoneyStep \/ GiftStep \/ DepositorStep \/ MarketStep
           \/ UNCHANGED vars
  <2>1. UNCHANGED bookVars
    BY <1>2, BooksUntouched
  <2>2. QED
    BY <1>1, <2>1
    DEF bookVars, BooksMatchLoans, BooksCoverLoans, RoundingDustBounded,
        NeverDefaulted, Gap, UnpaidBy
<1>3. QED
  BY <1>1, <1>2, BorrowMatched, RepayMatched, LiquidateMatched DEF Next

\* However loans are taken, paid and liquidated, a vault's books cover its
\* open loans (until its first default, where loans of one instalment are
\* allowed), and until that default they hold nothing more than what
\* dividing each repaid loan by its number of instalments left unbilled.
THEOREM BooksStayMatched == Spec => []BooksMatchLoans
<1>1. Init => BooksMatchLoans
  <2>1. SUFFICES ASSUME Init, NEW v \in Vaults
                 PROVE  Gap(v) = 0 /\ borrowData[v].paidLoanNumber * (MaxNper - 1) = 0
    BY DEF BooksMatchLoans, BooksCoverLoans, RoundingDustBounded
  <2> DEFINE f == [l \in LoanIds |-> Outstanding(loans[v][l])]
  <2>2. \A l \in LoanIds : f[l] = 0
    BY <2>1 DEF Init, Outstanding, NoLoan
  <2>3. SumFunctionOnSet(f, LoanIds) = Cardinality(LoanIds) * 0
    <3> HIDE DEF f
    <3>1. QED
      BY <2>2, FiniteAssumption, SumOfEqual
  <2>4. Cardinality(LoanIds) * 0 = 0
    BY FiniteAssumption, FS_CardinalityType
  <2>5. UnpaidBy(v) = 0
    BY <2>3, <2>4 DEF UnpaidBy, SumFunction
  <2>6. /\ borrowData[v].totalPrincipal = 0 /\ borrowData[v].paidLoanNumber = 0
    BY <2>1 DEF Init
  <2>7. QED
    BY <2>5, <2>6, MostInstalments DEF Gap
<1>2. QED
  BY <1>1, InitShaped, NextShaped, NextMatched, TypeCorrect, CustodyKept, PTL DEF Spec

-----------------------------------------------------------------------------
(***************************************************************************)
(* Repayments.  For principal, interest and fee alike: a vault's books     *)
(* cover the instalments its open loans still have to pay.                 *)
(***************************************************************************)
Kinds == {"principal", "interest", "fee"}
Part(pmt, x) ==
  IF x = "principal" THEN pmt.principal ELSE IF x = "interest" THEN pmt.interest ELSE pmt.fee
Booked(v, x) ==
  IF x = "principal" THEN borrowData[v].totalPrincipal
  ELSE IF x = "interest" THEN borrowData[v].totalInterest ELSE borrowData[v].totalFee

\* What a loan has to pay yet.  (Less than nothing, when a loan of one
\* instalment was paid again.)
Dues(loan, x) == (loan.nper - loan.paidTimes) * Part(loan.pmt, x)
DuesOf(v, x) == SumFunction([l \in LoanIds |-> Dues(loans[v][l], x)])
Spare(v, x) == Booked(v, x) - DuesOf(v, x)

DuesBooked == \A v \in Vaults, x \in Kinds : NeverDefaulted(v) => Spare(v, x) >= 0

LEMMA DuesType ==
  ASSUME NEW loan \in Loan, NEW x \in Kinds
  PROVE  Part(loan.pmt, x) \in Nat /\ Dues(loan, x) \in Int
<1>1. loan.nper \in Nat /\ loan.paidTimes \in Nat /\ loan.pmt \in PMT
  BY DEF Loan
<1>2. PICK q \in Nat, k \in Int : q = Part(loan.pmt, x) /\ k = loan.nper - loan.paidTimes
  BY <1>1 DEF Part, PMT
<1>3. k * q \in Int
  OBVIOUS
<1>4. QED
  BY <1>2, <1>3 DEF Dues

LEMMA DuesOfType ==
  ASSUME TypeOK, NEW v \in Vaults, NEW x \in Kinds
  PROVE  DuesOf(v, x) \in Int /\ Booked(v, x) \in Nat
<1> DEFINE f == [l \in LoanIds |-> Dues(loans[v][l], x)]
<1>1. \A l \in LoanIds : f[l] \in Int
  BY DuesType DEF TypeOK
<1>2. SumFunctionOnSet(f, LoanIds) \in Int
  <2> HIDE DEF f
  <2>1. QED
    BY <1>1, FiniteAssumption, SumInt
<1>3. DuesOf(v, x) \in Int
  BY <1>2 DEF DuesOf, SumFunction
<1>4. QED
  BY <1>3 DEF Booked, TypeOK, BorrowData

\* What a step that changes one loan does to what its vault has to pay.
LEMMA DuesMoved ==
  ASSUME TypeOK, TypeOK', NEW v \in Vaults, NEW l \in LoanIds, NEW x \in Kinds,
         \A m \in LoanIds \ {l} : loans'[v][m] = loans[v][m]
  PROVE  DuesOf(v, x)' = DuesOf(v, x) + Dues(loans'[v][l], x) - Dues(loans[v][l], x)
<1> DEFINE f == [m \in LoanIds |-> Dues(loans[v][m], x)]
           g == [m \in LoanIds |-> Dues(loans'[v][m], x)]
<1>1. \A m \in LoanIds : f[m] \in Int /\ g[m] \in Int
  BY DuesType DEF TypeOK
<1>2. \A m \in LoanIds \ {l} : g[m] = f[m]
  OBVIOUS
<1>3. /\ f[l] = Dues(loans[v][l], x) /\ g[l] = Dues(loans'[v][l], x)
      /\ DuesOf(v, x) = SumFunctionOnSet(f, LoanIds)
      /\ DuesOf(v, x)' = SumFunctionOnSet(g, LoanIds)
  BY DEF DuesOf, SumFunction
<1> HIDE DEF f, g
<1>4. SumFunctionOnSet(g, LoanIds) = SumFunctionOnSet(f, LoanIds) + g[l] - f[l]
  BY <1>1, <1>2, FiniteAssumption, SumChanged
<1>5. QED
  BY <1>3, <1>4

\* A purchase books at least as much as the instalments of the loan come to.
LEMMA BorrowDues ==
  ASSUME TypeOK, TypeOK', CollateralInCustody, LoansShaped, DuesBooked, BuyStep
  PROVE  DuesBooked'
<1>1. PICK v \in Vaults, n \in Nfts, price \in Nat, interest \in Nat,
           nper \in Nat \ {0}, l \in LoanIds, loan \in Loan :
        /\ loan = NewLoan(n, price, interest, nper) /\ loan.pmt \in PMT
        /\ l = borrowData[v].nextLoanNumber
        /\ loans' = [loans EXCEPT ![v][l] = loan]
        /\ borrowData' = [borrowData EXCEPT ![v] =
             InstalmentBooked(LoanBooked(@, price, interest), loan.pmt)]
        /\ repayRecord' = repayRecord
  BY BorrowBooks
<1>2. loans[v][l] = NoLoan
  <2>1. borrowData[v].nextLoanNumber \in Nat
    BY DEF TypeOK, BorrowData
  <2>2. loans[v][l].collateral = {}
    BY <1>1, <2>1 DEF CollateralInCustody, FreshNumbersUnused
  <2>3. QED
    BY <2>2 DEF LoansShaped, Shaped
<1>3. SUFFICES ASSUME NEW w \in Vaults, NEW x \in Kinds, NeverDefaulted(w)'
               PROVE  Spare(w, x)' >= 0
  BY DEF DuesBooked
<1>4. NeverDefaulted(w)
  BY <1>1, <1>3 DEF NeverDefaulted
<1>5. PICK b \in Nat, d \in Int : b = Booked(w, x) /\ d = DuesOf(w, x) /\ b - d >= 0
  BY <1>4, DuesOfType DEF DuesBooked, Spare
<1>6. CASE w # v
  <2>1. loans'[w] = loans[w] /\ borrowData'[w] = borrowData[w]
    BY <1>1, <1>6 DEF TypeOK
  <2>2. Spare(w, x)' = Spare(w, x)
    BY <2>1 DEF Spare, Booked, DuesOf
  <2>3. QED
    BY <1>5, <2>2 DEF Spare
<1>7. CASE w = v
  <2>1. PICK t \in Nat, p \in Nat :
          p = Part(loan.pmt, x) /\ nper * p <= t /\ Booked(v, x)' = b + t - p
    <3>1. PICK bd \in BorrowData : bd = borrowData[v]
      BY DEF TypeOK
    <3>2. PICK added, after :
            /\ added = LoanBooked(bd, price, interest)
            /\ after = InstalmentBooked(added, loan.pmt)
      OBVIOUS
    <3>3. borrowData'[v] = after
      BY <1>1, <3>1, <3>2 DEF TypeOK
    <3>4. PICK fee \in Nat : fee = PercentMul(price, TakeRate)
      BY FeeType
    <3>5. /\ after.totalPrincipal = bd.totalPrincipal + price - loan.pmt.principal
          /\ after.totalInterest = bd.totalInterest + interest - loan.pmt.interest
          /\ after.totalFee = bd.totalFee + fee - loan.pmt.fee
      <4>1. /\ added.totalPrincipal = bd.totalPrincipal + price
            /\ added.totalInterest = bd.totalInterest + interest
            /\ added.totalFee = bd.totalFee + fee
        BY <3>2, <3>4 DEF LoanBooked
      <4>2. /\ after.totalPrincipal = added.totalPrincipal - loan.pmt.principal
            /\ after.totalInterest = added.totalInterest - loan.pmt.interest
            /\ after.totalFee = added.totalFee - loan.pmt.fee
        BY <3>2 DEF InstalmentBooked
      <4>3. /\ bd.totalPrincipal \in Nat /\ bd.totalInterest \in Nat /\ bd.totalFee \in Nat
            /\ loan.pmt.principal \in Nat /\ loan.pmt.interest \in Nat /\ loan.pmt.fee \in Nat
        BY <1>1 DEF BorrowData, PMT
      <4>4. QED
        BY <4>1, <4>2, <4>3
    <3>6. /\ loan.pmt.principal = price \div nper /\ loan.pmt.interest = interest \div nper
          /\ loan.pmt.fee = fee \div nper
      BY <1>1, <3>4 DEF NewLoan
    <3>7. \A t \in Nat : t \div nper \in Nat /\ nper * (t \div nper) <= t
      BY QuotientFloor
    <3>8. CASE x = "principal"
      BY <1>5, <1>7, <3>1, <3>3, <3>5, <3>6, <3>7, <3>8 DEF Booked, Part
    <3>9. CASE x = "interest"
      BY <1>5, <1>7, <3>1, <3>3, <3>5, <3>6, <3>7, <3>9 DEF Booked, Part
    <3>10. CASE x = "fee"
      BY <1>5, <1>7, <3>1, <3>3, <3>5, <3>6, <3>7, <3>10 DEF Booked, Part
    <3>11. QED
      BY <3>8, <3>9, <3>10 DEF Kinds
  <2>2. Dues(loans'[v][l], x) = (nper - 1) * p
    <3>1. loans'[v][l] = loan
      BY <1>1 DEF TypeOK
    <3>2. loan.nper = nper /\ loan.paidTimes = 1
      BY <1>1 DEF NewLoan
    <3>3. QED
      BY <2>1, <3>1, <3>2 DEF Dues
  <2>3. Dues(loans[v][l], x) = 0
    BY <1>2 DEF Dues, NoLoan, Part
  <2>4. \A m \in LoanIds \ {l} : loans'[v][m] = loans[v][m]
    BY <1>1 DEF TypeOK
  <2>5. DuesOf(v, x)' = d + (nper - 1) * p
    <3>1. DuesOf(v, x)' = DuesOf(v, x) + Dues(loans'[v][l], x) - Dues(loans[v][l], x)
      BY <2>4, DuesMoved
    <3>2. PICK k \in Int : k = (nper - 1) * p
      OBVIOUS
    <3>3. QED
      BY <1>5, <1>7, <2>2, <2>3, <3>1, <3>2
  <2>6. (nper - 1) * p = nper * p - p /\ nper * p \in Nat
    BY ProductType
  <2>7. PICK k \in Nat : k = nper * p
    BY <2>6
  <2>8. b + t - p - (d + (k - p)) >= 0
    BY <1>5, <2>1, <2>7
  <2>9. Spare(v, x)' = b + t - p - (d + (k - p))
    BY <2>1, <2>5, <2>6, <2>7 DEF Spare
  <2>10. QED
    BY <1>7, <2>8, <2>9
<1>8. QED
  BY <1>6, <1>7

\* A repayment takes the same from the books and from the dues.
LEMMA RepayDues ==
  ASSUME TypeOK, TypeOK', DuesBooked, RepayStep
  PROVE  DuesBooked'
<1>1. PICK v \in Vaults, l \in LoanIds : Repay(v, l)
  BY DEF RepayStep
<1>2. PICK loan \in Loan : loan = loans[v][l]
  BY DEF TypeOK
<1>3. /\ borrowData' = [borrowData EXCEPT ![v] =
           IF IsFinal(loan) THEN PaidLoanCounted(InstalmentBooked(@, loan.pmt))
           ELSE InstalmentBooked(@, loan.pmt)]
      /\ loans' = [loans EXCEPT ![v][l] =
           IF IsFinal(loan) THEN NoLoan ELSE AfterInstalment(loan)]
      /\ repayRecord' = [repayRecord EXCEPT ![v].repaidTimes =
           IF IsFinal(loan) THEN @ + 1 ELSE @]
  BY <1>1, <1>2 DEF Repay
<1>4. SUFFICES ASSUME NEW w \in Vaults, NEW x \in Kinds, NeverDefaulted(w)'
               PROVE  Spare(w, x)' >= 0
  BY DEF DuesBooked
<1>5. NeverDefaulted(w)
  BY <1>3, <1>4 DEF NeverDefaulted, TypeOK
<1>6. PICK b \in Nat, d \in Int : b = Booked(w, x) /\ d = DuesOf(w, x) /\ b - d >= 0
  BY <1>5, DuesOfType DEF DuesBooked, Spare
<1>7. CASE w # v
  <2>1. loans'[w] = loans[w] /\ borrowData'[w] = borrowData[w]
    BY <1>3, <1>7 DEF TypeOK
  <2>2. Spare(w, x)' = Spare(w, x)
    BY <2>1 DEF Spare, Booked, DuesOf
  <2>3. QED
    BY <1>6, <2>2 DEF Spare
<1>8. CASE w = v
  <2>1. PICK p \in Nat : p = Part(loan.pmt, x)
    BY DuesType
  <2>2. Booked(v, x)' = b - p
    <3>1. PICK bd \in BorrowData : bd = borrowData[v]
      BY DEF TypeOK
    <3>2. PICK after : after = borrowData'[v]
      OBVIOUS
    <3>3. /\ after.totalPrincipal = bd.totalPrincipal - loan.pmt.principal
          /\ after.totalInterest = bd.totalInterest - loan.pmt.interest
          /\ after.totalFee = bd.totalFee - loan.pmt.fee
      BY <1>3, <3>1, <3>2 DEF InstalmentBooked, PaidLoanCounted, TypeOK
    <3>4. QED
      BY <1>6, <1>8, <2>1, <3>1, <3>2, <3>3 DEF Booked, Part
  <2>3. PICK y \in Int : y = Dues(loan, x)
    BY DuesType
  <2>4. Dues(loans'[v][l], x) = y - p
    <3>1. PICK n \in Nat, t \in Nat : n = loan.nper /\ t = loan.paidTimes
      BY DEF Loan
    <3>2. y = (n - t) * p
      BY <2>1, <2>3, <3>1 DEF Dues
    <3>3. CASE IsFinal(loan)
      <4>1. n = t + 1
        BY <3>1, <3>3 DEF IsFinal
      <4>2. y = p
        BY <3>2, <4>1
      <4>3. loans'[v][l] = NoLoan
        BY <1>3, <3>3 DEF TypeOK
      <4>4. QED
        BY <4>2, <4>3 DEF Dues, NoLoan, Part
    <3>4. CASE ~IsFinal(loan)
      <4>1. loans'[v][l] = AfterInstalment(loan)
        BY <1>3, <3>4 DEF TypeOK
      <4>2. PICK after : after = AfterInstalment(loan)
        OBVIOUS
      <4>3. after.nper = n /\ after.paidTimes = t + 1 /\ after.pmt = loan.pmt
        BY <3>1, <4>2 DEF AfterInstalment, Loan
      <4>4. Dues(after, x) = (n - (t + 1)) * p
        BY <2>1, <4>3 DEF Dues
      <4>5. (n - (t + 1)) * p = (n - t) * p - p
        OBVIOUS
      <4>6. QED
        BY <3>2, <4>1, <4>2, <4>4, <4>5
    <3>5. QED
      BY <3>3, <3>4
  <2>5. \A m \in LoanIds \ {l} : loans'[v][m] = loans[v][m]
    BY <1>3 DEF TypeOK
  <2>6. DuesOf(v, x)' = DuesOf(v, x) + Dues(loans'[v][l], x) - Dues(loans[v][l], x)
    BY <2>5, DuesMoved
  <2>7. DuesOf(v, x)' = d - p
    BY <1>2, <1>6, <1>8, <2>3, <2>4, <2>6
  <2>8. QED
    BY <1>6, <1>8, <2>2, <2>7 DEF Spare
<1>9. QED
  BY <1>7, <1>8

LEMMA LiquidateDues ==
  ASSUME TypeOK, DuesBooked, LiquidateStep
  PROVE  DuesBooked'
<1>1. PICK v \in Vaults, l \in LoanIds : Liquidate(v, l)
  BY DEF LiquidateStep
<1>2. /\ borrowData' = borrowData /\ loans' = [loans EXCEPT ![v][l] = NoLoan]
      /\ ~NeverDefaulted(v)'
      /\ \A w \in Vaults \ {v} : repayRecord'[w] = repayRecord[w]
  BY <1>1, LiquidateBooks
<1>3. \A w \in Vaults \ {v} : loans'[w] = loans[w] /\ borrowData'[w] = borrowData[w]
  BY <1>2 DEF TypeOK
<1>4. SUFFICES ASSUME NEW w \in Vaults, NEW x \in Kinds, NeverDefaulted(w)'
               PROVE  Spare(w, x)' >= 0
  BY DEF DuesBooked
<1>5. w # v
  BY <1>2, <1>4
<1>6. Spare(w, x)' = Spare(w, x)
  BY <1>3, <1>5 DEF Spare, Booked, DuesOf
<1>7. QED
  BY <1>2, <1>4, <1>5, <1>6 DEF DuesBooked, NeverDefaulted

LEMMA InitDues == Init => DuesBooked
<1>1. SUFFICES ASSUME Init, NEW v \in Vaults, NEW x \in Kinds
               PROVE  Spare(v, x) = 0
  BY DEF DuesBooked
<1> DEFINE f == [l \in LoanIds |-> Dues(loans[v][l], x)]
<1>2. \A l \in LoanIds : f[l] = 0
  BY <1>1 DEF Init, Dues, NoLoan, Part
<1>3. SumFunctionOnSet(f, LoanIds) = Cardinality(LoanIds) * 0
  <2> HIDE DEF f
  <2>1. QED
    BY <1>2, FiniteAssumption, SumOfEqual
<1>4. Cardinality(LoanIds) * 0 = 0
  BY FiniteAssumption, FS_CardinalityType
<1>5. DuesOf(v, x) = 0
  BY <1>3, <1>4 DEF DuesOf, SumFunction
<1>6. Booked(v, x) = 0
  BY <1>1 DEF Init, Booked
<1>7. QED
  BY <1>5, <1>6 DEF Spare

\* The collection's interest, like its debt, is the sum of the vaults'.
InterestBooks == [v \in Vaults |-> borrowData[v].totalInterest]
InterestIsSumOfBooks ==
  (\A v \in Vaults : NeverDefaulted(v))
    => borrowState.totalInterest = SumFunction(InterestBooks)

LEMMA InterestMoved ==
  ASSUME TypeOK, TypeOK', InterestIsSumOfBooks, NEW v \in Vaults,
         \A w \in Vaults : repayRecord'[w].defaultTimes = repayRecord[w].defaultTimes,
         \A w \in Vaults \ {v} : borrowData'[w] = borrowData[w],
         borrowState'.totalInterest - borrowState.totalInterest
           = borrowData'[v].totalInterest - borrowData[v].totalInterest
  PROVE  InterestIsSumOfBooks'
<1>1. SUFFICES ASSUME \A w \in Vaults : NeverDefaulted(w)'
               PROVE  borrowState'.totalInterest = SumFunction(InterestBooks')
  BY DEF InterestIsSumOfBooks
<1>2. borrowState.totalInterest = SumFunction(InterestBooks)
  BY <1>1 DEF InterestIsSumOfBooks, NeverDefaulted
<1>3. /\ DOMAIN InterestBooks = Vaults /\ DOMAIN InterestBooks' = Vaults
      /\ \A w \in Vaults : InterestBooks[w] \in Int /\ InterestBooks'[w] \in Int
      /\ \A w \in Vaults \ {v} : InterestBooks'[w] = InterestBooks[w]
      /\ InterestBooks[v] = borrowData[v].totalInterest
      /\ InterestBooks'[v] = borrowData'[v].totalInterest
  BY DEF InterestBooks, TypeOK, BorrowData
<1>4. /\ SumFunction(InterestBooks) = SumFunctionOnSet(InterestBooks, Vaults)
      /\ SumFunction(InterestBooks') = SumFunctionOnSet(InterestBooks', Vaults)
  BY <1>3 DEF SumFunction
<1>5. SumFunctionOnSet(InterestBooks', Vaults)
        = SumFunctionOnSet(InterestBooks, Vaults) + InterestBooks'[v] - InterestBooks[v]
  BY <1>3, FiniteAssumption, SumChanged
<1>6. PICK d \in Int, e \in Int, x \in Int, y \in Int :
        /\ d = borrowState.totalInterest /\ e = borrowState'.totalInterest
        /\ x = InterestBooks[v] /\ y = InterestBooks'[v]
  BY <1>3 DEF TypeOK, BorrowState
<1>7. e - d = y - x
  BY <1>3, <1>6
<1>8. SumFunctionOnSet(InterestBooks', Vaults) = d + y - x
  BY <1>2, <1>4, <1>5, <1>6
<1>9. QED
  BY <1>4, <1>6, <1>7, <1>8

LEMMA NextInterest ==
  TypeOK /\ TypeOK' /\ InterestIsSumOfBooks /\ [Next]_vars => InterestIsSumOfBooks'
<1>1. SUFFICES ASSUME TypeOK, TypeOK', InterestIsSumOfBooks, [Next]_vars
               PROVE  InterestIsSumOfBooks'
  OBVIOUS
<1>2. CASE BuyStep
  <2>1. PICK v \in Vaults, price \in Nat, interest \in Nat, loan \in Loan :
          /\ loan.pmt \in PMT /\ loan.pmt.interest <= interest
          /\ borrowData' = [borrowData EXCEPT ![v] =
               InstalmentBooked(LoanBooked(@, price, interest), loan.pmt)]
          /\ borrowState' = DebtReduced(
               DebtAdded(borrowState, price, interest, conf.incomeRatio),
               loan.pmt, conf.incomeRatio)
          /\ repayRecord' = repayRecord
    BY <1>1, <1>2, BorrowBooks
  <2>2. PICK p \in Nat : p = loan.pmt.interest
    BY <2>1 DEF PMT
  <2>3. PICK d \in Nat, b \in Nat :
          d = borrowState.totalInterest /\ b = borrowData[v].totalInterest
    BY <1>1 DEF TypeOK, BorrowState, BorrowData
  <2>4. borrowState'.totalInterest = d + interest - p
    BY <2>1, <2>2, <2>3 DEF DebtReduced, DebtAdded, SubOrZero
  <2>5. borrowData'[v].totalInterest = b + interest - p
    BY <1>1, <2>1, <2>2, <2>3 DEF InstalmentBooked, LoanBooked, TypeOK
  <2>6. \A w \in Vaults \ {v} : borrowData'[w] = borrowData[w]
    BY <1>1, <2>1 DEF TypeOK
  <2>7. borrowState'.totalInterest - borrowState.totalInterest
          = borrowData'[v].totalInterest - borrowData[v].totalInterest
    BY <2>3, <2>4, <2>5
  <2>8. QED
    BY <1>1, <2>1, <2>6, <2>7, InterestMoved
<1>3. CASE RepayStep
  <2>1. PICK v \in Vaults, l \in LoanIds : Repay(v, l)
    BY <1>3 DEF RepayStep
  <2>2. PICK loan \in Loan : loan = loans[v][l]
    BY <1>1 DEF TypeOK
  <2>3. PICK p \in Nat : p = loan.pmt.interest
    BY DEF Loan, PMT
  <2>4. PICK d \in Nat, b \in Nat :
          d = borrowState.totalInterest /\ b = borrowData[v].totalInterest
    BY <1>1 DEF TypeOK, BorrowState, BorrowData
  <2>5. /\ borrowState' = DebtReduced(borrowState, loan.pmt, loan.incomeRatio)
        /\ borrowData' = [borrowData EXCEPT ![v] =
             IF IsFinal(loan) THEN PaidLoanCounted(InstalmentBooked(@, loan.pmt))
             ELSE InstalmentBooked(@, loan.pmt)]
        /\ repayRecord' = [repayRecord EXCEPT ![v].repaidTimes =
             IF IsFinal(loan) THEN @ + 1 ELSE @]
        /\ d >= p
    BY <2>1, <2>2, <2>3, <2>4 DEF Repay, RepayAccepted
  <2>6. borrowState'.totalInterest = d - p
    BY <2>3, <2>4, <2>5 DEF DebtReduced, SubOrZero
  <2>7. borrowData'[v].totalInterest = b - p
    BY <1>1, <2>3, <2>4, <2>5 DEF InstalmentBooked, PaidLoanCounted, TypeOK
  <2>8. /\ \A w \in Vaults \ {v} : borrowData'[w] = borrowData[w]
        /\ \A w \in Vaults : repayRecord'[w].defaultTimes = repayRecord[w].defaultTimes
    BY <1>1, <2>5 DEF TypeOK
  <2>9. borrowState'.totalInterest - borrowState.totalInterest
          = borrowData'[v].totalInterest - borrowData[v].totalInterest
    BY <2>4, <2>6, <2>7
  <2>10. QED
    BY <1>1, <2>8, <2>9, InterestMoved
<1>4. CASE LiquidateStep
  BY <1>1, <1>4, LiquidateBooks DEF LiquidateStep, InterestIsSumOfBooks
<1>5. CASE \/ NftStep \/ VaultMoneyStep \/ GiftStep \/ DepositorStep \/ MarketStep
           \/ UNCHANGED vars
  BY <1>1, <1>5, BooksUntouched DEF bookVars, InterestIsSumOfBooks, NeverDefaulted, InterestBooks
<1>6. QED
  BY <1>1, <1>2, <1>3, <1>4, <1>5 DEF Next

LEMMA InitInterest == Init => InterestIsSumOfBooks
<1>1. SUFFICES ASSUME Init
               PROVE  borrowState.totalInterest = SumFunction(InterestBooks)
  BY DEF InterestIsSumOfBooks
<1>2. \A v \in Vaults : InterestBooks[v] = 0
  BY <1>1 DEF Init, InterestBooks
<1>3. SumFunctionOnSet(InterestBooks, Vaults) = Cardinality(Vaults) * 0
  BY <1>2, FiniteAssumption, SumOfEqual
<1>4. Cardinality(Vaults) * 0 = 0
  BY FiniteAssumption, FS_CardinalityType
<1>5. QED
  BY <1>1, <1>3, <1>4 DEF SumFunction, InterestBooks, Init

\* Books that cover all dues cover the next instalment of every loan.
LEMMA InstalmentCovered ==
  ASSUME TypeOK, LoansShaped, DuesBooked, NEW v \in Vaults, NEW l \in LoanIds, NEW x \in Kinds,
         NeverDefaulted(v), \A m \in LoanIds : loans[v][m].nper # 1, Live(v, l)
  PROVE  Booked(v, x) >= Part(loans[v][l].pmt, x)
<1> DEFINE f == [m \in LoanIds |-> Dues(loans[v][m], x)]
<1>1. ASSUME NEW m \in LoanIds
      PROVE  /\ Dues(loans[v][m], x) \in Nat
             /\ Live(v, m) => Dues(loans[v][m], x) >= Part(loans[v][m].pmt, x)
  <2>1. PICK loan \in Loan : loan = loans[v][m] /\ Shaped(loan) /\ loan.nper # 1
    BY DEF TypeOK, LoansShaped
  <2>2. PICK n \in Nat, t \in Nat, q \in Nat :
          n = loan.nper /\ t = loan.paidTimes /\ q = Part(loan.pmt, x)
    BY DuesType DEF Loan
  <2>3. CASE loan = NoLoan
    BY <2>1, <2>3 DEF NoLoan, Dues, Part, Live
  <2>4. CASE loan # NoLoan
    <3>1. t < n
      BY <2>1, <2>2, <2>4 DEF Shaped
    <3>2. PICK k \in Nat : k + 1 = n - t
      BY <3>1
    <3>3. Dues(loan, x) = (k + 1) * q
      BY <2>2, <3>2 DEF Dues
    <3>4. (k + 1) * q = k * q + q /\ k * q \in Nat
      BY ProductType
    <3>5. QED
      BY <2>1, <2>2, <3>3, <3>4
  <2>5. QED
    BY <2>3, <2>4
<1>2. \A m \in LoanIds : f[m] \in Nat
  BY <1>1
<1>3. /\ f[l] = Dues(loans[v][l], x) /\ DuesOf(v, x) = SumFunctionOnSet(f, LoanIds)
  BY DEF DuesOf, SumFunction
<1> HIDE DEF f
<1>4. f[l] <= SumFunctionOnSet(f, LoanIds)
  BY <1>2, FiniteAssumption, SumCovers
<1>5. PICK y \in Nat, d \in Int, b \in Nat, p \in Nat :
        /\ y = f[l] /\ d = DuesOf(v, x) /\ b = Booked(v, x) /\ p = Part(loans[v][l].pmt, x)
  BY <1>2, DuesOfType, DuesType DEF TypeOK
<1>6. y <= d /\ p <= y /\ b - d >= 0
  BY <1>1, <1>3, <1>4, <1>5 DEF DuesBooked, Spare
<1>7. QED
  BY <1>5, <1>6

\* The collection's totals cover those of each of its vaults.
LEMMA VaultCovered ==
  ASSUME TypeOK, DebtIsSumOfBooks, InterestIsSumOfBooks, NEW v \in Vaults,
         \A w \in Vaults : NeverDefaulted(w)
  PROVE  /\ borrowState.totalDebt >= borrowData[v].totalPrincipal
         /\ borrowState.totalInterest >= borrowData[v].totalInterest
<1>1. /\ \A w \in Vaults : Books[w] \in Nat /\ InterestBooks[w] \in Nat
      /\ DOMAIN Books = Vaults /\ DOMAIN InterestBooks = Vaults
      /\ Books[v] = borrowData[v].totalPrincipal
      /\ InterestBooks[v] = borrowData[v].totalInterest
  BY DEF Books, InterestBooks, TypeOK, BorrowData
<1>2. /\ Books[v] <= SumFunctionOnSet(Books, Vaults)
      /\ InterestBooks[v] <= SumFunctionOnSet(InterestBooks, Vaults)
  BY <1>1, FiniteAssumption, SumCovers
<1>3. /\ borrowState.totalDebt = SumFunctionOnSet(Books, Vaults)
      /\ borrowState.totalInterest = SumFunctionOnSet(InterestBooks, Vaults)
  BY <1>1 DEF DebtIsSumOfBooks, InterestIsSumOfBooks, SumFunction
<1>4. PICK a \in Nat, b \in Nat : a = Books[v] /\ b = InterestBooks[v]
  BY <1>1
<1>5. PICK c \in Nat, d \in Nat : c = borrowState.totalDebt /\ d = borrowState.totalInterest
  BY DEF TypeOK, BorrowState
<1>6. a <= c /\ b <= d
  BY <1>2, <1>3, <1>4, <1>5
<1>7. QED
  BY <1>1, <1>4, <1>5, <1>6

\* Until a vault of the collection defaults, repay never refuses the next
\* instalment of an open loan (if there is one to pay, and but for the loans
\* of a vault that has one of a single instalment), however many vaults and
\* loans there are and whatever was bought and repaid before.
THEOREM RepaymentsNeverRefused == Spec => []RepaymentsAccepted
<1>1. TypeOK /\ LoansShaped /\ DuesBooked /\ DebtIsSumOfBooks /\ InterestIsSumOfBooks
        => RepaymentsAccepted
  <2>1. SUFFICES ASSUME TypeOK, LoansShaped, DuesBooked, DebtIsSumOfBooks, InterestIsSumOfBooks,
                        \A w \in Vaults : NeverDefaulted(w), NEW v \in Vaults,
                        \A m \in LoanIds : loans[v][m].nper # 1, NEW l \in LoanIds, Live(v, l),
                        loans[v][l].pmt.principal + loans[v][l].pmt.interest # 0
                 PROVE  loans[v][l].paidTimes < loans[v][l].nper /\ RepayAccepted(v, l)
    BY DEF RepaymentsAccepted
  <2>2. loans[v][l].paidTimes < loans[v][l].nper
    BY <2>1 DEF LoansShaped, Shaped, NoLoan, Live
  <2>3. PICK pmt \in PMT : pmt = loans[v][l].pmt
    BY <2>1 DEF TypeOK, Loan
  <2>4. \A x \in Kinds : Booked(v, x) >= Part(pmt, x)
    BY <2>1, <2>3, InstalmentCovered
  <2>5. /\ borrowData[v].totalPrincipal >= pmt.principal
        /\ borrowData[v].totalInterest >= pmt.interest
        /\ borrowData[v].totalFee >= pmt.fee
    BY <2>4 DEF Kinds, Booked, Part
  <2>6. /\ borrowState.totalDebt >= borrowData[v].totalPrincipal
        /\ borrowState.totalInterest >= borrowData[v].totalInterest
    BY <2>1, VaultCovered
  <2>7. PICK p \in Nat, i \in Nat, a \in Nat, b \in Nat, c \in Nat, d \in Nat :
          /\ p = pmt.principal /\ i = pmt.interest
          /\ a = borrowData[v].totalPrincipal /\ b = borrowData[v].totalInterest
          /\ c = borrowState.totalDebt /\ d = borrowState.totalInterest
    BY <2>1 DEF PMT, TypeOK, BorrowData, BorrowState
  <2>8. c >= p /\ d >= i
    BY <2>5, <2>6, <2>7
  <2>9. QED
    BY <2>1, <2>2, <2>3, <2>5, <2>7, <2>8 DEF RepayAccepted
<1>2. TypeOK /\ TypeOK' /\ CollateralInCustody /\ LoansShaped /\ DuesBooked /\ [Next]_vars
        => DuesBooked'
  <2>1. SUFFICES ASSUME TypeOK, TypeOK', CollateralInCustody, LoansShaped, DuesBooked, [Next]_vars
                 PROVE  DuesBooked'
    OBVIOUS
  <2>2. CASE \/ NftStep \/ VaultMoneyStep \/ GiftStep \/ DepositorStep \/ MarketStep
             \/ UNCHANGED vars
    <3>1. UNCHANGED bookVars
      BY <2>2, BooksUntouched
    <3>2. QED
      BY <2>1, <3>1 DEF bookVars, DuesBooked, NeverDefaulted, Spare, Booked, DuesOf
  <2>3. QED
    BY <2>1, <2>2, BorrowDues, RepayDues, LiquidateDues DEF Next
<1>3. QED
  BY <1>1, <1>2, InitDues, InitShaped, NextShaped, InitInterest, NextInterest, TypeCorrect,
     CustodyKept, DebtStaysSumOfBooks, PTL DEF Spec

-----------------------------------------------------------------------------
(***************************************************************************)
(* Rounding.  RayMul and RayDiv both return the integer nearest to a       *)
(* fraction n / b; comparisons of such integers are made on the fractions. *)
(***************************************************************************)
Nearest(n, b) == (b \div 2 + n) \div b

LEMMA RayIsNearest ==
  ASSUME NEW x \in Nat, NEW y \in Nat
  PROVE  RayMul(x, y) = Nearest(x * y, Ray) /\ RayDiv(x, y) = Nearest(x * Ray, y)
BY DEF RayMul, RayDiv, Nearest

\* The result is at most half a unit from the fraction.
LEMMA NearestClose ==
  ASSUME NEW n \in Nat, NEW b \in Nat \ {0}
  PROVE  /\ Nearest(n, b) \in Nat
         /\ b * (2 * Nearest(n, b) - 1) <= 2 * n
<1> DEFINE h == b \div 2
           q == (h + n) \div b
<1>1. h \in Nat /\ 2 * h <= b /\ h + n \in Nat
  OBVIOUS
<1>2. q \in Nat /\ b * q <= h + n
  BY <1>1, QuotientFloor
<1>3. b * (2 * q - 1) = 2 * (b * q) - b
  BY <1>2
<1>4. b * q \in Nat
  BY <1>2, ProductType
<1>5. b * (2 * q - 1) <= 2 * n
  <2> HIDE DEF q, h
  <2> QED BY <1>1, <1>2, <1>3, <1>4
<1>6. QED
  BY <1>2, <1>5 DEF Nearest

\* No larger integer is as close from below.
LEMMA NearestLargest ==
  ASSUME NEW n \in Nat, NEW b \in Nat \ {0}, NEW p \in Nat, b * (2 * p - 1) <= 2 * n
  PROVE  p <= Nearest(n, b)
<1> DEFINE h == b \div 2
<1>1. h \in Nat /\ b <= 2 * h + 1 /\ h + n \in Nat
  OBVIOUS
<1>2. b * (2 * p - 1) = 2 * (b * p) - b
  OBVIOUS
<1>3. b * p \in Nat
  BY ProductType
<1>4. b * p <= h + n
  <2> HIDE DEF h
  <2> QED BY <1>1, <1>2, <1>3
<1>5. QED
  BY <1>1, <1>4, QuotientLargest DEF Nearest

LEMMA NearestMonotone ==
  ASSUME NEW n \in Nat, NEW m \in Nat, n <= m, NEW b \in Nat \ {0}
  PROVE  Nearest(n, b) <= Nearest(m, b)
<1>1. Nearest(n, b) \in Nat /\ b * (2 * Nearest(n, b) - 1) <= 2 * n
  BY NearestClose
<1>2. b * (2 * Nearest(n, b) - 1) <= 2 * m
  <2>1. b * (2 * Nearest(n, b) - 1) \in Int
    BY <1>1
  <2>2. QED
    BY <1>1, <2>1
<1>3. QED
  BY <1>1, <1>2, NearestLargest

(***************************************************************************)
(* The utilization rate.                                                   *)
(***************************************************************************)
LEMMA UtilizationType ==
  ASSUME NEW available \in Nat, NEW debt \in Nat
  PROVE  UtilizationRate(available, debt) \in 0 .. Ray
<1>1. CASE debt = 0
  BY <1>1, RayAssumption DEF UtilizationRate
<1>2. CASE debt # 0
  <2> DEFINE b == available + debt
             u == Nearest(debt * Ray, b)
  <2>1. b \in Nat \ {0} /\ debt * Ray \in Nat /\ Ray \in Nat
    BY <1>2, RayAssumption
  <2>2. u \in Nat /\ b * (2 * u - 1) <= 2 * (debt * Ray)
    BY <2>1, NearestClose
  <2>3. UtilizationRate(available, debt) = u
    BY <1>2, <2>1, RayIsNearest DEF UtilizationRate
  <2>4. debt * Ray <= b * Ray
    <3>1. Ray * debt <= Ray * b
      BY <2>1, ProductMonotone
    <3>2. QED
      BY <2>1, <3>1
  <2>5. SUFFICES ASSUME Ray + 1 <= u
                 PROVE  FALSE
    BY <2>1, <2>2, <2>3
  <2>6. b * (2 * Ray + 1) <= b * (2 * u - 1)
    <3>1. 2 * Ray + 1 <= 2 * u - 1 /\ 2 * Ray + 1 \in Int /\ 2 * u - 1 \in Int
      <4> HIDE DEF u
      <4> QED BY <2>1, <2>2, <2>5
    <3>2. QED
      BY <2>1, <3>1, ProductMonotone
  <2>7. b * (2 * Ray + 1) = 2 * (b * Ray) + b
    BY <2>1
  <2>8. b * Ray \in Nat
    BY <2>1, ProductType
  <2>9. QED
    <3>1. b * (2 * u - 1) \in Int
      BY <2>1, <2>2
    <3> HIDE DEF u, b
    <3>2. QED
      BY <2>1, <2>2, <2>4, <2>6, <2>7, <2>8, <3>1
<1>3. QED
  BY <1>1, <1>2

\* The less is left, the higher the utilization.
LEMMA UtilizationFallsWithCash ==
  ASSUME NEW less \in Nat, NEW more \in Nat, less <= more, NEW debt \in Nat
  PROVE  UtilizationRate(more, debt) <= UtilizationRate(less, debt)
<1> DEFINE u == UtilizationRate(more, debt)
           n == debt * Ray
<1>1. CASE debt = 0
  BY <1>1 DEF UtilizationRate
<1>2. CASE debt # 0
  <2>1. more + debt \in Nat \ {0} /\ less + debt \in Nat \ {0} /\ n \in Nat /\ Ray \in Nat
    BY <1>2, RayAssumption
  <2>2. u = Nearest(n, more + debt) /\ UtilizationRate(less, debt) = Nearest(n, less + debt)
    BY <1>2, <2>1, RayIsNearest DEF UtilizationRate
  <2>3. u \in Nat /\ (more + debt) * (2 * u - 1) <= 2 * n
    <3> HIDE DEF u, n
    <3> QED BY <2>1, <2>2, NearestClose
  <2>4. CASE u = 0
    <3>1. Nearest(n, less + debt) \in Nat
      <4> HIDE DEF n
      <4> QED BY <2>1, NearestClose
    <3>2. QED
      BY <2>2, <2>4, <3>1
  <2>5. CASE u # 0
    <3> HIDE DEF u, n
    <3>1. 2 * u - 1 \in Nat
      BY <2>3, <2>5
    <3>2. (less + debt) * (2 * u - 1) <= (more + debt) * (2 * u - 1)
      <4>1. (2 * u - 1) * (less + debt) <= (2 * u - 1) * (more + debt)
        BY <2>1, <3>1, ProductMonotone
      <4>2. QED
        BY <2>1, <3>1, <4>1
    <3>3. /\ (less + debt) * (2 * u - 1) \in Int /\ (more + debt) * (2 * u - 1) \in Int
      BY <2>1, <3>1
    <3>4. (less + debt) * (2 * u - 1) <= 2 * n
      BY <2>1, <2>3, <3>2, <3>3
    <3>5. u <= Nearest(n, less + debt)
      BY <2>1, <2>3, <3>4, NearestLargest
    <3>6. QED
      BY <2>2, <3>5 DEF u, n
  <2>6. QED
    BY <2>4, <2>5
<1>3. QED
  BY <1>1, <1>2

\* The more is owed, the higher the utilization.
LEMMA UtilizationRisesWithDebt ==
  ASSUME NEW available \in Nat, NEW less \in Nat, NEW more \in Nat, less <= more
  PROVE  UtilizationRate(available, less) <= UtilizationRate(available, more)
<1> DEFINE u == UtilizationRate(available, less)
<1>0. u \in 0 .. Ray /\ UtilizationRate(available, more) \in 0 .. Ray /\ Ray \in Nat
  BY UtilizationType, RayAssumption
<1>1. CASE u = 0
  BY <1>0, <1>1
<1>2. CASE u # 0
  <2>1. less # 0 /\ more # 0
    BY <1>2 DEF UtilizationRate
  <2>2. /\ available + less \in Nat \ {0} /\ available + more \in Nat \ {0}
        /\ less * Ray \in Nat /\ more * Ray \in Nat
    BY <1>0, <2>1
  <2>3. /\ u = Nearest(less * Ray, available + less)
        /\ UtilizationRate(available, more) = Nearest(more * Ray, available + more)
    <3>1. /\ UtilizationRate(available, less) = RayDiv(less, available + less)
          /\ UtilizationRate(available, more) = RayDiv(more, available + more)
      BY <2>1 DEF UtilizationRate
    <3>2. /\ RayDiv(less, available + less) = Nearest(less * Ray, available + less)
          /\ RayDiv(more, available + more) = Nearest(more * Ray, available + more)
      BY <2>2, RayIsNearest
    <3>3. QED
      BY <3>1, <3>2
  <2>4. (available + less) * (2 * u - 1) <= 2 * (less * Ray)
    <3> HIDE DEF u
    <3> QED BY <2>2, <2>3, NearestClose
  <2>5. (available + more) * (2 * u - 1) <= 2 * (more * Ray)
    <3> DEFINE k == 2 * u - 1
               r == 2 * Ray - k
    <3>1. k \in Int /\ r \in Nat
      <4> HIDE DEF u
      <4> QED BY <1>0
    <3> HIDE DEF u
    <3>2. available * k <= less * r
      <4>1. (available + less) * k = available * k + less * k
        BY <3>1
      <4>2. less * r = 2 * (less * Ray) - less * k
        BY <1>0, <3>1
      <4>3. available * k \in Int /\ less * k \in Int
        BY <3>1
      <4> HIDE DEF k, r
      <4>4. (available + less) * k <= 2 * (less * Ray)
        BY <2>4 DEF k
      <4>5. QED
        BY <2>2, <4>1, <4>2, <4>3, <4>4
    <3>3. less * r <= more * r
      <4> HIDE DEF r
      <4>1. r * less <= r * more
        BY <3>1, ProductMonotone
      <4>2. QED
        BY <3>1, <4>1
    <3>4. (available + more) * k = available * k + more * k
      BY <3>1
    <3>5. more * r = 2 * (more * Ray) - more * k
      BY <1>0, <3>1
    <3>6. available * k \in Int /\ more * k \in Int /\ less * r \in Int
      BY <3>1
    <3>7. (available + more) * k <= 2 * (more * Ray)
      <4> HIDE DEF k, r
      <4> QED BY <2>2, <3>2, <3>3, <3>4, <3>5, <3>6
    <3>8. QED
      BY <3>7 DEF k
  <2>6. u \in Nat
    BY <1>0
  <2>7. u <= Nearest(more * Ray, available + more)
    <3> HIDE DEF u
    <3> QED BY <2>2, <2>5, <2>6, NearestLargest
  <2>8. QED
    BY <2>3, <2>7
<1>3. QED
  BY <1>1, <1>2

(***************************************************************************)
(* The curve.                                                              *)
(***************************************************************************)
\* A surcharge is due only below full distance from the optimum, so the
\* division by Ray - optimal is defined; it never falls with utilization.
LEMMA SurchargeMonotone ==
  ASSUME NEW s \in Strategies, NEW u \in 0 .. Ray, NEW w \in 0 .. Ray, u <= w
  PROVE  /\ Surcharge(s, u) \in Nat /\ Surcharge(s, w) \in Nat
         /\ Surcharge(s, u) <= Surcharge(s, w)
<1>0. s.optimal \in Nat /\ s.slope \in Nat /\ Ray \in Nat \ {0}
  BY RayAssumption DEF Strategies
<1> DEFINE d == Ray - s.optimal
           x(v) == RayMul(s.slope, v - s.optimal)
<1>1. ASSUME NEW v \in 0 .. Ray, v > s.optimal
      PROVE  /\ d \in Nat \ {0} /\ v - s.optimal \in Nat /\ s.slope * (v - s.optimal) \in Nat
             /\ x(v) = Nearest(s.slope * (v - s.optimal), Ray) /\ x(v) \in Nat
             /\ x(v) * Ray \in Nat /\ Surcharge(s, v) = Nearest(x(v) * Ray, d)
             /\ Surcharge(s, v) \in Nat
  <2>1. d \in Nat \ {0} /\ v - s.optimal \in Nat
    BY <1>0, <1>1
  <2>2. s.slope * (v - s.optimal) \in Nat
    BY <1>0, <2>1, ProductType
  <2>3. x(v) = Nearest(s.slope * (v - s.optimal), Ray) /\ x(v) \in Nat
    BY <1>0, <2>1, <2>2, RayIsNearest, NearestClose
  <2>4. x(v) * Ray \in Nat
    <3> HIDE DEF x
    <3> QED BY <1>0, <2>3, ProductType
  <2>5. Surcharge(s, v) = Nearest(x(v) * Ray, d)
    <3>1. Surcharge(s, v) = RayDiv(x(v), d)
      BY <1>1 DEF Surcharge
    <3> HIDE DEF x, d
    <3>2. QED
      BY <2>1, <2>3, <3>1, RayIsNearest
  <2>6. Surcharge(s, v) \in Nat
    <3> HIDE DEF x, d
    <3> QED BY <2>1, <2>4, <2>5, NearestClose
  <2>7. QED
    BY <2>1, <2>2, <2>3, <2>4, <2>5, <2>6
<1>2. CASE ~(u > s.optimal)
  <2>1. Surcharge(s, u) = 0
    BY <1>2 DEF Surcharge
  <2>2. Surcharge(s, w) \in Nat
    <3>1. CASE w > s.optimal
      BY <1>1, <3>1
    <3>2. CASE ~(w > s.optimal)
      BY <3>2 DEF Surcharge
    <3>3. QED
      BY <3>1, <3>2
  <2>3. QED
    BY <2>1, <2>2
<1>3. CASE u > s.optimal
  <2>1. w > s.optimal
    BY <1>0, <1>3
  <2>2. s.slope * (u - s.optimal) <= s.slope * (w - s.optimal)
    <3>1. u - s.optimal <= w - s.optimal /\ u - s.optimal \in Int /\ w - s.optimal \in Int
      BY <1>0
    <3>2. QED
      BY <1>0, <3>1, ProductMonotone
  <2>3. x(u) <= x(w)
    <3> HIDE DEF x, d
    <3> QED BY <1>0, <1>1, <1>3, <2>1, <2>2, NearestMonotone
  <2>4. x(u) * Ray <= x(w) * Ray
    <3> HIDE DEF x, d
    <3>1. x(u) \in Nat /\ x(w) \in Nat
      BY <1>1, <1>3, <2>1
    <3>2. Ray * x(u) <= Ray * x(w)
      BY <1>0, <2>3, <3>1, ProductMonotone
    <3>3. QED
      BY <1>0, <3>1, <3>2
  <2>5. QED
    <3> HIDE DEF x, d
    <3> QED BY <1>1, <1>3, <2>1, <2>4, NearestMonotone
<1>4. QED
  BY <1>2, <1>3

\* Rounding twice adds at most Ray \div (Ray - optimal) units to the slope.
LEMMA SurchargeBounded ==
  ASSUME NEW s \in Strategies, NEW u \in 0 .. Ray, s.optimal < Ray
  PROVE  Surcharge(s, u) <= s.slope + Ray \div (Ray - s.optimal)
<1> DEFINE d == Ray - s.optimal
           k == Ray \div d
           m == u - s.optimal
           x == RayMul(s.slope, m)
<1>1. /\ s.optimal \in Nat /\ s.slope \in Nat /\ Ray \in Nat \ {0}
      /\ d \in Nat \ {0} /\ d <= Ray
  BY RayAssumption DEF Strategies
<1>2. k \in Nat /\ Ray < d * (k + 1)
  <2> HIDE DEF d
  <2> QED BY <1>1, QuotientFloor
<1>3. CASE u > s.optimal
  <2>1. m \in Nat /\ m <= d
    BY <1>1, <1>3
  <2>2. s.slope * m \in Nat /\ s.slope * d \in Nat /\ s.slope * m <= s.slope * d
    <3> HIDE DEF m, d
    <3> QED BY <1>1, <2>1, ProductType, ProductMonotone
  <2>3. x \in Nat /\ Ray * x <= Ray \div 2 + s.slope * m
    <3> HIDE DEF m
    <3>1. Ray \div 2 + s.slope * m \in Nat
      BY <1>1, <2>2
    <3>2. QED
      BY <1>1, <2>2, <3>1, QuotientFloor DEF RayMul
  <2>4. x * Ray \in Nat /\ Ray * x = x * Ray
    <3> HIDE DEF x
    <3> QED BY <1>1, <2>3, ProductType
  <2>5. d \div 2 + x * Ray < d * (s.slope + k + 1)
    <3>1. d \div 2 \in Nat /\ 2 * (d \div 2) <= d /\ Ray \div 2 \in Nat /\ 2 * (Ray \div 2) <= Ray
      BY <1>1
    <3>2. d * (s.slope + k + 1) = s.slope * d + d * (k + 1)
      <4> HIDE DEF d, k
      <4> QED BY <1>1, <1>2
    <3>3. d * (k + 1) \in Nat
      <4> HIDE DEF d, k
      <4> QED BY <1>1, <1>2, ProductType
    <3> HIDE DEF d, k, m, x
    <3>4. QED
      BY <1>1, <1>2, <2>2, <2>3, <2>4, <3>1, <3>2, <3>3
  <2>6. (d \div 2 + x * Ray) \div d <= s.slope + k
    <3>1. d \div 2 + x * Ray \in Nat /\ s.slope + k \in Int
      <4>1. d \div 2 \in Nat
        BY <1>1
      <4> HIDE DEF d, k, x
      <4>2. QED
        BY <1>1, <1>2, <2>4, <4>1
    <3> HIDE DEF d, k, x
    <3>2. QED
      BY <1>1, <2>5, <3>1, QuotientBelow
  <2>7. QED
    BY <1>3, <2>6 DEF Surcharge, RayDiv
<1>4. CASE ~(u > s.optimal)
  <2>1. Surcharge(s, u) = 0
    BY <1>4 DEF Surcharge
  <2>2. QED
    <3> HIDE DEF k
    <3> QED BY <1>1, <1>2, <2>1 DEF k, d
<1>5. QED
  BY <1>3, <1>4

\* The rate buyNow charges (LoanFacet:406) is defined in every state, because
\* utilization never exceeds 100% (so a strategy deployed with an optimum of
\* 100% or more never divides by zero); it is the base rate at least, and the
\* base rate plus the slope at most, up to a rounding of Ray / (Ray - optimal)
\* units of 10^-27, which is 5 for the deployed optimum of 80%.
THEOREM RateBounded ==
  ASSUME NEW s \in Strategies, NEW available \in Nat, NEW debt \in Nat
  PROVE  /\ UtilizationRate(available, debt) > s.optimal => Ray - s.optimal > 0
         /\ CurrentRate(s, available, debt) >= s.base
         /\ s.optimal < Ray =>
              CurrentRate(s, available, debt) <= s.base + s.slope + Ray \div (Ray - s.optimal)
         /\ s.optimal >= Ray => CurrentRate(s, available, debt) = s.base
<1> DEFINE u == UtilizationRate(available, debt)
           c == Surcharge(s, u)
<1>1. u \in 0 .. Ray /\ Ray \in Nat \ {0} /\ s.optimal \in Nat /\ s.slope \in Nat /\ s.base \in Nat
  BY UtilizationType, RayAssumption DEF Strategies
<1>2. c \in Nat
  <2> HIDE DEF u
  <2> QED BY <1>1, SurchargeMonotone
<1>3. CurrentRate(s, available, debt) = s.base + c
  BY DEF CurrentRate
<1>4. ASSUME s.optimal < Ray
      PROVE  CurrentRate(s, available, debt) <= s.base + s.slope + Ray \div (Ray - s.optimal)
  <2>1. c <= s.slope + Ray \div (Ray - s.optimal)
    <3> HIDE DEF u
    <3> QED BY <1>1, <1>4, SurchargeBounded
  <2>2. Ray \div (Ray - s.optimal) \in Nat
    BY <1>1, <1>4, QuotientFloor
  <2> DEFINE k == Ray \div (Ray - s.optimal)
  <2> HIDE DEF k, c
  <2>3. s.base + c <= s.base + s.slope + k
    BY <1>1, <1>2, <2>1, <2>2 DEF k
  <2>4. QED
    BY <1>3, <2>3 DEF k
<1>5. ASSUME s.optimal >= Ray
      PROVE  CurrentRate(s, available, debt) = s.base
  <2>1. c = 0
    <3> HIDE DEF u
    <3> QED BY <1>1, <1>5 DEF Surcharge
  <2>2. QED
    BY <1>1, <1>3, <2>1
<1>6. QED
  <2> HIDE DEF u, c
  <2>1. u > s.optimal => Ray - s.optimal > 0
    BY <1>1
  <2>2. s.base + c >= s.base
    BY <1>1, <1>2
  <2>3. QED
    BY <1>3, <1>4, <1>5, <2>1, <2>2 DEF u

\* Lending never makes the next loan cheaper: the rate does not fall when
\* more is taken out of the senior tranche, or when more is owed to it, or
\* both, whatever lenders wait to withdraw.
THEOREM RateNeverFallsByLending ==
  ASSUME NEW s \in Strategies, NEW balance \in Nat, NEW pending \in Nat, NEW added \in Nat,
         NEW taken \in Nat, NEW takenMore \in Nat, taken <= takenMore,
         NEW debt \in Nat, NEW debtMore \in Nat, debt <= debtMore,
         RateDefined(balance, pending, added, takenMore)
  PROVE  CalculateBorrowRate(s, balance, pending, added, taken, debt)
           <= CalculateBorrowRate(s, balance, pending, added, takenMore, debtMore)
<1> DEFINE a == Available(balance, pending, added, taken)
           b == Available(balance, pending, added, takenMore)
           u == UtilizationRate(a, debt)
           w == UtilizationRate(b, debtMore)
<1>1. a \in Nat /\ b \in Nat /\ b <= a
  BY DEF Available, RateDefined
<1>2. u \in 0 .. Ray /\ w \in 0 .. Ray /\ UtilizationRate(b, debt) \in 0 .. Ray
  <2> HIDE DEF a, b
  <2> QED BY <1>1, UtilizationType
<1>3. u <= w
  <2> HIDE DEF a, b
  <2>1. u <= UtilizationRate(b, debt)
    BY <1>1, UtilizationFallsWithCash
  <2>2. UtilizationRate(b, debt) <= w
    BY <1>1, UtilizationRisesWithDebt
  <2>3. QED
    <3> HIDE DEF u, w
    <3> QED BY <1>2, <2>1, <2>2, RayAssumption
<1>4. /\ Surcharge(s, u) \in Nat /\ Surcharge(s, w) \in Nat
      /\ Surcharge(s, u) <= Surcharge(s, w)
  <2> HIDE DEF u, w
  <2> QED BY <1>2, <1>3, SurchargeMonotone
<1>5. s.base \in Nat
  BY DEF Strategies
<1>6. s.base + Surcharge(s, u) <= s.base + Surcharge(s, w)
  <2> HIDE DEF u, w
  <2> QED BY <1>4, <1>5
<1>7. QED
  BY <1>6 DEF CalculateBorrowRate, CurrentRate

\* Every interval the configuration can hold (8 bits of days) leaves at least
\* one period in a year, so previewInterest never divides by zero.
THEOREM InterestDefined ==
  ASSUME NEW epoch \in 1 .. 255, NEW principal \in Nat, NEW apr \in Nat, NEW nper \in Nat
  PROVE  /\ PeriodsPerYear(epoch) \in 1 .. 365
         /\ PreviewInterest(principal, apr, epoch, nper) \in Nat
<1>1. PeriodsPerYear(epoch) \in 1 .. 365
  BY DEF PeriodsPerYear, DaysPerYear
<1>2. apr * nper \in Nat
  BY ProductType
<1> DEFINE r == (apr * nper) \div PeriodsPerYear(epoch)
<1>3. r \in Nat
  <2>1. PeriodsPerYear(epoch) \in Nat \ {0}
    BY <1>1
  <2>2. QED
    BY <1>2, <2>1, QuotientFloor
<1>4. principal * r \in Nat /\ Ray \in Nat \ {0}
  <2> HIDE DEF r
  <2> QED BY <1>3, ProductType, RayAssumption
<1>5. RayMul(principal, r) \in Nat
  <2> HIDE DEF r
  <2> QED BY <1>3, <1>4, RayIsNearest, NearestClose
<1>6. QED
  BY <1>1, <1>5 DEF PreviewInterest
=============================================================================
