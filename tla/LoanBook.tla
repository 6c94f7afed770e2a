------------------------------ MODULE LoanBook ------------------------------
(***************************************************************************)
(* The lending core of Voyage for one collection and one currency (WETH):  *)
(* LoanFacet.buyNow / buyNowV2, RepaymentFacet.repay,                      *)
(* LiquidateFacet.liquidate, the LibLoan bookkeeping they share, and the   *)
(* vault operations that move NFTs and money.  Every action is one         *)
(* successful transaction; a transaction that reverts changes nothing and  *)
(* is simply not enabled.  Checked subtraction is therefore a guard.       *)
(*                                                                         *)
(* The depositors of the two tranches appear only through the cash they    *)
(* add and remove, and through the amount totalUnbondingAsset reports when *)
(* a loan is validated (module SeniorDepositToken models that queue).      *)
(***************************************************************************)
EXTENDS PercentageMath, FiniteSets

CONSTANTS
  Vaults,      \* vault contracts; a vault stands for its owner as well
  Nfts,        \* token ids of the collection
  LoanIds,     \* values of nextLoanNumber, an initial segment of Nat
  Prices,      \* prices a marketplace order may carry
  TwapPrices,  \* prices the oracle may report
  Interests,   \* what previewInterest may return for a loan
  Pendings,    \* what totalUnbondingAsset may return
  Confs,       \* configurations the administrators may set
  TakeRate,    \* protocol fee in basis points
  Flows,       \* amounts depositors and vault owners move in one call
  Gifts,       \* amounts sent to the diamond, or along with a call, for nothing
  VaultFunds,  \* ETH a vault holds initially
  SeniorFunds, \* initial cash of the senior tranche
  JuniorFunds, \* initial cash of the junior tranche
  StartTime,   \* the first block; later than any grace period is long
  MaxTime,     \* bound on the clock
  MaxCash,     \* bound on a contract's cash when somebody adds to it
  MaxGiven,    \* bound on what the diamond is given
  MaxVault     \* bound on a vault's ETH and WETH when it receives some

VARIABLES
  now,          \* block.timestamp, in days
  twap,         \* PriceOracle.prices[collection]
  conf,         \* the ReserveConfigurationMap fields lending reads
  loans,        \* BorrowData.loans of each vault
  borrowData,   \* the other fields of BorrowData of each vault
  borrowState,  \* BorrowState of the collection
  repayRecord,  \* BorrowState.repayRecord of each vault
  lien,         \* NFTs whose nftIndex entry has isCollateral set
  holder,       \* ERC-721 owner of each NFT
  cash,         \* WETH of the protocol's contracts (and stray ETH of one)
  weth,         \* WETH of each vault
  eth,          \* ETH of each vault
  world,        \* net amount everyone else has received
  given         \* history: what the diamond was sent for nothing, in all

vars == <<now, twap, conf, loans, borrowData, borrowState, repayRecord,
          lien, holder, cash, weth, eth, world, given>>

bookVars == <<loans, borrowData, borrowState, repayRecord>>
moneyVars == <<cash, weth, eth, world, given>>
nftVars == <<lien, holder>>
marketVars == <<now, twap, conf>>

Outside == "outside"   \* any NFT owner that is not a vault of the protocol
Accounts == {"senior", "junior", "treasury", "diamond", "diamondEth"}
Diamond == {"diamond", "diamondEth"}   \* the diamond's WETH and its ETH
Currencies == {"ETH", "WETH"}

(***************************************************************************)
(* Records of LibAppStorage.                                               *)
(***************************************************************************)
PMT == [principal : Nat, interest : Nat, fee : Nat]

Loan ==
  [principal : Nat, pmt : PMT, nper : Nat, epoch : Nat,
   incomeRatio : 0 .. BasisPoints, borrowAt : Nat, nextPaymentDue : Nat,
   paidTimes : Nat, collateral : SUBSET Nfts]

\* A storage slot that was never written, or was deleted, reads as zeros.
NoLoan ==
  [principal |-> 0, pmt |-> [principal |-> 0, interest |-> 0, fee |-> 0],
   nper |-> 0, epoch |-> 0, incomeRatio |-> 0, borrowAt |-> 0,
   nextPaymentDue |-> 0, paidTimes |-> 0, collateral |-> {}]

BorrowData ==
  [paidLoanNumber : Nat, nextLoanNumber : Nat,
   totalPrincipal : Nat, totalInterest : Nat, totalFee : Nat]

BorrowState ==
  [totalDebt : Nat, totalInterest : Nat,
   totalSeniorInterest : Nat, totalJuniorInterest : Nat]

Configuration ==
  [term : Nat, epoch : Nat, gracePeriod : Nat,
   incomeRatio : 0 .. BasisPoints, liquidationBonus : Nat,
   optimalLiquidityRatio : Nat, maxTwapStaleness : Nat, twapTolerance : Nat]

ASSUME ConstantsAssumption ==
  /\ Vaults \cap (Accounts \cup {Outside}) = {}
  /\ IsFiniteSet(Nfts)
  /\ LoanIds \subseteq Nat
  /\ Prices \subseteq Nat /\ TwapPrices \subseteq Nat /\ Interests \subseteq Nat
  /\ Pendings \subseteq Nat /\ Flows \subseteq Nat /\ Gifts \subseteq Nat
  /\ VaultFunds \in Nat
  /\ Confs \subseteq Configuration
  /\ TakeRate \in 0 .. BasisPoints
  /\ SeniorFunds \in Nat /\ JuniorFunds \in Nat
  /\ StartTime \in Nat /\ \A c \in Confs : c.gracePeriod < StartTime
  /\ MaxTime \in Nat /\ StartTime <= MaxTime
  /\ MaxCash \in Nat /\ MaxGiven \in Nat /\ MaxVault \in Nat

Live(v, l) == loans[v][l].nper > 0

Init ==
  /\ now = StartTime
  /\ twap = [price |-> 0, time |-> 0]
  /\ conf \in Confs
  /\ loans = [v \in Vaults |-> [l \in LoanIds |-> NoLoan]]
  /\ borrowData = [v \in Vaults |->
       [paidLoanNumber |-> 0, nextLoanNumber |-> 0,
        totalPrincipal |-> 0, totalInterest |-> 0, totalFee |-> 0]]
  /\ borrowState = [totalDebt |-> 0, totalInterest |-> 0,
                    totalSeniorInterest |-> 0, totalJuniorInterest |-> 0]
  /\ repayRecord = [v \in Vaults |-> [repaidTimes |-> 0, defaultTimes |-> 0]]
  /\ lien = {}
  /\ holder = [n \in Nfts |-> Outside]
  /\ cash = [a \in Accounts |-> IF a = "senior" THEN SeniorFunds
                                ELSE IF a = "junior" THEN JuniorFunds ELSE 0]
  /\ weth = [v \in Vaults |-> 0]
  /\ eth = [v \in Vaults |-> VaultFunds]
  /\ world = 0
  /\ given = 0

-----------------------------------------------------------------------------
(***************************************************************************)
(* LibLoan: how a loan and the running totals change.                      *)
(***************************************************************************)

\* Faulty variants of a definition, named <definition>_<fault>, precede it.
\* Nothing uses them; each is a plausible bug that some property detects.

\* updateLoan + previewPMT + firstRepay: the loan as buyNow leaves it, its
\* first instalment paid.  pmt.x is x / nper, so x mod nper is never billed.
NewLoan_NotYetPaid(n, price, interest, nper) ==
  [principal |-> price,
   pmt |-> [principal |-> price \div nper, interest |-> interest \div nper,
            fee |-> PercentMul(price, TakeRate) \div nper],
   nper |-> nper, epoch |-> conf.epoch, incomeRatio |-> conf.incomeRatio,
   borrowAt |-> now, nextPaymentDue |-> now + conf.epoch,
   paidTimes |-> 0, collateral |-> {n}]
NewLoan_RoundedUp(n, price, interest, nper) ==
  [principal |-> price,
   pmt |-> [principal |-> (price + nper - 1) \div nper,
            interest |-> interest \div nper,
            fee |-> PercentMul(price, TakeRate) \div nper],
   nper |-> nper, epoch |-> conf.epoch, incomeRatio |-> conf.incomeRatio,
   borrowAt |-> now, nextPaymentDue |-> now + conf.epoch,
   paidTimes |-> 1, collateral |-> {n}]
NewLoan(n, price, interest, nper) ==
  [principal |-> price,
   pmt |-> [principal |-> price \div nper,
            interest |-> interest \div nper,
            fee |-> PercentMul(price, TakeRate) \div nper],
   nper |-> nper, epoch |-> conf.epoch, incomeRatio |-> conf.incomeRatio,
   borrowAt |-> now, nextPaymentDue |-> now + conf.epoch,
   paidTimes |-> 1, collateral |-> {n}]

\* updateDebtData: one instalment leaves the vault's totals.
InstalmentBooked(bd, pmt) ==
  [paidLoanNumber |-> bd.paidLoanNumber, nextLoanNumber |-> bd.nextLoanNumber,
   totalPrincipal |-> bd.totalPrincipal - pmt.principal,
   totalInterest |-> bd.totalInterest - pmt.interest,
   totalFee |-> bd.totalFee - pmt.fee]

\* updateBorrowData: a whole loan enters the vault's totals.
LoanBooked(bd, price, interest) ==
  [paidLoanNumber |-> bd.paidLoanNumber,
   nextLoanNumber |-> bd.nextLoanNumber + 1,
   totalPrincipal |-> bd.totalPrincipal + price,
   totalInterest |-> bd.totalInterest + interest,
   totalFee |-> bd.totalFee + PercentMul(price, TakeRate)]

SeniorShare(interest, ratio) == PercentMul(interest, ratio)
JuniorShare_RoundedByItself(interest, ratio) ==
  PercentMul(interest, BasisPoints - ratio)
JuniorShare(interest, ratio) == interest - PercentMul(interest, ratio)

\* updateBorrowData, the collection's half.
DebtAdded(bs, price, interest, ratio) ==
  [totalDebt |-> bs.totalDebt + price,
   totalInterest |-> bs.totalInterest + interest,
   totalSeniorInterest |-> bs.totalSeniorInterest + SeniorShare(interest, ratio),
   totalJuniorInterest |-> bs.totalJuniorInterest + JuniorShare(interest, ratio)]

\* updateGlobalBorrowState, and its inlined copy in firstRepay.
DebtReduced_InterestOnly(bs, pmt, ratio) ==
  [totalDebt |-> bs.totalDebt,
   totalInterest |-> SubOrZero(bs.totalInterest, pmt.interest),
   totalSeniorInterest |->
     SubOrZero(bs.totalSeniorInterest, SeniorShare(pmt.interest, ratio)),
   totalJuniorInterest |->
     SubOrZero(bs.totalJuniorInterest, JuniorShare(pmt.interest, ratio))]
DebtReduced(bs, pmt, ratio) ==
  [totalDebt |-> bs.totalDebt - pmt.principal,
   totalInterest |-> SubOrZero(bs.totalInterest, pmt.interest),
   totalSeniorInterest |->
     SubOrZero(bs.totalSeniorInterest, SeniorShare(pmt.interest, ratio)),
   totalJuniorInterest |->
     SubOrZero(bs.totalJuniorInterest, JuniorShare(pmt.interest, ratio))]

-----------------------------------------------------------------------------
(***************************************************************************)
(* LoanFacet: buying an NFT with a loan.                                   *)
(***************************************************************************)

\* _validateTWAPAndFloorPrice
PriceAccepted(price, value, time) ==
  /\ time <= now
  /\ now - time <= conf.maxTwapStaleness
  /\ value # 0
  /\ value >= price

\* _validateLiquidity; the divisions revert on a zero divisor.
LiquidityAccepted(outstanding, pending) ==
  /\ cash["junior"] # 0
  /\ conf.optimalLiquidityRatio # 0
  /\ PercentDiv(outstanding, conf.optimalLiquidityRatio) <= cash["junior"]
  /\ pending < cash["senior"]
  /\ cash["senior"] - pending >= outstanding

\* The balance check of _initializeLoan, on ETH and WETH combined.
CombinedBalanceCovers(v, downpayment, dues) ==
  eth[v] + weth[v] >= downpayment + dues

\* wrapAndUnwrapETH as each branch of _executeBuyNow calls it: what is taken
\* out of WETH, and what is put into it.
Unwrapped(v, currency, downpayment) ==
  IF currency = "ETH" THEN SubOrZero(downpayment, eth[v]) ELSE 0
Wrapped_SameInBoth(v, currency, downpayment, dues) ==
  SubOrZero(downpayment + dues, weth[v])
Wrapped(v, currency, downpayment, dues) ==
  IF currency = "ETH" THEN SubOrZero(dues, weth[v])
                      ELSE SubOrZero(downpayment + dues, weth[v])

\* The vault's balances once it has wrapped, received the outstanding
\* principal, paid the marketplace and paid interest and fee.
EthAfter_DownpaymentUncharged(v, currency, downpayment, dues, outstanding) ==
  eth[v] + Unwrapped(v, currency, downpayment)
         - Wrapped(v, currency, downpayment, dues)
EthAfter(v, currency, downpayment, dues, outstanding) ==
  LET swapped == eth[v] + Unwrapped(v, currency, downpayment)
                        - Wrapped(v, currency, downpayment, dues)
  IN  IF currency = "ETH"
      THEN swapped + outstanding - (downpayment + outstanding) ELSE swapped
WethAfter(v, currency, downpayment, dues, outstanding) ==
  LET swapped == weth[v] - Unwrapped(v, currency, downpayment)
                         + Wrapped(v, currency, downpayment, dues)
  IN  (IF currency = "ETH"
       THEN swapped ELSE swapped + outstanding - (downpayment + outstanding))
      - dues

\* No conversion or payment of _executeBuyNow fails for lack of funds.
SettlementSucceeds(v, currency, downpayment, dues, outstanding) ==
  /\ Unwrapped(v, currency, downpayment) <= weth[v]
  /\ Wrapped(v, currency, downpayment, dues)
       <= eth[v] + Unwrapped(v, currency, downpayment)
  /\ EthAfter(v, currency, downpayment, dues, outstanding) >= 0
  /\ WethAfter(v, currency, downpayment, dues, outstanding) >= 0

\* The ETH the diamond is left with.  unwrapWETH9 unwraps all WETH the diamond
\* has and keeps the ETH there, of which the vault is sent the outstanding
\* principal; the msg.value of the call is forwarded by nothing.
DiamondEthAfter_AllPassedOn(currency, sent) == cash["diamondEth"] + sent
DiamondEthAfter(currency, sent) ==
  cash["diamondEth"] + sent + IF currency = "ETH" THEN cash["diamond"] ELSE 0

\* _validateLiquidity, _initializeLoan and _executeBuyNow, in a call that
\* carries the ETH `sent'.
Borrow(v, n, price, interest, pending, currency, sent) ==
  /\ conf.epoch # 0 /\ conf.term \div conf.epoch # 0
  /\ borrowData[v].nextLoanNumber \in LoanIds
  /\ LET nper == conf.term \div conf.epoch
         outstanding == price - price \div nper
         loan == NewLoan(n, price, interest, nper)
         pmt == loan.pmt
         dues == pmt.interest + pmt.fee
         toSenior == SeniorShare(pmt.interest, conf.incomeRatio)
     IN  /\ LiquidityAccepted(outstanding, pending)
         /\ CombinedBalanceCovers(v, pmt.principal, dues)
         \* firstRepay divides by the debt that is left
         /\ borrowState.totalDebt + price # pmt.principal
         /\ SettlementSucceeds(v, currency, pmt.principal, dues, outstanding)
         /\ loans' = [loans EXCEPT ![v][borrowData[v].nextLoanNumber] = loan]
         /\ borrowData' = [borrowData EXCEPT ![v] =
              InstalmentBooked(LoanBooked(@, price, interest), pmt)]
         /\ borrowState' = DebtReduced(
              DebtAdded(borrowState, price, interest, conf.incomeRatio),
              pmt, conf.incomeRatio)
         /\ cash' = [cash EXCEPT
              !["senior"] = @ - outstanding + toSenior,
              !["junior"] = @ + pmt.interest - toSenior,
              !["treasury"] = @ + pmt.fee,
              !["diamond"] = IF currency = "ETH" THEN 0 ELSE @,
              !["diamondEth"] = DiamondEthAfter(currency, sent)]
         /\ eth' = [eth EXCEPT ![v] =
              EthAfter(v, currency, pmt.principal, dues, outstanding)]
         /\ weth' = [weth EXCEPT ![v] =
              WethAfter(v, currency, pmt.principal, dues, outstanding)]
         /\ world' = world + price - sent
  /\ given + sent <= MaxGiven
  /\ given' = given + sent
  /\ holder[n] = Outside
  /\ holder' = [holder EXCEPT ![n] = v]
  /\ lien' = lien \cup {n}
  /\ UNCHANGED <<marketVars, repayRecord>>

\* buyNow: the price ceiling is the stored TWAP.
BuyNow(v, n, price, interest, pending, currency, sent) ==
  /\ PriceAccepted(price, twap.price, twap.time)
  /\ Borrow(v, n, price, interest, pending, currency, sent)

\* OracleFacet.verifyMessage, of a message with a valid id and signature.
MessageVerified(time) == time <= now /\ now < time + conf.maxTwapStaleness

\* buyNowV2: the price ceiling is a signed message plus a tolerance.
BuyNowV2(v, n, price, interest, pending, currency, sent, value, time) ==
  /\ MessageVerified(time)
  /\ PriceAccepted(price, value + PercentMul(value, conf.twapTolerance), time)
  /\ Borrow(v, n, price, interest, pending, currency, sent)

-----------------------------------------------------------------------------
(***************************************************************************)
(* RepaymentFacet.repay, called by the vault's owner.                      *)
(***************************************************************************)

\* The instalment being paid is the last one.
IsFinal_Late(loan) == loan.paidTimes = loan.nper
IsFinal_Early(loan) == loan.paidTimes + 2 >= loan.nper
IsFinal(loan) == loan.paidTimes + 1 = loan.nper

\* insertRapayment, paidTimes having been counted up.
AfterInstalment(loan) ==
  [loan EXCEPT !.paidTimes = @ + 1,
               !.nextPaymentDue =
                  loan.borrowAt + (loan.paidTimes + 1) * loan.epoch]

PaidLoanCounted(bd) == [bd EXCEPT !.paidLoanNumber = @ + 1]

\* Everything a repayment depends on, but for the vault's money: there is an
\* instalment, and no checked subtraction of updateDebtData and
\* updateGlobalBorrowState underflows.
RepayAccepted(v, l) ==
  LET pmt == loans[v][l].pmt
  IN  /\ pmt.principal + pmt.interest # 0
      /\ borrowData[v].totalPrincipal >= pmt.principal
      /\ borrowData[v].totalInterest >= pmt.interest
      /\ borrowData[v].totalFee >= pmt.fee
      /\ borrowState.totalDebt >= pmt.principal
      /\ borrowState.totalInterest >= pmt.interest

Repay(v, l) ==
  LET loan == loans[v][l]
      pmt == loan.pmt
      due == pmt.principal + pmt.interest + pmt.fee
      wrapped == SubOrZero(due, weth[v])
      toSenior == SeniorShare(pmt.interest, loan.incomeRatio)
      isFinal == IsFinal(loan)
  IN  /\ RepayAccepted(v, l)
      /\ wrapped <= eth[v]
      /\ borrowData' = [borrowData EXCEPT ![v] =
           IF isFinal THEN PaidLoanCounted(InstalmentBooked(@, pmt))
           ELSE InstalmentBooked(@, pmt)]
      /\ borrowState' = DebtReduced(borrowState, pmt, loan.incomeRatio)
      /\ loans' = [loans EXCEPT ![v][l] =
           IF isFinal THEN NoLoan ELSE AfterInstalment(loan)]
      /\ lien' = IF isFinal THEN lien \ loan.collateral ELSE lien
      /\ repayRecord' = [repayRecord EXCEPT ![v].repaidTimes =
           IF isFinal THEN @ + 1 ELSE @]
      /\ eth' = [eth EXCEPT ![v] = @ - wrapped]
      /\ weth' = [weth EXCEPT ![v] = @ + wrapped - due]
      /\ cash' = [cash EXCEPT
           !["senior"] = @ + pmt.principal + toSenior,
           !["junior"] = @ + pmt.interest - toSenior,
           !["treasury"] = @ + pmt.fee]
      /\ UNCHANGED <<marketVars, holder, world, given>>

-----------------------------------------------------------------------------
(***************************************************************************)
(* LiquidateFacet.liquidate, called by anyone who can pay.                 *)
(***************************************************************************)

\* The guard of step 2.
Qualified_NoGrace(loan) == now > loan.nextPaymentDue
Qualified(loan) == now > loan.nextPaymentDue + conf.gracePeriod

\* getDiscount and the price the liquidator pays per NFT.
Discount(value) == PercentMul(value, conf.liquidationBonus) - value
DiscountedFloor(value) == value - Discount(value)

\* tryRepay: pay the amount as far as the remaining proceeds go.
TryRepay(remaining, amount) == Lesser(remaining, amount)

\* What the junior tranche adds when the proceeds do not cover the principal.
JuniorCover_Uncapped(debt, value) == SubOrZero(debt, value)
JuniorCover_Whole(debt, value) == IF debt > value THEN cash["junior"] ELSE 0
JuniorCover_AllOrNothing(debt, value) ==
  IF SubOrZero(debt, value) <= cash["junior"] THEN SubOrZero(debt, value) ELSE 0
JuniorCover(debt, value) == Lesser(SubOrZero(debt, value), cash["junior"])

\* Where the proceeds go (steps 6 and 7): principal first, topped up by the
\* junior tranche; only a surplus reaches interest, fee and then the vault.
Proceeds(value, debt, seniorInterest, juniorInterest, fee) ==
  LET toSenior == TryRepay(SubOrZero(value, debt), seniorInterest)
      toJunior == TryRepay(SubOrZero(value, debt) - toSenior, juniorInterest)
      toTreasury ==
        TryRepay(SubOrZero(value, debt) - toSenior - toJunior, fee)
  IN  [principal |-> Lesser(debt, value + JuniorCover(debt, value)),
       seniorInterest |-> toSenior,
       juniorInterest |-> toJunior,
       fee |-> toTreasury,
       surplus |-> SubOrZero(value, debt) - toSenior - toJunior - toTreasury]

\* The whole handler.  It works with the vault's totals, not the loan's, and
\* closeDebt runs after releaseLien has deleted the loan, so it subtracts
\* zeros from borrowData: the vault's totals stay as they were.
Liquidate(v, l) ==
  LET loan == loans[v][l]
      debt == borrowData[v].totalPrincipal
      interest == borrowData[v].totalInterest
      seniorInterest == SeniorShare(interest, loan.incomeRatio)
      juniorInterest == JuniorShare(interest, loan.incomeRatio)
      value == DiscountedFloor(twap.price) * Cardinality(loan.collateral)
      p == Proceeds(value, debt, seniorInterest, juniorInterest,
                    borrowData[v].totalFee)
  IN  /\ Qualified(loan)
      /\ now - twap.time <= conf.maxTwapStaleness
      /\ twap.price # 0
      /\ debt # 0
      /\ Discount(twap.price) >= 0 /\ DiscountedFloor(twap.price) >= 0
      /\ \A n \in loan.collateral : holder[n] = v
      /\ borrowState.totalDebt >= debt
      /\ borrowState.totalInterest >= interest
      /\ borrowState.totalSeniorInterest >= seniorInterest
      /\ borrowState.totalJuniorInterest >= juniorInterest
      /\ lien' = lien \ loan.collateral
      /\ loans' = [loans EXCEPT ![v][l] = NoLoan]
      /\ holder' = [n \in Nfts |->
           IF n \in loan.collateral THEN Outside ELSE holder[n]]
      \* paid or written down, the vault's totals leave the collection's
      /\ borrowState' =
           [totalDebt |-> borrowState.totalDebt - debt,
            totalInterest |-> borrowState.totalInterest - interest,
            totalSeniorInterest |->
              borrowState.totalSeniorInterest - seniorInterest,
            totalJuniorInterest |->
              borrowState.totalJuniorInterest - juniorInterest]
      /\ cash' = [cash EXCEPT
           !["senior"] = @ + p.principal + p.seniorInterest,
           !["junior"] = @ - JuniorCover(debt, value) + p.juniorInterest,
           !["treasury"] = @ + p.fee,
           !["diamond"] = @ + value + JuniorCover(debt, value) - p.principal
                            - p.seniorInterest - p.juniorInterest
                            - p.fee - p.surplus]
      /\ weth' = [weth EXCEPT ![v] = @ + p.surplus]
      /\ world' = world - value
      \* clearLoan and slashRep
      /\ repayRecord' = [repayRecord EXCEPT ![v] =
           [repaidTimes |-> @.repaidTimes + 1,
            defaultTimes |-> @.defaultTimes + 1]]
      /\ UNCHANGED <<marketVars, borrowData, eth, given>>

-----------------------------------------------------------------------------
(***************************************************************************)
(* VaultFacet: what the owner may do with a vault's assets.                *)
(***************************************************************************)
WithdrawNFT_Unguarded(v, n) ==
  /\ holder[n] = v
  /\ holder' = [holder EXCEPT ![n] = Outside]
  /\ UNCHANGED <<marketVars, bookVars, lien, moneyVars>>
WithdrawNFT(v, n) ==
  /\ holder[n] = v
  /\ n \notin lien
  /\ holder' = [holder EXCEPT ![n] = Outside]
  /\ UNCHANGED <<marketVars, bookVars, lien, moneyVars>>

\* Where owners and others may send ETH, and WETH: to vaults, to the protocol's
\* contracts, to anybody else.  (The tranches have no receive function.)
EthRecipients == Vaults \cup {"diamondEth", Outside}
WethRecipients == Vaults \cup (Accounts \ {"diamondEth"}) \cup {Outside}

Debited(balance, v, x) == [balance EXCEPT ![v] = @ - x]
Credited(balance, to, x) ==
  [a \in DOMAIN balance |-> IF a = to THEN balance[a] + x ELSE balance[a]]
Counted(to, x) == IF to \in Diamond THEN given + x ELSE given

RoomFor(to, x) ==
  /\ to \in Vaults => eth[to] + weth[to] + x <= MaxVault
  /\ to \in Accounts \ Diamond => cash[to] + x <= MaxCash
  /\ to \in Diamond => given + x <= MaxGiven

TransferETH(v, to, x) ==
  /\ x <= eth[v]
  /\ to \in Vaults \/ RoomFor(to, x)
  /\ eth' = Credited(Debited(eth, v, x), to, x)
  /\ cash' = Credited(cash, to, x)
  /\ world' = IF to = Outside THEN world + x ELSE world
  /\ given' = Counted(to, x)
  /\ UNCHANGED <<marketVars, bookVars, nftVars, weth>>

TransferCurrency(v, to, x) ==
  /\ x <= weth[v]
  /\ to \in Vaults \/ RoomFor(to, x)
  /\ weth' = Credited(Debited(weth, v, x), to, x)
  /\ cash' = Credited(cash, to, x)
  /\ world' = IF to = Outside THEN world + x ELSE world
  /\ given' = Counted(to, x)
  /\ UNCHANGED <<marketVars, bookVars, nftVars, eth>>

\* Payable, but it is the vault's ETH that is wrapped.
WrapVaultETH(v, x, sent) ==
  /\ x <= eth[v]
  /\ RoomFor("diamondEth", sent)
  /\ eth' = Debited(eth, v, x)
  /\ weth' = Credited(weth, v, x)
  /\ cash' = Credited(cash, "diamondEth", sent)
  /\ world' = world - sent
  /\ given' = given + sent
  /\ UNCHANGED <<marketVars, bookVars, nftVars>>

UnwrapVaultETH(v, x) ==
  /\ x <= weth[v]
  /\ weth' = Debited(weth, v, x)
  /\ eth' = Credited(eth, v, x)
  /\ UNCHANGED <<marketVars, bookVars, nftVars, cash, world, given>>

(***************************************************************************)
(* The surroundings: transfers from elsewhere, depositors, oracle,         *)
(* administrators and the clock.                                           *)
(***************************************************************************)
ReceiveETH(to, x) ==
  /\ RoomFor(to, x)
  /\ eth' = Credited(eth, to, x)
  /\ cash' = Credited(cash, to, x)
  /\ world' = world - x
  /\ given' = Counted(to, x)
  /\ UNCHANGED <<marketVars, bookVars, nftVars, weth>>

ReceiveCurrency(to, x) ==
  /\ RoomFor(to, x)
  /\ weth' = Credited(weth, to, x)
  /\ cash' = Credited(cash, to, x)
  /\ world' = world - x
  /\ given' = Counted(to, x)
  /\ UNCHANGED <<marketVars, bookVars, nftVars, eth>>

ReceiveNFT(v, n) ==
  /\ holder[n] = Outside
  /\ holder' = [holder EXCEPT ![n] = v]
  /\ UNCHANGED <<marketVars, bookVars, lien, moneyVars>>

\* Deposits into a tranche, and junior withdrawals or senior claims from it.
TrancheDeposit(tranche, x) ==
  /\ cash[tranche] + x <= MaxCash
  /\ cash' = [cash EXCEPT ![tranche] = @ + x]
  /\ world' = world - x
  /\ UNCHANGED <<marketVars, bookVars, nftVars, weth, eth, given>>

TrancheWithdraw(tranche, x) ==
  /\ x <= cash[tranche]
  /\ cash' = [cash EXCEPT ![tranche] = @ - x]
  /\ world' = world + x
  /\ UNCHANGED <<marketVars, bookVars, nftVars, weth, eth, given>>

UpdateTwap(price) ==
  /\ twap' = [price |-> price, time |-> now]
  /\ UNCHANGED <<now, conf, bookVars, nftVars, moneyVars>>

\* Any of ConfigurationFacet's setters, or several in a row.
Configure(c) ==
  /\ conf' = c
  /\ UNCHANGED <<now, twap, bookVars, nftVars, moneyVars>>

Tick ==
  /\ now < MaxTime
  /\ now' = now + 1
  /\ UNCHANGED <<twap, conf, bookVars, nftVars, moneyVars>>

-----------------------------------------------------------------------------
BuyStep ==
  \E v \in Vaults, n \in Nfts, price \in Prices, interest \in Interests,
     pending \in Pendings, currency \in Currencies, sent \in Gifts :
    \/ BuyNow(v, n, price, interest, pending, currency, sent)
    \/ \E value \in TwapPrices, time \in StartTime .. MaxTime :
         BuyNowV2(v, n, price, interest, pending, currency, sent, value, time)

RepayStep == \E v \in Vaults, l \in LoanIds : Repay(v, l)

LiquidateStep == \E v \in Vaults, l \in LoanIds : Liquidate(v, l)

NftStep ==
  \E v \in Vaults, n \in Nfts : WithdrawNFT(v, n) \/ ReceiveNFT(v, n)

VaultMoneyStep ==
  \E v \in Vaults, x \in Flows :
    \/ \E to \in EthRecipients : TransferETH(v, to, x)
    \/ \E to \in WethRecipients : TransferCurrency(v, to, x)
    \/ \E sent \in Gifts : WrapVaultETH(v, x, sent)
    \/ UnwrapVaultETH(v, x)
    \/ ReceiveETH(v, x) \/ ReceiveCurrency(v, x)

\* The diamond's receive function and WETH take a transfer from anybody.
GiftStep ==
  \E x \in Gifts : ReceiveETH("diamondEth", x) \/ ReceiveCurrency("diamond", x)

DepositorStep ==
  \E tranche \in {"senior", "junior"}, x \in Flows :
    TrancheDeposit(tranche, x) \/ TrancheWithdraw(tranche, x)

MarketStep ==
  \/ Tick
  \/ \E price \in TwapPrices : UpdateTwap(price)
  \/ \E c \in Confs : Configure(c)

Next ==
  \/ BuyStep \/ RepayStep \/ LiquidateStep
  \/ NftStep \/ VaultMoneyStep \/ GiftStep \/ DepositorStep \/ MarketStep

Spec == Init /\ [][Next]_vars

-----------------------------------------------------------------------------
(***************************************************************************)
(* Properties.  Those that need sums over loans are in LoanBookTotals.     *)
(***************************************************************************)

\* Every stored amount is a natural number: no unchecked subtraction of
\* LibLoan, RepaymentFacet or LiquidateFacet goes below zero.
TypeOK ==
  /\ now \in StartTime .. MaxTime
  /\ twap \in [price : Nat, time : Nat]
  /\ conf \in Confs
  /\ loans \in [Vaults -> [LoanIds -> Loan]]
  /\ borrowData \in [Vaults -> BorrowData]
  /\ borrowState \in BorrowState
  /\ repayRecord \in [Vaults -> [repaidTimes : Nat, defaultTimes : Nat]]
  /\ lien \in SUBSET Nfts
  /\ holder \in [Nfts -> Vaults \cup {Outside}]
  /\ cash \in [Accounts -> Nat]
  /\ weth \in [Vaults -> Nat]
  /\ eth \in [Vaults -> Nat]
  /\ world \in Int
  /\ given \in Nat

\* The NFTs that secure a loan are locked and are in the borrowing vault.
CollateralLocked ==
  \A v \in Vaults, l \in LoanIds : \A n \in loans[v][l].collateral :
    n \in lien /\ holder[n] = v

\* A locked NFT secures a loan that is still open: no lien outlives its loan.
LienHasLoan ==
  \A n \in lien : \E v \in Vaults, l \in LoanIds : n \in loans[v][l].collateral

\* No NFT secures two loans.
CollateralUnshared ==
  \A v, w \in Vaults, l, m \in LoanIds :
    loans[v][l].collateral \cap loans[w][m].collateral # {} => v = w /\ l = m

\* A loan number that was not handed out yet has no collateral.
FreshNumbersUnused ==
  \A v \in Vaults, l \in LoanIds :
    l >= borrowData[v].nextLoanNumber => loans[v][l].collateral = {}

\* nftIndex's isCollateral flag, the collateral lists of the loans and the
\* ERC-721 owner agree, through purchases, repayments, liquidations of the
\* wrong or of a closed loan, and withdrawals.
CollateralInCustody ==
  CollateralLocked /\ LienHasLoan /\ CollateralUnshared /\ FreshNumbersUnused

\* Purchases and liquidations route money through the diamond.  None leaves
\* any of it there, however short or rounded the proceeds, and none uses what
\* is there already: the diamond holds what it was sent for nothing (msg.value
\* of buyNow, buyNowV2 and wrapVaultETH, transfers of vault owners and of
\* others), although unwrapWETH9 unwraps that as well.
StrayMoneyStays == cash["diamond"] + cash["diamondEth"] = given

\* The combined ETH + WETH check of _initializeLoan suffices for the wraps,
\* unwraps and payments of _executeBuyNow in either currency, which are
\* computed from the two balances separately.  (Amounts above the combined
\* balance do not pass the check.)
CombinedCheckSuffices ==
  \A v \in Vaults, currency \in Currencies, outstanding \in Prices :
    \A downpayment, dues \in 0 .. eth[v] + weth[v] :
      CombinedBalanceCovers(v, downpayment, dues)
        => SettlementSucceeds(v, currency, downpayment, dues, outstanding)

\* A financed NFT leaves its vault only with a default on the loan it
\* secures, and that loan was more than the grace period behind on the
\* instalment after the ones paid.
Defaulted(n) ==
  \E v \in Vaults, l \in LoanIds :
    /\ n \in loans[v][l].collateral
    /\ now > loans[v][l].borrowAt + loans[v][l].paidTimes * loans[v][l].epoch
               + conf.gracePeriod
    /\ repayRecord'[v].defaultTimes = repayRecord[v].defaultTimes + 1

CollateralLeavesOnDefault ==
  [][\A n \in lien : holder'[n] # holder[n] => Defaulted(n)]_vars

\* The principal lent by the senior tranche, in cash or in loans, shrinks
\* through lending only when the junior tranche has no cash left to give.
SeniorPrincipal == cash["senior"] + borrowState.totalDebt

JuniorLosesFirst ==
  [][SeniorPrincipal' < SeniorPrincipal =>
       \/ cash'["junior"] = 0
       \/ \E x \in Flows : TrancheWithdraw("senior", x)]_vars

\* What the step 2 comment of liquidate says it checks: the debt is one that
\* may be liquidated, that is an open loan which is overdue.
OnlyOverdueLoansLiquidated ==
  [][\A v \in Vaults, l \in LoanIds :
       Liquidate(v, l) => Live(v, l) /\ Qualified(loans[v][l])]_vars
=============================================================================
