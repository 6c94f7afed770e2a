---------------------- MODULE SeniorDepositTokenProofs ----------------------
(***************************************************************************)
(* Safety of the senior deposit token for any finite set of holders and    *)
(* any amounts: its running totals are the sums they stand for, what the   *)
(* lender is told to keep covers every queued claim, a claim settles, and  *)
(* no holder's call dilutes the others.                                    *)
(***************************************************************************)
EXTENDS SeniorDepositToken, NumberLemmas

-----------------------------------------------------------------------------
(***************************************************************************)
(* ERC-4626 conversions.                                                   *)
(***************************************************************************)

\* What shares are worth: a natural number, rounded down.
LEMMA WorthRoundsDown ==
  ASSUME NEW shares \in Nat, NEW s \in Nat, NEW t \in Nat
  PROVE  /\ ConvertToAssets(shares, s, t) \in Nat
         /\ s # 0 => s * ConvertToAssets(shares, s, t) <= shares * t
<1>1. CASE s = 0
  BY <1>1 DEF ConvertToAssets
<1>2. CASE s # 0
  <2>1. shares * t \in Nat
    BY ProductType
  <2>2. QED
    BY <1>2, <2>1, QuotientFloor DEF ConvertToAssets, MulDivDown
<1>3. QED
  BY <1>1, <1>2

\* What a withdrawal burns: the fewest shares worth at least the amount.
LEMMA BurnRoundsUp ==
  ASSUME NEW assets \in Nat, NEW s \in Nat, NEW t \in Nat, Convertible(s, t)
  PROVE  /\ PreviewWithdraw(assets, s, t) \in Nat
         /\ s # 0 => /\ assets * s <= t * PreviewWithdraw(assets, s, t)
                     /\ \A k \in Nat : assets * s <= t * k
                                         => PreviewWithdraw(assets, s, t) <= k
<1>1. CASE s = 0
  BY <1>1 DEF PreviewWithdraw
<1>2. CASE s # 0
  <2>1. assets * s \in Nat /\ t \in Nat \ {0}
    BY <1>2, ProductType DEF Convertible
  <2>2. QED
    BY <1>2, <2>1, QuotientUp DEF PreviewWithdraw, MulDivUp
<1>3. QED
  BY <1>1, <1>2

\* What a deposit issues: at most its fraction of the shares.
LEMMA IssueRoundsDown ==
  ASSUME NEW assets \in Nat, NEW s \in Nat, NEW t \in Nat, Convertible(s, t)
  PROVE  /\ ConvertToShares(assets, s, t) \in Nat
         /\ s # 0 => t * ConvertToShares(assets, s, t) <= assets * s
<1>1. CASE s = 0
  BY <1>1 DEF ConvertToShares
<1>2. CASE s # 0
  <2>1. assets * s \in Nat /\ t \in Nat \ {0}
    BY <1>2, ProductType DEF Convertible
  <2>2. QED
    BY <1>2, <2>1, QuotientFloor DEF ConvertToShares, MulDivDown
<1>3. QED
  BY <1>1, <1>2

\* What minting shares costs: at least their fraction of the assets.
LEMMA MintRoundsUp ==
  ASSUME NEW shares \in Nat, NEW s \in Nat, NEW t \in Nat
  PROVE  /\ PreviewMint(shares, s, t) \in Nat
         /\ s # 0 => shares * t <= s * PreviewMint(shares, s, t)
<1>1. CASE s = 0
  BY <1>1 DEF PreviewMint
<1>2. CASE s # 0
  <2>1. shares * t \in Nat
    BY ProductType
  <2>2. QED
    BY <1>2, <2>1, QuotientUp DEF PreviewMint, MulDivUp
<1>3. QED
  BY <1>1, <1>2

-----------------------------------------------------------------------------
(***************************************************************************)
(* Totals over the holders.                                                *)
(***************************************************************************)
LEMMA TotalIsSum ==
  ASSUME NEW f, DOMAIN f = Users
  PROVE  SumFunction(f) = SumFunctionOnSet(f, Users)
BY DEF SumFunction

LEMMA TotalChanged ==
  ASSUME NEW f \in [Users -> Int], NEW g \in [Users -> Int],
         NEW u \in Users, NEW d \in Int,
         g[u] = f[u] + d, \A x \in Users \ {u} : g[x] = f[x]
  PROVE  SumFunction(g) = SumFunction(f) + d
<1>1. SumFunctionOnSet(g, Users) = SumFunctionOnSet(f, Users) + g[u] - f[u]
  BY SeniorAssumption, SumChanged
<1>2. SumFunctionOnSet(f, Users) \in Int
  BY SeniorAssumption, SumInt
<1>3. QED
  BY <1>1, <1>2, TotalIsSum

LEMMA TotalCovers ==
  ASSUME NEW f \in [Users -> Nat], NEW u \in Users
  PROVE  SumFunction(f) \in Nat /\ f[u] <= SumFunction(f)
<1>1. \A x \in Users : f[x] \in Nat
  OBVIOUS
<1>2. SumFunctionOnSet(f, Users) \in Nat /\ f[u] <= SumFunctionOnSet(f, Users)
  BY <1>1, SeniorAssumption, SumNat, SumCovers
<1>3. QED
  BY <1>2, TotalIsSum

\* The inductive invariant: the types and the totals need each other, since a
\* total may only be reduced because it covers the summand that is.
Totalled == TypeOK /\ QueueTotals

LEMMA InitTotalled == Init => Totalled
<1>1. SUFFICES ASSUME Init
               PROVE  Totalled
  OBVIOUS
<1>2. TypeOK
  BY <1>1, SeniorAssumption DEF Init, TypeOK, Unbonding
<1>3. ASSUME NEW f, f = [u \in Users |-> 0]
      PROVE  SumFunction(f) = 0
  <2>1. SumFunctionOnSet(f, Users) = Cardinality(Users) * 0
    BY <1>3, SeniorAssumption, SumOfEqual
  <2>2. Cardinality(Users) \in Nat
    BY SeniorAssumption, FS_CardinalityType
  <2>3. QED
    BY <1>3, <2>1, <2>2, TotalIsSum
<1>4. QueuedShares = [u \in Users |-> 0] /\ QueuedMax = [u \in Users |-> 0]
  BY <1>1 DEF Init, QueuedShares, QueuedMax
<1>5. QueueTotals
  BY <1>1, <1>3, <1>4 DEF Init, QueueTotals
<1>6. QED
  BY <1>2, <1>5 DEF Totalled

LEMMA QueueTyped ==
  TypeOK => /\ QueuedShares \in [Users -> Nat] /\ QueuedMax \in [Users -> Nat]
            /\ TotalAssets \in Nat /\ supply \in Nat /\ cash \in Nat
BY SeniorAssumption DEF TypeOK, Unbonding, QueuedShares, QueuedMax, TotalAssets

LEMMA IssueKeeps ==
  ASSUME Totalled, NEW u \in Users, NEW assets \in Nat, NEW shares \in Nat,
         Issue(u, assets, shares)
  PROVE  Totalled'
<1> USE DEF Totalled
<1>1. TypeOK'
  BY SeniorAssumption DEF TypeOK, Issue, queueVars
<1>2. SumFunction(balances') = SumFunction(balances) + shares
  <2>1. balances \in [Users -> Int] /\ balances' \in [Users -> Int]
    BY <1>1 DEF TypeOK
  <2>2. balances'[u] = balances[u] + shares
        /\ \A x \in Users \ {u} : balances'[x] = balances[x]
    BY DEF Issue, TypeOK
  <2>3. QED
    BY <2>1, <2>2, TotalChanged
<1>3. QueueTotals'
  BY <1>2 DEF QueueTotals, Issue, queueVars, QueuedShares, QueuedMax
<1>4. QED
  BY <1>1, <1>3

LEMMA PushKeeps ==
  ASSUME Totalled, NEW u \in Users, NEW shares \in Nat, NEW amount \in Nat,
         PushWithdraw(u, shares, amount), UNCHANGED <<cash, owed, tokenVars>>
  PROVE  Totalled'
<1> USE DEF Totalled
<1>1. TypeOK'
  <2>1. unbondings' \in [Users -> Unbonding]
    <3>1. unbondings[u].shares \in Nat /\ unbondings[u].maxUnderlying \in Nat
      BY DEF TypeOK, Unbonding
    <3>2. QED
      BY <3>1 DEF TypeOK, Unbonding, PushWithdraw
  <2>2. QED
    BY <2>1 DEF TypeOK, PushWithdraw, tokenVars
<1>2. /\ QueuedShares \in [Users -> Int] /\ QueuedShares' \in [Users -> Int]
      /\ QueuedMax \in [Users -> Int] /\ QueuedMax' \in [Users -> Int]
  BY <1>1 DEF TypeOK, Unbonding, QueuedShares, QueuedMax
<1>3. /\ QueuedShares'[u] = QueuedShares[u] + shares
      /\ QueuedMax'[u] = QueuedMax[u] + amount
      /\ \A x \in Users \ {u} : /\ QueuedShares'[x] = QueuedShares[x]
                                /\ QueuedMax'[x] = QueuedMax[x]
  BY DEF TypeOK, Unbonding, PushWithdraw, QueuedShares, QueuedMax
<1>4. /\ SumFunction(QueuedShares') = SumFunction(QueuedShares) + shares
      /\ SumFunction(QueuedMax') = SumFunction(QueuedMax) + amount
  BY <1>2, <1>3, TotalChanged
<1>5. QueueTotals'
  BY <1>4 DEF QueueTotals, PushWithdraw, tokenVars
<1>6. QED
  BY <1>1, <1>5

\* A claim takes no more than there is, than was queued and than the burnt
\* shares are worth; its shares, rounded up, are no more than were queued.
LEMMA ReductionBacked ==
  ASSUME Totalled, NEW u \in Users, NEW r, r = ClaimReduction(u)
  PROVE  /\ r.assets \in Nat /\ r.shares \in Nat
         /\ r.assets <= cash /\ r.assets <= unbondings[u].maxUnderlying
         /\ r.shares <= unbondings[u].shares
         /\ supply # 0 => r.assets * supply <= TotalAssets * r.shares
<1>1. PICK q \in Nat, m \in Nat : q = unbondings[u].shares /\ m = unbondings[u].maxUnderlying
  BY DEF Totalled, TypeOK, Unbonding
<1>2. PICK w \in Nat : w = ToAssets(q) /\ (supply # 0 => supply * w <= q * TotalAssets)
  BY QueueTyped, WorthRoundsDown DEF Totalled, ToAssets
<1>3. Claimable(u) \in Nat /\ Claimable(u) <= w /\ Claimable(u) <= m
  BY <1>1, <1>2 DEF Claimable
<1>4. CASE cash >= Claimable(u)
  <2>1. r.assets = Claimable(u) /\ r.shares = q
    BY <1>1, <1>4 DEF ClaimReduction
  <2>2. PICK c \in Nat : c = Claimable(u) /\ c <= w
    BY <1>3
  <2>3. ASSUME supply # 0
        PROVE  c * supply <= TotalAssets * q
    <3>1. supply * c <= supply * w
      BY <2>2, QueueTyped, ProductMonotone DEF Totalled
    <3>2. supply * c \in Nat /\ supply * w \in Nat /\ q * TotalAssets \in Nat
      BY QueueTyped, ProductType DEF Totalled
    <3>3. c * supply = supply * c /\ q * TotalAssets = TotalAssets * q
      BY QueueTyped DEF Totalled
    <3>4. QED
      BY <1>2, <2>3, <3>1, <3>2, <3>3
  <2>4. QED
    BY <1>1, <1>3, <1>4, <2>1, <2>2, <2>3
<1>5. CASE ~(cash >= Claimable(u))
  <2>1. r.assets = cash /\ r.shares = ToSharesUp(cash)
    BY <1>5 DEF ClaimReduction
  <2>2. cash \in Nat /\ supply \in Nat /\ TotalAssets \in Nat /\ cash + 1 <= w /\ cash <= m
    BY <1>3, <1>5, QueueTyped DEF Totalled
  <2>3. CASE supply = 0
    <3>1. w = q /\ r.shares = cash
      BY <1>2, <2>1, <2>3 DEF ToAssets, ToSharesUp, ConvertToAssets, PreviewWithdraw
    <3>2. QED
      BY <1>1, <2>1, <2>2, <2>3, <3>1
  <2>4. CASE supply # 0
    <3>1. cash * supply <= TotalAssets * q
      <4>1. supply * cash <= supply * w
        BY <2>2, ProductMonotone
      <4>2. supply * cash \in Nat /\ supply * w \in Nat /\ q * TotalAssets \in Nat
        BY <2>2, ProductType
      <4>3. cash * supply = supply * cash /\ q * TotalAssets = TotalAssets * q
        BY <2>2
      <4>4. QED
        BY <1>2, <2>4, <4>1, <4>2, <4>3
    <3>2. TotalAssets # 0
      <4>1. SUFFICES ASSUME TotalAssets = 0
                     PROVE  FALSE
        OBVIOUS
      <4>2. supply * w <= 0
        BY <1>2, <2>4, <4>1
      <4>3. supply >= 1 /\ w >= 1
        BY <2>2, <2>4
      <4>4. supply * 1 <= supply * w
        BY <2>2, <4>3, ProductMonotone
      <4>5. QED
        BY <2>2, <4>2, <4>3, <4>4
    <3>3. /\ r.shares \in Nat
          /\ cash * supply <= TotalAssets * r.shares
          /\ \A k \in Nat : cash * supply <= TotalAssets * k => r.shares <= k
      BY <2>1, <2>2, <2>4, <3>2, BurnRoundsUp DEF ToSharesUp, Convertible
    <3>4. r.shares <= q
      BY <3>1, <3>3
    <3>5. QED
      BY <1>1, <2>1, <2>2, <3>3, <3>4
  <2>5. QED
    BY <2>3, <2>4
<1>6. QED
  BY <1>4, <1>5

LEMMA ClaimKeeps ==
  ASSUME Totalled, NEW u \in Users, Claim(u)
  PROVE  Totalled'
<1> USE DEF Totalled
<1>1. PICK r : r = ClaimReduction(u)
  OBVIOUS
<1>2. r.assets \in Nat /\ r.shares \in Nat
  BY <1>1, ReductionBacked
<1>3. /\ r.shares <= unbondings[u].shares /\ r.shares <= totalUnbonding
      /\ r.assets <= unbondings[u].maxUnderlying
      /\ r.assets <= totalMaxUnderlying
      /\ r.shares <= balances[u] /\ r.assets <= cash
      /\ unbondings' = [unbondings EXCEPT ![u] =
           [shares |-> @.shares - r.shares, maxUnderlying |-> @.maxUnderlying - r.assets]]
      /\ totalMaxUnderlying' = totalMaxUnderlying - r.assets
      /\ totalUnbonding' = totalUnbonding - r.shares
      /\ balances' = [balances EXCEPT ![u] = @ - r.shares]
      /\ supply' = supply - r.shares
      /\ cash' = cash - r.assets
      /\ owed' = owed
  BY <1>1 DEF Claim, ClaimSettles
<1>4. r.shares <= supply
  <2>1. balances[u] <= SumFunction(balances) /\ balances \in [Users -> Nat]
    BY TotalCovers DEF TypeOK
  <2>2. QED
    BY <1>2, <1>3, <2>1 DEF QueueTotals, TypeOK
<1>5. TypeOK'
  <2>1. unbondings' \in [Users -> Unbonding]
    <3>1. unbondings[u].shares \in Nat /\ unbondings[u].maxUnderlying \in Nat
      BY DEF TypeOK, Unbonding
    <3>2. unbondings[u].shares - r.shares \in Nat /\ unbondings[u].maxUnderlying - r.assets \in Nat
      BY <1>2, <1>3, <3>1
    <3>3. QED
      BY <1>3, <3>2 DEF TypeOK, Unbonding
  <2>2. balances' \in [Users -> Nat]
    BY <1>2, <1>3 DEF TypeOK
  <2>3. /\ cash' \in 0 .. MaxCash /\ supply' \in 0 .. MaxSupply /\ owed' \in 0 .. MaxOwed
        /\ totalMaxUnderlying' \in Nat /\ totalUnbonding' \in Nat
    BY <1>2, <1>3, <1>4, SeniorAssumption DEF TypeOK
  <2>4. QED
    BY <2>1, <2>2, <2>3 DEF TypeOK
<1>6. /\ QueuedShares \in [Users -> Int] /\ QueuedShares' \in [Users -> Int]
      /\ QueuedMax \in [Users -> Int] /\ QueuedMax' \in [Users -> Int]
      /\ balances \in [Users -> Int] /\ balances' \in [Users -> Int]
  BY <1>5 DEF TypeOK, Unbonding, QueuedShares, QueuedMax
<1>7. /\ QueuedShares'[u] = QueuedShares[u] + (-r.shares)
      /\ QueuedMax'[u] = QueuedMax[u] + (-r.assets)
      /\ balances'[u] = balances[u] + (-r.shares)
      /\ \A x \in Users \ {u} : /\ QueuedShares'[x] = QueuedShares[x]
                                /\ QueuedMax'[x] = QueuedMax[x]
                                /\ balances'[x] = balances[x]
  BY <1>2, <1>3 DEF TypeOK, Unbonding, QueuedShares, QueuedMax
<1>8. -r.shares \in Int /\ -r.assets \in Int
  BY <1>2
<1>9. /\ SumFunction(QueuedShares') = SumFunction(QueuedShares) + (-r.shares)
      /\ SumFunction(QueuedMax') = SumFunction(QueuedMax) + (-r.assets)
      /\ SumFunction(balances') = SumFunction(balances) + (-r.shares)
  BY <1>6, <1>7, <1>8, TotalChanged
<1>10. QueueTotals'
  BY <1>2, <1>3, <1>9 DEF QueueTotals, TypeOK
<1>11. QED
  BY <1>5, <1>10

LEMMA TransferKeeps ==
  ASSUME Totalled, NEW u \in Users, NEW w \in Users, NEW shares \in Nat,
         Transfer(u, w, shares)
  PROVE  Totalled'
<1> USE DEF Totalled
<1>1. /\ balances \in [Users -> Int] /\ u # w /\ shares <= balances[u]
      /\ balances' = [balances EXCEPT ![u] = @ - shares, ![w] = @ + shares]
      /\ UNCHANGED <<cash, owed, supply, unbondings, totalMaxUnderlying, totalUnbonding>>
  BY DEF Transfer, TypeOK, queueVars
<1>2. TypeOK'
  <2>1. balances' \in [Users -> Nat]
    BY <1>1 DEF TypeOK
  <2>2. QED
    BY <1>1, <2>1 DEF TypeOK
<1>3. PICK b : b = [balances EXCEPT ![u] = @ - shares]
  OBVIOUS
<1>4. /\ b \in [Users -> Int] /\ balances' \in [Users -> Int]
      /\ b[u] = balances[u] + (-shares) /\ \A x \in Users \ {u} : b[x] = balances[x]
      /\ balances'[w] = b[w] + shares /\ \A x \in Users \ {w} : balances'[x] = b[x]
  BY <1>1, <1>3
<1>5. -shares \in Int /\ shares \in Int
  OBVIOUS
<1>6. SumFunction(b) = SumFunction(balances) + (-shares)
  BY <1>1, <1>4, <1>5, TotalChanged
<1>7. SumFunction(balances') = SumFunction(b) + shares
  BY <1>4, <1>5, TotalChanged
<1>8. SumFunction(balances') = SumFunction(balances)
  BY <1>6, <1>7 DEF QueueTotals, TypeOK
<1>9. QueueTotals'
  BY <1>1, <1>8 DEF QueueTotals, QueuedShares, QueuedMax
<1>10. QED
  BY <1>2, <1>9

LEMMA LoansKeep ==
  ASSUME Totalled, LoanStep
  PROVE  Totalled'
<1> USE DEF Totalled
<1>1. /\ UNCHANGED <<balances, supply, unbondings, totalMaxUnderlying, totalUnbonding>>
      /\ cash' \in 0 .. MaxCash /\ owed' \in 0 .. MaxOwed
  <2>1. CASE LendStep
    <3>1. PICK principal \in Amounts, interest \in Amounts \cup {0} : Lend(principal, interest)
      BY <2>1 DEF LendStep
    <3>2. principal \in Nat /\ interest \in Nat
      BY SeniorAssumption
    <3>3. cash - TotalUnbondingAsset >= principal /\ TotalUnbondingAsset \in Nat
      <4>1. ToAssets(totalUnbonding) \in Nat
        BY QueueTyped, WorthRoundsDown DEF ToAssets, TypeOK
      <4>2. QED
        BY <3>1, <4>1 DEF Lend, TotalUnbondingAsset, TypeOK
    <3>4. QED
      BY <3>1, <3>2, <3>3, SeniorAssumption DEF Lend, TypeOK, tokenVars, queueVars
  <2>2. CASE \E x \in Amounts : Collect(x) \/ WriteDown(x) \/ Gain(x)
    <3>1. PICK x \in Amounts : Collect(x) \/ WriteDown(x) \/ Gain(x)
      BY <2>2
    <3>2. x \in Nat
      BY SeniorAssumption
    <3>3. QED
      BY <3>1, <3>2, SeniorAssumption
         DEF Collect, WriteDown, Gain, TypeOK, tokenVars, queueVars
  <2>3. QED
    BY <2>1, <2>2 DEF LoanStep
<1>2. TypeOK' /\ QueueTotals'
  BY <1>1 DEF TypeOK, QueueTotals, QueuedShares, QueuedMax
<1>3. QED
  BY <1>2

LEMMA WithdrawKeeps ==
  ASSUME Totalled, NEW u \in Users, NEW assets \in Nat, Withdraw(u, assets)
  PROVE  Totalled'
<1>1. ToSharesUp(assets) \in Nat
  BY QueueTyped, BurnRoundsUp DEF Totalled, Withdraw, ToSharesUp
<1>2. QED
  BY <1>1, PushKeeps DEF Withdraw

\* What the cap of LiquidityFacet.withdraw comes to is withdrawn.
LEMMA CappedType ==
  ASSUME Totalled, NEW u \in Users, Held(u), NEW assets \in Nat
  PROVE  (IF assets > MaxWithdraw(u) THEN MaxWithdraw(u) ELSE assets) \in Nat
<1>1. Free(u) \in Nat
  BY DEF Held, Free, Totalled, TypeOK, Unbonding
<1>2. MaxWithdraw(u) \in Nat
  BY <1>1, QueueTyped, WorthRoundsDown DEF Totalled, MaxWithdraw, ToAssets
<1>3. QED
  BY <1>2

LEMMA NextKeeps == Totalled /\ [Next]_vars => Totalled'
<1>1. SUFFICES ASSUME Totalled, [Next]_vars
               PROVE  Totalled'
  OBVIOUS
<1>2. CASE HolderStep
  <2>1. PICK u \in Users, x \in Amounts :
          \/ Deposit(u, x) \/ Mint(u, x)
          \/ Withdraw(u, x) \/ VoyageWithdraw(u, x) \/ Redeem(u, x)
          \/ Claim(u)
          \/ \E w \in Users : Transfer(u, w, x)
    BY <1>2 DEF HolderStep
  <2>2. x \in Nat /\ supply \in Nat /\ TotalAssets \in Nat
    BY <1>1, SeniorAssumption, QueueTyped DEF Totalled
  <2>3. CASE Deposit(u, x)
    <3>1. ConvertToShares(x, supply, TotalAssets) \in Nat
      BY <2>2, <2>3, IssueRoundsDown DEF Deposit
    <3>2. QED
      BY <1>1, <2>2, <2>3, <3>1, IssueKeeps DEF Deposit
  <2>4. CASE Mint(u, x)
    <3>1. PreviewMint(x, supply, TotalAssets) \in Nat
      BY <2>2, MintRoundsUp
    <3>2. QED
      BY <1>1, <2>2, <2>4, <3>1, IssueKeeps DEF Mint
  <2>5. CASE Withdraw(u, x)
    BY <1>1, <2>2, <2>5, WithdrawKeeps
  <2>6. CASE VoyageWithdraw(u, x)
    <3>1. PICK a \in Nat : Withdraw(u, a)
      BY <1>1, <2>2, <2>6, CappedType DEF VoyageWithdraw
    <3>2. QED
      BY <1>1, <3>1, WithdrawKeeps
  <2>7. CASE Redeem(u, x)
    <3>1. ToAssets(x) \in Nat
      BY <2>2, WorthRoundsDown DEF ToAssets
    <3>2. QED
      BY <1>1, <2>2, <2>7, <3>1, PushKeeps DEF Redeem
  <2>8. CASE Claim(u)
    BY <1>1, <2>8, ClaimKeeps
  <2>9. CASE \E w \in Users : Transfer(u, w, x)
    BY <1>1, <2>2, <2>9, TransferKeeps
  <2>10. QED
    BY <2>1, <2>3, <2>4, <2>5, <2>6, <2>7, <2>8, <2>9
<1>3. CASE LoanStep
  BY <1>1, <1>3, LoansKeep
<1>4. CASE UNCHANGED vars
  BY <1>1, <1>4 DEF vars, tokenVars, queueVars, Totalled, TypeOK, QueueTotals, QueuedShares, QueuedMax
<1>5. QED
  BY <1>1, <1>2, <1>3, <1>4 DEF Next

LEMMA AlwaysTotalled == Spec => []Totalled
<1>1. QED
  BY InitTotalled, NextKeeps, PTL DEF Spec

\* Every stored amount of the token is a natural number within the bounds.
THEOREM AmountsTyped == Spec => []TypeOK
<1>1. Totalled => TypeOK
  BY DEF Totalled
<1>2. QED
  BY <1>1, AlwaysTotalled, PTL

\* supply, totalUnbonding and totalMaxUnderlying, which the contract only
\* ever adds to and subtracts from, are the sums over the holders.
THEOREM TotalsExact == Spec => []QueueTotals
<1>1. Totalled => QueueTotals
  BY DEF Totalled
<1>2. QED
  BY <1>1, AlwaysTotalled, PTL

-----------------------------------------------------------------------------
(***************************************************************************)
(* The queue and the lender.                                               *)
(***************************************************************************)

\* The minimum of the totals is at least the sum of the minima: each total
\* bounds the sum on its own, and the quotients of the parts, each rounded
\* down, do not exceed the quotient of the total.
LEMMA PendingCovers == Totalled => PendingCoversClaims
<1>1. SUFFICES ASSUME Totalled
               PROVE  SumFunction(Claims) <= TotalUnbondingAsset
  BY DEF PendingCoversClaims
<1>2. PICK worths : worths = [u \in Users |-> ToAssets(QueuedShares[u])]
  OBVIOUS
<1>3. ASSUME NEW u \in Users
      PROVE  /\ Claims[u] \in Nat /\ QueuedMax[u] \in Nat /\ worths[u] \in Nat
             /\ QueuedShares[u] \in Nat
             /\ Claims[u] <= QueuedMax[u] /\ Claims[u] <= worths[u]
  <2>1. QueuedShares[u] \in Nat /\ QueuedMax[u] \in Nat
    BY <1>1, QueueTyped DEF Totalled
  <2>2. worths[u] \in Nat
    BY <1>1, <1>2, <2>1, QueueTyped, WorthRoundsDown DEF Totalled, ToAssets
  <2>3. Claims[u] = IF QueuedMax[u] < worths[u] THEN QueuedMax[u] ELSE worths[u]
    BY <1>2 DEF Claims, Claimable, QueuedMax, QueuedShares
  <2>4. QED
    BY <2>1, <2>2, <2>3
<1>4. /\ IsFiniteSet(Users)
      /\ SumFunction(Claims) = SumFunctionOnSet(Claims, Users)
      /\ totalMaxUnderlying = SumFunctionOnSet(QueuedMax, Users)
      /\ totalUnbonding = SumFunctionOnSet(QueuedShares, Users)
  BY <1>1, SeniorAssumption DEF SumFunction, Claims, QueuedMax, QueuedShares, Totalled, QueueTotals
<1>5. SumFunctionOnSet(Claims, Users) <= totalMaxUnderlying
  BY <1>3, <1>4, SumAtMost
<1>6. SumFunctionOnSet(Claims, Users) <= SumFunctionOnSet(worths, Users)
  BY <1>3, <1>4, SumAtMost
<1>7. SumFunctionOnSet(worths, Users) <= ToAssets(totalUnbonding)
  <2>1. CASE supply = 0
    <3>1. \A u \in Users : QueuedShares[u] \in Int /\ worths[u] = QueuedShares[u]
      BY <1>2, <1>3, <2>1 DEF ToAssets, ConvertToAssets
    <3>2. SumFunctionOnSet(worths, Users) = SumFunctionOnSet(QueuedShares, Users)
      BY <1>4, <3>1, SumOfSame
    <3>3. ToAssets(totalUnbonding) = totalUnbonding /\ totalUnbonding \in Nat
      BY <1>1, <2>1 DEF ToAssets, ConvertToAssets, Totalled, TypeOK
    <3>4. QED
      BY <1>4, <3>2, <3>3
  <2>2. CASE supply # 0
    <3>1. supply \in Nat \ {0} /\ TotalAssets \in Nat
      BY <1>1, <2>2, QueueTyped DEF Totalled
    <3>2. \A u \in Users : /\ QueuedShares[u] \in Nat
                           /\ worths[u] = (QueuedShares[u] * TotalAssets) \div supply
      BY <1>2, <1>3, <2>2 DEF ToAssets, ConvertToAssets, MulDivDown
    <3>3. SumFunctionOnSet(worths, Users)
            <= (SumFunctionOnSet(QueuedShares, Users) * TotalAssets) \div supply
      BY <1>4, <3>1, <3>2, SumOfQuotients
    <3>4. QED
      BY <1>4, <2>2, <3>3 DEF ToAssets, ConvertToAssets, MulDivDown
  <2>3. QED
    BY <2>1, <2>2
<1>8. SumFunctionOnSet(Claims, Users) \in Int /\ SumFunctionOnSet(worths, Users) \in Int
  BY <1>3, <1>4, SumInt
<1>9. ToAssets(totalUnbonding) \in Nat
  BY <1>1, QueueTyped, WorthRoundsDown DEF Totalled, TypeOK, ToAssets
<1>10. QED
  BY <1>1, <1>4, <1>5, <1>6, <1>7, <1>8, <1>9 DEF TotalUnbondingAsset

\* What the lender is told to keep is enough for every queued claim.
THEOREM QueueIsCovered == Spec => []PendingCoversClaims
<1>1. QED
  BY AlwaysTotalled, PendingCovers, PTL

LEMMA LendLeavesCash ==
  Totalled /\ [Next]_vars => [LendStep => SumFunction(Claims) <= cash']_vars
<1>1. SUFFICES ASSUME Totalled, LendStep
               PROVE  SumFunction(Claims) <= cash'
  OBVIOUS
<1>2. PICK principal \in Amounts, interest \in Amounts \cup {0} : Lend(principal, interest)
  BY <1>1 DEF LendStep
<1>3. principal \in Nat /\ cash \in Nat
  BY <1>1, SeniorAssumption, QueueTyped DEF Totalled
<1>4. TotalUnbondingAsset \in Nat
  <2>1. ToAssets(totalUnbonding) \in Nat
    BY <1>1, QueueTyped, WorthRoundsDown DEF Totalled, ToAssets, TypeOK
  <2>2. QED
    BY <1>1, <2>1 DEF TotalUnbondingAsset, Totalled, TypeOK
<1>5. TotalUnbondingAsset <= cash'
  BY <1>2, <1>3, <1>4 DEF Lend
<1>6. SumFunction(Claims) <= TotalUnbondingAsset
  BY <1>1, PendingCovers DEF PendingCoversClaims
<1>7. SumFunction(Claims) \in Int
  <2>1. ASSUME NEW u \in Users
        PROVE  Claims[u] \in Int
    <3>1. unbondings[u].shares \in Nat /\ unbondings[u].maxUnderlying \in Nat
      BY <1>1 DEF Totalled, TypeOK, Unbonding
    <3>2. ToAssets(unbondings[u].shares) \in Nat
      BY <1>1, <3>1, QueueTyped, WorthRoundsDown DEF Totalled, ToAssets
    <3>3. QED
      BY <3>1, <3>2 DEF Claims, Claimable
  <2>2. SumFunctionOnSet(Claims, Users) \in Int
    BY <2>1, SeniorAssumption, SumInt
  <2>3. QED
    BY <2>2, TotalIsSum DEF Claims
<1>8. cash' \in Int
  BY <1>2, <1>3 DEF Lend
<1>9. QED
  BY <1>4, <1>5, <1>6, <1>7, <1>8

\* A loan leaves the cash every queued withdrawal could have claimed.
THEOREM LendingSparesQueue == Spec => LoansLeaveQueueCash
<1>1. QED
  BY AlwaysTotalled, LendLeavesCash, PTL DEF Spec, LoansLeaveQueueCash

-----------------------------------------------------------------------------
(***************************************************************************)
(* The holders.                                                            *)
(***************************************************************************)
LEMMA ClaimSettlesForHolder == Totalled => ClaimNeverReverts
<1>1. SUFFICES ASSUME Totalled, NEW u \in Users, Held(u)
               PROVE  ClaimSettles(u, ClaimReduction(u))
  BY DEF ClaimNeverReverts
<1>2. PICK r : r = ClaimReduction(u)
  OBVIOUS
<1>3. /\ r.assets \in Nat /\ r.shares \in Nat
      /\ r.assets <= cash /\ r.assets <= unbondings[u].maxUnderlying
      /\ r.shares <= unbondings[u].shares
  BY <1>1, <1>2, ReductionBacked
<1>4. unbondings[u].shares <= totalUnbonding /\ unbondings[u].maxUnderlying <= totalMaxUnderlying
  <2>1. QueuedShares[u] <= SumFunction(QueuedShares) /\ QueuedMax[u] <= SumFunction(QueuedMax)
    BY <1>1, QueueTyped, TotalCovers DEF Totalled
  <2>2. QED
    BY <1>1, <2>1 DEF QueuedShares, QueuedMax, Totalled, QueueTotals
<1>5. /\ unbondings[u].shares \in Nat /\ unbondings[u].maxUnderlying \in Nat
      /\ totalUnbonding \in Nat /\ totalMaxUnderlying \in Nat /\ balances[u] \in Nat
      /\ unbondings[u].shares <= balances[u]
  BY <1>1 DEF Totalled, TypeOK, Unbonding, Held, Free
<1>6. QED
  BY <1>2, <1>3, <1>4, <1>5 DEF ClaimSettles

\* A claim settles for whoever still holds the shares it queued.
THEOREM ClaimsSettle == Spec => []ClaimNeverReverts
<1>1. QED
  BY AlwaysTotalled, ClaimSettlesForHolder, PTL

LEMMA CapCovered == Totalled => CapIsWithdrawable
<1>1. SUFFICES ASSUME Totalled, NEW u \in Users, Held(u), Convertible(supply, TotalAssets)
               PROVE  ToSharesUp(MaxWithdraw(u)) <= Free(u)
  BY DEF CapIsWithdrawable
<1>2. PICK f \in Nat : f = Free(u)
  BY <1>1 DEF Held, Free, Totalled, TypeOK, Unbonding
<1>3. supply \in Nat /\ TotalAssets \in Nat
  BY <1>1, QueueTyped DEF Totalled
<1>4. PICK w \in Nat : w = MaxWithdraw(u) /\ (supply # 0 => supply * w <= f * TotalAssets)
  BY <1>2, <1>3, WorthRoundsDown DEF MaxWithdraw, ToAssets
<1>5. CASE supply = 0
  <2>1. ToSharesUp(w) = w /\ w = f
    BY <1>2, <1>4, <1>5 DEF ToSharesUp, PreviewWithdraw, MaxWithdraw, ToAssets, ConvertToAssets
  <2>2. QED
    BY <1>2, <1>4, <2>1
<1>6. CASE supply # 0
  <2>1. w * supply <= TotalAssets * f
    BY <1>3, <1>4, <1>6
  <2>2. ToSharesUp(w) <= f
    BY <1>1, <1>3, <1>6, <2>1, BurnRoundsUp DEF ToSharesUp
  <2>3. QED
    BY <1>2, <1>4, <2>2
<1>7. QED
  BY <1>5, <1>6

\* The amount LiquidityFacet.withdraw caps a request to can be withdrawn.
THEOREM CapWithdrawable == Spec => []CapIsWithdrawable
<1>1. QED
  BY AlwaysTotalled, CapCovered, PTL

\* Adding assets for at most their worth in shares, or taking out at most the
\* worth of the shares given up, does not lower the ratio of the two.
LEMMA RatioKept ==
  ASSUME NEW t \in Nat, NEW s \in Nat, NEW a \in Int, NEW n \in Int, t * n <= a * s
  PROVE  (t + a) * s >= t * (s + n)
<1>1. (t + a) * s = t * s + a * s /\ t * (s + n) = t * s + t * n
  OBVIOUS
<1>2. t * s \in Int /\ a * s \in Int /\ t * n \in Int
  OBVIOUS
<1>3. QED
  BY <1>1, <1>2

LEMMA HolderKeepsRatio ==
  ASSUME Totalled, HolderStep, supply > 0
  PROVE  TotalAssets' * supply >= TotalAssets * supply'
<1>1. PICK u \in Users, x \in Amounts :
        \/ Deposit(u, x) \/ Mint(u, x)
        \/ Withdraw(u, x) \/ VoyageWithdraw(u, x) \/ Redeem(u, x)
        \/ Claim(u)
        \/ \E w \in Users : Transfer(u, w, x)
  BY DEF HolderStep
<1>2. x \in Nat /\ supply \in Nat /\ TotalAssets \in Nat /\ cash \in Nat /\ owed \in Nat
  BY SeniorAssumption, QueueTyped DEF Totalled, TypeOK
<1>3. ASSUME NEW a \in Int, NEW n \in Int, TotalAssets * n <= a * supply,
             TotalAssets' = TotalAssets + a, supply' = supply + n
      PROVE  TotalAssets' * supply >= TotalAssets * supply'
  BY <1>2, <1>3, RatioKept
<1>4. CASE Deposit(u, x)
  <2>1. PICK n \in Nat : n = ConvertToShares(x, supply, TotalAssets) /\ TotalAssets * n <= x * supply
    BY <1>2, <1>4, IssueRoundsDown DEF Deposit
  <2>2. TotalAssets' = TotalAssets + x /\ supply' = supply + n
    BY <1>2, <1>4, <2>1 DEF Deposit, Issue, TotalAssets
  <2>3. QED
    BY <1>2, <1>3, <2>1, <2>2
<1>5. CASE Mint(u, x)
  <2>0. /\ PreviewMint(x, supply, TotalAssets) \in Nat
        /\ x * TotalAssets <= supply * PreviewMint(x, supply, TotalAssets)
    <3>1. supply # 0
      BY <1>2
    <3>2. QED
      BY <1>2, <3>1, MintRoundsUp
  <2>1. PICK a \in Nat : a = PreviewMint(x, supply, TotalAssets) /\ x * TotalAssets <= supply * a
    BY <2>0
  <2>2. TotalAssets * x <= a * supply
    BY <1>2, <2>1
  <2>3. TotalAssets' = TotalAssets + a /\ supply' = supply + x
    BY <1>2, <1>5, <2>1 DEF Mint, Issue, TotalAssets
  <2>4. QED
    BY <1>2, <1>3, <2>1, <2>2, <2>3
<1>6. CASE Claim(u)
  <2>1. PICK r : r = ClaimReduction(u)
    OBVIOUS
  <2>2. r.assets \in Nat /\ r.shares \in Nat /\ r.assets * supply <= TotalAssets * r.shares
    BY <1>2, <2>1, ReductionBacked
  <2>3. TotalAssets' = TotalAssets + (-r.assets) /\ supply' = supply + (-r.shares)
    BY <1>2, <1>6, <2>1, <2>2 DEF Claim, TotalAssets
  <2>4. PICK a \in Nat, n \in Nat : a = r.assets /\ n = r.shares
    BY <2>2
  <2>5. TotalAssets * (-n) <= (-a) * supply
    <3>1. TotalAssets * (-n) = -(TotalAssets * n) /\ (-a) * supply = -(a * supply)
      BY <1>2
    <3>2. TotalAssets * n \in Int /\ a * supply \in Int
      BY <1>2
    <3>3. QED
      BY <2>2, <2>4, <3>1, <3>2
  <2>6. -a \in Int /\ -n \in Int
    OBVIOUS
  <2>7. QED
    BY <1>3, <2>3, <2>4, <2>5, <2>6
<1>7. CASE Withdraw(u, x) \/ VoyageWithdraw(u, x) \/ Redeem(u, x)
           \/ \E w \in Users : Transfer(u, w, x)
  <2>1. UNCHANGED <<cash, owed, supply>>
    BY <1>7 DEF Withdraw, VoyageWithdraw, Redeem, Transfer, tokenVars
  <2>2. QED
    BY <1>2, <2>1 DEF TotalAssets
<1>8. QED
  BY <1>1, <1>4, <1>5, <1>6, <1>7

\* Every rounding of a holder's call is in favour of the pool.
THEOREM RoundingFavoursPool == Spec => NoDilution
<1>1. Totalled /\ [Next]_vars
        => [HolderStep /\ supply > 0 /\ supply' > 0
              => TotalAssets' * supply >= TotalAssets * supply']_vars
  BY HolderKeepsRatio
<1>2. QED
  BY <1>1, AlwaysTotalled, PTL DEF Spec, NoDilution

LEMMA LockKept ==
  ASSUME Totalled, [Next]_vars, NEW u \in Users, Held(u), ~Held(u)'
  PROVE  \E w \in Users, x \in Amounts : Transfer(u, w, x)
<1> DEFINE Kept == balances'[u] - unbondings'[u].shares >= 0
<1>1. /\ unbondings \in [Users -> Unbonding] /\ balances \in [Users -> Nat]
      /\ unbondings[u].shares \in Nat /\ balances[u] \in Nat
      /\ unbondings[u].shares <= balances[u] /\ ~Kept
      /\ supply \in Nat /\ TotalAssets \in Nat
  BY QueueTyped DEF Totalled, TypeOK, Unbonding, Held, Free
<1>2. ASSUME UNCHANGED <<balances, unbondings>>
      PROVE  FALSE
  BY <1>1, <1>2
<1>3. ASSUME NEW w \in Users, NEW n \in Nat, NEW m,
             n <= Free(w), PushWithdraw(w, n, m), UNCHANGED balances
      PROVE  FALSE
  <2>1. unbondings'[u].shares = IF u = w THEN unbondings[u].shares + n ELSE unbondings[u].shares
    BY <1>1, <1>3 DEF PushWithdraw
  <2>2. QED
    BY <1>1, <1>3, <2>1 DEF Free
<1>4. ASSUME NEW w \in Users, NEW a \in Nat, NEW n \in Nat, Issue(w, a, n)
      PROVE  FALSE
  <2>1. balances'[u] >= balances[u] /\ balances'[u] \in Nat /\ unbondings' = unbondings
    BY <1>1, <1>4 DEF Issue, queueVars
  <2>2. QED
    BY <1>1, <2>1
<1>5. CASE HolderStep
  <2>1. PICK w \in Users, x \in Amounts :
          \/ Deposit(w, x) \/ Mint(w, x)
          \/ Withdraw(w, x) \/ VoyageWithdraw(w, x) \/ Redeem(w, x)
          \/ Claim(w)
          \/ \E z \in Users : Transfer(w, z, x)
    BY <1>5 DEF HolderStep
  <2>2. x \in Nat
    BY SeniorAssumption
  <2>3. CASE Deposit(w, x)
    <3>1. ConvertToShares(x, supply, TotalAssets) \in Nat
      BY <1>1, <2>2, <2>3, IssueRoundsDown DEF Deposit
    <3>2. QED
      BY <1>4, <2>2, <2>3, <3>1 DEF Deposit
  <2>4. CASE Mint(w, x)
    <3>1. PreviewMint(x, supply, TotalAssets) \in Nat
      BY <1>1, <2>2, MintRoundsUp
    <3>2. QED
      BY <1>4, <2>2, <2>4, <3>1 DEF Mint
  <2>5. CASE Withdraw(w, x) \/ VoyageWithdraw(w, x)
    <3>1. PICK a \in Nat : Withdraw(w, a)
      BY <2>2, <2>5, CappedType DEF VoyageWithdraw
    <3>2. ToSharesUp(a) \in Nat
      BY <1>1, <3>1, BurnRoundsUp DEF Withdraw, ToSharesUp
    <3>3. QED
      BY <1>3, <3>1, <3>2 DEF Withdraw, tokenVars
  <2>6. CASE Redeem(w, x)
    BY <1>3, <2>2, <2>6 DEF Redeem, tokenVars
  <2>7. CASE Claim(w)
    <3>1. PICK r : r = ClaimReduction(w)
      OBVIOUS
    <3>2. r.shares \in Nat
      BY <3>1, ReductionBacked
    <3>3. /\ balances' = [balances EXCEPT ![w] = @ - r.shares]
          /\ unbondings' = [unbondings EXCEPT ![w] =
               [shares |-> @.shares - r.shares, maxUnderlying |-> @.maxUnderlying - r.assets]]
      BY <2>7, <3>1 DEF Claim
    <3>4. /\ balances'[u] = IF u = w THEN balances[u] - r.shares ELSE balances[u]
          /\ unbondings'[u].shares = IF u = w THEN unbondings[u].shares - r.shares
                                              ELSE unbondings[u].shares
      BY <1>1, <3>3
    <3>5. QED
      BY <1>1, <3>2, <3>4
  <2>8. CASE \E z \in Users : Transfer(w, z, x)
    <3>1. PICK z \in Users : Transfer(w, z, x)
      BY <2>8
    <3>2. SUFFICES ASSUME u # w
                   PROVE  FALSE
      BY <3>1
    <3>3. balances'[u] >= balances[u] /\ balances'[u] \in Nat /\ unbondings' = unbondings
      BY <1>1, <2>2, <3>1, <3>2 DEF Transfer, queueVars
    <3>4. QED
      BY <1>1, <3>3
  <2>9. QED
    BY <2>1, <2>3, <2>4, <2>5, <2>6, <2>7, <2>8
<1>6. CASE LoanStep
  BY <1>2, <1>6 DEF LoanStep, LendStep, Lend, Collect, WriteDown, Gain, tokenVars, queueVars
<1>7. CASE UNCHANGED vars
  BY <1>2, <1>7 DEF vars
<1>8. QED
  BY <1>5, <1>6, <1>7 DEF Next

\* Queued shares leave their holder only by the inherited transfer.
THEOREM OnlyTransferTakesQueued == Spec => OnlyTransferUnlocks
<1>1. Totalled /\ [Next]_vars
        => [\A u \in Users :
              Held(u) /\ ~Held(u)' => \E w \in Users, x \in Amounts : Transfer(u, w, x)]_vars
  BY LockKept
<1>2. QED
  BY <1>1, AlwaysTotalled, PTL DEF Spec, OnlyTransferUnlocks

=============================================================================
