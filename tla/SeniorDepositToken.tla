------------------------- MODULE SeniorDepositToken -------------------------
(***************************************************************************)
(* The senior tranche's deposit token: an ERC-4626 vault whose withdraw    *)
(* and redeem queue the shares ("unbonding") instead of paying, and whose  *)
(* claim pays what the queue entry is worth as far as there is cash.  Loans *)
(* move cash out of the vault and back in behind the token's back; the     *)
(* token only sees its own balance and the sum it is owed, and the lender  *)
(* only sees totalUnbondingAsset.                                          *)
(*                                                                         *)
(* One action is one successful transaction.  An approved spender acts as  *)
(* the owner: allowances are not modelled.                                 *)
(***************************************************************************)
EXTENDS ERC4626, FiniteSets, Functions

CONSTANTS
  Users,      \* holders of the token
  Amounts,    \* amounts of shares or of the asset one call names
  MaxCash,    \* bound on the token's balance of the asset
  MaxOwed,    \* bound on what borrowers owe
  MaxSupply,  \* bound on the shares in existence
  MaxQueued   \* bound on totalMaxUnderlying when a request is queued

ASSUME SeniorAssumption ==
  /\ IsFiniteSet(Users)
  /\ Amounts \subseteq Nat
  /\ MaxCash \in Nat /\ MaxOwed \in Nat /\ MaxSupply \in Nat
  /\ MaxQueued \in Nat

VARIABLES
  cash,                \* asset.balanceOf(this)
  owed,                \* principalBalance + seniorInterestBalance
  balances,            \* ERC-20 balances, queued shares included
  supply,              \* totalSupply
  unbondings,          \* the queue entry of each user
  totalMaxUnderlying,  \* running total of unbondings[u].maxUnderlying
  totalUnbonding       \* running total of unbondings[u].shares

vars == <<cash, owed, balances, supply, unbondings,
          totalMaxUnderlying, totalUnbonding>>
queueVars == <<unbondings, totalMaxUnderlying, totalUnbonding>>
tokenVars == <<balances, supply>>

Unbonding == [shares : Nat, maxUnderlying : Nat]

TotalAssets == cash + owed
ToAssets(shares) == ConvertToAssets(shares, supply, TotalAssets)
ToSharesUp(assets) == PreviewWithdraw(assets, supply, TotalAssets)

\* balanceOf: what is not queued.  It reverts when that would be negative,
\* since transfer moves the inherited balance.
Free(u) == balances[u] - unbondings[u].shares
Held(u) == Free(u) >= 0

MaxWithdraw_OfHolding(u) == ToAssets(balances[u])
MaxWithdraw(u) == ToAssets(Free(u))

Claimable(u) ==
  LET worth == ToAssets(unbondings[u].shares)
  IN  IF unbondings[u].maxUnderlying < worth
      THEN unbondings[u].maxUnderlying ELSE worth

\* What the lender is told to keep for the queue.
TotalUnbondingAsset_CashOnly ==
  LET worth == ConvertToAssets(totalUnbonding, supply, cash)
  IN  IF totalMaxUnderlying < worth THEN totalMaxUnderlying ELSE worth
TotalUnbondingAsset ==
  LET worth == ToAssets(totalUnbonding)
  IN  IF totalMaxUnderlying < worth THEN totalMaxUnderlying ELSE worth

Init ==
  /\ cash = 0 /\ owed = 0 /\ supply = 0
  /\ balances = [u \in Users |-> 0]
  /\ unbondings = [u \in Users |-> [shares |-> 0, maxUnderlying |-> 0]]
  /\ totalMaxUnderlying = 0 /\ totalUnbonding = 0

-----------------------------------------------------------------------------
Issue(u, assets, shares) ==
  /\ cash + assets <= MaxCash /\ supply + shares <= MaxSupply
  /\ cash' = cash + assets
  /\ balances' = [balances EXCEPT ![u] = @ + shares]
  /\ supply' = supply + shares
  /\ UNCHANGED <<owed, queueVars>>

\* deposit, directly or through LiquidityFacet.deposit.
Deposit(u, assets) ==
  /\ Convertible(supply, TotalAssets)
  /\ ConvertToShares(assets, supply, TotalAssets) # 0
  /\ Issue(u, assets, ConvertToShares(assets, supply, TotalAssets))

Mint(u, shares) ==
  Issue(u, PreviewMint(shares, supply, TotalAssets), shares)

\* pushWithdraw
PushWithdraw_NotTotalled(u, shares, amount) ==
  /\ totalMaxUnderlying + amount <= MaxQueued
  /\ unbondings' = [unbondings EXCEPT ![u] =
       [shares |-> @.shares + shares, maxUnderlying |-> @.maxUnderlying + amount]]
  /\ totalMaxUnderlying' = totalMaxUnderlying + amount
  /\ UNCHANGED totalUnbonding
PushWithdraw(u, shares, amount) ==
  /\ totalMaxUnderlying + amount <= MaxQueued
  /\ unbondings' = [unbondings EXCEPT ![u] =
       [shares |-> @.shares + shares, maxUnderlying |-> @.maxUnderlying + amount]]
  /\ totalMaxUnderlying' = totalMaxUnderlying + amount
  /\ totalUnbonding' = totalUnbonding + shares

Withdraw(u, assets) ==
  /\ Convertible(supply, TotalAssets)
  /\ ToSharesUp(assets) <= Free(u)
  /\ PushWithdraw(u, ToSharesUp(assets), assets)
  /\ UNCHANGED <<cash, owed, tokenVars>>

Redeem_OfHolding(u, shares) ==
  /\ shares <= balances[u]
  /\ PushWithdraw(u, shares, ToAssets(shares))
  /\ UNCHANGED <<cash, owed, tokenVars>>
Redeem(u, shares) ==
  /\ shares <= Free(u)
  /\ PushWithdraw(u, shares, ToAssets(shares))
  /\ UNCHANGED <<cash, owed, tokenVars>>

\* LiquidityFacet.withdraw: at most what the user's free shares are worth.
VoyageWithdraw(u, assets) ==
  /\ Held(u)
  /\ Withdraw(u, IF assets > MaxWithdraw(u) THEN MaxWithdraw(u) ELSE assets)

\* getAssetAndShareReductionForClaim
ClaimReduction_Unfunded(u) ==
  [assets |-> Claimable(u), shares |-> unbondings[u].shares]
ClaimReduction(u) ==
  IF cash >= Claimable(u)
  THEN [assets |-> Claimable(u), shares |-> unbondings[u].shares]
  ELSE [assets |-> cash, shares |-> ToSharesUp(cash)]

\* The checked subtractions of reduceUnbondingPosition, _burn and transfer.
ClaimSettles_UncheckedBurn(u, r) ==
  /\ r.shares <= unbondings[u].shares /\ r.shares <= totalUnbonding
  /\ r.assets <= unbondings[u].maxUnderlying
  /\ r.assets <= totalMaxUnderlying /\ r.assets <= cash
ClaimSettles(u, r) ==
  /\ r.shares <= unbondings[u].shares /\ r.shares <= totalUnbonding
  /\ r.assets <= unbondings[u].maxUnderlying
  /\ r.assets <= totalMaxUnderlying
  /\ r.shares <= balances[u] /\ r.assets <= cash

Claim(u) ==
  LET r == ClaimReduction(u)
  IN  /\ ClaimSettles(u, r)
      /\ unbondings' = [unbondings EXCEPT ![u] =
           [shares |-> @.shares - r.shares,
            maxUnderlying |-> @.maxUnderlying - r.assets]]
      /\ totalMaxUnderlying' = totalMaxUnderlying - r.assets
      /\ totalUnbonding' = totalUnbonding - r.shares
      /\ balances' = [balances EXCEPT ![u] = @ - r.shares]
      /\ supply' = supply - r.shares
      /\ cash' = cash - r.assets
      /\ UNCHANGED owed

\* ERC-20 transfer, inherited: it looks at the whole balance.
Transfer(u, w, shares) ==
  /\ u # w /\ shares <= balances[u]
  /\ balances' = [balances EXCEPT ![u] = @ - shares, ![w] = @ + shares]
  /\ UNCHANGED <<cash, owed, supply, queueVars>>

-----------------------------------------------------------------------------
(***************************************************************************)
(* The lending side, as the token sees it (LoanBook has the whole).        *)
(***************************************************************************)

\* buyNow lends principal, on which interest will be due.
Lend_QueueIgnored(principal, interest) ==
  /\ principal <= cash
  /\ owed + principal + interest <= MaxOwed
  /\ cash' = cash - principal
  /\ owed' = owed + principal + interest
  /\ UNCHANGED <<tokenVars, queueVars>>
Lend(principal, interest) ==
  /\ TotalUnbondingAsset < cash
  /\ cash - TotalUnbondingAsset >= principal
  /\ owed + principal + interest <= MaxOwed
  /\ cash' = cash - principal
  /\ owed' = owed + principal + interest
  /\ UNCHANGED <<tokenVars, queueVars>>

\* repay and liquidate return money against what is owed, ...
Collect(amount) ==
  /\ amount <= owed /\ cash + amount <= MaxCash
  /\ cash' = cash + amount /\ owed' = owed - amount
  /\ UNCHANGED <<tokenVars, queueVars>>

\* ... liquidate writes off what it could not recover, ...
WriteDown(amount) ==
  /\ amount <= owed
  /\ owed' = owed - amount
  /\ UNCHANGED <<cash, tokenVars, queueVars>>

\* ... and anyone may transfer the asset to the token.
Gain(amount) ==
  /\ cash + amount <= MaxCash
  /\ cash' = cash + amount
  /\ UNCHANGED <<owed, tokenVars, queueVars>>

-----------------------------------------------------------------------------
HolderStep ==
  \E u \in Users, x \in Amounts :
    \/ Deposit(u, x) \/ Mint(u, x)
    \/ Withdraw(u, x) \/ VoyageWithdraw(u, x) \/ Redeem(u, x)
    \/ Claim(u)
    \/ \E w \in Users : Transfer(u, w, x)

LendStep ==
  \E principal \in Amounts, interest \in Amounts \cup {0} :
    Lend(principal, interest)

LoanStep ==
  \/ LendStep
  \/ \E x \in Amounts : Collect(x) \/ WriteDown(x) \/ Gain(x)

Next == HolderStep \/ LoanStep

Spec == Init /\ [][Next]_vars

-----------------------------------------------------------------------------
QueuedShares == [u \in Users |-> unbondings[u].shares]
QueuedMax == [u \in Users |-> unbondings[u].maxUnderlying]
Claims == [u \in Users |-> Claimable(u)]

\* Stored amounts are natural numbers, and the bounds are respected.
TypeOK ==
  /\ cash \in 0 .. MaxCash /\ owed \in 0 .. MaxOwed
  /\ balances \in [Users -> Nat] /\ supply \in 0 .. MaxSupply
  /\ unbondings \in [Users -> Unbonding]
  /\ totalMaxUnderlying \in Nat /\ totalUnbonding \in Nat

\* The running totals of the queue and of the supply are the sums they are
\* meant to be, through full, partial and worthless claims.
QueueTotals ==
  /\ supply = SumFunction(balances)
  /\ totalUnbonding = SumFunction(QueuedShares)
  /\ totalMaxUnderlying = SumFunction(QueuedMax)

\* totalUnbondingAsset, one minimum over totals, is enough for every user's
\* claim, each a minimum of its own: gains of one entry never hide another's.
PendingCoversClaims ==
  SumFunction(Claims) <= TotalUnbondingAsset

\* A loan never spends cash that a queued withdrawal could have claimed.
LoansLeaveQueueCash ==
  [][LendStep => SumFunction(Claims) <= cash']_vars

\* claim never reverts for a user who still holds the shares it queued: the
\* shares burnt for a partial payment, rounded up, are never more than that.
ClaimNeverReverts ==
  \A u \in Users : Held(u) => ClaimSettles(u, ClaimReduction(u))

\* The amount LiquidityFacet.withdraw caps a request to can be withdrawn:
\* the two roundings between shares and assets do not overshoot.
CapIsWithdrawable ==
  \A u \in Users :
    Held(u) /\ Convertible(supply, TotalAssets)
      => ToSharesUp(MaxWithdraw(u)) <= Free(u)

\* No holder's call lowers the value of the others' shares: every rounding
\* is in favour of the pool.
NoDilution ==
  [][HolderStep /\ supply > 0 /\ supply' > 0
       => TotalAssets' * supply >= TotalAssets * supply']_vars

\* Only the inherited transfer can take away shares that are queued.
OnlyTransferUnlocks ==
  [][\A u \in Users :
       Held(u) /\ ~Held(u)' => \E w \in Users, x \in Amounts : Transfer(u, w, x)]_vars

\* maxWithdraw and maxRedeem "MUST NOT revert" (IERC4626).
MaxWithdrawDefined == \A u \in Users : Held(u)
=============================================================================
