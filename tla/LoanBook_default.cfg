SPECIFICATION Spec
CONSTANTS
  Ray = 100
  Vaults = {v1, v2}
  Nfts = {n1, n2}
  LoanIds = {0, 1}
  Prices = {5}
  TwapPrices = {2, 5, 9}
  Interests = {3}
  Pendings = {0}
  Confs <- MCConfs
  TakeRate = 4000
  Flows = {}
  Gifts = {0, 1}
  VaultFunds = 20
  SeniorFunds = 8
  JuniorFunds = 3
  StartTime = 2
  MaxTime = 6
  MaxCash = 12
  MaxGiven = 1
  MaxVault = 20
  Terms = {2}
  GracePeriod = 1
CHECK_DEADLOCK FALSE
SYMMETRY Sym
INVARIANT TypeOK
INVARIANT CollateralInCustody
INVARIANT StrayMoneyStays
INVARIANT MoneyConserved
INVARIANT DebtIsSumOfBooks
PROPERTY CollateralLeavesOnDefault
PROPERTY JuniorLosesFirst
