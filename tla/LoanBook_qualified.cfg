SPECIFICATION Spec
CONSTANTS
  Ray = 100
  Vaults = {v1}
  Nfts = {n1, n2}
  LoanIds = {0, 1}
  Prices = {5}
  TwapPrices = {2, 5, 9}
  Interests = {3}
  Pendings = {0}
  Confs <- MCConfs
  TakeRate = 4000
  Flows = {}
  Gifts = {0}
  VaultFunds = 10
  SeniorFunds = 8
  JuniorFunds = 3
  StartTime = 2
  MaxTime = 4
  MaxCash = 12
  MaxGiven = 0
  MaxVault = 20
  Terms = {2}
  GracePeriod = 0
CHECK_DEADLOCK FALSE
PROPERTY OnlyOverdueLoansLiquidated
