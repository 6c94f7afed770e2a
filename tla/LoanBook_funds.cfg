SPECIFICATION Spec
CONSTANTS
  Ray = 100
  Vaults = {v1}
  Nfts = {n1}
  LoanIds = {0}
  Prices = {4}
  TwapPrices = {4}
  Interests = {3}
  Pendings = {0, 1}
  Confs <- MCConfs
  TakeRate = 2000
  Flows = {1}
  Gifts = {0, 1}
  VaultFunds = 3
  SeniorFunds = 3
  JuniorFunds = 1
  StartTime = 2
  MaxTime = 3
  MaxCash = 3
  MaxGiven = 1
  MaxVault = 4
  Terms = {2}
  GracePeriod = 0
CHECK_DEADLOCK FALSE
INVARIANT CombinedCheckSuffices
