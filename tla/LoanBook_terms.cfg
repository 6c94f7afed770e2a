SPECIFICATION Spec
CONSTANTS
  Ray = 100
  Vaults = {v1}
  Nfts = {n1, n2}
  LoanIds = {0, 1}
  Prices = {2, 9}
  TwapPrices = {9}
  Interests = {0, 4}
  Pendings = {0}
  Confs <- MCConfs
  TakeRate = 4000
  Flows = {}
  Gifts = {0}
  VaultFunds = 30
  SeniorFunds = 15
  JuniorFunds = 8
  StartTime = 2
  MaxTime = 6
  MaxCash = 12
  MaxGiven = 0
  MaxVault = 20
  Terms = {1, 2, 3}
  GracePeriod = 0
CHECK_DEADLOCK FALSE
INVARIANT RepaymentsAccepted
INVARIANT BooksMatchLoans
INVARIANT InterestAttributed
