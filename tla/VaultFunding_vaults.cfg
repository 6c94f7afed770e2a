SPECIFICATION FairSpec
CONSTANTS
  Users = {Owner, Bob}
  Owner = Owner
  Bob = Bob
  Zero = Zero
  Treasury = Treasury
  None = None
  p1 = p1
  p2 = p2
  Processes = {p1, p2}
  Settings <- MCSettings
  Currencies = {Weth, Other}
  Weth = Weth
  Other = Other
  MaxSalts = 7
  OwnerETH = 60
  BobETH = 6
  Grant = 3
  Amount = 1
  PocDeposit = 2
  Target = 7
  Refund = 1
CHECK_DEADLOCK FALSE
INVARIANT VaultsConsistent
INVARIANT FinishedTasksDeliver
INVARIANT AccountsSuffice
PROPERTY RegistrySpec
PROPERTY OwnerGetsVault
