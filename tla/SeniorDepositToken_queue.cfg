SPECIFICATION Spec
CONSTANTS
  Users = {u1, u2}
  Amounts = {1, 2, 3}
  MaxCash = 5
  MaxOwed = 3
  MaxSupply = 4
  MaxQueued = 4
SYMMETRY Sym
CHECK_DEADLOCK FALSE
INVARIANT TypeOK
INVARIANT QueueTotals
INVARIANT PendingCoversClaims
INVARIANT ClaimNeverReverts
INVARIANT CapIsWithdrawable
PROPERTY LoansLeaveQueueCash
PROPERTY NoDilution
PROPERTY OnlyTransferUnlocks
