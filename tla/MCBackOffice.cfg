CONSTANTS
  alice = alice
  k1 = k1
  NoKey = NoKey
  Users <- MCUsers
  Types <- MCTypes
  Keys <- MCKeys
  Amounts <- MCAmounts
  MinBalance <- MCMinBalance
  Threshold = 1
  FaucetMax = 2
  PerBillMax = 2
  MaxApplications = 2
  MaxAccounts = 2
  MaxPending = 1
  MaxTransfers = 2
  MaxRows = 5
  MaxUnfinished = 1
  MaxFaults = 1
  MaxCrashes = 1
  MaxClock = 1
SPECIFICATION BackOfficeSpec
INVARIANTS
  ApprovalOpensAccount
  AuditedApprovalIsComplete
  PendingActionPaysOnce
  AuditChainVerifies
CHECK_DEADLOCK FALSE
