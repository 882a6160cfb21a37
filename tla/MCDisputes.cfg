CONSTANTS
  alice = alice
  shop = shop
  uAlice = uAlice
  uShop = uShop
  AccountIds <- MCAccountIds
  AccountType <- MCAccountType
  AccountOwner <- MCAccountOwner
  OpeningBalance <- MCOpeningBalance
  MinBalance <- MCMinBalance
  BillerAccounts = {}
  KycApproved = {uAlice}
  Keys = {}
  InstructionKeys = {}
  NoKey = NoKey
  NoAccount = NoAccount
  Amounts = {2}
  InstantRails = {"internal"}
  PerTransactionMax = 2
  PerBillMax = 2
  FaucetMax = 0
  DailyLimit = 6
  MonthlyLimit = 6
  DaysPerMonth = 1
  MaxTransfers = 3
  MaxDay = 0
  MaxUtrs = 1
  MaxCrashes = 1
  MaxDisputes = 2
SPECIFICATION DisputesSpec
CHECK_DEADLOCK FALSE
INVARIANTS
  ApprovalIsReversed
  ReversalsAttributed
PROPERTIES
  DecisionIsFinal
