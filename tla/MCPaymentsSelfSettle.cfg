CONSTANTS
  alice = alice
  shop = shop
  deposit = deposit
  uAlice = uAlice
  uShop = uShop
  AccountIds <- MCAccountIds
  AccountType <- MCAccountType
  AccountOwner <- MCAccountOwner
  OpeningBalance <- MCOpeningBalance
  MinBalance <- MCMinBalance
  BillerAccounts = {shop}
  KycApproved = {uAlice, uShop}
  Keys = {k1}
  InstructionKeys = {}
  NoKey = NoKey
  NoAccount = NoAccount
  Amounts = {1, 3}
  InstantRails = {"internal", "imps"}
  PerTransactionMax = 3
  PerBillMax = 1
  FaucetMax = 3
  DailyLimit = 3
  MonthlyLimit = 4
  DaysPerMonth = 2
  MaxTransfers = 2
  MaxDay = 0
  MaxUtrs = 2
  MaxCrashes = 1
SPECIFICATION Spec
CHECK_DEADLOCK FALSE
PROPERTIES
  SettlementReleasesHold
