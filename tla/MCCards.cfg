CONSTANTS
  alice = alice
  shop = shop
  uAlice = uAlice
  uShop = uShop
  AccountIds <- MCAccountIds
  AccountType <- MCAccountType
  AccountOwner <- MCAccountOwner
  OpeningBalance <- MCOpeningBalance
  MinBalance <- MCMinBalance
  BillerAccounts = {shop}
  KycApproved = {uAlice, uShop}
  Keys = {si1}
  InstructionKeys = {si1}
  NoKey = NoKey
  NoAccount = NoAccount
  Amounts = {2}
  InstantRails = {"internal"}
  PerTransactionMax = 2
  PerBillMax = 2
  FaucetMax = 2
  DailyLimit = 2
  MonthlyLimit = 3
  DaysPerMonth = 2
  MaxTransfers = 2
  MaxDay = 1
  MaxUtrs = 2
  MaxCrashes = 1
  Merchant = shop
  PerTxnBankMax = 2
  DefaultLimits <- MCDefaultLimits
  AskedLimits <- MCAskedLimits
  MaxCards = 1
SPECIFICATION CardsSpec
CHECK_DEADLOCK FALSE
INVARIANTS
  HoldsAccounted
  MoneyConserved
  DoubleEntry
  InstantWithinLimits
  CardsWithinBankMax
  StatementsAddUp
PROPERTIES
  SettlementNotStarved
