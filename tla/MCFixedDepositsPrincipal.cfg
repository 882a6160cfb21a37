CONSTANTS
  alice = alice
  fd1 = fd1
  fd2 = fd2
  uAlice = uAlice
  AccountIds <- MCAccountIds
  AccountType <- MCAccountType
  AccountOwner <- MCAccountOwner
  OpeningBalance <- MCOpeningBalance
  MinBalance <- MCMinBalance
  BillerAccounts = {}
  KycApproved = {uAlice}
  Keys = {}
  InstructionKeys = {}
  NoKey = NoKey
  NoAccount = NoAccount
  Amounts = {1}
  InstantRails = {"internal"}
  PerTransactionMax = 1
  PerBillMax = 1
  FaucetMax = 1
  DailyLimit = 2
  MonthlyLimit = 2
  DaysPerMonth = 1
  MaxTransfers = 2
  MaxDay = 2
  MaxUtrs = 1
  MaxCrashes = 1
  Principals = {4}
  MinPrincipal = 4
  Tenures = {1}
  RateBps <- MCRateBps
  PenaltyBps = 2500
  InterestMonth = 1
  MaxDeposits = 2
SPECIFICATION DepositsSpec
CHECK_DEADLOCK FALSE
PROPERTIES
  ZeroesPrincipal
