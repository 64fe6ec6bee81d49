SPECIFICATION FundsSpec
CONSTANTS
  u1 = u1
  u2 = u2
  a1 = a1
  a2 = a2
  b1 = b1
  Users = {u1, u2}
  Keys = {k1, k2}
  Accounts = {a1, a2, b1}
  Owner <- MCOwner
  Currencies = {"USD", "EUR"}
  USD = "USD"
  AccountCurrency <- MCAccountCurrency
  Requests = {r1, r2}
  Null = Null
  Providers = {"STRIPE"}
  Amounts = {14}
  Rates <- MCRates
  Threshold = 1
  OpeningBalance <- MCOpeningBalance
  MaxDeliveries = 1
SYMMETRY MCSymmetry
CHECK_DEADLOCK FALSE
INVARIANTS
  FundsInv
  Solvent
  BalanceMatchesHistory
  SuccessIsFaithful
  RecordedAsQuoted
  ReservedMatchesPending
  OneTransactionPerKey
  PayoutsAreAuthorised
  PayoutMatchesStatus
  NoticesTellTheMoney
PROPERTIES
  ImplementsLedger
  TransfersStayInTheFamily
  KeysKeepTheirAnswer
  SettledIsFinal
