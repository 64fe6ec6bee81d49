SPECIFICATION WithdrawalSpec
CONSTANTS
  u1 = u1
  u2 = u2
  a1 = a1
  a2 = a2
  r1 = r1
  r2 = r2
  Users = {u1, u2}
  Keys = {k1}
  Accounts = {a1, a2}
  Owner <- MCOwner
  Currencies = {"USD", "EUR"}
  USD = "USD"
  AccountCurrency <- MCAccountCurrency
  Requests = {r1, r2}
  Null = Null
  Providers = {"STRIPE", "COINPAYMENTS"}
  Amounts <- MCAmounts
  Rates <- MCRates
  Threshold = 2
  OpeningBalance <- MCOpeningBalance
SYMMETRY MCSymmetry
CHECK_DEADLOCK FALSE
INVARIANT NoticesTellTheEnding
