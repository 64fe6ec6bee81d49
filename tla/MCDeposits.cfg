SPECIFICATION FairDepositSpec
CONSTANTS
  u1 = u1
  u2 = u2
  a1 = a1
  b1 = b1
  Users = {u1, u2}
  Keys = {k1}
  Accounts = {a1, b1}
  Owner <- MCOwner
  Currencies = {"USD", "EUR"}
  USD = "USD"
  AccountCurrency <- MCAccountCurrency
  Requests = {r1, r2}
  Null = Null
  Providers = {"STRIPE", "COINPAYMENTS"}
  Amounts = {4, 14}
  Rates <- MCRates
  Threshold = 2
  OpeningBalance <- MCOpeningBalance
  MaxDeliveries = 2
CHECK_DEADLOCK FALSE
INVARIANTS
  BalanceMatchesHistory
  CreditedIffClaimed
  AnsweredPaymentIsCredited
  KeyTellsTheCheckout
PROPERTIES
  PaymentIsCredited
