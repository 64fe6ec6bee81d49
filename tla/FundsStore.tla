----------------------------- MODULE FundsStore -----------------------------
(***************************************************************************)
(* The database rows and the request machinery that deposits, withdrawals  *)
(* and transfers share (src/src/modules/funds).                            *)
(*                                                                         *)
(* A request is one HTTP call of a customer.  It creates at most one       *)
(* FundTransaction, so the id of the row is the request that creates it:   *)
(* txn[r] is the row created by r.  The SHA-256 request hash is the body   *)
(* itself.  Money is an integer number of cents; the amount in a body is   *)
(* in tenths of a cent, because the API accepts any positive number and    *)
(* rounds it.                                                              *)
(***************************************************************************)
EXTENDS Integers, FiniteSets, FiniteSetsExt

CONSTANTS
  Users,            \* customers (one user row and one customer row each)
  Keys,             \* values of the Idempotency-Key header
  Accounts,         \* trading accounts
  Owner,            \* the customer an account belongs to
  Currencies,       \* currency codes
  USD,              \* the currency of the approval threshold
  AccountCurrency,  \* the currency an account is kept in
  Requests,         \* HTTP requests; also the ids of the rows they create
  Null,             \* a null column
  Providers,        \* payment providers a deposit may name
  Amounts,          \* amounts a body may carry, in tenths of a cent
  Rates,            \* quotes the FX provider may give
  Threshold,        \* WITHDRAWAL_APPROVAL_THRESHOLD_USD, in cents
  OpeningBalance    \* balance of each account before the first request

(* An exchange rate is a positive fraction. *)
ExchangeRates == [num: Nat \ {0}, den: Nat \ {0}]

ASSUME StoreAssumption ==
  /\ Owner \in [Accounts -> Users]
  /\ USD \in Currencies
  /\ AccountCurrency \in [Accounts -> Currencies]
  /\ Null \notin Requests
  /\ Providers \subseteq {"STRIPE", "COINPAYMENTS"}
  /\ Amounts \subseteq Nat \ {0}
  /\ Rates \subseteq ExchangeRates
  /\ Threshold \in Nat
  /\ OpeningBalance \in [Accounts -> Nat]

VARIABLES
  customerActive,   \* customer.isActive, and user.isActive with it
  balance,          \* tradingAccount.balance
  reserved,         \* tradingAccount.reservedBalance
  idem,             \* idempotencyRequest rows, by (userId, key)
  txn,              \* fundTransaction rows
  req,              \* local variables of the request handlers
  notices           \* eventKeys handed to createFundsNotification

storeVars == <<customerActive, balance, reserved, idem, txn, req, notices>>

-----------------------------------------------------------------------------
(* Money. *)

\* toDecimalPlaces(2, ROUND_HALF_UP) of a positive amount.
Cents(amount) == (amount + 5) \div 10

\* Mutant: a conversion is cut off after the cents.
ConvertDown(cents, rate) == (cents * rate.num) \div rate.den

\* amount.mul(rate).toDecimalPlaces(2, ROUND_HALF_UP) of a positive amount.
Convert(cents, rate) ==
  (2 * cents * rate.num + rate.den) \div (2 * rate.den)

Par == [num |-> 1, den |-> 1]

\* The quotes getExchangeRate may return; a failing provider is RequestAborts.
Quotes(from, to) == IF from = to THEN {Par} ELSE Rates

\* Mutant: what pending withdrawals hold can be spent again.
AvailableIgnoresReserve(a) == balance[a]

\* Mutant: the checks use a balance read long ago.
AvailableCached(a) == OpeningBalance[a]

Available(a) == balance[a] - reserved[a]

-----------------------------------------------------------------------------
(* Rows and request bodies. *)

WithdrawalBodies ==
  [operation: {"WITHDRAWAL"}, account: Accounts, payout: Currencies,
   amount: Amounts]

TransferBodies ==
  [operation: {"TRANSFER"}, account: Accounts, destination: Accounts,
   amount: Amounts]

DepositBodies ==
  [operation: {"DEPOSIT"}, account: Accounts, currency: Currencies,
   provider: Providers, amount: Amounts]

\* account is the source of a transfer.
Bodies == WithdrawalBodies \cup TransferBodies \cup DepositBodies

Open == {"PENDING"}
Settled == {"COMPLETED", "FAILED", "REJECTED"}

NoTxn == [status |-> "NONE"]

TxnRows ==
  [type: {"WITHDRAWAL", "TRANSFER", "DEPOSIT"}, customer: Users,
   account: Accounts, destination: Accounts \cup {Null}, amount: Nat,
   converted: Nat,
   status: Open \cup Settled,
   approval: {"NOT_REQUIRED", "PENDING", "APPROVED", "REJECTED"}]

NoClaim == [status |-> "NONE"]

IdemRows ==
  [status: {"PROCESSING", "COMPLETED", "FAILED"}, hash: Bodies,
   txn: Requests \cup {Null}]

\* Where a handler is.  The last three phases are its answer: a success with
\* a new transaction, a success replayed from the key, an error (or nothing).
InFlight == {"checked", "quoted", "recorded", "opened", "declined"}
Answered == {"created", "replayed", "failed"}

Idle == [phase |-> "idle"]

Calls ==
  [phase: InFlight \cup Answered, user: Users, key: Keys, body: Bodies,
   rate: ExchangeRates, usd: Nat, result: Requests \cup {Null}]

Events ==
  {"deposit:submitted", "withdrawal:submitted", "withdrawal:approved",
   "withdrawal:rejected", "withdrawal:processing", "withdrawal:completed",
   "withdrawal:failed", "transfer:completed"}

StoreTypeOK ==
  /\ customerActive \in [Users -> BOOLEAN]
  /\ balance \in [Accounts -> Int]
  /\ reserved \in [Accounts -> Int]
  /\ idem \in [Users \X Keys -> IdemRows \cup {NoClaim}]
  /\ txn \in [Requests -> TxnRows \cup {NoTxn}]
  /\ req \in [Requests -> Calls \cup {Idle}]
  /\ notices \in SUBSET (Events \X Requests)

StoreInit ==
  /\ customerActive = [u \in Users |-> TRUE]
  /\ balance = OpeningBalance
  /\ reserved = [a \in Accounts |-> 0]
  /\ idem = [uk \in Users \X Keys |-> NoClaim]
  /\ txn = [r \in Requests |-> NoTxn]
  /\ req = [r \in Requests |-> Idle]
  /\ notices = {}

-----------------------------------------------------------------------------
(* The idempotency protocol. *)

ClaimOf(r) == idem[<<req[r].user, req[r].key>>]

\* Mutant: the hash of the body is not compared.
ReplayableAnyBody(c, u, b) ==
  /\ c.status = "COMPLETED"
  /\ c.txn # Null
  /\ txn[c.txn].status # "NONE"

\* The claim c answers a request of user u with body b from an earlier one.
Replayable(c, u, b) ==
  /\ c.status = "COMPLETED"
  /\ c.hash = b
  /\ c.txn # Null
  /\ txn[c.txn].status # "NONE"
  /\ txn[c.txn].customer = u
  /\ txn[c.txn].type = b.operation

\* Mutant: the upsert resets the row it finds.
UpsertedAnew(r) ==
  [status |-> "PROCESSING", hash |-> req[r].body, txn |-> Null]

\* The row the upsert in a transaction returns: the one there, or a new one.
Upserted(r) ==
  IF ClaimOf(r).status = "NONE"
  THEN [status |-> "PROCESSING", hash |-> req[r].body, txn |-> Null]
  ELSE ClaimOf(r)

Goto(r, phase) == req' = [req EXCEPT ![r].phase = phase]

Answer(r, phase, t) ==
  req' = [req EXCEPT ![r].phase = phase, ![r].result = t]

(***************************************************************************)
(* The start of every money handler: the customer must be active, then the *)
(* key is looked up outside any transaction.  An unknown key goes on, a    *)
(* completed one is replayed, and anything else (another body, still       *)
(* processing, failed) is refused.                                         *)
(***************************************************************************)
Submit(r, u, k, b) ==
  /\ req[r].phase = "idle"
  /\ LET c == idem[<<u, k>>]
         Call(phase, t) ==
           [phase |-> phase, user |-> u, key |-> k, body |-> b,
            rate |-> Par, usd |-> 0, result |-> t]
     IN \/ /\ customerActive[u]
           /\ c.status = "NONE"
           /\ req' = [req EXCEPT ![r] = Call("checked", Null)]
        \/ /\ customerActive[u]
           /\ Replayable(c, u, b)
           /\ req' = [req EXCEPT ![r] = Call("replayed", c.txn)]
        \/ /\ \/ ~customerActive[u]
              \/ c.status # "NONE" /\ ~Replayable(c, u, b)
           /\ req' = [req EXCEPT ![r] = Call("failed", Null)]
  /\ UNCHANGED <<customerActive, balance, reserved, idem, txn, notices>>

(***************************************************************************)
(* A handler stops between two of its database transactions: a database or *)
(* serialization error, a failing FX quote, or the death of the process.   *)
(* The client has no success to rely on; nothing else changes.             *)
(***************************************************************************)
RequestAborts(r) ==
  /\ req[r].phase \in InFlight
  /\ Answer(r, "failed", Null)
  /\ UNCHANGED <<customerActive, balance, reserved, idem, txn, notices>>

\* An administrator deletes the customer; nothing in the code undoes it.
DeactivateCustomer(u) ==
  /\ customerActive[u]
  /\ customerActive' = [customerActive EXCEPT ![u] = FALSE]
  /\ UNCHANGED <<balance, reserved, idem, txn, req, notices>>

-----------------------------------------------------------------------------
(* Properties of the store. *)

\* Transactions with a row.
Rows == {r \in Requests : txn[r].status # "NONE"}

\* No account ever owes more than it holds: every reservation is backed by
\* balance, and neither goes negative, whatever order the guarded updates of
\* withdrawals, settlements, transfers and deposits commit in.
Solvent == \A a \in Accounts : 0 <= reserved[a] /\ reserved[a] <= balance[a]

AmountOf == [r \in Rows |-> txn[r].amount]
ConvertedOf == [r \in Rows |-> txn[r].converted]

\* The pending withdrawals of account a, and what they hold of it.
Holding(a) ==
  {r \in Rows : /\ txn[r].type = "WITHDRAWAL"
                /\ txn[r].account = a
                /\ txn[r].status = "PENDING"}
PendingOn(a) == SumFunctionOnSet(AmountOf, Holding(a))

\* The reserve of an account is exactly what its pending withdrawals hold: no
\* settlement, rejection, retry or crash leaks a reserve or releases it twice.
ReservedMatchesPending ==
  \A a \in Accounts : reserved[a] = PendingOn(a)

\* The completed transactions that took money from account a, and those that
\* brought it some: a transfer takes from one account and brings to the other.
Debits(a) ==
  {r \in Rows : /\ txn[r].type \in {"WITHDRAWAL", "TRANSFER"}
                /\ txn[r].account = a
                /\ txn[r].status = "COMPLETED"}
Credits(a) ==
  {r \in Rows : /\ \/ txn[r].type = "DEPOSIT" /\ txn[r].account = a
                   \/ txn[r].type = "TRANSFER" /\ txn[r].destination = a
                /\ txn[r].status = "COMPLETED"}
NetCompleted(a) ==
  SumFunctionOnSet(ConvertedOf, Credits(a)) - SumFunctionOnSet(AmountOf, Debits(a))

\* The balance of an account is its opening balance plus what the completed
\* transactions say: no credit or debit is applied twice, lost, or applied
\* by a transaction that did not complete.
BalanceMatchesHistory ==
  \A a \in Accounts : balance[a] = OpeningBalance[a] + NetCompleted(a)

\* One key moves money at most once: requests of one customer that carry the
\* same Idempotency-Key never create two transactions, however their lookups,
\* FX waits, commits, aborts and retries interleave.
OneTransactionPerKey ==
  \A r, s \in Rows :
    req[r].user = req[s].user /\ req[r].key = req[s].key => r = s

\* A committed claim keeps its body and its transaction, and once it is
\* completed or failed it stays so: whoever repeats a request gets the answer
\* the others got, whichever request of the key commits, fails or is late.
KeysKeepTheirAnswer ==
  [][\A uk \in Users \X Keys :
       idem[uk].status # "NONE" =>
         /\ idem'[uk].hash = idem[uk].hash
         /\ idem'[uk].txn = idem[uk].txn
         /\ idem[uk].status # "PROCESSING" => idem'[uk] = idem[uk]]_storeVars

\* Whether the money of a body needs no conversion.
SameCurrency(b) ==
  LET own == AccountCurrency[b.account]
  IN  CASE b.operation = "DEPOSIT"    -> b.currency = own
        [] b.operation = "WITHDRAWAL" -> b.payout = own
        [] b.operation = "TRANSFER"   -> AccountCurrency[b.destination] = own

\* What a row records is what the body asked for and the provider quoted, each
\* rounded once, half up and to the nearest cent, although both were fixed long
\* before the commit; and money that changes no currency changes no amount.
RecordedAsQuoted ==
  \A r \in Rows :
    LET t == txn[r]
        q == req[r].rate
    IN  /\ 10 * t.amount - req[r].body.amount \in -4 .. 5
        /\ 2 * (q.den * t.converted - q.num * t.amount) \in 1 - q.den .. q.den
        /\ SameCurrency(req[r].body) => t.converted = t.amount

\* A success names a transaction that exists, was made for the same customer
\* under the same key, and from exactly the body the client sent.
SuccessIsFaithful ==
  \A r \in Requests :
    req[r].phase \in {"created", "replayed"} =>
      LET t == req[r].result
      IN  /\ t \in Rows
          /\ txn[t].customer = req[r].user
          /\ req[t].user = req[r].user
          /\ req[t].key = req[r].key
          /\ req[t].body = req[r].body

\* A transaction in a final status keeps its whole row.
SettledIsFinal ==
  [][\A r \in Requests :
       txn[r].status \in Settled => txn'[r] = txn[r]]_storeVars
=============================================================================
