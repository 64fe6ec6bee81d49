# TradeStack API: formal models

TLA+ models of the TradeStack backend (`src/`), the TLC configurations that
check them on small instances, and TLAPS proofs about them. This file says what
the system consists of, what is modelled and how, what every run and theorem
shows, and what is still to do.

## 1. The system

The backend is an Express server over PostgreSQL (Prisma), with Redis, BullMQ
and external providers. State lives in database rows; a request handler is a
sequence of database statements and transactions separated by awaits, and any
number of handlers, webhooks and workers run at the same time.

| Component | State | Operations | Interacts with |
|---|---|---|---|
| Idempotency and fund store (`modules/funds`) | `IdempotencyRequest`, `FundTransaction`, `TradingAccount.balance`, `reservedBalance` | lookup of a key, claim by upsert, completion | every money request |
| Withdrawals (`funds.service.ts`) | `PayoutAttempt`, approval status | create, approve, reject, process, complete, fail | store, FX, notifications |
| Transfers (`funds.service.ts`) | store only | create | store, FX |
| Deposits (`funds.service.ts`, `providers/`) | `PaymentAttempt` | create, provider call, Stripe and CoinPayments webhooks | store, FX, providers |
| FX quotes | Redis cache for display | `getExchangeRate` | Frankfurter API |
| Trading accounts | `TradingAccount` | create under a limit, list | customers, KYC review |
| Customers | `Customer.isActive`, profile | soft delete, update, list | all |
| KYC | `Customer.status`, `KycProfile`, `KycAgreement` | profile, verification session, signature, Veriff webhook, review | Veriff, e-mail |
| Authentication (`modules/auth`) | `PendingRegistration`, `User`, `PasswordResetOtp`, `UserSession` | register, verify, resend, login, refresh, logout, forgot, verify code, reset | e-mail, e-mail outbox |
| E-mail outbox | `EmailOutbox`, BullMQ jobs | record, scan for reminders, dispatch, claim, send, mark, inspect | Redis, SendGrid |
| Legacy orders | `Order` | create payment, webhook | Stripe |
| Market data (`modules/market`) | `Crypto`, `CryptoPriceHistory`, triggers; the save queue of the stream; the flags and clients of the socket | import of a quote, stream of prices, write by API, LISTEN, refresh, broadcast | Twelve Data, PostgreSQL NOTIFY, browsers |
| MT5 socket | clients | pass each message on | MT5 bridge |
| Notifications, profile, reports | rows | CRUD and queries | - |

What makes each of them correct, and hard:

* **Idempotency.** One key of one customer moves money at most once; a success
  always belongs to the body that was sent. Hard because the key is looked up
  outside the transaction that claims it, an FX request is awaited in between,
  and the process can stop between any two transactions.
* **Withdrawals.** The reserve equals what is pending; no account owes more
  than it holds; a payout happens once and only when authorised; every ending
  is final; what the customer is told of the money is true. Hard because
  customers, administrators and payout reports race, and because reports are
  repeated or come after another ending.
* **Transfers.** Both sides move together, inside one customer. Hard because
  the balance that was checked is stale, and because of two roundings.
* **Deposits.** A payment is credited exactly once and, if webhooks keep
  coming, at least once. Hard because the provider call sits between two
  transactions and because deliveries are repeated, reordered and concurrent.
* **Trading accounts.** Never more than the limit (count, then create).
* **KYC.** An application goes through its stages in order and its rows agree
  with its stage; the identity result is Veriff's verdict on the current
  session; a signed document is kept. Hard because handlers read, await Veriff
  or the disk, and write later; because callbacks are repeated, late and about
  older sessions; and because a conflict is acknowledged and never repeated.
* **Authentication.** The user is who the entered code was mailed for; wrong
  answers and good codes stay within limits; whoever resets a password had
  entered a mailed code, and is told; an ended session stays ended and a new
  password ends them all. Hard because every handler reads a row, hashes or
  mails for a long time, and writes to the row as it is then, which another
  handler may have replaced, completed or deleted.
* **E-mail outbox.** Every event is sent at most once, whatever worker dies
  when, and in the end is settled or reported. Hard because PostgreSQL and Redis
  are not in one transaction, because BullMQ runs a stalled job again, and
  because nothing but an inspection ever looks at a claim that expired.
* **Market.** A price that a running process knows it saved is not replaced by an
  older one, nor any streamed price by the first quote; every committed change
  reaches every screen, and no screen goes back. (A save whose answer is lost, or
  that was made before a restart, is not known, and an older price may replace it.)
  Hard because the stream reconnects, repeats and reorders, because NOTIFY loses
  what a broken connection missed, and because changes, connections and failures
  arrive while a snapshot is being read.

`PROJECT.json` lists every hazard with its line and the properties aimed at it.

## 2. Modules

| Module | Models | Correspondence |
|---|---|---|
| `FundsStore` | rows and request machinery shared by the three flows | `idem` = `IdempotencyRequest` by (userId, key); `txn` = `FundTransaction`; `balance`, `reserved`; `req` = local variables of the handlers; `notices` = event keys handed to `createFundsNotification` |
| `Withdrawals` | `createWithdrawal` ... `failWithdrawal` | `payouts[t]` = statuses of the `PayoutAttempt` rows of `t`, oldest first |
| `Transfers` | `createTransfer` | no state of its own |
| `Deposits` | `createDeposit`, `stripeWebhook.controller.ts`, `coinpayments.settleDeposit.ts` | `attempt` = `PaymentAttempt`; `psp` = the provider's session (external); `settling` = CoinPayments deliveries between reads and updates; `acked` = payments answered 200 |
| `Funds` | the composition of the three over one store | also the inductive invariant and the refinement mapping |
| `Ledger` | abstract: entries over balances, no concurrency | what the component promises |
| `EmailOutbox` | `src/jobs`: dispatcher, worker, processor, handlers, recovery | `row` = `EmailOutbox` rows; `job` = BullMQ jobs; `disp[d]` = the pass of a dispatcher with `lastScanned` as `cursor`; `run[w]` = the job a worker processes and the await it is at; `able` = recipients the handlers would write to; `mailed` = messages SendGrid accepted |
| `Delivery` | abstract: recorded, taken, mailed, settled | what the outbox promises |
| `Onboarding` | `src/modules/kyc`, `createTradingAccount`, `deleteCustomer` for one customer | `status`, `isActive` = `Customer`; `profile` = `KycProfile` (`verified`, `completed` = the timestamps being set); `agreement` = `KycAgreement.documentPath`; `accounts` = number of `TradingAccount` rows; `files` = PDFs on disk; `handler[h]` = what a handler has read and the await it is at; `verdict` = Veriff (external); `found` = webhook deliveries past their lookup; `acked` = final decisions answered 200 |
| `AuthStore` | the rows of one e-mail address and what the handlers of `src/modules/auth` share | `user` = `User` with its `Customer`; `pending` = `PendingRegistration`; `otp` = `PasswordResetOtp` by code; `session` = `UserSession`; `handler[h]` = the await a handler is at and the row it remembers; `mailed`, `wrong`, `tokens`, `resets` = what happened to each code; `events` = `auth:*` rows of the outbox |
| `Registration` | `register`, `verifyRegistrationOtp`, `resendRegistrationOtp` | |
| `PasswordReset` | `forgotPassword`, `resendResetOtp`, `verifyResetOtp`, `resetPassword` | |
| `UserSessions` | `login`, `refreshAccessToken`, `logout` | |
| `Auth` | the composition of the three, the inductive invariant and the refinement mapping | |
| `Account` | abstract: one registration, sessions that stay ended, a new password that ends them all | what authentication promises |
| `CryptoTables` | the rows of one symbol | `stored` = what wrote the price in the `Crypto` row; `version` counts transactions |
| `PriceFeed` | `twelveDataStream.service.ts` and the writes of `crypto.service.ts` | `queue` = `saveQueue`; `lastSaved`; `initialized`; `caller` = calls of `initialize` |
| `CryptoSocket` | `crypto.socket.ts`, `cryptoNotifications.service.ts`, the triggers | `dirty`, `retry`; `refresh[r]` = calls of `refresh` past their guard, of which `running` says that there is one; `listener`, `notices` = the LISTEN connection; `client`, `shown` = connections and what they were sent last |
| `Market` | the composition of the three, fairness and the inductive invariant | a commit of the feed is also the triggers' notice |
| `MCWithdrawals`, `MCDeposits`, `MCFunds`, `MCEmailOutbox`, `MCOnboarding`, `MCAuth`, `MCMarket` | instances for TLC | |
| `FundsProofs`, `LedgerProofs`, `RequestProofs`, `SettlementProofs`, `OutboxProofs`, `OnboardingProofs`, `AuthProofs`, `MarketProofs` | theorems | |

How a handler becomes actions. Each wait outside a database transaction ends an
action, so everything read before it may be stale after it:
`Submit` (customer and key are read) - `...Quote` (account read, checks, FX
quote awaited) - `...Commit` (the serializable transaction, re-checks
included). A deposit goes on: `OpenCheckout` (the provider call), then
`SaveCheckout` or `MarkFailed`. Between any two of them `RequestAborts` may end
the request: an error, a serialization failure or the death of the process.
After a commit the answer may be lost; the request is then `failed` for the
client although its transaction exists. An administrator's or payout call that
fails a check throws before it has written anything, so the checks are guards. The
payout reports have early returns besides, which do not throw and go on to the
notification. `completeWithdrawal` on a completed withdrawal repeats the event key
that is there already, which changes nothing. `failWithdrawal` on a failed or
rejected one asks for the notice of failure: `FailWithdrawal` is `FailPending` (the
withdrawal ends) or `FailAgain` (the early return).

In the outbox every await of the job processor is an action (`Validate`,
`Claim`, `Recheck`, `Prepare`, `Send`, `SkipReminder`, `MarkSent`,
`MarkFailed`), and each may throw, before or after its effect. `Finish` is
BullMQ's verdict on the job. A dispatcher pass is `StartDispatch` (the reminder
scan), `UpsertReminder` per customer, `Query` (once more from the start when
nothing is left after the cursor), and `Enqueue` per row; `DispatchFails` ends
it anywhere. A dispatcher and a worker that live in one process die
independently here, which includes their dying together.

In onboarding a handler's `...Read` is its first query with the checks on it,
the next actions are its later awaits (`StartOpen`: Veriff; `SignRender`: the
disk), and `EditCommit`, `StartSave`, `SignCommit`, `Approve`, `Reject` are the
transactions, each of which begins by claiming the customer row in the status
the handler saw (`Claims`). That claim locks the row, so these transactions are
one step each, and so is the webhook's (`HookApplies`). `createTradingAccount`
claims nothing and uses the default isolation level: counting (`OpenCount`) and
creating (`OpenCreate`) are two steps. `GivesUp` is an error, a refused claim or
the death of the process. A commit whose answer is lost: `SignCommit` goes on to
`cleanup`, `HookApplies` leaves the decision unanswered.

In authentication a handler's `...Read` is its lookups with the checks on them,
`...Store`, `...Commit`, `...Miss`, `...Wrong` and `...Right` are its writes, each
after an await (the hash of a password, a query), and `Mail` is the call of the
mail service that ends a request for a code. `ForgotInvalidate` and `ForgotCreate`
are two statements of one handler. `GivesUp` is an error or the death of the
process at any await: a refused unique key, a mail that failed, a row that is gone.
`SessionEnds` is `logout`, which is one conditional update, or the end of the
session's time.

In the market code between two awaits is one step, as it is in Node. `Refresh` is
a call of `refresh` up to its first await, made by whatever causes one (a notice,
a new client, a retry, a new subscription); `ReadRows` and `Show` follow its two
queries; `Rounds` is one turn of its loop. A commit of the feed and the notices of
its triggers are one step, because NOTIFY is part of the transaction.
`ListenAnswered` is later than `Listen`: a change between the two is notified.

Abstractions:

* One e-mail address: rows of different addresses meet only in unique indexes
  (phone numbers), where a collision is `GivesUp`. Sessions' ids and tokens are
  never guessed; that a guess hits a code which was never mailed is left out.
* Time in authentication (a code's ten minutes, a token's five, a minute between
  two codes) can only refuse a call, which then changes nothing.
* No code sets `User.isActive` to false, except the deletion of customers, which is
  modelled in `FundsStore` and `Onboarding`.
* One symbol of the market. A price is its event or what else wrote it; the
  history row goes with it. A snapshot is what its two queries saw: two versions.
* A write through the API that makes a row while an import waits for its quote is
  overwritten by the quote, as in the code; `QuoteComesFirst` is about streamed
  prices, which nothing can stream before a process has its row.
* A LISTEN connection that is dead without closing, and the closing of the
  WebSocket server, are left out.
* One customer's application: the rows of different customers never meet.
* Veriff decides a session once and for good (`approved`; `declined` also stands
  for expired and abandoned; `review` also for a resubmission request, and may be
  late). A session whose URL was never stored can only expire, and only after the
  handler that opened it is gone; a session lives for days, a handler for seconds.
* E-mails and notifications after a KYC commit are left out; both are best effort.
* Account numbers are left out; a handler that finds none gives up.
* An outbox event is its event key and its place in (createdAt, id) order; rows
  may appear in any order, as transactions commit in any order.
* A claim's token is its worker; the UUID of the code is as good, since a worker
  remembers one claim at a time.
* Time in the outbox is `expired` or not, and a reminder due or not.
* A row's id is the request that creates it (a request creates at most one).
* The request hash is the body itself; key syntax and Zod parsing are left out.
* Money is integer cents, an input amount is in tenths of a cent, so that the
  rounding of inputs and of conversions (half up) happens in the model. Rates
  are fractions.
* Account status is left out: no code changes it from `ACTIVE`. The
  `CANCELLED` transaction status is left out: no code writes it.
* `isActive` of user and customer are one variable; deactivation is final.
* A notification is recorded in the step of the commit that causes it. It is
  best effort in the code, so `notices` is what was asked for, not delivered.
* Signature and amount checks of webhooks are left out: the model's deliveries
  are the genuine ones.
* Serializable transactions are one atomic step. The Stripe settlement is one
  step because its conditional update claims the row first. The CoinPayments
  settlement reads first under the default isolation level, so it is two.

## 3. Runs

| Run | States | What it shows |
|---|---|---|
| `deposits` | 219 k | two deposits, both providers, two concurrent deliveries per event, two rates; liveness: every payment is credited |
| `funds_ledger` | 498 k | two requests of any kind, three accounts of two customers, two currencies, two keys, a rate that rounds to zero and one that scales up: money adds up, rows record what was quoted, answers are faithful and stay what they are, transfers stay with one customer, and the whole implements `Ledger`; the full life of withdrawals, below and above the threshold, with administrators and late or repeated payout reports; also checks `FundsInv`, the invariant of the proofs |
| `outbox` | 224 k | one reminder, two dispatchers, two workers, lost jobs, two deaths; the refinement of `Delivery`; also checks `OutboxInv`, the invariant of the proofs |
| `outbox_fair` | 181 k | liveness of the outbox: two notices, batches of one, a death |
| `onboarding` | 101 k | an application with two concurrent handlers of any kind, two sessions, two documents; also checks `OnboardingInv`, the invariant of the proofs |
| `auth` | 1.5 M | an address under two concurrent handlers of any kind, two forms, three codes, two wrong answers, one session; the refinement of `Account`; also checks `AuthInv`, the invariant of the proofs |
| `market` | 268 k | a symbol and a client: two event times, two racing imports, a queue of two, three commits, restarts and lost connections; liveness: every change is shown; also checks `MarketInv`, the invariant of the proofs |
| `withdrawals_notices` | violation | a notice of failure without a failure |
| `outbox_failed` | violation | comment of the worker on FAILED reminders |
| `deposits_replay` | violation | documented replay of a repeated deposit |
| `onboarding_limit` | violation | the account limit |
| `onboarding_document` | violation | the signed PDF of a committed agreement |

Why the bounds are enough. Interference in the funds component needs two requests
on one key or on one account; with two requests every pair of actions meets in
every order. Amounts are the smallest that pass and, in `deposits`, that round to
zero; of the two rates (1/3 and 3/2 in `funds_ledger`) one rounds a cent down to
nothing and the other meets the half that is rounded up, which makes a EUR cent two
USD cents and so crosses the threshold. `MaxDeliveries` (2) bounds only concurrent deliveries past the
reads; repetition in time is unbounded. Nothing else is bounded: the sets are
finite and a request is used once. In `funds_ledger` the USD account of one
customer is opened with one cent, so that two requests already want more
than there is, his EUR account with two, so that two withdrawals may wait for it at
once, and the other customer's with none. Deadlock checking is off because a system
that has answered all its requests has nothing left to do. Requests, keys,
handlers, forms and sessions are symmetric where they are interchangeable; the
liveness runs use no symmetry.

Main properties:

* `Solvent`, `ReservedMatchesPending`, `BalanceMatchesHistory`: money adds up.
* `RecordedAsQuoted`: amounts are rounded once and half up, at the rate the
  provider gave before the wait.
* `OneTransactionPerKey`, `SuccessIsFaithful`: idempotency.
* `KeysKeepTheirAnswer`: a claim once committed is never taken over or answered
  anew, whichever request of its key comes late.
* `SettledIsFinal`, `PayoutsAreAuthorised`, `PayoutMatchesStatus`: the life of a
  withdrawal.
* `NoticesTellTheMoney`: what a customer was told of a withdrawal stays true of his
  money, in whatever order administrators decide and the provider reports. It does
  not say that he is told of one ending only, which is not so (`withdrawals_notices`).
* `TransfersStayInTheFamily`: what a transfer may do to balances.
* `CreditedIffClaimed`, `AnsweredPaymentIsCredited`, `KeyTellsTheCheckout`,
  `PaymentIsCredited`: deposits under any order of deliveries.
* `AtMostOnce`, `ImplementsDelivery`: what is mailed, and when a row may say so.
* `CompletedMeansFinal`: Redis and PostgreSQL agree on finished work (checked as a
  part of `OutboxInv`).
* `EventuallyQueued`: a row whose job is over stays PENDING, is returned by every
  query and must not starve the rows behind it; this is what the cursor is for.
* `SettledOrReported`: a row is sent, or an inspection shows it for good.
* `RowsTellTheStage`: six columns and rows, written by six transactions, always
  say what `Customer.status` says.
* `RegisteredAsVerified`, `WrongAnswersAreBounded`, `UsableCodesAreBounded`,
  `ResetsAreBounded`, `ResetsAreVerifiedAndTold`: what a code can do, and how often,
  while handlers act on what they remember. The code's limits may be passed by as
  many requests as run at the same time, which is what these properties say
  (`UsableCodesAreBounded` is checked as a part of `AuthInv`); that the limit itself
  holds is a comment's claim, and false (see below).
* `ImplementsAccount`: the refinement. The password is the number of resets so far.
* `LivePriceIsCurrent`, `QuoteComesFirst`: the order of prices in the database, the
  former relative to what the running process knows it saved (`lastSaved`).
* `EveryChangeIsShown`, `SnapshotsMoveForward`: what clients see.
* `VerdictDecides`, `AnsweredVerdictCounts`: Veriff's decision on the current
  session counts, no other does, and it is never acknowledged and lost.
* `LifecycleMoves`: stages in order, and what may be written in each.
* `ImplementsLedger`: the refinement. An entry's maker is the customer and key,
  a hold is what the reserve counter stands for; `reserved` itself, requests,
  claims, attempts and sessions do not appear in the ledger.

The outbox runs: an event meets other events only in the dispatcher's batch and
cursor and in the workers' time, so two events (and batches of one, for which
two rows are already too many) show the interference. Two workers and two
dispatchers process one event at once; one stall is BullMQ's default, and a lost
job gives further repetitions. `MaxCrashes` bounds deaths. `ReviewSize` is at
least the number of rows: the inspection reads the 100 oldest unsettled rows,
FAILED rows are never cleared, and beyond 100 of them it hides what is newer.

In `auth` two handlers are enough for one to write what the other has read, and
are used again and again. `MaxCodes` (3) allows a registration code and its
replacement or two reset codes; `MaxAttempts` (2; 5 in the code) is passed by two
concurrent answers. In `market` `MaxVersion` (3) bounds the commits, the
last of which has no later one to help it to the screen; `QueueBound` the saves
that wait;
`Refreshes` (2) is one more than the `running` flag lets in.

Onboarding is bounded by its sets only: handlers are used again and again, so
two of them (any two kinds, at any awaits) interleave for ever; two sessions are
what a stale callback needs; two documents what two signatures need. Two
handlers also suffice to pass a limit of three by one; `accounts` cannot grow
further, as each handler counts anew.

Fairness. Only `deposits`, `deposits_replay`, `outbox_fair` and `market` assume any.
`WebhooksAreRetried`: providers deliver an event until it is answered 200, and
the handlers answer 500 or 503 on every failure, so `StripePaid` and
`CoinPaymentsRead` are weakly fair. A CoinPayments delivery may die between
reads and updates (`DeliveryDies`) any number of times, so
`CoinPaymentsSettle` is strongly fair: not every delivery dies. Customers,
administrators and request handlers are never fair.

In `outbox_fair` the interval timer starts dispatcher passes (weak fairness) and
not every pass fails at the same await (strong fairness of `UpsertReminder`,
`Query` and `Enqueue`; Redis or PostgreSQL comes back). Workers go on (weak),
BullMQ serves waiting jobs in order (strong fairness of `TakeJob` for each event,
as workers may be busy) and notices the job of a dead worker (weak fairness of
`Stall` for abandoned jobs only). Processes die finitely often; with endless
deaths the cursor would never leave the first rows. Recipients' changes,
failures and lost jobs are never fair.

`MarketFairness`: the retry timer fires, the listener's reconnect timer fires and
notices in a buffer arrive (weak); not every connection is lost before LISTEN is
answered and not every query fails (strong fairness of `Listen`, `ListenAnswered`,
`ReadRows` and `Show`). Prices, imports, clients, failures and lost connections
are never fair.

Disagreements of documents or comments with the code. Five have a run:

* `outbox_failed`: a comment in `email.worker.ts` says FAILED means the reminder
  was not delivered; a lost answer of the mail service, or a failed update to
  SENT, marks a delivered one FAILED.
* `deposits_replay`: `docs/PROJECT_STATUS.md` returns the existing deposit for
  the same request; after a crash between the two transactions, or a declined
  checkout, the repeated request is refused for ever.
* `onboarding_limit`: comments in `tradingAccount.controller.ts` say count and
  creation happen together and customers have at most three accounts; two
  requests that both count two create a fourth.
* `onboarding_document`: a comment in `kyc.controller.ts` says a committed
  agreement's document must remain stored; when the answer to the commit is lost
  the catch block removes it.
* `withdrawals_notices`: `TRADESTACK_DEVELOPMENT_GUIDE.md` (section 9) has
  notifications of a transaction's status created with its state changes. A report
  of failure on a rejected withdrawal changes no state and notifies a failure, so
  the customer is told of two endings. Money, status and payouts are as they were,
  and both notices say that nothing was paid (`NoticesTellTheMoney`).

Two more have no run of their own, and are visible in the models:

* `docs/PROJECT_STATUS.md:245` lists "Inactive customer validation" under KYC. The
  profile form and the identity check have it (`EditRead` and `StartRead` require
  `isActive`); `signKycAgreement` does not (`SignRead`), so a customer deactivated
  in between can sign. Neither does Veriff's webhook, which is no request of the
  customer, nor `createTradingAccount`, which is no part of KYC.
* Comments in `auth.controller.ts` (lines 316 and 1314) say "Maximum 5 failed
  attempts" of both kinds of codes. The counter is read, compared and incremented in
  separate statements, so answers that run at the same time are all counted: in
  `auth` a code of two attempts may be answered wrongly three times.
  `WrongAnswersAreBounded` is the bound that does hold.

Also visible in the model, without a document to compare: `completeWithdrawal`
and `failWithdrawal` have no caller in the repository, a payout amount may round
to zero, and the schema's "Null while processing or if creation fails" of an
idempotency row's transaction id does not hold for deposits.

## 4. Proofs

All for any finite or infinite sets of users, keys, accounts, requests, any
amounts, rates, threshold and opening balances; assumptions are
`StoreAssumption` (every account has an owner and a currency, opening balances
are natural numbers, rates are positive fractions, `Null` is no request) and
`DeliveriesAssumption`.

* `FundsProofs!Invariant`: `FundsSpec => []FundsInv`. `OneTransactionPerKey` is
  not inductive: nothing in it says that the claim of a key names the
  transaction, so a state with an unclaimed key and a transaction for it would
  let a second one be made. `FundsInv` adds this (`RowsAreClaimed`), the
  converse (`ClaimsAreUsed`, with the reason why a withdrawal or transfer need
  only look for COMPLETED claims), that a deposit in its provider call has its
  row (`CheckoutsAreRecorded`) and that attempts are the deposits'
  (`AttemptsBelong`). The proof has a lemma per action; those rest on a lemma per
  kind of step: `RequestStep` (only a request moves), `CreateStep` (a new row
  under a free key), `UpdateStep` (a row changes status), `CheckoutStep` (a
  claim is settled) and `SideStep` (none of these).
* `FundsProofs!TypeCorrect`: the type invariant.
* `FundsProofs!OneTransaction`: one transaction per key.
* `RequestProofs!RequestInvariant`: what handlers know. `SuccessIsFaithful` and
  `TransfersStayInTheFamily` are not inductive: nothing in them says that a request
  about to commit has no row yet (`RowsAreAnswered`), nor that what a transfer
  checked before its wait still holds of the amounts and rate it remembers
  (`CheckedTransfer`; owners never change, and the balance, which does, is checked
  again). `FaithfulSuccess` and `TransfersStay` follow.
* `RequestProofs!KeysKept`: `FundsSpec => KeysKeepTheirAnswer`. The last transaction
  of a deposit overwrites the status of its key without looking; that this loses no
  answer is the strengthening `CheckoutsAreUndecided`: while a deposit is between its
  two transactions its key is PROCESSING. It is preserved because two such deposits
  never share a key (`CheckoutOfKey`, from `FundsInv`). A step leaves the keys
  alone, takes a free one or settles a checkout's (`KeysMove`).
* `SettlementProofs!SettlementInvariant`: what the rows of one withdrawal or deposit
  say of each other. `WithdrawalTells` ties status, approval and payouts together,
  and the notices to them: `NoticesTellTheMoney` is not inductive, as nothing in it
  says that a withdrawal whose approval was announced has that approval, or one whose
  payout was announced a payout, either of which keeps a rejection out. A notice of
  failure fits a failed and a rejected withdrawal, which covers `FailAgain`.
  `CheckoutTells` ties transaction, attempt, the provider's session and the
  request's phase together: a session is only paid by a customer who was given its
  URL, so the request whose attempt was marked failed is not one whose session is
  paid. This is why a delivery whose claim matches nothing may be answered 200.
  `ClaimTells` is about the key. `PayoutsAuthorised`, `PayoutsMatch`, `NoticesTrue`,
  `CreditedClaimed`, `AnsweredCredited`, `KeyTells` and the action property
  `SettledFinal` follow.
* `LedgerProofs!BooksInvariant`: `FundsSpec => []BooksInv`, the money. A sum over a
  set of rows means nothing until the set is finite, and `Requests` may be infinite,
  so `BooksInv` has that finitely many rows exist (`IsFiniteSet(Rows)`, proved and
  not assumed); that the rate a handler remembers is one the provider gave, or par
  where nothing is converted (`CallsAreQuoted`); `Solvent`, the two sum properties,
  and that a row has the amounts its request was quoted (`RowsAsQuoted`). `Solvent`
  holds as each reservation and debit is guarded by what is available when
  it commits, each release and payout by the reserve, and credits only add.
* How the sums are proved. A step makes one row, changes the status of one row, or
  touches none (`MoneyStep`), and its money is the amount of that row; the sum over
  a set that gains or loses one element changes by its value (`SumWithout`,
  `SumMoves`). The fold behind `SumFunctionOnSet` picks its elements by `CHOOSE`,
  so this is an induction over the subsets of a finite set; it is done without an
  operator as a parameter, by the least counterexample of a well-founded order
  (`Smallest`, from `WFMin` and `FS_StrictSubsetOrderingWellFounded`).
* `Solvency`, `ReserveMatches` and `BalanceMatches` are parts of `BooksInv`.
  `RecordedQuoted` follows from `RowsAsQuoted` and the bounds of a half-up division
  (`DivisionRounds`, `CentsRound`, `ConvertRounds`).
* `LedgerProofs!LedgerKept`: the refinement of `Ledger`, with `FundsInv`,
  `RequestInv`, `SettlementInv` and `BooksInv`. What the ledger holds on an account
  is what the rows' pending withdrawals hold (`HeldIsPending`) and so is what
  `reserved` counts, which turns the code's check of `Available` into the ledger's
  guard. A commit of a new row is `Expect`, `Hold` or `Move`, an ending is `Finish` or
  `Void`, everything else stutters; the makers of entries are distinct because
  in the next state, too, each row is the one its key names (`MakerIsNew`, from
  `FundsInv'`).

The outbox, for any events, kinds, workers, dispatchers, batch sizes, numbers of
stalls and crashes, with or without lost jobs (`OutboxAssumption`: events are
positive numbers, `Nobody` is no worker):

* `OutboxProofs!OutboxInvariant`: `OutboxSpec => []OutboxInv`. `AtMostOnce` is
  not inductive: a worker about to send would mail once more what was mailed.
  `OutboxInv` adds that a worker between its claim and its catch block holds the
  row and has mailed exactly what its place says (`ClaimsAreHeld`), that a row
  not yet claimed was not mailed (`RowsTellTheMail`), and that a run ends without
  an error only on a settled row (`SuccessIsFinal`). Lemmas: one per kind of step
  (`SideStep`, `NewRowStep`, `RunStep`, `IdleStep`, `ClaimStep`, `SettleStep`,
  `SendStep`).
* `OutboxProofs!MailedAtMostOnce` and `OutboxProofs!CompletedJobs` follow.
* `OutboxProofs!Implements`: the refinement of `Delivery`. A row that changes is
  a `Move` (`RowMove`); every step is one of `Delivery` or a stutter.

Onboarding, for any handlers, forms, sessions and documents
(`OnboardingAssumption`: the limit is positive, `Null` is none of these):

* `OnboardingProofs!OnboardingInvariant`: `OnboardingSpec => []OnboardingInv`.
  `RowsTellTheStage` and `VerdictDecides` are not inductive: a handler that saw
  a stage its operation does not start from could claim it, and one about to store
  a session that is already decided could bring its old verdict back.
  `OnboardingInv` adds what handlers know (`HandlersKnow`: the stages they
  saw, and that a session not yet stored is open and in one handler's hands) and
  what deliveries and answers quote (`HooksQuoteVeriff`). One lemma per kind of
  step.
* `OnboardingProofs!Lifecycle`: `OnboardingSpec => LifecycleMoves`, from the same
  invariant; `RowsTell`, `VerdictStands` and `AnsweredVerdict` are parts of it.

Authentication, for any finite set of handlers, any forms and sessions, any
number of codes and attempts (`AuthAssumption`):

* `AuthProofs!AuthInvariant`: `AuthSpec => []AuthInv`. The bounds are not inductive
  until the handlers that still owe an effect are counted with the effects:
  wrong answers plus the handlers about to count one (`Missing`), resets plus the
  handlers about to commit one (`Resetting`), good codes plus the handlers about to
  store one (`Creating`). `RegisteredAsVerified` needs that a remembered row has
  the code that was issued for its form (`IssuedRow`), whatever the row says now.
* `RegisteredVerified`, `WrongAnswersBounded`, `UsableCodesBounded`,
  `ResetsBounded`, `ResetsVerifiedAndTold` follow, and `AccountKept`: every step is a
  step of `Account` or a stutter.

The market, for any events, callers, clients, refreshes and bounds, about
`MarketSpec`, which `FairMarketSpec` implies (`TablesAssumption`,
`FeedAssumption`):

* `MarketProofs!MarketInvariant`: `MarketSpec => []MarketInv`. Imports exclude each
  other and any save (`ImportsExclude`), so a quote finds no streamed price; one
  refresh reads at a time, and nobody has seen more than it has read
  (`OneRefreshReads`).
* `LivePriceCurrent`, `SnapshotsForward` and `QuoteFirst` follow.

Only model-checked: liveness (`PaymentIsCredited`, `EventuallyQueued`,
`SettledOrReported`, `EveryChangeIsShown`), because the provers know neither
fairness nor ENABLED. Every other property of the passing runs is a theorem.

## 5. Plan

What could still be added, in this order:

1. Onboarding: a liveness property of the webhook (an approved session verifies
   the application in the end, if deliveries are repeated until answered).
2. Pagination of history and reports as pure operators against a reference.
3. Larger instances: a second client and a second symbol of the market, a third
   request of the funds component.

Not modelled, and why:

* Legacy orders (`modules/payment`): an endpoint from before the funds component;
  a Stripe event is one update of one status, and no account hangs on it.
* Reports and transaction history: queries evaluated by the database.
* Profile, and the creation, editing and listing of customers: single updates of
  single rows, where the last write wins.
* MT5 socket: passes each message on in one synchronous step, with no state.
* Reading notifications, rendering of e-mails and agreements, HTTP plumbing,
  validation, rate limits, provider wire formats and signatures.
* A withdrawal soon after a change of password: `auth.controller.ts:1503` and
  `profile.controller.ts:97` speak of a cooldown, but its check in
  `funds.service.ts:1221-1232` is commented out, so nothing is refused and the
  withdrawal does not depend on it.

Two things authentication allows and no document rules out, visible in the model:
a login that verified the old password may open its session just after a reset has
ended the others, and two resets that both read one token both commit.
