------------------------------ MODULE Deposits ------------------------------
(***************************************************************************)
(* Deposits: createDeposit of funds.service.ts, the checkout it opens at a *)
(* payment service provider (PSP), and the Stripe and CoinPayments         *)
(* webhooks that credit the account.                                       *)
(*                                                                         *)
(* The PSP is called between two database transactions, so a deposit can   *)
(* stop with the key still PROCESSING, with a session nobody will pay, or  *)
(* with the answer lost.  Webhooks are delivered until answered 200, and   *)
(* possibly again after that.                                              *)
(***************************************************************************)
EXTENDS FundsStore

CONSTANT MaxDeliveries    \* CoinPayments deliveries of one event at a time

ASSUME DeliveriesAssumption == MaxDeliveries \in Nat

VARIABLES
  attempt,    \* paymentAttempt rows, one per deposit transaction
  psp,        \* the PSP's checkout session for the attempt
  settling,   \* CoinPayments deliveries past the reads of the settlement
  acked       \* deposits whose payment event was answered 200

depositVars == <<storeVars, attempt, psp, settling, acked>>
pspVars == <<attempt, psp, settling, acked>>

NoAttempt == [status |-> "NONE"]

\* referenced: providerReference holds the session's id (it is null before).
Attempts ==
  [status: {"PENDING", "COMPLETED", "FAILED", "CANCELLED"},
   referenced: BOOLEAN]

Sessions == {"none", "open", "processing", "paid", "failed", "expired"}

DepositTypeOK ==
  /\ StoreTypeOK
  /\ attempt \in [Requests -> Attempts \cup {NoAttempt}]
  /\ psp \in [Requests -> Sessions]
  /\ settling \in [Requests -> 0..MaxDeliveries]
  /\ acked \in SUBSET Requests

DepositInit ==
  /\ StoreInit
  /\ attempt = [r \in Requests |-> NoAttempt]
  /\ psp = [r \in Requests |-> "none"]
  /\ settling = [r \in Requests |-> 0]
  /\ acked = {}

Provider(r) == req[r].body.provider

-----------------------------------------------------------------------------
(* The request. *)

DepositSubmit(r, u, k, b) ==
  /\ b \in DepositBodies
  /\ Submit(r, u, k, b)
  /\ UNCHANGED pspVars

\* The account is read and the quote awaited outside the transaction.
DepositQuote(r) ==
  /\ req[r].phase = "checked"
  /\ req[r].body.operation = "DEPOSIT"
  /\ LET a == req[r].body.account
         amount == Cents(req[r].body.amount)
         accepted == Owner[a] = req[r].user /\ amount > 0
     IN \/ /\ accepted
           /\ \E rate \in Quotes(req[r].body.currency, AccountCurrency[a]) :
                req' = [req EXCEPT
                  ![r].phase = IF Convert(amount, rate) > 0 THEN "quoted"
                                                            ELSE "failed",
                  ![r].rate = rate]
        \/ ~accepted /\ Answer(r, "failed", Null)
  /\ UNCHANGED <<customerActive, balance, reserved, idem, txn, notices>>
  /\ UNCHANGED pspVars

\* The first transaction claims the key and creates transaction and attempt.
\* The key stays PROCESSING but already names the transaction.
DepositCommit(r) ==
  /\ req[r].phase = "quoted"
  /\ req[r].body.operation = "DEPOSIT"
  /\ LET claim == Upserted(r)
         amount == Cents(req[r].body.amount)
         accepted == /\ claim.hash = req[r].body
                     /\ claim.status # "COMPLETED"
                     /\ claim.txn = Null
     IN \/ /\ accepted
           /\ txn' = [txn EXCEPT ![r] =
                [type |-> "DEPOSIT", customer |-> req[r].user,
                 account |-> req[r].body.account, destination |-> Null,
                 amount |-> amount,
                 converted |-> Convert(amount, req[r].rate),
                 status |-> "PENDING", approval |-> "NOT_REQUIRED"]]
           /\ attempt' = [attempt EXCEPT ![r] =
                [status |-> "PENDING", referenced |-> FALSE]]
           /\ idem' = [idem EXCEPT ![<<req[r].user, req[r].key>>] =
                [claim EXCEPT !.txn = r]]
           /\ Goto(r, "recorded")
        \/ /\ ~accepted
           /\ Answer(r, "failed", Null)
           /\ UNCHANGED <<txn, attempt, idem>>
  /\ UNCHANGED <<customerActive, balance, reserved, notices>>
  /\ UNCHANGED <<psp, settling, acked>>

\* The call to the PSP: a session and its URL come back, or the call throws,
\* when the PSP may have created the session all the same.
OpenCheckout(r) ==
  /\ req[r].phase = "recorded"
  /\ \/ Goto(r, "opened") /\ psp' = [psp EXCEPT ![r] = "open"]
     \/ Goto(r, "declined") /\ psp' = [psp EXCEPT ![r] = "open"]
     \/ Goto(r, "declined") /\ UNCHANGED psp
  /\ UNCHANGED <<customerActive, balance, reserved, idem, txn, notices>>
  /\ UNCHANGED <<attempt, settling, acked>>

\* Mutant: only the key is marked.
MarkKeyFailed(r) ==
  /\ req[r].phase = "declined"
  /\ idem' = [idem EXCEPT ![<<req[r].user, req[r].key>>].status = "FAILED"]
  /\ Answer(r, "failed", Null)
  /\ UNCHANGED <<customerActive, balance, reserved, txn, notices>>
  /\ UNCHANGED pspVars

\* The transaction in the catch block.  The fund transaction stays PENDING.
MarkFailed(r) ==
  /\ req[r].phase = "declined"
  /\ attempt' = [attempt EXCEPT ![r].status = "FAILED"]
  /\ idem' = [idem EXCEPT ![<<req[r].user, req[r].key>>].status = "FAILED"]
  /\ Answer(r, "failed", Null)
  /\ UNCHANGED <<customerActive, balance, reserved, txn, notices>>
  /\ UNCHANGED <<psp, settling, acked>>

\* The last transaction stores the reference and completes the key; only then
\* does the customer get the checkout URL, unless the answer is lost.
SaveCheckout(r) ==
  /\ req[r].phase = "opened"
  /\ attempt' = [attempt EXCEPT ![r].referenced = TRUE]
  /\ idem' = [idem EXCEPT ![<<req[r].user, req[r].key>>].status = "COMPLETED"]
  /\ notices' = notices \cup {<<"deposit:submitted", r>>}
  /\ Answer(r, "created", r) \/ Answer(r, "failed", Null)
  /\ UNCHANGED <<customerActive, balance, reserved, txn>>
  /\ UNCHANGED <<psp, settling, acked>>

-----------------------------------------------------------------------------
(* The PSP (external). *)

\* The customer who was given the URL pays, at once or by a delayed method.
CustomerPays(r) ==
  /\ psp[r] = "open"
  /\ req[r].phase = "created"
  /\ \E s \in {"paid", "processing"} :
       /\ s = "processing" => Provider(r) = "STRIPE"
       /\ psp' = [psp EXCEPT ![r] = s]
  /\ UNCHANGED <<storeVars, attempt, settling, acked>>

DelayedPaymentEnds(r) ==
  /\ psp[r] = "processing"
  /\ \E s \in {"paid", "failed"} : psp' = [psp EXCEPT ![r] = s]
  /\ UNCHANGED <<storeVars, attempt, settling, acked>>

SessionExpires(r) ==
  /\ psp[r] = "open"
  /\ psp' = [psp EXCEPT ![r] = "expired"]
  /\ UNCHANGED <<storeVars, attempt, settling, acked>>

-----------------------------------------------------------------------------
(* Webhooks.  A delivery that fails is answered 500 and changes nothing. *)

\* Mutant: a delivery does not look at the status of the attempt.
ClaimableAlways(r) == attempt[r].status # "NONE"

\* updateMany(id, status PENDING) would claim the attempt.
Claimable(r) == attempt[r].status = "PENDING"

\* Mutant: the fund transaction is not completed.
CreditOnly(r) ==
  /\ attempt' = [attempt EXCEPT ![r].status = "COMPLETED",
                                ![r].referenced = TRUE]
  /\ balance' = [balance EXCEPT ![txn[r].account] = @ + txn[r].converted]
  /\ UNCHANGED txn

\* The attempt claimed by a conditional update, the transaction completed and
\* the account credited, all in one transaction.
Credit(r) ==
  /\ attempt' = [attempt EXCEPT ![r].status = "COMPLETED",
                                ![r].referenced = TRUE]
  /\ txn' = [txn EXCEPT ![r].status = "COMPLETED"]
  /\ balance' = [balance EXCEPT ![txn[r].account] = @ + txn[r].converted]

\* checkout.session.completed (paid) or async_payment_succeeded.  A delivery
\* whose claim finds no PENDING attempt is answered 200 and credits nothing.
StripePaid(r) ==
  /\ psp[r] = "paid"
  /\ Provider(r) = "STRIPE"
  /\ \/ Claimable(r) /\ Credit(r)
     \/ ~Claimable(r) /\ UNCHANGED <<attempt, txn, balance>>
  /\ acked' = acked \cup {r}
  /\ UNCHANGED <<customerActive, reserved, idem, req, notices, psp, settling>>

\* Mutant: a session completed but not yet paid counts as failed.
StripeUnpaidFails(r) ==
  /\ Claimable(r)
  /\ Provider(r) = "STRIPE"
  /\ psp[r] \in {"processing", "failed", "expired"}
  /\ attempt' = [attempt EXCEPT ![r].status = "FAILED"]
  /\ UNCHANGED <<storeVars, psp, settling, acked>>

\* async_payment_failed and checkout.session.expired: the fund transaction
\* stays PENDING.
StripeNotPaid(r) ==
  /\ Claimable(r)
  /\ Provider(r) = "STRIPE"
  /\ \/ /\ psp[r] = "failed"
        /\ attempt' = [attempt EXCEPT ![r].status = "FAILED"]
     \/ /\ psp[r] = "expired"
        /\ attempt' = [attempt EXCEPT ![r].status = "CANCELLED"]
  /\ UNCHANGED <<storeVars, psp, settling, acked>>

\* invoicecompleted: the attempt is found by its reference, the invoice read
\* back from CoinPayments, and the settlement reads its rows.  Several
\* deliveries can be past the reads; a completed attempt is answered 200.
CoinPaymentsRead(r) ==
  /\ psp[r] = "paid"
  /\ Provider(r) = "COINPAYMENTS"
  /\ attempt[r].referenced
  /\ \/ /\ attempt[r].status = "COMPLETED"
        /\ acked' = acked \cup {r}
        /\ UNCHANGED settling
     \/ /\ attempt[r].status = "PENDING"
        /\ txn[r].status = "PENDING"
        /\ txn[r].converted > 0
        /\ Owner[txn[r].account] = txn[r].customer
        /\ settling[r] < MaxDeliveries
        /\ settling' = [settling EXCEPT ![r] = @ + 1]
        /\ UNCHANGED acked
  /\ UNCHANGED <<storeVars, attempt, psp>>

\* The conditional updates of the settlement: claim the attempt or find that
\* another delivery has, complete the transaction and credit the account.
CoinPaymentsSettle(r) ==
  /\ settling[r] > 0
  /\ settling' = [settling EXCEPT ![r] = @ - 1]
  /\ \/ /\ Claimable(r)
        /\ txn[r].status = "PENDING"
        /\ Credit(r)
     \/ ~Claimable(r) /\ UNCHANGED <<attempt, txn, balance>>
  /\ acked' = acked \cup {r}
  /\ UNCHANGED <<customerActive, reserved, idem, req, notices, psp>>

\* A delivery dies between its reads and its updates; it is not answered 200.
DeliveryDies(r) ==
  /\ settling[r] > 0
  /\ settling' = [settling EXCEPT ![r] = @ - 1]
  /\ UNCHANGED <<storeVars, attempt, psp, acked>>

Webhook(r) ==
  \/ StripePaid(r)
  \/ StripeNotPaid(r)
  \/ CoinPaymentsRead(r)
  \/ CoinPaymentsSettle(r)
  \/ DeliveryDies(r)

DepositStep ==
  \E r \in Requests :
    \/ \E u \in Users, k \in Keys, b \in DepositBodies :
         DepositSubmit(r, u, k, b)
    \/ DepositQuote(r)
    \/ DepositCommit(r)
    \/ OpenCheckout(r)
    \/ MarkFailed(r)
    \/ SaveCheckout(r)
    \/ CustomerPays(r)
    \/ DelayedPaymentEnds(r)
    \/ SessionExpires(r)
    \/ Webhook(r)

DepositNext ==
  \/ DepositStep
  \/ /\ \/ \E r \in Requests : RequestAborts(r)
        \/ \E u \in Users : DeactivateCustomer(u)
     /\ UNCHANGED pspVars

DepositSpec == DepositInit /\ [][DepositNext]_depositVars

\* The PSPs deliver a payment event until it is answered 200, so a delivery
\* that can settle the payment does so in the end.  Customers, administrators
\* and the request handlers, which may die, are not fair.
WebhooksAreRetried ==
  \A r \in Requests :
    /\ WF_depositVars(StripePaid(r))
    /\ WF_depositVars(CoinPaymentsRead(r))
    /\ SF_depositVars(CoinPaymentsSettle(r))

FairDepositSpec == DepositSpec /\ WebhooksAreRetried

-----------------------------------------------------------------------------
(* Properties. *)

Deposited == {r \in Rows : txn[r].type = "DEPOSIT"}

\* A deposit is credited exactly when its attempt was claimed, only for a
\* session that was paid, whatever the PSP repeats, delays or reorders.
CreditedIffClaimed ==
  \A r \in Deposited :
    /\ txn[r].status = "COMPLETED" <=> attempt[r].status = "COMPLETED"
    /\ txn[r].status = "COMPLETED" => psp[r] = "paid"

\* When a webhook has answered 200 to a payment, so that the PSP never sends
\* it again, the account has been credited: the delivery that finds no PENDING
\* attempt gives up only because another one credited.
AnsweredPaymentIsCredited ==
  \A r \in acked : txn[r].status = "COMPLETED"

\* What a deposit's key says of the checkout is so: a completed key has a session
\* the webhooks can find, a failed key belongs to a deposit that never credits.
KeyTellsTheCheckout ==
  \A uk \in Users \X Keys :
    LET c == idem[uk] IN
    /\ c.status = "COMPLETED" /\ c.txn \in Deposited => attempt[c.txn].referenced
    /\ c.status = "FAILED" => /\ attempt[c.txn].status = "FAILED"
                              /\ txn[c.txn].status = "PENDING"

\* Every payment a customer makes is credited in the end, although deliveries
\* fail, die half-way or race with each other.
PaymentIsCredited ==
  \A r \in Requests : psp[r] = "paid" ~> txn[r].status = "COMPLETED"

\* PROJECT_STATUS.md on deposit idempotency: "Already Exists?" "YES", "Same
\* Request?" "YES -> Return Existing Deposit".  Here: once the request that
\* made the deposit is over, one way or another.
SameRequestReturnsDeposit ==
  [][\A r \in Requests :
       /\ req[r].phase = "idle" /\ req'[r].phase # "idle"
       /\ customerActive[req'[r].user]
       /\ LET c == idem[<<req'[r].user, req'[r].key>>]
          IN  /\ c.status # "NONE" /\ c.hash = req'[r].body
              /\ req[c.txn].phase \in Answered
       => req'[r].phase = "replayed"]_depositVars
=============================================================================
