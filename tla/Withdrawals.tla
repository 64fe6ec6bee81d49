---------------------------- MODULE Withdrawals ----------------------------
(***************************************************************************)
(* Withdrawals (createWithdrawal, approveWithdrawal, rejectWithdrawal,     *)
(* processWithdrawal, completeWithdrawal and failWithdrawal of             *)
(* funds.service.ts).                                                      *)
(*                                                                         *)
(* A withdrawal reserves the amount when it is created; above the          *)
(* threshold an administrator must approve it; processing creates one      *)
(* payout attempt; the payout provider's answer takes the money or gives   *)
(* the reserve back.  Every transaction is Serializable, so it is one      *)
(* step, and it either commits or its request aborts.                      *)
(***************************************************************************)
EXTENDS FundsStore, Sequences

VARIABLE payouts    \* payouts[t]: statuses of the payout attempts of t

withdrawalVars == <<storeVars, payouts>>

PayoutsTypeOK == payouts \in [Requests -> Seq({"PENDING", "COMPLETED", "FAILED"})]

WithdrawalInit == StoreInit /\ payouts = [r \in Requests |-> <<>>]

-----------------------------------------------------------------------------
(* A customer asks for a withdrawal. *)

WithdrawSubmit(r, u, k, b) ==
  /\ b \in WithdrawalBodies
  /\ Submit(r, u, k, b)
  /\ UNCHANGED payouts

\* The checks on account, amount and balance outside the transaction.
MayWithdraw(r) ==
  LET a == req[r].body.account
      amount == Cents(req[r].body.amount)
  IN  Owner[a] = req[r].user /\ amount > 0 /\ Available(a) >= amount

\* Account and available balance are read, and the two quotes awaited, outside
\* the transaction: what was read may be stale when the transaction starts.
WithdrawQuote(r) ==
  /\ req[r].phase = "checked"
  /\ req[r].body.operation = "WITHDRAWAL"
  /\ LET a == req[r].body.account
         amount == Cents(req[r].body.amount)
     IN \/ /\ MayWithdraw(r)
           /\ \E toUsd \in Quotes(AccountCurrency[a], USD),
                 rate \in Quotes(AccountCurrency[a], req[r].body.payout) :
                req' = [req EXCEPT ![r].phase = "quoted",
                                   ![r].rate = rate,
                                   ![r].usd = Convert(amount, toUsd)]
        \/ ~MayWithdraw(r) /\ Answer(r, "failed", Null)
  /\ UNCHANGED <<customerActive, balance, reserved, idem, txn, notices, payouts>>

\* The transaction: claim the key, check the balance again, reserve, create.
\* The answer may be lost after the commit, and the client then knows nothing.
WithdrawCommit(r) ==
  /\ req[r].phase = "quoted"
  /\ req[r].body.operation = "WITHDRAWAL"
  /\ LET a == req[r].body.account
         amount == Cents(req[r].body.amount)
         claim == Upserted(r)
         accepted == /\ claim.hash = req[r].body
                     /\ ~(claim.status = "COMPLETED" /\ claim.txn # Null)
                     /\ Available(a) >= amount
     IN \/ /\ accepted
           /\ reserved' = [reserved EXCEPT ![a] = @ + amount]
           /\ txn' = [txn EXCEPT ![r] =
                [type |-> "WITHDRAWAL", customer |-> req[r].user,
                 account |-> a, destination |-> Null, amount |-> amount,
                 converted |-> Convert(amount, req[r].rate),
                 status |-> "PENDING",
                 approval |-> IF req[r].usd > Threshold THEN "PENDING"
                                                        ELSE "NOT_REQUIRED"]]
           /\ idem' = [idem EXCEPT ![<<req[r].user, req[r].key>>] =
                [claim EXCEPT !.status = "COMPLETED", !.txn = r]]
           /\ notices' = notices \cup {<<"withdrawal:submitted", r>>}
           /\ Answer(r, "created", r) \/ Answer(r, "failed", Null)
        \/ /\ ~accepted
           /\ Answer(r, "failed", Null)
           /\ UNCHANGED <<reserved, txn, idem, notices>>
  /\ UNCHANGED <<customerActive, balance, payouts>>

-----------------------------------------------------------------------------
(* Administrators and the payout provider.  A check that fails throws before
   anything is written, so the checks are guards.  The two reports of a payout
   also return early, without throwing, on an ending they take for their own, and
   then notify as if they had ended the withdrawal: completeWithdrawal only on
   COMPLETED, whose notice was asked for already, so that nothing changes;
   failWithdrawal is FailAgain. *)

PendingWithdrawal(t) ==
  txn[t].status = "PENDING" /\ txn[t].type = "WITHDRAWAL"

\* Mutant: the release is counted in the payout currency.
ReleasePayout(t) ==
  reserved' = [reserved EXCEPT ![txn[t].account] = @ - txn[t].converted]

\* The reserve of a withdrawal that ends is given up.
Release(t) ==
  /\ reserved[txn[t].account] >= txn[t].amount
  /\ reserved' = [reserved EXCEPT ![txn[t].account] = @ - txn[t].amount]

ApproveWithdrawal(t) ==
  /\ PendingWithdrawal(t)
  /\ txn[t].approval = "PENDING"
  /\ payouts[t] = <<>>
  /\ txn' = [txn EXCEPT ![t].approval = "APPROVED"]
  /\ notices' = notices \cup {<<"withdrawal:approved", t>>}
  /\ UNCHANGED <<customerActive, balance, reserved, idem, req, payouts>>

RejectWithdrawal(t) ==
  /\ PendingWithdrawal(t)
  /\ txn[t].approval \in {"PENDING", "NOT_REQUIRED"}
  /\ payouts[t] = <<>>
  /\ Release(t)
  /\ txn' = [txn EXCEPT ![t].status = "REJECTED", ![t].approval = "REJECTED"]
  /\ notices' = notices \cup {<<"withdrawal:rejected", t>>}
  /\ UNCHANGED <<customerActive, balance, idem, req, payouts>>

\* Mutant: a withdrawal that waits for approval can be processed.
ProcessableUnapproved == {"NOT_REQUIRED", "PENDING", "APPROVED"}

Processable == {"NOT_REQUIRED", "APPROVED"}

\* Mutant: an existing payout does not stop another one.
ProcessAgain(t) ==
  /\ PendingWithdrawal(t)
  /\ txn[t].approval \in Processable
  /\ Len(payouts[t]) < 2
  /\ payouts' = [payouts EXCEPT ![t] = Append(@, "PENDING")]
  /\ UNCHANGED storeVars

\* A Decimal is truthy even when it is zero, so a payout of zero goes through.
ProcessWithdrawal(t) ==
  /\ PendingWithdrawal(t)
  /\ txn[t].approval \in Processable
  /\ payouts[t] = <<>>
  /\ payouts' = [payouts EXCEPT ![t] = Append(@, "PENDING")]
  /\ notices' = notices \cup {<<"withdrawal:processing", t>>}
  /\ UNCHANGED <<customerActive, balance, reserved, idem, txn, req>>

\* findFirst(PENDING, newest first) of completeWithdrawal and failWithdrawal.
OpenPayouts(t) == {i \in DOMAIN payouts[t] : payouts[t][i] = "PENDING"}
NewestPayout(t) == CHOOSE i \in OpenPayouts(t) : \A j \in OpenPayouts(t) : j <= i

\* The account pays the withdrawal.
Take(t) ==
  /\ balance[txn[t].account] >= txn[t].amount
  /\ balance' = [balance EXCEPT ![txn[t].account] = @ - txn[t].amount]

\* The payout provider reports success, possibly again, late, or after failure.
CompleteWithdrawal(t) ==
  /\ PendingWithdrawal(t)
  /\ OpenPayouts(t) # {}
  /\ Release(t)
  /\ Take(t)
  /\ payouts' = [payouts EXCEPT ![t][NewestPayout(t)] = "COMPLETED"]
  /\ txn' = [txn EXCEPT ![t].status = "COMPLETED"]
  /\ notices' = notices \cup {<<"withdrawal:completed", t>>}
  /\ UNCHANGED <<customerActive, idem, req>>

\* Mutant: a report of failure is believed whatever the status is.
FailUnconditionally(t) ==
  /\ txn[t].status # "NONE"
  /\ payouts[t] # <<>>
  /\ txn' = [txn EXCEPT ![t].status = "FAILED"]
  /\ notices' = notices \cup {<<"withdrawal:failed", t>>}
  /\ UNCHANGED <<customerActive, balance, reserved, idem, req, payouts>>

\* The payout provider reports failure, and the reserve is given back.
FailPending(t) ==
  /\ PendingWithdrawal(t)
  /\ OpenPayouts(t) # {}
  /\ Release(t)
  /\ payouts' = [payouts EXCEPT ![t][NewestPayout(t)] = "FAILED"]
  /\ txn' = [txn EXCEPT ![t].status = "FAILED"]
  /\ notices' = notices \cup {<<"withdrawal:failed", t>>}
  /\ UNCHANGED <<customerActive, balance, idem, req>>

\* It does so again, or an administrator has rejected the withdrawal before: the
\* row is returned as it is, and the customer is told of a failure all the same.
FailAgain(t) ==
  /\ txn[t].status \in {"FAILED", "REJECTED"} /\ txn[t].type = "WITHDRAWAL"
  /\ notices' = notices \cup {<<"withdrawal:failed", t>>}
  /\ UNCHANGED <<customerActive, balance, reserved, idem, txn, req, payouts>>

FailWithdrawal(t) == FailPending(t) \/ FailAgain(t)

WithdrawalStep ==
  \/ \E r \in Requests :
       \/ \E u \in Users, k \in Keys, b \in WithdrawalBodies :
            WithdrawSubmit(r, u, k, b)
       \/ WithdrawQuote(r)
       \/ WithdrawCommit(r)
  \/ \E t \in Requests :
       \/ ApproveWithdrawal(t)
       \/ RejectWithdrawal(t)
       \/ ProcessWithdrawal(t)
       \/ CompleteWithdrawal(t)
       \/ FailWithdrawal(t)

WithdrawalNext ==
  \/ WithdrawalStep
  \/ /\ \/ \E r \in Requests : RequestAborts(r)
        \/ \E u \in Users : DeactivateCustomer(u)
     /\ UNCHANGED payouts

WithdrawalSpec == WithdrawalInit /\ [][WithdrawalNext]_withdrawalVars

-----------------------------------------------------------------------------
(* Properties. *)

Withdrawn == {t \in Rows : txn[t].type = "WITHDRAWAL"}

\* No payout is started for a withdrawal above the threshold unless an
\* administrator approved it, and none for one that waits or was rejected:
\* the decision taken before the transaction still stands at every payout.
PayoutsAreAuthorised ==
  \A t \in Withdrawn :
    /\ req[t].usd > Threshold =>
         txn[t].approval \in {"PENDING", "APPROVED", "REJECTED"}
    /\ payouts[t] # <<>> => txn[t].approval \in {"NOT_REQUIRED", "APPROVED"}

\* A withdrawal is paid out at most once, and its status and its payout tell
\* the same story: completed with a completed payout, failed with a failed
\* one, rejected with none, and pending with at most an open one.
PayoutMatchesStatus ==
  \A t \in Withdrawn :
    payouts[t] \in
      CASE txn[t].status = "COMPLETED" -> {<<"COMPLETED">>}
        [] txn[t].status = "FAILED"    -> {<<"FAILED">>}
        [] txn[t].status = "REJECTED"  -> {<<>>}
        [] OTHER                       -> {<<>>, <<"PENDING">>}

\* What a customer is told of the money is true for good, whoever ended the
\* withdrawal first and whoever reports late: a notice of completion means that
\* it was paid, one of failure or rejection that it was not and never will be,
\* and nobody who was told of an approval or a payout is rejected afterwards.
NoticesTellTheMoney ==
  \A t \in Withdrawn :
    /\ <<"withdrawal:completed", t>> \in notices => txn[t].status = "COMPLETED"
    /\ <<"withdrawal:failed", t>> \in notices =>
         txn[t].status \in {"FAILED", "REJECTED"}
    /\ <<"withdrawal:rejected", t>> \in notices => txn[t].status = "REJECTED"
    /\ \A e \in {"withdrawal:approved", "withdrawal:processing"} :
         <<e, t>> \in notices => txn[t].status # "REJECTED"

\* TRADESTACK_DEVELOPMENT_GUIDE.md:120: notifications of a transaction's status
\* are created with its state changes.  So the customer is told of one ending of
\* a withdrawal, the one it had; failWithdrawal announces a failure of a rejected
\* withdrawal, too, which it leaves as it is.
NoticesTellTheEnding ==
  \A t \in Withdrawn :
    /\ <<"withdrawal:completed", t>> \in notices => txn[t].status = "COMPLETED"
    /\ <<"withdrawal:failed", t>> \in notices => txn[t].status = "FAILED"
    /\ <<"withdrawal:rejected", t>> \in notices => txn[t].status = "REJECTED"
=============================================================================
