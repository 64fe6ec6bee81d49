----------------------------- MODULE Transfers -----------------------------
(***************************************************************************)
(* Transfers between two accounts of one customer (createTransfer of       *)
(* funds.service.ts).  Debit, credit, the completed transaction and the    *)
(* idempotency row commit together; unlike a withdrawal, a transfer that   *)
(* finds its key completed inside the transaction replays the result.      *)
(***************************************************************************)
EXTENDS FundsStore

TransferSubmit(r, u, k, b) ==
  /\ b \in TransferBodies
  /\ \/ b.account # b.destination /\ Submit(r, u, k, b)
     \/ /\ b.account = b.destination
        /\ req[r].phase = "idle"
        /\ req' = [req EXCEPT ![r] =
             [phase |-> "failed", user |-> u, key |-> k, body |-> b,
              rate |-> Par, usd |-> 0, result |-> Null]]
        /\ UNCHANGED <<customerActive, balance, reserved, idem, txn, notices>>

\* Mutant: the owner of the destination is not compared.
MayTransferAnywhere(r) ==
  LET from == req[r].body.account
      amount == Cents(req[r].body.amount)
  IN  Owner[from] = req[r].user /\ amount > 0 /\ Available(from) >= amount

\* The checks on accounts, amount and balance outside the transaction.
MayTransfer(r) ==
  LET from == req[r].body.account
      amount == Cents(req[r].body.amount)
  IN  /\ Owner[from] = req[r].user
      /\ Owner[req[r].body.destination] = req[r].user
      /\ amount > 0
      /\ Available(from) >= amount

\* Both accounts are read and the quote awaited outside the transaction.
TransferQuote(r) ==
  /\ req[r].phase = "checked"
  /\ req[r].body.operation = "TRANSFER"
  /\ LET from == req[r].body.account
         to == req[r].body.destination
         amount == Cents(req[r].body.amount)
     IN \/ /\ MayTransfer(r)
           /\ \E rate \in Quotes(AccountCurrency[from], AccountCurrency[to]) :
                req' = [req EXCEPT
                  ![r].phase = IF Convert(amount, rate) > 0 THEN "quoted"
                                                            ELSE "failed",
                  ![r].rate = rate]
        \/ ~MayTransfer(r) /\ Answer(r, "failed", Null)
  /\ UNCHANGED <<customerActive, balance, reserved, idem, txn, notices>>

\* Mutant: the destination gets the amount, unconverted.
MoveUnconverted(from, to, amount, received) ==
  balance' = [[balance EXCEPT ![from] = @ - amount] EXCEPT ![to] = @ + amount]

\* Debit and credit.
MoveMoney(from, to, amount, received) ==
  balance' = [[balance EXCEPT ![from] = @ - amount] EXCEPT ![to] = @ + received]

\* The transaction claims the key, or replays it, and moves the money.  The
\* answer may be lost after the commit.
TransferCommit(r) ==
  /\ req[r].phase = "quoted"
  /\ req[r].body.operation = "TRANSFER"
  /\ LET from == req[r].body.account
         to == req[r].body.destination
         amount == Cents(req[r].body.amount)
         received == Convert(amount, req[r].rate)
         claim == Upserted(r)
         mine == claim.hash = req[r].body
         done == claim.status = "COMPLETED" /\ claim.txn # Null
     IN \/ /\ mine /\ ~done
           /\ Available(from) >= amount
           /\ MoveMoney(from, to, amount, received)
           /\ txn' = [txn EXCEPT ![r] =
                [type |-> "TRANSFER", customer |-> req[r].user,
                 account |-> from, destination |-> to, amount |-> amount,
                 converted |-> received, status |-> "COMPLETED",
                 approval |-> "NOT_REQUIRED"]]
           /\ idem' = [idem EXCEPT ![<<req[r].user, req[r].key>>] =
                [claim EXCEPT !.status = "COMPLETED", !.txn = r]]
           /\ notices' = notices \cup {<<"transfer:completed", r>>}
           /\ Answer(r, "created", r) \/ Answer(r, "failed", Null)
        \/ /\ mine /\ done
           /\ Replayable(claim, req[r].user, req[r].body)
           /\ notices' = notices \cup {<<"transfer:completed", claim.txn>>}
           /\ Answer(r, "replayed", claim.txn)
           /\ UNCHANGED <<balance, txn, idem>>
        \/ /\ \/ ~mine
              \/ mine /\ done /\ ~Replayable(claim, req[r].user, req[r].body)
              \/ mine /\ ~done /\ Available(from) < amount
           /\ Answer(r, "failed", Null)
           /\ UNCHANGED <<balance, txn, idem, notices>>
  /\ UNCHANGED <<customerActive, reserved>>

TransferStep ==
  \E r \in Requests :
    \/ \E u \in Users, k \in Keys, b \in TransferBodies :
         TransferSubmit(r, u, k, b)
    \/ TransferQuote(r)
    \/ TransferCommit(r)

TransferNext ==
  \/ TransferStep
  \/ \E r \in Requests : RequestAborts(r)
  \/ \E u \in Users : DeactivateCustomer(u)

TransferSpec == StoreInit /\ [][TransferNext]_storeVars

-----------------------------------------------------------------------------
(* Properties. *)

\* Money moves only between accounts of the customer who asked, both sides of
\* a transfer together, and both for an amount of at least one cent.
TransfersStayInTheFamily ==
  [][\A r \in Requests :
       txn[r] = NoTxn /\ txn'[r] # NoTxn /\ txn'[r].type = "TRANSFER" =>
         /\ Owner[txn'[r].account] = Owner[txn'[r].destination]
         /\ balance'[txn'[r].account] < balance[txn'[r].account]
         /\ balance'[txn'[r].destination] > balance[txn'[r].destination]
         /\ \A a \in Accounts \ {txn'[r].account, txn'[r].destination} :
              balance'[a] = balance[a]]_storeVars
=============================================================================
