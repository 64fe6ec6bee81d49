------------------------------- MODULE Funds -------------------------------
(***************************************************************************)
(* The funds component: withdrawals, transfers and deposits of the same    *)
(* customers, over the same accounts and the same idempotency keys.        *)
(***************************************************************************)
EXTENDS Withdrawals, Transfers, Deposits

fundsVars == <<storeVars, payouts, pspVars>>

FundsInit == DepositInit /\ payouts = [r \in Requests |-> <<>>]

FundsNext ==
  \/ WithdrawalStep /\ UNCHANGED pspVars
  \/ TransferStep /\ UNCHANGED <<payouts, pspVars>>
  \/ DepositStep /\ UNCHANGED payouts
  \/ /\ \/ \E r \in Requests : RequestAborts(r)
        \/ \E u \in Users : DeactivateCustomer(u)
     /\ UNCHANGED <<payouts, pspVars>>

FundsSpec == FundsInit /\ [][FundsNext]_fundsVars

-----------------------------------------------------------------------------
(* Why it is safe: what the rows say of each other. *)

FundsTypeOK == DepositTypeOK /\ PayoutsTypeOK

\* A transaction was made by a request that claimed the key for it, and its
\* row repeats what that request asked for.
RowsAreClaimed ==
  \A r \in Rows :
    /\ req[r].phase # "idle"
    /\ ClaimOf(r).status # "NONE"
    /\ ClaimOf(r).txn = r
    /\ ClaimOf(r).hash = req[r].body
    /\ txn[r].customer = req[r].user
    /\ txn[r].type = req[r].body.operation

\* A committed claim names a transaction of that customer and key, and only
\* the claim of a deposit can be anything but COMPLETED: this is why it is
\* enough for withdrawals and transfers to look for a COMPLETED claim.
ClaimsAreUsed ==
  \A uk \in Users \X Keys :
    idem[uk].status # "NONE" =>
      /\ idem[uk].txn \in Rows
      /\ <<req[idem[uk].txn].user, req[idem[uk].txn].key>> = uk
      /\ idem[uk].hash.operation # "DEPOSIT" => idem[uk].status = "COMPLETED"

\* Between its first and its last transaction a deposit request has its row.
CheckoutsAreRecorded ==
  \A r \in Requests :
    req[r].phase \in {"recorded", "opened", "declined"} =>
      r \in Rows /\ txn[r].type = "DEPOSIT"

\* Deposits, and only deposits, have a payment attempt.
AttemptsBelong ==
  \A r \in Requests :
    attempt[r].status # "NONE" <=> r \in Rows /\ txn[r].type = "DEPOSIT"

\* The inductive invariant: the rows never contradict each other, whichever
\* handler, administrator or webhook committed last.
FundsInv ==
  /\ FundsTypeOK
  /\ RowsAreClaimed
  /\ ClaimsAreUsed
  /\ CheckoutsAreRecorded
  /\ AttemptsBelong

-----------------------------------------------------------------------------
(* The ledger this implements. *)

Kind == [WITHDRAWAL |-> "out", DEPOSIT |-> "in", TRANSFER |-> "move"]

State == [PENDING |-> "pending", COMPLETED |-> "done",
          FAILED |-> "void", REJECTED |-> "void"]

\* What row r says in the ledger; a deposit counts in the account's currency.
EntryOf(r) ==
  IF txn[r].status = "NONE" THEN [state |-> "none"]
  ELSE [kind |-> Kind[txn[r].type], account |-> txn[r].account,
        amount |-> IF txn[r].type = "DEPOSIT" THEN txn[r].converted
                                              ELSE txn[r].amount,
        state |-> State[txn[r].status]]

MakerOf(r) ==
  IF txn[r].status = "NONE" THEN <<>> ELSE <<req[r].user, req[r].key>>

\* What the amounts the API accepts come to, with and without conversion.
LedgerSums ==
  {Convert(Cents(m), q) : m \in Amounts, q \in Rates \cup {Par}}

TheLedger == INSTANCE Ledger WITH
  Ids <- Requests, Customers <- Users, EntryKeys <- Keys,
  Places <- Accounts, Opening <- OpeningBalance,
  Sums <- LedgerSums,
  funds <- balance,
  entry <- [r \in Requests |-> EntryOf(r)],
  maker <- [r \in Requests |-> MakerOf(r)]

\* The three handlers, the administrators and the webhooks together do to the
\* balances what a ledger without concurrency would: the reserve counter, the
\* idempotency rows and the status checks are enough.
ImplementsLedger == TheLedger!LedgerSpec
=============================================================================
