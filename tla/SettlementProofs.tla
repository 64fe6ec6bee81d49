-------------------------- MODULE SettlementProofs --------------------------
(* How withdrawals and deposits end, for every value of the constants. *)
EXTENDS RequestProofs

-----------------------------------------------------------------------------
(* The strengthening: what the rows of one transaction say of each other. *)

Endings == {"withdrawal:completed", "withdrawal:failed", "withdrawal:rejected"}

\* What the customer is told of a withdrawal after it was asked for.
Tidings == {"withdrawal:approved", "withdrawal:processing"} \cup Endings

Told(e, t) == <<e, t>> \in notices

\* The payouts that go with a status.
PayoutsOf(status) ==
  CASE status = "COMPLETED" -> {<<"COMPLETED">>}
    [] status = "FAILED"    -> {<<"FAILED">>}
    [] status = "REJECTED"  -> {<<>>}
    [] OTHER                -> {<<>>, <<"PENDING">>}

\* Approval and payouts of a withdrawal tell its status, and its notices where the
\* money went; what is no withdrawal has none of them.
WithdrawalTells(t) ==
  IF t \in Withdrawn
    THEN /\ req[t].usd > Threshold =>
              txn[t].approval \in {"PENDING", "APPROVED", "REJECTED"}
         /\ payouts[t] # <<>> => txn[t].approval \in {"NOT_REQUIRED", "APPROVED"}
         /\ payouts[t] \in PayoutsOf(txn[t].status)
         /\ Told("withdrawal:completed", t) => txn[t].status = "COMPLETED"
         /\ txn[t].status = "REJECTED" => txn[t].approval = "REJECTED"
         /\ Told("withdrawal:approved", t) => txn[t].approval = "APPROVED"
         /\ Told("withdrawal:processing", t) => payouts[t] # <<>>
         /\ Told("withdrawal:failed", t) => txn[t].status \in {"FAILED", "REJECTED"}
         /\ Told("withdrawal:rejected", t) => txn[t].status = "REJECTED"
    ELSE payouts[t] = <<>> /\ \A e \in Tidings : ~Told(e, t)

\* A session is paid for, or fails, only after its URL was answered, and is
\* then the end of the attempt; an attempt that is over without money belongs to
\* a session that nobody has paid, and nobody will pay.
CheckoutTells(r) ==
  /\ psp[r] # "none" => r \in Deposited /\ req[r].phase # "recorded"
  /\ psp[r] \in {"processing", "paid", "failed"} => req[r].phase = "created"
  /\ settling[r] > 0 => psp[r] = "paid"
  /\ r \in acked => r \in Deposited /\ txn[r].status = "COMPLETED"
  /\ r \in Deposited =>
       /\ txn[r].status \in {"PENDING", "COMPLETED"}
       /\ txn[r].status = "COMPLETED" <=> attempt[r].status = "COMPLETED"
       /\ txn[r].status = "COMPLETED" => psp[r] = "paid"
       /\ attempt[r].status = "FAILED" =>
            psp[r] = "failed" \/ req[r].phase = "failed"
       /\ attempt[r].status = "CANCELLED" => psp[r] = "expired"

\* What a claim says of the checkout of its deposit.
ClaimTells(c) ==
  /\ c.status = "COMPLETED" /\ c.txn \in Deposited => attempt[c.txn].referenced
  /\ c.status = "FAILED" => /\ attempt[c.txn].status = "FAILED"
                            /\ txn[c.txn].status = "PENDING"

SettlementInv ==
  /\ \A t \in Requests : WithdrawalTells(t) /\ CheckoutTells(t)
  /\ \A uk \in Users \X Keys : ClaimTells(idem[uk])

\* Without rows there is nothing to tell.
LEMMA SettlementInitially == FundsInit => SettlementInv
BY DEF FundsInit, DepositInit, StoreInit, SettlementInv, WithdrawalTells, Told,
   CheckoutTells, ClaimTells, Withdrawn, Deposited, Rows, NoTxn, NoClaim

\* What the states between requests, administrators and webhooks show of it.
LEMMA SettlementShows ==
  ASSUME FundsInv, SettlementInv
  PROVE  /\ PayoutsAreAuthorised /\ PayoutMatchesStatus /\ NoticesTellTheMoney
         /\ CreditedIffClaimed /\ AnsweredPaymentIsCredited /\ KeyTellsTheCheckout
<1>1. PayoutsAreAuthorised /\ PayoutMatchesStatus /\ NoticesTellTheMoney
  BY DEF SettlementInv, WithdrawalTells, PayoutsOf, Told, Withdrawn, Rows,
     PayoutsAreAuthorised, PayoutMatchesStatus, NoticesTellTheMoney
<1>2. CreditedIffClaimed
  BY DEF SettlementInv, CheckoutTells, CreditedIffClaimed, Deposited, Rows
<1>3. AnsweredPaymentIsCredited
  BY DEF SettlementInv, CheckoutTells, AnsweredPaymentIsCredited, FundsInv,
     FundsTypeOK, DepositTypeOK
<1>4. KeyTellsTheCheckout
  BY DEF SettlementInv, ClaimTells, KeyTellsTheCheckout
<1> QED
  BY <1>1, <1>2, <1>3, <1>4

-----------------------------------------------------------------------------
(* What a step leaves as it is. *)

\* Whoever has been answered stays answered, and what was quoted for a row stays.
CallsKept ==
  /\ \A t \in Rows : req'[t].usd = req[t].usd
  /\ \A t \in Requests :
       /\ req[t].phase \in Answered => req'[t].phase = req[t].phase
       /\ req'[t].phase = "recorded" => req[t].phase = "recorded"

NothingTold ==
  \A t \in Requests, e \in Tidings : <<e, t>> \in notices' => <<e, t>> \in notices

\* A withdrawal none of whose rows is touched, or something else.
LEMMA WithdrawalKept ==
  ASSUME NEW t \in Requests, WithdrawalTells(t), payouts'[t] = payouts[t],
         NothingTold, CallsKept,
         \/ txn'[t] = txn[t]
         \/ t \notin Withdrawn /\ (txn'[t].type = "WITHDRAWAL" => t \notin Rows')
  PROVE  WithdrawalTells(t)'
<1>1. \A e \in Tidings : Told(e, t)' => Told(e, t)
  BY DEF NothingTold, Told
<1>2. CASE txn'[t] = txn[t]
  <2>1. t \in Withdrawn' <=> t \in Withdrawn
    BY <1>2 DEF Withdrawn, Rows
  <2>2. t \in Withdrawn => req'[t].usd = req[t].usd
    BY DEF CallsKept, Withdrawn
  <2> QED
    BY <1>1, <1>2, <2>1, <2>2 DEF WithdrawalTells, PayoutsOf, Endings, Tidings
<1>3. CASE t \notin Withdrawn /\ (txn'[t].type = "WITHDRAWAL" => t \notin Rows')
  <2>1. t \notin Withdrawn'
    BY <1>3 DEF Withdrawn
  <2> QED
    BY <1>1, <1>3, <2>1 DEF WithdrawalTells
<1> QED
  BY <1>2, <1>3

\* A checkout none of whose rows is touched, or something else.
LEMMA CheckoutKept ==
  ASSUME NEW t \in Requests, CheckoutTells(t), CallsKept,
         attempt'[t] = attempt[t], psp'[t] = psp[t], settling'[t] = settling[t],
         t \in acked' => t \in acked,
         \/ txn'[t] = txn[t]
         \/ t \notin Deposited /\ (txn'[t].type = "DEPOSIT" => t \notin Rows')
  PROVE  CheckoutTells(t)'
<1>1. t \in Deposited' <=> t \in Deposited
  BY DEF Deposited, Rows
<1>2. t \in Deposited => txn'[t] = txn[t]
  OBVIOUS
<1>3. /\ req[t].phase \in {"created", "failed"} => req'[t].phase = req[t].phase
      /\ req'[t].phase = "recorded" => req[t].phase = "recorded"
  BY DEF CallsKept, Answered
<1> QED
  BY <1>1, <1>2, <1>3 DEF CheckoutTells

\* Attempts only get references, those that failed stay failed, and their
\* transactions pending.
AttemptsKept ==
  \A t \in Rows :
    /\ t \in Deposited' => t \in Deposited
    /\ t \in Deposited /\ attempt[t].referenced => attempt'[t].referenced
    /\ attempt[t].status = "FAILED" =>
         attempt'[t].status = "FAILED" /\ txn'[t].status = txn[t].status

\* A claim that is not touched.
LEMMA ClaimKept ==
  ASSUME FundsInv, AttemptsKept, NEW uk \in Users \X Keys, ClaimTells(idem[uk]),
         idem'[uk] = idem[uk]
  PROVE  ClaimTells(idem[uk])'
<1>1. CASE idem[uk].status = "NONE"
  BY <1>1 DEF ClaimTells
<1>2. CASE idem[uk].status # "NONE"
  <2>1. idem[uk].txn \in Rows
    BY <1>2 DEF FundsInv, ClaimsAreUsed
  <2> QED
    BY <2>1 DEF ClaimTells, AttemptsKept
<1> QED
  BY <1>1, <1>2

\* A step of a request that commits nothing.
LEMMA NothingCommits ==
  ASSUME FundsInv, SettlementInv, CallsKept, NothingTold,
         UNCHANGED <<idem, txn, payouts, pspVars>>
  PROVE  SettlementInv'
<1>1. AttemptsKept
  BY DEF AttemptsKept, Deposited, Rows, pspVars
<1>2. ASSUME NEW t \in Requests
      PROVE  WithdrawalTells(t)' /\ CheckoutTells(t)'
  BY WithdrawalKept, CheckoutKept DEF SettlementInv, pspVars
<1>3. ASSUME NEW uk \in Users \X Keys
      PROVE  ClaimTells(idem[uk])'
  BY <1>1, ClaimKept DEF SettlementInv
<1> QED
  BY <1>2, <1>3 DEF SettlementInv

-----------------------------------------------------------------------------
(* The steps of the handlers. *)

\* A request that has not been answered moves, but not to its provider call.
LEMMA CallMoves ==
  ASSUME FundsInv, NEW r \in Requests, NEW call \in Calls,
         req[r].phase \notin Answered, call.phase # "recorded",
         r \in Rows => call.usd = req[r].usd,
         req' = [req EXCEPT ![r] = call]
  PROVE  CallsKept
<1>1. req'[r] = call /\ \A s \in Requests \ {r} : req'[s] = req[s]
  BY DEF FundsInv, FundsTypeOK, DepositTypeOK, StoreTypeOK
<1> QED
  BY <1>1 DEF CallsKept, Rows

\* A request under way gets an answer, or goes on to the next phase.
LEMMA PhaseMoves ==
  ASSUME FundsInv, NEW r \in Requests, req[r].phase \in InFlight,
         NEW phase \in (InFlight \cup Answered) \ {"recorded"},
         NEW result \in Requests \cup {Null},
         Answer(r, phase, result) \/ Goto(r, phase)
  PROVE  /\ CallsKept
         /\ req'[r].phase = phase /\ req'[r].usd = req[r].usd
<1>1. /\ req[r].phase # "idle" /\ req[r].phase \notin Answered
      /\ req \in [Requests -> Calls \cup {Idle}]
  BY DEF InFlight, Answered, FundsInv, FundsTypeOK, DepositTypeOK, StoreTypeOK
<1>2. req[r] \in Calls
  BY <1>1, ActiveCall
<1>3. PICK call \in Calls :
        /\ req' = [req EXCEPT ![r] = call]
        /\ call.phase = phase /\ call.usd = req[r].usd
  <2>1. CASE Answer(r, phase, result)
    <3> DEFINE call == [req[r] EXCEPT !.phase = phase, !.result = result]
    <3>1. call \in Calls /\ call.phase = phase /\ call.usd = req[r].usd
      BY <1>2 DEF Calls
    <3>2. req' = [req EXCEPT ![r] = call]
      BY <1>1, <1>2, <2>1 DEF Answer, Calls
    <3> QED
      BY <3>1, <3>2
  <2>2. CASE Goto(r, phase)
    <3> DEFINE call == [req[r] EXCEPT !.phase = phase]
    <3>1. call \in Calls /\ call.phase = phase /\ call.usd = req[r].usd
      BY <1>2 DEF Calls
    <3>2. req' = [req EXCEPT ![r] = call]
      BY <2>2 DEF Goto
    <3> QED
      BY <3>1, <3>2
  <2> QED
    BY <2>1, <2>2
<1>4. req'[r] = call
  BY <1>1, <1>3
<1>5. CallsKept
  BY <1>1, <1>3, CallMoves
<1> QED
  BY <1>3, <1>4, <1>5

\* A request answers without having committed.
LEMMA AnswersOnly ==
  ASSUME FundsInv, SettlementInv, NEW r \in Requests, req[r].phase \in InFlight,
         NEW phase \in Answered, NEW result \in Requests \cup {Null},
         Answer(r, phase, result), NothingTold,
         UNCHANGED <<idem, txn, payouts, pspVars>>
  PROVE  SettlementInv'
<1>1. phase \in (InFlight \cup Answered) \ {"recorded"}
  BY DEF Answered
<1> QED
  BY <1>1, PhaseMoves, NothingCommits

\* A request fails without having committed.
LEMMA FailsOnly ==
  ASSUME FundsInv, SettlementInv, NEW r \in Requests, req[r].phase \in InFlight,
         Answer(r, "failed", Null), UNCHANGED <<idem, txn, notices, payouts, pspVars>>
  PROVE  SettlementInv'
BY AnswersOnly DEF Answered, NothingTold

\* A request arrives and touches no row.
LEMMA SubmitSettles ==
  ASSUME FundsInv, SettlementInv, NEW r \in Requests, NEW u \in Users,
         NEW k \in Keys, NEW b \in Bodies,
         Submit(r, u, k, b) \/ TransferSubmit(r, u, k, b),
         UNCHANGED <<payouts, pspVars>>
  PROVE  SettlementInv'
<1>1. /\ req[r].phase = "idle" /\ r \notin Rows
      /\ UNCHANGED <<idem, txn, notices>>
  BY DEF Submit, TransferSubmit, FundsInv, RowsAreClaimed
<1>2. PICK phase \in {"checked", "replayed", "failed"} : \E t :
        req' = [req EXCEPT ![r] =
                  [phase |-> phase, user |-> u, key |-> k, body |-> b,
                   rate |-> Par, usd |-> 0, result |-> t]]
  BY Zenon DEF Submit, TransferSubmit
<1>3. req'[r].phase = phase /\ \A s \in Requests \ {r} : req'[s] = req[s]
  BY <1>2 DEF FundsInv, FundsTypeOK, DepositTypeOK, StoreTypeOK
<1>4. CallsKept
  BY <1>1, <1>3 DEF CallsKept, Answered, Rows
<1> QED
  BY <1>1, <1>4, NothingCommits DEF NothingTold

\* A quote touches no row; what it fixes belongs to a row yet to be made.
LEMMA QuoteSettles ==
  ASSUME FundsInv, RequestInv, SettlementInv, NEW r \in Requests,
         \/ WithdrawQuote(r) /\ UNCHANGED pspVars
         \/ TransferQuote(r) /\ UNCHANGED <<payouts, pspVars>>
         \/ DepositQuote(r) /\ UNCHANGED payouts
  PROVE  SettlementInv'
<1>1. /\ req[r].phase = "checked"
      /\ UNCHANGED <<idem, txn, notices, payouts, pspVars>>
  BY DEF WithdrawQuote, TransferQuote, DepositQuote
<1>2. r \notin Rows /\ req[r] \in Calls
  BY <1>1, NoRowYet, ActiveCall DEF RequestInv
<1>3. \A s \in Requests \ {r} : req'[s] = req[s]
  BY DEF WithdrawQuote, TransferQuote, DepositQuote, Answer, FundsInv, FundsTypeOK,
     DepositTypeOK, StoreTypeOK
<1>4. req'[r].phase \in {"quoted", "failed"}
  <2>1. req \in [Requests -> Calls \cup {Idle}]
    BY DEF FundsInv, FundsTypeOK, DepositTypeOK, StoreTypeOK
  <2>2. ASSUME NEW phase, NEW rate, NEW usd,
               \/ req' = [req EXCEPT ![r].phase = phase, ![r].rate = rate]
               \/ req' = [req EXCEPT ![r].phase = phase, ![r].rate = rate,
                                     ![r].usd = usd]
               \/ req' = [req EXCEPT ![r].phase = phase, ![r].result = Null]
        PROVE  req'[r].phase = phase
    BY <1>2, <2>1, <2>2 DEF Calls
  <2>3. PICK phase \in {"quoted", "failed"} : \E rate, usd :
               \/ req' = [req EXCEPT ![r].phase = phase, ![r].rate = rate]
               \/ req' = [req EXCEPT ![r].phase = phase, ![r].rate = rate,
                                     ![r].usd = usd]
               \/ req' = [req EXCEPT ![r].phase = phase, ![r].result = Null]
    BY Zenon DEF WithdrawQuote, TransferQuote, DepositQuote, Answer
  <2> QED
    BY <2>2, <2>3
<1>5. CallsKept
  BY <1>1, <1>2, <1>3, <1>4 DEF CallsKept, Answered, Rows
<1> QED
  BY <1>1, <1>5, NothingCommits DEF NothingTold

\* A withdrawal or transfer makes its row and completes its key.
LEMMA RowSettles ==
  ASSUME FundsInv, SettlementInv, CallsKept, NothingTold,
         NEW r \in Requests, r \notin Rows, NEW row \in TxnRows,
         txn' = [txn EXCEPT ![r] = row], row.type # "DEPOSIT",
         row.type = "WITHDRAWAL" =>
           /\ row.status = "PENDING"
           /\ req'[r].usd > Threshold => row.approval = "PENDING",
         <<req[r].user, req[r].key>> \in Users \X Keys,
         NEW claim, claim.status = "COMPLETED", claim.txn = r,
         idem' = [idem EXCEPT ![<<req[r].user, req[r].key>>] = claim],
         UNCHANGED <<payouts, pspVars>>
  PROVE  SettlementInv'
<1> DEFINE uk == <<req[r].user, req[r].key>>
<1>1. txn'[r] = row /\ \A s \in Requests \ {r} : txn'[s] = txn[s]
  BY DEF FundsInv, FundsTypeOK, DepositTypeOK, StoreTypeOK
<1>2. r \notin Withdrawn /\ r \notin Deposited /\ r \notin Deposited'
  BY <1>1 DEF Withdrawn, Deposited
<1>3. AttemptsKept
  BY <1>1 DEF AttemptsKept, Deposited, Rows, pspVars
<1>4. ASSUME NEW t \in Requests
      PROVE  CheckoutTells(t)'
  <2>1. CASE t # r
    <3>1. txn'[t] = txn[t]
      BY <1>1, <2>1
    <3> QED
      BY <3>1, CheckoutKept DEF SettlementInv, pspVars
  <2>2. CASE t = r
    <3>1. t \notin Deposited /\ txn'[t].type # "DEPOSIT"
      BY <1>1, <1>2, <2>2
    <3> QED
      BY <3>1, CheckoutKept DEF SettlementInv, pspVars
  <2> QED
    BY <2>1, <2>2
<1>5. ASSUME NEW t \in Requests
      PROVE  WithdrawalTells(t)'
  <2>1. CASE t # r \/ row.type # "WITHDRAWAL"
    <3>1. \/ txn'[t] = txn[t]
          \/ t \notin Withdrawn /\ (txn'[t].type = "WITHDRAWAL" => t \notin Rows')
      BY <2>1, <1>1, <1>2
    <3> QED
      BY <3>1, WithdrawalKept DEF SettlementInv
  <2>2. CASE t = r /\ row.type = "WITHDRAWAL"
    <3>1. payouts'[r] = <<>> /\ \A e \in Tidings : ~Told(e, r)'
      BY <1>2 DEF SettlementInv, WithdrawalTells, NothingTold, Told
    <3> QED
      BY <1>1, <2>2, <3>1 DEF WithdrawalTells, PayoutsOf, Endings, Tidings
  <2> QED
    BY <2>1, <2>2
<1>6. ASSUME NEW x \in Users \X Keys
      PROVE  ClaimTells(idem[x])'
  <2>1. CASE x # uk
    <3>1. idem'[x] = idem[x]
      BY <2>1
    <3> QED
      BY <3>1, <1>3, ClaimKept DEF SettlementInv
  <2>2. CASE x = uk
    <3>1. idem'[x] = claim
      BY <2>2 DEF FundsInv, FundsTypeOK, DepositTypeOK, StoreTypeOK
    <3> QED
      BY <1>2, <3>1 DEF ClaimTells
  <2> QED
    BY <2>1, <2>2
<1> QED
  BY <1>4, <1>5, <1>6 DEF SettlementInv

\* A withdrawal above the threshold is made waiting for approval.
LEMMA WithdrawCommitSettles ==
  ASSUME FundsInv, RequestInv, SettlementInv, NEW r \in Requests,
         WithdrawCommit(r), UNCHANGED pspVars
  PROVE  SettlementInv'
<1> DEFINE a == req[r].body.account
           amount == Cents(req[r].body.amount)
           uk == <<req[r].user, req[r].key>>
           row == [type |-> "WITHDRAWAL", customer |-> req[r].user,
                   account |-> a, destination |-> Null, amount |-> amount,
                   converted |-> Convert(amount, req[r].rate),
                   status |-> "PENDING",
                   approval |-> IF req[r].usd > Threshold THEN "PENDING"
                                                          ELSE "NOT_REQUIRED"]
<1>1. /\ req[r].phase = "quoted" /\ req[r].phase # "idle"
      /\ req[r].phase \in InFlight
      /\ uk \in Users \X Keys /\ req[r].body.operation = "WITHDRAWAL"
      /\ r \notin Rows
  BY ActiveCall, NoRowYet DEF WithdrawCommit, InFlight, RequestInv
<1>2. row \in TxnRows
  BY <1>1, ActiveCall, ConvertNat DEF TxnRows, Open
<1>3. CASE /\ Answer(r, "failed", Null)
           /\ UNCHANGED <<txn, idem, notices>>
  BY <1>1, <1>3, FailsOnly DEF WithdrawCommit
<1>4. CASE /\ txn' = [txn EXCEPT ![r] = row]
           /\ idem' = [idem EXCEPT ![uk] =
                [Upserted(r) EXCEPT !.status = "COMPLETED", !.txn = r]]
           /\ notices' = notices \cup {<<"withdrawal:submitted", r>>}
           /\ Answer(r, "created", r) \/ Answer(r, "failed", Null)
           /\ Upserted(r).hash = req[r].body
           /\ ~(Upserted(r).status = "COMPLETED" /\ Upserted(r).txn # Null)
  <2>1. Upserted(r) = [status |-> "PROCESSING", hash |-> req[r].body, txn |-> Null]
    BY <1>1, <1>4, FoundClaim
  <2> DEFINE made == [Upserted(r) EXCEPT !.status = "COMPLETED", !.txn = r]
  <2>2. /\ made.status = "COMPLETED" /\ made.txn = r
        /\ idem' = [idem EXCEPT ![uk] = made]
    BY <1>4, <2>1
  <2>3. /\ row.type = "WITHDRAWAL" /\ row.status = "PENDING"
        /\ req[r].usd > Threshold => row.approval = "PENDING"
    OBVIOUS
  <2>4. CallsKept /\ req'[r].usd = req[r].usd
    BY <1>1, <1>4, PhaseMoves DEF Answered
  <2>5. NothingTold
    BY <1>4 DEF NothingTold, Endings, Tidings
  <2> HIDE DEF row, made
  <2> QED
    BY <1>1, <1>2, <1>4, <2>2, <2>3, <2>4, <2>5, RowSettles DEF WithdrawCommit
<1> QED
  BY <1>3, <1>4 DEF WithdrawCommit

\* A transfer is neither a withdrawal nor a deposit.
LEMMA TransferCommitSettles ==
  ASSUME FundsInv, RequestInv, SettlementInv, NEW r \in Requests,
         TransferCommit(r), UNCHANGED <<payouts, pspVars>>
  PROVE  SettlementInv'
<1> DEFINE from == req[r].body.account
           to == req[r].body.destination
           amount == Cents(req[r].body.amount)
           uk == <<req[r].user, req[r].key>>
           claim == Upserted(r)
           row == [type |-> "TRANSFER", customer |-> req[r].user,
                   account |-> from, destination |-> to, amount |-> amount,
                   converted |-> Convert(amount, req[r].rate),
                   status |-> "COMPLETED", approval |-> "NOT_REQUIRED"]
<1>1. /\ req[r].phase = "quoted" /\ req[r].phase # "idle"
      /\ req[r].phase \in InFlight /\ req[r].body \in Bodies
      /\ uk \in Users \X Keys /\ req[r].body.operation = "TRANSFER"
      /\ r \notin Rows
  BY ActiveCall, NoRowYet DEF TransferCommit, InFlight, RequestInv
<1>2. row \in TxnRows
  BY <1>1, ActiveCall, ConvertNat
  DEF TxnRows, Settled, Bodies, WithdrawalBodies, TransferBodies, DepositBodies
<1>3. CASE /\ Answer(r, "failed", Null)
           /\ UNCHANGED <<txn, idem, notices>>
  BY <1>1, <1>3, FailsOnly
<1>4. CASE /\ txn' = [txn EXCEPT ![r] = row]
           /\ idem' = [idem EXCEPT ![uk] =
                [claim EXCEPT !.status = "COMPLETED", !.txn = r]]
           /\ notices' = notices \cup {<<"transfer:completed", r>>}
           /\ Answer(r, "created", r) \/ Answer(r, "failed", Null)
           /\ claim.hash = req[r].body
           /\ ~(claim.status = "COMPLETED" /\ claim.txn # Null)
  <2>1. claim = [status |-> "PROCESSING", hash |-> req[r].body, txn |-> Null]
    BY <1>1, <1>4, FoundClaim
  <2> DEFINE made == [claim EXCEPT !.status = "COMPLETED", !.txn = r]
  <2>2. /\ made.status = "COMPLETED" /\ made.txn = r
        /\ idem' = [idem EXCEPT ![uk] = made]
    BY <1>4, <2>1
  <2>3. row.type = "TRANSFER"
    OBVIOUS
  <2>4. CallsKept
    BY <1>1, <1>4, PhaseMoves DEF Answered
  <2>5. NothingTold
    BY <1>4 DEF NothingTold, Endings, Tidings
  <2> HIDE DEF row, made
  <2> QED
    BY <1>1, <1>2, <1>4, <2>2, <2>3, <2>4, <2>5, RowSettles
<1>5. CASE /\ Answer(r, "replayed", claim.txn)
           /\ claim.status = "COMPLETED" /\ claim.txn # Null
           /\ claim.hash = req[r].body
           /\ notices' = notices \cup {<<"transfer:completed", claim.txn>>}
           /\ UNCHANGED <<txn, idem>>
  <2>1. claim.txn \in Requests
    BY <1>1, <1>5, FoundClaim DEF Rows
  <2>2. NothingTold
    BY <1>5 DEF NothingTold, Endings, Tidings
  <2> QED
    BY <1>1, <1>5, <2>1, <2>2, AnswersOnly DEF Answered
<1> QED
  BY <1>3, <1>4, <1>5 DEF TransferCommit

-----------------------------------------------------------------------------
(* Administrators and payouts. *)

\* A row of a withdrawal changes, and nothing else does but its payouts.
LEMMA LifeStep ==
  ASSUME FundsInv, SettlementInv, NEW t \in Withdrawn,
         WithdrawalTells(t)', txn'[t].type = "WITHDRAWAL",
         \A s \in Requests \ {t} : txn'[s] = txn[s] /\ payouts'[s] = payouts[s],
         \A s \in Requests \ {t}, e \in Tidings :
           <<e, s>> \in notices' => <<e, s>> \in notices,
         UNCHANGED <<req, idem, pspVars>>
  PROVE  SettlementInv'
<1>1. t \in Rows /\ t \in Requests /\ t \notin Deposited
  BY DEF Withdrawn, Deposited, Rows
<1>2. attempt[t].status # "FAILED"
  BY <1>1 DEF FundsInv, AttemptsBelong, Deposited
<1>3. AttemptsKept
  <2> SUFFICES ASSUME NEW s \in Rows
               PROVE  /\ s \in Deposited' => s \in Deposited
                      /\ s \in Deposited /\ attempt[s].referenced =>
                           attempt'[s].referenced
                      /\ attempt[s].status = "FAILED" =>
                           attempt'[s].status = "FAILED" /\ txn'[s].status = txn[s].status
    BY DEF AttemptsKept
  <2>1. CASE s = t
    BY <2>1, <1>1, <1>2 DEF Deposited, pspVars
  <2>2. CASE s # t
    BY <2>2 DEF Deposited, Rows, pspVars
  <2> QED
    BY <2>1, <2>2
<1>4. ASSUME NEW s \in Requests
      PROVE  WithdrawalTells(s)' /\ CheckoutTells(s)'
  <2>1. CallsKept
    BY DEF CallsKept
  <2>2. CASE s = t
    <3>1. CheckoutTells(t)'
      BY <1>1, <2>1, CheckoutKept DEF SettlementInv, pspVars
    <3> QED
      BY <2>2, <3>1
  <2>3. CASE s # t
    <3>1. WithdrawalTells(s)
      BY DEF SettlementInv
    <3>2. /\ txn'[s] = txn[s] /\ payouts'[s] = payouts[s]
          /\ \A e \in Tidings : Told(e, s)' => Told(e, s)
      BY <2>3 DEF Told
    <3>3. s \in Withdrawn' <=> s \in Withdrawn
      BY <3>2 DEF Withdrawn, Rows
    <3>4. WithdrawalTells(s)'
      BY <3>1, <3>2, <3>3 DEF WithdrawalTells, PayoutsOf, Endings, Tidings
    <3>5. CheckoutTells(s)'
      BY <2>1, <3>2, CheckoutKept DEF SettlementInv, pspVars
    <3> QED
      BY <3>4, <3>5
  <2> QED
    BY <2>2, <2>3
<1>5. ASSUME NEW uk \in Users \X Keys
      PROVE  ClaimTells(idem[uk])'
  BY <1>3, ClaimKept DEF SettlementInv
<1> QED
  BY <1>4, <1>5 DEF SettlementInv

\* The newest open payout of a withdrawal that has one is its only one.
LEMMA OnePayout ==
  ASSUME FundsInv, SettlementInv, NEW t \in Withdrawn,
         txn[t].status = "PENDING", OpenPayouts(t) # {}, NEW status
  PROVE  /\ payouts[t] = <<"PENDING">>
         /\ payouts \in [Requests -> Seq({"PENDING", "COMPLETED", "FAILED"})]
         /\ [payouts[t] EXCEPT ![NewestPayout(t)] = status] = <<status>>
<1>1. payouts[t] \in {<<>>, <<"PENDING">>}
  BY DEF SettlementInv, WithdrawalTells, PayoutsOf, Withdrawn, Rows
<1>2. payouts[t] = <<"PENDING">>
  BY <1>1 DEF OpenPayouts
<1>3. OpenPayouts(t) = {1}
  BY <1>2 DEF OpenPayouts
<1>4. NewestPayout(t) = 1
  BY <1>3 DEF NewestPayout
<1>5. [payouts[t] EXCEPT ![1] = status] = <<status>>
  BY <1>2
<1> QED
  BY <1>2, <1>4, <1>5 DEF FundsInv, FundsTypeOK, PayoutsTypeOK

\* A failure that is announced again, or after a rejection, contradicts neither.
LEMMA FailAgainSettles ==
  ASSUME FundsInv, SettlementInv, NEW t \in Requests, FailAgain(t),
         UNCHANGED pspVars
  PROVE  SettlementInv'
<1>1. /\ t \in Withdrawn /\ WithdrawalTells(t)
      /\ txn[t].type = "WITHDRAWAL" /\ txn[t].status \in {"FAILED", "REJECTED"}
  BY DEF FailAgain, Withdrawn, Rows, SettlementInv
<1>2. /\ UNCHANGED <<req, idem, txn, payouts>>
      /\ \A s \in Requests, e \in Tidings :
           Told(e, s)' => Told(e, s) \/ (s = t /\ e = "withdrawal:failed")
  BY DEF FailAgain, Told
<1>3. t \in Withdrawn'
  BY <1>1, <1>2 DEF Withdrawn, Rows
<1>4. WithdrawalTells(t)'
  BY <1>1, <1>2, <1>3 DEF WithdrawalTells, PayoutsOf, Endings, Tidings
<1> QED
  BY <1>1, <1>2, <1>4, LifeStep DEF Told

\* Approval, payouts, status and notices move together.
LEMMA WithdrawalLifeSettles ==
  ASSUME FundsInv, SettlementInv, NEW t \in Requests,
         \/ ApproveWithdrawal(t) \/ RejectWithdrawal(t) \/ ProcessWithdrawal(t)
         \/ CompleteWithdrawal(t) \/ FailWithdrawal(t),
         UNCHANGED pspVars
  PROVE  SettlementInv'
<1> USE DEF PendingWithdrawal
<1>0. CASE FailAgain(t)
  BY <1>0, FailAgainSettles
<1> SUFFICES ASSUME \/ ApproveWithdrawal(t) \/ RejectWithdrawal(t)
                    \/ ProcessWithdrawal(t) \/ CompleteWithdrawal(t)
                    \/ FailPending(t)
             PROVE  SettlementInv'
  BY <1>0 DEF FailWithdrawal
<1>1. PendingWithdrawal(t)
  BY DEF ApproveWithdrawal, RejectWithdrawal, ProcessWithdrawal,
         CompleteWithdrawal, FailPending
<1>2. /\ t \in Withdrawn /\ t \in Rows /\ WithdrawalTells(t)
      /\ txn[t] \in TxnRows /\ txn \in [Requests -> TxnRows \cup {NoTxn}]
      /\ payouts \in [Requests -> Seq({"PENDING", "COMPLETED", "FAILED"})]
  BY <1>1, RowTypes DEF Withdrawn, Rows, SettlementInv, FundsInv, FundsTypeOK,
     PayoutsTypeOK, DepositTypeOK, StoreTypeOK
<1>3. /\ \A e \in Endings : ~Told(e, t)
      /\ Told("withdrawal:approved", t) => txn[t].approval = "APPROVED"
      /\ Told("withdrawal:processing", t) => payouts[t] # <<>>
      /\ payouts[t] \in {<<>>, <<"PENDING">>}
      /\ payouts[t] # <<>> => txn[t].approval \in {"NOT_REQUIRED", "APPROVED"}
      /\ req[t].usd > Threshold =>
           txn[t].approval \in {"PENDING", "APPROVED", "REJECTED"}
  BY <1>1, <1>2 DEF WithdrawalTells, PayoutsOf, Endings, Tidings
<1>4. CASE ApproveWithdrawal(t)
  <2>1. /\ txn'[t].status = "PENDING" /\ txn'[t].type = "WITHDRAWAL"
        /\ txn'[t].approval = "APPROVED" /\ payouts'[t] = payouts[t]
        /\ \A s \in Requests \ {t} : txn'[s] = txn[s] /\ payouts'[s] = payouts[s]
        /\ \A s \in Requests, e \in Tidings :
             Told(e, s)' => Told(e, s) \/ (s = t /\ e = "withdrawal:approved")
        /\ UNCHANGED <<req, idem>>
    BY <1>2, <1>4 DEF ApproveWithdrawal, TxnRows, Told, Endings, Tidings
  <2>2. t \in Withdrawn'
    BY <2>1 DEF Withdrawn, Rows
  <2>3. WithdrawalTells(t)'
    BY <1>3, <2>1, <2>2 DEF WithdrawalTells, PayoutsOf, Endings, Tidings
  <2> QED
    BY <1>1, <1>2, <2>1, <2>3, LifeStep DEF Told
<1>5. CASE RejectWithdrawal(t)
  <2>1. /\ txn'[t].status = "REJECTED" /\ txn'[t].type = "WITHDRAWAL"
        /\ txn'[t].approval = "REJECTED" /\ payouts'[t] = <<>>
        /\ txn[t].approval # "APPROVED" /\ payouts[t] = <<>>
        /\ \A s \in Requests \ {t} : txn'[s] = txn[s] /\ payouts'[s] = payouts[s]
        /\ \A s \in Requests, e \in Tidings :
             Told(e, s)' => Told(e, s) \/ (s = t /\ e = "withdrawal:rejected")
        /\ UNCHANGED <<req, idem>>
    BY <1>2, <1>5 DEF RejectWithdrawal, TxnRows, Told, Endings, Tidings
  <2>2. t \in Withdrawn'
    BY <2>1 DEF Withdrawn, Rows
  <2>3. WithdrawalTells(t)'
    BY <1>3, <2>1, <2>2 DEF WithdrawalTells, PayoutsOf, Endings, Tidings
  <2> QED
    BY <1>1, <1>2, <2>1, <2>3, LifeStep DEF Told
<1>6. CASE ProcessWithdrawal(t)
  <2>0. Append(payouts[t], "PENDING") = <<"PENDING">>
    BY <1>6 DEF ProcessWithdrawal
  <2>1. /\ txn'[t] = txn[t] /\ payouts'[t] = <<"PENDING">>
        /\ \A s \in Requests \ {t} : txn'[s] = txn[s] /\ payouts'[s] = payouts[s]
        /\ \A s \in Requests, e \in Tidings :
             Told(e, s)' => Told(e, s) \/ (s = t /\ e = "withdrawal:processing")
        /\ UNCHANGED <<req, idem>>
    BY <1>2, <1>6, <2>0 DEF ProcessWithdrawal, Told, Endings, Tidings
  <2>2. t \in Withdrawn' /\ txn[t].approval \in {"NOT_REQUIRED", "APPROVED"}
    BY <1>1, <1>6, <2>1 DEF Withdrawn, Rows, ProcessWithdrawal, Processable
  <2>3. WithdrawalTells(t)'
    BY <1>1, <1>3, <2>1, <2>2 DEF WithdrawalTells, PayoutsOf, Endings, Tidings
  <2> QED
    BY <1>1, <1>2, <2>1, <2>3, LifeStep DEF Told
<1>7. ASSUME NEW status \in {"COMPLETED", "FAILED"}, NEW e \in Endings,
             e = "withdrawal:completed" <=> status = "COMPLETED",
             e # "withdrawal:rejected",
             OpenPayouts(t) # {},
             payouts' = [payouts EXCEPT ![t][NewestPayout(t)] = status],
             txn' = [txn EXCEPT ![t].status = status],
             notices' = notices \cup {<<e, t>>},
             UNCHANGED <<req, idem>>
      PROVE  SettlementInv'
  <2>1. /\ txn'[t].status = status /\ txn'[t].type = "WITHDRAWAL"
        /\ txn'[t].approval = txn[t].approval
        /\ \A s \in Requests \ {t} : txn'[s] = txn[s]
    BY <1>1, <1>2, <1>7 DEF TxnRows
  <2>2. /\ payouts'[t] = <<status>> /\ payouts[t] # <<>>
        /\ \A s \in Requests \ {t} : payouts'[s] = payouts[s]
    <3> DEFINE paid == [payouts[t] EXCEPT ![NewestPayout(t)] = status]
    <3>1. payouts[t] = <<"PENDING">> /\ paid = <<status>>
      BY <1>1, <1>2, <1>7, OnePayout
    <3>2. payouts' = [payouts EXCEPT ![t] = paid]
      BY <1>7
    <3> HIDE DEF paid
    <3> QED
      BY <1>2, <3>1, <3>2
  <2>3. \A s \in Requests, f \in Tidings :
          Told(f, s)' => Told(f, s) \/ (s = t /\ f = e)
    BY <1>7 DEF Told
  <2>4. t \in Withdrawn'
    BY <2>1 DEF Withdrawn, Rows
  <2>5. WithdrawalTells(t)'
    BY <1>3, <1>7, <2>1, <2>2, <2>3, <2>4
    DEF WithdrawalTells, PayoutsOf, Endings, Tidings
  <2> QED
    BY <1>1, <1>2, <1>7, <2>1, <2>2, <2>3, <2>5, LifeStep DEF Told
<1>8. CASE CompleteWithdrawal(t)
  BY <1>7, <1>8 DEF CompleteWithdrawal, Endings
<1>9. CASE FailPending(t)
  BY <1>7, <1>9 DEF FailPending, Endings
<1> QED
  BY <1>4, <1>5, <1>6, <1>8, <1>9

-----------------------------------------------------------------------------
(* Deposits. *)

\* What one deposit's rows, session and key come to, nothing else having moved.
LEMMA DepositMoves ==
  ASSUME FundsInv, SettlementInv, NEW r \in Requests,
         r \in Rows => txn[r].type = "DEPOSIT",
         txn'[r].type = "DEPOSIT", CheckoutTells(r)',
         r \in Rows /\ attempt[r].referenced => attempt'[r].referenced,
         r \in Rows /\ attempt[r].status = "FAILED" =>
           attempt'[r].status = "FAILED" /\ txn'[r].status = txn[r].status,
         \A s \in Requests \ {r} :
           /\ req'[s] = req[s] /\ txn'[s] = txn[s] /\ attempt'[s] = attempt[s]
           /\ psp'[s] = psp[s] /\ settling'[s] = settling[s],
         acked' \subseteq acked \cup {r},
         \A x \in Users \X Keys : idem'[x] = idem[x] \/ ClaimTells(idem[x])',
         UNCHANGED payouts, NothingTold
  PROVE  SettlementInv'
<1>1. AttemptsKept
  <2> SUFFICES ASSUME NEW s \in Rows
               PROVE  /\ s \in Deposited' => s \in Deposited
                      /\ s \in Deposited /\ attempt[s].referenced =>
                           attempt'[s].referenced
                      /\ attempt[s].status = "FAILED" =>
                           attempt'[s].status = "FAILED" /\ txn'[s].status = txn[s].status
    BY DEF AttemptsKept
  <2>1. CASE s = r
    BY <2>1 DEF Deposited
  <2>2. CASE s # r
    BY <2>2 DEF Deposited, Rows
  <2> QED
    BY <2>1, <2>2
<1>2. ASSUME NEW s \in Requests
      PROVE  WithdrawalTells(s)' /\ CheckoutTells(s)'
  <2>1. WithdrawalTells(s) /\ CheckoutTells(s)
    BY DEF SettlementInv
  <2>2. \A e \in Tidings : Told(e, s)' => Told(e, s)
    BY DEF NothingTold, Told
  <2>3. CASE s = r
    <3>1. s \notin Withdrawn /\ s \notin Withdrawn'
      BY <2>3 DEF Withdrawn
    <3>2. WithdrawalTells(s)'
      BY <2>1, <2>2, <3>1 DEF WithdrawalTells
    <3> QED
      BY <2>3, <3>2
  <2>4. CASE s # r
    <3>1. /\ req'[s] = req[s] /\ txn'[s] = txn[s] /\ attempt'[s] = attempt[s]
          /\ psp'[s] = psp[s] /\ settling'[s] = settling[s]
          /\ s \in acked' => s \in acked
      BY <2>4
    <3>2. (s \in Withdrawn' <=> s \in Withdrawn) /\ (s \in Deposited' <=> s \in Deposited)
      BY <3>1 DEF Withdrawn, Deposited, Rows
    <3>3. WithdrawalTells(s)'
      BY <2>1, <2>2, <3>1, <3>2 DEF WithdrawalTells, PayoutsOf, Endings, Tidings
    <3>4. CheckoutTells(s)'
      BY <2>1, <3>1, <3>2 DEF CheckoutTells
    <3> QED
      BY <3>3, <3>4
  <2> QED
    BY <2>3, <2>4
<1>3. ASSUME NEW x \in Users \X Keys
      PROVE  ClaimTells(idem[x])'
  BY <1>1, ClaimKept DEF SettlementInv
<1> QED
  BY <1>2, <1>3 DEF SettlementInv

\* A deposit is made before its session is; its key waits.
LEMMA DepositCommitSettles ==
  ASSUME FundsInv, RequestInv, SettlementInv, NEW r \in Requests,
         DepositCommit(r), UNCHANGED payouts
  PROVE  SettlementInv'
<1> DEFINE claim == Upserted(r)
           uk == <<req[r].user, req[r].key>>
           accepted == /\ claim.hash = req[r].body
                       /\ claim.status # "COMPLETED"
                       /\ claim.txn = Null
<1>1. /\ req[r].phase = "quoted" /\ req[r].phase # "idle"
      /\ req[r].phase \in InFlight /\ uk \in Users \X Keys
      /\ r \notin Rows /\ r \notin Deposited
  BY ActiveCall, NoRowYet DEF DepositCommit, InFlight, RequestInv, Deposited
<1>2. CASE accepted
  <2>1. claim = [status |-> "PROCESSING", hash |-> req[r].body, txn |-> Null]
    BY <1>1, <1>2, FoundClaim
  <2>2. idem' = [idem EXCEPT ![uk] =
                   [status |-> "PROCESSING", hash |-> req[r].body, txn |-> r]]
    BY <1>2, <2>1 DEF DepositCommit
  <2>3. \A x \in Users \X Keys : idem'[x] = idem[x] \/ ClaimTells(idem[x])'
    BY <1>1, <2>2 DEF FundsInv, FundsTypeOK, DepositTypeOK, StoreTypeOK, ClaimTells
  <2>4. /\ txn'[r].type = "DEPOSIT" /\ txn'[r].status = "PENDING"
        /\ attempt'[r].status = "PENDING"
        /\ \A s \in Requests \ {r} : txn'[s] = txn[s] /\ attempt'[s] = attempt[s]
    BY <1>2 DEF DepositCommit, FundsInv, FundsTypeOK, DepositTypeOK, StoreTypeOK
  <2>5. \A s \in Requests \ {r} : req'[s] = req[s]
    BY <1>2 DEF DepositCommit, Goto, FundsInv, FundsTypeOK, DepositTypeOK, StoreTypeOK
  <2>6. /\ psp[r] = "none" /\ ~(settling[r] > 0) /\ r \notin acked
        /\ UNCHANGED <<notices, psp, settling, acked>>
    BY <1>1, <1>2 DEF SettlementInv, CheckoutTells, DepositCommit
  <2>7. CheckoutTells(r)'
    BY <2>4, <2>6 DEF CheckoutTells
  <2> QED
    BY <1>1, <2>3, <2>4, <2>5, <2>6, <2>7, DepositMoves DEF NothingTold
<1>3. CASE ~accepted
  <2>1. /\ Answer(r, "failed", Null)
        /\ UNCHANGED <<idem, txn, notices, payouts, pspVars>>
    BY <1>3 DEF DepositCommit, pspVars
  <2> QED
    BY <1>1, <2>1, FailsOnly
<1> QED
  BY <1>2, <1>3

\* A deposit between its first and its last transaction: nothing is decided.
LEMMA CheckoutUnderWay ==
  ASSUME FundsInv, SettlementInv, NEW r \in Requests,
         req[r].phase \in {"recorded", "opened", "declined"}
  PROVE  /\ r \in Deposited /\ r \in Rows /\ txn[r].type = "DEPOSIT"
         /\ CheckoutTells(r)
         /\ txn[r].status = "PENDING" /\ r \notin acked /\ ~(settling[r] > 0)
         /\ attempt[r].status \in {"PENDING", "CANCELLED"}
         /\ attempt[r] \in Attempts
         /\ psp[r] \in {"none", "open", "expired"}
         /\ ClaimOf(r).txn = r
<1>1. r \in Rows /\ txn[r].type = "DEPOSIT"
  BY DEF FundsInv, CheckoutsAreRecorded
<1>2. r \in Deposited /\ CheckoutTells(r)
  BY <1>1 DEF Deposited, SettlementInv
<1>3. attempt[r] \in Attempts /\ psp[r] \in Sessions /\ ClaimOf(r).txn = r
  BY <1>1, AttemptTyped
  DEF FundsInv, FundsTypeOK, DepositTypeOK, RowsAreClaimed
<1>4. psp[r] \in {"none", "open", "expired"}
  BY <1>2, <1>3 DEF CheckoutTells, Sessions
<1>5. /\ txn[r].status = "PENDING" /\ r \notin acked /\ ~(settling[r] > 0)
      /\ attempt[r].status \notin {"COMPLETED", "FAILED"}
  BY <1>2, <1>4 DEF CheckoutTells
<1> QED
  BY <1>1, <1>2, <1>3, <1>4, <1>5 DEF Attempts

\* The session opens, with or without the handler hearing of it.
LEMMA OpenCheckoutSettles ==
  ASSUME FundsInv, SettlementInv, NEW r \in Requests, OpenCheckout(r),
         UNCHANGED payouts
  PROVE  SettlementInv'
<1>1. req[r].phase = "recorded" /\ req[r].phase # "idle" /\ req[r].phase \in InFlight
  BY DEF OpenCheckout, InFlight
<1>2. /\ r \in Deposited /\ r \in Rows /\ txn[r].type = "DEPOSIT"
      /\ CheckoutTells(r)
      /\ txn[r].status = "PENDING" /\ r \notin acked /\ ~(settling[r] > 0)
      /\ attempt[r].status \in {"PENDING", "CANCELLED"}
  BY <1>1, CheckoutUnderWay
<1>3. attempt[r].status = "PENDING" /\ psp[r] = "none"
  BY <1>1, <1>2 DEF CheckoutTells
<1>4. PICK phase \in {"opened", "declined"} : Goto(r, phase)
  BY DEF OpenCheckout
<1>5. req'[r].phase = phase
  <2>1. phase \in (InFlight \cup Answered) \ {"recorded"} /\ Null \in Requests \cup {Null}
    BY DEF InFlight
  <2> QED
    BY <1>1, <1>4, <2>1, PhaseMoves
<1>6. /\ psp'[r] \in {"none", "open"}
      /\ \A s \in Requests \ {r} : psp'[s] = psp[s] /\ req'[s] = req[s]
      /\ UNCHANGED <<idem, txn, notices, attempt, settling, acked>>
  BY <1>3, <1>4 DEF OpenCheckout, Goto, FundsInv, FundsTypeOK, DepositTypeOK, StoreTypeOK
<1>7. r \in Deposited'
  BY <1>2, <1>6 DEF Deposited, Rows
<1>8. CheckoutTells(r)'
  BY <1>2, <1>3, <1>5, <1>6, <1>7 DEF CheckoutTells
<1> QED
  BY <1>2, <1>6, <1>8, DepositMoves DEF NothingTold

\* The last transaction of a deposit request: attempt, key and answer.
LEMMA CheckoutEnds ==
  ASSUME FundsInv, SettlementInv, NEW r \in Requests,
         req[r].phase \in {"opened", "declined"},
         NEW status, NEW made,
         idem' = [idem EXCEPT ![<<req[r].user, req[r].key>>].status = status],
         attempt' = [attempt EXCEPT ![r] = made],
         attempt[r].referenced => made.referenced,
         NEW phase \in {"created", "failed"}, NEW result \in Requests \cup {Null},
         Answer(r, phase, result),
         \/ /\ status = "COMPLETED" /\ made.referenced
            /\ made.status = attempt[r].status
         \/ status = "FAILED" /\ made.status = "FAILED" /\ phase = "failed",
         NothingTold, UNCHANGED <<txn, payouts, psp, settling, acked>>
  PROVE  SettlementInv'
<1> DEFINE uk == <<req[r].user, req[r].key>>
<1>1. /\ r \in Deposited /\ r \in Rows /\ txn[r].type = "DEPOSIT"
      /\ CheckoutTells(r)
      /\ txn[r].status = "PENDING" /\ r \notin acked /\ ~(settling[r] > 0)
      /\ attempt[r].status \in {"PENDING", "CANCELLED"}
      /\ psp[r] \in {"none", "open", "expired"}
      /\ ClaimOf(r).txn = r
  BY CheckoutUnderWay
<1>2. req[r].phase \in InFlight /\ req[r].phase # "idle" /\ uk \in Users \X Keys
  BY ActiveCall DEF InFlight
<1>3. phase \in (InFlight \cup Answered) \ {"recorded"}
  BY DEF Answered
<1>4. req'[r].phase = phase
  BY <1>2, <1>3, PhaseMoves
<1>5. \A s \in Requests \ {r} : req'[s] = req[s]
  BY DEF Answer, FundsInv, FundsTypeOK, DepositTypeOK, StoreTypeOK
<1>6. attempt'[r] = made /\ \A s \in Requests \ {r} : attempt'[s] = attempt[s]
  BY DEF FundsInv, FundsTypeOK, DepositTypeOK
<1>7. r \in Deposited'
  BY <1>1 DEF Deposited, Rows
<1>8. CheckoutTells(r)'
  BY <1>1, <1>4, <1>6, <1>7 DEF CheckoutTells
<1>9. idem'[uk].status = status /\ idem'[uk].txn = r
  <2>1. ClaimOf(r) \in IdemRows /\ idem[uk] = ClaimOf(r)
    BY <1>1, RowTypes DEF ClaimOf
  <2>2. idem'[uk] = [idem[uk] EXCEPT !.status = status]
    BY <1>2 DEF FundsInv, FundsTypeOK, DepositTypeOK, StoreTypeOK
  <2> QED
    BY <1>1, <2>1, <2>2 DEF IdemRows
<1>10. \A x \in Users \X Keys : idem'[x] = idem[x] \/ ClaimTells(idem[x])'
  <2>1. \A x \in (Users \X Keys) \ {uk} : idem'[x] = idem[x]
    BY DEF FundsInv, FundsTypeOK, DepositTypeOK, StoreTypeOK
  <2>2. ASSUME NEW x \in Users \X Keys, x = uk
        PROVE  ClaimTells(idem[x])'
    <3>1. idem'[x].status = status /\ idem'[x].txn = r
      BY <1>9, <2>2
    <3>2. /\ status = "COMPLETED" => attempt'[r].referenced
          /\ status = "FAILED" => /\ attempt'[r].status = "FAILED"
                                  /\ txn'[r].status = "PENDING"
      BY <1>1, <1>6
    <3> QED
      BY <3>1, <3>2 DEF ClaimTells
  <2> QED
    BY <2>1, <2>2
<1> QED
  BY <1>1, <1>5, <1>6, <1>8, <1>10, DepositMoves

\* Both ends of a deposit request settle attempt and key together.
LEMMA LastTransactionSettles ==
  ASSUME FundsInv, SettlementInv, NEW r \in Requests,
         MarkFailed(r) \/ SaveCheckout(r), UNCHANGED payouts
  PROVE  SettlementInv'
<1>1. req[r].phase \in {"opened", "declined"} /\ attempt[r] \in Attempts
  BY CheckoutUnderWay DEF MarkFailed, SaveCheckout
<1>2. CASE MarkFailed(r)
  <2> DEFINE made == [attempt[r] EXCEPT !.status = "FAILED"]
  <2>1. /\ made.status = "FAILED" /\ made.referenced = attempt[r].referenced
        /\ attempt' = [attempt EXCEPT ![r] = made]
    BY <1>1, <1>2 DEF MarkFailed, Attempts
  <2>2. NothingTold
    BY <1>2 DEF MarkFailed, NothingTold
  <2> HIDE DEF made
  <2> QED
    BY <1>1, <1>2, <2>1, <2>2, CheckoutEnds DEF MarkFailed
<1>3. CASE SaveCheckout(r)
  <2> DEFINE made == [attempt[r] EXCEPT !.referenced = TRUE]
  <2>1. /\ made.status = attempt[r].status /\ made.referenced
        /\ attempt' = [attempt EXCEPT ![r] = made]
    BY <1>1, <1>3 DEF SaveCheckout, Attempts
  <2>2. NothingTold
    BY <1>3 DEF SaveCheckout, NothingTold, Endings, Tidings
  <2>3. PICK phase \in {"created", "failed"}, result \in {r, Null} :
          Answer(r, phase, result)
    BY <1>3 DEF SaveCheckout
  <2> HIDE DEF made
  <2> QED
    BY <1>1, <1>3, <2>1, <2>2, <2>3, CheckoutEnds DEF SaveCheckout
<1> QED
  BY <1>2, <1>3

-----------------------------------------------------------------------------
(* Payments and webhooks. *)

\* The customer and the provider move a session whose attempt is open.
LEMMA SessionSettles ==
  ASSUME FundsInv, SettlementInv, NEW r \in Requests,
         CustomerPays(r) \/ DelayedPaymentEnds(r) \/ SessionExpires(r),
         UNCHANGED payouts
  PROVE  SettlementInv'
<1>1. CheckoutTells(r) /\ psp[r] \in {"open", "processing"}
  BY DEF SettlementInv, CustomerPays, DelayedPaymentEnds, SessionExpires
<1>2. /\ r \in Deposited /\ r \in Rows /\ txn[r].type = "DEPOSIT"
      /\ txn[r].status = "PENDING" /\ r \notin acked /\ ~(settling[r] > 0)
      /\ attempt[r].status \notin {"COMPLETED", "CANCELLED"}
      /\ attempt[r].status = "FAILED" => req[r].phase = "failed"
      /\ psp[r] = "processing" => req[r].phase = "created"
      /\ req[r].phase # "recorded"
  BY <1>1 DEF CheckoutTells, Deposited
<1>3. /\ \A s \in Requests \ {r} : psp'[s] = psp[s]
      /\ \/ psp'[r] \in {"processing", "paid", "failed"} /\ req[r].phase = "created"
         \/ psp'[r] = "expired"
      /\ UNCHANGED <<req, idem, txn, notices, attempt, settling, acked>>
  BY <1>2 DEF CustomerPays, DelayedPaymentEnds, SessionExpires, storeVars,
     FundsInv, FundsTypeOK, DepositTypeOK
<1>4. r \in Deposited'
  BY <1>2, <1>3 DEF Deposited, Rows
<1>5. CheckoutTells(r)'
  BY <1>2, <1>3, <1>4 DEF CheckoutTells
<1> QED
  BY <1>2, <1>3, <1>5, DepositMoves DEF NothingTold

\* A delivery about a paid session credits it, or finds it credited.
LEMMA PaidSettles ==
  ASSUME FundsInv, SettlementInv, NEW r \in Requests, psp[r] = "paid",
         \/ Claimable(r) /\ Credit(r)
         \/ ~Claimable(r) /\ UNCHANGED <<attempt, txn>>,
         \A s \in Requests \ {r} : settling'[s] = settling[s],
         acked' = acked \cup {r}, UNCHANGED <<idem, req, notices, psp, payouts>>
  PROVE  SettlementInv'
<1>1. /\ CheckoutTells(r) /\ r \in Deposited /\ r \in Rows
      /\ txn[r].type = "DEPOSIT" /\ req[r].phase = "created"
  BY DEF SettlementInv, CheckoutTells, Deposited
<1>2. attempt[r] \in Attempts /\ txn[r] \in TxnRows
  BY <1>1, AttemptTyped, RowTypes
<1>3. attempt[r].status \in {"PENDING", "COMPLETED"}
  BY <1>1, <1>2 DEF CheckoutTells, Attempts
<1>4. /\ txn'[r].type = "DEPOSIT" /\ txn'[r].status = "COMPLETED"
      /\ attempt'[r].status = "COMPLETED"
      /\ attempt[r].referenced => attempt'[r].referenced
      /\ \A s \in Requests \ {r} : txn'[s] = txn[s] /\ attempt'[s] = attempt[s]
  <2>1. CASE Claimable(r) /\ Credit(r)
    BY <1>1, <1>2, <2>1 DEF Credit, Attempts, TxnRows, FundsInv, FundsTypeOK,
       DepositTypeOK, StoreTypeOK
  <2>2. CASE ~Claimable(r) /\ UNCHANGED <<attempt, txn>>
    BY <1>1, <1>3, <2>2 DEF Claimable, CheckoutTells
  <2> QED
    BY <2>1, <2>2
<1>5. r \in Deposited'
  BY <1>4 DEF Deposited, Rows
<1>6. CheckoutTells(r)'
  BY <1>1, <1>4, <1>5 DEF CheckoutTells
<1> QED
  BY <1>1, <1>3, <1>4, <1>6, DepositMoves DEF NothingTold

\* Whatever a delivery says, reads or leaves half done.
LEMMA WebhookSettles ==
  ASSUME FundsInv, SettlementInv, NEW r \in Requests, Webhook(r), UNCHANGED payouts
  PROVE  SettlementInv'
<1>1. CheckoutTells(r)
  BY DEF SettlementInv
<1>2. CASE StripePaid(r)
  BY <1>2, PaidSettles DEF StripePaid
<1>3. CASE StripeNotPaid(r)
  <2>1. /\ attempt[r].status = "PENDING" /\ r \in Rows /\ txn[r].type = "DEPOSIT"
        /\ r \in Deposited
    BY <1>3 DEF StripeNotPaid, Claimable, FundsInv, AttemptsBelong, Deposited
  <2>2. attempt[r] \in Attempts
    BY <2>1, AttemptTyped
  <2>3. /\ \/ psp[r] = "failed" /\ attempt'[r].status = "FAILED"
           \/ psp[r] = "expired" /\ attempt'[r].status = "CANCELLED"
        /\ attempt'[r].referenced = attempt[r].referenced
        /\ \A s \in Requests \ {r} : attempt'[s] = attempt[s]
        /\ UNCHANGED <<req, idem, txn, notices, psp, settling, acked>>
    BY <1>3, <2>2 DEF StripeNotPaid, storeVars, Attempts, FundsInv, FundsTypeOK,
       DepositTypeOK
  <2>4. r \in Deposited'
    BY <2>1, <2>3 DEF Deposited, Rows
  <2>5. CheckoutTells(r)'
    BY <1>1, <2>1, <2>3, <2>4 DEF CheckoutTells
  <2> QED
    BY <2>1, <2>3, <2>5, DepositMoves DEF NothingTold
<1>4. CASE CoinPaymentsRead(r)
  <2>1. /\ psp[r] = "paid" /\ r \in Deposited /\ r \in Rows /\ txn[r].type = "DEPOSIT"
        /\ \A s \in Requests \ {r} : settling'[s] = settling[s]
        /\ UNCHANGED <<req, idem, txn, notices, attempt, psp>>
    BY <1>1, <1>4 DEF CoinPaymentsRead, storeVars, CheckoutTells, Deposited,
       FundsInv, FundsTypeOK, DepositTypeOK
  <2>2. \/ acked' = acked
        \/ attempt[r].status = "COMPLETED" /\ acked' = acked \cup {r}
    BY <1>4 DEF CoinPaymentsRead
  <2>3. r \in Deposited'
    BY <2>1 DEF Deposited, Rows
  <2>4. CheckoutTells(r)'
    BY <1>1, <2>1, <2>2, <2>3 DEF CheckoutTells
  <2> QED
    BY <2>1, <2>2, <2>4, DepositMoves DEF NothingTold
<1>5. CASE CoinPaymentsSettle(r)
  <2>1. psp[r] = "paid"
    BY <1>1, <1>5 DEF CoinPaymentsSettle, CheckoutTells
  <2>2. \A s \in Requests \ {r} : settling'[s] = settling[s]
    BY <1>5 DEF CoinPaymentsSettle, FundsInv, FundsTypeOK, DepositTypeOK
  <2> QED
    BY <1>5, <2>1, <2>2, PaidSettles DEF CoinPaymentsSettle
<1>6. CASE DeliveryDies(r)
  <2>1. /\ settling[r] > 0 /\ psp[r] = "paid"
        /\ r \in Deposited /\ r \in Rows /\ txn[r].type = "DEPOSIT"
        /\ \A s \in Requests \ {r} : settling'[s] = settling[s]
        /\ UNCHANGED <<req, idem, txn, notices, attempt, psp, acked>>
    BY <1>1, <1>6 DEF DeliveryDies, storeVars, CheckoutTells, Deposited,
       FundsInv, FundsTypeOK, DepositTypeOK
  <2>2. r \in Deposited'
    BY <2>1 DEF Deposited, Rows
  <2>3. CheckoutTells(r)'
    BY <1>1, <2>1, <2>2 DEF CheckoutTells
  <2> QED
    BY <2>1, <2>3, DepositMoves DEF NothingTold
<1> QED
  BY <1>2, <1>3, <1>4, <1>5, <1>6 DEF Webhook

-----------------------------------------------------------------------------
(* The theorems. *)

\* Every step keeps the rows of one transaction telling one story.
LEMMA SettlementStep ==
  FundsInv /\ RequestInv /\ SettlementInv /\ [FundsNext]_fundsVars => SettlementInv'
<1> SUFFICES ASSUME FundsInv, RequestInv, SettlementInv, [FundsNext]_fundsVars
             PROVE  SettlementInv'
  OBVIOUS
<1>1. CASE WithdrawalStep /\ UNCHANGED pspVars
  <2>1. ASSUME NEW r \in Requests, NEW u \in Users, NEW k \in Keys,
               NEW b \in WithdrawalBodies, WithdrawSubmit(r, u, k, b)
        PROVE  SettlementInv'
    BY <1>1, <2>1, SubmitSettles DEF WithdrawSubmit, Bodies
  <2> QED
    BY <1>1, <2>1, QuoteSettles, WithdrawCommitSettles, WithdrawalLifeSettles
    DEF WithdrawalStep
<1>2. CASE TransferStep /\ UNCHANGED <<payouts, pspVars>>
  <2>1. ASSUME NEW r \in Requests, NEW u \in Users, NEW k \in Keys,
               NEW b \in TransferBodies, TransferSubmit(r, u, k, b)
        PROVE  SettlementInv'
    BY <1>2, <2>1, SubmitSettles DEF Bodies
  <2> QED
    BY <1>2, <2>1, QuoteSettles, TransferCommitSettles DEF TransferStep
<1>3. CASE DepositStep /\ UNCHANGED payouts
  <2>1. ASSUME NEW r \in Requests, NEW u \in Users, NEW k \in Keys,
               NEW b \in DepositBodies, DepositSubmit(r, u, k, b)
        PROVE  SettlementInv'
    BY <1>3, <2>1, SubmitSettles DEF DepositSubmit, Bodies
  <2> QED
    BY <1>3, <2>1, QuoteSettles, DepositCommitSettles, OpenCheckoutSettles,
       LastTransactionSettles, SessionSettles, WebhookSettles DEF DepositStep
<1>4. CASE /\ \E r \in Requests : RequestAborts(r)
           /\ UNCHANGED <<payouts, pspVars>>
  BY <1>4, FailsOnly DEF RequestAborts
<1>5. CASE /\ \E u \in Users : DeactivateCustomer(u)
           /\ UNCHANGED <<payouts, pspVars>>
  BY <1>5, NothingCommits DEF DeactivateCustomer, CallsKept, NothingTold
<1>6. CASE UNCHANGED fundsVars
  BY <1>6, NothingCommits DEF fundsVars, storeVars, CallsKept, NothingTold
<1> QED
  BY <1>1, <1>2, <1>3, <1>4, <1>5, <1>6 DEF FundsNext

\* The rows of a withdrawal and its payouts, and of a deposit, its attempt, its
\* session and its key tell one story, in every reachable state.
THEOREM SettlementInvariant ==
  FundsSpec => [](FundsInv /\ RequestInv /\ SettlementInv)
<1>1. FundsInit => FundsInv /\ RequestInv /\ SettlementInv
  BY InitInv, RequestInitially, SettlementInitially
<1>2. FundsInv /\ RequestInv /\ SettlementInv /\ [FundsNext]_fundsVars
        => (FundsInv /\ RequestInv /\ SettlementInv)'
  BY StepInv, RequestsStep, SettlementStep
<1> QED
  BY <1>1, <1>2, PTL DEF FundsSpec

\* No payout starts above the threshold without an approval, nor after a
\* rejection, however administrators and payouts race.
THEOREM PayoutsAuthorised == FundsSpec => []PayoutsAreAuthorised
<1>1. FundsInv /\ SettlementInv => PayoutsAreAuthorised
  BY SettlementShows
<1> QED
  BY <1>1, SettlementInvariant, PTL

\* A withdrawal is paid out at most once, and ends as its payout did.
THEOREM PayoutsMatch == FundsSpec => []PayoutMatchesStatus
<1>1. FundsInv /\ SettlementInv => PayoutMatchesStatus
  BY SettlementShows
<1> QED
  BY <1>1, SettlementInvariant, PTL

\* Who is told that a withdrawal was paid, that it failed or that it was rejected,
\* is told the truth about the money, also by a failure announced after a rejection.
THEOREM NoticesTrue == FundsSpec => []NoticesTellTheMoney
<1>1. FundsInv /\ SettlementInv => NoticesTellTheMoney
  BY SettlementShows
<1> QED
  BY <1>1, SettlementInvariant, PTL

\* A deposit is credited exactly when its attempt was claimed, for a payment.
THEOREM CreditedClaimed == FundsSpec => []CreditedIffClaimed
<1>1. FundsInv /\ SettlementInv => CreditedIffClaimed
  BY SettlementShows
<1> QED
  BY <1>1, SettlementInvariant, PTL

\* A payment that was answered 200, and so is never delivered again, is credited.
THEOREM AnsweredCredited == FundsSpec => []AnsweredPaymentIsCredited
<1>1. FundsInv /\ SettlementInv => AnsweredPaymentIsCredited
  BY SettlementShows
<1> QED
  BY <1>1, SettlementInvariant, PTL

\* A completed key has a checkout the webhooks find, a failed one never credits.
THEOREM KeyTells == FundsSpec => []KeyTellsTheCheckout
<1>1. FundsInv /\ SettlementInv => KeyTellsTheCheckout
  BY SettlementShows
<1> QED
  BY <1>1, SettlementInvariant, PTL

\* A commit writes the row of its own request, which has none yet, an
\* administrator that of a pending withdrawal, and a webhook that of a deposit
\* whose attempt, and so whose transaction, is pending.
LEMMA SettledStays ==
  ASSUME FundsInv, RequestInv, SettlementInv, [FundsNext]_fundsVars,
         NEW t \in Requests, txn[t].status \in Settled
  PROVE  txn'[t] = txn[t]
<1>1. t \in Rows /\ txn[t].status # "PENDING"
  BY DEF Rows, Settled
<1>2. ASSUME NEW r \in Requests,
             \/ r \notin Rows
             \/ txn[r].status = "PENDING",
             \A s \in Requests \ {r} : txn'[s] = txn[s]
      PROVE  txn'[t] = txn[t]
  BY <1>1, <1>2
<1>3. txn \in [Requests -> TxnRows \cup {NoTxn}]
  BY DEF FundsInv, FundsTypeOK, DepositTypeOK, StoreTypeOK
<1>4. ASSUME NEW r \in Requests,
             WithdrawCommit(r) \/ TransferCommit(r) \/ DepositCommit(r)
      PROVE  txn'[t] = txn[t]
  <2>1. r \notin Rows
    BY <1>4, NoRowYet DEF WithdrawCommit, TransferCommit, DepositCommit, RequestInv
  <2>2. \A s \in Requests \ {r} : txn'[s] = txn[s]
    BY <1>3, <1>4 DEF WithdrawCommit, TransferCommit, DepositCommit
  <2> QED
    BY <1>2, <2>1, <2>2
<1>5. ASSUME NEW r \in Requests,
             \/ ApproveWithdrawal(r) \/ RejectWithdrawal(r) \/ ProcessWithdrawal(r)
             \/ CompleteWithdrawal(r) \/ FailWithdrawal(r)
      PROVE  txn'[t] = txn[t]
  <2>1. txn[r].status = "PENDING" \/ FailAgain(r)
    BY <1>5 DEF ApproveWithdrawal, RejectWithdrawal, ProcessWithdrawal,
       CompleteWithdrawal, FailWithdrawal, FailPending, PendingWithdrawal
  <2>2. \A s \in Requests \ {r} : txn'[s] = txn[s]
    BY <1>3, <1>5 DEF ApproveWithdrawal, RejectWithdrawal, ProcessWithdrawal,
       CompleteWithdrawal, FailWithdrawal, FailPending, FailAgain, storeVars
  <2>3. FailAgain(r) => txn' = txn
    BY DEF FailAgain
  <2> QED
    BY <1>2, <2>1, <2>2, <2>3
<1>6. ASSUME NEW r \in Requests, Webhook(r)
      PROVE  txn'[t] = txn[t]
  <2>1. CASE Claimable(r) /\ Credit(r)
    <3>1. r \in Deposited /\ CheckoutTells(r) /\ attempt[r].status = "PENDING"
      BY <2>1 DEF Claimable, FundsInv, AttemptsBelong, Deposited, SettlementInv
    <3>2. txn[r].status = "PENDING"
      BY <3>1 DEF CheckoutTells
    <3>3. \A s \in Requests \ {r} : txn'[s] = txn[s]
      BY <1>3, <2>1 DEF Credit
    <3> QED
      BY <1>2, <3>2, <3>3
  <2>2. CASE txn' = txn
    BY <2>2
  <2> QED
    BY <1>6, <2>1, <2>2 DEF Webhook, StripePaid, StripeNotPaid, CoinPaymentsRead,
       CoinPaymentsSettle, DeliveryDies, storeVars
<1>7. CASE txn' = txn
  BY <1>7
<1>8. CASE WithdrawalStep
  <2>1. ASSUME NEW r \in Requests,
               \/ \E u \in Users, k \in Keys, b \in WithdrawalBodies :
                    WithdrawSubmit(r, u, k, b)
               \/ WithdrawQuote(r)
        PROVE  txn' = txn
    BY <2>1 DEF WithdrawSubmit, Submit, WithdrawQuote
  <2> QED
    BY <1>4, <1>5, <1>7, <1>8, <2>1 DEF WithdrawalStep
<1>9. CASE TransferStep
  <2>1. ASSUME NEW r \in Requests,
               \/ \E u \in Users, k \in Keys, b \in TransferBodies :
                    TransferSubmit(r, u, k, b)
               \/ TransferQuote(r)
        PROVE  txn' = txn
    BY <2>1 DEF TransferSubmit, Submit, TransferQuote
  <2> QED
    BY <1>4, <1>7, <1>9, <2>1 DEF TransferStep
<1>10. CASE DepositStep
  <2>1. ASSUME NEW r \in Requests,
               \/ \E u \in Users, k \in Keys, b \in DepositBodies :
                    DepositSubmit(r, u, k, b)
               \/ DepositQuote(r) \/ OpenCheckout(r)
               \/ MarkFailed(r) \/ SaveCheckout(r)
        PROVE  txn' = txn
    BY <2>1 DEF DepositSubmit, Submit, DepositQuote, OpenCheckout, MarkFailed,
       SaveCheckout
  <2>2. ASSUME NEW r \in Requests,
               CustomerPays(r) \/ DelayedPaymentEnds(r) \/ SessionExpires(r)
        PROVE  txn' = txn
    BY <2>2 DEF CustomerPays, DelayedPaymentEnds, SessionExpires, storeVars
  <2> QED
    BY <1>4, <1>6, <1>7, <1>10, <2>1, <2>2 DEF DepositStep
<1> QED
  BY <1>7, <1>8, <1>9, <1>10 DEF FundsNext, RequestAborts, DeactivateCustomer,
     fundsVars, storeVars

\* A settled transaction keeps its whole row, whatever is retried, repeated or late.
THEOREM SettledFinal == FundsSpec => SettledIsFinal
<1>1. FundsInv /\ RequestInv /\ SettlementInv /\ [FundsNext]_fundsVars =>
        [\A r \in Requests :
           txn[r].status \in Settled => txn'[r] = txn[r]]_storeVars
  BY SettledStays
<1> QED
  BY <1>1, SettlementInvariant, PTL DEF FundsSpec, SettledIsFinal
=============================================================================
