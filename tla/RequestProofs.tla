---------------------------- MODULE RequestProofs ----------------------------
(* What the money handlers answer, and what transfers move, for every value of *)
(* the constants.                                                             *)
EXTENDS FundsProofs

-----------------------------------------------------------------------------
(* The strengthening: what a handler that has not committed yet knows. *)

\* A request that has made its transaction is past its checks.
RowsAreAnswered == \A r \in Rows : req[r].phase \notin {"checked", "quoted"}

\* A transfer that may still commit was checked: other accounts, one customer,
\* and something to take and to give.
CheckedTransfer(call) ==
  call.phase \in {"checked", "quoted"} /\ call.body.operation = "TRANSFER" =>
    /\ call.body.account # call.body.destination
    /\ call.phase = "quoted" =>
         /\ Owner[call.body.account] = call.user
         /\ Owner[call.body.destination] = call.user
         /\ Cents(call.body.amount) > 0
         /\ Convert(Cents(call.body.amount), call.rate) > 0

TransfersAreChecked ==
  \A r \in Requests : req[r].phase # "idle" => CheckedTransfer(req[r])

RequestInv == RowsAreAnswered /\ TransfersAreChecked /\ SuccessIsFaithful

\* t is a transaction the call may be answered with.
Answers(call, t) ==
  /\ t \in Rows
  /\ txn[t].customer = call.user
  /\ req[t].user = call.user
  /\ req[t].key = call.key
  /\ req[t].body = call.body

\* Nobody has been promised anything yet.
LEMMA RequestInitially == FundsInit => RequestInv
BY DEF FundsInit, DepositInit, StoreInit, RequestInv, RowsAreAnswered, Rows,
   NoTxn, TransfersAreChecked, SuccessIsFaithful, Idle

\* A request that has not committed has no row yet.
LEMMA NoRowYet ==
  ASSUME FundsInv, RowsAreAnswered, NEW r \in Requests,
         req[r].phase \in {"idle", "checked", "quoted"}
  PROVE  r \notin Rows
BY DEF FundsInv, RowsAreClaimed, RowsAreAnswered

\* Where nobody answers and no transaction appears, nothing can go wrong.
LEMMA NobodyMoves ==
  ASSUME RequestInv, req' = req, Rows' = Rows,
         \A t \in Rows : txn'[t].customer = txn[t].customer
  PROVE  RequestInv'
BY DEF RequestInv, RowsAreAnswered, TransfersAreChecked, CheckedTransfer,
   SuccessIsFaithful

\* One request moves, and may make its transaction.
LEMMA OneMoves ==
  ASSUME FundsInv, RequestInv, NEW r \in Requests, NEW call \in Calls,
         req' = [req EXCEPT ![r] = call],
         Rows \subseteq Rows', Rows' \subseteq Rows \cup {r},
         \A t \in Rows : txn'[t].customer = txn[t].customer,
         r \in Rows => /\ call.user = req[r].user
                       /\ call.key = req[r].key
                       /\ call.body = req[r].body,
         r \in Rows' => call.phase \notin {"checked", "quoted"},
         CheckedTransfer(call),
         call.phase \in {"created", "replayed"} =>
           \/ Answers(call, call.result)
           \/ /\ call.result = r /\ r \in Rows'
              /\ txn'[r].customer = call.user
  PROVE  RequestInv'
<1> USE DEF RequestInv
<1>1. req'[r] = call /\ \A s \in Requests \ {r} : req'[s] = req[s]
  BY DEF FundsInv, FundsTypeOK, DepositTypeOK, StoreTypeOK
<1>2. RowsAreAnswered'
  BY <1>1 DEF RowsAreAnswered, Rows
<1>3. TransfersAreChecked'
  BY <1>1 DEF TransfersAreChecked, CheckedTransfer
<1>4. ASSUME NEW t \in Rows
      PROVE  /\ t \in Rows' /\ t \in Requests
             /\ txn'[t].customer = txn[t].customer
             /\ req'[t].user = req[t].user
             /\ req'[t].key = req[t].key
             /\ req'[t].body = req[t].body
  BY <1>1 DEF Rows
<1>5. SuccessIsFaithful'
  <2> SUFFICES ASSUME NEW s \in Requests,
                      req'[s].phase \in {"created", "replayed"}
               PROVE  Answers(req[s], req[s].result)'
    BY DEF SuccessIsFaithful, Answers
  <2>1. CASE s # r
    <3>1. req'[s] = req[s] /\ Answers(req[s], req[s].result)
      BY <1>1, <2>1 DEF SuccessIsFaithful, Answers
    <3> QED
      BY <3>1, <1>4 DEF Answers
  <2>2. CASE s = r /\ Answers(call, call.result)
    BY <2>2, <1>1, <1>4 DEF Answers
  <2>3. CASE /\ s = r /\ call.result = r /\ r \in Rows'
             /\ txn'[r].customer = call.user
    BY <2>3, <1>1 DEF Answers
  <2> QED
    BY <1>1, <2>1, <2>2, <2>3
<1> QED
  BY <1>2, <1>3, <1>5

\* A claim that can be replayed names a transaction of that customer, key and body.
LEMMA ReplayAnswers ==
  ASSUME FundsInv, NEW u \in Users, NEW k \in Keys, NEW b \in Bodies,
         Replayable(idem[<<u, k>>], u, b)
  PROVE  /\ idem[<<u, k>>].txn \in Rows
         /\ txn[idem[<<u, k>>].txn].customer = u
         /\ req[idem[<<u, k>>].txn].user = u
         /\ req[idem[<<u, k>>].txn].key = k
         /\ req[idem[<<u, k>>].txn].body = b
<1> DEFINE t == idem[<<u, k>>].txn
<1>1. <<u, k>> \in Users \X Keys /\ idem[<<u, k>>].status # "NONE"
  BY DEF Replayable
<1>2. t \in Rows /\ <<req[t].user, req[t].key>> = <<u, k>>
  BY <1>1 DEF FundsInv, ClaimsAreUsed
<1>3. ClaimOf(t) = idem[<<u, k>>] /\ ClaimOf(t).hash = req[t].body
  BY <1>2 DEF ClaimOf, FundsInv, RowsAreClaimed
<1> QED
  BY <1>2, <1>3 DEF Replayable

\* An error leaves no promise.
LEMMA FailedStep ==
  ASSUME FundsInv, RequestInv, NEW r \in Requests, req[r].phase # "idle",
         Answer(r, "failed", Null), UNCHANGED txn
  PROVE  RequestInv'
<1>1. PICK call \in Calls :
        /\ call.phase = "failed"
        /\ call.user = req[r].user /\ call.key = req[r].key
        /\ call.body = req[r].body
        /\ req' = [req EXCEPT ![r] = call]
  <2>1. "failed" \in InFlight \cup Answered /\ Null \in Requests \cup {Null}
    BY DEF Answered
  <2> QED
    BY <2>1, AnsweredCall
<1>2. Rows' = Rows
  BY DEF Rows
<1> QED
  BY <1>1, <1>2, OneMoves DEF CheckedTransfer

-----------------------------------------------------------------------------
(* The steps of the handlers. *)

\* A lookup replays what the key names, or promises nothing yet.
LEMMA SubmitAnswers ==
  ASSUME FundsInv, RequestInv, NEW r \in Requests, NEW u \in Users,
         NEW k \in Keys, NEW b \in Bodies, Submit(r, u, k, b),
         b.operation = "TRANSFER" => b.account # b.destination
  PROVE  RequestInv'
<1> DEFINE c == idem[<<u, k>>]
           Call(phase, t) ==
             [phase |-> phase, user |-> u, key |-> k, body |-> b,
              rate |-> Par, usd |-> 0, result |-> t]
<1>1. req[r].phase = "idle" /\ r \notin Rows /\ Rows' = Rows /\ txn' = txn
  BY DEF Submit, FundsInv, RowsAreClaimed, Rows
<1>2. PICK phase \in {"checked", "replayed", "failed"}, t \in {Null, c.txn} :
        /\ req' = [req EXCEPT ![r] = Call(phase, t)]
        /\ phase = "replayed" => Replayable(c, u, b) /\ t = c.txn
        /\ t = Null \/ (Replayable(c, u, b) /\ t = c.txn)
  BY Zenon DEF Submit
<1>3. t \in Requests \cup {Null}
  BY <1>2 DEF FundsInv, FundsTypeOK, DepositTypeOK, StoreTypeOK, IdemRows,
              NoClaim, Replayable
<1> DEFINE call == Call(phase, t)
<1>4. call \in Calls /\ CheckedTransfer(call)
  BY <1>2, <1>3, ParIsRate DEF Calls, InFlight, Answered, CheckedTransfer
<1>5. call.phase \in {"created", "replayed"} => Answers(call, call.result)
  BY <1>2, ReplayAnswers DEF Answers
<1> HIDE DEF call
<1>6. req' = [req EXCEPT ![r] = call]
  BY <1>2 DEF call
<1> QED
  BY <1>1, <1>4, <1>5, <1>6, OneMoves

\* A transfer to the account it comes from is refused at once.
LEMMA TransferSubmitAnswers ==
  ASSUME FundsInv, RequestInv, NEW r \in Requests, NEW u \in Users,
         NEW k \in Keys, NEW b \in TransferBodies, TransferSubmit(r, u, k, b)
  PROVE  RequestInv'
<1>1. b \in Bodies
  BY DEF Bodies
<1>2. CASE b.account # b.destination
  BY <1>1, <1>2, SubmitAnswers DEF TransferSubmit
<1>3. CASE b.account = b.destination
  <2> DEFINE call == [phase |-> "failed", user |-> u, key |-> k, body |-> b,
                      rate |-> Par, usd |-> 0, result |-> Null]
  <2>1. /\ req[r].phase = "idle" /\ req' = [req EXCEPT ![r] = call]
        /\ txn' = txn /\ Rows' = Rows
    BY <1>3 DEF TransferSubmit, Rows
  <2>2. call \in Calls /\ call.phase = "failed" /\ CheckedTransfer(call)
    BY <1>1, ParIsRate DEF Calls, Answered, CheckedTransfer
  <2>3. r \notin Rows
    BY <2>1 DEF FundsInv, RowsAreClaimed
  <2> HIDE DEF call
  <2> QED
    BY <2>1, <2>2, <2>3, OneMoves
<1> QED
  BY <1>2, <1>3

\* A quote moves a request that has no row on.
LEMMA QuoteAnswers ==
  ASSUME FundsInv, RequestInv, NEW r \in Requests, req[r].phase = "checked",
         NEW call \in Calls, req' = [req EXCEPT ![r] = call],
         call.phase \in {"quoted", "failed"}, CheckedTransfer(call),
         UNCHANGED txn
  PROVE  RequestInv'
<1>1. r \notin Rows /\ Rows' = Rows
  BY NoRowYet DEF RequestInv, Rows
<1> QED
  BY <1>1, OneMoves

\* Only what passed the checks of a transfer is quoted.
LEMMA TransferQuoteAnswers ==
  ASSUME FundsInv, RequestInv, NEW r \in Requests, TransferQuote(r)
  PROVE  RequestInv'
<1> DEFINE from == AccountCurrency[req[r].body.account]
           to == AccountCurrency[req[r].body.destination]
           amount == Cents(req[r].body.amount)
<1>1. req[r].phase = "checked" /\ req[r].body.operation = "TRANSFER"
  BY DEF TransferQuote
<1>2. CASE MayTransfer(r)
  <2>1. PICK rate \in Quotes(from, to) :
          req' = [req EXCEPT
            ![r].phase = IF Convert(amount, rate) > 0 THEN "quoted" ELSE "failed",
            ![r].rate = rate]
    BY <1>2, Zenon DEF TransferQuote
  <2> DEFINE phase == IF Convert(amount, rate) > 0 THEN "quoted" ELSE "failed"
             call == [req[r] EXCEPT !.phase = phase, !.rate = rate]
  <2>2. /\ phase \in {"quoted", "failed"} /\ rate \in ExchangeRates
        /\ phase = "quoted" => Convert(amount, rate) > 0
    BY QuotesAreRates
  <2>3. req' = [req EXCEPT ![r].phase = phase, ![r].rate = rate]
    BY <2>1
  <2> HIDE DEF phase
  <2>4. req[r] \in Calls /\ req \in [Requests -> Calls \cup {Idle}]
    BY <1>1, ActiveCall DEF FundsInv, FundsTypeOK, DepositTypeOK, StoreTypeOK
  <2>5. /\ call \in Calls /\ call.phase = phase /\ call.rate = rate
        /\ call.user = req[r].user /\ call.body = req[r].body
        /\ req' = [req EXCEPT ![r] = call]
    BY <2>2, <2>3, <2>4 DEF Calls, InFlight, Answered
  <2> HIDE DEF call
  <2>6. req[r].body.account # req[r].body.destination
    BY <1>1 DEF RequestInv, TransfersAreChecked, CheckedTransfer
  <2>7. CheckedTransfer(call)
    BY <1>2, <2>2, <2>5, <2>6 DEF CheckedTransfer, MayTransfer
  <2> QED
    BY <1>1, <2>2, <2>5, <2>7, QuoteAnswers DEF TransferQuote
<1>3. CASE ~MayTransfer(r)
  BY <1>1, <1>3, FailedStep DEF TransferQuote
<1> QED
  BY <1>2, <1>3

\* Quotes of withdrawals and deposits are no transfers.
LEMMA OtherQuoteAnswers ==
  ASSUME FundsInv, RequestInv, NEW r \in Requests,
         WithdrawQuote(r) \/ DepositQuote(r)
  PROVE  RequestInv'
<1>1. /\ req[r].phase = "checked" /\ req[r].body.operation # "TRANSFER"
      /\ txn' = txn
  BY DEF WithdrawQuote, DepositQuote
<1>2. req[r] \in Calls /\ req \in [Requests -> Calls \cup {Idle}]
  BY <1>1, ActiveCall DEF FundsInv, FundsTypeOK, DepositTypeOK, StoreTypeOK
<1>3. CASE Answer(r, "failed", Null)
  BY <1>1, <1>3, FailedStep
<1>4. ASSUME NEW rate \in ExchangeRates, NEW usd \in Nat,
             NEW phase \in {"quoted", "failed"},
             req' = [req EXCEPT ![r] = [req[r] EXCEPT
                       !.phase = phase, !.rate = rate, !.usd = usd]]
      PROVE  RequestInv'
  <2> DEFINE call == [req[r] EXCEPT !.phase = phase, !.rate = rate, !.usd = usd]
  <2>1. /\ call \in Calls /\ call.phase = phase /\ call.body = req[r].body
        /\ req' = [req EXCEPT ![r] = call]
    BY <1>2, <1>4 DEF Calls, InFlight, Answered
  <2> HIDE DEF call
  <2> QED
    BY <1>1, <2>1, QuoteAnswers DEF CheckedTransfer
<1>5. ASSUME WithdrawQuote(r), MayWithdraw(r)
      PROVE  RequestInv'
  <2> DEFINE a == req[r].body.account
             amount == Cents(req[r].body.amount)
  <2>1. PICK toUsd \in Quotes(AccountCurrency[a], USD),
             rate \in Quotes(AccountCurrency[a], req[r].body.payout) :
          req' = [req EXCEPT ![r].phase = "quoted", ![r].rate = rate,
                             ![r].usd = Convert(amount, toUsd)]
    BY <1>5, Zenon DEF WithdrawQuote
  <2> DEFINE usd == Convert(amount, toUsd)
  <2>2. rate \in ExchangeRates /\ usd \in Nat
    BY <1>1, ActiveCall, QuotesAreRates, ConvertNat
  <2> HIDE DEF usd
  <2>3. req' = [req EXCEPT ![r] = [req[r] EXCEPT
                  !.phase = "quoted", !.rate = rate, !.usd = usd]]
    BY <1>2, <2>1 DEF Calls, usd
  <2> QED
    BY <1>4, <2>2, <2>3
<1>6. ASSUME DepositQuote(r), ~Answer(r, "failed", Null)
      PROVE  RequestInv'
  <2> DEFINE a == req[r].body.account
             amount == Cents(req[r].body.amount)
  <2>1. PICK rate \in Quotes(req[r].body.currency, AccountCurrency[a]) :
          req' = [req EXCEPT
            ![r].phase = IF Convert(amount, rate) > 0 THEN "quoted" ELSE "failed",
            ![r].rate = rate]
    BY <1>6, Zenon DEF DepositQuote
  <2> DEFINE phase == IF Convert(amount, rate) > 0 THEN "quoted" ELSE "failed"
  <2>2. /\ phase \in {"quoted", "failed"} /\ rate \in ExchangeRates
        /\ req[r].usd \in Nat
    BY <1>2, QuotesAreRates DEF Calls
  <2>3. req' = [req EXCEPT ![r].phase = phase, ![r].rate = rate]
    BY <2>1
  <2> HIDE DEF phase
  <2>4. req' = [req EXCEPT ![r] = [req[r] EXCEPT
                  !.phase = phase, !.rate = rate, !.usd = req[r].usd]]
    BY <1>2, <2>3 DEF Calls
  <2> QED
    BY <1>4, <2>2, <2>4
<1>7. WithdrawQuote(r) => MayWithdraw(r) \/ Answer(r, "failed", Null)
  BY DEF WithdrawQuote
<1> QED
  BY <1>3, <1>5, <1>6, <1>7

\* What a commit that makes a transaction does to requests and rows.
LEMMA CreatedAnswers ==
  ASSUME FundsInv, RequestInv, NEW r \in Requests, req[r].phase = "quoted",
         NEW phase \in {"created", "failed"}, NEW result \in {r, Null},
         phase = "created" => result = r,
         Answer(r, phase, result),
         NEW row \in TxnRows, row.customer = req[r].user,
         txn' = [txn EXCEPT ![r] = row]
  PROVE  RequestInv'
<1>1. r \notin Rows
  BY NoRowYet DEF RequestInv
<1>2. /\ txn'[r] = row /\ row.status # "NONE"
      /\ \A s \in Requests \ {r} : txn'[s] = txn[s]
  BY DEF FundsInv, FundsTypeOK, DepositTypeOK, StoreTypeOK, TxnRows, Open, Settled
<1>3. Rows' = Rows \cup {r}
  BY <1>2 DEF Rows
<1>4. \A t \in Rows : txn'[t].customer = txn[t].customer
  BY <1>1, <1>2 DEF Rows
<1>5. PICK call \in Calls :
        /\ call.phase = phase /\ call.result = result
        /\ call.user = req[r].user /\ call.key = req[r].key
        /\ call.body = req[r].body
        /\ req' = [req EXCEPT ![r] = call]
  <2>1. phase \in InFlight \cup Answered /\ result \in Requests \cup {Null}
    BY DEF Answered
  <2> QED
    BY <2>1, AnsweredCall
<1>6. CheckedTransfer(call)
  BY <1>5 DEF CheckedTransfer
<1> QED
  BY <1>1, <1>2, <1>3, <1>4, <1>5, <1>6, OneMoves

\* A withdrawal answers with the row it has just made.
LEMMA WithdrawCommitAnswers ==
  ASSUME FundsInv, RequestInv, NEW r \in Requests, WithdrawCommit(r)
  PROVE  RequestInv'
<1> DEFINE a == req[r].body.account
           amount == Cents(req[r].body.amount)
           row == [type |-> "WITHDRAWAL", customer |-> req[r].user,
                   account |-> a, destination |-> Null, amount |-> amount,
                   converted |-> Convert(amount, req[r].rate),
                   status |-> "PENDING",
                   approval |-> IF req[r].usd > Threshold THEN "PENDING"
                                                          ELSE "NOT_REQUIRED"]
<1>1. req[r].phase = "quoted" /\ req[r].phase # "idle"
  BY DEF WithdrawCommit
<1>2. row \in TxnRows /\ row.customer = req[r].user
  BY <1>1, ActiveCall, ConvertNat DEF TxnRows, Open
<1>3. CASE Answer(r, "failed", Null) /\ UNCHANGED txn
  BY <1>1, <1>3, FailedStep
<1>4. CASE /\ txn' = [txn EXCEPT ![r] = row]
           /\ Answer(r, "created", r) \/ Answer(r, "failed", Null)
  <2> HIDE DEF row
  <2>1. PICK phase \in {"created", "failed"}, result \in {r, Null} :
          Answer(r, phase, result) /\ (phase = "created" => result = r)
    BY <1>4
  <2> QED
    BY <1>1, <1>2, <1>4, <2>1, CreatedAnswers
<1> QED
  BY <1>3, <1>4 DEF WithdrawCommit

\* A transfer answers with the row it has just made, or the one its key names.
LEMMA TransferCommitAnswers ==
  ASSUME FundsInv, RequestInv, NEW r \in Requests, TransferCommit(r)
  PROVE  RequestInv'
<1> DEFINE from == req[r].body.account
           to == req[r].body.destination
           amount == Cents(req[r].body.amount)
           received == Convert(amount, req[r].rate)
           claim == Upserted(r)
           row == [type |-> "TRANSFER", customer |-> req[r].user,
                   account |-> from, destination |-> to, amount |-> amount,
                   converted |-> received, status |-> "COMPLETED",
                   approval |-> "NOT_REQUIRED"]
<1>1. /\ req[r].phase = "quoted" /\ req[r].phase # "idle"
      /\ req[r].body \in Bodies /\ req[r].body.operation = "TRANSFER"
      /\ req[r].user \in Users /\ req[r].key \in Keys
  BY ActiveCall DEF TransferCommit
<1>2. row \in TxnRows /\ row.customer = req[r].user
  BY <1>1, ActiveCall, ConvertNat
  DEF TxnRows, Settled, Bodies, WithdrawalBodies, TransferBodies, DepositBodies
<1>3. CASE Answer(r, "failed", Null) /\ UNCHANGED txn
  BY <1>1, <1>3, FailedStep
<1>4. CASE /\ txn' = [txn EXCEPT ![r] = row]
           /\ Answer(r, "created", r) \/ Answer(r, "failed", Null)
  <2> HIDE DEF row
  <2>1. PICK phase \in {"created", "failed"}, result \in {r, Null} :
          Answer(r, phase, result) /\ (phase = "created" => result = r)
    BY <1>4
  <2> QED
    BY <1>1, <1>2, <1>4, <2>1, CreatedAnswers
<1>5. CASE /\ Answer(r, "replayed", claim.txn) /\ UNCHANGED txn
           /\ claim.status = "COMPLETED"
           /\ Replayable(claim, req[r].user, req[r].body)
  <2>1. claim = idem[<<req[r].user, req[r].key>>]
    BY <1>5 DEF Upserted, ClaimOf
  <2>2. Answers(req[r], claim.txn)
    BY <1>1, <1>5, <2>1, ReplayAnswers DEF Answers
  <2>3. claim.txn \in Requests \cup {Null} /\ "replayed" \in InFlight \cup Answered
    BY <2>2 DEF Answers, Rows, Answered
  <2> HIDE DEF claim
  <2>4. PICK call \in Calls :
          /\ call.phase = "replayed" /\ call.result = claim.txn
          /\ call.user = req[r].user /\ call.key = req[r].key
          /\ call.body = req[r].body
          /\ req' = [req EXCEPT ![r] = call]
    BY <1>1, <1>5, <2>3, AnsweredCall
  <2>5. Rows' = Rows /\ CheckedTransfer(call) /\ Answers(call, call.result)
    BY <1>5, <2>2, <2>4 DEF Rows, CheckedTransfer, Answers
  <2> QED
    BY <1>5, <2>4, <2>5, OneMoves
<1> QED
  BY <1>3, <1>4, <1>5 DEF TransferCommit

\* A deposit has its row long before it answers.
LEMMA DepositCommitAnswers ==
  ASSUME FundsInv, RequestInv, NEW r \in Requests, DepositCommit(r)
  PROVE  RequestInv'
<1> DEFINE amount == Cents(req[r].body.amount)
           row == [type |-> "DEPOSIT", customer |-> req[r].user,
                   account |-> req[r].body.account, destination |-> Null,
                   amount |-> amount, converted |-> Convert(amount, req[r].rate),
                   status |-> "PENDING", approval |-> "NOT_REQUIRED"]
           call == [req[r] EXCEPT !.phase = "recorded"]
<1>1. req[r].phase = "quoted" /\ req[r].phase # "idle"
  BY DEF DepositCommit
<1>2. row \in TxnRows /\ row.customer = req[r].user
  BY <1>1, ActiveCall, ConvertNat DEF TxnRows, Open
<1>3. CASE Answer(r, "failed", Null) /\ UNCHANGED txn
  BY <1>1, <1>3, FailedStep
<1>4. CASE txn' = [txn EXCEPT ![r] = row] /\ Goto(r, "recorded")
  <2> HIDE DEF row
  <2>1. r \notin Rows
    BY <1>1, NoRowYet DEF RequestInv
  <2>2. /\ txn'[r] = row /\ row.status # "NONE"
        /\ \A s \in Requests \ {r} : txn'[s] = txn[s]
    BY <1>2, <1>4
    DEF FundsInv, FundsTypeOK, DepositTypeOK, StoreTypeOK, TxnRows, Open, Settled
  <2>3. /\ Rows' = Rows \cup {r}
        /\ \A t \in Rows : txn'[t].customer = txn[t].customer
    BY <2>1, <2>2 DEF Rows
  <2>4. call \in Calls /\ call.phase = "recorded" /\ CheckedTransfer(call)
    BY <1>1, ActiveCall DEF Calls, InFlight, CheckedTransfer
  <2>5. req' = [req EXCEPT ![r] = call]
    BY <1>4 DEF Goto
  <2> HIDE DEF call
  <2> QED
    BY <2>1, <2>3, <2>4, <2>5, OneMoves
<1> QED
  BY <1>3, <1>4 DEF DepositCommit

\* A deposit answers with the row it made before the call to the provider.
LEMMA CheckoutAnswers ==
  ASSUME FundsInv, RequestInv, NEW r \in Requests,
         OpenCheckout(r) \/ MarkFailed(r) \/ SaveCheckout(r)
  PROVE  RequestInv'
<1>1. /\ req[r].phase \in {"recorded", "opened", "declined"}
      /\ req[r].phase # "idle" /\ txn' = txn /\ Rows' = Rows
  BY DEF OpenCheckout, MarkFailed, SaveCheckout, Rows
<1>2. r \in Rows /\ txn[r].customer = req[r].user
  BY <1>1 DEF FundsInv, CheckoutsAreRecorded, RowsAreClaimed
<1>3. CASE Answer(r, "failed", Null)
  BY <1>1, <1>3, FailedStep
<1>4. CASE Answer(r, "created", r)
  <2>1. "created" \in InFlight \cup Answered /\ r \in Requests \cup {Null}
    BY DEF Answered
  <2>2. PICK call \in Calls :
          /\ call.phase = "created" /\ call.result = r
          /\ call.user = req[r].user /\ call.key = req[r].key
          /\ call.body = req[r].body
          /\ req' = [req EXCEPT ![r] = call]
    BY <1>1, <1>4, <2>1, AnsweredCall
  <2> QED
    BY <1>1, <1>2, <2>2, OneMoves DEF CheckedTransfer
<1>5. ASSUME NEW phase \in {"opened", "declined"}, Goto(r, phase)
      PROVE  RequestInv'
  <2> DEFINE call == [req[r] EXCEPT !.phase = phase]
  <2>1. /\ call \in Calls /\ call.phase = phase /\ CheckedTransfer(call)
        /\ call.user = req[r].user /\ call.key = req[r].key
        /\ call.body = req[r].body
    BY <1>1, ActiveCall DEF Calls, InFlight, CheckedTransfer
  <2>2. req' = [req EXCEPT ![r] = call]
    BY <1>5 DEF Goto
  <2> HIDE DEF call
  <2> QED
    BY <1>1, <2>1, <2>2, OneMoves
<1> QED
  BY <1>3, <1>4, <1>5 DEF OpenCheckout, MarkFailed, SaveCheckout

\* Administrators, payouts, payments and webhooks leave requests alone, and
\* the rows to their customers.
LEMMA SettlingAnswers ==
  ASSUME FundsInv, RequestInv, NEW t \in Rows, NEW row \in TxnRows,
         row.customer = txn[t].customer,
         txn' = [txn EXCEPT ![t] = row], req' = req
  PROVE  RequestInv'
<1>1. /\ t \in Requests /\ txn'[t] = row /\ row.status # "NONE"
      /\ \A s \in Requests \ {t} : txn'[s] = txn[s]
  BY DEF Rows, FundsInv, FundsTypeOK, DepositTypeOK, StoreTypeOK, TxnRows, Open,
     Settled
<1>2. Rows' = Rows /\ \A s \in Rows : txn'[s].customer = txn[s].customer
  BY <1>1 DEF Rows
<1> QED
  BY <1>2, NobodyMoves

\* Administrators and payouts change status and approval only.
LEMMA WithdrawalLifeAnswers ==
  ASSUME FundsInv, RequestInv, NEW t \in Requests,
         \/ ApproveWithdrawal(t) \/ RejectWithdrawal(t) \/ ProcessWithdrawal(t)
         \/ CompleteWithdrawal(t) \/ FailWithdrawal(t)
  PROVE  RequestInv'
<1>1. t \in Rows /\ txn[t] \in TxnRows /\ req' = req
  BY RowTypes DEF ApproveWithdrawal, RejectWithdrawal, ProcessWithdrawal,
     CompleteWithdrawal, FailWithdrawal, FailPending, FailAgain, PendingWithdrawal,
     Rows, storeVars
<1>2. CASE txn' = txn
  BY <1>1, <1>2, NobodyMoves DEF Rows
<1>3. ASSUME NEW status \in Open \cup Settled,
             NEW approval \in {"NOT_REQUIRED", "PENDING", "APPROVED", "REJECTED"},
             txn' = [txn EXCEPT ![t] = [txn[t] EXCEPT !.status = status,
                                                      !.approval = approval]]
      PROVE  RequestInv'
  <2> DEFINE row == [txn[t] EXCEPT !.status = status, !.approval = approval]
  <2>1. row \in TxnRows /\ row.customer = txn[t].customer
    BY <1>1 DEF TxnRows
  <2> HIDE DEF row
  <2>2. txn' = [txn EXCEPT ![t] = row]
    BY <1>3 DEF row
  <2> QED
    BY <1>1, <2>1, <2>2, SettlingAnswers
<1>4. /\ txn[t].status \in Open \cup Settled
      /\ txn[t].approval \in {"NOT_REQUIRED", "PENDING", "APPROVED", "REJECTED"}
      /\ txn \in [Requests -> TxnRows \cup {NoTxn}]
  BY <1>1 DEF TxnRows, FundsInv, FundsTypeOK, DepositTypeOK, StoreTypeOK
<1>5. CASE ApproveWithdrawal(t)
  <2>1. txn' = [txn EXCEPT ![t] = [txn[t] EXCEPT !.status = txn[t].status,
                                                 !.approval = "APPROVED"]]
    BY <1>1, <1>4, <1>5 DEF ApproveWithdrawal, TxnRows
  <2> QED
    BY <1>3, <1>4, <2>1
<1>6. CASE RejectWithdrawal(t)
  <2>1. txn' = [txn EXCEPT ![t] = [txn[t] EXCEPT !.status = "REJECTED",
                                                 !.approval = "REJECTED"]]
    BY <1>1, <1>4, <1>6 DEF RejectWithdrawal, TxnRows
  <2> QED
    BY <1>3, <2>1 DEF Settled
<1>7. CASE CompleteWithdrawal(t) \/ FailPending(t)
  <2>1. PICK status \in {"COMPLETED", "FAILED"} :
          txn' = [txn EXCEPT ![t].status = status]
    BY <1>7 DEF CompleteWithdrawal, FailPending
  <2>2. txn' = [txn EXCEPT ![t] = [txn[t] EXCEPT !.status = status,
                                                 !.approval = txn[t].approval]]
    BY <1>1, <1>4, <2>1 DEF TxnRows
  <2> QED
    BY <1>3, <1>4, <2>2 DEF Settled
<1>8. CASE ProcessWithdrawal(t) \/ FailAgain(t)
  BY <1>2, <1>8 DEF ProcessWithdrawal, FailAgain
<1> QED
  BY <1>5, <1>6, <1>7, <1>8 DEF FailWithdrawal

\* Payments and webhooks change at most the status of the deposit.
LEMMA PaymentAnswers ==
  ASSUME FundsInv, RequestInv, NEW r \in Requests,
         \/ CustomerPays(r) \/ DelayedPaymentEnds(r) \/ SessionExpires(r)
         \/ Webhook(r)
  PROVE  RequestInv'
<1>1. req' = req
  BY DEF CustomerPays, DelayedPaymentEnds, SessionExpires, Webhook, StripePaid,
     StripeNotPaid, CoinPaymentsRead, CoinPaymentsSettle, DeliveryDies, storeVars
<1>2. CASE txn' = txn
  BY <1>1, <1>2, NobodyMoves DEF Rows
<1>3. CASE Claimable(r) /\ Credit(r)
  <2> DEFINE row == [txn[r] EXCEPT !.status = "COMPLETED"]
  <2>1. r \in Rows /\ txn[r] \in TxnRows
    BY <1>3, RowTypes DEF Claimable, FundsInv, AttemptsBelong
  <2>2. row \in TxnRows /\ row.customer = txn[r].customer
    BY <2>1 DEF TxnRows, Settled
  <2>3. txn' = [txn EXCEPT ![r] = row]
    BY <1>3 DEF Credit
  <2> HIDE DEF row
  <2> QED
    BY <1>1, <2>1, <2>2, <2>3, SettlingAnswers
<1> QED
  BY <1>2, <1>3 DEF CustomerPays, DelayedPaymentEnds, SessionExpires, Webhook,
     StripePaid, StripeNotPaid, CoinPaymentsRead, CoinPaymentsSettle,
     DeliveryDies, storeVars

-----------------------------------------------------------------------------
(* The theorems. *)

\* Every step keeps every promise.
LEMMA RequestsStep == FundsInv /\ RequestInv /\ [FundsNext]_fundsVars => RequestInv'
<1> SUFFICES ASSUME FundsInv, RequestInv, [FundsNext]_fundsVars PROVE RequestInv'
  OBVIOUS
<1>1. CASE WithdrawalStep
  <2>1. ASSUME NEW r \in Requests, NEW u \in Users, NEW k \in Keys,
               NEW b \in WithdrawalBodies, WithdrawSubmit(r, u, k, b)
        PROVE  RequestInv'
    BY <2>1, SubmitAnswers DEF WithdrawSubmit, Bodies, WithdrawalBodies
  <2> QED
    BY <1>1, <2>1, OtherQuoteAnswers, WithdrawCommitAnswers, WithdrawalLifeAnswers
    DEF WithdrawalStep
<1>2. CASE TransferStep
  BY <1>2, TransferSubmitAnswers, TransferQuoteAnswers, TransferCommitAnswers
  DEF TransferStep
<1>3. CASE DepositStep
  <2>1. ASSUME NEW r \in Requests, NEW u \in Users, NEW k \in Keys,
               NEW b \in DepositBodies, DepositSubmit(r, u, k, b)
        PROVE  RequestInv'
    BY <2>1, SubmitAnswers DEF DepositSubmit, Bodies, DepositBodies
  <2> QED
    BY <1>3, <2>1, OtherQuoteAnswers, DepositCommitAnswers, CheckoutAnswers,
       PaymentAnswers DEF DepositStep
<1>4. CASE \E r \in Requests : RequestAborts(r)
  BY <1>4, FailedStep DEF RequestAborts, InFlight
<1>5. CASE \E u \in Users : DeactivateCustomer(u)
  BY <1>5, NobodyMoves DEF DeactivateCustomer, Rows
<1>6. CASE UNCHANGED fundsVars
  BY <1>6, NobodyMoves DEF fundsVars, storeVars, Rows
<1> QED
  BY <1>1, <1>2, <1>3, <1>4, <1>5, <1>6 DEF FundsNext

\* What is promised and what was checked stays so, in every behaviour.
THEOREM RequestInvariant == FundsSpec => [](FundsInv /\ RequestInv)
<1>1. FundsInit => FundsInv /\ RequestInv
  BY InitInv, RequestInitially
<1>2. FundsInv /\ RequestInv /\ [FundsNext]_fundsVars => (FundsInv /\ RequestInv)'
  BY StepInv, RequestsStep
<1> QED
  BY <1>1, <1>2, PTL DEF FundsSpec

\* A success, new or replayed, names a transaction made for this customer,
\* under this key, from this body, however requests race and stop.
THEOREM FaithfulSuccess == FundsSpec => []SuccessIsFaithful
<1>1. RequestInv => SuccessIsFaithful
  BY DEF RequestInv
<1> QED
  BY <1>1, RequestInvariant, PTL

\* A transfer that commits takes and gives what was checked before the wait.
LEMMA TransferMoves ==
  ASSUME FundsInv, RequestInv, NEW r \in Requests, TransferCommit(r), txn' # txn
  PROVE  LET from == req[r].body.account
             to == req[r].body.destination
         IN  /\ txn'[r].account = from /\ txn'[r].destination = to
             /\ \A s \in Requests \ {r} : txn'[s] = txn[s]
             /\ Owner[from] = Owner[to]
             /\ balance'[from] < balance[from]
             /\ balance'[to] > balance[to]
             /\ \A a \in Accounts \ {from, to} : balance'[a] = balance[a]
<1> DEFINE from == req[r].body.account
           to == req[r].body.destination
           amount == Cents(req[r].body.amount)
           received == Convert(amount, req[r].rate)
<1>1. /\ req[r].phase = "quoted" /\ req[r].phase # "idle"
      /\ req[r].body.operation = "TRANSFER" /\ req[r].body \in Bodies
      /\ from \in Accounts /\ amount \in Nat /\ req[r].rate \in ExchangeRates
  BY ActiveCall DEF TransferCommit
<1>2. to \in Accounts /\ received \in Nat
  BY <1>1, ConvertNat DEF Bodies, WithdrawalBodies, TransferBodies, DepositBodies
<1>3. from # to /\ Owner[from] = Owner[to] /\ amount > 0 /\ received > 0
  BY <1>1 DEF RequestInv, TransfersAreChecked, CheckedTransfer
<1>4. /\ MoveMoney(from, to, amount, received)
      /\ \A s \in Requests \ {r} : txn'[s] = txn[s]
      /\ txn'[r].account = from /\ txn'[r].destination = to
  BY DEF TransferCommit, FundsInv, FundsTypeOK, DepositTypeOK, StoreTypeOK
<1>5. balance \in [Accounts -> Int]
  BY DEF FundsInv, FundsTypeOK, DepositTypeOK, StoreTypeOK
<1> HIDE DEF from, to, amount, received
<1>6. /\ balance'[from] = balance[from] - amount
      /\ balance'[to] = balance[to] + received
      /\ \A a \in Accounts \ {from, to} : balance'[a] = balance[a]
  BY <1>1, <1>2, <1>3, <1>4, <1>5 DEF MoveMoney
<1>7. balance'[from] < balance[from] /\ balance'[to] > balance[to]
  BY <1>1, <1>2, <1>3, <1>5, <1>6
<1> QED
  BY <1>3, <1>4, <1>6, <1>7 DEF from, to

\* Only a commit of a transfer makes a row of a transfer.
LEMMA OnlyTransfersTransfer ==
  ASSUME FundsInv, [FundsNext]_fundsVars, NEW r \in Requests,
         txn[r] = NoTxn, txn'[r] # NoTxn, txn'[r].type = "TRANSFER"
  PROVE  \E s \in Requests : TransferCommit(s)
<1>1. CASE WithdrawalStep
  <2>1. PICK s \in Requests :
          \/ \E u \in Users, k \in Keys, b \in WithdrawalBodies :
               WithdrawSubmit(s, u, k, b)
          \/ WithdrawQuote(s) \/ WithdrawCommit(s)
          \/ ApproveWithdrawal(s) \/ RejectWithdrawal(s) \/ ProcessWithdrawal(s)
          \/ CompleteWithdrawal(s) \/ FailWithdrawal(s)
    BY <1>1 DEF WithdrawalStep
  <2>2. \A x \in Requests \ {s} : txn'[x] = txn[x]
    BY <2>1 DEF WithdrawSubmit, Submit, WithdrawQuote, WithdrawCommit,
       ApproveWithdrawal, RejectWithdrawal, ProcessWithdrawal, storeVars,
       CompleteWithdrawal, FailWithdrawal, FailPending, FailAgain, FundsInv,
       FundsTypeOK, DepositTypeOK,
       StoreTypeOK
  <2>3. s = r
    BY <2>2
  <2>4. WithdrawCommit(r)
    <3>1. txn' # txn /\ ~PendingWithdrawal(r)
      BY DEF NoTxn, PendingWithdrawal
    <3>2. (\E u \in Users, k \in Keys, b \in WithdrawalBodies :
             WithdrawSubmit(s, u, k, b)) => UNCHANGED txn
      BY DEF WithdrawSubmit, Submit
    <3>3. WithdrawQuote(s) => UNCHANGED txn
      BY DEF WithdrawQuote
    <3>4. \/ ApproveWithdrawal(s) \/ RejectWithdrawal(s) \/ ProcessWithdrawal(s)
          \/ CompleteWithdrawal(s) \/ FailPending(s)
          => PendingWithdrawal(s)
      BY DEF ApproveWithdrawal, RejectWithdrawal, ProcessWithdrawal,
             CompleteWithdrawal, FailPending
    <3>5. FailAgain(s) => UNCHANGED txn
      BY DEF FailAgain
    <3> QED
      BY <2>1, <2>3, <3>1, <3>2, <3>3, <3>4, <3>5 DEF FailWithdrawal
  <2>5. txn'[r].type = "WITHDRAWAL"
    BY <2>4 DEF WithdrawCommit, FundsInv, FundsTypeOK, DepositTypeOK, StoreTypeOK
  <2> QED
    BY <2>5
<1>2. CASE TransferStep
  <2>1. PICK s \in Requests :
          \/ \E u \in Users, k \in Keys, b \in TransferBodies :
               TransferSubmit(s, u, k, b)
          \/ TransferQuote(s) \/ TransferCommit(s)
    BY <1>2 DEF TransferStep
  <2>2. (\E u \in Users, k \in Keys, b \in TransferBodies :
           TransferSubmit(s, u, k, b)) => UNCHANGED txn
    BY DEF TransferSubmit, Submit
  <2>3. TransferQuote(s) => UNCHANGED txn
    BY DEF TransferQuote
  <2> QED
    BY <2>1, <2>2, <2>3
<1>3. CASE DepositStep
  <2>1. PICK s \in Requests :
          \/ \E u \in Users, k \in Keys, b \in DepositBodies :
               DepositSubmit(s, u, k, b)
          \/ DepositQuote(s) \/ DepositCommit(s) \/ OpenCheckout(s)
          \/ MarkFailed(s) \/ SaveCheckout(s)
          \/ CustomerPays(s) \/ DelayedPaymentEnds(s) \/ SessionExpires(s)
          \/ Webhook(s)
    BY <1>3 DEF DepositStep
  <2>2. CASE DepositCommit(s)
    BY <2>2 DEF DepositCommit, FundsInv, FundsTypeOK, DepositTypeOK, StoreTypeOK
  <2>3. CASE Claimable(s) /\ Credit(s)
    <3>1. s \in Rows
      BY <2>3 DEF Claimable, FundsInv, AttemptsBelong
    <3>2. s # r
      BY <3>1 DEF Rows, NoTxn
    <3> QED
      BY <2>3, <3>2 DEF Credit
  <2>4. CASE txn' = txn
    BY <2>4
  <2> QED
    BY <2>1, <2>2, <2>3, <2>4
    DEF DepositSubmit, Submit, DepositQuote, OpenCheckout, MarkFailed,
        SaveCheckout, CustomerPays, DelayedPaymentEnds, SessionExpires, Webhook,
        StripePaid, StripeNotPaid, CoinPaymentsRead, CoinPaymentsSettle,
        DeliveryDies, storeVars
<1>4. CASE \/ \E s \in Requests : RequestAborts(s)
           \/ \E u \in Users : DeactivateCustomer(u)
  BY <1>4 DEF RequestAborts, DeactivateCustomer
<1>5. CASE UNCHANGED fundsVars
  BY <1>5 DEF fundsVars, storeVars
<1> QED
  BY <1>1, <1>2, <1>3, <1>4, <1>5 DEF FundsNext

\* Money moves only between two accounts of one customer, at least a cent from
\* the one and at least a cent to the other, and no third account notices.
THEOREM TransfersStay == FundsSpec => TransfersStayInTheFamily
<1>1. ASSUME FundsInv, RequestInv, [FundsNext]_fundsVars, NEW r \in Requests,
             txn[r] = NoTxn, txn'[r] # NoTxn, txn'[r].type = "TRANSFER"
      PROVE  /\ Owner[txn'[r].account] = Owner[txn'[r].destination]
             /\ balance'[txn'[r].account] < balance[txn'[r].account]
             /\ balance'[txn'[r].destination] > balance[txn'[r].destination]
             /\ \A a \in Accounts \ {txn'[r].account, txn'[r].destination} :
                  balance'[a] = balance[a]
  <2>1. PICK s \in Requests : TransferCommit(s)
    BY <1>1, OnlyTransfersTransfer
  <2>2. txn' # txn
    BY <1>1
  <2>3. s = r
    BY <1>1, <2>1, <2>2, TransferMoves
  <2> QED
    BY <1>1, <2>1, <2>2, <2>3, TransferMoves
<1>2. FundsInv /\ RequestInv /\ [FundsNext]_fundsVars =>
        [\A r \in Requests :
           txn[r] = NoTxn /\ txn'[r] # NoTxn /\ txn'[r].type = "TRANSFER" =>
             /\ Owner[txn'[r].account] = Owner[txn'[r].destination]
             /\ balance'[txn'[r].account] < balance[txn'[r].account]
             /\ balance'[txn'[r].destination] > balance[txn'[r].destination]
             /\ \A a \in Accounts \ {txn'[r].account, txn'[r].destination} :
                  balance'[a] = balance[a]]_storeVars
  BY <1>1
<1> QED
  BY <1>2, RequestInvariant, PTL DEF FundsSpec, TransfersStayInTheFamily

-----------------------------------------------------------------------------
(* What a key says stays said. *)

KeyOf(r) == <<req[r].user, req[r].key>>

\* The phases of a deposit between its first transaction and its last.
Undecided == {"recorded", "opened", "declined"}

\* The key of such a deposit is still in process, so the last transaction
\* overwrites no answer.
CheckoutsAreUndecided ==
  \A r \in Requests : req[r].phase \in Undecided => ClaimOf(r).status = "PROCESSING"

\* Request s does not begin a checkout, nor change its key in one.
GoesOn(s) ==
  req'[s].phase \in Undecided =>
    req[s].phase \in Undecided /\ KeyOf(s)' = KeyOf(s)

OthersGoOn(r) == \A s \in Requests \ {r} : GoesOn(s)

\* What a step does to keys: nothing; the claim of a free key by a request that
\* waited for its quote; the end of a checkout.
LeavesKeys ==
  /\ idem' = idem
  /\ \A s \in Requests : GoesOn(s)

TakesKey(r) ==
  /\ ClaimOf(r).status = "NONE"
  /\ \E claim \in IdemRows :
       /\ idem' = [idem EXCEPT ![KeyOf(r)] = claim]
       /\ req'[r].phase \in Undecided => claim.status = "PROCESSING"
  /\ KeyOf(r) \in Users \X Keys /\ KeyOf(r)' = KeyOf(r)
  /\ OthersGoOn(r)

SettlesKey(r) ==
  /\ req[r].phase \in Undecided
  /\ \E status \in {"COMPLETED", "FAILED"} :
       idem' = [idem EXCEPT ![KeyOf(r)].status = status]
  /\ req'[r].phase \notin Undecided
  /\ OthersGoOn(r)

KeysMove ==
  \/ LeavesKeys
  \/ \E r \in Requests : TakesKey(r) \/ SettlesKey(r)

\* One request moves.
LEMMA OneGoesOn ==
  ASSUME FundsInv, NEW r \in Requests, NEW call, req' = [req EXCEPT ![r] = call]
  PROVE  /\ OthersGoOn(r) /\ req'[r] = call
         /\ idem' = idem /\
            (call.phase \in Undecided =>
               /\ req[r].phase \in Undecided
               /\ call.user = req[r].user /\ call.key = req[r].key)
              => LeavesKeys
<1>1. req'[r] = call /\ \A s \in Requests \ {r} : req'[s] = req[s]
  BY DEF FundsInv, FundsTypeOK, DepositTypeOK, StoreTypeOK
<1>2. OthersGoOn(r)
  BY <1>1 DEF OthersGoOn, GoesOn, KeyOf
<1>3. ASSUME idem' = idem,
             call.phase \in Undecided =>
               /\ req[r].phase \in Undecided
               /\ call.user = req[r].user /\ call.key = req[r].key
      PROVE  LeavesKeys
  BY <1>1, <1>3 DEF LeavesKeys, GoesOn, KeyOf
<1> QED
  BY <1>1, <1>2, <1>3

\* One request changes its phase.
LEMMA PhaseGoesOn ==
  ASSUME FundsInv, NEW r \in Requests, req[r].phase # "idle", NEW phase, NEW t,
         Answer(r, phase, t) \/ Goto(r, phase)
  PROVE  /\ OthersGoOn(r) /\ KeyOf(r)' = KeyOf(r) /\ req'[r].phase = phase
         /\ idem' = idem /\ (phase \in Undecided => req[r].phase \in Undecided)
              => LeavesKeys
<1>1. req[r] \in Calls /\ req \in [Requests -> Calls \cup {Idle}]
  BY ActiveCall DEF FundsInv, FundsTypeOK, DepositTypeOK, StoreTypeOK
<1>2. PICK call : /\ req' = [req EXCEPT ![r] = call] /\ call.phase = phase
                  /\ call.user = req[r].user /\ call.key = req[r].key
  <2>1. CASE Answer(r, phase, t)
    <3> DEFINE call == [req[r] EXCEPT !.phase = phase, !.result = t]
    <3>1. /\ call.phase = phase
          /\ call.user = req[r].user /\ call.key = req[r].key
      BY <1>1 DEF Calls
    <3>2. req' = [req EXCEPT ![r] = call]
      BY <1>1, <2>1 DEF Answer, Calls
    <3> QED
      BY <3>1, <3>2
  <2>2. CASE Goto(r, phase)
    <3> DEFINE call == [req[r] EXCEPT !.phase = phase]
    <3>1. /\ call.phase = phase
          /\ call.user = req[r].user /\ call.key = req[r].key
      BY <1>1 DEF Calls
    <3>2. req' = [req EXCEPT ![r] = call]
      BY <2>2 DEF Goto
    <3> QED
      BY <3>1, <3>2
  <2> QED
    BY <2>1, <2>2
<1> QED
  BY <1>2, OneGoesOn DEF KeyOf

\* No request moves.
LEMMA NobodyGoesOn == ASSUME req' = req, idem' = idem PROVE KeysMove
BY DEF KeysMove, LeavesKeys, GoesOn, KeyOf

\* A request begins.
LEMMA SubmitKeys ==
  ASSUME FundsInv, NEW r \in Requests, NEW u \in Users, NEW k \in Keys,
         NEW b \in Bodies, Submit(r, u, k, b) \/ TransferSubmit(r, u, k, b)
  PROVE  KeysMove
<1> DEFINE Call(phase, t) ==
             [phase |-> phase, user |-> u, key |-> k, body |-> b,
              rate |-> Par, usd |-> 0, result |-> t]
<1>1. /\ idem' = idem
      /\ \E phase, t :
           /\ phase \in {"checked", "replayed", "failed"}
           /\ req' = [req EXCEPT ![r] = Call(phase, t)]
  BY DEF Submit, TransferSubmit
<1>2. PICK phase, t :
        /\ phase \in {"checked", "replayed", "failed"}
        /\ req' = [req EXCEPT ![r] = Call(phase, t)]
  BY <1>1
<1>3. Call(phase, t).phase \notin Undecided
  BY <1>2 DEF Undecided
<1> HIDE DEF Call
<1>4. LeavesKeys
  BY <1>1, <1>2, <1>3, OneGoesOn
<1> QED
  BY <1>4 DEF KeysMove

\* A request is quoted.
LEMMA QuoteKeys ==
  ASSUME FundsInv, NEW r \in Requests,
         WithdrawQuote(r) \/ TransferQuote(r) \/ DepositQuote(r)
  PROVE  KeysMove
<1>1. /\ req[r].phase # "idle" /\ idem' = idem
  BY DEF WithdrawQuote, TransferQuote, DepositQuote
<1>2. req[r] \in Calls /\ req \in [Requests -> Calls \cup {Idle}]
  BY <1>1, ActiveCall DEF FundsInv, FundsTypeOK, DepositTypeOK, StoreTypeOK
<1>3. CASE Answer(r, "failed", Null)
  BY <1>1, <1>3, PhaseGoesOn DEF Undecided, KeysMove
<1>4. CASE ~Answer(r, "failed", Null)
  <2>1. /\ req'[r].phase \in {"quoted", "failed"}
        /\ \A s \in Requests \ {r} : req'[s] = req[s]
    <3>1. CASE WithdrawQuote(r)
      <4>1. \E rate, usd : req' = [req EXCEPT ![r].phase = "quoted",
                                             ![r].rate = rate, ![r].usd = usd]
        BY <1>4, <3>1 DEF WithdrawQuote
      <4> QED
        BY <1>2, <4>1 DEF Calls
    <3>2. CASE TransferQuote(r)
      <4> DEFINE amount == Cents(req[r].body.amount)
      <4>1. \E rate : req' = [req EXCEPT
              ![r].phase = IF Convert(amount, rate) > 0 THEN "quoted" ELSE "failed",
              ![r].rate = rate]
        BY <1>4, <3>2 DEF TransferQuote
      <4> HIDE DEF amount
      <4> QED
        BY <1>2, <4>1 DEF Calls
    <3>3. CASE DepositQuote(r)
      <4> DEFINE amount == Cents(req[r].body.amount)
      <4>1. \E rate : req' = [req EXCEPT
              ![r].phase = IF Convert(amount, rate) > 0 THEN "quoted" ELSE "failed",
              ![r].rate = rate]
        BY <1>4, <3>3 DEF DepositQuote
      <4> HIDE DEF amount
      <4> QED
        BY <1>2, <4>1 DEF Calls
    <3> QED
      BY <3>1, <3>2, <3>3
  <2>2. \A s \in Requests : GoesOn(s)
    BY <2>1 DEF GoesOn, Undecided, KeyOf
  <2> QED
    BY <1>1, <2>2 DEF LeavesKeys, KeysMove
<1> QED
  BY <1>3, <1>4

\* A request answers and leaves the keys.
LEMMA AnswerKeys ==
  ASSUME FundsInv, NEW r \in Requests, req[r].phase # "idle",
         NEW phase \in Answered, NEW t, Answer(r, phase, t), idem' = idem
  PROVE  KeysMove
<1>1. phase \notin Undecided
  BY DEF Answered, Undecided
<1> QED
  BY <1>1, PhaseGoesOn DEF KeysMove

\* A request takes a free key.
LEMMA ClaimKeys ==
  ASSUME FundsInv, NEW r \in Requests, req[r].phase # "idle",
         ClaimOf(r).status = "NONE", NEW status \in {"PROCESSING", "COMPLETED"},
         idem' = [idem EXCEPT ![<<req[r].user, req[r].key>>] =
                    [status |-> status, hash |-> req[r].body, txn |-> r]],
         NEW phase, NEW t, Answer(r, phase, t) \/ Goto(r, phase),
         phase \in Undecided => status = "PROCESSING"
  PROVE  KeysMove
<1> DEFINE claim == [status |-> status, hash |-> req[r].body, txn |-> r]
<1>1. claim \in IdemRows /\ claim.status = status
  BY ActiveCall DEF IdemRows
<1>2. KeyOf(r) \in Users \X Keys /\ idem' = [idem EXCEPT ![KeyOf(r)] = claim]
  BY ActiveCall DEF KeyOf
<1> HIDE DEF claim
<1>3. /\ OthersGoOn(r) /\ KeyOf(r)' = KeyOf(r) /\ req'[r].phase = phase
  BY PhaseGoesOn
<1>4. TakesKey(r)
  BY <1>1, <1>2, <1>3 DEF TakesKey
<1> QED
  BY <1>4 DEF KeysMove

\* The transaction of a withdrawal.
LEMMA WithdrawKeys ==
  ASSUME FundsInv, NEW r \in Requests, WithdrawCommit(r) PROVE KeysMove
<1> DEFINE claim == Upserted(r)
           accepted == /\ claim.hash = req[r].body
                       /\ ~(claim.status = "COMPLETED" /\ claim.txn # Null)
                       /\ Available(req[r].body.account)
                            >= Cents(req[r].body.amount)
<1>1. req[r].phase # "idle" /\ req[r].body.operation = "WITHDRAWAL"
  BY DEF WithdrawCommit
<1>2. CASE accepted
  <2>1. /\ ClaimOf(r).status = "NONE"
        /\ claim = [status |-> "PROCESSING", hash |-> req[r].body, txn |-> Null]
    BY <1>1, <1>2, FoundClaim
  <2>2. idem' = [idem EXCEPT ![<<req[r].user, req[r].key>>] =
                   [status |-> "COMPLETED", hash |-> req[r].body, txn |-> r]]
    BY <1>2, <2>1 DEF WithdrawCommit
  <2>3. Answer(r, "created", r) \/ Answer(r, "failed", Null)
    BY <1>2 DEF WithdrawCommit
  <2> QED
    BY <1>1, <2>1, <2>2, <2>3, ClaimKeys DEF Undecided
<1>3. CASE ~accepted
  <2>1. Answer(r, "failed", Null) /\ idem' = idem /\ "failed" \in Answered
    BY <1>3 DEF WithdrawCommit, Answered
  <2> QED
    BY <1>1, <2>1, AnswerKeys
<1> QED
  BY <1>2, <1>3

\* The transaction of a transfer.
LEMMA TransferKeys ==
  ASSUME FundsInv, NEW r \in Requests, TransferCommit(r) PROVE KeysMove
<1> DEFINE claim == Upserted(r)
           mine == claim.hash = req[r].body
           done == claim.status = "COMPLETED" /\ claim.txn # Null
<1>1. req[r].phase # "idle" /\ req[r].body.operation = "TRANSFER"
  BY DEF TransferCommit
<1>2. CASE idem' = idem
  <2>1. \E phase \in Answered : \E t : Answer(r, phase, t)
    BY DEF TransferCommit, Answered
  <2> QED
    BY <1>1, <1>2, <2>1, AnswerKeys
<1>3. CASE idem' # idem
  <2>1. mine /\ ~done
    BY <1>3 DEF TransferCommit
  <2>2. /\ ClaimOf(r).status = "NONE"
        /\ claim = [status |-> "PROCESSING", hash |-> req[r].body, txn |-> Null]
    BY <1>1, <2>1, FoundClaim
  <2>3. idem' = [idem EXCEPT ![<<req[r].user, req[r].key>>] =
                   [status |-> "COMPLETED", hash |-> req[r].body, txn |-> r]]
    BY <1>3, <2>2 DEF TransferCommit
  <2>4. Answer(r, "created", r) \/ Answer(r, "failed", Null)
    BY <1>3 DEF TransferCommit
  <2> QED
    BY <1>1, <2>2, <2>3, <2>4, ClaimKeys DEF Undecided
<1> QED
  BY <1>2, <1>3

\* The first transaction of a deposit.
LEMMA DepositKeys ==
  ASSUME FundsInv, NEW r \in Requests, DepositCommit(r) PROVE KeysMove
<1> DEFINE claim == Upserted(r)
           accepted == /\ claim.hash = req[r].body
                       /\ claim.status # "COMPLETED"
                       /\ claim.txn = Null
<1>1. req[r].phase # "idle"
  BY DEF DepositCommit
<1>2. CASE accepted
  <2>1. /\ ClaimOf(r).status = "NONE"
        /\ claim = [status |-> "PROCESSING", hash |-> req[r].body, txn |-> Null]
    BY <1>1, <1>2, FoundClaim
  <2>2. idem' = [idem EXCEPT ![<<req[r].user, req[r].key>>] =
                   [status |-> "PROCESSING", hash |-> req[r].body, txn |-> r]]
    BY <1>2, <2>1 DEF DepositCommit
  <2>3. Goto(r, "recorded")
    BY <1>2 DEF DepositCommit
  <2> QED
    BY <1>1, <2>1, <2>2, <2>3, ClaimKeys
<1>3. CASE ~accepted
  <2>1. Answer(r, "failed", Null) /\ idem' = idem /\ "failed" \in Answered
    BY <1>3 DEF DepositCommit, Answered
  <2> QED
    BY <1>1, <2>1, AnswerKeys
<1> QED
  BY <1>2, <1>3

\* The rest of a deposit's request.
LEMMA CheckoutKeys ==
  ASSUME FundsInv, NEW r \in Requests,
         OpenCheckout(r) \/ MarkFailed(r) \/ SaveCheckout(r)
  PROVE  KeysMove
<1>1. req[r].phase # "idle" /\ req[r].phase \in Undecided
  BY DEF OpenCheckout, MarkFailed, SaveCheckout, Undecided
<1>2. CASE OpenCheckout(r)
  <2>1. idem' = idem /\ (Goto(r, "opened") \/ Goto(r, "declined"))
    BY <1>2 DEF OpenCheckout
  <2> QED
    BY <1>1, <2>1, PhaseGoesOn DEF KeysMove
<1>3. CASE MarkFailed(r) \/ SaveCheckout(r)
  <2>1. PICK phase, t : phase \in {"created", "failed"} /\ Answer(r, phase, t)
    BY <1>3 DEF MarkFailed, SaveCheckout
  <2>2. phase \notin Undecided
    BY <2>1 DEF Undecided
  <2>3. OthersGoOn(r) /\ req'[r].phase = phase
    BY <1>1, <2>1, PhaseGoesOn
  <2>4. \E status \in {"COMPLETED", "FAILED"} :
          idem' = [idem EXCEPT ![KeyOf(r)].status = status]
    BY <1>3 DEF MarkFailed, SaveCheckout, KeyOf
  <2>5. SettlesKey(r)
    BY <1>1, <2>2, <2>3, <2>4 DEF SettlesKey
  <2> QED
    BY <2>5 DEF KeysMove
<1> QED
  BY <1>1, <1>2, <1>3

\* Every step.
LEMMA KeysGoOn == ASSUME FundsInv, [FundsNext]_fundsVars PROVE KeysMove
<1>1. CASE UNCHANGED fundsVars
  BY <1>1, NobodyGoesOn DEF fundsVars, storeVars
<1>2. ASSUME NEW r \in Requests, RequestAborts(r) PROVE KeysMove
  <2>1. /\ Answer(r, "failed", Null) /\ idem' = idem /\ "failed" \in Answered
        /\ req[r].phase # "idle"
    BY <1>2 DEF RequestAborts, Answered, InFlight
  <2> QED
    BY <2>1, AnswerKeys
<1>3. ASSUME NEW u \in Users, DeactivateCustomer(u) PROVE KeysMove
  BY <1>3, NobodyGoesOn DEF DeactivateCustomer
<1>4. ASSUME NEW r \in Requests,
             \/ ApproveWithdrawal(r) \/ RejectWithdrawal(r) \/ ProcessWithdrawal(r)
             \/ CompleteWithdrawal(r) \/ FailWithdrawal(r)
      PROVE  KeysMove
  BY <1>4, NobodyGoesOn DEF ApproveWithdrawal, RejectWithdrawal,
     ProcessWithdrawal, CompleteWithdrawal, FailWithdrawal, FailPending, FailAgain
<1>5. ASSUME NEW r \in Requests,
             \/ CustomerPays(r) \/ DelayedPaymentEnds(r) \/ SessionExpires(r)
             \/ Webhook(r)
      PROVE  KeysMove
  BY <1>5, NobodyGoesOn DEF CustomerPays, DelayedPaymentEnds, SessionExpires,
     Webhook, StripePaid, StripeNotPaid, CoinPaymentsRead, CoinPaymentsSettle,
     DeliveryDies, storeVars
<1>6. CASE WithdrawalStep
  BY <1>4, <1>6, SubmitKeys, QuoteKeys, WithdrawKeys
  DEF WithdrawalStep, WithdrawSubmit, Bodies
<1>7. CASE TransferStep
  BY <1>7, SubmitKeys, QuoteKeys, TransferKeys
  DEF TransferStep, Bodies
<1>8. CASE DepositStep
  BY <1>5, <1>8, SubmitKeys, QuoteKeys, DepositKeys, CheckoutKeys
  DEF DepositStep, DepositSubmit, Bodies
<1> QED
  BY <1>1, <1>2, <1>3, <1>6, <1>7, <1>8 DEF FundsNext

\* Requests that share a key and a row under it are one.
LEMMA CheckoutOfKey ==
  ASSUME FundsInv, NEW r \in Requests, NEW s \in Requests,
         req[r].phase \in Undecided, req[s].phase \in Undecided, KeyOf(r) = KeyOf(s)
  PROVE  r = s
<1>1. r \in Rows /\ s \in Rows
  BY DEF FundsInv, CheckoutsAreRecorded, Undecided
<1>2. ClaimOf(r) = ClaimOf(s)
  BY DEF ClaimOf, KeyOf
<1> QED
  BY <1>1, <1>2 DEF FundsInv, RowsAreClaimed

\* Keys under way stay so until their checkout ends, and answers stay.
LEMMA KeysStay ==
  ASSUME FundsInv, CheckoutsAreUndecided, KeysMove
  PROVE  /\ CheckoutsAreUndecided'
         /\ \A uk \in Users \X Keys :
              idem[uk].status # "NONE" =>
                /\ idem'[uk].hash = idem[uk].hash
                /\ idem'[uk].txn = idem[uk].txn
                /\ idem[uk].status # "PROCESSING" => idem'[uk] = idem[uk]
<1>0. \A s \in Requests : ClaimOf(s) = idem[KeyOf(s)] /\ ClaimOf(s)' = idem'[KeyOf(s)']
  BY DEF ClaimOf, KeyOf
<1>1. idem \in [Users \X Keys -> IdemRows \cup {NoClaim}]
  BY DEF FundsInv, FundsTypeOK, DepositTypeOK, StoreTypeOK
<1>2. ASSUME NEW s \in Requests, req[s].phase \in Undecided
      PROVE  KeyOf(s) \in Users \X Keys /\ idem[KeyOf(s)].status = "PROCESSING"
  BY <1>0, <1>2, ActiveCall DEF CheckoutsAreUndecided, KeyOf, Undecided
<1>3. ASSUME LeavesKeys PROVE CheckoutsAreUndecided'
  <2>1. ASSUME NEW s \in Requests, req'[s].phase \in Undecided
        PROVE  idem'[KeyOf(s)'].status = "PROCESSING"
    <3>1. /\ idem' = idem /\ req[s].phase \in Undecided
          /\ KeyOf(s)' = KeyOf(s)
      BY <1>3, <2>1 DEF LeavesKeys, GoesOn
    <3> QED
      BY <1>2, <3>1
  <2> QED
    BY <1>0, <2>1 DEF CheckoutsAreUndecided
<1>4. ASSUME NEW r \in Requests, TakesKey(r)
      PROVE  /\ CheckoutsAreUndecided'
             /\ \A uk \in Users \X Keys : idem[uk].status # "NONE" => idem'[uk] = idem[uk]
  <2>1. PICK claim \in IdemRows :
          /\ idem' = [idem EXCEPT ![KeyOf(r)] = claim]
          /\ req'[r].phase \in Undecided => claim.status = "PROCESSING"
    BY <1>4 DEF TakesKey
  <2>2. /\ idem[KeyOf(r)].status = "NONE" /\ KeyOf(r)' = KeyOf(r)
        /\ KeyOf(r) \in Users \X Keys /\ OthersGoOn(r)
    BY <1>0, <1>4 DEF TakesKey
  <2>3. \A uk \in Users \X Keys : uk # KeyOf(r) => idem'[uk] = idem[uk]
    BY <1>1, <2>1
  <2>4. ASSUME NEW s \in Requests, req'[s].phase \in Undecided, s # r
        PROVE  idem'[KeyOf(s)'].status = "PROCESSING"
    <3>1. req[s].phase \in Undecided /\ KeyOf(s)' = KeyOf(s)
      BY <2>2, <2>4 DEF OthersGoOn, GoesOn
    <3> QED
      BY <1>2, <2>2, <2>3, <3>1
  <2>5. ASSUME req'[r].phase \in Undecided
        PROVE  idem'[KeyOf(r)'].status = "PROCESSING"
    BY <1>1, <2>1, <2>2, <2>5
  <2>6. CheckoutsAreUndecided'
    BY <1>0, <2>4, <2>5 DEF CheckoutsAreUndecided
  <2> QED
    BY <2>2, <2>3, <2>6
<1>5. ASSUME NEW r \in Requests, SettlesKey(r)
      PROVE  /\ CheckoutsAreUndecided'
             /\ \A uk \in Users \X Keys :
                  /\ uk # KeyOf(r) => idem'[uk] = idem[uk]
                  /\ uk = KeyOf(r) => /\ idem[uk].status = "PROCESSING"
                                      /\ idem'[uk].hash = idem[uk].hash
                                      /\ idem'[uk].txn = idem[uk].txn
  <2>1. PICK status : idem' = [idem EXCEPT ![KeyOf(r)].status = status]
    BY <1>5 DEF SettlesKey
  <2>2. /\ req[r].phase \in Undecided /\ req'[r].phase \notin Undecided
        /\ OthersGoOn(r)
    BY <1>5 DEF SettlesKey
  <2>3. \A uk \in Users \X Keys : uk # KeyOf(r) => idem'[uk] = idem[uk]
    BY <1>1, <2>1
  <2>4. ASSUME NEW s \in Requests, req'[s].phase \in Undecided
        PROVE  idem'[KeyOf(s)'].status = "PROCESSING"
    <3>1. s # r /\ req[s].phase \in Undecided /\ KeyOf(s)' = KeyOf(s)
      BY <2>2, <2>4 DEF OthersGoOn, GoesOn
    <3>2. KeyOf(s) # KeyOf(r)
      BY <2>2, <3>1, CheckoutOfKey
    <3> QED
      BY <1>2, <2>3, <3>1, <3>2
  <2>5. CheckoutsAreUndecided'
    BY <1>0, <2>4 DEF CheckoutsAreUndecided
  <2>6. /\ idem[KeyOf(r)].status = "PROCESSING" /\ KeyOf(r) \in Users \X Keys
        /\ idem[KeyOf(r)] \in IdemRows
    BY <1>1, <1>2, <2>2 DEF NoClaim
  <2>7. /\ idem'[KeyOf(r)].hash = idem[KeyOf(r)].hash
        /\ idem'[KeyOf(r)].txn = idem[KeyOf(r)].txn
    BY <1>1, <2>1, <2>6 DEF IdemRows
  <2> QED
    BY <2>3, <2>5, <2>6, <2>7
<1>6. ASSUME LeavesKeys PROVE idem' = idem
  BY <1>6 DEF LeavesKeys
<1> QED
  BY <1>3, <1>4, <1>5, <1>6 DEF KeysMove

\* A claim keeps its body and its transaction, and its answer once it has one,
\* whichever requests of the key commit, fail, die or come late.
THEOREM KeysKept == FundsSpec => KeysKeepTheirAnswer
<1>1. FundsInit => CheckoutsAreUndecided
  BY DEF FundsInit, DepositInit, StoreInit, CheckoutsAreUndecided, Undecided, Idle
<1>2. FundsInv /\ CheckoutsAreUndecided /\ [FundsNext]_fundsVars
        => CheckoutsAreUndecided'
  BY KeysGoOn, KeysStay
<1>3. FundsInv /\ CheckoutsAreUndecided /\ [FundsNext]_fundsVars =>
        [\A uk \in Users \X Keys :
           idem[uk].status # "NONE" =>
             /\ idem'[uk].hash = idem[uk].hash
             /\ idem'[uk].txn = idem[uk].txn
             /\ idem[uk].status # "PROCESSING" => idem'[uk] = idem[uk]]_storeVars
  BY KeysGoOn, KeysStay
<1> QED
  BY <1>1, <1>2, <1>3, Invariant, PTL DEF FundsSpec, KeysKeepTheirAnswer
=============================================================================
