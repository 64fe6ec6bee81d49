---------------------------- MODULE FundsProofs ----------------------------
(* Proofs about the funds component, for every value of the constants. *)
EXTENDS Funds, SequenceTheorems, TLAPS

-----------------------------------------------------------------------------
(* Money. *)

\* Rounding an amount gives a number of cents.
LEMMA CentsNat == ASSUME NEW m \in Nat PROVE Cents(m) \in Nat
BY DEF Cents

\* Converting a number of cents at any rate gives a number of cents.
LEMMA ConvertNat ==
  ASSUME NEW c \in Nat, NEW q \in ExchangeRates
  PROVE  Convert(c, q) \in Nat
<1> DEFINE n == 2 * c * q.num + q.den
           d == 2 * q.den
<1>1. q.num \in Nat /\ q.den \in Nat /\ q.den > 0
  BY DEF ExchangeRates
<1>2. c * q.num \in Nat
  BY <1>1
<1>3. 2 * c * q.num \in Nat
  BY <1>1, <1>2
<1>4. n \in Nat /\ d \in Nat /\ d > 0
  BY <1>1, <1>3
<1> HIDE DEF n, d
<1>5. n \div d \in Nat
  BY <1>4
<1> QED
  BY <1>5 DEF Convert, n, d

\* Whatever the provider quotes is a rate.
LEMMA QuotesAreRates ==
  ASSUME NEW from, NEW to PROVE Quotes(from, to) \subseteq ExchangeRates
BY StoreAssumption DEF Quotes, Par, ExchangeRates, StoreAssumption

\* One for one is a rate.
LEMMA ParIsRate == Par \in ExchangeRates
BY DEF Par, ExchangeRates

-----------------------------------------------------------------------------
\* Before the first request there is nothing to contradict.
LEMMA InitInv == FundsInit => FundsInv
<1> SUFFICES ASSUME FundsInit PROVE FundsInv
  OBVIOUS
<1> USE DEF FundsInit, DepositInit, StoreInit
<1>1. FundsTypeOK
  BY StoreAssumption, DeliveriesAssumption
  DEF FundsTypeOK, DepositTypeOK, StoreTypeOK, PayoutsTypeOK, StoreAssumption,
      DeliveriesAssumption, Sessions
<1>2. Rows = {}
  BY DEF Rows, NoTxn
<1>3. RowsAreClaimed
  BY <1>2 DEF RowsAreClaimed
<1>4. ClaimsAreUsed
  BY DEF ClaimsAreUsed, NoClaim
<1>5. CheckoutsAreRecorded
  BY DEF CheckoutsAreRecorded, Idle
<1>6. AttemptsBelong
  BY <1>2 DEF AttemptsBelong, NoAttempt
<1> QED
  BY <1>1, <1>3, <1>4, <1>5, <1>6 DEF FundsInv

-----------------------------------------------------------------------------
(* Every action preserves the invariant. *)

\* A step that only moves requests between phases, none of them into the
\* phases of an open checkout and none that has a row back to idle.
LEMMA RequestStep ==
  ASSUME FundsInv, NEW r \in Requests, NEW call \in Calls,
         req' = [req EXCEPT ![r] = call],
         call.phase \notin {"recorded", "opened", "declined"},
         r \in Rows => /\ call.user = req[r].user
                       /\ call.key = req[r].key
                       /\ call.body = req[r].body,
         customerActive' \in [Users -> BOOLEAN],
         notices' \subseteq notices \cup (Events \X Requests),
         UNCHANGED <<balance, reserved, idem, txn, payouts, pspVars>>
  PROVE  FundsInv'
<1> USE DEF FundsInv, pspVars
<1>1. FundsTypeOK'
  BY DEF FundsTypeOK, DepositTypeOK, StoreTypeOK, PayoutsTypeOK
<1>2. Rows' = Rows
  BY DEF Rows
<1>3. req'[r] = call /\ \A s \in Requests \ {r} : req'[s] = req[s]
  BY DEF FundsTypeOK, DepositTypeOK, StoreTypeOK
<1>4. call.phase # "idle"
  BY DEF Calls, InFlight, Answered
<1>5. RowsAreClaimed'
  BY <1>2, <1>3, <1>4 DEF RowsAreClaimed, ClaimOf, Rows
<1>6. ClaimsAreUsed'
  BY <1>2, <1>3 DEF ClaimsAreUsed, Rows
<1>7. CheckoutsAreRecorded'
  BY <1>2, <1>3 DEF CheckoutsAreRecorded
<1>8. AttemptsBelong'
  BY <1>2 DEF AttemptsBelong
<1> QED
  BY <1>1, <1>5, <1>6, <1>7, <1>8

\* A request that is under way has its local variables.
LEMMA ActiveCall ==
  ASSUME FundsInv, NEW r \in Requests, req[r].phase # "idle"
  PROVE  /\ req[r] \in Calls
         /\ req[r].user \in Users /\ req[r].key \in Keys
         /\ req[r].body \in Bodies /\ req[r].rate \in ExchangeRates
         /\ req[r].body.account \in Accounts
         /\ req[r].body.amount \in Nat
         /\ Cents(req[r].body.amount) \in Nat
<1> USE DEF FundsInv
<1>1. req[r] \in Calls
  BY DEF FundsTypeOK, DepositTypeOK, StoreTypeOK, Idle
<1>2. /\ req[r].user \in Users /\ req[r].key \in Keys
      /\ req[r].body \in Bodies /\ req[r].rate \in ExchangeRates
  BY <1>1 DEF Calls
<1>3. req[r].body.account \in Accounts /\ req[r].body.amount \in Nat
  BY <1>2, StoreAssumption
  DEF Bodies, WithdrawalBodies, TransferBodies, DepositBodies, StoreAssumption
<1> QED
  BY <1>1, <1>2, <1>3, CentsNat

\* A request without a row that only changes its phase, quote and answer.
LEMMA PhaseStep ==
  ASSUME FundsInv, NEW r \in Requests, req[r].phase # "idle",
         NEW phase \in (InFlight \cup Answered) \ {"recorded", "opened", "declined"},
         NEW rate \in ExchangeRates, NEW usd \in Nat,
         NEW result \in Requests \cup {Null},
         req' = [req EXCEPT ![r] = [req[r] EXCEPT !.phase = phase, !.rate = rate,
                                          !.usd = usd, !.result = result]],
         notices' \subseteq notices \cup (Events \X Requests),
         UNCHANGED <<customerActive, balance, reserved, idem, txn, payouts, pspVars>>
  PROVE  FundsInv'
<1> DEFINE call == [req[r] EXCEPT !.phase = phase, !.rate = rate,
                                  !.usd = usd, !.result = result]
<1>1. req[r] \in Calls
  BY ActiveCall
<1>2. /\ call \in Calls /\ call.phase = phase
      /\ call.user = req[r].user /\ call.key = req[r].key
      /\ call.body = req[r].body
  BY <1>1 DEF Calls
<1>3. customerActive' \in [Users -> BOOLEAN]
  BY DEF FundsInv, FundsTypeOK, DepositTypeOK, StoreTypeOK
<1> HIDE DEF call
<1>4. req' = [req EXCEPT ![r] = call]
  BY DEF call
<1> QED
  BY <1>2, <1>3, <1>4, RequestStep

\* A request that is answered without a commit.
LEMMA AnswerStep ==
  ASSUME FundsInv, NEW r \in Requests, req[r].phase # "idle",
         NEW phase \in Answered, NEW result \in Requests \cup {Null},
         Answer(r, phase, result),
         notices' \subseteq notices \cup (Events \X Requests),
         UNCHANGED <<customerActive, balance, reserved, idem, txn, payouts, pspVars>>
  PROVE  FundsInv'
<1>1. req[r] \in Calls
  BY ActiveCall
<1>2. req \in [Requests -> Calls \cup {Idle}]
  BY DEF FundsInv, FundsTypeOK, DepositTypeOK, StoreTypeOK
<1>3. req' = [req EXCEPT ![r] = [req[r] EXCEPT !.phase = phase,
                !.rate = req[r].rate, !.usd = req[r].usd, !.result = result]]
  BY <1>1, <1>2 DEF Answer, Calls
<1>4. req[r].rate \in ExchangeRates /\ req[r].usd \in Nat
  BY <1>1 DEF Calls
<1>5. phase \in (InFlight \cup Answered) \ {"recorded", "opened", "declined"}
  BY DEF Answered
<1> QED
  BY <1>3, <1>4, <1>5, PhaseStep

\* A request that arrives, whatever its key is found to say.
LEMMA SubmitInv ==
  ASSUME FundsInv, NEW r \in Requests, NEW u \in Users, NEW k \in Keys,
         NEW b \in Bodies, Submit(r, u, k, b), UNCHANGED <<payouts, pspVars>>
  PROVE  FundsInv'
<1> DEFINE c == idem[<<u, k>>]
           Call(phase, t) ==
             [phase |-> phase, user |-> u, key |-> k, body |-> b,
              rate |-> Par, usd |-> 0, result |-> t]
<1>1. req[r].phase = "idle" /\ r \notin Rows
  BY DEF Submit, FundsInv, RowsAreClaimed
<1>2. PICK phase \in {"checked", "replayed", "failed"}, t \in {Null, c.txn} :
        /\ req' = [req EXCEPT ![r] = Call(phase, t)]
        /\ t = Null \/ (Replayable(c, u, b) /\ t = c.txn)
  BY Zenon DEF Submit
<1>3. t \in Requests \cup {Null}
  BY <1>2 DEF FundsInv, FundsTypeOK, DepositTypeOK, StoreTypeOK, IdemRows,
              NoClaim, Replayable
<1>4. Call(phase, t) \in Calls
  BY <1>3, ParIsRate DEF Calls, InFlight, Answered
<1>5. customerActive' \in [Users -> BOOLEAN]
  BY DEF Submit, FundsInv, FundsTypeOK, DepositTypeOK, StoreTypeOK
<1>6. Call(phase, t).phase \notin {"recorded", "opened", "declined"}
  BY <1>2
<1> DEFINE call == Call(phase, t)
<1>7. req' = [req EXCEPT ![r] = call]
  BY <1>2
<1>8. call \in Calls /\ call.phase \notin {"recorded", "opened", "declined"}
  BY <1>4, <1>6
<1> HIDE DEF call
<1> QED
  BY <1>1, <1>5, <1>7, <1>8, RequestStep DEF Submit

\* A handler that stops between two of its transactions.
LEMMA AbortsInv ==
  ASSUME FundsInv, NEW r \in Requests, RequestAborts(r),
         UNCHANGED <<payouts, pspVars>>
  PROVE  FundsInv'
<1>1. req[r].phase # "idle"
  BY DEF RequestAborts, InFlight
<1>2. Answer(r, "failed", Null) /\ "failed" \in Answered
  BY DEF RequestAborts, Answered
<1> QED
  BY <1>1, <1>2, AnswerStep DEF RequestAborts

\* A deleted customer keeps rows and keys.
LEMMA DeactivateInv ==
  ASSUME FundsInv, NEW u \in Users, DeactivateCustomer(u),
         UNCHANGED <<payouts, pspVars>>
  PROVE  FundsInv'
BY DEF DeactivateCustomer, FundsInv, FundsTypeOK, DepositTypeOK, StoreTypeOK,
       PayoutsTypeOK, RowsAreClaimed, ClaimOf, ClaimsAreUsed, Rows,
       CheckoutsAreRecorded, AttemptsBelong, pspVars

\* The rows are typed, by their status.
LEMMA RowTypes ==
  ASSUME FundsInv, NEW r \in Rows
  PROVE  /\ r \in Requests /\ txn[r] \in TxnRows
         /\ req[r] \in Calls
         /\ ClaimOf(r) \in IdemRows
BY ActiveCall DEF FundsInv, FundsTypeOK, DepositTypeOK, StoreTypeOK, Rows, NoTxn,
   RowsAreClaimed, ClaimOf, NoClaim, Calls

\* A new row under a key that was not claimed.
LEMMA CreateStep ==
  ASSUME FundsInv, NEW r \in Requests, req[r].phase = "quoted",
         ClaimOf(r).status = "NONE",
         NEW row \in TxnRows, NEW status \in {"PROCESSING", "COMPLETED"},
         NEW call \in Calls,
         row.customer = req[r].user, row.type = req[r].body.operation,
         call.user = req[r].user, call.key = req[r].key, call.body = req[r].body,
         call.phase \notin {"opened", "declined"},
         call.phase = "recorded" => row.type = "DEPOSIT",
         status = "PROCESSING" => row.type = "DEPOSIT",
         txn' = [txn EXCEPT ![r] = row],
         idem' = [idem EXCEPT ![<<req[r].user, req[r].key>>] =
                    [status |-> status, hash |-> req[r].body, txn |-> r]],
         req' = [req EXCEPT ![r] = call],
         row.type = "DEPOSIT" =>
           attempt' = [attempt EXCEPT ![r] =
                         [status |-> "PENDING", referenced |-> FALSE]],
         row.type # "DEPOSIT" => attempt' = attempt,
         balance' \in [Accounts -> Int], reserved' \in [Accounts -> Int],
         notices' \in SUBSET (Events \X Requests),
         UNCHANGED <<customerActive, payouts, psp, settling, acked>>
  PROVE  FundsInv'
<1> USE DEF FundsInv
<1> DEFINE uk == <<req[r].user, req[r].key>>
           claim == [status |-> status, hash |-> req[r].body, txn |-> r]
<1>1. /\ uk \in Users \X Keys
      /\ req[r].body \in Bodies
  BY ActiveCall
<1>2. r \notin Rows
  BY DEF RowsAreClaimed, Rows
<1>3. claim \in IdemRows
  BY <1>1 DEF IdemRows
<1>4. /\ txn'[r] = row /\ row.status # "NONE"
      /\ req'[r] = call
      /\ idem'[uk] = claim
      /\ \A s \in Requests \ {r} : txn'[s] = txn[s] /\ req'[s] = req[s]
      /\ \A x \in (Users \X Keys) \ {uk} : idem'[x] = idem[x]
  BY <1>1 DEF FundsTypeOK, DepositTypeOK, StoreTypeOK, TxnRows, Open, Settled
<1>5. Rows' = Rows \cup {r}
  BY <1>4 DEF Rows
<1>6. FundsTypeOK'
  <2>1. StoreTypeOK'
    BY <1>3 DEF FundsTypeOK, DepositTypeOK, StoreTypeOK
  <2>2. attempt' \in [Requests -> Attempts \cup {NoAttempt}]
    <3>1. attempt \in [Requests -> Attempts \cup {NoAttempt}]
      BY DEF FundsTypeOK, DepositTypeOK
    <3>2. [status |-> "PENDING", referenced |-> FALSE] \in Attempts
      BY DEF Attempts
    <3>3. CASE row.type = "DEPOSIT"
      <4>1. attempt' = [attempt EXCEPT ![r] =
                          [status |-> "PENDING", referenced |-> FALSE]]
        BY <3>3
      <4> QED
        BY <4>1, <3>1, <3>2
    <3>4. CASE row.type # "DEPOSIT"
      BY <3>1, <3>4
    <3> QED
      BY <3>3, <3>4
  <2> QED
    BY <2>1, <2>2 DEF FundsTypeOK, DepositTypeOK, PayoutsTypeOK
<1>7. call.phase # "idle"
  BY DEF Calls, InFlight, Answered
<1>8. RowsAreClaimed'
  <2> SUFFICES ASSUME NEW s \in Rows'
               PROVE  /\ req'[s].phase # "idle"
                      /\ ClaimOf(s)'.status # "NONE"
                      /\ ClaimOf(s)'.txn = s
                      /\ ClaimOf(s)'.hash = req'[s].body
                      /\ txn'[s].customer = req'[s].user
                      /\ txn'[s].type = req'[s].body.operation
    BY DEF RowsAreClaimed
  <2>1. CASE s = r
    BY <2>1, <1>4, <1>7 DEF ClaimOf
  <2>2. CASE s # r
    <3>1. s \in Rows /\ req'[s] = req[s] /\ txn'[s] = txn[s]
      BY <2>2, <1>4, <1>5 DEF Rows
    <3>2. ClaimOf(s).txn = s /\ ClaimOf(s).status # "NONE"
      BY <3>1 DEF RowsAreClaimed
    <3>3. <<req[s].user, req[s].key>> # uk
      BY <3>2 DEF ClaimOf
    <3>4. <<req[s].user, req[s].key>> \in Users \X Keys
      BY <3>1, RowTypes DEF Calls
    <3>5. ClaimOf(s)' = ClaimOf(s)
      BY <3>1, <3>3, <3>4, <1>4 DEF ClaimOf
    <3> QED
      BY <3>1, <3>5 DEF RowsAreClaimed
  <2> QED
    BY <2>1, <2>2
<1>9. ClaimsAreUsed'
  <2> SUFFICES ASSUME NEW x \in Users \X Keys, idem'[x].status # "NONE"
               PROVE  /\ idem'[x].txn \in Rows'
                      /\ <<req'[idem'[x].txn].user, req'[idem'[x].txn].key>> = x
                      /\ idem'[x].hash.operation # "DEPOSIT" =>
                           idem'[x].status = "COMPLETED"
    BY DEF ClaimsAreUsed
  <2>1. CASE x = uk
    BY <2>1, <1>4, <1>5
  <2>2. CASE x # uk
    BY <2>2, <1>2, <1>4, <1>5 DEF ClaimsAreUsed, Rows
  <2> QED
    BY <2>1, <2>2
<1>10. CheckoutsAreRecorded'
  BY <1>4, <1>5 DEF CheckoutsAreRecorded, Rows
<1>11. AttemptsBelong'
  <2>1. \A s \in Requests \ {r} : attempt'[s] = attempt[s]
    BY DEF FundsTypeOK, DepositTypeOK
  <2>2. row.type = "DEPOSIT" => attempt'[r].status # "NONE"
    BY DEF FundsTypeOK, DepositTypeOK
  <2>3. row.type # "DEPOSIT" => attempt'[r].status = "NONE"
    BY <1>2 DEF AttemptsBelong
  <2> QED
    BY <2>1, <2>2, <2>3, <1>2, <1>4, <1>5 DEF AttemptsBelong
<1> QED
  BY <1>6, <1>8, <1>9, <1>10, <1>11

\* A change of the status or approval of a row.
LEMMA UpdateStep ==
  ASSUME FundsInv, NEW t \in Rows, NEW row \in TxnRows,
         row.customer = txn[t].customer, row.type = txn[t].type,
         txn' = [txn EXCEPT ![t] = row],
         balance' \in [Accounts -> Int], reserved' \in [Accounts -> Int],
         notices' \in SUBSET (Events \X Requests),
         payouts' \in [Requests -> Seq({"PENDING", "COMPLETED", "FAILED"})],
         attempt' \in [Requests -> Attempts \cup {NoAttempt}],
         \A s \in Requests : attempt'[s].status = "NONE" <=> attempt[s].status = "NONE",
         settling' \in [Requests -> 0..MaxDeliveries], acked' \in SUBSET Requests,
         UNCHANGED <<customerActive, idem, req, psp>>
  PROVE  FundsInv'
<1> USE DEF FundsInv
<1>1. t \in Requests /\ txn[t].status # "NONE"
  BY DEF Rows
<1>2. txn'[t] = row /\ \A s \in Requests \ {t} : txn'[s] = txn[s]
  BY <1>1 DEF FundsTypeOK, DepositTypeOK, StoreTypeOK
<1>3. row.status # "NONE"
  BY DEF TxnRows, Open, Settled
<1>4. Rows' = Rows
  BY <1>1, <1>2, <1>3 DEF Rows
<1>5. FundsTypeOK'
  BY <1>1 DEF FundsTypeOK, DepositTypeOK, StoreTypeOK, PayoutsTypeOK
<1>6. RowsAreClaimed'
  <2> SUFFICES ASSUME NEW s \in Rows'
               PROVE  /\ req'[s].phase # "idle"
                      /\ ClaimOf(s)'.status # "NONE"
                      /\ ClaimOf(s)'.txn = s
                      /\ ClaimOf(s)'.hash = req'[s].body
                      /\ txn'[s].customer = req'[s].user
                      /\ txn'[s].type = req'[s].body.operation
    BY DEF RowsAreClaimed
  <2>1. s \in Rows /\ s \in Requests
    BY <1>4 DEF Rows
  <2>2. ClaimOf(s)' = ClaimOf(s)
    BY DEF ClaimOf
  <2>3. txn'[s].customer = txn[s].customer /\ txn'[s].type = txn[s].type
    BY <1>2, <2>1
  <2> QED
    BY <2>1, <2>2, <2>3 DEF RowsAreClaimed
<1>7. ClaimsAreUsed'
  BY <1>4 DEF ClaimsAreUsed
<1>8. CheckoutsAreRecorded'
  BY <1>2, <1>4 DEF CheckoutsAreRecorded
<1>9. AttemptsBelong'
  BY <1>2, <1>4 DEF AttemptsBelong
<1> QED
  BY <1>5, <1>6, <1>7, <1>8, <1>9

\* A step that changes neither requests, claims nor transactions.
LEMMA SideStep ==
  ASSUME FundsInv,
         balance' \in [Accounts -> Int], reserved' \in [Accounts -> Int],
         notices' \in SUBSET (Events \X Requests),
         payouts' \in [Requests -> Seq({"PENDING", "COMPLETED", "FAILED"})],
         attempt' \in [Requests -> Attempts \cup {NoAttempt}],
         \A s \in Requests : attempt'[s].status = "NONE" <=> attempt[s].status = "NONE",
         psp' \in [Requests -> Sessions],
         settling' \in [Requests -> 0..MaxDeliveries], acked' \in SUBSET Requests,
         UNCHANGED <<customerActive, idem, txn, req>>
  PROVE  FundsInv'
<1> USE DEF FundsInv
<1>1. FundsTypeOK'
  BY DEF FundsTypeOK, DepositTypeOK, StoreTypeOK, PayoutsTypeOK
<1>2. Rows' = Rows
  BY DEF Rows
<1>3. RowsAreClaimed' /\ ClaimsAreUsed' /\ CheckoutsAreRecorded'
  BY <1>2 DEF RowsAreClaimed, ClaimOf, ClaimsAreUsed, CheckoutsAreRecorded
<1>4. AttemptsBelong'
  BY <1>2 DEF AttemptsBelong
<1> QED
  BY <1>1, <1>3, <1>4

\* The claim a transaction finds: a claim already there names a transaction,
\* and only that of a deposit is not COMPLETED.
LEMMA FoundClaim ==
  ASSUME FundsInv, NEW r \in Requests, req[r].phase # "idle"
  PROVE  /\ ClaimOf(r).status = "NONE" =>
              Upserted(r) = [status |-> "PROCESSING", hash |-> req[r].body,
                             txn |-> Null]
         /\ ClaimOf(r).status # "NONE" =>
              /\ Upserted(r) = ClaimOf(r)
              /\ ClaimOf(r).txn \in Rows /\ ClaimOf(r).txn # Null
              /\ ClaimOf(r).hash.operation # "DEPOSIT" =>
                   ClaimOf(r).status = "COMPLETED"
<1>1. <<req[r].user, req[r].key>> \in Users \X Keys
  BY ActiveCall
<1>2. ClaimOf(r).status # "NONE" =>
        /\ ClaimOf(r).txn \in Rows
        /\ ClaimOf(r).hash.operation # "DEPOSIT" =>
             ClaimOf(r).status = "COMPLETED"
  BY <1>1 DEF FundsInv, ClaimsAreUsed, ClaimOf
<1>3. Null \notin Rows
  BY StoreAssumption DEF StoreAssumption, Rows
<1> QED
  BY <1>2, <1>3 DEF Upserted

-----------------------------------------------------------------------------
(* Withdrawals. *)

\* The reads and the quotes of a withdrawal.
LEMMA WithdrawQuoteInv ==
  ASSUME FundsInv, NEW r \in Requests, WithdrawQuote(r), UNCHANGED pspVars
  PROVE  FundsInv'
<1> DEFINE a == req[r].body.account
           amount == Cents(req[r].body.amount)
<1>1. req[r].phase # "idle" /\ req[r] \in Calls /\ amount \in Nat
  BY ActiveCall DEF WithdrawQuote
<1>2. req \in [Requests -> Calls \cup {Idle}]
  BY DEF FundsInv, FundsTypeOK, DepositTypeOK, StoreTypeOK
<1>3. CASE MayWithdraw(r)
  <2>1. PICK toUsd \in Quotes(AccountCurrency[a], USD),
             rate \in Quotes(AccountCurrency[a], req[r].body.payout) :
          req' = [req EXCEPT ![r].phase = "quoted", ![r].rate = rate,
                             ![r].usd = Convert(amount, toUsd)]
    BY <1>3, Zenon DEF WithdrawQuote
  <2> DEFINE usd == Convert(amount, toUsd)
  <2>2. rate \in ExchangeRates /\ usd \in Nat
    BY <1>1, QuotesAreRates, ConvertNat
  <2> HIDE DEF usd
  <2>3. req' = [req EXCEPT ![r] = [req[r] EXCEPT !.phase = "quoted",
                  !.rate = rate, !.usd = usd, !.result = req[r].result]]
    BY <1>1, <1>2, <2>1 DEF Calls, usd
  <2>4. req[r].result \in Requests \cup {Null}
    BY <1>1 DEF Calls
  <2>5. "quoted" \in (InFlight \cup Answered) \ {"recorded", "opened", "declined"}
    BY DEF InFlight
  <2> QED
    BY <1>1, <2>2, <2>3, <2>4, <2>5, PhaseStep DEF WithdrawQuote
<1>4. CASE ~MayWithdraw(r)
  <2>1. Answer(r, "failed", Null) /\ "failed" \in Answered
    BY <1>4 DEF WithdrawQuote, Answered
  <2> QED
    BY <1>1, <2>1, AnswerStep DEF WithdrawQuote
<1> QED
  BY <1>3, <1>4

\* The local variables of a request that answers.
LEMMA AnsweredCall ==
  ASSUME FundsInv, NEW r \in Requests, req[r].phase # "idle",
         NEW phase \in InFlight \cup Answered, NEW result \in Requests \cup {Null},
         Answer(r, phase, result)
  PROVE  \E call \in Calls :
           /\ call.phase = phase /\ call.result = result
           /\ call.user = req[r].user /\ call.key = req[r].key
           /\ call.body = req[r].body
           /\ req' = [req EXCEPT ![r] = call]
<1> DEFINE call == [req[r] EXCEPT !.phase = phase, !.result = result]
<1>1. req[r] \in Calls
  BY ActiveCall
<1>2. req \in [Requests -> Calls \cup {Idle}]
  BY DEF FundsInv, FundsTypeOK, DepositTypeOK, StoreTypeOK
<1>3. /\ call \in Calls /\ call.phase = phase /\ call.result = result
      /\ call.user = req[r].user /\ call.key = req[r].key
      /\ call.body = req[r].body
  BY <1>1 DEF Calls
<1>4. req' = [req EXCEPT ![r] = call]
  BY <1>1, <1>2 DEF Answer, Calls
<1> QED
  BY <1>3, <1>4

\* The transaction of a withdrawal creates a row under a free key.
LEMMA WithdrawCommitInv ==
  ASSUME FundsInv, NEW r \in Requests, WithdrawCommit(r), UNCHANGED pspVars
  PROVE  FundsInv'
<1> DEFINE a == req[r].body.account
           amount == Cents(req[r].body.amount)
           claim == Upserted(r)
           accepted == /\ claim.hash = req[r].body
                       /\ ~(claim.status = "COMPLETED" /\ claim.txn # Null)
                       /\ Available(a) >= amount
<1>1. /\ req[r].phase # "idle" /\ req[r].phase = "quoted"
      /\ req[r].body.operation = "WITHDRAWAL"
      /\ req[r].user \in Users /\ a \in Accounts /\ amount \in Nat
      /\ req[r].rate \in ExchangeRates
  BY ActiveCall DEF WithdrawCommit
<1>2. CASE accepted
  <2> DEFINE row ==
        [type |-> "WITHDRAWAL", customer |-> req[r].user,
         account |-> a, destination |-> Null, amount |-> amount,
         converted |-> Convert(amount, req[r].rate), status |-> "PENDING",
         approval |-> IF req[r].usd > Threshold THEN "PENDING"
                                                ELSE "NOT_REQUIRED"]
  <2>1. ClaimOf(r).status = "NONE" /\
        claim = [status |-> "PROCESSING", hash |-> req[r].body, txn |-> Null]
    BY <1>1, <1>2, FoundClaim
  <2>2. PICK phase \in {"created", "failed"}, result \in {r, Null} :
          Answer(r, phase, result)
    BY <1>2, Zenon DEF WithdrawCommit
  <2>0. phase \in InFlight \cup Answered /\ result \in Requests \cup {Null}
    BY <2>2 DEF Answered
  <2>3. PICK call \in Calls :
          /\ call.phase = phase /\ call.result = result
          /\ call.user = req[r].user /\ call.key = req[r].key
          /\ call.body = req[r].body
          /\ req' = [req EXCEPT ![r] = call]
    BY <1>1, <2>0, <2>2, AnsweredCall
  <2>4. row \in TxnRows
    BY <1>1, ConvertNat DEF TxnRows, Open
  <2>5. /\ row.customer = req[r].user /\ row.type = "WITHDRAWAL"
        /\ txn' = [txn EXCEPT ![r] = row]
    BY <1>2 DEF WithdrawCommit
  <2>6. idem' = [idem EXCEPT ![<<req[r].user, req[r].key>>] =
                   [status |-> "COMPLETED", hash |-> req[r].body, txn |-> r]]
    BY <1>2, <2>1 DEF WithdrawCommit
  <2>7. balance' \in [Accounts -> Int] /\ reserved' \in [Accounts -> Int]
    BY <1>1, <1>2
    DEF WithdrawCommit, FundsInv, FundsTypeOK, DepositTypeOK, StoreTypeOK
  <2>8. notices' \in SUBSET (Events \X Requests)
    BY <1>2
    DEF WithdrawCommit, Events, FundsInv, FundsTypeOK, DepositTypeOK, StoreTypeOK
  <2>9. UNCHANGED <<customerActive, payouts, attempt, psp, settling, acked>>
    BY DEF WithdrawCommit, pspVars
  <2> HIDE DEF row
  <2> QED
    BY <1>1, <2>1, <2>3, <2>4, <2>5, <2>6, <2>7, <2>8, <2>9, CreateStep
<1>3. CASE ~accepted
  <2>1. /\ Answer(r, "failed", Null) /\ "failed" \in Answered
        /\ UNCHANGED <<customerActive, balance, reserved, idem, txn, notices,
                       payouts, pspVars>>
    BY <1>3 DEF WithdrawCommit, Answered
  <2> QED
    BY <1>1, <2>1, AnswerStep
<1> QED
  BY <1>2, <1>3

\* What giving up or taking the amount of a withdrawal leaves is a number.
LEMMA AmountsTyped ==
  ASSUME FundsInv, NEW t \in Rows
  PROVE  /\ txn[t].account \in Accounts
         /\ txn[t].amount \in Nat /\ txn[t].converted \in Nat
         /\ Release(t) => reserved' \in [Accounts -> Int]
         /\ Take(t) => balance' \in [Accounts -> Int]
         /\ balance \in [Accounts -> Int] /\ reserved \in [Accounts -> Int]
<1>1. /\ txn[t].account \in Accounts
      /\ txn[t].amount \in Nat /\ txn[t].converted \in Nat
  BY RowTypes DEF TxnRows
<1>2. balance \in [Accounts -> Int] /\ reserved \in [Accounts -> Int]
  BY DEF FundsInv, FundsTypeOK, DepositTypeOK, StoreTypeOK
<1> QED
  BY <1>1, <1>2 DEF Release, Take

\* A step of an administrator or the payout provider on a pending withdrawal.
LEMMA SettleStep ==
  ASSUME FundsInv, NEW t \in Requests, PendingWithdrawal(t),
         NEW status \in Open \cup Settled,
         NEW approval \in {"NOT_REQUIRED", "PENDING", "APPROVED", "REJECTED"},
         txn' = [txn EXCEPT ![t].status = status, ![t].approval = approval],
         Release(t) \/ UNCHANGED reserved, Take(t) \/ UNCHANGED balance,
         NEW event \in Events, notices' = notices \cup {<<event, t>>},
         payouts' \in [Requests -> Seq({"PENDING", "COMPLETED", "FAILED"})],
         UNCHANGED <<customerActive, idem, req, pspVars>>
  PROVE  FundsInv'
<1> DEFINE row == [txn[t] EXCEPT !.status = status, !.approval = approval]
<1>1. t \in Rows
  BY DEF PendingWithdrawal, Rows
<1>2. txn[t] \in TxnRows /\ txn \in [Requests -> TxnRows \cup {NoTxn}]
  BY <1>1, RowTypes DEF FundsInv, FundsTypeOK, DepositTypeOK, StoreTypeOK
<1>3. /\ row \in TxnRows /\ row.customer = txn[t].customer
      /\ row.type = txn[t].type
      /\ txn' = [txn EXCEPT ![t] = row]
  BY <1>2 DEF TxnRows
<1>4. balance' \in [Accounts -> Int] /\ reserved' \in [Accounts -> Int]
  BY <1>1, AmountsTyped
<1>5. notices' \in SUBSET (Events \X Requests)
  BY DEF FundsInv, FundsTypeOK, DepositTypeOK, StoreTypeOK
<1>6. /\ attempt' = attempt /\ attempt' \in [Requests -> Attempts \cup {NoAttempt}]
      /\ settling' \in [Requests -> 0..MaxDeliveries] /\ acked' \in SUBSET Requests
      /\ psp' = psp
  BY DEF FundsInv, FundsTypeOK, DepositTypeOK, pspVars
<1> HIDE DEF row
<1> QED
  BY <1>1, <1>3, <1>4, <1>5, <1>6, UpdateStep

\* An approval changes one column.
LEMMA ApproveInv ==
  ASSUME FundsInv, NEW t \in Requests, ApproveWithdrawal(t), UNCHANGED pspVars
  PROVE  FundsInv'
<1>1. txn[t] \in TxnRows /\ txn \in [Requests -> TxnRows \cup {NoTxn}]
  BY RowTypes DEF ApproveWithdrawal, PendingWithdrawal, Rows, FundsInv,
     FundsTypeOK, DepositTypeOK, StoreTypeOK
<1>2. txn' = [txn EXCEPT ![t].status = "PENDING", ![t].approval = "APPROVED"]
  BY <1>1 DEF ApproveWithdrawal, PendingWithdrawal, TxnRows
<1>3. /\ "PENDING" \in Open \cup Settled /\ "withdrawal:approved" \in Events
      /\ payouts' \in [Requests -> Seq({"PENDING", "COMPLETED", "FAILED"})]
      /\ PendingWithdrawal(t) /\ UNCHANGED <<balance, reserved>>
  BY DEF ApproveWithdrawal, Open, Events, FundsInv, FundsTypeOK, PayoutsTypeOK
<1> QED
  BY <1>2, <1>3, SettleStep DEF ApproveWithdrawal

\* A rejection settles the row.
LEMMA RejectInv ==
  ASSUME FundsInv, NEW t \in Requests, RejectWithdrawal(t), UNCHANGED pspVars
  PROVE  FundsInv'
<1>1. /\ "REJECTED" \in Open \cup Settled /\ "withdrawal:rejected" \in Events
      /\ payouts' \in [Requests -> Seq({"PENDING", "COMPLETED", "FAILED"})]
      /\ PendingWithdrawal(t) /\ UNCHANGED balance
  BY DEF RejectWithdrawal, Settled, Events, FundsInv, FundsTypeOK, PayoutsTypeOK
<1> QED
  BY <1>1, SettleStep DEF RejectWithdrawal

\* A payout attempt is no transaction row.
LEMMA ProcessInv ==
  ASSUME FundsInv, NEW t \in Requests, ProcessWithdrawal(t), UNCHANGED pspVars
  PROVE  FundsInv'
<1>1. payouts \in [Requests -> Seq({"PENDING", "COMPLETED", "FAILED"})]
  BY DEF FundsInv, FundsTypeOK, PayoutsTypeOK
<1>2. Append(payouts[t], "PENDING") \in Seq({"PENDING", "COMPLETED", "FAILED"})
  BY <1>1
<1>3. payouts' \in [Requests -> Seq({"PENDING", "COMPLETED", "FAILED"})]
  BY <1>1, <1>2 DEF ProcessWithdrawal
<1>4. notices' \in SUBSET (Events \X Requests)
  BY DEF ProcessWithdrawal, Events, FundsInv, FundsTypeOK, DepositTypeOK, StoreTypeOK
<1> QED
  BY <1>3, <1>4, SideStep DEF ProcessWithdrawal, FundsInv, FundsTypeOK,
     DepositTypeOK, StoreTypeOK, pspVars

\* Changing the status of a payout keeps the type.
LEMMA PayoutStep ==
  ASSUME FundsInv, NEW t \in Requests, NEW i,
         NEW status \in {"PENDING", "COMPLETED", "FAILED"},
         payouts' = [payouts EXCEPT ![t][i] = status]
  PROVE  payouts' \in [Requests -> Seq({"PENDING", "COMPLETED", "FAILED"})]
<1>1. payouts \in [Requests -> Seq({"PENDING", "COMPLETED", "FAILED"})]
  BY DEF FundsInv, FundsTypeOK, PayoutsTypeOK
<1> DEFINE new == [payouts[t] EXCEPT ![i] = status]
<1>2. new \in Seq({"PENDING", "COMPLETED", "FAILED"})
  <2>1. CASE i \in 1..Len(payouts[t])
    BY <1>1, <2>1, ExceptSeq
  <2>2. CASE i \notin 1..Len(payouts[t])
    <3>1. new = payouts[t]
      BY <1>1, <2>2
    <3> QED
      BY <1>1, <3>1
  <2> QED
    BY <2>1, <2>2
<1> HIDE DEF new
<1>3. payouts' = [payouts EXCEPT ![t] = new]
  BY <1>1 DEF new
<1> QED
  BY <1>1, <1>2, <1>3

\* A payout that succeeded settles the row.
LEMMA CompleteInv ==
  ASSUME FundsInv, NEW t \in Requests, CompleteWithdrawal(t), UNCHANGED pspVars
  PROVE  FundsInv'
<1>1. txn[t] \in TxnRows /\ txn \in [Requests -> TxnRows \cup {NoTxn}]
  BY RowTypes DEF CompleteWithdrawal, PendingWithdrawal, Rows, FundsInv,
     FundsTypeOK, DepositTypeOK, StoreTypeOK
<1>2. /\ txn' = [txn EXCEPT ![t].status = "COMPLETED",
                            ![t].approval = txn[t].approval]
      /\ txn[t].approval \in {"NOT_REQUIRED", "PENDING", "APPROVED", "REJECTED"}
  BY <1>1 DEF CompleteWithdrawal, TxnRows
<1>3. payouts' \in [Requests -> Seq({"PENDING", "COMPLETED", "FAILED"})]
  BY PayoutStep DEF CompleteWithdrawal
<1>4. /\ "COMPLETED" \in Open \cup Settled /\ "withdrawal:completed" \in Events
      /\ PendingWithdrawal(t) /\ Release(t) /\ Take(t)
  BY DEF CompleteWithdrawal, Settled, Events
<1> QED
  BY <1>2, <1>3, <1>4, SettleStep DEF CompleteWithdrawal

\* A payout that failed settles the row.
LEMMA FailPendingInv ==
  ASSUME FundsInv, NEW t \in Requests, FailPending(t), UNCHANGED pspVars
  PROVE  FundsInv'
<1>1. txn[t] \in TxnRows /\ txn \in [Requests -> TxnRows \cup {NoTxn}]
  BY RowTypes DEF FailPending, PendingWithdrawal, Rows, FundsInv,
     FundsTypeOK, DepositTypeOK, StoreTypeOK
<1>2. /\ txn' = [txn EXCEPT ![t].status = "FAILED",
                            ![t].approval = txn[t].approval]
      /\ txn[t].approval \in {"NOT_REQUIRED", "PENDING", "APPROVED", "REJECTED"}
  BY <1>1 DEF FailPending, TxnRows
<1>3. payouts' \in [Requests -> Seq({"PENDING", "COMPLETED", "FAILED"})]
  BY PayoutStep DEF FailPending
<1>4. /\ "FAILED" \in Open \cup Settled /\ "withdrawal:failed" \in Events
      /\ PendingWithdrawal(t) /\ Release(t) /\ UNCHANGED balance
  BY DEF FailPending, Settled, Events
<1> QED
  BY <1>2, <1>3, <1>4, SettleStep DEF FailPending

\* A failure that is reported again, or after a rejection, makes a notice only.
LEMMA FailAgainInv ==
  ASSUME FundsInv, NEW t \in Requests, FailAgain(t), UNCHANGED pspVars
  PROVE  FundsInv'
<1>1. payouts' \in [Requests -> Seq({"PENDING", "COMPLETED", "FAILED"})]
  BY DEF FailAgain, FundsInv, FundsTypeOK, PayoutsTypeOK
<1>2. notices' \in SUBSET (Events \X Requests)
  BY DEF FailAgain, Events, FundsInv, FundsTypeOK, DepositTypeOK, StoreTypeOK
<1> QED
  BY <1>1, <1>2, SideStep DEF FailAgain, FundsInv, FundsTypeOK, DepositTypeOK,
     StoreTypeOK, pspVars

\* Every step of withdrawals.
LEMMA WithdrawalsInv ==
  ASSUME FundsInv, WithdrawalStep, UNCHANGED pspVars
  PROVE  FundsInv'
<1>1. ASSUME NEW r \in Requests, NEW u \in Users, NEW k \in Keys,
             NEW b \in WithdrawalBodies, WithdrawSubmit(r, u, k, b)
      PROVE  FundsInv'
  <2>1. b \in Bodies /\ Submit(r, u, k, b) /\ UNCHANGED payouts
    BY <1>1 DEF WithdrawSubmit, Bodies
  <2> QED
    BY <2>1, SubmitInv
<1>2. ASSUME NEW r \in Requests, WithdrawQuote(r) \/ WithdrawCommit(r)
      PROVE  FundsInv'
  BY <1>2, WithdrawQuoteInv, WithdrawCommitInv
<1>3. ASSUME NEW t \in Requests,
             \/ ApproveWithdrawal(t) \/ RejectWithdrawal(t)
             \/ ProcessWithdrawal(t) \/ CompleteWithdrawal(t)
             \/ FailWithdrawal(t)
      PROVE  FundsInv'
  BY <1>3, ApproveInv, RejectInv, ProcessInv, CompleteInv, FailPendingInv,
     FailAgainInv DEF FailWithdrawal
<1> QED
  BY <1>1, <1>2, <1>3 DEF WithdrawalStep

-----------------------------------------------------------------------------
(* Transfers. *)

\* A transfer arrives; one to its own account is refused before the lookup.
LEMMA TransferSubmitInv ==
  ASSUME FundsInv, NEW r \in Requests, NEW u \in Users, NEW k \in Keys,
         NEW b \in TransferBodies, TransferSubmit(r, u, k, b),
         UNCHANGED <<payouts, pspVars>>
  PROVE  FundsInv'
<1>1. b \in Bodies
  BY DEF Bodies
<1>2. CASE Submit(r, u, k, b)
  BY <1>1, <1>2, SubmitInv
<1>3. CASE ~Submit(r, u, k, b)
  <2> DEFINE call == [phase |-> "failed", user |-> u, key |-> k, body |-> b,
                      rate |-> Par, usd |-> 0, result |-> Null]
  <2>1. /\ req[r].phase = "idle" /\ req' = [req EXCEPT ![r] = call]
        /\ UNCHANGED <<customerActive, balance, reserved, idem, txn, notices>>
    BY <1>3 DEF TransferSubmit
  <2>2. /\ call \in Calls
        /\ call.phase \notin {"recorded", "opened", "declined"}
    BY <1>1, ParIsRate DEF Calls, Answered
  <2>3. r \notin Rows /\ customerActive' \in [Users -> BOOLEAN]
    BY <2>1 DEF FundsInv, RowsAreClaimed, FundsTypeOK, DepositTypeOK, StoreTypeOK
  <2> HIDE DEF call
  <2> QED
    BY <2>1, <2>2, <2>3, RequestStep
<1> QED
  BY <1>2, <1>3

\* A request that is quoted, or refused because a quote rounds to nothing.
LEMMA QuoteStep ==
  ASSUME FundsInv, NEW r \in Requests, req[r].phase # "idle",
         NEW phase \in {"quoted", "failed"}, NEW rate \in ExchangeRates,
         req' = [req EXCEPT ![r].phase = phase, ![r].rate = rate],
         UNCHANGED <<customerActive, balance, reserved, idem, txn, notices,
                     payouts, pspVars>>
  PROVE  FundsInv'
<1> DEFINE call == [req[r] EXCEPT !.phase = phase, !.rate = rate]
<1>1. req[r] \in Calls /\ req \in [Requests -> Calls \cup {Idle}]
  BY ActiveCall DEF FundsInv, FundsTypeOK, DepositTypeOK, StoreTypeOK
<1>2. req' = [req EXCEPT ![r] = call]
  BY <1>1 DEF Calls
<1>3. /\ call \in Calls /\ call.phase = phase
      /\ call.user = req[r].user /\ call.key = req[r].key
      /\ call.body = req[r].body
  BY <1>1 DEF Calls, InFlight, Answered
<1>4. customerActive' \in [Users -> BOOLEAN]
  BY DEF FundsInv, FundsTypeOK, DepositTypeOK, StoreTypeOK
<1> HIDE DEF call
<1> QED
  BY <1>2, <1>3, <1>4, RequestStep

\* The reads and the quote of a transfer.
LEMMA TransferQuoteInv ==
  ASSUME FundsInv, NEW r \in Requests, TransferQuote(r),
         UNCHANGED <<payouts, pspVars>>
  PROVE  FundsInv'
<1> DEFINE from == AccountCurrency[req[r].body.account]
           to == AccountCurrency[req[r].body.destination]
           amount == Cents(req[r].body.amount)
<1>1. req[r].phase # "idle"
  BY DEF TransferQuote
<1>2. CASE MayTransfer(r)
  <2>1. PICK rate \in Quotes(from, to) :
          req' = [req EXCEPT
            ![r].phase = IF Convert(amount, rate) > 0 THEN "quoted" ELSE "failed",
            ![r].rate = rate]
    BY <1>2, Zenon DEF TransferQuote
  <2> DEFINE phase == IF Convert(amount, rate) > 0 THEN "quoted" ELSE "failed"
  <2>2. phase \in {"quoted", "failed"} /\ rate \in ExchangeRates
    BY QuotesAreRates
  <2>3. req' = [req EXCEPT ![r].phase = phase, ![r].rate = rate]
    BY <2>1
  <2> HIDE DEF phase
  <2> QED
    BY <1>1, <2>2, <2>3, QuoteStep DEF TransferQuote
<1>3. CASE ~MayTransfer(r)
  <2>1. Answer(r, "failed", Null) /\ "failed" \in Answered
    BY <1>3 DEF TransferQuote, Answered
  <2> QED
    BY <1>1, <2>1, AnswerStep DEF TransferQuote
<1> QED
  BY <1>2, <1>3

\* The transaction of a transfer creates a row, replays one, or does neither.
LEMMA TransferCommitInv ==
  ASSUME FundsInv, NEW r \in Requests, TransferCommit(r),
         UNCHANGED <<payouts, pspVars>>
  PROVE  FundsInv'
<1> DEFINE from == req[r].body.account
           to == req[r].body.destination
           amount == Cents(req[r].body.amount)
           received == Convert(amount, req[r].rate)
           claim == Upserted(r)
           mine == claim.hash = req[r].body
           done == claim.status = "COMPLETED" /\ claim.txn # Null
           made == mine /\ ~done /\ ~(Available(from) < amount)
           replayed == mine /\ done /\ Replayable(claim, req[r].user, req[r].body)
<1>1. /\ req[r].phase # "idle" /\ req[r].phase = "quoted"
      /\ req[r].body.operation = "TRANSFER"
      /\ req[r].user \in Users /\ from \in Accounts /\ amount \in Nat
      /\ req[r].rate \in ExchangeRates
      /\ req[r].body \in Bodies
  BY ActiveCall DEF TransferCommit
<1>2. to \in Accounts
  BY <1>1 DEF Bodies, WithdrawalBodies, TransferBodies, DepositBodies
<1>3. received \in Nat
  BY <1>1, ConvertNat
<1>4. Available(from) \in Int
  BY <1>1 DEF Available, FundsInv, FundsTypeOK, DepositTypeOK, StoreTypeOK
<1>5. ~(Available(from) < amount) <=> Available(from) >= amount
  BY <1>1, <1>4
<1>6. CASE made
  <2> DEFINE row ==
        [type |-> "TRANSFER", customer |-> req[r].user,
         account |-> from, destination |-> to, amount |-> amount,
         converted |-> received, status |-> "COMPLETED",
         approval |-> "NOT_REQUIRED"]
  <2>1. /\ ClaimOf(r).status = "NONE"
        /\ claim = [status |-> "PROCESSING", hash |-> req[r].body, txn |-> Null]
    BY <1>1, <1>6, FoundClaim
  <2>2. PICK phase \in {"created", "failed"}, result \in {r, Null} :
          Answer(r, phase, result)
    BY <1>6, Zenon DEF TransferCommit
  <2>3. phase \in InFlight \cup Answered /\ result \in Requests \cup {Null}
    BY <2>2 DEF Answered
  <2>4. PICK call \in Calls :
          /\ call.phase = phase /\ call.result = result
          /\ call.user = req[r].user /\ call.key = req[r].key
          /\ call.body = req[r].body
          /\ req' = [req EXCEPT ![r] = call]
    BY <1>1, <2>2, <2>3, AnsweredCall
  <2>5. row \in TxnRows
    BY <1>1, <1>2, <1>3 DEF TxnRows, Settled
  <2>6. /\ row.customer = req[r].user /\ row.type = "TRANSFER"
        /\ txn' = [txn EXCEPT ![r] = row]
    BY <1>6 DEF TransferCommit
  <2>7. idem' = [idem EXCEPT ![<<req[r].user, req[r].key>>] =
                   [status |-> "COMPLETED", hash |-> req[r].body, txn |-> r]]
    BY <1>6, <2>1 DEF TransferCommit
  <2>8. balance' \in [Accounts -> Int] /\ reserved' \in [Accounts -> Int]
    BY <1>1, <1>2, <1>3, <1>6
    DEF TransferCommit, MoveMoney, FundsInv, FundsTypeOK, DepositTypeOK, StoreTypeOK
  <2>9. notices' \in SUBSET (Events \X Requests)
    BY <1>6
    DEF TransferCommit, Events, FundsInv, FundsTypeOK, DepositTypeOK, StoreTypeOK
  <2>10. UNCHANGED <<customerActive, payouts, attempt, psp, settling, acked>>
    BY DEF TransferCommit, pspVars
  <2> HIDE DEF row
  <2> QED
    BY <1>1, <2>1, <2>2, <2>4, <2>5, <2>6, <2>7, <2>8, <2>9, <2>10, CreateStep
<1>7. CASE replayed
  <2>1. /\ Answer(r, "replayed", claim.txn) /\ "replayed" \in Answered
        /\ notices' = notices \cup {<<"transfer:completed", claim.txn>>}
        /\ UNCHANGED <<customerActive, balance, reserved, idem, txn>>
    BY <1>7 DEF TransferCommit, Answered
  <2>2. claim.txn \in Requests
    BY <1>1, <1>7, FoundClaim DEF Rows
  <2>3. notices' \subseteq notices \cup (Events \X Requests)
    BY <2>1, <2>2 DEF Events
  <2> QED
    BY <1>1, <2>1, <2>2, <2>3, AnswerStep
<1>8. CASE ~made /\ ~replayed
  <2>1. /\ Answer(r, "failed", Null) /\ "failed" \in Answered
        /\ UNCHANGED <<customerActive, balance, reserved, idem, txn, notices>>
    BY <1>8, <1>5 DEF TransferCommit, Answered
  <2> QED
    BY <1>1, <2>1, AnswerStep
<1> QED
  BY <1>6, <1>7, <1>8

\* Every step of transfers.
LEMMA TransfersInv ==
  ASSUME FundsInv, TransferStep, UNCHANGED <<payouts, pspVars>>
  PROVE  FundsInv'
<1>1. PICK r \in Requests :
        \/ \E u \in Users, k \in Keys, b \in TransferBodies :
             TransferSubmit(r, u, k, b)
        \/ TransferQuote(r)
        \/ TransferCommit(r)
  BY DEF TransferStep
<1> QED
  BY <1>1, TransferSubmitInv, TransferQuoteInv, TransferCommitInv

-----------------------------------------------------------------------------
(* Deposits. *)

\* The reads and the quote of a deposit.
LEMMA DepositQuoteInv ==
  ASSUME FundsInv, NEW r \in Requests, DepositQuote(r), UNCHANGED payouts
  PROVE  FundsInv'
<1> DEFINE a == req[r].body.account
           amount == Cents(req[r].body.amount)
           accepted == Owner[a] = req[r].user /\ amount > 0
<1>1. req[r].phase # "idle"
  BY DEF DepositQuote
<1>2. CASE accepted
  <2>1. PICK rate \in Quotes(req[r].body.currency, AccountCurrency[a]) :
          req' = [req EXCEPT
            ![r].phase = IF Convert(amount, rate) > 0 THEN "quoted" ELSE "failed",
            ![r].rate = rate]
    BY <1>2, Zenon DEF DepositQuote
  <2> DEFINE phase == IF Convert(amount, rate) > 0 THEN "quoted" ELSE "failed"
  <2>2. phase \in {"quoted", "failed"} /\ rate \in ExchangeRates
    BY QuotesAreRates
  <2>3. req' = [req EXCEPT ![r].phase = phase, ![r].rate = rate]
    BY <2>1
  <2> HIDE DEF phase
  <2> QED
    BY <1>1, <2>2, <2>3, QuoteStep DEF DepositQuote
<1>3. CASE ~accepted
  <2>1. Answer(r, "failed", Null) /\ "failed" \in Answered
    BY <1>3 DEF DepositQuote, Answered
  <2> QED
    BY <1>1, <2>1, AnswerStep DEF DepositQuote
<1> QED
  BY <1>2, <1>3

\* The first transaction of a deposit: a row, an attempt, and a key that waits.
LEMMA DepositCommitInv ==
  ASSUME FundsInv, NEW r \in Requests, DepositCommit(r), UNCHANGED payouts
  PROVE  FundsInv'
<1> DEFINE amount == Cents(req[r].body.amount)
           claim == Upserted(r)
           accepted == /\ claim.hash = req[r].body
                       /\ claim.status # "COMPLETED"
                       /\ claim.txn = Null
<1>1. /\ req[r].phase # "idle" /\ req[r].phase = "quoted"
      /\ req[r].body.operation = "DEPOSIT"
      /\ req[r] \in Calls
      /\ req[r].user \in Users /\ req[r].body.account \in Accounts
      /\ amount \in Nat /\ req[r].rate \in ExchangeRates
  BY ActiveCall DEF DepositCommit
<1>2. CASE accepted
  <2> DEFINE row ==
        [type |-> "DEPOSIT", customer |-> req[r].user,
         account |-> req[r].body.account, destination |-> Null,
         amount |-> amount, converted |-> Convert(amount, req[r].rate),
         status |-> "PENDING", approval |-> "NOT_REQUIRED"]
             call == [req[r] EXCEPT !.phase = "recorded"]
  <2>1. /\ ClaimOf(r).status = "NONE"
        /\ claim = [status |-> "PROCESSING", hash |-> req[r].body, txn |-> Null]
    BY <1>1, <1>2, FoundClaim
  <2>2. /\ call \in Calls /\ call.phase = "recorded"
        /\ call.user = req[r].user /\ call.key = req[r].key
        /\ call.body = req[r].body
    BY <1>1 DEF Calls, InFlight
  <2>3. req' = [req EXCEPT ![r] = call]
    BY <1>2 DEF DepositCommit, Goto
  <2>4. row \in TxnRows
    BY <1>1, ConvertNat DEF TxnRows, Open
  <2>5. /\ row.customer = req[r].user /\ row.type = "DEPOSIT"
        /\ txn' = [txn EXCEPT ![r] = row]
        /\ attempt' = [attempt EXCEPT ![r] =
                         [status |-> "PENDING", referenced |-> FALSE]]
    BY <1>2 DEF DepositCommit
  <2>6. idem' = [idem EXCEPT ![<<req[r].user, req[r].key>>] =
                   [status |-> "PROCESSING", hash |-> req[r].body, txn |-> r]]
    BY <1>2, <2>1 DEF DepositCommit
  <2>7. /\ balance' \in [Accounts -> Int] /\ reserved' \in [Accounts -> Int]
        /\ notices' \in SUBSET (Events \X Requests)
        /\ UNCHANGED <<customerActive, payouts, psp, settling, acked>>
    BY DEF DepositCommit, FundsInv, FundsTypeOK, DepositTypeOK, StoreTypeOK
  <2> HIDE DEF row, call
  <2> QED
    BY <1>1, <2>1, <2>2, <2>3, <2>4, <2>5, <2>6, <2>7, CreateStep
<1>3. CASE ~accepted
  <2>1. /\ Answer(r, "failed", Null) /\ "failed" \in Answered
        /\ UNCHANGED <<customerActive, balance, reserved, idem, txn, notices,
                       payouts, pspVars>>
    BY <1>3 DEF DepositCommit, Answered, pspVars
  <2> QED
    BY <1>1, <2>1, AnswerStep
<1> QED
  BY <1>2, <1>3

\* The answer of the provider moves the request on.
LEMMA OpenCheckoutInv ==
  ASSUME FundsInv, NEW r \in Requests, OpenCheckout(r), UNCHANGED payouts
  PROVE  FundsInv'
<1> USE DEF FundsInv
<1>1. /\ req[r].phase = "recorded" /\ req[r] \in Calls
      /\ r \in Rows /\ txn[r].type = "DEPOSIT"
  BY ActiveCall DEF OpenCheckout, CheckoutsAreRecorded
<1>2. PICK phase \in {"opened", "declined"} : Goto(r, phase)
  BY DEF OpenCheckout
<1> DEFINE call == [req[r] EXCEPT !.phase = phase]
<1>3. /\ call \in Calls /\ call.phase = phase
      /\ call.user = req[r].user /\ call.key = req[r].key
      /\ call.body = req[r].body
  BY <1>1 DEF Calls, InFlight
<1>4. req' = [req EXCEPT ![r] = call]
  BY <1>2 DEF Goto
<1>5. psp' \in [Requests -> Sessions]
  BY DEF OpenCheckout, FundsTypeOK, DepositTypeOK, Sessions
<1>6. UNCHANGED <<customerActive, balance, reserved, idem, txn, notices,
                  payouts, attempt, settling, acked>>
  BY DEF OpenCheckout
<1> HIDE DEF call
<1>7. req'[r] = call /\ \A s \in Requests \ {r} : req'[s] = req[s]
  BY <1>4 DEF FundsTypeOK, DepositTypeOK, StoreTypeOK
<1>8. Rows' = Rows
  BY <1>6 DEF Rows
<1>9. FundsTypeOK'
  BY <1>3, <1>4, <1>5, <1>6
  DEF FundsTypeOK, DepositTypeOK, StoreTypeOK, PayoutsTypeOK
<1>10. RowsAreClaimed'
  BY <1>3, <1>6, <1>7, <1>8 DEF RowsAreClaimed, ClaimOf, Rows
<1>11. ClaimsAreUsed'
  BY <1>3, <1>6, <1>7, <1>8 DEF ClaimsAreUsed, Rows
<1>12. CheckoutsAreRecorded'
  BY <1>1, <1>6, <1>7, <1>8 DEF CheckoutsAreRecorded
<1>13. AttemptsBelong'
  BY <1>6, <1>8 DEF AttemptsBelong
<1> QED
  BY <1>9, <1>10, <1>11, <1>12, <1>13

\* The last transaction of a checkout settles attempt and key.
LEMMA CheckoutStep ==
  ASSUME FundsInv, NEW r \in Requests, req[r].phase \in {"opened", "declined"},
         NEW status \in {"COMPLETED", "FAILED"}, NEW made \in Attempts,
         NEW phase \in Answered, NEW result \in Requests \cup {Null},
         idem' = [idem EXCEPT ![<<req[r].user, req[r].key>>].status = status],
         attempt' = [attempt EXCEPT ![r] = made],
         Answer(r, phase, result),
         notices' \in SUBSET (Events \X Requests),
         UNCHANGED <<customerActive, balance, reserved, txn, payouts, psp,
                     settling, acked>>
  PROVE  FundsInv'
<1> USE DEF FundsInv
<1> DEFINE uk == <<req[r].user, req[r].key>>
           claim == [ClaimOf(r) EXCEPT !.status = status]
<1>1. /\ req[r].phase # "idle" /\ r \in Rows /\ txn[r].type = "DEPOSIT"
      /\ uk \in Users \X Keys
  BY ActiveCall DEF CheckoutsAreRecorded
<1>2. PICK call \in Calls :
        /\ call.phase = phase /\ call.result = result
        /\ call.user = req[r].user /\ call.key = req[r].key
        /\ call.body = req[r].body
        /\ req' = [req EXCEPT ![r] = call]
  BY <1>1, AnsweredCall
<1>3. req'[r] = call /\ \A s \in Requests \ {r} : req'[s] = req[s]
  BY <1>2 DEF FundsTypeOK, DepositTypeOK, StoreTypeOK
<1>4. ClaimOf(r) \in IdemRows /\ ClaimOf(r).txn = r /\ ClaimOf(r).hash = req[r].body
      /\ req[r].body.operation = "DEPOSIT"
  BY <1>1, RowTypes DEF RowsAreClaimed
<1>5. /\ claim \in IdemRows /\ claim.txn = r /\ claim.hash = req[r].body
      /\ claim.status = status
  BY <1>4 DEF IdemRows
<1>6. idem' = [idem EXCEPT ![uk] = claim]
  BY DEF ClaimOf
<1> HIDE DEF claim
<1>7. idem'[uk] = claim /\ \A x \in (Users \X Keys) \ {uk} : idem'[x] = idem[x]
  BY <1>1, <1>6 DEF FundsTypeOK, DepositTypeOK, StoreTypeOK
<1>8. Rows' = Rows
  BY DEF Rows
<1>9. call.phase # "idle" /\ call.phase \notin {"recorded", "opened", "declined"}
  BY <1>2 DEF Answered
<1>10. FundsTypeOK'
  BY <1>1, <1>2, <1>5, <1>6
  DEF FundsTypeOK, DepositTypeOK, StoreTypeOK, PayoutsTypeOK
<1>11. RowsAreClaimed'
  <2> SUFFICES ASSUME NEW s \in Rows
               PROVE  /\ req'[s].phase # "idle"
                      /\ ClaimOf(s)'.status # "NONE"
                      /\ ClaimOf(s)'.txn = s
                      /\ ClaimOf(s)'.hash = req'[s].body
                      /\ txn'[s].customer = req'[s].user
                      /\ txn'[s].type = req'[s].body.operation
    BY <1>8 DEF RowsAreClaimed
  <2>1. CASE s = r
    BY <2>1, <1>2, <1>3, <1>5, <1>7, <1>9 DEF ClaimOf, RowsAreClaimed
  <2>2. CASE s # r
    <3>1. req'[s] = req[s] /\ s \in Requests
      BY <2>2, <1>3 DEF Rows
    <3>2. ClaimOf(s).txn = s
      BY DEF RowsAreClaimed
    <3>3. <<req[s].user, req[s].key>> # uk
      BY <2>2, <3>2, <1>4 DEF ClaimOf
    <3>4. <<req[s].user, req[s].key>> \in Users \X Keys
      BY RowTypes DEF Calls
    <3>5. ClaimOf(s)' = ClaimOf(s)
      BY <3>1, <3>3, <3>4, <1>7 DEF ClaimOf
    <3> QED
      BY <3>1, <3>5 DEF RowsAreClaimed
  <2> QED
    BY <2>1, <2>2
<1>12. ClaimsAreUsed'
  <2> SUFFICES ASSUME NEW x \in Users \X Keys, idem'[x].status # "NONE"
               PROVE  /\ idem'[x].txn \in Rows
                      /\ <<req'[idem'[x].txn].user, req'[idem'[x].txn].key>> = x
                      /\ idem'[x].hash.operation # "DEPOSIT" =>
                           idem'[x].status = "COMPLETED"
    BY <1>8 DEF ClaimsAreUsed
  <2>1. CASE x = uk
    <3>1. idem'[x] = claim
      BY <2>1, <1>7
    <3>2. idem'[x].txn = r /\ idem'[x].hash.operation = "DEPOSIT"
      BY <3>1, <1>4, <1>5
    <3>3. <<req'[r].user, req'[r].key>> = x
      BY <2>1, <1>2, <1>3
    <3> QED
      BY <3>2, <3>3, <1>1
  <2>2. CASE x # uk
    <3>1. idem'[x] = idem[x] /\ idem[x].txn \in Rows
      BY <2>2, <1>7 DEF ClaimsAreUsed
    <3>2. /\ req'[idem[x].txn].user = req[idem[x].txn].user
          /\ req'[idem[x].txn].key = req[idem[x].txn].key
      BY <3>1, <1>2, <1>3 DEF Rows
    <3> QED
      BY <3>1, <3>2 DEF ClaimsAreUsed
  <2> QED
    BY <2>1, <2>2
<1>13. CheckoutsAreRecorded'
  BY <1>2, <1>3, <1>8, <1>9 DEF CheckoutsAreRecorded
<1>14. AttemptsBelong'
  BY <1>1, <1>8 DEF AttemptsBelong, Attempts, FundsTypeOK, DepositTypeOK
<1> QED
  BY <1>10, <1>11, <1>12, <1>13, <1>14

\* The attempt of a deposit.
LEMMA AttemptTyped ==
  ASSUME FundsInv, NEW r \in Rows, txn[r].type = "DEPOSIT"
  PROVE  attempt[r] \in Attempts
BY DEF FundsInv, FundsTypeOK, DepositTypeOK, AttemptsBelong, NoAttempt, Rows

\* The catch block settles attempt and key.
LEMMA MarkFailedInv ==
  ASSUME FundsInv, NEW r \in Requests, MarkFailed(r), UNCHANGED payouts
  PROVE  FundsInv'
<1> DEFINE made == [attempt[r] EXCEPT !.status = "FAILED"]
<1>1. attempt[r] \in Attempts
  BY AttemptTyped DEF MarkFailed, FundsInv, CheckoutsAreRecorded
<1>2. made \in Attempts /\ attempt' = [attempt EXCEPT ![r] = made]
  BY <1>1 DEF MarkFailed, Attempts
<1>3. /\ Answer(r, "failed", Null) /\ "failed" \in Answered
      /\ notices' \in SUBSET (Events \X Requests)
  BY DEF MarkFailed, Answered, FundsInv, FundsTypeOK, DepositTypeOK, StoreTypeOK
<1> HIDE DEF made
<1> QED
  BY <1>2, <1>3, CheckoutStep DEF MarkFailed

\* The last transaction settles attempt and key.
LEMMA SaveCheckoutInv ==
  ASSUME FundsInv, NEW r \in Requests, SaveCheckout(r), UNCHANGED payouts
  PROVE  FundsInv'
<1> DEFINE made == [attempt[r] EXCEPT !.referenced = TRUE]
<1>1. attempt[r] \in Attempts
  BY AttemptTyped DEF SaveCheckout, FundsInv, CheckoutsAreRecorded
<1>2. made \in Attempts /\ attempt' = [attempt EXCEPT ![r] = made]
  BY <1>1 DEF SaveCheckout, Attempts
<1>3. PICK phase \in {"created", "failed"}, result \in {r, Null} :
        Answer(r, phase, result)
  BY DEF SaveCheckout
<1>4. phase \in Answered /\ result \in Requests \cup {Null}
  BY <1>3 DEF Answered
<1>5. notices' \in SUBSET (Events \X Requests)
  BY DEF SaveCheckout, Events, FundsInv, FundsTypeOK, DepositTypeOK, StoreTypeOK
<1> HIDE DEF made
<1> QED
  BY <1>2, <1>3, <1>4, <1>5, CheckoutStep DEF SaveCheckout

\* The customer and the provider only move the checkout session.
LEMMA SessionInv ==
  ASSUME FundsInv, NEW r \in Requests,
         CustomerPays(r) \/ DelayedPaymentEnds(r) \/ SessionExpires(r),
         UNCHANGED payouts
  PROVE  FundsInv'
<1>1. PICK s \in Sessions : psp' = [psp EXCEPT ![r] = s]
  BY DEF CustomerPays, DelayedPaymentEnds, SessionExpires, Sessions
<1>2. /\ psp' \in [Requests -> Sessions]
      /\ UNCHANGED <<storeVars, attempt, settling, acked>>
  BY <1>1 DEF FundsInv, FundsTypeOK, DepositTypeOK, CustomerPays,
     DelayedPaymentEnds, SessionExpires
<1> QED
  BY <1>2, SideStep DEF storeVars, FundsInv, FundsTypeOK, DepositTypeOK,
     StoreTypeOK, PayoutsTypeOK

\* A webhook that moves no money.
LEMMA WebhookSideStep ==
  ASSUME FundsInv,
         attempt' \in [Requests -> Attempts \cup {NoAttempt}],
         \A s \in Requests : attempt'[s].status = "NONE" <=> attempt[s].status = "NONE",
         settling' \in [Requests -> 0..MaxDeliveries], acked' \in SUBSET Requests,
         UNCHANGED <<storeVars, payouts, psp>>
  PROVE  FundsInv'
BY SideStep DEF storeVars, FundsInv, FundsTypeOK, DepositTypeOK,
   StoreTypeOK, PayoutsTypeOK

\* A webhook that credits a deposit.
LEMMA CreditInv ==
  ASSUME FundsInv, NEW r \in Requests, Claimable(r), Credit(r),
         settling' \in [Requests -> 0..MaxDeliveries], acked' = acked \cup {r},
         UNCHANGED <<customerActive, reserved, idem, req, notices, psp, payouts>>
  PROVE  FundsInv'
<1> DEFINE row == [txn[r] EXCEPT !.status = "COMPLETED"]
           made == [attempt[r] EXCEPT !.status = "COMPLETED", !.referenced = TRUE]
<1>1. r \in Rows /\ txn[r].type = "DEPOSIT"
  BY DEF Claimable, FundsInv, AttemptsBelong
<1>2. /\ txn[r] \in TxnRows /\ txn \in [Requests -> TxnRows \cup {NoTxn}]
      /\ attempt[r] \in Attempts
      /\ attempt \in [Requests -> Attempts \cup {NoAttempt}]
  BY <1>1, RowTypes, AttemptTyped
  DEF FundsInv, FundsTypeOK, DepositTypeOK, StoreTypeOK
<1>3. /\ row \in TxnRows /\ row.customer = txn[r].customer
      /\ row.type = txn[r].type /\ txn' = [txn EXCEPT ![r] = row]
  BY <1>2 DEF Credit, TxnRows, Settled
<1>4. made \in Attempts /\ made.status # "NONE" /\ attempt' = [attempt EXCEPT ![r] = made]
  BY <1>2 DEF Credit, Attempts
<1> HIDE DEF made
<1>5. /\ attempt' \in [Requests -> Attempts \cup {NoAttempt}]
      /\ \A s \in Requests : attempt'[s].status = "NONE" <=> attempt[s].status = "NONE"
  BY <1>2, <1>4 DEF Claimable
<1>6. balance' \in [Accounts -> Int] /\ reserved' \in [Accounts -> Int]
  BY <1>1, AmountsTyped DEF Credit
<1>7. /\ acked' \in SUBSET Requests /\ notices' \in SUBSET (Events \X Requests)
      /\ payouts' \in [Requests -> Seq({"PENDING", "COMPLETED", "FAILED"})]
  BY DEF FundsInv, FundsTypeOK, DepositTypeOK, StoreTypeOK, PayoutsTypeOK
<1> HIDE DEF row
<1> QED
  BY <1>1, <1>3, <1>5, <1>6, <1>7, UpdateStep

\* A Stripe delivery about a payment credits or finds it credited.
LEMMA StripePaidInv ==
  ASSUME FundsInv, NEW r \in Requests, StripePaid(r), UNCHANGED payouts
  PROVE  FundsInv'
<1> USE DEF StripePaid
<1>1. settling' \in [Requests -> 0..MaxDeliveries] /\ acked' \in SUBSET Requests
  BY DEF FundsInv, FundsTypeOK, DepositTypeOK
<1>2. CASE Claimable(r)
  BY <1>1, <1>2, CreditInv
<1>3. CASE ~Claimable(r)
  <2>1. UNCHANGED <<storeVars, payouts, psp, attempt>>
    BY <1>3 DEF storeVars
  <2> QED
    BY <1>1, <2>1, WebhookSideStep DEF FundsInv, FundsTypeOK, DepositTypeOK
<1> QED
  BY <1>2, <1>3

\* A Stripe delivery about no payment ends the attempt.
LEMMA StripeNotPaidInv ==
  ASSUME FundsInv, NEW r \in Requests, StripeNotPaid(r), UNCHANGED payouts
  PROVE  FundsInv'
<1>1. r \in Rows /\ txn[r].type = "DEPOSIT" /\ attempt[r].status = "PENDING"
  BY DEF StripeNotPaid, Claimable, FundsInv, AttemptsBelong
<1>2. attempt[r] \in Attempts /\ attempt \in [Requests -> Attempts \cup {NoAttempt}]
  BY <1>1, AttemptTyped DEF FundsInv, FundsTypeOK, DepositTypeOK
<1>3. PICK status \in {"FAILED", "CANCELLED"} :
        attempt' = [attempt EXCEPT ![r].status = status]
  BY DEF StripeNotPaid
<1>4. /\ attempt' \in [Requests -> Attempts \cup {NoAttempt}]
      /\ \A s \in Requests : attempt'[s].status = "NONE" <=> attempt[s].status = "NONE"
  BY <1>1, <1>2, <1>3 DEF Attempts
<1>5. /\ UNCHANGED <<storeVars, psp>>
      /\ settling' \in [Requests -> 0..MaxDeliveries] /\ acked' \in SUBSET Requests
  BY DEF StripeNotPaid, FundsInv, FundsTypeOK, DepositTypeOK
<1> QED
  BY <1>4, <1>5, WebhookSideStep

\* A CoinPayments delivery reads, settles or dies.
LEMMA CoinPaymentsInv ==
  ASSUME FundsInv, NEW r \in Requests, UNCHANGED payouts,
         CoinPaymentsRead(r) \/ CoinPaymentsSettle(r) \/ DeliveryDies(r)
  PROVE  FundsInv'
<1>1. /\ settling \in [Requests -> 0..MaxDeliveries] /\ acked \in SUBSET Requests
      /\ attempt \in [Requests -> Attempts \cup {NoAttempt}]
  BY DEF FundsInv, FundsTypeOK, DepositTypeOK
<1>2. settling' \in [Requests -> 0..MaxDeliveries] /\ acked' \in SUBSET Requests
  BY <1>1, DeliveriesAssumption
  DEF DeliveriesAssumption, CoinPaymentsRead, CoinPaymentsSettle, DeliveryDies
<1>3. CASE CoinPaymentsSettle(r) /\ Claimable(r)
  BY <1>2, <1>3, CreditInv DEF CoinPaymentsSettle
<1>4. CASE CoinPaymentsSettle(r) /\ ~Claimable(r)
  <2>1. UNCHANGED <<storeVars, payouts, psp, attempt>>
    BY <1>4 DEF CoinPaymentsSettle, storeVars
  <2> QED
    BY <1>1, <1>2, <2>1, WebhookSideStep
<1>5. CASE CoinPaymentsRead(r) \/ DeliveryDies(r)
  <2>1. UNCHANGED <<storeVars, payouts, psp, attempt>>
    BY <1>5 DEF CoinPaymentsRead, DeliveryDies
  <2> QED
    BY <1>1, <1>2, <2>1, WebhookSideStep
<1> QED
  BY <1>3, <1>4, <1>5

\* Every step of deposits.
LEMMA DepositsInv ==
  ASSUME FundsInv, DepositStep, UNCHANGED payouts
  PROVE  FundsInv'
<1>1. ASSUME NEW r \in Requests, NEW u \in Users, NEW k \in Keys,
             NEW b \in DepositBodies, DepositSubmit(r, u, k, b)
      PROVE  FundsInv'
  <2>1. b \in Bodies /\ Submit(r, u, k, b) /\ UNCHANGED <<payouts, pspVars>>
    BY <1>1 DEF DepositSubmit, Bodies
  <2> QED
    BY <2>1, SubmitInv
<1>2. ASSUME NEW r \in Requests,
             \/ DepositQuote(r) \/ DepositCommit(r) \/ OpenCheckout(r)
             \/ MarkFailed(r) \/ SaveCheckout(r)
      PROVE  FundsInv'
  BY <1>2, DepositQuoteInv, DepositCommitInv, OpenCheckoutInv, MarkFailedInv,
     SaveCheckoutInv
<1>3. ASSUME NEW r \in Requests,
             CustomerPays(r) \/ DelayedPaymentEnds(r) \/ SessionExpires(r)
      PROVE  FundsInv'
  BY <1>3, SessionInv
<1>4. ASSUME NEW r \in Requests, Webhook(r)
      PROVE  FundsInv'
  BY <1>4, StripePaidInv, StripeNotPaidInv, CoinPaymentsInv DEF Webhook
<1> QED
  BY <1>1, <1>2, <1>3, <1>4 DEF DepositStep

-----------------------------------------------------------------------------
(* The theorems. *)

\* Every step of the component.
LEMMA StepInv == FundsInv /\ [FundsNext]_fundsVars => FundsInv'
<1> SUFFICES ASSUME FundsInv, [FundsNext]_fundsVars PROVE FundsInv'
  OBVIOUS
<1>1. CASE WithdrawalStep /\ UNCHANGED pspVars
  BY <1>1, WithdrawalsInv
<1>2. CASE TransferStep /\ UNCHANGED <<payouts, pspVars>>
  BY <1>2, TransfersInv
<1>3. CASE DepositStep /\ UNCHANGED payouts
  BY <1>3, DepositsInv
<1>4. CASE /\ \/ \E r \in Requests : RequestAborts(r)
              \/ \E u \in Users : DeactivateCustomer(u)
           /\ UNCHANGED <<payouts, pspVars>>
  BY <1>4, AbortsInv, DeactivateInv
<1>5. CASE UNCHANGED fundsVars
  BY <1>5, SideStep DEF fundsVars, storeVars, pspVars, FundsInv, FundsTypeOK,
     DepositTypeOK, StoreTypeOK, PayoutsTypeOK
<1> QED
  BY <1>1, <1>2, <1>3, <1>4, <1>5 DEF FundsNext

\* The rows of accounts, keys, transactions, attempts and payouts never
\* contradict each other, whichever handler, administrator or webhook commits.
THEOREM Invariant == FundsSpec => []FundsInv
BY InitInv, StepInv, PTL DEF FundsSpec

\* Every reachable state is well typed.
THEOREM TypeCorrect == FundsSpec => []FundsTypeOK
<1>1. FundsInv => FundsTypeOK
  BY DEF FundsInv
<1> QED
  BY <1>1, Invariant, PTL

\* However lookups, commits, retries and crashes interleave, requests of one
\* customer under one key create at most one transaction: each transaction is
\* the one its key names.
THEOREM OneTransaction == FundsSpec => []OneTransactionPerKey
<1>1. FundsInv => OneTransactionPerKey
  <2> SUFFICES ASSUME FundsInv, NEW r \in Rows, NEW s \in Rows,
                      req[r].user = req[s].user, req[r].key = req[s].key
               PROVE  r = s
    BY DEF OneTransactionPerKey
  <2>1. ClaimOf(r).txn = r /\ ClaimOf(s).txn = s
    BY DEF FundsInv, RowsAreClaimed
  <2>2. ClaimOf(r) = ClaimOf(s)
    BY DEF ClaimOf
  <2> QED
    BY <2>1, <2>2
<1> QED
  BY <1>1, Invariant, PTL
=============================================================================
