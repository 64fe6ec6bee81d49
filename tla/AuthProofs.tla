----------------------------- MODULE AuthProofs -----------------------------
(***************************************************************************)
(* Proofs about Auth, for any finite number of handlers, any forms and     *)
(* sessions, and any number of codes and attempts.                         *)
(***************************************************************************)
EXTENDS Auth, FiniteSetTheorems, TLAPS

\* The counted sets, by what one handler remembers.
WillMiss(r, c) == \/ r.op = "miss" /\ r.row.code = c
                  \/ r.op = "wrong" /\ r.code = c
WillReset(r, c) == r.op = "reset" /\ r.code = c

-----------------------------------------------------------------------------
(* Counting handlers. *)

\* Sets of handlers are finite, and no larger than all of them.
LEMMA CountOfHandlers ==
  ASSUME NEW A \in SUBSET Handlers
  PROVE  /\ IsFiniteSet(A)
         /\ Cardinality(A) \in Nat
         /\ Cardinality(Handlers) \in Nat
         /\ Cardinality(A) <= Cardinality(Handlers)
BY AuthAssumption, FS_Subset, FS_CardinalityType

\* B counts no more than A, and fewer if a handler that was counted has left.
FewerCounted(A, B, left) ==
  /\ Cardinality(B) <= Cardinality(A)
  /\ left => Cardinality(B) + 1 <= Cardinality(A)

\* A set of handlers that one handler leaves, if he was in it.
LEMMA CountWithout ==
  ASSUME NEW A \in SUBSET Handlers, NEW h
  PROVE  FewerCounted(A, A \ {h}, h \in A)
<1>1. IsFiniteSet(A) /\ Cardinality(A) \in Nat
  BY CountOfHandlers
<1>2. Cardinality(A \ {h}) = IF h \in A THEN Cardinality(A) - 1 ELSE Cardinality(A)
  BY <1>1, FS_RemoveElement
<1> QED
  BY <1>1, <1>2 DEF FewerCounted

\* What a step of one handler does to the three counts: each is bounded, and
\* the handler is counted no more where its new state does not belong.
LEMMA Counts ==
  ASSUME AuthTypeOK, NEW h \in Handlers, NEW r \in HandlerStates,
         handler' = [handler EXCEPT ![h] = r]
  PROVE  /\ \A g \in Handlers : handler'[g] = IF g = h THEN r ELSE handler[g]
         /\ \A c \in Codes :
              /\ Cardinality(Missing(c)) \in Nat
              /\ Cardinality(Missing(c)') \in Nat
              /\ Cardinality(Missing(c)') <= Cardinality(Handlers)
              /\ ~WillMiss(r, c) =>
                   FewerCounted(Missing(c), Missing(c)', WillMiss(handler[h], c))
         /\ \A c \in Codes :
              /\ Cardinality(Resetting(c)) \in Nat
              /\ Cardinality(Resetting(c)') \in Nat
              /\ Cardinality(Resetting(c)') <= Cardinality(Handlers)
              /\ ~WillReset(r, c) =>
                   FewerCounted(Resetting(c), Resetting(c)', WillReset(handler[h], c))
         /\ /\ Cardinality(Creating) \in Nat
            /\ Cardinality(Creating') \in Nat
            /\ Cardinality(Creating') <= Cardinality(Handlers)
            /\ r.op # "create" =>
                 FewerCounted(Creating, Creating', handler[h].op = "create")
<1>1. \A g \in Handlers : handler'[g] = IF g = h THEN r ELSE handler[g]
  BY DEF AuthTypeOK
<1>2. ASSUME NEW c \in Codes
      PROVE  /\ Cardinality(Missing(c)) \in Nat
             /\ Cardinality(Missing(c)') \in Nat
             /\ Cardinality(Missing(c)') <= Cardinality(Handlers)
             /\ ~WillMiss(r, c) => FewerCounted(Missing(c), Missing(c)', WillMiss(handler[h], c))
  <2>1. Missing(c) = {g \in Handlers : WillMiss(handler[g], c)}
    BY DEF Missing, WillMiss
  <2>2. Missing(c)' = {g \in Handlers : WillMiss(handler'[g], c)}
    BY DEF Missing, WillMiss
  <2>3. Missing(c) \in SUBSET Handlers /\ Missing(c)' \in SUBSET Handlers
    BY <2>1, <2>2
  <2>4. ~WillMiss(r, c) => Missing(c)' = Missing(c) \ {h}
    BY <1>1, <2>1, <2>2
  <2>5. h \in Missing(c) <=> WillMiss(handler[h], c)
    BY <2>1
  <2> QED
    BY <2>3, <2>4, <2>5, CountOfHandlers, CountWithout DEF FewerCounted
<1>3. ASSUME NEW c \in Codes
      PROVE  /\ Cardinality(Resetting(c)) \in Nat
             /\ Cardinality(Resetting(c)') \in Nat
             /\ Cardinality(Resetting(c)') <= Cardinality(Handlers)
             /\ ~WillReset(r, c) => FewerCounted(Resetting(c), Resetting(c)', WillReset(handler[h], c))
  <2>1. Resetting(c) = {g \in Handlers : WillReset(handler[g], c)}
    BY DEF Resetting, WillReset
  <2>2. Resetting(c)' = {g \in Handlers : WillReset(handler'[g], c)}
    BY DEF Resetting, WillReset
  <2>3. Resetting(c) \in SUBSET Handlers /\ Resetting(c)' \in SUBSET Handlers
    BY <2>1, <2>2
  <2>4. ~WillReset(r, c) => Resetting(c)' = Resetting(c) \ {h}
    BY <1>1, <2>1, <2>2
  <2>5. h \in Resetting(c) <=> WillReset(handler[h], c)
    BY <2>1
  <2> QED
    BY <2>3, <2>4, <2>5, CountOfHandlers, CountWithout DEF FewerCounted
<1>4. /\ Cardinality(Creating) \in Nat
      /\ Cardinality(Creating') \in Nat
      /\ Cardinality(Creating') <= Cardinality(Handlers)
      /\ r.op # "create" =>
           FewerCounted(Creating, Creating', handler[h].op = "create")
  <2>1. r.op # "create" => Creating' = Creating \ {h}
    BY <1>1 DEF Creating
  <2>2. Creating \in SUBSET Handlers /\ Creating' \in SUBSET Handlers
    BY DEF Creating
  <2>3. h \in Creating <=> handler[h].op = "create"
    BY DEF Creating
  <2> QED
    BY <2>1, <2>2, <2>3, CountOfHandlers, CountWithout
<1> QED
  BY <1>1, <1>2, <1>3, <1>4

\* Sets of codes are finite.
LEMMA CodesAreFinite ==
  ASSUME NEW A \in SUBSET Codes
  PROVE  IsFiniteSet(A) /\ Cardinality(A) \in Nat
<1>1. IsFiniteSet(1 .. MaxCodes)
  BY FS_Interval, AuthAssumption
<1>2. IsFiniteSet(A)
  BY <1>1, FS_Subset DEF Codes
<1> QED
  BY <1>2, FS_CardinalityType

\* A part of a set of codes counts no more than the set.
LEMMA FewerCodes ==
  ASSUME NEW A \in SUBSET Codes, NEW B \in SUBSET A
  PROVE  Cardinality(B) <= Cardinality(A)
<1>1. IsFiniteSet(A)
  BY CodesAreFinite
<1> QED
  BY <1>1, FS_Subset

\* Giving up or finishing leaves a handler at rest.
Rest == [op |-> "idle"]

\* A handler at rest remembers nothing.
LEMMA RestIsQuiet ==
  /\ Rest \in HandlerStates /\ Remembers(Rest)
  /\ Rest.op = "idle"
BY DEF Rest, HandlerStates, Remembers

-----------------------------------------------------------------------------
(* Steps that change no row: a handler reads, or gives up. *)

\* A handler that changes no row may remember what AuthInv lets it.
LEMMA QuietStep ==
  ASSUME AuthInv, NEW h \in Handlers, NEW r \in HandlerStates,
         handler' = [handler EXCEPT ![h] = r],
         Remembers(r),
         \A c \in Codes : WillMiss(r, c) => wrong[c] < MaxAttempts,
         \A c \in Codes : WillReset(r, c) => resets[c] = 0,
         r.op # "create",
         UNCHANGED <<rows, codeHistory, wrong, tokens, resets, events>>
  PROVE  AuthInv'
<1> USE DEF AuthInv, rows, codeHistory
<1>1. \A g \in Handlers : handler'[g] = IF g = h THEN r ELSE handler[g]
  BY Counts
<1>2. AuthTypeOK'
  BY DEF AuthTypeOK
<1>3. CodesAreNumbered' /\ RowsBelong' /\ VerifiedCodesWereMailed' /\ RegisteredAsVerified'
  BY DEF CodesAreNumbered, RowsBelong, VerifiedCodesWereMailed,
         RegisteredAsVerified, Registered
<1>4. RowsAreIssued'
  BY <1>1 DEF RowsAreIssued, Remembers, IssuedRow, Registered
<1>5. WrongAnswersAreCounted'
  <2>1. ASSUME NEW c \in Codes
        PROVE  wrong[c] + Cardinality(Missing(c)')
                 < MaxAttempts + Cardinality(Handlers)
    <3>1. /\ wrong[c] \in Nat /\ MaxAttempts \in Nat /\ Cardinality(Handlers) \in Nat
          /\ wrong[c] + Cardinality(Missing(c)) < MaxAttempts + Cardinality(Handlers)
      BY AuthAssumption, CountOfHandlers DEF AuthTypeOK, WrongAnswersAreCounted
    <3>2. /\ Cardinality(Missing(c)) \in Nat
          /\ Cardinality(Missing(c)') \in Nat
          /\ Cardinality(Missing(c)') <= Cardinality(Handlers)
          /\ ~WillMiss(r, c) => Cardinality(Missing(c)') <= Cardinality(Missing(c))
      BY Counts DEF FewerCounted
    <3> QED
      BY <3>1, <3>2
  <2> QED
    BY <2>1 DEF WrongAnswersAreCounted
<1>6. ResetsAreCounted'
  <2>1. ASSUME NEW c \in Codes
        PROVE  resets[c] + Cardinality(Resetting(c)') <= Cardinality(Handlers)
    <3>1. /\ resets[c] \in Nat /\ Cardinality(Handlers) \in Nat
          /\ resets[c] + Cardinality(Resetting(c)) <= Cardinality(Handlers)
      BY CountOfHandlers DEF AuthTypeOK, ResetsAreCounted
    <3>2. /\ Cardinality(Resetting(c)) \in Nat
          /\ Cardinality(Resetting(c)') \in Nat
          /\ Cardinality(Resetting(c)') <= Cardinality(Handlers)
          /\ ~WillReset(r, c) => Cardinality(Resetting(c)') <= Cardinality(Resetting(c))
      BY Counts DEF FewerCounted
    <3> QED
      BY <3>1, <3>2
  <2> QED
    BY <2>1 DEF ResetsAreCounted
<1>7. UsableCodesAreBounded'
  <2>1. Unused' = Unused
    BY DEF Unused
  <2>2. Cardinality(Unused) \in Nat
    BY CodesAreFinite DEF Unused
  <2>3. /\ Cardinality(Creating) \in Nat /\ Cardinality(Creating') \in Nat
        /\ Cardinality(Creating') <= Cardinality(Creating)
    BY Counts DEF FewerCounted
  <2> QED
    BY <2>1, <2>2, <2>3, CountOfHandlers DEF UsableCodesAreBounded
<1> QED
  BY <1>2, <1>3, <1>4, <1>5, <1>6, <1>7
\* Every reading step is such a step, and so is giving up.
LEMMA RegistrationReads ==
  ASSUME AuthInv, NEW h \in Handlers,
         \/ \E f \in Forms : RegisterRead(h, f)
         \/ VerifyRead(h) \/ ResendRead(h)
  PROVE  AuthInv'
<1> USE DEF Begins
<1>1. AuthTypeOK
  BY DEF AuthInv
<1>2. ASSUME NEW f \in Forms, RegisterRead(h, f) PROVE AuthInv'
  <2> DEFINE r == [op |-> "register", form |-> f]
  <2>1. r \in HandlerStates
    BY DEF HandlerStates
  <2>2. Remembers(r) /\ \A c \in Codes : ~WillMiss(r, c) /\ ~WillReset(r, c)
    BY DEF Remembers, WillMiss, WillReset
  <2>3. handler' = [handler EXCEPT ![h] = r] /\ r.op # "create"
    BY <1>2 DEF RegisterRead
  <2> HIDE DEF r
  <2> QED
    BY <1>2, <2>1, <2>2, <2>3, QuietStep DEF RegisterRead
<1>3. CASE VerifyRead(h)
  <2>1. pending \in PendingRows /\ IssuedRow(pending)
    BY <1>1, <1>3 DEF AuthTypeOK, VerifyRead, AuthInv, RowsAreIssued
  <2>2. PICK op \in {"miss", "confirm"} :
          /\ Begins(h, [op |-> op, row |-> pending])
          /\ op = "confirm" => pending.code \in mailed
    BY <1>3 DEF VerifyRead
  <2> DEFINE r == [op |-> op, row |-> pending]
  <2>3. r \in HandlerStates
    BY <2>1 DEF HandlerStates
  <2>4. Remembers(r)
    BY <2>1, <2>2 DEF Remembers
  <2>5. \A c \in Codes : ~WillReset(r, c)
    BY DEF WillReset
  <2>6. wrong[pending.code] < MaxAttempts
    <3>1. /\ wrong[pending.code] \in Nat /\ pending.attempts \in Nat
          /\ MaxAttempts \in Nat
      BY <1>1, <2>1, AuthAssumption DEF AuthTypeOK, PendingRows
    <3> QED
      BY <1>3, <3>1 DEF AuthInv, WrongAnswersAreCounted, VerifyRead
  <2>7. \A c \in Codes : WillMiss(r, c) => wrong[c] < MaxAttempts
    BY <2>6 DEF WillMiss
  <2>8. handler' = [handler EXCEPT ![h] = r] /\ r.op # "create"
    BY <2>2
  <2> HIDE DEF r
  <2> QED
    BY <1>3, <2>3, <2>4, <2>5, <2>7, <2>8, QuietStep DEF VerifyRead
<1>4. CASE ResendRead(h)
  <2> DEFINE r == [op |-> "resend", id |-> pending.id]
  <2>1. r \in HandlerStates
    BY <1>1, <1>4 DEF AuthTypeOK, ResendRead, PendingRows, HandlerStates
  <2>2. Remembers(r) /\ \A c \in Codes : ~WillMiss(r, c) /\ ~WillReset(r, c)
    BY DEF Remembers, WillMiss, WillReset
  <2>3. handler' = [handler EXCEPT ![h] = r] /\ r.op # "create"
    BY <1>4 DEF ResendRead
  <2> HIDE DEF r
  <2> QED
    BY <1>4, <2>1, <2>2, <2>3, QuietStep DEF ResendRead
<1> QED
  BY <1>2, <1>3, <1>4

\* forgotPassword, verifyResetOtp and resetPassword read.
LEMMA ResetReads ==
  ASSUME AuthInv, NEW h \in Handlers,
         \/ ForgotRead(h)
         \/ \E c \in Codes : CheckRead(h, c) \/ ResetRead(h, c)
  PROVE  AuthInv'
<1> USE DEF Begins
<1>1. AuthTypeOK
  BY DEF AuthInv
<1>2. CASE ForgotRead(h)
  <2> DEFINE r == [op |-> "invalidate"]
  <2>1. r \in HandlerStates
    BY DEF HandlerStates
  <2>2. Remembers(r) /\ \A c \in Codes : ~WillMiss(r, c) /\ ~WillReset(r, c)
    BY <1>2 DEF Remembers, WillMiss, WillReset, ForgotRead
  <2>3. handler' = [handler EXCEPT ![h] = r] /\ r.op # "create"
    BY <1>2 DEF ForgotRead
  <2> HIDE DEF r
  <2> QED
    BY <1>2, <2>1, <2>2, <2>3, QuietStep DEF ForgotRead
<1>3. ASSUME NEW c \in Codes, CheckRead(h, c) PROVE AuthInv'
  <2>1. PICK op \in {"wrong", "right"} :
          /\ Begins(h, [op |-> op, code |-> c])
          /\ op = "right" => c \in mailed
    BY <1>3 DEF CheckRead
  <2> DEFINE r == [op |-> op, code |-> c]
  <2>2. r \in HandlerStates
    BY DEF HandlerStates
  <2>3. otp[c].status = "unused" /\ otp[c].attempts < MaxAttempts
    BY <1>3 DEF CheckRead, Latest, Unused
  <2>4. Remembers(r) /\ \A d \in Codes : ~WillReset(r, d)
    BY <2>1, <2>3 DEF Remembers, WillReset
  <2>5. wrong[c] < MaxAttempts
    <3>1. wrong[c] \in Nat /\ otp[c].attempts \in Nat /\ MaxAttempts \in Nat
      BY <1>1, AuthAssumption DEF AuthTypeOK
    <3> QED
      BY <2>3, <3>1 DEF AuthInv, WrongAnswersAreCounted
  <2>6. \A d \in Codes : WillMiss(r, d) => wrong[d] < MaxAttempts
    BY <2>5 DEF WillMiss
  <2>7. handler' = [handler EXCEPT ![h] = r] /\ r.op # "create"
    BY <2>1
  <2> HIDE DEF r
  <2> QED
    BY <1>3, <2>2, <2>4, <2>6, <2>7, QuietStep DEF CheckRead
<1>4. ASSUME NEW c \in Codes, ResetRead(h, c) PROVE AuthInv'
  <2> DEFINE r == [op |-> "reset", code |-> c]
  <2>1. r \in HandlerStates
    BY DEF HandlerStates
  <2>2. Remembers(r) /\ \A d \in Codes : ~WillMiss(r, d)
    BY <1>4 DEF Remembers, WillMiss, ResetRead, MayReset
  <2>3. resets[c] = 0
    BY <1>1, <1>4 DEF ResetRead, MayReset, AuthInv, ResetsAreCounted, AuthTypeOK
  <2>4. \A d \in Codes : WillReset(r, d) => resets[d] = 0
    BY <2>3 DEF WillReset
  <2>5. handler' = [handler EXCEPT ![h] = r] /\ r.op # "create"
    BY <1>4 DEF ResetRead
  <2> HIDE DEF r
  <2> QED
    BY <1>4, <2>1, <2>2, <2>4, <2>5, QuietStep DEF ResetRead
<1> QED
  BY <1>2, <1>3, <1>4

\* login and refreshAccessToken read, and any handler may give up.
LEMMA SessionReads ==
  ASSUME AuthInv, NEW h \in Handlers,
         \/ LoginRead(h)
         \/ \E s \in Sessions : RefreshRead(h, s)
         \/ GivesUp(h)
  PROVE  AuthInv'
<1> USE DEF Begins
<1>1. CASE LoginRead(h)
  <2> DEFINE r == [op |-> "login"]
  <2>1. r \in HandlerStates
    BY DEF HandlerStates
  <2>2. Remembers(r) /\ \A c \in Codes : ~WillMiss(r, c) /\ ~WillReset(r, c)
    BY <1>1 DEF Remembers, WillMiss, WillReset, LoginRead
  <2>3. handler' = [handler EXCEPT ![h] = r] /\ r.op # "create"
    BY <1>1 DEF LoginRead
  <2> HIDE DEF r
  <2> QED
    BY <1>1, <2>1, <2>2, <2>3, QuietStep DEF LoginRead
<1>2. ASSUME NEW s \in Sessions, RefreshRead(h, s) PROVE AuthInv'
  <2> DEFINE r == [op |-> "refresh", session |-> s]
  <2>1. r \in HandlerStates
    BY DEF HandlerStates
  <2>2. Remembers(r) /\ \A c \in Codes : ~WillMiss(r, c) /\ ~WillReset(r, c)
    BY DEF Remembers, WillMiss, WillReset
  <2>3. handler' = [handler EXCEPT ![h] = r] /\ r.op # "create"
    BY <1>2 DEF RefreshRead
  <2> HIDE DEF r
  <2> QED
    BY <1>2, <2>1, <2>2, <2>3, QuietStep DEF RefreshRead
<1>3. CASE GivesUp(h)
  <2>1. \A c \in Codes : ~WillMiss(Rest, c) /\ ~WillReset(Rest, c)
    BY DEF Rest, WillMiss, WillReset
  <2>2. handler' = [handler EXCEPT ![h] = Rest]
    BY <1>3 DEF GivesUp, Rest
  <2> QED
    BY <1>3, <2>1, <2>2, RestIsQuiet, QuietStep DEF GivesUp
<1> QED
  BY <1>1, <1>2, <1>3

-----------------------------------------------------------------------------
(* Steps that store a new code. *)

\* The next code has left no trace.
LEMMA NextCodeIsFresh ==
  ASSUME AuthInv, lastCode < MaxCodes
  PROVE  /\ lastCode + 1 \in Codes
         /\ otp[lastCode + 1] = NoOtp /\ issuedFor[lastCode + 1] = Null
         /\ wrong[lastCode + 1] = 0 /\ resets[lastCode + 1] = 0
         /\ lastCode + 1 \notin tokens
         /\ \A c \in 1 .. lastCode : c # lastCode + 1 /\ c \in 1 .. (lastCode + 1)
<1>1. lastCode \in Nat /\ MaxCodes \in Nat
  BY AuthAssumption DEF AuthInv, AuthTypeOK
<1>2. lastCode + 1 \in Codes /\ lastCode + 1 > lastCode
  BY <1>1 DEF Codes
<1>3. /\ otp[lastCode + 1] = NoOtp /\ issuedFor[lastCode + 1] = Null
      /\ wrong[lastCode + 1] = 0
  BY <1>2 DEF AuthInv, CodesAreNumbered
<1>4. ~otp[lastCode + 1].verified
  BY <1>3 DEF NoOtp
<1>5. resets[lastCode + 1] = 0
  BY <1>2, <1>4 DEF AuthInv, ResetsAreCounted, AuthTypeOK
<1>6. lastCode + 1 \notin tokens
  BY <1>4 DEF AuthInv, VerifiedCodesWereMailed
<1>7. \A c \in 1 .. lastCode : c # lastCode + 1 /\ c \in 1 .. (lastCode + 1)
  BY <1>1
<1> QED
  BY <1>2, <1>3, <1>5, <1>6, <1>7

\* The handler goes on to mail the code; nobody else remembers it.
LEMMA NewCode ==
  ASSUME AuthInv, NEW h \in Handlers, NEW form \in Forms \cup {Null},
         Issues(form),
         handler' = [handler EXCEPT ![h] = [op |-> "mail", code |-> lastCode + 1]],
         otp' \in [Codes -> [status: {"none", "unused", "used"}, attempts: Nat,
                             verified: BOOLEAN]],
         otp'[lastCode + 1].status \in {"none", "unused"},
         otp'[lastCode + 1].attempts = 0, ~otp'[lastCode + 1].verified,
         otp'[lastCode + 1].status # "none" => form = Null /\ Registered,
         \A c \in Codes \ {lastCode + 1} : otp'[c] = otp[c],
         pending' \in {NoPending} \cup PendingRows,
         \/ pending' = pending
         \/ /\ pending' # NoPending /\ form \in Forms /\ pending'.form = form
            /\ pending'.code = lastCode + 1,
         Cardinality(Unused') + Cardinality(Creating') <= Cardinality(Handlers),
         UNCHANGED <<user, session, mailed, wrong, tokens, resets, events>>
  PROVE  AuthInv'
<1> DEFINE n == lastCode + 1
           r == [op |-> "mail", code |-> n]
<1> USE DEF AuthInv
<1>0. lastCode \in Nat /\ MaxCodes \in Nat /\ lastCode < MaxCodes
  BY AuthAssumption DEF AuthTypeOK, Issues
<1>1. /\ n \in Codes /\ otp[n] = NoOtp /\ issuedFor[n] = Null /\ wrong[n] = 0
      /\ resets[n] = 0 /\ n \notin tokens
      /\ \A c \in 1 .. lastCode : c # n /\ c \in 1 .. n
  BY <1>0, NextCodeIsFresh
<1>2. /\ lastCode' = n
      /\ \A c \in Codes : issuedFor'[c] = IF c = n THEN form ELSE issuedFor[c]
      /\ issuedFor' \in [Codes -> Forms \cup {Null}]
  BY <1>1 DEF Issues, AuthTypeOK
<1>3. r \in HandlerStates
  BY <1>1 DEF HandlerStates
<1>4. \A g \in Handlers : handler'[g] = IF g = h THEN r ELSE handler[g]
  BY <1>3, Counts
<1>5. AuthTypeOK'
  <2>1. lastCode' \in 0 .. MaxCodes
    BY <1>0, <1>2
  <2>2. handler' \in [Handlers -> HandlerStates]
    BY <1>3 DEF AuthTypeOK
  <2>3. mailed' \subseteq 1 .. lastCode'
    BY <1>1, <1>2 DEF AuthTypeOK
  <2> QED
    BY <1>2, <2>1, <2>2, <2>3 DEF AuthTypeOK
<1>6. CodesAreNumbered'
  <2>1. ASSUME NEW c \in Codes
        PROVE  /\ c > n => otp'[c] = NoOtp /\ issuedFor'[c] = Null /\ wrong[c] = 0
               /\ issuedFor'[c] # Null => otp'[c].status = "none"
    <3>1. CASE c = n
      BY <1>0, <1>1, <1>2, <3>1
    <3>2. CASE c # n
      <4>1. c > n => c > lastCode
        BY <1>0 DEF Codes
      <4> QED
        BY <1>2, <3>2, <4>1 DEF CodesAreNumbered
    <3> QED
      BY <3>1, <3>2
  <2> QED
    BY <1>2, <2>1 DEF CodesAreNumbered
<1>7. \A row \in PendingRows : IssuedRow(row) => IssuedRow(row)'
  BY <1>0, <1>1, <1>2 DEF IssuedRow, PendingRows, Codes
<1>8. RowsAreIssued'
  <2>1. pending' # NoPending => IssuedRow(pending)'
    <3>1. CASE pending' = pending
      BY <1>7, <3>1 DEF RowsAreIssued, AuthTypeOK
    <3>2. CASE pending'.code = n /\ pending'.form = form
      BY <1>0, <1>1, <1>2, <3>2 DEF IssuedRow
    <3> QED
      BY <3>1, <3>2
  <2>2. ASSUME NEW g \in Handlers PROVE Remembers(handler[g])'
    <3>1. CASE g = h
      BY <1>0, <1>2, <1>4, <3>1 DEF Remembers
    <3>2. CASE g # h
      <4>1. handler'[g] = handler[g] /\ handler[g] \in HandlerStates
        BY <1>4, <3>2 DEF AuthTypeOK
      <4>2. Remembers(handler[g])
        BY DEF RowsAreIssued
      <4>3. \A c \in Codes : /\ otp[c].status # "none" => c # n
                             /\ otp[c].verified => c # n
        BY <1>1 DEF NoOtp
      <4> DEFINE q == handler[g]
      <4>4. q.op = "mail" => q.code <= lastCode'
        BY <4>1, <4>2, <1>0, <1>2 DEF Remembers, HandlerStates, Codes
      <4>5. /\ q.op \in {"miss", "confirm"} => IssuedRow(q.row)'
            /\ q.op = "confirm" => q.row.code \in mailed'
        BY <4>1, <4>2, <1>7 DEF Remembers, HandlerStates
      <4>6. /\ q.op \in {"wrong", "right", "reset"} => otp'[q.code].status # "none"
            /\ q.op = "right" => q.code \in mailed'
            /\ q.op = "reset" => otp'[q.code].verified
        BY <4>1, <4>2, <4>3 DEF Remembers, HandlerStates
      <4>7. q.op \in {"invalidate", "create", "login"} => Registered'
        BY <4>2 DEF Remembers, Registered
      <4> QED
        BY <4>1, <4>4, <4>5, <4>6, <4>7 DEF Remembers
    <3> QED
      BY <3>1, <3>2
  <2> QED
    BY <2>1, <2>2 DEF RowsAreIssued
<1>9. RowsBelong'
  BY DEF RowsBelong, Registered
<1>10. VerifiedCodesWereMailed'
  BY <1>1 DEF VerifiedCodesWereMailed, AuthTypeOK
<1>11. WrongAnswersAreCounted'
  <2>1. pending' # NoPending => wrong'[pending'.code] <= pending'.attempts
    <3>1. CASE pending' = pending
      BY <3>1 DEF WrongAnswersAreCounted
    <3>2. CASE pending' \in PendingRows /\ pending'.code = n
      BY <1>1, <3>2 DEF PendingRows
    <3> QED
      BY <3>1, <3>2
  <2>2. ASSUME NEW c \in Codes
        PROVE  /\ otp'[c].status # "none" => wrong'[c] <= otp'[c].attempts
               /\ wrong'[c] + Cardinality(Missing(c)') < MaxAttempts + Cardinality(Handlers)
    <3>1. ~WillMiss(r, c)
      BY DEF WillMiss
    <3>2. /\ Cardinality(Missing(c)) \in Nat /\ Cardinality(Missing(c)') \in Nat
          /\ Cardinality(Missing(c)') <= Cardinality(Missing(c))
      BY <1>3, <3>1, Counts DEF FewerCounted
    <3>3. wrong[c] \in Nat /\ MaxAttempts \in Nat /\ Cardinality(Handlers) \in Nat
      BY AuthAssumption, CountOfHandlers DEF AuthTypeOK
    <3>4. wrong[c] + Cardinality(Missing(c)) < MaxAttempts + Cardinality(Handlers)
      BY DEF WrongAnswersAreCounted
    <3>5. wrong[c] + Cardinality(Missing(c)') < MaxAttempts + Cardinality(Handlers)
      BY <3>2, <3>3, <3>4
    <3> QED
      BY <1>1, <3>5 DEF WrongAnswersAreCounted
  <2> QED
    BY <2>1, <2>2 DEF WrongAnswersAreCounted
<1>12. ResetsAreCounted'
  <2>1. ASSUME NEW c \in Codes
        PROVE  resets[c] + Cardinality(Resetting(c)') <= Cardinality(Handlers)
    <3>1. ~WillReset(r, c)
      BY DEF WillReset
    <3>2. /\ Cardinality(Resetting(c)) \in Nat /\ Cardinality(Resetting(c)') \in Nat
          /\ Cardinality(Resetting(c)') <= Cardinality(Resetting(c))
      BY <1>3, <3>1, Counts DEF FewerCounted
    <3>3. /\ resets[c] \in Nat /\ Cardinality(Handlers) \in Nat
          /\ resets[c] + Cardinality(Resetting(c)) <= Cardinality(Handlers)
      BY CountOfHandlers DEF AuthTypeOK, ResetsAreCounted
    <3> QED
      BY <3>2, <3>3
  <2>2. \A c \in Codes : resets[c] > 0 => otp'[c].verified /\ otp'[c].status = "used"
    BY <1>1 DEF ResetsAreCounted
  <2> QED
    BY <2>1, <2>2 DEF ResetsAreCounted
<1>13. RegisteredAsVerified'
  BY <1>1, <1>2 DEF RegisteredAsVerified, Registered, AuthTypeOK
<1> QED
  BY <1>5, <1>6, <1>8, <1>9, <1>10, <1>11, <1>12, <1>13 DEF UsableCodesAreBounded

\* Whoever has read a waiting row, by its id finds one and not none.
LEMMA PendingRowById ==
  ASSUME AuthTypeOK, NEW id \in Nat \ {0}, pending.id = id
  PROVE  pending # NoPending /\ pending \in PendingRows
BY DEF AuthTypeOK, NoPending

\* The codes that are stored with the waiting registration ...
LEMMA RegistrationCodes ==
  ASSUME AuthInv, NEW h \in Handlers, RegisterStore(h) \/ ResendStore(h)
  PROVE  AuthInv'
<1> DEFINE r == [op |-> "mail", code |-> lastCode + 1]
<1>1. AuthTypeOK /\ handler[h] \in HandlerStates
  BY DEF AuthInv, AuthTypeOK
<1>2. lastCode < MaxCodes
  BY DEF RegisterStore, ResendStore, Issues
<1>3. lastCode + 1 \in Codes /\ otp[lastCode + 1] = NoOtp
  BY <1>2, NextCodeIsFresh
<1>4. PICK form \in Forms :
        /\ Issues(form)
        /\ pending' \in PendingRows /\ pending' # NoPending
        /\ pending'.form = form /\ pending'.code = lastCode + 1
  <2>1. CASE RegisterStore(h)
    <3>1. handler[h].form \in Forms
      BY <1>1, <2>1 DEF RegisterStore, Goes, HandlerStates
    <3>2. PendingId \in Nat \ {0}
      BY <1>1 DEF PendingId, AuthTypeOK, PendingRows
    <3> QED
      BY <1>3, <2>1, <3>1, <3>2, AuthAssumption DEF RegisterStore, NoPending, PendingRows
  <2>2. CASE ResendStore(h)
    <3>1. handler[h].id \in Nat \ {0} /\ pending.id = handler[h].id
      BY <1>1, <2>2 DEF ResendStore, Goes, HandlerStates
    <3>2. pending \in PendingRows
      BY <1>1, <3>1, PendingRowById
    <3> QED
      BY <1>3, <2>2, <3>2, AuthAssumption DEF ResendStore, NoPending, PendingRows
  <2> QED
    BY <2>1, <2>2
<1>5. handler' = [handler EXCEPT ![h] = r]
  BY DEF RegisterStore, ResendStore, Goes
<1>6. UNCHANGED <<user, otp, session, mailed, wrong, tokens, resets, events>>
  BY DEF RegisterStore, ResendStore
<1>7. /\ otp' \in [Codes -> [status: {"none", "unused", "used"}, attempts: Nat,
                             verified: BOOLEAN]]
      /\ otp'[lastCode + 1].status = "none" /\ otp'[lastCode + 1].attempts = 0
      /\ ~otp'[lastCode + 1].verified
  BY <1>1, <1>3, <1>6 DEF AuthTypeOK, NoOtp
<1>8. Cardinality(Unused') + Cardinality(Creating') <= Cardinality(Handlers)
  <2>1. r \in HandlerStates /\ r.op # "create"
    BY <1>3 DEF HandlerStates
  <2>2. /\ Cardinality(Creating) \in Nat /\ Cardinality(Creating') \in Nat
        /\ Cardinality(Creating') <= Cardinality(Creating)
    BY <1>1, <1>5, <2>1, Counts DEF FewerCounted
  <2>3. Unused' = Unused /\ Cardinality(Unused) \in Nat
    BY <1>6, CodesAreFinite DEF Unused
  <2> QED
    BY <2>2, <2>3, CountOfHandlers DEF AuthInv, UsableCodesAreBounded
<1> QED
  BY <1>4, <1>5, <1>6, <1>7, <1>8, NewCode

\* ... and those that may reset the password.
LEMMA ResetCodes ==
  ASSUME AuthInv, NEW h \in Handlers, ForgotCreate(h)
  PROVE  AuthInv'
<1> DEFINE r == [op |-> "mail", code |-> lastCode + 1]
           n == lastCode + 1
<1>1. AuthTypeOK /\ handler[h].op = "create" /\ Registered
  BY DEF AuthInv, RowsAreIssued, Remembers, ForgotCreate, Goes
<1>2. n \in Codes /\ otp[n] = NoOtp
  BY NextCodeIsFresh DEF ForgotCreate, Issues
<1>3. /\ Issues(Null) /\ handler' = [handler EXCEPT ![h] = r]
      /\ otp' = [otp EXCEPT ![n] = [NoOtp EXCEPT !.status = "unused"]]
      /\ UNCHANGED <<user, pending, session, mailed, wrong, tokens, resets, events>>
  BY DEF ForgotCreate, Goes
<1>4. /\ otp'[n] = [status |-> "unused", attempts |-> 0, verified |-> FALSE]
      /\ \A c \in Codes \ {n} : otp'[c] = otp[c]
      /\ otp' \in [Codes -> [status: {"none", "unused", "used"}, attempts: Nat,
                             verified: BOOLEAN]]
  BY <1>1, <1>2, <1>3 DEF AuthTypeOK, NoOtp
<1>5. Cardinality(Unused') + Cardinality(Creating') <= Cardinality(Handlers)
  <2>1. r \in HandlerStates /\ r.op # "create"
    BY <1>2 DEF HandlerStates
  <2>2. /\ Cardinality(Creating) \in Nat /\ Cardinality(Creating') \in Nat
        /\ Cardinality(Creating') + 1 <= Cardinality(Creating)
    BY <1>1, <1>3, <2>1, Counts DEF FewerCounted
  <2>3. Unused' = Unused \cup {n} /\ n \notin Unused
    BY <1>2, <1>4 DEF Unused, NoOtp
  <2>4. Cardinality(Unused') = Cardinality(Unused) + 1 /\ Cardinality(Unused) \in Nat
    BY <2>3, CodesAreFinite, FS_AddElement DEF Unused
  <2> QED
    BY <2>2, <2>4, CountOfHandlers DEF AuthInv, UsableCodesAreBounded
<1>6. pending' \in {NoPending} \cup PendingRows
  BY <1>1, <1>3 DEF AuthTypeOK
<1>7. /\ otp'[n].status = "unused" /\ otp'[n].attempts = 0 /\ ~otp'[n].verified
      /\ pending' = pending
  BY <1>3, <1>4
<1>8. Null \in Forms \cup {Null}
  OBVIOUS
<1> QED
  BY <1>1, <1>3, <1>4, <1>5, <1>6, <1>7, <1>8, NewCode

-----------------------------------------------------------------------------
(* Steps that change rows without a new code. *)

\* What the rows and counters of such a step may do.
RowsGoForward ==
  /\ UNCHANGED <<lastCode, issuedFor>>
  /\ mailed \subseteq mailed' /\ mailed' \subseteq 1 .. lastCode
  /\ user' \in {NoUser} \cup [form: Forms, code: Codes]
  /\ pending' \in {NoPending} \cup PendingRows
  /\ otp' \in [Codes -> [status: {"none", "unused", "used"}, attempts: Nat,
                         verified: BOOLEAN]]
  /\ session' \in [Sessions -> {"none", "live", "ended"}]
  /\ wrong' \in [Codes -> Nat] /\ tokens' \subseteq Codes /\ resets' \in [Codes -> Nat]
  /\ Registered => user' = user
  /\ pending' # NoPending => IssuedRow(pending')
  /\ \A c \in Codes :
       /\ otp[c].status = "none" => otp'[c] = otp[c]
       /\ otp[c].status # "none" => otp'[c].status # "none"
       /\ otp[c].verified => otp'[c].verified
       /\ otp'[c].verified => otp[c].verified \/ c \in mailed
  /\ \A c \in tokens' : otp'[c].verified
  /\ \A s \in Sessions : session'[s] # "none" => Registered \/ session[s] # "none"

\* An answer or a reset is counted when the handler that owes it commits.
CountsGoForward(q) ==
  /\ \A c \in Codes :
       \/ wrong'[c] = wrong[c]
       \/ wrong'[c] = wrong[c] + 1 /\ WillMiss(q, c)
  /\ pending' # NoPending => wrong'[pending'.code] <= pending'.attempts
  /\ \A c \in Codes : otp'[c].status # "none" => wrong'[c] <= otp'[c].attempts
  /\ \A c \in Codes :
       \/ resets'[c] = resets[c]
       \/ resets'[c] = resets[c] + 1 /\ WillReset(q, c)
  /\ \A c \in Codes :
       /\ resets'[c] > 0 => otp'[c].verified /\ otp'[c].status = "used"
       /\ resets'[c] > 0 <=> EventKey(c) \in events'

\* The code a handler owes an answer about has been stored.
LEMMA MissedCodes ==
  ASSUME AuthInv, NEW h \in Handlers, NEW c \in Codes, WillMiss(handler[h], c)
  PROVE  c <= lastCode
<1> USE DEF AuthInv
<1>1. handler[h] \in HandlerStates /\ Remembers(handler[h])
  BY DEF AuthTypeOK, RowsAreIssued
<1>2. CASE handler[h].op = "miss" /\ handler[h].row.code = c
  BY <1>1, <1>2 DEF Remembers, IssuedRow
<1>3. CASE handler[h].op = "wrong" /\ handler[h].code = c
  <2>1. otp[c].status # "none"
    BY <1>1, <1>3 DEF Remembers
  <2>2. ~(c > lastCode)
    BY <2>1 DEF CodesAreNumbered, NoOtp
  <2> QED
    BY <2>2, AuthAssumption DEF AuthTypeOK, Codes
<1> QED
  BY <1>2, <1>3 DEF WillMiss

\* A handler answers, or is about to store a code: it counts what it owed.
LEMMA CommitStep ==
  ASSUME AuthInv, NEW h \in Handlers, NEW r \in {Rest, [op |-> "create"]},
         handler' = [handler EXCEPT ![h] = r],
         r.op = "create" => Registered,
         RowsGoForward, CountsGoForward(handler[h]), RegisteredAsVerified',
         Cardinality(Unused') + Cardinality(Creating') <= Cardinality(Handlers)
  PROVE  AuthInv'
<1> USE DEF AuthInv
<1>1. r \in HandlerStates /\ r.op \in {"idle", "create"}
  BY DEF HandlerStates, Rest
<1>2. Registered => Registered'
  BY DEF RowsGoForward, Registered
<1>3. \A g \in Handlers : handler'[g] = IF g = h THEN r ELSE handler[g]
  BY <1>1, Counts
<1>4. AuthTypeOK'
  BY <1>1 DEF AuthTypeOK, RowsGoForward
<1>5. CodesAreNumbered'
  <2>1. ASSUME NEW c \in Codes, c > lastCode PROVE wrong'[c] = 0
    <3>1. ~(c <= lastCode)
      BY <2>1, AuthAssumption DEF AuthTypeOK, Codes
    <3>2. ~WillMiss(handler[h], c)
      BY <3>1, MissedCodes
    <3>3. wrong[c] = 0
      BY <2>1 DEF CodesAreNumbered
    <3> QED
      BY <3>2, <3>3 DEF CountsGoForward
  <2> QED
    BY <2>1 DEF CodesAreNumbered, RowsGoForward, NoOtp
<1>6. RowsAreIssued'
  <2>1. pending' # NoPending => IssuedRow(pending)'
    BY DEF RowsGoForward, IssuedRow
  <2>2. ASSUME NEW g \in Handlers PROVE Remembers(handler[g])'
    <3>1. CASE g = h
      BY <1>1, <1>2, <1>3, <3>1 DEF Remembers
    <3>2. CASE g # h
      <4>1. PICK q \in HandlerStates : handler[g] = q /\ handler'[g] = q
        BY <1>3, <3>2 DEF AuthTypeOK
      <4>2. Remembers(q)
        BY <4>1 DEF RowsAreIssued
      <4>3. q.op \in {"miss", "confirm"} => IssuedRow(q.row)'
        BY <4>2 DEF Remembers, IssuedRow, RowsGoForward
      <4>4. q.op \in {"wrong", "right", "reset"} => q.code \in Codes
        BY DEF HandlerStates
      <4>5. q.op = "mail" => q.code <= lastCode'
        BY <4>2 DEF Remembers, RowsGoForward
      <4>6. q.op = "confirm" => q.row.code \in mailed'
        BY <4>2 DEF Remembers, RowsGoForward
      <4>7. q.op \in {"wrong", "right", "reset"} => otp'[q.code].status # "none"
        BY <4>2, <4>4 DEF Remembers, RowsGoForward
      <4>8. /\ q.op = "right" => q.code \in mailed'
            /\ q.op = "reset" => otp'[q.code].verified
        BY <4>2, <4>4 DEF Remembers, RowsGoForward
      <4>9. q.op \in {"invalidate", "create", "login"} => Registered'
        BY <1>2, <4>2 DEF Remembers
      <4>10. Remembers(q)'
        BY <4>3, <4>5, <4>6, <4>7, <4>8, <4>9 DEF Remembers
      <4> QED
        BY <4>1, <4>10
    <3> QED
      BY <3>1, <3>2
  <2> QED
    BY <2>1, <2>2 DEF RowsAreIssued
<1>7. RowsBelong'
  BY <1>2 DEF RowsBelong, RowsGoForward
<1>8. VerifiedCodesWereMailed'
  BY DEF VerifiedCodesWereMailed, RowsGoForward
<1>9. WrongAnswersAreCounted'
  <2>1. ASSUME NEW c \in Codes
        PROVE  wrong'[c] + Cardinality(Missing(c)') < MaxAttempts + Cardinality(Handlers)
    <3>1. ~WillMiss(r, c)
      BY <1>1 DEF WillMiss
    <3>2. /\ Cardinality(Missing(c)) \in Nat /\ Cardinality(Missing(c)') \in Nat
          /\ Cardinality(Missing(c)') <= Cardinality(Missing(c))
          /\ WillMiss(handler[h], c) =>
               Cardinality(Missing(c)') + 1 <= Cardinality(Missing(c))
      BY <1>1, <3>1, Counts DEF FewerCounted
    <3>3. wrong[c] \in Nat /\ MaxAttempts \in Nat /\ Cardinality(Handlers) \in Nat
      BY AuthAssumption, CountOfHandlers DEF AuthTypeOK
    <3>4. wrong[c] + Cardinality(Missing(c)) < MaxAttempts + Cardinality(Handlers)
      BY DEF WrongAnswersAreCounted
    <3>5. \/ wrong'[c] = wrong[c]
          \/ wrong'[c] = wrong[c] + 1 /\ WillMiss(handler[h], c)
      BY DEF CountsGoForward
    <3> QED
      BY <3>2, <3>3, <3>4, <3>5
  <2> QED
    BY <2>1 DEF WrongAnswersAreCounted, CountsGoForward
<1>10. ResetsAreCounted'
  <2>1. ASSUME NEW c \in Codes
        PROVE  resets'[c] + Cardinality(Resetting(c)') <= Cardinality(Handlers)
    <3>1. ~WillReset(r, c)
      BY <1>1 DEF WillReset
    <3>2. /\ Cardinality(Resetting(c)) \in Nat /\ Cardinality(Resetting(c)') \in Nat
          /\ Cardinality(Resetting(c)') <= Cardinality(Resetting(c))
          /\ WillReset(handler[h], c) =>
               Cardinality(Resetting(c)') + 1 <= Cardinality(Resetting(c))
      BY <1>1, <3>1, Counts DEF FewerCounted
    <3>3. /\ resets[c] \in Nat /\ Cardinality(Handlers) \in Nat
          /\ resets[c] + Cardinality(Resetting(c)) <= Cardinality(Handlers)
      BY CountOfHandlers DEF AuthTypeOK, ResetsAreCounted
    <3>4. \/ resets'[c] = resets[c]
          \/ resets'[c] = resets[c] + 1 /\ WillReset(handler[h], c)
      BY DEF CountsGoForward
    <3> QED
      BY <3>2, <3>3, <3>4
  <2>2. \A c \in Codes : EventKey(c)' = EventKey(c)
    BY DEF EventKey
  <2> QED
    BY <2>1, <2>2 DEF ResetsAreCounted, CountsGoForward
<1> QED
  BY <1>4, <1>5, <1>6, <1>7, <1>8, <1>9, <1>10 DEF UsableCodesAreBounded

\* A handler that comes to rest without making a code good again.
LEMMA NoMoreUnused ==
  ASSUME AuthInv, NEW h \in Handlers, handler' = [handler EXCEPT ![h] = Rest],
         \A c \in Codes : otp'[c].status = "unused" => otp[c].status = "unused"
  PROVE  Cardinality(Unused') + Cardinality(Creating') <= Cardinality(Handlers)
<1>1. AuthTypeOK
  BY DEF AuthInv
<1>2. /\ Cardinality(Creating) \in Nat /\ Cardinality(Creating') \in Nat
      /\ Cardinality(Creating') <= Cardinality(Creating)
  BY <1>1, RestIsQuiet, Counts DEF FewerCounted
<1>3. Unused \in SUBSET Codes /\ Unused' \in SUBSET Unused
  BY DEF Unused
<1>4. /\ Cardinality(Unused) \in Nat /\ Cardinality(Unused') \in Nat
      /\ Cardinality(Unused') <= Cardinality(Unused)
  BY <1>3, CodesAreFinite, FewerCodes
<1> QED
  BY <1>2, <1>4, CountOfHandlers DEF AuthInv, UsableCodesAreBounded

\* Only sessions and the mailed codes change.
LEMMA OthersStay ==
  ASSUME AuthInv,
         UNCHANGED <<user, pending, otp, lastCode, issuedFor, wrong, tokens,
                     resets, events>>,
         mailed \subseteq mailed', mailed' \subseteq 1 .. lastCode,
         session' \in [Sessions -> {"none", "live", "ended"}],
         \A s \in Sessions : session'[s] # "none" => Registered \/ session[s] # "none"
  PROVE  RowsGoForward /\ RegisteredAsVerified' /\ \A q : CountsGoForward(q)
<1> USE DEF AuthInv
<1>1. RowsGoForward
  BY DEF AuthTypeOK, RowsGoForward, RowsAreIssued, IssuedRow, VerifiedCodesWereMailed
<1>2. RegisteredAsVerified'
  BY DEF RegisteredAsVerified, Registered
<1>3. \A c \in Codes : EventKey(c)' = EventKey(c)
  BY DEF EventKey
<1>4. \A q : CountsGoForward(q)
  BY <1>3 DEF CountsGoForward, WrongAnswersAreCounted, ResetsAreCounted
<1> QED
  BY <1>1, <1>2, <1>4

\* Mails, new sessions and touched ones leave codes and counters alone.
LEMMA QuietCommits ==
  ASSUME AuthInv, NEW h \in Handlers,
         \/ Mail(h) \/ RefreshStore(h)
         \/ \E s \in Sessions : LoginStore(h, s)
  PROVE  AuthInv'
<1>1. AuthTypeOK /\ handler[h] \in HandlerStates /\ Remembers(handler[h])
  BY DEF AuthInv, AuthTypeOK, RowsAreIssued
<1>2. /\ handler' = [handler EXCEPT ![h] = Rest]
      /\ UNCHANGED <<user, pending, otp, lastCode, issuedFor, wrong, tokens,
                     resets, events>>
  BY DEF Mail, RefreshStore, LoginStore, Ends, Goes, Rest, rows, codeHistory, Touched
<1>3. mailed \subseteq mailed' /\ mailed' \subseteq 1 .. lastCode
  <2>1. CASE Mail(h)
    <3>1. handler[h].code \in Codes /\ handler[h].code <= lastCode
      BY <1>1, <2>1 DEF Mail, HandlerStates, Remembers
    <3>2. handler[h].code \in 1 .. lastCode
      BY <1>1, <3>1, AuthAssumption DEF Codes, AuthTypeOK
    <3> QED
      BY <1>1, <2>1, <3>2 DEF Mail, AuthTypeOK
  <2>2. CASE ~Mail(h)
    BY <1>1, <2>2 DEF RefreshStore, LoginStore, AuthTypeOK, codeHistory
  <2> QED
    BY <2>1, <2>2
<1>4. /\ session' \in [Sessions -> {"none", "live", "ended"}]
      /\ \A s \in Sessions : session'[s] # "none" => Registered \/ session[s] # "none"
  BY <1>1 DEF Mail, RefreshStore, LoginStore, Ends, Goes, Remembers, rows, Touched,
              AuthTypeOK
<1>5. RowsGoForward /\ RegisteredAsVerified' /\ CountsGoForward(handler[h])
  BY <1>2, <1>3, <1>4, OthersStay
<1>6. Cardinality(Unused') + Cardinality(Creating') <= Cardinality(Handlers)
  BY <1>2, NoMoreUnused
<1> QED
  BY <1>2, <1>5, <1>6, RestIsQuiet, CommitStep

\* Ending one session disturbs nothing.
LEMMA SessionEnding ==
  ASSUME AuthInv, NEW s \in Sessions, SessionEnds(s)
  PROVE  AuthInv'
<1> USE DEF AuthInv
<1>1. AuthTypeOK'
  BY DEF AuthTypeOK, SessionEnds, codeHistory
<1>2. CodesAreNumbered' /\ VerifiedCodesWereMailed' /\ RegisteredAsVerified'
  BY DEF CodesAreNumbered, VerifiedCodesWereMailed, RegisteredAsVerified, Registered,
         SessionEnds, codeHistory
<1>3. RowsAreIssued'
  BY DEF RowsAreIssued, Remembers, IssuedRow, Registered, SessionEnds, codeHistory
<1>4. RowsBelong'
  BY DEF RowsBelong, Registered, SessionEnds, AuthTypeOK
<1>5. WrongAnswersAreCounted' /\ ResetsAreCounted'
  BY DEF WrongAnswersAreCounted, Missing, ResetsAreCounted, Resetting, EventKey,
         SessionEnds
<1>6. UsableCodesAreBounded'
  BY DEF UsableCodesAreBounded, Unused, Creating, SessionEnds
<1> QED
  BY <1>1, <1>2, <1>3, <1>4, <1>5, <1>6

\* A wrong answer to the code of a registration.
LEMMA VerifyMisses ==
  ASSUME AuthInv, NEW h \in Handlers, VerifyMiss(h)
  PROVE  AuthInv'
<1> DEFINE row == handler[h].row
<1>1. AuthTypeOK /\ handler[h] \in HandlerStates /\ Remembers(handler[h])
  BY DEF AuthInv, AuthTypeOK, RowsAreIssued
<1>2. /\ handler[h].op = "miss" /\ handler' = [handler EXCEPT ![h] = Rest]
      /\ pending.id = row.id
      /\ pending' = [pending EXCEPT !.attempts = pending.attempts + 1]
      /\ wrong' = [wrong EXCEPT ![row.code] = @ + 1]
      /\ UNCHANGED <<user, otp, session, lastCode, mailed, issuedFor, tokens,
                     resets, events>>
  BY DEF VerifyMiss, Ends, Goes, Rest, Misses, codeHistory
<1>3. row \in PendingRows /\ IssuedRow(row)
  BY <1>1, <1>2 DEF HandlerStates, Remembers
<1>4. pending # NoPending /\ pending \in PendingRows
  BY <1>1, <1>2, <1>3, PendingRowById DEF PendingRows
<1>5. row.code \in Codes /\ otp[row.code].status = "none"
  BY <1>3, AuthAssumption DEF PendingRows, IssuedRow, AuthInv, CodesAreNumbered
<1>6. /\ pending' \in PendingRows /\ pending' # NoPending
      /\ pending'.code = pending.code /\ pending'.form = pending.form
      /\ pending'.attempts = pending.attempts + 1
  BY <1>2, <1>4 DEF PendingRows, NoPending
<1>7. \A c \in Codes : wrong'[c] = IF c = row.code THEN wrong[c] + 1 ELSE wrong[c]
  BY <1>1, <1>2 DEF AuthTypeOK
<1>8. RowsGoForward
  <2>1. wrong' \in [Codes -> Nat]
    BY <1>1, <1>2, <1>5 DEF AuthTypeOK
  <2>2. IssuedRow(pending')
    BY <1>4, <1>6 DEF AuthInv, RowsAreIssued, IssuedRow
  <2>3. \A c \in tokens : otp[c].verified
    BY DEF AuthInv, VerifiedCodesWereMailed
  <2> QED
    BY <1>1, <1>2, <1>6, <2>1, <2>2, <2>3 DEF AuthTypeOK, RowsGoForward
<1>9. CountsGoForward(handler[h])
  <2>1. \A c \in Codes : \/ wrong'[c] = wrong[c]
                         \/ wrong'[c] = wrong[c] + 1 /\ WillMiss(handler[h], c)
    BY <1>2, <1>7 DEF WillMiss
  <2>2. wrong'[pending'.code] <= pending'.attempts
    <3>1. /\ wrong[pending.code] \in Nat /\ pending.attempts \in Nat
          /\ pending.code \in Codes /\ wrong[pending.code] <= pending.attempts
      BY <1>1, <1>4 DEF PendingRows, AuthTypeOK, AuthInv, WrongAnswersAreCounted
    <3> QED
      BY <1>6, <1>7, <3>1
  <2>3. \A c \in Codes : otp'[c].status # "none" => wrong'[c] <= otp'[c].attempts
    BY <1>2, <1>5, <1>7 DEF AuthInv, WrongAnswersAreCounted
  <2>4. \A c \in Codes :
          /\ resets'[c] > 0 => otp'[c].verified /\ otp'[c].status = "used"
          /\ resets'[c] > 0 <=> EventKey(c) \in events'
    BY <1>2 DEF AuthInv, ResetsAreCounted
  <2> QED
    BY <1>2, <2>1, <2>2, <2>3, <2>4 DEF CountsGoForward
<1>10. RegisteredAsVerified'
  BY <1>2 DEF AuthInv, RegisteredAsVerified, Registered
<1>11. Cardinality(Unused') + Cardinality(Creating') <= Cardinality(Handlers)
  BY <1>2, NoMoreUnused
<1> QED
  BY <1>2, <1>8, <1>9, <1>10, <1>11, RestIsQuiet, CommitStep

\* The right answer makes the user.
LEMMA VerifyCommits ==
  ASSUME AuthInv, NEW h \in Handlers, VerifyCommit(h)
  PROVE  AuthInv'
<1> DEFINE row == handler[h].row
<1>1. AuthTypeOK /\ handler[h] \in HandlerStates /\ Remembers(handler[h])
  BY DEF AuthInv, AuthTypeOK, RowsAreIssued
<1>2. /\ handler[h].op = "confirm" /\ handler' = [handler EXCEPT ![h] = Rest]
      /\ ~Registered
      /\ user' = [form |-> row.form, code |-> row.code]
      /\ pending' = NoPending
      /\ events' = events \cup {WelcomeKey}
      /\ UNCHANGED <<otp, session, lastCode, mailed, issuedFor, wrong, tokens, resets>>
  BY DEF VerifyCommit, VerifiedRow, Ends, Goes, Rest, codeHistory
<1>3. row \in PendingRows /\ IssuedRow(row) /\ row.code \in mailed
  BY <1>1, <1>2 DEF HandlerStates, Remembers
<1>4. RowsGoForward
  <2>1. user' \in [form: Forms, code: Codes]
    BY <1>2, <1>3 DEF PendingRows
  <2>2. \A c \in tokens : otp[c].verified
    BY DEF AuthInv, VerifiedCodesWereMailed
  <2> QED
    BY <1>1, <1>2, <2>1, <2>2 DEF AuthTypeOK, RowsGoForward
<1>5. CountsGoForward(handler[h])
  <2>1. \A c \in Codes : EventKey(c) # WelcomeKey
    BY DEF EventKey, WelcomeKey
  <2>2. \A c \in Codes :
          /\ resets'[c] > 0 => otp'[c].verified /\ otp'[c].status = "used"
          /\ resets'[c] > 0 <=> EventKey(c) \in events'
    BY <1>2, <2>1 DEF AuthInv, ResetsAreCounted
  <2> QED
    BY <1>2, <2>2 DEF CountsGoForward, AuthInv, WrongAnswersAreCounted
<1>6. RegisteredAsVerified'
  BY <1>2, <1>3 DEF RegisteredAsVerified, IssuedRow
<1>7. Cardinality(Unused') + Cardinality(Creating') <= Cardinality(Handlers)
  BY <1>2, NoMoreUnused
<1> QED
  BY <1>2, <1>4, <1>5, <1>6, <1>7, RestIsQuiet, CommitStep

\* Earlier codes end.
LEMMA Invalidations ==
  ASSUME AuthInv, NEW h \in Handlers, ForgotInvalidate(h)
  PROVE  AuthInv'
<1> DEFINE r == [op |-> "create"]
<1>1. AuthTypeOK /\ handler[h] \in HandlerStates /\ Remembers(handler[h])
  BY DEF AuthInv, AuthTypeOK, RowsAreIssued
<1>2. /\ handler[h].op = "invalidate" /\ handler' = [handler EXCEPT ![h] = r]
      /\ otp' = Invalidated
      /\ UNCHANGED <<user, pending, session, lastCode, mailed, issuedFor, wrong,
                     tokens, resets, events>>
  BY DEF ForgotInvalidate, Goes, codeHistory
<1>3. Registered
  BY <1>1, <1>2 DEF Remembers
<1>4. \A c \in Codes :
        /\ otp'[c].attempts = otp[c].attempts /\ otp'[c].verified = otp[c].verified
        /\ otp[c].status = "none" => otp'[c] = otp[c]
        /\ otp[c].status # "none" => otp'[c].status = "used"
  BY <1>1, <1>2 DEF Invalidated, Unused, AuthTypeOK
<1>5. otp' \in [Codes -> [status: {"none", "unused", "used"}, attempts: Nat,
                         verified: BOOLEAN]]
  BY <1>1, <1>2 DEF Invalidated, AuthTypeOK
<1>6. RowsGoForward
  BY <1>1, <1>2, <1>4, <1>5
  DEF AuthTypeOK, RowsGoForward, AuthInv, RowsAreIssued, IssuedRow,
      VerifiedCodesWereMailed
<1>7. CountsGoForward(handler[h])
  BY <1>2, <1>4 DEF CountsGoForward, AuthInv, WrongAnswersAreCounted, ResetsAreCounted
<1>8. RegisteredAsVerified'
  BY <1>2 DEF AuthInv, RegisteredAsVerified, Registered
<1>9. Cardinality(Unused') + Cardinality(Creating') <= Cardinality(Handlers)
  <2>1. Unused' = {}
    BY <1>4 DEF Unused
  <2>2. Cardinality(Unused') = 0
    BY <2>1, FS_EmptySet
  <2>3. Cardinality(Creating') \in Nat /\ Cardinality(Creating') <= Cardinality(Handlers)
    BY CountOfHandlers DEF Creating
  <2> QED
    BY <2>2, <2>3
<1> QED
  BY <1>2, <1>3, <1>6, <1>7, <1>8, <1>9, CommitStep

\* A wrong answer to a code that may reset the password.
LEMMA CheckMisses ==
  ASSUME AuthInv, NEW h \in Handlers, CheckWrong(h)
  PROVE  AuthInv'
<1> DEFINE d == handler[h].code
<1>1. AuthTypeOK /\ handler[h] \in HandlerStates /\ Remembers(handler[h])
  BY DEF AuthInv, AuthTypeOK, RowsAreIssued
<1>2. /\ handler[h].op = "wrong" /\ handler' = [handler EXCEPT ![h] = Rest]
      /\ otp' = [otp EXCEPT ![d].attempts = @ + 1]
      /\ wrong' = [wrong EXCEPT ![d] = @ + 1]
      /\ UNCHANGED <<user, pending, session, lastCode, mailed, issuedFor, tokens,
                     resets, events>>
  BY DEF CheckWrong, Ends, Goes, Rest, codeHistory
<1>3. d \in Codes /\ otp[d].status # "none"
  BY <1>1, <1>2 DEF HandlerStates, Remembers
<1>4. \A c \in Codes :
        /\ otp'[c].status = otp[c].status /\ otp'[c].verified = otp[c].verified
        /\ c # d => otp'[c] = otp[c] /\ wrong'[c] = wrong[c]
        /\ wrong[c] <= otp[c].attempts => wrong'[c] <= otp'[c].attempts
        /\ c = d => wrong'[c] = wrong[c] + 1
  BY <1>1, <1>2 DEF AuthTypeOK
<1>5. RowsGoForward
  <2>1. otp' \in [Codes -> [status: {"none", "unused", "used"}, attempts: Nat,
                           verified: BOOLEAN]]
    BY <1>1, <1>2, <1>3 DEF AuthTypeOK
  <2>2. wrong' \in [Codes -> Nat]
    BY <1>1, <1>2, <1>3 DEF AuthTypeOK
  <2> QED
    BY <1>1, <1>2, <1>3, <1>4, <2>1, <2>2
    DEF AuthTypeOK, RowsGoForward, AuthInv, RowsAreIssued, IssuedRow,
        VerifiedCodesWereMailed
<1>6. CountsGoForward(handler[h])
  <2>1. \A c \in Codes : \/ wrong'[c] = wrong[c]
                         \/ wrong'[c] = wrong[c] + 1 /\ WillMiss(handler[h], c)
    BY <1>2, <1>4 DEF WillMiss
  <2>2. pending' # NoPending => wrong'[pending'.code] <= pending'.attempts
    <3>1. SUFFICES ASSUME pending # NoPending
                   PROVE  wrong'[pending.code] <= pending.attempts
      BY <1>2
    <3>2. pending \in PendingRows /\ IssuedRow(pending)
      BY <1>1, <3>1 DEF AuthTypeOK, AuthInv, RowsAreIssued
    <3>3. pending.code \in Codes /\ otp[pending.code].status = "none"
      BY <3>2, AuthAssumption DEF PendingRows, IssuedRow, AuthInv, CodesAreNumbered
    <3>4. pending.code # d
      BY <1>3, <3>3
    <3> QED
      BY <1>4, <3>1, <3>3, <3>4 DEF AuthInv, WrongAnswersAreCounted
  <2>3. \A c \in Codes : otp'[c].status # "none" => wrong'[c] <= otp'[c].attempts
    BY <1>4 DEF AuthInv, WrongAnswersAreCounted
  <2>4. \A c \in Codes :
          /\ resets'[c] > 0 => otp'[c].verified /\ otp'[c].status = "used"
          /\ resets'[c] > 0 <=> EventKey(c) \in events'
    BY <1>2, <1>4 DEF AuthInv, ResetsAreCounted
  <2> QED
    BY <1>2, <2>1, <2>2, <2>3, <2>4 DEF CountsGoForward
<1>7. RegisteredAsVerified'
  BY <1>2 DEF AuthInv, RegisteredAsVerified, Registered
<1>8. Cardinality(Unused') + Cardinality(Creating') <= Cardinality(Handlers)
  BY <1>2, <1>4, NoMoreUnused
<1> QED
  BY <1>2, <1>5, <1>6, <1>7, <1>8, RestIsQuiet, CommitStep

\* The right answer, whose token may reach the customer.
LEMMA CheckCommits ==
  ASSUME AuthInv, NEW h \in Handlers, CheckRight(h)
  PROVE  AuthInv'
<1> DEFINE d == handler[h].code
<1>1. AuthTypeOK /\ handler[h] \in HandlerStates /\ Remembers(handler[h])
  BY DEF AuthInv, AuthTypeOK, RowsAreIssued
<1>2. /\ handler[h].op = "right" /\ handler' = [handler EXCEPT ![h] = Rest]
      /\ otp' = [otp EXCEPT ![d].verified = TRUE]
      /\ tokens' \in {tokens, tokens \cup {d}}
      /\ UNCHANGED <<user, pending, session, lastCode, mailed, issuedFor, wrong,
                     resets, events>>
  BY DEF CheckRight, Ends, Goes, Rest, codeHistory
<1>3. d \in Codes /\ otp[d].status # "none" /\ d \in mailed
  BY <1>1, <1>2 DEF HandlerStates, Remembers
<1>4. \A c \in Codes :
        /\ otp'[c].status = otp[c].status /\ otp'[c].attempts = otp[c].attempts
        /\ c # d => otp'[c] = otp[c]
        /\ otp'[c].verified <=> otp[c].verified \/ c = d
  BY <1>1, <1>2 DEF AuthTypeOK
<1>5. otp' \in [Codes -> [status: {"none", "unused", "used"}, attempts: Nat,
                         verified: BOOLEAN]]
  BY <1>1, <1>2 DEF AuthTypeOK
<1>6. RowsGoForward
  <2>1. tokens' \subseteq Codes /\ \A c \in tokens' : otp'[c].verified
    BY <1>1, <1>2, <1>3, <1>4 DEF AuthTypeOK, AuthInv, VerifiedCodesWereMailed
  <2> QED
    BY <1>1, <1>2, <1>3, <1>4, <1>5, <2>1
    DEF AuthTypeOK, RowsGoForward, AuthInv, RowsAreIssued, IssuedRow
<1>7. CountsGoForward(handler[h])
  BY <1>2, <1>4 DEF CountsGoForward, AuthInv, WrongAnswersAreCounted, ResetsAreCounted
<1>8. RegisteredAsVerified'
  BY <1>2 DEF AuthInv, RegisteredAsVerified, Registered
<1>9. Cardinality(Unused') + Cardinality(Creating') <= Cardinality(Handlers)
  BY <1>2, <1>4, NoMoreUnused
<1> QED
  BY <1>2, <1>6, <1>7, <1>8, <1>9, RestIsQuiet, CommitStep

\* The new password.
LEMMA ResetCommits ==
  ASSUME AuthInv, NEW h \in Handlers, ResetCommit(h)
  PROVE  AuthInv'
<1> DEFINE d == handler[h].code
<1>1. AuthTypeOK /\ handler[h] \in HandlerStates /\ Remembers(handler[h])
  BY DEF AuthInv, AuthTypeOK, RowsAreIssued
<1>2. /\ handler[h].op = "reset" /\ handler' = [handler EXCEPT ![h] = Rest]
      /\ resets' = [resets EXCEPT ![d] = @ + 1]
      /\ otp' = [otp EXCEPT ![d].status = "used"]
      /\ session' = SessionsRevoked
      /\ events' = events \cup {EventKey(d)}
      /\ UNCHANGED <<user, pending, lastCode, mailed, issuedFor, wrong, tokens>>
  BY DEF ResetCommit, Ends, Goes, Rest, codeHistory
<1>3. d \in Codes /\ otp[d].status # "none" /\ otp[d].verified
  BY <1>1, <1>2 DEF HandlerStates, Remembers
<1>4. \A c \in Codes :
        /\ otp'[c].verified = otp[c].verified /\ otp'[c].attempts = otp[c].attempts
        /\ c # d => otp'[c] = otp[c]
        /\ c = d => otp'[c].status = "used"
  BY <1>1, <1>2 DEF AuthTypeOK
<1>5. otp' \in [Codes -> [status: {"none", "unused", "used"}, attempts: Nat,
                         verified: BOOLEAN]]
  BY <1>1, <1>2 DEF AuthTypeOK
<1>6. /\ session' \in [Sessions -> {"none", "live", "ended"}]
      /\ \A s \in Sessions : session'[s] # "none" => session[s] # "none"
  BY <1>1, <1>2 DEF SessionsRevoked, AuthTypeOK
<1>7. \A c \in Codes :
        /\ resets[c] \in Nat /\ resets'[c] \in Nat
        /\ resets'[c] = IF c = d THEN resets[c] + 1 ELSE resets[c]
  BY <1>1, <1>2 DEF AuthTypeOK
<1>8. resets' \in [Codes -> Nat]
  BY <1>1, <1>2, <1>3 DEF AuthTypeOK
<1>9. RowsGoForward
  BY <1>1, <1>2, <1>3, <1>4, <1>5, <1>6, <1>8
  DEF AuthTypeOK, RowsGoForward, AuthInv, RowsAreIssued, IssuedRow,
      VerifiedCodesWereMailed
<1>10. CountsGoForward(handler[h])
  <2>1. \A c \in Codes : \/ resets'[c] = resets[c]
                         \/ resets'[c] = resets[c] + 1 /\ WillReset(handler[h], c)
    BY <1>2, <1>7 DEF WillReset
  <2>2. \A c \in Codes : EventKey(c) = EventKey(d) => c = d
    BY DEF EventKey
  <2>3. \A c \in Codes :
          /\ resets'[c] > 0 => otp'[c].verified /\ otp'[c].status = "used"
          /\ resets'[c] > 0 <=> EventKey(c) \in events'
    <3>1. resets'[d] > 0 /\ EventKey(d) \in events'
      BY <1>2, <1>3, <1>7
    <3>2. ASSUME NEW c \in Codes, c # d
          PROVE  /\ resets'[c] > 0 <=> EventKey(c) \in events'
                 /\ resets'[c] > 0 => otp'[c].verified /\ otp'[c].status = "used"
      BY <1>2, <1>4, <1>7, <2>2, <3>2 DEF AuthInv, ResetsAreCounted
    <3> QED
      BY <1>3, <1>4, <3>1, <3>2
  <2>4. \A c \in Codes : otp'[c].status # "none" => wrong'[c] <= otp'[c].attempts
    BY <1>2, <1>3, <1>4 DEF AuthInv, WrongAnswersAreCounted
  <2>5. pending' # NoPending => wrong'[pending'.code] <= pending'.attempts
    BY <1>2 DEF AuthInv, WrongAnswersAreCounted
  <2> QED
    BY <1>2, <2>1, <2>3, <2>4, <2>5 DEF CountsGoForward
<1>11. RegisteredAsVerified'
  BY <1>2 DEF AuthInv, RegisteredAsVerified, Registered
<1>12. Cardinality(Unused') + Cardinality(Creating') <= Cardinality(Handlers)
  BY <1>2, <1>4, NoMoreUnused
<1> QED
  BY <1>2, <1>9, <1>10, <1>11, <1>12, RestIsQuiet, CommitStep

-----------------------------------------------------------------------------
(* The theorems. *)

\* Without rows there is nothing to contradict.
LEMMA InitiallyAgrees == AuthInit => AuthInv
<1> SUFFICES ASSUME AuthInit PROVE AuthInv
  OBVIOUS
<1>1. AuthTypeOK
  BY AuthAssumption DEF AuthInit, AuthTypeOK, HandlerStates, NoOtp
<1>2. CodesAreNumbered /\ RowsAreIssued /\ RowsBelong /\ VerifiedCodesWereMailed
  BY DEF AuthInit, CodesAreNumbered, RowsAreIssued, Remembers, RowsBelong,
         VerifiedCodesWereMailed, NoOtp
<1>3. Cardinality(Handlers) \in Nat /\ Cardinality({}) = 0 /\ MaxAttempts > 0
  BY CountOfHandlers, FS_EmptySet, AuthAssumption
<1>4. Creating = {} /\ Unused = {} /\ \A c \in Codes : Missing(c) = {} /\ Resetting(c) = {}
  BY DEF AuthInit, Creating, Unused, Missing, Resetting, NoOtp
<1>5. WrongAnswersAreCounted
  <2>1. 0 + 0 < MaxAttempts + Cardinality(Handlers)
    BY <1>3, AuthAssumption
  <2>2. pending = NoPending /\ \A c \in Codes : wrong[c] = 0 /\ otp[c].status = "none"
    BY DEF AuthInit, NoOtp
  <2>3. \A c \in Codes : Cardinality(Missing(c)) = 0
    BY <1>3, <1>4
  <2> QED
    BY <2>1, <2>2, <2>3 DEF WrongAnswersAreCounted
<1>6. ResetsAreCounted
  <2>1. 0 + 0 <= Cardinality(Handlers)
    BY <1>3
  <2>2. events = {} /\ \A c \in Codes : resets[c] = 0
    BY DEF AuthInit
  <2>3. \A c \in Codes : Cardinality(Resetting(c)) = 0
    BY <1>3, <1>4
  <2> QED
    BY <2>1, <2>2, <2>3 DEF ResetsAreCounted
<1>7. RegisteredAsVerified /\ UsableCodesAreBounded
  BY <1>3, <1>4 DEF AuthInit, RegisteredAsVerified, Registered, UsableCodesAreBounded
<1> QED
  BY <1>1, <1>2, <1>5, <1>6, <1>7 DEF AuthInv

\* Every step of every handler keeps the rows in agreement.
LEMMA StaysAgreed == AuthInv /\ [AuthNext]_authVars => AuthInv'
<1> SUFFICES ASSUME AuthInv, [AuthNext]_authVars PROVE AuthInv'
  OBVIOUS
<1>1. ASSUME NEW h \in Handlers, RegistrationStep(h) PROVE AuthInv'
  BY <1>1, RegistrationReads, RegistrationCodes, VerifyMisses, VerifyCommits
  DEF RegistrationStep
<1>2. ASSUME NEW h \in Handlers, PasswordResetStep(h) PROVE AuthInv'
  BY <1>2, ResetReads, ResetCodes, Invalidations, CheckMisses, CheckCommits,
     ResetCommits
  DEF PasswordResetStep
<1>3. ASSUME NEW h \in Handlers, UserSessionStep(h) \/ Mail(h) \/ GivesUp(h)
      PROVE  AuthInv'
  BY <1>3, SessionReads, QuietCommits DEF UserSessionStep
<1>4. ASSUME NEW s \in Sessions, SessionEnds(s) PROVE AuthInv'
  BY <1>4, SessionEnding
<1>5. CASE UNCHANGED authVars
  BY <1>5
  DEF authVars, rows, codeHistory, AuthInv, AuthTypeOK, CodesAreNumbered, RowsAreIssued,
      Remembers, IssuedRow, RowsBelong, Registered, VerifiedCodesWereMailed,
      WrongAnswersAreCounted, Missing, ResetsAreCounted, Resetting, EventKey,
      RegisteredAsVerified, UsableCodesAreBounded, Unused, Creating
<1> QED
  BY <1>1, <1>2, <1>3, <1>4, <1>5 DEF AuthNext

\* The rows of codes, the user and the handlers that remember rows agree,
\* however many handlers of auth.controller.ts interleave, fail and die.
THEOREM AuthInvariant == AuthSpec => []AuthInv
BY InitiallyAgrees, StaysAgreed, PTL DEF AuthSpec

\* The user is who the entered code was mailed for.
THEOREM RegisteredVerified == AuthSpec => []RegisteredAsVerified
<1>1. AuthInv => RegisteredAsVerified
  BY DEF AuthInv
<1> QED
  BY <1>1, AuthInvariant, PTL

\* No code is given more wrong answers than its attempts and the requests that
\* run at the same time.
THEOREM WrongAnswersBounded == AuthSpec => []WrongAnswersAreBounded
<1>1. ASSUME AuthInv PROVE WrongAnswersAreBounded
  <2>1. ASSUME NEW c \in Codes
        PROVE  wrong[c] < MaxAttempts + Cardinality(Handlers)
    <3>1. Cardinality(Missing(c)) \in Nat /\ Cardinality(Handlers) \in Nat
      BY CountOfHandlers DEF Missing
    <3>2. /\ wrong[c] \in Nat /\ MaxAttempts \in Nat
          /\ wrong[c] + Cardinality(Missing(c)) < MaxAttempts + Cardinality(Handlers)
      BY <1>1, AuthAssumption DEF AuthInv, AuthTypeOK, WrongAnswersAreCounted
    <3> QED
      BY <3>1, <3>2
  <2> QED
    BY <2>1 DEF WrongAnswersAreBounded
<1> QED
  BY <1>1, AuthInvariant, PTL

\* At most as many reset codes are good as requests run at the same time.
THEOREM UsableCodesBounded == AuthSpec => []UsableCodesAreBounded
<1>1. AuthInv => UsableCodesAreBounded
  BY DEF AuthInv
<1> QED
  BY <1>1, AuthInvariant, PTL

\* A code resets the password at most once for each request at the same time.
THEOREM ResetsBounded == AuthSpec => []ResetsAreBounded
<1>1. ASSUME AuthInv PROVE ResetsAreBounded
  <2>1. ASSUME NEW c \in Codes PROVE resets[c] <= Cardinality(Handlers)
    <3>1. Cardinality(Resetting(c)) \in Nat /\ Cardinality(Handlers) \in Nat
      BY CountOfHandlers DEF Resetting
    <3>2. /\ resets[c] \in Nat
          /\ resets[c] + Cardinality(Resetting(c)) <= Cardinality(Handlers)
      BY <1>1 DEF AuthInv, AuthTypeOK, ResetsAreCounted
    <3> QED
      BY <3>1, <3>2
  <2> QED
    BY <2>1 DEF ResetsAreBounded
<1> QED
  BY <1>1, AuthInvariant, PTL

\* Whoever changed the password had entered a mailed code and is told of it.
THEOREM ResetsVerifiedAndTold == AuthSpec => []ResetsAreVerifiedAndTold
<1>1. AuthInv => ResetsAreVerifiedAndTold
  BY DEF AuthInv, ResetsAreCounted, VerifiedCodesWereMailed, ResetsAreVerifiedAndTold
<1> QED
  BY <1>1, AuthInvariant, PTL

-----------------------------------------------------------------------------
(* The refinement. *)

\* Both begin with no user, no reset and no session.
LEMMA AccountBegins == AuthInit => Promise!AccountInit
BY DEF AuthInit, Promise!AccountInit

\* The four steps that an account sees, and the others.
LEMMA AccountMoves ==
  ASSUME AuthInv, [AuthNext]_authVars
  PROVE  [Promise!AccountNext]_Promise!accountVars
<1> USE DEF Promise!accountVars
<1>1. AuthTypeOK
  BY DEF AuthInv
<1>2. ASSUME NEW h \in Handlers, VerifyCommit(h)
      PROVE  Promise!Register
  <2>1. user = NoUser /\ UNCHANGED <<resets, session>>
    BY <1>2 DEF VerifyCommit, Registered
  <2>2. user'.form \in Forms
    <3>1. handler[h].op = "confirm" /\ user'.form = handler[h].row.form
      BY <1>2 DEF VerifyCommit, VerifiedRow, Ends, Goes
    <3>2. handler[h].row \in PendingRows
      BY <1>1, <3>1 DEF AuthTypeOK, HandlerStates
    <3> QED
      BY <3>1, <3>2 DEF PendingRows
  <2>3. user' # NoUser
    BY <2>2, AuthAssumption DEF NoUser
  <2> QED
    BY <2>1, <2>3 DEF Promise!Register
<1>3. ASSUME NEW h \in Handlers, NEW s \in Sessions, LoginStore(h, s)
      PROVE  Promise!Open(s)
  <2>1. Registered
    BY <1>3 DEF LoginStore, Ends, Goes, AuthInv, RowsAreIssued, Remembers
  <2> QED
    BY <1>3, <2>1 DEF LoginStore, Registered, Promise!Open
<1>4. ASSUME NEW h \in Handlers, ResetCommit(h)
      PROVE  Promise!ChangePassword
  <2> DEFINE d == handler[h].code
  <2>1. handler[h].op = "reset" /\ handler[h] \in HandlerStates /\ Remembers(handler[h])
    BY <1>1, <1>4 DEF ResetCommit, Ends, Goes, AuthTypeOK, AuthInv, RowsAreIssued
  <2>2. d \in Codes /\ otp[d].status # "none"
    BY <2>1 DEF HandlerStates, Remembers
  <2>3. Registered
    BY <2>2 DEF AuthInv, RowsBelong
  <2>4. resets' # resets
    <3>1. resets[d] \in Nat /\ resets'[d] = resets[d] + 1
      BY <1>1, <1>4, <2>2 DEF ResetCommit, AuthTypeOK
    <3> QED
      BY <3>1
  <2>5. session' = [s \in Sessions |-> IF session[s] = "none" THEN "none" ELSE "ended"]
    BY <1>1, <1>4 DEF ResetCommit, SessionsRevoked, AuthTypeOK
  <2> QED
    BY <1>4, <2>3, <2>4, <2>5 DEF ResetCommit, Registered, Promise!ChangePassword
<1>5. ASSUME NEW s \in Sessions, SessionEnds(s) PROVE Promise!End(s)
  BY <1>5 DEF SessionEnds, Promise!End
<1>6. ASSUME NEW h \in Handlers, RegistrationStep(h), ~VerifyCommit(h)
      PROVE  UNCHANGED <<user, resets, session>>
  BY <1>6 DEF RegistrationStep, RegisterRead, RegisterStore, VerifyRead, VerifyMiss,
              ResendRead, ResendStore, rows
<1>7. ASSUME NEW h \in Handlers, PasswordResetStep(h), ~ResetCommit(h)
      PROVE  UNCHANGED <<user, resets, session>>
  BY <1>7 DEF PasswordResetStep, ForgotRead, ForgotInvalidate, ForgotCreate, CheckRead,
              ResetRead, CheckWrong, CheckRight, rows
<1>8. ASSUME NEW h \in Handlers, UserSessionStep(h) \/ Mail(h) \/ GivesUp(h),
             ~(\E s \in Sessions : LoginStore(h, s))
      PROVE  UNCHANGED <<user, resets, session>>
  BY <1>8 DEF UserSessionStep, LoginRead, RefreshRead, RefreshStore, Touched, Mail,
              GivesUp, rows
<1>9. CASE UNCHANGED authVars
  BY <1>9 DEF authVars, rows
<1> QED
  BY <1>2, <1>3, <1>4, <1>5, <1>6, <1>7, <1>8, <1>9
  DEF AuthNext, RegistrationStep, PasswordResetStep, UserSessionStep, Promise!AccountNext

\* One registration, sessions that stay ended, a new password that ends all
\* sessions: the authentication implements the abstract account.
THEOREM AccountKept == AuthSpec => ImplementsAccount
<1>1. AuthInv /\ [AuthNext]_authVars => [Promise!AccountNext]_Promise!accountVars
  BY AccountMoves
<1> QED
  BY <1>1, AccountBegins, AuthInvariant, PTL
  DEF AuthSpec, ImplementsAccount, Promise!AccountSpec
=============================================================================
