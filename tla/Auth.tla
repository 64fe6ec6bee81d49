-------------------------------- MODULE Auth --------------------------------
(* Registration, sessions and password resets of one e-mail address, under
   handlers that interleave at their awaits, fail and die. *)
EXTENDS Registration, PasswordReset, UserSessions

AuthNext ==
  \/ \E h \in Handlers : \/ RegistrationStep(h) \/ PasswordResetStep(h)
                         \/ UserSessionStep(h) \/ Mail(h) \/ GivesUp(h)
  \/ \E s \in Sessions : SessionEnds(s)

AuthSpec == AuthInit /\ [][AuthNext]_authVars

-----------------------------------------------------------------------------
(* The inductive invariant. *)

PendingRows == [id: Nat \ {0}, form: Forms, code: Codes, attempts: Nat]

HandlerStates ==
  [op: {"idle", "invalidate", "create", "login"}]
    \cup [op: {"register"}, form: Forms]
    \cup [op: {"mail", "wrong", "right", "reset"}, code: Codes]
    \cup [op: {"miss", "confirm"}, row: PendingRows]
    \cup [op: {"resend"}, id: Nat \ {0}]
    \cup [op: {"refresh"}, session: Sessions]

AuthTypeOK ==
  /\ user \in {NoUser} \cup [form: Forms, code: Codes]
  /\ pending \in {NoPending} \cup PendingRows
  /\ otp \in [Codes -> [status: {"none", "unused", "used"}, attempts: Nat,
                       verified: BOOLEAN]]
  /\ session \in [Sessions -> {"none", "live", "ended"}]
  /\ handler \in [Handlers -> HandlerStates]
  /\ lastCode \in 0 .. MaxCodes
  /\ mailed \subseteq 1 .. lastCode
  /\ issuedFor \in [Codes -> Forms \cup {Null}]
  /\ wrong \in [Codes -> Nat]
  /\ tokens \subseteq Codes
  /\ resets \in [Codes -> Nat]

\* A code that is still to come has left no trace, and none is of both kinds.
CodesAreNumbered ==
  \A c \in Codes :
    /\ c > lastCode => otp[c] = NoOtp /\ issuedFor[c] = Null /\ wrong[c] = 0
    /\ issuedFor[c] # Null => otp[c].status = "none"

\* A pending row, also one that a handler remembers, has the code that was
\* issued for its form.
IssuedRow(row) == row.code <= lastCode /\ issuedFor[row.code] = row.form

\* What a handler remembers is still so.
Remembers(r) ==
  /\ r.op = "mail" => r.code <= lastCode
  /\ r.op \in {"miss", "confirm"} => IssuedRow(r.row)
  /\ r.op = "confirm" => r.row.code \in mailed
  /\ r.op \in {"wrong", "right", "reset"} => otp[r.code].status # "none"
  /\ r.op = "right" => r.code \in mailed
  /\ r.op = "reset" => otp[r.code].verified
  /\ r.op \in {"invalidate", "create", "login"} => Registered

RowsAreIssued ==
  /\ pending # NoPending => IssuedRow(pending)
  /\ \A h \in Handlers : Remembers(handler[h])

\* Only a registered user has codes and sessions.
RowsBelong ==
  /\ \A c \in Codes : otp[c].status # "none" => Registered
  /\ \A s \in Sessions : session[s] # "none" => Registered

\* A code is verified when it was mailed, and a token says so.
VerifiedCodesWereMailed ==
  /\ \A c \in Codes : otp[c].verified => c \in mailed
  /\ \A c \in tokens : otp[c].verified

\* Wrong answers are counted by the row whose code they missed; those still to
\* be counted belong to a handler each.
Missing(c) ==
  {h \in Handlers : \/ handler[h].op = "miss" /\ handler[h].row.code = c
                    \/ handler[h].op = "wrong" /\ handler[h].code = c}

WrongAnswersAreCounted ==
  /\ pending # NoPending => wrong[pending.code] <= pending.attempts
  /\ \A c \in Codes :
       /\ otp[c].status # "none" => wrong[c] <= otp[c].attempts
       /\ wrong[c] + Cardinality(Missing(c)) < MaxAttempts + Cardinality(Handlers)

\* So do the resets still to come.
Resetting(c) ==
  {h \in Handlers : handler[h].op = "reset" /\ handler[h].code = c}

ResetsAreCounted ==
  \A c \in Codes :
    /\ resets[c] > 0 => otp[c].verified /\ otp[c].status = "used"
    /\ resets[c] > 0 <=> EventKey(c) \in events
    /\ resets[c] + Cardinality(Resetting(c)) <= Cardinality(Handlers)

-----------------------------------------------------------------------------
(* Properties. *)

\* The user is who the entered code was mailed for, although the waiting row
\* may be replaced by another form, with another code, at every await.
RegisteredAsVerified ==
  Registered => user.code \in mailed /\ user.form = issuedFor[user.code]

\* The five answers a code allows may be exceeded only by the requests that
\* ran at the same time, not without limit.
WrongAnswersAreBounded ==
  \A c \in Codes : wrong[c] < MaxAttempts + Cardinality(Handlers)

Creating == {h \in Handlers : handler[h].op = "create"}

\* Invalidating the earlier codes and storing the new one are two statements:
\* at most as many codes as requests run at the same time are good at once,
\* those included that are about to be stored.
UsableCodesAreBounded ==
  Cardinality(Unused) + Cardinality(Creating) <= Cardinality(Handlers)

\* A code resets the password at most once for each request at the same time.
ResetsAreBounded == \A c \in Codes : resets[c] <= Cardinality(Handlers)

\* Who changed the password had entered a mailed code, and is told of it by an
\* event that the email worker will accept: it wants the code verified and used.
ResetsAreVerifiedAndTold ==
  \A c \in Codes :
    /\ resets[c] > 0 => /\ c \in mailed /\ otp[c].verified
                        /\ otp[c].status = "used"
    /\ resets[c] > 0 <=> EventKey(c) \in events

\* The inductive invariant: what the rows, and the handlers that remember rows,
\* say of each code agrees.
AuthInv ==
  /\ AuthTypeOK
  /\ CodesAreNumbered
  /\ RowsAreIssued
  /\ RowsBelong
  /\ VerifiedCodesWereMailed
  /\ WrongAnswersAreCounted
  /\ ResetsAreCounted
  /\ RegisteredAsVerified
  /\ UsableCodesAreBounded

\* One registration, sessions that stay ended, a new password that ends them
\* all: whatever handlers remember while rows change, the account does what
\* Account promises.
Promise == INSTANCE Account WITH
  password <- resets,
  FirstPassword <- [c \in Codes |-> 0]
ImplementsAccount == Promise!AccountSpec
=============================================================================
