---------------------------- MODULE Registration ----------------------------
(* register, verifyRegistrationOtp and resendRegistrationOtp.  The time limits
   (ten minutes for a code, one minute between two of them) may refuse a call,
   which then changes nothing. *)
EXTENDS AuthStore

\* register: no user has the address, and then the password is hashed.
RegisterRead(h, f) ==
  /\ ~Registered
  /\ Begins(h, [op |-> "register", form |-> f])
  /\ UNCHANGED <<rows, codeHistory, wrong, tokens, resets, events>>

\* The upsert keeps the id of a row that is there.  A row made after the
\* registration was completed is another row.
PendingId ==
  IF pending # NoPending THEN pending.id ELSE IF Registered THEN 2 ELSE 1

RegisterStore(h) ==
  /\ Goes(h, "register", [op |-> "mail", code |-> lastCode + 1])
  /\ Issues(handler[h].form)
  /\ pending' = [id |-> PendingId, form |-> handler[h].form,
                 code |-> lastCode + 1, attempts |-> 0]
  /\ UNCHANGED <<user, otp, session, mailed, wrong, tokens, resets, events>>

-----------------------------------------------------------------------------

\* verifyRegistrationOtp works on the row it read first: it compares the answer
\* with the code of that row ...
VerifyRead(h) ==
  /\ pending # NoPending
  /\ pending.attempts < MaxAttempts
  /\ \/ Begins(h, [op |-> "miss", row |-> pending])
     \/ pending.code \in mailed /\ Begins(h, [op |-> "confirm", row |-> pending])
  /\ UNCHANGED <<rows, codeHistory, wrong, tokens, resets, events>>

\* Mutant: the counter is written back from the row that was read.
MissesFromRead(h) == handler[h].row.attempts + 1

Misses(h) == pending.attempts + 1

\* ... counts a wrong answer in the row as it is now, whatever its code ...
VerifyMiss(h) ==
  /\ Ends(h, "miss")
  /\ pending.id = handler[h].row.id
  /\ pending' = [pending EXCEPT !.attempts = Misses(h)]
  /\ wrong' = [wrong EXCEPT ![handler[h].row.code] = @ + 1]
  /\ UNCHANGED <<user, otp, session, codeHistory, tokens, resets, events>>

WelcomeKey == <<"welcome", 0>>

\* Mutant: the user is made from the row as it is now.
VerifiedRowNow(h) == pending

VerifiedRow(h) == handler[h].row

\* ... and makes the user from what it read.  The unique address and the
\* deletion by id are what two of them race for.
VerifyCommit(h) ==
  /\ Ends(h, "confirm")
  /\ ~Registered
  /\ pending.id = handler[h].row.id
  /\ user' = [form |-> VerifiedRow(h).form, code |-> handler[h].row.code]
  /\ pending' = NoPending
  /\ events' = events \cup {WelcomeKey}
  /\ UNCHANGED <<otp, session, codeHistory, wrong, tokens, resets>>

-----------------------------------------------------------------------------

\* resendRegistrationOtp: a new code in the row, whoever has changed it since.
ResendRead(h) ==
  /\ pending # NoPending
  /\ Begins(h, [op |-> "resend", id |-> pending.id])
  /\ UNCHANGED <<rows, codeHistory, wrong, tokens, resets, events>>

ResendStore(h) ==
  /\ Goes(h, "resend", [op |-> "mail", code |-> lastCode + 1])
  /\ pending.id = handler[h].id
  /\ Issues(pending.form)
  /\ pending' = [pending EXCEPT !.code = lastCode + 1, !.attempts = 0]
  /\ UNCHANGED <<user, otp, session, mailed, wrong, tokens, resets, events>>

RegistrationStep(h) ==
  \/ \E f \in Forms : RegisterRead(h, f)
  \/ RegisterStore(h)
  \/ VerifyRead(h) \/ VerifyMiss(h) \/ VerifyCommit(h)
  \/ ResendRead(h) \/ ResendStore(h)
=============================================================================
