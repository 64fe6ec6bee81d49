---------------------------- MODULE PasswordReset ----------------------------
(* forgotPassword, resendResetOtp, verifyResetOtp and resetPassword.  The time
   limits (ten minutes for a code, five for a token, one between two codes) may
   refuse a call, which then changes nothing. *)
EXTENDS AuthStore

Unused == {c \in Codes : otp[c].status = "unused"}

\* forgotPassword and resendResetOtp, after the latest code was old enough.
ForgotRead(h) ==
  /\ Registered
  /\ Begins(h, [op |-> "invalidate"])
  /\ UNCHANGED <<rows, codeHistory, wrong, tokens, resets, events>>

\* Mutant: earlier codes are left as they are.
Kept == otp

Invalidated ==
  [c \in Codes |-> IF c \in Unused THEN [otp[c] EXCEPT !.status = "used"] ELSE otp[c]]

\* Earlier codes end in one statement, the new one begins in the next.
ForgotInvalidate(h) ==
  /\ Goes(h, "invalidate", [op |-> "create"])
  /\ otp' = Invalidated
  /\ UNCHANGED <<user, pending, session, codeHistory, wrong, tokens, resets, events>>

ForgotCreate(h) ==
  /\ Goes(h, "create", [op |-> "mail", code |-> lastCode + 1])
  /\ Issues(Null)
  /\ otp' = [otp EXCEPT ![lastCode + 1] = [NoOtp EXCEPT !.status = "unused"]]
  /\ UNCHANGED <<user, pending, session, mailed, wrong, tokens, resets, events>>

-----------------------------------------------------------------------------
\* verifyResetOtp takes the latest code that is neither used nor verified.
Latest(c) ==
  LET active == {d \in Unused : ~otp[d].verified}
  IN  c \in active /\ \A d \in active : d <= c

CheckRead(h, c) ==
  /\ Latest(c)
  /\ otp[c].attempts < MaxAttempts
  /\ \/ Begins(h, [op |-> "wrong", code |-> c])
     \/ c \in mailed /\ Begins(h, [op |-> "right", code |-> c])
  /\ UNCHANGED <<rows, codeHistory, wrong, tokens, resets, events>>

CheckWrong(h) ==
  LET c == handler[h].code IN
  /\ Ends(h, "wrong")
  /\ otp' = [otp EXCEPT ![c].attempts = @ + 1]
  /\ wrong' = [wrong EXCEPT ![c] = @ + 1]
  /\ UNCHANGED <<user, pending, session, codeHistory, tokens, resets, events>>

\* The code becomes verified, used or not.  The answer with the token may be lost.
CheckRight(h) ==
  LET c == handler[h].code IN
  /\ Ends(h, "right")
  /\ otp' = [otp EXCEPT ![c].verified = TRUE]
  /\ tokens' \in {tokens, tokens \cup {c}}
  /\ UNCHANGED <<user, pending, session, codeHistory, wrong, resets, events>>

-----------------------------------------------------------------------------
\* Mutant: a code may be used again.
MayResetAgain(c) == otp[c].verified

MayReset(c) == otp[c].verified /\ otp[c].status = "unused"

\* resetPassword looks the code up, hashes the password ...
ResetRead(h, c) ==
  /\ c \in tokens
  /\ MayReset(c)
  /\ Begins(h, [op |-> "reset", code |-> c])
  /\ UNCHANGED <<rows, codeHistory, wrong, tokens, resets, events>>

\* Mutant: one notice per user.
OneEventKey(c) == <<"changed", 0>>

EventKey(c) == <<"changed", c>>

SessionsRevoked ==
  [s \in Sessions |-> IF session[s] = "live" THEN "ended" ELSE session[s]]

\* ... and commits, without looking at the code again.
ResetCommit(h) ==
  LET c == handler[h].code IN
  /\ Ends(h, "reset")
  /\ resets' = [resets EXCEPT ![c] = @ + 1]
  /\ otp' = [otp EXCEPT ![c].status = "used"]
  /\ session' = SessionsRevoked
  /\ events' = events \cup {EventKey(c)}
  /\ UNCHANGED <<user, pending, codeHistory, wrong, tokens>>

PasswordResetStep(h) ==
  \/ ForgotRead(h) \/ ForgotInvalidate(h) \/ ForgotCreate(h)
  \/ \E c \in Codes : CheckRead(h, c) \/ ResetRead(h, c)
  \/ CheckWrong(h) \/ CheckRight(h)
  \/ ResetCommit(h)
=============================================================================
