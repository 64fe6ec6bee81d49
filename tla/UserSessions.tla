---------------------------- MODULE UserSessions ----------------------------
(* login, refreshAccessToken and logout.  Nothing in the code makes a user
   inactive; an access token is good only with its live session (authenticate).
   The address and the browser kept with a session are left out. *)
EXTENDS AuthStore

\* login: the password is verified against the row that was read.
LoginRead(h) ==
  /\ Registered
  /\ Begins(h, [op |-> "login"])
  /\ UNCHANGED <<rows, codeHistory, wrong, tokens, resets, events>>

LoginStore(h, s) ==
  /\ Ends(h, "login")
  /\ session[s] = "none"
  /\ session' = [session EXCEPT ![s] = "live"]
  /\ UNCHANGED <<user, pending, otp, codeHistory, wrong, tokens, resets, events>>

\* refreshAccessToken: an access token, and then lastUsedAt.
RefreshRead(h, s) ==
  /\ session[s] = "live"
  /\ Begins(h, [op |-> "refresh", session |-> s])
  /\ UNCHANGED <<rows, codeHistory, wrong, tokens, resets, events>>

\* Mutant: the whole row is written as it was read.
SavedWhole(h) == [session EXCEPT ![handler[h].session] = "live"]

Touched(h) == session

RefreshStore(h) ==
  /\ Ends(h, "refresh")
  /\ session' = Touched(h)
  /\ UNCHANGED <<user, pending, otp, codeHistory, wrong, tokens, resets, events>>

\* logout, one conditional update, or the seven days are over.
SessionEnds(s) ==
  /\ session[s] = "live"
  /\ session' = [session EXCEPT ![s] = "ended"]
  /\ UNCHANGED <<user, pending, otp, handler, codeHistory, wrong, tokens,
                 resets, events>>

UserSessionStep(h) ==
  \/ LoginRead(h) \/ RefreshStore(h)
  \/ \E s \in Sessions : LoginStore(h, s) \/ RefreshRead(h, s)
=============================================================================
