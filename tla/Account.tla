------------------------------ MODULE Account ------------------------------
(* What an account promises: one registration, sessions that stay ended, and a
   change of the password that ends all of them at once. *)
CONSTANTS Sessions, NoUser, FirstPassword

VARIABLES user, password, session
accountVars == <<user, password, session>>

AccountInit ==
  /\ user = NoUser
  /\ password = FirstPassword
  /\ session = [s \in Sessions |-> "none"]

Register ==
  /\ user = NoUser /\ user' # NoUser
  /\ UNCHANGED <<password, session>>

Open(s) ==
  /\ user # NoUser
  /\ session[s] = "none"
  /\ session' = [session EXCEPT ![s] = "live"]
  /\ UNCHANGED <<user, password>>

End(s) ==
  /\ session[s] = "live"
  /\ session' = [session EXCEPT ![s] = "ended"]
  /\ UNCHANGED <<user, password>>

ChangePassword ==
  /\ user # NoUser
  /\ password' # password
  /\ session' = [s \in Sessions |->
                   IF session[s] = "none" THEN "none" ELSE "ended"]
  /\ UNCHANGED user

AccountNext ==
  \/ Register
  \/ ChangePassword
  \/ \E s \in Sessions : Open(s) \/ End(s)

AccountSpec == AccountInit /\ [][AccountNext]_accountVars
=============================================================================
