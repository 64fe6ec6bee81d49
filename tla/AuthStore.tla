----------------------------- MODULE AuthStore -----------------------------
(* The rows of one e-mail address in src/modules/auth, and the request handlers
   that work on them: a registration that waits for its code, the user it
   becomes, the codes that may reset his password, and his sessions.  Rows of
   different addresses never meet.  Codes are numbered in the order in which
   they are stored (createdAt); that a guess hits a code that was not mailed is
   left out. *)
EXTENDS Naturals, FiniteSets

CONSTANTS
  Handlers,     \* request handlers that may run at the same time
  Forms,        \* what a registration form may say, its password included
  Sessions,     \* ids of UserSession rows
  MaxCodes,     \* bound on the codes that are ever stored
  MaxAttempts,  \* wrong answers after which a code is refused, 5 in the code
  Null

ASSUME AuthAssumption ==
  /\ IsFiniteSet(Handlers)
  /\ MaxCodes \in Nat /\ MaxAttempts \in Nat \ {0}
  /\ Null \notin Forms \cup Sessions

VARIABLES
  user,       \* the User and Customer row: the form and code it was made from
  pending,    \* the PendingRegistration row
  otp,        \* PasswordResetOtp rows, by their code
  session,    \* UserSession rows
  handler,    \* what each handler does next, and what it remembers
  lastCode,   \* the last code that was stored
  mailed,     \* codes that were mailed to the customer
  issuedFor,  \* the form a registration code was issued for
  wrong,      \* how many answers to each code were refused as wrong
  tokens,     \* reset tokens the customer holds, by their code
  resets,     \* how often each code has reset the password
  events      \* keys of auth:* rows in the email outbox

rows == <<user, pending, otp, session>>
codeHistory == <<lastCode, mailed, issuedFor>>
authVars == <<rows, handler, codeHistory, wrong, tokens, resets, events>>

Codes == 1 .. MaxCodes

NoUser == [form |-> Null, code |-> 0]
NoPending == [id |-> 0, form |-> Null, code |-> 0, attempts |-> 0]
NoOtp == [status |-> "none", attempts |-> 0, verified |-> FALSE]

Registered == user # NoUser

AuthInit ==
  /\ user = NoUser
  /\ pending = NoPending
  /\ otp = [c \in Codes |-> NoOtp]
  /\ session = [s \in Sessions |-> "none"]
  /\ handler = [h \in Handlers |-> [op |-> "idle"]]
  /\ lastCode = 0
  /\ mailed = {}
  /\ issuedFor = [c \in Codes |-> Null]
  /\ wrong = [c \in Codes |-> 0]
  /\ tokens = {}
  /\ resets = [c \in Codes |-> 0]
  /\ events = {}

-----------------------------------------------------------------------------
(* Steps of a handler: from await to await, until it answers. *)

Begins(h, next) == handler[h].op = "idle" /\ handler' = [handler EXCEPT ![h] = next]
Goes(h, op, next) == handler[h].op = op /\ handler' = [handler EXCEPT ![h] = next]
Ends(h, op) == Goes(h, op, [op |-> "idle"])

\* An error, a failing query or mail, or the death of the process.
GivesUp(h) ==
  /\ handler[h].op # "idle"
  /\ handler' = [handler EXCEPT ![h] = [op |-> "idle"]]
  /\ UNCHANGED <<rows, codeHistory, wrong, tokens, resets, events>>

\* A new code, stored by the step that calls this.
Issues(form) ==
  /\ lastCode < MaxCodes
  /\ lastCode' = lastCode + 1
  /\ issuedFor' = [issuedFor EXCEPT ![lastCode + 1] = form]

\* sendEmail: the mail may be out although the handler never learns of it.
Mail(h) ==
  /\ handler[h].op = "mail"
  /\ mailed' = mailed \cup {handler[h].code}
  /\ Ends(h, "mail")
  /\ UNCHANGED <<rows, lastCode, issuedFor, wrong, tokens, resets, events>>
=============================================================================
