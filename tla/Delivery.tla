------------------------------ MODULE Delivery ------------------------------
(***************************************************************************)
(* What the email outbox promises: an event is recorded once, taken once,  *)
(* handed to the mail service at most once and only while taken, and ends  *)
(* SENT only after it was handed over.  Queue, workers and crashes are not *)
(* seen here.                                                              *)
(***************************************************************************)
EXTENDS Naturals

CONSTANT Events

VARIABLES
  status,   \* of the event's row
  mailed    \* how often the mail service accepted the event's message

vars == <<status, mailed>>

Init ==
  /\ status = [e \in Events |-> "ABSENT"]
  /\ mailed = [e \in Events |-> 0]

Move(e, from, to) ==
  /\ status[e] = from
  /\ status' = [status EXCEPT ![e] = to]
  /\ UNCHANGED mailed

Record(e) == Move(e, "ABSENT", "PENDING")
Take(e) == Move(e, "PENDING", "PROCESSING")
GiveUp(e) == Move(e, "PROCESSING", "FAILED")
Confirm(e) == mailed[e] = 1 /\ Move(e, "PROCESSING", "SENT")

Mail(e) ==
  /\ status[e] = "PROCESSING"
  /\ mailed[e] = 0
  /\ mailed' = [mailed EXCEPT ![e] = 1]
  /\ UNCHANGED status

Next == \E e \in Events :
  Record(e) \/ Take(e) \/ Mail(e) \/ Confirm(e) \/ GiveUp(e)

Spec == Init /\ [][Next]_vars
=============================================================================
