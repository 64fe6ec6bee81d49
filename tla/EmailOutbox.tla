----------------------------- MODULE EmailOutbox -----------------------------
(***************************************************************************)
(* The email outbox: rows written with the business transaction, the       *)
(* dispatcher that turns PENDING rows into BullMQ jobs, and the workers    *)
(* that claim a row, hand the message to the mail service and settle the   *)
(* row.  Two stores are kept in step by none: PostgreSQL (row) and Redis   *)
(* (job).  Any await may throw, before or after its effect; any process    *)
(* may die and start again with its memory empty.                          *)
(***************************************************************************)
EXTENDS Naturals, FiniteSets

CONSTANTS
  Events,         \* event keys; an event is its place in (createdAt, id) order
  Kind,           \* what e-mail an event asks for
  Dispatchers, Workers,
  BatchSize,      \* rows one dispatch reads (20)
  ReviewSize,     \* rows one inspection reads (100)
  MaxStalls,      \* BullMQ's maxStalledCount (its default, 1)
  MaxCrashes,     \* bound on process deaths
  JobsMayVanish,  \* whether Redis may lose a job
  Nobody

ASSUME OutboxAssumption ==
  /\ Events \subseteq Nat \ {0}
  /\ Kind \in [Events -> {"welcome-email", "password-changed-email",
                          "kyc-reminder-email"}]
  /\ BatchSize \in Nat \ {0}
  /\ ReviewSize \in Nat
  /\ MaxStalls \in Nat
  /\ MaxCrashes \in Nat
  /\ JobsMayVanish \in BOOLEAN
  /\ Nobody \notin Workers

VARIABLES
  row,      \* emailOutbox rows
  job,      \* BullMQ jobs; job id and event id correspond
  able,     \* events whose handler would find its recipient to be written to
  disp,     \* per dispatcher: the pass under way, and lastScanned as cursor
  run,      \* per worker: the job it processes
  mailed,   \* messages the mail service accepted
  crashes

outboxVars == <<row, job, able, disp, run, mailed, crashes>>

\* The token of a claim is its worker: a worker remembers one claim at a time,
\* so no two claims that anybody remembers share a token, as with the UUID.
Row(status, token, lock) == [status |-> status, token |-> token, lock |-> lock]
NoRow == Row("ABSENT", Nobody, "none")
Pending == Row("PENDING", Nobody, "none")

Job(state, stalls, holder) ==
  [state |-> state, stalls |-> stalls, holder |-> holder]
NoJob == Job("none", 0, Nobody)

Idle == [pc |-> "idle", event |-> 0]
AtRest(cursor) ==
  [phase |-> "idle", todo |-> {}, batch |-> {}, cursor |-> cursor]

Final(e) == row[e].status \in {"SENT", "FAILED"}

OutboxTypeOK ==
  /\ row \in [Events ->
       [status: {"ABSENT", "PENDING", "PROCESSING", "SENT", "FAILED"},
        token: Workers \cup {Nobody}, lock: {"none", "running", "expired"}]]
  /\ job \in [Events ->
       [state: {"none", "waiting", "active", "completed", "failed"},
        stalls: 0..MaxStalls, holder: Workers \cup {Nobody}]]
  /\ able \in SUBSET Events
  /\ disp \in [Dispatchers ->
       [phase: {"idle", "remind", "enqueue"}, todo: SUBSET Events,
        batch: SUBSET Events, cursor: Events \cup {0}]]
  /\ run \in [Workers ->
       [pc: {"idle", "validate", "claim", "recheck", "prepare", "send",
             "skip", "mark", "fail", "succeeded", "thrown"},
        event: Events \cup {0}]]
  /\ mailed \in [Events -> Nat]
  /\ crashes \in 0..MaxCrashes

OutboxInit ==
  /\ row = [e \in Events |-> NoRow]
  /\ job = [e \in Events |-> NoJob]
  /\ able = Events
  /\ disp = [d \in Dispatchers |-> AtRest(0)]
  /\ run = [w \in Workers |-> Idle]
  /\ mailed = [e \in Events |-> 0]
  /\ crashes = 0

-----------------------------------------------------------------------------
(* The business side. *)

IsReminder(e) == Kind[e] = "kyc-reminder-email"

\* createEmailOutboxEvent in the registration and password-reset transactions.
RecordEvent(e) ==
  /\ ~IsReminder(e)
  /\ row[e] = NoRow
  /\ row' = [row EXCEPT ![e] = Pending]
  /\ UNCHANGED <<job, able, disp, run, mailed, crashes>>

\* The user is deactivated, or the customer's KYC leaves the stages that are
\* reminded of; a rejected identity check may be started anew.
ChangeRecipient(e) ==
  /\ \/ e \in able /\ Kind[e] # "password-changed-email" /\ able' = able \ {e}
     \/ e \notin able /\ IsReminder(e) /\ able' = able \cup {e}
  /\ UNCHANGED <<row, job, disp, run, mailed, crashes>>

-----------------------------------------------------------------------------
(* The dispatcher.  Its passes never overlap (`dispatching`). *)

FirstOf(S, n) == {e \in S : Cardinality({f \in S : f < e}) < n}

ReminderDue == {e \in able : IsReminder(e) /\ row[e] = NoRow}

\* The reminder scan: due by age (any subset), or the scan itself not yet due.
StartDispatch(d) ==
  /\ disp[d].phase = "idle"
  /\ \E due \in SUBSET ReminderDue :
       disp' = [disp EXCEPT ![d] = [@ EXCEPT !.phase = "remind", !.todo = due]]
  /\ UNCHANGED <<row, job, able, run, mailed, crashes>>

UpsertReminder(d) ==
  /\ disp[d].phase = "remind"
  /\ \E e \in disp[d].todo :
       /\ row' = IF row[e] = NoRow THEN [row EXCEPT ![e] = Pending] ELSE row
       /\ disp' = [disp EXCEPT ![d].todo = @ \ {e}]
  /\ UNCHANGED <<job, able, run, mailed, crashes>>

PendingAfter(cursor) ==
  {e \in Events : row[e].status = "PENDING" /\ e > cursor}

Query(d) ==
  /\ disp[d].phase = "remind"
  /\ disp[d].todo = {}
  /\ LET found == FirstOf(PendingAfter(disp[d].cursor), BatchSize)
     IN disp' = [disp EXCEPT ![d] =
          IF found # {} THEN [@ EXCEPT !.phase = "enqueue", !.batch = found]
          ELSE IF @.cursor # 0 THEN [@ EXCEPT !.cursor = 0]  \* query again
          ELSE AtRest(0)]
  /\ UNCHANGED <<row, job, able, run, mailed, crashes>>

\* emailQueue.add: a job id that exists is left alone, finished or not.
AddJob(e) ==
  job' = IF job[e] = NoJob
         THEN [job EXCEPT ![e] = Job("waiting", 0, Nobody)] ELSE job

\* Mutant: the cursor is not moved.
EnqueueKeepsCursor(d) ==
  /\ disp[d].phase = "enqueue"
  /\ \E e \in FirstOf(disp[d].batch, 1) :
       LET rest == disp[d].batch \ {e}
       IN /\ AddJob(e)
          /\ disp' = [disp EXCEPT ![d] =
               IF rest = {} THEN AtRest(@.cursor) ELSE [@ EXCEPT !.batch = rest]]
  /\ UNCHANGED <<row, able, run, mailed, crashes>>

Enqueue(d) ==
  /\ disp[d].phase = "enqueue"
  /\ \E e \in FirstOf(disp[d].batch, 1) :
       LET rest == disp[d].batch \ {e}
       IN /\ AddJob(e)
          /\ disp' = [disp EXCEPT ![d] =
               IF rest = {} THEN AtRest(e)
               ELSE [@ EXCEPT !.batch = rest, !.cursor = e]]
  /\ UNCHANGED <<row, able, run, mailed, crashes>>

\* PostgreSQL or Redis fails: the pass ends, the cursor stays.
DispatchFails(d) ==
  /\ disp[d].phase # "idle"
  /\ disp' = [disp EXCEPT ![d] = AtRest(@.cursor)]
  /\ UNCHANGED <<row, job, able, run, mailed, crashes>>

DispatcherDies(d) ==
  /\ crashes < MaxCrashes
  /\ crashes' = crashes + 1
  /\ disp' = [disp EXCEPT ![d] = AtRest(0)]
  /\ UNCHANGED <<row, job, able, run, mailed>>

-----------------------------------------------------------------------------
(* The queue. *)

TakeJob(w, e) ==
  /\ run[w] = Idle
  /\ job[e].state = "waiting"
  /\ job' = [job EXCEPT ![e] = [@ EXCEPT !.state = "active", !.holder = w]]
  /\ run' = [run EXCEPT ![w] = [pc |-> "validate", event |-> e]]
  /\ UNCHANGED <<row, able, disp, mailed, crashes>>

\* Attempts is 1, so a thrown job fails at once.  A worker that lost the lock
\* of the job finishes nothing.
Finish(w) ==
  LET e == run[w].event
  IN /\ run[w].pc \in {"succeeded", "thrown"}
     /\ job' = IF job[e].state = "active" /\ job[e].holder = w
               THEN [job EXCEPT ![e] = Job(
                       IF run[w].pc = "succeeded" THEN "completed" ELSE "failed",
                       @.stalls, Nobody)]
               ELSE job
     /\ run' = [run EXCEPT ![w] = Idle]
     /\ UNCHANGED <<row, able, disp, mailed, crashes>>

\* The lock of an active job lapses: its worker is dead, or alive and blocked.
Stall(e) ==
  /\ job[e].state = "active"
  /\ job' = [job EXCEPT ![e] =
       IF @.stalls < MaxStalls THEN Job("waiting", @.stalls + 1, Nobody)
                               ELSE Job("failed", @.stalls, Nobody)]
  /\ UNCHANGED <<row, able, disp, run, mailed, crashes>>

Abandoned(e) == job[e].state = "active" /\ run[job[e].holder].event # e

JobVanishes(e) ==
  /\ JobsMayVanish
  /\ job[e] # NoJob
  /\ job' = [job EXCEPT ![e] = NoJob]
  /\ UNCHANGED <<row, able, disp, run, mailed, crashes>>

WorkerDies(w) ==
  /\ run[w] # Idle
  /\ crashes < MaxCrashes
  /\ crashes' = crashes + 1
  /\ run' = [run EXCEPT ![w] = Idle]
  /\ UNCHANGED <<row, job, able, disp, mailed>>

-----------------------------------------------------------------------------
(* The processor of a job, one action per await. *)

Goto(w, pc) == run' = [run EXCEPT ![w].pc = pc]
OnlyRun == UNCHANGED <<job, able, disp, mailed, crashes>>

Validate(w) ==
  /\ run[w].pc = "validate"
  /\ Goto(w, IF row[run[w].event].status = "SENT" THEN "succeeded" ELSE "claim")
  /\ UNCHANGED row /\ OnlyRun

\* A database error outside the try block.
LookupFails(w) ==
  /\ run[w].pc \in {"validate", "claim", "recheck"}
  /\ Goto(w, "thrown")
  /\ UNCHANGED row /\ OnlyRun

\* Mutant: any row that nobody holds is claimed.
ClaimableByToken(e) == row[e].token = Nobody

Claimable(e) == row[e].status = "PENDING" /\ row[e].token = Nobody

\* claimEmailOutboxEvent; the answer to the update may be lost.
Claim(w) ==
  LET e == run[w].event
  IN /\ run[w].pc = "claim"
     /\ \/ /\ Claimable(e)
           /\ row' = [row EXCEPT ![e] = Row("PROCESSING", w, "running")]
           /\ Goto(w, "prepare") \/ Goto(w, "thrown")
        \/ ~Claimable(e) /\ UNCHANGED row /\ Goto(w, "recheck")
     /\ OnlyRun

\* Mutant: a job that cannot claim its event counts as done.
RecheckLenient(w) ==
  /\ run[w].pc = "recheck"
  /\ Goto(w, "succeeded")
  /\ UNCHANGED row /\ OnlyRun

Recheck(w) ==
  /\ run[w].pc = "recheck"
  /\ Goto(w, IF row[run[w].event].status = "SENT" THEN "succeeded" ELSE "thrown")
  /\ UNCHANGED row /\ OnlyRun

\* The handler reads its recipient and renders the message, or throws.
Prepare(w) ==
  LET e == run[w].event
  IN /\ run[w].pc = "prepare"
     /\ \/ Goto(w, CASE e \in able -> "send"
                     [] e \notin able /\ IsReminder(e) -> "skip"
                     [] OTHER -> "fail")
        \/ Goto(w, "fail")
     /\ UNCHANGED row /\ OnlyRun

\* The mail service accepts, with or without its answer arriving, or refuses.
Send(w) ==
  /\ run[w].pc = "send"
  /\ \/ /\ mailed' = [mailed EXCEPT ![run[w].event] = @ + 1]
        /\ Goto(w, "mark") \/ Goto(w, "fail")
     \/ Goto(w, "fail") /\ UNCHANGED mailed
  /\ UNCHANGED <<row, job, able, disp, crashes>>

\* The updates that end a claim apply to the row the worker still holds.
Holds(w) ==
  LET e == run[w].event IN row[e].status = "PROCESSING" /\ row[e].token = w

Settle(w, status) ==
  /\ Holds(w)
  /\ row' = [row EXCEPT ![run[w].event] = Row(status, Nobody, "none")]

\* Mutant: a skipped reminder is marked SENT.
SkipAsSent(w) ==
  /\ run[w].pc = "skip"
  /\ \/ Settle(w, "SENT") /\ (Goto(w, "succeeded") \/ Goto(w, "fail"))
     \/ UNCHANGED row /\ Goto(w, "fail")
  /\ OnlyRun

\* An update that fails, or matches no row, throws into the catch block; one
\* that fails may have been applied.
SkipReminder(w) ==
  /\ run[w].pc = "skip"
  /\ \/ Settle(w, "FAILED") /\ (Goto(w, "succeeded") \/ Goto(w, "fail"))
     \/ UNCHANGED row /\ Goto(w, "fail")
  /\ OnlyRun

MarkSent(w) ==
  /\ run[w].pc = "mark"
  /\ \/ Settle(w, "SENT") /\ (Goto(w, "succeeded") \/ Goto(w, "fail"))
     \/ UNCHANGED row /\ Goto(w, "fail")
  /\ OnlyRun

\* Whatever becomes of the update, the first error is thrown on.
MarkFailed(w) ==
  /\ run[w].pc = "fail"
  /\ Settle(w, "FAILED") \/ UNCHANGED row
  /\ Goto(w, "thrown")
  /\ OnlyRun

Process(w) ==
  \/ Validate(w) \/ LookupFails(w) \/ Claim(w) \/ Recheck(w) \/ Prepare(w)
  \/ Send(w) \/ SkipReminder(w) \/ MarkSent(w) \/ MarkFailed(w) \/ Finish(w)

-----------------------------------------------------------------------------
(* The inspection of the outbox: read-only. *)

\* lockedUntil passes, whether or not the claim's worker is still at work.
ClaimExpires(e) ==
  /\ row[e].lock = "running"
  /\ row' = [row EXCEPT ![e].lock = "expired"]
  /\ UNCHANGED <<job, able, disp, run, mailed, crashes>>

\* What the inspection reads: everything not SENT and not under a live claim.
Inspected == FirstOf({e \in Events :
  \/ row[e].status \in {"PENDING", "FAILED"}
  \/ row[e].status = "PROCESSING" /\ row[e].lock # "running"}, ReviewSize)

\* Mutant: failed jobs of PENDING events are not looked for.
HasIssueUnlessFailed(e) ==
  row[e].status = "PENDING" => job[e].state \in {"none", "completed"}

\* It keeps quiet about PENDING events whose job waits or runs.
HasIssue(e) ==
  row[e].status = "PENDING" => job[e].state \notin {"waiting", "active"}

Reported(e) == e \in Inspected /\ HasIssue(e)

-----------------------------------------------------------------------------

OutboxNext ==
  \/ \E e \in Events : \/ RecordEvent(e) \/ ChangeRecipient(e) \/ Stall(e)
                       \/ JobVanishes(e) \/ ClaimExpires(e)
  \/ \E d \in Dispatchers : \/ StartDispatch(d) \/ UpsertReminder(d) \/ Query(d)
                            \/ Enqueue(d) \/ DispatchFails(d) \/ DispatcherDies(d)
  \/ \E w \in Workers : \/ Process(w) \/ WorkerDies(w)
                        \/ \E e \in Events : TakeJob(w, e)

OutboxSpec == OutboxInit /\ [][OutboxNext]_outboxVars

\* The interval timer starts pass after pass, and not every pass fails at the
\* same await.  Workers go on; BullMQ serves waiting jobs in their order and
\* detects the job of a dead worker.  Time passes.
OutboxFairness ==
  /\ \A d \in Dispatchers :
       /\ WF_outboxVars(StartDispatch(d))
       /\ SF_outboxVars(UpsertReminder(d))
       /\ SF_outboxVars(Query(d))
       /\ SF_outboxVars(Enqueue(d))
  /\ \A w \in Workers : WF_outboxVars(Process(w))
  /\ \A e \in Events :
       /\ SF_outboxVars(\E w \in Workers : TakeJob(w, e))
       /\ WF_outboxVars(Abandoned(e) /\ Stall(e))
       /\ WF_outboxVars(ClaimExpires(e))

FairOutboxSpec == OutboxSpec /\ OutboxFairness

-----------------------------------------------------------------------------
(* The inductive invariant. *)

\* A worker that processes a job knows its event, an idle one none.
RunsHaveEvents ==
  \A w \in Workers : (run[w].event \in Events) <=> (run[w].pc # "idle")

\* Between its claim and its catch block a worker holds the row, and what it
\* has mailed is what its place says.
ClaimsAreHeld ==
  \A w \in Workers :
    /\ run[w].pc \in {"prepare", "send", "skip", "mark"} => Holds(w)
    /\ run[w].pc \in {"prepare", "send", "skip"} => mailed[run[w].event] = 0
    /\ run[w].pc = "mark" => mailed[run[w].event] = 1

\* Rows tell whether their message may have been mailed.
RowsTellTheMail ==
  \A e \in Events :
    /\ mailed[e] \in {0, 1}
    /\ row[e].status \in {"ABSENT", "PENDING"} =>
         mailed[e] = 0 /\ row[e].token = Nobody
    /\ row[e].status = "SENT" => mailed[e] = 1

\* A processor returns without an error only when the row is settled.
SuccessIsFinal ==
  \A w \in Workers : run[w].pc = "succeeded" => Final(run[w].event)

\* BullMQ calls a job completed only when its row has been settled: nothing
\* that a job is kept for (removeOnComplete: false) is still to be done.
CompletedMeansFinal ==
  \A e \in Events : job[e].state = "completed" => Final(e)

\* Rows, workers and mail agree: what makes AtMostOnce inductive.
OutboxInv ==
  /\ OutboxTypeOK
  /\ RunsHaveEvents
  /\ ClaimsAreHeld
  /\ RowsTellTheMail
  /\ SuccessIsFinal
  /\ CompletedMeansFinal

-----------------------------------------------------------------------------
(* Properties. *)

\* No event's message is handed to the mail service twice, although a job may
\* run twice (a lapsed lock, a lost job) and a settled row may be met again.
AtMostOnce == \A e \in Events : mailed[e] <= 1

\* The outbox implements what Delivery promises, under all interleavings of
\* passes, stalls, deaths, and lost answers.
Promise == INSTANCE Delivery WITH
  status <- [e \in Events |-> row[e].status],
  mailed <- mailed
ImplementsDelivery == Promise!Spec

\* Every recorded event gets a job, also behind PENDING rows whose job is over
\* and which every query returns again (what the moving cursor is for).
EventuallyQueued ==
  \A e \in Events : (row[e].status = "PENDING") ~> (job[e] # NoJob)

\* Nothing recorded is forgotten: in the end a row is settled or an inspection
\* reports it, as long as one inspection can read all rows.
SettledOrReported ==
  \A e \in Events :
    <>[](row[e].status \in {"ABSENT", "SENT"} \/ Reported(e))

\* The comment of the worker on skipped reminders: "FAILED indicates the
\* reminder was not delivered".
FailedWasNotDelivered ==
  \A e \in Events : row[e].status = "FAILED" => mailed[e] = 0
=============================================================================
