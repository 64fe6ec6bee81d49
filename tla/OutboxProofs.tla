---------------------------- MODULE OutboxProofs ----------------------------
(***************************************************************************)
(* Proofs about EmailOutbox, for any events, workers, dispatchers, batch   *)
(* sizes, numbers of stalls and crashes, and a queue that may lose jobs.   *)
(***************************************************************************)
EXTENDS EmailOutbox, TLAPS

RowType ==
  [status: {"ABSENT", "PENDING", "PROCESSING", "SENT", "FAILED"},
   token: Workers \cup {Nobody}, lock: {"none", "running", "expired"}]
JobType ==
  [state: {"none", "waiting", "active", "completed", "failed"},
   stalls: 0..MaxStalls, holder: Workers \cup {Nobody}]
DispType ==
  [phase: {"idle", "remind", "enqueue"}, todo: SUBSET Events,
   batch: SUBSET Events, cursor: Events \cup {0}]
RunType ==
  [pc: {"idle", "validate", "claim", "recheck", "prepare", "send",
        "skip", "mark", "fail", "succeeded", "thrown"},
   event: Events \cup {0}]

-----------------------------------------------------------------------------
(* Type correctness. *)

\* The dispatcher's and the recipients' steps leave the state well typed.
LEMMA DispatchKeepsType ==
  ASSUME OutboxAssumption, OutboxTypeOK, NEW d \in Dispatchers,
         StartDispatch(d) \/ UpsertReminder(d) \/ Query(d) \/ Enqueue(d)
           \/ DispatchFails(d) \/ DispatcherDies(d)
  PROVE  OutboxTypeOK'
<1> USE DEF OutboxAssumption
<1> disp[d] \in DispType
  BY DEF OutboxTypeOK, DispType
<1>1. ASSUME StartDispatch(d)
      PROVE  OutboxTypeOK'
  <2>1. PICK due \in SUBSET ReminderDue :
          disp' = [disp EXCEPT ![d] = [@ EXCEPT !.phase = "remind", !.todo = due]]
    BY <1>1 DEF StartDispatch
  <2>2. due \in SUBSET Events
    BY DEF ReminderDue, OutboxTypeOK
  <2>3. disp' \in [Dispatchers -> DispType]
    BY <2>1, <2>2 DEF OutboxTypeOK, DispType
  <2> QED
    BY <1>1, <2>3 DEF StartDispatch, OutboxTypeOK, DispType
<1>2. ASSUME UpsertReminder(d)
      PROVE  OutboxTypeOK'
  <2>1. Pending \in RowType
    BY DEF Pending, Row, RowType
  <2> PICK e \in disp[d].todo :
         /\ row' = IF row[e] = NoRow THEN [row EXCEPT ![e] = Pending] ELSE row
         /\ disp' = [disp EXCEPT ![d].todo = @ \ {e}]
    BY <1>2 DEF UpsertReminder
  <2>2. row' \in [Events -> RowType]
    BY <2>1 DEF OutboxTypeOK, RowType
  <2>3. disp' \in [Dispatchers -> DispType]
    BY DEF OutboxTypeOK, DispType
  <2> QED
    BY <1>2, <2>2, <2>3 DEF UpsertReminder, OutboxTypeOK, RowType, DispType
<1>3. ASSUME Query(d)
      PROVE  OutboxTypeOK'
  <2> DEFINE found == FirstOf(PendingAfter(disp[d].cursor), BatchSize)
  <2>1. found \in SUBSET Events
    BY DEF FirstOf, PendingAfter
  <2> HIDE DEF found
  <2>2. AtRest(0) \in DispType
    BY DEF AtRest, DispType
  <2>3. disp' \in [Dispatchers -> DispType]
    BY <1>3, <2>1, <2>2 DEF Query, found, OutboxTypeOK, DispType
  <2> QED
    BY <1>3, <2>3 DEF Query, OutboxTypeOK, DispType
<1>4. ASSUME Enqueue(d)
      PROVE  OutboxTypeOK'
  <2>1. PICK e \in FirstOf(disp[d].batch, 1) :
          /\ AddJob(e)
          /\ disp' = [disp EXCEPT ![d] =
               IF disp[d].batch \ {e} = {} THEN AtRest(e)
               ELSE [@ EXCEPT !.batch = disp[d].batch \ {e}, !.cursor = e]]
    BY <1>4 DEF Enqueue
  <2>2. e \in Events
    BY DEF FirstOf, DispType
  <2>3. AtRest(e) \in DispType
    BY <2>2 DEF AtRest, DispType
  <2>4. disp' \in [Dispatchers -> DispType]
    BY <2>1, <2>2, <2>3 DEF OutboxTypeOK, DispType
  <2>5. Job("waiting", 0, Nobody) \in JobType
    BY DEF Job, JobType
  <2>6. job' \in [Events -> JobType]
    BY <2>1, <2>2, <2>5 DEF AddJob, OutboxTypeOK, JobType
  <2> QED
    BY <1>4, <2>4, <2>6 DEF Enqueue, OutboxTypeOK, DispType, JobType
<1>5. ASSUME DispatchFails(d)
      PROVE  OutboxTypeOK'
  <2>1. AtRest(disp[d].cursor) \in DispType
    BY DEF AtRest, DispType
  <2>2. disp' \in [Dispatchers -> DispType]
    BY <1>5, <2>1 DEF DispatchFails, OutboxTypeOK, DispType
  <2> QED
    BY <1>5, <2>2 DEF DispatchFails, OutboxTypeOK, DispType
<1>6. ASSUME DispatcherDies(d)
      PROVE  OutboxTypeOK'
  <2>1. AtRest(0) \in DispType
    BY DEF AtRest, DispType
  <2>2. disp' \in [Dispatchers -> DispType]
    BY <1>6, <2>1 DEF DispatcherDies, OutboxTypeOK, DispType
  <2>3. crashes' \in 0..MaxCrashes
    BY <1>6 DEF DispatcherDies, OutboxTypeOK
  <2> QED
    BY <1>6, <2>2, <2>3 DEF DispatcherDies, OutboxTypeOK, DispType
<1> QED
  BY <1>1, <1>2, <1>3, <1>4, <1>5, <1>6

\* The queue's steps and those of the rows' surroundings do, too.
LEMMA QueueKeepsType ==
  ASSUME OutboxAssumption, OutboxTypeOK, NEW e \in Events,
         \/ RecordEvent(e) \/ ChangeRecipient(e) \/ Stall(e)
         \/ JobVanishes(e) \/ ClaimExpires(e)
         \/ \E w \in Workers : TakeJob(w, e)
  PROVE  OutboxTypeOK'
<1> USE DEF OutboxAssumption
<1> row[e] \in RowType /\ job[e] \in JobType
  BY DEF OutboxTypeOK, RowType, JobType
<1>1. ASSUME RecordEvent(e)
      PROVE  OutboxTypeOK'
  <2>1. Pending \in RowType
    BY DEF Pending, Row, RowType
  <2>2. row' \in [Events -> RowType]
    BY <1>1, <2>1 DEF RecordEvent, OutboxTypeOK, RowType
  <2> QED
    BY <1>1, <2>2 DEF RecordEvent, OutboxTypeOK, RowType
<1>2. ASSUME ChangeRecipient(e)
      PROVE  OutboxTypeOK'
  BY <1>2 DEF ChangeRecipient, OutboxTypeOK
<1>3. ASSUME Stall(e)
      PROVE  OutboxTypeOK'
  <2>1. /\ Job("failed", job[e].stalls, Nobody) \in JobType
        /\ job[e].stalls < MaxStalls =>
             Job("waiting", job[e].stalls + 1, Nobody) \in JobType
    BY DEF Job, JobType
  <2>2. job' \in [Events -> JobType]
    BY <1>3, <2>1 DEF Stall, OutboxTypeOK, JobType
  <2> QED
    BY <1>3, <2>2 DEF Stall, OutboxTypeOK, JobType
<1>4. ASSUME JobVanishes(e)
      PROVE  OutboxTypeOK'
  <2>1. NoJob \in JobType
    BY DEF NoJob, Job, JobType
  <2>2. job' \in [Events -> JobType]
    BY <1>4, <2>1 DEF JobVanishes, OutboxTypeOK, JobType
  <2> QED
    BY <1>4, <2>2 DEF JobVanishes, OutboxTypeOK, JobType
<1>5. ASSUME ClaimExpires(e)
      PROVE  OutboxTypeOK'
  <2>1. row' \in [Events -> RowType]
    BY <1>5 DEF ClaimExpires, OutboxTypeOK, RowType
  <2> QED
    BY <1>5, <2>1 DEF ClaimExpires, OutboxTypeOK, RowType
<1>6. ASSUME NEW w \in Workers, TakeJob(w, e)
      PROVE  OutboxTypeOK'
  <2>1. job' \in [Events -> JobType]
    BY <1>6 DEF TakeJob, OutboxTypeOK, JobType
  <2>2. run' \in [Workers -> RunType]
    BY <1>6 DEF TakeJob, OutboxTypeOK, RunType
  <2> QED
    BY <1>6, <2>1, <2>2 DEF TakeJob, OutboxTypeOK, JobType, RunType
<1> QED
  BY <1>1, <1>2, <1>3, <1>4, <1>5, <1>6

\* Rows that a claim's end or beginning writes are well typed.
LEMMA RowsKeepType ==
  ASSUME OutboxAssumption, OutboxTypeOK, NEW w \in Workers
  PROVE  /\ \A s \in {"SENT", "FAILED"} :
              Settle(w, s) => row' \in [Events -> RowType]
         /\ \A pc \in {"claim", "recheck", "prepare", "send", "skip", "mark",
                       "fail", "succeeded", "thrown"} :
              Goto(w, pc) => run' \in [Workers -> RunType]
         /\ Claim(w) => row' \in [Events -> RowType]
         /\ UNCHANGED row => row' \in [Events -> RowType]
<1>1. row \in [Events -> RowType]
  BY DEF OutboxTypeOK, RowType
<1>2. run \in [Workers -> RunType]
  BY DEF OutboxTypeOK, RunType
<1>3. ASSUME NEW s \in {"SENT", "FAILED"}, Settle(w, s)
      PROVE  row' \in [Events -> RowType]
  <2>1. Row(s, Nobody, "none") \in RowType
    BY DEF Row, RowType
  <2> QED
    BY <1>1, <1>3, <2>1 DEF Settle
<1>4. ASSUME Claim(w)
      PROVE  row' \in [Events -> RowType]
  <2>1. Row("PROCESSING", w, "running") \in RowType
    BY DEF Row, RowType
  <2> QED
    BY <1>1, <1>4, <2>1 DEF Claim
<1>5. ASSUME NEW pc \in {"claim", "recheck", "prepare", "send", "skip",
                         "mark", "fail", "succeeded", "thrown"},
             Goto(w, pc)
      PROVE  run' \in [Workers -> RunType]
  BY <1>2, <1>5 DEF Goto, RunType
<1> QED
  BY <1>1, <1>3, <1>4, <1>5

\* The processor's steps and the death of a worker keep the types.
LEMMA WorkerKeepsType ==
  ASSUME OutboxAssumption, OutboxTypeOK, NEW w \in Workers,
         Process(w) \/ WorkerDies(w)
  PROVE  OutboxTypeOK'
<1> USE DEF OutboxAssumption, OnlyRun
<1>1. run \in [Workers -> RunType] /\ run[w].event \in Events \cup {0}
  BY DEF OutboxTypeOK, RunType
<1>2. ASSUME run' \in [Workers -> RunType], row' \in [Events -> RowType], OnlyRun
      PROVE  OutboxTypeOK'
  BY <1>2 DEF OutboxTypeOK, RunType, RowType
<1>3. ASSUME Validate(w) \/ LookupFails(w) \/ Claim(w) \/ Recheck(w) \/ Prepare(w)
      PROVE  OutboxTypeOK'
  <2>1. OnlyRun /\ row' \in [Events -> RowType]
    BY <1>3, RowsKeepType DEF Validate, LookupFails, Claim, Recheck, Prepare
  <2>2. run' \in [Workers -> RunType]
    BY <1>3, RowsKeepType DEF Validate, LookupFails, Claim, Recheck, Prepare
  <2> QED
    BY <2>1, <2>2, <1>2
<1>4. ASSUME SkipReminder(w) \/ MarkSent(w) \/ MarkFailed(w)
      PROVE  OutboxTypeOK'
  <2>1. OnlyRun /\ row' \in [Events -> RowType]
    BY <1>4, RowsKeepType DEF SkipReminder, MarkSent, MarkFailed
  <2>2. run' \in [Workers -> RunType]
    BY <1>4, RowsKeepType DEF SkipReminder, MarkSent, MarkFailed
  <2> QED
    BY <2>1, <2>2, <1>2
<1>5. ASSUME Send(w)
      PROVE  OutboxTypeOK'
  <2>1. run' \in [Workers -> RunType]
    BY <1>5, RowsKeepType DEF Send
  <2>2. mailed' \in [Events -> Nat]
    BY <1>5 DEF Send, OutboxTypeOK
  <2> QED
    BY <1>5, <2>1, <2>2 DEF Send, OutboxTypeOK, RunType
<1>6. Idle \in RunType
  BY DEF Idle, RunType
<1>7. ASSUME Finish(w)
      PROVE  OutboxTypeOK'
  <2>1. run' \in [Workers -> RunType]
    BY <1>1, <1>6, <1>7 DEF Finish
  <2>2. \A e \in Events : job[e] \in JobType
    BY DEF OutboxTypeOK, JobType
  <2>3. \A e \in Events, s \in {"completed", "failed"} :
          Job(s, job[e].stalls, Nobody) \in JobType
    BY <2>2 DEF Job, JobType
  <2>4. job' \in [Events -> JobType]
    BY <1>7, <2>2, <2>3 DEF Finish, OutboxTypeOK, JobType
  <2> QED
    BY <1>7, <2>1, <2>4 DEF Finish, OutboxTypeOK, JobType, RunType
<1>8. ASSUME WorkerDies(w)
      PROVE  OutboxTypeOK'
  <2>1. run' \in [Workers -> RunType]
    BY <1>1, <1>6, <1>8 DEF WorkerDies
  <2>2. crashes' \in 0..MaxCrashes
    BY <1>8 DEF WorkerDies, OutboxTypeOK
  <2> QED
    BY <1>8, <2>1, <2>2 DEF WorkerDies, OutboxTypeOK, RunType
<1> QED
  BY <1>3, <1>4, <1>5, <1>7, <1>8 DEF Process

-----------------------------------------------------------------------------
(* The invariant, by kinds of steps. *)

\* The parts of OutboxInv beside the types.
Agreement ==
  /\ RunsHaveEvents
  /\ ClaimsAreHeld
  /\ RowsTellTheMail
  /\ SuccessIsFinal
  /\ CompletedMeansFinal

\* Dispatching, stalling and losing jobs touch neither rows nor workers, and
\* complete no job.
LEMMA SideStep ==
  ASSUME Agreement, UNCHANGED <<row, run, mailed>>,
         \A e \in Events :
           job'[e].state = "completed" => job[e].state = "completed"
  PROVE  Agreement'
BY DEF Agreement, RunsHaveEvents, ClaimsAreHeld, RowsTellTheMail,
       SuccessIsFinal, CompletedMeansFinal, Holds, Final

\* A new row is nobody's, and its message was not mailed.
LEMMA NewRowStep ==
  ASSUME OutboxAssumption, OutboxTypeOK, Agreement, NEW e \in Events,
         row[e] = NoRow, row' = [row EXCEPT ![e] = Pending],
         UNCHANGED <<job, run, mailed>>
  PROVE  Agreement'
<1>1. /\ row \in [Events -> RowType]
      /\ row[e].status = "ABSENT" /\ row'[e].status = "PENDING"
      /\ row'[e].token = Nobody
      /\ \A f \in Events \ {e} : row'[f] = row[f]
  BY DEF OutboxTypeOK, RowType, NoRow, Pending, Row
<1>2. \A w \in Workers : run[w].event \in Events /\ Holds(w) => Holds(w)'
  BY <1>1 DEF Holds
<1>3. \A f \in Events : Final(f) => Final(f)'
  BY <1>1 DEF Final
<1>4. \A w \in Workers : run[w].pc # "idle" => run[w].event \in Events
  BY DEF Agreement, RunsHaveEvents
<1>5. RunsHaveEvents'
  BY DEF Agreement, RunsHaveEvents
<1>6. ClaimsAreHeld'
  BY <1>2, <1>4 DEF Agreement, ClaimsAreHeld
<1>7. RowsTellTheMail'
  BY <1>1 DEF Agreement, RowsTellTheMail
<1>8. SuccessIsFinal' /\ CompletedMeansFinal'
  BY <1>3, <1>4 DEF Agreement, SuccessIsFinal, CompletedMeansFinal
<1> QED
  BY <1>5, <1>6, <1>7, <1>8 DEF Agreement

\* A step of one worker that leaves rows and mail alone need only justify the
\* place it goes to.
LEMMA RunStep ==
  ASSUME OutboxTypeOK, Agreement, NEW w \in Workers,
         NEW pc \in {"claim", "recheck", "send", "skip", "fail", "succeeded",
                     "thrown"},
         run[w].pc # "idle", Goto(w, pc), UNCHANGED <<row, job, mailed>>,
         pc \in {"send", "skip"} => run[w].pc = "prepare",
         pc = "succeeded" => Final(run[w].event)
  PROVE  Agreement'
<1>1. /\ run'[w].pc = pc /\ run'[w].event = run[w].event
      /\ \A v \in Workers \ {w} : run'[v] = run[v]
  BY DEF Goto, OutboxTypeOK
<1>2. \A e \in Events : Final(e)' <=> Final(e)
  BY DEF Final
<1>3. \A v \in Workers : Holds(v) => Holds(v)'
  BY <1>1 DEF Holds
<1>4. RunsHaveEvents'
  BY <1>1 DEF Agreement, RunsHaveEvents
<1>5. ClaimsAreHeld'
  BY <1>1, <1>3 DEF Agreement, ClaimsAreHeld
<1>6. RowsTellTheMail' /\ CompletedMeansFinal'
  BY <1>2 DEF Agreement, RowsTellTheMail, CompletedMeansFinal
<1>7. SuccessIsFinal'
  BY <1>1, <1>2 DEF Agreement, SuccessIsFinal, RunsHaveEvents, Final
<1> QED
  BY <1>4, <1>5, <1>6, <1>7 DEF Agreement

\* A worker that takes or leaves a job claims nothing by it.
LEMMA IdleStep ==
  ASSUME OutboxTypeOK, Agreement, NEW w \in Workers, NEW r,
         \/ r = Idle
         \/ \E e \in Events : r = [pc |-> "validate", event |-> e],
         0 \notin Events,
         run' = [run EXCEPT ![w] = r], UNCHANGED <<row, mailed>>,
         \A e \in Events : job'[e].state = "completed" =>
           job[e].state = "completed" \/ Final(e)
  PROVE  Agreement'
<1>1. /\ run'[w] = r
      /\ \A v \in Workers \ {w} : run'[v] = run[v]
  BY DEF OutboxTypeOK
<1>2. r.pc \in {"idle", "validate"} /\ (r.event \in Events <=> r.pc # "idle")
  BY DEF Idle
<1>3. \A e \in Events : Final(e)' <=> Final(e)
  BY DEF Final
<1>4. RunsHaveEvents'
  BY <1>1, <1>2 DEF Agreement, RunsHaveEvents
<1>5. ClaimsAreHeld'
  BY <1>1, <1>2 DEF Agreement, ClaimsAreHeld, Holds
<1>6. RowsTellTheMail'
  BY DEF Agreement, RowsTellTheMail
<1>7. SuccessIsFinal' /\ CompletedMeansFinal'
  BY <1>1, <1>2, <1>3 DEF Agreement, SuccessIsFinal, CompletedMeansFinal, Final
<1> QED
  BY <1>4, <1>5, <1>6, <1>7 DEF Agreement

\* The claim: PENDING tells that nobody holds the row and nothing was mailed.
LEMMA ClaimStep ==
  ASSUME OutboxAssumption, OutboxTypeOK, Agreement, NEW w \in Workers, Claim(w)
  PROVE  Agreement'
<1> DEFINE e == run[w].event
<1>1. e \in Events /\ run[w].pc = "claim"
  BY DEF Claim, Agreement, RunsHaveEvents
<1>2. CASE ~Claimable(e)
  <2>1. Goto(w, "recheck") /\ UNCHANGED <<row, job, mailed>>
    BY <1>2 DEF Claim, OnlyRun
  <2> QED
    BY <1>1, <2>1, RunStep
<1>3. CASE Claimable(e)
  <2> PICK pc \in {"prepare", "thrown"} : Goto(w, pc)
    BY <1>3 DEF Claim
  <2>1. /\ row' = [row EXCEPT ![e] = Row("PROCESSING", w, "running")]
        /\ UNCHANGED <<job, mailed>>
    BY <1>3 DEF Claim, OnlyRun
  <2>2. /\ run'[w].pc = pc /\ run'[w].event = e
        /\ \A v \in Workers \ {w} : run'[v] = run[v]
    BY DEF Goto, OutboxTypeOK
  <2>3. /\ row'[e].status = "PROCESSING" /\ row'[e].token = w
        /\ \A f \in Events \ {e} : row'[f] = row[f]
    BY <1>1, <2>1 DEF OutboxTypeOK, Row
  <2>4. row[e].status = "PENDING" /\ mailed[e] = 0
    BY <1>1, <1>3 DEF Claimable, Agreement, RowsTellTheMail
  <2>5. Holds(w)'
    BY <2>2, <2>3 DEF Holds
  <2>6. \A v \in Workers \ {w} :
          run[v].event \in Events /\ Holds(v) => Holds(v)'
    BY <2>2, <2>3, <2>4 DEF Holds
  <2>7. \A f \in Events : Final(f) => Final(f)'
    BY <2>3, <2>4 DEF Final
  <2>8. RunsHaveEvents'
    BY <1>1, <2>2 DEF Agreement, RunsHaveEvents
  <2>9. ClaimsAreHeld'
    <3> SUFFICES ASSUME NEW v \in Workers
                 PROVE  /\ run'[v].pc \in {"prepare", "send", "skip", "mark"} =>
                             Holds(v)'
                        /\ run'[v].pc \in {"prepare", "send", "skip"} =>
                             mailed'[run'[v].event] = 0
                        /\ run'[v].pc = "mark" => mailed'[run'[v].event] = 1
      BY DEF ClaimsAreHeld
    <3>1. CASE v = w
      BY <3>1, <2>1, <2>2, <2>4, <2>5
    <3>2. CASE v # w
      BY <3>2, <2>1, <2>2, <2>6 DEF Agreement, ClaimsAreHeld, RunsHaveEvents
    <3> QED
      BY <3>1, <3>2
  <2>10. RowsTellTheMail'
    BY <1>1, <2>1, <2>3 DEF Agreement, RowsTellTheMail
  <2>11. SuccessIsFinal' /\ CompletedMeansFinal'
    BY <2>1, <2>2, <2>7
    DEF Agreement, SuccessIsFinal, CompletedMeansFinal, RunsHaveEvents
  <2> QED
    BY <2>8, <2>9, <2>10, <2>11 DEF Agreement
<1> QED
  BY <1>2, <1>3

\* The end of a claim: only its worker can settle the row.
LEMMA SettleStep ==
  ASSUME OutboxAssumption, OutboxTypeOK, Agreement, NEW w \in Workers,
         NEW s \in {"SENT", "FAILED"}, NEW pc \in {"succeeded", "fail", "thrown"},
         run[w].pc # "idle", Settle(w, s), Goto(w, pc),
         s = "SENT" => run[w].pc = "mark", UNCHANGED <<job, mailed>>
  PROVE  Agreement'
<1> DEFINE e == run[w].event
<1>1. e \in Events /\ row[e].status = "PROCESSING" /\ row[e].token = w
  BY DEF Settle, Holds, Agreement, RunsHaveEvents
<1>2. /\ run'[w].pc = pc /\ run'[w].event = e
      /\ \A v \in Workers \ {w} : run'[v] = run[v]
  BY DEF Goto, OutboxTypeOK
<1>3. /\ row'[e].status = s /\ row'[e].token = Nobody
      /\ \A f \in Events \ {e} : row'[f] = row[f]
  BY <1>1 DEF Settle, OutboxTypeOK, Row
<1>4. s = "SENT" => mailed[e] = 1
  BY DEF Agreement, ClaimsAreHeld
<1>5. \A v \in Workers \ {w} : Holds(v) /\ run[v].event \in Events => Holds(v)'
  BY <1>1, <1>2, <1>3 DEF Holds
<1>6. /\ row'[e].status \in {"SENT", "FAILED"}
      /\ \A f \in Events : Final(f) => Final(f)'
  BY <1>1, <1>3 DEF Final
<1>7. RunsHaveEvents'
  BY <1>1, <1>2 DEF Agreement, RunsHaveEvents
<1>8. ClaimsAreHeld'
  BY <1>2, <1>5 DEF Agreement, ClaimsAreHeld, RunsHaveEvents
<1>9. RowsTellTheMail'
  BY <1>1, <1>3, <1>4 DEF Agreement, RowsTellTheMail
<1>10. SuccessIsFinal' /\ CompletedMeansFinal'
  BY <1>2, <1>6
  DEF Agreement, SuccessIsFinal, CompletedMeansFinal, RunsHaveEvents, Final
<1> QED
  BY <1>7, <1>8, <1>9, <1>10 DEF Agreement

\* The mail goes out under a claim whose message was not mailed.
LEMMA SendStep ==
  ASSUME OutboxAssumption, OutboxTypeOK, Agreement, NEW w \in Workers, Send(w)
  PROVE  Agreement'
<1> DEFINE e == run[w].event
<1>1. /\ e \in Events /\ mailed[e] = 0 /\ Holds(w)
      /\ run[w].pc = "send" /\ UNCHANGED <<row, job>>
  BY DEF Send, Agreement, RunsHaveEvents, ClaimsAreHeld
<1>2. CASE UNCHANGED mailed /\ Goto(w, "fail")
  BY <1>1, <1>2, RunStep
<1>3. ASSUME mailed' = [mailed EXCEPT ![e] = @ + 1],
             NEW pc \in {"mark", "fail"}, Goto(w, pc)
      PROVE  Agreement'
  <2>1. /\ run'[w].pc = pc /\ run'[w].event = e
        /\ \A v \in Workers \ {w} : run'[v] = run[v]
    BY <1>3 DEF Goto, OutboxTypeOK
  <2>2. mailed'[e] = 1 /\ \A f \in Events \ {e} : mailed'[f] = mailed[f]
    BY <1>1, <1>3 DEF OutboxTypeOK
  <2>3. \A v \in Workers \ {w} :
          run[v].pc \in {"prepare", "send", "skip", "mark"} => run[v].event # e
    BY <1>1 DEF Agreement, ClaimsAreHeld, Holds
  <2>4. RunsHaveEvents'
    BY <1>1, <2>1 DEF Agreement, RunsHaveEvents
  <2>5. ClaimsAreHeld'
    <3> SUFFICES ASSUME NEW v \in Workers
                 PROVE  /\ run'[v].pc \in {"prepare", "send", "skip", "mark"} =>
                             Holds(v)'
                        /\ run'[v].pc \in {"prepare", "send", "skip"} =>
                             mailed'[run'[v].event] = 0
                        /\ run'[v].pc = "mark" => mailed'[run'[v].event] = 1
      BY DEF ClaimsAreHeld
    <3>1. CASE v = w
      BY <3>1, <1>1, <2>1, <2>2 DEF Holds
    <3>2. CASE v # w
      <4>1. run'[v] = run[v] /\ (Holds(v) => Holds(v)')
        BY <3>2, <1>1, <2>1 DEF Holds
      <4>2. run[v].pc # "idle" => run[v].event \in Events
        BY DEF Agreement, RunsHaveEvents
      <4>3. run[v].pc \in {"prepare", "send", "skip", "mark"} =>
              mailed'[run[v].event] = mailed[run[v].event]
        BY <3>2, <4>2, <2>2, <2>3
      <4> QED
        BY <4>1, <4>3 DEF Agreement, ClaimsAreHeld
    <3> QED
      BY <3>1, <3>2
  <2>6. RowsTellTheMail'
    BY <1>1, <2>2 DEF Agreement, RowsTellTheMail, Holds
  <2>7. SuccessIsFinal' /\ CompletedMeansFinal'
    BY <1>1, <2>1 DEF Agreement, SuccessIsFinal, CompletedMeansFinal, Final
  <2> QED
    BY <2>4, <2>5, <2>6, <2>7 DEF Agreement
<1> QED
  BY <1>2, <1>3 DEF Send

-----------------------------------------------------------------------------
(* The invariant, for every action. *)

\* Dispatchers: new reminder rows, everything else beside the rows.
LEMMA DispatchKeepsAgreement ==
  ASSUME OutboxAssumption, OutboxTypeOK, Agreement, NEW d \in Dispatchers,
         StartDispatch(d) \/ UpsertReminder(d) \/ Query(d) \/ Enqueue(d)
           \/ DispatchFails(d) \/ DispatcherDies(d)
  PROVE  Agreement'
<1>1. CASE StartDispatch(d) \/ Query(d) \/ DispatchFails(d) \/ DispatcherDies(d)
  BY <1>1, SideStep DEF StartDispatch, Query, DispatchFails, DispatcherDies
<1>2. CASE UpsertReminder(d)
  <2>1. PICK e \in disp[d].todo :
          row' = IF row[e] = NoRow THEN [row EXCEPT ![e] = Pending] ELSE row
    BY <1>2 DEF UpsertReminder
  <2>2. e \in Events /\ UNCHANGED <<job, run, mailed>>
    BY <1>2 DEF UpsertReminder, OutboxTypeOK
  <2>3. CASE row[e] = NoRow
    BY <2>1, <2>2, <2>3, NewRowStep
  <2>4. CASE row[e] # NoRow
    BY <2>1, <2>2, <2>4, SideStep
  <2> QED
    BY <2>3, <2>4
<1>3. CASE Enqueue(d)
  <2>1. PICK e \in FirstOf(disp[d].batch, 1) : AddJob(e)
    BY <1>3 DEF Enqueue
  <2>2. \A f \in Events :
          job'[f].state = "completed" => job[f].state = "completed"
    BY <2>1 DEF AddJob, Job, OutboxTypeOK
  <2> QED
    BY <1>3, <2>2, SideStep DEF Enqueue
<1> QED
  BY <1>1, <1>2, <1>3

\* Recipients, stalls, lost jobs, expiring claims and jobs taken.
LEMMA QueueKeepsAgreement ==
  ASSUME OutboxAssumption, OutboxTypeOK, Agreement, NEW e \in Events,
         \/ RecordEvent(e) \/ ChangeRecipient(e) \/ Stall(e)
         \/ JobVanishes(e) \/ ClaimExpires(e)
         \/ \E w \in Workers : TakeJob(w, e)
  PROVE  Agreement'
<1>1. CASE RecordEvent(e)
  BY <1>1, NewRowStep DEF RecordEvent
<1>2. CASE ChangeRecipient(e)
  BY <1>2, SideStep DEF ChangeRecipient
<1>3. CASE Stall(e) \/ JobVanishes(e)
  <2>1. \A f \in Events :
          job'[f].state = "completed" => job[f].state = "completed"
    BY <1>3 DEF Stall, JobVanishes, NoJob, Job, OutboxTypeOK
  <2> QED
    BY <1>3, <2>1, SideStep DEF Stall, JobVanishes
<1>4. CASE ClaimExpires(e)
  <2>1. \A f \in Events : /\ row'[f].status = row[f].status
                          /\ row'[f].token = row[f].token
    BY <1>4 DEF ClaimExpires, OutboxTypeOK
  <2>2. UNCHANGED <<job, run, mailed>>
    BY <1>4 DEF ClaimExpires
  <2>3. \A f \in Events : Final(f) => Final(f)'
    BY <2>1 DEF Final
  <2>4. \A w \in Workers : run[w].event \in Events /\ Holds(w) => Holds(w)'
    BY <2>1, <2>2 DEF Holds
  <2>5. RunsHaveEvents' /\ ClaimsAreHeld'
    BY <2>2, <2>4 DEF Agreement, RunsHaveEvents, ClaimsAreHeld
  <2>6. RowsTellTheMail'
    BY <2>1, <2>2 DEF Agreement, RowsTellTheMail
  <2>7. SuccessIsFinal' /\ CompletedMeansFinal'
    BY <2>2, <2>3
    DEF Agreement, SuccessIsFinal, CompletedMeansFinal, RunsHaveEvents
  <2> QED
    BY <2>5, <2>6, <2>7 DEF Agreement
<1>5. ASSUME NEW w \in Workers, TakeJob(w, e)
      PROVE  Agreement'
  <2>1. \A f \in Events :
          job'[f].state = "completed" => job[f].state = "completed"
    <3>1. job \in [Events -> JobType]
      BY DEF OutboxTypeOK, JobType
    <3>2. job' = [job EXCEPT ![e] =
                    [job[e] EXCEPT !.state = "active", !.holder = w]]
      BY <1>5 DEF TakeJob
    <3>3. job'[e] = [job[e] EXCEPT !.state = "active", !.holder = w]
      BY <3>1, <3>2
    <3>4. job'[e].state = "active"
      BY <3>1, <3>3 DEF JobType
    <3>5. \A f \in Events \ {e} : job'[f] = job[f]
      BY <3>1, <3>2
    <3> QED
      BY <3>4, <3>5
  <2> QED
    BY <1>5, <2>1, IdleStep DEF TakeJob, OutboxAssumption
<1> QED
  BY <1>1, <1>2, <1>3, <1>4, <1>5

\* Workers.
LEMMA WorkerKeepsAgreement ==
  ASSUME OutboxAssumption, OutboxTypeOK, Agreement, NEW w \in Workers,
         Process(w) \/ WorkerDies(w)
  PROVE  Agreement'
<1> USE DEF OnlyRun
<1>1. CASE Validate(w) \/ LookupFails(w) \/ Recheck(w)
  <2>1. UNCHANGED <<row, job, mailed>> /\ run[w].pc # "idle"
    BY <1>1 DEF Validate, LookupFails, Recheck
  <2>2. PICK pc \in {"claim", "succeeded", "thrown"} :
          Goto(w, pc) /\ (pc = "succeeded" => Final(run[w].event))
    BY <1>1 DEF Validate, LookupFails, Recheck, Final
  <2> QED
    BY <2>1, <2>2, RunStep
<1>2. CASE Claim(w)
  BY <1>2, ClaimStep
<1>3. CASE Prepare(w)
  <2>1. UNCHANGED <<row, job, mailed>> /\ run[w].pc = "prepare"
    BY <1>3 DEF Prepare
  <2>2. PICK pc \in {"send", "skip", "fail"} : Goto(w, pc)
    BY <1>3 DEF Prepare
  <2> QED
    BY <2>1, <2>2, RunStep
<1>4. CASE Send(w)
  BY <1>4, SendStep
<1>5. CASE SkipReminder(w)
  <2>1. UNCHANGED <<job, mailed>> /\ run[w].pc = "skip"
    BY <1>5 DEF SkipReminder
  <2>2. CASE UNCHANGED row /\ Goto(w, "fail")
    BY <2>1, <2>2, RunStep
  <2>3. CASE Settle(w, "FAILED") /\ (Goto(w, "succeeded") \/ Goto(w, "fail"))
    BY <2>1, <2>3, SettleStep
  <2> QED
    BY <1>5, <2>2, <2>3 DEF SkipReminder
<1>6. CASE MarkSent(w)
  <2>1. UNCHANGED <<job, mailed>> /\ run[w].pc = "mark"
    BY <1>6 DEF MarkSent
  <2>2. CASE UNCHANGED row /\ Goto(w, "fail")
    BY <2>1, <2>2, RunStep
  <2>3. CASE Settle(w, "SENT") /\ (Goto(w, "succeeded") \/ Goto(w, "fail"))
    BY <2>1, <2>3, SettleStep
  <2> QED
    BY <1>6, <2>2, <2>3 DEF MarkSent
<1>7. CASE MarkFailed(w)
  <2>1. UNCHANGED <<job, mailed>> /\ run[w].pc = "fail" /\ Goto(w, "thrown")
    BY <1>7 DEF MarkFailed
  <2>2. CASE UNCHANGED row
    BY <2>1, <2>2, RunStep
  <2>3. CASE Settle(w, "FAILED")
    BY <2>1, <2>3, SettleStep
  <2> QED
    BY <1>7, <2>2, <2>3 DEF MarkFailed
<1>8. CASE Finish(w)
  <2>1. /\ run' = [run EXCEPT ![w] = Idle] /\ UNCHANGED <<row, mailed>>
        /\ run[w].pc \in {"succeeded", "thrown"}
    BY <1>8 DEF Finish
  <2>2. \A f \in Events : job'[f].state = "completed" =>
          job[f].state = "completed" \/ Final(f)
    BY <1>8, <2>1 DEF Finish, Job, OutboxTypeOK, Agreement, SuccessIsFinal
  <2> QED
    BY <2>1, <2>2, IdleStep DEF OutboxAssumption
<1>9. CASE WorkerDies(w)
  BY <1>9, IdleStep DEF WorkerDies, OutboxAssumption
<1> QED
  BY <1>1, <1>2, <1>3, <1>4, <1>5, <1>6, <1>7, <1>8, <1>9 DEF Process

-----------------------------------------------------------------------------

\* Without events there is nothing to contradict.
LEMMA InitEstablishes == OutboxAssumption /\ OutboxInit => OutboxInv
<1> SUFFICES ASSUME OutboxAssumption, OutboxInit
             PROVE  OutboxInv
  OBVIOUS
<1>1. OutboxTypeOK
  BY DEF OutboxAssumption, OutboxInit, OutboxTypeOK, NoRow, Row, NoJob, Job,
         AtRest, Idle
<1>2. RunsHaveEvents /\ ClaimsAreHeld /\ SuccessIsFinal
  BY DEF OutboxAssumption, OutboxInit, RunsHaveEvents, ClaimsAreHeld,
         SuccessIsFinal, Idle
<1>3. RowsTellTheMail /\ CompletedMeansFinal
  BY DEF OutboxInit, RowsTellTheMail, CompletedMeansFinal, NoRow, Row, NoJob, Job
<1> QED
  BY <1>1, <1>2, <1>3 DEF OutboxInv

\* Every step of dispatchers, workers and the queue keeps OutboxInv.
LEMMA NextPreserves ==
  OutboxAssumption /\ OutboxInv /\ [OutboxNext]_outboxVars => OutboxInv'
<1> SUFFICES ASSUME OutboxAssumption, OutboxInv, [OutboxNext]_outboxVars
             PROVE  OutboxInv'
  OBVIOUS
<1>1. OutboxTypeOK /\ Agreement
  BY DEF OutboxInv, Agreement
<1>2. CASE UNCHANGED outboxVars
  <2>1. OutboxTypeOK'
    BY <1>1, <1>2 DEF outboxVars, OutboxTypeOK
  <2>2. Agreement'
    BY <1>1, <1>2, SideStep DEF outboxVars
  <2> QED
    BY <2>1, <2>2 DEF OutboxInv, Agreement
<1>3. CASE OutboxNext
  <2>1. OutboxTypeOK'
    BY <1>1, <1>3, DispatchKeepsType, QueueKeepsType, WorkerKeepsType
    DEF OutboxNext
  <2>2. Agreement'
    BY <1>1, <1>3, DispatchKeepsAgreement, QueueKeepsAgreement,
       WorkerKeepsAgreement
    DEF OutboxNext
  <2> QED
    BY <2>1, <2>2 DEF OutboxInv, Agreement
<1> QED
  BY <1>2, <1>3

\* Rows, workers and mail agree in every reachable state.
THEOREM OutboxInvariant == OutboxSpec => []OutboxInv
<1>1. OutboxInit => OutboxInv
  BY OutboxAssumption, InitEstablishes
<1>2. OutboxInv /\ [OutboxNext]_outboxVars => OutboxInv'
  BY OutboxAssumption, NextPreserves
<1> QED
  BY <1>1, <1>2, PTL DEF OutboxSpec

\* No event's message is handed to the mail service twice, whatever the queue
\* repeats or loses and whoever dies.
THEOREM MailedAtMostOnce == OutboxSpec => []AtMostOnce
<1>1. OutboxInv => AtMostOnce
  BY DEF OutboxInv, RowsTellTheMail, AtMostOnce
<1> QED
  BY <1>1, OutboxInvariant, PTL

\* A completed job's row is settled.
THEOREM CompletedJobs == OutboxSpec => []CompletedMeansFinal
<1>1. OutboxInv => CompletedMeansFinal
  BY DEF OutboxInv
<1> QED
  BY <1>1, OutboxInvariant, PTL

-----------------------------------------------------------------------------
(* The refinement. *)

status == [e \in Events |-> row[e].status]

\* A row that changes is a Move of Delivery.
LEMMA RowMove ==
  ASSUME OutboxTypeOK, NEW e \in Events, NEW r \in RowType,
         row' = [row EXCEPT ![e] = r], UNCHANGED mailed
  PROVE  Promise!Move(e, row[e].status, r.status)
<1>1. status' = [status EXCEPT ![e] = r.status]
  BY DEF status, OutboxTypeOK, RowType
<1>2. status[e] = row[e].status
  BY DEF status
<1> QED
  BY <1>1, <1>2 DEF Promise!Move, status

\* Steps that leave every status and the mail alone are stutters of Delivery.
LEMMA Stutter ==
  ASSUME \A e \in Events : row'[e].status = row[e].status, UNCHANGED mailed
  PROVE  UNCHANGED Promise!vars
BY DEF Promise!vars

\* Every step of the outbox is a step of Delivery or a stutter.
LEMMA StepImplements ==
  ASSUME OutboxAssumption, OutboxInv, [OutboxNext]_outboxVars
  PROVE  [Promise!Next]_(Promise!vars)
<1>1. OutboxTypeOK /\ Agreement
  BY DEF OutboxInv, Agreement
<1>2. ASSUME UNCHANGED <<row, mailed>>
      PROVE  UNCHANGED Promise!vars
  BY <1>2, Stutter
<1>4. ASSUME NEW e \in Events, row[e] = NoRow,
             row' = [row EXCEPT ![e] = Pending], UNCHANGED mailed
      PROVE  Promise!Next
  <2>1. Pending \in RowType /\ Pending.status = "PENDING" /\ NoRow.status = "ABSENT"
    BY DEF Pending, NoRow, Row, RowType
  <2>2. Promise!Move(e, row[e].status, Pending.status)
    BY <1>1, <1>4, <2>1, RowMove
  <2>3. Promise!Record(e)
    BY <1>4, <2>1, <2>2 DEF Promise!Record
  <2> QED
    BY <2>3 DEF Promise!Next
<1>5. ASSUME NEW w \in Workers, Claim(w)
      PROVE  [Promise!Next]_(Promise!vars)
  <2> PICK e \in Events : e = run[w].event
    BY <1>1, <1>5 DEF Claim, Agreement, RunsHaveEvents
  <2>1. UNCHANGED mailed
    BY <1>5 DEF Claim, OnlyRun
  <2>2. CASE UNCHANGED row
    BY <2>1, <2>2, <1>2
  <2>3. CASE /\ Claimable(e)
             /\ row' = [row EXCEPT ![e] = Row("PROCESSING", w, "running")]
    <3>1. /\ Row("PROCESSING", w, "running") \in RowType
          /\ Row("PROCESSING", w, "running").status = "PROCESSING"
      BY DEF Row, RowType
    <3>2. Promise!Move(e, row[e].status, Row("PROCESSING", w, "running").status)
      BY <1>1, <2>1, <2>3, <3>1, RowMove
    <3>3. Promise!Take(e)
      BY <2>3, <3>1, <3>2 DEF Promise!Take, Claimable
    <3> QED
      BY <2>1, <3>3 DEF Promise!Next
  <2> QED
    BY <1>5, <2>2, <2>3 DEF Claim
<1>6. ASSUME NEW w \in Workers, NEW s \in {"SENT", "FAILED"}, Settle(w, s),
             run[w].pc # "idle", s = "SENT" => run[w].pc = "mark",
             UNCHANGED mailed
      PROVE  Promise!Next
  <2> PICK e \in Events : e = run[w].event
    BY <1>1, <1>6 DEF Agreement, RunsHaveEvents
  <2>1. row[e].status = "PROCESSING"
    BY <1>6 DEF Settle, Holds
  <2>2. Row(s, Nobody, "none") \in RowType /\ Row(s, Nobody, "none").status = s
    BY DEF Row, RowType
  <2>3. Promise!Move(e, row[e].status, Row(s, Nobody, "none").status)
    BY <1>1, <1>6, <2>1, <2>2, RowMove DEF Settle
  <2>4. CASE s = "FAILED"
    <3>1. Promise!GiveUp(e)
      BY <2>1, <2>2, <2>3, <2>4 DEF Promise!GiveUp
    <3> QED
      BY <2>1, <3>1 DEF Promise!Next
  <2>5. CASE s = "SENT"
    <3>1. mailed[e] = 1
      BY <1>1, <1>6, <2>5 DEF Agreement, ClaimsAreHeld
    <3>2. Promise!Confirm(e)
      BY <2>1, <2>2, <2>3, <2>5, <3>1 DEF Promise!Confirm
    <3> QED
      BY <2>1, <3>2 DEF Promise!Next
  <2> QED
    BY <2>4, <2>5
<1>7. ASSUME NEW w \in Workers, Send(w)
      PROVE  [Promise!Next]_(Promise!vars)
  <2> PICK e \in Events : e = run[w].event
    BY <1>1, <1>7 DEF Send, Agreement, RunsHaveEvents
  <2>1. mailed[e] = 0 /\ Holds(w) /\ UNCHANGED row
    BY <1>1, <1>7 DEF Send, Agreement, ClaimsAreHeld
  <2>2. CASE UNCHANGED mailed
    BY <2>1, <2>2, <1>2
  <2>3. CASE mailed' = [mailed EXCEPT ![e] = @ + 1]
    <3>1. mailed' = [mailed EXCEPT ![e] = 1]
      BY <1>1, <2>1, <2>3 DEF OutboxTypeOK
    <3>2. Promise!Mail(e)
      BY <2>1, <3>1 DEF Promise!Mail, Holds
    <3> QED
      BY <2>1, <3>2 DEF Promise!Next
  <2> QED
    BY <1>7, <2>2, <2>3 DEF Send
<1>8. ASSUME NEW w \in Workers, Process(w) \/ WorkerDies(w)
      PROVE  [Promise!Next]_(Promise!vars)
  <2> USE DEF OnlyRun
  <2>1. CASE Validate(w) \/ LookupFails(w) \/ Recheck(w) \/ Prepare(w)
             \/ Finish(w) \/ WorkerDies(w)
    BY <2>1, <1>2 DEF Validate, LookupFails, Recheck, Prepare, Finish, WorkerDies
  <2>2. CASE SkipReminder(w) \/ MarkSent(w) \/ MarkFailed(w)
    <3>1. UNCHANGED mailed /\ run[w].pc # "idle"
      BY <2>2 DEF SkipReminder, MarkSent, MarkFailed
    <3>2. CASE UNCHANGED row
      BY <3>1, <3>2, <1>2
    <3>3. CASE Settle(w, "FAILED")
      BY <3>1, <3>3, <1>6
    <3>4. CASE Settle(w, "SENT") /\ run[w].pc = "mark"
      BY <3>1, <3>4, <1>6
    <3> QED
      BY <2>2, <3>2, <3>3, <3>4 DEF SkipReminder, MarkSent, MarkFailed
  <2> QED
    BY <1>5, <1>7, <1>8, <2>1, <2>2 DEF Process
<1>9. ASSUME NEW d \in Dispatchers,
             StartDispatch(d) \/ UpsertReminder(d) \/ Query(d) \/ Enqueue(d)
               \/ DispatchFails(d) \/ DispatcherDies(d)
      PROVE  [Promise!Next]_(Promise!vars)
  <2>1. CASE UpsertReminder(d)
    <3>1. PICK e \in disp[d].todo :
            row' = IF row[e] = NoRow THEN [row EXCEPT ![e] = Pending] ELSE row
      BY <2>1 DEF UpsertReminder
    <3>2. e \in Events /\ UNCHANGED mailed
      BY <1>1, <2>1 DEF UpsertReminder, OutboxTypeOK
    <3> QED
      BY <3>1, <3>2, <1>2, <1>4
  <2>2. CASE StartDispatch(d) \/ Query(d) \/ Enqueue(d) \/ DispatchFails(d)
             \/ DispatcherDies(d)
    BY <2>2, <1>2
    DEF StartDispatch, Query, Enqueue, DispatchFails, DispatcherDies
  <2> QED
    BY <1>9, <2>1, <2>2
<1>10. ASSUME NEW e \in Events,
              \/ RecordEvent(e) \/ ChangeRecipient(e) \/ Stall(e)
              \/ JobVanishes(e) \/ ClaimExpires(e)
              \/ \E w \in Workers : TakeJob(w, e)
       PROVE  [Promise!Next]_(Promise!vars)
  <2>1. CASE RecordEvent(e)
    BY <2>1, <1>4 DEF RecordEvent
  <2>2. CASE ClaimExpires(e)
    <3>1. \A f \in Events : row'[f].status = row[f].status
      BY <1>1, <2>2 DEF ClaimExpires, OutboxTypeOK
    <3> QED
      BY <2>2, <3>1, Stutter DEF ClaimExpires
  <2>3. CASE \/ ChangeRecipient(e) \/ Stall(e) \/ JobVanishes(e)
             \/ \E w \in Workers : TakeJob(w, e)
    BY <2>3, <1>2 DEF ChangeRecipient, Stall, JobVanishes, TakeJob
  <2> QED
    BY <1>10, <2>1, <2>2, <2>3
<1>11. CASE UNCHANGED outboxVars
  BY <1>11, <1>2 DEF outboxVars
<1> QED
  BY <1>8, <1>9, <1>10, <1>11 DEF OutboxNext

\* The outbox implements the abstract delivery.
THEOREM Implements == OutboxSpec => ImplementsDelivery
<1>1. OutboxInit => Promise!Init
  BY DEF OutboxInit, Promise!Init, NoRow, Row
<1>2. OutboxInv /\ [OutboxNext]_outboxVars => [Promise!Next]_(Promise!vars)
  BY OutboxAssumption, StepImplements
<1> QED
  BY <1>1, <1>2, OutboxInvariant, PTL
  DEF OutboxSpec, ImplementsDelivery, Promise!Spec
=============================================================================
