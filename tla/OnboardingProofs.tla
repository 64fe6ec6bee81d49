-------------------------- MODULE OnboardingProofs --------------------------
(***************************************************************************)
(* Proofs about Onboarding, for any handlers, forms, sessions, documents   *)
(* and account limit.                                                      *)
(***************************************************************************)
EXTENDS Onboarding, TLAPS

HandlerType ==
  [op : {"idle", "edit", "start", "save", "sign", "signed", "cleanup",
         "approve", "reject", "open", "counted"},
   seen : Statuses, holds : Sessions \cup Documents \cup {Null}]

\* What HandlersKnow asks of one handler, except of one that holds a session.
Knows(r) ==
  /\ r.op # "save"
  /\ r.op = "edit" =>
       r.seen \in {"REGISTERED", "PROFILE_COMPLETED", "IDENTITY_REJECTED"}
  /\ r.op = "start" => r.seen \in {"PROFILE_COMPLETED", "IDENTITY_REJECTED"}
  /\ r.op \in {"sign", "signed"} => r.seen = "IDENTITY_VERIFIED"
  /\ r.op = "signed" => r.holds \in Documents
  /\ r.op \in {"approve", "reject"} => r.seen = "COMPLETED"
  /\ r.op \in {"open", "counted"} => status = "APPROVED"

-----------------------------------------------------------------------------
(* One lemma per kind of step. *)

\* A handler reads, goes on or ends; no row changes.
LEMMA HandlerStep ==
  ASSUME OnboardingInv, NEW h \in Handlers, NEW r \in HandlerType, Knows(r),
         handler' = [handler EXCEPT ![h] = r],
         files' \in SUBSET Documents,
         UNCHANGED <<rows, verdict, found, acked>>
  PROVE  OnboardingInv'
<1> USE DEF OnboardingInv
<1>1. OnboardingTypeOK'
  BY DEF OnboardingTypeOK, HandlerType, rows
<1>2. RowsTellTheStage' /\ VerdictDecides' /\ AnsweredVerdictCounts' /\ HooksQuoteVeriff'
  BY DEF RowsTellTheStage, VerdictDecides, AnsweredVerdictCounts, HooksQuoteVeriff, rows
<1>3. \A g \in Handlers : handler'[g] = IF g = h THEN r ELSE handler[g]
  BY DEF OnboardingTypeOK
<1>4. HandlersKnow'
  BY <1>3 DEF HandlersKnow, Knows, rows
<1> QED
  BY <1>1, <1>2, <1>4

\* A transaction of a handler that keeps the session and does not go back to
\* waiting for it.
LEMMA CommitStep ==
  ASSUME OnboardingInv, NEW h \in Handlers, NEW r \in HandlerType,
         r.op \in {"idle", "cleanup"},
         handler' = [handler EXCEPT ![h] = r],
         UNCHANGED <<isActive, files, verdict, found, acked>>,
         profile'.session = profile.session,
         status = "APPROVED" => status' = "APPROVED",
         status' = "IDENTITY_IN_PROGRESS" => status = "IDENTITY_IN_PROGRESS",
         OnboardingTypeOK', RowsTellTheStage', VerdictDecides'
  PROVE  OnboardingInv'
<1> USE DEF OnboardingInv
<1>1. AnsweredVerdictCounts' /\ HooksQuoteVeriff'
  BY DEF AnsweredVerdictCounts, HooksQuoteVeriff
<1>2. \A g \in Handlers : handler'[g] = IF g = h THEN r ELSE handler[g]
  BY DEF OnboardingTypeOK
<1>3. HandlersKnow'
  BY <1>2 DEF HandlersKnow
<1> QED
  BY <1>1, <1>3

\* A handler at rest is well typed and knows nothing.
LEMMA IdleKnowsNothing == Idle \in HandlerType /\ Knows(Idle)
BY DEF Idle, At, HandlerType, Statuses, Knows

-----------------------------------------------------------------------------
(* One lemma per operation. *)

\* A handler that reads the customer remembers the status.
LEMMA Reads ==
  ASSUME OnboardingInv, NEW h \in Handlers,
         EditRead(h) \/ StartRead(h) \/ SignRead(h) \/ ReviewRead(h) \/ OpenRead(h)
  PROVE  OnboardingInv'
<1> USE DEF OnboardingInv
<1>1. PICK op \in {"edit", "start", "sign", "approve", "reject", "open"} :
        /\ Begins(h, op)
        /\ op = "edit" =>
             status \in {"REGISTERED", "PROFILE_COMPLETED", "IDENTITY_REJECTED"}
        /\ op = "start" => status \in {"PROFILE_COMPLETED", "IDENTITY_REJECTED"}
        /\ op = "sign" => status = "IDENTITY_VERIFIED"
        /\ op \in {"approve", "reject"} => status = "COMPLETED"
        /\ op = "open" => status = "APPROVED"
  BY DEF EditRead, StartRead, SignRead, ReviewRead, OpenRead
<1> DEFINE r == At(op, status, Null)
<1>2. r = [op |-> op, seen |-> status, holds |-> Null]
  BY DEF At
<1>3. r \in HandlerType
  BY <1>2 DEF HandlerType, OnboardingTypeOK
<1>4. Knows(r)
  BY <1>1, <1>2 DEF Knows
<1>5. handler' = [handler EXCEPT ![h] = r]
  BY <1>1 DEF Begins
<1>6. UNCHANGED <<rows, files, verdict, found, acked>>
  BY DEF EditRead, StartRead, SignRead, ReviewRead, OpenRead
<1>7. files' \in SUBSET Documents
  BY <1>6 DEF OnboardingTypeOK
<1> HIDE DEF r
<1> QED
  BY <1>3, <1>4, <1>5, <1>6, <1>7, HandlerStep

\* Giving up, and the steps of a handler that touch no row.
LEMMA QuietSteps ==
  ASSUME OnboardingInv, NEW h \in Handlers,
         \/ GivesUp(h) \/ SignRender(h) \/ SignFails(h) \/ SignCleanup(h)
         \/ OpenCount(h)
  PROVE  OnboardingInv'
<1> USE DEF OnboardingInv
<1> handler[h] \in HandlerType
  BY DEF OnboardingTypeOK, HandlerType
<1>1. ASSUME handler' = [handler EXCEPT ![h] = Idle],
             UNCHANGED <<rows, verdict, found, acked>>, files' \in SUBSET Documents
      PROVE  OnboardingInv'
  BY <1>1, IdleKnowsNothing, HandlerStep
<1>2. CASE GivesUp(h)
  BY <1>1, <1>2 DEF GivesUp, Ends, OnboardingTypeOK
<1>3. CASE SignCleanup(h)
  BY <1>1, <1>3 DEF SignCleanup, Ends, OnboardingTypeOK
<1>4. ASSUME NEW from, NEW to \in {"signed", "cleanup", "counted"},
             NEW held \in Documents \cup {Null},
             Continues(h, from, to, held),
             to = "signed" => handler[h].seen = "IDENTITY_VERIFIED" /\ held \in Documents,
             to = "counted" => status = "APPROVED",
             UNCHANGED <<rows, verdict, found, acked>>, files' \in SUBSET Documents
      PROVE  OnboardingInv'
  <2> DEFINE r == At(to, handler[h].seen, held)
  <2>1. handler' = [handler EXCEPT ![h] = r]
    BY <1>4 DEF Continues
  <2>2. r \in HandlerType
    BY DEF At, HandlerType
  <2>3. Knows(r)
    BY <1>4 DEF At, Knows
  <2> HIDE DEF r
  <2> QED
    BY <1>4, <2>1, <2>2, <2>3, HandlerStep
<1>5. CASE SignRender(h)
  <2>1. PICK d \in Documents : /\ files' = files \cup {d}
                               /\ Continues(h, "sign", "signed", d)
    BY <1>5 DEF SignRender
  <2>2. handler[h].seen = "IDENTITY_VERIFIED"
    BY <2>1 DEF Continues, HandlersKnow
  <2> QED
    BY <1>4, <1>5, <2>1, <2>2 DEF SignRender, OnboardingTypeOK
<1>6. CASE SignFails(h)
  <2>1. CASE Ends(h, "signed")
    BY <1>1, <1>6, <2>1 DEF SignFails, Ends, OnboardingTypeOK
  <2>2. CASE Continues(h, "signed", "cleanup", handler[h].holds)
    <3>1. handler[h].holds \in Documents
      BY <2>2 DEF Continues, HandlersKnow
    <3> QED
      BY <1>4, <1>6, <2>2, <3>1 DEF SignFails, OnboardingTypeOK
  <2> QED
    BY <1>6, <2>1, <2>2 DEF SignFails
<1>7. CASE OpenCount(h)
  <2>1. Continues(h, "open", "counted", Null) /\ status = "APPROVED"
    BY <1>7 DEF OpenCount, Continues, HandlersKnow
  <2> QED
    BY <1>4, <1>7, <2>1 DEF OpenCount, OnboardingTypeOK
<1> QED
  BY <1>2, <1>3, <1>5, <1>6, <1>7

\* A new session is in the hands of its handler, and of no other.
LEMMA Opens ==
  ASSUME OnboardingAssumption, OnboardingInv, NEW h \in Handlers, StartOpen(h)
  PROVE  OnboardingInv'
<1> USE DEF OnboardingInv
<1> handler[h] \in HandlerType
  BY DEF OnboardingTypeOK, HandlerType
<1>1. PICK s \in Sessions :
        /\ verdict[s] = "unopened"
        /\ verdict' = [verdict EXCEPT ![s] = "open"]
        /\ Continues(h, "start", "save", s) \/ Ends(h, "start")
  BY DEF StartOpen
<1>2. UNCHANGED <<rows, files, found, acked>>
  BY DEF StartOpen
<1>3. PICK r \in HandlerType :
        /\ handler' = [handler EXCEPT ![h] = r]
        /\ r = At("save", handler[h].seen, s) \/ r = Idle
  BY <1>1, IdleKnowsNothing DEF Continues, Ends, At, HandlerType
<1>4. handler[h].seen \in {"PROFILE_COMPLETED", "IDENTITY_REJECTED"}
  BY <1>1 DEF Continues, Ends, HandlersKnow
<1>5. \A g \in Handlers : handler'[g] = IF g = h THEN r ELSE handler[g]
  BY <1>3 DEF OnboardingTypeOK
<1>6. \A t \in Sessions : verdict'[t] = IF t = s THEN "open" ELSE verdict[t]
  BY <1>1 DEF OnboardingTypeOK
<1>7. profile.session # s
  BY <1>1 DEF HooksQuoteVeriff, OnboardingAssumption
<1>8. OnboardingTypeOK'
  <2>1. handler' \in [Handlers -> HandlerType]
    BY <1>3 DEF OnboardingTypeOK, HandlerType
  <2>2. verdict' \in [Sessions -> {"unopened", "open"} \cup Finals]
    BY <1>1 DEF OnboardingTypeOK
  <2> QED
    BY <1>2, <2>1, <2>2 DEF OnboardingTypeOK, HandlerType, rows
<1>9. RowsTellTheStage' /\ AnsweredVerdictCounts'
  BY <1>2 DEF RowsTellTheStage, AnsweredVerdictCounts, rows
<1>10. VerdictDecides'
  <2>1. profile.session \in Sessions \cup {Null}
    BY DEF OnboardingTypeOK
  <2>2. status \in Verified \cup {"IDENTITY_REJECTED"} => profile.session # Null
    BY DEF RowsTellTheStage, Verified
  <2> QED
    BY <1>2, <1>6, <1>7, <2>1, <2>2 DEF VerdictDecides, rows
<1>11. HooksQuoteVeriff'
  <2>1. profile.session \in Sessions \cup {Null}
    BY DEF OnboardingTypeOK
  <2> QED
    BY <1>1, <1>2, <1>6, <1>7, <2>1 DEF HooksQuoteVeriff, Finals, rows
<1>12. HandlersKnow'
  <2>1. r = Idle => Knows(r)
    BY IdleKnowsNothing
  <2>2. r # Idle => /\ r.op = "save" /\ r.holds = s
                    /\ r.seen \in {"PROFILE_COMPLETED", "IDENTITY_REJECTED"}
    BY <1>3, <1>4 DEF At
  <2>3. \A g \in Handlers : handler[g].op = "save" => handler[g].holds # s
    BY <1>1 DEF HandlersKnow
  <2> QED
    BY <1>2, <1>5, <1>6, <1>7, <2>1, <2>2, <2>3 DEF HandlersKnow, Knows, rows
<1> QED
  BY <1>8, <1>9, <1>10, <1>11, <1>12

\* The handlers' transactions that keep the session.
LEMMA Commits ==
  ASSUME OnboardingAssumption, OnboardingInv, NEW h \in Handlers,
         EditCommit(h) \/ SignCommit(h) \/ Approve(h) \/ Reject(h) \/ OpenCreate(h)
  PROVE  OnboardingInv'
<1> USE DEF OnboardingInv
<1> handler[h] \in HandlerType
  BY DEF OnboardingTypeOK, HandlerType
<1>1. Idle \in HandlerType /\ Idle.op = "idle"
  BY IdleKnowsNothing DEF Idle, At
<1>2. CASE EditCommit(h)
  <2>1. PICK f \in Forms : profile' = [profile EXCEPT !.form = f]
    BY <1>2 DEF EditCommit
  <2>2. /\ status \in {"REGISTERED", "PROFILE_COMPLETED", "IDENTITY_REJECTED"}
        /\ status' = IF status = "REGISTERED" THEN "PROFILE_COMPLETED" ELSE status
    BY <1>2 DEF EditCommit, Ends, Claims, HandlersKnow
  <2>3. f # Null
    BY DEF OnboardingAssumption
  <2>4. handler' = [handler EXCEPT ![h] = Idle]
    BY <1>2 DEF EditCommit, Ends
  <2>5. OnboardingTypeOK'
    BY <1>1, <1>2, <2>1, <2>2, <2>4
       DEF EditCommit, OnboardingTypeOK, Statuses, HandlerType
  <2>6. RowsTellTheStage' /\ VerdictDecides'
    BY <1>2, <2>1, <2>2, <2>3
       DEF EditCommit, OnboardingTypeOK, RowsTellTheStage, VerdictDecides, Verified, Signed
  <2>7. profile'.session = profile.session
    BY <2>1 DEF OnboardingTypeOK
  <2> QED
    BY <1>1, <1>2, <2>2, <2>4, <2>5, <2>6, <2>7, CommitStep DEF EditCommit
<1>3. CASE SignCommit(h)
  <2>1. PICK r \in HandlerType :
          /\ handler' = [handler EXCEPT ![h] = r]
          /\ r.op \in {"idle", "cleanup"}
    BY <1>1, <1>3 DEF SignCommit, Ends, Continues, At, HandlerType
  <2>2. /\ handler[h].seen = "IDENTITY_VERIFIED" /\ handler[h].holds \in Documents
    BY <1>3 DEF SignCommit, Ends, Continues, HandlersKnow
  <2>3. /\ status = "IDENTITY_VERIFIED" /\ status' = "COMPLETED"
        /\ agreement' \in Documents
        /\ profile' = [profile EXCEPT !.completed = TRUE]
    BY <1>3, <2>2 DEF SignCommit, Claims
  <2>4. agreement' # Null
    BY <2>3 DEF OnboardingAssumption
  <2>5. OnboardingTypeOK'
    BY <1>3, <2>1, <2>3 DEF SignCommit, OnboardingTypeOK, Statuses, HandlerType
  <2>6. RowsTellTheStage' /\ VerdictDecides'
    BY <1>3, <2>3, <2>4
       DEF SignCommit, OnboardingTypeOK, RowsTellTheStage, VerdictDecides, Verified, Signed
  <2>7. profile'.session = profile.session
    BY <2>3 DEF OnboardingTypeOK
  <2> QED
    BY <1>3, <2>1, <2>3, <2>5, <2>6, <2>7, CommitStep DEF SignCommit
<1>4. CASE Approve(h) \/ Reject(h)
  <2>1. status = "COMPLETED" /\ status' \in {"APPROVED", "REJECTED"}
    BY <1>4 DEF Approve, Reject, Ends, Claims, HandlersKnow
  <2>2. /\ handler' = [handler EXCEPT ![h] = Idle]
        /\ UNCHANGED <<isActive, profile, agreement, files, verdict, found, acked>>
        /\ accounts' = IF status' = "APPROVED" THEN 1 ELSE accounts
    BY <1>4 DEF Approve, Reject, Ends, Claims
  <2>3. OnboardingTypeOK'
    BY <1>1, <2>1, <2>2 DEF OnboardingTypeOK, Statuses, HandlerType
  <2>4. RowsTellTheStage' /\ VerdictDecides'
    BY <2>1, <2>2 DEF RowsTellTheStage, VerdictDecides, Verified, Signed
  <2> QED
    BY <1>1, <2>1, <2>2, <2>3, <2>4, CommitStep
<1>5. CASE OpenCreate(h)
  <2>1. status = "APPROVED"
    BY <1>5 DEF OpenCreate, Ends, HandlersKnow
  <2>2. /\ handler' = [handler EXCEPT ![h] = Idle]
        /\ UNCHANGED <<status, isActive, profile, agreement, files, verdict, found, acked>>
        /\ accounts' = accounts + 1
    BY <1>5 DEF OpenCreate, Ends
  <2>3. OnboardingTypeOK'
    BY <1>1, <2>2 DEF OnboardingTypeOK, HandlerType
  <2>4. RowsTellTheStage' /\ VerdictDecides'
    BY <2>1, <2>2
       DEF OnboardingTypeOK, RowsTellTheStage, VerdictDecides, Verified, Signed
  <2> QED
    BY <1>1, <2>1, <2>2, <2>3, <2>4, CommitStep
<1> QED
  BY <1>2, <1>3, <1>4, <1>5

\* The transaction that stores the session and starts the wait for it.
LEMMA Saves ==
  ASSUME OnboardingAssumption, OnboardingInv, NEW h \in Handlers, StartSave(h)
  PROVE  OnboardingInv'
<1> USE DEF OnboardingInv
<1> DEFINE s == handler[h].holds
<1>1. /\ s \in Sessions
      /\ verdict[s] = "open"
      /\ status \in {"PROFILE_COMPLETED", "IDENTITY_REJECTED"}
      /\ \A g \in Handlers \ {h} : handler[g].op = "save" => handler[g].holds # s
  BY DEF StartSave, Ends, Claims, HandlersKnow
<1>2. /\ status' = "IDENTITY_IN_PROGRESS"
      /\ profile' = [profile EXCEPT !.session = s]
      /\ UNCHANGED <<isActive, agreement, accounts, files, verdict, found, acked>>
      /\ handler' = [handler EXCEPT ![h] = Idle]
  BY DEF StartSave, Ends, Claims
<1> HIDE DEF s
<1>3. s # Null
  BY <1>1 DEF OnboardingAssumption
<1>4. profile'.session = s
  BY <1>2 DEF OnboardingTypeOK
<1>5. OnboardingTypeOK'
  BY <1>1, <1>2, IdleKnowsNothing DEF OnboardingTypeOK, Statuses, HandlerType
<1>6. RowsTellTheStage' /\ VerdictDecides'
  BY <1>1, <1>2, <1>3
     DEF OnboardingTypeOK, RowsTellTheStage, VerdictDecides, Verified, Signed
<1>7. AnsweredVerdictCounts' /\ HooksQuoteVeriff'
  BY <1>1, <1>2, <1>4 DEF AnsweredVerdictCounts, HooksQuoteVeriff, Finals
<1>8. HandlersKnow'
  <2>1. \A g \in Handlers : handler'[g] = IF g = h THEN Idle ELSE handler[g]
    BY <1>2 DEF OnboardingTypeOK
  <2>2. Knows(Idle)
    BY IdleKnowsNothing
  <2> QED
    BY <1>1, <1>2, <1>4, <2>1, <2>2 DEF HandlersKnow, Knows
<1> QED
  BY <1>5, <1>6, <1>7, <1>8

\* Veriff's decision and the delivery of it.
LEMMA Hooks ==
  ASSUME OnboardingAssumption, OnboardingInv, NEW s \in Sessions,
         \/ \E d \in Finals : Decide(s, d)
         \/ \E d \in Decisions : HookSteps(s, d)
  PROVE  OnboardingInv'
<1> USE DEF OnboardingInv
<1>1. ASSUME NEW d \in Finals, Decide(s, d)
      PROVE  OnboardingInv'
  <2>1. \A t \in Sessions : verdict'[t] = IF t = s THEN d ELSE verdict[t]
    BY <1>1 DEF Decide, OnboardingTypeOK
  <2>2. verdict[s] = "open" /\ UNCHANGED <<rows, files, handler, found, acked>>
    BY <1>1 DEF Decide
  <2>3. OnboardingTypeOK'
    BY <1>1, <2>2 DEF Decide, OnboardingTypeOK, rows
  <2>4. RowsTellTheStage' /\ AnsweredVerdictCounts'
    BY <2>2 DEF RowsTellTheStage, AnsweredVerdictCounts, rows
  <2>5. profile.session \in Sessions \cup {Null}
    BY DEF OnboardingTypeOK
  <2>6. VerdictDecides'
    <3>1. status \in Verified \cup {"IDENTITY_REJECTED"} => profile.session # Null
      BY DEF RowsTellTheStage, Verified
    <3> QED
      BY <2>1, <2>2, <2>5, <3>1 DEF VerdictDecides, rows
  <2>7. HooksQuoteVeriff'
    BY <2>1, <2>2, <2>5 DEF HooksQuoteVeriff, Finals, rows
  <2>8. HandlersKnow'
    BY <1>1, <2>1, <2>2 DEF Decide, HandlersKnow, rows
  <2> QED
    BY <2>3, <2>4, <2>6, <2>7, <2>8
<1>2. ASSUME NEW d \in Decisions, HookSteps(s, d)
      PROVE  OnboardingInv'
  <2>1. UNCHANGED <<handler, verdict, files, agreement, accounts, isActive>>
    BY <1>2 DEF HookSteps, HookLookup, HookApplies, HookStale, HookFails, rows
  <2>2. ASSUME UNCHANGED rows,
               found' \subseteq found \cup {<<s, d>>},
               <<s, d>> \in found' \ found => Delivered(s, d),
               Answer(s, d) \/ UNCHANGED acked,
               ~UNCHANGED acked => (~Expected(s) /\ (<<s, d>> \in found \/ Delivered(s, d)))
        PROVE  OnboardingInv'
    <3>1. OnboardingTypeOK'
      BY <2>1, <2>2 DEF OnboardingTypeOK, Answer, rows
    <3>2. RowsTellTheStage' /\ VerdictDecides' /\ HandlersKnow'
      BY <2>1, <2>2 DEF RowsTellTheStage, VerdictDecides, HandlersKnow, rows
    <3>3. AnsweredVerdictCounts'
      BY <2>1, <2>2 DEF AnsweredVerdictCounts, Answer, Expected, rows
    <3>4. HooksQuoteVeriff'
      BY <2>1, <2>2 DEF HooksQuoteVeriff, Answer, Delivered, Finals, rows
    <3> QED
      BY <3>1, <3>2, <3>3, <3>4
  <2>3. CASE HookLookup(s, d)
    BY <2>2, <2>3 DEF HookLookup, Expected
  <2>4. CASE HookStale(s, d)
    BY <2>2, <2>4 DEF HookStale, Leaves
  <2>5. CASE HookFails(s, d)
    BY <2>2, <2>5 DEF HookFails
  <2>6. CASE HookApplies(s, d)
    <3>1. /\ status = "IDENTITY_IN_PROGRESS" /\ profile.session = s
          /\ <<s, d>> \in found /\ found' \subseteq found
          /\ Answer(s, d) \/ UNCHANGED acked
      BY <2>6 DEF HookApplies, Expected, Leaves
    <3>2. d \in Finals => verdict[s] = d
      BY <3>1 DEF HooksQuoteVeriff
    <3>3. CASE d = "review"
      <4>1. status' = status /\ profile' = profile
        BY <2>6, <3>1, <3>3 DEF HookApplies
      <4>2. UNCHANGED acked
        BY <3>1, <3>3 DEF Answer, Finals
      <4> QED
        BY <2>1, <2>2, <3>1, <4>1, <4>2 DEF rows
    <3>4. CASE d \in Finals
      <4>1. /\ status' = IF d = "approved" THEN "IDENTITY_VERIFIED" ELSE "IDENTITY_REJECTED"
            /\ profile' = [profile EXCEPT !.verified = (d = "approved")]
        BY <2>6, <3>4 DEF HookApplies, Finals
      <4>2. (d = "approved") \in BOOLEAN
        OBVIOUS
      <4>3. profile'.session = s
        BY <3>1, <4>1 DEF OnboardingTypeOK
      <4>4. OnboardingTypeOK'
        BY <2>1, <3>1, <4>1, <4>2 DEF OnboardingTypeOK, Statuses, Answer
      <4>5. RowsTellTheStage'
        BY <2>1, <3>1, <3>4, <4>1
           DEF OnboardingTypeOK, RowsTellTheStage, Verified, Signed, Finals
      <4>6. VerdictDecides'
        BY <2>1, <3>2, <3>4, <4>1, <4>3 DEF VerdictDecides, Verified, Finals
      <4>7. AnsweredVerdictCounts'
        BY <4>1 DEF AnsweredVerdictCounts
      <4>8. HooksQuoteVeriff'
        BY <2>1, <3>1, <3>2, <4>3 DEF HooksQuoteVeriff, Answer, Finals
      <4>9. HandlersKnow'
        BY <2>1, <3>1, <4>3 DEF HandlersKnow
      <4> QED
        BY <4>4, <4>5, <4>6, <4>7, <4>8, <4>9
    <3> QED
      BY <3>3, <3>4 DEF Decisions
  <2> QED
    BY <1>2, <2>3, <2>4, <2>5, <2>6 DEF HookSteps
<1> QED
  BY <1>1, <1>2

-----------------------------------------------------------------------------
(* The theorems. *)

\* A customer who has just registered.
LEMMA InitHolds == ASSUME OnboardingAssumption, OnboardingInit PROVE OnboardingInv
<1> USE DEF OnboardingInit
<1>1. OnboardingTypeOK
  BY IdleKnowsNothing DEF OnboardingTypeOK, HandlerType, Statuses
<1>2. RowsTellTheStage /\ VerdictDecides /\ AnsweredVerdictCounts
  BY DEF RowsTellTheStage, VerdictDecides, AnsweredVerdictCounts, Verified, Signed
<1>3. HandlersKnow
  BY IdleKnowsNothing DEF HandlersKnow, Knows
<1>4. HooksQuoteVeriff
  BY DEF HooksQuoteVeriff
<1> QED
  BY <1>1, <1>2, <1>3, <1>4 DEF OnboardingInv

\* Every handler, delivery and review keeps the rows in agreement.
LEMMA NextHolds ==
  ASSUME OnboardingAssumption, OnboardingInv, [OnboardingNext]_onboardingVars
  PROVE  OnboardingInv'
<1>1. ASSUME NEW h \in Handlers, HandlerSteps(h)
      PROVE  OnboardingInv'
  BY <1>1, Reads, QuietSteps, Opens, Commits, Saves DEF HandlerSteps
<1>2. ASSUME NEW s \in Sessions,
             \/ \E d \in Finals : Decide(s, d)
             \/ \E d \in Decisions : HookSteps(s, d)
      PROVE  OnboardingInv'
  BY <1>2, Hooks
<1>3. CASE Deactivate \/ UNCHANGED onboardingVars
  <2>1. UNCHANGED <<status, profile, agreement, accounts, files, handler, verdict,
                    found, acked>> /\ isActive' \in BOOLEAN
    BY <1>3 DEF Deactivate, onboardingVars, rows, OnboardingInv, OnboardingTypeOK
  <2> QED
    BY <2>1 DEF OnboardingInv, OnboardingTypeOK, RowsTellTheStage, VerdictDecides,
                AnsweredVerdictCounts, HandlersKnow, HooksQuoteVeriff
<1> QED
  BY <1>1, <1>2, <1>3 DEF OnboardingNext

\* Whatever handlers, deliveries and reviews interleave, the rows of kyc and
\* account tell the same story, the identity is what Veriff decided, and an
\* answered decision is never lost.
THEOREM OnboardingInvariant == OnboardingSpec => []OnboardingInv
<1>1. OnboardingInit => OnboardingInv
  BY InitHolds, OnboardingAssumption
<1>2. OnboardingInv /\ [OnboardingNext]_onboardingVars => OnboardingInv'
  BY NextHolds, OnboardingAssumption
<1> QED
  BY <1>1, <1>2, PTL DEF OnboardingSpec

\* Profile, agreement and accounts are written by different handlers, and yet
\* always fit the customer's stage.
THEOREM RowsTell == OnboardingSpec => []RowsTellTheStage
<1>1. OnboardingInv => RowsTellTheStage
  BY DEF OnboardingInv
<1> QED
  BY <1>1, OnboardingInvariant, PTL

\* No late or repeated decision of Veriff overrules the one on the session that
\* the application now has.
THEOREM VerdictStands == OnboardingSpec => []VerdictDecides
<1>1. OnboardingInv => VerdictDecides
  BY DEF OnboardingInv
<1> QED
  BY <1>1, OnboardingInvariant, PTL

\* A decision that was acknowledged has been applied, or is of another session.
THEOREM AnsweredVerdict == OnboardingSpec => []AnsweredVerdictCounts
<1>1. OnboardingInv => AnsweredVerdictCounts
  BY DEF OnboardingInv
<1> QED
  BY <1>1, OnboardingInvariant, PTL

\* Every step of every interleaving moves the application along its stages.
THEOREM Lifecycle == OnboardingSpec => LifecycleMoves
<1>1. ASSUME OnboardingInv, OnboardingNext
      PROVE  Move
  <2> USE <1>1 DEF OnboardingInv
  <2>1. ASSUME UNCHANGED <<status, profile, agreement>>
        PROVE  Move
    BY <2>1 DEF Move
  <2>2. ASSUME NEW h \in Handlers, HandlerSteps(h)
        PROVE  Move
    <3>1. CASE EditCommit(h)
      <4>1. /\ status \in {"REGISTERED", "PROFILE_COMPLETED", "IDENTITY_REJECTED"}
            /\ status' = IF status = "REGISTERED" THEN "PROFILE_COMPLETED" ELSE status
            /\ agreement' = agreement /\ profile'.session = profile.session
        BY <3>1 DEF EditCommit, Ends, Claims, HandlersKnow, OnboardingTypeOK
      <4> QED
        BY <4>1 DEF Move, Stage
    <3>2. CASE StartSave(h)
      <4>1. /\ status \in {"PROFILE_COMPLETED", "IDENTITY_REJECTED"}
            /\ status' = "IDENTITY_IN_PROGRESS"
            /\ agreement' = agreement /\ profile'.form = profile.form
        BY <3>2 DEF StartSave, Ends, Claims, HandlersKnow, OnboardingTypeOK
      <4> QED
        BY <4>1 DEF Move, Stage
    <3>3. CASE SignCommit(h)
      <4>1. /\ status = "IDENTITY_VERIFIED" /\ status' = "COMPLETED"
            /\ agreement = Null
            /\ profile'.form = profile.form /\ profile'.session = profile.session
        BY <3>3 DEF SignCommit, Ends, Continues, Claims, HandlersKnow, OnboardingTypeOK
      <4> QED
        BY <4>1 DEF Move, Stage
    <3>4. CASE Approve(h) \/ Reject(h)
      <4>1. /\ status = "COMPLETED" /\ status' \in {"APPROVED", "REJECTED"}
            /\ UNCHANGED <<profile, agreement>>
        BY <3>4 DEF Approve, Reject, Ends, Claims, HandlersKnow
      <4> QED
        BY <4>1 DEF Move, Stage
    <3> QED
      BY <2>1, <2>2, <3>1, <3>2, <3>3, <3>4
         DEF HandlerSteps, GivesUp, EditRead, StartRead, StartOpen, SignRead, SignRender,
             SignFails, SignCleanup, ReviewRead, OpenRead, OpenCount, OpenCreate, rows
  <2>3. ASSUME NEW s \in Sessions, NEW d \in Decisions, HookSteps(s, d)
        PROVE  Move
    <3>1. CASE HookApplies(s, d)
      <4>1. /\ status = "IDENTITY_IN_PROGRESS"
            /\ status' \in {"IDENTITY_VERIFIED", "IDENTITY_REJECTED", status}
            /\ agreement' = agreement
            /\ profile'.form = profile.form /\ profile'.session = profile.session
        BY <3>1 DEF HookApplies, Expected, Decisions, Finals, OnboardingTypeOK
      <4> QED
        BY <4>1 DEF Move, Stage
    <3> QED
      BY <2>1, <2>3, <3>1 DEF HookSteps, HookLookup, HookStale, HookFails, rows
  <2> QED
    BY <2>1, <2>2, <2>3 DEF OnboardingNext, Decide, Deactivate, rows
<1>2. OnboardingInv /\ [OnboardingNext]_onboardingVars => [Move]_onboardingVars
  BY <1>1
<1> QED
  BY <1>2, OnboardingInvariant, PTL DEF OnboardingSpec, LifecycleMoves
=============================================================================
