----------------------------- MODULE Onboarding -----------------------------
(* The life of one customer's KYC application, from the profile form to the
   decision of an administrator, and the trading accounts that follow it:
   src/modules/kyc and createTradingAccount.  The rows of different customers
   never meet.  Any number of request handlers work on the application at once;
   a handler reads, awaits, and then claims the customer row by its status. *)
EXTENDS Naturals

CONSTANTS
  Handlers,     \* request handlers that may run at the same time
  Forms,        \* what a profile form may say
  Sessions,     \* identity sessions Veriff may open
  Documents,    \* names of signed PDFs (random UUIDs)
  MaxAccounts,  \* the limit of createTradingAccount, 3 in the code
  Null

ASSUME OnboardingAssumption ==
  /\ MaxAccounts \in Nat \ {0}
  /\ Null \notin Forms \cup Sessions \cup Documents

VARIABLES
  status,    \* Customer.status
  isActive,  \* Customer.isActive
  profile,   \* the KycProfile row; there is none while its form is Null
  agreement, \* documentPath of the KycAgreement row, or Null
  accounts,  \* how many TradingAccount rows the customer has
  files,     \* signed PDFs on disk
  handler,   \* what each handler does next, and what it remembers
  verdict,   \* Veriff's side of each session
  found,     \* webhook deliveries whose profile was looked up
  acked      \* final decisions that were answered 200

rows == <<status, isActive, profile, agreement, accounts>>
onboardingVars == <<rows, files, handler, verdict, found, acked>>

Statuses == {"REGISTERED", "PROFILE_COMPLETED", "IDENTITY_IN_PROGRESS",
             "IDENTITY_REJECTED", "IDENTITY_VERIFIED", "COMPLETED",
             "APPROVED", "REJECTED"}
Finals == {"approved", "declined"}
Decisions == Finals \cup {"review"}

\* A handler's next step, the status it read, the session or document it holds.
At(op, seen, holds) == [op |-> op, seen |-> seen, holds |-> holds]
Idle == At("idle", "REGISTERED", Null)

OnboardingInit ==
  /\ status = "REGISTERED"
  /\ isActive = TRUE
  /\ profile = [form |-> Null, session |-> Null,
                verified |-> FALSE, completed |-> FALSE]
  /\ agreement = Null
  /\ accounts = 0
  /\ files = {}
  /\ handler = [h \in Handlers |-> Idle]
  /\ verdict = [s \in Sessions |-> "unopened"]
  /\ found = {}
  /\ acked = {}

-----------------------------------------------------------------------------
\* The steps of a handler: it begins by reading the customer, goes on to its
\* next await, and ends with the answer.
Begins(h, op) ==
  /\ handler[h].op = "idle"
  /\ handler' = [handler EXCEPT ![h] = At(op, status, Null)]
Continues(h, from, to, held) ==
  /\ handler[h].op = from
  /\ handler' = [handler EXCEPT ![h] = At(to, handler[h].seen, held)]
Ends(h, op) ==
  /\ handler[h].op = op
  /\ handler' = [handler EXCEPT ![h] = Idle]

\* Mutant: the claim is an unconditional update.
ClaimsBlindly(h, next) == status' = next

\* claimKycTransition: the row must still have the status the handler saw.
Claims(h, next) == status = handler[h].seen /\ status' = next

\* An error, a refused claim or the death of the process ends a handler.
GivesUp(h) ==
  /\ \E op \in {"edit", "start", "save", "sign", "cleanup", "approve", "reject",
                "open", "counted"} : Ends(h, op)
  /\ UNCHANGED <<rows, files, verdict, found, acked>>

-----------------------------------------------------------------------------
\* updateMyKycProfile.
EditRead(h) ==
  /\ isActive
  /\ status \in {"REGISTERED", "PROFILE_COMPLETED", "IDENTITY_REJECTED"}
  /\ Begins(h, "edit")
  /\ UNCHANGED <<rows, files, verdict, found, acked>>

EditCommit(h) ==
  /\ Ends(h, "edit")
  /\ Claims(h, IF handler[h].seen = "REGISTERED" THEN "PROFILE_COMPLETED"
                                                 ELSE handler[h].seen)
  /\ \E f \in Forms : profile' = [profile EXCEPT !.form = f]
  /\ UNCHANGED <<isActive, agreement, accounts, files, verdict, found, acked>>

-----------------------------------------------------------------------------
\* startIdentityVerification.  A running session is resumed: nothing changes.
StartRead(h) ==
  /\ isActive /\ profile.form # Null
  /\ status \in {"PROFILE_COMPLETED", "IDENTITY_REJECTED"}
  /\ Begins(h, "start")
  /\ UNCHANGED <<rows, files, verdict, found, acked>>

\* createVeriffSession.  Its answer may be lost: nobody learns of the session.
StartOpen(h) ==
  /\ \E s \in Sessions :
       /\ verdict[s] = "unopened"
       /\ verdict' = [verdict EXCEPT ![s] = "open"]
       /\ Continues(h, "start", "save", s) \/ Ends(h, "start")
  /\ UNCHANGED <<rows, files, found, acked>>

StartSave(h) ==
  /\ Ends(h, "save")
  /\ Claims(h, "IDENTITY_IN_PROGRESS")
  /\ profile' = [profile EXCEPT !.session = handler[h].holds]
  /\ UNCHANGED <<isActive, agreement, accounts, files, verdict, found, acked>>

-----------------------------------------------------------------------------
\* Veriff decides.  The customer can reach a session only by the stored URL; one
\* that was never stored expires, long after the handler that opened it is gone.
Decide(s, d) ==
  /\ verdict[s] = "open"
  /\ \A h \in Handlers : handler[h].holds # s
  /\ d = "declined" \/ profile.session = s
  /\ verdict' = [verdict EXCEPT ![s] = d]
  /\ UNCHANGED <<rows, files, handler, found, acked>>

\* Veriff delivers "review" while it works on a session, and late; a final
\* decision until it is answered, and again.
Delivered(s, d) == verdict[s] # "unopened" /\ d \in {"review", verdict[s]}
Answer(s, d) == acked' = acked \cup ({<<s, d>>} \cap (Sessions \X Finals))

\* veriffWebhook finds the profile by its session, or answers 200 at once.
HookLookup(s, d) ==
  /\ Delivered(s, d)
  /\ IF profile.session = s
       THEN found' = found \cup {<<s, d>>} /\ UNCHANGED acked
       ELSE Answer(s, d) /\ UNCHANGED found
  /\ UNCHANGED <<rows, files, handler, verdict>>

\* Mutant: the status is not claimed, only the session compared.
ExpectedAnyStage(s) == profile.session = s

\* Mutant: the session is not read again after the claim.
ExpectedUnchecked(s) == status = "IDENTITY_IN_PROGRESS"

\* The claim holds and the session is still the current one.
Expected(s) == status = "IDENTITY_IN_PROGRESS" /\ profile.session = s

\* A delivery leaves, unless another one of the same decision is on its way.
Leaves(s, d) == found' \in {found, found \ {<<s, d>>}}

\* The transaction of the webhook; its commit is answered, or the answer is lost.
HookApplies(s, d) ==
  /\ <<s, d>> \in found /\ Expected(s)
  /\ status' = [approved |-> "IDENTITY_VERIFIED", declined |-> "IDENTITY_REJECTED",
                review |-> "IDENTITY_IN_PROGRESS"][d]
  /\ profile' = IF d = "review" THEN profile
                ELSE [profile EXCEPT !.verified = (d = "approved")]
  /\ Leaves(s, d) /\ (Answer(s, d) \/ UNCHANGED acked)
  /\ UNCHANGED <<isActive, agreement, accounts, files, handler, verdict>>

\* A stale or repeated decision is acknowledged without effect.
HookStale(s, d) ==
  /\ <<s, d>> \in found /\ ~Expected(s)
  /\ Leaves(s, d) /\ Answer(s, d)
  /\ UNCHANGED <<rows, files, handler, verdict>>

\* Mutant: every error of the transaction is taken for a conflict.
HookSwallows(s, d) ==
  /\ <<s, d>> \in found
  /\ found' = found \ {<<s, d>>}
  /\ Answer(s, d)
  /\ UNCHANGED <<rows, files, handler, verdict>>

\* The delivery fails (500, or the process dies) and changes nothing.
HookFails(s, d) ==
  /\ <<s, d>> \in found
  /\ found' = found \ {<<s, d>>}
  /\ UNCHANGED <<rows, files, handler, verdict, acked>>

-----------------------------------------------------------------------------
\* signKycAgreement.  It never looks at isActive.
SignRead(h) ==
  /\ profile.form # Null /\ status = "IDENTITY_VERIFIED" /\ agreement = Null
  /\ Begins(h, "sign")
  /\ UNCHANGED <<rows, files, verdict, found, acked>>

\* generateSignedKycAgreement writes a PDF under a fresh name.
SignRender(h) ==
  /\ \E d \in Documents \ files :
       /\ \A g \in Handlers : handler[g].holds # d
       /\ agreement # d
       /\ files' = files \cup {d}
       /\ Continues(h, "sign", "signed", d)
  /\ UNCHANGED <<rows, verdict, found, acked>>

\* The transaction.  When the answer to its commit is lost, the handler takes it
\* for failed and goes on to remove the PDF.
SignCommit(h) ==
  /\ Claims(h, "COMPLETED")
  /\ agreement = Null /\ agreement' = handler[h].holds
  /\ profile' = [profile EXCEPT !.completed = TRUE]
  /\ \/ Ends(h, "signed")
     \/ Continues(h, "signed", "cleanup", handler[h].holds)
  /\ UNCHANGED <<isActive, accounts, files, verdict, found, acked>>

\* The transaction is refused or fails; or the process dies and leaves the PDF.
SignFails(h) ==
  /\ Continues(h, "signed", "cleanup", handler[h].holds) \/ Ends(h, "signed")
  /\ UNCHANGED <<rows, files, verdict, found, acked>>

\* The catch block: fs.unlink (when it fails, the handler gives up).
SignCleanup(h) ==
  /\ Ends(h, "cleanup")
  /\ files' = files \ {handler[h].holds}
  /\ UNCHANGED <<rows, verdict, found, acked>>

-----------------------------------------------------------------------------
\* reviewKyc: an administrator approves, which opens the first account, or
\* rejects.
ReviewRead(h) ==
  /\ profile.form # Null /\ status = "COMPLETED"
  /\ \E op \in {"approve", "reject"} : Begins(h, op)
  /\ UNCHANGED <<rows, files, verdict, found, acked>>

Approve(h) ==
  /\ Ends(h, "approve")
  /\ Claims(h, "APPROVED")
  /\ accounts = 0 /\ accounts' = 1
  /\ UNCHANGED <<isActive, profile, agreement, files, verdict, found, acked>>

Reject(h) ==
  /\ Ends(h, "reject")
  /\ Claims(h, "REJECTED")
  /\ UNCHANGED <<isActive, profile, agreement, accounts, files, verdict, found, acked>>

-----------------------------------------------------------------------------
\* createTradingAccount: the customer is read, then a transaction (of the default
\* isolation level, and without a claim) counts the accounts and adds one.
OpenRead(h) ==
  /\ status = "APPROVED"
  /\ Begins(h, "open")
  /\ UNCHANGED <<rows, files, verdict, found, acked>>

OpenCount(h) ==
  /\ accounts < MaxAccounts
  /\ Continues(h, "open", "counted", Null)
  /\ UNCHANGED <<rows, files, verdict, found, acked>>

OpenCreate(h) ==
  /\ Ends(h, "counted")
  /\ accounts' = accounts + 1
  /\ UNCHANGED <<status, isActive, profile, agreement, files, verdict, found, acked>>

-----------------------------------------------------------------------------
\* deleteCustomer: a soft delete, for good.
Deactivate ==
  /\ isActive /\ isActive' = FALSE
  /\ UNCHANGED <<status, profile, agreement, accounts, files, handler, verdict,
                 found, acked>>

HandlerSteps(h) ==
  \/ GivesUp(h)
  \/ EditRead(h) \/ EditCommit(h)
  \/ StartRead(h) \/ StartOpen(h) \/ StartSave(h)
  \/ SignRead(h) \/ SignRender(h) \/ SignCommit(h) \/ SignFails(h) \/ SignCleanup(h)
  \/ ReviewRead(h) \/ Approve(h) \/ Reject(h)
  \/ OpenRead(h) \/ OpenCount(h) \/ OpenCreate(h)

HookSteps(s, d) ==
  \/ HookLookup(s, d) \/ HookApplies(s, d) \/ HookStale(s, d) \/ HookFails(s, d)

OnboardingNext ==
  \/ \E h \in Handlers : HandlerSteps(h)
  \/ \E s \in Sessions, d \in Finals : Decide(s, d)
  \/ \E s \in Sessions, d \in Decisions : HookSteps(s, d)
  \/ Deactivate

OnboardingSpec == OnboardingInit /\ [][OnboardingNext]_onboardingVars

-----------------------------------------------------------------------------
\* Type invariant.
OnboardingTypeOK ==
  /\ status \in Statuses
  /\ isActive \in BOOLEAN
  /\ profile \in [form : Forms \cup {Null}, session : Sessions \cup {Null},
                 verified : BOOLEAN, completed : BOOLEAN]
  /\ agreement \in Documents \cup {Null}
  /\ accounts \in Nat
  /\ files \subseteq Documents
  /\ handler \in [Handlers ->
       [op : {"idle", "edit", "start", "save", "sign", "signed", "cleanup",
              "approve", "reject", "open", "counted"},
        seen : Statuses, holds : Sessions \cup Documents \cup {Null}]]
  /\ verdict \in [Sessions -> {"unopened", "open"} \cup Finals]
  /\ found \subseteq Sessions \X Decisions
  /\ acked \subseteq Sessions \X Finals

\* Stages with a verified identity, and with a signed agreement.
Verified == {"IDENTITY_VERIFIED", "COMPLETED", "APPROVED", "REJECTED"}
Signed == {"COMPLETED", "APPROVED", "REJECTED"}

\* The rows and columns that handlers, webhooks and reviews write in separate
\* transactions always tell the same story as Customer.status.
RowsTellTheStage ==
  /\ profile.form # Null <=> status # "REGISTERED"
  /\ profile.session # Null <=> status \notin {"REGISTERED", "PROFILE_COMPLETED"}
  /\ profile.verified <=> status \in Verified
  /\ profile.completed <=> status \in Signed
  /\ agreement # Null <=> status \in Signed
  /\ accounts > 0 <=> status = "APPROVED"

\* What the application says of the identity is what Veriff decided about the
\* session it now has, whatever sessions and callbacks came before.
VerdictDecides ==
  /\ status \in Verified => verdict[profile.session] = "approved"
  /\ status = "IDENTITY_REJECTED" => verdict[profile.session] = "declined"

\* A final decision that was answered 200, so that Veriff will not repeat it,
\* never leaves the application waiting for that session: with the session
\* resumed by every retry, the customer would be stuck.
AnsweredVerdictCounts ==
  \A s \in Sessions, d \in Finals :
    <<s, d>> \in acked /\ profile.session = s => status # "IDENTITY_IN_PROGRESS"

\* What a handler read still holds of the rows that only it may have changed, and
\* a session that is not yet stored is in the hands of one handler.
HandlersKnow ==
  \A h \in Handlers :
    /\ handler[h].op = "edit" =>
         handler[h].seen \in {"REGISTERED", "PROFILE_COMPLETED", "IDENTITY_REJECTED"}
    /\ handler[h].op \in {"start", "save"} =>
         handler[h].seen \in {"PROFILE_COMPLETED", "IDENTITY_REJECTED"}
    /\ handler[h].op \in {"sign", "signed"} => handler[h].seen = "IDENTITY_VERIFIED"
    /\ handler[h].op = "signed" => handler[h].holds \in Documents
    /\ handler[h].op \in {"approve", "reject"} => handler[h].seen = "COMPLETED"
    /\ handler[h].op \in {"open", "counted"} => status = "APPROVED"
    /\ handler[h].op = "save" =>
         /\ handler[h].holds \in Sessions
         /\ verdict[handler[h].holds] = "open"
         /\ profile.session # handler[h].holds
         /\ \A g \in Handlers \ {h} :
              handler[g].op = "save" => handler[g].holds # handler[h].holds

\* Deliveries and answers quote the verdict, and the stored session was opened.
HooksQuoteVeriff ==
  /\ \A s \in Sessions, d \in Finals :
       /\ <<s, d>> \in found => verdict[s] = d
       /\ <<s, d>> \in acked => verdict[s] = d
  /\ profile.session # Null => verdict[profile.session] # "unopened"

\* The invariant of the proofs.
OnboardingInv ==
  /\ OnboardingTypeOK
  /\ RowsTellTheStage
  /\ VerdictDecides
  /\ AnsweredVerdictCounts
  /\ HandlersKnow
  /\ HooksQuoteVeriff

\* The stages of an application, and what may be written on the way.
Stage == {<<"REGISTERED", "PROFILE_COMPLETED">>,
          <<"PROFILE_COMPLETED", "IDENTITY_IN_PROGRESS">>,
          <<"IDENTITY_IN_PROGRESS", "IDENTITY_REJECTED">>,
          <<"IDENTITY_IN_PROGRESS", "IDENTITY_VERIFIED">>,
          <<"IDENTITY_REJECTED", "IDENTITY_IN_PROGRESS">>,
          <<"IDENTITY_VERIFIED", "COMPLETED">>,
          <<"COMPLETED", "APPROVED">>, <<"COMPLETED", "REJECTED">>}

Move ==
  /\ status' # status => <<status, status'>> \in Stage
  /\ profile'.form # profile.form =>
       status' \in {"PROFILE_COMPLETED", "IDENTITY_REJECTED"}
  /\ profile'.session # profile.session => status' = "IDENTITY_IN_PROGRESS"
                                           /\ status # "IDENTITY_IN_PROGRESS"
  /\ agreement' # agreement => agreement = Null

\* An application moves one stage at a time and never back, except that a
\* declined identity may be tried again with another session; what was verified
\* cannot be edited, and what was signed or decided stays.
LifecycleMoves == [][Move]_onboardingVars

\* Comment at kyc.controller.ts:806: once the transaction commits, the document
\* belongs to the completed KYC and must remain stored.
SignedDocumentIsKept == agreement # Null => agreement \in files

\* Comment at tradingAccount.controller.ts:79: at most three accounts; the count
\* and the creation happen together (:62).
AccountsWithinLimit == accounts <= MaxAccounts
=============================================================================
