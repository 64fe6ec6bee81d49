----------------------------- MODULE PriceFeed -----------------------------
(* How the price of one symbol gets into the database: the quote that makes
   its row (initialize and importTwelveDataQuote), the prices that stream in
   afterwards (startTwelveDataStream), and what is written by hand through the
   API (createCrypto).  Retry delays and heartbeats say only when a step may happen. *)
EXTENDS CryptoTables, Sequences

CONSTANTS
  Callers,     \* calls of initialize that may run at the same time
  QueueBound   \* bound on the saves that wait

ASSUME FeedAssumption == QueueBound \in Nat

VARIABLES
  queue,        \* saveQueue
  lastSaved,    \* the last event whose save was answered, or Nothing
  initialized,  \* whether the symbol has been initialized
  caller        \* where each call of initialize is

feedVars == <<tableVars, queue, lastSaved, initialized, caller>>

FeedInit ==
  /\ TablesInit
  /\ queue = <<>>
  /\ lastSaved = Nothing
  /\ initialized = FALSE
  /\ caller = [i \in Callers |-> "idle"]

-----------------------------------------------------------------------------
\* Mutant: calls of initialize do not exclude each other.
MayCall == ~initialized

MayInitialize == ~initialized /\ \A i \in Callers : caller[i] = "idle"

\* initialize: called by connect and by a price event that comes too early.
InitializeLookup(i) ==
  /\ MayInitialize
  /\ caller[i] = "idle"
  /\ IF stored.from = "absent"
       THEN caller' = [caller EXCEPT ![i] = "import"] /\ UNCHANGED initialized
       ELSE initialized' = TRUE /\ UNCHANGED caller
  /\ UNCHANGED <<tableVars, queue, lastSaved>>

\* importTwelveDataQuote.  The answer to the commit may be lost.
InitializeImport(i) ==
  /\ caller[i] = "import"
  /\ Commits("quote", Nothing)
  /\ initialized' \in {initialized, TRUE}
  /\ caller' = [caller EXCEPT ![i] = "idle"]
  /\ UNCHANGED <<queue, lastSaved>>

InitializeFails(i) ==
  /\ caller[i] = "import"
  /\ caller' = [caller EXCEPT ![i] = "idle"]
  /\ UNCHANGED <<tableVars, queue, lastSaved, initialized>>

-----------------------------------------------------------------------------
\* A price event is queued.  Reconnecting streams repeat and reorder events.
PriceArrives(e) ==
  /\ initialized
  /\ Len(queue) < QueueBound
  /\ queue' = Append(queue, e)
  /\ UNCHANGED <<tableVars, lastSaved, initialized, caller>>

\* Mutant: only repeated events are left out.
RepeatsOnly(e) == e = lastSaved

Stale(e) ==
  /\ lastSaved # Nothing
  /\ e.time < lastSaved.time \/ e = lastSaved

\* Saves run one after the other, each compared when its turn comes.
SaveSkipped ==
  /\ queue # <<>>
  /\ Stale(Head(queue))
  /\ queue' = Tail(queue)
  /\ UNCHANGED <<tableVars, lastSaved, initialized, caller>>

\* saveLiveCryptoPrice.  The answer to the commit may be lost.
SaveCommits ==
  /\ queue # <<>>
  /\ ~Stale(Head(queue))
  /\ stored.from # "absent"
  /\ Commits("live", Head(queue))
  /\ lastSaved' \in {lastSaved, Head(queue)}
  /\ queue' = Tail(queue)
  /\ UNCHANGED <<initialized, caller>>

SaveFails ==
  /\ queue # <<>>
  /\ ~Stale(Head(queue))
  /\ queue' = Tail(queue)
  /\ UNCHANGED <<tableVars, lastSaved, initialized, caller>>

-----------------------------------------------------------------------------
\* createCrypto, and a process that stops and starts again.
ApiSaves ==
  /\ Commits("api", Nothing)
  /\ UNCHANGED <<queue, lastSaved, initialized, caller>>

Restart ==
  /\ queue' = <<>>
  /\ lastSaved' = Nothing
  /\ initialized' = FALSE
  /\ caller' = [i \in Callers |-> "idle"]
  /\ UNCHANGED tableVars

FeedCommit == SaveCommits \/ ApiSaves \/ \E i \in Callers : InitializeImport(i)

FeedStep ==
  \/ \E i \in Callers : InitializeLookup(i) \/ InitializeFails(i)
  \/ \E e \in PriceEvents : PriceArrives(e)
  \/ SaveSkipped \/ SaveFails \/ Restart
=============================================================================
