---------------------------- MODULE MarketProofs ----------------------------
(***************************************************************************)
(* Proofs about Market, for any prices and times, callers, queue bound,    *)
(* clients and refreshes.                                                  *)
(***************************************************************************)
EXTENDS Market, TLAPS

RefreshType == {Idle} \cup [at: {"rows"}] \cup [at: {"history"}, rows: Nat]

-----------------------------------------------------------------------------
(* The price feed.  Each step keeps what MarketInv says of it. *)

FeedInv ==
  /\ stored \in [from: {"absent", "quote", "api", "live"},
                 event: PriceEvents \cup {Nothing}]
  /\ version \in Nat
  /\ queue \in Seq(PriceEvents)
  /\ lastSaved \in PriceEvents \cup {Nothing}
  /\ initialized \in BOOLEAN
  /\ caller \in [Callers -> {"idle", "import"}]
  /\ stored.from = "live" => stored.event # Nothing
  /\ ImportsExclude
  /\ LivePriceIsCurrent

\* A commit of the tables, as the feed sees it.
LEMMA FeedCommits ==
  ASSUME FeedInv, FeedCommit
  PROVE  /\ FeedInv' /\ version' = version + 1
         /\ stored.from = "live" => stored'.from # "quote"
<1> USE DEF FeedInv
<1>1. CASE SaveCommits
  <2> DEFINE e == Head(queue)
  <2>1. e \in PriceEvents /\ queue' \in Seq(PriceEvents)
    BY <1>1 DEF SaveCommits
  <2>2. /\ stored' = [from |-> "live", event |-> e] /\ version' = version + 1
        /\ lastSaved' \in {lastSaved, e} /\ UNCHANGED <<initialized, caller>>
    BY <1>1 DEF SaveCommits, Commits, Stored
  <2>3. initialized
    BY <1>1 DEF SaveCommits, ImportsExclude
  <2>4. ImportsExclude'
    BY <2>2, <2>3 DEF ImportsExclude
  <2>5. e # Nothing /\ e.time \in Nat
    BY <2>1, TablesAssumption DEF PriceEvents
  <2>6. lastSaved # Nothing => e.time >= lastSaved.time
    <3>1. lastSaved # Nothing => lastSaved.time \in Nat
      BY TablesAssumption DEF PriceEvents
    <3> QED
      BY <1>1, <2>5, <3>1 DEF SaveCommits, Stale
  <2>7. LivePriceIsCurrent'
    BY <2>2, <2>5, <2>6 DEF LivePriceIsCurrent
  <2> QED
    BY <2>1, <2>2, <2>4, <2>5, <2>7
<1>2. CASE ApiSaves
  <2>1. /\ stored' = [from |-> "api", event |-> Nothing] /\ version' = version + 1
        /\ UNCHANGED <<queue, lastSaved, initialized, caller>>
    BY <1>2 DEF ApiSaves, Commits, Stored
  <2> QED
    BY <2>1 DEF ImportsExclude, LivePriceIsCurrent
<1>3. ASSUME NEW i \in Callers, InitializeImport(i)
      PROVE  /\ FeedInv' /\ version' = version + 1
             /\ stored.from = "live" => stored'.from # "quote"
  <2>1. /\ stored' = [from |-> "quote", event |-> Nothing] /\ version' = version + 1
        /\ initialized' \in {initialized, TRUE}
        /\ caller[i] = "import" /\ caller' = [caller EXCEPT ![i] = "idle"]
        /\ UNCHANGED <<queue, lastSaved>>
    BY <1>3 DEF InitializeImport, Commits, Stored
  <2>2. stored.from # "live"
    BY <2>1 DEF ImportsExclude
  <2>3. \A j \in Callers : caller'[j] = "idle"
    BY <2>1 DEF ImportsExclude
  <2>4. ImportsExclude'
    BY <2>1, <2>3 DEF ImportsExclude
  <2>5. LivePriceIsCurrent' /\ (stored'.from = "live" => stored'.event # Nothing)
    BY <2>1 DEF LivePriceIsCurrent
  <2>6. /\ stored' \in [from: {"absent", "quote", "api", "live"},
                        event: PriceEvents \cup {Nothing}]
        /\ version' \in Nat
    BY <2>1
  <2>7. caller' \in [Callers -> {"idle", "import"}]
    BY <2>1
  <2>8. initialized' \in BOOLEAN
    BY <2>1
  <2> QED
    BY <2>1, <2>2, <2>4, <2>5, <2>6, <2>7, <2>8
<1> QED
  BY <1>1, <1>2, <1>3 DEF FeedCommit

\* The other steps of the feed.
LEMMA FeedSteps ==
  ASSUME FeedInv, FeedStep
  PROVE  FeedInv' /\ UNCHANGED <<stored, version>>
<1> USE DEF FeedInv, tableVars
<1>1. ASSUME NEW i \in Callers, InitializeLookup(i) \/ InitializeFails(i)
      PROVE  FeedInv' /\ UNCHANGED <<stored, version>>
  <2>1. CASE InitializeFails(i)
    BY <2>1 DEF InitializeFails, ImportsExclude, LivePriceIsCurrent
  <2>2. CASE InitializeLookup(i) /\ stored.from = "absent"
    <3>1. /\ ~initialized /\ \A j \in Callers : caller[j] = "idle"
          /\ caller' = [caller EXCEPT ![i] = "import"]
          /\ UNCHANGED <<stored, version, queue, lastSaved, initialized>>
      BY <2>2 DEF InitializeLookup, MayInitialize
    <3>2. ImportsExclude'
      BY <2>2, <3>1 DEF ImportsExclude
    <3> QED
      BY <3>1, <3>2 DEF LivePriceIsCurrent
  <2>3. CASE InitializeLookup(i) /\ stored.from # "absent"
    <3>1. /\ \A j \in Callers : caller[j] = "idle"
          /\ initialized'
          /\ initialized' \in BOOLEAN
          /\ UNCHANGED <<stored, version, queue, lastSaved, caller>>
      BY <2>3 DEF InitializeLookup, MayInitialize
    <3>2. ImportsExclude'
      BY <3>1 DEF ImportsExclude
    <3> QED
      BY <3>1, <3>2 DEF LivePriceIsCurrent
  <2> QED
    BY <1>1, <2>1, <2>2, <2>3
<1>2. ASSUME NEW e \in PriceEvents, PriceArrives(e)
      PROVE  FeedInv' /\ UNCHANGED <<stored, version>>
  BY <1>2 DEF PriceArrives, ImportsExclude, LivePriceIsCurrent
<1>3. CASE SaveSkipped \/ SaveFails
  <2>1. /\ queue # <<>> /\ queue' = Tail(queue)
        /\ UNCHANGED <<stored, version, lastSaved, initialized, caller>>
    BY <1>3 DEF SaveSkipped, SaveFails
  <2>2. queue' \in Seq(PriceEvents) /\ initialized
    BY <2>1 DEF ImportsExclude
  <2> QED
    BY <2>1, <2>2 DEF ImportsExclude, LivePriceIsCurrent
<1>4. CASE Restart
  <2>1. /\ queue' = <<>> /\ lastSaved' = Nothing /\ initialized' = FALSE
        /\ \A i \in Callers : caller'[i] = "idle"
        /\ caller' \in [Callers -> {"idle", "import"}]
        /\ UNCHANGED <<stored, version>>
    BY <1>4 DEF Restart
  <2>2. queue' \in Seq(PriceEvents)
    BY <2>1
  <2>3. ImportsExclude' /\ LivePriceIsCurrent'
    BY <2>1 DEF ImportsExclude, LivePriceIsCurrent
  <2> QED
    BY <2>1, <2>2, <2>3
<1> QED
  BY <1>1, <1>2, <1>3, <1>4 DEF FeedStep

-----------------------------------------------------------------------------
(* The socket. *)

SocketInv ==
  /\ refresh \in [Refreshes -> RefreshType]
  /\ client \in [Clients -> {"new", "open", "gone"}]
  /\ shown \in [Clients -> Nat \X Nat]
  /\ OneRefreshReads

\* Whose refresh is not idle.
LEMMA IdleOrReading ==
  ASSUME NEW q \in RefreshType
  PROVE  q = Idle <=> q.at = "idle"
BY DEF RefreshType, Idle

\* A refresh that starts, goes round again or ends has not read anything.
LEMMA Restarts ==
  ASSUME SocketInv, NEW r \in Refreshes, NEW q \in {Idle, [at |-> "rows"]},
         \A o \in Refreshes \ {r} : refresh[o] = Idle,
         refresh' = [refresh EXCEPT ![r] = q],
         client' \in [Clients -> {"new", "open", "gone"}],
         shown' \in [Clients -> Nat \X Nat],
         \A c \in Clients : shown'[c][1] <= version /\ shown'[c][2] <= version,
         UNCHANGED version
  PROVE  SocketInv'
<1> USE DEF SocketInv
<1>1. refresh' \in [Refreshes -> RefreshType]
  BY DEF RefreshType
<1>2. \A o \in Refreshes : refresh'[o] = IF o = r THEN q ELSE refresh[o]
  OBVIOUS
<1>3. \A o \in Refreshes : refresh'[o].at # "history"
  BY <1>2 DEF Idle
<1>4. OneRefreshReads'
  BY <1>2, <1>3 DEF OneRefreshReads, Idle
<1> QED
  BY <1>1, <1>4

\* A call of refresh.
LEMMA RefreshCalls ==
  ASSUME SocketInv, NEW open, Refresh(open),
         client' \in [Clients -> {"new", "open", "gone"}],
         UNCHANGED <<shown, version>>
  PROVE  SocketInv'
<1>1. CASE running \/ \A r \in Refreshes : refresh[r] # Idle
  <2>1. UNCHANGED refresh
    BY <1>1 DEF Refresh
  <2> QED
    BY <2>1 DEF SocketInv, OneRefreshReads
<1>2. CASE ~(running \/ \A r \in Refreshes : refresh[r] # Idle)
  <2> DEFINE r == CHOOSE r \in Refreshes : refresh[r] = Idle
  <2>1. r \in Refreshes /\ \A o \in Refreshes : refresh[o] = Idle
    BY <1>2 DEF running
  <2>2. PICK q \in {Idle, [at |-> "rows"]} : refresh' = [refresh EXCEPT ![r] = q]
    BY <1>2 DEF Refresh, Rounds
  <2> HIDE DEF r
  <2> QED
    BY <2>1, <2>2, Restarts DEF SocketInv, OneRefreshReads
<1> QED
  BY <1>1, <1>2

\* A commit of the tables.
LEMMA Notices ==
  ASSUME SocketInv, Notified, version \in Nat, version' = version + 1
  PROVE  SocketInv' /\ UNCHANGED shown
<1>1. UNCHANGED <<refresh, client, shown>>
  BY DEF Notified
<1>2. OneRefreshReads'
  <2>1. \A c \in Clients : shown[c][1] \in Nat /\ shown[c][2] \in Nat
    BY DEF SocketInv
  <2>2. \A r \in Refreshes : refresh[r].at = "history" => refresh[r].rows \in Nat
    BY DEF SocketInv, RefreshType, Idle
  <2> QED
    BY <1>1, <2>1, <2>2 DEF SocketInv, OneRefreshReads
<1> QED
  BY <1>1, <1>2 DEF SocketInv

\* The snapshots a step shows are no older.
ShownForward ==
  \A c \in Clients : shown'[c][1] >= shown[c][1] /\ shown'[c][2] >= shown[c][2]

\* The socket shows nothing older than it has shown, one refresh at a time.
LEMMA SocketSteps ==
  ASSUME SocketInv, SocketStep, version \in Nat, UNCHANGED version
  PROVE  SocketInv' /\ ShownForward
<1>1. \A c \in Clients : shown[c][1] \in Nat /\ shown[c][2] \in Nat
  BY DEF SocketInv
<1>2. ASSUME NEW r \in Refreshes, Show(r) PROVE SocketInv' /\ ShownForward
  <2>1. refresh[r].at = "history" /\ refresh[r] # Idle
    BY <1>2 DEF Show, Idle
  <2>2. refresh[r].rows \in Nat
    BY <2>1 DEF SocketInv, RefreshType, Idle
  <2>3. /\ refresh[r].rows <= version
        /\ \A c \in Clients : shown[c][1] <= refresh[r].rows /\ shown[c][2] <= version
    BY <2>1 DEF SocketInv, OneRefreshReads
  <2>4. \A c \in Clients : shown'[c] = IF c \in Opened THEN <<refresh[r].rows, version>>
                                                      ELSE shown[c]
    BY <1>2 DEF Show
  <2>5. ShownForward
    BY <1>1, <2>2, <2>3, <2>4 DEF ShownForward
  <2>6. shown' \in [Clients -> Nat \X Nat]
    BY <1>2, <2>2 DEF Show, SocketInv
  <2>7. \A c \in Clients : shown'[c][1] <= version /\ shown'[c][2] <= version
    BY <1>1, <2>2, <2>3, <2>4 DEF SocketInv, OneRefreshReads
  <2>8. PICK q \in {Idle, [at |-> "rows"]} : refresh' = [refresh EXCEPT ![r] = q]
    BY <1>2 DEF Show, Rounds
  <2>9. \A o \in Refreshes \ {r} : refresh[o] = Idle
    BY <2>1 DEF SocketInv, OneRefreshReads
  <2>10. UNCHANGED client
    BY <1>2 DEF Show
  <2>11. SocketInv'
    BY <2>6, <2>7, <2>8, <2>9, <2>10, Restarts DEF SocketInv
  <2> QED
    BY <2>5, <2>11
<1>3. ASSUME NEW r \in Refreshes, ReadFails(r) PROVE SocketInv' /\ ShownForward
  <2>1. \A o \in Refreshes \ {r} : refresh[o] = Idle
    BY <1>3 DEF ReadFails, SocketInv, OneRefreshReads
  <2>2. refresh' = [refresh EXCEPT ![r] = Idle] /\ UNCHANGED <<client, shown>>
    BY <1>3 DEF ReadFails
  <2>3. SocketInv'
    BY <2>1, <2>2, Restarts DEF SocketInv, OneRefreshReads
  <2> QED
    BY <1>1, <2>2, <2>3 DEF ShownForward
<1>4. ASSUME NEW r \in Refreshes, ReadRows(r) PROVE SocketInv' /\ ShownForward
  <2>1. /\ refresh[r] # Idle
        /\ refresh' = [refresh EXCEPT ![r] = [at |-> "history", rows |-> version]]
        /\ UNCHANGED <<client, shown>>
    BY <1>4 DEF ReadRows, Idle
  <2>2. \A o \in Refreshes \ {r} : refresh[o] = Idle
    BY <2>1 DEF SocketInv, OneRefreshReads
  <2>3. \A o \in Refreshes : refresh'[o] =
          IF o = r THEN [at |-> "history", rows |-> version] ELSE refresh[o]
    BY <2>1 DEF SocketInv
  <2>4. refresh' \in [Refreshes -> RefreshType]
    BY <2>1 DEF SocketInv, RefreshType
  <2>5. OneRefreshReads'
    BY <2>1, <2>2, <2>3 DEF SocketInv, OneRefreshReads, Idle
  <2> QED
    BY <1>1, <2>1, <2>4, <2>5 DEF SocketInv, ShownForward
<1>5. CASE RetryFires \/ NoticeArrives \/ ListenAnswered
  <2>1. Refresh(Opened) /\ UNCHANGED <<client, shown>>
    BY <1>5 DEF RetryFires, NoticeArrives, ListenAnswered, Resync
  <2>2. SocketInv'
    BY <2>1, RefreshCalls DEF SocketInv
  <2> QED
    BY <1>1, <2>1, <2>2 DEF ShownForward
<1>6. CASE ListenerConnects \/ Listen \/ ListenerLost
  <2>1. UNCHANGED <<refresh, client, shown>>
    BY <1>6 DEF ListenerConnects, Listen, ListenerLost
  <2> QED
    BY <1>1, <2>1 DEF SocketInv, OneRefreshReads, ShownForward
<1>7. ASSUME NEW c \in Clients, ClientConnects(c) PROVE SocketInv' /\ ShownForward
  <2>1. /\ Refresh(Opened \cup {c}) /\ UNCHANGED shown
        /\ client' \in [Clients -> {"new", "open", "gone"}]
    BY <1>7 DEF ClientConnects, SocketInv
  <2>2. SocketInv'
    BY <2>1, RefreshCalls
  <2> QED
    BY <1>1, <2>1, <2>2 DEF ShownForward
<1>8. ASSUME NEW c \in Clients, ClientLeaves(c) PROVE SocketInv' /\ ShownForward
  <2>1. /\ UNCHANGED <<refresh, shown>>
        /\ client' \in [Clients -> {"new", "open", "gone"}]
    BY <1>8 DEF ClientLeaves, SocketInv
  <2> QED
    BY <1>1, <2>1 DEF SocketInv, OneRefreshReads, ShownForward
<1> QED
  BY <1>2, <1>3, <1>4, <1>5, <1>6, <1>7, <1>8 DEF SocketStep

-----------------------------------------------------------------------------
(* The theorems. *)

\* The invariant of the feed and that of the socket are independent.
LEMMA Parts ==
  /\ MarketInv <=> FeedInv /\ SocketInv
  /\ MarketInv' <=> FeedInv' /\ SocketInv'
BY DEF MarketInv, MarketTypeOK, FeedInv, SocketInv, RefreshType

\* Nothing is imported, read or shown at first.
LEMMA InitiallyApart == MarketInit => MarketInv
<1> SUFFICES ASSUME MarketInit PROVE FeedInv /\ SocketInv
  BY Parts
<1>1. FeedInv
  <2>1. /\ \/ stored = [from |-> "absent", event |-> Nothing] /\ version = 0
           \/ stored = [from |-> "quote", event |-> Nothing] /\ version = 1
        /\ queue = <<>> /\ lastSaved = Nothing /\ initialized = FALSE
        /\ caller = [i \in Callers |-> "idle"]
    BY DEF MarketInit, FeedInit, TablesInit, Stored
  <2>2. queue \in Seq(PriceEvents) /\ caller \in [Callers -> {"idle", "import"}]
    BY <2>1
  <2>3. ImportsExclude /\ LivePriceIsCurrent
    BY <2>1 DEF ImportsExclude, LivePriceIsCurrent
  <2>4. /\ stored \in [from: {"absent", "quote", "api", "live"},
                       event: PriceEvents \cup {Nothing}]
        /\ version \in Nat /\ stored.from # "live"
    BY <2>1
  <2>5. initialized \in BOOLEAN /\ lastSaved \in PriceEvents \cup {Nothing}
    BY <2>1
  <2> QED
    BY <2>2, <2>3, <2>4, <2>5 DEF FeedInv
<1>2. SocketInv
  <2>1. /\ \A r \in Refreshes : refresh[r] = Idle
        /\ \A c \in Clients : shown[c] = <<0, 0>>
        /\ version \in Nat
    BY DEF MarketInit, FeedInit, TablesInit, SocketInit
  <2>2. OneRefreshReads
    BY <2>1 DEF OneRefreshReads, Idle
  <2> QED
    BY <2>2 DEF MarketInit, SocketInit, SocketInv, RefreshType
<1> QED
  BY <1>1, <1>2

\* A step of the market keeps both invariants and what the properties ask.
LEMMA MarketMoves ==
  ASSUME MarketInv, [MarketNext]_marketVars
  PROVE  /\ MarketInv' /\ ShownForward
         /\ stored.from = "live" => stored'.from # "quote"
<1>1. FeedInv /\ SocketInv /\ version \in Nat
  BY Parts DEF FeedInv
<1>2. \A c \in Clients : shown[c][1] \in Nat /\ shown[c][2] \in Nat
  BY <1>1 DEF SocketInv
<1>3. UNCHANGED shown => ShownForward
  BY <1>2 DEF ShownForward
<1>4. CASE FeedCommit /\ Notified
  BY <1>1, <1>3, <1>4, FeedCommits, Notices, Parts
<1>5. CASE FeedStep /\ UNCHANGED socketVars
  <2>1. FeedInv' /\ UNCHANGED <<stored, version>>
    BY <1>1, <1>5, FeedSteps
  <2>2. UNCHANGED <<refresh, client, shown>>
    BY <1>5 DEF socketVars
  <2>3. SocketInv'
    BY <1>1, <2>1, <2>2 DEF SocketInv, OneRefreshReads
  <2> QED
    BY <1>3, <2>1, <2>2, <2>3, Parts
<1>6. CASE SocketStep /\ UNCHANGED feedVars
  <2>1. UNCHANGED <<stored, version, queue, lastSaved, initialized, caller>>
    BY <1>6 DEF feedVars, tableVars
  <2>2. SocketInv' /\ ShownForward
    BY <1>1, <1>6, <2>1, SocketSteps
  <2>3. FeedInv'
    BY <1>1, <2>1 DEF FeedInv, ImportsExclude, LivePriceIsCurrent
  <2> QED
    BY <2>1, <2>2, <2>3, Parts
<1>7. CASE UNCHANGED marketVars
  <2>1. /\ UNCHANGED <<stored, version, queue, lastSaved, initialized, caller>>
        /\ UNCHANGED <<refresh, client, shown>>
    BY <1>7 DEF marketVars, feedVars, tableVars, socketVars
  <2>2. FeedInv' /\ SocketInv'
    BY <1>1, <2>1
    DEF FeedInv, ImportsExclude, LivePriceIsCurrent, SocketInv, OneRefreshReads
  <2> QED
    BY <1>3, <2>1, <2>2, Parts
<1> QED
  BY <1>4, <1>5, <1>6, <1>7 DEF MarketNext

\* What the feed, the tables, the refreshes and the clients know of each other
\* agrees, whatever streams repeat, saves fail, and processes stop.
THEOREM MarketInvariant == MarketSpec => []MarketInv
<1>1. MarketInv /\ [MarketNext]_marketVars => MarketInv'
  BY MarketMoves
<1> QED
  BY <1>1, InitiallyApart, PTL DEF MarketSpec

\* The stored live price is not older than the last event known to be saved.
THEOREM LivePriceCurrent == MarketSpec => []LivePriceIsCurrent
<1>1. MarketInv => LivePriceIsCurrent
  BY DEF MarketInv
<1> QED
  BY <1>1, MarketInvariant, PTL

\* No client is shown an older version after a newer one.
THEOREM SnapshotsForward == MarketSpec => SnapshotsMoveForward
<1>1. MarketInv /\ [MarketNext]_marketVars =>
        [\A c \in Clients :
           shown'[c][1] >= shown[c][1] /\ shown'[c][2] >= shown[c][2]]_marketVars
  BY MarketMoves DEF ShownForward
<1> QED
  BY <1>1, MarketInvariant, PTL DEF MarketSpec, SnapshotsMoveForward

\* A quote never replaces a price of the stream.
THEOREM QuoteFirst == MarketSpec => QuoteComesFirst
<1>1. MarketInv /\ [MarketNext]_marketVars =>
        [stored.from = "live" => stored'.from # "quote"]_marketVars
  BY MarketMoves
<1> QED
  BY <1>1, MarketInvariant, PTL DEF MarketSpec, QuoteComesFirst
=============================================================================
