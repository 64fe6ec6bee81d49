------------------------------- MODULE Market -------------------------------
(* From the price feed to the screens: what commits a price, the notice the
   triggers send, and the socket that reads and shows the tables.  Closing the
   WebSocket server, which ends all of it, is left out. *)
EXTENDS PriceFeed, CryptoSocket

marketVars == <<feedVars, socketVars>>

MarketInit == FeedInit /\ SocketInit

MarketNext ==
  \/ FeedCommit /\ Notified
  \/ FeedStep /\ UNCHANGED socketVars
  \/ SocketStep /\ UNCHANGED feedVars

MarketSpec == MarketInit /\ [][MarketNext]_marketVars

\* The socket's timers fire, its connection is tried again and not refused
\* forever, and not every query fails.  Nobody has to change a price, to connect
\* or to stay.
Step(A) == A /\ UNCHANGED feedVars

MarketFairness ==
  /\ WF_marketVars(Step(RetryFires))
  /\ WF_marketVars(Step(ListenerConnects))
  /\ SF_marketVars(Step(Listen))
  /\ SF_marketVars(Step(ListenAnswered))
  /\ WF_marketVars(Step(NoticeArrives))
  /\ SF_marketVars(\E r \in Refreshes : Step(ReadRows(r)))
  /\ SF_marketVars(\E r \in Refreshes : Step(Show(r)))

FairMarketSpec == MarketSpec /\ MarketFairness

-----------------------------------------------------------------------------
(* The inductive invariant. *)

MarketTypeOK ==
  /\ stored \in [from: {"absent", "quote", "api", "live"},
                event: PriceEvents \cup {Nothing}]
  /\ version \in Nat
  /\ queue \in Seq(PriceEvents)
  /\ lastSaved \in PriceEvents \cup {Nothing}
  /\ initialized \in BOOLEAN
  /\ caller \in [Callers -> {"idle", "import"}]
  /\ refresh \in [Refreshes -> {Idle} \cup [at: {"rows"}]
                                 \cup [at: {"history"}, rows: Nat]]
  /\ client \in [Clients -> {"new", "open", "gone"}]
  /\ shown \in [Clients -> Nat \X Nat]

\* Until a process has its row it imports one at most, and saves nothing.
ImportsExclude ==
  /\ \A i, j \in Callers : caller[i] = "import" /\ caller[j] = "import" => i = j
  /\ ~initialized => queue = <<>>
  /\ \A i \in Callers :
       caller[i] = "import" => ~initialized /\ stored.from # "live"

\* One refresh reads at a time, and nobody has seen more than it reads.
OneRefreshReads ==
  /\ \A q, r \in Refreshes : refresh[q] # Idle /\ refresh[r] # Idle => q = r
  /\ \A c \in Clients : shown[c][1] <= version /\ shown[c][2] <= version
  /\ \A r \in Refreshes : refresh[r].at = "history" =>
       /\ refresh[r].rows <= version
       /\ \A c \in Clients : shown[c][1] <= refresh[r].rows

-----------------------------------------------------------------------------
(* Properties. *)

ShowsAll(c) == shown[c] = <<version, version>>

\* CRYPTO_API.md: "The server sends a snapshot immediately and after committed
\* changes".  Every committed change is shown to every client that stays, for
\* all notices that come while a read is under way, are lost with a connection
\* or meet a failing query: again and again, an open client is up to date.
EveryChangeIsShown ==
  \A c \in Clients :
    client[c] = "open" ~> ShowsAll(c) \/ client[c] = "gone"

\* No client is shown an older version after a newer one: what the running
\* flag is for.
SnapshotsMoveForward ==
  [][\A c \in Clients :
       shown'[c][1] >= shown[c][1] /\ shown'[c][2] >= shown[c][2]]_marketVars

\* The stored live price is not older than the last event known to be saved.
LivePriceIsCurrent ==
  stored.from = "live" /\ lastSaved # Nothing
    => stored.event.time >= lastSaved.time

\* The process that imports a quote does not save prices yet, and clients have
\* seen no more than the one refresh that reads.
MarketInv ==
  /\ MarketTypeOK
  /\ stored.from = "live" => stored.event # Nothing
  /\ ImportsExclude
  /\ OneRefreshReads
  /\ LivePriceIsCurrent

\* The first quote, fetched while prices may already stream, never replaces one
\* of them.
QuoteComesFirst ==
  [][stored.from = "live" => stored'.from # "quote"]_marketVars
=============================================================================
