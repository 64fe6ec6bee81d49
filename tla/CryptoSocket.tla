---------------------------- MODULE CryptoSocket ----------------------------
(* attachCryptoSocket and listenForCryptoChanges: how every open client is
   shown the newest version of the crypto tables.  Code between two awaits is
   one step.  A snapshot is two queries, so its rows and its histories may be
   of different versions.  Heartbeats and full buffers only end clients. *)
EXTENDS CryptoTables

CONSTANTS
  Clients,     \* WebSocket connections
  Refreshes    \* calls of refresh that may be past its guard

VARIABLES
  listener,  \* the connection that listens for crypto_changed
  notices,   \* notifications on their way to it
  dirty,     \* dirty and retry of attachCryptoSocket
  retry,
  refresh,   \* where each call of refresh is; running says that one is
  client,    \* connections, and
  shown      \* the snapshot each was sent last: versions of rows and history

socketVars == <<listener, notices, dirty, retry, refresh, client, shown>>

Idle == [at |-> "idle"]
Opened == {c \in Clients : client[c] = "open"}

SocketInit ==
  /\ listener = "down"
  /\ notices = 0
  /\ dirty = FALSE
  /\ retry = FALSE
  /\ refresh = [r \in Refreshes |-> Idle]
  /\ client = [c \in Clients |-> "new"]
  /\ shown = [c \in Clients |-> <<0, 0>>]

-----------------------------------------------------------------------------
(* refresh. *)

\* Mutant: nothing keeps two refreshes apart.
NeverRunning == FALSE

running == \E r \in Refreshes : refresh[r] # Idle

\* The loop goes round, up to the first await: nobody to show to, no query.
Rounds(r, open) ==
  /\ dirty' = FALSE
  /\ refresh' = [refresh EXCEPT
       ![r] = IF open = {} THEN Idle ELSE [at |-> "rows"]]

\* A call of refresh.  While running keeps calls apart there is always an idle one.
Refresh(open) ==
  IF running \/ \A r \in Refreshes : refresh[r] # Idle
    THEN dirty' = TRUE /\ UNCHANGED refresh
    ELSE Rounds(CHOOSE r \in Refreshes : refresh[r] = Idle, open)

\* getCryptoSnapshot: the rows, and then their histories.
ReadRows(r) ==
  /\ refresh[r].at = "rows"
  /\ refresh' = [refresh EXCEPT ![r] = [at |-> "history", rows |-> version]]
  /\ UNCHANGED <<listener, notices, dirty, retry, client, shown>>

\* The histories have arrived: send, and look whether to go round again.
Show(r) ==
  /\ refresh[r].at = "history"
  /\ shown' = [c \in Clients |-> IF c \in Opened
                 THEN <<refresh[r].rows, version>> ELSE shown[c]]
  /\ IF dirty THEN Rounds(r, Opened)
              ELSE refresh' = [refresh EXCEPT ![r] = Idle] /\ UNCHANGED dirty
  /\ UNCHANGED <<listener, notices, retry, client>>

\* A read that fails is repeated after two seconds.
ReadFails(r) ==
  /\ refresh[r] # Idle
  /\ refresh' = [refresh EXCEPT ![r] = Idle]
  /\ retry' = TRUE
  /\ UNCHANGED <<listener, notices, dirty, client, shown>>

RetryFires ==
  /\ retry
  /\ retry' = FALSE
  /\ Refresh(Opened)
  /\ UNCHANGED <<listener, notices, client, shown>>

-----------------------------------------------------------------------------
(* The listener, and what a commit does to it. *)

ListenerConnects ==
  /\ listener = "down"
  /\ listener' = "connected"
  /\ UNCHANGED <<notices, dirty, retry, refresh, client, shown>>

\* LISTEN takes effect in the database before its answer arrives.
Listen ==
  /\ listener = "connected"
  /\ listener' = "subscribed"
  /\ UNCHANGED <<notices, dirty, retry, refresh, client, shown>>

\* Mutant: no refresh after a reconnection.
NoResync == UNCHANGED <<dirty, refresh>>

Resync == Refresh(Opened)

ListenAnswered ==
  /\ listener = "subscribed"
  /\ listener' = "listening"
  /\ Resync
  /\ UNCHANGED <<notices, retry, client, shown>>

\* NOTIFY does not replay what a lost connection missed.
ListenerLost ==
  /\ listener # "down"
  /\ listener' = "down"
  /\ notices' = 0
  /\ UNCHANGED <<dirty, retry, refresh, client, shown>>

\* The triggers notify whoever listens when the transaction commits.
Notified ==
  /\ notices' = IF listener \in {"subscribed", "listening"}
                  THEN notices + 1 ELSE notices
  /\ UNCHANGED <<listener, dirty, retry, refresh, client, shown>>

NoticeArrives ==
  /\ notices > 0
  /\ notices' = notices - 1
  /\ Refresh(Opened)
  /\ UNCHANGED <<listener, retry, client, shown>>

-----------------------------------------------------------------------------
(* Clients. *)

ClientConnects(c) ==
  /\ client[c] = "new"
  /\ client' = [client EXCEPT ![c] = "open"]
  /\ Refresh(Opened \cup {c})
  /\ UNCHANGED <<listener, notices, retry, shown>>

ClientLeaves(c) ==
  /\ client[c] = "open"
  /\ client' = [client EXCEPT ![c] = "gone"]
  /\ UNCHANGED <<listener, notices, dirty, retry, refresh, shown>>

SocketStep ==
  \/ \E r \in Refreshes : ReadRows(r) \/ Show(r) \/ ReadFails(r)
  \/ RetryFires \/ NoticeArrives
  \/ ListenerConnects \/ Listen \/ ListenAnswered \/ ListenerLost
  \/ \E c \in Clients : ClientConnects(c) \/ ClientLeaves(c)
=============================================================================
