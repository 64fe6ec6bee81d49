---------------------------- MODULE CryptoTables ----------------------------
(* The rows of one symbol in the tables Crypto and CryptoPriceHistory.  Each
   transaction on them makes a new version; a price is known by what wrote it. *)
EXTENDS Naturals

CONSTANTS
  Times,       \* timestamps a price event may carry
  Prices,      \* prices it may carry
  MaxVersion,  \* bound on the commits
  Nothing

PriceEvents == [time: Times, price: Prices]

ASSUME TablesAssumption ==
  /\ Times \subseteq Nat \ {0}
  /\ MaxVersion \in Nat
  /\ Nothing \notin PriceEvents

VARIABLES
  stored,   \* what the price in the Crypto row comes from
  version   \* how many transactions have changed the tables

tableVars == <<stored, version>>

\* There is no row, or the price is from a quote, the API, or an event.
Stored(from, event) == [from |-> from, event |-> event]

\* An empty table, or one that has its row.
TablesInit ==
  \/ stored = Stored("absent", Nothing) /\ version = 0
  \/ stored = Stored("quote", Nothing) /\ version = 1

\* A transaction on the row and its history.
Commits(from, event) ==
  /\ version < MaxVersion
  /\ version' = version + 1
  /\ stored' = Stored(from, event)
=============================================================================
