------------------------------- MODULE Ledger -------------------------------
(***************************************************************************)
(* What the funds component promises, without requests, retries, provider  *)
(* sessions or reserve counters: a book of entries over account balances.  *)
(* An entry is made at most once per customer and key.  An outgoing entry  *)
(* first holds its amount, and holds never exceed the balance; an incoming *)
(* one adds to the balance when it is done.  A done or void entry stays.   *)
(***************************************************************************)
EXTENDS Integers, FiniteSets, FiniteSetsExt

CONSTANTS
  Ids,         \* of entries
  Customers,
  EntryKeys,
  Places,      \* accounts
  Opening,     \* balance of every account at first
  Sums         \* amounts of money an entry may move

VARIABLES
  funds,    \* balance of every account
  entry,    \* entries by id
  maker     \* the customer and key an entry was made for

ledgerVars == <<funds, entry, maker>>

NoEntry == [state |-> "none"]
Nobody == <<>>

Entry(kind, a, x, state) ==
  [kind |-> kind, account |-> a, amount |-> x, state |-> state]

Entries == {i \in Ids : entry[i].state # "none"}

Holds(a) ==
  {i \in Entries : /\ entry[i].kind = "out"
                   /\ entry[i].account = a
                   /\ entry[i].state = "pending"}
Held(a) == SumFunctionOnSet([i \in Entries |-> entry[i].amount], Holds(a))

LedgerInit ==
  /\ funds = Opening
  /\ entry = [i \in Ids |-> NoEntry]
  /\ maker = [i \in Ids |-> Nobody]

\* Entry i is made for a customer and a key that made no other; it is one of
\* Expect, Hold and Move.
Make(i, m) ==
  /\ entry[i] = NoEntry
  /\ \A j \in Entries : maker[j] # m
  /\ maker' = [maker EXCEPT ![i] = m]

Expect(i, a, x) ==
  /\ x > 0
  /\ entry' = [entry EXCEPT ![i] = Entry("in", a, x, "pending")]
  /\ UNCHANGED funds

Hold(i, a, x) ==
  /\ x > 0
  /\ funds[a] - Held(a) >= x
  /\ entry' = [entry EXCEPT ![i] = Entry("out", a, x, "pending")]
  /\ UNCHANGED funds

\* A transfer: x leaves a, y reaches b, in one step.
Move(i, a, x, b, y) ==
  /\ a # b /\ x > 0 /\ y > 0
  /\ funds[a] - Held(a) >= x
  /\ funds' = [funds EXCEPT ![a] = @ - x, ![b] = @ + y]
  /\ entry' = [entry EXCEPT ![i] = Entry("move", a, x, "done")]

Finish(i) ==
  /\ entry[i].state = "pending"
  /\ entry' = [entry EXCEPT ![i].state = "done"]
  /\ funds' = [funds EXCEPT ![entry[i].account] =
                 IF entry[i].kind = "in" THEN @ + entry[i].amount
                                         ELSE @ - entry[i].amount]
  /\ UNCHANGED maker

Void(i) ==
  /\ entry[i].state = "pending"
  /\ entry[i].kind = "out"
  /\ entry' = [entry EXCEPT ![i].state = "void"]
  /\ UNCHANGED <<funds, maker>>

LedgerNext ==
  \E i \in Ids :
    \/ Finish(i)
    \/ Void(i)
    \/ /\ \E m \in Customers \X EntryKeys : Make(i, m)
       /\ \E a \in Places, x \in Sums :
            \/ Expect(i, a, x)
            \/ Hold(i, a, x)
            \/ \E b \in Places, y \in Sums : Move(i, a, x, b, y)

LedgerSpec == LedgerInit /\ [][LedgerNext]_ledgerVars
=============================================================================
