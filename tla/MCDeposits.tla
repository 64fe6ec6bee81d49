----------------------------- MODULE MCDeposits -----------------------------
(* Deposits on small instances: one customer with a EUR account, another with
   a USD account, deposits in USD. *)
EXTENDS Deposits

CONSTANTS u1, u2, a1, b1

MCOwner == [a \in Accounts |-> IF a = a1 THEN u1 ELSE u2]
MCAccountCurrency == [a \in Accounts |-> IF a = a1 THEN "EUR" ELSE "USD"]
MCRates == {[num |-> 1, den |-> 3], [num |-> 2, den |-> 1]}
MCOneRate == {[num |-> 2, den |-> 1]}
MCOpeningBalance == [a \in Accounts |-> 0]
=============================================================================
