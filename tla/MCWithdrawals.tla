--------------------------- MODULE MCWithdrawals ---------------------------
(* Withdrawals on small instances: two customers, one account each, of which
   one is not kept in USD. *)
EXTENDS Withdrawals, TLC

CONSTANTS u1, u2, a1, a2, r1, r2

MCOwner == [a \in Accounts |-> IF a = a1 THEN u1 ELSE u2]
MCAccountCurrency == [a \in Accounts |-> IF a = a1 THEN "USD" ELSE "EUR"]

\* 0.4, 1.4 and 3.0 cents: refused as zero, below and above the threshold.
MCAmounts == {4, 14, 30}
MCRates == {[num |-> 1, den |-> 3], [num |-> 2, den |-> 1]}
MCOpeningBalance == [a \in Accounts |-> IF a = a1 THEN 4 ELSE 3]

MCSymmetry == Permutations(Requests)
=============================================================================
