------------------------------ MODULE MCFunds ------------------------------
(* The whole funds component: a customer with a USD and an EUR account, and
   another customer with a USD account. *)
EXTENDS Funds, TLC

CONSTANTS u1, u2, a1, a2, b1

MCOwner == [a \in Accounts |-> IF a = b1 THEN u2 ELSE u1]
MCAccountCurrency == [a \in Accounts |-> IF a = a2 THEN "EUR" ELSE "USD"]

\* One cent converts to nothing, and to two cents (one and a half).
MCRates == {[num |-> 1, den |-> 3], [num |-> 3, den |-> 2]}

\* One USD cent, which two requests may both want, and two EUR cents, so that two
\* withdrawals may wait for one account at once.  A EUR cent is worth two USD cents,
\* above the threshold, or none.
MCOpeningBalance ==
  [a \in Accounts |-> CASE a = a1 -> 1 [] a = a2 -> 2 [] OTHER -> 0]

MCSymmetry == Permutations(Requests) \cup Permutations(Keys)
=============================================================================
