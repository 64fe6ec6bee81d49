---------------------------- MODULE MCEmailOutbox ----------------------------
(* The outbox on small instances: the first event is a reminder, the others are
   notices of a changed password. *)
EXTENDS EmailOutbox, TLC

MCKind == [e \in Events |->
  IF e = 1 THEN "kyc-reminder-email" ELSE "password-changed-email"]

MCSymmetry == Permutations(Workers) \cup Permutations(Dispatchers)
=============================================================================
