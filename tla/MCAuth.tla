------------------------------- MODULE MCAuth -------------------------------
(* Authentication on small instances. *)
EXTENDS Auth, TLC

MCSymmetry == Permutations(Handlers) \cup Permutations(Forms)
              \cup Permutations(Sessions)
=============================================================================
