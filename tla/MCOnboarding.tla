---------------------------- MODULE MCOnboarding ----------------------------
(* Onboarding on small instances. *)
EXTENDS Onboarding, TLC

MCSymmetry == Permutations(Handlers) \cup Permutations(Forms)
              \cup Permutations(Sessions) \cup Permutations(Documents)
=============================================================================
