------------------------- MODULE MCManagedOnboarding -------------------------
(* TLC instance of ManagedOnboarding. *)
EXTENDS ManagedOnboarding, TLC

Symmetry == Permutations(Ids) \cup Permutations(Tokens) \cup Permutations(Finalizers)
=============================================================================
