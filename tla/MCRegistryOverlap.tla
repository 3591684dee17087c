-------------------------- MODULE MCRegistryOverlap -------------------------
(* Small instances of Registry with its history variable. *)
EXTENDS RegistryOverlap, TLC

Symmetry == Permutations(State) \cup Permutations(Proc) \cup Permutations(Retrier)

=============================================================================
