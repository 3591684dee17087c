----------------------------- MODULE MCRegistry -----------------------------
(***************************************************************************)
(* Small instances of Registry and of the claims about it.  Records,       *)
(* handlers and retries are interchangeable.                               *)
(***************************************************************************)
EXTENDS RegistryClaims, TLC

Symmetry == Permutations(State) \cup Permutations(Proc) \cup Permutations(Retrier)

=============================================================================
