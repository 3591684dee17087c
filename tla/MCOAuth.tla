------------------------------ MODULE MCOAuth -------------------------------
(* A small instance of OAuth: operations and clients are interchangeable. *)
EXTENDS OAuth, TLC

Symmetry == Permutations(Op) \cup Permutations(Client)

=============================================================================
