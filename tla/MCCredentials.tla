--------------------------- MODULE MCCredentials ---------------------------
(* Credentials for TLC: endpoints are interchangeable. *)
EXTENDS Credentials, TLC

Symmetry == Permutations(Endpoint)

=============================================================================
