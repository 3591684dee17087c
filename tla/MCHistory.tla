----------------------------- MODULE MCHistory -----------------------------
(* History for TLC: connections, servers and databases are interchangeable. *)
EXTENDS History

MCLimits == {-1, 0, 3}

Symmetry == Permutations(Handler) \cup Permutations(Server) \cup Permutations(Db)

=============================================================================
