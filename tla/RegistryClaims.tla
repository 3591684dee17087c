--------------------------- MODULE RegistryClaims ---------------------------
(***************************************************************************)
(* A statement that the repository's README makes about the registry, and  *)
(* that the registry does not keep: its run ends in a counterexample.      *)
(***************************************************************************)
EXTENDS Registry

\* README.md:342: "Auth-required servers do **not** auto-retry; complete the login
\* flow first."  A retry that fires does not attempt a server in auth_required.
AuthRequiredNotRetried ==
  [][\A r \in Retrier, s \in Server :
       /\ RetryFires(r)
       /\ srv[r] = s /\ Configured(s)
       => ~AuthRequired(s)]_vars

=============================================================================
