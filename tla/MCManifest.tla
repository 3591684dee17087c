----------------------------- MODULE MCManifest -----------------------------
(* A small instance of Manifest: the manifest becomes shorter, then longer. *)
EXTENDS Manifest

Sizes == [v \in 0..MaxVersion |-> IF v = 1 THEN 1 ELSE 2]

=============================================================================
