-------------------------- MODULE MCSecretRotation --------------------------
(* SecretRotation on small instances.  Nodes are interchangeable. *)
EXTENDS SecretRotation, TLC

Symmetry == Permutations(Node)
=============================================================================
