--------------------------- MODULE MCLeaseService ---------------------------
(* LeaseService on small instances.  Nodes are interchangeable. *)
EXTENDS LeaseService, TLC

Symmetry == Permutations(Node)
=============================================================================
