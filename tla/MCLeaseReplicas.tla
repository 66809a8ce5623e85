--------------------------- MODULE MCLeaseReplicas --------------------------
(* LeaseReplicas on small instances.  Replicas and nodes are each           *)
(* interchangeable.                                                        *)
EXTENDS LeaseReplicas, TLC

Symmetry == Permutations(Node) \cup Permutations(Replica)
=============================================================================
