\* One duration: nobody's lease is ever shortened behind its back.
CONSTANTS
  Session = {s1}
  Node = {n1, n2}
  TTL = {2}
  NoLease = NoLease
  MaxTime = 5
  MaxRequests = 4
SYMMETRY Symmetry
SPECIFICATION Spec
INVARIANTS TypeOK EpochGrantedOnce MutualExclusion HolderIsProtected
PROPERTY LockSpec
CHECK_DEADLOCK FALSE
