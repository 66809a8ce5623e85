\* One session, two holders, three replicas of which one restarts once; a
\* lease may run out.
CONSTANTS
  Session = {s1}
  Node = {n1, n2}
  TTL = {1}
  NoLease = NoLease
  Replica = {r1, r2, r3}
  NoLeader = NoLeader
  NoSnapshot = NoSnapshot
  MaxTime = 2
  MaxLog = 4
  MaxRestarts = 1
  MaxTerm = 2
SYMMETRY Symmetry
SPECIFICATION Spec
INVARIANT EpochNeverReissued
CHECK_DEADLOCK FALSE
