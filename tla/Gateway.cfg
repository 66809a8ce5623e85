SPECIFICATION Spec
CONSTANTS
  Conns = {c1, c2}
  Sessions = {"s1", "s2"}
  Workspaces = {"w1", "w2"}
  Stored <- MCStored
  None = None
  Capacity = 2
  Mixes <- MCMixes
INVARIANTS
  RelayedAfterGrant
  RepliesInOrder
  ReferenceHasRecord
PROPERTIES
  ClosedActorEnds
CHECK_DEADLOCK FALSE
