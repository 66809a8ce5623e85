SPECIFICATION Spec
CONSTANTS
  MaxFrames = 5
  MaxJobs = 3
  MaxRequests = 2
  Trees <- MCTrees
  GraphCommon <- MCGraphCommon
  NodeWrites = {"result", "note"}
INVARIANTS TerminationReachesParent NoStrandedFrame SnapshotsHaveNoGap ValuesComeFromBelow
PROPERTIES JoinWaitsForAll
CHECK_DEADLOCK FALSE
