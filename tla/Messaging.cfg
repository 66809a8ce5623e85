SPECIFICATION MessagingSpec
CONSTANTS
  n1 = n1
  n2 = n2
  Nodes <- MCNodes
  Here = n1
  Default = Default
  Names = {"echo"}
  Capacity = 2
  MaxInputs <- MCInputs
INVARIANTS  WaitingCallIsUnderWay StreamGivesEventsOnce
CHECK_DEADLOCK FALSE
