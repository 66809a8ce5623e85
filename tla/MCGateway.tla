------------------------------ MODULE MCGateway ------------------------------
EXTENDS Gateway

Mix(ops, commands, fail, ends) ==
  [ops |-> ops, commands |-> commands, fail |-> fail, ends |-> ends]

MCMixes ==
  {Mix({"AccessWorkspace", "CreateSession"}, 3, 2, 0),
   Mix({"AccessWorkspace", "CreateSession", "RemoveWorkspace"}, 4, 1, 0),
   Mix({"AccessSession", "AppendSessionLog", "RemoveSession"}, 3, 0, 0),
   Mix({"CreateWorkspace", "CreateSession"}, 2, 1, 1),
   Mix({"AccessWorkspace", "RemoveWorkspace"} \cup MemberOps, 2, 0, 1),
   Mix({"AccessSession"} \cup SessionOps, 2, 0, 0),
   Mix({"AccessWorkspace"} \cup WorkspaceOps, 2, 0, 0)}

MCStored == [w \in Workspaces |-> IF w = "w1" THEN {"s1"} ELSE {}]
=============================================================================
