--------------------------- MODULE MCCheckpointer ---------------------------
EXTENDS Checkpointer

Tree(kind, parent) == [kind |-> kind, parent |-> parent]

(* A thread and its node, a fork of two nodes, a node and its expert, a    *)
(* call of two tools, a graph that has not started.                        *)
MCTrees == {Tree(<<"Thread", "Node">>, <<0, 1>>),
            Tree(<<"Span", "Node", "Node">>, <<0, 1, 1>>),
            Tree(<<"Node", "Expert">>, <<0, 1>>),
            Tree(<<"ToolAggregator", "Tool", "Tool">>, <<0, 1, 1>>),
            Tree(<<"Graph">>, <<0>>)}

(* A graph whose frames keep the largest of the results below them, and    *)
(* export a note that none of them imports.                                *)
MCGraphCommon ==
  CommonSpec([ch \in {"result", "note"} |-> IF ch = "result" THEN "Max" ELSE "LastWriteWins"],
             {"result", "tool_result", "expert_answer"}, {"result", "note"})
=============================================================================
