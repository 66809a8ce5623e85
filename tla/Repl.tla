-------------------------------- MODULE Repl --------------------------------
(***************************************************************************)
(* The command line (marie-cli): a stack of states, of which the top says  *)
(* which commands there are, over the models, experts, tools and graphs of *)
(* a LocalMarie.  A command that awaits holds the loop until it answers;   *)
(* in the meantime another process works on the same catalog.              *)
(*                                                                         *)
(* LiveSession models what happens in a session once it is attached.  Here *)
(* a session that was just created has no row to be found by, so that      *)
(* run_live prints an error and comes back.                                *)
(***************************************************************************)
EXTENDS Models, TLC

CONSTANTS Cli, Other,   \* the two callers of the catalog
          Node,         \* NodeId
          Start,        \* the entry of a new graph
          Channel,      \* ChannelName
          Reducer,
          Prompt,       \* prompts of experts
          Bounds        \* how many commands of each sort are given

ASSUME ReplAssumption ==
  /\ Caller = {Cli, Other} /\ Cli # Other
  /\ Start \in Node
  /\ Bounds \subseteq [{"connects", "commands", "edits", "others"} -> Nat]

(* The lists of CommonSpec a channel may be in. *)
List == {"exported", "imported"}

(* The channels of a node, in order, the lists they are in and those that  *)
(* have a default value.                                                   *)
NodeSpec == [channels : Seq([name : Channel, reducer : Reducer]),
             lists : [List -> SUBSET Channel], defaults : SUBSET Channel]
NewNode == [channels |-> <<>>, lists |-> [l \in List |-> {}], defaults |-> {}]

NewGraph == [entry |-> Start, edges |-> <<>>, nodes |-> <<>>]
IsGraph(spec) ==
  /\ spec.entry \in Node
  /\ DOMAIN spec.edges \subseteq Node
  /\ \A id \in DOMAIN spec.edges : spec.edges[id] \in Node
  /\ DOMAIN spec.nodes \subseteq Node
  /\ \A id \in DOMAIN spec.nodes : spec.nodes[id] \in NodeSpec

Expert == [prompt : Prompt, tools : BOOLEAN]
Tool == [name |-> "tool"]

(* What an item of kind k holds. *)
Holds(k, data) ==
  CASE k = "graph" -> IsGraph(data)
    [] k = "expert" -> data \in Expert
    [] k = "tool" -> data = Tool
    [] k = "model" -> data \in [key : Secret]

VARIABLES stack,  \* ReplState, the top last
          table,  \* the state whose commands the completer offers
          work,   \* what the loop awaits
          said,   \* what it printed last
          left    \* the commands that may still be given

replVars == <<modelsVars, stack, table, work, said, left>>

Root == [at |-> "Root"]
LocalConnected == [at |-> "LocalConnected"]
ExecutingSession(kind) == [at |-> "ExecutingSession", kind |-> kind]
EditingGraph(spec) == [at |-> "EditingGraph", spec |-> spec]
EditingNode(id, spec) == [at |-> "EditingNode", id |-> id, spec |-> spec]

IsState(state) ==
  \/ state \in {Root, LocalConnected, ExecutingSession("live"), ExecutingSession("consult")}
  \/ state.at = "EditingGraph" /\ IsGraph(state.spec)
  \/ state.at = "EditingNode" /\ state.id \in Node /\ state.spec \in NodeSpec

(* cmd is the call that is awaited and data what the command does next     *)
(* with its answer.                                                        *)
Free == [cmd |-> "none", data |-> NoData]
Over == [cmd |-> "over", data |-> NoData]

ReplTypeOK ==
  /\ ModelsTypeOK(Holds)
  /\ \A i \in DOMAIN stack : IsState(stack[i])
  /\ table \in {"Root", "LocalConnected", "ExecutingSession", "EditingGraph", "EditingNode"}
  /\ CASE work.cmd \in {"save", "publish_graph"} -> IsGraph(work.data)
       [] work.cmd = "set_expert" ->
            work.data \in [prompt : Prompt \cup {NoData}, tools : {FALSE, NoData}]
       [] OTHER -> /\ work.cmd \in {"none", "over", "report", "consult",
                                    "consult_tool", "consult_model"}
                   /\ work.data = NoData
  /\ said.what \in {"nothing", "error", "ok", "saved", "node", "answer", "abandoned"}
  /\ left \in [{"connects", "commands", "edits", "others"} -> Nat]

ReplInit ==
  /\ ModelsInit
  /\ stack = <<Root>> /\ table = "Root"
  /\ work = Free /\ said = [what |-> "nothing", data |-> NoData]
  /\ left \in Bounds

-----------------------------------------------------------------------------
Top == stack[Len(stack)]
Pop(s) == SubSeq(s, 1, Len(s) - 1)

(* sync_completer_table, of the stack s *)
sync_completer_table(s) == table' = s[Len(s)].at

push(state) ==
  /\ stack' = Append(stack, state)
  /\ sync_completer_table(stack')

(* Root is never popped. *)
pop ==
  /\ stack' = IF Len(stack) <= 1 THEN stack ELSE Pop(stack)
  /\ sync_completer_table(stack')

(* In place: the state on top becomes another of the same sort. *)
mutate(state) ==
  /\ stack' = [stack EXCEPT ![Len(stack)] = state]
  /\ UNCHANGED table

Say(what, data) == said' = [what |-> what, data |-> data]
Spend(what) == left[what] > 0 /\ left' = [left EXCEPT ![what] = @ - 1]
Await(cmd, data) == work' = [cmd |-> cmd, data |-> data]

(* The prompt in state at: a session runs before any line is read. *)
Reads(at) == work = Free /\ Top.at = at
AtPrompt == work = Free /\ Top.at # "ExecutingSession"

-----------------------------------------------------------------------------
(* A line that only prints something. *)
Prints(what) ==
  /\ AtPrompt
  /\ Say(what, NoData)
  /\ UNCHANGED <<modelsVars, stack, table, work, left>>

(* A syntax error, an unknown command, a first call that fails, ^C. *)
no_command == Prints("error")

(* Too few arguments, one that is no key=value, a key given twice. *)
usage_error == Prints("error")

help == Prints("ok")

(* exit at Root, an error of the terminal anywhere. *)
exit ==
  /\ AtPrompt
  /\ work' = Over
  /\ UNCHANGED <<modelsVars, stack, table, said, left>>

(* Ctrl-D leaves the state, and what was edited in it. *)
handle_eof ==
  /\ AtPrompt
  /\ \/ Top = Root /\ work' = Over /\ UNCHANGED <<stack, table, said>>
     \/ Top.at = "LocalConnected" /\ pop /\ UNCHANGED <<work, said>>
     \/ /\ Top.at \in {"EditingGraph", "EditingNode"}
        /\ pop /\ Say("abandoned", NoData) /\ UNCHANGED work
  /\ UNCHANGED <<modelsVars, left>>

-----------------------------------------------------------------------------
(* Root *)

(* LocalMarie::new: the catalog is in the database of the mode, the        *)
(* secrets are in memory in either mode.                                   *)
NewLocalMarie(mode) ==
  /\ db' = [db EXCEPT ![Cli] = mode]
  /\ items' = [items EXCEPT !["memory"] = InMemoryCatalog]
  /\ secrets' = [secrets EXCEPT ![Cli] = {}]
  /\ UNCHANGED <<task, used, heard>>

connect_local(mode) ==
  /\ Reads("Root")
  /\ Spend("connects")
  /\ NewLocalMarie(mode)
  /\ push(LocalConnected)
  /\ Say("ok", NoData)
  /\ UNCHANGED work

(* Not implemented. *)
connect_remote == Reads("Root") /\ Prints("ok")

root == (\E mode \in Database : connect_local(mode)) \/ connect_remote

-----------------------------------------------------------------------------
(* The methods of Experts, Graphs and Tools that Catalog does not name. *)

experts_create(c, data) == insert(c, "expert", data)
experts_get(c) == get(c, "expert")
experts_list(c) == list(c, "expert")

graphs_insert(c, data) == insert(c, "graph", data)
graphs_delete(c) == delete(c, "graph")
graphs_list(c) == list(c, "graph")

tools_replace(c, data) == replace(c, "tool", data)
tools_delete(c) == delete(c, "tool")

-----------------------------------------------------------------------------
(* LocalConnected *)

(* A command that makes a call A and prints its answer. *)
Command(A) ==
  /\ Reads("LocalConnected")
  /\ Spend("commands")
  /\ A
  /\ Await("report", NoData)
  /\ UNCHANGED <<stack, table, said>>

(* A call to the catalog, which may fail. *)
StoreCall(A) == (A \/ Refused(Cli)) /\ UNCHANGED <<secrets, used, heard>>

list_models == Command(StoreCall(list(Cli, "model")))
list_experts == Command(StoreCall(experts_list(Cli)))
list_tools == Command(StoreCall(list(Cli, "tool")))
list_graphs == Command(StoreCall(graphs_list(Cli)))

(* The store of sessions, which is not modelled here, answers. *)
SessionsAnswer == Ready(Cli) /\ End(Cli, "ok", NoData) /\ UNCHANGED <<items, db>>
list_sessions == Command(StoreCall(SessionsAnswer))
delete_session == Command(StoreCall(SessionsAnswer))

create_model(key) == Command(insert_model(Cli, key))
delete_model == Command(open_model(Cli, "delete"))
create_expert(expert) == Command(StoreCall(experts_create(Cli, expert)))
delete_expert == Command(StoreCall(delete(Cli, "expert")))

(* The expert is read, changed where a flag says so, and replaced. *)
set_expert(prompt, tools) ==
  /\ Reads("LocalConnected")
  /\ Spend("commands")
  /\ StoreCall(experts_get(Cli))
  /\ Await("set_expert", [prompt |-> prompt, tools |-> tools])
  /\ UNCHANGED <<stack, table, said>>

create_graph ==
  /\ Reads("LocalConnected")
  /\ Spend("commands")
  /\ push(EditingGraph(NewGraph))
  /\ UNCHANGED <<modelsVars, work, said>>

create_session(kind) ==
  /\ Reads("LocalConnected")
  /\ Spend("commands")
  /\ push(ExecutingSession(kind))
  /\ UNCHANGED <<modelsVars, work, said>>

disconnect ==
  /\ Reads("LocalConnected")
  /\ pop
  /\ UNCHANGED <<modelsVars, work, said, left>>

-----------------------------------------------------------------------------
(* EditingGraph *)

Edit(at) == Reads(at) /\ Spend("edits")

edit_graph(spec) ==
  /\ Edit("EditingGraph")
  /\ mutate(EditingGraph(spec))
  /\ UNCHANGED <<modelsVars, work, said>>

list_nodes == Reads("EditingGraph") /\ Prints("ok")
set_entry(id) == edit_graph([Top.spec EXCEPT !.entry = id])
connect(a, b) == edit_graph([Top.spec EXCEPT !.edges = (a :> b) @@ @])

(* Whatever the edge of a leads to. *)
disconnect_node(a) ==
  edit_graph([Top.spec EXCEPT !.edges = [n \in DOMAIN @ \ {a} |-> @[n]]])

create_node__takes_graph(id) ==
  /\ Edit("EditingGraph")
  /\ stack' = Append(Pop(stack), EditingNode(id, NewNode))
  /\ sync_completer_table(stack')
  /\ UNCHANGED <<modelsVars, work, said>>

create_node(id) ==
  /\ Edit("EditingGraph")
  /\ push(EditingNode(id, NewNode))
  /\ UNCHANGED <<modelsVars, work, said>>

(* The state is popped before anything is published. *)
save_graph ==
  /\ Reads("EditingGraph")
  /\ pop
  /\ StoreCall(latest(Cli, "graph"))
  /\ Await("save", Top.spec)
  /\ UNCHANGED <<said, left>>

-----------------------------------------------------------------------------
(* EditingNode *)

(* A boolean flag of a command may be left out. *)
Flag == {"absent", "true", "false"}

edit_node(spec) ==
  /\ Edit("EditingNode")
  /\ mutate(EditingNode(Top.id, spec))
  /\ UNCHANGED <<modelsVars, work, said>>

(* The channel is pushed whether or not there is one of this name. *)
add_channel(name, reducer, in, default) ==
  edit_node([Top.spec EXCEPT
    !.channels = Append(@, [name |-> name, reducer |-> reducer]),
    !.lists = [l \in List |-> IF l \in in THEN @[l] \cup {name} ELSE @[l]],
    !.defaults = IF default THEN @ \cup {name} ELSE @])

set_membership(members, name, flag) ==
  CASE flag = "true" -> members \cup {name}
    [] flag = "false" -> members \ {name}
    [] OTHER -> members

(* The first channel of this name; without one it is an error.  Flags that *)
(* are left out, the reducer too (NoData), leave things as they are.       *)
set_channel(name, reducer, flags) ==
  LET places == {i \in DOMAIN Top.spec.channels : Top.spec.channels[i].name = name} IN
  /\ Reads("EditingNode")
  /\ places # {}
  /\ edit_node([Top.spec EXCEPT
       !.channels[Min(places)].reducer = IF reducer = NoData THEN @ ELSE reducer,
       !.lists = [l \in List |-> set_membership(@[l], name, flags[l])]])

(* The node goes into the graph below. *)
save_node ==
  LET below == Len(stack) - 1 IN
  /\ Reads("EditingNode")
  /\ stack' = [Pop(stack) EXCEPT ![below].spec.nodes = (Top.id :> Top.spec) @@ @]
  /\ sync_completer_table(stack')
  /\ Say("node", NoData)
  /\ UNCHANGED <<modelsVars, work, left>>

-----------------------------------------------------------------------------
(* What follows an answer.  Finish prints and gives the prompt back. *)

Answered(cmd) == work.cmd = cmd /\ Ready(Cli)

Finish(what, data) ==
  /\ Say(what, data)
  /\ work' = Free
  /\ task' = [task EXCEPT ![Cli] = Idle]
  /\ UNCHANGED <<items, db, secrets, used, heard>>

report ==
  /\ Answered("report")
  /\ Finish(IF task[Cli].answer = "ok" THEN "ok" ELSE "error", NoData)
  /\ UNCHANGED <<stack, table, left>>

(* set_expert, once it has the expert: Experts::replace. *)
replace_expert ==
  LET expert == task[Cli].data
      Set(new, old) == IF new = NoData THEN old ELSE new
  IN /\ Answered("set_expert")
     /\ \/ task[Cli].answer # "ok" /\ Finish("error", NoData)
        \/ /\ task[Cli].answer = "ok"
           /\ StoreCall(replace(Cli, "expert",
                           [prompt |-> Set(work.data.prompt, expert.prompt),
                            tools |-> Set(work.data.tools, expert.tools)]))
           /\ Await("report", NoData)
           /\ UNCHANGED said
     /\ UNCHANGED <<stack, table, left>>

(* save, once it knows whether the graph exists. *)
publish_graph ==
  /\ Answered("save")
  /\ \/ task[Cli].answer = "error" /\ Finish("error", NoData)
     \/ /\ \/ task[Cli].answer = "ok" /\ StoreCall(replace(Cli, "graph", work.data))
           \/ task[Cli].answer = "not_found" /\ StoreCall(graphs_insert(Cli, work.data))
        /\ Await("publish_graph", work.data)
        /\ UNCHANGED said
  /\ UNCHANGED <<stack, table, left>>

graph_saved ==
  /\ Answered("publish_graph")
  /\ IF task[Cli].answer = "ok" THEN Finish("saved", work.data) ELSE Finish("error", NoData)
  /\ UNCHANGED <<stack, table, left>>

run_session__peeks ==
  /\ work = Free /\ Top.at = "ExecutingSession"
  /\ \/ Top.kind = "live" /\ Say("error", NoData) /\ UNCHANGED <<modelsVars, work>>
     \/ /\ Top.kind = "consult"
        /\ StoreCall(experts_get(Cli))
        /\ Await("consult", NoData)
        /\ UNCHANGED said
  /\ UNCHANGED <<stack, table, left>>

(* The loop takes a session off the stack before it runs it. *)
run_session ==
  /\ work = Free /\ Top.at = "ExecutingSession"
  /\ stack' = Pop(stack)
  /\ sync_completer_table(stack')
  /\ \/ Top.kind = "live" /\ Say("error", NoData) /\ UNCHANGED <<modelsVars, work>>
     \/ /\ Top.kind = "consult"
        /\ StoreCall(experts_get(Cli))
        /\ Await("consult", NoData)
        /\ UNCHANGED said
  /\ UNCHANGED left

(* Experts::consult: the expert, the tools it may use, its model.  A tool  *)
(* that is not there is left out.                                          *)
consult ==
  LET answer == task[Cli].answer
      execute == open_model(Cli, "execute") \/ StoreCall(Refused(Cli))
  IN /\ \/ /\ Answered("consult") /\ answer = "ok" /\ task[Cli].data.tools
           /\ StoreCall(get(Cli, "tool")) /\ Await("consult_tool", NoData)
           /\ UNCHANGED said
        \/ /\ \/ Answered("consult") /\ answer = "ok" /\ ~task[Cli].data.tools
              \/ Answered("consult_tool") /\ answer # "error"
           /\ execute /\ Await("consult_model", NoData)
           /\ UNCHANGED said
        \/ /\ \/ Answered("consult") /\ answer # "ok"
              \/ Answered("consult_tool") /\ answer = "error"
           /\ Finish("error", NoData)
     /\ UNCHANGED <<stack, table, left>>

consulted ==
  /\ Answered("consult_model")
  /\ Finish(IF task[Cli].answer = "ok" THEN "answer" ELSE "error", NoData)
  /\ UNCHANGED <<stack, table, left>>

-----------------------------------------------------------------------------
(* A caller's next call. *)
Step(c) ==
  /\ \/ catalog_step(c) /\ UNCHANGED <<secrets, used, heard>>
     \/ Fail(c) /\ UNCHANGED <<secrets, used, heard>>
     \/ model_step(c)
  /\ UNCHANGED <<stack, table, work, said, left>>

(* Another process, on the same database. *)
other_call ==
  \/ \E expert \in [prompt : Prompt, tools : {TRUE}] :
       experts_create(Other, expert) \/ replace(Other, "expert", expert)
  \/ delete(Other, "expert")
  \/ graphs_insert(Other, NewGraph) \/ replace(Other, "graph", NewGraph)
  \/ graphs_delete(Other)
  \/ insert(Other, "tool", Tool) \/ tools_replace(Other, Tool) \/ tools_delete(Other)
  \/ \E k \in Kind \ {"model"} : deprecate(Other, k)

other_process ==
  /\ Spend("others")
  /\ \/ other_call /\ UNCHANGED <<secrets, used, heard>>
     \/ \E key \in Secret : insert_model(Other, key)
     \/ \E op \in {"change", "delete", "execute"} : open_model(Other, op)
  /\ UNCHANGED <<stack, table, work, said>>

command ==
  \/ list_sessions \/ list_models \/ list_experts \/ list_tools \/ list_graphs
  \/ delete_session
  \/ \E key \in Secret : create_model(key)
  \/ delete_model
  \/ \E expert \in Expert : create_expert(expert)
  \/ delete_expert
  \/ \E prompt \in Prompt \cup {NoData}, tools \in {FALSE, NoData} : set_expert(prompt, tools)
  \/ create_graph
  \/ \E kind \in {"live", "consult"} : create_session(kind)
  \/ disconnect

edit ==
  \/ \E a \in Node :
       \/ set_entry(a) \/ disconnect_node(a) \/ create_node(a)
       \/ \E b \in Node : connect(a, b)
  \/ list_nodes
  \/ save_graph
  \/ \E name \in Channel :
       \/ \E reducer \in Reducer, in \in SUBSET List, default \in BOOLEAN :
            add_channel(name, reducer, in, default)
       \/ \E reducer \in Reducer \cup {NoData}, flags \in [List -> Flag] :
            set_channel(name, reducer, flags)
  \/ save_node

(* What the loop does on its own. *)
run ==
  \/ run_session
  \/ report \/ replace_expert \/ publish_graph \/ graph_saved \/ consult \/ consulted
  \/ Step(Cli)

ReplNext ==
  \/ no_command \/ usage_error \/ help \/ exit \/ handle_eof
  \/ root \/ command \/ edit \/ run
  \/ other_process \/ Step(Other)

(* The store and the model's server answer, and the loop goes on. *)
ReplSpec == ReplInit /\ [][ReplNext]_replVars /\ WF_replVars(run)

-----------------------------------------------------------------------------
(* The stack the unreachable!() of the code count on: Root at the bottom   *)
(* and nowhere else, one connection above it, a session or a graph on the  *)
(* connection, a node on a graph.                                          *)
StackIsWellFormed ==
  /\ Len(stack) > 0 /\ stack[1] = Root
  /\ \A i \in 2..Len(stack) :
       stack[i - 1].at = CASE stack[i].at = "LocalConnected" -> "Root"
                           [] stack[i].at = "ExecutingSession" -> "LocalConnected"
                           [] stack[i].at = "EditingGraph" -> "LocalConnected"
                           [] stack[i].at = "EditingNode" -> "EditingGraph"
                           [] OTHER -> "nothing"

(* Whatever the stores and the other process do, the user gets a prompt    *)
(* again: no command and no session holds the loop for ever.               *)
PromptReturns == ~AtPrompt ~> (AtPrompt \/ work = Over)
=============================================================================
