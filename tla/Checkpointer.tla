---------------------------- MODULE Checkpointer ----------------------------
(***************************************************************************)
(* The checkpointer of one session (session/checkpointer/mod.rs): the loop *)
(* that takes one event at a time, the handlers that make the frame tree   *)
(* grow and resume, the clichés they commit (session/snapshot), the run    *)
(* logs they resolve (session/run_log.rs) and the jobs they spawn          *)
(* (session/worker.rs).                                                    *)
(*                                                                         *)
(* One handler runs at a time and is one step here; what interleaves with  *)
(* it are the jobs, the tasks that write dropped clichés, and close.  A    *)
(* task that writes within a handler is part of its step where it shows:   *)
(* between the two reads of a commit, which then fails.                    *)
(*                                                                         *)
(* An event goes through the controller's queue and then the               *)
(* checkpointer's; both are FIFO and have one reader, and are one queue    *)
(* here.  As written, the controller drops the future that would put the   *)
(* event in the second queue (controller.rs): LiveSession models that, and *)
(* this module what the checkpointer does with the events it is given.     *)
(***************************************************************************)
EXTENDS Channels

CONSTANTS MaxFrames,   \* frames of the session
          MaxJobs,     \* jobs spawned by the session
          MaxRequests, \* requests of one CallTools, ConsultExperts or Fork
          Trees,       \* the trees a session is loaded with: kinds, parents
          GraphCommon, \* CommonSpec of the graph the session runs
          NodeWrites   \* channels a run of its nodes writes

VARIABLES s,        \* what the handlers read and write
          session,  \* the session: status in memory, status of its row
          loop,     \* where the task of run is
          closing,  \* close has been called
          told      \* history: terminations that reached the parent's handler

vars == <<s, session, loop, closing, told>>

Frame == 1..MaxFrames
None == 0                       \* no frame, no parent
NoSnapshot == -1

Structural == {"Thread", "Span", "Graph", "ToolAggregator"}
Kind == Structural \cup {"Node", "Tool", "Expert"}
Status == {"Pending", "Ready", "RunCompleted", "RunFailed", "WaitingChildren",
           "Completed", "Failed"}

(* A frame is created after its parent. *)
ASSUME CheckpointerAssumption ==
  /\ MaxFrames \in Nat /\ MaxJobs \in Nat /\ MaxRequests \in Nat
  /\ \A t \in Trees : /\ t.kind \in Seq(Kind) /\ t.parent \in Seq(Nat)
                      /\ Len(t.kind) = Len(t.parent) /\ Len(t.kind) \in Frame
                      /\ \A f \in 1..Len(t.parent) : t.parent[f] < f
  /\ \A ch \in DOMAIN GraphCommon.reducer : GraphCommon.reducer[ch] \in Reducer

HasTerminated(status) == status \in {"Completed", "Failed"}

(* FramePolicy by kind, as append_graph_span, append_graph_thread,         *)
(* append_graph and append_tool_aggregator set it.  set_resume_policy and  *)
(* set_reduce_policy change nothing: they do not await set_policy_of.      *)
ResumePolicy(kind) == IF kind \in {"Span", "ToolAggregator"} THEN "FanIn" ELSE "Sequential"
FailIfAtLeastHasFailed(kind) == IF kind \in Structural THEN 1 ELSE MaxFrames + 1

-----------------------------------------------------------------------------
(* FrameTree, as the handlers use it *)

Node(st, f) == st.frame[f]
Put(st, f, field, value) == [st EXCEPT !.frame[f] = [@ EXCEPT ![field] = value],
                                       !.loaded = @ \cup {f}]
Load(st, f) == [st EXCEPT !.loaded = @ \cup {f}]
Children(st, f) == {c \in 1..st.n : st.frame[c].parent = f}

(* parent_of and iter_children_of look in the arena only. *)
parent_of(st, f) == IF f \in st.loaded THEN st.frame[f].parent ELSE None

last_child_of(st, f) ==
  IF Children(st, f) = {} THEN None
  ELSE CHOOSE c \in Children(st, f) : \A d \in Children(st, f) : d <= c

(* Frames are appended in order, so the sibling before f is the youngest   *)
(* frame older than it under the same parent.                              *)
prev_sibling_of(st, f) ==
  LET older == {c \in Children(st, st.frame[f].parent) : c < f}
  IN IF older = {} \/ st.frame[f].parent = None THEN None
     ELSE CHOOSE c \in older : \A d \in older : d <= c

NewFrame(kind, parent) ==
  [kind |-> kind, status |-> "Pending", parent |-> parent, response |-> None,
   logs |-> <<>>, superstep |-> NoSnapshot]

(* A parent that is not loaded gets no child, and the child no parent. *)
append(st, parent, kind) ==
  IF st.n = MaxFrames THEN [st EXCEPT !.full = TRUE, !.err = TRUE]
  ELSE [st EXCEPT !.n = @ + 1,
                  !.frame = Append(@, NewFrame(kind, IF parent \in st.loaded
                                                     THEN parent ELSE None)),
                  !.loaded = @ \cup {st.n + 1}]

-----------------------------------------------------------------------------
(* Events and status marks *)

emit(st, event) == [st EXCEPT !.queue = Append(@, event)]

FrameCreated(f)       == [type |-> "FrameCreated", frame |-> f]
FrameReady(f)         == [type |-> "FrameReady", frame |-> f]
JobUpdate(f, r)       == [type |-> "FrameRunJobStateUpdate", frame |-> f, response |-> r]
FrameRunTerminated(f) == [type |-> "FrameRunTerminated", frame |-> f]
FrameTerminated(f)    == [type |-> "FrameTerminated", frame |-> f]
ChildTerminated(p, c) == [type |-> "ChildFrameTerminated", frame |-> p, child |-> c]

mark_as_waiting_children(st, f) == Put(st, f, "status", "WaitingChildren")

mark_frame_run_completed(st, f, response) ==
  emit(Put(Put(st, f, "status", "RunCompleted"), f, "response", response),
       FrameRunTerminated(f))

mark_frame_run_failed(st, f) ==
  emit(Put(st, f, "status", "RunFailed"), FrameRunTerminated(f))

mark_ready_to_run_frame__silent(st, f) == Put(st, f, "status", "Ready")

mark_ready_to_run_frame(st, f) == emit(Put(st, f, "status", "Ready"), FrameReady(f))

mark_failed_frame__silent(st, f) == Put(st, f, "status", "Failed")

mark_failed_frame(st, f) == emit(Put(st, f, "status", "Failed"), FrameTerminated(f))

mark_completed_frame(st, f) ==
  LET done == emit(Put(st, f, "status", "Completed"), FrameTerminated(f))
      p == parent_of(done, f)
  IN IF p = None THEN done ELSE emit(done, ChildTerminated(p, f))

Err(st) == [st EXCEPT !.err = TRUE]

(* The `?` of the code: next happens unless an error came before. *)
Then(st, next) == IF st.err THEN st ELSE next

-----------------------------------------------------------------------------
(* Clichés: <<frame, superstep, channels>>.  latest asks the store, never  *)
(* the cache, and puts what it found in the cache; a dirty container that  *)
(* is replaced there is dropped and written by a task.                     *)

(* All frames of a graph have the spec of the graph. *)
common_spec_of(st, f) ==
  CASE st.frame[f].kind = "Tool"           -> tool
    [] st.frame[f].kind = "ToolAggregator" -> tool_aggregator
    [] st.frame[f].kind = "Expert"         -> expert
    [] OTHER                               -> GraphCommon

Of(snapshots, f, k) == {w \in snapshots : w[1] = f /\ w[2] = k}
ChannelsOf(st, f) == (CHOOSE w \in Of(st.rows, f, st.frame[f].superstep) : TRUE)[3]

Replace(st, f, k) == [st EXCEPT !.writes = @ \cup Of(st.dirty, f, k),
                                !.dirty = @ \ Of(st.dirty, f, k)]

latest(st, f) ==
  LET k == st.frame[f].superstep
  IN IF k = NoSnapshot THEN Err(st) ELSE Replace(st, f, k)

push(st, f, k, channels) == [Replace(st, f, k) EXCEPT !.dirty = @ \cup {<<f, k, channels>>}]

(* Numbered after the count of the frame's rows, which start at zero. *)
commit_snapshot__counts_rows(st, f, updates, stale) ==
  LET rows == Cardinality({r \in st.rows : r[1] = f})
  IN Then(latest(st, f), IF stale THEN Err(latest(st, f))
                         ELSE push(latest(st, f), f, rows + 1, ChannelsOf(st, f)))

(* The handler has read the expected superstep with latest, and the commit *)
(* reads it again.  stale: a task has written a later one in between, and  *)
(* the commit fails with StaleSuperstep (Overtaken is what the task did).  *)
commit_snapshot(st, f, updates, stale) ==
  Then(latest(st, f),
       IF stale THEN Err(latest(st, f))
       ELSE push(latest(st, f), f, st.frame[f].superstep + 1,
                 Reduced(common_spec_of(st, f), ChannelsOf(st, f), updates)))

(* A task has written its cliché. *)
Written(st, w) ==
  [st EXCEPT !.writes = @ \ {w},
             !.rows = (@ \ Of(@, w[1], w[2])) \cup {w},
             !.frame[w[1]].superstep = IF @ < w[2] THEN w[2] ELSE @]

(* A task has written a later cliché of f than the one read before, and    *)
(* latest has read that one.                                               *)
Overtaken(st, f) ==
  {Replace(Written(st, w), f, w[2]) :
     w \in {v \in st.writes : v[1] = f /\ v[2] > st.frame[f].superstep}}

(* latest of several frames in order, up to the first that has none. *)
LatestOf(st, fs) ==
  LET missing == {f \in fs : st.frame[f].superstep = NoSnapshot}
      read == {f \in fs : \A m \in missing : f < m}
      dropped == UNION {Of(st.dirty, f, st.frame[f].superstep) : f \in read}
  IN [st EXCEPT !.writes = @ \cup dropped, !.dirty = @ \ dropped,
                !.err = @ \/ missing # {}]

(* The children a join reads, in their order. *)
InOrder(children) ==
  CHOOSE q \in [1..Cardinality(children) -> children] :
    \A i, j \in DOMAIN q : i < j => q[i] < q[j]

(* What the clichés of the relevant children hold in a channel that the    *)
(* child exports, one contribution per child, in their order.              *)
drain_pending_accumulators__unfiltered(st, f, relevants) ==
  LET Exports(c) == common_spec_of(st, c).exported \cap DOMAIN ChannelsOf(st, c)
      From(ch) == InOrder({c \in relevants : ch \in Exports(c)})
  IN [ch \in UNION {Exports(c) : c \in relevants} |->
        [i \in DOMAIN From(ch) |-> ChannelsOf(st, From(ch)[i])[ch]]]

(* And that the parent imports. *)
drain_pending_accumulators(st, f, relevants) ==
  LET Exports(c) == common_spec_of(st, c).exported \cap DOMAIN ChannelsOf(st, c)
                      \cap common_spec_of(st, f).imported
      From(ch) == InOrder({c \in relevants : ch \in Exports(c)})
  IN [ch \in UNION {Exports(c) : c \in relevants} |->
        [i \in DOMAIN From(ch) |-> ChannelsOf(st, From(ch)[i])[ch]]]

-----------------------------------------------------------------------------
(* Growing the tree *)

(* Under a FanIn parent the child inherits from the parent's last cliché;  *)
(* under a Sequential one, from its previous sibling's.                    *)
InheritFrom(st, f, parent) ==
  IF ResumePolicy(st.frame[parent].kind) = "FanIn" THEN parent_of(st, f)
  ELSE prev_sibling_of(st, f)

append_frame(st, parent, kind) ==
  LET a == Then(append(st, parent, kind), Load(append(st, parent, kind), parent))
      from == InheritFrom(a, a.n, parent)
      inherited == Then(a, IF from = None THEN a ELSE latest(a, from))
  IN Then(inherited, emit(inherited, FrameCreated(a.n)))

append_graph_node(st, parent) == append_frame(st, parent, "Node")

append_graph_thread(st, parent) ==
  LET t == append_frame(st, parent, "Thread")
  IN Then(t, append_graph_node(mark_as_waiting_children(t, t.n), t.n))

(* try_for_each: each appended after the one before, up to the first error.*)
TryForEach(st, n, Op(_)) ==
  LET after[i \in 0..n] == IF i = 0 THEN st ELSE Then(after[i - 1], Op(after[i - 1]))
  IN after[n]

append_graph_span(st, parent, branches) ==
  LET t == append_frame(st, parent, "Span")
      span == t.n
      Branch(x) == append_graph_thread(x, span)
  IN Then(t, TryForEach(mark_as_waiting_children(t, span), branches, Branch))

(* The entry thread of the graph is left to on_frame_created. *)
append_graph(st, parent, unknown) ==
  IF unknown THEN Err(st)
  ELSE LET g == append_frame(st, parent, "Graph")
       IN Then(g, mark_as_waiting_children(g, g.n))

append_tool_calls(st, callee, requests) ==
  LET t == append_frame(st, callee, "ToolAggregator")
      agg == t.n
      Call(x) == append_frame(x, agg, "Tool")
  IN Then(t, TryForEach(mark_as_waiting_children(t, agg), requests, Call))

append_experts_consultations(st, callee, requests) ==
  LET Ask(x) == append_frame(x, callee, "Expert")
  IN TryForEach(st, requests, Ask)

-----------------------------------------------------------------------------
(* Run logs *)

Unresolved(logs) == {i \in DOMAIN logs : ~logs[i].done}

(* Child c holds the value a log waits for: the results of the tools, or   *)
(* whatever a graph exports.  No Hitl frame and no ExpertAggregator is     *)
(* ever created.                                                           *)
Resolves(st, c, content) ==
  \/ /\ content = "CallTools" /\ st.frame[c].kind = "ToolAggregator"
     /\ "tool_result" \in DOMAIN ChannelsOf(st, c)
  \/ content = "ExecuteGraph" /\ st.frame[c].kind \in {"Graph", "Node", "Thread", "Span"}

(* pending_log_of takes the last entry that has no value, resolve_log the  *)
(* first one of its index.                                                 *)
resolve_pending_log(st, f, relevants) ==
  LET logs == st.frame[f].logs
      pending == Max(Unresolved(logs))
      target == CHOOSE i \in DOMAIN logs : /\ logs[i].index = logs[pending].index
                                           /\ \A j \in 1..(i - 1) : logs[j].index # logs[i].index
  IN IF Unresolved(logs) = {} THEN st
     ELSE Then(LatestOf(st, relevants),
               IF \E c \in relevants : Resolves(st, c, logs[pending].content)
               THEN Put(LatestOf(st, relevants), f, "logs", [logs EXCEPT ![target].done = TRUE])
               ELSE LatestOf(st, relevants))

-----------------------------------------------------------------------------
(* Handlers.  fails: the external call of the handler (the worker, the     *)
(* requests of a person, the catalog of graphs) returns an error.          *)

(* A graph that is still pending gets its entry thread; an error is lost.  *)
on_frame_created(st, f) ==
  IF Node(st, f).status # "Pending" THEN Load(st, f)
  ELSE IF Node(st, f).kind = "Graph"
       THEN [mark_as_waiting_children(append_graph_thread(Load(st, f), f), f) EXCEPT !.err = FALSE]
       ELSE mark_ready_to_run_frame(st, f)

(* run_frame *)
on_frame_ready(st, f, fails) ==
  LET read == Load(latest(st, f), f)
  IN Then(read, IF fails THEN Err(read)
                ELSE [read EXCEPT !.spawned = @ + 1,
                                  !.jobs = @ \cup {[id |-> read.spawned + 1, frame |-> f,
                                                    logs |-> read.frame[f].logs]}])

(* The end of a run is announced twice: by mark_* and here again. *)
on_frame_run_update(st, f, response) ==
  emit(IF response.result = "JobFailed" THEN mark_frame_run_failed(st, f)
       ELSE mark_frame_run_completed(st, f, response), FrameRunTerminated(f))

(* Continue needs an edge, and Continue and GoTo a graph node that has a   *)
(* parent; without them the frame stays as it is.                          *)
Advance(st, f, response, fails) ==
  LET p == parent_of(st, f)
      grown == append_graph_node(st, p)
  IN IF p = None \/ st.frame[f].kind # "Node" THEN st
     ELSE IF response.result = "Continue" /\ fails THEN Err(st)
     ELSE IF response.n = 0 THEN st
     ELSE Then(grown, mark_completed_frame(grown, f))

Fork(st, f, branches) ==
  LET p == parent_of(st, f)
      grown == append_graph_span(st, p, branches)
  IN IF p = None THEN st
     ELSE Then(grown, mark_completed_frame(mark_as_waiting_children(grown, p), f))

Waiting(st, f) == Then(st, mark_as_waiting_children(st, f))

Dispatch(st, f, response, fails) ==
  CASE response.result = "RequestHitl"    -> IF fails THEN Err(st) ELSE
                                             Waiting([st EXCEPT !.asked = @ \cup {f}], f)
    [] response.result = "ConsultExperts" ->
         Waiting(append_experts_consultations(st, f, response.n), f)
    [] response.result = "CallTools"      -> Waiting(append_tool_calls(st, f, response.n), f)
    [] response.result = "ExecuteGraph"   -> Waiting(append_graph(st, f, fails), f)
    [] response.result \in {"Continue", "GoTo"} -> Advance(st, f, response, fails)
    [] response.result = "Fork"           -> Fork(st, f, response.n)
    [] response.result = "Completed"      -> mark_completed_frame(st, f)
    [] response.result = "Failed"         -> mark_failed_frame(st, f)

on_frame_run_terminated(st, f, fails, stale) ==
  LET response == Node(st, f).response
      updates == into_updates(f, response.updates)
      committed == IF response.updates # {} THEN commit_snapshot(st, f, updates, stale) ELSE st
      logged == Put(committed, f, "logs", committed.frame[f].logs \o response.new_logs)
  IN IF Node(st, f).status # "RunCompleted" THEN Load(st, f)
     ELSE Then(committed, Dispatch(logged, f, response, fails))

on_frame_terminated(st, f) ==
  IF parent_of(st, f) = None THEN st ELSE emit(st, ChildTerminated(parent_of(st, f), f))

FailedChildren(st, f) == {c \in Children(st, f) : st.frame[c].status = "Failed"}

all_children_have_terminated__one(st, f) ==
  \E c \in Children(st, f) : HasTerminated(st.frame[c].status)

all_children_have_terminated(st, f) ==
  \A c \in Children(st, f) : HasTerminated(st.frame[c].status)

(* resume_frame: on_resume_policy is RunFrame for every frame. *)
resume_frame(st, f) == mark_ready_to_run_frame(st, f)

(* The cliché that joins what the relevant children exported. *)
Join(st, f, relevants, stale) ==
  LET drained == LatestOf(latest(st, f), relevants)
      joined == Then(drained, commit_snapshot(drained, f,
                               drain_pending_accumulators(drained, f, relevants), stale))
  IN Then(joined, resolve_pending_log(joined, f, relevants))

Resume(st, f) == Then(st, resume_frame(st, f))

on_child_frame_terminated(st0, f, child, stale) ==
  LET st == [st0 EXCEPT !.loaded = @ \cup {f, child} \cup Children(st0, f)]
      kind == st.frame[f].kind
      last == last_child_of(st, f)
  IN IF /\ st.frame[child].status = "Failed"
        /\ Cardinality(FailedChildren(st, f)) >= FailIfAtLeastHasFailed(kind)
     THEN mark_failed_frame(st, f)
     ELSE IF ResumePolicy(kind) = "Sequential"
     THEN IF last # None /\ st.frame[last].status = "Completed"
          THEN Resume(Join(st, f, {last}, stale), f) ELSE resume_frame(st, f)
     ELSE IF all_children_have_terminated(st, f)
     THEN Resume(Join(st, f, Children(st, f) \ FailedChildren(st, f), stale), f)
     ELSE st

(* The answer of a person: the frame bound to the request is looked up by  *)
(* its Hitl kind, which no frame has.                                      *)
on_hitl_response(st) == st

Handle(st, e, fails, stale) ==
  CASE e.type = "FrameCreated"           -> on_frame_created(st, e.frame)
    [] e.type = "FrameReady"             -> on_frame_ready(st, e.frame, fails)
    [] e.type = "FrameRunJobStateUpdate" -> on_frame_run_update(st, e.frame, e.response)
    [] e.type = "FrameRunTerminated"     -> on_frame_run_terminated(st, e.frame, fails, stale)
    [] e.type = "FrameTerminated"        -> on_frame_terminated(st, e.frame)
    [] e.type = "ChildFrameTerminated"   -> on_child_frame_terminated(st, e.frame, e.child, stale)
    [] e.type = "HitlAnswered"           -> on_hitl_response(st)

-----------------------------------------------------------------------------
(* The loop *)

(* The row is written at once; a write that fails is logged, and the       *)
(* session stays dirty until the flush of close.                           *)
fail ==
  \/ session' = [status |-> "Failed", row |-> "Failed"]
  \/ session' = [session EXCEPT !.status = "Failed"]

process_event ==
  \E fails, stale \in BOOLEAN :
    LET e == Head(s.queue)
        after == Handle([s EXCEPT !.queue = Tail(@)], e, fails, stale)
    IN /\ s.queue # <<>>
       /\ stale => s.writes # {} /\ after # Handle([s EXCEPT !.queue = Tail(@)], e, fails, FALSE)
       /\ ~after.full /\ after.spawned <= MaxJobs
       /\ IF stale THEN s' \in Overtaken([after EXCEPT !.err = FALSE], e.frame)
          ELSE s' = [after EXCEPT !.err = FALSE]
       /\ told' = IF e.type # "ChildFrameTerminated" THEN told
                  ELSE told \cup {<<e.frame, e.child>>}
       /\ IF after.err THEN fail ELSE UNCHANGED session
       /\ loop' = CASE loop = "Draining" /\ after.err -> "Stopping"
                    [] loop = "Draining"              -> "Draining"
                    [] OTHER                          -> "Selecting"
       /\ UNCHANGED closing

(* The first select of the loop sees the status Running, which is not      *)
(* Closing: that branch is switched off until an event has been handled.   *)
run_first_select ==
  /\ loop = "Starting"
  /\ loop' = IF closing THEN "Draining" ELSE "WaitingEvent"
  /\ UNCHANGED <<s, session, closing, told>>

run_event ==
  /\ loop \in {"WaitingEvent", "Selecting", "Draining"}
  /\ process_event

run_closing ==
  /\ loop = "Selecting" /\ closing
  /\ loop' = "Draining"
  /\ UNCHANGED <<s, session, closing, told>>

(* The drain ends when every sender is gone, and the loop holds one. *)
drained == loop = "Stopping"

(* session.flush, then Closed; what is left of the queue is lost. *)
run_closed ==
  /\ drained
  /\ loop' = "Closed"
  /\ session' \in {session, [session EXCEPT !.row = session.status]}
  /\ UNCHANGED <<s, closing, told>>

close ==
  /\ ~closing
  /\ closing' = TRUE
  /\ UNCHANGED <<s, session, loop, told>>

-----------------------------------------------------------------------------
(* The jobs (session/worker.rs) *)

Response(result, n, updates, new_logs) ==
  [result |-> result, n |-> n, updates |-> updates, new_logs |-> new_logs]

Requests == {"RequestHitl", "ConsultExperts", "CallTools", "ExecuteGraph"}
Requested(result, new_logs) ==
  {Response(result, n, u, new_logs) :
     n \in IF result \in {"ConsultExperts", "CallTools"} THEN 1..MaxRequests ELSE {1},
     u \in {{}, NodeWrites}}

(* A node is replayed from its logs: it asks again for what its one        *)
(* unresolved log waits for, and only then makes a new request, which is   *)
(* logged at the next index, or ends.                                      *)
NodeResponses(logs) ==
  LET open == Unresolved(logs)
      first == CHOOSE i \in open : \A j \in open : i <= j
      Logged(content) == <<[index |-> Len(logs), content |-> content, done |-> FALSE]>>
  IN IF open # {} THEN Requested(logs[first].content, <<>>)
     ELSE (UNION {Requested(r, Logged(r)) : r \in Requests})
          \cup {Response("Continue", n, u, <<>>) : n \in {0, 1}, u \in {{}, NodeWrites}}
          \cup {Response("Fork", n, {}, <<>>) : n \in 1..MaxRequests}
          \cup {Response(r, 1, u, <<>>) : r \in {"GoTo", "Completed"}, u \in {{}, NodeWrites}}
          \cup {Response("Failed", 0, {}, <<>>)}

(* The channels a run of a frame of this kind writes, if it writes. *)
Writes(kind) == CASE kind = "Tool"   -> tool_writes
                  [] kind = "Expert" -> expert_writes
                  [] kind = "Node"   -> NodeWrites
                  [] OTHER           -> {}

(* A tool or an expert writes its answer, or fails. *)
Responses(job) ==
  CASE s.frame[job.frame].kind = "Node" -> NodeResponses(job.logs)
    [] s.frame[job.frame].kind \in {"Tool", "Expert"} ->
         {Response("Completed", 0, Writes(s.frame[job.frame].kind), <<>>),
          Response("Failed", 0, {}, <<>>)}
    [] OTHER -> {}

job_ends(job) ==
  /\ s.frame[job.frame].kind \notin Structural
  /\ \E r \in Responses(job) \cup {Response("JobFailed", 0, {}, <<>>)} :
       s' = [emit(s, JobUpdate(job.frame, r)) EXCEPT !.jobs = @ \ {job}]
  /\ UNCHANGED <<session, loop, closing, told>>

(* The job of a structural frame panics, and the stream of any job may     *)
(* end without an outcome: the relaying task stops.                        *)
job_lost(job) ==
  /\ s' = [s EXCEPT !.jobs = @ \ {job}, !.lost = @ \cup {job.frame}]
  /\ UNCHANGED <<session, loop, closing, told>>

(* The task of a dropped cliché; a failure is only logged. *)
upsert_snapshot(w) ==
  /\ s' = Written(s, w)
  /\ UNCHANGED <<session, loop, closing, told>>

upsert_snapshot_failed(w) ==
  /\ s' = [s EXCEPT !.writes = @ \ {w}]
  /\ UNCHANGED <<session, loop, closing, told>>

HitlAnswered ==
  /\ s.asked # {}
  /\ \A i \in DOMAIN s.queue : s.queue[i].type # "HitlAnswered"
  /\ s' = emit(s, [type |-> "HitlAnswered"])
  /\ UNCHANGED <<session, loop, closing, told>>

-----------------------------------------------------------------------------
(* A session is loaded with the frames of its rows; the arena is empty.    *)
(* Leaves, and a graph that has no thread yet, are announced; the others   *)
(* wait for their children.  past: the code writes no first cliché of a    *)
(* frame (initialise_as_new is empty), so the rows it makes by itself have *)
(* none; the store may hold a first one of each frame, with what the frame *)
(* wrote when it ran.                                                      *)
Leaf(t, f) == f \notin {t.parent[g] : g \in DOMAIN t.parent}

Loaded(t, past) ==
  LET n == Len(t.kind)
      channels(f) == [ch \in IF past = "ran" THEN Writes(t.kind[f]) ELSE {} |-> Number(f)]
      leaves == SetToSeq({f \in 1..n : Leaf(t, f)})
  IN [n |-> n,
      frame |-> [f \in 1..n |->
        [NewFrame(t.kind[f], t.parent[f]) EXCEPT
           !.superstep = IF past = "none" THEN NoSnapshot ELSE 0,
           !.status = IF Leaf(t, f) THEN "Pending" ELSE "WaitingChildren"]],
      loaded |-> {}, dirty |-> {}, writes |-> {},
      rows |-> {<<f, 0, channels(f)>> : f \in IF past = "none" THEN {} ELSE 1..n},
      queue |-> [i \in DOMAIN leaves |-> FrameCreated(leaves[i])],
      jobs |-> {}, spawned |-> 0, lost |-> {}, asked |-> {}, err |-> FALSE, full |-> FALSE]

Init ==
  /\ \E t \in Trees, past \in {"none", "ran"} : s = Loaded(t, past)
  /\ session = [status |-> "Running", row |-> "Running"]
  /\ loop = "Starting" /\ closing = FALSE
  /\ told = {}

Next ==
  \/ run_first_select \/ run_event \/ run_closing \/ run_closed \/ close
  \/ \E job \in s.jobs : job_ends(job) \/ job_lost(job)
  \/ \E w \in s.writes : upsert_snapshot(w) \/ upsert_snapshot_failed(w)
  \/ HitlAnswered

Spec == Init /\ [][Next]_vars

-----------------------------------------------------------------------------
TypeOK ==
  /\ s.n \in Frame /\ Len(s.frame) = s.n
  /\ \A f \in 1..s.n : /\ s.frame[f].kind \in Kind /\ s.frame[f].status \in Status
                       /\ s.frame[f].parent \in 0..(f - 1)
                       /\ s.frame[f].superstep \in {NoSnapshot} \cup Nat
  /\ s.loaded \subseteq 1..s.n
  /\ s.spawned \in 0..MaxJobs
  /\ session.status \in {"Running", "Failed"} /\ session.row \in {"Running", "Failed"}
  /\ loop \in {"Starting", "WaitingEvent", "Selecting", "Draining", "Stopping", "Closed"}

Queued(e) == \E i \in DOMAIN s.queue : s.queue[i] = e
QueuedFor(type, f) == \E i \in DOMAIN s.queue : /\ s.queue[i].type = type
                                                /\ s.queue[i].frame = f
Alive == loop # "Closed" /\ loop # "Stopping" /\ session.status # "Failed"

(* No wake-up is lost: as long as no handler has failed, a frame that is   *)
(* not finished has an event of the queue, a job or a child that will move *)
(* it on.  The exceptions are those of the code: a job whose stream ended  *)
(* without an outcome, a run that failed (RunFailed is never left), a      *)
(* result that asks for a next node where there is none, a frame that      *)
(* waits for a person or was given no child to wait for.                   *)
NoStrandedFrame ==
  Alive => \A f \in 1..s.n :
    LET node == s.frame[f]
    IN /\ node.status = "Pending" => QueuedFor("FrameCreated", f)
       /\ node.status = "Ready" =>
            \/ QueuedFor("FrameReady", f) \/ QueuedFor("FrameRunJobStateUpdate", f)
            \/ f \in s.lost \/ \E job \in s.jobs : job.frame = f
       /\ node.status = "RunCompleted" =>
            \/ QueuedFor("FrameRunTerminated", f)
            \/ node.response.result \in {"Continue", "GoTo", "Fork"}
       /\ node.status = "WaitingChildren" =>
            \/ Children(s, f) = {} \/ f \in s.asked
            \/ QueuedFor("ChildFrameTerminated", f)
            \/ \E c \in Children(s, f) : \/ ~HasTerminated(s.frame[c].status)
                                         \/ QueuedFor("FrameTerminated", c)

(* A termination always reaches the parent, failed handlers or not: until  *)
(* the loop stops, the parent's handler has seen a terminated child, or an *)
(* announcement is on its way.                                             *)
TerminationReachesParent ==
  loop \notin {"Stopping", "Closed"} => \A c \in s.loaded :
    HasTerminated(s.frame[c].status) /\ s.frame[c].parent # None =>
      \/ <<s.frame[c].parent, c>> \in told
      \/ QueuedFor("FrameTerminated", c)
      \/ Queued(ChildTerminated(s.frame[c].parent, c))

(* "le join n'a lieu que quand toutes les branches ont terminé": a FanIn   *)
(* frame is made to run only in a step that leaves it no child that is     *)
(* still going, whatever its children appended to it before they ended.    *)
(* Afterwards a branch may go on: the end of a frame is announced to its   *)
(* parent twice, each time the parent is run, and the second run may end   *)
(* after the join (on_frame_run_update does not ask for the status).       *)
JoinWaitsForAll ==
  [][\A f \in 1..s'.n :
       /\ ResumePolicy(s'.frame[f].kind) = "FanIn"
       /\ s'.frame[f].status = "Ready"
       /\ f \in 1..s.n => s.frame[f].status # "Ready"
       => \A c \in Children(s', f) : HasTerminated(s'.frame[c].status)]_vars

(* The clichés of a frame have no gap: the store holds every superstep up  *)
(* to the last, in whatever order the tasks of dropped containers ran.     *)
SnapshotsHaveNoGap ==
  \A f \in 1..s.n : {w[2] : w \in {r \in s.rows : r[1] = f}}
                      = 0..s.frame[f].superstep

(* "c'est le parent, pas l'enfant, qui décide de ce qu'il accepte de       *)
(* recevoir": whatever was joined, replayed, dropped and written, and in   *)
(* whatever order, a value in the cliché of a frame was written by that    *)
(* frame, or below a child that exports the channel to a frame that        *)
(* imports it.                                                             *)
ValuesComeFromBelow ==
  LET lineage[f \in 1..s.n] ==
        {f} \cup IF s.frame[f].parent = None THEN {} ELSE lineage[s.frame[f].parent]
  IN \A w \in s.rows \cup s.dirty \cup s.writes : \A ch \in DOMAIN w[3] :
       \A writer \in Numbers(<<w[3][ch]>> \o w[3][ch].list) :
         \/ writer = w[1]
         \/ /\ ch \in common_spec_of(s, w[1]).imported
            /\ \E c \in Children(s, w[1]) : /\ ch \in common_spec_of(s, c).exported
                                            /\ c \in lineage[writer]
=============================================================================
