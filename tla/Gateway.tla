------------------------------- MODULE Gateway -------------------------------
(***************************************************************************)
(* The actors of marie-gateway/lib.rs, one for each external connection,   *)
(* over the muxed websocket of marie-ws/layer.rs.  An actor takes one      *)
(* command at a time and answers it before it looks at anything else; what *)
(* it awaits in between (a check, a call to the clients of sessions and    *)
(* workspaces) is a step of its own, which the other actors interleave     *)
(* with.  The clients and the bus are external: a call that fails changed  *)
(* nothing, one that succeeds publishes an event on the global topics.     *)
(*                                                                         *)
(* The outbox of an actor is all that it gave to foreign_tx.  The actor    *)
(* ignores whether that went well: what comes after, a channel nobody      *)
(* reads any more or a reader that lags and loses the oldest, changes no   *)
(* step of the actor, and takes away from what the other end receives      *)
(* without changing its order.                                             *)
(***************************************************************************)
EXTENDS Integers, SequencesExt, FiniteSets

CONSTANTS Conns, Sessions, Workspaces,
          Stored,      \* the sessions each workspace of the cluster has at first
          None,        \* no session, no workspace, no command
          Capacity,    \* messages the broadcast channel of a websocket keeps
          Mixes        \* which commands are sent, how many, failures, ends

SessionOps == {"GetSession", "RemoveSession", "AppendSessionLog", "QuerySessionVars",
               "PatchSessionVars", "ReportUserInput"}
WorkspaceOps == {"GetWorkspace", "RemoveWorkspace", "ListWorkspaceSessions",
                 "QueryWorkspaceVars", "PatchWorkspaceVars", "CreateSession"}
MemberOps == {"AddSessionToWorkspace", "RemoveSessionFromWorkspace"}
OpenOps == {"AccessSession", "AccessWorkspace", "CreateWorkspace"}
Ops == SessionOps \cup WorkspaceOps \cup MemberOps \cup OpenOps

ASSUME GatewayAssumption ==
  /\ Stored \in [Workspaces -> SUBSET Sessions]
  /\ Capacity \in Nat \ {0} /\ None \notin Sessions \cup Workspaces
  /\ Mixes \subseteq [ops : SUBSET Ops, commands : Nat, fail : Nat, ends : Nat]

VARIABLES conn,     \* the actor of each connection and its two ends
          cluster,  \* external: the sessions and workspaces of the cluster
          left      \* what is left of the mix

vars == <<conn, cluster, left>>

-----------------------------------------------------------------------------
Takes(op) ==
  [session |-> op \in SessionOps \cup MemberOps \cup {"AccessSession"},
   workspace |-> op \in WorkspaceOps \cup MemberOps \cup {"AccessWorkspace", "CreateWorkspace"}]

Commands(ops) ==
  UNION {[op : {op},
          session : IF Takes(op).session THEN Sessions ELSE {None},
          workspace : IF Takes(op).workspace THEN Workspaces ELSE {None}] : op \in ops}

(* Adding a session to a workspace needs the workspace only. *)
required_session(cmd) == IF cmd.op \in SessionOps THEN cmd.session ELSE None

required_workspace(cmd) ==
  IF cmd.op \in WorkspaceOps \cup MemberOps THEN cmd.workspace ELSE None

Allowed(c, cmd) ==
  /\ required_session(cmd) \in conn[c].sessions \cup {None}
  /\ required_workspace(cmd) \in conn[c].workspaces \cup {None}

Reply(cmd, outcome, session) ==
  [kind |-> "reply", op |-> cmd.op, outcome |-> outcome, session |-> session,
   workspace |-> cmd.workspace]

(* The global topics reach every actor that runs, the sender's own too. *)
Published(k, e) ==
  [c \in Conns |-> IF k[c].running THEN [k[c] EXCEPT !.events = Append(@, e)] ELSE k[c]]

SessionEvent(s) == [kind |-> "session", id |-> s]
WorkspaceEvent(w) == [kind |-> "workspace", id |-> w]

Fails == left.fail > 0 /\ left' = [left EXCEPT !.fail = @ - 1]
Ends == left.ends > 0 /\ left' = [left EXCEPT !.ends = @ - 1]

-----------------------------------------------------------------------------
(* The other end of the websocket. *)

(* A receiver that lags loses the oldest messages without a word. *)
WsRawReceiver(inbox, cmd) ==
  Append(IF Len(inbox) = Capacity THEN Tail(inbox) ELSE inbox, cmd)

send_command(c) ==
  /\ left.commands > 0 /\ ~conn[c].closed
  /\ \E cmd \in Commands(left.ops) :
       conn' = [conn EXCEPT ![c].inbox = WsRawReceiver(@, cmd)]
  /\ left' = [left EXCEPT !.commands = @ - 1]
  /\ UNCHANGED cluster

close(c) ==
  /\ ~conn[c].closed
  /\ conn' = [conn EXCEPT ![c].closed = TRUE]
  /\ Ends /\ UNCHANGED cluster

(* The last handle is dropped, or shutdown is called. *)
shutdown(c) ==
  /\ ~conn[c].shutdown
  /\ conn' = [conn EXCEPT ![c].shutdown = TRUE]
  /\ Ends /\ UNCHANGED cluster

-----------------------------------------------------------------------------
(* The actor *)

Idle(c) == conn[c].running /\ conn[c].busy = None

(* The loop ends on a shutdown, or when the commands are over. *)
stop__ignores_end(c) ==
  /\ Idle(c) /\ conn[c].shutdown
  /\ conn' = [conn EXCEPT ![c].running = FALSE]
  /\ UNCHANGED <<cluster, left>>

stop(c) ==
  /\ Idle(c)
  /\ conn[c].shutdown \/ (conn[c].closed /\ conn[c].inbox = <<>>)
  /\ conn' = [conn EXCEPT ![c].running = FALSE]
  /\ UNCHANGED <<cluster, left>>

(* A command that is not allowed is refused at once and calls nothing. *)
handle_command__silent(c) ==
  /\ Idle(c) /\ conn[c].inbox # <<>>
  /\ LET cmd == Head(conn[c].inbox)
     IN conn' = [conn EXCEPT
          ![c].inbox = Tail(@), ![c].taken = Append(@, cmd),
          ![c].busy = IF Allowed(c, cmd) THEN [cmd |-> cmd, at |-> "call", new |-> None] ELSE None]
  /\ UNCHANGED <<cluster, left>>

handle_command(c) ==
  /\ Idle(c) /\ conn[c].inbox # <<>>
  /\ LET cmd == Head(conn[c].inbox)
     IN conn' = [conn EXCEPT
          ![c].inbox = Tail(@), ![c].taken = Append(@, cmd),
          ![c].busy = IF Allowed(c, cmd) THEN [cmd |-> cmd, at |-> "call", new |-> None] ELSE None,
          ![c].outbox = IF Allowed(c, cmd) THEN @ ELSE Append(@, Reply(cmd, "rejected", cmd.session))]
  /\ UNCHANGED <<cluster, left>>

Calls(c, ops) ==
  conn[c].busy # None /\ conn[c].busy.at = "call" /\ conn[c].busy.cmd.op \in ops

(* The reply to the command under way, which ends it: it is given to the   *)
(* channel once, and not again when that fails.                            *)
Answered(c, outcome, session) ==
  [conn EXCEPT ![c].busy = None,
               ![c].outbox = Append(@, Reply(conn[c].busy.cmd, outcome, session))]

(* A check that fails, or a call that does, is answered with its error. *)
call_failed(c) ==
  /\ Calls(c, Ops) /\ Fails
  /\ conn' = Answered(c, "failed", conn[c].busy.cmd.session)
  /\ UNCHANGED cluster

check__lets_in(c) ==
  /\ Calls(c, {"AccessSession", "AccessWorkspace"})
  /\ LET cmd == conn[c].busy.cmd
     IN \E outcome \in {"granted", "denied"} :
          conn' = [Answered(c, outcome, cmd.session) EXCEPT
                     ![c].sessions = @ \cup ({cmd.session} \ {None}),
                     ![c].workspaces = @ \cup ({cmd.workspace} \ {None})]
  /\ UNCHANGED <<cluster, left>>

(* check_session and check_workspace: the embedder decides. *)
check(c) ==
  /\ Calls(c, {"AccessSession", "AccessWorkspace"})
  /\ LET cmd == conn[c].busy.cmd
     IN \/ conn' = [Answered(c, "granted", cmd.session) EXCEPT
                      ![c].sessions = @ \cup ({cmd.session} \ {None}),
                      ![c].workspaces = @ \cup ({cmd.workspace} \ {None})]
        \/ conn' = Answered(c, "denied", cmd.session)
  /\ UNCHANGED <<cluster, left>>

Reads == {"GetSession", "QuerySessionVars", "GetWorkspace", "ListWorkspaceSessions",
          "QueryWorkspaceVars"}

read(c) ==
  /\ Calls(c, Reads)
  /\ conn' = Answered(c, "ok", conn[c].busy.cmd.session)
  /\ UNCHANGED <<cluster, left>>

write_session(c) ==
  /\ Calls(c, {"AppendSessionLog", "PatchSessionVars", "ReportUserInput"})
  /\ LET s == conn[c].busy.cmd.session
     IN /\ s \in cluster.records
        /\ conn' = Published(Answered(c, "ok", s), SessionEvent(s))
  /\ UNCHANGED <<cluster, left>>

(* The workspaces that hold the session keep its identifier. *)
remove_session(c) ==
  /\ Calls(c, {"RemoveSession"})
  /\ LET s == conn[c].busy.cmd.session
     IN /\ cluster' = [cluster EXCEPT !.records = @ \ {s}, !.loose = @ \cup {s}]
        /\ conn' = Published(Answered(c, "ok", s), SessionEvent(s))
  /\ UNCHANGED left

(* A workspace that is changed, removed, given a session or rid of one. *)
write_workspace(c) ==
  /\ Calls(c, {"PatchWorkspaceVars", "RemoveWorkspace"} \cup MemberOps)
  /\ LET cmd == conn[c].busy.cmd
     IN /\ cmd.workspace \in cluster.workspaces
        /\ cluster' =
             [cluster EXCEPT
                !.members[cmd.workspace] =
                  CASE cmd.op = "AddSessionToWorkspace" -> @ \cup {cmd.session}
                    [] cmd.op = "RemoveSessionFromWorkspace" -> @ \ {cmd.session}
                    [] cmd.op = "RemoveWorkspace" -> {}
                    [] OTHER -> @,
                !.loose = IF cmd.op = "AddSessionToWorkspace" THEN @ \cup {cmd.session} ELSE @,
                !.workspaces = IF cmd.op = "RemoveWorkspace" THEN @ \ {cmd.workspace} ELSE @]
        /\ conn' = Published(Answered(c, "ok", cmd.session), WorkspaceEvent(cmd.workspace))
  /\ UNCHANGED left

(* A call about a session or a workspace that does not exist fails. *)
call_refused(c) ==
  /\ Calls(c, Ops \ ({"RemoveSession", "AccessSession", "AccessWorkspace"} \cup Reads))
  /\ LET cmd == conn[c].busy.cmd
     IN /\ IF cmd.op = "CreateWorkspace" THEN cmd.workspace \in cluster.workspaces
           ELSE IF cmd.op \in SessionOps THEN cmd.session \notin cluster.records
           ELSE cmd.workspace \notin cluster.workspaces
        /\ conn' = Answered(c, "failed", cmd.session)
  /\ UNCHANGED <<cluster, left>>

(* The one who creates a workspace has access to it. *)
create_workspace(c) ==
  /\ Calls(c, {"CreateWorkspace"})
  /\ LET w == conn[c].busy.cmd.workspace
     IN /\ w \notin cluster.workspaces
        /\ cluster' = [cluster EXCEPT !.workspaces = @ \cup {w}]
        /\ conn' = Published([Answered(c, "ok", None) EXCEPT ![c].workspaces = @ \cup {w}],
                             WorkspaceEvent(w))
  /\ UNCHANGED left

(* handle_create_session: the workspace first, then the record, and the    *)
(* workspace again when the record could not be made.                      *)
create_session(c) ==
  /\ Calls(c, {"CreateSession"})
  /\ LET w == conn[c].busy.cmd.workspace
     IN /\ w \in cluster.workspaces
        /\ \E s \in Sessions \ cluster.issued :
             /\ cluster' = [cluster EXCEPT !.issued = @ \cup {s}, !.members[w] = @ \cup {s}]
             /\ conn' = Published([conn EXCEPT ![c].busy.at = "insert", ![c].busy.new = s],
                                  WorkspaceEvent(w))
  /\ UNCHANGED left

insert__no_detach(c) ==
  /\ conn[c].busy # None /\ conn[c].busy.at = "insert"
  /\ LET s == conn[c].busy.new
     IN \/ /\ cluster' = [cluster EXCEPT !.records = @ \cup {s}]
           /\ conn' = Published([Answered(c, "ok", s) EXCEPT ![c].sessions = @ \cup {s}],
                                SessionEvent(s))
           /\ UNCHANGED left
        \/ Fails /\ conn' = Answered(c, "failed", s) /\ UNCHANGED cluster

insert(c) ==
  /\ conn[c].busy # None /\ conn[c].busy.at = "insert"
  /\ LET s == conn[c].busy.new
     IN \/ /\ cluster' = [cluster EXCEPT !.records = @ \cup {s}]
           /\ conn' = Published([Answered(c, "ok", s) EXCEPT ![c].sessions = @ \cup {s}],
                                SessionEvent(s))
           /\ UNCHANGED left
        \/ Fails /\ conn' = [conn EXCEPT ![c].busy.at = "detach"] /\ UNCHANGED cluster

detach(c) ==
  /\ conn[c].busy # None /\ conn[c].busy.at = "detach"
  /\ LET s == conn[c].busy.new
         w == conn[c].busy.cmd.workspace
     IN \/ /\ cluster' = [cluster EXCEPT !.members[w] = @ \ {s}]
           /\ conn' = Published(Answered(c, "failed", s), WorkspaceEvent(w))
           /\ UNCHANGED left
        \/ /\ Fails /\ conn' = Answered(c, "failed", s)
           /\ cluster' = [cluster EXCEPT !.loose = @ \cup {s}]

Wanted(c, e) ==
  e.id \in IF e.kind = "session" THEN conn[c].sessions ELSE conn[c].workspaces

handle_network_message(c) ==
  /\ Idle(c) /\ conn[c].events # <<>>
  /\ LET e == Head(conn[c].events)
     IN conn' = [conn EXCEPT ![c].events = Tail(@),
                             ![c].outbox = IF Wanted(c, e) THEN Append(@, e) ELSE @]
  /\ UNCHANGED <<cluster, left>>

-----------------------------------------------------------------------------
create(c) ==
  [running |-> TRUE, shutdown |-> FALSE, closed |-> FALSE, inbox |-> <<>>, outbox |-> <<>>,
   events |-> <<>>, busy |-> None, sessions |-> {}, workspaces |-> {}, taken |-> <<>>]

Init ==
  /\ conn = [c \in Conns |-> create(c)]
  /\ cluster = [records |-> UNION Range(Stored), issued |-> UNION Range(Stored),
                workspaces |-> {w \in Workspaces : Stored[w] # {}},
                members |-> Stored, loose |-> {}]
  /\ left \in Mixes

Call(c) ==
  \/ call_failed(c) \/ check(c) \/ read(c) \/ write_session(c) \/ remove_session(c)
  \/ write_workspace(c) \/ call_refused(c) \/ create_workspace(c) \/ create_session(c)
  \/ insert(c) \/ detach(c)

run(c) == stop(c) \/ handle_command(c) \/ handle_network_message(c) \/ Call(c)

Next == \E c \in Conns : send_command(c) \/ close(c) \/ shutdown(c) \/ run(c)

(* The runtime goes on with an actor that can, the clients answer. *)
Fairness == \A c \in Conns : WF_vars(run(c))

Spec == Init /\ [][Next]_vars /\ Fairness

-----------------------------------------------------------------------------
Relayed == [kind : {"session"}, id : Sessions] \cup [kind : {"workspace"}, id : Workspaces]
Replies ==
  [kind : {"reply"}, op : Ops, outcome : {"ok", "granted", "denied", "failed", "rejected"},
   session : Sessions \cup {None}, workspace : Workspaces \cup {None}]
Busy == [cmd : Commands(Ops), at : {"call", "insert", "detach"}, new : Sessions \cup {None}]

ASSUME NoCommandAssumption == None \notin Busy

Actor ==
  [running : BOOLEAN, shutdown : BOOLEAN, closed : BOOLEAN, inbox : Seq(Commands(Ops)),
   outbox : Seq(Relayed \cup Replies), events : Seq(Relayed), busy : Busy \cup {None},
   sessions : SUBSET Sessions, workspaces : SUBSET Workspaces, taken : Seq(Commands(Ops))]
Cluster ==
  [records : SUBSET Sessions, workspaces : SUBSET Workspaces, issued : SUBSET Sessions,
   loose : SUBSET Sessions, members : [Workspaces -> SUBSET Sessions]]

TypeOK ==
  /\ conn \in [Conns -> Actor]
  /\ cluster \in Cluster
  /\ left \in [ops : SUBSET Ops, commands : Nat, fail : Nat, ends : Nat]

(* The reply r gave access to what the event e is about. *)
Gives(r, e) ==
  /\ r.kind = "reply"
  /\ IF e.kind = "session"
     THEN /\ r.session = e.id
          /\ \/ r.op = "AccessSession" /\ r.outcome = "granted"
             \/ r.op = "CreateSession" /\ r.outcome = "ok"
     ELSE /\ r.workspace = e.id
          /\ \/ r.op = "AccessWorkspace" /\ r.outcome = "granted"
             \/ r.op = "CreateWorkspace" /\ r.outcome = "ok"

(* Something an actor sent before place i gave access to what e is about. *)
Gave(c, i, e) == \E j \in 1 .. i - 1 : Gives(conn[c].outbox[j], e)

(* The events of a session or a workspace follow, on a connection, the     *)
(* reply that gave that connection access to it or created it: the filter  *)
(* of handle_network_message and the one place where the sets grow, though *)
(* the events of a creation are published before it is answered.           *)
RelayedAfterGrant ==
  \A c \in Conns : \A i \in DOMAIN conn[c].outbox :
    conn[c].outbox[i].kind # "reply" => Gave(c, i, conn[c].outbox[i])

(* The places of the replies in what an actor sent. *)
Answers(c) == {i \in DOMAIN conn[c].outbox : conn[c].outbox[i].kind = "reply"}

(* The actor gives its channel one reply for each command it took, in the  *)
(* same order, whatever it relays between them: the protocol has no        *)
(* identifier to match them.                                               *)
RepliesInOrder ==
  \A c \in Conns :
    /\ Len(conn[c].taken) - Cardinality(Answers(c)) = IF conn[c].busy = None THEN 0 ELSE 1
    /\ \A i \in Answers(c) :
         conn[c].outbox[i].op = conn[c].taken[Cardinality({j \in Answers(c) : j <= i})].op

(* A workspace names a session without a record only while it is being     *)
(* created, or once somebody removed the session, added it by its name, or *)
(* both the insertion and its compensation failed (handle_create_session). *)
ReferenceHasRecord ==
  \A w \in Workspaces : \A s \in cluster.members[w] \ cluster.records :
    \/ s \in cluster.loose
    \/ \E c \in Conns : conn[c].busy # None /\ conn[c].busy.new = s

(* The actor of a connection that closes ends, after the commands that are *)
(* left: run must break when the stream does.                              *)
ClosedActorEnds == \A c \in Conns : conn[c].closed ~> ~conn[c].running
=============================================================================
