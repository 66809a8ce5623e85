----------------------------- MODULE Messaging -----------------------------
(***************************************************************************)
(* How the nodes talk: the remote calls (rpc), the post office and its two *)
(* routers (post), the event bus (events), the task that owns the swarm    *)
(* (network/swarm.rs) and the directory it feeds (annuary).                *)
(*                                                                         *)
(* A local process has one client and one server of calls on one post      *)
(* office; in a cluster every node has its own, and the swarm between      *)
(* them.  Each subscriber of a broadcast channel has a buffer of its own,  *)
(* and loses its oldest messages when it lags.                             *)
(***************************************************************************)
EXTENDS Integers, Sequences, FiniteSets, TLC

CONSTANTS Nodes,
          Here,        \* the node of a local process
          Default,     \* NodeId::default, no node of a cluster
          Names,       \* procedures the application registers
          Capacity,    \* messages a lagging subscriber still finds
          MaxInputs    \* by mode: calls, registrations, events, connections made ...

ASSUME MessagingAssumption == Here \in Nodes /\ Default \notin Nodes /\ Capacity \in Nat \ {0}

VARIABLES mode,      \* "local" or "network": the router of the process
          loop,      \* the client's and the server's run: new, subscribed, ready
          inbox,     \* buffers of those two subscribers, local and network
          executors, \* procedures registered on each server
          tasks,     \* handle_call tasks under way
          ran,       \* history: the calls servers took, and how often
          calls,     \* history: every call made, and its outcome
          tracked,   \* RpcClient.tracked
          lost,      \* history: calls lost to a lagging buffer or a panic
          commands,  \* commands the swarm's task has not taken yet
          swarm,     \* that task: running, stopped or panicked
          conn,      \* connections of the swarm
          wire,      \* messages between two swarms
          news,      \* events the directory has not handled yet
          peers,     \* Annuary.peers
          gossip,    \* nodes whose swarm is subscribed to the topic
          streams,   \* nodes that have opened a stream of the topic
          feed,      \* its buffers, local and network
          seen,      \* history: events the router's stream has given
          given,     \* events the typed stream has given
          emitted,   \* history: events emitted, and to which streams
          inputs     \* what the application and the network did so far

rpcvars == <<loop, inbox, executors, tasks, calls, tracked, lost>>
netvars == <<commands, swarm, conn, wire>>
dirvars == <<news, peers>>
busvars == <<gossip, streams, feed, seen, given, emitted>>
messagingVars == <<mode, ran, rpcvars, netvars, dirvars, busvars, inputs>>

Role == {"client", "server"}
Via == {"local", "network"}
GetCapabilities == "GetCapabilities"
Procedures == Names \cup {GetCapabilities}
Active == IF mode = "local" THEN {Here} ELSE Nodes

(* A broadcast channel keeps the last Capacity messages of a subscriber. *)
Push(buffer, x) == IF Len(buffer) < Capacity THEN Append(buffer, x)
                   ELSE Append(Tail(buffer), x)
Lagged(buffer) == IF Len(buffer) < Capacity THEN {} ELSE {Head(buffer).id}

(* A subscriber receives from its subscription on. *)
Subscribed(n) == {r \in Role : loop[<<n, r>>] \in {"subscribed", "ready"}}

(* NetworkStrategy::execute: a command of n for the task of its swarm. *)
execute(n, cmd) == [commands EXCEPT ![n] = Append(@, cmd)]

-----------------------------------------------------------------------------
(* The post office *)

Deliver(box, n, via, msg) ==
  [k \in DOMAIN box |->
     IF k[1] = n /\ k[2] \in Subscribed(n) /\ k[3] = via THEN Push(box[k], msg) ELSE box[k]]

LaggedBy(n, via) == UNION {Lagged(inbox[<<n, r, via>>]) : r \in Subscribed(n)}

(* Every envelope has the default node as its source. *)
Envelope(dest, kind, id, result) ==
  [dest |-> dest, source |-> Default, kind |-> kind, id |-> id, result |-> result]

(* A router that gives every message to its own node as well. *)
send__both(n, msg) ==
  /\ inbox' = Deliver(inbox, n, "local", msg)
  /\ lost' = lost \cup LaggedBy(n, "local")
  /\ commands' = IF mode = "local" \/ msg.dest = n THEN commands
                 ELSE execute(n, [type |-> "Send", msg |-> msg])

(* Without a network the destination plays no part; with one, the node's   *)
(* own messages stay local and the others are handed to the swarm.         *)
send(n, msg) ==
  IF mode = "local" \/ msg.dest = n
  THEN /\ inbox' = Deliver(inbox, n, "local", msg)
       /\ lost' = lost \cup LaggedBy(n, "local")
       /\ UNCHANGED commands
  ELSE /\ commands' = execute(n, [type |-> "Send", msg |-> msg])
       /\ UNCHANGED <<inbox, lost>>

-----------------------------------------------------------------------------
(* Remote calls *)

(* run announces itself before its subscription. *)
run_starts__announced_first(n, r) ==
  /\ loop[<<n, r>>] = "new"
  /\ loop' = [loop EXCEPT ![<<n, r>>] = "announced"]
  /\ UNCHANGED <<mode, ran, inbox, executors, tasks, calls, tracked, lost, netvars, dirvars, busvars>>

(* run subscribes, then announces that it is ready. *)
run_starts(n, r) ==
  /\ loop[<<n, r>>] = "new"
  /\ loop' = [loop EXCEPT ![<<n, r>>] = "subscribed"]
  /\ UNCHANGED <<mode, ran, inbox, executors, tasks, calls, tracked, lost, netvars, dirvars, busvars>>

run_ready(n, r) ==
  /\ loop[<<n, r>>] = "subscribed"
  /\ loop' = [loop EXCEPT ![<<n, r>>] = "ready"]
  /\ UNCHANGED <<mode, ran, inbox, executors, tasks, calls, tracked, lost, netvars, dirvars, busvars>>

Waited(n) == \A r \in Role : loop[<<n, r>>] \in {"announced", "ready"}

(* The call is tracked before it is sent. *)
Call(n, dest, name) ==
  LET id == Len(calls) + 1
  IN /\ calls' = Append(calls, [node |-> n, dest |-> dest, name |-> name, kept |-> TRUE,
                                sure |-> Waited(n), result |-> "none"])
     /\ tracked' = [tracked EXCEPT ![n] = @ \cup {id}]
     /\ send(n, Envelope(dest, "Call", id, "none"))

call(n, dest, name) ==
  /\ Call(n, dest, name)
  /\ UNCHANGED <<mode, ran, loop, executors, tasks, swarm, conn, wire, dirvars, busvars>>

(* The caller's future is dropped: its tracker stays. *)
cancel(id) ==
  /\ calls[id].kept /\ calls[id].result = "none"
  /\ calls' = [calls EXCEPT ![id].kept = FALSE]
  /\ UNCHANGED <<mode, ran, loop, inbox, executors, tasks, tracked, lost, netvars, dirvars, busvars>>

(* A reply that is not tracked, or not any more, is ignored.  The answer   *)
(* to the directory's own call makes the peer known.                       *)
handle_reply(n, msg) ==
  IF msg.id \notin tracked[n] THEN UNCHANGED <<calls, tracked, peers>>
  ELSE /\ calls' = [calls EXCEPT ![msg.id].result = msg.result]
       /\ tracked' = [tracked EXCEPT ![n] = @ \ {msg.id}]
       /\ peers' = IF calls[msg.id].name = GetCapabilities /\ msg.result = "ok"
                   THEN [peers EXCEPT ![n] = @ \cup {calls[msg.id].dest}] ELSE peers

client_run(n, via) ==
  LET box == inbox[<<n, "client", via>>]
  IN /\ box # <<>>
     /\ inbox' = [inbox EXCEPT ![<<n, "client", via>>] = Tail(@)]
     /\ IF Head(box).kind = "Reply" THEN handle_reply(n, Head(box))
        ELSE UNCHANGED <<calls, tracked, peers>>
     /\ UNCHANGED <<mode, ran, loop, executors, tasks, lost, netvars, news, busvars>>

(* The task that handles a call is spawned, and not waited for. *)
server_run(n, via) ==
  LET box == inbox[<<n, "server", via>>]
  IN /\ box # <<>>
     /\ inbox' = [inbox EXCEPT ![<<n, "server", via>>] = Tail(@)]
     /\ IF Head(box).kind = "Call"
        THEN /\ tasks' = tasks \cup {[node |-> n, id |-> Head(box).id, source |-> Head(box).source]}
             /\ ran' = ran \cup {[node |-> n, id |-> Head(box).id,
                                  nth |-> Cardinality({r \in ran : r.id = Head(box).id}) + 1]}
        ELSE UNCHANGED <<tasks, ran>>
     /\ UNCHANGED <<mode, loop, executors, calls, tracked, lost, netvars, dirvars, busvars>>

(* The answer goes to the source of the envelope. *)
handle_call(t) ==
  /\ tasks' = tasks \ {t}
  /\ send(t.node, Envelope(t.source, "Reply", t.id,
            IF calls[t.id].name \in executors[t.node] THEN "ok" ELSE "NoExecutorFound"))
  /\ UNCHANGED <<mode, ran, loop, executors, calls, tracked, swarm, conn, wire, dirvars, busvars>>

(* Arguments that do not parse panic the task, and there is no reply. *)
execute_panics(t) ==
  /\ calls[t.id].name \in executors[t.node] \cap Names
  /\ tasks' = tasks \ {t}
  /\ lost' = lost \cup {t.id}
  /\ UNCHANGED <<mode, ran, loop, inbox, executors, calls, tracked, netvars, dirvars, busvars>>

register(n, name) ==
  /\ name \notin executors[n]
  /\ executors' = [executors EXCEPT ![n] = @ \cup {name}]
  /\ UNCHANGED <<mode, ran, loop, inbox, tasks, calls, tracked, lost, netvars, dirvars, busvars>>

-----------------------------------------------------------------------------
(* The swarm.  A message to the default node cannot be addressed: the      *)
(* conversion to a peer panics in the task that owns the swarm.            *)

execute_command(n) ==
  LET cmd == Head(commands[n])
      Reach(m) == m # n /\ {n, m} \in conn
      Published == {[type |-> "event", from |-> n, to |-> m, event |-> cmd.event] :
                      m \in {x \in gossip : Reach(x)}}
  IN /\ commands[n] # <<>> /\ swarm[n] = "running"
     /\ commands' = [commands EXCEPT ![n] = Tail(@)]
     /\ swarm' = [swarm EXCEPT ![n] =
                    CASE cmd.type = "Shutdown" -> "stopped"
                      [] cmd.type = "Send" -> IF cmd.msg.dest = Default THEN "panicked" ELSE @
                      [] OTHER -> @]
     /\ wire' = CASE cmd.type = "Send" /\ Reach(cmd.msg.dest) ->
                       wire \cup {[type |-> "message", from |-> n, to |-> cmd.msg.dest,
                                   msg |-> cmd.msg]}
                  [] cmd.type = "Publish" -> wire \cup Published
                  [] OTHER -> wire
     /\ gossip' = IF cmd.type = "Subscribe" THEN gossip \cup {n} ELSE gossip
     /\ UNCHANGED <<mode, ran, rpcvars, conn, dirvars, streams, feed, seen, given, emitted>>

(* ReceivedMessage and EventReceived, to every subscriber of the swarm. *)
receive(w) ==
  /\ swarm[w.to] = "running"
  /\ wire' = wire \ {w}
  /\ IF w.type = "message"
     THEN /\ inbox' = Deliver(inbox, w.to, "network", w.msg)
          /\ lost' = lost \cup LaggedBy(w.to, "network")
          /\ UNCHANGED feed
     ELSE /\ feed' = IF w.to \in streams
                     THEN [feed EXCEPT ![w.to]["network"] = Push(@, w.event)] ELSE feed
          /\ UNCHANGED <<inbox, lost>>
  /\ UNCHANGED <<mode, ran, loop, executors, tasks, calls, tracked, commands, swarm, conn,
                 dirvars, gossip, streams, seen, given, emitted>>

shutdown(n) ==
  /\ \A i \in DOMAIN commands[n] : commands[n][i].type # "Shutdown"
  /\ swarm[n] = "running"
  /\ commands' = execute(n, [type |-> "Shutdown"])
  /\ UNCHANGED <<mode, ran, rpcvars, swarm, conn, wire, dirvars, busvars>>

(* Every node n of ns hears that about[n] was connected or disconnected. *)
Tell(ns, type, about) ==
  news' = [n \in Nodes |-> IF n \in ns THEN Append(news[n], [type |-> type, node |-> about[n]])
                           ELSE news[n]]

ConnectionEstablished(n, m) ==
  LET other == [x \in Nodes |-> IF x = n THEN m ELSE n]
  IN /\ {n, m} \notin conn /\ swarm[n] = "running" /\ swarm[m] = "running"
     /\ conn' = conn \cup {{n, m}}
     /\ Tell({n, m}, "NodeConnected", other)
     /\ UNCHANGED <<mode, ran, rpcvars, commands, swarm, wire, peers, busvars>>

(* A node whose task has ended notices nothing. *)
ConnectionClosed(n, m) ==
  LET other == [x \in Nodes |-> IF x = n THEN m ELSE n]
  IN /\ {n, m} \in conn
     /\ conn' = conn \ {{n, m}}
     /\ wire' = {w \in wire : {w.from, w.to} # {n, m}}
     /\ Tell({x \in {n, m} : swarm[x] = "running"}, "NodeDisconnected", other)
     /\ UNCHANGED <<mode, ran, rpcvars, commands, swarm, peers, busvars>>

(* The record of a peer expired, whether or not it is connected. *)
MdnsExpired(n, m) ==
  /\ swarm[n] = "running"
  /\ Tell({n}, "NodeDisconnected", [x \in Nodes |-> m])
  /\ UNCHANGED <<mode, ran, rpcvars, netvars, peers, busvars>>

-----------------------------------------------------------------------------
(* The directory *)

(* on_node_connected asks the peer what it can do. *)
on_node_connected(n) ==
  /\ news[n] # <<>> /\ Head(news[n]).type = "NodeConnected"
  /\ news' = [news EXCEPT ![n] = Tail(@)]
  /\ Call(n, Head(news[n]).node, GetCapabilities)
  /\ UNCHANGED <<mode, ran, loop, executors, tasks, swarm, conn, wire, peers, busvars>>

on_node_disconnected(n) ==
  /\ news[n] # <<>> /\ Head(news[n]).type = "NodeDisconnected"
  /\ news' = [news EXCEPT ![n] = Tail(@)]
  /\ peers' = [peers EXCEPT ![n] = @ \ {Head(news[n]).node}]
  /\ UNCHANGED <<mode, ran, rpcvars, netvars, busvars>>

-----------------------------------------------------------------------------
(* The event bus: one topic, at most one stream of it per node *)

(* The bytes are those of a T. *)
to_vec(T, x) == [json |-> T, value |-> x]

(* EventEnvelope::deserialize reads the payload as a T, or fails. *)
deserialize(T, bytes) == bytes.json = T

(* The stream is made, then the topic subscribed: locally nothing is left  *)
(* to do, the swarm will subscribe when it takes the command.              *)
stream_events(n) ==
  /\ n \notin streams
  /\ streams' = streams \cup {n}
  /\ commands' = IF mode = "local" THEN commands
                 ELSE execute(n, [type |-> "Subscribe"])
  /\ UNCHANGED <<mode, ran, rpcvars, swarm, conn, wire, dirvars, gossip, feed, seen, given, emitted>>

(* A router that also publishes to its own node's network stream. *)
emit__echoed(n) ==
  LET e == Len(emitted) + 1
  IN /\ emitted' = Append(emitted, [node |-> n, open |-> n \in streams, payload |-> to_vec("E", e)])
     /\ feed' = IF n \in streams
                THEN [feed EXCEPT ![n]["local"] = Push(@, e), ![n]["network"] = Push(@, e)]
                ELSE feed
     /\ UNCHANGED <<mode, ran, rpcvars, netvars, dirvars, gossip, streams, seen, given>>

(* To the local channel, and to the swarm; the payload is the bare event.  *)
emit(n) ==
  LET e == Len(emitted) + 1
  IN /\ emitted' = Append(emitted, [node |-> n, open |-> n \in streams, payload |-> to_vec("E", e)])
     /\ feed' = IF n \in streams THEN [feed EXCEPT ![n]["local"] = Push(@, e)] ELSE feed
     /\ commands' = IF mode = "local" THEN commands
                    ELSE execute(n, [type |-> "Publish", event |-> e])
     /\ UNCHANGED <<mode, ran, rpcvars, swarm, conn, wire, dirvars, gossip, streams, seen, given>>

(* The router's stream gives an event; the typed stream made of it yields  *)
(* an EventEnvelope<E>, and drops what does not read as one.               *)
next_event(n, via) ==
  LET e == Head(feed[n][via])
  IN /\ feed[n][via] # <<>>
     /\ feed' = [feed EXCEPT ![n][via] = Tail(@)]
     /\ seen' = [seen EXCEPT ![n] = Append(@, e)]
     /\ given' = [given EXCEPT ![n] =
                    IF deserialize("EventEnvelope<E>", emitted[e].payload) THEN @ \cup {e} ELSE @]
     /\ UNCHANGED <<mode, ran, rpcvars, netvars, dirvars, gossip, streams, emitted>>

(* The swarm's channel carries all its events: the others push an event of *)
(* the topic out of the buffer of a stream that lags.                      *)
lag(n) ==
  /\ feed[n]["network"] # <<>>
  /\ feed' = [feed EXCEPT ![n]["network"] = Tail(@)]
  /\ UNCHANGED <<mode, ran, rpcvars, netvars, dirvars, gossip, streams, seen, given, emitted>>

-----------------------------------------------------------------------------
(* The nodes of a cluster are past their start-up; that of a local process *)
(* is part of the behaviour.                                               *)
MessagingInit ==
  /\ mode \in {"local", "network"}
  /\ loop = [k \in Nodes \X Role |-> IF mode = "local" THEN "new" ELSE "ready"]
  /\ inbox = [k \in Nodes \X Role \X Via |-> <<>>]
  /\ executors = [n \in Nodes |-> {GetCapabilities}]
  /\ tasks = {} /\ ran = {} /\ calls = <<>> /\ tracked = [n \in Nodes |-> {}] /\ lost = {}
  /\ commands = [n \in Nodes |-> <<>>]
  /\ swarm = [n \in Nodes |-> IF mode = "local" THEN "none" ELSE "running"]
  /\ conn = {} /\ wire = {}
  /\ news = [n \in Nodes |-> <<>>] /\ peers = [n \in Nodes |-> {}]
  /\ gossip = {}
  /\ streams = {} /\ feed = [n \in Nodes |-> [via \in Via |-> <<>>]]
  /\ seen = [n \in Nodes |-> <<>>] /\ given = [n \in Nodes |-> {}]
  /\ emitted = <<>> /\ inputs = 0

(* What the tasks of the processes do once there is something to do. *)
Progress ==
  \/ \E n \in Active, r \in Role : run_starts(n, r) \/ run_ready(n, r)
  \/ \E n \in Active, via \in Via : client_run(n, via) \/ server_run(n, via) \/ next_event(n, via)
  \/ \E t \in tasks : handle_call(t) \/ execute_panics(t)
  \/ \E n \in Active : \/ execute_command(n) \/ on_node_connected(n) \/ on_node_disconnected(n)
                        \/ lag(n)
  \/ \E w \in wire : receive(w)

(* What the application and the network decide. *)
Environment ==
  \/ \E n \in Active, name \in Names :
       \/ \E dest \in Active : call(n, dest, name)
       \/ register(n, name)
  \/ \E id \in DOMAIN calls : cancel(id)
  \/ \E n \in Active : stream_events(n) \/ emit(n)
  \/ mode = "network" /\ \E n \in Nodes :
       \/ shutdown(n)
       \/ \E m \in Nodes \ {n} : \/ ConnectionEstablished(n, m) \/ ConnectionClosed(n, m)
                                 \/ MdnsExpired(n, m)

MessagingNext ==
  \/ Progress /\ UNCHANGED inputs
  \/ inputs < MaxInputs[mode] /\ inputs' = inputs + 1 /\ Environment

MessagingSpec == MessagingInit /\ [][MessagingNext]_messagingVars

-----------------------------------------------------------------------------
MessagingTypeOK ==
  /\ \A k \in DOMAIN inbox : Len(inbox[k]) <= Capacity
  /\ \A n \in Nodes : tracked[n] \subseteq DOMAIN calls /\ peers[n] \subseteq Nodes \ {n}
  /\ lost \subseteq DOMAIN calls
  /\ \A t \in tasks : t.id \in DOMAIN calls
  /\ \A n \in Nodes : swarm[n] \in {"none", "running", "stopped", "panicked"}

(* A call is taken by one server, that of the node it is addressed to, and *)
(* by that one once: a message stays on its node or goes to the swarm,     *)
(* never both (send, receive, server_run).                                 *)
ExecutedOnceByAddressee ==
  \A r \in ran :
    /\ r.node = calls[r.id].dest
    /\ \A q \in ran : q.id = r.id => q = r

Boxed(kind, role, id) ==
  \E via \in Via : \E i \in DOMAIN inbox[<<Here, role, via>>] :
     inbox[<<Here, role, via>>][i].kind = kind /\ inbox[<<Here, role, via>>][i].id = id

(* In a local process a call made once both loops are ready is never       *)
(* forgotten: until it is answered, the call, its task or its reply is     *)
(* somewhere, unless a buffer lagged or the procedure panicked.            *)
WaitingCallIsUnderWay ==
  mode = "local" => \A id \in DOMAIN calls :
    calls[id].sure /\ calls[id].result = "none" /\ id \notin lost =>
      \/ Boxed("Call", "server", id) \/ Boxed("Reply", "client", id)
      \/ \E t \in tasks : t.id = id

(* The router's stream gives an event once at most: the local and the      *)
(* network flow that it merges do not overlap, whatever the buffers lose.  *)
StreamGivesEventsOnce ==
  \A n \in streams :
    LET all == seen[n] \o feed[n]["local"] \o feed[n]["network"]
    IN \A i, j \in DOMAIN all : i # j => all[i] # all[j]

(* An event is visible to the subscribers of its own node: emitted while   *)
(* the stream was open, it was given or waits in the buffer, as long as    *)
(* that buffer cannot have lagged (emit and stream_events of the EventBus).*)
OwnEventsAreVisible ==
  Len(emitted) <= Capacity =>
    \A e \in DOMAIN emitted : emitted[e].open =>
      \/ e \in given[emitted[e].node]
      \/ \E i \in DOMAIN feed[emitted[e].node]["local"] : feed[emitted[e].node]["local"][i] = e
=============================================================================
