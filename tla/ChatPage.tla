------------------------------ MODULE ChatPage ------------------------------
(***************************************************************************)
(* The chat page of marie-web-example (components/chat_view.rs, with the   *)
(* form of marie-leptos/hitl_form.rs and the socket of ws_client.rs), the  *)
(* loop of marie-axum/ws.rs that serves its websocket and the server       *)
(* functions it calls (api.rs, hitl_upload.rs).  The cluster behind them   *)
(* is external.                                                            *)
(*                                                                         *)
(* The websocket is opened once, when the page is mounted.  When it is     *)
(* lost, serve ends with its registry and nobody opens another: the page   *)
(* stays as it is, and what it sends from then on goes nowhere.            *)
(*                                                                         *)
(* A click runs to its end and spawns tasks; a task runs between two       *)
(* awaits without being interrupted.  A task either sends on the websocket *)
(* or calls a server function, which answers when it likes: calls are      *)
(* answered in any order, the websocket is FIFO both ways.                 *)
(***************************************************************************)
EXTENDS Integers, SequencesExt, FiniteSets

CONSTANTS Sessions, Workspaces, FormIds, Paths,
          None,        \* nothing opened, selected or received
          Budgets      \* mixes of clicks, events of the cluster and failures

ASSUME ChatPageAssumption ==
  /\ None \notin Sessions \cup Workspaces \cup FormIds \cup Paths
  /\ Budgets \subseteq [{"open", "message", "data", "form", "event", "fail"} -> Nat]

VARIABLES page,      \* the signals and the socket cell of ChatView
          spawned,   \* the tasks spawn_local started and has not finished
          toServer,  \* messages under way on the websocket
          toPage,
          conn,      \* serve: open or not, the registry, the sessions acquired
          cluster,   \* external: what the server functions read and write
          left       \* what is left of the budget

chatVars == <<page, spawned, toServer, toPage, conn, cluster, left>>

Spend(kind) == left[kind] > 0 /\ left' = [left EXCEPT ![kind] = @ - 1]

Spawn(task) == Append(spawned, task)
Done(i) == RemoveAt(spawned, i)

(* ClientMessage and ServerMessage, the events of a session among them. *)
ClientMessages == {"SubscribeSession", "GetFrame", "HitlAnswer", "SendMessage", "GetMode"}
ServerMessages == {"LogAppended", "ValueChanged", "ValueRemoved", "ModeChanged",
                   "FrameStatusChanged", "HitlRequest", "Frame", "Ack", "Error",
                   "MessageSent", "Mode"}

-----------------------------------------------------------------------------
(* The websocket.  A task that finds the cell empty, because another task  *)
(* is sending, ends without a word; the one that took the socket sends its *)
(* messages one after the other, whatever became of the one before, and    *)
(* puts it back.                                                           *)

Sending(messages) == [op |-> "send", messages |-> messages, holds |-> FALSE]

connect ==
  /\ page.cell = "unset"
  /\ \/ /\ page' = [page EXCEPT !.cell = "full"] /\ UNCHANGED left
        /\ conn' = [conn EXCEPT !.open = TRUE]
     \/ page' = [page EXCEPT !.cell = "absent"] /\ Spend("fail") /\ UNCHANGED conn
  /\ UNCHANGED <<spawned, toServer, toPage, cluster>>

take(i) ==
  /\ spawned[i].op = "send" /\ ~spawned[i].holds
  /\ IF page.cell = "full"
     THEN /\ page' = [page EXCEPT !.cell = "taken"]
          /\ spawned' = [spawned EXCEPT ![i].holds = TRUE]
     ELSE /\ spawned' = Done(i)
          /\ UNCHANGED page
  /\ UNCHANGED <<toServer, toPage, conn, cluster, left>>

send(i) ==
  LET messages == spawned[i].messages IN
  /\ spawned[i].op = "send" /\ spawned[i].holds
  /\ \/ conn.open /\ toServer' = Append(toServer, Head(messages)) /\ UNCHANGED left
     \/ conn.open /\ UNCHANGED toServer /\ Spend("fail")
     \/ ~conn.open /\ UNCHANGED <<toServer, left>>
  /\ IF Len(messages) = 1
     THEN page' = [page EXCEPT !.cell = "full"] /\ spawned' = Done(i)
     ELSE UNCHANGED page /\ spawned' = [spawned EXCEPT ![i].messages = Tail(messages)]
  /\ UNCHANGED <<toPage, conn, cluster>>

-----------------------------------------------------------------------------
(* What the page does with a message: on_message of ensure_socket. *)

Ours(session) == page.current = session

log_appended(m) ==
  page' = IF Ours(m.session)
          THEN [page EXCEPT !.logs = Append(@, [session |-> m.session, n |-> m.n])]
          ELSE page

value_changed(m) ==
  page' = IF Ours(m.session) THEN [page EXCEPT !.vars = <<m.session, m.n>>] ELSE page

mode_changed(m) ==
  page' = IF Ours(m.session) THEN [page EXCEPT !.mode = m.session] ELSE page

hitl_request(m) ==
  page' = IF m.form \in ToSet(page.pending) THEN page
          ELSE [page EXCEPT !.pending = Append(@, m.form)]

(* A frame is shown whatever the session it is of, unless the session has  *)
(* none; a status change only has the frame fetched.  A variable that is   *)
(* removed is one more change of the variables.                            *)
on_message ==
  /\ toPage # <<>>
  /\ LET m == Head(toPage)
     IN /\ \/ m.type = "LogAppended" /\ log_appended(m)
           \/ m.type \in {"ValueChanged", "ValueRemoved"} /\ value_changed(m)
           \/ m.type \in {"ModeChanged", "Mode"} /\ mode_changed(m)
           \/ m.type = "HitlRequest" /\ hitl_request(m)
           \/ /\ m.type = "Frame"
              /\ page' = [page EXCEPT !.frames = IF m.found THEN @ \cup {m.session} ELSE @]
           \/ m.type \in {"FrameStatusChanged", "Ack", "Error", "MessageSent"}
              /\ UNCHANGED page
        /\ spawned' = IF m.type = "FrameStatusChanged" /\ Ours(m.session)
                      THEN Spawn(Sending(<<[type |-> "GetFrame", session |-> m.session]>>))
                      ELSE spawned
  /\ toPage' = Tail(toPage)
  /\ UNCHANGED <<toServer, conn, cluster, left>>

-----------------------------------------------------------------------------
(* The server's end of the websocket: serve, events and dispatch. *)

Push(m) == conn.open /\ toPage' = Append(toPage, m)

(* The loop of serve breaks: a message cannot be sent, or the stream of    *)
(* the client ends.  Its registry goes with it, and so does all that is    *)
(* under way to it; what is under way to the page still comes, or does     *)
(* not.                                                                    *)
serve_ends ==
  /\ conn.open /\ Spend("fail")
  /\ conn' = [conn EXCEPT !.open = FALSE, !.registry = {}]
  /\ toServer' = <<>> /\ toPage' \in {toPage, <<>>}
  /\ UNCHANGED <<page, spawned, cluster>>

(* subscribe_requests gives the forms of the whole cluster, once each; a   *)
(* form is remembered before it is sent.                                   *)
Forward(f, remembered) ==
  /\ conn' = [conn EXCEPT !.streamed = @ \cup {f}, !.registry = @ \cup remembered]
  /\ Push([type |-> "HitlRequest", form |-> f])
  /\ UNCHANGED <<page, spawned, toServer, cluster>>

async_stream_hitl__sent_first ==
  Spend("event") /\ \E f \in FormIds \ conn.streamed : Forward(f, {})

async_stream_hitl ==
  Spend("event") /\ \E f \in FormIds \ conn.streamed : Forward(f, {f})

(* SessionClient::subscribe gives the events of the sessions acquired. *)
session_event ==
  /\ Spend("event")
  /\ \E s \in conn.acquired :
       \/ /\ cluster' = [cluster EXCEPT !.logs[s] = @ + 1]
          /\ Push([type |-> "LogAppended", session |-> s, n |-> cluster.logs[s] + 1])
       \/ \E type \in {"ValueChanged", "ValueRemoved"} :
            /\ cluster' = [cluster EXCEPT !.vars[s] = @ + 1]
            /\ Push([type |-> type, session |-> s, n |-> cluster.vars[s] + 1])
       \/ Push([type |-> "ModeChanged", session |-> s]) /\ UNCHANGED cluster
       \/ Push([type |-> "FrameStatusChanged", session |-> s]) /\ UNCHANGED cluster
  /\ UNCHANGED <<page, spawned, toServer, conn>>

Ack == [type |-> "Ack"]
Error == [type |-> "Error"]

(* A form that was not sent to this connection, or was answered, is        *)
(* refused; one that is taken is gone, even if the answer is refused.      *)
hitl_answer(m) ==
  IF m.form \notin conn.registry
  THEN Push(Error) /\ UNCHANGED <<conn, cluster, left>>
  ELSE /\ conn' = [conn EXCEPT !.registry = @ \ {m.form}]
       /\ \/ /\ Push(Ack) /\ UNCHANGED left
             /\ cluster' = [cluster EXCEPT !.answered = Append(@, m)]
          \/ Push(Error) /\ Spend("fail") /\ UNCHANGED cluster

(* put_frame, then a job for the frame it put. *)
send_message(m) ==
  LET f == <<m.session, Cardinality({g \in cluster.frames : g[1] = m.session}) + 1>>
  IN \/ Push(Error) /\ Spend("fail") /\ UNCHANGED cluster
     \/ /\ cluster' = [cluster EXCEPT !.frames = @ \cup {f}]
        /\ Push(Error) /\ Spend("fail")
     \/ /\ cluster' = [cluster EXCEPT !.frames = @ \cup {f}, !.jobs = @ \cup {f}]
        /\ Push([type |-> "MessageSent"]) /\ UNCHANGED left

dispatch ==
  /\ toServer # <<>>
  /\ LET m == Head(toServer)
     IN \/ /\ m.type = "SubscribeSession"
           /\ \/ /\ conn' = [conn EXCEPT !.acquired = @ \cup {m.session}]
                 /\ Push(Ack) /\ UNCHANGED left
              \/ Push(Error) /\ Spend("fail") /\ UNCHANGED conn
           /\ UNCHANGED cluster
        \/ /\ m.type = "GetFrame" /\ UNCHANGED <<conn, cluster, left>>
           /\ \E found \in BOOLEAN :
                Push([type |-> "Frame", session |-> m.session, found |-> found])
        \/ /\ m.type = "GetMode" /\ Push([type |-> "Mode", session |-> m.session])
           /\ UNCHANGED <<conn, cluster, left>>
        \/ m.type = "HitlAnswer" /\ hitl_answer(m)
        \/ m.type = "SendMessage" /\ send_message(m) /\ UNCHANGED conn
  /\ toServer' = Tail(toServer)
  /\ UNCHANGED <<page, spawned>>

-----------------------------------------------------------------------------
(* Server functions: a task asks, the server answers (serve), the task     *)
(* goes on with what it got (resume).                                      *)

Calling(op, args) == [op |-> op, args |-> args, got |-> None]
Reply(i, value) == spawned' = [spawned EXCEPT ![i].got = [ok |-> TRUE, value |-> value]]
Failed(i) == spawned' = [spawned EXCEPT ![i].got = [ok |-> FALSE, value |-> None]]

(* Without a workspace the server makes up the name of a new one.  made:   *)
(* the sessions created since the page is mounted, each with an id of its  *)
(* own; the others exist already, or do not.                               *)
create_session(i) ==
  \E s \in Sessions \ cluster.made :
    \E w \in IF spawned[i].args = None THEN Workspaces \ cluster.workspaces
             ELSE {spawned[i].args} :
      /\ cluster' = [cluster EXCEPT !.made = @ \cup {s}, !.workspaces = @ \cup {w},
                                    !.workspace[s] = w]
      /\ Reply(i, <<w, s>>)

create_workspace(i) ==
  \E w \in Workspaces \ cluster.workspaces :
    cluster' = [cluster EXCEPT !.workspaces = @ \cup {w}] /\ Reply(i, w)

delete_workspace(i) ==
  /\ cluster' = [cluster EXCEPT !.workspaces = @ \ {spawned[i].args}]
  /\ Reply(i, "ok")

session_vars(i) == Reply(i, <<spawned[i].args, cluster.vars[spawned[i].args]>>) /\ UNCHANGED cluster
list_files(i) == Reply(i, spawned[i].args) /\ UNCHANGED cluster
session_workspace(i) == Reply(i, cluster.workspace[spawned[i].args]) /\ UNCHANGED cluster
workspace_vars(i) == Reply(i, {spawned[i].args}) /\ UNCHANGED cluster
set_workspace_var(i) == Reply(i, "ok") /\ UNCHANGED cluster

(* The holders of the session publish the change to those subscribed. *)
set_session_var(i) ==
  LET s == spawned[i].args
  IN /\ cluster' = [cluster EXCEPT !.vars[s] = @ + 1]
     /\ toPage' = IF conn.open /\ s \in conn.acquired
                  THEN Append(toPage, [type |-> "ValueChanged", session |-> s,
                                       n |-> cluster.vars[s] + 1])
                  ELSE toPage
     /\ Reply(i, "ok")

read_file(i) == Reply(i, cluster.files[spawned[i].args[1]][spawned[i].args[2]]) /\ UNCHANGED cluster

write_file(i) ==
  LET a == spawned[i].args
  IN cluster' = [cluster EXCEPT !.files[a[1]][a[2]] = a[3]] /\ Reply(i, "ok")

write_binary_file(i) == Reply(i, "ok") /\ UNCHANGED cluster

serve_fn(i) ==
  /\ spawned[i].op # "send" /\ spawned[i].got = None
  /\ \/ /\ Failed(i) /\ Spend("fail") /\ UNCHANGED <<cluster, toPage>>
     \/ /\ UNCHANGED left
        /\ \/ /\ \/ spawned[i].op = "create_session" /\ create_session(i)
                 \/ spawned[i].op = "create_workspace" /\ create_workspace(i)
                 \/ spawned[i].op = "delete_workspace" /\ delete_workspace(i)
                 \/ spawned[i].op = "session_vars" /\ session_vars(i)
                 \/ spawned[i].op \in {"list_files", "refresh"} /\ list_files(i)
                 \/ spawned[i].op = "session_workspace" /\ session_workspace(i)
                 \/ spawned[i].op = "workspace_vars" /\ workspace_vars(i)
                 \/ spawned[i].op = "set_workspace_var" /\ set_workspace_var(i)
                 \/ spawned[i].op = "read_file" /\ read_file(i)
                 \/ spawned[i].op = "write_file" /\ write_file(i)
                 \/ spawned[i].op = "write_hitl_upload" /\ write_binary_file(i)
              /\ UNCHANGED toPage
           \/ spawned[i].op = "set_session_var" /\ set_session_var(i)
  /\ UNCHANGED <<page, toServer, conn>>

-----------------------------------------------------------------------------
(* do_open clears what is shown, subscribes and reads the session. *)

Opened__keeps_journal(s) ==
  [page EXCEPT !.current = s, !.workspace = None, !.frames = {}, !.mode = None,
               !.vars = None, !.wsvars = {}, !.paths = None]

Opened(s) ==
  [page EXCEPT !.current = s, !.workspace = None, !.frames = {}, !.logs = <<>>,
               !.mode = None, !.vars = None, !.wsvars = {}, !.paths = None]

OpeningTasks(s) ==
  << Sending(<<[type |-> "SubscribeSession", session |-> s],
               [type |-> "GetMode", session |-> s]>>),
     Calling("session_vars", s) >>

do_open(s) == page' = Opened(s) /\ spawned' = spawned \o OpeningTasks(s)

Then(i, task) == spawned' = [spawned EXCEPT ![i] = task]

workspace_deleted(w) ==
  [page EXCEPT !.workspaces = SelectSeq(@, LAMBDA x : x # w),
               !.selected = IF @ = w THEN None ELSE @]

(* What each task does with its answer; none of them asks whether the      *)
(* session it was called for is still the one that is open.                *)
resume(i) ==
  LET t == spawned[i]
      ok == t.got.ok
      got == t.got.value
      Set(field) == page' = IF ok THEN [page EXCEPT ![field] = got] ELSE page
  IN /\ t.op # "send" /\ t.got # None
     /\ \/ t.op = "session_vars" /\ Set("vars") /\ Then(i, Calling("list_files", t.args))
        \/ t.op = "list_files" /\ Set("paths") /\ Then(i, Calling("session_workspace", t.args))
        \/ /\ t.op = "session_workspace" /\ Set("workspace")
           /\ IF ok /\ got # None THEN Then(i, Calling("workspace_vars", got))
              ELSE spawned' = Done(i)
        \/ t.op = "workspace_vars" /\ Set("wsvars") /\ spawned' = Done(i)
        \/ /\ t.op = "create_session"
           /\ IF ok
              THEN /\ page' = [Opened(got[2]) EXCEPT
                                 !.selected = got[1],
                                 !.workspaces = IF got[1] \in ToSet(@) THEN @ ELSE Append(@, got[1])]
                   /\ spawned' = Done(i) \o OpeningTasks(got[2])
              ELSE spawned' = Done(i) /\ UNCHANGED page
        \/ /\ t.op = "create_workspace" /\ spawned' = Done(i)
           /\ page' = IF ok THEN [page EXCEPT !.workspaces = Append(@, got), !.selected = got]
                      ELSE page
        \/ t.op = "delete_workspace" /\ spawned' = Done(i) /\ page' = workspace_deleted(t.args)
        \/ t.op = "read_file" /\ Set("editor") /\ spawned' = Done(i)
        \/ /\ t.op = "write_file" /\ UNCHANGED page
           /\ IF ok THEN Then(i, Calling("refresh", t.args[1])) ELSE spawned' = Done(i)
        \/ t.op = "refresh" /\ Set("paths") /\ spawned' = Done(i)
        \/ /\ t.op = "set_workspace_var" /\ spawned' = Done(i)
           /\ page' = IF ok THEN [page EXCEPT !.wsvars = @ \cup {t.args}] ELSE page
        \/ t.op = "set_session_var" /\ UNCHANGED page /\ spawned' = Done(i)
        \/ /\ t.op = "write_hitl_upload" /\ spawned' = Done(i)
           /\ page' = IF ok THEN [page EXCEPT !.answers.file = t.args] ELSE page
  /\ UNCHANGED <<toServer, toPage, conn, cluster, left>>

-----------------------------------------------------------------------------
(* Clicks *)

Click(kind) == Spend(kind) /\ UNCHANGED <<toServer, toPage, conn, cluster>>

on_open_click == Click("open") /\ \E s \in Sessions : do_open(s)

on_new_session_click ==
  /\ Click("open") /\ UNCHANGED page
  /\ spawned' = Spawn(Calling("create_session", page.selected))

on_create_workspace_click ==
  /\ Click("data") /\ UNCHANGED page
  /\ spawned' = Spawn(Calling("create_workspace", None))

on_select_workspace ==
  /\ Click("data") /\ UNCHANGED spawned
  /\ \E w \in ToSet(page.workspaces) : page' = [page EXCEPT !.selected = w]

on_delete_workspace ==
  /\ Click("data") /\ UNCHANGED page
  /\ \E w \in ToSet(page.workspaces) : spawned' = Spawn(Calling("delete_workspace", w))

(* The button shows once a mode that takes messages is known. *)
on_send_message ==
  /\ Click("message") /\ page.current # None /\ page.mode # None
  /\ spawned' = Spawn(Sending(<<[type |-> "SendMessage", session |-> page.current]>>))
  /\ UNCHANGED page

on_add_session_var ==
  /\ Click("data") /\ page.current # None /\ UNCHANGED page
  /\ spawned' = Spawn(Calling("set_session_var", page.current))

on_add_workspace_var ==
  /\ Click("data") /\ page.workspace # None /\ UNCHANGED page
  /\ spawned' = Spawn(Calling("set_workspace_var", page.workspace))

on_open_file ==
  /\ Click("data") /\ page.current # None /\ page.paths # None
  /\ \E p \in Paths :
       /\ page' = [page EXCEPT !.file = p]
       /\ spawned' = Spawn(Calling("read_file", <<page.current, p>>))

on_save_file ==
  /\ Click("data") /\ page.current # None /\ page.file # None /\ UNCHANGED page
  /\ spawned' = Spawn(Calling("write_file", <<page.current, page.file, page.editor>>))

on_create_file ==
  /\ Click("data") /\ page.current # None /\ UNCHANGED page
  /\ \E p \in Paths : spawned' = Spawn(Calling("write_file", <<page.current, p, None>>))

(* Only the first form is shown; its answers are kept by question. *)
Shown == Head(page.pending)

HitlQuestion ==
  /\ Click("form") /\ page.pending # <<>> /\ UNCHANGED spawned
  /\ page' = [page EXCEPT !.answers.text = Shown]

on_hitl_file_selected ==
  /\ Click("form") /\ page.pending # <<>> /\ UNCHANGED page
  /\ spawned' = Spawn(Calling("write_hitl_upload", Shown))

NoAnswers == [text |-> None, file |-> None]

on_hitl_submit__keeps_answers ==
  /\ Click("form") /\ page.pending # <<>>
  /\ spawned' = Spawn(Sending(<<[type |-> "HitlAnswer", form |-> Shown, answers |-> page.answers]>>))
  /\ page' = [page EXCEPT !.pending = Tail(@)]

on_hitl_submit ==
  /\ Click("form") /\ page.pending # <<>>
  /\ spawned' = Spawn(Sending(<<[type |-> "HitlAnswer", form |-> Shown, answers |-> page.answers]>>))
  /\ page' = [page EXCEPT !.pending = Tail(@), !.answers = NoAnswers]

-----------------------------------------------------------------------------
ChatInit ==
  /\ page = [cell |-> "unset", current |-> None, workspace |-> None, workspaces |-> <<>>,
             selected |-> None, frames |-> {}, logs |-> <<>>, mode |-> None, vars |-> None,
             wsvars |-> {}, paths |-> None, file |-> None, editor |-> None,
             pending |-> <<>>, answers |-> NoAnswers]
  /\ spawned = <<>> /\ toServer = <<>> /\ toPage = <<>>
  /\ conn = [open |-> FALSE, registry |-> {}, streamed |-> {}, acquired |-> {}]
  /\ cluster = [made |-> {}, workspaces |-> {}, workspace |-> [s \in Sessions |-> None],
                vars |-> [s \in Sessions |-> 0], logs |-> [s \in Sessions |-> 0],
                files |-> [s \in Sessions |-> [p \in Paths |-> <<s, p>>]],
                frames |-> {}, jobs |-> {}, answered |-> <<>>]
  /\ left \in Budgets

Mounted == page.cell # "unset"

Serve == \E i \in DOMAIN spawned : serve_fn(i)
Resume == \E i \in DOMAIN spawned : resume(i)
Take == \E i \in DOMAIN spawned : take(i)
Send == \E i \in DOMAIN spawned : send(i)

Clicks ==
  \/ on_open_click \/ on_new_session_click
  \/ on_create_workspace_click \/ on_select_workspace \/ on_delete_workspace
  \/ on_send_message \/ on_add_session_var \/ on_add_workspace_var
  \/ on_open_file \/ on_save_file \/ on_create_file
  \/ HitlQuestion \/ on_hitl_file_selected \/ on_hitl_submit

ChatNext ==
  \/ connect
  \/ Mounted /\ (Take \/ Send \/ Serve \/ Resume \/ on_message \/ dispatch
                 \/ async_stream_hitl \/ session_event \/ serve_ends \/ Clicks)

ChatSpec == ChatInit /\ [][ChatNext]_chatVars

-----------------------------------------------------------------------------
Opt(S) == S \cup {None}

ChatTypeOK ==
  /\ page.cell \in {"unset", "full", "taken", "absent"}
  /\ page.current \in Opt(Sessions) /\ page.workspace \in Opt(Workspaces)
  /\ page.selected \in Opt(Workspaces) /\ page.workspaces \in Seq(Workspaces)
  /\ page.frames \subseteq Sessions /\ page.mode \in Opt(Sessions)
  /\ page.pending \in Seq(FormIds) /\ page.answers \in [{"text", "file"} -> Opt(FormIds)]
  /\ page.paths \in Opt(Sessions) /\ page.file \in Opt(Paths)
  /\ conn.registry \subseteq conn.streamed /\ conn.streamed \subseteq FormIds
  /\ conn.acquired \subseteq Sessions /\ cluster.made \subseteq Sessions
  /\ left \in [DOMAIN left -> Nat]
  /\ \A m \in ToSet(toServer) : m.type \in ClientMessages
  /\ \A m \in ToSet(toPage) : m.type \in ServerMessages

(* As long as the websocket is open, a form the page shows, or is about to *)
(* show, is one this connection remembers, so that its answer is not       *)
(* refused (async_stream_hitl registers before it yields, and the page     *)
(* drops a form when it submits).                                          *)
ShownFormIsRegistered ==
  conn.open => \A f \in FormIds :
    f \in ToSet(page.pending) \/ [type |-> "HitlRequest", form |-> f] \in ToSet(toPage)
    => f \in conn.registry

(* What was typed in one form never goes with the answer to another: the   *)
(* answers are kept by question only, and on_hitl_submit must clear them   *)
(* before the next form of the queue is shown.                             *)
TypedForThisForm ==
  \A i \in DOMAIN cluster.answered :
    cluster.answered[i].answers.text \in {None, cluster.answered[i].form}

(* The journal shows lines of the session that is open, in their order and *)
(* once each, though events of the sessions opened before still come.      *)
JournalOfOpenSession ==
  /\ \A i \in DOMAIN page.logs : page.logs[i].session = page.current
  /\ \A i, j \in DOMAIN page.logs : i < j => page.logs[i].n < page.logs[j].n
=============================================================================
