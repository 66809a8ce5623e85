---------------------------- MODULE LiveSession -----------------------------
(***************************************************************************)
(* One session as the people around it see it: its journal (session/logs), *)
(* its human-in-the-loop requests (hitl), the events both publish, the     *)
(* controller that receives the answers (session/controller.rs) and the    *)
(* command line that follows it live (session/client.rs, executing_session *)
(* of marie-cli).  The stores are those of PostgreSQL, where the session,  *)
(* its journal and its requests are one database.                          *)
(*                                                                         *)
(* SessionLogs, SessionHitls and fail write first and emit next: what is   *)
(* written and not emitted yet is in tasks.  get_session reads the store   *)
(* three times, and the subscription starts after the last one.  The       *)
(* terminal is a thread of its own (repl/input.rs) that prints and reads   *)
(* lines in the order of its queue: what is printed during a question      *)
(* waits for the line.                                                     *)
(*                                                                         *)
(* create_session writes no row yet (initialise_as_new is empty), so a     *)
(* session that can be followed is one the database already has.           *)
(***************************************************************************)
EXTENDS Naturals, SequencesExt, FiniteSets

CONSTANTS Forms,       \* Hitl: the kinds of its questions, none for Text
          MaxLogs, MaxVersions, \* bounds: entries of the journal, their contents
          Bounds,      \* bounds: logs, requests and replies of a behaviour
          Backlog,     \* bound: lines left to print when someone attaches again
          Capacity     \* CHANNEL_CAPACITY of a topic

ASSUME LiveAssumption ==
  /\ MaxLogs \in Nat /\ MaxVersions \in Nat
  /\ Backlog \in Nat \ {0} /\ Capacity \in Nat \ {0}
  /\ \A b \in Bounds : b.logs \in 0..MaxLogs /\ b.requests \in Nat /\ b.replies \in Nat

VARIABLES db,     \* rows: the session, its journal, its requests
          tasks,  \* events written and not emitted yet
          stream, \* the subscription of the command line
          ctl,    \* the controller: queue, topic, cache; the checkpointer
          live,   \* run_live
          term,   \* the thread of InputHandle: its queue, and what it shows
          bound   \* the bounds of this behaviour

liveVars == <<db, tasks, stream, ctl, live, term, bound>>

Kinds == {"ShortText", "LongText", "Select", "Radio", "Checkboxes", "FileUpload"}
Log == 1..MaxLogs
Attached == {"serving", "asking", "replying", "following"}

is_terminal(status) == status \in {"Archived", "Failed"}

LogEvent(l, v)    == [type |-> "Log", log |-> l, version |-> v]
HitlRequested(i)  == [type |-> "HitlRequested", id |-> i]
HitlAnswered(i, answers) == [type |-> "HitlAnswered", id |-> i, answers |-> answers]
StatusUpdated(st) == [type |-> "SessionStatusUpdated", status |-> st]

-----------------------------------------------------------------------------
(* hitl/model.rs: an answer has a shape, and its choices, or the name of   *)
(* its file, are among those the question accepts or not.                  *)

Answer == [shape : {"Single", "Multiple"}, fits : BOOLEAN]

answer_is_valid(kind, a) ==
  CASE kind \in {"ShortText", "LongText"} -> a.shape = "Single"
    [] kind \in {"Select", "Radio", "FileUpload"} -> a.shape = "Single" /\ a.fits
    [] kind = "Checkboxes" -> a.shape = "Multiple" /\ a.fits

(* Questions are answered by key: one answer for each.  Text takes any.    *)
validate_answers(form, answers) ==
  /\ Len(answers) >= Len(form)
  /\ \A q \in DOMAIN form : answer_is_valid(form[q], answers[q])

(* The column of an unanswered request is the JSON null that serde writes  *)
(* for None; IS NULL is true of a missing key only.                        *)
answer_column(h) == IF h.given > 0 THEN "object" ELSE "null"
list_pending_hitls == {i \in DOMAIN db.hitls : answer_column(db.hitls[i]) = "missing"}

-----------------------------------------------------------------------------
(* The writers.  The foreign keys refuse a log or a request of a session   *)
(* that has no row, and the call fails before it emits anything.           *)

Written(l) == {e \in tasks : e.type = "Log" /\ e.log = l}

log ==
  /\ db.row # "absent" /\ Len(db.logs) < bound.logs
  /\ db' = [db EXCEPT !.logs = Append(@, 1)]
  /\ tasks' = tasks \cup {LogEvent(Len(db.logs) + 1, 1)}
  /\ UNCHANGED <<stream, ctl, live, term, bound>>

replace_log__detached(l) ==
  /\ l \in DOMAIN db.logs /\ db.logs[l] < MaxVersions
  /\ db' = [db EXCEPT !.logs[l] = @ + 1]
  /\ tasks' = tasks \cup {LogEvent(l, db.logs[l] + 1)}
  /\ UNCHANGED <<stream, ctl, live, term, bound>>

(* The caller that streams into a log awaits each write. *)
replace_log(l) ==
  /\ l \in DOMAIN db.logs /\ db.logs[l] < MaxVersions /\ Written(l) = {}
  /\ db' = [db EXCEPT !.logs[l] = @ + 1]
  /\ tasks' = tasks \cup {LogEvent(l, db.logs[l] + 1)}
  /\ UNCHANGED <<stream, ctl, live, term, bound>>

request(form) ==
  /\ db.row # "absent" /\ Len(db.hitls) < bound.requests
  /\ db' = [db EXCEPT !.hitls = Append(@, [form |-> form, given |-> 0, answers |-> <<>>])]
  /\ tasks' = tasks \cup {HitlRequested(Len(db.hitls) + 1)}
  /\ UNCHANGED <<stream, ctl, live, term, bound>>

(* SessionHitls::reply writes the answers and validates them next. *)
reply(i, answers) ==
  /\ i \in DOMAIN db.hitls /\ HitlAnswered(i, answers) \notin tasks
  /\ db.hitls[i].given < bound.replies
  /\ db' = [db EXCEPT !.hitls[i].given = @ + 1, !.hitls[i].answers = answers]
  /\ tasks' = tasks \cup {HitlAnswered(i, answers)}
  /\ UNCHANGED <<stream, ctl, live, term, bound>>

(* SessionCheckpointer::fail: the status is written, or it is not, and is  *)
(* emitted all the same.                                                   *)
fail(flushed) ==
  /\ ctl.running /\ ctl.status # "Failed"
  /\ ctl' = [ctl EXCEPT !.status = "Failed"]
  /\ db' = IF flushed THEN [db EXCEPT !.row = "Failed"] ELSE db
  /\ tasks' = tasks \cup {StatusUpdated("Failed")}
  /\ UNCHANGED <<stream, live, term, bound>>

-----------------------------------------------------------------------------
(* EventBus::emit: both topics of a SessionEvent.  A reader that lags      *)
(* loses the oldest event; a topic nobody reads keeps none.  What emit     *)
(* writes is the bare event, and a typed stream reads an envelope of it    *)
(* (OwnEventsAreVisible of Messaging): whether the payload of a topic      *)
(* parses is settled when it is read, by skip_event and skip_topic.        *)

broadcast(events, e) == Append(IF Len(events) = Capacity THEN Tail(events) ELSE events, e)

emit(e) ==
  /\ e \in tasks
  /\ tasks' = tasks \ {e}
  /\ e.type = "HitlAnswered" => validate_answers(db.hitls[e.id].form, e.answers)
  /\ stream' = IF stream.on THEN [stream EXCEPT !.events = broadcast(@, e)] ELSE stream
  /\ ctl' = IF e.type = "HitlAnswered" THEN [ctl EXCEPT !.topic = broadcast(@, e)] ELSE ctl
  /\ UNCHANGED <<db, live, term, bound>>

(* The answers are refused: the row keeps them and nobody is told. *)
reply_refused(e) ==
  /\ e \in tasks /\ e.type = "HitlAnswered"
  /\ ~validate_answers(db.hitls[e.id].form, e.answers)
  /\ tasks' = tasks \ {e}
  /\ UNCHANGED <<db, stream, ctl, live, term, bound>>

-----------------------------------------------------------------------------
(* SessionController *)

(* SessionCheckpointer::send_ckp_event is async, and process_checkpoint_   *)
(* event drops the future it gets: the queue of the checkpointer is left   *)
(* as it was.                                                              *)
send_ckp_event(inbox, e) == inbox

(* get loads a session that is not in the cache, and a session without a   *)
(* row ends the event there.                                               *)
process_checkpoint_event(c, e) ==
  IF ~c.cached /\ db.row = "absent" THEN c
  ELSE [c EXCEPT !.cached = TRUE, !.running = TRUE,
                 !.status = IF c.running THEN @ ELSE db.row,
                 !.inbox = send_ckp_event(@, e)]

(* A payload that does not parse as an EventEnvelope is skipped without a  *)
(* word; as emit writes them, that is every one.                           *)
skip_topic ==
  /\ ctl.topic # <<>>
  /\ ctl' = [ctl EXCEPT !.topic = Tail(@)]
  /\ UNCHANGED <<db, tasks, stream, live, term, bound>>

run_topic ==
  /\ ctl.topic # <<>>
  /\ ctl' = process_checkpoint_event([ctl EXCEPT !.topic = Tail(@)], Head(ctl.topic))
  /\ UNCHANGED <<db, tasks, stream, live, term, bound>>

run_queue ==
  /\ ctl.queue # <<>>
  /\ ctl' = process_checkpoint_event([ctl EXCEPT !.queue = Tail(@)], Head(ctl.queue))
  /\ UNCHANGED <<db, tasks, stream, live, term, bound>>

(* The session leaves the cache, which waits for its checkpointer to close *)
(* before the row is deleted: a checkpointer in good health keeps a sender *)
(* of its own queue and never does, one that fails may, and writes its     *)
(* status then.  Rows that refer to the session refuse the deletion.       *)
delete_session(closes) ==
  LET deleted == (ctl.cached => closes) /\ db.logs = <<>> /\ db.hitls = <<>>
  IN /\ db.row # "absent" /\ (closes => ctl.cached /\ ctl.status = "Failed")
     /\ ctl' = [ctl EXCEPT !.cached = FALSE, !.running = @ /\ ~closes]
     /\ db' = [db EXCEPT !.row = IF deleted THEN "absent"
                                 ELSE IF closes THEN "Failed" ELSE @]
     /\ UNCHANGED <<tasks, stream, live, term, bound>>

-----------------------------------------------------------------------------
(* InputHandle.  A thread takes the commands in order; one that reads a    *)
(* line takes no other before the person has typed it.                     *)

PrintLine(e) == [cmd |-> "Print", event |-> e]
ReadLine == [cmd |-> "ReadLine"]

(* Only the logs of a session are printed. *)
print_line(queue, e) == IF e.type = "Log" THEN Append(queue, PrintLine(e)) ELSE queue

blocking_recv ==
  /\ term.queue # <<>> /\ ~term.reading
  /\ LET c == Head(term.queue)
     IN term' = [term EXCEPT !.queue = Tail(@),
                   !.reading = (c.cmd = "ReadLine"),
                   !.screen = IF c.cmd = "Print"
                              THEN [@ EXCEPT ![c.event.log] = c.event.version] ELSE @]
  /\ UNCHANGED <<db, tasks, stream, ctl, live, bound>>

-----------------------------------------------------------------------------
(* run_live.  The three reads of get_session_view and the subscription are *)
(* four steps: the store and the bus go on in between.                     *)

Detached == [at |-> "detached", status |-> "absent", view |-> <<>>, todo |-> <<>>,
             back |-> "serving", answers |-> <<>>]
Unsubscribed == [on |-> FALSE, events |-> <<>>]

run_live ==
  /\ live.at = "detached" /\ Len(term.queue) < Backlog
  /\ live' = [Detached EXCEPT !.at = "row"]
  /\ UNCHANGED <<db, tasks, stream, ctl, term, bound>>

get_session ==
  /\ live.at = "row"
  /\ live' = IF db.row = "absent" THEN Detached
             ELSE [live EXCEPT !.at = "logs", !.status = db.row]
  /\ UNCHANGED <<db, tasks, stream, ctl, term, bound>>

list_log ==
  /\ live.at = "logs"
  /\ live' = [live EXCEPT !.at = "pendings", !.view = db.logs]
  /\ UNCHANGED <<db, tasks, stream, ctl, term, bound>>

list_pendings ==
  /\ live.at = "pendings"
  /\ live' = [live EXCEPT !.at = "subscribe", !.todo = SetToSeq(list_pending_hitls)]
  /\ UNCHANGED <<db, tasks, stream, ctl, term, bound>>

stream_session_events ==
  /\ live.at = "subscribe"
  /\ term' = [term EXCEPT !.queue =
                 @ \o [l \in DOMAIN live.view |-> PrintLine(LogEvent(l, live.view[l]))]]
  /\ stream' = [on |-> TRUE, events |-> <<>>]
  /\ live' = [live EXCEPT !.at = "serving", !.view = <<>>]
  /\ UNCHANGED <<db, tasks, ctl, bound>>

(* The status of the view is looked at once its requests are answered. *)
after_pendings ==
  /\ live.at = "serving" /\ live.todo = <<>>
  /\ IF is_terminal(live.status)
     THEN live' = Detached /\ stream' = Unsubscribed
     ELSE live' = [live EXCEPT !.at = "following", !.back = "following"] /\ UNCHANGED stream
  /\ UNCHANGED <<db, tasks, ctl, term, bound>>

(* stream_events skips what it cannot parse, wherever the stream is read:  *)
(* in the loop of run_live and in read_with_live_events.  next_event and   *)
(* overhear are for the payloads that parse; the code as written emits     *)
(* none, and every step of it is one of this model.                        *)
skip_event ==
  /\ live.at = "asking" \/ (live.at = "following" /\ live.todo = <<>>)
  /\ stream.events # <<>>
  /\ stream' = [stream EXCEPT !.events = Tail(@)]
  /\ UNCHANGED <<db, tasks, ctl, live, term, bound>>

(* The loop of run_live takes the next event. *)
next_event ==
  LET e == Head(stream.events) IN
  /\ live.at = "following" /\ live.todo = <<>> /\ stream.events # <<>>
  /\ IF e.type = "SessionStatusUpdated" /\ is_terminal(e.status)
     THEN live' = Detached /\ stream' = Unsubscribed
     ELSE /\ live' = [live EXCEPT !.todo = IF e.type = "HitlRequested" THEN <<e.id>> ELSE @]
          /\ stream' = [stream EXCEPT !.events = Tail(@)]
  /\ term' = [term EXCEPT !.queue = print_line(@, e)]
  /\ UNCHANGED <<db, tasks, ctl, bound>>

ask_hitl ==
  /\ live.at \in {"serving", "following"} /\ live.todo # <<>>
  /\ live' = [live EXCEPT !.at = "asking", !.answers = <<>>]
  /\ term' = [term EXCEPT !.queue = Append(@, ReadLine)]
  /\ UNCHANGED <<db, tasks, stream, ctl, bound>>

(* The select! loop is written afresh at every event, with a new request   *)
(* for a line.                                                             *)
overhear__asks_again ==
  /\ live.at = "asking" /\ stream.events # <<>>
  /\ stream' = [stream EXCEPT !.events = Tail(@)]
  /\ term' = [term EXCEPT !.queue = Append(print_line(@, Head(stream.events)), ReadLine)]
  /\ UNCHANGED <<db, tasks, ctl, live, bound>>

(* read_with_live_events: while it waits for a line, the command line      *)
(* prints the logs of the stream and forgets every other event.            *)
overhear ==
  /\ live.at = "asking" /\ stream.events # <<>>
  /\ stream' = [stream EXCEPT !.events = Tail(@)]
  /\ term' = [term EXCEPT !.queue = print_line(@, Head(stream.events))]
  /\ UNCHANGED <<db, tasks, ctl, live, bound>>

Prompts(i) == IF db.hitls[i].form = <<>> THEN <<"ShortText">> ELSE db.hitls[i].form

(* resolve_option takes the number of an option or the text itself, which  *)
(* need not be an option; Ctrl-D is the empty text.                        *)
answer_to(kind, fits) ==
  [shape |-> IF kind = "Checkboxes" THEN "Multiple" ELSE "Single",
   fits |-> fits \/ kind \in {"ShortText", "LongText"}]

(* The person ends a line, and the next question asks for another.  A      *)
(* LongText takes line after line until one is "." alone: a line before it *)
(* (more) leaves the question open.                                        *)
read_line(fits, more) ==
  LET prompts == Prompts(Head(live.todo))
      kind == prompts[Len(live.answers) + 1]
      open == more /\ kind = "LongText"
      answers == IF open THEN live.answers ELSE Append(live.answers, answer_to(kind, fits))
      last == Len(answers) = Len(prompts)
  IN /\ live.at = "asking" /\ term.reading
     /\ live' = [live EXCEPT !.answers = answers, !.at = IF last THEN "replying" ELSE @]
     /\ term' = [term EXCEPT !.reading = FALSE,
                    !.queue = IF last THEN @ ELSE Append(@, ReadLine)]
     /\ UNCHANGED <<db, tasks, stream, ctl, bound>>

(* The call reaches reply_hitl of a controller, or fails and is reported.  *)
hitl_reply(reached) ==
  /\ live.at = "replying"
  /\ reached => Len(ctl.queue) < Capacity
  /\ ctl' = IF reached
            THEN [ctl EXCEPT !.queue = Append(@, HitlAnswered(Head(live.todo), live.answers))]
            ELSE ctl
  /\ live' = [live EXCEPT !.at = live.back, !.todo = Tail(@), !.answers = <<>>]
  /\ UNCHANGED <<db, tasks, stream, term, bound>>

-----------------------------------------------------------------------------
LiveInit ==
  /\ db \in [row : {"absent", "Ongoing"}, logs : {<<>>}, hitls : {<<>>}]
  /\ tasks = {} /\ stream = Unsubscribed
  /\ ctl \in [queue : {<<>>}, topic : {<<>>}, inbox : {<<>>}, cached : {FALSE},
              running : BOOLEAN, status : {"Ongoing"}]
  /\ live = Detached /\ bound \in Bounds
  /\ term = [queue |-> <<>>, reading |-> FALSE, screen |-> [l \in Log |-> 0]]

Writers ==
  \/ log \/ \E l \in Log : replace_log(l)
  \/ \E form \in Forms : request(form)
  \/ \E i \in DOMAIN db.hitls : \E answers \in [DOMAIN db.hitls[i].form -> Answer] : reply(i, answers)
  \/ \E flushed \in BOOLEAN : fail(flushed)

Tasks == \E e \in tasks : emit(e) \/ reply_refused(e)
Controller == run_topic \/ skip_topic \/ run_queue

Following ==
  \/ get_session \/ list_log \/ list_pendings \/ stream_session_events
  \/ after_pendings \/ skip_event \/ next_event \/ ask_hitl \/ overhear
  \/ \E reached \in BOOLEAN : hitl_reply(reached)

Terminal == blocking_recv \/ \E fits, more \in BOOLEAN : read_line(fits, more)

LiveNext ==
  \/ Writers \/ Tasks \/ Controller
  \/ (\E closes \in BOOLEAN : delete_session(closes))
  \/ run_live \/ Following \/ Terminal

LiveSpec == LiveInit /\ [][LiveNext]_liveVars

-----------------------------------------------------------------------------
LiveTypeOK ==
  /\ db.row \in {"absent", "Ongoing", "Failed"}
  /\ Len(db.logs) <= MaxLogs /\ \A l \in DOMAIN db.logs : db.logs[l] \in 1..MaxVersions
  /\ Len(db.hitls) <= bound.requests
  /\ Len(stream.events) <= Capacity /\ (stream.on <=> live.at \in Attached)
  /\ term.reading \in BOOLEAN /\ term.screen \in [Log -> 0..MaxVersions]
  /\ \A k \in DOMAIN live.todo : live.todo[k] \in DOMAIN db.hitls

(* What the terminal shows last of an entry never goes back to an older    *)
(* content, over questions, detachments and new attachments: the stream is *)
(* subscribed after the view was read and printed, so no event of it is    *)
(* older than the view.                                                    *)
JournalNeverGoesBack ==
  [][\A l \in Log : term'.screen[l] >= term.screen[l]]_liveVars

(* "sans redemander une nouvelle ligne à chaque itération": whatever       *)
(* arrives during a question, the terminal has one line to ask for and     *)
(* someone waits for it, so no line of the person is read for nobody.      *)
OneLineAtATime ==
  LET asked == {k \in DOMAIN term.queue : term.queue[k].cmd = "ReadLine"}
  IN Cardinality(asked) + (IF term.reading THEN 1 ELSE 0)
       = IF live.at = "asking" THEN 1 ELSE 0
=============================================================================
