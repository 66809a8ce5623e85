-------------------------- MODULE LiveSessionProofs --------------------------
(***************************************************************************)
(* What is proved about a session that is followed live, for any number of *)
(* entries of the journal, versions of an entry, requests and answers.     *)
(*                                                                         *)
(* A version of an entry goes through the task that emits it, the          *)
(* subscription, the queue of the terminal and the screen.  The inductive  *)
(* invariant orders these: what is further along is never newer than what  *)
(* comes behind it, also when the view of a new attachment is put in       *)
(* between, and when events are skipped or lost.  It speaks of two parts   *)
(* of the state (the journal, the terminal); each step moves each part in  *)
(* one of a few ways.                                                      *)
(*                                                                         *)
(* The second half of the module is about the chat page of the browser,    *)
(* for any sessions, forms and budgets.  Its invariant has every form in   *)
(* one place (on its way to the page, in the queue of the page, or         *)
(* answered) and the lines of a session in one order (on the page, on      *)
(* their way, to come).                                                    *)
(***************************************************************************)
EXTENDS LiveSession, ChatPage, TLAPS, FiniteSetTheorems

-----------------------------------------------------------------------------
(* Types *)

Answers == {<<>>} \cup UNION {[DOMAIN form -> Answer] : form \in Forms}
Hitl == [form : Forms, given : Nat, answers : Answers]
LogEvents == [type : {"Log"}, log : Log, version : Nat]
AnswerEvents == [type : {"HitlAnswered"}, id : Nat, answers : Answers]
Events == LogEvents \cup AnswerEvents \cup [type : {"HitlRequested"}, id : Nat]
            \cup [type : {"SessionStatusUpdated"}, status : {"Failed"}]
Lines == [cmd : {"Print"}, event : LogEvents]
Commands == Lines \cup {ReadLine}
Steps == {"detached", "row", "logs", "pendings", "subscribe"} \cup Attached

(* Records of the fields they have; what is in the others does not matter. *)
DbTyped ==
  /\ db = [row |-> db.row, logs |-> db.logs, hitls |-> db.hitls]
  /\ db.logs \in Seq(Nat) /\ Len(db.logs) <= MaxLogs /\ db.hitls \in Seq(Hitl)
LiveTyped ==
  /\ live = [at |-> live.at, status |-> live.status, view |-> live.view, todo |-> live.todo,
             back |-> live.back, answers |-> live.answers]
  /\ live.at \in Steps /\ live.back \in {"serving", "following"}
  /\ live.view \in Seq(Nat) /\ Len(live.view) <= MaxLogs
StreamTyped == stream \in [on : BOOLEAN, events : Seq(Events)]
TermTyped == term \in [queue : Seq(Commands), reading : BOOLEAN, screen : [Log -> Nat]]
SubscriptionTyped == (stream.on <=> live.at \in Attached) /\ (~stream.on => stream.events = <<>>)

Typed ==
  /\ DbTyped /\ LiveTyped /\ StreamTyped /\ TermTyped /\ SubscriptionTyped
  /\ tasks \subseteq Events /\ bound \in Bounds

-----------------------------------------------------------------------------
(* The journal and the way of the versions of an entry to the screen *)

journal == [logs |-> db.logs, tasks |-> tasks, at |-> live.at, view |-> live.view,
            queue |-> term.queue, screen |-> term.screen, events |-> stream.events]

Journals ==
  [logs : Seq(Nat), tasks : SUBSET Events, at : Steps, view : Seq(Nat),
   queue : Seq(Commands), screen : [Log -> Nat], events : Seq(Events)]

At(s, k, x) == k \in 1..Len(s) /\ s[k] = x
Queued(a, l, v, k) == At(a.queue, k, PrintLine(LogEvent(l, v)))
Streamed(a, l, v, k) == At(a.events, k, LogEvent(l, v))

(* The content of an entry, 0 for one that is not written yet. *)
Current(a, l) == IF l \in 1..Len(a.logs) THEN a.logs[l] ELSE 0

(* The caller awaits its write: a task emits the content of the store. *)
TasksAreCurrent(a) ==
  \A l \in Log, v \in Nat : LogEvent(l, v) \in a.tasks => l \in 1..Len(a.logs) /\ v = a.logs[l]

ScreenIsOldest(a) ==
  \A l \in Log :
    /\ a.screen[l] <= Current(a, l)
    /\ \A v \in Nat, k \in Nat : Queued(a, l, v, k) \/ Streamed(a, l, v, k) =>
         a.screen[l] <= v /\ v <= Current(a, l)

WayIsOrdered(a) ==
  \A l \in Log, v \in Nat, w \in Nat, j \in Nat, k \in Nat :
    /\ Queued(a, l, v, j) /\ Queued(a, l, w, k) /\ j < k => v <= w
    /\ Streamed(a, l, v, j) /\ Streamed(a, l, w, k) /\ j < k => v <= w
    /\ Queued(a, l, v, j) /\ Streamed(a, l, w, k) => v <= w

(* What was read for the view is behind all that is to be printed. *)
Viewing(a) == a.at \in {"pendings", "subscribe"}
ViewIsNewest(a) ==
  Viewing(a) => \A l \in 1..Len(a.view) :
    /\ l \in 1..Len(a.logs) /\ a.view[l] <= a.logs[l] /\ a.screen[l] <= a.view[l]
    /\ \A v \in Nat, k \in Nat : Queued(a, l, v, k) => v <= a.view[l]

Sized(a) ==
  /\ Len(a.logs) <= MaxLogs /\ Len(a.view) <= MaxLogs
  /\ a.at \notin Attached => a.events = <<>>

JournalInv(a) ==
  /\ TasksAreCurrent(a) /\ ScreenIsOldest(a) /\ WayIsOrdered(a)
  /\ ViewIsNewest(a)

-----------------------------------------------------------------------------
(* The lines the terminal has to ask for *)

Asks(queue, k) == k \in 1..Len(queue) /\ queue[k].cmd = "ReadLine"
NoLine(queue) == \A k \in Nat : ~Asks(queue, k)
OneLine(queue) == \E j \in Nat : \A k \in Nat : Asks(queue, k) <=> k = j

LinesInv(at, reading, queue) ==
  /\ at = "asking" /\ ~reading => OneLine(queue)
  /\ at # "asking" \/ reading => NoLine(queue)
  /\ reading => at = "asking"

LiveInv ==
  /\ Typed /\ JournalInv(journal)
  /\ LinesInv(live.at, term.reading, term.queue)

-----------------------------------------------------------------------------
(* Sequences and events *)

LEMMA AtAppend ==
  ASSUME NEW S, NEW s \in Seq(S), NEW y \in S, NEW x, NEW k
  PROVE  At(Append(s, y), k, x) <=> At(s, k, x) \/ (k = Len(s) + 1 /\ x = y)
<1>1. Len(Append(s, y)) = Len(s) + 1 /\ Append(s, y)[Len(s) + 1] = y
  OBVIOUS
<1>2. \A i \in 1..Len(s) : Append(s, y)[i] = s[i]
  OBVIOUS
<1>3. k \in 1..(Len(s) + 1) <=> k \in 1..Len(s) \/ k = Len(s) + 1
  OBVIOUS
<1>4. ~(Len(s) + 1 \in 1..Len(s))
  OBVIOUS
<1> QED
  BY <1>1, <1>2, <1>3, <1>4 DEF At

LEMMA AtTail ==
  ASSUME NEW S, NEW s \in Seq(S), s # <<>>, NEW x, NEW k \in Nat
  PROVE  /\ Tail(s) \in Seq(S) /\ Head(s) \in S
         /\ At(Tail(s), k, x) <=> k > 0 /\ At(s, k + 1, x)
         /\ At(s, 1, x) <=> x = Head(s)
<1>1. Tail(s) \in Seq(S) /\ Len(Tail(s)) = Len(s) - 1 /\ Len(s) \in Nat /\ Len(s) > 0
  OBVIOUS
<1>2. \A i \in 1..(Len(s) - 1) : Tail(s)[i] = s[i + 1]
  OBVIOUS
<1>3. Head(s) = s[1] /\ Head(s) \in S
  OBVIOUS
<1>4. k \in 1..(Len(s) - 1) <=> k > 0 /\ k + 1 \in 1..Len(s)
  BY <1>1
<1>5. 1 \in 1..Len(s)
  BY <1>1
<1> QED
  BY <1>1, <1>2, <1>3, <1>4, <1>5 DEF At

LEMMA LogEventsAre ==
  /\ \A l \in Log, v \in Nat : LogEvent(l, v) \in Events /\ LogEvent(l, v).type = "Log"
  /\ \A l \in Log, v \in Nat : LogEvent(l, v).log = l /\ LogEvent(l, v).version = v
  /\ \A l \in Log, v \in Nat : PrintLine(LogEvent(l, v)) \in Commands
  /\ \A e \in Events : e.type = "Log" =>
       e = LogEvent(e.log, e.version) /\ e.log \in Log /\ e.version \in Nat
<1>1. \A l \in Log, v \in Nat : LogEvent(l, v) \in LogEvents
  BY DEF LogEvents, LogEvent
<1>2. \A e \in Events : e.type = "Log" => e \in LogEvents
  BY DEF Events, AnswerEvents, LogEvents
<1>3. \A e \in LogEvents : e = LogEvent(e.log, e.version) /\ e.log \in Log /\ e.version \in Nat
  BY DEF LogEvents, LogEvent
<1>4. \A e \in LogEvents : PrintLine(e) \in Commands
  BY DEF PrintLine, Commands, Lines
<1> QED
  BY <1>1, <1>2, <1>3, <1>4 DEF Events, LogEvent

LEMMA LinesAre ==
  /\ ReadLine \in Commands /\ ReadLine.cmd = "ReadLine"
  /\ \A l \in Log, v \in Nat : PrintLine(LogEvent(l, v)) # ReadLine
  /\ \A k \in Log, l \in Log, v \in Nat, w \in Nat :
       PrintLine(LogEvent(k, v)) = PrintLine(LogEvent(l, w)) => k = l /\ v = w
  /\ \A l \in Log, v \in Nat : LET c == PrintLine(LogEvent(l, v)) IN
       c.cmd = "Print" /\ c.event = LogEvent(l, v)
  /\ \A c \in Commands : \/ c = ReadLine /\ c.cmd = "ReadLine"
                         \/ /\ c.cmd = "Print" /\ c.event.log \in Log /\ c.event.version \in Nat
                            /\ c = PrintLine(LogEvent(c.event.log, c.event.version))
<1>1. ReadLine \in Commands /\ ReadLine.cmd = "ReadLine"
  BY DEF Commands, ReadLine
<1>2. \A e : PrintLine(e).cmd = "Print" /\ PrintLine(e).event = e
  BY DEF PrintLine
<1>3. \A k \in Log, l \in Log, v \in Nat, w \in Nat : LogEvent(k, v) = LogEvent(l, w) => k = l /\ v = w
  BY DEF LogEvent
<1>4. \A c \in Lines : /\ c.cmd = "Print" /\ c.event.log \in Log /\ c.event.version \in Nat
                       /\ c = PrintLine(LogEvent(c.event.log, c.event.version))
  BY DEF Lines, LogEvents, PrintLine, LogEvent
<1>5. \A c \in Commands : c \in Lines \/ c = ReadLine
  BY DEF Commands
<1>6. \A l \in Log, v \in Nat : PrintLine(LogEvent(l, v)) # ReadLine
  BY <1>1, <1>2
<1>7. \A k \in Log, l \in Log, v \in Nat, w \in Nat :
       PrintLine(LogEvent(k, v)) = PrintLine(LogEvent(l, w)) => k = l /\ v = w
  BY <1>2, <1>3
<1> QED
  BY <1>1, <1>2, <1>4, <1>5, <1>6, <1>7

-----------------------------------------------------------------------------
(* The ways a step moves the journal *)

SameTasks(a, b) ==
  \A l \in Log, v \in Nat : LogEvent(l, v) \in b.tasks <=> LogEvent(l, v) \in a.tasks

(* Nothing of the journal changes: a step of the writers of something      *)
(* else, of the controller, or of the command line between its reads.      *)
Still(a, b) ==
  /\ b.logs = a.logs /\ SameTasks(a, b) /\ b.queue = a.queue /\ b.screen = a.screen
  /\ b.events = a.events /\ b.view = a.view
  /\ (Viewing(b) => Viewing(a)) /\ (b.at \in Attached => a.at \in Attached)

(* The command line starts, or leaves the session: its queue is kept. *)
Left(a, b) ==
  /\ b.logs = a.logs /\ SameTasks(a, b) /\ b.queue = a.queue /\ b.screen = a.screen
  /\ ~Viewing(b) /\ b.at \notin Attached

(* An entry is written: the others are kept, and a task is to emit it. *)
GrownAt(a, b, l, v) ==
  /\ l \in 1..Len(b.logs) /\ b.logs[l] = v
  /\ \A m \in 1..Len(a.logs) : /\ m \in 1..Len(b.logs) /\ a.logs[m] <= b.logs[m]
                               /\ m = l \/ a.logs[m] = b.logs[m]
  /\ \A m \in 1..Len(b.logs) : m = l \/ m \in 1..Len(a.logs)
  /\ \A w \in Nat : LogEvent(l, w) \notin a.tasks
  /\ \A m \in Log, w \in Nat : LogEvent(m, w) \in b.tasks <=>
                                 LogEvent(m, w) \in a.tasks \/ (m = l /\ w = v)
Grown(a, b) ==
  /\ \E l \in Log, v \in Nat : GrownAt(a, b, l, v)
  /\ b.queue = a.queue /\ b.screen = a.screen /\ b.events = a.events
  /\ b.view = a.view /\ b.at = a.at

(* A task emits: the reader of the topic, if there is one, has the event,  *)
(* and may lose the oldest it has.                                         *)
EmittedAs(a, b, e) ==
  /\ e \in a.tasks /\ b.tasks = a.tasks \ {e}
  /\ \/ a.at \notin Attached /\ b.events = a.events
     \/ a.at \in Attached /\ b.events = Append(a.events, e)
     \/ a.at \in Attached /\ a.events # <<>> /\ b.events = Append(Tail(a.events), e)
Emitted(a, b) ==
  /\ \E e \in Events : EmittedAs(a, b, e)
  /\ b.logs = a.logs /\ b.queue = a.queue /\ b.screen = a.screen
  /\ b.view = a.view /\ b.at = a.at

(* The view is read, and it is printed when the subscription starts. *)
Viewed(a, b) ==
  /\ a.at = "logs" /\ b.at = "pendings" /\ b.view = a.logs
  /\ b.logs = a.logs /\ SameTasks(a, b) /\ b.queue = a.queue /\ b.screen = a.screen
  /\ b.events = a.events

ViewLines(view) == [l \in DOMAIN view |-> PrintLine(LogEvent(l, view[l]))]
Subscribed(a, b) ==
  /\ a.at = "subscribe" /\ b.at = "serving"
  /\ b.logs = a.logs /\ SameTasks(a, b) /\ b.screen = a.screen
  /\ b.events = <<>> /\ b.queue = a.queue \o ViewLines(a.view)

(* The command line takes an event, and hands it on when it is a log; or   *)
(* the stream skips the event.                                             *)
Taken(a, b) ==
  /\ a.at \in Attached /\ b.at \in Attached
  /\ b.logs = a.logs /\ SameTasks(a, b) /\ b.screen = a.screen
  /\ a.events # <<>> /\ b.events = Tail(a.events)
  /\ b.queue \in {a.queue, print_line(a.queue, Head(a.events))}

(* It asks for a line. *)
Asked(a, b) ==
  /\ a.at \in Attached /\ b.at \in Attached
  /\ b.logs = a.logs /\ SameTasks(a, b) /\ b.screen = a.screen
  /\ b.events = a.events /\ b.queue = Append(a.queue, ReadLine)

(* The terminal takes a command, and prints it or reads a line. *)
Displayed(a, b) ==
  /\ b.logs = a.logs /\ SameTasks(a, b) /\ b.events = a.events
  /\ b.view = a.view /\ b.at = a.at
  /\ a.queue # <<>> /\ b.queue = Tail(a.queue)
  /\ LET c == Head(a.queue) IN
       \/ c.cmd = "Print" /\ b.screen = [a.screen EXCEPT ![c.event.log] = c.event.version]
       \/ c.cmd = "ReadLine" /\ b.screen = a.screen

JournalMoves(a, b) ==
  \/ Still(a, b) \/ Left(a, b) \/ Grown(a, b) \/ Emitted(a, b) \/ Viewed(a, b)
  \/ Subscribed(a, b) \/ Taken(a, b) \/ Asked(a, b) \/ Displayed(a, b)

-----------------------------------------------------------------------------
(* Each of them keeps the order of the way *)

LEMMA Entries ==
  ASSUME NEW a \in Journals, Sized(a)
  PROVE  /\ \A l \in 1..Len(a.logs) : l \in Log /\ a.logs[l] \in Nat
         /\ \A l \in 1..Len(a.view) : l \in Log /\ a.view[l] \in Nat
         /\ \A l \in Log : Current(a, l) \in Nat /\ a.screen[l] \in Nat
<1>1. a.logs \in Seq(Nat) /\ a.view \in Seq(Nat) /\ a.screen \in [Log -> Nat]
  BY DEF Journals
<1>2. MaxLogs \in Nat /\ Len(a.logs) <= MaxLogs /\ Len(a.view) <= MaxLogs
  BY LiveAssumption DEF Sized
<1>3. \A n \in Nat : n <= MaxLogs => \A l \in 1..n : l \in Log
  BY <1>2 DEF Log
<1>4. Len(a.logs) \in Nat /\ Len(a.view) \in Nat
  BY <1>1
<1> DEFINE Bounded(s) == \A l \in 1..Len(s) : l \in Log /\ s[l] \in Nat
<1>0. \A s \in Seq(Nat) : Len(s) <= MaxLogs => Bounded(s)
  <2> TAKE s \in Seq(Nat)
  <2>1. \A l \in 1..Len(s) : s[l] \in Nat
    OBVIOUS
  <2>2. Len(s) \in Nat
    OBVIOUS
  <2> QED
    BY <1>3, <2>1, <2>2
<1>5. Bounded(a.logs)
  BY <1>0, <1>1, <1>2
<1>6. Bounded(a.view)
  BY <1>0, <1>1, <1>2
<1>7. \A l \in Log : Current(a, l) \in Nat /\ a.screen[l] \in Nat
  BY <1>1, <1>5 DEF Current
<1> QED
  BY <1>5, <1>6, <1>7

(* What is on the way is part of what was there, and the journal is not    *)
(* older.                                                                  *)
Thinner(a, b) ==
  /\ \A l \in Log, v \in Nat, k \in Nat :
       /\ Queued(b, l, v, k) => Queued(a, l, v, k)
       /\ Streamed(b, l, v, k) => Streamed(a, l, v, k)
  /\ \A l \in Log : Current(a, l) <= Current(b, l)
  /\ b.screen = a.screen

LEMMA ThinnerWay ==
  ASSUME NEW a \in Journals, NEW b \in Journals, Sized(a), Sized(b), JournalInv(a), Thinner(a, b)
  PROVE  ScreenIsOldest(b) /\ WayIsOrdered(b)
<1>1. \A l \in Log : Current(a, l) \in Nat /\ Current(b, l) \in Nat /\ a.screen[l] \in Nat
  BY Entries
<1>2. ScreenIsOldest(b)
  BY <1>1 DEF JournalInv, ScreenIsOldest, Thinner
<1>3. WayIsOrdered(b)
  BY DEF JournalInv, WayIsOrdered, Thinner
<1> QED
  BY <1>2, <1>3

LEMMA StillMove ==
  ASSUME NEW a \in Journals, NEW b \in Journals, Sized(a), Sized(b), JournalInv(a), Still(a, b)
  PROVE  JournalInv(b)
<1>1. \A l, v, k : /\ Queued(b, l, v, k) <=> Queued(a, l, v, k)
                   /\ Streamed(b, l, v, k) <=> Streamed(a, l, v, k)
  BY DEF Still, Queued, Streamed
<1>2. \A l \in Log : Current(b, l) = Current(a, l) /\ Current(a, l) \in Nat
  BY Entries DEF Still, Current
<1>3. TasksAreCurrent(b)
  BY DEF JournalInv, TasksAreCurrent, Still, SameTasks
<1>4. ScreenIsOldest(b) /\ WayIsOrdered(b)
  <2>1. Thinner(a, b)
    BY <1>1, <1>2 DEF Thinner, Still
  <2> QED
    BY <2>1, ThinnerWay
<1>5. ViewIsNewest(b)
  BY <1>1 DEF JournalInv, ViewIsNewest, Still
<1> QED
  BY <1>3, <1>4, <1>5 DEF JournalInv

LEMMA LeftMove ==
  ASSUME NEW a \in Journals, NEW b \in Journals, Sized(a), Sized(b), JournalInv(a), Left(a, b)
  PROVE  JournalInv(b)
<1>1. \A l, v, k : Queued(b, l, v, k) <=> Queued(a, l, v, k)
  BY DEF Left, Queued
<1>2. \A l, v, k : ~Streamed(b, l, v, k)
  <2>1. b.events = <<>>
    BY DEF Left, Sized
  <2> QED
    BY <2>1 DEF Streamed, At
<1>3. \A l \in Log : Current(b, l) = Current(a, l) /\ Current(a, l) \in Nat
  BY Entries DEF Left, Current
<1>4. TasksAreCurrent(b)
  BY DEF JournalInv, TasksAreCurrent, Left, SameTasks
<1>5. ScreenIsOldest(b) /\ WayIsOrdered(b)
  <2>1. Thinner(a, b)
    BY <1>1, <1>2, <1>3 DEF Thinner, Left
  <2> QED
    BY <2>1, ThinnerWay
<1> QED
  BY <1>4, <1>5 DEF JournalInv, ViewIsNewest, Left

LEMMA GrownMove ==
  ASSUME NEW a \in Journals, NEW b \in Journals, Sized(a), Sized(b), JournalInv(a), Grown(a, b)
  PROVE  JournalInv(b)
<1>1. PICK l \in Log, v \in Nat : GrownAt(a, b, l, v)
  BY DEF Grown
<1>2. /\ \A m \in 1..Len(a.logs) : m \in Log /\ a.logs[m] \in Nat
      /\ \A m \in 1..Len(b.logs) : m \in Log /\ b.logs[m] \in Nat
      /\ \A m \in 1..Len(b.view) : m \in Log /\ b.view[m] \in Nat
      /\ \A m \in Log : Current(a, m) \in Nat /\ Current(b, m) \in Nat /\ b.screen[m] \in Nat
  BY Entries
<1>3. \A m, w, k : /\ Queued(b, m, w, k) <=> Queued(a, m, w, k)
                   /\ Streamed(b, m, w, k) <=> Streamed(a, m, w, k)
  BY DEF Grown, Queued, Streamed
<1>4. TasksAreCurrent(b)
  BY <1>1 DEF JournalInv, TasksAreCurrent, GrownAt
<1>5. ScreenIsOldest(b) /\ WayIsOrdered(b)
  <2>1. \A m \in Log : Current(a, m) <= Current(b, m)
    BY <1>1, <1>2 DEF GrownAt, Current
  <2>2. Thinner(a, b)
    BY <1>3, <2>1 DEF Thinner, Grown
  <2> QED
    BY <2>2, ThinnerWay
<1>6. ViewIsNewest(b)
  <2> SUFFICES ASSUME Viewing(b), NEW m \in 1..Len(b.view)
               PROVE  /\ m \in 1..Len(b.logs) /\ b.view[m] <= b.logs[m] /\ b.screen[m] <= b.view[m]
                      /\ \A w \in Nat, k \in Nat : Queued(b, m, w, k) => w <= b.view[m]
    BY DEF ViewIsNewest
  <2>1. /\ m \in 1..Len(a.logs) /\ b.view[m] <= a.logs[m] /\ b.screen[m] <= b.view[m]
        /\ \A w \in Nat, k \in Nat : Queued(a, m, w, k) => w <= b.view[m]
    BY DEF JournalInv, ViewIsNewest, Grown, Viewing
  <2>2. m \in 1..Len(b.logs) /\ a.logs[m] <= b.logs[m]
    BY <1>1, <2>1 DEF GrownAt
  <2>3. b.view[m] <= b.logs[m]
    <3>1. b.view[m] \in Nat /\ a.logs[m] \in Nat /\ b.logs[m] \in Nat
      BY <1>2, <2>1, <2>2
    <3> QED
      BY <3>1, <2>1, <2>2
  <2> QED
    BY <1>3, <2>1, <2>2, <2>3
<1> QED
  BY <1>4, <1>5, <1>6 DEF JournalInv

LEMMA ViewedMove ==
  ASSUME NEW a \in Journals, NEW b \in Journals, Sized(a), Sized(b), JournalInv(a), Viewed(a, b)
  PROVE  JournalInv(b)
<1>1. \A l, v, k : /\ Queued(b, l, v, k) <=> Queued(a, l, v, k)
                   /\ Streamed(b, l, v, k) <=> Streamed(a, l, v, k)
  BY DEF Viewed, Queued, Streamed
<1>2. \A l \in Log : Current(b, l) = Current(a, l) /\ Current(a, l) \in Nat
  BY Entries DEF Viewed, Current
<1>3. TasksAreCurrent(b)
  BY DEF JournalInv, TasksAreCurrent, Viewed, SameTasks
<1>4. ScreenIsOldest(b) /\ WayIsOrdered(b)
  <2>1. Thinner(a, b)
    BY <1>1, <1>2 DEF Thinner, Viewed
  <2> QED
    BY <2>1, ThinnerWay
<1>5. \A l \in 1..Len(a.logs) : l \in Log /\ a.logs[l] \in Nat /\ Current(a, l) = a.logs[l]
  BY Entries DEF Current
<1>6. ViewIsNewest(b)
  BY <1>1, <1>5 DEF JournalInv, ScreenIsOldest, ViewIsNewest, Viewed
<1> QED
  BY <1>3, <1>4, <1>6 DEF JournalInv

LEMMA AskedMove ==
  ASSUME NEW a \in Journals, NEW b \in Journals, Sized(a), Sized(b), JournalInv(a), Asked(a, b)
  PROVE  JournalInv(b)
<1>1. a.queue \in Seq(Commands) /\ ReadLine \in Commands
  BY LinesAre DEF Journals
<1>2. \A l \in Log, v \in Nat, k \in Nat : Queued(b, l, v, k) <=> Queued(a, l, v, k)
  <2> TAKE l \in Log, v \in Nat, k \in Nat
  <2>1. PrintLine(LogEvent(l, v)) # ReadLine
    BY LinesAre
  <2>2. At(Append(a.queue, ReadLine), k, PrintLine(LogEvent(l, v))) <=> At(a.queue, k, PrintLine(LogEvent(l, v)))
    BY <1>1, <2>1, AtAppend
  <2> QED
    BY <2>2 DEF Queued, Asked
<1>3. \A l, v, k : Streamed(b, l, v, k) <=> Streamed(a, l, v, k)
  BY DEF Asked, Streamed
<1>4. \A l \in Log : Current(b, l) = Current(a, l) /\ Current(a, l) \in Nat
  BY Entries DEF Asked, Current
<1>5. TasksAreCurrent(b)
  BY DEF JournalInv, TasksAreCurrent, Asked, SameTasks
<1>6. ScreenIsOldest(b) /\ WayIsOrdered(b)
  <2>1. Thinner(a, b)
    BY <1>2, <1>3, <1>4 DEF Thinner, Asked
  <2> QED
    BY <2>1, ThinnerWay
<1>7. ViewIsNewest(b)
  BY DEF ViewIsNewest, Viewing, Asked, Attached
<1> QED
  BY <1>5, <1>6, <1>7 DEF JournalInv

(* The event comes last, after the ones that are kept of the subscription. *)
Shifted(a, b, e, d, n) ==
  \A l \in Log, v \in Nat, k \in Nat :
    Streamed(b, l, v, k) <=> \/ k \in 1..n /\ Streamed(a, l, v, k + d)
                             \/ k = n + 1 /\ LogEvent(l, v) = e

LEMMA ShiftedWay ==
  ASSUME NEW a \in Journals, NEW b \in Journals, Sized(a), Sized(b), JournalInv(a),
         NEW e \in a.tasks, NEW d \in Nat, NEW n \in Nat, Shifted(a, b, e, d, n),
         b.logs = a.logs, b.queue = a.queue, b.screen = a.screen
  PROVE  ScreenIsOldest(b) /\ WayIsOrdered(b)
<1>1. \A l \in Log, v \in Nat, k \in Nat : Queued(b, l, v, k) <=> Queued(a, l, v, k)
  BY DEF Queued
<1>2. \A l \in Log : Current(b, l) = Current(a, l) /\ Current(a, l) \in Nat /\ a.screen[l] \in Nat
  BY Entries DEF Current
<1>3. \A l \in Log, v \in Nat : e = LogEvent(l, v) => v = Current(a, l)
  BY DEF JournalInv, TasksAreCurrent, Current
<1>4. ASSUME NEW l \in Log, NEW v \in Nat, NEW k \in Nat, Streamed(b, l, v, k)
      PROVE  \/ k \in 1..n /\ Streamed(a, l, v, k + d)
             \/ k = n + 1 /\ v = Current(a, l)
  BY <1>3, <1>4 DEF Shifted
<1>5. ScreenIsOldest(b)
  <2>1. \A l \in Log : /\ a.screen[l] <= Current(a, l)
                       /\ \A v \in Nat, k \in Nat : Queued(a, l, v, k) \/ Streamed(a, l, v, k) =>
                            a.screen[l] <= v /\ v <= Current(a, l)
    BY DEF JournalInv, ScreenIsOldest
  <2>2. ASSUME NEW l \in Log, NEW v \in Nat, NEW k \in Nat, Streamed(b, l, v, k)
        PROVE  a.screen[l] <= v /\ v <= Current(a, l)
    <3>1. CASE k \in 1..n /\ Streamed(a, l, v, k + d)
      BY <3>1, <2>1
    <3>2. CASE k = n + 1 /\ v = Current(a, l)
      BY <3>2, <2>1, <1>2
    <3> QED
      BY <3>1, <3>2, <2>2, <1>4
  <2> QED
    BY <1>1, <1>2, <2>1, <2>2 DEF ScreenIsOldest
<1>6. ASSUME NEW l \in Log, NEW v \in Nat, NEW w \in Nat, NEW j \in Nat, NEW k \in Nat
      PROVE  /\ Queued(b, l, v, j) /\ Queued(b, l, w, k) /\ j < k => v <= w
             /\ Streamed(b, l, v, j) /\ Streamed(b, l, w, k) /\ j < k => v <= w
             /\ Queued(b, l, v, j) /\ Streamed(b, l, w, k) => v <= w
  <2>1. /\ Queued(a, l, v, j) /\ Queued(a, l, w, k) /\ j < k => v <= w
        /\ Streamed(a, l, v, j + d) /\ Streamed(a, l, w, k + d) /\ j + d < k + d => v <= w
        /\ Queued(a, l, v, j) /\ Streamed(a, l, w, k + d) => v <= w
    <3>1. j + d \in Nat /\ k + d \in Nat
      OBVIOUS
    <3> QED
      BY <3>1 DEF JournalInv, WayIsOrdered
  <2>2. /\ Queued(a, l, v, j) => v <= Current(a, l)
        /\ Streamed(a, l, v, j + d) => v <= Current(a, l)
    <3>1. j + d \in Nat
      OBVIOUS
    <3> QED
      BY <3>1 DEF JournalInv, ScreenIsOldest
  <2>3. ASSUME Streamed(b, l, v, j), Streamed(b, l, w, k), j < k
        PROVE  v <= w
    <3>1. j \in 1..n /\ Streamed(a, l, v, j + d)
      <4>1. j # n + 1
        <5>1. k \in 1..n \/ k = n + 1
          BY <1>4, <2>3
        <5> QED
          BY <5>1, <2>3
      <4> QED
        BY <4>1, <1>4, <2>3
    <3>2. CASE k \in 1..n /\ Streamed(a, l, w, k + d)
      <4>1. j + d < k + d
        BY <2>3
      <4> QED
        BY <4>1, <3>1, <3>2, <2>1
    <3>3. CASE k = n + 1 /\ w = Current(a, l)
      BY <3>1, <3>3, <2>2
    <3> QED
      BY <3>2, <3>3, <2>3, <1>4
  <2>4. ASSUME Queued(b, l, v, j), Streamed(b, l, w, k)
        PROVE  v <= w
    <3>1. Queued(a, l, v, j)
      BY <2>4, <1>1
    <3> QED
      BY <3>1, <2>1, <2>2, <2>4, <1>4
  <2> QED
    BY <1>1, <2>1, <2>3, <2>4
<1>7. WayIsOrdered(b)
  BY <1>6 DEF WayIsOrdered
<1> QED
  BY <1>5, <1>7

(* A task emits at the end of a subscription that keeps, from d on, what   *)
(* it has.                                                                 *)
LEMMA ShiftedMove ==
  ASSUME NEW a \in Journals, NEW b \in Journals, Sized(a), Sized(b), JournalInv(a),
         NEW e \in a.tasks, NEW d \in Nat, NEW n \in Nat, Shifted(a, b, e, d, n),
         b.logs = a.logs, b.queue = a.queue, b.screen = a.screen, b.at = a.at,
         a.at \in Attached, b.tasks = a.tasks \ {e}
  PROVE  JournalInv(b)
<1>1. ScreenIsOldest(b) /\ WayIsOrdered(b)
  BY ShiftedWay
<1>2. TasksAreCurrent(b)
  BY DEF JournalInv, TasksAreCurrent
<1>3. ViewIsNewest(b)
  BY DEF ViewIsNewest, Viewing, Attached
<1> QED
  BY <1>1, <1>2, <1>3 DEF JournalInv

LEMMA EmittedMove ==
  ASSUME NEW a \in Journals, NEW b \in Journals, Sized(a), Sized(b), JournalInv(a), Emitted(a, b)
  PROVE  JournalInv(b)
<1>1. PICK e \in Events : EmittedAs(a, b, e)
  BY DEF Emitted
<1>2. e \in a.tasks /\ b.tasks = a.tasks \ {e}
  BY <1>1 DEF EmittedAs
<1>3. b.logs = a.logs /\ b.queue = a.queue /\ b.screen = a.screen /\ b.view = a.view /\ b.at = a.at
  BY DEF Emitted
<1>4. a.events \in Seq(Events) /\ Len(a.events) \in Nat
  BY DEF Journals
<1>5. CASE a.at \notin Attached /\ b.events = a.events
  <2>1. \A l, v, k : /\ Queued(b, l, v, k) <=> Queued(a, l, v, k)
                     /\ Streamed(b, l, v, k) <=> Streamed(a, l, v, k)
    BY <1>3, <1>5 DEF Queued, Streamed
  <2>2. \A l \in Log : Current(b, l) = Current(a, l) /\ Current(a, l) \in Nat
    BY Entries, <1>3 DEF Current
  <2>3. TasksAreCurrent(b)
    BY <1>2, <1>3 DEF JournalInv, TasksAreCurrent
  <2>4. Thinner(a, b)
    BY <2>1, <2>2, <1>3 DEF Thinner
  <2>5. ScreenIsOldest(b) /\ WayIsOrdered(b)
    BY <2>4, ThinnerWay
  <2>6. ViewIsNewest(b)
    BY <2>1, <1>3 DEF JournalInv, ViewIsNewest, Viewing
  <2> QED
    BY <2>3, <2>5, <2>6 DEF JournalInv
<1>6. CASE a.at \in Attached /\ b.events = Append(a.events, e)
  <2>1. Shifted(a, b, e, 0, Len(a.events))
    <3> SUFFICES ASSUME NEW l \in Log, NEW v \in Nat, NEW k \in Nat
                 PROVE  Streamed(b, l, v, k) <=> \/ k \in 1..Len(a.events) /\ Streamed(a, l, v, k + 0)
                                                 \/ k = Len(a.events) + 1 /\ LogEvent(l, v) = e
      BY DEF Shifted
    <3>1. At(b.events, k, LogEvent(l, v)) <=>
            At(a.events, k, LogEvent(l, v)) \/ (k = Len(a.events) + 1 /\ LogEvent(l, v) = e)
      BY <1>4, <1>6, AtAppend
    <3>2. k + 0 = k
      OBVIOUS
    <3> QED
      BY <3>1, <3>2 DEF Streamed, At
  <2>2. 0 \in Nat
    OBVIOUS
  <2> QED
    BY <2>1, <2>2, <1>2, <1>3, <1>4, <1>6, ShiftedMove
<1>7. CASE a.at \in Attached /\ a.events # <<>> /\ b.events = Append(Tail(a.events), e)
  <2>0. Tail(a.events) \in Seq(Events)
    BY <1>4, <1>7, AtTail
  <2>1. PICK s \in Seq(Events) : s = Tail(a.events)
    BY <2>0
  <2>2. Len(s) \in Nat /\ 1 \in Nat
    OBVIOUS
  <2>3. Shifted(a, b, e, 1, Len(s))
    <3> SUFFICES ASSUME NEW l \in Log, NEW v \in Nat, NEW k \in Nat
                 PROVE  Streamed(b, l, v, k) <=> \/ k \in 1..Len(s) /\ Streamed(a, l, v, k + 1)
                                                 \/ k = Len(s) + 1 /\ LogEvent(l, v) = e
      BY DEF Shifted
    <3>1. At(b.events, k, LogEvent(l, v)) <=>
            At(s, k, LogEvent(l, v)) \/ (k = Len(s) + 1 /\ LogEvent(l, v) = e)
      <4>1. b.events = Append(s, e) /\ s \in Seq(Events) /\ e \in Events
        BY <2>1, <1>7
      <4> QED
        BY ONLY <4>1, AtAppend
    <3>2. At(s, k, LogEvent(l, v)) <=> k > 0 /\ At(a.events, k + 1, LogEvent(l, v))
      BY <1>4, <1>7, <2>1, AtTail
    <3>3. At(s, k, LogEvent(l, v)) => k \in 1..Len(s)
      BY DEF At
    <3>4. k \in 1..Len(s) => k > 0
      OBVIOUS
    <3> QED
      BY <3>1, <3>2, <3>3, <3>4 DEF Streamed
  <2> QED
    BY <2>2, <2>3, <1>2, <1>3, <1>7, ShiftedMove
<1> QED
  BY <1>1, <1>5, <1>6, <1>7 DEF EmittedAs

LEMMA TakenMove ==
  ASSUME NEW a \in Journals, NEW b \in Journals, Sized(a), Sized(b), JournalInv(a), Taken(a, b)
  PROVE  JournalInv(b)
<1>1. /\ a.events \in Seq(Events) /\ a.queue \in Seq(Commands) /\ Len(a.queue) \in Nat
      /\ a.events # <<>> /\ b.events = Tail(a.events) /\ Head(a.events) \in Events
      /\ b.queue \in {a.queue, print_line(a.queue, Head(a.events))}
  BY AtTail DEF Journals, Taken
<1>2. ASSUME NEW l \in Log, NEW v \in Nat, NEW k \in Nat
      PROVE  Streamed(b, l, v, k) <=> k > 0 /\ Streamed(a, l, v, k + 1)
  BY <1>1, AtTail DEF Streamed
<1>3. ASSUME NEW l \in Log, NEW v \in Nat
      PROVE  Streamed(a, l, v, 1) <=> LogEvent(l, v) = Head(a.events)
  BY <1>1, AtTail DEF Streamed
<1>4. ASSUME NEW l \in Log, NEW v \in Nat, NEW k \in Nat
      PROVE  Queued(b, l, v, k) => \/ Queued(a, l, v, k)
                                   \/ k = Len(a.queue) + 1 /\ Streamed(a, l, v, 1)
  <2>0. CASE b.queue = a.queue
    BY <2>0 DEF Queued
  <2>1. PICK e \in Events : e = Head(a.events)
    BY <1>1
  <2>2. CASE e.type = "Log" /\ b.queue # a.queue
    <3>1. e.log \in Log /\ e.version \in Nat /\ e = LogEvent(e.log, e.version)
      BY <2>2, LogEventsAre
    <3>2. PrintLine(e) \in Commands
      BY <3>1, LogEventsAre
    <3>3. b.queue = Append(a.queue, PrintLine(e))
      BY <1>1, <2>1, <2>2 DEF print_line
    <3>4. At(b.queue, k, PrintLine(LogEvent(l, v))) <=>
            \/ At(a.queue, k, PrintLine(LogEvent(l, v)))
            \/ k = Len(a.queue) + 1 /\ PrintLine(LogEvent(l, v)) = PrintLine(e)
      <4>1. PICK y \in Commands, q \in Seq(Commands) :
                y = PrintLine(e) /\ q = a.queue
        BY <1>1, <3>2
      <4> DEFINE x == PrintLine(LogEvent(l, v))
      <4> HIDE DEF x
      <4>2. At(Append(q, y), k, x) <=> At(q, k, x) \/ (k = Len(q) + 1 /\ x = y)
        BY ONLY AtAppend, q \in Seq(Commands), y \in Commands
      <4> QED
        BY <4>1, <4>2, <3>3 DEF x
    <3>5. PrintLine(LogEvent(l, v)) = PrintLine(e) <=> LogEvent(l, v) = e
      BY DEF PrintLine
    <3> QED
      BY <3>4, <3>5, <1>3, <2>1 DEF Queued
  <2>3. CASE e.type # "Log"
    <3>1. LogEvent(l, v) # e
      BY <2>3, LogEventsAre
    <3>2. b.queue = a.queue
      BY <1>1, <2>1, <2>3 DEF print_line
    <3> QED
      BY <3>1, <3>2, <1>3, <2>1 DEF Queued
  <2> QED
    BY <2>0, <2>2, <2>3
<1>5. \A l \in Log : Current(b, l) = Current(a, l) /\ Current(a, l) \in Nat /\ a.screen[l] \in Nat
  BY Entries DEF Taken, Current
<1>6. TasksAreCurrent(b)
  BY DEF JournalInv, TasksAreCurrent, Taken, SameTasks
<1>7. ScreenIsOldest(b)
  <2>1. ASSUME NEW l \in Log, NEW v \in Nat, NEW k \in Nat, Queued(b, l, v, k) \/ Streamed(b, l, v, k)
        PROVE  a.screen[l] <= v /\ v <= Current(a, l)
    <3>1. \E i \in Nat : Queued(a, l, v, i) \/ Streamed(a, l, v, i)
      <4>1. k + 1 \in Nat /\ 1 \in Nat
        OBVIOUS
      <4> QED
        BY <4>1, <2>1, <1>2, <1>4
    <3> QED
      BY <3>1 DEF JournalInv, ScreenIsOldest
  <2>2. \A l \in Log : a.screen[l] <= Current(a, l)
    BY DEF JournalInv, ScreenIsOldest
  <2>3. b.screen = a.screen
    BY DEF Taken
  <2> QED
    BY <2>1, <2>2, <2>3, <1>5 DEF ScreenIsOldest
<1>8. ASSUME NEW l \in Log, NEW v \in Nat, NEW w \in Nat, NEW j \in Nat, NEW k \in Nat
      PROVE  /\ Queued(b, l, v, j) /\ Queued(b, l, w, k) /\ j < k => v <= w
             /\ Streamed(b, l, v, j) /\ Streamed(b, l, w, k) /\ j < k => v <= w
             /\ Queued(b, l, v, j) /\ Streamed(b, l, w, k) => v <= w
  <2>1. \A x \in Nat, y \in Nat, m \in Nat, n \in Nat :
          /\ Queued(a, l, x, m) /\ Queued(a, l, y, n) /\ m < n => x <= y
          /\ Streamed(a, l, x, m) /\ Streamed(a, l, y, n) /\ m < n => x <= y
          /\ Queued(a, l, x, m) /\ Streamed(a, l, y, n) => x <= y
    BY DEF JournalInv, WayIsOrdered
  <2>2. k + 1 \in Nat /\ j + 1 \in Nat /\ 1 \in Nat /\ (j < k => j + 1 < k + 1) /\ (k > 0 => 1 < k + 1)
    OBVIOUS
  <2>3. ASSUME Queued(b, l, v, j), Queued(b, l, w, k), j < k
        PROVE  v <= w
    <3>1. Queued(a, l, v, j)
      <4>1. j # Len(a.queue) + 1
        <5>1. k \in 1..Len(a.queue) \/ k = Len(a.queue) + 1
          BY <2>3, <1>4 DEF Queued, At
        <5> QED
          BY <5>1, <2>3, <1>1
      <4> QED
        BY <4>1, <2>3, <1>4
    <3> QED
      BY <3>1, <2>1, <2>2, <2>3, <1>4
  <2>4. ASSUME Streamed(b, l, v, j), Streamed(b, l, w, k), j < k
        PROVE  v <= w
    BY <2>1, <2>2, <2>4, <1>2
  <2>5. ASSUME Queued(b, l, v, j), Streamed(b, l, w, k)
        PROVE  v <= w
    BY <2>1, <2>2, <2>5, <1>2, <1>4
  <2> QED
    BY <2>3, <2>4, <2>5
<1>9. WayIsOrdered(b)
  BY <1>8 DEF WayIsOrdered
<1>10. ViewIsNewest(b)
  BY DEF ViewIsNewest, Viewing, Taken, Attached
<1> QED
  BY <1>6, <1>7, <1>9, <1>10 DEF JournalInv

LEMMA ShownMove ==
  ASSUME NEW a \in Journals, NEW b \in Journals, Sized(a), Sized(b), JournalInv(a), Displayed(a, b)
  PROVE  JournalInv(b) /\ \A l \in Log : b.screen[l] >= a.screen[l]
<1>1. /\ a.queue \in Seq(Commands) /\ a.queue # <<>> /\ b.queue = Tail(a.queue)
      /\ Head(a.queue) \in Commands /\ a.screen \in [Log -> Nat] /\ 1 \in Nat
  BY AtTail DEF Journals, Displayed
<1>2. ASSUME NEW l \in Log, NEW v \in Nat, NEW k \in Nat
      PROVE  Queued(b, l, v, k) <=> k > 0 /\ Queued(a, l, v, k + 1)
  BY <1>1, AtTail DEF Queued
<1>3. ASSUME NEW l \in Log, NEW v \in Nat
      PROVE  Queued(a, l, v, 1) <=> PrintLine(LogEvent(l, v)) = Head(a.queue)
  BY <1>1, AtTail DEF Queued
<1>4. ASSUME NEW l \in Log
      PROVE  \/ b.screen[l] = a.screen[l] /\ \A v \in Nat : ~Queued(a, l, v, 1)
             \/ b.screen[l] \in Nat /\ \A v \in Nat : Queued(a, l, v, 1) <=> v = b.screen[l]
  <2>1. PICK c \in Commands : c = Head(a.queue)
    BY <1>1
  <2>2. CASE c.cmd = "Print"
    <3>1. /\ c.event.log \in Log /\ c.event.version \in Nat
          /\ c = PrintLine(LogEvent(c.event.log, c.event.version))
      BY <2>2, LinesAre
    <3>2. b.screen = [a.screen EXCEPT ![c.event.log] = c.event.version]
      BY <2>1, <2>2 DEF Displayed
    <3>3. \A v \in Nat : Queued(a, l, v, 1) <=> l = c.event.log /\ v = c.event.version
      BY <3>1, <2>1, <1>3, LinesAre
    <3> QED
      BY <3>1, <3>2, <3>3, <1>1
  <2>3. CASE c.cmd # "Print"
    <3>1. c = ReadLine /\ b.screen = a.screen
      BY <2>1, <2>3, LinesAre DEF Displayed
    <3> QED
      BY <3>1, <2>1, <1>3, LinesAre
  <2> QED
    BY <2>2, <2>3
<1>5. /\ b.logs = a.logs /\ b.events = a.events
      /\ b.view = a.view /\ b.at = a.at /\ SameTasks(a, b)
  BY DEF Displayed
<1>6. \A l, v, k : Streamed(b, l, v, k) <=> Streamed(a, l, v, k)
  BY <1>5 DEF Streamed
<1>7. \A l \in Log : /\ Current(b, l) = Current(a, l) /\ Current(a, l) \in Nat
                     /\ a.screen[l] \in Nat /\ b.screen[l] \in Nat
  BY Entries, <1>5 DEF Current
<1>8. TasksAreCurrent(b)
  BY <1>5 DEF JournalInv, TasksAreCurrent, SameTasks
<1>9. ASSUME NEW l \in Log
      PROVE  /\ a.screen[l] <= Current(a, l)
             /\ \A v \in Nat, k \in Nat : Queued(a, l, v, k) \/ Streamed(a, l, v, k) =>
                  a.screen[l] <= v /\ v <= Current(a, l)
             /\ \A v \in Nat, w \in Nat, j \in Nat, k \in Nat :
                  /\ Queued(a, l, v, j) /\ Queued(a, l, w, k) /\ j < k => v <= w
                  /\ Queued(a, l, v, j) /\ Streamed(a, l, w, k) => v <= w
  BY DEF JournalInv, ScreenIsOldest, WayIsOrdered
<1>10. \A l \in Log : b.screen[l] >= a.screen[l] /\ b.screen[l] <= Current(a, l)
  BY <1>1, <1>4, <1>7, <1>9
<1>11. ScreenIsOldest(b)
  <2>1. ASSUME NEW l \in Log, NEW v \in Nat, NEW k \in Nat, Queued(b, l, v, k)
        PROVE  b.screen[l] <= v /\ v <= Current(b, l)
    <3>1. k + 1 \in Nat /\ 1 < k + 1 /\ Queued(a, l, v, k + 1)
      BY <2>1, <1>2
    <3> QED
      BY <3>1, <1>1, <1>4, <1>7, <1>9
  <2>2. ASSUME NEW l \in Log, NEW v \in Nat, NEW k \in Nat, Streamed(b, l, v, k)
        PROVE  b.screen[l] <= v /\ v <= Current(b, l)
    BY <2>2, <1>1, <1>4, <1>6, <1>7, <1>9
  <2> QED
    BY <2>1, <2>2, <1>7, <1>10 DEF ScreenIsOldest
<1>12. WayIsOrdered(b)
  <2> SUFFICES ASSUME NEW l \in Log, NEW v \in Nat, NEW w \in Nat, NEW j \in Nat, NEW k \in Nat
               PROVE  /\ Queued(b, l, v, j) /\ Queued(b, l, w, k) /\ j < k => v <= w
                      /\ Streamed(b, l, v, j) /\ Streamed(b, l, w, k) /\ j < k => v <= w
                      /\ Queued(b, l, v, j) /\ Streamed(b, l, w, k) => v <= w
    BY DEF WayIsOrdered
  <2>1. j + 1 \in Nat /\ k + 1 \in Nat /\ (j < k => j + 1 < k + 1)
    OBVIOUS
  <2>2. Streamed(b, l, v, j) /\ Streamed(b, l, w, k) /\ j < k => v <= w
    BY <1>6 DEF JournalInv, WayIsOrdered
  <2>3. /\ Queued(b, l, v, j) => Queued(a, l, v, j + 1)
        /\ Queued(b, l, w, k) => Queued(a, l, w, k + 1)
    BY <1>2
  <2>4. Queued(b, l, v, j) /\ Queued(b, l, w, k) /\ j < k => v <= w
    BY <2>1, <2>3, <1>9
  <2>5. Queued(b, l, v, j) /\ Streamed(b, l, w, k) => v <= w
    BY <2>1, <2>3, <1>6, <1>9
  <2> QED
    BY <2>2, <2>4, <2>5
<1>13. ViewIsNewest(b)
  <2> SUFFICES ASSUME Viewing(b), NEW l \in 1..Len(b.view)
               PROVE  /\ l \in 1..Len(b.logs) /\ b.view[l] <= b.logs[l] /\ b.screen[l] <= b.view[l]
                      /\ \A v \in Nat, k \in Nat : Queued(b, l, v, k) => v <= b.view[l]
    BY DEF ViewIsNewest
  <2>1. l \in Log
    BY Entries
  <2>2. /\ l \in 1..Len(b.logs) /\ b.view[l] <= b.logs[l] /\ a.screen[l] <= b.view[l]
        /\ \A v \in Nat, k \in Nat : Queued(a, l, v, k) => v <= b.view[l]
    BY <1>5 DEF JournalInv, ViewIsNewest, Viewing
  <2>3. b.screen[l] <= b.view[l]
    BY <2>1, <2>2, <1>1, <1>4
  <2>4. ASSUME NEW v \in Nat, NEW k \in Nat, Queued(b, l, v, k)
        PROVE  v <= b.view[l]
    <3>1. k + 1 \in Nat /\ Queued(a, l, v, k + 1)
      BY <2>1, <2>4, <1>2
    <3> QED
      BY <3>1, <2>2
  <2> QED
    BY <2>2, <2>3, <2>4
<1> QED
  BY <1>8, <1>10, <1>11, <1>12, <1>13 DEF JournalInv

LEMMA AtConcat ==
  ASSUME NEW S, NEW s \in Seq(S), NEW t \in Seq(S), NEW x, NEW k
  PROVE  /\ s \o t \in Seq(S)
         /\ At(s \o t, k, x) <=> At(s, k, x) \/ \E i \in 1..Len(t) : k = Len(s) + i /\ t[i] = x
<1>1. s \o t \in Seq(S) /\ Len(s \o t) = Len(s) + Len(t) /\ Len(s) \in Nat /\ Len(t) \in Nat
  OBVIOUS
<1>2. \A i \in 1..Len(s) : (s \o t)[i] = s[i]
  OBVIOUS
<1>3. \A i \in 1..Len(t) : (s \o t)[Len(s) + i] = t[i]
  OBVIOUS
<1>4. \A i \in 1..Len(s) : i \in 1..(Len(s) + Len(t))
  BY <1>1
<1>5. \A i \in 1..Len(t) : Len(s) + i \in 1..(Len(s) + Len(t))
  BY <1>1
<1>6. k \in 1..(Len(s) + Len(t)) => k \in 1..Len(s) \/ \E i \in 1..Len(t) : k = Len(s) + i
  <2> SUFFICES ASSUME k \in 1..(Len(s) + Len(t)), k \notin 1..Len(s)
               PROVE  \E i \in 1..Len(t) : k = Len(s) + i
    OBVIOUS
  <2>1. k - Len(s) \in 1..Len(t) /\ k = Len(s) + (k - Len(s))
    BY <1>1
  <2> QED
    BY <2>1
<1> QED
  BY <1>1, <1>2, <1>3, <1>4, <1>5, <1>6 DEF At

LEMMA ViewLinesAre ==
  ASSUME NEW view \in Seq(Nat), Len(view) <= MaxLogs
  PROVE  /\ ViewLines(view) \in Seq(Commands) /\ Len(ViewLines(view)) = Len(view)
         /\ \A i \in 1..Len(view) : ViewLines(view)[i] = PrintLine(LogEvent(i, view[i]))
<1>1. DOMAIN view = 1..Len(view) /\ Len(view) \in Nat
  OBVIOUS
<1>2. \A i \in 1..Len(view) : i \in Log
  BY <1>1, LiveAssumption DEF Log
<1>3. \A i \in 1..Len(view) : PrintLine(LogEvent(i, view[i])) \in Commands
  BY <1>2, LogEventsAre
<1>4. ViewLines(view) = [i \in 1..Len(view) |-> PrintLine(LogEvent(i, view[i]))]
  BY <1>1 DEF ViewLines
<1>5. ViewLines(view) \in [1..Len(view) -> Commands]
  BY <1>3, <1>4
<1>6. ViewLines(view) \in Seq(Commands) /\ Len(ViewLines(view)) = Len(view)
  BY <1>1, <1>5
<1> QED
  BY <1>4, <1>6

LEMMA SubscribedMove ==
  ASSUME NEW a \in Journals, NEW b \in Journals, Sized(a), Sized(b), JournalInv(a), Subscribed(a, b)
  PROVE  JournalInv(b)
<1>1. PICK q \in Seq(Commands), t \in Seq(Commands) :
        /\ q = a.queue /\ t = ViewLines(a.view) /\ b.queue = q \o t
        /\ Len(t) = Len(a.view) /\ \A i \in 1..Len(a.view) : t[i] = PrintLine(LogEvent(i, a.view[i]))
  <2>1. a.queue \in Seq(Commands) /\ a.view \in Seq(Nat) /\ Len(a.view) <= MaxLogs
    BY DEF Journals, Sized
  <2> QED
    BY <2>1, ViewLinesAre DEF Subscribed
<1>2. Viewing(a) /\ a.events = <<>>
  BY DEF Subscribed, Viewing, Sized, Attached
<1>3. /\ b.logs = a.logs /\ b.screen = a.screen /\ b.events = <<>>
      /\ SameTasks(a, b) /\ b.at = "serving"
  BY DEF Subscribed
<1>4. /\ \A l \in 1..Len(a.logs) : l \in Log /\ a.logs[l] \in Nat
      /\ \A l \in 1..Len(a.view) : l \in Log /\ a.view[l] \in Nat
      /\ \A l \in Log : Current(a, l) \in Nat /\ a.screen[l] \in Nat
  BY Entries
<1>5. ASSUME NEW l \in Log, NEW v \in Nat, NEW k \in Nat
      PROVE  Queued(b, l, v, k) <=> \/ Queued(a, l, v, k)
                                    \/ l \in 1..Len(a.view) /\ k = Len(q) + l /\ v = a.view[l]
  <2>1. PICK x : x = PrintLine(LogEvent(l, v))
    OBVIOUS
  <2>2. At(q \o t, k, x) <=> At(q, k, x) \/ \E i \in 1..Len(t) : k = Len(q) + i /\ t[i] = x
    BY ONLY AtConcat, q \in Seq(Commands), t \in Seq(Commands)
  <2>3. \A i \in 1..Len(t) : t[i] = x <=> i = l /\ v = a.view[i]
    <3> TAKE i \in 1..Len(t)
    <3>1. i \in Log /\ a.view[i] \in Nat /\ t[i] = PrintLine(LogEvent(i, a.view[i]))
      BY <1>1, <1>4
    <3>2. PrintLine(LogEvent(i, a.view[i])) = PrintLine(LogEvent(l, v)) => i = l /\ a.view[i] = v
      BY <3>1, LinesAre
    <3> QED
      BY <3>1, <3>2, <2>1
  <2> QED
    BY <2>1, <2>2, <2>3, <1>1 DEF Queued
<1>6. \A l, v, k : ~Streamed(b, l, v, k)
  BY <1>3 DEF Streamed, At
<1>7. \A l \in Log : Current(b, l) = Current(a, l)
  BY <1>3 DEF Current
<1>8. ASSUME NEW l \in 1..Len(a.view)
      PROVE  /\ a.view[l] <= Current(a, l) /\ a.screen[l] <= a.view[l]
             /\ \A v \in Nat, k \in Nat : Queued(a, l, v, k) => v <= a.view[l]
  BY <1>2 DEF JournalInv, ViewIsNewest, Current
<1>9. TasksAreCurrent(b)
  BY <1>3 DEF JournalInv, TasksAreCurrent, SameTasks
<1>10. ScreenIsOldest(b)
  <2>1. \A l \in Log : a.screen[l] <= Current(a, l) /\ \A v \in Nat, k \in Nat :
          Queued(a, l, v, k) => a.screen[l] <= v /\ v <= Current(a, l)
    BY DEF JournalInv, ScreenIsOldest
  <2> QED
    BY <2>1, <1>3, <1>5, <1>6, <1>7, <1>8 DEF ScreenIsOldest
<1>11. WayIsOrdered(b)
  <2> SUFFICES ASSUME NEW l \in Log, NEW v \in Nat, NEW w \in Nat, NEW j \in Nat, NEW k \in Nat,
                      Queued(b, l, v, j), Queued(b, l, w, k), j < k
               PROVE  v <= w
    BY <1>6 DEF WayIsOrdered
  <2>1. CASE Queued(a, l, v, j) /\ Queued(a, l, w, k)
    BY <2>1 DEF JournalInv, WayIsOrdered
  <2>2. CASE Queued(a, l, v, j) /\ l \in 1..Len(a.view) /\ w = a.view[l]
    BY <2>2, <1>8
  <2>3. CASE l \in 1..Len(a.view) /\ j = Len(q) + l /\ v = a.view[l] /\ Queued(a, l, w, k)
    <3>1. k \in 1..Len(q) /\ Len(q) \in Nat
      BY <2>3, <1>1 DEF Queued, At
    <3>2. l >= 1 /\ l \in Nat
      BY <2>3 DEF Log
    <3> QED
      BY <3>1, <3>2, <2>3
  <2>4. CASE v = a.view[l] /\ w = a.view[l]
    BY <2>4
  <2> QED
    BY <2>1, <2>2, <2>3, <2>4, <1>5
<1>12. ViewIsNewest(b)
  BY <1>3 DEF ViewIsNewest, Viewing
<1> QED
  BY <1>9, <1>10, <1>11, <1>12 DEF JournalInv

LEMMA JournalStep ==
  ASSUME NEW a \in Journals, NEW b \in Journals, Sized(a), Sized(b), JournalInv(a), JournalMoves(a, b)
  PROVE  JournalInv(b) /\ \A l \in Log : b.screen[l] >= a.screen[l]
<1>1. JournalInv(b)
  BY StillMove, LeftMove, GrownMove, EmittedMove, ViewedMove, SubscribedMove, TakenMove, AskedMove,
     ShownMove DEF JournalMoves
<1>2. CASE Displayed(a, b)
  BY <1>2, ShownMove
<1>3. CASE ~Displayed(a, b)
  <2>1. b.screen = a.screen
    BY <1>3 DEF JournalMoves, Still, Left, Grown, Emitted, Viewed, Subscribed, Taken, Asked
  <2>2. \A l \in Log : a.screen[l] \in Nat
    BY DEF Journals
  <2> QED
    BY <1>1, <2>1, <2>2
<1> QED
  BY <1>2, <1>3

-----------------------------------------------------------------------------
(* The ways a step moves the terminal *)

LinesMoves(at, r, q, at2, r2, q2) ==
  \/ r2 = r /\ (at2 = "asking" <=> at = "asking") /\ \A k \in Nat : Asks(q2, k) <=> Asks(q, k)
  \/ at # "asking" /\ at2 = "asking" /\ r2 = r /\ q2 = Append(q, ReadLine)
  \/ at = "asking" /\ r /\ ~r2 /\ at2 = "asking" /\ q2 = Append(q, ReadLine)
  \/ at = "asking" /\ r /\ ~r2 /\ at2 # "asking" /\ q2 = q
  \/ at2 = at /\ ~r /\ q # <<>> /\ q2 = Tail(q) /\ r2 = (Head(q).cmd = "ReadLine")

LEMMA AsksAppend ==
  ASSUME NEW q \in Seq(Commands), NEW c \in Commands, NEW k \in Nat
  PROVE  Asks(Append(q, c), k) <=> Asks(q, k) \/ (k = Len(q) + 1 /\ c.cmd = "ReadLine")
<1>1. Len(Append(q, c)) = Len(q) + 1 /\ Append(q, c)[Len(q) + 1] = c /\ Len(q) \in Nat
  OBVIOUS
<1>2. \A i \in 1..Len(q) : Append(q, c)[i] = q[i]
  OBVIOUS
<1>3. k \in 1..(Len(q) + 1) <=> k \in 1..Len(q) \/ k = Len(q) + 1
  BY <1>1
<1>4. ~(Len(q) + 1 \in 1..Len(q))
  BY <1>1
<1> QED
  BY <1>1, <1>2, <1>3, <1>4 DEF Asks

LEMMA AsksTail ==
  ASSUME NEW q \in Seq(Commands), q # <<>>, NEW k \in Nat
  PROVE  /\ Asks(Tail(q), k) <=> k > 0 /\ Asks(q, k + 1)
         /\ Asks(q, 1) <=> Head(q).cmd = "ReadLine"
<1>1. Len(Tail(q)) = Len(q) - 1 /\ Len(q) \in Nat /\ Len(q) > 0 /\ Head(q) = q[1]
  OBVIOUS
<1>2. \A i \in 1..(Len(q) - 1) : Tail(q)[i] = q[i + 1]
  OBVIOUS
<1>3. k \in 1..(Len(q) - 1) <=> k > 0 /\ k + 1 \in 1..Len(q)
  BY <1>1
<1>4. 1 \in 1..Len(q)
  BY <1>1
<1> QED
  BY <1>1, <1>2, <1>3, <1>4 DEF Asks

LEMMA LinesStep ==
  ASSUME NEW at, NEW r \in BOOLEAN, NEW q \in Seq(Commands),
         NEW at2, NEW r2 \in BOOLEAN, NEW q2 \in Seq(Commands),
         LinesInv(at, r, q), LinesMoves(at, r, q, at2, r2, q2)
  PROVE  LinesInv(at2, r2, q2)
<1>1. ReadLine \in Commands /\ ReadLine.cmd = "ReadLine" /\ Len(q) + 1 \in Nat
  BY LinesAre
<1>2. \A k \in Nat : ~Asks(q, 0)
  BY DEF Asks
<1>3. CASE r2 = r /\ (at2 = "asking" <=> at = "asking") /\ \A k \in Nat : Asks(q2, k) <=> Asks(q, k)
  <2>1. (OneLine(q) => OneLine(q2)) /\ (NoLine(q) => NoLine(q2))
    BY <1>3 DEF OneLine, NoLine
  <2> QED
    BY <2>1, <1>3 DEF LinesInv
<1>4. q2 = Append(q, ReadLine) /\ NoLine(q) => OneLine(q2)
  <2> SUFFICES ASSUME q2 = Append(q, ReadLine), NoLine(q) PROVE OneLine(q2)
    OBVIOUS
  <2>1. \A k \in Nat : Asks(q2, k) <=> k = Len(q) + 1
    BY <1>1, AsksAppend DEF NoLine
  <2> QED
    BY <2>1, <1>1 DEF OneLine
<1>5. CASE at # "asking" /\ at2 = "asking" /\ r2 = r /\ q2 = Append(q, ReadLine)
  BY <1>4, <1>5 DEF LinesInv
<1>6. CASE at = "asking" /\ r /\ ~r2 /\ at2 = "asking" /\ q2 = Append(q, ReadLine)
  BY <1>4, <1>6 DEF LinesInv
<1>7. CASE at = "asking" /\ r /\ ~r2 /\ at2 # "asking" /\ q2 = q
  BY <1>7 DEF LinesInv
<1>8. CASE at2 = at /\ ~r /\ q # <<>> /\ q2 = Tail(q) /\ r2 = (Head(q).cmd = "ReadLine")
  <2>1. \A k \in Nat : Asks(q2, k) <=> k > 0 /\ Asks(q, k + 1)
    BY <1>8, AsksTail
  <2>2. Asks(q, 1) <=> r2
    BY <1>8, AsksTail
  <2>3. NoLine(q) => NoLine(q2) /\ ~r2
    <3>1. \A k \in Nat : k + 1 \in Nat
      OBVIOUS
    <3> QED
      BY <2>1, <2>2, <3>1 DEF NoLine
  <2>4. ASSUME OneLine(q)
        PROVE  IF r2 THEN NoLine(q2) ELSE OneLine(q2)
    <3>1. PICK j \in Nat : \A k \in Nat : Asks(q, k) <=> k = j
      BY <2>4 DEF OneLine
    <3>2. CASE r2
      <4>1. j = 1
        BY <3>1, <3>2, <2>2
      <4>2. \A k \in Nat : k > 0 => k + 1 \in Nat /\ k + 1 # 1
        OBVIOUS
      <4> QED
        BY <4>1, <4>2, <3>1, <3>2, <2>1 DEF NoLine
    <3>3. CASE ~r2
      <4>1. j # 1 /\ j # 0
        BY <3>1, <3>3, <2>2, <1>2
      <4>2. PICK i \in Nat : i + 1 = j /\ i > 0
        <5>1. j - 1 \in Nat /\ (j - 1) + 1 = j /\ j - 1 > 0
          BY <4>1
        <5> QED
          BY <5>1
      <4>3. \A k \in Nat : k + 1 \in Nat /\ (k + 1 = j <=> k = i)
        BY <4>2
      <4>4. \A k \in Nat : Asks(q2, k) <=> k = i
        BY <4>2, <4>3, <3>1, <2>1
      <4> QED
        BY <4>4, <3>3 DEF OneLine
    <3> QED
      BY <3>2, <3>3
  <2> QED
    BY <2>3, <2>4, <1>8 DEF LinesInv
<1> QED
  BY <1>3, <1>5, <1>6, <1>7, <1>8 DEF LinesMoves

-----------------------------------------------------------------------------
(* How each action moves the two parts *)

LinesMove == LinesMoves(live.at, term.reading, term.queue, live'.at, term'.reading, term'.queue)
Moved == Typed' /\ JournalMoves(journal, journal') /\ LinesMove

LEMMA Fields ==
  /\ journal.logs = db.logs /\ journal.tasks = tasks /\ journal.at = live.at
  /\ journal.view = live.view /\ journal.queue = term.queue /\ journal.screen = term.screen
  /\ journal.events = stream.events
  /\ journal'.logs = db'.logs /\ journal'.tasks = tasks' /\ journal'.at = live'.at
  /\ journal'.view = live'.view /\ journal'.queue = term'.queue /\ journal'.screen = term'.screen
  /\ journal'.events = stream'.events
BY DEF journal

LEMMA QuietLines ==
  ASSUME term'.reading = term.reading, term'.queue = term.queue,
         live'.at = "asking" <=> live.at = "asking"
  PROVE  LinesMove
BY DEF LinesMove, LinesMoves

LEMMA QuietJournal ==
  ASSUME db'.logs = db.logs, term' = term, stream' = stream,
         live'.view = live.view,
         live'.at \in {"pendings", "subscribe"} => live.at \in {"pendings", "subscribe"},
         live'.at \in Attached => live.at \in Attached,
         \A l \in Log, v \in Nat : LogEvent(l, v) \in tasks' <=> LogEvent(l, v) \in tasks
  PROVE  JournalMoves(journal, journal')
<1>1. Still(journal, journal')
  BY Fields DEF Still, SameTasks, Viewing
<1> QED
  BY <1>1 DEF JournalMoves

(* The writers *)

LEMMA LogMoves == ASSUME LiveInv, log PROVE Moved
<1>1. /\ Len(db.logs) < bound.logs /\ db' = [db EXCEPT !.logs = Append(@, 1)]
      /\ tasks' = tasks \cup {LogEvent(Len(db.logs) + 1, 1)}
      /\ UNCHANGED <<stream, ctl, live, term, bound>>
  BY DEF log
<1>2. /\ Typed /\ db.logs \in Seq(Nat) /\ Len(db.logs) \in Nat /\ bound \in Bounds
      /\ db = [row |-> db.row, logs |-> db.logs, hitls |-> db.hitls]
  BY DEF LiveInv, Typed, DbTyped
<1>3. bound.logs \in 0..MaxLogs /\ MaxLogs \in Nat
  BY <1>2, LiveAssumption
<1>4. Len(db.logs) + 1 \in Log /\ Len(db.logs) + 1 <= MaxLogs
  BY <1>1, <1>2, <1>3 DEF Log
<1>5. PICK n \in Log : n = Len(db.logs) + 1
  BY <1>4
<1>6. /\ db'.logs = Append(db.logs, 1) /\ db'.hitls = db.hitls
      /\ db' = [row |-> db'.row, logs |-> db'.logs, hitls |-> db'.hitls]
  BY <1>1, <1>2
<1>7. /\ db'.logs \in Seq(Nat) /\ Len(db'.logs) = n /\ db'.logs[n] = 1
      /\ \A m \in 1..Len(db.logs) : db'.logs[m] = db.logs[m] /\ db.logs[m] \in Nat
  BY <1>2, <1>5, <1>6
<1>8. Typed'
  <2>1. DbTyped'
    BY <1>4, <1>5, <1>6, <1>7 DEF LiveInv, Typed, DbTyped
  <2>2. tasks' \subseteq Events
    BY <1>1, <1>5, LogEventsAre DEF LiveInv, Typed
  <2> QED
    BY <2>1, <2>2, <1>1 DEF LiveInv, Typed, LiveTyped, StreamTyped, TermTyped, SubscriptionTyped
<1>9. Grown(journal, journal')
  <2>1. \A w \in Nat : LogEvent(n, w) \notin tasks
    <3>1. \A w \in Nat : LogEvent(n, w) \in tasks => n \in 1..Len(db.logs)
      BY Fields DEF LiveInv, JournalInv, TasksAreCurrent
    <3>2. n \notin 1..Len(db.logs)
      BY <1>2, <1>5
    <3> QED
      BY <3>1, <3>2
  <2>2. n \in 1..n /\ \A m \in 1..n : m = n \/ m \in 1..Len(db.logs)
    BY <1>2, <1>5 DEF Log
  <2>3. \A m \in 1..Len(db.logs) : m \in 1..n
    BY <1>2, <1>5
  <2>4. \A m \in Log, w \in Nat : LogEvent(m, w) = LogEvent(n, 1) <=> m = n /\ w = 1
    BY LogEventsAre
  <2>5. \A m \in Log, w \in Nat : LogEvent(m, w) \in tasks' <=> LogEvent(m, w) \in tasks \/ (m = n /\ w = 1)
    BY <2>4, <1>1, <1>5
  <2>6. \A m \in 1..Len(db.logs) : /\ m \in 1..Len(db'.logs) /\ db.logs[m] <= db'.logs[m]
                                   /\ m = n \/ db.logs[m] = db'.logs[m]
    BY <2>3, <1>7
  <2>7. GrownAt(journal, journal', n, 1)
    <3>1. /\ journal.logs = db.logs /\ journal'.logs = db'.logs
          /\ journal.tasks = tasks /\ journal'.tasks = tasks'
      BY Fields
    <3>2. n \in 1..Len(db'.logs) /\ db'.logs[n] = 1 /\ \A m \in 1..Len(db'.logs) : m = n \/ m \in 1..Len(db.logs)
      BY <2>2, <1>7
    <3> QED
      BY <2>1, <2>5, <2>6, <3>1, <3>2 DEF GrownAt
  <2> QED
    BY <2>7, <1>1, Fields DEF Grown
<1>10. LinesMove
  BY <1>1, QuietLines
<1> QED
  BY <1>8, <1>9, <1>10 DEF Moved, JournalMoves

LEMMA ReplaceMoves == ASSUME LiveInv, NEW l \in Log, replace_log(l) PROVE Moved
<1>1. /\ l \in DOMAIN db.logs /\ db' = [db EXCEPT !.logs[l] = @ + 1]
      /\ tasks' = tasks \cup {LogEvent(l, db.logs[l] + 1)} /\ Written(l) = {}
      /\ UNCHANGED <<stream, ctl, live, term, bound>>
  BY DEF replace_log
<1>2. /\ Typed /\ db.logs \in Seq(Nat) /\ Len(db.logs) \in Nat
      /\ db = [row |-> db.row, logs |-> db.logs, hitls |-> db.hitls]
  BY DEF LiveInv, Typed, DbTyped
<1>3. l \in 1..Len(db.logs) /\ db.logs[l] \in Nat
  BY <1>1, <1>2
<1>4. PICK v \in Nat : v = db.logs[l] + 1
  BY <1>3
<1>5. /\ db'.logs = [db.logs EXCEPT ![l] = v] /\ db'.hitls = db.hitls
      /\ db' = [row |-> db'.row, logs |-> db'.logs, hitls |-> db'.hitls]
  BY <1>1, <1>2, <1>4
<1>6. /\ db'.logs \in Seq(Nat) /\ Len(db'.logs) = Len(db.logs) /\ db'.logs[l] = v
      /\ \A m \in 1..Len(db.logs) : db.logs[m] \in Nat /\ (m # l => db'.logs[m] = db.logs[m])
  BY <1>2, <1>3, <1>5
<1>7. Typed'
  <2>1. DbTyped'
    BY <1>5, <1>6 DEF LiveInv, Typed, DbTyped
  <2>2. tasks' \subseteq Events
    BY <1>1, <1>4, LogEventsAre DEF LiveInv, Typed
  <2> QED
    BY <2>1, <2>2, <1>1 DEF LiveInv, Typed, LiveTyped, StreamTyped, TermTyped, SubscriptionTyped
<1>8. Grown(journal, journal')
  <2>1. \A w \in Nat : LogEvent(l, w) \notin tasks
    BY <1>1, LogEventsAre DEF Written
  <2>2. \A m \in 1..Len(db.logs) : /\ m \in 1..Len(db'.logs) /\ db.logs[m] <= db'.logs[m]
                                   /\ m = l \/ db.logs[m] = db'.logs[m]
    BY <1>4, <1>6
  <2>3. \A m \in Log, w \in Nat : LogEvent(m, w) = LogEvent(l, v) <=> m = l /\ w = v
    BY LogEventsAre
  <2>4. \A m \in Log, w \in Nat : LogEvent(m, w) \in tasks' <=> LogEvent(m, w) \in tasks \/ (m = l /\ w = v)
    BY <2>3, <1>1, <1>4
  <2>5. GrownAt(journal, journal', l, v)
    BY <2>1, <2>2, <2>4, <1>3, <1>6, Fields DEF GrownAt
  <2> QED
    BY <2>5, <1>1, Fields DEF Grown
<1>9. LinesMove
  BY <1>1, QuietLines
<1> QED
  BY <1>7, <1>8, <1>9 DEF Moved, JournalMoves

LEMMA RequestMoves == ASSUME LiveInv, NEW form \in Forms, request(form) PROVE Moved
<1>1. PICK h : h = [form |-> form, given |-> 0, answers |-> <<>>]
  OBVIOUS
<1>2. PICK n : n = Len(db.hitls) + 1
  OBVIOUS
<1>3. /\ db' = [db EXCEPT !.hitls = Append(@, h)] /\ tasks' = tasks \cup {HitlRequested(n)}
      /\ UNCHANGED <<stream, ctl, live, term, bound>>
  BY <1>1, <1>2 DEF request
<1>4. /\ Typed /\ db.hitls \in Seq(Hitl) /\ h \in Hitl /\ n \in Nat
      /\ db = [row |-> db.row, logs |-> db.logs, hitls |-> db.hitls]
  BY <1>1, <1>2 DEF LiveInv, Typed, DbTyped, Hitl, Answers
<1>5. /\ db'.logs = db.logs /\ db'.hitls = Append(db.hitls, h)
      /\ db' = [row |-> db'.row, logs |-> db'.logs, hitls |-> db'.hitls]
  BY <1>3, <1>4
<1>6. /\ db'.hitls \in Seq(Hitl)
      /\ \A i \in DOMAIN db.hitls : i \in DOMAIN db'.hitls /\ db'.hitls[i] = db.hitls[i]
  BY <1>4, <1>5
<1>7. HitlRequested(n) \in Events /\ HitlRequested(n).type = "HitlRequested"
  BY <1>4 DEF HitlRequested, Events
<1>8. Typed'
  <2>1. DbTyped'
    BY <1>5, <1>6 DEF LiveInv, Typed, DbTyped
  <2>2. tasks' \subseteq Events
    BY <1>3, <1>7 DEF LiveInv, Typed
  <2> QED
    BY <2>1, <2>2, <1>3 DEF LiveInv, Typed, LiveTyped, StreamTyped, TermTyped, SubscriptionTyped
<1>9. JournalMoves(journal, journal')
  <2>1. \A l \in Log, v \in Nat : LogEvent(l, v) \in tasks' <=> LogEvent(l, v) \in tasks
    BY <1>3, <1>7, LogEventsAre
  <2> QED
    BY <2>1, <1>3, <1>5, QuietJournal
<1>10. LinesMove
  BY <1>3, QuietLines
<1> QED
  BY <1>8, <1>9, <1>10 DEF Moved

LEMMA ReplyMoves ==
  ASSUME LiveInv, NEW i \in DOMAIN db.hitls, NEW answers \in [DOMAIN db.hitls[i].form -> Answer],
         reply(i, answers)
  PROVE  Moved
<1>1. PICK e : e = HitlAnswered(i, answers)
  OBVIOUS
<1>2. PICK g, h : g = db.hitls[i] /\ h = [g EXCEPT !.given = @ + 1, !.answers = answers]
  OBVIOUS
<1>3. tasks' = tasks \cup {e} /\ UNCHANGED <<stream, ctl, live, term, bound>>
  BY <1>1 DEF reply
<1>4. /\ Typed /\ db.hitls \in Seq(Hitl) /\ i \in Nat
      /\ db = [row |-> db.row, logs |-> db.logs, hitls |-> db.hitls]
  BY DEF LiveInv, Typed, DbTyped
<1>5. g \in Hitl /\ g.form = db.hitls[i].form
  BY <1>2, <1>4
<1>6. answers \in Answers
  BY <1>5 DEF Answers, Hitl
<1>7. h \in Hitl /\ h.form = db.hitls[i].form /\ h.given > 0
  <2>1. PICK n \in Nat : n = g.given + 1 /\ n > 0
    BY <1>5 DEF Hitl
  <2>2. h = [g EXCEPT !.given = n, !.answers = answers]
    BY <1>2, <2>1
  <2> QED
    BY <2>1, <2>2, <1>5, <1>6 DEF Hitl
<1>8. /\ db'.logs = db.logs /\ db'.hitls = [db.hitls EXCEPT ![i] = h]
      /\ db' = [row |-> db'.row, logs |-> db'.logs, hitls |-> db'.hitls]
  <2>1. db' = [db EXCEPT !.hitls = [db.hitls EXCEPT ![i] = h]]
    BY <1>2 DEF reply
  <2> QED
    BY <2>1, <1>4
<1>9. /\ db'.hitls \in Seq(Hitl) /\ DOMAIN db'.hitls = DOMAIN db.hitls /\ db'.hitls[i] = h
      /\ \A j \in DOMAIN db.hitls : j # i => db'.hitls[j] = db.hitls[j]
  BY <1>4, <1>7, <1>8
<1>10. e \in Events /\ e.type = "HitlAnswered" /\ e.id = i /\ e.answers = answers
  BY <1>1, <1>4, <1>6 DEF HitlAnswered, Events, AnswerEvents
<1>11. Typed'
  <2>1. DbTyped'
    BY <1>8, <1>9 DEF LiveInv, Typed, DbTyped
  <2>2. tasks' \subseteq Events
    BY <1>3, <1>10 DEF LiveInv, Typed
  <2> QED
    BY <2>1, <2>2, <1>3 DEF LiveInv, Typed, LiveTyped, StreamTyped, TermTyped, SubscriptionTyped
<1>12. JournalMoves(journal, journal')
  <2>1. \A l \in Log, v \in Nat : LogEvent(l, v) \in tasks' <=> LogEvent(l, v) \in tasks
    BY <1>3, <1>10, LogEventsAre
  <2> QED
    BY <2>1, <1>3, <1>8, QuietJournal
<1>13. LinesMove
  BY <1>3, QuietLines
<1> QED
  BY <1>11, <1>12, <1>13 DEF Moved

LEMMA FailMoves == ASSUME LiveInv, NEW flushed \in BOOLEAN, fail(flushed) PROVE Moved
<1>1. /\ db' = IF flushed THEN [db EXCEPT !.row = "Failed"] ELSE db
      /\ tasks' = tasks \cup {StatusUpdated("Failed")}
      /\ UNCHANGED <<stream, live, term, bound>>
  BY DEF fail
<1>2. DbTyped /\ Typed
  BY DEF LiveInv, Typed
<1>3. /\ db'.logs = db.logs /\ db'.hitls = db.hitls
      /\ db' = [row |-> db'.row, logs |-> db'.logs, hitls |-> db'.hitls]
  BY <1>1, <1>2 DEF DbTyped
<1>5. StatusUpdated("Failed") \in Events /\ StatusUpdated("Failed").type = "SessionStatusUpdated"
  BY DEF StatusUpdated, Events
<1>6. Typed'
  <2>1. DbTyped'
    BY <1>2, <1>3 DEF DbTyped
  <2>2. tasks' \subseteq Events
    BY <1>1, <1>5 DEF LiveInv, Typed
  <2> QED
    BY <2>1, <2>2, <1>1 DEF LiveInv, Typed, LiveTyped, StreamTyped, TermTyped, SubscriptionTyped
<1>7. JournalMoves(journal, journal')
  <2>1. \A l \in Log, v \in Nat : LogEvent(l, v) \in tasks' <=> LogEvent(l, v) \in tasks
    BY <1>1, <1>5, LogEventsAre
  <2> QED
    BY <2>1, <1>1, <1>3, QuietJournal
<1>8. LinesMove
  BY <1>1, QuietLines
<1> QED
  BY <1>6, <1>7, <1>8 DEF Moved

(* The event bus and the controller *)

LEMMA BroadcastIs ==
  ASSUME NEW S, NEW s \in Seq(S), NEW e \in S
  PROVE  /\ broadcast(s, e) \in Seq(S)
         /\ \/ broadcast(s, e) = Append(s, e)
            \/ s # <<>> /\ broadcast(s, e) = Append(Tail(s), e)
<1>1. CASE Len(s) # Capacity
  BY <1>1 DEF broadcast
<1>2. CASE Len(s) = Capacity
  <2>1. s # <<>>
    BY <1>2, LiveAssumption
  <2>2. Tail(s) \in Seq(S)
    BY <2>1
  <2> QED
    BY <2>1, <2>2, <1>2 DEF broadcast
<1> QED
  BY <1>1, <1>2

LEMMA EmitMoves == ASSUME LiveInv, NEW e \in tasks, emit(e) PROVE Moved
<1>1. /\ tasks' = tasks \ {e}
      /\ stream' = IF stream.on THEN [stream EXCEPT !.events = broadcast(@, e)] ELSE stream
      /\ UNCHANGED <<db, live, term, bound>>
  BY DEF emit
<1>2. /\ Typed /\ e \in Events /\ stream.events \in Seq(Events) /\ stream.on \in BOOLEAN
      /\ StreamTyped /\ SubscriptionTyped
  BY DEF LiveInv, Typed, StreamTyped
<1>3. PICK s \in Seq(Events) :
        /\ s = broadcast(stream.events, e)
        /\ \/ s = Append(stream.events, e)
           \/ stream.events # <<>> /\ s = Append(Tail(stream.events), e)
  <2>1. PICK t \in Seq(Events) : t = stream.events
    BY <1>2
  <2>2. /\ broadcast(t, e) \in Seq(Events)
        /\ \/ broadcast(t, e) = Append(t, e)
           \/ t # <<>> /\ broadcast(t, e) = Append(Tail(t), e)
    BY ONLY t \in Seq(Events), <1>2, BroadcastIs
  <2> QED
    BY <2>1, <2>2
<1>4. stream' \in [on : BOOLEAN, events : Seq(Events)] /\ stream'.on = stream.on
  BY <1>1, <1>2, <1>3 DEF StreamTyped
<1>5. IF stream.on THEN stream'.events = s ELSE stream'.events = stream.events
  BY <1>1, <1>2, <1>3 DEF StreamTyped
<1>6. Typed'
  <2>1. SubscriptionTyped'
    BY <1>1, <1>2, <1>4, <1>5 DEF SubscriptionTyped
  <2> QED
    BY <2>1, <1>1, <1>4 DEF LiveInv, Typed, DbTyped, LiveTyped, StreamTyped, TermTyped
<1>7. Emitted(journal, journal')
  <2>1. stream.on <=> live.at \in Attached
    BY <1>2 DEF SubscriptionTyped
  <2>2. EmittedAs(journal, journal', e)
    BY <2>1, <1>1, <1>2, <1>3, <1>5, Fields DEF EmittedAs
  <2> QED
    BY <2>2, <1>1, <1>2, Fields DEF Emitted
<1>8. LinesMove
  BY <1>1, QuietLines
<1> QED
  BY <1>6, <1>7, <1>8 DEF Moved, JournalMoves

LEMMA RefusedMoves == ASSUME LiveInv, NEW e \in tasks, reply_refused(e) PROVE Moved
<1>1. e.type = "HitlAnswered" /\ tasks' = tasks \ {e}
      /\ UNCHANGED <<db, stream, ctl, live, term, bound>>
  BY DEF reply_refused
<1>2. Typed'
  BY <1>1 DEF LiveInv, Typed, DbTyped, LiveTyped, StreamTyped, TermTyped, SubscriptionTyped
<1>3. \A l \in Log, v \in Nat : LogEvent(l, v) \in tasks' <=> LogEvent(l, v) \in tasks
  BY <1>1, LogEventsAre
<1>4. JournalMoves(journal, journal')
  BY <1>1, <1>3, QuietJournal
<1>5. LinesMove
  BY <1>1, QuietLines
<1> QED
  BY <1>2, <1>4, <1>5 DEF Moved

LEMMA ControllerMoves == ASSUME LiveInv, Controller PROVE Moved
<1>1. UNCHANGED <<db, tasks, stream, live, term, bound>>
  BY DEF Controller, run_topic, skip_topic, run_queue
<1>2. Typed'
  BY <1>1 DEF LiveInv, Typed, DbTyped, LiveTyped, StreamTyped, TermTyped, SubscriptionTyped
<1>3. JournalMoves(journal, journal')
  BY <1>1, QuietJournal
<1>4. LinesMove
  BY <1>1, QuietLines
<1> QED
  BY <1>2, <1>3, <1>4 DEF Moved

LEMMA DeleteMoves == ASSUME LiveInv, NEW closes \in BOOLEAN, delete_session(closes) PROVE Moved
<1>1. PICK p : db' = [db EXCEPT !.row = p]
  BY DEF delete_session
<1>2. UNCHANGED <<tasks, stream, live, term, bound>>
  BY DEF delete_session
<1>3. Typed /\ DbTyped
  BY DEF LiveInv, Typed
<1>5. DbTyped' /\ db'.logs = db.logs /\ db'.hitls = db.hitls
  <2>1. db'.logs = db.logs /\ db'.hitls = db.hitls
        /\ db' = [row |-> db'.row, logs |-> db'.logs, hitls |-> db'.hitls]
    BY <1>1, <1>3 DEF DbTyped
  <2> QED
    BY <2>1, <1>3 DEF DbTyped
<1>6. Typed'
  BY <1>2, <1>3, <1>5 DEF Typed, LiveTyped, StreamTyped, TermTyped, SubscriptionTyped
<1>7. JournalMoves(journal, journal')
  BY <1>2, <1>5, QuietJournal
<1>8. LinesMove
  BY <1>2, QuietLines
<1> QED
  BY <1>6, <1>7, <1>8 DEF Moved

(* The command line *)

LEMMA DetachedIs ==
  /\ Detached = [at |-> Detached.at, status |-> Detached.status, view |-> Detached.view,
                 todo |-> Detached.todo, back |-> Detached.back, answers |-> Detached.answers]
  /\ Detached.at = "detached" /\ Detached.back = "serving" /\ Detached.view = <<>>
  /\ Unsubscribed \in [on : BOOLEAN, events : Seq(Events)]
  /\ ~Unsubscribed.on /\ Unsubscribed.events = <<>>
BY DEF Detached, Unsubscribed

LEMMA EmptyView == <<>> \in Seq(Nat) /\ Len(<<>>) <= MaxLogs
BY LiveAssumption

LEMMA RunMoves == ASSUME LiveInv, run_live PROVE Moved
<1>1. /\ live.at = "detached" /\ live' = [Detached EXCEPT !.at = "row"]
      /\ UNCHANGED <<db, tasks, stream, ctl, term, bound>>
  BY DEF run_live
<1>2. /\ LiveTyped' /\ live'.at = "row"
  BY <1>1, DetachedIs, EmptyView DEF LiveTyped, Steps
<1>3. Typed'
  BY <1>1, <1>2 DEF LiveInv, Typed, DbTyped, StreamTyped, TermTyped, SubscriptionTyped, Attached
<1>4. Left(journal, journal')
  BY <1>1, <1>2, Fields DEF Left, SameTasks, Viewing, Attached
<1>5. LinesMove
  BY <1>1, <1>2, QuietLines
<1> QED
  BY <1>3, <1>4, <1>5 DEF Moved, JournalMoves

LEMMA GetMoves == ASSUME LiveInv, get_session PROVE Moved
<1>1. /\ live.at = "row"
      /\ live' = IF db.row = "absent" THEN Detached
                 ELSE [live EXCEPT !.at = "logs", !.status = db.row]
      /\ UNCHANGED <<db, tasks, stream, ctl, term, bound>>
  BY DEF get_session
<1>2. LiveTyped /\ Typed
  BY DEF LiveInv, Typed
<1>3. LiveTyped' /\ live'.at \in {"detached", "logs"}
  <2>1. CASE db.row = "absent"
    <3>1. live' = Detached
      BY <1>1, <2>1
    <3> QED
      BY <3>1, DetachedIs, EmptyView DEF LiveTyped, Steps
  <2>2. CASE db.row # "absent"
    <3>1. live' = [live EXCEPT !.at = "logs", !.status = db.row]
      BY <1>1, <2>2
    <3> QED
      BY <3>1, <1>2 DEF LiveTyped, Steps
  <2> QED
    BY <2>1, <2>2
<1>4. Typed'
  BY <1>1, <1>2, <1>3 DEF Typed, DbTyped, StreamTyped, TermTyped, SubscriptionTyped, Attached
<1>5. Left(journal, journal')
  BY <1>1, <1>3, Fields DEF Left, SameTasks, Viewing, Attached
<1>6. LinesMove
  BY <1>1, <1>3, QuietLines
<1> QED
  BY <1>4, <1>5, <1>6 DEF Moved, JournalMoves

LEMMA ListMoves == ASSUME LiveInv, list_log \/ list_pendings PROVE Moved
<1>1. LiveTyped /\ Typed /\ DbTyped
  BY DEF LiveInv, Typed
<1>2. UNCHANGED <<db, tasks, stream, ctl, term, bound>>
  BY DEF list_log, list_pendings
<1>3. CASE list_log
  <2>1. live.at = "logs" /\ live' = [live EXCEPT !.at = "pendings", !.view = db.logs]
    BY <1>3 DEF list_log
  <2>2. LiveTyped' /\ live'.at = "pendings" /\ live'.view = db.logs
    BY <2>1, <1>1 DEF LiveTyped, DbTyped, Steps
  <2>3. Typed'
    BY <2>1, <2>2, <1>1, <1>2 DEF Typed, DbTyped, StreamTyped, TermTyped, SubscriptionTyped, Attached
  <2>4. Viewed(journal, journal')
    BY <2>1, <2>2, <1>2, Fields DEF Viewed, SameTasks
  <2>5. LinesMove
    BY <2>1, <2>2, <1>2, QuietLines
  <2> QED
    BY <2>3, <2>4, <2>5 DEF Moved, JournalMoves
<1>4. CASE list_pendings
  <2>1. PICK t : live' = [live EXCEPT !.at = "subscribe", !.todo = t]
    BY <1>4 DEF list_pendings
  <2>2. live.at = "pendings"
    BY <1>4 DEF list_pendings
  <2>3. LiveTyped' /\ live'.at = "subscribe" /\ live'.view = live.view
    BY <2>1, <1>1 DEF LiveTyped, Steps
  <2>4. Typed'
    BY <2>2, <2>3, <1>1, <1>2 DEF Typed, DbTyped, StreamTyped, TermTyped, SubscriptionTyped, Attached
  <2>5. JournalMoves(journal, journal')
    <3>1. live'.at \notin Attached
      BY <2>3 DEF Attached
    <3> QED
      BY <3>1, <2>2, <2>3, <1>2, QuietJournal
  <2>6. LinesMove
    BY <2>2, <2>3, <1>2, QuietLines
  <2> QED
    BY <2>4, <2>5, <2>6 DEF Moved
<1> QED
  BY <1>3, <1>4

LEMMA AsksConcat ==
  ASSUME NEW q \in Seq(Commands), NEW t \in Seq(Commands),
         \A i \in 1..Len(t) : t[i].cmd # "ReadLine", NEW k \in Nat
  PROVE  Asks(q \o t, k) <=> Asks(q, k)
<1>0. q \o t \in Seq(Commands)
  OBVIOUS
<1>1. PICK s \in Seq(Commands) : s = q \o t
  BY <1>0
<1>2. \A x : At(s, k, x) <=> At(q, k, x) \/ \E i \in 1..Len(t) : k = Len(q) + i /\ t[i] = x
  BY <1>1, AtConcat, SMTT(30)
<1>3. Asks(s, k) => Asks(q, k)
  <2> SUFFICES ASSUME Asks(s, k) PROVE Asks(q, k)
    OBVIOUS
  <2>1. At(s, k, s[k]) /\ s[k].cmd = "ReadLine"
    BY DEF Asks, At
  <2>2. At(q, k, s[k])
    BY <2>1, <1>2
  <2> QED
    BY <2>1, <2>2 DEF Asks, At
<1>4. Asks(q, k) => Asks(s, k)
  <2> SUFFICES ASSUME Asks(q, k) PROVE Asks(s, k)
    OBVIOUS
  <2>1. At(q, k, q[k]) /\ q[k].cmd = "ReadLine"
    BY DEF Asks, At
  <2>2. At(s, k, q[k])
    BY <2>1, <1>2
  <2> QED
    BY <2>1, <2>2 DEF Asks, At
<1> QED
  BY <1>1, <1>3, <1>4

LEMMA SubscribeMoves == ASSUME LiveInv, stream_session_events PROVE Moved
<1>1. /\ live.at = "subscribe"
      /\ term' = [term EXCEPT !.queue = @ \o ViewLines(live.view)]
      /\ stream' = [on |-> TRUE, events |-> <<>>]
      /\ live' = [live EXCEPT !.at = "serving", !.view = <<>>]
      /\ UNCHANGED <<db, tasks, ctl, bound>>
  BY DEF stream_session_events, ViewLines
<1>2. Typed /\ LiveTyped /\ TermTyped /\ live.view \in Seq(Nat) /\ Len(live.view) <= MaxLogs
      /\ term.queue \in Seq(Commands)
  BY DEF LiveInv, Typed, LiveTyped, TermTyped
<1>3. PICK t \in Seq(Commands) :
        /\ t = ViewLines(live.view) /\ Len(t) = Len(live.view)
        /\ \A i \in 1..Len(live.view) : t[i] = PrintLine(LogEvent(i, live.view[i]))
  BY <1>2, ViewLinesAre
<1>4. \A i \in 1..Len(t) : t[i].cmd # "ReadLine"
  <2>1. \A e : PrintLine(e).cmd # "ReadLine"
    BY DEF PrintLine
  <2> QED
    BY <2>1, <1>3
<1>5. PICK q \in Seq(Commands) : q = term.queue \o t
  <2>1. term.queue \o t \in Seq(Commands)
    BY <1>2
  <2> QED
    BY <2>1
<1>6. TermTyped' /\ term'.queue = q /\ term'.reading = term.reading /\ term'.screen = term.screen
  <2>1. term' = [term EXCEPT !.queue = q]
    BY <1>1, <1>3, <1>5
  <2> QED
    BY <2>1, <1>2 DEF TermTyped
<1>7. LiveTyped' /\ live'.at = "serving"
  BY <1>1, <1>2, EmptyView DEF LiveTyped, Steps, Attached
<1>8. StreamTyped' /\ stream'.on /\ stream'.events = <<>>
  BY <1>1 DEF StreamTyped
<1>9. Typed'
  BY <1>1, <1>2, <1>6, <1>7, <1>8 DEF Typed, DbTyped, SubscriptionTyped, Attached
<1>10. Subscribed(journal, journal')
  BY <1>1, <1>3, <1>5, <1>6, <1>7, <1>8, Fields DEF Subscribed, SameTasks
<1>11. LinesMove
  <2>1. \A k \in Nat : Asks(term'.queue, k) <=> Asks(term.queue, k)
    BY <1>2, <1>4, <1>5, <1>6, AsksConcat
  <2> QED
    BY <2>1, <1>1, <1>6, <1>7 DEF LinesMove, LinesMoves
<1> QED
  BY <1>9, <1>10, <1>11 DEF Moved, JournalMoves

LEMMA AfterMoves == ASSUME LiveInv, after_pendings PROVE Moved
<1>1. live.at = "serving" /\ UNCHANGED <<db, tasks, ctl, term, bound>>
  BY DEF after_pendings
<1>2. Typed /\ LiveTyped
  BY DEF LiveInv, Typed
<1>3. CASE live' = Detached /\ stream' = Unsubscribed
  <2>1. LiveTyped' /\ live'.at = "detached"
    BY <1>3, DetachedIs, EmptyView DEF LiveTyped, Steps
  <2>2. StreamTyped' /\ ~stream'.on /\ stream'.events = <<>>
    BY <1>3, DetachedIs DEF StreamTyped
  <2>3. Typed'
    BY <2>1, <2>2, <1>1, <1>2 DEF Typed, DbTyped, TermTyped, SubscriptionTyped, Attached
  <2>4. Left(journal, journal')
    BY <2>1, <1>1, Fields DEF Left, SameTasks, Viewing, Attached
  <2>5. LinesMove
    BY <2>1, <1>1, QuietLines
  <2> QED
    BY <2>3, <2>4, <2>5 DEF Moved, JournalMoves
<1>4. CASE live' = [live EXCEPT !.at = "following", !.back = "following"] /\ UNCHANGED stream
  <2>1. LiveTyped' /\ live'.at = "following" /\ live'.view = live.view
    BY <1>2, <1>4 DEF LiveTyped, Steps, Attached
  <2>2. Typed'
    BY <2>1, <1>1, <1>2, <1>4 DEF Typed, DbTyped, TermTyped, StreamTyped, SubscriptionTyped, Attached
  <2>3. JournalMoves(journal, journal')
    <3>1. live.at \in Attached
      BY <1>1 DEF Attached
    <3> QED
      BY <3>1, <2>1, <1>1, <1>4, QuietJournal
  <2>4. LinesMove
    BY <2>1, <1>1, QuietLines
  <2> QED
    BY <2>2, <2>3, <2>4 DEF Moved
<1> QED
  BY <1>3, <1>4 DEF after_pendings

LEMMA PrintLineIs ==
  ASSUME NEW q \in Seq(Commands), NEW e \in Events
  PROVE  /\ print_line(q, e) \in Seq(Commands)
         /\ \A k \in Nat : Asks(print_line(q, e), k) <=> Asks(q, k)
<1>1. CASE e.type = "Log"
  <2>1. e = LogEvent(e.log, e.version) /\ e.log \in Log /\ e.version \in Nat
    BY <1>1, LogEventsAre
  <2>2. PrintLine(e) \in Commands
    BY <2>1, LogEventsAre
  <2>3. PICK c \in Commands : c = PrintLine(e) /\ c.cmd = "Print"
    BY <2>2 DEF PrintLine
  <2>4. print_line(q, e) = Append(q, c)
    BY <1>1, <2>3 DEF print_line
  <2>5. Append(q, c) \in Seq(Commands)
    OBVIOUS
  <2>6. \A k \in Nat : Asks(Append(q, c), k) <=> Asks(q, k)
    BY <2>3, AsksAppend
  <2> QED
    BY <2>4, <2>5, <2>6
<1>2. CASE e.type # "Log"
  BY <1>2 DEF print_line
<1> QED
  BY <1>1, <1>2

(* The command line takes the event at the head of the subscription. *)
LEMMA TakingMoves ==
  ASSUME LiveInv, stream.events # <<>>, live.at \in Attached,
         stream' = [stream EXCEPT !.events = Tail(@)],
         term' = [term EXCEPT !.queue = print_line(@, Head(stream.events))],
         LiveTyped', live'.at = live.at,
         UNCHANGED <<db, tasks, ctl, bound>>
  PROVE  Moved
<1>1. /\ Typed /\ StreamTyped /\ TermTyped /\ SubscriptionTyped /\ stream.events \in Seq(Events)
      /\ term.queue \in Seq(Commands)
  BY DEF LiveInv, Typed, StreamTyped, TermTyped
<1>2. PICK e \in Events : e = Head(stream.events)
  <2>1. Head(stream.events) \in Events
    BY <1>1
  <2> QED
    BY <2>1
<1>3. PICK s \in Seq(Events) : s = Tail(stream.events)
  <2>1. Tail(stream.events) \in Seq(Events)
    BY <1>1
  <2> QED
    BY <2>1
<1>4. PICK q \in Seq(Commands) :
        q = print_line(term.queue, e) /\ \A k \in Nat : Asks(q, k) <=> Asks(term.queue, k)
  BY <1>1, PrintLineIs
<1>5. StreamTyped' /\ stream'.on = stream.on /\ stream'.events = s
  <2>1. stream' = [stream EXCEPT !.events = s]
    BY <1>3
  <2> QED
    BY <2>1, <1>1 DEF StreamTyped
<1>6. TermTyped' /\ term'.queue = q /\ term'.reading = term.reading /\ term'.screen = term.screen
  <2>1. term' = [term EXCEPT !.queue = q]
    BY <1>2, <1>4
  <2> QED
    BY <2>1, <1>1 DEF TermTyped
<1>7. Typed'
  BY <1>1, <1>5, <1>6 DEF Typed, DbTyped, SubscriptionTyped
<1>8. Taken(journal, journal')
  BY <1>2, <1>3, <1>4, <1>5, <1>6, Fields DEF Taken, SameTasks
<1>9. LinesMove
  BY <1>4, <1>6 DEF LinesMove, LinesMoves
<1> QED
  BY <1>7, <1>8, <1>9 DEF Moved, JournalMoves

LEMMA SkipMoves == ASSUME LiveInv, skip_event PROVE Moved
<1>1. /\ live.at \in {"asking", "following"} /\ stream.events # <<>>
      /\ stream' = [stream EXCEPT !.events = Tail(@)]
      /\ UNCHANGED <<db, tasks, ctl, live, term, bound>>
  BY DEF skip_event
<1>2. Typed /\ StreamTyped /\ SubscriptionTyped /\ stream.events \in Seq(Events)
  BY DEF LiveInv, Typed, StreamTyped
<1>3. live.at \in Attached
  BY <1>1 DEF Attached
<1>4. PICK s \in Seq(Events) : s = Tail(stream.events)
  <2>1. Tail(stream.events) \in Seq(Events)
    BY <1>1, <1>2
  <2> QED
    BY <2>1
<1>5. StreamTyped' /\ stream'.on = stream.on /\ stream'.events = s
  <2>1. stream' = [stream EXCEPT !.events = s]
    BY <1>1, <1>4
  <2> QED
    BY <2>1, <1>2 DEF StreamTyped
<1>6. Typed'
  BY <1>1, <1>2, <1>3, <1>5 DEF Typed, DbTyped, LiveTyped, TermTyped, SubscriptionTyped
<1>7. Taken(journal, journal')
  BY <1>1, <1>3, <1>4, <1>5, Fields DEF Taken, SameTasks
<1>8. LinesMove
  BY <1>1, QuietLines
<1> QED
  BY <1>6, <1>7, <1>8 DEF Moved, JournalMoves

LEMMA EventMoves == ASSUME LiveInv, next_event PROVE Moved
<1>1. /\ live.at = "following" /\ stream.events # <<>>
      /\ term' = [term EXCEPT !.queue = print_line(@, Head(stream.events))]
      /\ UNCHANGED <<db, tasks, ctl, bound>>
  BY DEF next_event
<1>2. Typed /\ LiveTyped /\ TermTyped
  BY DEF LiveInv, Typed
<1>3. CASE /\ Head(stream.events).type = "SessionStatusUpdated"
           /\ live' = Detached /\ stream' = Unsubscribed
  <2>1. LiveTyped' /\ live'.at = "detached"
    BY <1>3, DetachedIs, EmptyView DEF LiveTyped, Steps
  <2>2. StreamTyped' /\ ~stream'.on /\ stream'.events = <<>>
    BY <1>3, DetachedIs DEF StreamTyped
  <2>3. term' = term
    <3>1. term' = [term EXCEPT !.queue = term.queue]
      BY <1>1, <1>3 DEF print_line
    <3> QED
      BY <3>1, <1>2 DEF TermTyped
  <2>4. Typed'
    BY <2>1, <2>2, <2>3, <1>1, <1>2 DEF Typed, DbTyped, TermTyped, SubscriptionTyped, Attached
  <2>5. Left(journal, journal')
    BY <2>1, <2>3, <1>1, Fields DEF Left, SameTasks, Viewing, Attached
  <2>6. LinesMove
    BY <2>1, <2>3, <1>1, QuietLines
  <2> QED
    BY <2>4, <2>5, <2>6 DEF Moved, JournalMoves
<1>4. CASE /\ \E t : live' = [live EXCEPT !.todo = t]
           /\ stream' = [stream EXCEPT !.events = Tail(@)]
  <2>1. PICK t : live' = [live EXCEPT !.todo = t]
    BY <1>4
  <2>2. LiveTyped' /\ live'.at = live.at
    BY <2>1, <1>2 DEF LiveTyped
  <2>3. live.at \in Attached
    BY <1>1 DEF Attached
  <2> QED
    BY <2>2, <2>3, <1>1, <1>4, TakingMoves
<1> QED
  BY <1>3, <1>4 DEF next_event

LEMMA OverhearMoves == ASSUME LiveInv, overhear PROVE Moved
<1>1. /\ live.at = "asking" /\ stream.events # <<>>
      /\ stream' = [stream EXCEPT !.events = Tail(@)]
      /\ term' = [term EXCEPT !.queue = print_line(@, Head(stream.events))]
      /\ UNCHANGED <<db, tasks, ctl, live, bound>>
  BY DEF overhear
<1>2. LiveTyped'
  BY <1>1 DEF LiveInv, Typed, LiveTyped
<1>3. live.at \in Attached
  BY <1>1 DEF Attached
<1> QED
  BY <1>1, <1>2, <1>3, TakingMoves

(* A line is asked for. *)
LEMMA AskingMoves ==
  ASSUME LiveInv, live.at \in Attached, live'.at = "asking", live'.view = live.view, LiveTyped',
         live.at = "asking" => term.reading,
         term'.queue = Append(term.queue, ReadLine), term'.screen = term.screen, term'.reading = FALSE,
         term' = [queue |-> term'.queue, reading |-> term'.reading, screen |-> term'.screen],
         UNCHANGED <<db, tasks, stream, ctl, bound>>
  PROVE  Moved
<1>1. Typed /\ TermTyped /\ term.queue \in Seq(Commands) /\ term.screen \in [Log -> Nat]
  BY DEF LiveInv, Typed, TermTyped
<1>2. Append(term.queue, ReadLine) \in Seq(Commands)
  BY <1>1, LinesAre
<1>3. TermTyped'
  BY <1>1, <1>2 DEF TermTyped
<1>4. live'.at \in Attached
  BY DEF Attached
<1>5. Typed'
  BY <1>1, <1>3, <1>4 DEF Typed, DbTyped, StreamTyped, SubscriptionTyped
<1>6. Asked(journal, journal')
  BY <1>4, Fields DEF Asked, SameTasks
<1>7. LinesMove
  <2>1. live.at # "asking" => term.reading = FALSE
    BY <1>1 DEF LiveInv, LinesInv, TermTyped
  <2> QED
    BY <2>1 DEF LinesMove, LinesMoves
<1> QED
  BY <1>5, <1>6, <1>7 DEF Moved, JournalMoves

LEMMA AskMoves == ASSUME LiveInv, ask_hitl PROVE Moved
<1>1. /\ live.at \in {"serving", "following"}
      /\ live' = [live EXCEPT !.at = "asking", !.answers = <<>>]
      /\ term' = [term EXCEPT !.queue = Append(@, ReadLine)]
      /\ UNCHANGED <<db, tasks, stream, ctl, bound>>
  BY DEF ask_hitl
<1>2. LiveTyped /\ TermTyped
  BY DEF LiveInv, Typed
<1>3. LiveTyped' /\ live'.at = "asking" /\ live'.view = live.view /\ live.at \in Attached
  BY <1>1, <1>2 DEF LiveTyped, Steps, Attached
<1>4. term.reading = FALSE
  BY <1>1, <1>2 DEF LiveInv, LinesInv, TermTyped
<1>5. PICK q : q = Append(term.queue, ReadLine)
  OBVIOUS
<1>6. /\ term'.queue = q /\ term'.screen = term.screen /\ term'.reading = FALSE
      /\ term' = [queue |-> term'.queue, reading |-> term'.reading, screen |-> term'.screen]
  BY <1>1, <1>2, <1>4, <1>5 DEF TermTyped
<1> QED
  BY <1>1, <1>3, <1>5, <1>6, AskingMoves

LEMMA ReadMoves ==
  ASSUME LiveInv, NEW fits \in BOOLEAN, NEW more \in BOOLEAN, read_line(fits, more) PROVE Moved
<1>1. live.at = "asking" /\ term.reading /\ UNCHANGED <<db, tasks, stream, ctl, bound>>
  BY DEF read_line
<1>2. Typed /\ LiveTyped /\ TermTyped
  BY DEF LiveInv, Typed
<1> DEFINE Read(last, x) ==
             /\ live' = [live EXCEPT !.answers = x, !.at = IF last THEN "replying" ELSE @]
             /\ term' = [term EXCEPT !.reading = FALSE, !.queue = IF last THEN @ ELSE Append(@, ReadLine)]
<1>a. PICK last \in BOOLEAN : \E x : Read(last, x)
  BY DEF read_line
<1>3. PICK x : Read(last, x)
  BY <1>a
<1>4. live.at \in Attached
  BY <1>1 DEF Attached
<1>5. CASE last
  <2>1. LiveTyped' /\ live'.at = "replying" /\ live'.view = live.view
    BY <1>2, <1>3, <1>5 DEF LiveTyped, Steps, Attached
  <2>2. TermTyped' /\ term'.queue = term.queue /\ term'.screen = term.screen /\ term'.reading = FALSE
    BY <1>2, <1>3, <1>5 DEF TermTyped
  <2>3. live'.at \in Attached
    BY <2>1 DEF Attached
  <2>4. Typed'
    BY <2>1, <2>2, <2>3, <1>1, <1>2, <1>4 DEF Typed, DbTyped, StreamTyped, SubscriptionTyped
  <2>5. Still(journal, journal')
    BY <2>1, <2>2, <1>1, <1>4, Fields DEF Still, SameTasks, Viewing
  <2>6. LinesMove
    BY <2>1, <2>2, <1>1 DEF LinesMove, LinesMoves
  <2> QED
    BY <2>4, <2>5, <2>6 DEF Moved, JournalMoves
<1>6. CASE ~last
  <2>1. LiveTyped' /\ live'.at = "asking" /\ live'.view = live.view
    BY <1>1, <1>2, <1>3, <1>6 DEF LiveTyped, Steps
  <2>2. PICK q : q = Append(term.queue, ReadLine)
    OBVIOUS
  <2>3. term' = [term EXCEPT !.reading = FALSE, !.queue = q]
    BY <2>2, <1>3, <1>6
  <2>4. /\ term'.queue = q /\ term'.screen = term.screen /\ term'.reading = FALSE
        /\ term' = [queue |-> term'.queue, reading |-> term'.reading, screen |-> term'.screen]
    BY <2>3, <1>2 DEF TermTyped
  <2> QED
    BY <2>1, <2>2, <2>4, <1>1, <1>4, AskingMoves
<1> QED
  BY <1>5, <1>6

LEMMA HitlReplyMoves == ASSUME LiveInv, NEW reached \in BOOLEAN, hitl_reply(reached) PROVE Moved
<1>1. live.at = "replying" /\ UNCHANGED <<db, tasks, stream, term, bound>>
  BY DEF hitl_reply
<1>2. Typed /\ LiveTyped
  BY DEF LiveInv, Typed
<1>3. PICK t : live' = [live EXCEPT !.at = live.back, !.todo = t, !.answers = <<>>]
  BY DEF hitl_reply
<1>6. LiveTyped' /\ live'.at \in {"serving", "following"} /\ live'.view = live.view
  BY <1>2, <1>3 DEF LiveTyped, Steps, Attached
<1>7. live.at \in Attached /\ live'.at \in Attached
  BY <1>1, <1>6 DEF Attached
<1>8. Typed'
  BY <1>1, <1>2, <1>6, <1>7 DEF Typed, DbTyped, TermTyped, StreamTyped, SubscriptionTyped
<1>9. JournalMoves(journal, journal')
  BY <1>1, <1>6, <1>7, QuietJournal
<1>10. LinesMove
  BY <1>1, <1>6, QuietLines
<1> QED
  BY <1>8, <1>9, <1>10 DEF Moved

LEMMA RecvMoves == ASSUME LiveInv, blocking_recv PROVE Moved
<1>1. /\ term.queue # <<>> /\ ~term.reading
      /\ UNCHANGED <<db, tasks, stream, ctl, live, bound>>
  BY DEF blocking_recv
<1>2. Typed /\ TermTyped /\ term.queue \in Seq(Commands) /\ term.screen \in [Log -> Nat]
  BY DEF LiveInv, Typed, TermTyped
<1>3. PICK c \in Commands : c = Head(term.queue)
  <2>1. Head(term.queue) \in Commands
    BY <1>1, <1>2
  <2> QED
    BY <2>1
<1>4. PICK q \in Seq(Commands) : q = Tail(term.queue)
  <2>1. Tail(term.queue) \in Seq(Commands)
    BY <1>1, <1>2
  <2> QED
    BY <2>1
<1>5. PICK f : f = IF c.cmd = "Print" THEN [term.screen EXCEPT ![c.event.log] = c.event.version]
                   ELSE term.screen
  OBVIOUS
<1>6. term' = [term EXCEPT !.queue = q, !.reading = (c.cmd = "ReadLine"), !.screen = f]
  BY <1>3, <1>4, <1>5 DEF blocking_recv
<1>7. f \in [Log -> Nat]
  BY <1>2, <1>5, LinesAre
<1>8. TermTyped' /\ term'.queue = q /\ term'.reading = (c.cmd = "ReadLine") /\ term'.screen = f
  BY <1>2, <1>6, <1>7 DEF TermTyped
<1>9. Typed'
  BY <1>1, <1>2, <1>8 DEF Typed, DbTyped, LiveTyped, StreamTyped, SubscriptionTyped
<1>10. Displayed(journal, journal')
  <2>1. \/ c.cmd = "Print" /\ f = [term.screen EXCEPT ![c.event.log] = c.event.version]
        \/ c.cmd = "ReadLine" /\ f = term.screen
    BY <1>5, LinesAre
  <2> QED
    BY <2>1, <1>1, <1>3, <1>4, <1>8, Fields DEF Displayed, SameTasks
<1>11. LinesMove
  BY <1>1, <1>3, <1>4, <1>8 DEF LinesMove, LinesMoves
<1> QED
  BY <1>9, <1>10, <1>11 DEF Moved, JournalMoves

-----------------------------------------------------------------------------
(* The invariant *)

LEMMA LiveInitInv == LiveInit => LiveInv
<1> SUFFICES ASSUME LiveInit PROVE LiveInv
  OBVIOUS
<1>1. /\ db.logs = <<>> /\ db.hitls = <<>> /\ tasks = {} /\ stream = Unsubscribed
      /\ db = [row |-> db.row, logs |-> db.logs, hitls |-> db.hitls]
      /\ live = Detached /\ bound \in Bounds
      /\ term = [queue |-> <<>>, reading |-> FALSE, screen |-> [l \in Log |-> 0]]
  BY DEF LiveInit
<1>2. DbTyped
  BY <1>1, EmptyView DEF DbTyped
<1>3. LiveTyped /\ live.at = "detached"
  BY <1>1, DetachedIs, EmptyView DEF LiveTyped, Steps
<1>4. StreamTyped /\ ~stream.on /\ stream.events = <<>>
  BY <1>1, DetachedIs DEF StreamTyped
<1>5. TermTyped /\ term.queue = <<>> /\ term.reading = FALSE /\ \A l \in Log : term.screen[l] = 0
  BY <1>1 DEF TermTyped
<1>6. Typed
  BY <1>1, <1>2, <1>3, <1>4, <1>5 DEF Typed, SubscriptionTyped, Attached
<1>7. JournalInv(journal)
  <2>1. \A l, v, k : ~Queued(journal, l, v, k) /\ ~Streamed(journal, l, v, k)
    BY <1>4, <1>5, Fields DEF Queued, Streamed, At
  <2>2. ~Viewing(journal) /\ journal.at \notin Attached
    BY <1>3, Fields DEF Viewing, Attached
  <2>3. \A l \in Log : Current(journal, l) = 0
    BY <1>1, Fields DEF Current
  <2>4. ScreenIsOldest(journal) /\ WayIsOrdered(journal)
    BY <2>1, <2>3, <1>5, Fields DEF ScreenIsOldest, WayIsOrdered
  <2>5. TasksAreCurrent(journal)
    BY <1>1, Fields DEF TasksAreCurrent
  <2> QED
    BY <2>2, <2>4, <2>5 DEF JournalInv, ViewIsNewest
<1>8. LinesInv(live.at, term.reading, term.queue)
  BY <1>3, <1>5 DEF LinesInv, NoLine, Asks
<1> QED
  BY <1>6, <1>7, <1>8 DEF LiveInv

LEMMA NextMoves == ASSUME LiveInv, LiveNext PROVE Moved
<1>1. CASE Writers
  BY <1>1, LogMoves, ReplaceMoves, RequestMoves, ReplyMoves, FailMoves DEF Writers
<1>2. CASE Tasks
  BY <1>2, EmitMoves, RefusedMoves DEF Tasks
<1>3. CASE Following
  BY <1>3, GetMoves, ListMoves, SubscribeMoves, AfterMoves, SkipMoves, EventMoves, AskMoves,
     OverhearMoves, HitlReplyMoves DEF Following
<1>4. CASE Terminal
  BY <1>4, RecvMoves, ReadMoves DEF Terminal
<1> QED
  BY <1>1, <1>2, <1>3, <1>4, ControllerMoves, DeleteMoves, RunMoves DEF LiveNext

LEMMA LiveStepInv ==
  ASSUME LiveInv, [LiveNext]_liveVars
  PROVE  LiveInv' /\ \A l \in Log : term'.screen[l] >= term.screen[l]
<1>1. CASE LiveNext
  <2>1. Typed' /\ JournalMoves(journal, journal') /\ LinesMove
    BY <1>1, NextMoves DEF Moved
  <2>2. journal \in Journals /\ Sized(journal)
    BY DEF LiveInv, Typed, DbTyped, LiveTyped, StreamTyped, TermTyped, SubscriptionTyped, journal,
           Journals, Sized
  <2>3. journal' \in Journals /\ Sized(journal')
    BY <2>1 DEF Typed, DbTyped, LiveTyped, StreamTyped, TermTyped, SubscriptionTyped, journal,
                Journals, Sized
  <2>4. JournalInv(journal') /\ \A l \in Log : journal'.screen[l] >= journal.screen[l]
    BY <2>1, <2>2, <2>3, JournalStep DEF LiveInv
  <2>5. LinesInv(live'.at, term'.reading, term'.queue)
    <3>1. term.queue \in Seq(Commands) /\ term.reading \in BOOLEAN
      BY DEF LiveInv, Typed, TermTyped
    <3>2. term'.queue \in Seq(Commands) /\ term'.reading \in BOOLEAN
      BY <2>1 DEF Typed, TermTyped
    <3> QED
      BY <3>1, <3>2, <2>1, LinesStep DEF LiveInv, LinesMove
  <2> QED
    BY <2>1, <2>4, <2>5, Fields DEF LiveInv
<1>2. CASE UNCHANGED liveVars
  <2>1. UNCHANGED <<db, tasks, stream, ctl, live, term, bound>>
    BY <1>2 DEF liveVars
  <2>2. journal' = journal /\ Typed'
    BY <2>1 DEF journal, LiveInv, Typed, DbTyped, LiveTyped, StreamTyped, TermTyped,
                SubscriptionTyped
  <2>3. \A l \in Log : term.screen[l] \in Nat
    BY DEF LiveInv, Typed, TermTyped
  <2> QED
    BY <2>1, <2>2, <2>3 DEF LiveInv
<1> QED
  BY <1>1, <1>2

LEMMA LiveInvHolds == LiveSpec => []LiveInv
<1>1. LiveInv /\ [LiveNext]_liveVars => LiveInv'
  BY LiveStepInv
<1> QED
  BY <1>1, LiveInitInv, PTL DEF LiveSpec

-----------------------------------------------------------------------------
(* The results *)

(* While a question is asked the terminal has exactly one line to ask for, *)
(* in its queue or being typed, and none otherwise, whatever events        *)
(* read_with_live_events prints meanwhile: no line the person types is     *)
(* read for nobody.                                                        *)
THEOREM LinesAreAwaited == LiveSpec => []OneLineAtATime
<1>1. LiveInv => OneLineAtATime
  <2> SUFFICES ASSUME LiveInv PROVE OneLineAtATime
    OBVIOUS
  <2> DEFINE asked == {k \in DOMAIN term.queue : term.queue[k].cmd = "ReadLine"}
  <2>1. DOMAIN term.queue = 1..Len(term.queue) /\ term.reading \in BOOLEAN
    BY DEF LiveInv, Typed, TermTyped
  <2>2. \A k : k \in asked <=> k \in Nat /\ Asks(term.queue, k)
    BY <2>1 DEF Asks
  <2>3. NoLine(term.queue) => Cardinality(asked) = 0
    <3>1. NoLine(term.queue) => asked = {}
      BY <2>2 DEF NoLine
    <3> QED
      BY <3>1, FS_EmptySet
  <2>4. OneLine(term.queue) => Cardinality(asked) = 1
    <3>1. OneLine(term.queue) => \E j : asked = {j}
      BY <2>2 DEF OneLine
    <3> QED
      BY <3>1, FS_Singleton
  <2>5. Cardinality(asked) + (IF term.reading THEN 1 ELSE 0) = IF live.at = "asking" THEN 1 ELSE 0
    BY <2>1, <2>3, <2>4 DEF LiveInv, LinesInv
  <2> QED
    BY <2>5 DEF OneLineAtATime
<1> QED
  BY <1>1, LiveInvHolds, PTL

(* What the terminal shows of an entry never goes back to an older         *)
(* content, over questions, detachments and new attachments: get_session   *)
(* reads the view before stream_session_events subscribes.                 *)
THEOREM ScreenNeverGoesBack == LiveSpec => JournalNeverGoesBack
<1>1. LiveInv /\ [LiveNext]_liveVars => [\A l \in Log : term'.screen[l] >= term.screen[l]]_liveVars
  BY LiveStepInv
<1> QED
  BY <1>1, LiveInvHolds, PTL DEF LiveSpec, JournalNeverGoesBack

-----------------------------------------------------------------------------
(* What the messages and the tasks of the page are, as far as the          *)
(* properties tell.                                                        *)

IsSequence(s) == s \in Seq(ToSet(s))

Request(f) == [type |-> "HitlRequest", form |-> f]

(* An answer under way: what was typed in it was typed for its form. *)
IsClientMessage(m) ==
  /\ m.type = "SubscribeSession" => m.session \in Sessions
  /\ m.type = "HitlAnswer" => m.form \in FormIds /\ m.answers.text \in {None, m.form}

IsServerMessage(m) ==
  /\ m.type = "HitlRequest" => m.form \in FormIds /\ m = Request(m.form)
  /\ m.type = "LogAppended" => m.session \in Sessions /\ m.n \in Nat

IsSend(t) ==
  t.op = "send" =>
    /\ {"op", "messages", "holds"} \subseteq DOMAIN t
    /\ IsSequence(t.messages) /\ t.messages # <<>>
    /\ \A k \in DOMAIN t.messages : IsClientMessage(t.messages[k])

(* The session a new one is told of is a session. *)
IsCall(t) ==
  t.op # "send" =>
    /\ {"op", "args", "got"} \subseteq DOMAIN t
    /\ t.op = "create_session" /\ t.got # None /\ t.got.ok => t.got.value[2] \in Sessions

IsTask(t) == IsSend(t) /\ IsCall(t)

JournalLine == [session : Sessions, n : Nat]

PageTyped ==
  /\ DOMAIN page = {"cell", "current", "workspace", "workspaces", "selected", "frames", "logs",
                    "mode", "vars", "wsvars", "paths", "file", "editor", "pending", "answers"}
  /\ page.current \in Opt(Sessions) /\ page.logs \in Seq(JournalLine)
  /\ page.pending \in Seq(FormIds) /\ {"text", "file"} \subseteq DOMAIN page.answers

TasksTyped ==
  IsSequence(spawned) /\ \A k \in DOMAIN spawned : IsTask(spawned[k])

ToServerTyped ==
  IsSequence(toServer) /\ \A k \in DOMAIN toServer : IsClientMessage(toServer[k])

ToPageTyped ==
  IsSequence(toPage) /\ \A k \in DOMAIN toPage : IsServerMessage(toPage[k])

ConnTyped ==
  conn \in [open : BOOLEAN, registry : SUBSET FormIds, streamed : SUBSET FormIds,
           acquired : SUBSET Sessions]

ClusterTyped ==
  /\ DOMAIN cluster = {"made", "workspaces", "workspace", "vars", "logs", "files", "frames",
                       "jobs", "answered"}
  /\ cluster.logs \in [Sessions -> Nat]
  /\ IsSequence(cluster.answered)
  /\ \A k \in DOMAIN cluster.answered :
       cluster.answered[k].answers.text \in {None, cluster.answered[k].form}

ChatTyped ==
  PageTyped /\ TasksTyped /\ ToServerTyped /\ ToPageTyped /\ ConnTyped /\ ClusterTyped

-----------------------------------------------------------------------------
(* A form is in one place: on its way to the page, in the queue of the     *)
(* page, or answered.  What was typed is for the first of the queue.       *)

InQueue(f) == \E k \in DOMAIN page.pending : page.pending[k] = f
Requested(f) == \E k \in DOMAIN toPage : toPage[k] = Request(f)
Replies(messages, f) ==
  \E k \in DOMAIN messages : messages[k].type = "HitlAnswer" /\ messages[k].form = f
ReplyUnderWay(f) ==
  \/ Replies(toServer, f)
  \/ \E k \in DOMAIN spawned : spawned[k].op = "send" /\ Replies(spawned[k].messages, f)

OnePlace ==
  \A f \in FormIds :
    /\ InQueue(f) \/ Requested(f) => (conn.open => f \in conn.registry) /\ ~ReplyUnderWay(f)
    /\ InQueue(f) \/ Requested(f) \/ ReplyUnderWay(f) => f \in conn.streamed
    /\ ~(InQueue(f) /\ Requested(f))

NoDuplicates ==
  /\ \A j, k \in DOMAIN page.pending : page.pending[j] = page.pending[k] => j = k
  /\ \A j, k \in DOMAIN toPage : toPage[j].type = "HitlRequest" /\ toPage[j] = toPage[k] => j = k

TypedForFirst ==
  page.answers.text # None => page.pending # <<>> /\ page.answers.text = Head(page.pending)

(* The lines of a session come in order: those the page shows, those on    *)
(* their way, those to come.                                               *)
LineOf(m, s) == m.type = "LogAppended" /\ m.session = s

InOrder ==
  /\ \A k \in DOMAIN page.logs : page.logs[k].session = page.current
                                   /\ page.logs[k].n <= cluster.logs[page.current]
  /\ \A j, k \in DOMAIN page.logs : j < k => page.logs[j].n < page.logs[k].n
  /\ \A k \in DOMAIN toPage : toPage[k].type = "LogAppended" =>
       toPage[k].n <= cluster.logs[toPage[k].session]
  /\ \A j, k \in DOMAIN toPage :
       j < k /\ toPage[j].type = "LogAppended" /\ LineOf(toPage[k], toPage[j].session) =>
         toPage[j].n < toPage[k].n
  /\ \A j \in DOMAIN page.logs, k \in DOMAIN toPage :
       LineOf(toPage[k], page.logs[j].session) => page.logs[j].n < toPage[k].n

ChatInv == ChatTyped /\ OnePlace /\ NoDuplicates /\ TypedForFirst /\ InOrder

(* No form has been sent before the page is mounted. *)
BeforeMount == page.cell = "unset" => conn.streamed = {}
-----------------------------------------------------------------------------
(* Sequences *)

(* A sequence over some set is one over its own elements. *)
LEMMA OverOwnElements ==
  ASSUME NEW X, NEW s \in Seq(X)
  PROVE  IsSequence(s)
BY DEF IsSequence, ToSet

(* The sequence r holds elements of q and of N only. *)
Among(r, q, N) ==
  /\ IsSequence(r)
  /\ \A k \in DOMAIN r : r[k] \in N \/ \E j \in DOMAIN q : r[k] = q[j]

LEMMA AmongSame == ASSUME NEW q, IsSequence(q) PROVE Among(q, q, {})
BY DEF Among

LEMMA AmongAppend ==
  ASSUME NEW q, IsSequence(q), NEW x
  PROVE  Among(Append(q, x), q, {x})
<1> DEFINE X == ToSet(q) \cup {x}
<1>1. q \in Seq(X) /\ x \in X
  BY DEF IsSequence, ToSet
<1>2. Append(q, x) \in Seq(X)
  BY <1>1
<1>3. \A k \in DOMAIN Append(q, x) : Append(q, x)[k] = x \/ \E j \in DOMAIN q : Append(q, x)[k] = q[j]
  BY <1>1
<1> HIDE DEF X
<1> QED BY <1>2, <1>3, OverOwnElements DEF Among

LEMMA AmongTail ==
  ASSUME NEW q, IsSequence(q), q # <<>>
  PROVE  Among(Tail(q), q, {})
<1> DEFINE X == ToSet(q)
<1>1. q \in Seq(X)
  BY DEF IsSequence
<1> HIDE DEF X
<1>2. Tail(q) \in Seq(X)
  BY <1>1
<1>3. \A k \in DOMAIN Tail(q) : k + 1 \in DOMAIN q /\ Tail(q)[k] = q[k + 1]
  BY <1>1
<1> QED BY <1>2, <1>3, OverOwnElements DEF Among

LEMMA MoreThanOne ==
  ASSUME NEW X, NEW q \in Seq(X), q # <<>>, Len(q) # 1
  PROVE  Tail(q) # <<>>
<1>1. Len(q) \in Nat /\ Len(q) # 0 /\ Tail(q) \in Seq(X)
  OBVIOUS
<1>2. Len(Tail(q)) = Len(q) - 1
  OBVIOUS
<1>3. Len(<<>>) = 0
  OBVIOUS
<1> QED BY <1>1, <1>2, <1>3

LEMMA AmongConcat ==
  ASSUME NEW q, IsSequence(q), NEW r, IsSequence(r)
  PROVE  Among(q \o r, q, ToSet(r))
<1> DEFINE X == ToSet(q) \cup ToSet(r)
<1>1. q \in Seq(X) /\ r \in Seq(X)
  BY DEF IsSequence, ToSet
<1>2. q \o r \in Seq(X)
  BY <1>1
<1>3. \A k \in DOMAIN (q \o r) : (q \o r)[k] \in ToSet(r) \/ \E j \in DOMAIN q : (q \o r)[k] = q[j]
  BY <1>1 DEF ToSet
<1> HIDE DEF X
<1> QED BY <1>2, <1>3, OverOwnElements DEF Among

LEMMA AmongExcept ==
  ASSUME NEW q, IsSequence(q), NEW i \in DOMAIN q, NEW x
  PROVE  Among([q EXCEPT ![i] = x], q, {x})
<1> DEFINE X == ToSet(q) \cup {x}
<1>1. q \in Seq(X) /\ x \in X
  BY DEF IsSequence, ToSet
<1>2. [q EXCEPT ![i] = x] \in Seq(X)
  BY <1>1
<1>3. \A k \in DOMAIN [q EXCEPT ![i] = x] :
        [q EXCEPT ![i] = x][k] = x \/ (k \in DOMAIN q /\ [q EXCEPT ![i] = x][k] = q[k])
  BY <1>1
<1> HIDE DEF X
<1> QED BY <1>2, <1>3, OverOwnElements DEF Among

LEMMA AmongRemoveAt ==
  ASSUME NEW q, IsSequence(q), NEW i \in DOMAIN q
  PROVE  Among(RemoveAt(q, i), q, {})
<1> DEFINE X == ToSet(q)
<1>1. q \in Seq(X)
  BY DEF IsSequence
<1> HIDE DEF X
<1> DEFINE a == SubSeq(q, 1, i - 1)
           b == SubSeq(q, i + 1, Len(q))
<1>2. i \in 1..Len(q) /\ Len(q) \in Nat
  BY <1>1
<1>3. /\ a \in Seq(X) /\ Len(a) = i - 1
      /\ \A k \in 1..(i - 1) : a[k] = q[k]
  BY <1>1, <1>2
<1>4. /\ b \in Seq(X) /\ Len(b) = Len(q) - i
      /\ \A k \in 1..(Len(q) - i) : b[k] = q[k + i]
  BY <1>1, <1>2
<1> HIDE DEF a, b
<1>5. /\ a \o b \in Seq(X) /\ Len(a \o b) = Len(q) - 1
      /\ \A k \in DOMAIN (a \o b) : (a \o b)[k] = IF k <= i - 1 THEN a[k] ELSE b[k - (i - 1)]
  BY <1>2, <1>3, <1>4
<1>6. \A k \in DOMAIN (a \o b) : \E j \in DOMAIN q : (a \o b)[k] = q[j]
  <2> TAKE k \in DOMAIN (a \o b)
  <2>1. k \in 1..(Len(q) - 1)
    BY <1>5, <1>2
  <2>2. CASE k <= i - 1
    BY <2>1, <2>2, <1>1, <1>2, <1>3, <1>5
  <2>3. CASE ~(k <= i - 1)
    <3>1. k - (i - 1) \in 1..(Len(q) - i) /\ k + 1 \in 1..Len(q) /\ k - (i - 1) + i = k + 1
      BY <2>1, <2>3, <1>2
    <3>2. (a \o b)[k] = q[k + 1]
      BY <2>3, <3>1, <1>4, <1>5
    <3> QED BY <3>1, <3>2, <1>1
  <2> QED BY <2>2, <2>3
<1>7. RemoveAt(q, i) = a \o b
  BY DEF RemoveAt, a, b
<1> QED BY <1>5, <1>6, <1>7, OverOwnElements DEF Among

LEMMA AmongTrans ==
  ASSUME NEW r, NEW s, NEW q, NEW N, NEW M, Among(r, s, N), Among(s, q, M)
  PROVE  Among(r, q, N \cup M)
BY DEF Among

-----------------------------------------------------------------------------
(* Steps that leave the queue of forms, the journal and the answers alone  *)

OldReply(m) == IsClientMessage(m) /\ (m.type = "HitlAnswer" => ReplyUnderWay(m.form))

(* A task that answers no form whose answer is not under way. *)
OldTask(t) ==
  IsTask(t) /\ (t.op = "send" => \A k \in DOMAIN t.messages : OldReply(t.messages[k]))

LEMMA NoNewReply ==
  ASSUME TasksTyped, ToServerTyped,
         NEW N, Among(spawned', spawned, N), \A t \in N : OldTask(t),
         NEW M, Among(toServer', toServer, M), \A m \in M : OldReply(m)
  PROVE  /\ TasksTyped' /\ ToServerTyped'
         /\ \A f \in FormIds : ReplyUnderWay(f)' => ReplyUnderWay(f)
<1>1. TasksTyped'
  BY DEF TasksTyped, Among, OldTask
<1>2. ToServerTyped'
  BY DEF ToServerTyped, Among, OldReply
<1>3. ASSUME NEW f \in FormIds, Replies(toServer, f)'
      PROVE  ReplyUnderWay(f)
  <2>1. PICK k \in DOMAIN toServer' : toServer'[k].type = "HitlAnswer" /\ toServer'[k].form = f
    BY <1>3 DEF Replies
  <2> QED BY <2>1 DEF Among, OldReply, ReplyUnderWay, Replies
<1>4. ASSUME NEW f \in FormIds,
             \E k \in DOMAIN spawned' : spawned'[k].op = "send" /\ Replies(spawned'[k].messages, f)
      PROVE  ReplyUnderWay(f)
  <2>1. PICK k \in DOMAIN spawned' : spawned'[k].op = "send" /\ Replies(spawned'[k].messages, f)
    BY <1>4
  <2>2. CASE spawned'[k] \in N
    BY <2>1, <2>2 DEF OldTask, OldReply, Replies
  <2>3. CASE \E j \in DOMAIN spawned : spawned'[k] = spawned[j]
    BY <2>1, <2>3 DEF ReplyUnderWay
  <2> QED BY <2>2, <2>3 DEF Among
<1> QED BY <1>1, <1>2, <1>3, <1>4 DEF ReplyUnderWay

Plain(m) == m.type \notin {"HitlRequest", "LogAppended"}

ToPageMoves ==
  \/ toPage' = toPage
  \/ toPage' = <<>>
  \/ toPage # <<>> /\ toPage' = Tail(toPage)
  \/ \E m : Plain(m) /\ toPage' = Append(toPage, m)

(* The registry of the connection is as it was, or is not asked for: the   *)
(* connection is lost, or has had no form yet.                             *)
ConnKept ==
  /\ conn'.streamed = conn.streamed
  /\ \/ conn'.open = conn.open /\ conn'.registry = conn.registry
     \/ ~conn'.open
     \/ conn.streamed = {}

(* The requests and the lines under way are some of those there were, in   *)
(* the same order.                                                         *)
LEMMA ToPageKeepsOrder ==
  ASSUME ToPageTyped, ToPageMoves
  PROVE  /\ ToPageTyped'
         /\ \E d \in Nat : \A k \in DOMAIN toPage' :
              Plain(toPage'[k]) \/ (k + d \in DOMAIN toPage /\ toPage'[k] = toPage[k + d])
<1>0. toPage \in Seq(ToSet(toPage))
  BY DEF ToPageTyped, IsSequence
<1>1. CASE toPage' = toPage
  <2>1. \A k \in DOMAIN toPage : k + 0 \in DOMAIN toPage /\ toPage'[k] = toPage[k + 0]
    BY <1>0, <1>1
  <2> QED BY <1>1, <2>1 DEF ToPageTyped
<1>2. CASE toPage # <<>> /\ toPage' = Tail(toPage)
  <2>1. \A k \in DOMAIN toPage' : k + 1 \in DOMAIN toPage /\ toPage'[k] = toPage[k + 1]
    BY <1>0, <1>2
  <2>2. Among(toPage', toPage, {})
    BY <1>2, AmongTail DEF ToPageTyped
  <2> QED BY <2>1, <2>2 DEF ToPageTyped, Among
<1>3. CASE \E m : Plain(m) /\ toPage' = Append(toPage, m)
  <2>1. PICK m : Plain(m) /\ toPage' = Append(toPage, m)
    BY <1>3
  <2>2. Among(toPage', toPage, {m}) /\ IsServerMessage(m)
    BY <2>1, AmongAppend DEF ToPageTyped, Plain, IsServerMessage
  <2>3. ToPageTyped'
    BY <2>2 DEF ToPageTyped, Among
  <2> DEFINE X == ToSet(toPage) \cup {m}
  <2>4. toPage \in Seq(X) /\ m \in X
    BY <1>0 DEF ToSet
  <2> HIDE DEF X
  <2>5. \A k \in DOMAIN toPage' :
          toPage'[k] = m \/ (k + 0 \in DOMAIN toPage /\ toPage'[k] = toPage[k + 0])
    BY <2>1, <2>4
  <2> QED BY <2>1, <2>3, <2>5
<1>4. CASE toPage' = <<>>
  <2>1. DOMAIN toPage' = {} /\ IsSequence(toPage')
    <3>1. <<>> \in Seq({}) /\ DOMAIN <<>> = {}
      OBVIOUS
    <3> QED BY <1>4, <3>1, OverOwnElements
  <2>2. 0 \in Nat /\ \A k \in DOMAIN toPage' : Plain(toPage'[k])
    BY <2>1
  <2> QED BY <2>1, <2>2 DEF ToPageTyped
<1> QED BY <1>1, <1>2, <1>3, <1>4 DEF ToPageMoves

Background ==
  /\ page'.pending = page.pending /\ page'.answers.text = page.answers.text
  /\ \/ page'.logs = page.logs /\ page'.current = page.current
     \/ page'.logs = <<>>
  /\ ConnKept /\ cluster'.logs = cluster.logs
  /\ ToPageMoves
  /\ \A f \in FormIds : ReplyUnderWay(f)' => ReplyUnderWay(f)

ChatRest == OnePlace /\ NoDuplicates /\ TypedForFirst /\ InOrder

LEMMA FewerRequests ==
  ASSUME ToPageTyped, ToPageMoves, NoDuplicates
  PROVE  /\ \A f \in FormIds : Requested(f)' => Requested(f)
         /\ \A j, k \in DOMAIN toPage' :
              toPage'[j].type = "HitlRequest" /\ toPage'[j] = toPage'[k] => j = k
<1>1. PICK d \in Nat : \A k \in DOMAIN toPage' :
              Plain(toPage'[k]) \/ (k + d \in DOMAIN toPage /\ toPage'[k] = toPage[k + d])
  BY ToPageKeepsOrder
<1>2. ASSUME NEW f \in FormIds, Requested(f)' PROVE Requested(f)
  BY <1>1, <1>2 DEF Requested, Request, Plain
<1>3. ASSUME NEW j \in DOMAIN toPage', NEW k \in DOMAIN toPage',
             toPage'[j].type = "HitlRequest", toPage'[j] = toPage'[k]
      PROVE  j = k
  <2>0. IsSequence(toPage)'
    BY ToPageKeepsOrder DEF ToPageTyped
  <2>1. ~Plain(toPage'[j]) /\ ~Plain(toPage'[k])
    BY <1>3 DEF Plain
  <2>2. j + d = k + d
    BY <1>1, <1>3, <2>1 DEF NoDuplicates
  <2>3. j \in Int /\ k \in Int /\ d \in Int
    BY <1>3, <2>0 DEF IsSequence
  <2>4. \A a, b, c \in Int : a + c = b + c => a = b
    OBVIOUS
  <2> QED BY <2>2, <2>3, <2>4, Zenon
<1> QED BY <1>2, <1>3

LEMMA LinesKeepOrder ==
  ASSUME PageTyped, ToPageTyped, ToPageMoves, InOrder, cluster'.logs = cluster.logs,
         \/ page'.logs = page.logs /\ page'.current = page.current
         \/ page'.logs = <<>>
  PROVE  InOrder'
<1>1. PICK d \in Nat : \A k \in DOMAIN toPage' :
              Plain(toPage'[k]) \/ (k + d \in DOMAIN toPage /\ toPage'[k] = toPage[k + d])
  BY ToPageKeepsOrder
<1>2. \A k \in DOMAIN toPage' : k \in Int
  BY ToPageKeepsOrder DEF ToPageTyped, IsSequence
<1>3. \A k \in DOMAIN toPage' : toPage'[k].type = "LogAppended" =>
              k + d \in DOMAIN toPage /\ toPage'[k] = toPage[k + d]
  BY <1>1 DEF Plain
<1>4. \A k \in DOMAIN toPage' : toPage'[k].type = "LogAppended" =>
        toPage'[k].n <= cluster'.logs[toPage'[k].session]
  BY <1>3 DEF InOrder
<1>5. \A j, k \in DOMAIN toPage' :
       j < k /\ toPage'[j].type = "LogAppended" /\ LineOf(toPage'[k], toPage'[j].session) =>
         toPage'[j].n < toPage'[k].n
  <2> SUFFICES ASSUME NEW j \in DOMAIN toPage', NEW k \in DOMAIN toPage', j < k,
                      toPage'[j].type = "LogAppended", LineOf(toPage'[k], toPage'[j].session)
               PROVE  toPage'[j].n < toPage'[k].n
    OBVIOUS
  <2>1. j + d < k + d
    BY <1>2
  <2>2. toPage'[j] = toPage[j + d] /\ j + d \in DOMAIN toPage
    BY <1>3
  <2>3. toPage'[k] = toPage[k + d] /\ k + d \in DOMAIN toPage
    BY <1>3 DEF LineOf
  <2> QED BY <2>1, <2>2, <2>3 DEF InOrder
<1>6. \A j \in DOMAIN page'.logs, k \in DOMAIN toPage' :
       LineOf(toPage'[k], page'.logs[j].session) => page'.logs[j].n < toPage'[k].n
  BY <1>3 DEF InOrder, LineOf
<1>7. /\ \A k \in DOMAIN page'.logs : page'.logs[k].session = page'.current
                                   /\ page'.logs[k].n <= cluster'.logs[page'.current]
      /\ \A j, k \in DOMAIN page'.logs : j < k => page'.logs[j].n < page'.logs[k].n
  BY DEF InOrder
<1> QED BY <1>4, <1>5, <1>6, <1>7 DEF InOrder

LEMMA BackgroundKeepsRest ==
  ASSUME PageTyped, ToPageTyped, ChatRest, Background
  PROVE  ChatRest' /\ ToPageTyped'
<1>1. /\ \A f \in FormIds : Requested(f)' => Requested(f)
      /\ \A j, k \in DOMAIN toPage' :
           toPage'[j].type = "HitlRequest" /\ toPage'[j] = toPage'[k] => j = k
  BY FewerRequests DEF Background, ChatRest
<1>2. \A f \in FormIds : InQueue(f)' <=> InQueue(f)
  BY DEF InQueue, Background
<1>3. OnePlace'
  BY <1>1, <1>2 DEF OnePlace, ChatRest, Background, ConnKept
<1>4. NoDuplicates'
  BY <1>1 DEF NoDuplicates, ChatRest, Background
<1>5. TypedForFirst'
  BY DEF TypedForFirst, ChatRest, Background
<1>6. InOrder'
  BY LinesKeepOrder DEF ChatRest, Background
<1>7. ToPageTyped'
  BY ToPageKeepsOrder DEF Background
<1> QED BY <1>3, <1>4, <1>5, <1>6, <1>7 DEF ChatRest

-----------------------------------------------------------------------------
(* The tasks a step leaves *)

TasksKept == \E N : Among(spawned', spawned, N) /\ \A t \in N : OldTask(t)
ToServerKept == \E M : Among(toServer', toServer, M) /\ \A m \in M : OldReply(m)

LEMMA TasksUnchanged == ASSUME TasksTyped, spawned' = spawned PROVE TasksKept
BY AmongSame DEF TasksKept, TasksTyped

LEMMA SpawnedTask ==
  ASSUME TasksTyped, NEW t, OldTask(t), spawned' = Spawn(t)
  PROVE  TasksKept
<1>1. Among(spawned', spawned, {t})
  BY AmongAppend DEF Spawn, TasksTyped
<1> QED BY <1>1 DEF TasksKept

LEMMA NextTask ==
  ASSUME TasksTyped, NEW i \in DOMAIN spawned, NEW t, OldTask(t),
         spawned' = [spawned EXCEPT ![i] = t]
  PROVE  TasksKept
<1>1. Among(spawned', spawned, {t})
  BY AmongExcept DEF TasksTyped
<1> QED BY <1>1 DEF TasksKept

LEMMA TaskDone ==
  ASSUME TasksTyped, NEW i \in DOMAIN spawned, spawned' = Done(i)
  PROVE  TasksKept
<1>1. Among(spawned', spawned, {})
  BY AmongRemoveAt DEF Done, TasksTyped
<1> QED BY <1>1 DEF TasksKept

LEMMA SameToServer == ASSUME ToServerTyped, toServer' = toServer PROVE ToServerKept
BY AmongSame DEF ToServerKept, ToServerTyped

LEMMA CallIsOld ==
  ASSUME NEW op, op # "send", NEW args
  PROVE  OldTask(Calling(op, args))
BY DEF OldTask, IsTask, IsSend, IsCall, Calling

LEMMA PlainSending ==
  ASSUME NEW m, m.type \notin {"HitlAnswer", "SubscribeSession"}
  PROVE  OldTask(Sending(<<m>>))
<1>1. <<m>> \in Seq({m}) /\ <<m>> # <<>> /\ DOMAIN <<m>> = {1} /\ <<m>>[1] = m
  OBVIOUS
<1>2. IsSequence(<<m>>) /\ <<m>> # <<>>
  BY <1>1, OverOwnElements
<1>3. \A k \in DOMAIN <<m>> : OldReply(<<m>>[k])
  BY <1>1 DEF OldReply, IsClientMessage
<1> DEFINE t == Sending(<<m>>)
<1>4. t.op = "send" /\ t.messages = <<m>> /\ DOMAIN t = {"op", "messages", "holds"}
  BY DEF Sending
<1> HIDE DEF t
<1>5. OldTask(t)
  BY <1>2, <1>3, <1>4 DEF OldTask, IsTask, IsSend, IsCall, OldReply
<1> QED BY <1>5 DEF t

LEMMA OpeningTasksAreOld ==
  ASSUME NEW s \in Sessions
  PROVE  IsSequence(OpeningTasks(s)) /\ \A t \in ToSet(OpeningTasks(s)) : OldTask(t)
<1> DEFINE a == [type |-> "SubscribeSession", session |-> s]
           b == [type |-> "GetMode", session |-> s]
           t == Sending(<<a, b>>)
           u == Calling("session_vars", s)
<1>1. OldReply(a) /\ OldReply(b)
  BY DEF OldReply, IsClientMessage
<1>2. OldTask(u)
  BY CallIsOld
<1>3. t.op = "send" /\ t.messages = <<a, b>> /\ DOMAIN t = {"op", "messages", "holds"}
  BY DEF Sending
<1>4. OpeningTasks(s) = <<t, u>>
  BY DEF OpeningTasks
<1> HIDE DEF a, b, t, u
<1>5. /\ <<a, b>> \in Seq({a, b}) /\ <<a, b>> # <<>>
      /\ \A k \in DOMAIN <<a, b>> : <<a, b>>[k] \in {a, b}
  OBVIOUS
<1>6. IsSequence(<<a, b>>) /\ <<a, b>> # <<>>
  BY <1>5, OverOwnElements
<1>7. \A k \in DOMAIN <<a, b>> : OldReply(<<a, b>>[k])
  BY <1>1, <1>5
<1>8. OldTask(t)
  BY <1>3, <1>6, <1>7 DEF OldTask, IsTask, IsSend, IsCall, OldReply
<1>9. <<t, u>> \in Seq({t, u}) /\ \A k \in DOMAIN <<t, u>> : <<t, u>>[k] \in {t, u}
  OBVIOUS
<1>10. IsSequence(<<t, u>>)
  BY <1>9, OverOwnElements
<1> QED BY <1>2, <1>4, <1>8, <1>9, <1>10 DEF ToSet

LEMMA OpensSession ==
  ASSUME TasksTyped, NEW s \in Sessions, NEW q, Among(q, spawned, {}),
         spawned' = q \o OpeningTasks(s)
  PROVE  TasksKept
<1> DEFINE N == ToSet(OpeningTasks(s))
<1>1. IsSequence(OpeningTasks(s)) /\ \A t \in N : OldTask(t)
  BY OpeningTasksAreOld
<1>2. Among(spawned', q, N)
  BY <1>1, AmongConcat DEF Among
<1> HIDE DEF N
<1>3. Among(spawned', spawned, N \cup {})
  BY <1>2, AmongTrans
<1> QED BY <1>1, <1>3 DEF TasksKept

-----------------------------------------------------------------------------
(* Steps of the background *)

SamePage ==
  /\ page'.pending = page.pending /\ page'.answers.text = page.answers.text
  /\ \/ page'.logs = page.logs /\ page'.current = page.current
     \/ page'.logs = <<>>

LEMMA BackgroundStep ==
  ASSUME ChatInv, PageTyped', SamePage, ConnTyped', ClusterTyped',
         ConnKept, cluster'.logs = cluster.logs, ToPageMoves, TasksKept, ToServerKept
  PROVE  ChatInv'
<1>1. TasksTyped /\ ToServerTyped /\ PageTyped /\ ToPageTyped /\ ChatRest
  BY DEF ChatInv, ChatTyped, ChatRest
<1>2. TasksTyped' /\ ToServerTyped' /\ \A f \in FormIds : ReplyUnderWay(f)' => ReplyUnderWay(f)
  BY <1>1, NoNewReply DEF TasksKept, ToServerKept
<1>3. Background
  BY <1>2 DEF Background, SamePage
<1>4. ChatRest' /\ ToPageTyped'
  BY <1>1, <1>3, BackgroundKeepsRest
<1> QED BY <1>2, <1>4 DEF ChatInv, ChatTyped, ChatRest

LEMMA SameConn == ASSUME ConnTyped, conn' = conn PROVE ConnTyped' /\ ConnKept
BY DEF ConnTyped, ConnKept

LEMMA SameCluster == ASSUME ClusterTyped, cluster' = cluster PROVE ClusterTyped'
BY DEF ClusterTyped

LEMMA SamePageTyped == ASSUME PageTyped, page' = page PROVE PageTyped' /\ SamePage
BY DEF PageTyped, SamePage

LEMMA connectKeeps == ASSUME ChatInv, BeforeMount, connect PROVE ChatInv'
<1>1. PageTyped' /\ SamePage
  <2>1. PICK c : page' = [page EXCEPT !.cell = c]
    BY DEF connect
  <2> QED BY <2>1 DEF PageTyped, SamePage, ChatInv, ChatTyped
<1>2. ConnTyped' /\ ConnKept
  <2>1. CASE conn' = conn
    BY <2>1, SameConn DEF ChatInv, ChatTyped
  <2>2. CASE conn' = [conn EXCEPT !.open = TRUE]
    <3>1. ConnTyped /\ conn.streamed = {}
      BY DEF connect, BeforeMount, ChatInv, ChatTyped
    <3> QED BY <2>2, <3>1 DEF ConnTyped, ConnKept
  <2> QED BY <2>1, <2>2 DEF connect
<1> QED BY <1>1, <1>2, BackgroundStep, SameCluster, TasksUnchanged, SameToServer
        DEF connect, ChatInv, ChatTyped, ToPageMoves

(* The loop of serve ends with its registry and what was under way. *)
LEMMA serve_endsKeeps == ASSUME ChatInv, serve_ends PROVE ChatInv'
<1>0. ChatTyped
  BY DEF ChatInv
<1>1. /\ UNCHANGED <<page, spawned, cluster>> /\ toServer' = <<>>
      /\ conn' = [conn EXCEPT !.open = FALSE, !.registry = {}]
  BY DEF serve_ends
<1>2. ConnTyped' /\ ConnKept
  BY <1>0, <1>1 DEF ChatTyped, ConnTyped, ConnKept
<1>3. ToServerKept
  <2>1. <<>> \in Seq({}) /\ DOMAIN <<>> = {}
    OBVIOUS
  <2>2. Among(toServer', toServer, {})
    BY <1>1, <2>1, OverOwnElements DEF Among
  <2> QED BY <2>2 DEF ToServerKept
<1>4. ToPageMoves
  BY DEF serve_ends, ToPageMoves
<1> QED BY <1>0, <1>1, <1>2, <1>3, <1>4, BackgroundStep, SamePageTyped, SameCluster, TasksUnchanged
        DEF ChatTyped

LEMMA takeKeeps == ASSUME ChatInv, NEW i \in DOMAIN spawned, take(i) PROVE ChatInv'
<1>1. PageTyped' /\ SamePage
  BY DEF take, PageTyped, SamePage, ChatInv, ChatTyped
<1>2. TasksKept
  <2>1. CASE page.cell = "full"
    <3> DEFINE t == [spawned[i] EXCEPT !.holds = TRUE]
    <3>1. spawned' = [spawned EXCEPT ![i] = t]
      BY <2>1 DEF take
    <3>2. IsTask(spawned[i]) /\ spawned[i].op = "send"
      BY DEF take, ChatInv, ChatTyped, TasksTyped
    <3>3. t.op = "send" /\ t.messages = spawned[i].messages /\ DOMAIN t = DOMAIN spawned[i]
      BY <3>2 DEF IsTask, IsSend
    <3> HIDE DEF t
    <3>4. \A k \in DOMAIN t.messages : OldReply(t.messages[k])
      BY <3>2, <3>3 DEF IsTask, IsSend, OldReply, ReplyUnderWay, Replies
    <3>5. OldTask(t)
      BY <3>2, <3>3, <3>4 DEF OldTask, IsTask, IsSend, IsCall
    <3> QED BY <3>1, <3>5, NextTask DEF ChatInv, ChatTyped
  <2>2. CASE page.cell # "full"
    BY <2>2, TaskDone DEF take, ChatInv, ChatTyped
  <2> QED BY <2>1, <2>2
<1> QED BY <1>1, <1>2, BackgroundStep, SameConn, SameCluster, SameToServer
        DEF take, ChatInv, ChatTyped, ToPageMoves

LEMMA sendKeeps == ASSUME ChatInv, NEW i \in DOMAIN spawned, send(i) PROVE ChatInv'
<1> DEFINE messages == spawned[i].messages
<1>0. PageTyped /\ TasksTyped /\ ToServerTyped /\ IsTask(spawned[i]) /\ spawned[i].op = "send"
  BY DEF send, ChatInv, ChatTyped, TasksTyped
<1>1. PageTyped' /\ SamePage
  BY <1>0 DEF send, PageTyped, SamePage
<1>2. messages \in Seq(ToSet(messages)) /\ messages # <<>>
  BY <1>0 DEF IsTask, IsSend, IsSequence
<1>3. \A k \in DOMAIN messages : OldReply(messages[k])
  BY <1>0 DEF IsTask, IsSend, OldReply, ReplyUnderWay, Replies
<1>4. TasksKept
  <2>1. CASE Len(messages) = 1
    BY <1>0, <2>1, TaskDone DEF send
  <2>2. CASE Len(messages) # 1
    <3> DEFINE t == [spawned[i] EXCEPT !.messages = Tail(messages)]
    <3>1. spawned' = [spawned EXCEPT ![i] = t]
      BY <2>2 DEF send
    <3>2. t.op = "send" /\ t.messages = Tail(messages) /\ DOMAIN t = DOMAIN spawned[i]
      BY <1>0 DEF IsTask, IsSend
    <3> HIDE DEF t, messages
    <3>3. Among(Tail(messages), messages, {})
      BY <1>2, AmongTail DEF IsSequence
    <3>6. Tail(messages) # <<>>
      BY <1>2, <2>2, MoreThanOne
    <3>4. \A k \in DOMAIN t.messages : OldReply(t.messages[k])
      BY <1>3, <3>2, <3>3 DEF Among
    <3>5. IsTask(t)
      BY <1>0, <3>2, <3>3, <3>4, <3>6 DEF IsTask, IsSend, IsCall, OldReply, Among
    <3> QED BY <1>0, <3>1, <3>2, <3>4, <3>5, NextTask DEF OldTask
  <2> QED BY <2>1, <2>2
<1>5. ToServerKept
  <2>1. CASE toServer' = toServer
    BY <1>0, <2>1, SameToServer
  <2>2. CASE toServer' = Append(toServer, Head(messages))
    <3>1. OldReply(Head(messages))
      BY <1>2, <1>3
    <3>2. Among(toServer', toServer, {Head(messages)})
      BY <1>0, <2>2, AmongAppend DEF ToServerTyped
    <3> QED BY <3>1, <3>2 DEF ToServerKept
  <2> QED BY <2>1, <2>2 DEF send
<1>6. UNCHANGED <<toPage, conn, cluster>>
  BY DEF send
<1> QED BY <1>1, <1>4, <1>5, <1>6, BackgroundStep, SameConn, SameCluster
        DEF ChatInv, ChatTyped, ToPageMoves

-----------------------------------------------------------------------------
(* Messages that reach the page *)

LEMMA TasksOfMessage == ASSUME ChatInv, on_message PROVE TasksKept
<1>1. CASE spawned' = spawned
  BY <1>1, TasksUnchanged DEF ChatInv, ChatTyped
<1>2. CASE spawned' = Spawn(Sending(<<[type |-> "GetFrame", session |-> Head(toPage).session]>>))
  <2> DEFINE m == [type |-> "GetFrame", session |-> Head(toPage).session]
  <2>1. m.type \notin {"HitlAnswer", "SubscribeSession"}
    OBVIOUS
  <2>2. spawned' = Spawn(Sending(<<m>>))
    BY <1>2
  <2> HIDE DEF m
  <2>3. OldTask(Sending(<<m>>))
    BY <2>1, PlainSending
  <2> QED BY <2>2, <2>3, SpawnedTask DEF ChatInv, ChatTyped
<1> QED BY <1>1, <1>2 DEF on_message

LEMMA LineShown ==
  ASSUME ChatInv, on_message, Head(toPage).type = "LogAppended", Ours(Head(toPage).session)
  PROVE  ChatInv'
<1> DEFINE m == Head(toPage)
           line == [session |-> m.session, n |-> m.n]
<1>0. ChatTyped /\ ChatRest
  BY DEF ChatInv, ChatRest
<1>1. toPage \in Seq(ToSet(toPage)) /\ toPage # <<>> /\ toPage' = Tail(toPage)
  BY <1>0 DEF on_message, ChatTyped, ToPageTyped, IsSequence
<1>2. 1 \in DOMAIN toPage /\ m = toPage[1]
  BY <1>1
<1>3. m.type = "LogAppended" /\ m.session \in Sessions /\ m.n \in Nat /\ m.session = page.current
  BY <1>0, <1>2 DEF ChatTyped, ToPageTyped, IsServerMessage, Ours
<1>4. page' = [page EXCEPT !.logs = Append(@, line)] /\ UNCHANGED <<toServer, conn, cluster>>
  BY <1>3 DEF on_message, log_appended, Ours
<1> HIDE DEF m
<1>5. line \in JournalLine /\ line.session = m.session /\ line.n = m.n
  BY <1>3 DEF JournalLine
<1> HIDE DEF line
<1>6. /\ DOMAIN page' = DOMAIN page /\ page'.logs = Append(page.logs, line)
      /\ page'.pending = page.pending /\ page'.answers = page.answers
      /\ page'.current = page.current
  BY <1>0, <1>4 DEF ChatTyped, PageTyped
<1>7. PageTyped'
  BY <1>0, <1>5, <1>6 DEF ChatTyped, PageTyped
<1>8. TasksKept /\ ToServerKept
  BY <1>0, <1>4, TasksOfMessage, SameToServer DEF ChatTyped
<1>9. TasksTyped' /\ ToServerTyped' /\ \A f \in FormIds : ReplyUnderWay(f)' => ReplyUnderWay(f)
  BY <1>0, <1>8, NoNewReply DEF TasksKept, ToServerKept, ChatTyped
<1>10. ToPageMoves
  BY <1>1 DEF ToPageMoves
<1>11. ToPageTyped'
  BY <1>0, <1>10, ToPageKeepsOrder DEF ChatTyped
<1>12. /\ \A f \in FormIds : Requested(f)' => Requested(f)
       /\ \A j, k \in DOMAIN toPage' :
            toPage'[j].type = "HitlRequest" /\ toPage'[j] = toPage'[k] => j = k
  BY <1>0, <1>10, FewerRequests DEF ChatTyped, ChatRest
<1>13. OnePlace' /\ NoDuplicates' /\ TypedForFirst'
  <2>1. \A f \in FormIds : InQueue(f)' <=> InQueue(f)
    BY <1>6 DEF InQueue
  <2>2. OnePlace'
    BY <1>0, <1>4, <1>9, <1>12, <2>1 DEF OnePlace, ChatRest
  <2> QED BY <1>0, <1>6, <1>12, <2>2 DEF NoDuplicates, TypedForFirst, ChatRest
<1>14. InOrder'
  <2>1. /\ page.logs \in Seq(JournalLine) /\ DOMAIN page'.logs = 1..(Len(page.logs) + 1)
        /\ Len(page.logs) \in Nat
        /\ \A k \in DOMAIN page'.logs : page'.logs[k] =
             IF k \in DOMAIN page.logs THEN page.logs[k] ELSE line
        /\ \A k \in DOMAIN page'.logs : k \notin DOMAIN page.logs => k = Len(page.logs) + 1
        /\ DOMAIN page.logs = 1..Len(page.logs)
    BY <1>0, <1>5, <1>6 DEF ChatTyped, PageTyped
  <2>2. \A k \in DOMAIN toPage' : k \in Nat \ {0} /\ k + 1 \in DOMAIN toPage /\ toPage'[k] = toPage[k + 1]
    BY <1>1
  <2>3. \A k \in DOMAIN page.logs : page.logs[k].n < line.n /\ page.logs[k].session = page.current
    BY <1>0, <1>2, <1>3, <1>5 DEF ChatRest, InOrder, LineOf
  <2>4. line.n <= cluster.logs[page.current]
    BY <1>0, <1>2, <1>3, <1>5 DEF ChatRest, InOrder
  <2>5. \A k \in DOMAIN page'.logs : page'.logs[k].session = page'.current
                                   /\ page'.logs[k].n <= cluster'.logs[page'.current]
    BY <1>0, <1>3, <1>4, <1>5, <1>6, <2>1, <2>3, <2>4 DEF ChatRest, InOrder
  <2>6. \A j, k \in DOMAIN page'.logs : j < k => page'.logs[j].n < page'.logs[k].n
    <3> SUFFICES ASSUME NEW j \in DOMAIN page'.logs, NEW k \in DOMAIN page'.logs, j < k
                 PROVE  page'.logs[j].n < page'.logs[k].n
      OBVIOUS
    <3>1. j \in DOMAIN page.logs
      BY <2>1
    <3>2. CASE k \in DOMAIN page.logs
      BY <1>0, <2>1, <3>1, <3>2 DEF ChatRest, InOrder
    <3>3. CASE k \notin DOMAIN page.logs
      BY <2>1, <2>3, <3>1, <3>3
    <3> QED BY <3>2, <3>3
  <2>7. \A k \in DOMAIN toPage' : toPage'[k].type = "LogAppended" =>
          toPage'[k].n <= cluster'.logs[toPage'[k].session]
    BY <1>0, <1>4, <2>2 DEF ChatRest, InOrder
  <2>8. \A j, k \in DOMAIN toPage' :
          j < k /\ toPage'[j].type = "LogAppended" /\ LineOf(toPage'[k], toPage'[j].session) =>
            toPage'[j].n < toPage'[k].n
    <3> SUFFICES ASSUME NEW j \in DOMAIN toPage', NEW k \in DOMAIN toPage', j < k,
                        toPage'[j].type = "LogAppended", LineOf(toPage'[k], toPage'[j].session)
                 PROVE  toPage'[j].n < toPage'[k].n
      OBVIOUS
    <3>1. j + 1 < k + 1
      BY <2>2
    <3> QED BY <1>0, <2>2, <3>1 DEF ChatRest, InOrder
  <2>9. \A j \in DOMAIN page'.logs, k \in DOMAIN toPage' :
          LineOf(toPage'[k], page'.logs[j].session) => page'.logs[j].n < toPage'[k].n
    <3> SUFFICES ASSUME NEW j \in DOMAIN page'.logs, NEW k \in DOMAIN toPage',
                        LineOf(toPage'[k], page'.logs[j].session)
                 PROVE  page'.logs[j].n < toPage'[k].n
      OBVIOUS
    <3>1. CASE j \in DOMAIN page.logs
      BY <1>0, <2>1, <2>2, <3>1 DEF ChatRest, InOrder
    <3>2. CASE j \notin DOMAIN page.logs
      <4>1. page'.logs[j] = line
        BY <2>1, <3>2
      <4>2. 1 < k + 1 /\ k + 1 \in DOMAIN toPage /\ toPage'[k] = toPage[k + 1]
        BY <2>2
      <4>3. toPage[1].type = "LogAppended" /\ LineOf(toPage[k + 1], toPage[1].session)
        BY <1>2, <1>3, <1>5, <4>1, <4>2
      <4>4. toPage[1].n < toPage[k + 1].n
        BY <1>0, <1>2, <4>2, <4>3 DEF ChatRest, InOrder
      <4> QED BY <1>2, <1>5, <4>1, <4>2, <4>4
    <3> QED BY <3>1, <3>2
  <2> QED BY <2>5, <2>6, <2>7, <2>8, <2>9 DEF InOrder
<1>15. ConnTyped' /\ ClusterTyped'
  BY <1>0, <1>4, SameConn, SameCluster DEF ChatTyped
<1> QED BY <1>7, <1>9, <1>11, <1>13, <1>14, <1>15 DEF ChatInv, ChatTyped

LEMMA FormQueued ==
  ASSUME ChatInv, on_message, Head(toPage).type = "HitlRequest",
         Head(toPage).form \notin ToSet(page.pending)
  PROVE  ChatInv'
<1> DEFINE m == Head(toPage)
<1>0. ChatTyped /\ ChatRest
  BY DEF ChatInv, ChatRest
<1>1. toPage \in Seq(ToSet(toPage)) /\ toPage # <<>> /\ toPage' = Tail(toPage)
  BY <1>0 DEF on_message, ChatTyped, ToPageTyped, IsSequence
<1>2. 1 \in DOMAIN toPage /\ m = toPage[1]
  BY <1>1
<1>3. PICK g \in FormIds : m.type = "HitlRequest" /\ m.form = g /\ m = Request(g)
  BY <1>0, <1>2 DEF ChatTyped, ToPageTyped, IsServerMessage
<1>4. page' = [page EXCEPT !.pending = Append(@, g)] /\ UNCHANGED <<toServer, conn, cluster>>
  BY <1>3 DEF on_message, hitl_request
<1>5. ~InQueue(g) /\ Requested(g)
  BY <1>2, <1>3 DEF InQueue, Requested, ToSet
<1> HIDE DEF m
<1>6. /\ DOMAIN page' = DOMAIN page /\ page'.pending = Append(page.pending, g)
      /\ page'.logs = page.logs /\ page'.answers = page.answers
      /\ page'.current = page.current
  BY <1>0, <1>4 DEF ChatTyped, PageTyped
<1>7. PageTyped'
  BY <1>0, <1>3, <1>6 DEF ChatTyped, PageTyped
<1>8. TasksKept /\ ToServerKept
  BY <1>0, <1>4, TasksOfMessage, SameToServer DEF ChatTyped
<1>9. TasksTyped' /\ ToServerTyped' /\ \A f \in FormIds : ReplyUnderWay(f)' => ReplyUnderWay(f)
  BY <1>0, <1>8, NoNewReply DEF TasksKept, ToServerKept, ChatTyped
<1>10. ToPageMoves
  BY <1>1 DEF ToPageMoves
<1>11. ToPageTyped'
  BY <1>0, <1>10, ToPageKeepsOrder DEF ChatTyped
<1>12. /\ \A f \in FormIds : Requested(f)' => Requested(f)
       /\ \A j, k \in DOMAIN toPage' :
            toPage'[j].type = "HitlRequest" /\ toPage'[j] = toPage'[k] => j = k
  BY <1>0, <1>10, FewerRequests DEF ChatTyped, ChatRest
<1>13. /\ page.pending \in Seq(FormIds) /\ Len(page.pending) \in Nat
       /\ DOMAIN page.pending = 1..Len(page.pending)
       /\ DOMAIN page'.pending = 1..(Len(page.pending) + 1)
       /\ \A k \in DOMAIN page.pending : page'.pending[k] = page.pending[k]
       /\ page'.pending[Len(page.pending) + 1] = g
  BY <1>0, <1>3, <1>6 DEF ChatTyped, PageTyped
<1>14. ~Requested(g)'
  <2> SUFFICES ASSUME NEW k \in DOMAIN toPage', toPage'[k] = Request(g) PROVE FALSE
    BY DEF Requested
  <2>1. k \in Nat \ {0} /\ k + 1 \in DOMAIN toPage /\ toPage[k + 1] = Request(g)
    BY <1>1
  <2>2. toPage[1] = Request(g) /\ toPage[1].type = "HitlRequest"
    BY <1>2, <1>3
  <2>3. k + 1 = 1
    BY <1>0, <1>2, <2>1, <2>2 DEF ChatRest, NoDuplicates
  <2> QED BY <2>1, <2>3
<1>15. \A f \in FormIds : InQueue(f)' <=> InQueue(f) \/ f = g
  <2>1. \A k \in DOMAIN page'.pending : k \in DOMAIN page.pending \/ k = Len(page.pending) + 1
    BY <1>13
  <2>2. \A k \in DOMAIN page.pending : k \in DOMAIN page'.pending
    BY <1>13
  <2>3. Len(page.pending) + 1 \in DOMAIN page'.pending
    BY <1>13
  <2> QED BY <1>13, <2>1, <2>2, <2>3 DEF InQueue
<1>16. OnePlace'
  <2>1. conn' = conn
    BY <1>4
  <2> QED BY <1>0, <1>3, <1>5, <1>9, <1>12, <1>14, <1>15, <2>1 DEF OnePlace, ChatRest
<1>17. NoDuplicates'
  <2>1. ASSUME NEW j \in DOMAIN page'.pending, NEW k \in DOMAIN page'.pending,
               page'.pending[j] = page'.pending[k]
        PROVE  j = k
    <3>1. \A i \in DOMAIN page'.pending :
            (i \in DOMAIN page.pending /\ page'.pending[i] = page.pending[i]) \/ i = Len(page.pending) + 1
      BY <1>13
    <3>2. \A i \in DOMAIN page.pending : page.pending[i] # g
      BY <1>5 DEF InQueue
    <3> QED BY <1>0, <1>13, <2>1, <3>1, <3>2 DEF ChatRest, NoDuplicates
  <2> QED BY <2>1, <1>12 DEF NoDuplicates
<1>18. TypedForFirst'
  <2>1. page.pending # <<>> => page'.pending # <<>> /\ Head(page'.pending) = Head(page.pending)
    BY <1>3, <1>6, <1>13
  <2> QED BY <1>0, <1>6, <2>1 DEF ChatRest, TypedForFirst
<1>19. InOrder'
  BY <1>0, <1>4, <1>6, <1>10, LinesKeepOrder DEF ChatTyped, ChatRest
<1>20. ConnTyped' /\ ClusterTyped'
  BY <1>0, <1>4, SameConn, SameCluster DEF ChatTyped
<1> QED BY <1>7, <1>9, <1>11, <1>16, <1>17, <1>18, <1>19, <1>20 DEF ChatInv, ChatTyped

LEMMA on_messageKeeps == ASSUME ChatInv, on_message PROVE ChatInv'
<1> DEFINE m == Head(toPage)
<1>1. CASE m.type = "LogAppended" /\ Ours(m.session)
  BY <1>1, LineShown
<1>2. CASE m.type = "HitlRequest" /\ m.form \notin ToSet(page.pending)
  BY <1>2, FormQueued
<1>3. CASE /\ ~(m.type = "LogAppended" /\ Ours(m.session))
           /\ ~(m.type = "HitlRequest" /\ m.form \notin ToSet(page.pending))
  <2>1. \/ page' = page
        \/ \E v : page' = [page EXCEPT !.vars = v]
        \/ \E v : page' = [page EXCEPT !.mode = v]
        \/ \E v : page' = [page EXCEPT !.frames = v]
    BY <1>3 DEF on_message, log_appended, value_changed, mode_changed, hitl_request
  <2>2. PageTyped' /\ SamePage
    BY <2>1 DEF ChatInv, ChatTyped, PageTyped, SamePage
  <2>3. toPage # <<>> /\ toPage' = Tail(toPage) /\ UNCHANGED <<toServer, conn, cluster>>
    BY DEF on_message
  <2> QED BY <2>2, <2>3, BackgroundStep, TasksOfMessage, SameToServer, SameConn, SameCluster
          DEF ChatInv, ChatTyped, ToPageMoves
<1> QED BY <1>1, <1>2, <1>3

-----------------------------------------------------------------------------
(* The server's end *)

(* What a push does to the messages under way. *)
LEMMA Pushed ==
  ASSUME ToPageTyped, NEW m, IsServerMessage(m), toPage' = Append(toPage, m)
  PROVE  /\ ToPageTyped'
         /\ DOMAIN toPage = 1..Len(toPage) /\ Len(toPage) \in Nat
         /\ DOMAIN toPage' = 1..(Len(toPage) + 1)
         /\ \A k \in DOMAIN toPage : toPage'[k] = toPage[k]
         /\ toPage'[Len(toPage) + 1] = m
<1>1. Among(toPage', toPage, {m})
  BY AmongAppend DEF ToPageTyped
<1>2. ToPageTyped'
  BY <1>1 DEF ToPageTyped, Among
<1> DEFINE X == ToSet(toPage) \cup {m}
<1>3. toPage \in Seq(X) /\ m \in X
  BY DEF ToPageTyped, IsSequence, ToSet
<1> HIDE DEF X
<1> QED BY <1>2, <1>3

LEMMA async_stream_hitlKeeps == ASSUME ChatInv, async_stream_hitl PROVE ChatInv'
<1>0. ChatTyped /\ ChatRest
  BY DEF ChatInv, ChatRest
<1>1. PICK g \in FormIds : g \notin conn.streamed /\ Forward(g, {g})
  BY DEF async_stream_hitl
<1>2. /\ toPage' = Append(toPage, Request(g)) /\ UNCHANGED <<page, spawned, toServer, cluster>>
      /\ conn' = [conn EXCEPT !.streamed = @ \cup {g}, !.registry = @ \cup {g}]
  BY <1>1 DEF Forward, Push, Request
<1> DEFINE m == Request(g)
<1>3. m.type = "HitlRequest" /\ m.form = g /\ IsServerMessage(m)
  BY DEF Request, IsServerMessage
<1>4. \A f : m = Request(f) => f = g
  BY DEF Request
<1> HIDE DEF m
<1>6. /\ ToPageTyped'
      /\ DOMAIN toPage = 1..Len(toPage) /\ Len(toPage) \in Nat
      /\ DOMAIN toPage' = 1..(Len(toPage) + 1)
      /\ \A k \in DOMAIN toPage : toPage'[k] = toPage[k]
      /\ toPage'[Len(toPage) + 1] = m
  BY <1>0, <1>2, <1>3, Pushed DEF ChatTyped, m
<1>7. \A k \in DOMAIN toPage' :
        \/ k \in DOMAIN toPage /\ toPage'[k] = toPage[k]
        \/ k = Len(toPage) + 1 /\ toPage'[k] = m
  BY <1>6
<1>8. /\ ConnTyped' /\ conn'.streamed = conn.streamed \cup {g}
      /\ conn'.registry = conn.registry \cup {g} /\ conn'.open = conn.open
  BY <1>0, <1>1, <1>2 DEF ChatTyped, ConnTyped
<1>9. ~InQueue(g) /\ ~Requested(g) /\ ~ReplyUnderWay(g)
  BY <1>0, <1>1 DEF ChatRest, OnePlace
<1>10. \A f \in FormIds : (InQueue(f)' <=> InQueue(f)) /\ (ReplyUnderWay(f)' <=> ReplyUnderWay(f))
  BY <1>2 DEF InQueue, ReplyUnderWay, Replies
<1>11. \A f \in FormIds : Requested(f)' => Requested(f) \/ f = g
  BY <1>4, <1>7 DEF Requested
<1>12. OnePlace'
  BY <1>0, <1>1, <1>8, <1>9, <1>10, <1>11 DEF ChatRest, OnePlace
<1>13. NoDuplicates'
  <2>1. ASSUME NEW j \in DOMAIN toPage', NEW k \in DOMAIN toPage',
               toPage'[j].type = "HitlRequest", toPage'[j] = toPage'[k]
        PROVE  j = k
    <3>1. \A i \in DOMAIN toPage : toPage[i] # m
      BY <1>9 DEF Requested, m
    <3> QED BY <1>0, <1>7, <2>1, <3>1 DEF ChatRest, NoDuplicates
  <2> QED BY <1>0, <1>2, <2>1 DEF ChatRest, NoDuplicates
<1>14. TypedForFirst'
  BY <1>0, <1>2 DEF ChatRest, TypedForFirst
<1>15. InOrder'
  <2>1. \A k \in DOMAIN toPage' : toPage'[k].type = "LogAppended" =>
                                     k \in DOMAIN toPage /\ toPage'[k] = toPage[k]
    BY <1>3, <1>7
  <2> QED BY <1>0, <1>2, <2>1 DEF ChatRest, InOrder, LineOf
<1>16. PageTyped' /\ TasksTyped' /\ ToServerTyped' /\ ClusterTyped'
  BY <1>0, <1>2 DEF ChatTyped, PageTyped, TasksTyped, ToServerTyped, ClusterTyped
<1> QED BY <1>6, <1>8, <1>12, <1>13, <1>14, <1>15, <1>16 DEF ChatInv, ChatTyped

(* The line that comes is the newest of its session. *)
LEMMA LinePushed ==
  ASSUME ChatInv, NEW s \in Sessions, UNCHANGED <<page, spawned, toServer, conn>>,
         cluster' = [cluster EXCEPT !.logs[s] = @ + 1],
         Push([type |-> "LogAppended", session |-> s, n |-> cluster.logs[s] + 1])
  PROVE  ChatInv'
<1> DEFINE m == [type |-> "LogAppended", session |-> s, n |-> cluster.logs[s] + 1]
<1>0. ChatTyped /\ ChatRest
  BY DEF ChatInv, ChatRest
<1>1. toPage' = Append(toPage, m)
  BY DEF Push
<1>2. cluster.logs \in [Sessions -> Nat] /\ cluster.logs[s] \in Nat
  BY <1>0 DEF ChatTyped, ClusterTyped
<1>3. /\ m.type = "LogAppended" /\ m.session = s /\ m.n = cluster.logs[s] + 1 /\ m.n \in Nat
      /\ IsServerMessage(m)
  BY <1>2 DEF IsServerMessage
<1> HIDE DEF m
<1>4. /\ ToPageTyped'
      /\ DOMAIN toPage = 1..Len(toPage) /\ Len(toPage) \in Nat
      /\ DOMAIN toPage' = 1..(Len(toPage) + 1)
      /\ \A k \in DOMAIN toPage : toPage'[k] = toPage[k]
      /\ toPage'[Len(toPage) + 1] = m
  BY <1>0, <1>1, <1>3, Pushed DEF ChatTyped
<1>5. \A k \in DOMAIN toPage' :
        \/ k \in DOMAIN toPage /\ toPage'[k] = toPage[k]
        \/ k = Len(toPage) + 1 /\ toPage'[k] = m
  BY <1>4
<1>6. /\ DOMAIN cluster' = DOMAIN cluster /\ cluster'.answered = cluster.answered
      /\ cluster'.logs = [cluster.logs EXCEPT ![s] = @ + 1]
  BY <1>0 DEF ChatTyped, ClusterTyped
<1>7. cluster'.logs \in [Sessions -> Nat] /\ cluster'.logs[s] = cluster.logs[s] + 1
      /\ \A t \in Sessions : cluster.logs[t] \in Nat /\ cluster.logs[t] <= cluster'.logs[t]
                               /\ (t # s => cluster'.logs[t] = cluster.logs[t])
  BY <1>2, <1>6
<1>8. ClusterTyped'
  BY <1>0, <1>6, <1>7 DEF ChatTyped, ClusterTyped
<1>9. /\ \A f \in FormIds : Requested(f)' => Requested(f)
      /\ \A j, k \in DOMAIN toPage' :
           toPage'[j].type = "HitlRequest" /\ toPage'[j] = toPage'[k] => j = k
  BY <1>0, <1>3, <1>5 DEF ChatRest, NoDuplicates, Requested, Request
<1>10. \A f \in FormIds : (InQueue(f)' <=> InQueue(f)) /\ (ReplyUnderWay(f)' <=> ReplyUnderWay(f))
  BY DEF InQueue, ReplyUnderWay, Replies
<1>11. OnePlace' /\ NoDuplicates' /\ TypedForFirst'
  BY <1>0, <1>9, <1>10 DEF ChatRest, OnePlace, NoDuplicates, TypedForFirst
<1>12. InOrder'
  <2>1. \A k \in DOMAIN page.logs : page.logs[k] \in JournalLine /\ page.logs[k].n \in Nat
                                      /\ page.logs[k].session \in Sessions
    <3>1. \A k \in DOMAIN page.logs : page.logs[k] \in JournalLine
      BY <1>0 DEF ChatTyped, PageTyped
    <3> QED BY <3>1 DEF JournalLine
  <2>2. \A k \in DOMAIN toPage : toPage[k].type = "LogAppended" =>
                                   toPage[k].session \in Sessions /\ toPage[k].n \in Nat
    BY <1>0 DEF ChatTyped, ToPageTyped, IsServerMessage
  <2>3. \A k \in DOMAIN page'.logs : page'.logs[k].session = page'.current
                                   /\ page'.logs[k].n <= cluster'.logs[page'.current]
    BY <1>0, <1>7, <2>1 DEF ChatRest, InOrder
  <2>4. \A j, k \in DOMAIN page'.logs : j < k => page'.logs[j].n < page'.logs[k].n
    BY <1>0 DEF ChatRest, InOrder
  <2>5. \A k \in DOMAIN toPage' : toPage'[k].type = "LogAppended" =>
          toPage'[k].n <= cluster'.logs[toPage'[k].session]
    <3> SUFFICES ASSUME NEW k \in DOMAIN toPage', toPage'[k].type = "LogAppended"
                 PROVE  toPage'[k].n <= cluster'.logs[toPage'[k].session]
      OBVIOUS
    <3>1. CASE k \in DOMAIN toPage /\ toPage'[k] = toPage[k]
      <4>1. toPage[k].n <= cluster.logs[toPage[k].session]
        BY <1>0, <3>1 DEF ChatRest, InOrder
      <4> QED BY <1>7, <2>2, <3>1, <4>1
    <3>2. CASE toPage'[k] = m
      BY <1>2, <1>3, <1>7, <3>2
    <3> QED BY <1>5, <3>1, <3>2
  <2>6. \A j, k \in DOMAIN toPage' :
          j < k /\ toPage'[j].type = "LogAppended" /\ LineOf(toPage'[k], toPage'[j].session) =>
            toPage'[j].n < toPage'[k].n
    <3> SUFFICES ASSUME NEW j \in DOMAIN toPage', NEW k \in DOMAIN toPage', j < k,
                        toPage'[j].type = "LogAppended", LineOf(toPage'[k], toPage'[j].session)
                 PROVE  toPage'[j].n < toPage'[k].n
      OBVIOUS
    <3>1. j \in DOMAIN toPage /\ toPage'[j] = toPage[j]
      BY <1>4, <1>5
    <3>2. CASE k \in DOMAIN toPage /\ toPage'[k] = toPage[k]
      BY <1>0, <3>1, <3>2 DEF ChatRest, InOrder
    <3>3. CASE toPage'[k] = m
      <4>1. toPage[j].n <= cluster.logs[s] /\ toPage[j].n \in Nat
        BY <1>0, <1>3, <2>2, <3>1, <3>3 DEF ChatRest, InOrder, LineOf
      <4> QED BY <1>2, <1>3, <3>1, <3>3, <4>1
    <3> QED BY <1>5, <3>2, <3>3
  <2>7. \A j \in DOMAIN page'.logs, k \in DOMAIN toPage' :
          LineOf(toPage'[k], page'.logs[j].session) => page'.logs[j].n < toPage'[k].n
    <3> SUFFICES ASSUME NEW j \in DOMAIN page.logs, NEW k \in DOMAIN toPage',
                        LineOf(toPage'[k], page.logs[j].session)
                 PROVE  page.logs[j].n < toPage'[k].n
      OBVIOUS
    <3>1. CASE k \in DOMAIN toPage /\ toPage'[k] = toPage[k]
      BY <1>0, <3>1 DEF ChatRest, InOrder
    <3>2. CASE toPage'[k] = m
      <4>1. page.logs[j].session = s
        BY <1>3, <3>2 DEF LineOf
      <4>2. page.logs[j].n <= cluster.logs[s]
        BY <1>0, <4>1 DEF ChatRest, InOrder
      <4> QED BY <1>2, <1>3, <2>1, <3>2, <4>2
    <3> QED BY <1>5, <3>1, <3>2
  <2> QED BY <2>3, <2>4, <2>5, <2>6, <2>7 DEF InOrder
<1>13. PageTyped' /\ TasksTyped' /\ ToServerTyped' /\ ConnTyped'
  BY <1>0 DEF ChatTyped, PageTyped, TasksTyped, ToServerTyped, ConnTyped
<1> QED BY <1>4, <1>8, <1>11, <1>12, <1>13 DEF ChatInv, ChatTyped

(* What dispatch, the events and the server functions leave of the cluster. *)
ClusterKept ==
  DOMAIN cluster' = DOMAIN cluster /\ cluster'.logs = cluster.logs /\ cluster'.answered = cluster.answered

LEMMA KeptCluster == ASSUME ClusterTyped, ClusterKept PROVE ClusterTyped'
BY DEF ClusterTyped, ClusterKept

LEMMA session_eventKeeps == ASSUME ChatInv, session_event PROVE ChatInv'
<1>1. PICK s \in conn.acquired :
       \/ /\ cluster' = [cluster EXCEPT !.logs[s] = @ + 1]
          /\ Push([type |-> "LogAppended", session |-> s, n |-> cluster.logs[s] + 1])
       \/ \E type \in {"ValueChanged", "ValueRemoved"} :
            /\ cluster' = [cluster EXCEPT !.vars[s] = @ + 1]
            /\ Push([type |-> type, session |-> s, n |-> cluster.vars[s] + 1])
       \/ Push([type |-> "ModeChanged", session |-> s]) /\ UNCHANGED cluster
       \/ Push([type |-> "FrameStatusChanged", session |-> s]) /\ UNCHANGED cluster
  BY DEF session_event
<1>2. s \in Sessions /\ UNCHANGED <<page, spawned, toServer, conn>>
  BY DEF session_event, ChatInv, ChatTyped, ConnTyped
<1>3. CASE /\ cluster' = [cluster EXCEPT !.logs[s] = @ + 1]
           /\ Push([type |-> "LogAppended", session |-> s, n |-> cluster.logs[s] + 1])
  BY <1>2, <1>3, LinePushed
<1>4. CASE /\ \/ Push([type |-> "ModeChanged", session |-> s])
              \/ Push([type |-> "FrameStatusChanged", session |-> s])
           /\ UNCHANGED cluster
  <2>1. \E m : Plain(m) /\ toPage' = Append(toPage, m)
    BY <1>4 DEF Push, Plain
  <2> QED BY <1>2, <1>4, <2>1, BackgroundStep, SamePageTyped, SameConn, SameCluster, TasksUnchanged,
             SameToServer DEF ChatInv, ChatTyped, ToPageMoves
<1>5. ASSUME NEW type \in {"ValueChanged", "ValueRemoved"},
             cluster' = [cluster EXCEPT !.vars[s] = @ + 1],
             Push([type |-> type, session |-> s, n |-> cluster.vars[s] + 1])
      PROVE  ChatInv'
  <2>1. ClusterKept
    BY <1>5 DEF ChatInv, ChatTyped, ClusterTyped, ClusterKept
  <2>2. ClusterTyped' /\ cluster'.logs = cluster.logs
    BY <2>1, KeptCluster DEF ChatInv, ChatTyped, ClusterKept
  <2>3. \E m : Plain(m) /\ toPage' = Append(toPage, m)
    BY <1>5 DEF Push, Plain
  <2> QED BY <1>2, <2>2, <2>3, BackgroundStep, SamePageTyped, SameConn, TasksUnchanged,
             SameToServer DEF ChatInv, ChatTyped, ToPageMoves
<1> QED BY <1>1, <1>3, <1>4, <1>5

LEMMA ToServerTail ==
  ASSUME ToServerTyped, toServer # <<>>, toServer' = Tail(toServer)
  PROVE  ToServerKept
<1>1. Among(toServer', toServer, {})
  BY AmongTail DEF ToServerTyped
<1> QED BY <1>1 DEF ToServerKept

LEMMA HeadToServer ==
  ASSUME ToServerTyped, toServer # <<>>
  PROVE  IsClientMessage(Head(toServer)) /\ 1 \in DOMAIN toServer /\ Head(toServer) = toServer[1]
<1>1. toServer \in Seq(ToSet(toServer))
  BY DEF ToServerTyped, IsSequence
<1>2. 1 \in DOMAIN toServer /\ Head(toServer) = toServer[1]
  BY <1>1
<1> QED BY <1>2 DEF ToServerTyped

(* The answer taken by the server: its form is in no other place. *)
LEMMA AnswerTaken ==
  ASSUME ChatInv, dispatch, Head(toServer).type = "HitlAnswer",
         Head(toServer).form \in conn.registry
  PROVE  ChatInv'
<1> DEFINE m == Head(toServer)
<1>0. ChatTyped /\ ChatRest
  BY DEF ChatInv, ChatRest
<1>1. toServer # <<>> /\ toServer' = Tail(toServer) /\ UNCHANGED <<page, spawned>>
  BY DEF dispatch
<1>2. IsClientMessage(m) /\ 1 \in DOMAIN toServer /\ m = toServer[1]
  BY <1>0, <1>1, HeadToServer DEF ChatTyped
<1>3. PICK g \in FormIds : m.form = g /\ m.answers.text \in {None, m.form}
  BY <1>2 DEF IsClientMessage
<1>4. /\ conn' = [conn EXCEPT !.registry = @ \ {g}]
      /\ \/ Push(Ack) /\ cluster' = [cluster EXCEPT !.answered = Append(@, m)]
         \/ Push(Error) /\ UNCHANGED cluster
  BY <1>3 DEF dispatch, hitl_answer
<1>5. ReplyUnderWay(g)
  BY <1>2, <1>3 DEF ReplyUnderWay, Replies
<1> HIDE DEF m
<1>6. ToPageMoves
  BY <1>4 DEF Push, Ack, Error, ToPageMoves, Plain
<1>7. TasksKept /\ ToServerKept
  BY <1>0, <1>1, TasksUnchanged, ToServerTail DEF ChatTyped
<1>8. TasksTyped' /\ ToServerTyped' /\ \A f \in FormIds : ReplyUnderWay(f)' => ReplyUnderWay(f)
  BY <1>0, <1>7, NoNewReply DEF TasksKept, ToServerKept, ChatTyped
<1>9. /\ ConnTyped' /\ conn'.streamed = conn.streamed /\ conn'.registry = conn.registry \ {g}
      /\ conn'.open = conn.open
  BY <1>0, <1>4 DEF ChatTyped, ConnTyped
<1>10. /\ \A f \in FormIds : Requested(f)' => Requested(f)
       /\ \A j, k \in DOMAIN toPage' :
            toPage'[j].type = "HitlRequest" /\ toPage'[j] = toPage'[k] => j = k
  BY <1>0, <1>6, FewerRequests DEF ChatTyped, ChatRest
<1>11. \A f \in FormIds : InQueue(f)' <=> InQueue(f)
  BY <1>1 DEF InQueue
<1>12. OnePlace'
  BY <1>0, <1>5, <1>8, <1>9, <1>10, <1>11 DEF ChatRest, OnePlace
<1>13. NoDuplicates' /\ TypedForFirst'
  BY <1>0, <1>1, <1>10 DEF ChatRest, NoDuplicates, TypedForFirst
<1>14. ClusterTyped' /\ cluster'.logs = cluster.logs
  <2>1. CASE cluster' = cluster
    BY <1>0, <2>1 DEF ChatTyped, ClusterTyped
  <2>2. CASE cluster' = [cluster EXCEPT !.answered = Append(@, m)]
    <3>1. /\ DOMAIN cluster' = DOMAIN cluster /\ cluster'.logs = cluster.logs
          /\ cluster'.answered = Append(cluster.answered, m)
      BY <1>0, <2>2 DEF ChatTyped, ClusterTyped
    <3>2. Among(cluster'.answered, cluster.answered, {m})
      BY <1>0, <3>1, AmongAppend DEF ChatTyped, ClusterTyped
    <3>3. IsSequence(cluster.answered)'
      BY <3>2 DEF Among
    <3>4. \A k \in DOMAIN cluster'.answered :
            cluster'.answered[k].answers.text \in {None, cluster'.answered[k].form}
      BY <1>0, <1>3, <3>2 DEF ChatTyped, ClusterTyped, Among
    <3> QED BY <1>0, <3>1, <3>3, <3>4 DEF ChatTyped, ClusterTyped
  <2> QED BY <1>4, <2>1, <2>2
<1>15. InOrder'
  BY <1>0, <1>1, <1>6, <1>14, LinesKeepOrder DEF ChatTyped, ChatRest
<1>16. PageTyped' /\ ToPageTyped'
  BY <1>0, <1>1, <1>6, ToPageKeepsOrder, SamePageTyped DEF ChatTyped
<1> QED BY <1>8, <1>9, <1>12, <1>13, <1>14, <1>15, <1>16 DEF ChatInv, ChatTyped

LEMMA dispatchKeeps == ASSUME ChatInv, dispatch PROVE ChatInv'
<1> DEFINE m == Head(toServer)
<1>1. CASE m.type = "HitlAnswer" /\ m.form \in conn.registry
  BY <1>1, AnswerTaken
<1>2. CASE ~(m.type = "HitlAnswer" /\ m.form \in conn.registry)
  <2>1. toServer # <<>> /\ toServer' = Tail(toServer) /\ UNCHANGED <<page, spawned>>
    BY DEF dispatch
  <2>2. IsClientMessage(m)
    BY <2>1, HeadToServer DEF ChatInv, ChatTyped
  <2>3. /\ \E r : Plain(r) /\ toPage' = Append(toPage, r)
        /\ \/ conn' = conn
           \/ m.session \in Sessions /\ conn' = [conn EXCEPT !.acquired = @ \cup {m.session}]
        /\ \/ cluster' = cluster
           \/ \E v : cluster' = [cluster EXCEPT !.frames = v]
           \/ \E v, w : cluster' = [cluster EXCEPT !.frames = v, !.jobs = w]
    <3>1. CASE m.type = "SubscribeSession"
      BY <2>2, <3>1 DEF dispatch, Push, Plain, Ack, Error, IsClientMessage
    <3>2. CASE m.type = "GetFrame" \/ m.type = "GetMode"
      BY <3>2 DEF dispatch, Push, Plain
    <3>3. CASE m.type = "HitlAnswer"
      BY <1>2, <3>3 DEF dispatch, hitl_answer, Push, Plain, Error
    <3>4. CASE m.type = "SendMessage"
      <4>1. send_message(m) /\ UNCHANGED conn
        BY <3>4 DEF dispatch
      <4> QED BY <4>1 DEF send_message, Push, Plain, Error
    <3> QED BY <3>1, <3>2, <3>3, <3>4 DEF dispatch
  <2>4. ConnTyped' /\ ConnKept
    BY <2>3 DEF ChatInv, ChatTyped, ConnTyped, ConnKept
  <2>5. ClusterKept
    BY <2>3 DEF ChatInv, ChatTyped, ClusterTyped, ClusterKept
  <2>6. ClusterTyped' /\ cluster'.logs = cluster.logs
    BY <2>5, KeptCluster DEF ChatInv, ChatTyped, ClusterKept
  <2> QED BY <2>1, <2>3, <2>4, <2>6, BackgroundStep, SamePageTyped, TasksUnchanged, ToServerTail
          DEF ChatInv, ChatTyped, ToPageMoves
<1> QED BY <1>1, <1>2

-----------------------------------------------------------------------------
(* Server functions and the tasks that called them *)

LEMMA Answered ==
  ASSUME TasksTyped, NEW i \in DOMAIN spawned, spawned[i].op # "send", NEW g,
         spawned' = [spawned EXCEPT ![i].got = g],
         spawned[i].op = "create_session" /\ g.ok => g.value[2] \in Sessions
  PROVE  TasksKept
<1> DEFINE t == [spawned[i] EXCEPT !.got = g]
<1>1. IsTask(spawned[i])
  BY DEF TasksTyped
<1>2. t.op = spawned[i].op /\ t.got = g /\ DOMAIN t = DOMAIN spawned[i]
  BY <1>1 DEF IsTask, IsCall
<1>3. spawned' = [spawned EXCEPT ![i] = t]
  OBVIOUS
<1> HIDE DEF t
<1>4. OldTask(t)
  BY <1>1, <1>2 DEF OldTask, IsTask, IsSend, IsCall
<1> QED BY <1>3, <1>4, NextTask

LEMMA ReplyKept ==
  ASSUME TasksTyped, NEW i \in DOMAIN spawned, spawned[i].op # "send", NEW v, Reply(i, v),
         spawned[i].op = "create_session" => v[2] \in Sessions
  PROVE  TasksKept
<1> DEFINE g == [ok |-> TRUE, value |-> v]
<1>1. g.value = v
  OBVIOUS
<1>2. spawned' = [spawned EXCEPT ![i].got = g]
  BY DEF Reply
<1> HIDE DEF g
<1> QED BY <1>1, <1>2, Answered

LEMMA FailureKept ==
  ASSUME TasksTyped, NEW i \in DOMAIN spawned, spawned[i].op # "send", Failed(i)
  PROVE  TasksKept
<1> DEFINE g == [ok |-> FALSE, value |-> None]
<1>1. ~g.ok
  OBVIOUS
<1>2. spawned' = [spawned EXCEPT ![i].got = g]
  BY DEF Failed
<1> HIDE DEF g
<1> QED BY <1>1, <1>2, Answered

LEMMA serve_fnKeeps == ASSUME ChatInv, NEW i \in DOMAIN spawned, serve_fn(i) PROVE ChatInv'
<1>0. TasksTyped /\ ClusterTyped /\ spawned[i].op # "send" /\ UNCHANGED <<page, toServer, conn>>
  BY DEF ChatInv, ChatTyped, serve_fn
<1>1. CASE Failed(i) /\ UNCHANGED <<cluster, toPage>>
  BY <1>0, <1>1, FailureKept, BackgroundStep, SamePageTyped, SameConn, SameCluster, SameToServer
     DEF ChatInv, ChatTyped, ToPageMoves
<1>2. CASE spawned[i].op = "create_session" /\ create_session(i) /\ UNCHANGED toPage
  <2>0. PICK s \in Sessions : \E w : /\ Reply(i, <<w, s>>)
                                    /\ cluster' = [cluster EXCEPT !.made = @ \cup {s},
                                                     !.workspaces = @ \cup {w}, !.workspace[s] = w]
    BY <1>2 DEF create_session
  <2>1. PICK w : /\ Reply(i, <<w, s>>)
                 /\ cluster' = [cluster EXCEPT !.made = @ \cup {s}, !.workspaces = @ \cup {w},
                                               !.workspace[s] = w]
    BY <2>0
  <2>2. <<w, s>>[2] \in Sessions
    OBVIOUS
  <2>3. TasksKept
    BY <1>0, <2>1, <2>2, ReplyKept
  <2>4. ClusterKept
    BY <1>0, <2>1 DEF ClusterTyped, ClusterKept
  <2>5. ClusterTyped' /\ cluster'.logs = cluster.logs
    BY <1>0, <2>4, KeptCluster DEF ClusterKept
  <2> QED BY <1>0, <1>2, <2>3, <2>5, BackgroundStep, SamePageTyped, SameConn, SameToServer
          DEF ChatInv, ChatTyped, ToPageMoves
<1>3. CASE spawned[i].op = "set_session_var" /\ set_session_var(i)
  <2>1. TasksKept
    <3>1. Reply(i, "ok") /\ spawned[i].op # "create_session"
      BY <1>3 DEF set_session_var
    <3> QED BY <1>0, <3>1, ReplyKept
  <2>2. PICK s : /\ cluster' = [cluster EXCEPT !.vars[s] = @ + 1]
                 /\ \/ toPage' = toPage
                    \/ toPage' = Append(toPage, [type |-> "ValueChanged", session |-> s,
                                                 n |-> cluster.vars[s] + 1])
    BY <1>3 DEF set_session_var
  <2>3. ToPageMoves
    BY <2>2 DEF ToPageMoves, Plain
  <2>4. ClusterKept
    BY <1>0, <2>2 DEF ClusterTyped, ClusterKept
  <2>5. ClusterTyped' /\ cluster'.logs = cluster.logs
    BY <1>0, <2>4, KeptCluster DEF ClusterKept
  <2> QED BY <1>0, <2>1, <2>3, <2>5, BackgroundStep, SamePageTyped, SameConn, SameToServer
          DEF ChatInv, ChatTyped
<1>4. CASE /\ spawned[i].op \notin {"create_session", "set_session_var"} /\ UNCHANGED toPage
           /\ \/ create_workspace(i) \/ delete_workspace(i) \/ session_vars(i) \/ list_files(i)
              \/ session_workspace(i) \/ workspace_vars(i) \/ set_workspace_var(i)
              \/ read_file(i) \/ write_file(i) \/ write_binary_file(i)
  <2>1. /\ \E v : Reply(i, v)
        /\ \/ cluster' = cluster
           \/ \E v : cluster' = [cluster EXCEPT !.workspaces = v]
           \/ \E s, p, v : cluster' = [cluster EXCEPT !.files[s][p] = v]
    BY <1>4 DEF create_workspace, delete_workspace, session_vars, list_files, session_workspace,
                workspace_vars, set_workspace_var, read_file, write_file, write_binary_file
  <2>2. TasksKept
    BY <1>0, <1>4, <2>1, ReplyKept
  <2>3. ClusterKept
    BY <1>0, <2>1 DEF ClusterTyped, ClusterKept
  <2>4. ClusterTyped' /\ cluster'.logs = cluster.logs
    BY <1>0, <2>3, KeptCluster DEF ClusterKept
  <2> QED BY <1>0, <1>4, <2>2, <2>4, BackgroundStep, SamePageTyped, SameConn, SameToServer
          DEF ChatInv, ChatTyped, ToPageMoves
<1> QED BY <1>1, <1>2, <1>3, <1>4 DEF serve_fn

(* A page that opened a session shows nothing of the one before. *)
LEMMA OpenedPage ==
  ASSUME PageTyped, NEW s \in Sessions, NEW x, NEW y,
         \/ page' = Opened(s)
         \/ page' = [Opened(s) EXCEPT !.selected = x, !.workspaces = y]
  PROVE  PageTyped' /\ SamePage
<1>1. /\ DOMAIN page' = DOMAIN page /\ page'.current = s /\ page'.logs = <<>>
      /\ page'.pending = page.pending /\ page'.answers = page.answers
  BY DEF Opened, PageTyped
<1>2. <<>> \in Seq(JournalLine) /\ s \in Opt(Sessions)
  BY DEF Opt
<1> QED BY <1>1, <1>2 DEF PageTyped, SamePage

LEMMA PageResumed ==
  ASSUME ChatInv, NEW i \in DOMAIN spawned, resume(i), spawned[i].op # "create_session"
  PROVE  PageTyped' /\ SamePage /\ page'.cell = page.cell
<1> DEFINE t == spawned[i]
<1>0. PageTyped
  BY DEF ChatInv, ChatTyped
<1>1. CASE t.op = "session_vars"
  <2>1. page' = page \/ \E v : page' = [page EXCEPT !.vars = v]
    BY <1>1 DEF resume
  <2> QED BY <1>0, <2>1 DEF PageTyped, SamePage
<1>2. CASE t.op \in {"list_files", "refresh"}
  <2>1. page' = page \/ \E v : page' = [page EXCEPT !.paths = v]
    BY <1>2 DEF resume
  <2> QED BY <1>0, <2>1 DEF PageTyped, SamePage
<1>3. CASE t.op = "session_workspace"
  <2>1. page' = page \/ \E v : page' = [page EXCEPT !.workspace = v]
    BY <1>3 DEF resume
  <2> QED BY <1>0, <2>1 DEF PageTyped, SamePage
<1>4. CASE t.op = "workspace_vars"
  <2>1. page' = page \/ \E v : page' = [page EXCEPT !.wsvars = v]
    BY <1>4 DEF resume
  <2> QED BY <1>0, <2>1 DEF PageTyped, SamePage
<1>5. CASE t.op = "read_file"
  <2>1. page' = page \/ \E v : page' = [page EXCEPT !.editor = v]
    BY <1>5 DEF resume
  <2> QED BY <1>0, <2>1 DEF PageTyped, SamePage
<1>6. CASE t.op = "set_workspace_var"
  <2>1. page' = page \/ \E v : page' = [page EXCEPT !.wsvars = v]
    BY <1>6 DEF resume
  <2> QED BY <1>0, <2>1 DEF PageTyped, SamePage
<1>7. CASE t.op \in {"write_file", "set_session_var"}
  BY <1>0, <1>7, SamePageTyped DEF resume
<1>8. CASE t.op \in {"create_workspace", "delete_workspace"}
  <2>1. page' = page \/ \E v, w : page' = [page EXCEPT !.workspaces = v, !.selected = w]
    BY <1>8 DEF resume, workspace_deleted
  <2> QED BY <1>0, <2>1 DEF PageTyped, SamePage
<1>9. CASE t.op = "write_hitl_upload"
  <2>1. page' = page \/ page' = [page EXCEPT !.answers.file = t.args]
    BY <1>9 DEF resume
  <2> QED BY <1>0, <2>1 DEF PageTyped, SamePage
<1> QED BY <1>1, <1>2, <1>3, <1>4, <1>5, <1>6, <1>7, <1>8, <1>9 DEF resume

LEMMA TasksResumed ==
  ASSUME ChatInv, NEW i \in DOMAIN spawned, resume(i), spawned[i].op # "create_session"
  PROVE  TasksKept
<1>0. TasksTyped
  BY DEF ChatInv, ChatTyped
<1>1. \/ spawned' = Done(i)
      \/ \E op, args : op # "send" /\ spawned' = [spawned EXCEPT ![i] = Calling(op, args)]
  BY DEF resume, Then
<1>2. CASE spawned' = Done(i)
  BY <1>0, <1>2, TaskDone
<1>3. ASSUME NEW op, NEW args, op # "send", spawned' = [spawned EXCEPT ![i] = Calling(op, args)]
      PROVE  TasksKept
  BY <1>0, <1>3, CallIsOld, NextTask
<1> QED BY <1>1, <1>2, <1>3

LEMMA resumeKeeps == ASSUME ChatInv, NEW i \in DOMAIN spawned, resume(i) PROVE ChatInv'
<1>0. PageTyped /\ TasksTyped /\ UNCHANGED <<toServer, toPage, conn, cluster>>
  BY DEF ChatInv, ChatTyped, resume
<1>1. PageTyped' /\ SamePage /\ TasksKept
  <2>1. CASE spawned[i].op # "create_session"
    BY <2>1, PageResumed, TasksResumed
  <2>2. CASE spawned[i].op = "create_session" /\ spawned[i].got.ok
    <3>1. PICK s \in Sessions : spawned[i].got.value[2] = s
      BY <1>0, <2>2 DEF TasksTyped, IsTask, IsCall, resume
    <3>2. /\ \E x, y : page' = [Opened(s) EXCEPT !.selected = x, !.workspaces = y]
          /\ spawned' = Done(i) \o OpeningTasks(s)
      BY <2>2, <3>1 DEF resume
    <3>3. Among(Done(i), spawned, {})
      BY <1>0, AmongRemoveAt DEF Done, TasksTyped
    <3>4. TasksKept
      BY <1>0, <3>2, <3>3, OpensSession
    <3> QED BY <1>0, <3>2, <3>4, OpenedPage
  <2>3. CASE spawned[i].op = "create_session" /\ ~spawned[i].got.ok
    <3>1. page' = page /\ spawned' = Done(i)
      BY <2>3 DEF resume
    <3> QED BY <1>0, <3>1, SamePageTyped, TaskDone
  <2> QED BY <2>1, <2>2, <2>3
<1> QED BY <1>0, <1>1, BackgroundStep, SameConn, SameCluster, SameToServer
        DEF ChatInv, ChatTyped, ToPageMoves

-----------------------------------------------------------------------------
(* Clicks *)

(* A click that starts a call and changes, of the page, the file shown or  *)
(* the workspace selected at most.                                         *)
QuietClick ==
  /\ UNCHANGED <<toServer, toPage, conn, cluster>>
  /\ \/ page' = page
     \/ \E v : page' = [page EXCEPT !.file = v]
     \/ \E v : page' = [page EXCEPT !.selected = v]
  /\ \/ spawned' = spawned
     \/ \E op, args : op # "send" /\ spawned' = Spawn(Calling(op, args))

LEMMA QuietClickKeeps == ASSUME ChatInv, QuietClick PROVE ChatInv'
<1>0. PageTyped /\ TasksTyped
  BY DEF ChatInv, ChatTyped
<1>1. PageTyped' /\ SamePage
  BY <1>0 DEF QuietClick, PageTyped, SamePage
<1>2. TasksKept
  <2>1. CASE spawned' = spawned
    BY <1>0, <2>1, TasksUnchanged
  <2>2. ASSUME NEW op, NEW args, op # "send", spawned' = Spawn(Calling(op, args))
        PROVE  TasksKept
    BY <1>0, <2>2, CallIsOld, SpawnedTask
  <2> QED BY <2>1, <2>2 DEF QuietClick
<1> QED BY <1>1, <1>2, BackgroundStep, SameConn, SameCluster, SameToServer
        DEF QuietClick, ChatInv, ChatTyped, ToPageMoves

LEMMA QuietClicks ==
  /\ on_new_session_click => QuietClick
  /\ on_create_workspace_click => QuietClick
  /\ on_select_workspace => QuietClick
  /\ on_delete_workspace => QuietClick
  /\ on_add_session_var => QuietClick
  /\ on_add_workspace_var => QuietClick
  /\ on_open_file => QuietClick
  /\ on_save_file => QuietClick
  /\ on_create_file => QuietClick
  /\ on_hitl_file_selected => QuietClick
<1>1. on_new_session_click => QuietClick
  BY DEF on_new_session_click, Click, QuietClick
<1>2. on_create_workspace_click => QuietClick
  BY DEF on_create_workspace_click, Click, QuietClick
<1>3. on_select_workspace => QuietClick
  BY DEF on_select_workspace, Click, QuietClick
<1>4. on_delete_workspace => QuietClick
  BY DEF on_delete_workspace, Click, QuietClick
<1>5. on_add_session_var => QuietClick
  BY DEF on_add_session_var, Click, QuietClick
<1>6. on_add_workspace_var => QuietClick
  BY DEF on_add_workspace_var, Click, QuietClick
<1>7. on_open_file => QuietClick
  BY DEF on_open_file, Click, QuietClick
<1>8. on_save_file => QuietClick
  BY DEF on_save_file, Click, QuietClick
<1>9. on_create_file => QuietClick
  BY DEF on_create_file, Click, QuietClick
<1>10. on_hitl_file_selected => QuietClick
  BY DEF on_hitl_file_selected, Click, QuietClick
<1> QED BY <1>1, <1>2, <1>3, <1>4, <1>5, <1>6, <1>7, <1>8, <1>9, <1>10

LEMMA on_open_clickKeeps == ASSUME ChatInv, on_open_click PROVE ChatInv'
<1>0. PageTyped /\ TasksTyped
  BY DEF ChatInv, ChatTyped
<1>1. PICK s \in Sessions : page' = Opened(s) /\ spawned' = spawned \o OpeningTasks(s)
  BY DEF on_open_click, do_open
<1>2. UNCHANGED <<toServer, toPage, conn, cluster>>
  BY DEF on_open_click, Click
<1>3. PageTyped' /\ SamePage
  BY <1>0, <1>1, OpenedPage
<1>4. Among(spawned, spawned, {})
  BY <1>0, AmongSame DEF TasksTyped
<1>5. TasksKept
  BY <1>0, <1>1, <1>4, OpensSession
<1> QED BY <1>2, <1>3, <1>5, BackgroundStep, SameConn, SameCluster, SameToServer
        DEF ChatInv, ChatTyped, ToPageMoves

LEMMA on_send_messageKeeps == ASSUME ChatInv, on_send_message PROVE ChatInv'
<1>0. TasksTyped
  BY DEF ChatInv, ChatTyped
<1>1. PICK m : m = [type |-> "SendMessage", session |-> page.current]
  OBVIOUS
<1>2. m.type = "SendMessage"
  BY <1>1
<1>3. spawned' = Spawn(Sending(<<m>>)) /\ UNCHANGED <<page, toServer, toPage, conn, cluster>>
  BY <1>1 DEF on_send_message, Click
<1>4. TasksKept
  BY <1>0, <1>2, <1>3, PlainSending, SpawnedTask
<1> QED BY <1>3, <1>4, BackgroundStep, SamePageTyped, SameConn, SameCluster, SameToServer
        DEF ChatInv, ChatTyped, ToPageMoves

LEMMA HitlQuestionKeeps == ASSUME ChatInv, HitlQuestion PROVE ChatInv'
<1>0. ChatTyped /\ ChatRest
  BY DEF ChatInv, ChatRest
<1>1. /\ page.pending # <<>> /\ UNCHANGED <<spawned, toServer, toPage, conn, cluster>>
      /\ page' = [page EXCEPT !.answers.text = Head(page.pending)]
  BY DEF HitlQuestion, Click, Shown
<1>2. /\ DOMAIN page' = DOMAIN page /\ page'.pending = page.pending /\ page'.logs = page.logs
      /\ page'.current = page.current /\ page'.answers = [page.answers EXCEPT !.text = Head(page.pending)]
  BY <1>0, <1>1 DEF ChatTyped, PageTyped
<1>3. page'.answers.text = Head(page'.pending) /\ DOMAIN page'.answers = DOMAIN page.answers
  BY <1>0, <1>2 DEF ChatTyped, PageTyped
<1>4. ChatTyped'
  BY <1>0, <1>1, <1>2, <1>3
     DEF ChatTyped, PageTyped, TasksTyped, ToServerTyped, ToPageTyped, ConnTyped, ClusterTyped
<1>5. TypedForFirst'
  BY <1>1, <1>2, <1>3 DEF TypedForFirst
<1>6. \A f \in FormIds : /\ InQueue(f)' <=> InQueue(f)
                         /\ Requested(f)' <=> Requested(f)
                         /\ ReplyUnderWay(f)' <=> ReplyUnderWay(f)
  BY <1>1, <1>2 DEF InQueue, Requested, ReplyUnderWay, Replies
<1>7. OnePlace' /\ NoDuplicates'
  BY <1>0, <1>1, <1>2, <1>6 DEF ChatRest, OnePlace, NoDuplicates
<1>8. InOrder'
  BY <1>0, <1>1, <1>2 DEF ChatRest, InOrder
<1> QED BY <1>4, <1>5, <1>7, <1>8 DEF ChatInv

(* The form that is submitted leaves the queue as its answer leaves. *)
LEMMA on_hitl_submitKeeps == ASSUME ChatInv, on_hitl_submit PROVE ChatInv'
<1>0. ChatTyped /\ ChatRest
  BY DEF ChatInv, ChatRest
<1>1. page.pending \in Seq(FormIds) /\ page.pending # <<>>
  BY <1>0 DEF on_hitl_submit, ChatTyped, PageTyped
<1>2. PICK g \in FormIds : g = Head(page.pending) /\ 1 \in DOMAIN page.pending /\ page.pending[1] = g
  BY <1>1
<1>3. PICK m : m = [type |-> "HitlAnswer", form |-> g, answers |-> page.answers]
  OBVIOUS
<1>4. /\ spawned' = Append(spawned, Sending(<<m>>)) /\ UNCHANGED <<toServer, toPage, conn, cluster>>
      /\ page' = [page EXCEPT !.pending = Tail(@), !.answers = NoAnswers]
  BY <1>2, <1>3 DEF on_hitl_submit, Click, Shown, Spawn
<1>5. m.type = "HitlAnswer" /\ m.form = g /\ m.answers = page.answers
  BY <1>3
<1>6. IsClientMessage(m)
  BY <1>0, <1>2, <1>5 DEF ChatRest, TypedForFirst, IsClientMessage
<1>7. PICK t : t = Sending(<<m>>)
  OBVIOUS
<1>8. t.op = "send" /\ t.messages = <<m>> /\ DOMAIN t = {"op", "messages", "holds"}
  BY <1>7 DEF Sending
<1>9. <<m>> \in Seq({m}) /\ <<m>> # <<>> /\ DOMAIN <<m>> = {1} /\ <<m>>[1] = m
  OBVIOUS
<1>10. IsTask(t)
  BY <1>6, <1>8, <1>9, OverOwnElements DEF IsTask, IsSend, IsCall
<1>11. Among(spawned', spawned, {t})
  BY <1>0, <1>4, <1>7, AmongAppend DEF ChatTyped, TasksTyped
<1>12. TasksTyped'
  BY <1>0, <1>10, <1>11 DEF ChatTyped, TasksTyped, Among
<1>13. \A f \in FormIds : ReplyUnderWay(f)' => ReplyUnderWay(f) \/ f = g
  <2> SUFFICES ASSUME NEW f \in FormIds, ReplyUnderWay(f)', f # g PROVE ReplyUnderWay(f)
    OBVIOUS
  <2>1. CASE Replies(toServer, f)'
    BY <1>4, <2>1 DEF ReplyUnderWay, Replies
  <2>2. ASSUME NEW k \in DOMAIN spawned', spawned'[k].op = "send", Replies(spawned'[k].messages, f)
        PROVE  ReplyUnderWay(f)
    <3>1. spawned'[k] # t
      BY <1>5, <1>8, <1>9, <2>2 DEF Replies
    <3> QED BY <1>11, <2>2, <3>1 DEF Among, ReplyUnderWay
  <2> QED BY <2>1, <2>2 DEF ReplyUnderWay
<1>14. /\ DOMAIN page' = DOMAIN page /\ page'.pending = Tail(page.pending)
       /\ page'.answers = NoAnswers /\ page'.logs = page.logs /\ page'.current = page.current
  BY <1>0, <1>4 DEF ChatTyped, PageTyped
<1>15. NoAnswers.text = None /\ {"text", "file"} \subseteq DOMAIN NoAnswers
  BY DEF NoAnswers
<1>16. Tail(page.pending) \in Seq(FormIds)
  BY <1>1
<1>17. PageTyped'
  BY <1>0, <1>14, <1>15, <1>16 DEF ChatTyped, PageTyped
<1>18. \A k \in DOMAIN page'.pending :
         k \in Nat \ {0} /\ k + 1 \in DOMAIN page.pending /\ page'.pending[k] = page.pending[k + 1]
  BY <1>1, <1>14
<1>19. ~InQueue(g)'
  <2> SUFFICES ASSUME NEW k \in DOMAIN page'.pending, page'.pending[k] = g PROVE FALSE
    BY DEF InQueue
  <2>1. k + 1 = 1
    BY <1>0, <1>2, <1>18 DEF ChatRest, NoDuplicates
  <2> QED BY <1>18, <2>1
<1>20. \A f \in FormIds : InQueue(f)' => InQueue(f)
  BY <1>18 DEF InQueue
<1>21. \A f \in FormIds : Requested(f)' <=> Requested(f)
  BY <1>4 DEF Requested
<1>22. InQueue(g)
  BY <1>2 DEF InQueue
<1>23. OnePlace'
  <2>1. conn' = conn
    BY <1>4
  <2> QED BY <1>0, <1>13, <1>19, <1>20, <1>21, <1>22, <2>1 DEF ChatRest, OnePlace
<1>24. NoDuplicates'
  <2>1. ASSUME NEW j \in DOMAIN page'.pending, NEW k \in DOMAIN page'.pending,
               page'.pending[j] = page'.pending[k]
        PROVE  j = k
    <3>1. j + 1 = k + 1
      BY <1>0, <1>18, <2>1 DEF ChatRest, NoDuplicates
    <3> QED BY <1>18, <3>1
  <2> QED BY <1>0, <1>4, <2>1 DEF ChatRest, NoDuplicates
<1>25. TypedForFirst'
  BY <1>14, <1>15 DEF TypedForFirst
<1>26. InOrder'
  BY <1>0, <1>4, <1>14 DEF ChatRest, InOrder
<1>27. ToServerTyped' /\ ToPageTyped' /\ ConnTyped' /\ ClusterTyped'
  BY <1>0, <1>4 DEF ChatTyped, ToServerTyped, ToPageTyped, ConnTyped, ClusterTyped
<1> QED BY <1>12, <1>17, <1>23, <1>24, <1>25, <1>26, <1>27 DEF ChatInv, ChatTyped

LEMMA ClicksKeep == ASSUME ChatInv, Clicks PROVE ChatInv'
<1>1. CASE on_open_click BY <1>1, on_open_clickKeeps
<1>2. CASE on_send_message BY <1>2, on_send_messageKeeps
<1>3. CASE HitlQuestion BY <1>3, HitlQuestionKeeps
<1>4. CASE on_hitl_submit BY <1>4, on_hitl_submitKeeps
<1> QED BY <1>1, <1>2, <1>3, <1>4, QuietClicks, QuietClickKeeps DEF Clicks

-----------------------------------------------------------------------------
LEMMA ChatInitially == ASSUME ChatInit PROVE ChatInv
<1>1. <<>> \in Seq({}) /\ DOMAIN <<>> = {}
  OBVIOUS
<1>2. IsSequence(<<>>)
  BY <1>1, OverOwnElements
<1>3. PageTyped
  <2>1. /\ page.current = None /\ page.logs = <<>> /\ page.pending = <<>> /\ page.answers = NoAnswers
        /\ DOMAIN page = {"cell", "current", "workspace", "workspaces", "selected", "frames", "logs",
                    "mode", "vars", "wsvars", "paths", "file", "editor", "pending", "answers"}
    BY DEF ChatInit
  <2>2. <<>> \in Seq(JournalLine) /\ <<>> \in Seq(FormIds)
    OBVIOUS
  <2> QED BY <2>1, <2>2 DEF PageTyped, Opt, NoAnswers
<1>4. ConnTyped
  BY DEF ChatInit, ConnTyped
<1>5. ClusterTyped
  <2>1. /\ DOMAIN cluster = {"made", "workspaces", "workspace", "vars", "logs", "files", "frames",
                             "jobs", "answered"}
        /\ cluster.logs = [s \in Sessions |-> 0] /\ cluster.answered = <<>>
    BY DEF ChatInit
  <2>2. cluster.logs \in [Sessions -> Nat]
    BY <2>1
  <2> QED BY <1>1, <1>2, <2>1, <2>2 DEF ClusterTyped
<1>6. spawned = <<>> /\ toServer = <<>> /\ toPage = <<>> /\ page.logs = <<>> /\ page.pending = <<>>
      /\ page.answers.text = None
  BY DEF ChatInit, NoAnswers
<1>7. TasksTyped /\ ToServerTyped /\ ToPageTyped
  BY <1>1, <1>2, <1>6 DEF TasksTyped, ToServerTyped, ToPageTyped
<1>8. OnePlace
  BY <1>1, <1>6 DEF OnePlace, InQueue, Requested, ReplyUnderWay, Replies
<1>9. NoDuplicates /\ TypedForFirst /\ InOrder
  BY <1>1, <1>6 DEF NoDuplicates, TypedForFirst, InOrder
<1> QED BY <1>3, <1>4, <1>5, <1>7, <1>8, <1>9 DEF ChatInv, ChatTyped

(* Nothing takes the page back to what it was before it was mounted. *)
LEMMA MessageKeepsCell == ASSUME PageTyped, on_message PROVE page'.cell = page.cell
<1> DEFINE m == Head(toPage)
<1>1. CASE m.type \in {"LogAppended", "ValueChanged", "ValueRemoved"}
  BY <1>1 DEF on_message, log_appended, value_changed, PageTyped
<1>2. CASE m.type \in {"ModeChanged", "Mode", "HitlRequest"}
  BY <1>2 DEF on_message, mode_changed, hitl_request, PageTyped
<1>3. CASE m.type \notin {"LogAppended", "ValueChanged", "ValueRemoved", "ModeChanged", "Mode",
                         "HitlRequest"}
  BY <1>3 DEF on_message, PageTyped
<1> QED BY <1>1, <1>2, <1>3

LEMMA ResumeKeepsCell ==
  ASSUME ChatInv, NEW i \in DOMAIN spawned, resume(i)
  PROVE  page'.cell = page.cell
<1>0. PageTyped
  BY DEF ChatInv, ChatTyped
<1>1. CASE spawned[i].op # "create_session"
  BY <1>1, PageResumed
<1>2. CASE spawned[i].op = "create_session"
  <2>1. \/ page' = page
        \/ \E s, x, y : page' = [Opened(s) EXCEPT !.selected = x, !.workspaces = y]
    <3>1. \/ page' = page
          \/ \E y : page' = [Opened(spawned[i].got.value[2]) EXCEPT
                               !.selected = spawned[i].got.value[1], !.workspaces = y]
      BY <1>2 DEF resume
    <3> QED BY <3>1
  <2> QED BY <1>0, <2>1 DEF Opened, PageTyped
<1> QED BY <1>1, <1>2

LEMMA ClicksKeepCell == ASSUME PageTyped, Clicks PROVE page'.cell = page.cell
<1>1. CASE on_open_click
  BY <1>1 DEF on_open_click, do_open, Opened, PageTyped
<1>2. CASE on_send_message
  BY <1>2 DEF on_send_message
<1>3. CASE HitlQuestion
  BY <1>3 DEF HitlQuestion, PageTyped
<1>4. CASE on_hitl_submit
  BY <1>4 DEF on_hitl_submit, PageTyped
<1>5. CASE QuietClick
  BY <1>5 DEF QuietClick, PageTyped
<1> QED BY <1>1, <1>2, <1>3, <1>4, <1>5, QuietClicks DEF Clicks

LEMMA StaysMounted ==
  ASSUME ChatInv, BeforeMount, [ChatNext]_chatVars
  PROVE  BeforeMount'
<1>0. PageTyped
  BY DEF ChatInv, ChatTyped
<1>1. CASE UNCHANGED chatVars
  BY <1>1 DEF chatVars, BeforeMount
<1>2. CASE connect
  BY <1>0, <1>2 DEF connect, BeforeMount, PageTyped
<1>3. CASE Take \/ Send
  <2>1. page'.cell = page.cell \/ page'.cell \in {"full", "taken"}
    BY <1>0, <1>3 DEF Take, Send, take, send, PageTyped
  <2>2. conn' = conn
    BY <1>3 DEF Take, Send, take, send
  <2> QED BY <2>1, <2>2 DEF BeforeMount
<1>4. CASE /\ Mounted
           /\ Serve \/ Resume \/ on_message \/ dispatch \/ async_stream_hitl \/ session_event
              \/ serve_ends \/ Clicks
  <2>1. CASE Resume BY <2>1, ResumeKeepsCell, <1>4 DEF Resume, Mounted, BeforeMount
  <2>2. CASE on_message BY <1>0, <2>2, MessageKeepsCell, <1>4 DEF Mounted, BeforeMount
  <2>3. CASE Clicks BY <1>0, <2>3, ClicksKeepCell, <1>4 DEF Mounted, BeforeMount
  <2>4. CASE Serve \/ dispatch \/ async_stream_hitl \/ session_event \/ serve_ends
    <3>1. page' = page
      BY <2>4 DEF Serve, serve_fn, dispatch, async_stream_hitl, Forward, session_event, serve_ends
    <3> QED BY <1>4, <3>1 DEF Mounted, BeforeMount
  <2> QED BY <1>4, <2>1, <2>2, <2>3, <2>4
<1> QED BY <1>1, <1>2, <1>3, <1>4 DEF ChatNext

LEMMA ChatStep == ASSUME ChatInv, BeforeMount, [ChatNext]_chatVars PROVE ChatInv'
<1>1. CASE connect BY <1>1, connectKeeps
<1>2. CASE Take BY <1>2, takeKeeps DEF Take
<1>3. CASE Send BY <1>3, sendKeeps DEF Send
<1>4. CASE Serve BY <1>4, serve_fnKeeps DEF Serve
<1>5. CASE Resume BY <1>5, resumeKeeps DEF Resume
<1>6. CASE on_message BY <1>6, on_messageKeeps
<1>7. CASE dispatch BY <1>7, dispatchKeeps
<1>8. CASE async_stream_hitl BY <1>8, async_stream_hitlKeeps
<1>9. CASE session_event BY <1>9, session_eventKeeps
<1>10. CASE Clicks BY <1>10, ClicksKeep
<1>11. CASE UNCHANGED chatVars
  <2>1. UNCHANGED <<page, spawned, toServer, toPage, conn, cluster>>
    BY <1>11 DEF chatVars
  <2> QED BY <2>1, BackgroundStep, SamePageTyped, SameConn, SameCluster, TasksUnchanged, SameToServer
          DEF ChatInv, ChatTyped, ToPageMoves
<1>12. CASE serve_ends BY <1>12, serve_endsKeeps
<1> QED BY <1>1, <1>2, <1>3, <1>4, <1>5, <1>6, <1>7, <1>8, <1>9, <1>10, <1>11, <1>12 DEF ChatNext

(* The invariant of the chat page holds. *)
THEOREM ChatPageInvariant == ChatSpec => [](ChatInv /\ BeforeMount)
<1>1. ChatInit => ChatInv /\ BeforeMount
  <2>1. ChatInit => conn.streamed = {}
    BY DEF ChatInit
  <2> QED BY <2>1, ChatInitially DEF BeforeMount
<1>2. ChatInv /\ BeforeMount /\ [ChatNext]_chatVars => (ChatInv /\ BeforeMount)'
  BY ChatStep, StaysMounted
<1> QED BY <1>1, <1>2, PTL DEF ChatSpec

(* A form the page shows, or is about to show, is registered with its      *)
(* connection: async_stream_hitl registers a form before it is sent, and   *)
(* only the answer of the page, which drops the form, takes it back.       *)
THEOREM ShownFormsAreRegistered == ChatSpec => []ShownFormIsRegistered
<1>1. ChatInv => ShownFormIsRegistered
  BY DEF ChatInv, OnePlace, InQueue, Requested, Request, ShownFormIsRegistered, ToSet
<1> QED BY <1>1, ChatPageInvariant, PTL

(* No answer the cluster gets holds what was typed for another form.       *)
THEOREM AnswersStayWithTheirForm == ChatSpec => []TypedForThisForm
<1>1. ChatInv => TypedForThisForm
  BY DEF ChatInv, ChatTyped, ClusterTyped, TypedForThisForm
<1> QED BY <1>1, ChatPageInvariant, PTL

(* The journal is of the session that is open, in order, without           *)
(* repetition, whatever events of earlier sessions still come.             *)
THEOREM JournalIsOfOpenSession == ChatSpec => []JournalOfOpenSession
<1>1. ChatInv => JournalOfOpenSession
  BY DEF ChatInv, InOrder, JournalOfOpenSession
<1> QED BY <1>1, ChatPageInvariant, PTL
=============================================================================
