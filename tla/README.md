# A TLA+ development of marie

`marie` runs language-model sessions on a cluster of nodes: a *session* is a
tree of *frames*, a frame is run as a *job* on a *worker*, a session is owned
by the node that holds its *lease*, and the catalog, the vault and the session
tables are shared through PostgreSQL (or in-memory stand-ins when everything
runs in one process, `entrypoint.rs`). People reach it from a command line, a
web page and a gateway. This directory models the parts in which steps of
several parties interleave, fail or arrive late, checks them with TLC on small
instances and proves the central results with TLAPS. Paths without a crate are
relative to `src/marie-core/src/`.

## 1. Inventory

| Component | State | Operations | Interacts with | What makes it correct |
|---|---|---|---|---|
| Lease authority (`lease/authority.rs`) | lease entry and last epoch per session | acquire, renew, release | applied by every Raft replica | an epoch is granted once; two nodes never count on one session |
| Lease state machine (`lease/storage.rs`) | authority, last applied entry, snapshot, log, vote | apply, build/install snapshot, restart | openraft | no epoch is reissued after a failover (violated, see section 3) |
| Lease client and server (`lease/client.rs`, `server.rs`, `raft.rs`) | leader hint, members | submit with one retry, bootstrap | RPC, directory of nodes | requests reach a leader; one group |
| Worker client (`worker/client.rs`, `hrw.rs`) | tracked jobs, handles | spawn, schedule, probe, handle events and timers | RPC to workers, event bus | a handle ends, with what really happened |
| Worker (`worker/server.rs`, `job/mod.rs`) | state per job | schedule, execute, report state | event bus | a job runs at most once; its record moves forward |
| Key ring (`secret/mod.rs`) | keys by epoch, current epoch | add, switch, retire; derive, prove, verify | operator, other nodes | rotation without refusals; a node has its current key |
| Vault (`secret/vault.rs`, `store.rs`, `in_memory.rs`) | encrypted rows | store, update, remove, decrypt | key ring, Models | what is stored opens; what is removed is gone |
| Catalog (`catalog/*`), experts, tools, graphs | versions with flags | publish, deref, latest, deprecate, delete | Models, command line | a change and a delete that overlap leave a usable item |
| Models (`model/mod.rs`) | none of its own | insert, change, delete, execute | vault and catalog, one awaited call after the other | a failure and a final answer exclude one another |
| Frame tree (`session/frames/*`) | arena of containers, rows | set_root, insert, append, remove, load, flush, drop | checkpointer, store | links agree; walks end; removal is complete |
| Snapshots, *clichés* (`session/snapshot/*`) | cache in front of rows | push, get, latest, commit | checkpointer | no superstep is missing |
| Checkpointer (`session/checkpointer`) | event queue, loop status | one handler per event, close | frames, snapshots, worker client, hitl | a wake-up is never lost; a join waits for its branches |
| Channels (`session/channel.rs`, `spec.rs`), replay log (`run_log.rs`) | values, entries | reduce, replay, resolve | runs of a frame | a value comes from a frame that may send it |
| Controller and client of sessions (`session/controller.rs`, `client.rs`) | cache of checkpointers, queue, topic | relay, delete, view | checkpointer, stores, command line | |
| Journal, human in the loop (`session/logs`, `hitl/*`) | entries; requests and answers | log, replace; request, reply | event bus, command line | the terminal asks once and never shows an older content |
| RPC, post office, event bus (`rpc/*`, `post`, `events`) | tracked calls, subscriptions, bounded queues | call, reply, emit | everything | a call is executed once, by its addressee, and answered; an event is given, and once |
| Directory, swarm (`annuary`, `network`) | known peers, connections | connect, expire, execute a command | RPC, worker choice | the directory follows the connections |
| Gateway (`marie-gateway`, `marie-ws`) | one actor per connection, its rights | one handler per command, relay of events | sessions, workspaces | replies match commands; events follow a grant |
| Chat page (`marie-web-example`, `marie-leptos`, `marie-axum`) | signals, socket, registry of forms | clicks, messages, server functions | websocket, cluster | forms get their own answers; the journal is the open session's |
| Command line (`marie-cli`) | stack of states, terminal thread | commands, editing, following a session | LocalMarie, another process | the prompt comes back; an edit is saved or leaves no trace |

The hard behaviours are: answers and events that overtake one another; clocks
read by several parties (lease); several awaited calls that nothing holds
together (vault, models, catalog, frame removal, gateway, forms); fire-and-forget
tasks (dropped containers, un-awaited futures); bounded queues; restarts of
processes whose state is in memory. `PROJECT.json` lists each one under
`hazards`, at the line where it bites, with the property that covers it or the
reason why none does.

Code that is in the tree and not compiled: `persistency/*`,
`worker/watchdog.rs`, `worker/layers.rs`, `session/layers.rs` are not declared
as modules, and `network/persistency` is one comment.

## 2. Modules

| Module | Models | Composed with |
|---|---|---|
| `LeaseAuthority` | the authority as a pure state machine: `acquire`, `renew`, `release`, `handle_request` on a value `a` at a time `t` | used by the next two |
| `LeaseService` | one authority and its callers: calls, answers that are late or never read, abandoned calls, a clock | `EXTENDS LeaseAuthority`; implements `FencedLock` |
| `FencedLock` | the abstract promise: a lock per session whose owner changes only with a fresh token | instantiated by `LeaseService` |
| `LeaseReplicas` | the Raft group: a log and a state machine per replica, both in memory; elections, replication, snapshots, restarts, and a clock read by `apply` | `EXTENDS LeaseAuthority` |
| `WorkerJobs` | worker client, workers and the event queue between them | |
| `SecretRotation` | key rings of the nodes, the operator's runbook, the vault and its store | |
| `FrameTree` | arena, containers, rows, stepwise removal, dropped and reloaded trees | |
| `Channels` | values, reducers, and the channels each kind of frame declares | used by `Checkpointer` |
| `Checkpointer` | the event loop of a session: frames, policies, clichés, run logs, jobs, close | `EXTENDS Channels` |
| `LiveSession` | journal, requests to people, their events, the controller, and the command line that follows a session | |
| `Messaging` | remote calls, post office, event bus, swarm and directory | |
| `Gateway` | the actors of the gateway and the muxed websocket | |
| `ChatPage` | the chat page, its websocket loop and its server functions | |
| `Catalog` | versions of models, experts, tools and graphs, operations call by call | used by `Models` |
| `Models` | models over catalog and vault, and the stream of an answer | `EXTENDS Catalog` |
| `Repl` | the command line over `Models` and `Catalog`, beside another process | `EXTENDS Models` |
| `LeaseServiceProofs`, `WorkerJobsProofs`, `SecretRotationProofs`, `FrameTreeProofs`, `CheckpointerProofs`, `GatewayProofs`, `LiveSessionProofs` | inductive invariants, theorems and their proofs | each `EXTENDS` its component and `TLAPS`; `WorkerJobsProofs` also has those of `Messaging` and `Repl`, `LiveSessionProofs` those of `ChatPage` |
| `MC*` | symmetry sets and model-checking instances | |

A definition whose name ends in `__something` is a plausible wrong version of the
definition that follows it (a dropped guard, a swapped order). No specification
uses it: it serves to confirm that a property notices that mistake.

### How state and actions correspond to the code

*Lease.* `authority.leases` and `authority.epochs` are the two maps of
`LeaseAuthority`. `execute` is the whole of `handle_request` under the write
lock; `client_acquire`, `client_renew`, `client_release` put a request on its
way (`LeaseClient::submit`), `receive` is the answer coming back, `GiveUp` a
caller that drops the future, so that an answer may be executed and never read.
`held[n][s]` is what node `n` believes: it is what a holder can conclude from a
`LeaseResult`, and is marked external. Times are integers; durations are a
constant set, which may contain 0 since `acquire` does not refuse it.

*Replicas.* The consensus is openraft and external; it is reduced to what decides
which entries a replica applies. Each replica has a log of its own (`log[r]`,
`LogStoreInner`); `client_write` appends to the leader's, `append` replicates it
(append and truncate of the log store), an entry of the present term that a
majority holds is committed, and a majority whose logs are not ahead elects
(`Elect`). `apply` is `LeaseStateMachine::apply`, with the authority reading the
clock *when the replica applies the entry*. `Restart` is `build_lease_authority`
on a node that comes back: log store and state machine start empty, and the node
may vote at once. `grants` is history: what the callers were told.

*Worker.* `tracker[j]` is the client's `JobTracker.state`, `jobs[j]` the
worker's record, `sched[j]` and `probe[j]` the tasks spawned by
`schedule_job` and `probe_state` between their call and their answer.
`pick_top_n` is any ranking of known workers, of which `spawn` tries the first.
The futures returned by `StreamHandle::after` are never awaited, so no time-out
arrives: there is no action for them. An event is appended to a bounded queue
that drops its oldest element (`Emit`), and `HandleEvent` gives it to the client or
drops it: as the event bus stands every one is dropped, so each behaviour of the
code is one of the model's, which also covers a bus that delivers.

*Secrets.* A key is its epoch. Each of "read the current epoch", "derive its
key", "use it" is a step, because each takes the lock on its own. `Runbook`
selects whether the operator follows the six steps in the documentation of
`SecretManager`; `Upsert` selects the in-memory store, whose `replace_secret`
inserts a missing row; the run has it, because that is the store `entrypoint.rs:53`
wires. The guards of the runbook (`Switch`, `Retire`, `InUse`) are the operator's:
no code enforces them.

*Frame tree.* `Put` is a mutable access to a loaded container, which raises the
dirty flag and does nothing to a frame that is not loaded: the whole of
`tree.rs` is written in that idiom. `remove` pushes its frame on `stack`;
`remove_deleted`, `remove_skipped` and `remove_failed` are the iterations of its
loop. `Reopen` drops the tree: dirty containers leave a write behind
(`writes`) and the next tree starts empty without waiting for it.
`removing` and
the parent a frame was created under (`origin`) are history, and so is what a failed
removal had still to remove (`missed`): links that a removal has cut are forgotten
by the tree, not by the property.

*Checkpointer.* The loop takes one event at a time and awaits its handler, so a
handler is one step: an operator from the record `s` (frames, queue, cache, rows,
jobs) to the next one, named after the Rust function. A handler that returns an
error keeps what it has already done (`Err`, `Then`), fails the session and stops
the loop. What interleaves are the jobs (`job_ends`, `job_lost`), the tasks that
write dropped clichés and `close`. The policies are those the `append_*`
functions give: `set_resume_policy` and `set_reduce_policy` change nothing,
because they do not await `set_policy_of`. A handler that commits reads the
latest cliché, and the commit reads it again: `stale` is the task that writes a
later one in between, and the commit then fails with `StaleSuperstep`
(`Overtaken`). `Init` loads a session from its rows, run before or not, with or
without stored clichés; `initialise_as_new` is empty, so no code of the repository
writes the first ones: the store is taken to hold them, or nothing. A run answers anything its kind and its log
allow (`Responses`). `told` is history.

*Live session.* `tasks` holds what is written and not emitted yet. The view of a
session is three reads (`get_session`, `list_log`, `list_pendings`) and the
subscription comes after the last; each is a step. `send_ckp_event` returns the
inbox unchanged: the controller drops the future that would deliver the event.
The terminal is a thread with a queue, which cannot print while it reads a line;
a `LongText` reads lines until one is `.`. Events are given (`next_event`,
`overhear`, `run_topic`) or skipped because they do not parse (`skip_event`,
`skip_topic`): the code as written always skips, and the properties hold either way.

*Messaging.* `mode` selects a process on its own or a cluster. Each subscriber of
a broadcast channel has a buffer that drops its oldest message when it is full
(`Push`), and a message that was dropped is remembered in `lost`; the
buffers of an event stream are bounded in the same way, and that of the network
also loses events to what else the swarm reports (`lag`). The payload of an event
is the bare event (`to_vec`), the typed stream reads an envelope out of it
(`deserialize`): `seen` is what the router's stream gives, `given` what is left for
the subscriber. A call is sent
(`call`), delivered, executed by a task (`handle_call`, `execute_panics`) and
answered; `cancel` drops its future. The swarm of a node takes its commands in
order; a reply to the default node makes its task panic, as in the code.

*Gateway.* An actor is idle, or `busy` with one command whose next awaited call
is `at`. Commands reach it through a bounded inbox that drops the oldest. The
clients of sessions and workspaces are external: a call fails and changes
nothing, or succeeds and publishes an event to every actor. `outbox` is everything
the actor gave to `foreign_tx`; it ignores whether that succeeds (`lib.rs:246`), so
what is lost after it changes no step of an actor.

*Chat page.* `page` is the signals of `ChatView`, `spawned` the futures it has
spawned: a task sends on the socket, which it takes out of its cell for that
time, or calls a server function, which answers in any order. The websocket is
FIFO both ways; the connection and its registry are `conn`. Each message of a task
is sent, or fails, on its own. `serve_ends` is the break of `serve`: the registry
goes with it, what was under way may be lost, and the page, which does not connect
again, stays as it is.

*Catalog, models, command line.* One action per awaited call; `task[c]` is the
call that caller `c` makes next. A caller works on the shared database or in its
own memory. The stack of the command line is `stack`, what it waits for `work`,
the last line it printed `said`; a command that awaits holds the loop and the
other process runs meanwhile. `Fail` is an error of a store or a dropped future.

## 3. What TLC checks

| Run | Properties | Bounds and why they suffice |
|---|---|---|
| `lease_service` | `TypeOK`, `EpochGrantedOnce`, `MutualExclusion`, `HolderIsProtected`, `LockSpec` | 2 nodes, 1 session, one duration; enough requests for acquire, expiry, acquire by the other, and a late renew or release of the first |
| `lease_replicas` (violation) | `EpochNeverReissued` | 3 replicas, 2 holders, 1 session, logs of 4 entries, two terms, one restart, a duration of one tick: the shortest way to elect a replica without the committed grant |
| `worker_jobs` | `OutcomeIsTrue`, `ExecutedAtMostOnce` | two jobs, one of them with arguments that do not parse; two workers, one of them not serving; a short queue so that events are lost; a crash and a restart |
| `secret_rotation` | `CurrentIsLoaded`, `RotationIsSeamless` | 2 nodes, 3 epochs: a rotation may start before the previous one is over; in-memory store |
| `frame_tree` | `LinksAgree`, `WalksEnd`, `RemoveTakesSubtree` | 4 frames: a middle sibling, and a subtree of depth 3; a tree that is reloaded, with writes still in flight, has at most 3 |
| `session` | `TerminationReachesParent`, `NoStrandedFrame`, `JoinWaitsForAll`, `SnapshotsHaveNoGap`, `ValuesComeFromBelow` | a session loaded as a thread, a fork, a node and its expert, a call of two tools or a graph that has not started, each run before or not; 5 frames and 3 jobs, enough for a join, what it resumes, and a branch that goes on after it |
| `messaging` | `ExecutedOnceByAddressee`, `WaitingCallIsUnderWay`, `StreamGivesEventsOnce` | one process with 4 inputs (calls, cancels, registrations, events), or two nodes with 3 (connections, expiry, shutdown too); buffers of 2, so that they lag |
| `event_bus` (violation) | `OwnEventsAreVisible` | the same instances; one stream and one event are enough |
| `live_session` | `OneLineAtATime`, `JournalNeverGoesBack` | one entry of the journal in three versions, a text request and a form of two questions, two replies; a session that fails, is deleted, or is left and attached again |
| `gateway` | `RelayedAfterGrant`, `RepliesInOrder`, `ReferenceHasRecord`, `ClosedActorEnds` | 2 connections, 2 sessions, 2 workspaces, an inbox of 2; seven mixes of commands, failures and ends, which together hold every command |
| `chat_page` | `ShownFormIsRegistered`, `TypedForThisForm`, `JournalOfOpenSession` | 2 sessions, 2 forms, 1 workspace; five mixes of clicks, events and failures, the loss of the websocket among them |
| `cli` | `StackIsWellFormed`, `PromptReturns` | a graph of two nodes and a channel, a model, an expert and a tool, 3 versions of each; four mixes of commands, edits and operations of the other process |

The `TypeOK` of the modules describe their state; a run checks the one of the
lease service, which is also proved.

A *mix* fixes, in the initial state, how many inputs of each kind a behaviour
has: each mix is small, and TLC explores all of them. The bounds named `Max...`,
`Capacity`, `Backlog`, `EventCap`, `Budgets`, `Mixes` and `Bounds` are the only
ones; the capacities stand for the 256 slots of the code and are small so that
lagging happens.

Conditions under which properties are stated, and why:

- `MutualExclusion` needs one duration for all requests. With two, a renewal may
  *shorten* a lease while its answer is late: the node still counts on the longer
  one it had been told of, and another acquires. The code lets each call choose a
  duration, so the theorem states the condition (`SingleTTL`); the other
  properties of the lease are proved for any set of durations, 0 included.
- `LinksAgree` and `RemoveTakesSubtree` speak of a tree that was never dropped and
  loaded again. After a reload neither holds: rows of different ages are loaded
  together; `remove` looks frames up with `arena.get`, which does not load them,
  and returns `Ok` without having deleted what it did not find (`tree.rs:337`).
  `WalksEnd` holds in every case.
- `RemoveTakesSubtree` follows the parents frames were created under, not the links
  the tree still has. It leaves out exactly what a failed removal had still to
  remove when it stopped, with what is below: the retry cannot find it (see the
  observations). Everything else must go, at once or on a retry.
- `RotationIsSeamless` is about an operator who follows the runbook.
- `ShownFormIsRegistered` is about a page whose websocket is open.
- `RepliesInOrder` is about the commands an actor took and the replies it gave.
- `NoStrandedFrame` names the frames that the code really strands: those whose
  job ended without an outcome, whose run failed, whose result names a next node
  that does not exist, that wait for a person, or that wait without a child.
- `WaitingCallIsUnderWay` is about one process: in a cluster no reply reaches its
  caller (see below). Calls whose message was lost to a lagging buffer, or whose
  procedure panicked, are left out: nothing retries them.
- `ExecutedAtMostOnce` rests on the client, which sends `ScheduleJob` once, and on
  `ExecutedOnceByAddressee`, by which the messaging layer does not repeat a call; the
  worker itself does not look for duplicates (`worker/server.rs:119`).
- `ReferenceHasRecord` leaves out what somebody removed or added by name, and a
  creation whose compensation failed as well.

Deadlock is not checked where the system may rightly come to rest (all requests,
versions, frames or jobs of the instance used up), that is everywhere but in
`secret_rotation`, where an operation is always possible.

*Fairness.* `Gateway!Fairness`: weak
fairness of the `run` loop of each actor, one tokio task; it assumes that the calls
to sessions and workspaces return. `ReplSpec`: weak
fairness of `run`, the loop of the command line with the calls it awaits, which
are local or go to PostgreSQL; the session it runs comes back, as a session just
created is not found. No fairness is assumed of people, of failures
or of the other process.

### Observations

Behaviours that the models follow the code in, and that a reader of the code's
documentation would not expect. Each was met while writing the property it
limits.

*Lease, workers, secrets, frames.*
- An epoch is granted twice (run `lease_replicas`, `EpochNeverReissued`). A replica
  that restarts with an empty log (`lease/server.rs:45`) lets a majority elect a
  leader that never had a committed grant, where `lease/storage.rs:4` says that it
  "rejoint simplement avec un journal vide et se resynchronise depuis les autres".
  Without any restart `lease/authority.rs:65` is enough: it reads the clock inside
  the replicated state machine, so replicas that apply one `Acquire` on two sides of
  an expiry decide differently, and after a change of leader the epoch is given
  again (`MaxRestarts = 0` in the configuration shows it).
- `worker/client.rs:166`: `StreamHandle::after` is an `async fn` that is not
  awaited, and `rpc/client.rs:175` waits without a time-out. After a crash of the
  worker, or when a call is lost to a lagging buffer, a handle never ends
  (`src/README.md:23`: "qui se termine toujours"); nothing retries a lost call, though
  `network/swarm.rs:37` says that the caller "la retentera de toute façon". A job that
  stays `Running` is probed again as soon as the last probe has answered, without a
  pause (`worker/client.rs:168`, `:205`): `MaxProbes` bounds in the model what the code
  does not.
- `secret/vault.rs:93` encrypts with a raw key, which stamps epoch 0: a secret
  stored after a switch to another epoch cannot be opened (`secret/mod.rs:472`).
- With the secrets the program wires, in memory, a secret that was removed comes back
  when an update of it was under way (`secret/in_memory.rs:34`; `vault.rs:123`:
  "Supprime définitivement").
- The runbook of `secret/mod.rs:227-245` is only text: nothing stops a node from
  switching to an epoch the others lack (`:309`), or from retiring one that another
  task has read and is about to derive a key from (`:442`).
- `session/frames/tree.rs:339`: a removal that fails below its frame has already
  taken that frame out and cut its links, and a retry returns `Ok` with the child
  still there (`tree.rs:327-330`: "l'appelant peut réessayer sur le même `id`").
- The write that a dropped container leaves behind (`session/frames/container.rs:94`)
  may store a frame again that the next tree has deleted.
- `model/mod.rs:115`: a change that overlaps a delete publishes the model again,
  and its key is gone: the version can be read and not used (`model/mod.rs:118`). A model inserted twice leaves its
  first key behind (`:126`), and a change drops what was published since it read
  the model (`:101`).
- A late answer puts a job that is over back into a live state
  (`worker/client.rs:153`); its handle has ended and `OutcomeIsTrue` holds.
- Lease groups are bootstrapped from each node's own view of the members
  (`lease/server.rs:74`): two views, two groups.

*Sessions.*
- `controller.rs:268` does not await the relay to the checkpointer: as written no
  event reaches it. `create_session` stores no row (`initialise_as_new` is
  empty), so that attaching to a new session fails.
- `close` waits for a queue of which the loop holds a sender
  (`checkpointer/mod.rs:130`): it returns only from a session that failed. Deleting
  a healthy cached session hangs, and an evicted one is not closed, where
  `controller.rs:142-144` says that it is persisted before it is lost.
- A detached write that lands between the two reads of the latest cliché makes the
  commit fail with `StaleSuperstep` (`checkpointer/mod.rs:546`), and the session
  with it. The cliché of superstep 0, from which a commit counts, is written by no
  code: `initialise_as_new` (`:99`) is empty.
- The end of one child wakes its parent twice (`:259` and `:1005`): a join may
  take place twice, an `Append` channel gets its values twice, and a frame may
  have two unresolved logs (`run_log.rs:54`). A failed frame is resumed by a later
  child. A branch that was run twice may end its second run after the join, and
  go on: what holds, and `JoinWaitsForAll` states, is that every branch has ended
  at the step that makes the join ready, not ever after.
- `latest` reads the store and not the cache (`snapshot/mod.rs:226`): a join
  misses a cliché that was pushed and not written, and a second commit starts
  again from the stored one.
- Jobs of structural frames panic (`session/worker.rs`), so an aggregator of tools
  never completes. Experts write `expert_consultation_answer` and export
  `expert_answer` (`worker.rs:117`). A graph frame waits without a child
  (`checkpointer/mod.rs:708`). `RunFailed` is never left.
- Answers are written before they are validated (`hitl/service.rs:100`), and a second
  one may be written before the first is announced: what is announced is then not
  what is stored; the
  PostgreSQL list of pending requests tests for a missing key where the row holds
  a JSON null, and is always empty. In memory the view reads stores that nothing
  writes to.
- The view is read before the subscription: the end of a session in between is
  never learnt. The terminal does not print while it reads a line
  (`marie-cli/src/repl/input.rs:50`; `executing_session.rs:149` says it does).
  A session that fails after it was deleted is stored again. On a closed standard
  input every line of a `LongText` is empty and the `.` never comes
  (`executing_session.rs:103`).

*Messaging.*
- No typed event is ever given (run `event_bus`, `OwnEventsAreVisible`). `EventBus::emit`
  serialises the bare event (`events/mod.rs:251`), `stream_events` must yield
  `EventEnvelope<E>`, reads the payload as one (`:264`) and drops what does not parse
  (`:266`). Its users are the worker client (`worker/client.rs:101`), the command line
  (`session/client.rs:40`) and the controller (`session/controller.rs:244`): they learn
  nothing from events, and the journal the terminal shows stays what it read at first.
  `events/mod.rs:66-72` explains how local subscribers come to see local events.
- Every envelope has the default node as its source (`post/mod.rs:227`), so the
  reply to a remote call makes the swarm's task panic, and a connected peer never
  enters the directory.
- The capabilities of a peer may arrive after it has gone and enter it again
  (`annuary/mod.rs:278`); an mDNS expiry takes out a peer that is still connected
  (`network/swarm.rs:302`).

*Gateway, page, command line.*
- A lagging websocket drops commands without an answer (`marie-ws/src/layer.rs:49`)
  while the protocol matches replies by their order (`protocol.rs:109`).
  A reply whose send fails, or that a lagging reader loses, is not sent again
  (`lib.rs:246`). `RepliesInOrder` is therefore about the commands the actor took and
  the replies it gave; what the other end misses shifts its matching. Rights are
  never withdrawn; removing a session leaves its references.
- A send that finds the socket taken is dropped without a word
  (`chat_view.rs:191`, `:326`, `:550`). Late answers show the variables and files
  of the session opened before (`:338`). A file whose upload ends after the form
  was sent goes with the next form (`:533`). An answer that fails is not kept
  (`ws.rs:131`). When the websocket is lost its registry goes with it
  (`ws.rs:194-220`) and the page opens no other: the forms stay on the screen and
  their answers go nowhere.
- A frame is stored before its job is submitted, and stays when that fails
  (`ws.rs:159`).
- `save` takes a graph off the stack before it publishes it
  (`editing_graph.rs:67`): a failure loses the edit. `add_channel` accepts a name
  twice and `set_channel` edits the first. A `list` fails as a whole when one item
  is deleted meanwhile. Secrets are kept in memory even beside PostgreSQL
  (`entrypoint.rs:52`): a model of another process cannot be opened.

## 4. What is proved

`LeaseServiceProofs` proves, for any sets of nodes, sessions and durations and
any number of requests:

- `TypeCorrect`, `EntryCarriesLastEpoch`: types, and that the two maps of the
  authority do not drift apart.
- `FencingTokenIsUnique`: `EpochGrantedOnce`. It is not inductive: the
  strengthening says that every recorded grant is at or below the last epoch of
  its session.
- `ServiceImplementsLock`: the refinement `Spec => Lock!Spec`; each step maps to
  a take, a release, an expiry or a stutter of `FencedLock`.
- `LeaseMutualExclusion` and `HolderHasHighestToken`, under `SingleTTL`. The
  inductive invariant (`HoldInvariant` and the lemmas before it) relates three
  places in which a tenure lives: what a node holds, the answers on their way
  and the entry of the authority. A tenure a node may still count on is the
  entry's tenure, and the entry's expiry is no earlier than any expiry told to
  anyone for that epoch; with one duration a later renewal can only extend it.

`SecretRotationProofs` proves, for any nodes, epochs and secrets:

- `NodeHasItsKey`: `CurrentIsLoaded`, inductive as it stands.
- `RunbookRotatesSeamlessly`: `RotationIsSeamless` when the operator follows the
  runbook. The strengthening: the current epoch of *every* node, the epoch of
  every task and of every message in transit are loaded on *all* nodes. The
  guard of `Switch` establishes it, the guard of `Retire` keeps it.

`WorkerJobsProofs` proves, for any jobs, workers, probes and queue lengths:

- `TypeCorrect`, with the lengths of the queues.
- `OutcomesAreTrue` (`OutcomeIsTrue`) and `OneAttempt` (`ExecutedAtMostOnce`).
  The invariant `JobInv` says of *every* place that may hold a state of a job
  (tracker, handle, the worker's record, probes, events on their way) that a final
  state it names is the result of the execution, or that the job never reached an
  executor and never will; and how far the one attempt at the job has come.

and about `Messaging`, for any set of nodes, capacities and inputs
(`MessagingInvariant`, on which the others rest):

- `CallsRunOnceAtTheirNode` (`ExecutedOnceByAddressee`). The invariant `AsksInv`
  says that a call is in one place at most, and there once: with the swarm of its
  caller, on the wire, in the local or the network buffer of its addressee, or taken
  by that server; and that whatever carries a call, anywhere, carries one that was
  made. `Brings` names the one place a step may bring the call to (`MovedKeeps`);
  all the other steps are quiet (`QuietKeeps`).
- `LocalCallsAreNotForgotten` (`WaitingCallIsUnderWay`). In a process on its own
  an unanswered call is tracked, no swarm runs, a reply in a buffer has a result,
  and a call made once both loops were ready is in a buffer, in a task or in a
  reply, or was counted as lost. A loop that is ready never stops being so.
- `StreamsGiveEventsOnce` (`StreamGivesEventsOnce`). The local and the network
  flow of a stream stay apart because the invariant follows an event from the
  command that publishes it to the streams: one that is not published yet is known
  on its own node only, and one on the wire is new to the node it goes to.

and about `Repl`, beside another process that changes the catalog:

- `StackStaysWellFormed` (`StackIsWellFormed`), inductive once the stack is known
  to be a sequence of frames (`StackInv`).

`FrameTreeProofs` proves, for a tree of any size:

- `LinksTellOneStory` (`LinksAgree`) and `RemoveIsComplete` (the action property
  `RemoveTakesSubtree`), while the tree was never dropped and loaded again, as the properties say. The invariant
  `TreeInv` has the links of siblings, children and parents to one another; an
  *age* of the frames by which parents are older than their children, so that
  following links ends; and, for a removal under way, that whatever is left of the
  subtree it began with is on the stack or below something that is. `remove` takes
  a frame out of the list of its parent with `retain`, a recursive function; what
  it computes is proved by taking the least counterexample.
- `WalksComeToAnEnd` (`WalksEnd`), for every tree, reloaded ones included. Nothing
  is left there of the agreement between frames; what is left is a *ranking*
  (`RankedInv`): numbers that rise along every link to a next sibling and fall along
  every link to a previous one, and ages by which children are younger than their
  parents. Loaded frames, rows and writes still in flight all follow it, however
  they are mixed. A new frame gets a number below or above all others, since
  `insert` at 0 and `append` put it first or last; a frame that is taken out leaves
  links that skip it, and those follow the ranking too.

`CheckpointerProofs` proves, for any tree a session is loaded with and any number
of frames, jobs and requests:

- `NobodyStranded` (`NoStrandedFrame`), `EndsReachParents`
  (`TerminationReachesParent`), `SuperstepsWithoutGap` (`SnapshotsHaveNoGap`),
  `SessionTyped` (`TypeOK`) and
  `JoinAfterAll` (the action property `JoinWaitsForAll`), from one invariant
  `IInv`. None of them is inductive. That nobody is stranded needs that a frame
  that has not started has no child (`Barren`: else it could wait for a child whose
  end was announced before anybody waited); that ends reach parents needs that a
  frame that ended is loaded (`Known`); that a cliché is never missing needs that
  one not yet written is at most one superstep ahead of the frame (`Ahead`).
- `ValuesFromBelow` (`ValuesComeFromBelow`), for any channels, reducers, imports and
  exports of the graph. The invariant says it of every cliché, stored, cached or on
  its way to the store (`Sourced`), with what the next one needs: that the superstep a frame
  names is in the store (`Present`), since a commit reads it there. "Below" is said
  without recursion: a frame is `Under` another if every set of frames that has the
  one and is closed under parents has the other. That is kept when the tree grows,
  and agrees with the recursive `lineage` of the property (`LineageExists`,
  `LineageIs`). Each reducer returns numbers it was given (`LastWriteFrom`,
  `AppendFrom`, `MaxFrom`), a run gives its own frame's (`OwnUpdates`), and a join
  those of children the filter of imports and exports lets through
  (`DrainedUpdates`).
- The argument follows the code. A handler is a composition of small operators on
  the record `s`; `Moved(a, b, X, R)` says what each of them may do: it changes the
  status of the frames of `X` only, makes ready those of `R` only, announces every
  end it causes, and loses no event, job or row. Moves compose into handlers (`Handled`, `Dispatched`, `Grew`); the
  loops over children are proved by taking the least child at which the claim
  would fail (`UpTo`); and the steps of jobs, writing tasks, people and `close` are
  shown to happen `Beside` all of it.

`GatewayProofs` proves, for any number of connections, sessions, workspaces and
commands, with failures, lagging and closing sockets:

- `NothingIsRelayedUngranted` (`RelayedAfterGrant`), `RepliesMatchCommands`
  (`RepliesInOrder`), `ReferencesAreSound` (`ReferenceHasRecord`). Every step moves
  each actor in one of six ways (it is left alone, takes a command, refuses it,
  replies, goes to its next call, relays an event), and each way keeps that the
  replies sent are as many as the commands taken before the present one, and that
  the rights an actor has were given by a reply it sent before. For the references
  the invariant adds that a session being created is in no other workspace, unless
  somebody added it by its name.

`LiveSessionProofs` proves, for any number of entries, versions, requests,
answers and attachments, and any capacity of the channels:

- `ScreenNeverGoesBack` (the action property `JournalNeverGoesBack`), whether events
  are given or skipped. A version of an entry goes through a task, the
  subscription, the queue of the terminal and the screen. The invariant orders
  them: what is further along is never newer, a task holds the content of the
  store (its caller awaits each write), and the view that a new attachment reads
  is newer than all that is still to be printed. Each step moves the journal in
  one of nine ways (`JournalMoves`).
- `LinesAreAwaited` (`OneLineAtATime`): a line is in the queue or being read, not
  both, while a question is asked, and neither otherwise.

and about `ChatPage`, for any sessions, forms and budgets (`ChatPageInvariant`,
from which the others follow):

- `ShownFormsAreRegistered` (`ShownFormIsRegistered`): a form is in one place only,
  on its way to the page, in the queue of the page or answered, and on no queue
  twice; the connection remembers it until it is answered, while it is open.
- `AnswersStayWithTheirForm` (`TypedForThisForm`): what is typed belongs to the
  first form of the queue.
- `JournalIsOfOpenSession` (`JournalOfOpenSession`): the lines of a session have one
  order, through those on the page, on their way and still to come; opening another
  session empties the page.

The theorems assume the conditions named above and the named assumptions of the
modules on their constants, which TLC evaluates in the runs: among them that the
marker of an absent frame is no frame (`AbsentAssumption`), that of an idle actor
no command (`NoCommandAssumption`), that the markers of the chat page and of
messaging are none of the things they stand beside (`ChatPageAssumption`,
`MessagingAssumption`), and that a frame is created after its parent and the
reducers of a graph are those of the code (`CheckpointerAssumption`).
The inductive invariants that TLC can evaluate (`AsksInv` quantifies over every
message) were checked on the instance of their run before they were proved.

Only model-checked: liveness under fairness (`ClosedActorEnds`,
`PromptReturns`), which with `ENABLED` is out of the prover's reach. Every invariant
and every other action property of the passing runs is stated by a theorem. Nothing
is proved about `LeaseReplicas`, whose run shows a violation.

## 5. Not modelled

openraft, libp2p, HKDF/HMAC/ChaCha20, SQL, the OpenAI API and rustyline are
external and appear by the guarantee the code relies on. Scripts and built-in
nodes are evaluated inside one run and appear as the answers a run may give.
Procedural macros, dependency injection, identifiers, prompts, tool executors,
rendering, completion, the configuration panel and the graph editor of the web
example carry no concurrent state of their own. The vote and the
purge of `lease/storage.rs`, the bootstrap of the lease group, the leader hint and the
eviction from the controller's cache of 300 sessions are not modelled: the first
three only serve openraft or the choice of a node, and an eviction is a `close`.
`components` in `PROJECT.json` gives the reason for each part.

## 6. Plan

Modelling still worth doing: the bootstrap of the lease group on top of the
directory in `Messaging`; the controller's cache with several sessions.
