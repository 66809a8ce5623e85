----------------------------- MODULE WorkerJobs -----------------------------
(***************************************************************************)
(* A job from WorkerClient::spawn to the end of its JobHandle stream       *)
(* (worker/client.rs), and the Worker that executes it (worker/server.rs). *)
(*                                                                         *)
(* Three sources overwrite the client's tracker of a job, in any order:    *)
(* the answer to ScheduleJob, the answers to GetJobState and the JobUpdate *)
(* events.  RPC calls and answers are delayed arbitrarily, may be lost     *)
(* (no step is fair) and never time out (rpc/client.rs); events come in    *)
(* order from a bounded broadcast channel that drops the oldest when full. *)
(*                                                                         *)
(* The timers of handle_job_state are not modelled because they never run: *)
(* StreamHandle::after is an async fn whose future is dropped unpolled, so *)
(* no AckTimeOut, ProbingTimeOut or Probe event ever reaches               *)
(* handle_timer_event.                                                     *)
(***************************************************************************)
EXTENDS Integers, Sequences, FiniteSets

CONSTANTS Job,        \* JobId
          Worker,     \* NodeId of the workers the annuary may pick
          Registered, \* jobs whose name has an executor on the workers
          BadArgs,    \* jobs whose arguments the executor cannot deserialize
          NotServing, \* workers whose RPC server has no ScheduleJob executor
          NoWorker,
          MaxProbes,  \* bound: outstanding probe_state tasks per job
          EventCap,   \* capacity of the event channel
          MaxCrashes  \* bound: crashes of workers

ASSUME WorkerJobsAssumption ==
  /\ IsFiniteSet(Worker) /\ Worker # {} /\ Registered \subseteq Job /\ BadArgs \subseteq Registered
  /\ NotServing \subseteq Worker /\ NoWorker \notin Worker
  /\ MaxProbes \in Nat \ {0} /\ EventCap \in Nat \ {0} /\ MaxCrashes \in Nat

Slot == 1..MaxProbes

VARIABLES tracker,  \* tracker[j]: JobInfo.state, also what the listeners hold
          target,   \* target[j]: the worker the job was given to
          sched,    \* sched[j]: progress of the schedule_job task
          probe,    \* probe[j][p]: progress of a probe_state task
          outcome,  \* outcome[j]: the state that ended the handle's stream
          events,   \* JobUpdate events on their way to the client
          jobs,     \* jobs[j]: the worker's own JobState
          exec,     \* exec[j]: progress of the execute_job task
          alive,    \* alive[w]
          crashes,
          starts,   \* history: times an executor was called for j
          result    \* history: what the executor of j ended with

client == <<tracker, target, sched, probe, outcome>>
worker == <<jobs, exec, starts, result>>
vars == <<client, events, worker, alive, crashes>>

Terminated == {"Completed", "Failed"}
JobState == {"PendingScheduling", "PendingAck", "Probing", "Scheduled",
             "Running"} \cup Terminated
WorkerState == {"Scheduled", "Running"} \cup Terminated
SchedStep == {"none", "spawned", "calling", "Ack", "Refused", "RpcError", "done"}
ProbeStep == {"idle", "spawned", "calling", "NoJobFound"} \cup WorkerState

TypeOK ==
  /\ tracker \in [Job -> JobState \cup {"none"}]
  /\ target \in [Job -> Worker \cup {NoWorker}]
  /\ sched \in [Job -> SchedStep]
  /\ probe \in [Job -> [Slot -> ProbeStep]]
  /\ outcome \in [Job -> Terminated \cup {"none"}]
  /\ events \in Seq([job : Job, state : WorkerState]) /\ Len(events) <= EventCap
  /\ jobs \in [Job -> WorkerState \cup {"none"}]
  /\ exec \in [Job -> {"none", "spawned", "executing", "done"}]
  /\ alive \in [Worker -> BOOLEAN]
  /\ crashes \in 0..MaxCrashes
  /\ starts \in [Job -> Nat]
  /\ result \in [Job -> Terminated \cup {"none"}]

Init ==
  /\ tracker = [j \in Job |-> "none"]
  /\ target = [j \in Job |-> NoWorker]
  /\ sched = [j \in Job |-> "none"]
  /\ probe = [j \in Job |-> [p \in Slot |-> "idle"]]
  /\ outcome = [j \in Job |-> "none"]
  /\ events = <<>>
  /\ jobs = [j \in Job |-> "none"]
  /\ exec = [j \in Job |-> "none"]
  /\ alive = [w \in Worker |-> TRUE]
  /\ crashes = 0
  /\ starts = [j \in Job |-> 0]
  /\ result = [j \in Job |-> "none"]

-----------------------------------------------------------------------------
(* WorkerClient                                                            *)

(* tokio::spawn(probe_state), while fewer than MaxProbes are outstanding. *)
SpawnProbe(probes) ==
  IF \E p \in Slot : probes[p] = "idle"
  THEN [probes EXCEPT ![CHOOSE p \in Slot : probes[p] = "idle"] = "spawned"]
  ELSE probes

(* The tracker takes st, whatever it held, and the listeners with it; then *)
(* a state that is neither pending nor final spawns a probe.  `probes` is  *)
(* probe[j] as the caller of handle_job_state leaves it.                   *)
handle_job_state(j, st, probes) ==
  /\ tracker' = [tracker EXCEPT ![j] = st]
  /\ probe' = [probe EXCEPT ![j] =
       IF st \in {"Probing", "Scheduled", "Running"}
       THEN SpawnProbe(probes) ELSE probes]

(* hrw: the workers by decreasing score.  The score is a hash of the job   *)
(* and the node, so every order is that of some job.                       *)
Rankings == {r \in [1..Cardinality(Worker) -> Worker] :
               \A i, k \in DOMAIN r : r[i] = r[k] => i = k}

(* Annuary::pick_top_n *)
pick_top_n(ranking, n) == SubSeq(ranking, 1, IF n < Len(ranking) THEN n ELSE Len(ranking))

(* watch tracks the job in PendingScheduling, which spawns schedule_job. *)
watch(j) ==
  /\ sched' = [sched EXCEPT ![j] = "spawned"]
  /\ handle_job_state(j, "PendingScheduling", probe[j])

(* The best of three workers; the two others are never tried. *)
spawn(j, ranking) ==
  /\ tracker[j] = "none"
  /\ target' = [target EXCEPT ![j] = Head(pick_top_n(ranking, 3))]
  /\ watch(j)
  /\ UNCHANGED <<outcome, events, worker, alive, crashes>>

schedule_job_call(j) ==
  /\ sched[j] = "spawned"
  /\ sched' = [sched EXCEPT ![j] = "calling"]
  /\ handle_job_state(j, "PendingAck", probe[j])
  /\ UNCHANGED <<target, outcome, events, worker, alive, crashes>>

schedule_job_answered(j) ==
  /\ sched[j] \in {"Ack", "Refused", "RpcError"}
  /\ sched' = [sched EXCEPT ![j] = "done"]
  /\ handle_job_state(j, IF sched[j] = "Ack" THEN "Scheduled" ELSE "Failed",
                      probe[j])
  /\ UNCHANGED <<target, outcome, events, worker, alive, crashes>>

(* probe_state returns at once when the tracker has terminated; else it    *)
(* sets Probing (which spawns a further probe) and calls GetJobState.      *)
probe_state_call(j, p) ==
  /\ probe[j][p] = "spawned"
  /\ \/ /\ tracker[j] \in Terminated
        /\ probe' = [probe EXCEPT ![j][p] = "idle"]
        /\ UNCHANGED tracker
     \/ /\ tracker[j] \notin Terminated
        /\ handle_job_state(j, "Probing", [probe[j] EXCEPT ![p] = "calling"])
  /\ UNCHANGED <<target, sched, outcome, events, worker, alive, crashes>>

(* The answer overwrites the tracker; an error ends the task silently. *)
probe_state_answered(j, p) ==
  LET freed == [probe[j] EXCEPT ![p] = "idle"] IN
  /\ probe[j][p] \in WorkerState \cup {"NoJobFound"}
  /\ \/ /\ probe[j][p] \in WorkerState
        /\ handle_job_state(j, probe[j][p], freed)
     \/ /\ probe[j][p] = "NoJobFound"
        /\ probe' = [probe EXCEPT ![j] = freed]
        /\ UNCHANGED tracker
  /\ UNCHANGED <<target, sched, outcome, events, worker, alive, crashes>>

(* WorkerClient::run takes the next JobUpdate event off the bus.           *)
(* stream_events skips an event whose payload does not parse (which is     *)
(* every event of the code as it stands, see Messaging); both outcomes are *)
(* kept, so that what is shown does not rest on the parse failing.         *)
HandleEvent ==
  LET e == Head(events) IN
  /\ events # <<>>
  /\ events' = Tail(events)
  /\ \/ handle_job_state(e.job, e.state, probe[e.job])
     \/ UNCHANGED <<tracker, probe>>
  /\ UNCHANGED <<target, sched, outcome, worker, alive, crashes>>

(* JobHandle::stream looks at the watch cell and ends on a final state. *)
ReadHandle(j) ==
  /\ outcome[j] = "none"
  /\ tracker[j] \in Terminated
  /\ outcome' = [outcome EXCEPT ![j] = tracker[j]]
  /\ UNCHANGED <<tracker, target, sched, probe, events, worker, alive, crashes>>

-----------------------------------------------------------------------------
(* Worker                                                                  *)

(* The broadcast channel: a full one loses its oldest event. *)
Emit(queue, e) ==
  Append(IF Len(queue) = EventCap THEN Tail(queue) ELSE queue, e)

update_state(j, st) ==
  /\ jobs' = [jobs EXCEPT ![j] = st]
  /\ events' = Emit(events, [job |-> j, state |-> st])

Serving(j) == target[j] # NoWorker /\ alive[target[j]]

(* The call is served again after it was answered. *)
schedule_job__redelivered(j) ==
  /\ sched[j] = "calling"
  /\ Serving(j)
  /\ target[j] \notin NotServing
  /\ j \in Registered
  /\ update_state(j, "Scheduled")
  /\ exec' = [exec EXCEPT ![j] = "spawned"]
  /\ sched' \in {sched, [sched EXCEPT ![j] = "Ack"]}
  /\ UNCHANGED <<tracker, target, probe, outcome, starts, result, alive, crashes>>

(* schedule_job: refused without an executor, else Scheduled, the task     *)
(* spawned and the answer on its way.                                      *)
schedule_job(j) ==
  /\ sched[j] = "calling"
  /\ Serving(j)
  /\ \/ /\ target[j] \in NotServing
        /\ sched' = [sched EXCEPT ![j] = "RpcError"]
        /\ UNCHANGED <<jobs, exec, events>>
     \/ /\ target[j] \notin NotServing
        /\ j \notin Registered
        /\ update_state(j, "Failed")
        /\ sched' = [sched EXCEPT ![j] = "Refused"]
        /\ UNCHANGED exec
     \/ /\ target[j] \notin NotServing
        /\ j \in Registered
        /\ update_state(j, "Scheduled")
        /\ exec' = [exec EXCEPT ![j] = "spawned"]
        /\ sched' = [sched EXCEPT ![j] = "Ack"]
  /\ UNCHANGED <<tracker, target, probe, outcome, starts, result, alive, crashes>>

(* A job the worker does not know is taken to be over. *)
get_job_state__unknown_is_over(j, p) ==
  /\ probe[j][p] = "calling"
  /\ Serving(j)
  /\ probe' = [probe EXCEPT ![j][p] =
       IF jobs[j] = "none" THEN "Completed" ELSE jobs[j]]
  /\ UNCHANGED <<tracker, target, sched, outcome, events, worker, alive, crashes>>

get_job_state(j, p) ==
  /\ probe[j][p] = "calling"
  /\ Serving(j)
  /\ probe' = [probe EXCEPT ![j][p] =
       IF jobs[j] = "none" THEN "NoJobFound" ELSE jobs[j]]
  /\ UNCHANGED <<tracker, target, sched, outcome, events, worker, alive, crashes>>

(* execute_job up to the call of the executor. *)
execute_job_start(j) ==
  /\ exec[j] = "spawned"
  /\ Serving(j)
  /\ update_state(j, "Running")
  /\ exec' = [exec EXCEPT ![j] = "executing"]
  /\ starts' = [starts EXCEPT ![j] = @ + 1]
  /\ UNCHANGED <<client, result, alive, crashes>>

(* The executor returns a value, an error, or panics inside its future. *)
execute_job_end(j, st) ==
  /\ exec[j] = "executing"
  /\ j \notin BadArgs
  /\ Serving(j)
  /\ update_state(j, st)
  /\ exec' = [exec EXCEPT ![j] = "done"]
  /\ result' = [result EXCEPT ![j] = st]
  /\ UNCHANGED <<client, starts, alive, crashes>>

(* Deserializing the arguments panics outside catch_unwind: the task dies  *)
(* and the job stays Running.                                              *)
execute_job_dies(j) ==
  /\ exec[j] = "executing"
  /\ j \in BadArgs
  /\ Serving(j)
  /\ exec' = [exec EXCEPT ![j] = "done"]
  /\ UNCHANGED <<client, events, jobs, starts, result, alive, crashes>>

(* A worker process stops: its jobs map and its tasks are gone.  Calls     *)
(* that did not reach it yet wait for a process that may come back.        *)
Crash(w) ==
  /\ alive[w]
  /\ crashes < MaxCrashes
  /\ crashes' = crashes + 1
  /\ alive' = [alive EXCEPT ![w] = FALSE]
  /\ jobs' = [j \in Job |-> IF target[j] = w THEN "none" ELSE jobs[j]]
  /\ exec' = [j \in Job |-> IF target[j] = w /\ exec[j] # "none"
                            THEN "done" ELSE exec[j]]
  /\ UNCHANGED <<client, events, starts, result>>

Restart(w) ==
  /\ ~alive[w]
  /\ alive' = [alive EXCEPT ![w] = TRUE]
  /\ UNCHANGED <<client, events, worker, crashes>>

-----------------------------------------------------------------------------
ClientStep(j) ==
  \/ schedule_job_call(j) \/ schedule_job_answered(j)
  \/ ReadHandle(j)
  \/ \E p \in Slot : probe_state_call(j, p) \/ probe_state_answered(j, p)

WorkerStep(j) ==
  \/ schedule_job(j)
  \/ execute_job_start(j)
  \/ \E st \in Terminated : execute_job_end(j, st)
  \/ execute_job_dies(j)
  \/ \E p \in Slot : get_job_state(j, p)

Next ==
  \/ \E j \in Job, ranking \in Rankings : spawn(j, ranking)
  \/ \E j \in Job : ClientStep(j) \/ WorkerStep(j)
  \/ HandleEvent
  \/ \E w \in Worker : Crash(w) \/ Restart(w)

Spec == Init /\ [][Next]_vars

-----------------------------------------------------------------------------
(* The state a JobHandle's stream ends with is what happened: Completed    *)
(* only when the executor did complete, Failed never when it completed,    *)
(* although late answers and dropped events reorder what the client sees.  *)
OutcomeIsTrue ==
  \A j \in Job :
    /\ outcome[j] = "Completed" => result[j] = "Completed"
    /\ outcome[j] = "Failed" => result[j] # "Completed"

(* "une seule tentative d'exécution": no interleaving of scheduling,       *)
(* probing, refusals and crashes makes a worker call the executor twice.   *)
ExecutedAtMostOnce == \A j \in Job : starts[j] <= 1
=============================================================================
