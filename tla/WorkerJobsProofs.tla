-------------------------- MODULE WorkerJobsProofs --------------------------
(***************************************************************************)
(* Proofs about WorkerJobs, for any number of jobs, workers, probes and    *)
(* crashes and any capacity of the event channel, and about Messaging,     *)
(* that carries the jobs' calls and events, for any set of nodes.  And     *)
(* about Repl, the command line, for any number of commands.               *)
(*                                                                         *)
(* A final state travels to the handle by many ways (the answer to         *)
(* ScheduleJob, the events, the answers to the probes, the tracker), each  *)
(* of which may hold it for as long as it likes.  The inductive invariant  *)
(* says that wherever a final state is, it is true, and that what makes it *)
(* true does not change any more.                                          *)
(*                                                                         *)
(* The invariant of Messaging has three parts that meet only in the post   *)
(* office: the calls and who tracks them; in a local process, where the    *)
(* envelope, the task or the reply of an unanswered call is; on the bus,   *)
(* that an event not published yet is unknown to the other nodes and one   *)
(* under way is new to the node it goes to.                                *)
(*                                                                         *)
(* The stack of the command line is well formed as it stands, once it is   *)
(* known to be a sequence of tagged states.                                *)
(***************************************************************************)
EXTENDS WorkerJobs, Messaging, Repl, TLAPS, FiniteSetTheorems

-----------------------------------------------------------------------------
(* Types *)

JobUpdate == [job : Job, state : WorkerState]

(* SpawnProbe changes an idle slot to spawned, if it changes any. *)
LEMMA SpawnProbeSlots ==
  ASSUME NEW probes \in [Slot -> ProbeStep]
  PROVE  /\ SpawnProbe(probes) \in [Slot -> ProbeStep]
         /\ \A p \in Slot : SpawnProbe(probes)[p] \in {probes[p], "spawned"}
BY DEF SpawnProbe, ProbeStep

(* handle_job_state sets the tracker of j, and may start one more probe. *)
LEMMA JobStateType ==
  ASSUME TypeOK, NEW j \in Job, NEW st \in JobState,
         NEW probes \in [Slot -> ProbeStep], handle_job_state(j, st, probes)
  PROVE  /\ tracker' \in [Job -> JobState \cup {"none"}]
         /\ probe' \in [Job -> [Slot -> ProbeStep]]
         /\ tracker'[j] = st
         /\ \A k \in Job \ {j} : tracker'[k] = tracker[k] /\ probe'[k] = probe[k]
         /\ \A p \in Slot : probe'[j][p] \in {probes[p], "spawned"}
<1>1. DEFINE next == IF st \in {"Probing", "Scheduled", "Running"}
                     THEN SpawnProbe(probes) ELSE probes
<1>2. next \in [Slot -> ProbeStep] /\ \A p \in Slot : next[p] \in {probes[p], "spawned"}
  BY SpawnProbeSlots
<1>3. tracker' = [tracker EXCEPT ![j] = st] /\ probe' = [probe EXCEPT ![j] = next]
  BY DEF handle_job_state
<1> HIDE DEF next
<1>4. QED
  BY <1>2, <1>3 DEF TypeOK

(* The event channel keeps updates, and only those it had or was given. *)
LEMMA EmitType ==
  ASSUME NEW queue \in Seq(JobUpdate), Len(queue) <= EventCap, NEW e \in JobUpdate
  PROVE  /\ Emit(queue, e) \in Seq(JobUpdate)
         /\ Len(Emit(queue, e)) <= EventCap
         /\ \A i \in DOMAIN Emit(queue, e) :
              \/ Emit(queue, e)[i] = e
              \/ \E k \in DOMAIN queue : Emit(queue, e)[i] = queue[k]
<1>1. EventCap \in Nat \ {0}
  BY WorkerJobsAssumption
<1>2. CASE Len(queue) = EventCap
  <2>1. queue # <<>>
    BY <1>1, <1>2
  <2>2. /\ Tail(queue) \in Seq(JobUpdate) /\ Len(Tail(queue)) = Len(queue) - 1
        /\ \A i \in 1..Len(queue) - 1 : Tail(queue)[i] = queue[i + 1]
    BY <2>1
  <2> DEFINE rest == Tail(queue)
  <2>3. Emit(queue, e) = Append(rest, e)
    BY <1>2 DEF Emit
  <2>4. rest \in Seq(JobUpdate) /\ Len(rest) = EventCap - 1
    BY <2>2, <1>2
  <2>5. \A i \in 1..Len(rest) : \E k \in DOMAIN queue : rest[i] = queue[k]
    BY <2>2
  <2> HIDE DEF rest
  <2>6. QED
    BY <1>1, <2>3, <2>4, <2>5
<1>3. CASE Len(queue) # EventCap
  <2>1. Emit(queue, e) = Append(queue, e)
    BY <1>3 DEF Emit
  <2>2. QED
    BY <1>1, <1>3, <2>1
<1>4. QED
  BY <1>2, <1>3

(* update_state keeps the worker's map and the event channel well typed. *)
LEMMA UpdateStateType ==
  ASSUME TypeOK, NEW j \in Job, NEW st \in WorkerState, update_state(j, st)
  PROVE  /\ jobs' \in [Job -> WorkerState \cup {"none"}]
         /\ jobs'[j] = st /\ \A k \in Job \ {j} : jobs'[k] = jobs[k]
         /\ events' \in Seq(JobUpdate) /\ Len(events') <= EventCap
         /\ \A i \in DOMAIN events' :
              \/ events'[i] = [job |-> j, state |-> st]
              \/ \E k \in DOMAIN events : events'[i] = events[k]
<1>1. events \in Seq(JobUpdate) /\ Len(events) <= EventCap
  BY DEF TypeOK, JobUpdate
<1>2. [job |-> j, state |-> st] \in JobUpdate
  BY DEF JobUpdate
<1>3. /\ events' = Emit(events, [job |-> j, state |-> st])
      /\ jobs' = [jobs EXCEPT ![j] = st]
  BY DEF update_state
<1>4. QED
  BY <1>1, <1>2, <1>3, EmitType DEF TypeOK

(* pick_top_n of a ranking of the workers starts with a worker. *)
LEMMA PickedWorker ==
  ASSUME NEW ranking \in Rankings
  PROVE  Head(pick_top_n(ranking, 3)) \in Worker
<1>1. IsFiniteSet(Worker) /\ Worker # {}
  BY WorkerJobsAssumption
<1>2. Cardinality(Worker) \in Nat /\ Cardinality(Worker) # 0
  BY <1>1, FS_CardinalityType, FS_EmptySet
<1> DEFINE n == Cardinality(Worker)
           m == IF 3 < n THEN 3 ELSE n
<1>3. ranking \in [1..n -> Worker]
  BY DEF Rankings
<1>4. n \in Nat \ {0}
  BY <1>2
<1> HIDE DEF n
<1>5. ranking \in Seq(Worker) /\ Len(ranking) = n
  BY <1>3, <1>4
<1>6. pick_top_n(ranking, 3) = SubSeq(ranking, 1, m)
  BY <1>5 DEF pick_top_n
<1>7. Len(SubSeq(ranking, 1, m)) = m /\ SubSeq(ranking, 1, m)[1] = ranking[1]
  BY <1>4, <1>5
<1>8. QED
  BY <1>3, <1>4, <1>6, <1>7

LEMMA TypeInit == Init => TypeOK
BY WorkerJobsAssumption DEF Init, TypeOK, SchedStep, ProbeStep, JobState

(* A step of the client keeps the types. *)
LEMMA ClientType ==
  ASSUME TypeOK, NEW j \in Job, ClientStep(j)
  PROVE  TypeOK'
<1>1. probe[j] \in [Slot -> ProbeStep]
  BY DEF TypeOK
<1>2. CASE schedule_job_call(j)
  <2>1. handle_job_state(j, "PendingAck", probe[j]) /\ "PendingAck" \in JobState
    BY <1>2 DEF schedule_job_call, JobState
  <2>2. QED
    BY <1>1, <1>2, <2>1, JobStateType DEF schedule_job_call, TypeOK, worker, SchedStep
<1>3. CASE schedule_job_answered(j)
  <2> DEFINE st == IF sched[j] = "Ack" THEN "Scheduled" ELSE "Failed"
  <2>1. handle_job_state(j, st, probe[j]) /\ st \in JobState
    BY <1>3 DEF schedule_job_answered, JobState, Terminated
  <2> HIDE DEF st
  <2>2. QED
    BY <1>1, <1>3, <2>1, JobStateType DEF schedule_job_answered, TypeOK, worker, SchedStep
<1>4. CASE ReadHandle(j)
  BY <1>4 DEF ReadHandle, TypeOK, worker
<1>5. ASSUME NEW p \in Slot, probe_state_call(j, p)
      PROVE  TypeOK'
  <2>1. CASE tracker[j] \in Terminated
    <3>1. probe' = [probe EXCEPT ![j][p] = "idle"] /\ UNCHANGED tracker
      BY <1>5, <2>1 DEF probe_state_call
    <3>2. probe' \in [Job -> [Slot -> ProbeStep]]
      BY <3>1 DEF TypeOK, ProbeStep
    <3>3. QED
      BY <1>5, <3>1, <3>2 DEF probe_state_call, TypeOK, worker
  <2>2. CASE tracker[j] \notin Terminated
    <3>1. /\ handle_job_state(j, "Probing", [probe[j] EXCEPT ![p] = "calling"])
          /\ "Probing" \in JobState
      BY <1>5, <2>2 DEF probe_state_call, JobState
    <3>2. [probe[j] EXCEPT ![p] = "calling"] \in [Slot -> ProbeStep]
      BY <1>1 DEF ProbeStep
    <3>3. QED
      BY <1>5, <3>1, <3>2, JobStateType DEF probe_state_call, TypeOK, worker
  <2>3. QED
    BY <2>1, <2>2
<1>6. ASSUME NEW p \in Slot, probe_state_answered(j, p)
      PROVE  TypeOK'
  <2> DEFINE freed == [probe[j] EXCEPT ![p] = "idle"]
  <2>1. freed \in [Slot -> ProbeStep]
    BY <1>1 DEF ProbeStep
  <2>2. CASE probe[j][p] \in WorkerState
    <3>1. handle_job_state(j, probe[j][p], freed) /\ probe[j][p] \in JobState
      BY <1>6, <2>2 DEF probe_state_answered, JobState, WorkerState, Terminated
    <3> HIDE DEF freed
    <3>2. QED
      BY <1>6, <2>1, <3>1, JobStateType DEF probe_state_answered, TypeOK, worker
  <2>3. CASE probe[j][p] \notin WorkerState
    BY <1>6, <2>1, <2>3 DEF probe_state_answered, TypeOK, worker
  <2>4. QED
    BY <2>2, <2>3
<1>7. QED
  BY <1>2, <1>3, <1>4, <1>5, <1>6 DEF ClientStep

(* A step of the worker of j keeps the types. *)
LEMMA WorkerType ==
  ASSUME TypeOK, NEW j \in Job, WorkerStep(j)
  PROVE  TypeOK'
<1> USE DEF JobUpdate
<1>1. CASE schedule_job(j)
  <2>1. CASE target[j] \in NotServing
    BY <1>1, <2>1 DEF schedule_job, TypeOK, SchedStep
  <2>2. CASE target[j] \notin NotServing
    <3>1. PICK st \in {"Failed", "Scheduled"} : update_state(j, st)
      BY <1>1, <2>2 DEF schedule_job
    <3>2. st \in WorkerState
      BY DEF WorkerState, Terminated
    <3>3. /\ jobs' \in [Job -> WorkerState \cup {"none"}]
          /\ events' \in Seq(JobUpdate) /\ Len(events') <= EventCap
      BY <3>1, <3>2, UpdateStateType
    <3>4. sched' \in [Job -> SchedStep] /\ exec' \in [Job -> {"none", "spawned", "executing", "done"}]
      BY <1>1, <2>2 DEF schedule_job, TypeOK, SchedStep
    <3>5. UNCHANGED <<tracker, target, probe, outcome, starts, result, alive, crashes>>
      BY <1>1 DEF schedule_job
    <3>6. QED
      BY <3>3, <3>4, <3>5 DEF TypeOK
  <2>3. QED
    BY <2>1, <2>2
<1>2. CASE execute_job_start(j)
  <2>1. update_state(j, "Running") /\ "Running" \in WorkerState
    BY <1>2 DEF execute_job_start, WorkerState
  <2>2. starts' \in [Job -> Nat] /\ exec' \in [Job -> {"none", "spawned", "executing", "done"}]
    BY <1>2 DEF execute_job_start, TypeOK
  <2>3. UNCHANGED <<tracker, target, sched, probe, outcome, result, alive, crashes>>
    BY <1>2 DEF execute_job_start, client
  <2>4. QED
    BY <2>1, <2>2, <2>3, UpdateStateType DEF TypeOK
<1>3. ASSUME NEW st \in Terminated, execute_job_end(j, st)
      PROVE  TypeOK'
  <2>1. update_state(j, st) /\ st \in WorkerState
    BY <1>3 DEF execute_job_end, WorkerState
  <2>2. QED
    BY <1>3, <2>1, UpdateStateType DEF execute_job_end, TypeOK, client
<1>4. CASE execute_job_dies(j)
  BY <1>4 DEF execute_job_dies, TypeOK, client
<1>5. ASSUME NEW p \in Slot, get_job_state(j, p)
      PROVE  TypeOK'
  <2>1. (IF jobs[j] = "none" THEN "NoJobFound" ELSE jobs[j]) \in ProbeStep
    BY DEF TypeOK, ProbeStep
  <2>2. QED
    BY <1>5, <2>1 DEF get_job_state, TypeOK, worker
<1>6. QED
  BY <1>1, <1>2, <1>3, <1>4, <1>5 DEF WorkerStep

LEMMA TypeStep ==
  ASSUME TypeOK, [Next]_vars
  PROVE  TypeOK'
<1>1. ASSUME NEW j \in Job, NEW ranking \in Rankings, spawn(j, ranking)
      PROVE  TypeOK'
  <2>1. /\ handle_job_state(j, "PendingScheduling", probe[j])
        /\ "PendingScheduling" \in JobState
    BY <1>1 DEF spawn, watch, JobState
  <2>2. probe[j] \in [Slot -> ProbeStep]
    BY DEF TypeOK
  <2>3. target' = [target EXCEPT ![j] = Head(pick_top_n(ranking, 3))]
    BY <1>1 DEF spawn
  <2>4. target' \in [Job -> Worker \cup {NoWorker}]
    BY <2>3, PickedWorker DEF TypeOK
  <2>5. QED
    BY <1>1, <2>1, <2>2, <2>4, JobStateType DEF spawn, watch, TypeOK, worker, SchedStep
<1>2. CASE HandleEvent
  <2>1. events # <<>> /\ events \in Seq(JobUpdate)
    BY <1>2 DEF HandleEvent, TypeOK, JobUpdate
  <2>2. Head(events) \in JobUpdate /\ Tail(events) \in Seq(JobUpdate)
        /\ Len(Tail(events)) <= Len(events)
    BY <2>1
  <2>3. Head(events).job \in Job /\ Head(events).state \in JobState
    BY <2>2 DEF JobUpdate, JobState, WorkerState
  <2>4. probe[Head(events).job] \in [Slot -> ProbeStep]
    BY <2>3 DEF TypeOK
  <2>5. \/ handle_job_state(Head(events).job, Head(events).state, probe[Head(events).job])
        \/ UNCHANGED <<tracker, probe>>
    BY <1>2 DEF HandleEvent
  <2>6. /\ tracker' \in [Job -> JobState \cup {"none"}]
        /\ probe' \in [Job -> [Slot -> ProbeStep]]
    <3>1. CASE UNCHANGED <<tracker, probe>>
      BY <3>1 DEF TypeOK
    <3>2. QED
      BY <2>3, <2>4, <2>5, <3>1, JobStateType
  <2>7. Len(events') <= EventCap
    BY <1>2, <2>2, WorkerJobsAssumption DEF HandleEvent, TypeOK
  <2>8. QED
    BY <1>2, <2>2, <2>6, <2>7 DEF HandleEvent, TypeOK, JobUpdate, worker
<1>3. ASSUME NEW w \in Worker, Crash(w)
      PROVE  TypeOK'
  BY <1>3, WorkerJobsAssumption DEF Crash, TypeOK, client
<1>4. ASSUME NEW w \in Worker, Restart(w)
      PROVE  TypeOK'
  BY <1>4 DEF Restart, TypeOK, client, worker
<1>5. CASE UNCHANGED vars
  BY <1>5 DEF TypeOK, vars, client, worker
<1>6. QED
  BY <1>1, <1>2, <1>3, <1>4, <1>5, ClientType, WorkerType DEF Next

(* Every variable of the client and of the workers keeps its type, in      *)
(* particular the event channel its capacity.                              *)
THEOREM TypeCorrect == Spec => []TypeOK
BY TypeInit, TypeStep, PTL DEF Spec

-----------------------------------------------------------------------------
(* The inductive invariant *)

(* The job never reached an executor and never will: its one call was      *)
(* refused, or its answer has been handled, and no task runs it.           *)
Dead(j) ==
  exec[j] = "none" /\ result[j] = "none" /\ sched[j] \in {"Refused", "RpcError", "done"}

(* If st is a final state of j, it is true, and for good. *)
Truth(j, st) ==
  /\ st = "Completed" => result[j] = "Completed"
  /\ st = "Failed" => result[j] = "Failed" \/ Dead(j)

(* Wherever a state of j may be, it is true. *)
StatesAreTrue(j) ==
  /\ Truth(j, tracker[j]) /\ Truth(j, outcome[j]) /\ Truth(j, jobs[j])
  /\ \A p \in Slot : Truth(j, probe[j][p])
  /\ \A i \in DOMAIN events : events[i].job = j => Truth(j, events[i].state)

(* How far the one attempt at j has come. *)
Attempt(j) ==
  /\ tracker[j] = "none" => sched[j] = "none"
  /\ sched[j] \in {"none", "spawned", "calling"} => exec[j] = "none"
  /\ sched[j] \in {"Refused", "RpcError"} => exec[j] = "none"
  /\ exec[j] \in {"none", "spawned"} => starts[j] = 0
  /\ exec[j] # "done" => result[j] = "none"
  /\ starts[j] \in {0, 1}

JobInv == TypeOK /\ \A j \in Job : StatesAreTrue(j) /\ Attempt(j)

LEMMA JobInit == Init => JobInv
<1> SUFFICES ASSUME Init PROVE JobInv
  OBVIOUS
<1>1. TypeOK
  BY TypeInit
<1>2. \A j \in Job : StatesAreTrue(j) /\ Attempt(j)
  BY DEF Init, StatesAreTrue, Attempt, Truth
<1>3. QED
  BY <1>1, <1>2 DEF JobInv

(* What a step that leaves the attempt at j alone must still show. *)
LEMMA SameAttempt ==
  ASSUME NEW j \in Job, NEW st, Truth(j, st),
         exec'[j] = exec[j], result'[j] = result[j],
         sched[j] \in {"Refused", "RpcError", "done"} =>
           sched'[j] \in {"Refused", "RpcError", "done"}
  PROVE  Truth(j, st)'
BY DEF Truth, Dead

(* A step of the client on k: it moves states of k about. *)
LEMMA ClientInv ==
  ASSUME JobInv, TypeOK', NEW k \in Job, ClientStep(k)
  PROVE  JobInv'
<1> SUFFICES ASSUME NEW j \in Job
             PROVE  (StatesAreTrue(j) /\ Attempt(j))'
  BY DEF JobInv
<1>0. TypeOK /\ StatesAreTrue(j) /\ Attempt(j) /\ StatesAreTrue(k) /\ Attempt(k)
  BY DEF JobInv
<1>1. UNCHANGED <<events, jobs, exec, starts, result>>
  BY DEF ClientStep, schedule_job_call, schedule_job_answered, ReadHandle,
         probe_state_call, probe_state_answered, worker
<1>2. sched[j] \in {"Refused", "RpcError", "done"} =>
        sched'[j] \in {"Refused", "RpcError", "done"}
  <2>1. \/ UNCHANGED sched
        \/ sched[k] = "spawned" /\ sched' = [sched EXCEPT ![k] = "calling"]
        \/ sched' = [sched EXCEPT ![k] = "done"]
    BY DEF ClientStep, schedule_job_call, schedule_job_answered, ReadHandle,
           probe_state_call, probe_state_answered
  <2>2. QED
    BY <1>0, <2>1 DEF TypeOK
<1>3. \A st : Truth(j, st) => Truth(j, st)'
  BY <1>1, <1>2, SameAttempt
<1>4. Truth(j, "spawned") /\ Truth(j, "calling") /\ Truth(j, "idle")
      /\ Truth(j, "Probing") /\ Truth(j, "PendingAck") /\ Truth(j, "Scheduled")
  BY DEF Truth
<1>5. ASSUME NEW st \in JobState, NEW probes \in [Slot -> ProbeStep],
             handle_job_state(k, st, probes), Truth(k, st)',
             \A p \in Slot : Truth(k, probes[p])
      PROVE  /\ Truth(j, tracker[j])' /\ \A p \in Slot : Truth(j, probe[j][p])'
             /\ tracker'[j] = "none" => tracker[j] = "none"
  <2>1. CASE j = k
    <3>1. tracker'[j] = st /\ \A p \in Slot : probe'[j][p] \in {probes[p], "spawned"}
      BY <1>0, <1>5, <2>1, JobStateType
    <3>2. st # "none"
      BY DEF JobState, Terminated
    <3>3. \A p \in Slot : Truth(j, probe'[j][p])
      BY <1>4, <1>5, <2>1, <3>1
    <3>4. QED
      BY <1>3, <1>5, <2>1, <3>1, <3>2, <3>3 DEF Truth, Dead
  <2>2. CASE j # k
    <3>1. tracker'[j] = tracker[j] /\ probe'[j] = probe[j]
      BY <1>0, <1>5, <2>2, JobStateType
    <3>2. QED
      BY <1>0, <1>3, <3>1 DEF StatesAreTrue, Truth, Dead
  <2>3. QED
    BY <2>1, <2>2
<1>6. UNCHANGED outcome => Truth(j, outcome[j])'
  BY <1>0, <1>3 DEF StatesAreTrue, Truth, Dead
<1>7. ASSUME Truth(j, tracker[j])', Truth(j, outcome[j])',
             \A p \in Slot : Truth(j, probe[j][p])', Attempt(j)'
      PROVE  (StatesAreTrue(j) /\ Attempt(j))'
  <2>1. Truth(j, jobs[j])'
    BY <1>0, <1>1, <1>3 DEF StatesAreTrue, Truth, Dead
  <2>2. \A i \in DOMAIN events' : events'[i].job = j => Truth(j, events'[i].state)
    BY <1>0, <1>1 DEF StatesAreTrue
  <2>3. \A i \in DOMAIN events' : events'[i].job = j => Truth(j, events[i].state)'
    BY <1>1, <1>3, <2>2 DEF Truth, Dead
  <2>4. QED
    BY <1>7, <2>1, <2>3 DEF StatesAreTrue
<1>8. probe[k] \in [Slot -> ProbeStep] /\ \A p \in Slot : Truth(k, probe[k][p])
  BY <1>0 DEF TypeOK, StatesAreTrue
<1>9. CASE schedule_job_call(k)
  <2>1. /\ handle_job_state(k, "PendingAck", probe[k]) /\ "PendingAck" \in JobState
        /\ sched[k] = "spawned" /\ sched' = [sched EXCEPT ![k] = "calling"]
        /\ UNCHANGED outcome
    BY <1>9 DEF schedule_job_call, JobState
  <2>2. Truth(k, "PendingAck")'
    BY DEF Truth
  <2>3. Attempt(j)'
    BY <1>0, <1>1, <1>5, <1>8, <2>1, <2>2 DEF Attempt, TypeOK
  <2>4. QED
    BY <1>5, <1>6, <1>7, <1>8, <2>1, <2>2, <2>3
<1>10. CASE schedule_job_answered(k)
  <2>1. PICK st \in JobState :
          handle_job_state(k, st, probe[k])
          /\ st \in {"Scheduled", "Failed"} /\ (st = "Failed" => sched[k] \in {"Refused", "RpcError"})
    BY <1>10 DEF schedule_job_answered, JobState, Terminated
  <2>2. /\ sched[k] \in {"Ack", "Refused", "RpcError"}
        /\ sched' = [sched EXCEPT ![k] = "done"] /\ sched'[k] = "done"
        /\ UNCHANGED outcome
    BY <1>0, <1>10 DEF schedule_job_answered, TypeOK
  <2>3. Truth(k, st)'
    BY <1>0, <1>1, <2>1, <2>2 DEF Truth, Dead, Attempt
  <2>4. Attempt(j)'
    BY <1>0, <1>1, <1>5, <1>8, <2>1, <2>2, <2>3 DEF Attempt, TypeOK
  <2>5. QED
    BY <1>5, <1>6, <1>7, <1>8, <2>1, <2>2, <2>3, <2>4
<1>11. CASE ReadHandle(k)
  <2>1. UNCHANGED <<tracker, sched, probe>>
        /\ outcome' = [outcome EXCEPT ![k] = tracker[k]]
    BY <1>11 DEF ReadHandle
  <2>2. Truth(j, outcome'[j])
    BY <1>0, <2>1 DEF StatesAreTrue, TypeOK
  <2>3. Truth(j, outcome[j])' /\ Truth(j, tracker[j])'
        /\ \A p \in Slot : Truth(j, probe[j][p])'
    BY <1>0, <1>3, <2>1, <2>2 DEF StatesAreTrue, Truth, Dead
  <2>4. Attempt(j)'
    BY <1>0, <1>1, <2>1 DEF Attempt
  <2>5. QED
    BY <1>7, <2>3, <2>4
<1>12. ASSUME NEW q \in Slot, probe_state_call(k, q)
       PROVE  (StatesAreTrue(j) /\ Attempt(j))'
  <2>0. UNCHANGED <<sched, outcome>>
    BY <1>12 DEF probe_state_call
  <2>1. CASE tracker[k] \in Terminated
    <3>1. UNCHANGED tracker /\ probe' = [probe EXCEPT ![k][q] = "idle"]
      BY <1>12, <2>1 DEF probe_state_call
    <3>2. \A p \in Slot : probe'[j][p] = probe[j][p] \/ probe'[j][p] = "idle"
      BY <1>0, <3>1 DEF TypeOK
    <3>3. \A p \in Slot : Truth(j, probe'[j][p])
      BY <1>0, <1>4, <3>2 DEF StatesAreTrue
    <3>4. Truth(j, tracker[j])' /\ \A p \in Slot : Truth(j, probe[j][p])'
      BY <1>0, <1>3, <3>1, <3>3 DEF StatesAreTrue, Truth, Dead
    <3>5. Attempt(j)'
      BY <1>0, <1>1, <2>0, <3>1 DEF Attempt
    <3>6. QED
      BY <1>6, <1>7, <2>0, <3>4, <3>5
  <2>2. CASE tracker[k] \notin Terminated
    <3> DEFINE probes == [probe[k] EXCEPT ![q] = "calling"]
    <3>1. handle_job_state(k, "Probing", probes) /\ "Probing" \in JobState
      BY <1>12, <2>2 DEF probe_state_call, JobState
    <3>2. probes \in [Slot -> ProbeStep] /\ \A p \in Slot : Truth(k, probes[p])
      BY <1>8 DEF ProbeStep, Truth
    <3>3. Truth(k, "Probing")'
      BY DEF Truth
    <3> HIDE DEF probes
    <3>4. Attempt(j)'
      BY <1>0, <1>1, <1>5, <2>0, <3>1, <3>2, <3>3 DEF Attempt
    <3>5. QED
      BY <1>5, <1>6, <1>7, <2>0, <3>1, <3>2, <3>3, <3>4
  <2>3. QED
    BY <2>1, <2>2
<1>13. ASSUME NEW q \in Slot, probe_state_answered(k, q)
       PROVE  (StatesAreTrue(j) /\ Attempt(j))'
  <2>0. UNCHANGED <<sched, outcome>>
    BY <1>13 DEF probe_state_answered
  <2> DEFINE freed == [probe[k] EXCEPT ![q] = "idle"]
  <2>1. freed \in [Slot -> ProbeStep] /\ \A p \in Slot : Truth(k, freed[p])
    BY <1>8 DEF ProbeStep, Truth
  <2>2. CASE probe[k][q] \in WorkerState
    <3>1. PICK st \in JobState : st = probe[k][q] /\ handle_job_state(k, st, freed)
      BY <1>13, <2>2 DEF probe_state_answered, JobState, WorkerState, Terminated
    <3>2. Truth(k, st)
      BY <1>8, <3>1
    <3>3. Truth(k, st)'
      BY <1>1, <2>0, <3>2, SameAttempt
    <3> HIDE DEF freed
    <3>4. Attempt(j)'
      BY <1>0, <1>1, <1>5, <2>0, <2>1, <3>1, <3>3 DEF Attempt
    <3>5. QED
      BY <1>5, <1>6, <1>7, <2>0, <2>1, <3>1, <3>3, <3>4
  <2>3. CASE probe[k][q] \notin WorkerState
    <3>1. UNCHANGED tracker /\ probe' = [probe EXCEPT ![k] = freed]
      BY <1>13, <2>3 DEF probe_state_answered
    <3> HIDE DEF freed
    <3>2. \A p \in Slot : Truth(j, probe'[j][p])
      BY <1>0, <2>1, <3>1 DEF StatesAreTrue, TypeOK
    <3>3. Truth(j, tracker[j])' /\ \A p \in Slot : Truth(j, probe[j][p])'
      BY <1>0, <1>3, <3>1, <3>2 DEF StatesAreTrue, Truth, Dead
    <3>4. Attempt(j)'
      BY <1>0, <1>1, <2>0, <3>1 DEF Attempt
    <3>5. QED
      BY <1>6, <1>7, <2>0, <3>3, <3>4
  <2>4. QED
    BY <2>2, <2>3
<1>14. QED
  BY <1>9, <1>10, <1>11, <1>12, <1>13 DEF ClientStep

(* An event of the channel moves the state of its job into the tracker, or *)
(* is skipped.                                                             *)
LEMMA EventInv ==
  ASSUME JobInv, TypeOK', HandleEvent
  PROVE  JobInv'
<1>0. TypeOK /\ events # <<>> /\ events \in Seq(JobUpdate) /\ events' = Tail(events)
  BY DEF JobInv, HandleEvent, TypeOK, JobUpdate
<1>1. UNCHANGED <<sched, outcome, jobs, exec, starts, result>>
  BY DEF HandleEvent, worker
<1>2. 1 \in DOMAIN events /\ Head(events) = events[1] /\ events[1] \in JobUpdate
      /\ \A i \in DOMAIN events' : i + 1 \in DOMAIN events /\ events'[i] = events[i + 1]
  BY <1>0
<1>3. PICK k \in Job, st \in JobState :
        /\ events[1].job = k /\ events[1].state = st
        /\ handle_job_state(k, st, probe[k]) \/ UNCHANGED <<tracker, probe>>
  BY <1>2 DEF HandleEvent, JobUpdate, JobState, WorkerState
<1>4. Truth(k, st) /\ probe[k] \in [Slot -> ProbeStep] /\ st # "none"
  BY <1>0, <1>2, <1>3 DEF JobInv, StatesAreTrue, TypeOK, JobState, Terminated
<1>5. /\ tracker'[k] \in {tracker[k], st}
      /\ \A p \in Slot : probe'[k][p] \in {probe[k][p], "spawned"}
      /\ \A j \in Job \ {k} : tracker'[j] = tracker[j] /\ probe'[j] = probe[j]
  <2>1. CASE UNCHANGED <<tracker, probe>>
    BY <2>1
  <2>2. QED
    BY <1>0, <1>3, <1>4, <2>1, JobStateType
<1> SUFFICES ASSUME NEW j \in Job
             PROVE  (StatesAreTrue(j) /\ Attempt(j))'
  BY DEF JobInv
<1>6. StatesAreTrue(j) /\ Attempt(j)
  BY DEF JobInv
<1>7. \A x : Truth(j, x) => Truth(j, x)'
  BY <1>1, SameAttempt
<1>8. Truth(j, tracker'[j]) /\ \A p \in Slot : Truth(j, probe'[j][p])
  BY <1>4, <1>5, <1>6 DEF StatesAreTrue, Truth
<1>9. Truth(j, tracker[j])' /\ \A p \in Slot : Truth(j, probe[j][p])'
  BY <1>7, <1>8 DEF Truth, Dead
<1>10. Truth(j, jobs[j])' /\ Truth(j, outcome[j])'
  BY <1>1, <1>6, <1>7 DEF StatesAreTrue, Truth, Dead
<1>11. \A i \in DOMAIN events' : events'[i].job = j => Truth(j, events'[i].state)
  BY <1>2, <1>6 DEF StatesAreTrue
<1>12. \A i \in DOMAIN events' : events'[i].job = j => Truth(j, events[i].state)'
  BY <1>7, <1>11 DEF Truth, Dead
<1>13. Attempt(j)'
  BY <1>1, <1>4, <1>5, <1>6 DEF Attempt
<1>14. QED
  BY <1>9, <1>10, <1>12, <1>13 DEF StatesAreTrue

(* What is true of a job stays true, whatever its worker does with the     *)
(* attempt: a job that was failed without an executor gets none, and an    *)
(* executor ends once.                                                     *)
LEMMA TruthIsStable ==
  ASSUME JobInv, NEW k \in Job,
         WorkerStep(k) \/ \E w \in Worker : Crash(w) \/ Restart(w)
  PROVE  \A j \in Job : \A x : Truth(j, x) => Truth(j, x)'
<1>0. TypeOK /\ Attempt(k)
  BY DEF JobInv
<1>1. CASE schedule_job(k)
  <2>1. /\ sched[k] = "calling" /\ UNCHANGED result
        /\ \A j \in Job \ {k} : sched'[j] = sched[j] /\ exec'[j] = exec[j]
    BY <1>0, <1>1 DEF schedule_job, TypeOK
  <2>2. QED
    BY <1>0, <2>1 DEF Attempt, Truth, Dead
<1>2. CASE execute_job_start(k)
  <2>1. /\ exec[k] = "spawned" /\ UNCHANGED <<result, sched>>
        /\ \A j \in Job \ {k} : exec'[j] = exec[j]
    BY <1>0, <1>2 DEF execute_job_start, TypeOK, client
  <2>2. QED
    BY <1>0, <2>1 DEF Attempt, Truth, Dead
<1>3. ASSUME NEW st \in Terminated, execute_job_end(k, st)
      PROVE  \A j \in Job : \A x : Truth(j, x) => Truth(j, x)'
  <2>1. /\ exec[k] = "executing" /\ UNCHANGED sched
        /\ \A j \in Job \ {k} : exec'[j] = exec[j] /\ result'[j] = result[j]
    BY <1>0, <1>3 DEF execute_job_end, TypeOK, client
  <2>2. QED
    BY <1>0, <2>1 DEF Attempt, Truth, Dead
<1>4. CASE execute_job_dies(k)
  <2>1. /\ exec[k] = "executing" /\ UNCHANGED <<sched, result>>
        /\ \A j \in Job \ {k} : exec'[j] = exec[j]
    BY <1>0, <1>4 DEF execute_job_dies, TypeOK, client
  <2>2. QED
    BY <1>0, <2>1 DEF Attempt, Truth, Dead
<1>5. ASSUME NEW p \in Slot, get_job_state(k, p)
      PROVE  \A j \in Job : \A x : Truth(j, x) => Truth(j, x)'
  BY <1>5 DEF get_job_state, worker, Truth, Dead
<1>6. ASSUME NEW w \in Worker, Crash(w) \/ Restart(w)
      PROVE  \A j \in Job : \A x : Truth(j, x) => Truth(j, x)'
  <2>1. /\ UNCHANGED <<sched, result>>
        /\ \A j \in Job : exec[j] = "none" => exec'[j] = "none"
    BY <1>6 DEF Crash, Restart, client, worker
  <2>2. QED
    BY <2>1 DEF Truth, Dead
<1>7. QED
  BY <1>1, <1>2, <1>3, <1>4, <1>5, <1>6 DEF WorkerStep

(* update_state with a true state keeps every state true. *)
LEMMA UpdateIsTrue ==
  ASSUME JobInv, NEW k \in Job, NEW st \in WorkerState, update_state(k, st),
         UNCHANGED <<tracker, probe, outcome>>, Truth(k, st)',
         \A j \in Job : \A x : Truth(j, x) => Truth(j, x)'
  PROVE  \A j \in Job : StatesAreTrue(j)'
<1> SUFFICES ASSUME NEW j \in Job PROVE StatesAreTrue(j)'
  OBVIOUS
<1>1. TypeOK /\ StatesAreTrue(j)
  BY DEF JobInv
<1>2. /\ jobs'[k] = st /\ \A i \in Job \ {k} : jobs'[i] = jobs[i]
      /\ \A i \in DOMAIN events' :
           \/ events'[i] = [job |-> k, state |-> st]
           \/ \E n \in DOMAIN events : events'[i] = events[n]
  BY <1>1, UpdateStateType
<1>3. Truth(j, tracker[j])' /\ Truth(j, outcome[j])'
      /\ \A p \in Slot : Truth(j, probe[j][p])'
  BY <1>1 DEF StatesAreTrue, Truth, Dead
<1>4. Truth(j, jobs[j])'
  BY <1>1, <1>2 DEF StatesAreTrue, Truth, Dead
<1>5. ASSUME NEW i \in DOMAIN events', events'[i].job = j
      PROVE  Truth(j, events[i].state)'
  <2>1. CASE events'[i] = [job |-> k, state |-> st]
    BY <1>5, <2>1 DEF Truth, Dead
  <2>2. CASE \E n \in DOMAIN events : events'[i] = events[n]
    BY <1>1, <1>5, <2>2 DEF StatesAreTrue, Truth, Dead
  <2>3. QED
    BY <1>2, <2>1, <2>2
<1>6. QED
  BY <1>3, <1>4, <1>5 DEF StatesAreTrue

(* A step of the worker on k. *)
LEMMA WorkerInv ==
  ASSUME JobInv, TypeOK', NEW k \in Job, WorkerStep(k)
  PROVE  JobInv'
<1>0. TypeOK /\ \A j \in Job : StatesAreTrue(j) /\ Attempt(j)
  BY DEF JobInv
<1>1. \A j \in Job : \A x : Truth(j, x) => Truth(j, x)'
  BY TruthIsStable
<1>2. UNCHANGED <<tracker, outcome>>
  BY DEF WorkerStep, schedule_job, execute_job_start, execute_job_end,
         execute_job_dies, get_job_state, client
<1>3. ASSUME UNCHANGED <<jobs, events>>,
             \A j \in Job : \A p \in Slot : Truth(j, probe'[j][p])
      PROVE  \A j \in Job : StatesAreTrue(j)'
  BY <1>0, <1>1, <1>2, <1>3 DEF StatesAreTrue, Truth, Dead
<1>4. CASE schedule_job(k)
  <2>0. /\ sched[k] = "calling" /\ exec[k] = "none" /\ starts[k] = 0 /\ result[k] = "none"
        /\ UNCHANGED <<probe, starts, result>>
    BY <1>0, <1>4 DEF schedule_job, Attempt
  <2>1. CASE target[k] \in NotServing
    <3>1. sched' = [sched EXCEPT ![k] = "RpcError"] /\ UNCHANGED <<jobs, exec, events>>
      BY <1>4, <2>1 DEF schedule_job
    <3>2. \A j \in Job : Attempt(j)'
      BY <1>0, <1>2, <2>0, <3>1 DEF Attempt, TypeOK
    <3>3. QED
      BY <1>0, <1>3, <2>0, <3>1, <3>2 DEF JobInv, StatesAreTrue
  <2>2. CASE target[k] \notin NotServing /\ k \notin Registered
    <3>1. /\ update_state(k, "Failed") /\ "Failed" \in WorkerState
          /\ sched' = [sched EXCEPT ![k] = "Refused"] /\ UNCHANGED exec
      BY <1>4, <2>2 DEF schedule_job, WorkerState, Terminated
    <3>2. Truth(k, "Failed")'
      BY <1>0, <2>0, <3>1 DEF Truth, Dead, TypeOK
    <3>3. \A j \in Job : Attempt(j)'
      BY <1>0, <1>2, <2>0, <3>1 DEF Attempt, TypeOK
    <3>4. QED
      BY <1>1, <1>2, <2>0, <3>1, <3>2, <3>3, UpdateIsTrue DEF JobInv
  <2>3. CASE target[k] \notin NotServing /\ k \in Registered
    <3>1. /\ update_state(k, "Scheduled") /\ "Scheduled" \in WorkerState
          /\ sched' = [sched EXCEPT ![k] = "Ack"]
          /\ exec' = [exec EXCEPT ![k] = "spawned"]
      BY <1>4, <2>3 DEF schedule_job, WorkerState
    <3>2. Truth(k, "Scheduled")'
      BY DEF Truth
    <3>3. \A j \in Job : Attempt(j)'
      BY <1>0, <1>2, <2>0, <3>1 DEF Attempt, TypeOK
    <3>4. QED
      BY <1>1, <1>2, <2>0, <3>1, <3>2, <3>3, UpdateIsTrue DEF JobInv
  <2>4. QED
    BY <2>1, <2>2, <2>3
<1>5. CASE execute_job_start(k)
  <2>1. /\ update_state(k, "Running") /\ "Running" \in WorkerState
        /\ exec[k] = "spawned" /\ exec' = [exec EXCEPT ![k] = "executing"]
        /\ starts' = [starts EXCEPT ![k] = @ + 1]
        /\ UNCHANGED <<probe, sched, result>>
    BY <1>5 DEF execute_job_start, WorkerState, client
  <2>2. Truth(k, "Running")'
    BY DEF Truth
  <2>3. \A j \in Job : Attempt(j)'
    BY <1>0, <1>2, <2>1 DEF Attempt, TypeOK
  <2>4. QED
    BY <1>1, <1>2, <2>1, <2>2, <2>3, UpdateIsTrue DEF JobInv
<1>6. ASSUME NEW st \in Terminated, execute_job_end(k, st)
      PROVE  JobInv'
  <2>1. /\ update_state(k, st) /\ st \in WorkerState
        /\ exec[k] = "executing" /\ exec' = [exec EXCEPT ![k] = "done"]
        /\ result' = [result EXCEPT ![k] = st]
        /\ UNCHANGED <<probe, sched, starts>>
    BY <1>6 DEF execute_job_end, WorkerState, client
  <2>2. Truth(k, st)'
    BY <1>0, <2>1 DEF Truth, TypeOK
  <2>3. \A j \in Job : Attempt(j)'
    BY <1>0, <1>2, <2>1 DEF Attempt, TypeOK
  <2>4. QED
    BY <1>1, <1>2, <2>1, <2>2, <2>3, UpdateIsTrue DEF JobInv
<1>7. CASE execute_job_dies(k)
  <2>1. /\ exec[k] = "executing" /\ exec' = [exec EXCEPT ![k] = "done"]
        /\ UNCHANGED <<probe, sched, starts, result, jobs, events>>
    BY <1>7 DEF execute_job_dies, client
  <2>2. \A j \in Job : Attempt(j)'
    BY <1>0, <1>2, <2>1 DEF Attempt, TypeOK
  <2>3. QED
    BY <1>0, <1>3, <2>1, <2>2 DEF JobInv, StatesAreTrue
<1>8. ASSUME NEW p \in Slot, get_job_state(k, p)
      PROVE  JobInv'
  <2>1. PICK st : /\ st \in {"NoJobFound", jobs[k]}
                  /\ probe' = [probe EXCEPT ![k][p] = st]
    BY <1>8 DEF get_job_state
  <2>2. UNCHANGED <<jobs, events, exec, sched, starts, result>>
    BY <1>8 DEF get_job_state, worker
  <2>3. Truth(k, st)
    BY <1>0, <2>1 DEF StatesAreTrue, Truth
  <2>4. \A j \in Job : \A q \in Slot :
          probe'[j][q] = probe[j][q] \/ (j = k /\ probe'[j][q] = st)
    BY <1>0, <2>1 DEF TypeOK
  <2>5. \A j \in Job : \A q \in Slot : Truth(j, probe'[j][q])
    BY <1>0, <2>3, <2>4 DEF StatesAreTrue
  <2>6. \A j \in Job : Attempt(j)'
    BY <1>0, <1>2, <2>2 DEF Attempt
  <2>7. QED
    BY <1>3, <2>2, <2>5, <2>6 DEF JobInv
<1>9. QED
  BY <1>4, <1>5, <1>6, <1>7, <1>8 DEF WorkerStep

LEMMA JobStep ==
  ASSUME JobInv, [Next]_vars
  PROVE  JobInv'
<1>0. TypeOK /\ \A j \in Job : StatesAreTrue(j) /\ Attempt(j)
  BY DEF JobInv
<1>1. TypeOK'
  BY <1>0, TypeStep
<1>2. ASSUME NEW k \in Job, NEW ranking \in Rankings, spawn(k, ranking)
      PROVE  JobInv'
  <2>1. /\ tracker[k] = "none" /\ sched' = [sched EXCEPT ![k] = "spawned"]
        /\ handle_job_state(k, "PendingScheduling", probe[k])
        /\ "PendingScheduling" \in JobState /\ probe[k] \in [Slot -> ProbeStep]
        /\ UNCHANGED <<outcome, events, jobs, exec, starts, result>>
    BY <1>0, <1>2 DEF spawn, watch, JobState, worker, TypeOK
  <2>2. /\ tracker'[k] = "PendingScheduling"
        /\ \A p \in Slot : probe'[k][p] \in {probe[k][p], "spawned"}
        /\ \A j \in Job \ {k} : tracker'[j] = tracker[j] /\ probe'[j] = probe[j]
    BY <1>0, <2>1, JobStateType
  <2>3. sched[k] = "none" /\ exec[k] = "none" /\ \A j \in Job \ {k} : sched'[j] = sched[j]
    BY <1>0, <2>1 DEF Attempt, TypeOK
  <2>4. \A j \in Job : \A x : Truth(j, x) => Truth(j, x)'
    BY <1>0, <2>1, <2>3 DEF Truth, Dead, Attempt
  <2>5. \A j \in Job : Truth(j, tracker'[j]) /\ \A p \in Slot : Truth(j, probe'[j][p])
    BY <1>0, <2>2 DEF StatesAreTrue, Truth
  <2>6. \A j \in Job : StatesAreTrue(j)'
    BY <1>0, <2>1, <2>4, <2>5 DEF StatesAreTrue, Truth, Dead
  <2>7. \A j \in Job : Attempt(j)'
    BY <1>0, <2>1, <2>2, <2>3 DEF Attempt, TypeOK
  <2>8. QED
    BY <1>1, <2>6, <2>7 DEF JobInv
<1>3. ASSUME NEW w \in Worker, Crash(w)
      PROVE  JobInv'
  <2>1. /\ UNCHANGED <<tracker, sched, probe, outcome, events, starts, result>>
        /\ \A j \in Job : jobs'[j] \in {"none", jobs[j]}
        /\ \A j \in Job : exec'[j] = exec[j] \/ (exec[j] # "none" /\ exec'[j] = "done")
    BY <1>3 DEF Crash, client
  <2>2. \A j \in Job : \A x : Truth(j, x) => Truth(j, x)'
    BY <2>1 DEF Truth, Dead
  <2>3. \A j \in Job : StatesAreTrue(j)'
    BY <1>0, <2>1, <2>2 DEF StatesAreTrue, Truth, Dead
  <2>4. \A j \in Job : Attempt(j)'
    BY <1>0, <2>1 DEF Attempt
  <2>5. QED
    BY <1>1, <2>3, <2>4 DEF JobInv
<1>4. ASSUME UNCHANGED <<tracker, sched, probe, outcome, events, jobs, exec, starts, result>>
      PROVE  JobInv'
  BY <1>0, <1>1, <1>4 DEF JobInv, StatesAreTrue, Attempt, Truth, Dead
<1>5. ASSUME NEW w \in Worker, Restart(w)
      PROVE  JobInv'
  BY <1>4, <1>5 DEF Restart, client, worker
<1>6. CASE UNCHANGED vars
  BY <1>4, <1>6 DEF vars, client, worker
<1>7. QED
  BY <1>1, <1>2, <1>3, <1>5, <1>6, ClientInv, WorkerInv, EventInv DEF Next

(* The state that ends a JobHandle is what happened to the job, however    *)
(* answers, events and probes overtake each other and workers crash.       *)
THEOREM OutcomesAreTrue == Spec => []OutcomeIsTrue
<1>1. JobInv => OutcomeIsTrue
  BY DEF JobInv, StatesAreTrue, Truth, Dead, OutcomeIsTrue
<1>2. QED
  BY <1>1, JobInit, JobStep, PTL DEF Spec

(* No interleaving makes a worker call the executor of a job twice. *)
THEOREM OneAttempt == Spec => []ExecutedAtMostOnce
<1>1. JobInv => ExecutedAtMostOnce
  BY DEF JobInv, Attempt, ExecutedAtMostOnce
<1>2. QED
  BY <1>1, JobInit, JobStep, PTL DEF Spec


-----------------------------------------------------------------------------
(* Remote calls *)

Listed(s) == s \in Seq({s[k] : k \in DOMAIN s})

CallFields == {"node", "dest", "name", "kept", "sure", "result"}

CallsTyped ==
  /\ Listed(calls)
  /\ \A id \in DOMAIN calls : DOMAIN calls[id] = CallFields
  /\ tracked \in [Nodes -> SUBSET Nat]
  /\ \A n \in Nodes : tracked[n] \subseteq DOMAIN calls

CallsInv == CallsTyped

(* In a local process: a call without an answer is tracked, and one made   *)
(* once both loops were ready is on its way, or lost.                      *)
BoxesTyped ==
  /\ DOMAIN inbox = Nodes \X Role \X Via
  /\ \A k \in DOMAIN inbox : Listed(inbox[k])

LoopsTyped ==
  /\ DOMAIN loop = Nodes \X Role
  /\ \A k \in DOMAIN loop : loop[k] # "announced"

NoSwarm == (\A n \in Nodes : swarm[n] # "running") /\ wire = {} /\ DOMAIN swarm = Nodes

RepliesTell ==
  \A via \in Via : \A k \in DOMAIN inbox[<<Here, "client", via>>] :
     inbox[<<Here, "client", via>>][k].kind = "Reply" => inbox[<<Here, "client", via>>][k].result # "none"

LocalInv ==
  mode = "local" =>
    /\ BoxesTyped /\ LoopsTyped /\ NoSwarm /\ RepliesTell
    /\ \A t \in tasks : t.node = Here
    /\ \A id \in DOMAIN calls : calls[id].result = "none" => id \in tracked[Here]
    /\ \A id \in DOMAIN calls : calls[id].sure => Waited(Here)
    /\ WaitingCallIsUnderWay

-----------------------------------------------------------------------------
(* The event bus *)

In(s, e) == \E k \in DOMAIN s : s[k] = e
Once(s) == \A j, k \in DOMAIN s : s[j] = s[k] => j = k
Publishes(s, e) == \E k \in DOMAIN s : s[k].type = "Publish" /\ s[k].event = e
PublishesOnce(s) ==
  \A j, k \in DOMAIN s :
    s[j].type = "Publish" /\ s[k].type = "Publish" /\ s[j].event = s[k].event => j = k
Carries(w, e) == w.type = "event" /\ w.event = e

BusTyped ==
  /\ Listed(emitted) /\ gossip \subseteq Nodes
  /\ DOMAIN commands = Nodes /\ \A n \in Nodes : Listed(commands[n])
  /\ feed \in [Nodes -> [Via -> Seq(DOMAIN emitted)]]
  /\ seen \in [Nodes -> Seq(DOMAIN emitted)]
  /\ \A n \in Nodes : \A k \in DOMAIN commands[n] :
       commands[n][k].type = "Publish" => commands[n][k].event \in DOMAIN emitted
  /\ \A w \in wire : w.type # "message" =>
       /\ w = [type |-> "event", from |-> w.from, to |-> w.to, event |-> w.event]
       /\ w.event \in DOMAIN emitted /\ w.to \in Nodes

(* What a stream has given, has from its own node and has from others. *)
FlowsApart ==
  \A n \in Nodes : \A e \in DOMAIN emitted :
    /\ In(feed[n]["local"], e) => emitted[e].node = n
    /\ In(feed[n]["network"], e) => emitted[e].node # n
    /\ ~(In(seen[n], e) /\ In(feed[n]["local"], e))
    /\ ~(In(seen[n], e) /\ In(feed[n]["network"], e))

FlowsOnce ==
  \A n \in Nodes : Once(seen[n]) /\ Once(feed[n]["local"]) /\ Once(feed[n]["network"])

(* An event its node has still to publish is known to no other node. *)
PublishedLater ==
  \A n \in Nodes :
    /\ PublishesOnce(commands[n])
    /\ \A e \in DOMAIN emitted : Publishes(commands[n], e) =>
         /\ emitted[e].node = n
         /\ \A w \in wire : ~Carries(w, e)
         /\ \A m \in Nodes : ~In(feed[m]["network"], e) /\ (m # n => ~In(seen[m], e))

(* An event under way comes from its own node and is new to the other. *)
WireIsNew ==
  \A w \in wire : w.type = "event" =>
    /\ w.from = emitted[w.event].node /\ w.to # w.from
    /\ ~In(feed[w.to]["network"], w.event) /\ ~In(seen[w.to], w.event)

BusRest == FlowsApart /\ FlowsOnce /\ PublishedLater /\ WireIsNew

BusInv == BusTyped /\ BusRest

TasksPlaced == \A t \in tasks : t.node \in Nodes
StreamsPlaced == streams \subseteq Nodes

MessagingInv == TasksPlaced /\ StreamsPlaced /\ CallsInv /\ LocalInv /\ BusInv
-----------------------------------------------------------------------------
(* Sequences *)

LEMMA ListedOver ==
  ASSUME NEW X, NEW s \in Seq(X)
  PROVE  Listed(s)
BY DEF Listed

LEMMA ListedAppend ==
  ASSUME NEW s, Listed(s), NEW x
  PROVE  /\ Listed(Append(s, x)) /\ Len(s) \in Nat
         /\ DOMAIN s = 1..Len(s) /\ DOMAIN Append(s, x) = 1..(Len(s) + 1)
         /\ Len(s) + 1 \notin DOMAIN s
         /\ \A k \in DOMAIN s : k \in DOMAIN Append(s, x) /\ Append(s, x)[k] = s[k]
         /\ Append(s, x)[Len(s) + 1] = x
         /\ \A k \in DOMAIN Append(s, x) : k \in DOMAIN s \/ k = Len(s) + 1
<1> DEFINE X == {s[k] : k \in DOMAIN s} \cup {x}
<1>1. s \in Seq(X) /\ x \in X
  BY DEF Listed
<1> HIDE DEF X
<1>2. Append(s, x) \in Seq(X)
  BY <1>1
<1>3. Listed(Append(s, x))
  BY <1>2, ListedOver
<1> QED BY <1>1, <1>3

LEMMA ListedTail ==
  ASSUME NEW s, Listed(s), s # <<>>
  PROVE  /\ Listed(Tail(s)) /\ 1 \in DOMAIN s /\ Head(s) = s[1]
         /\ \A k \in DOMAIN Tail(s) :
              k \in Nat /\ k # 0 /\ k + 1 \in DOMAIN s /\ Tail(s)[k] = s[k + 1]
         /\ \A k \in DOMAIN s : k = 1 \/ (k - 1 \in DOMAIN Tail(s) /\ Tail(s)[k - 1] = s[k])
<1> DEFINE X == {s[k] : k \in DOMAIN s}
<1>1. s \in Seq(X)
  BY DEF Listed
<1> HIDE DEF X
<1>2. Tail(s) \in Seq(X)
  BY <1>1
<1>3. Listed(Tail(s))
  BY <1>2, ListedOver
<1>4. 1 \in DOMAIN s /\ Head(s) = s[1]
  BY <1>1
<1>5. \A k \in DOMAIN Tail(s) :
              k \in Nat /\ k # 0 /\ k + 1 \in DOMAIN s /\ Tail(s)[k] = s[k + 1]
  BY <1>1
<1>6. \A k \in DOMAIN s : k = 1 \/ (k - 1 \in DOMAIN Tail(s) /\ Tail(s)[k - 1] = s[k])
  BY <1>1
<1> QED BY <1>3, <1>4, <1>5, <1>6

LEMMA ListedExcept ==
  ASSUME NEW s, Listed(s), NEW i \in DOMAIN s, NEW x
  PROVE  /\ Listed([s EXCEPT ![i] = x]) /\ DOMAIN [s EXCEPT ![i] = x] = DOMAIN s
         /\ \A k \in DOMAIN s : [s EXCEPT ![i] = x][k] = IF k = i THEN x ELSE s[k]
<1> DEFINE X == {s[k] : k \in DOMAIN s} \cup {x}
<1>1. s \in Seq(X) /\ x \in X
  BY DEF Listed
<1>2. [s EXCEPT ![i] = x] \in Seq(X)
  BY <1>1
<1> HIDE DEF X
<1>3. Listed([s EXCEPT ![i] = x])
  BY <1>2, ListedOver
<1> QED BY <1>1, <1>3

LEMMA TailOver ==
  ASSUME NEW X, NEW s \in Seq(X), s # <<>>
  PROVE  Tail(s) \in Seq(X)
OBVIOUS

LEMMA InAppend ==
  ASSUME NEW s, Listed(s), NEW x, NEW e
  PROVE  In(Append(s, x), e) <=> In(s, e) \/ e = x
<1>1. In(Append(s, x), e) => In(s, e) \/ e = x
  BY ListedAppend DEF In
<1>2. In(s, e) => In(Append(s, x), e)
  BY ListedAppend DEF In
<1>3. In(Append(s, x), x)
  <2>1. Len(s) + 1 \in DOMAIN Append(s, x)
    BY ListedAppend
  <2> QED BY <2>1, ListedAppend DEF In
<1> QED BY <1>1, <1>2, <1>3

LEMMA InTail ==
  ASSUME NEW s, Listed(s), s # <<>>, NEW e
  PROVE  In(s, e) <=> In(Tail(s), e) \/ e = Head(s)
<1>1. In(s, e) => In(Tail(s), e) \/ e = Head(s)
  BY ListedTail DEF In
<1>2. In(Tail(s), e) => In(s, e)
  BY ListedTail DEF In
<1>3. In(s, Head(s))
  BY ListedTail DEF In
<1> QED BY <1>1, <1>2, <1>3

LEMMA OnceAppend ==
  ASSUME NEW s, Listed(s), NEW x, Once(s), ~In(s, x)
  PROVE  Once(Append(s, x))
<1> SUFFICES ASSUME NEW j \in DOMAIN Append(s, x), NEW k \in DOMAIN Append(s, x),
                    Append(s, x)[j] = Append(s, x)[k]
             PROVE  j = k
  BY DEF Once
<1>1. /\ \A i \in DOMAIN s : Append(s, x)[i] = s[i] /\ s[i] # x
      /\ Append(s, x)[Len(s) + 1] = x
      /\ \A i \in DOMAIN Append(s, x) : i \in DOMAIN s \/ i = Len(s) + 1
  BY ListedAppend DEF In
<1> QED BY <1>1 DEF Once

LEMMA OnceTail ==
  ASSUME NEW s, Listed(s), s # <<>>, Once(s)
  PROVE  Once(Tail(s)) /\ ~In(Tail(s), Head(s))
<1>0. \A k \in DOMAIN Tail(s) : k \in Nat /\ k # 0 /\ k + 1 \in DOMAIN s /\ Tail(s)[k] = s[k + 1]
  BY ListedTail
<1>1. ASSUME NEW j \in DOMAIN Tail(s), NEW k \in DOMAIN Tail(s), Tail(s)[j] = Tail(s)[k]
      PROVE  j = k
  <2>1. j + 1 = k + 1 /\ j \in Nat /\ k \in Nat
    BY <1>0, <1>1 DEF Once
  <2> QED BY <2>1
<1>2. ASSUME NEW k \in DOMAIN Tail(s), Tail(s)[k] = Head(s) PROVE FALSE
  <2>1. k + 1 = 1 /\ k \in Nat /\ k # 0
    BY <1>0, <1>2, ListedTail DEF Once
  <2> QED BY <2>1
<1> QED BY <1>1, <1>2 DEF Once, In

(* A buffer that is pushed to: nothing comes in but the new element. *)
LEMMA PushedTo ==
  ASSUME NEW X, NEW s \in Seq(X), NEW x \in X, Capacity \in Nat \ {0}
  PROVE  /\ Push(s, x) \in Seq(X)
         /\ \A d : In(Push(s, x), d) => In(s, d) \/ d = x
         /\ Once(s) /\ ~In(s, x) => Once(Push(s, x))
<1>0. Listed(s)
  BY ListedOver
<1>1. CASE Len(s) < Capacity
  BY <1>0, <1>1, InAppend, OnceAppend DEF Push
<1>2. CASE ~(Len(s) < Capacity)
  <2>1. s # <<>>
    BY <1>2
  <2>2. Tail(s) \in Seq(X) /\ Listed(Tail(s))
    BY <2>1, TailOver, ListedOver
  <2>3. Push(s, x) = Append(Tail(s), x)
    BY <1>2 DEF Push
  <2>4. \A d : In(Push(s, x), d) => In(s, d) \/ d = x
    BY <1>0, <2>1, <2>2, <2>3, InAppend, InTail
  <2>5. Once(s) /\ ~In(s, x) => Once(Push(s, x))
    BY <1>0, <2>1, <2>2, <2>3, InTail, OnceTail, OnceAppend
  <2> QED BY <2>2, <2>3, <2>4, <2>5
<1> QED BY <1>1, <1>2

LEMMA PublishesAppend ==
  ASSUME NEW s, Listed(s), NEW c, NEW e
  PROVE  Publishes(Append(s, c), e) <=> Publishes(s, e) \/ (c.type = "Publish" /\ c.event = e)
<1>1. Publishes(Append(s, c), e) => Publishes(s, e) \/ (c.type = "Publish" /\ c.event = e)
  BY ListedAppend DEF Publishes
<1>2. Publishes(s, e) => Publishes(Append(s, c), e)
  BY ListedAppend DEF Publishes
<1>3. c.type = "Publish" /\ c.event = e => Publishes(Append(s, c), e)
  <2>1. Len(s) + 1 \in DOMAIN Append(s, c) /\ Append(s, c)[Len(s) + 1] = c
    BY ListedAppend
  <2> QED BY <2>1 DEF Publishes
<1> QED BY <1>1, <1>2, <1>3

LEMMA PublishesOnceAppend ==
  ASSUME NEW s, Listed(s), NEW c, PublishesOnce(s), c.type = "Publish" => ~Publishes(s, c.event)
  PROVE  PublishesOnce(Append(s, c))
<1> SUFFICES ASSUME NEW j \in DOMAIN Append(s, c), NEW k \in DOMAIN Append(s, c),
                    Append(s, c)[j].type = "Publish", Append(s, c)[k].type = "Publish",
                    Append(s, c)[j].event = Append(s, c)[k].event
             PROVE  j = k
  BY DEF PublishesOnce
<1>1. /\ \A i \in DOMAIN s : Append(s, c)[i] = s[i]
      /\ Append(s, c)[Len(s) + 1] = c
      /\ \A i \in DOMAIN Append(s, c) : i \in DOMAIN s \/ i = Len(s) + 1
  BY ListedAppend
<1> QED BY <1>1 DEF PublishesOnce, Publishes

LEMMA PublishesTail ==
  ASSUME NEW s, Listed(s), s # <<>>, PublishesOnce(s)
  PROVE  /\ PublishesOnce(Tail(s))
         /\ \A e : Publishes(Tail(s), e) => Publishes(s, e)
         /\ Head(s).type = "Publish" =>
              Publishes(s, Head(s).event) /\ ~Publishes(Tail(s), Head(s).event)
<1>0. \A k \in DOMAIN Tail(s) : k \in Nat /\ k # 0 /\ k + 1 \in DOMAIN s /\ Tail(s)[k] = s[k + 1]
  BY ListedTail
<1>1. ASSUME NEW j \in DOMAIN Tail(s), NEW k \in DOMAIN Tail(s), Tail(s)[j].type = "Publish",
             Tail(s)[k].type = "Publish", Tail(s)[j].event = Tail(s)[k].event
      PROVE  j = k
  <2>1. j + 1 = k + 1 /\ j \in Nat /\ k \in Nat
    BY <1>0, <1>1 DEF PublishesOnce
  <2> QED BY <2>1
<1>2. \A e : Publishes(Tail(s), e) => Publishes(s, e)
  BY <1>0 DEF Publishes
<1>3. Head(s).type = "Publish" => Publishes(s, Head(s).event)
  BY ListedTail DEF Publishes
<1>4. ASSUME Head(s).type = "Publish", Publishes(Tail(s), Head(s).event) PROVE FALSE
  <2>1. PICK k \in DOMAIN Tail(s) : Tail(s)[k].type = "Publish" /\ Tail(s)[k].event = Head(s).event
    BY <1>4 DEF Publishes
  <2>2. k + 1 = 1 /\ k \in Nat /\ k # 0
    BY <1>0, <1>4, <2>1, ListedTail DEF PublishesOnce
  <2> QED BY <2>2
<1> QED BY <1>1, <1>2, <1>3, <1>4 DEF PublishesOnce

-----------------------------------------------------------------------------
(* Steps of the event bus *)

(* A queue of commands that gets no event to publish. *)
NothingPublished(s, r) ==
  \/ r = s
  \/ s # <<>> /\ r = Tail(s)
  \/ \E c : c.type # "Publish" /\ r = Append(s, c)

LEMMA QueueKeeps ==
  ASSUME NEW s, Listed(s), NEW r, NothingPublished(s, r), PublishesOnce(s)
  PROVE  /\ Listed(r) /\ PublishesOnce(r)
         /\ \A e : Publishes(r, e) => Publishes(s, e)
         /\ \A k \in DOMAIN r : r[k].type = "Publish" => \E j \in DOMAIN s : r[k] = s[j]
<1>1. CASE r = s
  BY <1>1
<1>2. CASE s # <<>> /\ r = Tail(s)
  BY <1>2, ListedTail, PublishesTail
<1>3. ASSUME NEW c, c.type # "Publish", r = Append(s, c)
      PROVE  /\ Listed(r) /\ PublishesOnce(r)
             /\ \A e : Publishes(r, e) => Publishes(s, e)
             /\ \A k \in DOMAIN r : r[k].type = "Publish" => \E j \in DOMAIN s : r[k] = s[j]
  BY <1>3, ListedAppend, PublishesAppend, PublishesOnceAppend
<1> QED BY <1>1, <1>2, <1>3 DEF NothingPublished

BusStill ==
  /\ UNCHANGED <<emitted, feed, seen>> /\ gossip' \subseteq Nodes
  /\ DOMAIN commands' = Nodes /\ \A n \in Nodes : NothingPublished(commands[n], commands'[n])
  /\ \A w \in wire' : w.type # "message" => w \in wire

LEMMA BusStillKeeps == ASSUME BusInv, BusStill PROVE BusInv'
<1>1. \A n \in Nodes :
        /\ Listed(commands'[n]) /\ PublishesOnce(commands'[n])
        /\ \A e : Publishes(commands'[n], e) => Publishes(commands[n], e)
        /\ \A k \in DOMAIN commands'[n] : commands'[n][k].type = "Publish" =>
             \E j \in DOMAIN commands[n] : commands'[n][k] = commands[n][j]
  BY QueueKeeps DEF BusStill, BusInv, BusTyped, BusRest, PublishedLater
<1>2. BusTyped'
  <2>1. \A n \in Nodes : \A k \in DOMAIN commands'[n] :
          commands'[n][k].type = "Publish" => commands'[n][k].event \in DOMAIN emitted'
    BY <1>1 DEF BusStill, BusInv, BusTyped
  <2> QED BY <1>1, <2>1 DEF BusStill, BusInv, BusTyped
<1>3. FlowsApart' /\ FlowsOnce'
  BY DEF BusStill, BusInv, BusRest, FlowsApart, FlowsOnce
<1>4. PublishedLater'
  BY <1>1 DEF BusStill, BusInv, BusRest, PublishedLater, Carries
<1>5. WireIsNew'
  BY DEF BusStill, BusInv, BusRest, WireIsNew
<1> QED BY <1>2, <1>3, <1>4, <1>5 DEF BusInv, BusRest

(* The buffers of the streams and what they gave are sequences of events. *)
LEMMA FlowsListed ==
  ASSUME BusTyped, NEW n \in Nodes
  PROVE  /\ seen[n] \in Seq(DOMAIN emitted) /\ Listed(seen[n])
         /\ feed[n]["local"] \in Seq(DOMAIN emitted) /\ Listed(feed[n]["local"])
         /\ feed[n]["network"] \in Seq(DOMAIN emitted) /\ Listed(feed[n]["network"])
<1>1. seen[n] \in Seq(DOMAIN emitted) /\ feed[n]["local"] \in Seq(DOMAIN emitted)
       /\ feed[n]["network"] \in Seq(DOMAIN emitted)
  BY DEF BusTyped, Via
<1> QED BY <1>1, ListedOver

(* The event goes to the swarms of other nodes. *)
LEMMA PublishKeeps ==
  ASSUME BusInv, NEW n \in Nodes, execute_command(n), Head(commands[n]).type = "Publish"
  PROVE  BusInv'
<1> DEFINE c == Head(commands[n])
<1>0. BusTyped /\ BusRest /\ Listed(commands[n]) /\ commands[n] # <<>>
  BY DEF BusInv, BusTyped, execute_command
<1>1. PICK e \in DOMAIN emitted : c.event = e
  BY <1>0, ListedTail DEF BusTyped
<1>2. /\ commands' = [commands EXCEPT ![n] = Tail(@)] /\ UNCHANGED <<emitted, feed, seen>>
      /\ \A w \in wire' : w \in wire \/ \E m \in gossip :
           m # n /\ {n, m} \in conn /\ w = [type |-> "event", from |-> n, to |-> m, event |-> e]
  BY <1>1 DEF execute_command
<1>3. /\ PublishesOnce(Tail(commands[n])) /\ Listed(Tail(commands[n]))
      /\ \A d : Publishes(Tail(commands[n]), d) => Publishes(commands[n], d)
      /\ Publishes(commands[n], e) /\ ~Publishes(Tail(commands[n]), e)
  BY <1>0, <1>1, PublishesTail, ListedTail DEF BusRest, PublishedLater
<1>4. \A m \in Nodes : commands'[m] = IF m = n THEN Tail(commands[n]) ELSE commands[m]
  BY <1>0, <1>2 DEF BusTyped
<1>5. /\ emitted[e].node = n /\ \A w \in wire : ~Carries(w, e)
      /\ \A m \in Nodes : ~In(feed[m]["network"], e) /\ (m # n => ~In(seen[m], e))
  BY <1>0, <1>1, <1>3 DEF BusRest, PublishedLater
<1>6. \A w \in wire' :
        \/ w \in wire
        \/ /\ w = [type |-> "event", from |-> n, to |-> w.to, event |-> e]
           /\ w.type = "event" /\ w.from = n /\ w.event = e /\ w.to \in Nodes /\ w.to # n
  <2> SUFFICES ASSUME NEW w \in wire', w \notin wire
               PROVE  /\ w = [type |-> "event", from |-> n, to |-> w.to, event |-> e]
                      /\ w.type = "event" /\ w.from = n /\ w.event = e /\ w.to \in Nodes /\ w.to # n
    OBVIOUS
  <2>1. PICK m \in gossip : m # n /\ w = [type |-> "event", from |-> n, to |-> m, event |-> e]
    BY <1>2
  <2>2. w.type = "event" /\ w.from = n /\ w.event = e /\ w.to = m
    BY <2>1
  <2> QED BY <1>0, <2>1, <2>2 DEF BusTyped
<1>7. BusTyped'
  <2>1. DOMAIN commands' = Nodes /\ \A m \in Nodes : Listed(commands'[m])
    BY <1>0, <1>2, <1>3, <1>4 DEF BusTyped
  <2>2. \A m \in Nodes : \A k \in DOMAIN commands'[m] :
          commands'[m][k].type = "Publish" => commands'[m][k].event \in DOMAIN emitted
    <3>1. \A k \in DOMAIN Tail(commands[n]) : Tail(commands[n])[k].type = "Publish" =>
             Tail(commands[n])[k].event \in DOMAIN emitted
      BY <1>0, ListedTail DEF BusTyped
    <3> QED BY <1>0, <1>4, <3>1 DEF BusTyped
  <2>3. gossip' \subseteq Nodes
    BY <1>0 DEF BusTyped, execute_command
  <2>4. \A w \in wire' : w.type # "message" =>
          /\ w = [type |-> "event", from |-> w.from, to |-> w.to, event |-> w.event]
          /\ w.event \in DOMAIN emitted /\ w.to \in Nodes
    BY <1>0, <1>6 DEF BusTyped
  <2> QED BY <1>0, <1>2, <2>1, <2>2, <2>3, <2>4 DEF BusTyped
<1>8. FlowsApart' /\ FlowsOnce'
  BY <1>0, <1>2 DEF BusRest, FlowsApart, FlowsOnce
<1>9. PublishedLater'
  <2> SUFFICES ASSUME NEW m \in Nodes
               PROVE  /\ PublishesOnce(commands'[m])
                      /\ \A d \in DOMAIN emitted : Publishes(commands'[m], d) =>
                           /\ emitted[d].node = m
                           /\ \A w \in wire' : ~Carries(w, d)
                           /\ \A x \in Nodes : ~In(feed[x]["network"], d) /\ (x # m => ~In(seen[x], d))
    BY <1>2 DEF PublishedLater, Carries
  <2>1. PublishesOnce(commands'[m])
    BY <1>0, <1>3, <1>4 DEF BusRest, PublishedLater
  <2>2. ASSUME NEW d \in DOMAIN emitted, Publishes(commands'[m], d)
        PROVE  /\ emitted[d].node = m
               /\ \A w \in wire' : ~Carries(w, d)
               /\ \A x \in Nodes : ~In(feed[x]["network"], d) /\ (x # m => ~In(seen[x], d))
    <3>1. Publishes(commands[m], d)
      BY <1>3, <1>4, <2>2
    <3>2. /\ emitted[d].node = m /\ \A w \in wire : ~Carries(w, d)
          /\ \A x \in Nodes : ~In(feed[x]["network"], d) /\ (x # m => ~In(seen[x], d))
      BY <1>0, <3>1 DEF BusRest, PublishedLater
    <3>3. d # e
      BY <1>3, <1>4, <1>5, <2>2, <3>2
    <3> QED BY <1>6, <3>2, <3>3 DEF Carries
  <2> QED BY <2>1, <2>2
<1>10. WireIsNew'
  <2>1. \A w \in wire' : w.type = "event" =>
          /\ w.from = emitted[w.event].node /\ w.to # w.from
          /\ ~In(feed[w.to]["network"], w.event) /\ ~In(seen[w.to], w.event)
    BY <1>0, <1>5, <1>6 DEF BusRest, WireIsNew
  <2> QED BY <1>2, <2>1 DEF WireIsNew
<1> QED BY <1>7, <1>8, <1>9, <1>10 DEF BusInv, BusRest

(* A swarm gives an event it received to the stream of its node. *)
LEMMA ReceivedEventKeeps ==
  ASSUME BusInv, NEW v \in wire, receive(v), v.type = "event"
  PROVE  BusInv'
<1>0. BusTyped /\ BusRest
  BY DEF BusInv
<1>1. /\ wire' = wire \ {v} /\ UNCHANGED <<commands, gossip, seen, emitted>>
      /\ feed' = IF v.to \in streams
                 THEN [feed EXCEPT ![v.to]["network"] = Push(@, v.event)] ELSE feed
  BY DEF receive
<1>2. PICK n \in Nodes, e \in DOMAIN emitted :
        /\ v.to = n /\ v.event = e /\ v.from = emitted[e].node /\ n # emitted[e].node
        /\ v = [type |-> "event", from |-> emitted[e].node, to |-> n, event |-> e]
        /\ ~In(feed[n]["network"], e) /\ ~In(seen[n], e)
  BY <1>0 DEF BusTyped, BusRest, WireIsNew
<1>3. CASE n \notin streams
  <2>1. feed' = feed
    BY <1>0, <1>1, <1>2, <1>3 DEF BusTyped
  <2>2. BusStill
    BY <1>0, <1>1, <2>1 DEF BusStill, BusTyped, NothingPublished
  <2> QED BY <2>2, BusStillKeeps
<1>4. CASE n \in streams
  <2>1. /\ feed' \in [Nodes -> [Via -> Seq(DOMAIN emitted)]]
        /\ feed'[n]["network"] = Push(feed[n]["network"], e)
        /\ feed'[n]["local"] = feed[n]["local"]
        /\ \A m \in Nodes : m # n => feed'[m] = feed[m]
    <3> DEFINE g == [feed[n] EXCEPT !["network"] = Push(@, e)]
    <3>1. feed' = [feed EXCEPT ![n] = g]
      BY <1>1, <1>2, <1>4
    <3>2. feed[n] \in [Via -> Seq(DOMAIN emitted)] /\ feed[n]["network"] \in Seq(DOMAIN emitted)
      BY <1>0 DEF BusTyped, Via
    <3>3. Push(feed[n]["network"], e) \in Seq(DOMAIN emitted)
      BY <3>2, PushedTo, MessagingAssumption
    <3>4. /\ g \in [Via -> Seq(DOMAIN emitted)] /\ g["local"] = feed[n]["local"]
          /\ g["network"] = Push(feed[n]["network"], e)
      BY <3>2, <3>3 DEF Via
    <3> HIDE DEF g
    <3> QED BY <1>0, <3>1, <3>4 DEF BusTyped
  <2>2. BusTyped'
    BY <1>0, <1>1, <2>1 DEF BusTyped
  <2>3. feed[n]["network"] \in Seq(DOMAIN emitted) /\ Once(feed[n]["network"])
    BY <1>0, FlowsListed DEF BusRest, FlowsOnce
  <2>4. \A d : In(feed'[n]["network"], d) => In(feed[n]["network"], d) \/ d = e
    BY <2>1, <2>3, PushedTo, MessagingAssumption
  <2>5. Once(feed'[n]["network"])
    BY <1>2, <2>1, <2>3, PushedTo, MessagingAssumption
  <2>6. \A m \in Nodes : /\ feed'[m]["local"] = feed[m]["local"]
                         /\ m # n => feed'[m]["network"] = feed[m]["network"]
    BY <2>1
  <2>7. FlowsApart'
    BY <1>0, <1>1, <1>2, <2>4, <2>6 DEF BusRest, FlowsApart
  <2>8. FlowsOnce'
    BY <1>0, <1>1, <2>5, <2>6 DEF BusRest, FlowsOnce
  <2>10. PublishedLater'
    <3>1. \A m \in Nodes : ~Publishes(commands[m], e)
      BY <1>0, <1>2 DEF BusRest, PublishedLater, Carries
    <3>2. \A m \in Nodes : \A d \in DOMAIN emitted : Publishes(commands[m], d) =>
            \A x \in Nodes : ~In(feed'[x]["network"], d)
      BY <1>0, <2>4, <2>6, <3>1 DEF BusRest, PublishedLater
    <3> QED BY <1>0, <1>1, <3>2 DEF BusRest, PublishedLater, Carries
  <2>11. WireIsNew'
    <3> SUFFICES ASSUME NEW w \in wire, w # v, w.type = "event"
                 PROVE  /\ w.from = emitted[w.event].node /\ w.to # w.from
                        /\ ~In(feed'[w.to]["network"], w.event) /\ ~In(seen[w.to], w.event)
      BY <1>1 DEF WireIsNew
    <3>1. /\ w.from = emitted[w.event].node /\ w.to # w.from /\ w.to \in Nodes
          /\ ~In(feed[w.to]["network"], w.event) /\ ~In(seen[w.to], w.event)
          /\ w = [type |-> "event", from |-> w.from, to |-> w.to, event |-> w.event]
      BY <1>0 DEF BusTyped, BusRest, WireIsNew
    <3>2. w.to = n => w.event # e
      BY <1>2, <3>1
    <3> QED BY <2>4, <2>6, <3>1, <3>2
  <2> QED BY <2>2, <2>7, <2>8, <2>10, <2>11 DEF BusInv, BusRest
<1> QED BY <1>3, <1>4

(* A new event goes to the node's own stream and, with a network, to the   *)
(* commands of its swarm.                                                  *)
LEMMA emitKeepsBus == ASSUME BusInv, NEW n \in Nodes, emit(n) PROVE BusInv'
<1>0. BusTyped /\ BusRest
  BY DEF BusInv
<1>1. PICK e, r : e = Len(emitted) + 1 /\ r = [node |-> n, open |-> n \in streams, payload |-> to_vec("E", e)]
  OBVIOUS
<1>2. r.node = n
  BY <1>1
<1>3. /\ emitted' = Append(emitted, r) /\ UNCHANGED <<wire, gossip, seen>>
      /\ feed' = IF n \in streams THEN [feed EXCEPT ![n]["local"] = Push(@, e)] ELSE feed
      /\ commands' = IF mode = "local" THEN commands
                     ELSE [commands EXCEPT ![n] = Append(@, [type |-> "Publish", event |-> e])]
  BY <1>1 DEF emit, execute
<1>4. /\ Listed(emitted') /\ DOMAIN emitted \subseteq DOMAIN emitted' /\ e \in DOMAIN emitted'
      /\ e \notin DOMAIN emitted /\ emitted'[e] = r
      /\ \A d \in DOMAIN emitted : emitted'[d] = emitted[d]
      /\ \A d \in DOMAIN emitted' : d \in DOMAIN emitted \/ d = e
  <2>1. Listed(emitted)
    BY <1>0 DEF BusTyped
  <2>2. /\ Listed(emitted') /\ Len(emitted) \in Nat /\ DOMAIN emitted' = 1..(Len(emitted) + 1)
        /\ e \notin DOMAIN emitted /\ emitted'[e] = r
        /\ \A d \in DOMAIN emitted : d \in DOMAIN emitted' /\ emitted'[d] = emitted[d]
        /\ \A d \in DOMAIN emitted' : d \in DOMAIN emitted \/ d = e
    BY <1>1, <1>3, <2>1, ListedAppend
  <2>3. e \in DOMAIN emitted'
    BY <1>1, <2>2
  <2> QED BY <2>2, <2>3
<1>5. \A s : s \in Seq(DOMAIN emitted) => s \in Seq(DOMAIN emitted') /\ ~In(s, e)
  BY <1>4 DEF In
<1>6. /\ seen' \in [Nodes -> Seq(DOMAIN emitted')]
      /\ \A m \in Nodes : seen'[m] = seen[m] /\ ~In(seen[m], e)
  BY <1>0, <1>3, <1>5 DEF BusTyped
<1>7. \A m \in Nodes : /\ feed[m]["local"] \in Seq(DOMAIN emitted) /\ ~In(feed[m]["local"], e)
                       /\ feed[m]["network"] \in Seq(DOMAIN emitted) /\ ~In(feed[m]["network"], e)
  BY <1>0, <1>5, FlowsListed
<1>8. feed \in [Nodes -> [Via -> Seq(DOMAIN emitted')]]
  BY <1>0, <1>5 DEF BusTyped
<1>9. /\ feed' \in [Nodes -> [Via -> Seq(DOMAIN emitted')]]
      /\ \A m \in Nodes : feed'[m]["network"] = feed[m]["network"]
      /\ \A m \in Nodes : feed'[m]["local"] = IF m = n /\ n \in streams
                            THEN Push(feed[n]["local"], e) ELSE feed[m]["local"]
  <2>1. CASE n \notin streams
    BY <1>3, <1>8, <2>1
  <2>2. CASE n \in streams
    <3> DEFINE g == [feed[n] EXCEPT !["local"] = Push(@, e)]
    <3>1. feed' = [feed EXCEPT ![n] = g]
      BY <1>3, <2>2
    <3>2. feed[n] \in [Via -> Seq(DOMAIN emitted')] /\ feed[n]["local"] \in Seq(DOMAIN emitted')
      BY <1>8 DEF Via
    <3>3. Push(feed[n]["local"], e) \in Seq(DOMAIN emitted')
      BY <1>4, <3>2, PushedTo, MessagingAssumption
    <3>4. /\ g \in [Via -> Seq(DOMAIN emitted')] /\ g["network"] = feed[n]["network"]
          /\ g["local"] = Push(feed[n]["local"], e)
      BY <3>2, <3>3 DEF Via
    <3> HIDE DEF g
    <3> QED BY <1>8, <2>2, <3>1, <3>4
  <2> QED BY <2>1, <2>2
<1>10. \A m \in Nodes : /\ Once(feed'[m]["local"])
                         /\ \A d : In(feed'[m]["local"], d) =>
                                    In(feed[m]["local"], d) \/ (d = e /\ m = n)
  <2>1. feed[n]["local"] \in Seq(DOMAIN emitted') /\ ~In(feed[n]["local"], e)
    BY <1>5, <1>7
  <2>2. \A m \in Nodes : Once(feed[m]["local"])
    BY <1>0 DEF BusRest, FlowsOnce
  <2>3. /\ Once(Push(feed[n]["local"], e))
        /\ \A d : In(Push(feed[n]["local"], e), d) => In(feed[n]["local"], d) \/ d = e
    BY <1>4, <2>1, <2>2, PushedTo, MessagingAssumption
  <2> QED BY <1>9, <2>2, <2>3
<1>11. PICK c : c = [type |-> "Publish", event |-> e]
  OBVIOUS
<1>12. c.type = "Publish" /\ c.event = e
  BY <1>11
<1>13. /\ DOMAIN commands' = Nodes
       /\ \A m \in Nodes : \/ commands'[m] = commands[m]
                           \/ m = n /\ commands'[m] = Append(commands[m], c)
  BY <1>0, <1>3, <1>11 DEF BusTyped
<1>14. \A m \in Nodes : ~Publishes(commands[m], e)
  BY <1>0, <1>4 DEF BusTyped, Publishes
<1>15. \A m \in Nodes :
         /\ Listed(commands'[m]) /\ PublishesOnce(commands'[m])
         /\ \A d : Publishes(commands'[m], d) => Publishes(commands[m], d) \/ (m = n /\ d = e)
         /\ \A k \in DOMAIN commands'[m] : commands'[m][k].type = "Publish" =>
              commands'[m][k].event \in DOMAIN emitted'
  <2> SUFFICES ASSUME NEW m \in Nodes
               PROVE /\ Listed(commands'[m]) /\ PublishesOnce(commands'[m])
                     /\ \A d : Publishes(commands'[m], d) => Publishes(commands[m], d) \/ (m = n /\ d = e)
                     /\ \A k \in DOMAIN commands'[m] : commands'[m][k].type = "Publish" =>
                          commands'[m][k].event \in DOMAIN emitted'
    OBVIOUS
  <2>0. /\ Listed(commands[m]) /\ PublishesOnce(commands[m])
        /\ \A k \in DOMAIN commands[m] : commands[m][k].type = "Publish" =>
             commands[m][k].event \in DOMAIN emitted'
    BY <1>0, <1>4 DEF BusTyped, BusRest, PublishedLater
  <2>1. CASE commands'[m] = commands[m]
    BY <2>0, <2>1
  <2>2. CASE m = n /\ commands'[m] = Append(commands[m], c)
    <3>1. Listed(commands'[m]) /\ PublishesOnce(commands'[m])
      BY <1>12, <1>14, <2>0, <2>2, ListedAppend, PublishesOnceAppend
    <3>2. \A d : Publishes(commands'[m], d) => Publishes(commands[m], d) \/ (m = n /\ d = e)
      BY <1>12, <2>0, <2>2, PublishesAppend
    <3>3. \A k \in DOMAIN commands'[m] : commands'[m][k].type = "Publish" =>
             commands'[m][k].event \in DOMAIN emitted'
      BY <1>4, <1>12, <2>0, <2>2, ListedAppend
    <3> QED BY <3>1, <3>2, <3>3
  <2> QED BY <1>13, <2>1, <2>2
<1>16. BusTyped'
  <2>1. \A w \in wire' : w.type # "message" =>
          /\ w = [type |-> "event", from |-> w.from, to |-> w.to, event |-> w.event]
          /\ w.event \in DOMAIN emitted' /\ w.to \in Nodes
    BY <1>0, <1>3, <1>4 DEF BusTyped
  <2>2. gossip' \subseteq Nodes
    BY <1>0, <1>3 DEF BusTyped
  <2> QED BY <1>4, <1>6, <1>9, <1>13, <1>15, <2>1, <2>2 DEF BusTyped
<1>17. FlowsApart'
  <2> SUFFICES ASSUME NEW m \in Nodes, NEW d \in DOMAIN emitted'
               PROVE  /\ In(feed'[m]["local"], d) => emitted'[d].node = m
                      /\ In(feed'[m]["network"], d) => emitted'[d].node # m
                      /\ ~(In(seen'[m], d) /\ In(feed'[m]["local"], d))
                      /\ ~(In(seen'[m], d) /\ In(feed'[m]["network"], d))
    BY DEF FlowsApart
  <2>1. CASE d = e
    BY <1>2, <1>4, <1>6, <1>7, <1>9, <1>10, <2>1
  <2>2. CASE d # e
    <3>1. d \in DOMAIN emitted /\ emitted'[d] = emitted[d]
      BY <1>4, <2>2
    <3> QED BY <1>0, <1>6, <1>9, <1>10, <2>2, <3>1 DEF BusRest, FlowsApart
  <2> QED BY <2>1, <2>2
<1>18. FlowsOnce'
  BY <1>0, <1>6, <1>9, <1>10 DEF BusRest, FlowsOnce
<1>20. PublishedLater'
  <2> SUFFICES ASSUME NEW m \in Nodes, NEW d \in DOMAIN emitted', Publishes(commands'[m], d)
               PROVE  /\ emitted'[d].node = m
                      /\ \A w \in wire' : ~Carries(w, d)
                      /\ \A x \in Nodes : ~In(feed'[x]["network"], d) /\ (x # m => ~In(seen'[x], d))
    BY <1>15 DEF PublishedLater, Carries
  <2>1. CASE d = e
    <3>1. m = n
      BY <1>14, <1>15, <2>1
    <3>2. \A w \in wire : ~Carries(w, e)
      BY <1>0, <1>4 DEF BusTyped, Carries
    <3> QED BY <1>2, <1>3, <1>4, <1>6, <1>7, <1>9, <2>1, <3>1, <3>2
  <2>2. CASE d # e
    <3>1. d \in DOMAIN emitted /\ emitted'[d] = emitted[d] /\ Publishes(commands[m], d)
      BY <1>4, <1>15, <2>2
    <3> QED BY <1>0, <1>3, <1>6, <1>9, <3>1 DEF BusRest, PublishedLater
  <2> QED BY <2>1, <2>2
<1>21. WireIsNew'
  <2> SUFFICES ASSUME NEW w \in wire, w.type = "event"
               PROVE  /\ w.from = emitted'[w.event].node /\ w.to # w.from
                      /\ ~In(feed'[w.to]["network"], w.event) /\ ~In(seen'[w.to], w.event)
    BY <1>3 DEF WireIsNew
  <2>1. w.event \in DOMAIN emitted /\ w.to \in Nodes
    BY <1>0 DEF BusTyped
  <2> QED BY <1>0, <1>4, <1>6, <1>9, <2>1 DEF BusRest, WireIsNew
<1> QED BY <1>16, <1>17, <1>18, <1>20, <1>21 DEF BusInv, BusRest

(* The stream gives the oldest event of one of its two flows. *)
LEMMA next_eventKeepsBus ==
  ASSUME BusInv, NEW n \in Nodes, NEW via \in Via, next_event(n, via)
  PROVE  BusInv'
<1>0. BusTyped /\ BusRest
  BY DEF BusInv
<1>1. /\ feed[n][via] # <<>> /\ UNCHANGED <<commands, wire, gossip, emitted>>
      /\ seen' = [seen EXCEPT ![n] = Append(@, Head(feed[n][via]))]
      /\ feed' = [feed EXCEPT ![n][via] = Tail(@)]
  BY DEF next_event, netvars
<1>2. feed[n][via] \in Seq(DOMAIN emitted) /\ Listed(feed[n][via]) /\ Once(feed[n][via])
  <2>1. feed[n][via] \in Seq(DOMAIN emitted)
    BY <1>0 DEF BusTyped
  <2>2. Once(feed[n][via])
    BY <1>0 DEF BusRest, FlowsOnce, Via
  <2> QED BY <2>1, <2>2, ListedOver
<1>3. PICK e \in DOMAIN emitted : e = Head(feed[n][via])
  BY <1>1, <1>2
<1>4. /\ In(feed[n][via], e) /\ ~In(Tail(feed[n][via]), e) /\ Once(Tail(feed[n][via]))
      /\ \A d : In(feed[n][via], d) <=> In(Tail(feed[n][via]), d) \/ d = e
  BY <1>1, <1>2, <1>3, InTail, OnceTail
<1>5. seen[n] \in Seq(DOMAIN emitted) /\ Listed(seen[n]) /\ Once(seen[n]) /\ ~In(seen[n], e)
  BY <1>0, <1>4, FlowsListed DEF BusRest, FlowsApart, FlowsOnce, Via
<1>6. /\ seen' \in [Nodes -> Seq(DOMAIN emitted)] /\ seen'[n] = Append(seen[n], e)
      /\ \A m \in Nodes : m # n => seen'[m] = seen[m]
  <2>1. Append(seen[n], e) \in Seq(DOMAIN emitted)
    BY <1>5
  <2> QED BY <1>0, <1>1, <1>3, <2>1 DEF BusTyped
<1>7. /\ Once(seen'[n])
      /\ \A d : In(seen'[n], d) <=> In(seen[n], d) \/ d = e
  BY <1>5, <1>6, InAppend, OnceAppend
<1>8. /\ feed' \in [Nodes -> [Via -> Seq(DOMAIN emitted)]]
      /\ feed'[n][via] = Tail(feed[n][via])
      /\ \A m \in Nodes, v \in Via : m # n \/ v # via => feed'[m][v] = feed[m][v]
  <2> DEFINE g == [feed[n] EXCEPT ![via] = Tail(@)]
  <2>1. feed' = [feed EXCEPT ![n] = g]
    BY <1>1
  <2>2. Tail(feed[n][via]) \in Seq(DOMAIN emitted) /\ feed[n] \in [Via -> Seq(DOMAIN emitted)]
    <3>1. Tail(feed[n][via]) \in Seq(DOMAIN emitted)
      BY <1>1, <1>2, TailOver
    <3> QED BY <1>0, <3>1 DEF BusTyped
  <2>3. /\ g \in [Via -> Seq(DOMAIN emitted)] /\ g[via] = Tail(feed[n][via])
        /\ \A v \in Via : v # via => g[v] = feed[n][v]
    BY <2>2
  <2> HIDE DEF g
  <2> QED BY <1>0, <2>1, <2>3 DEF BusTyped
<1>9. \A m \in Nodes, v \in Via : /\ Once(feed'[m][v])
                                  /\ \A d : In(feed'[m][v], d) => In(feed[m][v], d)
                                  /\ \A d : In(feed[m][v], d) => In(feed'[m][v], d) \/
                                                                   (m = n /\ v = via /\ d = e)
  <2>1. \A m \in Nodes, v \in Via : Once(feed[m][v])
    BY <1>0 DEF BusRest, FlowsOnce, Via
  <2> QED BY <1>4, <1>8, <2>1
<1>10. \A m \in Nodes : \A d : In(seen'[m], d) <=> In(seen[m], d) \/ (m = n /\ d = e)
  BY <1>6, <1>7
<1>11. ~In(feed'[n]["local"], e) /\ ~In(feed'[n]["network"], e)
  <2>1. ~In(feed'[n][via], e)
    BY <1>4, <1>8
  <2>2. ~(In(feed[n]["local"], e) /\ In(feed[n]["network"], e))
    BY <1>0, <1>3 DEF BusRest, FlowsApart
  <2> QED BY <1>4, <1>9, <2>1, <2>2 DEF Via
<1>12. "local" \in Via /\ "network" \in Via
  BY DEF Via
<1>13. BusTyped'
  BY <1>0, <1>1, <1>6, <1>8 DEF BusTyped
<1>14. FlowsApart'
  BY <1>0, <1>1, <1>9, <1>10, <1>11, <1>12 DEF BusRest, FlowsApart
<1>15. FlowsOnce'
  BY <1>0, <1>6, <1>7, <1>9, <1>12 DEF BusRest, FlowsOnce
<1>17. PublishedLater'
  <2>1. ASSUME NEW m \in Nodes, NEW d \in DOMAIN emitted, Publishes(commands[m], d)
        PROVE  \A x \in Nodes : ~In(feed'[x]["network"], d) /\ (x # m => ~In(seen'[x], d))
    <3>1. \A x \in Nodes : ~In(feed[x]["network"], d) /\ (x # m => ~In(seen[x], d))
      BY <1>0, <2>1 DEF BusRest, PublishedLater
    <3>2. emitted[d].node = m
      BY <1>0, <2>1 DEF BusRest, PublishedLater
    <3>3. n # m => d # e
      <4>1. In(feed[n]["local"], e) \/ In(feed[n]["network"], e)
        BY <1>4 DEF Via
      <4> QED BY <1>0, <1>3, <3>1, <3>2, <4>1 DEF BusRest, FlowsApart
    <3> QED BY <1>9, <1>10, <1>12, <3>1, <3>3
  <2> QED BY <1>0, <1>1, <2>1 DEF BusRest, PublishedLater, Carries
<1>18. WireIsNew'
  <2> SUFFICES ASSUME NEW w \in wire, w.type = "event"
               PROVE  /\ w.from = emitted[w.event].node /\ w.to # w.from
                      /\ ~In(feed'[w.to]["network"], w.event) /\ ~In(seen'[w.to], w.event)
    BY <1>1 DEF WireIsNew
  <2>1. /\ w.from = emitted[w.event].node /\ w.to # w.from /\ w.to \in Nodes
        /\ ~In(feed[w.to]["network"], w.event) /\ ~In(seen[w.to], w.event)
        /\ w.event \in DOMAIN emitted
    BY <1>0 DEF BusTyped, BusRest, WireIsNew
  <2>2. w.to = n => w.event # e
    <3>1. In(feed[n]["local"], e) \/ In(feed[n]["network"], e)
      BY <1>4 DEF Via
    <3> QED BY <1>0, <2>1, <3>1 DEF BusRest, FlowsApart
  <2> QED BY <1>9, <1>10, <1>12, <2>1, <2>2
<1> QED BY <1>13, <1>14, <1>15, <1>17, <1>18 DEF BusInv, BusRest

(* A stream that lags loses the oldest event of the swarm's flow. *)
LEMMA lagKeepsBus ==
  ASSUME BusInv, NEW n \in Nodes, lag(n)
  PROVE  BusInv'
<1>0. BusTyped /\ BusRest
  BY DEF BusInv
<1>1. /\ feed[n]["network"] # <<>> /\ UNCHANGED <<commands, wire, gossip, emitted, seen>>
      /\ feed' = [feed EXCEPT ![n]["network"] = Tail(@)]
  BY DEF lag, netvars
<1>2. PICK s \in Seq(DOMAIN emitted) : s = feed[n]["network"]
  BY <1>0, FlowsListed
<1>3. Tail(s) \in Seq(DOMAIN emitted) /\ Listed(s)
  BY <1>1, <1>2, TailOver, ListedOver
<1>4. Once(Tail(s)) /\ \A d : In(Tail(s), d) => In(s, d)
  BY <1>0, <1>1, <1>2, <1>3, OnceTail, InTail DEF BusRest, FlowsOnce
<1>5. /\ feed' \in [Nodes -> [Via -> Seq(DOMAIN emitted)]]
      /\ \A m \in Nodes : /\ feed'[m]["local"] = feed[m]["local"]
                           /\ feed'[m]["network"] = IF m = n THEN Tail(s) ELSE feed[m]["network"]
  <2>1. PICK g : g = [feed[n] EXCEPT !["network"] = Tail(@)]
    OBVIOUS
  <2>2. feed' = [feed EXCEPT ![n] = g]
    BY <1>1, <2>1
  <2>3. feed[n] \in [Via -> Seq(DOMAIN emitted)]
    BY <1>0 DEF BusTyped
  <2>4. g \in [Via -> Seq(DOMAIN emitted)] /\ g["local"] = feed[n]["local"] /\ g["network"] = Tail(s)
    BY <1>2, <1>3, <2>1, <2>3 DEF Via
  <2> QED BY <1>0, <2>2, <2>4 DEF BusTyped
<1>6. \A m \in Nodes : /\ Once(feed'[m]["network"])
                       /\ \A d : In(feed'[m]["network"], d) => In(feed[m]["network"], d)
  BY <1>0, <1>2, <1>4, <1>5 DEF BusRest, FlowsOnce
<1>7. BusTyped'
  BY <1>0, <1>1, <1>5 DEF BusTyped
<1>8. FlowsApart' /\ FlowsOnce'
  BY <1>0, <1>1, <1>5, <1>6 DEF BusRest, FlowsApart, FlowsOnce
<1>9. PublishedLater'
  BY <1>0, <1>1, <1>6 DEF BusRest, PublishedLater, Carries
<1>10. WireIsNew'
  BY <1>0, <1>1, <1>6 DEF BusTyped, BusRest, WireIsNew
<1> QED BY <1>7, <1>8, <1>9, <1>10 DEF BusInv, BusRest

CommandsStill ==
  DOMAIN commands' = Nodes /\ \A n \in Nodes : NothingPublished(commands[n], commands'[n])

LEMMA SameCommands == ASSUME BusTyped, commands' = commands PROVE CommandsStill
BY DEF CommandsStill, NothingPublished, BusTyped

LEMMA CommandAdded ==
  ASSUME BusTyped, NEW n \in Nodes, NEW c, c.type # "Publish", commands' = execute(n, c)
  PROVE  CommandsStill
BY DEF CommandsStill, NothingPublished, BusTyped, execute

LEMMA CommandTaken ==
  ASSUME BusTyped, NEW n \in Nodes, commands[n] # <<>>, commands' = [commands EXCEPT ![n] = Tail(@)]
  PROVE  CommandsStill
BY DEF CommandsStill, NothingPublished, BusTyped

LEMMA SendAddsNoEvent ==
  ASSUME BusTyped, NEW n \in Nodes, NEW msg, send(n, msg)
  PROVE  CommandsStill
<1>1. CASE commands' = commands
  BY <1>1, SameCommands
<1>2. CASE commands' = execute(n, [type |-> "Send", msg |-> msg])
  <2>1. PICK c : c = [type |-> "Send", msg |-> msg]
    OBVIOUS
  <2>2. c.type # "Publish"
    BY <2>1
  <2> QED BY <1>2, <2>1, <2>2, CommandAdded
<1> QED BY <1>1, <1>2 DEF send

LEMMA StillBus ==
  ASSUME BusInv, UNCHANGED <<emitted, feed, seen, gossip>>, CommandsStill,
         \A w \in wire' : w.type # "message" => w \in wire
  PROVE  BusInv'
<1>1. BusStill
  BY DEF BusStill, CommandsStill, BusInv, BusTyped
<1> QED BY <1>1, BusStillKeeps

LEMMA execute_commandKeepsBus ==
  ASSUME BusInv, NEW n \in Nodes, execute_command(n)
  PROVE  BusInv'
<1>1. CASE Head(commands[n]).type = "Publish"
  BY <1>1, PublishKeeps
<1>2. CASE Head(commands[n]).type # "Publish"
  <2>1. CommandsStill
    BY CommandTaken DEF execute_command, BusInv
  <2>2. \A w \in wire' : w.type # "message" => w \in wire
    <3>1. wire' = wire \/ \E x, y : wire' = wire \cup {[type |-> "message", from |-> n, to |-> x, msg |-> y]}
      BY <1>2 DEF execute_command
    <3> QED BY <3>1
  <2>3. UNCHANGED <<emitted, feed, seen>> /\ gossip' \subseteq Nodes
    BY DEF execute_command, BusInv, BusTyped
  <2>4. BusStill
    BY <2>1, <2>2, <2>3 DEF BusStill, CommandsStill
  <2> QED BY <2>4, BusStillKeeps
<1> QED BY <1>1, <1>2

LEMMA BusStep ==
  ASSUME BusInv, TasksPlaced, MessagingAssumption, [MessagingNext]_messagingVars
  PROVE  BusInv'
<1>0. BusTyped /\ Active \subseteq Nodes
  BY DEF BusInv, Active, MessagingAssumption
<1>1. ASSUME UNCHANGED <<emitted, feed, seen, gossip, commands, wire>> PROVE BusInv'
  BY <1>0, <1>1, SameCommands, StillBus
<1>2. ASSUME NEW n \in Nodes, NEW msg, send(n, msg), UNCHANGED <<emitted, feed, seen, gossip, wire>>
      PROVE  BusInv'
  BY <1>0, <1>2, SendAddsNoEvent, StillBus
<1>3. CASE UNCHANGED messagingVars
  BY <1>1, <1>3 DEF messagingVars, busvars, netvars
<1>4. ASSUME NEW n \in Nodes, NEW r \in Role, run_starts(n, r) \/ run_ready(n, r)
      PROVE  BusInv'
  BY <1>1, <1>4 DEF run_starts, run_ready, busvars, netvars
<1>5. ASSUME NEW n \in Nodes, NEW via \in Via, client_run(n, via) \/ server_run(n, via)
      PROVE  BusInv'
  BY <1>1, <1>5 DEF client_run, server_run, busvars, netvars
<1>6. ASSUME NEW n \in Nodes, NEW via \in Via, next_event(n, via)
      PROVE  BusInv'
  BY <1>6, next_eventKeepsBus
<1>7. ASSUME NEW t \in tasks, handle_call(t)
      PROVE  BusInv'
  BY <1>2, <1>7 DEF handle_call, busvars, TasksPlaced
<1>8. ASSUME NEW t \in tasks, execute_panics(t)
      PROVE  BusInv'
  BY <1>1, <1>8 DEF execute_panics, busvars, netvars
<1>9. ASSUME NEW n \in Nodes, on_node_connected(n)
      PROVE  BusInv'
  BY <1>2, <1>9 DEF on_node_connected, Call, busvars
<1>10. ASSUME NEW n \in Nodes, on_node_disconnected(n)
       PROVE  BusInv'
  BY <1>1, <1>10 DEF on_node_disconnected, busvars, netvars
<1>11. ASSUME NEW w \in wire, receive(w)
       PROVE  BusInv'
  <2>1. CASE w.type = "event"
    BY <1>11, <2>1, ReceivedEventKeeps
  <2>2. CASE w.type = "message"
    <3>1. UNCHANGED <<emitted, feed, seen, gossip, commands>> /\ wire' = wire \ {w}
      BY <1>11, <2>2 DEF receive
    <3> QED BY <1>0, <3>1, SameCommands, StillBus
  <2>3. w.type # "message" => w.type = "event"
    BY <1>0 DEF BusTyped
  <2> QED BY <2>1, <2>2, <2>3
<1>12. ASSUME NEW n \in Nodes, NEW name, NEW dest, call(n, dest, name)
       PROVE  BusInv'
  BY <1>2, <1>12 DEF call, Call, busvars
<1>13. ASSUME NEW n \in Nodes, NEW name, register(n, name)
       PROVE  BusInv'
  BY <1>1, <1>13 DEF register, busvars, netvars
<1>14. ASSUME NEW id, cancel(id)
       PROVE  BusInv'
  BY <1>1, <1>14 DEF cancel, busvars, netvars
<1>15. ASSUME NEW n \in Nodes, stream_events(n)
       PROVE  BusInv'
  <2>1. UNCHANGED <<emitted, feed, seen, gossip, wire>>
    BY <1>15 DEF stream_events
  <2>2. PICK c : c = [type |-> "Subscribe"]
    OBVIOUS
  <2>3. c.type # "Publish"
    BY <2>2
  <2>4. CommandsStill
    BY <1>0, <1>15, <2>2, <2>3, SameCommands, CommandAdded DEF stream_events
  <2> QED BY <2>1, <2>4, StillBus
<1>16. ASSUME NEW n \in Nodes, shutdown(n)
       PROVE  BusInv'
  <2>1. UNCHANGED <<emitted, feed, seen, gossip, wire>>
    BY <1>16 DEF shutdown, busvars
  <2>2. PICK c : c = [type |-> "Shutdown"]
    OBVIOUS
  <2>3. c.type # "Publish"
    BY <2>2
  <2>4. CommandsStill
    BY <1>0, <1>16, <2>2, <2>3, CommandAdded DEF shutdown
  <2> QED BY <2>1, <2>4, StillBus
<1>17. ASSUME NEW n \in Nodes, NEW m \in Nodes, ConnectionEstablished(n, m) \/ MdnsExpired(n, m)
       PROVE  BusInv'
  BY <1>1, <1>17 DEF ConnectionEstablished, MdnsExpired, busvars, netvars
<1>18. ASSUME NEW n \in Nodes, NEW m \in Nodes, ConnectionClosed(n, m)
       PROVE  BusInv'
  <2>1. UNCHANGED <<emitted, feed, seen, gossip, commands>> /\ wire' \subseteq wire
    BY <1>18 DEF ConnectionClosed, busvars
  <2> QED BY <1>0, <2>1, SameCommands, StillBus
<1>19. CASE Progress
  <2>1. ASSUME NEW n \in Nodes, execute_command(n) \/ lag(n) PROVE BusInv'
    BY <2>1, execute_commandKeepsBus, lagKeepsBus
  <2> QED BY <1>0, <1>4, <1>5, <1>6, <1>7, <1>8, <1>9, <1>10, <1>11, <1>19, <2>1 DEF Progress
<1>20. CASE Environment
  <2>1. ASSUME NEW n \in Nodes, emit(n) PROVE BusInv'
    BY <2>1, emitKeepsBus
  <2> QED BY <1>0, <1>12, <1>13, <1>14, <1>15, <1>16, <1>17, <1>18, <1>20, <2>1 DEF Environment
<1> QED BY <1>3, <1>19, <1>20 DEF MessagingNext

-----------------------------------------------------------------------------
(* Steps of the remote calls *)

LEMMA TasksPlacedStep ==
  ASSUME TasksPlaced, MessagingAssumption, [MessagingNext]_messagingVars
  PROVE  TasksPlaced'
<1>0. Active \subseteq Nodes
  BY DEF Active, MessagingAssumption
<1>1. ASSUME NEW n \in Nodes, NEW via \in Via, server_run(n, via) PROVE TasksPlaced'
  BY <1>1 DEF server_run, TasksPlaced
<1>2. ASSUME NEW t \in tasks, handle_call(t) \/ execute_panics(t) PROVE TasksPlaced'
  BY <1>2 DEF handle_call, execute_panics, TasksPlaced
<1>3. ASSUME tasks' = tasks PROVE TasksPlaced'
  BY <1>3 DEF TasksPlaced
<1>4. CASE UNCHANGED messagingVars
  BY <1>3, <1>4 DEF messagingVars, rpcvars
<1>5. CASE Progress
  <2>1. ASSUME NEW n, NEW r, run_starts(n, r) \/ run_ready(n, r) PROVE TasksPlaced'
    BY <1>3, <2>1 DEF run_starts, run_ready
  <2>2. ASSUME NEW n, NEW via, client_run(n, via) \/ next_event(n, via) PROVE TasksPlaced'
    BY <1>3, <2>2 DEF client_run, next_event, rpcvars
  <2>3. ASSUME NEW n, \/ execute_command(n) \/ on_node_connected(n) \/ on_node_disconnected(n)
                     \/ lag(n)
        PROVE  TasksPlaced'
    BY <1>3, <2>3 DEF execute_command, on_node_connected, on_node_disconnected, lag, rpcvars
  <2>4. ASSUME NEW w, receive(w) PROVE TasksPlaced'
    BY <1>3, <2>4 DEF receive
  <2> QED BY <1>0, <1>1, <1>2, <1>5, <2>1, <2>2, <2>3, <2>4 DEF Progress
<1>6. CASE Environment
  <2>1. ASSUME NEW n, NEW name, NEW dest, call(n, dest, name) \/ register(n, name) PROVE TasksPlaced'
    BY <1>3, <2>1 DEF call, register
  <2>2. ASSUME NEW id, cancel(id) PROVE TasksPlaced'
    BY <1>3, <2>2 DEF cancel
  <2>3. ASSUME NEW n, stream_events(n) \/ emit(n) \/ shutdown(n) PROVE TasksPlaced'
    BY <1>3, <2>3 DEF stream_events, emit, shutdown, rpcvars
  <2>4. ASSUME NEW n, NEW m, \/ ConnectionEstablished(n, m) \/ ConnectionClosed(n, m)
                             \/ MdnsExpired(n, m)
        PROVE  TasksPlaced'
    BY <1>3, <2>4 DEF ConnectionEstablished, ConnectionClosed, MdnsExpired, rpcvars
  <2>5. \/ \E n, name, dest : call(n, dest, name) \/ register(n, name)
        \/ \E id : cancel(id)
        \/ \E n : stream_events(n) \/ emit(n) \/ shutdown(n)
        \/ \E n, m : \/ ConnectionEstablished(n, m) \/ ConnectionClosed(n, m) \/ MdnsExpired(n, m)
    BY <1>6 DEF Environment
  <2> QED BY <2>1, <2>2, <2>3, <2>4, <2>5
<1> QED BY <1>4, <1>5, <1>6 DEF MessagingNext

LEMMA StreamsPlacedStep ==
  ASSUME StreamsPlaced, MessagingAssumption, [MessagingNext]_messagingVars
  PROVE  StreamsPlaced'
<1>0. Active \subseteq Nodes
  BY DEF Active, MessagingAssumption
<1>1. CASE UNCHANGED messagingVars
  BY <1>1 DEF messagingVars, busvars, StreamsPlaced
<1>2. CASE Progress
  BY <1>2 DEF Progress, run_starts, run_ready, client_run, server_run, next_event, handle_call,
     execute_panics, execute_command, on_node_connected, on_node_disconnected, receive, lag, busvars,
     StreamsPlaced
<1>3. CASE Environment
  BY <1>0, <1>3 DEF Environment, call, register, cancel, stream_events, emit, shutdown,
     ConnectionEstablished, ConnectionClosed, MdnsExpired, busvars, StreamsPlaced
<1> QED BY <1>1, <1>2, <1>3 DEF MessagingNext

(* A new call is tracked. *)
LEMMA CallKeepsCalls ==
  ASSUME CallsInv, NEW n \in Nodes, NEW dest, NEW name, Call(n, dest, name)
  PROVE  CallsInv'
<1>0. CallsTyped /\ Listed(calls)
  BY DEF CallsInv, CallsTyped
<1>1. PICK c : c = [node |-> n, dest |-> dest, name |-> name, kept |-> TRUE,
                    sure |-> Waited(n), result |-> "none"]
  OBVIOUS
<1>2. DOMAIN c = CallFields /\ c.result = "none"
  BY <1>1 DEF CallFields
<1>3. calls' = Append(calls, c) /\ tracked' = [tracked EXCEPT ![n] = @ \cup {Len(calls) + 1}]
  BY <1>1 DEF Call
<1>4. /\ Listed(calls') /\ Len(calls) \in Nat /\ DOMAIN calls' = 1..(Len(calls) + 1)
      /\ \A k \in DOMAIN calls : k \in DOMAIN calls' /\ calls'[k] = calls[k]
      /\ calls'[Len(calls) + 1] = c
      /\ \A k \in DOMAIN calls' : k \in DOMAIN calls \/ k = Len(calls) + 1
  BY <1>0, <1>3, ListedAppend
<1>5. \A id \in DOMAIN calls' : DOMAIN calls'[id] = CallFields
  BY <1>0, <1>2, <1>4 DEF CallsTyped
<1>6. Len(calls) + 1 \in Nat /\ Len(calls) + 1 \in DOMAIN calls'
  BY <1>4
<1>7. /\ tracked' \in [Nodes -> SUBSET Nat]
      /\ \A m \in Nodes : tracked'[m] \subseteq tracked[m] \cup {Len(calls) + 1}
  BY <1>0, <1>3, <1>6 DEF CallsTyped
<1>8. \A m \in Nodes : tracked'[m] \subseteq DOMAIN calls'
  BY <1>0, <1>4, <1>6, <1>7 DEF CallsTyped
<1> QED BY <1>4, <1>5, <1>7, <1>8 DEF CallsInv, CallsTyped

LEMMA cancelKeepsCalls ==
  ASSUME CallsInv, NEW id \in DOMAIN calls, cancel(id)
  PROVE  /\ CallsInv' /\ DOMAIN calls' = DOMAIN calls
         /\ \A k \in DOMAIN calls : /\ calls'[k].result = calls[k].result
                                    /\ calls'[k].sure = calls[k].sure
<1>0. CallsTyped /\ Listed(calls)
  BY DEF CallsInv, CallsTyped
<1>1. PICK c : c = [calls[id] EXCEPT !.kept = FALSE]
  OBVIOUS
<1>2. /\ DOMAIN c = CallFields /\ c.result = calls[id].result
      /\ c.sure = calls[id].sure
  BY <1>0, <1>1 DEF CallsTyped, CallFields
<1>3. calls' = [calls EXCEPT ![id] = c] /\ tracked' = tracked
  BY <1>1 DEF cancel
<1>4. /\ Listed(calls') /\ DOMAIN calls' = DOMAIN calls
      /\ \A k \in DOMAIN calls : calls'[k] = IF k = id THEN c ELSE calls[k]
  BY <1>0, <1>3, ListedExcept
<1>6. CallsTyped'
  BY <1>0, <1>2, <1>3, <1>4 DEF CallsTyped
<1> QED BY <1>2, <1>4, <1>6 DEF CallsInv

(* A reply completes the call of its own number, or nothing. *)
LEMMA handle_replyKeepsCalls ==
  ASSUME CallsInv, NEW n \in Nodes, NEW msg, handle_reply(n, msg)
  PROVE  /\ CallsInv' /\ DOMAIN calls' = DOMAIN calls
         /\ \A k \in DOMAIN calls :
              /\ calls'[k].sure = calls[k].sure
              /\ \/ calls'[k].result = calls[k].result
                 \/ k = msg.id /\ calls'[k].result = msg.result
         /\ \A m \in Nodes : \A k : k \in tracked[m] => k \in tracked'[m] \/ (m = n /\ k = msg.id)
         /\ msg.id \in tracked[n] => calls'[msg.id].result = msg.result
<1>0. CallsTyped /\ Listed(calls)
  BY DEF CallsInv, CallsTyped
<1>1. CASE msg.id \notin tracked[n]
  BY <1>0, <1>1 DEF handle_reply, CallsInv, CallsTyped
<1>2. CASE msg.id \in tracked[n]
  <2>1. PICK id \in DOMAIN calls : id = msg.id
    BY <1>0, <1>2 DEF CallsTyped
  <2>2. PICK c : c = [calls[id] EXCEPT !.result = msg.result]
    OBVIOUS
  <2>3. /\ DOMAIN c = CallFields /\ c.result = msg.result
        /\ c.sure = calls[id].sure
    BY <1>0, <2>1, <2>2 DEF CallsTyped, CallFields
  <2>4. calls' = [calls EXCEPT ![id] = c] /\ tracked' = [tracked EXCEPT ![n] = @ \ {id}]
    <3>1. /\ calls' = [calls EXCEPT ![id].result = msg.result]
          /\ tracked' = [tracked EXCEPT ![n] = @ \ {id}]
      BY <1>2, <2>1 DEF handle_reply
    <3> QED BY <1>0, <2>1, <2>2, <3>1 DEF CallsTyped
  <2>5. /\ Listed(calls') /\ DOMAIN calls' = DOMAIN calls
        /\ \A k \in DOMAIN calls : calls'[k] = IF k = id THEN c ELSE calls[k]
    BY <1>0, <2>4, ListedExcept
  <2>7. CallsTyped'
    BY <1>0, <2>3, <2>4, <2>5 DEF CallsTyped
  <2>8. \A m \in Nodes : \A k : k \in tracked[m] => k \in tracked'[m] \/ (m = n /\ k = id)
    BY <1>0, <2>4 DEF CallsTyped
  <2> QED BY <2>1, <2>3, <2>5, <2>7, <2>8 DEF CallsInv
<1> QED BY <1>1, <1>2

LEMMA CallsStep ==
  ASSUME CallsInv, MessagingAssumption, [MessagingNext]_messagingVars
  PROVE  CallsInv'
<1>0. Active \subseteq Nodes
  BY DEF Active, MessagingAssumption
<1>1. ASSUME UNCHANGED <<calls, tracked>> PROVE CallsInv'
  BY <1>1 DEF CallsInv, CallsTyped
<1>2. CASE UNCHANGED messagingVars
  BY <1>1, <1>2 DEF messagingVars, rpcvars
<1>3. CASE Progress
  <2>1. ASSUME NEW n, NEW r, run_starts(n, r) \/ run_ready(n, r) PROVE CallsInv'
    BY <1>1, <2>1 DEF run_starts, run_ready
  <2>2. ASSUME NEW n, NEW via, server_run(n, via) \/ next_event(n, via) PROVE CallsInv'
    BY <1>1, <2>2 DEF server_run, next_event, rpcvars
  <2>3. ASSUME NEW n \in Nodes, NEW via, client_run(n, via) PROVE CallsInv'
    <3>1. \/ UNCHANGED <<calls, tracked>>
          \/ handle_reply(n, Head(inbox[<<n, "client", via>>]))
      BY <2>3 DEF client_run
    <3> QED BY <1>1, <3>1, handle_replyKeepsCalls
  <2>4. ASSUME NEW t, handle_call(t) \/ execute_panics(t) PROVE CallsInv'
    BY <1>1, <2>4 DEF handle_call, execute_panics
  <2>5. ASSUME NEW n, execute_command(n) \/ on_node_disconnected(n) \/ lag(n) PROVE CallsInv'
    BY <1>1, <2>5 DEF execute_command, on_node_disconnected, lag, rpcvars
  <2>6. ASSUME NEW n \in Nodes, on_node_connected(n) PROVE CallsInv'
    BY <2>6, CallKeepsCalls DEF on_node_connected
  <2>7. ASSUME NEW w, receive(w) PROVE CallsInv'
    BY <1>1, <2>7 DEF receive
  <2> QED BY <1>0, <1>3, <2>1, <2>2, <2>3, <2>4, <2>5, <2>6, <2>7 DEF Progress
<1>4. CASE Environment
  <2>1. ASSUME NEW n \in Nodes, NEW name, NEW dest, call(n, dest, name) PROVE CallsInv'
    BY <2>1, CallKeepsCalls DEF call
  <2>2. ASSUME NEW n, NEW name, register(n, name) PROVE CallsInv'
    BY <1>1, <2>2 DEF register
  <2>3. ASSUME NEW id \in DOMAIN calls, cancel(id) PROVE CallsInv'
    BY <2>3, cancelKeepsCalls
  <2>4. ASSUME NEW n, stream_events(n) \/ emit(n) \/ shutdown(n) PROVE CallsInv'
    BY <1>1, <2>4 DEF stream_events, emit, shutdown, rpcvars
  <2>5. ASSUME NEW n, NEW m, \/ ConnectionEstablished(n, m) \/ ConnectionClosed(n, m)
                             \/ MdnsExpired(n, m)
        PROVE  CallsInv'
    BY <1>1, <2>5 DEF ConnectionEstablished, ConnectionClosed, MdnsExpired, rpcvars
  <2>6. \/ \E n \in Nodes : \E name, dest : call(n, dest, name) \/ register(n, name)
        \/ \E id \in DOMAIN calls : cancel(id)
        \/ \E n : stream_events(n) \/ emit(n) \/ shutdown(n)
        \/ \E n, m : \/ ConnectionEstablished(n, m) \/ ConnectionClosed(n, m) \/ MdnsExpired(n, m)
    BY <1>0, <1>4 DEF Environment
  <2> QED BY <2>1, <2>2, <2>3, <2>4, <2>5, <2>6
<1> QED BY <1>2, <1>3, <1>4 DEF MessagingNext

-----------------------------------------------------------------------------
(* Calls within one process *)

LEMMA PushKeeps ==
  ASSUME MessagingAssumption, NEW b, Listed(b), NEW x
  PROVE  /\ Listed(Push(b, x)) /\ In(Push(b, x), x)
         /\ \A y : In(Push(b, x), y) => In(b, y) \/ y = x
         /\ \A y : In(b, y) => In(Push(b, x), y) \/ y.id \in Lagged(b)
<1>1. CASE Len(b) < Capacity
  BY <1>1, ListedAppend, InAppend DEF Push
<1>2. CASE ~(Len(b) < Capacity)
  <2>0. b \in Seq({b[k] : k \in DOMAIN b})
    BY DEF Listed
  <2>1. b # <<>>
    BY <1>2, <2>0 DEF MessagingAssumption
  <2>2. Push(b, x) = Append(Tail(b), x) /\ Lagged(b) = {Head(b).id}
    BY <1>2 DEF Push, Lagged
  <2>3. Listed(Tail(b)) /\ \A y : In(b, y) <=> In(Tail(b), y) \/ y = Head(b)
    BY <2>1, ListedTail, InTail
  <2>4. Listed(Append(Tail(b), x)) /\ \A y : In(Append(Tail(b), x), y) <=> In(Tail(b), y) \/ y = x
    BY <2>3, ListedAppend, InAppend
  <2> QED BY <2>2, <2>3, <2>4
<1> QED BY <1>1, <1>2

LEMMA BoxedIsIn ==
  ASSUME NEW kind, NEW role, NEW id
  PROVE  /\ Boxed(kind, role, id) <=> \E via \in Via : \E m :
              In(inbox[<<Here, role, via>>], m) /\ m.kind = kind /\ m.id = id
         /\ Boxed(kind, role, id)' <=> \E via \in Via : \E m :
              In(inbox'[<<Here, role, via>>], m) /\ m.kind = kind /\ m.id = id
<1>1. Boxed(kind, role, id) <=> \E via \in Via : \E m :
              In(inbox[<<Here, role, via>>], m) /\ m.kind = kind /\ m.id = id
  BY DEF Boxed, In
<1>2. Boxed(kind, role, id)' <=> \E via \in Via : \E m :
              In(inbox'[<<Here, role, via>>], m) /\ m.kind = kind /\ m.id = id
  BY DEF Boxed, In
<1> QED BY <1>1, <1>2

RepliesIn(b) == \A m : In(b, m) /\ m.kind = "Reply" => m.result # "none"

LEMMA RepliesTellIn ==
  /\ RepliesTell <=> \A via \in Via : RepliesIn(inbox[<<Here, "client", via>>])
  /\ RepliesTell' <=> \A via \in Via : RepliesIn(inbox'[<<Here, "client", via>>])
<1>1. RepliesTell <=> \A via \in Via : RepliesIn(inbox[<<Here, "client", via>>])
  BY DEF RepliesTell, RepliesIn, In
<1>2. RepliesTell' <=> \A via \in Via : RepliesIn(inbox'[<<Here, "client", via>>])
  BY DEF RepliesTell, RepliesIn, In
<1> QED BY <1>1, <1>2

(* A message of a local process reaches both loops once they have          *)
(* subscribed; what it pushes out of a full buffer counts as lost.         *)
LEMMA LocalSend ==
  ASSUME MessagingAssumption, mode = "local", BoxesTyped, RepliesTell, NEW msg, send(Here, msg),
         msg.kind = "Reply" => msg.result # "none"
  PROVE  /\ BoxesTyped' /\ RepliesTell' /\ lost \subseteq lost'
         /\ \A kind, id : \A role \in Role :
              Boxed(kind, role, id) => Boxed(kind, role, id)' \/ id \in lost'
         /\ \A role \in Subscribed(Here) : Boxed(msg.kind, role, msg.id)'
<1>1. inbox' = Deliver(inbox, Here, "local", msg) /\ lost' = lost \cup LaggedBy(Here, "local")
  BY DEF send
<1>2. /\ DOMAIN inbox = Nodes \X Role \X Via /\ Here \in Nodes
      /\ \A k \in DOMAIN inbox : Listed(inbox[k])
  BY DEF BoxesTyped, MessagingAssumption
<1>3. /\ DOMAIN inbox' = DOMAIN inbox
      /\ \A k \in DOMAIN inbox : inbox'[k] = inbox[k] \/ inbox'[k] = Push(inbox[k], msg)
  BY <1>1 DEF Deliver
<1>4. \A role \in Role, via \in Via :
        /\ <<Here, role, via>> \in DOMAIN inbox
        /\ inbox'[<<Here, role, via>>] = IF role \in Subscribed(Here) /\ via = "local"
             THEN Push(inbox[<<Here, role, via>>], msg) ELSE inbox[<<Here, role, via>>]
  <2> SUFFICES ASSUME NEW role \in Role, NEW via \in Via
               PROVE /\ <<Here, role, via>> \in DOMAIN inbox
                     /\ inbox'[<<Here, role, via>>] = IF role \in Subscribed(Here) /\ via = "local"
                          THEN Push(inbox[<<Here, role, via>>], msg) ELSE inbox[<<Here, role, via>>]
    OBVIOUS
  <2>1. PICK k : k = <<Here, role, via>>
    OBVIOUS
  <2>2. k \in DOMAIN inbox /\ k[1] = Here /\ k[2] = role /\ k[3] = via
    BY <1>2, <2>1
  <2>3. inbox'[k] = IF role \in Subscribed(Here) /\ via = "local"
                    THEN Push(inbox[k], msg) ELSE inbox[k]
    BY <1>1, <2>2 DEF Deliver
  <2> QED BY <2>1, <2>2, <2>3
<1>5. BoxesTyped'
  BY <1>2, <1>3, PushKeeps DEF BoxesTyped
<1>6. RepliesTell'
  <2>1. \A via \in Via : RepliesIn(inbox[<<Here, "client", via>>])
    BY RepliesTellIn
  <2>2. "client" \in Role
    BY DEF Role
  <2>3. \A via \in Via : RepliesIn(inbox'[<<Here, "client", via>>])
    BY <1>2, <1>4, <2>1, <2>2, PushKeeps DEF RepliesIn
  <2> QED BY <2>3, RepliesTellIn
<1>7. ASSUME NEW kind, NEW id, NEW role \in Role, Boxed(kind, role, id)
      PROVE  Boxed(kind, role, id)' \/ id \in lost'
  <2>1. PICK via \in Via : \E m : In(inbox[<<Here, role, via>>], m) /\ m.kind = kind /\ m.id = id
    BY <1>7, BoxedIsIn
  <2>2. PICK m : In(inbox[<<Here, role, via>>], m) /\ m.kind = kind /\ m.id = id
    BY <2>1
  <2>3. CASE inbox'[<<Here, role, via>>] = inbox[<<Here, role, via>>]
    BY <2>2, <2>3, BoxedIsIn
  <2>4. CASE /\ role \in Subscribed(Here) /\ via = "local"
             /\ inbox'[<<Here, role, via>>] = Push(inbox[<<Here, role, via>>], msg)
    <3>1. In(inbox'[<<Here, role, via>>], m) \/ id \in Lagged(inbox[<<Here, role, via>>])
      BY <1>2, <1>4, <2>2, <2>4, PushKeeps
    <3>2. CASE In(inbox'[<<Here, role, via>>], m)
      BY <2>2, <3>2, BoxedIsIn
    <3>3. CASE id \in Lagged(inbox[<<Here, role, via>>])
      BY <1>1, <2>4, <3>3 DEF LaggedBy
    <3> QED BY <3>1, <3>2, <3>3
  <2> QED BY <1>4, <2>3, <2>4
<1>8. ASSUME NEW role \in Subscribed(Here) PROVE Boxed(msg.kind, role, msg.id)'
  <2>1. role \in Role /\ "local" \in Via
    BY DEF Subscribed, Via
  <2>2. In(inbox'[<<Here, role, "local">>], msg)
    BY <1>2, <1>4, <2>1, PushKeeps
  <2> QED BY <2>1, <2>2, BoxedIsIn
<1> QED BY <1>1, <1>5, <1>6, <1>7, <1>8

LocalState ==
  /\ BoxesTyped /\ LoopsTyped /\ NoSwarm /\ RepliesTell
  /\ \A t \in tasks : t.node = Here
  /\ \A id \in DOMAIN calls : calls[id].result = "none" => id \in tracked[Here]
  /\ \A id \in DOMAIN calls : calls[id].sure => Waited(Here)

UnderWay(id) ==
  \/ Boxed("Call", "server", id) \/ Boxed("Reply", "client", id)
  \/ \E t \in tasks : t.id = id

Waits(id) == calls[id].sure /\ calls[id].result = "none" /\ id \notin lost

LEMMA LocalInvIs ==
  /\ LocalInv <=> (mode = "local" => LocalState /\ \A id \in DOMAIN calls : Waits(id) => UnderWay(id))
  /\ LocalInv' <=> (mode' = "local" =>
                      LocalState' /\ \A id \in DOMAIN calls' : Waits(id)' => UnderWay(id)')
<1>1. LocalInv <=> (mode = "local" => LocalState /\ \A id \in DOMAIN calls : Waits(id) => UnderWay(id))
  BY DEF LocalInv, LocalState, WaitingCallIsUnderWay, Waits, UnderWay
<1>2. LocalInv' <=> (mode' = "local" =>
                      LocalState' /\ \A id \in DOMAIN calls' : Waits(id)' => UnderWay(id)')
  BY DEF LocalInv, LocalState, WaitingCallIsUnderWay, Waits, UnderWay
<1> QED BY <1>1, <1>2

(* Both loops of a process that waited for them are subscribed. *)
LEMMA WaitedIsSubscribed ==
  ASSUME LoopsTyped, MessagingAssumption, Waited(Here)
  PROVE  Subscribed(Here) = Role
<1>1. \A r \in Role : <<Here, r>> \in DOMAIN loop
  BY DEF LoopsTyped, MessagingAssumption
<1> QED BY <1>1 DEF LoopsTyped, Waited, Subscribed

LEMMA CallKeepsLocal ==
  ASSUME MessagingAssumption, CallsInv, LocalInv, mode = "local", mode' = mode,
         NEW dest, NEW name, Call(Here, dest, name), UNCHANGED <<loop, tasks, swarm, wire>>
  PROVE  LocalInv'
<1>0. /\ LocalState /\ \A id \in DOMAIN calls : Waits(id) => UnderWay(id)
      /\ CallsTyped /\ Listed(calls)
  BY LocalInvIs DEF CallsInv, CallsTyped
<1>1. PICK c : c = [node |-> Here, dest |-> dest, name |-> name, kept |-> TRUE,
                    sure |-> Waited(Here), result |-> "none"]
  OBVIOUS
<1>2. c.result = "none" /\ c.sure = Waited(Here)
  BY <1>1
<1>3. PICK new : new = Len(calls) + 1
  OBVIOUS
<1>4. calls' = Append(calls, c) /\ tracked' = [tracked EXCEPT ![Here] = @ \cup {new}]
  BY <1>1, <1>3 DEF Call
<1>5. /\ \A k \in DOMAIN calls : calls'[k] = calls[k]
      /\ calls'[new] = c
      /\ \A k \in DOMAIN calls' : k \in DOMAIN calls \/ k = new
  BY <1>0, <1>3, <1>4, ListedAppend
<1>6. PICK msg : msg = Envelope(dest, "Call", new, "none")
  OBVIOUS
<1>7. send(Here, msg) /\ msg.kind = "Call" /\ msg.id = new
  BY <1>3, <1>6 DEF Call, Envelope
<1>8. /\ BoxesTyped' /\ RepliesTell' /\ lost \subseteq lost'
      /\ \A kind, id : \A role \in Role :
           Boxed(kind, role, id) => Boxed(kind, role, id)' \/ id \in lost'
      /\ \A role \in Subscribed(Here) : Boxed("Call", role, new)'
  <2>1. /\ BoxesTyped' /\ RepliesTell' /\ lost \subseteq lost'
        /\ \A kind, id : \A role \in Role :
             Boxed(kind, role, id) => Boxed(kind, role, id)' \/ id \in lost'
        /\ \A role \in Subscribed(Here) : Boxed(msg.kind, role, msg.id)'
    BY <1>0, <1>7, LocalSend DEF LocalState
  <2> QED BY <1>7, <2>1
<1>9. Waited(Here)' <=> Waited(Here)
  BY DEF Waited
<1>10. tracked[Here] \subseteq tracked'[Here] /\ new \in tracked'[Here]
  BY <1>0, <1>4 DEF CallsTyped, MessagingAssumption
<1>11. LocalState'
  <2>1. \A id \in DOMAIN calls' : calls'[id].result = "none" => id \in tracked'[Here]
    BY <1>0, <1>5, <1>10 DEF LocalState
  <2>2. \A id \in DOMAIN calls' : calls'[id].sure => Waited(Here)'
    BY <1>0, <1>2, <1>5, <1>9 DEF LocalState
  <2>3. LoopsTyped' /\ NoSwarm'
    BY <1>0 DEF LocalState, LoopsTyped, NoSwarm
  <2> QED BY <1>0, <1>8, <2>1, <2>2, <2>3 DEF LocalState
<1>12. ASSUME NEW id \in DOMAIN calls', Waits(id)' PROVE UnderWay(id)'
  <2>1. CASE id = new
    <3>1. Waited(Here)
      BY <1>2, <1>5, <1>12, <2>1 DEF Waits
    <3>2. "server" \in Subscribed(Here)
      BY <1>0, <3>1, WaitedIsSubscribed DEF LocalState, Role
    <3> QED BY <1>8, <2>1, <3>2 DEF UnderWay
  <2>2. CASE id \in DOMAIN calls
    <3>1. Waits(id) /\ id \notin lost'
      BY <1>5, <1>8, <1>12, <2>2 DEF Waits
    <3>2. UnderWay(id)
      BY <1>0, <2>2, <3>1
    <3>3. CASE \E t \in tasks : t.id = id
      BY <3>3 DEF UnderWay
    <3>4. CASE Boxed("Call", "server", id) \/ Boxed("Reply", "client", id)
      <4>1. Boxed("Call", "server", id)' \/ Boxed("Reply", "client", id)'
        BY <1>8, <3>1, <3>4 DEF Role
      <4> QED BY <4>1 DEF UnderWay
    <3> QED BY <3>2, <3>3, <3>4 DEF UnderWay
  <2> QED BY <1>5, <2>1, <2>2
<1> QED BY <1>11, <1>12, LocalInvIs

(* The reply takes the place of the task. *)
LEMMA handle_callKeepsLocal ==
  ASSUME MessagingAssumption, LocalInv, mode = "local", NEW t \in tasks, handle_call(t)
  PROVE  LocalInv'
<1>0. LocalState /\ \A id \in DOMAIN calls : Waits(id) => UnderWay(id)
  BY LocalInvIs
<1>1. /\ tasks' = tasks \ {t} /\ t.node = Here
      /\ UNCHANGED <<mode, loop, calls, tracked, swarm, wire>>
  BY <1>0 DEF handle_call, LocalState
<1>2. PICK msg : msg = Envelope(t.source, "Reply", t.id,
            IF calls[t.id].name \in executors[t.node] THEN "ok" ELSE "NoExecutorFound")
  OBVIOUS
<1>3. send(Here, msg) /\ msg.kind = "Reply" /\ msg.id = t.id /\ msg.result # "none"
  BY <1>1, <1>2 DEF handle_call, Envelope
<1>4. PICK tid : tid = t.id
  OBVIOUS
<1>5. /\ BoxesTyped' /\ RepliesTell' /\ lost \subseteq lost'
      /\ \A kind, id : \A role \in Role :
           Boxed(kind, role, id) => Boxed(kind, role, id)' \/ id \in lost'
      /\ \A role \in Subscribed(Here) : Boxed("Reply", role, tid)'
  <2>1. /\ BoxesTyped' /\ RepliesTell' /\ lost \subseteq lost'
        /\ \A kind, id : \A role \in Role :
             Boxed(kind, role, id) => Boxed(kind, role, id)' \/ id \in lost'
        /\ \A role \in Subscribed(Here) : Boxed(msg.kind, role, msg.id)'
    BY <1>0, <1>3, LocalSend DEF LocalState
  <2> QED BY <1>3, <1>4, <2>1
<1>6. LocalState'
  <2>1. Waited(Here)' <=> Waited(Here)
    BY <1>1 DEF Waited
  <2>2. LoopsTyped' /\ NoSwarm'
    BY <1>0, <1>1 DEF LocalState, LoopsTyped, NoSwarm
  <2> QED BY <1>0, <1>1, <1>5, <2>1, <2>2 DEF LocalState
<1>7. ASSUME NEW id \in DOMAIN calls, Waits(id)' PROVE UnderWay(id)'
  <2>1. Waits(id) /\ id \notin lost'
    BY <1>1, <1>5, <1>7 DEF Waits
  <2>2. UnderWay(id)
    BY <1>0, <2>1
  <2>3. CASE Boxed("Call", "server", id) \/ Boxed("Reply", "client", id)
    <3>1. Boxed("Call", "server", id)' \/ Boxed("Reply", "client", id)'
      BY <1>5, <2>1, <2>3 DEF Role
    <3> QED BY <3>1 DEF UnderWay
  <2>4. ASSUME NEW u \in tasks, u.id = id PROVE UnderWay(id)'
    <3>1. CASE u # t
      BY <1>1, <2>4, <3>1 DEF UnderWay
    <3>2. CASE u = t
      <4>1. Waited(Here)
        BY <1>0, <2>1 DEF LocalState, Waits
      <4>2. "client" \in Subscribed(Here)
        BY <1>0, <4>1, WaitedIsSubscribed DEF LocalState, Role
      <4>3. Boxed("Reply", "client", tid)' /\ tid = id
        BY <1>4, <1>5, <2>4, <3>2, <4>2
      <4> QED BY <4>3 DEF UnderWay
    <3> QED BY <3>1, <3>2
  <2> QED BY <2>2, <2>3, <2>4 DEF UnderWay
<1> QED BY <1>1, <1>6, <1>7, LocalInvIs

LEMMA execute_panicsKeepsLocal ==
  ASSUME LocalInv, mode = "local", NEW t \in tasks, execute_panics(t)
  PROVE  LocalInv'
<1>0. LocalState /\ \A id \in DOMAIN calls : Waits(id) => UnderWay(id)
  BY LocalInvIs
<1>1. /\ tasks' = tasks \ {t} /\ lost' = lost \cup {t.id}
      /\ UNCHANGED <<mode, loop, inbox, calls, tracked, swarm, wire>>
  BY DEF execute_panics, netvars
<1>2. LocalState'
  BY <1>0, <1>1 DEF LocalState, BoxesTyped, LoopsTyped, NoSwarm, RepliesTell, Waited
<1>3. ASSUME NEW id \in DOMAIN calls, Waits(id)' PROVE UnderWay(id)'
  <2>1. Waits(id) /\ id # t.id
    BY <1>1, <1>3 DEF Waits
  <2>2. UnderWay(id)
    BY <1>0, <2>1
  <2> QED BY <1>1, <2>1, <2>2 DEF UnderWay, Boxed
<1> QED BY <1>1, <1>2, <1>3, LocalInvIs

Taken(r, via, msg) ==
  /\ inbox[<<Here, r, via>>] # <<>> /\ msg = Head(inbox[<<Here, r, via>>])
  /\ inbox' = [inbox EXCEPT ![<<Here, r, via>>] = Tail(@)]

(* The head of a buffer is taken; the rest stays. *)
LEMMA TakenFromBox ==
  ASSUME MessagingAssumption, BoxesTyped, RepliesTell, NEW r \in Role, NEW via \in Via,
         NEW msg, Taken(r, via, msg)
  PROVE  /\ BoxesTyped' /\ RepliesTell' /\ In(inbox[<<Here, r, via>>], msg)
         /\ \A kind, id : \A role \in Role : Boxed(kind, role, id) =>
              Boxed(kind, role, id)' \/ (role = r /\ msg.kind = kind /\ msg.id = id)
<1>1. PICK key : key = <<Here, r, via>>
  OBVIOUS
<1>2. /\ DOMAIN inbox = Nodes \X Role \X Via /\ key \in DOMAIN inbox
      /\ \A k \in DOMAIN inbox : Listed(inbox[k])
  BY <1>1 DEF BoxesTyped, MessagingAssumption
<1>3. /\ DOMAIN inbox' = DOMAIN inbox /\ inbox'[key] = Tail(inbox[key])
      /\ \A k \in DOMAIN inbox : k # key => inbox'[k] = inbox[k]
  BY <1>1, <1>2 DEF Taken
<1>4. /\ Listed(inbox[key]) /\ Listed(Tail(inbox[key]))
      /\ \A m : In(inbox[key], m) <=> In(Tail(inbox[key]), m) \/ m = msg
  BY <1>1, <1>2, ListedTail, InTail DEF Taken
<1>5. BoxesTyped'
  BY <1>2, <1>3, <1>4 DEF BoxesTyped
<1>6. \A k \in DOMAIN inbox : \A m : /\ In(inbox'[k], m) => In(inbox[k], m)
                                     /\ In(inbox[k], m) => In(inbox'[k], m) \/ (k = key /\ m = msg)
  BY <1>3, <1>4
<1>7. \A role \in Role, v \in Via : /\ <<Here, role, v>> \in DOMAIN inbox
                                    /\ <<Here, role, v>> = key => role = r
  BY <1>1, <1>2 DEF MessagingAssumption
<1>8. RepliesTell'
  <2>1. \A v \in Via : RepliesIn(inbox[<<Here, "client", v>>])
    BY RepliesTellIn
  <2>2. "client" \in Role
    BY DEF Role
  <2>3. \A v \in Via : RepliesIn(inbox'[<<Here, "client", v>>])
    BY <1>6, <1>7, <2>1, <2>2 DEF RepliesIn
  <2> QED BY <2>3, RepliesTellIn
<1>9. ASSUME NEW kind, NEW id, NEW role \in Role, Boxed(kind, role, id)
      PROVE  Boxed(kind, role, id)' \/ (role = r /\ msg.kind = kind /\ msg.id = id)
  <2>1. PICK v \in Via : \E m : In(inbox[<<Here, role, v>>], m) /\ m.kind = kind /\ m.id = id
    BY <1>9 DEF Boxed, In
  <2>2. PICK m : In(inbox[<<Here, role, v>>], m) /\ m.kind = kind /\ m.id = id
    BY <2>1
  <2>3. In(inbox'[<<Here, role, v>>], m) \/ (role = r /\ m = msg)
    BY <1>6, <1>7, <2>2
  <2>4. CASE In(inbox'[<<Here, role, v>>], m)
    BY <2>2, <2>4, BoxedIsIn
  <2> QED BY <2>2, <2>3, <2>4
<1>10. In(inbox[<<Here, r, via>>], msg)
  BY <1>1, <1>4
<1> QED BY <1>5, <1>8, <1>9, <1>10

(* A call that is taken becomes a task. *)
LEMMA server_runKeepsLocal ==
  ASSUME MessagingAssumption, LocalInv, mode = "local", NEW via \in Via, server_run(Here, via)
  PROVE  LocalInv'
<1>0. LocalState /\ \A id \in DOMAIN calls : Waits(id) => UnderWay(id)
  BY LocalInvIs
<1>1. PICK msg : msg = Head(inbox[<<Here, "server", via>>])
  OBVIOUS
<1>2. PICK t : t = [node |-> Here, id |-> msg.id, source |-> msg.source]
  OBVIOUS
<1>3. t.node = Here /\ t.id = msg.id
  BY <1>2
<1>4. /\ inbox[<<Here, "server", via>>] # <<>>
      /\ inbox' = [inbox EXCEPT ![<<Here, "server", via>>] = Tail(@)]
      /\ tasks' = IF msg.kind = "Call" THEN tasks \cup {t} ELSE tasks
      /\ UNCHANGED <<mode, loop, calls, tracked, lost, swarm, wire>>
  BY <1>1, <1>2 DEF server_run, netvars
<1>5. /\ BoxesTyped' /\ RepliesTell'
      /\ \A kind, id : \A role \in Role : Boxed(kind, role, id) =>
           Boxed(kind, role, id)' \/ (role = "server" /\ msg.kind = kind /\ msg.id = id)
  <2>1. PICK r \in Role : r = "server"
    BY DEF Role
  <2>2. Taken(r, via, msg)
    BY <1>1, <1>4, <2>1 DEF Taken
  <2>3. /\ BoxesTyped' /\ RepliesTell' /\ In(inbox[<<Here, r, via>>], msg)
        /\ \A kind, id : \A role \in Role : Boxed(kind, role, id) =>
             Boxed(kind, role, id)' \/ (role = r /\ msg.kind = kind /\ msg.id = id)
    BY <1>0, <2>2, TakenFromBox DEF LocalState
  <2> QED BY <2>1, <2>3
<1>6. LocalState'
  <2>1. Waited(Here)' <=> Waited(Here)
    BY <1>4 DEF Waited
  <2>2. LoopsTyped' /\ NoSwarm'
    BY <1>0, <1>4 DEF LocalState, LoopsTyped, NoSwarm
  <2>3. \A u \in tasks' : u.node = Here
    BY <1>0, <1>3, <1>4 DEF LocalState
  <2> QED BY <1>0, <1>4, <1>5, <2>1, <2>2, <2>3 DEF LocalState
<1>7. ASSUME NEW id \in DOMAIN calls, Waits(id)' PROVE UnderWay(id)'
  <2>1. UnderWay(id)
    BY <1>0, <1>4, <1>7 DEF Waits
  <2>2. CASE \E u \in tasks : u.id = id
    BY <1>4, <2>2 DEF UnderWay
  <2>3. CASE Boxed("Reply", "client", id)
    <3>1. Boxed("Reply", "client", id)'
      BY <1>5, <2>3 DEF Role
    <3> QED BY <3>1 DEF UnderWay
  <2>4. CASE Boxed("Call", "server", id)
    <3>1. Boxed("Call", "server", id)' \/ (msg.kind = "Call" /\ msg.id = id)
      BY <1>5, <2>4 DEF Role
    <3>2. CASE msg.kind = "Call" /\ msg.id = id
      BY <1>3, <1>4, <3>2 DEF UnderWay
    <3> QED BY <3>1, <3>2 DEF UnderWay
  <2> QED BY <2>1, <2>2, <2>3, <2>4 DEF UnderWay
<1> QED BY <1>4, <1>6, <1>7, LocalInvIs

(* A reply that is taken answers its call: a call that waits is tracked. *)
LEMMA client_runKeepsLocal ==
  ASSUME MessagingAssumption, CallsInv, LocalInv, mode = "local", NEW via \in Via,
         client_run(Here, via)
  PROVE  LocalInv'
<1>0. LocalState /\ \A id \in DOMAIN calls : Waits(id) => UnderWay(id)
  BY LocalInvIs
<1>1. PICK msg : msg = Head(inbox[<<Here, "client", via>>])
  OBVIOUS
<1>2. /\ inbox[<<Here, "client", via>>] # <<>>
      /\ inbox' = [inbox EXCEPT ![<<Here, "client", via>>] = Tail(@)]
      /\ IF msg.kind = "Reply" THEN handle_reply(Here, msg) ELSE UNCHANGED <<calls, tracked>>
      /\ UNCHANGED <<mode, loop, tasks, lost, swarm, wire>>
  BY <1>1 DEF client_run, netvars
<1>3. /\ BoxesTyped' /\ RepliesTell' /\ In(inbox[<<Here, "client", via>>], msg)
      /\ \A kind, id : \A role \in Role : Boxed(kind, role, id) =>
           Boxed(kind, role, id)' \/ (role = "client" /\ msg.kind = kind /\ msg.id = id)
  <2>1. PICK r \in Role : r = "client"
    BY DEF Role
  <2>2. Taken(r, via, msg)
    BY <1>1, <1>2, <2>1 DEF Taken
  <2>3. /\ BoxesTyped' /\ RepliesTell' /\ In(inbox[<<Here, r, via>>], msg)
        /\ \A kind, id : \A role \in Role : Boxed(kind, role, id) =>
             Boxed(kind, role, id)' \/ (role = r /\ msg.kind = kind /\ msg.id = id)
    BY <1>0, <2>2, TakenFromBox DEF LocalState
  <2> QED BY <2>1, <2>3
<1>4. msg.kind = "Reply" => msg.result # "none"
  BY <1>0, <1>3, RepliesTellIn DEF LocalState, RepliesIn
<1>5. /\ DOMAIN calls' = DOMAIN calls
      /\ \A k \in DOMAIN calls : /\ calls'[k].sure = calls[k].sure
                                 /\ calls'[k].result = "none" => calls[k].result = "none"
      /\ \A k \in DOMAIN calls : calls'[k].result = "none" => k \in tracked'[Here]
      /\ \A k \in DOMAIN calls : calls'[k].result = "none" /\ msg.kind = "Reply" => k # msg.id
  <2>1. CASE msg.kind # "Reply"
    BY <1>0, <1>2, <2>1 DEF LocalState
  <2>2. CASE msg.kind = "Reply"
    <3>1. /\ DOMAIN calls' = DOMAIN calls
          /\ \A k \in DOMAIN calls :
               /\ calls'[k].sure = calls[k].sure
               /\ \/ calls'[k].result = calls[k].result
                  \/ k = msg.id /\ calls'[k].result = msg.result
          /\ \A k : k \in tracked[Here] => k \in tracked'[Here] \/ k = msg.id
          /\ msg.id \in tracked[Here] => calls'[msg.id].result = msg.result
      BY <1>2, <2>2, handle_replyKeepsCalls DEF MessagingAssumption
    <3>2. \A k \in DOMAIN calls : calls'[k].result = "none" => calls[k].result = "none"
      BY <1>4, <2>2, <3>1
    <3>3. \A k \in DOMAIN calls : calls'[k].result = "none" => k \in tracked[Here] /\ k # msg.id
      BY <1>0, <1>4, <2>2, <3>1, <3>2 DEF LocalState
    <3> QED BY <3>1, <3>2, <3>3
  <2> QED BY <2>1, <2>2
<1>6. LocalState'
  <2>1. Waited(Here)' <=> Waited(Here)
    BY <1>2 DEF Waited
  <2>2. LoopsTyped' /\ NoSwarm'
    BY <1>0, <1>2 DEF LocalState, LoopsTyped, NoSwarm
  <2> QED BY <1>0, <1>2, <1>3, <1>5, <2>1, <2>2 DEF LocalState
<1>7. ASSUME NEW id \in DOMAIN calls, Waits(id)' PROVE UnderWay(id)'
  <2>1. UnderWay(id)
    BY <1>0, <1>2, <1>5, <1>7 DEF Waits
  <2>2. CASE \E u \in tasks : u.id = id
    BY <1>2, <2>2 DEF UnderWay
  <2>3. CASE Boxed("Call", "server", id)
    <3>1. Boxed("Call", "server", id)'
      BY <1>3, <2>3 DEF Role
    <3> QED BY <3>1 DEF UnderWay
  <2>4. CASE Boxed("Reply", "client", id)
    <3>1. ~(msg.kind = "Reply" /\ msg.id = id)
      BY <1>5, <1>7 DEF Waits
    <3>2. Boxed("Reply", "client", id)'
      BY <1>3, <2>4, <3>1 DEF Role
    <3> QED BY <3>2 DEF UnderWay
  <2> QED BY <2>1, <2>2, <2>3, <2>4 DEF UnderWay
<1> QED BY <1>2, <1>5, <1>6, <1>7, LocalInvIs

(* Until both loops are ready no call counts on them. *)
LEMMA StartKeepsLocal ==
  ASSUME MessagingAssumption, LocalInv, mode = "local", NEW r \in Role,
         run_starts(Here, r) \/ run_ready(Here, r)
  PROVE  LocalInv'
<1>0. LocalState /\ \A id \in DOMAIN calls : Waits(id) => UnderWay(id)
  BY LocalInvIs
<1>1. PICK key \in Nodes \X Role : key = <<Here, r>>
  BY DEF MessagingAssumption
<1>2. PICK v \in {"subscribed", "ready"} : loop' = [loop EXCEPT ![key] = v]
  BY <1>1 DEF run_starts, run_ready
<1>3. /\ loop[key] \in {"new", "subscribed"}
      /\ UNCHANGED <<mode, inbox, tasks, calls, tracked, lost, swarm, wire>>
  BY <1>1 DEF run_starts, run_ready, netvars
<1>4. ~Waited(Here)
  BY <1>1, <1>3 DEF Waited
<1>5. LoopsTyped'
  BY <1>0, <1>1, <1>2 DEF LocalState, LoopsTyped
<1>6. LocalState'
  BY <1>0, <1>3, <1>4, <1>5 DEF LocalState, BoxesTyped, NoSwarm, RepliesTell
<1>7. ASSUME NEW id \in DOMAIN calls, Waits(id)' PROVE UnderWay(id)'
  BY <1>0, <1>3, <1>7 DEF Waits, UnderWay, Boxed
<1> QED BY <1>3, <1>6, <1>7, LocalInvIs

LEMMA SameLocal ==
  ASSUME LocalInv, UNCHANGED <<mode, loop, inbox, tasks, calls, tracked, lost, swarm, wire>>
  PROVE  LocalInv'
<1>1. LocalState => LocalState'
  BY DEF LocalState, BoxesTyped, LoopsTyped, NoSwarm, RepliesTell, Waited
<1>2. \A k \in DOMAIN calls : (Waits(k)' => Waits(k)) /\ (UnderWay(k) => UnderWay(k)')
  BY DEF Waits, UnderWay, Boxed
<1> QED BY <1>1, <1>2, LocalInvIs

LEMMA cancelKeepsLocal ==
  ASSUME CallsInv, LocalInv, NEW id \in DOMAIN calls, cancel(id)
  PROVE  LocalInv'
<1>1. /\ DOMAIN calls' = DOMAIN calls
      /\ \A k \in DOMAIN calls : /\ calls'[k].result = calls[k].result
                                 /\ calls'[k].sure = calls[k].sure
  BY cancelKeepsCalls
<1>2. UNCHANGED <<mode, loop, inbox, tasks, tracked, lost, swarm, wire>>
  BY DEF cancel, netvars
<1>3. LocalState => LocalState'
  BY <1>1, <1>2 DEF LocalState, BoxesTyped, LoopsTyped, NoSwarm, RepliesTell, Waited
<1>4. \A k \in DOMAIN calls : (Waits(k)' => Waits(k)) /\ (UnderWay(k) => UnderWay(k)')
  BY <1>1, <1>2 DEF Waits, UnderWay, Boxed
<1> QED BY <1>1, <1>2, <1>3, <1>4, LocalInvIs

LEMMA LocalStep ==
  ASSUME MessagingAssumption, CallsInv, LocalInv, [MessagingNext]_messagingVars
  PROVE  LocalInv'
<1>1. mode' = mode
  <2>1. CASE UNCHANGED messagingVars
    BY <2>1 DEF messagingVars
  <2>2. CASE Progress
    BY <2>2 DEF Progress, run_starts, run_ready, client_run, server_run, next_event, handle_call,
       execute_panics, execute_command, on_node_connected, on_node_disconnected, receive, lag
  <2>3. CASE Environment
    BY <2>3 DEF Environment, call, register, cancel, stream_events, emit, shutdown,
       ConnectionEstablished, ConnectionClosed, MdnsExpired
  <2> QED BY <2>1, <2>2, <2>3 DEF MessagingNext
<1>2. CASE mode # "local"
  BY <1>1, <1>2 DEF LocalInv
<1>3. CASE mode = "local"
  <2>0. Active = {Here} /\ NoSwarm /\ \A t \in tasks : t.node = Here
    BY <1>3 DEF Active, LocalInv
  <2>1. CASE UNCHANGED messagingVars
    BY <2>1, SameLocal DEF messagingVars, rpcvars, netvars
  <2>2. CASE Progress
    <3>1. ASSUME NEW r \in Role, run_starts(Here, r) \/ run_ready(Here, r) PROVE LocalInv'
      BY <1>3, <3>1, StartKeepsLocal
    <3>2. ASSUME NEW via \in Via, client_run(Here, via) PROVE LocalInv'
      BY <1>3, <3>2, client_runKeepsLocal
    <3>3. ASSUME NEW via \in Via, server_run(Here, via) PROVE LocalInv'
      BY <1>3, <3>3, server_runKeepsLocal
    <3>4. ASSUME NEW via \in Via, next_event(Here, via) PROVE LocalInv'
      BY <3>4, SameLocal DEF next_event, rpcvars, netvars
    <3>5. ASSUME NEW t \in tasks, handle_call(t) PROVE LocalInv'
      BY <1>3, <3>5, handle_callKeepsLocal
    <3>6. ASSUME NEW t \in tasks, execute_panics(t) PROVE LocalInv'
      BY <1>3, <3>6, execute_panicsKeepsLocal
    <3>7. ASSUME execute_command(Here) PROVE FALSE
      BY <2>0, <3>7 DEF execute_command, NoSwarm, MessagingAssumption
    <3>8. ASSUME on_node_connected(Here) PROVE LocalInv'
      BY <1>3, <3>8, CallKeepsLocal DEF on_node_connected
    <3>9. ASSUME on_node_disconnected(Here) \/ lag(Here) PROVE LocalInv'
      BY <3>9, SameLocal DEF on_node_disconnected, lag, rpcvars, netvars
    <3>10. wire = {}
      BY <2>0 DEF NoSwarm
    <3> QED BY <2>0, <2>2, <3>1, <3>2, <3>3, <3>4, <3>5, <3>6, <3>7, <3>8, <3>9, <3>10 DEF Progress
  <2>3. CASE Environment
    <3>1. ASSUME NEW name, NEW dest, call(Here, dest, name) PROVE LocalInv'
      BY <1>3, <3>1, CallKeepsLocal DEF call
    <3>2. ASSUME NEW name, register(Here, name) PROVE LocalInv'
      BY <3>2, SameLocal DEF register, netvars
    <3>3. ASSUME NEW id \in DOMAIN calls, cancel(id) PROVE LocalInv'
      BY <3>3, cancelKeepsLocal
    <3>4. ASSUME stream_events(Here) \/ emit(Here) PROVE LocalInv'
      BY <3>4, SameLocal DEF stream_events, emit, rpcvars
    <3> QED BY <1>3, <2>0, <2>3, <3>1, <3>2, <3>3, <3>4 DEF Environment
  <2> QED BY <2>1, <2>2, <2>3 DEF MessagingNext
<1> QED BY <1>2, <1>3

LEMMA MessagingStarts == ASSUME MessagingInit, MessagingAssumption PROVE MessagingInv
<1>1. Listed(<<>>) /\ DOMAIN <<>> = {} /\ \A e : ~In(<<>>, e)
  <2>1. DOMAIN <<>> = {} /\ <<>> \in Seq({})
    OBVIOUS
  <2>2. Listed(<<>>)
    BY <2>1, ListedOver
  <2> QED BY <2>1, <2>2 DEF In
<1>2. TasksPlaced /\ StreamsPlaced /\ CallsInv
  BY <1>1 DEF MessagingInit, TasksPlaced, StreamsPlaced, CallsInv, CallsTyped
<1>3. LocalInv
  <2>1. BoxesTyped
    BY <1>1 DEF MessagingInit, BoxesTyped
  <2>2. mode = "local" => LoopsTyped /\ NoSwarm
    BY DEF MessagingInit, LoopsTyped, NoSwarm
  <2>3. \A via \in Via : inbox[<<Here, "client", via>>] = <<>>
    BY DEF MessagingInit, Role, MessagingAssumption
  <2>4. RepliesTell
    BY <1>1, <2>3 DEF RepliesTell
  <2>5. tasks = {} /\ DOMAIN calls = {}
    BY <1>1 DEF MessagingInit
  <2> QED BY <2>1, <2>2, <2>4, <2>5 DEF LocalInv, WaitingCallIsUnderWay
<1>4. BusInv
  <2>1. /\ DOMAIN emitted = {} /\ wire = {} /\ gossip = {}
        /\ \A n \in Nodes : commands[n] = <<>> /\ seen[n] = <<>>
        /\ \A n \in Nodes : feed[n]["local"] = <<>> /\ feed[n]["network"] = <<>>
    BY <1>1 DEF MessagingInit, Via
  <2>2. BusTyped
    BY <1>1, <2>1 DEF MessagingInit, BusTyped
  <2>3. FlowsApart /\ FlowsOnce /\ PublishedLater /\ WireIsNew
    BY <1>1, <2>1 DEF FlowsApart, FlowsOnce, Once, PublishedLater, PublishesOnce,
       WireIsNew
  <2> QED BY <2>2, <2>3 DEF BusInv, BusRest
<1> QED BY <1>2, <1>3, <1>4 DEF MessagingInv

(* The invariant of the messaging: who tracks which call, where each       *)
(* unanswered call of a local process is, and which flow each event of a   *)
(* stream comes by.                                                        *)
THEOREM MessagingInvariant == MessagingSpec => []MessagingInv
<1>1. MessagingInit => MessagingInv
  BY MessagingStarts, MessagingAssumption
<1>2. MessagingInv /\ [MessagingNext]_messagingVars => MessagingInv'
  BY TasksPlacedStep, StreamsPlacedStep, CallsStep, LocalStep, BusStep, MessagingAssumption DEF MessagingInv
<1> QED BY <1>1, <1>2, PTL DEF MessagingSpec

(* In a local process a call made once both loops are ready has its        *)
(* envelope, its task or its reply somewhere until it is answered, unless  *)
(* a buffer lagged or the procedure panicked (run, handle_call).           *)
THEOREM LocalCallsAreNotForgotten == MessagingSpec => []WaitingCallIsUnderWay
<1>1. MessagingInv => WaitingCallIsUnderWay
  BY DEF MessagingInv, LocalInv, WaitingCallIsUnderWay
<1> QED BY <1>1, MessagingInvariant, PTL

-----------------------------------------------------------------------------
(* Streams of events *)

LEMMA Concatenated ==
  ASSUME NEW X, NEW s \in Seq(X), NEW t \in Seq(X)
  PROVE  /\ s \o t \in Seq(X)
         /\ \A e : In(s \o t, e) <=> In(s, e) \/ In(t, e)
         /\ Once(s) /\ Once(t) /\ (\A e \in X : ~(In(s, e) /\ In(t, e))) => Once(s \o t)
<1>1. /\ s \o t \in Seq(X) /\ Len(s) \in Nat /\ Len(t) \in Nat
      /\ DOMAIN s = 1..Len(s) /\ DOMAIN t = 1..Len(t) /\ DOMAIN (s \o t) = 1..(Len(s) + Len(t))
      /\ \A k \in DOMAIN s : s[k] \in X
      /\ \A k \in DOMAIN s : (s \o t)[k] = s[k]
      /\ \A k \in DOMAIN (s \o t) : k \notin DOMAIN s => (s \o t)[k] = t[k - Len(s)]
  OBVIOUS
<1>2. \A k \in DOMAIN (s \o t) : k \in DOMAIN s \/ (k \in Int /\ k - Len(s) \in DOMAIN t)
  BY <1>1
<1>3. \A k \in DOMAIN s : k \in DOMAIN (s \o t)
  BY <1>1
<1>4. \A k \in DOMAIN t : k + Len(s) \in DOMAIN (s \o t) /\ (s \o t)[k + Len(s)] = t[k]
  <2> SUFFICES ASSUME NEW k \in DOMAIN t
               PROVE  k + Len(s) \in DOMAIN (s \o t) /\ (s \o t)[k + Len(s)] = t[k]
    OBVIOUS
  <2>1. k + Len(s) \in DOMAIN (s \o t) /\ k + Len(s) \notin DOMAIN s /\ (k + Len(s)) - Len(s) = k
    BY <1>1
  <2> QED BY <1>1, <2>1
<1>5. \A e : In(s \o t, e) <=> In(s, e) \/ In(t, e)
  <2>1. ASSUME NEW e, In(s \o t, e) PROVE In(s, e) \/ In(t, e)
    BY <1>1, <1>2, <2>1 DEF In
  <2>2. ASSUME NEW e, In(s, e) PROVE In(s \o t, e)
    BY <1>1, <1>3, <2>2 DEF In
  <2>3. ASSUME NEW e, In(t, e) PROVE In(s \o t, e)
    BY <1>4, <2>3 DEF In
  <2> QED BY <2>1, <2>2, <2>3
<1>6. ASSUME Once(s), Once(t), \A e \in X : ~(In(s, e) /\ In(t, e)) PROVE Once(s \o t)
  <2> SUFFICES ASSUME NEW j \in DOMAIN (s \o t), NEW k \in DOMAIN (s \o t),
                      (s \o t)[j] = (s \o t)[k]
               PROVE  j = k
    BY DEF Once
  <2>0. \A a \in DOMAIN s, b \in DOMAIN t : s[a] # t[b]
    BY <1>1, <1>6 DEF In
  <2>1. CASE j \in DOMAIN s /\ k \in DOMAIN s
    BY <1>1, <1>6, <2>1 DEF Once
  <2>2. CASE j \in DOMAIN s /\ k \notin DOMAIN s
    BY <1>1, <1>2, <2>0, <2>2
  <2>3. CASE j \notin DOMAIN s /\ k \in DOMAIN s
    BY <1>1, <1>2, <2>0, <2>3
  <2>4. CASE j \notin DOMAIN s /\ k \notin DOMAIN s
    <3>1. j - Len(s) = k - Len(s) /\ j \in Int /\ k \in Int
      BY <1>1, <1>2, <1>6, <2>4 DEF Once
    <3> QED BY <1>1, <3>1
  <2> QED BY <2>1, <2>2, <2>3, <2>4
<1> QED BY <1>1, <1>5, <1>6

LEMMA StreamsOfBus == ASSUME BusInv, StreamsPlaced PROVE StreamGivesEventsOnce
<1>0. BusTyped /\ FlowsApart /\ FlowsOnce
  BY DEF BusInv, BusRest
<1> SUFFICES ASSUME NEW n \in streams
             PROVE  LET all == seen[n] \o feed[n]["local"] \o feed[n]["network"]
                    IN \A i, j \in DOMAIN all : i # j => all[i] # all[j]
  BY DEF StreamGivesEventsOnce
<1>1. n \in Nodes
  BY DEF StreamsPlaced
<1>2. PICK X : X = DOMAIN emitted
  OBVIOUS
<1>3. PICK s \in Seq(X) : s = seen[n]
  BY <1>0, <1>1, <1>2, FlowsListed
<1>4. PICK l \in Seq(X) : l = feed[n]["local"]
  BY <1>0, <1>1, <1>2, FlowsListed
<1>5. PICK w \in Seq(X) : w = feed[n]["network"]
  BY <1>0, <1>1, <1>2, FlowsListed
<1>6. Once(s) /\ Once(l) /\ Once(w)
  BY <1>0, <1>1, <1>3, <1>4, <1>5 DEF FlowsOnce
<1>7. \A e \in X : ~(In(s, e) /\ In(l, e)) /\ ~(In(s, e) /\ In(w, e)) /\ ~(In(l, e) /\ In(w, e))
  BY <1>0, <1>1, <1>2, <1>3, <1>4, <1>5 DEF FlowsApart
<1>8. PICK b \in Seq(X) : b = s \o l
  BY Concatenated
<1>9. Once(b) /\ \A e : In(b, e) <=> In(s, e) \/ In(l, e)
  BY <1>6, <1>7, <1>8, Concatenated
<1> DEFINE all == seen[n] \o feed[n]["local"] \o feed[n]["network"]
<1>10. all = b \o w
  BY <1>3, <1>4, <1>5, <1>8
<1> HIDE DEF all
<1>11. Once(all) /\ \A e : In(all, e) <=> In(b, e) \/ In(w, e)
  <2>1. \A e \in X : ~(In(b, e) /\ In(w, e))
    BY <1>7, <1>9
  <2> QED BY <1>6, <1>9, <1>10, <2>1, Concatenated
<1>12. \A i, j \in DOMAIN all : i # j => all[i] # all[j]
  BY <1>11 DEF Once
<1> QED BY <1>12 DEF all

(* A router's stream gives no event twice, whatever its buffers lose: the  *)
(* local channel carries the node's own events and the swarm only those of *)
(* the others (emit, stream_events).                                       *)
THEOREM StreamsGiveEventsOnce == MessagingSpec => []StreamGivesEventsOnce
<1>1. MessagingInv => StreamGivesEventsOnce
  BY StreamsOfBus DEF MessagingInv
<1> QED BY <1>1, MessagingInvariant, PTL

-----------------------------------------------------------------------------
(* Where a call is between its client and its server *)

IsAsk(m) == m.kind = "Call"
SendsAsk(c) == c.type = "Send" /\ IsAsk(c.msg)
WiresAsk(w) == w.type = "message" /\ IsAsk(w.msg)

(* The message that carries a call, in a command and on the wire. *)
Ask(id) == Envelope(calls[id].dest, "Call", id, "none")
SendAsk(id) == [type |-> "Send", msg |-> Ask(id)]
WireAsk(id) == [type |-> "message", from |-> calls[id].node, to |-> calls[id].dest, msg |-> Ask(id)]

ServerBox(n, via) == inbox[<<n, "server", via>>]

Queued(id) == In(commands[calls[id].node], SendAsk(id))
Wired(id) == WireAsk(id) \in wire
InBox(id, via) == In(ServerBox(calls[id].dest, via), Ask(id))
Ran(id) == \E r \in ran : r.id = id

OnceOf(s, x) == \A j, k \in DOMAIN s : s[j] = x /\ s[k] = x => j = k

(* A call has not left its node, is on the wire, waits for the server of   *)
(* the addressee or was taken by it.                                       *)
OnePlace(id) ==
  /\ Queued(id) => ~Wired(id) /\ ~InBox(id, "local") /\ ~InBox(id, "network") /\ ~Ran(id)
  /\ Wired(id) => ~InBox(id, "local") /\ ~InBox(id, "network") /\ ~Ran(id)
  /\ InBox(id, "local") => ~InBox(id, "network") /\ ~Ran(id)
  /\ InBox(id, "network") => ~Ran(id)

OnceThere(id) ==
  /\ OnceOf(commands[calls[id].node], SendAsk(id))
  /\ \A via \in Via : OnceOf(ServerBox(calls[id].dest, via), Ask(id))
  /\ \A q, r \in ran : q.id = id /\ r.id = id => q = r

(* Whatever carries a call carries one that was made, where it may be. *)
AsksKnown ==
  /\ \A n \in Nodes : \A c : In(commands[n], c) /\ SendsAsk(c) =>
       \E id \in DOMAIN calls : c = SendAsk(id) /\ n = calls[id].node
  /\ \A w \in wire : WiresAsk(w) => \E id \in DOMAIN calls : w = WireAsk(id)
  /\ \A n \in Nodes, via \in Via : \A m : In(ServerBox(n, via), m) /\ IsAsk(m) =>
       \E id \in DOMAIN calls : m = Ask(id) /\ n = calls[id].dest
  /\ \A r \in ran : r.id \in DOMAIN calls /\ r.node = calls[r.id].dest

CallsPlaced == \A id \in DOMAIN calls : calls[id].node \in Nodes /\ calls[id].dest \in Nodes

(* The directory hears of nodes, and of none without a network. *)
NewsTyped ==
  /\ DOMAIN news = Nodes /\ (mode = "network" \/ mode = "local")
  /\ \A n \in Nodes : Listed(news[n]) /\ \A x : In(news[n], x) => x.node \in Nodes /\ mode = "network"

AsksTyped == BoxesTyped /\ CallsPlaced /\ NewsTyped

AsksInv ==
  AsksTyped /\ AsksKnown /\ \A id \in DOMAIN calls : OnePlace(id) /\ OnceThere(id)

LEMMA AsksRan == ASSUME AsksInv PROVE ExecutedOnceByAddressee
BY DEF AsksInv, AsksKnown, OnceThere, ExecutedOnceByAddressee

-----------------------------------------------------------------------------
(* What is in a queue or a buffer once *)

LEMMA OnceOfAppend ==
  ASSUME NEW s, Listed(s), NEW x, NEW y, OnceOf(s, x), y = x => ~In(s, x)
  PROVE  OnceOf(Append(s, y), x)
<1> SUFFICES ASSUME NEW j \in DOMAIN Append(s, y), NEW k \in DOMAIN Append(s, y),
                    Append(s, y)[j] = x, Append(s, y)[k] = x
             PROVE  j = k
  BY DEF OnceOf
<1>1. /\ \A i \in DOMAIN s : Append(s, y)[i] = s[i]
      /\ Append(s, y)[Len(s) + 1] = y
      /\ \A i \in DOMAIN Append(s, y) : i \in DOMAIN s \/ i = Len(s) + 1
  BY ListedAppend
<1> QED BY <1>1 DEF OnceOf, In

LEMMA OnceOfTail ==
  ASSUME NEW s, Listed(s), s # <<>>, NEW x, OnceOf(s, x)
  PROVE  /\ OnceOf(Tail(s), x)
         /\ Head(s) = x => ~In(Tail(s), x)
<1>0. \A k \in DOMAIN Tail(s) : k \in Nat /\ k # 0 /\ k + 1 \in DOMAIN s /\ Tail(s)[k] = s[k + 1]
  BY ListedTail
<1>1. ASSUME NEW j \in DOMAIN Tail(s), NEW k \in DOMAIN Tail(s), Tail(s)[j] = x, Tail(s)[k] = x
      PROVE  j = k
  <2>1. j + 1 = k + 1 /\ j \in Nat /\ k \in Nat
    BY <1>0, <1>1 DEF OnceOf
  <2> QED BY <2>1
<1>2. ASSUME Head(s) = x, In(Tail(s), x) PROVE FALSE
  <2>1. PICK k \in DOMAIN Tail(s) : Tail(s)[k] = x
    BY <1>2 DEF In
  <2>2. k + 1 = 1 /\ k \in Nat /\ k # 0
    BY <1>0, <1>2, <2>1, ListedTail DEF OnceOf
  <2> QED BY <2>2
<1> QED BY <1>1, <1>2 DEF OnceOf

LEMMA OnceOfPush ==
  ASSUME MessagingAssumption, NEW b, Listed(b), NEW x, NEW y, OnceOf(b, x), y = x => ~In(b, x)
  PROVE  OnceOf(Push(b, y), x)
<1>1. CASE Len(b) < Capacity
  BY <1>1, OnceOfAppend DEF Push
<1>2. CASE ~(Len(b) < Capacity)
  <2>0. b \in Seq({b[k] : k \in DOMAIN b})
    BY DEF Listed
  <2>1. b # <<>>
    BY <1>2, <2>0 DEF MessagingAssumption
  <2>2. Push(b, y) = Append(Tail(b), y)
    BY <1>2 DEF Push
  <2>3. Listed(Tail(b)) /\ OnceOf(Tail(b), x) /\ (In(Tail(b), x) => In(b, x))
    BY <2>1, ListedTail, InTail, OnceOfTail
  <2> QED BY <2>2, <2>3, OnceOfAppend
<1> QED BY <1>1, <1>2

(* A queue or a buffer that gets no call. *)
QuietQueue(s, r) ==
  \/ r = s
  \/ s # <<>> /\ r = Tail(s)
  \/ \E c : ~SendsAsk(c) /\ r = Append(s, c)

QuietBox(b, d) ==
  \/ d = b
  \/ b # <<>> /\ d = Tail(b)
  \/ \E m : ~IsAsk(m) /\ d = Push(b, m)

LEMMA QuietQueueKeeps ==
  ASSUME NEW s, Listed(s), NEW r, QuietQueue(s, r)
  PROVE  /\ \A c : In(r, c) /\ SendsAsk(c) => In(s, c)
         /\ \A c : SendsAsk(c) /\ OnceOf(s, c) => OnceOf(r, c)
<1>1. CASE r = s
  BY <1>1
<1>2. CASE s # <<>> /\ r = Tail(s)
  BY <1>2, InTail, OnceOfTail
<1>3. ASSUME NEW x, ~SendsAsk(x), r = Append(s, x)
      PROVE  /\ \A c : In(r, c) /\ SendsAsk(c) => In(s, c)
             /\ \A c : SendsAsk(c) /\ OnceOf(s, c) => OnceOf(r, c)
  BY <1>3, InAppend, OnceOfAppend
<1> QED BY <1>1, <1>2, <1>3 DEF QuietQueue

LEMMA QuietBoxKeeps ==
  ASSUME MessagingAssumption, NEW b, Listed(b), NEW d, QuietBox(b, d)
  PROVE  /\ Listed(d)
         /\ \A m : In(d, m) /\ IsAsk(m) => In(b, m)
         /\ \A m : IsAsk(m) /\ OnceOf(b, m) => OnceOf(d, m)
<1>1. CASE d = b
  BY <1>1
<1>2. CASE b # <<>> /\ d = Tail(b)
  BY <1>2, InTail, OnceOfTail, ListedTail
<1>3. ASSUME NEW x, ~IsAsk(x), d = Push(b, x)
      PROVE  /\ Listed(d)
             /\ \A m : In(d, m) /\ IsAsk(m) => In(b, m)
             /\ \A m : IsAsk(m) /\ OnceOf(b, m) => OnceOf(d, m)
  BY <1>3, PushKeeps, OnceOfPush
<1> QED BY <1>1, <1>2, <1>3 DEF QuietBox

-----------------------------------------------------------------------------
(* A step that brings no call *)

CallsKept ==
  \A id \in DOMAIN calls : /\ id \in DOMAIN calls'
                           /\ calls'[id].node = calls[id].node /\ calls'[id].dest = calls[id].dest

LEMMA AsksKept ==
  ASSUME CallsKept, NEW id \in DOMAIN calls
  PROVE  /\ Ask(id)' = Ask(id) /\ SendAsk(id)' = SendAsk(id) /\ WireAsk(id)' = WireAsk(id)
         /\ Queued(id)' <=> In(commands'[calls[id].node], SendAsk(id))
         /\ Wired(id)' <=> WireAsk(id) \in wire'
         /\ \A via : InBox(id, via)' <=> In(inbox'[<<calls[id].dest, "server", via>>], Ask(id))
         /\ OnceThere(id)' <=>
              /\ OnceOf(commands'[calls[id].node], SendAsk(id))
              /\ \A via \in Via : OnceOf(inbox'[<<calls[id].dest, "server", via>>], Ask(id))
              /\ \A q, r \in ran' : q.id = id /\ r.id = id => q = r
<1>1. /\ calls'[id].node = calls[id].node /\ calls'[id].dest = calls[id].dest
  BY DEF CallsKept
<1>2. Ask(id)' = Ask(id)
  BY <1>1 DEF Ask, Envelope
<1>3. SendAsk(id)' = SendAsk(id) /\ WireAsk(id)' = WireAsk(id)
  BY <1>1, <1>2 DEF SendAsk, WireAsk
<1>4. Queued(id)' <=> In(commands'[calls[id].node], SendAsk(id))
  BY <1>1, <1>3 DEF Queued, In
<1>5. Wired(id)' <=> WireAsk(id) \in wire'
  BY <1>3 DEF Wired
<1>6. \A via : InBox(id, via)' <=> In(inbox'[<<calls[id].dest, "server", via>>], Ask(id))
  BY <1>1, <1>2 DEF InBox, ServerBox, In
<1>7. OnceThere(id)' <=>
              /\ OnceOf(commands'[calls[id].node], SendAsk(id))
              /\ \A via \in Via : OnceOf(inbox'[<<calls[id].dest, "server", via>>], Ask(id))
              /\ \A q, r \in ran' : q.id = id /\ r.id = id => q = r
  BY <1>1, <1>2, <1>3 DEF OnceThere, ServerBox, OnceOf
<1> QED BY <1>2, <1>3, <1>4, <1>5, <1>6, <1>7

LEMMA AskIs ==
  ASSUME NEW id
  PROVE  /\ IsAsk(Ask(id)) /\ SendsAsk(SendAsk(id)) /\ WiresAsk(WireAsk(id))
         /\ Ask(id).id = id /\ SendAsk(id).msg = Ask(id)
         /\ WireAsk(id).msg = Ask(id) /\ WireAsk(id).to = calls[id].dest
         /\ Ask(id).dest = calls[id].dest
BY DEF Ask, SendAsk, WireAsk, IsAsk, SendsAsk, WiresAsk, Envelope

QuietCommands == \A n \in Nodes : QuietQueue(commands[n], commands'[n])
QuietWire == \A w \in wire' : WiresAsk(w) => w \in wire
QuietBoxes == \A n \in Nodes, via \in Via : QuietBox(ServerBox(n, via), ServerBox(n, via)')
SameCalls == CallsKept /\ DOMAIN calls' = DOMAIN calls

LEMMA BoxOf ==
  ASSUME BoxesTyped, NEW n \in Nodes, NEW via \in Via
  PROVE  <<n, "server", via>> \in DOMAIN inbox /\ Listed(ServerBox(n, via))
<1>1. <<n, "server", via>> \in DOMAIN inbox
  BY DEF BoxesTyped, Role
<1> QED BY <1>1 DEF BoxesTyped, ServerBox

(* A step that moves no call towards its server. *)
LEMMA QuietKeeps ==
  ASSUME MessagingAssumption, BusTyped, AsksInv, AsksTyped', SameCalls, QuietCommands, QuietWire,
         QuietBoxes, ran' = ran
  PROVE  AsksInv'
<1>0. AsksTyped /\ AsksKnown /\ BoxesTyped /\ CallsKept /\ DOMAIN calls' = DOMAIN calls
  BY DEF AsksInv, AsksTyped, SameCalls
<1>1. \A n \in Nodes :
        /\ \A c : In(commands'[n], c) /\ SendsAsk(c) => In(commands[n], c)
        /\ \A c : SendsAsk(c) /\ OnceOf(commands[n], c) => OnceOf(commands'[n], c)
  BY QuietQueueKeeps DEF QuietCommands, BusTyped
<1>2. \A n \in Nodes, via \in Via :
        /\ \A m : In(ServerBox(n, via)', m) /\ IsAsk(m) => In(ServerBox(n, via), m)
        /\ \A m : IsAsk(m) /\ OnceOf(ServerBox(n, via), m) => OnceOf(ServerBox(n, via)', m)
  BY <1>0, BoxOf, QuietBoxKeeps DEF QuietBoxes
<1>3. AsksKnown'
  <2>1. ASSUME NEW n \in Nodes, NEW c, In(commands'[n], c), SendsAsk(c)
        PROVE  \E id \in DOMAIN calls' : c = SendAsk(id)' /\ n = calls'[id].node
    <3>1. PICK id \in DOMAIN calls : c = SendAsk(id) /\ n = calls[id].node
      BY <1>0, <1>1, <2>1 DEF AsksKnown
    <3> QED BY <1>0, <3>1, AsksKept DEF CallsKept
  <2>2. ASSUME NEW w \in wire', WiresAsk(w)
        PROVE  \E id \in DOMAIN calls' : w = WireAsk(id)'
    <3>1. PICK id \in DOMAIN calls : w = WireAsk(id)
      BY <1>0, <2>2 DEF AsksKnown, QuietWire
    <3> QED BY <1>0, <3>1, AsksKept
  <2>3. ASSUME NEW n \in Nodes, NEW via \in Via, NEW m, In(ServerBox(n, via)', m), IsAsk(m)
        PROVE  \E id \in DOMAIN calls' : m = Ask(id)' /\ n = calls'[id].dest
    <3>1. PICK id \in DOMAIN calls : m = Ask(id) /\ n = calls[id].dest
      BY <1>0, <1>2, <2>3 DEF AsksKnown
    <3> QED BY <1>0, <3>1, AsksKept DEF CallsKept
  <2>4. \A r \in ran' : r.id \in DOMAIN calls' /\ r.node = calls'[r.id].dest
    BY <1>0 DEF AsksKnown, CallsKept
  <2> QED BY <2>1, <2>2, <2>3, <2>4 DEF AsksKnown
<1>4. ASSUME NEW id \in DOMAIN calls PROVE OnePlace(id)' /\ OnceThere(id)'
  <2>0. OnePlace(id) /\ OnceThere(id) /\ calls[id].node \in Nodes /\ calls[id].dest \in Nodes
    BY <1>0 DEF AsksInv, AsksTyped, CallsPlaced
  <2>1. Queued(id)' => Queued(id)
    BY <1>0, <1>1, <2>0, AsksKept, AskIs DEF Queued
  <2>2. Wired(id)' => Wired(id)
    BY <1>0, AsksKept, AskIs DEF Wired, QuietWire
  <2>3. \A via \in Via : InBox(id, via)' => InBox(id, via)
    BY <1>0, <1>2, <2>0, AsksKept, AskIs DEF InBox, ServerBox
  <2>4. Ran(id)' => Ran(id)
    BY DEF Ran
  <2>5. OnePlace(id)'
    <3>1. "local" \in Via /\ "network" \in Via
      BY DEF Via
    <3>2. InBox(id, "local")' => InBox(id, "local")
      BY <2>3, <3>1
    <3>3. InBox(id, "network")' => InBox(id, "network")
      BY <2>3, <3>1
    <3> QED BY <2>0, <2>1, <2>2, <2>4, <3>2, <3>3 DEF OnePlace
  <2>6. OnceOf(commands'[calls[id].node], SendAsk(id))
    BY <1>1, <2>0, AskIs DEF OnceThere
  <2>7. \A via \in Via : OnceOf(inbox'[<<calls[id].dest, "server", via>>], Ask(id))
    BY <1>2, <2>0, AskIs DEF OnceThere, ServerBox
  <2>8. \A q, r \in ran' : q.id = id /\ r.id = id => q = r
    BY <2>0 DEF OnceThere
  <2> QED BY <1>0, <2>5, <2>6, <2>7, <2>8, AsksKept
<1> QED BY <1>0, <1>3, <1>4 DEF AsksInv

-----------------------------------------------------------------------------
(* Buffers of the servers *)

LEMMA DeliverBoxes ==
  ASSUME MessagingAssumption, BoxesTyped, NEW n, NEW v, NEW msg, inbox' = Deliver(inbox, n, v, msg)
  PROVE  /\ BoxesTyped'
         /\ \A k \in Nodes, via \in Via :
              \/ ServerBox(k, via)' = ServerBox(k, via)
              \/ /\ k = n /\ via = v
                 /\ ServerBox(k, via)' = Push(ServerBox(k, via), msg)
<1>1. /\ DOMAIN inbox' = DOMAIN inbox
      /\ \A k \in DOMAIN inbox :
           inbox'[k] = inbox[k] \/ (k[1] = n /\ k[3] = v /\ inbox'[k] = Push(inbox[k], msg))
  BY DEF Deliver
<1>2. BoxesTyped'
  BY <1>1, PushKeeps DEF BoxesTyped
<1>3. ASSUME NEW k \in Nodes, NEW via \in Via
      PROVE  \/ ServerBox(k, via)' = ServerBox(k, via)
             \/ /\ k = n /\ via = v
                /\ ServerBox(k, via)' = Push(ServerBox(k, via), msg)
  <2>1. PICK key : key = <<k, "server", via>>
    OBVIOUS
  <2>2. key \in DOMAIN inbox /\ key[1] = k /\ key[3] = via
    BY <2>1, BoxOf
  <2> QED BY <1>1, <2>1, <2>2 DEF ServerBox
<1> QED BY <1>2, <1>3

Takes(n, role, via) ==
  /\ inbox[<<n, role, via>>] # <<>>
  /\ inbox' = [inbox EXCEPT ![<<n, role, via>>] = Tail(@)]

LEMMA TakeBoxes ==
  ASSUME BoxesTyped, NEW n \in Nodes, NEW role \in Role, NEW v \in Via, Takes(n, role, v)
  PROVE  /\ BoxesTyped'
         /\ \A k \in Nodes, via \in Via :
              ServerBox(k, via)' = IF k = n /\ role = "server" /\ via = v
                                   THEN Tail(ServerBox(k, via)) ELSE ServerBox(k, via)
<1>1. PICK key : key = <<n, role, v>>
  OBVIOUS
<1>2. key \in DOMAIN inbox /\ Listed(inbox[key]) /\ inbox[key] # <<>>
  BY <1>1 DEF BoxesTyped, Takes
<1>3. /\ DOMAIN inbox' = DOMAIN inbox /\ inbox'[key] = Tail(inbox[key])
      /\ \A k \in DOMAIN inbox : k # key => inbox'[k] = inbox[k]
  BY <1>1, <1>2 DEF Takes
<1>4. BoxesTyped'
  <2>1. Listed(Tail(inbox[key]))
    BY <1>2, ListedTail
  <2>2. \A k \in DOMAIN inbox : Listed(inbox'[k])
    BY <1>3, <2>1 DEF BoxesTyped
  <2> QED BY <1>3, <2>2 DEF BoxesTyped
<1>5. ASSUME NEW k \in Nodes, NEW via \in Via
      PROVE  ServerBox(k, via)' = IF k = n /\ role = "server" /\ via = v
                                  THEN Tail(ServerBox(k, via)) ELSE ServerBox(k, via)
  <2>1. PICK other : other = <<k, "server", via>>
    OBVIOUS
  <2>2. other \in DOMAIN inbox
    BY <2>1, BoxOf
  <2>3. other = key <=> k = n /\ role = "server" /\ via = v
    BY <1>1, <2>1
  <2> QED BY <1>3, <2>1, <2>2, <2>3 DEF ServerBox
<1> QED BY <1>4, <1>5

-----------------------------------------------------------------------------
(* A call that moves *)

(* The call x is at the place p only, p one of queue, wire, local, network *)
(* and ran.                                                                *)
OnlyAt(x, p) ==
  /\ Queued(x) => p = "queue"
  /\ Wired(x) => p = "wire"
  /\ InBox(x, "local") => p = "local"
  /\ InBox(x, "network") => p = "network"
  /\ Ran(x) => p = "ran"

(* The step brings the call x to the place p, and no other call anywhere. *)
Brings(x, p) ==
  /\ \A n \in Nodes : \A c : In(commands'[n], c) /\ SendsAsk(c) =>
       In(commands[n], c) \/ (p = "queue" /\ c = SendAsk(x)' /\ n = calls'[x].node)
  /\ \A w \in wire' : WiresAsk(w) => w \in wire \/ (p = "wire" /\ w = WireAsk(x)')
  /\ \A n \in Nodes, via \in Via : \A m : In(ServerBox(n, via)', m) /\ IsAsk(m) =>
       In(ServerBox(n, via), m) \/ (p = via /\ m = Ask(x)' /\ n = calls'[x].dest)
  /\ \A r \in ran' : r \in ran \/ (p = "ran" /\ r.id = x /\ r.node = calls'[x].dest)

KeepsOnce ==
  /\ \A n \in Nodes : \A c : SendsAsk(c) /\ OnceOf(commands[n], c) => OnceOf(commands'[n], c)
  /\ \A n \in Nodes, via \in Via : \A m :
       IsAsk(m) /\ OnceOf(ServerBox(n, via), m) => OnceOf(ServerBox(n, via)', m)

LEMMA MovedKeeps ==
  ASSUME AsksInv, AsksTyped', CallsKept, NEW x, DOMAIN calls' = DOMAIN calls \cup {x}, NEW p,
         Brings(x, p), KeepsOnce, OnlyAt(x, p)', OnceThere(x)'
  PROVE  AsksInv'
<1>0. AsksTyped /\ AsksKnown
  BY DEF AsksInv
<1>1. AsksKnown'
  <2>1. ASSUME NEW n \in Nodes, NEW c, In(commands'[n], c), SendsAsk(c)
        PROVE  \E id \in DOMAIN calls' : c = SendAsk(id)' /\ n = calls'[id].node
    <3>1. CASE In(commands[n], c)
      <4>1. PICK id \in DOMAIN calls : c = SendAsk(id) /\ n = calls[id].node
        BY <1>0, <2>1, <3>1 DEF AsksKnown
      <4> QED BY <4>1, AsksKept DEF CallsKept
    <3>2. CASE c = SendAsk(x)' /\ n = calls'[x].node
      BY <3>2
    <3> QED BY <2>1, <3>1, <3>2 DEF Brings
  <2>2. ASSUME NEW w \in wire', WiresAsk(w)
        PROVE  \E id \in DOMAIN calls' : w = WireAsk(id)'
    <3>1. CASE w \in wire
      <4>1. PICK id \in DOMAIN calls : w = WireAsk(id)
        BY <1>0, <2>2, <3>1 DEF AsksKnown
      <4> QED BY <4>1, AsksKept DEF CallsKept
    <3>2. CASE w = WireAsk(x)'
      BY <3>2
    <3> QED BY <2>2, <3>1, <3>2 DEF Brings
  <2>3. ASSUME NEW n \in Nodes, NEW via \in Via, NEW m, In(ServerBox(n, via)', m), IsAsk(m)
        PROVE  \E id \in DOMAIN calls' : m = Ask(id)' /\ n = calls'[id].dest
    <3>1. CASE In(ServerBox(n, via), m)
      <4>1. PICK id \in DOMAIN calls : m = Ask(id) /\ n = calls[id].dest
        BY <1>0, <2>3, <3>1 DEF AsksKnown
      <4> QED BY <4>1, AsksKept DEF CallsKept
    <3>2. CASE m = Ask(x)' /\ n = calls'[x].dest
      BY <3>2
    <3> QED BY <2>3, <3>1, <3>2 DEF Brings
  <2>4. \A r \in ran' : r.id \in DOMAIN calls' /\ r.node = calls'[r.id].dest
    BY <1>0 DEF AsksKnown, CallsKept, Brings
  <2> QED BY <2>1, <2>2, <2>3, <2>4 DEF AsksKnown
<1>2. OnePlace(x)'
  BY DEF OnlyAt, OnePlace
<1>3. ASSUME NEW id \in DOMAIN calls, id # x PROVE OnePlace(id)' /\ OnceThere(id)'
  <2>0. OnePlace(id) /\ OnceThere(id) /\ calls[id].node \in Nodes /\ calls[id].dest \in Nodes
    BY <1>0 DEF AsksInv, AsksTyped, CallsPlaced
  <2>1. Ask(id) # Ask(x)' /\ SendAsk(id) # SendAsk(x)' /\ WireAsk(id) # WireAsk(x)'
    BY <1>3 DEF Ask, SendAsk, WireAsk, Envelope
  <2>2. Queued(id)' => Queued(id)
    BY <2>0, <2>1, AsksKept, AskIs DEF Queued, Brings
  <2>3. Wired(id)' => Wired(id)
    BY <2>1, AsksKept, AskIs DEF Wired, Brings
  <2>4. \A via \in Via : InBox(id, via)' => InBox(id, via)
    BY <2>0, <2>1, AsksKept, AskIs DEF InBox, ServerBox, Brings
  <2>5. Ran(id)' => Ran(id)
    BY <1>3 DEF Ran, Brings
  <2>6. OnePlace(id)'
    <3>1. "local" \in Via /\ "network" \in Via
      BY DEF Via
    <3>2. InBox(id, "local")' => InBox(id, "local")
      BY <2>4, <3>1
    <3>3. InBox(id, "network")' => InBox(id, "network")
      BY <2>4, <3>1
    <3> QED BY <2>0, <2>2, <2>3, <2>5, <3>2, <3>3 DEF OnePlace
  <2>7. OnceOf(commands'[calls[id].node], SendAsk(id))
    BY <2>0, AskIs DEF OnceThere, KeepsOnce
  <2>8. \A via \in Via : OnceOf(inbox'[<<calls[id].dest, "server", via>>], Ask(id))
    BY <2>0, AskIs DEF OnceThere, ServerBox, KeepsOnce
  <2>9. \A q, r \in ran' : q.id = id /\ r.id = id => q = r
    BY <1>3, <2>0 DEF OnceThere, Brings
  <2> QED BY <2>6, <2>7, <2>8, <2>9, AsksKept
<1> QED BY <1>1, <1>2, <1>3 DEF AsksInv

-----------------------------------------------------------------------------
(* The steps of a call *)

LEMMA SameQuiet ==
  ASSUME commands' = commands, inbox' = inbox, wire' = wire
  PROVE  QuietCommands /\ QuietBoxes /\ QuietWire
BY DEF QuietCommands, QuietQueue, QuietBoxes, QuietBox, QuietWire, ServerBox

LEMMA SameKeepsOnce ==
  /\ commands' = commands =>
       \A n \in Nodes : \A c : SendsAsk(c) /\ OnceOf(commands[n], c) => OnceOf(commands'[n], c)
  /\ inbox' = inbox =>
       \A n \in Nodes, via \in Via : \A m :
         IsAsk(m) /\ OnceOf(ServerBox(n, via), m) => OnceOf(ServerBox(n, via)', m)
BY DEF ServerBox

(* A call that is not made yet is nowhere. *)
LEMMA NewCall ==
  ASSUME BusTyped, AsksInv, CallsKept, NEW x, x \notin DOMAIN calls
  PROVE  /\ \A n \in Nodes : ~In(commands[n], SendAsk(x)')
         /\ WireAsk(x)' \notin wire
         /\ \A n \in Nodes, via \in Via : ~In(ServerBox(n, via), Ask(x)')
         /\ \A r \in ran : r.id # x
<1>0. AsksKnown
  BY DEF AsksInv
<1>1. /\ IsAsk(Ask(x)') /\ SendsAsk(SendAsk(x)') /\ WiresAsk(WireAsk(x)')
      /\ Ask(x)'.id = x /\ SendAsk(x)'.msg = Ask(x)' /\ WireAsk(x)'.msg = Ask(x)'
  BY DEF Ask, SendAsk, WireAsk, IsAsk, SendsAsk, WiresAsk, Envelope
<1> QED BY <1>0, <1>1, AskIs DEF AsksKnown

LEMMA CallKeepsAsks ==
  ASSUME MessagingAssumption, BusTyped, AsksInv, CallsTyped, NEW n \in Nodes, NEW dest \in Nodes, NEW name,
         mode = "local" => dest = n,
         Call(n, dest, name), UNCHANGED <<wire, ran>>, NewsTyped'
  PROVE  AsksInv'
<1>0. AsksTyped /\ BoxesTyped /\ CallsPlaced
  BY DEF AsksInv, AsksTyped
<1>1. PICK c : c = [node |-> n, dest |-> dest, name |-> name, kept |-> TRUE,
                    sure |-> Waited(n), result |-> "none"]
  OBVIOUS
<1>2. PICK x : x = Len(calls) + 1
  OBVIOUS
<1>3. PICK msg : msg = Envelope(dest, "Call", x, "none")
  OBVIOUS
<1>4. calls' = Append(calls, c) /\ send(n, msg) /\ c.node = n /\ c.dest = dest /\ msg.dest = dest
  BY <1>1, <1>2, <1>3 DEF Call, Envelope
<1>5. /\ DOMAIN calls' = DOMAIN calls \cup {x} /\ x \notin DOMAIN calls
      /\ \A k \in DOMAIN calls : calls'[k] = calls[k]
      /\ calls'[x] = c
  BY <1>2, <1>4, ListedAppend DEF CallsTyped
<1>6. CallsKept /\ CallsPlaced' /\ Ask(x)' = msg
  BY <1>0, <1>3, <1>4, <1>5 DEF CallsKept, CallsPlaced, Ask
<1>7. SendAsk(x)' = [type |-> "Send", msg |-> msg]
  BY <1>6 DEF SendAsk
<1>8. /\ \A m \in Nodes : ~In(commands[m], SendAsk(x)')
      /\ WireAsk(x)' \notin wire
      /\ \A m \in Nodes, via \in Via : ~In(ServerBox(m, via), Ask(x)')
      /\ \A r \in ran : r.id # x
  BY <1>5, <1>6, NewCall
<1>9. "local" \in Via /\ "network" \in Via
  BY DEF Via
<1>10. ~Wired(x)' /\ ~Ran(x)' /\ \A q, r \in ran' : q.id = x /\ r.id = x => q = r
  BY <1>8 DEF Wired, Ran
<1>11. CASE mode = "local" \/ dest = n
  <2>1. dest = n /\ inbox' = Deliver(inbox, n, "local", msg) /\ commands' = commands
    BY <1>4, <1>11 DEF send
  <2>2. /\ BoxesTyped'
        /\ \A k \in Nodes, via \in Via :
              \/ ServerBox(k, via)' = ServerBox(k, via)
              \/ /\ k = n /\ via = "local"
                 /\ ServerBox(k, via)' = Push(ServerBox(k, via), msg)
    BY <1>0, <2>1, DeliverBoxes
  <2>3. \A k \in Nodes, via \in Via : \A m : In(ServerBox(k, via)', m) =>
          In(ServerBox(k, via), m) \/ (via = "local" /\ m = msg /\ k = dest)
    BY <1>0, <2>1, <2>2, BoxOf, PushKeeps
  <2>4. Brings(x, "local")
    BY <1>4, <1>5, <1>6, <2>1, <2>3 DEF Brings
  <2>5. \A k \in Nodes, via \in Via : \A m :
          OnceOf(ServerBox(k, via), m) => OnceOf(ServerBox(k, via)', m)
    BY <1>0, <1>6, <1>8, <2>2, BoxOf, OnceOfPush
  <2>6. KeepsOnce
    BY <2>1, <2>5, SameKeepsOnce DEF KeepsOnce
  <2>7. ~Queued(x)' /\ ~InBox(x, "network")'
    <3>1. calls'[x].node = n /\ calls'[x].dest = dest
      BY <1>4, <1>5
    <3>2. ~Queued(x)'
      BY <1>8, <2>1, <3>1 DEF Queued
    <3>3. ~In(ServerBox(dest, "network")', Ask(x)')
      BY <1>8, <1>9, <2>3
    <3>4. ~InBox(x, "network")'
      BY <3>1, <3>3 DEF InBox, ServerBox
    <3> QED BY <3>2, <3>4
  <2>8. OnlyAt(x, "local")'
    BY <1>10, <2>7 DEF OnlyAt
  <2>9. OnceOf(commands'[n], SendAsk(x)')
    BY <1>8, <2>1 DEF OnceOf, In
  <2>10. \A via \in Via : OnceOf(ServerBox(dest, via)', Ask(x)')
    <3>1. \A via \in Via : OnceOf(ServerBox(dest, via), Ask(x)')
      BY <1>8 DEF OnceOf, In
    <3> QED BY <2>5, <3>1
  <2>11. OnceThere(x)'
    BY <1>4, <1>5, <1>10, <2>9, <2>10 DEF OnceThere, ServerBox
  <2> QED BY <1>5, <1>6, <2>2, <2>4, <2>6, <2>8, <2>11, MovedKeeps DEF AsksTyped
<1>12. CASE ~(mode = "local" \/ dest = n)
  <2>1. inbox' = inbox /\ commands' = execute(n, SendAsk(x)')
    BY <1>4, <1>7, <1>12 DEF send
  <2>2. \A m \in Nodes : /\ Listed(commands[m])
                         /\ commands'[m] = IF m = n THEN Append(commands[m], SendAsk(x)') ELSE commands[m]
    BY <2>1 DEF execute, BusTyped
  <2>3. \A m \in Nodes : \A d : In(commands'[m], d) => In(commands[m], d) \/ (d = SendAsk(x)' /\ m = n)
    BY <2>2, InAppend
  <2>4. Brings(x, "queue")
    BY <1>4, <1>5, <2>1, <2>3 DEF Brings, ServerBox
  <2>5. \A m \in Nodes : \A d : OnceOf(commands[m], d) => OnceOf(commands'[m], d)
    BY <1>8, <2>2, OnceOfAppend
  <2>6. KeepsOnce
    BY <2>1, <2>5, SameKeepsOnce DEF KeepsOnce
  <2>7. ~InBox(x, "local")' /\ ~InBox(x, "network")'
    BY <1>4, <1>5, <1>8, <1>9, <2>1 DEF InBox, ServerBox
  <2>8. OnlyAt(x, "queue")'
    BY <1>10, <2>7 DEF OnlyAt
  <2>9. OnceOf(commands'[n], SendAsk(x)')
    <3>1. OnceOf(commands[n], SendAsk(x)')
      BY <1>8 DEF OnceOf, In
    <3> QED BY <2>5, <3>1
  <2>10. \A via \in Via : OnceOf(ServerBox(dest, via)', Ask(x)')
    BY <1>8, <2>1 DEF OnceOf, In, ServerBox
  <2>11. OnceThere(x)'
    BY <1>4, <1>5, <1>10, <2>9, <2>10 DEF OnceThere, ServerBox
  <2>12. BoxesTyped'
    BY <1>0, <2>1 DEF BoxesTyped
  <2> QED BY <1>5, <1>6, <2>4, <2>6, <2>8, <2>11, <2>12, MovedKeeps DEF AsksTyped
<1> QED BY <1>11, <1>12

(* The swarm's task takes a call, and puts it on the wire or drops it. *)
LEMMA execute_commandKeepsAsks ==
  ASSUME MessagingAssumption, BusTyped, AsksInv, NEW n \in Nodes, execute_command(n)
  PROVE  AsksInv'
<1>0. AsksTyped /\ AsksKnown
  BY DEF AsksInv
<1>1. PICK cmd : cmd = Head(commands[n])
  OBVIOUS
<1>2. /\ UNCHANGED <<mode, ran, inbox, calls, news>> /\ commands[n] # <<>>
      /\ commands' = [commands EXCEPT ![n] = Tail(@)]
  BY DEF execute_command, rpcvars, dirvars
<1>3. /\ \A m \in Nodes : commands'[m] = IF m = n THEN Tail(commands[m]) ELSE commands[m]
      /\ Listed(commands[n]) /\ In(commands[n], cmd)
  BY <1>1, <1>2, InTail DEF BusTyped
<1>4. AsksTyped' /\ CallsKept
  BY <1>0, <1>2 DEF AsksTyped, BoxesTyped, CallsPlaced, NewsTyped, CallsKept
<1>5. QuietCommands
  BY <1>2, <1>3 DEF QuietCommands, QuietQueue
<1>6. CASE ~SendsAsk(cmd)
  <2>1. QuietWire
    <3>1. \A w \in wire' : w \in wire \/ w.type = "event" \/ (cmd.type = "Send" /\ w.msg = cmd.msg)
      <4>1. CASE cmd.type = "Send"
        BY <1>1, <4>1 DEF execute_command
      <4>2. CASE cmd.type = "Publish"
        <5>1. PICK S : S = {[type |-> "event", from |-> n, to |-> m, event |-> cmd.event] :
                              m \in {y \in gossip : y # n /\ {n, y} \in conn}}
          OBVIOUS
        <5>2. wire' = wire \cup S
          BY <1>1, <4>2, <5>1 DEF execute_command
        <5>3. \A w \in S : \E m : w = [type |-> "event", from |-> n, to |-> m, event |-> cmd.event]
          BY <5>1
        <5> QED BY <5>2, <5>3
      <4>3. CASE cmd.type # "Send" /\ cmd.type # "Publish"
        BY <1>1, <4>3 DEF execute_command
      <4> QED BY <4>1, <4>2, <4>3
    <3> QED BY <1>6, <3>1 DEF QuietWire, WiresAsk, SendsAsk
  <2>2. QuietBoxes /\ SameCalls
    BY <1>2, <1>4 DEF QuietBoxes, QuietBox, ServerBox, SameCalls
  <2> QED BY <1>2, <1>4, <1>5, <2>1, <2>2, QuietKeeps
<1>7. CASE SendsAsk(cmd)
  <2>1. PICK x \in DOMAIN calls : cmd = SendAsk(x) /\ n = calls[x].node
    BY <1>0, <1>3, <1>7 DEF AsksKnown
  <2>2. OnePlace(x) /\ OnceThere(x) /\ Queued(x) /\ calls[x].dest \in Nodes
    BY <1>0, <1>3, <2>1 DEF AsksInv, Queued, AsksTyped, CallsPlaced
  <2>3. wire' = wire \/ wire' = wire \cup {WireAsk(x)}
    <3>1. cmd.type = "Send" /\ cmd.msg = Ask(x) /\ cmd.msg.dest = calls[x].dest
      BY <2>1 DEF SendAsk, Ask, Envelope
    <3>2. \/ wire' = wire
          \/ wire' = wire \cup {[type |-> "message", from |-> n, to |-> cmd.msg.dest, msg |-> cmd.msg]}
      BY <1>1, <3>1 DEF execute_command
    <3> QED BY <2>1, <3>1, <3>2 DEF WireAsk
  <2>4. /\ Ask(x)' = Ask(x) /\ SendAsk(x)' = SendAsk(x) /\ WireAsk(x)' = WireAsk(x)
    BY <1>4, AsksKept
  <2>5. /\ \A m \in Nodes : /\ \A c : In(commands'[m], c) /\ SendsAsk(c) => In(commands[m], c)
                            /\ \A c : SendsAsk(c) /\ OnceOf(commands[m], c) => OnceOf(commands'[m], c)
    BY <1>5, QuietQueueKeeps DEF QuietCommands, BusTyped
  <2>6. Brings(x, "wire")
    BY <1>2, <2>3, <2>4, <2>5 DEF Brings, ServerBox
  <2>7. KeepsOnce
    BY <1>2, <2>5, SameKeepsOnce DEF KeepsOnce
  <2>8. ~In(commands'[n], SendAsk(x))
    BY <1>1, <1>2, <1>3, <2>1, <2>2, OnceOfTail DEF OnceThere
  <2>9. ~Queued(x)' /\ ~InBox(x, "local")' /\ ~InBox(x, "network")' /\ ~Ran(x)'
    <3>1. ~Queued(x)'
      BY <1>2, <2>1, <2>4, <2>8 DEF Queued
    <3>2. ~InBox(x, "local") /\ ~InBox(x, "network") /\ ~Ran(x)
      BY <2>2 DEF OnePlace
    <3> QED BY <1>2, <2>4, <3>1, <3>2 DEF InBox, ServerBox, Ran
  <2>10. OnlyAt(x, "wire")'
    BY <2>9 DEF OnlyAt
  <2>11. OnceThere(x)'
    <3>1. OnceOf(commands'[calls[x].node], SendAsk(x))
      BY <2>1, <2>2, <2>5, AskIs DEF OnceThere
    <3> QED BY <1>2, <1>4, <2>2, <3>1, AsksKept DEF OnceThere, ServerBox
  <2>12. DOMAIN calls' = DOMAIN calls \cup {x}
    BY <1>2
  <2> QED BY <1>4, <2>6, <2>7, <2>10, <2>11, <2>12, MovedKeeps
<1> QED BY <1>6, <1>7

(* A call off the wire reaches the buffer of its addressee. *)
LEMMA receiveKeepsAsks ==
  ASSUME MessagingAssumption, BusTyped, AsksInv, NEW w \in wire, receive(w)
  PROVE  AsksInv'
<1>0. AsksTyped /\ AsksKnown /\ BoxesTyped
  BY DEF AsksInv, AsksTyped
<1>1. UNCHANGED <<mode, ran, calls, news, commands>> /\ wire' = wire \ {w}
  BY DEF receive, dirvars
<1>2. CallsKept /\ CallsPlaced' /\ NewsTyped' /\ SameCalls
  BY <1>0, <1>1 DEF AsksTyped, CallsPlaced, NewsTyped, CallsKept, SameCalls
<1>3. QuietWire /\ QuietCommands
  BY <1>1 DEF QuietWire, QuietCommands, QuietQueue
<1>4. CASE w.type # "message"
  <2>1. inbox' = inbox
    BY <1>4 DEF receive
  <2>2. QuietBoxes /\ AsksTyped'
    BY <1>0, <1>2, <2>1 DEF QuietBoxes, QuietBox, ServerBox, AsksTyped, BoxesTyped
  <2> QED BY <1>1, <1>2, <1>3, <2>2, QuietKeeps
<1>5. CASE w.type = "message"
  <2>1. inbox' = Deliver(inbox, w.to, "network", w.msg)
    BY <1>5 DEF receive
  <2>2. /\ BoxesTyped'
        /\ \A k \in Nodes, via \in Via :
              \/ ServerBox(k, via)' = ServerBox(k, via)
              \/ /\ k = w.to /\ via = "network"
                 /\ ServerBox(k, via)' = Push(ServerBox(k, via), w.msg)
    BY <1>0, <2>1, DeliverBoxes
  <2>3. AsksTyped'
    BY <1>2, <2>2 DEF AsksTyped
  <2>4. CASE ~IsAsk(w.msg)
    <3>1. QuietBoxes
      BY <2>2, <2>4 DEF QuietBoxes, QuietBox
    <3> QED BY <1>1, <1>2, <1>3, <2>3, <3>1, QuietKeeps
  <2>5. CASE IsAsk(w.msg)
    <3>1. PICK x \in DOMAIN calls : w = WireAsk(x)
      BY <1>0, <1>5, <2>5 DEF AsksKnown, WiresAsk
    <3>2. w.to = calls[x].dest /\ w.msg = Ask(x) /\ Wired(x)
      BY <3>1, AskIs DEF Wired
    <3>3. OnePlace(x) /\ OnceThere(x) /\ calls[x].dest \in Nodes
      BY <1>0 DEF AsksInv, AsksTyped, CallsPlaced
    <3>4. ~Queued(x) /\ ~InBox(x, "local") /\ ~InBox(x, "network") /\ ~Ran(x)
      BY <3>2, <3>3 DEF OnePlace
    <3>5. Ask(x)' = Ask(x) /\ SendAsk(x)' = SendAsk(x) /\ WireAsk(x)' = WireAsk(x)
      BY <1>2, AsksKept
    <3>6. \A k \in Nodes, via \in Via : \A m : In(ServerBox(k, via)', m) =>
            In(ServerBox(k, via), m) \/ (via = "network" /\ m = Ask(x) /\ k = calls[x].dest)
      <4> SUFFICES ASSUME NEW k \in Nodes, NEW via \in Via, NEW m, In(ServerBox(k, via)', m)
                   PROVE  In(ServerBox(k, via), m) \/ (via = "network" /\ m = Ask(x) /\ k = calls[x].dest)
        OBVIOUS
      <4>1. Listed(ServerBox(k, via))
        BY <1>0, BoxOf
      <4>2. CASE ServerBox(k, via)' = ServerBox(k, via)
        BY <4>2
      <4>3. CASE k = w.to /\ via = "network" /\ ServerBox(k, via)' = Push(ServerBox(k, via), w.msg)
        BY <3>2, <4>1, <4>3, PushKeeps
      <4> QED BY <2>2, <4>2, <4>3
    <3>7. Brings(x, "network")
      BY <1>1, <3>5, <3>6 DEF Brings
    <3>8. \A k \in Nodes, via \in Via : \A m :
            OnceOf(ServerBox(k, via), m) => OnceOf(ServerBox(k, via)', m)
      <4>1. \A k \in Nodes, via \in Via : k = w.to /\ via = "network" => ~In(ServerBox(k, via), w.msg)
        BY <3>2, <3>4 DEF InBox
      <4> QED BY <1>0, <2>2, <4>1, BoxOf, OnceOfPush
    <3>9. KeepsOnce
      BY <1>1, <3>8, SameKeepsOnce DEF KeepsOnce
    <3>10. ~Queued(x)' /\ ~Wired(x)' /\ ~Ran(x)'
      BY <1>1, <3>1, <3>4, <3>5 DEF Queued, Wired, Ran
    <3>11. ~InBox(x, "local")'
      <4>1. "local" \in Via
        BY DEF Via
      <4>2. PICK d \in Nodes : d = calls[x].dest
        BY <3>3
      <4>3. ~In(ServerBox(d, "local")', Ask(x))
        BY <3>4, <3>6, <4>1, <4>2 DEF InBox
      <4> QED BY <1>2, <4>2, <4>3, AsksKept DEF ServerBox
    <3>12. OnlyAt(x, "network")'
      BY <3>10, <3>11 DEF OnlyAt
    <3>13. OnceThere(x)'
      <4>1. \A via \in Via : OnceOf(inbox'[<<calls[x].dest, "server", via>>], Ask(x))
        BY <3>3, <3>8 DEF OnceThere, ServerBox
      <4> QED BY <1>1, <1>2, <3>3, <4>1, AsksKept DEF OnceThere
    <3>14. DOMAIN calls' = DOMAIN calls \cup {x}
      BY <1>1
    <3> QED BY <1>2, <2>3, <3>7, <3>9, <3>12, <3>13, <3>14, MovedKeeps
  <2> QED BY <2>4, <2>5
<1> QED BY <1>4, <1>5

(* The server takes a call from its buffer, for the first time. *)
LEMMA server_runKeepsAsks ==
  ASSUME MessagingAssumption, BusTyped, AsksInv, NEW n \in Nodes, NEW v \in Via, server_run(n, v)
  PROVE  AsksInv'
<1>0. AsksTyped /\ AsksKnown /\ BoxesTyped
  BY DEF AsksInv, AsksTyped
<1>1. PICK msg : msg = Head(ServerBox(n, v))
  OBVIOUS
<1>2. /\ UNCHANGED <<mode, calls, news, commands, wire>> /\ ServerBox(n, v) # <<>>
      /\ inbox' = [inbox EXCEPT ![<<n, "server", v>>] = Tail(@)]
  BY DEF server_run, dirvars, netvars, ServerBox
<1>3. /\ BoxesTyped'
      /\ \A k \in Nodes, via \in Via :
           ServerBox(k, via)' = IF k = n /\ via = v THEN Tail(ServerBox(k, via)) ELSE ServerBox(k, via)
  <2>1. PICK role \in Role : role = "server"
    BY DEF Role
  <2>2. Takes(n, role, v)
    BY <1>2, <2>1 DEF ServerBox, Takes
  <2>3. /\ BoxesTyped'
        /\ \A k \in Nodes, via \in Via :
             ServerBox(k, via)' = IF k = n /\ role = "server" /\ via = v
                                  THEN Tail(ServerBox(k, via)) ELSE ServerBox(k, via)
    BY <1>0, <2>2, TakeBoxes
  <2> QED BY <2>1, <2>3
<1>4. CallsKept /\ SameCalls /\ AsksTyped'
  BY <1>0, <1>2, <1>3 DEF AsksTyped, CallsPlaced, NewsTyped, CallsKept, SameCalls
<1>5. QuietWire /\ QuietCommands /\ QuietBoxes
  BY <1>2, <1>3 DEF QuietWire, QuietCommands, QuietQueue, QuietBoxes, QuietBox
<1>6. CASE ~IsAsk(msg)
  <2>1. ran' = ran
    BY <1>1, <1>6 DEF server_run, ServerBox, IsAsk
  <2> QED BY <1>4, <1>5, <2>1, QuietKeeps
<1>7. CASE IsAsk(msg)
  <2>0. Listed(ServerBox(n, v)) /\ In(ServerBox(n, v), msg)
    BY <1>0, <1>1, <1>2, BoxOf, InTail
  <2>1. PICK x \in DOMAIN calls : msg = Ask(x) /\ n = calls[x].dest
    BY <1>0, <1>7, <2>0 DEF AsksKnown
  <2>2. OnePlace(x) /\ OnceThere(x) /\ InBox(x, v)
    BY <2>0, <2>1 DEF AsksInv, InBox
  <2>3. PICK nth : ran' = ran \cup {[node |-> n, id |-> x, nth |-> nth]}
    <3>1. PICK nth : nth = Cardinality({r \in ran : r.id = Head(inbox[<<n, "server", v>>]).id}) + 1
      OBVIOUS
    <3>2. Head(inbox[<<n, "server", v>>]) = msg /\ msg.kind = "Call" /\ msg.id = x
      BY <1>1, <1>7, <2>1, AskIs DEF ServerBox, IsAsk
    <3>3. ran' = ran \cup {[node |-> n, id |-> x, nth |-> nth]}
      BY <3>1, <3>2 DEF server_run
    <3> QED BY <3>3
  <2>4. ~Queued(x) /\ ~Wired(x) /\ ~Ran(x) /\ \A via \in Via : via # v => ~InBox(x, via)
    <3>1. v = "local" \/ v = "network"
      BY DEF Via
    <3>2. CASE v = "local"
      BY <2>2, <3>2 DEF OnePlace, Via
    <3>3. CASE v = "network"
      BY <2>2, <3>3 DEF OnePlace, Via
    <3> QED BY <3>1, <3>2, <3>3
  <2>5. Ask(x)' = Ask(x) /\ SendAsk(x)' = SendAsk(x) /\ WireAsk(x)' = WireAsk(x)
    BY <1>4, AsksKept
  <2>6. \A k \in Nodes, via \in Via :
          /\ \A m : In(ServerBox(k, via)', m) => In(ServerBox(k, via), m)
          /\ \A m : OnceOf(ServerBox(k, via), m) => OnceOf(ServerBox(k, via)', m)
    <3>1. \A m : In(Tail(ServerBox(n, v)), m) => In(ServerBox(n, v), m)
      BY <1>2, <2>0, InTail
    <3>2. \A m : OnceOf(ServerBox(n, v), m) => OnceOf(Tail(ServerBox(n, v)), m)
      BY <1>2, <2>0, OnceOfTail
    <3> QED BY <1>3, <3>1, <3>2
  <2>7. Brings(x, "ran")
    BY <1>2, <2>1, <2>3, <2>6 DEF Brings
  <2>8. KeepsOnce
    BY <1>2, <2>6, SameKeepsOnce DEF KeepsOnce
  <2>9. ~Queued(x)' /\ ~Wired(x)'
    BY <1>2, <2>4, <2>5 DEF Queued, Wired
  <2>10. \A via \in Via : ~InBox(x, via)'
    <3>1. ~In(ServerBox(n, v)', Ask(x))
      BY <1>1, <1>2, <1>3, <2>0, <2>1, <2>2, OnceOfTail DEF OnceThere
    <3>2. \A via \in Via : ~In(ServerBox(n, via)', Ask(x))
      BY <1>3, <2>1, <2>4, <3>1 DEF InBox
    <3> QED BY <1>4, <2>1, <3>2, AsksKept DEF ServerBox
  <2>11. OnlyAt(x, "ran")'
    BY <2>9, <2>10 DEF OnlyAt, Via
  <2>12. \A q, r \in ran' : q.id = x /\ r.id = x => q = r
    BY <2>3, <2>4 DEF Ran
  <2>13. OnceThere(x)'
    <3>1. \A via \in Via : OnceOf(inbox'[<<calls[x].dest, "server", via>>], Ask(x))
      BY <2>1, <2>2, <2>6 DEF OnceThere, ServerBox
    <3> QED BY <1>2, <1>4, <2>2, <2>12, <3>1, AsksKept DEF OnceThere
  <2>14. DOMAIN calls' = DOMAIN calls \cup {x}
    BY <1>2
  <2> QED BY <1>4, <2>7, <2>8, <2>11, <2>13, <2>14, MovedKeeps
<1> QED BY <1>6, <1>7

-----------------------------------------------------------------------------
(* The steps that move no call *)

(* Nothing but the queues, the wire and the news of the directory. *)
LEMMA StillAsks ==
  ASSUME MessagingAssumption, BusTyped, AsksInv, UNCHANGED <<ran, inbox, calls>>, NewsTyped',
         QuietCommands, QuietWire
  PROVE  AsksInv'
<1>1. AsksTyped' /\ SameCalls /\ QuietBoxes
  BY DEF AsksInv, AsksTyped, BoxesTyped, CallsPlaced, SameCalls, CallsKept, QuietBoxes, QuietBox, ServerBox
<1> QED BY <1>1, QuietKeeps

LEMMA SameAsks ==
  ASSUME MessagingAssumption, BusTyped, AsksInv,
         UNCHANGED <<mode, ran, inbox, calls, commands, wire, news>>
  PROVE  AsksInv'
<1>1. NewsTyped' /\ QuietCommands /\ QuietWire
  BY SameQuiet DEF AsksInv, AsksTyped, NewsTyped
<1> QED BY <1>1, StillAsks

LEMMA CommandKeepsAsks ==
  ASSUME MessagingAssumption, BusTyped, AsksInv, UNCHANGED <<mode, ran, inbox, calls, wire, news>>,
         NEW n \in Nodes, NEW c, ~SendsAsk(c), commands' = commands \/ commands' = execute(n, c)
  PROVE  AsksInv'
<1>1. NewsTyped' /\ QuietWire
  BY DEF AsksInv, AsksTyped, NewsTyped, QuietWire
<1>2. \A m \in Nodes : commands'[m] = commands[m] \/ commands'[m] = Append(commands[m], c)
  BY DEF execute, BusTyped
<1>3. QuietCommands
  BY <1>2 DEF QuietCommands, QuietQueue
<1> QED BY <1>1, <1>3, StillAsks

LEMMA NewsTaken ==
  ASSUME NewsTyped, NEW n \in Nodes, news[n] # <<>>, news' = [news EXCEPT ![n] = Tail(@)], mode' = mode
  PROVE  NewsTyped' /\ Head(news[n]).node \in Nodes /\ mode = "network"
<1>1. /\ Listed(Tail(news[n])) /\ \A x : In(news[n], x) <=> In(Tail(news[n]), x) \/ x = Head(news[n])
  BY ListedTail, InTail DEF NewsTyped
<1>2. /\ DOMAIN news' = Nodes
      /\ \A m \in Nodes : news'[m] = IF m = n THEN Tail(news[m]) ELSE news[m]
  BY DEF NewsTyped
<1> QED BY <1>1, <1>2 DEF NewsTyped

LEMMA TellKeepsNews ==
  ASSUME NewsTyped, NEW ns, NEW type, NEW about, Tell(ns, type, about), \A n \in Nodes : about[n] \in Nodes,
         mode = "network", mode' = mode
  PROVE  NewsTyped'
<1>1. /\ DOMAIN news' = Nodes
      /\ \A n \in Nodes : \/ news'[n] = news[n]
                          \/ news'[n] = Append(news[n], [type |-> type, node |-> about[n]])
  BY DEF Tell
<1>2. ASSUME NEW n \in Nodes
      PROVE  Listed(news'[n]) /\ \A x : In(news'[n], x) => x.node \in Nodes
  <2>1. Listed(news[n]) /\ \A x : In(news[n], x) => x.node \in Nodes
    BY DEF NewsTyped
  <2>2. PICK e : e = [type |-> type, node |-> about[n]]
    OBVIOUS
  <2>3. e.node \in Nodes /\ (news'[n] = news[n] \/ news'[n] = Append(news[n], e))
    BY <1>1, <2>2
  <2>4. Listed(Append(news[n], e)) /\ \A x : In(Append(news[n], e), x) <=> In(news[n], x) \/ x = e
    BY <2>1, ListedAppend, InAppend
  <2> QED BY <2>1, <2>3, <2>4
<1> QED BY <1>1, <1>2 DEF NewsTyped

LEMMA cancelSameCalls ==
  ASSUME CallsTyped, NEW id \in DOMAIN calls, cancel(id)
  PROVE  SameCalls
<1>1. PICK c : c = [calls[id] EXCEPT !.kept = FALSE]
  OBVIOUS
<1>2. c.node = calls[id].node /\ c.dest = calls[id].dest
  BY <1>1 DEF CallsTyped, CallFields
<1>3. calls' = [calls EXCEPT ![id] = c]
  BY <1>1 DEF cancel
<1>4. DOMAIN calls' = DOMAIN calls /\ \A k \in DOMAIN calls : calls'[k] = IF k = id THEN c ELSE calls[k]
  BY <1>3, ListedExcept DEF CallsTyped
<1> QED BY <1>2, <1>4 DEF SameCalls, CallsKept

LEMMA handle_replySameCalls ==
  ASSUME CallsTyped, NEW n \in Nodes, NEW msg, handle_reply(n, msg)
  PROVE  SameCalls
<1>1. CASE msg.id \notin tracked[n]
  BY <1>1 DEF handle_reply, SameCalls, CallsKept
<1>2. CASE msg.id \in tracked[n]
  <2>1. PICK id \in DOMAIN calls : id = msg.id
    BY <1>2 DEF CallsTyped
  <2>2. PICK c : c = [calls[id] EXCEPT !.result = msg.result]
    OBVIOUS
  <2>3. c.node = calls[id].node /\ c.dest = calls[id].dest
    BY <2>1, <2>2 DEF CallsTyped, CallFields
  <2>4. calls' = [calls EXCEPT ![id] = c]
    BY <1>2, <2>1, <2>2 DEF handle_reply
  <2>5. DOMAIN calls' = DOMAIN calls /\ \A k \in DOMAIN calls : calls'[k] = IF k = id THEN c ELSE calls[k]
    BY <2>4, ListedExcept DEF CallsTyped
  <2> QED BY <2>3, <2>5 DEF SameCalls, CallsKept
<1> QED BY <1>1, <1>2

(* Outcomes and cancellations leave a call where it is. *)
LEMMA OutcomeKeepsAsks ==
  ASSUME MessagingAssumption, BusTyped, AsksInv, UNCHANGED <<mode, ran, commands, wire, news>>, SameCalls,
         BoxesTyped', \A n \in Nodes, via \in Via : ServerBox(n, via)' = ServerBox(n, via)
  PROVE  AsksInv'
<1>1. AsksTyped' /\ QuietCommands /\ QuietWire /\ QuietBoxes
  BY DEF AsksInv, AsksTyped, NewsTyped, CallsPlaced, SameCalls, CallsKept, QuietCommands, QuietQueue,
     QuietWire, QuietBoxes, QuietBox
<1> QED BY <1>1, QuietKeeps

LEMMA client_runKeepsAsks ==
  ASSUME MessagingAssumption, BusTyped, AsksInv, CallsTyped, NEW n \in Nodes, NEW v \in Via, client_run(n, v)
  PROVE  AsksInv'
<1>1. PICK role \in Role : role = "client"
  BY DEF Role
<1>2. Takes(n, role, v) /\ UNCHANGED <<mode, ran, commands, wire, news>>
  BY <1>1 DEF client_run, Takes, netvars
<1>3. /\ BoxesTyped'
      /\ \A k \in Nodes, via \in Via :
           ServerBox(k, via)' = IF k = n /\ role = "server" /\ via = v
                                THEN Tail(ServerBox(k, via)) ELSE ServerBox(k, via)
  BY <1>2, TakeBoxes DEF AsksInv, AsksTyped
<1>4. SameCalls
  <2>1. calls' = calls \/ handle_reply(n, Head(inbox[<<n, "client", v>>]))
    BY DEF client_run
  <2>2. CASE calls' = calls
    BY <2>2 DEF SameCalls, CallsKept
  <2>3. CASE handle_reply(n, Head(inbox[<<n, "client", v>>]))
    BY <2>3, handle_replySameCalls
  <2> QED BY <2>1, <2>2, <2>3
<1> QED BY <1>1, <1>2, <1>3, <1>4, OutcomeKeepsAsks

(* A reply travels as a call does, and is none. *)
LEMMA handle_callKeepsAsks ==
  ASSUME MessagingAssumption, BusTyped, AsksInv, TasksPlaced, NEW t \in tasks, handle_call(t)
  PROVE  AsksInv'
<1>0. UNCHANGED <<mode, ran, calls, wire, news>> /\ t.node \in Nodes /\ BoxesTyped
  BY DEF handle_call, dirvars, TasksPlaced, AsksInv, AsksTyped
<1>1. PICK msg : send(t.node, msg) /\ msg.kind = "Reply"
  <2>1. PICK r : send(t.node, Envelope(t.source, "Reply", t.id, r))
    BY DEF handle_call
  <2> QED BY <2>1 DEF Envelope
<1>2. CASE commands' = commands /\ inbox' = Deliver(inbox, t.node, "local", msg)
  <2>1. /\ BoxesTyped'
        /\ \A k \in Nodes, via \in Via :
              \/ ServerBox(k, via)' = ServerBox(k, via)
              \/ ServerBox(k, via)' = Push(ServerBox(k, via), msg)
    BY <1>0, <1>2, DeliverBoxes
  <2>2. QuietBoxes
    BY <1>1, <2>1 DEF QuietBoxes, QuietBox, IsAsk
  <2>3. AsksTyped' /\ SameCalls /\ QuietCommands /\ QuietWire
    BY <1>0, <1>2, <2>1 DEF AsksInv, AsksTyped, NewsTyped, CallsPlaced, SameCalls, CallsKept,
       QuietCommands, QuietQueue, QuietWire
  <2> QED BY <1>0, <2>2, <2>3, QuietKeeps
<1>3. CASE commands' = execute(t.node, [type |-> "Send", msg |-> msg]) /\ inbox' = inbox
  <2>1. PICK c : c = [type |-> "Send", msg |-> msg]
    OBVIOUS
  <2>2. ~SendsAsk(c)
    BY <1>1, <2>1 DEF SendsAsk, IsAsk
  <2> QED BY <1>0, <1>3, <2>1, <2>2, CommandKeepsAsks
<1> QED BY <1>1, <1>2, <1>3 DEF send

LEMMA AsksStep ==
  ASSUME MessagingAssumption, MessagingInv, AsksInv, [MessagingNext]_messagingVars
  PROVE  AsksInv'
<1>0. /\ BusTyped /\ TasksPlaced /\ CallsTyped /\ NewsTyped
      /\ Active \subseteq Nodes /\ (mode = "local" => Active = {Here})
  BY DEF MessagingInv, BusInv, CallsInv, AsksInv, AsksTyped, Active, MessagingAssumption
<1>1. CASE UNCHANGED messagingVars
  BY <1>0, <1>1, SameAsks DEF messagingVars, rpcvars, netvars, dirvars
<1>2. CASE Progress
  <2>1. ASSUME NEW n, NEW r, run_starts(n, r) \/ run_ready(n, r) PROVE AsksInv'
    BY <1>0, <2>1, SameAsks DEF run_starts, run_ready, netvars, dirvars
  <2>2. ASSUME NEW n \in Nodes, NEW via \in Via, client_run(n, via) \/ server_run(n, via) PROVE AsksInv'
    BY <1>0, <2>2, client_runKeepsAsks, server_runKeepsAsks
  <2>3. ASSUME NEW n, NEW via, next_event(n, via) PROVE AsksInv'
    BY <1>0, <2>3, SameAsks DEF next_event, rpcvars, netvars, dirvars
  <2>4. ASSUME NEW t \in tasks, handle_call(t) PROVE AsksInv'
    BY <1>0, <2>4, handle_callKeepsAsks
  <2>5. ASSUME NEW t \in tasks, execute_panics(t) PROVE AsksInv'
    BY <1>0, <2>5, SameAsks DEF execute_panics, netvars, dirvars
  <2>6. ASSUME NEW n \in Nodes, execute_command(n) PROVE AsksInv'
    BY <1>0, <2>6, execute_commandKeepsAsks
  <2>7. ASSUME NEW n \in Nodes, on_node_connected(n) PROVE AsksInv'
    <3>1. /\ news[n] # <<>> /\ news' = [news EXCEPT ![n] = Tail(@)] /\ UNCHANGED <<mode, wire, ran>>
          /\ Call(n, Head(news[n]).node, GetCapabilities)
      BY <2>7 DEF on_node_connected
    <3>2. NewsTyped' /\ Head(news[n]).node \in Nodes /\ mode = "network"
      BY <1>0, <3>1, NewsTaken
    <3> QED BY <1>0, <3>1, <3>2, CallKeepsAsks
  <2>8. ASSUME NEW n \in Nodes, on_node_disconnected(n) PROVE AsksInv'
    <3>1. /\ news[n] # <<>> /\ news' = [news EXCEPT ![n] = Tail(@)]
          /\ UNCHANGED <<mode, ran, inbox, calls, commands, wire>>
      BY <2>8 DEF on_node_disconnected, rpcvars, netvars
    <3>2. NewsTyped' /\ QuietCommands /\ QuietWire
      BY <1>0, <3>1, NewsTaken, SameQuiet
    <3> QED BY <1>0, <3>1, <3>2, StillAsks
  <2>9. ASSUME NEW n, lag(n) PROVE AsksInv'
    BY <1>0, <2>9, SameAsks DEF lag, rpcvars, netvars, dirvars
  <2>10. ASSUME NEW w \in wire, receive(w) PROVE AsksInv'
    BY <1>0, <2>10, receiveKeepsAsks
  <2> QED BY <1>0, <1>2, <2>1, <2>2, <2>3, <2>4, <2>5, <2>6, <2>7, <2>8, <2>9, <2>10 DEF Progress
<1>3. CASE Environment
  <2>1. ASSUME NEW n \in Active, NEW dest \in Active, NEW name, call(n, dest, name) PROVE AsksInv'
    <3>1. Call(n, dest, name) /\ UNCHANGED <<mode, wire, ran, news>>
      BY <2>1 DEF call, dirvars
    <3>2. NewsTyped' /\ n \in Nodes /\ dest \in Nodes /\ (mode = "local" => dest = n)
      BY <1>0, <3>1 DEF NewsTyped
    <3> QED BY <1>0, <3>1, <3>2, CallKeepsAsks
  <2>2. ASSUME NEW n, NEW name, register(n, name) PROVE AsksInv'
    BY <1>0, <2>2, SameAsks DEF register, netvars, dirvars
  <2>3. ASSUME NEW id \in DOMAIN calls, cancel(id) PROVE AsksInv'
    <3>1. SameCalls /\ UNCHANGED <<mode, ran, inbox, commands, wire, news>>
      BY <1>0, <2>3, cancelSameCalls DEF cancel, netvars, dirvars
    <3>2. BoxesTyped' /\ \A n \in Nodes, via \in Via : ServerBox(n, via)' = ServerBox(n, via)
      BY <3>1 DEF AsksInv, AsksTyped, BoxesTyped, ServerBox
    <3> QED BY <1>0, <3>1, <3>2, OutcomeKeepsAsks
  <2>4. ASSUME NEW n \in Nodes, stream_events(n) \/ emit(n) \/ shutdown(n) PROVE AsksInv'
    <3>1. UNCHANGED <<mode, ran, inbox, calls, wire, news>>
      BY <2>4 DEF stream_events, emit, shutdown, rpcvars, dirvars
    <3>2. PICK c : c.type # "Send" /\ (commands' = commands \/ commands' = execute(n, c))
      <4>1. CASE stream_events(n)
        BY <4>1 DEF stream_events
      <4>2. CASE emit(n)
        BY <4>2 DEF emit
      <4>3. CASE shutdown(n)
        BY <4>3 DEF shutdown
      <4> QED BY <2>4, <4>1, <4>2, <4>3
    <3> QED BY <1>0, <3>1, <3>2, CommandKeepsAsks DEF SendsAsk
  <2>5. ASSUME NEW n \in Nodes, NEW m \in Nodes, mode = "network",
               ConnectionEstablished(n, m) \/ ConnectionClosed(n, m) \/ MdnsExpired(n, m)
        PROVE  AsksInv'
    <3>1. UNCHANGED <<mode, ran, inbox, calls, commands>> /\ wire' \subseteq wire
      BY <2>5 DEF ConnectionEstablished, ConnectionClosed, MdnsExpired, rpcvars, netvars
    <3>2. \E ns, type, about : Tell(ns, type, about) /\ \A k \in Nodes : about[k] \in Nodes
      <4>1. CASE ConnectionEstablished(n, m)
        <5>1. PICK other : other = [x \in Nodes |-> IF x = n THEN m ELSE n]
          OBVIOUS
        <5>2. Tell({n, m}, "NodeConnected", other) /\ \A k \in Nodes : other[k] \in Nodes
          BY <4>1, <5>1 DEF ConnectionEstablished
        <5> QED BY <5>2
      <4>2. CASE ConnectionClosed(n, m)
        <5>1. PICK other : other = [x \in Nodes |-> IF x = n THEN m ELSE n]
          OBVIOUS
        <5>2. PICK ns : Tell(ns, "NodeDisconnected", other)
          BY <4>2, <5>1 DEF ConnectionClosed
        <5>3. \A k \in Nodes : other[k] \in Nodes
          BY <5>1
        <5> QED BY <5>2, <5>3
      <4>3. CASE MdnsExpired(n, m)
        <5>1. PICK other : other = [x \in Nodes |-> m]
          OBVIOUS
        <5>2. Tell({n}, "NodeDisconnected", other) /\ \A k \in Nodes : other[k] \in Nodes
          BY <4>3, <5>1 DEF MdnsExpired
        <5> QED BY <5>2
      <4> QED BY <2>5, <4>1, <4>2, <4>3
    <3>3. NewsTyped'
      BY <1>0, <2>5, <3>1, <3>2, TellKeepsNews
    <3>4. QuietCommands /\ QuietWire
      BY <3>1 DEF QuietCommands, QuietQueue, QuietWire
    <3> QED BY <1>0, <3>1, <3>3, <3>4, StillAsks
  <2>6. \/ \E n \in Active, name \in Names : (\E dest \in Active : call(n, dest, name)) \/ register(n, name)
        \/ \E id \in DOMAIN calls : cancel(id)
        \/ \E n \in Nodes : stream_events(n) \/ emit(n) \/ shutdown(n)
        \/ mode = "network" /\ \E n \in Nodes, m \in Nodes :
             ConnectionEstablished(n, m) \/ ConnectionClosed(n, m) \/ MdnsExpired(n, m)
    BY <1>0, <1>3 DEF Environment
  <2> QED BY <2>1, <2>2, <2>3, <2>4, <2>5, <2>6
<1> QED BY <1>1, <1>2, <1>3 DEF MessagingNext

LEMMA AsksStart == ASSUME MessagingInit, MessagingAssumption PROVE AsksInv
<1>1. Listed(<<>>) /\ DOMAIN <<>> = {} /\ \A e : ~In(<<>>, e)
  <2>1. DOMAIN <<>> = {} /\ <<>> \in Seq({})
    OBVIOUS
  <2>2. Listed(<<>>)
    BY <2>1, ListedOver
  <2> QED BY <2>1, <2>2 DEF In
<1>2. DOMAIN calls = {} /\ ran = {} /\ wire = {} /\ \A n \in Nodes : commands[n] = <<>> /\ news[n] = <<>>
  BY <1>1 DEF MessagingInit
<1>3. BoxesTyped /\ \A n \in Nodes, via \in Via : ServerBox(n, via) = <<>>
  BY <1>1 DEF MessagingInit, BoxesTyped, ServerBox, Role
<1>4. NewsTyped
  BY <1>1, <1>2 DEF MessagingInit, NewsTyped
<1> QED BY <1>1, <1>2, <1>3, <1>4 DEF AsksInv, AsksTyped, CallsPlaced, AsksKnown

(* A call is taken by one server, that of the node it is addressed to, and *)
(* by that one once (send, execute_command, receive, server_run): it is in *)
(* one place at a time between the client that makes it and that server.   *)
THEOREM CallsRunOnceAtTheirNode == MessagingSpec => []ExecutedOnceByAddressee
<1>1. MessagingInit => AsksInv
  BY AsksStart, MessagingAssumption
<1>2. MessagingInv /\ AsksInv /\ [MessagingNext]_messagingVars => AsksInv'
  BY AsksStep, MessagingAssumption
<1>3. AsksInv => ExecutedOnceByAddressee
  BY AsksRan
<1> QED BY <1>1, <1>2, <1>3, MessagingInvariant, PTL DEF MessagingSpec

-----------------------------------------------------------------------------
(* The stack of the command line *)

(* What the state below one must be. *)
Under(at) ==
  CASE at = "LocalConnected" -> "Root"
    [] at = "ExecutingSession" -> "LocalConnected"
    [] at = "EditingGraph" -> "LocalConnected"
    [] at = "EditingNode" -> "EditingGraph"
    [] OTHER -> "nothing"

StackTyped ==
  /\ stack \in Seq({stack[i] : i \in DOMAIN stack})
  /\ \A i \in DOMAIN stack : "at" \in DOMAIN stack[i]

StackInv == StackTyped /\ StackIsWellFormed

LEMMA WellFormedIs ==
  /\ StackIsWellFormed <=> /\ Len(stack) > 0 /\ stack[1] = Root
                           /\ \A i \in 2..Len(stack) : stack[i - 1].at = Under(stack[i].at)
  /\ StackIsWellFormed' <=> /\ Len(stack') > 0 /\ stack'[1] = Root
                            /\ \A i \in 2..Len(stack') : stack'[i - 1].at = Under(stack'[i].at)
BY DEF StackIsWellFormed, Under

LEMMA StackFacts ==
  ASSUME StackInv
  PROVE  /\ Len(stack) \in Nat /\ DOMAIN stack = 1..Len(stack) /\ Len(stack) >= 1
         /\ Len(stack) \in DOMAIN stack
         /\ Top.at # "Root" => Len(stack) >= 2 /\ stack[Len(stack) - 1].at = Under(Top.at)
<1>1. Len(stack) \in Nat /\ DOMAIN stack = 1..Len(stack)
  BY DEF StackInv, StackTyped
<1>2. Len(stack) > 0 /\ stack[1] = Root
      /\ \A i \in 2..Len(stack) : stack[i - 1].at = Under(stack[i].at)
  BY WellFormedIs DEF StackInv
<1>3. Root.at = "Root"
  BY DEF Root
<1> QED BY <1>1, <1>2, <1>3 DEF Top

(* A state that may stand on the one on top is pushed. *)
LEMMA PushedOn ==
  ASSUME StackInv, NEW state, "at" \in DOMAIN state, Top.at = Under(state.at), push(state)
  PROVE  StackInv'
<1>1. stack' = Append(stack, state)
  BY DEF push
<1> DEFINE X == {stack[i] : i \in DOMAIN stack} \cup {state}
<1>2. stack \in Seq(X) /\ state \in X
  BY DEF StackInv, StackTyped
<1> HIDE DEF X
<1>3. stack' \in Seq(X) /\ Len(stack') = Len(stack) + 1
  BY <1>1, <1>2
<1>4. /\ DOMAIN stack' = 1..(Len(stack) + 1) /\ stack'[Len(stack) + 1] = state
      /\ \A i \in DOMAIN stack : stack'[i] = stack[i]
  BY <1>1, <1>2
<1>5. Len(stack) \in Nat /\ DOMAIN stack = 1..Len(stack) /\ Len(stack) >= 1
  BY StackFacts
<1>6. StackTyped'
  <2>1. stack' \in Seq({stack'[i] : i \in DOMAIN stack'})
    BY <1>3
  <2>2. \A i \in DOMAIN stack' : i \in DOMAIN stack \/ i = Len(stack) + 1
    BY <1>4, <1>5
  <2> QED BY <1>4, <2>1, <2>2 DEF StackInv, StackTyped
<1>7. \A i \in 2..Len(stack') : stack'[i - 1].at = Under(stack'[i].at)
  <2> SUFFICES ASSUME NEW i \in 2..Len(stack') PROVE stack'[i - 1].at = Under(stack'[i].at)
    OBVIOUS
  <2>1. CASE i = Len(stack) + 1
    <3>1. i - 1 = Len(stack) /\ Len(stack) \in DOMAIN stack
      BY <1>5, <2>1
    <3> QED BY <1>4, <2>1, <3>1 DEF Top
  <2>2. CASE i # Len(stack) + 1
    <3>1. i \in 2..Len(stack) /\ i \in DOMAIN stack /\ i - 1 \in DOMAIN stack
      BY <1>3, <1>5, <2>2
    <3> QED BY <1>4, <3>1, WellFormedIs DEF StackInv
  <2> QED BY <2>1, <2>2
<1>8. Len(stack') > 0 /\ stack'[1] = Root
  BY <1>3, <1>4, <1>5, WellFormedIs DEF StackInv
<1> QED BY <1>6, <1>7, <1>8, WellFormedIs DEF StackInv

(* A state above Root is taken off. *)
LEMMA Popped ==
  ASSUME StackInv, Len(stack) >= 2
  PROVE  /\ Pop(stack) \in Seq({Pop(stack)[i] : i \in DOMAIN Pop(stack)})
         /\ DOMAIN Pop(stack) = 1..(Len(stack) - 1) /\ Len(Pop(stack)) = Len(stack) - 1
         /\ \A i \in DOMAIN Pop(stack) : i \in DOMAIN stack /\ Pop(stack)[i] = stack[i]
<1> DEFINE X == {stack[i] : i \in DOMAIN stack}
<1>1. stack \in Seq(X)
  BY DEF StackInv, StackTyped
<1> HIDE DEF X
<1>2. /\ Pop(stack) \in Seq(X) /\ Len(Pop(stack)) = Len(stack) - 1
      /\ \A i \in 1..(Len(stack) - 1) : Pop(stack)[i] = stack[i]
  BY <1>1 DEF Pop
<1>3. DOMAIN Pop(stack) = 1..(Len(stack) - 1) /\ Len(stack) \in Nat /\ DOMAIN stack = 1..Len(stack)
  BY <1>1, <1>2
<1>4. Pop(stack) \in Seq({Pop(stack)[i] : i \in DOMAIN Pop(stack)})
  BY <1>2
<1> QED BY <1>2, <1>3, <1>4

LEMMA PoppedKeeps ==
  ASSUME StackInv, Len(stack) >= 2, stack' = Pop(stack)
  PROVE  StackInv'
<1>1. /\ stack' \in Seq({stack'[i] : i \in DOMAIN stack'})
      /\ DOMAIN stack' = 1..(Len(stack) - 1) /\ Len(stack') = Len(stack) - 1
      /\ \A i \in DOMAIN stack' : i \in DOMAIN stack /\ stack'[i] = stack[i]
  BY Popped
<1>2. Len(stack) \in Nat
  BY StackFacts
<1>3. StackTyped'
  BY <1>1 DEF StackInv, StackTyped
<1>4. StackIsWellFormed'
  <2>1. /\ stack[1] = Root
        /\ \A i \in 2..Len(stack) : stack[i - 1].at = Under(stack[i].at)
    BY WellFormedIs DEF StackInv
  <2>2. 1 \in DOMAIN stack' /\ Len(stack') > 0
    BY <1>1, <1>2
  <2>3. \A i \in 2..Len(stack') : i \in 2..Len(stack) /\ i \in DOMAIN stack' /\ i - 1 \in DOMAIN stack'
    BY <1>1, <1>2
  <2> QED BY <1>1, <2>1, <2>2, <2>3, WellFormedIs
<1> QED BY <1>3, <1>4 DEF StackInv

LEMMA popKeeps == ASSUME StackInv, pop PROVE StackInv'
<1>1. CASE Len(stack) <= 1
  BY <1>1 DEF pop, StackInv, StackTyped, StackIsWellFormed
<1>2. CASE ~(Len(stack) <= 1)
  <2>1. Len(stack) >= 2
    BY <1>2, StackFacts
  <2> QED BY <1>2, <2>1, PoppedKeeps DEF pop
<1> QED BY <1>1, <1>2

(* The state on top, or the one below it once it is popped, becomes        *)
(* another of the same sort.                                               *)
LEMMA mutateKeeps ==
  ASSUME StackInv, NEW state, "at" \in DOMAIN state, Top.at # "Root", state.at = Top.at,
         mutate(state)
  PROVE  StackInv'
<1>1. /\ Len(stack) \in Nat /\ DOMAIN stack = 1..Len(stack) /\ Len(stack) >= 2
      /\ Len(stack) \in DOMAIN stack
  BY StackFacts
<1>2. stack' = [stack EXCEPT ![Len(stack)] = state]
  BY DEF mutate
<1> DEFINE X == {stack[i] : i \in DOMAIN stack} \cup {state}
<1>3. stack \in Seq(X) /\ state \in X
  BY DEF StackInv, StackTyped
<1> HIDE DEF X
<1>4. stack' \in Seq(X) /\ Len(stack') = Len(stack)
  BY <1>1, <1>2, <1>3
<1>5. /\ DOMAIN stack' = DOMAIN stack /\ stack'[Len(stack)] = state
      /\ \A i \in DOMAIN stack : i # Len(stack) => stack'[i] = stack[i]
  BY <1>1, <1>2
<1>6. \A i \in DOMAIN stack : stack'[i].at = stack[i].at
  BY <1>5 DEF Top
<1>7. StackTyped'
  <2>1. stack' \in Seq({stack'[i] : i \in DOMAIN stack'})
    BY <1>4
  <2> QED BY <1>5, <2>1 DEF StackInv, StackTyped
<1>8. StackIsWellFormed'
  <2>1. /\ stack[1] = Root
        /\ \A i \in 2..Len(stack) : stack[i - 1].at = Under(stack[i].at)
    BY WellFormedIs DEF StackInv
  <2>2. 1 \in DOMAIN stack /\ 1 # Len(stack) /\ Len(stack') > 0
    BY <1>1, <1>4
  <2>3. \A i \in 2..Len(stack') : i \in 2..Len(stack) /\ i \in DOMAIN stack /\ i - 1 \in DOMAIN stack
    BY <1>1, <1>4
  <2> QED BY <1>5, <1>6, <2>1, <2>2, <2>3, WellFormedIs
<1> QED BY <1>7, <1>8 DEF StackInv

LEMMA save_nodeKeeps == ASSUME StackInv, save_node PROVE StackInv'
<1>1. Top.at = "EditingNode"
  BY DEF save_node, Reads
<1>2. Len(stack) >= 2 /\ Len(stack) \in Nat /\ stack[Len(stack) - 1].at = "EditingGraph"
  BY <1>1, StackFacts DEF Under
<1>3. PICK below \in DOMAIN Pop(stack) : below = Len(stack) - 1
  BY <1>2, Popped
<1>4. PICK spec : spec = [Pop(stack)[below] EXCEPT !.spec.nodes = (Top.id :> Top.spec) @@ @]
  OBVIOUS
<1>5. stack' = [Pop(stack) EXCEPT ![below] = spec]
  BY <1>3, <1>4 DEF save_node
<1>6. /\ DOMAIN Pop(stack) = 1..(Len(stack) - 1) /\ Len(Pop(stack)) = Len(stack) - 1
      /\ \A i \in DOMAIN Pop(stack) : i \in DOMAIN stack /\ Pop(stack)[i] = stack[i]
  BY <1>2, Popped
<1>7. "at" \in DOMAIN spec /\ spec.at = Pop(stack)[below].at
  <2>1. "at" \in DOMAIN Pop(stack)[below]
    BY <1>6 DEF StackInv, StackTyped
  <2> QED BY <1>4, <2>1
<1> DEFINE X == {Pop(stack)[i] : i \in DOMAIN Pop(stack)} \cup {spec}
<1>8. Pop(stack) \in Seq(X) /\ spec \in X
  BY <1>2, Popped
<1> HIDE DEF X
<1>9. stack' \in Seq(X) /\ Len(stack') = Len(stack) - 1 /\ DOMAIN stack' = DOMAIN Pop(stack)
  BY <1>3, <1>5, <1>6, <1>8
<1>10. \A i \in DOMAIN stack' : /\ i \in DOMAIN stack /\ "at" \in DOMAIN stack'[i]
                                /\ stack'[i].at = stack[i].at
                                /\ i # below => stack'[i] = stack[i]
  BY <1>3, <1>5, <1>6, <1>7, <1>9 DEF StackInv, StackTyped
<1>11. StackTyped'
  <2>1. stack' \in Seq({stack'[i] : i \in DOMAIN stack'})
    BY <1>9
  <2> QED BY <1>10, <2>1 DEF StackTyped
<1>12. StackIsWellFormed'
  <2>1. /\ stack[1] = Root
        /\ \A i \in 2..Len(stack) : stack[i - 1].at = Under(stack[i].at)
    BY WellFormedIs DEF StackInv
  <2>2. below # 1
    <3>1. Root.at = "Root"
      BY DEF Root
    <3>2. stack[below].at = "EditingGraph"
      BY <1>2, <1>3
    <3> QED BY <2>1, <3>1, <3>2
  <2>3. 1 \in DOMAIN stack' /\ Len(stack') > 0
    BY <1>2, <1>6, <1>9
  <2>4. \A i \in 2..Len(stack') : i \in 2..Len(stack) /\ i \in DOMAIN stack' /\ i - 1 \in DOMAIN stack'
    BY <1>2, <1>6, <1>9
  <2> QED BY <1>10, <2>1, <2>2, <2>3, <2>4, WellFormedIs
<1> QED BY <1>11, <1>12 DEF StackInv

LEMMA StackStep == ASSUME StackInv, [ReplNext]_replVars PROVE StackInv'
<1>1. ASSUME stack' = stack PROVE StackInv'
  BY <1>1 DEF StackInv, StackTyped, StackIsWellFormed
<1>2. CASE UNCHANGED replVars
  BY <1>1, <1>2 DEF replVars
<1>3. CASE no_command \/ usage_error \/ help \/ exit
  BY <1>1, <1>3 DEF no_command, usage_error, help, exit, Prints
<1>4. CASE handle_eof
  BY <1>1, <1>4, popKeeps DEF handle_eof
<1>5. CASE root
  <2>1. ASSUME NEW where, connect_local(where) PROVE StackInv'
    <3>1. PICK state : state = LocalConnected
      OBVIOUS
    <3>2. "at" \in DOMAIN state /\ Under(state.at) = "Root" /\ push(state)
      BY <2>1, <3>1 DEF connect_local, LocalConnected, Under
    <3>3. Top.at = "Root"
      BY <2>1 DEF connect_local, Reads
    <3> QED BY <3>2, <3>3, PushedOn
  <2>2. CASE connect_remote
    BY <1>1, <2>2 DEF connect_remote, Prints
  <2> QED BY <1>5, <2>1, <2>2 DEF root
<1>6. CASE command
  <2>1. CASE disconnect
    BY <2>1, popKeeps DEF disconnect
  <2>2. CASE create_graph
    <3>1. PICK state : state = EditingGraph(NewGraph)
      OBVIOUS
    <3>2. "at" \in DOMAIN state /\ Under(state.at) = "LocalConnected" /\ push(state)
      BY <2>2, <3>1 DEF create_graph, EditingGraph, Under
    <3>3. Top.at = "LocalConnected"
      BY <2>2 DEF create_graph, Reads
    <3> QED BY <3>2, <3>3, PushedOn
  <2>3. ASSUME NEW kind, create_session(kind) PROVE StackInv'
    <3>1. PICK state : state = ExecutingSession(kind)
      OBVIOUS
    <3>2. "at" \in DOMAIN state /\ Under(state.at) = "LocalConnected" /\ push(state)
      BY <2>3, <3>1 DEF create_session, ExecutingSession, Under
    <3>3. Top.at = "LocalConnected"
      BY <2>3 DEF create_session, Reads
    <3> QED BY <3>2, <3>3, PushedOn
  <2>4. ASSUME NEW prompt, NEW tools, set_expert(prompt, tools) PROVE StackInv'
    BY <1>1, <2>4 DEF set_expert
  <2>5. CASE \/ list_sessions \/ list_models \/ list_experts \/ list_tools \/ list_graphs
             \/ delete_session \/ delete_model \/ delete_expert
             \/ \E key \in Secret : create_model(key)
             \/ \E expert \in Expert : create_expert(expert)
    BY <1>1, <2>5 DEF list_sessions, list_models, list_experts, list_tools, list_graphs,
       delete_session, delete_model, delete_expert, create_model, create_expert, Command
  <2> QED BY <1>6, <2>1, <2>2, <2>3, <2>4, <2>5 DEF command
<1>7. CASE edit
  <2>1. ASSUME NEW spec, edit_graph(spec) PROVE StackInv'
    <3>1. PICK state : state = EditingGraph(spec)
      OBVIOUS
    <3>2. "at" \in DOMAIN state /\ state.at = "EditingGraph" /\ mutate(state)
      BY <2>1, <3>1 DEF edit_graph, EditingGraph
    <3>3. Top.at = "EditingGraph"
      BY <2>1 DEF edit_graph, Edit, Reads
    <3> QED BY <3>2, <3>3, mutateKeeps
  <2>2. ASSUME NEW spec, edit_node(spec) PROVE StackInv'
    <3>1. PICK state : state = EditingNode(Top.id, spec)
      OBVIOUS
    <3>2. "at" \in DOMAIN state /\ state.at = "EditingNode" /\ mutate(state)
      BY <2>2, <3>1 DEF edit_node, EditingNode
    <3>3. Top.at = "EditingNode"
      BY <2>2 DEF edit_node, Edit, Reads
    <3> QED BY <3>2, <3>3, mutateKeeps
  <2>3. ASSUME NEW id, create_node(id) PROVE StackInv'
    <3>1. PICK state : state = EditingNode(id, NewNode)
      OBVIOUS
    <3>2. "at" \in DOMAIN state /\ Under(state.at) = "EditingGraph" /\ push(state)
      BY <2>3, <3>1 DEF create_node, EditingNode, Under
    <3>3. Top.at = "EditingGraph"
      BY <2>3 DEF create_node, Edit, Reads
    <3> QED BY <3>2, <3>3, PushedOn
  <2>4. CASE list_nodes
    BY <1>1, <2>4 DEF list_nodes, Prints
  <2>5. CASE save_graph
    BY <2>5, popKeeps DEF save_graph
  <2>6. CASE save_node
    BY <2>6, save_nodeKeeps
  <2>7. ASSUME NEW a, NEW b, set_entry(a) \/ disconnect_node(a) \/ connect(a, b) PROVE StackInv'
    BY <2>1, <2>7 DEF set_entry, disconnect_node, connect
  <2>8. ASSUME NEW name, NEW reducer, NEW in, NEW default, add_channel(name, reducer, in, default)
        PROVE  StackInv'
    BY <2>2, <2>8 DEF add_channel
  <2>9. ASSUME NEW name, NEW reducer, NEW flags, set_channel(name, reducer, flags)
        PROVE  StackInv'
    BY <2>2, <2>9 DEF set_channel
  <2> QED BY <1>7, <2>3, <2>4, <2>5, <2>6, <2>7, <2>8, <2>9 DEF edit
<1>8. CASE run
  <2>1. CASE run_session
    <3>1. Top.at = "ExecutingSession" /\ stack' = Pop(stack)
      BY <2>1 DEF run_session
    <3> QED BY <3>1, StackFacts, PoppedKeeps
  <2>2. CASE report \/ replace_expert \/ publish_graph \/ graph_saved \/ consult \/ consulted
    BY <1>1, <2>2 DEF report, replace_expert, publish_graph, graph_saved, consult, consulted
  <2>3. CASE Step(Cli)
    BY <1>1, <2>3 DEF Step
  <2> QED BY <1>8, <2>1, <2>2, <2>3 DEF run
<1>9. CASE other_process \/ Step(Other)
  BY <1>1, <1>9 DEF other_process, Step
<1> QED BY <1>2, <1>3, <1>4, <1>5, <1>6, <1>7, <1>8, <1>9 DEF ReplNext

(* However the commands, the sessions and the errors follow each other,    *)
(* each state of the command line stands on the one its code counts on.    *)
THEOREM StackStaysWellFormed == ReplSpec => []StackIsWellFormed
<1>1. ReplInit => StackInv
  <2> SUFFICES ASSUME ReplInit PROVE StackInv
    OBVIOUS
  <2>1. PICK r : r = Root
    OBVIOUS
  <2>2. "at" \in DOMAIN r
    BY <2>1 DEF Root
  <2>3. stack = <<r>>
    BY <2>1 DEF ReplInit
  <2>4. Len(stack) = 1 /\ DOMAIN stack = {1} /\ stack[1] = r /\ stack \in Seq({r})
    BY <2>3
  <2>5. StackTyped
    BY <2>2, <2>4 DEF StackTyped
  <2>6. StackIsWellFormed
    BY <2>1, <2>4, WellFormedIs
  <2> QED BY <2>5, <2>6 DEF StackInv
<1>2. StackInv /\ [ReplNext]_replVars => StackInv'
  BY StackStep
<1>3. StackInv => StackIsWellFormed
  BY DEF StackInv
<1> QED BY <1>1, <1>2, <1>3, PTL DEF ReplSpec
=============================================================================
