\* Two jobs, one of them with arguments its executor cannot read, and two
\* workers that may crash, one of them without the RPC of a worker.
CONSTANTS
  Job = {j1, j2}
  Worker = {w1, w2}
  Registered = {j1, j2}
  BadArgs = {j2}
  NotServing = {w2}
  NoWorker = NoWorker
  MaxProbes = 2
  EventCap = 2
  MaxCrashes = 1
SPECIFICATION Spec
INVARIANTS OutcomeIsTrue ExecutedAtMostOnce
CHECK_DEADLOCK FALSE
