---------------------------- MODULE MCWorkerJobs ----------------------------
(* WorkerJobs on small instances. *)
EXTENDS WorkerJobs
=============================================================================
