----------------------------- MODULE MCWorkerJobs -----------------------------
(* Model-checking instance of WorkerJobs.  No symmetry is used, since the  *)
(* run checks liveness.                                                    *)
EXTENDS WorkerJobs
=============================================================================
