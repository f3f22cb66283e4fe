------------------------------ MODULE WorkerJobs ------------------------------
(***************************************************************************)
(* Batches of background jobs.  A request stores a batch and its jobs and  *)
(* publishes a Pub/Sub message per job.  A worker runs the job of a        *)
(* message and then ends the batch if no job of it is left.                *)
(*                                                                         *)
(* Nothing is locked: a worker reads a job, its siblings and the batch,    *)
(* and writes them later.  Messages are delivered at least once.           *)
(***************************************************************************)
EXTENDS Integers, FiniteSets

CONSTANTS
  Batches,     \* batches
  Executors,   \* workers: messages handled at the same time
  BatchSizes,  \* bound: numbers of jobs a batch is started with
  MaxFaults    \* bound: lost publications, exceptions outside a job, crashes

ASSUME SizesAssumption ==
  BatchSizes \subseteq Nat /\ \E n \in BatchSizes : \A m \in BatchSizes : m <= n
ASSUME BoundsAssumption == MaxFaults \in Nat

VARIABLES
  size,       \* number of jobs of a batch, None before it is started
  status,     \* committed status of each batch
  jobStatus,  \* committed status of each job
  messages,   \* jobs with a message that is not acknowledged
  step,       \* where each worker is
  work,       \* the job and what was read of its siblings
  faults,     \* failures so far
  twice,      \* history: batches with a job two workers had at once
  broken      \* history: batches a failure hit

batchVars == <<size, status, jobStatus, messages, step, work, faults, twice, broken>>

MaxSize == CHOOSE n \in BatchSizes : \A m \in BatchSizes : m <= n
Jobs == Batches \X (1..MaxSize)
BatchOf(j) == j[1]
None == -1
NoWork == [job |-> <<>>]

Children(b) == {<<b, i>> : i \in 1..size[b]}
Ended == {"COMPLETED", "FAILED"}

BatchTypeOK ==
  /\ size \in [Batches -> BatchSizes \cup {None}]
  /\ status \in [Batches -> {"none", "RUNNING"} \cup Ended]
  /\ jobStatus \in [Jobs -> {"none", "PENDING", "RUNNING"} \cup Ended]
  /\ messages \subseteq Jobs
  /\ step \in [Executors -> {"idle", "start", "run", "count", "tally", "close"}]
  /\ faults \in 0..MaxFaults
  /\ twice \subseteq Batches /\ broken \subseteq Batches
  /\ \A b \in Batches : size[b] = None <=> status[b] = "none"

BatchInit ==
  /\ size = [b \in Batches |-> None] /\ status = [b \in Batches |-> "none"]
  /\ jobStatus = [j \in Jobs |-> "none"] /\ messages = {}
  /\ step = [w \in Executors |-> "idle"] /\ work = [w \in Executors |-> NoWork]
  /\ faults = 0 /\ twice = {} /\ broken = {}

-----------------------------------------------------------------------------

\* startBatch: the batch and its jobs are stored in a transaction, then a
\* message is published for each job.  A publication that fails is let go.
startBatch(b, n) ==
  /\ size[b] = None
  /\ size' = [size EXCEPT ![b] = n] /\ status' = [status EXCEPT ![b] = "RUNNING"]
  /\ jobStatus' = [j \in Jobs |-> IF BatchOf(j) = b /\ j[2] <= n THEN "PENDING" ELSE jobStatus[j]]
  /\ \E lost \in SUBSET {<<b, i>> : i \in 1..n} :
       /\ faults + Cardinality(lost) <= MaxFaults
       /\ faults' = faults + Cardinality(lost)
       /\ broken' = IF lost = {} THEN broken ELSE broken \cup {b}
       /\ messages' = messages \cup ({<<b, i>> : i \in 1..n} \ lost)
  /\ UNCHANGED <<step, work, twice>>

GoOn(w, place) == step' = [step EXCEPT ![w] = place]
Stop(w) == GoOn(w, "idle") /\ work' = [work EXCEPT ![w] = NoWork]
AckJob(w) == messages' = messages \ {work[w].job} /\ Stop(w)
SetJob(j, s) == jobStatus' = [jobStatus EXCEPT ![j] = s]

\* A message is delivered: the job is read, and skipped if it is not pending.
ReceiveJob(w, j) ==
  /\ step[w] = "idle" /\ j \in messages
  /\ IF jobStatus[j] # "PENDING"
     THEN messages' = messages \ {j} /\ UNCHANGED <<step, work, twice>>
     ELSE /\ GoOn(w, "start") /\ work' = [work EXCEPT ![w] = [job |-> j]]
          /\ twice' = (IF \E v \in Executors : work[v].job = j
                       THEN twice \cup {BatchOf(j)} ELSE twice)
          /\ UNCHANGED messages
  /\ UNCHANGED <<size, status, jobStatus, faults, broken>>

\* A job of a type without a handler fails at once.
NoHandler(w) ==
  /\ step[w] = "start"
  /\ SetJob(work[w].job, "FAILED") /\ GoOn(w, "count")
  /\ UNCHANGED <<size, status, messages, work, faults, twice, broken>>

StartJob(w) ==
  /\ step[w] = "start"
  /\ SetJob(work[w].job, "RUNNING") /\ GoOn(w, "run")
  /\ UNCHANGED <<size, status, messages, work, faults, twice, broken>>

\* Mutant of EndJob: the siblings are counted before the job has ended.
CountThenEnd(w) ==
  /\ step[w] = "run"
  /\ \E s \in Ended : SetJob(work[w].job, s)
  /\ IF \E j \in Children(BatchOf(work[w].job)) : jobStatus[j] \notin Ended
     THEN AckJob(w)
     ELSE GoOn(w, "tally") /\ UNCHANGED <<messages, work>>
  /\ UNCHANGED <<size, status, faults, twice, broken>>

\* The handler returns, or throws and the job has failed.
EndJob(w) ==
  /\ step[w] = "run"
  /\ \E s \in Ended : SetJob(work[w].job, s)
  /\ GoOn(w, "count")
  /\ UNCHANGED <<size, status, messages, work, faults, twice, broken>>

Remaining(b) == {j \in Children(b) : jobStatus[j] \notin Ended}

\* checkParentCompletion, first query: the jobs left are counted.
CountRemaining(w) ==
  /\ step[w] = "count"
  /\ IF Remaining(BatchOf(work[w].job)) # {}
     THEN AckJob(w)
     ELSE GoOn(w, "tally") /\ UNCHANGED <<messages, work>>
  /\ UNCHANGED <<size, status, jobStatus, faults, twice, broken>>

\* Mutant of CountFailed: only the job of the worker is looked at.
CountOwn(w) ==
  /\ step[w] = "tally"
  /\ GoOn(w, "close")
  /\ work' = [work EXCEPT ![w] = [job |-> @.job, failed |-> jobStatus[@.job] = "FAILED"]]
  /\ UNCHANGED <<size, status, jobStatus, messages, faults, twice, broken>>

\* Second query: the jobs that failed.
CountFailed(w) ==
  /\ step[w] = "tally"
  /\ GoOn(w, "close")
  /\ work' = [work EXCEPT ![w] =
       [job |-> @.job,
        failed |-> \E j \in Children(BatchOf(@.job)) : jobStatus[j] = "FAILED"]]
  /\ UNCHANGED <<size, status, jobStatus, messages, faults, twice, broken>>

\* The batch ends, whatever its status is by now.
EndBatch(w) ==
  /\ step[w] = "close"
  /\ status' = [status EXCEPT ![BatchOf(work[w].job)] =
       IF work[w].failed THEN "FAILED" ELSE "COMPLETED"]
  /\ AckJob(w)
  /\ UNCHANGED <<size, jobStatus, faults, twice, broken>>

\* The database throws outside the job, or the worker dies.  The message is
\* delivered again.
FailJob(w) ==
  /\ step[w] # "idle" /\ faults < MaxFaults
  /\ faults' = faults + 1 /\ broken' = broken \cup {BatchOf(work[w].job)}
  /\ Stop(w)
  /\ UNCHANGED <<size, status, jobStatus, messages, twice>>

Work(w) ==
  \/ NoHandler(w) \/ StartJob(w) \/ EndJob(w) \/ CountRemaining(w) \/ CountFailed(w)
  \/ EndBatch(w)

BatchNext ==
  \/ \E b \in Batches, n \in BatchSizes : startBatch(b, n)
  \/ \E w \in Executors : Work(w) \/ FailJob(w) \/ \E j \in messages : ReceiveJob(w, j)

BatchSpec == BatchInit /\ [][BatchNext]_batchVars

\* A message is delivered until it is acknowledged; a worker's steps end.
FairBatchSpec ==
  /\ BatchSpec
  /\ \A j \in Jobs : WF_batchVars(\E w \in Executors : j \in messages /\ ReceiveJob(w, j))
  /\ \A w \in Executors : WF_batchVars(Work(w))

-----------------------------------------------------------------------------
\* A batch has ended only if all its jobs have, unless a duplicate delivery had
\* two workers on one job: the second sets a job that ended back to running
\* (jobExecute.ts, checkParentCompletion).
BatchEndsLast ==
  \A b \in Batches \ twice : status[b] \in Ended => \A j \in Children(b) : jobStatus[j] \in Ended

\* The batch has failed if and only if a job of it has, unless a second delivery
\* had two workers on one job: the one that read it before the other ended it sets
\* it back to running.  The count of what is left and the count of the failures are
\* two queries (jobExecute.ts, checkParentCompletion).
StatusTellsJobs ==
  \A b \in Batches \ twice : status[b] \in Ended =>
    (status[b] = "FAILED" <=> \E j \in Children(b) : jobStatus[j] = "FAILED")

\* An ended batch keeps its status: a second worker that sees no job left
\* writes the same one.
EndedBatchStays ==
  [][\A b \in Batches \ twice' : status[b] \in Ended => status'[b] = status[b]]_batchVars

\* A batch that was started ends: of the workers that end its last jobs at once
\* one sees none left.  It does not if it has no job, if a message was lost or if
\* a worker failed or died, since a job found running is not run again.
BatchEnds ==
  \A b \in Batches :
    status[b] = "RUNNING" ~> (status[b] \in Ended \/ size[b] = 0 \/ b \in broken)
=============================================================================
