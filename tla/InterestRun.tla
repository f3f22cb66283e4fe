----------------------------- MODULE InterestRun -----------------------------
(***************************************************************************)
(* The runs of one interest.  A user's command, the creation of the        *)
(* interest and an hourly cron queue runs and publish a request for each;  *)
(* Pub/Sub workers claim a run, let an agent look for findings, complete   *)
(* the run with the findings it delivers and notify the user.  A worker    *)
(* holds a run by a lease, the start time it wrote when it claimed it;     *)
(* a run that is still running after 45 minutes is failed by whoever       *)
(* comes next, and its worker, if alive, has lost the lease.               *)
(*                                                                         *)
(* Start times are distinct per claim and a worker makes one claim at a    *)
(* time, so a lease is named by the worker that wrote it.                  *)
(***************************************************************************)
EXTENDS Integers, FiniteSets

CONSTANTS
  Runs,       \* ids of runs (bound on the runs of the interest)
  Workers,    \* deliveries handled at the same time
  Posts,      \* posts that may become findings
  Summaries,  \* summary posts an agent may write
  Notify,     \* outputModes.notification of the interest
  Null,       \* no value: a run nobody has started, a worker without a run
  MaxFailures \* bound: exceptions, crashes, lost publications, duplicates

ASSUME NotifyAssumption == Notify \in BOOLEAN
ASSUME NameAssumption == Null \notin Workers \cup Runs /\ Summaries \cap Posts = {}
ASSUME LimitAssumption == IsFiniteSet(Posts \cup Summaries) /\ MaxFailures \in Nat

VARIABLES
  active,   \* interest.status is active
  runs,     \* rows of interest_run
  findings, \* status of the interest_finding of each post
  request,  \* the run-requested event of a run
  notices,  \* content-available events published
  pc,       \* where each worker is
  job,      \* the run each worker was asked for
  content,  \* what each worker is about to deliver
  cron,     \* where the cron is
  failures  \* failures so far

worker == <<pc, job, content>>
vars == <<active, runs, findings, request, notices, pc, job, content, cron, failures>>

Status == {"queued", "running", "completed", "failed"}
Content == SUBSET (Posts \cup Summaries)

\* blocks: the findings and the summary post the run delivers (findingsAdded,
\* summaryPostId).  stale: it is running and 45 minutes have passed since startedAt.
Run == [status: Status, scheduled: BOOLEAN, startedAt: Workers \cup {Null},
        stale: BOOLEAN, blocks: Content, notified: BOOLEAN]
NoRun == [status |-> "none"]
Queued(scheduled) ==
  [status |-> "queued", scheduled |-> scheduled, startedAt |-> Null,
   stale |-> FALSE, blocks |-> {}, notified |-> FALSE]

\* runAt, with the interest, is the deduplication key of the notification.
Notice == [run: Runs, runAt: Workers \cup {Null}, count: Nat]

\* The places where the worker has claimed its run.
Working == {"agent", "complete", "notify", "notified", "catch"}

TypeOK ==
  /\ active \in BOOLEAN
  /\ runs \in [Runs -> Run \cup {NoRun}]
  /\ findings \in [Posts -> {"none", "new", "surfaced"}]
  /\ request \in [Runs -> {"none", "pending", "acked"}]
  /\ notices \subseteq Notice
  /\ pc \in [Workers -> {"idle", "stopped", "reclaim", "claim", "unavailable", "republish"}
                          \cup Working]
  /\ job \in [Workers -> Runs \cup {Null}]
  /\ \A w \in Workers : pc[w] # "idle" => job[w] # Null
  /\ content \in [Workers -> Content]
  /\ cron \in {"idle", "insert", "publish"}
  /\ failures \in Nat

Init ==
  /\ active = TRUE
  /\ runs = [r \in Runs |-> NoRun]
  /\ findings = [p \in Posts |-> "none"]
  /\ request = [r \in Runs |-> "none"]
  /\ notices = {}
  /\ pc = [w \in Workers |-> "idle"]
  /\ job = [w \in Workers |-> Null]
  /\ content = [w \in Workers |-> {}]
  /\ cron = "idle"
  /\ failures = 0

-----------------------------------------------------------------------------
(* The table.                                                              *)

\* The two unique indexes of interest_run, seen by run r that starts: one
\* running run, and one queued or running scheduled run.
Conflict(r) ==
  \E q \in Runs \ {r} :
    \/ runs[q].status = "running"
    \/ runs[q].status = "queued" /\ runs[q].scheduled /\ runs[r].scheduled

Fail(run) == [run EXCEPT !.status = "failed", !.stale = FALSE]

\* Mutant of WithoutStale: a dead worker's run is never failed.
WithoutNone == runs

\* failStaleRunning: whoever comes next fails the run that takes too long.
WithoutStale ==
  [r \in Runs |->
     IF runs[r].status = "running" /\ runs[r].stale THEN Fail(runs[r]) ELSE runs[r]]

\* Mutant of Leased: the update asks for the id only.
LeasedById(w) == job[w] # Null

\* leasedRun: the run is still the one this worker started.
Leased(w) ==
  job[w] # Null /\ runs[job[w]].status = "running" /\ runs[job[w]].startedAt = w

NewFindings == {p \in Posts : findings[p] = "new"}
FindingsIn(c) == c \ Summaries

Stumble == failures < MaxFailures /\ failures' = failures + 1

-----------------------------------------------------------------------------
(* The user, the clock and the live worker.                                *)

\* updateInterest: the user pauses or resumes the interest.
SetStatus ==
  /\ active' = ~active
  /\ UNCHANGED <<runs, findings, request, notices, worker, cron, failures>>

\* sendInterestCommand, and likewise spawnInterest: commit a queued run, then
\* publish its request (publishing late is a late delivery).  publishEvent logs
\* an error of Pub/Sub and returns: the request may be lost, as in a crash.
SendCommand(r) ==
  /\ runs[r] = NoRun
  /\ runs' = [runs EXCEPT ![r] = Queued(FALSE)]
  /\ \/ request' = [request EXCEPT ![r] = "pending"] /\ UNCHANGED failures
     \/ Stumble /\ UNCHANGED request
  /\ UNCHANGED <<active, findings, notices, worker, cron>>

\* STALE_RUNNING_RECLAIM_MINUTES pass.
Age(r) ==
  /\ runs[r].status = "running" /\ ~runs[r].stale
  /\ runs' = [runs EXCEPT ![r].stale = TRUE]
  /\ UNCHANGED <<active, findings, request, notices, worker, cron, failures>>

\* A post is found for the first time, by the agent of a run or by the worker
\* that matches every new post against all interests.
Find(p) ==
  /\ findings[p] = "none"
  /\ findings' = [findings EXCEPT ![p] = "new"]
  /\ UNCHANGED <<active, runs, request, notices, worker, cron, failures>>

-----------------------------------------------------------------------------
(* interestScheduledRun: the cron, for an interest that is due.            *)

CronStart ==
  /\ cron = "idle" /\ active
  /\ runs' = WithoutStale
  /\ cron' = "insert"
  /\ UNCHANGED <<active, findings, request, notices, worker, failures>>

\* INSERT ... ON CONFLICT DO NOTHING; no row either when the ids are used up.
CronInsert ==
  /\ cron = "insert" /\ cron' = "publish"
  /\ LET taken == \E q \in Runs : /\ runs[q].status \in {"queued", "running"}
                                  /\ runs[q].scheduled
         free == {r \in Runs : runs[r] = NoRun}
     IN IF taken \/ free = {} THEN UNCHANGED runs
        ELSE \E r \in free : runs' = [runs EXCEPT ![r] = Queued(TRUE)]
  /\ UNCHANGED <<active, findings, request, notices, worker, failures>>

\* Request the scheduled run that waits, again if it was requested before.
CronPublish ==
  /\ cron = "publish" /\ cron' = "idle"
  /\ LET waiting == {r \in Runs : runs[r].status = "queued" /\ runs[r].scheduled}
     IN \/ /\ request' = [r \in Runs |-> IF r \in waiting THEN "pending" ELSE request[r]]
           /\ UNCHANGED failures
        \/ waiting # {} /\ Stumble /\ UNCHANGED request
  /\ UNCHANGED <<active, runs, findings, notices, worker>>

-----------------------------------------------------------------------------
(* userInterestRunWorker.                                                  *)

\* The handler returns: the request is acknowledged.
Ack(w) ==
  /\ pc' = [pc EXCEPT ![w] = "idle"] /\ job' = [job EXCEPT ![w] = Null]
  /\ content' = [content EXCEPT ![w] = {}]
  /\ request' = [request EXCEPT ![job[w]] = "acked"]

\* The handler throws, or its process dies: Pub/Sub delivers the request again.
Drop(w) ==
  /\ pc' = [pc EXCEPT ![w] = "idle"] /\ job' = [job EXCEPT ![w] = Null]
  /\ content' = [content EXCEPT ![w] = {}]
  /\ UNCHANGED request

Goto(w, place) == pc' = [pc EXCEPT ![w] = place]

\* A delivery, and the read of the interest.  A request may be delivered to
\* two workers at once or once more after it was acknowledged.
Receive(w, r) ==
  /\ pc[w] = "idle"
  /\ \/ request[r] = "pending" /\ (\A v \in Workers : job[v] # r) /\ UNCHANGED failures
     \/ request[r] \in {"pending", "acked"} /\ Stumble
  /\ job' = [job EXCEPT ![w] = r]
  /\ Goto(w, IF active THEN "reclaim" ELSE "stopped")
  /\ UNCHANGED <<active, runs, findings, request, notices, content, cron>>

\* The interest is not active: the run fails unless it is completed.
FailStopped(w) ==
  /\ pc[w] = "stopped"
  /\ runs' = IF runs[job[w]].status = "completed" THEN runs
             ELSE [runs EXCEPT ![job[w]] = Fail(@)]
  /\ Ack(w)
  /\ UNCHANGED <<active, findings, notices, cron, failures>>

\* claimRun, first statement.
Reclaim(w) ==
  /\ pc[w] = "reclaim"
  /\ runs' = WithoutStale
  /\ Goto(w, "claim")
  /\ UNCHANGED <<active, findings, request, notices, job, content, cron, failures>>

\* claimRun, second statement: take the lease of a queued or failed run.
Claim(w) ==
  /\ pc[w] = "claim" /\ runs[job[w]].status \in {"queued", "failed"} /\ ~Conflict(job[w])
  /\ runs' = [runs EXCEPT ![job[w]].status = "running", ![job[w]].startedAt = w,
                          ![job[w]].stale = FALSE]
  /\ Goto(w, "agent")
  /\ UNCHANGED <<active, findings, request, notices, job, content, cron, failures>>

\* The claim violates a unique index: throw, to be delivered again later.
ClaimBusy(w) ==
  /\ pc[w] = "claim" /\ runs[job[w]].status \in {"queued", "failed"} /\ Conflict(job[w])
  /\ Drop(w)
  /\ UNCHANGED <<active, runs, findings, notices, cron, failures>>

\* The run is running or completed.
ClaimUnavailable(w) ==
  /\ pc[w] = "claim" /\ runs[job[w]].status \notin {"queued", "failed"}
  /\ Goto(w, "unavailable")
  /\ UNCHANGED <<active, runs, findings, request, notices, job, content, cron, failures>>

\* Republish the notification of a completed run if it may have been lost.
ReadUnavailable(w) ==
  /\ pc[w] = "unavailable"
  /\ LET run == runs[job[w]]
     IN IF run.status = "completed" /\ ~run.notified /\ run.blocks # {} /\ Notify
        THEN /\ content' = [content EXCEPT ![w] = run.blocks]
             /\ Goto(w, "republish") /\ UNCHANGED <<request, job>>
        ELSE Ack(w)
  /\ UNCHANGED <<active, runs, findings, notices, cron, failures>>

\* triggerTypedEvent: a publication that fails is logged and forgotten.
Publish(w, runAt) ==
  \/ /\ notices' = notices \cup
          {[run |-> job[w], runAt |-> runAt, count |-> Cardinality(FindingsIn(content[w]))]}
     /\ UNCHANGED failures
  \/ Stumble /\ UNCHANGED notices

\* Mutant of Republish: the notification carries the time of the redelivery.
RepublishNow(w) ==
  /\ pc[w] = "republish"
  /\ Publish(w, w)
  /\ Goto(w, "notified")
  /\ UNCHANGED <<active, runs, findings, request, job, content, cron>>

Republish(w) ==
  /\ pc[w] = "republish"
  /\ Publish(w, runs[job[w]].startedAt)
  /\ Goto(w, "notified")
  /\ UNCHANGED <<active, runs, findings, request, job, content, cron>>

\* The agent has returned: what is new will be delivered, with its summary post.
ReadFindings(w) ==
  /\ pc[w] = "agent"
  /\ \E summary \in {{}} \cup {{s} : s \in Summaries} :
       content' = [content EXCEPT ![w] = NewFindings \cup summary]
  /\ Goto(w, "complete")
  /\ UNCHANGED <<active, runs, findings, request, notices, job, cron, failures>>

\* One transaction: complete the run if the lease is held, and mark every new
\* finding of the interest as surfaced.
Complete(w) ==
  /\ pc[w] = "complete" /\ Leased(w)
  /\ LET notify == content[w] # {} /\ Notify
     IN /\ runs' = [runs EXCEPT ![job[w]].status = "completed", ![job[w]].stale = FALSE,
                               ![job[w]].blocks = content[w], ![job[w]].notified = ~notify]
        /\ IF notify THEN Goto(w, "notify") /\ UNCHANGED <<request, job, content>>
           ELSE Ack(w)
  /\ findings' = [p \in Posts |-> IF findings[p] = "new" THEN "surfaced" ELSE findings[p]]
  /\ UNCHANGED <<active, notices, cron, failures>>

\* The lease is lost: leave everything to whoever holds it.
Abandon(w) ==
  /\ pc[w] = "complete" /\ ~Leased(w)
  /\ Ack(w)
  /\ UNCHANGED <<active, runs, findings, notices, cron, failures>>

NotifyUser(w) ==
  /\ pc[w] = "notify"
  /\ Publish(w, w)
  /\ Goto(w, "notified")
  /\ UNCHANGED <<active, runs, findings, request, job, content, cron>>

\* Store notifiedAt.
MarkNotified(w) ==
  /\ pc[w] = "notified"
  /\ runs' = [runs EXCEPT ![job[w]].notified = TRUE]
  /\ Ack(w)
  /\ UNCHANGED <<active, findings, notices, cron, failures>>

\* The agent or the database throws after the claim.  Once the run is completed
\* the catch finds no lease, and throwing is the same as dying.
Throw(w) ==
  /\ pc[w] \in {"agent", "complete"} /\ Stumble
  /\ Goto(w, "catch")
  /\ UNCHANGED <<active, runs, findings, request, notices, job, content, cron>>

\* catch: fail the run if the lease is still held, and throw.
Catch(w) ==
  /\ pc[w] = "catch"
  /\ runs' = IF Leased(w) THEN [runs EXCEPT ![job[w]] = Fail(@)] ELSE runs
  /\ Drop(w)
  /\ UNCHANGED <<active, findings, notices, cron, failures>>

\* The process dies, or the handler throws outside of the try block.
Crash(w) ==
  /\ pc[w] # "idle" /\ Stumble
  /\ Drop(w)
  /\ UNCHANGED <<active, runs, findings, notices, cron>>

-----------------------------------------------------------------------------
WorkerStep(w) ==
  \/ FailStopped(w) \/ Reclaim(w) \/ Claim(w) \/ ClaimBusy(w) \/ ClaimUnavailable(w)
  \/ ReadUnavailable(w) \/ Republish(w) \/ ReadFindings(w) \/ Complete(w) \/ Abandon(w)
  \/ NotifyUser(w) \/ MarkNotified(w) \/ Catch(w)

Cron == CronStart \/ CronInsert \/ CronPublish

User == SetStatus \/ \E r \in Runs : SendCommand(r)

Next ==
  \/ User \/ Cron
  \/ \E r \in Runs : Age(r)
  \/ \E p \in Posts : Find(p)
  \/ \E w \in Workers : WorkerStep(w) \/ Throw(w) \/ Crash(w) \/ \E r \in Runs : Receive(w, r)

Spec == Init /\ [][Next]_vars

\* Node runs handlers on, Pub/Sub delivers a request until it is acknowledged,
\* time passes, and the cron runs again and again.
Fairness ==
  /\ \A w \in Workers : WF_vars(WorkerStep(w))
  /\ \A r \in Runs : SF_vars(\E w \in Workers : Receive(w, r) /\ UNCHANGED failures)
  /\ \A r \in Runs : WF_vars(Age(r))
  /\ SF_vars(CronStart) /\ WF_vars(CronInsert) /\ WF_vars(CronPublish)

FairSpec == Spec /\ Fairness

-----------------------------------------------------------------------------
(* Properties.                                                             *)

\* A finding is delivered by one run, although a stale run's worker may be
\* alive and deliver as well: the lease decides (userInterestRunWorker).
DeliveredOnce ==
  \A q, r \in Runs :
    /\ q # r /\ runs[q].status = "completed" /\ runs[r].status = "completed"
    => FindingsIn(runs[q].blocks) \cap FindingsIn(runs[r].blocks) = {}

\* A run is announced only once it is completed, under one deduplication key
\* and with the number of findings it shows, however often it is republished.
NoticeTellsRun ==
  \A n \in notices :
    /\ runs[n.run].status = "completed" /\ runs[n.run].startedAt = n.runAt
    /\ runs[n.run].blocks # {} /\ n.count = Cardinality(FindingsIn(runs[n.run].blocks))

\* No late worker, reclaim, redelivery or pause changes a completed run: only
\* notifiedAt may still be set.
CompletedIsFinal ==
  [][\A r \in Runs : runs[r].status = "completed"
       => /\ runs'[r].status = "completed" /\ runs'[r].blocks = runs[r].blocks
          /\ runs[r].notified => runs'[r].notified]_vars

\* A requested run ends, completed or failed, unless the interest is paused:
\* busy runs, dead workers and the two indexes never block it for good.
RequestEnds ==
  \A r \in Runs :
    request[r] = "pending" ~> runs[r].status \in {"completed", "failed"} \/ ~active
=============================================================================
