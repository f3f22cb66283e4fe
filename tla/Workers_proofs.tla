---------------------------- MODULE Workers_proofs ----------------------------
(***************************************************************************)
(* Proofs about the two components whose work is done by Pub/Sub workers:  *)
(* InterestRun, for any number of runs, workers and posts, and WorkerJobs, *)
(* for any number of batches, jobs, workers and failures.                  *)
(***************************************************************************)
EXTENDS InterestRun, WorkerJobs, FiniteSetTheorems, TLAPS

\* A request, and a worker that handles it, are about a run that has a row.
RowInv ==
  /\ \A r \in Runs : request[r] # "none" => runs[r] # NoRun
  /\ \A w \in Workers : pc[w] # "idle" => runs[job[w]] # NoRun

\* One run is running.  What a completed run delivers is surfaced; what the
\* holder of the lease is about to deliver is still new.
LeaseInv ==
  /\ \A q, r \in Runs : runs[q].status = "running" /\ runs[r].status = "running" => q = r
  /\ \A r \in Runs : runs[r].status = "completed" =>
       \A p \in FindingsIn(runs[r].blocks) : findings[p] = "surfaced"
  /\ \A w \in Workers : pc[w] = "complete" /\ Leased(w) =>
       \A p \in FindingsIn(content[w]) : findings[p] = "new"

\* A worker that is about to notify holds what its completed run delivers.
TellInv ==
  \A w \in Workers : pc[w] \in {"notify", "republish"} =>
    /\ runs[job[w]].status = "completed"
    /\ content[w] = runs[job[w]].blocks /\ content[w] # {}
    /\ pc[w] = "notify" => runs[job[w]].startedAt = w

BookInv == TypeOK /\ RowInv

-----------------------------------------------------------------------------
(* Types and rows.                                                         *)

\* A queued row is a row, and a row is not the absent one.
LEMMA QueuedTypes ==
  /\ \A b \in BOOLEAN : Queued(b) \in Run
  /\ \A run \in Run : run # NoRun
BY DEF Queued, Run, NoRun, Status, Content

\* A row that is neither absent nor of another type.
LEMMA JobRow ==
  ASSUME TypeOK, RowInv, NEW w \in Workers, pc[w] # "idle"
  PROVE  job[w] \in Runs /\ runs[job[w]] \in Run
BY DEF TypeOK, RowInv

\* Failing the stale runs keeps the rows.
LEMMA StaleTypes ==
  ASSUME TypeOK
  PROVE  /\ WithoutStale \in [Runs -> Run \cup {NoRun}]
         /\ \A r \in Runs : (WithoutStale[r] = NoRun) <=> (runs[r] = NoRun)
<1>1. ASSUME NEW r \in Runs, runs[r].status = "running", runs[r].stale
      PROVE Fail(runs[r]) \in Run
  <2>1. runs[r] \in Run
    BY <1>1 DEF TypeOK, NoRun
  <2> QED BY <2>1 DEF Run, Status, Fail
<1> QED BY <1>1, QueuedTypes DEF WithoutStale, TypeOK, NoRun

\* A row is kept or failed.
LEMMA StaleFails ==
  ASSUME TypeOK, NEW r \in Runs
  PROVE  WithoutStale[r] = runs[r] \/ WithoutStale[r].status = "failed"
<1>1. CASE runs[r].status = "running"
  <2>1. runs[r] \in Run
    BY <1>1 DEF TypeOK, NoRun
  <2>2. Fail(runs[r]).status = "failed"
    BY <2>1 DEF Run, Fail
  <2> QED BY <2>2 DEF WithoutStale
<1>2. CASE runs[r].status # "running"
  BY <1>2 DEF WithoutStale
<1> QED BY <1>1, <1>2

\* What is delivered is finite, so its size is a number.
LEMMA CountType ==
  ASSUME NEW c \in Content
  PROVE  Cardinality(FindingsIn(c)) \in Nat
<1>1. IsFiniteSet(FindingsIn(c))
  BY LimitAssumption, FS_Subset DEF Content, FindingsIn
<1> QED BY <1>1, FS_CardinalityType

\* Every action keeps the types and the rows that are referred to.
LEMMA BookStep == BookInv /\ [Next]_vars => BookInv'
<1> SUFFICES ASSUME TypeOK, RowInv, [Next]_vars PROVE TypeOK' /\ RowInv'
  BY DEF BookInv
<1>1. ASSUME SetStatus PROVE TypeOK' /\ RowInv'
  BY <1>1 DEF SetStatus, worker, TypeOK, RowInv
<1>2. ASSUME NEW r \in Runs, SendCommand(r) PROVE TypeOK' /\ RowInv'
  <2>1. runs' = [runs EXCEPT ![r] = Queued(FALSE)] /\ Queued(FALSE) \in Run /\ Queued(FALSE) # NoRun
    BY <1>2, QueuedTypes DEF SendCommand
  <2>2. failures' \in Nat /\ request' \in [Runs -> {"none", "pending", "acked"}]
        /\ \A q \in Runs \ {r} : request'[q] = request[q]
    BY <1>2 DEF SendCommand, Stumble, TypeOK
  <2>3. TypeOK'
    <3>1. runs' \in [Runs -> Run \cup {NoRun}]
      BY <2>1 DEF TypeOK
    <3> QED BY <1>2, <2>2, <3>1 DEF SendCommand, worker, TypeOK
  <2>4. RowInv'
    BY <1>2, <2>1, <2>2 DEF SendCommand, worker, TypeOK, RowInv
  <2> QED BY <2>3, <2>4
<1>3. ASSUME NEW r \in Runs, Age(r) PROVE TypeOK' /\ RowInv'
  <2>1. runs[r] \in Run
    BY <1>3 DEF Age, TypeOK, NoRun
  <2>2. runs' \in [Runs -> Run \cup {NoRun}] /\ \A q \in Runs : runs[q] # NoRun => runs'[q] # NoRun
    <3>1. [runs[r] EXCEPT !.stale = TRUE] \in Run
      BY <2>1 DEF Run
    <3> QED BY <1>3, <3>1, QueuedTypes DEF Age, TypeOK
  <2> QED BY <1>3, <2>2 DEF Age, worker, TypeOK, RowInv
<1>4. ASSUME NEW p \in Posts, Find(p) PROVE TypeOK' /\ RowInv'
  BY <1>4 DEF Find, worker, TypeOK, RowInv
<1>5. ASSUME CronStart PROVE TypeOK' /\ RowInv'
  BY <1>5, StaleTypes DEF CronStart, worker, TypeOK, RowInv
<1>6. ASSUME CronInsert PROVE TypeOK' /\ RowInv'
  <2>1. runs' \in [Runs -> Run \cup {NoRun}] /\ \A q \in Runs : runs[q] # NoRun => runs'[q] # NoRun
    <3>1. CASE UNCHANGED runs
      BY <3>1 DEF TypeOK
    <3>2. CASE \E r \in Runs : runs' = [runs EXCEPT ![r] = Queued(TRUE)]
      BY <3>2, QueuedTypes DEF TypeOK
    <3> QED BY <1>6, <3>1, <3>2 DEF CronInsert
  <2> QED BY <1>6, <2>1 DEF CronInsert, worker, TypeOK, RowInv
<1>7. ASSUME CronPublish PROVE TypeOK' /\ RowInv'
  <2>1. request' \in [Runs -> {"none", "pending", "acked"}]
        /\ \A q \in Runs : request'[q] # request[q] => runs[q].status = "queued"
    BY <1>7 DEF CronPublish, TypeOK
  <2>2. \A q \in Runs : runs[q].status = "queued" => runs[q] # NoRun
    BY DEF NoRun
  <2>3. failures' \in Nat
    BY <1>7 DEF CronPublish, Stumble, TypeOK
  <2> QED BY <1>7, <2>1, <2>2, <2>3 DEF CronPublish, worker, TypeOK, RowInv
<1>8. ASSUME NEW w \in Workers, NEW r \in Runs, Receive(w, r) PROVE TypeOK' /\ RowInv'
  <2>1. request[r] # "none" /\ failures' \in Nat
    BY <1>8 DEF Receive, Stumble, TypeOK
  <2>2. pc' = [pc EXCEPT ![w] = pc'[w]] /\ pc'[w] \in {"reclaim", "stopped"}
        /\ job' = [job EXCEPT ![w] = r]
    BY <1>8 DEF Receive, Goto, TypeOK
  <2>3. r # Null
    BY NameAssumption
  <2> QED BY <1>8, <2>1, <2>2, <2>3 DEF Receive, TypeOK, RowInv
<1>9. ASSUME NEW w \in Workers, FailStopped(w) PROVE TypeOK' /\ RowInv'
  <2>1. job[w] \in Runs /\ runs[job[w]] \in Run
    BY <1>9, JobRow DEF FailStopped
  <2>2. runs' \in [Runs -> Run \cup {NoRun}] /\ \A q \in Runs : runs[q] # NoRun => runs'[q] # NoRun
    <3>1. Fail(runs[job[w]]) \in Run
      BY <2>1 DEF Run, Status, Fail
    <3> QED BY <1>9, <2>1, <3>1, QueuedTypes DEF FailStopped, TypeOK
  <2> QED BY <1>9, <2>1, <2>2 DEF FailStopped, Ack, TypeOK, RowInv, Content
<1>10. ASSUME NEW w \in Workers, Reclaim(w) PROVE TypeOK' /\ RowInv'
  BY <1>10, StaleTypes DEF Reclaim, Goto, TypeOK, RowInv
<1>11. ASSUME NEW w \in Workers, Claim(w) PROVE TypeOK' /\ RowInv'
  <2>1. job[w] \in Runs /\ runs[job[w]] \in Run
    BY <1>11, JobRow DEF Claim
  <2>2. [runs[job[w]] EXCEPT !.status = "running", !.startedAt = w, !.stale = FALSE] \in Run
    BY <2>1 DEF Run, Status
  <2>3. runs' \in [Runs -> Run \cup {NoRun}] /\ \A q \in Runs : runs[q] # NoRun => runs'[q] # NoRun
    BY <1>11, <2>1, <2>2, QueuedTypes DEF Claim, TypeOK
  <2> QED BY <1>11, <2>3 DEF Claim, Goto, Working, TypeOK, RowInv
<1>12. ASSUME NEW w \in Workers, ClaimBusy(w) PROVE TypeOK' /\ RowInv'
  BY <1>12 DEF ClaimBusy, Drop, TypeOK, RowInv, Content
<1>13. ASSUME NEW w \in Workers, ClaimUnavailable(w) PROVE TypeOK' /\ RowInv'
  BY <1>13 DEF ClaimUnavailable, Goto, TypeOK, RowInv
<1>14. ASSUME NEW w \in Workers, ReadUnavailable(w) PROVE TypeOK' /\ RowInv'
  <2>1. job[w] \in Runs /\ runs[job[w]] \in Run
    BY <1>14, JobRow DEF ReadUnavailable
  <2>2. runs[job[w]].blocks \in Content
    BY <2>1 DEF Run
  <2>3. CASE Ack(w)
    BY <1>14, <2>1, <2>3 DEF ReadUnavailable, Ack, TypeOK, RowInv, Content
  <2>4. CASE content' = [content EXCEPT ![w] = runs[job[w]].blocks] /\ Goto(w, "republish")
             /\ UNCHANGED <<request, job>>
    BY <1>14, <2>2, <2>4 DEF ReadUnavailable, Goto, TypeOK, RowInv
  <2> QED BY <1>14, <2>3, <2>4 DEF ReadUnavailable
<1>15. ASSUME NEW w \in Workers, Republish(w) PROVE TypeOK' /\ RowInv'
  <2>1. job[w] \in Runs /\ runs[job[w]] \in Run
    BY <1>15, JobRow DEF Republish
  <2>2. runs[job[w]].startedAt \in Workers \cup {Null} /\ content[w] \in Content
    BY <2>1 DEF Run, TypeOK
  <2>3. notices' \subseteq Notice /\ failures' \in Nat
    BY <1>15, <2>1, <2>2, CountType DEF Republish, Publish, Notice, Stumble, TypeOK
  <2> QED BY <1>15, <2>3 DEF Republish, Goto, Working, TypeOK, RowInv
<1>16. ASSUME NEW w \in Workers, ReadFindings(w) PROVE TypeOK' /\ RowInv'
  <2>1. PICK summary \in {{}} \cup {{s} : s \in Summaries} :
          content' = [content EXCEPT ![w] = NewFindings \cup summary]
    BY <1>16 DEF ReadFindings
  <2>2. NewFindings \cup summary \in Content
    BY <2>1 DEF NewFindings, Content
  <2> QED BY <1>16, <2>1, <2>2 DEF ReadFindings, Goto, Working, TypeOK, RowInv
<1>17. ASSUME NEW w \in Workers, Complete(w) PROVE TypeOK' /\ RowInv'
  <2> DEFINE notify == content[w] # {} /\ Notify
  <2>1. job[w] \in Runs /\ runs[job[w]] \in Run /\ content[w] \in Content
    BY <1>17, JobRow DEF Complete, TypeOK
  <2>2. [runs[job[w]] EXCEPT !.status = "completed", !.stale = FALSE, !.blocks = content[w], !.notified = ~notify] \in Run
    BY <2>1, NotifyAssumption DEF Run, Status
  <2>3. runs' = [runs EXCEPT ![job[w]] =
          [runs[job[w]] EXCEPT !.status = "completed", !.stale = FALSE, !.blocks = content[w], !.notified = ~notify]]
    BY <1>17 DEF Complete
  <2>4. runs' \in [Runs -> Run \cup {NoRun}] /\ \A q \in Runs : runs[q] # NoRun => runs'[q] # NoRun
    BY <2>1, <2>2, <2>3, QueuedTypes DEF TypeOK
  <2>5. findings' \in [Posts -> {"none", "new", "surfaced"}]
    BY <1>17 DEF Complete, TypeOK
  <2>6. CASE notify
    BY <1>17, <2>4, <2>5, <2>6 DEF Complete, Goto, Working, TypeOK, RowInv
  <2>7. CASE ~notify
    BY <1>17, <2>1, <2>4, <2>5, <2>7 DEF Complete, Ack, TypeOK, RowInv, Content
  <2> QED BY <2>6, <2>7
<1>18. ASSUME NEW w \in Workers, Abandon(w) PROVE TypeOK' /\ RowInv'
  <2>1. job[w] \in Runs /\ runs[job[w]] # NoRun
    BY <1>18 DEF Abandon, TypeOK, RowInv
  <2> QED BY <1>18, <2>1 DEF Abandon, Ack, TypeOK, RowInv, Content
<1>19. ASSUME NEW w \in Workers, NotifyUser(w) PROVE TypeOK' /\ RowInv'
  <2>1. job[w] \in Runs /\ content[w] \in Content
    BY <1>19, JobRow DEF NotifyUser, TypeOK
  <2>2. notices' \subseteq Notice /\ failures' \in Nat
    BY <1>19, <2>1, CountType DEF NotifyUser, Publish, Notice, Stumble, TypeOK
  <2> QED BY <1>19, <2>2 DEF NotifyUser, Goto, Working, TypeOK, RowInv
<1>20. ASSUME NEW w \in Workers, MarkNotified(w) PROVE TypeOK' /\ RowInv'
  <2>1. job[w] \in Runs /\ runs[job[w]] \in Run
    BY <1>20, JobRow DEF MarkNotified
  <2>2. runs' \in [Runs -> Run \cup {NoRun}] /\ \A q \in Runs : runs[q] # NoRun => runs'[q] # NoRun
    <3>1. [runs[job[w]] EXCEPT !.notified = TRUE] \in Run
      BY <2>1 DEF Run
    <3> QED BY <1>20, <2>1, <3>1, QueuedTypes DEF MarkNotified, TypeOK
  <2> QED BY <1>20, <2>1, <2>2 DEF MarkNotified, Ack, TypeOK, RowInv, Content
<1>21. ASSUME NEW w \in Workers, Throw(w) PROVE TypeOK' /\ RowInv'
  BY <1>21 DEF Throw, Stumble, Goto, Working, TypeOK, RowInv
<1>22. ASSUME NEW w \in Workers, Catch(w) PROVE TypeOK' /\ RowInv'
  <2>1. job[w] \in Runs /\ runs[job[w]] \in Run
    BY <1>22, JobRow DEF Catch
  <2>2. runs' \in [Runs -> Run \cup {NoRun}] /\ \A q \in Runs : runs[q] # NoRun => runs'[q] # NoRun
    <3>1. Fail(runs[job[w]]) \in Run
      BY <2>1 DEF Run, Status, Fail
    <3> QED BY <1>22, <2>1, <3>1, QueuedTypes DEF Catch, TypeOK
  <2> QED BY <1>22, <2>2 DEF Catch, Drop, TypeOK, RowInv, Content
<1>23. ASSUME NEW w \in Workers, Crash(w) PROVE TypeOK' /\ RowInv'
  BY <1>23 DEF Crash, Stumble, Drop, TypeOK, RowInv, Content
<1>24. CASE UNCHANGED vars
  BY <1>24 DEF vars, worker, TypeOK, RowInv
<1> QED BY <1>1, <1>2, <1>3, <1>4, <1>5, <1>6, <1>7, <1>8, <1>9, <1>10, <1>11, <1>12, <1>13,
           <1>14, <1>15, <1>16, <1>17, <1>18, <1>19, <1>20, <1>21, <1>22, <1>23, <1>24
    DEF Next, User, Cron, WorkerStep

\* Every variable of InterestRun has its type in every reachable state.
THEOREM TypeCorrect == Spec => []TypeOK
<1>1. Init => BookInv
  BY NotifyAssumption, NameAssumption DEF Init, BookInv, TypeOK, RowInv, Working, NoRun, Content
<1>2. BookInv /\ [Next]_vars => BookInv'
  BY BookStep
<1>3. BookInv => TypeOK
  BY DEF BookInv
<1> QED BY <1>1, <1>2, <1>3, PTL DEF Spec

\* The rows a worker refers to exist, and the types hold.
LEMMA BookCorrect == Spec => []BookInv
<1>1. Init => BookInv
  BY NotifyAssumption, NameAssumption DEF Init, BookInv, TypeOK, RowInv, Working, NoRun, Content
<1>2. BookInv /\ [Next]_vars => BookInv'
  BY BookStep
<1> QED BY <1>1, <1>2, PTL DEF Spec

-----------------------------------------------------------------------------
(* A completed run stays as it is.                                         *)

\* Nothing but notifiedAt of a completed run changes.
Kept ==
  \A q \in Runs : runs[q].status = "completed" =>
    /\ runs'[q].status = "completed" /\ runs'[q].blocks = runs[q].blocks
    /\ runs'[q].startedAt = runs[q].startedAt
    /\ runs[q].notified => runs'[q].notified

\* Every action keeps the completed runs: those that write a run ask for its
\* status or its lease first.
LEMMA KeptStep == BookInv /\ [Next]_vars => Kept
<1> SUFFICES ASSUME TypeOK, RowInv, [Next]_vars PROVE Kept
  BY DEF BookInv
<1> USE DEF Kept
<1>1. ASSUME SetStatus PROVE Kept
  BY <1>1 DEF SetStatus
<1>2. ASSUME NEW r \in Runs, SendCommand(r) PROVE Kept
  <2>1. runs[r].status # "completed"
    BY <1>2 DEF SendCommand, NoRun
  <2>2. \A q \in Runs \ {r} : runs'[q] = runs[q]
    BY <1>2 DEF SendCommand, TypeOK
  <2> QED BY <2>1, <2>2
<1>3. ASSUME NEW r \in Runs, Age(r) PROVE Kept
  <2>1. runs[r] \in Run
    BY <1>3 DEF Age, TypeOK, NoRun
  <2> QED BY <1>3, <2>1 DEF Age, TypeOK, Run
<1>4. ASSUME NEW p \in Posts, Find(p) PROVE Kept
  BY <1>4 DEF Find
<1>5. ASSUME CronStart PROVE Kept
  BY <1>5 DEF CronStart, WithoutStale
<1>6. ASSUME CronInsert PROVE Kept
  <2>1. UNCHANGED runs \/ \E r \in Runs : runs[r] = NoRun /\ runs' = [runs EXCEPT ![r] = Queued(TRUE)]
    BY <1>6 DEF CronInsert
  <2>2. CASE UNCHANGED runs
    BY <2>2
  <2>3. ASSUME NEW r \in Runs, runs[r] = NoRun, runs' = [runs EXCEPT ![r] = Queued(TRUE)]
        PROVE Kept
    <3>1. runs[r].status # "completed"
      BY <2>3 DEF NoRun
    <3>2. \A q \in Runs \ {r} : runs'[q] = runs[q]
      BY <2>3 DEF TypeOK
    <3> QED BY <3>1, <3>2
  <2> QED BY <2>1, <2>2, <2>3
<1>7. ASSUME CronPublish PROVE Kept
  BY <1>7 DEF CronPublish
<1>8. ASSUME NEW w \in Workers, NEW r \in Runs, Receive(w, r) PROVE Kept
  BY <1>8 DEF Receive
<1>9. ASSUME NEW w \in Workers, FailStopped(w) PROVE Kept
  <2>1. job[w] \in Runs /\ runs[job[w]] \in Run
    BY <1>9, JobRow DEF FailStopped
  <2> QED BY <1>9, <2>1 DEF FailStopped, TypeOK, Run
<1>10. ASSUME NEW w \in Workers, Reclaim(w) PROVE Kept
  BY <1>10 DEF Reclaim, WithoutStale
<1>11. ASSUME NEW w \in Workers, Claim(w) PROVE Kept
  <2>1. job[w] \in Runs /\ runs[job[w]] \in Run
    BY <1>11, JobRow DEF Claim
  <2> QED BY <1>11, <2>1 DEF Claim, TypeOK, Run
<1>12. ASSUME NEW w \in Workers, ClaimBusy(w) PROVE Kept
  BY <1>12 DEF ClaimBusy
<1>13. ASSUME NEW w \in Workers, ClaimUnavailable(w) PROVE Kept
  BY <1>13 DEF ClaimUnavailable
<1>14. ASSUME NEW w \in Workers, ReadUnavailable(w) PROVE Kept
  BY <1>14 DEF ReadUnavailable
<1>15. ASSUME NEW w \in Workers, Republish(w) PROVE Kept
  BY <1>15 DEF Republish
<1>16. ASSUME NEW w \in Workers, ReadFindings(w) PROVE Kept
  BY <1>16 DEF ReadFindings
<1>17. ASSUME NEW w \in Workers, Complete(w) PROVE Kept
  <2>1. job[w] \in Runs /\ runs[job[w]] \in Run
    BY <1>17, JobRow DEF Complete
  <2> QED BY <1>17, <2>1 DEF Complete, Leased, TypeOK, Run
<1>18. ASSUME NEW w \in Workers, Abandon(w) PROVE Kept
  BY <1>18 DEF Abandon
<1>19. ASSUME NEW w \in Workers, NotifyUser(w) PROVE Kept
  BY <1>19 DEF NotifyUser
<1>20. ASSUME NEW w \in Workers, MarkNotified(w) PROVE Kept
  <2>1. job[w] \in Runs /\ runs[job[w]] \in Run
    BY <1>20, JobRow DEF MarkNotified
  <2> QED BY <1>20, <2>1 DEF MarkNotified, TypeOK, Run
<1>21. ASSUME NEW w \in Workers, Throw(w) PROVE Kept
  BY <1>21 DEF Throw
<1>22. ASSUME NEW w \in Workers, Catch(w) PROVE Kept
  <2>1. job[w] \in Runs /\ runs[job[w]] \in Run
    BY <1>22, JobRow DEF Catch
  <2> QED BY <1>22, <2>1 DEF Catch, Leased, TypeOK, Run
<1>23. ASSUME NEW w \in Workers, Crash(w) PROVE Kept
  BY <1>23 DEF Crash
<1>24. CASE UNCHANGED vars
  BY <1>24 DEF vars
<1> QED BY <1>1, <1>2, <1>3, <1>4, <1>5, <1>6, <1>7, <1>8, <1>9, <1>10, <1>11, <1>12,
           <1>13, <1>14, <1>15, <1>16, <1>17, <1>18, <1>19, <1>20, <1>21, <1>22, <1>23,
           <1>24
    DEF Next, User, Cron, WorkerStep

\* No late worker, reclaim, redelivery or pause changes a completed run.
THEOREM CompletedForGood == Spec => CompletedIsFinal
<1>1. BookInv /\ [Next]_vars =>
        [\A r \in Runs : runs[r].status = "completed"
           => /\ runs'[r].status = "completed" /\ runs'[r].blocks = runs[r].blocks
              /\ runs[r].notified => runs'[r].notified]_vars
  BY KeptStep DEF Kept
<1> QED BY <1>1, BookCorrect, PTL DEF Spec, CompletedIsFinal

-----------------------------------------------------------------------------
(* The lease.                                                              *)

DeliverInv == LeaseInv /\ DeliveredOnce

\* A step that starts, completes and surfaces nothing.
QuietRuns ==
  \A q \in Runs :
    /\ runs'[q].status = "running" =>
         runs[q].status = "running" /\ runs'[q].startedAt = runs[q].startedAt
    /\ runs'[q].status = "completed" =>
         runs[q].status = "completed" /\ runs'[q].blocks = runs[q].blocks

QuietFindings == \A p \in Posts : findings[p] # "none" => findings'[p] = findings[p]

QuietWorkers ==
  \A v \in Workers : pc'[v] = "complete" =>
    pc[v] = "complete" /\ job'[v] = job[v] /\ content'[v] = content[v]

\* What a row or a worker delivers besides the summary post are posts.
LEMMA FindingsArePosts ==
  ASSUME TypeOK
  PROVE  /\ \A r \in Runs : runs[r].status = "completed" => FindingsIn(runs[r].blocks) \subseteq Posts
         /\ \A w \in Workers : FindingsIn(content[w]) \subseteq Posts
<1>1. \A r \in Runs : runs[r].status = "completed" => runs[r].blocks \in Content
  BY DEF TypeOK, Run, NoRun
<1> QED BY <1>1 DEF TypeOK, FindingsIn, Content

\* A quiet step keeps the lease invariant and what was delivered once.
LEMMA QuietStep ==
  ASSUME TypeOK, DeliverInv, QuietRuns, QuietFindings, QuietWorkers
  PROVE  DeliverInv'
<1>1. \A v \in Workers : pc'[v] = "complete" /\ Leased(v)' => pc[v] = "complete" /\ Leased(v)
  BY DEF QuietWorkers, QuietRuns, Leased, TypeOK
<1>2. LeaseInv'
  <2>1. \A q, r \in Runs : runs'[q].status = "running" /\ runs'[r].status = "running" => q = r
    BY DEF QuietRuns, DeliverInv, LeaseInv
  <2>2. ASSUME NEW r \in Runs, runs'[r].status = "completed", NEW p \in FindingsIn(runs'[r].blocks)
        PROVE findings'[p] = "surfaced"
    <3>1. runs[r].status = "completed" /\ p \in FindingsIn(runs[r].blocks) /\ p \in Posts
      BY <2>2, FindingsArePosts DEF QuietRuns
    <3> QED BY <3>1 DEF QuietFindings, DeliverInv, LeaseInv
  <2>3. ASSUME NEW v \in Workers, pc'[v] = "complete", Leased(v)', NEW p \in FindingsIn(content'[v])
        PROVE findings'[p] = "new"
    <3>1. pc[v] = "complete" /\ Leased(v) /\ content'[v] = content[v]
      BY <1>1, <2>3 DEF QuietWorkers
    <3>2. p \in FindingsIn(content[v]) /\ p \in Posts
      BY <2>3, <3>1, FindingsArePosts
    <3> QED BY <3>1, <3>2 DEF QuietFindings, DeliverInv, LeaseInv
  <2> QED BY <2>1, <2>2, <2>3 DEF LeaseInv, Leased, FindingsIn
<1>3. DeliveredOnce'
  BY DEF QuietRuns, DeliverInv, DeliveredOnce, FindingsIn
<1> QED BY <1>2, <1>3 DEF DeliverInv

\* Every action keeps the lease invariant: a claim excludes other runs, the
\* agent's worker takes only new findings, and a completion surfaces them all
\* while nobody else holds a lease.
LEMMA DeliverStep == BookInv /\ DeliverInv /\ [Next]_vars => DeliverInv'
<1> SUFFICES ASSUME TypeOK, RowInv, DeliverInv, [Next]_vars PROVE DeliverInv'
  BY DEF BookInv
<1>1. ASSUME SetStatus PROVE DeliverInv'
  <2>1. QuietRuns
    BY <1>1 DEF SetStatus, QuietRuns
  <2>2. QuietFindings
    BY <1>1 DEF SetStatus, QuietFindings
  <2>3. QuietWorkers
    BY <1>1 DEF SetStatus, QuietWorkers, worker
  <2> QED BY <2>1, <2>2, <2>3, QuietStep
<1>2. ASSUME NEW r \in Runs, SendCommand(r) PROVE DeliverInv'
  <2>1. QuietRuns
    <3>1. runs' = [runs EXCEPT ![r] = Queued(FALSE)]
      BY <1>2 DEF SendCommand
    <3>2. runs'[r].status = "queued" /\ \A q \in Runs \ {r} : runs'[q] = runs[q]
      BY <3>1 DEF Queued, TypeOK
    <3> QED BY <3>2 DEF QuietRuns
  <2>2. QuietFindings
    BY <1>2 DEF SendCommand, QuietFindings
  <2>3. QuietWorkers
    BY <1>2 DEF SendCommand, QuietWorkers, worker
  <2> QED BY <2>1, <2>2, <2>3, QuietStep
<1>3. ASSUME NEW r \in Runs, Age(r) PROVE DeliverInv'
  <2>1. QuietRuns
    <3>1. runs[r] \in Run
      BY <1>3 DEF Age, TypeOK, NoRun
    <3> QED BY <1>3, <3>1 DEF Age, QuietRuns, TypeOK, Run
  <2>2. QuietFindings
    BY <1>3 DEF Age, QuietFindings
  <2>3. QuietWorkers
    BY <1>3 DEF Age, QuietWorkers, worker
  <2> QED BY <2>1, <2>2, <2>3, QuietStep
<1>4. ASSUME NEW p \in Posts, Find(p) PROVE DeliverInv'
  <2>1. QuietRuns
    BY <1>4 DEF Find, QuietRuns
  <2>2. QuietFindings
    BY <1>4 DEF Find, QuietFindings, TypeOK
  <2>3. QuietWorkers
    BY <1>4 DEF Find, QuietWorkers, worker
  <2> QED BY <2>1, <2>2, <2>3, QuietStep
<1>5. ASSUME CronStart PROVE DeliverInv'
  <2>1. QuietRuns
    BY <1>5, StaleFails DEF CronStart, QuietRuns
  <2>2. QuietFindings
    BY <1>5 DEF CronStart, QuietFindings
  <2>3. QuietWorkers
    BY <1>5 DEF CronStart, QuietWorkers, worker
  <2> QED BY <2>1, <2>2, <2>3, QuietStep
<1>6. ASSUME CronInsert PROVE DeliverInv'
  <2>1. QuietRuns
    <3>1. CASE UNCHANGED runs
      BY <3>1 DEF QuietRuns
    <3>2. ASSUME NEW r \in Runs, runs' = [runs EXCEPT ![r] = Queued(TRUE)]
          PROVE QuietRuns
      <4>1. runs'[r].status = "queued" /\ \A q \in Runs \ {r} : runs'[q] = runs[q]
        BY <3>2 DEF Queued, TypeOK
      <4> QED BY <4>1 DEF QuietRuns
    <3> QED BY <1>6, <3>1, <3>2 DEF CronInsert
  <2>2. QuietFindings
    BY <1>6 DEF CronInsert, QuietFindings
  <2>3. QuietWorkers
    BY <1>6 DEF CronInsert, QuietWorkers, worker
  <2> QED BY <2>1, <2>2, <2>3, QuietStep
<1>7. ASSUME CronPublish PROVE DeliverInv'
  <2>1. QuietRuns
    BY <1>7 DEF CronPublish, QuietRuns
  <2>2. QuietFindings
    BY <1>7 DEF CronPublish, QuietFindings
  <2>3. QuietWorkers
    BY <1>7 DEF CronPublish, QuietWorkers, worker
  <2> QED BY <2>1, <2>2, <2>3, QuietStep
<1>8. ASSUME NEW w \in Workers, NEW r \in Runs, Receive(w, r) PROVE DeliverInv'
  <2>1. QuietRuns
    BY <1>8 DEF Receive, QuietRuns
  <2>2. QuietFindings
    BY <1>8 DEF Receive, QuietFindings
  <2>3. QuietWorkers
    BY <1>8 DEF Receive, QuietWorkers, Goto, TypeOK
  <2> QED BY <2>1, <2>2, <2>3, QuietStep
<1>9. ASSUME NEW w \in Workers, FailStopped(w) PROVE DeliverInv'
  <2>1. QuietRuns
    <3>1. job[w] \in Runs /\ runs[job[w]] \in Run
      BY <1>9, JobRow DEF FailStopped
    <3> QED BY <1>9, <3>1 DEF FailStopped, Fail, QuietRuns, TypeOK, Run
  <2>2. QuietFindings
    BY <1>9 DEF FailStopped, QuietFindings
  <2>3. QuietWorkers
    BY <1>9 DEF FailStopped, QuietWorkers, Ack, TypeOK
  <2> QED BY <2>1, <2>2, <2>3, QuietStep
<1>10. ASSUME NEW w \in Workers, Reclaim(w) PROVE DeliverInv'
  <2>1. QuietRuns
    BY <1>10, StaleFails DEF Reclaim, QuietRuns
  <2>2. QuietFindings
    BY <1>10 DEF Reclaim, QuietFindings
  <2>3. QuietWorkers
    BY <1>10 DEF Reclaim, QuietWorkers, Goto, TypeOK
  <2> QED BY <2>1, <2>2, <2>3, QuietStep
<1>11. ASSUME NEW w \in Workers, Claim(w) PROVE DeliverInv'
  <2>1. job[w] \in Runs /\ runs[job[w]] \in Run
    BY <1>11, JobRow DEF Claim
  <2>2. /\ \A q \in Runs \ {job[w]} : runs'[q] = runs[q] /\ runs[q].status # "running"
        /\ runs'[job[w]].status = "running" /\ runs'[job[w]].startedAt = w
    BY <1>11, <2>1 DEF Claim, Conflict, TypeOK, Run
  <2>3. findings' = findings /\ content' = content /\ job' = job /\ pc' = [pc EXCEPT ![w] = "agent"]
    BY <1>11 DEF Claim, Goto
  <2>4. \A v \in Workers : pc'[v] = "complete" => pc[v] = "complete" /\ ~Leased(v)'
    BY <2>1, <2>2, <2>3 DEF Leased, TypeOK
  <2>5. \A r \in Runs : runs'[r].status = "completed" => r # job[w] /\ runs'[r] = runs[r]
    BY <2>2
  <2>6. LeaseInv'
    <3>1. \A q, r \in Runs : runs'[q].status = "running" /\ runs'[r].status = "running" => q = r
      BY <2>2
    <3>2. \A r \in Runs : runs'[r].status = "completed" =>
            \A p \in FindingsIn(runs'[r].blocks) : findings'[p] = "surfaced"
      BY <2>3, <2>5 DEF DeliverInv, LeaseInv
    <3> QED BY <2>4, <3>1, <3>2 DEF LeaseInv, FindingsIn
  <2>7. DeliveredOnce'
    BY <2>5 DEF DeliverInv, DeliveredOnce, FindingsIn
  <2> QED BY <2>6, <2>7 DEF DeliverInv
<1>12. ASSUME NEW w \in Workers, ClaimBusy(w) PROVE DeliverInv'
  <2>1. QuietRuns
    BY <1>12 DEF ClaimBusy, QuietRuns
  <2>2. QuietFindings
    BY <1>12 DEF ClaimBusy, QuietFindings
  <2>3. QuietWorkers
    BY <1>12 DEF ClaimBusy, QuietWorkers, Drop, TypeOK
  <2> QED BY <2>1, <2>2, <2>3, QuietStep
<1>13. ASSUME NEW w \in Workers, ClaimUnavailable(w) PROVE DeliverInv'
  <2>1. QuietRuns
    BY <1>13 DEF ClaimUnavailable, QuietRuns
  <2>2. QuietFindings
    BY <1>13 DEF ClaimUnavailable, QuietFindings
  <2>3. QuietWorkers
    BY <1>13 DEF ClaimUnavailable, QuietWorkers, Goto, TypeOK
  <2> QED BY <2>1, <2>2, <2>3, QuietStep
<1>14. ASSUME NEW w \in Workers, ReadUnavailable(w) PROVE DeliverInv'
  <2>1. QuietRuns
    BY <1>14 DEF ReadUnavailable, QuietRuns
  <2>2. QuietFindings
    BY <1>14 DEF ReadUnavailable, QuietFindings
  <2>3. QuietWorkers
    BY <1>14 DEF ReadUnavailable, QuietWorkers, Ack, Goto, TypeOK
  <2> QED BY <2>1, <2>2, <2>3, QuietStep
<1>15. ASSUME NEW w \in Workers, Republish(w) PROVE DeliverInv'
  <2>1. QuietRuns
    BY <1>15 DEF Republish, QuietRuns
  <2>2. QuietFindings
    BY <1>15 DEF Republish, QuietFindings
  <2>3. QuietWorkers
    BY <1>15 DEF Republish, QuietWorkers, Goto, TypeOK
  <2> QED BY <2>1, <2>2, <2>3, QuietStep
<1>16. ASSUME NEW w \in Workers, ReadFindings(w) PROVE DeliverInv'
  <2>1. PICK summary \in {{}} \cup {{s} : s \in Summaries} :
          content' = [content EXCEPT ![w] = NewFindings \cup summary]
    BY <1>16 DEF ReadFindings
  <2>2. findings' = findings /\ runs' = runs /\ job' = job /\ pc' = [pc EXCEPT ![w] = "complete"]
    BY <1>16 DEF ReadFindings, Goto
  <2>3. FindingsIn(content'[w]) \subseteq NewFindings
    BY <2>1 DEF FindingsIn, TypeOK
  <2>4. \A v \in Workers \ {w} : content'[v] = content[v] /\ pc'[v] = pc[v]
    BY <2>1, <2>2 DEF TypeOK
  <2>5. ASSUME NEW v \in Workers, pc'[v] = "complete", Leased(v)'
        PROVE \A p \in FindingsIn(content'[v]) : findings'[p] = "new"
    <3>1. CASE v = w
      BY <2>2, <2>3, <3>1 DEF NewFindings
    <3>2. CASE v # w
      <4>1. pc[v] = "complete" /\ Leased(v) /\ content'[v] = content[v]
        BY <2>2, <2>4, <2>5, <3>2 DEF Leased
      <4> QED BY <2>2, <4>1 DEF DeliverInv, LeaseInv
    <3> QED BY <3>1, <3>2
  <2> QED BY <2>2, <2>5 DEF DeliverInv, LeaseInv, DeliveredOnce, Leased, FindingsIn
<1>17. ASSUME NEW w \in Workers, Complete(w) PROVE DeliverInv'
  <2>1. job[w] \in Runs /\ runs[job[w]] \in Run /\ pc[w] = "complete" /\ Leased(w)
    BY <1>17, JobRow DEF Complete
  <2>2. /\ \A q \in Runs \ {job[w]} : runs'[q] = runs[q] /\ runs[q].status # "running"
        /\ runs'[job[w]].status = "completed" /\ runs'[job[w]].blocks = content[w]
    BY <1>17, <2>1 DEF Complete, TypeOK, Run, Leased, DeliverInv, LeaseInv
  <2>3. \A p \in FindingsIn(content[w]) : findings[p] = "new"
    BY <2>1 DEF DeliverInv, LeaseInv
  <2>4. \A p \in Posts : findings[p] \in {"new", "surfaced"} => findings'[p] = "surfaced"
    BY <1>17 DEF Complete, TypeOK
  <2>5. \A v \in Workers : ~Leased(v)'
    <3>1. \A q \in Runs : runs'[q].status # "running"
      BY <2>2
    <3>2. \A v \in Workers : job'[v] \in Runs \cup {Null}
      BY <1>17, <2>1 DEF Complete, Ack, TypeOK
    <3> QED BY <3>1, <3>2 DEF Leased
  <2>6. ASSUME NEW r \in Runs, runs'[r].status = "completed", NEW p \in FindingsIn(runs'[r].blocks)
        PROVE findings'[p] = "surfaced"
    <3>1. CASE r = job[w]
      <4>1. p \in FindingsIn(content[w]) /\ p \in Posts
        BY <2>2, <2>6, <3>1, FindingsArePosts
      <4> QED BY <2>3, <2>4, <4>1
    <3>2. CASE r # job[w]
      <4>1. runs[r].status = "completed" /\ p \in FindingsIn(runs[r].blocks) /\ p \in Posts
        BY <2>2, <2>6, <3>2, FindingsArePosts
      <4> QED BY <2>4, <4>1 DEF DeliverInv, LeaseInv
    <3> QED BY <3>1, <3>2
  <2>7. LeaseInv'
    <3>1. \A q, r \in Runs : runs'[q].status = "running" /\ runs'[r].status = "running" => q = r
      BY <2>2
    <3> QED BY <2>5, <2>6, <3>1 DEF LeaseInv, FindingsIn
  <2>8. \A r \in Runs \ {job[w]} : runs'[r].status = "completed" =>
          FindingsIn(runs'[r].blocks) \cap FindingsIn(content[w]) = {}
    <3>1. \A r \in Runs : runs[r].status = "completed" =>
            \A p \in FindingsIn(runs[r].blocks) : findings[p] = "surfaced"
      BY DEF DeliverInv, LeaseInv
    <3> QED BY <2>2, <2>3, <3>1
  <2>9. DeliveredOnce'
    <3> SUFFICES ASSUME NEW q \in Runs, NEW r \in Runs, q # r,
                        runs'[q].status = "completed", runs'[r].status = "completed"
                 PROVE FindingsIn(runs'[q].blocks) \cap FindingsIn(runs'[r].blocks) = {}
      BY DEF DeliveredOnce, FindingsIn
    <3>1. CASE q # job[w] /\ r # job[w]
      BY <2>2, <3>1 DEF DeliverInv, DeliveredOnce
    <3>2. CASE q = job[w] \/ r = job[w]
      BY <2>2, <2>8, <3>2
    <3> QED BY <3>1, <3>2
  <2> QED BY <2>7, <2>9 DEF DeliverInv
<1>18. ASSUME NEW w \in Workers, Abandon(w) PROVE DeliverInv'
  <2>1. QuietRuns
    BY <1>18 DEF Abandon, QuietRuns
  <2>2. QuietFindings
    BY <1>18 DEF Abandon, QuietFindings
  <2>3. QuietWorkers
    BY <1>18 DEF Abandon, QuietWorkers, Ack, TypeOK
  <2> QED BY <2>1, <2>2, <2>3, QuietStep
<1>19. ASSUME NEW w \in Workers, NotifyUser(w) PROVE DeliverInv'
  <2>1. QuietRuns
    BY <1>19 DEF NotifyUser, QuietRuns
  <2>2. QuietFindings
    BY <1>19 DEF NotifyUser, QuietFindings
  <2>3. QuietWorkers
    BY <1>19 DEF NotifyUser, QuietWorkers, Goto, TypeOK
  <2> QED BY <2>1, <2>2, <2>3, QuietStep
<1>20. ASSUME NEW w \in Workers, MarkNotified(w) PROVE DeliverInv'
  <2>1. QuietRuns
    <3>1. job[w] \in Runs /\ runs[job[w]] \in Run
      BY <1>20, JobRow DEF MarkNotified
    <3> QED BY <1>20, <3>1 DEF MarkNotified, QuietRuns, TypeOK, Run
  <2>2. QuietFindings
    BY <1>20 DEF MarkNotified, QuietFindings
  <2>3. QuietWorkers
    BY <1>20 DEF MarkNotified, QuietWorkers, Ack, TypeOK
  <2> QED BY <2>1, <2>2, <2>3, QuietStep
<1>21. ASSUME NEW w \in Workers, Throw(w) PROVE DeliverInv'
  <2>1. QuietRuns
    BY <1>21 DEF Throw, QuietRuns
  <2>2. QuietFindings
    BY <1>21 DEF Throw, QuietFindings
  <2>3. QuietWorkers
    BY <1>21 DEF Throw, QuietWorkers, Goto, TypeOK
  <2> QED BY <2>1, <2>2, <2>3, QuietStep
<1>22. ASSUME NEW w \in Workers, Catch(w) PROVE DeliverInv'
  <2>1. QuietRuns
    <3>1. job[w] \in Runs /\ runs[job[w]] \in Run
      BY <1>22, JobRow DEF Catch
    <3> QED BY <1>22, <3>1 DEF Catch, Fail, QuietRuns, TypeOK, Run
  <2>2. QuietFindings
    BY <1>22 DEF Catch, QuietFindings
  <2>3. QuietWorkers
    BY <1>22 DEF Catch, QuietWorkers, Drop, TypeOK
  <2> QED BY <2>1, <2>2, <2>3, QuietStep
<1>23. ASSUME NEW w \in Workers, Crash(w) PROVE DeliverInv'
  <2>1. QuietRuns
    BY <1>23 DEF Crash, QuietRuns
  <2>2. QuietFindings
    BY <1>23 DEF Crash, QuietFindings
  <2>3. QuietWorkers
    BY <1>23 DEF Crash, QuietWorkers, Drop, TypeOK
  <2> QED BY <2>1, <2>2, <2>3, QuietStep
<1>24. CASE UNCHANGED vars
  BY <1>24, QuietStep DEF vars, worker, QuietRuns, QuietFindings, QuietWorkers
<1> QED BY <1>1, <1>2, <1>3, <1>4, <1>5, <1>6, <1>7, <1>8, <1>9, <1>10, <1>11, <1>12,
           <1>13, <1>14, <1>15, <1>16, <1>17, <1>18, <1>19, <1>20, <1>21, <1>22, <1>23,
           <1>24
    DEF Next, User, Cron, WorkerStep

\* A finding is delivered by at most one completed run.
THEOREM DeliveredAtMostOnce == Spec => []DeliveredOnce
<1>1. Init => DeliverInv
  BY DEF Init, DeliverInv, LeaseInv, DeliveredOnce, NoRun
<1>2. BookInv /\ DeliverInv /\ [Next]_vars => DeliverInv'
  BY DeliverStep
<1>3. DeliverInv => DeliveredOnce
  BY DEF DeliverInv
<1> QED BY <1>1, <1>2, <1>3, BookCorrect, PTL DEF Spec

-----------------------------------------------------------------------------
(* What is announced.                                                      *)

NoticeInv == TellInv /\ NoticeTellsRun

\* A step that starts no announcement.
Silent ==
  \A v \in Workers : pc'[v] \in {"notify", "republish"} =>
    pc'[v] = pc[v] /\ job'[v] = job[v] /\ content'[v] = content[v]

\* A completed run is kept, so a silent step keeps what is said of it.
LEMMA TellStep ==
  ASSUME TypeOK, Kept, NoticeInv, Silent
  PROVE  TellInv'
BY DEF TypeOK, Kept, NoticeInv, TellInv, Silent

\* The notices that were published still tell what their runs hold.
LEMMA NoticeStep ==
  ASSUME TypeOK, Kept, NoticeInv, notices' = notices
  PROVE  NoticeTellsRun'
BY DEF TypeOK, Notice, Kept, NoticeInv, NoticeTellsRun, FindingsIn

\* A worker that announces its run adds a notice that tells what it holds.
LEMMA PublishStep ==
  ASSUME TypeOK, NoticeInv, NEW w \in Workers, pc[w] \in {"notify", "republish"},
         NEW runAt, runAt = runs[job[w]].startedAt, Publish(w, runAt), runs' = runs
  PROVE  NoticeTellsRun'
<1>1. /\ runs[job[w]].status = "completed" /\ content[w] = runs[job[w]].blocks
      /\ content[w] # {} /\ job[w] \in Runs
  BY DEF NoticeInv, TellInv, TypeOK
<1>2. CASE notices' = notices
  BY <1>2 DEF NoticeInv, NoticeTellsRun, FindingsIn
<1>3. CASE notices' = notices \cup
             {[run |-> job[w], runAt |-> runAt, count |-> Cardinality(FindingsIn(content[w]))]}
  <2> DEFINE new == [run |-> job[w], runAt |-> runAt, count |-> Cardinality(FindingsIn(content[w]))]
  <2>1. new.run = job[w] /\ new.runAt = runs[job[w]].startedAt
        /\ new.count = Cardinality(FindingsIn(content[w]))
    OBVIOUS
  <2>2. new.count = Cardinality(FindingsIn(runs[job[w]].blocks))
    BY <1>1, <2>1
  <2> HIDE DEF new
  <2>3. notices' = notices \cup {new}
    BY <1>3 DEF new
  <2> QED BY <1>1, <2>1, <2>2, <2>3 DEF NoticeInv, NoticeTellsRun, FindingsIn
<1> QED BY <1>2, <1>3 DEF Publish

\* Every action keeps both.
LEMMA AnnounceStep == BookInv /\ NoticeInv /\ [Next]_vars => NoticeInv'
<1> SUFFICES ASSUME TypeOK, RowInv, NoticeInv, [Next]_vars PROVE NoticeInv'
  BY DEF BookInv
<1>0. Kept
  BY KeptStep DEF BookInv
<1>1. ASSUME SetStatus PROVE NoticeInv'
  <2>1. NoticeTellsRun'
    BY <1>1, <1>0, NoticeStep DEF SetStatus
  <2>2. Silent
    BY <1>1 DEF SetStatus, Silent, worker
  <2> QED BY <1>0, <2>1, <2>2, TellStep DEF NoticeInv
<1>2. ASSUME NEW r \in Runs, SendCommand(r) PROVE NoticeInv'
  <2>1. NoticeTellsRun'
    BY <1>2, <1>0, NoticeStep DEF SendCommand
  <2>2. Silent
    BY <1>2 DEF SendCommand, Silent, worker
  <2> QED BY <1>0, <2>1, <2>2, TellStep DEF NoticeInv
<1>3. ASSUME NEW r \in Runs, Age(r) PROVE NoticeInv'
  <2>1. NoticeTellsRun'
    BY <1>3, <1>0, NoticeStep DEF Age
  <2>2. Silent
    BY <1>3 DEF Age, Silent, worker
  <2> QED BY <1>0, <2>1, <2>2, TellStep DEF NoticeInv
<1>4. ASSUME NEW p \in Posts, Find(p) PROVE NoticeInv'
  <2>1. NoticeTellsRun'
    BY <1>4, <1>0, NoticeStep DEF Find
  <2>2. Silent
    BY <1>4 DEF Find, Silent, worker
  <2> QED BY <1>0, <2>1, <2>2, TellStep DEF NoticeInv
<1>5. ASSUME CronStart PROVE NoticeInv'
  <2>1. NoticeTellsRun'
    BY <1>5, <1>0, NoticeStep DEF CronStart
  <2>2. Silent
    BY <1>5 DEF CronStart, Silent, worker
  <2> QED BY <1>0, <2>1, <2>2, TellStep DEF NoticeInv
<1>6. ASSUME CronInsert PROVE NoticeInv'
  <2>1. NoticeTellsRun'
    BY <1>6, <1>0, NoticeStep DEF CronInsert
  <2>2. Silent
    BY <1>6 DEF CronInsert, Silent, worker
  <2> QED BY <1>0, <2>1, <2>2, TellStep DEF NoticeInv
<1>7. ASSUME CronPublish PROVE NoticeInv'
  <2>1. NoticeTellsRun'
    BY <1>7, <1>0, NoticeStep DEF CronPublish
  <2>2. Silent
    BY <1>7 DEF CronPublish, Silent, worker
  <2> QED BY <1>0, <2>1, <2>2, TellStep DEF NoticeInv
<1>8. ASSUME NEW w \in Workers, NEW r \in Runs, Receive(w, r) PROVE NoticeInv'
  <2>1. NoticeTellsRun'
    BY <1>8, <1>0, NoticeStep DEF Receive
  <2>2. Silent
    BY <1>8 DEF Receive, Silent, Goto, TypeOK
  <2> QED BY <1>0, <2>1, <2>2, TellStep DEF NoticeInv
<1>9. ASSUME NEW w \in Workers, FailStopped(w) PROVE NoticeInv'
  <2>1. NoticeTellsRun'
    BY <1>9, <1>0, NoticeStep DEF FailStopped
  <2>2. Silent
    BY <1>9 DEF FailStopped, Silent, Ack, TypeOK
  <2> QED BY <1>0, <2>1, <2>2, TellStep DEF NoticeInv
<1>10. ASSUME NEW w \in Workers, Reclaim(w) PROVE NoticeInv'
  <2>1. NoticeTellsRun'
    BY <1>10, <1>0, NoticeStep DEF Reclaim
  <2>2. Silent
    BY <1>10 DEF Reclaim, Silent, Goto, TypeOK
  <2> QED BY <1>0, <2>1, <2>2, TellStep DEF NoticeInv
<1>11. ASSUME NEW w \in Workers, Claim(w) PROVE NoticeInv'
  <2>1. NoticeTellsRun'
    BY <1>11, <1>0, NoticeStep DEF Claim
  <2>2. Silent
    BY <1>11 DEF Claim, Silent, Goto, TypeOK
  <2> QED BY <1>0, <2>1, <2>2, TellStep DEF NoticeInv
<1>12. ASSUME NEW w \in Workers, ClaimBusy(w) PROVE NoticeInv'
  <2>1. NoticeTellsRun'
    BY <1>12, <1>0, NoticeStep DEF ClaimBusy
  <2>2. Silent
    BY <1>12 DEF ClaimBusy, Silent, Drop, TypeOK
  <2> QED BY <1>0, <2>1, <2>2, TellStep DEF NoticeInv
<1>13. ASSUME NEW w \in Workers, ClaimUnavailable(w) PROVE NoticeInv'
  <2>1. NoticeTellsRun'
    BY <1>13, <1>0, NoticeStep DEF ClaimUnavailable
  <2>2. Silent
    BY <1>13 DEF ClaimUnavailable, Silent, Goto, TypeOK
  <2> QED BY <1>0, <2>1, <2>2, TellStep DEF NoticeInv
<1>14. ASSUME NEW w \in Workers, ReadUnavailable(w) PROVE NoticeInv'
  <2>1. NoticeTellsRun'
    BY <1>14, <1>0, NoticeStep DEF ReadUnavailable
  <2>2. CASE Ack(w)
    <3>1. Silent
      BY <1>14, <2>2 DEF ReadUnavailable, Ack, Silent, TypeOK
    <3> QED BY <1>0, <2>1, <3>1, TellStep DEF NoticeInv
  <2>3. CASE ~Ack(w)
    <3>1. /\ runs[job[w]].status = "completed" /\ runs[job[w]].blocks # {}
          /\ content' = [content EXCEPT ![w] = runs[job[w]].blocks]
          /\ pc' = [pc EXCEPT ![w] = "republish"] /\ job' = job /\ runs' = runs
      BY <1>14, <2>3 DEF ReadUnavailable, Goto
    <3>2. TellInv'
      BY <3>1 DEF NoticeInv, TellInv, TypeOK
    <3> QED BY <2>1, <3>2 DEF NoticeInv
  <2> QED BY <2>2, <2>3
<1>15. ASSUME NEW w \in Workers, Republish(w) PROVE NoticeInv'
  <2>2. NoticeTellsRun'
    BY <1>15, PublishStep DEF Republish
  <2>3. TellInv'
    BY <1>15, <1>0, TellStep DEF Republish, Silent, Goto, TypeOK
  <2> QED BY <2>2, <2>3 DEF NoticeInv
<1>16. ASSUME NEW w \in Workers, ReadFindings(w) PROVE NoticeInv'
  <2>1. NoticeTellsRun'
    BY <1>16, <1>0, NoticeStep DEF ReadFindings
  <2>2. Silent
    BY <1>16 DEF ReadFindings, Silent, Goto, TypeOK
  <2> QED BY <1>0, <2>1, <2>2, TellStep DEF NoticeInv
<1>17. ASSUME NEW w \in Workers, Complete(w) PROVE NoticeInv'
  <2>1. NoticeTellsRun'
    BY <1>17, <1>0, NoticeStep DEF Complete
  <2>2. job[w] \in Runs /\ runs[job[w]] \in Run /\ runs[job[w]].startedAt = w
    BY <1>17, JobRow DEF Complete, Leased
  <2>3. /\ runs'[job[w]].status = "completed" /\ runs'[job[w]].blocks = content[w]
        /\ runs'[job[w]].startedAt = w
    BY <1>17, <2>2 DEF Complete, TypeOK, Run
  <2>4. CASE Ack(w)
    <3>1. Silent
      BY <1>17, <2>4 DEF Complete, Ack, Silent, TypeOK
    <3> QED BY <1>0, <2>1, <3>1, TellStep DEF NoticeInv
  <2>5. CASE ~Ack(w)
    <3>1. content[w] # {} /\ pc' = [pc EXCEPT ![w] = "notify"] /\ job' = job /\ content' = content
      BY <1>17, <2>5 DEF Complete, Goto
    <3>2. ASSUME NEW v \in Workers, pc'[v] \in {"notify", "republish"}
          PROVE /\ runs'[job'[v]].status = "completed"
                /\ content'[v] = runs'[job'[v]].blocks /\ content'[v] # {}
                /\ pc'[v] = "notify" => runs'[job'[v]].startedAt = v
      <4>1. CASE v = w
        BY <2>3, <3>1, <4>1
      <4>2. CASE v # w
        <5>1. pc[v] = pc'[v] /\ job[v] \in Runs
          BY <3>1, <3>2, <4>2 DEF TypeOK
        <5> QED BY <1>0, <3>1, <3>2, <5>1 DEF Kept, NoticeInv, TellInv
      <4> QED BY <4>1, <4>2
    <3> QED BY <2>1, <3>2 DEF NoticeInv, TellInv
  <2> QED BY <2>4, <2>5
<1>18. ASSUME NEW w \in Workers, Abandon(w) PROVE NoticeInv'
  <2>1. NoticeTellsRun'
    BY <1>18, <1>0, NoticeStep DEF Abandon
  <2>2. Silent
    BY <1>18 DEF Abandon, Silent, Ack, TypeOK
  <2> QED BY <1>0, <2>1, <2>2, TellStep DEF NoticeInv
<1>19. ASSUME NEW w \in Workers, NotifyUser(w) PROVE NoticeInv'
  <2>1. runs[job[w]].startedAt = w
    BY <1>19 DEF NotifyUser, NoticeInv, TellInv
  <2>2. NoticeTellsRun'
    BY <1>19, <2>1, PublishStep DEF NotifyUser
  <2>3. TellInv'
    BY <1>19, <1>0, TellStep DEF NotifyUser, Silent, Goto, TypeOK
  <2> QED BY <2>2, <2>3 DEF NoticeInv
<1>20. ASSUME NEW w \in Workers, MarkNotified(w) PROVE NoticeInv'
  <2>1. NoticeTellsRun'
    BY <1>20, <1>0, NoticeStep DEF MarkNotified
  <2>2. Silent
    BY <1>20 DEF MarkNotified, Silent, Ack, TypeOK
  <2> QED BY <1>0, <2>1, <2>2, TellStep DEF NoticeInv
<1>21. ASSUME NEW w \in Workers, Throw(w) PROVE NoticeInv'
  <2>1. NoticeTellsRun'
    BY <1>21, <1>0, NoticeStep DEF Throw
  <2>2. Silent
    BY <1>21 DEF Throw, Silent, Goto, TypeOK
  <2> QED BY <1>0, <2>1, <2>2, TellStep DEF NoticeInv
<1>22. ASSUME NEW w \in Workers, Catch(w) PROVE NoticeInv'
  <2>1. NoticeTellsRun'
    BY <1>22, <1>0, NoticeStep DEF Catch
  <2>2. Silent
    BY <1>22 DEF Catch, Silent, Drop, TypeOK
  <2> QED BY <1>0, <2>1, <2>2, TellStep DEF NoticeInv
<1>23. ASSUME NEW w \in Workers, Crash(w) PROVE NoticeInv'
  <2>1. NoticeTellsRun'
    BY <1>23, <1>0, NoticeStep DEF Crash
  <2>2. Silent
    BY <1>23 DEF Crash, Silent, Drop, TypeOK
  <2> QED BY <1>0, <2>1, <2>2, TellStep DEF NoticeInv
<1>24. CASE UNCHANGED vars
  <2>1. Silent /\ notices' = notices
    BY <1>24 DEF vars, worker, Silent
  <2> QED BY <1>0, <2>1, TellStep, NoticeStep DEF NoticeInv
<1> QED BY <1>1, <1>2, <1>3, <1>4, <1>5, <1>6, <1>7, <1>8, <1>9, <1>10, <1>11, <1>12,
           <1>13, <1>14, <1>15, <1>16, <1>17, <1>18, <1>19, <1>20, <1>21, <1>22, <1>23,
           <1>24
    DEF Next, User, Cron, WorkerStep

\* A notification tells a completed run, under its own start time and count.
THEOREM NoticesTellTheRun == Spec => []NoticeTellsRun
<1>1. Init => NoticeInv
  BY DEF Init, NoticeInv, TellInv, NoticeTellsRun
<1>2. BookInv /\ NoticeInv /\ [Next]_vars => NoticeInv'
  BY AnnounceStep
<1>3. NoticeInv => NoticeTellsRun
  BY DEF NoticeInv
<1> QED BY <1>1, <1>2, <1>3, BookCorrect, PTL DEF Spec

-----------------------------------------------------------------------------
(* WorkerJobs.  A batch ends after its jobs and with the status they       *)
(* imply, as long as no two workers had one job of the batch at once.      *)

Places == {"idle", "start", "run", "count", "tally", "close"}
AllEnded(b) == \A j \in Children(b) : jobStatus[j] \in Ended
SomeFailed(b) == \E j \in Children(b) : jobStatus[j] = "FAILED"

Types ==
  /\ size \in [Batches -> BatchSizes \cup {None}]
  /\ status \in [Batches -> {"none", "RUNNING"} \cup Ended]
  /\ jobStatus \in [Jobs -> {"none", "PENDING", "RUNNING"} \cup Ended]
  /\ messages \subseteq Jobs
  /\ step \in [Executors -> Places]
  /\ DOMAIN work = Executors
  /\ \A b \in Batches : size[b] = None => status[b] = "none"
  /\ \A j \in Jobs : jobStatus[j] # "none" => size[BatchOf(j)] # None /\ j \in Children(BatchOf(j))

\* Where a worker is tells the status of its job and what it has counted.
At(w) ==
  LET j == work[w].job
      b == BatchOf(j)
  IN /\ j \in Jobs /\ jobStatus[j] # "none"
     /\ b \notin twice =>
          /\ step[w] = "start" => jobStatus[j] = "PENDING"
          /\ step[w] = "run" => jobStatus[j] = "RUNNING"
          /\ step[w] \in {"count", "tally", "close"} => jobStatus[j] \in Ended
          /\ step[w] \in {"tally", "close"} => AllEnded(b)
          /\ step[w] = "close" => (work[w].failed <=> SomeFailed(b))

Settled(b) ==
  b \notin twice /\ status[b] \in Ended =>
    AllEnded(b) /\ (status[b] = "FAILED" <=> SomeFailed(b))

\* Two workers that share a job have put its batch into twice.
Apart(v, w) ==
  step[v] # "idle" /\ step[w] # "idle" /\ v # w /\ work[v].job = work[w].job =>
    BatchOf(work[v].job) \in twice

Inv ==
  /\ Types
  /\ \A w \in Executors : step[w] # "idle" => At(w)
  /\ \A b \in Batches : Settled(b)
  /\ \A v, w \in Executors : Apart(v, w)

-----------------------------------------------------------------------------
LEMMA JobFacts ==
  /\ \A j \in Jobs : BatchOf(j) \in Batches
  /\ \A b \in Batches, n \in BatchSizes : n # None /\ {<<b, i>> : i \in 1..n} \subseteq Jobs
  /\ None \notin BatchSizes
<1>1. MaxSize \in BatchSizes /\ \A m \in BatchSizes : m <= MaxSize
  BY SizesAssumption DEF MaxSize
<1>2. \A n \in BatchSizes : n \in Nat /\ n <= MaxSize /\ \A i \in 1..n : i \in 1..MaxSize
  <2>1. MaxSize \in Nat /\ \A n \in BatchSizes : n \in Nat BY <1>1, SizesAssumption
  <2> QED BY <1>1, <2>1
<1>3. \A b \in Batches, n \in BatchSizes : {<<b, i>> : i \in 1..n} \subseteq Jobs
  BY <1>2 DEF Jobs
<1>4. \A n \in BatchSizes : n # None BY <1>2 DEF None
<1>5. \A j \in Jobs : BatchOf(j) \in Batches BY DEF Jobs, BatchOf
<1> QED BY <1>3, <1>4, <1>5

LEMMA ChildFacts ==
  ASSUME Types, NEW b \in Batches, size[b] # None
  PROVE  Children(b) \subseteq Jobs /\ \A j \in Children(b) : BatchOf(j) = b
BY JobFacts DEF Types, Children, BatchOf

LEMMA InitInv == BatchInit => Inv
BY JobFacts DEF BatchInit, Inv, Types, At, Settled, Apart, Places, Ended, NoWork

-----------------------------------------------------------------------------
\* A worker gives its job a new status.  Unless its batch is in twice the job had
\* not ended, so that nothing has been concluded from it, and no other worker has it.
LEMMA JobStep ==
  ASSUME Inv, NEW w \in Executors, NEW s \in {"RUNNING"} \cup Ended,
         step[w] = "start" \/ step[w] = "run",
         SetJob(work[w].job, s), GoOn(w, IF s = "RUNNING" THEN "run" ELSE "count"),
         UNCHANGED <<size, status, messages, work, twice>>
  PROVE  Inv'
<1> DEFINE k == work[w].job
<1>1. At(w) /\ Types BY DEF Inv
<1>2. k \in Jobs /\ jobStatus[k] # "none" /\ BatchOf(k) \in Batches BY <1>1, JobFacts DEF At
<1>3. BatchOf(k) \notin twice => jobStatus[k] \notin Ended BY <1>1 DEF At, Ended
<1>4. \A j \in Jobs : jobStatus'[j] = IF j = k THEN s ELSE jobStatus[j] BY <1>1, <1>2 DEF Types, SetJob
<1>5. s # "none" /\ step' = [step EXCEPT ![w] = IF s = "RUNNING" THEN "run" ELSE "count"]
  BY DEF Ended, GoOn
<1>6. Types' BY <1>1, <1>2, <1>4, <1>5 DEF Types, SetJob, Places, Children, BatchOf, Ended
<1>7. k \in Children(BatchOf(k)) /\ size[BatchOf(k)] # None BY <1>1, <1>2 DEF Types
<1>8. ASSUME NEW b \in Batches, b \notin twice, size[b] # None, AllEnded(b)
      PROVE  AllEnded(b)' /\ (SomeFailed(b)' <=> SomeFailed(b))
  <2>1. b # BatchOf(k) BY <1>8, <1>3, <1>7 DEF AllEnded
  <2>2. \A j \in Children(b) : j \in Jobs /\ j # k BY <2>1, <1>1, <1>8, ChildFacts
  <2>3. Children(b)' = Children(b) BY DEF Children
  <2> QED BY <1>8, <2>2, <2>3, <1>4 DEF AllEnded, SomeFailed
<1>9. \A b \in Batches : Settled(b)'
  <2> SUFFICES ASSUME NEW b \in Batches PROVE Settled(b)' OBVIOUS
  <2>1. Settled(b) BY DEF Inv
  <2>2. status[b] \in Ended => size[b] # None BY <1>1 DEF Types, Ended
  <2> QED BY <1>8, <2>1, <2>2 DEF Settled
<1>10. ASSUME NEW v \in Executors, step'[v] # "idle" PROVE At(v)'
  <2>1. CASE v = w
    <3>1. step'[w] = IF s = "RUNNING" THEN "run" ELSE "count" BY <1>1, <1>5 DEF Types
    <3>2. work'[w].job = k /\ jobStatus'[k] = s BY <1>2, <1>4
    <3> QED BY <2>1, <3>1, <3>2, <1>2, <1>5 DEF At, Ended
  <2>2. CASE v # w
    <3>1. step'[v] = step[v] /\ At(v) BY <2>2, <1>1, <1>5, <1>10 DEF Types, Inv
    <3>2. Apart(v, w) BY DEF Inv
    <3>3. work[v].job \in Jobs /\ BatchOf(work[v].job) \in Batches /\ jobStatus[work[v].job] # "none"
      BY <3>1, JobFacts DEF At
    <3>4. size[BatchOf(work[v].job)] # None BY <3>3, <1>1 DEF Types
    <3>5. BatchOf(work[v].job) \notin twice => work[v].job # k
      BY <3>1, <3>2, <2>2, <1>10 DEF Apart
    <3>6. jobStatus'[work[v].job] # "none" /\ (BatchOf(work[v].job) \notin twice => jobStatus'[work[v].job] = jobStatus[work[v].job])
      BY <3>3, <3>5, <1>4, <1>5
    <3> QED BY <3>1, <3>3, <3>4, <3>6, <1>8 DEF At
  <2> QED BY <2>1, <2>2
<1>11. \A u, v \in Executors : Apart(u, v)'
  <2>1. \A u \in Executors : step'[u] # "idle" => step[u] # "idle" BY <1>1, <1>5 DEF Types
  <2> QED BY <2>1 DEF Inv, Apart
<1> QED BY <1>6, <1>9, <1>10, <1>11 DEF Inv

\* startBatch stores a batch no worker and no job belongs to yet.
LEMMA StartStep ==
  ASSUME Inv, NEW b \in Batches, NEW n \in BatchSizes, startBatch(b, n)
  PROVE  Inv'
<1>1. Types /\ size[b] = None /\ n # None BY JobFacts DEF Inv, startBatch
<1>2. \A j \in Jobs : BatchOf(j) = b => jobStatus[j] = "none" BY <1>1 DEF Types
<1>3. \A c \in Batches : c # b => size'[c] = size[c] /\ status'[c] = status[c]
                                  /\ Children(c)' = Children(c)
  BY <1>1 DEF startBatch, Types, Children
<1>4. size'[b] = n /\ status'[b] = "RUNNING" BY <1>1 DEF startBatch, Types
<1>5. Children(b)' = {<<b, i>> : i \in 1..n} /\ Children(b)' \subseteq Jobs
  BY <1>4, JobFacts DEF Children
<1>6. \A j \in Jobs : jobStatus'[j] = IF j \in Children(b)' THEN "PENDING" ELSE jobStatus[j]
  <2>1. \A j \in Jobs : j \in Children(b)' <=> BatchOf(j) = b /\ j[2] <= n
    BY <1>5, SizesAssumption DEF Jobs, BatchOf
  <2> QED BY <2>1 DEF startBatch
<1>7. \A j \in Children(b)' : BatchOf(j) = b BY <1>5 DEF BatchOf
<1>8. \A c \in Batches, j \in Jobs : c # b /\ BatchOf(j) = c => jobStatus'[j] = jobStatus[j]
  BY <1>6, <1>7
<1>9. Types'
  <2>1. size' \in [Batches -> BatchSizes \cup {None}]
        /\ status' \in [Batches -> {"none", "RUNNING"} \cup Ended]
    BY <1>1 DEF Types, startBatch
  <2>2. jobStatus' \in [Jobs -> {"none", "PENDING", "RUNNING"} \cup Ended]
    BY <1>1, <1>6 DEF Types, startBatch
  <2>3. messages' \subseteq Jobs BY <1>1, <1>5, JobFacts DEF Types, startBatch
  <2>4. \A j \in Jobs : jobStatus'[j] # "none" => size'[BatchOf(j)] # None /\ j \in Children(BatchOf(j))'
    BY <1>1, <1>2, <1>3, <1>4, <1>6, <1>7, JobFacts DEF Types
  <2> QED BY <1>1, <1>3, <1>4, <2>1, <2>2, <2>3, <2>4 DEF Types, startBatch
<1>10. ASSUME NEW c \in Batches, c # b, size[c] # None
       PROVE  (AllEnded(c)' <=> AllEnded(c)) /\ (SomeFailed(c)' <=> SomeFailed(c))
  <2>1. \A j \in Children(c) : j \in Jobs /\ jobStatus'[j] = jobStatus[j] BY <1>10, <1>1, <1>8, ChildFacts
  <2> QED BY <2>1, <1>3, <1>10 DEF AllEnded, SomeFailed
<1>11. \A c \in Batches : Settled(c)'
  <2> SUFFICES ASSUME NEW c \in Batches PROVE Settled(c)' OBVIOUS
  <2>1. CASE c = b BY <2>1, <1>4 DEF Settled, Ended
  <2>2. CASE c # b
    <3>1. status[c] \in Ended => size[c] # None BY <1>1 DEF Types, Ended
    <3> QED BY <2>2, <3>1, <1>3, <1>10 DEF Inv, Settled, startBatch
  <2> QED BY <2>1, <2>2
<1>12. ASSUME NEW w \in Executors, step'[w] # "idle" PROVE At(w)'
  <2>1. At(w) /\ UNCHANGED <<step, work, twice>> BY <1>12 DEF Inv, startBatch
  <2>2. work[w].job \in Jobs /\ jobStatus[work[w].job] # "none" /\ BatchOf(work[w].job) # b
    BY <2>1, <1>2 DEF At
  <2>3. size[BatchOf(work[w].job)] # None /\ BatchOf(work[w].job) \in Batches
    BY <2>2, <1>1, JobFacts DEF Types
  <2>4. jobStatus'[work[w].job] = jobStatus[work[w].job] BY <2>2, <2>3, <1>8
  <2> QED BY <2>1, <2>2, <2>3, <2>4, <1>10 DEF At
<1> QED BY <1>9, <1>11, <1>12 DEF Inv, Apart, startBatch

\* A step that leaves the jobs alone: what is said of the batches and of a worker
\* that did not move stays true.
LEMMA Quiet ==
  ASSUME Inv, UNCHANGED <<size, jobStatus>>, twice \subseteq twice'
  PROVE  /\ \A b \in Batches : (AllEnded(b)' <=> AllEnded(b)) /\ (SomeFailed(b)' <=> SomeFailed(b))
         /\ \A w \in Executors : step'[w] = step[w] /\ work'[w] = work[w] /\ step[w] # "idle" => At(w)'
<1>1. \A b \in Batches : (AllEnded(b)' <=> AllEnded(b)) /\ (SomeFailed(b)' <=> SomeFailed(b))
  BY DEF AllEnded, SomeFailed, Children
<1>2. ASSUME NEW w \in Executors, step'[w] = step[w], work'[w] = work[w], step[w] # "idle"
      PROVE  At(w)'
  <2>1. At(w) BY <1>2 DEF Inv
  <2>2. BatchOf(work[w].job) \in Batches BY <2>1, JobFacts DEF At
  <2> QED BY <1>1, <1>2, <2>1, <2>2 DEF At
<1> QED BY <1>1, <1>2

LEMMA ReceiveStep ==
  ASSUME Inv, NEW w \in Executors, NEW j \in messages, ReceiveJob(w, j)
  PROVE  Inv'
<1>1. Types /\ j \in Jobs /\ twice \subseteq twice' BY DEF Inv, Types, ReceiveJob
<1>2. UNCHANGED <<size, status, jobStatus>> BY DEF ReceiveJob
<1>3. messages' \subseteq Jobs /\ step' \in [Executors -> Places] /\ DOMAIN work' = Executors
  BY <1>1 DEF ReceiveJob, Types, GoOn, Places
<1>4. Types' BY <1>1, <1>2, <1>3 DEF Types, Children
<1>5. \A b \in Batches : Settled(b)' BY <1>1, <1>2, Quiet DEF Inv, Settled
<1>6. CASE jobStatus[j] # "PENDING"
  <2>1. UNCHANGED <<step, work, twice>> BY <1>6 DEF ReceiveJob
  <2>2. \A v \in Executors : step'[v] # "idle" => At(v)' BY <2>1, <1>1, <1>2, Quiet
  <2> QED BY <2>1, <2>2, <1>4, <1>5 DEF Inv, Apart
<1>7. CASE jobStatus[j] = "PENDING"
  <2>1. step' = [step EXCEPT ![w] = "start"] /\ work' = [work EXCEPT ![w] = [job |-> j]]
        /\ twice' = IF \E v \in Executors : work[v].job = j THEN twice \cup {BatchOf(j)} ELSE twice
    BY <1>7 DEF ReceiveJob, GoOn
  <2>2. step'[w] = "start" /\ work'[w].job = j
        /\ \A v \in Executors : v # w => step'[v] = step[v] /\ work'[v] = work[v]
    BY <2>1, <1>1 DEF Types
  <2>3. At(w)' BY <2>2, <1>1, <1>2, <1>7 DEF At
  <2>4. \A v \in Executors : step'[v] # "idle" => At(v)' BY <2>2, <2>3, <1>1, <1>2, Quiet
  <2>5. ASSUME NEW u \in Executors, NEW v \in Executors PROVE Apart(u, v)'
    <3>1. (\E x \in Executors : work[x].job = j) => BatchOf(j) \in twice' BY <2>1
    <3>2. Apart(u, v) BY DEF Inv
    <3> QED BY <3>1, <3>2, <2>2, <1>1 DEF Apart
  <2> QED BY <2>4, <2>5, <1>4, <1>5 DEF Inv
<1> QED BY <1>6, <1>7

\* A worker stops.
LEMMA StopStep ==
  ASSUME Inv, NEW w \in Executors, Stop(w), UNCHANGED <<size, jobStatus, twice>>,
         messages' \subseteq messages,
         status' \in [Batches -> {"none", "RUNNING"} \cup Ended],
         \A b \in Batches : Settled(b)' /\ (size[b] = None => status'[b] = "none")
  PROVE  Inv'
<1>1. Types BY DEF Inv
<1>2. step' = [step EXCEPT ![w] = "idle"] /\ work' = [work EXCEPT ![w] = NoWork] BY DEF Stop, GoOn
<1>3. step'[w] = "idle" /\ \A v \in Executors : v # w => step'[v] = step[v] /\ work'[v] = work[v]
  BY <1>1, <1>2 DEF Types
<1>4. Types' BY <1>1, <1>2 DEF Types, Places, Children
<1>5. \A v \in Executors : step'[v] # "idle" => At(v)' BY <1>3, Quiet
<1>6. \A u, v \in Executors : Apart(u, v)' BY <1>3 DEF Inv, Apart
<1> QED BY <1>4, <1>5, <1>6 DEF Inv

\* A worker that has counted goes on, knowing what it saw.
LEMMA MoveStep ==
  ASSUME Inv, NEW w \in Executors, NEW place \in {"tally", "close"}, step[w] # "idle",
         GoOn(w, place), UNCHANGED <<size, status, jobStatus, messages, twice>>,
         DOMAIN work' = Executors, work'[w].job = work[w].job,
         \A v \in Executors : v # w => work'[v] = work[v],
         BatchOf(work[w].job) \notin twice =>
           AllEnded(BatchOf(work[w].job))
           /\ (place = "close" => (work'[w].failed <=> SomeFailed(BatchOf(work[w].job))))
  PROVE  Inv'
<1>1. Types /\ At(w) BY DEF Inv
<1>2. step'[w] = place /\ \A v \in Executors : v # w => step'[v] = step[v] BY <1>1 DEF Types, GoOn
<1>3. Types' BY <1>1 DEF Types, Places, GoOn, Children
<1>4. \A b \in Batches : Settled(b)' BY Quiet DEF Inv, Settled
<1>5. work[w].job \in Jobs /\ jobStatus[work[w].job] # "none" /\ BatchOf(work[w].job) \in Batches
  BY <1>1, JobFacts DEF At
<1>6. work[w].job \in Children(BatchOf(work[w].job)) BY <1>1, <1>5 DEF Types
<1>7. At(w)'
  <2>1. step'[w] # "start" /\ step'[w] # "run" /\ (step'[w] = "close" => place = "close") BY <1>2
  <2>2. BatchOf(work[w].job) \notin twice =>
          AllEnded(BatchOf(work[w].job))' /\ jobStatus'[work[w].job] \in Ended
          /\ (place = "close" => (work'[w].failed <=> SomeFailed(BatchOf(work[w].job))'))
    BY <1>5, <1>6, Quiet DEF AllEnded
  <2> QED BY <2>1, <2>2, <1>5, Quiet DEF At
<1>8. \A v \in Executors : step'[v] # "idle" => At(v)' BY <1>2, <1>7, Quiet
<1>9. \A u, v \in Executors : Apart(u, v)'
  <2>1. \A v \in Executors : (step'[v] # "idle" <=> step[v] # "idle") /\ work'[v].job = work[v].job
    BY <1>2
  <2> QED BY <2>1 DEF Inv, Apart
<1> QED BY <1>3, <1>4, <1>8, <1>9 DEF Inv

LEMMA TallyFacts ==
  ASSUME Inv, NEW w \in Executors, step[w] # "idle"
  PROVE  BatchOf(work[w].job) \in Batches /\ size[BatchOf(work[w].job)] # None
BY JobFacts DEF Inv, Types, At

LEMMA CountRemainingStep ==
  ASSUME Inv, NEW w \in Executors, CountRemaining(w)
  PROVE  Inv'
<1>1. CASE Remaining(BatchOf(work[w].job)) # {}
  <2>1. AckJob(w) /\ UNCHANGED <<size, status, jobStatus, twice>> BY <1>1 DEF CountRemaining
  <2>2. Stop(w) /\ messages' \subseteq messages BY <2>1 DEF AckJob
  <2>3. \A b \in Batches : Settled(b)' BY <2>1, Quiet DEF Inv, Settled
  <2> QED BY <2>1, <2>2, <2>3, StopStep DEF Inv, Types
<1>2. CASE Remaining(BatchOf(work[w].job)) = {}
  <2>1. GoOn(w, "tally") /\ UNCHANGED <<size, status, jobStatus, messages, work, twice>>
        /\ step[w] = "count"
    BY <1>2 DEF CountRemaining
  <2>2. AllEnded(BatchOf(work[w].job)) BY <1>2 DEF Remaining, AllEnded
  <2>3. DOMAIN work = Executors BY DEF Inv, Types
  <2> QED BY <2>1, <2>2, <2>3, MoveStep
<1> QED BY <1>1, <1>2

LEMMA CountFailedStep ==
  ASSUME Inv, NEW w \in Executors, CountFailed(w)
  PROVE  Inv'
<1> DEFINE b == BatchOf(work[w].job)
<1>1. Types /\ At(w) /\ step[w] = "tally" BY DEF Inv, CountFailed
<1>2. GoOn(w, "close") /\ UNCHANGED <<size, status, jobStatus, messages, twice>> BY DEF CountFailed
<1>3. work' = [work EXCEPT ![w] =
        [job |-> work[w].job, failed |-> \E j \in Children(b) : jobStatus[j] = "FAILED"]]
  BY DEF CountFailed
<1>4. DOMAIN work' = Executors /\ work'[w].job = work[w].job
      /\ \A v \in Executors : v # w => work'[v] = work[v]
  BY <1>1, <1>3 DEF Types
<1>5. work'[w].failed <=> SomeFailed(b) BY <1>1, <1>3 DEF Types, SomeFailed
<1>6. b \notin twice => AllEnded(b) BY <1>1 DEF At
<1> QED BY <1>1, <1>2, <1>4, <1>5, <1>6, MoveStep

\* The worker that ends the batch saw all its jobs ended, and none has moved since.
LEMMA EndBatchStep ==
  ASSUME Inv, NEW w \in Executors, EndBatch(w)
  PROVE  /\ Inv'
         /\ \A b \in Batches \ twice' : status[b] \in Ended => status'[b] = status[b]
<1> DEFINE c == BatchOf(work[w].job)
<1>1. Types /\ At(w) /\ step[w] = "close" /\ AckJob(w) /\ UNCHANGED <<size, jobStatus, faults, twice, broken>>
  BY DEF Inv, EndBatch
<1>2. c \in Batches /\ size[c] # None BY <1>1, TallyFacts
<1>3. \A b \in Batches : status'[b] = IF b = c THEN IF work[w].failed THEN "FAILED" ELSE "COMPLETED"
                                              ELSE status[b]
  BY <1>1, <1>2 DEF EndBatch, Types
<1>4. status' \in [Batches -> {"none", "RUNNING"} \cup Ended]
  BY <1>1 DEF EndBatch, Types, Ended
<1>5. c \notin twice => AllEnded(c) /\ (work[w].failed <=> SomeFailed(c)) BY <1>1 DEF At
<1>6. \A b \in Batches : Settled(b)'
  <2> SUFFICES ASSUME NEW b \in Batches PROVE Settled(b)' OBVIOUS
  <2>1. (AllEnded(b)' <=> AllEnded(b)) /\ (SomeFailed(b)' <=> SomeFailed(b)) BY <1>1, Quiet
  <2>2. CASE b = c BY <2>1, <2>2, <1>1, <1>3, <1>5 DEF Settled
  <2>3. CASE b # c BY <2>1, <2>3, <1>1, <1>3 DEF Inv, Settled
  <2> QED BY <2>2, <2>3
<1>7. Inv' BY <1>1, <1>2, <1>3, <1>4, <1>6, StopStep DEF AckJob, Types
<1>8. ASSUME NEW b \in Batches, b \notin twice, status[b] \in Ended PROVE status'[b] = status[b]
  <2>1. status[b] = "FAILED" <=> SomeFailed(b) BY <1>8 DEF Inv, Settled
  <2> QED BY <2>1, <1>3, <1>5, <1>8 DEF Ended
<1> QED BY <1>1, <1>7, <1>8

LEMMA FailStep ==
  ASSUME Inv, NEW w \in Executors, FailJob(w)
  PROVE  Inv'
<1>1. Stop(w) /\ UNCHANGED <<size, status, jobStatus, messages, twice>> BY DEF FailJob
<1>2. \A b \in Batches : Settled(b)' BY <1>1, Quiet DEF Inv, Settled
<1> QED BY <1>1, <1>2, StopStep DEF Inv, Types

-----------------------------------------------------------------------------
LEMMA StepInv ==
  ASSUME Inv, [BatchNext]_batchVars
  PROVE  /\ Inv'
         /\ \A b \in Batches \ twice' : status[b] \in Ended => status'[b] = status[b]
<1>1. ASSUME NEW b \in Batches, NEW n \in BatchSizes, startBatch(b, n)
      PROVE  Inv' /\ \A c \in Batches \ twice' : status[c] \in Ended => status'[c] = status[c]
  <2>1. Inv' BY <1>1, StartStep
  <2>2. status[b] = "none" /\ status' = [status EXCEPT ![b] = "RUNNING"]
    BY <1>1 DEF Inv, Types, startBatch
  <2>3. \A c \in Batches : status[c] \in Ended => status'[c] = status[c]
    BY <2>2 DEF Ended, Inv, Types
  <2> QED BY <2>1, <2>3
<1>2. ASSUME NEW w \in Executors, NoHandler(w) PROVE Inv' /\ UNCHANGED status
  <2>1. SetJob(work[w].job, "FAILED") /\ GoOn(w, "count") /\ step[w] = "start"
        /\ UNCHANGED <<size, status, messages, work, twice>>
    BY <1>2 DEF NoHandler
  <2>2. "FAILED" \in {"RUNNING"} \cup Ended /\ "FAILED" # "RUNNING" BY DEF Ended
  <2> QED BY <2>1, <2>2, JobStep
<1>3. ASSUME NEW w \in Executors, StartJob(w) PROVE Inv' /\ UNCHANGED status
  <2>1. SetJob(work[w].job, "RUNNING") /\ GoOn(w, "run") /\ step[w] = "start"
        /\ UNCHANGED <<size, status, messages, work, twice>>
    BY <1>3 DEF StartJob
  <2> QED BY <2>1, JobStep
<1>4. ASSUME NEW w \in Executors, EndJob(w) PROVE Inv' /\ UNCHANGED status
  <2>1. PICK s \in Ended : SetJob(work[w].job, s) BY <1>4 DEF EndJob
  <2>2. GoOn(w, "count") /\ step[w] = "run" /\ UNCHANGED <<size, status, messages, work, twice>>
    BY <1>4 DEF EndJob
  <2>3. s \in {"RUNNING"} \cup Ended /\ s # "RUNNING" BY DEF Ended
  <2> QED BY <2>1, <2>2, <2>3, JobStep
<1>5. ASSUME NEW w \in Executors, CountRemaining(w) \/ CountFailed(w) PROVE Inv' /\ UNCHANGED status
  BY <1>5, CountRemainingStep, CountFailedStep DEF CountRemaining, CountFailed
<1>6. ASSUME NEW w \in Executors, FailJob(w) PROVE Inv' /\ UNCHANGED status
  BY <1>6, FailStep DEF FailJob
<1>7. ASSUME NEW w \in Executors, NEW j \in messages, ReceiveJob(w, j) PROVE Inv' /\ UNCHANGED status
  BY <1>7, ReceiveStep DEF ReceiveJob
<1>8. CASE UNCHANGED batchVars
  <2>1. Inv' BY <1>8 DEF batchVars, Inv, Types, At, Settled, Apart, AllEnded, SomeFailed, Children
  <2> QED BY <2>1, <1>8 DEF batchVars
<1> QED BY <1>1, <1>2, <1>3, <1>4, <1>5, <1>6, <1>7, <1>8, EndBatchStep DEF BatchNext, Work

LEMMA InvHolds == BatchSpec => []Inv
BY InitInv, StepInv, PTL DEF BatchSpec

\* Whatever the batches, workers and failures, a batch that has ended has no job
\* left, unless two workers had one job of it at once.
THEOREM NoJobLeftBehind == BatchSpec => []BatchEndsLast
<1>1. Inv => BatchEndsLast BY DEF Inv, Settled, BatchEndsLast, AllEnded
<1> QED BY <1>1, InvHolds, PTL

\* An ended batch has failed if and only if a job of it has.
THEOREM FailureIsTold == BatchSpec => []StatusTellsJobs
<1>1. Inv => StatusTellsJobs BY DEF Inv, Settled, StatusTellsJobs, SomeFailed
<1> QED BY <1>1, InvHolds, PTL

\* An ended batch keeps its status.
THEOREM EndIsFinal == BatchSpec => EndedBatchStays
<1>1. Inv /\ [BatchNext]_batchVars =>
        [\A b \in Batches \ twice' : status[b] \in Ended => status'[b] = status[b]]_batchVars
  BY StepInv
<1> QED BY <1>1, InvHolds, PTL DEF BatchSpec, EndedBatchStays

\* What TypeOK says of the counters and histories besides.
Counted ==
  /\ faults \in 0..MaxFaults
  /\ twice \subseteq Batches /\ broken \subseteq Batches
  /\ \A b \in Batches : status[b] = "none" => size[b] = None

LEMMA CountedStep ==
  ASSUME Inv, Counted, [BatchNext]_batchVars
  PROVE  Counted'
<1>1. ASSUME NEW b \in Batches, NEW n \in BatchSizes, startBatch(b, n) PROVE Counted'
  <2>1. PICK lost \in SUBSET {<<b, i>> : i \in 1..n} :
          /\ faults + Cardinality(lost) <= MaxFaults
          /\ faults' = faults + Cardinality(lost)
          /\ broken' = IF lost = {} THEN broken ELSE broken \cup {b}
    BY <1>1 DEF startBatch
  <2>2. IsFiniteSet({<<b, i>> : i \in 1..n})
    <3>1. n \in Nat BY SizesAssumption
    <3>2. IsFiniteSet(1..n) BY <3>1, FS_Interval
    <3> DEFINE f == [i \in 1..n |-> <<b, i>>]
               T == {<<b, i>> : i \in 1..n}
    <3>3. f \in Surjection(1..n, T) BY DEF Surjection
    <3> HIDE DEF f, T
    <3>4. IsFiniteSet(T) BY <3>2, <3>3, FS_Surjection
    <3> QED BY <3>4 DEF T
  <2>3. Cardinality(lost) \in Nat BY <2>2, FS_Subset, FS_CardinalityType
  <2>4. faults' \in 0..MaxFaults BY <2>1, <2>3, BoundsAssumption DEF Counted
  <2>5. UNCHANGED twice /\ \A c \in Batches : status'[c] = "none" => size'[c] = None
    BY <1>1 DEF startBatch, Counted, Inv, Types
  <2> QED BY <2>1, <2>4, <2>5 DEF Counted
<1>2. ASSUME NEW w \in Executors, NEW j \in messages, ReceiveJob(w, j) PROVE Counted'
  BY <1>2, JobFacts DEF ReceiveJob, Counted, Inv, Types
<1>3. ASSUME NEW w \in Executors, FailJob(w) PROVE Counted'
  BY <1>3, TallyFacts, BoundsAssumption DEF FailJob, Counted
<1>4. ASSUME NEW w \in Executors, EndBatch(w) PROVE Counted'
  BY <1>4 DEF EndBatch, Counted, Inv, Types
<1>5. ASSUME NEW w \in Executors,
             NoHandler(w) \/ StartJob(w) \/ EndJob(w) \/ CountRemaining(w) \/ CountFailed(w)
      PROVE  Counted'
  BY <1>5 DEF NoHandler, StartJob, EndJob, CountRemaining, CountFailed, Counted
<1>6. CASE UNCHANGED batchVars BY <1>6 DEF batchVars, Counted
<1> QED BY <1>1, <1>2, <1>3, <1>4, <1>5, <1>6 DEF BatchNext, Work

\* Type correctness for any batches, workers and bounds.
THEOREM BatchTypeCorrect == BatchSpec => []BatchTypeOK
<1>1. BatchInit => Counted BY BoundsAssumption DEF BatchInit, Counted
<1>2. Inv /\ Counted => BatchTypeOK BY DEF Inv, Types, Counted, BatchTypeOK, Places
<1> QED BY <1>1, <1>2, InvHolds, CountedStep, PTL DEF BatchSpec
=============================================================================
