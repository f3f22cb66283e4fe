-------------------------------- MODULE Quests --------------------------------
(***************************************************************************)
(* The quests of one user.  A rotating (daily or weekly) quest counts the  *)
(* events of its type; a milestone quest counts the rotating quests the    *)
(* user has claimed, and is brought up to date by whoever passes by: an    *)
(* event that completes a quest, a claim, the quest page.                  *)
(*                                                                         *)
(* A claim runs in a transaction that locks the quest, gives the reward,   *)
(* among it Cores that njord transfers at once, and marks the quest as     *)
(* claimed.  Everything else is single statements on what was read before. *)
(***************************************************************************)
EXTENDS Integers, FiniteSets

CONSTANTS
  Rotating,        \* rotating quests
  Milestone,       \* the milestone quest
  Target,          \* what each quest counts to
  Events,          \* events: quest, number and increment (1, or -1 when undone)
  XpQuests,        \* quests whose reward has experience points besides Cores
  Requests,        \* requests and messages handled at the same time
  MaxFailures      \* bound: exceptions and crashes

Quests == Rotating \cup {Milestone}

ASSUME QuestAssumption == Milestone \notin Rotating /\ XpQuests \subseteq Quests
ASSUME TargetAssumption == Target \in [Quests -> Nat \ {0}]
ASSUME EventAssumption == Events \subseteq Rotating \X Nat \X {1, -1}
ASSUME BoundAssumption == MaxFailures \in Nat

VARIABLES
  row,       \* committed user_quest row of each quest
  txn,       \* rows a request has written in its transaction
  pc,        \* where each request is
  work,      \* what it works on, and the milestone row and count it read
  pending,   \* events whose message is not acknowledged
  xp,        \* committed experience points, one per reward
  paid,      \* external: transfers njord made for each quest, counted to two
  failures,  \* failures so far
  lost,      \* history: quests paid in a transaction that was rolled back
  recounted  \* history: quests with an event that failed after it was counted

histVars == <<failures, lost, recounted>>
vars == <<row, txn, pc, work, pending, xp, paid, failures, lost, recounted>>

NoRow == [progress |-> 0, status |-> "none", claimedAt |-> FALSE]
Unwritten == [NoRow EXCEPT !.status = "unwritten"]
Row == [progress : Nat, status : {"in_progress", "completed", "claimed"}, claimedAt : BOOLEAN]
NoWork ==
  [kind |-> "none", quest |-> Milestone, event |-> <<>>, existing |-> NoRow,
   count |-> 0, syncs |-> 0]

Min(a, b) == IF a < b THEN a ELSE b
Max(a, b) == IF a < b THEN b ELSE a

Handling == {"update", "insert", "retry"}
Syncing == {"sync", "count", "write"}

TypeOK ==
  /\ row \in [Quests -> Row \cup {NoRow}]
  /\ txn \in [Requests -> [Quests -> Row \cup {Unwritten}]]
  /\ pc \in [Requests -> {"idle", "reward", "mark", "commit", "ack"} \cup Handling \cup Syncing]
  /\ pending \subseteq Events
  /\ xp \in Nat /\ paid \in [Quests -> 0..2] /\ failures \in 0..MaxFailures
  /\ lost \subseteq Quests /\ recounted \subseteq Rotating
  /\ \A q \in Quests : row[q].progress <= Target[q]

NoRows == [q \in Quests |-> Unwritten]

Init ==
  /\ row = [q \in Quests |-> NoRow] /\ txn = [r \in Requests |-> NoRows]
  /\ pc = [r \in Requests |-> "idle"] /\ work = [r \in Requests |-> NoWork]
  /\ pending = Events /\ xp = 0 /\ paid = [q \in Quests |-> 0]
  /\ failures = 0 /\ lost = {} /\ recounted = {}

-----------------------------------------------------------------------------
(* Transactions.  Only a claim has one: its quest is locked from the start *)
(* and what it writes until the end.                                       *)

IsClaim(r) == work[r].kind = "claim"
Holds(r, q) == IsClaim(r) /\ (work[r].quest = q \/ txn[r][q] # Unwritten)
Locked(q, r) == \E v \in Requests \ {r} : Holds(v, q)

\* The update of totalXp locks the user's profile row.
HoldsProfile(r) == IsClaim(r) /\ pc[r] # "reward" /\ work[r].quest \in XpQuests
ProfileLocked(r) == \E v \in Requests \ {r} : HoldsProfile(v)

\* A row as a request sees it: its own version, or the committed one.
Seen(r, q) == IF txn[r][q] = Unwritten THEN row[q] ELSE txn[r][q]

\* A claim writes into its transaction, every other request at once.
Store(r, q, new) ==
  IF IsClaim(r)
  THEN txn' = [txn EXCEPT ![r][q] = new] /\ UNCHANGED row
  ELSE row' = [row EXCEPT ![q] = new] /\ UNCHANGED txn

Goto(r, place) == pc' = [pc EXCEPT ![r] = place]
End(r) ==
  /\ Goto(r, "idle") /\ work' = [work EXCEPT ![r] = NoWork]
  /\ txn' = [txn EXCEPT ![r] = NoRows]

-----------------------------------------------------------------------------
(* checkQuestProgress: an event is counted by the rotating quest of its    *)
(* type: update the row, else insert it, else update the row somebody has  *)
(* inserted in between.                                                    *)

\* The message of an event is delivered, now or later, in any order.
Deliver(r, e) ==
  /\ pc[r] = "idle" /\ e \in pending
  /\ \A v \in Requests : work[v].event # e
  /\ Goto(r, "update")
  /\ work' = [work EXCEPT ![r] = [NoWork EXCEPT !.kind = "event", !.quest = e[1], !.event = e]]
  /\ UNCHANGED <<row, txn, pending, xp, paid, histVars>>

\* Mutant of Progressed: an undone action may take more than was there.
ProgressedBelow(q, old, inc) ==
  LET progress == Min(Target[q], old + inc)
  IN [progress |-> progress, claimedAt |-> FALSE,
      status |-> IF progress >= Target[q] THEN "completed" ELSE "in_progress"]

\* least(target, greatest(0, progress + increment)), and the status it makes.
Progressed(q, old, inc) ==
  LET progress == Min(Target[q], Max(0, old + inc))
  IN [progress |-> progress, claimedAt |-> FALSE,
      status |-> IF progress >= Target[q] THEN "completed" ELSE "in_progress"]

\* The conditional update touches a row that is not complete yet.
Counts(q) == row[q].status = "in_progress" /\ row[q].progress < Target[q]

\* A completed quest may complete milestones.
AfterCount(r, q) ==
  IF row'[q].status = "completed"
  THEN Goto(r, "sync") /\ work' = [work EXCEPT ![r].syncs = 1]
  ELSE Goto(r, "ack") /\ UNCHANGED work

UpdateProgress(r, miss) ==
  LET q == work[r].quest
  IN /\ IF Counts(q)
        THEN /\ row' = [row EXCEPT ![q] = Progressed(q, @.progress, work[r].event[3])]
             /\ AfterCount(r, q)
        ELSE Goto(r, miss) /\ UNCHANGED <<row, work>>
     /\ UNCHANGED <<txn, pending, xp, paid, histVars>>

updateExistingUserQuestProgress(r) ==
  pc[r] = "update" /\ UpdateProgress(r, IF work[r].event[3] < 0 THEN "ack" ELSE "insert")

\* INSERT ... ON CONFLICT DO NOTHING.
insertNewUserQuestProgress(r) ==
  LET q == work[r].quest
  IN /\ pc[r] = "insert"
     /\ IF row[q] = NoRow
        THEN /\ row' = [row EXCEPT ![q] = Progressed(q, 0, work[r].event[3])]
             /\ AfterCount(r, q)
        ELSE Goto(r, "retry") /\ UNCHANGED <<row, work>>
     /\ UNCHANGED <<txn, pending, xp, paid, histVars>>

\* Mutant of RetryUpdate: the row the other event inserted is left as it is.
RetryNothing(r) ==
  pc[r] = "retry" /\ Goto(r, "ack")
  /\ UNCHANGED <<row, work, txn, pending, xp, paid, histVars>>

RetryUpdate(r) == pc[r] = "retry" /\ UpdateProgress(r, "ack")

Ack(r) ==
  /\ pc[r] = "ack"
  /\ pending' = pending \ {work[r].event}
  /\ End(r)
  /\ UNCHANGED <<row, xp, paid, histVars>>

-----------------------------------------------------------------------------
(* syncMilestoneQuestProgress: the milestone row is read, the claimed      *)
(* quests are counted, and the row is written as it follows from the two.  *)

\* questDashboard.
ViewQuests(r) ==
  /\ pc[r] = "idle"
  /\ Goto(r, "sync") /\ work' = [work EXCEPT ![r] = [NoWork EXCEPT !.kind = "view", !.syncs = 1]]
  /\ UNCHANGED <<row, txn, pending, xp, paid, histVars>>

ReadMilestone(r) ==
  /\ pc[r] = "sync"
  /\ work' = [work EXCEPT ![r].existing = Seen(r, Milestone)]
  /\ Goto(r, "count")
  /\ UNCHANGED <<row, txn, pending, xp, paid, histVars>>

\* Mutant of QuestCompleteCount: a completed quest need not be claimed.
CompletedCount(r) ==
  Cardinality({q \in Rotating : Seen(r, q).status \in {"completed", "claimed"}})

QuestCompleteCount(r) == Cardinality({q \in Rotating : Seen(r, q).status = "claimed"})

CountQuests(r) ==
  /\ pc[r] = "count"
  /\ work' = [work EXCEPT ![r].count = QuestCompleteCount(r)]
  /\ Goto(r, "write")
  /\ UNCHANGED <<row, txn, pending, xp, paid, histVars>>

\* Mutant of NextMilestone: the row is written whole, with claimedAt as it was read.
NextWholeMilestone(existing, current, count) ==
  LET progress == Min(Target[Milestone], Max(0, count))
  IN [progress |-> progress, claimedAt |-> existing.claimedAt,
      status |-> IF existing.status = "claimed" THEN "claimed"
                 ELSE IF progress >= Target[Milestone] THEN "completed" ELSE "in_progress"]

\* The row as it should be: a claimed milestone does not fall below its target.
\* The write leaves claimedAt as it is by now.
NextMilestone(existing, current, count) ==
  LET isClaimed == existing.status = "claimed" \/ existing.claimedAt
      progress == Min(Target[Milestone], Max(IF isClaimed THEN Target[Milestone] ELSE 0, count))
  IN [progress |-> progress, claimedAt |-> current.claimedAt,
      status |-> IF existing.status = "claimed" THEN "claimed"
                 ELSE IF progress >= Target[Milestone] THEN "completed" ELSE "in_progress"]

Synced(r) ==
  \/ /\ work[r].kind = "view"
     /\ Goto(r, "idle") /\ work' = [work EXCEPT ![r] = NoWork]
  \/ /\ work[r].kind # "view"
     /\ Goto(r, IF work[r].syncs > 1 THEN "sync" ELSE IF IsClaim(r) THEN "commit" ELSE "ack")
     /\ work' = [work EXCEPT ![r].syncs = @ - 1, ![r].existing = NoRow, ![r].count = 0]

\* An update by id, if it would change what was read, or an insert.
WriteMilestone(r) ==
  LET existing == work[r].existing
      next == NextMilestone(existing, Seen(r, Milestone), work[r].count)
  IN /\ pc[r] = "write"
     /\ IF existing # NoRow /\ existing.progress = next.progress /\ existing.status = next.status
        THEN UNCHANGED <<row, txn>>
        ELSE /\ ~Locked(Milestone, r)
             /\ existing = NoRow => row[Milestone] = NoRow
             /\ Store(r, Milestone, next)
     /\ Synced(r)
     /\ UNCHANGED <<pending, xp, paid, histVars>>

-----------------------------------------------------------------------------
(* claimQuestReward.                                                       *)

Claimable(q) == row[q].status = "completed" /\ ~row[q].claimedAt

\* SELECT ... FOR UPDATE; a quest that is not completed, or claimed already, is
\* refused.
LockQuest(r, q) ==
  /\ pc[r] = "idle" /\ row[q] # NoRow
  /\ ~Locked(q, r)
  /\ Claimable(q)
  /\ work' = [work EXCEPT ![r] = [NoWork EXCEPT !.kind = "claim", !.quest = q, !.syncs = 2]]
  /\ Goto(r, "reward")
  /\ UNCHANGED <<row, txn, pending, xp, paid, histVars>>

\* Whether the transaction has given its reward.
Rewarded(r) == IsClaim(r) /\ pc[r] # "reward"

\* A transaction that ends without a commit: the row of the transfer goes with
\* it, and with the row the key that made the transfer idempotent.
Rollback(r) ==
  /\ End(r)
  /\ lost' = IF Rewarded(r) THEN lost \cup {work[r].quest} ELSE lost

\* The points are added, then njord transfers the Cores under a fresh id.
applyQuestRewards(r) ==
  /\ pc[r] = "reward"
  /\ work[r].quest \in XpQuests => ~ProfileLocked(r)
  /\ paid' = [paid EXCEPT ![work[r].quest] = Min(@ + 1, 2)]
  /\ Goto(r, "mark")
  /\ UNCHANGED <<row, txn, work, pending, xp, histVars>>

\* Njord refuses the transfer.
RefuseTransfer(r) ==
  /\ pc[r] = "reward"
  /\ work[r].quest \in XpQuests => ~ProfileLocked(r)
  /\ Rollback(r)
  /\ UNCHANGED <<row, pending, xp, paid, failures, recounted>>

MarkClaimed(r) ==
  LET q == work[r].quest
  IN /\ pc[r] = "mark"
     /\ Store(r, q, [row[q] EXCEPT !.status = "claimed", !.claimedAt = TRUE])
     /\ Goto(r, "sync")
     /\ UNCHANGED <<work, pending, xp, paid, histVars>>

Commit(r) ==
  /\ pc[r] = "commit"
  /\ row' = [q \in Quests |-> Seen(r, q)]
  /\ xp' = IF work[r].quest \in XpQuests THEN xp + 1 ELSE xp
  /\ End(r)
  /\ UNCHANGED <<pending, paid, histVars>>

-----------------------------------------------------------------------------
(* What goes wrong.                                                        *)

\* An event that fails after it was counted is counted again.
Nack(r) ==
  recounted' = IF work[r].kind = "event" /\ pc[r] \in Syncing \cup {"ack"}
               THEN recounted \cup {work[r].quest} ELSE recounted

\* The milestone row was inserted by somebody else: the insert throws.
InsertConflict(r) ==
  /\ pc[r] = "write" /\ work[r].existing = NoRow
  /\ ~Locked(Milestone, r) /\ row[Milestone] # NoRow
  /\ Rollback(r) /\ Nack(r)
  /\ UNCHANGED <<row, pending, xp, paid, failures>>

\* A claim waits for the milestone row of a claim that waits for the profile row
\* the first has updated.  Postgres aborts one of the two.
BreakDeadlock(r, v) ==
  /\ IsClaim(r) /\ pc[r] = "write" /\ HoldsProfile(r)
  /\ IsClaim(v) /\ pc[v] = "reward" /\ work[v].quest = Milestone /\ Milestone \in XpQuests
  /\ work[r].quest # Milestone
  /\ \E victim \in {r, v} : Rollback(victim)
  /\ UNCHANGED <<row, pending, xp, paid, failures, recounted>>

\* Mutant of Fail: the message of a failed event is acknowledged.
FailAcked(r) ==
  /\ pc[r] # "idle" /\ failures < MaxFailures
  /\ failures' = failures + 1
  /\ Rollback(r) /\ Nack(r)
  /\ pending' = pending \ {work[r].event}
  /\ UNCHANGED <<row, xp, paid>>

\* The process dies, or an exception or a timeout ends the request.
Fail(r) ==
  /\ pc[r] # "idle" /\ failures < MaxFailures
  /\ failures' = failures + 1
  /\ Rollback(r) /\ Nack(r)
  /\ UNCHANGED <<row, pending, xp, paid>>

Work(r) ==
  \/ updateExistingUserQuestProgress(r) \/ insertNewUserQuestProgress(r) \/ RetryUpdate(r)
  \/ Ack(r) \/ ReadMilestone(r) \/ CountQuests(r) \/ WriteMilestone(r) \/ InsertConflict(r)
  \/ applyQuestRewards(r) \/ MarkClaimed(r) \/ Commit(r)
  \/ \E v \in Requests : BreakDeadlock(r, v)

Next ==
  \E r \in Requests :
    \/ Work(r) \/ RefuseTransfer(r) \/ Fail(r) \/ ViewQuests(r)
    \/ \E e \in pending : Deliver(r, e)
    \/ \E q \in Quests : LockQuest(r, q)

Spec == Init /\ [][Next]_vars

\* A message is delivered until it is acknowledged, also to a process that is
\* busy again and again with other requests; a request's steps end.
FairSpec ==
  /\ Spec
  /\ \A e \in Events : SF_vars(\E r \in Requests : e \in pending /\ Deliver(r, e))
  /\ \A r \in Requests : WF_vars(Work(r))

-----------------------------------------------------------------------------
ClaimedQuests == {q \in Quests : row[q].claimedAt}

\* Rewards and claims agree.  A reward is paid once, though the transfer has a new
\* id with every claim: that hangs on the lock, and on claimedAt, as the status of
\* a claimed milestone may be set back to completed by a request that read it
\* before.  What is claimed was paid, the points are those of the quests claimed,
\* and only a transaction rolled back after the transfer is paid for again
\* (quests.ts, claimQuestReward; milestone.ts, syncMilestoneQuestProgress).
RewardsAreClaims ==
  /\ \A q \in Quests \ lost : paid[q] <= 1
  /\ \A q \in ClaimedQuests : paid[q] > 0
  /\ xp = Cardinality(ClaimedQuests \cap XpQuests)

\* A milestone is completed only if as many quests as it asks for are claimed,
\* though it is written from a count that is old by then (milestone.ts).
MilestoneIsEarned ==
  row[Milestone].status \in {"completed", "claimed"} =>
    Cardinality(ClaimedQuests \cap Rotating) >= Target[Milestone]

\* Every event counts once, also when two insert the row of the quest at the
\* same time; a quest that is completed counts no more, and stays so when an
\* action is undone (progress.ts, checkQuestProgress).
ProgressIsEvents ==
  \A q \in Rotating \ recounted :
    LET some(S, inc) == Cardinality({e \in S : e[1] = q /\ e[3] = inc})
        handled == Events \ pending
        begun == handled \cup {e \in Events : \E r \in Requests : work[r].event = e}
    IN /\ row[q].progress >= Min(Target[q], some(handled, 1) - some(begun, -1))
       /\ row[q].progress <= Min(Target[q], some(begun, 1))

\* A quest is completed when enough events have happened, though their messages
\* race, fail and are delivered again.
QuestCompletes ==
  \A q \in Rotating :
    Cardinality({e \in Events : e[1] = q /\ e[3] = 1})
      - Cardinality({e \in Events : e[1] = q /\ e[3] = -1}) >= Target[q]
    => <>(row[q].status \in {"completed", "claimed"})
=============================================================================
