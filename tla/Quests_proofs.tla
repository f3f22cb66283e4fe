---------------------------- MODULE Quests_proofs ----------------------------
(* A reward is paid once and a milestone is earned, for any quests,        *)
(* targets, events, requests and failures.                                 *)
EXTENDS Quests, FiniteSetTheorems, TLAPS

(* Types.                                                                  *)

Kinds == {"none", "event", "view", "claim"}
Job ==
  [kind : Kinds, quest : Quests, event : Events \cup {<<>>}, existing : Row \cup {NoRow},
   count : Nat, syncs : Nat]

\* What a request is doing, by the place where it is.
Doing(r) ==
  /\ pc[r] = "idle" <=> work[r].kind = "none"
  /\ pc[r] \in Handling \cup {"ack"} => work[r].kind = "event"
  /\ pc[r] \in {"reward", "mark", "commit"} => IsClaim(r)
  /\ work[r].kind = "event" <=> work[r].event \in Events
  /\ work[r].kind = "event" => work[r].quest = work[r].event[1]
  /\ pc[r] \in {"insert", "retry"} => work[r].event[3] = 1
  /\ pc[r] = "retry" => row[work[r].quest] # NoRow
  /\ ~IsClaim(r) => work[r].syncs <= 1
  /\ pc[r] \in {"reward", "mark"} \cup Syncing => work[r].syncs >= 1
  /\ \A q \in Quests : txn[r][q] # Unwritten => IsClaim(r) /\ q \in {work[r].quest, Milestone}
  /\ pc[r] \in {"reward", "mark"} => \A q \in Quests : txn[r][q] = Unwritten
  /\ IsClaim(r) =>
       /\ row[work[r].quest] # NoRow
       /\ work[r].quest \in Rotating => row[work[r].quest].progress = Target[work[r].quest]

\* A rotating quest is completed exactly at its target, and claimed for good.
Rotates(q, old) ==
  q \in Rotating =>
    /\ old.status \in {"completed", "claimed"} <=> old.progress = Target[q]
    /\ old.claimedAt <=> old.status = "claimed"

\* A transaction writes a rotating quest only as claimed.
Written(q, new) == new # Unwritten => Rotates(q, new) /\ (q \in Rotating => new.status = "claimed")

Claimed == {q \in Rotating : row[q].status = "claimed"}

Types ==
  /\ TypeOK
  /\ IsFiniteSet(Claimed)
  /\ work \in [Requests -> Job]
  /\ \A r \in Requests : Doing(r)
  /\ \A q \in Quests : Rotates(q, row[q])
  /\ \A r \in Requests, q \in Quests : txn[r][q].progress <= Target[q] /\ Written(q, txn[r][q])

-----------------------------------------------------------------------------
(* Claims.                                                                 *)

\* A quest is in the hands of one claim.
Exclusive == \A r, v \in Requests, q \in Quests : Holds(r, q) /\ Holds(v, q) => r = v

\* What a claim has locked is as it was, and what it has written is its claim.
Claiming(r) ==
  IsClaim(r) =>
    LET k == work[r].quest
    IN /\ row[k].claimedAt = FALSE /\ row[k].status = "completed"
       /\ pc[r] \in Syncing \cup {"commit"} =>
            txn[r][k] # Unwritten /\ txn[r][k].claimedAt = TRUE
       /\ k # Milestone /\ txn[r][Milestone] # Unwritten =>
            txn[r][Milestone].claimedAt = row[Milestone].claimedAt

Claims == Exclusive /\ \A r \in Requests : Claiming(r)

\* What was paid for is claimed, or is being claimed.
Paying ==
  /\ \A q \in ClaimedQuests : paid[q] > 0
  /\ \A r \in Requests : Rewarded(r) => paid[work[r].quest] > 0
  /\ \A q \in Quests \ lost :
       /\ paid[q] <= 1
       /\ paid[q] = 1 => q \in ClaimedQuests \/ \E r \in Requests : Rewarded(r) /\ work[r].quest = q

Points == IsFiniteSet(ClaimedQuests) /\ xp = Cardinality(ClaimedQuests \cap XpQuests)

-----------------------------------------------------------------------------
(* Milestones.                                                             *)

ClaimedSeen(r) == {q \in Rotating : Seen(r, q).status = "claimed"}
Reaches(S) == Cardinality(S) >= Target[Milestone]

\* A milestone that is completed or was claimed.
Earns(old) == old.status \in {"completed", "claimed"} \/ old.claimedAt

\* The milestone as a claim has written it, and as a request has read it.
Reads(r) ==
  /\ txn[r][Milestone] # Unwritten /\ Earns(txn[r][Milestone]) => Reaches(ClaimedSeen(r))
  /\ Earns(work[r].existing) => Reaches(ClaimedSeen(r))
  /\ pc[r] = "write" => work[r].count <= Cardinality(ClaimedSeen(r))

Milestones == (Earns(row[Milestone]) => Reaches(Claimed)) /\ \A r \in Requests : Reads(r)

-----------------------------------------------------------------------------
(* Progress.                                                               *)

Handled == Events \ pending
Begun == Handled \cup {e \in Events : \E r \in Requests : work[r].event = e}

\* Events whose request is past the count.
Counted(r) == pc[r] \in Syncing \cup {"ack"}
Settled == Handled \cup {e \in Events : \E r \in Requests : work[r].event = e /\ Counted(r)}

Of(S, q, inc) == {e \in S : e[1] = q /\ e[3] = inc}

\* An event is in the hands of one request, and pending.
OneHand ==
  /\ \A r \in Requests : work[r].event \in Events => work[r].event \in pending
  /\ \A r, v \in Requests : work[r].event \in Events /\ work[r].event = work[v].event => r = v

Counting(q) ==
  LET more == Cardinality(Of(Settled, q, 1))
      less == Cardinality(Of(Settled, q, -1))
  IN /\ row[q].progress <= more
     /\ row[q].progress >= Min(Target[q], more - less)

Progressing ==
  /\ IsFiniteSet(Begun)
  /\ OneHand
  /\ \A q \in Rotating \ recounted : Counting(q)

-----------------------------------------------------------------------------
(* The types are kept.                                                     *)

Places == {"idle", "reward", "mark", "commit", "ack"} \cup Handling \cup Syncing

Books ==
  /\ pending \subseteq Events /\ xp \in Nat /\ paid \in [Quests -> 0..2]
  /\ failures \in 0..MaxFailures /\ lost \subseteq Quests /\ recounted \subseteq Rotating

\* A request goes on, or ends.
Moves(r, place, new) == pc' = [pc EXCEPT ![r] = place] /\ work' = [work EXCEPT ![r] = new]

OthersWait(r) ==
  \A v \in Requests \ {r} : pc'[v] = pc[v] /\ work'[v] = work[v] /\ txn'[v] = txn[v]

\* Rows only come, and a completed rotating quest stays at its target.
RowsStay ==
  \A q \in Quests :
    /\ row[q] # NoRow => row'[q] # NoRow
    /\ q \in Rotating /\ row[q].progress = Target[q] => row'[q].progress = Target[q]

LEMMA Rows ==
  /\ Unwritten \notin Row /\ NoRow \notin Row /\ Unwritten # NoRow
  /\ NoRow.progress = 0 /\ NoRow.status = "none" /\ NoRow.claimedAt = FALSE
  /\ Unwritten.progress = 0 /\ Unwritten.status = "unwritten" /\ Unwritten.claimedAt = FALSE
  /\ NoRow.progress \in Nat
  BY DEF Row, NoRow, Unwritten

LEMMA NoEvent == <<>> \notin Events /\ \A e \in Events : e[1] \in Rotating /\ e[3] \in {1, -1}
  BY EventAssumption

LEMMA Moved ==
  ASSUME Types, NEW r \in Requests, NEW place \in Places, NEW new \in Job, Moves(r, place, new)
  PROVE  /\ pc' \in [Requests -> Places] /\ work' \in [Requests -> Job]
         /\ pc'[r] = place /\ work'[r] = new
         /\ \A v \in Requests \ {r} : pc'[v] = pc[v] /\ work'[v] = work[v]
  <1>1. pc \in [Requests -> Places] /\ work \in [Requests -> Job]
    BY DEF Types, TypeOK, Places
  <1> QED BY <1>1 DEF Moves

\* The other requests are where they were.
LEMMA OthersDoing ==
  ASSUME Types, NEW r \in Requests, OthersWait(r), RowsStay
  PROVE  \A v \in Requests \ {r} : Doing(v)'
  <1> SUFFICES ASSUME NEW v \in Requests \ {r} PROVE Doing(v)'
    OBVIOUS
  <1>1. pc'[v] = pc[v] /\ work'[v] = work[v] /\ txn'[v] = txn[v]
    BY DEF OthersWait
  <1>2. Doing(v) /\ work[v] \in Job
    BY DEF Types
  <1>3. work[v].quest \in Quests
    BY <1>2 DEF Job
  <1> QED BY <1>1, <1>2, <1>3 DEF Doing, IsClaim, RowsStay

LEMMA LocalTypes ==
  ASSUME Types, NEW r \in Requests, NEW place \in Places, NEW new \in Job,
         Moves(r, place, new), UNCHANGED <<row, txn>>, Books', Doing(r)'
  PROVE  Types'
  <1>1. /\ pc' \in [Requests -> Places] /\ work' \in [Requests -> Job]
        /\ OthersWait(r)
    BY Moved DEF OthersWait
  <1>2. \A v \in Requests : Doing(v)'
    BY <1>1, OthersDoing DEF RowsStay
  <1>3. Claimed' = Claimed
    BY DEF Claimed
  <1> QED BY <1>1, <1>2, <1>3 DEF Types, TypeOK, Books, Places, Rotates, Written

LEMMA RowOf ==
  ASSUME Types, NEW q \in Rotating
  PROVE  /\ row[q] \in Row \cup {NoRow} /\ row[q].progress \in Nat /\ row[q].progress <= Target[q]
         /\ Target[q] \in Nat \ {0}
         /\ row[q] # NoRow /\ row[q].status # "in_progress" => row[q].progress = Target[q]
         /\ row[q].status = "in_progress" => row[q].progress < Target[q]
         /\ q \in Quests
  <1>1. q \in Quests /\ Target[q] \in Nat \ {0}
    BY TargetAssumption DEF Quests
  <1>2. /\ row[q] \in Row \cup {NoRow} /\ row[q].progress <= Target[q] /\ Rotates(q, row[q])
    BY <1>1 DEF Types, TypeOK
  <1>3. row[q].progress \in Nat /\ (row[q] # NoRow => row[q].status \in {"in_progress", "completed", "claimed"})
    BY <1>2, Rows DEF Row
  <1> QED BY <1>1, <1>2, <1>3 DEF Rotates

LEMMA PairMore ==
  ASSUME NEW S, IsFiniteSet(S), NEW a, NEW b
  PROVE  IsFiniteSet(S \cup {a, b})
  <1>1. S \cup {a, b} = (S \cup {a}) \cup {b}
    OBVIOUS
  <1> QED BY <1>1, FS_AddElement

\* Few quests are claimed in a step.
LEMMA FewMore ==
  ASSUME IsFiniteSet(Claimed), NEW a, NEW b, \A q \in Quests : row'[q] = row[q] \/ q \in {a, b}
  PROVE  IsFiniteSet(Claimed')
  <1>1. IsFiniteSet(Claimed \cup {a, b})
    BY PairMore
  <1>2. Claimed' \subseteq Claimed \cup {a, b}
    BY DEF Claimed, Quests
  <1> QED BY <1>1, <1>2, FS_Subset

\* A request writes a row, in its transaction or at once.
LEMMA WriteTypes ==
  ASSUME Types, NEW r \in Requests, NEW place \in Places, NEW new \in Job,
         Moves(r, place, new), NEW k \in Quests, NEW n \in Row,
         n.progress <= Target[k], Rotates(k, n),
         \/ /\ row' = [row EXCEPT ![k] = n] /\ txn' = txn
            /\ k \in Rotating => row[k].progress < Target[k]
         \/ /\ row' = row /\ txn' = [txn EXCEPT ![r][k] = n]
            /\ k \in Rotating => n.status = "claimed",
         Books', Doing(r)'
  PROVE  Types'
  <1>0. /\ row \in [Quests -> Row \cup {NoRow}]
        /\ txn \in [Requests -> [Quests -> Row \cup {Unwritten}]]
    BY DEF Types, TypeOK
  <1>1. /\ row' \in [Quests -> Row \cup {NoRow}]
        /\ txn' \in [Requests -> [Quests -> Row \cup {Unwritten}]]
    BY <1>0
  <1>2. \A q \in Quests : row'[q] = row[q] \/ (q = k /\ row'[q] = n)
    BY <1>0
  <1>3. /\ \A v \in Requests \ {r} : txn'[v] = txn[v]
        /\ \A q \in Quests : txn'[r][q] = txn[r][q] \/ (q = k /\ txn'[r][q] = n)
    BY <1>0
  <1>4. /\ pc' \in [Requests -> Places] /\ work' \in [Requests -> Job]
        /\ OthersWait(r)
    BY Moved, <1>3 DEF OthersWait
  <1>5. \A v \in Requests : Doing(v)'
    <2>1. \A q \in Rotating : row[q].progress \in Nat /\ Target[q] \in Nat
      BY RowOf
    <2>2. row' = row \/ (k \in Rotating => row[k].progress < Target[k])
      OBVIOUS
    <2>3. RowsStay
      BY <1>2, <2>1, <2>2, Rows DEF RowsStay
    <2> QED BY <1>4, <2>3, OthersDoing
  <1>6. \A q \in Quests : row'[q].progress <= Target[q] /\ Rotates(q, row'[q])
    <2>1. \A q \in Quests : row[q].progress <= Target[q] /\ Rotates(q, row[q])
      BY DEF Types, TypeOK
    <2> QED BY <1>2, <2>1
  <1>7. ASSUME NEW v \in Requests, NEW q \in Quests
        PROVE  txn'[v][q].progress <= Target[q] /\ Written(q, txn'[v][q])
    <2>1. txn[v][q].progress <= Target[q] /\ Written(q, txn[v][q])
      BY DEF Types
    <2>2. CASE v = r
      <3>1. txn' = txn \/ Written(k, n)
        BY DEF Written
      <3> QED BY <1>3, <2>1, <2>2, <3>1
    <2>3. CASE v # r
      BY <1>3, <2>1, <2>3
    <2> QED BY <2>2, <2>3
  <1>8. (\A q \in Quests : Rotates(q, row[q]))'
    BY <1>6 DEF Rotates
  <1>9. (\A v \in Requests, q \in Quests : Written(q, txn[v][q]))'
    BY <1>7 DEF Rotates, Written
  <1>10. IsFiniteSet(Claimed')
    <2>1. \A q \in Quests : row'[q] = row[q] \/ q \in {k, k}
      BY <1>2
    <2> QED BY <2>1, FewMore DEF Types
  <1> QED BY <1>1, <1>4, <1>5, <1>6, <1>7, <1>8, <1>9, <1>10 DEF Types, TypeOK, Books, Places

\* A request ends.
LEMMA NoWorkIsJob == NoWork \in Job /\ NoWork.kind = "none" /\ NoWork.event = <<>>
  BY Rows DEF NoWork, Job, Kinds, Quests

LEMMA EndTypes ==
  ASSUME Types, NEW r \in Requests, End(r), Books',
         row' = row \/ row' = [q \in Quests |-> Seen(r, q)]
  PROVE  Types'
  <1>0. /\ row \in [Quests -> Row \cup {NoRow}]
        /\ txn \in [Requests -> [Quests -> Row \cup {Unwritten}]]
    BY DEF Types, TypeOK
  <1>1. Moves(r, "idle", NoWork) /\ txn' = [txn EXCEPT ![r] = NoRows]
    BY DEF End, Goto, Moves
  <1>2. /\ pc' \in [Requests -> Places] /\ work' \in [Requests -> Job]
        /\ pc'[r] = "idle" /\ work'[r] = NoWork
        /\ \A v \in Requests \ {r} : pc'[v] = pc[v] /\ work'[v] = work[v]
    <2>1. NoWork \in Job /\ "idle" \in Places
      BY NoWorkIsJob DEF Places
    <2> QED BY <1>1, <2>1, Moved
  <1>3. /\ txn' \in [Requests -> [Quests -> Row \cup {Unwritten}]]
        /\ \A v \in Requests \ {r} : txn'[v] = txn[v]
        /\ \A q \in Quests : txn'[r][q] = Unwritten
    BY <1>0, <1>1 DEF NoRows
  <1>4. \A q \in Quests : row'[q] = row[q] \/ (row'[q] = txn[r][q] /\ txn[r][q] # Unwritten)
    BY <1>0 DEF Seen
  <1>5. /\ row' \in [Quests -> Row \cup {NoRow}]
        /\ RowsStay
    <2>1. \A q \in Quests : row'[q] \in Row \cup {NoRow} /\ (row[q] # NoRow => row'[q] # NoRow)
      BY <1>0, <1>4, Rows
    <2>2. row' = row \/ row' = [q \in Quests |-> Seen(r, q)]
      OBVIOUS
    <2>3. \A q \in Rotating : txn[r][q] # Unwritten => txn[r][q].progress = Target[q]
      BY DEF Types, Written, Rotates, Quests
    <2> QED BY <1>0, <1>4, <2>1, <2>2, <2>3 DEF RowsStay
  <1>6. Doing(r)'
    BY <1>2, <1>3, NoWorkIsJob, NoEvent DEF Doing, IsClaim, NoWork, Handling, Syncing
  <1>7. \A v \in Requests : Doing(v)'
    BY <1>2, <1>3, <1>5, <1>6, OthersDoing DEF OthersWait
  <1>8. \A q \in Quests : row'[q].progress <= Target[q] /\ Rotates(q, row'[q])
    <2>1. \A q \in Quests : row[q].progress <= Target[q] /\ Rotates(q, row[q])
      BY DEF Types, TypeOK
    <2>2. \A q \in Quests : txn[r][q].progress <= Target[q] /\ (txn[r][q] # Unwritten => Rotates(q, txn[r][q]))
      BY DEF Types, Written
    <2> QED BY <1>4, <2>1, <2>2
  <1>9. ASSUME NEW v \in Requests, NEW q \in Quests
        PROVE  txn'[v][q].progress <= Target[q] /\ Written(q, txn'[v][q])
    <2>1. txn[v][q].progress <= Target[q] /\ Written(q, txn[v][q])
      BY DEF Types
    <2>2. CASE v = r
      BY <1>3, <2>2, Rows, TargetAssumption DEF Written
    <2>3. CASE v # r
      BY <1>3, <2>1, <2>3
    <2> QED BY <2>2, <2>3
  <1>10. (\A q \in Quests : Rotates(q, row[q]))'
    BY <1>8 DEF Rotates
  <1>11. (\A v \in Requests, q \in Quests : Written(q, txn[v][q]))'
    BY <1>9 DEF Rotates, Written
  <1>12. IsFiniteSet(Claimed')
    <2>1. \A q \in Quests : row'[q] = row[q] \/ q \in {work[r].quest, Milestone}
      <3>1. \A q \in Quests : txn[r][q] # Unwritten => q \in {work[r].quest, Milestone}
        BY DEF Types, Doing
      <3> QED BY <1>4, <3>1
    <2> QED BY <2>1, FewMore DEF Types
  <1> QED BY <1>2, <1>3, <1>5, <1>7, <1>8, <1>9, <1>10, <1>11, <1>12
          DEF Types, TypeOK, Books, Places

\* The progress of an event.
LEMMA ProgressedRow ==
  ASSUME NEW q \in Rotating, NEW old \in Nat, old < Target[q], NEW inc \in {1, -1},
         NEW n, n = Progressed(q, old, inc)
  PROVE  /\ n \in Row /\ n.progress <= Target[q] /\ Rotates(q, n)
         /\ n.status \in {"in_progress", "completed"} /\ n.claimedAt = FALSE
         /\ inc = 1 => n.progress = old + 1
         /\ inc = -1 => n.progress = Max(0, old - 1)
  <1>1. Target[q] \in Nat \ {0}
    BY TargetAssumption DEF Quests
  <1>2. /\ n.progress = Min(Target[q], Max(0, old + inc)) /\ n.claimedAt = FALSE
        /\ n.status = IF n.progress >= Target[q] THEN "completed" ELSE "in_progress"
        /\ n = [progress |-> n.progress, claimedAt |-> n.claimedAt, status |-> n.status]
    BY DEF Progressed
  <1>3. /\ n.progress \in Nat /\ n.progress <= Target[q]
        /\ inc = 1 => n.progress = old + 1
        /\ inc = -1 => n.progress = Max(0, old - 1)
    BY <1>1, <1>2 DEF Min, Max
  <1>4. n \in Row
    BY <1>2, <1>3 DEF Row
  <1>5. Rotates(q, n)
    BY <1>1, <1>2, <1>3 DEF Rotates
  <1> QED BY <1>2, <1>3, <1>4, <1>5

\* The milestone as it is written.
LEMMA NextMilestoneRow ==
  ASSUME NEW existing \in Row \cup {NoRow}, NEW current \in Row \cup {NoRow}, NEW count \in Nat,
         NEW n, n = NextMilestone(existing, current, count)
  PROVE  /\ n \in Row /\ n.progress <= Target[Milestone] /\ Rotates(Milestone, n)
         /\ n.claimedAt = current.claimedAt
         /\ n.status \in {"completed", "claimed"} =>
              \/ existing.status = "claimed" \/ existing.claimedAt = TRUE
              \/ count >= Target[Milestone]
  <1>1. Target[Milestone] \in Nat \ {0}
    BY TargetAssumption DEF Quests
  <1>2. current.claimedAt \in BOOLEAN /\ existing.claimedAt \in BOOLEAN
    BY Rows DEF Row
  <1> DEFINE isClaimed == existing.status = "claimed" \/ existing.claimedAt
             progress == Min(Target[Milestone], Max(IF isClaimed THEN Target[Milestone] ELSE 0, count))
  <1>3. n = [progress |-> progress, claimedAt |-> current.claimedAt,
             status |-> IF existing.status = "claimed" THEN "claimed"
                        ELSE IF progress >= Target[Milestone] THEN "completed" ELSE "in_progress"]
    BY DEF NextMilestone
  <1>4. progress \in Nat /\ progress <= Target[Milestone]
    BY <1>1 DEF Min, Max
  <1>5. progress >= Target[Milestone] => isClaimed \/ count >= Target[Milestone]
    BY <1>1 DEF Min, Max
  <1> HIDE DEF progress
  <1>6. n \in Row /\ n.progress <= Target[Milestone] /\ n.claimedAt = current.claimedAt
    BY <1>2, <1>3, <1>4 DEF Row
  <1>7. /\ n.status \in {"completed", "claimed"} => isClaimed \/ count >= Target[Milestone]
        /\ isClaimed => existing.status = "claimed" \/ existing.claimedAt = TRUE
    BY <1>2, <1>3, <1>5
  <1>8. Rotates(Milestone, n)
    BY QuestAssumption DEF Rotates
  <1> QED BY <1>6, <1>7, <1>8

\* What a request sees is a row, or none.
LEMMA SeenRow ==
  ASSUME Types, NEW r \in Requests, NEW q \in Quests
  PROVE  /\ Seen(r, q) \in Row \cup {NoRow} /\ Seen(r, q).progress <= Target[q]
         /\ Rotates(q, Seen(r, q))
  <1>1. row[q] \in Row \cup {NoRow} /\ txn[r][q] \in Row \cup {Unwritten}
    BY DEF Types, TypeOK
  <1> QED BY <1>1 DEF Seen, Types, TypeOK, Written

LEMMA ClaimedSeenFinite ==
  ASSUME Types, NEW r \in Requests
  PROVE  IsFiniteSet(ClaimedSeen(r)) /\ Cardinality(ClaimedSeen(r)) \in Nat
  <1> DEFINE S == {work[r].quest, Milestone}
  <1>1. IsFiniteSet(Claimed \cup S)
    BY PairMore DEF Types
  <1>2. ClaimedSeen(r) \subseteq Claimed \cup S
    <2>1. \A q \in Quests : txn[r][q] = Unwritten \/ q \in S
      BY DEF Types, Doing
    <2> QED BY <2>1 DEF ClaimedSeen, Seen, Claimed, Quests
  <1> QED BY <1>1, <1>2, FS_Subset, FS_CardinalityType

-----------------------------------------------------------------------------
(* What the steps do.                                                      *)

\* The event is counted, ...
CountStep(r, k, n) ==
  /\ pc[r] \in Handling /\ k = work[r].quest /\ n = Progressed(k, row[k].progress, work[r].event[3])
  /\ row[k].status \in {"none", "in_progress"} /\ row[k].progress < Target[k]
  /\ row' = [row EXCEPT ![k] = n]
  /\ Moves(r, "sync", [work[r] EXCEPT !.syncs = 1]) \/ Moves(r, "ack", work[r])
  /\ UNCHANGED <<txn, pending, xp, paid, histVars>>

\* ... or the statement touches no row, and the event is over only when there is
\* nothing to count.
MissStep(r, k, place) ==
  /\ pc[r] \in Handling /\ k = work[r].quest /\ Moves(r, place, work[r])
  /\ place \in {"insert", "retry"} => work[r].event[3] = 1
  /\ place = "retry" => row[k] # NoRow
  /\ place = "ack" => row[k].progress = Target[k] \/ (row[k] = NoRow /\ work[r].event[3] = -1)
  /\ UNCHANGED <<row, txn, pending, xp, paid, histVars>>

LEMMA WorkOf ==
  ASSUME Types, NEW r \in Requests
  PROVE  /\ work[r] \in Job /\ work[r].quest \in Quests /\ Doing(r)
         /\ pc[r] \in Handling \cup {"ack"} =>
              /\ work[r].quest \in Rotating /\ work[r].event \in Events /\ work[r].kind = "event"
              /\ work[r].event[3] \in {1, -1} /\ work[r].quest = work[r].event[1]
  <1>1. work[r] \in Job /\ Doing(r)
    BY DEF Types
  <1>2. work[r].quest \in Quests
    BY <1>1 DEF Job
  <1>3. ASSUME pc[r] \in Handling \cup {"ack"}
        PROVE  work[r].event \in Events /\ work[r].kind = "event" /\ work[r].quest = work[r].event[1]
    BY <1>1, <1>3 DEF Doing
  <1> QED BY <1>1, <1>2, <1>3, NoEvent

LEMMA EventSteps ==
  ASSUME Types, NEW r \in Requests,
         updateExistingUserQuestProgress(r) \/ insertNewUserQuestProgress(r) \/ RetryUpdate(r)
  PROVE  \/ \E k \in Rotating, n \in Row : CountStep(r, k, n)
         \/ \E k \in Rotating, place \in {"insert", "retry", "ack"} : MissStep(r, k, place)
  <1>0. pc[r] \in Handling
    BY DEF updateExistingUserQuestProgress, insertNewUserQuestProgress, RetryUpdate, Handling
  <1>1. PICK k \in Rotating, e \in Events : k = work[r].quest /\ e = work[r].event
    BY <1>0, WorkOf
  <1>2. /\ e[3] \in {1, -1} /\ (pc[r] \in {"insert", "retry"} => e[3] = 1)
        /\ pc[r] = "retry" => row[k] # NoRow
    BY <1>0, <1>1, WorkOf, NoEvent DEF Doing
  <1>3. Target[k] \in Nat \ {0} /\ NoRow.progress = 0 /\ NoRow.status = "none"
    BY RowOf, Rows
  <1>4. UNCHANGED <<txn, pending, xp, paid, histVars>>
    BY DEF updateExistingUserQuestProgress, insertNewUserQuestProgress, RetryUpdate, UpdateProgress
  <1>5. \A place : Goto(r, place) /\ work' = work => Moves(r, place, work[r])
    BY DEF Goto, Moves, Types
  <1>6. ASSUME NEW n, n = Progressed(k, row[k].progress, e[3]), row' = [row EXCEPT ![k] = n],
               row[k].status \in {"none", "in_progress"}, row[k].progress < Target[k],
               AfterCount(r, k)
        PROVE  \E m \in Row : CountStep(r, k, m)
    <2>1. n \in Row
      BY <1>2, <1>6, ProgressedRow, RowOf
    <2>2. Moves(r, "sync", [work[r] EXCEPT !.syncs = 1]) \/ Moves(r, "ack", work[r])
      <3>1. CASE row'[k].status = "completed"
        BY <1>6, <3>1 DEF AfterCount, Moves, Goto
      <3>2. CASE row'[k].status # "completed"
        BY <1>5, <1>6, <3>2 DEF AfterCount
      <3> QED BY <3>1, <3>2
    <2> QED BY <1>0, <1>1, <1>4, <1>6, <2>1, <2>2 DEF CountStep
  <1>7. ASSUME NEW miss, UpdateProgress(r, miss), Counts(k) PROVE \E n \in Row : CountStep(r, k, n)
    BY <1>1, <1>6, <1>7 DEF UpdateProgress, Counts
  <1>8. ASSUME NEW miss, UpdateProgress(r, miss), ~Counts(k)
        PROVE  /\ Moves(r, miss, work[r]) /\ row' = row
               /\ row[k] = NoRow \/ row[k].progress = Target[k]
    BY <1>1, <1>5, <1>8, RowOf DEF UpdateProgress, Counts
  <1>9. CASE updateExistingUserQuestProgress(r)
    <2>1. PICK miss \in {"ack", "insert"} :
            UpdateProgress(r, miss) /\ (miss = "ack" <=> e[3] < 0)
      BY <1>1, <1>9 DEF updateExistingUserQuestProgress
    <2>2. CASE Counts(k)
      BY <1>7, <2>1, <2>2
    <2>3. CASE ~Counts(k)
      <3>1. MissStep(r, k, miss)
        BY <1>0, <1>1, <1>2, <1>4, <1>8, <2>1, <2>3 DEF MissStep
      <3> QED BY <2>1, <3>1
    <2> QED BY <2>2, <2>3
  <1>10. CASE insertNewUserQuestProgress(r)
    <2>1. CASE row[k] = NoRow
      BY <1>1, <1>3, <1>6, <1>10, <2>1 DEF insertNewUserQuestProgress
    <2>2. CASE row[k] # NoRow
      <3>1. Moves(r, "retry", work[r]) /\ row' = row /\ pc[r] = "insert"
        BY <1>1, <1>5, <1>10, <2>2 DEF insertNewUserQuestProgress
      <3>2. MissStep(r, k, "retry")
        BY <1>0, <1>1, <1>2, <1>4, <2>2, <3>1 DEF MissStep
      <3> QED BY <3>2
    <2> QED BY <2>1, <2>2
  <1>11. CASE RetryUpdate(r)
    <2>1. UpdateProgress(r, "ack") /\ pc[r] = "retry"
      BY <1>11 DEF RetryUpdate
    <2>2. CASE Counts(k)
      BY <1>7, <2>1, <2>2
    <2>3. CASE ~Counts(k)
      <3>1. MissStep(r, k, "ack")
        BY <1>0, <1>1, <1>2, <1>4, <1>8, <2>1, <2>3 DEF MissStep
      <3> QED BY <3>1
    <2> QED BY <2>2, <2>3
  <1> QED BY <1>9, <1>10, <1>11

\* The milestone is written, unless it would be as it was read.
MilestoneStep(r, n) ==
  LET job == work[r]
  IN /\ pc[r] = "write"
     /\ n = NextMilestone(job.existing, Seen(r, Milestone), job.count)
     /\ \/ UNCHANGED <<row, txn>>
        \/ ~Locked(Milestone, r) /\ Store(r, Milestone, n)
     /\ \/ job.kind = "view" /\ Moves(r, "idle", NoWork)
        \/ /\ job.kind # "view"
           /\ Moves(r, IF job.syncs > 1 THEN "sync" ELSE IF IsClaim(r) THEN "commit" ELSE "ack",
                    [job EXCEPT !.syncs = @ - 1, !.existing = NoRow, !.count = 0])
     /\ UNCHANGED <<pending, xp, paid, histVars>>

LEMMA WriteStep ==
  ASSUME Types, NEW r \in Requests, WriteMilestone(r)
  PROVE  \E n \in Row : MilestoneStep(r, n)
  <1>1. PICK n : n = NextMilestone(work[r].existing, Seen(r, Milestone), work[r].count)
    OBVIOUS
  <1>2. n \in Row
    <2>1. work[r].existing \in Row \cup {NoRow} /\ work[r].count \in Nat
      BY WorkOf DEF Job
    <2>2. Seen(r, Milestone) \in Row \cup {NoRow}
      BY SeenRow DEF Quests
    <2> QED BY <1>1, <2>1, <2>2, NextMilestoneRow
  <1>3. UNCHANGED <<row, txn>> \/ (~Locked(Milestone, r) /\ Store(r, Milestone, n))
    BY <1>1 DEF WriteMilestone
  <1>4. Synced(r) /\ pc[r] = "write" /\ UNCHANGED <<pending, xp, paid, histVars>>
    BY DEF WriteMilestone
  <1> QED BY <1>1, <1>2, <1>3, <1>4 DEF MilestoneStep, Synced, Moves, Goto

\* The steps that end a request and undo what it has written.
Abort(r) ==
  /\ End(r) /\ Rollback(r) /\ UNCHANGED <<row, xp, paid, pending>>
  /\ \/ Nack(r)
     \/ (pc[r] = "reward" \/ IsClaim(r)) /\ UNCHANGED recounted
  /\ failures' = failures \/ (failures < MaxFailures /\ failures' = failures + 1)

LEMMA AbortSteps ==
  ASSUME NEW r \in Requests,
         \/ RefuseTransfer(r) \/ Fail(r) \/ InsertConflict(r)
         \/ \E v \in Requests : BreakDeadlock(r, v)
  PROVE  \E v \in Requests : Abort(v)
  BY DEF RefuseTransfer, Fail, InsertConflict, BreakDeadlock, Rollback, Abort

Step(r) ==
  \/ \E e \in pending : Deliver(r, e)
  \/ \E k \in Rotating, n \in Row : CountStep(r, k, n)
  \/ \E k \in Rotating, place \in {"insert", "retry", "ack"} : MissStep(r, k, place)
  \/ Ack(r) \/ ViewQuests(r) \/ ReadMilestone(r) \/ CountQuests(r)
  \/ \E n \in Row : MilestoneStep(r, n)
  \/ \E q \in Quests : LockQuest(r, q)
  \/ applyQuestRewards(r) \/ MarkClaimed(r) \/ Commit(r) \/ Abort(r)

LEMMA Steps ==
  ASSUME Types, [Next]_vars
  PROVE  (\E r \in Requests : Step(r)) \/ UNCHANGED vars
  <1>1. ASSUME NEW r \in Requests, Work(r) \/ RefuseTransfer(r) \/ Fail(r)
        PROVE  \E v \in Requests : Step(v)
    <2>1. CASE updateExistingUserQuestProgress(r) \/ insertNewUserQuestProgress(r) \/ RetryUpdate(r)
      BY <2>1, EventSteps DEF Step
    <2>2. CASE WriteMilestone(r)
      BY <2>2, WriteStep DEF Step
    <2>3. CASE \/ RefuseTransfer(r) \/ Fail(r) \/ InsertConflict(r)
               \/ \E v \in Requests : BreakDeadlock(r, v)
      BY <2>3, AbortSteps DEF Step
    <2> QED BY <1>1, <2>1, <2>2, <2>3 DEF Work, Step
  <1> QED BY <1>1 DEF Next, Step

LEMMA TypesInductive == Types /\ [Next]_vars => Types'
  <1> SUFFICES ASSUME Types, [Next]_vars PROVE Types'
    OBVIOUS
  <1>0. Books
    BY DEF Types, TypeOK, Books
  <1>1. ASSUME NEW r \in Requests, NEW e \in pending, Deliver(r, e) PROVE Types'
    <2>1. e \in Events /\ e[1] \in Quests
      BY <1>0, NoEvent DEF Books, Quests
    <2> DEFINE new == [NoWork EXCEPT !.kind = "event", !.quest = e[1], !.event = e]
    <2>2. /\ new \in Job /\ new.kind = "event" /\ new.quest = e[1] /\ new.event = e
          /\ new.syncs = 0
      BY <2>1, Rows DEF NoWork, Job, Kinds
    <2>3. /\ Moves(r, "update", new) /\ UNCHANGED <<row, txn, pending, xp, paid, histVars>>
          /\ pc[r] = "idle"
      BY <1>1 DEF Deliver, Moves, Goto
    <2>4. \A q \in Quests : txn[r][q] = Unwritten
      BY <2>3, WorkOf DEF Doing, IsClaim
    <2> HIDE DEF new
    <2>5. "update" \in Places /\ pc'[r] = "update" /\ work'[r] = new
      BY <2>2, <2>3, Moved DEF Places, Handling
    <2>6. Doing(r)'
      BY <2>1, <2>2, <2>3, <2>4, <2>5 DEF Doing, IsClaim, Handling, Syncing
    <2> QED BY <1>0, <2>2, <2>3, <2>5, <2>6, LocalTypes DEF Books, histVars
  <1>2. ASSUME NEW r \in Requests, NEW k \in Rotating, NEW n \in Row, CountStep(r, k, n) PROVE Types'
    <2>1. PICK place \in {"sync", "ack"}, new \in Job :
            /\ Moves(r, place, new)
            /\ new = work[r] \/ new = [work[r] EXCEPT !.syncs = 1]
            /\ place = "sync" => new = [work[r] EXCEPT !.syncs = 1]
      <3>1. [work[r] EXCEPT !.syncs = 1] \in Job /\ work[r] \in Job
        BY WorkOf DEF Job
      <3> QED BY <1>2, <3>1 DEF CountStep
    <2>2. /\ new.kind = "event" /\ new.event = work[r].event /\ new.quest = k
          /\ new.syncs = 1 \/ (new.syncs = work[r].syncs /\ work[r].syncs <= 1)
          /\ place = "sync" => new.syncs = 1
      BY <1>2, <2>1, WorkOf DEF CountStep, Doing, IsClaim, Job
    <2>3. /\ n.progress <= Target[k] /\ Rotates(k, n) /\ k \in Quests
      BY <1>2, ProgressedRow, RowOf, WorkOf DEF CountStep
    <2>4. /\ row' = [row EXCEPT ![k] = n] /\ txn' = txn /\ row[k].progress < Target[k]
          /\ UNCHANGED <<pending, xp, paid, histVars>>
      BY <1>2 DEF CountStep
    <2>5. \A q \in Quests : txn[r][q] = Unwritten
      BY <1>2, WorkOf DEF CountStep, Doing, IsClaim
    <2>6. place \in Places /\ pc'[r] = place /\ work'[r] = new
      BY <2>1, Moved DEF Places, Syncing
    <2>7. work[r].event \in Events /\ k = work[r].event[1]
      BY <1>2, WorkOf DEF CountStep
    <2>8. Doing(r)'
      BY <2>1, <2>2, <2>4, <2>5, <2>6, <2>7 DEF Doing, IsClaim, Handling, Syncing
    <2> QED BY <1>0, <2>1, <2>3, <2>4, <2>6, <2>8, WriteTypes DEF Books, histVars
  <1>3. ASSUME NEW r \in Requests, NEW k \in Rotating, NEW place \in {"insert", "retry", "ack"},
               MissStep(r, k, place)
        PROVE  Types'
    <2>1. /\ Moves(r, place, work[r]) /\ UNCHANGED <<row, txn, pending, xp, paid, histVars>>
          /\ work[r] \in Job /\ place \in Places
      BY <1>3, WorkOf DEF MissStep, Places, Handling
    <2>2. pc'[r] = place /\ work'[r] = work[r]
      BY <2>1, Moved
    <2>3. work[r].kind = "event" /\ Doing(r)
      BY <1>3, WorkOf DEF MissStep
    <2>4. Doing(r)'
      BY <1>3, <2>1, <2>2, <2>3 DEF Doing, MissStep, IsClaim, Handling, Syncing
    <2> QED BY <1>0, <2>1, <2>4, LocalTypes DEF Books, histVars
  <1>4. ASSUME NEW r \in Requests, Ack(r) PROVE Types'
    BY <1>0, <1>4, EndTypes DEF Ack, Books, histVars
  <1>5. ASSUME NEW r \in Requests, ViewQuests(r) PROVE Types'
    <2> DEFINE new == [NoWork EXCEPT !.kind = "view", !.syncs = 1]
    <2>1. new \in Job /\ new.kind = "view" /\ new.event = <<>> /\ new.syncs = 1
      BY Rows DEF NoWork, Job, Kinds, Quests
    <2>2. /\ Moves(r, "sync", new) /\ UNCHANGED <<row, txn, pending, xp, paid, histVars>>
          /\ pc[r] = "idle"
      BY <1>5 DEF ViewQuests, Moves, Goto
    <2>3. \A q \in Quests : txn[r][q] = Unwritten
      BY <2>2, WorkOf DEF Doing, IsClaim
    <2> HIDE DEF new
    <2>4. "sync" \in Places /\ pc'[r] = "sync" /\ work'[r] = new
      BY <2>1, <2>2, Moved DEF Places, Syncing
    <2>5. Doing(r)'
      BY <2>1, <2>2, <2>3, <2>4, NoEvent DEF Doing, IsClaim, Handling, Syncing
    <2> QED BY <1>0, <2>1, <2>2, <2>4, <2>5, LocalTypes DEF Books, histVars
  <1>6. ASSUME NEW r \in Requests, ReadMilestone(r) \/ CountQuests(r) PROVE Types'
    <2>1. PICK place \in {"count", "write"}, new \in Job :
            /\ Moves(r, place, new)
            /\ new.kind = work[r].kind /\ new.quest = work[r].quest /\ new.event = work[r].event
            /\ new.syncs = work[r].syncs
      <3>1. Seen(r, Milestone) \in Row \cup {NoRow}
        BY SeenRow DEF Quests
      <3>2. QuestCompleteCount(r) \in Nat
        BY ClaimedSeenFinite DEF QuestCompleteCount, ClaimedSeen
      <3>3. CASE ReadMilestone(r)
        <4> DEFINE new == [work[r] EXCEPT !.existing = Seen(r, Milestone)]
        <4>1. new \in Job /\ new.kind = work[r].kind /\ new.quest = work[r].quest
              /\ new.event = work[r].event /\ new.syncs = work[r].syncs
          BY <3>1, WorkOf DEF Job
        <4>2. Moves(r, "count", new)
          BY <3>3 DEF ReadMilestone, Moves, Goto
        <4> QED BY <4>1, <4>2
      <3>4. CASE CountQuests(r)
        <4> DEFINE new == [work[r] EXCEPT !.count = QuestCompleteCount(r)]
        <4>1. new \in Job /\ new.kind = work[r].kind /\ new.quest = work[r].quest
              /\ new.event = work[r].event /\ new.syncs = work[r].syncs
          BY <3>2, WorkOf DEF Job
        <4>2. Moves(r, "write", new)
          BY <3>4 DEF CountQuests, Moves, Goto
        <4> QED BY <4>1, <4>2
      <3> QED BY <1>6, <3>3, <3>4
    <2>2. UNCHANGED <<row, txn, pending, xp, paid, histVars>> /\ pc[r] \in Syncing
      BY <1>6 DEF ReadMilestone, CountQuests, Syncing
    <2>3. place \in Places /\ pc'[r] = place /\ work'[r] = new
      BY <2>1, Moved DEF Places, Syncing
    <2>4. Doing(r)'
      BY <2>1, <2>2, <2>3, WorkOf DEF Doing, IsClaim, Handling, Syncing
    <2> QED BY <1>0, <2>1, <2>2, <2>3, <2>4, LocalTypes DEF Books, histVars
  <1>7. ASSUME NEW r \in Requests, NEW n \in Row, MilestoneStep(r, n) PROVE Types'
    <2>1. PICK place \in {"idle", "sync", "commit", "ack"}, new \in Job :
            /\ Moves(r, place, new)
            /\ \/ work[r].kind = "view" /\ place = "idle" /\ new = NoWork
               \/ /\ work[r].kind # "view" /\ place # "idle"
                  /\ place = "sync" => work[r].syncs > 1
                  /\ place = "commit" => IsClaim(r)
                  /\ place = "ack" => ~IsClaim(r)
                  /\ new.kind = work[r].kind /\ new.quest = work[r].quest
                  /\ new.event = work[r].event /\ new.syncs = work[r].syncs - 1
      <3>1. CASE work[r].kind = "view"
        BY <1>7, <3>1, NoWorkIsJob DEF MilestoneStep
      <3>2. CASE work[r].kind # "view"
        <4> DEFINE new == [work[r] EXCEPT !.syncs = @ - 1, !.existing = NoRow, !.count = 0]
                   place == IF work[r].syncs > 1 THEN "sync" ELSE IF IsClaim(r) THEN "commit" ELSE "ack"
        <4>1. work[r] \in Job /\ work[r].syncs >= 1 /\ work[r].syncs - 1 \in Nat
          BY <1>7, WorkOf DEF MilestoneStep, Doing, Syncing, Job
        <4>2. new \in Job /\ new.kind = work[r].kind /\ new.quest = work[r].quest
              /\ new.event = work[r].event /\ new.syncs = work[r].syncs - 1
          BY <4>1 DEF Job
        <4>3. Moves(r, place, new)
          BY <1>7, <3>2 DEF MilestoneStep
        <4> HIDE DEF new
        <4> QED BY <3>2, <4>2, <4>3
      <3> QED BY <3>1, <3>2
    <2>2. /\ n.progress <= Target[Milestone] /\ Rotates(Milestone, n) /\ Milestone \in Quests
          /\ n.claimedAt = Seen(r, Milestone).claimedAt
      <3>1. work[r].existing \in Row \cup {NoRow} /\ work[r].count \in Nat
        BY WorkOf DEF Job
      <3>2. Seen(r, Milestone) \in Row \cup {NoRow} /\ Milestone \in Quests
        BY SeenRow DEF Quests
      <3>3. PICK existing \in Row \cup {NoRow}, current \in Row \cup {NoRow}, count \in Nat :
              current = Seen(r, Milestone) /\ n = NextMilestone(existing, current, count)
        BY <1>7, <3>1, <3>2 DEF MilestoneStep
      <3>4. n = NextMilestone(existing, current, count)
        BY <3>3
      <3>5. /\ n.progress <= Target[Milestone] /\ Rotates(Milestone, n)
            /\ n.claimedAt = current.claimedAt
        <4>1. n.progress <= Target[Milestone] /\ Rotates(Milestone, n)
          BY <3>4, NextMilestoneRow
        <4>2. n.claimedAt = current.claimedAt
          BY <3>4 DEF NextMilestone
        <4> QED BY <4>1, <4>2
      <3> QED BY <3>2, <3>3, <3>5
    <2>3. /\ UNCHANGED <<pending, xp, paid, histVars>>
          /\ \/ UNCHANGED <<row, txn>>
             \/ IsClaim(r) /\ row' = row /\ txn' = [txn EXCEPT ![r][Milestone] = n]
             \/ ~IsClaim(r) /\ row' = [row EXCEPT ![Milestone] = n] /\ txn' = txn
      BY <1>7 DEF MilestoneStep, Store
    <2>4. place \in Places /\ pc'[r] = place /\ work'[r] = new
      BY <2>1, Moved DEF Places, Syncing
    <2>5. /\ Doing(r) /\ pc[r] = "write" /\ work[r] \in Job /\ txn \in [Requests -> [Quests -> Row \cup {Unwritten}]]
      BY <1>7, WorkOf DEF MilestoneStep, Types, TypeOK
    <2>6. \A q \in Quests : txn'[r][q] # Unwritten => IsClaim(r) /\ q \in {work[r].quest, Milestone}
      BY <2>2, <2>3, <2>5 DEF Doing
    <2>7. Doing(r)'
      <3>1. CASE work[r].kind = "view"
        <4>1. new = NoWork /\ place = "idle"
          BY <2>1, <3>1
        <4>2. ~IsClaim(r)
          BY <3>1 DEF IsClaim
        <4> QED BY <2>4, <2>6, <4>1, <4>2, NoWorkIsJob, NoEvent DEF Doing, IsClaim, Handling, Syncing, NoWork
      <3>2. CASE work[r].kind # "view"
        <4>1. /\ place \in {"sync", "commit", "ack"}
              /\ place = "sync" => work[r].syncs > 1
              /\ place = "commit" => IsClaim(r)
              /\ place = "ack" => ~IsClaim(r)
              /\ new.kind = work[r].kind /\ new.quest = work[r].quest
              /\ new.event = work[r].event /\ new.syncs = work[r].syncs - 1
          BY <2>1, <3>2
        <4>2. work[r].syncs \in Nat /\ work[r].kind \in Kinds /\ work[r].kind # "none"
          BY <2>5 DEF Job, Doing
        <4>3. place = "ack" => work[r].kind = "event"
          BY <3>2, <4>1, <4>2 DEF Kinds, IsClaim
        <4>4. IsClaim(r) => row' = row
          BY <2>3
        <4> QED BY <2>4, <2>5, <2>6, <4>1, <4>2, <4>3, <4>4 DEF Doing, IsClaim, Handling, Syncing
      <3> QED BY <3>1, <3>2
    <2>8. CASE UNCHANGED <<row, txn>>
      BY <1>0, <2>1, <2>3, <2>4, <2>7, <2>8, LocalTypes DEF Books, histVars
    <2>9. CASE ~UNCHANGED <<row, txn>>
      <3>1. \/ row' = [row EXCEPT ![Milestone] = n] /\ txn' = txn
            \/ row' = row /\ txn' = [txn EXCEPT ![r][Milestone] = n]
        BY <2>3, <2>9
      <3> QED BY <1>0, <2>1, <2>2, <2>3, <2>4, <2>7, <3>1, WriteTypes, QuestAssumption
              DEF Books, histVars
    <2> QED BY <2>8, <2>9
  <1>8. ASSUME NEW r \in Requests, NEW q \in Quests, LockQuest(r, q) PROVE Types'
    <2> DEFINE new == [NoWork EXCEPT !.kind = "claim", !.quest = q, !.syncs = 2]
    <2>1. new \in Job /\ new.kind = "claim" /\ new.event = <<>> /\ new.syncs = 2
      BY Rows DEF NoWork, Job, Kinds
    <2>2. /\ Moves(r, "reward", new) /\ UNCHANGED <<row, txn, pending, xp, paid, histVars>>
          /\ pc[r] = "idle"
      BY <1>8 DEF LockQuest, Moves, Goto
    <2>3. \A k \in Quests : txn[r][k] = Unwritten
      BY <2>2, WorkOf DEF Doing, IsClaim
    <2> HIDE DEF new
    <2>4. "reward" \in Places /\ pc'[r] = "reward" /\ work'[r] = new
      BY <2>1, <2>2, Moved DEF Places
    <2>5. new.quest = q /\ row[q] # NoRow /\ row[q].status = "completed"
      BY <1>8 DEF LockQuest, Claimable, new, NoWork
    <2>6. q \in Rotating => row[q].progress = Target[q]
      BY <2>5, RowOf
    <2>7. Doing(r)'
      BY <2>1, <2>2, <2>3, <2>4, <2>5, <2>6, NoEvent DEF Doing, IsClaim, Handling, Syncing
    <2> QED BY <1>0, <2>1, <2>2, <2>4, <2>7, LocalTypes DEF Books, histVars
  <1>9. ASSUME NEW r \in Requests, applyQuestRewards(r) PROVE Types'
    <2>1. /\ Moves(r, "mark", work[r]) /\ UNCHANGED <<row, txn, pending, xp, histVars>>
          /\ pc[r] = "reward" /\ work[r] \in Job
      BY <1>9, WorkOf DEF applyQuestRewards, Moves, Goto, Types
    <2>2. paid' \in [Quests -> 0..2]
      <3>1. paid' = [paid EXCEPT ![work[r].quest] = Min(@ + 1, 2)] /\ work[r].quest \in Quests
        BY <1>9, WorkOf DEF applyQuestRewards
      <3> QED BY <1>0, <3>1 DEF Books, Min
    <2>3. "mark" \in Places /\ pc'[r] = "mark" /\ work'[r] = work[r]
      BY <2>1, Moved DEF Places
    <2>4. Doing(r)'
      BY <2>1, <2>3, WorkOf DEF Doing, IsClaim, Handling, Syncing
    <2> QED BY <1>0, <2>1, <2>2, <2>3, <2>4, LocalTypes DEF Books, histVars
  <1>10. ASSUME NEW r \in Requests, MarkClaimed(r) PROVE Types'
    <2>1. PICK k \in Quests : k = work[r].quest
      BY WorkOf
    <2> DEFINE n == [row[k] EXCEPT !.status = "claimed", !.claimedAt = TRUE]
    <2>2. IsClaim(r) /\ pc[r] = "mark"
      BY <1>10, WorkOf DEF MarkClaimed, Doing
    <2>3. /\ Moves(r, "sync", work[r]) /\ txn' = [txn EXCEPT ![r][k] = n]
          /\ UNCHANGED <<row, pending, xp, paid, histVars>> /\ work[r] \in Job
      BY <1>10, <2>1, <2>2, WorkOf DEF MarkClaimed, Moves, Goto, Store, Types
    <2>4. /\ row[k] \in Row /\ row[k].progress <= Target[k]
          /\ k \in Rotating => row[k].progress = Target[k]
      <3>1. row[k] \in Row \cup {NoRow} /\ row[k].progress <= Target[k]
        BY DEF Types, TypeOK
      <3>2. row[k] # NoRow /\ (k \in Rotating => row[k].progress = Target[k])
        BY <2>1, <2>2, WorkOf DEF Doing
      <3> QED BY <3>1, <3>2
    <2>5. n \in Row /\ n.progress = row[k].progress /\ n.status = "claimed" /\ n.claimedAt = TRUE
      BY <2>4 DEF Row
    <2> HIDE DEF n
    <2>6. n.progress <= Target[k] /\ Rotates(k, n)
      BY <2>4, <2>5 DEF Rotates
    <2>7. "sync" \in Places /\ pc'[r] = "sync" /\ work'[r] = work[r]
      BY <2>3, Moved DEF Places, Syncing
    <2>8. \A q \in Quests : txn'[r][q] # Unwritten => q = k
      BY <2>2, <2>3, WorkOf DEF Doing, Types, TypeOK
    <2>9. work[r].syncs >= 1
      BY <2>2, WorkOf DEF Doing
    <2>10. Doing(r)'
      BY <2>1, <2>2, <2>3, <2>7, <2>8, <2>9, WorkOf DEF Doing, IsClaim, Handling, Syncing
    <2> QED BY <1>0, <2>3, <2>5, <2>6, <2>7, <2>10, WriteTypes DEF Books, histVars
  <1>11. ASSUME NEW r \in Requests, Commit(r) PROVE Types'
    <2>1. End(r) /\ row' = [q \in Quests |-> Seen(r, q)]
      BY <1>11 DEF Commit
    <2>2. Books'
      BY <1>0, <1>11 DEF Commit, Books, histVars
    <2> QED BY <2>1, <2>2, EndTypes
  <1>12. ASSUME NEW r \in Requests, Abort(r) PROVE Types'
    <2>1. lost' \subseteq Quests
      BY <1>0, <1>12, WorkOf DEF Abort, Rollback, Books
    <2>2. recounted' \subseteq Rotating
      <3>1. CASE UNCHANGED recounted
        BY <1>0, <3>1 DEF Books
      <3>2. CASE Nack(r)
        <4>1. work[r].kind = "event" => work[r].quest \in Rotating
          BY WorkOf, NoEvent DEF Doing
        <4> QED BY <1>0, <3>2, <4>1 DEF Books, Nack
      <3> QED BY <1>12, <3>1, <3>2 DEF Abort
    <2>3. failures' \in 0..MaxFailures
      BY <1>0, <1>12, BoundAssumption DEF Abort, Books
    <2>4. Books'
      BY <1>0, <1>12, <2>1, <2>2, <2>3 DEF Books, Abort
    <2> QED BY <1>12, <2>4, EndTypes DEF Abort
  <1>13. CASE UNCHANGED vars
    <2>1. UNCHANGED <<row, txn, pc, work, pending, xp, paid, failures, lost, recounted>>
      BY <1>13 DEF vars
    <2>2. TypeOK' /\ Claimed' = Claimed
      BY <2>1 DEF Types, TypeOK, Claimed
    <2>3. \A r \in Requests : Doing(r)'
      BY <2>1 DEF Types, Doing, IsClaim
    <2> QED BY <2>1, <2>2, <2>3 DEF Types, Written, Rotates
  <1> QED
    BY <1>1, <1>2, <1>3, <1>4, <1>5, <1>6, <1>7, <1>8, <1>9, <1>10, <1>11, <1>12, <1>13, Steps
    DEF Step

LEMMA InitTypes == Init => Types
  <1> SUFFICES ASSUME Init PROVE Types
    OBVIOUS
  <1>1. /\ row = [q \in Quests |-> NoRow] /\ txn = [r \in Requests |-> NoRows]
        /\ pc = [r \in Requests |-> "idle"] /\ work = [r \in Requests |-> NoWork]
        /\ pending = Events /\ xp = 0 /\ paid = [q \in Quests |-> 0]
        /\ failures = 0 /\ lost = {} /\ recounted = {}
    BY DEF Init
  <1>2. TypeOK
    BY <1>1, Rows, TargetAssumption, BoundAssumption DEF TypeOK, NoRows
  <1>3. Claimed = {} /\ IsFiniteSet(Claimed)
    BY <1>1, Rows, FS_EmptySet DEF Claimed, Quests
  <1>4. \A r \in Requests, q \in Quests : txn[r][q] = Unwritten
    BY <1>1 DEF NoRows
  <1>5. \A r \in Requests : Doing(r)
    BY <1>1, <1>4, NoWorkIsJob, NoEvent DEF Doing, IsClaim, Handling, Syncing, NoWork
  <1>6. \A q \in Quests : Rotates(q, row[q])
    BY <1>1, Rows, TargetAssumption DEF Rotates
  <1>7. work \in [Requests -> Job]
    BY <1>1, NoWorkIsJob
  <1>8. \A r \in Requests, q \in Quests : txn[r][q].progress <= Target[q] /\ Written(q, txn[r][q])
    BY <1>4, Rows, TargetAssumption DEF Written
  <1> QED BY <1>2, <1>3, <1>5, <1>6, <1>7, <1>8 DEF Types

LEMMA AlwaysTypes == Spec => []Types
  BY InitTypes, TypesInductive, PTL DEF Spec

\* Rows, transactions and counters have their types, and no progress passes its
\* target, for any quests, events, requests and failures.
THEOREM TypeCorrect == Spec => []TypeOK
  <1>1. Types => TypeOK
    BY DEF Types
  <1> QED BY <1>1, AlwaysTypes, PTL

-----------------------------------------------------------------------------
(* Claims keep to themselves.                                              *)

\* A step in which no request claims more, and nothing that is held changes.
LEMMA ClaimsFrame ==
  ASSUME Claims,
         \A v \in Requests : IsClaim(v)' =>
           /\ IsClaim(v) /\ work'[v].quest = work[v].quest /\ txn'[v] = txn[v]
           /\ pc'[v] \in Syncing \cup {"commit"} => pc[v] \in Syncing \cup {"commit"}
           /\ \A q \in Quests : Holds(v, q) => row'[q] = row[q],
         \A v \in Requests : work[v].quest \in Quests
  PROVE  Claims'
  <1>1. \A v \in Requests, q \in Quests : Holds(v, q)' => Holds(v, q)
    BY DEF Holds
  <1>2. Exclusive'
    BY <1>1 DEF Claims, Exclusive
  <1>3. ASSUME NEW v \in Requests PROVE Claiming(v)'
    <2>1. SUFFICES ASSUME IsClaim(v)' PROVE Claiming(v)'
      BY DEF Claiming
    <2>2. /\ IsClaim(v) /\ work'[v].quest = work[v].quest /\ txn'[v] = txn[v]
          /\ pc'[v] \in Syncing \cup {"commit"} => pc[v] \in Syncing \cup {"commit"}
          /\ row'[work[v].quest] = row[work[v].quest]
          /\ txn[v][Milestone] # Unwritten => row'[Milestone] = row[Milestone]
      BY <2>1 DEF Holds, Quests
    <2> QED BY <2>2 DEF Claims, Claiming
  <1> QED BY <1>2, <1>3 DEF Claims

\* Whoever else holds a quest, its row is not for this request to write.
LEMMA HeldElsewhere ==
  ASSUME Claims, NEW r \in Requests, NEW v \in Requests, NEW q \in Quests, Holds(v, q), Holds(r, q)
  PROVE  r = v
  BY DEF Claims, Exclusive

\* What a step leaves of the other requests.
LEMMA StepOthers ==
  ASSUME Types, NEW r \in Requests, Step(r)
  PROVE  OthersWait(r)
  <1>1. /\ txn \in [Requests -> [Quests -> Row \cup {Unwritten}]] /\ DOMAIN pc = Requests /\ DOMAIN work = Requests
    BY DEF Types, TypeOK
  <1>2. CASE \E e \in pending : Deliver(r, e)
    BY <1>1, <1>2 DEF Deliver, Goto, OthersWait
  <1>3. CASE \E k \in Rotating, n \in Row : CountStep(r, k, n)
    BY <1>1, <1>3 DEF CountStep, Moves, OthersWait
  <1>4. CASE \E k \in Rotating, place \in {"insert", "retry", "ack"} : MissStep(r, k, place)
    BY <1>1, <1>4 DEF MissStep, Moves, OthersWait
  <1>5. CASE Ack(r) \/ Commit(r) \/ Abort(r)
    BY <1>1, <1>5 DEF Ack, Commit, Abort, End, Goto, OthersWait
  <1>6. CASE ViewQuests(r) \/ ReadMilestone(r) \/ CountQuests(r)
    BY <1>1, <1>6 DEF ViewQuests, ReadMilestone, CountQuests, Goto, OthersWait
  <1>7. CASE \E n \in Row : MilestoneStep(r, n)
    BY <1>1, <1>7 DEF MilestoneStep, Store, Moves, OthersWait
  <1>8. CASE \E q \in Quests : LockQuest(r, q)
    BY <1>1, <1>8 DEF LockQuest, Goto, OthersWait
  <1>9. CASE applyQuestRewards(r) \/ MarkClaimed(r)
    BY <1>1, <1>9 DEF applyQuestRewards, MarkClaimed, Store, Goto, OthersWait
  <1> QED BY <1>2, <1>3, <1>4, <1>5, <1>6, <1>7, <1>8, <1>9 DEF Step

\* The frame for a step of one request.
LEMMA ClaimsStep ==
  ASSUME Types, Claims, NEW r \in Requests, OthersWait(r),
         IsClaim(r)' =>
           /\ IsClaim(r) /\ work'[r].quest = work[r].quest /\ txn'[r] = txn[r]
           /\ pc'[r] \in Syncing \cup {"commit"} => pc[r] \in Syncing \cup {"commit"},
         \A q \in Quests : row'[q] = row[q] \/ ~\E v \in Requests : Holds(v, q) /\ IsClaim(v)'
  PROVE  Claims'
  <1>1. \A v \in Requests : work[v].quest \in Quests
    BY WorkOf
  <1>2. \A v \in Requests : IsClaim(v)' =>
           /\ IsClaim(v) /\ work'[v].quest = work[v].quest /\ txn'[v] = txn[v]
           /\ pc'[v] \in Syncing \cup {"commit"} => pc[v] \in Syncing \cup {"commit"}
    BY DEF OthersWait, IsClaim
  <1>3. \A v \in Requests : IsClaim(v)' => \A q \in Quests : Holds(v, q) => row'[q] = row[q]
    OBVIOUS
  <1> QED BY <1>1, <1>2, <1>3, ClaimsFrame

LEMMA ClaimsInductive == Types /\ Claims /\ [Next]_vars => Claims'
  <1> SUFFICES ASSUME Types, Claims, [Next]_vars PROVE Claims'
    OBVIOUS
  <1>0. /\ txn \in [Requests -> [Quests -> Row \cup {Unwritten}]] /\ DOMAIN pc = Requests /\ DOMAIN work = Requests
        /\ row \in [Quests -> Row \cup {NoRow}]
    BY DEF Types, TypeOK
  <1>1. ASSUME NEW r \in Requests, NEW e \in pending, Deliver(r, e) PROVE Claims'
    <2>1. OthersWait(r) /\ row' = row
      BY <1>1, StepOthers DEF Step, Deliver
    <2>2. ~IsClaim(r)'
      BY <1>0, <1>1 DEF Deliver, IsClaim, NoWork
    <2> QED BY <2>1, <2>2, ClaimsStep
  <1>2. ASSUME NEW r \in Requests, NEW k \in Rotating, NEW n \in Row, CountStep(r, k, n) PROVE Claims'
    <2>1. OthersWait(r) /\ row' = [row EXCEPT ![k] = n] /\ row[k].status \in {"none", "in_progress"}
      BY <1>2, StepOthers DEF Step, CountStep
    <2>2. ~IsClaim(r)'
      BY <1>0, <1>2, WorkOf DEF CountStep, Moves, IsClaim, Doing, Job
    <2>3. \A v \in Requests : ~Holds(v, k)
      <3> SUFFICES ASSUME NEW v \in Requests, Holds(v, k) PROVE FALSE
        OBVIOUS
      <3>1. IsClaim(v) /\ k \in Quests /\ k # Milestone
        BY QuestAssumption DEF Holds, Quests
      <3>2. k = work[v].quest
        BY <3>1, WorkOf DEF Holds, Doing
      <3> QED BY <2>1, <3>1, <3>2 DEF Claims, Claiming
    <2>4. \A q \in Quests : row'[q] = row[q] \/ q = k
      BY <1>0, <2>1
    <2> QED BY <2>1, <2>2, <2>3, <2>4, ClaimsStep
  <1>3. ASSUME NEW r \in Requests, NEW k \in Rotating, NEW place \in {"insert", "retry", "ack"},
               MissStep(r, k, place)
        PROVE  Claims'
    <2>1. OthersWait(r) /\ row' = row
      BY <1>3, StepOthers DEF Step, MissStep
    <2>2. ~IsClaim(r)'
      BY <1>0, <1>3, WorkOf DEF MissStep, Moves, IsClaim, Doing
    <2> QED BY <2>1, <2>2, ClaimsStep
  <1>4. ASSUME NEW r \in Requests, Ack(r) \/ Abort(r) PROVE Claims'
    <2>1. OthersWait(r) /\ row' = row
      BY <1>4, StepOthers DEF Step, Ack, Abort
    <2>2. ~IsClaim(r)'
      BY <1>0, <1>4 DEF Ack, Abort, End, IsClaim, NoWork
    <2> QED BY <2>1, <2>2, ClaimsStep
  <1>5. ASSUME NEW r \in Requests, ViewQuests(r) \/ ReadMilestone(r) \/ CountQuests(r) PROVE Claims'
    <2>1. OthersWait(r) /\ row' = row /\ txn' = txn
      BY <1>5, StepOthers DEF Step, ViewQuests, ReadMilestone, CountQuests
    <2>2. IsClaim(r)' => IsClaim(r) /\ work'[r].quest = work[r].quest /\ pc[r] \in Syncing
      <3>1. CASE ViewQuests(r)
        BY <1>0, <3>1 DEF ViewQuests, IsClaim, NoWork
      <3>2. CASE ReadMilestone(r)
        BY <1>0, <3>2, WorkOf DEF ReadMilestone, IsClaim, Syncing, Job
      <3>3. CASE CountQuests(r)
        BY <1>0, <3>3, WorkOf DEF CountQuests, IsClaim, Syncing, Job
      <3> QED BY <1>5, <3>1, <3>2, <3>3
    <2> QED BY <2>1, <2>2, ClaimsStep
  <1>6. ASSUME NEW r \in Requests, NEW n \in Row, MilestoneStep(r, n) PROVE Claims'
    <2>1. /\ OthersWait(r) /\ pc[r] \in Syncing /\ work[r] \in Job
          /\ IsClaim(r)' => IsClaim(r) /\ work'[r].quest = work[r].quest
          /\ IsClaim(r) => pc'[r] \in Syncing \cup {"commit"} /\ IsClaim(r)'
      <3>1. OthersWait(r) /\ pc[r] \in Syncing /\ work[r] \in Job
        BY <1>6, StepOthers, WorkOf DEF Step, MilestoneStep, Syncing
      <3>2. CASE work[r].kind = "view"
        BY <1>0, <1>6, <3>1, <3>2 DEF MilestoneStep, Moves, IsClaim, NoWork
      <3>3. CASE work[r].kind # "view"
        BY <1>0, <1>6, <3>1, <3>3 DEF MilestoneStep, Moves, IsClaim, Syncing, Job
      <3> QED BY <3>1, <3>2, <3>3
    <2>2. CASE UNCHANGED <<row, txn>>
      BY <2>1, <2>2, ClaimsStep
    <2>3. CASE ~UNCHANGED <<row, txn>> /\ ~IsClaim(r)
      <3>1. ~Locked(Milestone, r) /\ row' = [row EXCEPT ![Milestone] = n]
        BY <1>6, <2>3 DEF MilestoneStep, Store
      <3>2. \A v \in Requests : ~Holds(v, Milestone)
        BY <2>3, <3>1 DEF Locked, Holds
      <3>3. \A q \in Quests : row'[q] = row[q] \/ q = Milestone
        BY <1>0, <3>1
      <3> QED BY <2>1, <2>3, <3>2, <3>3, ClaimsStep
    <2>4. CASE ~UNCHANGED <<row, txn>> /\ IsClaim(r)
      <3>1. /\ ~Locked(Milestone, r) /\ row' = row /\ txn' = [txn EXCEPT ![r][Milestone] = n]
            /\ Milestone \in Quests
        BY <1>6, <2>4 DEF MilestoneStep, Store, Quests
      <3>2. /\ txn'[r][Milestone] = n /\ n # Unwritten
            /\ \A q \in Quests \ {Milestone} : txn'[r][q] = txn[r][q]
        BY <1>0, <3>1, Rows
      <3>3. n.claimedAt = Seen(r, Milestone).claimedAt
        BY <1>6 DEF MilestoneStep, NextMilestone
      <3>4. \A v \in Requests \ {r}, q \in Quests : Holds(v, q)' => Holds(v, q)
        BY <2>1 DEF Holds, IsClaim, OthersWait
      <3>5. \A q \in Quests : Holds(r, q)' => Holds(r, q) \/ q = Milestone
        BY <2>1, <2>4, <3>2 DEF Holds
      <3>6. Exclusive'
        BY <3>1, <3>4, <3>5 DEF Claims, Exclusive, Locked
      <3>7. Claiming(r)'
        <4>1. PICK k \in Quests : k = work[r].quest
          BY WorkOf
        <4>2. /\ row[k].claimedAt = FALSE /\ row[k].status = "completed"
              /\ txn[r][k] # Unwritten /\ txn[r][k].claimedAt = TRUE
              /\ k # Milestone /\ txn[r][Milestone] # Unwritten =>
                   txn[r][Milestone].claimedAt = row[Milestone].claimedAt
          BY <2>1, <2>4, <4>1 DEF Claims, Claiming
        <4>3. txn'[r][k] # Unwritten /\ txn'[r][k].claimedAt = TRUE
          BY <3>2, <3>3, <4>2 DEF Seen
        <4>4. k # Milestone => txn'[r][Milestone].claimedAt = row[Milestone].claimedAt
          BY <3>2, <3>3, <4>2 DEF Seen
        <4> QED BY <2>1, <2>4, <3>1, <4>1, <4>2, <4>3, <4>4 DEF Claiming
      <3>8. \A v \in Requests \ {r} : Claiming(v)'
        BY <2>1, <3>1 DEF Claims, Claiming, IsClaim, OthersWait
      <3> QED BY <3>6, <3>7, <3>8 DEF Claims
    <2> QED BY <2>2, <2>3, <2>4
  <1>7. ASSUME NEW r \in Requests, NEW k \in Quests, LockQuest(r, k) PROVE Claims'
    <2>1. /\ OthersWait(r) /\ row' = row /\ txn' = txn /\ pc[r] = "idle"
          /\ ~Locked(k, r) /\ row[k].status = "completed" /\ ~row[k].claimedAt
          /\ pc'[r] = "reward" /\ IsClaim(r)' /\ work'[r].quest = k
      BY <1>0, <1>7, StepOthers DEF Step, LockQuest, Goto, Claimable, IsClaim, NoWork
    <2>2. \A q \in Quests : txn[r][q] = Unwritten
      BY <2>1, WorkOf DEF Doing, IsClaim
    <2>3. \A v \in Requests \ {r}, q \in Quests : Holds(v, q)' => Holds(v, q)
      BY <2>1 DEF Holds, IsClaim, OthersWait
    <2>4. \A q \in Quests : Holds(r, q)' => q = k
      BY <2>1, <2>2 DEF Holds
    <2>5. Exclusive'
      BY <2>1, <2>3, <2>4 DEF Claims, Exclusive, Locked
    <2>6. Claiming(r)'
      <3>1. row[k].claimedAt = FALSE
        BY <1>0, <2>1, Rows DEF Row
      <3> QED BY <2>1, <2>2, <3>1 DEF Claiming, Syncing, Quests
    <2>7. \A v \in Requests \ {r} : Claiming(v)'
      BY <2>1 DEF Claims, Claiming, IsClaim, OthersWait
    <2> QED BY <2>5, <2>6, <2>7 DEF Claims
  <1>8. ASSUME NEW r \in Requests, applyQuestRewards(r) PROVE Claims'
    <2>1. OthersWait(r) /\ UNCHANGED <<row, txn, work>> /\ pc'[r] = "mark"
      BY <1>0, <1>8, StepOthers DEF Step, applyQuestRewards, Goto
    <2> QED BY <2>1, ClaimsStep DEF IsClaim, Syncing
  <1>9. ASSUME NEW r \in Requests, MarkClaimed(r) PROVE Claims'
    <2>1. PICK k \in Quests : k = work[r].quest
      BY WorkOf
    <2> DEFINE n == [row[k] EXCEPT !.status = "claimed", !.claimedAt = TRUE]
    <2>2. /\ OthersWait(r) /\ IsClaim(r) /\ pc[r] = "mark"
          /\ \A q \in Quests : txn[r][q] = Unwritten
      BY <1>9, StepOthers, WorkOf DEF Step, MarkClaimed, Doing
    <2>3. /\ row' = row /\ work' = work /\ txn' = [txn EXCEPT ![r][k] = n]
          /\ pc'[r] = "sync"
      BY <1>0, <1>9, <2>1, <2>2 DEF MarkClaimed, Goto, Store
    <2>4. n # Unwritten /\ n.claimedAt = TRUE
      <3>1. row[k] # NoRow /\ row[k] \in Row \cup {NoRow}
        BY <1>0, <2>1, <2>2, WorkOf DEF Doing
      <3>2. n \in Row /\ n.claimedAt = TRUE
        BY <3>1 DEF Row
      <3> QED BY <3>2, Rows
    <2> HIDE DEF n
    <2>5. txn'[r][k] = n /\ \A q \in Quests \ {k} : txn'[r][q] = Unwritten
      BY <1>0, <2>2, <2>3
    <2>6. \A v \in Requests, q \in Quests : Holds(v, q)' => Holds(v, q)
      <3>1. \A q \in Quests : Holds(r, q)' => Holds(r, q)
        BY <2>1, <2>2, <2>3, <2>5 DEF Holds
      <3>2. \A v \in Requests \ {r}, q \in Quests : Holds(v, q)' => Holds(v, q)
        BY <2>2 DEF Holds, IsClaim, OthersWait
      <3> QED BY <3>1, <3>2
    <2>7. Exclusive'
      BY <2>6 DEF Claims, Exclusive
    <2>8. Claiming(r)'
      <3>1. row[k].claimedAt = FALSE /\ row[k].status = "completed"
        BY <2>1, <2>2 DEF Claims, Claiming
      <3> QED BY <2>1, <2>2, <2>3, <2>4, <2>5, <3>1 DEF Claiming, Quests
    <2>9. \A v \in Requests \ {r} : Claiming(v)'
      BY <2>2, <2>3 DEF Claims, Claiming, IsClaim, OthersWait
    <2> QED BY <2>7, <2>8, <2>9 DEF Claims
  <1>10. ASSUME NEW r \in Requests, Commit(r) PROVE Claims'
    <2>1. OthersWait(r) /\ row' = [q \in Quests |-> Seen(r, q)] /\ ~IsClaim(r)'
      BY <1>0, <1>10, StepOthers DEF Step, Commit, End, IsClaim, NoWork
    <2>2. \A q \in Quests : row'[q] = row[q] \/ Holds(r, q)
      BY <2>1, WorkOf DEF Seen, Holds, Doing
    <2> QED BY <2>1, <2>2, HeldElsewhere, ClaimsStep
  <1>11. CASE UNCHANGED vars
    <2>1. UNCHANGED <<row, txn, pc, work>>
      BY <1>11 DEF vars
    <2> QED BY <2>1 DEF Claims, Exclusive, Claiming, Holds, IsClaim
  <1> QED
    BY <1>1, <1>2, <1>3, <1>4, <1>5, <1>6, <1>7, <1>8, <1>9, <1>10, <1>11, Steps DEF Step

-----------------------------------------------------------------------------
(* Rewards are paid once.                                                  *)

LEMMA ClaimedAt ==
  ASSUME Types, NEW q \in Quests
  PROVE  /\ row[q].claimedAt \in BOOLEAN
         /\ q \in ClaimedQuests <=> row[q].claimedAt = TRUE
  <1>1. row[q] \in Row \cup {NoRow}
    BY DEF Types, TypeOK
  <1> QED BY <1>1, Rows DEF Row, ClaimedQuests

\* The quest of a claim that commits is claimed by it, and no other.
LEMMA CommitClaims ==
  ASSUME Types, Claims, NEW r \in Requests, Commit(r), NEW k \in Quests, k = work[r].quest
  PROVE  /\ ClaimedQuests' = ClaimedQuests \cup {k} /\ k \notin ClaimedQuests
         /\ Rewarded(r)
  <1>1. pc[r] = "commit" /\ IsClaim(r) /\ row' = [q \in Quests |-> Seen(r, q)]
    BY WorkOf DEF Commit, Doing
  <1>2. /\ row[k].claimedAt = FALSE /\ txn[r][k] # Unwritten /\ txn[r][k].claimedAt = TRUE
        /\ k # Milestone /\ txn[r][Milestone] # Unwritten =>
             txn[r][Milestone].claimedAt = row[Milestone].claimedAt
    BY <1>1 DEF Claims, Claiming
  <1>3. row'[k].claimedAt = TRUE
    BY <1>1, <1>2 DEF Seen
  <1>4. \A q \in Quests \ {k} : row'[q].claimedAt = row[q].claimedAt
    <2>1. \A q \in Quests : txn[r][q] # Unwritten => q \in {k, Milestone}
      BY WorkOf DEF Doing
    <2> QED BY <1>1, <1>2, <2>1 DEF Seen
  <1>5. ClaimedQuests' = ClaimedQuests \cup {k}
    BY <1>3, <1>4 DEF ClaimedQuests
  <1>6. k \notin ClaimedQuests
    BY <1>2 DEF ClaimedQuests
  <1> QED BY <1>1, <1>5, <1>6 DEF Rewarded

\* The rows are written by a count, a milestone and a commit.
LEMMA RowsWritten ==
  ASSUME Types, NEW r \in Requests, Step(r), ~Commit(r)
  PROVE  \/ row' = row
         \/ \E k \in Rotating, n \in Row : CountStep(r, k, n)
         \/ \E n \in Row : MilestoneStep(r, n)
  <1>1. CASE \/ \E e \in pending : Deliver(r, e)
             \/ \E q \in Quests : LockQuest(r, q)
    BY <1>1 DEF Deliver, LockQuest
  <1>2. CASE \E k \in Rotating, place \in {"insert", "retry", "ack"} : MissStep(r, k, place)
    BY <1>2 DEF MissStep
  <1>3. CASE \/ Ack(r) \/ ViewQuests(r) \/ ReadMilestone(r) \/ CountQuests(r)
             \/ applyQuestRewards(r) \/ Abort(r)
    BY <1>3 DEF Ack, ViewQuests, ReadMilestone, CountQuests, applyQuestRewards, Abort
  <1>4. CASE MarkClaimed(r)
    <2>1. IsClaim(r)
      BY <1>4, WorkOf DEF MarkClaimed, Doing
    <2> QED BY <1>4, <2>1 DEF MarkClaimed, Store
  <1> QED BY <1>1, <1>2, <1>3, <1>4 DEF Step

\* Every other step leaves the claims as they are.
LEMMA ClaimedStays ==
  ASSUME Types, Claims, NEW r \in Requests, Step(r), ~Commit(r)
  PROVE  ClaimedQuests' = ClaimedQuests
  <1>0. row \in [Quests -> Row \cup {NoRow}]
    BY DEF Types, TypeOK
  <1>1. CASE row' = row
    BY <1>1 DEF ClaimedQuests
  <1>2. ASSUME NEW k \in Rotating, NEW n \in Row, CountStep(r, k, n)
        PROVE  ClaimedQuests' = ClaimedQuests
    <2>1. /\ row' = [row EXCEPT ![k] = n] /\ row[k].status \in {"none", "in_progress"} /\ k \in Quests
          /\ n = Progressed(k, row[k].progress, work[r].event[3])
      BY <1>2 DEF CountStep, Quests
    <2>2. n.claimedAt = FALSE
      BY <2>1 DEF Progressed
    <2>3. k \notin ClaimedQuests
      BY <2>1 DEF Types, Rotates, ClaimedQuests
    <2>4. row'[k].claimedAt = FALSE /\ \A q \in Quests \ {k} : row'[q] = row[q]
      BY <1>0, <2>1, <2>2
    <2> QED BY <2>3, <2>4 DEF ClaimedQuests
  <1>3. ASSUME NEW n \in Row, MilestoneStep(r, n), row' # row
        PROVE  ClaimedQuests' = ClaimedQuests
    <2>1. row' = [row EXCEPT ![Milestone] = n] /\ ~IsClaim(r) /\ Milestone \in Quests
      BY <1>3 DEF MilestoneStep, Store, Quests
    <2>2. n.claimedAt = row[Milestone].claimedAt
      <3>1. txn[r][Milestone] = Unwritten
        BY <2>1, WorkOf DEF Doing
      <3> QED BY <1>3, <3>1 DEF MilestoneStep, NextMilestone, Seen
    <2>3. \A q \in Quests : row'[q].claimedAt = row[q].claimedAt
      BY <1>0, <2>1, <2>2
    <2> QED BY <2>3 DEF ClaimedQuests
  <1>4. \/ row' = row
        \/ \E k \in Rotating, n \in Row : CountStep(r, k, n)
        \/ \E n \in Row : MilestoneStep(r, n)
    BY RowsWritten
  <1> QED BY <1>1, <1>2, <1>3, <1>4

\* A step that pays nothing, and in which no rewarded claim begins or ends.
LEMMA PayingFrame ==
  ASSUME Types, Paying, ClaimedQuests' = ClaimedQuests, UNCHANGED <<paid, lost>>,
         \A v \in Requests : Rewarded(v)' <=> Rewarded(v),
         \A v \in Requests : Rewarded(v) => work'[v].quest = work[v].quest
  PROVE  Paying'
  BY DEF Paying, Quests

LEMMA PayingInductive == Types /\ Claims /\ Paying /\ [Next]_vars => Paying'
  <1> SUFFICES ASSUME Types, Claims, Paying, [Next]_vars PROVE Paying'
    OBVIOUS
  <1>0. /\ DOMAIN pc = Requests /\ DOMAIN work = Requests /\ paid \in [Quests -> 0..2]
        /\ \A v \in Requests : work[v].quest \in Quests
    BY WorkOf DEF Types, TypeOK
  <1>1. ASSUME NEW r \in Requests, Step(r), ~Commit(r), UNCHANGED <<paid, lost>>,
               Rewarded(r)' <=> Rewarded(r), Rewarded(r) => work'[r].quest = work[r].quest
        PROVE  Paying'
    <2>1. OthersWait(r) /\ ClaimedQuests' = ClaimedQuests
      BY <1>1, StepOthers, ClaimedStays
    <2> QED BY <1>1, <2>1, PayingFrame DEF OthersWait, Rewarded, IsClaim
  <1>2. ASSUME NEW r \in Requests,
               \/ \E e \in pending : Deliver(r, e)
               \/ \E k \in Rotating, n \in Row : CountStep(r, k, n)
               \/ \E k \in Rotating, place \in {"insert", "retry", "ack"} : MissStep(r, k, place)
               \/ Ack(r) \/ ViewQuests(r)
        PROVE  Paying'
    <2>1. Step(r) /\ UNCHANGED <<paid, lost>> /\ ~IsClaim(r) /\ pc[r] # "commit"
      BY <1>2, WorkOf
         DEF Step, Deliver, CountStep, MissStep, Ack, ViewQuests, Doing, IsClaim, Handling, histVars
    <2>2. ~IsClaim(r)'
      <3>1. work'[r].kind # "claim"
        <4>0. work[r] \in Job /\ work[r].kind # "claim"
          BY <2>1, WorkOf DEF IsClaim
        <4>1. CASE \E e \in pending : Deliver(r, e)
          BY <1>0, <4>1 DEF Deliver, NoWork
        <4>2. CASE \E k \in Rotating, n \in Row : CountStep(r, k, n)
          BY <1>0, <4>0, <4>2 DEF CountStep, Moves, Job
        <4>3. CASE \E k \in Rotating, place \in {"insert", "retry", "ack"} : MissStep(r, k, place)
          BY <1>0, <4>0, <4>3 DEF MissStep, Moves
        <4>4. CASE Ack(r)
          BY <1>0, <4>4 DEF Ack, End, NoWork
        <4>5. CASE ViewQuests(r)
          BY <1>0, <4>5 DEF ViewQuests, NoWork
        <4> QED BY <1>2, <4>1, <4>2, <4>3, <4>4, <4>5
      <3> QED BY <3>1 DEF IsClaim
    <2> QED BY <1>1, <2>1, <2>2 DEF Rewarded, Commit
  <1>3. ASSUME NEW r \in Requests, ReadMilestone(r) \/ CountQuests(r) PROVE Paying'
    <2>1. /\ Step(r) /\ UNCHANGED <<paid, lost>> /\ pc[r] \in {"sync", "count"}
          /\ pc'[r] \in {"count", "write"}
          /\ work'[r].quest = work[r].quest /\ work'[r].kind = work[r].kind
      <3>1. CASE ReadMilestone(r)
        BY <1>0, <3>1, WorkOf DEF Step, ReadMilestone, Goto, histVars, Job
      <3>2. CASE CountQuests(r)
        BY <1>0, <3>2, WorkOf DEF Step, CountQuests, Goto, histVars, Job
      <3> QED BY <1>3, <3>1, <3>2
    <2> QED BY <1>1, <2>1 DEF Rewarded, IsClaim, Commit
  <1>4. ASSUME NEW r \in Requests, NEW n \in Row, MilestoneStep(r, n) PROVE Paying'
    <2>1. Step(r) /\ UNCHANGED <<paid, lost>> /\ pc[r] = "write" /\ work[r] \in Job
      BY <1>4, WorkOf DEF Step, MilestoneStep, histVars
    <2>2. CASE work[r].kind = "view"
      <3>1. ~IsClaim(r) /\ ~IsClaim(r)'
        BY <1>0, <1>4, <2>2 DEF MilestoneStep, Moves, IsClaim, NoWork
      <3> QED BY <1>1, <2>1, <3>1 DEF Rewarded, Commit
    <2>3. CASE work[r].kind # "view"
      <3>1. /\ work'[r].quest = work[r].quest /\ work'[r].kind = work[r].kind
            /\ pc'[r] \in {"sync", "commit", "ack"}
        BY <1>0, <1>4, <2>1, <2>3, ZenonT(40) DEF MilestoneStep, Moves, Job
      <3> QED BY <1>1, <2>1, <3>1 DEF Rewarded, IsClaim, Commit
    <2> QED BY <2>2, <2>3
  <1>5. ASSUME NEW r \in Requests, NEW q \in Quests, LockQuest(r, q) PROVE Paying'
    <2>1. Step(r) /\ UNCHANGED <<paid, lost>> /\ pc[r] = "idle" /\ pc'[r] = "reward"
      BY <1>0, <1>5 DEF Step, LockQuest, Goto, histVars
    <2>2. ~IsClaim(r)
      BY <2>1, WorkOf DEF Doing, IsClaim
    <2> QED BY <1>1, <2>1, <2>2 DEF Rewarded, Commit
  <1>6. ASSUME NEW r \in Requests, MarkClaimed(r) PROVE Paying'
    <2>1. Step(r) /\ UNCHANGED <<paid, lost, work>> /\ pc[r] = "mark" /\ pc'[r] = "sync"
      BY <1>0, <1>6 DEF Step, MarkClaimed, Goto, histVars
    <2> QED BY <1>1, <2>1 DEF Rewarded, IsClaim, Commit
  <1>7. ASSUME NEW r \in Requests, applyQuestRewards(r) PROVE Paying'
    <2>1. PICK k \in Quests : k = work[r].quest
      BY <1>0
    <2>2. /\ UNCHANGED <<lost, work>> /\ pc[r] = "reward" /\ pc'[r] = "mark" /\ IsClaim(r)
          /\ paid' = [paid EXCEPT ![k] = Min(@ + 1, 2)]
          /\ OthersWait(r) /\ ClaimedQuests' = ClaimedQuests
      BY <1>0, <1>7, <2>1, WorkOf, StepOthers, ClaimedStays
         DEF applyQuestRewards, Goto, histVars, Doing, Step, Commit
    <2>3. k \notin ClaimedQuests
      BY <2>1, <2>2, ClaimedAt DEF Claims, Claiming
    <2>4. \A v \in Requests : Rewarded(v) => v # r /\ work[v].quest # k
      <3> SUFFICES ASSUME NEW v \in Requests, Rewarded(v), v = r \/ work[v].quest = k PROVE FALSE
        OBVIOUS
      <3>1. v # r
        BY <2>2 DEF Rewarded
      <3>2. Holds(v, k) /\ Holds(r, k)
        BY <2>1, <2>2, <3>1 DEF Holds, Rewarded
      <3> QED BY <3>1, <3>2 DEF Claims, Exclusive
    <2>5. /\ paid'[k] = Min(paid[k] + 1, 2) /\ paid[k] \in 0..2
          /\ \A q \in Quests \ {k} : paid'[q] = paid[q]
      BY <1>0, <2>2
    <2>6. paid'[k] > 0 /\ (k \notin lost => paid'[k] = 1)
      <3>1. k \notin lost => paid[k] = 0
        BY <2>3, <2>4, <2>5 DEF Paying
      <3> QED BY <2>5, <3>1 DEF Min
    <2>7. \A v \in Requests : Rewarded(v)' <=> Rewarded(v) \/ v = r
      BY <2>2 DEF Rewarded, IsClaim, OthersWait
    <2>8. \A q \in ClaimedQuests' : paid'[q] > 0
      BY <2>2, <2>3, <2>5 DEF Paying, ClaimedQuests
    <2>9. \A v \in Requests : Rewarded(v)' => paid'[work'[v].quest] > 0
      BY <1>0, <2>1, <2>2, <2>4, <2>5, <2>6, <2>7 DEF Paying
    <2>10. ASSUME NEW q \in Quests \ lost'
           PROVE  /\ paid'[q] <= 1
                  /\ paid'[q] = 1 => q \in ClaimedQuests' \/ \E v \in Requests : Rewarded(v)' /\ work'[v].quest = q
      <3>1. CASE q = k
        BY <2>1, <2>2, <2>6, <2>7, <3>1
      <3>2. CASE q # k
        BY <2>2, <2>5, <2>7, <3>2 DEF Paying
      <3> QED BY <3>1, <3>2
    <2> QED BY <2>8, <2>9, <2>10 DEF Paying
  <1>8. ASSUME NEW r \in Requests, Commit(r) PROVE Paying'
    <2>1. PICK k \in Quests : k = work[r].quest
      BY <1>0
    <2>2. /\ UNCHANGED <<paid, lost>> /\ OthersWait(r) /\ ~IsClaim(r)'
          /\ ClaimedQuests' = ClaimedQuests \cup {k} /\ Rewarded(r)
      BY <1>0, <1>8, <2>1, StepOthers, CommitClaims DEF Step, Commit, End, histVars, IsClaim, NoWork
    <2>3. \A v \in Requests : Rewarded(v)' <=> Rewarded(v) /\ v # r
      BY <2>2 DEF Rewarded, IsClaim, OthersWait
    <2>4. \A v \in Requests : Rewarded(v)' => work'[v].quest = work[v].quest
      BY <2>2, <2>3 DEF OthersWait
    <2>5. \A q \in ClaimedQuests' : paid'[q] > 0
      BY <2>1, <2>2 DEF Paying
    <2>6. \A v \in Requests : Rewarded(v)' => paid'[work'[v].quest] > 0
      BY <2>2, <2>3, <2>4 DEF Paying
    <2>7. ASSUME NEW q \in Quests \ lost'
          PROVE  /\ paid'[q] <= 1
                 /\ paid'[q] = 1 => q \in ClaimedQuests' \/ \E v \in Requests : Rewarded(v)' /\ work'[v].quest = q
      <3>1. CASE q = k
        BY <2>2, <3>1 DEF Paying
      <3>2. CASE q # k
        BY <2>1, <2>2, <2>3, <2>4, <3>2 DEF Paying
      <3> QED BY <3>1, <3>2
    <2> QED BY <2>5, <2>6, <2>7 DEF Paying
  <1>9. ASSUME NEW r \in Requests, Abort(r) PROVE Paying'
    <2>1. /\ paid' = paid /\ lost' = IF Rewarded(r) THEN lost \cup {work[r].quest} ELSE lost
          /\ OthersWait(r) /\ ~IsClaim(r)' /\ ClaimedQuests' = ClaimedQuests
      <3>1. /\ paid' = paid /\ row' = row
            /\ lost' = IF Rewarded(r) THEN lost \cup {work[r].quest} ELSE lost
        BY <1>9 DEF Abort, Rollback
      <3>2. OthersWait(r)
        BY <1>9, StepOthers DEF Step
      <3>3. ~IsClaim(r)'
        BY <1>0, <1>9 DEF Abort, End, IsClaim, NoWork
      <3> QED BY <3>1, <3>2, <3>3 DEF ClaimedQuests
    <2>2. \A v \in Requests : Rewarded(v)' <=> Rewarded(v) /\ v # r
      BY <2>1 DEF Rewarded, IsClaim, OthersWait
    <2>3. \A v \in Requests : Rewarded(v)' => work'[v].quest = work[v].quest
      BY <2>1, <2>2 DEF OthersWait
    <2>4. ASSUME NEW q \in Quests \ lost'
          PROVE  /\ paid'[q] <= 1
                 /\ paid'[q] = 1 => q \in ClaimedQuests' \/ \E v \in Requests : Rewarded(v)' /\ work'[v].quest = q
      <3>1. q \notin lost /\ (Rewarded(r) => work[r].quest # q)
        BY <2>1
      <3> QED BY <2>1, <2>2, <2>3, <3>1 DEF Paying
    <2> QED BY <2>1, <2>2, <2>3, <2>4 DEF Paying
  <1>10. CASE UNCHANGED vars
    <2>1. UNCHANGED <<row, pc, work, paid, lost>>
      BY <1>10 DEF vars
    <2> QED BY <2>1, PayingFrame DEF Rewarded, IsClaim, ClaimedQuests
  <1> QED
    BY <1>2, <1>3, <1>4, <1>5, <1>6, <1>7, <1>8, <1>9, <1>10, Steps DEF Step

LEMMA PointsInductive == Types /\ Claims /\ Points /\ [Next]_vars => Points'
  <1> SUFFICES ASSUME Types, Claims, Points, [Next]_vars PROVE Points'
    OBVIOUS
  <1>1. ASSUME NEW r \in Requests, Commit(r) PROVE Points'
    <2>1. PICK k \in Quests : k = work[r].quest
      BY WorkOf
    <2>2. /\ ClaimedQuests' = ClaimedQuests \cup {k} /\ k \notin ClaimedQuests
          /\ xp' = IF k \in XpQuests THEN xp + 1 ELSE xp
      BY <1>1, <2>1, CommitClaims DEF Commit
    <2>3. IsFiniteSet(ClaimedQuests') /\ IsFiniteSet(ClaimedQuests \cap XpQuests)
      BY <2>2, FS_AddElement, FS_Subset DEF Points
    <2>4. CASE k \in XpQuests
      <3>1. ClaimedQuests' \cap XpQuests = (ClaimedQuests \cap XpQuests) \cup {k}
        BY <2>2, <2>4
      <3> QED BY <2>2, <2>3, <2>4, <3>1, FS_AddElement DEF Points
    <2>5. CASE k \notin XpQuests
      <3>1. ClaimedQuests' \cap XpQuests = ClaimedQuests \cap XpQuests
        BY <2>2, <2>5
      <3> QED BY <2>2, <2>3, <2>5, <3>1 DEF Points
    <2> QED BY <2>4, <2>5
  <1>2. ASSUME NEW r \in Requests, Step(r), ~Commit(r) PROVE Points'
    <2>1. xp' = xp
      BY <1>2 DEF Step, Deliver, CountStep, MissStep, Ack, ViewQuests, ReadMilestone, CountQuests,
                  MilestoneStep, LockQuest, applyQuestRewards, MarkClaimed, Abort
    <2> QED BY <1>2, <2>1, ClaimedStays DEF Points
  <1>3. CASE UNCHANGED vars
    BY <1>3 DEF vars, Points, ClaimedQuests
  <1> QED BY <1>1, <1>2, <1>3, Steps

\* A reward is paid once and what is claimed was paid, unless a transaction was
\* rolled back after the transfer; the points are those of the quests claimed
\* (quests.ts, claimQuestReward).
THEOREM RewardedOnce == Spec => []RewardsAreClaims
  <1>1. Init => Claims /\ Paying /\ Points
    <2> SUFFICES ASSUME Init PROVE Claims /\ Paying /\ Points
      OBVIOUS
    <2>1. /\ \A r \in Requests : ~IsClaim(r)
          /\ xp = 0 /\ \A q \in Quests : paid[q] = 0
      BY DEF Init, IsClaim, NoWork
    <2>2. ClaimedQuests = {}
      BY Rows DEF Init, ClaimedQuests
    <2>3. Claims
      BY <2>1 DEF Claims, Exclusive, Claiming, Holds
    <2>4. Paying
      BY <2>1, <2>2 DEF Paying, Rewarded
    <2>5. Points
      <3>1. ClaimedQuests \cap XpQuests = {}
        BY <2>2
      <3> QED BY <2>1, <2>2, <3>1, FS_EmptySet DEF Points
    <2> QED BY <2>3, <2>4, <2>5
  <1>2. Paying /\ Points => RewardsAreClaims
    BY DEF Paying, Points, RewardsAreClaims
  <1> QED BY <1>1, <1>2, AlwaysTypes, ClaimsInductive, PayingInductive, PointsInductive, PTL DEF Spec

-----------------------------------------------------------------------------
(* Milestones are earned.                                                  *)

LEMMA MoreReaches ==
  ASSUME NEW S, NEW T, S \subseteq T, IsFiniteSet(T), Reaches(S)
  PROVE  Reaches(T)
  <1>1. /\ Cardinality(S) <= Cardinality(T) /\ Cardinality(S) \in Nat /\ Cardinality(T) \in Nat
    BY FS_Subset, FS_CardinalityType
  <1>2. Target[Milestone] \in Nat
    BY TargetAssumption DEF Quests
  <1> QED BY <1>1, <1>2 DEF Reaches

\* A claim sees what is claimed, and its own quest once it has marked it.
LEMMA ClaimedIsSeen ==
  ASSUME Types, NEW r \in Requests
  PROVE  /\ Claimed \subseteq ClaimedSeen(r)
         /\ ~IsClaim(r) => ClaimedSeen(r) = Claimed
  <1>1. \A q \in Rotating : txn[r][q] # Unwritten => txn[r][q].status = "claimed"
    BY DEF Types, Written, Quests
  <1>2. ~IsClaim(r) => \A q \in Rotating : txn[r][q] = Unwritten
    BY WorkOf DEF Doing, Quests
  <1> QED BY <1>1, <1>2 DEF Claimed, ClaimedSeen, Seen

\* A quest claimed stays claimed.
LEMMA ClaimedGrows ==
  ASSUME Types, NEW r \in Requests, Step(r)
  PROVE  Claimed \subseteq Claimed'
  <1>0. row \in [Quests -> Row \cup {NoRow}]
    BY DEF Types, TypeOK
  <1>1. CASE Commit(r)
    <2>1. \A q \in Rotating : row'[q] = Seen(r, q)
      BY <1>1 DEF Commit, Quests
    <2>2. Claimed' = ClaimedSeen(r)
      BY <2>1 DEF Claimed, ClaimedSeen
    <2> QED BY <2>2, ClaimedIsSeen
  <1>2. CASE row' = row
    BY <1>2 DEF Claimed
  <1>3. ASSUME NEW k \in Rotating, NEW n \in Row, CountStep(r, k, n) PROVE Claimed \subseteq Claimed'
    <2>1. /\ row[k].status \in {"none", "in_progress"}
          /\ \A q \in Rotating \ {k} : row'[q] = row[q]
      BY <1>0, <1>3 DEF CountStep, Quests
    <2> QED BY <2>1 DEF Claimed
  <1>4. ASSUME NEW n \in Row, MilestoneStep(r, n) PROVE Claimed \subseteq Claimed'
    <2>1. \A q \in Rotating : row'[q] = row[q]
      BY <1>0, <1>4, QuestAssumption DEF MilestoneStep, Store, Quests
    <2> QED BY <2>1 DEF Claimed
  <1> QED BY <1>1, <1>2, <1>3, <1>4, RowsWritten

LEMMA SeenGrows ==
  ASSUME NEW v \in Requests, Claimed \subseteq Claimed', txn'[v] = txn[v]
  PROVE  ClaimedSeen(v) \subseteq ClaimedSeen(v)'
  BY DEF Claimed, ClaimedSeen, Seen

LEMMA SeenFinite ==
  Types => \A r \in Requests : IsFiniteSet(ClaimedSeen(r)) /\ Cardinality(ClaimedSeen(r)) \in Nat
  BY ClaimedSeenFinite

LEMMA SeenStaysFinite ==
  ASSUME Types', NEW v \in Requests
  PROVE  IsFiniteSet(ClaimedSeen(v)') /\ Cardinality(ClaimedSeen(v)') \in Nat
  <1>1. (Types => \A r \in Requests : IsFiniteSet(ClaimedSeen(r)) /\ Cardinality(ClaimedSeen(r)) \in Nat)'
    BY SeenFinite, PTL
  <1> QED BY <1>1

\* A request that reads and writes nothing of the milestone.
LEMMA ReadsKept ==
  ASSUME Types, Types', NEW v \in Requests, Reads(v), Claimed \subseteq Claimed', txn'[v] = txn[v],
         Earns(work'[v].existing) => Earns(work[v].existing),
         pc'[v] = "write" => pc[v] = "write" /\ work'[v].count = work[v].count
  PROVE  Reads(v)'
  <1>1. ClaimedSeen(v) \subseteq ClaimedSeen(v)'
    BY SeenGrows
  <1>2. IsFiniteSet(ClaimedSeen(v)') /\ Cardinality(ClaimedSeen(v)') \in Nat
    BY SeenStaysFinite
  <1>3. Reaches(ClaimedSeen(v)) => Reaches(ClaimedSeen(v)')
    BY <1>1, <1>2, MoreReaches
  <1>4. /\ Cardinality(ClaimedSeen(v)) <= Cardinality(ClaimedSeen(v)')
        /\ Cardinality(ClaimedSeen(v)) \in Nat /\ work[v].count \in Nat
    BY <1>1, <1>2, FS_Subset, FS_CardinalityType, WorkOf DEF Job
  <1>5. txn'[v][Milestone] # Unwritten /\ Earns(txn'[v][Milestone]) => Reaches(ClaimedSeen(v)')
    BY <1>3 DEF Reads
  <1>6. Earns(work'[v].existing) => Reaches(ClaimedSeen(v)')
    BY <1>3 DEF Reads
  <1>7. pc'[v] = "write" => work'[v].count <= Cardinality(ClaimedSeen(v)')
    BY <1>2, <1>4 DEF Reads
  <1> QED BY <1>5, <1>6, <1>7 DEF Reads, Reaches, Earns

\* The milestone as a request sees it, and as it would write it.
LEMMA SeenEarns ==
  ASSUME Types, Milestones, NEW r \in Requests, Earns(Seen(r, Milestone))
  PROVE  Reaches(ClaimedSeen(r))
  <1>1. CASE txn[r][Milestone] = Unwritten
    <2>1. Reaches(Claimed)
      BY <1>1 DEF Seen, Milestones
    <2> QED BY <2>1, ClaimedIsSeen, ClaimedSeenFinite, MoreReaches
  <1>2. CASE txn[r][Milestone] # Unwritten
    BY <1>2 DEF Seen, Milestones, Reads
  <1> QED BY <1>1, <1>2

LEMMA NextEarns ==
  ASSUME Types, Milestones, NEW r \in Requests, NEW n, MilestoneStep(r, n), Earns(n)
  PROVE  Reaches(ClaimedSeen(r))
  <1>1. PICK existing \in Row \cup {NoRow}, current \in Row \cup {NoRow}, count \in Nat :
          /\ existing = work[r].existing /\ current = Seen(r, Milestone) /\ count = work[r].count
          /\ n = NextMilestone(existing, current, count) /\ pc[r] = "write"
    <2>1. work[r].existing \in Row \cup {NoRow} /\ work[r].count \in Nat
      BY WorkOf DEF Job
    <2>2. Seen(r, Milestone) \in Row \cup {NoRow}
      BY SeenRow DEF Quests
    <2> QED BY <2>1, <2>2 DEF MilestoneStep
  <1>2. \/ n.claimedAt
        \/ existing.status = "claimed" \/ existing.claimedAt = TRUE
        \/ count >= Target[Milestone]
    BY <1>1, NextMilestoneRow DEF Earns
  <1>3. CASE n.claimedAt
    <2>1. n.claimedAt = current.claimedAt
      BY <1>1 DEF NextMilestone
    <2> QED BY <1>1, <1>3, <2>1, SeenEarns DEF Earns
  <1>4. CASE existing.status = "claimed" \/ existing.claimedAt = TRUE
    BY <1>1, <1>4 DEF Milestones, Reads, Earns
  <1>5. CASE count >= Target[Milestone]
    <2>1. count <= Cardinality(ClaimedSeen(r))
      BY <1>1 DEF Milestones, Reads
    <2> QED BY <1>5, <2>1, ClaimedSeenFinite, TargetAssumption DEF Reaches, Quests
  <1> QED BY <1>2, <1>3, <1>4, <1>5

\* A step is judged by the stored milestone and by what its own request holds.
LEMMA MilestonesStep ==
  ASSUME Types, Types', Milestones, NEW r \in Requests, Step(r),
         row'[Milestone] = row[Milestone] \/ (Earns(row'[Milestone]) => Reaches(Claimed')),
         Reads(r)'
  PROVE  Milestones'
  <1>1. Claimed \subseteq Claimed' /\ OthersWait(r)
    BY ClaimedGrows, StepOthers
  <1>2. \A v \in Requests \ {r} : Reads(v)'
    BY <1>1, ReadsKept DEF OthersWait, Milestones
  <1>3. Earns(row'[Milestone]) => Reaches(Claimed')
    <2>1. IsFiniteSet(Claimed')
      BY DEF Types
    <2> QED BY <1>1, <2>1, MoreReaches DEF Milestones
  <1> QED BY <1>2, <1>3 DEF Milestones, Earns, Reaches

LEMMA MilestonesInductive == Types /\ Claims /\ Milestones /\ [Next]_vars => Milestones'
  <1> SUFFICES ASSUME Types, Claims, Milestones, [Next]_vars PROVE Milestones'
    OBVIOUS
  <1>0. /\ DOMAIN pc = Requests /\ DOMAIN work = Requests
        /\ row \in [Quests -> Row \cup {NoRow}] /\ txn \in [Requests -> [Quests -> Row \cup {Unwritten}]]
        /\ Types'
    BY TypesInductive DEF Types, TypeOK
  <1>1. ~Earns(NoRow) /\ NoWork.existing = NoRow
    BY Rows DEF Earns, NoWork
  \* A step that writes no milestone, and leaves what was read or forgets it.
  <1>2. ASSUME NEW r \in Requests, Step(r), row'[Milestone] = row[Milestone], txn'[r] = txn[r],
               work'[r].existing \in {work[r].existing, NoRow}, pc'[r] # "write"
        PROVE  Milestones'
    <2>1. Reads(r)'
      <3>1. Reads(r) /\ Claimed \subseteq Claimed'
        BY <1>2, ClaimedGrows DEF Milestones
      <3>2. Earns(work'[r].existing) => Earns(work[r].existing)
        BY <1>1, <1>2
      <3> QED BY <1>0, <1>2, <3>1, <3>2, ReadsKept
    <2> QED BY <1>0, <1>2, <2>1, MilestonesStep
  <1>3. ASSUME NEW r \in Requests, NEW e \in pending, Deliver(r, e) PROVE Milestones'
    <2>1. /\ Step(r) /\ row' = row /\ txn' = txn /\ pc'[r] = "update" /\ work'[r].existing = NoRow
      BY <1>0, <1>3 DEF Step, Deliver, Goto, NoWork
    <2> QED BY <1>2, <2>1
  <1>4. ASSUME NEW r \in Requests, NEW k \in Rotating, NEW n \in Row, CountStep(r, k, n)
        PROVE  Milestones'
    <2>1. /\ Step(r) /\ row' = [row EXCEPT ![k] = n] /\ txn' = txn /\ work[r] \in Job
      BY <1>4, WorkOf DEF Step, CountStep
    <2>2. pc'[r] \in {"sync", "ack"} /\ work'[r].existing = work[r].existing
      BY <1>0, <1>4, <2>1 DEF CountStep, Moves, Job
    <2>3. row'[Milestone] = row[Milestone]
      BY <1>0, <2>1, QuestAssumption DEF Quests
    <2> QED BY <1>2, <2>1, <2>2, <2>3
  <1>5. ASSUME NEW r \in Requests, NEW k \in Rotating, NEW place \in {"insert", "retry", "ack"},
               MissStep(r, k, place)
        PROVE  Milestones'
    <2>1. Step(r) /\ row' = row /\ txn' = txn /\ pc'[r] = place /\ work'[r] = work[r]
      BY <1>0, <1>5 DEF Step, MissStep, Moves
    <2> QED BY <1>2, <2>1
  <1>6. ASSUME NEW r \in Requests, Step(r), row' = row, End(r) PROVE Milestones'
    <2>1. pc'[r] = "idle" /\ work'[r].existing = NoRow /\ txn'[r][Milestone] = Unwritten
      BY <1>0, <1>1, <1>6 DEF End, Goto, NoRows, Quests
    <2>2. Reads(r)'
      BY <1>1, <2>1 DEF Reads, Earns
    <2> QED BY <1>0, <1>6, <2>2, MilestonesStep
  <1>7. ASSUME NEW r \in Requests, ViewQuests(r) PROVE Milestones'
    <2>1. Step(r) /\ row' = row /\ txn' = txn /\ pc'[r] = "sync" /\ work'[r].existing = NoRow
      BY <1>0, <1>7 DEF Step, ViewQuests, Goto, NoWork
    <2> QED BY <1>2, <2>1
  <1>8. ASSUME NEW r \in Requests, ReadMilestone(r) PROVE Milestones'
    <2>1. /\ Step(r) /\ row' = row /\ txn' = txn /\ pc'[r] = "count" /\ work[r] \in Job
      BY <1>0, <1>8, WorkOf DEF Step, ReadMilestone, Goto
    <2>2. work'[r].existing = Seen(r, Milestone)
      BY <1>0, <1>8, <2>1 DEF ReadMilestone, Job
    <2>3. ClaimedSeen(r)' = ClaimedSeen(r) /\ Reads(r)
      BY <2>1 DEF ClaimedSeen, Seen, Milestones
    <2>4. Earns(work'[r].existing) => Reaches(ClaimedSeen(r)')
      BY <2>2, <2>3, SeenEarns
    <2>5. Reads(r)'
      BY <2>1, <2>3, <2>4 DEF Reads, Earns, Reaches
    <2> QED BY <1>0, <2>1, <2>5, MilestonesStep
  <1>9. ASSUME NEW r \in Requests, CountQuests(r) PROVE Milestones'
    <2>1. /\ Step(r) /\ row' = row /\ txn' = txn /\ pc'[r] = "write" /\ work[r] \in Job
      BY <1>0, <1>9, WorkOf DEF Step, CountQuests, Goto
    <2>2. work'[r].existing = work[r].existing /\ work'[r].count = QuestCompleteCount(r)
      BY <1>0, <1>9, <2>1 DEF CountQuests, Job
    <2>3. ClaimedSeen(r)' = ClaimedSeen(r) /\ Reads(r) /\ QuestCompleteCount(r) = Cardinality(ClaimedSeen(r))
      BY <2>1 DEF ClaimedSeen, Seen, Milestones, QuestCompleteCount
    <2>4. work'[r].count <= Cardinality(ClaimedSeen(r)')
      BY <2>2, <2>3, ClaimedSeenFinite
    <2>5. Reads(r)'
      BY <2>1, <2>2, <2>3, <2>4 DEF Reads, Earns, Reaches
    <2> QED BY <1>0, <2>1, <2>5, MilestonesStep
  <1>10. ASSUME NEW r \in Requests, NEW n \in Row, MilestoneStep(r, n) PROVE Milestones'
    <2>1. /\ Step(r) /\ work[r] \in Job /\ Milestone \in Quests
          /\ work'[r].existing = NoRow /\ pc'[r] # "write"
      <3>1. Step(r) /\ work[r] \in Job
        BY <1>10, WorkOf DEF Step
      <3>2. CASE work[r].kind = "view"
        BY <1>0, <1>1, <1>10, <3>1, <3>2 DEF MilestoneStep, Moves, Quests
      <3>3. CASE work[r].kind # "view"
        BY <1>0, <1>10, <3>1, <3>3 DEF MilestoneStep, Moves, Job, Quests
      <3> QED BY <3>1, <3>2, <3>3
    <2>2. \/ UNCHANGED <<row, txn>>
          \/ IsClaim(r) /\ row' = row /\ txn' = [txn EXCEPT ![r][Milestone] = n]
          \/ ~IsClaim(r) /\ row' = [row EXCEPT ![Milestone] = n] /\ txn' = txn
      BY <1>10 DEF MilestoneStep, Store
    <2>3. CASE UNCHANGED <<row, txn>>
      BY <1>2, <2>1, <2>3
    <2>4. CASE IsClaim(r) /\ row' = row /\ txn' = [txn EXCEPT ![r][Milestone] = n]
      <3>1. txn'[r][Milestone] = n /\ \A q \in Rotating : txn'[r][q] = txn[r][q]
        BY <1>0, <2>1, <2>4, QuestAssumption DEF Quests
      <3>2. ClaimedSeen(r)' = ClaimedSeen(r)
        BY <2>4, <3>1 DEF ClaimedSeen, Seen
      <3>3. Earns(n) => Reaches(ClaimedSeen(r)')
        BY <1>10, <3>2, NextEarns
      <3>4. Reads(r)'
        BY <1>1, <2>1, <3>1, <3>2, <3>3 DEF Reads, Earns, Reaches
      <3> QED BY <1>0, <2>1, <2>4, <3>4, MilestonesStep
    <2>5. CASE ~IsClaim(r) /\ row' = [row EXCEPT ![Milestone] = n] /\ txn' = txn
      <3>1. /\ row'[Milestone] = n /\ txn'[r][Milestone] = Unwritten
            /\ Claimed \subseteq Claimed' /\ ClaimedSeen(r) = Claimed
        BY <1>0, <2>1, <2>5, ClaimedGrows, ClaimedIsSeen, WorkOf DEF Doing
      <3>2. Earns(row'[Milestone]) => Reaches(Claimed')
        <4>1. IsFiniteSet(Claimed')
          BY <1>0 DEF Types
        <4> QED BY <1>10, <3>1, <4>1, NextEarns, MoreReaches
      <3>3. Reads(r)'
        BY <1>1, <2>1, <3>1 DEF Reads, Earns
      <3> QED BY <1>0, <2>1, <3>2, <3>3, MilestonesStep
    <2> QED BY <2>2, <2>3, <2>4, <2>5
  <1>11. ASSUME NEW r \in Requests, NEW q \in Quests, LockQuest(r, q) PROVE Milestones'
    <2>1. Step(r) /\ row' = row /\ txn' = txn /\ pc'[r] = "reward" /\ work'[r].existing = NoRow
      BY <1>0, <1>11 DEF Step, LockQuest, Goto, NoWork
    <2> QED BY <1>2, <2>1
  <1>12. ASSUME NEW r \in Requests, applyQuestRewards(r) PROVE Milestones'
    <2>1. Step(r) /\ row' = row /\ txn' = txn /\ pc'[r] = "mark" /\ work' = work
      BY <1>0, <1>12 DEF Step, applyQuestRewards, Goto
    <2> QED BY <1>2, <2>1
  <1>13. ASSUME NEW r \in Requests, MarkClaimed(r) PROVE Milestones'
    <2>1. PICK k \in Quests : k = work[r].quest
      BY WorkOf
    <2> DEFINE n == [row[k] EXCEPT !.status = "claimed", !.claimedAt = TRUE]
    <2>2. IsClaim(r) /\ pc[r] = "mark" /\ Step(r) /\ \A q \in Quests : txn[r][q] = Unwritten
      BY <1>13, WorkOf DEF MarkClaimed, Doing, Step
    <2>3. txn' = [txn EXCEPT ![r][k] = n] /\ row' = row /\ work' = work /\ pc'[r] = "sync"
      BY <1>0, <1>13, <2>1, <2>2 DEF MarkClaimed, Store, Goto
    <2>4. row[k].status = "completed"
      BY <2>1, <2>2 DEF Claims, Claiming
    <2> HIDE DEF n
    <2>5. txn'[r][k] = n /\ \A q \in Quests \ {k} : txn'[r][q] = Unwritten
      BY <1>0, <2>2, <2>3
    <2>6. ClaimedSeen(r) = Claimed /\ ClaimedSeen(r) \subseteq ClaimedSeen(r)'
      BY <2>2, <2>3, <2>4, <2>5 DEF ClaimedSeen, Seen, Claimed, Quests
    <2>7. IsFiniteSet(ClaimedSeen(r)')
      BY <1>0, SeenStaysFinite
    <2>8. Reaches(ClaimedSeen(r)) => Reaches(ClaimedSeen(r)')
      BY <2>6, <2>7, MoreReaches
    <2>9. txn'[r][Milestone] # Unwritten => Reaches(ClaimedSeen(r)')
      <3>1. txn'[r][Milestone] # Unwritten => Earns(row[Milestone])
        BY <2>4, <2>5 DEF Earns, Quests
      <3> QED BY <2>6, <2>8, <3>1 DEF Milestones
    <2>10. Earns(work'[r].existing) => Reaches(ClaimedSeen(r)')
      BY <2>3, <2>8 DEF Milestones, Reads
    <2>11. Reads(r)'
      BY <2>3, <2>9, <2>10 DEF Reads, Earns, Reaches
    <2> QED BY <1>0, <2>2, <2>3, <2>11, MilestonesStep
  <1>14. ASSUME NEW r \in Requests, Commit(r) PROVE Milestones'
    <2>1. /\ Step(r) /\ row' = [q \in Quests |-> Seen(r, q)]
          /\ pc'[r] = "idle" /\ work'[r].existing = NoRow /\ txn'[r][Milestone] = Unwritten
      BY <1>0, <1>1, <1>14 DEF Step, Commit, End, Goto, NoRows, Quests
    <2>2. Claimed' = ClaimedSeen(r) /\ row'[Milestone] = Seen(r, Milestone)
      BY <2>1 DEF Claimed, ClaimedSeen, Quests
    <2>3. Earns(row'[Milestone]) => Reaches(Claimed')
      BY <2>2, SeenEarns
    <2>4. Reads(r)'
      BY <1>1, <2>1 DEF Reads, Earns
    <2> QED BY <1>0, <2>1, <2>3, <2>4, MilestonesStep
  <1>15. CASE UNCHANGED vars
    <2>1. UNCHANGED <<row, txn, pc, work>>
      BY <1>15 DEF vars
    <2> QED BY <2>1 DEF Milestones, Reads, Earns, Reaches, Claimed, ClaimedSeen, Seen
  <1>16. ASSUME NEW r \in Requests, Ack(r) \/ Abort(r) PROVE Milestones'
    BY <1>6, <1>16 DEF Step, Ack, Abort
  <1> QED
    BY <1>3, <1>4, <1>5, <1>7, <1>8, <1>9, <1>10, <1>11, <1>12, <1>13, <1>14, <1>15, <1>16, Steps
    DEF Step

\* A milestone is completed or claimed only if as many quests as it asks for are
\* claimed, though it is written from a count that is old by then (milestone.ts,
\* syncMilestoneQuestProgress).
THEOREM MilestoneEarned == Spec => []MilestoneIsEarned
  <1>1. Init => Claims /\ Milestones
    <2> SUFFICES ASSUME Init PROVE Claims /\ Milestones
      OBVIOUS
    <2>1. \A r \in Requests : /\ ~IsClaim(r) /\ txn[r][Milestone] = Unwritten
                              /\ work[r].existing = NoRow /\ pc[r] = "idle"
      BY DEF Init, IsClaim, NoWork, NoRows, Quests
    <2>2. row[Milestone] = NoRow /\ ~Earns(NoRow)
      BY Rows DEF Init, Quests, Earns
    <2> QED BY <2>1, <2>2 DEF Milestones, Reads, Claims, Exclusive, Claiming, Holds
  <1>2. Types /\ Milestones => MilestoneIsEarned
    <2> SUFFICES ASSUME Types, Milestones, row[Milestone].status \in {"completed", "claimed"}
                 PROVE  Cardinality(ClaimedQuests \cap Rotating) >= Target[Milestone]
      BY DEF MilestoneIsEarned
    <2>1. Reaches(Claimed)
      BY DEF Milestones, Earns
    <2>2. \A q \in Rotating : row[q].claimedAt <=> row[q].status = "claimed"
      BY DEF Types, Rotates, Quests
    <2>3. ClaimedQuests \cap Rotating = Claimed
      BY <2>2 DEF ClaimedQuests, Claimed, Quests
    <2> QED BY <2>1, <2>3 DEF Reaches
  <1> QED BY <1>1, <1>2, AlwaysTypes, ClaimsInductive, MilestonesInductive, PTL DEF Spec

-----------------------------------------------------------------------------
(* Every event counts once.                                                *)

LEMMA SettledBegun ==
  /\ Handled \subseteq Settled /\ Settled \subseteq Begun /\ Begun \subseteq Events
  /\ \A e \in Events :
       /\ e \in Begun <=> e \notin pending \/ \E r \in Requests : work[r].event = e
       /\ e \in Settled <=> e \notin pending \/ \E r \in Requests : work[r].event = e /\ Counted(r)
  BY DEF Handled, Settled, Begun

\* One event more, for its quest and its increment.
LEMMA OneMoreOf ==
  ASSUME NEW S, IsFiniteSet(S), NEW e, e \notin S, NEW q, NEW inc
  PROVE  /\ IsFiniteSet(Of(S, q, inc)) /\ Cardinality(Of(S, q, inc)) \in Nat
         /\ e[1] = q /\ e[3] = inc =>
              Cardinality(Of(S \cup {e}, q, inc)) = Cardinality(Of(S, q, inc)) + 1
         /\ ~(e[1] = q /\ e[3] = inc) => Of(S \cup {e}, q, inc) = Of(S, q, inc)
  <1>1. IsFiniteSet(Of(S, q, inc)) /\ Cardinality(Of(S, q, inc)) \in Nat
    <2>1. Of(S, q, inc) \subseteq S
      BY DEF Of
    <2> QED BY <2>1, FS_Subset, FS_CardinalityType
  <1>2. ASSUME e[1] = q, e[3] = inc
        PROVE  Cardinality(Of(S \cup {e}, q, inc)) = Cardinality(Of(S, q, inc)) + 1
    <2>1. Of(S \cup {e}, q, inc) = Of(S, q, inc) \cup {e} /\ e \notin Of(S, q, inc)
      BY <1>2 DEF Of
    <2> QED BY <1>1, <2>1, FS_AddElement
  <1>3. ~(e[1] = q /\ e[3] = inc) => Of(S \cup {e}, q, inc) = Of(S, q, inc)
    BY DEF Of
  <1> QED BY <1>1, <1>2, <1>3

\* The events that are begun or counted, after a step of one request.
LEMMA SettledStep ==
  ASSUME Progressing, NEW r \in Requests, OthersWait(r)
  PROVE  /\ \A e \in Events : e # work[r].event /\ e # work'[r].event /\ (e \in pending' <=> e \in pending) =>
              (e \in Settled' <=> e \in Settled) /\ (e \in Begun' <=> e \in Begun)
         /\ work[r].event \in Events =>
              /\ work[r].event \in pending /\ work[r].event \in Begun
              /\ work[r].event \in Settled <=> Counted(r)
  <1>1. ASSUME NEW e \in Events, e # work[r].event, e # work'[r].event, e \in pending' <=> e \in pending
        PROVE  (e \in Settled' <=> e \in Settled) /\ (e \in Begun' <=> e \in Begun)
    <2>1. \A v \in Requests : work'[v].event = e <=> work[v].event = e
      BY <1>1 DEF OthersWait
    <2>2. \A v \in Requests : work[v].event = e => (Counted(v)' <=> Counted(v))
      BY <1>1 DEF OthersWait, Counted
    <2> QED BY <1>1, <2>1, <2>2 DEF Settled, Begun, Handled
  <1>2. ASSUME work[r].event \in Events
        PROVE  /\ work[r].event \in pending /\ work[r].event \in Begun
               /\ work[r].event \in Settled <=> Counted(r)
    BY <1>2, SettledBegun DEF Progressing, OneHand
  <1> QED BY <1>1, <1>2

\* A step that leaves the progress, and of the events at most forgets those of a
\* quest that is counted again.
LEMMA ProgressFrame ==
  ASSUME Progressing, OneHand', Begun' \subseteq Begun, recounted \subseteq recounted',
         \A q \in Rotating : row'[q].progress = row[q].progress,
         \A q \in Rotating \ recounted' : \A e \in Events :
           e[1] = q => (e \in Settled' <=> e \in Settled)
  PROVE  Progressing'
  <1>1. IsFiniteSet(Begun')
    BY FS_Subset DEF Progressing
  <1>2. ASSUME NEW q \in Rotating \ recounted' PROVE Counting(q)'
    <2>1. Settled \subseteq Events /\ Settled' \subseteq Events
      BY DEF Settled, Handled
    <2>2. \A inc \in {1, -1} : Of(Settled', q, inc) = Of(Settled, q, inc)
      BY <1>2, <2>1 DEF Of
    <2>3. Counting(q) /\ row'[q].progress = row[q].progress
      BY <1>2 DEF Progressing
    <2> QED BY <2>2, <2>3 DEF Counting, Of
  <1> QED BY <1>1, <1>2 DEF Progressing

\* A step that begins no event, counts none and ends none.
LEMMA QuietStep ==
  ASSUME Types, Progressing, NEW r \in Requests, OthersWait(r), pending' = pending,
         recounted' = recounted,
         \A q \in Rotating : row'[q].progress = row[q].progress,
         \/ work[r].event \notin Events /\ work'[r].event \notin Events
         \/ work'[r].event = work[r].event /\ (Counted(r)' <=> Counted(r))
  PROVE  Progressing'
  <1>1. \A v \in Requests : work'[v].event \in Events => work'[v].event = work[v].event
    BY DEF OthersWait
  <1>2. OneHand'
    BY <1>1 DEF Progressing, OneHand
  <1>3. \A v \in Requests, e \in Events :
          /\ work'[v].event = e <=> work[v].event = e
          /\ work[v].event = e => (Counted(v)' <=> Counted(v))
    BY DEF OthersWait, Counted
  <1>4. Begun' = Begun /\ Settled' = Settled
    BY <1>3 DEF Begun, Settled, Handled
  <1> QED BY <1>2, <1>4, ProgressFrame

\* An event is counted, or is over with nothing to count.
LEMMA SettleStep ==
  ASSUME Types, Progressing, NEW r \in Requests, OthersWait(r), UNCHANGED <<pending, recounted>>,
         NEW k \in Rotating, NEW e \in Events, e = work[r].event, k = e[1],
         ~Counted(r), Counted(r)', work'[r].event = e,
         \A q \in Rotating \ {k} : row'[q].progress = row[q].progress,
         NEW old \in Nat, old = row[k].progress, NEW new \in Nat, new = row'[k].progress,
         \/ old < Target[k] /\ e[3] = 1 /\ new = old + 1
         \/ old < Target[k] /\ e[3] = -1 /\ new = Max(0, old - 1)
         \/ old = Target[k] /\ new = old
         \/ old = 0 /\ e[3] = -1 /\ new = old
  PROVE  Progressing'
  <1>1. OneHand'
    BY DEF Progressing, OneHand, OthersWait
  <1>2. Begun' = Begun
    BY DEF Begun, Handled, OthersWait
  <1>3. Settled' = Settled \cup {e} /\ e \notin Settled
    <2>1. e \notin Settled /\ e \in Settled'
      BY SettledStep DEF Settled
    <2>2. Settled \subseteq Events /\ Settled' \subseteq Events
      BY DEF Settled, Handled
    <2>3. \A f \in Events : f # e => (f \in Settled' <=> f \in Settled)
      BY SettledStep
    <2> QED BY <2>1, <2>2, <2>3
  <1>4. IsFiniteSet(Settled) /\ IsFiniteSet(Begun)
    BY SettledBegun, FS_Subset DEF Progressing
  <1>5. ASSUME NEW q \in Rotating \ recounted, q # k PROVE Counting(q)'
    <2>1. \A inc \in {1, -1} : Of(Settled', q, inc) = Of(Settled, q, inc)
      BY <1>3, <1>5 DEF Of
    <2>2. Counting(q) /\ row'[q].progress = row[q].progress
      BY <1>5 DEF Progressing
    <2> QED BY <2>1, <2>2 DEF Counting, Of
  <1>6. ASSUME k \notin recounted PROVE Counting(k)'
    <2>1. PICK more \in Nat, less \in Nat :
            more = Cardinality(Of(Settled, k, 1)) /\ less = Cardinality(Of(Settled, k, -1))
      BY <1>3, <1>4, OneMoreOf
    <2>2. PICK more1 \in Nat, less1 \in Nat :
            /\ more1 = Cardinality(Of(Settled', k, 1)) /\ less1 = Cardinality(Of(Settled', k, -1))
            /\ e[3] = 1 => more1 = more + 1 /\ less1 = less
            /\ e[3] = -1 => more1 = more /\ less1 = less + 1
      <3>1. /\ e[3] = 1 => Cardinality(Of(Settled', k, 1)) = more + 1
            /\ e[3] # 1 => Cardinality(Of(Settled', k, 1)) = more
        BY <1>3, <1>4, <2>1, OneMoreOf
      <3>2. /\ e[3] = -1 => Cardinality(Of(Settled', k, -1)) = less + 1
            /\ e[3] # -1 => Cardinality(Of(Settled', k, -1)) = less
        BY <1>3, <1>4, <2>1, OneMoreOf
      <3>3. e[3] \in {1, -1}
        BY NoEvent
      <3> QED BY <3>1, <3>2, <3>3
    <2>3. old <= more /\ old >= Min(Target[k], more - less)
      BY <1>6, <2>1 DEF Progressing, Counting
    <2>4. e[3] \in {1, -1} /\ Target[k] \in Nat \ {0}
      BY NoEvent, RowOf
    <2>5. new <= more1 /\ new >= Min(Target[k], more1 - less1)
      BY <2>2, <2>3, <2>4 DEF Min, Max
    <2> QED BY <2>2, <2>5 DEF Counting, Of
  <1>7. \A q \in Rotating \ recounted' : Counting(q)'
    BY <1>5, <1>6
  <1> QED BY <1>1, <1>2, <1>4, <1>7 DEF Progressing

LEMMA ProgressInductive == Types /\ Progressing /\ [Next]_vars => Progressing'
  <1> SUFFICES ASSUME Types, Progressing, [Next]_vars PROVE Progressing'
    OBVIOUS
  <1>0. /\ DOMAIN pc = Requests /\ DOMAIN work = Requests
        /\ row \in [Quests -> Row \cup {NoRow}] /\ <<>> \notin Events
        /\ \A r \in Requests : work[r].event \notin Events => work[r].event = <<>>
    BY WorkOf, NoEvent DEF Types, TypeOK, Job
  <1>1. ASSUME NEW r \in Requests, NEW e \in pending, Deliver(r, e) PROVE Progressing'
    <2>1. /\ OthersWait(r) /\ UNCHANGED <<row, pending, recounted>> /\ pc[r] = "idle"
          /\ pc'[r] = "update" /\ work'[r].event = e /\ e \in Events
          /\ \A v \in Requests : work[v].event # e
      BY <1>0, <1>1, StepOthers DEF Step, Deliver, Goto, NoWork, histVars, Types, TypeOK
    <2>2. work[r].event \notin Events
      BY <2>1, WorkOf DEF Doing
    <2>3. OneHand'
      BY <2>1 DEF Progressing, OneHand, OthersWait
    <2>4. Begun' = Begun \cup {e}
      BY <2>1, <2>2 DEF Begun, Handled, OthersWait
    <2>5. Settled' = Settled
      <3>1. ~Counted(r)'
        BY <2>1 DEF Counted, Syncing
      <3>2. \A v \in Requests, f \in Events :
              work'[v].event = f /\ Counted(v)' <=> work[v].event = f /\ Counted(v)
        BY <2>1, <2>2, <3>1 DEF OthersWait, Counted
      <3> QED BY <2>1, <3>2 DEF Settled, Handled
    <2>6. \A q \in Rotating \ recounted' : Counting(q)'
      BY <2>1, <2>5 DEF Progressing, Counting, Of
    <2> QED BY <2>3, <2>4, <2>6, FS_AddElement DEF Progressing
  <1>2. ASSUME NEW r \in Requests, NEW k \in Rotating, NEW n \in Row, CountStep(r, k, n)
        PROVE  Progressing'
    <2>1. /\ OthersWait(r) /\ UNCHANGED <<pending, recounted>> /\ pc[r] \in Handling
          /\ row' = [row EXCEPT ![k] = n] /\ work[r] \in Job
          /\ k = work[r].quest /\ n = Progressed(k, row[k].progress, work[r].event[3])
          /\ row[k].progress < Target[k]
      BY <1>2, StepOthers, WorkOf DEF Step, CountStep, histVars
    <2>2. PICK e \in Events : e = work[r].event /\ k = e[1]
      BY <2>1, WorkOf
    <2>3. ~Counted(r) /\ Counted(r)' /\ work'[r].event = e
      BY <1>0, <1>2, <2>1, <2>2 DEF CountStep, Moves, Counted, Handling, Syncing, Job
    <2>4. row'[k] = n /\ \A q \in Rotating \ {k} : row'[q].progress = row[q].progress
      BY <1>0, <2>1 DEF Quests
    <2>5. PICK old \in Nat : old = row[k].progress /\ old < Target[k]
      BY <2>1, RowOf
    <2>6. PICK inc \in {1, -1} : inc = e[3] /\ n = Progressed(k, old, inc)
      BY <2>1, <2>2, <2>5, NoEvent
    <2>7. (inc = 1 => n.progress = old + 1) /\ (inc = -1 => n.progress = Max(0, old - 1))
      <3>1. old < Target[k] /\ n = Progressed(k, old, inc)
        BY <2>5, <2>6
      <3> QED BY <3>1, ProgressedRow
    <2>8. PICK new \in Nat : new = n.progress /\ new = row'[k].progress
      BY <2>4 DEF Row
    <2>9. \/ old < Target[k] /\ e[3] = 1 /\ new = old + 1
          \/ old < Target[k] /\ e[3] = -1 /\ new = Max(0, old - 1)
      BY <2>5, <2>6, <2>7, <2>8
    <2>10. /\ OthersWait(r) /\ UNCHANGED <<pending, recounted>>
           /\ e = work[r].event /\ k = e[1] /\ ~Counted(r) /\ Counted(r)' /\ work'[r].event = e
           /\ \A q \in Rotating \ {k} : row'[q].progress = row[q].progress
           /\ old = row[k].progress /\ new = row'[k].progress
      BY <2>1, <2>2, <2>3, <2>4, <2>5, <2>8
    <2> QED BY <2>9, <2>10, SettleStep
  <1>3. ASSUME NEW r \in Requests, NEW k \in Rotating, NEW place \in {"insert", "retry", "ack"},
               MissStep(r, k, place)
        PROVE  Progressing'
    <2>1. /\ OthersWait(r) /\ UNCHANGED <<row, pending, recounted>> /\ pc[r] \in Handling
          /\ k = work[r].quest /\ pc'[r] = place /\ work'[r] = work[r]
      BY <1>0, <1>3, StepOthers DEF Step, MissStep, Moves, histVars
    <2>2. CASE place # "ack"
      <3>1. ~Counted(r) /\ ~Counted(r)'
        BY <2>1, <2>2 DEF Counted, Handling, Syncing
      <3> QED BY <2>1, <3>1, QuietStep
    <2>3. CASE place = "ack"
      <3>1. PICK e \in Events : e = work[r].event /\ k = e[1]
        BY <2>1, WorkOf
      <3>2. ~Counted(r) /\ Counted(r)'
        BY <2>1, <2>3 DEF Counted, Handling, Syncing
      <3>3. PICK old \in Nat : old = row[k].progress
        BY RowOf
      <3>4. old = Target[k] \/ (old = 0 /\ e[3] = -1)
        BY <1>3, <2>3, <3>1, <3>3, Rows DEF MissStep
      <3> QED BY <2>1, <3>1, <3>2, <3>3, <3>4, SettleStep
    <2> QED BY <2>2, <2>3
  <1>4. ASSUME NEW r \in Requests, Ack(r) PROVE Progressing'
    <2>1. /\ OthersWait(r) /\ UNCHANGED <<row, recounted>> /\ pc[r] = "ack"
          /\ work'[r].event = <<>> /\ pending' = pending \ {work[r].event}
      BY <1>0, <1>4, StepOthers DEF Step, Ack, End, NoWork, histVars
    <2>2. PICK e \in Events : e = work[r].event
      BY <2>1, WorkOf
    <2>3. Counted(r) /\ \A v \in Requests \ {r} : work[v].event # e
      BY <2>1, <2>2 DEF Counted, Progressing, OneHand
    <2>4. OneHand'
      BY <1>0, <2>1, <2>2, <2>3 DEF Progressing, OneHand, OthersWait
    <2>5. /\ e \in Settled /\ e \in Settled' /\ e \in Begun
          /\ \A f \in Events \ {e} : (f \in Settled' <=> f \in Settled) /\ (f \in Begun' <=> f \in Begun)
      BY <1>0, <2>1, <2>2, <2>3, SettledStep DEF Settled, Handled
    <2>6. Begun' \subseteq Begun
      BY <2>5 DEF Begun, Handled
    <2> QED BY <2>1, <2>4, <2>5, <2>6, ProgressFrame
  <1>5. ASSUME NEW r \in Requests, ViewQuests(r) PROVE Progressing'
    <2>1. /\ OthersWait(r) /\ UNCHANGED <<row, pending, recounted>> /\ pc[r] = "idle"
          /\ work'[r].event = <<>>
      BY <1>0, <1>5, StepOthers DEF Step, ViewQuests, NoWork, histVars
    <2>2. work[r].event \notin Events
      BY <2>1, WorkOf DEF Doing
    <2> QED BY <1>0, <2>1, <2>2, QuietStep
  <1>6. ASSUME NEW r \in Requests, ReadMilestone(r) \/ CountQuests(r) PROVE Progressing'
    <2>1. OthersWait(r) /\ UNCHANGED <<row, pending, recounted>> /\ work[r] \in Job
      BY <1>6, StepOthers, WorkOf DEF Step, ReadMilestone, CountQuests, histVars
    <2>2. work'[r].event = work[r].event /\ Counted(r) /\ Counted(r)'
      <3>1. CASE ReadMilestone(r)
        BY <1>0, <2>1, <3>1 DEF ReadMilestone, Goto, Counted, Syncing, Job
      <3>2. CASE CountQuests(r)
        BY <1>0, <2>1, <3>2 DEF CountQuests, Goto, Counted, Syncing, Job
      <3> QED BY <1>6, <3>1, <3>2
    <2> QED BY <2>1, <2>2, QuietStep
  <1>7. ASSUME NEW r \in Requests, NEW n \in Row, MilestoneStep(r, n) PROVE Progressing'
    <2>1. OthersWait(r) /\ UNCHANGED <<pending, recounted>> /\ work[r] \in Job /\ pc[r] = "write"
      BY <1>7, StepOthers, WorkOf DEF Step, MilestoneStep, histVars
    <2>2. \A q \in Rotating : row'[q].progress = row[q].progress
      BY <1>0, <1>7, QuestAssumption DEF MilestoneStep, Store, Quests
    <2>3. CASE work[r].kind # "event"
      <3>1. work[r].event \notin Events
        BY <2>3, WorkOf DEF Doing
      <3>2. work'[r].event \in {work[r].event, <<>>}
        <4>1. CASE work[r].kind = "view"
          BY <1>0, <1>7, <4>1 DEF MilestoneStep, Moves, NoWork
        <4>2. CASE work[r].kind # "view"
          BY <1>0, <1>7, <2>1, <4>2 DEF MilestoneStep, Moves, Job
        <4> QED BY <4>1, <4>2
      <3> QED BY <1>0, <2>1, <2>2, <3>1, <3>2, QuietStep
    <2>4. CASE work[r].kind = "event"
      <3>1. work'[r].event = work[r].event /\ pc'[r] \in {"sync", "ack"}
        BY <1>0, <1>7, <2>1, <2>4 DEF MilestoneStep, Moves, IsClaim, Job
      <3>2. Counted(r) /\ Counted(r)'
        BY <2>1, <3>1 DEF Counted, Syncing
      <3> QED BY <2>1, <2>2, <3>1, <3>2, QuietStep
    <2> QED BY <2>3, <2>4
  <1>8. ASSUME NEW r \in Requests, NEW q \in Quests, LockQuest(r, q) PROVE Progressing'
    <2>1. /\ OthersWait(r) /\ UNCHANGED <<row, pending, recounted>> /\ pc[r] = "idle"
          /\ work'[r].event = <<>>
      BY <1>0, <1>8, StepOthers DEF Step, LockQuest, NoWork, histVars
    <2>2. work[r].event \notin Events
      BY <2>1, WorkOf DEF Doing
    <2> QED BY <1>0, <2>1, <2>2, QuietStep
  <1>9. ASSUME NEW r \in Requests, applyQuestRewards(r) \/ MarkClaimed(r) PROVE Progressing'
    <2>1. /\ OthersWait(r) /\ UNCHANGED <<pending, work, recounted>> /\ pc[r] \in {"reward", "mark"}
      BY <1>9, StepOthers DEF Step, applyQuestRewards, MarkClaimed, histVars
    <2>2. IsClaim(r)
      BY <2>1, WorkOf DEF Doing
    <2>3. row' = row
      BY <1>9, <2>2 DEF applyQuestRewards, MarkClaimed, Store
    <2>4. work[r].event \notin Events
      BY <2>2, WorkOf DEF Doing, IsClaim
    <2> QED BY <2>1, <2>3, <2>4, QuietStep
  <1>10. ASSUME NEW r \in Requests, Commit(r) PROVE Progressing'
    <2>1. /\ OthersWait(r) /\ UNCHANGED <<pending, recounted>> /\ pc[r] = "commit"
          /\ row' = [q \in Quests |-> Seen(r, q)] /\ work'[r].event = <<>>
      BY <1>0, <1>10, StepOthers DEF Step, Commit, End, NoWork, histVars
    <2>2. work[r].event \notin Events /\ IsClaim(r)
      BY <2>1, WorkOf DEF Doing, IsClaim
    <2>3. \A q \in Rotating : row'[q].progress = row[q].progress
      <3> SUFFICES ASSUME NEW q \in Rotating, txn[r][q] # Unwritten
                   PROVE  txn[r][q].progress = row[q].progress
        BY <2>1 DEF Seen, Quests
      <3>1. q = work[r].quest /\ row[q].progress = Target[q]
        BY WorkOf, QuestAssumption DEF Doing, Quests
      <3>2. txn[r][q].progress = Target[q]
        BY DEF Types, Written, Rotates, Quests
      <3> QED BY <3>1, <3>2
    <2> QED BY <1>0, <2>1, <2>2, <2>3, QuietStep
  <1>11. ASSUME NEW r \in Requests, Abort(r) PROVE Progressing'
    <2>1. /\ OthersWait(r) /\ UNCHANGED <<row, pending>> /\ work'[r].event = <<>>
      BY <1>0, <1>11, StepOthers DEF Step, Abort, End, NoWork
    <2>2. /\ recounted \subseteq recounted'
          /\ work[r].event \in Events /\ Counted(r) => work[r].event[1] \in recounted'
      <3>1. work[r].event \in Events =>
              /\ work[r].kind = "event" /\ work[r].quest = work[r].event[1]
              /\ ~IsClaim(r) /\ pc[r] # "reward"
        BY WorkOf DEF Doing, IsClaim
      <3>2. CASE Nack(r)
        BY <3>1, <3>2 DEF Nack, Counted
      <3>3. CASE (pc[r] = "reward" \/ IsClaim(r)) /\ UNCHANGED recounted
        BY <3>1, <3>3
      <3> QED BY <1>11, <3>2, <3>3 DEF Abort
    <2>3. OneHand'
      BY <1>0, <2>1 DEF Progressing, OneHand, OthersWait
    <2>4. Begun' \subseteq Begun
      BY <1>0, <2>1 DEF Begun, Handled, OthersWait
    <2>5. ASSUME NEW q \in Rotating \ recounted', NEW e \in Events, e[1] = q
          PROVE  e \in Settled' <=> e \in Settled
      <3>1. CASE e # work[r].event
        BY <1>0, <2>1, <3>1, SettledStep
      <3>2. CASE e = work[r].event
        <4>1. e \in pending /\ e \notin Settled
          <5>1. work[r].event \in Events /\ ~Counted(r)
            BY <2>2, <2>5, <3>2
          <5> QED BY <2>1, <3>2, <5>1, SettledStep
        <4>2. \A v \in Requests : work'[v].event # e
          BY <1>0, <2>1, <3>2 DEF Progressing, OneHand, OthersWait
        <4> QED BY <2>1, <4>1, <4>2 DEF Settled, Handled
      <3> QED BY <3>1, <3>2
    <2> QED BY <2>1, <2>2, <2>3, <2>4, <2>5, ProgressFrame
  <1>12. CASE UNCHANGED vars
    <2>1. UNCHANGED <<row, pc, work, pending, recounted>>
      BY <1>12 DEF vars
    <2>2. OneHand' /\ Begun' = Begun /\ Settled' = Settled
      BY <2>1 DEF Progressing, OneHand, Begun, Settled, Handled, Counted
    <2> QED BY <2>1, <2>2, ProgressFrame
  <1> QED
    BY <1>1, <1>2, <1>3, <1>4, <1>5, <1>6, <1>7, <1>8, <1>9, <1>10, <1>11, <1>12, Steps DEF Step

\* Every event counts once for its quest, also when two insert its row at the same
\* time, unless an event failed after it was counted (progress.ts,
\* checkQuestProgress).
THEOREM EventsCountOnce == Spec => []ProgressIsEvents
  <1>1. Init => Progressing
    <2> SUFFICES ASSUME Init PROVE Progressing
      OBVIOUS
    <2>1. /\ pending = Events /\ \A r \in Requests : work[r].event = <<>>
          /\ \A q \in Rotating : row[q].progress = 0
      BY DEF Init, NoWork, NoRow, Quests
    <2>2. Begun = {} /\ Settled = {} /\ OneHand
      BY <2>1, NoEvent DEF Begun, Settled, Handled, OneHand
    <2>3. ASSUME NEW q \in Rotating PROVE Counting(q)
      <3>1. Of(Settled, q, 1) = {} /\ Of(Settled, q, -1) = {}
        BY <2>2 DEF Of
      <3>2. Target[q] \in Nat \ {0}
        BY TargetAssumption DEF Quests
      <3>3. Cardinality(Of(Settled, q, 1)) = 0 /\ Cardinality(Of(Settled, q, -1)) = 0
        BY <3>1, FS_EmptySet
      <3> QED BY <2>1, <3>2, <3>3 DEF Counting, Min
    <2> QED BY <2>2, <2>3, FS_EmptySet DEF Progressing
  <1>2. Types /\ Progressing => ProgressIsEvents
    <2> SUFFICES ASSUME Types, Progressing, NEW q \in Rotating \ recounted
                 PROVE  /\ row[q].progress >= Min(Target[q], Cardinality(Of(Handled, q, 1)) - Cardinality(Of(Begun, q, -1)))
                        /\ row[q].progress <= Min(Target[q], Cardinality(Of(Begun, q, 1)))
      BY DEF ProgressIsEvents, Of, Handled, Begun
    <2>1. \A S, T : S \subseteq T /\ T \subseteq Begun => \A inc :
            /\ Cardinality(Of(S, q, inc)) \in Nat /\ Cardinality(Of(T, q, inc)) \in Nat
            /\ Cardinality(Of(S, q, inc)) <= Cardinality(Of(T, q, inc))
      <3> SUFFICES ASSUME NEW S, NEW T, S \subseteq T, T \subseteq Begun, NEW inc
                   PROVE  /\ Cardinality(Of(S, q, inc)) \in Nat /\ Cardinality(Of(T, q, inc)) \in Nat
                          /\ Cardinality(Of(S, q, inc)) <= Cardinality(Of(T, q, inc))
        OBVIOUS
      <3>1. Of(S, q, inc) \subseteq Of(T, q, inc) /\ Of(T, q, inc) \subseteq Begun
        BY DEF Of
      <3>2. IsFiniteSet(Of(T, q, inc))
        BY <3>1, FS_Subset DEF Progressing
      <3> QED BY <3>1, <3>2, FS_Subset, FS_CardinalityType
    <2>2. /\ Cardinality(Of(Handled, q, 1)) <= Cardinality(Of(Settled, q, 1))
          /\ Cardinality(Of(Settled, q, 1)) <= Cardinality(Of(Begun, q, 1))
          /\ Cardinality(Of(Settled, q, -1)) <= Cardinality(Of(Begun, q, -1))
          /\ \A S \in {Handled, Settled, Begun}, inc \in {1, -1} : Cardinality(Of(S, q, inc)) \in Nat
      BY <2>1, SettledBegun
    <2>3. /\ row[q].progress <= Cardinality(Of(Settled, q, 1))
          /\ row[q].progress >= Min(Target[q], Cardinality(Of(Settled, q, 1)) - Cardinality(Of(Settled, q, -1)))
      BY DEF Progressing, Counting
    <2>4. row[q].progress \in Nat /\ row[q].progress <= Target[q] /\ Target[q] \in Nat
      BY RowOf
    <2> QED BY <2>2, <2>3, <2>4 DEF Min
  <1> QED BY <1>1, <1>2, AlwaysTypes, ProgressInductive, PTL DEF Spec
=============================================================================
