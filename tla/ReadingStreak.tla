---------------------------- MODULE ReadingStreak ----------------------------
(***************************************************************************)
(* The reading streak of a reader.  View messages extend it; an hourly     *)
(* cron, and every query of the streak, resets it when a weekday was       *)
(* missed, unless streak freezes bought with Cores cover the missed days.  *)
(* A change-data-capture worker notices a reset and offers, in Redis, to   *)
(* restore the streak for Cores.                                           *)
(*                                                                         *)
(* Every handler reads the streak first and writes it later: the database  *)
(* is read committed and the row is not locked in between.                 *)
(***************************************************************************)
EXTENDS StreakCalendar, FiniteSets, Sequences

CONSTANTS
  Requests,    \* requests and view messages handled at the same time
  cron,        \* the cron job update-current-streak
  FirstDay,    \* the day the model starts on
  LastDay,     \* bound: the last day of the model
  FreezesHeld, \* bound: freezes the reader may hold at first
  MaxBought,   \* bound: freezes bought
  MaxFailures  \* bound: handlers that fail or crash

ASSUME DaysAssumption == FirstDay \in Nat /\ LastDay \in Nat /\ 3 <= FirstDay /\ FirstDay <= LastDay
ASSUME BoundsAssumption == MaxBought \in Nat /\ MaxFailures \in Nat
ASSUME CronAssumption == cron \notin Requests

VARIABLES
  today,    \* the day it is for the reader
  streak,   \* committed row of user_streak
  actions,  \* committed rows of user_streak_action, by day
  cache,    \* the Redis key streak:reset, the length to restore and until when
  changes,  \* resets change data capture has not seen yet
  views,    \* days with a view message that is not processed
  access,   \* the reader's role and settings
  pc,       \* where each handler is
  snap,     \* what each handler read
  stale,    \* history: handlers whose snapshot is not the committed state
  history,  \* history: what the reader did and what was done about it
  bought,   \* history: freezes held at first or bought
  failures  \* failures so far

vars == <<today, streak, actions, cache, changes, views, access, pc, snap, stale,
          history, bought, failures>>

MAX_STREAK_FREEZES == 5
ASSUME FreezesAssumption == FreezesHeld \subseteq 0..MAX_STREAK_FREEZES

VALID_STREAK_RESET == 3
Freeze == "freeze"
Recover == "recover"

Processes == Requests \cup {cron}
Days == (FirstDay - 3)..LastDay
Larger(a, b) == IF a >= b THEN a ELSE b

Streak == [current: Nat, max: Nat, freezes: 0..MAX_STREAK_FREEZES,
           lastView: Days]
\* cores: coresRole is at least User; optOut: optOutStreakFreeze is set.
Access == [cores: BOOLEAN, optOut: BOOLEAN]
NoCache == [length |-> 0]
NoSnap == [row |-> "none"]

TypeOK ==
  /\ today \in FirstDay..LastDay
  /\ streak \in Streak
  /\ actions \subseteq [type: {Freeze, Recover}, day: Days]
  /\ cache = NoCache \/ cache \in [length: Nat, until: Nat, began: Days, last: Days]
  /\ changes \in Seq([length: Nat, last: Days, began: Days])
  /\ views \subseteq Days
  /\ access \in Access
  /\ pc \in [Processes -> {"idle", "view", "freeze", "clear", "recover", "forget"}]
  /\ stale \subseteq Processes
  /\ failures \in 0..MaxFailures

\* history.read: days with a view; began: first day of the current streak;
\* slipped: a view extended a streak that had to be reset; resets and
\* recovered: resets that may be restored, restores.  It is kept as long as
\* no handler wrote on a stale snapshot and no view waited past midnight.
Disorder == [read |-> {}, began |-> FirstDay, slipped |-> FALSE, resets |-> 0, recovered |-> 0]
Orderly == history # Disorder

Init ==
  /\ today = FirstDay
  /\ \E held \in FreezesHeld :
       /\ streak = [current |-> 3, max |-> 3, freezes |-> held,
                    lastView |-> FirstDay - 1]
       /\ history = [read |-> (FirstDay - 3)..(FirstDay - 1), began |-> FirstDay - 3,
                     slipped |-> FALSE, resets |-> 0, recovered |-> 0]
       /\ bought = held
  /\ actions = {} /\ cache = NoCache /\ changes = <<>> /\ views = {}
  /\ access \in Access
  /\ pc = [p \in Processes |-> "idle"] /\ snap = [p \in Processes |-> NoSnap]
  /\ stale = {} /\ failures = 0

-----------------------------------------------------------------------------
FreezeDays == {a.day : a \in {b \in actions : b.type = Freeze}}
RecoverDays == {a.day : a \in {b \in actions : b.type = Recover}}

LatestOf(days) == CHOOSE d \in days : \A e \in days : e <= d

\* A recover counts for the day before it was made, a freeze for the day it
\* covers.
LastAction == {d - 1 : d \in RecoverDays} \cup FreezeDays
LastUpdate(row) == LatestOf(LastAction \cup {row.lastView})

\* Mutant of checkUserStreak: freezes and recovers are not looked at.
CheckViewsOnly(row, day) == row.current # 0 /\ shouldResetStreak(day, row.lastView)

checkUserStreak(row, day) == row.current # 0 /\ shouldResetStreak(day, LastUpdate(row))

Goto(p, place) == pc' = [pc EXCEPT ![p] = place]
Read(p, fields) == snap' = [snap EXCEPT ![p] = fields]
Done(p) == Goto(p, "idle") /\ Read(p, NoSnap)

\* p writes the streak: what the others have read is stale from now on.
Others(p) == {q \in Processes \ {p} : pc[q] # "idle"}
Writes(p) == stale' = (stale \ {p}) \cup Others(p)
Record(p, h) == history' = IF Orderly /\ p \notin stale THEN h ELSE Disorder
Forgets(p) == stale' = stale \ {p}

-----------------------------------------------------------------------------
\* The reader opens a post; the view message of the day is published.
ReadPost ==
  /\ views' = views \cup {today}
  /\ history' = (IF Orderly THEN [history EXCEPT !.read = @ \cup {today}] ELSE Disorder)
  /\ UNCHANGED <<today, streak, actions, cache, changes, access, bought, pc, snap, stale, failures>>

\* Mutant of shouldIncrementStreak: every view counts.
IncrementAlways(d) == TRUE

shouldIncrementStreak(d) == streak.current = 0 \/ streak.lastView # d

\* A view is saved and the streak read, in the transaction of the message; the
\* key of a streak to restore is deleted before the streak is written.
BeginView(r, d) ==
  /\ pc[r] = "idle" /\ r \in Requests /\ d \in views
  /\ IF shouldIncrementStreak(d)
     THEN /\ Goto(r, "view") /\ Read(r, [row |-> streak, day |-> d, began |-> history.began])
          /\ cache' = (IF streak.current + 1 > 1 THEN NoCache ELSE cache)
          /\ UNCHANGED views
     ELSE views' = views \ {d} /\ UNCHANGED <<pc, snap, cache>>
  /\ UNCHANGED <<today, streak, actions, changes, access, bought, stale, history, failures>>

WriteView(r) ==
  /\ pc[r] = "view"
  /\ LET row == snap[r].row
         d == snap[r].day
     IN /\ streak' = [streak EXCEPT !.current = row.current + 1,
                                    !.max = Larger(row.current + 1, row.max),
                                    !.lastView = d]
        /\ views' = views \ {d}
        /\ Record(r, [history EXCEPT
             !.began = IF row.current = 0 THEN d ELSE snap[r].began,
             !.slipped = @ \/ checkUserStreak(row, d)])
  /\ Done(r) /\ Writes(r)
  /\ UNCHANGED <<today, actions, cache, changes, access, bought, failures>>

-----------------------------------------------------------------------------
\* Mutant of CronSelects: a reader may be two days late.
CronSelectsLate(row) ==
  row.current # 0 /\ row.lastView < today - 2 /\ \A d \in RecoverDays \cup FreezeDays : d < today

\* The rows the cron selects.
CronSelects(row) ==
  /\ row.current # 0
  /\ row.lastView < today - 1
  /\ \A d \in RecoverDays \cup FreezeDays : d < today

Missed(row) == getMissedStreakDays(today, LastUpdate(row))

MayFreeze(row) ==
  /\ Missed(row) # {}
  /\ ~access.optOut
  /\ access.cores
  /\ row.freezes >= Cardinality(Missed(row))

BeginCheck(p) ==
  /\ pc[p] = "idle"
  /\ p = cron => CronSelects(streak)
  /\ checkUserStreak(streak, today)
  /\ Goto(p, IF MayFreeze(streak) THEN "freeze" ELSE "clear")
  /\ Read(p, [row |-> streak, days |-> Missed(streak)])
  /\ UNCHANGED <<today, streak, actions, cache, changes, views, access, bought, stale, history,
                 failures>>

\* Mutant of tryConsumeStreakFreeze: one freeze for the whole gap.
ConsumeOne(p) ==
  /\ pc[p] = "freeze" /\ streak.freezes >= 1
  /\ streak' = [streak EXCEPT !.freezes = @ - 1]
  /\ actions' = actions \cup {[type |-> Freeze, day |-> d] : d \in snap[p].days}
  /\ Record(p, history)
  /\ Done(p) /\ Writes(p)
  /\ UNCHANGED <<today, cache, changes, views, access, bought, failures>>

\* Mutant of tryConsumeStreakFreeze: the decrement is not guarded.
ConsumeUnguarded(p) ==
  /\ pc[p] = "freeze"
  /\ streak' = [streak EXCEPT !.freezes = @ - Cardinality(snap[p].days)]
  /\ actions' = actions \cup {[type |-> Freeze, day |-> d] : d \in snap[p].days}
  /\ Record(p, history)
  /\ Done(p) /\ Writes(p)
  /\ UNCHANGED <<today, cache, changes, views, access, bought, failures>>

\* A transaction: the guarded decrement, and one freeze action per missed day.
tryConsumeStreakFreeze(p) ==
  /\ pc[p] = "freeze"
  /\ streak.freezes >= Cardinality(snap[p].days)
  /\ streak' = [streak EXCEPT !.freezes = @ - Cardinality(snap[p].days)]
  /\ actions' = actions \cup {[type |-> Freeze, day |-> d] : d \in snap[p].days}
  /\ Record(p, history)
  /\ Done(p) /\ Writes(p)
  /\ UNCHANGED <<today, cache, changes, views, access, bought, failures>>

\* The decrement found fewer freezes than were read: the streak is reset.
FreezesGone(p) ==
  /\ pc[p] = "freeze" /\ streak.freezes < Cardinality(snap[p].days)
  /\ Goto(p, "clear")
  /\ UNCHANGED <<today, streak, actions, cache, changes, views, access, bought, snap, stale,
                 history, failures>>

\* The update has no condition on what was read.
clearUserStreak(p) ==
  /\ pc[p] = "clear"
  /\ streak' = [streak EXCEPT !.current = 0]
  /\ IF streak.current >= VALID_STREAK_RESET
     THEN /\ changes' = Append(changes, [length |-> streak.current, last |-> streak.lastView,
                                         began |-> history.began])
          /\ Record(p, [history EXCEPT !.resets = @ + 1])
     ELSE Record(p, history) /\ UNCHANGED changes
  /\ Done(p) /\ Writes(p)
  /\ UNCHANGED <<today, actions, cache, views, access, bought, failures>>

-----------------------------------------------------------------------------
\* What counts for a restore: the last view or recover, not the freezes.
LastStreak(change) == LatestOf({d - 1 : d \in RecoverDays} \cup {change.last})

shouldAllowRestore(change) == checkRestoreValidity(today, LastStreak(change))

\* The change-data-capture worker handles the next reset.  The days of the streak
\* (began, last) are history: the key holds its length.
setRestoreStreakCache ==
  /\ changes # <<>>
  /\ changes' = Tail(changes)
  /\ LET change == Head(changes) IN
     cache' = IF shouldAllowRestore(change) /\ access.cores
              THEN [length |-> change.length, until |-> getNextWeekday(today),
                    began |-> change.began, last |-> change.last]
              ELSE cache
  /\ UNCHANGED <<today, streak, actions, views, access, bought, pc, snap, stale, history, failures>>

CanRecover == cache # NoCache /\ streak.current <= 1 /\ access.cores

\* recoverStreak checks the key, the streak, the role and the balance.
BeginRecover(r) ==
  /\ pc[r] = "idle" /\ r \in Requests /\ CanRecover
  /\ Goto(r, "recover") /\ Read(r, [row |-> streak, old |-> cache])
  /\ UNCHANGED <<today, streak, actions, cache, changes, views, access, bought, stale, history,
                 failures>>

\* The transaction: njord takes the Cores and the streak is restored.
CommitRecover(r) ==
  /\ pc[r] = "recover"
  /\ LET length == snap[r].old.length + snap[r].row.current IN
     streak' = [streak EXCEPT !.current = length, !.max = Larger(length, snap[r].row.max)]
  /\ actions' = actions \cup {[type |-> Recover, day |-> today]}
  /\ Record(r, [history EXCEPT !.recovered = @ + 1, !.began = snap[r].old.began])
  /\ Goto(r, "forget") /\ Read(r, NoSnap) /\ Writes(r)
  /\ UNCHANGED <<today, cache, changes, views, access, bought, failures>>

\* The key is deleted once the transaction has committed.
ForgetRecover(r) ==
  /\ pc[r] = "forget" /\ Done(r) /\ Forgets(r) /\ cache' = NoCache
  /\ UNCHANGED <<today, streak, actions, changes, views, access, bought, history, failures>>

\* One freeze is added, guarded by the maximum, and paid in one transaction.
purchaseStreakFreeze ==
  /\ access.cores /\ bought < MaxBought
  /\ streak.freezes + 1 <= MAX_STREAK_FREEZES
  /\ streak' = [streak EXCEPT !.freezes = @ + 1]
  /\ bought' = bought + 1
  /\ UNCHANGED <<today, actions, cache, changes, views, access, pc, snap, stale, history,
                 failures>>

-----------------------------------------------------------------------------
\* A handler throws, is refused by njord or dies: its transaction is rolled
\* back, and a view message is delivered again.
Fail(p) ==
  /\ pc[p] # "idle" /\ failures < MaxFailures
  /\ failures' = failures + 1
  /\ Done(p) /\ Forgets(p)
  /\ UNCHANGED <<today, streak, actions, cache, changes, views, access, bought, history>>

\* Midnight for the reader.  The key expires on its day.
NextDay ==
  /\ today < LastDay
  /\ today' = today + 1
  /\ cache' = (IF cache # NoCache /\ cache.until <= today' THEN NoCache ELSE cache)
  /\ history' = (IF views = {} THEN history ELSE Disorder)
  /\ stale' = {p \in Processes : pc[p] # "idle"}
  /\ UNCHANGED <<streak, actions, changes, views, access, bought, pc, snap, failures>>

Handle(p) ==
  \/ WriteView(p) \/ tryConsumeStreakFreeze(p) \/ FreezesGone(p) \/ clearUserStreak(p)
  \/ CommitRecover(p) \/ ForgetRecover(p)

Next ==
  \/ ReadPost \/ setRestoreStreakCache \/ purchaseStreakFreeze \/ NextDay
  \/ \E p \in Processes : BeginCheck(p) \/ Handle(p) \/ Fail(p)
  \/ \E r \in Requests : BeginRecover(r) \/ \E d \in views : BeginView(r, d)

Spec == Init /\ [][Next]_vars

\* The cron runs every hour and its transaction ends.
FairSpec == Spec /\ WF_vars(BeginCheck(cron)) /\ WF_vars(Handle(cron))

-----------------------------------------------------------------------------
\* Each read day extends the streak by one: unless a handler wrote over what it
\* had not read or a view was processed after midnight, the streak is never
\* longer than the days read since it began (newView.ts, recoverStreak).
StreakIsRead ==
  Orderly => streak.current <= Cardinality({d \in history.read : d >= history.began})

\* A day of a streak that nobody read is a weekend day, or a freeze or a recover
\* stands for it: a gap gets through only by a race, by a view processed after
\* midnight, or by a view that comes before the hourly cron and every query.
Stands(d) ==
  \/ IsWeekend(d) \/ d \in history.read \/ d \in FreezeDays
  \/ \E r \in RecoverDays : d < r /\ \A e \in (d + 1)..(r - 1) : IsWeekend(e)

GapsAreCovered ==
  Orderly /\ ~history.slipped /\ streak.current > 0 =>
    \A d \in history.began..streak.lastView : Stands(d)

\* The other way round, an orderly handler resets a streak only when a weekday
\* before today was missed and nothing stands for it (updateCurrentStreak.ts,
\* checkAndClearUserStreak).
ResetOnlyIfMissed ==
  [][Orderly' /\ streak'.current < streak.current =>
       \E d \in streak.lastView..(today - 1) : ~Stands(d)]_vars

\* What the reader pays for holds: every freeze held is still there or was spent
\* on one missed day, a day that was read or is a weekend day costs none, and a
\* reset is restored, and paid for, once.  Two checks, or two recovers, that race
\* break it (tryConsumeStreakFreeze, purchaseStreakFreeze, recoverStreak).
PurchasesHold ==
  Orderly =>
    /\ bought = streak.freezes + Cardinality(FreezeDays)
    /\ \A d \in FreezeDays : ~IsWeekend(d) /\ d \notin history.read
    /\ history.recovered <= history.resets

\* A streak that has to be reset does not stay for good: the cron freezes the
\* missed days or resets it, or a view gets in first (updateCurrentStreak.ts).
Broken == checkUserStreak(streak, today)
BrokenStreakEnds == []<>~Broken

\* What tryConsumeStreakFreeze says of itself: "consume one streak freeze per
\* missed day".  Two handlers that read the same missed day both spend one.
OneFreezePerDay == bought - streak.freezes <= Cardinality(FreezeDays)
=============================================================================
