-------------------------- MODULE ReadingStreak_proofs --------------------------
(* Facts about the calendar, for every pair of days and both week starts,  *)
(* and what an orderly history promises the reader of a streak: for any    *)
(* number of days, requests, freezes and failures.                         *)
EXTENDS ReadingStreak, FiniteSetTheorems, SequenceTheorems, TLAPS

\* Where a day lies in the week, told by the weekend: a day other than the last
\* and the first of the week follows a day that is no weekend day; the last day
\* of the week follows a weekend day, the first one two of them.
LEMMA WeekFacts ==
  ASSUME NEW d \in Int
  PROVE  /\ Weekday(d) = LastDayOfWeek => IsWeekend(d - 1) /\ ~IsWeekend(d - 2)
         /\ Weekday(d) = FirstDayOfWeek =>
              IsWeekend(d - 1) /\ IsWeekend(d - 2) /\ ~IsWeekend(d - 3)
         /\ Weekday(d) # LastDayOfWeek /\ Weekday(d) # FirstDayOfWeek => ~IsWeekend(d - 1)
         /\ LastDayOfWeek # FirstDayOfWeek
  <1>1. CASE WeekStart = 0
    BY <1>1 DEF Weekday, IsWeekend, getWeekendDays, LastDayOfWeek, FirstDayOfWeek
  <1>2. CASE WeekStart = 1
    BY <1>2 DEF Weekday, IsWeekend, getWeekendDays, LastDayOfWeek, FirstDayOfWeek
  <1> QED BY <1>1, <1>2, WeekStartAssumption DEF Sunday, Monday

\* A streak is reset exactly when a day that is no weekend day lies between its
\* last update and today: shouldResetStreak counts days and getMissedStreakDays
\* lists them, and the two agree, so a reset always has a day to freeze.
THEOREM ResetIffDayMissed ==
  ASSUME NEW now \in Int, NEW last \in Int
  PROVE  shouldResetStreak(now, last) <=> getMissedStreakDays(now, last) # {}
  <1> DEFINE missed == getMissedStreakDays(now, last)
  <1>1. CASE Weekday(now) = LastDayOfWeek
    <2>1. shouldResetStreak(now, last) <=> now - last > 2
      BY <1>1, WeekFacts DEF shouldResetStreak, getStreakGraceDays, FREEZE_DAYS_IN_A_WEEK
    <2>2. ASSUME now - last > 2 PROVE now - 2 \in missed
      BY <1>1, <2>2, WeekFacts DEF getMissedStreakDays
    <2>3. ASSUME now - last <= 2, NEW d \in missed PROVE FALSE
      BY <1>1, <2>3, WeekFacts DEF getMissedStreakDays
    <2> QED BY <2>1, <2>2, <2>3
  <1>2. CASE Weekday(now) = FirstDayOfWeek
    <2>1. shouldResetStreak(now, last) <=> now - last > 3
      BY <1>2, WeekFacts
         DEF shouldResetStreak, getStreakGraceDays, FREEZE_DAYS_IN_A_WEEK, MISSED_LIMIT
    <2>2. ASSUME now - last > 3 PROVE now - 3 \in missed
      BY <1>2, <2>2, WeekFacts DEF getMissedStreakDays
    <2>3. ASSUME now - last <= 3, NEW d \in missed PROVE FALSE
      BY <1>2, <2>3, WeekFacts DEF getMissedStreakDays
    <2> QED BY <2>1, <2>2, <2>3
  <1>3. CASE Weekday(now) # LastDayOfWeek /\ Weekday(now) # FirstDayOfWeek
    <2>1. shouldResetStreak(now, last) <=> now - last > 1
      BY <1>3 DEF shouldResetStreak, getStreakGraceDays, MISSED_LIMIT
    <2>2. ASSUME now - last > 1 PROVE now - 1 \in missed
      BY <1>3, <2>2, WeekFacts DEF getMissedStreakDays
    <2>3. ASSUME now - last <= 1, NEW d \in missed PROVE FALSE
      BY <2>3 DEF getMissedStreakDays
    <2> QED BY <2>1, <2>2, <2>3
  <1> QED BY <1>1, <1>2, <1>3

\* A streak that may be restored missed at most one day that is no weekend day,
\* whatever weekday it is: getAllowedDays lets one such gap through.
THEOREM RestoreMissesOneDay ==
  ASSUME NEW now \in Int, NEW last \in Int, checkRestoreValidity(now, last),
         NEW d \in getMissedStreakDays(now, last),
         NEW e \in getMissedStreakDays(now, last)
  PROVE  d = e
  <1>1. CASE WeekStart = 0
    BY <1>1 DEF checkRestoreValidity, getAllowedDays, getMissedStreakDays, Weekday, IsWeekend,
      getWeekendDays, LastDayOfWeek, FirstDayOfWeek, STREAK_RECOVERY_MAX_GAP_DAYS,
      FREEZE_DAYS_IN_A_WEEK
  <1>2. CASE WeekStart = 1
    BY <1>2 DEF checkRestoreValidity, getAllowedDays, getMissedStreakDays, Weekday, IsWeekend,
      getWeekendDays, LastDayOfWeek, FirstDayOfWeek, STREAK_RECOVERY_MAX_GAP_DAYS,
      FREEZE_DAYS_IN_A_WEEK
  <1> QED BY <1>1, <1>2, WeekStartAssumption DEF Sunday, Monday

\* On a weekend day a restore lasts until the second day of the week is due, on
\* any other day until tomorrow.
LEMMA NextWeekday ==
  ASSUME NEW d \in Nat
  PROVE  /\ Weekday(d) = (LastDayOfWeek + 6) % 7 => getNextWeekday(d) = d + 3
         /\ Weekday(d) = LastDayOfWeek => getNextWeekday(d) = d + 2
         /\ ~IsWeekend(d) => getNextWeekday(d) = d + 1
  <1> DEFINE P(e) == Weekday(e) = (FirstDayOfWeek + 1) % 7
             week == (d + 1)..(d + 7)
  <1>1. CASE Weekday(d) = (LastDayOfWeek + 6) % 7
    <2>1. IsWeekend(d) /\ (LastDayOfWeek + 6) % 7 # LastDayOfWeek
      BY <1>1, WeekStartAssumption
         DEF IsWeekend, getWeekendDays, LastDayOfWeek, Sunday, Monday
    <2>2. \A e \in week : P(e) <=> e = d + 3
      <3>1. CASE WeekStart = 0
        BY <1>1, <3>1 DEF Weekday, LastDayOfWeek, FirstDayOfWeek
      <3>2. CASE WeekStart = 1
        BY <1>1, <3>2 DEF Weekday, LastDayOfWeek, FirstDayOfWeek
      <3> QED BY <3>1, <3>2, WeekStartAssumption DEF Sunday, Monday
    <2>3. (CHOOSE e \in week : P(e)) = d + 3
      <3>1. \E e \in week : P(e)
        BY <2>2
      <3>2. (CHOOSE e \in week : P(e)) \in week /\ P(CHOOSE e \in week : P(e))
        BY <3>1
      <3> HIDE DEF P
      <3> QED BY <3>2, <2>2
    <2> QED BY <1>1, <2>1, <2>3 DEF getNextWeekday
  <1>2. CASE Weekday(d) = LastDayOfWeek
    <2>1. IsWeekend(d) /\ (LastDayOfWeek + 6) % 7 # LastDayOfWeek
      BY <1>2, WeekStartAssumption
         DEF IsWeekend, getWeekendDays, LastDayOfWeek, Sunday, Monday
    <2>2. \A e \in week : P(e) <=> e = d + 2
      <3>1. CASE WeekStart = 0
        BY <1>2, <3>1 DEF Weekday, LastDayOfWeek, FirstDayOfWeek
      <3>2. CASE WeekStart = 1
        BY <1>2, <3>2 DEF Weekday, LastDayOfWeek, FirstDayOfWeek
      <3> QED BY <3>1, <3>2, WeekStartAssumption DEF Sunday, Monday
    <2>3. (CHOOSE e \in week : P(e)) = d + 2
      <3>1. \E e \in week : P(e)
        BY <2>2
      <3>2. (CHOOSE e \in week : P(e)) \in week /\ P(CHOOSE e \in week : P(e))
        BY <3>1
      <3> HIDE DEF P
      <3> QED BY <3>2, <2>2
    <2> QED BY <1>2, <2>1, <2>3 DEF getNextWeekday
  <1>3. CASE ~IsWeekend(d)
    <2>1. Weekday(d) # (LastDayOfWeek + 6) % 7 /\ Weekday(d) # LastDayOfWeek
      BY <1>3 DEF IsWeekend, getWeekendDays
    <2> QED BY <1>3, <2>1 DEF getNextWeekday
  <1> QED BY <1>1, <1>2, <1>3 DEF IsWeekend, getWeekendDays

\* A window of restores ends the first time a day is a weekday that is over: two
\* days of one window have only weekend days between them, and a window that
\* outlives a day of the weekend is that of the next day, too.
LEMMA Windows ==
  ASSUME NEW d \in Nat
  PROVE  /\ d < getNextWeekday(d)
         /\ \A e \in Nat : d <= e /\ getNextWeekday(d) = getNextWeekday(e) =>
              \A f \in d..(e - 1) : IsWeekend(f)
         /\ d + 1 < getNextWeekday(d) =>
              IsWeekend(d) /\ getNextWeekday(d + 1) = getNextWeekday(d)
         /\ \A e \in Nat : e <= d /\ getNextWeekday(e) = getNextWeekday(d + 1) =>
              getNextWeekday(e) = getNextWeekday(d)
  <1> USE DEF Weekday, IsWeekend, getWeekendDays, LastDayOfWeek
  <1>1. \A e \in Nat : getNextWeekday(e) =
          IF e % 7 = (LastDayOfWeek + 6) % 7 THEN e + 3
          ELSE IF e % 7 = LastDayOfWeek THEN e + 2 ELSE e + 1
    BY NextWeekday
  <1>2. CASE WeekStart = 0
    BY <1>1, <1>2
  <1>3. CASE WeekStart = 1
    BY <1>1, <1>3
  <1> QED BY <1>2, <1>3, WeekStartAssumption DEF Sunday, Monday

-----------------------------------------------------------------------------
(* Days and actions.                                                       *)

LEMMA DaysFacts ==
  /\ Days \subseteq Nat /\ IsFiniteSet(Days)
  /\ FirstDay..LastDay \subseteq Days /\ FirstDay - 1 \in Days
  /\ \A a, b \in Days, d \in Int : a <= d /\ d <= b => d \in Days
  BY FS_Interval, DaysAssumption DEF Days

\* A set of integers with an upper bound has a latest member.
LEMMA LatestIsMax ==
  ASSUME NEW S, S \subseteq Int, S # {}, NEW n \in Int, \A d \in S : d <= n
  PROVE  LatestOf(S) \in S /\ \A e \in S : e <= LatestOf(S)
  <1> DEFINE T == {n - d : d \in S}
             R == OpToRel(<, Nat)
  <1>1. T \subseteq Nat /\ T # {}
    <2>1. ASSUME NEW e \in T PROVE e \in Nat
      <3>1. PICK d \in S : e = n - d
        BY <2>1
      <3>2. d \in Int /\ d <= n
        OBVIOUS
      <3> QED BY <3>1, <3>2
    <2>2. T # {}
      OBVIOUS
    <2> QED BY <2>1, <2>2
  <1>0. R = {ss \in Nat \X Nat : ss[1] < ss[2]}
    BY DEF OpToRel
  <1>2. PICK x \in T : \A y \in T : ~(<<y, x>> \in R)
    <2>1. IsWellFoundedOn(R, Nat)
      BY NatLessThanWellFounded
    <2> HIDE DEF T, R
    <2> QED BY <1>1, <2>1, WFMin
  <1>3. \A y \in T : x <= y
    <2> SUFFICES ASSUME NEW y \in T PROVE x <= y
      OBVIOUS
    <2>1. x \in Nat /\ y \in Nat /\ <<y, x>> \notin R
      BY <1>1, <1>2
    <2> HIDE DEF T, R
    <2> QED BY <2>1, <1>0
  <1>4. PICK d \in S : x = n - d
    OBVIOUS
  <1>5. \A e \in S : e <= d
    BY <1>3, <1>4
  <1> QED BY <1>4, <1>5 DEF LatestOf

\* No freeze and no recover counts for a day from d on.
After(d) == (\A t \in RecoverDays : t <= d) /\ (\A f \in FreezeDays : f < d)

LEMMA ActionDays ==
  ASSUME TypeOK
  PROVE  /\ RecoverDays \subseteq Days /\ FreezeDays \subseteq Days
         /\ \A t \in RecoverDays : t \in Int /\ t <= LastDay
         /\ \A f \in FreezeDays : f \in Int /\ f <= LastDay
  <1>1. RecoverDays \subseteq Days /\ FreezeDays \subseteq Days
    BY DEF TypeOK, RecoverDays, FreezeDays
  <1>2. \A d \in Days : d \in Int /\ d <= LastDay
    BY DaysAssumption DEF Days
  <1> QED BY <1>1, <1>2

LEMMA SameActions ==
  actions' = actions => RecoverDays' = RecoverDays /\ FreezeDays' = FreezeDays
  BY DEF RecoverDays, FreezeDays

LEMMA MoreFreezes ==
  ASSUME NEW D, actions' = actions \cup {[type |-> Freeze, day |-> d] : d \in D}
  PROVE  RecoverDays' = RecoverDays /\ FreezeDays' = FreezeDays \cup D
  <1> DEFINE new == {[type |-> Freeze, day |-> d] : d \in D}
  <1>1. \A a \in new : a.type = Freeze /\ a.type # Recover /\ a.day \in D
    BY DEF Freeze, Recover
  <1>2. \A d \in D : \E a \in new : a.type = Freeze /\ a.day = d
    <2> TAKE d \in D
    <2> WITNESS [type |-> Freeze, day |-> d] \in new
    <2> QED OBVIOUS
  <1> HIDE DEF new
  <1>3. actions' = actions \cup new
    BY DEF new
  <1> QED BY <1>1, <1>2, <1>3 DEF RecoverDays, FreezeDays

LEMMA OneRecoverMore ==
  ASSUME NEW d, actions' = actions \cup {[type |-> Recover, day |-> d]}
  PROVE  RecoverDays' = RecoverDays \cup {d} /\ FreezeDays' = FreezeDays
  <1> DEFINE new == [type |-> Recover, day |-> d]
  <1>1. new.type = Recover /\ new.type # Freeze /\ new.day = d
    BY DEF Freeze, Recover
  <1> HIDE DEF new
  <1>2. actions' = actions \cup {new}
    BY DEF new
  <1> QED BY <1>1, <1>2 DEF RecoverDays, FreezeDays

\* What comes after the last update comes after the last view and every action.
LEMMA LastUpdateIs ==
  ASSUME TypeOK
  PROVE  /\ LastUpdate(streak) \in Int
         /\ \A d \in Int :
              LastUpdate(streak) < d <=> streak.lastView < d /\ After(d)
  <1> DEFINE S == LastAction \cup {streak.lastView}
  <1>1. streak.lastView \in Days
    BY DEF TypeOK, Streak
  <1>2. S \subseteq Int /\ S # {} /\ \A d \in S : d <= LastDay
    BY <1>1, ActionDays, DaysFacts, DaysAssumption DEF LastAction, Days
  <1>3. LatestOf(S) \in S /\ \A e \in S : e <= LatestOf(S)
    BY <1>2, LatestIsMax, DaysAssumption
  <1>4. LastUpdate(streak) = LatestOf(S)
    BY DEF LastUpdate
  <1>5. \A d \in Int : (\A e \in S : e < d) <=> streak.lastView < d /\ After(d)
    <2> TAKE d \in Int
    <2>1. ASSUME \A e \in S : e < d PROVE streak.lastView < d /\ After(d)
      <3>1. streak.lastView \in S /\ FreezeDays \subseteq S
        BY DEF LastAction
      <3>2. ASSUME NEW t \in RecoverDays PROVE t <= d
        <4>1. t - 1 \in S /\ t \in Int
          BY ActionDays DEF LastAction
        <4> QED BY <2>1, <4>1
      <3> QED BY <2>1, <3>1, <3>2 DEF After
    <2>2. ASSUME streak.lastView < d, After(d), NEW e \in S PROVE e < d
      <3>1. CASE e \in FreezeDays \cup {streak.lastView}
        BY <2>2, <3>1 DEF After
      <3>2. ASSUME NEW t \in RecoverDays, e = t - 1 PROVE e < d
        BY <2>2, <3>2, ActionDays DEF After
      <3> QED BY <3>1, <3>2 DEF LastAction
    <2> QED BY <2>1, <2>2
  <1>6. LatestOf(S) \in Int
    <2> HIDE DEF S
    <2> QED BY <1>2, <1>3
  <1>7. \A d \in Int : LatestOf(S) < d <=> \A e \in S : e < d
    <2> HIDE DEF S
    <2>1. \A e \in S : e \in Int
      BY <1>2
    <2> QED BY <2>1, <1>3
  <1> QED BY <1>4, <1>5, <1>6, <1>7

\* The days a check finds missed: weekdays over, after the last view and action.
MissedDays ==
  {d \in Days : streak.lastView < d /\ d < today /\ ~IsWeekend(d) /\ After(d)}

LEMMA MissedIs ==
  ASSUME TypeOK
  PROVE  /\ Missed(streak) = MissedDays
         /\ shouldResetStreak(today, LastUpdate(streak)) <=> MissedDays # {}
  <1>1. today \in Int /\ streak.lastView \in Days /\ today \in Days
    BY DaysFacts, DaysAssumption DEF TypeOK, Streak
  <1>2. Missed(streak) = MissedDays
    <2> DEFINE last == LastUpdate(streak)
    <2>1. last \in Int
      BY LastUpdateIs
    <2>2. \A d \in Int : d \in (last + 1)..(today - 1) <=> last < d /\ d < today
      <3> HIDE DEF last
      <3> QED BY <1>1, <2>1
    <2>3. \A d \in Int : last < d <=> streak.lastView < d /\ After(d)
      BY LastUpdateIs
    <2>4. \A d \in Int : streak.lastView < d /\ d < today => d \in Days
      BY <1>1, DaysAssumption DEF Days
    <2>5. Days \subseteq Int /\ (last + 1)..(today - 1) \subseteq Int
      BY DaysFacts
    <2> HIDE DEF last
    <2>6. Missed(streak) = {d \in (last + 1)..(today - 1) : ~IsWeekend(d)}
      BY DEF Missed, getMissedStreakDays, last
    <2> QED BY <2>2, <2>3, <2>4, <2>5, <2>6 DEF MissedDays
  <1> QED BY <1>1, <1>2, LastUpdateIs, ResetIffDayMissed DEF Missed

\* The same for what counts for a restore.
LEMMA LastStreakIs ==
  ASSUME TypeOK, NEW x, x.last \in Days
  PROVE  /\ LastStreak(x) \in Int
         /\ \A d \in Int :
              LastStreak(x) < d <=> x.last < d /\ \A t \in RecoverDays : t <= d
  <1> DEFINE S == {d - 1 : d \in RecoverDays} \cup {x.last}
  <1>2. S \subseteq Int /\ S # {} /\ \A d \in S : d <= LastDay
    BY ActionDays, DaysAssumption DEF Days
  <1>3. LatestOf(S) \in S /\ \A e \in S : e <= LatestOf(S)
    <2>1. LastDay \in Int
      BY DaysAssumption
    <2> HIDE DEF S
    <2> QED BY <1>2, <2>1, LatestIsMax
  <1>4. LastStreak(x) = LatestOf(S)
    BY DEF LastStreak
  <1>5. \A d \in Int : (\A e \in S : e < d) <=> x.last < d /\ \A t \in RecoverDays : t <= d
    <2> TAKE d \in Int
    <2>1. (\A e \in S : e < d) <=> x.last < d /\ \A t \in RecoverDays : t - 1 < d
      BY Zenon
    <2>2. \A t \in RecoverDays : t - 1 < d <=> t <= d
      BY ActionDays
    <2> QED BY <2>1, <2>2
  <1>6. LatestOf(S) \in Int /\ \A d \in Int : LatestOf(S) < d <=> \A e \in S : e < d
    <2> HIDE DEF S
    <2>1. \A e \in S : e \in Int
      BY <1>2
    <2> QED BY <2>1, <1>3
  <1> QED BY <1>4, <1>5, <1>6

-----------------------------------------------------------------------------
(* Types.                                                                  *)

CacheRow == [length: Nat, until: Nat, began: Days, last: Days]
Change == [length: Nat, last: Days, began: Days]
History == [read: SUBSET Days, began: Days, slipped: BOOLEAN, resets: Nat, recovered: Nat]

\* What a handler has read, by the place where it is.
Snapshot(p) ==
  /\ pc[p] = "view" => snap[p].row \in Streak /\ snap[p].day \in Days /\ snap[p].began \in Days
  /\ pc[p] \in {"freeze", "clear"} => snap[p].days \subseteq Days
  /\ pc[p] = "recover" => snap[p].row \in Streak /\ snap[p].old \in CacheRow

Typed ==
  /\ TypeOK
  /\ history \in History /\ bought \in Nat
  /\ DOMAIN snap = Processes
  /\ \A p \in Processes : Snapshot(p)

\* The history is kept, or forgotten for good.
LEMMA DisorderIsHistory == Disorder \in History
  BY DaysFacts, DaysAssumption DEF Disorder, History

\* The handlers that do not act stay as they are.
LEMMA SnapshotsStay ==
  ASSUME Typed, NEW p \in Processes,
         \A q \in Processes \ {p} : pc'[q] = pc[q] /\ snap'[q] = snap[q],
         DOMAIN snap' = Processes, Snapshot(p)'
  PROVE  DOMAIN snap' = Processes /\ \A q \in Processes : Snapshot(q)'
  BY DEF Typed, Snapshot

\* A handler that ends.
LEMMA DoneSnapshot ==
  ASSUME Typed, NEW p \in Processes, Done(p)
  PROVE  /\ pc' \in [Processes -> {"idle", "view", "freeze", "clear", "recover", "forget"}]
         /\ DOMAIN snap' = Processes /\ \A q \in Processes : Snapshot(q)'
         /\ pc'[p] = "idle" /\ \A q \in Processes \ {p} : pc'[q] = pc[q] /\ snap'[q] = snap[q]
  <1>1. pc' = [pc EXCEPT ![p] = "idle"] /\ snap' = [snap EXCEPT ![p] = NoSnap]
    BY DEF Done, Goto, Read
  <1>2. pc' \in [Processes -> {"idle", "view", "freeze", "clear", "recover", "forget"}]
    BY <1>1 DEF Typed, TypeOK
  <1>3. DOMAIN snap' = Processes /\ pc'[p] = "idle"
        /\ \A q \in Processes \ {p} : pc'[q] = pc[q] /\ snap'[q] = snap[q]
    BY <1>1 DEF Typed, TypeOK
  <1>4. Snapshot(p)'
    BY <1>3 DEF Snapshot
  <1> QED BY <1>2, <1>3, <1>4, SnapshotsStay

\* A handler that goes on, or begins, with what it has read.
LEMMA GotoSnapshot ==
  ASSUME Typed, NEW p \in Processes, NEW place \in {"view", "freeze", "clear", "recover"},
         NEW fields, Goto(p, place), Read(p, fields)
  PROVE  /\ pc' \in [Processes -> {"idle", "view", "freeze", "clear", "recover", "forget"}]
         /\ DOMAIN snap' = Processes /\ pc'[p] = place /\ snap'[p] = fields
         /\ \A q \in Processes \ {p} : pc'[q] = pc[q] /\ snap'[q] = snap[q]
  BY DEF Typed, TypeOK, Goto, Read

LEMMA RecordIsHistory ==
  ASSUME Typed, NEW p \in Processes, NEW h \in History, Record(p, h)
  PROVE  history' \in History
  BY DisorderIsHistory DEF Record, Typed

LEMMA TypesInductive == Typed /\ [Next]_vars => Typed'
  <1> SUFFICES ASSUME Typed, [Next]_vars PROVE Typed'
    OBVIOUS
  <1>0. /\ TypeOK /\ today \in FirstDay..LastDay /\ today \in Days /\ streak \in Streak
        /\ history \in History /\ history.began \in Days
    BY DaysFacts DEF Typed, TypeOK, History
  <1>frame. ASSUME UNCHANGED <<pc, snap>>
            PROVE  DOMAIN snap' = Processes /\ \A p \in Processes : Snapshot(p)'
    BY <1>frame DEF Typed, Snapshot
  <1>1. CASE ReadPost
    <2>1. TypeOK'
      BY <1>1, <1>0 DEF ReadPost, TypeOK
    <2>2. history' \in History
      BY <1>1, <1>0, DisorderIsHistory DEF ReadPost, History
    <2>3. bought' \in Nat /\ UNCHANGED <<pc, snap>>
      BY <1>1 DEF ReadPost, Typed
    <2> QED BY <2>1, <2>2, <2>3, <1>frame DEF Typed
  <1>2. CASE setRestoreStreakCache
    <2>1. Head(changes) \in Change /\ changes' \in Seq(Change)
      <3>1. changes \in Seq(Change) /\ changes # <<>> /\ changes' = Tail(changes)
        BY <1>2, <1>0 DEF setRestoreStreakCache, TypeOK, Change
      <3> QED BY <3>1, HeadTailProperties
    <2>2. getNextWeekday(today) \in Nat
      <3>1. today \in Nat
        BY <1>0, DaysFacts
      <3> QED BY <3>1, NextWeekday DEF IsWeekend, getWeekendDays
    <2>3. cache' = NoCache \/ cache' \in CacheRow
      BY <1>2, <1>0, <2>1, <2>2 DEF setRestoreStreakCache, TypeOK, Change, CacheRow
    <2>4. TypeOK'
      BY <1>2, <1>0, <2>1, <2>3 DEF setRestoreStreakCache, TypeOK, Change, CacheRow
    <2>5. UNCHANGED <<history, bought, pc, snap>>
      BY <1>2 DEF setRestoreStreakCache
    <2> QED BY <2>4, <2>5, <1>frame DEF Typed
  <1>3. CASE purchaseStreakFreeze
    <2>1. streak' \in Streak
      BY <1>3, <1>0 DEF purchaseStreakFreeze, Streak, MAX_STREAK_FREEZES
    <2>2. TypeOK'
      BY <1>3, <1>0, <2>1 DEF purchaseStreakFreeze, TypeOK
    <2>3. bought' \in Nat /\ UNCHANGED <<history, pc, snap>>
      BY <1>3 DEF purchaseStreakFreeze, Typed
    <2> QED BY <2>2, <2>3, <1>frame DEF Typed
  <1>4. CASE NextDay
    <2>1. TypeOK'
      BY <1>4, <1>0, DaysAssumption DEF NextDay, TypeOK
    <2>2. bought' \in Nat /\ UNCHANGED <<pc, snap>> /\ history' \in History
      BY <1>4, DisorderIsHistory DEF NextDay, Typed
    <2> QED BY <2>1, <2>2, <1>frame DEF Typed
  <1>5. ASSUME NEW p \in Processes, BeginCheck(p) PROVE Typed'
    <2>1. PICK place \in {"freeze", "clear"} :
            Goto(p, place) /\ Read(p, [row |-> streak, days |-> Missed(streak)])
      BY <1>5 DEF BeginCheck
    <2>2. Missed(streak) \subseteq Days
      BY <1>0, MissedIs DEF MissedDays
    <2>3. /\ pc' \in [Processes -> {"idle", "view", "freeze", "clear", "recover", "forget"}]
          /\ DOMAIN snap' = Processes /\ pc'[p] = place
          /\ snap'[p] = [row |-> streak, days |-> Missed(streak)]
          /\ \A q \in Processes \ {p} : pc'[q] = pc[q] /\ snap'[q] = snap[q]
      BY <2>1, GotoSnapshot
    <2>4. Snapshot(p)'
      BY <2>2, <2>3 DEF Snapshot
    <2>5. TypeOK'
      BY <1>5, <1>0, <2>3 DEF BeginCheck, TypeOK
    <2>6. UNCHANGED <<history, bought>>
      BY <1>5 DEF BeginCheck
    <2> QED BY <2>3, <2>4, <2>5, <2>6, SnapshotsStay DEF Typed
  <1>6. ASSUME NEW p \in Processes, WriteView(p) PROVE Typed'
    <2>1. Snapshot(p) /\ snap[p].row \in Streak /\ snap[p].day \in Days /\ snap[p].began \in Days
      BY <1>6 DEF WriteView, Typed, Snapshot
    <2>2. streak' \in Streak
      <3> DEFINE row == snap[p].row
      <3>1. row.current + 1 \in Nat /\ Larger(row.current + 1, row.max) \in Nat
        BY <2>1 DEF Streak, Larger
      <3>2. streak' = [streak EXCEPT !.current = row.current + 1,
                 !.max = Larger(row.current + 1, row.max), !.lastView = snap[p].day]
        BY <1>6 DEF WriteView
      <3> HIDE DEF row
      <3> QED BY <1>0, <2>1, <3>1, <3>2 DEF Streak
    <2>3. PICK h : h \in History /\ Record(p, h)
      <3> DEFINE h == [history EXCEPT
                !.began = IF snap[p].row.current = 0 THEN snap[p].day ELSE snap[p].began,
                !.slipped = @ \/ checkUserStreak(snap[p].row, snap[p].day)]
      <3>1. checkUserStreak(snap[p].row, snap[p].day) \in BOOLEAN
        BY DEF checkUserStreak, shouldResetStreak
      <3>2. h \in History
        <4> HIDE DEF checkUserStreak
        <4> QED BY <1>0, <2>1, <3>1 DEF History
      <3> QED BY <1>6, <3>2 DEF WriteView
    <2>4. Done(p) /\ history' \in History /\ stale' \subseteq Processes
      BY <1>6, <1>0, <2>3, RecordIsHistory DEF WriteView, Writes, Others, TypeOK
    <2>5. TypeOK' /\ bought' \in Nat
      BY <1>6, <1>0, <2>2, <2>4, DoneSnapshot DEF WriteView, TypeOK, Typed
    <2> QED BY <2>4, <2>5, DoneSnapshot DEF Typed
  <1>7. ASSUME NEW p \in Processes, tryConsumeStreakFreeze(p) PROVE Typed'
    <2>1. snap[p].days \subseteq Days /\ IsFiniteSet(snap[p].days)
      BY <1>7, FS_Subset, DaysFacts DEF tryConsumeStreakFreeze, Typed, Snapshot
    <2>2. Cardinality(snap[p].days) \in Nat
      BY <2>1, FS_CardinalityType
    <2>3. streak' \in Streak
      BY <1>7, <1>0, <2>2 DEF tryConsumeStreakFreeze, Streak, MAX_STREAK_FREEZES
    <2>4. actions' \subseteq [type: {Freeze, Recover}, day: Days]
      BY <1>7, <1>0, <2>1 DEF tryConsumeStreakFreeze, TypeOK
    <2>5. Done(p) /\ history' \in History /\ stale' \subseteq Processes
      BY <1>7, <1>0, RecordIsHistory DEF tryConsumeStreakFreeze, Writes, Others, TypeOK
    <2>6. TypeOK' /\ bought' \in Nat
      BY <1>7, <1>0, <2>3, <2>4, <2>5, DoneSnapshot DEF tryConsumeStreakFreeze, TypeOK, Typed
    <2> QED BY <2>5, <2>6, DoneSnapshot DEF Typed
  <1>8. ASSUME NEW p \in Processes, FreezesGone(p) PROVE Typed'
    <2>1. /\ pc[p] = "freeze" /\ pc' = [pc EXCEPT ![p] = "clear"] /\ snap' = snap
          /\ UNCHANGED <<history, bought>>
      BY <1>8 DEF FreezesGone, Goto
    <2>2. TypeOK'
      BY <1>8, <1>0, <2>1 DEF FreezesGone, TypeOK
    <2>3. /\ \A q \in Processes \ {p} : pc'[q] = pc[q] /\ snap'[q] = snap[q]
          /\ DOMAIN snap' = Processes /\ pc'[p] = "clear" /\ snap'[p] = snap[p]
      BY <2>1, <1>0 DEF Typed, TypeOK
    <2>4. Snapshot(p)'
      BY <2>1, <2>3 DEF Typed, Snapshot
    <2> QED BY <2>1, <2>2, <2>3, <2>4, SnapshotsStay DEF Typed
  <1>9. ASSUME NEW p \in Processes, clearUserStreak(p) PROVE Typed'
    <2>1. streak' \in Streak
      BY <1>9, <1>0 DEF clearUserStreak, Streak
    <2>2. [length |-> streak.current, last |-> streak.lastView, began |-> history.began] \in Change
      BY <1>0 DEF Change, Streak
    <2>3. changes' \in Seq(Change)
      <3>1. changes \in Seq(Change)
        BY <1>0 DEF TypeOK, Change
      <3> QED BY <1>9, <2>2, <3>1, AppendProperties DEF clearUserStreak
    <2>4. history' \in History
      <3>1. [history EXCEPT !.resets = @ + 1] \in History
        BY <1>0 DEF History
      <3> QED BY <1>9, <1>0, <3>1, RecordIsHistory DEF clearUserStreak
    <2>5. Done(p) /\ stale' \subseteq Processes
      BY <1>9, <1>0 DEF clearUserStreak, Writes, Others, TypeOK
    <2>6. TypeOK' /\ bought' \in Nat
      BY <1>9, <1>0, <2>1, <2>3, <2>5, DoneSnapshot DEF clearUserStreak, TypeOK, Typed, Change
    <2> QED BY <2>4, <2>5, <2>6, DoneSnapshot DEF Typed
  <1>10. ASSUME NEW p \in Processes, CommitRecover(p) PROVE Typed'
    <2>1. snap[p].row \in Streak /\ snap[p].old \in CacheRow
      BY <1>10 DEF CommitRecover, Typed, Snapshot
    <2>2. streak' \in Streak
      <3> DEFINE length == snap[p].old.length + snap[p].row.current
      <3>1. length \in Nat /\ Larger(length, snap[p].row.max) \in Nat
        BY <2>1 DEF Streak, CacheRow, Larger
      <3>2. streak' = [streak EXCEPT !.current = length,
                                     !.max = Larger(length, snap[p].row.max)]
        BY <1>10 DEF CommitRecover
      <3> HIDE DEF length
      <3> QED BY <1>0, <3>1, <3>2 DEF Streak
    <2>3. actions' \subseteq [type: {Freeze, Recover}, day: Days]
      BY <1>10, <1>0 DEF CommitRecover, TypeOK
    <2>4. history' \in History
      <3>1. [history EXCEPT !.recovered = @ + 1, !.began = snap[p].old.began] \in History
        <4>1. history.recovered + 1 \in Nat /\ snap[p].old.began \in Days
          BY <1>0, <2>1 DEF History, CacheRow
        <4> QED BY <1>0, <4>1 DEF History
      <3> QED BY <1>10, <3>1, RecordIsHistory DEF CommitRecover
    <2>5. stale' \subseteq Processes
      BY <1>10, <1>0 DEF CommitRecover, Writes, Others, TypeOK
    <2>6. /\ pc' \in [Processes -> {"idle", "view", "freeze", "clear", "recover", "forget"}]
          /\ DOMAIN snap' = Processes /\ pc'[p] = "forget"
          /\ \A q \in Processes \ {p} : pc'[q] = pc[q] /\ snap'[q] = snap[q]
      BY <1>10, <1>0 DEF CommitRecover, Goto, Read, Typed, TypeOK
    <2>7. Snapshot(p)'
      BY <2>6 DEF Snapshot
    <2>8. TypeOK' /\ bought' \in Nat
      BY <1>10, <1>0, <2>2, <2>3, <2>5, <2>6 DEF CommitRecover, TypeOK, Typed
    <2> QED BY <2>4, <2>6, <2>7, <2>8, SnapshotsStay DEF Typed
  <1>11. ASSUME NEW p \in Processes, ForgetRecover(p) \/ Fail(p) PROVE Typed'
    <2>1. Done(p) /\ UNCHANGED <<history, bought>>
      BY <1>11 DEF ForgetRecover, Fail
    <2>2. TypeOK'
      <3>1. failures' \in 0..MaxFailures /\ stale' \subseteq Processes
        BY <1>11, <1>0, BoundsAssumption DEF ForgetRecover, Fail, Forgets, TypeOK
      <3>2. pc' \in [Processes -> {"idle", "view", "freeze", "clear", "recover", "forget"}]
        BY <2>1, DoneSnapshot
      <3> QED BY <1>11, <1>0, <3>1, <3>2 DEF ForgetRecover, Fail, TypeOK
    <2> QED BY <2>1, <2>2, DoneSnapshot DEF Typed
  <1>12. ASSUME NEW p \in Requests, BeginRecover(p) PROVE Typed'
    <2>1. p \in Processes /\ cache \in CacheRow
      BY <1>12, <1>0 DEF BeginRecover, CanRecover, TypeOK, CacheRow, Processes
    <2>2. /\ pc' \in [Processes -> {"idle", "view", "freeze", "clear", "recover", "forget"}]
          /\ DOMAIN snap' = Processes /\ pc'[p] = "recover"
          /\ snap'[p] = [row |-> streak, old |-> cache]
          /\ \A q \in Processes \ {p} : pc'[q] = pc[q] /\ snap'[q] = snap[q]
      BY <1>12, <2>1, GotoSnapshot DEF BeginRecover
    <2>3. Snapshot(p)'
      BY <1>0, <2>1, <2>2 DEF Snapshot, CacheRow, Streak
    <2>4. TypeOK'
      BY <1>12, <1>0, <2>2 DEF BeginRecover, TypeOK
    <2>5. UNCHANGED <<history, bought>>
      BY <1>12 DEF BeginRecover
    <2> QED BY <2>1, <2>2, <2>3, <2>4, <2>5, SnapshotsStay DEF Typed
  <1>13. ASSUME NEW p \in Requests, NEW d \in views, BeginView(p, d) PROVE Typed'
    <2>0. p \in Processes /\ d \in Days
      BY <1>0 DEF Processes, TypeOK
    <2>1. CASE shouldIncrementStreak(d)
      <3>1. /\ pc' \in [Processes -> {"idle", "view", "freeze", "clear", "recover", "forget"}]
            /\ DOMAIN snap' = Processes /\ pc'[p] = "view"
            /\ snap'[p] = [row |-> streak, day |-> d, began |-> history.began]
            /\ \A q \in Processes \ {p} : pc'[q] = pc[q] /\ snap'[q] = snap[q]
        BY <1>13, <2>0, <2>1, GotoSnapshot DEF BeginView
      <3>2. Snapshot(p)'
        BY <1>0, <2>0, <3>1 DEF Snapshot, Streak
      <3>3. TypeOK'
        BY <1>13, <1>0, <2>1, <3>1 DEF BeginView, TypeOK
      <3>4. UNCHANGED <<history, bought>>
        BY <1>13 DEF BeginView
      <3> QED BY <2>0, <3>1, <3>2, <3>3, <3>4, SnapshotsStay DEF Typed
    <2>2. CASE ~shouldIncrementStreak(d)
      <3>1. UNCHANGED <<pc, snap, history, bought>> /\ TypeOK'
        BY <1>13, <1>0, <2>2 DEF BeginView, TypeOK
      <3> QED BY <3>1, <1>frame DEF Typed
    <2> QED BY <2>1, <2>2
  <1>14. CASE UNCHANGED vars
    <2>1. UNCHANGED <<pc, snap, history, bought>> /\ TypeOK'
      BY <1>14, <1>0 DEF vars, TypeOK
    <2> QED BY <2>1, <1>frame DEF Typed
  <1> QED
    BY <1>1, <1>2, <1>3, <1>4, <1>5, <1>6, <1>7, <1>8, <1>9, <1>10, <1>11, <1>12, <1>13, <1>14
       DEF Next, Handle

LEMMA InitTyped == Init => Typed
  <1> SUFFICES ASSUME Init PROVE Typed
    OBVIOUS
  <1>1. PICK held \in FreezesHeld :
          /\ streak = [current |-> 3, max |-> 3, freezes |-> held, lastView |-> FirstDay - 1]
          /\ history = [read |-> (FirstDay - 3)..(FirstDay - 1), began |-> FirstDay - 3,
                        slipped |-> FALSE, resets |-> 0, recovered |-> 0]
          /\ bought = held
    BY DEF Init
  <1>2. held \in 0..MAX_STREAK_FREEZES /\ bought \in Nat
    BY <1>1, FreezesAssumption DEF MAX_STREAK_FREEZES
  <1>3. streak \in Streak
    BY <1>1, <1>2, DaysFacts DEF Streak
  <1>4. history \in History
    BY <1>1, DaysAssumption DEF History, Days
  <1>5. TypeOK
    BY <1>3, DaysAssumption, BoundsAssumption DEF Init, TypeOK
  <1>6. DOMAIN snap = Processes /\ \A p \in Processes : Snapshot(p)
    BY DEF Init, Snapshot
  <1> QED BY <1>2, <1>4, <1>5, <1>6 DEF Typed

\* Every row, message and snapshot is of its type: the freezes held never drop
\* below none, the lengths never below zero (users.ts, newView.ts).
THEOREM TypeCorrect == Spec => []TypeOK
  <1>1. Typed => TypeOK
    BY DEF Typed
  <1> QED BY InitTyped, TypesInductive, <1>1, PTL DEF Spec

-----------------------------------------------------------------------------
(* What an orderly history keeps.  A reset that may be restored is a token *)
(* on its way from the queue of changes through the Redis key to a request *)
(* that restores it.                                                       *)

ReadIn(a, b) == {d \in history.read : a <= d /\ d <= b}

\* The weekdays missed since the last view, or the last recover, of x.
Gap(x) ==
  {d \in Days : x.last < d /\ d < today /\ ~IsWeekend(d) /\ \A t \in RecoverDays : t <= d}

\* Today the streak has been restored already, or on a day whose window lasts.
Spent == \E t \in RecoverDays : getNextWeekday(t) = getNextWeekday(today)

\* The lost streak was read, and what is read now comes after it.
Backed(x) ==
  /\ VALID_STREAK_RESET <= x.length /\ x.length <= Cardinality(ReadIn(x.began, x.last))
  /\ x.last <= streak.lastView /\ (streak.current = 1 => x.last < streak.lastView)

\* Every day of the lost streak stands.
Standing(x) ==
  ~history.slipped => \A d \in Days :
     x.began <= d /\ (d <= x.last \/ \E t \in RecoverDays : d < t) => Stands(d)

\* The day the streak was lost for, which the present streak comes after ...
Missing(x) == \E d \in Gap(x) : streak.current > 0 => d < history.began
\* ... if no other was lost since, for then two days are missed.
Old(x) == \E d, e \in Gap(x) : d # e

Fits(x) == \A d, e \in Gap(x) : d = e
Restorable(x) == Backed(x) /\ Standing(x) /\ Missing(x) /\ Fits(x)

Changes ==
  \A i \in 1..Len(changes) : \A x \in {changes[i]} :
    Backed(x) /\ Standing(x) /\ IF i = Len(changes) THEN Missing(x) ELSE Old(x)

Cached ==
  \A x \in {cache} \ {NoCache} :
    x.until = getNextWeekday(today) /\ changes = <<>> /\ (~Spent => Restorable(x))

Row ==
  /\ views \subseteq {today} /\ views \subseteq history.read
  /\ \A d \in history.read : d <= streak.lastView \/ d \in views
  /\ streak.lastView <= today
  /\ \A f \in FreezeDays : f < today
  /\ \A t \in RecoverDays : t <= today
  /\ streak.current <= Cardinality(ReadIn(history.began, streak.lastView))
  /\ streak.current = 0 => streak.lastView < today
  /\ streak.current = 1 => history.began = streak.lastView
  /\ Spent => streak.current >= 2

\* Every day of the streak up to the last update stands.
Covered ==
  ~history.slipped /\ streak.current > 0 => \A d \in Days :
    history.began <= d /\ ~(streak.lastView < d /\ After(d)) => Stands(d)

Paid ==
  /\ bought = streak.freezes + Cardinality(FreezeDays)
  /\ \A d \in FreezeDays : ~IsWeekend(d) /\ d \notin history.read

\* What a handler has read, if it is not stale.
Fresh(p) ==
  /\ pc[p] = "view" =>
       /\ snap[p].row.current = streak.current /\ snap[p].row.lastView = streak.lastView
       /\ snap[p].began = history.began /\ snap[p].day = today /\ today \in history.read
       /\ streak.current = 0 \/ streak.lastView # today
  /\ pc[p] \in {"freeze", "clear"} =>
       streak.current > 0 /\ snap[p].days # {} /\ snap[p].days = MissedDays
  /\ pc[p] = "recover" =>
       /\ snap[p].row.current = streak.current /\ streak.current <= 1 /\ changes = <<>>
       /\ \A x \in {snap[p].old} : Restorable(x)

Live == ~Spent /\ (cache # NoCache \/ \E r \in Processes \ stale : pc[r] = "recover")
Tokens ==
  history.recovered + Len(changes) + (IF Live THEN 1 ELSE 0) <= history.resets

Kept ==
  /\ Row /\ Covered /\ Paid /\ Changes /\ Cached /\ Tokens
  /\ \A p \in Processes \ stale : Fresh(p)

LEMMA TypeFacts ==
  ASSUME Typed
  PROVE  /\ TypeOK /\ today \in Days /\ today \in Nat
         /\ streak.current \in Nat /\ streak.lastView \in Days /\ streak.freezes \in Nat
         /\ history.began \in Days /\ history.read \subseteq Days /\ history.slipped \in BOOLEAN
         /\ history.resets \in Nat /\ history.recovered \in Nat
         /\ RecoverDays \subseteq Days /\ FreezeDays \subseteq Days /\ Days \subseteq Nat
         /\ Len(changes) \in Nat /\ views \subseteq Days /\ bought \in Nat
         /\ changes \in Seq(Change) /\ (cache = NoCache \/ cache \in CacheRow)
         /\ NoCache \notin CacheRow
  <1>1. TypeOK /\ history \in History
    BY DEF Typed
  <1>2. today \in Days /\ today \in Nat
    BY <1>1, DaysFacts DEF TypeOK
  <1>3. streak \in Streak
    BY <1>1 DEF TypeOK
  <1>4. changes \in Seq(Change) /\ (cache = NoCache \/ cache \in CacheRow) /\ views \subseteq Days
    BY <1>1 DEF TypeOK, Change, CacheRow
  <1>5. NoCache \notin CacheRow
    BY DEF NoCache, CacheRow
  <1>6. /\ streak.current \in Nat /\ streak.lastView \in Days /\ streak.freezes \in Nat
    BY <1>3 DEF Streak, MAX_STREAK_FREEZES
  <1>7. /\ history.began \in Days /\ history.read \subseteq Days /\ history.slipped \in BOOLEAN
        /\ history.resets \in Nat /\ history.recovered \in Nat
    BY <1>1 DEF History
  <1> QED BY <1>1, <1>2, <1>4, <1>5, <1>6, <1>7, ActionDays, DaysFacts DEF Typed

LEMMA Integral ==
  ASSUME Typed
  PROVE  /\ today \in Int /\ streak.current \in Int /\ streak.lastView \in Int
         /\ history.began \in Int
         /\ \A d \in Days : d \in Int /\ d \in Nat
         /\ \A t \in RecoverDays : t \in Int /\ t \in Nat
         /\ \A f \in FreezeDays : f \in Int
         /\ \A d \in history.read : d \in Int
  <1>1. \A d \in Days : d \in Int /\ d \in Nat
    BY DaysFacts
  <1> QED BY <1>1, TypeFacts

\* The same of the next state.
LEMMA NextFacts ==
  ASSUME Typed'
  PROVE  /\ today' \in Int /\ streak'.current \in Nat /\ streak'.lastView \in Days
         /\ streak'.lastView \in Int /\ history'.began \in Days /\ history'.began \in Int
         /\ history'.read \subseteq Days
         /\ \A a, b : Cardinality(ReadIn(a, b)') \in Nat /\ IsFiniteSet(ReadIn(a, b)')
  <1>1. today' \in Days /\ streak' \in Streak /\ history' \in History
    BY DaysFacts DEF Typed, TypeOK
  <1>2. streak'.current \in Nat /\ streak'.lastView \in Days
    BY <1>1 DEF Streak
  <1>3. history'.began \in Days /\ history'.read \subseteq Days
    BY <1>1 DEF History
  <1>4. \A d \in Days : d \in Int
    BY DaysFacts
  <1>5. ASSUME NEW a, NEW b PROVE Cardinality(ReadIn(a, b)') \in Nat /\ IsFiniteSet(ReadIn(a, b)')
    <2>1. ReadIn(a, b)' \subseteq Days
      BY <1>3 DEF ReadIn
    <2> QED BY <2>1, DaysFacts, FS_Subset, FS_CardinalityType
  <1> QED BY <1>1, <1>2, <1>3, <1>4, <1>5

\* The days read are finitely many, and grow with what is read.
LEMMA ReadInFacts ==
  ASSUME Typed, NEW a, NEW b
  PROVE  /\ IsFiniteSet(ReadIn(a, b)) /\ Cardinality(ReadIn(a, b)) \in Nat
         /\ \A c, d \in Int : ReadIn(c, d) \subseteq ReadIn(a, b) =>
              Cardinality(ReadIn(c, d)) <= Cardinality(ReadIn(a, b))
         /\ Typed' /\ history.read \subseteq history.read' =>
              ReadIn(a, b) \subseteq ReadIn(a, b)' /\
              Cardinality(ReadIn(a, b)) <= Cardinality(ReadIn(a, b)')
         /\ Cardinality(ReadIn(a, b)) > 0 => ReadIn(a, b) # {}
  <1>1. ReadIn(a, b) \subseteq Days /\ IsFiniteSet(Days)
    BY TypeFacts, DaysFacts DEF ReadIn
  <1>2. IsFiniteSet(ReadIn(a, b))
    BY <1>1, FS_Subset
  <1>3. Cardinality(ReadIn(a, b)) \in Nat
    BY <1>2, FS_CardinalityType
  <1>4. Cardinality(ReadIn(a, b)) > 0 => ReadIn(a, b) # {}
    BY <1>2, <1>3, FS_EmptySet
  <1>5. \A c, d \in Int : ReadIn(c, d) \subseteq ReadIn(a, b) =>
              Cardinality(ReadIn(c, d)) <= Cardinality(ReadIn(a, b))
    BY <1>2, FS_Subset
  <1>6. ASSUME Typed', history.read \subseteq history.read'
        PROVE  ReadIn(a, b) \subseteq ReadIn(a, b)' /\
               Cardinality(ReadIn(a, b)) <= Cardinality(ReadIn(a, b)')
    <2>1. ReadIn(a, b) \subseteq ReadIn(a, b)'
      BY <1>6 DEF ReadIn
    <2>2. history'.read \subseteq Days
      BY <1>6 DEF Typed, History
    <2>3. ReadIn(a, b)' \subseteq Days
      BY <2>2 DEF ReadIn
    <2>4. IsFiniteSet(ReadIn(a, b)')
      BY <2>3, <1>1, FS_Subset
    <2> QED BY <2>1, <2>4, FS_Subset
  <1> QED BY <1>2, <1>3, <1>4, <1>5, <1>6

\* A step that restores nothing: more may be read and frozen, days may pass.
Mild ==
  /\ RecoverDays' = RecoverDays /\ FreezeDays \subseteq FreezeDays'
  /\ history.read \subseteq history'.read /\ (history.slipped => history'.slipped)
  /\ today <= today' /\ streak.lastView <= streak'.lastView
  /\ streak'.current = 1 =>
       \/ streak.current = 1 /\ streak'.lastView = streak.lastView
       \/ streak.lastView < streak'.lastView
  /\ streak'.current > 0 =>
       \/ streak.current > 0 /\ history'.began = history.began
       \/ today <= history'.began

LEMMA StandsStays ==
  ASSUME NEW d, Stands(d), FreezeDays \subseteq FreezeDays', RecoverDays \subseteq RecoverDays',
         history.read \subseteq history'.read
  PROVE  Stands(d)'
  BY DEF Stands

LEMMA TokenStays ==
  ASSUME Typed, Typed', Mild, NEW x \in Change \cup CacheRow
  PROVE  /\ Backed(x) => Backed(x)'
         /\ Standing(x) => Standing(x)'
         /\ Missing(x) => Missing(x)'
         /\ Old(x) => Old(x)'
         /\ today' = today \/ (IsWeekend(today) /\ today' = today + 1) => (Fits(x) => Fits(x)')
  <1>0. x.began \in Days /\ x.last \in Days /\ x.last \in Int /\ x.length \in Nat
    <2>1. x.began \in Days /\ x.last \in Days /\ x.length \in Nat
      BY DEF Change, CacheRow
    <2>2. \A d \in Days : d \in Int
      BY DaysFacts
    <2> QED BY <2>1, <2>2
  <1>1. ASSUME Backed(x) PROVE Backed(x)'
    <2>1. x.length <= Cardinality(ReadIn(x.began, x.last)')
      <3>1. /\ Cardinality(ReadIn(x.began, x.last)) <= Cardinality(ReadIn(x.began, x.last)')
            /\ Cardinality(ReadIn(x.began, x.last)) \in Nat
        BY ReadInFacts DEF Mild
      <3>2. Cardinality(ReadIn(x.began, x.last)') \in Nat
        BY NextFacts
      <3> QED BY <1>0, <1>1, <3>1, <3>2 DEF Backed
    <2>2. streak.lastView \in Int /\ streak'.lastView \in Int
      BY TypeFacts, NextFacts
    <2> QED BY <1>0, <1>1, <2>1, <2>2 DEF Backed, Mild, VALID_STREAK_RESET
  <1>2. ASSUME Standing(x) PROVE Standing(x)'
    BY <1>2, StandsStays DEF Standing, Mild
  <1>3. \A d \in Gap(x) : d \in Gap(x)'
    <2> SUFFICES ASSUME NEW d \in Gap(x) PROVE d \in Gap(x)'
      OBVIOUS
    <2>1. d \in Int /\ today \in Int /\ today' \in Int /\ d < today
      BY TypeFacts, NextFacts DEF Gap
    <2>2. d < today'
      BY <2>1 DEF Mild
    <2> QED BY <2>2 DEF Gap, Mild
  <1>4. ASSUME Missing(x) PROVE Missing(x)'
    <2>1. PICK d \in Gap(x) : streak.current > 0 => d < history.began
      BY <1>4 DEF Missing
    <2>2. d \in Gap(x)' /\ d < today /\ d \in Int /\ today \in Int
      BY <1>3, TypeFacts DEF Gap
    <2>3. history'.began \in Int
      BY NextFacts
    <2>4. streak'.current > 0 => d < history'.began
      BY <2>1, <2>2, <2>3 DEF Mild
    <2> QED BY <2>2, <2>4 DEF Missing
  <1>5. Old(x) => Old(x)'
    BY <1>3 DEF Old
  <1>6. ASSUME today' = today \/ (IsWeekend(today) /\ today' = today + 1), Fits(x)
        PROVE  Fits(x)'
    <2>1. \A d \in Gap(x)' : d \in Gap(x)
      <3> SUFFICES ASSUME NEW d \in Gap(x)' PROVE d \in Gap(x)
        OBVIOUS
      <3>1. d < today
        BY <1>6, TypeFacts DEF Gap
      <3> QED BY <3>1 DEF Gap, Mild
    <2> QED BY <1>6, <2>1 DEF Fits
  <1> QED BY <1>1, <1>2, <1>4, <1>5, <1>6

\* A step that leaves the day, the actions and the length of the streak alone.
Quiet ==
  /\ UNCHANGED <<today, actions>>
  /\ streak'.current = streak.current /\ streak'.lastView = streak.lastView
  /\ history'.began = history.began /\ history'.slipped = history.slipped
  /\ history'.resets = history.resets /\ history'.recovered = history.recovered
  /\ history.read \subseteq history'.read

LEMMA QuietFacts ==
  ASSUME Typed, Typed', Quiet
  PROVE  /\ Mild /\ RecoverDays' = RecoverDays /\ FreezeDays' = FreezeDays
         /\ Spent' = Spent /\ MissedDays' = MissedDays
         /\ Covered => Covered'
         /\ \A x \in Change \cup CacheRow : Restorable(x) => Restorable(x)'
  <1>1. RecoverDays' = RecoverDays /\ FreezeDays' = FreezeDays
    BY SameActions DEF Quiet
  <1>2. Mild
    BY <1>1, TypeFacts DEF Mild, Quiet
  <1>3. Spent' = Spent /\ MissedDays' = MissedDays
    BY <1>1 DEF Spent, MissedDays, After, Quiet
  <1>4. Covered => Covered'
    BY <1>1, StandsStays DEF Covered, After, Quiet
  <1>5. \A x \in Change \cup CacheRow : Restorable(x) => Restorable(x)'
    BY <1>2, TokenStays DEF Restorable, Quiet
  <1> QED BY <1>1, <1>2, <1>3, <1>4, <1>5

\* A handler that is not stale keeps what it knows over a quiet step of others.
LEMMA FreshStays ==
  ASSUME Typed, Typed', Quiet, NEW p \in Processes, Fresh(p),
         pc'[p] = pc[p], snap'[p] = snap[p], changes = <<>> => changes' = <<>>
  PROVE  Fresh(p)'
  <1>1. CASE pc[p] = "view"
    BY <1>1 DEF Fresh, Quiet
  <1>2. CASE pc[p] \in {"freeze", "clear"}
    BY <1>2, QuietFacts DEF Fresh, Quiet
  <1>3. CASE pc[p] = "recover"
    <2>1. snap[p].old \in CacheRow
      BY <1>3 DEF Typed, Snapshot
    <2>2. Restorable(snap[p].old)
      BY <1>3 DEF Fresh
    <2>3. \A x \in {snap[p].old} : Restorable(x) /\ x \in CacheRow
      BY <2>1, <2>2
    <2>4. \A x \in {snap[p].old} : Restorable(x)'
      BY <2>3, QuietFacts
    <2> QED BY <1>3, <2>4 DEF Fresh, Quiet
  <1> QED BY <1>1, <1>2, <1>3 DEF Fresh

\* The queue and the key over a mild step that leaves them alone.
LEMMA ChangesStay ==
  ASSUME Typed, Typed', Mild, Changes, changes' = changes
  PROVE  Changes'
  <1> SUFFICES ASSUME NEW i \in 1..Len(changes), NEW x \in {changes[i]}
               PROVE  (Backed(x) /\ Standing(x) /\
                        IF i = Len(changes) THEN Missing(x) ELSE Old(x))'
    BY DEF Changes
  <1>1. x \in Change
    BY TypeFacts
  <1> QED BY <1>1, TokenStays DEF Changes

LEMMA CachedStays ==
  ASSUME Typed, Typed', Mild, Cached, today' = today, changes' = changes,
         cache' = cache \/ cache' = NoCache
  PROVE  Cached'
  <1> SUFFICES ASSUME NEW x \in {cache'} \ {NoCache}
               PROVE  (x.until = getNextWeekday(today) /\ changes = <<>> /\ (~Spent => Restorable(x)))'
    BY DEF Cached
  <1>1. x \in {cache} \ {NoCache} /\ x \in CacheRow
    BY TypeFacts
  <1>2. Spent' = Spent
    BY DEF Spent, Mild
  <1>3. Restorable(x) => Restorable(x)'
    BY <1>1, TokenStays DEF Restorable
  <1> QED BY <1>1, <1>2, <1>3 DEF Cached

\* A handler that writes leaves nobody else with a fresh snapshot.
LEMMA WriterAlone ==
  ASSUME Typed, NEW p \in Processes, Writes(p), pc'[p] \in {"idle", "forget"},
         \A q \in Processes \ {p} : pc'[q] = pc[q]
  PROVE  /\ \A q \in Processes \ stale' : Fresh(q)'
         /\ ~\E r \in Processes \ stale' : pc'[r] = "recover"
  <1>1. \A q \in Processes \ stale' : pc'[q] \in {"idle", "forget"}
    BY DEF Writes, Others
  <1> QED BY <1>1 DEF Fresh

-----------------------------------------------------------------------------
(* The steps that are quiet.                                               *)

\* Over a quiet step in which p may move on.
LEMMA QuietKeeps ==
  ASSUME Typed, Typed', Kept, Quiet, NEW p \in Processes,
         \A q \in Processes \ {p} : pc'[q] = pc[q] /\ snap'[q] = snap[q],
         stale' = stale \/ (stale' = stale \ {p} /\ pc'[p] = "idle"),
         p \notin stale' => Fresh(p)',
         pc'[p] = "recover" => pc[p] = "recover" \/ cache # NoCache,
         changes' = changes, cache' = cache \/ cache' = NoCache
  PROVE  /\ Changes' /\ Cached' /\ Tokens' /\ Covered'
         /\ \A q \in Processes \ stale' : Fresh(q)'
  <1>1. Mild /\ Covered' /\ Spent' = Spent
    BY QuietFacts DEF Kept
  <1>2. Changes' /\ Cached'
    BY <1>1, ChangesStay, CachedStays DEF Kept, Quiet
  <1>3. \A q \in Processes \ stale' : Fresh(q)'
    <2> SUFFICES ASSUME NEW q \in Processes \ stale', q # p PROVE Fresh(q)'
      OBVIOUS
    <2>1. q \notin stale /\ Fresh(q)
      BY DEF Kept
    <2> QED BY <2>1, FreshStays
  <1>4. Live' => Live
    <2>1. ASSUME NEW r \in Processes \ stale', pc'[r] = "recover"
          PROVE  cache # NoCache \/ \E q \in Processes \ stale : pc[q] = "recover"
      <3>1. r \notin stale
        BY <2>1
      <3> QED BY <2>1, <3>1
    <2> QED BY <1>1, <2>1 DEF Live
  <1>5. Tokens'
    BY <1>4, TypeFacts DEF Kept, Tokens, Quiet
  <1> QED BY <1>1, <1>2, <1>3, <1>5

\* The row over a quiet step that reads and pays nothing.
LEMMA RowStays ==
  ASSUME Typed, Typed', Row, Quiet, history' = history, views' \subseteq views,
         \A d \in views \ views' : d <= streak.lastView
  PROVE  Row'
  <1>1. RecoverDays' = RecoverDays /\ FreezeDays' = FreezeDays /\ Spent' = Spent
    BY QuietFacts
  <1>2. ReadIn(history.began, streak.lastView)' = ReadIn(history.began, streak.lastView)
    BY DEF ReadIn, Quiet
  <1> QED BY <1>1, <1>2 DEF Row, Quiet

LEMMA PaidStays ==
  ASSUME Paid, actions' = actions, history'.read = history.read,
         bought' - streak'.freezes = bought - streak.freezes,
         bought \in Int, bought' \in Int, streak.freezes \in Int, streak'.freezes \in Int,
         Cardinality(FreezeDays) \in Int
  PROVE  Paid'
  <1>1. FreezeDays' = FreezeDays
    BY SameActions
  <1> QED BY <1>1 DEF Paid

LEMMA FreezeDaysFinite ==
  ASSUME Typed PROVE IsFiniteSet(FreezeDays) /\ Cardinality(FreezeDays) \in Nat
  BY TypeFacts, DaysFacts, FS_Subset, FS_CardinalityType

LEMMA ReadPostKeeps ==
  ASSUME Typed, Typed', Orderly, Orderly', Kept, ReadPost PROVE Kept'
  <1>1. /\ history' = [history EXCEPT !.read = @ \cup {today}] /\ views' = views \cup {today}
        /\ UNCHANGED <<today, streak, actions, cache, changes, bought, pc, snap, stale>>
    BY DEF ReadPost
  <1>2. /\ history'.read = history.read \cup {today} /\ history'.began = history.began
        /\ history'.slipped = history.slipped /\ history'.resets = history.resets
        /\ history'.recovered = history.recovered
    BY <1>1 DEF Typed, History
  <1>3. Quiet
    BY <1>1, <1>2 DEF Quiet
  <1>4. cron \in Processes /\ (cron \notin stale => Fresh(cron)')
    BY <1>1, <1>3, FreshStays DEF Kept, Processes
  <1>5. /\ Changes' /\ Cached' /\ Tokens' /\ Covered'
        /\ \A q \in Processes \ stale' : Fresh(q)'
    BY <1>1, <1>3, <1>4, QuietKeeps
  <1>6. Row'
    <2>1. RecoverDays' = RecoverDays /\ FreezeDays' = FreezeDays /\ Spent' = Spent
      BY <1>3, QuietFacts
    <2>2. /\ Cardinality(ReadIn(history.began, streak.lastView)) \in Nat
          /\ Cardinality(ReadIn(history.began, streak.lastView)')
               >= Cardinality(ReadIn(history.began, streak.lastView))
      <3>1. PICK a, b : a = history.began /\ b = streak.lastView
        OBVIOUS
      <3>2. /\ ReadIn(history.began, streak.lastView) = ReadIn(a, b)
            /\ ReadIn(history.began, streak.lastView)' = ReadIn(a, b)'
        BY <1>1, <1>2, <3>1 DEF ReadIn
      <3>3. Cardinality(ReadIn(a, b)) <= Cardinality(ReadIn(a, b)')
            /\ Cardinality(ReadIn(a, b)) \in Nat /\ Cardinality(ReadIn(a, b)') \in Nat
        BY <1>2, ReadInFacts, NextFacts
      <3> QED BY <3>2, <3>3
    <2> QED BY <1>1, <1>2, <2>1, <2>2, TypeFacts, NextFacts DEF Row, Kept
  <1>7. Paid'
    <2>1. FreezeDays' = FreezeDays /\ today \notin FreezeDays
      BY <1>1, SameActions, TypeFacts DEF Kept, Row
    <2> QED BY <1>1, <1>2, <2>1 DEF Kept, Paid
  <1> QED BY <1>5, <1>6, <1>7 DEF Kept

LEMMA purchaseKeeps ==
  ASSUME Typed, Typed', Orderly, Kept, purchaseStreakFreeze PROVE Kept'
  <1>1. /\ streak' = [streak EXCEPT !.freezes = @ + 1] /\ bought' = bought + 1
        /\ UNCHANGED <<today, actions, cache, changes, views, history, pc, snap, stale>>
    BY DEF purchaseStreakFreeze
  <1>2. /\ streak'.current = streak.current /\ streak'.lastView = streak.lastView
        /\ streak'.freezes = streak.freezes + 1
    BY <1>1 DEF Typed, TypeOK, Streak
  <1>3. Quiet
    BY <1>1, <1>2 DEF Quiet
  <1>4. cron \in Processes /\ (cron \notin stale => Fresh(cron)')
    BY <1>1, <1>3, FreshStays DEF Kept, Processes
  <1>5. /\ Changes' /\ Cached' /\ Tokens' /\ Covered'
        /\ \A q \in Processes \ stale' : Fresh(q)'
    BY <1>1, <1>3, <1>4, QuietKeeps
  <1>6. Row'
    BY <1>1, <1>3, RowStays DEF Kept
  <1>7. Paid'
    <2>1. FreezeDays' = FreezeDays /\ history' = history
      BY <1>1, SameActions
    <2>2. bought + 1 = (streak.freezes + 1) + Cardinality(FreezeDays)
      BY FreezeDaysFinite, TypeFacts DEF Kept, Paid
    <2> QED BY <1>1, <1>2, <2>1, <2>2 DEF Kept, Paid
  <1> QED BY <1>5, <1>6, <1>7 DEF Kept

\* A handler that begins, gives up or goes on without writing.
LEMMA HandlerKeeps ==
  ASSUME Typed, Typed', Orderly, Kept, NEW p \in Processes,
         UNCHANGED <<today, streak, actions, changes, history, bought>>,
         \A q \in Processes \ {p} : pc'[q] = pc[q] /\ snap'[q] = snap[q],
         stale' = stale \/ (stale' = stale \ {p} /\ pc'[p] = "idle"),
         p \notin stale' => Fresh(p)',
         pc'[p] = "recover" => pc[p] = "recover" \/ cache # NoCache,
         cache' = cache \/ cache' = NoCache,
         views' \subseteq views, \A d \in views \ views' : d <= streak.lastView
  PROVE  Kept'
  <1>1. Quiet
    BY DEF Quiet
  <1>2. /\ Changes' /\ Cached' /\ Tokens' /\ Covered'
        /\ \A q \in Processes \ stale' : Fresh(q)'
    BY <1>1, QuietKeeps
  <1>3. Row'
    BY <1>1, RowStays DEF Kept
  <1>4. Paid'
    BY SameActions DEF Kept, Paid
  <1> QED BY <1>2, <1>3, <1>4 DEF Kept

LEMMA BeginViewKeeps ==
  ASSUME Typed, Typed', Orderly, Kept, NEW r \in Requests, NEW d \in views, BeginView(r, d)
  PROVE  Kept'
  <1>0. /\ r \in Processes /\ d = today /\ d \in history.read
        /\ UNCHANGED <<today, streak, actions, changes, stale, history, bought>>
    BY DEF BeginView, Kept, Row, Processes
  <1>1. CASE shouldIncrementStreak(d)
    <2>1. /\ pc'[r] = "view" /\ views' = views
          /\ snap'[r] = [row |-> streak, day |-> d, began |-> history.began]
          /\ \A q \in Processes \ {r} : pc'[q] = pc[q] /\ snap'[q] = snap[q]
          /\ cache' = cache \/ cache' = NoCache
      BY <1>0, <1>1, GotoSnapshot DEF BeginView
    <2>2. Fresh(r)'
      BY <1>0, <1>1, <2>1 DEF Fresh, shouldIncrementStreak
    <2> QED BY <1>0, <2>1, <2>2, HandlerKeeps
  <1>2. CASE ~shouldIncrementStreak(d)
    <2>1. views' = views \ {d} /\ UNCHANGED <<pc, snap, cache>> /\ streak.lastView = d
      BY <1>2 DEF BeginView, shouldIncrementStreak
    <2>2. Quiet
      BY <1>0 DEF Quiet
    <2>3. r \notin stale => Fresh(r)'
      BY <1>0, <2>1, <2>2, FreshStays DEF Kept
    <2>4. \A e \in views \ views' : e <= streak.lastView
      BY <2>1, TypeFacts
    <2> QED BY <1>0, <2>1, <2>3, <2>4, HandlerKeeps
  <1> QED BY <1>1, <1>2

LEMMA BeginCheckKeeps ==
  ASSUME Typed, Typed', Orderly, Kept, NEW p \in Processes, BeginCheck(p)
  PROVE  Kept'
  <1>1. /\ UNCHANGED <<today, streak, actions, cache, changes, views, stale, history, bought>>
        /\ checkUserStreak(streak, today)
    BY DEF BeginCheck
  <1>2. PICK place \in {"freeze", "clear"} :
          Goto(p, place) /\ Read(p, [row |-> streak, days |-> Missed(streak)])
    BY DEF BeginCheck
  <1>3. /\ pc'[p] = place /\ snap'[p] = [row |-> streak, days |-> Missed(streak)]
        /\ \A q \in Processes \ {p} : pc'[q] = pc[q] /\ snap'[q] = snap[q]
    BY <1>2, GotoSnapshot
  <1>4. streak.current > 0 /\ MissedDays # {} /\ Missed(streak) = MissedDays
    BY <1>1, MissedIs, TypeFacts DEF checkUserStreak
  <1>5. MissedDays' = MissedDays
    <2>1. Quiet
      BY <1>1 DEF Quiet
    <2> QED BY <2>1, QuietFacts
  <1>6. Fresh(p)'
    BY <1>1, <1>3, <1>4, <1>5 DEF Fresh
  <1> QED BY <1>1, <1>3, <1>6, HandlerKeeps

LEMMA FreezesGoneKeeps ==
  ASSUME Typed, Typed', Orderly, Kept, NEW p \in Processes, FreezesGone(p)
  PROVE  Kept'
  <1>1. /\ UNCHANGED <<today, streak, actions, cache, changes, views, stale, history, bought>>
        /\ pc[p] = "freeze" /\ pc' = [pc EXCEPT ![p] = "clear"] /\ snap' = snap
    BY DEF FreezesGone, Goto
  <1>2. pc'[p] = "clear" /\ \A q \in Processes \ {p} : pc'[q] = pc[q]
    BY <1>1 DEF Typed, TypeOK
  <1>3. MissedDays' = MissedDays
    <2>1. Quiet
      BY <1>1 DEF Quiet
    <2> QED BY <2>1, QuietFacts
  <1>4. p \notin stale => Fresh(p)'
    BY <1>1, <1>2, <1>3 DEF Kept, Fresh
  <1> QED BY <1>1, <1>2, <1>4, HandlerKeeps

LEMMA GiveUpKeeps ==
  ASSUME Typed, Typed', Orderly, Kept, NEW p \in Processes, ForgetRecover(p) \/ Fail(p)
  PROVE  Kept'
  <1>1. /\ UNCHANGED <<today, streak, actions, changes, views, history, bought>> /\ Done(p)
        /\ stale' = stale \ {p} /\ (cache' = cache \/ cache' = NoCache)
    BY DEF ForgetRecover, Fail, Forgets
  <1>2. pc'[p] = "idle" /\ \A q \in Processes \ {p} : pc'[q] = pc[q] /\ snap'[q] = snap[q]
    BY <1>1, DoneSnapshot
  <1>3. Fresh(p)'
    BY <1>2 DEF Fresh
  <1> QED BY <1>1, <1>2, <1>3, HandlerKeeps

LEMMA BeginRecoverKeeps ==
  ASSUME Typed, Typed', Orderly, Kept, NEW r \in Requests, BeginRecover(r)
  PROVE  Kept'
  <1>1. /\ UNCHANGED <<today, streak, actions, cache, changes, views, stale, history, bought>>
        /\ r \in Processes /\ cache # NoCache /\ streak.current <= 1
    BY DEF BeginRecover, CanRecover, Processes
  <1>2. /\ pc'[r] = "recover" /\ snap'[r] = [row |-> streak, old |-> cache]
        /\ \A q \in Processes \ {r} : pc'[q] = pc[q] /\ snap'[q] = snap[q]
    BY <1>1, GotoSnapshot DEF BeginRecover
  <1>3. ~Spent
    BY <1>1, TypeFacts DEF Kept, Row
  <1>4. changes = <<>> /\ \A x \in {cache} : x \in CacheRow /\ Restorable(x)
    BY <1>1, <1>3, TypeFacts DEF Kept, Cached
  <1>5. Quiet
    BY <1>1 DEF Quiet
  <1>6. \A x \in {cache} : Restorable(x)'
    BY <1>4, <1>5, QuietFacts
  <1>7. Fresh(r)'
    BY <1>1, <1>2, <1>4, <1>6 DEF Fresh
  <1> QED BY <1>1, <1>2, <1>7, HandlerKeeps

-----------------------------------------------------------------------------
(* Resets on their way to a restore.                                       *)

\* A restore that is allowed misses one day.
LEMMA AllowedFits ==
  ASSUME Typed, NEW x \in Change, shouldAllowRestore(x) PROVE Fits(x)
  <1>1. x.last \in Days /\ today \in Int /\ checkRestoreValidity(today, LastStreak(x))
    BY TypeFacts DEF Change, shouldAllowRestore
  <1>2. /\ LastStreak(x) \in Int
        /\ \A d \in Int : LastStreak(x) < d <=> x.last < d /\ \A t \in RecoverDays : t <= d
    BY <1>1, LastStreakIs, TypeFacts
  <1>3. \A d \in Gap(x) : d \in getMissedStreakDays(today, LastStreak(x))
    <2> SUFFICES ASSUME NEW d \in Gap(x) PROVE d \in getMissedStreakDays(today, LastStreak(x))
      OBVIOUS
    <2>1. d \in Int /\ d < today /\ ~IsWeekend(d) /\ LastStreak(x) < d
      BY <1>2, TypeFacts DEF Gap
    <2> QED BY <1>1, <1>2, <2>1 DEF getMissedStreakDays
  <1> QED BY <1>1, <1>2, <1>3, RestoreMissesOneDay DEF Fits

\* What a reset was is what the key remembers of it.
LEMMA SameToken ==
  ASSUME NEW x, NEW y, x.length = y.length, x.began = y.began, x.last = y.last, Restorable(x)
  PROVE  Restorable(y)
  BY DEF Restorable, Backed, Standing, Missing, Fits, Gap

LEMMA setCacheKeeps ==
  ASSUME Typed, Typed', Orderly, Kept, setRestoreStreakCache PROVE Kept'
  <1>1. /\ changes # <<>> /\ changes' = Tail(changes)
        /\ UNCHANGED <<today, streak, actions, views, history, bought, pc, snap, stale>>
    BY DEF setRestoreStreakCache
  <1>2. Quiet
    BY <1>1 DEF Quiet
  <1>3. Mild /\ Spent' = Spent /\ Covered'
    BY <1>2, QuietFacts DEF Kept
  <1>4. Row' /\ Paid'
    BY <1>1, <1>2, RowStays, SameActions DEF Kept, Paid
  <1>5. /\ Len(changes') = Len(changes) - 1
        /\ \A i \in 1..Len(changes') : changes'[i] = changes[i + 1]
        /\ Head(changes) \in Change /\ Len(changes) \in Nat /\ Len(changes) > 0
        /\ Len(changes') \in Nat
    BY <1>1, HeadTailProperties, TypeFacts
  <1>6. Changes'
    <2> SUFFICES ASSUME NEW i \in 1..Len(changes'), NEW x \in {changes'[i]}
                 PROVE  (Backed(x) /\ Standing(x) /\
                          IF i = Len(changes) THEN Missing(x) ELSE Old(x))'
      BY DEF Changes
    <2>1. i + 1 \in 1..Len(changes) /\ x = changes[i + 1]
          /\ (i = Len(changes') <=> i + 1 = Len(changes))
      BY <1>5
    <2>2. x \in Change
      BY <2>1, TypeFacts
    <2>3. Backed(x) /\ Standing(x) /\ IF i + 1 = Len(changes) THEN Missing(x) ELSE Old(x)
      BY <2>1 DEF Kept, Changes
    <2> QED BY <1>3, <2>1, <2>2, <2>3, TokenStays
  <1>7. cache = NoCache /\ \A p \in Processes \ stale : pc[p] # "recover"
    BY <1>1 DEF Kept, Cached, Fresh
  <1>8. \A p \in Processes \ stale' : Fresh(p)'
    <2> SUFFICES ASSUME NEW p \in Processes \ stale' PROVE Fresh(p)'
      OBVIOUS
    <2> QED BY <1>1, <1>2, FreshStays DEF Kept
  <1>9. CASE shouldAllowRestore(Head(changes)) /\ access.cores
    <2>1. cache' = [length |-> Head(changes).length, until |-> getNextWeekday(today),
                    began |-> Head(changes).began, last |-> Head(changes).last]
      BY <1>9 DEF setRestoreStreakCache
    <2>2. PICK x \in Change : x = Head(changes)
      BY <1>5
    <2>3. x = changes[1] /\ 1 \in 1..Len(changes)
      BY <1>5, <2>2
    <2>4. Fits(x)
      BY <1>9, <2>2, AllowedFits
    <2>5. Len(changes) = 1 /\ Restorable(x)
      BY <2>3, <2>4 DEF Kept, Changes, Fits, Old, Restorable
    <2>6. changes' = <<>>
      BY <1>5, <2>5, TypeFacts DEF Typed, TypeOK
    <2>7. \A y \in {cache'} : y \in CacheRow /\ Restorable(y)
      <3>1. \A y \in {cache'} : y \in CacheRow
        <4>1. getNextWeekday(today) \in Nat
          BY TypeFacts, NextWeekday DEF IsWeekend, getWeekendDays
        <4> QED BY <2>1, <2>2, <4>1 DEF CacheRow, Change
      <3>2. \A y \in {cache'} : Restorable(y)
        <4> SUFFICES ASSUME NEW y \in {cache'} PROVE Restorable(y)
          OBVIOUS
        <4>1. y.length = x.length /\ y.began = x.began /\ y.last = x.last
          BY <2>1, <2>2
        <4> QED BY <2>5, <4>1, SameToken
      <3> QED BY <3>1, <3>2
    <2>8. \A y \in {cache'} : Restorable(y)'
      BY <1>2, <2>7, QuietFacts
    <2>9. Cached'
      BY <1>1, <2>1, <2>6, <2>8 DEF Cached
    <2>10. Tokens'
      BY <1>1, <1>5, TypeFacts DEF Kept, Tokens
    <2> QED BY <1>3, <1>4, <1>6, <1>8, <2>9, <2>10 DEF Kept
  <1>10. CASE ~(shouldAllowRestore(Head(changes)) /\ access.cores)
    <2>1. cache' = NoCache
      BY <1>7, <1>10 DEF setRestoreStreakCache
    <2>2. Cached' /\ ~Live'
      BY <1>1, <1>7, <2>1 DEF Cached, Live
    <2>3. Tokens'
      BY <1>1, <1>5, <2>2, TypeFacts DEF Kept, Tokens
    <2> QED BY <1>3, <1>4, <1>6, <1>8, <2>2, <2>3 DEF Kept
  <1> QED BY <1>9, <1>10

\* Midnight.  The key outlives it on a weekend only, and its window with it.
LEMMA NextDayKeeps ==
  ASSUME Typed, Typed', Orderly', Kept, NextDay PROVE Kept'
  <1>1. /\ today' = today + 1 /\ views = {} /\ history' = history
        /\ stale' = {p \in Processes : pc[p] # "idle"}
        /\ cache' = (IF cache # NoCache /\ cache.until <= today' THEN NoCache ELSE cache)
        /\ UNCHANGED <<streak, actions, changes, views, bought, pc, snap>>
    BY DEF NextDay, Orderly
  <1>2. RecoverDays' = RecoverDays /\ FreezeDays' = FreezeDays
    BY <1>1, SameActions
  <1>3. Mild
    BY <1>1, <1>2, TypeFacts DEF Mild
  <1>4. \A t \in RecoverDays : t \in Nat /\ t <= today
    BY TypeFacts DEF Kept, Row
  <1>5. Spent' => Spent
    <2> SUFFICES ASSUME Spent' PROVE Spent
      OBVIOUS
    <2>1. PICK t \in RecoverDays : getNextWeekday(t) = getNextWeekday(today + 1)
      BY <1>1, <1>2 DEF Spent
    <2>2. getNextWeekday(t) = getNextWeekday(today)
      BY <1>4, <2>1, Windows, TypeFacts
    <2> QED BY <2>2 DEF Spent
  <1>6. Row'
    <2>1. ReadIn(history.began, streak.lastView)' = ReadIn(history.began, streak.lastView)
      BY <1>1 DEF ReadIn
    <2>2. /\ streak.lastView \in Int /\ today \in Int
          /\ \A f \in FreezeDays : f \in Int /\ f < today
          /\ \A t \in RecoverDays : t \in Int /\ t <= today
      BY TypeFacts DEF Kept, Row
    <2> QED BY <1>1, <1>2, <1>5, <2>1, <2>2 DEF Kept, Row
  <1>7. Covered' /\ Paid'
    <2>1. \A d : Stands(d) => Stands(d)'
      BY <1>1, <1>2, StandsStays
    <2>2. Covered'
      BY <1>1, <1>2, <2>1 DEF Kept, Covered, After
    <2>3. Paid'
      BY <1>1, <1>2 DEF Kept, Paid
    <2> QED BY <2>2, <2>3
  <1>8. Changes'
    BY <1>1, <1>3, ChangesStay DEF Kept
  <1>9. ASSUME cache' # NoCache
        PROVE  cache' = cache /\ cache # NoCache /\ IsWeekend(today)
               /\ getNextWeekday(today') = getNextWeekday(today) /\ (Spent => Spent')
    <2>1. cache' = cache /\ cache # NoCache /\ ~(cache.until <= today + 1)
      BY <1>1, <1>9
    <2>2. cache.until = getNextWeekday(today) /\ cache.until \in Nat
      BY <2>1, TypeFacts DEF Kept, Cached, CacheRow
    <2>3. IsWeekend(today) /\ getNextWeekday(today + 1) = getNextWeekday(today)
      BY <2>1, <2>2, Windows, TypeFacts
    <2> QED BY <1>1, <1>2, <2>1, <2>3 DEF Spent
  <1>10. Cached'
    <2> SUFFICES ASSUME NEW x \in {cache'} \ {NoCache}
                 PROVE  (x.until = getNextWeekday(today) /\ changes = <<>>
                          /\ (~Spent => Restorable(x)))'
      BY DEF Cached
    <2>1. x \in {cache} \ {NoCache} /\ x \in CacheRow
      BY <1>9, TypeFacts
    <2>2. Restorable(x) => Restorable(x)'
      BY <1>1, <1>3, <1>9, <2>1, TokenStays DEF Restorable
    <2> QED BY <1>1, <1>9, <2>1, <2>2 DEF Kept, Cached
  <1>11. \A p \in Processes \ stale' : Fresh(p)' /\ pc'[p] = "idle"
    BY <1>1 DEF Fresh
  <1>12. Tokens'
    <2>1. Live' => Live
      BY <1>9, <1>11 DEF Live
    <2> QED BY <1>1, <2>1, TypeFacts DEF Kept, Tokens
  <1> QED BY <1>6, <1>7, <1>8, <1>10, <1>11, <1>12 DEF Kept

-----------------------------------------------------------------------------
(* Handlers that write.                                                    *)

\* The streak is not empty: a day of it was read.
LEMMA StreakStarts ==
  ASSUME Typed, Kept, streak.current > 0
  PROVE  /\ history.began <= streak.lastView
         /\ (streak.current = 1 => streak.lastView \in history.read)
  <1>1. PICK a, b : a = history.began /\ b = streak.lastView
    OBVIOUS
  <1>2. streak.current <= Cardinality(ReadIn(a, b)) /\ Cardinality(ReadIn(a, b)) \in Nat
    BY <1>1, ReadInFacts DEF Kept, Row
  <1>3. PICK d \in ReadIn(a, b) : TRUE
    BY <1>2, ReadInFacts, TypeFacts
  <1>4. a \in Int /\ b \in Int /\ d \in Int /\ a <= d /\ d <= b /\ d \in history.read
    BY <1>1, <1>3, TypeFacts DEF ReadIn
  <1>5. streak.current = 1 => a = b
    BY <1>1 DEF Kept, Row
  <1> QED BY <1>1, <1>4, <1>5

LEMMA WriteViewKeeps ==
  ASSUME Typed, Typed', Orderly, Orderly', Kept, NEW p \in Processes, WriteView(p)
  PROVE  Kept'
  <1>1. /\ p \notin stale /\ pc[p] = "view" /\ Done(p) /\ Writes(p)
        /\ UNCHANGED <<today, actions, cache, changes, bought>>
    BY DEF WriteView, Record, Orderly
  <1>2. /\ snap[p].row.current = streak.current /\ snap[p].row.lastView = streak.lastView
        /\ snap[p].began = history.began /\ snap[p].day = today /\ today \in history.read
        /\ streak.current = 0 \/ streak.lastView # today
    BY <1>1 DEF Kept, Fresh
  <1>3. streak.lastView < today
    BY <1>2, TypeFacts DEF Kept, Row
  <1>4. /\ streak'.current = streak.current + 1 /\ streak'.lastView = today
        /\ streak'.freezes = streak.freezes
    BY <1>2 DEF WriteView, Typed, TypeOK, Streak
  <1>5. views' = {}
    BY <1>2 DEF WriteView, Kept, Row
  <1>6. checkUserStreak(snap[p].row, today) = (streak.current > 0 /\ MissedDays # {})
    <2>1. LastUpdate(snap[p].row) = LastUpdate(streak)
      BY <1>2 DEF LastUpdate
    <2> QED BY <1>2, <2>1, MissedIs, TypeFacts DEF checkUserStreak
  <1>7. /\ history'.read = history.read
        /\ history'.began = IF streak.current = 0 THEN today ELSE history.began
        /\ history'.slipped = (history.slipped \/ (streak.current > 0 /\ MissedDays # {}))
        /\ history'.resets = history.resets /\ history'.recovered = history.recovered
    <2>1. history' = [history EXCEPT
             !.began = IF snap[p].row.current = 0 THEN snap[p].day ELSE snap[p].began,
             !.slipped = @ \/ checkUserStreak(snap[p].row, snap[p].day)]
      BY <1>1 DEF WriteView, Record
    <2> HIDE DEF checkUserStreak
    <2> QED BY <2>1, <1>2, <1>6 DEF Typed, History
  <1>8. RecoverDays' = RecoverDays /\ FreezeDays' = FreezeDays /\ Spent' = Spent
    BY <1>1, SameActions DEF Spent
  <1>9. Mild
    BY <1>1, <1>3, <1>4, <1>7, <1>8, TypeFacts DEF Mild
  <1>10. Changes' /\ Cached'
    BY <1>1, <1>9, ChangesStay, CachedStays DEF Kept
  <1>11. streak'.current <= Cardinality(ReadIn(history.began, streak.lastView)')
    <2>1. CASE streak.current = 0
      <3>1. ReadIn(history.began, streak.lastView)' = {today}
        BY <1>1, <1>2, <1>4, <1>7, <2>1, TypeFacts DEF ReadIn
      <3>2. Cardinality(ReadIn(history.began, streak.lastView)') = 1
        BY <3>1, FS_Singleton
      <3> QED BY <1>4, <2>1, <3>2
    <2>2. CASE streak.current > 0
      <3>1. PICK a, b, c : a = history.began /\ b = streak.lastView /\ c = today
        OBVIOUS
      <3>2. ReadIn(a, b) \cup {c} \subseteq ReadIn(a, c)
        BY <1>2, <1>3, <2>2, <3>1, StreakStarts, TypeFacts DEF ReadIn
      <3>3. c \notin ReadIn(a, b)
        BY <1>3, <3>1, TypeFacts DEF ReadIn
      <3>4. Cardinality(ReadIn(a, b) \cup {c}) = Cardinality(ReadIn(a, b)) + 1
        BY <3>3, FS_AddElement, ReadInFacts
      <3>5. /\ Cardinality(ReadIn(a, b) \cup {c}) <= Cardinality(ReadIn(a, c))
            /\ Cardinality(ReadIn(a, b)) \in Nat /\ Cardinality(ReadIn(a, c)) \in Nat
        BY <3>2, FS_Subset, ReadInFacts
      <3>6. ReadIn(history.began, streak.lastView)' = ReadIn(a, c)
        BY <1>4, <1>7, <2>2, <3>1, <1>1 DEF ReadIn
      <3>7. streak.current <= Cardinality(ReadIn(a, b))
        BY <3>1 DEF Kept, Row
      <3> QED BY <1>4, <3>4, <3>5, <3>6, <3>7, TypeFacts
    <2> QED BY <2>1, <2>2, TypeFacts
  <1>12. Row'
    <2>1. \A d \in history.read : d <= today
      BY <1>3, TypeFacts DEF Kept, Row
    <2>2. /\ streak'.current = 1 => history'.began = today
          /\ Spent => streak'.current >= 2
      BY <1>4, <1>7, TypeFacts DEF Kept, Row
    <2>3. streak'.current # 0 /\ today <= today
      BY <1>4, TypeFacts
    <2> QED BY <1>1, <1>4, <1>5, <1>7, <1>8, <1>11, <2>1, <2>2, <2>3 DEF Kept, Row
  <1>13. Covered'
    <2> SUFFICES ASSUME ~history'.slipped, NEW d \in Days, history'.began <= d,
                        ~(today < d /\ After(d))
                 PROVE  Stands(d)
      BY <1>1, <1>4, <1>7, <1>8, StandsStays DEF Covered, After
    <2>1. d \in Int /\ today \in Int /\ d <= today
      BY TypeFacts DEF After, Kept, Row
    <2>2. CASE d = today
      BY <1>2, <2>2 DEF Stands
    <2>3. CASE d < today
      <3>1. streak.current > 0 /\ history.began <= d
        BY <1>7, <2>1, <2>3, TypeFacts
      <3>2. ~history.slipped /\ MissedDays = {}
        BY <1>7, <3>1
      <3>3. streak.lastView < d /\ After(d) => IsWeekend(d)
        BY <2>3, <3>2 DEF MissedDays
      <3> QED BY <3>1, <3>2, <3>3 DEF Kept, Covered, Stands
    <2> QED BY <2>1, <2>2, <2>3
  <1>14. Paid'
    BY <1>1, <1>4, <1>7, <1>8 DEF Kept, Paid
  <1>15. /\ pc'[p] = "idle" /\ \A q \in Processes \ {p} : pc'[q] = pc[q]
    BY <1>1, DoneSnapshot
  <1>16. /\ \A q \in Processes \ stale' : Fresh(q)'
         /\ ~\E r \in Processes \ stale' : pc'[r] = "recover"
    BY <1>1, <1>15, WriterAlone
  <1>17. Tokens'
    <2>1. Live' => Live
      BY <1>1, <1>8, <1>16 DEF Live
    <2> QED BY <1>1, <1>7, <2>1, TypeFacts DEF Kept, Tokens
  <1> QED BY <1>10, <1>12, <1>13, <1>14, <1>16, <1>17 DEF Kept

LEMMA ConsumeKeeps ==
  ASSUME Typed, Typed', Orderly, Orderly', Kept, NEW p \in Processes, tryConsumeStreakFreeze(p)
  PROVE  Kept'
  <1> DEFINE n == Cardinality(snap[p].days)
  <1>1. /\ p \notin stale /\ pc[p] = "freeze" /\ Done(p) /\ Writes(p) /\ history' = history
        /\ streak' = [streak EXCEPT !.freezes = @ - n]
        /\ UNCHANGED <<today, cache, changes, views, bought>>
    BY DEF tryConsumeStreakFreeze, Record, Orderly
  <1>2. streak.current > 0 /\ snap[p].days = MissedDays
    BY <1>1 DEF Kept, Fresh
  <1>3. RecoverDays' = RecoverDays /\ FreezeDays' = FreezeDays \cup MissedDays
    BY <1>2, MoreFreezes DEF tryConsumeStreakFreeze
  <1>4. /\ streak'.current = streak.current /\ streak'.lastView = streak.lastView
        /\ streak'.freezes = streak.freezes - n
    BY <1>1 DEF Typed, TypeOK, Streak
  <1>5. /\ \A d \in MissedDays : d \in Int /\ streak.lastView < d /\ d < today /\ ~IsWeekend(d)
                                 /\ After(d)
        /\ streak.lastView \in Int /\ today \in Int
    BY TypeFacts DEF MissedDays
  <1>6. Mild /\ Spent' = Spent
    BY <1>1, <1>3, <1>4, TypeFacts DEF Mild, Spent
  <1>7. Changes' /\ Cached'
    BY <1>1, <1>6, ChangesStay, CachedStays DEF Kept
  <1>8. Row'
    <2>1. ReadIn(history.began, streak.lastView)' = ReadIn(history.began, streak.lastView)
      BY <1>1, <1>4 DEF ReadIn
    <2> QED BY <1>1, <1>3, <1>4, <1>5, <1>6, <2>1 DEF Kept, Row
  <1>9. Covered'
    <2> SUFFICES ASSUME ~history.slipped, NEW d \in Days, history.began <= d,
                        ~(streak.lastView < d /\ After(d)')
                 PROVE  Stands(d)'
      BY <1>1, <1>4 DEF Covered
    <2>1. Stands(d) => Stands(d)'
      BY <1>1, <1>3, StandsStays
    <2>2. CASE ~(streak.lastView < d /\ After(d))
      BY <1>2, <2>1, <2>2 DEF Kept, Covered
    <2>3. CASE streak.lastView < d /\ After(d)
      <3>1. PICK f \in MissedDays : ~(f < d)
        BY <1>3, <2>3 DEF After
      <3>2. d \in Int /\ d < today
        BY <1>5, <3>1, TypeFacts
      <3>3. IsWeekend(d) \/ d \in MissedDays
        BY <2>3, <3>2 DEF MissedDays
      <3> QED BY <1>3, <3>3 DEF Stands
    <2> QED BY <2>2, <2>3
  <1>10. Paid'
    <2>1. IsFiniteSet(MissedDays) /\ n \in Nat /\ n = Cardinality(MissedDays)
      BY <1>2, DaysFacts, FS_Subset, FS_CardinalityType DEF MissedDays
    <2>2. FreezeDays \cap MissedDays = {}
      BY <1>5, TypeFacts DEF After
    <2>3. Cardinality(FreezeDays \cup MissedDays) = Cardinality(FreezeDays) + n
      <3>1. Cardinality(FreezeDays \cup MissedDays) = Cardinality(FreezeDays)
              + Cardinality(MissedDays) - Cardinality(FreezeDays \cap MissedDays)
        BY <2>1, FreezeDaysFinite, FS_Union
      <3> QED BY <2>1, <2>2, <3>1, FS_EmptySet, FreezeDaysFinite
    <2>4. \A d \in MissedDays : ~IsWeekend(d) /\ d \notin history.read
      <3> SUFFICES ASSUME NEW d \in MissedDays, d \in history.read PROVE FALSE
        BY <1>5
      <3>1. d <= streak.lastView \/ d \in {today}
        BY DEF Kept, Row
      <3> QED BY <1>5, <3>1
    <2>5. bought' = streak'.freezes + Cardinality(FreezeDays \cup MissedDays)
      <3> HIDE DEF n
      <3> QED BY <1>1, <1>4, <2>1, <2>3, FreezeDaysFinite, TypeFacts DEF Kept, Paid
    <2> QED BY <1>1, <1>3, <2>4, <2>5 DEF Kept, Paid
  <1>11. /\ pc'[p] = "idle" /\ \A q \in Processes \ {p} : pc'[q] = pc[q]
    BY <1>1, DoneSnapshot
  <1>12. /\ \A q \in Processes \ stale' : Fresh(q)'
         /\ ~\E r \in Processes \ stale' : pc'[r] = "recover"
    BY <1>1, <1>11, WriterAlone
  <1>13. Tokens'
    <2>1. Live' => Live
      BY <1>1, <1>6, <1>12 DEF Live
    <2> QED BY <1>1, <2>1, TypeFacts DEF Kept, Tokens
  <1> QED BY <1>7, <1>8, <1>9, <1>10, <1>12, <1>13 DEF Kept

\* A day missed by a streak keeps what was lost before from being restored: no
\* restore of today's window is spent, and the key is gone.
LEMMA NothingElseLost ==
  ASSUME Typed, Kept, streak.current > 0, NEW e \in MissedDays
  PROVE  /\ ~Spent /\ cache = NoCache
         /\ \A x \in Change : Backed(x) /\ Missing(x) => Old(x)
  <1>1. /\ e \in Days /\ e \in Int /\ streak.lastView < e /\ e < today /\ ~IsWeekend(e)
        /\ \A t \in RecoverDays : t <= e
    BY TypeFacts DEF MissedDays, After
  <1>2. history.began \in Int /\ streak.lastView \in Int /\ history.began < e
    <2>1. history.began <= streak.lastView
      BY StreakStarts
    <2> QED BY <1>1, <2>1, Integral
  <1>3. ~Spent
    <2> SUFFICES ASSUME NEW t \in RecoverDays, getNextWeekday(t) = getNextWeekday(today)
                 PROVE  FALSE
      BY DEF Spent
    <2>1. t \in Nat /\ today \in Nat /\ t <= e /\ t <= today
      BY <1>1, Integral, TypeFacts
    <2>2. e \in t..(today - 1)
      BY <1>1, <2>1
    <2> QED BY <1>1, <2>1, <2>2, Windows
  <1>4. \A x \in Change \cup CacheRow : Backed(x) => e \in Gap(x)
    <2> SUFFICES ASSUME NEW x \in Change \cup CacheRow, Backed(x) PROVE e \in Gap(x)
      OBVIOUS
    <2>1. x.last \in Days
      BY DEF Change, CacheRow
    <2>2. x.last \in Int /\ x.last <= streak.lastView
      BY <2>1, TypeFacts DEF Backed
    <2> QED BY <1>1, <1>2, <2>2 DEF Gap
  <1>5. \A x \in Change \cup CacheRow : Backed(x) /\ Missing(x) => Old(x)
    <2> SUFFICES ASSUME NEW x \in Change \cup CacheRow, Backed(x), Missing(x) PROVE Old(x)
      OBVIOUS
    <2>1. PICK d \in Gap(x) : d < history.began
      BY DEF Missing
    <2>2. d \in Int
      BY TypeFacts DEF Gap
    <2>3. d # e /\ e \in Gap(x)
      BY <1>1, <1>2, <1>4, <2>1, <2>2
    <2> QED BY <2>1, <2>3 DEF Old
  <1>6. cache = NoCache
    <2> SUFFICES ASSUME cache # NoCache PROVE FALSE
      OBVIOUS
    <2>1. cache \in CacheRow /\ Restorable(cache)
      <3>1. \A x \in {cache} : Restorable(x)
        BY <1>3 DEF Kept, Cached
      <3> QED BY <3>1, TypeFacts
    <2> QED BY <1>5, <2>1 DEF Restorable, Fits, Old
  <1> QED BY <1>3, <1>5, <1>6

LEMMA ClearKeeps ==
  ASSUME Typed, Typed', Orderly, Orderly', Kept, NEW p \in Processes, clearUserStreak(p)
  PROVE  Kept'
  <1>1. /\ p \notin stale /\ pc[p] = "clear" /\ Done(p) /\ Writes(p)
        /\ streak' = [streak EXCEPT !.current = 0]
        /\ UNCHANGED <<today, actions, cache, views, bought>>
    BY DEF clearUserStreak, Record, Orderly
  <1>2. streak.current > 0 /\ MissedDays # {}
    BY <1>1 DEF Kept, Fresh
  <1>3. PICK e \in MissedDays : TRUE
    BY <1>2
  <1>4. /\ e \in Days /\ e \in Int /\ streak.lastView < e /\ e < today /\ ~IsWeekend(e)
        /\ \A t \in RecoverDays : t <= e
    BY <1>3, TypeFacts DEF MissedDays, After
  <1>5. ~Spent /\ cache = NoCache /\ \A x \in Change : Backed(x) /\ Missing(x) => Old(x)
    BY <1>2, <1>3, NothingElseLost
  <1>6. RecoverDays' = RecoverDays /\ FreezeDays' = FreezeDays
    BY <1>1, SameActions
  <1>7. /\ streak'.current = 0 /\ streak'.lastView = streak.lastView
        /\ streak'.freezes = streak.freezes
    BY <1>1 DEF Typed, TypeOK, Streak
  <1>8. /\ history'.read = history.read /\ history'.began = history.began
        /\ history'.slipped = history.slipped /\ history'.recovered = history.recovered
        /\ IF streak.current >= VALID_STREAK_RESET
           THEN /\ history'.resets = history.resets + 1
                /\ changes' = Append(changes, [length |-> streak.current,
                                 last |-> streak.lastView, began |-> history.began])
           ELSE history'.resets = history.resets /\ changes' = changes
    BY <1>1 DEF clearUserStreak, Record, Typed, History
  <1>9. Mild /\ ~Spent'
    BY <1>1, <1>5, <1>6, <1>7, <1>8, TypeFacts DEF Mild, Spent
  <1>10. Row'
    <2>1. Cardinality(ReadIn(history.began, streak.lastView)') >= 0
      <3>1. \A a, b : Cardinality(ReadIn(a, b)') \in Nat
        BY NextFacts
      <3>2. PICK a, b : a = history'.began /\ b = streak'.lastView
        OBVIOUS
      <3>3. ReadIn(history.began, streak.lastView)' = ReadIn(a, b)'
        BY <3>2 DEF ReadIn
      <3> QED BY <3>1, <3>3
    <2>2. streak.lastView < today
      BY <1>4, Integral
    <2> QED BY <1>1, <1>6, <1>7, <1>8, <1>9, <2>1, <2>2 DEF Kept, Row
  <1>11. Covered' /\ Paid'
    BY <1>1, <1>6, <1>7, <1>8 DEF Kept, Covered, Paid
  <1>12. Changes'
    <2>1. CASE changes' = changes
      BY <1>9, <2>1, ChangesStay DEF Kept
    <2>2. CASE streak.current >= VALID_STREAK_RESET
      <3>0. PICK n \in Change : n = [length |-> streak.current, last |-> streak.lastView,
                                     began |-> history.began]
        BY TypeFacts DEF Change
      <3>1. n.length = streak.current /\ n.last = streak.lastView /\ n.began = history.began
        BY <3>0
      <3>2. changes' = Append(changes, n)
        BY <1>8, <2>2, <3>0
      <3>3. /\ Len(changes') = Len(changes) + 1 /\ changes'[Len(changes) + 1] = n
            /\ \A i \in 1..Len(changes) : changes'[i] = changes[i]
        BY <3>2, AppendProperties, TypeFacts
      <3>4. Backed(n)'
        <4>1. /\ Cardinality(ReadIn(history.began, streak.lastView)) \in Nat
              /\ streak.current <= Cardinality(ReadIn(history.began, streak.lastView))
          <5>1. PICK a, b : a = history.began /\ b = streak.lastView
            OBVIOUS
          <5> QED BY <5>1, ReadInFacts DEF Kept, Row
        <4>2. ReadIn(n.began, n.last)' = ReadIn(history.began, streak.lastView)
          BY <1>8, <3>1 DEF ReadIn
        <4>3. streak.lastView \in Int /\ VALID_STREAK_RESET <= n.length
          BY <2>2, <3>1, Integral DEF VALID_STREAK_RESET
        <4> QED BY <1>7, <3>1, <4>1, <4>2, <4>3 DEF Backed
      <3>5. Standing(n)'
        <4> SUFFICES ASSUME ~history.slipped, NEW d \in Days, history.began <= d,
                            d <= streak.lastView \/ \E t \in RecoverDays : d < t
                     PROVE  Stands(d)'
          BY <1>6, <1>8, <3>1 DEF Standing
        <4>1. ~(streak.lastView < d /\ After(d))
          BY TypeFacts DEF After
        <4>2. Stands(d)
          BY <1>2, <4>1 DEF Kept, Covered
        <4> QED BY <1>6, <1>8, <4>2, StandsStays
      <3>6. Missing(n)'
        <4>1. e \in Gap(n)'
          BY <1>1, <1>4, <1>6, <3>1 DEF Gap
        <4> QED BY <1>7, <4>1 DEF Missing
      <3> SUFFICES ASSUME NEW i \in 1..Len(changes'), NEW x \in {changes'[i]}
                   PROVE  (Backed(x) /\ Standing(x) /\
                            IF i = Len(changes) THEN Missing(x) ELSE Old(x))'
        BY DEF Changes
      <3>7. CASE i = Len(changes')
        <4>1. x = n
          BY <3>3, <3>7
        <4> QED BY <3>4, <3>5, <3>6, <3>7, <4>1
      <3>8. CASE i # Len(changes')
        <4>1. i \in 1..Len(changes) /\ x = changes[i] /\ x \in Change
          BY <3>3, <3>8, TypeFacts
        <4>2. Backed(x) /\ Standing(x) /\ Old(x)
          BY <1>5, <4>1 DEF Kept, Changes
        <4> QED BY <1>9, <3>8, <4>1, <4>2, TokenStays
      <3> QED BY <3>7, <3>8
    <2> QED BY <1>8, <2>1, <2>2
  <1>13. Cached'
    BY <1>1, <1>5 DEF Cached
  <1>14. /\ pc'[p] = "idle" /\ \A q \in Processes \ {p} : pc'[q] = pc[q]
    BY <1>1, DoneSnapshot
  <1>15. /\ \A q \in Processes \ stale' : Fresh(q)'
         /\ ~\E r \in Processes \ stale' : pc'[r] = "recover"
    BY <1>1, <1>14, WriterAlone
  <1>16. Tokens'
    <2>1. ~Live'
      BY <1>1, <1>5, <1>15 DEF Live
    <2>2. history.recovered + Len(changes) <= history.resets
      BY TypeFacts DEF Kept, Tokens
    <2>3. Len(changes') = IF streak.current >= VALID_STREAK_RESET
                          THEN Len(changes) + 1 ELSE Len(changes)
      <3>1. [length |-> streak.current, last |-> streak.lastView, began |-> history.began]
              \in Change
        BY TypeFacts DEF Change
      <3> QED BY <1>8, <3>1, AppendProperties, TypeFacts
    <2> QED BY <1>8, <2>1, <2>2, <2>3, TypeFacts DEF Tokens
  <1> QED BY <1>10, <1>11, <1>12, <1>13, <1>15, <1>16 DEF Kept

LEMMA CommitRecoverKeeps ==
  ASSUME Typed, Typed', Orderly, Orderly', Kept, NEW p \in Processes, CommitRecover(p)
  PROVE  Kept'
  <1>1. /\ p \notin stale /\ pc[p] = "recover" /\ Writes(p)
        /\ actions' = actions \cup {[type |-> Recover, day |-> today]}
        /\ UNCHANGED <<today, cache, changes, views, bought>>
    BY DEF CommitRecover, Record, Orderly
  <1>2. /\ snap[p].row.current = streak.current /\ streak.current <= 1 /\ changes = <<>>
        /\ \A x \in {snap[p].old} : Restorable(x)
    BY <1>1 DEF Kept, Fresh
  <1>3. PICK x \in CacheRow : x = snap[p].old
    BY <1>1 DEF Typed, Snapshot
  <1>4. /\ Restorable(x) /\ x.began \in Days /\ x.last \in Days /\ x.length \in Nat
        /\ x.began \in Int /\ x.last \in Int
    <2>1. Restorable(x) /\ x.began \in Days /\ x.last \in Days /\ x.length \in Nat
      BY <1>2, <1>3 DEF CacheRow
    <2> QED BY <2>1, TypeFacts
  <1>5. ~Spent /\ Live
    <2>1. ~Spent
      BY <1>2, TypeFacts DEF Kept, Row
    <2> QED BY <1>1, <2>1 DEF Live
  <1>6. RecoverDays' = RecoverDays \cup {today} /\ FreezeDays' = FreezeDays /\ Spent'
    <2>1. RecoverDays' = RecoverDays \cup {today} /\ FreezeDays' = FreezeDays
      BY <1>1, OneRecoverMore
    <2> QED BY <1>1, <2>1 DEF Spent
  <1>7. /\ streak'.current = x.length + streak.current /\ streak'.lastView = streak.lastView
        /\ streak'.freezes = streak.freezes
    BY <1>2, <1>3 DEF CommitRecover, Typed, TypeOK, Streak
  <1>8. /\ history'.read = history.read /\ history'.began = x.began
        /\ history'.slipped = history.slipped /\ history'.resets = history.resets
        /\ history'.recovered = history.recovered + 1
    BY <1>1, <1>3 DEF CommitRecover, Record, Typed, History
  <1>9. /\ streak.lastView \in Int /\ streak.current \in Nat /\ today \in Int
        /\ x.last <= streak.lastView /\ (streak.current = 1 => x.last < streak.lastView)
        /\ 3 <= x.length /\ x.length <= Cardinality(ReadIn(x.began, x.last))
    BY <1>4, TypeFacts DEF Restorable, Backed, VALID_STREAK_RESET
  <1>10. streak'.current <= Cardinality(ReadIn(history.began, streak.lastView)')
    <2>1. PICK a, b, c : a = x.began /\ b = x.last /\ c = streak.lastView
      OBVIOUS
    <2>2. ReadIn(history.began, streak.lastView)' = ReadIn(a, c)
      BY <1>7, <1>8, <2>1 DEF ReadIn
    <2>3. /\ IsFiniteSet(ReadIn(a, b)) /\ IsFiniteSet(ReadIn(a, c))
          /\ Cardinality(ReadIn(a, b)) \in Nat /\ Cardinality(ReadIn(a, c)) \in Nat
          /\ a \in Int /\ b \in Int /\ c \in Int
      BY <1>4, <1>9, <2>1, ReadInFacts
    <2>4. ReadIn(a, b) \subseteq ReadIn(a, c)
      BY <1>9, <2>1, <2>3, TypeFacts, SMTT(30) DEF ReadIn
    <2>5. x.length <= Cardinality(ReadIn(a, b))
      BY <1>9, <2>1
    <2>6. CASE streak.current = 0
      <3>1. Cardinality(ReadIn(a, b)) <= Cardinality(ReadIn(a, c))
        BY <2>3, <2>4, FS_Subset
      <3> QED BY <1>4, <1>7, <2>2, <2>3, <2>5, <2>6, <3>1
    <2>7. CASE streak.current = 1
      <3>0. Cardinality(ReadIn(a, b)) > 0
        BY <1>4, <1>9, <2>3, <2>5
      <3>1. PICK d \in ReadIn(a, b) : TRUE
        BY <3>0, ReadInFacts
      <3>2. d \in Int /\ a <= d /\ d <= b /\ b < c
        BY <1>9, <2>1, <2>7, <3>1, TypeFacts DEF ReadIn
      <3>3. c \in history.read
        BY <2>1, <2>7, StreakStarts
      <3>4. ReadIn(a, b) \cup {c} \subseteq ReadIn(a, c) /\ c \notin ReadIn(a, b)
        BY <2>3, <2>4, <3>2, <3>3 DEF ReadIn
      <3>5. Cardinality(ReadIn(a, b) \cup {c}) = Cardinality(ReadIn(a, b)) + 1
        BY <2>3, <3>4, FS_AddElement
      <3>6. Cardinality(ReadIn(a, b) \cup {c}) <= Cardinality(ReadIn(a, c))
        BY <2>3, <3>4, FS_Subset
      <3> QED BY <1>4, <1>7, <2>2, <2>3, <2>5, <2>7, <3>5, <3>6
    <2> QED BY <1>2, <1>9, <2>6, <2>7
  <1>11. Row'
    <2>1. streak'.current >= 3 /\ streak'.current >= 2 /\ streak'.current # 0
          /\ streak'.current # 1
      BY <1>4, <1>7, <1>9
    <2>2. \A t \in RecoverDays \cup {today} : t <= today
      BY <1>9 DEF Kept, Row
    <2> QED BY <1>1, <1>6, <1>7, <1>8, <1>10, <2>1, <2>2 DEF Kept, Row
  <1>12. Covered'
    <2> SUFFICES ASSUME ~history.slipped, NEW d \in Days, x.began <= d,
                        ~(streak.lastView < d /\ After(d)')
                 PROVE  Stands(d)'
      BY <1>7, <1>8 DEF Covered
    <2>0. d \in Int /\ \A f \in FreezeDays : f \in Int /\ f < today
      BY TypeFacts DEF Kept, Row
    <2>1. Stands(d) => Stands(d)'
      BY <1>6, <1>8, StandsStays
    <2>2. CASE d <= x.last \/ \E t \in RecoverDays : d < t
      BY <1>4, <2>1, <2>2 DEF Restorable, Standing
    <2>3. CASE today <= d
      <3>1. After(d)'
        <4>1. (\A t \in RecoverDays : t \in Int /\ t <= today) /\ \A f \in FreezeDays : f < d
          BY <1>9, <2>0, <2>3, Integral DEF Kept, Row
        <4> QED BY <1>6, <1>9, <2>0, <2>3, <4>1 DEF After
      <3>2. d = streak.lastView /\ d = today /\ streak.current # 0
        BY <1>9, <2>0, <2>3, <3>1 DEF Kept, Row
      <3>3. d \in history.read
        BY <1>2, <1>9, <3>2, StreakStarts
      <3> QED BY <2>1, <3>3 DEF Stands
    <2>4. CASE d < today /\ x.last < d /\ \A t \in RecoverDays : t <= d
      <3>1. CASE IsWeekend(d)
        BY <2>1, <3>1 DEF Stands
      <3>2. CASE ~IsWeekend(d)
        <4>1. d \in Gap(x)
          BY <2>4, <3>2 DEF Gap
        <4>2. ASSUME NEW e \in (d + 1)..(today - 1), ~IsWeekend(e) PROVE FALSE
          <5>1. e \in Int /\ d < e /\ e < today
            BY <1>9, <2>0
          <5>2. e \in Days
            BY <1>9, <2>0, <5>1, DaysFacts, TypeFacts
          <5>3. \A t \in RecoverDays : t \in Int /\ t <= e
            BY <2>0, <2>4, <5>1, Integral
          <5>4. e \in Gap(x)
            BY <1>4, <2>0, <2>4, <4>2, <5>1, <5>2, <5>3 DEF Gap
          <5> QED BY <1>4, <2>0, <4>1, <5>1, <5>4 DEF Restorable, Fits
        <4>3. today \in RecoverDays' /\ d < today
          BY <1>6, <2>4
        <4> QED BY <4>2, <4>3 DEF Stands
      <3> QED BY <3>1, <3>2
    <2>5. \A t \in RecoverDays : t \in Int
      BY TypeFacts
    <2> QED BY <1>4, <1>9, <2>0, <2>2, <2>3, <2>4, <2>5
  <1>13. Paid'
    BY <1>1, <1>6, <1>7, <1>8 DEF Kept, Paid
  <1>14. Changes' /\ Cached'
    <2>1. Changes'
      BY <1>1, <1>2 DEF Changes
    <2>2. Cached'
      BY <1>1, <1>6 DEF Kept, Cached
    <2> QED BY <2>1, <2>2
  <1>15. pc'[p] = "forget" /\ \A q \in Processes \ {p} : pc'[q] = pc[q]
    BY DEF CommitRecover, Goto, Typed, TypeOK
  <1>16. \A q \in Processes \ stale' : Fresh(q)'
    BY <1>1, <1>15, WriterAlone
  <1>17. Tokens'
    <2>1. history.recovered + Len(changes) + 1 <= history.resets
      BY <1>5 DEF Kept, Tokens
    <2>2. ~Live'
      BY <1>6 DEF Live
    <2> QED BY <1>1, <1>8, <2>1, <2>2, TypeFacts DEF Tokens
  <1> QED BY <1>11, <1>12, <1>13, <1>14, <1>16, <1>17 DEF Kept

-----------------------------------------------------------------------------
(* The invariant.                                                          *)

\* What was forgotten stays forgotten.
LEMMA OrderlyBefore ==
  ASSUME Next, Orderly' PROVE Orderly
  <1> USE DEF Orderly
  <1>1. CASE ReadPost
    BY <1>1 DEF ReadPost
  <1>2. CASE setRestoreStreakCache \/ purchaseStreakFreeze
    BY <1>2 DEF setRestoreStreakCache, purchaseStreakFreeze, Disorder
  <1>3. CASE NextDay
    BY <1>3 DEF NextDay, Disorder
  <1>4. ASSUME NEW p \in Processes, BeginCheck(p) \/ Fail(p) \/ FreezesGone(p) \/ ForgetRecover(p)
        PROVE  Orderly
    BY <1>4 DEF BeginCheck, Fail, FreezesGone, ForgetRecover, Disorder
  <1>5. ASSUME NEW p \in Processes, WriteView(p) PROVE Orderly
    BY <1>5 DEF WriteView, Record
  <1>6. ASSUME NEW p \in Processes, tryConsumeStreakFreeze(p) PROVE Orderly
    BY <1>6 DEF tryConsumeStreakFreeze, Record
  <1>7. ASSUME NEW p \in Processes, clearUserStreak(p) PROVE Orderly
    BY <1>7 DEF clearUserStreak, Record
  <1>8. ASSUME NEW p \in Processes, CommitRecover(p) PROVE Orderly
    BY <1>8 DEF CommitRecover, Record
  <1>9. ASSUME NEW r \in Requests, BeginRecover(r) \/ \E d \in views : BeginView(r, d)
        PROVE  Orderly
    BY <1>9 DEF BeginRecover, BeginView, Disorder
  <1> QED
    BY <1>1, <1>2, <1>3, <1>4, <1>5, <1>6, <1>7, <1>8, <1>9 DEF Next, Handle

IInv == Typed /\ (Orderly => Kept)

LEMMA InitKept == Init => IInv
  <1> SUFFICES ASSUME Init PROVE IInv
    OBVIOUS
  <1>1. Typed
    BY InitTyped
  <1>2. PICK held \in FreezesHeld :
          /\ streak = [current |-> 3, max |-> 3, freezes |-> held, lastView |-> FirstDay - 1]
          /\ history = [read |-> (FirstDay - 3)..(FirstDay - 1), began |-> FirstDay - 3,
                        slipped |-> FALSE, resets |-> 0, recovered |-> 0]
          /\ bought = held
    BY DEF Init
  <1>3. /\ today = FirstDay /\ FirstDay \in Int /\ held \in Nat
        /\ actions = {} /\ cache = NoCache /\ changes = <<>> /\ views = {}
        /\ \A p \in Processes : pc[p] = "idle"
    BY FreezesAssumption, DaysAssumption DEF Init
  <1>4. RecoverDays = {} /\ FreezeDays = {} /\ ~Spent
    <2>1. RecoverDays = {} /\ FreezeDays = {}
      BY <1>3 DEF RecoverDays, FreezeDays
    <2> QED BY <2>1 DEF Spent
  <1>5. Row
    <2>1. ReadIn(history.began, streak.lastView) = (FirstDay - 3)..(FirstDay - 1)
      BY <1>2, <1>3 DEF ReadIn
    <2>2. Cardinality((FirstDay - 3)..(FirstDay - 1)) = 3
      <3>1. FirstDay - 3 \in Int /\ FirstDay - 1 \in Int /\ FirstDay - 3 <= FirstDay - 1
        BY <1>3
      <3>2. Cardinality((FirstDay - 3)..(FirstDay - 1)) = (FirstDay - 1) - (FirstDay - 3) + 1
        BY <1>3, <3>1, FS_Interval
      <3> QED BY <1>3, <3>2
    <2>3. streak.current <= Cardinality(ReadIn(history.began, streak.lastView))
      BY <1>2, <2>1, <2>2
    <2> QED BY <1>2, <1>3, <1>4, <2>3 DEF Row
  <1>6. Covered
    BY <1>2, <1>3, <1>4, Integral, <1>1 DEF Covered, After, Stands
  <1>7. Paid
    BY <1>2, <1>3, <1>4, FS_EmptySet DEF Paid
  <1>8. Changes /\ Cached /\ Tokens /\ \A p \in Processes \ stale : Fresh(p)
    BY <1>2, <1>3 DEF Changes, Cached, Tokens, Live, Fresh
  <1> QED BY <1>1, <1>5, <1>6, <1>7, <1>8 DEF IInv, Kept

LEMMA NextKept == IInv /\ [Next]_vars => IInv'
  <1> SUFFICES ASSUME IInv, [Next]_vars PROVE IInv'
    OBVIOUS
  <1>1. Typed /\ Typed'
    BY TypesInductive DEF IInv
  <1>2. CASE UNCHANGED vars
    <2> SUFFICES ASSUME Kept PROVE Kept'
      BY <1>1, <1>2 DEF IInv, vars, Orderly, Disorder
    <2>1. /\ UNCHANGED <<today, streak, actions, changes, history, bought, pc, snap, stale, cache,
                         views>>
          /\ cron \in Processes
      BY <1>2 DEF vars, Processes
    <2>2. Quiet
      BY <2>1 DEF Quiet
    <2>3. \A p \in Processes \ stale' : Fresh(p)'
      BY <1>1, <2>1, <2>2, FreshStays DEF Kept
    <2>4. Changes' /\ Cached' /\ Covered' /\ Tokens'
      BY <1>1, <2>1, <2>2, <2>3, QuietKeeps
    <2>5. Row' /\ Paid'
      BY <1>1, <2>1, <2>2, RowStays, SameActions DEF Kept, Paid
    <2> QED BY <2>3, <2>4, <2>5 DEF Kept
  <1>3. CASE Next
    <2> SUFFICES ASSUME Orderly' PROVE Kept'
      BY <1>1 DEF IInv
    <2>0. Orderly /\ Kept
      BY <1>3, OrderlyBefore DEF IInv
    <2>1. CASE ReadPost
      BY <1>1, <2>0, <2>1, ReadPostKeeps
    <2>2. CASE setRestoreStreakCache
      BY <1>1, <2>0, <2>2, setCacheKeeps
    <2>3. CASE purchaseStreakFreeze
      BY <1>1, <2>0, <2>3, purchaseKeeps
    <2>4. CASE NextDay
      BY <1>1, <2>0, <2>4, NextDayKeeps
    <2>5. ASSUME NEW p \in Processes, BeginCheck(p) PROVE Kept'
      BY <1>1, <2>0, <2>5, BeginCheckKeeps
    <2>6. ASSUME NEW p \in Processes, ForgetRecover(p) \/ Fail(p) PROVE Kept'
      BY <1>1, <2>0, <2>6, GiveUpKeeps
    <2>7. ASSUME NEW p \in Processes, FreezesGone(p) PROVE Kept'
      BY <1>1, <2>0, <2>7, FreezesGoneKeeps
    <2>8. ASSUME NEW p \in Processes, WriteView(p) PROVE Kept'
      BY <1>1, <2>0, <2>8, WriteViewKeeps
    <2>9. ASSUME NEW p \in Processes, tryConsumeStreakFreeze(p) PROVE Kept'
      BY <1>1, <2>0, <2>9, ConsumeKeeps
    <2>10. ASSUME NEW p \in Processes, clearUserStreak(p) PROVE Kept'
      BY <1>1, <2>0, <2>10, ClearKeeps
    <2>11. ASSUME NEW p \in Processes, CommitRecover(p) PROVE Kept'
      BY <1>1, <2>0, <2>11, CommitRecoverKeeps
    <2>12. ASSUME NEW r \in Requests, BeginRecover(r) PROVE Kept'
      BY <1>1, <2>0, <2>12, BeginRecoverKeeps
    <2>13. ASSUME NEW r \in Requests, NEW d \in views, BeginView(r, d) PROVE Kept'
      BY <1>1, <2>0, <2>13, BeginViewKeeps
    <2> QED
      BY <1>3, <2>1, <2>2, <2>3, <2>4, <2>5, <2>6, <2>7, <2>8, <2>9, <2>10, <2>11, <2>12, <2>13
         DEF Next, Handle
  <1> QED BY <1>2, <1>3

\* A day of a streak that nobody read is a weekend day, or a freeze or a recover
\* stands for it, for any number of days, requests, freezes and failures.
THEOREM GapsCovered == Spec => []GapsAreCovered
  <1>1. IInv => GapsAreCovered
    <2> SUFFICES ASSUME IInv, Orderly, ~history.slipped, streak.current > 0,
                        NEW d \in history.began..streak.lastView
                 PROVE  Stands(d)
      BY DEF GapsAreCovered
    <2>1. Typed /\ Covered
      BY DEF IInv, Kept
    <2>2. history.began <= d /\ d <= streak.lastView /\ d \in Int /\ streak.lastView \in Int
      BY <2>1, Integral
    <2>3. d \in Days
      <3>1. history.began \in Days /\ streak.lastView \in Days
        BY <2>1, TypeFacts
      <3> QED BY <2>2, <3>1, DaysFacts
    <2>4. ~(streak.lastView < d)
      BY <2>2
    <2> QED BY <2>1, <2>2, <2>3, <2>4 DEF Covered
  <1> QED BY <1>1, InitKept, NextKept, PTL DEF Spec

\* A streak is never longer than the days read since it began, restores of
\* earlier streaks included (newView.ts, recoverStreak).
THEOREM StreaksAreRead == Spec => []StreakIsRead
  <1>1. IInv => StreakIsRead
    <2> SUFFICES ASSUME IInv, Orderly
                 PROVE  streak.current <= Cardinality({d \in history.read : d >= history.began})
      BY DEF StreakIsRead
    <2> DEFINE S == {d \in history.read : d >= history.began}
    <2>1. Typed /\ Row
      BY DEF IInv, Kept
    <2>2. IsFiniteSet(S)
      BY <2>1, TypeFacts, DaysFacts, FS_Subset
    <2>3. PICK a, b : a = history.began /\ b = streak.lastView
      OBVIOUS
    <2>4. ReadIn(a, b) \subseteq S
      BY <2>1, <2>3, Integral DEF ReadIn
    <2>5. /\ Cardinality(ReadIn(a, b)) <= Cardinality(S)
          /\ Cardinality(ReadIn(a, b)) \in Nat /\ Cardinality(S) \in Nat
      BY <2>1, <2>2, <2>4, FS_Subset, FS_CardinalityType, ReadInFacts
    <2>6. streak.current <= Cardinality(ReadIn(a, b)) /\ streak.current \in Int
      BY <2>1, <2>3, Integral DEF Row
    <2> HIDE DEF S
    <2>7. streak.current <= Cardinality(S)
      BY <2>5, <2>6
    <2> QED BY <2>7 DEF S
  <1> QED BY <1>1, InitKept, NextKept, PTL DEF Spec

\* Every freeze paid is held or was spent on one missed day, and a reset is
\* restored, and paid for, once (tryConsumeStreakFreeze, recoverStreak).
THEOREM PurchasesAreHeld == Spec => []PurchasesHold
  <1>1. IInv => PurchasesHold
    <2> SUFFICES ASSUME IInv, Orderly
                 PROVE  Paid /\ history.recovered <= history.resets
      BY DEF PurchasesHold, Paid
    <2>1. Typed /\ Paid /\ Tokens
      BY DEF IInv, Kept
    <2> QED BY <2>1, TypeFacts DEF Tokens
  <1> QED BY <1>1, InitKept, NextKept, PTL DEF Spec

\* A handler that is not stale clears a streak only when a weekday before today
\* was missed and nothing stands for it (updateCurrentStreak.ts).
THEOREM ResetsAreMissed == Spec => ResetOnlyIfMissed
  <1> DEFINE DayMissed == \E d \in streak.lastView..(today - 1) : ~Stands(d)
  <1>1. ASSUME IInv, Next, Orderly', streak'.current < streak.current PROVE DayMissed
    <2>1. Typed /\ Kept /\ streak.current \in Int
      BY <1>1, OrderlyBefore, Integral DEF IInv
    <2>2. ASSUME NEW p \in Processes, clearUserStreak(p) PROVE DayMissed
      <3>1. p \notin stale /\ pc[p] = "clear"
        BY <1>1, <2>2 DEF clearUserStreak, Record, Orderly
      <3>2. PICK e \in MissedDays : TRUE
        BY <2>1, <3>1 DEF Kept, Fresh
      <3>3. /\ e \in Int /\ streak.lastView \in Int /\ today \in Int
            /\ streak.lastView < e /\ e < today /\ ~IsWeekend(e)
            /\ \A f \in FreezeDays : f \in Int /\ f < e
            /\ \A t \in RecoverDays : t \in Int /\ t <= e
        BY <2>1, Integral DEF MissedDays, After
      <3>4. e \notin history.read
        <4>1. \A d \in history.read : d <= streak.lastView \/ d = today
          BY <2>1 DEF Kept, Row
        <4> QED BY <3>3, <4>1
      <3>5. ~Stands(e)
        BY <3>3, <3>4 DEF Stands
      <3> QED BY <3>3, <3>5
    <2>3. ASSUME NEW p \in Processes, WriteView(p) PROVE FALSE
      <3>1. p \notin stale /\ pc[p] = "view"
        BY <1>1, <2>3 DEF WriteView, Record, Orderly
      <3>2. snap[p].row.current = streak.current
        BY <2>1, <3>1 DEF Kept, Fresh
      <3>3. streak'.current = streak.current + 1
        BY <2>1, <2>3, <3>2 DEF WriteView, Typed, TypeOK, Streak
      <3> QED BY <1>1, <2>1, <3>3
    <2>4. ASSUME NEW p \in Processes, CommitRecover(p) PROVE FALSE
      <3>1. p \notin stale /\ pc[p] = "recover"
        BY <1>1, <2>4 DEF CommitRecover, Record, Orderly
      <3>2. snap[p].row.current = streak.current /\ snap[p].old.length \in Nat
        BY <2>1, <3>1 DEF Kept, Fresh, Typed, Snapshot, CacheRow
      <3>3. streak'.current = snap[p].old.length + streak.current
        BY <2>1, <2>4, <3>2 DEF CommitRecover, Typed, TypeOK, Streak
      <3> QED BY <1>1, <2>1, <3>2, <3>3
    <2>5. ASSUME streak'.current = streak.current PROVE FALSE
      BY <1>1, <2>1, <2>5
    <2>6. ASSUME NEW p \in Processes,
                 BeginCheck(p) \/ tryConsumeStreakFreeze(p) \/ FreezesGone(p)
                   \/ ForgetRecover(p) \/ Fail(p)
          PROVE  streak'.current = streak.current
      BY <2>1, <2>6 DEF BeginCheck, tryConsumeStreakFreeze, FreezesGone, ForgetRecover, Fail,
                        Typed, TypeOK, Streak
    <2>7. ASSUME NEW r \in Requests, BeginRecover(r) \/ \E d \in views : BeginView(r, d)
          PROVE  streak'.current = streak.current
      BY <2>7 DEF BeginRecover, BeginView
    <2>8. ASSUME ReadPost \/ setRestoreStreakCache \/ purchaseStreakFreeze \/ NextDay
          PROVE  streak'.current = streak.current
      BY <2>1, <2>8 DEF ReadPost, setRestoreStreakCache, purchaseStreakFreeze, NextDay,
                        Typed, TypeOK, Streak
    <2> HIDE DEF DayMissed
    <2> QED
      BY <1>1, <2>2, <2>3, <2>4, <2>5, <2>6, <2>7, <2>8 DEF Next, Handle
  <1>2. IInv /\ [Next]_vars =>
          [Orderly' /\ streak'.current < streak.current => DayMissed]_vars
    <2> HIDE DEF DayMissed
    <2> QED BY <1>1
  <1> QED BY <1>2, InitKept, NextKept, PTL DEF Spec, ResetOnlyIfMissed
=============================================================================
