---------------------------- MODULE StreakCalendar ----------------------------
(***************************************************************************)
(* The calendar of reading streaks.  A day is a number, day 0 being a      *)
(* Sunday, in the time zone of the reader.  The week of a reader starts on *)
(* Sunday or on Monday, and the two days before its first day are its      *)
(* weekend: nobody has to read then.                                       *)
(***************************************************************************)
EXTENDS Integers

CONSTANT WeekStart \* the weekday a reader's week starts on

Sunday == 0
Monday == 1

ASSUME WeekStartAssumption == WeekStart \in {Sunday, Monday}

FREEZE_DAYS_IN_A_WEEK == 2
MISSED_LIMIT == 1
STREAK_RECOVERY_MAX_GAP_DAYS == 2

Weekday(d) == d % 7

FirstDayOfWeek == WeekStart
LastDayOfWeek == (WeekStart + 6) % 7

getWeekendDays == {(LastDayOfWeek + 6) % 7, LastDayOfWeek}
IsWeekend(d) == Weekday(d) \in getWeekendDays

-----------------------------------------------------------------------------
\* Mutant of getStreakGraceDays: a day more after the weekend.
GraceTooLong(day) == IF day = FirstDayOfWeek THEN 4 ELSE IF day = LastDayOfWeek THEN 2 ELSE 1

getStreakGraceDays(day) ==
  CASE day = LastDayOfWeek -> FREEZE_DAYS_IN_A_WEEK
    [] day = FirstDayOfWeek -> FREEZE_DAYS_IN_A_WEEK + MISSED_LIMIT
    [] OTHER -> MISSED_LIMIT

\* Whether a streak last updated on day `last` has to be reset on `today`.
shouldResetStreak(today, last) == today - last > getStreakGraceDays(Weekday(today))

\* The days that need a freeze for the streak to survive.
getMissedStreakDays(today, last) == {d \in (last + 1)..(today - 1) : ~IsWeekend(d)}

-----------------------------------------------------------------------------
\* How many days back the last view must be for a streak to be restored.
getAllowedDays(today, last) ==
  LET day == Weekday(today)
      lastViewDay == Weekday(last)
      secondDayOfWeek == (FirstDayOfWeek + 1) % 7
      dayOneWeekend == (LastDayOfWeek + 6) % 7
  IN IF lastViewDay = LastDayOfWeek \/ day = LastDayOfWeek \/ day > secondDayOfWeek
     THEN STREAK_RECOVERY_MAX_GAP_DAYS
     ELSE STREAK_RECOVERY_MAX_GAP_DAYS
            + (IF day # FirstDayOfWeek /\ lastViewDay = dayOneWeekend
               THEN FREEZE_DAYS_IN_A_WEEK - 1 ELSE FREEZE_DAYS_IN_A_WEEK)

checkRestoreValidity(today, last) == today - last = getAllowedDays(today, last)

\* A restore offered on `today` lasts until the next day that is no weekend,
\* or, on a weekend, until the second day of the week is due.
getNextWeekday(today) ==
  IF ~IsWeekend(today) THEN today + 1
  ELSE LET target == (FirstDayOfWeek + 1) % 7 \* nextMonday, nextTuesday
       IN CHOOSE d \in (today + 1)..(today + 7) : Weekday(d) = target
=============================================================================
