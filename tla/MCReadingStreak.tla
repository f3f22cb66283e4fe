---------------------------- MODULE MCReadingStreak ----------------------------
(* Model-checking instance of ReadingStreak: a reader who starts on a      *)
(* Thursday, over a weekend, with at most one freeze at first.            *)
EXTENDS ReadingStreak, TLC

Held == {0, 1}
=============================================================================
