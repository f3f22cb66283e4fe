------------------------------- MODULE MCQuests -------------------------------
(* Model-checking instance of Quests: two rotating quests, of which the    *)
(* first needs two events and can lose one, and a milestone of one claim.  *)
EXTENDS Quests

CONSTANTS first, second

FirstEvents == {<<first, 1, 1>>, <<first, 2, 1>>}
Targets == [q \in Quests |-> IF q = first THEN 2 ELSE 1]
AllEvents == FirstEvents \cup {<<first, 3, -1>>, <<second, 1, 1>>}
=============================================================================
