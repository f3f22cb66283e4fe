--------------------------- MODULE MCContributions ---------------------------
(* Model-checking instance of Contributions: two users with a submission   *)
(* each.  The seven cents of a payment do not divide evenly.               *)
EXTENDS Contributions

SubmissionOwner == <<1, 2>>
\* The second user supports every cause.
CausePreferences == <<{2}, {}>>
ReviewVerdicts ==
  {[status |-> "rejected", points |-> {}], [status |-> "approved", points |-> {3}]}
=============================================================================
