---------------------------- MODULE MCInterestRun ----------------------------
(* Model-checking instances of InterestRun.  Workers, runs and posts are   *)
(* model values; no symmetry is used, since the runs check liveness.       *)
EXTENDS InterestRun
=============================================================================
