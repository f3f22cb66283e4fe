----------------------------- MODULE MCCoresAward -----------------------------
(* Model-checking instances of CoresAward: u1 and u3 award the post of u2, *)
(* the squad u2 administers, or u2's profile.                              *)
EXTENDS CoresAward

CONSTANTS u1, u2, u3, p1, s1, f1

MCReceiver == [t \in Targets |-> u2]
=============================================================================
