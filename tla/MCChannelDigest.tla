---------------------------- MODULE MCChannelDigest ----------------------------
(* Model-checking instance of ChannelDigest.  Workers are model values; no *)
(* symmetry is used, since the run checks liveness.                        *)
EXTENDS ChannelDigest
=============================================================================
