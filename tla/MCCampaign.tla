------------------------------ MODULE MCCampaign ------------------------------
(* Model-checking instances of Campaign.  Posts and handlers are model     *)
(* values; no symmetry is used, since the runs check liveness.             *)
EXTENDS Campaign
=============================================================================
