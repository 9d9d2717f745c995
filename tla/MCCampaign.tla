----------------------------- MODULE MCCampaign -----------------------------
(* Small instances of Campaign. *)
EXTENDS Campaign

CONSTANTS r1, r2
=============================================================================
