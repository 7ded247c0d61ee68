----------------------------- MODULE MCMeterFeed -----------------------------
(* Model-checking instance of MeterFeed: see the .cfg for its bounds. *)
EXTENDS MeterFeed
=============================================================================
