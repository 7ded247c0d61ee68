----------------------- MODULE MCGridPowerAccumulator -----------------------
(* Model-checking instance of GridPowerAccumulator: see the .cfg for bounds. *)
EXTENDS GridPowerAccumulator
=============================================================================
