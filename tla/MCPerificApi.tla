---------------------------- MODULE MCPerificApi ----------------------------
(* Model-checking instance of PerificApi: see the .cfg for its bounds. *)
EXTENDS PerificApi
=============================================================================
