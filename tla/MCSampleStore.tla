---------------------------- MODULE MCSampleStore ----------------------------
(* Model-checking instance of SampleStore: see the .cfg for its bounds. *)
EXTENDS SampleStore
=============================================================================
