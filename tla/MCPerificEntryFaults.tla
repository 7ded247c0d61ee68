------------------------ MODULE MCPerificEntryFaults ------------------------
(* Model-checking instance of PerificEntryFaults: see the .cfg for bounds. *)
EXTENDS PerificEntryFaults
=============================================================================
