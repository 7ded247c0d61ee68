--------------------------- MODULE MCPerificEntry ---------------------------
(* Model-checking instance of PerificEntry: see the .cfg for its bounds. *)
EXTENDS PerificEntry
=============================================================================
