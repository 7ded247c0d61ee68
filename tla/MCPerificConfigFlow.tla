------------------------- MODULE MCPerificConfigFlow -------------------------
(* Model-checking instance of PerificConfigFlow: see the .cfg for its bounds. *)
EXTENDS PerificConfigFlow, TLC

Symmetry == Permutations(Users) \cup Permutations(Items)
            \cup Permutations(Entries) \cup Permutations(Flows)
=============================================================================
