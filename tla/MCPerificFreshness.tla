------------------------- MODULE MCPerificFreshness -------------------------
(* Model-checking instance of PerificFreshness: see the .cfg for its bounds. *)
EXTENDS PerificFreshness

Dates == (-Horizon) .. Ahead

(* The export counter stands still; the import counter may start again. *)
ImportPackets == {s \in EntrySample : s.export_energy_kwh = 0}
=============================================================================
