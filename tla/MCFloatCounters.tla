-------------------------- MODULE MCFloatCounters --------------------------
(* Model-checking instance of FloatCounters: one counter that may be any   *)
(* float, beside one that is a number; the file may hold either item id.   *)
EXTENDS FloatCounters

GivenSamples == {s \in Sample : s.item_id = Item /\ s.export_energy_kwh \in Counts}
=============================================================================
