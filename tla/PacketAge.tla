------------------------------ MODULE PacketAge ------------------------------
(***************************************************************************)
(* The freshness test of the client (api.py): a packet is stale when its   *)
(* timestamp is more than the greatest age away from the clock, on either  *)
(* side.  The client applies it at the instant an answer has come in.      *)
(***************************************************************************)
EXTENDS GridPowerMeter

CONSTANT MaxAge  \* MAX_PHASE_MINUTE_PACKET_AGE_SECONDS

ASSUME AgeAssumption == MaxAge \in Nat /\ None \notin Nat

(* only packets of the past can be stale *)
StaleIfOld(ts, maxAge, at) == maxAge # None /\ at - ts > maxAge

(* _raise_if_stale *)
Stale(ts, maxAge, at) == maxAge # None /\ (ts > at + maxAge \/ at - ts > maxAge)
=============================================================================
