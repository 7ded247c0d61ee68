------------------------------ MODULE MeterFeed ------------------------------
(***************************************************************************)
(* The accumulator behind a real meter: a meter that counts energy in and  *)
(* out, one PhaseMinute packet a minute, and a cloud that may hand any     *)
(* packet of the past to the integration, again and in any order.  The     *)
(* meter's counters may start again from zero (a reset or a new meter).    *)
(* Against it one can say what a published power is worth.                 *)
(*                                                                         *)
(* The meter and the cloud are outside the repository; docs/api-           *)
(* verification.md describes hwi and hwo as cumulative counters.           *)
(***************************************************************************)
EXTENDS GridPowerAccumulator, Sequences

CONSTANTS
    Item,       \* the meter
    Start,      \* its import counter at first
    MaxUse,     \* the most energy a minute can add to either counter
    MaxMinutes  \* bound: the number of packets

ASSUME FeedAssumption ==
    /\ Item \in Items
    /\ Start \in Nat /\ MaxUse \in Nat /\ MaxMinutes \in Nat \ {0}
    /\ 0 .. Start + MaxMinutes * MaxUse \subseteq Energies
    /\ 1 .. MaxMinutes \subseteq Timestamps

VARIABLES
    packets,  \* the packets so far: packet t has timestamp t
    energy    \* the true net energy at each packet, resets left aside

feedVars == <<vars, packets, energy>>

Packet(t, imported, exported) ==
    [item_id |-> Item, import_energy_kwh |-> imported,
     export_energy_kwh |-> exported, timestamp |-> t]

FeedInit ==
    /\ Init /\ acc = NewAccumulator(None)
    /\ packets = <<Packet(1, Start, 0)>>
    /\ energy = <<0>>

LastPacket == packets[Len(packets)]

(* A minute in which the meter took in and gave out some energy.  A reset  *)
(* within the minute must show: the counter it drops is higher than any    *)
(* counter can climb within the window.                                    *)
Minute(used, given, reset) ==
    /\ Len(packets) < MaxMinutes
    /\ reset => LastPacket.import_energy_kwh > MaxElapsed * MaxUse
    /\ packets' = Append(packets,
            Packet(Len(packets) + 1,
                   (IF reset THEN 0 ELSE LastPacket.import_energy_kwh) + used,
                   (IF reset THEN 0 ELSE LastPacket.export_energy_kwh) + given))
    /\ energy' = Append(energy, energy[Len(energy)] + used - given)
    /\ UNCHANGED vars

(* the cloud's answer is a packet of any minute, or one too old to be used *)
Deliver(t)   == Receive(packets[t]) /\ UNCHANGED <<packets, energy>>
DeliverStale == ClearStale /\ UNCHANGED <<packets, energy>>

FeedNext ==
    \/ \E used, given \in 0 .. MaxUse, reset \in BOOLEAN : Minute(used, given, reset)
    \/ \E t \in 1 .. Len(packets) : Deliver(t)
    \/ DeliverStale

FeedSpec == FeedInit /\ [][FeedNext]_feedVars

-----------------------------------------------------------------------------
(* Properties *)

(* The types of the meter's history and of the accumulator. *)
FeedTypeOK ==
    /\ TypeOK
    /\ Len(packets) \in 1 .. MaxMinutes /\ Len(energy) = Len(packets)
    /\ \A t \in 1 .. Len(packets) : packets[t] \in Sample /\ packets[t].timestamp = t

(* A published power is the net energy that really passed the meter during *)
(* the minutes it is computed over, whichever packets were delivered late, *)
(* twice or never, and even right after the counters started again.        *)
TruePower ==
    outcome.data # None =>
        LET to   == outcome.data.timestamp
            from == to - outcome.data.grid_power_w.elapsed
        IN outcome.data.grid_power_w.net = energy[to] - energy[from]
=============================================================================
