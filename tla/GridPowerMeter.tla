--------------------------- MODULE GridPowerMeter ---------------------------
(***************************************************************************)
(* The grid-power arithmetic of custom_components/perific/meter.py: what   *)
(* PerificGridPowerAccumulator.update makes of one sample.  Everything     *)
(* here is an operator on values, so that the accumulator on its own, the  *)
(* meter that feeds it and the config entry that polls for it share it.    *)
(*                                                                         *)
(* Energies are the two cumulative counters in counter units (the code has *)
(* kWh floats) and timestamps the packet's "ts" in time units (the code    *)
(* has milliseconds): only order and difference of either are ever used.   *)
(* A power is kept as the fraction it is computed from, a net energy over  *)
(* an elapsed time, instead of its rounded quotient in watts.              *)
(***************************************************************************)
EXTENDS Integers

CONSTANTS
    Items,       \* meter identifiers, ItemId in the API
    Energies,    \* values of a counter
    Timestamps,  \* values of a packet's ts
    MaxElapsed,  \* MAX_POWER_DELTA_SECONDS
    None         \* Python's None

-----------------------------------------------------------------------------
(* PerificMeterSample and PerificMeterData. *)

Sample == [item_id : Items, import_energy_kwh : Energies,
           export_energy_kwh : Energies, timestamp : Timestamps]

Power == [net : Int, elapsed : Nat \ {0}]

Ready            == "ready"
BaselineRequired == "baseline_required"
StalePhaseMinute == "stale_phase_minute"
Statuses == {Ready, BaselineRequired, StalePhaseMinute}

Data == [item_id : Items, grid_power_w : Power \cup {None},
         timestamp : Timestamps, status : Statuses]

(* PerificGridPowerAccumulator *)
Accumulator == [counter_reset_candidate : Sample \cup {None},
                last_data               : Data \cup {None},
                last_sample             : Sample \cup {None}]

ASSUME NumbersAssumption ==
    /\ Energies \subseteq Int
    /\ Timestamps \subseteq Int
    /\ MaxElapsed \in Nat

ASSUME NoneAssumption ==
    /\ None \notin Sample
    /\ None \notin Data
    /\ None \notin Accumulator
    /\ None \notin Power

-----------------------------------------------------------------------------
(* calculate_grid_power_w: the field of the PerificDataError it raises, or *)
(* NoError and the power.                                                  *)

NoError          == "no error"
ItemIdField      == "ItemId"
TimestampField   == "LatestPackets.PhaseMinute.ts"
WindowExceeded   == "LatestPackets.PhaseMinute.ts.elapsed"
CounterDecreased == "LatestPackets.PhaseMinute.data"
Fields == {NoError, ItemIdField, TimestampField, WindowExceeded, CounterDecreased}

Elapsed(previous, current) == current.timestamp - previous.timestamp

Decreased(previous, current) ==
    \/ current.import_energy_kwh < previous.import_energy_kwh
    \/ current.export_energy_kwh < previous.export_energy_kwh

DeltaError(previous, current) ==
    IF current.item_id # previous.item_id THEN ItemIdField
    ELSE IF Elapsed(previous, current) <= 0 THEN TimestampField
    ELSE IF Elapsed(previous, current) > MaxElapsed THEN WindowExceeded
    ELSE IF Decreased(previous, current) THEN CounterDecreased
    ELSE NoError

(* the power of the samples the other way round *)
SwappedPower(previous, current) ==
    [net     |-> (previous.import_energy_kwh - current.import_energy_kwh)
                 - (previous.export_energy_kwh - current.export_energy_kwh),
     elapsed |-> Elapsed(current, previous)]

(* export added instead of subtracted *)
GrossPower(previous, current) ==
    [net     |-> (current.import_energy_kwh - previous.import_energy_kwh)
                 + (current.export_energy_kwh - previous.export_energy_kwh),
     elapsed |-> Elapsed(previous, current)]

GridPower(previous, current) ==
    [net     |-> (current.import_energy_kwh - previous.import_energy_kwh)
                 - (current.export_energy_kwh - previous.export_energy_kwh),
     elapsed |-> Elapsed(previous, current)]

-----------------------------------------------------------------------------
(* One call of the accumulator: its state afterwards, the data it returns  *)
(* and the field of the error it raises.                                   *)

Returned(acc, data) == [acc |-> acc, data |-> data, field |-> NoError]
Raised(acc, field)  == [acc |-> acc, data |-> None, field |-> field]

NewAccumulator(sample) ==
    [counter_reset_candidate |-> None, last_data |-> None, last_sample |-> sample]

ReadingFrom(previous, sample) ==
    [item_id |-> sample.item_id, grid_power_w |-> GridPower(previous, sample),
     timestamp |-> sample.timestamp, status |-> Ready]

PublishDelta(acc, previous, sample) ==
    Returned([counter_reset_candidate |-> None,
              last_data               |-> ReadingFrom(previous, sample),
              last_sample             |-> sample],
             ReadingFrom(previous, sample))

(* the candidate survives the new baseline *)
ResetKeepingCandidate(acc, sample) ==
    Returned([acc EXCEPT !.last_sample = sample, !.last_data = None], None)

(* the reading survives the new baseline *)
ResetKeepingReading(acc, sample) ==
    Returned([acc EXCEPT !.counter_reset_candidate = None, !.last_sample = sample], None)

ResetBaseline(acc, sample) == Returned(NewAccumulator(sample), None)

NewCandidate(acc, sample) ==
    Returned([counter_reset_candidate |-> sample,
              last_data               |-> None,
              last_sample             |-> acc.last_sample], None)

(* a decrease becomes the baseline at once, without a second sample *)
TrustCounterDecrease(acc, sample) == ResetBaseline(acc, sample)

(* a second decrease is ignored instead of replacing the candidate *)
KeepFirstCandidate(acc, sample) ==
    LET candidate == acc.counter_reset_candidate
    IN IF candidate # None
       THEN IF DeltaError(candidate, sample) = NoError
            THEN PublishDelta(acc, candidate, sample)
            ELSE Returned(acc, None)
       ELSE NewCandidate(acc, sample)

HandleCounterDecrease(acc, sample) ==
    LET candidate == acc.counter_reset_candidate
        error     == DeltaError(candidate, sample)
    IN IF candidate # None /\ sample.timestamp = candidate.timestamp
       THEN Returned(acc, None)
       ELSE IF candidate # None /\ error = NoError
       THEN PublishDelta(acc, candidate, sample)
       ELSE IF candidate # None /\ error # CounterDecreased
       THEN Raised(acc, error)
       ELSE NewCandidate(acc, sample)

(* a sample that is not newer becomes the baseline instead of an error *)
AcceptAnyOrder(acc, sample) ==
    LET error == DeltaError(acc.last_sample, sample)
    IN IF acc.last_sample = None \/ error \in {TimestampField, WindowExceeded}
       THEN ResetBaseline(acc, sample)
       ELSE IF error = NoError
       THEN PublishDelta(acc, acc.last_sample, sample)
       ELSE HandleCounterDecrease(acc, sample)

(* a sample past the window is an error and no new baseline *)
KeepBaselinePastWindow(acc, sample) ==
    LET error == DeltaError(acc.last_sample, sample)
    IN IF acc.last_sample = None \/ sample.timestamp = acc.last_sample.timestamp
       THEN ResetBaseline(acc, sample)
       ELSE IF error = NoError
       THEN PublishDelta(acc, acc.last_sample, sample)
       ELSE IF error = CounterDecreased
       THEN HandleCounterDecrease(acc, sample)
       ELSE Raised(acc, error)

Update(acc, sample) ==
    LET error == DeltaError(acc.last_sample, sample)
    IN IF acc.last_sample = None \/ sample.timestamp = acc.last_sample.timestamp
       THEN ResetBaseline(acc, sample)
       ELSE IF error = NoError
       THEN PublishDelta(acc, acc.last_sample, sample)
       ELSE IF error = WindowExceeded
       THEN ResetBaseline(acc, sample)
       ELSE IF error = CounterDecreased
       THEN HandleCounterDecrease(acc, sample)
       ELSE Raised(acc, error)

-----------------------------------------------------------------------------
(* What the accumulator's three fields promise each other between calls.   *)

(* A pending counter-reset candidate is a sample that the baseline rejects *)
(* for one reason only, a decreased counter: it belongs to the same meter, *)
(* is newer than the baseline and still inside its window.                 *)
CandidateOf(acc) ==
    acc.counter_reset_candidate # None =>
        /\ acc.last_sample # None
        /\ DeltaError(acc.last_sample, acc.counter_reset_candidate) = CounterDecreased
        /\ acc.last_data = None

(* A reading the accumulator holds is the reading of its baseline. *)
ReadingOf(acc) ==
    acc.last_data # None =>
        /\ acc.last_sample # None
        /\ acc.last_data.timestamp = acc.last_sample.timestamp
        /\ acc.last_data.item_id = acc.last_sample.item_id
        /\ acc.last_data.status = Ready
        /\ acc.last_data.grid_power_w # None
        /\ acc.last_data.grid_power_w.elapsed <= MaxElapsed
=============================================================================
