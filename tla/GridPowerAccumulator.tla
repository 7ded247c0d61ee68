------------------------ MODULE GridPowerAccumulator ------------------------
(***************************************************************************)
(* One PerificGridPowerAccumulator given any samples in any order: late,   *)
(* repeated, corrected, of a reset counter, or of another meter.  The      *)
(* coordinator is reduced to its two uses of the object, update(sample)    *)
(* and the clearing of last_data when the cloud's packet is stale.         *)
(***************************************************************************)
EXTENDS GridPowerMeter

VARIABLES
    acc,      \* the object
    outcome,  \* what the last update returned or raised
    shown,    \* history: timestamp of the last reading returned, or None
    prev,     \* history: the last sample given, or None
    repeats,  \* history: 1 once a reading was not newer than the one before it
    run       \* history: how many samples in a row were in good order, at most 3

vars == <<acc, outcome, shown, prev, repeats, run>>

Outcome == [data : Data \cup {None}, field : Fields]

(* What makes a packet good after another one: the same meter, later by no *)
(* more than the window, its edge included, and counters that did not      *)
(* fall.                                                                   *)
Follows(p, s) ==
    /\ s.item_id = p.item_id
    /\ s.timestamp - p.timestamp \in 1 .. MaxElapsed
    /\ s.import_energy_kwh >= p.import_energy_kwh
    /\ s.export_energy_kwh >= p.export_energy_kwh

(* A run of good samples starts with one newer than everything the object  *)
(* holds and goes on while each follows the one before.                    *)
NewerThanHeld(s) ==
    /\ acc.last_sample # None =>
          /\ s.item_id = acc.last_sample.item_id
          /\ s.timestamp > acc.last_sample.timestamp
    /\ acc.counter_reset_candidate # None =>
          s.timestamp > acc.counter_reset_candidate.timestamp

RunAfter(s) ==
    IF run > 0 /\ Follows(prev, s)
    THEN IF run < 3 THEN run + 1 ELSE 3
    ELSE IF run > 0 /\ s = prev THEN run
    ELSE IF NewerThanHeld(s) THEN 1
    ELSE 0

Init ==
    /\ \E s \in Sample \cup {None} : acc = NewAccumulator(s)
    /\ outcome = [data |-> None, field |-> NoError]
    /\ shown = None
    /\ prev = None
    /\ repeats = 0
    /\ run = 0

Receive(s) ==
    LET result == Update(acc, s)
    IN /\ acc' = result.acc
       /\ outcome' = [data |-> result.data, field |-> result.field]
       /\ shown' = IF result.data # None THEN result.data.timestamp ELSE shown
       /\ prev' = s
       /\ repeats' = IF /\ result.data # None
                         /\ shown # None
                         /\ result.data.timestamp <= shown
                      THEN 1 ELSE repeats
       /\ run' = RunAfter(s)

(* the packet was stale: _async_clear_stale_grid_power, and no update *)
ClearStale ==
    /\ acc' = [acc EXCEPT !.last_data = None]
    /\ outcome' = [data |-> None, field |-> NoError]
    /\ UNCHANGED <<shown, prev, repeats, run>>

Next ==
    \/ \E s \in Sample : Receive(s)
    \/ ClearStale

Spec == Init /\ [][Next]_vars

-----------------------------------------------------------------------------
(* Properties *)

(* The types of the object and of the history variables. *)
TypeOK ==
    /\ acc \in Accumulator
    /\ outcome \in Outcome
    /\ shown \in Timestamps \cup {None}
    /\ prev \in Sample \cup {None}
    /\ repeats \in 0 .. 1
    /\ run \in 0 .. 3

(* After any sequence of calls, a pending counter-reset candidate is one   *)
(* the baseline rejects for its counters only.  So the comparison with the *)
(* candidate in _handle_counter_decrease never meets another meter or an   *)
(* overlong window, the two errors it would raise without a new baseline.  *)
CandidateInv == CandidateOf(acc)

(* After any sequence of calls, a reading in last_data is ready and is the *)
(* reading of the baseline sample, taken over no more than the window.     *)
ReadingInv == ReadingOf(acc)

(* The accumulator's baseline (last_sample) never goes back in time:        *)
(* whatever arrives late is refused.  It passes to another meter only by a *)
(* sample with the baseline's own timestamp: update compares timestamps    *)
(* before calculate_grid_power_w compares meters.                          *)
BaselineOnlyAdvances ==
    [][acc.last_sample # None =>
          /\ acc'.last_sample # None
          /\ acc'.last_sample.timestamp >= acc.last_sample.timestamp
          /\ \/ acc'.last_sample.item_id = acc.last_sample.item_id
             \/ acc'.last_sample.timestamp = acc.last_sample.timestamp]_vars

(* No source timestamp is returned as a reading twice, and none older than *)
(* a reading returned before it (README: "Repeated Perific source          *)
(* timestamps are treated as waiting").                                    *)
PublishedOnce == repeats = 0

(* Inside the window the baseline passes to lower counters only on two     *)
(* samples that agree with each other (docs/api-verification.md: "Counter  *)
(* decreases start a new candidate baseline and require another monotonic  *)
(* sample"): one glitch never displaces it.                                *)
ResetNeedsTwoSamples ==
    [][/\ acc.last_sample # None
       /\ DeltaError(acc.last_sample, acc'.last_sample) = CounterDecreased
       => /\ acc.counter_reset_candidate # None
          /\ DeltaError(acc.counter_reset_candidate, acc'.last_sample) = NoError]_vars

(* Recovery: whatever happened before (gap, reset, glitch, late packets),  *)
(* the third sample of a run in good order is published, repeats between   *)
(* them notwithstanding.                                                   *)
RecoversWithinThree ==
    [][run' = 3 /\ prev' # prev => outcome'.data # None]_vars
=============================================================================
