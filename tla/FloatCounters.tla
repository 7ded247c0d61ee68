--------------------------- MODULE FloatCounters ---------------------------
(***************************************************************************)
(* The accumulator (meter.py) and the storage format (store.py) with the   *)
(* floats they really hold.  json.loads takes NaN and numbers too large    *)
(* for a float, and so does _require_number; such counters go through      *)
(* calculate_grid_power_w, become baselines and are saved.  The dictionary *)
(* keeps them; in the file Home Assistant's JSON writer puts null.  The    *)
(* file may also be one that an older version or a person has written.     *)
(*                                                                         *)
(* The entry's own meter sends its samples in any order; the file may hold *)
(* a sample of another one.  Whether a reading is a number is all that is  *)
(* kept of its power: GridPowerMeter has the rest.                         *)
(***************************************************************************)
EXTENDS Integers

CONSTANTS
    Items,      \* item ids: strings
    Item,       \* the one of this entry's meter
    Counts,     \* the finite values of a counter
    Instants,   \* timestamps
    Given,      \* the samples the cloud sends
    Window,     \* MAX_POWER_DELTA_SECONDS
    NaN, Infinity,
    Malformed,  \* a JSON value that is not of the type asked for, null included
    OtherKeys,  \* something stored that is no mapping of the sample's keys
    None        \* Python's None

Floats == Counts \cup {NaN, Infinity}

Sample == [item_id : Items, import_energy_kwh : Floats, export_energy_kwh : Floats,
           timestamp : Instants]

(* a reading, of which only the date is kept and whether it is a number *)
Reading == [timestamp : Instants, number : BOOLEAN]

(* a mapping of the sample's keys, as it may be found in the file *)
Stored == [item_id           : Items \cup {Malformed},
           import_energy_kwh : Floats \cup {Malformed},
           export_energy_kwh : Floats \cup {Malformed},
           timestamp         : Instants \cup {Malformed}]

ASSUME FloatAssumption ==
    /\ Item \in Items
    /\ Counts \subseteq Int /\ Instants \subseteq Int /\ Window \in Nat
    /\ {NaN, Infinity, Malformed} \cap (Counts \cup Instants \cup Items) = {}
    /\ Malformed \notin {NaN, Infinity}
    /\ None \notin Sample /\ None \notin Reading
    /\ {None, OtherKeys} \cap Stored = {}
    /\ Given \subseteq {s \in Sample : s.item_id = Item}

VARIABLES
    obj,     \* the accumulator object
    slot,    \* this entry's value in the store's dictionary
    file,    \* and in the storage file
    own,     \* history: this program has written the file
    prev,    \* history: the last sample given
    run,     \* history: how many good samples came in a row, at most 3
    reading  \* history: what the last update returned

vars == <<obj, slot, file, own, prev, run, reading>>

-----------------------------------------------------------------------------
(* calculate_grid_power_w: comparisons with NaN are false, and the         *)
(* difference of two infinities is NaN.                                    *)

NoDifference(x, y) == NaN \in {x, y} \/ (x = Infinity /\ y = Infinity)

Fell(from, to) ==
    /\ ~NoDifference(from, to)
    /\ from = Infinity \/ (to # Infinity /\ to < from)

Decreased(previous, current) ==
    \/ Fell(previous.import_energy_kwh, current.import_energy_kwh)
    \/ Fell(previous.export_energy_kwh, current.export_energy_kwh)

DeltaError(previous, current) ==
    LET elapsed == current.timestamp - previous.timestamp
    IN IF current.item_id # previous.item_id THEN "item id"
       ELSE IF elapsed <= 0 THEN "timestamp"
       ELSE IF elapsed > Window THEN "window exceeded"
       ELSE IF Decreased(previous, current) THEN "counter decreased"
       ELSE "no error"

Finite(s) == {s.import_energy_kwh, s.export_energy_kwh} \subseteq Counts

ReadingFrom(previous, s) ==
    [timestamp |-> s.timestamp, number |-> Finite(previous) /\ Finite(s)]

(* PerificGridPowerAccumulator: the object after a call, and what it returned *)
NewAccumulator(s) == [candidate |-> None, last_data |-> None, last_sample |-> s]

Returned(object, data) == [acc |-> object, data |-> data]

PublishDelta(previous, s) ==
    Returned([NewAccumulator(s) EXCEPT !.last_data = ReadingFrom(previous, s)],
             ReadingFrom(previous, s))

Candidate(object, s) ==
    Returned([object EXCEPT !.candidate = s, !.last_data = None], None)

(* a second decrease does not replace the candidate *)
KeepFirstCandidate(object, s) ==
    LET candidate == object.candidate
    IN IF candidate = None THEN Candidate(object, s)
       ELSE IF DeltaError(candidate, s) = "no error" THEN PublishDelta(candidate, s)
       ELSE Returned(object, None)

HandleCounterDecrease(object, s) ==
    LET candidate == object.candidate
    IN IF candidate = None \/ DeltaError(candidate, s) = "counter decreased"
       THEN Candidate(object, s)
       ELSE IF DeltaError(candidate, s) = "no error"
       THEN PublishDelta(candidate, s)
       ELSE Returned(object, None)

Update(object, s) ==
    LET last == object.last_sample
    IN IF last = None \/ s.timestamp = last.timestamp THEN Returned(NewAccumulator(s), None)
       ELSE CASE DeltaError(last, s) = "no error"          -> PublishDelta(last, s)
              [] DeltaError(last, s) = "window exceeded"   -> Returned(NewAccumulator(s), None)
              [] DeltaError(last, s) = "counter decreased" -> HandleCounterDecrease(object, s)
              [] DeltaError(last, s) \in {"timestamp", "item id"} -> Returned(object, None)

-----------------------------------------------------------------------------
(* store.py *)

(* one counter saved as both *)
ToStorageImportOnly(s) ==
    [item_id           |-> s.item_id,
     import_energy_kwh |-> s.import_energy_kwh,
     export_energy_kwh |-> s.import_energy_kwh,
     timestamp         |-> s.timestamp]

ToStorage(s) ==
    [item_id           |-> s.item_id,
     import_energy_kwh |-> s.import_energy_kwh,
     export_energy_kwh |-> s.export_energy_kwh,
     timestamp         |-> s.timestamp]

(* _sample_from_storage *)
FromStorage(stored) ==
    IF stored \in {None, OtherKeys} THEN None
    ELSE IF Malformed \in {stored[key] : key \in DOMAIN stored} THEN None
    ELSE [item_id           |-> stored.item_id,
          import_energy_kwh |-> stored.import_energy_kwh,
          export_energy_kwh |-> stored.export_energy_kwh,
          timestamp         |-> stored.timestamp]

(* what the JSON writer makes of the dictionary's value *)
Json(stored) ==
    [key \in DOMAIN stored |->
        IF stored[key] \in {NaN, Infinity} THEN Malformed ELSE stored[key]]

-----------------------------------------------------------------------------
(* A run of good samples starts with one newer than all the object holds,  *)
(* and goes on with samples from which the one before can be subtracted.   *)
NewerThanHeld(s) ==
    \A held \in {obj.last_sample, obj.candidate} \ {None} : s.timestamp > held.timestamp

RunAfter(s) ==
    IF ~Finite(s) THEN 0
    ELSE IF run > 0 /\ DeltaError(prev, s) = "no error"
    THEN IF run < 3 THEN run + 1 ELSE 3
    ELSE IF NewerThanHeld(s) THEN 1
    ELSE 0

Init ==
    /\ file \in {s \in Stored : {s.import_energy_kwh, s.export_energy_kwh}
                                    \cap {NaN, Infinity} = {}} \cup {OtherKeys, None}
    /\ slot = file
    /\ obj = NewAccumulator(FromStorage(slot))
    /\ own = FALSE
    /\ prev = None /\ run = 0 /\ reading = None

Save(s) == slot' = ToStorage(s) /\ file' = Json(slot') /\ own' = TRUE

(* one refresh: the sample is saved if it has become the baseline *)
Receive(s) ==
    LET update == Update(obj, s)
    IN /\ obj' = update.acc
       /\ reading' = update.data
       /\ prev' = s
       /\ run' = RunAfter(s)
       /\ IF /\ update.acc.last_sample = s
             /\ \/ update.acc.last_sample # obj.last_sample
                \/ update.acc.last_data # obj.last_data
          THEN Save(s)
          ELSE UNCHANGED <<slot, file, own>>

(* a refresh whose packet is stale *)
ClearStale ==
    /\ obj' = [obj EXCEPT !.last_data = None]
    /\ prev' = None /\ run' = 0 /\ reading' = None
    /\ IF obj.last_sample # None /\ obj.last_data # None
       THEN Save(obj.last_sample)
       ELSE UNCHANGED <<slot, file, own>>

(* the entry is set up again, in the same process or in a new one *)
Reload ==
    /\ obj' = NewAccumulator(FromStorage(slot))
    /\ prev' = None /\ run' = 0 /\ reading' = None
    /\ UNCHANGED <<slot, file, own>>

Restart ==
    /\ slot' = file
    /\ obj' = NewAccumulator(FromStorage(slot'))
    /\ prev' = None /\ run' = 0 /\ reading' = None
    /\ UNCHANGED <<file, own>>

Next == (\E s \in Given : Receive(s)) \/ ClearStale \/ Reload \/ Restart

Spec == Init /\ [][Next]_vars

-----------------------------------------------------------------------------
(* Properties *)

(* A restart finds the baseline it had, with the counters in their places, *)
(* unless a counter was no number: it then finds none, and not a half of   *)
(* the sample.                                                             *)
RestartKeepsBaseline ==
    own => FromStorage(file) =
              IF obj.last_sample # None /\ Finite(obj.last_sample)
              THEN obj.last_sample ELSE None

(* A baseline of another meter, which only the file can have brought: no   *)
(* sample of this one can be subtracted from it.                           *)
ForeignBaseline == obj.last_sample # None /\ obj.last_sample.item_id # Item

(* Counters that are no numbers are passed on as powers that are none, but *)
(* they do not stick: whatever the cloud sent before, and whatever else    *)
(* the file held, the third of three good samples is published as a        *)
(* number.  One thing does stick: another meter's sample, found in the     *)
(* file before this program first wrote it.  Every refresh then fails on   *)
(* the item id, unless its sample is dated as that one and replaces it.    *)
NumbersComeBack ==
    run = 3 => \/ reading # None /\ reading.number
               \/ ForeignBaseline /\ ~own
=============================================================================
