------------------------ MODULE FloatCountersProofs ------------------------
(***************************************************************************)
(* The properties of FloatCounters for every set of counter values and     *)
(* timestamps, every window and every file found at the start; and that    *)
(* its accumulator is the one of GridPowerMeter when counters are finite.  *)
(***************************************************************************)
EXTENDS FloatCounters, TLAPS

Accumulator ==
    [candidate   : Sample \cup {None},
     last_data   : Reading \cup {None},
     last_sample : Sample \cup {None}]

(* the types of the state *)
TypeInv ==
    /\ obj \in Accumulator
    /\ slot \in Stored \cup {None, OtherKeys}
    /\ file \in Stored \cup {None, OtherKeys}
    /\ own \in BOOLEAN
    /\ prev \in Sample \cup {None}
    /\ run \in 0 .. 3
    /\ reading \in Reading \cup {None}

(* A candidate is newer than the baseline, inside its window, and of the   *)
(* entry's meter, as the baseline then is.                                 *)
CandidateInv ==
    obj.candidate # None =>
        /\ obj.last_sample # None
        /\ obj.candidate.item_id = Item /\ obj.last_sample.item_id = Item
        /\ obj.candidate.timestamp > obj.last_sample.timestamp
        /\ obj.candidate.timestamp - obj.last_sample.timestamp <= Window

(* The last sample of a run is the baseline or, if it is the run's first,  *)
(* perhaps the candidate; or else the baseline is another meter's.         *)
RunInv ==
    /\ run > 0 => prev # None /\ Finite(prev) /\ prev.item_id = Item
    /\ run = 1 /\ ~ForeignBaseline => prev \in {obj.last_sample, obj.candidate}
    /\ run > 1 /\ ~ForeignBaseline => prev = obj.last_sample

(* Another meter's baseline was in the file before the program wrote it,   *)
(* and a run only begins with samples newer than it.                       *)
ForeignInv ==
    ForeignBaseline =>
        /\ ~own /\ obj.last_data = None
        /\ run > 0 => prev.timestamp > obj.last_sample.timestamp

(* The dictionary holds the whole baseline; the file does unless a counter *)
(* was no number.                                                          *)
StoreInv ==
    own => FromStorage(slot) = obj.last_sample /\ RestartKeepsBaseline

IInv == TypeInv /\ CandidateInv /\ RunInv /\ ForeignInv /\ StoreInv /\ NumbersComeBack

-----------------------------------------------------------------------------
(* The operators *)

(* Why a sample cannot be subtracted, as far as item id and date tell. *)
LEMMA DeltaErrorFacts ==
    ASSUME NEW previous \in Sample, NEW s \in Sample
    PROVE  /\ DeltaError(previous, s) \in
                  {"item id", "timestamp", "window exceeded", "counter decreased", "no error"}
           /\ DeltaError(previous, s) = "item id" <=> s.item_id # previous.item_id
           /\ DeltaError(previous, s) = "timestamp" =>
                  s.timestamp <= previous.timestamp
           /\ DeltaError(previous, s) = "window exceeded" =>
                  s.timestamp - previous.timestamp > Window
           /\ DeltaError(previous, s) \in {"counter decreased", "no error"} =>
                  /\ s.timestamp > previous.timestamp
                  /\ s.timestamp - previous.timestamp <= Window
<1>1. previous.timestamp \in Int /\ s.timestamp \in Int /\ Window \in Nat
  BY FloatAssumption DEF Sample
<1> QED
  BY <1>1 DEF DeltaError

(* A stored sample is decoded as it was. *)
LEMMA DecodeEncode ==
    ASSUME NEW s \in Sample
    PROVE  ToStorage(s) \in Stored /\ FromStorage(ToStorage(s)) = s
<1> DEFINE stored == ToStorage(s)
<1>1. /\ s.import_energy_kwh \in Floats /\ s.export_energy_kwh \in Floats
      /\ s.timestamp \in Instants /\ s.item_id \in Items
      /\ s = [item_id |-> s.item_id,
              import_energy_kwh |-> s.import_energy_kwh,
              export_energy_kwh |-> s.export_energy_kwh,
              timestamp |-> s.timestamp]
  BY DEF Sample
<1>2. stored \in Stored
  BY <1>1 DEF ToStorage, Stored
<1>3. stored \notin {None, OtherKeys}
  BY <1>2, FloatAssumption
<1>4. Malformed \notin {stored[key] : key \in DOMAIN stored}
  <2>1. /\ s.import_energy_kwh # Malformed /\ s.export_energy_kwh # Malformed
        /\ s.timestamp # Malformed /\ s.item_id # Malformed
    BY <1>1, FloatAssumption DEF Floats
  <2> QED
    BY <2>1 DEF ToStorage
<1>5. /\ stored.import_energy_kwh = s.import_energy_kwh
      /\ stored.export_energy_kwh = s.export_energy_kwh
      /\ stored.timestamp = s.timestamp /\ stored.item_id = s.item_id
  BY DEF ToStorage
<1>6. FromStorage(stored) = s
  BY <1>1, <1>3, <1>4, <1>5 DEF FromStorage
<1> QED
  BY <1>2, <1>6

(* What is read back from the file that a sample was written to. *)
LEMMA DecodeWritten ==
    ASSUME NEW s \in Sample
    PROVE  /\ Json(ToStorage(s)) \in Stored
           /\ FromStorage(Json(ToStorage(s))) = IF Finite(s) THEN s ELSE None
<1> DEFINE stored == ToStorage(s)
           json   == Json(stored)
<1>1. /\ s.import_energy_kwh \in Floats /\ s.export_energy_kwh \in Floats
      /\ s.timestamp \in Instants /\ s.item_id \in Items
  BY DEF Sample
<1>2. s.timestamp \notin {NaN, Infinity}
  BY <1>1, FloatAssumption
<1>3. s.item_id \notin {NaN, Infinity}
  BY <1>1, FloatAssumption
<1>4. json = [item_id           |-> s.item_id,
              import_energy_kwh |-> IF s.import_energy_kwh \in {NaN, Infinity}
                                    THEN Malformed ELSE s.import_energy_kwh,
              export_energy_kwh |-> IF s.export_energy_kwh \in {NaN, Infinity}
                                    THEN Malformed ELSE s.export_energy_kwh,
              timestamp         |-> s.timestamp]
  BY <1>2, <1>3 DEF Json, ToStorage
<1>5. json \in Stored
  BY <1>1, <1>4 DEF Stored
<1>6. CASE Finite(s)
  <2>1. json = stored
    BY <1>4, <1>6, FloatAssumption DEF Finite, ToStorage
  <2> QED
    BY <2>1, <1>5, <1>6, DecodeEncode
<1>7. CASE ~Finite(s)
  <2>1. s.import_energy_kwh \in {NaN, Infinity} \/ s.export_energy_kwh \in {NaN, Infinity}
    BY <1>1, <1>7 DEF Finite, Floats
  <2>2. json.import_energy_kwh = Malformed \/ json.export_energy_kwh = Malformed
    BY <1>4, <2>1
  <2>3. Malformed \in {json[key] : key \in DOMAIN json}
    BY <1>4, <2>2
  <2>4. FromStorage(json) = None
    BY <2>3 DEF FromStorage
  <2> QED
    BY <2>4, <1>5, <1>7
<1> QED
  BY <1>6, <1>7

(* The four things a call of update can do. *)
TakesBaseline(object, s) ==
    /\ Update(object, s) = Returned(NewAccumulator(s), None)
    /\ object.last_sample # None =>
          \/ s.timestamp = object.last_sample.timestamp
          \/ DeltaError(object.last_sample, s) = "window exceeded"

Publishes(object, s) ==
    \E previous \in {object.last_sample, object.candidate} \ {None} :
        /\ Update(object, s) = PublishDelta(previous, s)
        /\ DeltaError(previous, s) = "no error"
        /\ previous # object.last_sample =>
              DeltaError(object.last_sample, s) = "counter decreased"

TakesCandidate(object, s) ==
    /\ Update(object, s) = Candidate(object, s)
    /\ object.last_sample # None
    /\ DeltaError(object.last_sample, s) = "counter decreased"
    /\ object.candidate # None => DeltaError(object.candidate, s) = "counter decreased"

Rejects(object, s) ==
    /\ Update(object, s) = Returned(object, None)
    /\ object.last_sample # None
    /\ \/ DeltaError(object.last_sample, s) \in {"timestamp", "item id"}
       \/ /\ DeltaError(object.last_sample, s) = "counter decreased"
          /\ object.candidate # None
          /\ DeltaError(object.candidate, s) \in {"item id", "timestamp", "window exceeded"}

LEMMA UpdateCases ==
    ASSUME NEW object \in Accumulator, NEW s \in Sample
    PROVE  \/ TakesBaseline(object, s)
           \/ Publishes(object, s)
           \/ TakesCandidate(object, s)
           \/ Rejects(object, s)
<1> DEFINE last == object.last_sample
           candidate == object.candidate
<1>1. last \in Sample \cup {None} /\ candidate \in Sample \cup {None}
  BY DEF Accumulator
<1>2. CASE last = None \/ s.timestamp = last.timestamp
  BY <1>2 DEF Update, TakesBaseline
<1>3. CASE last # None /\ s.timestamp # last.timestamp
  <2>1. last \in Sample
    BY <1>1, <1>3
  <2>2. DeltaError(last, s) \in
            {"item id", "timestamp", "window exceeded", "counter decreased", "no error"}
    BY <2>1, DeltaErrorFacts
  <2>3. CASE DeltaError(last, s) = "no error"
    <3>1. Update(object, s) = PublishDelta(last, s)
      BY <1>3, <2>3 DEF Update
    <3>2. last \in {object.last_sample, object.candidate} \ {None}
      BY <1>3
    <3> QED
      BY <2>3, <3>1, <3>2 DEF Publishes
  <2>4. CASE DeltaError(last, s) = "window exceeded"
    <3>1. Update(object, s) = Returned(NewAccumulator(s), None)
      BY <1>3, <2>4 DEF Update
    <3> QED
      BY <2>4, <3>1 DEF TakesBaseline
  <2>5. CASE DeltaError(last, s) \in {"timestamp", "item id"}
    BY <1>3, <2>5 DEF Update, Rejects
  <2>6. CASE DeltaError(last, s) = "counter decreased"
    <3>1. Update(object, s) = HandleCounterDecrease(object, s)
      BY <1>3, <2>6 DEF Update
    <3>2. CASE candidate = None \/ DeltaError(candidate, s) = "counter decreased"
      BY <1>3, <2>6, <3>1, <3>2 DEF HandleCounterDecrease, TakesCandidate
    <3>3. CASE candidate # None /\ DeltaError(candidate, s) = "no error"
      BY <1>3, <2>6, <3>1, <3>3 DEF HandleCounterDecrease, Publishes
    <3>4. CASE candidate # None
                /\ DeltaError(candidate, s) \in {"item id", "timestamp", "window exceeded"}
      BY <1>3, <2>6, <3>1, <3>4 DEF HandleCounterDecrease, Rejects
    <3>5. candidate = None \/ DeltaError(candidate, s) \in
              {"item id", "timestamp", "window exceeded", "counter decreased", "no error"}
      BY <1>1, DeltaErrorFacts
    <3> QED
      BY <3>2, <3>3, <3>4, <3>5
  <2> QED
    BY <2>2, <2>3, <2>4, <2>5, <2>6
<1> QED
  BY <1>2, <1>3

(* What the object and the data then are. *)
LEMMA FreshFields ==
    ASSUME NEW object \in Accumulator, NEW s \in Sample, TakesBaseline(object, s)
    PROVE  /\ Update(object, s).acc = NewAccumulator(s)
           /\ Update(object, s).data = None
<1>1. Update(object, s) = Returned(NewAccumulator(s), None)
  BY DEF TakesBaseline
<1> QED
  BY <1>1 DEF Returned

LEMMA PublishFields ==
    ASSUME NEW previous, NEW s
    PROVE  PublishDelta(previous, s) =
               [acc  |-> [candidate   |-> None,
                          last_data   |-> ReadingFrom(previous, s),
                          last_sample |-> s],
                data |-> ReadingFrom(previous, s)]
BY DEF PublishDelta, Returned, NewAccumulator

LEMMA CandidateFields ==
    ASSUME NEW object \in Accumulator, NEW s \in Sample, TakesCandidate(object, s)
    PROVE  /\ Update(object, s).acc \in Accumulator
           /\ Update(object, s).acc.candidate = s
           /\ Update(object, s).acc.last_sample = object.last_sample
           /\ Update(object, s).data = None
<1>1. Update(object, s) = Returned([object EXCEPT !.candidate = s, !.last_data = None], None)
  BY DEF TakesCandidate, Candidate
<1>2. /\ Update(object, s).acc = [object EXCEPT !.candidate = s, !.last_data = None]
      /\ Update(object, s).data = None
  BY <1>1 DEF Returned
<1> QED
  BY <1>2 DEF Accumulator

LEMMA RejectFields ==
    ASSUME NEW object \in Accumulator, NEW s \in Sample, Rejects(object, s)
    PROVE  Update(object, s).acc = object /\ Update(object, s).data = None
<1>1. Update(object, s) = Returned(object, None)
  BY DEF Rejects
<1> QED
  BY <1>1 DEF Returned

-----------------------------------------------------------------------------
(* The steps *)

(* A new accumulator, as set-up and restart make it. *)
LEMMA NewFacts ==
    ASSUME NEW s \in Sample \cup {None}
    PROVE  /\ NewAccumulator(s) \in Accumulator
           /\ NewAccumulator(s).candidate = None
           /\ NewAccumulator(s).last_sample = s
           /\ NewAccumulator(s).last_data = None
BY DEF NewAccumulator, Accumulator

(* Whatever is found in a file is decoded to a sample or to nothing. *)
LEMMA DecodeType ==
    ASSUME NEW stored \in Stored \cup {None, OtherKeys}
    PROVE  FromStorage(stored) \in Sample \cup {None}
<1>1. CASE stored \in {None, OtherKeys}
  BY <1>1 DEF FromStorage
<1>2. CASE stored \notin {None, OtherKeys}
  <2>1. stored \in Stored
    BY <1>2
  <2>2. CASE Malformed \in {stored[key] : key \in DOMAIN stored}
    BY <2>2 DEF FromStorage
  <2>3. CASE Malformed \notin {stored[key] : key \in DOMAIN stored}
    <3>1. /\ stored.item_id \in Items
          /\ stored.import_energy_kwh \in Floats
          /\ stored.export_energy_kwh \in Floats
          /\ stored.timestamp \in Instants
      BY <2>1, <2>3 DEF Stored
    <3> QED
      BY <1>2, <2>3, <3>1 DEF FromStorage, Sample
  <2> QED
    BY <2>2, <2>3
<1> QED
  BY <1>1, <1>2

LEMMA InitIInv == Init => IInv
<1> SUFFICES ASSUME Init PROVE IInv
  OBVIOUS
<1>1. file \in Stored \cup {None, OtherKeys} /\ slot = file
  BY DEF Init
<1>2. FromStorage(slot) \in Sample \cup {None}
  BY <1>1, DecodeType
<1>3. TypeInv
  <2>1. obj \in Accumulator
    BY <1>2, NewFacts DEF Init
  <2>2. own = FALSE /\ prev = None /\ run = 0 /\ reading = None
    BY DEF Init
  <2>3. slot \in Stored \cup {None, OtherKeys} /\ file \in Stored \cup {None, OtherKeys}
    BY <1>1
  <2>4. run = 0
    BY <2>2
  <2>5. run \in 0 .. 3
    BY <2>4
  <2>6. own \in BOOLEAN
    BY <2>2
  <2> QED
    BY <2>1, <2>2, <2>3, <2>5, <2>6 DEF TypeInv
<1>4. CandidateInv /\ RunInv /\ ForeignInv /\ StoreInv /\ NumbersComeBack
  BY <1>2, NewFacts
     DEF Init, CandidateInv, RunInv, ForeignInv, StoreInv, NumbersComeBack
<1> QED
  BY <1>3, <1>4 DEF IInv

(* The baseline is saved as it is. *)
LEMMA SaveFacts ==
    ASSUME NEW s \in Sample, Save(s), obj'.last_sample = s
    PROVE  /\ slot' \in Stored /\ file' \in Stored /\ own' \in BOOLEAN
           /\ StoreInv'
<1>1. slot' = ToStorage(s) /\ file' = Json(ToStorage(s)) /\ own' = TRUE
  BY DEF Save
<1>2. s # None
  BY FloatAssumption
<1>3. RestartKeepsBaseline'
  BY <1>1, <1>2, DecodeWritten DEF RestartKeepsBaseline
<1> QED
  BY <1>1, <1>3, DecodeEncode, DecodeWritten DEF StoreInv

LEMMA ClearStaleIInv == IInv /\ ClearStale => IInv'
<1> SUFFICES ASSUME IInv, ClearStale PROVE IInv'
  OBVIOUS
<1>1. /\ obj' \in Accumulator
      /\ obj'.last_sample = obj.last_sample /\ obj'.candidate = obj.candidate
  BY DEF IInv, TypeInv, ClearStale, Accumulator
<1>2. slot' \in Stored \cup {None, OtherKeys} /\ file' \in Stored \cup {None, OtherKeys}
        /\ own' \in BOOLEAN /\ StoreInv'
  <2>1. CASE obj.last_sample # None /\ obj.last_data # None
    <3>1. obj.last_sample \in Sample
      BY <2>1 DEF IInv, TypeInv, Accumulator
    <3> QED
      BY <1>1, <2>1, <3>1, SaveFacts DEF ClearStale
  <2>2. CASE ~(obj.last_sample # None /\ obj.last_data # None)
    BY <1>1, <2>2 DEF ClearStale, IInv, TypeInv, StoreInv, RestartKeepsBaseline
  <2> QED
    BY <2>1, <2>2
<1>3. TypeInv'
  BY <1>1, <1>2 DEF TypeInv, ClearStale
<1>4. CandidateInv' /\ RunInv' /\ NumbersComeBack'
  BY <1>1 DEF IInv, ClearStale, CandidateInv, RunInv, NumbersComeBack
<1>5. ForeignInv'
  <2>1. ForeignBaseline' <=> ForeignBaseline
    BY <1>1 DEF ForeignBaseline
  <2>2. run' = 0 /\ obj'.last_data = None
    BY DEF ClearStale, IInv, TypeInv, Accumulator
  <2>3. ForeignBaseline => own' = own
    BY DEF IInv, ForeignInv, ClearStale
  <2> QED
    BY <2>1, <2>2, <2>3 DEF IInv, ForeignInv
<1> QED
  BY <1>2, <1>3, <1>4, <1>5 DEF IInv

LEMMA ReloadIInv == IInv /\ Reload => IInv'
<1> SUFFICES ASSUME IInv, Reload PROVE IInv'
  OBVIOUS
<1>1. FromStorage(slot) \in Sample \cup {None}
  BY DecodeType DEF IInv, TypeInv
<1>2. TypeInv'
  BY <1>1, NewFacts DEF IInv, TypeInv, Reload
<1>3. CandidateInv' /\ RunInv' /\ NumbersComeBack'
  BY <1>1, NewFacts DEF Reload, CandidateInv, RunInv, NumbersComeBack
<1>4. own => obj'.last_sample = obj.last_sample
  BY <1>1, NewFacts DEF IInv, StoreInv, Reload
<1>5. StoreInv'
  BY <1>4 DEF IInv, StoreInv, RestartKeepsBaseline, Reload
<1>6. ForeignInv'
  <2>1. run' = 0 /\ own' = own /\ obj'.last_data = None
    BY <1>1, NewFacts DEF Reload
  <2>2. own => ~ForeignBaseline'
    BY <1>4 DEF IInv, ForeignInv, ForeignBaseline
  <2> QED
    BY <2>1, <2>2 DEF ForeignInv
<1> QED
  BY <1>2, <1>3, <1>5, <1>6 DEF IInv

LEMMA RestartIInv == IInv /\ Restart => IInv'
<1> SUFFICES ASSUME IInv, Restart PROVE IInv'
  OBVIOUS
<1>1. FromStorage(file) \in Sample \cup {None}
  BY DecodeType DEF IInv, TypeInv
<1>2. obj' = NewAccumulator(FromStorage(file)) /\ slot' = file /\ file' = file /\ own' = own
  BY DEF Restart
<1>3. TypeInv'
  BY <1>1, <1>2, NewFacts DEF IInv, TypeInv, Restart
<1>4. CandidateInv' /\ RunInv' /\ NumbersComeBack'
  BY <1>1, <1>2, NewFacts DEF Restart, CandidateInv, RunInv, NumbersComeBack
<1>5. obj'.last_sample = FromStorage(file)
  BY <1>1, <1>2, NewFacts
<1>6. own => FromStorage(file) =
                IF obj.last_sample # None /\ Finite(obj.last_sample)
                THEN obj.last_sample ELSE None
  BY DEF IInv, StoreInv, RestartKeepsBaseline
<1>7. StoreInv'
  BY <1>2, <1>5, <1>6 DEF StoreInv, RestartKeepsBaseline
<1>8. ForeignInv'
  <2>1. run' = 0 /\ obj'.last_data = None
    BY <1>1, <1>2, NewFacts DEF Restart
  <2>2. own => ~ForeignBaseline'
    BY <1>5, <1>6 DEF IInv, ForeignInv, ForeignBaseline
  <2> QED
    BY <1>2, <2>1, <2>2 DEF ForeignInv
<1> QED
  BY <1>3, <1>4, <1>7, <1>8 DEF IInv

-----------------------------------------------------------------------------
(* One refresh *)

(* Its effect on the store: what is saved is the baseline, and a baseline  *)
(* that is not saved is the one that was.                                  *)
LEMMA ReceiveStore ==
    ASSUME IInv, NEW s \in Sample, Receive(s),
           obj'.last_sample \in {s, obj.last_sample}
    PROVE  /\ slot' \in Stored \cup {None, OtherKeys}
           /\ file' \in Stored \cup {None, OtherKeys}
           /\ own' \in BOOLEAN
           /\ StoreInv'
<1>1. CASE Save(s) /\ obj'.last_sample = s
  BY <1>1, SaveFacts
<1>2. CASE UNCHANGED <<slot, file, own>> /\ obj'.last_sample = obj.last_sample
  BY <1>2 DEF IInv, TypeInv, StoreInv, RestartKeepsBaseline
<1>3. (Save(s) /\ obj'.last_sample = s)
        \/ (UNCHANGED <<slot, file, own>> /\ obj'.last_sample = obj.last_sample)
  BY DEF Receive
<1> QED
  BY <1>1, <1>2, <1>3

(* How the run goes on. *)
LEMMA RunCases ==
    ASSUME NEW s
    PROVE  \/ RunAfter(s) = 0
           \/ RunAfter(s) = 1 /\ Finite(s) /\ NewerThanHeld(s)
           \/ /\ RunAfter(s) = IF run < 3 THEN run + 1 ELSE 3
              /\ Finite(s) /\ run > 0
              /\ DeltaError(prev, s) = "no error"
BY Zenon DEF RunAfter

(* A sample newer than all that is held is taken, as the baseline or as    *)
(* the candidate, unless the baseline is another meter's.                  *)
LEMMA NewerIsTaken ==
    ASSUME IInv, NEW s \in Sample, s.item_id = Item, ~ForeignBaseline, NewerThanHeld(s)
    PROVE  s \in {Update(obj, s).acc.last_sample, Update(obj, s).acc.candidate}
<1>1. obj \in Accumulator
  BY DEF IInv, TypeInv
<1>2. CASE Rejects(obj, s)
  <2>1. obj.last_sample \in Sample /\ obj.last_sample # None
    BY <1>1, <1>2 DEF Rejects, Accumulator
  <2>2. s.timestamp > obj.last_sample.timestamp
    BY <2>1 DEF NewerThanHeld
  <2>3. s.timestamp \in Int /\ obj.last_sample.timestamp \in Int /\ Window \in Nat
    BY <2>1, FloatAssumption DEF Sample
  <2>4. DeltaError(obj.last_sample, s) \notin {"timestamp", "item id"}
    <3>1. DeltaError(obj.last_sample, s) = "timestamp" =>
              s.timestamp <= obj.last_sample.timestamp
      BY <2>1, DeltaErrorFacts
    <3>2. DeltaError(obj.last_sample, s) # "item id"
      BY <2>1, DeltaErrorFacts DEF ForeignBaseline
    <3>3. DeltaError(obj.last_sample, s) # "timestamp"
      BY <2>2, <2>3, <3>1
    <3> QED
      BY <3>2, <3>3
  <2>12. /\ obj.candidate # None
         /\ DeltaError(obj.candidate, s) \in {"item id", "timestamp", "window exceeded"}
         /\ DeltaError(obj.last_sample, s) = "counter decreased"
    BY <1>2, <2>4 DEF Rejects
  <2>6. obj.candidate \in Sample
    BY <1>1, <2>12 DEF Accumulator
  <2>5. /\ obj.candidate # None
        /\ DeltaError(obj.candidate, s) \in {"timestamp", "window exceeded"}
        /\ DeltaError(obj.last_sample, s) = "counter decreased"
    <3>1. DeltaError(obj.candidate, s) # "item id"
      BY <2>6, <2>12, DeltaErrorFacts DEF IInv, CandidateInv
    <3> QED
      BY <2>12, <3>1
  <2>7. obj.candidate.timestamp \in Int
    BY <2>6, FloatAssumption DEF Sample
  <2>8. s.timestamp > obj.candidate.timestamp
    BY <2>5 DEF NewerThanHeld
  <2>9. s.timestamp - obj.candidate.timestamp > Window
    <3>1. DeltaError(obj.candidate, s) = "timestamp" =>
              s.timestamp <= obj.candidate.timestamp
      BY <2>6, DeltaErrorFacts
    <3>2. DeltaError(obj.candidate, s) = "window exceeded" =>
              s.timestamp - obj.candidate.timestamp > Window
      BY <2>6, DeltaErrorFacts
    <3>3. DeltaError(obj.candidate, s) # "timestamp"
      BY <2>3, <2>7, <2>8, <3>1
    <3> QED
      BY <2>5, <3>2, <3>3
  <2>10. s.timestamp - obj.last_sample.timestamp <= Window
    BY <2>1, <2>5, DeltaErrorFacts
  <2>11. obj.candidate.timestamp > obj.last_sample.timestamp
    BY <2>5 DEF IInv, CandidateInv
  <2> QED
    BY <2>3, <2>7, <2>9, <2>10, <2>11
<1>3. CASE TakesBaseline(obj, s)
  BY <1>1, <1>3, FreshFields, NewFacts
<1>4. CASE Publishes(obj, s)
  <2>1. PICK previous : Update(obj, s) = PublishDelta(previous, s)
    BY <1>4 DEF Publishes
  <2>2. Update(obj, s).acc.last_sample = s
    BY <2>1, PublishFields
  <2> QED
    BY <2>2
<1>5. CASE TakesCandidate(obj, s)
  BY <1>1, <1>5, CandidateFields
<1> QED
  BY <1>1, <1>2, <1>3, <1>4, <1>5, UpdateCases

(* What a call leaves: types, and which samples the object then holds. *)
LEMMA UpdateFacts ==
    ASSUME IInv, NEW s \in Sample
    PROVE  LET u == Update(obj, s)
           IN /\ u.acc \in Accumulator
              /\ u.data \in Reading \cup {None}
              /\ u.acc.last_sample \in {s, obj.last_sample}
<1>1. obj \in Accumulator
  BY DEF IInv, TypeInv
<1>2. CASE TakesBaseline(obj, s)
  BY <1>1, <1>2, FreshFields, NewFacts
<1>3. CASE Publishes(obj, s)
  <2>1. PICK previous : Update(obj, s) = PublishDelta(previous, s)
    BY <1>3 DEF Publishes
  <2>2. ReadingFrom(previous, s) \in Reading
    <3>1. (Finite(previous) /\ Finite(s)) \in BOOLEAN
      OBVIOUS
    <3>2. s.timestamp \in Instants
      BY DEF Sample
    <3> QED
      BY <3>1, <3>2 DEF ReadingFrom, Reading
  <2>3. /\ Update(obj, s).acc = [candidate   |-> None,
                                  last_data   |-> ReadingFrom(previous, s),
                                  last_sample |-> s]
        /\ Update(obj, s).data = ReadingFrom(previous, s)
    BY <2>1, PublishFields
  <2>4. Update(obj, s).acc \in Accumulator /\ Update(obj, s).acc.last_sample = s
    BY <2>2, <2>3 DEF Accumulator
  <2> QED
    BY <2>2, <2>3, <2>4
<1>4. CASE TakesCandidate(obj, s)
  BY <1>1, <1>4, CandidateFields
<1>5. CASE Rejects(obj, s)
  BY <1>1, <1>5, RejectFields
<1> QED
  BY <1>1, <1>2, <1>3, <1>4, <1>5, UpdateCases

(* A sample that can be subtracted from the last one of a run becomes the  *)
(* baseline, and a number is published if that one was the baseline; again *)
(* unless the baseline is another meter's.                                 *)
LEMMA RunGoesOn ==
    ASSUME NEW s \in Sample
    PROVE  IInv /\ ~ForeignBaseline /\ Finite(s) /\ run > 0
               /\ DeltaError(prev, s) = "no error" =>
               /\ Update(obj, s).acc.last_sample = s
               /\ run > 1 => /\ Update(obj, s).data # None
                             /\ Update(obj, s).data.number
<1>a. SUFFICES ASSUME IInv, ~ForeignBaseline, Finite(s), run > 0,
                      DeltaError(prev, s) = "no error"
               PROVE  /\ Update(obj, s).acc.last_sample = s
                      /\ run > 1 => /\ Update(obj, s).data # None
                                    /\ Update(obj, s).data.number
  OBVIOUS
<1>b. DeltaError(prev, s) = "no error"
  BY <1>a
<1>1. obj \in Accumulator /\ prev \in Sample
  BY <1>a DEF IInv, TypeInv, RunInv
<1>c. run \in 0 .. 3
  BY <1>a DEF IInv, TypeInv
<1>2. CASE prev = obj.last_sample
  <2>1. prev # None
    BY <1>a DEF IInv, RunInv
  <2>2. s.timestamp > prev.timestamp
    BY <1>1, <1>b, DeltaErrorFacts
  <2>3. s.timestamp \in Int /\ prev.timestamp \in Int
    BY <1>1, FloatAssumption DEF Sample
  <2>4. s.timestamp # prev.timestamp
    BY <2>2, <2>3
  <2>5. Update(obj, s) = PublishDelta(prev, s)
    BY <1>2, <1>b, <2>1, <2>4 DEF Update
  <2>6. /\ Update(obj, s).acc.last_sample = s
        /\ Update(obj, s).data = ReadingFrom(prev, s)
    BY <2>5, PublishFields
  <2>7. Finite(prev)
    BY <1>a DEF IInv, RunInv
  <2>8. ReadingFrom(prev, s).number
    BY <1>a, <2>7 DEF ReadingFrom
  <2>9. ReadingFrom(prev, s) \in Reading
    BY <2>7 DEF ReadingFrom, Reading, Sample
  <2>10. ReadingFrom(prev, s) # None
    BY <2>9, FloatAssumption
  <2> QED
    BY <2>6, <2>8, <2>10
<1>3. CASE prev # obj.last_sample
  <2>1. run = 1 /\ prev = obj.candidate /\ obj.candidate # None
    <3>1. ~(run > 1)
      BY <1>a, <1>3 DEF IInv, RunInv
    <3>2. run > 0
      BY <1>a
    <3>3. run = 1
      BY <1>c, <3>1, <3>2
    <3> QED
      BY <1>a, <1>3, <3>2, <3>3 DEF IInv, RunInv
  <2>2. /\ obj.last_sample \in Sample
        /\ obj.candidate.timestamp > obj.last_sample.timestamp
    BY <1>a, <1>1, <2>1 DEF IInv, CandidateInv, Accumulator
  <2>3. s.timestamp > obj.candidate.timestamp
    BY <1>1, <1>b, <2>1, DeltaErrorFacts
  <2>4. /\ s.timestamp \in Int /\ obj.last_sample.timestamp \in Int
        /\ obj.candidate.timestamp \in Int
    BY <1>1, <2>1, <2>2, FloatAssumption DEF Sample
  <2>5. s.timestamp > obj.last_sample.timestamp
    BY <2>2, <2>3, <2>4
  <2>6. DeltaError(obj.last_sample, s) # "timestamp"
    <3>1. DeltaError(obj.last_sample, s) = "timestamp" =>
              s.timestamp <= obj.last_sample.timestamp
      BY <2>2, DeltaErrorFacts
    <3> QED
      BY <2>4, <2>5, <3>1
  <2>11. DeltaError(obj.last_sample, s) # "item id"
    <3>1. s.item_id = prev.item_id
      BY <1>1, <1>b, DeltaErrorFacts
    <3>2. s.item_id = obj.last_sample.item_id
      BY <1>a, <2>1, <3>1 DEF IInv, CandidateInv
    <3> QED
      BY <2>2, <3>2, DeltaErrorFacts
  <2>7. ~Rejects(obj, s)
    BY <1>b, <2>1, <2>6, <2>11 DEF Rejects
  <2>8. ~TakesCandidate(obj, s)
    BY <1>b, <2>1 DEF TakesCandidate
  <2>9. CASE TakesBaseline(obj, s)
    <3>1. Update(obj, s).acc.last_sample = s
      BY <1>1, <2>9, FreshFields, NewFacts
    <3> QED
      BY <2>1, <3>1
  <2>10. CASE Publishes(obj, s)
    <3>1. PICK previous : Update(obj, s) = PublishDelta(previous, s)
      BY <2>10 DEF Publishes
    <3>2. Update(obj, s).acc.last_sample = s
      BY <3>1, PublishFields
    <3> QED
      BY <2>1, <3>2
  <2> QED
    BY <1>1, <2>7, <2>8, <2>9, <2>10, UpdateCases
<1> QED
  BY <1>2, <1>3

(* The candidate that a call leaves is inside the window of the baseline.  *)
LEMMA UpdateCandidate ==
    ASSUME IInv, NEW s \in Sample, s.item_id = Item, Receive(s)
    PROVE  CandidateInv'
<1>1. obj \in Accumulator /\ obj' = Update(obj, s).acc
  BY DEF IInv, TypeInv, Receive
<1>2. CASE TakesBaseline(obj, s)
  <2>1. obj'.candidate = None
    BY <1>1, <1>2, FreshFields, NewFacts
  <2> QED
    BY <2>1 DEF CandidateInv
<1>3. CASE Publishes(obj, s)
  <2>1. PICK previous : Update(obj, s) = PublishDelta(previous, s)
    BY <1>3 DEF Publishes
  <2>2. obj'.candidate = None
    BY <1>1, <2>1, PublishFields
  <2> QED
    BY <2>2 DEF CandidateInv
<1>4. CASE TakesCandidate(obj, s)
  <2>1. obj'.candidate = s /\ obj'.last_sample = obj.last_sample
    BY <1>1, <1>4, CandidateFields
  <2>2. /\ obj.last_sample # None
        /\ DeltaError(obj.last_sample, s) = "counter decreased"
    BY <1>4 DEF TakesCandidate
  <2>3. obj.last_sample \in Sample
    BY <1>1, <2>2 DEF Accumulator
  <2>4. /\ s.timestamp > obj.last_sample.timestamp
        /\ s.timestamp - obj.last_sample.timestamp <= Window
    BY <2>2, <2>3, DeltaErrorFacts
  <2>5. obj.last_sample.item_id = Item
    BY <2>2, <2>3, DeltaErrorFacts
  <2> QED
    BY <2>1, <2>2, <2>4, <2>5 DEF CandidateInv
<1>5. CASE Rejects(obj, s)
  <2>1. obj' = obj
    BY <1>1, <1>5, RejectFields
  <2> QED
    BY <2>1 DEF IInv, CandidateInv
<1> QED
  BY <1>1, <1>2, <1>3, <1>4, <1>5, UpdateCases

(* A run only goes on, or begins, with a sample newer than another meter's *)
(* baseline.                                                               *)
LEMMA RunIsNewer ==
    ASSUME NEW s \in Sample
    PROVE  IInv /\ ForeignBaseline /\ RunAfter(s) # 0 =>
               s.timestamp > obj.last_sample.timestamp
<1> SUFFICES ASSUME IInv, ForeignBaseline, RunAfter(s) # 0
             PROVE  s.timestamp > obj.last_sample.timestamp
  OBVIOUS
<1>1. obj.last_sample \in Sample /\ obj.last_sample # None
  BY DEF ForeignBaseline, IInv, TypeInv, Accumulator
<1>2. CASE NewerThanHeld(s)
  BY <1>1, <1>2 DEF NewerThanHeld
<1>3. CASE run > 0 /\ DeltaError(prev, s) = "no error"
  <2>1. prev \in Sample /\ prev.timestamp > obj.last_sample.timestamp
    BY <1>3 DEF IInv, TypeInv, RunInv, ForeignInv
  <2>2. s.timestamp > prev.timestamp
    BY <1>3, <2>1, DeltaErrorFacts
  <2>3. s.timestamp \in Int /\ prev.timestamp \in Int /\ obj.last_sample.timestamp \in Int
    BY <1>1, <2>1, FloatAssumption DEF Sample
  <2> QED
    BY <2>1, <2>2, <2>3
<1> QED
  BY <1>2, <1>3, RunCases

(* Another meter's baseline is not replaced by a newer sample. *)
LEMMA ForeignStays ==
    ASSUME NEW s \in Sample, s.item_id = Item
    PROVE  IInv /\ ForeignBaseline /\ s.timestamp > obj.last_sample.timestamp =>
               Update(obj, s) = Returned(obj, None)
<1> SUFFICES ASSUME IInv, ForeignBaseline, s.timestamp > obj.last_sample.timestamp
             PROVE  Update(obj, s) = Returned(obj, None)
  OBVIOUS
<1>1. obj.last_sample \in Sample /\ obj.last_sample # None
  BY DEF ForeignBaseline, IInv, TypeInv, Accumulator
<1>2. s.timestamp # obj.last_sample.timestamp
  <2>1. s.timestamp \in Int /\ obj.last_sample.timestamp \in Int
    BY <1>1, FloatAssumption DEF Sample
  <2> QED
    BY <2>1
<1>3. DeltaError(obj.last_sample, s) = "item id"
  BY <1>1, DeltaErrorFacts DEF ForeignBaseline
<1> QED
  BY <1>1, <1>2, <1>3 DEF Update

(* Nor does a call bring one: it was the object's before, and the call has *)
(* changed neither the object nor the store.                               *)
LEMMA ForeignIsOld ==
    ASSUME IInv, NEW s \in Sample, s.item_id = Item, Receive(s), ForeignBaseline'
    PROVE  ForeignBaseline /\ obj' = obj /\ own' = own
<1>1. obj \in Accumulator /\ obj' = Update(obj, s).acc
  BY DEF IInv, TypeInv, Receive
<1>2. obj'.last_sample # s
  BY DEF ForeignBaseline
<1>3. own' = own
  BY <1>1, <1>2 DEF Receive
<1>4. CASE TakesBaseline(obj, s)
  BY <1>1, <1>2, <1>4, FreshFields, NewFacts
<1>5. CASE Publishes(obj, s)
  <2>1. PICK previous : Update(obj, s) = PublishDelta(previous, s)
    BY <1>5 DEF Publishes
  <2> QED
    BY <1>1, <1>2, <2>1, PublishFields
<1>6. CASE TakesCandidate(obj, s)
  <2>1. obj'.last_sample = obj.last_sample
    BY <1>1, <1>6, CandidateFields
  <2>2. /\ obj.last_sample # None
        /\ DeltaError(obj.last_sample, s) = "counter decreased"
    BY <1>6 DEF TakesCandidate
  <2>3. obj.last_sample \in Sample
    BY <1>1, <2>2 DEF Accumulator
  <2>4. obj.last_sample.item_id = Item
    BY <2>2, <2>3, DeltaErrorFacts
  <2> QED
    BY <2>1, <2>4 DEF ForeignBaseline
<1>7. CASE Rejects(obj, s)
  <2>1. obj' = obj
    BY <1>1, <1>7, RejectFields
  <2> QED
    BY <1>3, <2>1 DEF ForeignBaseline
<1> QED
  BY <1>1, <1>4, <1>5, <1>6, <1>7, UpdateCases

LEMMA ReceiveIInv == ASSUME IInv, NEW s \in Given, Receive(s) PROVE IInv'
<1>1. s \in Sample /\ s.item_id = Item
  BY FloatAssumption
<1>2. /\ obj' = Update(obj, s).acc /\ reading' = Update(obj, s).data
      /\ prev' = s /\ run' = RunAfter(s)
  BY DEF Receive
<1>3. /\ obj' \in Accumulator /\ reading' \in Reading \cup {None}
      /\ obj'.last_sample \in {s, obj.last_sample}
  BY <1>1, <1>2, UpdateFacts
<1>4. /\ slot' \in Stored \cup {None, OtherKeys} /\ file' \in Stored \cup {None, OtherKeys}
      /\ own' \in BOOLEAN /\ StoreInv'
  BY <1>1, <1>3, ReceiveStore
<1>5. s # None
  BY <1>1, FloatAssumption
<1>6. run \in 0 .. 3
  BY DEF IInv, TypeInv
<1>9. ForeignInv'
  <2> SUFFICES ASSUME ForeignBaseline'
               PROVE  /\ ~own' /\ obj'.last_data = None
                      /\ run' # 0 => prev'.timestamp > obj'.last_sample.timestamp
    BY DEF ForeignInv
  <2>1. ForeignBaseline /\ obj' = obj /\ own' = own
    BY <1>1, ForeignIsOld
  <2>2. run' # 0 => s.timestamp > obj.last_sample.timestamp
    BY <1>1, <1>2, <2>1, RunIsNewer
  <2> QED
    BY <1>2, <2>1, <2>2 DEF IInv, ForeignInv
<1>10. ForeignBaseline /\ run' # 0 => ForeignBaseline'
  <2> SUFFICES ASSUME ForeignBaseline, run' # 0 PROVE ForeignBaseline'
    OBVIOUS
  <2>1. Update(obj, s) = Returned(obj, None)
    BY <1>1, <1>2, RunIsNewer, ForeignStays
  <2>2. obj' = obj
    BY <1>2, <2>1 DEF Returned
  <2> QED
    BY <2>2 DEF ForeignBaseline
<1>7. run' \in 0 .. 3 /\ RunInv' /\ NumbersComeBack'
  <2> DEFINE GoesOn == /\ RunAfter(s) = IF run < 3 THEN run + 1 ELSE 3
                      /\ Finite(s) /\ run > 0
                      /\ DeltaError(prev, s) = "no error"
             Starts == RunAfter(s) = 1 /\ Finite(s) /\ NewerThanHeld(s)
  <2>1. CASE RunAfter(s) = 0
    <3>1. run' = 0
      BY <1>2, <2>1
    <3> QED
      BY <3>1 DEF RunInv, NumbersComeBack
  <2>2. CASE Starts
    <3>1. run' = 1 /\ prev' = s
      BY <1>2, <2>2
    <3>2. ~ForeignBaseline' => prev' \in {obj'.last_sample, obj'.candidate}
      BY <1>1, <1>2, <1>10, <2>2, <3>1, NewerIsTaken
    <3>3. Finite(prev') /\ prev'.item_id = Item
      BY <1>1, <2>2, <3>1
    <3>4. prev' # None
      BY <1>5, <3>1
    <3> QED
      BY <3>1, <3>2, <3>3, <3>4 DEF RunInv, NumbersComeBack, Finite
  <2>3. CASE GoesOn
    <3>1. run' = IF run < 3 THEN run + 1 ELSE 3
      BY <1>2, <2>3
    <3>2. run > 0
      BY <2>3
    <3>3. run' \in 0 .. 3 /\ run' > 1 /\ (run' = 3 => run > 1)
      BY <1>6, <3>1, <3>2
    <3>9. run > 0 /\ DeltaError(prev, s) = "no error" /\ Finite(s)
      BY <2>3
    <3>10. run' # 0
      BY <3>3
    <3>4. ~ForeignBaseline' => obj'.last_sample = s
      BY <1>1, <1>2, <1>10, <3>9, <3>10, RunGoesOn
    <3>5. ~ForeignBaseline' /\ run > 1 => reading' # None /\ reading'.number
      BY <1>1, <1>2, <1>10, <3>9, <3>10, RunGoesOn
    <3>6. NumbersComeBack'
      BY <1>9, <3>3, <3>5 DEF NumbersComeBack, ForeignInv
    <3>7. /\ Finite(prev') /\ prev' # None /\ prev'.item_id = Item
          /\ ~ForeignBaseline' => prev' = obj'.last_sample
      BY <1>1, <1>2, <1>5, <2>3, <3>4
    <3>8. RunInv'
      BY <3>3, <3>7 DEF RunInv, Finite
    <3> QED
      BY <3>3, <3>6, <3>8
  <2>4. RunAfter(s) = 0 \/ Starts \/ GoesOn
    BY RunCases
  <2> HIDE DEF Starts, GoesOn
  <2> QED
    BY <2>1, <2>2, <2>3, <2>4
<1>8. TypeInv'
  BY <1>1, <1>2, <1>3, <1>4, <1>7 DEF TypeInv
<1> QED
  BY <1>1, <1>4, <1>7, <1>8, <1>9, UpdateCandidate DEF IInv

-----------------------------------------------------------------------------
(* The results *)

(* The invariant holds in every reachable state. *)
THEOREM Invariance == Spec => []IInv
<1>1. IInv /\ UNCHANGED vars => IInv'
  BY DEF vars, IInv, TypeInv, CandidateInv, RunInv, ForeignInv, ForeignBaseline, StoreInv,
         RestartKeepsBaseline, NumbersComeBack
<1>2. IInv /\ Next => IInv'
  BY ReceiveIInv, ClearStaleIInv, ReloadIInv, RestartIInv DEF Next
<1> QED
  BY <1>1, <1>2, InitIInv, PTL DEF Spec

(* A restart finds the whole baseline, or none if a counter was no number: *)
(* what _sample_to_storage, the JSON writer and _sample_from_storage make  *)
(* of a sample together.                                                   *)
THEOREM RestartKeepsBaselineCorrect == Spec => []RestartKeepsBaseline
<1>1. IInv => RestartKeepsBaseline
  BY DEF IInv, StoreInv, RestartKeepsBaseline
<1> QED
  BY <1>1, Invariance, PTL

(* The third of three good samples is published as a number, whatever      *)
(* update was given and the store held before, but for another meter's     *)
(* sample, which only the file at the start can have brought.              *)
THEOREM NumbersComeBackCorrect == Spec => []NumbersComeBack
<1>1. IInv => NumbersComeBack
  BY DEF IInv
<1> QED
  BY <1>1, Invariance, PTL

-----------------------------------------------------------------------------
(* The accumulator of GridPowerMeter, with finite counters *)

Meter == INSTANCE GridPowerMeter
            WITH Energies <- Counts, Timestamps <- Instants,
                 MaxElapsed <- Window

(* what this module keeps of a sample, of a reading and of the object there *)
SampleOf(s) ==
    IF s = None THEN None
    ELSE [item_id           |-> s.item_id,
          import_energy_kwh |-> s.import_energy_kwh,
          export_energy_kwh |-> s.export_energy_kwh,
          timestamp         |-> s.timestamp]

ReadingOf(data) ==
    IF data = None THEN None ELSE [timestamp |-> data.timestamp, number |-> TRUE]

ObjectOf(object) ==
    [candidate   |-> SampleOf(object.counter_reset_candidate),
     last_data   |-> ReadingOf(object.last_data),
     last_sample |-> SampleOf(object.last_sample)]

(* the field of the error there for each outcome here *)
FieldOf(error) ==
    IF error = "item id" THEN Meter!ItemIdField
    ELSE IF error = "timestamp" THEN Meter!TimestampField
    ELSE IF error = "window exceeded" THEN Meter!WindowExceeded
    ELSE IF error = "counter decreased" THEN Meter!CounterDecreased
    ELSE Meter!NoError

(* The object after a sample has become its candidate. *)
LEMMA CandidateReturned ==
    ASSUME NEW object, NEW c, NEW d, NEW l, NEW s,
           object = [candidate |-> c, last_data |-> d, last_sample |-> l]
    PROVE  Candidate(object, s)
               = Returned([candidate |-> s, last_data |-> None, last_sample |-> l], None)
<1>1. [object EXCEPT !.candidate = s]
          = [candidate |-> s, last_data |-> d, last_sample |-> l]
  BY SMT
<1>2. ASSUME NEW replaced,
             replaced = [candidate |-> s, last_data |-> d, last_sample |-> l]
      PROVE  [replaced EXCEPT !.last_data = None]
                 = [candidate |-> s, last_data |-> None, last_sample |-> l]
  BY <1>2, SMT
<1> QED
  BY <1>1, <1>2, Zenon DEF Candidate

(* A later instant is another one. *)
LEMMA Later ==
    ASSUME NEW a \in Int, NEW b \in Int, a > b
    PROVE  a # b /\ a - b \in Nat \ {0}
OBVIOUS

(* The net of two differences is an integer. *)
LEMMA NetIsInt ==
    ASSUME NEW a \in Int, NEW b \in Int, NEW c \in Int, NEW d \in Int
    PROVE  (a - b) - (c - d) \in Int
OBVIOUS

(* Between finite counters, falling is being less. *)
LEMMA FellIsLess ==
    ASSUME NEW x \in Counts, NEW y \in Counts
    PROVE  Fell(x, y) <=> y < x
<1>1. x \notin {NaN, Infinity} /\ y \notin {NaN, Infinity}
  BY FloatAssumption
<1> QED
  BY <1>1 DEF Fell, NoDifference

(* What is kept of a meter's sample is a sample, with finite counters. *)
LEMMA SampleOfFacts ==
    ASSUME Meter!NoneAssumption, NEW s \in Meter!Sample
    PROVE  /\ s # None /\ SampleOf(s).item_id = s.item_id
           /\ SampleOf(s) \in Sample /\ SampleOf(s) # None /\ Finite(SampleOf(s))
           /\ SampleOf(s).timestamp = s.timestamp
           /\ SampleOf(s).import_energy_kwh = s.import_energy_kwh
           /\ SampleOf(s).export_energy_kwh = s.export_energy_kwh
           /\ s.timestamp \in Int
           /\ s.import_energy_kwh \in Counts /\ s.export_energy_kwh \in Counts
<1>1. s # None
  BY DEF Meter!NoneAssumption
<1>2. /\ s.item_id \in Items /\ s.timestamp \in Instants
      /\ s.import_energy_kwh \in Counts /\ s.export_energy_kwh \in Counts
  BY DEF Meter!Sample
<1>3. SampleOf(s) \in Sample
  BY <1>1, <1>2 DEF SampleOf, Sample, Floats
<1> QED
  BY <1>1, <1>2, <1>3, FloatAssumption DEF SampleOf, Finite

(* Both give the same reason why a sample cannot be subtracted. *)
LEMMA SameError ==
    ASSUME Meter!NoneAssumption, NEW p \in Meter!Sample, NEW s \in Meter!Sample
    PROVE  /\ Meter!DeltaError(p, s) = FieldOf(DeltaError(SampleOf(p), SampleOf(s)))
           /\ DeltaError(SampleOf(p), SampleOf(s)) \in
                  {"item id", "timestamp", "window exceeded", "counter decreased", "no error"}
           /\ DeltaError(SampleOf(p), SampleOf(s)) \notin {"item id", "timestamp"} =>
                  s.timestamp > p.timestamp
<1> DEFINE there == Meter!DeltaError(p, s)
           here  == DeltaError(SampleOf(p), SampleOf(s))
<1>1. Decreased(SampleOf(p), SampleOf(s)) <=> Meter!Decreased(p, s)
  BY SampleOfFacts, FellIsLess DEF Decreased, Meter!Decreased
<1>2. /\ SampleOf(p).item_id = p.item_id /\ SampleOf(s).item_id = s.item_id
      /\ p.timestamp \in Int /\ s.timestamp \in Int
      /\ SampleOf(p).timestamp = p.timestamp /\ SampleOf(s).timestamp = s.timestamp
      /\ Window \in Int
  BY SampleOfFacts, FloatAssumption
<1>3. here \in {"item id", "timestamp", "window exceeded", "counter decreased", "no error"}
  BY SampleOfFacts, DeltaErrorFacts
<1>4. here \notin {"item id", "timestamp"} => s.timestamp > p.timestamp
  BY <1>2 DEF DeltaError
<1>5. there = FieldOf(here)
  <2>0. CASE s.item_id # p.item_id
    <3>1. here = "item id" /\ there = Meter!ItemIdField
      BY <1>2, <2>0 DEF DeltaError, Meter!DeltaError
    <3> QED
      BY <3>1 DEF FieldOf
  <2>1. CASE s.item_id = p.item_id /\ s.timestamp - p.timestamp <= 0
    <3>1. here = "timestamp" /\ there = Meter!TimestampField
      BY <1>2, <2>1 DEF DeltaError, Meter!DeltaError, Meter!Elapsed
    <3> QED
      BY <3>1 DEF FieldOf
  <2>2. CASE /\ s.item_id = p.item_id /\ s.timestamp - p.timestamp > 0
             /\ s.timestamp - p.timestamp > Window
    <3>1. here = "window exceeded" /\ there = Meter!WindowExceeded
      BY <1>2, <2>2 DEF DeltaError, Meter!DeltaError, Meter!Elapsed
    <3> QED
      BY <3>1 DEF FieldOf
  <2>3. CASE /\ s.item_id = p.item_id /\ s.timestamp - p.timestamp > 0
             /\ ~(s.timestamp - p.timestamp > Window)
    <3>1. /\ Meter!Decreased(p, s) => here = "counter decreased"
          /\ ~Meter!Decreased(p, s) => here = "no error"
      BY <1>1, <1>2, <2>3 DEF DeltaError
    <3>2. /\ Meter!Decreased(p, s) => there = Meter!CounterDecreased
          /\ ~Meter!Decreased(p, s) => there = Meter!NoError
      BY <1>2, <2>3 DEF Meter!DeltaError, Meter!Elapsed
    <3> QED
      BY <3>1, <3>2 DEF FieldOf
  <2> QED
    BY <1>2, <2>0, <2>1, <2>2, <2>3
<1> QED
  BY <1>3, <1>4, <1>5

(* Fields of different outcomes differ. *)
LEMMA FieldFacts ==
    ASSUME NEW error \in {"item id", "timestamp", "window exceeded", "counter decreased",
                           "no error"}
    PROVE  /\ FieldOf(error) = Meter!NoError <=> error = "no error"
           /\ FieldOf(error) = Meter!CounterDecreased <=> error = "counter decreased"
           /\ FieldOf(error) = Meter!WindowExceeded <=> error = "window exceeded"
           /\ FieldOf(error) = Meter!TimestampField <=> error = "timestamp"
BY DEF FieldOf, Meter!ItemIdField, Meter!TimestampField, Meter!WindowExceeded,
       Meter!CounterDecreased, Meter!NoError

(* what a call there leaves and returns, as a call here does *)
CallOf(call) == Returned(ObjectOf(call.acc), ReadingOf(call.data))

(* The object kept of one there, field by field. *)
LEMMA ObjectFields ==
    ASSUME NEW c, NEW d, NEW l
    PROVE  ObjectOf([counter_reset_candidate |-> c, last_data |-> d, last_sample |-> l])
               = [candidate   |-> SampleOf(c), last_data |-> ReadingOf(d),
                  last_sample |-> SampleOf(l)]
BY DEF ObjectOf

(* The difference to the same sample is published by both. *)
LEMMA SamePublish ==
    ASSUME Meter!NoneAssumption, NEW object, NEW p \in Meter!Sample, NEW s \in Meter!Sample,
           DeltaError(SampleOf(p), SampleOf(s)) = "no error"
    PROVE  PublishDelta(SampleOf(p), SampleOf(s)) = CallOf(Meter!PublishDelta(object, p, s))
<1> DEFINE data == Meter!ReadingFrom(p, s)
<1>1. Meter!GridPower(p, s) \in Meter!Power
  <2>1. /\ p.timestamp \in Int /\ s.timestamp \in Int /\ s.timestamp > p.timestamp
        /\ p.import_energy_kwh \in Int /\ s.import_energy_kwh \in Int
        /\ p.export_energy_kwh \in Int /\ s.export_energy_kwh \in Int
    BY SampleOfFacts, SameError, FloatAssumption
  <2>2. /\ (s.import_energy_kwh - p.import_energy_kwh)
               - (s.export_energy_kwh - p.export_energy_kwh) \in Int
        /\ s.timestamp - p.timestamp \in Nat \ {0}
    BY <2>1, Later, NetIsInt, Zenon
  <2> QED
    BY <2>2 DEF Meter!GridPower, Meter!Power, Meter!Elapsed
<1>2. data \in Meter!Data
  BY <1>1 DEF Meter!ReadingFrom, Meter!Data, Meter!Sample, Meter!Statuses, Meter!Ready
<1>3. data # None /\ data.timestamp = s.timestamp
  BY <1>2 DEF Meter!NoneAssumption, Meter!ReadingFrom
<1>4. ReadingFrom(SampleOf(p), SampleOf(s)) = ReadingOf(data)
  BY <1>3, SampleOfFacts DEF ReadingFrom, ReadingOf
<1>5. ReadingOf(None) = None /\ SampleOf(None) = None
  BY DEF ReadingOf, SampleOf
<1>6. PublishDelta(SampleOf(p), SampleOf(s))
          = Returned([candidate |-> None, last_data |-> ReadingOf(data),
                      last_sample |-> SampleOf(s)], ReadingOf(data))
  BY <1>4, PublishFields DEF Returned
<1>7. /\ Meter!PublishDelta(object, p, s).acc
             = [counter_reset_candidate |-> None, last_data |-> data, last_sample |-> s]
      /\ Meter!PublishDelta(object, p, s).data = data
  BY DEF Meter!PublishDelta, Meter!Returned
<1>8. ObjectOf(Meter!PublishDelta(object, p, s).acc)
          = [candidate |-> None, last_data |-> ReadingOf(data), last_sample |-> SampleOf(s)]
  <2>1. ObjectOf(Meter!PublishDelta(object, p, s).acc)
            = ObjectOf([counter_reset_candidate |-> None, last_data |-> data,
                        last_sample |-> s])
    BY <1>7, Zenon
  <2>2. ObjectOf([counter_reset_candidate |-> None, last_data |-> data, last_sample |-> s])
            = [candidate   |-> SampleOf(None), last_data |-> ReadingOf(data),
               last_sample |-> SampleOf(s)]
    BY ObjectFields
  <2> QED
    BY <1>5, <2>1, <2>2, Zenon
<1> QED
  BY <1>6, <1>7, <1>8, Zenon DEF CallOf

(* A sample that becomes the baseline does so in both. *)
LEMMA SameReset ==
    ASSUME NEW object, NEW s
    PROVE  Returned(NewAccumulator(SampleOf(s)), None) = CallOf(Meter!ResetBaseline(object, s))
<1>1. ReadingOf(None) = None /\ SampleOf(None) = None
  BY DEF ReadingOf, SampleOf
<1> QED
  BY <1>1 DEF Returned, NewAccumulator, CallOf, ObjectOf, Meter!ResetBaseline,
     Meter!Returned, Meter!NewAccumulator

(* A sample that is refused leaves both as they were. *)
LEMMA SameRefusal ==
    ASSUME NEW object, NEW field
    PROVE  /\ Returned(ObjectOf(object), None) = CallOf(Meter!Raised(object, field))
           /\ Returned(ObjectOf(object), None) = CallOf(Meter!Returned(object, None))
BY DEF Returned, CallOf, Meter!Raised, Meter!Returned, ReadingOf

(* A decrease is answered by both in the same way. *)
LEMMA SameDecrease ==
    ASSUME Meter!NoneAssumption, NEW object \in Meter!Accumulator, NEW s \in Meter!Sample
    PROVE  HandleCounterDecrease(ObjectOf(object), SampleOf(s))
               = CallOf(Meter!HandleCounterDecrease(object, s))
<1> DEFINE candidate == object.counter_reset_candidate
           here      == DeltaError(SampleOf(candidate), SampleOf(s))
           there     == Meter!DeltaError(candidate, s)
<1>1. ObjectOf(object).candidate = SampleOf(candidate)
  BY DEF ObjectOf
<1>2. Candidate(ObjectOf(object), SampleOf(s)) = CallOf(Meter!NewCandidate(object, s))
  <2>1. ReadingOf(None) = None
    BY DEF ReadingOf
  <2>2. Candidate(ObjectOf(object), SampleOf(s))
            = Returned([candidate |-> SampleOf(s), last_data |-> None,
                        last_sample |-> SampleOf(object.last_sample)], None)
    <3>1. ObjectOf(object) = [candidate   |-> SampleOf(candidate),
                              last_data   |-> ReadingOf(object.last_data),
                              last_sample |-> SampleOf(object.last_sample)]
      BY DEF ObjectOf
    <3> QED
      BY <3>1, CandidateReturned, SMT
  <2>3. /\ Meter!NewCandidate(object, s).acc
               = [counter_reset_candidate |-> s, last_data |-> None,
                  last_sample |-> object.last_sample]
        /\ Meter!NewCandidate(object, s).data = None
    BY DEF Meter!NewCandidate, Meter!Returned
  <2> QED
    BY <2>1, <2>2, <2>3 DEF CallOf, ObjectOf
<1>3. CASE candidate = None
  <2>1. SampleOf(candidate) = None
    BY <1>3 DEF SampleOf
  <2> QED
    BY <1>1, <1>2, <1>3, <2>1 DEF HandleCounterDecrease, Meter!HandleCounterDecrease
<1>4. CASE candidate # None
  <2>1. candidate \in Meter!Sample
    BY <1>4 DEF Meter!Accumulator
  <2>2. SampleOf(candidate) # None
    BY <2>1, SampleOfFacts
  <2>3. /\ there = FieldOf(here)
        /\ here \in {"item id", "timestamp", "window exceeded", "counter decreased", "no error"}
        /\ here \notin {"item id", "timestamp"} => s.timestamp > candidate.timestamp
        /\ candidate.timestamp \in Int /\ s.timestamp \in Int
    BY <2>1, SameError, SampleOfFacts
  <2>4. /\ there = Meter!NoError <=> here = "no error"
        /\ there = Meter!CounterDecreased <=> here = "counter decreased"
    BY <2>3, FieldFacts
  <2>5. CASE here = "no error"
    <3>0. s.timestamp # candidate.timestamp
      <4>1. s.timestamp > candidate.timestamp
        BY <2>3, <2>5
      <4> QED
        BY <2>3, <4>1, Later, Zenon
    <3>1. s.timestamp # candidate.timestamp /\ there = Meter!NoError
      BY <2>4, <2>5, <3>0
    <3>2. Meter!HandleCounterDecrease(object, s) = Meter!PublishDelta(object, candidate, s)
      BY <1>4, <3>1 DEF Meter!HandleCounterDecrease
    <3>3. HandleCounterDecrease(ObjectOf(object), SampleOf(s))
              = PublishDelta(SampleOf(candidate), SampleOf(s))
      BY <1>1, <2>2, <2>5 DEF HandleCounterDecrease
    <3> QED
      BY <2>1, <2>5, <3>2, <3>3, SamePublish
  <2>6. CASE here = "counter decreased"
    <3>0. s.timestamp # candidate.timestamp
      <4>1. s.timestamp > candidate.timestamp
        BY <2>3, <2>6
      <4> QED
        BY <2>3, <4>1, Later, Zenon
    <3>1. /\ s.timestamp # candidate.timestamp
          /\ there # Meter!NoError /\ there = Meter!CounterDecreased
      BY <2>4, <2>6, <3>0
    <3>2. Meter!HandleCounterDecrease(object, s) = Meter!NewCandidate(object, s)
      BY <1>4, <3>1 DEF Meter!HandleCounterDecrease
    <3> QED
      BY <1>1, <1>2, <2>2, <2>6, <3>2 DEF HandleCounterDecrease
  <2>7. CASE here \in {"item id", "timestamp", "window exceeded"}
    <3>1. there # Meter!NoError /\ there # Meter!CounterDecreased
      BY <2>4, <2>7
    <3>2. \/ Meter!HandleCounterDecrease(object, s) = Meter!Returned(object, None)
          \/ Meter!HandleCounterDecrease(object, s) = Meter!Raised(object, there)
      BY <1>4, <3>1 DEF Meter!HandleCounterDecrease
    <3>3. HandleCounterDecrease(ObjectOf(object), SampleOf(s))
              = Returned(ObjectOf(object), None)
      BY <1>1, <2>2, <2>7 DEF HandleCounterDecrease
    <3> QED
      BY <3>2, <3>3, SameRefusal
  <2> QED
    BY <2>3, <2>5, <2>6, <2>7
<1> QED
  BY <1>3, <1>4

(* Given finite counters, this module's accumulator does what the one of   *)
(* GridPowerMeter does with the same samples: it takes the same baseline   *)
(* and the same candidate, and returns a reading in the same calls.        *)
THEOREM UpdateAgrees ==
    ASSUME Meter!NoneAssumption, NEW object \in Meter!Accumulator, NEW s \in Meter!Sample
    PROVE  Update(ObjectOf(object), SampleOf(s)) = CallOf(Meter!Update(object, s))
<1> DEFINE last  == object.last_sample
           here  == DeltaError(SampleOf(last), SampleOf(s))
           there == Meter!DeltaError(last, s)
<1>1. ObjectOf(object).last_sample = SampleOf(last) /\ SampleOf(s).timestamp = s.timestamp
  BY SampleOfFacts DEF ObjectOf
<1>2. CASE last = None
  <2>1. SampleOf(last) = None
    BY <1>2 DEF SampleOf
  <2> QED
    BY <1>1, <1>2, <2>1, SameReset DEF Update, Meter!Update
<1>3. CASE last # None
  <2>1. last \in Meter!Sample
    BY <1>3 DEF Meter!Accumulator
  <2>2. SampleOf(last) # None /\ SampleOf(last).timestamp = last.timestamp
    BY <2>1, SampleOfFacts
  <2>3. /\ there = FieldOf(here)
        /\ here \in {"item id", "timestamp", "window exceeded", "counter decreased", "no error"}
    BY <2>1, SameError
  <2>4. /\ there = Meter!NoError <=> here = "no error"
        /\ there = Meter!CounterDecreased <=> here = "counter decreased"
        /\ there = Meter!WindowExceeded <=> here = "window exceeded"
    BY <2>3, FieldFacts
  <2>5. CASE s.timestamp = last.timestamp
    BY <1>1, <2>2, <2>5, SameReset DEF Update, Meter!Update
  <2>6. CASE s.timestamp # last.timestamp
    <3>0. /\ SampleOf(last) # None
          /\ SampleOf(s).timestamp # SampleOf(last).timestamp
      BY <1>1, <2>2, <2>6
    <3>1. CASE here = "no error"
      <4>1. Meter!Update(object, s) = Meter!PublishDelta(object, last, s)
        BY <1>3, <2>4, <2>6, <3>1 DEF Meter!Update
      <4>2. Update(ObjectOf(object), SampleOf(s)) = PublishDelta(SampleOf(last), SampleOf(s))
        BY <1>1, <3>0, <3>1 DEF Update
      <4> QED
        BY <2>1, <3>1, <4>1, <4>2, SamePublish
    <3>2. CASE here = "window exceeded"
      <4>1. Meter!Update(object, s) = Meter!ResetBaseline(object, s)
        BY <1>3, <2>4, <2>6, <3>2 DEF Meter!Update
      <4>2. Update(ObjectOf(object), SampleOf(s))
                = Returned(NewAccumulator(SampleOf(s)), None)
        BY <1>1, <3>0, <3>2 DEF Update
      <4> QED
        BY <4>1, <4>2, SameReset
    <3>3. CASE here = "counter decreased"
      <4>1. there # Meter!NoError /\ there # Meter!WindowExceeded
            /\ there = Meter!CounterDecreased
        BY <2>4, <3>3
      <4>2. Meter!Update(object, s) = Meter!HandleCounterDecrease(object, s)
        BY <1>3, <2>6, <4>1 DEF Meter!Update
      <4>3. Update(ObjectOf(object), SampleOf(s))
                = HandleCounterDecrease(ObjectOf(object), SampleOf(s))
        BY <1>1, <3>0, <3>3 DEF Update
      <4> QED
        BY <4>2, <4>3, SameDecrease
    <3>4. CASE here \in {"item id", "timestamp"}
      <4>1. there # Meter!NoError /\ there # Meter!WindowExceeded
            /\ there # Meter!CounterDecreased
        BY <2>4, <3>4
      <4>2. Meter!Update(object, s) = Meter!Raised(object, there)
        BY <1>3, <2>6, <4>1 DEF Meter!Update
      <4>3. Update(ObjectOf(object), SampleOf(s)) = Returned(ObjectOf(object), None)
        BY <1>1, <3>0, <3>4 DEF Update
      <4> QED
        BY <4>2, <4>3, SameRefusal
    <3> QED
      BY <2>3, <3>1, <3>2, <3>3, <3>4
  <2> QED
    BY <2>5, <2>6
<1> QED
  BY <1>2, <1>3
=============================================================================
