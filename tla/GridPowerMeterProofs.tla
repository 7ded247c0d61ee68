------------------------ MODULE GridPowerMeterProofs ------------------------
(***************************************************************************)
(* What one call of update does, for every accumulator, sample and window: *)
(* the lemmas that the proofs about the accumulator and about the config   *)
(* entry rest on.                                                          *)
(***************************************************************************)
EXTENDS GridPowerMeter, TLAPS

(* calculate_grid_power_w raises nothing exactly when the two samples are  *)
(* of one meter, in order, inside the window and no counter decreased.     *)
LEMMA DeltaErrorFacts ==
    ASSUME NEW p \in Sample, NEW c \in Sample
    PROVE  /\ DeltaError(p, c) \in Fields
           /\ DeltaError(p, c) = NoError =>
                 /\ c.item_id = p.item_id
                 /\ c.timestamp > p.timestamp
                 /\ Elapsed(p, c) <= MaxElapsed
                 /\ ~Decreased(p, c)
           /\ DeltaError(p, c) = CounterDecreased =>
                 /\ c.item_id = p.item_id
                 /\ c.timestamp > p.timestamp
                 /\ Elapsed(p, c) <= MaxElapsed
                 /\ Decreased(p, c)
           /\ DeltaError(p, c) = WindowExceeded =>
                 /\ c.item_id = p.item_id
                 /\ Elapsed(p, c) > MaxElapsed
           /\ DeltaError(p, c) = TimestampField =>
                 /\ c.item_id = p.item_id
                 /\ Elapsed(p, c) <= 0
           /\ DeltaError(p, c) = ItemIdField => c.item_id # p.item_id
  <1> USE DEF NoError, ItemIdField, TimestampField, WindowExceeded, CounterDecreased
  <1>1. p.timestamp \in Int /\ c.timestamp \in Int
    BY NumbersAssumption DEF Sample
  <1> QED BY <1>1, NumbersAssumption DEF DeltaError, Fields, Elapsed

(* A sample is not newer than itself. *)
LEMMA SelfDelta ==
    ASSUME NEW s \in Sample
    PROVE  DeltaError(s, s) = TimestampField /\ DeltaError(s, s) # CounterDecreased
  <1>1. s.timestamp \in Int
    BY NumbersAssumption DEF Sample
  <1>2. Elapsed(s, s) <= 0
    BY <1>1 DEF Elapsed
  <1> QED BY <1>2 DEF DeltaError, TimestampField, CounterDecreased

(* A delta that is accepted is a well-typed power over at most the window. *)
LEMMA GridPowerType ==
    ASSUME NEW p \in Sample, NEW c \in Sample, DeltaError(p, c) = NoError
    PROVE  /\ GridPower(p, c) \in Power
           /\ GridPower(p, c).elapsed <= MaxElapsed
           /\ ReadingFrom(p, c) \in Data
  <1>1. /\ p.timestamp \in Int /\ c.timestamp \in Int
        /\ p.import_energy_kwh \in Int /\ c.import_energy_kwh \in Int
        /\ p.export_energy_kwh \in Int /\ c.export_energy_kwh \in Int
        /\ c.item_id \in Items /\ c.timestamp \in Timestamps
    BY NumbersAssumption DEF Sample
  <1>2. Elapsed(p, c) \in Nat \ {0} /\ Elapsed(p, c) <= MaxElapsed
    BY <1>1, DeltaErrorFacts DEF Elapsed
  <1>3. GridPower(p, c) \in Power /\ GridPower(p, c).elapsed <= MaxElapsed
    BY <1>1, <1>2 DEF GridPower, Power
  <1> QED BY <1>1, <1>3 DEF ReadingFrom, Data, Statuses, Ready

(* The five things a call can do. *)
LEMMA UpdateCases ==
    ASSUME NEW a \in Accumulator, NEW s \in Sample
    PROVE  \/ /\ Update(a, s) = ResetBaseline(a, s)
              /\ a.last_sample # None =>
                    \/ s.timestamp = a.last_sample.timestamp
                    \/ DeltaError(a.last_sample, s) = WindowExceeded
           \/ /\ Update(a, s) = PublishDelta(a, a.last_sample, s)
              /\ a.last_sample # None
              /\ DeltaError(a.last_sample, s) = NoError
           \/ /\ Update(a, s) = PublishDelta(a, a.counter_reset_candidate, s)
              /\ a.last_sample # None
              /\ DeltaError(a.last_sample, s) = CounterDecreased
              /\ a.counter_reset_candidate # None
              /\ DeltaError(a.counter_reset_candidate, s) = NoError
           \/ /\ Update(a, s) = NewCandidate(a, s)
              /\ a.last_sample # None
              /\ DeltaError(a.last_sample, s) = CounterDecreased
           \/ /\ Update(a, s).acc = a
              /\ Update(a, s).data = None
              /\ Update(a, s).field \in Fields
              /\ a.last_sample # None
              /\ s.timestamp # a.last_sample.timestamp
              /\ DeltaError(a.last_sample, s) \notin {NoError, WindowExceeded}
              /\ DeltaError(a.last_sample, s) # CounterDecreased =>
                    Update(a, s).field # NoError
              /\ DeltaError(a.last_sample, s) = CounterDecreased =>
                    /\ a.counter_reset_candidate # None
                    /\ \/ s.timestamp = a.counter_reset_candidate.timestamp
                       \/ DeltaError(a.counter_reset_candidate, s)
                             \notin {NoError, CounterDecreased}
  <1> DEFINE last == a.last_sample
             cand == a.counter_reset_candidate
  <1>1. last \in Sample \cup {None} /\ cand \in Sample \cup {None}
    BY DEF Accumulator
  <1>2. CASE last = None \/ s.timestamp = last.timestamp
    BY <1>2 DEF Update
  <1>3. CASE ~(last = None \/ s.timestamp = last.timestamp)
    <2>1. last \in Sample /\ DeltaError(last, s) \in Fields
      BY <1>1, <1>3, DeltaErrorFacts
    <2>2. CASE DeltaError(last, s) # CounterDecreased
      BY <1>3, <2>1, <2>2
      DEF Update, Raised, Fields, NoError, ItemIdField, TimestampField,
          WindowExceeded, CounterDecreased
    <2>3. CASE DeltaError(last, s) = CounterDecreased
      <3>1. Update(a, s) = HandleCounterDecrease(a, s)
        BY <1>3, <2>3 DEF Update, NoError, WindowExceeded, CounterDecreased
      <3>2. cand # None => DeltaError(cand, s) \in Fields
        BY <1>1, DeltaErrorFacts
      <3>3. NoError \in Fields
        BY DEF Fields
      <3>4. CounterDecreased \notin {NoError, WindowExceeded}
        BY DEF CounterDecreased, NoError, WindowExceeded
      <3> QED BY <1>3, <2>3, <3>1, <3>2, <3>3, <3>4
              DEF HandleCounterDecrease, NewCandidate, Returned, Raised
    <2> QED BY <2>2, <2>3
  <1> QED BY <1>2, <1>3

(* update keeps the object's fields typed. *)
LEMMA UpdateType ==
    ASSUME NEW a \in Accumulator, NEW s \in Sample
    PROVE  /\ Update(a, s).acc \in Accumulator
           /\ Update(a, s).data \in Data \cup {None}
           /\ Update(a, s).field \in Fields
  <1>1. a.last_sample \in Sample \cup {None} /\ a.counter_reset_candidate \in Sample \cup {None}
    BY DEF Accumulator
  <1>2. NoError \in Fields
    BY DEF Fields
  <1>3. \A p \in Sample : DeltaError(p, s) = NoError => ReadingFrom(p, s) \in Data
    BY GridPowerType
  <1>4. CASE Update(a, s) = ResetBaseline(a, s)
    BY <1>2, <1>4 DEF ResetBaseline, NewAccumulator, Returned, Accumulator
  <1>5. CASE /\ Update(a, s) = PublishDelta(a, a.last_sample, s)
             /\ a.last_sample # None
             /\ DeltaError(a.last_sample, s) = NoError
    BY <1>1, <1>2, <1>3, <1>5 DEF PublishDelta, Returned, Accumulator
  <1>6. CASE /\ Update(a, s) = PublishDelta(a, a.counter_reset_candidate, s)
             /\ a.counter_reset_candidate # None
             /\ DeltaError(a.counter_reset_candidate, s) = NoError
    BY <1>1, <1>2, <1>3, <1>6 DEF PublishDelta, Returned, Accumulator
  <1>7. CASE Update(a, s) = NewCandidate(a, s)
    BY <1>1, <1>2, <1>7 DEF NewCandidate, Returned, Accumulator
  <1>8. CASE /\ Update(a, s).acc = a
             /\ Update(a, s).data = None
             /\ Update(a, s).field \in Fields
    BY <1>8
  <1> QED BY <1>4, <1>5, <1>6, <1>7, <1>8, UpdateCases

(* update keeps the promise about the counter-reset candidate. *)
LEMMA UpdateCandidate ==
    ASSUME NEW a \in Accumulator, NEW s \in Sample, CandidateOf(a)
    PROVE  CandidateOf(Update(a, s).acc)
  <1>1. CASE \/ Update(a, s) = ResetBaseline(a, s)
             \/ Update(a, s) = PublishDelta(a, a.last_sample, s)
             \/ Update(a, s) = PublishDelta(a, a.counter_reset_candidate, s)
    <2>1. Update(a, s).acc.counter_reset_candidate = None
      BY <1>1 DEF ResetBaseline, NewAccumulator, PublishDelta, Returned
    <2> QED BY <2>1 DEF CandidateOf
  <1>2. CASE /\ Update(a, s) = NewCandidate(a, s)
             /\ a.last_sample # None
             /\ DeltaError(a.last_sample, s) = CounterDecreased
    <2>1. /\ Update(a, s).acc.counter_reset_candidate = s
          /\ Update(a, s).acc.last_data = None
          /\ Update(a, s).acc.last_sample = a.last_sample
      BY <1>2 DEF NewCandidate, Returned
    <2> QED BY <1>2, <2>1 DEF CandidateOf
  <1>3. CASE Update(a, s).acc = a
    BY <1>3
  <1> QED BY <1>1, <1>2, <1>3, UpdateCases

(* update keeps the promise about the reading. *)
LEMMA UpdateReading ==
    ASSUME NEW a \in Accumulator, NEW s \in Sample, ReadingOf(a)
    PROVE  ReadingOf(Update(a, s).acc)
  <1>1. a.last_sample \in Sample \cup {None} /\ a.counter_reset_candidate \in Sample \cup {None}
    BY DEF Accumulator
  <1>2. CASE \/ Update(a, s) = ResetBaseline(a, s)
             \/ Update(a, s) = NewCandidate(a, s)
    <2>1. Update(a, s).acc.last_data = None
      BY <1>2 DEF ResetBaseline, NewAccumulator, NewCandidate, Returned
    <2> QED BY <2>1 DEF ReadingOf
  <1>3. ASSUME NEW p \in Sample, Update(a, s) = PublishDelta(a, p, s),
               DeltaError(p, s) = NoError
        PROVE  ReadingOf(Update(a, s).acc)
    <2>1. /\ Update(a, s).acc.last_data = ReadingFrom(p, s)
          /\ Update(a, s).acc.last_sample = s
      BY <1>3 DEF PublishDelta, Returned
    <2>2. s # None
      BY NoneAssumption
    <2>3. GridPower(p, s) \in Power /\ GridPower(p, s).elapsed <= MaxElapsed
      BY <1>3, GridPowerType
    <2>4. GridPower(p, s) # None
      BY <2>3, NoneAssumption
    <2> QED BY <2>1, <2>2, <2>3, <2>4 DEF ReadingOf, ReadingFrom
  <1>4. CASE Update(a, s).acc = a
    BY <1>4
  <1> QED BY <1>1, <1>2, <1>3, <1>4, UpdateCases

(* An update leaves a baseline that is the given sample, or the old one,   *)
(* and moves it only to the same timestamp or a later one.                 *)
LEMMA UpdateBaseline ==
    ASSUME NEW a \in Accumulator, NEW s \in Sample, CandidateOf(a)
    PROVE  LET b == Update(a, s).acc
           IN /\ b.last_sample \in {s, a.last_sample}
              /\ b.last_sample # None
              /\ a.last_sample # None =>
                    /\ b.last_sample.timestamp >= a.last_sample.timestamp
                    /\ \/ b.last_sample.item_id = a.last_sample.item_id
                       \/ b.last_sample.timestamp = a.last_sample.timestamp
              /\ Update(a, s).data # None =>
                    /\ b.last_sample = s
                    /\ Update(a, s).data.timestamp = s.timestamp
                    /\ a.last_sample # None
                    /\ s.timestamp > a.last_sample.timestamp
  <1> DEFINE last == a.last_sample
             cand == a.counter_reset_candidate
             b == Update(a, s).acc
  <1>1. last \in Sample \cup {None} /\ cand \in Sample \cup {None} /\ s # None
    BY NoneAssumption DEF Accumulator
  <1>2. \A p \in Sample : p.timestamp \in Int
    BY NumbersAssumption DEF Sample
  <1>3. last # None =>
           /\ DeltaError(last, s) \in {NoError, WindowExceeded, CounterDecreased}
                 => s.timestamp > last.timestamp /\ s.item_id = last.item_id
    <2>1. SUFFICES ASSUME last # None,
                          DeltaError(last, s) \in {NoError, WindowExceeded, CounterDecreased}
                   PROVE  s.timestamp > last.timestamp /\ s.item_id = last.item_id
      OBVIOUS
    <2>2. last \in Sample
      BY <1>1, <2>1
    <2>3. DeltaError(last, s) = WindowExceeded => s.timestamp > last.timestamp
      BY <1>2, <2>2, DeltaErrorFacts, NumbersAssumption DEF Elapsed
    <2> QED BY <2>1, <2>2, <2>3, DeltaErrorFacts
  <1>4. CASE /\ Update(a, s) = ResetBaseline(a, s)
             /\ last # None => \/ s.timestamp = last.timestamp
                               \/ DeltaError(last, s) = WindowExceeded
    <2>1. b.last_sample = s /\ Update(a, s).data = None
      BY <1>4 DEF ResetBaseline, NewAccumulator, Returned
    <2> QED BY <1>1, <1>2, <1>3, <1>4, <2>1
  <1>5. ASSUME NEW p \in Sample, Update(a, s) = PublishDelta(a, p, s), last # None,
               DeltaError(last, s) \in {NoError, CounterDecreased}
        PROVE  /\ b.last_sample = s
               /\ Update(a, s).data.timestamp = s.timestamp
               /\ s.timestamp > last.timestamp /\ s.item_id = last.item_id
    <2>1. b.last_sample = s /\ Update(a, s).data.timestamp = s.timestamp
      BY <1>5 DEF PublishDelta, Returned, ReadingFrom
    <2> QED BY <1>3, <1>5, <2>1
  <1>6. CASE \/ Update(a, s) = NewCandidate(a, s) /\ last # None
             \/ Update(a, s).acc = a /\ Update(a, s).data = None /\ last # None
    <2>1. b.last_sample = last /\ Update(a, s).data = None
      BY <1>6 DEF NewCandidate, Returned
    <2>2. last.timestamp \in Int
      BY <1>1, <1>2, <1>6
    <2> QED BY <1>6, <2>1, <2>2
  <1>7. CASE \/ /\ Update(a, s) = PublishDelta(a, last, s)
                /\ last # None
                /\ DeltaError(last, s) = NoError
             \/ /\ Update(a, s) = PublishDelta(a, cand, s)
                /\ last # None
                /\ DeltaError(last, s) = CounterDecreased
                /\ cand # None
    <2>1. \E p \in Sample : Update(a, s) = PublishDelta(a, p, s)
      BY <1>1, <1>7
    <2>2. /\ b.last_sample = s
          /\ Update(a, s).data.timestamp = s.timestamp
          /\ s.timestamp > last.timestamp /\ s.item_id = last.item_id
          /\ last # None
      BY <1>5, <1>7, <2>1
    <2>3. s.timestamp \in Int /\ last.timestamp \in Int
      BY <1>1, <1>2, <2>2
    <2> QED BY <1>1, <2>2, <2>3
  <1> QED BY <1>4, <1>6, <1>7, UpdateCases
=============================================================================
