--------------------- MODULE GridPowerAccumulatorProofs ---------------------
(***************************************************************************)
(* Safety of one accumulator, for every set of meters, counter values and  *)
(* timestamps and every window; and of an accumulator behind a real meter. *)
(***************************************************************************)
EXTENDS MeterFeed, GridPowerMeterProofs, SequenceTheorems

(* A reading once returned is no newer than the baseline, which only       *)
(* advances: so the next one is newer.                                     *)
ShownInv ==
    /\ shown # None => /\ acc.last_sample # None
                       /\ acc.last_sample.timestamp >= shown
    /\ repeats = 0

(* The last sample of a run is the baseline, except that the first one may *)
(* be pending as the counter-reset candidate instead.                      *)
RunInv ==
    run > 0 =>
        /\ prev # None
        /\ acc.last_sample # None
        /\ \/ acc.last_sample = prev
           \/ run = 1 /\ acc.counter_reset_candidate = prev

IInv == TypeOK /\ CandidateInv /\ ReadingInv /\ ShownInv /\ RunInv

-----------------------------------------------------------------------------
(* A sample newer than everything held becomes the baseline or the         *)
(* candidate: it is never dropped.                                         *)
LEMMA NewerIsHeld ==
    ASSUME acc \in Accumulator, CandidateOf(acc), NEW s \in Sample, NewerThanHeld(s)
    PROVE  LET b == Update(acc, s).acc
           IN b.last_sample = s \/ b.counter_reset_candidate = s
  <1> DEFINE last == acc.last_sample
             cand == acc.counter_reset_candidate
             b == Update(acc, s).acc
  <1>1. last \in Sample \cup {None} /\ cand \in Sample \cup {None}
    BY DEF Accumulator
  <1>2. \A p \in Sample : p.timestamp \in Int
    BY NumbersAssumption DEF Sample
  <1>3. last # None => s.item_id = last.item_id /\ s.timestamp > last.timestamp
    BY DEF NewerThanHeld
  <1>4. cand # None => s.timestamp > cand.timestamp
    BY DEF NewerThanHeld
  <1>5. CASE \/ Update(acc, s) = ResetBaseline(acc, s)
             \/ Update(acc, s) = PublishDelta(acc, last, s)
             \/ Update(acc, s) = PublishDelta(acc, cand, s)
             \/ Update(acc, s) = NewCandidate(acc, s)
    BY <1>5 DEF ResetBaseline, NewAccumulator, PublishDelta, NewCandidate, Returned
  <1>6. CASE /\ last # None
             /\ DeltaError(last, s) \notin {NoError, WindowExceeded}
             /\ DeltaError(last, s) = CounterDecreased =>
                   /\ cand # None
                   /\ \/ s.timestamp = cand.timestamp
                      \/ DeltaError(cand, s) \notin {NoError, CounterDecreased}
    <2>1. last \in Sample
      BY <1>1, <1>6
    <2>2. DeltaError(last, s) = CounterDecreased
      BY <1>2, <1>3, <1>6, <2>1, DeltaErrorFacts DEF Fields, Elapsed
    <2>3. cand \in Sample /\ s.timestamp # cand.timestamp
      BY <1>1, <1>2, <1>4, <1>6, <2>2
    <2>4. DeltaError(last, cand) = CounterDecreased
      BY <1>6, <2>2 DEF CandidateOf
    <2>5. s.item_id = cand.item_id /\ cand.timestamp > last.timestamp
      BY <1>3, <1>6, <2>1, <2>3, <2>4, DeltaErrorFacts
    <2>6. Elapsed(cand, s) \in 1 .. MaxElapsed
      <3>1. Elapsed(last, s) <= MaxElapsed
        BY <2>1, <2>2, DeltaErrorFacts
      <3>2. s.timestamp > cand.timestamp
        BY <1>4, <1>6, <2>2
      <3>3. s.timestamp \in Int /\ cand.timestamp \in Int /\ last.timestamp \in Int
        BY <1>2, <2>1, <2>3
      <3> QED BY <2>5, <3>1, <3>2, <3>3, NumbersAssumption DEF Elapsed
    <2>7. DeltaError(cand, s) \in {NoError, CounterDecreased}
      BY <2>5, <2>6, NumbersAssumption DEF DeltaError
    <2> QED BY <1>6, <2>2, <2>3, <2>7
  <1> QED BY <1>5, <1>6, UpdateCases

-----------------------------------------------------------------------------
LEMMA InitIInv == Init => IInv
  <1> SUFFICES ASSUME Init PROVE IInv
    OBVIOUS
  <1>1. PICK s \in Sample \cup {None} : acc = NewAccumulator(s)
    BY DEF Init
  <1>2. TypeOK
    <2>1. acc \in Accumulator
      BY <1>1 DEF NewAccumulator, Accumulator
    <2>2. outcome \in Outcome
      BY DEF Init, Outcome, Fields
    <2> QED BY <2>1, <2>2 DEF Init, TypeOK
  <1>3. CandidateInv /\ ReadingInv
    BY <1>1 DEF CandidateInv, CandidateOf, ReadingInv, ReadingOf, NewAccumulator
  <1>4. ShownInv /\ RunInv
    BY DEF Init, ShownInv, RunInv
  <1> QED BY <1>2, <1>3, <1>4 DEF IInv

(* A sample follows another if update finds no error in the two. *)
LEMMA FollowsIsNoError ==
    ASSUME NEW p \in Sample, NEW s \in Sample
    PROVE  Follows(p, s) <=> DeltaError(p, s) = NoError
  <1>1. /\ p.timestamp \in Int /\ s.timestamp \in Int /\ MaxElapsed \in Nat
        /\ p.import_energy_kwh \in Int /\ s.import_energy_kwh \in Int
        /\ p.export_energy_kwh \in Int /\ s.export_energy_kwh \in Int
    BY NumbersAssumption DEF Sample
  <1> QED BY <1>1 DEF Follows, DeltaError, Elapsed, Decreased, NoError, ItemIdField,
                      TimestampField, WindowExceeded, CounterDecreased

(* A good sample after a run's last one ends up as the baseline, and from  *)
(* the third on it is published.                                           *)
LEMMA RunStep ==
    ASSUME IInv, NEW s \in Sample, run > 0, DeltaError(prev, s) = NoError
    PROVE  /\ Update(acc, s).acc.last_sample = s
           /\ run > 1 => Update(acc, s).data # None
  <1> DEFINE last == acc.last_sample
             cand == acc.counter_reset_candidate
  <1>1. /\ acc \in Accumulator /\ last \in Sample /\ prev \in Sample /\ run \in 0 .. 3
        /\ cand \in Sample \cup {None}
    BY DEF IInv, TypeOK, RunInv, Accumulator
  <1>2. last = prev \/ (run = 1 /\ cand = prev)
    BY DEF IInv, RunInv
  <1>3. s.timestamp > prev.timestamp /\ s.item_id = prev.item_id
    BY <1>1, DeltaErrorFacts
  <1>4. /\ s # None
        /\ \A p \in Sample : p.timestamp \in Int
        /\ \A p \in Sample : DeltaError(p, s) = NoError => ReadingFrom(p, s) # None
    <2>1. s # None /\ \A p \in Sample : p.timestamp \in Int
      BY NumbersAssumption, NoneAssumption DEF Sample
    <2>2. \A p \in Sample : DeltaError(p, s) = NoError => ReadingFrom(p, s) \in Data
      BY GridPowerType
    <2>3. \A p \in Sample : DeltaError(p, s) = NoError => ReadingFrom(p, s) # None
      BY <2>2, NoneAssumption
    <2> QED BY <2>1, <2>3
  <1>5. CASE last = prev
    <2>1. Update(acc, s) = PublishDelta(acc, last, s)
      BY <1>1, <1>3, <1>4, <1>5, NoneAssumption DEF Update
    <2> QED BY <1>1, <1>4, <1>5, <2>1 DEF PublishDelta, Returned
  <1>6. CASE last # prev /\ run = 1 /\ cand = prev
    <2>1. DeltaError(last, prev) = CounterDecreased
      BY <1>1, <1>6, NoneAssumption DEF IInv, CandidateInv, CandidateOf
    <2>2. s.timestamp > last.timestamp /\ s.item_id = last.item_id
      BY <1>1, <1>3, <1>4, <2>1, DeltaErrorFacts
    <2>3. DeltaError(last, s) \in {NoError, WindowExceeded, CounterDecreased}
      <3>1. Elapsed(last, s) > 0
        BY <1>1, <1>4, <2>2 DEF Elapsed
      <3>2. DeltaError(last, s) \in Fields
        BY <1>1, DeltaErrorFacts
      <3>3. DeltaError(last, s) # TimestampField
        BY <1>1, <1>4, <2>2, DeltaErrorFacts DEF Elapsed
      <3> QED BY <1>1, <2>2, <3>2, <3>3, DeltaErrorFacts DEF Fields, NoError
    <2>4. DeltaError(last, s) # CounterDecreased =>
             Update(acc, s) \in {PublishDelta(acc, last, s), ResetBaseline(acc, s)}
      BY <1>1, <1>4, <2>2, <2>3, NoneAssumption DEF Update
    <2>5. DeltaError(last, s) = CounterDecreased =>
             Update(acc, s) = PublishDelta(acc, cand, s)
      <3> SUFFICES ASSUME DeltaError(last, s) = CounterDecreased
                   PROVE  Update(acc, s) = PublishDelta(acc, cand, s)
        OBVIOUS
      <3>1. last # None /\ s.timestamp # last.timestamp
        BY <1>1, <1>4, <2>2, NoneAssumption
      <3>2. Update(acc, s) = HandleCounterDecrease(acc, s)
        BY <3>1 DEF Update, NoError, WindowExceeded, CounterDecreased
      <3>3. cand # None /\ s.timestamp # cand.timestamp /\ DeltaError(cand, s) = NoError
        BY <1>1, <1>3, <1>4, <1>6, NoneAssumption
      <3> QED BY <3>2, <3>3 DEF HandleCounterDecrease
    <2> QED BY <1>6, <2>4, <2>5
            DEF PublishDelta, ResetBaseline, NewAccumulator, Returned
  <1> QED BY <1>2, <1>5, <1>6

LEMMA ReceiveIInv ==
    ASSUME IInv, NEW s \in Sample, Receive(s)
    PROVE  IInv'
  <1> DEFINE result == Update(acc, s)
  <1>1. /\ acc' = result.acc
        /\ outcome' = [data |-> result.data, field |-> result.field]
        /\ shown' = IF result.data # None THEN result.data.timestamp ELSE shown
        /\ prev' = s
        /\ repeats' = IF /\ result.data # None
                         /\ shown # None
                         /\ result.data.timestamp <= shown
                      THEN 1 ELSE repeats
        /\ run' = RunAfter(s)
    BY DEF Receive
  <1>2. /\ acc \in Accumulator /\ shown \in Timestamps \cup {None}
        /\ run \in 0 .. 3 /\ repeats = 0
        /\ s # None
        /\ CandidateOf(acc) /\ ReadingOf(acc)
    BY NoneAssumption DEF IInv, TypeOK, ShownInv, CandidateInv, ReadingInv
  <1> HIDE DEF result
  <1>3. /\ result.acc \in Accumulator
        /\ result.data \in Data \cup {None}
        /\ result.field \in Fields
    BY <1>2, UpdateType DEF result
  <1>4. TypeOK'
    <2>1. result.data # None => result.data.timestamp \in Timestamps
      BY <1>3 DEF Data
    <2>2. run' \in 0 .. 3
      BY <1>1, <1>2 DEF RunAfter
    <2>3. outcome' \in Outcome
      BY <1>1, <1>3 DEF Outcome
    <2> QED BY <1>1, <1>2, <1>3, <2>1, <2>2, <2>3 DEF TypeOK
  <1>5. CandidateInv'
    BY <1>1, <1>2, UpdateCandidate DEF CandidateInv, CandidateOf, result
  <1>6. ReadingInv'
    BY <1>1, <1>2, UpdateReading DEF ReadingInv, ReadingOf, result
  <1>7. /\ result.acc.last_sample \in {s, acc.last_sample}
        /\ result.acc.last_sample # None
        /\ acc.last_sample # None =>
              result.acc.last_sample.timestamp >= acc.last_sample.timestamp
        /\ result.data # None =>
              /\ result.acc.last_sample = s
              /\ result.data.timestamp = s.timestamp
              /\ acc.last_sample # None
              /\ s.timestamp > acc.last_sample.timestamp
    BY <1>2, UpdateBaseline DEF result
  <1>8. ShownInv'
    <2>1. \A t \in Timestamps : t \in Int
      BY NumbersAssumption
    <2>2. /\ s.timestamp \in Int
          /\ acc.last_sample # None => acc.last_sample.timestamp \in Int
      BY <1>2, <2>1 DEF Sample, Accumulator
    <2>3. result.acc.last_sample.timestamp \in Int
      BY <1>7, <2>2
    <2>4. shown # None => /\ shown \in Int
                          /\ acc.last_sample # None
                          /\ acc.last_sample.timestamp >= shown
      BY <1>2, <2>1 DEF IInv, ShownInv
    <2>5. CASE result.data # None
      <3>1. shown' = s.timestamp /\ acc'.last_sample = s
        BY <1>1, <1>7, <2>5
      <3>2. shown # None => s.timestamp > shown
        BY <1>7, <2>2, <2>4, <2>5
      <3>3. repeats' = 0
        BY <1>1, <1>2, <1>7, <2>2, <2>4, <2>5, <3>2
      <3> QED BY <1>2, <2>2, <3>1, <3>3 DEF ShownInv
    <2>6. CASE result.data = None
      BY <1>1, <1>2, <1>7, <2>2, <2>3, <2>4, <2>6 DEF ShownInv
    <2> QED BY <2>5, <2>6
  <1>9. RunInv'
    <2>0. run > 0 => (Follows(prev, s) <=> DeltaError(prev, s) = NoError)
      BY FollowsIsNoError DEF IInv, TypeOK, RunInv
    <2>1. CASE run > 0 /\ Follows(prev, s)
      <3>1. run' > 0 /\ (run' = 1 => run = 0)
        BY <1>1, <1>2, <2>1 DEF RunAfter
      <3>2. acc'.last_sample = s
        BY <1>1, <2>0, <2>1, RunStep DEF result
      <3> QED BY <1>1, <1>2, <3>1, <3>2 DEF RunInv
    <2>2. CASE run > 0 /\ ~Follows(prev, s) /\ s = prev
      <3>1. run' = run
        BY <1>1, <2>2 DEF RunAfter
      <3>2. acc.last_sample = s => acc'.last_sample = s
        BY <1>1, <1>7
      <3>3. acc.last_sample # s /\ acc.counter_reset_candidate = s
               => acc' = acc
        <4> SUFFICES ASSUME acc.last_sample # s, acc.counter_reset_candidate = s
                     PROVE  acc' = acc
          OBVIOUS
        <4>1. acc.last_sample # None /\ DeltaError(acc.last_sample, s) = CounterDecreased
          BY <1>2 DEF CandidateOf
        <4>2. s.timestamp # acc.last_sample.timestamp
          <5>1. acc.last_sample \in Sample
            BY <1>2, <4>1 DEF Accumulator
          <5>2. s.timestamp \in Int /\ acc.last_sample.timestamp \in Int
            BY <5>1, NumbersAssumption DEF Sample
          <5>3. s.timestamp > acc.last_sample.timestamp
            BY <4>1, <5>1, DeltaErrorFacts
          <5> QED BY <5>2, <5>3
        <4>3. result = HandleCounterDecrease(acc, s)
          BY <4>1, <4>2 DEF Update, result, NoError, WindowExceeded, CounterDecreased
        <4>4. result = Returned(acc, None)
          BY <1>2, <4>3 DEF HandleCounterDecrease
        <4> QED BY <1>1, <4>4 DEF Returned
      <3>4. /\ acc.last_sample # None
            /\ \/ acc.last_sample = prev
               \/ run = 1 /\ acc.counter_reset_candidate = prev
        BY <2>2 DEF IInv, RunInv
      <3>5. acc'.last_sample # None /\ prev' # None /\ prev' = s
        BY <1>1, <1>2, <1>7
      <3>6. CASE acc.last_sample = s
        BY <3>2, <3>5, <3>6 DEF RunInv
      <3>7. CASE acc.last_sample # s
        <4>1. run = 1 /\ acc.counter_reset_candidate = s
          BY <2>2, <3>4, <3>7
        <4> QED BY <3>1, <3>3, <3>5, <3>7, <4>1 DEF RunInv
      <3> QED BY <3>6, <3>7
    <2>3. CASE /\ ~(run > 0 /\ Follows(prev, s))
               /\ ~(run > 0 /\ s = prev)
      <3>1. run' = IF NewerThanHeld(s) THEN 1 ELSE 0
        BY <1>1, <2>3 DEF RunAfter
      <3>2. NewerThanHeld(s) => \/ acc'.last_sample = s
                                \/ acc'.counter_reset_candidate = s
        BY <1>1, <1>2, NewerIsHeld DEF result
      <3> QED BY <1>1, <1>2, <1>7, <3>1, <3>2 DEF RunInv
    <2> QED BY <2>1, <2>2, <2>3
  <1> QED BY <1>4, <1>5, <1>6, <1>8, <1>9 DEF IInv

LEMMA ClearStaleIInv ==
    ASSUME IInv, ClearStale
    PROVE  IInv'
  <1>1. /\ acc \in Accumulator
        /\ acc' = [acc EXCEPT !.last_data = None]
        /\ outcome' = [data |-> None, field |-> NoError]
        /\ UNCHANGED <<shown, prev, repeats, run>>
    BY DEF IInv, TypeOK, ClearStale
  <1>2. /\ acc' \in Accumulator
        /\ acc'.last_sample = acc.last_sample
        /\ acc'.counter_reset_candidate = acc.counter_reset_candidate
        /\ acc'.last_data = None
    BY <1>1 DEF Accumulator
  <1>3. outcome' \in Outcome
    BY <1>1 DEF Outcome, Fields
  <1>4. TypeOK'
    BY <1>1, <1>2, <1>3 DEF IInv, TypeOK
  <1>5. CandidateInv' /\ ReadingInv'
    BY <1>2 DEF IInv, CandidateInv, CandidateOf, ReadingInv, ReadingOf
  <1>6. ShownInv' /\ RunInv'
    BY <1>1, <1>2 DEF IInv, ShownInv, RunInv
  <1> QED BY <1>4, <1>5, <1>6 DEF IInv

LEMMA NextIInv == IInv /\ [Next]_vars => IInv'
  <1> SUFFICES ASSUME IInv, [Next]_vars PROVE IInv'
    OBVIOUS
  <1>1. ASSUME NEW s \in Sample, Receive(s) PROVE IInv'
    BY <1>1, ReceiveIInv
  <1>2. CASE ClearStale
    BY <1>2, ClearStaleIInv
  <1>3. CASE UNCHANGED vars
    BY <1>3 DEF IInv, TypeOK, CandidateInv, ReadingInv, ShownInv, RunInv, vars
  <1> QED BY <1>1, <1>2, <1>3 DEF Next

-----------------------------------------------------------------------------
(* The object's fields keep their types under any sequence of calls.       *)
THEOREM TypeCorrect == Spec => []TypeOK
  <1>1. IInv => TypeOK
    BY DEF IInv
  <1> QED BY <1>1, InitIInv, NextIInv, PTL DEF Spec

(* The inductive invariant itself. *)
THEOREM Invariance == Spec => []IInv
  BY InitIInv, NextIInv, PTL DEF Spec

(* A pending candidate is always a sample the baseline rejects for its     *)
(* counters only, whatever the cloud delivered.                            *)
THEOREM CandidateCorrect == Spec => []CandidateInv
  <1>1. IInv => CandidateInv
    BY DEF IInv
  <1> QED BY <1>1, Invariance, PTL

(* A held reading is always the ready reading of the baseline. *)
THEOREM ReadingCorrect == Spec => []ReadingInv
  <1>1. IInv => ReadingInv
    BY DEF IInv
  <1> QED BY <1>1, Invariance, PTL

(* No timestamp is returned as a reading twice or out of order. *)
THEOREM PublishedOnceCorrect == Spec => []PublishedOnce
  <1>1. IInv => PublishedOnce
    BY DEF IInv, ShownInv, PublishedOnce
  <1> QED BY <1>1, Invariance, PTL

(* The baseline never goes back in time. *)
THEOREM BaselineAdvances == Spec => BaselineOnlyAdvances
  <1> DEFINE Advances == acc.last_sample # None =>
          /\ acc'.last_sample # None
          /\ acc'.last_sample.timestamp >= acc.last_sample.timestamp
          /\ \/ acc'.last_sample.item_id = acc.last_sample.item_id
             \/ acc'.last_sample.timestamp = acc.last_sample.timestamp
  <1>1. ASSUME IInv, NEW s \in Sample, Receive(s) PROVE Advances
    BY <1>1, UpdateBaseline DEF Receive, IInv, TypeOK, CandidateInv
  <1>2. ASSUME IInv, ClearStale PROVE Advances
    <2>1. acc \in Accumulator /\ acc'.last_sample = acc.last_sample
      BY <1>2 DEF IInv, TypeOK, ClearStale, Accumulator
    <2>2. acc.last_sample # None => acc.last_sample.timestamp \in Int
      BY <2>1, NumbersAssumption DEF Accumulator, Sample
    <2> QED BY <2>1, <2>2
  <1>3. IInv /\ [Next]_vars => [Advances]_vars
    BY <1>1, <1>2 DEF Next
  <1> QED BY <1>3, Invariance, PTL DEF Spec, BaselineOnlyAdvances

(* Lower counters inside the window need two samples that agree. *)
THEOREM ResetConfirmed == Spec => ResetNeedsTwoSamples
  <1> DEFINE Lower == /\ acc.last_sample # None
                      /\ DeltaError(acc.last_sample, acc'.last_sample) = CounterDecreased
             Agreed == /\ acc.counter_reset_candidate # None
                       /\ DeltaError(acc.counter_reset_candidate, acc'.last_sample) = NoError
  <1>1. ASSUME IInv, NEW s \in Sample, Receive(s), Lower PROVE Agreed
    <2>0. acc \in Accumulator /\ acc' = Update(acc, s).acc
      BY <1>1 DEF IInv, TypeOK, Receive
    <2>1. /\ acc \in Accumulator /\ acc.last_sample \in Sample
          /\ acc' = Update(acc, s).acc
      BY <1>1, <2>0 DEF Accumulator
    <2>2. acc'.last_sample # acc.last_sample
      BY <1>1, <2>1, SelfDelta
    <2>3. acc'.last_sample = s
      BY <1>1, <2>1, <2>2, UpdateBaseline DEF IInv, CandidateInv
    <2>4. DeltaError(acc.last_sample, s) = CounterDecreased
      BY <1>1, <2>3
    <2>5. s.timestamp # acc.last_sample.timestamp
      <3>1. s.timestamp > acc.last_sample.timestamp
        BY <2>1, <2>4, DeltaErrorFacts
      <3>2. s.timestamp \in Int /\ acc.last_sample.timestamp \in Int
        BY <2>1, NumbersAssumption DEF Sample
      <3> QED BY <3>1, <3>2
    <2>6. CounterDecreased \notin {NoError, WindowExceeded}
      BY DEF CounterDecreased, NoError, WindowExceeded
    <2>7. Update(acc, s) = HandleCounterDecrease(acc, s)
      BY <1>1, <2>4, <2>5, <2>6 DEF Update
    <2>8. acc'.last_sample # acc.last_sample
             => /\ acc.counter_reset_candidate # None
                /\ DeltaError(acc.counter_reset_candidate, s) = NoError
      BY <2>1, <2>7 DEF HandleCounterDecrease, NewCandidate, Returned, Raised
    <2> QED BY <2>2, <2>3, <2>8
  <1>2. ASSUME IInv, ClearStale PROVE ~Lower
    <2>1. acc \in Accumulator /\ acc'.last_sample = acc.last_sample
      BY <1>2 DEF IInv, TypeOK, ClearStale, Accumulator
    <2>2. acc.last_sample # None => acc.last_sample \in Sample
      BY <2>1 DEF Accumulator
    <2> QED BY <2>1, <2>2, SelfDelta
  <1>3. IInv /\ [Next]_vars => [Lower => Agreed]_vars
    BY <1>1, <1>2 DEF Next
  <1> QED BY <1>3, Invariance, PTL DEF Spec, ResetNeedsTwoSamples

(* The third sample of a run in good order is published. *)
THEOREM Recovers == Spec => RecoversWithinThree
  <1> DEFINE Publishes == run' = 3 /\ prev' # prev => outcome'.data # None
  <1>1. ASSUME IInv, NEW s \in Sample, Receive(s), run' = 3, prev' # prev
        PROVE  outcome'.data # None
    <2>1. run \in 0 .. 3 /\ s # prev /\ RunAfter(s) = 3
      BY <1>1 DEF IInv, TypeOK, Receive
    <2>2. run > 1 /\ DeltaError(prev, s) = NoError
      <3>1. run > 1 /\ Follows(prev, s)
        BY <2>1 DEF RunAfter
      <3>2. prev \in Sample
        BY <1>1, <3>1 DEF IInv, TypeOK, RunInv
      <3> QED BY <3>1, <3>2, FollowsIsNoError
    <2>3. Update(acc, s).data # None
      BY <1>1, <2>1, <2>2, RunStep
    <2>4. outcome' = [data |-> Update(acc, s).data, field |-> Update(acc, s).field]
      BY <1>1 DEF Receive
    <2> QED BY <2>3, <2>4
  <1>2. ClearStale => prev' = prev
    BY DEF ClearStale
  <1>3. IInv /\ [Next]_vars => [Publishes]_vars
    BY <1>1, <1>2 DEF Next
  <1> QED BY <1>3, Invariance, PTL DEF Spec, RecoversWithinThree
-----------------------------------------------------------------------------
(* Behind a meter, whatever it counts, whenever it is reset, and in        *)
(* whatever order and number its packets arrive, a published power is the  *)
(* true one.                                                               *)
(*                                                                         *)
(* Two packets no further apart than the window either have no reset       *)
(* between them - then their counters differ by the true energies - or the *)
(* later one's import counter is lower, and by so much that it cannot      *)
(* catch up within the window (History).  The accumulator only subtracts   *)
(* packets (Holds) that are no further apart and whose counters have not   *)
(* decreased, so they are of the first kind.                               *)

Net(p) == p.import_energy_kwh - p.export_energy_kwh

(* no reset between the packets *)
Same(from, to) ==
    /\ Net(packets[to]) - Net(packets[from]) = energy[to] - energy[from]
    /\ packets[to].import_energy_kwh
          <= packets[from].import_energy_kwh + (to - from) * MaxUse

(* a reset between them, which will show for the rest of the window *)
Dropped(from, to) ==
    packets[from].import_energy_kwh
        > packets[to].import_energy_kwh + (MaxElapsed - (to - from)) * MaxUse

Times == 1 .. Len(packets)

History ==
    \A from, to \in Times :
        from <= to /\ to - from <= MaxElapsed => Same(from, to) \/ Dropped(from, to)

Records == [item_id : {Item}, import_energy_kwh : Nat,
            export_energy_kwh : Nat, timestamp : Nat]

(* counters stay where a counter that starts at Start can be *)
Counters ==
    /\ packets \in Seq(Records)
    /\ energy \in Seq(Int)
    /\ \A t \in Times :
          /\ packets[t].import_energy_kwh <= Start + t * MaxUse
          /\ packets[t].export_energy_kwh <= Start + t * MaxUse

Packets == {packets[t] : t \in Times}

Holds == {acc.last_sample, acc.counter_reset_candidate} \subseteq Packets \cup {None}

ReadingIsTrue ==
    outcome.data # None =>
        \E from, to \in Times :
            /\ outcome.data.timestamp = to
            /\ outcome.data.grid_power_w.elapsed = to - from
            /\ outcome.data.grid_power_w.net = energy[to] - energy[from]

FeedInv == IInv /\ FeedTypeOK /\ Counters /\ History /\ Holds /\ ReadingIsTrue

-----------------------------------------------------------------------------
(* Products of naturals. *)

LEMMA Products ==
    ASSUME NEW a \in Nat, NEW b \in Nat, NEW u \in Nat, a <= b
    PROVE  /\ a * u \in Nat
           /\ (a + 1) * u = a * u + u
           /\ a * u <= b * u
<1>1. a * u \in Nat /\ (a + 1) * u = a * u + u
  OBVIOUS
<1>2. (b - a) * u \in Nat /\ b * u = a * u + (b - a) * u
  <2>1. b - a \in Nat
    OBVIOUS
  <2>2. (b - a) * u \in Nat
    BY <2>1
  <2>3. b * u = a * u + (b - a) * u
    OBVIOUS
  <2> QED
    BY <2>2, <2>3
<1>3. b * u \in Nat
  OBVIOUS
<1> QED
  BY <1>1, <1>2, <1>3

LEMMA WindowProducts ==
    ASSUME NEW d \in Nat, d + 1 <= MaxElapsed
    PROVE  /\ d * MaxUse \in Nat /\ (MaxElapsed - (d + 1)) * MaxUse \in Nat
           /\ (d + 1) * MaxUse = d * MaxUse + MaxUse
           /\ (MaxElapsed - d) * MaxUse = (MaxElapsed - (d + 1)) * MaxUse + MaxUse
           /\ MaxElapsed * MaxUse = d * MaxUse + (MaxElapsed - d) * MaxUse
<1>1. MaxElapsed \in Nat /\ MaxUse \in Nat
  BY NumbersAssumption, FeedAssumption
<1> DEFINE rest == MaxElapsed - (d + 1)
<1>2. rest \in Nat /\ MaxElapsed - d = rest + 1 /\ MaxElapsed = d + (rest + 1)
  BY <1>1
<1> HIDE DEF rest
<1>3. rest * MaxUse \in Nat /\ (rest + 1) * MaxUse = rest * MaxUse + MaxUse
  BY <1>1, <1>2
<1>4. d * MaxUse \in Nat /\ (d + 1) * MaxUse = d * MaxUse + MaxUse
  BY <1>1
<1>5. (d + (rest + 1)) * MaxUse = d * MaxUse + (rest + 1) * MaxUse
  BY <1>1, <1>2
<1> QED
  BY <1>2, <1>3, <1>4, <1>5 DEF rest

-----------------------------------------------------------------------------
(* The meter. *)

LEMMA PacketTypes ==
    ASSUME Counters, NEW t \in Times
    PROVE  /\ packets[t].import_energy_kwh \in Nat
           /\ packets[t].export_energy_kwh \in Nat
           /\ Net(packets[t]) \in Int
           /\ energy \in Seq(Int)
<1>1. packets[t] \in Records
  BY ElementOfSeq DEF Counters, Times
<1>2. energy \in Seq(Int)
  BY DEF Counters
<1> QED
  BY <1>1, <1>2 DEF Records, Net

(* What a minute appends. *)
LEMMA MinuteFacts ==
    ASSUME FeedInv, NEW used \in 0 .. MaxUse, NEW given \in 0 .. MaxUse,
           NEW reset \in BOOLEAN, Minute(used, given, reset)
    PROVE  /\ Len(packets) \in Nat \ {0} /\ Len(packets) + 1 <= MaxMinutes
           /\ Len(energy) = Len(packets)
           /\ Len(packets') = Len(packets) + 1 /\ Len(energy') = Len(packets) + 1
           /\ packets' \in Seq(Records) /\ energy' \in Seq(Int)
           /\ energy'[Len(packets) + 1] = energy[Len(packets)] + used - given
           /\ \A t \in Times : packets'[t] = packets[t] /\ energy'[t] = energy[t]
           /\ packets'[Len(packets) + 1].item_id = Item
           /\ packets'[Len(packets) + 1].timestamp = Len(packets) + 1
           /\ packets'[Len(packets) + 1].import_energy_kwh
                 = (IF reset THEN 0 ELSE LastPacket.import_energy_kwh) + used
           /\ packets'[Len(packets) + 1].export_energy_kwh
                 = (IF reset THEN 0 ELSE LastPacket.export_energy_kwh) + given
<1> DEFINE n == Len(packets)
           i == (IF reset THEN 0 ELSE LastPacket.import_energy_kwh) + used
           e == (IF reset THEN 0 ELSE LastPacket.export_energy_kwh) + given
<1>1. n \in Nat \ {0} /\ Len(energy) = n /\ n \in Times
  BY DEF FeedInv, FeedTypeOK, Times
<1>2. packets \in Seq(Records) /\ energy \in Seq(Int)
  BY DEF FeedInv, Counters
<1>3. MaxMinutes \in Nat /\ used \in Nat /\ given \in Nat
  BY FeedAssumption
<1>4. i \in Nat /\ e \in Nat
  <2>1. LastPacket.import_energy_kwh \in Nat /\ LastPacket.export_energy_kwh \in Nat
    BY <1>1, PacketTypes DEF LastPacket, FeedInv
  <2> QED
    BY <1>3, <2>1
<1>5. packets' = Append(packets, Packet(n + 1, i, e))
  BY DEF Minute
<1>6. energy' = Append(energy, energy[n] + used - given) /\ energy[n] + used - given \in Int
  BY <1>1, <1>2, <1>3 DEF Minute
<1>7. n < MaxMinutes
  BY DEF Minute
<1> HIDE DEF i, e
<1>8. /\ Packet(n + 1, i, e) \in Records
      /\ Packet(n + 1, i, e).item_id = Item
      /\ Packet(n + 1, i, e).timestamp = n + 1
      /\ Packet(n + 1, i, e).import_energy_kwh = i
      /\ Packet(n + 1, i, e).export_energy_kwh = e
  BY <1>1, <1>4 DEF Packet, Records
<1>9. /\ packets' \in Seq(Records) /\ Len(packets') = n + 1
      /\ packets'[n + 1] = Packet(n + 1, i, e)
      /\ \A t \in 1 .. n : packets'[t] = packets[t]
  BY <1>1, <1>2, <1>5, <1>8
<1>10. /\ energy' \in Seq(Int) /\ Len(energy') = n + 1
       /\ energy'[n + 1] = energy[n] + used - given
       /\ \A t \in 1 .. n : energy'[t] = energy[t]
  BY <1>1, <1>2, <1>6
<1> QED
  BY <1>1, <1>3, <1>7, <1>8, <1>9, <1>10 DEF i, e, Times

(* The pairs that end with the new packet. *)
LEMMA MinutePairs ==
    ASSUME FeedInv, NEW used \in 0 .. MaxUse, NEW given \in 0 .. MaxUse,
           NEW reset \in BOOLEAN, Minute(used, given, reset),
           NEW from \in Times, NEW to \in Nat, to = Len(packets) + 1,
           to - from <= MaxElapsed
    PROVE  Same(from, to)' \/ Dropped(from, to)'
<1> DEFINE n == Len(packets)
           d == n - from
           f == packets[from].import_energy_kwh
           g == packets[from].export_energy_kwh
           l == LastPacket.import_energy_kwh
           m == LastPacket.export_energy_kwh
           i == packets'[to].import_energy_kwh
           e == packets'[to].export_energy_kwh
           a == d * MaxUse
           b == (MaxElapsed - d) * MaxUse
           c == (MaxElapsed - (d + 1)) * MaxUse
<1>1. /\ MaxElapsed \in Nat /\ MaxUse \in Nat
      /\ n \in Nat /\ n \in Times /\ from \in 1 .. n
  BY NumbersAssumption, FeedAssumption, MinuteFacts DEF Times
<1>2. d \in Nat /\ d + 1 <= MaxElapsed /\ to - from = d + 1 /\ to = n + 1 /\ d <= MaxElapsed
  BY <1>1
<1>3. /\ a \in Nat /\ c \in Nat
      /\ (d + 1) * MaxUse = a + MaxUse /\ b = c + MaxUse
      /\ MaxElapsed * MaxUse = a + b
  <2> HIDE DEF d
  <2> QED
    BY <1>2, WindowProducts
<1>4. /\ f \in Nat /\ g \in Nat /\ l \in Nat /\ m \in Nat
  BY <1>1, PacketTypes DEF FeedInv, LastPacket
<1>5. energy[n] \in Int /\ energy[from] \in Int
  <2>1. energy \in Seq(Int) /\ Len(energy) = n
    BY MinuteFacts DEF FeedInv, Counters
  <2> QED
    BY <2>1, <1>1, ElementOfSeq
<1>6. used <= MaxUse /\ used \in Nat /\ given \in Nat
  BY <1>1
<1>7. /\ packets'[from] = packets[from] /\ energy'[from] = energy[from]
      /\ energy'[to] = energy[n] + used - given
      /\ i = (IF reset THEN 0 ELSE l) + used
      /\ e = (IF reset THEN 0 ELSE m) + given
  BY MinuteFacts
<1>8. reset => l > MaxElapsed * MaxUse
  BY DEF Minute
<1>9. Same(from, n) \/ Dropped(from, n)
  BY <1>1, <1>2 DEF FeedInv, History, Times
<1>10. Same(from, n) => l <= f + a /\ (l - m) - (f - g) = energy[n] - energy[from]
  BY DEF Same, Net, LastPacket
<1>11. Dropped(from, n) => f > l + b
  BY DEF Dropped, LastPacket
<1>12. ASSUME f > i + c PROVE Dropped(from, to)'
  <2>1. (MaxElapsed - (to - from)) * MaxUse = c
    BY <1>2, Zenon
  <2> QED
    BY <1>7, <1>12, <2>1 DEF Dropped
<1>13. ASSUME /\ (i - e) - (f - g) = (energy[n] + used - given) - energy[from]
              /\ i <= f + (a + MaxUse)
       PROVE  Same(from, to)'
  <2>1. (to - from) * MaxUse = a + MaxUse
    BY <1>2, <1>3, Zenon
  <2> QED
    BY <1>7, <1>13, <2>1 DEF Same, Net
<1> HIDE DEF f, g, l, m, i, e, a, b, c, d
<1>14. CASE ~reset /\ Same(from, n)
  <2>1. i = l + used /\ e = m + given
    BY <1>7, <1>14
  <2>2. i \in Int /\ e \in Int
    BY <2>1, <1>4, <1>6
  <2>3. (i - e) - (f - g) = (energy[n] + used - given) - energy[from]
    BY <2>1, <1>4, <1>5, <1>6, <1>10, <1>14
  <2>4. i <= f + (a + MaxUse)
    BY <2>1, <1>1, <1>3, <1>4, <1>6, <1>10, <1>14
  <2> QED
    BY <2>3, <2>4, <1>13
<1>15. CASE reset \/ Dropped(from, n)
  <2>1. i <= l + used
    BY <1>4, <1>6, <1>7
  <2>2. CASE Dropped(from, n)
    BY <2>1, <2>2, <1>1, <1>3, <1>4, <1>6, <1>7, <1>11, <1>12
  <2>3. CASE reset /\ Same(from, n)
    BY <2>3, <1>1, <1>3, <1>4, <1>6, <1>7, <1>8, <1>10, <1>12
  <2> QED
    BY <2>2, <2>3, <1>9, <1>15
<1> QED
  BY <1>9, <1>14, <1>15

-----------------------------------------------------------------------------
(* The invariant. *)

LEMMA FeedInitInv == FeedInit => FeedInv
<1> SUFFICES ASSUME FeedInit PROVE FeedInv
  OBVIOUS
<1> DEFINE p == Packet(1, Start, 0)
<1>1. /\ packets = <<p>> /\ energy = <<0>> /\ acc = NewAccumulator(None) /\ outcome.data = None
  BY DEF FeedInit, Init
<1>2. Start \in Nat /\ MaxUse \in Nat /\ MaxMinutes \in Nat \ {0} /\ MaxElapsed \in Nat
  BY FeedAssumption, NumbersAssumption
<1>3. p \in Records /\ p.timestamp = 1 /\ p.import_energy_kwh = Start /\ p.export_energy_kwh = 0
  BY <1>2 DEF Packet, Records
<1>4. p \in Sample
  <2>1. MaxMinutes * MaxUse \in Nat
    BY <1>2
  <2>2. {0, Start} \subseteq 0 .. Start + MaxMinutes * MaxUse /\ 1 \in 1 .. MaxMinutes
    BY <1>2, <2>1
  <2>3. {0, Start} \subseteq Energies /\ 1 \in Timestamps /\ Item \in Items
    BY <2>2, FeedAssumption
  <2> QED
    BY <2>3 DEF Packet, Sample
<1> HIDE DEF p
<1>5. /\ Len(packets) = 1 /\ Len(energy) = 1 /\ packets[1] = p /\ energy[1] = 0
      /\ Times = {1}
  BY <1>1 DEF Times
<1>6. IInv /\ FeedTypeOK
  <2>1. IInv
    BY InitIInv DEF FeedInit
  <2>2. \A t \in 1 .. Len(packets) : packets[t] \in Sample /\ packets[t].timestamp = t
    BY <1>3, <1>4, <1>5
  <2> QED
    BY <1>1, <1>2, <1>5, <2>1, <2>2 DEF FeedTypeOK, IInv
<1>7. Counters
  <2>1. packets \in Seq(Records) /\ energy \in Seq(Int)
    BY <1>1, <1>3
  <2>2. Start <= Start + 1 * MaxUse /\ 0 <= Start + 1 * MaxUse
    BY <1>2
  <2> QED
    BY <1>3, <1>5, <2>1, <2>2 DEF Counters
<1>8. History
  <2>1. Same(1, 1)
    <3>1. Net(p) \in Int /\ p.import_energy_kwh \in Nat /\ (1 - 1) * MaxUse = 0
      BY <1>2, <1>3 DEF Net
    <3> QED
      BY <3>1, <1>5 DEF Same
  <2> QED
    BY <2>1, <1>5 DEF History
<1>9. Holds /\ ReadingIsTrue
  BY <1>1 DEF Holds, ReadingIsTrue, NewAccumulator
<1> QED
  BY <1>6, <1>7, <1>8, <1>9 DEF FeedInv

LEMMA MinuteInv ==
    ASSUME FeedInv, NEW used \in 0 .. MaxUse, NEW given \in 0 .. MaxUse,
           NEW reset \in BOOLEAN, Minute(used, given, reset)
    PROVE  FeedInv'
<1> DEFINE n == Len(packets)
           new == packets'[n + 1]
<1>1. IInv /\ FeedTypeOK /\ Counters /\ History /\ Holds /\ ReadingIsTrue
  BY DEF FeedInv
<1>2. /\ n \in Nat \ {0} /\ n + 1 <= MaxMinutes /\ n \in Times
      /\ Len(packets') = n + 1 /\ Len(energy') = n + 1
      /\ packets' \in Seq(Records) /\ energy' \in Seq(Int)
  BY MinuteFacts DEF Times
<1>3. Times' = Times \cup {n + 1} /\ n + 1 \notin Times
  BY <1>2 DEF Times
<1>4. \A t \in Times : packets'[t] = packets[t] /\ energy'[t] = energy[t]
  BY MinuteFacts
<1>5. UNCHANGED vars /\ acc' = acc /\ outcome' = outcome
  BY DEF Minute, vars
<1>6. /\ new.import_energy_kwh \in Nat /\ new.import_energy_kwh <= Start + (n + 1) * MaxUse
      /\ new.export_energy_kwh \in Nat /\ new.export_energy_kwh <= Start + (n + 1) * MaxUse
  <2> DEFINE i == LastPacket.import_energy_kwh
             e == LastPacket.export_energy_kwh
  <2>1. /\ MaxUse \in Nat /\ Start \in Nat
        /\ used \in Nat /\ given \in Nat /\ used <= MaxUse /\ given <= MaxUse
    BY FeedAssumption
  <2>2. n * MaxUse \in Nat /\ (n + 1) * MaxUse = n * MaxUse + MaxUse
    BY <1>2, <2>1
  <2>3. /\ i \in Nat /\ i <= Start + n * MaxUse
        /\ e \in Nat /\ e <= Start + n * MaxUse
    BY <1>1, <1>2, PacketTypes DEF LastPacket, Counters
  <2>4. /\ new.import_energy_kwh = (IF reset THEN 0 ELSE i) + used
        /\ new.export_energy_kwh = (IF reset THEN 0 ELSE e) + given
    BY MinuteFacts
  <2> HIDE DEF i, e, new, n
  <2> QED
    BY <2>1, <2>2, <2>3, <2>4
<1>7. new \in Sample /\ new.timestamp = n + 1
  <2>1. new \in Records
    BY <1>2, ElementOfSeq
  <2>2. new.item_id = Item /\ new.timestamp = n + 1
    BY MinuteFacts
  <2>3. MaxMinutes \in Nat /\ MaxUse \in Nat /\ Start \in Nat
    BY FeedAssumption
  <2>4. /\ (n + 1) * MaxUse <= MaxMinutes * MaxUse
        /\ (n + 1) * MaxUse \in Nat /\ MaxMinutes * MaxUse \in Nat
    BY <1>2, <2>3, Products
  <2>5. {new.import_energy_kwh, new.export_energy_kwh} \subseteq Energies
    <3>1. {new.import_energy_kwh, new.export_energy_kwh} \subseteq 0 .. Start + MaxMinutes * MaxUse
      <4> HIDE DEF new, n
      <4> QED
        BY <1>6, <2>3, <2>4
    <3> QED
      BY <3>1, FeedAssumption
  <2>6. n + 1 \in Timestamps /\ Item \in Items
    BY <1>2, <2>3, FeedAssumption
  <2> HIDE DEF new
  <2> QED
    BY <2>1, <2>2, <2>5, <2>6 DEF Records, Sample
<1>8. IInv' /\ FeedTypeOK'
  <2>0. IInv'
    BY <1>1, <1>5, NextIInv
  <2>1. \A t \in Times' : packets'[t] \in Sample /\ packets'[t].timestamp = t
    BY <1>1, <1>3, <1>4, <1>7 DEF FeedTypeOK, Times
  <2>2. Len(packets') \in 1 .. MaxMinutes /\ Len(energy') = Len(packets')
    BY <1>2, FeedAssumption
  <2> QED
    BY <2>0, <2>1, <2>2 DEF FeedTypeOK, IInv, Times
<1>9. Counters'
  BY <1>1, <1>2, <1>3, <1>4, <1>6 DEF Counters
<1>10. History'
  <2> SUFFICES ASSUME NEW from \in Times', NEW to \in Times',
                      from <= to, to - from <= MaxElapsed
               PROVE  Same(from, to)' \/ Dropped(from, to)'
    BY DEF History
  <2>1. CASE to \in Times
    <3>1. from \in Times
      BY <1>2, <2>1 DEF Times
    <3>2. Same(from, to) \/ Dropped(from, to)
      BY <1>1, <2>1, <3>1 DEF History
    <3> QED
      BY <3>1, <3>2, <2>1, <1>4 DEF Same, Dropped
  <2>2. CASE from \in Times /\ to = n + 1
    BY <1>2, <2>2, MinutePairs
  <2>3. CASE from = n + 1 /\ to = n + 1
    <3>1. Net(new) \in Int /\ new.import_energy_kwh \in Nat
      BY <1>6 DEF Net
    <3>2. energy'[n + 1] \in Int
      BY <1>2, ElementOfSeq
    <3>3. (to - from) * MaxUse = 0
      <4>1. to - from = 0 /\ MaxUse \in Nat
        BY <2>3, <1>2, FeedAssumption
      <4> QED
        BY <4>1
    <3> QED
      BY <2>3, <3>1, <3>2, <3>3 DEF Same
  <2> QED
    BY <2>1, <2>2, <2>3, <1>2, <1>3 DEF Times
<1>11. Holds'
  BY <1>1, <1>3, <1>4, <1>5 DEF Holds, Packets
<1>12. ReadingIsTrue'
  BY <1>1, <1>3, <1>4, <1>5 DEF ReadingIsTrue
<1> QED
  BY <1>8, <1>9, <1>10, <1>11, <1>12 DEF FeedInv

(* The power of two packets that calculate_grid_power_w accepts is true. *)
LEMMA AcceptedIsTrue ==
    ASSUME FeedInv, NEW from \in Times, NEW to \in Times,
           DeltaError(packets[from], packets[to]) = NoError
    PROVE  LET power == GridPower(packets[from], packets[to])
           IN power.elapsed = to - from /\ power.net = energy[to] - energy[from]
<1>1. /\ packets[from] \in Sample /\ packets[to] \in Sample
      /\ packets[from].timestamp = from /\ packets[to].timestamp = to
  BY DEF FeedInv, FeedTypeOK, Times
<1>2. /\ from < to /\ to - from <= MaxElapsed
      /\ ~Decreased(packets[from], packets[to])
  <2>1. from \in Int /\ to \in Int
    BY DEF Times
  <2> QED
    BY <1>1, <2>1, DeltaErrorFacts DEF Elapsed
<1>3. ~Dropped(from, to)
  <2> DEFINE f == packets[from].import_energy_kwh
             i == packets[to].import_energy_kwh
             d == MaxElapsed - (to - from)
  <2>1. f \in Nat /\ i \in Nat /\ d \in Nat /\ MaxUse \in Nat
    BY <1>2, PacketTypes, FeedAssumption, NumbersAssumption DEF FeedInv, Times
  <2>2. i >= f
    BY <1>2, <2>1 DEF Decreased
  <2>3. d * MaxUse \in Nat
    BY <2>1
  <2>4. Dropped(from, to) <=> f > i + d * MaxUse
    BY DEF Dropped
  <2> HIDE DEF f, i, d
  <2> QED
    BY <2>1, <2>2, <2>3, <2>4
<1>4. Same(from, to)
  <2>1. from <= to
    BY <1>2 DEF Times
  <2> QED
    BY <1>2, <1>3, <2>1 DEF FeedInv, History
<1>5. /\ packets[from].import_energy_kwh \in Nat /\ packets[from].export_energy_kwh \in Nat
      /\ packets[to].import_energy_kwh \in Nat /\ packets[to].export_energy_kwh \in Nat
  BY PacketTypes DEF FeedInv
<1>6. Net(packets[to]) - Net(packets[from]) = energy[to] - energy[from]
  BY <1>4 DEF Same
<1>7. GridPower(packets[from], packets[to]).net = Net(packets[to]) - Net(packets[from])
  BY <1>5 DEF GridPower, Net
<1> QED
  BY <1>1, <1>6, <1>7 DEF GridPower, Elapsed

LEMMA DeliverInv ==
    ASSUME FeedInv, NEW t \in Times, Deliver(t)
    PROVE  FeedInv'
<1> DEFINE s == packets[t]
           u == Update(acc, s)
           baseline  == acc.last_sample
           candidate == acc.counter_reset_candidate
<1>1. IInv /\ FeedTypeOK /\ Counters /\ History /\ Holds /\ ReadingIsTrue
  BY DEF FeedInv
<1>2. packets' = packets /\ energy' = energy /\ acc' = u.acc /\ outcome'.data = u.data
  BY DEF Deliver, Receive
<1>3. s \in Sample /\ s \in Packets /\ acc \in Accumulator
  BY <1>1 DEF FeedTypeOK, TypeOK, Times, Packets
<1>4. {baseline, candidate} \subseteq Packets \cup {None}
  BY <1>1 DEF Holds
<1>5. \/ u = ResetBaseline(acc, s)
      \/ /\ u = PublishDelta(acc, baseline, s)
         /\ baseline # None /\ DeltaError(baseline, s) = NoError
      \/ /\ u = PublishDelta(acc, candidate, s)
         /\ candidate # None /\ DeltaError(candidate, s) = NoError
      \/ u = NewCandidate(acc, s)
      \/ u.acc = acc /\ u.data = None
  BY <1>3, UpdateCases
<1>6. IInv' /\ FeedTypeOK'
  <2>1. IInv'
    BY <1>1, <1>3, ReceiveIInv DEF Deliver
  <2> QED
    BY <1>1, <1>2, <2>1 DEF FeedTypeOK, IInv
<1>7. Counters' /\ History'
  BY <1>1, <1>2 DEF Counters, History, Same, Dropped, Times, Net
<1>8. Packets' = Packets /\ Times' = Times
  BY <1>2 DEF Packets, Times
<1>9. Holds'
  <2>1. {u.acc.last_sample, u.acc.counter_reset_candidate} \subseteq Packets \cup {None}
    <3> HIDE DEF s, u
    <3> QED
      BY <1>3, <1>4, <1>5
      DEF ResetBaseline, PublishDelta, NewCandidate, Returned, NewAccumulator
  <2> QED
    BY <1>2, <1>8, <2>1 DEF Holds
<1>10. ReadingIsTrue'
  <2>1. u.data # None => \E p \in Packets :
            u.data = ReadingFrom(p, s) /\ DeltaError(p, s) = NoError
    <3> HIDE DEF s, u
    <3> QED
      BY <1>4, <1>5
      DEF ResetBaseline, PublishDelta, NewCandidate, Returned
  <2> SUFFICES ASSUME u.data # None
               PROVE  \E from, to \in Times :
                         /\ u.data.timestamp = to
                         /\ u.data.grid_power_w.elapsed = to - from
                         /\ u.data.grid_power_w.net = energy[to] - energy[from]
    BY <1>2, <1>8 DEF ReadingIsTrue
  <2>2. PICK from \in Times :
            u.data = ReadingFrom(packets[from], s) /\ DeltaError(packets[from], s) = NoError
    BY <2>1 DEF Packets
  <2>3. /\ u.data.timestamp = s.timestamp
        /\ u.data.grid_power_w = GridPower(packets[from], s)
    BY <2>2 DEF ReadingFrom
  <2>4. s.timestamp = t
    BY <1>1 DEF FeedTypeOK, Times
  <2> QED
    BY <2>2, <2>3, <2>4, AcceptedIsTrue
<1> QED
  BY <1>6, <1>7, <1>9, <1>10 DEF FeedInv

LEMMA FeedNextInv == FeedInv /\ [FeedNext]_feedVars => FeedInv'
<1> SUFFICES ASSUME FeedInv, [FeedNext]_feedVars PROVE FeedInv'
  OBVIOUS
<1>1. CASE UNCHANGED feedVars
  <2>1. IInv'
    BY <1>1, NextIInv DEF feedVars, FeedInv
  <2>2. UNCHANGED <<acc, outcome, packets, energy>>
    BY <1>1 DEF feedVars, vars
  <2> QED
    BY <2>1, <2>2 DEF FeedInv, IInv, FeedTypeOK, Counters, History, Same, Dropped, Net, Times,
                      Packets, Holds, ReadingIsTrue
<1>2. ASSUME NEW used \in 0 .. MaxUse, NEW given \in 0 .. MaxUse, NEW reset \in BOOLEAN,
             Minute(used, given, reset)
      PROVE  FeedInv'
  BY <1>2, MinuteInv
<1>3. ASSUME NEW t \in 1 .. Len(packets), Deliver(t) PROVE FeedInv'
  BY <1>3, DeliverInv DEF Times
<1>4. CASE DeliverStale
  <2>1. /\ IInv'
        /\ packets' = packets /\ energy' = energy
        /\ acc'.last_sample = acc.last_sample
        /\ acc'.counter_reset_candidate = acc.counter_reset_candidate
        /\ outcome'.data = None
    BY <1>4, ClearStaleIInv DEF DeliverStale, ClearStale, FeedInv, IInv, TypeOK, Accumulator
  <2> QED
    BY <2>1 DEF FeedInv, IInv, FeedTypeOK, Counters, History, Same, Dropped, Net, Times,
                Packets, Holds, ReadingIsTrue
<1> QED
  BY <1>1, <1>2, <1>3, <1>4 DEF FeedNext

THEOREM FeedInvariance == FeedSpec => []FeedInv
BY FeedInitInv, FeedNextInv, PTL DEF FeedSpec

-----------------------------------------------------------------------------
(* The meter's history and the accumulator keep their types. *)
THEOREM FeedTypeCorrect == FeedSpec => []FeedTypeOK
<1>1. FeedInv => FeedTypeOK
  BY DEF FeedInv
<1> QED
  BY <1>1, FeedInvariance, PTL

(* Every power published is the net energy that passed the meter in the    *)
(* minutes it spans: for any meter that uses at most MaxUse a minute, any  *)
(* window and any order, loss and repetition of packets, and across resets *)
(* of a counter that stood higher than a window can fill.                  *)
THEOREM TruePowerCorrect == FeedSpec => []TruePower
<1>1. FeedInv => TruePower
  <2> SUFFICES ASSUME FeedInv, outcome.data # None
               PROVE  outcome.data.grid_power_w.net =
                         energy[outcome.data.timestamp]
                         - energy[outcome.data.timestamp - outcome.data.grid_power_w.elapsed]
    BY DEF TruePower
  <2>1. PICK from \in Times, to \in Times :
            /\ outcome.data.timestamp = to
            /\ outcome.data.grid_power_w.elapsed = to - from
            /\ outcome.data.grid_power_w.net = energy[to] - energy[from]
    BY DEF FeedInv, ReadingIsTrue
  <2>2. to - (to - from) = from
    BY DEF Times
  <2> QED
    BY <2>1, <2>2
<1> QED
  BY <1>1, FeedInvariance, PTL
=============================================================================
