------------------------- MODULE PerificEntryProofs -------------------------
(***************************************************************************)
(* Safety of one config entry, for every meter, counter and timestamp set  *)
(* and every window, over any sequence of set-ups, refreshes, unloads,     *)
(* removals and crashes; then under the two faults; then with a clock.     *)
(***************************************************************************)
EXTENDS PerificFreshness, PerificEntryFaults, GridPowerMeterProofs

Running == {"loading", "loaded", "unloading", "failed_unload"}

(* the sample is at least as new as every reading shown *)
Covers(sample) == shown # None => sample # None /\ sample.timestamp >= shown

(* Which parts of the entry exist in which of its states. *)
LifeInv ==
    /\ entry \in Running => accumulator # None
    /\ entry = "not_loaded" => accumulator = None
    /\ phase # "idle" => accumulator # None /\ (entry \in Running \/ Gone)
    /\ entry = "loading" => phase # "idle" /\ data = None
    /\ Gone => shown = None
    /\ entry = "erasing" => cache # Unloaded /\ phase # "writing"
    /\ accumulator # None => cache # Unloaded
    /\ revived => entry = "removed"

(* What a refresh is writing is what it came to save. *)
WriteInv ==
    /\ phase \in {"locking", "writing"} => saving # None
    /\ phase = "writing" => cache = saving

(* What holds whatever samples come and whoever saves to the entry's slot. *)
Frame == TypeOK /\ LifeInv /\ WriteInv

(* The store on the way to the entry's removal and after it, if every      *)
(* write succeeds.                                                         *)
EmptyStore ==
    /\ entry = "removed" /\ ~revived => cache \in {None, Unloaded} /\ disk = None
    /\ entry = "erasing" => cache = None
    /\ cache = None /\ entry # "erasing" => disk = None

(* The object keeps its promises; its baseline is as new as what was       *)
(* shown, and so is the sample a set-up would start from.                  *)
BaselineInv ==
    /\ accumulator # None => /\ CandidateOf(accumulator)
                             /\ ReadingOf(accumulator)
                             /\ Covers(accumulator.last_sample)
    /\ IF cache = Unloaded THEN Covers(disk) ELSE Covers(cache)
    /\ repeats = 0

(* A refresh on its way through the store saves the accumulator's baseline *)
(* and will return what the accumulator holds; a power it will return is   *)
(* newer than all that were shown.                                         *)
SavingInv ==
    phase \in {"locking", "writing"} =>
        /\ saving = accumulator.last_sample
        /\ result # None
        /\ IF result.grid_power_w # None
           THEN result = accumulator.last_data
           ELSE accumulator.last_data = None
        /\ result.status = Ready =>
              /\ result.grid_power_w # None
              /\ result.timestamp = saving.timestamp
              /\ shown # None => result.timestamp > shown

(* A displayed power is the accumulator's, also while unloading. *)
DisplayInv ==
    entry \in {"loaded", "unloading", "failed_unload"} /\ phase \in {"idle", "requesting"} =>
        /\ data # None
        /\ IF data.grid_power_w # None
           THEN data = accumulator.last_data
           ELSE accumulator.last_data = None

(* What holds however the writes to the file go, and whatever else is      *)
(* saved under the entry's id as long as it is not older than what it      *)
(* replaces.                                                               *)
CoreInv == Frame /\ BaselineInv /\ SavingInv /\ DisplayInv

(* StoredBaseline is what else holds when nobody but the entry's own       *)
(* refresh saves to its slot.                                              *)
IInv == CoreInv /\ Covers(disk) /\ EmptyStore /\ StoredBaseline

(* what a step of the entry does to the parts of it *)
KeepsFrame ==
    /\ Frame'
    /\ EmptyStore => EmptyStore'

Preserves ==
    /\ CoreInv'
    /\ Covers(disk) => Covers(disk)'
    /\ StoredBaseline => StoredBaseline'

(* The special values are distinct and timestamps are numbers. *)
LEMMA Values ==
    /\ None # Unloaded
    /\ \A s \in Sample : s # None /\ s # Unloaded /\ s.timestamp \in Int
    /\ \A a \in Accumulator : a # None
    /\ \A d \in Data : d # None
  <1>1. \A s \in Sample : s.timestamp \in Int
    BY NumbersAssumption DEF Sample
  <1> QED BY <1>1, NoneAssumption, EntryAssumption

(* A new object has no candidate and no reading. *)
LEMMA NewAccumulatorFacts ==
    ASSUME NEW s \in Sample \cup {None}
    PROVE  LET a == NewAccumulator(s)
           IN /\ a \in Accumulator
              /\ a.last_sample = s
              /\ a.last_data = None
              /\ CandidateOf(a)
              /\ ReadingOf(a)
  BY DEF NewAccumulator, Accumulator, CandidateOf, ReadingOf

(* What the coordinator returns when there is no power is typed. *)
LEMMA WithoutPowerFacts ==
    ASSUME NEW ts \in Timestamps, NEW status \in {BaselineRequired, StalePhaseMinute}
    PROVE  /\ WithoutPower(ts, status) \in Data
           /\ WithoutPower(ts, status).grid_power_w = None
           /\ WithoutPower(ts, status).timestamp = ts
           /\ WithoutPower(ts, status).status # Ready
  BY EntryAssumption
  DEF WithoutPower, Data, Statuses, Ready, BaselineRequired, StalePhaseMinute

-----------------------------------------------------------------------------
(***************************************************************************)
(* The frame: which parts of the entry exist when, whatever the samples    *)
(* are.  One lemma for each action.                                        *)
(***************************************************************************)

LEMMA InitFrame == Init => Frame /\ EmptyStore
  <1> SUFFICES ASSUME Init PROVE Frame /\ EmptyStore
    OBVIOUS
  <1>1. TypeOK
    <2>1. revived \in BOOLEAN
      BY Zenon DEF Init
    <2> QED BY <2>1 DEF Init, TypeOK, EntryStates, Phases, Refreshes
  <1>2. LifeInv /\ WriteInv /\ EmptyStore
    BY EntryAssumption DEF Init, LifeInv, WriteInv, EmptyStore, Running, Gone
  <1> QED BY <1>1, <1>2 DEF Frame

LEMMA SetupFrame ==
    ASSUME Frame, Setup
    PROVE  KeepsFrame
  <1>1. /\ entry \in {"not_loaded", "setup_retry", "setup_error"}
        /\ entry' = "loading"
        /\ cache' = IF cache = Unloaded THEN disk ELSE cache
        /\ accumulator' = IF accumulator = None THEN NewAccumulator(cache') ELSE accumulator
        /\ phase' = "requesting"
        /\ data' = None /\ refreshed' = "never"
        /\ UNCHANGED <<saving, result, disk, shown, repeats, revived>>
    BY DEF Setup, Drop, history
  <1>2. cache' \in Sample \cup {None} /\ cache' # Unloaded
    BY <1>1, Values DEF Frame, TypeOK
  <1>3. accumulator' \in Accumulator /\ accumulator' # None
    BY <1>1, <1>2, NewAccumulatorFacts, Values DEF Frame, TypeOK
  <1>4. TypeOK'
    BY <1>1, <1>2, <1>3 DEF Frame, TypeOK, EntryStates, Phases, Refreshes
  <1>5. LifeInv' /\ WriteInv'
    BY <1>1, <1>2, <1>3 DEF Frame, LifeInv, WriteInv, Running, Gone
  <1>6. EmptyStore => EmptyStore'
    BY <1>1 DEF EmptyStore
  <1> QED BY <1>4, <1>5, <1>6 DEF KeepsFrame, Frame

LEMMA UnloadBeginsFrame ==
    ASSUME Frame, UnloadBegins
    PROVE  KeepsFrame
  <1> USE DEF UnloadBegins, poll, store, history
  <1>1. TypeOK'
    BY DEF Frame, TypeOK, EntryStates
  <1>2. LifeInv' /\ WriteInv'
    BY DEF Frame, LifeInv, WriteInv, Running, Gone
  <1>3. EmptyStore => EmptyStore'
    BY DEF EmptyStore
  <1> QED BY <1>1, <1>2, <1>3 DEF KeepsFrame, Frame

(* What an interrupted write may leave in the file. *)
LEMMA InterruptFrame ==
    ASSUME Frame, NEW d \in DiskAfterInterrupt
    PROVE  /\ d \in Sample \cup {None}
           /\ EmptyStore /\ cache = None /\ entry # "erasing" => d = None
           /\ EmptyStore /\ entry = "removed" /\ ~revived => d = None
  <1>1. phase = "writing" => cache \in Sample /\ cache # None /\ cache # Unloaded
    BY Values DEF Frame, TypeOK, WriteInv
  <1> QED BY <1>1 DEF Frame, TypeOK, LifeInv, EmptyStore, DiskAfterInterrupt

LEMMA UnloadFrame ==
    ASSUME Frame, Unload
    PROVE  KeepsFrame
  <1>1. /\ entry = "unloading" /\ entry' = "not_loaded"
        /\ accumulator' = None
        /\ data' = None /\ refreshed' = "never"
        /\ phase' = "idle" /\ saving' = None /\ result' = None
        /\ UNCHANGED <<cache, shown, repeats, revived>>
    BY DEF Unload, Drop, Idle, history
  <1>2. disk' \in Sample \cup {None} /\ (EmptyStore /\ cache = None => disk' = None)
    BY <1>1, InterruptFrame DEF Unload
  <1>3. TypeOK'
    BY <1>1, <1>2 DEF Frame, TypeOK, EntryStates, Phases, Refreshes
  <1>4. LifeInv' /\ WriteInv'
    BY <1>1 DEF Frame, LifeInv, WriteInv, Running, Gone
  <1>5. EmptyStore => EmptyStore'
    BY <1>1, <1>2 DEF EmptyStore
  <1> QED BY <1>3, <1>4, <1>5 DEF KeepsFrame, Frame

LEMMA UnloadFailsFrame ==
    ASSUME Frame, UnloadFails
    PROVE  KeepsFrame
  <1> USE DEF UnloadFails, poll, store, history
  <1>1. TypeOK'
    BY DEF Frame, TypeOK, EntryStates
  <1>2. LifeInv' /\ WriteInv'
    BY DEF Frame, LifeInv, WriteInv, Running, Gone
  <1>3. EmptyStore => EmptyStore'
    BY DEF EmptyStore
  <1> QED BY <1>1, <1>2, <1>3 DEF KeepsFrame, Frame

(* The removal of an entry that failed to unload leaves its coordinator.   *)
LEMMA RemoveFrame ==
    ASSUME Frame, Remove
    PROVE  KeepsFrame
  <1>1. /\ entry \in {"not_loaded", "setup_retry", "setup_error", "failed_unload"}
        /\ entry' = "removing"
        /\ accumulator' = IF entry = "failed_unload" THEN accumulator ELSE None
        /\ shown' = None
        /\ UNCHANGED <<phase, saving, result, data, refreshed, cache, disk, repeats, revived>>
    BY DEF Remove, poll, store
  <1>2. TypeOK'
    BY <1>1 DEF Frame, TypeOK, EntryStates
  <1>3. LifeInv' /\ WriteInv'
    BY <1>1 DEF Frame, LifeInv, WriteInv, Running, Gone
  <1>4. EmptyStore => EmptyStore'
    BY <1>1 DEF EmptyStore
  <1> QED BY <1>2, <1>3, <1>4 DEF KeepsFrame, Frame

LEMMA RemoveSampleFrame ==
    ASSUME Frame, RemoveSample
    PROVE  KeepsFrame
  <1>1. /\ entry = "removing" /\ phase # "writing"
        /\ cache' = None
        /\ entry' \in {"erasing", "removed"}
        /\ entry' = "removed" => (IF cache = Unloaded THEN disk ELSE cache) = None
        /\ UNCHANGED <<accumulator, phase, saving, result, data, refreshed, disk,
                       shown, repeats, revived>>
    BY DEF RemoveSample, poll, history
  <1>2. TypeOK'
    BY <1>1 DEF Frame, TypeOK, EntryStates
  <1>3. LifeInv' /\ WriteInv'
    BY <1>1, Values DEF Frame, LifeInv, WriteInv, Running, Gone
  <1>4. EmptyStore => EmptyStore'
    BY <1>1 DEF EmptyStore
  <1> QED BY <1>2, <1>3, <1>4 DEF KeepsFrame, Frame

(* Erasing ends, whatever is in the file then. *)
LEMMA EraseEndsFrame ==
    ASSUME Frame, entry = "erasing", entry' = "removed",
           disk' \in Sample \cup {None},
           UNCHANGED <<accumulator, phase, saving, result, data, refreshed,
                       cache, shown, repeats, revived>>
    PROVE  Frame'
  <1>1. TypeOK'
    BY DEF Frame, TypeOK, EntryStates
  <1>2. LifeInv' /\ WriteInv'
    BY DEF Frame, LifeInv, WriteInv, Running, Gone
  <1> QED BY <1>1, <1>2 DEF Frame

LEMMA EraseSampleFrame ==
    ASSUME Frame, EraseSample
    PROVE  KeepsFrame
  <1>1. /\ entry = "erasing" /\ entry' = "removed"
        /\ disk' = cache /\ cache \in Sample \cup {None}
        /\ UNCHANGED <<accumulator, phase, saving, result, data, refreshed, cache,
                       shown, repeats, revived>>
    BY DEF EraseSample, poll, history, Frame, TypeOK, LifeInv
  <1>2. Frame'
    BY <1>1, EraseEndsFrame
  <1>3. EmptyStore => EmptyStore'
    BY <1>1 DEF EmptyStore
  <1> QED BY <1>2, <1>3 DEF KeepsFrame

LEMMA SaveToCacheFrame ==
    ASSUME Frame, SaveToCache
    PROVE  KeepsFrame
  <1>1. /\ phase = "locking" /\ phase' = "writing" /\ entry # "erasing"
        /\ cache' = saving
        /\ revived' = (revived \/ entry = "removed")
        /\ UNCHANGED <<entry, accumulator, saving, result, data, refreshed,
                       disk, shown, repeats>>
    BY DEF SaveToCache
  <1>2. saving \in Sample /\ saving # None /\ saving # Unloaded
    BY <1>1, Values DEF Frame, TypeOK, WriteInv
  <1>3. revived' \in BOOLEAN
    BY <1>1, Zenon DEF Frame, TypeOK
  <1>4. TypeOK'
    BY <1>1, <1>2, <1>3 DEF Frame, TypeOK, Phases
  <1>5. LifeInv' /\ WriteInv'
    BY <1>1, <1>2 DEF Frame, LifeInv, WriteInv, Running, Gone
  <1>6. EmptyStore => EmptyStore'
    BY <1>1, <1>2 DEF EmptyStore
  <1> QED BY <1>4, <1>5, <1>6 DEF KeepsFrame, Frame

LEMMA OtherEntryLoadsFrame ==
    ASSUME Frame, OtherEntryLoads
    PROVE  KeepsFrame
  <1>1. /\ cache = Unloaded /\ cache' = disk
        /\ UNCHANGED <<entry, accumulator, phase, saving, result, data, refreshed,
                       disk, shown, repeats, revived>>
    BY DEF OtherEntryLoads, poll, history
  <1>2. TypeOK'
    BY <1>1 DEF Frame, TypeOK
  <1>3. LifeInv' /\ WriteInv'
    BY <1>1, Values DEF Frame, TypeOK, LifeInv, WriteInv, Running, Gone
  <1>4. EmptyStore => EmptyStore'
    BY <1>1, Values DEF EmptyStore, Frame, LifeInv
  <1> QED BY <1>2, <1>3, <1>4 DEF KeepsFrame, Frame

LEMMA OtherEntrySavesFrame ==
    ASSUME Frame, OtherEntrySaves
    PROVE  KeepsFrame
  <1>1. /\ cache # Unloaded /\ entry # "erasing"
        /\ disk' = cache
        /\ UNCHANGED <<entry, accumulator, phase, saving, result, data, refreshed,
                       cache, shown, repeats, revived>>
    BY DEF OtherEntrySaves, poll, history
  <1>2. TypeOK'
    BY <1>1 DEF Frame, TypeOK
  <1>3. LifeInv' /\ WriteInv'
    BY <1>1 DEF Frame, LifeInv, WriteInv, Running, Gone
  <1>4. EmptyStore => EmptyStore'
    BY <1>1 DEF EmptyStore
  <1> QED BY <1>2, <1>3, <1>4 DEF KeepsFrame, Frame

LEMMA StartRefreshFrame ==
    ASSUME Frame, StartRefresh
    PROVE  KeepsFrame
  <1>1. /\ entry \in Running \/ Gone
        /\ accumulator # None
        /\ phase = "idle" /\ phase' = "requesting"
        /\ UNCHANGED <<entry, accumulator, saving, result, data, refreshed,
                       cache, disk, shown, repeats, revived>>
    BY DEF StartRefresh, Polls, Running, Gone, store, history
  <1>2. TypeOK'
    BY <1>1 DEF Frame, TypeOK, Phases
  <1>3. LifeInv' /\ WriteInv'
    BY <1>1 DEF Frame, LifeInv, WriteInv, Running, Gone
  <1>4. EmptyStore => EmptyStore'
    BY <1>1 DEF EmptyStore
  <1> QED BY <1>2, <1>3, <1>4 DEF KeepsFrame, Frame

(* What the end of a refresh does to the entry and its history. *)
LEMMA EndRefreshFacts ==
    ASSUME Frame, phase # "idle", NEW o \in Data \cup {None}, EndRefresh(o)
    PROVE  /\ phase' = "idle" /\ saving' = None /\ result' = None
           /\ entry' \in EntryStates
           /\ entry' # entry => entry = "loading" /\ entry' \in {"loaded", "setup_retry"}
           /\ entry' # "loading"
           /\ data' \in Data \cup {None}
           /\ refreshed' \in Refreshes
           /\ shown' \in Timestamps \cup {None}
           /\ Gone => UNCHANGED shown
           /\ repeats' \in 0 .. 1
           /\ UNCHANGED revived
  <1>1. phase' = "idle" /\ saving' = None /\ result' = None
    BY DEF EndRefresh, Idle
  <1>2. TypeOK
    BY DEF Frame
  <1>3. CASE o = None
    BY <1>1, <1>2, <1>3 DEF EndRefresh, Fail, Drop, history, TypeOK, EntryStates, Refreshes
  <1>4. CASE o # None
    <2>1. o \in Data /\ o.timestamp \in Timestamps /\ Show(o)
      BY <1>4 DEF EndRefresh, Data
    <2>2. /\ shown' \in Timestamps \cup {None}
          /\ Gone => UNCHANGED shown
          /\ repeats' \in 0 .. 1
          /\ UNCHANGED revived
      BY <1>2, <2>1 DEF Show, history, TypeOK
    <2> QED BY <1>1, <1>2, <2>1, <2>2 DEF Show, TypeOK, EntryStates, Refreshes
  <1> QED BY <1>3, <1>4

(* The end of a refresh, whatever is in the file then. *)
LEMMA EndRefreshFrame ==
    ASSUME Frame, phase # "idle", NEW o \in Data \cup {None}, EndRefresh(o),
           accumulator' \in Accumulator, UNCHANGED cache, disk' \in Sample \cup {None}
    PROVE  /\ Frame'
           /\ disk' = disk \/ (phase = "writing" /\ disk' = cache)
                 => (EmptyStore => EmptyStore')
  <1>1. /\ phase' = "idle" /\ saving' = None /\ result' = None
        /\ entry' \in EntryStates
        /\ entry' # entry => entry = "loading" /\ entry' \in {"loaded", "setup_retry"}
        /\ entry' # "loading"
        /\ data' \in Data \cup {None}
        /\ refreshed' \in Refreshes
        /\ shown' \in Timestamps \cup {None}
        /\ Gone => UNCHANGED shown
        /\ repeats' \in 0 .. 1
        /\ UNCHANGED revived
    BY EndRefreshFacts
  <1>2. accumulator' # None
    BY Values
  <1>3. TypeOK'
    BY <1>1 DEF Frame, TypeOK, Phases
  <1>4. LifeInv' /\ WriteInv'
    BY <1>1, <1>2 DEF Frame, LifeInv, WriteInv, Running, Gone
  <1>5. ASSUME disk' = disk \/ (phase = "writing" /\ disk' = cache), EmptyStore
        PROVE  EmptyStore'
    <2>1. phase = "writing" => cache \in Sample /\ cache # None /\ cache # Unloaded
      BY Values DEF Frame, TypeOK, WriteInv
    <2> QED BY <1>1, <1>5, <2>1 DEF EmptyStore
  <1> QED BY <1>3, <1>4, <1>5 DEF Frame

(* An answer that ends the refresh or goes on to save. *)
LEMMA SaveThenEndFrame ==
    ASSUME Frame, phase = "requesting",
           NEW sample \in Sample \cup {None}, NEW o \in Data \cup {None},
           SaveThenEnd(sample, o),
           accumulator' \in Accumulator, UNCHANGED <<cache, disk>>
    PROVE  KeepsFrame
  <1>1. CASE sample = None
    <2>1. EndRefresh(o)
      BY <1>1 DEF SaveThenEnd
    <2>2. disk' \in Sample \cup {None}
      BY DEF Frame, TypeOK
    <2> QED BY <2>1, <2>2, EndRefreshFrame DEF KeepsFrame
  <1>2. CASE sample # None
    <2>1. /\ phase' = "locking" /\ saving' = sample /\ result' = o
          /\ UNCHANGED <<entry, data, refreshed, shown, repeats, revived>>
      BY <1>2 DEF SaveThenEnd, history
    <2>2. accumulator' # None
      BY Values
    <2>3. TypeOK'
      BY <2>1 DEF Frame, TypeOK, Phases
    <2>4. LifeInv' /\ WriteInv'
      BY <1>2, <2>1, <2>2 DEF Frame, LifeInv, WriteInv, Running, Gone
    <2>5. EmptyStore => EmptyStore'
      BY <2>1 DEF EmptyStore
    <2> QED BY <2>3, <2>4, <2>5 DEF KeepsFrame, Frame
  <1> QED BY <1>1, <1>2

LEMMA SaveToDiskFrame ==
    ASSUME Frame, SaveToDisk
    PROVE  KeepsFrame
  <1>1. /\ phase = "writing" /\ EndRefresh(result) /\ result \in Data \cup {None}
        /\ disk' = cache
        /\ UNCHANGED <<accumulator, cache>>
    BY DEF SaveToDisk, Frame, TypeOK
  <1>2. accumulator' \in Accumulator /\ disk' \in Sample \cup {None}
    BY <1>1 DEF Frame, TypeOK, LifeInv, WriteInv
  <1> QED BY <1>1, <1>2, EndRefreshFrame DEF KeepsFrame

LEMMA AnswerFrame ==
    ASSUME Frame, Answer
    PROVE  KeepsFrame
  <1> USE DEF store
  <1>1. ASSUME phase = "requesting"
        PROVE  /\ accumulator \in Accumulator
               /\ disk \in Sample \cup {None}
    BY <1>1 DEF Frame, TypeOK, LifeInv
  <1>2. ASSUME NEW s \in EntrySample, AnswerSample(s)
        PROVE  KeepsFrame
    <2> DEFINE u       == Update(accumulator, s)
               save    == SampleToSave(accumulator, u.acc, s)
               outcome == IF u.field # NoError THEN None
                          ELSE IF u.data = None
                          THEN WithoutPower(s.timestamp, BaselineRequired)
                          ELSE u.data
    <2>1. /\ phase = "requesting"
          /\ accumulator' = u.acc
          /\ SaveThenEnd(save, outcome)
          /\ UNCHANGED <<cache, disk>>
      BY <1>2 DEF AnswerSample
    <2>2. s \in Sample /\ s.timestamp \in Timestamps
      BY DEF EntrySample, Sample
    <2>3. u.acc \in Accumulator /\ u.data \in Data \cup {None}
      BY <1>1, <2>1, <2>2, UpdateType
    <2>4. save \in Sample \cup {None}
      BY <2>2 DEF SampleToSave
    <2>5. outcome \in Data \cup {None}
      BY <2>2, <2>3, WithoutPowerFacts
    <2> HIDE DEF u, save, outcome
    <2> QED BY <2>1, <2>3, <2>4, <2>5, SaveThenEndFrame
  <1>3. ASSUME NEW ts \in Timestamps, AnswerStale(ts)
        PROVE  KeepsFrame
    <2> DEFINE save    == IF accumulator.last_data # None THEN accumulator.last_sample ELSE None
               outcome == WithoutPower(ts, StalePhaseMinute)
    <2>1. /\ phase = "requesting"
          /\ accumulator' = [accumulator EXCEPT !.last_data = None]
          /\ SaveThenEnd(save, outcome)
          /\ UNCHANGED <<cache, disk>>
      BY <1>3 DEF AnswerStale
    <2>2. accumulator' \in Accumulator /\ save \in Sample \cup {None}
      BY <1>1, <2>1 DEF Accumulator
    <2>3. outcome \in Data \cup {None}
      BY WithoutPowerFacts
    <2> HIDE DEF save, outcome
    <2> QED BY <2>1, <2>2, <2>3, SaveThenEndFrame
  <1>4. ASSUME AnswerUnauthorized
        PROVE  KeepsFrame
    <2>1. /\ phase = "requesting"
          /\ phase' = "idle" /\ saving' = None /\ result' = None
          /\ \/ /\ entry = "loading" /\ entry' = "setup_error"
                /\ data' = None /\ refreshed' = "never"
             \/ /\ entry # "loading" /\ refreshed' = "auth_failed"
                /\ UNCHANGED <<entry, data>>
          /\ UNCHANGED <<accumulator, cache, disk, shown, repeats, revived>>
      BY <1>4 DEF AnswerUnauthorized, Idle, Fail, Drop, history
    <2>2. TypeOK'
      BY <2>1 DEF Frame, TypeOK, EntryStates, Phases, Refreshes
    <2>3. LifeInv' /\ WriteInv'
      BY <2>1 DEF Frame, LifeInv, WriteInv, Running, Gone
    <2>4. EmptyStore => EmptyStore'
      BY <2>1 DEF EmptyStore
    <2> QED BY <2>2, <2>3, <2>4 DEF KeepsFrame, Frame
  <1>5. ASSUME RequestFails
        PROVE  KeepsFrame
    <2>1. /\ phase = "requesting" /\ EndRefresh(None)
          /\ UNCHANGED <<accumulator, cache, disk>>
      BY <1>5 DEF RequestFails
    <2> QED BY <1>1, <2>1, EndRefreshFrame DEF KeepsFrame
  <1> QED BY <1>2, <1>3, <1>4, <1>5 DEF Answer

LEMMA CrashFrame ==
    ASSUME Frame, Crash
    PROVE  KeepsFrame
  <1>1. /\ entry' = IF entry = "removed" THEN entry ELSE "not_loaded"
        /\ accumulator' = None
        /\ phase' = "idle" /\ saving' = None /\ result' = None
        /\ data' = None /\ refreshed' = "never"
        /\ cache' = Unloaded
        /\ UNCHANGED <<shown, repeats, revived>>
    BY DEF Crash, Idle, Drop, history
  <1>2. /\ disk' \in Sample \cup {None}
        /\ EmptyStore /\ entry = "removed" /\ ~revived => disk' = None
    BY InterruptFrame DEF Crash
  <1>3. TypeOK'
    BY <1>1, <1>2 DEF Frame, TypeOK, EntryStates, Phases, Refreshes
  <1>4. LifeInv' /\ WriteInv'
    BY <1>1, Values DEF Frame, LifeInv, WriteInv, Running, Gone
  <1>5. EmptyStore => EmptyStore'
    BY <1>1, <1>2, Values DEF EmptyStore
  <1> QED BY <1>3, <1>4, <1>5 DEF KeepsFrame, Frame

LEMMA LifeCycleFrame ==
    ASSUME Frame, LifeCycle
    PROVE  KeepsFrame
  BY SetupFrame, UnloadBeginsFrame, UnloadFrame, UnloadFailsFrame, RemoveFrame DEF LifeCycle

LEMMA StorageFrame ==
    ASSUME Frame, Storage
    PROVE  KeepsFrame
  BY RemoveSampleFrame, EraseSampleFrame, SaveToCacheFrame, SaveToDiskFrame,
     OtherEntryLoadsFrame, OtherEntrySavesFrame
  DEF Storage

LEMMA StutterFrame ==
    ASSUME Frame, UNCHANGED vars
    PROVE  KeepsFrame
  BY DEF vars, poll, store, history, KeepsFrame, Frame, TypeOK, LifeInv, WriteInv,
         EmptyStore, Gone

(* What the coordinator gets out of one call and saves of it: the sample   *)
(* if it became the baseline, nothing if the baseline stayed; a reading    *)
(* always comes with a save, an error never.                               *)
LEMMA AnswerFacts ==
    ASSUME NEW a \in Accumulator, NEW s \in Sample, CandidateOf(a), ReadingOf(a)
    PROVE  LET u    == Update(a, s)
               save == SampleToSave(a, u.acc, s)
           IN /\ save \in {None, s}
              /\ save = s => u.acc.last_sample = s
              /\ save = None => u.acc.last_sample = a.last_sample
              /\ u.field # NoError => u.acc = a /\ u.data = None /\ save = None
              /\ u.data # None =>
                    /\ save = s
                    /\ u.acc.last_data = u.data
                    /\ u.data.timestamp = s.timestamp
                    /\ u.data.grid_power_w # None
                    /\ a.last_sample # None
                    /\ s.timestamp > a.last_sample.timestamp
              /\ u.field = NoError /\ u.data = None => u.acc.last_data = None
  <1> DEFINE u    == Update(a, s)
             save == SampleToSave(a, u.acc, s)
             last == a.last_sample
  <1>1. s # None /\ last \in Sample \cup {None}
    BY NoneAssumption DEF Accumulator
  <1>2. \A p \in Sample : p.timestamp \in Int
    BY NumbersAssumption DEF Sample
  <1>3. u.acc.last_sample \in {s, last}
    BY UpdateBaseline
  <1>4. /\ save \in {None, s}
        /\ save = s => u.acc.last_sample = s
        /\ save = None => u.acc.last_sample = last
    BY <1>1, <1>3 DEF SampleToSave
  <1>5. CASE u = ResetBaseline(a, s) \/ u = NewCandidate(a, s)
    BY <1>4, <1>5 DEF ResetBaseline, NewAccumulator, NewCandidate, Returned
  <1>6. ASSUME NEW p \in Sample, u = PublishDelta(a, p, s), DeltaError(p, s) = NoError
        PROVE  /\ u.field = NoError
               /\ u.data # None
               /\ u.acc.last_data = u.data
               /\ u.data.grid_power_w # None
    <2>1. /\ u.field = NoError
          /\ u.data = ReadingFrom(p, s)
          /\ u.acc.last_data = ReadingFrom(p, s)
      BY <1>6 DEF PublishDelta, Returned
    <2>2. ReadingFrom(p, s) # None /\ GridPower(p, s) # None
      BY <1>6, GridPowerType, NoneAssumption
    <2> QED BY <2>1, <2>2 DEF ReadingFrom
  <1>7. u.data # None => /\ u.acc.last_sample = s
                         /\ u.data.timestamp = s.timestamp
                         /\ last # None
                         /\ s.timestamp > last.timestamp
    BY UpdateBaseline
  <1>8. u.data # None => save = s
    <2> SUFFICES ASSUME u.data # None PROVE save = s
      OBVIOUS
    <2>1. last \in Sample /\ s.timestamp > last.timestamp /\ u.acc.last_sample = s
      BY <1>1, <1>7
    <2>2. s.timestamp \in Int /\ last.timestamp \in Int
      BY <1>2, <2>1
    <2>3. s # last
      BY <2>1, <2>2
    <2> QED BY <2>1, <2>3 DEF SampleToSave
  <1>9. CASE \/ u = PublishDelta(a, last, s) /\ last # None
                /\ DeltaError(last, s) = NoError
             \/ u = PublishDelta(a, a.counter_reset_candidate, s)
                /\ a.counter_reset_candidate # None
                /\ DeltaError(a.counter_reset_candidate, s) = NoError
    <2>1. a.counter_reset_candidate \in Sample \cup {None}
      BY DEF Accumulator
    <2>2. /\ u.field = NoError
          /\ u.data # None
          /\ u.acc.last_data = u.data
          /\ u.data.grid_power_w # None
      BY <1>1, <1>6, <1>9, <2>1
    <2> QED BY <1>4, <1>7, <1>8, <2>2
  <1>10. CASE /\ u.acc = a
              /\ u.data = None
              /\ s.timestamp # last.timestamp
              /\ DeltaError(last, s) # CounterDecreased => u.field # NoError
              /\ DeltaError(last, s) = CounterDecreased => a.counter_reset_candidate # None
    <2>1. save = None
      BY <1>10 DEF SampleToSave
    <2>2. u.field = NoError => u.acc.last_data = None
      BY <1>10 DEF CandidateOf
    <2> QED BY <1>4, <1>10, <2>1, <2>2
  <1> QED BY <1>5, <1>9, <1>10, UpdateCases
-----------------------------------------------------------------------------
(***************************************************************************)
(* The dates: what was shown is covered by the baseline and by the store.  *)
(* Again one lemma for each action.                                        *)
(***************************************************************************)

LEMMA InitIInv == Init => IInv
  <1> SUFFICES ASSUME Init PROVE IInv
    OBVIOUS
  <1>1. BaselineInv /\ SavingInv /\ DisplayInv /\ Covers(disk) /\ StoredBaseline
    BY DEF Init, BaselineInv, Covers, SavingInv, DisplayInv, StoredBaseline
  <1> QED BY <1>1, InitFrame DEF IInv, CoreInv

(* A baseline at least as new covers what the older one covered. *)
LEMMA CoversNewer ==
    ASSUME TypeOK, NEW a \in Sample \cup {None}, NEW b \in Sample \cup {None},
           Covers(a), a # None => b # None /\ b.timestamp >= a.timestamp
    PROVE  Covers(b)
  <1>1. shown # None => shown \in Int
    BY NumbersAssumption DEF TypeOK
  <1> QED BY <1>1, Values DEF Covers

(* Forgetting the reading keeps the baseline and the candidate. *)
LEMMA ClearedFacts ==
    ASSUME NEW a \in Accumulator, CandidateOf(a)
    PROVE  LET c == [a EXCEPT !.last_data = None]
           IN /\ c \in Accumulator
              /\ c.last_sample = a.last_sample
              /\ c.last_data = None
              /\ CandidateOf(c)
              /\ ReadingOf(c)
  BY DEF Accumulator, CandidateOf, ReadingOf

LEMMA SetupPreserves ==
    ASSUME CoreInv, Setup
    PROVE  Preserves
  <1>1. /\ entry \in {"not_loaded", "setup_retry", "setup_error"}
        /\ entry' = "loading"
        /\ cache' = IF cache = Unloaded THEN disk ELSE cache
        /\ accumulator' = IF accumulator = None THEN NewAccumulator(cache') ELSE accumulator
        /\ phase' = "requesting"
        /\ UNCHANGED <<disk, shown, repeats>>
    BY DEF Setup, history
  <1>2. phase = "idle" /\ (accumulator # None => cache # Unloaded)
    BY <1>1 DEF CoreInv, Frame, LifeInv, Running, Gone
  <1>3. cache' \in Sample \cup {None} /\ cache' # Unloaded /\ Covers(cache')
    BY <1>1, Values DEF CoreInv, Frame, TypeOK, BaselineInv
  <1>4. /\ CandidateOf(accumulator') /\ ReadingOf(accumulator')
        /\ Covers(accumulator'.last_sample)
    <2>1. CASE accumulator = None
      BY <1>1, <1>3, <2>1, NewAccumulatorFacts
    <2>2. CASE accumulator # None
      BY <1>1, <2>2 DEF CoreInv, BaselineInv
    <2> QED BY <2>1, <2>2
  <1>5. Frame'
    BY SetupFrame DEF CoreInv, KeepsFrame
  <1>6. BaselineInv'
    BY <1>1, <1>3, <1>4 DEF CoreInv, BaselineInv, Covers, CandidateOf, ReadingOf
  <1>7. SavingInv' /\ DisplayInv'
    BY <1>1 DEF SavingInv, DisplayInv
  <1>8. Covers(disk) => Covers(disk)'
    BY <1>1 DEF Covers
  <1>9. StoredBaseline => StoredBaseline'
    BY <1>1, <1>2, <1>3, NewAccumulatorFacts DEF StoredBaseline, Gone
  <1> QED BY <1>5, <1>6, <1>7, <1>8, <1>9 DEF Preserves, CoreInv

LEMMA UnloadBeginsPreserves ==
    ASSUME CoreInv, UnloadBegins \/ UnloadFails
    PROVE  Preserves
  <1>1. /\ entry \in {"loaded", "unloading"} /\ entry' \in {"unloading", "failed_unload"}
        /\ UNCHANGED <<accumulator, phase, saving, result, data, refreshed, cache, disk,
                       shown, repeats>>
    BY DEF UnloadBegins, UnloadFails, poll, store, history
  <1>2. Frame'
    BY UnloadBeginsFrame, UnloadFailsFrame DEF CoreInv, KeepsFrame
  <1>3. BaselineInv'
    BY <1>1 DEF CoreInv, BaselineInv, Covers, CandidateOf, ReadingOf
  <1>4. SavingInv' /\ DisplayInv'
    BY <1>1 DEF CoreInv, SavingInv, DisplayInv
  <1>5. /\ Covers(disk) => Covers(disk)'
        /\ StoredBaseline => StoredBaseline'
    BY <1>1 DEF Covers, StoredBaseline, Gone
  <1> QED BY <1>2, <1>3, <1>4, <1>5 DEF Preserves, CoreInv

(* What an interrupted write may leave in the file is as good as the file. *)
LEMMA InterruptFacts ==
    ASSUME CoreInv, NEW d \in DiskAfterInterrupt, Covers(disk)
    PROVE  Covers(d)
  <1>1. phase = "writing" => cache # Unloaded
    BY Values DEF CoreInv, Frame, TypeOK, WriteInv
  <1>2. entry = "erasing" => shown = None
    BY DEF CoreInv, Frame, LifeInv, Gone
  <1> QED BY <1>1, <1>2 DEF CoreInv, BaselineInv, DiskAfterInterrupt, Covers

LEMMA UnloadPreserves ==
    ASSUME CoreInv, Unload
    PROVE  Preserves
  <1>1. /\ entry = "unloading" /\ entry' = "not_loaded"
        /\ accumulator' = None
        /\ phase' = "idle"
        /\ UNCHANGED <<cache, shown, repeats>>
    BY DEF Unload, Idle, history
  <1>2. Covers(disk) => Covers(disk')
    BY InterruptFacts DEF Unload
  <1>3. cache # Unloaded
    BY <1>1 DEF CoreInv, Frame, LifeInv, Running
  <1>4. Frame'
    BY UnloadFrame DEF CoreInv, KeepsFrame
  <1>5. BaselineInv'
    BY <1>1, <1>3 DEF CoreInv, BaselineInv, Covers
  <1>6. SavingInv' /\ DisplayInv'
    BY <1>1 DEF SavingInv, DisplayInv
  <1>7. /\ Covers(disk) => Covers(disk)'
        /\ StoredBaseline => StoredBaseline'
    BY <1>1, <1>2 DEF Covers, StoredBaseline
  <1> QED BY <1>4, <1>5, <1>6, <1>7 DEF Preserves, CoreInv

LEMMA RemovePreserves ==
    ASSUME CoreInv, Remove
    PROVE  Preserves
  <1>1. /\ entry \in {"not_loaded", "setup_retry", "setup_error", "failed_unload"}
        /\ entry' = "removing"
        /\ accumulator' = IF entry = "failed_unload" THEN accumulator ELSE None
        /\ shown' = None
        /\ UNCHANGED <<phase, saving, result, data, cache, disk, repeats>>
    BY DEF Remove, poll, store
  <1>2. phase # "idle" => accumulator' = accumulator
    BY <1>1 DEF CoreInv, Frame, LifeInv, Running, Gone
  <1>3. Frame'
    BY RemoveFrame DEF CoreInv, KeepsFrame
  <1>4. BaselineInv'
    BY <1>1 DEF CoreInv, BaselineInv, Covers, CandidateOf, ReadingOf
  <1>5. SavingInv' /\ DisplayInv'
    BY <1>1, <1>2, Zenon DEF CoreInv, SavingInv, DisplayInv
  <1>6. Covers(disk)' /\ StoredBaseline'
    BY <1>1 DEF Covers, StoredBaseline, Gone
  <1> QED BY <1>3, <1>4, <1>5, <1>6 DEF Preserves, CoreInv

LEMMA RemoveSamplePreserves ==
    ASSUME CoreInv, RemoveSample
    PROVE  Preserves
  <1>1. /\ entry = "removing" /\ phase # "writing"
        /\ entry' \in {"erasing", "removed"}
        /\ UNCHANGED <<accumulator, phase, saving, result, data, refreshed, disk, shown, repeats>>
    BY DEF RemoveSample, poll, history
  <1>2. shown = None
    BY <1>1 DEF CoreInv, Frame, LifeInv, Gone
  <1>3. Frame'
    BY RemoveSampleFrame DEF CoreInv, KeepsFrame
  <1>4. BaselineInv'
    BY <1>1, <1>2 DEF CoreInv, BaselineInv, Covers, CandidateOf, ReadingOf
  <1>5. SavingInv' /\ DisplayInv'
    BY <1>1 DEF CoreInv, SavingInv, DisplayInv
  <1>6. Covers(disk)' /\ StoredBaseline'
    BY <1>1, <1>2 DEF Covers, StoredBaseline, Gone
  <1> QED BY <1>3, <1>4, <1>5, <1>6 DEF Preserves, CoreInv

(* Erasing ends, whatever is in the file then. *)
LEMMA EraseEnds ==
    ASSUME CoreInv, entry = "erasing", entry' = "removed",
           disk' \in Sample \cup {None},
           UNCHANGED <<accumulator, phase, saving, result, data, refreshed,
                       cache, shown, repeats, revived>>
    PROVE  Preserves
  <1>1. shown = None /\ cache # Unloaded
    BY DEF CoreInv, Frame, LifeInv, Gone
  <1>2. Frame'
    BY EraseEndsFrame DEF CoreInv
  <1>3. BaselineInv'
    BY <1>1 DEF CoreInv, BaselineInv, Covers, CandidateOf, ReadingOf
  <1>4. SavingInv' /\ DisplayInv'
    BY DEF CoreInv, SavingInv, DisplayInv
  <1>5. Covers(disk)' /\ StoredBaseline'
    BY <1>1 DEF Covers, StoredBaseline, Gone
  <1> QED BY <1>2, <1>3, <1>4, <1>5 DEF Preserves, CoreInv

LEMMA EraseSamplePreserves ==
    ASSUME CoreInv, EraseSample
    PROVE  Preserves
  <1>1. /\ entry = "erasing" /\ entry' = "removed"
        /\ disk' \in Sample \cup {None}
        /\ UNCHANGED <<accumulator, phase, saving, result, data, refreshed, cache,
                       shown, repeats, revived>>
    BY DEF EraseSample, poll, history, CoreInv, Frame, TypeOK, LifeInv
  <1> QED BY <1>1, EraseEnds

LEMMA SaveToCachePreserves ==
    ASSUME CoreInv, SaveToCache
    PROVE  Preserves
  <1>1. /\ phase = "locking" /\ phase' = "writing"
        /\ cache' = saving
        /\ UNCHANGED <<entry, accumulator, saving, result, data, refreshed,
                       disk, shown, repeats>>
    BY DEF SaveToCache
  <1>2. saving # Unloaded /\ Covers(saving)
    <2>1. accumulator # None /\ saving = accumulator.last_sample /\ saving \in Sample
      BY <1>1 DEF CoreInv, Frame, TypeOK, LifeInv, WriteInv, SavingInv
    <2> QED BY <2>1, Values DEF CoreInv, BaselineInv
  <1>3. Frame'
    BY SaveToCacheFrame DEF CoreInv, KeepsFrame
  <1>4. BaselineInv'
    BY <1>1, <1>2 DEF CoreInv, BaselineInv, Covers, CandidateOf, ReadingOf
  <1>5. SavingInv' /\ DisplayInv'
    BY <1>1 DEF CoreInv, SavingInv, DisplayInv
  <1>6. /\ Covers(disk) => Covers(disk)'
        /\ StoredBaseline'
    BY <1>1 DEF Covers, StoredBaseline
  <1> QED BY <1>3, <1>4, <1>5, <1>6 DEF Preserves, CoreInv

(* A save ends and its reading is shown, whatever is in the file then.  Of *)
(* an entry that is given up nothing is shown any more.                    *)
LEMMA SaveEnds ==
    ASSUME CoreInv, phase = "writing", EndRefresh(result),
           disk' \in Sample \cup {None}, UNCHANGED <<accumulator, cache>>
    PROVE  /\ CoreInv'
           /\ cache \in Sample
           /\ Covers(cache)'
           /\ StoredBaseline'
  <1>1. /\ accumulator \in Accumulator /\ accumulator # None
        /\ result \in Data
        /\ saving \in Sample /\ saving.timestamp \in Int
        /\ cache = saving /\ saving = accumulator.last_sample
        /\ Covers(saving) /\ repeats = 0
        /\ entry \in Running \/ Gone
    BY Values DEF CoreInv, Frame, TypeOK, LifeInv, WriteInv, SavingInv, BaselineInv
  <1>2. /\ phase' = "idle"
        /\ data' = result
        /\ refreshed' = "succeeded"
        /\ entry' = IF entry = "loading" THEN "loaded" ELSE entry
        /\ IF result.status = Ready /\ ~Gone
           THEN /\ shown' = result.timestamp
                /\ repeats' = IF shown # None /\ result.timestamp <= shown
                              THEN 1 ELSE repeats
           ELSE UNCHANGED <<shown, repeats>>
    BY <1>1, Values DEF EndRefresh, Idle, Show, history
  <1>3. result.status = Ready =>
           /\ result.timestamp = saving.timestamp
           /\ shown # None => result.timestamp > shown
    BY <1>1 DEF CoreInv, SavingInv
  <1>4. shown \in Timestamps \cup {None} /\ (shown # None => shown \in Int)
    BY NumbersAssumption DEF CoreInv, Frame, TypeOK
  <1>5. /\ shown' # None => saving.timestamp >= shown'
        /\ repeats' = 0
    <2>1. result.timestamp \in Timestamps
      BY <1>1 DEF Data
    <2>2. CASE result.status = Ready /\ ~Gone
      BY <1>1, <1>2, <1>3, <1>4, <2>1, <2>2, Values DEF Covers
    <2>3. CASE ~(result.status = Ready /\ ~Gone)
      BY <1>1, <1>2, <1>4, <2>3 DEF Covers
    <2> QED BY <2>2, <2>3
  <1>6. Frame'
    BY <1>1, EndRefreshFrame DEF CoreInv
  <1>7. Covers(cache)'
    BY <1>1, <1>5, Values DEF Covers
  <1>8. BaselineInv'
    BY <1>1, <1>5, <1>7, Values DEF CoreInv, BaselineInv, Covers, CandidateOf, ReadingOf
  <1>9. SavingInv'
    BY <1>2 DEF SavingInv
  <1>10. DisplayInv'
    BY <1>1, <1>2, Values DEF CoreInv, SavingInv, DisplayInv
  <1>11. StoredBaseline'
    BY <1>1 DEF StoredBaseline
  <1> QED BY <1>1, <1>6, <1>7, <1>8, <1>9, <1>10, <1>11 DEF CoreInv

LEMMA SaveToDiskPreserves ==
    ASSUME CoreInv, SaveToDisk
    PROVE  Preserves
  <1>1. /\ phase = "writing" /\ EndRefresh(result)
        /\ disk' = cache
        /\ UNCHANGED <<accumulator, cache>>
    BY DEF SaveToDisk
  <1>2. disk' \in Sample \cup {None}
    BY <1>1 DEF CoreInv, Frame, TypeOK, WriteInv
  <1>3. CoreInv' /\ Covers(cache)' /\ StoredBaseline'
    BY <1>1, <1>2, SaveEnds
  <1>4. Covers(disk)'
    BY <1>1, <1>3 DEF Covers
  <1> QED BY <1>3, <1>4 DEF Preserves

LEMMA OtherEntryLoadsPreserves ==
    ASSUME CoreInv, OtherEntryLoads
    PROVE  Preserves
  <1>1. /\ cache = Unloaded /\ cache' = disk
        /\ accumulator = None
        /\ UNCHANGED <<entry, accumulator, phase, saving, result, data, refreshed,
                       disk, shown, repeats>>
    BY DEF OtherEntryLoads, poll, history, CoreInv, Frame, LifeInv
  <1>2. cache' # Unloaded
    BY <1>1, Values DEF CoreInv, Frame, TypeOK
  <1>3. Frame'
    BY OtherEntryLoadsFrame DEF CoreInv, KeepsFrame
  <1>4. BaselineInv'
    BY <1>1, <1>2 DEF CoreInv, BaselineInv, Covers
  <1>5. SavingInv' /\ DisplayInv'
    BY <1>1 DEF CoreInv, SavingInv, DisplayInv
  <1>6. /\ Covers(disk) => Covers(disk)'
        /\ StoredBaseline'
    BY <1>1 DEF Covers, StoredBaseline
  <1> QED BY <1>3, <1>4, <1>5, <1>6 DEF Preserves, CoreInv

LEMMA OtherEntrySavesPreserves ==
    ASSUME CoreInv, OtherEntrySaves
    PROVE  Preserves
  <1>1. /\ cache # Unloaded
        /\ disk' = cache
        /\ UNCHANGED <<entry, accumulator, phase, saving, result, data, refreshed,
                       cache, shown, repeats>>
    BY DEF OtherEntrySaves, poll, history
  <1>2. Frame'
    BY OtherEntrySavesFrame DEF CoreInv, KeepsFrame
  <1>3. BaselineInv' /\ Covers(disk)'
    BY <1>1 DEF CoreInv, BaselineInv, Covers, CandidateOf, ReadingOf
  <1>4. SavingInv' /\ DisplayInv'
    BY <1>1 DEF CoreInv, SavingInv, DisplayInv
  <1>5. StoredBaseline => StoredBaseline'
    BY <1>1 DEF StoredBaseline, Gone
  <1> QED BY <1>2, <1>3, <1>4, <1>5 DEF Preserves, CoreInv

LEMMA StartRefreshPreserves ==
    ASSUME CoreInv, StartRefresh
    PROVE  Preserves
  <1>1. /\ phase = "idle" /\ phase' = "requesting"
        /\ UNCHANGED <<entry, accumulator, saving, result, data, refreshed,
                       cache, disk, shown, repeats>>
    BY DEF StartRefresh, store, history
  <1>2. Frame'
    BY StartRefreshFrame DEF CoreInv, KeepsFrame
  <1>3. BaselineInv'
    BY <1>1 DEF CoreInv, BaselineInv, Covers, CandidateOf, ReadingOf
  <1>4. SavingInv' /\ DisplayInv'
    BY <1>1 DEF CoreInv, SavingInv, DisplayInv
  <1>5. /\ Covers(disk) => Covers(disk)'
        /\ StoredBaseline => StoredBaseline'
    BY <1>1 DEF Covers, StoredBaseline, Gone
  <1> QED BY <1>2, <1>3, <1>4, <1>5 DEF Preserves, CoreInv

(* The refresh ends with no reading to show: with an error, which leaves   *)
(* the accumulator as it was, or without a power, which means that the     *)
(* accumulator holds none.                                                 *)
LEMMA NothingShownPreserves ==
    ASSUME CoreInv, phase = "requesting", NEW outcome \in Data \cup {None},
           EndRefresh(outcome),
           accumulator' \in Accumulator,
           CandidateOf(accumulator'), ReadingOf(accumulator'),
           accumulator'.last_sample = accumulator.last_sample,
           outcome = None => accumulator' = accumulator,
           outcome # None => /\ outcome.status # Ready
                             /\ outcome.grid_power_w = None
                             /\ accumulator'.last_data = None,
           UNCHANGED <<cache, disk>>
    PROVE  Preserves
  <1>1. /\ accumulator # None
        /\ Covers(accumulator.last_sample)
    BY DEF CoreInv, Frame, LifeInv, BaselineInv
  <1>2. phase' = "idle" /\ UNCHANGED <<shown, repeats>>
    BY DEF EndRefresh, Idle, Show, Fail, history
  <1>3. Frame'
    <2>1. disk' \in Sample \cup {None}
      BY DEF CoreInv, Frame, TypeOK
    <2> QED BY <2>1, EndRefreshFrame DEF CoreInv
  <1>4. BaselineInv'
    BY <1>1, <1>2 DEF CoreInv, BaselineInv, Covers, CandidateOf, ReadingOf
  <1>5. DisplayInv'
    <2>1. CASE outcome = None
      BY <2>1 DEF EndRefresh, Fail, Drop, CoreInv, DisplayInv
    <2>2. CASE outcome # None
      BY <2>2 DEF EndRefresh, Show, DisplayInv
    <2> QED BY <2>1, <2>2
  <1>6. SavingInv'
    BY <1>2 DEF SavingInv
  <1>7. StoredBaseline => StoredBaseline'
    <2>1. ~Gone' => ~Gone
      BY DEF EndRefresh, Show, Fail, Gone
    <2> QED BY <1>1, <2>1 DEF StoredBaseline
  <1> QED BY <1>2, <1>3, <1>4, <1>5, <1>6, <1>7 DEF Preserves, CoreInv, Covers

(* The refresh goes on to save the accumulator's new baseline. *)
LEMMA GoesOnToSavePreserves ==
    ASSUME CoreInv, Frame', phase = "requesting", NEW sample \in Sample, NEW outcome \in Data,
           phase' = "locking", saving' = sample, result' = outcome,
           accumulator' \in Accumulator,
           CandidateOf(accumulator'), ReadingOf(accumulator'),
           accumulator'.last_sample = sample, Covers(sample),
           IF outcome.grid_power_w # None
           THEN outcome = accumulator'.last_data
           ELSE accumulator'.last_data = None,
           outcome.status = Ready => /\ outcome.grid_power_w # None
                                     /\ outcome.timestamp = sample.timestamp
                                     /\ shown # None => outcome.timestamp > shown,
           UNCHANGED <<entry, data, refreshed, cache, disk, shown, repeats>>
    PROVE  Preserves
  <1>1. BaselineInv'
    BY DEF CoreInv, BaselineInv, Covers, CandidateOf, ReadingOf
  <1>2. DisplayInv'
    BY DEF DisplayInv
  <1>3. SavingInv'
    BY Values DEF SavingInv
  <1>4. /\ Covers(disk) => Covers(disk)'
        /\ StoredBaseline'
    BY DEF Covers, StoredBaseline
  <1> QED BY <1>1, <1>2, <1>3, <1>4 DEF Preserves, CoreInv

LEMMA AnswerSamplePreserves ==
    ASSUME CoreInv, NEW s \in EntrySample, AnswerSample(s)
    PROVE  Preserves
  <1> DEFINE u       == Update(accumulator, s)
             save    == SampleToSave(accumulator, u.acc, s)
             outcome == IF u.field # NoError THEN None
                        ELSE IF u.data = None
                        THEN WithoutPower(s.timestamp, BaselineRequired)
                        ELSE u.data
  <1>1. /\ phase = "requesting"
        /\ accumulator' = u.acc
        /\ SaveThenEnd(save, outcome)
        /\ UNCHANGED <<cache, disk>>
        /\ Answer
    BY DEF AnswerSample, store, Answer
  <1>2. /\ s \in Sample /\ s # None /\ s.timestamp \in Int /\ s.timestamp \in Timestamps
    BY Values DEF EntrySample, Sample
  <1>3. /\ accumulator \in Accumulator
        /\ CandidateOf(accumulator) /\ ReadingOf(accumulator)
        /\ Covers(accumulator.last_sample)
        /\ Frame'
    BY <1>1, AnswerFrame DEF CoreInv, Frame, LifeInv, TypeOK, BaselineInv, KeepsFrame
  <1>4. /\ u.acc \in Accumulator
        /\ u.data \in Data \cup {None}
        /\ CandidateOf(u.acc) /\ ReadingOf(u.acc)
    BY <1>2, <1>3, UpdateType, UpdateCandidate, UpdateReading
  <1>5. /\ save \in {None, s}
        /\ save = s => u.acc.last_sample = s
        /\ save = None => u.acc.last_sample = accumulator.last_sample
        /\ u.field # NoError => u.acc = accumulator /\ u.data = None /\ save = None
        /\ u.data # None =>
              /\ save = s
              /\ u.acc.last_data = u.data
              /\ u.data.timestamp = s.timestamp
              /\ u.data.grid_power_w # None
              /\ accumulator.last_sample # None
              /\ s.timestamp > accumulator.last_sample.timestamp
        /\ u.field = NoError /\ u.data = None => u.acc.last_data = None
    BY <1>2, <1>3, AnswerFacts
  <1>6. Covers(u.acc.last_sample)
    <2>1. /\ u.acc.last_sample \in Sample \cup {None}
          /\ accumulator.last_sample \in Sample \cup {None}
      BY <1>3, <1>4 DEF Accumulator
    <2>2. /\ u.acc.last_sample # None
          /\ accumulator.last_sample # None =>
                u.acc.last_sample.timestamp >= accumulator.last_sample.timestamp
      BY <1>2, <1>3, UpdateBaseline
    <2> HIDE DEF u
    <2> QED BY <1>3, <2>1, <2>2, CoversNewer DEF CoreInv, Frame
  <1>7. outcome \in Data \cup {None}
    BY <1>2, <1>4, WithoutPowerFacts
  <1>8. CASE save = None
    <2>1. u.data = None
      BY <1>2, <1>5, <1>8
    <2>2. EndRefresh(outcome)
      BY <1>1, <1>8 DEF SaveThenEnd
    <2>3. /\ outcome = None => accumulator' = accumulator
          /\ outcome # None => /\ outcome.status # Ready
                               /\ outcome.grid_power_w = None
                               /\ accumulator'.last_data = None
      BY <1>1, <1>2, <1>5, <2>1, WithoutPowerFacts, Values
    <2>4. accumulator'.last_sample = accumulator.last_sample
      BY <1>1, <1>5, <1>8
    <2> HIDE DEF outcome, save, u
    <2> QED BY <1>1, <1>4, <1>7, <2>2, <2>3, <2>4, NothingShownPreserves
  <1>9. CASE save = s
    <2>1. u.field = NoError /\ outcome \in Data
      BY <1>2, <1>5, <1>7, <1>9, WithoutPowerFacts, Values
    <2>2. /\ phase' = "locking" /\ saving' = s /\ result' = outcome
          /\ UNCHANGED <<entry, data, refreshed, shown, repeats>>
      BY <1>1, <1>2, <1>9 DEF SaveThenEnd, history
    <2>3. CASE u.data # None
      <3>1. outcome = u.data
        BY <2>1, <2>3
      <3>2. shown # None => outcome.timestamp > shown
        <4>1. shown # None => shown \in Int
          BY NumbersAssumption DEF CoreInv, Frame, TypeOK
        <4>2. accumulator.last_sample.timestamp \in Int
          BY <1>3, <1>5, <2>3, Values DEF Accumulator
        <4> QED BY <1>2, <1>3, <1>5, <2>3, <3>1, <4>1, <4>2 DEF Covers
      <3>3. outcome.grid_power_w # None /\ outcome = u.acc.last_data
            /\ outcome.timestamp = s.timestamp
        BY <1>5, <2>3, <3>1
      <3>4. u.acc.last_sample = s /\ Covers(s)
        BY <1>5, <1>6, <1>9
      <3> HIDE DEF outcome, save, u
      <3> QED BY <1>1, <1>2, <1>3, <1>4, <2>1, <2>2, <3>2, <3>3, <3>4, GoesOnToSavePreserves
    <2>4. CASE u.data = None
      <3>1. outcome.status # Ready /\ outcome.grid_power_w = None
        BY <1>2, <2>1, <2>4, WithoutPowerFacts
      <3>2. u.acc.last_sample = s /\ Covers(s) /\ u.acc.last_data = None
        BY <1>5, <1>6, <1>9, <2>1, <2>4
      <3> HIDE DEF outcome, save, u
      <3> QED BY <1>1, <1>2, <1>3, <1>4, <2>1, <2>2, <3>1, <3>2, GoesOnToSavePreserves
    <2> QED BY <2>3, <2>4
  <1> QED BY <1>5, <1>8, <1>9

LEMMA AnswerStalePreserves ==
    ASSUME CoreInv, NEW ts \in Timestamps, AnswerStale(ts)
    PROVE  Preserves
  <1> DEFINE outcome == WithoutPower(ts, StalePhaseMinute)
             last    == accumulator.last_sample
  <1>1. /\ accumulator \in Accumulator
        /\ CandidateOf(accumulator) /\ ReadingOf(accumulator)
        /\ Covers(last)
        /\ Frame'
    BY AnswerFrame
    DEF Answer, AnswerStale, CoreInv, Frame, LifeInv, TypeOK, BaselineInv, KeepsFrame
  <1>2. /\ phase = "requesting"
        /\ accumulator' = [accumulator EXCEPT !.last_data = None]
        /\ SaveThenEnd(IF accumulator.last_data # None THEN last ELSE None, outcome)
        /\ UNCHANGED <<cache, disk>>
    BY DEF AnswerStale, store
  <1>3. /\ accumulator' \in Accumulator
        /\ accumulator'.last_sample = last
        /\ accumulator'.last_data = None
        /\ CandidateOf(accumulator') /\ ReadingOf(accumulator')
    BY <1>1, <1>2, ClearedFacts
  <1>4. outcome \in Data /\ outcome # None /\ outcome.status # Ready
        /\ outcome.grid_power_w = None
    BY WithoutPowerFacts, Values
  <1> HIDE DEF outcome
  <1>5. CASE accumulator.last_data = None
    <2>1. EndRefresh(outcome)
      BY <1>2, <1>5 DEF SaveThenEnd
    <2> QED BY <1>2, <1>3, <1>4, <2>1, NothingShownPreserves
  <1>6. CASE accumulator.last_data # None
    <2>1. last # None /\ last \in Sample
      BY <1>1, <1>6 DEF ReadingOf, Accumulator
    <2>2. /\ phase' = "locking" /\ saving' = last /\ result' = outcome
          /\ UNCHANGED <<entry, data, refreshed, shown, repeats>>
      BY <1>2, <1>6, <2>1 DEF SaveThenEnd, history
    <2> QED BY <1>1, <1>2, <1>3, <1>4, <2>1, <2>2, GoesOnToSavePreserves
  <1> QED BY <1>5, <1>6

LEMMA AnswerUnauthorizedPreserves ==
    ASSUME CoreInv, AnswerUnauthorized
    PROVE  Preserves
  <1>1. /\ phase = "requesting" /\ phase' = "idle"
        /\ \/ entry = "loading" /\ entry' = "setup_error"
           \/ UNCHANGED <<entry, data>>
        /\ UNCHANGED <<accumulator, cache, disk, shown, repeats>>
    BY DEF AnswerUnauthorized, Idle, Fail, history, store
  <1>2. Frame'
    BY AnswerFrame DEF Answer, CoreInv, KeepsFrame
  <1>3. BaselineInv'
    BY <1>1 DEF CoreInv, BaselineInv, Covers, CandidateOf, ReadingOf
  <1>4. SavingInv' /\ DisplayInv'
    BY <1>1 DEF CoreInv, SavingInv, DisplayInv
  <1>5. /\ Covers(disk) => Covers(disk)'
        /\ StoredBaseline => StoredBaseline'
    BY <1>1 DEF Covers, StoredBaseline, Gone
  <1> QED BY <1>2, <1>3, <1>4, <1>5 DEF Preserves, CoreInv

LEMMA RequestFailsPreserves ==
    ASSUME CoreInv, RequestFails
    PROVE  Preserves
  <1>1. /\ phase = "requesting" /\ EndRefresh(None)
        /\ UNCHANGED <<accumulator, cache, disk>>
    BY DEF RequestFails, store
  <1>2. /\ accumulator' \in Accumulator
        /\ CandidateOf(accumulator') /\ ReadingOf(accumulator')
        /\ accumulator'.last_sample = accumulator.last_sample
        /\ accumulator' = accumulator
    BY <1>1 DEF CoreInv, Frame, LifeInv, TypeOK, BaselineInv, CandidateOf, ReadingOf
  <1> QED BY <1>1, <1>2, NothingShownPreserves

(* What the file holds when the process ends is all that is left. *)
LEMMA CrashPreserves ==
    ASSUME CoreInv, Covers(disk), Crash
    PROVE  Preserves
  <1>1. /\ accumulator' = None
        /\ phase' = "idle"
        /\ entry' \in {"removed", "not_loaded"}
        /\ cache' = Unloaded
        /\ UNCHANGED <<shown, repeats>>
    BY DEF Crash, Idle, Drop, history
  <1>2. Covers(disk')
    BY InterruptFacts DEF Crash
  <1>3. Frame'
    BY CrashFrame DEF CoreInv, KeepsFrame
  <1>4. BaselineInv' /\ Covers(disk)'
    BY <1>1, <1>2 DEF CoreInv, BaselineInv, Covers
  <1>5. SavingInv' /\ DisplayInv' /\ StoredBaseline'
    BY <1>1 DEF SavingInv, DisplayInv, StoredBaseline
  <1> QED BY <1>3, <1>4, <1>5 DEF Preserves, CoreInv

LEMMA StutterPreserves ==
    ASSUME CoreInv, UNCHANGED vars
    PROVE  Preserves
  <1> USE DEF vars, poll, store, history
  <1>1. Frame'
    BY StutterFrame DEF CoreInv, KeepsFrame
  <1>2. BaselineInv'
    BY DEF CoreInv, BaselineInv, Covers, CandidateOf, ReadingOf
  <1>3. SavingInv' /\ DisplayInv'
    BY DEF CoreInv, SavingInv, DisplayInv
  <1>4. /\ Covers(disk) => Covers(disk)'
        /\ StoredBaseline => StoredBaseline'
    BY DEF Covers, StoredBaseline, Gone
  <1> QED BY <1>1, <1>2, <1>3, <1>4 DEF Preserves, CoreInv

(* Every step but the end of the process keeps the core without the file.  *)
LEMMA LifeCyclePreserves ==
    ASSUME CoreInv, LifeCycle
    PROVE  Preserves
  BY SetupPreserves, UnloadBeginsPreserves, UnloadPreserves, RemovePreserves
  DEF LifeCycle

LEMMA StoragePreserves ==
    ASSUME CoreInv, Storage
    PROVE  Preserves
  BY RemoveSamplePreserves, EraseSamplePreserves, SaveToCachePreserves,
     SaveToDiskPreserves, OtherEntryLoadsPreserves, OtherEntrySavesPreserves
  DEF Storage

LEMMA AnswerPreserves ==
    ASSUME CoreInv, Answer
    PROVE  Preserves
  BY AnswerSamplePreserves, AnswerStalePreserves, AnswerUnauthorizedPreserves,
     RequestFailsPreserves
  DEF Answer

LEMMA NextFrame == Frame /\ EmptyStore /\ [Next]_vars => (Frame /\ EmptyStore)'
  BY LifeCycleFrame, StorageFrame, StartRefreshFrame, AnswerFrame, CrashFrame, StutterFrame
  DEF Next, KeepsFrame

LEMMA NextIInv == IInv /\ [Next]_vars => IInv'
  <1> SUFFICES ASSUME IInv, [Next]_vars PROVE IInv'
    OBVIOUS
  <1>1. CoreInv /\ Covers(disk) /\ Frame
    BY DEF IInv, CoreInv
  <1>2. Preserves
    BY <1>1, LifeCyclePreserves, StoragePreserves, AnswerPreserves,
             StartRefreshPreserves, CrashPreserves, StutterPreserves
    DEF Next
  <1> QED BY <1>1, <1>2, NextFrame DEF IInv, Preserves

-----------------------------------------------------------------------------
(* The entry's state keeps its types through its whole life. *)
THEOREM TypeCorrect == Spec => []TypeOK
  <1>1. Frame => TypeOK
    BY DEF Frame
  <1> QED BY <1>1, InitFrame, NextFrame, PTL DEF Spec

(* The inductive invariant itself. *)
THEOREM Invariance == Spec => []IInv
  BY InitIInv, NextIInv, PTL DEF Spec

(* Whatever reloads, failed set-ups, interrupted writes and crashes there  *)
(* are, no timestamp is shown as a ready reading twice or out of order.    *)
THEOREM PublishedOnceCorrect == Spec => []PublishedOnce
  <1>1. IInv => PublishedOnce
    BY DEF IInv, CoreInv, BaselineInv, PublishedOnce
  <1> QED BY <1>1, Invariance, PTL

(* The file always holds a sample as new as the newest reading shown.      *)
THEOREM DurableBeforeShownCorrect == Spec => []DurableBeforeShown
  <1>1. IInv => DurableBeforeShown
    BY DEF IInv, Covers, DurableBeforeShown
  <1> QED BY <1>1, Invariance, PTL

(* Between saves the store's slot is the accumulator's baseline.           *)
THEOREM StoredBaselineCorrect == Spec => []StoredBaseline
  <1>1. IInv => StoredBaseline
    BY DEF IInv
  <1> QED BY <1>1, Invariance, PTL

(* The power displayed is the one the accumulator holds, and no other.     *)
THEOREM ShownIsHeldCorrect == Spec => []ShownIsHeld
  <1>1. IInv => ShownIsHeld
    BY DEF IInv, CoreInv, DisplayInv, ShownIsHeld
  <1> QED BY <1>1, Invariance, PTL

(* Whatever is read, saved or cut off while an entry is removed, nothing   *)
(* of it is left in the file or in memory: only a refresh that an unload   *)
(* which failed has left running can put its sample back, and only by a    *)
(* save after the removal is over.                                         *)
THEOREM RemovedForGoodCorrect == Spec => []RemovedForGood
  <1>1. Frame /\ EmptyStore => RemovedForGood
    BY DEF EmptyStore, RemovedForGood
  <1> QED BY <1>1, InitFrame, NextFrame, PTL DEF Spec

-----------------------------------------------------------------------------
(* The refinement of ReadingPromise: every step of the entry publishes a   *)
(* newer reading, withdraws the one on display, forgets all, or changes    *)
(* nothing of the two.                                                     *)

-----------------------------------------------------------------------------
(* The refinement of ReadingPromise: every step of the entry publishes a   *)
(* newer reading, withdraws the one on display, forgets all, or changes    *)
(* nothing of the two.                                                     *)

LEMMA NothingNew ==
    ASSUME UNCHANGED shown, Display' \in {None, Display}
    PROVE  [Promise!PromiseNext]_Promise!promise
  BY DEF Promise!PromiseNext, Promise!Withdraw, Promise!promise

(* A failed refresh hides the reading, one without a power withdraws it.   *)
LEMMA EndWithoutPower ==
    ASSUME NEW outcome, EndRefresh(outcome),
           outcome # None => outcome.status # Ready /\ outcome.grid_power_w = None
    PROVE  [Promise!PromiseNext]_Promise!promise
  <1>1. UNCHANGED shown /\ Display' = None
    BY DEF EndRefresh, Show, Fail, Drop, Display, history
  <1> QED BY <1>1, NothingNew

(* A save at its end publishes what it was made for, if that is a power:   *)
(* by SavingInv it is newer than all that were shown.                      *)
LEMMA SavePublishes ==
    ASSUME IInv, SaveToDisk
    PROVE  [Promise!PromiseNext]_Promise!promise
  <1>1. /\ phase = "writing" /\ EndRefresh(result)
        /\ result # None /\ result \in Data
        /\ accumulator \in Accumulator /\ ReadingOf(accumulator)
    BY DEF SaveToDisk, IInv, CoreInv, Frame, TypeOK, SavingInv, LifeInv, BaselineInv
  <1>2. CASE Gone
    <2>1. UNCHANGED shown /\ Display' = None
      BY <1>1, <1>2 DEF EndRefresh, Show, Display, Gone, history
    <2> QED BY <2>1, NothingNew
  <1>3. CASE ~Gone /\ result.status = Ready
    <2>1. /\ shown' = result.timestamp
          /\ data' = result /\ refreshed' = "succeeded"
          /\ result.grid_power_w # None
          /\ result.timestamp \in Timestamps
          /\ shown # None => result.timestamp > shown
      BY <1>1, <1>3 DEF EndRefresh, Show, IInv, CoreInv, SavingInv, Data
    <2>2. ~Gone'
      BY <1>1, <1>3 DEF EndRefresh, Show, Gone
    <2>3. Display' = result.timestamp
      BY <1>1, <2>1, <2>2 DEF Display
    <2>4. Promise!Publish(result.timestamp)
      BY <2>1, <2>3 DEF Promise!Publish
    <2> QED BY <2>1, <2>4 DEF Promise!PromiseNext
  <1>4. CASE result.status # Ready
    <2>1. result.grid_power_w = None
      BY <1>1, <1>4 DEF IInv, CoreInv, SavingInv, ReadingOf
    <2> QED BY <1>1, <1>4, <2>1, EndWithoutPower
  <1> QED BY <1>2, <1>3, <1>4

(* An answer without a save ends without a power.                          *)
LEMMA AnswerPublishesNothing ==
    ASSUME IInv, Answer
    PROVE  [Promise!PromiseNext]_Promise!promise
  <1>1. ASSUME NEW s \in EntrySample, AnswerSample(s)
        PROVE  [Promise!PromiseNext]_Promise!promise
    <2> DEFINE u       == Update(accumulator, s)
               save    == SampleToSave(accumulator, u.acc, s)
               outcome == IF u.field # NoError THEN None
                          ELSE IF u.data = None
                          THEN WithoutPower(s.timestamp, BaselineRequired)
                          ELSE u.data
    <2>1. phase = "requesting" /\ SaveThenEnd(save, outcome)
      BY <1>1 DEF AnswerSample
    <2>2. s \in Sample /\ s # None /\ s.timestamp \in Timestamps
      BY Values DEF EntrySample, Sample
    <2>3. accumulator \in Accumulator /\ CandidateOf(accumulator) /\ ReadingOf(accumulator)
      BY <2>1 DEF IInv, CoreInv, Frame, LifeInv, TypeOK, BaselineInv
    <2>4. CASE save # None
      <3> HIDE DEF outcome, save
      <3>1. UNCHANGED <<entry, data, refreshed, shown>>
        BY <2>1, <2>4 DEF SaveThenEnd, history
      <3> QED BY <3>1, NothingNew DEF Display, Gone
    <2>5. CASE save = None
      <3>1. u.data = None
        BY <2>2, <2>3, <2>5, AnswerFacts
      <3>2. outcome # None => outcome.status # Ready /\ outcome.grid_power_w = None
        BY <2>2, <3>1, WithoutPowerFacts
      <3>3. EndRefresh(outcome)
        BY <2>1, <2>5 DEF SaveThenEnd
      <3> HIDE DEF outcome
      <3> QED BY <3>2, <3>3, EndWithoutPower
    <2> QED BY <2>4, <2>5
  <1>2. ASSUME NEW ts \in Timestamps, AnswerStale(ts)
        PROVE  [Promise!PromiseNext]_Promise!promise
    <2> DEFINE save    == IF accumulator.last_data # None THEN accumulator.last_sample ELSE None
               outcome == WithoutPower(ts, StalePhaseMinute)
    <2>1. SaveThenEnd(save, outcome)
      BY <1>2 DEF AnswerStale
    <2>2. outcome.status # Ready /\ outcome.grid_power_w = None
      BY WithoutPowerFacts
    <2> HIDE DEF save, outcome
    <2>3. CASE save # None
      <3>1. UNCHANGED <<entry, data, refreshed, shown>>
        BY <2>1, <2>3 DEF SaveThenEnd, history
      <3> QED BY <3>1, NothingNew DEF Display, Gone
    <2>4. CASE save = None
      BY <2>1, <2>2, <2>4, EndWithoutPower DEF SaveThenEnd
    <2> QED BY <2>3, <2>4
  <1>3. ASSUME AnswerUnauthorized
        PROVE  [Promise!PromiseNext]_Promise!promise
    <2>1. UNCHANGED shown /\ Display' = None
      BY <1>3 DEF AnswerUnauthorized, Fail, Drop, Display, history
    <2> QED BY <2>1, NothingNew
  <1>4. ASSUME RequestFails
        PROVE  [Promise!PromiseNext]_Promise!promise
    BY <1>4, EndWithoutPower DEF RequestFails
  <1> QED BY <1>1, <1>2, <1>3, <1>4 DEF Answer

LEMMA StepKeepsPromise == IInv /\ [Next]_vars => [Promise!PromiseNext]_Promise!promise
  <1> SUFFICES ASSUME IInv, [Next]_vars PROVE [Promise!PromiseNext]_Promise!promise
    OBVIOUS
  <1>1. CASE Setup \/ Unload \/ Crash
    <2>1. UNCHANGED shown /\ Display' = None
      BY <1>1 DEF Setup, Unload, Crash, Drop, Display, history
    <2> QED BY <2>1, NothingNew
  <1>2. CASE Remove
    <2>1. shown' = None /\ Display' = None
      BY <1>2 DEF Remove, Display, Gone
    <2> QED BY <2>1 DEF Promise!PromiseNext, Promise!Forget
  <1>3. CASE \/ UnloadBegins \/ UnloadFails \/ StartRefresh
             \/ RemoveSample \/ EraseSample \/ SaveToCache
             \/ OtherEntryLoads \/ OtherEntrySaves \/ UNCHANGED vars
    <2>1. UNCHANGED <<data, refreshed, shown>> /\ (Gone => Gone')
      BY <1>3 DEF UnloadBegins, UnloadFails, StartRefresh, RemoveSample, EraseSample,
                  SaveToCache, OtherEntryLoads, OtherEntrySaves, vars, history, Gone
    <2> QED BY <2>1, NothingNew DEF Display
  <1> QED BY <1>1, <1>2, <1>3, SavePublishes, AnswerPublishesNothing
          DEF Next, LifeCycle, Storage

(* The entry implements the promise: readings come on display in order,    *)
(* once, and none comes back after a failure, a reload or a crash.         *)
THEOREM KeepsPromiseCorrect == Spec => KeepsPromise
  <1>1. Init => Promise!PromiseInit
    BY DEF Init, Promise!PromiseInit, Display
  <1> QED BY <1>1, StepKeepsPromise, Invariance, PTL
          DEF Spec, KeepsPromise, Promise!PromiseSpec

-----------------------------------------------------------------------------
(***************************************************************************)
(* The entry under the two faults of PerificEntryFaults.  The entry's own  *)
(* steps keep the core of the invariant in both, so what is left to show   *)
(* is that the faults' steps do.                                           *)
(***************************************************************************)

(* The late refresh is typed, and as long as there is one the dictionary   *)
(* has been read: only the end of the process forgets it, and that ends    *)
(* the late refresh too.                                                   *)
LateRefresh == [stage       : Phases \ {"idle"},
                accumulator : Accumulator \cup {None},
                saving      : Sample \cup {None}]

LateOK ==
    late # None =>
        /\ late \in LateRefresh
        /\ late.stage = "requesting" => late.accumulator # None
        /\ late.stage # "requesting" => late.saving # None
        /\ cache # Unloaded

(* what holds whatever the late refresh saves *)
LateFrame == Frame /\ EmptyStore /\ LateOK

(* what holds as long as it is not older than what it replaces *)
LateInv == LateFrame /\ CoreInv /\ Covers(disk)

(* After a failed write the dictionary is ahead of the file. *)
FailInv == CoreInv /\ (IF behind THEN cache # Unloaded ELSE Covers(disk))

FaultInv ==
    /\ fault \in {"late", "write"}
    /\ fault = "late" => LateFrame
    /\ fault = "late" /\ ~overwrote => LateInv
    /\ fault = "write" /\ ~lost => FailInv

-----------------------------------------------------------------------------
(* A late refresh *)

(* what a step does to both parts of the invariant *)
LateKeeps ==
    /\ LateFrame'
    /\ LateInv => LateInv'

(* An unload that leaves a refresh behind is, for the entry, an unload. *)
LEMMA UnloadLeavingRefreshKeeps ==
    ASSUME LateFrame, UnloadLeavingRefresh
    PROVE  LateKeeps
  <1>1. /\ entry = "unloading"
        /\ entry' = "not_loaded"
        /\ accumulator' = None
        /\ data' = None /\ refreshed' = "never"
        /\ phase' = "idle" /\ saving' = None /\ result' = None
        /\ UNCHANGED <<cache, disk, shown, repeats, revived>>
        /\ phase # "idle"
        /\ late' = [stage       |-> phase,
                    accumulator |-> IF phase = "requesting" THEN accumulator ELSE None,
                    saving      |-> saving]
    BY DEF UnloadLeavingRefresh, Drop, Idle, store, history
  <1>2. disk \in DiskAfterInterrupt
    BY DEF DiskAfterInterrupt
  <1>3. Unload
    BY <1>1, <1>2 DEF Unload, Drop, Idle, history
  <1>4. Frame' /\ EmptyStore'
    BY <1>3, UnloadFrame DEF LateFrame, KeepsFrame
  <1>5. CoreInv => CoreInv' /\ (Covers(disk) => Covers(disk)')
    BY <1>3, UnloadPreserves DEF Preserves
  <1>6. /\ accumulator \in Accumulator /\ cache # Unloaded
        /\ phase \in Phases \ {"idle"}
        /\ saving \in Sample \cup {None}
        /\ phase # "requesting" => saving # None
    BY <1>1 DEF LateFrame, Frame, TypeOK, LifeInv, WriteInv, Phases
  <1>7. LateOK'
    BY <1>1, <1>6, Values DEF LateOK, LateRefresh
  <1> QED BY <1>4, <1>5, <1>7 DEF LateKeeps, LateFrame, LateInv

(* The late answer touches nothing of the entry. *)
LEMMA LateAnswerKeeps ==
    ASSUME LateFrame, \/ \E s \in EntrySample : LateAnswerSample(s)
                      \/ LateAnswerStale
                      \/ LateFails
    PROVE  LateKeeps
  <1>1. late # None /\ late.accumulator \in Accumulator /\ cache # Unloaded
    BY DEF LateFrame, LateOK, LateRefresh, LateAnswerSample, LateAnswerStale, LateFails
  <1>2. UNCHANGED vars /\ UNCHANGED cache
    BY DEF LateAnswerSample, LateAnswerStale, LateFails, vars, store
  <1>3. late' = None \/ (\E s \in Sample : LateSaves(s))
    <2>1. ASSUME NEW s \in EntrySample, LateAnswerSample(s)
          PROVE  late' = None \/ LateSaves(s)
      <3>1. \E p \in {None, s} : LateSaves(p)
        BY <2>1 DEF LateAnswerSample, SampleToSave
      <3> QED BY <3>1 DEF LateSaves
    <2>2. ASSUME LateAnswerStale
          PROVE  late' = None \/ (\E s \in Sample : LateSaves(s))
      <3>1. late.accumulator.last_sample \in Sample \cup {None}
        BY <1>1 DEF Accumulator
      <3>2. \E p \in Sample \cup {None} : LateSaves(p)
        BY <2>2, <3>1 DEF LateAnswerStale
      <3> QED BY <3>2 DEF LateSaves
    <2> QED BY <2>1, <2>2 DEF LateFails, EntrySample
  <1>4. LateOK'
    BY <1>1, <1>2, <1>3, Values DEF LateSaves, LateOK, LateRefresh, Phases
  <1>5. Frame' /\ EmptyStore'
    BY <1>2, StutterFrame DEF LateFrame, KeepsFrame
  <1>6. CoreInv => CoreInv' /\ (Covers(disk) => Covers(disk)')
    BY <1>2, StutterPreserves DEF Preserves
  <1> QED BY <1>4, <1>5, <1>6 DEF LateKeeps, LateFrame, LateInv

(* A late save cannot come while another write is under way.  After the    *)
(* removal it brings the sample back, and only then; one at least as new   *)
(* as the sample it replaces covers what that one covered.                 *)
LEMMA LateSaveToCacheKeeps ==
    ASSUME LateFrame, LateSaveToCache
    PROVE  LateFrame' /\ (LateInv /\ ~overwrote' => LateInv')
  <1>1. /\ late # None /\ late.stage = "locking"
        /\ phase # "writing" /\ entry # "erasing"
        /\ late' = [late EXCEPT !.stage = "writing"]
        /\ cache' = late.saving
        /\ ~overwrote' => ~(cache # None /\ cache.timestamp > late.saving.timestamp)
        /\ revived' = (revived \/ entry = "removed")
        /\ UNCHANGED <<entry, accumulator, phase, saving, result, data, refreshed,
                       disk, shown, repeats>>
    BY DEF LateSaveToCache, poll
  <1>2. /\ late.saving \in Sample /\ late.saving # Unloaded /\ late.saving # None
        /\ cache # Unloaded /\ cache \in Sample \cup {None}
    BY <1>1, Values DEF LateFrame, LateOK, LateRefresh, Frame, TypeOK
  <1>3. Frame'
    <2>1. revived' \in BOOLEAN
      BY <1>1, Zenon DEF LateFrame, Frame, TypeOK
    <2>2. TypeOK'
      BY <1>1, <1>2, <2>1 DEF LateFrame, Frame, TypeOK
    <2>3. LifeInv' /\ WriteInv'
      BY <1>1, <1>2 DEF LateFrame, Frame, LifeInv, WriteInv, Gone
    <2> QED BY <2>2, <2>3 DEF Frame
  <1>4. EmptyStore'
    BY <1>1, <1>2 DEF LateFrame, EmptyStore
  <1>5. LateOK'
    <2>1. late \in LateRefresh
      BY <1>1 DEF LateFrame, LateOK
    <2>2. late' \in LateRefresh /\ late'.stage = "writing" /\ late'.saving # None
      BY <1>1, <1>2, <2>1, Values DEF LateRefresh, Phases
    <2> QED BY <1>1, <1>2, <2>2 DEF LateOK
  <1>6. ASSUME LateInv, ~overwrote' PROVE CoreInv' /\ Covers(disk)'
    <2>1. TypeOK /\ Covers(cache)
      BY <1>2, <1>6 DEF LateInv, CoreInv, Frame, BaselineInv
    <2>2. Covers(late.saving)
      <3>1. cache # None => /\ cache.timestamp \in Int
                            /\ late.saving.timestamp \in Int
                            /\ late.saving.timestamp >= cache.timestamp
        BY <1>1, <1>2, <1>6, Values
      <3> QED BY <1>2, <2>1, <3>1, CoversNewer, Values
    <2>3. BaselineInv'
      BY <1>1, <1>2, <1>6, <2>2 DEF LateInv, CoreInv, BaselineInv, Covers,
                                    CandidateOf, ReadingOf
    <2>4. SavingInv' /\ DisplayInv'
      BY <1>1, <1>6 DEF LateInv, CoreInv, SavingInv, DisplayInv
    <2>5. Covers(disk)'
      BY <1>1, <1>6 DEF LateInv, Covers
    <2> QED BY <1>3, <2>3, <2>4, <2>5 DEF CoreInv
  <1> QED BY <1>3, <1>4, <1>5, <1>6 DEF LateFrame, LateInv

LEMMA LateSaveToDiskKeeps ==
    ASSUME LateFrame, LateSaveToDisk
    PROVE  LateKeeps
  <1>1. /\ late # None /\ late' = None
        /\ disk' = cache
        /\ UNCHANGED <<entry, accumulator, phase, saving, result, data, refreshed,
                       cache, shown, repeats, revived>>
    BY DEF LateSaveToDisk, poll, history
  <1>2. cache \in Sample \cup {None} /\ cache # Unloaded
    BY <1>1 DEF LateFrame, LateOK, Frame, TypeOK
  <1>3. Frame'
    <2>1. TypeOK'
      BY <1>1, <1>2 DEF LateFrame, Frame, TypeOK
    <2>2. LifeInv' /\ WriteInv'
      BY <1>1 DEF LateFrame, Frame, LifeInv, WriteInv, Gone
    <2> QED BY <2>1, <2>2 DEF Frame
  <1>4. EmptyStore' /\ LateOK'
    BY <1>1, <1>2 DEF LateFrame, EmptyStore, LateOK
  <1>5. ASSUME LateInv PROVE CoreInv' /\ Covers(disk)'
    <2>1. BaselineInv' /\ Covers(disk)'
      BY <1>1, <1>2, <1>5 DEF LateInv, CoreInv, BaselineInv, Covers, CandidateOf, ReadingOf
    <2>2. SavingInv' /\ DisplayInv'
      BY <1>1, <1>5 DEF LateInv, CoreInv, SavingInv, DisplayInv
    <2> QED BY <1>3, <2>1, <2>2 DEF CoreInv
  <1> QED BY <1>3, <1>4, <1>5 DEF LateKeeps, LateFrame, LateInv

(* Either file that a crash in the middle of the late write may leave      *)
(* covers what was shown.                                                  *)
LEMMA LateCrashKeeps ==
    ASSUME LateFrame, LateCrash
    PROVE  LateKeeps
  <1>1. /\ late # None /\ late' = None
        /\ entry' = IF entry = "removed" THEN entry ELSE "not_loaded"
        /\ accumulator' = None
        /\ phase' = "idle" /\ saving' = None /\ result' = None
        /\ data' = None /\ refreshed' = "never"
        /\ cache' = Unloaded
        /\ disk' \in {disk, cache}
        /\ UNCHANGED <<shown, repeats, revived>>
    BY DEF LateCrash, Idle, Drop, history
  <1>2. disk' \in Sample \cup {None} /\ cache # Unloaded
    BY <1>1 DEF LateFrame, LateOK, Frame, TypeOK
  <1>3. Frame'
    <2>1. TypeOK'
      BY <1>1, <1>2 DEF LateFrame, Frame, TypeOK, EntryStates, Phases, Refreshes
    <2>2. LifeInv' /\ WriteInv'
      BY <1>1, Values DEF LateFrame, Frame, LifeInv, WriteInv, Running, Gone
    <2> QED BY <2>1, <2>2 DEF Frame
  <1>4. EmptyStore' /\ LateOK'
    BY <1>1, <1>2, Values DEF LateFrame, EmptyStore, LateOK
  <1>5. ASSUME LateInv PROVE CoreInv' /\ Covers(disk)'
    <2>1. Covers(disk')
      BY <1>1, <1>2, <1>5 DEF LateInv, CoreInv, BaselineInv
    <2>2. BaselineInv' /\ Covers(disk)' /\ SavingInv' /\ DisplayInv'
      BY <1>1, <1>5, <2>1 DEF LateInv, CoreInv, BaselineInv, Covers, SavingInv, DisplayInv
    <2> QED BY <1>3, <2>2 DEF CoreInv
  <1> QED BY <1>3, <1>4, <1>5 DEF LateKeeps, LateFrame, LateInv

(* A dictionary that has been read stays so until the process ends. *)
LEMMA StaysLoaded ==
    ASSUME Frame, cache # Unloaded, LifeCycle \/ Storage \/ StartRefresh \/ Answer
    PROVE  cache' # Unloaded
  <1>1. phase = "locking" => saving # Unloaded
    BY Values DEF Frame, TypeOK, WriteInv
  <1> QED BY <1>1, EntryAssumption
          DEF LifeCycle, Setup, UnloadBegins, Unload, UnloadFails, Remove,
              Storage, RemoveSample, EraseSample, SaveToCache, SaveToDisk,
              OtherEntryLoads, OtherEntrySaves, StartRefresh,
              Answer, AnswerSample, AnswerStale, AnswerUnauthorized, RequestFails, store

(* Beside a late refresh the entry goes on as it does alone. *)
LEMMA BesideLateKeeps ==
    ASSUME LateFrame, LifeCycle \/ Storage \/ StartRefresh \/ Answer, UNCHANGED late
    PROVE  LateKeeps
  <1>1. KeepsFrame
    BY LifeCycleFrame, StorageFrame, StartRefreshFrame, AnswerFrame DEF LateFrame
  <1>2. CoreInv => Preserves
    BY LifeCyclePreserves, StoragePreserves, StartRefreshPreserves, AnswerPreserves
  <1>3. LateOK'
    BY StaysLoaded DEF LateFrame, LateOK
  <1> QED BY <1>1, <1>2, <1>3 DEF LateKeeps, LateFrame, LateInv, Preserves, KeepsFrame

LEMMA LateNextKeeps ==
    ASSUME LateFrame, LateNext
    PROVE  LateFrame' /\ (LateInv /\ ~overwrote' => LateInv')
  <1>1. CASE (LifeCycle \/ Storage \/ StartRefresh \/ Answer) /\ UNCHANGED late
    BY <1>1, BesideLateKeeps DEF LateKeeps
  <1>2. CASE Crash /\ late' = None
    <2>1. KeepsFrame
      BY <1>2, CrashFrame DEF LateFrame
    <2>2. CoreInv /\ Covers(disk) => Preserves
      BY <1>2, CrashPreserves
    <2> QED BY <1>2, <2>1, <2>2 DEF LateFrame, LateInv, LateOK, Preserves, KeepsFrame
  <1> QED BY <1>1, <1>2, UnloadLeavingRefreshKeeps, LateAnswerKeeps, LateSaveToCacheKeeps,
             LateSaveToDiskKeeps, LateCrashKeeps
          DEF LateNext, LateKeeps, LifeCycle, faults

-----------------------------------------------------------------------------
(* Writes that fail *)

(* A failed write shows its reading all the same: the dictionary covers it. *)
LEMMA SaveFailsKeeps ==
    ASSUME CoreInv, SaveFails
    PROVE  CoreInv' /\ cache' # Unloaded
  <1>1. /\ phase = "writing" /\ EndRefresh(result)
        /\ UNCHANGED <<accumulator, cache, disk>>
    BY DEF SaveFails, store
  <1>2. disk' \in Sample \cup {None}
    BY <1>1 DEF CoreInv, Frame, TypeOK
  <1>3. CoreInv' /\ cache \in Sample
    BY <1>1, <1>2, SaveEnds
  <1> QED BY <1>1, <1>3, Values

LEMMA EraseFailsKeeps ==
    ASSUME CoreInv, EraseFails
    PROVE  CoreInv' /\ cache' # Unloaded
  <1>1. /\ entry = "erasing" /\ entry' = "removed"
        /\ UNCHANGED <<accumulator, phase, saving, result, data, refreshed,
                       cache, disk, shown, repeats, revived>>
    BY DEF EraseFails, poll, store, history
  <1>2. disk' \in Sample \cup {None} /\ cache # Unloaded
    BY <1>1 DEF CoreInv, Frame, TypeOK, LifeInv
  <1> QED BY <1>1, <1>2, EraseEnds DEF Preserves

(* A write that succeeds brings the file up to what was shown. *)
LEMMA WriteCatchesUp ==
    ASSUME CoreInv, SaveToDisk \/ EraseSample \/ OtherEntrySaves
    PROVE  CoreInv' /\ Covers(disk)'
  <1>1. CoreInv'
    BY StoragePreserves DEF Preserves, Storage
  <1>2. disk' = cache' /\ cache' # Unloaded
    <2>1. cache # Unloaded
      BY Values DEF CoreInv, Frame, TypeOK, LifeInv, WriteInv,
                    SaveToDisk, EraseSample, OtherEntrySaves
    <2> QED BY <2>1 DEF SaveToDisk, EraseSample, OtherEntrySaves
  <1> QED BY <1>1, <1>2 DEF CoreInv, BaselineInv, Covers

LEMMA FailingNextKeeps ==
    ASSUME FailInv, FailingNext, ~lost'
    PROVE  FailInv'
  <1>1. CASE SaveFails \/ EraseFails
    BY <1>1, SaveFailsKeeps, EraseFailsKeeps DEF FailInv, SaveFails, EraseFails
  <1>2. CASE (SaveToDisk \/ EraseSample \/ OtherEntrySaves) /\ behind' = FALSE
    BY <1>2, WriteCatchesUp DEF FailInv
  <1>3. CASE /\ \/ LifeCycle \/ RemoveSample \/ SaveToCache
                \/ OtherEntryLoads \/ StartRefresh \/ Answer
             /\ UNCHANGED faults
    <2>1. Preserves
      BY <1>3, LifeCyclePreserves, StoragePreserves, StartRefreshPreserves, AnswerPreserves
      DEF FailInv, Storage
    <2>2. cache # Unloaded => cache' # Unloaded
      BY <1>3, StaysLoaded DEF FailInv, CoreInv, Storage
    <2> QED BY <1>3, <2>1, <2>2 DEF FailInv, Preserves, faults
  <1>4. CASE Crash /\ lost' = (lost \/ behind) /\ behind' = FALSE
    BY <1>4, CrashPreserves DEF FailInv, Preserves
  <1> QED BY <1>1, <1>2, <1>3, <1>4 DEF FailingNext

-----------------------------------------------------------------------------
LEMMA FaultInitInv == FaultInit => FaultInv
  BY InitIInv DEF FaultInit, FaultInv, LateInv, LateFrame, LateOK, FailInv, IInv, CoreInv

LEMMA FaultStutter ==
    ASSUME FaultInv, UNCHANGED faultVars
    PROVE  FaultInv'
  <1>1. UNCHANGED vars /\ UNCHANGED <<fault, late, overwrote, behind, lost, cache>>
    BY DEF faultVars, faults, vars, store
  <1>2. CoreInv => Preserves
    BY <1>1, StutterPreserves
  <1>3. Frame => KeepsFrame
    BY <1>1, StutterFrame
  <1> QED BY <1>1, <1>2, <1>3
          DEF FaultInv, LateInv, LateFrame, LateOK, FailInv, Preserves, KeepsFrame

LEMMA FaultNextInv == FaultInv /\ [FaultNext]_faultVars => FaultInv'
  <1> SUFFICES ASSUME FaultInv, [FaultNext]_faultVars PROVE FaultInv'
    OBVIOUS
  <1>1. CASE fault = "late" /\ LateNext
    <2>1. UNCHANGED fault /\ (overwrote => overwrote')
      <3>1. CASE LateSaveToCache
        BY <3>1, Zenon DEF LateSaveToCache
      <3>2. CASE ~LateSaveToCache
        BY <1>1, <3>2 DEF LateNext, faults, UnloadLeavingRefresh, LateAnswerSample,
                          LateAnswerStale, LateFails, LateSaveToDisk, LateCrash
      <3> QED BY <3>1, <3>2
    <2> QED BY <1>1, <2>1, LateNextKeeps DEF FaultInv
  <1>2. CASE fault = "write" /\ FailingNext
    <2>1. UNCHANGED fault /\ (lost => lost')
      <3>1. CASE Crash /\ lost' = (lost \/ behind) /\ UNCHANGED <<fault, late, overwrote>>
        BY <3>1, Zenon
      <3>2. CASE UNCHANGED <<fault, lost>>
        BY <3>2
      <3> QED BY <1>2, <3>1, <3>2 DEF FailingNext, faults, SaveFails, EraseFails
    <2> QED BY <1>2, <2>1, FailingNextKeeps DEF FaultInv
  <1> QED BY <1>1, <1>2, FaultStutter DEF FaultNext

(* The inductive invariant under the faults. *)
THEOREM FaultInvariance == FaultSpec => []FaultInv
  BY FaultInitInv, FaultNextInv, PTL DEF FaultSpec

(* Whenever a refresh left behind by an unload ends, and whatever it       *)
(* brings, a reading comes back only if it put an older sample over a      *)
(* newer one in the store, and a removed entry's sample only if it saved   *)
(* when the removal was over.                                              *)
THEOREM LateHarmsTwoWaysCorrect == FaultSpec => []LateHarmsTwoWays
  <1>1. FaultInv => LateHarmsTwoWays
    BY DEF FaultInv, LateInv, LateFrame, CoreInv, BaselineInv, Covers, EmptyStore,
           LateHarmsTwoWays, PublishedOnce, DurableBeforeShown, RemovedForGood
  <1> QED BY <1>1, FaultInvariance, PTL

(* However many writes fail, a reading comes back only if the process ends *)
(* while the file is behind the dictionary.                                *)
THEOREM OnlyLossHarmsCorrect == FaultSpec => []OnlyLossHarms
  <1>1. FaultInv => OnlyLossHarms
    BY DEF FaultInv, FailInv, CoreInv, BaselineInv, Covers, OnlyLossHarms, PublishedOnce
  <1> QED BY <1>1, FaultInvariance, PTL

-----------------------------------------------------------------------------
(***************************************************************************)
(* Safety of the entry with a clock (PerificFreshness), for every packet   *)
(* set, greatest age, poll interval and time limit.  Time spoils what is   *)
(* above about dates shown, so beside the frame this has an invariant of    *)
(* its own: that no sample held is dated ahead of its time, and how old a  *)
(* power may be at each stage of a poll, given the time left to it.        *)
(***************************************************************************)

Polling == {"loaded", "unloading", "failed_unload"}
Saving  == {"locking", "writing"}

(* an entry that is set up has data *)
ShownInv == entry \in Polling => data # None

(* Every sample held, or on its way into the store, is dated in time. *)
Timely(s) == s \in Sample => s.timestamp <= MaxAge

HeldInv ==
    /\ Timely(saving) /\ Timely(cache) /\ Timely(disk)
    /\ accumulator # None => /\ Timely(accumulator.last_sample)
                             /\ Timely(accumulator.counter_reset_candidate)

Kept == ShownInv /\ HeldInv

(* How old a power may be while its packet is saved, and then, on display, *)
(* at each stage of the polls that follow.                                 *)
HasPower(d) == d # None /\ d.grid_power_w # None

NotOlder(d, age) == HasPower(d) => -d.timestamp <= age

SavedInv == phase \in Saving => NotOlder(result, (MaxAge + SaveLimit) - timer)

PowerInv ==
    entry \in Polling /\ refreshed = "succeeded" =>
        /\ phase = "idle" =>
              NotOlder(data, (MaxAge + SaveLimit + Interval) - timer)
        /\ phase = "requesting" =>
              NotOlder(data, (MaxAge + SaveLimit + Interval + Timeout) - timer)
        /\ phase \in Saving =>
              NotOlder(data, (MaxAge + SaveLimit + Interval + Timeout + SaveLimit) - timer)

ClockInv ==
    Frame /\ Kept /\ timer \in Nat /\ SavedInv /\ PowerInv /\ WrittenIsCurrent

-----------------------------------------------------------------------------
(* Values and ages *)

LEMMA ClockValues ==
    /\ MaxAge \in Nat /\ Interval \in Nat /\ Timeout \in Nat /\ SaveLimit \in Nat
    /\ \A s \in Sample : s # None /\ s # Unloaded /\ s.timestamp \in Int
    /\ \A d \in Data : d # None /\ d.timestamp \in Int
    /\ \A a \in Accumulator : a # None
    /\ None # Unloaded
<1>1. \A s \in Sample : s.timestamp \in Int
  BY NumbersAssumption DEF Sample
<1>2. \A d \in Data : d.timestamp \in Int
  BY NumbersAssumption DEF Data
<1> QED
  BY <1>1, <1>2, NoneAssumption, EntryAssumption, AgeAssumption, ClockAssumption

(* A packet that is not stale is within the greatest age of the clock. *)
LEMMA FreshFacts ==
    ASSUME NEW s \in Sample, ~Stale(s.timestamp, MaxAge, 0)
    PROVE  Timely(s) /\ -s.timestamp <= MaxAge
<1>1. s.timestamp \in Int /\ MaxAge \in Nat /\ MaxAge # None
  BY ClockValues, AgeAssumption
<1>2. ~(s.timestamp > 0 + MaxAge) /\ ~(0 - s.timestamp > MaxAge)
  BY <1>1 DEF Stale
<1> QED
  BY <1>1, <1>2 DEF Timely

(* The packets that may come: in either case of the cloud. *)
LEMMA WellFacts ==
    ASSUME NEW s \in Packets, s.timestamp = 0
    PROVE  s \in Sample /\ ~Stale(s.timestamp, MaxAge, 0)
<1>1. s \in Sample /\ MaxAge \in Nat
  BY ClockAssumption, ClockValues DEF EntrySample
<1>2. ~(0 > 0 + MaxAge) /\ ~(0 - 0 > MaxAge)
  BY <1>1
<1> QED
  BY <1>1, <1>2 DEF Stale

(* What a call of update leaves: types, and no sample from elsewhere. *)
LEMMA UpdateHolds ==
    ASSUME NEW a \in Accumulator, NEW s \in Sample
    PROVE  LET u == Update(a, s)
           IN /\ u.acc \in Accumulator
              /\ u.data \in Data \cup {None}
              /\ u.acc.last_sample \in {s, a.last_sample, None}
              /\ u.acc.counter_reset_candidate \in {s, a.counter_reset_candidate, None}
              /\ u.data # None => u.data.timestamp = s.timestamp
<1> DEFINE u == Update(a, s)
<1>1. u.acc \in Accumulator /\ u.data \in Data \cup {None}
  BY UpdateType
<1>2. CASE u = ResetBaseline(a, s)
  BY <1>1, <1>2 DEF ResetBaseline, NewAccumulator, Returned
<1>3. CASE \/ u = PublishDelta(a, a.last_sample, s)
           \/ u = PublishDelta(a, a.counter_reset_candidate, s)
  BY <1>1, <1>3 DEF PublishDelta, ReadingFrom, Returned
<1>4. CASE u = NewCandidate(a, s)
  BY <1>1, <1>4 DEF NewCandidate, Returned
<1>5. CASE u.acc = a /\ u.data = None
  BY <1>1, <1>5
<1> QED
  BY <1>2, <1>3, <1>4, <1>5, UpdateCases

-----------------------------------------------------------------------------
(* What the steps do to a refresh and to what is displayed. *)

(* nothing is displayed, and nothing is being saved *)
Hides == phase' \notin Saving /\ ~(entry' \in Polling /\ refreshed' = "succeeded")

(* nothing of it changes *)
Keeps ==
    /\ UNCHANGED <<phase, result, data, refreshed>>
    /\ entry' \in Polling => entry \in Polling

Starts ==
    /\ phase = "idle" /\ phase' = "requesting"
    /\ UNCHANGED <<entry, data, refreshed>>

GoesOn ==
    /\ phase = "requesting" /\ phase' = "locking"
    /\ NotOlder(result', MaxAge)
    /\ UNCHANGED <<entry, data, refreshed>>

Waits ==
    /\ phase = "locking" /\ phase' = "writing"
    /\ UNCHANGED <<entry, result, data, refreshed>>

Shows ==
    /\ phase # "idle" /\ phase' = "idle"
    /\ NotOlder(data', MaxAge + SaveLimit)

AgeStep == Hides \/ Keeps \/ Starts \/ GoesOn \/ Waits \/ Shows

LEMMA StageFacts ==
    /\ Stage("idle") = "idle" /\ Limit("idle") = Interval
    /\ Stage("requesting") = "requesting" /\ Limit("requesting") = Timeout
    /\ Stage("locking") = "writing" /\ Stage("writing") = "writing"
    /\ Limit("writing") = SaveLimit
BY DEF Stage, Limit

(* A bound on an age may be weakened. *)
LEMMA NotOlderWeaker ==
    ASSUME NEW d \in Data \cup {None}, NEW a \in Int, NEW b \in Int,
           NotOlder(d, a), a <= b
    PROVE  NotOlder(d, b)
<1> SUFFICES ASSUME HasPower(d) PROVE -d.timestamp <= b
  BY DEF NotOlder
<1>1. d \in Data /\ d.timestamp \in Int
  BY ClockValues DEF HasPower
<1>2. -d.timestamp <= a
  BY DEF NotOlder
<1> QED
  BY <1>1, <1>2

LEMMA AgesOfStep ==
    ASSUME ClockInv, phase' \in Phases, data' \in Data \cup {None},
           result' \in Data \cup {None}, Restart, AgeStep
    PROVE  timer' \in Nat /\ SavedInv' /\ PowerInv'
<1>1. /\ MaxAge \in Nat /\ Interval \in Nat /\ Timeout \in Nat /\ SaveLimit \in Nat
      /\ timer \in Nat
  BY ClockValues DEF ClockInv, Frame, TypeOK
<1>2. /\ phase \in Phases
      /\ data \in Data \cup {None} /\ result \in Data \cup {None}
      /\ SavedInv /\ PowerInv
  BY DEF ClockInv, Frame, TypeOK
<1>3. timer' = IF Stage(phase') = Stage(phase) THEN timer ELSE Limit(Stage(phase'))
  BY DEF Restart
<1>4. timer' \in Nat
  BY <1>1, <1>3, StageFacts DEF Phases
<1>5. CASE Hides
  BY <1>5, <1>4 DEF Hides, SavedInv, PowerInv, Saving
<1>6. CASE Keeps
  <2>1. timer' = timer
    BY <1>3, <1>6 DEF Keeps
  <2> QED
    BY <1>2, <1>4, <1>6, <2>1 DEF Keeps, SavedInv, PowerInv
<1>7. CASE Starts
  <2>1. timer' = Timeout
    BY <1>3, <1>7, StageFacts DEF Starts
  <2>2. SavedInv'
    BY <1>7 DEF Starts, SavedInv, Saving
  <2>3. ASSUME entry' \in Polling, refreshed' = "succeeded"
        PROVE  NotOlder(data', (MaxAge + SaveLimit + Interval + Timeout) - timer')
    <3>1. NotOlder(data, (MaxAge + SaveLimit + Interval) - timer)
      BY <1>2, <1>7, <2>3 DEF Starts, PowerInv
    <3>2. (MaxAge + SaveLimit + Interval) - timer
             <= (MaxAge + SaveLimit + Interval + Timeout) - timer'
      BY <1>1, <2>1
    <3>3. /\ (MaxAge + SaveLimit + Interval) - timer \in Int
          /\ (MaxAge + SaveLimit + Interval + Timeout) - timer' \in Int
      BY <1>1, <1>4
    <3> QED
      BY <1>2, <1>7, <3>1, <3>2, <3>3, NotOlderWeaker DEF Starts
  <2>4. PowerInv'
    BY <1>7, <2>3 DEF Starts, PowerInv, Saving
  <2> QED
    BY <1>4, <2>2, <2>4
<1>8. CASE GoesOn
  <2>1. timer' = SaveLimit
    BY <1>3, <1>8, StageFacts DEF GoesOn
  <2>2. SavedInv'
    <3>1. MaxAge \in Int /\ (MaxAge + SaveLimit) - timer' \in Int
          /\ MaxAge <= (MaxAge + SaveLimit) - timer'
      BY <1>1, <2>1
    <3> QED
      BY <1>8, <3>1, NotOlderWeaker DEF GoesOn, SavedInv
  <2>3. ASSUME entry' \in Polling, refreshed' = "succeeded"
        PROVE  NotOlder(data', (MaxAge + SaveLimit + Interval + Timeout + SaveLimit) - timer')
    <3>1. NotOlder(data, (MaxAge + SaveLimit + Interval + Timeout) - timer)
      BY <1>2, <1>8, <2>3 DEF GoesOn, PowerInv
    <3>2. (MaxAge + SaveLimit + Interval + Timeout) - timer
             <= (MaxAge + SaveLimit + Interval + Timeout + SaveLimit) - timer'
      BY <1>1, <2>1
    <3>3. /\ (MaxAge + SaveLimit + Interval + Timeout) - timer \in Int
          /\ (MaxAge + SaveLimit + Interval + Timeout + SaveLimit) - timer' \in Int
      BY <1>1, <1>4
    <3> QED
      BY <1>2, <1>8, <3>1, <3>2, <3>3, NotOlderWeaker DEF GoesOn
  <2>4. PowerInv'
    BY <1>8, <2>3 DEF GoesOn, PowerInv, Saving
  <2> QED
    BY <1>4, <2>2, <2>4
<1>9. CASE Waits
  <2>1. timer' = timer
    BY <1>3, <1>9, StageFacts DEF Waits
  <2> QED
    BY <1>2, <1>4, <1>9, <2>1 DEF Waits, SavedInv, PowerInv, Saving
<1>10. CASE Shows
  <2>1. timer' = Interval
    BY <1>2, <1>3, <1>10, StageFacts DEF Shows, Phases
  <2>2. SavedInv'
    BY <1>10 DEF Shows, SavedInv, Saving
  <2>3. MaxAge + SaveLimit = (MaxAge + SaveLimit + Interval) - timer'
    BY <1>1, <2>1
  <2>4. PowerInv'
    BY <1>10, <2>3 DEF Shows, PowerInv, Saving
  <2> QED
    BY <1>4, <2>2, <2>4
<1> QED
  BY <1>5, <1>6, <1>7, <1>8, <1>9, <1>10 DEF AgeStep

-----------------------------------------------------------------------------
(* One lemma for each action: what it leaves in memory and on disk, and    *)
(* what it does to the ages.                                               *)

LEMMA SetupAges ==
    ASSUME ClockInv, Setup
    PROVE  Kept' /\ AgeStep
<1>1. /\ entry' = "loading"
      /\ cache' = IF cache = Unloaded THEN disk ELSE cache
      /\ accumulator' = IF accumulator = None THEN NewAccumulator(cache') ELSE accumulator
      /\ phase' = "requesting"
      /\ refreshed' = "never"
      /\ UNCHANGED <<saving, disk>>
  BY DEF Setup, Drop
<1>2. HeldInv
  BY DEF ClockInv, Kept
<1>3. Timely(cache')
  BY <1>1, <1>2 DEF HeldInv
<1>4. accumulator' # None => /\ Timely(accumulator'.last_sample)
                             /\ Timely(accumulator'.counter_reset_candidate)
  <2>1. CASE accumulator = None
    BY <1>1, <1>3, <2>1, ClockValues DEF NewAccumulator, Timely
  <2>2. CASE accumulator # None
    BY <1>1, <1>2, <2>2 DEF HeldInv
  <2> QED
    BY <2>1, <2>2
<1>5. HeldInv'
  BY <1>1, <1>2, <1>3, <1>4 DEF HeldInv, Timely
<1>6. ShownInv' /\ Hides
  BY <1>1 DEF ShownInv, Hides, Saving, Polling
<1> QED
  BY <1>5, <1>6 DEF Kept, AgeStep

(* These leave the refresh and its data alone. *)
LEMMA UntouchedAges ==
    ASSUME ClockInv, \/ UnloadBegins \/ UnloadFails \/ Remove
                     \/ RemoveSample \/ EraseSample
    PROVE  Kept' /\ AgeStep
<1>1. /\ UNCHANGED <<phase, saving, result, data, refreshed>>
      /\ entry' \in Polling => entry \in Polling
      /\ accumulator' \in {accumulator, None}
      /\ cache' \in {cache, None}
      /\ disk' \in {disk, cache}
  BY DEF UnloadBegins, UnloadFails, Remove, RemoveSample, EraseSample, poll, store, Polling
<1>2. HeldInv /\ ShownInv
  BY DEF ClockInv, Kept
<1>3. Timely(cache') /\ Timely(disk')
  BY <1>1, <1>2, ClockValues DEF HeldInv, Timely
<1>4. HeldInv'
  BY <1>1, <1>2, <1>3 DEF HeldInv, Timely
<1>5. ShownInv'
  BY <1>1, <1>2 DEF ShownInv
<1>6. Keeps
  BY <1>1 DEF Keeps
<1> QED
  BY <1>4, <1>5, <1>6 DEF Kept, AgeStep

(* What an interrupted write may leave is a sample dated in time. *)
LEMMA InterruptAges ==
    ASSUME ClockInv, NEW d \in DiskAfterInterrupt
    PROVE  Timely(d)
BY DEF ClockInv, Kept, HeldInv, DiskAfterInterrupt

LEMMA UnloadAges ==
    ASSUME ClockInv, Unload \/ Crash
    PROVE  Kept' /\ AgeStep
<1>1. /\ entry' \in {"not_loaded", "removed"}
      /\ accumulator' = None
      /\ phase' = "idle" /\ saving' = None
      /\ cache' \in {cache, Unloaded}
  BY DEF Unload, Crash, Idle
<1>2. Timely(disk')
  BY InterruptAges DEF Unload, Crash
<1>3. Timely(cache')
  BY <1>1, EntryAssumption DEF ClockInv, Kept, HeldInv, Timely
<1>4. HeldInv'
  BY <1>1, <1>2, <1>3, ClockValues DEF HeldInv, Timely
<1>5. ShownInv' /\ Hides
  BY <1>1 DEF ShownInv, Hides, Saving, Polling
<1> QED
  BY <1>4, <1>5 DEF Kept, AgeStep

LEMMA SaveToCacheAges ==
    ASSUME ClockInv, SaveToCache
    PROVE  Kept' /\ AgeStep
<1>1. /\ phase = "locking" /\ phase' = "writing"
      /\ cache' = saving
      /\ UNCHANGED <<entry, accumulator, saving, result, data, refreshed, disk>>
  BY DEF SaveToCache
<1>2. HeldInv /\ ShownInv
  BY DEF ClockInv, Kept
<1>3. HeldInv' /\ ShownInv'
  BY <1>1, <1>2 DEF HeldInv, Timely, ShownInv
<1>4. Waits
  BY <1>1 DEF Waits
<1> QED
  BY <1>3, <1>4 DEF Kept, AgeStep

LEMMA StartRefreshAges ==
    ASSUME ClockInv, StartRefresh
    PROVE  Kept' /\ AgeStep
<1>1. /\ phase = "idle" /\ phase' = "requesting"
      /\ UNCHANGED <<entry, accumulator, saving, result, data, refreshed, cache, disk>>
  BY DEF StartRefresh, store
<1>2. HeldInv /\ ShownInv
  BY DEF ClockInv, Kept
<1>3. HeldInv' /\ ShownInv'
  BY <1>1, <1>2 DEF HeldInv, Timely, ShownInv
<1>4. Starts
  BY <1>1 DEF Starts
<1> QED
  BY <1>3, <1>4 DEF Kept, AgeStep

-----------------------------------------------------------------------------
(* The end of a refresh shows an outcome that is not too old, or hides     *)
(* what was displayed.                                                     *)
LEMMA EndRefreshAges ==
    ASSUME ClockInv, phase # "idle",
           NEW o \in Data \cup {None}, EndRefresh(o), NotOlder(o, MaxAge + SaveLimit),
           Timely(accumulator'.last_sample), Timely(accumulator'.counter_reset_candidate),
           UNCHANGED cache, Timely(disk')
    PROVE  Kept' /\ AgeStep
<1>1. phase' = "idle" /\ saving' = None
  BY DEF EndRefresh, Idle
<1>2. HeldInv /\ ShownInv /\ entry \in EntryStates
  BY DEF ClockInv, Frame, TypeOK, Kept
<1>3. ShownInv' /\ (Hides \/ Shows)
  <2>1. CASE o = None
    <3>1. Fail("failed", "setup_retry")
      BY <2>1 DEF EndRefresh
    <3>2. CASE entry = "loading"
      BY <1>1, <3>1, <3>2 DEF Fail, ShownInv, Hides, Saving, Polling
    <3>3. CASE entry # "loading"
      BY <1>1, <1>2, <3>1, <3>3 DEF Fail, Hides, Saving, ShownInv
    <3> QED
      BY <3>2, <3>3
  <2>2. CASE o # None
    <3>1. data' = o
      BY <2>2 DEF EndRefresh, Show
    <3> QED
      BY <1>1, <2>2, <3>1 DEF Shows, ShownInv
  <2> QED
    BY <2>1, <2>2
<1>4. Timely(saving') /\ Timely(cache')
  BY <1>1, <1>2, ClockValues DEF HeldInv, Timely
<1>5. HeldInv'
  BY <1>4 DEF HeldInv, Timely
<1> QED
  BY <1>3, <1>5 DEF Kept, AgeStep

(* An answer that saves first goes on, with an outcome of a fresh packet. *)
LEMMA SaveThenEndAges ==
    ASSUME ClockInv, phase = "requesting",
           NEW sample \in Sample \cup {None}, Timely(sample),
           NEW o \in Data \cup {None}, NotOlder(o, MaxAge),
           SaveThenEnd(sample, o),
           Timely(accumulator'.last_sample), Timely(accumulator'.counter_reset_candidate),
           UNCHANGED store
    PROVE  Kept' /\ AgeStep
<1>1. UNCHANGED <<cache, disk>> /\ HeldInv /\ ShownInv
  BY DEF store, ClockInv, Kept
<1>2. CASE sample = None
  <2>1. EndRefresh(o)
    BY <1>2 DEF SaveThenEnd
  <2>2. NotOlder(o, MaxAge + SaveLimit)
    <3>1. MaxAge \in Int /\ MaxAge + SaveLimit \in Int /\ MaxAge <= MaxAge + SaveLimit
      BY ClockValues
    <3> QED
      BY <3>1, NotOlderWeaker
  <2>3. Timely(disk')
    BY <1>1 DEF HeldInv, Timely
  <2> QED
    BY <1>1, <2>1, <2>2, <2>3, EndRefreshAges
<1>3. CASE sample # None
  <2>1. /\ phase' = "locking"
        /\ saving' = sample
        /\ result' = o
        /\ UNCHANGED <<entry, data, refreshed>>
    BY <1>3 DEF SaveThenEnd
  <2>2. HeldInv' /\ ShownInv'
    BY <1>1, <2>1 DEF HeldInv, Timely, ShownInv
  <2>3. GoesOn
    BY <2>1 DEF GoesOn
  <2> QED
    BY <2>2, <2>3 DEF Kept, AgeStep
<1> QED
  BY <1>2, <1>3

LEMMA SaveToDiskAges ==
    ASSUME ClockInv, SaveToDisk
    PROVE  Kept' /\ AgeStep
<1>1. phase = "writing" /\ disk' = cache /\ EndRefresh(result)
      /\ UNCHANGED <<accumulator, cache>>
  BY DEF SaveToDisk
<1>2. /\ HeldInv /\ SavedInv /\ timer \in Nat
      /\ accumulator # None /\ result \in Data \cup {None}
  BY <1>1 DEF ClockInv, Kept, Frame, TypeOK, LifeInv
<1>3. NotOlder(result, MaxAge + SaveLimit)
  <2>1. NotOlder(result, (MaxAge + SaveLimit) - timer)
    BY <1>1, <1>2 DEF SavedInv, Saving
  <2>2. /\ (MaxAge + SaveLimit) - timer \in Int /\ MaxAge + SaveLimit \in Int
        /\ (MaxAge + SaveLimit) - timer <= MaxAge + SaveLimit
    BY <1>2, ClockValues
  <2> QED
    BY <1>2, <2>1, <2>2, NotOlderWeaker
<1>4. /\ Timely(accumulator'.last_sample) /\ Timely(accumulator'.counter_reset_candidate)
      /\ Timely(disk')
  BY <1>1, <1>2 DEF HeldInv
<1> QED
  BY <1>1, <1>2, <1>3, <1>4, EndRefreshAges

LEMMA AnswerSampleAges ==
    ASSUME ClockInv, NEW s \in Packets, ~Stale(s.timestamp, MaxAge, 0), AnswerSample(s)
    PROVE  Kept' /\ AgeStep
<1> DEFINE u       == Update(accumulator, s)
           outcome == IF u.field # NoError THEN None
                      ELSE IF u.data = None
                      THEN WithoutPower(s.timestamp, BaselineRequired)
                      ELSE u.data
           save    == SampleToSave(accumulator, u.acc, s)
<1>1. /\ phase = "requesting"
      /\ accumulator' = u.acc
      /\ SaveThenEnd(save, outcome)
      /\ UNCHANGED store
  BY DEF AnswerSample
<1>2. HeldInv
  BY DEF ClockInv, Kept
<1>3. s \in Sample /\ s.timestamp \in Timestamps
  BY ClockAssumption DEF EntrySample, Sample
<1>4. Timely(s) /\ -s.timestamp <= MaxAge
  BY <1>3, FreshFacts
<1>5. accumulator \in Accumulator /\ accumulator # None
  BY <1>1 DEF ClockInv, Frame, TypeOK, LifeInv
<1>6. /\ u.data \in Data \cup {None}
      /\ u.acc.last_sample \in {s, accumulator.last_sample, None}
      /\ u.acc.counter_reset_candidate \in {s, accumulator.counter_reset_candidate, None}
      /\ u.data # None => u.data.timestamp = s.timestamp
  BY <1>3, <1>5, UpdateHolds
<1>7. Timely(u.acc.last_sample) /\ Timely(u.acc.counter_reset_candidate)
  BY <1>2, <1>4, <1>5, <1>6, ClockValues DEF HeldInv, Timely
<1>8. save \in Sample \cup {None} /\ Timely(save)
  BY <1>3, <1>4, ClockValues DEF SampleToSave, Timely
<1>9. WithoutPower(s.timestamp, BaselineRequired) \in Data
      /\ WithoutPower(s.timestamp, BaselineRequired).grid_power_w = None
  BY <1>3, WithoutPowerFacts
<1>10. outcome \in Data \cup {None} /\ NotOlder(outcome, MaxAge)
  BY <1>4, <1>6, <1>9 DEF NotOlder, HasPower
<1> HIDE DEF u, outcome, save
<1> QED
  BY <1>1, <1>7, <1>8, <1>10, SaveThenEndAges

LEMMA AnswerStaleAges ==
    ASSUME ClockInv, NEW ts \in Timestamps, AnswerStale(ts)
    PROVE  Kept' /\ AgeStep
<1> DEFINE save    == IF accumulator.last_data # None THEN accumulator.last_sample ELSE None
           outcome == WithoutPower(ts, StalePhaseMinute)
<1>1. /\ phase = "requesting"
      /\ accumulator' = [accumulator EXCEPT !.last_data = None]
      /\ SaveThenEnd(save, outcome)
      /\ UNCHANGED store
  BY DEF AnswerStale
<1>2. HeldInv
  BY DEF ClockInv, Kept
<1>3. accumulator \in Accumulator /\ accumulator # None
  BY <1>1 DEF ClockInv, Frame, TypeOK, LifeInv
<1>4. /\ accumulator'.last_sample = accumulator.last_sample
      /\ accumulator'.counter_reset_candidate = accumulator.counter_reset_candidate
  BY <1>1, <1>3 DEF Accumulator
<1>5. Timely(accumulator'.last_sample) /\ Timely(accumulator'.counter_reset_candidate)
  BY <1>2, <1>3, <1>4 DEF HeldInv
<1>6. save \in Sample \cup {None} /\ Timely(save)
  BY <1>2, <1>3, ClockValues DEF HeldInv, Timely, Accumulator
<1>7. outcome \in Data \cup {None} /\ outcome.grid_power_w = None
  BY WithoutPowerFacts
<1>8. NotOlder(outcome, MaxAge)
  BY <1>7 DEF NotOlder, HasPower
<1> HIDE DEF outcome, save
<1> QED
  BY <1>1, <1>5, <1>6, <1>7, <1>8, SaveThenEndAges

LEMMA RequestFailsAges ==
    ASSUME ClockInv, RequestFails
    PROVE  Kept' /\ AgeStep
<1>1. /\ phase = "requesting" /\ EndRefresh(None)
      /\ UNCHANGED <<accumulator, cache, disk>>
  BY DEF RequestFails, store
<1>2. HeldInv /\ accumulator # None
  BY <1>1 DEF ClockInv, Kept, Frame, LifeInv
<1>3. /\ Timely(accumulator'.last_sample) /\ Timely(accumulator'.counter_reset_candidate)
      /\ Timely(disk')
  BY <1>1, <1>2 DEF HeldInv, Timely
<1>4. NotOlder(None, MaxAge + SaveLimit)
  BY DEF NotOlder, HasPower
<1> QED
  BY <1>1, <1>3, <1>4, EndRefreshAges

LEMMA AnswerUnauthorizedAges ==
    ASSUME ClockInv, AnswerUnauthorized
    PROVE  Kept' /\ AgeStep
<1>1. /\ phase' = "idle" /\ saving' = None
      /\ Fail("auth_failed", "setup_error")
      /\ UNCHANGED <<accumulator, cache, disk>>
  BY DEF AnswerUnauthorized, Idle, store
<1>2. HeldInv /\ ShownInv
  BY DEF ClockInv, Kept
<1>3. ShownInv' /\ Hides
  <2>1. CASE entry = "loading"
    BY <1>1, <2>1 DEF Fail, ShownInv, Hides, Saving, Polling
  <2>2. CASE entry # "loading"
    BY <1>1, <1>2, <2>2 DEF Fail, Hides, Saving, ShownInv
  <2> QED
    BY <2>1, <2>2
<1>4. HeldInv'
  BY <1>1, <1>2, ClockValues DEF HeldInv, Timely
<1> QED
  BY <1>3, <1>4 DEF Kept, AgeStep

-----------------------------------------------------------------------------
(* The entities: after a step that writes, and after one that only ages.   *)

LEMMA WriteIsCurrent ==
    ASSUME ClockInv, Write
    PROVE  WrittenIsCurrent'
<1>1. WrittenIsCurrent
  BY DEF ClockInv
<1>2. CASE entry' \notin {"loaded", "unloading", "failed_unload"}
  BY <1>2 DEF Write, WrittenIsCurrent
<1>3. CASE /\ entry' \in {"loaded", "unloading", "failed_unload"}
           /\ entry = "loading" \/ Notifies
  BY <1>3 DEF Write, WrittenIsCurrent
<1>4. CASE /\ entry' \in {"loaded", "unloading", "failed_unload"}
           /\ ~(entry = "loading" \/ Notifies)
  <2>1. written' = written
    BY <1>4 DEF Write
  <2>2. data' = data /\ ((refreshed' = "succeeded") <=> (refreshed = "succeeded"))
    BY <1>4 DEF Notifies
  <2>3. Available' <=> Available
    BY <2>2 DEF Available
  <2>4. EntityStates' = EntityStates
    BY <2>2, <2>3 DEF EntityStates, IsOn
  <2> QED
    BY <1>1, <2>1, <2>4 DEF WrittenIsCurrent
<1> QED
  BY <1>2, <1>3, <1>4

(* Growing older keeps a date among the timestamps and never adds to it. *)
LEMMA OlderFacts ==
    ASSUME NEW ts \in Timestamps
    PROVE  /\ ts \in Int /\ Older(ts) \in Timestamps
           /\ Older(ts) <= ts /\ -Older(ts) <= -ts + 1
<1>1. Timestamps = (-Horizon) .. Ahead /\ Horizon \in Nat /\ Ahead \in Nat
  BY ClockAssumption
<1> QED
  BY <1>1 DEF Older

LEMMA AgedSample ==
    ASSUME NEW s \in Sample \cup {None}
    PROVE  /\ Aged(s) \in Sample \cup {None}
           /\ Aged(s) = None <=> s = None
           /\ Timely(s) => Timely(Aged(s))
<1>1. CASE s = None
  BY <1>1 DEF Aged
<1>2. CASE s \in Sample
  <2>1. s # None /\ s.timestamp \in Timestamps /\ MaxAge \in Nat
    BY <1>2, ClockValues DEF Sample
  <2>2. Aged(s) = [s EXCEPT !.timestamp = Older(@)]
    BY <2>1 DEF Aged
  <2>3. Older(s.timestamp) \in Timestamps
    BY <2>1, OlderFacts
  <2>4. Aged(s) \in Sample /\ Aged(s).timestamp = Older(s.timestamp)
    BY <1>2, <2>2, <2>3 DEF Sample
  <2>5. Timely(s) => Timely(Aged(s))
    <3>1. /\ s.timestamp \in Int /\ Older(s.timestamp) \in Int
          /\ Older(s.timestamp) <= s.timestamp
      BY <2>1, <2>3, OlderFacts
    <3> QED
      BY <1>2, <2>1, <2>4, <3>1 DEF Timely
  <2> QED
    BY <2>1, <2>4, <2>5, ClockValues
<1> QED
  BY <1>1, <1>2

LEMMA AgedData ==
    ASSUME NEW d \in Data \cup {None}
    PROVE  /\ Aged(d) \in Data \cup {None}
           /\ Aged(d) = None <=> d = None
           /\ d # None => /\ Aged(d).grid_power_w = d.grid_power_w
                          /\ Aged(d).status = d.status
                          /\ Aged(d).timestamp = Older(d.timestamp)
                          /\ d.timestamp \in Timestamps
<1>1. CASE d = None
  BY <1>1 DEF Aged
<1>2. CASE d \in Data
  <2>1. d # None /\ d.timestamp \in Timestamps
    BY <1>2, ClockValues DEF Data
  <2>2. Aged(d) = [d EXCEPT !.timestamp = Older(@)]
    BY <2>1 DEF Aged
  <2>3. Older(d.timestamp) \in Timestamps
    BY <2>1, OlderFacts
  <2>4. /\ Aged(d) \in Data
        /\ Aged(d).timestamp = Older(d.timestamp)
        /\ Aged(d).grid_power_w = d.grid_power_w
        /\ Aged(d).status = d.status
    BY <1>2, <2>2, <2>3 DEF Data
  <2> QED
    BY <2>1, <2>4, ClockValues
<1> QED
  BY <1>1, <1>2

(* As time passes by one, an age bound loosens by one. *)
LEMMA AgedBound ==
    ASSUME NEW d \in Data \cup {None}, NEW b \in Int, NotOlder(d, b)
    PROVE  NotOlder(Aged(d), b + 1)
<1> SUFFICES ASSUME HasPower(Aged(d)) PROVE -Aged(d).timestamp <= b + 1
  BY DEF NotOlder
<1>1. HasPower(d) /\ Aged(d).timestamp = Older(d.timestamp) /\ d.timestamp \in Timestamps
  BY AgedData DEF HasPower
<1>2. -d.timestamp <= b
  BY <1>1 DEF NotOlder
<1>3. /\ d.timestamp \in Int /\ Older(d.timestamp) \in Int
      /\ -Older(d.timestamp) <= -d.timestamp + 1
  BY <1>1, OlderFacts, ClockAssumption
<1> QED
  BY <1>1, <1>2, <1>3

LEMMA TickKeeps ==
    ASSUME ClockInv, Tick
    PROVE  Frame' /\ Kept'
<1>1. TypeOK /\ LifeInv /\ WriteInv /\ ShownInv /\ HeldInv
  BY DEF ClockInv, Kept, Frame
<1>2. /\ saving' = Aged(saving) /\ result' = Aged(result) /\ data' = Aged(data)
      /\ cache' = (IF cache = Unloaded THEN cache ELSE Aged(cache))
      /\ disk' = Aged(disk)
      /\ accumulator' = AgedAccumulator(accumulator)
      /\ shown' = None
      /\ UNCHANGED <<entry, phase, refreshed, repeats, revived>>
  BY DEF Tick
<1>3. /\ saving' \in Sample \cup {None} /\ Timely(saving')
      /\ disk' \in Sample \cup {None} /\ Timely(disk')
      /\ saving # None => saving' # None
  BY <1>1, <1>2, AgedSample DEF TypeOK, HeldInv
<1>4. /\ cache' \in Sample \cup {None, Unloaded} /\ Timely(cache')
      /\ cache # Unloaded => cache' # Unloaded
  <2>1. CASE cache = Unloaded
    BY <1>1, <1>2, <2>1 DEF TypeOK, HeldInv
  <2>2. CASE cache # Unloaded
    <3>1. cache \in Sample \cup {None}
      BY <1>1, <2>2 DEF TypeOK
    <3>2. cache' \in Sample \cup {None} /\ Timely(cache')
      BY <1>1, <1>2, <2>2, <3>1, AgedSample DEF HeldInv
    <3> QED
      BY <3>2, EntryAssumption
  <2> QED
    BY <2>1, <2>2
<1>5. /\ result' \in Data \cup {None} /\ data' \in Data \cup {None}
      /\ data' = None <=> data = None
  BY <1>1, <1>2, AgedData DEF TypeOK
<1>6. /\ accumulator' \in Accumulator \cup {None}
      /\ accumulator' = None <=> accumulator = None
      /\ accumulator' # None => /\ Timely(accumulator'.last_sample)
                                /\ Timely(accumulator'.counter_reset_candidate)
  <2>1. CASE accumulator = None
    BY <1>2, <2>1 DEF AgedAccumulator
  <2>2. CASE accumulator # None
    <3>1. /\ accumulator.last_sample \in Sample \cup {None}
          /\ accumulator.counter_reset_candidate \in Sample \cup {None}
          /\ accumulator.last_data \in Data \cup {None}
          /\ Timely(accumulator.last_sample)
          /\ Timely(accumulator.counter_reset_candidate)
      BY <1>1, <2>2 DEF TypeOK, HeldInv, Accumulator
    <3>2. accumulator' = [counter_reset_candidate |-> Aged(accumulator.counter_reset_candidate),
                          last_data               |-> Aged(accumulator.last_data),
                          last_sample             |-> Aged(accumulator.last_sample)]
      BY <1>2, <2>2 DEF AgedAccumulator
    <3>3. /\ Aged(accumulator.last_sample) \in Sample \cup {None}
          /\ Aged(accumulator.counter_reset_candidate) \in Sample \cup {None}
          /\ Timely(Aged(accumulator.last_sample))
          /\ Timely(Aged(accumulator.counter_reset_candidate))
      BY <3>1, AgedSample
    <3>4. Aged(accumulator.last_data) \in Data \cup {None}
      BY <3>1, AgedData
    <3>5. accumulator' \in Accumulator
      BY <3>2, <3>3, <3>4 DEF Accumulator
    <3>6. Timely(accumulator'.last_sample) /\ Timely(accumulator'.counter_reset_candidate)
      BY <3>2, <3>3
    <3> QED
      BY <2>2, <3>5, <3>6, ClockValues
  <2> QED
    BY <2>1, <2>2
<1>7. TypeOK'
  BY <1>1, <1>2, <1>3, <1>4, <1>5, <1>6 DEF TypeOK
<1>8. LifeInv' /\ WriteInv'
  BY <1>1, <1>2, <1>3, <1>4, <1>5, <1>6 DEF LifeInv, WriteInv, Gone
<1>9. HeldInv' /\ ShownInv'
  BY <1>1, <1>2, <1>3, <1>4, <1>5, <1>6 DEF HeldInv, ShownInv
<1> QED
  BY <1>7, <1>8, <1>9 DEF Frame, Kept

LEMMA TickAges ==
    ASSUME ClockInv, Tick
    PROVE  timer' \in Nat /\ SavedInv' /\ PowerInv'
<1>1. /\ MaxAge \in Nat /\ Interval \in Nat /\ Timeout \in Nat /\ SaveLimit \in Nat
      /\ timer \in Nat
  BY ClockValues DEF ClockInv
<1>2. /\ TypeOK /\ LifeInv /\ SavedInv /\ PowerInv
  BY DEF ClockInv, Frame
<1>3. /\ timer' = (IF timer = 0 THEN 0 ELSE timer - 1)
      /\ result' = Aged(result) /\ data' = Aged(data)
      /\ UNCHANGED <<entry, phase, refreshed>>
      /\ ~Due
  BY DEF Tick
<1>4. timer' \in Nat
  BY <1>1, <1>3
<1>5. data \in Data \cup {None} /\ result \in Data \cup {None}
  BY <1>2 DEF TypeOK
<1>6. ASSUME NEW d \in Data \cup {None}, NEW b \in Int, timer # 0, NotOlder(d, b - timer)
      PROVE  NotOlder(Aged(d), b - timer')
  <2>1. b - timer \in Int /\ (b - timer) + 1 = b - timer'
    BY <1>1, <1>3, <1>6
  <2>2. NotOlder(Aged(d), (b - timer) + 1)
    BY <1>6, <2>1, AgedBound
  <2> QED
    BY <2>1, <2>2
<1>7. SavedInv'
  <2> SUFFICES ASSUME phase \in Saving PROVE NotOlder(result', (MaxAge + SaveLimit) - timer')
    BY <1>3 DEF SavedInv
  <2>1. timer # 0
    BY <1>3 DEF Due, Saving
  <2>2. NotOlder(result, (MaxAge + SaveLimit) - timer)
    BY <1>2 DEF SavedInv
  <2>3. MaxAge + SaveLimit \in Int
    BY <1>1
  <2>4. NotOlder(Aged(result), (MaxAge + SaveLimit) - timer')
    BY <1>5, <1>6, <2>1, <2>2, <2>3, Zenon
  <2> QED
    BY <1>3, <2>4, Zenon
<1>8. PowerInv'
  <2> SUFFICES ASSUME entry \in Polling, refreshed = "succeeded"
               PROVE  /\ phase = "idle" =>
                           NotOlder(data', (MaxAge + SaveLimit + Interval) - timer')
                      /\ phase = "requesting" =>
                           NotOlder(data', (MaxAge + SaveLimit + Interval + Timeout) - timer')
                      /\ phase \in Saving =>
                           NotOlder(data', (MaxAge + SaveLimit + Interval + Timeout + SaveLimit)
                                              - timer')
    BY <1>3 DEF PowerInv
  <2>1. timer # 0
    BY <1>2, <1>3 DEF Due, Polls, Polling, LifeInv, Running
  <2>2. /\ MaxAge + SaveLimit + Interval \in Int
        /\ MaxAge + SaveLimit + Interval + Timeout \in Int
        /\ MaxAge + SaveLimit + Interval + Timeout + SaveLimit \in Int
    BY <1>1
  <2>3. phase = "idle" => NotOlder(data', (MaxAge + SaveLimit + Interval) - timer')
    <3>1. phase = "idle" => NotOlder(data, (MaxAge + SaveLimit + Interval) - timer)
      BY <1>2 DEF PowerInv
    <3>2. phase = "idle" => NotOlder(Aged(data), (MaxAge + SaveLimit + Interval) - timer')
      BY <1>5, <1>6, <2>1, <2>2, <3>1, Zenon
    <3> QED
      BY <1>3, <3>2, Zenon
  <2>4. phase = "requesting" =>
           NotOlder(data', (MaxAge + SaveLimit + Interval + Timeout) - timer')
    <3>1. phase = "requesting" =>
             NotOlder(data, (MaxAge + SaveLimit + Interval + Timeout) - timer)
      BY <1>2 DEF PowerInv
    <3>2. phase = "requesting" =>
             NotOlder(Aged(data), (MaxAge + SaveLimit + Interval + Timeout) - timer')
      BY <1>5, <1>6, <2>1, <2>2, <3>1, Zenon
    <3> QED
      BY <1>3, <3>2, Zenon
  <2>5. phase \in Saving =>
           NotOlder(data', (MaxAge + SaveLimit + Interval + Timeout + SaveLimit) - timer')
    <3>1. phase \in Saving =>
             NotOlder(data, (MaxAge + SaveLimit + Interval + Timeout + SaveLimit) - timer)
      BY <1>2 DEF PowerInv
    <3>2. phase \in Saving =>
             NotOlder(Aged(data), (MaxAge + SaveLimit + Interval + Timeout + SaveLimit) - timer')
      BY <1>5, <1>6, <2>1, <2>2, <3>1, Zenon
    <3> QED
      BY <1>3, <3>2, Zenon
  <2> QED
    BY <2>3, <2>4, <2>5
<1> QED
  BY <1>4, <1>7, <1>8

LEMMA TickIsCurrent ==
    ASSUME ClockInv, Tick
    PROVE  WrittenIsCurrent'
<1>1. /\ written' = AgedStates(written) /\ data' = Aged(data) /\ UNCHANGED refreshed
  BY DEF Tick
<1>2. WrittenIsCurrent /\ data \in Data \cup {None}
  BY DEF ClockInv, Frame, TypeOK
<1>3. CASE written = None
  BY <1>1, <1>3 DEF AgedStates, WrittenIsCurrent
<1>4. CASE written # None /\ ~Available
  <2>1. written = [grid_power        |-> Unavailable,
                   grid_power_status |-> Unavailable,
                   last_meter_sample |-> Unavailable,
                   grid_power_ready  |-> Unavailable]
    BY <1>2, <1>4 DEF WrittenIsCurrent, EntityStates
  <2>2. written' = written
    BY <1>1, <2>1 DEF AgedStates
  <2>3. ~Available'
    BY <1>1, <1>2, <1>4, AgedData DEF Available
  <2> QED
    BY <2>1, <2>2, <2>3 DEF WrittenIsCurrent, EntityStates
<1>5. CASE written # None /\ Available
  <2>1. written = [grid_power        |-> data.grid_power_w,
                   grid_power_status |-> data.status,
                   last_meter_sample |-> data.timestamp,
                   grid_power_ready  |-> IsOn]
    BY <1>2, <1>5 DEF WrittenIsCurrent, EntityStates
  <2>2. /\ data # None /\ data' # None
        /\ data'.grid_power_w = data.grid_power_w
        /\ data'.status = data.status
        /\ data'.timestamp = Older(data.timestamp)
        /\ data.timestamp \in Timestamps
    BY <1>1, <1>2, <1>5, AgedData DEF Available
  <2>3. written.last_meter_sample # Unavailable
    BY <2>1, <2>2, ClockAssumption
  <2>4. written' = [written EXCEPT !.last_meter_sample = Older(@)]
    BY <1>1, <1>5, <2>3 DEF AgedStates
  <2>5. written' = [grid_power        |-> data.grid_power_w,
                    grid_power_status |-> data.status,
                    last_meter_sample |-> Older(data.timestamp),
                    grid_power_ready  |-> IsOn]
    BY <2>1, <2>4
  <2>6. Available'
    BY <1>1, <1>5, <2>2 DEF Available
  <2>7. IsOn' = IsOn
    BY <2>2 DEF IsOn
  <2>8. EntityStates' = [grid_power        |-> data'.grid_power_w,
                         grid_power_status |-> data'.status,
                         last_meter_sample |-> data'.timestamp,
                         grid_power_ready  |-> IsOn']
    BY <2>6 DEF EntityStates
  <2> QED
    BY <2>2, <2>5, <2>7, <2>8 DEF WrittenIsCurrent
<1> QED
  BY <1>3, <1>4, <1>5

-----------------------------------------------------------------------------
(* The invariant of the entry with its clock *)

LEMMA ClockInitInv == ClockInit => ClockInv
<1> SUFFICES ASSUME ClockInit PROVE ClockInv
  OBVIOUS
<1>1. Frame
  BY InitFrame DEF ClockInit
<1>2. ShownInv
  BY DEF ClockInit, Init, ShownInv, Polling
<1>3. HeldInv
  BY ClockValues, EntryAssumption DEF ClockInit, Init, HeldInv, Timely
<1>4. timer \in Nat /\ SavedInv /\ PowerInv /\ WrittenIsCurrent
  BY DEF ClockInit, Init, SavedInv, Saving, PowerInv, Polling, WrittenIsCurrent
<1> QED
  BY <1>1, <1>2, <1>3, <1>4 DEF ClockInv, Kept

LEMMA ClockFrame ==
    ASSUME Frame, Disturbed \/ Undisturbed \/ WellAnswer
    PROVE  Frame'
<1>1. Packets \subseteq EntrySample
  BY ClockAssumption
<1>2. LifeCycle \/ Storage \/ StartRefresh \/ Answer \/ Crash
  BY <1>1 DEF Disturbed, Undisturbed, WellAnswer, AnySample, AnyStale,
              LifeCycle, Storage, Answer
<1> QED
  BY <1>2, LifeCycleFrame, StorageFrame, StartRefreshFrame, AnswerFrame, CrashFrame
  DEF KeepsFrame

LEMMA ClockAges ==
    ASSUME ClockInv, Disturbed \/ Undisturbed \/ WellAnswer
    PROVE  Kept' /\ AgeStep
<1>1. CASE WellAnswer
  <2>1. PICK s \in Packets : s.timestamp = 0 /\ AnswerSample(s)
    BY <1>1 DEF WellAnswer
  <2>2. ~Stale(s.timestamp, MaxAge, 0)
    BY <2>1, WellFacts
  <2> QED
    BY <2>1, <2>2, AnswerSampleAges
<1>2. CASE AnySample \/ AnyStale
  BY <1>2, AnswerSampleAges, AnswerStaleAges DEF AnySample, AnyStale
<1> QED
  BY <1>1, <1>2, SetupAges, UntouchedAges, UnloadAges, SaveToCacheAges, StartRefreshAges,
     SaveToDiskAges, AnswerUnauthorizedAges, RequestFailsAges
  DEF Disturbed, Undisturbed

LEMMA ClockStutter ==
    ASSUME ClockInv, UNCHANGED <<vars, timer, written>>
    PROVE  ClockInv'
<1>1. UNCHANGED <<entry, accumulator, phase, saving, result, data, refreshed, cache, disk,
                  timer, written>>
  BY DEF vars, poll, store
<1>2. Frame'
  BY StutterFrame DEF ClockInv, KeepsFrame
<1>3. Kept'
  BY <1>1 DEF ClockInv, Kept, ShownInv, HeldInv, Timely
<1>4. SavedInv' /\ PowerInv'
  BY <1>1 DEF ClockInv, SavedInv, PowerInv
<1>5. WrittenIsCurrent'
  BY <1>1 DEF ClockInv, WrittenIsCurrent, EntityStates, Available, IsOn
<1> QED
  BY <1>1, <1>2, <1>3, <1>4, <1>5 DEF ClockInv

LEMMA ClockNextInv == ClockInv /\ [ClockNext]_allVars => ClockInv'
<1> SUFFICES ASSUME ClockInv, [ClockNext]_allVars PROVE ClockInv'
  OBVIOUS
<1>1. CASE (Disturbed \/ Undisturbed \/ WellAnswer) /\ Write /\ Restart
  <2>1. Frame' /\ Kept' /\ AgeStep
    BY <1>1, ClockFrame, ClockAges DEF ClockInv
  <2>2. phase' \in Phases /\ data' \in Data \cup {None} /\ result' \in Data \cup {None}
    BY <2>1 DEF Frame, TypeOK
  <2>3. timer' \in Nat /\ SavedInv' /\ PowerInv'
    BY <1>1, <2>1, <2>2, AgesOfStep
  <2>4. WrittenIsCurrent'
    BY <1>1, WriteIsCurrent
  <2> QED
    BY <2>1, <2>3, <2>4 DEF ClockInv
<1>2. CASE Tick
  BY <1>2, TickKeeps, TickAges, TickIsCurrent DEF ClockInv
<1>3. CASE BecomesWell
  BY <1>3, ClockStutter DEF BecomesWell
<1>4. CASE UNCHANGED allVars
  BY <1>4, ClockStutter DEF allVars, clock
<1> QED
  BY <1>1, <1>2, <1>3, <1>4 DEF ClockNext

(* The parts of ClockInv hold of every reachable state. *)
THEOREM ClockInvariance == ClockSpec => []ClockInv
<1> QED
  BY ClockInitInv, ClockNextInv, PTL DEF ClockSpec

(* Whatever fails and however packets repeat, a power on display is never  *)
(* older than the limits of one poll after another allow                   *)
(* (coordinator.py:66-128, sensor.py's value of coordinator.data).         *)
THEOREM FreshOnDisplayCorrect == ClockSpec => []FreshOnDisplay
<1>1. ClockInv => FreshOnDisplay
  <2> SUFFICES ASSUME ClockInv, Displayed
               PROVE  Diagnostics.source_timestamp_age_seconds
                         <= MaxAge + SaveLimit + Interval + Timeout + SaveLimit
    BY DEF FreshOnDisplay
  <2>1. /\ MaxAge \in Nat /\ Interval \in Nat /\ Timeout \in Nat /\ SaveLimit \in Nat
        /\ timer \in Nat
    BY ClockValues DEF ClockInv
  <2>2. /\ entry \in Polling /\ refreshed = "succeeded"
        /\ data.grid_power_w # None
    BY DEF Displayed, Diagnostics, Polling
  <2>3. /\ phase \in Phases
        /\ data # None /\ data.timestamp \in Int
        /\ PowerInv
    BY <2>2, ClockValues DEF ClockInv, Frame, TypeOK, Kept, ShownInv
  <2>4. -data.timestamp <= MaxAge + SaveLimit + Interval + Timeout + SaveLimit
    <3>1. CASE phase = "idle"
      BY <2>1, <2>2, <2>3, <3>1 DEF PowerInv, NotOlder, HasPower
    <3>2. CASE phase = "requesting"
      BY <2>1, <2>2, <2>3, <3>2 DEF PowerInv, NotOlder, HasPower
    <3>3. CASE phase \in Saving
      BY <2>1, <2>2, <2>3, <3>3 DEF PowerInv, NotOlder, HasPower
    <3> QED
      BY <2>3, <3>1, <3>2, <3>3 DEF Phases, Saving
  <2> QED
    BY <2>1, <2>3, <2>4 DEF Diagnostics
<1> QED
  BY <1>1, ClockInvariance, PTL

(* The entities never fall behind the coordinator, though they write only  *)
(* when its data or its success changes (coordinator.py:62's               *)
(* always_update=False).                                                   *)
THEOREM WrittenIsCurrentCorrect == ClockSpec => []WrittenIsCurrent
<1>1. ClockInv => WrittenIsCurrent
  BY DEF ClockInv
<1> QED
  BY <1>1, ClockInvariance, PTL

(* A packet dated ahead is never kept with a date that turns packets with  *)
(* the right time away for longer than the greatest age (api.py:358).      *)
THEOREM AheadIsBoundedCorrect == ClockSpec => []AheadIsBounded
<1>1. ClockInv => AheadIsBounded
  <2> SUFFICES ASSUME ClockInv, NEW s \in HeldSamples \ {None, Unloaded}
               PROVE  s.timestamp <= MaxAge
    BY DEF AheadIsBounded
  <2>1. TypeOK /\ HeldInv
    BY DEF ClockInv, Frame, Kept
  <2>2. s \in Sample /\ Timely(s)
    <3>1. CASE s \in {disk, cache}
      BY <2>1, <3>1 DEF TypeOK, HeldInv
    <3>2. CASE /\ accumulator # None
               /\ s \in {accumulator.last_sample, accumulator.counter_reset_candidate}
      BY <2>1, <3>2 DEF TypeOK, HeldInv, Accumulator
    <3> QED
      BY <3>1, <3>2 DEF HeldSamples
  <2> QED
    BY <2>2 DEF Timely
<1> QED
  BY <1>1, ClockInvariance, PTL
=============================================================================
