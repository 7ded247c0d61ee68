------------------------- MODULE PerificEntryFaults -------------------------
(***************************************************************************)
(* The config entry of PerificEntry under two faults that its own model    *)
(* assumes away.                                                           *)
(*                                                                         *)
(* A refresh can outlive its coordinator: one asked for by a service call  *)
(* runs in the caller's task, which unloading the entry does not cancel.   *)
(* Its answer still goes to the old accumulator and its sample to the      *)
(* store, under the entry's id, whatever the entry has become by then.     *)
(*                                                                         *)
(* A write can fail: Home Assistant's Store logs the error and returns as  *)
(* if the file had been written.                                           *)
(***************************************************************************)
EXTENDS PerificEntry

VARIABLES
    fault,      \* which of the two faults there is: "late" or "write"
    late,       \* a refresh whose coordinator is gone, or None
    overwrote,  \* history: a late refresh has replaced a newer stored sample
    behind,     \* history: a write failed and none has succeeded since
    lost        \* history: the process ended while the file was behind

faults == <<fault, late, overwrote, behind, lost>>
faultVars == <<vars, faults>>

FaultInit ==
    /\ Init
    /\ fault \in {"late", "write"}
    /\ late = None
    /\ overwrote = FALSE /\ behind = FALSE /\ lost = FALSE

-----------------------------------------------------------------------------
(* The refresh that goes on.  One is late at a time (a bound).             *)

UnloadLeavingRefresh ==
    /\ entry = "unloading"
    /\ phase # "idle" /\ late = None
    /\ late' = [stage       |-> phase,
                accumulator |-> IF phase = "requesting" THEN accumulator ELSE None,
                saving      |-> saving]
    /\ entry' = "not_loaded"
    /\ accumulator' = None
    /\ Drop
    /\ Idle
    /\ UNCHANGED <<store, history, fault, overwrote, behind, lost>>

LateSaves(sample) ==
    late' = IF sample = None THEN None
            ELSE [stage |-> "locking", accumulator |-> None, saving |-> sample]

LateAnswerSample(s) ==
    /\ late # None /\ late.stage = "requesting"
    /\ LateSaves(SampleToSave(late.accumulator, Update(late.accumulator, s).acc, s))
    /\ UNCHANGED <<vars, fault, overwrote, behind, lost>>

LateAnswerStale ==
    /\ late # None /\ late.stage = "requesting"
    /\ LateSaves(IF late.accumulator.last_data # None
                 THEN late.accumulator.last_sample ELSE None)
    /\ UNCHANGED <<vars, fault, overwrote, behind, lost>>

LateFails ==
    /\ late # None /\ late.stage = "requesting"
    /\ late' = None
    /\ UNCHANGED <<vars, fault, overwrote, behind, lost>>

LateSaveToCache ==
    /\ late # None /\ late.stage = "locking"
    /\ phase # "writing" /\ entry # "erasing"
    /\ late' = [late EXCEPT !.stage = "writing"]
    /\ cache' = late.saving
    /\ overwrote' = (overwrote \/ (cache # None /\ cache.timestamp > late.saving.timestamp))
    /\ revived' = (revived \/ entry = "removed")
    /\ UNCHANGED <<entry, accumulator, poll, data, refreshed, disk, shown, repeats,
                   fault, behind, lost>>

LateSaveToDisk ==
    /\ late # None /\ late.stage = "writing"
    /\ late' = None
    /\ disk' = cache
    /\ UNCHANGED <<entry, accumulator, poll, data, refreshed, cache, history,
                   fault, overwrote, behind, lost>>

(* a crash in the middle of the late write; any other is Crash below *)
LateCrash ==
    /\ late # None /\ late.stage = "writing"
    /\ late' = None
    /\ entry' = IF entry = "removed" THEN entry ELSE "not_loaded"
    /\ accumulator' = None
    /\ Idle
    /\ Drop
    /\ cache' = Unloaded
    /\ disk' \in {disk, cache}
    /\ UNCHANGED <<history, fault, overwrote, behind, lost>>

(* the late refresh holds the store's lock *)
LockTaken == late # None /\ late.stage = "writing"

LateNext ==
    \/ UnloadLeavingRefresh
    \/ \E s \in EntrySample : LateAnswerSample(s)
    \/ LateAnswerStale
    \/ LateFails
    \/ LateSaveToCache
    \/ LateSaveToDisk
    \/ LateCrash
    \/ /\ ~LockTaken
       /\ Setup \/ Storage
       /\ UNCHANGED faults
    \/ /\ UnloadBegins \/ Unload \/ UnloadFails \/ Remove \/ StartRefresh \/ Answer
       /\ UNCHANGED faults
    \/ /\ ~LockTaken
       /\ Crash
       /\ late' = None
       /\ UNCHANGED <<fault, overwrote, behind, lost>>

LateSpec == FaultInit /\ fault = "late" /\ [][LateNext]_faultVars

-----------------------------------------------------------------------------
(* The write that fails.                                                   *)

SaveFails ==
    /\ phase = "writing"
    /\ EndRefresh(result)
    /\ behind' = TRUE
    /\ UNCHANGED <<accumulator, store, fault, late, overwrote, lost>>

EraseFails ==
    /\ entry = "erasing"
    /\ entry' = "removed"
    /\ behind' = TRUE
    /\ UNCHANGED <<accumulator, poll, data, refreshed, store, history,
                   fault, late, overwrote, lost>>

FailingNext ==
    \/ SaveFails
    \/ EraseFails
    \/ /\ SaveToDisk \/ EraseSample \/ OtherEntrySaves
       /\ behind' = FALSE
       /\ UNCHANGED <<fault, late, overwrote, lost>>
    \/ /\ \/ LifeCycle \/ RemoveSample \/ SaveToCache
          \/ OtherEntryLoads \/ StartRefresh \/ Answer
       /\ UNCHANGED faults
    \/ /\ Crash
       /\ lost' = (lost \/ behind)
       /\ behind' = FALSE
       /\ UNCHANGED <<fault, late, overwrote>>

(* one fault at a time *)
FaultNext ==
    \/ fault = "late" /\ LateNext
    \/ fault = "write" /\ FailingNext

FaultSpec == FaultInit /\ [][FaultNext]_faultVars

-----------------------------------------------------------------------------
(* Properties.  PublishedOnce itself fails under LateSpec.               *)

(* A late refresh does harm in two ways only.  A reading comes back only   *)
(* after it has put an older sample over a newer one in the store, from    *)
(* which a later set-up starts; a late sample that is as new is harmless   *)
(* at whatever point of a reload or of a new refresh it is saved.  And a   *)
(* removed entry's sample comes back only if the late refresh gets to the  *)
(* store when the removal is over; before that, the removal takes it away. *)
LateHarmsTwoWays ==
    fault = "late" =>
        /\ ~overwrote => PublishedOnce /\ DurableBeforeShown
        /\ RemovedForGood

(* After failed writes the dictionary is enough: over reloads, failed      *)
(* set-ups and interrupted saves no reading is shown twice, unless the     *)
(* whole process ends before a later write has succeeded.                  *)
OnlyLossHarms ==
    fault = "write" /\ ~lost =>
        /\ PublishedOnce
        /\ shown # None /\ cache # Unloaded =>
              cache # None /\ cache.timestamp >= shown
=============================================================================
