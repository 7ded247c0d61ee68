---------------------------- MODULE PerificEntry ----------------------------
(***************************************************************************)
(* One config entry of the integration through its whole life: setup,      *)
(* polling, unload, removal, crash and restart.  It joins __init__.py (the *)
(* entry's life cycle and the accumulators kept in hass.data),             *)
(* coordinator.py (one refresh) and this entry's slot of the sample store  *)
(* (store.py: the dictionary in memory and the file).                      *)
(*                                                                         *)
(* A refresh is broken where the code awaits: the request, the store's     *)
(* lock, the file write.  Between two awaits nothing else runs, so each    *)
(* action is the code from one await to the next.                          *)
(*                                                                         *)
(* Home Assistant and the cloud are the environment.  The cloud may answer *)
(* with any sample of the entry's meter, so late, repeated and corrected   *)
(* packets are all included, and whether a packet is stale is its choice.  *)
(* Home Assistant is as the code relies on it: set up, unloading and       *)
(* removal of an entry exclude each other; refreshes of a coordinator do   *)
(* not overlap; an unload that succeeds cancels the refresh in flight.  An *)
(* unload that fails does nothing: the coordinator goes on, and an entry   *)
(* that is then removed leaves it behind.                                  *)
(***************************************************************************)
EXTENDS GridPowerMeter

CONSTANTS
    Item,     \* entry.data["item_id"]
    Unloaded  \* the store's _data before the file is read

ASSUME EntryAssumption ==
    /\ Item \in Items
    /\ Unloaded \notin Sample \cup {None}

VARIABLES
    entry,        \* Home Assistant's state of the config entry
    accumulator,  \* domain_data.grid_power_accumulators.get(entry_id), or what a
                  \* coordinator left behind by a removal holds
    phase,        \* where the refresh in flight is: its next await
    saving,       \* the sample the refresh is about to save
    result,       \* what the refresh will return after saving, or None if it raises
    data,         \* coordinator.data
    refreshed,    \* how the coordinator's last refresh ended
    cache,        \* this entry's slot of the store's _data, or Unloaded
    disk,         \* this entry's slot of the storage file
    shown,        \* history: timestamp of the newest ready reading shown
    repeats,      \* history: 1 once a reading shown was not newer than that
    revived       \* history: a refresh has saved its sample after the removal

store    == <<cache, disk>>
poll     == <<phase, saving, result>>
history  == <<shown, repeats, revived>>
vars     == <<entry, accumulator, poll, data, refreshed, store, history>>

EntrySample == {s \in Sample : s.item_id = Item}

EntryStates == {"not_loaded", "loading", "loaded", "unloading", "failed_unload",
                "setup_retry", "setup_error", "removing", "erasing", "removed"}
Phases      == {"idle", "requesting", "locking", "writing"}
Refreshes   == {"never", "succeeded", "failed", "auth_failed"}

Init ==
    /\ entry = "not_loaded"
    /\ accumulator = None
    /\ phase = "idle" /\ saving = None /\ result = None
    /\ data = None /\ refreshed = "never"
    /\ cache = Unloaded
    /\ disk = None
    /\ shown = None /\ repeats = 0 /\ revived = FALSE

(* the user has given the entry up *)
Gone == entry \in {"removing", "erasing", "removed"}

-----------------------------------------------------------------------------
(* The end of a refresh: DataUpdateCoordinator stores what                 *)
(* _async_update_data returned or notes that it raised; the first refresh  *)
(* also decides how async_setup_entry ends.                                *)

Idle ==
    /\ phase' = "idle"
    /\ saving' = None
    /\ result' = None

Drop ==
    /\ data' = None
    /\ refreshed' = "never"

Show(d) ==
    /\ data' = d
    /\ refreshed' = "succeeded"
    /\ entry' = IF entry = "loading" THEN "loaded" ELSE entry
    /\ IF d.status = Ready /\ ~Gone
       THEN /\ shown' = d.timestamp
            /\ repeats' = IF shown # None /\ d.timestamp <= shown THEN 1 ELSE repeats
            /\ UNCHANGED revived
       ELSE UNCHANGED history

Fail(how, setupState) ==
    /\ UNCHANGED history
    /\ IF entry = "loading"
       THEN entry' = setupState /\ Drop
       ELSE /\ refreshed' = how
            /\ UNCHANGED <<entry, data>>

EndRefresh(outcome) ==
    /\ Idle
    /\ IF outcome = None
       THEN Fail("failed", "setup_retry")
       ELSE Show(outcome)

(* the result is shown while the save is still to come *)
EndThenSave(sample, outcome) ==
    IF sample = None \/ outcome = None
    THEN EndRefresh(outcome)
    ELSE /\ phase' = "locking"
         /\ saving' = sample
         /\ result' = outcome
         /\ Show(outcome)

(* Go on to save a sample, or end the refresh at once. *)
SaveThenEnd(sample, outcome) ==
    IF sample = None
    THEN EndRefresh(outcome)
    ELSE /\ phase' = "locking"
         /\ saving' = sample
         /\ result' = outcome
         /\ UNCHANGED <<entry, data, refreshed, history>>

-----------------------------------------------------------------------------
(* __init__.py *)

(* async_setup_entry up to the first refresh's request.  An accumulator    *)
(* left by an attempt that failed is taken up again (setdefault).          *)
SetupOverwriting ==
    /\ entry \in {"not_loaded", "setup_retry", "setup_error"}
    /\ entry' = "loading"
    /\ cache' = IF cache = Unloaded THEN disk ELSE cache
    /\ accumulator' = NewAccumulator(disk)
    /\ phase' = "requesting"
    /\ Drop
    /\ UNCHANGED <<saving, result, disk, history>>

Setup ==
    /\ entry \in {"not_loaded", "setup_retry", "setup_error"}
    /\ entry' = "loading"
    /\ cache' = IF cache = Unloaded THEN disk ELSE cache
    /\ accumulator' = IF accumulator = None THEN NewAccumulator(cache') ELSE accumulator
    /\ phase' = "requesting"
    /\ Drop
    /\ UNCHANGED <<saving, result, disk, history>>

(* the platforms are being unloaded; the coordinator still runs *)
UnloadBegins ==
    /\ entry = "loaded"
    /\ entry' = "unloading"
    /\ UNCHANGED <<accumulator, poll, data, refreshed, store, history>>

(* A write that is cut off leaves either file. *)
DiskAfterInterrupt == IF phase = "writing" \/ entry = "erasing" THEN {disk, cache} ELSE {disk}

Unload ==
    /\ entry = "unloading"
    /\ entry' = "not_loaded"
    /\ accumulator' = None
    /\ Drop
    /\ Idle
    /\ disk' \in DiskAfterInterrupt
    /\ UNCHANGED <<cache, history>>

UnloadFails ==
    /\ entry = "unloading"
    /\ entry' = "failed_unload"
    /\ UNCHANGED <<accumulator, poll, data, refreshed, store, history>>

(* async_remove_entry up to the store's lock: the accumulator goes first,  *)
(* but a coordinator that was not unloaded has it still.  The user gives   *)
(* the entry up, and with it the history of its readings.                  *)
Remove ==
    /\ entry \in {"not_loaded", "setup_retry", "setup_error", "failed_unload"}
    /\ entry' = "removing"
    /\ accumulator' = IF entry = "failed_unload" THEN accumulator ELSE None
    /\ shown' = None
    /\ UNCHANGED <<poll, data, refreshed, store, repeats, revived>>

-----------------------------------------------------------------------------
(* store.py *)

(* async_remove_sample pops without looking into the file first *)
RemoveFromMemory ==
    /\ entry = "removing"
    /\ phase # "writing"
    /\ cache' = None
    /\ entry' = IF cache \in {None, Unloaded} THEN "removed" ELSE "erasing"
    /\ UNCHANGED <<accumulator, poll, data, refreshed, disk, history>>

(* async_remove_sample: load if need be, pop, and save if there was one *)
RemoveSample ==
    /\ entry = "removing"
    /\ phase # "writing"
    /\ cache' = None
    /\ entry' = IF (IF cache = Unloaded THEN disk ELSE cache) = None
                THEN "removed" ELSE "erasing"
    /\ UNCHANGED <<accumulator, poll, data, refreshed, disk, history>>

EraseSample ==
    /\ entry = "erasing"
    /\ entry' = "removed"
    /\ disk' = cache
    /\ UNCHANGED <<accumulator, poll, data, refreshed, cache, history>>

(* async_save_sample once it holds the lock: the dictionary, then the file *)
SaveToCache ==
    /\ phase = "locking"
    /\ entry # "erasing"
    /\ phase' = "writing"
    /\ cache' = saving
    /\ revived' = (revived \/ entry = "removed")
    /\ UNCHANGED <<entry, accumulator, saving, result, data, refreshed, disk, shown, repeats>>

SaveToDisk ==
    /\ phase = "writing"
    /\ disk' = cache
    /\ EndRefresh(result)
    /\ UNCHANGED <<accumulator, cache>>

(* another entry's call reads the file, or writes the dictionary to it *)
OtherEntryLoads ==
    /\ cache = Unloaded
    /\ cache' = disk
    /\ UNCHANGED <<entry, accumulator, poll, data, refreshed, disk, history>>

OtherEntrySaves ==
    /\ cache # Unloaded
    /\ phase # "writing"
    /\ entry # "erasing"
    /\ disk' = cache
    /\ UNCHANGED <<entry, accumulator, poll, data, refreshed, cache, history>>

-----------------------------------------------------------------------------
(* coordinator.py *)

(* A coordinator polls as long as there are entities that listen to it:    *)
(* they go with a successful unload, or with the entry once it is removed. *)
Polls ==
    /\ entry \in {"loaded", "unloading", "failed_unload", "removing", "erasing"}
    /\ accumulator # None
    /\ refreshed # "auth_failed"

StartRefresh ==
    /\ Polls
    /\ phase = "idle"
    /\ phase' = "requesting"
    /\ UNCHANGED <<entry, accumulator, saving, result, data, refreshed, store, history>>

WithoutPower(ts, status) ==
    [item_id |-> Item, grid_power_w |-> None, timestamp |-> ts, status |-> status]

(* only a sample that gives a reading is saved, not a new baseline *)
SaveReadingsOnly(before, after, sample) ==
    IF after.last_sample = sample /\ after.last_data # None
    THEN sample ELSE None

(* _async_update_from_sample: what it saves on its way out, if anything *)
SampleToSave(before, after, sample) ==
    IF /\ after.last_sample = sample
       /\ \/ after.last_sample # before.last_sample
          \/ after.last_data # before.last_data
    THEN sample ELSE None

AnswerSample(s) ==
    /\ phase = "requesting"
    /\ LET update == Update(accumulator, s)
           outcome == IF update.field # NoError THEN None
                      ELSE IF update.data = None
                      THEN WithoutPower(s.timestamp, BaselineRequired)
                      ELSE update.data
       IN /\ accumulator' = update.acc
          /\ SaveThenEnd(SampleToSave(accumulator, update.acc, s), outcome)
    /\ UNCHANGED store

(* a stale packet leaves the accumulator's reading in place *)
AnswerStaleKeepingReading(ts) ==
    /\ phase = "requesting"
    /\ EndRefresh(WithoutPower(ts, StalePhaseMinute))
    /\ UNCHANGED <<accumulator, store>>

(* _async_clear_stale_grid_power *)
AnswerStale(ts) ==
    /\ phase = "requesting"
    /\ accumulator' = [accumulator EXCEPT !.last_data = None]
    /\ SaveThenEnd(IF accumulator.last_data # None THEN accumulator.last_sample ELSE None,
                   WithoutPower(ts, StalePhaseMinute))
    /\ UNCHANGED store

(* PerificAuthError: ConfigEntryAuthFailed, which also ends the polling *)
AnswerUnauthorized ==
    /\ phase = "requesting"
    /\ Idle
    /\ Fail("auth_failed", "setup_error")
    /\ UNCHANGED <<accumulator, store>>

(* a failed request carries the last data forward *)
RequestFailsKeepingData ==
    /\ phase = "requesting"
    /\ EndRefresh(data)
    /\ UNCHANGED <<accumulator, store>>

(* PerificConnectionError, PerificResponseError, any other PerificDataError *)
RequestFails ==
    /\ phase = "requesting"
    /\ EndRefresh(None)
    /\ UNCHANGED <<accumulator, store>>

-----------------------------------------------------------------------------
(* Home Assistant dies and starts again: only the file survives. *)
Crash ==
    /\ entry' = IF entry = "removed" THEN entry ELSE "not_loaded"
    /\ accumulator' = None
    /\ Idle
    /\ Drop
    /\ cache' = Unloaded
    /\ disk' \in DiskAfterInterrupt
    /\ UNCHANGED history

Answer ==
    \/ \E s \in EntrySample : AnswerSample(s)
    \/ \E ts \in Timestamps : AnswerStale(ts)
    \/ AnswerUnauthorized
    \/ RequestFails

LifeCycle == Setup \/ UnloadBegins \/ Unload \/ UnloadFails \/ Remove

Storage ==
    RemoveSample \/ EraseSample \/ SaveToCache \/ SaveToDisk
       \/ OtherEntryLoads \/ OtherEntrySaves

Next == LifeCycle \/ Storage \/ StartRefresh \/ Answer \/ Crash

Spec == Init /\ [][Next]_vars

-----------------------------------------------------------------------------
(* Properties *)

(* The types of the entry's state. *)
TypeOK ==
    /\ entry \in EntryStates
    /\ accumulator \in Accumulator \cup {None}
    /\ phase \in Phases
    /\ saving \in Sample \cup {None}
    /\ result \in Data \cup {None}
    /\ data \in Data \cup {None}
    /\ refreshed \in Refreshes
    /\ cache \in Sample \cup {None, Unloaded}
    /\ disk \in Sample \cup {None}
    /\ shown \in Timestamps \cup {None}
    /\ repeats \in 0 .. 1
    /\ revived \in BOOLEAN

(* Across reloads, failed setups, interrupted saves and crashes, no source *)
(* timestamp is shown as a ready reading twice, nor one older than one     *)
(* already shown: the sample is saved before its reading is shown.         *)
PublishedOnce == repeats = 0

(* The reason: the file already holds the sample of the newest reading     *)
(* shown, or a newer one, at every instant at which a crash could come.    *)
DurableBeforeShown ==
    shown # None => disk # None /\ disk.timestamp >= shown

(* Whenever no save is under way, the store's slot is the baseline of the  *)
(* accumulator: no baseline is forgotten, and a rejected sample or a       *)
(* pending counter-reset candidate is never stored.  Of an entry that the  *)
(* user removes the slot is to be empty instead.                           *)
StoredBaseline ==
    /\ accumulator # None
    /\ phase \in {"idle", "requesting"}
    /\ ~Gone
    => cache = accumulator.last_sample

(* What the entities read agrees with the accumulator between refreshes:   *)
(* a power is displayed exactly while the accumulator holds that reading,  *)
(* and it is the reading of the stored baseline.  A failed refresh (older  *)
(* packet, lost connection) leaves both alone.                             *)
ShownIsHeld ==
    /\ entry \in {"loaded", "unloading", "failed_unload"}
    /\ phase \in {"idle", "requesting"}
    =>
        /\ data # None
        /\ IF data.grid_power_w # None
           THEN data = accumulator.last_data
           ELSE accumulator.last_data = None

(* Removal leaves nothing of the entry in the file or in memory, whatever  *)
(* was read, saved or cut off meanwhile.  Only one thing puts it back: a   *)
(* refresh of a coordinator that was not unloaded and gets to the store    *)
(* when the removal is over.                                               *)
RemovedForGood ==
    entry = "removed" /\ ~revived => disk = None /\ cache \in {None, Unloaded}

(* The entry keeps the promise of ReadingPromise: what its sensor displays  *)
(* is published in order, once, and never comes back after it was hidden   *)
(* by a failure, a stale packet, a reload or a crash.                      *)
Display ==
    IF ~Gone /\ refreshed = "succeeded" /\ data # None /\ data.grid_power_w # None
    THEN data.timestamp ELSE None

Promise == INSTANCE ReadingPromise WITH
    Dates <- Timestamps, Nothing <- None, display <- Display, newest <- shown

KeepsPromise == Promise!PromiseSpec
=============================================================================
