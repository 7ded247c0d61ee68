-------------------------- MODULE PerificFreshness --------------------------
(***************************************************************************)
(* The config entry of PerificEntry with a clock and its entities: the     *)
(* client's freshness test, the 30 s between polls (SCAN_INTERVAL), the    *)
(* time a request and a save may take, and what the four entities of       *)
(* sensor.py and binary_sensor.py have written to Home Assistant.          *)
(*                                                                         *)
(* Every date is counted from the present: 0 is now, -1 one unit ago, and  *)
(* when time passes everything grows older by one.  Dates further back     *)
(* than Horizon are not told apart; no packet that old is accepted.         *)
(*                                                                         *)
(* From an instant on the cloud may be well: it answers at once, with a    *)
(* packet dated now, and Home Assistant runs undisturbed.                  *)
(***************************************************************************)
EXTENDS PerificEntry, PacketAge

CONSTANTS
    Packets,    \* bound: the samples the cloud may send
    Horizon,    \* bound: the greatest age told apart
    Ahead,      \* bound: how far ahead of the clock a packet may be dated
    Interval,   \* SCAN_INTERVAL
    Timeout,    \* the longest a request takes (the HTTP session's timeout)
    SaveLimit,  \* the longest a save takes
    Unavailable \* the state of an entity that is not available

ASSUME ClockAssumption ==
    /\ Packets \subseteq EntrySample
    /\ Timestamps = (-Horizon) .. Ahead
    /\ Horizon \in Nat /\ Ahead \in Nat
    /\ Horizon > MaxAge + MaxElapsed
    /\ Interval \in Nat \ {0} /\ Timeout \in Nat \ {0} /\ SaveLimit \in Nat \ {0}
    /\ Unavailable \notin Timestamps

VARIABLES
    timer,    \* time left to the end of the present stage of the coordinator
    written,  \* what the entities have written, or None while there are none
    well      \* None, or the newest packet of the cloud that is well

clock == <<timer, written, well>>
allVars == <<vars, clock>>

-----------------------------------------------------------------------------
(* The entities: what each of them reads off the coordinator. *)

(* an entity that is unavailable as soon as its packet is too old *)
AvailableWhileFresh ==
    /\ refreshed = "succeeded"
    /\ data # None
    /\ ~Stale(data.timestamp, MaxAge, 0)

Available == refreshed = "succeeded" /\ data # None

IsOn == data.grid_power_w # None /\ data.status = Ready

EntityStates ==
    IF Available
    THEN [grid_power        |-> data.grid_power_w,
          grid_power_status |-> data.status,
          last_meter_sample |-> data.timestamp,
          grid_power_ready  |-> IsOn]
    ELSE [grid_power        |-> Unavailable,
          grid_power_status |-> Unavailable,
          last_meter_sample |-> Unavailable,
          grid_power_ready  |-> Unavailable]

(* what diagnostics() tells of the same data *)
Diagnostics ==
    [grid_power_status            |-> data.status,
     has_grid_power               |-> data.grid_power_w # None,
     last_update_success          |-> refreshed = "succeeded",
     source_timestamp_age_seconds |-> IF data.timestamp > 0 THEN 0 ELSE -data.timestamp]

(* With always_update=False the entities write again only if the           *)
(* coordinator's data or its success changed.                              *)
Notifies ==
    \/ data' # data
    \/ (refreshed' = "succeeded") # (refreshed = "succeeded")

Write ==
    written' = IF entry' \notin {"loaded", "unloading", "failed_unload"} THEN None
               ELSE IF entry = "loading" \/ Notifies THEN EntityStates'
               ELSE written

-----------------------------------------------------------------------------
(* Time.  A coordinator waits for its next poll, for the answer to a       *)
(* request, or for a save; none of them takes longer than its limit.       *)

Stage(p) == IF p = "locking" THEN "writing" ELSE p

Limit(stage) ==
    CASE stage = "idle"       -> Interval
      [] stage = "requesting" -> Timeout
      [] stage = "writing"    -> SaveLimit

Restart ==
    timer' = IF Stage(phase') = Stage(phase) THEN timer ELSE Limit(Stage(phase'))

Due ==
    \/ timer = 0 /\ (phase # "idle" \/ Polls)
    \/ well # None /\ phase = "requesting"

Older(ts) == IF ts > -Horizon THEN ts - 1 ELSE ts

Aged(r) == IF r = None THEN None ELSE [r EXCEPT !.timestamp = Older(@)]

AgedAccumulator(acc) ==
    IF acc = None THEN None
    ELSE [counter_reset_candidate |-> Aged(acc.counter_reset_candidate),
          last_data               |-> Aged(acc.last_data),
          last_sample             |-> Aged(acc.last_sample)]

AgedStates(w) ==
    IF w = None \/ w.last_meter_sample = Unavailable THEN w
    ELSE [w EXCEPT !.last_meter_sample = Older(@)]

(* Time passes.  PerificEntry's history of readings ends here: it is not   *)
(* needed below, and would tell states apart by long past readings.        *)
Tick ==
    /\ ~Due
    /\ timer' = IF timer = 0 THEN 0 ELSE timer - 1
    /\ accumulator' = AgedAccumulator(accumulator)
    /\ saving' = Aged(saving)
    /\ result' = Aged(result)
    /\ data' = Aged(data)
    /\ cache' = IF cache = Unloaded THEN cache ELSE Aged(cache)
    /\ disk' = Aged(disk)
    /\ shown' = None
    /\ written' = AgedStates(written)
    /\ UNCHANGED <<entry, phase, refreshed, repeats, revived, well>>

-----------------------------------------------------------------------------
(* The client's freshness test decides which answer a packet makes. *)
AnySample ==
    \E s \in Packets :
        ~Stale(s.timestamp, MaxAge, 0) /\ AnswerSample(s)

AnyStale ==
    \E ts \in Timestamps : Stale(ts, MaxAge, 0) /\ AnswerStale(ts)

(* What Home Assistant, the user and the cloud may do while all is not well *)
Disturbed ==
    \/ UnloadBegins \/ Unload \/ UnloadFails \/ Remove \/ Crash
    \/ AnySample \/ AnyStale \/ AnswerUnauthorized \/ RequestFails

Undisturbed ==
    Setup \/ StartRefresh \/ RemoveSample \/ EraseSample \/ SaveToCache \/ SaveToDisk

(* the counters of the cloud that is well never decrease *)
WellAnswer ==
    \E s \in Packets :
        /\ s.timestamp = 0
        /\ s.import_energy_kwh >= well.import_energy_kwh
        /\ s.export_energy_kwh >= well.export_energy_kwh
        /\ well' = s
        /\ AnswerSample(s)

BecomesWell ==
    /\ well = None
    /\ well' \in {s \in Packets : s.timestamp = 0}
    /\ UNCHANGED <<vars, timer, written>>

ClockInit == Init /\ timer = 0 /\ written = None /\ well = None

ClockNext ==
    \/ /\ \/ well = None /\ Disturbed /\ UNCHANGED well
          \/ Undisturbed /\ UNCHANGED well
          \/ well # None /\ WellAnswer
       /\ Write
       /\ Restart
    \/ Tick
    \/ BecomesWell

(* What goes on by itself: the coordinator's timer fires, files are        *)
(* written, Home Assistant tries a failed set-up again, and a cloud that   *)
(* is well answers.  At most one of these can happen at a time.            *)
Proceed ==
    /\ \/ StartRefresh /\ UNCHANGED well
       \/ (SaveToCache \/ SaveToDisk) /\ UNCHANGED well
       \/ entry = "setup_retry" /\ Setup /\ UNCHANGED well
       \/ well # None /\ WellAnswer
    /\ Write
    /\ Restart

(* Time passes, however often the entry is refreshed.  No disturbance has  *)
(* to happen.                                                              *)
Fairness == SF_allVars(Tick) /\ WF_allVars(Proceed)

ClockSpec == ClockInit /\ [][ClockNext]_allVars /\ Fairness

-----------------------------------------------------------------------------
(* Properties *)

(* A power on display is never older than its packet may be when it comes, *)
(* its save, one poll interval, and the next poll with its save: there is  *)
(* no way in which failing requests, repeated packets or rejected tokens   *)
(* leave it standing longer.                                               *)
Displayed ==
    /\ entry \in {"loaded", "unloading", "failed_unload"}
    /\ Diagnostics.has_grid_power
    /\ Diagnostics.last_update_success

FreshOnDisplay ==
    Displayed => Diagnostics.source_timestamp_age_seconds
                    <= MaxAge + SaveLimit + Interval + Timeout + SaveLimit

(* The states last written are those the entities would write now, though  *)
(* they write only when the coordinator's data or success changes.         *)
WrittenIsCurrent == written # None => written = EntityStates

(* Nothing the integration holds in memory or on disk is ever dated more   *)
(* than the greatest age ahead of the clock, so that packets with the      *)
(* right time are turned away as too old for no longer than that.          *)
HeldSamples ==
    {disk, cache} \cup
        IF accumulator = None THEN {}
        ELSE {accumulator.last_sample, accumulator.counter_reset_candidate}

AheadIsBounded ==
    \A s \in HeldSamples \ {None, Unloaded} : s.timestamp <= MaxAge

(* Whatever went before - outage, reset counters, repeated packets, a      *)
(* packet dated ahead, a crash - once the cloud is well an entry that is   *)
(* polled or waits to be set up again shows a power again.                 *)
Recovers ==
    /\ well # None
    /\ entry \in {"loading", "loaded", "failed_unload", "setup_retry"}
    /\ refreshed # "auth_failed"
    ~> written # None /\ written.grid_power \in Power
=============================================================================
