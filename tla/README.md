# Verification of the Perific integration

TLA+ models, TLC runs and TLAPS proofs for the Home Assistant integration in
`custom_components/perific`. The integration polls the Perific cloud for the
newest `PhaseMinute` packet of one meter, derives a net grid power from two
consecutive packets' energy counters, and shows it, or says why it cannot.
Its promise (README, docs/api-verification.md) is that it never publishes a
guessed, repeated or stale value. Whether it keeps that promise depends on the
order in which packets arrive, on what was saved before a crash, and on a few
`await`s, which is what the models are about.

## 1. The system

| Component | State | Operations | Correct when |
| --- | --- | --- | --- |
| Accumulator (`meter.py`) | `last_sample` (baseline), `last_data` (reading), `counter_reset_candidate` | `update(sample)` | each source timestamp gives at most one reading, in order; the reading is the true net power of its interval; a glitch or a reset never gives a false one, and good samples always bring a reading back |
| Coordinator (`coordinator.py`) | `data`, `last_update_success`, the refresh in flight | one refresh: request, `update`, save, return; clear on a stale packet | what is shown was saved first; display, accumulator and store agree; a rejected sample is neither shown nor saved |
| Entry life cycle (`__init__.py`) | accumulators per entry in `hass.data` | set up, unload, remove | no baseline is lost over reloads and failed set-ups; removal is final |
| Sample store (`store.py`) | the dictionary `_data`, the file, an `asyncio.Lock` | load, save, remove | no call loses or revives another entry's sample; a call that returned is on disk; every call returns |
| API client (`api.py`) | the token | authenticate, latest sample(s) | the configured meter's packet is selected, and a sample only comes out of a complete and fresh packet |
| Config flow (`config_flow.py`) | steps of a flow | user, meter, reauth | one entry per account and meter; reauthentication changes the token only |
| Entities (`sensor.py`, `binary_sensor.py`, `entity.py`) | the states last written to Home Assistant | read `coordinator.data`, write when it changes | what is written is what would be written now; no power outstays its packet |
| Diagnostics (`diagnostics.py`), constants (`const.py`) | none | read | |
| Commit skill's status screen (`.agents/skills/commit/scripts/status-screen.py`) | none; reads git's three trees | parse `git status`, judge each path, classify | what it lets be committed unasked can be accounted for; its advice covers all there is and does not contradict itself |
| Staged secret scan, API probe script | none | developer tooling | |

They interact as follows. Home Assistant's `DataUpdateCoordinator` runs a
refresh every 30 s: the coordinator calls the client, hands the sample to the
entry's accumulator, saves the accumulator's new baseline through the store, and
returns the data that the entities then read. The store is one object for all
entries, so refreshes, set-ups and removals of different entries meet at its
lock. The accumulator is held in `hass.data` and outlives a failed set-up; it
starts from the stored sample after a restart. The status screen stands apart from
the integration: the commit skill runs it in a working copy before it stages
anything.

Hard behaviours: packets repeated, late, missing, corrected, of a counter that
started again, or dated in the future; a crash, a cancellation or an unload at
any `await`; concurrent first use of the store; a first refresh that fails after
the accumulator has moved; a refresh that outlives its coordinator. The full
list, with the properties that cover each, is `hazards` in `PROJECT.json`.

## 2. Modules

| Module | Models |
| --- | --- |
| `GridPowerMeter` | `meter.py` as operators on values: `DeltaError` and `GridPower` are `calculate_grid_power_w`, `Update` is `update` with its helpers. A call's outcome is a record: the object afterwards, the data returned, the error field raised. |
| `GridPowerAccumulator` | one accumulator as a state machine, given any samples in any order (`Receive`) and cleared on a stale packet (`ClearStale`) |
| `MeterFeed` | `GridPowerAccumulator` composed with a real meter (counts, may start again from zero) and a cloud that repeats, delays and drops packets |
| `PerificEntry` | one config entry: set-up, refresh, save, unload, removal, crash; coordinator, life cycle and this entry's slot of the store |
| `SampleStore` | the store with its lock, for several entries and tasks, with cancellation and crash |
| `SampleMap` | what the store promises: a map changed one entry at a time, with a durable copy |
| `PerificApi` | the client: what a poll or a discovery makes of the body that came back, at the instant it came |
| `PerificConfigFlow` | config and reauthentication flows, several at once, and the entries they create and update |
| `ReadingPromise` | the abstract promise: readings come on display in order, once, and never come back; `PerificEntry` implements it |
| `PerificEntryFaults` | the entry under two faults that its own model assumes away: a refresh that outlives its coordinator, a file write that fails |
| `PacketAge` | the client's freshness test, shared by the client and the clock |
| `PerificFreshness` | the entry with a clock, its entities and a cloud that becomes well: ages, poll interval, time limits of a request and a save |
| `FloatCounters` | the accumulator and the storage format with NaN and infinite counters, and files of any origin |
| `StatusScreen` | `status-screen.py` over a repository that is edited, staged, merged and committed |
| `GridPowerMeterProofs`, `GridPowerAccumulatorProofs`, `PerificEntryProofs`, `SampleStoreProofs`, `PerificApiProofs`, `PerificConfigFlowProofs`, `FloatCountersProofs`, `StatusScreenProofs` | the proofs |
| `MC*` | instances for TLC, one `.cfg` per run |

Operators named in a comment as a changed behaviour ("the candidate survives
...") stand just before the definition they are a wrong version of. They are the
bugs each property is tested against and are used by no specification.

### Correspondence with the code

*Samples.* A `PerificMeterSample` is a record with the same fields. Counters and
timestamps are integers: the code only compares and subtracts them. Power is the
fraction net energy over elapsed time from which the code computes watts, so that
rounding plays no part. `None` is Python's.

*Refresh (`PerificEntry`).* `phase` is the await a refresh has reached:
`requesting` (HTTP), `locking` (entering `async_save_sample`), `writing`
(`Store.async_save`), or `idle`. The code between two awaits is one action:
`AnswerSample` runs from the answer through `update` and the `finally` clause's
decision (`SampleToSave`) to the save or to the end of the refresh; `SaveToCache`
puts the sample into `_data`; `SaveToDisk` is the return of the write, the return
of `_async_update_data` and what Home Assistant does with the result (`Show`).
`AnswerStale` is `_async_clear_stale_grid_power`, `AnswerUnauthorized` and
`RequestFails` the other `except` clauses. `refreshed` is `last_update_success`
together with whether the failure was of the token.

*Life cycle.* `Setup` is `async_setup_entry` up to the first request; whether the
first refresh succeeds decides the entry's next state. `UnloadBegins` and
`Unload` or `UnloadFails` are the two sides of the await in `async_unload_entry`;
`Remove`, `RemoveSample`, `EraseSample` are `async_remove_entry` with the store's
await inside. `OtherEntryLoads` and `OtherEntrySaves` are what another entry's
calls do to the shared dictionary and file.

*Store (`SampleStore`).* The queue is the lock: its first task holds it. `Acquire`
runs until the file read or write, `ReadFile` and `WriteFile` from its return to
the next await.

*Client (`PerificApi`).* `Ask` is a call of the client, `Reply` or `NoReply` its
end: the code after `_request`'s await is one step, which reads the clock (`now`,
moved by `Tick` while the request is under way). A packet keeps the four values
the client takes out of it; each may be `Malformed`, which stands for every JSON
value that the corresponding `_require_*` refuses, an absent key included. An
`ItemId` may come as a number or as a string, and `Identifier` is Python's
`str()`, which gives both the same text. The order of the checks is that of
`_parse_meter_packet`: numbers, timestamp, age, then `ItemId`. Data errors are
kept apart only as far as the coordinator does: stale, with the packet's
timestamp, or any other.

*Flows (`PerificConfigFlow`).* A submitted form that waits for the cloud is a
`request`. `UserValidated`, `ValidationFails`, `ReauthAccepted`, `ReauthRefused`
and `ReauthOfRemoved` are the ways it goes on, each up to the end of the step,
since nothing after the credentials' await suspends. `ChooseMeter` is
`async_step_meter` with a meter chosen. A form may be submitted again meanwhile,
and a request outlives its flow: `flows` has `None` for it then, and what the step
still does to `entries` happens all the same. The case of `async_step_meter`
without pending meters is left out: no flow shows that form before it has them.
A token is the account it was issued to. Unique ids are records, which assumes
that no `user_id` looks like another account's `user_id` with a meter appended.

*Clock (`PerificFreshness`).* Dates are counted from the present, so that time passing
(`Tick`) makes every held date one older and the model finite; dates beyond
`Horizon` are one. `timer` is the time left to the present stage: the poll interval
while idle, the session's timeout while requesting, `SaveLimit` from the lock to the
end of the write. `EntityStates` are the `native_value`, `is_on` and `available`
properties; `Write` is the listener call of a coordinator with `always_update=False`,
which happens on a change of data or of success and when the platforms are set up.
`Diagnostics` is the coordinator's method of that name. `BecomesWell` lets the cloud
be well from an instant on: it answers each request at once with a packet dated now
whose counters do not decrease.

*Faults (`PerificEntryFaults`).* `late` is the refresh that goes on after its
coordinator is gone, with the accumulator it holds; the store's lock it may hold keeps
the entry's own calls waiting. `SaveFails` and `EraseFails` are `Store.async_save`
returning after it has logged an error.

*Floats (`FloatCounters`).* Comparisons with `NaN` are false and the difference of two
infinities is `NaN`, so `DeltaError` differs from `GridPowerMeter`'s exactly there.
`ToStorage` and `FromStorage` are the functions of `store.py`; `Json` is what the file
makes of a number that JSON does not have. A file found at the start holds anything:
keys missing, values of other types, a sample of an older version or of another
meter. The cloud sends the entry's own meter only (`Given`), as the client selects it.

*Status screen (`StatusScreen`).* The state is the repository: last commit, index and
files, each a content for every path. `GitStatus` is what `git status -z` prints of
them, in fields, renames with two (blank fields, which git does not print, keep their
places); `ParseStatusZ` reads the fields as the script does, so a field taken for
another is taken for another here. `Expects` is where the parser stands: whether it
takes the next field for an original path. Names and extensions are sets
(`PrivateNames`, `SafeNames`, ...), the tables of the script; a file is a text, a
binary or large file, a symlink or a repository. `BuildRepoSkillRoots`,
`AgentPathRisk`, `FileRisk` and `Classify` follow the functions of these names. The
developer's actions are git's.

### The environment, and what is assumed of it

Home Assistant and the cloud are not in the repository. The models assume what
the code relies on:

- set-up, unload and removal of one entry exclude each other (Home Assistant's
  per-entry lock), and a coordinator's refreshes do not overlap;
- a successful unload cancels the refresh in flight at its await, right after
  `async_unload_entry` has popped the accumulator, and ends the polling;
- a failed unload does neither: the coordinator polls on with the accumulator it has,
  also while the entry is then removed (`Polls`), until its entities go with the entry;
  a refresh that is under way then still ends;
- a failed first refresh leaves the entry to be set up again, a rejected token
  stops the polling until the entry is reloaded;
- `Store.async_save` replaces the file as a whole and has written it when it
  returns; an interrupted write leaves the old file or the new one;
- `asyncio.Lock` serves its waiters in order and a cancelled task leaves it;
- `async_set_unique_id` aborts a flow when another one in progress has the unique
  id (a reauth flow carries its entry's from the start), and neither it nor the
  creation of an entry suspends before the entry is in the registry;
- a rejected token stops the polling and opens a reauth flow unless the entry has
  one; removing an entry ends its reauth flows, and a restart ends all flows.

Two of these do not always hold, and `PerificEntryFaults` drops them one at a time: a
refresh requested by a service call is not cancelled by an unload, and
`Store.async_save` logs a failed write and returns. The cloud may answer anything
the client accepts (`EntrySample`: any sample of the entry's meter) or, where there is
no clock, call any packet stale. `PerificFreshness` adds that a request ends within
the session's timeout and a save within `SaveLimit`, and that the timer of a poll
fires when it is due.

## 3. Runs

| Run | Bounds | Shows |
| --- | --- | --- |
| `accumulator` | 2 meters, 2 counters of 2 values, 7 timestamps, window 3 | `CandidateInv`, `ReadingInv`, `PublishedOnce`, `BaselineOnlyAdvances`, `ResetNeedsTwoSamples`, `RecoversWithinThree` |
| `meter_feed` | 6 packets, at most 1 unit a minute, window 2, first reset possible at once | `TruePower` |
| `entry` | 2 counters of 2 values, 4 timestamps, window 2 | `PublishedOnce`, `DurableBeforeShown`, `StoredBaseline`, `ShownIsHeld`, `RemovedForGood`, `KeepsPromise` (refinement of `ReadingPromise`) |
| `entry_faults` | constant counters, 4 timestamps, window 2, one late refresh at a time | `LateHarmsTwoWays`, `OnlyLossHarms` |
| `entry_late_repeat` | the same with 3 timestamps | that `PublishedOnce` fails with a late refresh |
| `freshness` | greatest age, poll interval and both time limits 1, packets up to 2 ahead, import counter of 2 values, horizon 6 | `FreshOnDisplay`, `WrittenIsCurrent`, `AheadIsBounded`, `Recovers` |
| `store` | 2 entries, 1 sample, 3 tasks | `OneInside`, `ReturnedIsDurable`, `ImplementsMap` (refinement of `SampleMap`), `CallsEnd` |
| `float_counters` | 2 finite values, NaN and infinity in one counter, 6 timestamps, window 3, any file at the start, another meter's included | `RestartKeepsBaseline`, `NumbersComeBack` |
| `api` | 2 meters, bodies of up to 2 packets, 4 instants and timestamps, age 1 | `PollIsOwnAndFresh`, `StaleIsOwn`, `OfferedCanBePolled` |
| `config_flow` | 2 accounts, 2 meters both may see, 2 entries, 2 flows, 2 submissions at once; symmetric in all of them | `OneEntryPerMeter`, `EntryKeepsItsMeter`, `RightAccountSucceeds`, `StoppedIsAskedFor` |
| `screen` | 4 layouts of 3 paths: a skill and a file beside it; a private, a recognised and an unknown file; agent configuration, an ignored file and a submodule; two files under `.codex/agents` and a recognised one | `AdviceIsAccountedFor`, `NothingLeftBehind`, `StageAllIsNotBlocked` |
| `screen_intent` | 2 paths, 2 contents, `git add --intent-to-add` | that `StagedIsTold` fails |

The type invariants are checked along in `accumulator`, `entry`, `api`, `config_flow`
and `screen`, where it says that what the script reads as paths are paths; those of the feed, the store, the clock and the float counters are part
of the inductive invariants proved below.

Why the bounds are enough. The arithmetic distinguishes only order, equality, and
inside or outside the window. With seven timestamps and a window of three a
baseline, a candidate within its window and samples between, inside and beyond
both exist together; two values per counter give every sign of both deltas. The
entry's run needs fewer because the accumulator's own behaviour is settled by the
first. Two tasks are the least that can race, three the least of which one can
starve. With every limit one, each stage of a poll is entered and left with time to
spare and without; two units ahead is one past what the freshness test lets in, and
the horizon is past the oldest date a power on display may have, so the bound of
`FreshOnDisplay` is reached and could be exceeded. Three paths are enough for a
deleted file, its rename and a bystander; that the script asks when more than three
top-level names changed needs four and is not reached. In a body the packets before the meter's own all act alike, so one is
enough, and a packet one past the age on either side of the clock shows both edges
(`PerificApiProofs` then covers every length). In the flows each race needs two of
one kind; the proofs cover any number.

What the properties say, beyond their names:

- `CandidateInv`: a pending candidate is rejected by the baseline for its counters
  only. Hence the comparison with the candidate can fail with a decreased counter
  or a non-increasing timestamp, never with another meter or an overlong window.
- `RecoversWithinThree`: three is exact. First sample low: candidate; second past
  the old baseline's window: new baseline; third: reading.
- `BaselineOnlyAdvances` allows one change of meter: a sample of another meter with
  the baseline's own timestamp becomes the baseline, because `update` compares
  timestamps first (`meter.py:33`). The coordinator only ever passes samples of
  the entry's meter, so an entry cannot get there.
- `RecoversWithinThree` and `ReadingInv` fix the window's edge from both sides. What
  makes a sample good after another (`Follows`) is stated apart from `DeltaError`: a
  sample exactly at the edge must give a reading; and no reading spans more than the
  window.
- `TruePower` rests on one assumption about the meter: when its import counter
  starts again, it was higher than it can climb within the window. A counter that
  is reset near zero can catch up unseen.
- `PublishedOnce` and `DurableBeforeShown` in `PerificEntry`: a reading is shown
  only after its sample is in the file, so that after a crash at any await the
  packet is a repeat and is withheld.
- `StoredBaseline` and `ShownIsHeld` hold after a failed unload too, where the
  coordinator goes on. `StoredBaseline` exempts only an entry that the user is
  removing or has removed: its slot is to be empty.
- `RemovedForGood` has one exception, `revived`: a coordinator that a failed unload left
  running may get to the store after the removal is over. `async_remove_entry` stops
  nothing, and `async_save_sample` does not ask whether the entry still exists; the
  sample then stays in the file. A save before or during the removal does no harm.
- `PollIsOwnAndFresh` speaks of the instant the answer comes, not the request. It
  bounds the packet's date ahead of the clock too: `_raise_if_stale` compares both
  ways. The age on display afterwards is bounded by `FreshOnDisplay`.
- `StaleIsOwn` is about the one answer that withdraws a reading: a neighbour's
  stale packet in the body does not cause it.
- `OfferedCanBePolled` relates two ways of reading one body: all of it
  (discovery) and up to the meter's packet (poll). It does not say that a later
  body is readable.
- `RightAccountSucceeds` is stated of open flows: the late submission of a flow
  that was closed may meet its successor and is then refused as already in
  progress.
- `StoppedIsAskedFor` allows one silent stop: the reauth flow ended by wrong
  credentials or by the user. Home Assistant opens the next one only when the
  entry is set up again and rejected again.
- `KeepsPromise`: what `PerificEntry` displays moves only as `ReadingPromise` allows.
  It excludes what the single invariants do not: a reading that was hidden by a
  failure and comes back with the next one.
- `LateHarmsTwoWays`: a late refresh repeats a reading only if it puts an older sample
  over a newer one, and it brings a removed entry's sample back only if it gets to the
  store after the removal is over. `entry_late_repeat` shows that the first happens:
  the next set-up starts from the older sample and shows a timestamp again, which
  docs/api-verification.md:81 excludes. `async_save_sample` compares nothing with what
  it replaces. Reported as a finding.
- `OnlyLossHarms`: failed writes are made good by the dictionary, until the process
  ends before a write succeeds.
- `FreshOnDisplay`: a power is at most the greatest age old when its packet comes, is
  saved (one limit), stands for one interval, and is replaced or hidden at the latest
  when the next request and its save have ended. There is no renewal: a repeated
  packet, a failure and a rejected token each hide it.
- `WrittenIsCurrent` is why no entity may depend on the time: Home Assistant asks them
  only on a change. `AvailableWhileFresh` is what an age limit there would do to it.
- `AheadIsBounded` limits the harm of a packet dated ahead: correctly dated ones are
  older than it, and refused, for the greatest age at most.
- `Recovers`: from any state, whatever was stored, once the cloud is well an entry that
  is polled or set up again shows a power. An entry stopped over its token is not
  covered: that needs the user (`StoppedIsAskedFor`).
- `RestartKeepsBaseline`: a sample with a NaN counter is null in the file, and decoding
  gives no sample instead of half of one.
- `NumbersComeBack`: NaN counters pass every comparison of `calculate_grid_power_w`,
  become baselines and give powers that are no numbers, but the third good sample
  after them always gives a number. There is one exception: `_sample_from_storage` takes
  any string as item id, and a baseline of another meter, which only a file this
  program has not yet written can bring, makes every later update fail (`meter.py:93`)
  except one with its own timestamp. It is not replaced, and no number comes.
- `AdviceIsAccountedFor` is stated of the trees, not of git's codes, so that renames
  and half staged files count as what they are. `StageAllIsNotBlocked` has one exception
  (`NoOrphans`): when a file under a skill directory was committed without the
  `SKILL.md`, its deletion next to a new file of equal content passes, and as a rename
  is blocked.
- `StagedIsTold` fails: after `git add --intent-to-add` of a renamed file, git puts the
  `R` in the second column, `parse_status_z` looks at the first only, and the original
  path is read as an entry of its own. A path `main.py` then counts as staged.
  Reported as a finding. Without intent-to-add it is proved.
- `ImplementsMap`: each step of the store is a step of `SampleMap` or changes
  nothing in it; a restart of the map only at a crash.

Fairness is assumed in two modules. `SampleStore`: weak fairness of each task's steps
inside the store (the event loop runs ready tasks; file operations end). No task
has to call, to be cancelled, or to crash. `PerificFreshness`: time passes (strong
fairness of `Tick`, since other steps may interrupt it for an instant), and what
goes on by itself does (weak fairness of `Proceed`: the poll timer fires, files are
written, Home Assistant tries a failed set-up again, a cloud that is well
answers; at most one of them can happen at a time). No disturbance has to happen,
and none does once the cloud is well. All other runs check safety.

## 4. Proofs

For every set of meters, counter values and timestamps and every window
(`NumbersAssumption`: they are integers; `NoneAssumption`: `None` is none of the
records), TLAPS proves in `GridPowerAccumulatorProofs` all properties of the
`accumulator` run. The inductive invariant `IInv` strengthens the checked ones by
`ShownInv` (a returned reading is no newer than the baseline) and `RunInv` (a
run's last sample is the baseline, or, if it is the first, perhaps the
candidate). `CandidateInv` is needed for `RunInv`: without it a candidate of
another window could make the second sample of a run an error.
`GridPowerMeterProofs` holds the lemmas about one call: `UpdateCases` (the five
things it can do), `UpdateType`, `UpdateCandidate`, `UpdateReading`,
`UpdateBaseline`.

`PerificEntryProofs` proves all properties of the `entry` run, with
`EntryAssumption` (the entry's meter is a meter; the unloaded store is told apart
from every slot). Its inductive invariant `IInv` is built in layers, so that the same
lemma about an action serves the entry alone and the entry under faults. `Frame`
(types, `LifeInv`, `WriteInv`) holds whatever samples come and whoever saves to the
slot; `CoreInv` adds what is said about dates, and holds however the writes to the file
go; `Covers(disk)` (the file is as new as every reading shown) holds as long as they
succeed, `EmptyStore` (what a removal has removed, step by step) likewise and without
any of the dates, and `StoredBaseline` as long as nobody else writes this entry's
slot. Each action has a lemma `...Frame` for the first and `EmptyStore`, and a lemma
`...Preserves` for the dates. `TypeCorrect` and `RemovedForGoodCorrect` need the first
kind only. The parts are:

- `LifeInv`: which of accumulator, refresh, displayed data and slot exist in which
  state of the entry, and that only a removed one is ever `revived`;
- `WriteInv`: what a refresh is writing is what it came to save;
- `BaselineInv`: the accumulator's own invariants from above, and that its
  baseline, the dictionary and the file are each at least as new as every reading
  shown (`Covers`). `PublishedOnce` is not inductive without it: a set-up makes
  the baseline out of the file or the dictionary;
- `SavingInv`: a refresh inside the store saves the accumulator's baseline, and the
  power it is going to return is newer than all shown. This is what the order
  "save, then return" buys;
- `DisplayInv`: `ShownIsHeld`, also while the entry unloads and after an unload failed,
  since both may overlap the end of a refresh.

The argument goes action by action. `AnswerFacts` sums up what one call of
`update` lets the coordinator save and return.

The same module then proves both properties of `entry_faults`. `FaultInv` is, with a
late refresh, always `LateFrame`: `Frame`, `EmptyStore` and `LateOK`, the types of the
late refresh and that the store it writes to is loaded; the removal's half of
`LateHarmsTwoWays` follows. As long as no newer sample was overwritten it is `LateInv`,
with `CoreInv` and `Covers(disk)` besides: the sample a set-up would start from still
covers what was shown, which is what "harmless" comes to. With failing writes and none
lost, it is `FailInv`: `CoreInv`, and the file covers what was shown unless it is behind
a dictionary that is still there. Neither needs `StoredBaseline`, which is exactly what
the faults break.

`PerificApiProofs` proves the `api` run's properties for bodies of any length, under
`ApiAssumption` (times are integers, `Malformed` and `None` are told apart from
everything else). `MinFacts` gives the least index of a set by well-foundedness;
`ParsePacketFacts`, `ParseLatestFacts` and `ParseAllFacts` say what each parser
returns and when. The invariant `AnswerInv` remembers that an answer with a body
is `Parse` of that body.

`PerificConfigFlowProofs` proves the `config_flow` run's. `OneEntryPerMeter` and
`StoppedIsAskedFor` are part of the inductive invariant, next to `EntryInv` (a
unique id is of the entry's own account, in one form or the other), `UniqueInv`
(unique ids are distinct), `FlowInv` (a reauth flow's entry exists, carries the
flow's unique id and has no second flow) and `RequestInv`. `AcceptsOwn` is the
heart: a unique id that matches the entry's can only come from the entry's
account. `KeepsEntries`, `KeepsFlows` and `KeepsAsking` sum up what most actions
leave alone, so that each needs only those three and its types.

The second part of `PerificEntryProofs` proves the safety properties of `freshness`
for every age, interval and limit (`ClockAssumption`). Its invariant `ClockInv` is
built on the same `Frame`, but not on `CoreInv`, because `Tick` ends the history that its
dates are about. `PowerInv`
is the argument: at each stage of a poll, the age of the displayed power is bounded by
the limits of the stages so far less the time left on the timer; `SavedInv` says the
same of a power that is still being saved. Every step does one of six things to a
power (`AgeStep`: it hides, keeps, starts, goes on, waits or shows), and `AgesOfStep`
settles each once for all actions. `HeldInv` is `AheadIsBounded` with the samples
on their way into the store.

`KeepsPromiseCorrect` is the refinement of `ReadingPromise`: from `IInv`, each step
maps to `Publish`, `Withdraw`, `Forget` or a stutter.

`SampleStoreProofs` proves, for any entries, samples and tasks, that one task is past
the lock, that a returned call is on disk, and that the store implements `SampleMap`.
`Inside` (a task past the lock heads the queue; the dictionary is absent while the
file is read) and `Unsaved` (while a task writes, the dictionary holds what its call
put there) are inductive with the types; the lemmas on the queue say that removing a
task leaves the others, and the head if it was another.

The second part of `GridPowerAccumulatorProofs` proves `TruePower` for any meter
(`FeedAssumption`). The feed's steps are steps of the accumulator, so `IInv` comes
along; `History` is the invariant that carries it: of two packets within a window either no reset lies
between them (`Same`) or the later import counter is lower by more than it can make
good within the window (`Dropped`). `Holds` says that the accumulator only holds packets
of this history, and the window test leaves it pairs of the first kind.

`FloatCountersProofs` proves both properties of `float_counters`. `CandidateInv` and
`RunInv` are what the accumulator's own proof needs, of a candidate that NaN counters
may have let in; `StoreInv` says that the dictionary decodes to the baseline, which a
reload relies on; `ForeignInv` is about another meter's baseline: it has no reading, was
not written by this program, and any run under way is of samples newer than it, so
that the one sample that could replace it belongs to no run. `UpdateAgrees` ties the two
translations of `PerificGridPowerAccumulator.update` together: for every object and
every sample of any meter with finite counters, the `Update` of `FloatCounters` is the image of
`GridPowerMeter`'s, error by error (`SameError`) and branch by branch.

`StatusScreenProofs` proves the properties of `screen` for any layouts, contents,
tables of names and current directory, as long as nobody uses `git add
--intent-to-add` (`Spec`; with it, `screen_intent` shows a counterexample).
`ScreenAssumption` says that paths are sequences of names and that contents, absence
and `None` are not mistaken for each other. The proof goes in three steps.

- `ParseFacts`: on fields laid out as git lays them, the parser returns one entry per
  tracked path with a code and one per untracked path. The parser's position is a
  recursive function, which the provers cannot unfold; `ExpectsIs` therefore says that
  any function that solves its equation is it (by the least field where the two
  differ), and `ParseFacts` gives such a function: an original path is expected after
  the first field of a rename and nowhere else. `Entries` is this for `GitStatus`, and
  `CodeFacts` says what each code means for the three trees. `TypeCorrect`,
  `NothingLeftBehindCorrect` and `StagedIsToldCorrect` follow with `Trees`, which is
  inductive.
- `OnePlace`: a path that names one agent directory lies in at most one skill, the same
  whichever roots are considered; `AgentByRoots`: the roots matter only to what lies in
  one of them. With `MarkerStays` (a current root keeps its `SKILL.md` if all is staged,
  because a deletion or a half staged addition of it would have been seen) this gives
  `AdviceCorrect`.
- `StageAllCorrect` compares the screen's word before and after staging. What passes
  beforehand (`StagingPasses`) is written as `Passed`, a predicate of the trees alone,
  without codes or roots: `ChangesPass` for what is added or changed, `DeletionsPass`
  for what goes while something comes, since git may make one rename of the two.
  `WhatPassedIsNotBlocked` then shows that no entry of a repository where `Passed`
  holds is blocked, whichever renames git finds; this is where `NoOrphans` is needed.

Only model-checked: `CallsEnd` and `Recovers`, liveness under fairness, which is out of
the prover's reach. Every other property of the passing runs is a theorem.

## 5. What is left

The models follow the plan made at the start: accumulator, feed, entry, store, client
and flows; then the clock, the faults, the promise, the storage format and the
commit skill's screen. Every safety property is proved. What could still be added: a
layout of four top-level names and the screen's rule about ssh directories.

Not modelled, and why:

- the token and the parsing of its reply (`api.py`): they matter to the flows only,
  which take them as one outcome;
- redaction in the diagnostics, names, units and device information, form schemas:
  constant tables;
- dates that `datetime.fromtimestamp` refuses (`sensor.py:92`): the models tell dates
  apart only near the present;
- rounding of floats: no property depends on a rounded digit;
- of the status screen: letter case, the ssh directory rule, repositories nested
  somewhere inside a directory, the size limit as an option, a failing git, the wording
  of the findings;
- the staged secret scan, which runs one program and passes its verdict on, and the
  probe script, which is I/O.
