# Formal models of the Mennekes AMTRON integration

TLA+ modules, TLC runs and TLAPS proofs for the Home Assistant integration in
`src/custom_components/mennekes_amtron`. The integration polls a wallbox over Modbus TCP, offers
manual controls, and has a control loop (the *charge controller*) that charges a car from PV
surplus with the home battery taking priority. Paths below are relative to that directory.

## The system

| Component | State | Operations | Interacts with | What is hard |
|---|---|---|---|---|
| Charge controller (`charge_controller.py`) | mode, `released`, four time stamps, shown state, settings, lock | control cycle (timer), `async_set_mode`, `async_manual_action`, `update_setting`, `handle_wallbox_update` | decides on the coordinator's data and the tracker's average; awaits coordinator commands with its lock held; is called back after polls **without** the lock | every await lets polls in; `released` is set after an await; decisions on old data; clocks that must belong to the mode |
| Coordinator (`coordinator.py`) | last snapshot, `last_update_success` | poll, `async_set_current_limit`, `async_set_power_limit`, `async_start_charging`, `async_pause_charging` | sends requests through the client, calls listeners | commands are several requests; each may fail, also after taking effect; refreshes are debounced by Home Assistant |
| Register decoding and power limit (`coordinator.py`) | none | decoding of meter and error registers, `_clamp_power_limit_w` | poll, power limit entity | markers that are valid numbers, two word and byte orders, ranges with a gap |
| Modbus client (`modbus_client.py`) | lock | `_request`: connect, send, read, close within a time limit | one connection per request to a device that serves one | time-outs in every phase, requests executed after the client gave up, two clients during a reload |
| PV surplus tracker (`pv_surplus.py`) | deque of samples, last sample | `take_sample` every 10 s | reads other integrations' sensors and the coordinator's copy of the charging power | broken sensors, late timers, wall clock stamps, a meter ahead of the poll |
| Entities (`number.py`, `button.py`, `select.py`, `switch.py`) | what they display; Home Assistant keeps it between loads | user actions, restoring after a restart | call the controller, are redrawn by the coordinator and by `_notify` | states stored while the wallbox is away; displays that miss a notification |
| Set-up and reload (`__init__.py`) | runtime data | set up, unload, reload after options change | makes client, coordinator, tracker, controller | loads that end before everything was restored; what of the old load is still running |
| Config and options flow (`config_flow.py`) | the entry and its options | address form, two option pages | creates the entry, reloads it | forms rendered with options that have changed since |
| Sensors, translations (`sensor.py`, `entity.py`, `translations/`) | none | presentation | | |

What makes each correct, in one line: the **controller** charges only as its mode and thresholds
allow, and eventually does; **commands** do not mix and leave their own current in the register;
the **client** opens one connection at a time, keeps requests in order and always returns; the
**average** is of the last window and independent of the car's own draw; **decoding** returns what
the device meant and the **power limit** is one a phase can carry; the **options** are consistent and
a **load** continues with the mode and settings the last one left.

## Modules

| Module | Models |
|---|---|
| `AmtronDefs` | Constants with their assumptions, the options of an entry (`opts`), statuses, modes, control states, `Target` (floor(average / 230 W) within 6 A and the maximum), ages |
| `Wallbox` | External: wallbox, car and network. Status (register 104), current limit (register 1000), link. Plug, unplug, sessions that open by themselves or end at the station, cars that pause, faults, outages, replies that are lost or malformed |
| `Coordinator` | Snapshot and poll (`PollStatus`, `PollLimit`, `PollFails`), one `task` per caller with the request it awaits, and the requests of the commands |
| `ChargeController` | The controller on top of them: one decision per cycle (`Cycle` is `_async_apply_mode`), what follows a command (`Continue`), the entry points, and the callback after a poll (`Updated` is `handle_wallbox_update`) |
| `ModePolicy` | Abstract: what the charge modes promise. Mode, release, whose command is under way and whether the user asked for something (`asked`), and nothing else. Steps of the user (`User`) may change the mode; steps of the controller (`Controller`) only where the code lets a mode give way |
| `ModeHistory` | `ChargeController` with the history variable `asked`, and that it implements `ModePolicy` |
| `ChargeHistory` | `ChargeController` with a history variable, for promises that relate a step to earlier ones |
| `Lifecycle` | Address form, loads of the entry, entities that store and restore, charge mode select, options forms |
| `ModbusClient` | Requests, lock, connections; the wallbox's backlog |
| `PvSurplus` | Sensors, sampling, moving average |
| `Registers` | Decoding, power limit |
| `ChargeControllerProofs`, `ModePolicyProofs`, `HistoryProofs`, `LifecycleProofs`, `ModbusClientProofs`, `PvSurplusProofs`, `RegistersProofs` | Theorems |
| `SumTheorems` | Lemmas the last two share: induction over naturals and finite sets, sums, powers of 2, division |
| `MCController`, `MCModes`, `MCHistory`, `MCLifecycle`, `MCModbus`, `MCPvSurplus`, `MCRegisters` | Values of constants for TLC |

`ChargeHistory` and `ModeHistory` extend `ChargeController`, which extends `Coordinator`, `Wallbox`
and `AmtronDefs`. Components meet in three ways:

* **By refinement.** `ModeHistory` implements `ModePolicy` (`PolicyKept`): mode and release are those
  of the controller, and the policy's `writer` is whose task is not idle. A behaviour of the
  controller does not show which steps the user asked for, so `asked` changes with every request of
  the user (`SetMode`, `ManualAction`) and with no other step. The policy lets a mode be picked only
  in a step that changes `asked`: cycles, polls and commands that end cannot pass for a user.
* **By that abstraction.** `Lifecycle` needs of a running controller only what it promises, so its
  steps of a load *are* the policy's actions (`Policy!Pick`, `Policy!End`, ...), to which it adds
  what entities show, what Home Assistant keeps of them, and how loads begin and end.
* **By what is shown of the others.** Requests of a client reach the wallbox in order
  (`ExecutedInOrder`) and always return (`EveryRequestReturns`), so for the controller a request is
  one step that takes effect or not and may fail either way. The average is any value of
  `Averages`. The options are any of `Options`, which lie within `ValidOptions`: what the options
  flow lets through.

### How state and steps correspond to the code

* **Atomicity.** asyncio runs one coroutine at a time, so the code between two awaits is one step.
  A cycle that got the lock decides in one step (`Cycle`); if it awaits a command, its `task`
  walks through the command's requests, and what the code does after the await is the step
  `CommandReturns` or `CommandRaises`. Polls, and the callback `handle_wallbox_update`, come in
  between. The lock is held exactly while some task is not idle.
* **Failures.** A request that fails raises `HomeAssistantError` from a command, and a cycle shows
  "error". A malformed answer (wrong length, no data) raises an error that nobody converts
  (`modbus_client.py:128`): the cycle ends without a state, and so does the notification after it.
* **A refresh after a command** is debounced by Home Assistant and may come at once, later or
  merged with another; so polls are independent of commands.
* **Time.** A stored stamp becomes the age of the stamp; ages stop at `AgeCap`, beyond every
  threshold, so old clocks stay comparable. One tick is as long as the unplug time, the lockout,
  the buffer or the "full" time (or half a lockout, in `sessions`). The cycle's `now` is
  captured before it waits for the lock, and the timer goes on firing while one waits: `waiting` is
  the queue of the ages of those `now`s, oldest first. The timer's interval is no shorter than a
  tick, no cycle waits longer than `MaxWait` ticks, so at most `MaxWait + 1` wait; time does not pass
  while a queued cycle could run.
* **Readings.** A cycle reads a pair of surplus average and SoC out of `readings`. In the runs of
  liveness the environment may settle on one pair (`ReadingsSettle`).
* **Set-up.** `Init` of `ChargeController` is the state after the first refresh and after the
  entities have restored mode and settings; how they get there is `Lifecycle`.
* `target_current_a` and the listeners that redraw diagnostic entities are left out: nothing reads
  them back.

### Lifecycle

`entry` goes from "none" through "down" to "loaded" and back to "down" with every end of a load.
`SetUp` makes a new controller in Manual with default settings; the platforms then add their
entities one by one (`restoring`), and cycles, polls and buttons may come in between. `Store` is
what Home Assistant's restore state does: of an entity that exists it keeps the state (of a number,
its own data), of the others what it had before. It happens at an unload, at a reload for new
options, and from time to time (`Dump`); a `Crash` stores nothing. `selected` is what the select
shows: it is redrawn by polls, by changed settings and by `_notify`, and a command that raises may
skip `_notify` (`End`). The history `left` records the controller's value at the last store, and
whether the entity showed it.

`saved` are the options of the entry, `opts` those the load was set up with. An options form bounds
the start current by the maximum it was `rendered` with; another dialog may save other options in
between, so `rendered` stays what it was. The set-up reads the options before it adds the entities
and listens to new ones only after that (`Listens`): options saved in between are in force from the
next set-up on.

### The two stand-alone components

* **ModbusClient.** A request goes through waiting (for the `asyncio.Lock`, first come first
  served), connecting, exchanging, closing. The time limit may fire in each of the last three, but
  only once. A request cancelled in its exchange still runs `finally`, which closes the connection
  without a limit ("cancelled"). A request cancelled while closing ends at once: `close` has been
  called, and the transport closes its socket in the event loop's next pass, before the next waiter
  of the lock can connect; so its connection counts as closed. The wallbox accepts connections into
  a backlog, serves the first one, and may execute a request whose client has gone. `Reload`
  replaces the current client, which does nothing to requests under way.
* **PvSurplus.** A meter at the grid connection sees surplus minus the wallbox's draw; it is shown
  as feed-in, import or battery discharge, each sensor in its own unit, any one of them possibly
  broken. A sample's stamp is kept relative to the clock; `recent` is the set of the sampling
  instants of the last window, usable or not. Integers stand for floats, so what the meter sees is a
  whole number of each sensor's unit (`PowerAssumption`).

## Runs

| Run | Property | What it shows, and the bounds |
|---|---|---|
| `mode_changes` | `TypeOK`, `OneCommandAtATime`, `CommandFitsMode`, `ClocksFitMode`, `RegisterHoldsCommand`, `LoopHandsOff`, `WritesWithinMax`, `PolicyKept` | All four modes, with phase switching disabled and enabled; PV surplus, Off and Immediate picked, Pause pressed and the power slider moved, in the middle of commands, polls, unplugging, pausing cars and malformed answers. Surplus unknown, below 1380 W, or worth 17 A, a maximum of 16 A and a pause current of 20 A; SoC above the thresholds |
| `off_and_immediate` | `OffReachesZero`, `ImmediateCharges`, `QueuedCyclesRun` | No PV sources. Off reaches and holds 0 A despite stale data; Immediate reaches the maximum again and again; queued cycles run; with replugs, ended sessions, sessions that open by themselves, faults, outages, and the user pressing Start or picking Off |
| `pv_starts_stops` | `PvStarts`, `PvStops` | With lasting surplus and SoC, a connected car charges at the regulated current, if polls see each absence of the car, no fault occurs and the station ends no session; with lasting readings below 6 A or below the stop SoC, an open session ends at 0 A, whoever opened it |
| `sessions` | `StartConditionFirst`, `LockoutKept` | Only a session that met the start condition is regulated, the user moving the start SoC (SoC below the stop SoC, between the thresholds, above the start SoC), same condition on polls; a lockout of two ticks, cycles queued for one; outages, Pause and mode changes |
| `lifecycle` | `LTypeOK`, `GapKept`, `RestoredAsLeft`, `SelectReturns` | Loads that end by unload, crash or new options at any point, options saved while a load is being set up, failed set-ups, two sets of options with and without PV sources, three forms of which one is refused, two values of each SoC threshold, of which one pair has no gap |
| `surplus_average` | `TypeOK`, `AverageOfWindow`, `OwnDrawCancels` | Window of three samples, late timers, two feed-in sensors, import and battery, two charging powers |
| `requests` | `TypeOK`, `OneConnection`, `ExecutedInOrder`, `EveryRequestReturns` | Three requests - one under way, one waiting, one that comes when the first has timed out - and a reload at any point |
| `registers` | `OfferValid`, `MoreNeverLess`, `PowerIsDrawn`, `ErrorsReported` | Requests at and next to every end of a range, maxima 6 to 32 A, three kinds of meter, named and reserved error bits; a byte of radix 16 instead of 256 |

These runs exhaust their state spaces. Two or three values of each reading are enough because the
controller only compares them with its thresholds, and the one function of them (`Target`) is
covered for every value by the proofs. Deadlock is checked everywhere. `mode_changes` lets no cycle
wait on the lock while time passes (`MaxWait` 0); the same properties are proved for any `MaxWait`,
and `sessions` checks the queue where it matters. Start, the current slider, outages and lost
replies are not in `mode_changes`; that they break nothing of it either is proved, the theorems
below leave `Events` and `UserOps` open. `lifecycle` keeps one value of the switch and of two of the
numbers, which are restored like the others.

Runs that end in a counterexample show where the code departs from what the repository says:

| Run | Property | Behaviour |
|---|---|---|
| `unplug_during_start` | `StartConditionFirst` | The car is unplugged and replugged while a start awaits its replies; polls clear `released`, the return of the command sets it again, and the new session is regulated without the start condition |
| `stop_reply_lost` | `StartConditionFirst` | The write of 0 A takes effect but raises; `released` stays set and the next cycle raises the current below the start SoC |
| `replug_never_starts` | `PvStarts` | Unplugged and replugged between two polls: `released` stays set with status "preparing", and the released branch only writes the limit, it never authorizes |
| `off_forgotten` | `OffStaysOff` | The last poll before a reload failed, so the select is "unavailable" and that is what is stored; `restore_mode` ignores it and the next load is in Manual instead of Off |

More departures are known from the code and have no run of their own:

* The options accept a pause current up to 32 A whatever the maximum is, and Pause writes it.
  `ANLEITUNG.md:41` calls the maximum the upper bound for everything the integration writes.
  `WritesWithinMax` and `CurrentCapped` say that Pause is the only exception.
* The sensors of the PV surplus show a change of the charging power at once, the coordinator's copy
  only after its next poll (`pv_surplus.py:143`). A sample taken in between is off by the change and
  stays in the average for its window. `OwnDrawCancels` claims only averages all of whose samples
  were taken with a current copy.
* Options saved while a load is being set up are not applied (see `Listens`), although
  `__init__.py:86-87` says that saving them reloads the entry. Nothing but the next end of the load
  brings them into force.
* PV surplus does not start a session that went back to "preparing" with `released` set: after a
  replug no poll has seen (`replug_never_starts`), and in the same way after a fault that clears to
  "preparing". `pv_starts_stops` therefore leaves out faults, and sessions ended at the station.
* `_vehicle_full` looks at the status only in its own cycles, so a car that charged between two
  cycles counts as paused throughout. The README of the integration says "for 10 minutes".
* The samples of the moving average carry wall clock stamps and are pruned from the front, so after
  the clock is set back the average keeps samples older than its window. `PvSurplus` models a steady
  clock.
* A reload makes a new client with a lock of its own, so two connections may be open for as long
  as a request of the old client is under way; `modbus_client.py:54-57` promises that requests can
  never open two at once. `OneConnection` and `ExecutedInOrder` are stated per client for that
  reason.
* A manual action that fails leaves the select on the old mode until something redraws it.
  `SelectReturns` says that this always happens: the next good poll does.

`StartConditionFirst` follows a start through what comes after it: `qualified` becomes true with the
start command of the loop itself, whose thresholds are a guard of `RegulateStopped`. What the
property adds is that no other path leads to a regulated session.

`Replug` names the condition under which `StartConditionFirst` and `PvStarts` hold: the car stays
away until a poll has reported it gone while no command is under way (`"calm"`). Of the
violation runs, `unplug_during_start` asks only for the poll and `replug_never_starts` for nothing;
`stop_reply_lost` keeps the condition and fails all the same, so the passing runs of
`StartConditionFirst` and `PvStarts` also leave out lost replies.

## Fairness

Only what Home Assistant and asyncio run by themselves is assumed fair: polls and their failure,
the requests of a command and the continuation after it (each request has a time limit, see
`EveryRequestReturns`), the interval timer, the passing of time, and the wallbox applying the
offered current to an open session. A queued cycle needs strong fairness, because the lock becomes
free and is taken again: `asyncio.Lock` serves its waiters in order, so it does get its turn.
Nothing is assumed of the user, the car, the network or the sensors; liveness properties ask
instead that these stay put from some time on. In `requests` the fair steps are taking the
lock, the time limit, and the end of closing, which needs no answer of the wallbox: the transport
closes its socket by itself. The wallbox may stay silent for ever. In
`lifecycle` they are set-up (Home Assistant retries it), the adding of each platform's entities,
good polls and the end of a command; `SelectReturns` asks for a reachable wallbox, and claims
nothing of a load that the user keeps ending.

## Proofs

TLAPS checks, for every value of the constants allowed by the named assumptions (any thresholds,
readings, options, events, forms, numbers of requests and reloads, bounds on time):

| Module | Theorem | States |
|---|---|---|
| `ChargeControllerProofs` | `TypeCorrect` | `Spec => []TypeOK` |
| | `CommandsExclude` | `Spec => []OneCommandAtATime` |
| | `ClocksBelongToMode` | `Spec => []ClocksFitMode` |
| | `CommandsReturnToTheirMode` | `Spec => []CommandFitsMode` |
| | `HandsOff` | `Spec => []LoopHandsOff` |
| | `AuthorizedAtOwnCurrent` | `Spec => []RegisterHoldsCommand` |
| | `CurrentCapped` | `Spec => WritesWithinMax`: only Pause exceeds the maximum, for all options |
| `ModePolicyProofs` | `ControllerKeepsPolicy` | `MSpec => PolicyKept`: the controller implements `ModePolicy`, the requests of the user told apart |
| `HistoryProofs` | `LockoutHolds` | `HSpec => LockoutKept` |
| | `SessionsStartQualified` | `HSpec => StartConditionFirst`, if `Calm` |
| `LifecycleProofs` | `LifecycleTypes`, `GapSurvives`, `RestoresWhatWasLeft` | `LTypeOK`, `GapKept`, `RestoredAsLeft` of every behaviour of `Lifecycle` |
| `ModbusClientProofs` | `ClientTypes`, `OneConnectionPerClient`, `OrderKept` | `TypeOK`, `OneConnection`, `ExecutedInOrder` of every behaviour of `ModbusClient` |
| `PvSurplusProofs` | `TrackerTypes`, `AverageCoversWindow` | `TypeOK`, `AverageOfWindow` for all windows, intervals, delays of the timer, sensors and units |
| | `OwnDrawCancelsOut` | `Spec => []OwnDrawCancels`, if import and discharge are both configured |
| `RegistersProofs` | `OfferAlwaysValid`, `MoreNeverGivesLess`, `PowerDecodedRight`, `ErrorsReportedRight` | `OfferValid`, `MoreNeverLess`, `PowerIsDrawn`, `ErrorsReported` for all requests, maxima, powers, radices, error bits and names |
| | `ClampMonotone` | the clamp is monotone and never exceeds the request, for all integers |

**The controller.** Its theorems rest on one inductive invariant, `IInv` of
`ChargeControllerProofs`. The properties are not inductive one by one: that a command returns into
its mode needs that no other command is under way (so no other caller has changed the mode since);
that the clocks fit the mode after a command returns needs that the command fits the mode; and that
the loop keeps its hands off in Manual needs what each caller's tasks may be (a manual task only
continues as "manual", a loop task never does). A poll may change the mode from Manual to PV surplus
in the middle of a manual command, which is why `CommandFitsMode` allows both. A cycle is treated by
the lemma `CycleDecides`: it either shows a state with no task, or sends exactly one command fitting
its mode; each action then preserves the invariant. For `CurrentCapped`, `TargetInRange` bounds the
regulated current for every average, `CurrentsAllowed` says that every task but that of Pause carries
a current within the maximum, and `LimitWrites` which steps write the register.

**The refinement.** `CycleWithdraws` says what a cycle may do to mode and release: take a release
back, or give Immediate up for PV surplus. With `IInv`, every step of the controller is a step of
the policy or leaves the policy's variables alone: a timer cycle is `Decide`, a picked mode `Pick`,
a button or slider `Override`, the return of a command `End`, a poll `CarGone` or nothing. Only
`Pick` and `Override` change `asked`, so a step of the controller has to be one of the others.

**The lockout.** A cycle compares the stamp of the last switch with its own `now`, which is older
than the present by the time it has waited. The invariant `Apart` relates the stamp to the true age
of the last switch: the stamp is older by at most `MaxWait`, because no cycle waits longer.
`CyclePaced` says of a cycle that it switches only if the lockout, measured by its `now`, is over,
and then leaves that `now` as the stamp; so two switches lie at least the lockout less `MaxWait`
apart, which is `LockoutKept`.

**The start condition.** `Calm` is what the promise needs of the world: replugging is `"calm"`, and
no answer to a write is lost or garbled. Everything else may happen - outages, faults, sessions that
open or end by themselves, Pause, every setting and mode. `QInv` then says why a release is always
qualified. A release, and a start on its way to one, rest on a start condition met in this session
(`ReleaseQualified`, `StartQualified`), with one exception that the code really has: between the
write of 0 A and the return of its command the station has stopped and the release still stands. No
cycle can use it, because the lock is held until then, and the return takes it back - which is what
fails when the reply is lost (`stop_reply_lost`). Once a poll has seen the car gone with no command
under way, no release and no start is left that could reach the next car (`GoneUnreleased`), which
is what fails when the car is replugged during a start (`unplug_during_start`). `ReleaseFits` keeps
the other commands apart: only a stop writes 0 A while released. `CycleOfSession` treats a decision,
`DecisionSession` a cycle, and one lemma per action the rest.

**The lifecycle.** What is restored is what was stored, so `LInv` says what may be stored
(`KeptOK`: modes, and pairs of thresholds with a gap) and that what was shown is stored as it was
(`LeftKept`). `GapKept` is inductive only with the former: an unchecked restore is safe because only
checked pairs are ever stored, and all numbers of a platform are stored together.

**The client.** `LockInv` adds to the types that a running request is the head of the lock of its
client, so two running requests of one client are the same request: `OneConnection`. `OrderInv`
carries the order one stage on at a time: of two requests of a client, the one that took the lock
first connects first (`StartOrder`), stands first in the wallbox's line (`LineOrder`) and is executed
first (`ExecutionOrder`). It survives time-outs because a client that gives up leaves its request in
the line, and the next one, which starts only when the lock is free, joins the line behind it.

**Registers.** `ClampRange` is pure arithmetic and the invariant adds only that the configuration
stays what it was. `PowerDecoded` puts high and low words together again for every radix; its
assumption (`MeterAssumption`) is that a register pair holds what the car draws and that no power
equals the marker of an absent phase.

`ErrorWordDecoded` does the same for the error word: a bit of the decoded word is set exactly if
the wallbox set it. The sum of distinct powers of 2 has just those bits (`SumOfPowers`, since
`AddedBit` adds one and disturbs no other), fits two registers (`HighestBit`,
`ErrorWordAssumption`), is the same after being cut into bytes (`BytesJoin`), and swapping the bytes
of a register twice is nothing (`Swapped`). No name of an error may be "no_error"
(`FlagAssumption`).

**The tracker.** `TrackerInv`, the types with `AverageOfWindow`, is inductive: times fall strictly
along the deque, so dropping old samples from the front drops all old samples and no other
(`PruneKeepsYoung`), and samples and instants age alike (`TakeSampleKeeps`). For `OwnDrawCancels` the
invariant is `Honest`: a sample taken while the copy of the charging power was current is the house's
surplus. It rests on `ShownIsRead` (a power shown in a unit is read back) and `SumOfOne` (only one
sensor carries the meter's reading), in `ReadSampleHonest`; `MeanBetween` then puts the average among
the samples. The hypothesis that import and discharge are configured is needed: without an import
sensor a house that draws from the grid looks like one that neither draws nor feeds in.

**Induction over data.** Theorems that take a predicate cannot be instantiated here. `SumTheorems`
states induction with sets instead: `Least` follows from the well-foundedness of < on the naturals,
`SetInduction` from it, and `SubsetInduction` is induction over a finite set. `SumExists` shows with
it that the recursive function behind the community modules' `SumFunction` exists, and `SumAdds`
that its value adds up one element at a time. `PowerDoubles` gets 2^(n+1) = 2 * 2^n from counting
subsets.

Only model-checked: the liveness properties, `SelectReturns` among them, because TLAPS has no rules
for fairness here. Every safety property of a passing run is proved.

## Not modelled

* Two controllers over one wallbox: after a reload, a command or a queued cycle of the old load may
  still write. `ModbusClient` has the requests of both loads, `Lifecycle` only the current one.
* The restored platforms are added one by one, but the numbers of one platform in one step; states
  that Home Assistant drops after a week; dialogs open across a restart of Home Assistant.
* The bytes of Modbus frames, the ten registers of the IdTag one by one (they are one request), the
  firmware string, discovery of entities.
* Sensors, the entity base class, translations, manifest: they present data and change no state.

## What is left

A clock of the car that pauses by itself, as polls see it (`_vehicle_full`); the tracker under
corrections of the wall clock; a composition of two loads of the controller over the two clients.
