# Verification of the HPA300 firmware

TLA+ models of the firmware of the HPA300 air-purifier controller (ESP32-S2,
ESP-IDF, FreeRTOS on one core), checked with TLC and proved with TLAPS.  Paths
below are relative to the repository.

## 1. The system

| Component | State | Operations | Talks to |
|---|---|---|---|
| Fan actor (`main/fan_control.c`) | private snapshot, published snapshot, one-element mailbox, command sequence, maintenance flag, event bits, shutoff timer | boot, control cycle, `submit_*`, `quiesce`, `end_maintenance` | driver, diagnostics |
| Fan rules (`components/fan_policy`) | none | next speed, turbo, tick difference, sequence | fan actor |
| Transition and decoder (`fan_transition_core`, `main/fan_select.c`, `hc238`) | pins E3, A1, A2 | disable, address, enable | GPIO |
| Diagnostics (`main/diagnostics.c`) | fan-fault marker, breadcrumb ring and restart marker in RTC memory | latch, clear at power-on, record, mark | all |
| OTA worker (`main/ota_worker.c`) | command queue, two buffers, busy flag, validation cache | begin/write/finish/abort, select, confirm, rollback | fan actor, image writer |
| Image writer (`main/ota_update.c`) | OTA handle, sizes, busy flag | erase, begin, write, finish, abort, ... | flash, bootloader |
| HTTP handlers (`main/network.c`) | `s_ota_request_active`, maintenance window | upload, rollback, provisioning, fan, status | worker, fan actor |
| Network manager, station (`main/network.c`) | connection, retry count, pause, event queue | driver events, `network_init`, `network_service` | Wi-Fi driver, controller |
| Network manager, access point (`main/network.c`) | provisioning flags, maintenance window, driver mode | `network_start_provisioning`, `provisioning_*`, `maintenance_close` | DNS server, HTTP handlers |
| Captive DNS (`components/dns_server`) | one server in static storage, its task and event bits | start, stop | access point |
| Recovery policy (`components/recovery_policy`) | ready, deadline, back-off of each service | failed, due, ready | app_main |
| Controller and LEDs (`main/controller.c`, `components/leds`) | brightness, wake, network status, what is rendered | keys, service, status | fan actor, app_main |
| app_main (`main/main.c`) | probation, three retry states, setup gesture | boot, 20 ms loop | everything |
| Touch panel (`components/touch`, `components/touch_gesture`) | edge queue, overflow flag, gesture | sensor callbacks, start, poll | app_main |
| Service health, breadcrumbs | reporting | | |
| Home Assistant integration (`custom_components/hpa300`) | polling client | REST calls | HTTP handlers |

Four tasks matter: the fan actor (highest priority), the HTTP server (5), the OTA
worker (4) and app_main (1).  They share the maintenance flag, an event group, the
mailbox and the worker's submit mutex; main and HTTP task also share, without a lock,
the whole state of `network.c`.

What is hard: the maintenance flag and `EVENT_QUIESCED` are shared by tasks that do
not know of each other; commands, quiesce and the actor interleave; a GPIO write may
fail between two pins; a reset may come between two stores of the retained marker;
power may fail during every step of an update; counters wrap; two tasks wait on one
worker, which waits for the fan; two tasks run `network_service` at the same time; waits
for the DNS task and writes to LEDs fail half way.
`PROJECT.json` lists these hazards at their lines.

## 2. Modules

### FanPolicy

`fan_policy.c` and the output table as operators.  `SeqMax` and `TickMod` stand for
the 32-bit widths, so that TLC reaches the wraps; the proofs hold for every width.

### FanControl

The fan actor, the driver below it and the tasks around it.

| Code | Model |
|---|---|
| `fan_control_task`, start (198-246) | `BootInit`, then `Disable`, `Abort`, `LatchFault` as in a cycle, `BootFinish` |
| top of the cycle (249-270) | `CycleStart` (`maint` is the local copy of the flag) |
| mailbox and timer (272-279) | `ReceiveCommand`, `ReceiveNothing` |
| `fan_transition_execute`, `hc238_*` | `Disable`, `SetAddressA1`, `SetAddressA2`, `Enable`, `Abort`: one step per pin write, each of which may fail |
| `diagnostics_latch_fan_fault` | its first store (marker invalid) belongs to `Abort` or `BootInit`, its last one is `LatchFault`; a reset fits in between |
| end of the cycle (315-340) | `CycleFinish` |
| `submit_command` | `SubmitCheck` (snapshot), then `Submit` or `SubmitRefused` (critical section) |
| `fan_control_quiesce`, `end_maintenance` | `Quiesce`, `QuiesceGranted`, `QuiesceTimeout`, `EndMaintenance` |
| resets | `WarmReset`, `PowerOn`, `PanicReset` (`ESP_ERROR_CHECK` in app_main) |

One tick of the model is one control period.  `Tick` waits for the actor to have
started the previous period: the actor has the highest priority.  `age` and
`everLatched` are history variables.  The actor's cycle is split finer than the
scheduler would split it, so every real interleaving is included.

Left out: cycle and transition statistics and the last-change source.  Publishing is one
step; that the sequence lock allows this is what `SnapshotLock` shows.

### SnapshotRegister, SnapshotLock

`SnapshotRegister` is the abstract specification of the actor's snapshot: a read returns
all fields of the snapshot that is published when it returns, or gives up if a
publication was going on, and every read ends.  `SnapshotLock` is `publish_snapshot` and
`fan_control_get_snapshot` as written: the counter, the copy field by field on both
sides, the second load, the four attempts.  `Register` in it is the refinement mapping
and `ImplementsRegister` the refinement.  `Display` is built on the register.  The
counter does not wrap in the model: a read would have to sleep through 2^31 publications.

### FirmwareUpdate

The OTA worker, the image writer, the three handlers that hold the fan, the restart
task, probation in app_main, and (external) the bootloader and `esp_ota_*` for two
slots without a factory image (`partitions-4mb.csv`).

| Code | Model |
|---|---|
| `ota_worker_task`, `execute_command` | `TakeCommand`, `WorkerQuiesced`, `WorkerQuiesceTimeout`, then one action per flash operation; `Answer` is the end of the loop body |
| `ota_update_begin` | `BeginCheck` (header), `BeginErase`, `BeginHandle` (`esp_ota_begin`, which may refuse, or fail in the flash or for want of memory), and `Write` for the first buffer |
| `ota_update_write`, `_finish`, `_select_previous`, `_confirm_running`, `_rollback_running` | `Write`, `Finish` (`esp_ota_end`) and `FinishSetsBoot` (power may fail between the two), `SelectPrevious`, `Confirm`, `RollbackReboots` / `RollbackReturns` |
| `fail_maintenance`, `COMMAND_ABORT` | `FailMaintenance`, `Abort` |
| `ota_post_handler` | `UploadStart`, `UploadReceives`, `UploadInterrupted`, `UploadContinues`, `RequestFails`, `RequestAccepted` |
| `ota_failure` | `StartFailure` (submit ABORT), `FailureEnds` |
| `ota_rollback_post_handler` | `RollbackStart`, `RollbackNotFound`, `RequestFails`, `RequestAccepted` |
| `provision_post_handler` | `ProvisionStart`, `ProvisionQuiesced`, `ProvisionTimeout`, `ProvisionSaved` |
| app_main | `MainStart`, `MainRetriesNetwork`, `MainSeesNetwork`, `MainRollsBack`, `MainConfirms`, `MainAfterRollback`, `MainAfterConfirm` |

A task is interrupted only where it blocks.  `HttpRuns` is the priority rule: when
the handler has its answer, it goes on before the worker or app_main moves.  Without
it the model would let app_main slip between the worker's answer and the handler's
next statement, which the scheduler does not.

The fan appears as four variables and keeps the promises proved of `FanControl`:
`FanStops` is a cycle that sees the flag, stops the motor and sets `EVENT_QUIESCED`
(`quiesced`), `FanReady` the first cycle without the flag, which clears it, and no command
is taken while the flag stands.  A quiesce is granted by the event bit alone, so a bit
that outlives the flag for a cycle grants it too; it times out only with a fault or when
another task has cleared the flag.

Image contents are `good`, `bad`, `partial` or `erased`; an upload is `foreign`
(refused by the header), `unsigned` (refused by `esp_ota_end`) or `good`.  The slot
states are those of `esp_ota_img_states_t`.  As in ESP-IDF, confirmation and
rollback act on the active entry of the OTA data, and at boot every entry that is
still `PENDING` becomes `ABORTED`.

Left out: the maintenance window (see `AccessPoint`), tokens and JSON of the handlers;
the creation of static queues and tasks (it cannot fail).

### TouchPanel

The sensor's callbacks, their queue and the recognizer that app_main polls.

| Code | Model |
|---|---|
| `on_active`, `on_inactive`, `queue_edge` | `OnActive`, `OnInactive` (interrupts: between any two steps of the poll) |
| `touch_sens_init` | `InitStarts` (up to the start of the scan), `InitEnds`; `InitFails` with `cleanup_touch` |
| `touch_sens_get_key_num` | `PollStarts` (clock, flag), `DiscardEdge` and `DiscardEnds` after an overflow, otherwise `TakeEdge` and `PollWithKey` / `PollWithoutKey` |
| `touch_gesture_*` | the operators of these names; `PollKey` and `PollGesture` for `touch_gesture_poll` |

`held` is what the sensor reports.  The recognizer has two time stamps of which only
one is read at a time; `started` stands for both.  A poll that returns an empty
queue and the step that follows it are one action: a callback in between commutes
with it.  `since` is history.  Bounds: the loop comes back within `MaxLag` ticks, a
tick has at most `MaxEdges` edges, and the few instructions between the start of the
scan and the end of `touch_sens_init` have no more edges than the queue holds (with
more, line 222 would forget an overflow).

### RecoveryPolicy, WifiLink

`recovery_policy.c` as operators on a record, over a wrapping counter.  `WifiLink` is the
station side of `network.c`, for an enrolled device with no access point open.

| Code | Model |
|---|---|
| Wi-Fi driver (external) | `Connect` (may return an error, which all callers discard), `LinkUp`, `ConnectFails`, `LinkDrops`, `AddressChanges` |
| `wifi_event_handler` | `Post` |
| `network_init` at boot and on retry | `NetworkInit(wifi, ok)`, with `AfterInit` for the policy and `InitShows` for the LED |
| `network_service` | `Enter`, `Take` (queue), `Apply` (assignments), `Show` (`controller_set_network_status`), `React` (connect or pause), `TimerCheck`, `TimerRetry` |

Main and HTTP task run `network_service` at the same time.  `Runs` and `TimePasses` are
the scheduler: the HTTP task is not interrupted by main where it cannot block, and no
radio exchange fits between two adjacent instructions.  `lost`, `attempts`, `quiet`,
`newest`, `overtaken` and `ledOvertaken` are history.  Drops, failed starts
and refused calls of `esp_wifi_connect` (`connectErrors`) are bounded in number, changes
of the address (`MaxAddresses`) between two drains of the queue by the main loop; nothing in
the code limits them, the router's leases do.

### CaptiveDns, AccessPoint

`CaptiveDns` has `dns_server_start`, `dns_server_stop` and `dns_task` as pieces, divided
where a wait can run out; `AccessPoint` EXTENDS it and composes it with its callers.

| Code | Model |
|---|---|
| `network_init` | `InitStartsWifi`, `InitFails`, `InitStartsHttp` |
| `network_start_provisioning`, `provisioning_enable` | `StartProvisioning`, then `DnsStart`, `DnsStarted` / `DnsNotStarted` / `DnsStartTimesOut` |
| `network_service`: address, end of the window | `GotIp`, `CloseWindow` (on either task), both through `Disable`, `DnsStopped`, `ModeChanged` |
| `require_ota_access`, `ota_post_handler`, `ota_failure` | `AccessGranted`, `UploadReserved`, `UploadFails`, `UploadAccepted`, `UploadUnanswered` |
| `provision_post_handler`, `restart_task` | `Provisioned`, `Restart` |

`enrolled` stands for credentials and token together.  An upload whose window main closed
between the access check and the reservation is `late`: it goes on, without a claim on
the access point.  `InitFails` may leave `s_provisioning` set on a device that is not
enrolled (`esp_wifi_start` fails after line 1231).  `MayInit` allows the retry of
`network_init` before and after `network_service` in a pass, where app_main has it before:
every order of the code is included, and the properties hold for the larger set.
`clash`, `reinit`, `modeFailed` and `stranded` are history and name
the exceptions of the properties (section 5).

### Display

`controller.c`, `leds.c` and the parts of app_main that retry the LEDs and recognize
4,5,4,5.  `Render` is `render_status_leds_locked` with its outcomes: all written, the
last write failed, or stopped early with some LEDs off.  `LedsStart`, `LedsFail` and
`LedsShown` are the driver's start and recovery, `ServiceStarts`, `WakeEndFails`,
`BlinkFails` and `ServiceEnds` are `controller_service`, which reads the snapshot in
between; `SetNetworkStatus` and `HandleKey` are the calls of these names.  The UI mutex
is held by one call at a time and its 20 ms wait is taken to succeed.  `threads` is the
reference for the setup sequence and reads neither `position` nor `started`: every 4 begins
an attempt, which goes on with each key that is its next one and comes within the timeout
of its own first key.

## 3. Runs

| Run | Instance | Checks |
|---|---|---|
| `fan_safety` | 2 clients, 1 maintainer, 3 kinds of command, 2 GPIO failures, sequence wraps at 2 | the motor is off for whoever was told so; no command crosses maintenance; the snapshot tells the output; break before make; one failure never leaves the motor on; a timeout means a fault; commands settle |
| `fan_timer` | 5 kinds of command, durations 2, 3, 4, a tick counter that wraps at 5, 1 GPIO failure, 2 resets anywhere | the shutoff is neither late nor early; a latched fault outlives resets and keeps E3 low |
| `fw_safety` | uploads of 2 buffers, rollback, provisioning; 1 flash error, 1 allocation failure, 1 power loss, fan faults | the boot slot verifies; buffers are conserved; no 409 after a failed update |
| `fw_upload` | uploads against probation; 1 flash error, 1 power loss, fan faults | no flash operation with the fan on; the fan is locked only for an operation; handlers return; probation ends |
| `touch_panel` | 2 pads, a queue of 2, a clock that wraps at 4 | an overflow never invents a touch; one key per touch; keys are apart; the panel rearms |
| `wifi_link` | 2 tasks, a queue of 3, 2 retries, a pause of 2, a clock that wraps at 8; 2 failed starts, 2 lost links, 1 refused `esp_wifi_connect`, 1 new address before the queue is drained | no event is lost; the believed state and the LED become the real state; attempts are paced; the station keeps trying as long as no call was refused |
| `access_point` | 2 tasks, a window of 2 ticks, 2 driver failures, 2 bind failures, 1 timeout of each wait | an upload keeps its window; flag and mode agree; the DNS server is neither leaked nor overwritten; the portal stays until enrolment; the window closes |
| `display` | 3 fan states, 2 publications, 4 keys, 3 statuses, 2 failing writes, a sequence timeout of 3 ticks | the panel shows what the controller believes and, in the end, the fan; brightness; the position of the setup sequence is that of an attempt the keys made |
| `snapshot` | 2 fields, 4 snapshots, 2 readers, 2 publications | `SnapshotLock` implements `SnapshotRegister` |
| `fw_flag_owner`, `fw_fallback`, `ap_window` | | disagreements, section 5 |

Every module has a type invariant.  That of `FanControl` is part of a run; all of them are
proved (section 6).

Why the bounds are enough.  Two clients and one maintainer give every pair of racing
critical sections, and the mailbox holds one command.  Two GPIO failures reach the
double failure in which E3 stays high (hence `OneFailureStopsMotor` is about one).
Two resets give a reset during the boot after a reset.  The sequence and tick
counters wrap several times within the runs.  Two buffers make the first, the middle
and the last step of an upload distinct.  One failure of each kind at every place
reaches every error path; two of them matter for the retained marker, see section 5.
Two pads give the lone touch, the ambiguous one and a pad that stays
held across a lost edge; a queue of two overflows with a press or a release lost.

A queue of three events is enough for `NoEventLost` because of what it shows: after a
disconnect the driver is silent until somebody has drained the queue, so a start, an
address, a changed address and a loss are the longest backlog; with a queue of two an
event is lost.  The code has eight places.  A wrap at 8 is the smallest in which pause,
back-off and lag stay below half the range.  In `access_point` a window of two ticks lets
it run out before, during and after every other operation, and each wait can run out
once.  In `display` one failing write at every place reaches each half-written panel, a second
one the recovery of the LED driver (the first made it necessary) that is itself cut short,
and two publications the return to the state shown before.  A sequence timeout of three
ticks lets two attempts overlap, the first of them late and the second in time, and a key
comes late at every position.  As the sequence and the panel share nothing but the key, the
constraint `SetupWithoutFailures` explores attempts only before the first failure and the
first change of the fan.  Two publications are what a torn or outdated read needs.

The worker gives the buffer of BEGIN and WRITE back after every such command, whatever its
result (`ReleaseCommandBuffer`, `main/ota_worker.c:85`).
`BuffersConserved` also shows that the 503 for lack of buffers does not happen with
one HTTP task.  `BusyOnlyWhileServing` accepts one state: the new image is selected
but there is no memory for the answer or the restart task.  The device then stays
busy until it is restarted by hand, as the code's own message says.

Deadlock is checked in all runs: no instance reaches a state without a next step.

## 4. Fairness

`FanControl`: the actor and the tick are weakly fair (highest priority, timer
interrupt), the panic reset happens, and a wait on the event group returns.  Nobody
is obliged to submit, quiesce or release.

`FirmwareUpdate`: worker, restart, the probation interval, the fan actor
(`FanStops \/ FanReady`) and a handler in progress are weakly fair (the server closes a
silent connection).  app_main has the lowest priority and competes for the submit mutex; its steps and
the taking of each task's command are strongly fair: clients pause now and then.
The network and the users have no fairness.  `ProbationResolves` needs a fallback
and a healthy fan; without the first the code retries forever (section 5), without
the second it retries by design.

`TouchPanel`: the steps of the main loop and the clock are weakly fair; touches, and
the success of the sensor's start, are not.

`WifiLink`: the main loop, a request being served, the clock and the result of an attempt
(either one) are weakly fair.  No request has to come and the router need not be there.

`AccessPoint`: the main loop, the DNS task, every bounded wait, an upload in progress (it
has a receive timeout), the clock and the restart are weakly fair; keys, requests and
addresses are not.

`Display`: the service part of the main loop, the actor's publications and the clock are
weakly fair.  The start of the LED driver is strongly fair: the loop passes the retry
again and again, and the failures are bounded.

`SnapshotLock`: a reader that has begun is scheduled; that it ends although the actor
publishes all the time is due to its four attempts.

## 5. Where code and documents disagree

Each of the first three has a run that ends in the violation.

1. `fw_fallback`: `ota_update_begin` erases the slot before `esp_ota_begin` refuses
   it, so an upload during probation destroys the fallback
   (`docs/ota-validation.md:43`).  Selecting the previous image during probation has
   the same effect on the next probation.
2. `fw_flag_owner`: the maintenance flag has no owner
   (`docs/preassembly-test-plan.md:188`).  In the run, a new image is in probation without
   a router, the worker has the fan stopped and rolls the image back; a provisioning
   handler that asked for the fan too finds its client gone and clears the flag
   (`main/network.c:1093`), and the user starts the fan during the rollback.  In the other
   direction the worker's confirmation (`main/ota_worker.c:155`) ends the maintenance of a
   handler that still stores the credentials.  The 409 path of
   `ota_rollback_post_handler` can clear the flag under the worker as well, which is why
   `fw_upload` admits uploads only.
3. `ap_window`: a captive DNS server that does not start leaves the access point of an
   enrolled device on, forced, and without a window (`README.md:91`,
   `docs/preassembly-test-plan.md:195`).  Only another 4,5,4,5 or a restart ends this.

Met while modelling, and named as an exception in a property:

- A second GPIO failure during the next boot rewrites the retained marker; a reset
  between its stores (`main/diagnostics.c:321` and 327) boots without the fault,
  although line 193 says that only a cold boot clears it.  `fan_timer` has one failure.
- A rollback that returns does not end maintenance: a device in probation without a
  router and without a fallback refuses fan commands until a confirmation
  (`docs/preassembly-test-plan.md:262`; `pending` in `FanLockedOnlyForOperation`).
- Probation needs a router; `README.md:199` says that it does not
  (`docs/ota-validation.md:47` agrees with the code).
- `network_service` on two tasks: the main task can be overtaken between taking an event
  and applying it, and `s_connected`, or the LED, keeps the older state until the next
  event (`overtaken`, `ledOvertaken` in `WifiLink`).
- One task opens the access point while the other closes it, or `network_init` is
  repeated after 4,5,4,5 opened it: the driver's mode and `s_provisioning` differ until
  the next opening or closing (`clash`, `reinit` in `AccessPoint`).
- `dns_server_start` that gives up on a task which still starts frees the storage under
  it (`startTimeouts` in `DnsNotLeaked` and `StorageNotReused`); `dns_server_stop` that
  gives up keeps the storage, as its message says, but nobody retries.
- An accepted upload without memory for its answer keeps the window, without memory for
  the restart task the access point, until a manual restart (`stranded`).
- A rendering that fails half way is repeated only if the fan differs from what was noted
  as shown before it: a fan that returns to that state leaves the panel mixed.  While the
  LED driver is absent `rendered_*` follows the fan without LEDs, so a recovery whose
  rendering is cut short (`main/controller.c:180`), or that gets no snapshot (line 179),
  leaves the panel mixed or dark until the fan changes (`unfinished` in
  `PanelFollowsFan`).
- A key that comes after the timeout of an attempt sets the position to 0
  (`main/main.c:32`), and with it forgets a later 4 that the position counted as the third
  key of that attempt.  4, 5, 4, a late 5, 4, 5: the last four keys are within ten seconds
  and do not open the window, against `README.md:91` (`alone` in `SetupFollowsKeys`).
- `network_service` discards the error of `esp_wifi_connect` (`main/network.c:272`, 281,
  304).  A refused call is followed by no event and starts no pause, so the station stays
  idle until a restart, against `docs/preassembly-test-plan.md:264` (`connectErrors` in
  `KeepsTrying`, which shows that this and the overtaking above are the only ways to stop).
- `README.md:279` says that crossing Off resets the LED brightness, and line 277 omits
  key 6 from the keys that wake the LEDs; the code does neither.

## 6. Proofs

Every invariant and every action property that a passing run checks is also a theorem,
for all values of the constants that the named ASSUMEs of the modules allow (TLC
evaluates these in every run).  So queue lengths, retry limits, widths of the counters,
durations, numbers of failures and resets, sets of pads, fields, readers and clients are
arbitrary.  The few theorems that need more say so in an ASSUME of their own, listed
below.  Each proof rests on one inductive invariant, a conjunction of named parts, all of
which TLC checked on the runs' instances first.

### FanControlProofs

`SafetyInvariant`: `TypeOK /\ SafetyInv` is inductive.  `QuiescedMeansOff` is not: the
event bit is set by one cycle and trusted in the next, so `SafetyInv` adds `MotorInv` (a
healthy actor that believes the fan off has E3 low; E3 is low while addresses change),
`FaultInv` (a fault, or the cycle's copy of the flag, leaves no speed to go to; after boot
the marker is never ahead of the actor) and `QuiesceInv` (where in a cycle the bit may
stand).  `QuiescedIsOff` and `NoReplay` follow for any number of maintainers,
`BreaksBeforeMaking` and `RetainedFaultIsSafe` with a lemma on what each step does to the
pins.  `HolderIsSafe` adds `HolderInv` (the flag stands from the quiesce to the release)
and **assumes one maintainer**: with two, one releases the fan under the other.

### FanCycleProofs

`SnapshotIsTheOutput` needs `OutputInv` (the pins while the address is built up) and
`SettledInv` (the end of a cycle settles the last command before it publishes).
`OneFailureIsSafe` needs `FailureInv`.  `FaultSurvives` **assumes `MaxFailures <= 1`** and
uses `LatchInv`: with no second failure the marker is written once.  Without the
assumption the statement is false (section 5).  `ShutsOffOnTime` and `NeverShutsOffEarly`
rest on `TimerInv`: the difference of the wrapping ticks is the true age of the timer,
give or take the tick that began during the cycle (`Lag`).  `TimeoutsAreFaults` **assumes
one maintainer and `QuiesceTicks >= 3`** (the code waits 25 periods); `WaitInv` says why
two are always enough for the actor: one cycle may have read the flag too early, the next
one sees it.

### SnapshotLockProofs

`LockInvariant`: what a reader has copied while the counter is what it was at its first
load equals the cell, field by field, and a cell under an even counter is the published
snapshot.  `LockRefinesRegister`: with the mapping of `SnapshotLock`, initial states map
to initial states and every step to a step of `SnapshotRegister` or a stutter.

### FirmwareUpdateProofs

`CoreInvariant` describes the handshake: each task waits for exactly the command of its
place, the worker executes a command that waits, and it rests while the handler has an
answer to read; and it says who has each buffer.  On it rest `BuffersAreConserved`,
`SlotInvariant` (an accepted image leaves the worker busy until the restart, so nothing
can write to a slot that boots next; between `esp_ota_end` and the change of the boot slot
the other slot is verified and the handle released) with
`BootSlotIsVerified` and `BusyMeansServing`, and
`LockInvariant` with `FanIsLockedForAReason`.  `FlashIsWrittenWhileOff` **assumes that
requests are uploads** (with confirmation and rollback by probation at any time); with the
other requests it is false, as `fw_flag_owner` shows.  It needs that the event bit is never
set with the fan on, and that a worker that waits for it has the flag set.

### TouchPanelProofs

`MaskAfter(q, mask, n)` is what the recognizer believes after n edges, without recursion:
the last edge of each pad decides.  `BeliefInv` says that after all edges of the queue the
belief lies within the truth, and is the truth unless an edge was dropped; this gives
`NoPadIsInvented`.  `TouchedInv` and `ReleasedInv` carry the same along the queue for
`TouchGivesOneKey`; `SpacingInv` bounds the time since the last key from below by what the
recognizer has measured, for `KeysAreApart`.

### WifiLinkProofs

The theorems **assume `QueueSuffices`**, `MaxAddresses + 2 <= QueueLength`: with the
queue of eight, at most six changes of the address before it is drained.  `TokenInv` is
the argument: while the station is idle at most one of the last event of the queue, the
task that took it, the pause, or the task that found the pause over may let it connect,
and the driver posts nothing until then (after a refused call none is left, and it posts
nothing at all).  `LengthInv` follows and gives `NoEventIsLost`.
`OrderInv` and `LedInv` follow the latest event into `s_connected` and the LED.  `PaceInv`
compares the attempts with `s_retry_count`, which a late address event resets, and the
pause with its deadline.

### AccessPointProofs

`PortalInv` (who closes found the device enrolled), `StorageInv` and `HandleInv` (handle,
storage, task and event bits at every place of start and stop), `ClashInv` and `ModeInv`
(flag and mode when no two tasks are at work) and `WindowInv`.  The exceptions are the
history variables that the properties name.

### DisplayProofs

`PanelInv` and `DutyInv` extend `PanelShowsRendered` and `BrightnessHonoured` to the
middle of `controller_service` and of a recovery.  `SetupFollowsKeys`
is inductive as it stands: an attempt that was alone when it began has the position's length
and age, so every key is the next one, or late, for both or for neither; and an attempt that
begins beside another is not alone and claims nothing.  Section 5
has the case in which such an attempt is lost.

### Only model-checked

- Liveness, which is out of the prover's reach: `CommandSettles`, `HandlerEnds`,
  `ProbationResolves`, `RearmsAfterRelease`, `KeepsTrying`, `WindowCloses`,
  `PanelFollowsFan`, and the part of `ImplementsRegister` that says that reads end.
- The three violations of section 5, which are counterexamples.

## 7. Not modelled, and the plan

Not modelled:

- breadcrumbs, restart marker, runtime sampling and service health: written by everyone,
  read only by the status resources;
- DNS and HTTP messages, JSON, tokens, HTML: data without control;
- the read-only HTTP handlers and `fan_put_handler`, whose effect is `Submit` of
  `FanControl`;
- the UI mutex's timeout of 20 ms and the controller's debounce (idle, see `KeysApart`);
- pin-table validation, board tables, the Home Assistant integration, build tools.

Possible next steps: the breadcrumb ring of `main/diagnostics.c` as a component of its
own; a composition of `FanControl` and `FirmwareUpdate`, in which the promises of the fan
that `FirmwareUpdate` takes from the theorems above become a refinement.
