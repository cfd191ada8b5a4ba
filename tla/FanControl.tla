----------------------------- MODULE FanControl -----------------------------
(***************************************************************************)
(* The fan actor of main/fan_control.c together with everything it drives: *)
(* the transition sequence of components/fan_transition_core, the HC238    *)
(* decoder pins of components/hc238, and the retained fault marker of      *)
(* main/diagnostics.c.  Around it run the tasks that use it:               *)
(*   - Clients submit commands (touch keys on the main task, REST on the   *)
(*     HTTP task) into a one-element mailbox;                              *)
(*   - Maintainers quiesce the fan before they touch the flash (the OTA    *)
(*     worker and the provisioning handler) and release it afterwards;     *)
(*   - the chip resets, keeping the retained marker, or loses power.       *)
(*                                                                         *)
(* The actor has the highest priority of a single-core chip, so one cycle  *)
(* really runs without interference.  Here it is split wherever it touches *)
(* shared state or a pin: every real interleaving, and a reset between any *)
(* two writes, is a behaviour of this module.                              *)
(***************************************************************************)
EXTENDS FanPolicy

CONSTANTS
    Clients,        \* tasks that submit commands
    Maintainers,    \* tasks that call fan_control_quiesce
    Commands,       \* the commands that clients submit
    Durations,      \* s_shutoff_duration_ms, in ticks, of the timed modes
    QuiesceTicks,   \* the timeout that maintainers pass to quiesce, in ticks
    MaxFailures,    \* bound: GPIO writes that fail
    MaxResets       \* bound: resets and power losses

\* fan_shutoff_mode_t: 2H, 4H, 8H and ALWAYS_ON.
ALWAYS_ON == 3
Modes     == 0 .. 3

Actions    == {"SET_SPEED", "CYCLE_NORMAL", "TOGGLE_TURBO", "CYCLE_TIMER"}
RequestT   == [action : Actions, speed : Speeds, cancel : BOOLEAN]
MessageT   == [action : Actions, speed : Speeds, cancel : BOOLEAN, seq : Seqs \ {0}]
NoCommand  == [action |-> "NONE", speed |-> OFF, cancel |-> FALSE, seq |-> 0]

ASSUME CommandsAssumption == Commands \subseteq RequestT
ASSUME DurationsAssumption == Durations \in [0 .. 2 -> 1 .. TickMod - 1]
ASSUME BoundsAssumption == QuiesceTicks \in Nat /\ MaxFailures \in Nat /\ MaxResets \in Nat

VARIABLES
    state,          \* the actor's private fan_control_snapshot_t
    snapshot,       \* s_snapshot, the copy other tasks read
    pc,             \* where the actor is in its cycle
    maint,          \* the cycle's local copy of s_maintenance_requested
    pins,           \* levels of the decoder inputs E3, A1 and A2
    mailbox,        \* s_mailbox
    sequence,       \* s_command_sequence
    maintenance,    \* s_maintenance_requested
    quiesced,       \* EVENT_QUIESCED
    initialized,    \* fan_control_init returned ESP_OK, other tasks may start
    now,            \* the tick count
    lastWake,       \* the tick the current or last cycle read as now
    started,        \* timer_started
    age,            \* ticks since the timer was started (history)
    submitting,     \* clients between the snapshot check and the critical section
    holder,         \* what each maintainer is doing
    waited,         \* ticks each maintainer has waited in fan_control_quiesce
    retained,       \* the fan fault marker in RTC memory is valid
    everLatched,    \* a fault was latched since the last power-on (history)
    failures,       \* GPIO writes that failed
    resets          \* resets so far

actorVars  == <<state, snapshot, pc, maint>>
timeVars   == <<now, lastWake, started, age>>
sharedVars == <<mailbox, sequence, maintenance, quiesced, initialized>>
taskVars   == <<submitting, holder, waited>>
rtcVars    == <<retained, everLatched>>
boundVars  == <<failures, resets>>
vars == <<actorVars, pins, timeVars, sharedVars, taskVars, rtcVars, boundVars>>

SnapshotT ==
    [desired : Speeds, applied : Speeds, accepted : Seqs, appliedSeq : Seqs,
     mode : Modes, active : BOOLEAN, fault : BOOLEAN,
     status : {"STARTING", "READY", "MAINTENANCE", "FAULT_LATCHED"}]

PCs == {"boot", "bootfail", "suspended", "sleep", "receive", "disable",
        "addressA1", "addressA2", "enable", "abort", "latch", "finish"}

PinsT == [e3 : 0 .. 1, a1 : 0 .. 1, a2 : 0 .. 1]

----------------------------------------------------------------------------
(* The initial value of everything in RAM, and the pins as R16, R17 and R18 *)
(* hold them while the chip is in reset.                                    *)

BootState ==
    [desired |-> OFF, applied |-> OFF, accepted |-> 0, appliedSeq |-> 0,
     mode |-> ALWAYS_ON, active |-> FALSE, fault |-> FALSE, status |-> "STARTING"]

PinsInReset == [e3 |-> 0, a1 |-> 0, a2 |-> 0]

Init ==
    /\ state = BootState /\ snapshot = BootState /\ pc = "boot" /\ maint = FALSE
    /\ pins = PinsInReset
    /\ mailbox = NoCommand /\ sequence = 0
    /\ maintenance = FALSE /\ quiesced = FALSE /\ initialized = FALSE
    /\ now = 0 /\ lastWake = 0 /\ started = 0 /\ age = 0
    /\ submitting = {}
    /\ holder = [m \in Maintainers |-> "idle"]
    /\ waited = [m \in Maintainers |-> 0]
    /\ retained = FALSE /\ everLatched = FALSE
    /\ failures = 0 /\ resets = 0

\* Everything in RAM starts over.
Restart ==
    /\ state' = BootState /\ snapshot' = BootState /\ pc' = "boot" /\ maint' = FALSE
    /\ pins' = PinsInReset
    /\ mailbox' = NoCommand /\ sequence' = 0
    /\ maintenance' = FALSE /\ quiesced' = FALSE /\ initialized' = FALSE
    /\ now' = 0 /\ lastWake' = 0 /\ started' = 0 /\ age' = 0
    /\ submitting' = {}
    /\ holder' = [m \in Maintainers |-> "idle"]
    /\ waited' = [m \in Maintainers |-> 0]

\* Reset button, software restart, watchdog or panic: the marker survives.
WarmReset ==
    /\ resets < MaxResets /\ resets' = resets + 1
    /\ Restart
    /\ UNCHANGED <<rtcVars, failures>>

\* ESP_RST_POWERON: diagnostics_init clears the marker.
PowerOn ==
    /\ resets < MaxResets /\ resets' = resets + 1
    /\ Restart
    /\ retained' = FALSE /\ everLatched' = FALSE
    /\ UNCHANGED failures

\* ESP_ERROR_CHECK(fan_control_init()) in app_main aborts: a panic reset.
PanicReset ==
    /\ pc = "suspended"
    /\ Restart
    /\ UNCHANGED <<rtcVars, boundVars>>

----------------------------------------------------------------------------
(* Helpers on the actor's state.                                           *)

CancelTimer(s) == [s EXCEPT !.mode = ALWAYS_ON, !.active = FALSE]

\* What interpret_command does after its switch.
OffCancelsTimer(s) == IF s.desired = OFF THEN CancelTimer(s) ELSE s

CycleTimer(s) ==
    IF s.desired = OFF THEN s
    ELSE LET next == (s.mode + 1) % 4
         IN  [s EXCEPT !.mode = next, !.active = (next # ALWAYS_ON)]

\* interpret_command.  The timer button is settled at once; a speed is settled
\* when its transition commits.
InterpretCommand(s, c) ==
    LET a == [s EXCEPT !.accepted = c.seq]
    IN  CASE c.action = "CYCLE_NORMAL" ->
                OffCancelsTimer([a EXCEPT !.desired = NextNormalSpeed(s.desired)])
          [] c.action = "TOGGLE_TURBO" ->
                OffCancelsTimer([a EXCEPT !.desired = ToggleTurbo(s.desired)])
          [] c.action = "CYCLE_TIMER" ->
                [CycleTimer(a) EXCEPT !.appliedSeq = c.seq]
          [] OTHER ->
                LET d == [a EXCEPT !.desired = c.speed]
                IN  OffCancelsTimer(IF c.cancel THEN CancelTimer(d) ELSE d)

RestartsTimer(s, c) == c.action = "CYCLE_TIMER" /\ s.desired # OFF

\* Mutant: the table is read one entry too low.
PreviousDuration(mode) == Durations[(mode + 2) % 3]

ShutoffDuration(mode) == Durations[mode]

TimerExpired(s, since) ==
    /\ s.active /\ s.desired # OFF
    /\ TickElapsed(lastWake, since, ShutoffDuration(s.mode))

ExpireTimer(s, since) ==
    IF TimerExpired(s, since) THEN CancelTimer([s EXCEPT !.desired = OFF]) ELSE s

TransitionRequired(s) == ~s.fault /\ s.applied # s.desired

\* Mutant: a command that needs no transition is never reported as applied.
DuplicateStaysOpen(s) == s

\* The command asked for the speed the fan already has.
SettleDuplicate(s) ==
    IF ~s.fault /\ s.accepted # 0 /\ s.appliedSeq # s.accepted
    THEN [s EXCEPT !.appliedSeq = s.accepted] ELSE s

Committed(s) == [s EXCEPT !.applied = s.desired, !.appliedSeq = s.accepted]

Failed(s) ==
    CancelTimer([s EXCEPT !.applied = OFF, !.desired = OFF, !.fault = TRUE,
                          !.status = IF s.status = "STARTING" THEN s.status
                                     ELSE "FAULT_LATCHED"])

\* The address of the target speed, one bit for each driven address pin.
BitA1(speed) == (OutputMap[speed] \div 2) % 2
BitA2(speed) == OutputMap[speed] \div 4

----------------------------------------------------------------------------
(* The decoder: gpio_set_level either sets one pin or fails and leaves it.  *)

GpioSet(pin, level) ==
    /\ pins' = [pins EXCEPT ![pin] = level]
    /\ UNCHANGED failures

GpioFails ==
    /\ failures < MaxFailures /\ failures' = failures + 1
    /\ UNCHANGED pins

\* Mutant: an error returns without the second attempt to disable E3.
NoSecondDisable == UNCHANGED <<pins, failures>>

\* backend->enable(false) on an error path, its result ignored.
BestEffortDisable == GpioSet("e3", 0) \/ GpioFails

----------------------------------------------------------------------------
(* The actor's start.                                                      *)

\* Mutant: the actor does not ask for the retained fault.
ForgottenFault == FALSE

\* diagnostics_fan_fault_is_latched
FaultAtBoot == retained

\* Read the retained marker and run fan_init, which configures the three pins
\* at level 0.  The first store of diagnostics_latch_fan_fault invalidates the
\* marker, the last one (LatchFault) makes it valid.
BootInit ==
    /\ pc = "boot"
    /\ \/ /\ pins' = PinsInReset
          /\ state' = [state EXCEPT !.fault = FaultAtBoot]
          /\ pc' = "disable"
          /\ UNCHANGED <<failures, retained>>
       \/ /\ GpioFails
          /\ state' = Failed(state)
          /\ retained' = FALSE
          /\ pc' = "latch"
    /\ UNCHANGED <<snapshot, maint, timeVars, sharedVars, taskVars, everLatched, resets>>

\* Publish the first snapshot.  When the pins could not be set up, or the task
\* watchdog refuses the actor (ok = FALSE), the actor suspends itself.
BootFinish(ok) ==
    /\ state.status = "STARTING"
    /\ pc \in {"finish", "bootfail"}
    /\ ok => pc = "finish"
    /\ state' = [state EXCEPT !.status = IF state.fault THEN "FAULT_LATCHED" ELSE "READY"]
    /\ snapshot' = state'
    /\ initialized' = ok
    /\ pc' = IF ok THEN "sleep" ELSE "suspended"
    /\ UNCHANGED <<maint, pins, timeVars, mailbox, sequence, maintenance, quiesced,
                   taskVars, rtcVars, boundVars>>

----------------------------------------------------------------------------
(* One control cycle.                                                      *)

\* Mutant: leaving maintenance forgets to clear the event bit.
QuiescedForever == quiesced

\* xEventGroupClearBits when the actor leaves maintenance.
StillQuiesced == quiesced /\ (maintenance \/ state.fault)

\* Wake up, read s_maintenance_requested once, and enter or leave maintenance.
CycleStart ==
    /\ pc = "sleep" /\ now # lastWake
    /\ lastWake' = now
    /\ maint' = maintenance
    /\ state' = IF state.fault THEN state
                ELSE IF maintenance
                THEN CancelTimer([state EXCEPT !.status = "MAINTENANCE", !.desired = OFF])
                ELSE [state EXCEPT !.status = "READY"]
    /\ quiesced' = StillQuiesced
    /\ pc' = "receive"
    /\ UNCHANGED <<snapshot, pins, now, started, age, mailbox, sequence, maintenance,
                   initialized, taskVars, rtcVars, boundVars>>

\* Mutant: a running fan changes speed without the break.
SettleWithoutBreak(s) ==
    IF TransitionRequired(s)
    THEN state' = s /\ pc' = (IF s.desired = OFF THEN "disable" ELSE "addressA1")
    ELSE state' = SettleDuplicate(s) /\ pc' = "finish"

\* After the command: settle what needs no transition, or start the transition.
Settle(s) ==
    IF TransitionRequired(s)
    THEN state' = s /\ pc' = "disable"
    ELSE state' = SettleDuplicate(s) /\ pc' = "finish"

\* Take the newest command, then check the shutoff timer.
ReceiveCommand ==
    /\ pc = "receive" /\ ~state.fault /\ ~maint /\ mailbox # NoCommand
    /\ LET restart == RestartsTimer(state, mailbox)
           since   == IF restart THEN lastWake ELSE started
       IN  /\ started' = since
           /\ age' = IF restart THEN (now - lastWake) % TickMod ELSE age
           /\ Settle(ExpireTimer(InterpretCommand(state, mailbox), since))
    /\ mailbox' = NoCommand
    /\ UNCHANGED <<snapshot, maint, pins, now, lastWake, sequence, maintenance, quiesced,
                   initialized, taskVars, rtcVars, boundVars>>

\* No command, or none may be taken: only the timer can ask for a transition,
\* or the entry into maintenance.
ReceiveNothing ==
    /\ pc = "receive" /\ (state.fault \/ maint \/ mailbox = NoCommand)
    /\ Settle(IF state.fault \/ maint THEN state ELSE ExpireTimer(state, started))
    /\ UNCHANGED <<snapshot, maint, pins, timeVars, sharedVars, taskVars, rtcVars, boundVars>>

\* fan_transition_execute, phase DISABLE.
Disable ==
    /\ pc = "disable"
    /\ \/ /\ GpioSet("e3", 0)
          /\ IF state.desired = OFF
             THEN state' = Committed(state) /\ pc' = "finish"
             ELSE UNCHANGED state /\ pc' = "addressA1"
       \/ /\ GpioFails
          /\ pc' = "abort" /\ UNCHANGED state
    /\ UNCHANGED <<snapshot, maint, timeVars, sharedVars, taskVars, rtcVars, resets>>

\* Phase ADDRESS: hc238_set_address writes A1 and then A2.
SetAddressA1 ==
    /\ pc = "addressA1"
    /\ \/ GpioSet("a1", BitA1(state.desired)) /\ pc' = "addressA2"
       \/ GpioFails /\ pc' = "abort"
    /\ UNCHANGED <<state, snapshot, maint, timeVars, sharedVars, taskVars, rtcVars, resets>>

SetAddressA2 ==
    /\ pc = "addressA2"
    /\ \/ GpioSet("a2", BitA2(state.desired)) /\ pc' = "enable"
       \/ GpioFails /\ pc' = "abort"
    /\ UNCHANGED <<state, snapshot, maint, timeVars, sharedVars, taskVars, rtcVars, resets>>

\* Phase ENABLE, and the commit in fan_control_task.
Enable ==
    /\ pc = "enable"
    /\ \/ GpioSet("e3", 1) /\ state' = Committed(state) /\ pc' = "finish"
       \/ GpioFails /\ pc' = "abort" /\ UNCHANGED state
    /\ UNCHANGED <<snapshot, maint, timeVars, sharedVars, taskVars, rtcVars, resets>>

\* Any phase failed: try once more to disable E3, whatever that returns, then
\* latch the fault in the actor and start to latch it in RTC memory.
Abort ==
    /\ pc = "abort"
    /\ BestEffortDisable
    /\ state' = Failed(state)
    /\ retained' = FALSE
    /\ pc' = "latch"
    /\ UNCHANGED <<snapshot, maint, timeVars, sharedVars, taskVars, everLatched, resets>>

\* The last store of diagnostics_latch_fan_fault.
LatchFault ==
    /\ pc = "latch"
    /\ retained' = TRUE /\ everLatched' = TRUE
    /\ pc' = IF state.status = "STARTING" THEN "bootfail" ELSE "finish"
    /\ UNCHANGED <<state, snapshot, maint, pins, timeVars, sharedVars, taskVars, boundVars>>

\* Mutant: a faulted actor announces itself as well.
QuiescedDespiteFault == maint /\ state.applied = OFF

\* Mutant: only a cycle that stopped the motor announces it.
QuiescedIfStopped == maint /\ state.applied = OFF /\ ~state.fault /\ snapshot.applied # OFF

BecomesQuiesced == maint /\ state.applied = OFF /\ ~state.fault

\* End of the cycle: announce the quiesced fan and publish the snapshot.
CycleFinish ==
    /\ pc = "finish" /\ state.status # "STARTING"
    /\ quiesced' = (quiesced \/ BecomesQuiesced)
    /\ snapshot' = state
    /\ pc' = "sleep"
    /\ UNCHANGED <<state, maint, pins, timeVars, mailbox, sequence, maintenance,
                   initialized, taskVars, rtcVars, boundVars>>

\* The next control period begins.  The actor's priority gives it the processor
\* before another period passes.
Tick ==
    /\ initialized /\ now = lastWake
    /\ now' = (now + 1) % TickMod
    /\ age' = IF age < TickMod THEN age + 1 ELSE age
    /\ waited' = [m \in Maintainers |->
                    IF holder[m] = "waiting" /\ waited[m] < QuiesceTicks
                    THEN waited[m] + 1 ELSE waited[m]]
    /\ UNCHANGED <<actorVars, pins, lastWake, started, sharedVars, submitting, holder,
                   rtcVars, boundVars>>

----------------------------------------------------------------------------
(* Clients: submit_command.                                                *)

\* The snapshot shows no fault.  A client that sees one is turned away and
\* changes nothing but a statistic.
SubmitCheck(c) ==
    /\ initialized /\ c \notin submitting /\ ~snapshot.fault
    /\ submitting' = submitting \cup {c}
    /\ UNCHANGED <<actorVars, pins, timeVars, sharedVars, holder, waited, rtcVars, boundVars>>

\* Mutant: the flag is not looked at inside the critical section.
AcceptsAlways == TRUE

AcceptsCommands == ~maintenance

\* The critical section: a new sequence number, and the mailbox is overwritten.
Submit(c, command) ==
    /\ c \in submitting /\ AcceptsCommands
    /\ sequence' = NextSequence(sequence)
    /\ mailbox' = [action |-> command.action, speed |-> command.speed,
                   cancel |-> command.cancel, seq |-> NextSequence(sequence)]
    /\ submitting' = submitting \ {c}
    /\ UNCHANGED <<actorVars, pins, timeVars, maintenance, quiesced, initialized, holder,
                   waited, rtcVars, boundVars>>

\* The critical section during maintenance: ESP_ERR_NOT_ALLOWED.
SubmitRefused(c) ==
    /\ c \in submitting /\ ~AcceptsCommands
    /\ submitting' = submitting \ {c}
    /\ UNCHANGED <<actorVars, pins, timeVars, sharedVars, holder, waited, rtcVars, boundVars>>

----------------------------------------------------------------------------
(* Maintainers: fan_control_quiesce and fan_control_end_maintenance.       *)

\* The critical section of fan_control_quiesce.
Quiesce(m) ==
    /\ initialized /\ holder[m] = "idle"
    /\ maintenance' = TRUE
    /\ mailbox' = NoCommand
    /\ holder' = [holder EXCEPT ![m] = "waiting"]
    /\ waited' = [waited EXCEPT ![m] = 0]
    /\ UNCHANGED <<actorVars, pins, timeVars, sequence, quiesced, initialized, submitting,
                   rtcVars, boundVars>>

\* EVENT_QUIESCED is, or was already, set: ESP_OK.
QuiesceGranted(m) ==
    /\ holder[m] = "waiting" /\ quiesced
    /\ holder' = [holder EXCEPT ![m] = "holding"]
    /\ waited' = [waited EXCEPT ![m] = 0]
    /\ UNCHANGED <<actorVars, pins, timeVars, sharedVars, submitting, rtcVars, boundVars>>

WaitOver(m) == waited[m] >= QuiesceTicks

\* The wait ran out: end maintenance, ESP_ERR_TIMEOUT.
QuiesceTimeout(m) ==
    /\ holder[m] = "waiting" /\ ~quiesced /\ WaitOver(m)
    /\ maintenance' = FALSE
    /\ holder' = [holder EXCEPT ![m] = "idle"]
    /\ waited' = [waited EXCEPT ![m] = 0]
    /\ UNCHANGED <<actorVars, pins, timeVars, mailbox, sequence, quiesced, initialized,
                   submitting, rtcVars, boundVars>>

\* The flag is cleared for everyone: it has no owner.
EndMaintenance(m) ==
    /\ holder[m] = "holding"
    /\ maintenance' = FALSE
    /\ holder' = [holder EXCEPT ![m] = "idle"]
    /\ UNCHANGED <<actorVars, pins, timeVars, mailbox, sequence, quiesced, initialized,
                   submitting, waited, rtcVars, boundVars>>

----------------------------------------------------------------------------
ActorStep ==
    \/ BootInit \/ BootFinish(TRUE) \/ BootFinish(FALSE)
    \/ CycleStart \/ ReceiveCommand \/ ReceiveNothing
    \/ Disable \/ SetAddressA1 \/ SetAddressA2 \/ Enable
    \/ Abort \/ LatchFault \/ CycleFinish

ClientStep(c) ==
    \/ SubmitCheck(c)
    \/ \E command \in Commands : Submit(c, command)
    \/ SubmitRefused(c)

MaintainerStep(m) ==
    Quiesce(m) \/ QuiesceGranted(m) \/ QuiesceTimeout(m) \/ EndMaintenance(m)

Next ==
    \/ ActorStep
    \/ Tick
    \/ PanicReset \/ WarmReset \/ PowerOn
    \/ \E c \in Clients : ClientStep(c)
    \/ \E m \in Maintainers : MaintainerStep(m)

\* The actor outranks every other task and the tick interrupt always comes; a
\* wait on the event group returns; a panic always restarts the chip.  Nobody is
\* obliged to submit, to quiesce or to release.
Fairness ==
    /\ WF_vars(ActorStep) /\ WF_vars(Tick) /\ WF_vars(PanicReset)
    /\ \A m \in Maintainers : WF_vars(QuiesceGranted(m) \/ QuiesceTimeout(m))

Spec == Init /\ [][Next]_vars /\ Fairness

----------------------------------------------------------------------------
(* Properties.                                                             *)

\* Every variable keeps its type.
TypeOK ==
    /\ state \in SnapshotT /\ snapshot \in SnapshotT /\ pc \in PCs /\ maint \in BOOLEAN
    /\ pins \in PinsT
    /\ mailbox \in MessageT \cup {NoCommand} /\ sequence \in Seqs
    /\ maintenance \in BOOLEAN /\ quiesced \in BOOLEAN /\ initialized \in BOOLEAN
    /\ now \in Ticks /\ lastWake \in Ticks /\ started \in Ticks /\ age \in 0 .. TickMod
    /\ submitting \subseteq Clients
    /\ holder \in [Maintainers -> {"idle", "waiting", "holding"}]
    /\ waited \in [Maintainers -> 0 .. QuiesceTicks]
    /\ retained \in BOOLEAN /\ everLatched \in BOOLEAN
    /\ failures \in 0 .. MaxFailures /\ resets \in 0 .. MaxResets

MotorOn == pins.e3 = 1

\* EVENT_QUIESCED, which fan_control_quiesce trusts even when it was set long
\* before the call, never stands while E3 is high or a fault is latched.
QuiescedMeansOff == quiesced => ~MotorOn /\ ~state.fault /\ state.applied = OFF

\* A task that fan_control_quiesce told ESP_OK, and that has not ended maintenance,
\* has a motor that is off.
HolderHasMotorOff == \A m \in Maintainers : holder[m] = "holding" => ~MotorOn

\* A command accepted before maintenance does not wait in the mailbox for its
\* end: the mailbox is empty as long as the flag is set.
NoReplayAfterMaintenance == maintenance => mailbox = NoCommand

\* Between two cycles of a healthy actor the energised output is the one of the
\* speed that the snapshot reports, and every accepted command is settled.
SnapshotTellsTheOutput ==
    pc = "sleep" /\ ~snapshot.fault =>
        /\ MotorOn <=> snapshot.applied # OFF
        /\ MotorOn => 2 * pins.a1 + 4 * pins.a2 = OutputMap[snapshot.applied]
        /\ snapshot.desired = snapshot.applied
        /\ snapshot.accepted = snapshot.appliedSeq

\* The address pins move only while E3 holds every output off, so no winding is
\* energised on the way from one speed to another.  (A reset releases all pins.)
BreakBeforeMake ==
    [][<<pins'.a1, pins'.a2>> # <<pins.a1, pins.a2>>
        => pins'.e3 = 0 /\ (MotorOn => pc' = "boot")]_vars

\* One GPIO write that fails never leaves the motor on behind a latched fault.
OneFailureStopsMotor == failures <= 1 /\ snapshot.fault => ~MotorOn

\* A valid retained marker keeps E3 from rising, whatever command comes and
\* however often the chip is reset.
RetainedFaultKeepsMotorOff ==
    [][~MotorOn /\ pins'.e3 = 1 => ~retained /\ ~maint /\ state.desired # OFF]_vars

\* "A fan driver fault intentionally survives reset-button, software, watchdog,
\* and panic resets. Only an actual cold boot clears it."  (diagnostics.c:193)
FaultSurvivesReset == everLatched /\ initialized => state.fault

\* A running timer has a fan to shut off, and does so in the cycle of the tick in which
\* the duration of its mode ends, also when the tick counter wraps in between.
ShutoffOnTime ==
    /\ state.active => state.mode # ALWAYS_ON /\ state.desired # OFF
    /\ pc = "sleep" /\ now = lastWake /\ state.active => age < Durations[state.mode]

\* The timer turns the fan off no earlier than its duration.
NoEarlyShutoff ==
    [][pc = "receive" /\ initialized' /\ mailbox = NoCommand
       /\ state.desired # OFF /\ state'.desired = OFF
        => age - ((now - lastWake) % TickMod) >= Durations[state.mode]]_vars

\* A lone maintainer that waits is granted the fan before its timeout, unless a
\* fault is latched: the timeout never hits a healthy actor.
TimeoutMeansFault ==
    [][\A m \in Maintainers :
        holder[m] = "waiting" /\ holder'[m] = "idle" /\ initialized' => state.fault]_vars

\* A command that was accepted is applied and published, unless a newer command,
\* maintenance, a fault or a reset takes its place.
CommandSettles ==
    \A s \in Seqs \ {0} :
        (sequence = s /\ mailbox.seq = s) ~>
            \/ snapshot.appliedSeq = s
            \/ sequence # s \/ maintenance \/ snapshot.fault \/ ~initialized

----------------------------------------------------------------------------
(* The inductive invariant behind the safety properties, in named parts.   *)

\* The pins never say more than the actor knows: a healthy actor that believes the
\* fan is off has E3 low, and E3 is low while the address changes.
MotorInv ==
    /\ state.applied = OFF /\ ~state.fault => pins.e3 = 0
    /\ pc \in {"addressA1", "addressA2", "enable"} =>
            pins.e3 = 0 /\ state.desired # OFF

\* A latched fault, and the cycle's view of the maintenance flag, leave no speed to
\* go to; the marker in RTC memory is never ahead of the actor once it has booted.
FaultInv ==
    /\ state.fault => state.desired = OFF
    /\ maint /\ pc # "sleep" => state.desired = OFF
    /\ retained /\ pc # "boot" => state.fault
    /\ pc = "latch" => state.fault
    /\ pc = "boot" => state = BootState

\* EVENT_QUIESCED stands only between and in cycles that stay in maintenance.
QuiesceInv ==
    quiesced =>
        /\ ~state.fault /\ state.applied = OFF /\ state.status # "STARTING"
        /\ pc \in {"sleep", "receive", "finish"}
        /\ pc # "sleep" => maint /\ state.desired = OFF

SafetyInv == MotorInv /\ FaultInv /\ QuiesceInv /\ NoReplayAfterMaintenance

\* With one maintainer the flag stands from its quiesce to its end_maintenance,
\* and the event bit from the grant on.
HolderInv ==
    \A m \in Maintainers :
        /\ holder[m] # "idle" => maintenance
        /\ holder[m] = "holding" => quiesced
=============================================================================
