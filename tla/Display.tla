------------------------------- MODULE Display -------------------------------
(***************************************************************************)
(* The panel that the user sees and the keys that are not the fan's:       *)
(* main/controller.c with components/leds/leds.c, the LED part of the main *)
(* loop, and its setup sequence (main/main.c).                             *)
(*                                                                         *)
(* The main task shows the fan's published state, dims the LEDs and        *)
(* recovers the LED driver.  Network status changes come from the main and *)
(* the HTTP task.  A mutex guards the state; it is held over the read of   *)
(* the snapshot, which is what SnapshotRegister promises.  Every LED write *)
(* may fail; what was written before stays.                                *)
(*                                                                         *)
(* Left out: the debounce of 150 ms, which the recognizer's 160 ms between *)
(* two keys (TouchPanel) makes idle, and keys dropped during an update.    *)
(***************************************************************************)
EXTENDS SnapshotRegister, Naturals, Sequences

CONSTANTS
    Keys,               \* the keys that are pressed, a subset of 1 .. 6
    Statuses,           \* the network statuses that occur, a subset of AllStatuses
    Wake,               \* LED_WAKE_DURATION_MS, in ticks
    SequenceTimeout,    \* SETUP_SEQUENCE_TIMEOUT_MS, in ticks
    MaxFailures,        \* bound: LED and PWM calls that fail
    MaxPublish          \* bound: publications of the fan actor

AllStatuses == {"OFFLINE", "CONNECTING", "PROVISIONING", "CONNECTED", "UPDATING"}
Blinking    == {"CONNECTING", "PROVISIONING", "UPDATING"}

ASSUME KeysAssumption == Keys \subseteq 1 .. 6 /\ Statuses \subseteq AllStatuses
ASSUME TimesAssumption == Wake \in Nat \ {0} /\ SequenceTimeout \in Nat \ {0}
ASSUME FailuresAssumption == MaxFailures \in Nat /\ MaxPublish \in Nat
ASSUME ReaderAssumption == Readers = {"main"}
\* The values of fan_speed_t, and of fan_shutoff_mode_t with ALWAYS_ON as 0.
ASSUME SnapshotsAssumption ==
    Snapshots \subseteq [speed : 0 .. 4, timer : 0 .. 3, fault : BOOLEAN]

VARIABLES
    pc,             \* the main task: boot, loop, or why it reads the snapshot
    available,      \* s_led_available
    lit,            \* the LEDs that are connected to the PWM signal
    pwm,            \* the duty, named by its brightness level
    rendered,       \* rendered_speed, rendered_timer, rendered_fault
    brightness,     \* led_brightness
    waking,         \* brightness_wake_active
    wakeAge,        \* ticks since last_non_dimmer_touch_tick, up to Wake
    status,         \* network_status
    visible,        \* network_led_visible
    position,       \* of service_setup_sequence
    startedAge,     \* ticks since started, up to SequenceTimeout + 1
    unfinished,     \* what was noted as shown when the last rendering was cut short (history)
    netFailed,      \* the last write of the network LED failed or was not made (history)
    pwmFailed,      \* the last PWM write failed (history)
    threads,        \* the attempts at the setup sequence that the keys make (history)
    failures, publications

panelVars == <<available, lit, rendered, unfinished, netFailed>>
dimVars   == <<pwm, brightness, waking, wakeAge, pwmFailed>>
netVars   == <<status, visible>>
setupVars == <<position, startedAge, threads>>
vars == <<registerVars, pc, panelVars, dimVars, netVars, setupVars, failures, publications>>

\* LED_BRIGHTNESS_HIGH, MEDIUM, LOW and OFF.
HIGH   == 0
DARK   == 3
Levels == 0 .. 3

LEDs        == 1 .. 9
NETWORK_LED == 2
FanLed      == <<7, 4, 1, 8>>
TimerLed    == <<9, 6, 3>>          \* 2, 4 and 8 hours; ALWAYS_ON is 0

NotRendered == [speed |-> 5, timer |-> 4, fault |-> FALSE]

Init ==
    /\ RegisterInit /\ published.speed = 0
    /\ pc = "boot" /\ available = FALSE /\ lit = {} /\ pwm = DARK
    /\ rendered = NotRendered
    /\ brightness = HIGH /\ waking = FALSE /\ wakeAge = 0
    /\ status = "OFFLINE" /\ visible = FALSE
    /\ position = 0 /\ startedAge = 0 /\ threads = {}
    /\ unfinished = {} /\ netFailed = FALSE /\ pwmFailed = FALSE
    /\ failures = 0 /\ publications = 0

Fails == failures < MaxFailures /\ failures' = failures + 1

\* leds_set_pwm_value, if there are LEDs.
PwmSet(level) ==
    IF available THEN pwm' = level /\ pwmFailed' = FALSE ELSE UNCHANGED <<pwm, pwmFailed>>

PwmFails == available /\ Fails /\ pwmFailed' = TRUE /\ UNCHANGED pwm

ApplyBrightness(level) == (PwmSet(level) /\ UNCHANGED failures) \/ PwmFails

----------------------------------------------------------------------------
(* render_status_leds_locked.                                              *)

\* What a rendering turns on: nothing for a fan that is off or has a fault.
LedsFor(fan) ==
    IF fan.speed = 0 \/ fan.fault THEN {}
    ELSE {FanLed[fan.speed]} \cup IF fan.timer = 0 THEN {} ELSE {TimerLed[fan.timer]}

NetworkLed(on) == IF on THEN {NETWORK_LED} ELSE {}

\* The LEDs when it stops early: some of them turned off in their order, or all of
\* them off and the fan's on.
Interrupted(fan) ==
    {lit \ (1 .. n) : n \in 0 .. 9} \cup
    (IF LedsFor(fan) = {} THEN {} ELSE {{FanLed[fan.speed]}})

\* Mutant: what is shown is noted before the LEDs are written.
NotedAlways(fan) == fan

\* rendered_* after a rendering that failed before its last write.
NotedAfterFailure(fan) == rendered

\* Mutant: the LEDs are not turned off first.
NotCleared == lit \ {NETWORK_LED}

\* What is left of the LEDs when all are turned off.
Cleared == {}

NetworkLedAgain == NetworkLed(visible)

\* The last write, of the network LED, comes after rendered_* is set.
Render(fan) ==
    \/ /\ ~available
       /\ rendered' = fan
       /\ UNCHANGED <<lit, unfinished, netFailed, failures>>
    \/ /\ available
       /\ lit' = Cleared \cup LedsFor(fan) \cup NetworkLedAgain
       /\ rendered' = fan /\ unfinished' = {} /\ netFailed' = FALSE
       /\ UNCHANGED failures
    \/ /\ available /\ Fails
       /\ lit' = Cleared \cup LedsFor(fan)
       /\ rendered' = fan /\ unfinished' = {} /\ netFailed' = TRUE
    \/ /\ available /\ Fails
       /\ lit' \in Interrupted(fan)
       /\ rendered' = NotedAfterFailure(fan) /\ unfinished' = {rendered} /\ netFailed' = TRUE

----------------------------------------------------------------------------
(* The LED driver: at boot and, while it is absent, when led_retry is due. *)

\* Mutant: the LEDs come back bright.
RecoversHigh == HIGH

RecoveredLevel == brightness

\* leds_init succeeds; controller_init or controller_set_led_available sets the
\* brightness and reads the snapshot.
LedsStart ==
    /\ pc \in {"boot", "loop"} /\ ~available
    /\ available' = TRUE /\ lit' = {}
    /\ \/ pwm' = RecoveredLevel /\ pwmFailed' = FALSE /\ UNCHANGED failures
       \/ Fails /\ pwm' = DARK /\ pwmFailed' = TRUE
    /\ pc' = IF pc = "boot" THEN "init" ELSE "available"
    /\ ReadStarts("main")
    /\ UNCHANGED <<publications, rendered, unfinished, netFailed, brightness, waking, wakeAge,
                   netVars, setupVars>>

\* leds_init fails; at boot controller_init still reads the snapshot.
LedsFail ==
    /\ pc \in {"boot", "loop"} /\ ~available /\ Fails
    /\ IF pc = "boot" THEN pc' = "init" /\ ReadStarts("main")
       ELSE UNCHANGED <<pc, registerVars>>
    /\ UNCHANGED <<publications, panelVars, dimVars, netVars, setupVars>>

\* Rendered whatever it was before; without a snapshot the LEDs stay off.
LedsShown ==
    /\ pc \in {"init", "available"}
    /\ \/ phase["main"] = "ok" /\ Render(result["main"])
       \/ /\ phase["main"] = "timeout"
          /\ unfinished' = (IF available THEN {rendered} ELSE {}) /\ netFailed' = available
          /\ UNCHANGED <<lit, rendered, failures>>
    /\ ReadDone("main") /\ pc' = "loop"
    /\ UNCHANGED <<publications, available, dimVars, netVars, setupVars>>

----------------------------------------------------------------------------
(* controller_service.                                                     *)

WakeOver == waking /\ wakeAge >= Wake

\* service_led_wake_locked
EndWake ==
    IF WakeOver THEN waking' = FALSE /\ PwmSet(brightness)
    ELSE UNCHANGED <<waking, pwm, pwmFailed>>

ServiceFrame == <<publications, available, rendered, unfinished, brightness, wakeAge, status,
                  setupVars>>

\* The PWM write fails and ends the pass; the wake is over nevertheless.
WakeEndFails ==
    /\ pc = "loop" /\ WakeOver
    /\ waking' = FALSE /\ PwmFails
    /\ UNCHANGED <<registerVars, pc, lit, netFailed, visible, ServiceFrame>>

\* service_network_led_locked: the write fails and ends the pass.
BlinkFails ==
    /\ pc = "loop" /\ status \in Blinking /\ available
    /\ EndWake
    /\ visible' = ~visible /\ Fails /\ netFailed' = TRUE
    /\ UNCHANGED <<registerVars, pc, lit, ServiceFrame>>

WriteNetworkLed ==
    IF available
    THEN /\ lit' = (lit \ {NETWORK_LED}) \cup NetworkLed(visible')
         /\ netFailed' = FALSE
    ELSE UNCHANGED <<lit, netFailed>>

\* The LED is toggled when its time has come, and the snapshot is read.
ServiceStarts ==
    /\ pc = "loop"
    /\ EndWake
    /\ \/ UNCHANGED <<visible, lit, netFailed>>
       \/ status \in Blinking /\ visible' = ~visible /\ WriteNetworkLed
    /\ ReadStarts("main") /\ pc' = "service"
    /\ UNCHANGED <<failures, ServiceFrame>>

Changed(fan) == fan # rendered

\* A snapshot that differs from what is shown is rendered.
ServiceEnds ==
    /\ pc = "service"
    /\ \/ phase["main"] = "ok" /\ Changed(result["main"]) /\ Render(result["main"])
       \/ /\ phase["main"] = "timeout" \/ (phase["main"] = "ok" /\ ~Changed(result["main"]))
          /\ UNCHANGED <<lit, rendered, unfinished, netFailed, failures>>
    /\ ReadDone("main") /\ pc' = "loop"
    /\ UNCHANGED <<publications, available, dimVars, netVars, setupVars>>

----------------------------------------------------------------------------
(* controller_set_network_status, called by the HTTP and the main task.    *)

VisibleFor(s) == s # "OFFLINE"

SetNetworkStatus(s) ==
    /\ pc = "loop" /\ s # status
    /\ status' = s /\ visible' = VisibleFor(s)
    /\ \/ WriteNetworkLed /\ UNCHANGED failures
       \/ available /\ Fails /\ netFailed' = TRUE /\ UNCHANGED lit
    /\ UNCHANGED <<registerVars, publications, pc, available, rendered, unfinished, dimVars,
                   setupVars>>

----------------------------------------------------------------------------
(* A key: controller_handle_key, then service_setup_sequence.              *)

DimmerKey == 3
FanKeys   == {1, 2, 6}

NextLevel == (brightness + 1) % 4

Dim ==
    /\ brightness' = NextLevel /\ waking' = FALSE
    /\ ApplyBrightness(NextLevel)
    /\ UNCHANGED wakeAge

\* wake_led_brightness_locked
WakeLeds ==
    IF brightness = HIGH THEN UNCHANGED <<dimVars, failures>>
    ELSE /\ waking' = TRUE /\ wakeAge' = 0
         /\ ApplyBrightness(HIGH)
         /\ UNCHANGED brightness

Sequence == <<4, 5, 4, 5>>

\* Mutant: a wrong key is never the first key of another attempt.
PositionFromScratch(p, key) == IF key = Sequence[p + 1] THEN p + 1 ELSE 0

\* The position after a key, 4 when the sequence is complete.
PositionAfter(p, key) ==
    IF key = Sequence[p + 1] THEN p + 1 ELSE IF key = Sequence[1] THEN 1 ELSE 0

Late == position # 0 /\ startedAge > SequenceTimeout

\* The reference, which knows nothing of the position: every 4 begins an attempt, and an
\* attempt goes on with every key that comes in its own time and is its next one.  It is
\* alone if no other goes on when it begins.
GoingOn(key) ==
    {[t EXCEPT !.length = @ + 1] :
        t \in {u \in threads : u.age <= SequenceTimeout /\ key = Sequence[u.length + 1]}}

ThreadsAfter(key) ==
    GoingOn(key) \cup
    (IF key = Sequence[1]
     THEN {[length |-> 1, age |-> 0, alone |-> GoingOn(key) = {}]} ELSE {})

\* A late key starts over.  (The keys that opened the window belong to no other attempt.)
SetupSequence(key) ==
    LET from == IF Late THEN 0 ELSE position
        to   == PositionAfter(from, key)
    IN  /\ position' = to % 4
        /\ startedAge' = IF to = 1 \/ to % 4 = 0 THEN 0 ELSE startedAge
        /\ threads' = IF to = 4 THEN {} ELSE {t \in ThreadsAfter(key) : t.length < 4}

\* A refused fan command (a fault, maintenance) does not wake the LEDs.
HandleKey(key) ==
    /\ pc = "loop"
    /\ \/ key = DimmerKey /\ Dim
       \/ key # DimmerKey /\ WakeLeds
       \/ key \in FanKeys /\ UNCHANGED <<dimVars, failures>>
    /\ SetupSequence(key)
    /\ UNCHANGED <<registerVars, publications, pc, panelVars, netVars>>

----------------------------------------------------------------------------
Tick ==
    /\ wakeAge' = IF waking /\ wakeAge < Wake THEN wakeAge + 1 ELSE wakeAge
    /\ startedAge' = IF position # 0 /\ startedAge <= SequenceTimeout
                     THEN startedAge + 1 ELSE startedAge
    /\ threads' = {[t EXCEPT !.age = IF @ <= SequenceTimeout THEN @ + 1 ELSE @] : t \in threads}
    /\ UNCHANGED <<registerVars, publications, pc, panelVars, pwm, brightness, waking, pwmFailed,
                   netVars, position, failures>>

OthersUnchanged == UNCHANGED <<pc, panelVars, dimVars, netVars, setupVars, failures>>

FanStarts ==
    /\ publications < MaxPublish /\ publications' = publications + 1
    /\ PublishStarts /\ OthersUnchanged

FanPublishes ==
    /\ \E s \in Snapshots : PublishEnds(s)
    /\ OthersUnchanged /\ UNCHANGED publications

ReadSnapshot ==
    /\ ReadReturns("main") \/ ReadGivesUp("main")
    /\ OthersUnchanged /\ UNCHANGED publications

Service ==
    LedsShown \/ WakeEndFails \/ BlinkFails \/ ServiceStarts \/ ReadSnapshot \/ ServiceEnds

Next ==
    \/ LedsStart \/ LedsFail \/ Service \/ FanStarts \/ FanPublishes \/ Tick
    \/ \E s \in Statuses : SetNetworkStatus(s)
    \/ \E key \in Keys : HandleKey(key)

\* The main loop goes round and, on its way, retries the LEDs; the actor ends what it
\* publishes and time passes.
Fairness ==
    /\ SF_vars(LedsStart) /\ WF_vars(Service)
    /\ WF_vars(FanPublishes) /\ WF_vars(Tick)

Spec == Init /\ [][Next]_vars /\ Fairness

----------------------------------------------------------------------------
(* Properties.                                                             *)

\* An attempt at the setup sequence that has not come to its end.
ThreadT == [length : 1 .. 3, age : 0 .. SequenceTimeout + 1, alone : BOOLEAN]

\* Every variable keeps its type.
TypeOK ==
    /\ RegisterTypeOK
    /\ pc \in {"boot", "loop", "init", "available", "service"}
    /\ available \in BOOLEAN /\ lit \subseteq LEDs /\ pwm \in Levels
    /\ rendered \in Snapshots \cup {NotRendered}
    /\ brightness \in Levels /\ waking \in BOOLEAN /\ wakeAge \in 0 .. Wake
    /\ status \in AllStatuses /\ visible \in BOOLEAN
    /\ position \in 0 .. 3 /\ startedAge \in 0 .. SequenceTimeout + 1
    /\ threads \subseteq ThreadT
    /\ unfinished \subseteq Snapshots \cup {NotRendered}
    /\ netFailed \in BOOLEAN /\ pwmFailed \in BOOLEAN
    /\ failures \in 0 .. MaxFailures /\ publications \in 0 .. MaxPublish

\* What the panel shows when nothing of it is being written.
Idle == pc = "loop" /\ available

\* The panel is what the controller believes to show, after every recovery of the driver
\* and every failed write: the fan's LEDs unless the last rendering was not completed,
\* and the network LED, which a rendering turns off with the others, unless its own last
\* write failed.
PanelShowsRendered ==
    Idle =>
        /\ unfinished = {} => lit \ {NETWORK_LED} = LedsFor(rendered)
        /\ ~netFailed /\ status = "CONNECTED" => NETWORK_LED \in lit
        /\ ~netFailed /\ status = "OFFLINE" => NETWORK_LED \notin lit

\* "temporarily sets LEDs to High for three seconds ... then restores the intended
\* brightness" (README.md:277): the duty is that of the intended level, or high while
\* a touch is recent; a driver that recovers has it too.
BrightnessHonoured ==
    Idle /\ ~pwmFailed => pwm = brightness \/ (waking /\ pwm = HIGH)

\* What is noted as shown is the fan's state in the end, and a rendering that was cut
\* short is repeated, unless that is what was noted before it already: the service sees
\* no change then, and the LEDs stay as the failure left them until the fan changes.  So
\* it is when the fan goes back to the state shown before, and in a recovery of the LED
\* driver that is cut short (controller.c:180) or finds no snapshot (179), as rendered_*
\* has followed the fan without the LEDs (76-79).
PanelFollowsFan == <>[](rendered = published /\ unfinished \subseteq {published})

\* The position in the setup sequence is that of an attempt which the keys made, timed
\* from its first key, and an attempt that was alone when it began is the one followed:
\* neither a wrong key nor an attempt that came too late hides its first key.  An attempt
\* that began inside another may be lost: "tapping keys 4, 5, 4, 5 within ten seconds
\* opens a ten-minute physical maintenance window" (README.md:91), but not after 4, 5 whose
\* ten seconds end between these four keys, as the late one forgets the 4 before it.
SetupFollowsKeys ==
    /\ position # 0 => \E t \in threads : t.length = position /\ t.age = startedAge
    /\ \A t \in threads : t.alone => t.length = position /\ t.age = startedAge
=============================================================================
