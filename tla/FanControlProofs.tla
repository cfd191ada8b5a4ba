-------------------------- MODULE FanControlProofs --------------------------
(***************************************************************************)
(* Proofs about FanControl for any sets of clients, maintainers and        *)
(* commands, any counter widths, any number of GPIO failures and resets.   *)
(***************************************************************************)
EXTENDS FanControl, TLAPS

(* Facts about the rules of FanPolicy.                                     *)

\* A sequence number stays in range and is never 0, the number of no command.
LEMMA NextSequenceType == \A s \in Seqs : NextSequence(s) \in Seqs \ {0}
BY SeqMaxAssumption DEF NextSequence, Seqs

\* The tick counter stays in range when it is incremented, and the difference of
\* two ticks is a tick.
LEMMA TickType == \A x \in Int : x % TickMod \in Ticks
BY TickModAssumption DEF Ticks

\* The speed rules return speeds.
LEMMA SpeedType ==
    \A s \in Speeds : NextNormalSpeed(s) \in Speeds /\ ToggleTurbo(s) \in Speeds
BY DEF NextNormalSpeed, ToggleTurbo, Speeds, OFF, TURBO

\* The address bits are levels.
LEMMA BitType == \A s \in Speeds : BitA1(s) \in 0 .. 1 /\ BitA2(s) \in 0 .. 1
BY DEF BitA1, BitA2, OutputMap, Speeds, OFF

(* Facts about the operators on the actor's state.                         *)

\* A field of the actor's state may be given any value of its type.
LEMMA UpdateType ==
    ASSUME NEW s \in SnapshotT
    PROVE  /\ \A v \in Speeds : /\ [s EXCEPT !.desired = v] \in SnapshotT
                                /\ [s EXCEPT !.applied = v] \in SnapshotT
           /\ \A v \in Seqs : /\ [s EXCEPT !.accepted = v] \in SnapshotT
                              /\ [s EXCEPT !.appliedSeq = v] \in SnapshotT
           /\ \A v \in Modes : [s EXCEPT !.mode = v] \in SnapshotT
           /\ \A v \in BOOLEAN : /\ [s EXCEPT !.active = v] \in SnapshotT
                                 /\ [s EXCEPT !.fault = v] \in SnapshotT
           /\ \A v \in {"STARTING", "READY", "MAINTENANCE", "FAULT_LATCHED"} :
                    [s EXCEPT !.status = v] \in SnapshotT
BY DEF SnapshotT

\* The timer operators keep the type of the actor's state.
LEMMA CancelTimerType == \A s \in SnapshotT : CancelTimer(s) \in SnapshotT
<1> TAKE s \in SnapshotT
<1>1. CancelTimer(s) = [[s EXCEPT !.mode = ALWAYS_ON] EXCEPT !.active = FALSE]
    BY DEF CancelTimer, SnapshotT
<1>2. ALWAYS_ON \in Modes
    BY DEF ALWAYS_ON, Modes
<1>3. [s EXCEPT !.mode = ALWAYS_ON] \in SnapshotT
    BY <1>2, UpdateType
<1> QED BY <1>1, <1>3, UpdateType

\* The timer button keeps the type of the actor's state.
LEMMA CycleTimerType == \A s \in SnapshotT : CycleTimer(s) \in SnapshotT
<1> TAKE s \in SnapshotT
<1> DEFINE next == (s.mode + 1) % 4
           t    == [s EXCEPT !.mode = next]
<1>1. next \in Modes /\ (next # ALWAYS_ON) \in BOOLEAN
    BY DEF SnapshotT, Modes
<1> HIDE DEF next
<1>2. t \in SnapshotT
    BY <1>1, UpdateType
<1>3. [s EXCEPT !.mode = next, !.active = (next # ALWAYS_ON)]
        = [t EXCEPT !.active = (next # ALWAYS_ON)]
    BY DEF SnapshotT
<1>4. [t EXCEPT !.active = (next # ALWAYS_ON)] \in SnapshotT
    BY <1>1, <1>2, UpdateType
<1> QED BY <1>3, <1>4 DEF CycleTimer, next

\* So does the cancellation by a command that turns the fan off.
LEMMA OffCancelsTimerType == \A s \in SnapshotT : OffCancelsTimer(s) \in SnapshotT
BY CancelTimerType DEF OffCancelsTimer

\* Interpreting a message keeps the type of the actor's state.
LEMMA InterpretType ==
    \A s \in SnapshotT, c \in MessageT : InterpretCommand(s, c) \in SnapshotT
<1> SUFFICES ASSUME NEW s \in SnapshotT, NEW c \in MessageT
             PROVE  InterpretCommand(s, c) \in SnapshotT
    OBVIOUS
<1> DEFINE a == [s EXCEPT !.accepted = c.seq]
<1>1. a \in SnapshotT /\ s.desired \in Speeds /\ c.speed \in Speeds /\ c.seq \in Seqs
    BY DEF SnapshotT, MessageT
<1>2. \A v \in Speeds : [a EXCEPT !.desired = v] \in SnapshotT
    BY <1>1 DEF SnapshotT
<1>3. [CycleTimer(a) EXCEPT !.appliedSeq = c.seq] \in SnapshotT
    BY <1>1, CycleTimerType DEF SnapshotT
<1> HIDE DEF a
<1>4. CASE c.action = "CYCLE_NORMAL"
    BY <1>1, <1>2, <1>4, SpeedType, OffCancelsTimerType DEF InterpretCommand, a
<1>5. CASE c.action = "TOGGLE_TURBO"
    BY <1>1, <1>2, <1>5, SpeedType, OffCancelsTimerType DEF InterpretCommand, a
<1>6. CASE c.action = "CYCLE_TIMER"
    BY <1>3, <1>6 DEF InterpretCommand, a
<1>7. CASE c.action \notin {"CYCLE_NORMAL", "TOGGLE_TURBO", "CYCLE_TIMER"}
    BY <1>1, <1>2, <1>7, CancelTimerType, OffCancelsTimerType DEF InterpretCommand, a
<1> QED BY <1>4, <1>5, <1>6, <1>7

\* The shutoff keeps the type of the actor's state.
LEMMA ExpireTimerType ==
    \A s \in SnapshotT, since \in Ticks : ExpireTimer(s, since) \in SnapshotT
<1> TAKE s \in SnapshotT, since \in Ticks
<1>1. [s EXCEPT !.desired = OFF] \in SnapshotT
    BY DEF SnapshotT, Speeds, OFF
<1> QED BY <1>1, CancelTimerType DEF ExpireTimer

\* So do the two ways of settling a command.
LEMMA SettledType ==
    \A s \in SnapshotT :
        SettleDuplicate(s) \in SnapshotT /\ Committed(s) \in SnapshotT
BY DEF SettleDuplicate, Committed, SnapshotT

\* So does a failed transition.
LEMMA FailedType == \A s \in SnapshotT : Failed(s) \in SnapshotT
<1> TAKE s \in SnapshotT
<1> DEFINE st == IF s.status = "STARTING" THEN s.status ELSE "FAULT_LATCHED"
           a  == [s EXCEPT !.applied = OFF]
           d  == [a EXCEPT !.desired = OFF]
           f  == [d EXCEPT !.fault = TRUE]
           g  == [f EXCEPT !.status = st]
<1>1. OFF \in Speeds /\ st \in {"STARTING", "FAULT_LATCHED"}
    BY DEF OFF, Speeds
<1>2. Failed(s) = CancelTimer(g)
    BY DEF Failed, SnapshotT
<1> HIDE DEF st
<1>3. d \in SnapshotT
    <2>1. a \in SnapshotT BY <1>1, UpdateType
    <2> QED BY <1>1, <2>1, UpdateType
<1>4. g \in SnapshotT
    <2>1. f \in SnapshotT BY <1>3, UpdateType
    <2> QED BY <1>1, <2>1, UpdateType
<1> QED BY <1>2, <1>4, CancelTimerType

----------------------------------------------------------------------------
(* Type correctness.                                                       *)

\* Writing a pin, or failing to, keeps the types.
LEMMA GpioType ==
    ASSUME TypeOK
    PROVE  /\ \A pin \in {"e3", "a1", "a2"}, level \in 0 .. 1 :
                GpioSet(pin, level) => pins' \in PinsT /\ failures' \in 0 .. MaxFailures
           /\ GpioFails => pins' \in PinsT /\ failures' \in 0 .. MaxFailures
<1>1. pins \in PinsT /\ failures \in 0 .. MaxFailures BY DEF TypeOK
<1>2. \A pin \in {"e3", "a1", "a2"}, level \in 0 .. 1 : [pins EXCEPT ![pin] = level] \in PinsT
    BY <1>1 DEF PinsT
<1>3. \A pin \in {"e3", "a1", "a2"}, level \in 0 .. 1 :
          GpioSet(pin, level) => pins' \in PinsT /\ failures' \in 0 .. MaxFailures
    BY <1>1, <1>2 DEF GpioSet
<1>4. GpioFails => pins' \in PinsT /\ failures' \in 0 .. MaxFailures
    BY <1>1, BoundsAssumption DEF GpioFails
<1> QED BY <1>3, <1>4

\* What a boot starts from is well typed.
LEMMA BootType ==
    /\ BootState \in SnapshotT /\ "boot" \in PCs /\ PinsInReset \in PinsT
    /\ 0 \in Seqs /\ 0 \in Ticks /\ 0 \in 0 .. TickMod
    /\ 0 \in 0 .. MaxFailures /\ 0 \in 0 .. MaxResets
    /\ [m \in Maintainers |-> "idle"] \in [Maintainers -> {"idle", "waiting", "holding"}]
    /\ [m \in Maintainers |-> 0] \in [Maintainers -> 0 .. QuiesceTicks]
<1>1. BootState \in SnapshotT
    BY SeqMaxAssumption DEF BootState, SnapshotT, Speeds, Seqs, Modes, OFF, ALWAYS_ON
<1>2. PinsInReset \in PinsT
    BY DEF PinsInReset, PinsT
<1>3. 0 \in Seqs /\ 0 \in Ticks /\ 0 \in 0 .. TickMod /\ 0 \in 0 .. QuiesceTicks
      /\ 0 \in 0 .. MaxFailures /\ 0 \in 0 .. MaxResets
    BY SeqMaxAssumption, TickModAssumption, BoundsAssumption DEF Seqs, Ticks
<1> QED BY <1>1, <1>2, <1>3 DEF PCs

\* A restart puts every variable in RAM back to its initial value.
LEMMA RestartType ==
    ASSUME Restart, retained' \in BOOLEAN, everLatched' \in BOOLEAN,
           failures' \in 0 .. MaxFailures, resets' \in 0 .. MaxResets
    PROVE  TypeOK'
BY BootType DEF Restart, TypeOK

\* The initial state is well typed.
LEMMA TypeInit == Init => TypeOK
BY BootType DEF Init, TypeOK

\* Every step of the actor, a task, the clock or a reset keeps the types.
LEMMA TypeStep == TypeOK /\ [Next]_vars => TypeOK'
<1> SUFFICES ASSUME TypeOK, [Next]_vars PROVE TypeOK'
    OBVIOUS
<1> USE DEF actorVars, timeVars, sharedVars, taskVars, rtcVars, boundVars
<1>1. CASE BootInit
    <2>1. [state EXCEPT !.fault = FaultAtBoot] \in SnapshotT
        BY UpdateType DEF TypeOK, FaultAtBoot
    <2>2. Failed(state) \in SnapshotT
        BY FailedType DEF TypeOK
    <2>3. pins' \in PinsT /\ failures' \in 0 .. MaxFailures
        BY <1>1, BootType, GpioType DEF BootInit, TypeOK
    <2>4. state' \in SnapshotT /\ pc' \in PCs /\ retained' \in BOOLEAN
        BY <1>1, <2>1, <2>2 DEF BootInit, TypeOK, PCs
    <2> QED BY <1>1, <2>3, <2>4 DEF BootInit, TypeOK
<1>2. ASSUME NEW ok \in BOOLEAN, BootFinish(ok) PROVE TypeOK'
    <2>1. state' \in SnapshotT
        BY <1>2, UpdateType DEF BootFinish, TypeOK
    <2> QED BY <1>2, <2>1 DEF BootFinish, TypeOK, PCs
<1>3. CASE CycleStart
    <2> DEFINE r == [state EXCEPT !.status = "READY"]
               a == [state EXCEPT !.status = "MAINTENANCE"]
               d == [a EXCEPT !.desired = OFF]
    <2>1. r \in SnapshotT /\ a \in SnapshotT /\ OFF \in Speeds
        <3>1. state \in SnapshotT BY DEF TypeOK
        <3>2. OFF \in Speeds BY DEF Speeds, OFF
        <3> QED BY <3>1, <3>2, UpdateType
    <2>2. d \in SnapshotT
        <3> HIDE DEF a
        <3> QED BY <2>1, UpdateType
    <2>3. [state EXCEPT !.status = "MAINTENANCE", !.desired = OFF] = d
        BY DEF TypeOK, SnapshotT
    <2>4. state' \in SnapshotT
        BY <1>3, <2>1, <2>2, <2>3, CancelTimerType DEF CycleStart, TypeOK
    <2>5. quiesced' \in BOOLEAN
        BY <1>3 DEF CycleStart, StillQuiesced, TypeOK
    <2> QED BY <1>3, <2>4, <2>5 DEF CycleStart, TypeOK, PCs
<1>4. CASE ReceiveCommand
    <2>1. mailbox \in MessageT /\ lastWake \in Ticks /\ started \in Ticks
        BY <1>4 DEF ReceiveCommand, TypeOK
    <2>2. InterpretCommand(state, mailbox) \in SnapshotT
        BY <2>1, InterpretType DEF TypeOK
    <2>3. \A since \in Ticks : ExpireTimer(InterpretCommand(state, mailbox), since) \in SnapshotT
        BY <2>2, ExpireTimerType
    <2>4. state' \in SnapshotT /\ pc' \in PCs
        BY <1>4, <2>1, <2>3, SettledType DEF ReceiveCommand, Settle, PCs
    <2>5. started' \in Ticks
        BY <1>4, <2>1 DEF ReceiveCommand
    <2>6. (now - lastWake) % TickMod \in Ticks
        <3>1. now - lastWake \in Int
            BY TickModAssumption DEF TypeOK, Ticks
        <3> QED BY <3>1, TickType
    <2>7. age' \in 0 .. TickMod
        BY <1>4, <2>6, TickModAssumption DEF ReceiveCommand, TypeOK, Ticks
    <2> QED BY <1>4, <2>4, <2>5, <2>7 DEF ReceiveCommand, TypeOK
<1>5. CASE ReceiveNothing
    <2>1. state \in SnapshotT /\ ExpireTimer(state, started) \in SnapshotT
        BY ExpireTimerType DEF TypeOK
    <2>2. state' \in SnapshotT /\ pc' \in PCs
        BY <1>5, <2>1, SettledType DEF ReceiveNothing, Settle, PCs
    <2> QED BY <1>5, <2>2 DEF ReceiveNothing, TypeOK
<1>6. CASE Disable
    <2>1. state' \in SnapshotT /\ pc' \in PCs
        BY <1>6, SettledType DEF Disable, TypeOK, PCs
    <2>2. pins' \in PinsT /\ failures' \in 0 .. MaxFailures
        BY <1>6, GpioType DEF Disable
    <2> QED BY <1>6, <2>1, <2>2 DEF Disable, TypeOK
<1>7. CASE SetAddressA1
    <2>1. BitA1(state.desired) \in 0 .. 1
        BY BitType DEF TypeOK, SnapshotT
    <2>2. pins' \in PinsT /\ failures' \in 0 .. MaxFailures
        BY <1>7, <2>1, GpioType DEF SetAddressA1
    <2> QED BY <1>7, <2>2 DEF SetAddressA1, TypeOK, PCs
<1>8. CASE SetAddressA2
    <2>1. BitA2(state.desired) \in 0 .. 1
        BY BitType DEF TypeOK, SnapshotT
    <2>2. pins' \in PinsT /\ failures' \in 0 .. MaxFailures
        BY <1>8, <2>1, GpioType DEF SetAddressA2
    <2> QED BY <1>8, <2>2 DEF SetAddressA2, TypeOK, PCs
<1>9. CASE Enable
    <2>1. state' \in SnapshotT /\ pc' \in PCs
        BY <1>9, SettledType DEF Enable, TypeOK, PCs
    <2>2. pins' \in PinsT /\ failures' \in 0 .. MaxFailures
        BY <1>9, GpioType DEF Enable
    <2> QED BY <1>9, <2>1, <2>2 DEF Enable, TypeOK
<1>10. CASE Abort
    <2>1. state' \in SnapshotT
        BY <1>10, FailedType DEF Abort, TypeOK
    <2>2. pins' \in PinsT /\ failures' \in 0 .. MaxFailures
        BY <1>10, GpioType DEF Abort, BestEffortDisable
    <2> QED BY <1>10, <2>1, <2>2 DEF Abort, TypeOK, PCs
<1>11. CASE LatchFault
    BY <1>11 DEF LatchFault, TypeOK, PCs
<1>12. CASE CycleFinish
    <2>1. quiesced' \in BOOLEAN
        BY <1>12 DEF CycleFinish, BecomesQuiesced, TypeOK
    <2> QED BY <1>12, <2>1 DEF CycleFinish, TypeOK, PCs
<1>13. CASE Tick
    <2>1. now' \in Ticks
        BY <1>13, TickType, TickModAssumption DEF Tick, TypeOK, Ticks
    <2>2. age' \in 0 .. TickMod
        BY <1>13, TickModAssumption DEF Tick, TypeOK
    <2>3. waited' \in [Maintainers -> 0 .. QuiesceTicks]
        BY <1>13, BoundsAssumption DEF Tick, TypeOK
    <2> QED BY <1>13, <2>1, <2>2, <2>3 DEF Tick, TypeOK
<1>14. CASE PanicReset \/ WarmReset \/ PowerOn
    <2>1. retained' \in BOOLEAN /\ everLatched' \in BOOLEAN /\ failures' \in 0 .. MaxFailures
        BY <1>14 DEF PanicReset, WarmReset, PowerOn, TypeOK
    <2>2. resets' \in 0 .. MaxResets
        BY <1>14, BoundsAssumption DEF PanicReset, WarmReset, PowerOn, TypeOK
    <2>3. Restart
        BY <1>14 DEF PanicReset, WarmReset, PowerOn
    <2> QED BY <2>1, <2>2, <2>3, RestartType
<1>15. ASSUME NEW c \in Clients, ClientStep(c) PROVE TypeOK'
    <2>1. CASE SubmitCheck(c) \/ SubmitRefused(c)
        BY <2>1 DEF SubmitCheck, SubmitRefused, TypeOK
    <2>2. ASSUME NEW command \in Commands, Submit(c, command) PROVE TypeOK'
        <3>1. sequence' \in Seqs /\ mailbox' \in MessageT
            BY <2>2, NextSequenceType, CommandsAssumption
            DEF Submit, TypeOK, RequestT, MessageT
        <3> QED BY <2>2, <3>1 DEF Submit, TypeOK
    <2> QED BY <1>15, <2>1, <2>2 DEF ClientStep
<1>16. ASSUME NEW m \in Maintainers, MaintainerStep(m) PROVE TypeOK'
    <2>1. holder' \in [Maintainers -> {"idle", "waiting", "holding"}]
        BY <1>16 DEF MaintainerStep, Quiesce, QuiesceGranted, QuiesceTimeout,
                     EndMaintenance, TypeOK
    <2>2. waited' \in [Maintainers -> 0 .. QuiesceTicks]
        BY <1>16, BoundsAssumption
        DEF MaintainerStep, Quiesce, QuiesceGranted, QuiesceTimeout, EndMaintenance, TypeOK
    <2> QED BY <1>16, <2>1, <2>2
            DEF MaintainerStep, Quiesce, QuiesceGranted, QuiesceTimeout, EndMaintenance, TypeOK
<1>17. CASE UNCHANGED vars
    BY <1>17 DEF vars, TypeOK
<1> QED BY <1>1, <1>2, <1>3, <1>4, <1>5, <1>6, <1>7, <1>8, <1>9, <1>10, <1>11, <1>12,
           <1>13, <1>14, <1>15, <1>16, <1>17
        DEF Next, ActorStep

\* The types hold in every reachable state.
THEOREM TypeCorrect == Spec => []TypeOK
BY TypeInit, TypeStep, PTL DEF Spec

----------------------------------------------------------------------------
(* What the operators on the actor's state change and what they keep.      *)

\* cancel_timer changes the timer only.
LEMMA CancelTimerKeeps ==
    \A s \in SnapshotT :
        /\ CancelTimer(s).desired = s.desired /\ CancelTimer(s).applied = s.applied
        /\ CancelTimer(s).fault = s.fault /\ CancelTimer(s).status = s.status
BY DEF CancelTimer, SnapshotT

\* Settling a duplicate changes one sequence number only.
LEMMA SettleDuplicateKeeps ==
    \A s \in SnapshotT :
        /\ SettleDuplicate(s).desired = s.desired /\ SettleDuplicate(s).applied = s.applied
        /\ SettleDuplicate(s).fault = s.fault /\ SettleDuplicate(s).status = s.status
BY DEF SettleDuplicate, SnapshotT

\* A committed transition has the speed that was asked for.
LEMMA CommittedFacts ==
    \A s \in SnapshotT :
        /\ Committed(s).desired = s.desired /\ Committed(s).applied = s.desired
        /\ Committed(s).fault = s.fault /\ Committed(s).status = s.status
BY DEF Committed, SnapshotT

\* A failed transition believes the fan off and has the fault.
LEMMA FailedFacts ==
    \A s \in SnapshotT :
        /\ Failed(s).desired = OFF /\ Failed(s).applied = OFF /\ Failed(s).fault = TRUE
        /\ Failed(s).mode = ALWAYS_ON /\ Failed(s).active = FALSE
BY DEF Failed, CancelTimer, SnapshotT

\* A command leaves the applied speed and the fault to the transition.
LEMMA InterpretKeeps ==
    \A s \in SnapshotT, c \in MessageT :
        /\ InterpretCommand(s, c).applied = s.applied
        /\ InterpretCommand(s, c).fault = s.fault
BY DEF InterpretCommand, OffCancelsTimer, CycleTimer, CancelTimer, SnapshotT, MessageT

\* So does the shutoff timer.
LEMMA ExpireTimerKeeps ==
    \A s \in SnapshotT : \A since \in Ticks :
        /\ ExpireTimer(s, since).applied = s.applied
        /\ ExpireTimer(s, since).fault = s.fault
BY DEF ExpireTimer, CancelTimer, SnapshotT

----------------------------------------------------------------------------
(* The safety invariant.                                                   *)

\* The initial state satisfies the safety invariant.
LEMMA SafetyInit == Init => SafetyInv
BY DEF Init, SafetyInv, MotorInv, FaultInv, QuiesceInv, NoReplayAfterMaintenance,
       BootState, PinsInReset

\* After a restart the marker may be valid, but the actor has not looked yet.
LEMMA SafetyRestart == ASSUME Restart PROVE SafetyInv'
BY DEF Restart, SafetyInv, MotorInv, FaultInv, QuiesceInv, NoReplayAfterMaintenance,
       BootState, PinsInReset

\* A step of another task leaves the actor, the pins and the marker alone.
LEMMA SafetyOfOtherTasks ==
    ASSUME SafetyInv, UNCHANGED <<state, pc, maint, pins, retained, quiesced>>,
           maintenance' => mailbox' = NoCommand
    PROVE  SafetyInv'
BY DEF SafetyInv, MotorInv, FaultInv, QuiesceInv, NoReplayAfterMaintenance

\* A step of the actor that is not in or next to maintenance: E3 and the fault
\* decide.
LEMMA SafetyOfActor ==
    ASSUME MotorInv', FaultInv', ~quiesced', NoReplayAfterMaintenance'
    PROVE  SafetyInv'
BY DEF SafetyInv, QuiesceInv

\* Every step preserves the safety invariant.
LEMMA SafetyStep == TypeOK /\ SafetyInv /\ [Next]_vars => SafetyInv'
<1> SUFFICES ASSUME TypeOK, SafetyInv, [Next]_vars PROVE SafetyInv'
    OBVIOUS
<1> USE DEF actorVars, timeVars, sharedVars, taskVars, rtcVars, boundVars
<1>s. state \in SnapshotT /\ pins \in PinsT
    BY DEF TypeOK
<1>i. MotorInv /\ FaultInv /\ QuiesceInv /\ NoReplayAfterMaintenance
    BY DEF SafetyInv
<1>1. CASE BootInit
    <2>1. ~quiesced' /\ NoReplayAfterMaintenance'
        BY <1>1, <1>i DEF BootInit, QuiesceInv, NoReplayAfterMaintenance
    <2>2. CASE pc' = "disable"
        <3>1. /\ pins'.e3 = 0 /\ state'.fault = retained /\ state'.desired = OFF
              /\ retained' = retained
            BY <1>1, <1>s, <1>i, <2>2
            DEF BootInit, PinsInReset, FaultAtBoot, SnapshotT, FaultInv, BootState
        <3> QED BY <2>1, <2>2, <3>1, SafetyOfActor DEF MotorInv, FaultInv
    <2>3. CASE pc' = "latch"
        <3>1. state'.fault = TRUE /\ state'.desired = OFF
            BY <1>1, <1>s, <2>3, FailedFacts DEF BootInit
        <3> QED BY <2>1, <2>3, <3>1, SafetyOfActor DEF MotorInv, FaultInv
    <2> QED BY <1>1, <2>2, <2>3 DEF BootInit
<1>2. ASSUME NEW ok \in BOOLEAN, BootFinish(ok) PROVE SafetyInv'
    <2>1. ~quiesced' /\ NoReplayAfterMaintenance'
        BY <1>2, <1>i DEF BootFinish, QuiesceInv, NoReplayAfterMaintenance
    <2>2. /\ state'.fault = state.fault /\ state'.desired = state.desired
          /\ state'.applied = state.applied
        BY <1>2, <1>s DEF BootFinish, SnapshotT
    <2>3. UNCHANGED <<pins, maint, retained>> /\ pc \in {"finish", "bootfail"}
          /\ pc' \in {"sleep", "suspended"}
        BY <1>2 DEF BootFinish
    <2> QED BY <1>i, <2>1, <2>2, <2>3, SafetyOfActor DEF MotorInv, FaultInv
<1>3. CASE CycleStart
    <2>1. /\ state'.fault = state.fault /\ state'.applied = state.applied
          /\ maintenance => state'.desired = OFF
          /\ state.fault => state'.desired = state.desired
          /\ ~state.fault => state'.status # "STARTING"
        <3> DEFINE d == [state EXCEPT !.status = "MAINTENANCE", !.desired = OFF]
        <3>1. d \in SnapshotT /\ d.desired = OFF /\ d.applied = state.applied
              /\ d.fault = state.fault /\ d.status = "MAINTENANCE"
            <4> DEFINE a == [state EXCEPT !.status = "MAINTENANCE"]
            <4>1. d = [a EXCEPT !.desired = OFF]
                BY <1>s DEF SnapshotT
            <4>2. a \in SnapshotT
                BY <1>s, UpdateType
            <4>3. a.applied = state.applied /\ a.fault = state.fault /\ a.status = "MAINTENANCE"
                BY <1>s DEF SnapshotT
            <4> HIDE DEF a, d
            <4>4. OFF \in Speeds
                BY DEF OFF, Speeds
            <4>5. d \in SnapshotT
                BY <4>1, <4>2, <4>4, UpdateType
            <4> QED BY <4>1, <4>2, <4>3, <4>5 DEF SnapshotT
        <3>2. CASE state.fault
            BY <1>3, <1>i, <3>2 DEF CycleStart, FaultInv
        <3>3. CASE ~state.fault /\ maintenance
            <4>1. state' = CancelTimer(d) BY <1>3, <3>3 DEF CycleStart
            <4> HIDE DEF d
            <4> QED BY <3>1, <3>3, <4>1, CancelTimerKeeps
        <3>4. CASE ~state.fault /\ ~maintenance
            BY <1>3, <1>s, <3>4 DEF CycleStart, SnapshotT
        <3> QED BY <3>2, <3>3, <3>4
    <2>2. UNCHANGED <<pins, retained, mailbox, maintenance>> /\ pc = "sleep" /\ pc' = "receive"
          /\ maint' = maintenance /\ quiesced' = (quiesced /\ (maintenance \/ state.fault))
        BY <1>3 DEF CycleStart, StillQuiesced
    <2>3. MotorInv'
        BY <1>i, <2>1, <2>2 DEF MotorInv
    <2>4. FaultInv'
        BY <1>i, <2>1, <2>2 DEF FaultInv
    <2>5. QuiesceInv'
        BY <1>i, <2>1, <2>2 DEF QuiesceInv
    <2>6. NoReplayAfterMaintenance'
        BY <1>i, <2>2 DEF NoReplayAfterMaintenance
    <2> QED BY <2>3, <2>4, <2>5, <2>6 DEF SafetyInv
<1>4. CASE ReceiveCommand
    <2>1. mailbox \in MessageT /\ lastWake \in Ticks /\ started \in Ticks
        BY <1>4 DEF ReceiveCommand, TypeOK
    <2> DEFINE s == InterpretCommand(state, mailbox)
    <2>2. s \in SnapshotT /\ s.applied = state.applied /\ s.fault = state.fault
        BY <1>s, <2>1, InterpretType, InterpretKeeps
    <2> HIDE DEF s
    <2>3. PICK since \in Ticks : Settle(ExpireTimer(s, since))
        BY <1>4, <2>1 DEF ReceiveCommand, s
    <2> DEFINE e == ExpireTimer(s, since)
    <2>4. e \in SnapshotT /\ e.applied = state.applied /\ e.fault = state.fault
        BY <2>2, ExpireTimerType, ExpireTimerKeeps
    <2> HIDE DEF e
    <2>5. /\ state'.applied = state.applied /\ state'.fault = state.fault
          /\ pc' \in {"disable", "finish"}
        BY <2>3, <2>4, SettleDuplicateKeeps DEF Settle, e
    <2>6. /\ UNCHANGED <<pins, retained, maint, quiesced>> /\ pc = "receive"
          /\ ~maint /\ ~state.fault /\ mailbox' = NoCommand
        BY <1>4 DEF ReceiveCommand
    <2>7. ~quiesced'
        BY <1>i, <2>6 DEF QuiesceInv
    <2> QED BY <1>i, <2>5, <2>6, <2>7, SafetyOfActor
            DEF MotorInv, FaultInv, NoReplayAfterMaintenance
<1>5. CASE ReceiveNothing
    <2> DEFINE s == IF state.fault \/ maint THEN state ELSE ExpireTimer(state, started)
    <2>1. s \in SnapshotT /\ s.applied = state.applied /\ s.fault = state.fault
        BY <1>s, ExpireTimerType, ExpireTimerKeeps DEF TypeOK
    <2>2. state.fault \/ maint => s = state
        OBVIOUS
    <2> HIDE DEF s
    <2>3. Settle(s)
        BY <1>5 DEF ReceiveNothing, s
    <2>4. /\ state'.applied = state.applied /\ state'.fault = state.fault
          /\ state'.desired = s.desired /\ state'.status = s.status
        BY <2>1, <2>3, SettleDuplicateKeeps DEF Settle
    <2>5. /\ UNCHANGED <<pins, retained, maint, quiesced, mailbox, maintenance>>
          /\ pc = "receive" /\ pc' \in {"disable", "finish"}
        BY <1>5, <2>3 DEF ReceiveNothing, Settle
    <2>6. MotorInv' /\ FaultInv' /\ NoReplayAfterMaintenance'
        BY <1>i, <2>2, <2>4, <2>5 DEF MotorInv, FaultInv, NoReplayAfterMaintenance
    <2>7. QuiesceInv'
        <3> SUFFICES ASSUME quiesced' PROVE QuiesceInv'
            BY DEF QuiesceInv
        <3>1. maint /\ s = state /\ state.desired = OFF /\ state.applied = OFF
            BY <1>i, <2>2, <2>5 DEF QuiesceInv
        <3>2. pc' = "finish"
            BY <2>3, <3>1 DEF Settle, TransitionRequired
        <3> QED BY <1>i, <2>4, <2>5, <3>1, <3>2 DEF QuiesceInv
    <2> QED BY <2>6, <2>7 DEF SafetyInv
<1>6. CASE Disable
    <2>1. /\ UNCHANGED <<retained, maint, mailbox, maintenance, quiesced>> /\ pc = "disable"
        BY <1>6 DEF Disable
    <2>2. ~quiesced' /\ NoReplayAfterMaintenance'
        BY <1>i, <2>1 DEF QuiesceInv, NoReplayAfterMaintenance
    <2>3. CASE pc' = "abort"
        <3>1. UNCHANGED <<state, pins>>
            BY <1>6, <2>3 DEF Disable, GpioFails
        <3> QED BY <1>i, <2>1, <2>2, <2>3, <3>1, SafetyOfActor DEF MotorInv, FaultInv
    <2>4. CASE pc' # "abort"
        <3>1. pins'.e3 = 0
            BY <1>6, <1>s, <2>4 DEF Disable, GpioSet, PinsT
        <3>2. /\ state'.fault = state.fault /\ state'.desired = state.desired
              /\ pc' \in {"finish", "addressA1"} /\ (pc' = "addressA1" => state.desired # OFF)
            BY <1>6, <1>s, <2>4, CommittedFacts DEF Disable
        <3> QED BY <1>i, <2>1, <2>2, <3>1, <3>2, SafetyOfActor DEF MotorInv, FaultInv
    <2> QED BY <2>3, <2>4
<1>7. CASE SetAddressA1 \/ SetAddressA2
    <2>1. /\ UNCHANGED <<state, retained, maint, mailbox, maintenance, quiesced>>
          /\ pc \in {"addressA1", "addressA2"} /\ pc' \in {"addressA2", "enable", "abort"}
        BY <1>7 DEF SetAddressA1, SetAddressA2
    <2>2. ~quiesced' /\ NoReplayAfterMaintenance'
        BY <1>i, <2>1 DEF QuiesceInv, NoReplayAfterMaintenance
    <2>3. pins'.e3 = pins.e3
        BY <1>7, <1>s DEF SetAddressA1, SetAddressA2, GpioSet, GpioFails, PinsT
    <2> QED BY <1>i, <2>1, <2>2, <2>3, SafetyOfActor DEF MotorInv, FaultInv
<1>8. CASE Enable
    <2>1. UNCHANGED <<retained, maint, mailbox, maintenance, quiesced>> /\ pc = "enable"
        BY <1>8 DEF Enable
    <2>2. ~quiesced' /\ NoReplayAfterMaintenance'
        BY <1>i, <2>1 DEF QuiesceInv, NoReplayAfterMaintenance
    <2>3. CASE pc' = "abort"
        <3>1. UNCHANGED <<state, pins>>
            BY <1>8, <2>3 DEF Enable, GpioFails
        <3> QED BY <1>i, <2>1, <2>2, <2>3, <3>1, SafetyOfActor DEF MotorInv, FaultInv
    <2>4. CASE pc' # "abort"
        <3>1. /\ state'.fault = state.fault /\ state'.desired = state.desired
              /\ state'.applied = state.desired /\ pc' = "finish"
            BY <1>8, <1>s, <2>4, CommittedFacts DEF Enable
        <3>2. state.desired # OFF
            BY <1>i, <2>1 DEF MotorInv
        <3> QED BY <1>i, <2>1, <2>2, <3>1, <3>2, SafetyOfActor DEF MotorInv, FaultInv
    <2> QED BY <2>3, <2>4
<1>9. CASE Abort
    <2>1. state'.fault = TRUE /\ state'.desired = OFF
        BY <1>9, <1>s, FailedFacts DEF Abort
    <2>2. UNCHANGED <<maint, mailbox, maintenance, quiesced>> /\ pc = "abort" /\ pc' = "latch"
        BY <1>9 DEF Abort
    <2>3. ~quiesced' /\ NoReplayAfterMaintenance'
        BY <1>i, <2>2 DEF QuiesceInv, NoReplayAfterMaintenance
    <2> QED BY <2>1, <2>2, <2>3, SafetyOfActor DEF MotorInv, FaultInv
<1>10. CASE LatchFault
    <2>1. /\ UNCHANGED <<state, pins, maint, mailbox, maintenance, quiesced>>
          /\ pc = "latch" /\ pc' \in {"bootfail", "finish"}
        BY <1>10 DEF LatchFault
    <2>2. ~quiesced' /\ NoReplayAfterMaintenance'
        BY <1>i, <2>1 DEF QuiesceInv, NoReplayAfterMaintenance
    <2> QED BY <1>i, <2>1, <2>2, SafetyOfActor DEF MotorInv, FaultInv
<1>11. CASE CycleFinish
    <2>1. /\ UNCHANGED <<state, pins, maint, mailbox, maintenance, retained>>
          /\ pc = "finish" /\ pc' = "sleep" /\ state.status # "STARTING"
          /\ quiesced' => quiesced \/ (state.applied = OFF /\ ~state.fault)
        BY <1>11 DEF CycleFinish, BecomesQuiesced
    <2>2. MotorInv' /\ FaultInv' /\ NoReplayAfterMaintenance'
        BY <1>i, <2>1 DEF MotorInv, FaultInv, NoReplayAfterMaintenance
    <2>3. QuiesceInv'
        BY <1>i, <2>1 DEF QuiesceInv
    <2> QED BY <2>2, <2>3 DEF SafetyInv
<1>12. CASE Tick
    BY <1>12, <1>i, SafetyOfOtherTasks DEF Tick, NoReplayAfterMaintenance
<1>13. CASE PanicReset \/ WarmReset \/ PowerOn
    BY <1>13, SafetyRestart DEF PanicReset, WarmReset, PowerOn
<1>14. ASSUME NEW c \in Clients, ClientStep(c) PROVE SafetyInv'
    BY <1>14, <1>i, SafetyOfOtherTasks
    DEF ClientStep, SubmitCheck, Submit, SubmitRefused, AcceptsCommands,
        NoReplayAfterMaintenance
<1>15. ASSUME NEW m \in Maintainers, MaintainerStep(m) PROVE SafetyInv'
    BY <1>15, <1>i, SafetyOfOtherTasks
    DEF MaintainerStep, Quiesce, QuiesceGranted, QuiesceTimeout, EndMaintenance,
        NoReplayAfterMaintenance
<1>16. CASE UNCHANGED vars
    BY <1>16, <1>i, SafetyOfOtherTasks DEF vars, NoReplayAfterMaintenance
<1> QED BY <1>1, <1>2, <1>3, <1>4, <1>5, <1>6, <1>7, <1>8, <1>9, <1>10, <1>11, <1>12,
           <1>13, <1>14, <1>15, <1>16
        DEF Next, ActorStep

\* The inductive invariant holds in every reachable state.
THEOREM SafetyInvariant == Spec => [](TypeOK /\ SafetyInv)
<1>1. Init => TypeOK /\ SafetyInv
    BY TypeInit, SafetyInit
<1>2. (TypeOK /\ SafetyInv) /\ [Next]_vars => (TypeOK /\ SafetyInv)'
    BY TypeStep, SafetyStep
<1> QED BY <1>1, <1>2, PTL DEF Spec

\* EVENT_QUIESCED is never set while the motor is on, with any number of tasks that
\* quiesce and release the fan at the same time.
THEOREM QuiescedIsOff == Spec => []QuiescedMeansOff
<1>1. TypeOK /\ SafetyInv => QuiescedMeansOff
    BY DEF TypeOK, PinsT, SafetyInv, MotorInv, QuiesceInv, QuiescedMeansOff, MotorOn
<1> QED BY <1>1, SafetyInvariant, PTL

\* No command waits in the mailbox during maintenance.
THEOREM NoReplay == Spec => []NoReplayAfterMaintenance
<1>1. SafetyInv => NoReplayAfterMaintenance
    BY DEF SafetyInv
<1> QED BY <1>1, SafetyInvariant, PTL

----------------------------------------------------------------------------
(* Consequences that need a second argument.                               *)

\* With a single maintainer, every step keeps the flag and the event bit up for it.
LEMMA HolderStep ==
    ASSUME \A m, n \in Maintainers : m = n
    PROVE  TypeOK /\ HolderInv /\ [Next]_vars => HolderInv'
<1> SUFFICES ASSUME TypeOK, HolderInv, [Next]_vars PROVE HolderInv'
    OBVIOUS
<1> USE DEF actorVars, timeVars, sharedVars, taskVars, rtcVars, boundVars
<1>1. CASE CycleStart
    BY <1>1 DEF CycleStart, StillQuiesced, HolderInv
<1>2. CASE CycleFinish
    BY <1>2 DEF CycleFinish, HolderInv
<1>3. CASE \/ BootInit \/ BootFinish(TRUE) \/ BootFinish(FALSE) \/ ReceiveCommand
           \/ ReceiveNothing \/ Disable \/ SetAddressA1 \/ SetAddressA2 \/ Enable \/ Abort
           \/ LatchFault
    <2>1. UNCHANGED <<holder, maintenance, quiesced>>
        BY <1>3 DEF BootInit, BootFinish, ReceiveCommand, ReceiveNothing, Disable,
                    SetAddressA1, SetAddressA2, Enable, Abort, LatchFault
    <2> QED BY <2>1 DEF HolderInv
<1>4. CASE PanicReset \/ WarmReset \/ PowerOn
    BY <1>4 DEF PanicReset, WarmReset, PowerOn, Restart, HolderInv
<1>5. CASE Tick
    BY <1>5 DEF Tick, HolderInv
<1>6. ASSUME NEW c \in Clients, ClientStep(c) PROVE HolderInv'
    BY <1>6 DEF ClientStep, SubmitCheck, Submit, SubmitRefused, HolderInv
<1>7. ASSUME NEW m \in Maintainers, MaintainerStep(m) PROVE HolderInv'
    <2>1. holder \in [Maintainers -> {"idle", "waiting", "holding"}]
        BY DEF TypeOK
    <2>2. \A n \in Maintainers : n = m
        OBVIOUS
    <2>3. CASE Quiesce(m)
        BY <2>1, <2>2, <2>3 DEF Quiesce, HolderInv
    <2>4. CASE QuiesceGranted(m)
        BY <2>1, <2>2, <2>4 DEF QuiesceGranted, HolderInv
    <2>5. CASE QuiesceTimeout(m) \/ EndMaintenance(m)
        BY <2>1, <2>2, <2>5 DEF QuiesceTimeout, EndMaintenance, HolderInv
    <2> QED BY <1>7, <2>3, <2>4, <2>5 DEF MaintainerStep
<1>8. CASE UNCHANGED vars
    BY <1>8 DEF vars, HolderInv
<1> QED BY <1>1, <1>2, <1>3, <1>4, <1>5, <1>6, <1>7, <1>8 DEF Next, ActorStep

\* A single task that was told ESP_OK by fan_control_quiesce writes the flash with
\* the motor off.
THEOREM HolderIsSafe ==
    ASSUME \A m, n \in Maintainers : m = n
    PROVE  Spec => []HolderHasMotorOff
<1>1. Init => HolderInv
    BY DEF Init, HolderInv
<1>2. TypeOK /\ HolderInv /\ [Next]_vars => HolderInv'
    BY HolderStep
<1>3. TypeOK /\ SafetyInv /\ HolderInv => HolderHasMotorOff
    BY DEF TypeOK, PinsT, SafetyInv, MotorInv, QuiesceInv, HolderInv, HolderHasMotorOff, MotorOn
<1> QED BY <1>1, <1>2, <1>3, SafetyInvariant, PTL DEF Spec

\* What a step may do to the pins: an address pin moves under a low E3, and E3 rises
\* only in the enable phase.
LEMMA PinStep ==
    ASSUME TypeOK, SafetyInv, [Next]_vars
    PROVE  \/ pins' = pins
           \/ pins' = PinsInReset /\ (pc' = "boot" \/ pc = "boot")
           \/ pins' = [pins EXCEPT !["e3"] = 0]
           \/ pc = "enable" /\ pins' = [pins EXCEPT !["e3"] = 1]
           \/ pc \in {"addressA1", "addressA2"} /\ pins'.e3 = pins.e3
<1> USE DEF actorVars, timeVars, sharedVars, taskVars, rtcVars, boundVars
<1>1. CASE BootInit
    BY <1>1 DEF BootInit, GpioFails
<1>2. CASE Disable \/ Enable \/ Abort
    BY <1>2 DEF Disable, Enable, Abort, BestEffortDisable, GpioSet, GpioFails
<1>3. CASE SetAddressA1 \/ SetAddressA2
    BY <1>3 DEF SetAddressA1, SetAddressA2, GpioSet, GpioFails, TypeOK, PinsT
<1>4. CASE PanicReset \/ WarmReset \/ PowerOn
    BY <1>4 DEF PanicReset, WarmReset, PowerOn, Restart
<1>5. CASE \/ BootFinish(TRUE) \/ BootFinish(FALSE) \/ CycleStart \/ ReceiveCommand
           \/ ReceiveNothing \/ LatchFault \/ CycleFinish \/ Tick
    BY <1>5 DEF BootFinish, CycleStart, ReceiveCommand, ReceiveNothing, LatchFault,
                CycleFinish, Tick
<1>6. CASE (\E c \in Clients : ClientStep(c)) \/ (\E m \in Maintainers : MaintainerStep(m))
    BY <1>6 DEF ClientStep, SubmitCheck, Submit, SubmitRefused, MaintainerStep, Quiesce,
                QuiesceGranted, QuiesceTimeout, EndMaintenance
<1>7. CASE UNCHANGED vars
    BY <1>7 DEF vars
<1> QED BY <1>1, <1>2, <1>3, <1>4, <1>5, <1>6, <1>7 DEF Next, ActorStep

\* No winding is energised while the address pins change, whatever fails.
THEOREM BreaksBeforeMaking == Spec => BreakBeforeMake
<1>1. TypeOK /\ SafetyInv /\ [Next]_vars =>
        [<<pins'.a1, pins'.a2>> # <<pins.a1, pins.a2>>
            => pins'.e3 = 0 /\ (MotorOn => pc' = "boot")]_vars
    <2> SUFFICES ASSUME TypeOK, SafetyInv, [Next]_vars,
                        <<pins'.a1, pins'.a2>> # <<pins.a1, pins.a2>>
                 PROVE  pins'.e3 = 0 /\ (MotorOn => pc' = "boot")
        OBVIOUS
    <2>1. pins \in PinsT /\ MotorInv /\ FaultInv
        BY DEF TypeOK, SafetyInv
    <2>2. CASE pins' = PinsInReset /\ (pc' = "boot" \/ pc = "boot")
        BY <2>1, <2>2 DEF PinsInReset, MotorOn, MotorInv, FaultInv, BootState
    <2>3. CASE pc \in {"addressA1", "addressA2"} /\ pins'.e3 = pins.e3
        BY <2>1, <2>3 DEF MotorOn, MotorInv
    <2>4. ~(pins' = pins \/ pins' = [pins EXCEPT !["e3"] = 0] \/ pins' = [pins EXCEPT !["e3"] = 1])
        BY <2>1 DEF PinsT
    <2> QED BY <2>2, <2>3, <2>4, PinStep
<1> QED BY <1>1, SafetyInvariant, PTL DEF Spec, BreakBeforeMake

\* Once a fault is marked in RTC memory E3 does not rise, over any number of resets,
\* until a power-on clears the marker.
THEOREM RetainedFaultIsSafe == Spec => RetainedFaultKeepsMotorOff
<1>1. TypeOK /\ SafetyInv /\ [Next]_vars =>
        [~MotorOn /\ pins'.e3 = 1 => ~retained /\ ~maint /\ state.desired # OFF]_vars
    <2> SUFFICES ASSUME TypeOK, SafetyInv, [Next]_vars, ~MotorOn, pins'.e3 = 1
                 PROVE  ~retained /\ ~maint /\ state.desired # OFF
        OBVIOUS
    <2>1. pins \in PinsT /\ MotorInv /\ FaultInv
        BY DEF TypeOK, SafetyInv
    <2>2. pc = "enable"
        BY <2>1, PinStep DEF MotorOn, PinsT, PinsInReset
    <2> QED BY <2>1, <2>2 DEF MotorInv, FaultInv
<1> QED BY <1>1, SafetyInvariant, PTL DEF Spec, RetainedFaultKeepsMotorOff

=============================================================================
