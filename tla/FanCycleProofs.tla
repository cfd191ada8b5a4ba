--------------------------- MODULE FanCycleProofs ---------------------------
(***************************************************************************)
(* Proofs about the cycle of FanControl: what the published snapshot says  *)
(* of the output, what a GPIO failure leaves behind, and when the shutoff  *)
(* timer and the quiesce timeout may run out.                              *)
(***************************************************************************)
EXTENDS FanControlProofs

----------------------------------------------------------------------------
(* The inductive invariants.                                               *)

\* The pins have the address of a speed.
Addressed(speed) == pins.a1 = BitA1(speed) /\ pins.a2 = BitA2(speed)

\* A healthy actor that is not in the middle of a transition drives the speed it
\* believes in; in a transition the address is built up pin by pin.
OutputInv ==
    ~state.fault =>
        /\ pc \in {"sleep", "receive", "disable", "finish"} /\ state.applied # OFF =>
                pins.e3 = 1 /\ Addressed(state.applied)
        /\ pc \in {"addressA2", "enable"} => pins.a1 = BitA1(state.desired)
        /\ pc = "enable" => pins.a2 = BitA2(state.desired)

\* At the end of a cycle the last accepted command is settled, and it is published
\* before the actor sleeps.
SettledInv ==
    /\ state.accepted = 0 => state.appliedSeq = 0
    /\ pc \in {"finish", "sleep"} /\ ~state.fault =>
            state.desired = state.applied /\ state.accepted = state.appliedSeq
    /\ snapshot.fault => state.fault
    /\ pc = "sleep" => snapshot = state

\* An aborted transition has seen a failure; with no second one the attempt to disable
\* E3 worked.
FailureInv ==
    /\ pc = "abort" => failures >= 1
    /\ failures <= 1 /\ state.fault => pins.e3 = 0

\* What the cycle keeps, besides SafetyInv.
CycleInv == OutputInv /\ SettledInv /\ FailureInv

\* If GPIO writes fail once at most, the marker that was made valid is not written again.
LatchInv ==
    /\ pc \in {"abort", "latch"} => failures >= 1 /\ ~everLatched
    /\ everLatched => retained /\ failures >= 1
    /\ initialized => pc # "boot"

\* The ticks from the start of the timer to the current cycle.
Since == (lastWake - started) % TickMod

\* The tick that may have begun meanwhile.
Lag == IF now = lastWake THEN 0 ELSE 1

\* The actor is never more than one control period behind.
ClockInv == now = lastWake \/ now = (lastWake + 1) % TickMod

\* A timer runs for a fan that is on and healthy; the difference of the wrapping ticks is
\* its true age, and a cycle that has looked at it leaves it unexpired.
TimerInv ==
    /\ state.fault => ~state.active
    /\ maint /\ pc # "sleep" => ~state.active
    /\ state.active =>
        /\ state.mode # ALWAYS_ON /\ state.desired # OFF
        /\ age = Since + Lag
        /\ Since <= Durations[state.mode]
        /\ pc # "receive" => Since < Durations[state.mode]

\* The actor has started exactly when the other tasks may run.
StartInv ==
    /\ initialized => pc \notin {"boot", "bootfail", "suspended"} /\ state.status # "STARTING"
    /\ ~initialized => \A m \in Maintainers : holder[m] = "idle"

\* How long a task can have waited for a healthy actor: one period for the cycle that may
\* have read the flag too early, one for the cycle that sees it.
WaitInv ==
    \A m \in Maintainers :
        holder[m] = "waiting" /\ ~quiesced /\ ~state.fault =>
            waited[m] <= (IF maint /\ pc # "sleep" THEN 1 ELSE 0) + Lag

----------------------------------------------------------------------------
(* Facts about single steps.                                               *)

\* The steps of the other tasks and of the clock leave the actor, the pins and the
\* retained marker alone.
OtherStep ==
    \/ Tick \/ (\E c \in Clients : ClientStep(c)) \/ (\E m \in Maintainers : MaintainerStep(m))
    \/ UNCHANGED vars

\* They keep everything but the shared variables and the clock.
LEMMA OtherStepKeeps ==
    OtherStep => UNCHANGED <<state, snapshot, pc, maint, pins, initialized, lastWake, started,
                             retained, everLatched, failures, resets>>
BY DEF OtherStep, Tick, ClientStep, SubmitCheck, Submit, SubmitRefused, MaintainerStep, Quiesce,
       QuiesceGranted, QuiesceTimeout, EndMaintenance, vars, actorVars, timeVars, sharedVars,
       taskVars, rtcVars, boundVars

\* What an accepted message leaves in the actor's state, besides the speed.
LEMMA InterpretFacts ==
    \A s \in SnapshotT, c \in MessageT :
        InterpretCommand(s, c).accepted = c.seq /\ InterpretCommand(s, c).accepted # 0
<1> TAKE s \in SnapshotT, c \in MessageT
<1>1. c.seq # 0
    BY SeqMaxAssumption DEF MessageT, Seqs
<1> QED BY <1>1
        DEF InterpretCommand, OffCancelsTimer, CycleTimer, CancelTimer, SnapshotT, MessageT

\* The shutoff leaves the command numbers alone.
LEMMA ExpireTimerNumbers ==
    \A s \in SnapshotT : \A since \in Ticks :
        /\ ExpireTimer(s, since).accepted = s.accepted
        /\ ExpireTimer(s, since).appliedSeq = s.appliedSeq
BY DEF ExpireTimer, CancelTimer, SnapshotT

\* A command that needs no transition is settled, one that needs it starts it.
LEMMA SettleFacts ==
    ASSUME NEW s \in SnapshotT, Settle(s), s.accepted = 0 => s.appliedSeq = 0
    PROVE  /\ state' \in SnapshotT
           /\ state'.applied = s.applied /\ state'.desired = s.desired
           /\ state'.fault = s.fault /\ state'.status = s.status
           /\ state'.mode = s.mode /\ state'.active = s.active
           /\ state'.accepted = 0 => state'.appliedSeq = 0
           /\ pc' \in {"disable", "finish"}
           /\ pc' = "finish" /\ ~s.fault =>
                    s.desired = s.applied /\ state'.accepted = state'.appliedSeq
           /\ pc' = "disable" => ~s.fault
<1>1. SettleDuplicate(s) \in SnapshotT
    BY SettledType
<1>2. /\ SettleDuplicate(s).applied = s.applied /\ SettleDuplicate(s).desired = s.desired
      /\ SettleDuplicate(s).fault = s.fault /\ SettleDuplicate(s).status = s.status
      /\ SettleDuplicate(s).mode = s.mode /\ SettleDuplicate(s).active = s.active
      /\ SettleDuplicate(s).accepted = s.accepted
    BY DEF SettleDuplicate, SnapshotT
<1>3. ~s.fault => SettleDuplicate(s).appliedSeq = s.accepted
    BY DEF SettleDuplicate, SnapshotT
<1>4. s.accepted = 0 => SettleDuplicate(s).appliedSeq = 0
    BY DEF SettleDuplicate, SnapshotT
<1> QED BY <1>1, <1>2, <1>3, <1>4 DEF Settle, TransitionRequired

----------------------------------------------------------------------------
\* The initial state satisfies the invariant of the cycle.
LEMMA CycleInit == Init => CycleInv
BY DEF Init, CycleInv, OutputInv, SettledInv, FailureInv, BootState, PinsInReset

\* A restart, too, after any number of failures.
LEMMA CycleRestart == Restart /\ failures' = failures => CycleInv'
BY DEF Restart, CycleInv, OutputInv, SettledInv, FailureInv, BootState, PinsInReset

\* Every step preserves the invariant of the cycle.
LEMMA CycleStep == TypeOK /\ SafetyInv /\ CycleInv /\ [Next]_vars => CycleInv'
<1> SUFFICES ASSUME TypeOK, SafetyInv, CycleInv, [Next]_vars PROVE CycleInv'
    OBVIOUS
<1> USE DEF actorVars, timeVars, sharedVars, taskVars, rtcVars, boundVars
<1>s. state \in SnapshotT /\ pins \in PinsT /\ failures \in Nat
    BY BoundsAssumption DEF TypeOK
<1>i. MotorInv /\ FaultInv /\ OutputInv /\ SettledInv /\ FailureInv
    BY DEF SafetyInv, CycleInv
<1>1. CASE BootInit
    <2>1. state = BootState /\ pins.e3 = 0 /\ pc = "boot" /\ UNCHANGED snapshot
        BY <1>1, <1>i DEF BootInit, FaultInv, MotorInv, BootState
    <2>2. CASE pc' = "disable"
        <3>1. pins' = PinsInReset /\ state' = [state EXCEPT !.fault = FaultAtBoot]
            BY <1>1, <2>2 DEF BootInit
        <3>2. state'.applied = OFF /\ state'.accepted = 0 /\ state'.appliedSeq = 0
            BY <2>1, <3>1 DEF BootState
        <3>3. ~snapshot.fault
            BY <1>i, <2>1 DEF SettledInv, BootState
        <3> QED BY <2>1, <2>2, <3>1, <3>2, <3>3
                DEF CycleInv, OutputInv, SettledInv, FailureInv, PinsInReset
    <2>3. CASE pc' = "latch"
        <3>1. pins' = pins /\ state' = Failed(state) /\ state'.fault
            BY <1>1, <1>s, <2>3, FailedFacts DEF BootInit, GpioFails
        <3>2. state'.accepted = 0 /\ state'.appliedSeq = 0
            BY <2>1, <3>1 DEF BootState, Failed, CancelTimer
        <3> QED BY <2>1, <2>3, <3>1, <3>2 DEF CycleInv, OutputInv, SettledInv, FailureInv
    <2> QED BY <1>1, <2>2, <2>3 DEF BootInit
<1>2. ASSUME NEW ok \in BOOLEAN, BootFinish(ok) PROVE CycleInv'
    <2>1. /\ state'.fault = state.fault /\ state'.desired = state.desired
          /\ state'.applied = state.applied /\ state'.accepted = state.accepted
          /\ state'.appliedSeq = state.appliedSeq
        BY <1>2, <1>s DEF BootFinish, SnapshotT
    <2>2. /\ UNCHANGED <<pins, failures>> /\ snapshot' = state'
          /\ pc \in {"finish", "bootfail"} /\ pc' \in {"sleep", "suspended"}
          /\ pc' = "sleep" => pc = "finish"
        BY <1>2 DEF BootFinish
    <2>3. OutputInv'
        BY <1>i, <2>1, <2>2 DEF OutputInv, Addressed
    <2>4. SettledInv'
        BY <1>i, <2>1, <2>2 DEF SettledInv
    <2>5. FailureInv'
        BY <1>i, <2>1, <2>2 DEF FailureInv
    <2> QED BY <2>3, <2>4, <2>5 DEF CycleInv
<1>3. CASE CycleStart
    <2>1. /\ state'.fault = state.fault /\ state'.applied = state.applied
          /\ state'.accepted = state.accepted /\ state'.appliedSeq = state.appliedSeq
        BY <1>3, <1>s DEF CycleStart, CancelTimer, SnapshotT
    <2>2. UNCHANGED <<pins, failures, snapshot>> /\ pc = "sleep" /\ pc' = "receive"
        BY <1>3 DEF CycleStart
    <2>3. OutputInv' /\ SettledInv' /\ FailureInv'
        BY <1>i, <2>1, <2>2 DEF OutputInv, SettledInv, FailureInv, Addressed
    <2> QED BY <2>3 DEF CycleInv
<1>4. CASE ReceiveCommand
    <2>1. mailbox \in MessageT /\ lastWake \in Ticks /\ started \in Ticks
        BY <1>4 DEF ReceiveCommand, TypeOK
    <2> DEFINE s == InterpretCommand(state, mailbox)
    <2>2. s \in SnapshotT /\ s.applied = state.applied /\ s.fault = state.fault /\ s.accepted # 0
        BY <1>s, <2>1, InterpretType, InterpretKeeps, InterpretFacts
    <2> HIDE DEF s
    <2>3. PICK since \in Ticks : Settle(ExpireTimer(s, since))
        BY <1>4, <2>1 DEF ReceiveCommand, s
    <2> DEFINE e == ExpireTimer(s, since)
    <2>4. e \in SnapshotT /\ e.applied = state.applied /\ e.fault = state.fault /\ e.accepted # 0
        BY <2>2, ExpireTimerType, ExpireTimerKeeps, ExpireTimerNumbers
    <2>5. Settle(e)
        BY <2>3
    <2> HIDE DEF e
    <2>6. /\ state'.applied = state.applied /\ state'.fault = state.fault
          /\ state'.accepted = 0 => state'.appliedSeq = 0
          /\ pc' \in {"disable", "finish"}
          /\ pc' = "finish" /\ ~state.fault =>
                state'.desired = state'.applied /\ state'.accepted = state'.appliedSeq
        BY <2>4, <2>5, SettleFacts
    <2>7. UNCHANGED <<pins, failures, snapshot>> /\ pc = "receive"
        BY <1>4 DEF ReceiveCommand
    <2>8. OutputInv' /\ SettledInv' /\ FailureInv'
        BY <1>i, <2>6, <2>7 DEF OutputInv, SettledInv, FailureInv, Addressed
    <2> QED BY <2>8 DEF CycleInv
<1>5. CASE ReceiveNothing
    <2> DEFINE s == IF state.fault \/ maint THEN state ELSE ExpireTimer(state, started)
    <2>1. /\ s \in SnapshotT /\ s.applied = state.applied /\ s.fault = state.fault
          /\ s.accepted = state.accepted /\ s.appliedSeq = state.appliedSeq
        BY <1>s, ExpireTimerType, ExpireTimerKeeps, ExpireTimerNumbers DEF TypeOK
    <2>2. Settle(s)
        BY <1>5 DEF ReceiveNothing
    <2> HIDE DEF s
    <2>3. s.accepted = 0 => s.appliedSeq = 0
        BY <1>i, <2>1 DEF SettledInv
    <2>4. /\ state'.applied = state.applied /\ state'.fault = state.fault
          /\ state'.accepted = 0 => state'.appliedSeq = 0
          /\ pc' \in {"disable", "finish"}
          /\ pc' = "finish" /\ ~state.fault =>
                state'.desired = state'.applied /\ state'.accepted = state'.appliedSeq
        BY <2>1, <2>2, <2>3, SettleFacts
    <2>5. UNCHANGED <<pins, failures, snapshot>> /\ pc = "receive"
        BY <1>5 DEF ReceiveNothing
    <2>6. OutputInv' /\ SettledInv' /\ FailureInv'
        BY <1>i, <2>4, <2>5 DEF OutputInv, SettledInv, FailureInv, Addressed
    <2> QED BY <2>6 DEF CycleInv
<1>6. CASE Disable
    <2>1. pc = "disable" /\ UNCHANGED snapshot
        BY <1>6 DEF Disable
    <2>2. CASE pc' = "abort"
        <3>1. UNCHANGED <<state, pins>> /\ failures' = failures + 1
            BY <1>6, <2>2 DEF Disable, GpioFails
        <3> QED BY <1>i, <1>s, <2>1, <2>2, <3>1
                DEF CycleInv, OutputInv, SettledInv, FailureInv, Addressed
    <2>3. CASE pc' # "abort"
        <3>1. pins'.e3 = 0 /\ failures' = failures
            BY <1>6, <1>s, <2>3 DEF Disable, GpioSet, PinsT
        <3>2. \/ pc' = "addressA1" /\ state' = state
              \/ pc' = "finish" /\ state' = Committed(state) /\ state.desired = OFF
            BY <1>6, <2>3 DEF Disable
        <3>3. /\ Committed(state).desired = state.desired
              /\ Committed(state).applied = state.desired
              /\ Committed(state).accepted = state.accepted
              /\ Committed(state).appliedSeq = state.accepted
              /\ Committed(state).fault = state.fault
            BY <1>s DEF Committed, SnapshotT
        <3>4. OutputInv' /\ SettledInv' /\ FailureInv'
            BY <1>i, <2>1, <3>1, <3>2, <3>3 DEF OutputInv, SettledInv, FailureInv
        <3> QED BY <3>4 DEF CycleInv
    <2> QED BY <2>2, <2>3
<1>7. CASE SetAddressA1 \/ SetAddressA2
    <2>1. /\ UNCHANGED <<state, snapshot>> /\ pc \in {"addressA1", "addressA2"}
          /\ pc' \in {"addressA2", "enable", "abort"} /\ pins'.e3 = pins.e3
        BY <1>7, <1>s DEF SetAddressA1, SetAddressA2, GpioSet, GpioFails, PinsT
    <2>2. pc' = "abort" => failures' = failures + 1
        BY <1>7 DEF SetAddressA1, SetAddressA2, GpioFails
    <2>3. failures' = failures \/ failures' = failures + 1
        BY <1>7 DEF SetAddressA1, SetAddressA2, GpioSet, GpioFails
    <2>4. OutputInv'
        <3>1. CASE pc' = "addressA2"
            <4>1. pins'.a1 = BitA1(state.desired)
                BY <1>7, <1>s, <3>1 DEF SetAddressA1, SetAddressA2, GpioSet, PinsT
            <4> QED BY <2>1, <3>1, <4>1 DEF OutputInv
        <3>2. CASE pc' = "enable"
            <4>1. pc = "addressA2" /\ pins'.a2 = BitA2(state.desired) /\ pins'.a1 = pins.a1
                BY <1>7, <1>s, <3>2 DEF SetAddressA1, SetAddressA2, GpioSet, PinsT
            <4> QED BY <1>i, <2>1, <3>2, <4>1 DEF OutputInv
        <3>3. CASE pc' = "abort"
            BY <3>3 DEF OutputInv
        <3> QED BY <2>1, <3>1, <3>2, <3>3
    <2>5. SettledInv'
        BY <1>i, <2>1 DEF SettledInv
    <2>6. FailureInv'
        BY <1>i, <1>s, <2>1, <2>2, <2>3 DEF FailureInv
    <2> QED BY <2>4, <2>5, <2>6 DEF CycleInv
<1>8. CASE Enable
    <2>1. pc = "enable" /\ UNCHANGED snapshot /\ ~state.fault
        BY <1>8, <1>i DEF Enable, MotorInv, FaultInv
    <2>2. CASE pc' = "abort"
        <3>1. UNCHANGED <<state, pins>> /\ failures' = failures + 1
            BY <1>8, <2>2 DEF Enable, GpioFails
        <3> QED BY <1>i, <1>s, <2>1, <2>2, <3>1
                DEF CycleInv, OutputInv, SettledInv, FailureInv, Addressed
    <2>3. CASE pc' # "abort"
        <3>1. /\ pins'.e3 = 1 /\ pins'.a1 = pins.a1 /\ pins'.a2 = pins.a2
              /\ failures' = failures /\ pc' = "finish" /\ state' = Committed(state)
            BY <1>8, <1>s, <2>3 DEF Enable, GpioSet, PinsT
        <3>2. /\ state'.desired = state.desired /\ state'.applied = state.desired
              /\ state'.accepted = state.accepted /\ state'.appliedSeq = state.accepted
              /\ state'.fault = state.fault
            BY <1>s, <3>1 DEF Committed, SnapshotT
        <3>3. OutputInv' /\ SettledInv' /\ FailureInv'
            BY <1>i, <2>1, <3>1, <3>2 DEF OutputInv, SettledInv, FailureInv, Addressed
        <3> QED BY <3>3 DEF CycleInv
    <2> QED BY <2>2, <2>3
<1>9. CASE Abort
    <2>1. /\ state' = Failed(state) /\ state'.fault /\ pc' = "latch" /\ UNCHANGED snapshot
          /\ pc = "abort"
        BY <1>9, <1>s, FailedFacts DEF Abort
    <2>2. state'.accepted = state.accepted /\ state'.appliedSeq = state.appliedSeq
        BY <1>s, <2>1 DEF Failed, CancelTimer, SnapshotT
    <2>3. failures >= 1
        BY <1>i, <2>1 DEF FailureInv
    <2>4. failures' <= 1 => pins'.e3 = 0
        BY <1>9, <1>s, <2>3 DEF Abort, BestEffortDisable, GpioSet, GpioFails, PinsT
    <2>5. OutputInv' /\ SettledInv' /\ FailureInv'
        BY <1>i, <2>1, <2>2, <2>4 DEF OutputInv, SettledInv, FailureInv
    <2> QED BY <2>5 DEF CycleInv
<1>10. CASE LatchFault
    <2>1. /\ UNCHANGED <<state, snapshot, pins, failures>> /\ pc = "latch"
          /\ pc' \in {"bootfail", "finish"}
        BY <1>10 DEF LatchFault
    <2>2. state.fault
        BY <1>i, <2>1 DEF FaultInv
    <2> QED BY <1>i, <2>1, <2>2 DEF CycleInv, OutputInv, SettledInv, FailureInv
<1>11. CASE CycleFinish
    <2>1. UNCHANGED <<state, pins, failures>> /\ snapshot' = state /\ pc = "finish" /\ pc' = "sleep"
        BY <1>11 DEF CycleFinish
    <2>2. OutputInv' /\ SettledInv' /\ FailureInv'
        BY <1>i, <2>1 DEF OutputInv, SettledInv, FailureInv, Addressed
    <2> QED BY <2>2 DEF CycleInv
<1>12. CASE PanicReset \/ WarmReset \/ PowerOn
    BY <1>12, CycleRestart DEF PanicReset, WarmReset, PowerOn
<1>13. CASE OtherStep
    BY <1>13, <1>i, OtherStepKeeps
    DEF CycleInv, OutputInv, SettledInv, FailureInv, Addressed
<1> QED BY <1>1, <1>2, <1>3, <1>4, <1>5, <1>6, <1>7, <1>8, <1>9, <1>10, <1>11, <1>12, <1>13
        DEF Next, ActorStep, OtherStep

\* The invariant of the cycle holds in every state the actor reaches.
THEOREM CycleInvariant == Spec => [](TypeOK /\ SafetyInv /\ CycleInv)
<1>1. Init => CycleInv
    BY CycleInit
<1>2. TypeOK /\ SafetyInv /\ CycleInv /\ [Next]_vars => CycleInv'
    BY CycleStep
<1> QED BY <1>1, <1>2, SafetyInvariant, PTL DEF Spec

\* The two address bits together are the entry of the output table.
LEMMA AddressOfSpeed == \A v \in Speeds : 2 * BitA1(v) + 4 * BitA2(v) = OutputMap[v]
BY DEF BitA1, BitA2, OutputMap, Speeds, OFF

\* Whatever the snapshot says of a healthy fan between two cycles is what the decoder
\* drives, and no accepted command is left open.
THEOREM SnapshotIsTheOutput == Spec => []SnapshotTellsTheOutput
<1>1. TypeOK /\ SafetyInv /\ CycleInv => SnapshotTellsTheOutput
    <2> SUFFICES ASSUME TypeOK, SafetyInv, CycleInv, pc = "sleep", ~snapshot.fault
                 PROVE  /\ MotorOn <=> snapshot.applied # OFF
                        /\ MotorOn => 2 * pins.a1 + 4 * pins.a2 = OutputMap[snapshot.applied]
                        /\ snapshot.desired = snapshot.applied
                        /\ snapshot.accepted = snapshot.appliedSeq
        BY DEF SnapshotTellsTheOutput
    <2>1. /\ state \in SnapshotT /\ pins \in PinsT /\ MotorInv
          /\ OutputInv /\ SettledInv
        BY DEF TypeOK, SafetyInv, CycleInv
    <2>2. snapshot = state /\ state.applied \in Speeds
        BY <2>1 DEF SettledInv, SnapshotT
    <2>3. state.desired = state.applied /\ state.accepted = state.appliedSeq
        BY <2>1, <2>2 DEF SettledInv
    <2>4. CASE state.applied = OFF
        BY <2>1, <2>2, <2>3, <2>4 DEF MotorInv, MotorOn
    <2>5. CASE state.applied # OFF
        <3>1. pins.e3 = 1 /\ Addressed(state.applied)
            BY <2>1, <2>2, <2>5 DEF OutputInv
        <3> QED BY <2>2, <2>3, <2>5, <3>1, AddressOfSpeed DEF MotorOn, Addressed
    <2> QED BY <2>4, <2>5
<1> QED BY <1>1, CycleInvariant, PTL

\* As long as one GPIO write at most has failed, a published fault means that E3 is low.
THEOREM OneFailureIsSafe == Spec => []OneFailureStopsMotor
<1>1. TypeOK /\ SafetyInv /\ CycleInv => OneFailureStopsMotor
    BY DEF CycleInv, SettledInv, FailureInv, OneFailureStopsMotor, MotorOn
<1> QED BY <1>1, CycleInvariant, PTL

----------------------------------------------------------------------------
(* The retained fault.                                                     *)

\* With one failure at most, every step preserves the invariant of the marker.
LEMMA LatchStep ==
    ASSUME MaxFailures <= 1
    PROVE  TypeOK /\ SafetyInv /\ LatchInv /\ [Next]_vars => LatchInv'
<1> SUFFICES ASSUME TypeOK, SafetyInv, LatchInv, [Next]_vars PROVE LatchInv'
    OBVIOUS
<1> USE DEF actorVars, timeVars, sharedVars, taskVars, rtcVars, boundVars
<1>s. /\ failures \in Nat /\ failures <= MaxFailures /\ MaxFailures \in Nat
      /\ everLatched \in BOOLEAN /\ retained \in BOOLEAN /\ initialized \in BOOLEAN
    BY BoundsAssumption DEF TypeOK
<1>1. CASE BootInit \/ Disable \/ SetAddressA1 \/ SetAddressA2 \/ Enable
    <2>1. CASE failures' = failures
        <3>1. UNCHANGED <<retained, everLatched>> /\ pc' \notin {"abort", "latch", "boot"}
            BY <1>1, <1>s, <2>1 DEF BootInit, Disable, SetAddressA1, SetAddressA2, Enable, GpioFails
        <3> QED BY <3>1, <2>1 DEF LatchInv
    <2>2. CASE failures' # failures
        <3>1. failures < MaxFailures /\ failures' = failures + 1 /\ UNCHANGED everLatched
              /\ pc' # "boot"
            BY <1>1, <2>2
            DEF BootInit, Disable, SetAddressA1, SetAddressA2, Enable, GpioFails, GpioSet
        <3>2. failures = 0 /\ failures' = 1
            BY <1>s, <3>1
        <3>3. ~everLatched
            BY <3>2 DEF LatchInv
        <3> QED BY <3>1, <3>2, <3>3 DEF LatchInv
    <2> QED BY <2>1, <2>2
<1>2. CASE BootFinish(TRUE) \/ BootFinish(FALSE) \/ CycleStart \/ CycleFinish
    BY <1>2 DEF LatchInv, BootFinish, CycleStart, CycleFinish
<1>3. CASE ReceiveCommand \/ ReceiveNothing
    BY <1>3 DEF LatchInv, ReceiveCommand, ReceiveNothing, Settle
<1>4. CASE Abort
    <2>1. failures >= 1 /\ ~everLatched
        BY <1>4 DEF Abort, LatchInv
    <2> QED BY <1>4, <1>s, <2>1 DEF Abort, LatchInv, BestEffortDisable, GpioSet, GpioFails
<1>5. CASE LatchFault
    BY <1>5 DEF LatchFault, LatchInv
<1>6. CASE PanicReset \/ WarmReset \/ PowerOn
    BY <1>6 DEF PanicReset, WarmReset, PowerOn, Restart, LatchInv
<1>7. CASE OtherStep
    BY <1>7, OtherStepKeeps DEF LatchInv
<1> QED BY <1>1, <1>2, <1>3, <1>4, <1>5, <1>6, <1>7 DEF Next, ActorStep, OtherStep

\* A fault that was latched holds in every life of the chip until a power-on, if at most
\* one GPIO write fails.  (A second failure at boot writes the marker again, and a reset
\* between the two stores loses it.)
THEOREM FaultSurvives ==
    ASSUME MaxFailures <= 1
    PROVE  Spec => []FaultSurvivesReset
<1>1. Init => LatchInv
    BY DEF Init, LatchInv
<1>2. TypeOK /\ SafetyInv /\ LatchInv /\ [Next]_vars => LatchInv'
    BY LatchStep
<1>3. SafetyInv /\ LatchInv => FaultSurvivesReset
    BY DEF SafetyInv, FaultInv, LatchInv, FaultSurvivesReset
<1> QED BY <1>1, <1>2, <1>3, SafetyInvariant, PTL DEF Spec

----------------------------------------------------------------------------
(* The shutoff timer, for every width of the tick counter.                 *)

\* The tick counter has two values at least, and a timed mode a duration below its width.
LEMMA DurationFacts ==
    /\ TickMod \in Nat /\ TickMod >= 2
    /\ \A mode \in Modes : mode # ALWAYS_ON => Durations[mode] \in 1 .. TickMod - 1
<1>1. \A mode \in Modes : mode # ALWAYS_ON => Durations[mode] \in 1 .. TickMod - 1
    BY DurationsAssumption DEF Modes, ALWAYS_ON
<1>2. Durations[0] \in 1 .. TickMod - 1
    BY DurationsAssumption
<1> QED BY <1>1, <1>2, TickModAssumption

\* Wrapping subtraction, and the step of the counter.
LEMMA WrapFacts ==
    /\ \A x, y \in Ticks : (x - y) % TickMod = IF x >= y THEN x - y ELSE x - y + TickMod
    /\ \A x \in Ticks : (x + 1) % TickMod = IF x = TickMod - 1 THEN 0 ELSE x + 1
<1>1. \A x, y \in 0 .. TickMod - 1 :
            (x - y) % TickMod = IF x >= y THEN x - y ELSE x - y + TickMod
    BY TickModAssumption
<1>2. \A x \in 0 .. TickMod - 1 : (x + 1) % TickMod = IF x = TickMod - 1 THEN 0 ELSE x + 1
    BY TickModAssumption
<1> QED BY <1>1, <1>2 DEF Ticks

\* One tick later the wrapped difference is one larger, unless it is at its end.
LEMMA NextDifference ==
    \A x, y \in Ticks :
        /\ (x - x) % TickMod = 0 /\ (x - y) % TickMod \in Nat
        /\ (x + 1) % TickMod \in Ticks
        /\ (x + 1) % TickMod # x
        /\ (((x + 1) % TickMod) - x) % TickMod = 1
        /\ (x - y) % TickMod < TickMod - 1 =>
                (((x + 1) % TickMod) - y) % TickMod = ((x - y) % TickMod) + 1
<1> TAKE x, y \in Ticks
<1> DEFINE n == (x + 1) % TickMod
<1>1. n = IF x = TickMod - 1 THEN 0 ELSE x + 1
    BY WrapFacts
<1>2. x \in 0 .. TickMod - 1 /\ y \in 0 .. TickMod - 1 /\ TickMod \in Nat /\ TickMod >= 2
    BY DurationFacts DEF Ticks
<1>3. n \in Ticks
    BY <1>1, <1>2 DEF Ticks
<1> HIDE DEF n
<1>4. /\ (n - x) % TickMod = IF n >= x THEN n - x ELSE n - x + TickMod
      /\ (n - y) % TickMod = IF n >= y THEN n - y ELSE n - y + TickMod
      /\ (x - y) % TickMod = IF x >= y THEN x - y ELSE x - y + TickMod
      /\ (x - x) % TickMod = 0
    BY <1>2, <1>3, WrapFacts
<1>5. /\ n # x /\ (n - x) % TickMod = 1
      /\ (x - y) % TickMod \in Nat
      /\ (x - y) % TickMod < TickMod - 1 => (n - y) % TickMod = ((x - y) % TickMod) + 1
    BY <1>1, <1>2, <1>4
<1> QED BY <1>3, <1>4, <1>5 DEF n

\* A command starts a timer only for a fan that is on, and a timer that it does not
\* restart keeps its mode.
LEMMA TimerAfterCommand ==
    ASSUME NEW s \in SnapshotT, NEW c \in MessageT,
           s.active => s.mode # ALWAYS_ON /\ s.desired # OFF
    PROVE  /\ InterpretCommand(s, c).active =>
                    /\ InterpretCommand(s, c).mode # ALWAYS_ON
                    /\ InterpretCommand(s, c).desired # OFF
           /\ InterpretCommand(s, c).active /\ ~RestartsTimer(s, c) =>
                    s.active /\ InterpretCommand(s, c).mode = s.mode
<1>1. CASE c.action = "CYCLE_TIMER"
    <2>1. /\ InterpretCommand(s, c).active = CycleTimer([s EXCEPT !.accepted = c.seq]).active
          /\ InterpretCommand(s, c).mode = CycleTimer([s EXCEPT !.accepted = c.seq]).mode
          /\ InterpretCommand(s, c).desired = s.desired
        BY <1>1 DEF InterpretCommand, CycleTimer, SnapshotT, MessageT
    <2> QED BY <1>1, <2>1 DEF CycleTimer, RestartsTimer, SnapshotT
<1>2. CASE c.action # "CYCLE_TIMER"
    BY <1>2 DEF InterpretCommand, OffCancelsTimer, CancelTimer, SnapshotT, MessageT
<1> QED BY <1>1, <1>2

\* A timer that the cycle leaves running has not reached its duration.
LEMMA TimerAfterCheck ==
    ASSUME NEW s \in SnapshotT, NEW since \in Ticks, lastWake \in Ticks,
           s.active => s.mode # ALWAYS_ON /\ s.desired # OFF,
           ExpireTimer(s, since).active
    PROVE  /\ s.active /\ ExpireTimer(s, since) = s
           /\ (lastWake - since) % TickMod < Durations[s.mode]
<1>1. s.active /\ ~TimerExpired(s, since) /\ ExpireTimer(s, since) = s
    BY DEF ExpireTimer, CancelTimer, SnapshotT
<1>2. (lastWake - since) % TickMod \in Int /\ Durations[s.mode] \in Int
    BY <1>1, NextDifference, DurationFacts DEF SnapshotT
<1> QED BY <1>1, <1>2 DEF TimerExpired, TickElapsed, ShutoffDuration

\* Every step preserves the invariants of the clock and of the timer.
LEMMA TimerStep ==
    TypeOK /\ SafetyInv /\ ClockInv /\ TimerInv /\ [Next]_vars => ClockInv' /\ TimerInv'
<1> SUFFICES ASSUME TypeOK, SafetyInv, ClockInv, TimerInv, [Next]_vars
             PROVE  ClockInv' /\ TimerInv'
    OBVIOUS
<1> USE DEF actorVars, timeVars, sharedVars, taskVars, rtcVars, boundVars
<1>s. /\ state \in SnapshotT /\ now \in Ticks /\ lastWake \in Ticks /\ started \in Ticks
      /\ age \in Nat /\ state.mode \in Modes /\ Since \in Nat
    <2>1. state \in SnapshotT /\ now \in Ticks /\ lastWake \in Ticks /\ started \in Ticks
        BY DEF TypeOK
    <2>2. age \in Nat
        BY TickModAssumption DEF TypeOK
    <2> QED BY <2>1, <2>2, NextDifference DEF SnapshotT, Since
<1>i. FaultInv
    BY DEF SafetyInv
<1>1. CASE BootInit
    <2>1. state = BootState /\ UNCHANGED timeVars
        BY <1>1, <1>i DEF BootInit, FaultInv
    <2>2. state'.active = FALSE
        BY <1>1, <2>1 DEF BootInit, BootState, Failed, CancelTimer
    <2> QED BY <2>1, <2>2 DEF ClockInv, TimerInv
<1>2. CASE BootFinish(TRUE) \/ BootFinish(FALSE)
    <2>1. /\ state'.active = state.active /\ state'.mode = state.mode
          /\ state'.desired = state.desired /\ state'.fault = state.fault
        BY <1>2, <1>s DEF BootFinish, SnapshotT
    <2>2. UNCHANGED <<timeVars, maint>> /\ pc \notin {"receive", "sleep"} /\ pc' # "receive"
        BY <1>2 DEF BootFinish
    <2> QED BY <2>1, <2>2 DEF ClockInv, TimerInv, Since, Lag
<1>3. CASE CycleStart
    <2>1. /\ now = (lastWake + 1) % TickMod /\ now # lastWake /\ pc = "sleep"
          /\ lastWake' = now /\ UNCHANGED <<now, started, age>> /\ pc' = "receive"
          /\ maint' = maintenance
        BY <1>3 DEF CycleStart, ClockInv
    <2>2. Lag = 1 /\ Lag' = 0 /\ Since' = (now - started) % TickMod
        BY <2>1 DEF Lag, Since
    <2>3. CASE ~state.fault /\ maintenance
        BY <1>3, <1>s, <2>1, <2>3 DEF CycleStart, CancelTimer, SnapshotT, ClockInv, TimerInv
    <2>4. CASE state.fault \/ ~maintenance
        <3>1. /\ state'.active = state.active /\ state'.mode = state.mode
              /\ state'.desired = state.desired /\ state'.fault = state.fault
            BY <1>3, <1>s, <2>4 DEF CycleStart, SnapshotT
        <3>2. state.active => Since < Durations[state.mode]
                              /\ Durations[state.mode] \in 1 .. TickMod - 1
                              /\ age = Since + 1
            BY <1>s, <2>1, <2>2, DurationFacts DEF TimerInv
        <3>3. state.active => Since' = Since + 1
            BY <1>s, <2>1, <2>2, <3>2, NextDifference, DurationFacts DEF Since
        <3>4. state.active => age' = Since' + Lag' /\ Since' <= Durations[state.mode]
            BY <1>s, <2>1, <2>2, <3>2, <3>3
        <3>5. state.fault \/ maint' => ~state'.active
            BY <2>1, <2>4, <3>1 DEF TimerInv
        <3> QED BY <2>1, <3>1, <3>4, <3>5 DEF ClockInv, TimerInv
    <2> QED BY <2>3, <2>4
<1>4. CASE ReceiveCommand
    <2>1. /\ mailbox \in MessageT /\ ~state.fault /\ ~maint
          /\ UNCHANGED <<maint, now, lastWake>>
        BY <1>4 DEF ReceiveCommand, TypeOK
    <2> DEFINE s     == InterpretCommand(state, mailbox)
               since == IF RestartsTimer(state, mailbox) THEN lastWake ELSE started
    <2>2. s \in SnapshotT /\ since \in Ticks /\ started' = since /\ s.fault = state.fault
        BY <1>4, <1>s, <2>1, InterpretType, InterpretKeeps DEF ReceiveCommand
    <2>3. /\ s.active => s.mode # ALWAYS_ON /\ s.desired # OFF
          /\ s.active /\ ~RestartsTimer(state, mailbox) => state.active /\ s.mode = state.mode
        BY <1>s, <2>1, TimerAfterCommand DEF TimerInv
    <2>4. Settle(ExpireTimer(s, since))
        BY <1>4 DEF ReceiveCommand
    <2>5. s.accepted # 0
        BY <1>s, <2>1, InterpretFacts
    <2>a. s.active => age' = ((lastWake - since) % TickMod) + Lag
        <3>1. CASE RestartsTimer(state, mailbox)
            <4>1. age' = (now - lastWake) % TickMod /\ (lastWake - since) % TickMod = 0
                BY <1>4, <1>s, <3>1, NextDifference DEF ReceiveCommand
            <4>2. (now - lastWake) % TickMod = Lag
                BY <1>s, NextDifference DEF ClockInv, Lag
            <4> QED BY <4>1, <4>2 DEF Lag
        <3>2. CASE ~RestartsTimer(state, mailbox)
            <4>1. age' = age /\ since = started
                BY <1>4, <3>2 DEF ReceiveCommand
            <4> QED BY <2>3, <3>2, <4>1 DEF TimerInv, Since
        <3> QED BY <3>1, <3>2
    <2> HIDE DEF s, since
    <2> DEFINE e == ExpireTimer(s, since)
    <2>6. /\ e \in SnapshotT /\ e.accepted # 0 /\ e.fault = state.fault
          /\ e.active => s.active /\ e = s /\ (lastWake - since) % TickMod < Durations[s.mode]
        BY <1>s, <2>2, <2>3, <2>5, ExpireTimerType, ExpireTimerNumbers, ExpireTimerKeeps,
           TimerAfterCheck
    <2>7. Settle(e)
        BY <2>4
    <2> HIDE DEF e
    <2>8. /\ state'.active = e.active /\ state'.mode = e.mode /\ state'.desired = e.desired
          /\ state'.fault = e.fault /\ pc' \in {"disable", "finish"}
        BY <2>6, <2>7, SettleFacts
    <2>9. Since' = (lastWake - since) % TickMod /\ Lag' = Lag
        BY <2>1, <2>2 DEF Since, Lag
    <2>10. (lastWake - since) % TickMod \in Nat
        BY <1>s, <2>2, NextDifference
    <2>11. state'.active =>
            /\ s.active /\ state'.mode = s.mode /\ state'.desired = s.desired
            /\ age' = Since' + Lag' /\ Since' < Durations[s.mode]
            /\ Since' <= Durations[s.mode]
        <3> SUFFICES ASSUME state'.active
                     PROVE  /\ s.active /\ state'.mode = s.mode /\ state'.desired = s.desired
                            /\ age' = Since' + Lag' /\ Since' < Durations[s.mode]
                            /\ Since' <= Durations[s.mode]
            OBVIOUS
        <3>1. Durations[s.mode] \in Nat
            BY <2>2, <2>3, <2>6, <2>8, DurationFacts DEF SnapshotT
        <3> QED BY <2>6, <2>8, <2>9, <2>10, <2>a, <3>1
    <2>12. TimerInv'
        BY <2>1, <2>3, <2>6, <2>8, <2>11 DEF TimerInv
    <2> QED BY <2>1, <2>12 DEF ClockInv
<1>5. CASE ReceiveNothing
    <2> DEFINE s == IF state.fault \/ maint THEN state ELSE ExpireTimer(state, started)
    <2>1. /\ s \in SnapshotT /\ s.fault = state.fault
          /\ s.accepted = state.accepted /\ s.appliedSeq = state.appliedSeq
          /\ s.active => state.active /\ s = state /\ Since < Durations[state.mode]
        <3>1. CASE state.fault \/ maint
            BY <1>5, <1>s, <3>1 DEF ReceiveNothing, TimerInv
        <3>2. CASE ~(state.fault \/ maint)
            BY <1>s, <3>2, ExpireTimerType, ExpireTimerKeeps, ExpireTimerNumbers, TimerAfterCheck
            DEF TimerInv, Since
        <3> QED BY <3>1, <3>2
    <2>2. Settle(s)
        BY <1>5 DEF ReceiveNothing
    <2> HIDE DEF s
    <2>3. /\ state'.active = s.active /\ state'.mode = s.mode /\ state'.desired = s.desired
          /\ state'.fault = s.fault /\ pc' \in {"disable", "finish"}
        BY <2>1, <2>2 DEF Settle, SettleDuplicate, SnapshotT
    <2>4. UNCHANGED <<maint, timeVars>> /\ pc = "receive"
        BY <1>5 DEF ReceiveNothing
    <2> QED BY <2>1, <2>3, <2>4 DEF ClockInv, TimerInv, Since, Lag
<1>6. CASE Disable \/ SetAddressA1 \/ SetAddressA2 \/ Enable
    <2>1. /\ state'.active = state.active /\ state'.mode = state.mode
          /\ state'.desired = state.desired /\ state'.fault = state.fault
        BY <1>6, <1>s DEF Disable, SetAddressA1, SetAddressA2, Enable, Committed, SnapshotT
    <2>2. UNCHANGED <<timeVars, maint>> /\ pc \notin {"receive", "sleep"} /\ pc' # "receive"
        BY <1>6 DEF Disable, SetAddressA1, SetAddressA2, Enable
    <2> QED BY <2>1, <2>2 DEF ClockInv, TimerInv, Since, Lag
<1>7. CASE Abort
    <2>1. state'.active = FALSE /\ UNCHANGED timeVars
        BY <1>7, <1>s, FailedFacts DEF Abort
    <2> QED BY <2>1 DEF ClockInv, TimerInv
<1>8. CASE LatchFault \/ CycleFinish
    BY <1>8 DEF LatchFault, CycleFinish, ClockInv, TimerInv, Since, Lag
<1>9. CASE Tick
    <2>1. /\ now = lastWake /\ now' = (now + 1) % TickMod
          /\ UNCHANGED <<state, pc, maint, lastWake, started>>
          /\ age' = IF age < TickMod THEN age + 1 ELSE age
        BY <1>9 DEF Tick
    <2>2. now' # lastWake' /\ Lag = 0 /\ Lag' = 1 /\ Since' = Since
        BY <1>s, <2>1, NextDifference DEF Lag, Since
    <2>3. state.active => age = Since /\ age < TickMod
        BY <1>s, <2>2, DurationFacts DEF TimerInv
    <2>4. state.active => age' = Since' + Lag'
        BY <1>s, <2>1, <2>2, <2>3
    <2> QED BY <2>1, <2>2, <2>4 DEF ClockInv, TimerInv
<1>10. CASE PanicReset \/ WarmReset \/ PowerOn
    BY <1>10 DEF PanicReset, WarmReset, PowerOn, Restart, BootState, ClockInv, TimerInv
<1>11. CASE \/ (\E c \in Clients : ClientStep(c)) \/ (\E m \in Maintainers : MaintainerStep(m))
            \/ UNCHANGED vars
    <2>1. UNCHANGED <<state, pc, maint, now, lastWake, started, age>>
        BY <1>11 DEF ClientStep, SubmitCheck, Submit, SubmitRefused, MaintainerStep, Quiesce,
                     QuiesceGranted, QuiesceTimeout, EndMaintenance, vars
    <2> QED BY <2>1 DEF ClockInv, TimerInv, Since, Lag
<1> QED BY <1>1, <1>2, <1>3, <1>4, <1>5, <1>6, <1>7, <1>8, <1>9, <1>10, <1>11
        DEF Next, ActorStep

\* The invariants of the clock and of the timer hold in every reachable state.
THEOREM TimerInvariant == Spec => [](TypeOK /\ SafetyInv /\ ClockInv /\ TimerInv)
<1>1. Init => ClockInv /\ TimerInv
    BY DEF Init, BootState, ClockInv, TimerInv
<1>2. TypeOK /\ SafetyInv /\ ClockInv /\ TimerInv /\ [Next]_vars => ClockInv' /\ TimerInv'
    BY TimerStep
<1> QED BY <1>1, <1>2, SafetyInvariant, PTL DEF Spec

\* The timer shuts the fan off in the cycle in which its duration ends, for every width of
\* the tick counter and every duration below it.
THEOREM ShutsOffOnTime == Spec => []ShutoffOnTime
<1>1. TypeOK /\ SafetyInv /\ ClockInv /\ TimerInv => ShutoffOnTime
    <2> SUFFICES ASSUME TypeOK, ClockInv, TimerInv, state.active
                 PROVE  /\ state.mode # ALWAYS_ON /\ state.desired # OFF
                        /\ pc = "sleep" /\ now = lastWake => age < Durations[state.mode]
        BY DEF ShutoffOnTime
    <2>1. Since \in Nat
        BY NextDifference DEF TypeOK, Since
    <2> QED BY <2>1 DEF TimerInv, Lag
<1> QED BY <1>1, TimerInvariant, PTL

\* The timer never shuts the fan off before its duration has passed, also when the tick
\* counter wraps or another command restarts it.
THEOREM NeverShutsOffEarly == Spec => NoEarlyShutoff
<1>1. TypeOK /\ SafetyInv /\ ClockInv /\ TimerInv /\ [Next]_vars =>
        [pc = "receive" /\ initialized' /\ mailbox = NoCommand
         /\ state.desired # OFF /\ state'.desired = OFF
            => age - ((now - lastWake) % TickMod) >= Durations[state.mode]]_vars
    <2> SUFFICES ASSUME TypeOK, SafetyInv, ClockInv, TimerInv, [Next]_vars,
                        pc = "receive", initialized', mailbox = NoCommand,
                        state.desired # OFF, state'.desired = OFF
                 PROVE  age - ((now - lastWake) % TickMod) >= Durations[state.mode]
        OBVIOUS
    <2>s. /\ state \in SnapshotT /\ now \in Ticks /\ lastWake \in Ticks /\ started \in Ticks
          /\ FaultInv /\ Since \in Nat
        BY NextDifference DEF TypeOK, SafetyInv, Since
    <2>1. CASE ReceiveNothing
        <3>1. ~state.fault /\ ~maint
            BY <2>s DEF FaultInv
        <3> DEFINE e == ExpireTimer(state, started)
        <3>2. e \in SnapshotT /\ Settle(e)
            BY <2>1, <2>s, <3>1, ExpireTimerType DEF ReceiveNothing
        <3>3. ~TimerExpired(state, started) => e = state
            BY DEF ExpireTimer
        <3> HIDE DEF e
        <3>4. state'.desired = e.desired
            BY <3>2 DEF Settle, SettleDuplicate, SnapshotT
        <3>5. TimerExpired(state, started)
            BY <3>3, <3>4
        <3>6. state.active /\ Since >= Durations[state.mode]
            BY <3>5 DEF TimerExpired, TickElapsed, ShutoffDuration, Since
        <3>7. age = Since + Lag /\ Durations[state.mode] \in Nat
            BY <2>s, <3>6, DurationFacts DEF TimerInv, SnapshotT
        <3>8. (now - lastWake) % TickMod = Lag
            BY <2>s, NextDifference DEF ClockInv, Lag
        <3> QED BY <2>s, <3>6, <3>7, <3>8 DEF Lag
    <2>2. ~(PanicReset \/ WarmReset \/ PowerOn)
        BY DEF PanicReset, WarmReset, PowerOn, Restart
    <2>3. ~OtherStep
        BY OtherStepKeeps
    <2>4. CASE ActorStep
        BY <2>1, <2>4 DEF ActorStep, BootInit, BootFinish, CycleStart, ReceiveCommand, Disable,
              SetAddressA1, SetAddressA2, Enable, Abort, LatchFault, CycleFinish
    <2> QED BY <2>2, <2>3, <2>4 DEF Next, OtherStep
<1> QED BY <1>1, TimerInvariant, PTL DEF Spec, NoEarlyShutoff

----------------------------------------------------------------------------
(* The quiesce timeout.                                                    *)

\* Every step preserves the invariant of the start.
LEMMA StartStep == TypeOK /\ StartInv /\ [Next]_vars => StartInv'
<1> SUFFICES ASSUME TypeOK, StartInv, [Next]_vars PROVE StartInv'
    OBVIOUS
<1> USE DEF actorVars, timeVars, sharedVars, taskVars, rtcVars, boundVars
<1>s. state \in SnapshotT /\ holder \in [Maintainers -> {"idle", "waiting", "holding"}]
    BY DEF TypeOK
<1>1. CASE BootInit
    <2>1. ~initialized /\ UNCHANGED <<initialized, holder>>
        BY <1>1 DEF BootInit, StartInv
    <2> QED BY <2>1 DEF StartInv
<1>2. ASSUME NEW ok \in BOOLEAN, BootFinish(ok) PROVE StartInv'
    <2>1. state'.status # "STARTING" /\ UNCHANGED holder /\ ~initialized /\ initialized' = ok
        BY <1>2, <1>s DEF BootFinish, SnapshotT, StartInv
    <2>2. initialized' => pc' = "sleep"
        BY <1>2 DEF BootFinish
    <2> QED BY <2>1, <2>2 DEF StartInv
<1>3. CASE CycleStart
    <2>1. state'.status \in {"MAINTENANCE", "READY", state.status}
        BY <1>3, <1>s DEF CycleStart, CancelTimer, SnapshotT
    <2> QED BY <1>3, <2>1 DEF CycleStart, StartInv
<1>4. CASE ReceiveCommand
    <2>1. mailbox \in MessageT /\ lastWake \in Ticks /\ started \in Ticks
        BY <1>4 DEF ReceiveCommand, TypeOK
    <2> DEFINE s == InterpretCommand(state, mailbox)
    <2>2. s \in SnapshotT /\ s.status = state.status
        <3>1. s \in SnapshotT
            BY <1>s, <2>1, InterpretType
        <3>2. s.status = state.status
            BY <1>s, <2>1
            DEF InterpretCommand, OffCancelsTimer, CycleTimer, CancelTimer, SnapshotT, MessageT
        <3> QED BY <3>1, <3>2
    <2> HIDE DEF s
    <2>3. PICK since \in Ticks : Settle(ExpireTimer(s, since))
        BY <1>4, <2>1 DEF ReceiveCommand, s
    <2>4. ExpireTimer(s, since) \in SnapshotT /\ ExpireTimer(s, since).status = state.status
        <3>1. ExpireTimer(s, since) \in SnapshotT
            BY <2>2, ExpireTimerType
        <3>2. ExpireTimer(s, since).status = s.status
            BY <2>2 DEF ExpireTimer, CancelTimer, SnapshotT
        <3> QED BY <2>2, <3>1, <3>2
    <2>5. state'.status = state.status /\ pc' \in {"disable", "finish"}
        BY <2>3, <2>4, SettleDuplicateKeeps DEF Settle
    <2> QED BY <1>4, <2>5 DEF ReceiveCommand, StartInv
<1>5. CASE ReceiveNothing
    <2> DEFINE s == IF state.fault \/ maint THEN state ELSE ExpireTimer(state, started)
    <2>1. s \in SnapshotT
        BY <1>s, ExpireTimerType DEF TypeOK
    <2>2. s.status = state.status
        BY <1>s DEF ExpireTimer, CancelTimer, SnapshotT
    <2>3. Settle(s)
        BY <1>5 DEF ReceiveNothing
    <2> HIDE DEF s
    <2>4. state'.status = state.status /\ pc' \in {"disable", "finish"}
        BY <2>1, <2>2, <2>3, SettleDuplicateKeeps DEF Settle
    <2> QED BY <1>5, <2>4 DEF ReceiveNothing, StartInv
<1>6. CASE Disable \/ SetAddressA1 \/ SetAddressA2 \/ Enable
    <2>1. state'.status = state.status /\ UNCHANGED <<initialized, holder>>
          /\ pc' \notin {"boot", "bootfail", "suspended"}
        BY <1>6, <1>s, CommittedFacts DEF Disable, SetAddressA1, SetAddressA2, Enable
    <2> QED BY <2>1 DEF StartInv
<1>7. CASE Abort
    <2>1. state.status # "STARTING" => state'.status # "STARTING"
        BY <1>7, <1>s DEF Abort, Failed, CancelTimer, SnapshotT
    <2> QED BY <1>7, <2>1 DEF Abort, StartInv
<1>8. CASE LatchFault \/ CycleFinish
    BY <1>8 DEF LatchFault, CycleFinish, StartInv
<1>9. CASE PanicReset \/ WarmReset \/ PowerOn
    BY <1>9 DEF PanicReset, WarmReset, PowerOn, Restart, StartInv
<1>10. CASE Tick \/ (\E c \in Clients : ClientStep(c)) \/ UNCHANGED vars
    <2>1. UNCHANGED <<state, pc, initialized, holder>>
        BY <1>10 DEF Tick, ClientStep, SubmitCheck, Submit, SubmitRefused, vars
    <2> QED BY <2>1 DEF StartInv
<1>11. ASSUME NEW m \in Maintainers, MaintainerStep(m) PROVE StartInv'
    <2>1. UNCHANGED <<state, pc, initialized>>
        BY <1>11 DEF MaintainerStep, Quiesce, QuiesceGranted, QuiesceTimeout, EndMaintenance
    <2>2. initialized
        BY <1>11 DEF MaintainerStep, Quiesce, QuiesceGranted, QuiesceTimeout, EndMaintenance,
                     StartInv
    <2> QED BY <2>1, <2>2 DEF StartInv
<1> QED BY <1>1, <1>2, <1>3, <1>4, <1>5, <1>6, <1>7, <1>8, <1>9, <1>10, <1>11
        DEF Next, ActorStep

\* Every step preserves the bound on the wait of a single maintainer.
LEMMA WaitStep ==
    ASSUME \A m, n \in Maintainers : m = n, QuiesceTicks >= 3
    PROVE  TypeOK /\ SafetyInv /\ CycleInv /\ ClockInv /\ StartInv /\ HolderInv /\ WaitInv
               /\ [Next]_vars => WaitInv'
<1> SUFFICES ASSUME TypeOK, SafetyInv, CycleInv, ClockInv, StartInv, HolderInv, WaitInv, [Next]_vars,
                    NEW m \in Maintainers,
                    holder'[m] = "waiting", ~quiesced', ~state'.fault
             PROVE  waited'[m] <= (IF maint' /\ pc' # "sleep" THEN 1 ELSE 0) + Lag'
    BY DEF WaitInv
<1> USE DEF actorVars, timeVars, sharedVars, taskVars, rtcVars, boundVars
<1>s. /\ state \in SnapshotT /\ holder \in [Maintainers -> {"idle", "waiting", "holding"}]
      /\ waited \in [Maintainers -> 0 .. QuiesceTicks] /\ QuiesceTicks \in Nat
      /\ now \in Ticks /\ lastWake \in Ticks /\ waited[m] \in Nat
    BY BoundsAssumption DEF TypeOK
<1>i. /\ FaultInv /\ SettledInv
      /\ holder[m] = "waiting" => maintenance
      /\ holder[m] = "waiting" /\ ~quiesced /\ ~state.fault =>
                waited[m] <= (IF maint /\ pc # "sleep" THEN 1 ELSE 0) + Lag
    BY DEF SafetyInv, CycleInv, HolderInv, WaitInv
<1>1. CASE BootInit \/ BootFinish(TRUE) \/ BootFinish(FALSE)
    <2>1. ~initialized /\ UNCHANGED holder
        BY <1>1 DEF BootInit, BootFinish, StartInv
    <2> QED BY <2>1 DEF StartInv
<1>2. CASE CycleStart
    <2>1. /\ pc = "sleep" /\ pc' = "receive" /\ maint' = maintenance /\ lastWake' = now
          /\ UNCHANGED <<now, holder, waited>> /\ now # lastWake
          /\ quiesced' = StillQuiesced
        BY <1>2 DEF CycleStart
    <2>2. state'.fault = state.fault
        BY <1>2, <1>s DEF CycleStart, CancelTimer, SnapshotT
    <2>3. maintenance /\ ~quiesced
        BY <1>i, <2>1 DEF StillQuiesced
    <2>4. Lag = 1 /\ Lag' = 0
        BY <2>1 DEF Lag
    <2> QED BY <1>i, <1>s, <2>1, <2>2, <2>3, <2>4
<1>3. CASE \/ ReceiveCommand \/ ReceiveNothing \/ Disable \/ SetAddressA1 \/ SetAddressA2
           \/ Enable
    <2>1. UNCHANGED <<maint, quiesced, now, lastWake, holder, waited>>
        BY <1>3 DEF ReceiveCommand, ReceiveNothing, Disable, SetAddressA1, SetAddressA2, Enable
    <2>2. pc # "sleep" /\ pc' # "sleep"
        BY <1>3 DEF ReceiveCommand, ReceiveNothing, Disable, SetAddressA1, SetAddressA2, Enable,
                    Settle
    <2>3. state.fault => state'.fault
        <3>1. CASE ReceiveCommand
            BY <3>1 DEF ReceiveCommand
        <3>2. CASE ReceiveNothing
            BY <3>2, <1>s, SettleDuplicateKeeps DEF ReceiveNothing, Settle
        <3>3. CASE Disable \/ SetAddressA1 \/ SetAddressA2 \/ Enable
            BY <3>3, <1>s, CommittedFacts DEF Disable, SetAddressA1, SetAddressA2, Enable
        <3> QED BY <1>3, <3>1, <3>2, <3>3
    <2>4. Lag' = Lag
        BY <2>1 DEF Lag
    <2> QED BY <1>i, <2>1, <2>2, <2>3, <2>4
<1>4. CASE Abort
    BY <1>4, <1>s, FailedFacts DEF Abort
<1>5. CASE LatchFault
    BY <1>5, <1>i DEF LatchFault, FaultInv
<1>6. CASE CycleFinish
    <2>1. /\ pc = "finish" /\ pc' = "sleep" /\ state' = state
          /\ UNCHANGED <<maint, now, lastWake, holder, waited>>
          /\ quiesced' = (quiesced \/ BecomesQuiesced)
        BY <1>6 DEF CycleFinish
    <2>2. ~maint
        BY <1>i, <2>1 DEF BecomesQuiesced, FaultInv, SettledInv
    <2>3. Lag' = Lag
        BY <2>1 DEF Lag
    <2> QED BY <1>i, <2>1, <2>2, <2>3
<1>7. CASE Tick
    <2>1. /\ UNCHANGED <<state, pc, maint, quiesced, lastWake, holder>>
          /\ now = lastWake /\ now' = (now + 1) % TickMod
          /\ waited'[m] = waited[m] \/ waited'[m] = waited[m] + 1
        BY <1>7 DEF Tick
    <2>2. Lag = 0 /\ Lag' = 1
        BY <1>s, <2>1, NextDifference DEF Lag
    <2> QED BY <1>i, <1>s, <2>1, <2>2
<1>8. CASE PanicReset \/ WarmReset \/ PowerOn
    BY <1>8 DEF PanicReset, WarmReset, PowerOn, Restart
<1>9. CASE (\E c \in Clients : ClientStep(c)) \/ UNCHANGED vars
    <2>1. UNCHANGED <<state, pc, maint, quiesced, now, lastWake, holder, waited>>
        BY <1>9 DEF ClientStep, SubmitCheck, Submit, SubmitRefused, vars
    <2>2. Lag' = Lag
        BY <2>1 DEF Lag
    <2> QED BY <1>i, <2>1, <2>2
<1>10. ASSUME NEW n \in Maintainers, MaintainerStep(n)
       PROVE  waited'[m] <= (IF maint' /\ pc' # "sleep" THEN 1 ELSE 0) + Lag'
    <2>1. m = n
        OBVIOUS
    <2>2. Quiesce(m)
        BY <1>10, <1>s, <2>1 DEF MaintainerStep, QuiesceGranted, QuiesceTimeout, EndMaintenance
    <2>3. waited'[m] = 0
        BY <1>s, <2>2 DEF Quiesce
    <2> QED BY <2>3 DEF Lag
<1> QED BY <1>1, <1>2, <1>3, <1>4, <1>5, <1>6, <1>7, <1>8, <1>9, <1>10 DEF Next, ActorStep

\* A single task that waits at least three periods for the fan (the code waits 25) times out
\* only when the actor has latched a fault.
THEOREM TimeoutsAreFaults ==
    ASSUME \A m, n \in Maintainers : m = n, QuiesceTicks >= 3
    PROVE  Spec => TimeoutMeansFault
<1>1. Init => ClockInv /\ StartInv /\ HolderInv /\ WaitInv
    BY DEF Init, ClockInv, StartInv, HolderInv, WaitInv
<1>2. TypeOK /\ StartInv /\ [Next]_vars => StartInv'
    BY StartStep
<1>3. TypeOK /\ HolderInv /\ [Next]_vars => HolderInv'
    BY HolderStep
<1>4. TypeOK /\ SafetyInv /\ CycleInv /\ ClockInv /\ StartInv /\ HolderInv /\ WaitInv
            /\ [Next]_vars => WaitInv'
    BY WaitStep
<1>5. TypeOK /\ StartInv /\ WaitInv /\ [Next]_vars =>
        [\A m \in Maintainers :
            holder[m] = "waiting" /\ holder'[m] = "idle" /\ initialized' => state.fault]_vars
    <2> SUFFICES ASSUME TypeOK, StartInv, WaitInv, [Next]_vars, NEW m \in Maintainers,
                        holder[m] = "waiting", holder'[m] = "idle", initialized', ~state.fault
                 PROVE  FALSE
        OBVIOUS
    <2> USE DEF actorVars, timeVars, sharedVars, taskVars, rtcVars, boundVars
    <2>s. /\ holder \in [Maintainers -> {"idle", "waiting", "holding"}] /\ QuiesceTicks \in Nat
          /\ waited[m] \in Nat
        BY BoundsAssumption DEF TypeOK
    <2>1. CASE QuiesceTimeout(m)
        <3>1. ~quiesced /\ waited[m] >= 3
            BY <2>1, <2>s DEF QuiesceTimeout, WaitOver
        <3> QED BY <2>s, <3>1 DEF WaitInv, Lag
    <2>2. ~(PanicReset \/ WarmReset \/ PowerOn)
        BY DEF PanicReset, WarmReset, PowerOn, Restart
    <2>3. ASSUME NEW n \in Maintainers, MaintainerStep(n) PROVE QuiesceTimeout(m)
        BY <2>3, <2>s DEF MaintainerStep, Quiesce, QuiesceGranted, EndMaintenance
    <2>4. ~(ActorStep \/ Tick \/ (\E c \in Clients : ClientStep(c)) \/ UNCHANGED vars)
        BY DEF ActorStep, BootInit, BootFinish, CycleStart, ReceiveCommand, ReceiveNothing,
               Disable, SetAddressA1, SetAddressA2, Enable, Abort, LatchFault, CycleFinish,
               Tick, ClientStep, SubmitCheck, Submit, SubmitRefused, vars
    <2> QED BY <2>1, <2>2, <2>3, <2>4 DEF Next
<1> QED BY <1>1, <1>2, <1>3, <1>4, <1>5, CycleInvariant, TimerInvariant, PTL
        DEF Spec, TimeoutMeansFault

=============================================================================
