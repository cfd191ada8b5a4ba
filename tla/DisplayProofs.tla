----------------------------- MODULE DisplayProofs -----------------------------
(***************************************************************************)
(* The panel: what it shows, how bright it is and how far the setup        *)
(* sequence has come, for any snapshots of the fan, any keys, any number   *)
(* of failed LED writes and any times.                                     *)
(***************************************************************************)
EXTENDS Display, TLAPS

\* Outside the recovery of the driver the LEDs are those of what is noted as shown,
\* unless that rendering was not completed; the network LED is as its flag says, unless
\* its last write failed; and the flag follows a status that does not blink.
PanelInv ==
    /\ pc = "boot" => ~available
    /\ status = "CONNECTED" => visible
    /\ status = "OFFLINE" => ~visible
    /\ available /\ pc \notin {"init", "available"} =>
          /\ unfinished = {} => lit \ {NETWORK_LED} = LedsFor(rendered)
          /\ ~netFailed => (NETWORK_LED \in lit <=> visible)

\* The duty is the intended one or, after a touch, high: also while the snapshot is read.
DutyInv == available /\ ~pwmFailed => pwm = brightness \/ (waking /\ pwm = HIGH)

\* The setup sequence: SetupFollowsKeys is inductive as it stands.  An attempt that is
\* alone is in time as long as the position it is followed by, so the two end together.
SetupInv == SetupFollowsKeys

\* The inductive invariant.
DisplayInv == PanelInv /\ DutyInv /\ SetupInv

----------------------------------------------------------------------------
(* The operators.                                                          *)

\* There is a snapshot, and the only reader is the main task.
LEMMA SnapshotFacts ==
    /\ Unset \in Snapshots /\ Snapshots # {}
    /\ "main" \in Readers /\ \A r \in Readers : r = "main"
    /\ \A fan \in Snapshots :
          fan.speed \in 0 .. 4 /\ fan.timer \in 0 .. 3 /\ fan.fault \in BOOLEAN
BY RegisterAssumption, ReaderAssumption, SnapshotsAssumption DEF Unset

\* The LEDs of a rendering are LEDs of the panel, and the network LED is none of them.
LEMMA LedFacts ==
    ASSUME NEW fan \in Snapshots
    PROVE  /\ LedsFor(fan) \subseteq LEDs /\ NETWORK_LED \notin LedsFor(fan)
           /\ LedsFor(fan) # {} => FanLed[fan.speed] \in LEDs
<1>1. fan.speed \in 0 .. 4 /\ fan.timer \in 0 .. 3
    BY SnapshotFacts
<1>2. fan.speed # 0 => FanLed[fan.speed] \in LEDs /\ FanLed[fan.speed] # NETWORK_LED
    <2>1. fan.speed \in {0, 1, 2, 3, 4}
        BY <1>1
    <2> QED BY <2>1 DEF FanLed, LEDs, NETWORK_LED
<1>3. fan.timer # 0 => TimerLed[fan.timer] \in LEDs /\ TimerLed[fan.timer] # NETWORK_LED
    <2>1. fan.timer \in {0, 1, 2, 3}
        BY <1>1
    <2> QED BY <2>1 DEF TimerLed, LEDs, NETWORK_LED
<1> QED BY <1>2, <1>3 DEF LedsFor

\* What a rendering leaves, completed or not.
LEMMA RenderFacts ==
    ASSUME TypeOK, NEW fan \in Snapshots, Render(fan)
    PROVE  /\ lit' \subseteq LEDs /\ rendered' \in Snapshots \cup {NotRendered}
           /\ unfinished' \subseteq Snapshots \cup {NotRendered} /\ netFailed' \in BOOLEAN
           /\ failures' \in 0 .. MaxFailures
           /\ available =>
                 /\ unfinished' = {} => lit' \ {NETWORK_LED} = LedsFor(rendered')
                 /\ ~netFailed' => (NETWORK_LED \in lit' <=> visible)
<1>1. /\ LedsFor(fan) \subseteq LEDs /\ NETWORK_LED \notin LedsFor(fan)
      /\ NetworkLedAgain \subseteq {NETWORK_LED} /\ NETWORK_LED \in LEDs
      /\ NETWORK_LED \in NetworkLedAgain <=> visible
    BY LedFacts DEF NetworkLedAgain, NetworkLed, NETWORK_LED, LEDs, TypeOK
<1>2. Interrupted(fan) \subseteq SUBSET LEDs
    BY LedFacts DEF Interrupted, TypeOK
<1>3. CASE ~available /\ rendered' = fan /\ UNCHANGED <<lit, unfinished, netFailed, failures>>
    BY <1>3 DEF TypeOK
<1>4. CASE /\ available /\ lit' = Cleared \cup LedsFor(fan) \cup NetworkLedAgain
           /\ rendered' = fan /\ unfinished' = {} /\ netFailed' = FALSE /\ UNCHANGED failures
    <2>1. netFailed' \in BOOLEAN
        BY <1>4, Zenon
    <2>2. lit' = LedsFor(fan) \cup NetworkLedAgain
        BY <1>4 DEF Cleared
    <2>3. lit' \subseteq LEDs /\ lit' \ {NETWORK_LED} = LedsFor(fan)
        BY <1>1, <2>2
    <2>4. NETWORK_LED \in lit' <=> visible
        BY <1>1, <2>2
    <2> QED BY <1>4, <2>1, <2>3, <2>4 DEF TypeOK
<1>5. CASE /\ available /\ Fails /\ lit' = Cleared \cup LedsFor(fan)
           /\ rendered' = fan /\ unfinished' = {} /\ netFailed' = TRUE
    <2>1. netFailed' \in BOOLEAN
        BY <1>5, Zenon
    <2> QED BY <1>1, <1>5, <2>1, FailuresAssumption DEF Cleared, Fails, TypeOK
<1>6. CASE /\ available /\ Fails /\ lit' \in Interrupted(fan)
           /\ rendered' = NotedAfterFailure(fan) /\ unfinished' = {rendered} /\ netFailed' = TRUE
    <2>1. netFailed' \in BOOLEAN
        BY <1>6, Zenon
    <2> QED BY <1>2, <1>6, <2>1, FailuresAssumption DEF NotedAfterFailure, Fails, TypeOK
<1> QED BY <1>3, <1>4, <1>5, <1>6 DEF Render

\* Setting or failing to set the duty, and the end of a wake.
LEMMA DutyFacts ==
    ASSUME TypeOK
    PROVE  /\ \A level \in Levels : ApplyBrightness(level) =>
                 /\ pwm' \in Levels /\ pwmFailed' \in BOOLEAN /\ failures' \in 0 .. MaxFailures
                 /\ available /\ ~pwmFailed' => pwm' = level
           /\ EndWake =>
                 /\ pwm' \in Levels /\ pwmFailed' \in BOOLEAN /\ waking' \in BOOLEAN
                 /\ \/ available /\ pwm' = brightness
                    \/ ~available
                    \/ UNCHANGED <<waking, pwm, pwmFailed>>
           /\ PwmFails => pwm' \in Levels /\ pwmFailed' \in BOOLEAN /\ pwmFailed'
                          /\ failures' \in 0 .. MaxFailures
<1>t. /\ available \in BOOLEAN /\ pwm \in Levels /\ brightness \in Levels
      /\ pwmFailed \in BOOLEAN /\ waking \in BOOLEAN /\ failures \in 0 .. MaxFailures
    BY DEF TypeOK
<1>1. Fails => failures' \in 0 .. MaxFailures
    BY <1>t, FailuresAssumption DEF Fails
<1>2. PwmFails => /\ pwm' \in Levels /\ pwmFailed' \in BOOLEAN /\ pwmFailed'
                  /\ failures' \in 0 .. MaxFailures
    BY <1>1, <1>t, Zenon DEF PwmFails
<1>3. ASSUME NEW level \in Levels, PwmSet(level)
      PROVE  pwm' \in Levels /\ pwmFailed' \in BOOLEAN /\ (available => pwm' = level)
    BY <1>3, <1>t, Zenon DEF PwmSet
<1>4. ASSUME EndWake
      PROVE  /\ pwm' \in Levels /\ pwmFailed' \in BOOLEAN /\ waking' \in BOOLEAN
             /\ \/ available /\ pwm' = brightness
                \/ ~available
                \/ UNCHANGED <<waking, pwm, pwmFailed>>
    <2>1. CASE WakeOver
        <3>1. waking' = FALSE /\ PwmSet(brightness)
            BY <1>4, <2>1 DEF EndWake
        <3>2. waking' \in BOOLEAN
            BY <3>1, Zenon
        <3> QED BY <1>3, <1>t, <3>1, <3>2
    <2>2. CASE ~WakeOver
        BY <1>4, <1>t, <2>2 DEF EndWake
    <2> QED BY <2>1, <2>2
<1> QED BY <1>2, <1>3, <1>4, <1>t DEF ApplyBrightness

\* The register's operations keep its types.
LEMMA RegisterFacts ==
    ASSUME RegisterTypeOK
    PROVE  /\ PublishStarts => RegisterTypeOK'
           /\ \A s \in Snapshots : PublishEnds(s) => RegisterTypeOK'
           /\ ReadStarts("main") => RegisterTypeOK'
           /\ ReadReturns("main") => RegisterTypeOK'
           /\ ReadGivesUp("main") => RegisterTypeOK'
           /\ ReadDone("main") => RegisterTypeOK'
           /\ UNCHANGED registerVars => RegisterTypeOK'
           /\ result["main"] \in Snapshots
<1> USE SnapshotFacts DEF RegisterTypeOK
<1>1. ASSUME PublishStarts PROVE RegisterTypeOK'
    <2>1. publishing' \in BOOLEAN
        BY <1>1, Zenon DEF PublishStarts
    <2>2. disturbed' \in [Readers -> BOOLEAN]
        BY <1>1 DEF PublishStarts
    <2> QED BY <1>1, <2>1, <2>2 DEF PublishStarts
<1>2. ASSUME NEW s \in Snapshots, PublishEnds(s) PROVE RegisterTypeOK'
    <2>1. publishing' \in BOOLEAN
        BY <1>2, Zenon DEF PublishEnds
    <2> QED BY <1>2, <2>1 DEF PublishEnds
<1>3. ReadStarts("main") => RegisterTypeOK'
    BY DEF ReadStarts
<1>4. ReadReturns("main") => RegisterTypeOK'
    BY DEF ReadReturns
<1>5. ReadGivesUp("main") => RegisterTypeOK'
    BY DEF ReadGivesUp
<1>6. ReadDone("main") => RegisterTypeOK'
    BY DEF ReadDone
<1>7. UNCHANGED registerVars => RegisterTypeOK'
    BY DEF registerVars
<1>8. result["main"] \in Snapshots
    OBVIOUS
<1> QED BY <1>1, <1>2, <1>3, <1>4, <1>5, <1>6, <1>7, <1>8

\* What a key does to the brightness.
LEMMA KeyFacts ==
    ASSUME TypeOK, NEW key \in Keys, HandleKey(key)
    PROVE  /\ pwm' \in Levels /\ pwmFailed' \in BOOLEAN /\ failures' \in 0 .. MaxFailures
           /\ brightness' \in Levels /\ waking' \in BOOLEAN /\ wakeAge' \in 0 .. Wake
           /\ DutyInv => DutyInv'
           /\ UNCHANGED available
<1>t. /\ available \in BOOLEAN /\ pwm \in Levels /\ brightness \in Levels
      /\ pwmFailed \in BOOLEAN /\ waking \in BOOLEAN /\ wakeAge \in 0 .. Wake
      /\ failures \in 0 .. MaxFailures
    BY DEF TypeOK
<1>0. UNCHANGED available
    BY DEF HandleKey, panelVars
<1>1. CASE Dim
    <2>1. NextLevel \in Levels
        BY <1>t DEF NextLevel, Levels
    <2>2. /\ brightness' = NextLevel /\ waking' = FALSE /\ UNCHANGED wakeAge
          /\ ApplyBrightness(NextLevel)
        BY <1>1 DEF Dim
    <2>3. waking' \in BOOLEAN
        BY <2>2, Zenon
    <2>4. /\ pwm' \in Levels /\ pwmFailed' \in BOOLEAN /\ failures' \in 0 .. MaxFailures
          /\ available /\ ~pwmFailed' => pwm' = NextLevel
        BY <2>1, <2>2, DutyFacts
    <2> QED BY <1>0, <1>t, <2>1, <2>2, <2>3, <2>4 DEF DutyInv
<1>2. CASE UNCHANGED <<dimVars, failures>>
    BY <1>0, <1>2, <1>t DEF dimVars, DutyInv
<1>3. CASE WakeLeds /\ brightness # HIGH
    <2>1. waking' = TRUE /\ wakeAge' = 0 /\ ApplyBrightness(HIGH) /\ UNCHANGED brightness
        BY <1>3 DEF WakeLeds
    <2>2. waking' \in BOOLEAN
        BY <2>1, Zenon
    <2>3. HIGH \in Levels
        BY DEF HIGH, Levels
    <2>4. /\ pwm' \in Levels /\ pwmFailed' \in BOOLEAN /\ failures' \in 0 .. MaxFailures
          /\ available /\ ~pwmFailed' => pwm' = HIGH
        BY <2>1, <2>3, DutyFacts
    <2>5. DutyInv'
        BY <1>0, <2>1, <2>4 DEF DutyInv
    <2>6. wakeAge' \in 0 .. Wake
        BY <2>1, TimesAssumption
    <2> QED BY <1>0, <1>t, <2>1, <2>2, <2>4, <2>5, <2>6
<1> QED BY <1>1, <1>2, <1>3 DEF HandleKey, WakeLeds

----------------------------------------------------------------------------
(* The setup sequence.                                                     *)

\* Older by a tick.
Older(age) == IF age <= SequenceTimeout THEN age + 1 ELSE age

\* The attempts grow older and do not change otherwise.
LEMMA AgeFacts ==
    ASSUME TypeOK, Tick
    PROVE  /\ threads' \subseteq ThreadT
           /\ \A t \in threads : \E v \in threads' : v.length = t.length /\ v.age = Older(t.age)
           /\ \A v \in threads' : \E t \in threads :
                 v.length = t.length /\ v.age = Older(t.age) /\ v.alone = t.alone
<1>1. threads' = {[t EXCEPT !.age = Older(t.age)] : t \in threads}
    BY DEF Tick, Older
<1>2. \A t \in threads :
         /\ [t EXCEPT !.age = Older(t.age)].length = t.length
         /\ [t EXCEPT !.age = Older(t.age)].age = Older(t.age)
         /\ [t EXCEPT !.age = Older(t.age)].alone = t.alone
         /\ [t EXCEPT !.age = Older(t.age)] \in ThreadT
    BY TimesAssumption DEF TypeOK, ThreadT, Older
<1> QED BY <1>1, <1>2

\* A key moves the position and the attempt that it is the position of.
LEMMA SequenceStep ==
    ASSUME TypeOK, SetupInv, NEW key \in Keys, SetupSequence(key)
    PROVE  /\ SetupInv' /\ position' \in 0 .. 3 /\ startedAge' \in 0 .. SequenceTimeout + 1
           /\ threads' \subseteq ThreadT
<1> DEFINE from == IF Late THEN 0 ELSE position
           to   == PositionAfter(from, key)
           next == GoingOn(key)
           all  == ThreadsAfter(key)
           Followed(t) == t.length = position' /\ t.age = startedAge'
<1>t. /\ position \in 0 .. 3 /\ startedAge \in 0 .. SequenceTimeout + 1
      /\ SequenceTimeout \in Nat \ {0}
      /\ \A t \in threads : /\ t.length \in 1 .. 3 /\ t.age \in 0 .. SequenceTimeout + 1
                            /\ t.alone \in BOOLEAN /\ t \in ThreadT
    BY TimesAssumption DEF TypeOK, ThreadT
<1>1. /\ position' = to % 4
      /\ startedAge' = IF to = 1 \/ to % 4 = 0 THEN 0 ELSE startedAge
      /\ threads' = IF to = 4 THEN {} ELSE {t \in all : t.length < 4}
    BY DEF SetupSequence
<1>2. /\ from \in 0 .. 3
      /\ from # 0 => \E u \in threads : /\ u.length = from /\ u.age = startedAge
                                        /\ u.age <= SequenceTimeout
      /\ \A u \in threads : u.alone /\ u.age <= SequenceTimeout =>
            from # 0 /\ u.length = from /\ u.age = startedAge
    BY <1>t DEF SetupInv, SetupFollowsKeys, Late
<1>3. \A w \in next : \E u \in threads :
            /\ u.age <= SequenceTimeout /\ key = Sequence[u.length + 1]
            /\ w = [u EXCEPT !.length = u.length + 1]
    BY DEF GoingOn
<1>4. \A u \in threads : u.age <= SequenceTimeout /\ key = Sequence[u.length + 1] =>
            [u EXCEPT !.length = u.length + 1] \in next
    BY DEF GoingOn
<1>5. \A u \in threads :
            /\ [u EXCEPT !.length = u.length + 1].length = u.length + 1
            /\ [u EXCEPT !.length = u.length + 1].age = u.age
            /\ [u EXCEPT !.length = u.length + 1].alone = u.alone
            /\ u.length + 1 < 4 => [u EXCEPT !.length = u.length + 1] \in ThreadT
    BY <1>t DEF ThreadT
<1>6. /\ \A w \in all : w \in next \/ (key = Sequence[1] /\ w.length = 1 /\ w.age = 0
                                        /\ w \in ThreadT /\ (w.alone => next = {}))
      /\ key = Sequence[1] => \E w \in all : w.length = 1 /\ w.age = 0
      /\ next \subseteq all
    <2> DEFINE new == [length |-> 1, age |-> 0, alone |-> next = {}]
    <2>1. all = next \cup (IF key = Sequence[1] THEN {new} ELSE {})
        BY DEF ThreadsAfter
    <2>2. new.length = 1 /\ new.age = 0 /\ (new.alone => next = {})
        BY Zenon
    <2>3. new \in ThreadT
        <3> DEFINE b == next = {}
        <3>1. b \in BOOLEAN
            BY Zenon
        <3> HIDE DEF b
        <3>2. [length |-> 1, age |-> 0, alone |-> b] \in ThreadT
            BY <1>t, <3>1 DEF ThreadT
        <3> QED BY <3>2 DEF b
    <2> HIDE DEF new, next, all
    <2> QED BY <2>1, <2>2, <2>3
<1>7. to = IF key = Sequence[from + 1] THEN from + 1 ELSE IF key = Sequence[1] THEN 1 ELSE 0
    BY DEF PositionAfter
<1> HIDE DEF from, to, next, all
<1>8. position' \in 0 .. 3 /\ startedAge' \in 0 .. SequenceTimeout + 1
    BY <1>1, <1>2, <1>7, <1>t
<1>9. threads' \subseteq ThreadT
    <2> SUFFICES ASSUME NEW w \in threads' PROVE w \in ThreadT
        OBVIOUS
    <2>1. w \in all /\ w.length < 4
        BY <1>1
    <2>2. CASE w \in next
        <3>1. PICK u \in threads : w = [u EXCEPT !.length = u.length + 1]
            BY <1>3, <2>2
        <3>2. u.length + 1 < 4
            BY <1>5, <2>1, <3>1
        <3> QED BY <1>5, <3>1, <3>2
    <2> QED BY <1>6, <2>1, <2>2
<1>10. CASE from # 0 /\ key = Sequence[from + 1] /\ from # 3
    <2>1. /\ to = from + 1 /\ to \in {2, 3} /\ position' = to /\ startedAge' = startedAge
          /\ threads' = {t \in all : t.length < 4}
        BY <1>1, <1>2, <1>7, <1>10
    <2>2. PICK u \in threads : u.length = from /\ u.age = startedAge /\ u.age <= SequenceTimeout
        BY <1>2, <1>10
    <2>3. [u EXCEPT !.length = u.length + 1] \in next
        BY <1>4, <1>10, <2>2
    <2>4. \E w \in threads' : Followed(w)
        <3> DEFINE w == [u EXCEPT !.length = u.length + 1]
        <3>1. w \in all /\ w.length = to /\ w.age = startedAge
            BY <1>5, <1>6, <2>1, <2>2, <2>3
        <3> HIDE DEF w
        <3>2. w \in threads'
            BY <2>1, <3>1
        <3> QED BY <2>1, <3>1, <3>2
    <2>5. ASSUME NEW w \in threads', w.alone PROVE Followed(w)
        <3>1. w \in next
            BY <1>6, <2>1, <2>3, <2>5
        <3>2. PICK v \in threads : v.age <= SequenceTimeout
                                   /\ w = [v EXCEPT !.length = v.length + 1]
            BY <1>3, <3>1
        <3>3. v.alone /\ w.length = v.length + 1 /\ w.age = v.age
            BY <1>5, <2>5, <3>2
        <3> QED BY <1>2, <2>1, <3>2, <3>3
    <2> QED BY <1>8, <1>9, <2>4, <2>5 DEF SetupInv, SetupFollowsKeys
<1>11. CASE from = 3 /\ key = Sequence[from + 1]
    <2>1. to = 4
        BY <1>7, <1>11
    <2>2. position' = 0 /\ threads' = {}
        BY <1>1, <2>1
    <2> QED BY <1>8, <1>9, <2>2 DEF SetupInv, SetupFollowsKeys
<1>12. CASE from = 0 \/ key # Sequence[from + 1]
    <2>1. ASSUME NEW w \in next PROVE ~w.alone
        <3>1. PICK v \in threads : /\ v.age <= SequenceTimeout /\ key = Sequence[v.length + 1]
                                   /\ w = [v EXCEPT !.length = v.length + 1]
            BY <1>3
        <3>2. w.alone = v.alone
            BY <1>5, <3>1
        <3>3. ~v.alone
            BY <1>2, <1>12, <3>1
        <3> QED BY <3>2, <3>3
    <2>2. to = IF key = Sequence[1] THEN 1 ELSE 0
        BY <1>7, <1>12
    <2>3. /\ position' = to /\ startedAge' = 0 /\ threads' = {t \in all : t.length < 4}
        BY <1>1, <2>2
    <2>4. position' # 0 => \E w \in threads' : Followed(w)
        BY <1>6, <2>2, <2>3
    <2>5. ASSUME NEW w \in threads', w.alone PROVE Followed(w)
        BY <1>6, <2>1, <2>2, <2>3, <2>5
    <2> QED BY <1>8, <1>9, <2>4, <2>5 DEF SetupInv, SetupFollowsKeys
<1> QED BY <1>2, <1>10, <1>11, <1>12

----------------------------------------------------------------------------
(* The steps.                                                              *)

\* The initial state is well typed and satisfies the invariants.
LEMMA DisplayInit == Init => TypeOK /\ DisplayInv
<1> SUFFICES ASSUME Init PROVE TypeOK /\ DisplayInv
    OBVIOUS
<1>1. RegisterTypeOK
    <2>1. publishing \in BOOLEAN
        BY Zenon DEF Init, RegisterInit
    <2> QED BY <2>1, SnapshotFacts DEF Init, RegisterInit, RegisterTypeOK
<1>2. /\ available \in BOOLEAN /\ waking \in BOOLEAN /\ visible \in BOOLEAN
      /\ netFailed \in BOOLEAN /\ pwmFailed \in BOOLEAN
    BY Zenon DEF Init
<1>3. TypeOK
    BY <1>1, <1>2, TimesAssumption, FailuresAssumption
       DEF Init, TypeOK, HIGH, DARK, Levels, AllStatuses
<1>4. PanelInv /\ DutyInv
    BY DEF Init, PanelInv, DutyInv
<1>5. SetupInv
    BY DEF Init, SetupInv, SetupFollowsKeys
<1> QED BY <1>3, <1>4, <1>5 DEF DisplayInv

\* What the start of the driver leaves.
LEMMA StartFacts ==
    ASSUME TypeOK, LedsStart
    PROVE  /\ available' \in BOOLEAN /\ available' /\ lit' = {}
           /\ pwm' \in Levels /\ pwmFailed' \in BOOLEAN /\ failures' \in 0 .. MaxFailures
           /\ pwmFailed' \/ pwm' = brightness
           /\ pc' \in {"init", "available"} /\ RegisterTypeOK'
           /\ UNCHANGED <<publications, rendered, unfinished, netFailed, brightness, waking,
                          wakeAge, status, visible, position, startedAge, threads>>
<1>1. available' \in BOOLEAN /\ available' /\ lit' = {}
    BY Zenon DEF LedsStart
<1>2. pwmFailed' \in BOOLEAN
    BY Zenon DEF LedsStart
<1>3. /\ pwm' \in Levels /\ failures' \in 0 .. MaxFailures
      /\ pwmFailed' \/ pwm' = brightness
    BY FailuresAssumption DEF LedsStart, RecoveredLevel, Fails, TypeOK, Levels, DARK
<1>4. pc' \in {"init", "available"}
    BY DEF LedsStart
<1>5. RegisterTypeOK'
    BY RegisterFacts DEF LedsStart, TypeOK
<1> QED BY <1>1, <1>2, <1>3, <1>4, <1>5 DEF LedsStart, netVars, setupVars

\* What the steps of controller_service and of controller_set_network_status that write
\* the network LED leave.
LEMMA NetworkLedFacts ==
    ASSUME TypeOK, visible' \in BOOLEAN, WriteNetworkLed
    PROVE  /\ lit' \subseteq LEDs /\ netFailed' \in BOOLEAN
           /\ lit' \ {NETWORK_LED} = lit \ {NETWORK_LED}
           /\ available => (NETWORK_LED \in lit' <=> visible')
<1>1. CASE available
    <2>1. lit' = (lit \ {NETWORK_LED}) \cup NetworkLed(visible') /\ netFailed' = FALSE
        BY <1>1 DEF WriteNetworkLed
    <2>2. netFailed' \in BOOLEAN
        BY <2>1, Zenon
    <2>3. NetworkLed(visible') = IF visible' THEN {NETWORK_LED} ELSE {}
        BY DEF NetworkLed
    <2> QED BY <2>1, <2>2, <2>3 DEF TypeOK, LEDs, NETWORK_LED
<1>2. CASE ~available
    BY <1>2 DEF WriteNetworkLed, TypeOK
<1> QED BY <1>1, <1>2 DEF TypeOK

\* Every step keeps the types.
LEMMA TypeStep == TypeOK /\ SetupInv /\ [Next]_vars => TypeOK'
<1> SUFFICES ASSUME TypeOK, SetupInv, [Next]_vars PROVE TypeOK'
    OBVIOUS
<1> USE DEF panelVars, dimVars, netVars, setupVars
<1>r. UNCHANGED registerVars => RegisterTypeOK'
    BY RegisterFacts DEF TypeOK
<1>1. CASE LedsStart
    BY <1>1, StartFacts DEF TypeOK
<1>2. CASE LedsFail
    <2>1. failures' \in 0 .. MaxFailures
        BY <1>2, FailuresAssumption DEF LedsFail, Fails, TypeOK
    <2>2. RegisterTypeOK' /\ pc' \in {"init", "loop"}
        BY <1>2, <1>r, RegisterFacts DEF LedsFail, TypeOK
    <2> QED BY <1>2, <2>1, <2>2 DEF LedsFail, TypeOK
<1>3. CASE LedsShown
    <2>1. /\ lit' \subseteq LEDs /\ rendered' \in Snapshots \cup {NotRendered}
          /\ unfinished' \subseteq Snapshots \cup {NotRendered} /\ netFailed' \in BOOLEAN
          /\ failures' \in 0 .. MaxFailures
        <3>1. CASE Render(result["main"])
            BY <3>1, RenderFacts, RegisterFacts DEF TypeOK
        <3>2. CASE /\ unfinished' = (IF available THEN {rendered} ELSE {})
                   /\ netFailed' = available /\ UNCHANGED <<lit, rendered, failures>>
            BY <3>2 DEF TypeOK
        <3> QED BY <1>3, <3>1, <3>2 DEF LedsShown
    <2>2. RegisterTypeOK'
        BY <1>3, RegisterFacts DEF LedsShown, TypeOK
    <2> QED BY <1>3, <2>1, <2>2 DEF LedsShown, TypeOK
<1>4. CASE WakeEndFails
    <2>1. waking' \in BOOLEAN
        BY <1>4, Zenon DEF WakeEndFails
    <2>2. pwm' \in Levels /\ pwmFailed' \in BOOLEAN /\ failures' \in 0 .. MaxFailures
        BY <1>4, DutyFacts DEF WakeEndFails
    <2> QED BY <1>4, <1>r, <2>1, <2>2 DEF WakeEndFails, ServiceFrame, TypeOK
<1>5. CASE BlinkFails
    <2>1. netFailed' \in BOOLEAN
        BY <1>5, Zenon DEF BlinkFails
    <2>2. pwm' \in Levels /\ pwmFailed' \in BOOLEAN /\ waking' \in BOOLEAN
        BY <1>5, DutyFacts DEF BlinkFails
    <2>3. failures' \in 0 .. MaxFailures /\ visible' \in BOOLEAN
        BY <1>5, FailuresAssumption DEF BlinkFails, Fails, TypeOK
    <2> QED BY <1>5, <1>r, <2>1, <2>2, <2>3 DEF BlinkFails, ServiceFrame, TypeOK
<1>6. CASE ServiceStarts
    <2>1. pwm' \in Levels /\ pwmFailed' \in BOOLEAN /\ waking' \in BOOLEAN
        BY <1>6, DutyFacts DEF ServiceStarts
    <2>2. visible' \in BOOLEAN /\ lit' \subseteq LEDs /\ netFailed' \in BOOLEAN
        <3>1. CASE UNCHANGED <<visible, lit, netFailed>>
            BY <3>1 DEF TypeOK
        <3>2. CASE visible' = ~visible /\ WriteNetworkLed
            BY <3>2, NetworkLedFacts DEF TypeOK
        <3> QED BY <1>6, <3>1, <3>2 DEF ServiceStarts
    <2>3. RegisterTypeOK'
        BY <1>6, RegisterFacts DEF ServiceStarts, TypeOK
    <2> QED BY <1>6, <2>1, <2>2, <2>3 DEF ServiceStarts, ServiceFrame, TypeOK
<1>7. CASE ServiceEnds
    <2>1. /\ lit' \subseteq LEDs /\ rendered' \in Snapshots \cup {NotRendered}
          /\ unfinished' \subseteq Snapshots \cup {NotRendered} /\ netFailed' \in BOOLEAN
          /\ failures' \in 0 .. MaxFailures
        <3>1. CASE Render(result["main"])
            BY <3>1, RenderFacts, RegisterFacts DEF TypeOK
        <3>2. CASE UNCHANGED <<lit, rendered, unfinished, netFailed, failures>>
            BY <3>2 DEF TypeOK
        <3> QED BY <1>7, <3>1, <3>2 DEF ServiceEnds
    <2>2. RegisterTypeOK'
        BY <1>7, RegisterFacts DEF ServiceEnds, TypeOK
    <2> QED BY <1>7, <2>1, <2>2 DEF ServiceEnds, TypeOK
<1>8. CASE ReadSnapshot \/ FanPublishes
    <2>1. RegisterTypeOK'
        BY <1>8, RegisterFacts DEF ReadSnapshot, FanPublishes, TypeOK
    <2> QED BY <1>8, <2>1 DEF ReadSnapshot, FanPublishes, OthersUnchanged, TypeOK
<1>9. CASE FanStarts
    <2>1. RegisterTypeOK'
        BY <1>9, RegisterFacts DEF FanStarts, TypeOK
    <2>2. publications' \in 0 .. MaxPublish
        BY <1>9, FailuresAssumption DEF FanStarts, TypeOK
    <2> QED BY <1>9, <2>1, <2>2 DEF FanStarts, OthersUnchanged, TypeOK
<1>10. CASE Tick
    <2>1. wakeAge' \in 0 .. Wake /\ startedAge' \in 0 .. SequenceTimeout + 1
        BY <1>10, TimesAssumption DEF Tick, TypeOK
    <2>2. threads' \subseteq ThreadT
        BY <1>10, AgeFacts
    <2> QED BY <1>10, <1>r, <2>1, <2>2 DEF Tick, TypeOK
<1>11. ASSUME NEW s \in Statuses, SetNetworkStatus(s) PROVE TypeOK'
    <2>1. s \in AllStatuses
        BY KeysAssumption
    <2>2. visible' \in BOOLEAN
        BY <1>11 DEF SetNetworkStatus, VisibleFor
    <2>3. lit' \subseteq LEDs /\ netFailed' \in BOOLEAN /\ failures' \in 0 .. MaxFailures
        <3>1. CASE WriteNetworkLed /\ UNCHANGED failures
            BY <2>2, <3>1, NetworkLedFacts DEF TypeOK
        <3>2. CASE Fails /\ netFailed' = TRUE /\ UNCHANGED lit
            <4>1. netFailed' \in BOOLEAN
                BY <3>2, Zenon
            <4> QED BY <3>2, <4>1, FailuresAssumption DEF Fails, TypeOK
        <3> QED BY <1>11, <3>1, <3>2 DEF SetNetworkStatus
    <2> QED BY <1>11, <1>r, <2>1, <2>2, <2>3 DEF SetNetworkStatus, TypeOK
<1>12. ASSUME NEW key \in Keys, HandleKey(key) PROVE TypeOK'
    <2>1. /\ position' \in 0 .. 3 /\ startedAge' \in 0 .. SequenceTimeout + 1
          /\ threads' \subseteq ThreadT
        BY <1>12, SequenceStep DEF HandleKey
    <2> QED BY <1>12, <1>r, <2>1, KeyFacts DEF HandleKey, TypeOK
<1>13. CASE UNCHANGED vars
    BY <1>13, <1>r DEF vars, TypeOK
<1> QED BY <1>1, <1>2, <1>3, <1>4, <1>5, <1>6, <1>7, <1>8, <1>9, <1>10, <1>11, <1>12, <1>13
        DEF Next, Service

\* Every step keeps what the panel shows.
LEMMA PanelStep == TypeOK /\ PanelInv /\ [Next]_vars => PanelInv'
<1> SUFFICES ASSUME TypeOK, PanelInv, [Next]_vars PROVE PanelInv'
    OBVIOUS
<1> USE DEF PanelInv, panelVars, dimVars, netVars, setupVars
<1>1. CASE LedsStart
    BY <1>1, StartFacts
<1>2. CASE LedsFail
    BY <1>2 DEF LedsFail
<1>3. CASE LedsShown
    <2>1. UNCHANGED <<available, status, visible>> /\ pc' = "loop"
        BY <1>3 DEF LedsShown
    <2>2. available => /\ unfinished' = {} => lit' \ {NETWORK_LED} = LedsFor(rendered')
                       /\ ~netFailed' => (NETWORK_LED \in lit' <=> visible)
        <3>1. CASE Render(result["main"])
            BY <3>1, RenderFacts, RegisterFacts DEF TypeOK
        <3>2. CASE /\ unfinished' = (IF available THEN {rendered} ELSE {})
                   /\ netFailed' = available
            BY <3>2
        <3> QED BY <1>3, <3>1, <3>2 DEF LedsShown
    <2> QED BY <2>1, <2>2
<1>4. CASE WakeEndFails
    BY <1>4 DEF WakeEndFails, ServiceFrame
<1>5. CASE BlinkFails
    BY <1>5 DEF BlinkFails, ServiceFrame, Blinking
<1>6. CASE ServiceStarts
    <2>1. UNCHANGED <<available, rendered, unfinished, status>> /\ pc' = "service" /\ pc = "loop"
        BY <1>6 DEF ServiceStarts, ServiceFrame
    <2>2. CASE UNCHANGED <<visible, lit, netFailed>>
        BY <2>1, <2>2
    <2>3. CASE status \in Blinking /\ visible' = ~visible /\ WriteNetworkLed
        <3>1. /\ lit' \ {NETWORK_LED} = lit \ {NETWORK_LED}
              /\ available => (NETWORK_LED \in lit' <=> visible')
            BY <2>3, NetworkLedFacts DEF TypeOK
        <3> QED BY <2>1, <2>3, <3>1 DEF Blinking
    <2> QED BY <1>6, <2>2, <2>3 DEF ServiceStarts
<1>7. CASE ServiceEnds
    <2>1. UNCHANGED <<available, status, visible>> /\ pc' = "loop" /\ pc = "service"
        BY <1>7 DEF ServiceEnds
    <2>2. CASE Render(result["main"])
        BY <2>1, <2>2, RenderFacts, RegisterFacts DEF TypeOK
    <2>3. CASE UNCHANGED <<lit, rendered, unfinished, netFailed, failures>>
        BY <2>1, <2>3
    <2> QED BY <1>7, <2>2, <2>3 DEF ServiceEnds
<1>8. CASE ReadSnapshot \/ FanPublishes \/ FanStarts
    BY <1>8 DEF ReadSnapshot, FanPublishes, FanStarts, OthersUnchanged
<1>9. CASE Tick
    BY <1>9 DEF Tick
<1>10. ASSUME NEW s \in Statuses, SetNetworkStatus(s) PROVE PanelInv'
    <2>1. /\ UNCHANGED <<available, rendered, unfinished, pc>> /\ pc = "loop"
          /\ status' = s /\ (visible' <=> s # "OFFLINE") /\ visible' \in BOOLEAN
        BY <1>10 DEF SetNetworkStatus, VisibleFor
    <2>2. CASE WriteNetworkLed
        <3>1. /\ lit' \ {NETWORK_LED} = lit \ {NETWORK_LED}
              /\ available => (NETWORK_LED \in lit' <=> visible')
            BY <2>1, <2>2, NetworkLedFacts
        <3> QED BY <2>1, <3>1
    <2>3. CASE netFailed' = TRUE /\ UNCHANGED lit
        BY <2>1, <2>3
    <2> QED BY <1>10, <2>2, <2>3 DEF SetNetworkStatus
<1>11. ASSUME NEW key \in Keys, HandleKey(key) PROVE PanelInv'
    BY <1>11 DEF HandleKey
<1>12. CASE UNCHANGED vars
    BY <1>12 DEF vars
<1> QED BY <1>1, <1>2, <1>3, <1>4, <1>5, <1>6, <1>7, <1>8, <1>9, <1>10, <1>11, <1>12
        DEF Next, Service

\* Every step keeps the duty.
LEMMA DutyStep == TypeOK /\ DutyInv /\ [Next]_vars => DutyInv'
<1> SUFFICES ASSUME TypeOK, DutyInv, [Next]_vars PROVE DutyInv'
    OBVIOUS
<1> USE DEF panelVars, dimVars, netVars, setupVars
<1>1. CASE LedsStart
    BY <1>1, StartFacts DEF DutyInv
<1>2. CASE LedsFail \/ LedsShown \/ ServiceEnds \/ ReadSnapshot \/ FanPublishes \/ FanStarts \/ Tick
    BY <1>2 DEF LedsFail, LedsShown, ServiceEnds, ReadSnapshot, FanPublishes, FanStarts,
                OthersUnchanged, Tick, DutyInv
<1>3. CASE WakeEndFails
    BY <1>3, DutyFacts DEF WakeEndFails, DutyInv
<1>4. CASE BlinkFails \/ ServiceStarts
    <2>1. EndWake /\ UNCHANGED <<available, brightness>>
        BY <1>4 DEF BlinkFails, ServiceStarts, ServiceFrame
    <2> QED BY <2>1, DutyFacts DEF DutyInv
<1>5. ASSUME NEW s \in Statuses, SetNetworkStatus(s) PROVE DutyInv'
    BY <1>5 DEF SetNetworkStatus, DutyInv
<1>6. ASSUME NEW key \in Keys, HandleKey(key) PROVE DutyInv'
    BY <1>6, KeyFacts
<1>7. CASE UNCHANGED vars
    BY <1>7 DEF vars, DutyInv
<1> QED BY <1>1, <1>2, <1>3, <1>4, <1>5, <1>6, <1>7 DEF Next, Service

\* Every step keeps the setup sequence.
LEMMA SetupStep == TypeOK /\ SetupInv /\ [Next]_vars => SetupInv'
<1> SUFFICES ASSUME TypeOK, SetupInv, [Next]_vars PROVE SetupInv'
    OBVIOUS
<1>1. CASE Tick
    <2>1. /\ UNCHANGED position
          /\ position # 0 => startedAge' = Older(startedAge)
          /\ \A t \in threads : \E v \in threads' :
                v.length = t.length /\ v.age = Older(t.age)
          /\ \A v \in threads' : \E t \in threads :
                v.length = t.length /\ v.age = Older(t.age) /\ v.alone = t.alone
        BY <1>1, AgeFacts DEF Tick, Older
    <2>2. \A t \in threads : t.alone => position # 0
        BY DEF SetupInv, SetupFollowsKeys, TypeOK, ThreadT
    <2> QED BY <2>1, <2>2 DEF SetupInv, SetupFollowsKeys
<1>2. ASSUME NEW key \in Keys, HandleKey(key) PROVE SetupInv'
    BY <1>2, SequenceStep DEF HandleKey
<1>3. CASE UNCHANGED setupVars
    BY <1>3 DEF setupVars, SetupInv, SetupFollowsKeys
<1>4. ASSUME NEW s \in Statuses, SetNetworkStatus(s) PROVE UNCHANGED setupVars
    BY <1>4 DEF SetNetworkStatus
<1>5. CASE LedsStart \/ LedsFail \/ Service \/ FanStarts \/ FanPublishes
    BY <1>3, <1>5 DEF LedsStart, LedsFail, Service, LedsShown, WakeEndFails, BlinkFails,
        ServiceStarts, ReadSnapshot, ServiceEnds, ServiceFrame, FanStarts, FanPublishes,
        OthersUnchanged
<1>6. CASE UNCHANGED vars
    BY <1>3, <1>6 DEF vars
<1> QED BY <1>1, <1>2, <1>3, <1>4, <1>5, <1>6 DEF Next

----------------------------------------------------------------------------
(* The theorems.                                                           *)

\* The controller's state keeps its types and the invariants.
THEOREM DisplayInvariant == Spec => [](TypeOK /\ DisplayInv)
<1>1. Init => TypeOK /\ DisplayInv
    BY DisplayInit
<1>2. TypeOK /\ DisplayInv /\ [Next]_vars => (TypeOK /\ DisplayInv)'
    BY TypeStep, PanelStep, DutyStep, SetupStep DEF DisplayInv
<1> QED BY <1>1, <1>2, PTL DEF Spec

\* The LEDs are those that controller.c believes to show, after every recovery of the LED
\* driver and every failed write, whatever the fan publishes meanwhile.
THEOREM PanelIsRendered == Spec => []PanelShowsRendered
<1>1. DisplayInv => PanelShowsRendered
    BY DEF DisplayInv, PanelInv, PanelShowsRendered, Idle
<1> QED BY <1>1, DisplayInvariant, PTL

\* The duty is that of the intended brightness, or high after a touch.
THEOREM BrightnessIsHonoured == Spec => []BrightnessHonoured
<1>1. DisplayInv => BrightnessHonoured
    BY DEF DisplayInv, DutyInv, BrightnessHonoured, Idle
<1> QED BY <1>1, DisplayInvariant, PTL

\* The one position that service_setup_sequence keeps is that of an attempt which the
\* keys made, with the time of its first key, and follows every attempt that no other one
\* was under way for when it began, whatever wrong and late keys came before.
THEOREM SetupIsFollowed == Spec => []SetupFollowsKeys
<1>1. DisplayInv => SetupFollowsKeys
    BY DEF DisplayInv, SetupInv
<1> QED BY <1>1, DisplayInvariant, PTL
===============================================================================
