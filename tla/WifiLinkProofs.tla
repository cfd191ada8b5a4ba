---------------------------- MODULE WifiLinkProofs ----------------------------
(***************************************************************************)
(* The station: no event is lost, s_connected and the LED tell the state   *)
(* of the link, and the attempts are paced, for any length of the event    *)
(* queue, any number of retries, any pause, and any number of failed       *)
(* initialisations and lost links.                                         *)
(*                                                                         *)
(* The argument is a token.  While the station is idle nobody but one      *)
(* holder of the token may let it connect: the event in the queue that     *)
(* tells of the start or the disconnect, the task that has taken this      *)
(* event, the pause, or the task that found the pause over.  There is none *)
(* after esp_wifi_connect returned an error.                               *)
(***************************************************************************)
EXTENDS WifiLink, SequenceTheorems, TLAPS

\* The events after which the station is idle.
Changing == {"STA_START", "STA_DISCONNECTED"}

\* A task that may let the station connect.
Holds(t) == pc[t] = "retry" \/ event[t] \in Changing

\* So may the last event of the queue.
Queued == queue # <<>> /\ queue[Len(queue)] \in Changing

\* A task has an event from its xQueueReceive to the end of the branch, the HTTP task
\* serves only while the server is up, and a server that is up is not started again.
TaskInv ==
    /\ \A t \in Tasks :
          /\ event[t] # NoEvent <=> pc[t] \in {"apply", "show", "react"}
          /\ pc[t] = "show" => status[t] # NoStatus
    /\ networkRetry.ready <=> httpReady
    /\ ~httpReady => pc["http"] = "away"
    /\ pc["http"] # "boot" /\ (pc["main"] = "boot" => ~httpReady)

\* There is at most one token while the station is idle, and none while it is not.  The driver
\* is silent while it is idle, so an event of a new address never follows the token.
TokenInv ==
    /\ \A i \in 1 .. Len(queue) - 1 : queue[i] = "GOT_IP"
    /\ queue # <<>> => Queued \/ link = "up"
    /\ Queued => link = "idle" /\ ~reconnectPending /\ \A t \in Tasks : ~Holds(t)
    /\ reconnectPending => link = "idle" /\ \A t \in Tasks : ~Holds(t)
    /\ \A t \in Tasks : Holds(t) =>
          link = "idle" /\ queue = <<>> /\ \A u \in Tasks \ {t} : ~Holds(u)

\* The queue holds at most the address of the connection, those that came later, and
\* the token.
LengthInv ==
    /\ Len(queue) <= addresses + 1 + (IF Queued THEN 1 ELSE 0)
    /\ ~lost

\* The start of the driver is still to be handled.
Fresh ==
    \/ link = "off"
    \/ queue # <<>> /\ queue[Len(queue)] = "STA_START"
    \/ \E t \in Tasks : event[t] = "STA_START"

\* Until then there was no connection and no other event.
FirstInv ==
    Fresh => /\ ~connected /\ attempts = 0 /\ Len(queue) <= 1
             /\ \A t \in Tasks : event[t] \in {NoEvent, "STA_START"}

\* The latest event is that of the link's last change; once it is applied, and no older
\* one after it, s_connected is the state of the link.
OrderInv ==
    queue = <<>> =>
        /\ pc[newest] = "apply" => (event[newest] = "GOT_IP" <=> link = "up")
        /\ pc[newest] # "apply" /\ ~overtaken => (connected <=> link = "up")

\* So it is with the status that the same task has computed, or has set.
LedInv ==
    httpReady /\ ~overtaken =>
        /\ pc[newest] = "show" => status[newest] = LedStatus(connected, TRUE)
        /\ pc[newest] \notin {"apply", "show"} /\ ~ledOvertaken =>
              led = LedStatus(connected, TRUE)

\* The attempts are counted by s_retry_count, apart from the first one.  An event that
\* resets the counter comes late, but not so late that two attempts were made since; and
\* the pause lasts until its deadline.
PaceInv ==
    /\ attempts <= retryCount + 1
    /\ reconnectPending \/ link = "up" => attempts = 0
    /\ \A t \in Tasks :
          /\ pc[t] = "retry" => attempts = 0
          /\ pc[t] = "apply" /\ event[t] = "GOT_IP" =>
                attempts = 0 \/ (attempts = 1 /\ link = "connecting")
    /\ Queued /\ Len(queue) > 1 => attempts = 0
    /\ quiet > 0 => reconnectPending /\ reconnectAt = After(now, quiet)

\* The inductive invariant.
LinkInv == TaskInv /\ TokenInv /\ LengthInv /\ FirstInv /\ OrderInv /\ LedInv /\ PaceInv

----------------------------------------------------------------------------
(* The queue, the clock and the retry policy.                              *)

\* What is left of the queue when its first event is taken.
LEMMA TailFacts ==
    ASSUME NEW q \in Seq(Events), q # <<>>
    PROVE  /\ Len(q) \in Nat \ {0} /\ Head(q) = q[1] /\ q[1] \in Events
           /\ Tail(q) \in Seq(Events) /\ Len(Tail(q)) = Len(q) - 1
           /\ \A i \in 1 .. Len(q) - 1 : Tail(q)[i] = q[i + 1]
<1>1. Len(q) \in Nat \ {0}
    BY EmptySeq
<1>2. Head(q) = q[1] /\ q[1] \in Events
    BY <1>1
<1>3. Tail(q) \in Seq(Events) /\ Len(Tail(q)) = Len(q) - 1
    BY <1>1
<1>4. \A i \in 1 .. Len(q) - 1 : Tail(q)[i] = q[i + 1]
    BY <1>1
<1> QED BY <1>1, <1>2, <1>3, <1>4

\* The queue is empty when its length is 0.
LEMMA EmptyFacts ==
    ASSUME NEW q \in Seq(Events)
    PROVE  Len(q) \in Nat /\ (q = <<>> <=> Len(q) = 0)
BY EmptySeq

\* An event that finds room is the last one of the queue.
LEMMA PostFacts ==
    ASSUME TypeOK, NEW e \in Events, Post(e), Len(queue) < QueueLength
    PROVE  /\ UNCHANGED lost /\ queue' \in Seq(Events)
           /\ Len(queue') = Len(queue) + 1 /\ queue' # <<>>
           /\ queue'[Len(queue')] = e
           /\ \A i \in 1 .. Len(queue) : queue'[i] = queue[i]
<1>1. queue \in Seq(Events) /\ Len(queue) \in Nat
    BY DEF TypeOK
<1>2. queue' = Append(queue, e) /\ UNCHANGED lost
    BY DEF Post
<1>3. queue' \in Seq(Events) /\ Len(queue') = Len(queue) + 1
    BY <1>1, <1>2
<1>4. queue'[Len(queue) + 1] = e /\ \A i \in 1 .. Len(queue) : queue'[i] = queue[i]
    BY <1>1, <1>2
<1> QED BY <1>1, <1>2, <1>3, <1>4, EmptyFacts

\* The wrapped sum, by cases, and the deadline of a pause that is not over.
LEMMA WrapFacts ==
    /\ TickMod \in Nat \ {0} /\ Pause \in Nat /\ Pause < TickMod \div 2
    /\ \A x \in Ticks, d \in 0 .. Pause :
          After(x, d) = IF x + d < TickMod THEN x + d ELSE x + d - TickMod
    /\ \A x \in Ticks, d \in 1 .. Pause : ~Reached(x, After(x, d))
    /\ \A x \in Ticks : After(x, 1) = IF x + 1 < TickMod THEN x + 1 ELSE 0
    /\ \A x \in Ticks, d \in Nat : After(x, d) \in Ticks
<1>1. TickMod \in Nat \ {0} /\ TickMod % 2 = 0 /\ Pause \in Nat /\ MaxLag \in Nat
    BY TickModAssumption, PauseAssumption
<1>2. /\ TickMod \div 2 \in Nat /\ 2 * (TickMod \div 2) = TickMod
      /\ Pause < TickMod \div 2 /\ TickMod \div 2 <= TickMod /\ TickMod > 1
    BY <1>1, PauseAssumption
<1>3. ASSUME NEW x \in Ticks, NEW d \in 0 .. Pause
      PROVE  After(x, d) = IF x + d < TickMod THEN x + d ELSE x + d - TickMod
    BY <1>1, <1>2 DEF After, Ticks
<1>4. ASSUME NEW x \in Ticks, NEW d \in 1 .. Pause PROVE ~Reached(x, After(x, d))
    <2>1. After(x, d) = IF x + d < TickMod THEN x + d ELSE x + d - TickMod
        BY <1>3
    <2>2. (x - After(x, d)) % TickMod = TickMod - d
        BY <1>1, <1>2, <2>1 DEF Ticks
    <2> QED BY <1>1, <1>2, <2>2 DEF Reached
<1>5. \A x \in Ticks : After(x, 1) = IF x + 1 < TickMod THEN x + 1 ELSE 0
    BY <1>1, <1>2 DEF After, Ticks
<1>6. \A x \in Ticks, d \in Nat : After(x, d) \in Ticks
    BY <1>1 DEF After, Ticks
<1> QED BY <1>1, <1>2, <1>3, <1>4, <1>5, <1>6

\* The retry policy of network_init stays a policy.
LEMMA PolicyFacts ==
    /\ NewPolicy \in PolicyT /\ ~NewPolicy.ready
    /\ \A p \in PolicyT, t \in Ticks :
          /\ MarkReady(p) \in PolicyT /\ MarkReady(p).ready
          /\ MarkFailed(p, t) \in PolicyT /\ ~MarkFailed(p, t).ready
<1>1. NewPolicy \in PolicyT /\ ~NewPolicy.ready
    BY TickModAssumption, DelaysAssumption DEF NewPolicy, PolicyT, Ticks
<1>2. ASSUME NEW p \in PolicyT, NEW t \in Ticks
      PROVE  /\ MarkReady(p) \in PolicyT /\ MarkReady(p).ready
             /\ MarkFailed(p, t) \in PolicyT /\ ~MarkFailed(p, t).ready
    <2>1. MarkReady(p) \in PolicyT /\ MarkReady(p).ready
        <3>1. 1 \in 1 .. Len(Delays)
            BY DelaysAssumption
        <3>2. MarkReady(p) \in PolicyT
            BY <3>1 DEF MarkReady, PolicyT
        <3>3. MarkReady(p).ready = TRUE
            BY DEF MarkReady, PolicyT
        <3> QED BY <3>2, <3>3
    <2>2. p.backoff \in 1 .. Len(Delays) /\ Len(Delays) \in Nat
        BY DelaysAssumption DEF PolicyT
    <2>3. Delays[p.backoff] \in Nat
        BY <2>2, DelaysAssumption
    <2>4. After(t, Delays[p.backoff]) \in Ticks
        BY <2>3, WrapFacts
    <2>5. MarkFailed(p, t) \in PolicyT /\ ~MarkFailed(p, t).ready
        BY <2>2, <2>4 DEF MarkFailed, PolicyT
    <2> QED BY <2>1, <2>5
<1> QED BY <1>1, <1>2

----------------------------------------------------------------------------
(* The types.                                                              *)

\* The initial state is well typed and satisfies the invariants.
LEMMA LinkInit == Init => TypeOK /\ LinkInv
<1> SUFFICES ASSUME Init PROVE TypeOK /\ LinkInv
    OBVIOUS
<1> USE DEF Init
<1>1. /\ connected \in BOOLEAN /\ reconnectPending \in BOOLEAN /\ httpReady \in BOOLEAN
      /\ lost \in BOOLEAN /\ overtaken \in BOOLEAN /\ ledOvertaken \in BOOLEAN
    BY Zenon
<1>2. queue \in Seq(Events) /\ Len(queue) = 0
    BY EmptySeq
<1>3. /\ pc \in [Tasks -> {"boot", "away", "loop", "apply", "show", "react", "retry"}]
      /\ event \in [Tasks -> Events \cup {NoEvent}]
      /\ status \in [Tasks -> {"CONNECTING", "CONNECTED", NoStatus}] /\ newest \in Tasks
    BY DEF Tasks
<1>4. TypeOK
    BY <1>1, <1>2, <1>3, QueueAssumption, PauseAssumption, BoundsAssumption, WrapFacts, PolicyFacts
       DEF TypeOK, Ticks
<1>5. TaskInv
    BY PolicyFacts DEF TaskInv, Tasks, NoEvent
<1>6. TokenInv /\ FirstInv
    BY <1>2 DEF TokenInv, FirstInv, Queued, Holds, Changing, NoEvent, Tasks
<1>7. LengthInv
    BY <1>2 DEF LengthInv, Queued
<1>9. OrderInv /\ LedInv
    BY <1>3 DEF OrderInv, LedInv, Tasks
<1>8. PaceInv
    BY <1>2 DEF PaceInv, Queued, Tasks
<1> QED BY <1>4, <1>5, <1>6, <1>7, <1>8, <1>9 DEF LinkInv

\* Posting keeps the queue within its length.
LEMMA PostType ==
    ASSUME TypeOK, NEW e \in Events, Post(e)
    PROVE  queue' \in Seq(Events) /\ Len(queue') <= QueueLength /\ lost' \in BOOLEAN
<1>1. CASE Len(queue) < QueueLength
    <2>1. Len(queue') = Len(queue) + 1 /\ queue' \in Seq(Events) /\ UNCHANGED lost
        BY <1>1, PostFacts
    <2> QED BY <1>1, <2>1, QueueAssumption DEF TypeOK
<1>2. CASE ~(Len(queue) < QueueLength)
    <2>1. UNCHANGED queue /\ lost' = TRUE
        BY <1>2 DEF Post
    <2>2. lost' \in BOOLEAN
        BY <2>1, Zenon
    <2> QED BY <2>1, <2>2 DEF TypeOK
<1> QED BY <1>1, <1>2

\* esp_wifi_connect starts an attempt of an idle station, or does nothing.
LEMMA ConnectFacts ==
    ASSUME TypeOK, Connect
    PROVE  /\ link' \in {"off", "idle", "connecting", "up"} /\ attempts' \in Nat
           /\ connectErrors' \in 0 .. MaxConnectErrors
           /\ \/ link = "idle" /\ link' = "connecting" /\ attempts' = attempts + 1
              \/ link' = link /\ attempts' = attempts
BY BoundsAssumption DEF Connect, TypeOK

\* Every step keeps the types.
LEMMA TypeStep == TypeOK /\ TaskInv /\ [Next]_vars => TypeOK'
<1> SUFFICES ASSUME TypeOK, TaskInv, [Next]_vars PROVE TypeOK'
    OBVIOUS
<1> USE DEF driverVars, taskVars, managerVars, initVars, timeVars, orderVars, historyVars,
            driverFrame
<1>e. {"STA_START", "STA_DISCONNECTED", "GOT_IP"} = Events
    BY DEF Events
<1>1. ASSUME NEW wifi \in BOOLEAN, NEW ok \in BOOLEAN, NetworkInit(wifi, ok) PROVE TypeOK'
    <2>1. /\ queue' \in Seq(Events) /\ Len(queue') <= QueueLength /\ lost' \in BOOLEAN
          /\ link' \in {"off", "idle", "connecting", "up"}
        BY <1>1, <1>e, PostType DEF NetworkInit, TypeOK
    <2>2. initFailures' \in 0 .. MaxInitFailures
        BY <1>1, BoundsAssumption DEF NetworkInit, TypeOK
    <2>3. networkRetry' \in PolicyT
        BY <1>1, PolicyFacts DEF NetworkInit, AfterInit, TypeOK
    <2>4. led' \in {"CONNECTING", "CONNECTED", "OFFLINE"}
        BY <1>1 DEF NetworkInit, InitShows, LedStatus
    <2>5. pc' \in [Tasks -> {"boot", "away", "loop", "apply", "show", "react", "retry"}]
        BY <1>1 DEF NetworkInit, TypeOK
    <2>6. httpReady' \in BOOLEAN
        BY <1>1 DEF NetworkInit
    <2> QED BY <1>1, <2>1, <2>2, <2>3, <2>4, <2>5, <2>6 DEF NetworkInit, TypeOK
<1>2. ASSUME NEW t \in Tasks, Enter(t) PROVE TypeOK'
    BY <1>2 DEF Enter, Goto, TypeOK
<1>3. ASSUME NEW t \in Tasks, Take(t) PROVE TypeOK'
    <2>1. queue \in Seq(Events) /\ queue # <<>> /\ Len(queue) <= QueueLength
        BY <1>3 DEF Take, TypeOK
    <2>2. /\ Head(queue) \in Events /\ Tail(queue) \in Seq(Events)
          /\ Len(Tail(queue)) <= QueueLength
        BY <2>1, TailFacts, QueueAssumption
    <2>3. event' \in [Tasks -> Events \cup {NoEvent}]
        BY <1>3, <2>2 DEF Take, TypeOK
    <2>4. pc' \in [Tasks -> {"boot", "away", "loop", "apply", "show", "react", "retry"}]
        BY <1>3 DEF Take, Goto, TypeOK
    <2> QED BY <1>3, <2>2, <2>3, <2>4 DEF Take, TypeOK
<1>4. ASSUME NEW t \in Tasks, Apply(t) PROVE TypeOK'
    <2>1. connected' \in BOOLEAN
        <3>1. connected' = ConnectedAfter(event[t]) /\ connected \in BOOLEAN
            BY <1>4 DEF Apply, TypeOK
        <3>2. ConnectedAfter(event[t]) \in {FALSE, TRUE, connected}
            BY DEF ConnectedAfter
        <3> QED BY <3>1, <3>2, Zenon
    <2>2. retryCount' \in 0 .. RetryLimit
        BY <1>4, QueueAssumption DEF Apply, TypeOK
    <2>3. status' \in [Tasks -> {"CONNECTING", "CONNECTED", NoStatus}]
        BY <1>4 DEF Apply, LedStatus, TypeOK
    <2>4. pc' \in [Tasks -> {"boot", "away", "loop", "apply", "show", "react", "retry"}]
        BY <1>4 DEF Apply, Goto, TypeOK
    <2>5. overtaken' \in BOOLEAN
        BY <1>4 DEF Apply
    <2> QED BY <1>4, <2>1, <2>2, <2>3, <2>4, <2>5 DEF Apply, TypeOK
<1>5. ASSUME NEW t \in Tasks, Show(t) PROVE TypeOK'
    <2>1. led' \in {"CONNECTING", "CONNECTED"}
        BY <1>5 DEF Show, TaskInv, TypeOK
    <2>2. ledOvertaken' \in BOOLEAN
        BY <1>5 DEF Show
    <2>3. status' \in [Tasks -> {"CONNECTING", "CONNECTED", NoStatus}]
        BY <1>5 DEF Show, TypeOK
    <2>4. pc' \in [Tasks -> {"boot", "away", "loop", "apply", "show", "react", "retry"}]
        BY <1>5 DEF Show, Goto, TypeOK
    <2> QED BY <1>5, <2>1, <2>2, <2>3, <2>4 DEF Show, TypeOK
<1>6. ASSUME NEW t \in Tasks, React(t) PROVE TypeOK'
    <2>1. /\ link' \in {"off", "idle", "connecting", "up"} /\ attempts' \in Nat
          /\ connectErrors' \in 0 .. MaxConnectErrors
          /\ retryCount' \in 0 .. RetryLimit /\ reconnectAt' \in Ticks /\ quiet' \in 0 .. Pause
          /\ reconnectPending' \in BOOLEAN /\ UNCHANGED connected
        <3>1. CASE event[t] = "STA_START" /\ Connect /\ UNCHANGED <<managerVars, quiet>>
            BY <3>1, ConnectFacts DEF TypeOK
        <3>2. CASE /\ event[t] = "STA_DISCONNECTED" /\ MayRetry /\ retryCount' = retryCount + 1
                   /\ Connect /\ UNCHANGED <<connected, reconnectPending, reconnectAt, quiet>>
            BY <3>2, ConnectFacts, QueueAssumption DEF MayRetry, TypeOK
        <3>3. CASE StartPause /\ UNCHANGED connected
            <4>1. reconnectPending' \in BOOLEAN
                BY <3>3, Zenon DEF StartPause
            <4>2. reconnectAt' \in Ticks
                BY <3>3, WrapFacts DEF StartPause, TypeOK
            <4> QED BY <3>3, <4>1, <4>2, QueueAssumption, PauseAssumption DEF StartPause, TypeOK
        <3>4. CASE UNCHANGED <<link, connectErrors, attempts, quiet, managerVars>>
            BY <3>4 DEF TypeOK
        <3> QED BY <1>6, <3>1, <3>2, <3>3, <3>4 DEF React
    <2>2. event' \in [Tasks -> Events \cup {NoEvent}]
        BY <1>6 DEF React, TypeOK
    <2>3. pc' \in [Tasks -> {"boot", "away", "loop", "apply", "show", "react", "retry"}]
        BY <1>6 DEF React, Goto, TypeOK
    <2> QED BY <1>6, <2>1, <2>2, <2>3 DEF React, TypeOK
<1>7. ASSUME NEW t \in Tasks, TimerCheck(t) PROVE TypeOK'
    <2>1. lag' \in 0 .. MaxLag /\ addresses' \in 0 .. MaxAddresses
        BY <1>7, PauseAssumption, BoundsAssumption DEF TimerCheck, TypeOK
    <2>2. reconnectPending' \in BOOLEAN
        BY <1>7, Zenon DEF TimerCheck, TypeOK
    <2>3. reconnectAt' \in Ticks
        <3>1. 0 \in Ticks
            BY WrapFacts DEF Ticks
        <3>2. reconnectAt' = 0 \/ reconnectAt' = reconnectAt
            BY <1>7 DEF TimerCheck
        <3> QED BY <3>1, <3>2 DEF TypeOK
    <2>4. pc' \in [Tasks -> {"boot", "away", "loop", "apply", "show", "react", "retry"}]
        BY <1>7 DEF TimerCheck, Goto, TypeOK
    <2> QED BY <1>7, <2>1, <2>2, <2>3, <2>4 DEF TimerCheck, TypeOK
<1>8. ASSUME NEW t \in Tasks, TimerRetry(t) PROVE TypeOK'
    <2>1. /\ link' \in {"off", "idle", "connecting", "up"} /\ attempts' \in Nat
          /\ connectErrors' \in 0 .. MaxConnectErrors
        BY <1>8, ConnectFacts DEF TimerRetry, TypeOK
    <2>2. pc' \in [Tasks -> {"boot", "away", "loop", "apply", "show", "react", "retry"}]
        BY <1>8 DEF TimerRetry, Goto, TypeOK
    <2> QED BY <1>8, <2>1, <2>2 DEF TimerRetry, TypeOK
<1>9. CASE DriverStep
    <2>1. queue' \in Seq(Events) /\ Len(queue') <= QueueLength /\ lost' \in BOOLEAN
        BY <1>9, <1>e, PostType DEF DriverStep, LinkUp, ConnectFails, LinkDrops, AddressChanges
    <2>2. /\ link' \in {"off", "idle", "connecting", "up"} /\ attempts' \in Nat
          /\ drops' \in 0 .. MaxDrops /\ addresses' \in 0 .. MaxAddresses
        BY <1>9, BoundsAssumption
           DEF DriverStep, LinkUp, ConnectFails, LinkDrops, AddressChanges, TypeOK
    <2>3. UNCHANGED driverFrame
        BY <1>9 DEF DriverStep, LinkUp, ConnectFails, LinkDrops, AddressChanges
    <2> QED BY <2>1, <2>2, <2>3 DEF TypeOK
<1>10. CASE Tick
    <2>1. lag' \in 0 .. MaxLag /\ now' \in Ticks /\ quiet' \in 0 .. Pause
        BY <1>10, PauseAssumption, WrapFacts DEF Tick, TypeOK
    <2> QED BY <1>10, <2>1 DEF Tick, TypeOK
<1>11. CASE UNCHANGED vars
    BY <1>11 DEF vars, TypeOK
<1> QED BY <1>1, <1>2, <1>3, <1>4, <1>5, <1>6, <1>7, <1>8, <1>9, <1>10, <1>11
        DEF Next, InitStep, ServiceStep

----------------------------------------------------------------------------
(* The tasks and the token.                                                *)

\* The two tasks are "main" and "http".
LEMMA TaskNames == "main" \in Tasks /\ "http" \in Tasks /\ \A t \in Tasks : t = "main" \/ t = "http"
BY DEF Tasks

\* Where a step of a task leaves it, and the event it has taken.
LEMMA PlaceFacts ==
    ASSUME TypeOK, NEW t \in Tasks
    PROVE  /\ \A place : Goto(t, place) =>
                 pc'[t] = place /\ \A u \in Tasks \ {t} : pc'[u] = pc[u]
           /\ \A e : event' = [event EXCEPT ![t] = e] =>
                 event'[t] = e /\ \A u \in Tasks \ {t} : event'[u] = event[u]
           /\ \A s : status' = [status EXCEPT ![t] = s] =>
                 status'[t] = s /\ \A u \in Tasks \ {t} : status'[u] = status[u]
BY DEF Goto, TypeOK

\* The retry of network_init.
LEMMA InitFacts ==
    ASSUME TypeOK, TaskInv, NEW wifi \in BOOLEAN, NEW ok \in BOOLEAN, NetworkInit(wifi, ok)
    PROVE  /\ ~httpReady /\ (httpReady' <=> ok) /\ (networkRetry'.ready <=> ok)
           /\ pc["main"] \in {"boot", "away"} /\ pc["http"] = "away"
           /\ pc'["main"] = "loop" /\ pc'["http"] = "away"
           /\ ok => led' = LedStatus(connected, TRUE)
           /\ UNCHANGED <<drops, addresses, event, status, connected, retryCount,
                          reconnectPending, reconnectAt, now, lag, attempts, quiet, newest,
                          overtaken, ledOvertaken>>
<1>1. pc["main"] = "boot" \/ (pc["main"] = "away" /\ ~networkRetry.ready)
    BY DEF NetworkInit, InitDue, IsDue
<1>2. ~httpReady /\ pc["http"] = "away" /\ pc["main"] \in {"boot", "away"}
    BY <1>1 DEF TaskInv
<1>3. networkRetry'.ready <=> ok
    BY PolicyFacts DEF NetworkInit, AfterInit, TypeOK
<1>4. pc'["main"] = "loop" /\ pc'["http"] = "away"
    BY <1>2, TaskNames DEF NetworkInit, TypeOK
<1>5. ok => led' = LedStatus(connected, TRUE)
    BY DEF NetworkInit, InitShows, LedStatus
<1> QED BY <1>2, <1>3, <1>4, <1>5 DEF NetworkInit, managerVars, timeVars, orderVars

\* Every step keeps the places of the tasks.
LEMMA TaskStep == TypeOK /\ TaskInv /\ [Next]_vars => TaskInv'
<1> SUFFICES ASSUME TypeOK, TaskInv, [Next]_vars PROVE TaskInv'
    OBVIOUS
<1> USE TaskNames DEF driverVars, taskVars, managerVars, initVars, timeVars, orderVars,
            historyVars, driverFrame
<1>0. ASSUME UNCHANGED <<httpReady, networkRetry>>, NEW t \in Tasks,
             \A u \in Tasks \ {t} : /\ pc'[u] = pc[u] /\ event'[u] = event[u]
                                    /\ status'[u] = status[u],
             event'[t] # NoEvent <=> pc'[t] \in {"apply", "show", "react"},
             pc'[t] = "show" => status'[t] # NoStatus,
             pc'[t] # "boot", t = "http" => httpReady \/ pc'[t] = "away"
      PROVE  TaskInv'
    BY <1>0 DEF TaskInv
<1>1. ASSUME NEW wifi \in BOOLEAN, NEW ok \in BOOLEAN, NetworkInit(wifi, ok) PROVE TaskInv'
    BY <1>1, InitFacts DEF TaskInv
<1>2. ASSUME NEW t \in Tasks, Enter(t) PROVE TaskInv'
    BY <1>0, <1>2, PlaceFacts DEF Enter, TaskInv
<1>3. ASSUME NEW t \in Tasks, Take(t) PROVE TaskInv'
    <2>1. Head(queue) # NoEvent
        BY <1>3, TailFacts DEF Take, TypeOK, Events, NoEvent
    <2>2. /\ pc'[t] = "apply" /\ event'[t] = Head(queue) /\ UNCHANGED <<status, httpReady, networkRetry>>
          /\ \A u \in Tasks \ {t} : pc'[u] = pc[u] /\ event'[u] = event[u]
        BY <1>3, PlaceFacts DEF Take
    <2>3. t = "http" => httpReady
        BY <1>3 DEF Take, TaskInv
    <2> QED BY <1>0, <2>1, <2>2, <2>3
<1>4. ASSUME NEW t \in Tasks, Apply(t) PROVE TaskInv'
    <2>1. LedStatus(connected', httpReady) # NoStatus
        BY DEF LedStatus, NoStatus
    <2>2. /\ pc[t] = "apply" /\ pc'[t] = "show" /\ status'[t] = LedStatus(connected', httpReady)
          /\ UNCHANGED <<event, httpReady, networkRetry>>
          /\ \A u \in Tasks \ {t} : pc'[u] = pc[u] /\ status'[u] = status[u]
        BY <1>4, PlaceFacts DEF Apply
    <2>3. (t = "http" => httpReady) /\ event[t] # NoEvent
        BY <2>2 DEF TaskInv
    <2> QED BY <1>0, <2>1, <2>2, <2>3
<1>5. ASSUME NEW t \in Tasks, Show(t) PROVE TaskInv'
    BY <1>0, <1>5, PlaceFacts DEF Show, TaskInv
<1>6. ASSUME NEW t \in Tasks, React(t) PROVE TaskInv'
    <2>1. /\ pc[t] = "react" /\ pc'[t] = "loop" /\ event'[t] = NoEvent
          /\ UNCHANGED <<status, httpReady, networkRetry>>
          /\ \A u \in Tasks \ {t} : pc'[u] = pc[u] /\ event'[u] = event[u]
        BY <1>6, PlaceFacts DEF React
    <2>2. t = "http" => httpReady
        BY <2>1 DEF TaskInv
    <2> QED BY <1>0, <2>1, <2>2
<1>7. ASSUME NEW t \in Tasks, TimerCheck(t) PROVE TaskInv'
    BY <1>0, <1>7, PlaceFacts DEF TimerCheck, TaskInv
<1>8. ASSUME NEW t \in Tasks, TimerRetry(t) PROVE TaskInv'
    BY <1>0, <1>8, PlaceFacts DEF TimerRetry, TaskInv
<1>9. CASE DriverStep \/ Tick \/ UNCHANGED vars
    <2>1. UNCHANGED <<pc, event, status, httpReady, networkRetry>>
        BY <1>9 DEF DriverStep, LinkUp, ConnectFails, LinkDrops, AddressChanges, Tick, vars
    <2> QED BY <2>1 DEF TaskInv
<1> QED BY <1>1, <1>2, <1>3, <1>4, <1>5, <1>6, <1>7, <1>8, <1>9
        DEF Next, InitStep, ServiceStep

\* The queue holds the events that can come before it is drained: the address of the
\* connection, its changes, and the disconnect.
QueueSuffices == MaxAddresses + 2 <= QueueLength

\* There is room for every event that the driver can post.
LEMMA RoomFacts ==
    ASSUME QueueSuffices, TypeOK, TokenInv, LengthInv
    PROVE  /\ Len(queue) \in Nat
           /\ link \in {"off", "connecting"} => queue = <<>> /\ Len(queue) = 0
           /\ link = "up" => ~Queued /\ Len(queue) <= addresses + 1
           /\ link = "up" => \A i \in 1 .. Len(queue) : queue[i] = "GOT_IP"
           /\ link # "idle" => Len(queue) < QueueLength /\ \A t \in Tasks : ~Holds(t)
           /\ link # "idle" => ~reconnectPending
<1>1. queue \in Seq(Events) /\ Len(queue) \in Nat /\ addresses \in 0 .. MaxAddresses
    BY DEF TypeOK
<1>2. queue = <<>> <=> Len(queue) = 0
    BY <1>1, EmptyFacts
<1>3. link \in {"off", "connecting"} => queue = <<>> /\ Len(queue) = 0
    BY <1>2 DEF TokenInv
<1>4. link = "up" => ~Queued /\ Len(queue) <= addresses + 1
    BY <1>1 DEF TokenInv, LengthInv
<1>5. ASSUME link = "up", NEW i \in 1 .. Len(queue) PROVE queue[i] = "GOT_IP"
    <2>1. CASE i = Len(queue)
        BY <1>1, <1>2, <1>4, <1>5, <2>1 DEF Queued, Changing, Events
    <2>2. CASE i # Len(queue)
        BY <1>1, <1>5, <2>2 DEF TokenInv
    <2> QED BY <2>1, <2>2
<1>6. link # "idle" => Len(queue) < QueueLength
    BY <1>1, <1>3, <1>4, QueueAssumption, BoundsAssumption DEF QueueSuffices, TypeOK
<1> QED BY <1>1, <1>3, <1>4, <1>5, <1>6 DEF TokenInv

\* Taking an event: it tells of an address unless it is the last one of the queue.
LEMMA TakeFacts ==
    ASSUME TypeOK, TokenInv, NEW t \in Tasks, Take(t)
    PROVE  /\ pc[t] = "loop" /\ pc'[t] = "apply" /\ newest' = t
           /\ \A u \in Tasks \ {t} : pc'[u] = pc[u] /\ event'[u] = event[u]
           /\ queue # <<>> /\ Len(queue) \in Nat \ {0} /\ Len(queue') = Len(queue) - 1
           /\ \A i \in 1 .. Len(queue) - 1 : queue'[i] = queue[i + 1]
           /\ event'[t] \in Events
           /\ Len(queue) = 1 => queue' = <<>> /\ event'[t] = queue[Len(queue)]
           /\ Len(queue) # 1 => /\ queue' # <<>> /\ event'[t] = "GOT_IP"
                                /\ queue'[Len(queue')] = queue[Len(queue)]
           /\ UNCHANGED <<link, addresses, connected, retryCount, reconnectPending, reconnectAt,
                          httpReady, networkRetry, led, status, now, lost, attempts, quiet,
                          overtaken, ledOvertaken>>
<1>1. queue \in Seq(Events) /\ queue # <<>> /\ queue' = Tail(queue)
    BY DEF Take, TypeOK
<1>2. /\ Len(queue) \in Nat \ {0} /\ Head(queue) = queue[1] /\ queue[1] \in Events
      /\ queue' \in Seq(Events) /\ Len(queue') = Len(queue) - 1
      /\ \A i \in 1 .. Len(queue) - 1 : queue'[i] = queue[i + 1]
    BY <1>1, TailFacts
<1>3. /\ pc[t] = "loop" /\ pc'[t] = "apply" /\ newest' = t /\ event'[t] = queue[1]
      /\ \A u \in Tasks \ {t} : pc'[u] = pc[u] /\ event'[u] = event[u]
    <2>1. /\ pc[t] = "loop" /\ pc'[t] = "apply" /\ newest' = t /\ event'[t] = Head(queue)
          /\ \A u \in Tasks \ {t} : pc'[u] = pc[u] /\ event'[u] = event[u]
        BY PlaceFacts DEF Take
    <2> QED BY <1>2, <2>1
<1>4. queue' = <<>> <=> Len(queue) = 1
    BY <1>2, EmptyFacts
<1>5. ASSUME Len(queue) # 1
      PROVE  queue[1] = "GOT_IP" /\ queue'[Len(queue')] = queue[Len(queue)]
    <2>1. 1 \in 1 .. Len(queue) - 1 /\ Len(queue) - 1 \in 1 .. Len(queue) - 1
        BY <1>2, <1>5
    <2>2. queue'[Len(queue) - 1] = queue[(Len(queue) - 1) + 1] /\ (Len(queue) - 1) + 1 = Len(queue)
        BY <1>2, <2>1
    <2> QED BY <1>2, <2>1, <2>2 DEF TokenInv
<1> QED BY <1>1, <1>2, <1>3, <1>4, <1>5
        DEF Take, driverVars, managerVars, initVars, timeVars

\* Applying an event.
LEMMA ApplyFacts ==
    ASSUME TypeOK, TaskInv, NEW t \in Tasks, Apply(t)
    PROVE  /\ pc[t] = "apply" /\ pc'[t] = "show" /\ event[t] \in Events
           /\ \A u \in Tasks \ {t} : pc'[u] = pc[u] /\ status'[u] = status[u]
           /\ status'[t] = LedStatus(connected', httpReady)
           /\ event[t] = "GOT_IP" => connected' /\ retryCount' = 0
           /\ event[t] = "STA_DISCONNECTED" => ~connected'
           /\ event[t] = "STA_START" => connected' = connected
           /\ event[t] # "GOT_IP" => retryCount' = retryCount
           /\ overtaken' <=> newest # t
           /\ UNCHANGED <<queue, event, link, addresses, reconnectPending, reconnectAt, httpReady,
                          networkRetry, led, now, lost, attempts, quiet, newest, ledOvertaken>>
<1>1. pc[t] = "apply" /\ event[t] # NoEvent /\ event[t] \in Events \cup {NoEvent}
    BY DEF Apply, TaskInv, TypeOK
<1>2. connected' = ConnectedAfter(event[t])
    BY DEF Apply
<1>3. /\ event[t] = "GOT_IP" => connected'
      /\ event[t] = "STA_DISCONNECTED" => ~connected'
      /\ event[t] = "STA_START" => connected' = connected
    BY <1>2 DEF ConnectedAfter
<1>4. /\ pc'[t] = "show" /\ status'[t] = LedStatus(connected', httpReady)
      /\ \A u \in Tasks \ {t} : pc'[u] = pc[u] /\ status'[u] = status[u]
    BY PlaceFacts DEF Apply
<1> QED BY <1>1, <1>3, <1>4 DEF Apply, driverVars, initVars, timeVars

\* The rest of the branch: an attempt, the pause, or nothing.
LEMMA ReactFacts ==
    ASSUME TypeOK, TaskInv, TokenInv, NEW t \in Tasks, React(t)
    PROVE  /\ pc[t] = "react" /\ pc'[t] = "loop" /\ event'[t] = NoEvent
           /\ \A u \in Tasks \ {t} : pc'[u] = pc[u] /\ event'[u] = event[u]
           /\ event[t] \in Changing =>
                 /\ link = "idle" /\ queue = <<>> /\ ~reconnectPending
                 /\ \A u \in Tasks \ {t} : ~Holds(u)
           /\ \/ /\ event[t] \in Changing
                 /\ \/ link' = "connecting" /\ attempts' = attempts + 1
                    \/ UNCHANGED <<link, attempts>>
                 /\ \/ event[t] = "STA_START" /\ retryCount' = retryCount
                    \/ retryCount < RetryLimit /\ retryCount' = retryCount + 1
                 /\ UNCHANGED <<reconnectPending, reconnectAt, quiet>>
              \/ /\ event[t] = "STA_DISCONNECTED" /\ link' = link
                 /\ reconnectPending' /\ reconnectAt' = After(now, Pause) /\ quiet' = Pause
                 /\ attempts' = 0 /\ retryCount' = 0
              \/ /\ event[t] = "GOT_IP"
                 /\ UNCHANGED <<link, attempts, retryCount, reconnectPending, reconnectAt, quiet>>
           /\ UNCHANGED <<queue, addresses, connected, status, httpReady, networkRetry, led, now,
                          lost, newest, overtaken, ledOvertaken>>
<1>1. /\ pc[t] = "react" /\ pc'[t] = "loop" /\ event'[t] = NoEvent
      /\ \A u \in Tasks \ {t} : pc'[u] = pc[u] /\ event'[u] = event[u]
    BY PlaceFacts DEF React
<1>2. event[t] \in Changing =>
         /\ link = "idle" /\ queue = <<>> /\ ~reconnectPending
         /\ \A u \in Tasks \ {t} : ~Holds(u)
    BY DEF TokenInv, Holds
<1>3. UNCHANGED <<queue, addresses, connected, status, httpReady, networkRetry, led, now,
                  lost, newest, overtaken, ledOvertaken>>
    BY DEF React, StartPause, managerVars, initVars, timeVars, orderVars
<1>4. CASE event[t] = "STA_START" /\ Connect /\ UNCHANGED <<managerVars, quiet>>
    BY <1>1, <1>2, <1>3, <1>4, ConnectFacts DEF Changing, managerVars
<1>5. CASE /\ event[t] = "STA_DISCONNECTED" /\ MayRetry /\ retryCount' = retryCount + 1
           /\ Connect /\ UNCHANGED <<connected, reconnectPending, reconnectAt, quiet>>
    BY <1>1, <1>2, <1>3, <1>5, ConnectFacts DEF Changing, MayRetry
<1>6. CASE event[t] = "STA_DISCONNECTED" /\ StartPause
    BY <1>1, <1>2, <1>3, <1>6 DEF StartPause
<1>7. CASE event[t] = "GOT_IP" /\ UNCHANGED <<link, attempts, quiet, managerVars>>
    BY <1>1, <1>2, <1>3, <1>7 DEF managerVars, Changing
<1>8. ~(event[t] = "STA_DISCONNECTED" /\ reconnectPending)
    BY <1>2 DEF Changing
<1> QED BY <1>4, <1>5, <1>6, <1>7, <1>8 DEF React

\* The end of a pass, with or without the end of the pause.
LEMMA CheckFacts ==
    ASSUME TypeOK, NEW t \in Tasks, TimerCheck(t)
    PROVE  /\ pc[t] = "loop" /\ queue = <<>>
           /\ \A u \in Tasks \ {t} : pc'[u] = pc[u]
           /\ \/ /\ reconnectPending /\ Reached(now, reconnectAt)
                 /\ ~reconnectPending' /\ pc'[t] = "retry"
              \/ UNCHANGED <<reconnectPending, reconnectAt>> /\ pc'[t] = "away"
           /\ UNCHANGED <<queue, event, link, connected, retryCount, status, httpReady,
                          networkRetry, led, now, lost, attempts, quiet, newest, overtaken,
                          ledOvertaken>>
<1>1. /\ pc[t] = "loop" /\ queue = <<>>
      /\ UNCHANGED <<queue, event, link, connected, retryCount, status, httpReady,
                     networkRetry, led, now, lost, attempts, quiet, newest, overtaken,
                     ledOvertaken>>
    BY DEF TimerCheck, initVars, historyVars, orderVars
<1>2. CASE reconnectPending /\ Reached(now, reconnectAt)
    <2>1. reconnectPending' = FALSE /\ Goto(t, "retry")
        BY <1>2 DEF TimerCheck
    <2> QED BY <1>1, <1>2, <2>1, PlaceFacts
<1>3. CASE ~(reconnectPending /\ Reached(now, reconnectAt))
    <2>1. UNCHANGED <<reconnectPending, reconnectAt>> /\ Goto(t, "away")
        BY <1>3 DEF TimerCheck
    <2> QED BY <1>1, <2>1, PlaceFacts
<1> QED BY <1>2, <1>3

\* The attempt after a pause.
LEMMA RetryFacts ==
    ASSUME TypeOK, TokenInv, NEW t \in Tasks, TimerRetry(t)
    PROVE  /\ pc[t] = "retry" /\ pc'[t] = "away" /\ link = "idle" /\ queue = <<>>
           /\ ~reconnectPending
           /\ \A u \in Tasks \ {t} : pc'[u] = pc[u] /\ ~Holds(u)
           /\ \/ link' = "connecting" /\ attempts' = attempts + 1
              \/ UNCHANGED <<link, attempts>>
           /\ UNCHANGED <<queue, event, addresses, connected, retryCount, reconnectPending,
                          reconnectAt, status, httpReady, networkRetry, led, now, lost, quiet,
                          newest, overtaken, ledOvertaken>>
<1>1. pc[t] = "retry" /\ pc'[t] = "away" /\ \A u \in Tasks \ {t} : pc'[u] = pc[u]
    BY PlaceFacts DEF TimerRetry
<1>2. link = "idle" /\ queue = <<>> /\ ~reconnectPending /\ \A u \in Tasks \ {t} : ~Holds(u)
    BY <1>1 DEF TokenInv, Holds
<1>3. \/ link' = "connecting" /\ attempts' = attempts + 1
      \/ UNCHANGED <<link, attempts>>
    BY <1>2, ConnectFacts DEF TimerRetry
<1> QED BY <1>1, <1>2, <1>3 DEF TimerRetry, managerVars, initVars, timeVars, orderVars

\* What the driver posts finds room and is the last event of the queue.
LEMMA DriverFacts ==
    ASSUME QueueSuffices, TypeOK, TokenInv, LengthInv, DriverStep
    PROVE  /\ link # "idle" /\ ~Queued /\ ~reconnectPending /\ \A t \in Tasks : ~Holds(t)
           /\ Len(queue) \in Nat /\ Len(queue') = Len(queue) + 1 /\ queue' # <<>>
           /\ \A i \in 1 .. Len(queue) : queue[i] = "GOT_IP" /\ queue'[i] = queue[i]
           /\ \/ /\ link' = "up" /\ queue'[Len(queue')] = "GOT_IP"
                 /\ \/ link = "connecting" /\ Len(queue) = 0 /\ attempts' = 0
                       /\ addresses' = addresses /\ \A t \in Tasks : pc[t] # "apply"
                    \/ link = "up" /\ addresses' = addresses + 1 /\ attempts' = attempts
              \/ /\ link' = "idle" /\ queue'[Len(queue')] = "STA_DISCONNECTED"
                 /\ addresses' = addresses /\ attempts' = attempts
                 /\ \/ link = "connecting" /\ Len(queue) = 0 /\ \A t \in Tasks : pc[t] # "apply"
                    \/ link = "up"
           /\ UNCHANGED <<pc, event, connected, retryCount, reconnectPending, reconnectAt, status,
                          httpReady, networkRetry, led, now, lost, quiet, newest, overtaken,
                          ledOvertaken>>
<1>1. link \in {"connecting", "up"}
    BY DEF DriverStep, LinkUp, ConnectFails, LinkDrops, AddressChanges
<1>2. /\ link # "idle" /\ ~Queued /\ ~reconnectPending /\ \A t \in Tasks : ~Holds(t)
      /\ Len(queue) \in Nat /\ Len(queue) < QueueLength
      /\ link = "connecting" => Len(queue) = 0
      /\ \A i \in 1 .. Len(queue) : queue[i] = "GOT_IP"
    BY <1>1, RoomFacts DEF Queued
<1>3. UNCHANGED <<pc, event, connected, retryCount, reconnectPending, reconnectAt, status,
                  httpReady, networkRetry, led, now, quiet, newest, overtaken, ledOvertaken>>
    BY DEF DriverStep, LinkUp, ConnectFails, LinkDrops, AddressChanges, driverFrame, taskVars,
           managerVars, initVars, timeVars, orderVars
<1>4. "GOT_IP" \in Events /\ "STA_DISCONNECTED" \in Events
    BY DEF Events
<1>5. ASSUME NEW e \in Events, Post(e)
      PROVE  /\ UNCHANGED lost /\ Len(queue') = Len(queue) + 1 /\ queue' # <<>>
             /\ queue'[Len(queue')] = e
             /\ \A i \in 1 .. Len(queue) : queue'[i] = queue[i]
    BY <1>2, <1>5, PostFacts
<1>6. CASE LinkUp
    <2>1. /\ link = "connecting" /\ link' = "up" /\ attempts' = 0 /\ Post("GOT_IP")
          /\ addresses' = addresses /\ \A t \in Tasks : pc[t] # "apply"
        BY <1>6 DEF LinkUp, TimePasses
    <2> QED BY <1>2, <1>3, <1>4, <1>5, <2>1
<1>7. CASE ConnectFails
    <2>1. /\ link = "connecting" /\ link' = "idle" /\ Post("STA_DISCONNECTED")
          /\ addresses' = addresses /\ attempts' = attempts /\ \A t \in Tasks : pc[t] # "apply"
        BY <1>7 DEF ConnectFails, TimePasses
    <2> QED BY <1>2, <1>3, <1>4, <1>5, <2>1
<1>8. CASE LinkDrops
    <2>1. /\ link = "up" /\ link' = "idle" /\ Post("STA_DISCONNECTED")
          /\ addresses' = addresses /\ attempts' = attempts
        BY <1>8 DEF LinkDrops
    <2> QED BY <1>2, <1>3, <1>4, <1>5, <2>1
<1>9. CASE AddressChanges
    <2>1. /\ link = "up" /\ link' = "up" /\ Post("GOT_IP")
          /\ addresses' = addresses + 1 /\ attempts' = attempts
        BY <1>9 DEF AddressChanges
    <2> QED BY <1>2, <1>3, <1>4, <1>5, <2>1
<1> QED BY <1>6, <1>7, <1>8, <1>9 DEF DriverStep

\* The start of the driver: it posts its first event, or nothing changes.
LEMMA BootFacts ==
    ASSUME QueueSuffices, TypeOK, TokenInv, LengthInv,
           NEW wifi \in BOOLEAN, NEW ok \in BOOLEAN, NetworkInit(wifi, ok)
    PROVE  \/ /\ link = "off" /\ link' = "idle" /\ UNCHANGED lost
              /\ Len(queue) = 0 /\ Len(queue') = 1 /\ queue' # <<>>
              /\ queue'[Len(queue')] = "STA_START"
           \/ UNCHANGED <<link, queue, lost>>
<1>1. CASE link = "off" /\ link' = "idle" /\ Post("STA_START")
    <2>1. Len(queue) = 0 /\ Len(queue) < QueueLength
        BY <1>1, RoomFacts
    <2>2. "STA_START" \in Events
        BY DEF Events
    <2> QED BY <1>1, <2>1, <2>2, PostFacts
<1> QED BY <1>1 DEF NetworkInit

\* The steps that leave the link, the queue, the pause and the events alone.
LEMMA QuietFacts ==
    ASSUME TypeOK
    PROVE  /\ \A t \in Tasks : Enter(t) =>
                 /\ pc[t] = "away" /\ pc'[t] = "loop" /\ \A u \in Tasks \ {t} : pc'[u] = pc[u]
                 /\ UNCHANGED <<link, addresses, queue, event, status, connected, retryCount,
                                reconnectPending, reconnectAt, httpReady, networkRetry, led, now,
                                lost, attempts, quiet, newest, overtaken, ledOvertaken>>
           /\ \A t \in Tasks : Show(t) =>
                 /\ pc[t] = "show" /\ pc'[t] = "react" /\ \A u \in Tasks \ {t} : pc'[u] = pc[u]
                 /\ \A u \in Tasks \ {t} : status'[u] = status[u]
                 /\ led' = status[t] /\ (ledOvertaken' <=> newest # t)
                 /\ UNCHANGED <<link, addresses, queue, event, connected, retryCount,
                                reconnectPending, reconnectAt, httpReady, networkRetry, now,
                                lost, attempts, quiet, newest, overtaken>>
           /\ Tick =>
                 /\ now' = After(now, 1) /\ quiet' = (IF quiet > 0 THEN quiet - 1 ELSE 0)
                 /\ UNCHANGED <<link, addresses, queue, pc, event, status, connected, retryCount,
                                reconnectPending, reconnectAt, httpReady, networkRetry, led,
                                lost, attempts, newest, overtaken, ledOvertaken>>
           /\ UNCHANGED vars =>
                 UNCHANGED <<link, addresses, queue, pc, event, status, connected, retryCount,
                             reconnectPending, reconnectAt, httpReady, networkRetry, led, now,
                             lost, attempts, quiet, newest, overtaken, ledOvertaken>>
<1> USE DEF driverVars, taskVars, managerVars, initVars, timeVars, orderVars, historyVars
<1>1. ASSUME NEW t \in Tasks, Enter(t)
      PROVE  /\ pc[t] = "away" /\ pc'[t] = "loop" /\ \A u \in Tasks \ {t} : pc'[u] = pc[u]
             /\ UNCHANGED <<link, addresses, queue, event, status, connected, retryCount,
                            reconnectPending, reconnectAt, httpReady, networkRetry, led, now,
                            lost, attempts, quiet, newest, overtaken, ledOvertaken>>
    BY <1>1, PlaceFacts DEF Enter
<1>2. ASSUME NEW t \in Tasks, Show(t)
      PROVE  /\ pc[t] = "show" /\ pc'[t] = "react" /\ \A u \in Tasks \ {t} : pc'[u] = pc[u]
             /\ \A u \in Tasks \ {t} : status'[u] = status[u]
             /\ led' = status[t] /\ (ledOvertaken' <=> newest # t)
             /\ UNCHANGED <<link, addresses, queue, event, connected, retryCount,
                            reconnectPending, reconnectAt, httpReady, networkRetry, now,
                            lost, attempts, quiet, newest, overtaken>>
    BY <1>2, PlaceFacts DEF Show
<1>3. ASSUME Tick
      PROVE  /\ now' = After(now, 1) /\ quiet' = (IF quiet > 0 THEN quiet - 1 ELSE 0)
             /\ UNCHANGED <<link, addresses, queue, pc, event, status, connected, retryCount,
                            reconnectPending, reconnectAt, httpReady, networkRetry, led,
                            lost, attempts, newest, overtaken, ledOvertaken>>
    BY <1>3 DEF Tick
<1>4. ASSUME UNCHANGED vars
      PROVE  UNCHANGED <<link, addresses, queue, pc, event, status, connected, retryCount,
                         reconnectPending, reconnectAt, httpReady, networkRetry, led, now,
                         lost, attempts, quiet, newest, overtaken, ledOvertaken>>
    BY <1>4 DEF vars
<1> QED BY <1>1, <1>2, <1>3, <1>4

\* Every step passes the token on, or drops it.
LEMMA TokenStep ==
    ASSUME QueueSuffices, TypeOK, TaskInv, TokenInv, LengthInv, [Next]_vars
    PROVE  TokenInv'
<1>t. /\ queue \in Seq(Events) /\ Len(queue) \in Nat
      /\ queue = <<>> => Len(queue) = 0
    BY EmptyFacts DEF TypeOK
<1>n. \A t \in Tasks : pc[t] \notin {"apply", "show", "react"} => event[t] = NoEvent
    BY DEF TaskInv
<1>c. NoEvent \notin Changing /\ "GOT_IP" \notin Changing
    BY DEF NoEvent, Changing
<1>0. ASSUME UNCHANGED <<link, queue, reconnectPending>>,
             \A t \in Tasks : Holds(t)' <=> Holds(t)
      PROVE  TokenInv'
    BY <1>0 DEF TokenInv, Queued
<1>1. ASSUME NEW wifi \in BOOLEAN, NEW ok \in BOOLEAN, NetworkInit(wifi, ok) PROVE TokenInv'
    <2>1. /\ pc["main"] \in {"boot", "away"} /\ pc["http"] = "away"
          /\ pc'["main"] = "loop" /\ pc'["http"] = "away" /\ UNCHANGED <<event, reconnectPending>>
        BY <1>1, InitFacts
    <2>2. \A t \in Tasks : Holds(t)' <=> Holds(t)
        BY <2>1, TaskNames DEF Holds
    <2>3. CASE UNCHANGED <<link, queue, lost>>
        BY <1>0, <2>1, <2>2, <2>3
    <2>4. CASE /\ link = "off" /\ link' = "idle"
               /\ Len(queue') = 1 /\ queue' # <<>> /\ queue'[Len(queue')] = "STA_START"
        <3>1. ~reconnectPending /\ \A t \in Tasks : ~Holds(t)
            BY <2>4 DEF TokenInv
        <3>2. Queued'
            BY <2>4 DEF Queued, Changing
        <3> QED BY <2>1, <2>2, <2>4, <3>1, <3>2 DEF TokenInv
    <2> QED BY <1>1, <2>3, <2>4, BootFacts
<1>2. ASSUME NEW t \in Tasks, Enter(t) PROVE TokenInv'
    BY <1>0, <1>2, QuietFacts DEF Holds
<1>3. ASSUME NEW t \in Tasks, Take(t) PROVE TokenInv'
    <2>0. /\ UNCHANGED <<link, reconnectPending>> /\ pc[t] = "loop" /\ pc'[t] = "apply"
          /\ \A u \in Tasks \ {t} : pc'[u] = pc[u] /\ event'[u] = event[u]
          /\ queue # <<>> /\ Len(queue) \in Nat \ {0} /\ Len(queue') = Len(queue) - 1
          /\ \A i \in 1 .. Len(queue) - 1 : queue'[i] = queue[i + 1]
          /\ Len(queue) = 1 => queue' = <<>> /\ event'[t] = queue[Len(queue)]
          /\ Len(queue) # 1 => /\ queue' # <<>> /\ event'[t] = "GOT_IP"
                               /\ queue'[Len(queue')] = queue[Len(queue)]
        BY <1>3, TakeFacts
    <2>1. ~Holds(t) /\ (Holds(t)' <=> event'[t] \in Changing)
        BY <1>c, <1>n, <2>0 DEF Holds
    <2>2. \A u \in Tasks \ {t} : Holds(u)' <=> Holds(u)
        BY <2>0 DEF Holds
    <2>3. \A i \in 1 .. Len(queue') - 1 : queue'[i] = "GOT_IP"
        BY <2>0 DEF TokenInv
    <2>4. CASE Len(queue) # 1
        <3>1. (Queued' <=> Queued) /\ ~Holds(t)'
            BY <1>c, <2>0, <2>1, <2>4 DEF Queued
        <3> QED BY <2>0, <2>1, <2>2, <2>3, <3>1 DEF TokenInv
    <2>5. CASE Len(queue) = 1
        <3>1. queue' = <<>> /\ (Holds(t)' <=> Queued) /\ ~Queued'
            BY <2>0, <2>1, <2>5 DEF Queued
        <3> QED BY <2>0, <2>1, <2>2, <2>3, <3>1 DEF TokenInv
    <2> QED BY <2>4, <2>5
<1>4. ASSUME NEW t \in Tasks, Apply(t) PROVE TokenInv'
    BY <1>0, <1>4, ApplyFacts DEF Holds
<1>5. ASSUME NEW t \in Tasks, Show(t) PROVE TokenInv'
    BY <1>0, <1>5, QuietFacts DEF Holds
<1>6. ASSUME NEW t \in Tasks, React(t) PROVE TokenInv'
    <2>0. /\ pc[t] = "react" /\ pc'[t] = "loop" /\ event'[t] = NoEvent /\ UNCHANGED queue
          /\ \A u \in Tasks \ {t} : pc'[u] = pc[u] /\ event'[u] = event[u]
          /\ event[t] \in Changing =>
                /\ link = "idle" /\ queue = <<>> /\ ~reconnectPending
                /\ \A u \in Tasks \ {t} : ~Holds(u)
        BY <1>6, ReactFacts
    <2>1. ~Holds(t)' /\ (Queued' <=> Queued) /\ \A u \in Tasks \ {t} : Holds(u)' <=> Holds(u)
        BY <1>c, <2>0 DEF Holds, Queued
    <2>2. CASE event[t] = "GOT_IP" /\ UNCHANGED <<link, reconnectPending>>
        <3>1. ~Holds(t)
            BY <1>c, <2>0, <2>2 DEF Holds
        <3> QED BY <1>0, <2>0, <2>1, <2>2, <3>1
    <2>3. CASE /\ event[t] \in Changing /\ UNCHANGED reconnectPending
               /\ link' = "connecting" \/ link' = link
        <3>1. queue' = <<>> /\ ~reconnectPending' /\ \A u \in Tasks : ~Holds(u)'
            BY <2>0, <2>1, <2>3
        <3> QED BY <1>t, <2>0, <3>1 DEF TokenInv, Queued
    <2>4. CASE event[t] \in Changing /\ link' = link /\ reconnectPending'
        <3>1. queue' = <<>> /\ link' = "idle" /\ \A u \in Tasks : ~Holds(u)'
            BY <2>0, <2>1, <2>4
        <3> QED BY <1>t, <2>0, <3>1 DEF TokenInv, Queued
    <2> QED BY <1>6, <2>2, <2>3, <2>4, ReactFacts DEF Changing
<1>7. ASSUME NEW t \in Tasks, TimerCheck(t) PROVE TokenInv'
    <2>0. /\ pc[t] = "loop" /\ queue = <<>> /\ UNCHANGED <<queue, event, link>>
          /\ \A u \in Tasks \ {t} : pc'[u] = pc[u]
        BY <1>7, CheckFacts
    <2>1. \A u \in Tasks \ {t} : Holds(u)' <=> Holds(u)
        BY <2>0 DEF Holds
    <2>2. CASE UNCHANGED reconnectPending /\ pc'[t] = "away"
        BY <1>0, <2>0, <2>1, <2>2 DEF Holds
    <2>3. CASE reconnectPending /\ ~reconnectPending' /\ pc'[t] = "retry"
        <3>1. /\ link' = "idle" /\ queue' = <<>> /\ Holds(t)' /\ ~Queued'
              /\ \A u \in Tasks \ {t} : ~Holds(u)'
            BY <2>0, <2>1, <2>3 DEF TokenInv, Holds, Queued
        <3> QED BY <1>t, <2>0, <2>3, <3>1 DEF TokenInv
    <2> QED BY <1>7, <2>2, <2>3, CheckFacts
<1>8. ASSUME NEW t \in Tasks, TimerRetry(t) PROVE TokenInv'
    <2>0. /\ pc[t] = "retry" /\ pc'[t] = "away" /\ queue = <<>> /\ ~reconnectPending
          /\ \A u \in Tasks \ {t} : pc'[u] = pc[u] /\ ~Holds(u)
          /\ UNCHANGED <<queue, event, reconnectPending>>
        BY <1>8, RetryFacts
    <2>1. \A u \in Tasks : ~Holds(u)'
        BY <1>c, <1>n, <2>0 DEF Holds
    <2> QED BY <1>t, <2>0, <2>1 DEF TokenInv, Queued
<1>9. CASE DriverStep
    <2>0. /\ ~reconnectPending /\ \A t \in Tasks : ~Holds(t)
          /\ Len(queue') = Len(queue) + 1 /\ queue' # <<>>
          /\ \A i \in 1 .. Len(queue) : queue[i] = "GOT_IP" /\ queue'[i] = queue[i]
          /\ UNCHANGED <<pc, event, reconnectPending>>
          /\ \/ link' = "up" /\ queue'[Len(queue')] = "GOT_IP"
             \/ link' = "idle" /\ queue'[Len(queue')] = "STA_DISCONNECTED"
        BY <1>9, DriverFacts
    <2>1. \A t \in Tasks : ~Holds(t)'
        BY <2>0 DEF Holds
    <2>2. \A i \in 1 .. Len(queue') - 1 : queue'[i] = "GOT_IP"
        BY <1>t, <2>0
    <2>3. Queued' <=> link' = "idle"
        BY <2>0 DEF Queued, Changing
    <2> QED BY <2>0, <2>1, <2>2, <2>3 DEF TokenInv
<1>10. CASE Tick \/ UNCHANGED vars
    BY <1>0, <1>10, QuietFacts DEF Holds
<1> QED BY <1>1, <1>2, <1>3, <1>4, <1>5, <1>6, <1>7, <1>8, <1>9, <1>10
        DEF Next, InitStep, ServiceStep

\* Every step keeps the queue short.
LEMMA LengthStep ==
    ASSUME QueueSuffices, TypeOK, TaskInv, TokenInv, LengthInv, [Next]_vars
    PROVE  LengthInv'
<1>t. /\ queue \in Seq(Events) /\ Len(queue) \in Nat /\ addresses \in Nat
      /\ queue = <<>> => Len(queue) = 0
    BY EmptyFacts DEF TypeOK
<1>0. ASSUME UNCHANGED <<queue, addresses, lost>> PROVE LengthInv'
    BY <1>0 DEF LengthInv, Queued
<1>1. ASSUME NEW wifi \in BOOLEAN, NEW ok \in BOOLEAN, NetworkInit(wifi, ok) PROVE LengthInv'
    <2>1. UNCHANGED addresses
        BY <1>1, InitFacts
    <2>2. CASE UNCHANGED <<link, queue, lost>>
        BY <1>0, <2>1, <2>2
    <2>3. CASE Len(queue') = 1 /\ UNCHANGED lost
        BY <1>t, <2>1, <2>3 DEF LengthInv
    <2> QED BY <1>1, <2>2, <2>3, BootFacts
<1>2. ASSUME NEW t \in Tasks, Enter(t) \/ Show(t) PROVE LengthInv'
    BY <1>0, <1>2, QuietFacts
<1>3. ASSUME NEW t \in Tasks, Take(t) PROVE LengthInv'
    <2>0. /\ queue # <<>> /\ Len(queue) \in Nat \ {0} /\ Len(queue') = Len(queue) - 1
          /\ Len(queue) # 1 => queue' # <<>> /\ queue'[Len(queue')] = queue[Len(queue)]
          /\ UNCHANGED <<addresses, lost>>
        BY <1>3, TakeFacts
    <2>1. CASE Len(queue) # 1
        <3>1. Queued' <=> Queued
            BY <2>0, <2>1 DEF Queued
        <3> QED BY <1>t, <2>0, <3>1 DEF LengthInv
    <2>2. CASE Len(queue) = 1
        BY <1>t, <2>0, <2>2 DEF LengthInv
    <2> QED BY <2>1, <2>2
<1>4. ASSUME NEW t \in Tasks, Apply(t) PROVE LengthInv'
    BY <1>0, <1>4, ApplyFacts
<1>6. ASSUME NEW t \in Tasks, React(t) PROVE LengthInv'
    BY <1>0, <1>6, ReactFacts
<1>7. ASSUME NEW t \in Tasks, TimerCheck(t) PROVE LengthInv'
    <2>1. queue' = <<>> /\ Len(queue') = 0 /\ UNCHANGED lost
        BY <1>7, <1>t, CheckFacts
    <2>2. addresses' \in Nat
        BY <1>t, <1>7 DEF TimerCheck
    <2>3. ~lost'
        BY <2>1 DEF LengthInv
    <2>4. Len(queue') = 0
        BY <2>1
    <2>5. \A b \in Nat : 0 <= addresses' + 1 + b
        <3>1. \A a, b \in Nat : 0 <= a + 1 + b
            OBVIOUS
        <3> QED BY <2>2, <3>1, Zenon
    <2>6. (IF Queued' THEN 1 ELSE 0) \in Nat
        OBVIOUS
    <2>7. Len(queue') <= addresses' + 1 + (IF Queued' THEN 1 ELSE 0)
        BY <2>4, <2>5, <2>6, Zenon
    <2> QED BY <2>3, <2>7 DEF LengthInv
<1>8. ASSUME NEW t \in Tasks, TimerRetry(t) PROVE LengthInv'
    BY <1>0, <1>8, RetryFacts
<1>9. CASE DriverStep
    <2>0. /\ ~Queued /\ Len(queue') = Len(queue) + 1 /\ queue' # <<>> /\ UNCHANGED lost
          /\ \/ Len(queue) = 0 /\ addresses' = addresses
             \/ addresses' = addresses + 1
             \/ queue'[Len(queue')] = "STA_DISCONNECTED" /\ addresses' = addresses
        BY <1>9, DriverFacts
    <2>1. queue'[Len(queue')] = "STA_DISCONNECTED" => Queued'
        BY <2>0 DEF Queued, Changing
    <2>2. Len(queue) <= addresses + 1 /\ ~lost
        BY <1>t, <2>0 DEF LengthInv
    <2> QED BY <1>t, <2>0, <2>1, <2>2 DEF LengthInv
<1>10. CASE Tick \/ UNCHANGED vars
    BY <1>0, <1>10, QuietFacts
<1> QED BY <1>1, <1>2, <1>3, <1>4, <1>6, <1>7, <1>8, <1>9, <1>10
        DEF Next, InitStep, ServiceStep

----------------------------------------------------------------------------
(* The connection and the LED.                                             *)

\* Every step keeps the time before the first attempt free of other events.
LEMMA FirstStep ==
    ASSUME QueueSuffices, TypeOK, TaskInv, TokenInv, LengthInv, FirstInv, [Next]_vars
    PROVE  FirstInv'
<1>t. /\ queue \in Seq(Events) /\ Len(queue) \in Nat
      /\ queue = <<>> => Len(queue) = 0
    BY EmptyFacts DEF TypeOK
<1>n. \A t \in Tasks : pc[t] \notin {"apply", "show", "react"} => event[t] = NoEvent
    BY DEF TaskInv
<1>0. ASSUME UNCHANGED <<link, queue, event, connected, attempts>> PROVE FirstInv'
    BY <1>0 DEF FirstInv, Fresh
<1>1. ASSUME NEW wifi \in BOOLEAN, NEW ok \in BOOLEAN, NetworkInit(wifi, ok) PROVE FirstInv'
    <2>1. UNCHANGED <<event, connected, attempts>>
        BY <1>1, InitFacts
    <2>2. CASE UNCHANGED <<link, queue, lost>>
        BY <1>0, <2>1, <2>2
    <2>3. CASE link = "off" /\ Len(queue') = 1
        <3>1. Fresh
            BY <2>3 DEF Fresh
        <3> QED BY <2>1, <2>3, <3>1 DEF FirstInv
    <2> QED BY <1>1, <2>2, <2>3, BootFacts
<1>2. ASSUME NEW t \in Tasks, Enter(t) \/ Show(t) PROVE FirstInv'
    BY <1>0, <1>2, QuietFacts
<1>3. ASSUME NEW t \in Tasks, Take(t) PROVE FirstInv'
    <2>0. /\ queue # <<>> /\ Len(queue) \in Nat \ {0} /\ Len(queue') = Len(queue) - 1
          /\ \A u \in Tasks \ {t} : event'[u] = event[u]
          /\ Len(queue) = 1 => queue' = <<>> /\ event'[t] = queue[Len(queue)]
          /\ Len(queue) # 1 => event'[t] = "GOT_IP" /\ queue'[Len(queue')] = queue[Len(queue)]
          /\ UNCHANGED <<link, connected, attempts>>
        BY <1>3, TakeFacts
    <2>1. ASSUME Fresh' PROVE Fresh
        BY <2>0, <2>1 DEF Fresh
    <2>2. ASSUME Fresh PROVE Len(queue) = 1 /\ event'[t] = "STA_START"
        <3>1. Len(queue) = 1
            BY <1>t, <2>0, <2>2 DEF FirstInv
        <3>2. link # "off" /\ \A u \in Tasks : event[u] # "STA_START"
            <4>1. queue # <<>> => \A u \in Tasks : ~Holds(u)
                BY DEF TokenInv
            <4> QED BY <2>0, <4>1 DEF TokenInv, Holds, Changing
        <3> QED BY <2>0, <2>2, <3>1, <3>2 DEF Fresh
    <2> QED BY <2>0, <2>1, <2>2 DEF FirstInv
<1>4. ASSUME NEW t \in Tasks, Apply(t) PROVE FirstInv'
    <2>0. /\ event[t] \in Events /\ (event[t] = "STA_START" => connected' = connected)
          /\ UNCHANGED <<link, queue, event, attempts>>
        BY <1>4, ApplyFacts
    <2>1. Fresh' => Fresh /\ event[t] = "STA_START"
        BY <2>0 DEF Fresh, FirstInv, Events, NoEvent
    <2> QED BY <2>0, <2>1 DEF FirstInv
<1>6. ASSUME NEW t \in Tasks, React(t) PROVE FirstInv'
    <2>0. /\ event'[t] = NoEvent /\ UNCHANGED <<queue, connected>>
          /\ \A u \in Tasks \ {t} : event'[u] = event[u]
          /\ event[t] \in Changing =>
                link = "idle" /\ queue = <<>> /\ \A u \in Tasks \ {t} : ~Holds(u)
          /\ \/ event[t] \in Changing /\ link' \in {"connecting", "idle"}
             \/ event[t] = "GOT_IP" /\ UNCHANGED <<link, attempts>>
        BY <1>6, ReactFacts DEF Changing
    <2>1. CASE event[t] \in Changing /\ link' \in {"connecting", "idle"}
        <3>1. ~Fresh'
            BY <2>0, <2>1 DEF Fresh, Holds, Changing, NoEvent
        <3> QED BY <3>1 DEF FirstInv
    <2>2. CASE event[t] = "GOT_IP" /\ UNCHANGED <<link, attempts>>
        <3>1. Fresh' => Fresh
            BY <2>0, <2>2 DEF Fresh, NoEvent
        <3>2. ~Fresh
            BY <2>2 DEF FirstInv, NoEvent
        <3> QED BY <3>1, <3>2 DEF FirstInv
    <2> QED BY <2>0, <2>1, <2>2
<1>7. ASSUME NEW t \in Tasks, TimerCheck(t) PROVE FirstInv'
    BY <1>0, <1>7, CheckFacts
<1>8. ASSUME NEW t \in Tasks, TimerRetry(t) PROVE FirstInv'
    <2>0. /\ pc[t] = "retry" /\ link = "idle" /\ queue = <<>> /\ link' \in {"idle", "connecting"}
          /\ \A u \in Tasks \ {t} : ~Holds(u)
          /\ UNCHANGED <<queue, event>>
        BY <1>8, RetryFacts
    <2>1. ~Fresh'
        BY <1>n, <2>0 DEF Fresh, Holds, Changing, NoEvent
    <2> QED BY <2>1 DEF FirstInv
<1>9. CASE DriverStep
    <2>0. /\ \A t \in Tasks : ~Holds(t)
          /\ queue'[Len(queue')] # "STA_START" /\ link' \in {"idle", "up"} /\ UNCHANGED event
        BY <1>9, DriverFacts
    <2>1. ~Fresh'
        BY <2>0 DEF Fresh, Holds, Changing
    <2> QED BY <2>1 DEF FirstInv
<1>10. CASE Tick \/ UNCHANGED vars
    BY <1>0, <1>10, QuietFacts
<1> QED BY <1>1, <1>2, <1>3, <1>4, <1>6, <1>7, <1>8, <1>9, <1>10
        DEF Next, InitStep, ServiceStep

\* Every step keeps s_connected in step with the link.
LEMMA OrderStep ==
    ASSUME QueueSuffices, TypeOK, TaskInv, TokenInv, LengthInv, FirstInv, OrderInv, [Next]_vars
    PROVE  OrderInv'
<1>t. newest \in Tasks
    BY DEF TypeOK
<1>0. ASSUME UNCHANGED <<queue, event, connected, newest, overtaken>>,
             link' = "up" <=> link = "up",
             \A t \in Tasks : pc'[t] = "apply" <=> pc[t] = "apply"
      PROVE  OrderInv'
    BY <1>0, <1>t DEF OrderInv
<1>1. ASSUME NEW wifi \in BOOLEAN, NEW ok \in BOOLEAN, NetworkInit(wifi, ok) PROVE OrderInv'
    <2>1. /\ pc["main"] # "apply" /\ pc["http"] # "apply"
          /\ pc'["main"] # "apply" /\ pc'["http"] # "apply"
          /\ UNCHANGED <<event, connected, newest, overtaken>>
        BY <1>1, InitFacts
    <2>2. \A t \in Tasks : pc'[t] = "apply" <=> pc[t] = "apply"
        BY <2>1, TaskNames
    <2>3. CASE UNCHANGED <<link, queue, lost>>
        BY <1>0, <2>1, <2>2, <2>3
    <2>4. CASE queue' # <<>>
        BY <2>4 DEF OrderInv
    <2> QED BY <1>1, <2>3, <2>4, BootFacts
<1>2. ASSUME NEW t \in Tasks, Enter(t) \/ Show(t) PROVE OrderInv'
    BY <1>0, <1>2, QuietFacts
<1>3. ASSUME NEW t \in Tasks, Take(t) PROVE OrderInv'
    <2>0. /\ queue # <<>> /\ Len(queue) \in Nat \ {0} /\ pc'[t] = "apply" /\ newest' = t
          /\ Len(queue) = 1 => event'[t] = queue[Len(queue)]
          /\ Len(queue) # 1 => queue' # <<>>
          /\ event'[t] \in Events /\ UNCHANGED link
        BY <1>3, TakeFacts
    <2>1. CASE Len(queue) # 1
        BY <2>0, <2>1 DEF OrderInv
    <2>2. CASE Len(queue) = 1
        <3>1. event'[t] = "GOT_IP" <=> link = "up"
            BY <2>0, <2>2 DEF TokenInv, Queued, Changing, Events
        <3> QED BY <2>0, <3>1 DEF OrderInv
    <2> QED BY <2>1, <2>2
<1>4. ASSUME NEW t \in Tasks, Apply(t) PROVE OrderInv'
    <2>0. /\ pc[t] = "apply" /\ pc'[t] = "show" /\ event[t] \in Events
          /\ event[t] = "GOT_IP" => connected'
          /\ event[t] = "STA_DISCONNECTED" => ~connected'
          /\ event[t] = "STA_START" => connected' = connected
          /\ overtaken' <=> newest # t
          /\ \A u \in Tasks \ {t} : pc'[u] = pc[u]
          /\ UNCHANGED <<queue, event, link, newest>>
        BY <1>4, ApplyFacts
    <2>1. CASE newest # t
        BY <1>t, <2>0, <2>1 DEF OrderInv
    <2>2. CASE newest = t
        <3>1. event[t] = "STA_START" => ~connected
            BY DEF FirstInv, Fresh
        <3>2. queue = <<>> => (connected' <=> link = "up")
            BY <2>0, <2>2, <3>1 DEF OrderInv, Events
        <3> QED BY <2>0, <2>2, <3>2 DEF OrderInv
    <2> QED BY <2>1, <2>2
<1>6. ASSUME NEW t \in Tasks, React(t) PROVE OrderInv'
    <2>0. /\ pc[t] = "react" /\ pc'[t] = "loop"
          /\ \A u \in Tasks \ {t} : pc'[u] = pc[u] /\ event'[u] = event[u]
          /\ UNCHANGED <<queue, connected, newest, overtaken>>
        BY <1>6, ReactFacts
    <2>1. link' = "up" <=> link = "up"
        BY <1>6, ReactFacts
    <2> QED BY <1>t, <2>0, <2>1 DEF OrderInv
<1>7. ASSUME NEW t \in Tasks, TimerCheck(t) PROVE OrderInv'
    BY <1>0, <1>7, CheckFacts
<1>8. ASSUME NEW t \in Tasks, TimerRetry(t) PROVE OrderInv'
    BY <1>0, <1>8, RetryFacts
<1>9. CASE DriverStep
    BY <1>9, DriverFacts DEF OrderInv
<1>10. CASE Tick \/ UNCHANGED vars
    BY <1>0, <1>10, QuietFacts
<1> QED BY <1>1, <1>2, <1>3, <1>4, <1>6, <1>7, <1>8, <1>9, <1>10
        DEF Next, InitStep, ServiceStep

\* Every step keeps the LED in step with s_connected.
LEMMA LedStep ==
    ASSUME QueueSuffices, TypeOK, TaskInv, TokenInv, LengthInv, LedInv, [Next]_vars
    PROVE  LedInv'
<1>t. newest \in Tasks
    BY DEF TypeOK
<1>0. ASSUME UNCHANGED <<status, connected, led, newest, overtaken, ledOvertaken, httpReady>>,
             \A t \in Tasks : /\ pc'[t] = "apply" <=> pc[t] = "apply"
                              /\ pc'[t] = "show" <=> pc[t] = "show"
      PROVE  LedInv'
    BY <1>0, <1>t DEF LedInv
<1>1. ASSUME NEW wifi \in BOOLEAN, NEW ok \in BOOLEAN, NetworkInit(wifi, ok) PROVE LedInv'
    <2>1. /\ pc'["main"] = "loop" /\ pc'["http"] = "away" /\ (httpReady' <=> ok)
          /\ ok => led' = LedStatus(connected, TRUE)
          /\ UNCHANGED <<connected, newest>>
        BY <1>1, InitFacts
    <2>2. pc'[newest'] \notin {"apply", "show"} /\ (ok => led' = LedStatus(connected', TRUE))
        BY <1>t, <2>1, TaskNames
    <2> QED BY <2>1, <2>2 DEF LedInv, LedStatus
<1>2. ASSUME NEW t \in Tasks, Enter(t) PROVE LedInv'
    BY <1>0, <1>2, QuietFacts
<1>3. ASSUME NEW t \in Tasks, Take(t) PROVE LedInv'
    <2>1. pc'[newest'] = "apply"
        BY <1>3, TakeFacts
    <2> QED BY <2>1 DEF LedInv
<1>4. ASSUME NEW t \in Tasks, Apply(t) PROVE LedInv'
    <2>0. /\ pc'[t] = "show" /\ (overtaken' <=> newest # t)
          /\ status'[t] = LedStatus(connected', httpReady) /\ UNCHANGED <<newest, httpReady>>
        BY <1>4, ApplyFacts
    <2>1. httpReady => LedStatus(connected', httpReady) = LedStatus(connected', TRUE)
        BY DEF LedStatus
    <2>2. ~overtaken' => newest' = t
        BY <2>0
    <2>3. httpReady' => status'[t] = LedStatus(connected', TRUE)
        BY <2>0, <2>1
    <2> QED BY <2>0, <2>2, <2>3 DEF LedInv, LedStatus
<1>5. ASSUME NEW t \in Tasks, Show(t) PROVE LedInv'
    <2>0. /\ pc[t] = "show" /\ pc'[t] = "react" /\ led' = status[t]
          /\ ledOvertaken' <=> newest # t
          /\ \A u \in Tasks \ {t} : pc'[u] = pc[u] /\ status'[u] = status[u]
          /\ UNCHANGED <<connected, httpReady, newest, overtaken>>
        BY <1>5, QuietFacts
    <2>1. CASE newest = t
        <3>1. httpReady /\ ~overtaken => led' = LedStatus(connected, TRUE)
            BY <2>0, <2>1 DEF LedInv
        <3> QED BY <2>0, <2>1, <3>1 DEF LedInv, LedStatus
    <2>2. CASE newest # t
        BY <1>t, <2>0, <2>2 DEF LedInv, LedStatus
    <2> QED BY <2>1, <2>2
<1>6. ASSUME NEW t \in Tasks, React(t) PROVE LedInv'
    BY <1>0, <1>6, ReactFacts
<1>7. ASSUME NEW t \in Tasks, TimerCheck(t) PROVE LedInv'
    BY <1>0, <1>7, CheckFacts
<1>8. ASSUME NEW t \in Tasks, TimerRetry(t) PROVE LedInv'
    BY <1>0, <1>8, RetryFacts
<1>9. CASE DriverStep
    BY <1>0, <1>9, DriverFacts
<1>10. CASE Tick \/ UNCHANGED vars
    BY <1>0, <1>10, QuietFacts
<1> QED BY <1>1, <1>2, <1>3, <1>4, <1>5, <1>6, <1>7, <1>8, <1>9, <1>10
        DEF Next, InitStep, ServiceStep

----------------------------------------------------------------------------
(* The pace of the attempts.                                               *)

\* Every step keeps the pace.
LEMMA PaceStep ==
    ASSUME QueueSuffices, TypeOK, TaskInv, TokenInv, LengthInv, FirstInv, PaceInv, [Next]_vars
    PROVE  PaceInv'
<1>t. /\ queue \in Seq(Events) /\ Len(queue) \in Nat /\ attempts \in Nat /\ retryCount \in Nat
      /\ queue = <<>> => Len(queue) = 0
      /\ quiet \in 0 .. Pause /\ Pause \in Nat /\ now \in Ticks
    BY EmptyFacts, PauseAssumption DEF TypeOK
<1>n. \A t \in Tasks : pc[t] \notin {"apply", "show", "react"} => event[t] = NoEvent
    BY DEF TaskInv
<1>q. quiet > 0 => reconnectPending /\ reconnectAt = After(now, quiet)
    BY DEF PaceInv
<1>0. ASSUME UNCHANGED <<link, queue, attempts, retryCount, reconnectPending, reconnectAt,
                         quiet, now, event>>,
             \A t \in Tasks : /\ pc'[t] = "retry" => pc[t] = "retry"
                              /\ pc'[t] = "apply" => pc[t] = "apply"
      PROVE  PaceInv'
    BY <1>0 DEF PaceInv, Queued
<1>1. ASSUME NEW wifi \in BOOLEAN, NEW ok \in BOOLEAN, NetworkInit(wifi, ok) PROVE PaceInv'
    <2>1. /\ pc'["main"] = "loop" /\ pc'["http"] = "away"
          /\ UNCHANGED <<event, attempts, retryCount, reconnectPending, reconnectAt, quiet, now>>
        BY <1>1, InitFacts
    <2>2. \A t \in Tasks : pc'[t] \notin {"retry", "apply"}
        BY <2>1, TaskNames
    <2>3. CASE UNCHANGED <<link, queue, lost>>
        BY <1>0, <2>1, <2>2, <2>3
    <2>4. CASE link' = "idle" /\ Len(queue') = 1
        BY <2>1, <2>2, <2>4 DEF PaceInv
    <2> QED BY <1>1, <2>3, <2>4, BootFacts
<1>2. ASSUME NEW t \in Tasks, Enter(t) \/ Show(t) PROVE PaceInv'
    BY <1>0, <1>2, QuietFacts
<1>3. ASSUME NEW t \in Tasks, Take(t) PROVE PaceInv'
    <2>0. /\ pc'[t] = "apply" /\ \A u \in Tasks \ {t} : pc'[u] = pc[u] /\ event'[u] = event[u]
          /\ queue # <<>> /\ Len(queue) \in Nat \ {0} /\ Len(queue') = Len(queue) - 1
          /\ Len(queue) = 1 => event'[t] = queue[Len(queue)]
          /\ Len(queue) # 1 => queue' # <<>> /\ queue'[Len(queue')] = queue[Len(queue)]
          /\ UNCHANGED <<link, attempts, retryCount, reconnectPending, reconnectAt, quiet, now>>
        BY <1>3, TakeFacts
    <2>1. event'[t] = "GOT_IP" => attempts = 0
        <3>1. CASE Queued
            <4>1. event'[t] = "GOT_IP" => Len(queue) # 1
                BY <2>0, <3>1 DEF Queued, Changing
            <4> QED BY <2>0, <3>1, <4>1 DEF PaceInv
        <3>2. CASE ~Queued
            BY <2>0, <3>2 DEF PaceInv, TokenInv
        <3> QED BY <3>1, <3>2
    <2>2. Queued' /\ Len(queue') > 1 => Queued /\ Len(queue) > 1
        BY <2>0 DEF Queued
    <2> QED BY <2>0, <2>1, <2>2 DEF PaceInv
<1>4. ASSUME NEW t \in Tasks, Apply(t) PROVE PaceInv'
    <2>0. /\ pc[t] = "apply" /\ pc'[t] = "show" /\ \A u \in Tasks \ {t} : pc'[u] = pc[u]
          /\ event[t] = "GOT_IP" => retryCount' = 0
          /\ event[t] # "GOT_IP" => retryCount' = retryCount
          /\ UNCHANGED <<queue, event, link, attempts, reconnectPending, reconnectAt, quiet, now>>
        BY <1>4, ApplyFacts
    <2>1. attempts' <= retryCount' + 1
        BY <1>t, <2>0 DEF PaceInv
    <2> QED BY <2>0, <2>1 DEF PaceInv, Queued
<1>6. ASSUME NEW t \in Tasks, React(t) PROVE PaceInv'
    <2>0. /\ pc[t] = "react" /\ pc'[t] = "loop" /\ event'[t] = NoEvent
          /\ \A u \in Tasks \ {t} : pc'[u] = pc[u] /\ event'[u] = event[u]
          /\ UNCHANGED <<queue, now>>
          /\ event[t] \in Changing =>
                /\ link = "idle" /\ queue = <<>> /\ ~reconnectPending
                /\ \A u \in Tasks \ {t} : ~Holds(u)
        BY <1>6, ReactFacts
    <2>1. CASE /\ event[t] \in Changing /\ link' = "connecting" /\ attempts' = attempts + 1
               /\ \/ event[t] = "STA_START" /\ retryCount' = retryCount
                  \/ retryCount' = retryCount + 1
               /\ UNCHANGED <<reconnectPending, reconnectAt, quiet>>
        <3>1. ~reconnectPending' /\ ~Queued' /\ ~(quiet' > 0)
            BY <1>q, <2>0, <2>1 DEF Queued
        <3>2. event[t] = "STA_START" => attempts = 0
            BY DEF FirstInv, Fresh
        <3>3. attempts' <= retryCount' + 1
            BY <1>t, <2>1, <3>2 DEF PaceInv
        <3>4. \A u \in Tasks : pc'[u] # "retry"
            BY <2>0, <2>1 DEF Holds
        <3>5. ASSUME NEW u \in Tasks, pc'[u] = "apply", event'[u] = "GOT_IP" PROVE attempts' = 1
            <4>1. u # t /\ pc[u] = "apply" /\ event[u] = "GOT_IP" /\ link = "idle"
                BY <2>0, <2>1, <3>5
            <4>2. attempts = 0
                BY <4>1 DEF PaceInv
            <4> QED BY <2>1, <4>2
        <3> QED BY <2>1, <3>1, <3>3, <3>4, <3>5 DEF PaceInv
    <2>2. CASE /\ event[t] \in Changing /\ link' = link /\ attempts' = 0 /\ retryCount' = 0
               /\ reconnectPending' /\ reconnectAt' = After(now, Pause) /\ quiet' = Pause
        BY <2>0, <2>2 DEF PaceInv
    <2>3. CASE /\ UNCHANGED <<link, attempts, reconnectPending, reconnectAt, quiet>>
               /\ retryCount' = retryCount \/ retryCount' = retryCount + 1
        <3>1. attempts' <= retryCount' + 1
            BY <1>t, <2>3 DEF PaceInv
        <3> QED BY <2>0, <2>3, <3>1 DEF PaceInv, Queued
    <2> QED BY <1>6, <2>1, <2>2, <2>3, ReactFacts DEF Changing
<1>7. ASSUME NEW t \in Tasks, TimerCheck(t) PROVE PaceInv'
    <2>0. /\ pc[t] = "loop" /\ \A u \in Tasks \ {t} : pc'[u] = pc[u]
          /\ UNCHANGED <<queue, event, link, attempts, retryCount, quiet, now>>
        BY <1>7, CheckFacts
    <2>1. CASE UNCHANGED <<reconnectPending, reconnectAt>> /\ pc'[t] = "away"
        BY <1>0, <2>0, <2>1
    <2>2. CASE /\ reconnectPending /\ Reached(now, reconnectAt)
               /\ ~reconnectPending' /\ pc'[t] = "retry"
        <3>1. attempts = 0
            BY <2>2 DEF PaceInv
        <3>2. ~(quiet > 0)
            BY <1>q, <1>t, <2>2, WrapFacts
        <3> QED BY <2>0, <2>2, <3>1, <3>2 DEF PaceInv, Queued
    <2> QED BY <1>7, <2>1, <2>2, CheckFacts
<1>8. ASSUME NEW t \in Tasks, TimerRetry(t) PROVE PaceInv'
    <2>0. /\ pc[t] = "retry" /\ pc'[t] = "away" /\ queue = <<>> /\ ~reconnectPending
          /\ link = "idle" /\ \A u \in Tasks \ {t} : pc'[u] = pc[u] /\ ~Holds(u)
          /\ \/ link' = "connecting" /\ attempts' = attempts + 1
             \/ UNCHANGED <<link, attempts>>
          /\ UNCHANGED <<queue, event, retryCount, reconnectPending, reconnectAt, now, quiet>>
        BY <1>8, RetryFacts
    <2>1. attempts = 0
        BY <2>0 DEF PaceInv
    <2>2. ~Queued'
        BY <2>0 DEF Queued
    <2>3. \A u \in Tasks : pc'[u] # "retry"
        BY <2>0 DEF Holds
    <2>4. attempts' <= retryCount' + 1 /\ link' # "up"
        BY <1>t, <2>0, <2>1
    <2> QED BY <1>q, <2>0, <2>1, <2>2, <2>3, <2>4 DEF PaceInv
<1>9. CASE DriverStep
    <2>0. /\ link # "idle" /\ ~reconnectPending /\ \A t \in Tasks : ~Holds(t)
          /\ Len(queue') = Len(queue) + 1
          /\ \/ /\ link' = "up" /\ link = "connecting" /\ attempts' = 0
             \/ /\ link' \in {"up", "idle"} /\ link = "up" /\ attempts' = attempts
             \/ /\ link' = "idle" /\ link = "connecting" /\ Len(queue) = 0
                /\ attempts' = attempts /\ \A t \in Tasks : pc[t] # "apply"
          /\ UNCHANGED <<pc, event, retryCount, reconnectPending, reconnectAt, now, quiet>>
        BY <1>9, DriverFacts
    <2>1. ~(quiet' > 0) /\ ~reconnectPending' /\ \A t \in Tasks : pc'[t] # "retry"
        BY <1>q, <2>0 DEF Holds
    <2>2. CASE attempts' = 0
        BY <1>t, <2>0, <2>1, <2>2 DEF PaceInv
    <2>3. CASE /\ link' = "idle" /\ Len(queue) = 0 /\ attempts' = attempts
               /\ \A t \in Tasks : pc[t] # "apply"
        BY <2>0, <2>1, <2>3 DEF PaceInv
    <2>4. link = "up" => attempts = 0
        BY DEF PaceInv
    <2> QED BY <2>0, <2>2, <2>3, <2>4
<1>10. CASE Tick
    <2>0. /\ now' = After(now, 1) /\ quiet' = (IF quiet > 0 THEN quiet - 1 ELSE 0)
          /\ UNCHANGED <<link, queue, pc, event, retryCount, reconnectPending, reconnectAt,
                         attempts>>
        BY <1>10, QuietFacts
    <2>1. ASSUME quiet' > 0 PROVE reconnectPending /\ reconnectAt = After(now', quiet')
        <3>1. quiet \in 1 .. Pause /\ quiet' = quiet - 1 /\ quiet - 1 \in 0 .. Pause
            BY <1>t, <2>0, <2>1
        <3>2. now' \in Ticks
            BY <1>t, <2>0, WrapFacts
        <3>3. now' = IF now + 1 < TickMod THEN now + 1 ELSE 0
            BY <1>t, <2>0, WrapFacts
        <3>4. After(now', quiet - 1) =
                IF now' + (quiet - 1) < TickMod THEN now' + (quiet - 1)
                ELSE now' + (quiet - 1) - TickMod
            BY <3>1, <3>2, WrapFacts
        <3>5. After(now, quiet) = IF now + quiet < TickMod THEN now + quiet
                                  ELSE now + quiet - TickMod
            BY <1>t, <3>1, WrapFacts
        <3>6. After(now', quiet - 1) = After(now, quiet)
            <4>1. /\ TickMod \in Nat /\ Pause \in Nat /\ Pause < TickMod
                  /\ now \in 0 .. TickMod - 1
                BY <1>t, WrapFacts DEF Ticks
            <4>2. CASE now + 1 < TickMod
                <5>1. now' = now + 1 /\ now' + (quiet - 1) = now + quiet
                    BY <3>1, <3>3, <4>1, <4>2
                <5> QED BY <3>1, <3>4, <3>5, <4>1, <5>1
            <4>3. CASE ~(now + 1 < TickMod)
                <5>1. /\ now' = 0 /\ now = TickMod - 1 /\ now' + (quiet - 1) = quiet - 1
                      /\ quiet - 1 < TickMod /\ ~(now + quiet < TickMod)
                      /\ now + quiet - TickMod = quiet - 1
                    BY <3>1, <3>3, <4>1, <4>3
                <5> QED BY <3>4, <3>5, <5>1
            <4> QED BY <4>2, <4>3
        <3> QED BY <1>q, <1>t, <3>1, <3>6
    <2> QED BY <2>0, <2>1 DEF PaceInv, Queued
<1>11. CASE UNCHANGED vars
    BY <1>0, <1>11, QuietFacts
<1> QED BY <1>1, <1>2, <1>3, <1>4, <1>6, <1>7, <1>8, <1>9, <1>10, <1>11
        DEF Next, InitStep, ServiceStep

\* Only the holder of the token lets the station connect: there is no pause, and the
\* burst has an attempt left.
LEMMA AttemptStep ==
    ASSUME QueueSuffices, TypeOK, LinkInv, Next, link = "idle", link' = "connecting"
    PROVE  quiet = 0 /\ attempts <= RetryLimit
<1>i. TaskInv /\ TokenInv /\ LengthInv /\ FirstInv /\ PaceInv
    BY DEF LinkInv
<1>t. /\ attempts \in Nat /\ retryCount \in Nat /\ RetryLimit \in Nat
      /\ quiet \in 0 .. Pause /\ Pause \in Nat
    BY QueueAssumption, PauseAssumption DEF TypeOK
<1>q. ~reconnectPending => quiet = 0
    BY <1>i, <1>t DEF PaceInv
<1>1. ASSUME NEW wifi \in BOOLEAN, NEW ok \in BOOLEAN, NetworkInit(wifi, ok) PROVE FALSE
    BY <1>1, <1>i, BootFacts
<1>2. ASSUME NEW t \in Tasks, Enter(t) \/ Show(t) \/ Take(t) \/ Apply(t) \/ TimerCheck(t)
      PROVE  FALSE
    <2>1. UNCHANGED link
        BY <1>2, <1>i, QuietFacts, TakeFacts, ApplyFacts, CheckFacts
    <2> QED BY <2>1
<1>3. ASSUME NEW t \in Tasks, React(t) PROVE quiet = 0 /\ attempts <= RetryLimit
    <2>1. /\ event[t] \in Changing /\ ~reconnectPending
          /\ event[t] = "STA_START" \/ retryCount < RetryLimit
        BY <1>3, <1>i, ReactFacts DEF Changing
    <2>2. event[t] = "STA_START" => attempts = 0
        BY <1>i DEF FirstInv, Fresh
    <2>3. attempts <= retryCount + 1
        BY <1>i DEF PaceInv
    <2> QED BY <1>t, <1>q, <2>1, <2>2, <2>3
<1>4. ASSUME NEW t \in Tasks, TimerRetry(t) PROVE quiet = 0 /\ attempts <= RetryLimit
    <2>1. pc[t] = "retry" /\ ~reconnectPending
        BY <1>4, <1>i, RetryFacts
    <2>2. attempts = 0
        BY <1>i, <2>1 DEF PaceInv
    <2> QED BY <1>t, <1>q, <2>1, <2>2
<1>5. CASE DriverStep
    BY <1>5, <1>i, DriverFacts
<1>6. CASE Tick
    <2>1. UNCHANGED link
        BY <1>6, QuietFacts
    <2> QED BY <2>1
<1> QED BY <1>1, <1>2, <1>3, <1>4, <1>5, <1>6 DEF Next, InitStep, ServiceStep

----------------------------------------------------------------------------
(* The theorems.  The queue of the code has eight places, so the address   *)
(* may change six times before it is drained.                              *)

\* The invariants hold for the station and the two tasks that serve its events.
THEOREM LinkInvariant ==
    ASSUME QueueSuffices
    PROVE  Spec => [](TypeOK /\ LinkInv)
<1>1. Init => TypeOK /\ LinkInv
    BY LinkInit
<1>2. TypeOK /\ LinkInv /\ [Next]_vars => (TypeOK /\ LinkInv)'
    <2> SUFFICES ASSUME TypeOK, LinkInv, [Next]_vars PROVE TypeOK' /\ LinkInv'
        OBVIOUS
    <2>1. /\ TaskInv /\ TokenInv /\ LengthInv /\ FirstInv /\ OrderInv /\ LedInv /\ PaceInv
        BY DEF LinkInv
    <2>2. TypeOK' /\ TaskInv'
        BY <2>1, TypeStep, TaskStep
    <2>3. TokenInv' /\ LengthInv' /\ FirstInv'
        BY <2>1, TokenStep, LengthStep, FirstStep
    <2>4. OrderInv' /\ LedInv' /\ PaceInv'
        BY <2>1, OrderStep, LedStep, PaceStep
    <2> QED BY <2>2, <2>3, <2>4 DEF LinkInv
<1> QED BY <1>1, <1>2, PTL DEF Spec

\* wifi_event_handler never finds the queue full: while the station is idle the driver has
\* nothing to tell, so the disconnect is the last event until a task has handled it.
THEOREM NoEventIsLost ==
    ASSUME QueueSuffices
    PROVE  Spec => []NoEventLost
<1>1. TypeOK /\ LinkInv => NoEventLost
    BY DEF LinkInv, LengthInv, NoEventLost
<1> QED BY <1>1, LinkInvariant, PTL

\* Once both tasks have left network_service s_connected is the state of the link, unless
\* the last event applied was not the last one taken.
THEOREM ConnectedIsTheLink ==
    ASSUME QueueSuffices
    PROVE  Spec => []ConnectedTellsLink
<1>1. TypeOK /\ LinkInv => ConnectedTellsLink
    <2> SUFFICES ASSUME TypeOK, LinkInv, Settled, ~overtaken PROVE connected = (link = "up")
        BY DEF ConnectedTellsLink
    <2>1. queue = <<>> /\ pc[newest] = "away" /\ connected \in BOOLEAN
        BY DEF Settled, TypeOK
    <2>2. connected <=> link = "up"
        BY <2>1 DEF LinkInv, OrderInv
    <2> QED BY <2>1, <2>2
<1> QED BY <1>1, LinkInvariant, PTL

\* Once the HTTP server is up the network LED shows that state, unless the two tasks
\* called controller_set_network_status in the wrong order.
THEOREM LedIsTheLink ==
    ASSUME QueueSuffices
    PROVE  Spec => []LedTellsLink
<1>1. TypeOK /\ LinkInv => LedTellsLink
    <2> SUFFICES ASSUME TypeOK, LinkInv, Settled, ~overtaken, ~ledOvertaken,
                        networkRetry.ready
                 PROVE  led = LedStatus(link = "up", TRUE)
        BY DEF LedTellsLink
    <2>1. queue = <<>> /\ pc[newest] = "away"
        BY DEF Settled, TypeOK
    <2>2. connected <=> link = "up"
        BY <2>1 DEF LinkInv, OrderInv
    <2>3. led = LedStatus(connected, TRUE)
        BY <2>1 DEF LinkInv, LedInv, TaskInv
    <2> QED BY <2>2, <2>3 DEF LedStatus
<1> QED BY <1>1, LinkInvariant, PTL

\* The attempts of both tasks together keep to WIFI_RETRY_LIMIT and to the whole pause,
\* also when the tick counter wraps.
THEOREM AttemptsArePaced ==
    ASSUME QueueSuffices
    PROVE  Spec => AttemptsPaced
<1>1. TypeOK /\ LinkInv /\ [Next]_vars =>
        [link = "idle" /\ link' = "connecting" => quiet = 0 /\ attempts <= RetryLimit]_vars
    BY AttemptStep
<1> QED BY <1>1, LinkInvariant, PTL DEF Spec, AttemptsPaced
===============================================================================
