------------------------------- MODULE WifiLink -------------------------------
(***************************************************************************)
(* How main/network.c keeps the station connected to the router.           *)
(*   - the Wi-Fi driver (external) posts its events through                *)
(*     wifi_event_handler into s_manager_queue;                            *)
(*   - network_service drains the queue, reconnects, and runs the pause    *)
(*     between two bursts of attempts.  Two tasks call it: the main loop,  *)
(*     and the HTTP task for a request on one of the OTA resources;        *)
(*   - network_init, tried again by the main loop under recovery_policy,   *)
(*     starts the driver and the HTTP server.                              *)
(* The device is enrolled: credentials and token are stored, and no access *)
(* point is open (AccessPoint models that side of network.c).              *)
(*                                                                         *)
(* network_service takes no lock.  It is split where one task can overtake *)
(* the other; the HTTP task has the higher priority, so the main task does *)
(* not run in a stretch of the HTTP task that cannot block (Runs).         *)
(***************************************************************************)
EXTENDS RecoveryPolicy

CONSTANTS
    QueueLength,        \* NETWORK_EVENT_QUEUE_LENGTH
    RetryLimit,         \* WIFI_RETRY_LIMIT
    Pause,              \* the 30 s between two bursts, in ticks
    MaxLag,             \* ticks that the main loop may be away from network_service
    MaxInitFailures,    \* bound: calls of network_init that fail
    MaxDrops,           \* bound: times that an established link is lost
    MaxConnectErrors,   \* bound: calls of esp_wifi_connect that an idle station refuses
    MaxAddresses        \* bound: times that the router changes the address until the main
                        \* loop has drained the queue and a tick has passed

ASSUME QueueAssumption == QueueLength \in Nat \ {0} /\ RetryLimit \in Nat
ASSUME PauseAssumption ==
    /\ Pause \in Nat /\ MaxLag \in Nat /\ Pause + MaxLag < TickMod \div 2
    /\ \A i \in 1 .. Len(Delays) : Delays[i] + MaxLag < TickMod \div 2
ASSUME BoundsAssumption ==
    /\ MaxInitFailures \in Nat /\ MaxDrops \in Nat
    /\ MaxAddresses \in Nat /\ MaxConnectErrors \in Nat

Tasks  == {"main", "http"}
Events == {"STA_START", "STA_DISCONNECTED", "GOT_IP"}
NoEvent == "none"
NoStatus == "none"

VARIABLES
    link,               \* the driver: off, idle, connecting or up (external)
    queue,              \* s_manager_queue
    pc,                 \* where each task is in network_service
    event,              \* the event each task has taken
    status,             \* the LED status each task has computed and not yet set
    connected,          \* s_connected
    retryCount,         \* s_retry_count
    reconnectPending,   \* s_reconnect_pending
    reconnectAt,        \* s_reconnect_at
    httpReady,          \* s_http_ready
    networkRetry,       \* network_retry of app_main
    led,                \* the status given to controller_set_network_status
    now,                \* the tick count
    lag,                \* ticks since the main task was last in network_service
    lost,               \* an event found the queue full (history)
    attempts,           \* connection attempts since a pause or a connection (history)
    quiet,              \* ticks until the end of the pause (history)
    newest,             \* the task that took the latest event (history)
    overtaken,          \* the last event applied was not the latest one (history)
    ledOvertaken,       \* the status shown is not the latest one computed (history)
    initFailures, drops, connectErrors,
    addresses           \* changes of the address, see MaxAddresses

driverVars  == <<link, drops, addresses, connectErrors>>
taskVars    == <<pc, event, status>>
managerVars == <<connected, retryCount, reconnectPending, reconnectAt>>
initVars    == <<httpReady, networkRetry, initFailures>>
timeVars    == <<now, lag>>
orderVars   == <<newest, overtaken>>
historyVars == <<lost, attempts, quiet, orderVars, ledOvertaken>>
vars == <<driverVars, queue, taskVars, managerVars, initVars, led, timeVars, historyVars>>

Init ==
    /\ link = "off" /\ queue = <<>>
    /\ pc = [t \in Tasks |-> IF t = "main" THEN "boot" ELSE "away"]
    /\ event = [t \in Tasks |-> NoEvent] /\ status = [t \in Tasks |-> NoStatus]
    /\ connected = FALSE /\ retryCount = 0
    /\ reconnectPending = FALSE /\ reconnectAt = 0
    /\ httpReady = FALSE /\ networkRetry = NewPolicy
    /\ led = "CONNECTING"
    /\ now = 0 /\ lag = 0
    /\ lost = FALSE /\ attempts = 0 /\ quiet = 0 /\ newest = "main"
    /\ overtaken = FALSE /\ ledOvertaken = FALSE
    /\ initFailures = 0 /\ drops = 0 /\ addresses = 0 /\ connectErrors = 0

----------------------------------------------------------------------------
(* The driver.                                                             *)

\* Mutant: the queue has one place less.
PostShort(e) ==
    IF Len(queue) < QueueLength - 1
    THEN queue' = Append(queue, e) /\ UNCHANGED lost
    ELSE UNCHANGED queue /\ lost' = TRUE

\* wifi_event_handler: the event waits in the queue or, when that is full, is gone.
Post(e) ==
    IF Len(queue) < QueueLength
    THEN queue' = Append(queue, e) /\ UNCHANGED lost
    ELSE UNCHANGED queue /\ lost' = TRUE

\* esp_wifi_connect.  It returns an error if the station is not idle, and may do so if it
\* is.  Nobody looks at the error, and no event follows it.
Connect ==
    \/ /\ link = "idle"
       /\ link' = "connecting" /\ attempts' = attempts + 1
       /\ UNCHANGED connectErrors
    \/ /\ link = "idle" /\ connectErrors < MaxConnectErrors
       /\ connectErrors' = connectErrors + 1
       /\ UNCHANGED <<link, attempts>>
    \/ link # "idle" /\ UNCHANGED <<link, attempts, connectErrors>>

\* A tick, and the radio exchange behind the result of an attempt, take far longer
\* than the few instructions between xQueueReceive and the assignments: no task is
\* still between them.  A link can be lost at any time.
TimePasses == \A t \in Tasks : pc[t] # "apply"

driverFrame == <<connectErrors, taskVars, managerVars, initVars, led, timeVars, quiet, orderVars,
                 ledOvertaken>>

\* Associated, and the router gave an address.
LinkUp ==
    /\ link = "connecting" /\ TimePasses
    /\ link' = "up" /\ attempts' = 0
    /\ Post("GOT_IP")
    /\ UNCHANGED <<drops, addresses, driverFrame>>

\* The attempt failed: the router is away or refuses the station.
ConnectFails ==
    /\ link = "connecting" /\ TimePasses
    /\ link' = "idle"
    /\ Post("STA_DISCONNECTED")
    /\ UNCHANGED <<drops, addresses, attempts, driverFrame>>

LinkDrops ==
    /\ link = "up" /\ drops < MaxDrops
    /\ link' = "idle" /\ drops' = drops + 1
    /\ Post("STA_DISCONNECTED")
    /\ UNCHANGED <<addresses, attempts, driverFrame>>

\* The router hands out another address: the event comes again.
AddressChanges ==
    /\ link = "up" /\ addresses < MaxAddresses
    /\ addresses' = addresses + 1
    /\ Post("GOT_IP")
    /\ UNCHANGED <<link, drops, attempts, driverFrame>>

----------------------------------------------------------------------------
(* network_init on the main task.                                          *)

\* update_network_led, with no access point open.
LedStatus(isConnected, isHttpReady) ==
    IF isConnected /\ isHttpReady THEN "CONNECTED" ELSE "CONNECTING"

\* Mutant: the LED is not told that the HTTP server has come up.
InitShowsBefore(ok) ==
    led' = IF ~ok /\ pc["main"] = "boot" THEN "OFFLINE" ELSE LedStatus(connected, httpReady)

\* The status that network_init leaves: its first line shows the current state,
\* start_http_server shows the new one, app_main shows OFFLINE when the first call
\* fails.
InitShows(ok) ==
    led' = IF ~ok /\ pc["main"] = "boot" THEN "OFFLINE" ELSE LedStatus(connected, ok)

AfterInit(ok) == IF ok THEN MarkReady(networkRetry) ELSE MarkFailed(networkRetry, now)

\* At boot, and from then on when the retry is due.
InitDue == pc["main"] = "boot" \/ (pc["main"] = "away" /\ IsDue(networkRetry, now))

\* network_init stops before esp_wifi_start or in it (wifi = FALSE), in the HTTP
\* server (ok = FALSE), or not at all.  The driver starts at most once.
NetworkInit(wifi, ok) ==
    /\ InitDue
    /\ ok => wifi
    /\ link # "off" => wifi
    /\ ok \/ initFailures < MaxInitFailures
    /\ initFailures' = IF ok THEN initFailures ELSE initFailures + 1
    /\ IF wifi /\ link = "off"
       THEN link' = "idle" /\ Post("STA_START")
       ELSE UNCHANGED <<link, queue, lost>>
    /\ httpReady' = ok
    /\ networkRetry' = AfterInit(ok)
    /\ InitShows(ok)
    /\ pc' = [pc EXCEPT !["main"] = "loop"]
    /\ UNCHANGED <<drops, addresses, connectErrors, event, status, managerVars, timeVars,
                   attempts, quiet, orderVars, ledOvertaken>>

----------------------------------------------------------------------------
(* network_service.                                                        *)

\* The main task cannot run between the queue and the first call of the HTTP task
\* that may block, controller_set_network_status.
Runs(t) == t = "main" => pc["http"] # "apply"

Goto(t, place) == pc' = [pc EXCEPT ![t] = place]

\* A pass of the main loop, or a request of require_ota_access.
Enter(t) ==
    /\ Runs(t) /\ pc[t] = "away"
    /\ t = "main" => ~IsDue(networkRetry, now)
    /\ t = "http" => httpReady
    /\ Goto(t, "loop")
    /\ UNCHANGED <<driverVars, queue, event, status, managerVars, initVars, led, timeVars,
                   historyVars>>

\* xQueueReceive
Take(t) ==
    /\ Runs(t) /\ pc[t] = "loop" /\ queue # <<>>
    /\ event' = [event EXCEPT ![t] = Head(queue)]
    /\ queue' = Tail(queue)
    /\ newest' = t
    /\ Goto(t, "apply")
    /\ UNCHANGED <<driverVars, status, managerVars, initVars, led, timeVars, lost, attempts,
                   quiet, overtaken, ledOvertaken>>

\* Mutant: only a new address changes the state.
ConnectedUntilAddress(e) == e = "GOT_IP" \/ connected

ConnectedAfter(e) ==
    CASE e = "STA_DISCONNECTED" -> FALSE
      [] e = "GOT_IP" -> TRUE
      [] OTHER -> connected

\* The assignments of an event's branch, and the status they lead to.
Apply(t) ==
    /\ Runs(t) /\ pc[t] = "apply"
    /\ connected' = ConnectedAfter(event[t])
    /\ retryCount' = IF event[t] = "GOT_IP" THEN 0 ELSE retryCount
    /\ status' = [status EXCEPT ![t] = LedStatus(connected', httpReady)]
    /\ overtaken' = (newest # t)
    /\ Goto(t, "show")
    /\ UNCHANGED <<driverVars, queue, event, reconnectPending, reconnectAt, initVars, led,
                   timeVars, lost, attempts, quiet, newest, ledOvertaken>>

\* controller_set_network_status
Show(t) ==
    /\ Runs(t) /\ pc[t] = "show"
    /\ led' = status[t]
    /\ status' = [status EXCEPT ![t] = NoStatus]
    /\ ledOvertaken' = (newest # t)
    /\ Goto(t, "react")
    /\ UNCHANGED <<driverVars, queue, event, managerVars, initVars, timeVars, lost,
                   attempts, quiet, orderVars>>

MayRetry == retryCount < RetryLimit

\* Mutant: the pause does not start.
NoPause ==
    /\ retryCount' = 0 /\ attempts' = 0 /\ quiet' = Pause
    /\ UNCHANGED <<link, connectErrors, reconnectPending, reconnectAt>>

\* The burst is over: wait.
StartPause ==
    /\ retryCount' = 0 /\ reconnectPending' = TRUE
    /\ reconnectAt' = After(now, Pause)
    /\ attempts' = 0 /\ quiet' = Pause
    /\ UNCHANGED <<link, connectErrors>>

\* What is left of the event's branch: the driver is told to connect, or the pause
\* starts unless there is one already.
React(t) ==
    /\ Runs(t) /\ pc[t] = "react"
    /\ \/ /\ event[t] = "STA_START"
          /\ Connect /\ UNCHANGED <<managerVars, quiet>>
       \/ /\ event[t] = "STA_DISCONNECTED" /\ MayRetry
          /\ retryCount' = retryCount + 1
          /\ Connect /\ UNCHANGED <<connected, reconnectPending, reconnectAt, quiet>>
       \/ /\ event[t] = "STA_DISCONNECTED" /\ ~MayRetry /\ ~reconnectPending
          /\ StartPause /\ UNCHANGED connected
       \/ /\ \/ event[t] = "GOT_IP"
             \/ event[t] = "STA_DISCONNECTED" /\ ~MayRetry /\ reconnectPending
          /\ UNCHANGED <<link, connectErrors, attempts, quiet, managerVars>>
    /\ event' = [event EXCEPT ![t] = NoEvent]
    /\ Goto(t, "loop")
    /\ UNCHANGED <<drops, addresses, queue, status, initVars, led, timeVars, lost, orderVars,
                   ledOvertaken>>

\* The queue is empty: is the pause over?  (A deadline without a pause is not read
\* again; it is set to 0 to keep the number of states down.)
TimerCheck(t) ==
    /\ Runs(t) /\ pc[t] = "loop" /\ queue = <<>>
    /\ lag' = IF t = "main" THEN 0 ELSE lag
    /\ addresses' = IF t = "main" /\ lag > 0 THEN 0 ELSE addresses
    /\ IF reconnectPending /\ Reached(now, reconnectAt)
       THEN reconnectPending' = FALSE /\ reconnectAt' = 0 /\ Goto(t, "retry")
       ELSE UNCHANGED <<reconnectPending, reconnectAt>> /\ Goto(t, "away")
    /\ UNCHANGED <<link, drops, connectErrors, queue, event, status, connected, retryCount,
                   initVars, led, now, historyVars>>

TimerRetry(t) ==
    /\ Runs(t) /\ pc[t] = "retry"
    /\ IF connected THEN UNCHANGED <<link, attempts, connectErrors>> ELSE Connect
    /\ Goto(t, "away")
    /\ UNCHANGED <<drops, addresses, queue, event, status, managerVars, initVars, led,
                   timeVars, lost, quiet, orderVars, ledOvertaken>>

\* Time passes; the main loop is away from network_service for MaxLag ticks at most.
Tick ==
    /\ TimePasses
    /\ lag < MaxLag /\ lag' = lag + 1
    /\ now' = After(now, 1)
    /\ quiet' = IF quiet > 0 THEN quiet - 1 ELSE 0
    /\ UNCHANGED <<driverVars, queue, taskVars, managerVars, initVars, led, lost, attempts,
                   orderVars, ledOvertaken>>

----------------------------------------------------------------------------
ServiceStep(t) ==
    Take(t) \/ Apply(t) \/ Show(t) \/ React(t) \/ TimerCheck(t) \/ TimerRetry(t)

InitStep == \E wifi, ok \in BOOLEAN : NetworkInit(wifi, ok)

DriverStep == LinkUp \/ ConnectFails \/ LinkDrops \/ AddressChanges

Next ==
    \/ InitStep
    \/ \E t \in Tasks : Enter(t) \/ ServiceStep(t)
    \/ DriverStep
    \/ Tick

\* The main loop goes round, a request that is being served goes on, an attempt to
\* connect has a result, and time passes.  Nobody has to send a request, and the
\* router need not be there.
Fairness ==
    /\ WF_vars(InitStep) /\ WF_vars(Enter("main")) /\ WF_vars(Tick)
    /\ \A t \in Tasks : WF_vars(ServiceStep(t))
    /\ WF_vars(LinkUp \/ ConnectFails)

Spec == Init /\ [][Next]_vars /\ Fairness

----------------------------------------------------------------------------
(* Properties.                                                             *)

\* Every variable keeps its type.
TypeOK ==
    /\ link \in {"off", "idle", "connecting", "up"}
    /\ queue \in Seq(Events) /\ Len(queue) <= QueueLength
    /\ pc \in [Tasks -> {"boot", "away", "loop", "apply", "show", "react", "retry"}]
    /\ event \in [Tasks -> Events \cup {NoEvent}]
    /\ status \in [Tasks -> {"CONNECTING", "CONNECTED", NoStatus}]
    /\ connected \in BOOLEAN /\ retryCount \in 0 .. RetryLimit
    /\ reconnectPending \in BOOLEAN /\ reconnectAt \in Ticks
    /\ httpReady \in BOOLEAN /\ networkRetry \in PolicyT
    /\ led \in {"CONNECTING", "CONNECTED", "OFFLINE"}
    /\ now \in Ticks /\ lag \in 0 .. MaxLag
    /\ lost \in BOOLEAN /\ attempts \in Nat /\ quiet \in 0 .. Pause /\ newest \in Tasks
    /\ overtaken \in BOOLEAN /\ ledOvertaken \in BOOLEAN
    /\ initFailures \in 0 .. MaxInitFailures
    /\ drops \in 0 .. MaxDrops /\ addresses \in 0 .. MaxAddresses
    /\ connectErrors \in 0 .. MaxConnectErrors

\* All events are handled and no task is inside network_service.
Settled == queue = <<>> /\ \A t \in Tasks : pc[t] = "away"

\* The queue never overflows, however long the main task is away: the driver is
\* silent after a disconnect until somebody who drained the queue connects again.  (The
\* address may change QueueLength - 2 times meanwhile, six times in the code.)
NoEventLost == ~lost

\* Once the events are handled s_connected, on which OTA probation decides, is the
\* state of the link, unless the last two events were applied in the wrong order.
ConnectedTellsLink == Settled /\ ~overtaken => connected = (link = "up")

\* Then the network LED shows that state as well.
LedTellsLink ==
    Settled /\ ~overtaken /\ ~ledOvertaken /\ networkRetry.ready =>
        led = LedStatus(link = "up", TRUE)

\* An attempt belongs to a burst of at most RetryLimit after its first, whichever tasks
\* make them, and none is made from the start of a pause until its whole length has
\* passed, also when the tick counter wraps in between.
AttemptsPaced ==
    [][link = "idle" /\ link' = "connecting" => quiet = 0 /\ attempts <= RetryLimit]_vars

\* network_init is repeated until Wi-Fi and HTTP server are up, and a station that is not
\* connected tries again, for ever, unless two events were applied in the wrong order or
\* esp_wifi_connect returned an error: network.c:272, 281 and 304 discard it, no event and
\* no pause follows, and nobody is left to connect ("verify automatic reconnection",
\* docs/preassembly-test-plan.md:264).
KeepsTrying ==
    /\ <>[](httpReady /\ networkRetry.ready)
    /\ (link = "idle") ~> (link # "idle" \/ overtaken \/ connectErrors > 0)
=============================================================================
