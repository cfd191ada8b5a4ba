----------------------------- MODULE AccessPoint -----------------------------
(***************************************************************************)
(* The setup access point and the maintenance window of main/network.c,    *)
(* with the captive DNS server behind them.                                *)
(*   - the main task runs network_init and its retries,                    *)
(*     network_start_provisioning when the 4,5,4,5 sequence is complete,   *)
(*     and network_service;                                                *)
(*   - the HTTP task runs network_service at the start of an OTA request,  *)
(*     holds the window for an upload, and stores the provisioning data.   *)
(* No lock covers this state.  A task is interrupted where it blocks: in   *)
(* the driver, in the DNS server's waits, on the network.                  *)
(***************************************************************************)
EXTENDS CaptiveDns

CONSTANTS
    Window,             \* OTA_MAINTENANCE_WINDOW_MS, in ticks
    MaxFailures         \* bound: calls of the Wi-Fi driver and the HTTP server that fail

ASSUME WindowAssumption == Window \in Nat \ {0} /\ MaxFailures \in Nat

Tasks == {"main", "http"}

VARIABLES
    enrolled,       \* credentials and API token are stored (NVS)
    mode,           \* the driver's mode: OFF, STA or APSTA (external)
    provisioning,   \* s_provisioning
    forced,         \* s_provisioning_forced
    active,         \* s_maintenance_active
    keepAp,         \* s_maintenance_keep_ap
    windowAge,      \* ticks since s_maintenance_started, up to Window
    requestActive,  \* s_ota_request_active
    dnsHandle,      \* s_dns_server is not NULL
    httpReady,      \* s_http_ready
    pc,             \* where each task is
    restarting,     \* restart_task runs
    failures,
    clash,          \* one task opened the access point while the other closed it (history)
    reinit,         \* network_init ran again with the access point open (history)
    modeFailed,     \* the driver refused a mode or a configuration (history)
    stranded        \* an accepted upload had no memory to answer or restart (history)

windowVars == <<provisioning, forced, active, keepAp, windowAge>>
stateVars  == <<enrolled, mode, windowVars, requestActive, dnsHandle, httpReady, restarting>>
causes     == <<clash, reinit, modeFailed, stranded>>
vars == <<dnsVars, stateVars, pc, failures, causes>>

AtBoot == [t \in Tasks |-> IF t = "main" THEN "boot" ELSE "idle"]

Init ==
    /\ enrolled \in BOOLEAN /\ DnsInit
    /\ mode = "OFF" /\ provisioning = FALSE /\ forced = FALSE
    /\ active = FALSE /\ keepAp = FALSE /\ windowAge = 0
    /\ requestActive = FALSE /\ dnsHandle = FALSE /\ httpReady = FALSE
    /\ pc = AtBoot /\ restarting = FALSE
    /\ failures = 0
    /\ clash = FALSE /\ reinit = FALSE /\ modeFailed = FALSE /\ stranded = FALSE

\* restart_task: everything in RAM starts over.
Restart ==
    /\ restarting /\ DnsReset
    /\ mode' = "OFF" /\ provisioning' = FALSE /\ forced' = FALSE
    /\ active' = FALSE /\ keepAp' = FALSE /\ windowAge' = 0
    /\ requestActive' = FALSE /\ dnsHandle' = FALSE /\ httpReady' = FALSE
    /\ pc' = AtBoot /\ restarting' = FALSE
    /\ clash' = FALSE /\ reinit' = FALSE /\ modeFailed' = FALSE /\ stranded' = FALSE
    /\ UNCHANGED <<enrolled, failures>>

Goto(t, place) == pc' = [pc EXCEPT ![t] = place]

Fails == failures < MaxFailures /\ failures' = failures + 1

\* Between s_provisioning = false and the end of provisioning_disable.
Closing(t) == pc[t] \in {"stopping", "mode"}

\* Between s_provisioning = true and the end of network_init or provisioning_enable.
Opening == pc["main"] \notin {"boot", "idle", "stopping", "mode"}

----------------------------------------------------------------------------
(* network_init.                                                           *)

\* At boot and, until everything is up, when recovery_policy says so: the passes of the
\* main loop in between have closed a window that ran out.
MayInit ==
    /\ pc["main"] \in {"boot", "idle"} /\ ~httpReady
    /\ ~(active /\ windowAge >= Window)

\* Everything up to esp_wifi_start.
InitStartsWifi ==
    /\ MayInit
    /\ mode' = IF enrolled THEN "STA" ELSE "APSTA"
    /\ provisioning' = (provisioning \/ ~enrolled)
    /\ forced' = (forced /\ enrolled)
    /\ reinit' = (reinit \/ (provisioning /\ mode # "OFF"))
    /\ clash' = (clash \/ Closing("http"))
    /\ Goto("main", IF provisioning' /\ ~dnsHandle THEN "initDns" ELSE "initHttp")
    /\ UNCHANGED <<dnsVars, enrolled, active, keepAp, windowAge, requestActive, dnsHandle,
                   httpReady, restarting, failures, modeFailed, stranded>>

\* A failure on the way leaves nothing behind, but for the flag of a device that is not
\* enrolled: it is set when esp_wifi_start fails.
InitFails ==
    /\ MayInit /\ Fails
    /\ \/ UNCHANGED <<provisioning, forced>>
       \/ ~enrolled /\ mode = "OFF" /\ provisioning' = TRUE /\ forced' = FALSE
    /\ Goto("main", "idle")
    /\ UNCHANGED <<dnsVars, enrolled, mode, active, keepAp, windowAge, requestActive, dnsHandle,
                   httpReady, restarting, causes>>

\* start_http_server
InitStartsHttp ==
    /\ pc["main"] = "initHttp"
    /\ \/ httpReady' = TRUE /\ UNCHANGED failures
       \/ Fails /\ UNCHANGED httpReady
    /\ Goto("main", "idle")
    /\ UNCHANGED <<dnsVars, enrolled, mode, windowVars, requestActive, dnsHandle, restarting,
                   causes>>

----------------------------------------------------------------------------
(* network_start_provisioning, up to the DNS server.                       *)

KeepsAp == ~enrolled \/ (provisioning /\ ~forced)

\* esp_wifi_set_mode in provisioning_enable.
ModeToOpen == "APSTA"

\* The window opens, or opens again.
OpenWindow == active' = TRUE /\ windowAge' = 0

\* The fourth key of the sequence (keys are dropped during an update): the access
\* point is open already, or it is enabled now, which the driver may refuse at its
\* mode or, with the mode set, at its configuration.
StartProvisioning ==
    /\ pc["main"] = "idle" /\ ~requestActive /\ mode # "OFF"
    /\ clash' = (clash \/ Closing("http"))
    /\ keepAp' = IF active THEN keepAp ELSE KeepsAp
    /\ \/ /\ provisioning
          /\ forced' = TRUE /\ OpenWindow
          /\ UNCHANGED <<mode, provisioning, pc, failures, modeFailed>>
       \/ /\ ~provisioning
          /\ mode' = ModeToOpen /\ provisioning' = TRUE /\ forced' = TRUE
          /\ Goto("main", "openDns")
          /\ UNCHANGED <<active, windowAge, failures, modeFailed>>
       \/ /\ ~provisioning /\ Fails /\ modeFailed' = TRUE
          /\ mode' \in {mode, ModeToOpen}
          /\ UNCHANGED <<provisioning, forced, active, windowAge, pc>>
    /\ UNCHANGED <<dnsVars, enrolled, requestActive, dnsHandle, httpReady, restarting, reinit,
                   stranded>>

----------------------------------------------------------------------------
(* dns_server_start, called by network_init and by provisioning_enable.    *)

WaitsFor == [initDns |-> "initWait", openDns |-> "openWait"]
GivesUp  == [initWait |-> "initGiveUp", openWait |-> "openGiveUp"]

StartFrame == <<enrolled, mode, provisioning, forced, keepAp, requestActive, httpReady,
                restarting, failures, causes>>

\* The caller returns an error: network_init is tried again, the setup sequence is not.
\* Either leaves s_provisioning as it is.
StartReturnsNull ==
    /\ Goto("main", "idle")
    /\ dnsHandle' = FALSE
    /\ UNCHANGED <<active, windowAge>>

DnsStart ==
    /\ pc["main"] \in DOMAIN WaitsFor
    /\ \/ /\ StartClaims
          /\ Goto("main", WaitsFor[pc["main"]])
          /\ UNCHANGED <<dnsHandle, active, windowAge>>
       \/ ~StorageFree /\ StartReturnsNull /\ UNCHANGED dnsVars
    /\ UNCHANGED StartFrame

DnsStarted ==
    /\ pc["main"] \in DOMAIN GivesUp
    /\ StartSucceeds
    /\ dnsHandle' = TRUE
    /\ IF pc["main"] = "openWait" THEN OpenWindow ELSE UNCHANGED <<active, windowAge>>
    /\ Goto("main", IF pc["main"] = "openWait" THEN "idle" ELSE "initHttp")
    /\ UNCHANGED StartFrame

DnsNotStarted ==
    /\ \/ pc["main"] \in DOMAIN GivesUp /\ StartFails
       \/ pc["main"] \in {"initGiveUp", "openGiveUp"} /\ StartGivesUp
    /\ StartReturnsNull
    /\ UNCHANGED StartFrame

DnsStartTimesOut ==
    /\ pc["main"] \in DOMAIN GivesUp
    /\ StartTimesOut
    /\ Goto("main", GivesUp[pc["main"]])
    /\ UNCHANGED <<dnsHandle, active, windowAge, StartFrame>>

----------------------------------------------------------------------------
(* network_service: an address, the end of the window.                     *)

CloseFrame == <<enrolled, requestActive, httpReady, restarting, stranded>>

\* Mutant: the access point is closed to a device that has no token yet.
DisablesAlways == provisioning /\ ~forced'

MayDisable == provisioning /\ enrolled /\ ~forced'

\* provisioning_disable, up to the wait for the DNS task or the change of mode.
Disable(t) ==
    IF MayDisable
    THEN /\ provisioning' = FALSE
         /\ clash' = (clash \/ Opening)
         /\ IF dnsHandle THEN StopRequested /\ Goto(t, "stopping")
            ELSE UNCHANGED dnsVars /\ Goto(t, "mode")
    ELSE UNCHANGED <<provisioning, clash, dnsVars, pc>>

\* MANAGER_EVENT_GOT_IP
GotIp(t) ==
    /\ pc[t] = "idle" /\ mode # "OFF"
    /\ t = "http" => httpReady
    /\ UNCHANGED forced
    /\ Disable(t)
    /\ UNCHANGED <<mode, active, keepAp, windowAge, dnsHandle, failures, reinit, modeFailed,
                   CloseFrame>>

\* Mutant: an upload does not hold the window.
BusyNever == FALSE

\* network_ota_is_busy
OtaIsBusy == requestActive

WindowExpired == active /\ ~OtaIsBusy /\ windowAge >= Window

\* maintenance_close(false)
CloseWindow(t) ==
    /\ pc[t] = "idle" /\ WindowExpired
    /\ t = "http" => httpReady
    /\ active' = FALSE /\ forced' = FALSE /\ keepAp' = FALSE
    /\ IF keepAp THEN UNCHANGED <<provisioning, clash, dnsVars, pc>> ELSE Disable(t)
    /\ UNCHANGED <<mode, windowAge, dnsHandle, failures, reinit, modeFailed,
                   CloseFrame>>

\* dns_server_stop returns, and its caller forgets the handle either way.
DnsStopped(t) ==
    /\ pc[t] = "stopping"
    /\ StopSucceeds \/ StopTimesOut
    /\ dnsHandle' = FALSE
    /\ Goto(t, "mode")
    /\ UNCHANGED <<mode, windowVars, failures, clash, reinit, modeFailed, CloseFrame>>

\* Mutant: the mode is not set back.
ModeUnchanged == mode

ModeToClose == "STA"

\* esp_wifi_set_mode(WIFI_MODE_STA); an error is only logged.
ModeChanged(t) ==
    /\ pc[t] = "mode"
    /\ \/ mode' = ModeToClose /\ UNCHANGED <<failures, modeFailed>>
       \/ Fails /\ modeFailed' = TRUE /\ UNCHANGED mode
    /\ Goto(t, "idle")
    /\ UNCHANGED <<dnsVars, windowVars, dnsHandle, clash, reinit, CloseFrame>>

----------------------------------------------------------------------------
(* The HTTP handlers.                                                      *)

HandlerFrame == <<dnsVars, mode, dnsHandle, httpReady, clash, reinit, modeFailed>>
HandlerQuiet == <<HandlerFrame, failures, stranded>>

\* require_ota_access, once its network_service has found nothing to close.
AccessGranted ==
    /\ pc["http"] = "idle" /\ httpReady
    /\ active /\ ~WindowExpired /\ ~requestActive
    /\ Goto("http", "checked")
    /\ UNCHANGED <<enrolled, windowVars, requestActive, restarting, HandlerQuiet>>

\* s_ota_request_active = true, for a window that is still open or, when main closed it
\* since the check, for one that is not.
UploadReserved ==
    /\ pc["http"] = "checked"
    /\ requestActive' = TRUE
    /\ Goto("http", IF active THEN "upload" ELSE "late")
    /\ UNCHANGED <<enrolled, windowVars, restarting, HandlerQuiet>>

\* Mutant: a failed upload keeps the window reserved.
StillReserved == TRUE

ReservedAfterFailure == FALSE

UploadFails ==
    /\ pc["http"] \in {"upload", "late"}
    /\ requestActive' = ReservedAfterFailure
    /\ Goto("http", "idle")
    /\ UNCHANGED <<enrolled, windowVars, restarting, HandlerQuiet>>

\* xTaskCreate(restart_task); a task that is on its way stays so.
Restarts(created) ==
    /\ IF created THEN UNCHANGED failures ELSE Fails
    /\ restarting' = (restarting \/ created)

\* The image is installed: maintenance_close(true) keeps the access point.  Without
\* memory for restart_task the request ends and nothing restarts.
UploadAccepted(created) ==
    /\ pc["http"] \in {"upload", "late"}
    /\ active' = FALSE
    /\ forced' = (forced /\ ~active)
    /\ keepAp' = (keepAp /\ ~active)
    /\ Restarts(created) /\ requestActive' = created
    /\ stranded' = (stranded \/ ~created)
    /\ Goto("http", "idle")
    /\ UNCHANGED <<enrolled, provisioning, windowAge, HandlerFrame>>

\* Without memory for the answer the handler leaves the window reserved.
UploadUnanswered ==
    /\ pc["http"] \in {"upload", "late"} /\ Fails
    /\ stranded' = TRUE
    /\ Goto("http", "idle")
    /\ UNCHANGED <<enrolled, windowVars, requestActive, restarting, HandlerFrame>>

\* provision_post_handler stores credentials and token, for the first time or again, and
\* restarts unless there is no memory or the client has gone.  (With the token stored
\* and the credentials not, the device is not enrolled: it has no address to get.)
Provisioned(created) ==
    /\ pc["http"] = "idle" /\ httpReady /\ provisioning
    /\ enrolled' = TRUE /\ Restarts(created)
    /\ UNCHANGED <<windowVars, requestActive, pc, stranded, HandlerFrame>>

----------------------------------------------------------------------------
Tick ==
    /\ windowAge' = IF active /\ windowAge < Window THEN windowAge + 1 ELSE windowAge
    /\ UNCHANGED <<dnsVars, enrolled, mode, provisioning, forced, active, keepAp,
                   requestActive, dnsHandle, httpReady, pc, restarting, failures, causes>>

DnsStep == DnsTaskStep /\ UNCHANGED <<stateVars, pc, failures, causes>>

InitStep == InitStartsWifi \/ InitFails \/ InitStartsHttp

StartStep == DnsStart \/ DnsStarted \/ DnsNotStarted \/ DnsStartTimesOut

CloseStep(t) == DnsStopped(t) \/ ModeChanged(t)

UploadStep ==
    \/ UploadReserved \/ UploadFails \/ UploadUnanswered
    \/ \E created \in BOOLEAN : UploadAccepted(created)

Next ==
    \/ InitStep \/ StartStep \/ DnsStep \/ Tick \/ Restart
    \/ StartProvisioning
    \/ \E t \in Tasks : GotIp(t) \/ CloseWindow(t) \/ CloseStep(t)
    \/ AccessGranted \/ UploadStep \/ \E created \in BOOLEAN : Provisioned(created)

\* The main loop goes round, waits end, an upload ends (the receive timeout), time
\* passes and a restart comes.  Nobody presses keys or sends requests.
Fairness ==
    /\ WF_vars(InitStep) /\ WF_vars(StartStep) /\ WF_vars(DnsStep)
    /\ WF_vars(Tick) /\ WF_vars(Restart) /\ WF_vars(UploadStep)
    /\ WF_vars(CloseWindow("main"))
    /\ \A t \in Tasks : WF_vars(CloseStep(t))

Spec == Init /\ [][Next]_vars /\ Fairness

----------------------------------------------------------------------------
(* Properties.                                                             *)

\* Every variable keeps its type.
TypeOK ==
    /\ DnsTypeOK
    /\ enrolled \in BOOLEAN /\ mode \in {"OFF", "STA", "APSTA"}
    /\ provisioning \in BOOLEAN /\ forced \in BOOLEAN
    /\ active \in BOOLEAN /\ keepAp \in BOOLEAN /\ windowAge \in 0 .. Window
    /\ requestActive \in BOOLEAN /\ dnsHandle \in BOOLEAN /\ httpReady \in BOOLEAN
    /\ pc \in [Tasks -> {"boot", "idle", "initDns", "initWait", "initGiveUp", "initHttp",
                         "openDns", "openWait", "openGiveUp", "stopping", "mode",
                         "checked", "upload", "late"}]
    /\ restarting \in BOOLEAN
    /\ failures \in 0 .. MaxFailures
    /\ clash \in BOOLEAN /\ reinit \in BOOLEAN /\ modeFailed \in BOOLEAN /\ stranded \in BOOLEAN

\* No task is in the middle of an operation.
Settled == pc["main"] = "idle" /\ ~Closing("http")

\* "A slow AP upload that began in time must not have its interface disabled."
\* (network.c:867)  An upload that was reserved in an open window has an open window
\* and an access point until it ends, whichever task notices that the time is over.
UploadKeepsWindow ==
    pc["http"] = "upload" =>
        /\ active
        /\ (provisioning /\ mode = "APSTA") \/ clash \/ reinit \/ modeFailed

\* The access point is on exactly when s_provisioning says so, unless a driver call
\* failed, network_init was repeated with the access point open, or one task opened it
\* while the other was closing it.
ApMatchesFlag ==
    Settled /\ mode # "OFF" /\ ~clash /\ ~reinit /\ ~modeFailed =>
        (mode = "APSTA") = provisioning

\* The captive DNS server and its storage belong to the one handle, also after bind
\* failures; only a wait that ran out, or a second task in between, breaks this.
DnsNotLeaked ==
    Settled /\ ~clash /\ startTimeouts = 0 /\ stopTimeouts = 0 =>
        /\ inUse = dnsHandle
        /\ dnsHandle => dnsTask = "serving" /\ running
        /\ ~dnsHandle => dnsTask = "none"

\* dns_server_start never clears the storage under a live task that dns_server_stop
\* gave up on: "ownership retained" (dns_server.c:223).
StorageNotReused ==
    [][inUse' /\ bits' = {} /\ bits # {} => dnsTask = "none" \/ startTimeouts > 0]_vars

\* "On first boot, join the open access point" (README.md:70): a device that is not
\* enrolled keeps its access point through every window, expiry and connection.
PortalStays ==
    Settled /\ ~enrolled /\ mode # "OFF" => provisioning /\ mode = "APSTA"

\* "Let one window expire. Expect `maintenance_active:false`, no temporary AP"
\* (preassembly-test-plan.md:195): an enrolled device closes the window that has run out
\* and the access point with it, also when an upload held them, unless the sequence is
\* entered again, the driver refuses, or an accepted upload could not restart the device.
WindowCloses ==
    (active /\ windowAge = Window /\ enrolled /\ ~keepAp) ~>
        \/ ~active /\ mode = "STA"
        \/ windowAge # Window \/ restarting \/ modeFailed \/ stranded

\* "tapping keys 4, 5, 4, 5 ... opens a ten-minute physical maintenance window and
\* enables the setup AP" (README.md:91): on an enrolled device the access point is on
\* only as long as the window.
ApHasWindow ==
    Settled /\ enrolled /\ mode = "APSTA" /\ ~restarting /\ ~modeFailed => active
=============================================================================
