-------------------------- MODULE AccessPointProofs --------------------------
(***************************************************************************)
(* Proofs about AccessPoint, for every length of the window and every      *)
(* number of failures and of waits that run out: the storage of the DNS    *)
(* server, the portal of a device without credentials, the agreement of    *)
(* s_provisioning and the driver's mode, and the window of an upload.      *)
(***************************************************************************)
EXTENDS AccessPoint, TLAPS

\* Where main is while it waits for the DNS server, ...
DnsWaits   == {"initWait", "openWait"}

\* ... where its wait has run out, ...
DnsGiveUps == {"initGiveUp", "openGiveUp"}

\* ... and in all of dns_server_start.
DnsStarts  == {"initDns", "openDns"} \cup DnsWaits \cup DnsGiveUps

\* Where main is in network_start_provisioning, ...
OpenPlaces == {"openDns", "openWait", "openGiveUp"}

\* ... and in network_init once Wi-Fi was started.
InitPlaces == {"initDns", "initWait", "initGiveUp", "initHttp"}

\* All places of main, ...
MainPlaces == {"boot", "idle", "stopping", "mode"} \cup InitPlaces \cup OpenPlaces

\* ... and of the HTTP task.
HttpPlaces == {"idle", "stopping", "mode", "checked", "upload", "late"}

\* Which task can be where.  network_init is over when the HTTP server has come up, and
\* nothing happens before Wi-Fi was started.
PlaceInv ==
    /\ pc["main"] \in MainPlaces /\ pc["http"] \in HttpPlaces
    /\ pc["main"] \in {"boot"} \cup InitPlaces => ~httpReady
    /\ pc["http"] # "idle" => httpReady
    /\ mode = "OFF" => pc["main"] \in {"boot", "idle"} /\ ~httpReady /\ ~active
    /\ pc["main"] = "boot" => mode = "OFF"

\* A task that closes the access point found the device enrolled; a device that is not
\* enrolled has its access point from the start of Wi-Fi on.
PortalInv ==
    /\ \A t \in Tasks : Closing(t) => enrolled
    /\ ~enrolled /\ mode # "OFF" => provisioning /\ mode = "APSTA"

\* Without a wait of dns_server_start that ran out the storage is free, or reported as
\* stopped, only when no task lives in it.
StorageInv ==
    startTimeouts = 0 =>
        /\ pc["main"] \notin DnsGiveUps
        /\ ~inUse => dnsTask = "none"
        /\ "STOPPED" \in bits => dnsTask = "none"
        /\ "FAILED" \in bits => "STOPPED" \in bits

\* Unless one task opened the access point while the other closed it, a task that starts
\* the DNS server has s_provisioning set, one that closes has it cleared, and they are
\* not two.
ClashInv ==
    ~clash =>
        /\ pc["main"] \in DnsStarts => provisioning
        /\ \A t \in Tasks : Closing(t) => ~provisioning
        /\ ~(Closing("main") /\ Closing("http"))

\* The state of the DNS server's task while main waits for it to start, ...
DnsMayStart ==
    \/ dnsTask = "starting" /\ bits = {} /\ running
    \/ dnsTask = "serving" /\ bits = {"STARTED"} /\ running
    \/ dnsTask = "none" /\ "STARTED" \notin bits

\* ... when it has been told to stop, ...
DnsMayStop == ~running /\ dnsTask \in {"serving", "none"}

\* ... and otherwise.
DnsServes == running /\ dnsTask = "serving"

\* With no wait run out and no two tasks at work, the handle and the storage go together
\* at every place of the start and the stop.
HandleInv ==
    ~clash /\ startTimeouts = 0 /\ stopTimeouts = 0 =>
        IF pc["main"] \in DnsWaits THEN inUse /\ ~dnsHandle /\ DnsMayStart
        ELSE /\ inUse = dnsHandle
             /\ ~dnsHandle => dnsTask = "none"
             /\ dnsHandle => pc["main"] \notin DnsStarts
             /\ IF pc["main"] = "stopping" \/ pc["http"] = "stopping"
                THEN dnsHandle /\ DnsMayStop
                ELSE dnsHandle => DnsServes /\ provisioning

\* None of the exceptions to the agreement of flag and mode has happened.
Regular == ~clash /\ ~reinit /\ ~modeFailed

\* The driver does what s_provisioning says, except while a task that closes the access
\* point has changed the flag and not yet the mode; a Wi-Fi that never started left the
\* flag set on a device that is not enrolled only.
ModeInv ==
    /\ Regular /\ mode # "OFF" =>
        (\E t \in Tasks : Closing(t)) \/ (mode = "APSTA") = provisioning
    /\ mode = "OFF" /\ provisioning => ~enrolled

\* The window: a reserved upload has one, and a window forces the access point.
WindowInv ==
    /\ pc["http"] \in {"upload", "late"} => requestActive
    /\ pc["http"] = "upload" => active
    /\ Regular => /\ active => provisioning /\ forced
                  /\ pc["main"] \in OpenPlaces => forced /\ ~active

\* The inductive invariant.
ApInv == /\ PlaceInv /\ PortalInv /\ StorageInv /\ ClashInv /\ HandleInv /\ ModeInv
         /\ WindowInv

\* The type invariant in two parts, the flags and the rest.
FlagsOK ==
    /\ inUse \in BOOLEAN /\ running \in BOOLEAN /\ enrolled \in BOOLEAN
    /\ provisioning \in BOOLEAN /\ forced \in BOOLEAN /\ active \in BOOLEAN
    /\ keepAp \in BOOLEAN /\ requestActive \in BOOLEAN /\ dnsHandle \in BOOLEAN
    /\ httpReady \in BOOLEAN /\ restarting \in BOOLEAN /\ clash \in BOOLEAN
    /\ reinit \in BOOLEAN /\ modeFailed \in BOOLEAN /\ stranded \in BOOLEAN

\* The places of either task.
Places == MainPlaces \cup HttpPlaces

\* What is not a flag.
CountsOK ==
    /\ bits \subseteq {"STARTED", "STOPPED", "FAILED"}
    /\ dnsTask \in {"none", "starting", "serving"}
    /\ bindFailures \in 0 .. MaxBindFailures
    /\ startTimeouts \in 0 .. MaxStartTimeouts /\ stopTimeouts \in 0 .. MaxStopTimeouts
    /\ mode \in {"OFF", "STA", "APSTA"} /\ windowAge \in 0 .. Window
    /\ pc \in [Tasks -> Places]
    /\ failures \in 0 .. MaxFailures

----------------------------------------------------------------------------
(* Types and places.                                                       *)

\* The initial state satisfies the invariant.
LEMMA ApInit == Init => TypeOK /\ ApInv
<1> SUFFICES ASSUME Init PROVE TypeOK /\ ApInv
    OBVIOUS
<1>1. /\ pc \in [Tasks -> {"boot", "idle"}] /\ pc["main"] = "boot" /\ pc["http"] = "idle"
    BY DEF Init, AtBoot, Tasks
<1>2. FlagsOK
    BY Zenon DEF Init, DnsInit, FlagsOK
<1>3. CountsOK
    BY <1>1, WindowAssumption, DnsBoundsAssumption
    DEF Init, DnsInit, CountsOK, Places, MainPlaces, HttpPlaces
<1>4. TypeOK
    BY <1>2, <1>3 DEF TypeOK, DnsTypeOK, FlagsOK, CountsOK, Places, MainPlaces, HttpPlaces,
        InitPlaces, OpenPlaces
<1>5. ApInv
    BY <1>1 DEF Init, DnsInit, ApInv, PlaceInv, PortalInv, StorageInv, ClashInv, HandleInv,
        ModeInv, WindowInv, Closing, Tasks, MainPlaces, HttpPlaces, InitPlaces, DnsStarts,
        DnsWaits, DnsGiveUps, OpenPlaces
<1> QED BY <1>4, <1>5

\* What provisioning_disable does to the flags until it waits.
LEMMA DisableFlags ==
    ASSUME NEW t \in Tasks, Disable(t), FlagsOK
    PROVE  /\ provisioning' \in BOOLEAN /\ clash' \in BOOLEAN
           /\ inUse' \in BOOLEAN /\ running' \in BOOLEAN
<1>1. /\ provisioning' = FALSE \/ provisioning' = provisioning
      /\ inUse' = inUse /\ (running' = FALSE \/ running' = running)
    BY DEF Disable, StopRequested, dnsVars, storageVars, FlagsOK
<1>2. clash' \in BOOLEAN
    BY DEF Disable, FlagsOK
<1> QED BY <1>1, <1>2, Zenon DEF FlagsOK

\* Every step keeps the flags.
LEMMA FlagStep == FlagsOK /\ [Next]_vars => FlagsOK'
<1> SUFFICES ASSUME FlagsOK, [Next]_vars PROVE FlagsOK'
    OBVIOUS
<1> USE DEF vars, stateVars, windowVars, causes, dnsVars, storageVars, dnsBounds, FlagsOK
<1>1. CASE InitStartsWifi
    BY <1>1 DEF InitStartsWifi, MayInit
<1>2. CASE InitFails
    <2>1. provisioning' \in BOOLEAN /\ forced' \in BOOLEAN
        BY <1>2, Zenon DEF InitFails
    <2> QED BY <1>2, <2>1 DEF InitFails
<1>3. CASE InitStartsHttp
    <2>1. httpReady' \in BOOLEAN
        BY <1>3, Zenon DEF InitStartsHttp
    <2> QED BY <1>3, <2>1 DEF InitStartsHttp
<1>4. CASE DnsStart
    <2>1. UNCHANGED <<enrolled, provisioning, forced, active, keepAp, requestActive,
                      httpReady, restarting, causes>>
        BY <1>4 DEF DnsStart, StartFrame, StartReturnsNull
    <2>2. \/ inUse' = TRUE /\ running' = TRUE /\ UNCHANGED dnsHandle
          \/ UNCHANGED <<inUse, running>> /\ dnsHandle' = FALSE
        BY <1>4 DEF DnsStart, StartClaims, StartReturnsNull
    <2>3. inUse' \in BOOLEAN /\ running' \in BOOLEAN /\ dnsHandle' \in BOOLEAN
        BY <2>2, Zenon
    <2> QED BY <2>1, <2>3
<1>5. CASE DnsStarted
    <2>1. UNCHANGED <<inUse, running, enrolled, provisioning, forced, keepAp, requestActive,
                      httpReady, restarting, causes>>
        BY <1>5 DEF DnsStarted, StartSucceeds, StartFrame
    <2>2. dnsHandle' = TRUE /\ (active' = TRUE \/ UNCHANGED active)
        BY <1>5, Zenon DEF DnsStarted, OpenWindow
    <2>3. dnsHandle' \in BOOLEAN /\ active' \in BOOLEAN
        BY <2>2, Zenon
    <2> QED BY <2>1, <2>3
<1>6. CASE DnsNotStarted
    BY <1>6 DEF DnsNotStarted, StartFails, ReleaseAfterFailure, StartGivesUp,
        StartReturnsNull, StartFrame, GivesUp
<1>7. CASE DnsStartTimesOut
    BY <1>7 DEF DnsStartTimesOut, StartTimesOut, StartFrame, GivesUp
<1>8. CASE DnsStep
    <2>1. UNCHANGED <<stateVars, causes, inUse>>
        BY <1>8 DEF DnsStep, DnsTaskStep, DnsBinds, DnsBindFails, DnsEnds
    <2>2. running' = FALSE \/ UNCHANGED running
        BY <1>8, Zenon DEF DnsStep, DnsTaskStep, DnsBinds, DnsBindFails, DnsEnds
    <2>3. running' \in BOOLEAN
        BY <2>2, Zenon
    <2> QED BY <2>1, <2>3
<1>9. CASE Tick
    BY <1>9 DEF Tick
<1>10. CASE Restart
    BY <1>10 DEF Restart, DnsReset, AtBoot
<1>11. CASE StartProvisioning
    BY <1>11 DEF StartProvisioning, Fails, OpenWindow, ModeToOpen, KeepsAp
<1>12. ASSUME NEW t \in Tasks, GotIp(t) PROVE FlagsOK'
    <2>1. UNCHANGED <<forced, active, keepAp, dnsHandle, reinit, modeFailed, CloseFrame>>
        BY <1>12 DEF GotIp
    <2>2. Disable(t)
        BY <1>12 DEF GotIp
    <2> QED BY <2>1, <2>2, DisableFlags DEF CloseFrame
<1>13. ASSUME NEW t \in Tasks, CloseWindow(t) PROVE FlagsOK'
    <2>1. /\ UNCHANGED <<dnsHandle, reinit, modeFailed, CloseFrame>>
          /\ active' = FALSE /\ forced' = FALSE /\ keepAp' = FALSE
        BY <1>13 DEF CloseWindow
    <2>2. Disable(t) \/ UNCHANGED <<provisioning, clash, dnsVars, pc>>
        BY <1>13 DEF CloseWindow
    <2>3. active' \in BOOLEAN /\ forced' \in BOOLEAN /\ keepAp' \in BOOLEAN
        BY <2>1, Zenon
    <2> QED BY <2>1, <2>2, <2>3, DisableFlags DEF CloseFrame
<1>14. ASSUME NEW t \in Tasks, DnsStopped(t) PROVE FlagsOK'
    <2>1. UNCHANGED <<running, windowVars, clash, reinit, modeFailed, CloseFrame>>
        BY <1>14 DEF DnsStopped, StopSucceeds, StopTimesOut
    <2>2. dnsHandle' = FALSE /\ (inUse' = FALSE \/ UNCHANGED inUse)
        BY <1>14, Zenon DEF DnsStopped, StopSucceeds, StopTimesOut
    <2>3. dnsHandle' \in BOOLEAN /\ inUse' \in BOOLEAN
        BY <2>2, Zenon
    <2> QED BY <2>1, <2>3 DEF CloseFrame
<1>15. ASSUME NEW t \in Tasks, ModeChanged(t) PROVE FlagsOK'
    <2>1. modeFailed' \in BOOLEAN
        BY <1>15, Zenon DEF ModeChanged
    <2> QED BY <1>15, <2>1 DEF ModeChanged, CloseFrame
<1>16. CASE AccessGranted
    BY <1>16 DEF AccessGranted, WindowExpired, OtaIsBusy, HandlerQuiet, HandlerFrame
<1>17. CASE UploadReserved
    BY <1>17 DEF UploadReserved, HandlerQuiet, HandlerFrame
<1>18. CASE UploadFails
    <2>1. requestActive' \in BOOLEAN
        BY <1>18, Zenon DEF UploadFails, ReservedAfterFailure
    <2> QED BY <1>18, <2>1 DEF UploadFails, HandlerQuiet, HandlerFrame
<1>19. CASE UploadUnanswered
    BY <1>19 DEF UploadUnanswered, Fails, HandlerFrame
<1>20. ASSUME NEW created \in BOOLEAN, UploadAccepted(created) PROVE FlagsOK'
    BY <1>20 DEF UploadAccepted, Fails, Restarts, HandlerFrame
<1>21. ASSUME NEW created \in BOOLEAN, Provisioned(created) PROVE FlagsOK'
    BY <1>21 DEF Provisioned, Fails, Restarts, HandlerFrame
<1>22. CASE UNCHANGED vars
    BY <1>22
<1> QED
    BY <1>1, <1>2, <1>3, <1>4, <1>5, <1>6, <1>7, <1>8, <1>9, <1>10, <1>11, <1>12, <1>13,
        <1>14, <1>15, <1>16, <1>17, <1>18, <1>19, <1>20, <1>21, <1>22
    DEF Next, InitStep, StartStep, CloseStep, UploadStep

\* Every step keeps the other types.
LEMMA CountStep == CountsOK /\ [Next]_vars => CountsOK'
<1> SUFFICES ASSUME CountsOK, [Next]_vars PROVE CountsOK'
    OBVIOUS
<1> USE DEF vars, stateVars, windowVars, causes, dnsVars, storageVars, dnsBounds, CountsOK,
            Tasks, Goto, Places, MainPlaces, HttpPlaces,
            InitPlaces, OpenPlaces
<1>1. CASE InitStartsWifi
    BY <1>1 DEF InitStartsWifi, MayInit
<1>2. CASE InitFails
    BY <1>2, WindowAssumption DEF InitFails, Fails, MayInit
<1>3. CASE InitStartsHttp
    BY <1>3, WindowAssumption DEF InitStartsHttp, Fails
<1>4. CASE DnsStart
    <2>1. UNCHANGED <<bindFailures, startTimeouts, stopTimeouts, mode, windowAge, failures>>
        BY <1>4 DEF DnsStart, StartFrame, StartReturnsNull, StartClaims
    <2>2. bits' = {} \/ UNCHANGED bits
        BY <1>4 DEF DnsStart, StartClaims
    <2>3. dnsTask' = "starting" \/ UNCHANGED dnsTask
        BY <1>4 DEF DnsStart, StartClaims
    <2>4. \E place \in Places : Goto("main", place)
        BY <1>4 DEF DnsStart, WaitsFor, StartReturnsNull
    <2> QED BY <2>1, <2>2, <2>3, <2>4
<1>5. CASE DnsStarted
    BY <1>5, WindowAssumption DEF DnsStarted, StartSucceeds, StartFrame, OpenWindow, GivesUp
<1>6. CASE DnsNotStarted
    BY <1>6 DEF DnsNotStarted, StartFails, ReleaseAfterFailure, StartGivesUp,
        StartReturnsNull, StartFrame, GivesUp
<1>7. CASE DnsStartTimesOut
    BY <1>7, DnsBoundsAssumption DEF DnsStartTimesOut, StartTimesOut, StartFrame, GivesUp
<1>8. CASE DnsStep
    <2>1. UNCHANGED <<startTimeouts, stopTimeouts, mode, windowAge, failures, pc>>
        BY <1>8 DEF DnsStep, DnsTaskStep, DnsBinds, DnsBindFails, DnsEnds
    <2>2. dnsTask' \in {"serving", "none"} /\ bits' \subseteq {"STARTED", "STOPPED",
        "FAILED"}
        BY <1>8 DEF DnsStep, DnsTaskStep, DnsBinds, DnsBindFails, DnsEnds
    <2>3. bindFailures' \in 0 .. MaxBindFailures
        BY <1>8, DnsBoundsAssumption DEF DnsStep, DnsTaskStep, DnsBinds, DnsBindFails,
            DnsEnds
    <2> QED BY <2>1, <2>2, <2>3
<1>9. CASE Tick
    BY <1>9, WindowAssumption DEF Tick
<1>10. CASE Restart
    BY <1>10, WindowAssumption DEF Restart, DnsReset, AtBoot
<1>11. CASE StartProvisioning
    BY <1>11, WindowAssumption DEF StartProvisioning, Fails, OpenWindow, ModeToOpen, KeepsAp
<1>12. ASSUME NEW t \in Tasks, GotIp(t) PROVE CountsOK'
    BY <1>12 DEF GotIp, Disable, MayDisable, StopRequested, CloseFrame
<1>13. ASSUME NEW t \in Tasks, CloseWindow(t) PROVE CountsOK'
    BY <1>13 DEF CloseWindow, WindowExpired, OtaIsBusy, Disable, MayDisable, StopRequested,
        CloseFrame
<1>14. ASSUME NEW t \in Tasks, DnsStopped(t) PROVE CountsOK'
    <2>1. /\ UNCHANGED <<bits, dnsTask, bindFailures, startTimeouts>>
          /\ UNCHANGED <<mode, windowAge, failures>>
          /\ Goto(t, "mode")
        BY <1>14 DEF DnsStopped, StopSucceeds, StopTimesOut
    <2>2. stopTimeouts' \in 0 .. MaxStopTimeouts
        BY <1>14, DnsBoundsAssumption DEF DnsStopped, StopSucceeds, StopTimesOut
    <2> QED BY <2>1, <2>2
<1>15. ASSUME NEW t \in Tasks, ModeChanged(t) PROVE CountsOK'
    BY <1>15, WindowAssumption DEF ModeChanged, Fails, ModeToClose, CloseFrame
<1>16. CASE AccessGranted
    BY <1>16 DEF AccessGranted, WindowExpired, OtaIsBusy, HandlerQuiet, HandlerFrame
<1>17. CASE UploadReserved
    BY <1>17 DEF UploadReserved, HandlerQuiet, HandlerFrame
<1>18. CASE UploadFails
    BY <1>18 DEF UploadFails, ReservedAfterFailure, HandlerQuiet, HandlerFrame
<1>19. CASE UploadUnanswered
    BY <1>19, WindowAssumption DEF UploadUnanswered, Fails, HandlerFrame
<1>20. ASSUME NEW created \in BOOLEAN, UploadAccepted(created) PROVE CountsOK'
    BY <1>20, WindowAssumption DEF UploadAccepted, Fails, Restarts, HandlerFrame
<1>21. ASSUME NEW created \in BOOLEAN, Provisioned(created) PROVE CountsOK'
    BY <1>21, WindowAssumption DEF Provisioned, Fails, Restarts, HandlerFrame
<1>22. CASE UNCHANGED vars
    BY <1>22
<1> QED
    BY <1>1, <1>2, <1>3, <1>4, <1>5, <1>6, <1>7, <1>8, <1>9, <1>10, <1>11, <1>12, <1>13,
        <1>14, <1>15, <1>16, <1>17, <1>18, <1>19, <1>20, <1>21, <1>22
    DEF Next, InitStep, StartStep, CloseStep, UploadStep

\* Every step keeps the types.
LEMMA TypeStep == TypeOK /\ [Next]_vars => TypeOK'
<1>1. TypeOK <=> FlagsOK /\ CountsOK
    BY DEF TypeOK, DnsTypeOK, FlagsOK, CountsOK, Places, MainPlaces, HttpPlaces, InitPlaces,
        OpenPlaces
<1>2. TypeOK' <=> FlagsOK' /\ CountsOK'
    BY DEF TypeOK, DnsTypeOK, FlagsOK, CountsOK, Places, MainPlaces, HttpPlaces, InitPlaces,
        OpenPlaces
<1> QED BY <1>1, <1>2, FlagStep, CountStep

\* Every step keeps the places.
LEMMA PlaceStep == TypeOK /\ PlaceInv /\ [Next]_vars => PlaceInv'
<1> SUFFICES ASSUME TypeOK, PlaceInv, [Next]_vars PROVE PlaceInv'
    OBVIOUS
<1> USE DEF vars, stateVars, windowVars, causes, dnsVars, storageVars, dnsBounds, TypeOK,
            PlaceInv, Tasks, Goto, MainPlaces, HttpPlaces, InitPlaces, OpenPlaces
<1>1. CASE InitStartsWifi
    BY <1>1 DEF InitStartsWifi, MayInit
<1>2. CASE InitFails
    BY <1>2 DEF InitFails, Fails, MayInit
<1>3. CASE InitStartsHttp
    BY <1>3 DEF InitStartsHttp, Fails
<1>4. CASE DnsStart
    BY <1>4 DEF DnsStart, StartClaims, StorageFree, StartReturnsNull, StartFrame, WaitsFor
<1>5. CASE DnsStarted
    BY <1>5 DEF DnsStarted, StartSucceeds, StartFrame, OpenWindow, GivesUp
<1>6. CASE DnsNotStarted
    BY <1>6 DEF DnsNotStarted, StartFails, ReleaseAfterFailure, StartGivesUp,
        StartReturnsNull, StartFrame, GivesUp
<1>7. CASE DnsStartTimesOut
    BY <1>7 DEF DnsStartTimesOut, StartTimesOut, StartFrame, GivesUp
<1>8. CASE DnsStep
    BY <1>8 DEF DnsStep, DnsTaskStep, DnsBinds, DnsBindFails, DnsEnds
<1>9. CASE Tick
    BY <1>9 DEF Tick
<1>10. CASE Restart
    BY <1>10 DEF Restart, DnsReset, AtBoot
<1>11. CASE StartProvisioning
    BY <1>11 DEF StartProvisioning, Fails, OpenWindow, ModeToOpen, KeepsAp
<1>12. ASSUME NEW t \in Tasks, GotIp(t) PROVE PlaceInv'
    BY <1>12 DEF GotIp, Disable, MayDisable, StopRequested, CloseFrame
<1>13. ASSUME NEW t \in Tasks, CloseWindow(t) PROVE PlaceInv'
    BY <1>13 DEF CloseWindow, WindowExpired, OtaIsBusy, Disable, MayDisable, StopRequested,
        CloseFrame
<1>14. ASSUME NEW t \in Tasks, DnsStopped(t) PROVE PlaceInv'
    BY <1>14 DEF DnsStopped, StopSucceeds, StopTimesOut, CloseFrame
<1>15. ASSUME NEW t \in Tasks, ModeChanged(t) PROVE PlaceInv'
    BY <1>15 DEF ModeChanged, Fails, ModeToClose, CloseFrame
<1>16. CASE AccessGranted
    BY <1>16 DEF AccessGranted, WindowExpired, OtaIsBusy, HandlerQuiet, HandlerFrame
<1>17. CASE UploadReserved
    BY <1>17 DEF UploadReserved, HandlerQuiet, HandlerFrame
<1>18. CASE UploadFails
    BY <1>18 DEF UploadFails, ReservedAfterFailure, HandlerQuiet, HandlerFrame
<1>19. CASE UploadUnanswered
    BY <1>19 DEF UploadUnanswered, Fails, HandlerFrame
<1>20. ASSUME NEW created \in BOOLEAN, UploadAccepted(created) PROVE PlaceInv'
    BY <1>20 DEF UploadAccepted, Fails, Restarts, HandlerFrame
<1>21. ASSUME NEW created \in BOOLEAN, Provisioned(created) PROVE PlaceInv'
    BY <1>21 DEF Provisioned, Fails, Restarts, HandlerFrame
<1>22. CASE UNCHANGED vars
    BY <1>22
<1> QED
    BY <1>1, <1>2, <1>3, <1>4, <1>5, <1>6, <1>7, <1>8, <1>9, <1>10, <1>11, <1>12, <1>13,
        <1>14, <1>15, <1>16, <1>17, <1>18, <1>19, <1>20, <1>21, <1>22
    DEF Next, InitStep, StartStep, CloseStep, UploadStep

\* Every step keeps the portal: provisioning_disable is called for an enrolled device,
\* and enrolment is not undone.
LEMMA PortalStep == TypeOK /\ PlaceInv /\ PortalInv /\ [Next]_vars => PortalInv'
<1> SUFFICES ASSUME TypeOK, PlaceInv, PortalInv, [Next]_vars PROVE PortalInv'
    OBVIOUS
<1> USE DEF vars, stateVars, windowVars, causes, dnsVars, storageVars, dnsBounds, TypeOK,
            PlaceInv, PortalInv, Tasks, Goto, Closing, MainPlaces, HttpPlaces, InitPlaces,
            OpenPlaces
<1>1. CASE InitStartsWifi
    BY <1>1 DEF InitStartsWifi, MayInit
<1>2. CASE InitFails
    BY <1>2 DEF InitFails, Fails, MayInit
<1>3. CASE InitStartsHttp
    BY <1>3 DEF InitStartsHttp, Fails
<1>4. CASE DnsStart
    BY <1>4 DEF DnsStart, StartClaims, StorageFree, StartReturnsNull, StartFrame, WaitsFor
<1>5. CASE DnsStarted
    BY <1>5 DEF DnsStarted, StartSucceeds, StartFrame, OpenWindow, GivesUp
<1>6. CASE DnsNotStarted
    BY <1>6 DEF DnsNotStarted, StartFails, ReleaseAfterFailure, StartGivesUp,
        StartReturnsNull, StartFrame, GivesUp
<1>7. CASE DnsStartTimesOut
    BY <1>7 DEF DnsStartTimesOut, StartTimesOut, StartFrame, GivesUp
<1>8. CASE DnsStep
    BY <1>8 DEF DnsStep, DnsTaskStep, DnsBinds, DnsBindFails, DnsEnds
<1>9. CASE Tick
    BY <1>9 DEF Tick
<1>10. CASE Restart
    BY <1>10 DEF Restart, DnsReset, AtBoot
<1>11. CASE StartProvisioning
    BY <1>11 DEF StartProvisioning, Fails, OpenWindow, ModeToOpen, KeepsAp
<1>12. ASSUME NEW t \in Tasks, GotIp(t) PROVE PortalInv'
    BY <1>12 DEF GotIp, Disable, MayDisable, StopRequested, CloseFrame
<1>13. ASSUME NEW t \in Tasks, CloseWindow(t) PROVE PortalInv'
    BY <1>13 DEF CloseWindow, WindowExpired, OtaIsBusy, Disable, MayDisable, StopRequested,
        CloseFrame
<1>14. ASSUME NEW t \in Tasks, DnsStopped(t) PROVE PortalInv'
    BY <1>14 DEF DnsStopped, StopSucceeds, StopTimesOut, CloseFrame
<1>15. ASSUME NEW t \in Tasks, ModeChanged(t) PROVE PortalInv'
    BY <1>15 DEF ModeChanged, Fails, ModeToClose, CloseFrame
<1>16. CASE AccessGranted
    BY <1>16 DEF AccessGranted, WindowExpired, OtaIsBusy, HandlerQuiet, HandlerFrame
<1>17. CASE UploadReserved
    BY <1>17 DEF UploadReserved, HandlerQuiet, HandlerFrame
<1>18. CASE UploadFails
    BY <1>18 DEF UploadFails, ReservedAfterFailure, HandlerQuiet, HandlerFrame
<1>19. CASE UploadUnanswered
    BY <1>19 DEF UploadUnanswered, Fails, HandlerFrame
<1>20. ASSUME NEW created \in BOOLEAN, UploadAccepted(created) PROVE PortalInv'
    BY <1>20 DEF UploadAccepted, Fails, Restarts, HandlerFrame
<1>21. ASSUME NEW created \in BOOLEAN, Provisioned(created) PROVE PortalInv'
    BY <1>21 DEF Provisioned, Fails, Restarts, HandlerFrame
<1>22. CASE UNCHANGED vars
    BY <1>22
<1> QED
    BY <1>1, <1>2, <1>3, <1>4, <1>5, <1>6, <1>7, <1>8, <1>9, <1>10, <1>11, <1>12, <1>13,
        <1>14, <1>15, <1>16, <1>17, <1>18, <1>19, <1>20, <1>21, <1>22
    DEF Next, InitStep, StartStep, CloseStep, UploadStep

\* Every step keeps the storage from a task that lives in it.
LEMMA StorageStep == TypeOK /\ StorageInv /\ [Next]_vars => StorageInv'
<1> SUFFICES ASSUME TypeOK, StorageInv, [Next]_vars PROVE StorageInv'
    OBVIOUS
<1> USE DEF vars, stateVars, windowVars, causes, dnsVars, storageVars, dnsBounds, TypeOK,
            DnsTypeOK, StorageInv, Tasks, Goto, DnsGiveUps
<1>1. CASE InitStartsWifi
    BY <1>1 DEF InitStartsWifi, MayInit
<1>2. CASE InitFails
    BY <1>2 DEF InitFails, Fails, MayInit
<1>3. CASE InitStartsHttp
    BY <1>3 DEF InitStartsHttp, Fails
<1>4. CASE DnsStart
    BY <1>4 DEF DnsStart, StartClaims, StorageFree, StartReturnsNull, StartFrame, WaitsFor
<1>5. CASE DnsStarted
    BY <1>5 DEF DnsStarted, StartSucceeds, StartFrame, OpenWindow, GivesUp
<1>6. CASE DnsNotStarted
    BY <1>6 DEF DnsNotStarted, StartFails, ReleaseAfterFailure, StartGivesUp,
        StartReturnsNull, StartFrame, GivesUp
<1>7. CASE DnsStartTimesOut
    BY <1>7 DEF DnsStartTimesOut, StartTimesOut, StartFrame, GivesUp
<1>8. CASE DnsStep
    BY <1>8 DEF DnsStep, DnsTaskStep, DnsBinds, DnsBindFails, DnsEnds
<1>9. CASE Tick
    BY <1>9 DEF Tick
<1>10. CASE Restart
    BY <1>10 DEF Restart, DnsReset, AtBoot
<1>11. CASE StartProvisioning
    BY <1>11 DEF StartProvisioning, Fails, OpenWindow, ModeToOpen, KeepsAp
<1>12. ASSUME NEW t \in Tasks, GotIp(t) PROVE StorageInv'
    BY <1>12 DEF GotIp, Disable, MayDisable, StopRequested, CloseFrame
<1>13. ASSUME NEW t \in Tasks, CloseWindow(t) PROVE StorageInv'
    BY <1>13 DEF CloseWindow, WindowExpired, OtaIsBusy, Disable, MayDisable, StopRequested,
        CloseFrame
<1>14. ASSUME NEW t \in Tasks, DnsStopped(t) PROVE StorageInv'
    BY <1>14 DEF DnsStopped, StopSucceeds, StopTimesOut, CloseFrame
<1>15. ASSUME NEW t \in Tasks, ModeChanged(t) PROVE StorageInv'
    BY <1>15 DEF ModeChanged, Fails, ModeToClose, CloseFrame
<1>16. CASE AccessGranted
    BY <1>16 DEF AccessGranted, WindowExpired, OtaIsBusy, HandlerQuiet, HandlerFrame
<1>17. CASE UploadReserved
    BY <1>17 DEF UploadReserved, HandlerQuiet, HandlerFrame
<1>18. CASE UploadFails
    BY <1>18 DEF UploadFails, ReservedAfterFailure, HandlerQuiet, HandlerFrame
<1>19. CASE UploadUnanswered
    BY <1>19 DEF UploadUnanswered, Fails, HandlerFrame
<1>20. ASSUME NEW created \in BOOLEAN, UploadAccepted(created) PROVE StorageInv'
    BY <1>20 DEF UploadAccepted, Fails, Restarts, HandlerFrame
<1>21. ASSUME NEW created \in BOOLEAN, Provisioned(created) PROVE StorageInv'
    BY <1>21 DEF Provisioned, Fails, Restarts, HandlerFrame
<1>22. CASE UNCHANGED vars
    BY <1>22
<1> QED
    BY <1>1, <1>2, <1>3, <1>4, <1>5, <1>6, <1>7, <1>8, <1>9, <1>10, <1>11, <1>12, <1>13,
        <1>14, <1>15, <1>16, <1>17, <1>18, <1>19, <1>20, <1>21, <1>22
    DEF Next, InitStep, StartStep, CloseStep, UploadStep

\* Opening and closing at the same time is noticed.
LEMMA ClashStep == TypeOK /\ PlaceInv /\ ClashInv /\ [Next]_vars => ClashInv'
<1> SUFFICES ASSUME TypeOK, PlaceInv, ClashInv, [Next]_vars PROVE ClashInv'
    OBVIOUS
<1> USE DEF vars, stateVars, windowVars, causes, dnsVars, storageVars, dnsBounds, TypeOK,
            PlaceInv, ClashInv, Tasks, Goto, Closing, Opening, MainPlaces, HttpPlaces,
            InitPlaces, OpenPlaces,
            DnsStarts, DnsWaits, DnsGiveUps
<1>1. CASE InitStartsWifi
    BY <1>1 DEF InitStartsWifi, MayInit
<1>2. CASE InitFails
    BY <1>2 DEF InitFails, Fails, MayInit
<1>3. CASE InitStartsHttp
    BY <1>3 DEF InitStartsHttp, Fails
<1>4. CASE DnsStart
    BY <1>4 DEF DnsStart, StartClaims, StorageFree, StartReturnsNull, StartFrame, WaitsFor
<1>5. CASE DnsStarted
    BY <1>5 DEF DnsStarted, StartSucceeds, StartFrame, OpenWindow, GivesUp
<1>6. CASE DnsNotStarted
    BY <1>6 DEF DnsNotStarted, StartFails, ReleaseAfterFailure, StartGivesUp,
        StartReturnsNull, StartFrame, GivesUp
<1>7. CASE DnsStartTimesOut
    BY <1>7 DEF DnsStartTimesOut, StartTimesOut, StartFrame, GivesUp
<1>8. CASE DnsStep
    BY <1>8 DEF DnsStep, DnsTaskStep, DnsBinds, DnsBindFails, DnsEnds
<1>9. CASE Tick
    BY <1>9 DEF Tick
<1>10. CASE Restart
    BY <1>10 DEF Restart, DnsReset, AtBoot
<1>11. CASE StartProvisioning
    BY <1>11 DEF StartProvisioning, Fails, OpenWindow, ModeToOpen, KeepsAp
<1>12. ASSUME NEW t \in Tasks, GotIp(t) PROVE ClashInv'
    BY <1>12 DEF GotIp, Disable, MayDisable, StopRequested, CloseFrame
<1>13. ASSUME NEW t \in Tasks, CloseWindow(t) PROVE ClashInv'
    BY <1>13 DEF CloseWindow, WindowExpired, OtaIsBusy, Disable, MayDisable, StopRequested,
        CloseFrame
<1>14. ASSUME NEW t \in Tasks, DnsStopped(t) PROVE ClashInv'
    BY <1>14 DEF DnsStopped, StopSucceeds, StopTimesOut, CloseFrame
<1>15. ASSUME NEW t \in Tasks, ModeChanged(t) PROVE ClashInv'
    BY <1>15 DEF ModeChanged, Fails, ModeToClose, CloseFrame
<1>16. CASE AccessGranted
    BY <1>16 DEF AccessGranted, WindowExpired, OtaIsBusy, HandlerQuiet, HandlerFrame
<1>17. CASE UploadReserved
    BY <1>17 DEF UploadReserved, HandlerQuiet, HandlerFrame
<1>18. CASE UploadFails
    BY <1>18 DEF UploadFails, ReservedAfterFailure, HandlerQuiet, HandlerFrame
<1>19. CASE UploadUnanswered
    BY <1>19 DEF UploadUnanswered, Fails, HandlerFrame
<1>20. ASSUME NEW created \in BOOLEAN, UploadAccepted(created) PROVE ClashInv'
    BY <1>20 DEF UploadAccepted, Fails, Restarts, HandlerFrame
<1>21. ASSUME NEW created \in BOOLEAN, Provisioned(created) PROVE ClashInv'
    BY <1>21 DEF Provisioned, Fails, Restarts, HandlerFrame
<1>22. CASE UNCHANGED vars
    BY <1>22
<1> QED
    BY <1>1, <1>2, <1>3, <1>4, <1>5, <1>6, <1>7, <1>8, <1>9, <1>10, <1>11, <1>12, <1>13,
        <1>14, <1>15, <1>16, <1>17, <1>18, <1>19, <1>20, <1>21, <1>22
    DEF Next, InitStep, StartStep, CloseStep, UploadStep

\* provisioning_disable on the task that closes keeps handle and storage together.
LEMMA HandleDisabled ==
    ASSUME TypeOK, PlaceInv, ClashInv, HandleInv,
           NEW t \in Tasks, pc[t] = "idle", Disable(t), UNCHANGED dnsHandle
    PROVE  HandleInv'
<1> USE DEF TypeOK, DnsTypeOK, HandleInv, DnsMayStart, DnsMayStop, DnsServes, dnsVars,
            storageVars, dnsBounds
<1>1. CASE ~MayDisable
    BY <1>1 DEF Disable
<1>2. CASE MayDisable
    <2> SUFFICES ASSUME ~clash', startTimeouts' = 0, stopTimeouts' = 0
                 PROVE  HandleInv'
        OBVIOUS
    <2>1. /\ provisioning /\ clash' = (clash \/ Opening)
          /\ UNCHANGED <<inUse, bits, dnsTask, dnsBounds>>
          /\ IF dnsHandle THEN ~running' /\ Goto(t, "stopping")
             ELSE UNCHANGED running /\ Goto(t, "mode")
        BY <1>2 DEF Disable, MayDisable, StopRequested
    <2>2. ~clash /\ ~Opening /\ \A u \in Tasks : ~Closing(u)
        BY <2>1 DEF ClashInv
    <2>3. /\ pc["main"] \in {"boot", "idle"} /\ pc["http"] # "stopping"
          /\ pc'["main"] \in {"boot", "idle", "stopping", "mode"}
          /\ \A u \in Tasks : pc'[u] = "stopping" <=> u = t /\ dnsHandle
        BY <2>1, <2>2 DEF Opening, Closing, Goto, Tasks
    <2>4. startTimeouts = 0 /\ stopTimeouts = 0
        BY <2>1
    <2>5. /\ inUse = dnsHandle
          /\ ~dnsHandle => dnsTask = "none"
          /\ dnsHandle => dnsTask = "serving"
        BY <2>2, <2>3, <2>4 DEF DnsWaits
    <2>6. /\ pc'["main"] \notin DnsWaits \cup DnsStarts
          /\ (pc'["main"] = "stopping" \/ pc'["http"] = "stopping") <=> dnsHandle
        BY <2>3 DEF DnsWaits, DnsStarts, DnsGiveUps, Tasks
    <2> QED BY <2>1, <2>5, <2>6
<1> QED BY <1>1, <1>2

\* Every step keeps handle and storage together.
LEMMA HandleStep ==
    TypeOK /\ PlaceInv /\ StorageInv /\ ClashInv /\ HandleInv /\ [Next]_vars => HandleInv'
<1> SUFFICES ASSUME TypeOK, PlaceInv, StorageInv, ClashInv, HandleInv, [Next]_vars
             PROVE  HandleInv'
    OBVIOUS
<1> USE DEF vars, stateVars, windowVars, causes, dnsVars, storageVars, dnsBounds, TypeOK,
            DnsTypeOK, PlaceInv, StorageInv, ClashInv, HandleInv, Tasks, Goto, Closing,
            Opening,
            MainPlaces, HttpPlaces, InitPlaces, OpenPlaces, DnsStarts, DnsWaits, DnsGiveUps,
            DnsMayStart, DnsMayStop, DnsServes
<1>1. CASE InitStartsWifi
    BY <1>1 DEF InitStartsWifi, MayInit
<1>2. CASE InitFails
    BY <1>2 DEF InitFails, Fails, MayInit
<1>3. CASE InitStartsHttp
    BY <1>3 DEF InitStartsHttp, Fails
<1>4. CASE DnsStart
    BY <1>4 DEF DnsStart, StartClaims, StorageFree, StartReturnsNull, StartFrame, WaitsFor
<1>5. CASE DnsStarted
    BY <1>5 DEF DnsStarted, StartSucceeds, StartFrame, OpenWindow, GivesUp
<1>6. CASE DnsNotStarted
    BY <1>6 DEF DnsNotStarted, StartFails, ReleaseAfterFailure, StartGivesUp,
        StartReturnsNull, StartFrame, GivesUp
<1>7. CASE DnsStartTimesOut
    BY <1>7 DEF DnsStartTimesOut, StartTimesOut, StartFrame, GivesUp
<1>8. CASE DnsStep
    <2>0. UNCHANGED <<stateVars, pc, causes, inUse, startTimeouts, stopTimeouts>>
        BY <1>8 DEF DnsStep, DnsTaskStep, DnsBinds, DnsBindFails, DnsEnds
    <2>1. CASE DnsBinds
        <3>1. dnsTask = "starting" /\ dnsTask' = "serving" /\ UNCHANGED running
            BY <2>1 DEF DnsBinds
        <3>2. bits = {} => bits' = {"STARTED"}
            BY <2>1 DEF DnsBinds
        <3> QED BY <2>0, <3>1, <3>2
    <2>2. CASE DnsBindFails
        BY <2>0, <2>2 DEF DnsBindFails
    <2>3. CASE DnsEnds
        BY <2>0, <2>3 DEF DnsEnds
    <2> QED BY <1>8, <2>1, <2>2, <2>3 DEF DnsStep, DnsTaskStep
<1>9. CASE Tick
    BY <1>9 DEF Tick
<1>10. CASE Restart
    BY <1>10 DEF Restart, DnsReset, AtBoot
<1>11. CASE StartProvisioning
    BY <1>11 DEF StartProvisioning, Fails, OpenWindow, ModeToOpen, KeepsAp
<1>12. ASSUME NEW t \in Tasks, GotIp(t) PROVE HandleInv'
    <2>1. pc[t] = "idle" /\ UNCHANGED <<forced, dnsHandle>> /\ Disable(t)
        BY <1>12 DEF GotIp
    <2> QED BY <2>1, HandleDisabled
<1>13. ASSUME NEW t \in Tasks, CloseWindow(t) PROVE HandleInv'
    <2>1. pc[t] = "idle" /\ UNCHANGED dnsHandle
        BY <1>13 DEF CloseWindow
    <2>2. Disable(t) \/ UNCHANGED <<provisioning, clash, dnsVars, pc>>
        BY <1>13 DEF CloseWindow
    <2>3. CASE UNCHANGED <<provisioning, clash, dnsVars, pc>>
        BY <2>1, <2>3
    <2> QED BY <2>1, <2>2, <2>3, HandleDisabled
<1>14. ASSUME NEW t \in Tasks, DnsStopped(t) PROVE HandleInv'
    <2>0. /\ pc[t] = "stopping" /\ dnsHandle' = FALSE /\ Goto(t, "mode")
          /\ UNCHANGED <<windowVars, clash>>
        BY <1>14 DEF DnsStopped
    <2>1. CASE StopSucceeds
        BY <2>0, <2>1 DEF StopSucceeds
    <2>2. CASE StopTimesOut
        <3>1. stopTimeouts' # 0
            BY <2>2 DEF StopTimesOut
        <3> QED BY <3>1
    <2> QED BY <1>14, <2>1, <2>2 DEF DnsStopped
<1>15. ASSUME NEW t \in Tasks, ModeChanged(t) PROVE HandleInv'
    BY <1>15 DEF ModeChanged, Fails, ModeToClose, CloseFrame
<1>16. CASE AccessGranted
    BY <1>16 DEF AccessGranted, WindowExpired, OtaIsBusy, HandlerQuiet, HandlerFrame
<1>17. CASE UploadReserved
    BY <1>17 DEF UploadReserved, HandlerQuiet, HandlerFrame
<1>18. CASE UploadFails
    BY <1>18 DEF UploadFails, ReservedAfterFailure, HandlerQuiet, HandlerFrame
<1>19. CASE UploadUnanswered
    BY <1>19 DEF UploadUnanswered, Fails, HandlerFrame
<1>20. ASSUME NEW created \in BOOLEAN, UploadAccepted(created) PROVE HandleInv'
    BY <1>20 DEF UploadAccepted, Fails, Restarts, HandlerFrame
<1>21. ASSUME NEW created \in BOOLEAN, Provisioned(created) PROVE HandleInv'
    BY <1>21 DEF Provisioned, Fails, Restarts, HandlerFrame
<1>22. CASE UNCHANGED vars
    BY <1>22
<1> QED
    BY <1>1, <1>2, <1>3, <1>4, <1>5, <1>6, <1>7, <1>8, <1>9, <1>10, <1>11, <1>12, <1>13,
        <1>14, <1>15, <1>16, <1>17, <1>18, <1>19, <1>20, <1>21, <1>22
    DEF Next, InitStep, StartStep, CloseStep, UploadStep

\* Every step keeps mode and flag together.
LEMMA ModeStep == TypeOK /\ PlaceInv /\ ClashInv /\ ModeInv /\ [Next]_vars => ModeInv'
<1> SUFFICES ASSUME TypeOK, PlaceInv, ClashInv, ModeInv, [Next]_vars PROVE ModeInv'
    OBVIOUS
<1> USE DEF vars, stateVars, windowVars, causes, dnsVars, storageVars, dnsBounds, TypeOK,
            PlaceInv, ClashInv, ModeInv, Regular, Tasks, Goto, Closing, Opening,
            MainPlaces, HttpPlaces,
            InitPlaces, OpenPlaces, DnsStarts
<1>1. CASE InitStartsWifi
    BY <1>1 DEF InitStartsWifi, MayInit
<1>2. CASE InitFails
    BY <1>2 DEF InitFails, Fails, MayInit
<1>3. CASE InitStartsHttp
    BY <1>3 DEF InitStartsHttp, Fails
<1>4. CASE DnsStart
    BY <1>4 DEF DnsStart, StartClaims, StorageFree, StartReturnsNull, StartFrame, WaitsFor
<1>5. CASE DnsStarted
    BY <1>5 DEF DnsStarted, StartSucceeds, StartFrame, OpenWindow, GivesUp
<1>6. CASE DnsNotStarted
    BY <1>6 DEF DnsNotStarted, StartFails, ReleaseAfterFailure, StartGivesUp,
        StartReturnsNull, StartFrame, GivesUp
<1>7. CASE DnsStartTimesOut
    BY <1>7 DEF DnsStartTimesOut, StartTimesOut, StartFrame, GivesUp
<1>8. CASE DnsStep
    BY <1>8 DEF DnsStep, DnsTaskStep, DnsBinds, DnsBindFails, DnsEnds
<1>9. CASE Tick
    BY <1>9 DEF Tick
<1>10. CASE Restart
    BY <1>10 DEF Restart, DnsReset, AtBoot
<1>11. CASE StartProvisioning
    <2>1. pc["main"] = "idle" /\ clash' = (clash \/ Closing("http")) /\ mode # "OFF"
        BY <1>11 DEF StartProvisioning
    <2>2. \/ UNCHANGED <<mode, provisioning, pc>>
          \/ mode' = "APSTA" /\ provisioning' = TRUE
          \/ modeFailed' = TRUE
        BY <1>11 DEF StartProvisioning, ModeToOpen
    <2>3. UNCHANGED <<reinit>> /\ (modeFailed' = TRUE \/ UNCHANGED modeFailed)
        BY <1>11 DEF StartProvisioning
    <2>4. mode' # "OFF"
        BY <1>11, <2>1 DEF StartProvisioning, ModeToOpen
    <2> QED BY <2>1, <2>2, <2>3, <2>4
<1>12. ASSUME NEW t \in Tasks, GotIp(t) PROVE ModeInv'
    BY <1>12 DEF GotIp, Disable, MayDisable, StopRequested, CloseFrame
<1>13. ASSUME NEW t \in Tasks, CloseWindow(t) PROVE ModeInv'
    BY <1>13 DEF CloseWindow, WindowExpired, OtaIsBusy, Disable, MayDisable, StopRequested,
        CloseFrame
<1>14. ASSUME NEW t \in Tasks, DnsStopped(t) PROVE ModeInv'
    BY <1>14 DEF DnsStopped, StopSucceeds, StopTimesOut, CloseFrame
<1>15. ASSUME NEW t \in Tasks, ModeChanged(t) PROVE ModeInv'
    BY <1>15 DEF ModeChanged, Fails, ModeToClose, CloseFrame
<1>16. CASE AccessGranted
    BY <1>16 DEF AccessGranted, WindowExpired, OtaIsBusy, HandlerQuiet, HandlerFrame
<1>17. CASE UploadReserved
    BY <1>17 DEF UploadReserved, HandlerQuiet, HandlerFrame
<1>18. CASE UploadFails
    BY <1>18 DEF UploadFails, ReservedAfterFailure, HandlerQuiet, HandlerFrame
<1>19. CASE UploadUnanswered
    BY <1>19 DEF UploadUnanswered, Fails, HandlerFrame
<1>20. ASSUME NEW created \in BOOLEAN, UploadAccepted(created) PROVE ModeInv'
    BY <1>20 DEF UploadAccepted, Fails, Restarts, HandlerFrame
<1>21. ASSUME NEW created \in BOOLEAN, Provisioned(created) PROVE ModeInv'
    BY <1>21 DEF Provisioned, Fails, Restarts, HandlerFrame
<1>22. CASE UNCHANGED vars
    BY <1>22
<1> QED
    BY <1>1, <1>2, <1>3, <1>4, <1>5, <1>6, <1>7, <1>8, <1>9, <1>10, <1>11, <1>12, <1>13,
        <1>14, <1>15, <1>16, <1>17, <1>18, <1>19, <1>20, <1>21, <1>22
    DEF Next, InitStep, StartStep, CloseStep, UploadStep

\* Every step keeps the window.
LEMMA WindowStep == TypeOK /\ PlaceInv /\ ClashInv /\ WindowInv /\ [Next]_vars => WindowInv'
<1> SUFFICES ASSUME TypeOK, PlaceInv, ClashInv, WindowInv, [Next]_vars PROVE WindowInv'
    OBVIOUS
<1> USE DEF vars, stateVars, windowVars, causes, dnsVars, storageVars, dnsBounds, TypeOK,
            PlaceInv, ClashInv, WindowInv, Regular, Tasks, Goto, Closing, Opening,
            MainPlaces, HttpPlaces,
            InitPlaces, OpenPlaces, DnsStarts, DnsWaits, DnsGiveUps
<1>1. CASE InitStartsWifi
    BY <1>1 DEF InitStartsWifi, MayInit
<1>2. CASE InitFails
    BY <1>2 DEF InitFails, Fails, MayInit
<1>3. CASE InitStartsHttp
    BY <1>3 DEF InitStartsHttp, Fails
<1>4. CASE DnsStart
    BY <1>4 DEF DnsStart, StartClaims, StorageFree, StartReturnsNull, StartFrame, WaitsFor
<1>5. CASE DnsStarted
    BY <1>5 DEF DnsStarted, StartSucceeds, StartFrame, OpenWindow, GivesUp
<1>6. CASE DnsNotStarted
    BY <1>6 DEF DnsNotStarted, StartFails, ReleaseAfterFailure, StartGivesUp,
        StartReturnsNull, StartFrame, GivesUp
<1>7. CASE DnsStartTimesOut
    BY <1>7 DEF DnsStartTimesOut, StartTimesOut, StartFrame, GivesUp
<1>8. CASE DnsStep
    BY <1>8 DEF DnsStep, DnsTaskStep, DnsBinds, DnsBindFails, DnsEnds
<1>9. CASE Tick
    BY <1>9 DEF Tick
<1>10. CASE Restart
    BY <1>10 DEF Restart, DnsReset, AtBoot
<1>11. CASE StartProvisioning
    BY <1>11 DEF StartProvisioning, Fails, OpenWindow, ModeToOpen, KeepsAp
<1>12. ASSUME NEW t \in Tasks, GotIp(t) PROVE WindowInv'
    BY <1>12 DEF GotIp, Disable, MayDisable, StopRequested, CloseFrame
<1>13. ASSUME NEW t \in Tasks, CloseWindow(t) PROVE WindowInv'
    BY <1>13 DEF CloseWindow, WindowExpired, OtaIsBusy, Disable, MayDisable, StopRequested,
        CloseFrame
<1>14. ASSUME NEW t \in Tasks, DnsStopped(t) PROVE WindowInv'
    BY <1>14 DEF DnsStopped, StopSucceeds, StopTimesOut, CloseFrame
<1>15. ASSUME NEW t \in Tasks, ModeChanged(t) PROVE WindowInv'
    BY <1>15 DEF ModeChanged, Fails, ModeToClose, CloseFrame
<1>16. CASE AccessGranted
    BY <1>16 DEF AccessGranted, WindowExpired, OtaIsBusy, HandlerQuiet, HandlerFrame
<1>17. CASE UploadReserved
    BY <1>17 DEF UploadReserved, HandlerQuiet, HandlerFrame
<1>18. CASE UploadFails
    BY <1>18 DEF UploadFails, ReservedAfterFailure, HandlerQuiet, HandlerFrame
<1>19. CASE UploadUnanswered
    BY <1>19 DEF UploadUnanswered, Fails, HandlerFrame
<1>20. ASSUME NEW created \in BOOLEAN, UploadAccepted(created) PROVE WindowInv'
    BY <1>20 DEF UploadAccepted, Fails, Restarts, HandlerFrame
<1>21. ASSUME NEW created \in BOOLEAN, Provisioned(created) PROVE WindowInv'
    BY <1>21 DEF Provisioned, Fails, Restarts, HandlerFrame
<1>22. CASE UNCHANGED vars
    BY <1>22
<1> QED
    BY <1>1, <1>2, <1>3, <1>4, <1>5, <1>6, <1>7, <1>8, <1>9, <1>10, <1>11, <1>12, <1>13,
        <1>14, <1>15, <1>16, <1>17, <1>18, <1>19, <1>20, <1>21, <1>22
    DEF Next, InitStep, StartStep, CloseStep, UploadStep

----------------------------------------------------------------------------
(* What follows.                                                           *)

\* The conjunction of the invariants holds in every reachable state, for every window and
\* every number of failures and of waits that run out.
THEOREM ApInvariant == Spec => [](TypeOK /\ ApInv)
<1>1. TypeOK /\ ApInv /\ [Next]_vars => (TypeOK /\ ApInv)'
    BY TypeStep, PlaceStep, PortalStep, StorageStep, ClashStep, HandleStep, ModeStep,
       WindowStep DEF ApInv
<1> QED BY <1>1, ApInit, PTL DEF Spec

\* The state of network.c, the DNS server and the driver keeps its type through every
\* failure and every interleaving of the two tasks.
THEOREM TypeCorrect == Spec => []TypeOK
BY ApInvariant, PTL

\* A device that is not enrolled keeps its access point through every window, expiry and
\* connection, whatever fails.
THEOREM PortalIsKept == Spec => []PortalStays
<1>1. ApInv => PortalStays
    BY DEF ApInv, PortalInv, PortalStays
<1> QED BY <1>1, ApInvariant, PTL

\* An upload that was reserved in an open window keeps the window and the access point,
\* for every interleaving of the two tasks that run network_service.
THEOREM UploadIsServed == Spec => []UploadKeepsWindow
<1>1. TypeOK /\ ApInv => UploadKeepsWindow
    <2> SUFFICES ASSUME TypeOK, ApInv, pc["http"] = "upload", Regular
                 PROVE  active /\ provisioning /\ mode = "APSTA"
        BY DEF UploadKeepsWindow, Regular, ApInv, WindowInv
    <2>1. active /\ provisioning
        BY DEF ApInv, WindowInv
    <2>2. mode # "OFF" /\ \A t \in Tasks : ~Closing(t)
        BY <2>1 DEF ApInv, PlaceInv, ClashInv, Regular
    <2> QED BY <2>1, <2>2 DEF ApInv, ModeInv, TypeOK
<1> QED BY <1>1, ApInvariant, PTL

\* The driver's mode and s_provisioning agree between operations, with the exceptions
\* that the property names.
THEOREM FlagTellsMode == Spec => []ApMatchesFlag
<1>1. TypeOK /\ ApInv => ApMatchesFlag
    BY DEF ApInv, ModeInv, Regular, ApMatchesFlag, Settled, Closing, Tasks
<1> QED BY <1>1, ApInvariant, PTL

\* Between operations the handle, the storage and the task of the DNS server belong
\* together after any number of bind failures and restarts.
THEOREM DnsIsNotLeaked == Spec => []DnsNotLeaked
<1>1. TypeOK /\ ApInv => DnsNotLeaked
    <2> SUFFICES ASSUME TypeOK, ApInv, Settled, ~clash, startTimeouts = 0, stopTimeouts = 0
                 PROVE  /\ inUse = dnsHandle
                        /\ dnsHandle => dnsTask = "serving" /\ running
                        /\ ~dnsHandle => dnsTask = "none"
        BY DEF DnsNotLeaked
    <2>1. pc["main"] \notin DnsWaits /\ pc["main"] # "stopping" /\ pc["http"] # "stopping"
        BY DEF Settled, Closing, DnsWaits
    <2> QED BY <2>1 DEF ApInv, HandleInv, DnsServes
<1> QED BY <1>1, ApInvariant, PTL

\* The bits are cleared by a restart and by dns_server_start in free storage, only.
LEMMA BitsAreCleared ==
    ASSUME [Next]_vars, inUse', bits' = {}, bits # {}
    PROVE  ~inUse
<1> SUFFICES ASSUME Next PROVE ~inUse \/ UNCHANGED bits \/ bits' # {}
    BY DEF vars, dnsVars, storageVars
<1> USE DEF dnsVars, storageVars
<1>1. ASSUME DnsStep PROVE bits' # {}
    BY <1>1 DEF DnsStep, DnsTaskStep, DnsBinds, DnsBindFails, DnsEnds
<1>2. ASSUME StartStep PROVE ~inUse \/ UNCHANGED bits
    BY <1>2 DEF StartStep, DnsStart, StartClaims, StorageFree, DnsStarted, StartSucceeds,
        DnsNotStarted, StartFails, StartGivesUp, DnsStartTimesOut, StartTimesOut
<1>3. ASSUME Restart PROVE ~inUse'
    BY <1>3 DEF Restart, DnsReset
<1>4. ASSUME InitStep \/ Tick \/ StartProvisioning PROVE UNCHANGED bits
    BY <1>4 DEF InitStep, InitStartsWifi, InitFails, InitStartsHttp, Tick, StartProvisioning
<1>5. ASSUME NEW t \in Tasks,
    GotIp(t) \/ CloseWindow(t) \/ CloseStep(t) PROVE UNCHANGED bits
    BY <1>5 DEF GotIp, CloseWindow, Disable, StopRequested, CloseStep, DnsStopped,
        StopSucceeds, StopTimesOut, ModeChanged
<1>6. ASSUME NEW created \in BOOLEAN, AccessGranted \/ UploadStep \/ Provisioned(created)
      PROVE  UNCHANGED bits
    BY <1>6 DEF AccessGranted, UploadStep, UploadReserved, UploadFails, UploadUnanswered,
        UploadAccepted, Provisioned, HandlerQuiet, HandlerFrame
<1> QED BY <1>1, <1>2, <1>3, <1>4, <1>5, <1>6 DEF Next

\* The storage of the DNS server is cleared only when no task lives in it, unless a wait
\* of dns_server_start ran out; also when two tasks open and close at the same time.
THEOREM StorageIsNotReused == Spec => StorageNotReused
<1>1. TypeOK /\ ApInv /\ [Next]_vars =>
        [inUse' /\ bits' = {} /\ bits # {} => dnsTask = "none" \/ startTimeouts > 0]_vars
    <2> SUFFICES ASSUME TypeOK, ApInv, [Next]_vars, inUse', bits' = {}, bits # {},
                        startTimeouts = 0
                 PROVE  dnsTask = "none"
        BY DEF TypeOK, DnsTypeOK
    <2>1. StorageInv
        BY DEF ApInv
    <2>2. ~inUse
        BY BitsAreCleared
    <2> QED BY <2>1, <2>2 DEF StorageInv
<1> QED BY <1>1, ApInvariant, PTL DEF Spec, StorageNotReused
=============================================================================
