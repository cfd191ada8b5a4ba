----------------------------- MODULE CaptiveDns -----------------------------
(***************************************************************************)
(* components/dns_server/dns_server.c: the one DNS server of the setup     *)
(* portal, in static storage.  dns_server_start and dns_server_stop run on *)
(* a caller's task and wait, with a timeout, for the event bits that the   *)
(* server's own task sets.  Queries and answers are data and left out.     *)
(* The module has no specification of its own: AccessPoint composes it     *)
(* with the tasks that call it.                                            *)
(***************************************************************************)
EXTENDS Naturals

CONSTANTS
    MaxBindFailures,    \* bound: times that socket or bind fails
    MaxStartTimeouts,   \* bound: waits of dns_server_start that run out
    MaxStopTimeouts     \* bound: waits of dns_server_stop that run out

ASSUME DnsBoundsAssumption ==
    MaxBindFailures \in Nat /\ MaxStartTimeouts \in Nat /\ MaxStopTimeouts \in Nat

VARIABLES
    inUse,          \* s_server.in_use
    running,        \* s_server.running
    bits,           \* s_server.events
    dnsTask,        \* the server's task: none, starting, serving
    bindFailures, startTimeouts, stopTimeouts

storageVars == <<inUse, running, bits, dnsTask>>
dnsBounds   == <<bindFailures, startTimeouts, stopTimeouts>>
dnsVars     == <<storageVars, dnsBounds>>

DnsInit ==
    /\ inUse = FALSE /\ running = FALSE /\ bits = {} /\ dnsTask = "none"
    /\ bindFailures = 0 /\ startTimeouts = 0 /\ stopTimeouts = 0

\* A restart of the chip.
DnsReset ==
    /\ inUse' = FALSE /\ running' = FALSE /\ bits' = {} /\ dnsTask' = "none"
    /\ UNCHANGED dnsBounds

----------------------------------------------------------------------------
(* dns_task.                                                               *)

DnsBinds ==
    /\ dnsTask = "starting"
    /\ dnsTask' = "serving" /\ bits' = bits \cup {"STARTED"}
    /\ UNCHANGED <<inUse, running, dnsBounds>>

DnsBindFails ==
    /\ dnsTask = "starting" /\ bindFailures < MaxBindFailures
    /\ bindFailures' = bindFailures + 1
    /\ dnsTask' = "none" /\ running' = FALSE
    /\ bits' = bits \cup {"FAILED", "STOPPED"}
    /\ UNCHANGED <<inUse, startTimeouts, stopTimeouts>>

\* The receive timeout of 250 ms, or the shutdown of the socket, brings the task back
\* to the condition of its loop.
DnsEnds ==
    /\ dnsTask = "serving" /\ ~running
    /\ dnsTask' = "none" /\ bits' = bits \cup {"STOPPED"}
    /\ UNCHANGED <<inUse, running, dnsBounds>>

DnsTaskStep == DnsBinds \/ DnsBindFails \/ DnsEnds

----------------------------------------------------------------------------
(* dns_server_start, on the caller's task.                                 *)

\* Mutant: the storage is taken whoever uses it.
AlwaysFree == TRUE

StorageFree == ~inUse

\* Clear the storage and create the task in it.
StartClaims ==
    /\ StorageFree
    /\ inUse' = TRUE /\ running' = TRUE /\ bits' = {} /\ dnsTask' = "starting"
    /\ UNCHANGED dnsBounds

StartSucceeds ==
    /\ "STARTED" \in bits
    /\ UNCHANGED dnsVars

\* Mutant: a server that could not bind keeps the storage.
KeepAfterFailure == UNCHANGED inUse

ReleaseAfterFailure == inUse' = FALSE

\* FAILED comes together with STOPPED, so the second wait is over at once.
StartFails ==
    /\ "FAILED" \in bits
    /\ ReleaseAfterFailure
    /\ UNCHANGED <<running, bits, dnsTask, dnsBounds>>

\* Neither bit within a second.
StartTimesOut ==
    /\ bits = {} /\ startTimeouts < MaxStartTimeouts
    /\ startTimeouts' = startTimeouts + 1
    /\ UNCHANGED <<storageVars, bindFailures, stopTimeouts>>

\* The end of the second wait: the storage is given back whether or not the task has
\* stopped.
StartGivesUp ==
    /\ inUse' = FALSE
    /\ UNCHANGED <<running, bits, dnsTask, dnsBounds>>

----------------------------------------------------------------------------
(* dns_server_stop, on the caller's task.                                  *)

StopRequested ==
    /\ running' = FALSE
    /\ UNCHANGED <<inUse, bits, dnsTask, dnsBounds>>

StopSucceeds ==
    /\ "STOPPED" \in bits
    /\ inUse' = FALSE
    /\ UNCHANGED <<running, bits, dnsTask, dnsBounds>>

\* "ownership retained for retry"
StopTimesOut ==
    /\ "STOPPED" \notin bits /\ stopTimeouts < MaxStopTimeouts
    /\ stopTimeouts' = stopTimeouts + 1
    /\ UNCHANGED <<storageVars, bindFailures, startTimeouts>>

DnsTypeOK ==
    /\ inUse \in BOOLEAN /\ running \in BOOLEAN
    /\ bits \subseteq {"STARTED", "STOPPED", "FAILED"}
    /\ dnsTask \in {"none", "starting", "serving"}
    /\ bindFailures \in 0 .. MaxBindFailures
    /\ startTimeouts \in 0 .. MaxStartTimeouts /\ stopTimeouts \in 0 .. MaxStopTimeouts
=============================================================================
