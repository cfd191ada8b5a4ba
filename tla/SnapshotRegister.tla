--------------------------- MODULE SnapshotRegister ---------------------------
(***************************************************************************)
(* What publish_snapshot and fan_control_get_snapshot of                   *)
(* main/fan_control.c promise: the actor's snapshot behaves like a         *)
(* register.  A read returns, all fields together, the snapshot that is    *)
(* published when it returns; it may give up, but only when a publication  *)
(* was going on during the read.  SnapshotLock implements this             *)
(* specification and Display is built on it.                               *)
(***************************************************************************)
CONSTANTS
    Snapshots,      \* the snapshots that the actor publishes
    Readers         \* the tasks that read

ASSUME RegisterAssumption == Snapshots # {}

VARIABLES
    published,      \* the snapshot that readers are to see
    publishing,     \* the actor replaces it
    phase,          \* of each reader's call
    disturbed,      \* a publication was going on during the call
    result          \* what the call returned

registerVars == <<published, publishing, phase, disturbed, result>>

\* A local structure before it is filled and after its scope.
Unset == CHOOSE s \in Snapshots : TRUE

\* fan_control_init returns when the actor has published its first snapshot.
RegisterInit ==
    /\ published \in Snapshots /\ publishing = FALSE
    /\ phase = [r \in Readers |-> "idle"] /\ disturbed = [r \in Readers |-> FALSE]
    /\ result = [r \in Readers |-> Unset]

PublishStarts ==
    /\ ~publishing /\ publishing' = TRUE
    /\ disturbed' = [r \in Readers |-> disturbed[r] \/ phase[r] = "reading"]
    /\ UNCHANGED <<published, phase, result>>

PublishEnds(s) ==
    /\ publishing /\ publishing' = FALSE
    /\ published' = s
    /\ UNCHANGED <<phase, disturbed, result>>

ReadStarts(r) ==
    /\ phase[r] = "idle" /\ phase' = [phase EXCEPT ![r] = "reading"]
    /\ disturbed' = [disturbed EXCEPT ![r] = publishing]
    /\ UNCHANGED <<published, publishing, result>>

ReadReturns(r) ==
    /\ phase[r] = "reading" /\ ~publishing
    /\ phase' = [phase EXCEPT ![r] = "ok"]
    /\ result' = [result EXCEPT ![r] = published]
    /\ UNCHANGED <<published, publishing, disturbed>>

\* ESP_ERR_TIMEOUT
ReadGivesUp(r) ==
    /\ phase[r] = "reading" /\ disturbed[r]
    /\ phase' = [phase EXCEPT ![r] = "timeout"]
    /\ UNCHANGED <<published, publishing, disturbed, result>>

\* The caller has used the result.
ReadDone(r) ==
    /\ phase[r] \in {"ok", "timeout"} /\ phase' = [phase EXCEPT ![r] = "idle"]
    /\ disturbed' = [disturbed EXCEPT ![r] = FALSE]
    /\ result' = [result EXCEPT ![r] = Unset]
    /\ UNCHANGED <<published, publishing>>

RegisterNext ==
    \/ PublishStarts \/ \E s \in Snapshots : PublishEnds(s)
    \/ \E r \in Readers :
          ReadStarts(r) \/ ReadReturns(r) \/ ReadGivesUp(r) \/ ReadDone(r)

\* A read that has started comes to an end.
RegisterFairness ==
    \A r \in Readers : WF_registerVars(ReadReturns(r) \/ ReadGivesUp(r))

RegisterSafety == RegisterInit /\ [][RegisterNext]_registerVars

RegisterSpec == RegisterSafety /\ RegisterFairness

RegisterTypeOK ==
    /\ published \in Snapshots /\ publishing \in BOOLEAN
    /\ phase \in [Readers -> {"idle", "reading", "ok", "timeout"}]
    /\ disturbed \in [Readers -> BOOLEAN]
    /\ result \in [Readers -> Snapshots]
===============================================================================
