----------------------------- MODULE SnapshotLock -----------------------------
(***************************************************************************)
(* How the fan actor's state reaches the other tasks: publish_snapshot and *)
(* fan_control_get_snapshot of main/fan_control.c, a sequence lock.  The   *)
(* counter is odd while the actor copies the structure, field by field;    *)
(* a reader copies it likewise and starts over when the counter was odd or *)
(* has changed, a few times before it gives up.                            *)
(*                                                                         *)
(* Readers and the actor interleave freely: the lock does not rely on the  *)
(* actor's priority.  The counter is unbounded here; in the code it wraps  *)
(* after 2^31 publications, all of which one read would have to sleep      *)
(* through (a year and more at one per cycle).                             *)
(***************************************************************************)
EXTENDS Naturals

CONSTANTS
    Fields,         \* the fields of fan_control_snapshot_t
    Snapshots,      \* the snapshots that the actor publishes
    Readers,        \* the tasks that read
    Attempts,       \* attempts of a read, 4 in the code
    MaxPublish      \* bound: publications after the first

ASSUME FieldsAssumption ==
    Snapshots # {} /\ \A s \in Snapshots : s = [f \in Fields |-> s[f]]
ASSUME AttemptsAssumption == Attempts \in Nat \ {0} /\ MaxPublish \in Nat

VARIABLES
    sequence,       \* s_snapshot_sequence
    cell,           \* s_snapshot
    next,           \* the actor's snapshot
    toWrite,        \* the fields of it that are not in the cell yet
    rpc,            \* where each reader is
    attempt,        \* attempts that it has started
    before,         \* the counter as it found it
    copy,           \* what it has copied
    toRead,         \* the fields that it has not copied yet
    published,      \* the snapshot of the last finished publication (history)
    disturbed       \* the reader's call met a publication (history)

writerVars == <<sequence, cell, next, toWrite, published>>
readerVars == <<rpc, attempt, before, copy, toRead>>
vars == <<writerVars, readerVars, disturbed>>

Odd(n) == n % 2 = 1

\* A local structure before it is filled and after its scope.
Unset == CHOOSE s \in Snapshots : TRUE

\* fan_control_init returns when the actor has published its first snapshot.
Init ==
    /\ sequence = 2
    /\ published \in Snapshots /\ next = published /\ cell = published /\ toWrite = {}
    /\ rpc = [r \in Readers |-> "idle"] /\ attempt = [r \in Readers |-> 0]
    /\ before = [r \in Readers |-> 0] /\ copy = [r \in Readers |-> Unset]
    /\ toRead = [r \in Readers |-> {}]
    /\ disturbed = [r \in Readers |-> FALSE]

----------------------------------------------------------------------------
(* publish_snapshot.                                                       *)

\* The next odd number.
OpenedSequence == IF Odd(sequence) THEN sequence + 2 ELSE sequence + 1

PublishBegins ==
    /\ ~Odd(sequence) /\ sequence < 2 + 2 * MaxPublish
    /\ sequence' = OpenedSequence
    /\ next' \in Snapshots /\ toWrite' = Fields
    /\ disturbed' = [r \in Readers |-> disturbed[r] \/ rpc[r] \in {"load", "copy"}]
    /\ UNCHANGED <<cell, published, readerVars>>

PublishField(f) ==
    /\ f \in toWrite
    /\ cell' = [cell EXCEPT ![f] = next[f]]
    /\ toWrite' = toWrite \ {f}
    /\ UNCHANGED <<sequence, next, published, readerVars, disturbed>>

PublishEnds ==
    /\ Odd(sequence) /\ toWrite = {}
    /\ sequence' = sequence + 1
    /\ published' = next
    /\ UNCHANGED <<cell, next, toWrite, readerVars, disturbed>>

Publish == PublishBegins \/ PublishEnds \/ \E f \in Fields : PublishField(f)

----------------------------------------------------------------------------
(* fan_control_get_snapshot.                                               *)

ReadBegins(r) ==
    /\ rpc[r] = "idle" /\ rpc' = [rpc EXCEPT ![r] = "load"]
    /\ disturbed' = [disturbed EXCEPT ![r] = Odd(sequence)]
    /\ UNCHANGED <<writerVars, attempt, before, copy, toRead>>

TriesAgain(r) == attempt[r] < Attempts

\* The counter is loaded; an odd one ends the attempt.
ReadLoads(r) ==
    /\ rpc[r] = "load" /\ TriesAgain(r)
    /\ attempt' = [attempt EXCEPT ![r] = @ + 1]
    /\ IF Odd(sequence)
       THEN UNCHANGED <<rpc, before, toRead>>
       ELSE /\ rpc' = [rpc EXCEPT ![r] = "copy"]
            /\ before' = [before EXCEPT ![r] = sequence]
            /\ toRead' = [toRead EXCEPT ![r] = Fields]
    /\ UNCHANGED <<copy, writerVars, disturbed>>

ReadField(r, f) ==
    /\ rpc[r] = "copy" /\ f \in toRead[r]
    /\ copy' = [copy EXCEPT ![r] = [@ EXCEPT ![f] = cell[f]]]
    /\ toRead' = [toRead EXCEPT ![r] = @ \ {f}]
    /\ UNCHANGED <<rpc, attempt, before, writerVars, disturbed>>

\* Mutant: any even counter will do.
StillEven(r) == ~Odd(sequence)

StillTheSame(r) == before[r] = sequence /\ ~Odd(sequence)

\* The counter is loaded again and must not have changed.
ReadVerifies(r) ==
    /\ rpc[r] = "copy" /\ toRead[r] = {}
    /\ rpc' = [rpc EXCEPT ![r] = IF StillTheSame(r) THEN "ok" ELSE "load"]
    /\ UNCHANGED <<attempt, before, copy, toRead, writerVars, disturbed>>

ReadTimesOut(r) ==
    /\ rpc[r] = "load" /\ ~TriesAgain(r)
    /\ rpc' = [rpc EXCEPT ![r] = "timeout"]
    /\ UNCHANGED <<attempt, before, copy, toRead, writerVars, disturbed>>

\* The caller has used the result.
ReadEnds(r) ==
    /\ rpc[r] \in {"ok", "timeout"} /\ rpc' = [rpc EXCEPT ![r] = "idle"]
    /\ attempt' = [attempt EXCEPT ![r] = 0] /\ before' = [before EXCEPT ![r] = 0]
    /\ copy' = [copy EXCEPT ![r] = Unset] /\ toRead' = [toRead EXCEPT ![r] = {}]
    /\ disturbed' = [disturbed EXCEPT ![r] = FALSE]
    /\ UNCHANGED writerVars

ReadStep(r) ==
    ReadLoads(r) \/ ReadVerifies(r) \/ ReadTimesOut(r) \/ \E f \in Fields : ReadField(r, f)

Next == Publish \/ \E r \in Readers : ReadBegins(r) \/ ReadStep(r) \/ ReadEnds(r)

\* A reader is scheduled again and again; nobody has to begin a read.
Spec == Init /\ [][Next]_vars /\ \A r \in Readers : WF_vars(ReadStep(r))

----------------------------------------------------------------------------
(* Properties.                                                             *)

\* Every field of s comes from some snapshot, maybe each from another one.
IsSnapshot(s) ==
    s = [f \in Fields |-> s[f]] /\ \A f \in Fields : s[f] \in {t[f] : t \in Snapshots}

\* Every variable keeps its type.
TypeOK ==
    /\ sequence \in 2 .. 2 + 2 * MaxPublish
    /\ IsSnapshot(cell) /\ next \in Snapshots /\ published \in Snapshots
    /\ toWrite \subseteq Fields
    /\ rpc \in [Readers -> {"idle", "load", "copy", "ok", "timeout"}]
    /\ attempt \in [Readers -> 0 .. Attempts]
    /\ before \in [Readers -> 0 .. 2 + 2 * MaxPublish]
    /\ copy = [r \in Readers |-> copy[r]] /\ \A r \in Readers : IsSnapshot(copy[r])
    /\ toRead \in [Readers -> SUBSET Fields]
    /\ disturbed \in [Readers -> BOOLEAN]

\* The call as its caller sees it.
Phase(r) == IF rpc[r] \in {"load", "copy"} THEN "reading" ELSE rpc[r]

Result(r) == IF rpc[r] = "ok" THEN copy[r] ELSE Unset

Register ==
    INSTANCE SnapshotRegister WITH
        publishing <- Odd(sequence),
        phase <- [r \in Readers |-> Phase(r)],
        result <- [r \in Readers |-> Result(r)]

\* The lock implements the register: no read returns fields of two publications or an
\* outdated snapshot, none gives up without cause, and every read ends.
ImplementsRegister == Register!RegisterSpec
===============================================================================
