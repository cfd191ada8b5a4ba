-------------------------- MODULE SnapshotLockProofs --------------------------
(***************************************************************************)
(* The sequence lock implements the register, for any fields, snapshots,   *)
(* readers and number of attempts and publications: the safety part of     *)
(* ImplementsRegister.  (That every read ends is left to TLC.)             *)
(***************************************************************************)
EXTENDS SnapshotLock, TLAPS

\* The cell holds what the actor has written: the fields of next that are not to be
\* written any more and, under an even counter, the published snapshot.
WriterInv ==
    /\ \A f \in Fields \ toWrite : cell[f] = next[f]
    /\ ~Odd(sequence) => toWrite = {} /\ next = published

\* What a reader has copied since it found the counter as it still is.
Copied(r) ==
    rpc[r] = "copy" =>
        /\ ~Odd(before[r]) /\ before[r] <= sequence
        /\ before[r] = sequence => \A f \in Fields \ toRead[r] : copy[r][f] = cell[f]

\* So it is with every reader.
CopyInv == \A r \in Readers : Copied(r)

\* A reader that has lost an attempt, or is about to, has met a publication.
DisturbedInv ==
    \A r \in Readers :
        /\ rpc[r] = "idle" => attempt[r] = 0
        /\ rpc[r] \in {"load", "copy"} /\ Odd(sequence) => disturbed[r]
        /\ rpc[r] = "load" /\ attempt[r] # 0 => disturbed[r]
        /\ rpc[r] = "copy" /\ before[r] # sequence => disturbed[r]

\* The inductive invariant.
LockInv == WriterInv /\ CopyInv /\ DisturbedInv

----------------------------------------------------------------------------
\* Counting up by one changes the parity.
LEMMA Parity == \A n \in Nat : Odd(n + 1) <=> ~Odd(n)
BY DEF Odd

\* The initial snapshot and a reader's local structure are snapshots.
LEMMA SnapshotFacts ==
    /\ Unset \in Snapshots
    /\ \A s \in Snapshots : IsSnapshot(s)
BY FieldsAssumption DEF Unset, IsSnapshot

\* Copying one field of a snapshot into another structure.
LEMMA FieldCopied ==
    ASSUME NEW s, IsSnapshot(s), NEW t, IsSnapshot(t), NEW f \in Fields
    PROVE  IsSnapshot([s EXCEPT ![f] = t[f]])
BY DEF IsSnapshot

\* The initial state is well typed.
LEMMA TypeInit == Init => TypeOK
BY SnapshotFacts, AttemptsAssumption DEF Init, TypeOK

\* Every step of the actor or a reader keeps the types.
LEMMA TypeStep == TypeOK /\ [Next]_vars => TypeOK'
<1> SUFFICES ASSUME TypeOK, [Next]_vars PROVE TypeOK'
    OBVIOUS
<1> USE DEF writerVars, readerVars
<1>1. CASE PublishBegins
    <2>1. sequence' \in 2 .. 2 + 2 * MaxPublish
        BY <1>1, AttemptsAssumption DEF PublishBegins, OpenedSequence, TypeOK, Odd
    <2> QED BY <1>1, <2>1, SnapshotFacts DEF PublishBegins, TypeOK
<1>2. ASSUME NEW f \in Fields, PublishField(f) PROVE TypeOK'
    <2>1. IsSnapshot(cell')
        BY <1>2, SnapshotFacts, FieldCopied DEF PublishField, TypeOK
    <2> QED BY <1>2, <2>1 DEF PublishField, TypeOK
<1>3. CASE PublishEnds
    <2>1. sequence' \in 2 .. 2 + 2 * MaxPublish
        BY <1>3, AttemptsAssumption DEF PublishEnds, TypeOK, Odd
    <2> QED BY <1>3, <2>1 DEF PublishEnds, TypeOK
<1>4. ASSUME NEW r \in Readers, ReadBegins(r) \/ ReadTimesOut(r) \/ ReadVerifies(r)
      PROVE  TypeOK'
    BY <1>4 DEF ReadBegins, ReadTimesOut, ReadVerifies, TypeOK, Odd
<1>5. ASSUME NEW r \in Readers, ReadLoads(r) PROVE TypeOK'
    <2>1. attempt' \in [Readers -> 0 .. Attempts]
        BY <1>5, AttemptsAssumption DEF ReadLoads, TriesAgain, TypeOK
    <2>2. /\ rpc' \in [Readers -> {"idle", "load", "copy", "ok", "timeout"}]
          /\ before' \in [Readers -> 0 .. 2 + 2 * MaxPublish]
          /\ toRead' \in [Readers -> SUBSET Fields]
        BY <1>5, AttemptsAssumption DEF ReadLoads, TypeOK
    <2> QED BY <1>5, <2>1, <2>2 DEF ReadLoads, TypeOK
<1>6. ASSUME NEW r \in Readers, NEW f \in Fields, ReadField(r, f) PROVE TypeOK'
    <2>1. IsSnapshot([copy[r] EXCEPT ![f] = cell[f]])
        BY FieldCopied DEF TypeOK
    <2>2. copy' = [q \in Readers |-> copy'[q]] /\ \A q \in Readers : IsSnapshot(copy'[q])
        BY <1>6, <2>1 DEF ReadField, TypeOK
    <2>3. toRead' \in [Readers -> SUBSET Fields]
        BY <1>6 DEF ReadField, TypeOK
    <2> QED BY <1>6, <2>2, <2>3 DEF ReadField, TypeOK
<1>7. ASSUME NEW r \in Readers, ReadEnds(r) PROVE TypeOK'
    <2>1. copy' = [q \in Readers |-> copy'[q]] /\ \A q \in Readers : IsSnapshot(copy'[q])
        BY <1>7, SnapshotFacts DEF ReadEnds, TypeOK
    <2> QED BY <1>7, <2>1, AttemptsAssumption DEF ReadEnds, TypeOK
<1>8. CASE UNCHANGED vars
    BY <1>8 DEF vars, TypeOK
<1> QED BY <1>1, <1>2, <1>3, <1>4, <1>5, <1>6, <1>7, <1>8 DEF Next, Publish, ReadStep

----------------------------------------------------------------------------
\* The initial state satisfies the invariant.
LEMMA LockInit == Init => LockInv
BY DEF Init, LockInv, WriterInv, CopyInv, Copied, DisturbedInv, Odd

\* Every step preserves the invariant.
LEMMA LockStep == TypeOK /\ LockInv /\ [Next]_vars => LockInv'
<1> SUFFICES ASSUME TypeOK, LockInv, [Next]_vars PROVE LockInv'
    OBVIOUS
<1> USE DEF writerVars, readerVars
<1>s. sequence \in Nat /\ \A r \in Readers : before[r] \in Nat
    BY AttemptsAssumption DEF TypeOK
<1>i. WriterInv /\ CopyInv /\ DisturbedInv
    BY DEF LockInv
<1>1. CASE PublishBegins
    <2>1. sequence' = sequence + 1 /\ Odd(sequence') /\ sequence' # sequence
        BY <1>1, <1>s, Parity DEF PublishBegins, OpenedSequence
    <2>2. WriterInv'
        BY <1>1, <2>1 DEF PublishBegins, WriterInv
    <2>3. CopyInv'
        BY <1>1, <1>i, <1>s, <2>1 DEF PublishBegins, CopyInv, Copied
    <2>4. DisturbedInv'
        BY <1>1, <1>i DEF PublishBegins, DisturbedInv
    <2> QED BY <2>2, <2>3, <2>4 DEF LockInv
<1>2. ASSUME NEW f \in Fields, PublishField(f) PROVE LockInv'
    <2>1. Odd(sequence)
        BY <1>2, <1>i DEF PublishField, WriterInv
    <2>2. WriterInv'
        BY <1>2, <1>i, <2>1 DEF PublishField, WriterInv, TypeOK, IsSnapshot
    <2>3. CopyInv'
        BY <1>2, <1>i, <2>1 DEF PublishField, CopyInv, Copied
    <2>4. DisturbedInv'
        BY <1>2, <1>i DEF PublishField, DisturbedInv
    <2> QED BY <2>2, <2>3, <2>4 DEF LockInv
<1>3. CASE PublishEnds
    <2>1. sequence' = sequence + 1 /\ Odd(sequence) /\ ~Odd(sequence')
        BY <1>3, <1>s, Parity DEF PublishEnds
    <2>2. WriterInv'
        BY <1>3, <1>i DEF PublishEnds, WriterInv
    <2>3. \A r \in Readers : rpc[r] \in {"load", "copy"} => disturbed[r]
        BY <1>i, <2>1 DEF DisturbedInv
    <2>4. \A r \in Readers : rpc[r] = "copy" => before[r] # sequence'
        BY <1>i, <1>s, <2>1, <1>3 DEF CopyInv, Copied
    <2>5. CopyInv'
        BY <1>3, <1>i, <1>s, <2>1, <2>4 DEF PublishEnds, CopyInv, Copied
    <2>6. DisturbedInv'
        BY <1>3, <1>i, <2>3 DEF PublishEnds, DisturbedInv
    <2> QED BY <2>2, <2>5, <2>6 DEF LockInv
<1>4. ASSUME NEW r \in Readers,
             \/ ReadBegins(r) \/ ReadLoads(r) \/ ReadVerifies(r) \/ ReadTimesOut(r)
             \/ ReadEnds(r) \/ \E f \in Fields : ReadField(r, f)
      PROVE  LockInv'
    <2>1. UNCHANGED writerVars
        BY <1>4 DEF ReadBegins, ReadLoads, ReadVerifies, ReadTimesOut, ReadEnds, ReadField
    <2>2. WriterInv'
        BY <1>i, <2>1 DEF WriterInv
    <2>3. \A q \in Readers \ {r} :
            /\ rpc'[q] = rpc[q] /\ attempt'[q] = attempt[q] /\ before'[q] = before[q]
            /\ copy'[q] = copy[q] /\ toRead'[q] = toRead[q] /\ disturbed'[q] = disturbed[q]
        BY <1>4 DEF ReadBegins, ReadLoads, ReadVerifies, ReadTimesOut, ReadEnds, ReadField,
                    TypeOK
    <2>4. CASE ReadBegins(r)
        <3>1. CopyInv'
            BY <1>i, <2>1, <2>3, <2>4 DEF ReadBegins, CopyInv, Copied, TypeOK
        <3>2. DisturbedInv'
            BY <1>i, <2>1, <2>3, <2>4 DEF ReadBegins, DisturbedInv, TypeOK
        <3> QED BY <2>2, <3>1, <3>2 DEF LockInv
    <2>5. CASE ReadLoads(r)
        <3>1. CopyInv'
            BY <1>i, <2>1, <2>3, <2>5 DEF ReadLoads, CopyInv, Copied, TypeOK
        <3>2. DisturbedInv'
            BY <1>i, <2>1, <2>3, <2>5 DEF ReadLoads, DisturbedInv, TypeOK
        <3> QED BY <2>2, <3>1, <3>2 DEF LockInv
    <2>6. CASE \E f \in Fields : ReadField(r, f)
        <3>1. PICK f \in Fields : ReadField(r, f)
            BY <2>6
        <3>2. CopyInv'
            <4>1. copy'[r] = [copy[r] EXCEPT ![f] = cell[f]] /\ toRead'[r] = toRead[r] \ {f}
                BY <3>1 DEF ReadField, TypeOK
            <4>2. \A g \in Fields : copy'[r][g] = IF g = f THEN cell[f] ELSE copy[r][g]
                BY <4>1 DEF TypeOK, IsSnapshot
            <4>3. UNCHANGED <<rpc, before>>
                BY <3>1 DEF ReadField
            <4>4. Copied(r)'
                BY <1>i, <2>1, <4>1, <4>2, <4>3 DEF CopyInv, Copied
            <4>5. \A q \in Readers \ {r} : Copied(q)'
                BY <1>i, <2>1, <2>3 DEF CopyInv, Copied
            <4> QED BY <4>4, <4>5 DEF CopyInv
        <3>3. DisturbedInv'
            BY <1>i, <2>1, <3>1 DEF ReadField, DisturbedInv
        <3> QED BY <2>2, <3>2, <3>3 DEF LockInv
    <2>7. CASE ReadVerifies(r)
        <3>1. CopyInv'
            BY <1>i, <2>1, <2>3, <2>7 DEF ReadVerifies, CopyInv, Copied, TypeOK
        <3>2. DisturbedInv'
            BY <1>i, <2>1, <2>3, <2>7 DEF ReadVerifies, StillTheSame, DisturbedInv, TypeOK
        <3> QED BY <2>2, <3>1, <3>2 DEF LockInv
    <2>8. CASE ReadTimesOut(r) \/ ReadEnds(r)
        <3>1. CopyInv'
            BY <1>i, <2>1, <2>3, <2>8 DEF ReadTimesOut, ReadEnds, CopyInv, Copied, TypeOK
        <3>2. DisturbedInv'
            BY <1>i, <2>1, <2>3, <2>8 DEF ReadTimesOut, ReadEnds, DisturbedInv, TypeOK
        <3> QED BY <2>2, <3>1, <3>2 DEF LockInv
    <2> QED BY <1>4, <2>4, <2>5, <2>6, <2>7, <2>8
<1>5. CASE UNCHANGED vars
    BY <1>5, <1>i DEF vars, LockInv, WriterInv, CopyInv, Copied, DisturbedInv
<1> QED BY <1>1, <1>2, <1>3, <1>4, <1>5 DEF Next, Publish, ReadStep

\* The invariant of the lock holds in every reachable state.
THEOREM LockInvariant == Spec => [](TypeOK /\ LockInv)
<1>1. Init => TypeOK /\ LockInv
    BY TypeInit, LockInit
<1>2. (TypeOK /\ LockInv) /\ [Next]_vars => (TypeOK /\ LockInv)'
    BY TypeStep, LockStep
<1> QED BY <1>1, <1>2, PTL DEF Spec

----------------------------------------------------------------------------
(* The refinement.                                                         *)

\* What SnapshotRegister sees of the readers: where they are, ...
Phases  == [r \in Readers |-> Phase(r)]

\* ... and what they return.
Results == [r \in Readers |-> Result(r)]

\* A step that leaves the program counters alone, and the copies of finished readers,
\* is not seen by the callers.
LEMMA ReadersUnseen ==
    ASSUME rpc' = rpc, \A r \in Readers : rpc[r] = "ok" => copy'[r] = copy[r]
    PROVE  Phases' = Phases /\ Results' = Results
BY DEF Phases, Results, Phase, Result

\* The initial states are those of the register.
LEMMA RefinesInit == Init => Register!RegisterInit
<1> SUFFICES ASSUME Init PROVE Register!RegisterInit
    OBVIOUS
<1>1. Register!Unset = Unset
    BY DEF Register!Unset, Unset
<1>2. ~Odd(sequence)
    BY DEF Init, Odd
<1>3. Phases = [r \in Readers |-> "idle"] /\ Results = [r \in Readers |-> Unset]
    BY DEF Init, Phases, Results, Phase, Result
<1> QED BY <1>1, <1>2, <1>3 DEF Init, Register!RegisterInit, Phases, Results, Odd

\* Every step of the lock is a step of the register or is not seen.
LEMMA RefinesStep ==
    TypeOK /\ LockInv /\ [Next]_vars => [Register!RegisterNext]_Register!registerVars
<1> SUFFICES ASSUME TypeOK, LockInv, [Next]_vars
             PROVE  [Register!RegisterNext]_Register!registerVars
    OBVIOUS
<1> USE DEF writerVars, readerVars
<1>s. sequence \in Nat
    BY AttemptsAssumption DEF TypeOK
<1>i. WriterInv /\ CopyInv /\ DisturbedInv
    BY DEF LockInv
<1>u. Register!Unset = Unset
    BY DEF Register!Unset, Unset
<1>1. CASE PublishBegins
    <2>1. ~Odd(sequence) /\ Odd(sequence')
        BY <1>1, <1>s, Parity DEF PublishBegins, OpenedSequence
    <2>2. Phases' = Phases /\ Results' = Results
        BY <1>1, ReadersUnseen DEF PublishBegins
    <2>3. disturbed' = [r \in Readers |-> disturbed[r] \/ Phases[r] = "reading"]
        BY <1>1 DEF PublishBegins, Phases, Phase, TypeOK
    <2>4. Register!PublishStarts
        BY <1>1, <2>1, <2>2, <2>3
        DEF PublishBegins, Register!PublishStarts, Phases, Results, Odd
    <2> QED BY <2>4 DEF Register!RegisterNext
<1>2. ASSUME NEW f \in Fields, PublishField(f)
      PROVE  UNCHANGED Register!registerVars
    <2>1. Phases' = Phases /\ Results' = Results
        BY <1>2, ReadersUnseen DEF PublishField
    <2> QED BY <1>2, <2>1 DEF PublishField, Register!registerVars, Phases, Results, Odd
<1>3. CASE PublishEnds
    <2>1. Odd(sequence) /\ ~Odd(sequence')
        BY <1>3, <1>s, Parity DEF PublishEnds
    <2>2. Phases' = Phases /\ Results' = Results
        BY <1>3, ReadersUnseen DEF PublishEnds
    <2>3. Register!PublishEnds(next)
        BY <1>3, <2>1, <2>2
        DEF PublishEnds, Register!PublishEnds, Phases, Results, Odd
    <2> QED BY <2>3 DEF Register!RegisterNext, TypeOK
<1>4. ASSUME NEW r \in Readers, ReadBegins(r)
      PROVE  Register!ReadStarts(r)
    <2>1. /\ Phases' = [Phases EXCEPT ![r] = "reading"]
          /\ Results' = [Results EXCEPT ![r] = Unset]
        BY <1>4 DEF ReadBegins, Phases, Phase, Results, Result, TypeOK
    <2>2. Results' = Results /\ Phases[r] = "idle"
        BY <1>4, <2>1 DEF ReadBegins, Results, Result, Phases, Phase
    <2> QED BY <1>4, <2>1, <2>2 DEF ReadBegins, Register!ReadStarts, Phases, Results, Odd
<1>5. ASSUME NEW r \in Readers, ReadLoads(r) \/ \E f \in Fields : ReadField(r, f)
      PROVE  UNCHANGED Register!registerVars
    <2>1. Phases' = Phases
        BY <1>5 DEF ReadLoads, ReadField, Phases, Phase, TypeOK
    <2>2. Results' = Results
        BY <1>5 DEF ReadLoads, ReadField, Results, Result, TypeOK
    <2>3. UNCHANGED <<published, sequence, disturbed>>
        BY <1>5 DEF ReadLoads, ReadField
    <2> QED BY <2>1, <2>2, <2>3 DEF Register!registerVars, Phases, Results, Odd
<1>6. ASSUME NEW r \in Readers, ReadVerifies(r)
      PROVE  Register!ReadReturns(r) \/ UNCHANGED Register!registerVars
    <2>1. CASE StillTheSame(r)
        <3>1. /\ Phases' = [Phases EXCEPT ![r] = "ok"]
              /\ Results' = [Results EXCEPT ![r] = copy[r]]
            BY <1>6, <2>1 DEF ReadVerifies, Phases, Phase, Results, Result, TypeOK
        <3>2. \A f \in Fields : copy[r][f] = published[f]
            BY <1>6, <1>i, <2>1 DEF ReadVerifies, StillTheSame, CopyInv, Copied, WriterInv
        <3>3. copy[r] = published
            BY <3>2, SnapshotFacts DEF TypeOK, IsSnapshot
        <3>4. Phases[r] = "reading" /\ ~Odd(sequence)
            BY <1>6, <2>1 DEF ReadVerifies, StillTheSame, Phases, Phase
        <3> QED BY <1>6, <3>1, <3>3, <3>4
                DEF ReadVerifies, Register!ReadReturns, Phases, Results, Odd
    <2>2. CASE ~StillTheSame(r)
        <3>1. Phases' = Phases /\ Results' = Results
            BY <1>6, <2>2 DEF ReadVerifies, Phases, Phase, Results, Result, TypeOK
        <3> QED BY <1>6, <3>1 DEF ReadVerifies, Register!registerVars, Phases, Results, Odd
    <2> QED BY <2>1, <2>2
<1>7. ASSUME NEW r \in Readers, ReadTimesOut(r)
      PROVE  Register!ReadGivesUp(r)
    <2>1. /\ Phases' = [Phases EXCEPT ![r] = "timeout"]
          /\ Results' = [Results EXCEPT ![r] = Unset]
        BY <1>7 DEF ReadTimesOut, Phases, Phase, Results, Result, TypeOK
    <2>2. Results' = Results /\ Phases[r] = "reading"
        BY <1>7, <2>1 DEF ReadTimesOut, Results, Result, Phases, Phase
    <2>3. disturbed[r]
        BY <1>7, <1>i, AttemptsAssumption DEF ReadTimesOut, TriesAgain, DisturbedInv, TypeOK
    <2> QED BY <1>7, <2>1, <2>2, <2>3
            DEF ReadTimesOut, Register!ReadGivesUp, Phases, Results, Odd
<1>8. ASSUME NEW r \in Readers, ReadEnds(r)
      PROVE  Register!ReadDone(r)
    <2>1. /\ Phases' = [Phases EXCEPT ![r] = "idle"]
          /\ Results' = [Results EXCEPT ![r] = Unset]
        BY <1>8 DEF ReadEnds, Phases, Phase, Results, Result, TypeOK
    <2>2. Phases[r] \in {"ok", "timeout"}
        BY <1>8 DEF ReadEnds, Phases, Phase
    <2> QED BY <1>8, <1>u, <2>1, <2>2
            DEF ReadEnds, Register!ReadDone, Phases, Results, Odd
<1>9. CASE UNCHANGED vars
    <2>1. Phases' = Phases /\ Results' = Results
        BY <1>9, ReadersUnseen DEF vars
    <2> QED BY <1>9, <2>1 DEF vars, Register!registerVars, Phases, Results, Odd
<1> QED BY <1>1, <1>2, <1>3, <1>4, <1>5, <1>6, <1>7, <1>8, <1>9
        DEF Next, Publish, ReadStep, Register!RegisterNext

\* publish_snapshot and fan_control_get_snapshot are a register: no read returns fields
\* of two publications or an outdated snapshot, and none gives up without a cause.
THEOREM LockRefinesRegister == Spec => Register!RegisterSafety
BY LockInvariant, RefinesInit, RefinesStep, PTL DEF Spec, Register!RegisterSafety
===============================================================================
