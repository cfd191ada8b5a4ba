------------------------ MODULE FirmwareUpdateProofs ------------------------
(***************************************************************************)
(* Proofs about FirmwareUpdate: the slot that boots next is verified at    *)
(* every instant, no buffer is lost, and no failure leaves the device      *)
(* busy or the fan locked.                                                 *)
(***************************************************************************)
EXTENDS FirmwareUpdate, TLAPS

----------------------------------------------------------------------------
(* The inductive invariants.                                               *)

\* The command that a task waits for at each of its blocking points.
HttpCommands(at) ==
    CASE at = "writing"   -> {"BEGIN", "WRITE"}
      [] at = "finishing" -> {"FINISH"}
      [] at = "failing"   -> {"ABORT"}
      [] at = "selecting" -> {"SELECT"}
      [] OTHER            -> {}

\* The commands that app_main submits at a place.
MainCommands(at) ==
    CASE at = "confirm"               -> {"CONFIRM"}
      [] at \in {"rollback", "give_up"} -> {"ROLLBACK"}
      [] OTHER                        -> {}

\* A task waits for one command: it is submitted, or its answer is there.
WaitsFor(task, commands) ==
    \/ command[task] \in commands /\ reply[task] = "none"
    \/ command[task] = "none" /\ commands # {} /\ reply[task] # "none"
    \/ command[task] = "none" /\ commands = {} /\ reply[task] = "none"

\* The steps that a command takes in the worker.
StepsOf(type) ==
    CASE type = "BEGIN"    -> {"quiesce", "header", "erase", "begin", "write"}
      [] type = "WRITE"    -> {"write"}
      [] type = "FINISH"   -> {"finish", "setboot"}
      [] type = "ABORT"    -> {"fail"}
      [] type = "SELECT"   -> {"quiesce", "select"}
      [] type = "CONFIRM"  -> {"quiesce", "confirm"}
      [] type = "ROLLBACK" -> {"quiesce", "rollback"}
      [] OTHER             -> {}

\* Every task waits for its own command, the worker executes one that waits, and it
\* rests while the handler has an answer to read.
ProtocolInv ==
    /\ WaitsFor("http", HttpCommands(hpc))
    /\ WaitsFor("main", MainCommands(mpc))
    /\ wpc \in {"start", "idle"} => current = "none"
    /\ wpc \notin {"start", "idle"} => current \in Tasks /\ wpc \in StepsOf(command[current])
    /\ HttpRuns => wpc = "idle"

\* The two buffers are in the free queue, with the handler while it receives, or with
\* the command that carries one.
BufferInv ==
    /\ "handler" \in lent <=> hpc \in {"preflight", "receive"}
    /\ "command" \in lent <=> command["http"] \in {"BEGIN", "WRITE"}
    /\ free = 2 - (IF "handler" \in lent THEN 1 ELSE 0) - (IF "command" \in lent THEN 1 ELSE 0)
    /\ hpc = "preflight" => received = 0
    /\ hpc = "receive" => received < Chunks

\* An accepted image leaves the worker busy, and the handler without a request, until
\* the restart; only a busy worker writes or selects, and it selects a verified image.
SlotInv ==
    /\ bootSlot # running =>
        /\ workerBusy /\ ~writing /\ command["http"] = "none"
        /\ \/ hpc \in {"idle", "quiescing", "saving"}
           \/ hpc \in {"finishing", "selecting"} /\ reply["http"] = "OK"
    /\ writing \/ wpc \in {"header", "erase", "begin", "setboot", "select"} => workerBusy
    /\ wpc = "setboot" => ~writing /\ image[Other(running)] = "good"
    /\ image[bootSlot] = "good" /\ image[running] = "good"

\* Why a flag that answers 409 is set.
BusyInv ==
    /\ requestActive =>
        \/ bootSlot # running
        \/ hpc \in {"preflight", "receive", "writing", "finishing", "failing", "selecting"}
    /\ workerBusy =>
        \/ bootSlot # running
        \/ hpc \in {"receive", "writing", "finishing", "failing", "selecting"}
    /\ hpc = "failing" /\ reply["http"] # "none" => ~workerBusy
    /\ hpc = "selecting" /\ reply["http"] = "NOT_FOUND" => ~workerBusy
    /\ hpc \in {"finishing", "selecting"} /\ reply["http"] = "OK" => bootSlot # running

\* Confirmed: the answer waits for app_main to read it.
Confirmed == mpc = "confirm" /\ reply["main"] = "OK"

\* A command of app_main belongs to a probation, and every lock has a reason.
LockInv ==
    /\ pending => otaState[running] = "PENDING" \/ Confirmed
    /\ mpc \in {"rollback", "confirm", "give_up"} => pending
    /\ maintenance => \/ hpc # "idle" \/ bootSlot # running \/ restarting
                      \/ current = "main"
                      \/ pending /\ ~Confirmed

\* An upload holds the fan from the first buffer to the last one.
UploadInv ==
    /\ hpc = "receive" \/ command["http"] = "WRITE" => writing
    /\ command["http"] = "FINISH" => writing \/ wpc = "setboot"
    /\ hpc = "writing" /\ reply["http"] = "OK" => writing
    /\ writing => /\ otaState[running] # "PENDING" /\ maintenance /\ ~fanOn
                  /\ ~(hpc = "failing" /\ reply["http"] # "none")
    /\ writing /\ command["http"] = "BEGIN" => wpc = "write" /\ current = "http"
    /\ wpc = "quiesce" => maintenance
    /\ quiesced => ~fanOn
    /\ wpc \in {"header", "erase", "begin", "write", "finish", "setboot", "select", "confirm",
                "rollback"} => maintenance /\ ~fanOn
    /\ hpc \notin {"selecting", "quiescing", "saving"}

----------------------------------------------------------------------------
(* Types.                                                                  *)

\* The commands of ota_worker.c, ...
Commands == {"none", "BEGIN", "WRITE", "FINISH", "ABORT", "SELECT", "CONFIRM", "ROLLBACK"}

\* ... its answers, ...
Replies  == {"none", "OK", "TIMEOUT", "NOT_FOUND", "INVALID", "FAIL"}

\* ... and the states of a slot.
States   == {"UNDEFINED", "NEW", "PENDING", "VALID", "INVALID", "ABORTED"}

\* A restart starts over in RAM, with an image that the bootloader has chosen.
Reboot ==
    /\ RamAtBoot /\ UNCHANGED image
    /\ \E os \in [Slots -> States], slot \in Slots : Bootloader(os, slot)

\* The protocol, command by command.
LEMMA CommandFacts ==
    ASSUME TypeOK, ProtocolInv
    PROVE  /\ command["http"] \in {"none", "BEGIN", "WRITE", "FINISH", "ABORT", "SELECT"}
           /\ command["http"] \in {"BEGIN", "WRITE"} => hpc = "writing"
           /\ command["http"] = "FINISH" => hpc = "finishing"
           /\ command["http"] = "ABORT" => hpc = "failing"
           /\ command["http"] = "SELECT" => hpc = "selecting"
           /\ command["main"] \in {"none", "CONFIRM", "ROLLBACK"}
           /\ command["main"] = "CONFIRM" => mpc = "confirm"
           /\ command["main"] = "ROLLBACK" => mpc \in {"rollback", "give_up"}
           /\ \A task \in Tasks : command[task] # "none" => reply[task] = "none"
           /\ hpc \in {"idle", "preflight", "receive", "quiescing", "saving"} =>
                    command["http"] = "none" /\ reply["http"] = "none"
           /\ mpc \in {"boot", "loop"} => command["main"] = "none" /\ reply["main"] = "none"
BY DEF ProtocolInv, WaitsFor, HttpCommands, MainCommands, TypeOK, Tasks

\* What the worker executes at each of its steps.
LEMMA WorkerFacts ==
    ASSUME TypeOK, ProtocolInv
    PROVE  /\ wpc \in {"header", "erase", "begin"} => current = "http" /\ command["http"] = "BEGIN"
           /\ wpc = "write" => current = "http" /\ command["http"] \in {"BEGIN", "WRITE"}
           /\ wpc \in {"finish", "setboot"} => current = "http" /\ command["http"] = "FINISH"
           /\ wpc = "fail" => current = "http" /\ command["http"] = "ABORT"
           /\ wpc = "select" => current = "http" /\ command["http"] = "SELECT"
           /\ wpc = "confirm" => current = "main" /\ command["main"] = "CONFIRM"
           /\ wpc = "rollback" => current = "main" /\ command["main"] = "ROLLBACK"
           /\ wpc = "quiesce" => /\ current \in Tasks
                                 /\ command[current] \in {"BEGIN", "SELECT", "CONFIRM", "ROLLBACK"}
           /\ wpc \in {"start", "idle"} <=> current = "none"
BY CommandFacts DEF ProtocolInv, StepsOf, TypeOK, Tasks

\* The bootloader runs a verified image, if there is one, and knows a new one.
LEMMA BootFacts ==
    ASSUME NEW os \in [Slots -> States], NEW slot \in Slots, Bootloader(os, slot)
    PROVE  /\ running' \in Slots /\ bootSlot' = running' /\ otaState' \in [Slots -> States]
           /\ pending' \in BOOLEAN
           /\ pending' => otaState'[running'] = "PENDING"
           /\ image[0] = "good" \/ image[1] = "good" => image[running'] = "good"
<1> DEFINE aborted == [s \in Slots |-> IF os[s] = "PENDING" THEN "ABORTED" ELSE os[s]]
<1>1. aborted \in [Slots -> States]
    BY DEF States
<1> HIDE DEF aborted
<1>2. PICK into \in Slots :
        /\ BootInto(into, aborted)
        /\ image[0] = "good" \/ image[1] = "good" => image[into] = "good"
    <2>1. CASE Selectable(slot, image, aborted)
        BY <2>1 DEF Bootloader, aborted, Selectable
    <2>2. CASE ~Selectable(slot, image, aborted) /\ Selectable(Other(slot), image, aborted)
        BY <2>2 DEF Bootloader, aborted, Selectable, Other, Slots
    <2>3. CASE ~Selectable(slot, image, aborted) /\ ~Selectable(Other(slot), image, aborted)
        BY <2>3 DEF Bootloader, aborted, Slots
    <2> QED BY <2>1, <2>2, <2>3
<1> QED BY <1>1, <1>2 DEF BootInto, States

\* The steps that restart the chip are restarts in this sense.
LEMMA Restarts ==
    ASSUME TypeOK, RollbackReboots \/ PowerLoss \/ PlannedRestart
    PROVE  Reboot
<1>1. otaState \in [Slots -> States] /\ bootSlot \in Slots
    BY DEF TypeOK, States
<1>2. [otaState EXCEPT ![bootSlot] = "INVALID"] \in [Slots -> States]
    BY <1>1 DEF States
<1> QED BY <1>1, <1>2 DEF RollbackReboots, PowerLoss, PlannedRestart, Reboot

\* The worker's answer: the task has it, and a buffer that the command carried is free.
LEMMA AnswerFacts ==
    ASSUME TypeOK, ProtocolInv, BufferInv, current \in Tasks, command[current] # "none",
           NEW result \in Replies \ {"none"}, Answer(result)
    PROVE  /\ reply' \in [Tasks -> Replies] /\ command' \in [Tasks -> Commands]
           /\ reply'[current] = result /\ command'[current] = "none"
           /\ \A task \in Tasks \ {current} :
                    reply'[task] = reply[task] /\ command'[task] = command[task]
           /\ current' = "none" /\ wpc' = "idle"
           /\ free' \in 0 .. 2 /\ lent' \subseteq {"handler", "command"}
           /\ "handler" \in lent' <=> "handler" \in lent
           /\ "command" \in lent' <=> command'["http"] \in {"BEGIN", "WRITE"}
           /\ free' = 2 - (IF "handler" \in lent' THEN 1 ELSE 0)
                        - (IF "command" \in lent' THEN 1 ELSE 0)
<1>1. /\ reply \in [Tasks -> Replies] /\ command \in [Tasks -> Commands]
      /\ free \in 0 .. 2 /\ lent \subseteq {"handler", "command"}
    BY DEF TypeOK, Replies, Commands
<1>2. /\ reply' = [reply EXCEPT ![current] = result]
      /\ command' = [command EXCEPT ![current] = "none"]
      /\ current' = "none" /\ wpc' = "idle" /\ ReleaseCommandBuffer
    BY DEF Answer
<1>3. reply' \in [Tasks -> Replies] /\ command' \in [Tasks -> Commands]
    BY <1>1, <1>2 DEF Replies, Commands
<1>4. CASE command[current] \in {"BEGIN", "WRITE"}
    <2>1. current = "http" /\ "command" \in lent
        BY <1>4, CommandFacts DEF Tasks, BufferInv
    <2>2. free' = free + 1 /\ lent' = lent \ {"command"}
        BY <1>2, <1>4 DEF ReleaseCommandBuffer
    <2> QED BY <1>1, <1>2, <1>3, <2>1, <2>2 DEF BufferInv
<1>5. CASE command[current] \notin {"BEGIN", "WRITE"}
    <2>1. UNCHANGED <<free, lent>>
        BY <1>2, <1>5 DEF ReleaseCommandBuffer
    <2>2. command'["http"] \in {"BEGIN", "WRITE"} <=> command["http"] \in {"BEGIN", "WRITE"}
        BY <1>1, <1>2, <1>5 DEF Tasks
    <2> QED BY <1>1, <1>2, <1>3, <2>1, <2>2 DEF BufferInv
<1> QED BY <1>4, <1>5

\* A command that a task submits, and an answer that it reads, have their types.
LEMMA SubmitFacts ==
    ASSUME TypeOK, NEW task \in Tasks, NEW type \in Commands
    PROVE  /\ SubmitTo(task, type) =>
                    /\ command' \in [Tasks -> Commands] /\ command'[task] = type
                    /\ \A other \in Tasks \ {task} : command'[other] = command[other]
           /\ reply' = [reply EXCEPT ![task] = "none"] =>
                    /\ reply' \in [Tasks -> Replies] /\ reply'[task] = "none"
                    /\ \A other \in Tasks \ {task} : reply'[other] = reply[other]
BY DEF TypeOK, SubmitTo, Commands, Replies

----------------------------------------------------------------------------
(* Types, the protocol between the tasks, and the buffers.                 *)

\* What the slots, the flags and the lock rest on.
CoreInv == TypeOK /\ ProtocolInv /\ BufferInv

\* The initial state satisfies the core of the invariant.
LEMMA CoreInit == Init => CoreInv
<1> SUFFICES ASSUME Init PROVE CoreInv
    OBVIOUS
<1>1. TypeOK
    <2>1. /\ image \in [Slots -> {"good", "erased", "partial", "bad"}]
          /\ otaState \in [Slots -> {"UNDEFINED", "NEW", "PENDING", "VALID", "INVALID", "ABORTED"}]
        BY DEF Init
    <2>2. 0 \in 0 .. Chunks /\ 0 \in Slots /\ 2 \in 0 .. 2
        BY ChunksAssumption DEF Slots
    <2>3. /\ flashErrors \in 0 .. MaxFlashErrors /\ allocFailures \in 0 .. MaxAllocFailures
          /\ powerLosses \in 0 .. MaxPowerLosses
        BY LimitsAssumption DEF Init
    <2> QED BY <2>1, <2>2, <2>3, ZenonT(30) DEF Init, TypeOK, Uploads
<1>2. ProtocolInv
    BY DEF Init, ProtocolInv, WaitsFor, HttpCommands, MainCommands, HttpRuns, Tasks
<1>3. BufferInv
    BY DEF Init, BufferInv, Tasks
<1> QED BY <1>1, <1>2, <1>3 DEF CoreInv

\* So does every restart.
LEMMA CoreReboot ==
    ASSUME TypeOK, Reboot, fanFault' \in BOOLEAN, flashErrors' \in 0 .. MaxFlashErrors,
           allocFailures' \in 0 .. MaxAllocFailures, powerLosses' \in 0 .. MaxPowerLosses
    PROVE  CoreInv'
<1>1. /\ running' \in Slots /\ bootSlot' \in Slots /\ otaState' \in [Slots -> States]
      /\ pending' \in BOOLEAN /\ RamAtBoot /\ image' = image
    BY BootFacts DEF Reboot
<1>2. TypeOK'
    <2>1. 0 \in 0 .. Chunks /\ 2 \in 0 .. 2
        BY ChunksAssumption
    <2>2. otaState' \in [Slots -> {"UNDEFINED", "NEW", "PENDING", "VALID", "INVALID", "ABORTED"}]
        BY <1>1 DEF States
    <2> QED BY <1>1, <2>1, <2>2, ZenonT(30) DEF RamAtBoot, TypeOK, Uploads
<1>3. ProtocolInv'
    BY <1>1
    DEF RamAtBoot, ProtocolInv, WaitsFor, HttpCommands, MainCommands, HttpRuns, Tasks
<1>4. BufferInv'
    BY <1>1 DEF RamAtBoot, BufferInv, Tasks
<1> QED BY <1>2, <1>3, <1>4 DEF CoreInv

\* What a step of the worker does to what the tasks share with it: it goes on, takes a
\* command, or answers; or it restarts the chip.
LEMMA WorkerShape ==
    ASSUME CoreInv, WorkerStep
    PROVE  \/ RollbackReboots
           \/ /\ UNCHANGED <<httpVars, mainVars, running, powerLosses>>
              /\ ~HttpRuns
              /\ \/ RefreshValidationCache
                 \/ \E task \in Tasks : TakeCommand(task)
                 \/ WorkerQuiesced
                 \/ /\ UNCHANGED <<current, command, reply, free, lent>>
                    /\ <<wpc, wpc'>> \in {<<"header", "erase">>, <<"erase", "begin">>,
                                          <<"begin", "write">>, <<"finish", "setboot">>}
                 \/ \E result \in Replies \ {"none"} :
                        /\ Answer(result)
                        /\ current \in Tasks /\ command[current] # "none"
<1> USE DEF flashVars, workerVars, httpVars, mainVars, fanVars, boundVars
<1>t. CoreInv => TypeOK /\ ProtocolInv
    BY DEF CoreInv
<1>1. CASE RefreshValidationCache \/ (\E task \in Tasks : TakeCommand(task)) \/ WorkerQuiesced
    BY <1>1 DEF RefreshValidationCache, TakeCommand, WorkerQuiesced
<1>2. CASE WorkerQuiesceTimeout \/ Abort
    BY <1>2, <1>t, WorkerFacts
    DEF WorkerQuiesceTimeout, Abort, FailMaintenance, Replies, Tasks
<1>3. CASE BeginCheck \/ BeginErase \/ BeginHandle
    BY <1>3, <1>t, WorkerFacts
    DEF BeginCheck, BeginErase, BeginHandle, FailMaintenance, Replies, Tasks
<1>4. CASE Write \/ Finish \/ FinishSetsBoot
    BY <1>4, <1>t, WorkerFacts
    DEF Write, Finish, FinishSetsBoot, FailMaintenance, Replies, Tasks
<1>5. CASE SelectPrevious \/ Confirm \/ RollbackReturns
    BY <1>5, <1>t, WorkerFacts
    DEF SelectPrevious, Confirm, RollbackReturns, FailMaintenance, Replies, Tasks
<1> QED BY <1>1, <1>2, <1>3, <1>4, <1>5 DEF WorkerStep

\* The types of what a step of the worker does to the flash, the fan and the bounds.
LEMMA WorkerTypes ==
    ASSUME CoreInv, WorkerStep, ~RollbackReboots
    PROVE  /\ image' \in [Slots -> {"good", "erased", "partial", "bad"}]
           /\ otaState' \in [Slots -> States]
           /\ bootSlot' \in Slots /\ workerBusy' \in BOOLEAN /\ writing' \in BOOLEAN
           /\ written' \in 0 .. Chunks /\ validation' \in {"pending", "valid", "invalid"}
           /\ maintenance' \in BOOLEAN /\ quiesced' \in BOOLEAN /\ fanOn' \in BOOLEAN
           /\ fanFault' \in BOOLEAN
           /\ flashErrors' \in 0 .. MaxFlashErrors /\ allocFailures' \in 0 .. MaxAllocFailures
<1> USE DEF flashVars, workerVars, httpVars, mainVars, fanVars, boundVars
<1>t. TypeOK
    BY DEF CoreInv
<1>s. /\ image \in [Slots -> {"good", "erased", "partial", "bad"}]
      /\ otaState \in [Slots -> States] /\ Other(running) \in Slots
      /\ bootSlot \in Slots /\ workerBusy \in BOOLEAN /\ writing \in BOOLEAN
      /\ written \in 0 .. Chunks /\ validation \in {"pending", "valid", "invalid"}
      /\ maintenance \in BOOLEAN /\ quiesced \in BOOLEAN /\ fanOn \in BOOLEAN
      /\ fanFault \in BOOLEAN /\ Chunks \in Nat
      /\ flashErrors \in 0 .. MaxFlashErrors /\ MaxFlashErrors \in Nat
      /\ allocFailures \in 0 .. MaxAllocFailures /\ MaxAllocFailures \in Nat
    BY <1>t, LimitsAssumption, ChunksAssumption DEF TypeOK, States, Other, Slots
<1>e. /\ FlashError => flashErrors' \in 0 .. MaxFlashErrors
      /\ AllocFailure => allocFailures' \in 0 .. MaxAllocFailures
    BY <1>s DEF FlashError, AllocFailure
<1>f. \A result : FailMaintenance(result) =>
            /\ workerBusy' \in BOOLEAN /\ writing' \in BOOLEAN /\ maintenance' \in BOOLEAN
            /\ written' \in 0 .. Chunks
    <2>1. 0 \in 0 .. Chunks
        BY <1>s
    <2> QED BY <2>1, Zenon DEF FailMaintenance, BusyAfterFailure
<1>b. SetBootPartition => otaState' \in [Slots -> States] /\ bootSlot' \in Slots
    BY <1>s DEF SetBootPartition, States
<1>1. CASE RefreshValidationCache \/ (\E task \in Tasks : TakeCommand(task))
    BY <1>1, <1>s DEF RefreshValidationCache, TakeCommand
<1>2. CASE WorkerQuiesced
    BY <1>2, <1>s, Zenon DEF WorkerQuiesced, BusyAfterQuiesce
<1>3. CASE WorkerQuiesceTimeout \/ Abort
    BY <1>3, <1>s, <1>f DEF WorkerQuiesceTimeout, Abort
<1>4. CASE BeginCheck \/ BeginHandle
    <2>0. 0 \in 0 .. Chunks
        BY <1>s
    <2> QED BY <1>4, <1>s, <1>e, <1>f, <2>0 DEF BeginCheck, BeginHandle
<1>5. CASE BeginErase
    BY <1>5, <1>s, <1>e, <1>f DEF BeginErase
<1>6. CASE Write
    BY <1>6, <1>s, <1>e, <1>f DEF Write
<1>7. CASE Finish
    <2>1. 0 \in 0 .. Chunks /\ \A v \in {"good", "bad"} :
             [image EXCEPT ![Other(running)] = v] \in [Slots -> {"good", "erased", "partial", "bad"}]
        BY <1>s
    <2> QED BY <1>7, <1>s, <1>e, <1>f, <2>1 DEF Finish
<1>7a. CASE FinishSetsBoot
    BY <1>7a, <1>s, <1>e, <1>f, <1>b DEF FinishSetsBoot
<1>8. CASE SelectPrevious
    BY <1>8, <1>s, <1>e, <1>f, <1>b DEF SelectPrevious
<1>9. CASE Confirm \/ RollbackReturns
    BY <1>9, <1>s, <1>e DEF Confirm, RollbackReturns, MaintenanceAfterConfirm, States
<1> QED BY <1>1, <1>2, <1>3, <1>4, <1>5, <1>6, <1>7, <1>7a, <1>8, <1>9 DEF WorkerStep

\* A step of the worker keeps the core of the invariant.
LEMMA CoreWorkerStep == ASSUME CoreInv, WorkerStep PROVE CoreInv'
<1> USE DEF flashVars, workerVars, httpVars, mainVars, fanVars, boundVars
<1>t. TypeOK /\ ProtocolInv /\ BufferInv
    BY DEF CoreInv
<1>1. CASE RollbackReboots
    <2>1. /\ fanFault' \in BOOLEAN /\ flashErrors' \in 0 .. MaxFlashErrors
          /\ allocFailures' \in 0 .. MaxAllocFailures /\ powerLosses' \in 0 .. MaxPowerLosses
        BY <1>1, <1>t DEF RollbackReboots, TypeOK
    <2> QED BY <1>1, <1>t, <2>1, Restarts, CoreReboot
<1>2. CASE ~RollbackReboots
    <2>1. UNCHANGED <<httpVars, mainVars, running, powerLosses>> /\ ~HttpRuns
        BY <1>2, WorkerShape
    <2>2. /\ command' \in [Tasks -> Commands] /\ reply' \in [Tasks -> Replies]
          /\ current' \in Tasks \cup {"none"} /\ free' \in 0 .. 2
          /\ lent' \subseteq {"handler", "command"}
          /\ wpc' \in {"start", "idle", "quiesce", "header", "erase", "begin", "write", "finish",
                       "setboot", "fail", "select", "confirm", "rollback"}
          /\ ProtocolInv' /\ BufferInv'
        <3>s. /\ command \in [Tasks -> Commands] /\ reply \in [Tasks -> Replies]
              /\ current \in Tasks \cup {"none"} /\ free \in 0 .. 2
              /\ lent \subseteq {"handler", "command"}
            BY <1>t DEF TypeOK, Commands, Replies
        <3>1. CASE \/ RefreshValidationCache \/ (\E task \in Tasks : TakeCommand(task))
                   \/ WorkerQuiesced
                   \/ /\ UNCHANGED <<current, command, reply, free, lent>>
                      /\ <<wpc, wpc'>> \in {<<"header", "erase">>, <<"erase", "begin">>,
                                            <<"begin", "write">>, <<"finish", "setboot">>}
            <4>1. UNCHANGED <<command, reply, free, lent>>
                BY <3>1 DEF RefreshValidationCache, TakeCommand, WorkerQuiesced
            <4>2. CASE RefreshValidationCache
                BY <1>t, <2>1, <3>s, <4>1, <4>2
                DEF RefreshValidationCache, ProtocolInv, BufferInv, WaitsFor, HttpRuns
            <4>3. ASSUME NEW task \in Tasks, TakeCommand(task)
                  PROVE  /\ current' = task /\ wpc' \in StepsOf(command[task])
                         /\ wpc' \notin {"start", "idle"}
                <5>1. command[task] \in Commands \ {"none"} /\ current' = task
                    BY <3>s, <4>3 DEF TakeCommand
                <5>2. wpc' = IF command[task] \in QuiescingCommands THEN "quiesce"
                             ELSE FirstStep(command[task])
                    BY <4>3 DEF TakeCommand
                <5> QED BY <5>1, <5>2 DEF Commands, QuiescingCommands, FirstStep, StepsOf
            <4>4. CASE WorkerQuiesced
                <5>1. current' = current /\ current \in Tasks /\ wpc' = FirstStep(command[current])
                      /\ command[current] \in {"BEGIN", "SELECT", "CONFIRM", "ROLLBACK"}
                    BY <1>t, <4>4, WorkerFacts DEF WorkerQuiesced
                <5> QED BY <1>t, <2>1, <3>s, <4>1, <5>1
                        DEF FirstStep, StepsOf, ProtocolInv, BufferInv, WaitsFor, HttpRuns
            <4>5. CASE /\ UNCHANGED <<current, command, reply, free, lent>>
                       /\ <<wpc, wpc'>> \in {<<"header", "erase">>, <<"erase", "begin">>,
                                             <<"begin", "write">>, <<"finish", "setboot">>}
                <5>1. /\ current = "http"
                      /\ \/ command["http"] = "BEGIN" /\ wpc' \in {"erase", "begin", "write"}
                         \/ command["http"] = "FINISH" /\ wpc' = "setboot"
                    BY <1>t, <4>5, WorkerFacts
                <5> QED BY <1>t, <2>1, <3>s, <4>1, <4>5, <5>1
                        DEF StepsOf, ProtocolInv, BufferInv, WaitsFor, HttpRuns, Tasks
            <4>6. ASSUME NEW task \in Tasks, TakeCommand(task)
                  PROVE  ProtocolInv' /\ BufferInv'
                         /\ wpc' \in {"quiesce", "header", "erase", "begin", "write", "finish",
                                      "setboot", "fail", "select", "confirm", "rollback"}
                <5>1. current' = task /\ wpc' \in StepsOf(command[task])
                      /\ wpc' \notin {"start", "idle"}
                    BY <4>3, <4>6
                <5>2. wpc' \in {"quiesce", "header", "erase", "begin", "write", "finish",
                                "setboot", "fail", "select", "confirm", "rollback"}
                    BY <5>1, <3>s DEF StepsOf, Commands
                <5> QED BY <1>t, <2>1, <3>s, <4>1, <5>1, <5>2
                        DEF ProtocolInv, BufferInv, WaitsFor, HttpRuns
            <4>7. current' \in Tasks \cup {"none"}
                BY <3>s, <4>2, <4>3, <4>4, <4>5, <3>1
                DEF RefreshValidationCache, WorkerQuiesced
            <4> QED BY <3>1, <3>s, <4>1, <4>2, <4>4, <4>5, <4>6, <4>7
        <3>2. ASSUME NEW result \in Replies \ {"none"}, Answer(result),
                     current \in Tasks, command[current] # "none"
              PROVE  /\ command' \in [Tasks -> Commands] /\ reply' \in [Tasks -> Replies]
                     /\ current' = "none" /\ free' \in 0 .. 2
                     /\ lent' \subseteq {"handler", "command"} /\ wpc' = "idle"
                     /\ ProtocolInv' /\ BufferInv'
            <4>1. /\ reply' \in [Tasks -> Replies] /\ command' \in [Tasks -> Commands]
                  /\ reply'[current] = result /\ command'[current] = "none"
                  /\ \A task \in Tasks \ {current} :
                            reply'[task] = reply[task] /\ command'[task] = command[task]
                  /\ current' = "none" /\ wpc' = "idle"
                BY <1>t, <3>2, AnswerFacts
            <4>2. BufferInv' /\ free' \in 0 .. 2 /\ lent' \subseteq {"handler", "command"}
                BY <1>t, <2>1, <3>2, AnswerFacts DEF BufferInv
            <4>3. WaitsFor("http", HttpCommands(hpc))'
                BY <1>t, <2>1, <3>2, <4>1 DEF ProtocolInv, WaitsFor, HttpCommands, Tasks
            <4>4. WaitsFor("main", MainCommands(mpc))'
                BY <1>t, <2>1, <3>2, <4>1 DEF ProtocolInv, WaitsFor, MainCommands, Tasks
            <4> QED BY <4>1, <4>2, <4>3, <4>4 DEF ProtocolInv
        <3> QED BY <1>2, <3>1, <3>2, WorkerShape
    <2>3. TypeOK'
        BY <1>2, <1>t, <2>1, <2>2, WorkerTypes DEF TypeOK, Commands, Replies, States
    <2> QED BY <2>2, <2>3 DEF CoreInv
<1> QED BY <1>1, <1>2

\* What a step of the HTTP task leaves alone.
LEMMA HttpFrame ==
    ASSUME HttpStep
    PROVE  UNCHANGED <<image, otaState, bootSlot, running, wpc, current, workerBusy, writing,
                       written, validation, httpReady, mpc, pending, seen, elapsed, connected,
                       quiesced, fanOn, fanFault, powerLosses>>
<1> USE DEF flashVars, workerVars, httpVars, mainVars, fanVars, boundVars
<1>1. CASE UploadStart \/ UploadReceives \/ UploadInterrupted \/ UploadContinues
    BY <1>1 DEF UploadStart, UploadReceives, UploadInterrupted, UploadContinues
<1>2. CASE RequestFails \/ FailureEnds \/ RequestAccepted \/ RollbackStart \/ RollbackNotFound
    BY <1>2 DEF RequestFails, FailureEnds, RequestAccepted, RollbackStart, RollbackNotFound
<1>3. CASE ProvisionStart \/ ProvisionQuiesced \/ ProvisionTimeout \/ ProvisionSaved
    BY <1>3 DEF ProvisionStart, ProvisionQuiesced, ProvisionTimeout, ProvisionSaved
<1> QED BY <1>1, <1>2, <1>3 DEF HttpStep

\* A step of the HTTP task keeps the protocol, the buffers and the types.
LEMMA CoreHttpStep == ASSUME CoreInv, HttpStep PROVE CoreInv'
<1> USE DEF flashVars, workerVars, httpVars, mainVars, fanVars, boundVars
<1>t. TypeOK /\ ProtocolInv /\ BufferInv
    BY DEF CoreInv
<1>s. /\ command \in [Tasks -> Commands] /\ reply \in [Tasks -> Replies] /\ free \in 0 .. 2
      /\ lent \subseteq {"handler", "command"} /\ received \in 0 .. Chunks /\ Chunks \in Nat \ {0}
      /\ "http" \in Tasks /\ "main" \in Tasks
    BY <1>t, ChunksAssumption DEF TypeOK, Commands, Replies, Tasks
<1>c. /\ hpc \in {"idle", "preflight", "receive", "quiescing", "saving"} =>
            command["http"] = "none" /\ reply["http"] = "none"
      /\ reply["http"] # "none" => command["http"] = "none" /\ wpc = "idle"
      /\ current # "http" \/ command["http"] # "none"
    BY <1>t, CommandFacts, WorkerFacts DEF ProtocolInv, HttpRuns, StepsOf, Tasks
<1>f. UNCHANGED <<wpc, current, mpc>>
    BY HttpFrame
\* The handler's own variables change as its position says.
<1> DEFINE Good ==
        /\ command' \in [Tasks -> Commands] /\ reply' \in [Tasks -> Replies]
        /\ command'["main"] = command["main"] /\ reply'["main"] = reply["main"]
        /\ command'["http"] = command["http"] \/ command["http"] = "none"
        /\ reply'["http"] \in {reply["http"], "none"}
        /\ WaitsFor("http", HttpCommands(hpc))'
        /\ BufferInv'
        /\ free' \in 0 .. 2 /\ lent' \subseteq {"handler", "command"} /\ received' \in 0 .. Chunks
<1>1. ASSUME UploadStart PROVE Good
    <2>1. UNCHANGED <<command, reply>> /\ received' = 0
        BY <1>1 DEF UploadStart
    <2>2. \/ /\ free' = free - 1 /\ lent' = lent \cup {"handler"} /\ hpc' = "preflight" /\ free > 0
          \/ UNCHANGED <<free, lent, hpc>>
        BY <1>1 DEF UploadStart, AcquireBuffer
    <2>3. hpc = "idle"
        BY <1>1 DEF UploadStart
    <2> QED BY <1>t, <1>s, <1>c, <2>1, <2>2, <2>3 DEF WaitsFor, HttpCommands, BufferInv
<1>2. ASSUME UploadReceives PROVE Good
    <2>1. /\ UNCHANGED <<reply, free>> /\ received' = received + 1 /\ hpc' = "writing"
          /\ hpc \in {"preflight", "receive"} /\ lent' = (lent \ {"handler"}) \cup {"command"}
          /\ SubmitTo("http", IF hpc = "preflight" THEN "BEGIN" ELSE "WRITE")
        BY <1>2 DEF UploadReceives, SendBuffer
    <2>2. command' \in [Tasks -> Commands] /\ command'["http"] \in {"BEGIN", "WRITE"}
          /\ command'["main"] = command["main"]
        BY <1>s, <2>1 DEF SubmitTo, Commands
    <2> QED BY <1>t, <1>s, <1>c, <2>1, <2>2 DEF WaitsFor, HttpCommands, BufferInv
<1>3. ASSUME UploadInterrupted PROVE Good
    <2>1. /\ UNCHANGED <<reply, received>> /\ hpc' = "failing" /\ hpc \in {"preflight", "receive"}
          /\ free' = free + 1 /\ lent' = lent \ {"handler"} /\ SubmitTo("http", "ABORT")
        BY <1>3 DEF UploadInterrupted, ReleaseBuffer, StartFailure
    <2>2. command' \in [Tasks -> Commands] /\ command'["http"] = "ABORT"
          /\ command'["main"] = command["main"]
        BY <1>s, <2>1 DEF SubmitTo, Commands
    <2> QED BY <1>t, <1>s, <1>c, <2>1, <2>2 DEF WaitsFor, HttpCommands, BufferInv
<1>4. ASSUME UploadContinues PROVE Good
    <2>1. /\ hpc = "writing" /\ reply["http"] = "OK" /\ ReadReply /\ UNCHANGED received
        BY <1>4 DEF UploadContinues
    <2>2. reply' \in [Tasks -> Replies] /\ reply'["http"] = "none" /\ reply'["main"] = reply["main"]
        BY <1>s, <2>1 DEF ReadReply, Replies
    <2>3. CASE hpc' = "receive"
        <3>1. UNCHANGED command /\ received < Chunks /\ free' = free - 1
              /\ lent' = lent \cup {"handler"} /\ free > 0
            BY <1>4, <2>3 DEF UploadContinues, AcquireBuffer, MoreToReceive, StartFailure
        <3> QED BY <1>t, <1>s, <1>c, <2>1, <2>2, <2>3, <3>1
            DEF WaitsFor, HttpCommands, BufferInv
    <2>4. CASE hpc' # "receive"
        <3>1. /\ UNCHANGED <<free, lent>>
              /\ \/ hpc' = "failing" /\ SubmitTo("http", "ABORT")
                 \/ hpc' = "finishing" /\ SubmitTo("http", "FINISH")
            BY <1>4, <2>4 DEF UploadContinues, AcquireBuffer, StartFailure
        <3>2. /\ command' \in [Tasks -> Commands] /\ command'["main"] = command["main"]
              /\ \/ hpc' = "failing" /\ command'["http"] = "ABORT"
                 \/ hpc' = "finishing" /\ command'["http"] = "FINISH"
            BY <1>s, <3>1 DEF SubmitTo, Commands
        <3> QED BY <1>t, <1>s, <1>c, <2>1, <2>2, <3>1, <3>2
            DEF WaitsFor, HttpCommands, BufferInv
    <2> QED BY <2>3, <2>4
<1>5. ASSUME RequestFails PROVE Good
    <2>1. /\ UNCHANGED <<free, lent, received>> /\ hpc' = "failing" /\ reply["http"] # "none"
          /\ hpc \in {"writing", "finishing", "selecting"} /\ ReadReply /\ SubmitTo("http", "ABORT")
        BY <1>5 DEF RequestFails, StartFailure
    <2>2. /\ reply' \in [Tasks -> Replies] /\ reply'["http"] = "none" /\ reply'["main"] = reply["main"]
          /\ command' \in [Tasks -> Commands] /\ command'["http"] = "ABORT"
          /\ command'["main"] = command["main"]
        BY <1>s, <2>1 DEF ReadReply, SubmitTo, Commands, Replies
    <2> QED BY <1>t, <1>s, <1>c, <2>1, <2>2 DEF WaitsFor, HttpCommands, BufferInv
<1>6. ASSUME FailureEnds \/ RequestAccepted \/ RollbackNotFound PROVE Good
    <2>1. /\ UNCHANGED <<command, free, lent, received>> /\ hpc' = "idle" /\ ReadReply
          /\ hpc \in {"failing", "finishing", "selecting"} /\ reply["http"] # "none"
        BY <1>6 DEF FailureEnds, RequestAccepted, RollbackNotFound
    <2>2. reply' \in [Tasks -> Replies] /\ reply'["http"] = "none" /\ reply'["main"] = reply["main"]
        BY <1>s, <2>1 DEF ReadReply, Replies
    <2> QED BY <1>t, <1>s, <1>c, <2>1, <2>2 DEF WaitsFor, HttpCommands, BufferInv
<1>7. ASSUME RollbackStart PROVE Good
    <2>1. /\ UNCHANGED <<reply, free, lent, received>> /\ hpc = "idle"
          /\ \/ hpc' = "selecting" /\ SubmitTo("http", "SELECT")
             \/ UNCHANGED <<hpc, command>>
        BY <1>7 DEF RollbackStart
    <2>2. /\ command' \in [Tasks -> Commands] /\ command'["main"] = command["main"]
          /\ \/ hpc' = "selecting" /\ command'["http"] = "SELECT"
             \/ hpc' = "idle" /\ command'["http"] = "none"
        BY <1>s, <1>c, <2>1 DEF SubmitTo, Commands
    <2> QED BY <1>t, <1>s, <1>c, <2>1, <2>2 DEF WaitsFor, HttpCommands, BufferInv
<1>8. ASSUME ProvisionStart \/ ProvisionQuiesced \/ ProvisionTimeout \/ ProvisionSaved PROVE Good
    <2>1. UNCHANGED <<command, reply, free, lent, received>>
        BY <1>8 DEF ProvisionStart, ProvisionQuiesced, ProvisionTimeout, ProvisionSaved
    <2>2. hpc \in {"idle", "quiescing", "saving"} /\ hpc' \in {"idle", "quiescing", "saving"}
        BY <1>8 DEF ProvisionStart, ProvisionQuiesced, ProvisionTimeout, ProvisionSaved
    <2> QED BY <1>t, <1>s, <1>c, <2>1, <2>2 DEF WaitsFor, HttpCommands, BufferInv
<1>9. Good
    BY <1>1, <1>2, <1>3, <1>4, <1>5, <1>6, <1>7, <1>8 DEF HttpStep
<1>10. ProtocolInv'
    <2>1. WaitsFor("main", MainCommands(mpc))'
        BY <1>f, <1>t, <1>9 DEF ProtocolInv, WaitsFor, MainCommands
    <2>2. HttpRuns' => HttpRuns
        BY <1>9 DEF HttpRuns
    <2>3. current \in Tasks => command'[current] = command[current]
        BY <1>c, <1>9 DEF Tasks
    <2> QED BY <1>f, <1>t, <1>9, <2>1, <2>2, <2>3 DEF ProtocolInv
<1>11. /\ hpc' \in {"idle", "preflight", "receive", "writing", "finishing", "failing", "selecting",
                    "quiescing", "saving"}
       /\ requestActive' \in BOOLEAN /\ upload' \in Uploads /\ restarting' \in BOOLEAN
       /\ maintenance' \in BOOLEAN /\ flashErrors' \in 0 .. MaxFlashErrors
       /\ allocFailures' \in 0 .. MaxAllocFailures
    <2>s. /\ hpc \in {"idle", "preflight", "receive", "writing", "finishing", "failing", "selecting",
                      "quiescing", "saving"}
          /\ requestActive \in BOOLEAN /\ upload \in Uploads /\ restarting \in BOOLEAN
          /\ maintenance \in BOOLEAN /\ flashErrors \in 0 .. MaxFlashErrors
          /\ allocFailures \in 0 .. MaxAllocFailures
        BY <1>t DEF TypeOK
    <2>e. /\ FlashError => flashErrors' \in 0 .. MaxFlashErrors
          /\ AllocFailure => allocFailures' \in 0 .. MaxAllocFailures
        BY <2>s, LimitsAssumption DEF FlashError, AllocFailure
    <2>1. CASE UploadStart \/ UploadReceives \/ UploadInterrupted \/ UploadContinues
        BY <2>1, <2>s DEF UploadStart, UploadReceives, UploadInterrupted, UploadContinues,
                          StartFailure
    <2>2. CASE RequestFails \/ FailureEnds \/ RollbackStart \/ RollbackNotFound
        BY <2>2, <2>s
        DEF RequestFails, FailureEnds, RollbackStart, RollbackNotFound, StartFailure
    <2>3. CASE RequestAccepted
        BY <2>3, <2>s, <2>e DEF RequestAccepted
    <2>4. CASE ProvisionStart \/ ProvisionQuiesced \/ ProvisionTimeout
        BY <2>4, <2>s DEF ProvisionStart, ProvisionQuiesced, ProvisionTimeout
    <2>5. CASE ProvisionSaved
        BY <2>5, <2>s, <2>e DEF ProvisionSaved
    <2> QED BY <2>1, <2>2, <2>3, <2>4, <2>5 DEF HttpStep
<1>12. TypeOK'
    BY <1>t, <1>9, <1>11, HttpFrame DEF TypeOK, Commands, Replies
<1> QED BY <1>9, <1>10, <1>12 DEF CoreInv

\* What a step of app_main leaves alone.
LEMMA MainFrame ==
    ASSUME MainStep
    PROVE  UNCHANGED <<image, otaState, bootSlot, running, wpc, current, workerBusy, writing,
                       written, free, lent, validation, hpc, requestActive, upload, received,
                       restarting, connected, maintenance, quiesced, fanOn, fanFault,
                       flashErrors, allocFailures, powerLosses>>
<1> USE DEF flashVars, workerVars, httpVars, mainVars, fanVars, boundVars
<1>1. CASE MainStart(TRUE) \/ MainStart(FALSE) \/ MainRetriesNetwork \/ MainSeesNetwork
    BY <1>1 DEF MainStart, MainRetriesNetwork, MainSeesNetwork
<1>2. CASE MainRollsBack \/ MainConfirms \/ MainAfterRollback \/ MainAfterConfirm
    BY <1>2 DEF MainRollsBack, MainConfirms, MainAfterRollback, MainAfterConfirm
<1> QED BY <1>1, <1>2 DEF MainStep

\* A step of app_main keeps the core of the invariant.
LEMMA CoreMainStep == ASSUME CoreInv, MainStep PROVE CoreInv'
<1> USE DEF flashVars, workerVars, httpVars, mainVars, fanVars, boundVars
<1>t. TypeOK /\ ProtocolInv /\ BufferInv
    BY DEF CoreInv
<1>s. /\ command \in [Tasks -> Commands] /\ reply \in [Tasks -> Replies]
      /\ "http" \in Tasks /\ "main" \in Tasks
      /\ mpc \in {"boot", "loop", "rollback", "confirm", "give_up"}
    BY <1>t DEF TypeOK, Commands, Replies, Tasks
<1>c. /\ mpc \in {"boot", "loop"} => command["main"] = "none" /\ reply["main"] = "none"
      /\ reply["main"] # "none" => command["main"] = "none"
      /\ current # "main" \/ command["main"] # "none"
    BY <1>t, CommandFacts, WorkerFacts DEF ProtocolInv, StepsOf, Tasks
<1>f. UNCHANGED <<wpc, current, hpc, free, lent, received>>
    BY MainFrame
<1> DEFINE Good ==
        /\ command' \in [Tasks -> Commands] /\ reply' \in [Tasks -> Replies]
        /\ command'["http"] = command["http"] /\ reply'["http"] = reply["http"]
        /\ command'["main"] = command["main"] \/ command["main"] = "none"
        /\ WaitsFor("main", MainCommands(mpc))'
        /\ mpc' \in {"boot", "loop", "rollback", "confirm", "give_up"}
<1>1. ASSUME NEW ok \in BOOLEAN, MainStart(ok) PROVE Good
    <2>1. /\ reply' = reply /\ mpc = "boot"
          /\ \/ mpc' = "rollback" /\ command' = [command EXCEPT !["main"] = "ROLLBACK"]
             \/ mpc' = "loop" /\ command' = command
        BY <1>1 DEF MainStart, SubmitTo
    <2> QED BY <1>s, <1>c, <2>1 DEF WaitsFor, MainCommands, Commands
<1>2. ASSUME MainRetriesNetwork \/ MainSeesNetwork PROVE Good
    <2>1. UNCHANGED <<command, reply, mpc>> /\ mpc = "loop"
        BY <1>2 DEF MainRetriesNetwork, MainSeesNetwork
    <2> QED BY <1>s, <1>c, <2>1 DEF WaitsFor, MainCommands
<1>3. ASSUME MainRollsBack \/ MainConfirms PROVE Good
    <2>1. /\ reply' = reply /\ mpc = "loop"
          /\ \/ mpc' = "rollback" /\ command' = [command EXCEPT !["main"] = "ROLLBACK"]
             \/ mpc' = "confirm" /\ command' = [command EXCEPT !["main"] = "CONFIRM"]
        BY <1>3 DEF MainRollsBack, MainConfirms, SubmitTo
    <2> QED BY <1>s, <1>c, <2>1 DEF WaitsFor, MainCommands, Commands
<1>4. ASSUME MainAfterRollback \/ MainAfterConfirm PROVE Good
    <2>1. /\ reply' = [reply EXCEPT !["main"] = "none"] /\ reply["main"] # "none"
          /\ \/ mpc' = "loop" /\ command' = command
             \/ mpc' = "give_up" /\ command' = [command EXCEPT !["main"] = "ROLLBACK"]
        BY <1>4 DEF MainAfterRollback, MainAfterConfirm, SubmitTo
    <2> QED BY <1>s, <1>c, <2>1 DEF WaitsFor, MainCommands, Commands, Replies
<1>5. Good
    BY <1>1, <1>2, <1>3, <1>4 DEF MainStep
<1>6. ProtocolInv'
    <2>1. WaitsFor("http", HttpCommands(hpc))'
        BY <1>f, <1>t, <1>5 DEF ProtocolInv, WaitsFor, HttpCommands
    <2>2. HttpRuns' = HttpRuns
        BY <1>5 DEF HttpRuns
    <2>3. current \in Tasks => command'[current] = command[current]
        BY <1>c, <1>5 DEF Tasks
    <2> QED BY <1>f, <1>t, <1>5, <2>1, <2>2, <2>3 DEF ProtocolInv
<1>7. BufferInv'
    BY <1>f, <1>t, <1>5 DEF BufferInv
<1>8. /\ httpReady' \in BOOLEAN /\ pending' \in BOOLEAN /\ seen' \in BOOLEAN /\ elapsed' \in BOOLEAN
    <2>s. httpReady \in BOOLEAN /\ pending \in BOOLEAN /\ seen \in BOOLEAN /\ elapsed \in BOOLEAN
        BY <1>t DEF TypeOK
    <2>1. CASE MainStart(TRUE) \/ MainStart(FALSE) \/ MainRetriesNetwork \/ MainSeesNetwork
        BY <2>1, <2>s DEF MainStart, MainRetriesNetwork, MainSeesNetwork
    <2>2. CASE MainRollsBack \/ MainConfirms \/ MainAfterRollback \/ MainAfterConfirm
        BY <2>2, <2>s DEF MainRollsBack, MainConfirms, MainAfterRollback, MainAfterConfirm
    <2> QED BY <2>1, <2>2 DEF MainStep
<1>9. TypeOK'
    <2>1. /\ UNCHANGED <<image, otaState, bootSlot, running, wpc, current, workerBusy, writing,
                         written, free, lent, validation>>
          /\ UNCHANGED <<hpc, requestActive, upload, received, restarting, connected>>
          /\ UNCHANGED <<maintenance, quiesced, fanOn, fanFault>>
          /\ UNCHANGED <<flashErrors, allocFailures, powerLosses>>
        BY MainFrame
    <2>2. /\ command' \in [Tasks -> {"none", "BEGIN", "WRITE", "FINISH", "ABORT", "SELECT",
                                     "CONFIRM", "ROLLBACK"}]
          /\ reply' \in [Tasks -> {"none", "OK", "TIMEOUT", "NOT_FOUND", "INVALID", "FAIL"}]
          /\ mpc' \in {"boot", "loop", "rollback", "confirm", "give_up"}
        BY <1>5 DEF Commands, Replies
    <2> HIDE DEF Good
    <2> QED BY <1>t, <1>8, <2>1, <2>2 DEF TypeOK
<1> QED BY <1>6, <1>7, <1>9 DEF CoreInv

\* Time, the network, and the fan with its users.
EnvironmentStep ==
    \/ IntervalEnds \/ NetworkChanges \/ UserTurnsFan \/ FanStops \/ FanReady
    \/ FanFaults \/ UNCHANGED vars

\* They leave the tasks, the flash and the lock alone.
LEMMA EnvironmentFrame ==
    ASSUME EnvironmentStep
    PROVE  UNCHANGED <<image, otaState, bootSlot, running, wpc, current, command, reply,
                       workerBusy, writing, written, free, lent, validation, hpc, requestActive,
                       upload, received, restarting, httpReady, mpc, pending, seen, maintenance,
                       flashErrors, allocFailures, powerLosses>>
BY DEF EnvironmentStep, IntervalEnds, NetworkChanges, UserTurnsFan, FanStops, FanReady,
       FanFaults, vars, flashVars, workerVars, httpVars, mainVars, fanVars, boundVars

\* They keep the core of the invariant.
LEMMA CoreEnvironmentStep == ASSUME CoreInv, EnvironmentStep PROVE CoreInv'
<1>t. TypeOK /\ ProtocolInv /\ BufferInv
    BY DEF CoreInv
<1>1. ProtocolInv' /\ BufferInv'
    BY <1>t, EnvironmentFrame DEF ProtocolInv, WaitsFor, HttpRuns, BufferInv
<1>2. /\ elapsed' \in BOOLEAN /\ connected' \in BOOLEAN /\ quiesced' \in BOOLEAN
      /\ fanOn' \in BOOLEAN /\ fanFault' \in BOOLEAN
    BY <1>t
    DEF EnvironmentStep, IntervalEnds, NetworkChanges, UserTurnsFan, FanStops, FanReady,
                FanFaults, vars, mainVars, fanVars, TypeOK
<1>3. TypeOK'
    <2>1. /\ UNCHANGED <<image, otaState, bootSlot, running, wpc, current, command, reply,
                         workerBusy, writing, written, free, lent, validation>>
          /\ UNCHANGED <<hpc, requestActive, upload, received, restarting, httpReady>>
          /\ UNCHANGED <<mpc, pending, seen, maintenance, flashErrors, allocFailures, powerLosses>>
        BY EnvironmentFrame
    <2> QED BY <1>t, <1>2, <2>1 DEF TypeOK
<1> QED BY <1>1, <1>3 DEF CoreInv

\* Every step keeps the core of the invariant.
LEMMA CoreStep == CoreInv /\ [Next]_vars => CoreInv'
<1> SUFFICES ASSUME CoreInv, [Next]_vars PROVE CoreInv'
    OBVIOUS
<1>1. CASE PowerLoss \/ PlannedRestart
    <2>1. TypeOK
        BY DEF CoreInv
    <2>2. /\ fanFault' \in BOOLEAN /\ flashErrors' \in 0 .. MaxFlashErrors
          /\ allocFailures' \in 0 .. MaxAllocFailures
        BY <1>1, <2>1 DEF PowerLoss, PlannedRestart, TypeOK, boundVars
    <2>3. powerLosses' \in 0 .. MaxPowerLosses
        BY <1>1, <2>1, LimitsAssumption DEF PowerLoss, PlannedRestart, TypeOK, boundVars
    <2> QED BY <1>1, <2>1, <2>2, <2>3, Restarts, CoreReboot
<1> QED BY <1>1, CoreWorkerStep, CoreHttpStep, CoreMainStep, CoreEnvironmentStep
        DEF Next, EnvironmentStep

\* Types, protocol and buffers are right in every reachable state.
THEOREM CoreInvariant == Spec => []CoreInv
BY CoreInit, CoreStep, PTL DEF Spec

\* No buffer is lost or returned twice, over any number of failures, interrupted uploads
\* and power losses, and the handler never finds the queue empty.
THEOREM BuffersAreConserved == Spec => []BuffersConserved
<1>1. CoreInv => BuffersConserved
    BY DEF CoreInv, TypeOK, BufferInv, BuffersConserved
<1> QED BY <1>1, CoreInvariant, PTL

----------------------------------------------------------------------------
(* The slots, and the flags that say busy.                                 *)

\* A slot and its other one.
LEMMA OtherFacts == \A s \in Slots : Other(s) \in Slots /\ Other(s) # s
BY DEF Other, Slots

\* While a command of the handler waits or is executed, the running slot is the one
\* that boots.
LEMMA NothingAccepted == ASSUME SlotInv, command["http"] # "none" PROVE bootSlot = running
BY DEF SlotInv

\* fail_maintenance for a command of the handler.
LEMMA FailKeepsSlots ==
    ASSUME CoreInv, SlotInv, BusyInv, current = "http", command["http"] # "none",
           NEW result \in Replies \ {"none"}, result = "OK" => hpc = "failing",
           FailMaintenance(result), UNCHANGED <<bootSlot, running, hpc, requestActive>>,
           image'[running] = image[running]
    PROVE  SlotInv' /\ BusyInv'
<1>1. TypeOK /\ ProtocolInv /\ BufferInv
    BY DEF CoreInv
<1>2. Answer(result) /\ workerBusy' = FALSE /\ writing' = FALSE
    BY DEF FailMaintenance, BusyAfterFailure
<1>3. reply'["http"] = result /\ command'["http"] = "none" /\ wpc' = "idle"
    BY <1>1, <1>2, AnswerFacts DEF Tasks
<1>4. bootSlot = running /\ bootSlot' = running'
    BY NothingAccepted
<1>5. SlotInv'
    BY <1>2, <1>3, <1>4 DEF SlotInv
<1>6. requestActive => hpc \in {"preflight", "receive", "writing", "finishing", "failing", "selecting"}
    BY <1>4 DEF BusyInv
<1>7. BusyInv'
    BY <1>2, <1>3, <1>6 DEF BusyInv
<1> QED BY <1>5, <1>7

\* An answer that leaves the slots and the flags of the worker alone.
LEMMA AnswerKeepsSlots ==
    ASSUME CoreInv, SlotInv, BusyInv, current \in Tasks, command[current] # "none",
           NEW result \in Replies \ {"none"}, Answer(result),
           current = "http" => hpc \in {"writing", "finishing", "selecting"}
                               /\ (hpc # "writing" => result = "TIMEOUT"),
           UNCHANGED <<bootSlot, running, hpc, requestActive, workerBusy, writing>>,
           image'[running] = image[running], image'[bootSlot] = image[bootSlot]
    PROVE  SlotInv' /\ BusyInv'
<1>1. TypeOK /\ ProtocolInv /\ BufferInv
    BY DEF CoreInv
<1>2. /\ reply'[current] = result /\ command'[current] = "none" /\ wpc' = "idle"
      /\ \A task \in Tasks \ {current} : reply'[task] = reply[task] /\ command'[task] = command[task]
    BY <1>1, AnswerFacts
<1>3. CASE current = "http"
    <2>1. bootSlot = running /\ reply'["http"] = result /\ command'["http"] = "none"
        BY <1>2, <1>3, NothingAccepted
    <2>2. SlotInv'
        BY <1>2, <2>1 DEF SlotInv
    <2>3. BusyInv'
        BY <1>3, <2>1 DEF BusyInv
    <2> QED BY <2>2, <2>3
<1>4. CASE current = "main"
    <2>1. reply'["http"] = reply["http"] /\ command'["http"] = command["http"]
        BY <1>2, <1>4 DEF Tasks
    <2> QED BY <1>2, <2>1 DEF SlotInv, BusyInv
<1> QED BY <1>3, <1>4 DEF Tasks

\* An image that the worker accepts: the other slot boots next.
LEMMA AcceptedKeepsSlots ==
    ASSUME CoreInv, SlotInv, BusyInv, current = "http",
           command["http"] \in {"FINISH", "SELECT"}, workerBusy,
           Answer("OK"), SetBootPartition, UNCHANGED <<running, hpc, requestActive, workerBusy>>,
           writing' = FALSE, image'[running] = image[running], image'[Other(running)] = "good"
    PROVE  SlotInv' /\ BusyInv'
<1>1. TypeOK /\ ProtocolInv /\ BufferInv /\ running \in Slots
    BY DEF CoreInv, TypeOK
<1>2. reply'["http"] = "OK" /\ command'["http"] = "none" /\ wpc' = "idle"
    BY <1>1, AnswerFacts DEF Tasks, Replies
<1>3. bootSlot' = Other(running) /\ bootSlot' # running'
    BY <1>1, OtherFacts DEF SetBootPartition
<1>4. hpc \in {"finishing", "selecting"}
    BY <1>1, CommandFacts
<1>5. SlotInv'
    BY <1>2, <1>3, <1>4 DEF SlotInv
<1>6. BusyInv'
    BY <1>2, <1>3, <1>4 DEF BusyInv
<1> QED BY <1>5, <1>6

\* A restart runs a verified image and clears the flags.
LEMMA RebootKeepsSlots == ASSUME CoreInv, SlotInv, Reboot PROVE SlotInv' /\ BusyInv'
<1>1. /\ running' \in Slots /\ bootSlot' = running' /\ RamAtBoot /\ image' = image
      /\ image[0] = "good" \/ image[1] = "good" => image[running'] = "good"
    BY BootFacts DEF Reboot
<1>2. image[0] = "good" \/ image[1] = "good"
    BY DEF SlotInv, CoreInv, TypeOK, Slots
<1> QED BY <1>1, <1>2 DEF RamAtBoot, SlotInv, BusyInv, Tasks

\* A step of the worker keeps the invariant of the slots.
LEMMA SlotWorkerStep == ASSUME CoreInv, SlotInv, BusyInv, WorkerStep PROVE SlotInv' /\ BusyInv'
<1> USE DEF flashVars, workerVars, httpVars, mainVars, fanVars, boundVars
<1>t. TypeOK /\ ProtocolInv /\ BufferInv
    BY DEF CoreInv
<1>s. /\ image \in [Slots -> {"good", "erased", "partial", "bad"}] /\ running \in Slots
      /\ bootSlot \in Slots /\ command \in [Tasks -> Commands] /\ workerBusy \in BOOLEAN
    BY <1>t DEF TypeOK, Commands
<1>o. \A v : /\ [image EXCEPT ![Other(running)] = v][running] = image[running]
             /\ [image EXCEPT ![Other(running)] = v][Other(running)] = v
    BY <1>s, OtherFacts
<1>1. CASE RefreshValidationCache
    BY <1>1 DEF RefreshValidationCache, SlotInv, BusyInv
<1>2. ASSUME NEW task \in Tasks, TakeCommand(task) PROVE SlotInv' /\ BusyInv'
    <2>1. wpc' \notin {"header", "erase", "begin", "setboot", "select"}
        BY <1>2, <1>s DEF TakeCommand, QuiescingCommands, FirstStep, Commands
    <2>2. UNCHANGED <<bootSlot, running, workerBusy, writing, command, hpc, reply, image,
                      requestActive>>
        BY <1>2 DEF TakeCommand
    <2> QED BY <2>1, <2>2 DEF SlotInv, BusyInv
<1>3. CASE WorkerQuiesced
    <2>1. /\ current \in Tasks
          /\ command[current] \in {"BEGIN", "SELECT", "CONFIRM", "ROLLBACK"}
        BY <1>3, <1>t, WorkerFacts DEF WorkerQuiesced
    <2>2. /\ UNCHANGED <<bootSlot, running, writing, command, hpc, reply, image, requestActive>>
          /\ wpc' = FirstStep(command[current])
          /\ workerBusy' = (workerBusy \/ command[current] \in {"BEGIN", "SELECT"})
        BY <1>3 DEF WorkerQuiesced, BusyAfterQuiesce
    <2>3. CASE command[current] \in {"BEGIN", "SELECT"}
        <3>1. /\ current = "http" /\ hpc \in {"writing", "selecting"} /\ reply["http"] = "none"
              /\ workerBusy' = TRUE /\ wpc' \in {"header", "select"}
            BY <1>t, <2>1, <2>2, <2>3, CommandFacts DEF Tasks, FirstStep
        <3>2. bootSlot = running
            BY <2>3, <3>1, NothingAccepted
        <3> QED BY <2>2, <3>1, <3>2 DEF SlotInv, BusyInv
    <2>4. CASE command[current] \in {"CONFIRM", "ROLLBACK"}
        <3>1. workerBusy' = workerBusy /\ wpc' \in {"confirm", "rollback"}
            BY <1>s, <2>2, <2>4 DEF FirstStep
        <3> QED BY <2>2, <3>1 DEF SlotInv, BusyInv
    <2> QED BY <2>1, <2>3, <2>4
<1>4. CASE WorkerQuiesceTimeout
    <2>1. /\ current \in Tasks
          /\ command[current] \in {"BEGIN", "SELECT", "CONFIRM", "ROLLBACK"}
        BY <1>4, <1>t, WorkerFacts DEF WorkerQuiesceTimeout
    <2>2. current = "http" => hpc \in {"writing", "selecting"}
        BY <1>t, <2>1, CommandFacts
    <2>3. Answer("TIMEOUT") /\ UNCHANGED <<image, bootSlot, running, hpc, requestActive, workerBusy, writing>>
        BY <1>4 DEF WorkerQuiesceTimeout
    <2> QED BY <2>1, <2>2, <2>3, AnswerKeepsSlots DEF Replies
<1>5. CASE Abort
    <2>1. current = "http" /\ command["http"] = "ABORT" /\ hpc = "failing"
        BY <1>5, <1>t, WorkerFacts, CommandFacts DEF Abort
    <2>2. FailMaintenance("OK") /\ UNCHANGED <<image, bootSlot, running, hpc, requestActive>>
        BY <1>5 DEF Abort
    <2> QED BY <2>1, <2>2, FailKeepsSlots DEF Replies
<1>6. CASE BeginCheck \/ BeginErase \/ BeginHandle
    <2>1. current = "http" /\ command["http"] = "BEGIN" /\ bootSlot = running /\ hpc = "writing"
          /\ wpc \in {"header", "erase", "begin"}
        BY <1>6, <1>t, WorkerFacts, CommandFacts, NothingAccepted
        DEF BeginCheck, BeginErase, BeginHandle
    <2>2. UNCHANGED <<bootSlot, running, hpc, requestActive>> /\ image'[running] = image[running]
        BY <1>6, <1>o DEF BeginCheck, BeginErase, BeginHandle
    <2>3. CASE wpc' = "idle"
        <3>1. FailMaintenance("INVALID") \/ FailMaintenance("FAIL")
            BY <1>6, <2>3 DEF BeginCheck, BeginErase, BeginHandle
        <3> QED BY <2>1, <2>2, <3>1, FailKeepsSlots DEF Replies
    <2>4. CASE wpc' # "idle"
        <3>1. UNCHANGED <<command, reply, workerBusy>> /\ wpc' # "setboot"
            BY <1>6, <2>4 DEF BeginCheck, BeginErase, BeginHandle, FailMaintenance, Answer
        <3> QED BY <2>1, <2>2, <3>1 DEF SlotInv, BusyInv
    <2> QED BY <2>3, <2>4
<1>7. CASE Write
    <2>1. /\ current = "http" /\ command["http"] # "none" /\ bootSlot = running /\ hpc = "writing"
        BY <1>7, <1>t, WorkerFacts, CommandFacts, NothingAccepted DEF Write
    <2>2. UNCHANGED <<bootSlot, running, hpc, requestActive>> /\ image'[running] = image[running]
        BY <1>7, <1>o DEF Write
    <2>3. \/ FailMaintenance("INVALID") \/ FailMaintenance("FAIL")
          \/ Answer("OK") /\ UNCHANGED <<workerBusy, writing>>
        BY <1>7 DEF Write
    <2> QED BY <2>1, <2>2, <2>3, FailKeepsSlots, AnswerKeepsSlots DEF Replies, Tasks
<1>8. CASE Finish
    <2>1. /\ current = "http" /\ command["http"] = "FINISH" /\ bootSlot = running
          /\ hpc = "finishing" /\ reply["http"] = "none"
        BY <1>8, <1>t, WorkerFacts, CommandFacts, NothingAccepted DEF Finish, Tasks
    <2>2. /\ UNCHANGED <<bootSlot, running, hpc, requestActive>>
          /\ image'[running] = image[running]
        BY <1>8, <1>o DEF Finish
    <2>3. \/ FailMaintenance("INVALID") \/ FailMaintenance("FAIL")
          \/ /\ UNCHANGED <<command, reply, workerBusy>> /\ writing /\ writing' = FALSE
             /\ wpc' = "setboot" /\ image'[Other(running)] = "good"
        BY <1>8, <1>o DEF Finish, ImageVerifies
    <2>4. CASE /\ UNCHANGED <<command, reply, workerBusy>> /\ writing /\ writing' = FALSE
               /\ wpc' = "setboot" /\ image'[Other(running)] = "good"
        BY <2>1, <2>2, <2>4 DEF SlotInv, BusyInv
    <2> QED BY <2>1, <2>2, <2>3, <2>4, FailKeepsSlots DEF Replies
<1>8a. CASE FinishSetsBoot
    <2>1. /\ current = "http" /\ command["http"] = "FINISH" /\ workerBusy /\ ~writing
          /\ image[Other(running)] = "good"
        BY <1>8a, <1>t, WorkerFacts DEF FinishSetsBoot, SlotInv
    <2>2. UNCHANGED <<running, hpc, requestActive, image>>
        BY <1>8a DEF FinishSetsBoot
    <2>3. \/ FailMaintenance("FAIL") /\ UNCHANGED bootSlot
          \/ Answer("OK") /\ SetBootPartition /\ UNCHANGED <<workerBusy, writing>>
        BY <1>8a DEF FinishSetsBoot
    <2>4. CASE Answer("OK") /\ SetBootPartition /\ UNCHANGED <<workerBusy, writing>>
        <3>1. writing' = FALSE
            BY <1>t, <2>1, <2>4 DEF TypeOK
        <3> QED BY <2>1, <2>2, <2>4, <3>1, AcceptedKeepsSlots
    <2> QED BY <2>1, <2>2, <2>3, <2>4, FailKeepsSlots DEF Replies
<1>9. CASE SelectPrevious
    <2>1. /\ current = "http" /\ command["http"] = "SELECT" /\ bootSlot = running /\ workerBusy
        BY <1>9, <1>t, WorkerFacts, NothingAccepted DEF SelectPrevious, SlotInv
    <2>2. UNCHANGED <<running, hpc, requestActive, image>>
        BY <1>9 DEF SelectPrevious
    <2>3. CASE ~writing /\ RollbackPossible /\ SetBootPartition /\ Answer("OK")
               /\ UNCHANGED <<workerBusy, writing>>
        <3>1. image[Other(running)] = "good" /\ writing' = FALSE
            BY <1>t, <2>1, <2>3 DEF RollbackPossible, Selectable, TypeOK
        <3> QED BY <2>1, <2>2, <2>3, <3>1, AcceptedKeepsSlots
    <2>4. CASE /\ \E result \in {"FAIL", "INVALID", "NOT_FOUND"} : FailMaintenance(result)
               /\ UNCHANGED bootSlot
        BY <2>1, <2>2, <2>4, FailKeepsSlots DEF Replies
    <2> QED BY <1>9, <2>3, <2>4 DEF SelectPrevious
<1>10. CASE Confirm \/ RollbackReturns
    <2>1. current = "main" /\ command["main"] # "none"
        BY <1>10, <1>t, WorkerFacts DEF Confirm, RollbackReturns
    <2>2. /\ Answer("OK") \/ Answer("FAIL")
          /\ UNCHANGED <<image, bootSlot, running, hpc, requestActive, workerBusy, writing>>
        BY <1>10 DEF Confirm, RollbackReturns
    <2> QED BY <2>1, <2>2, AnswerKeepsSlots DEF Replies, Tasks
<1>11. CASE RollbackReboots
    BY <1>11, <1>t, Restarts, RebootKeepsSlots
<1> QED BY <1>1, <1>2, <1>3, <1>4, <1>5, <1>6, <1>7, <1>8, <1>8a, <1>9, <1>10, <1>11
    DEF WorkerStep

\* So does a step of the HTTP task.
LEMMA SlotHttpStep == ASSUME CoreInv, SlotInv, BusyInv, HttpStep PROVE SlotInv' /\ BusyInv'
<1> USE DEF flashVars, workerVars, httpVars, mainVars, fanVars, boundVars
<1>t. TypeOK /\ ProtocolInv
    BY DEF CoreInv
<1>s. command \in [Tasks -> Commands] /\ reply \in [Tasks -> Replies] /\ "http" \in Tasks
    BY <1>t DEF TypeOK, Commands, Replies, Tasks
<1>f. UNCHANGED <<image, bootSlot, running, wpc, workerBusy, writing>>
    BY HttpFrame
<1>c. /\ hpc \in {"idle", "preflight", "receive", "quiescing", "saving"} =>
            command["http"] = "none" /\ reply["http"] = "none"
      /\ reply["http"] # "none" => command["http"] = "none"
    BY <1>t, CommandFacts DEF Tasks
<1>r. ReadReply => reply'["http"] = "none"
    BY <1>s DEF ReadReply
<1>u. \A type : SubmitTo("http", type) => command'["http"] = type
    BY <1>s DEF SubmitTo
<1>1. CASE UploadStart
    <2>1. ~requestActive /\ ~workerBusy /\ hpc = "idle" /\ UNCHANGED <<command, reply>>
        BY <1>1 DEF UploadStart, OtaIsBusy
    <2>2. hpc' = "preflight" \/ UNCHANGED <<hpc, requestActive>>
        BY <1>1 DEF UploadStart
    <2> QED BY <1>f, <1>c, <2>1, <2>2 DEF SlotInv, BusyInv
<1>2. CASE UploadReceives \/ UploadInterrupted
    <2>1. hpc \in {"preflight", "receive"} /\ hpc' \in {"writing", "failing"}
          /\ UNCHANGED <<reply, requestActive>>
        BY <1>2 DEF UploadReceives, UploadInterrupted, StartFailure
    <2>2. bootSlot = running /\ reply["http"] = "none"
        BY <1>c, <2>1 DEF SlotInv
    <2> QED BY <1>f, <2>1, <2>2 DEF SlotInv, BusyInv
<1>3. CASE UploadContinues \/ RequestFails
    <2>1. /\ hpc' \in {"receive", "failing", "finishing"} /\ UNCHANGED requestActive
          /\ reply'["http"] = "none"
        BY <1>3, <1>r DEF UploadContinues, RequestFails, StartFailure
    <2>2. /\ reply["http"] # "none" /\ hpc \in {"writing", "finishing", "selecting"}
          /\ hpc # "writing" => reply["http"] # "OK"
        BY <1>3 DEF UploadContinues, RequestFails
    <2>3. bootSlot = running
        BY <2>2 DEF SlotInv
    <2> QED BY <1>f, <2>1, <2>3 DEF SlotInv, BusyInv
<1>4. CASE FailureEnds \/ RollbackNotFound
    <2>1. /\ hpc \in {"failing", "selecting"} /\ reply["http"] # "none" /\ hpc' = "idle"
          /\ hpc = "selecting" => reply["http"] = "NOT_FOUND"
          /\ reply'["http"] = "none" /\ requestActive' = FALSE
        BY <1>4, <1>r DEF FailureEnds, RollbackNotFound
    <2>2. bootSlot = running /\ ~workerBusy
        BY <2>1 DEF SlotInv, BusyInv
    <2> QED BY <1>f, <2>1, <2>2 DEF SlotInv, BusyInv
<1>5. CASE RequestAccepted
    <2>1. /\ hpc \in {"finishing", "selecting"} /\ reply["http"] = "OK" /\ hpc' = "idle"
          /\ reply'["http"] = "none" /\ UNCHANGED command
        BY <1>5, <1>r DEF RequestAccepted
    <2>2. bootSlot # running
        BY <2>1 DEF BusyInv
    <2> QED BY <1>f, <2>1, <2>2 DEF SlotInv, BusyInv
<1>6. CASE RollbackStart
    <2>1. ~requestActive /\ ~workerBusy /\ hpc = "idle" /\ UNCHANGED reply
        BY <1>6 DEF RollbackStart, OtaIsBusy
    <2>2. hpc' = "selecting" \/ UNCHANGED <<hpc, requestActive, command>>
        BY <1>6 DEF RollbackStart
    <2> QED BY <1>f, <1>c, <2>1, <2>2 DEF SlotInv, BusyInv
<1>7. CASE ProvisionStart \/ ProvisionQuiesced \/ ProvisionTimeout \/ ProvisionSaved
    <2>1. /\ UNCHANGED <<command, reply, requestActive>>
          /\ hpc \in {"idle", "quiescing", "saving"} /\ hpc' \in {"idle", "quiescing", "saving"}
        BY <1>7 DEF ProvisionStart, ProvisionQuiesced, ProvisionTimeout, ProvisionSaved
    <2> QED BY <1>f, <2>1 DEF SlotInv, BusyInv
<1> QED BY <1>1, <1>2, <1>3, <1>4, <1>5, <1>6, <1>7 DEF HttpStep

\* app_main does not touch the handler's command and answer.
LEMMA MainKeepsHttp ==
    ASSUME TypeOK, MainStep
    PROVE  command'["http"] = command["http"] /\ reply'["http"] = reply["http"]
<1>s. command \in [Tasks -> Commands] /\ reply \in [Tasks -> Replies]
    BY DEF TypeOK, Commands, Replies
<1>1. CASE MainStart(TRUE) \/ MainStart(FALSE) \/ MainRetriesNetwork \/ MainSeesNetwork
    BY <1>1, <1>s
    DEF MainStart, MainRetriesNetwork, MainSeesNetwork, SubmitTo, Tasks, workerVars
<1>2. CASE MainRollsBack \/ MainConfirms \/ MainAfterRollback \/ MainAfterConfirm
    BY <1>2, <1>s
    DEF MainRollsBack, MainConfirms, MainAfterRollback, MainAfterConfirm, SubmitTo,
                      Tasks
<1> QED BY <1>1, <1>2 DEF MainStep

\* And every other step.
LEMMA SlotStep == CoreInv /\ SlotInv /\ BusyInv /\ [Next]_vars => SlotInv' /\ BusyInv'
<1> SUFFICES ASSUME CoreInv, SlotInv, BusyInv, [Next]_vars PROVE SlotInv' /\ BusyInv'
    OBVIOUS
<1>t. TypeOK
    BY DEF CoreInv
<1>1. CASE MainStep
    <2>1. UNCHANGED <<image, bootSlot, running, wpc, workerBusy, writing, hpc, requestActive>>
        BY <1>1, MainFrame
    <2>2. command'["http"] = command["http"] /\ reply'["http"] = reply["http"]
        BY <1>1, <1>t, MainKeepsHttp
    <2> QED BY <2>1, <2>2 DEF SlotInv, BusyInv
<1>2. CASE EnvironmentStep
    BY <1>2, EnvironmentFrame DEF SlotInv, BusyInv
<1>3. CASE PowerLoss \/ PlannedRestart
    BY <1>3, <1>t, Restarts, RebootKeepsSlots
<1> QED BY <1>1, <1>2, <1>3, SlotWorkerStep, SlotHttpStep DEF Next, EnvironmentStep

\* The invariants of the slots and of the flags hold in every reachable state.
THEOREM SlotInvariant == Spec => [](CoreInv /\ SlotInv /\ BusyInv)
<1>1. Init => SlotInv /\ BusyInv
    BY DEF Init, SlotInv, BusyInv, Slots
<1>2. CoreInv /\ SlotInv /\ BusyInv /\ [Next]_vars => SlotInv' /\ BusyInv'
    BY SlotStep
<1> QED BY <1>1, <1>2, CoreInvariant, PTL DEF Spec

\* At every instant, and so after every power loss, the slot that boots next and the one
\* that runs hold verified images, for images of any length and any number of failures.
THEOREM BootSlotIsVerified == Spec => []BootSlotVerified
<1>1. SlotInv => BootSlotVerified
    BY DEF SlotInv, BootSlotVerified
<1> QED BY <1>1, SlotInvariant, PTL

\* No failed, refused or interrupted request leaves the device busy.
THEOREM BusyMeansServing == Spec => []BusyOnlyWhileServing
<1>1. BusyInv => BusyOnlyWhileServing
    BY DEF BusyInv, BusyOnlyWhileServing
<1> QED BY <1>1, SlotInvariant, PTL

----------------------------------------------------------------------------
(* The lock of the fan.                                                    *)

\* A step of the worker: only a confirmation ends a probation, and the lock is left only
\* to a handler, to an accepted image, or to a probation that goes on.
LEMMA LockWorkerStep == ASSUME CoreInv, SlotInv, BusyInv, LockInv, WorkerStep PROVE LockInv'
<1> USE DEF flashVars, workerVars, httpVars, mainVars, fanVars, boundVars
<1>t. TypeOK /\ ProtocolInv /\ BufferInv
    BY DEF CoreInv
<1>s. /\ otaState \in [Slots -> States] /\ running \in Slots /\ bootSlot \in Slots
      /\ Other(running) \in Slots /\ Other(running) # running
    BY <1>t, OtherFacts DEF TypeOK, States
<1>1. CASE RollbackReboots
    <2>1. RamAtBoot /\ (pending' => otaState'[running'] = "PENDING")
        BY <1>1, <1>t, Restarts, BootFacts DEF Reboot
    <2> QED BY <2>1 DEF RamAtBoot, LockInv
<1>2. CASE RefreshValidationCache \/ (\E task \in Tasks : TakeCommand(task)) \/ WorkerQuiesced
    <2>1. UNCHANGED <<otaState, bootSlot, running, reply, command, hpc, restarting, mpc, pending>>
        BY <1>2 DEF RefreshValidationCache, TakeCommand, WorkerQuiesced
    <2>2. CASE UNCHANGED <<current, maintenance>>
        BY <2>1, <2>2 DEF LockInv, Confirmed
    <2>3. ASSUME NEW task \in Tasks, TakeCommand(task) PROVE LockInv'
        <3>1. current' = task /\ command[task] # "none"
            BY <2>3 DEF TakeCommand
        <3>2. task = "http" => hpc # "idle"
            BY <1>t, <3>1, CommandFacts
        <3> QED BY <2>1, <3>1, <3>2 DEF LockInv, Confirmed, Tasks
    <2> QED BY <1>2, <2>2, <2>3 DEF RefreshValidationCache, WorkerQuiesced
<1>3. CASE \/ Abort \/ BeginCheck \/ BeginErase \/ BeginHandle \/ Write \/ Finish
           \/ FinishSetsBoot \/ SelectPrevious
    <2>1. current = "http" /\ command["http"] # "none" /\ hpc # "idle"
        BY <1>3, <1>t, WorkerFacts, CommandFacts
        DEF Abort, BeginCheck, BeginErase, BeginHandle, Write, Finish, FinishSetsBoot,
            SelectPrevious
    <2>2. UNCHANGED <<running, hpc, restarting, mpc, pending>>
        BY <1>3
        DEF Abort, BeginCheck, BeginErase, BeginHandle, Write, Finish, FinishSetsBoot,
            SelectPrevious
    <2>3. otaState'[running] = otaState[running]
        BY <1>3, <1>s DEF Abort, BeginCheck, BeginErase, BeginHandle, Write, Finish,
                          FinishSetsBoot, SelectPrevious, SetBootPartition
    <2>4. reply'["main"] = reply["main"]
        <3>1. reply' = reply \/ \E r \in Replies : reply' = [reply EXCEPT !["http"] = r]
            BY <1>3, <2>1 DEF Abort, BeginCheck, BeginErase, BeginHandle, Write, Finish,
                              FinishSetsBoot, SelectPrevious, FailMaintenance, Answer, Replies
        <3> QED BY <1>t, <3>1 DEF TypeOK, Tasks
    <2> QED BY <2>1, <2>2, <2>3, <2>4 DEF LockInv, Confirmed
<1>4. CASE WorkerQuiesceTimeout
    <2>1. /\ UNCHANGED <<otaState, running, mpc, pending>> /\ maintenance' = FALSE
          /\ Answer("TIMEOUT") /\ current \in Tasks /\ command[current] # "none"
        BY <1>4, <1>t, WorkerFacts DEF WorkerQuiesceTimeout
    <2>2. reply'["main"] \in {reply["main"], "TIMEOUT"} /\ (current = "main" => ~Confirmed)
        BY <1>t, <2>1, AnswerFacts, CommandFacts DEF Tasks, Replies, Confirmed
    <2>3. reply'["main"] = reply["main"] \/ ~Confirmed
        BY <1>t, <2>1, <2>2, AnswerFacts DEF Tasks, Replies
    <2> QED BY <2>1, <2>2, <2>3 DEF LockInv, Confirmed
<1>5. CASE Confirm
    <2>1. /\ current = "main" /\ command["main"] = "CONFIRM" /\ mpc = "confirm" /\ pending
          /\ ~Confirmed
        BY <1>5, <1>t, WorkerFacts, CommandFacts DEF Confirm, LockInv, Confirmed, Tasks
    <2>2. UNCHANGED <<running, mpc, pending>> /\ maintenance' = FALSE
        BY <1>5 DEF Confirm, MaintenanceAfterConfirm
    <2>3. \/ Answer("OK")
          \/ Answer("FAIL") /\ otaState' = otaState
        BY <1>5 DEF Confirm
    <2>4. \/ reply'["main"] = "OK"
          \/ reply'["main"] = "FAIL" /\ otaState' = otaState
        BY <1>t, <2>1, <2>3, AnswerFacts DEF Tasks, Replies
    <2> QED BY <2>1, <2>2, <2>4 DEF LockInv, Confirmed
<1>6. CASE RollbackReturns
    <2>1. current = "main" /\ command["main"] = "ROLLBACK" /\ mpc \in {"rollback", "give_up"}
        BY <1>6, <1>t, WorkerFacts, CommandFacts DEF RollbackReturns
    <2>2. UNCHANGED <<otaState, running, mpc, pending>>
        BY <1>6 DEF RollbackReturns
    <2> QED BY <2>1, <2>2 DEF LockInv, Confirmed
<1> QED BY <1>1, <1>2, <1>3, <1>4, <1>5, <1>6 DEF WorkerStep

\* A step of the HTTP task ends the lock, or leaves it to a restart.
LEMMA LockHttpStep == ASSUME CoreInv, SlotInv, BusyInv, LockInv, HttpStep PROVE LockInv'
<1> USE DEF flashVars, workerVars, httpVars, mainVars, fanVars, boundVars
<1>t. TypeOK
    BY DEF CoreInv
<1>f. UNCHANGED <<otaState, bootSlot, running, current, mpc, pending>>
    BY HttpFrame
<1>r. reply'["main"] = reply["main"]
    <2>1. reply' = reply \/ ReadReply
        BY DEF HttpStep, UploadStart, UploadReceives, UploadInterrupted, UploadContinues,
               RequestFails, FailureEnds, RequestAccepted, RollbackStart, RollbackNotFound,
               ProvisionStart, ProvisionQuiesced, ProvisionTimeout, ProvisionSaved
    <2> QED BY <1>t, <2>1 DEF ReadReply, TypeOK, Tasks
<1>l. \/ hpc' # "idle" \/ maintenance' = FALSE \/ restarting' \/ bootSlot # running
      \/ hpc = "idle" /\ UNCHANGED <<maintenance, restarting>>
    <2>1. CASE UploadStart \/ UploadReceives \/ UploadInterrupted \/ UploadContinues
        BY <2>1
        DEF UploadStart, UploadReceives, UploadInterrupted, UploadContinues, StartFailure
    <2>2. CASE RequestFails \/ FailureEnds \/ RollbackStart \/ RollbackNotFound
        BY <2>2 DEF RequestFails, FailureEnds, RollbackStart, RollbackNotFound, StartFailure
    <2>3. CASE RequestAccepted
        BY <2>3 DEF RequestAccepted, BusyInv
    <2>4. CASE ProvisionStart \/ ProvisionQuiesced \/ ProvisionTimeout \/ ProvisionSaved
        BY <2>4 DEF ProvisionStart, ProvisionQuiesced, ProvisionTimeout, ProvisionSaved
    <2> QED BY <2>1, <2>2, <2>3, <2>4 DEF HttpStep
<1> QED BY <1>f, <1>r, <1>l DEF LockInv, Confirmed

\* app_main submits only in a probation, and ends it only after a confirmation.
LEMMA LockMainStep == ASSUME CoreInv, LockInv, MainStep PROVE LockInv'
<1> USE DEF flashVars, workerVars, httpVars, mainVars, fanVars, boundVars
<1>t. TypeOK /\ ProtocolInv
    BY DEF CoreInv
<1>f. UNCHANGED <<otaState, bootSlot, running, current, hpc, restarting, maintenance>>
    BY MainFrame
<1>c. mpc \in {"boot", "loop"} => reply["main"] = "none"
    BY <1>t, CommandFacts
<1>1. CASE MainStart(TRUE) \/ MainStart(FALSE)
    <2>1. /\ mpc = "boot" /\ UNCHANGED <<reply, pending>>
          /\ mpc' = "loop" \/ (mpc' = "rollback" /\ pending)
        BY <1>1 DEF MainStart
    <2> QED BY <1>f, <1>c, <2>1 DEF LockInv, Confirmed
<1>2. CASE MainRetriesNetwork \/ MainSeesNetwork \/ MainRollsBack \/ MainConfirms
    <2>1. /\ mpc = "loop" /\ UNCHANGED <<reply, pending>>
          /\ mpc' = "loop" \/ (mpc' \in {"rollback", "confirm"} /\ pending)
        BY <1>2 DEF MainRetriesNetwork, MainSeesNetwork, MainRollsBack, MainConfirms
    <2> QED BY <1>f, <1>c, <2>1 DEF LockInv, Confirmed
<1>3. CASE MainAfterRollback
    <2>1. mpc \in {"rollback", "give_up"} /\ mpc' = "loop" /\ UNCHANGED pending
        BY <1>3 DEF MainAfterRollback
    <2> QED BY <1>f, <2>1 DEF LockInv, Confirmed
<1>4. CASE MainAfterConfirm
    <2>1. /\ mpc = "confirm" /\ reply["main"] # "none"
          /\ \/ reply["main"] = "OK" /\ pending' = FALSE /\ mpc' = "loop"
             \/ reply["main"] # "OK" /\ pending' = pending /\ mpc' \in {"loop", "give_up"}
        BY <1>4 DEF MainAfterConfirm
    <2>2. CASE reply["main"] = "OK"
        BY <1>f, <2>1, <2>2 DEF LockInv, Confirmed
    <2>3. CASE reply["main"] # "OK"
        <3>1. ~Confirmed /\ pending
            BY <2>1, <2>3 DEF LockInv, Confirmed
        <3>2. UNCHANGED pending /\ mpc' \in {"loop", "give_up"}
            BY <2>1, <2>3
        <3>3. ~Confirmed'
            BY <3>2 DEF Confirmed
        <3> QED BY <1>f, <3>1, <3>2, <3>3 DEF LockInv
    <2> QED BY <2>2, <2>3
<1> QED BY <1>1, <1>2, <1>3, <1>4 DEF MainStep

\* Every step keeps the invariant of the lock.
LEMMA LockStep == CoreInv /\ SlotInv /\ BusyInv /\ LockInv /\ [Next]_vars => LockInv'
<1> SUFFICES ASSUME CoreInv, SlotInv, BusyInv, LockInv, [Next]_vars PROVE LockInv'
    OBVIOUS
<1>1. CASE EnvironmentStep
    BY <1>1, EnvironmentFrame DEF LockInv, Confirmed
<1>2. CASE PowerLoss \/ PlannedRestart
    <2>1. RamAtBoot /\ (pending' => otaState'[running'] = "PENDING")
        BY <1>2, Restarts, BootFacts DEF CoreInv, Reboot
    <2> QED BY <2>1 DEF RamAtBoot, LockInv
<1> QED BY <1>1, <1>2, LockWorkerStep, LockHttpStep, LockMainStep DEF Next, EnvironmentStep

\* The invariant of the lock holds in every reachable state.
THEOREM LockInvariant == Spec => []LockInv
<1>1. Init => LockInv
    BY DEF Init, LockInv
<1>2. CoreInv /\ SlotInv /\ BusyInv /\ LockInv /\ [Next]_vars => LockInv'
    BY LockStep
<1> QED BY <1>1, <1>2, SlotInvariant, PTL DEF Spec

\* Whatever requests come and fail, the fan is locked only for an operation, a coming
\* restart, or a probation.
THEOREM FanIsLockedForAReason == Spec => []FanLockedOnlyForOperation
<1>1. LockInv => FanLockedOnlyForOperation
    BY DEF LockInv, FanLockedOnlyForOperation
<1> QED BY <1>1, LockInvariant, PTL

----------------------------------------------------------------------------
(* The fan during a flash operation.                                       *)

\* While an image is written app_main has no command: there is no probation.
LEMMA WriterIsAlone ==
    ASSUME CoreInv, LockInv, UploadInv, writing
    PROVE  command["main"] = "none" /\ current # "main"
<1>1. TypeOK /\ ProtocolInv
    BY DEF CoreInv
<1>2. command["main"] # "none" => pending /\ reply["main"] = "none"
    BY <1>1, CommandFacts DEF LockInv, Tasks
<1>3. command["main"] = "none"
    BY <1>2 DEF LockInv, Confirmed, UploadInv
<1>4. current = "main" => command["main"] # "none"
    BY <1>1, WorkerFacts DEF ProtocolInv, StepsOf, Tasks
<1> QED BY <1>3, <1>4

\* fail_maintenance for a command of the handler ends the upload.
LEMMA FailKeepsUpload ==
    ASSUME CoreInv, UploadInv, current = "http", command["http"] # "none",
           NEW result \in Replies \ {"none"}, result = "OK" => hpc = "failing",
           FailMaintenance(result), UNCHANGED <<hpc, quiesced, fanOn>>
    PROVE  UploadInv'
<1>1. TypeOK /\ ProtocolInv /\ BufferInv
    BY DEF CoreInv
<1>2. Answer(result) /\ writing' = FALSE
    BY DEF FailMaintenance
<1>3. reply'["http"] = result /\ command'["http"] = "none" /\ wpc' = "idle"
    BY <1>1, <1>2, AnswerFacts DEF Tasks
<1>4. hpc # "receive"
    BY <1>1, CommandFacts
<1> QED BY <1>2, <1>3, <1>4 DEF UploadInv

\* A step of the worker stops the fan before the flash is touched and keeps it off.
LEMMA UploadWorkerStep ==
    ASSUME CoreInv, SlotInv, BusyInv, LockInv, UploadInv, WorkerStep
    PROVE  UploadInv'
<1> USE DEF flashVars, workerVars, httpVars, mainVars, fanVars, boundVars
<1>t. TypeOK /\ ProtocolInv /\ BufferInv
    BY DEF CoreInv
<1>s. command \in [Tasks -> Commands] /\ reply \in [Tasks -> Replies] /\ current \in Tasks \cup {"none"}
      /\ otaState \in [Slots -> States] /\ running \in Slots /\ Other(running) # running
    BY <1>t, OtherFacts DEF TypeOK, Commands, Replies, States
<1>1. CASE RollbackReboots
    <2>1. RamAtBoot
        BY <1>1, <1>t, Restarts DEF Reboot
    <2> QED BY <2>1 DEF RamAtBoot, UploadInv, Tasks
<1>2. CASE RefreshValidationCache
    BY <1>2 DEF RefreshValidationCache, UploadInv
<1>3. ASSUME NEW task \in Tasks, TakeCommand(task) PROVE UploadInv'
    <2>1. /\ UNCHANGED <<command, reply, hpc, writing, otaState, running, quiesced, fanOn>>
          /\ current' = task /\ command[task] # "none" /\ wpc = "idle"
          /\ maintenance => maintenance'
          /\ wpc' = "quiesce" => maintenance'
        BY <1>3, <1>s DEF TakeCommand, QuiescingCommands, FirstStep
    <2>2. wpc' = IF command[task] \in QuiescingCommands THEN "quiesce"
                 ELSE FirstStep(command[task])
        BY <1>3 DEF TakeCommand
    <2>3. /\ wpc' = "write" => task = "http" /\ command["http"] = "WRITE"
          /\ wpc' = "finish" => task = "http" /\ command["http"] = "FINISH"
          /\ wpc' \in {"quiesce", "write", "finish", "fail"}
        BY <1>s, <1>t, <2>1, <2>2, CommandFacts
        DEF QuiescingCommands, FirstStep, Commands, Tasks
    <2>4. wpc' \in {"write", "finish"} => writing
        BY <2>1, <2>3 DEF UploadInv
    <2>5. writing => command["http"] # "BEGIN"
        BY <2>1 DEF UploadInv
    <2> QED BY <2>1, <2>3, <2>4, <2>5 DEF UploadInv
<1>4. CASE WorkerQuiesced
    <2>1. /\ UNCHANGED <<command, reply, hpc, writing, otaState, running, current>>
          /\ UNCHANGED <<maintenance, quiesced, fanOn>> /\ quiesced /\ wpc = "quiesce"
        BY <1>4 DEF WorkerQuiesced
    <2>2. writing => command["http"] # "BEGIN"
        BY <2>1 DEF UploadInv
    <2>3. maintenance /\ ~fanOn
        BY <2>1 DEF UploadInv
    <2>4. wpc' \notin {"setboot", "quiesce"} /\ (command["http"] = "FINISH" => writing)
        BY <1>4, <2>1, <1>t, WorkerFacts DEF WorkerQuiesced, FirstStep, UploadInv
    <2> QED BY <2>1, <2>2, <2>3, <2>4 DEF UploadInv
<1>5. CASE WorkerQuiesceTimeout
    <2>1. /\ current \in Tasks /\ wpc = "quiesce"
          /\ command[current] \in {"BEGIN", "SELECT", "CONFIRM", "ROLLBACK"}
        BY <1>5, <1>t, WorkerFacts DEF WorkerQuiesceTimeout
    <2>2. /\ Answer("TIMEOUT") /\ UNCHANGED <<hpc, writing, quiesced, fanOn>>
        BY <1>5 DEF WorkerQuiesceTimeout
    <2>3. ~writing
        <3>1. current = "http" => hpc \in {"writing", "selecting"}
            BY <1>t, <2>1, CommandFacts
        <3>2. writing => current = "http" /\ command["http"] # "BEGIN" /\ hpc # "selecting"
            BY <2>1, WriterIsAlone DEF UploadInv, Tasks
        <3>3. command["http"] = "SELECT" => hpc = "selecting"
            BY <1>t, CommandFacts
        <3> QED BY <1>t, <2>1, <3>2, <3>3, CommandFacts
    <2>4. /\ reply'["http"] \in {reply["http"], "TIMEOUT"} /\ command'["http"] \in {command["http"], "none"}
          /\ wpc' = "idle" /\ (reply'["http"] = "OK" => reply["http"] = "OK")
        BY <1>t, <2>1, <2>2, AnswerFacts DEF Tasks, Replies
    <2> QED BY <2>1, <2>2, <2>3, <2>4 DEF UploadInv
<1>6. CASE Abort
    <2>1. current = "http" /\ command["http"] = "ABORT" /\ hpc = "failing"
        BY <1>6, <1>t, WorkerFacts, CommandFacts DEF Abort
    <2> QED BY <1>6, <2>1, FailKeepsUpload DEF Abort, Replies
<1>7. CASE BeginCheck \/ BeginErase \/ BeginHandle
    <2>1. /\ current = "http" /\ command["http"] = "BEGIN" /\ hpc = "writing"
          /\ wpc \in {"header", "erase", "begin"} /\ reply["http"] = "none"
        BY <1>7, <1>t, WorkerFacts, CommandFacts
        DEF BeginCheck, BeginErase, BeginHandle, Tasks
    <2>2. UNCHANGED <<hpc, running, otaState, quiesced, fanOn>>
        BY <1>7 DEF BeginCheck, BeginErase, BeginHandle
    <2>3. CASE wpc' = "idle"
        <3>1. FailMaintenance("INVALID") \/ FailMaintenance("FAIL")
            BY <1>7, <2>3 DEF BeginCheck, BeginErase, BeginHandle
        <3> QED BY <2>1, <2>2, <3>1, FailKeepsUpload DEF Replies
    <2>4. CASE wpc' # "idle"
        <3>1. UNCHANGED <<command, reply, current, maintenance>>
            BY <1>7, <2>4 DEF BeginCheck, BeginErase, BeginHandle, FailMaintenance, Answer
        <3>2. ~writing
            BY <2>1 DEF UploadInv
        <3>3. CASE BeginHandle
            <4>1. otaState[running] # "PENDING" /\ wpc = "begin" /\ wpc' = "write"
                BY <2>4, <3>3 DEF BeginHandle, FailMaintenance, Answer
            <4> QED BY <2>1, <2>2, <3>1, <4>1 DEF UploadInv
        <3>4. CASE BeginErase
            <4>1. writing' = writing /\ wpc = "erase" /\ wpc' = "begin"
                BY <2>4, <3>4 DEF BeginErase, FailMaintenance, Answer
            <4> QED BY <2>1, <2>2, <3>1, <3>2, <4>1 DEF UploadInv
        <3>5. CASE BeginCheck
            <4>1. writing' = writing /\ wpc' = "erase" /\ wpc = "header"
                BY <2>4, <3>5 DEF BeginCheck, FailMaintenance, Answer
            <4>2. maintenance /\ ~fanOn
                BY <2>1, <4>1 DEF UploadInv
            <4> QED BY <2>1, <2>2, <3>1, <3>2, <4>1, <4>2 DEF UploadInv
        <3> QED BY <1>7, <3>3, <3>4, <3>5
    <2> QED BY <2>3, <2>4
<1>8. CASE Write
    <2>1. /\ current = "http" /\ command["http"] \in {"BEGIN", "WRITE"} /\ hpc = "writing"
        BY <1>8, <1>t, WorkerFacts, CommandFacts DEF Write
    <2>2. UNCHANGED <<hpc, running, otaState, quiesced, fanOn>>
        BY <1>8 DEF Write
    <2>3. CASE FailMaintenance("INVALID") \/ FailMaintenance("FAIL")
        BY <2>1, <2>2, <2>3, FailKeepsUpload DEF Replies
    <2>4. CASE writing /\ Answer("OK") /\ UNCHANGED <<writing, maintenance>>
        <3>1. reply'["http"] = "OK" /\ command'["http"] = "none" /\ wpc' = "idle"
            BY <1>t, <2>1, <2>4, AnswerFacts DEF Tasks, Replies
        <3> QED BY <2>1, <2>2, <2>4, <3>1 DEF UploadInv
    <2> QED BY <1>8, <2>3, <2>4 DEF Write
<1>9. CASE Finish
    <2>1. current = "http" /\ command["http"] = "FINISH" /\ hpc = "finishing" /\ wpc = "finish"
        BY <1>9, <1>t, WorkerFacts, CommandFacts DEF Finish
    <2>2. UNCHANGED <<hpc, quiesced, fanOn>>
        BY <1>9 DEF Finish
    <2>3. CASE FailMaintenance("INVALID") \/ FailMaintenance("FAIL")
        BY <2>1, <2>2, <2>3, FailKeepsUpload DEF Replies
    <2>4. CASE writing' = FALSE /\ wpc' = "setboot" /\ UNCHANGED <<command, reply, maintenance>>
        BY <2>1, <2>2, <2>4 DEF UploadInv
    <2> QED BY <1>9, <2>3, <2>4 DEF Finish
<1>9a. CASE FinishSetsBoot
    <2>1. current = "http" /\ command["http"] = "FINISH" /\ hpc = "finishing" /\ wpc = "setboot"
        BY <1>9a, <1>t, WorkerFacts, CommandFacts DEF FinishSetsBoot
    <2>2. UNCHANGED <<hpc, quiesced, fanOn>> /\ ~writing
        BY <1>9a, <2>1 DEF FinishSetsBoot, SlotInv
    <2>3. CASE FailMaintenance("FAIL")
        BY <2>1, <2>2, <2>3, FailKeepsUpload DEF Replies
    <2>4. CASE Answer("OK") /\ UNCHANGED writing
        <3>1. command'["http"] = "none" /\ wpc' = "idle"
            BY <1>t, <2>1, <2>4, AnswerFacts DEF Tasks, Replies
        <3> QED BY <2>1, <2>2, <2>4, <3>1 DEF UploadInv
    <2> QED BY <1>9a, <2>3, <2>4 DEF FinishSetsBoot
<1>10. CASE SelectPrevious
    <2>1. hpc = "selecting"
        BY <1>10, <1>t, WorkerFacts, CommandFacts DEF SelectPrevious
    <2> QED BY <2>1 DEF UploadInv
<1>11. CASE Confirm \/ RollbackReturns
    <2>1. current = "main" /\ command["main"] # "none" /\ wpc \in {"confirm", "rollback"}
        BY <1>11, <1>t, WorkerFacts DEF Confirm, RollbackReturns
    <2>2. ~writing
        BY <2>1, WriterIsAlone
    <2>3. Answer("OK") \/ Answer("FAIL")
        BY <1>11 DEF Confirm, RollbackReturns
    <2>4. reply'["http"] = reply["http"] /\ command'["http"] = command["http"] /\ wpc' = "idle"
        BY <1>t, <2>1, <2>3, AnswerFacts DEF Tasks, Replies
    <2>5. UNCHANGED <<hpc, writing, quiesced, fanOn>>
        BY <1>11 DEF Confirm, RollbackReturns
    <2> QED BY <2>1, <2>2, <2>4, <2>5 DEF UploadInv
<1> QED BY <1>1, <1>2, <1>3, <1>4, <1>5, <1>6, <1>7, <1>8, <1>9, <1>9a, <1>10, <1>11
    DEF WorkerStep

\* Without rollback and provisioning requests, no handler ends the lock of another.
LEMMA UploadHttpStep ==
    ASSUME CoreInv, SlotInv, BusyInv, LockInv, UploadInv, HttpStep, Requests \subseteq {"upload"}
    PROVE  UploadInv'
<1> USE DEF flashVars, workerVars, httpVars, mainVars, fanVars, boundVars
<1>t. TypeOK /\ ProtocolInv
    BY DEF CoreInv
<1>s. command \in [Tasks -> Commands] /\ reply \in [Tasks -> Replies] /\ "http" \in Tasks
    BY <1>t DEF TypeOK, Commands, Replies, Tasks
<1>f. UNCHANGED <<otaState, running, wpc, current, writing, quiesced, fanOn>>
    BY HttpFrame
<1>c. /\ hpc \in {"idle", "preflight", "receive", "quiescing", "saving"} =>
            command["http"] = "none" /\ reply["http"] = "none"
      /\ reply["http"] # "none" => command["http"] = "none" /\ wpc = "idle"
    BY <1>t, CommandFacts DEF Tasks, ProtocolInv, HttpRuns
<1>r. ReadReply => reply'["http"] = "none"
    BY <1>s DEF ReadReply
<1>u. \A type : SubmitTo("http", type) => command'["http"] = type
    BY <1>s DEF SubmitTo
<1>0. ~(RollbackStart \/ RollbackNotFound \/ ProvisionStart \/ ProvisionQuiesced
        \/ ProvisionTimeout \/ ProvisionSaved)
    BY
    DEF RollbackStart, RollbackNotFound, ProvisionStart, ProvisionQuiesced,
        ProvisionTimeout,
           ProvisionSaved, UploadInv
<1>1. CASE UploadStart
    <2>1. ~workerBusy /\ UNCHANGED <<command, reply, maintenance>> /\ hpc = "idle"
          /\ hpc' \in {"idle", "preflight"}
        BY <1>1 DEF UploadStart, OtaIsBusy
    <2> QED BY <1>f, <1>c, <2>1 DEF UploadInv
<1>2. CASE UploadReceives
    <2>1. /\ UNCHANGED <<reply, maintenance>> /\ hpc \in {"preflight", "receive"}
          /\ hpc' = "writing"
          /\ hpc = "preflight" => command'["http"] = "BEGIN"
          /\ hpc = "receive" => command'["http"] = "WRITE"
        BY <1>2, <1>u DEF UploadReceives
    <2>2. hpc = "preflight" => ~writing
        BY DEF SlotInv, BusyInv
    <2>3. hpc = "receive" => writing
        BY DEF UploadInv
    <2> QED BY <1>f, <1>c, <2>1, <2>2, <2>3 DEF UploadInv
<1>3. CASE UploadInterrupted
    <2>1. /\ UNCHANGED <<reply, maintenance>> /\ hpc \in {"preflight", "receive"}
          /\ hpc' = "failing" /\ command'["http"] = "ABORT"
        BY <1>3, <1>u DEF UploadInterrupted, StartFailure
    <2> QED BY <1>f, <1>c, <2>1 DEF UploadInv
<1>4. CASE UploadContinues
    <2>1. /\ hpc = "writing" /\ reply["http"] = "OK" /\ reply'["http"] = "none"
          /\ UNCHANGED maintenance
        BY <1>4, <1>r DEF UploadContinues
    <2>2. \/ hpc' = "receive" /\ UNCHANGED command
          \/ hpc' = "failing" /\ command'["http"] = "ABORT"
          \/ hpc' = "finishing" /\ command'["http"] = "FINISH"
        BY <1>4, <1>u DEF UploadContinues, StartFailure
    <2>3. writing
        BY <2>1 DEF UploadInv
    <2> QED BY <1>f, <1>c, <2>1, <2>2, <2>3 DEF UploadInv
<1>5. CASE RequestFails
    <2>1. /\ hpc' = "failing" /\ command'["http"] = "ABORT" /\ reply'["http"] = "none"
          /\ UNCHANGED maintenance /\ reply["http"] # "none"
        BY <1>5, <1>r, <1>u DEF RequestFails, StartFailure
    <2> QED BY <1>f, <1>c, <2>1 DEF UploadInv
<1>6. CASE FailureEnds
    <2>1. /\ hpc = "failing" /\ reply["http"] # "none" /\ hpc' = "idle" /\ UNCHANGED command
        BY <1>6 DEF FailureEnds
    <2>2. ~writing /\ wpc = "idle" /\ command["http"] = "none"
        BY <1>c, <2>1 DEF UploadInv
    <2> QED BY <1>f, <2>1, <2>2 DEF UploadInv
<1>7. CASE RequestAccepted
    <2>1. hpc' = "idle" /\ reply["http"] = "OK" /\ UNCHANGED <<command, maintenance>>
        BY <1>7 DEF RequestAccepted
    <2> QED BY <1>f, <1>c, <2>1 DEF UploadInv
<1> QED BY <1>0, <1>1, <1>2, <1>3, <1>4, <1>5, <1>6, <1>7 DEF HttpStep

\* For a device that only receives uploads, every step keeps the fan off during a flash
\* operation.
LEMMA UploadStep ==
    ASSUME Requests \subseteq {"upload"}
    PROVE  CoreInv /\ SlotInv /\ BusyInv /\ LockInv /\ UploadInv /\ [Next]_vars => UploadInv'
<1> SUFFICES ASSUME CoreInv, SlotInv, BusyInv, LockInv, UploadInv, [Next]_vars PROVE UploadInv'
    OBVIOUS
<1>t. TypeOK
    BY DEF CoreInv
<1>1. CASE MainStep
    <2>1. /\ UNCHANGED <<otaState, running, wpc, current, writing, hpc>>
          /\ UNCHANGED <<maintenance, quiesced, fanOn>>
        BY <1>1, MainFrame
    <2>2. command'["http"] = command["http"] /\ reply'["http"] = reply["http"]
        BY <1>1, <1>t, MainKeepsHttp
    <2> QED BY <2>1, <2>2 DEF UploadInv
<1>2. CASE EnvironmentStep
    <2>1. UNCHANGED <<otaState, running, wpc, current, writing, hpc, maintenance, command, reply>>
        BY <1>2, EnvironmentFrame
    <2>2. (maintenance /\ ~fanOn => ~fanOn') /\ (quiesced' => ~fanOn')
        BY <1>2 DEF EnvironmentStep, IntervalEnds, NetworkChanges, UserTurnsFan, FanStops,
                    FanReady, FanFaults, vars, fanVars, UploadInv
    <2> QED BY <2>1, <2>2 DEF UploadInv
<1>3. CASE PowerLoss \/ PlannedRestart
    <2>1. RamAtBoot
        BY <1>3, <1>t, Restarts DEF Reboot
    <2> QED BY <2>1 DEF RamAtBoot, UploadInv, Tasks
<1> QED BY <1>1, <1>2, <1>3, UploadWorkerStep, UploadHttpStep DEF Next, EnvironmentStep

\* The fan is off whenever the flash is written, if no rollback or provisioning request
\* comes in between: those end the lock of the operation that is going on.
THEOREM FlashIsWrittenWhileOff ==
    ASSUME Requests \subseteq {"upload"}
    PROVE  Spec => []FlashOnlyWhileOff
<1>1. Init => UploadInv
    BY DEF Init, UploadInv, Tasks
<1>2. CoreInv /\ SlotInv /\ BusyInv /\ LockInv /\ UploadInv /\ [Next]_vars => UploadInv'
    BY UploadStep
<1>3. UploadInv => FlashOnlyWhileOff
    BY DEF UploadInv, FlashOnlyWhileOff, FlashInUse
<1> QED BY <1>1, <1>2, <1>3, SlotInvariant, LockInvariant, PTL DEF Spec

=============================================================================
