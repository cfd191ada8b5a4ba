--------------------------- MODULE FirmwareUpdate ---------------------------
(***************************************************************************)
(* Firmware update, manual rollback, provisioning and boot probation: the  *)
(* OTA worker (main/ota_worker.c), the image writer (main/ota_update.c),   *)
(* the HTTP handlers that drive them (main/network.c) and the probation of *)
(* a new image in app_main (main/main.c).                                  *)
(*                                                                         *)
(* Three tasks share one core.  The HTTP task (priority 5) runs one        *)
(* handler at a time and outranks the worker (4), which outranks app_main  *)
(* (1): a handler that has its answer goes on to its next blocking call    *)
(* before either of the others moves.  A task is interrupted only where it *)
(* blocks: a socket read, a wait for the worker, a wait for the fan, a     *)
(* flash operation.  Power fails between any two steps.                    *)
(*                                                                         *)
(* The fan is seen through its promises (proved of FanControl): while the  *)
(* flag is set it stops and takes no command, and a quiesce times out only *)
(* when a fault is latched or another task has cleared the flag.           *)
(***************************************************************************)
EXTENDS Naturals

CONSTANTS
    Requests,           \* HTTP requests that clients send, among AllRequests
    Chunks,             \* buffers of data in an image
    FanMayFail,         \* the fan actor may latch a fault
    MaxFlashErrors,     \* bound: flash operations that fail
    MaxAllocFailures,   \* bound: heap allocations that fail
    MaxPowerLosses      \* bound: power losses

AllRequests == {"upload", "rollback", "provision"}
ASSUME RequestsAssumption == Requests \subseteq AllRequests
ASSUME ChunksAssumption == Chunks \in Nat \ {0}
ASSUME FanMayFailAssumption == FanMayFail \in BOOLEAN
ASSUME LimitsAssumption ==
    MaxFlashErrors \in Nat /\ MaxAllocFailures \in Nat /\ MaxPowerLosses \in Nat

VARIABLES
    \* Flash, kept without power.
    image,          \* what each slot holds
    otaState,       \* the state of each slot in the OTA data
    bootSlot,       \* the slot the bootloader tries first
    \* The worker and the writer.
    running,        \* the slot of the running image
    wpc,            \* where the worker is
    current,        \* whose command it executes
    command,        \* the command each task has submitted
    reply,          \* the answer each task has not read yet
    workerBusy,     \* s_busy of ota_worker.c
    writing,        \* s_busy of ota_update.c
    written,        \* s_written, in buffers
    free,           \* buffers in s_free_queue
    lent,           \* who holds a buffer: the handler or the command
    validation,     \* s_validation
    \* The HTTP task.
    hpc,            \* the handler's blocking point
    requestActive,  \* s_ota_request_active
    upload,         \* the image being uploaded
    received,       \* buffers received of it
    restarting,     \* restart_task exists
    httpReady,      \* s_http_ready
    \* app_main.
    mpc,
    pending,        \* ota_pending
    seen,           \* ota_network_seen
    elapsed,        \* the probation interval is over
    connected,      \* s_connected
    \* The fan.
    maintenance,    \* s_maintenance_requested
    quiesced,       \* EVENT_QUIESCED
    fanOn,
    fanFault,
    \* Bounds.
    flashErrors, allocFailures, powerLosses

flashVars  == <<image, otaState, bootSlot>>
workerVars == <<running, wpc, current, command, reply, workerBusy, writing, written,
                free, lent, validation>>
httpVars   == <<hpc, requestActive, upload, received, restarting, httpReady>>
mainVars   == <<mpc, pending, seen, elapsed, connected>>
fanVars    == <<maintenance, quiesced, fanOn, fanFault>>
boundVars  == <<flashErrors, allocFailures, powerLosses>>
vars == <<flashVars, workerVars, httpVars, mainVars, fanVars, boundVars>>

Slots    == {0, 1}
Other(s) == 1 - s
Tasks    == {"http", "main"}

\* What a client may upload: a foreign header, a wrong signature, or a good image.
Uploads == {"foreign", "unsigned", "good"}

----------------------------------------------------------------------------
(* External: the bootloader and esp_ota_*, as the code uses them.          *)

Selectable(s, img, os) == img[s] = "good" /\ os[s] \notin {"INVALID", "ABORTED"}

\* esp_ota_check_rollback_is_possible: the entry that is not the active one names
\* an image that verifies.
RollbackPossible == Selectable(Other(bootSlot), image, otaState)

\* esp_ota_set_boot_partition of the slot that does not run.
SetBootPartition ==
    /\ otaState' = [otaState EXCEPT ![Other(running)] = "NEW"]
    /\ bootSlot' = Other(running)

\* A NEW image runs in state PENDING_VERIFY; an entry found in that state at boot
\* is ABORTED and the other slot runs.  With no slot to select the bootloader runs
\* the first image that verifies.
BootInto(slot, os) ==
    /\ running' = slot /\ bootSlot' = slot
    /\ otaState' = [os EXCEPT ![slot] = IF os[slot] = "NEW" THEN "PENDING" ELSE os[slot]]
    /\ pending' = (os[slot] = "NEW")

Bootloader(os, slot) ==
    LET aborted == [s \in Slots |-> IF os[s] = "PENDING" THEN "ABORTED" ELSE os[s]]
    IN  IF Selectable(slot, image, aborted) THEN BootInto(slot, aborted)
        ELSE IF Selectable(Other(slot), image, aborted) THEN BootInto(Other(slot), aborted)
        ELSE BootInto(IF image[0] = "good" THEN 0 ELSE 1, aborted)

----------------------------------------------------------------------------
RamAtBoot ==
    /\ wpc' = "start" /\ current' = "none"
    /\ command' = [t \in Tasks |-> "none"] /\ reply' = [t \in Tasks |-> "none"]
    /\ workerBusy' = FALSE /\ writing' = FALSE /\ written' = 0
    /\ free' = 2 /\ lent' = {} /\ validation' = "pending"
    /\ hpc' = "idle" /\ requestActive' = FALSE /\ upload' = "good" /\ received' = 0
    /\ restarting' = FALSE /\ httpReady' = FALSE
    /\ mpc' = "boot" /\ seen' = FALSE /\ elapsed' = FALSE /\ connected' = FALSE
    /\ maintenance' = FALSE /\ quiesced' = FALSE /\ fanOn' = FALSE

Init ==
    /\ image \in {[s \in Slots |-> "good"], [s \in Slots |-> IF s = 0 THEN "good" ELSE "erased"]}
    /\ otaState = [s \in Slots |-> IF image[s] = "good" THEN "VALID" ELSE "UNDEFINED"]
    /\ bootSlot = 0 /\ running = 0
    /\ wpc = "start" /\ current = "none"
    /\ command = [t \in Tasks |-> "none"] /\ reply = [t \in Tasks |-> "none"]
    /\ workerBusy = FALSE /\ writing = FALSE /\ written = 0
    /\ free = 2 /\ lent = {} /\ validation = "pending"
    /\ hpc = "idle" /\ requestActive = FALSE /\ upload = "good" /\ received = 0
    /\ restarting = FALSE /\ httpReady = FALSE
    /\ mpc = "boot" /\ pending = FALSE /\ seen = FALSE /\ elapsed = FALSE
    /\ connected = FALSE
    /\ maintenance = FALSE /\ quiesced = FALSE /\ fanOn = FALSE /\ fanFault = FALSE
    /\ flashErrors = 0 /\ allocFailures = 0 /\ powerLosses = 0

\* A cold boot also clears a latched fan fault.
PowerLoss ==
    /\ powerLosses < MaxPowerLosses /\ powerLosses' = powerLosses + 1
    /\ Bootloader(otaState, bootSlot)
    /\ RamAtBoot
    /\ fanFault' = FALSE
    /\ UNCHANGED <<image, flashErrors, allocFailures>>

\* restart_task: the planned restart, 1.5 seconds after the answer was sent.
PlannedRestart ==
    /\ restarting
    /\ Bootloader(otaState, bootSlot)
    /\ RamAtBoot
    /\ UNCHANGED <<image, fanFault, boundVars>>

----------------------------------------------------------------------------
(* Tasks and the scheduler.                                                *)

\* The HTTP task is ready to run: nothing of a lower priority does.
HttpRuns == reply["http"] # "none"

FlashError ==
    flashErrors < MaxFlashErrors /\ flashErrors' = flashErrors + 1

AllocFailure ==
    allocFailures < MaxAllocFailures /\ allocFailures' = allocFailures + 1

\* submit: the command waits for the mutex and the worker, the task for the answer.
SubmitTo(task, type) == command' = [command EXCEPT ![task] = type]

\* release_command_buffer: the two commands that carry a buffer give it back.
ReleaseCommandBuffer ==
    IF command[current] \in {"BEGIN", "WRITE"}
    THEN free' = free + 1 /\ lent' = lent \ {"command"}
    ELSE UNCHANGED <<free, lent>>

\* Mutant: EVENT_COMMAND_DONE is set for a command that succeeded only.
AnswerOnSuccess(result) ==
    /\ reply' = [reply EXCEPT ![current] = IF result = "OK" THEN result ELSE @]
    /\ command' = [command EXCEPT ![current] = "none"]
    /\ current' = "none" /\ wpc' = "idle"
    /\ ReleaseCommandBuffer

\* The worker answers, releases the command's buffer and waits for a command.
Answer(result) ==
    /\ reply' = [reply EXCEPT ![current] = result]
    /\ command' = [command EXCEPT ![current] = "none"]
    /\ current' = "none" /\ wpc' = "idle"
    /\ ReleaseCommandBuffer

----------------------------------------------------------------------------
(* The worker task.                                                        *)

\* info.previous_available of ota_update_get_info; a slot that can be selected has a
\* readable description.
PreviousAvailable == RollbackPossible

\* refresh_validation_cache, once, when the task starts (an error reads as invalid).
RefreshValidationCache ==
    /\ wpc = "start" /\ ~HttpRuns
    /\ validation' = IF PreviousAvailable THEN "valid" ELSE "invalid"
    /\ wpc' = "idle"
    /\ UNCHANGED <<flashVars, running, current, command, reply, workerBusy, writing,
                   written, free, lent, httpVars, mainVars, fanVars, boundVars>>

\* Mutant: the confirmation is written without stopping the fan.
QuiescingExceptConfirm == {"BEGIN", "SELECT", "ROLLBACK"}

\* The commands that quiesce the fan first.
QuiescingCommands == {"BEGIN", "SELECT", "CONFIRM", "ROLLBACK"}

\* Where a command goes on when the fan is quiet, or at once.
FirstStep(type) ==
    CASE type = "BEGIN" -> "header"
      [] type = "SELECT" -> "select"
      [] type = "CONFIRM" -> "confirm"
      [] type = "ROLLBACK" -> "rollback"
      [] type = "WRITE" -> "write"
      [] type = "FINISH" -> "finish"
      [] OTHER -> "fail"

\* s_busy is set by the two commands that leave the device in maintenance.
BusyAfterQuiesce(type) == workerBusy \/ type \in {"BEGIN", "SELECT"}

TakeCommand(task) ==
    /\ wpc = "idle" /\ ~HttpRuns /\ command[task] # "none"
    /\ current' = task
    /\ IF command[task] \in QuiescingCommands
       THEN maintenance' = TRUE /\ wpc' = "quiesce"
       ELSE UNCHANGED maintenance /\ wpc' = FirstStep(command[task])
    /\ UNCHANGED <<flashVars, running, command, reply, workerBusy, writing, written, free,
                   lent, validation, httpVars, mainVars, quiesced, fanOn, fanFault, boundVars>>

\* The event is set; it may be a stale one, if another task has just cleared the flag.
WorkerQuiesced ==
    /\ wpc = "quiesce" /\ ~HttpRuns /\ quiesced
    /\ wpc' = FirstStep(command[current])
    /\ workerBusy' = BusyAfterQuiesce(command[current])
    /\ UNCHANGED <<flashVars, running, current, command, reply, writing, written, free, lent,
                   validation, httpVars, mainVars, fanVars, boundVars>>

WorkerQuiesceTimeout ==
    /\ wpc = "quiesce" /\ ~HttpRuns /\ ~quiesced /\ (fanFault \/ ~maintenance)
    /\ maintenance' = FALSE
    /\ Answer("TIMEOUT")
    /\ UNCHANGED <<flashVars, running, workerBusy, writing, written, validation, httpVars,
                   mainVars, quiesced, fanOn, fanFault, boundVars>>

\* Mutant: s_busy is left set.
BusyAfterFailureKept == workerBusy

BusyAfterFailure == FALSE

\* fail_maintenance, on every error of a command that holds the fan, and ABORT.
FailMaintenance(result) ==
    /\ writing' = FALSE /\ written' = 0
    /\ maintenance' = FALSE
    /\ workerBusy' = BusyAfterFailure
    /\ Answer(result)

Abort ==
    /\ wpc = "fail" /\ ~HttpRuns
    /\ FailMaintenance("OK")
    /\ UNCHANGED <<flashVars, running, validation, httpVars, mainVars, quiesced, fanOn,
                   fanFault, boundVars>>

\* ota_update_begin up to the erase: the header of the first buffer is checked.
BeginCheck ==
    /\ wpc = "header" /\ ~HttpRuns
    /\ IF writing \/ upload = "foreign"
       THEN FailMaintenance("INVALID") /\ UNCHANGED <<running, validation, quiesced, fanOn,
                                                      fanFault>>
       ELSE /\ wpc' = "erase"
            /\ UNCHANGED <<running, current, command, reply, workerBusy, writing, written,
                           free, lent, validation, fanVars>>
    /\ UNCHANGED <<flashVars, httpVars, mainVars, boundVars>>

\* erase_inactive_partition, sector by sector: the image is lost with the first one.
BeginErase ==
    /\ wpc = "erase" /\ ~HttpRuns
    /\ image' = [image EXCEPT ![Other(running)] = "erased"]
    /\ \/ /\ wpc' = "begin"
          /\ UNCHANGED <<current, command, reply, workerBusy, writing, written, free, lent,
                         maintenance, flashErrors>>
       \/ FlashError /\ FailMaintenance("FAIL")
    /\ UNCHANGED <<otaState, bootSlot, running, validation, httpVars, mainVars, quiesced, fanOn,
                   fanFault, allocFailures, powerLosses>>

\* esp_ota_begin refuses to overwrite the fallback of an unconfirmed image, or fails in
\* the flash or for want of memory; then the same command writes the first buffer.
BeginHandle ==
    /\ wpc = "begin" /\ ~HttpRuns
    /\ \/ /\ otaState[running] = "PENDING"
          /\ FailMaintenance("INVALID") /\ UNCHANGED <<flashErrors, allocFailures>>
       \/ /\ otaState[running] # "PENDING"
          /\ writing' = TRUE /\ written' = 0 /\ wpc' = "write"
          /\ UNCHANGED <<current, command, reply, workerBusy, free, lent, maintenance,
                         flashErrors, allocFailures>>
       \/ /\ otaState[running] # "PENDING" /\ FailMaintenance("FAIL")
          /\ \/ FlashError /\ UNCHANGED allocFailures
             \/ AllocFailure /\ UNCHANGED flashErrors
    /\ UNCHANGED <<flashVars, running, validation, httpVars, mainVars, quiesced, fanOn,
                   fanFault, powerLosses>>

\* ota_update_write.
Write ==
    /\ wpc = "write" /\ ~HttpRuns
    /\ IF ~writing \/ written = Chunks
       THEN FailMaintenance("INVALID") /\ UNCHANGED <<image, flashErrors>>
       ELSE \/ /\ image' = [image EXCEPT ![Other(running)] = "partial"]
               /\ written' = written + 1
               /\ Answer("OK")
               /\ UNCHANGED <<workerBusy, writing, maintenance, flashErrors>>
            \/ FlashError /\ FailMaintenance("FAIL") /\ UNCHANGED image
    /\ UNCHANGED <<otaState, bootSlot, running, validation, httpVars, mainVars, quiesced, fanOn,
                   fanFault, allocFailures, powerLosses>>

\* Mutant: the boot slot is set before the image is verified.
AcceptsUnverified == TRUE

\* esp_ota_end verifies the image and its signature.
ImageVerifies == upload = "good"

\* ota_update_finish up to esp_ota_end: complete and verified, ...
Finish ==
    /\ wpc = "finish" /\ ~HttpRuns
    /\ IF ~writing \/ written # Chunks
       THEN FailMaintenance("INVALID") /\ UNCHANGED <<image, flashErrors>>
       ELSE /\ image' = [image EXCEPT ![Other(running)] =
                            IF upload = "good" THEN "good" ELSE "bad"]
            /\ \/ /\ ImageVerifies
                  /\ writing' = FALSE /\ written' = 0 /\ wpc' = "setboot"
                  /\ UNCHANGED <<current, command, reply, workerBusy, free, lent, maintenance,
                                 flashErrors>>
               \/ ~ImageVerifies /\ FailMaintenance("INVALID") /\ UNCHANGED flashErrors
               \/ FlashError /\ FailMaintenance("FAIL")
    /\ UNCHANGED <<otaState, bootSlot, running, validation, httpVars, mainVars, quiesced,
                   fanOn, fanFault, allocFailures, powerLosses>>

\* ... and only then selected for the next boot.
FinishSetsBoot ==
    /\ wpc = "setboot" /\ ~HttpRuns
    /\ \/ /\ SetBootPartition
          /\ Answer("OK")
          /\ UNCHANGED <<workerBusy, writing, written, maintenance, flashErrors>>
       \/ FlashError /\ FailMaintenance("FAIL") /\ UNCHANGED <<otaState, bootSlot>>
    /\ UNCHANGED <<image, running, validation, httpVars, mainVars, quiesced, fanOn, fanFault,
                   allocFailures, powerLosses>>

\* ota_update_select_previous.
SelectPrevious ==
    /\ wpc = "select" /\ ~HttpRuns
    /\ \/ /\ ~writing /\ RollbackPossible
          /\ SetBootPartition
          /\ Answer("OK")
          /\ UNCHANGED <<workerBusy, writing, written, maintenance, flashErrors>>
       \/ /\ ~writing /\ RollbackPossible /\ FlashError
          /\ FailMaintenance("FAIL") /\ UNCHANGED <<otaState, bootSlot>>
       \/ /\ writing \/ ~RollbackPossible
          /\ FailMaintenance(IF writing THEN "INVALID" ELSE "NOT_FOUND")
          /\ UNCHANGED <<otaState, bootSlot, flashErrors>>
    /\ UNCHANGED <<image, running, validation, httpVars, mainVars, quiesced, fanOn, fanFault,
                   allocFailures, powerLosses>>

\* Mutant: the fan is not released after the confirmation.
LockedAfterConfirm == TRUE

\* fan_control_end_maintenance, whatever the confirmation returned.
MaintenanceAfterConfirm == FALSE

\* ota_update_confirm_running, which confirms the entry that the bootloader would use.
Confirm ==
    /\ wpc = "confirm" /\ ~HttpRuns
    /\ \/ /\ otaState' = [otaState EXCEPT ![bootSlot] = "VALID"]
          /\ Answer("OK") /\ UNCHANGED flashErrors
       \/ FlashError /\ Answer("FAIL") /\ UNCHANGED otaState
    /\ maintenance' = MaintenanceAfterConfirm
    /\ UNCHANGED <<image, bootSlot, running, workerBusy, writing, written, validation,
                   httpVars, mainVars, quiesced, fanOn, fanFault, allocFailures, powerLosses>>

\* ota_update_rollback_running marks the image invalid and restarts the chip.
RollbackReboots ==
    /\ wpc = "rollback" /\ ~HttpRuns /\ RollbackPossible
    /\ Bootloader([otaState EXCEPT ![bootSlot] = "INVALID"], bootSlot)
    /\ RamAtBoot
    /\ UNCHANGED <<image, fanFault, boundVars>>

\* It came back: no image to return to, or the flash failed.
RollbackReturns ==
    /\ wpc = "rollback" /\ ~HttpRuns
    /\ \/ ~RollbackPossible /\ UNCHANGED flashErrors
       \/ RollbackPossible /\ FlashError
    /\ Answer("FAIL")
    /\ UNCHANGED <<flashVars, running, workerBusy, writing, written, validation, httpVars,
                   mainVars, fanVars, allocFailures, powerLosses>>

WorkerStep ==
    \/ RefreshValidationCache
    \/ \E task \in Tasks : TakeCommand(task)
    \/ WorkerQuiesced \/ WorkerQuiesceTimeout
    \/ Abort \/ BeginCheck \/ BeginErase \/ BeginHandle \/ Write \/ Finish \/ FinishSetsBoot
    \/ SelectPrevious \/ Confirm \/ RollbackReboots \/ RollbackReturns

----------------------------------------------------------------------------
(* The HTTP task: ota_post_handler.                                        *)

\* network_ota_is_busy
OtaIsBusy == requestActive \/ workerBusy

ReadReply == reply' = [reply EXCEPT !["http"] = "none"]

AcquireBuffer == free' = free - 1 /\ lent' = lent \cup {"handler"}

\* Mutant: the buffer is not given back when the client goes away.
KeepBuffer == UNCHANGED <<free, lent>>

ReleaseBuffer == free' = free + 1 /\ lent' = lent \ {"handler"}

\* The command takes the handler's buffer with it.
SendBuffer == lent' = (lent \ {"handler"}) \cup {"command"} /\ UNCHANGED free

\* ota_failure starts: the worker is told to abort.
StartFailure == SubmitTo("http", "ABORT") /\ hpc' = "failing"

\* No buffer within a second: 503.
UploadStart ==
    /\ hpc = "idle" /\ "upload" \in Requests /\ httpReady /\ ~OtaIsBusy
    /\ IF free > 0
       THEN AcquireBuffer /\ requestActive' = TRUE /\ hpc' = "preflight"
       ELSE UNCHANGED <<free, lent, requestActive, hpc>>
    /\ upload' \in Uploads /\ received' = 0
    /\ UNCHANGED <<flashVars, running, wpc, current, command, reply, workerBusy, writing,
                   written, validation, restarting, httpReady, mainVars, fanVars, boundVars>>

\* The socket delivers the header, or the rest of the next buffer.
UploadReceives ==
    /\ hpc \in {"preflight", "receive"}
    /\ received' = received + 1
    /\ SubmitTo("http", IF hpc = "preflight" THEN "BEGIN" ELSE "WRITE")
    /\ SendBuffer
    /\ hpc' = "writing"
    /\ UNCHANGED <<flashVars, running, wpc, current, reply, workerBusy, writing, written,
                   validation, requestActive, upload, restarting, httpReady, mainVars,
                   fanVars, boundVars>>

\* The client goes away.
UploadInterrupted ==
    /\ hpc \in {"preflight", "receive"}
    /\ ReleaseBuffer
    /\ StartFailure
    /\ UNCHANGED <<flashVars, running, wpc, current, reply, workerBusy, writing, written,
                   validation, requestActive, upload, received, restarting, httpReady,
                   mainVars, fanVars, boundVars>>

MoreToReceive == received < Chunks

\* The worker wrote a buffer: fetch the next one, or finish.
UploadContinues ==
    /\ hpc = "writing" /\ reply["http"] = "OK"
    /\ ReadReply
    /\ IF MoreToReceive
       THEN IF free > 0
            THEN AcquireBuffer /\ hpc' = "receive" /\ UNCHANGED command
            ELSE StartFailure /\ UNCHANGED <<free, lent>>
       ELSE SubmitTo("http", "FINISH") /\ hpc' = "finishing" /\ UNCHANGED <<free, lent>>
    /\ UNCHANGED <<flashVars, running, wpc, current, workerBusy, writing, written,
                   validation, requestActive, upload, received, restarting, httpReady,
                   mainVars, fanVars, boundVars>>

\* The worker refused a buffer, the finished image, or the previous image.
RequestFails ==
    /\ hpc \in {"writing", "finishing", "selecting"}
    /\ reply["http"] \notin {"none", "OK"}
    /\ hpc = "selecting" => reply["http"] # "NOT_FOUND"
    /\ ReadReply
    /\ StartFailure
    /\ UNCHANGED <<flashVars, running, wpc, current, workerBusy, writing, written, free,
                   lent, validation, requestActive, upload, received, restarting, httpReady,
                   mainVars, fanVars, boundVars>>

\* ota_failure goes on: end maintenance and answer with the error.
FailureEnds ==
    /\ hpc = "failing" /\ reply["http"] # "none"
    /\ ReadReply
    /\ maintenance' = FALSE
    /\ requestActive' = FALSE
    /\ hpc' = "idle"
    /\ UNCHANGED <<flashVars, running, wpc, current, command, workerBusy, writing, written,
                   free, lent, validation, upload, received, restarting, httpReady,
                   mainVars, quiesced, fanOn, fanFault, boundVars>>

\* Accepted: schedule the restart.  Without memory for the answer the handler
\* returns early; without memory for the task the device waits for a manual restart.
RequestAccepted ==
    /\ hpc \in {"finishing", "selecting"} /\ reply["http"] = "OK"
    /\ ReadReply
    /\ hpc' = "idle"
    /\ \/ restarting' = TRUE /\ UNCHANGED <<requestActive, allocFailures>>
       \/ AllocFailure /\ UNCHANGED <<restarting, requestActive>>
       \/ AllocFailure /\ requestActive' = FALSE /\ UNCHANGED restarting
    /\ UNCHANGED <<flashVars, running, wpc, current, command, workerBusy, writing, written,
                   free, lent, validation, upload, received, httpReady, mainVars, fanVars,
                   flashErrors, powerLosses>>

(* ota_rollback_post_handler.                                              *)

\* ota_worker_select_previous decides on the cached verdict, before it submits.
SelectAllowed == validation = "valid"

RollbackStart ==
    /\ hpc = "idle" /\ "rollback" \in Requests /\ httpReady /\ ~OtaIsBusy
    /\ IF SelectAllowed
       THEN requestActive' = TRUE /\ SubmitTo("http", "SELECT") /\ hpc' = "selecting"
       ELSE UNCHANGED <<requestActive, command, hpc>>
    /\ maintenance' = IF validation = "invalid" THEN FALSE ELSE maintenance
    /\ UNCHANGED <<flashVars, running, wpc, current, reply, workerBusy, writing, written,
                   free, lent, validation, upload, received, restarting, httpReady,
                   mainVars, quiesced, fanOn, fanFault, boundVars>>

\* ESP_ERR_NOT_FOUND from the worker.
RollbackNotFound ==
    /\ hpc = "selecting" /\ reply["http"] = "NOT_FOUND"
    /\ ReadReply
    /\ requestActive' = FALSE /\ maintenance' = FALSE /\ hpc' = "idle"
    /\ UNCHANGED <<flashVars, running, wpc, current, command, workerBusy, writing, written,
                   free, lent, validation, upload, received, restarting, httpReady,
                   mainVars, quiesced, fanOn, fanFault, boundVars>>

(* provision_post_handler quiesces the fan from the HTTP task itself.       *)

ProvisionStart ==
    /\ hpc = "idle" /\ "provision" \in Requests /\ httpReady
    /\ maintenance' = TRUE
    /\ hpc' = "quiescing"
    /\ UNCHANGED <<flashVars, workerVars, requestActive, upload, received, restarting,
                   httpReady, mainVars, quiesced, fanOn, fanFault, boundVars>>

ProvisionQuiesced ==
    /\ hpc = "quiescing" /\ quiesced
    /\ hpc' = "saving"
    /\ UNCHANGED <<flashVars, workerVars, requestActive, upload, received, restarting,
                   httpReady, mainVars, fanVars, boundVars>>

ProvisionTimeout ==
    /\ hpc = "quiescing" /\ ~quiesced /\ (fanFault \/ ~maintenance)
    /\ maintenance' = FALSE
    /\ hpc' = "idle"
    /\ UNCHANGED <<flashVars, workerVars, requestActive, upload, received, restarting,
                   httpReady, mainVars, quiesced, fanOn, fanFault, boundVars>>

\* Token and credentials are in the flash and the answer is out; or the flash
\* failed; or the client is gone, or there is no memory for the restart task.
ProvisionSaved ==
    /\ hpc = "saving"
    /\ \/ restarting' = TRUE /\ UNCHANGED <<maintenance, flashErrors, allocFailures>>
       \/ FlashError /\ maintenance' = FALSE /\ UNCHANGED <<restarting, allocFailures>>
       \/ maintenance' = FALSE /\ UNCHANGED <<restarting, flashErrors, allocFailures>>
    /\ hpc' = "idle"
    /\ UNCHANGED <<flashVars, workerVars, requestActive, upload, received, httpReady,
                   mainVars, quiesced, fanOn, fanFault, powerLosses>>

HttpStep ==
    \/ UploadStart \/ UploadReceives \/ UploadInterrupted
    \/ UploadContinues \/ RequestFails \/ FailureEnds \/ RequestAccepted
    \/ RollbackStart \/ RollbackNotFound
    \/ ProvisionStart \/ ProvisionQuiesced \/ ProvisionTimeout \/ ProvisionSaved

----------------------------------------------------------------------------
(* app_main.                                                               *)

\* network_init; when it fails under a pending image the image is rolled back.
MainStart(ok) ==
    /\ mpc = "boot" /\ ~HttpRuns
    /\ httpReady' = ok
    /\ IF ~ok /\ pending
       THEN SubmitTo("main", "ROLLBACK") /\ mpc' = "rollback"
       ELSE UNCHANGED command /\ mpc' = "loop"
    /\ UNCHANGED <<flashVars, running, wpc, current, reply, workerBusy, writing, written, free,
                   lent, validation, hpc, requestActive, upload, received, restarting, pending,
                   seen, elapsed, connected, fanVars, boundVars>>

\* The retry of a network_init that failed; one that fails again changes nothing.
MainRetriesNetwork ==
    /\ mpc = "loop" /\ ~httpReady
    /\ httpReady' = TRUE
    /\ UNCHANGED <<flashVars, workerVars, hpc, requestActive, upload, received, restarting,
                   mainVars, fanVars, boundVars>>

MainSeesNetwork ==
    /\ mpc = "loop" /\ ~HttpRuns /\ pending /\ connected /\ ~seen
    /\ seen' = TRUE
    /\ UNCHANGED <<flashVars, workerVars, httpVars, mpc, pending, elapsed, connected, fanVars,
                   boundVars>>

\* Mutant: only a connection that was lost fails the probation.
ProbationFailsIfLost == ~connected /\ seen

\* The connection was lost, or there is none at the end of the interval.
ProbationFails == ~connected /\ (seen \/ elapsed)

MainRollsBack ==
    /\ mpc = "loop" /\ ~HttpRuns /\ pending /\ ProbationFails
    /\ SubmitTo("main", "ROLLBACK")
    /\ mpc' = "rollback"
    /\ UNCHANGED <<flashVars, running, wpc, current, reply, workerBusy, writing, written, free,
                   lent, validation, httpVars, pending, seen, elapsed, connected, fanVars,
                   boundVars>>

MainConfirms ==
    /\ mpc = "loop" /\ ~HttpRuns /\ pending /\ connected /\ elapsed
    /\ seen' = TRUE
    /\ SubmitTo("main", "CONFIRM")
    /\ mpc' = "confirm"
    /\ UNCHANGED <<flashVars, running, wpc, current, reply, workerBusy, writing, written, free,
                   lent, validation, httpVars, pending, elapsed, connected, fanVars, boundVars>>

\* The rollback did not reboot.  A rollback that followed a failed confirmation
\* does not start a new interval.
MainAfterRollback ==
    /\ mpc \in {"rollback", "give_up"} /\ ~HttpRuns /\ reply["main"] # "none"
    /\ reply' = [reply EXCEPT !["main"] = "none"]
    /\ mpc' = "loop"
    /\ IF mpc = "rollback" THEN seen' = FALSE /\ elapsed' = FALSE
       ELSE UNCHANGED <<seen, elapsed>>
    /\ UNCHANGED <<flashVars, running, wpc, current, command, workerBusy, writing, written,
                   free, lent, validation, httpVars, pending, connected, fanVars, boundVars>>

MainAfterConfirm ==
    /\ mpc = "confirm" /\ ~HttpRuns /\ reply["main"] # "none"
    /\ reply' = [reply EXCEPT !["main"] = "none"]
    /\ CASE reply["main"] = "OK" ->
              pending' = FALSE /\ mpc' = "loop" /\ UNCHANGED <<elapsed, command>>
         [] reply["main"] = "TIMEOUT" ->
              elapsed' = FALSE /\ mpc' = "loop" /\ UNCHANGED <<pending, command>>
         [] OTHER ->
              SubmitTo("main", "ROLLBACK") /\ mpc' = "give_up" /\ UNCHANGED <<pending, elapsed>>
    /\ UNCHANGED <<flashVars, running, wpc, current, workerBusy, writing, written, free, lent,
                   validation, httpVars, seen, connected, fanVars, boundVars>>

MainStep ==
    \/ MainStart(TRUE) \/ MainStart(FALSE) \/ MainRetriesNetwork \/ MainSeesNetwork
    \/ MainRollsBack \/ MainConfirms \/ MainAfterRollback \/ MainAfterConfirm

----------------------------------------------------------------------------
(* The environment: time, the router, the fan and its users.               *)

\* OTA_BOOT_PROBATION_MS passes.
IntervalEnds ==
    /\ mpc = "loop" /\ pending /\ ~elapsed
    /\ elapsed' = TRUE
    /\ UNCHANGED <<flashVars, workerVars, httpVars, mpc, pending, seen, connected, fanVars,
                   boundVars>>

\* network_service takes an event of the Wi-Fi driver.
NetworkChanges ==
    /\ mpc # "boot"
    /\ connected' = ~connected
    /\ UNCHANGED <<flashVars, workerVars, httpVars, mpc, pending, seen, elapsed, fanVars,
                   boundVars>>

\* A key on the panel, which app_main drops during an update, or a REST request.  The
\* cycle of the fan actor that takes the command clears the event first.
UserTurnsFan ==
    /\ \/ mpc = "loop" /\ ~OtaIsBusy
       \/ hpc = "idle" /\ httpReady
    /\ ~maintenance /\ ~fanFault /\ ~HttpRuns
    /\ quiesced' = FALSE /\ fanOn' = ~fanOn
    /\ UNCHANGED <<flashVars, workerVars, httpVars, mainVars, maintenance, fanFault, boundVars>>

\* A control cycle under the flag.
FanStops ==
    /\ maintenance /\ ~quiesced /\ ~fanFault
    /\ quiesced' = TRUE /\ fanOn' = FALSE
    /\ UNCHANGED <<flashVars, workerVars, httpVars, mainVars, maintenance, fanFault, boundVars>>

\* The first cycle without it.
FanReady ==
    /\ ~maintenance /\ quiesced
    /\ quiesced' = FALSE
    /\ UNCHANGED <<flashVars, workerVars, httpVars, mainVars, maintenance, fanOn, fanFault,
                   boundVars>>

FanFaults ==
    /\ FanMayFail /\ fanOn /\ ~fanFault
    /\ fanFault' = TRUE /\ fanOn' = FALSE
    /\ UNCHANGED <<flashVars, workerVars, httpVars, mainVars, maintenance, quiesced, boundVars>>

Next ==
    \/ WorkerStep \/ HttpStep \/ MainStep
    \/ IntervalEnds \/ NetworkChanges \/ UserTurnsFan \/ FanStops \/ FanReady \/ FanFaults
    \/ PlannedRestart \/ PowerLoss

\* Every task that is ready gets to run, time passes and the fan actor runs; a
\* socket read returns (the server closes a silent connection).  app_main has the
\* lowest priority: it runs, and gets the submit mutex, while clients pause.
Fairness ==
    /\ WF_vars(WorkerStep) /\ WF_vars(PlannedRestart)
    /\ SF_vars(MainStep) /\ \A task \in Tasks : SF_vars(TakeCommand(task))
    /\ WF_vars(IntervalEnds) /\ WF_vars(FanStops \/ FanReady)
    /\ WF_vars(hpc # "idle" /\ HttpStep)

Spec == Init /\ [][Next]_vars /\ Fairness

----------------------------------------------------------------------------
(* Properties.                                                             *)

\* Every variable keeps its type; no more buffers are received than were declared.
TypeOK ==
    /\ image \in [Slots -> {"good", "erased", "partial", "bad"}]
    /\ otaState \in [Slots -> {"UNDEFINED", "NEW", "PENDING", "VALID", "INVALID", "ABORTED"}]
    /\ bootSlot \in Slots /\ running \in Slots
    /\ wpc \in {"start", "idle", "quiesce", "header", "erase", "begin", "write", "finish",
                "setboot", "fail", "select", "confirm", "rollback"}
    /\ current \in Tasks \cup {"none"}
    /\ command \in [Tasks -> {"none", "BEGIN", "WRITE", "FINISH", "ABORT", "SELECT", "CONFIRM",
                              "ROLLBACK"}]
    /\ reply \in [Tasks -> {"none", "OK", "TIMEOUT", "NOT_FOUND", "INVALID", "FAIL"}]
    /\ workerBusy \in BOOLEAN /\ writing \in BOOLEAN /\ written \in 0 .. Chunks
    /\ free \in 0 .. 2 /\ lent \subseteq {"handler", "command"}
    /\ validation \in {"pending", "valid", "invalid"}
    /\ hpc \in {"idle", "preflight", "receive", "writing", "finishing", "failing", "selecting",
                "quiescing", "saving"}
    /\ requestActive \in BOOLEAN /\ upload \in Uploads /\ received \in 0 .. Chunks
    /\ restarting \in BOOLEAN /\ httpReady \in BOOLEAN
    /\ mpc \in {"boot", "loop", "rollback", "confirm", "give_up"}
    /\ pending \in BOOLEAN /\ seen \in BOOLEAN /\ elapsed \in BOOLEAN /\ connected \in BOOLEAN
    /\ maintenance \in BOOLEAN /\ quiesced \in BOOLEAN
    /\ fanOn \in BOOLEAN /\ fanFault \in BOOLEAN
    /\ flashErrors \in 0 .. MaxFlashErrors /\ allocFailures \in 0 .. MaxAllocFailures
    /\ powerLosses \in 0 .. MaxPowerLosses

\* Whatever happens to an upload, and whenever the power fails, the slot that the
\* bootloader tries first and the slot that runs hold verified images.
BootSlotVerified == image[bootSlot] = "good" /\ image[running] = "good"

\* A flash operation is in progress: the worker's, or the provisioning handler's.
FlashInUse ==
    \/ wpc \in {"erase", "begin", "write", "finish", "setboot", "select", "confirm", "rollback"}
    \/ hpc = "saving"

\* "During an actual flash operation, the fan must be OFF"
\* (docs/preassembly-test-plan.md:188)
FlashOnlyWhileOff == FlashInUse => ~fanOn

\* No buffer is lost or returned twice, and one is free whenever a handler needs
\* it: the 503 of ota_post_handler and the timeout of its loop do not happen.
BuffersConserved ==
    /\ free + (IF "handler" \in lent THEN 1 ELSE 0) + (IF "command" \in lent THEN 1 ELSE 0) = 2
    /\ hpc \in {"idle", "writing", "finishing", "failing"} => "handler" \notin lent

\* A failed update never leaves the device refusing the next one: the flags that
\* answer 409 stand only while a request is served or an image waits for a restart.
BusyOnlyWhileServing ==
    hpc = "idle" /\ (workerBusy \/ requestActive) => bootSlot # running

\* "At each point, confirm either the last valid image boots or the new image enters
\* probation and can automatically return to the last valid image."
\* (docs/ota-validation.md:43)
ProbationHasFallback == otaState[running] = "PENDING" => RollbackPossible

\* The fan is locked only for an operation that is going on, for a restart that is
\* coming, or in a probation: there a rollback that found no image to return to leaves
\* the lock, until a confirmation ends it, although "fan and local control do not depend
\* on router association" (docs/preassembly-test-plan.md:262).
FanLockedOnlyForOperation ==
    maintenance => \/ hpc # "idle" \/ current # "none" \/ bootSlot # running
                   \/ restarting \/ pending

\* The probation of an image ends: it is confirmed, or another image is booted, whether
\* or not the router is there.  An upload that erases the fallback, or a fan fault,
\* which fails every confirmation, may prolong it.
ProbationResolves ==
    \A s \in Slots :
        (running = s /\ otaState[s] = "PENDING")
            ~> (running # s \/ otaState[s] # "PENDING" \/ ~RollbackPossible \/ fanFault)

\* A handler that was started ends.
HandlerEnds == hpc # "idle" ~> hpc = "idle"
=============================================================================
