SPECIFICATION Spec
CONSTANTS
    Requests = {"upload", "rollback", "provision"}
    Chunks = 2
    FanMayFail = TRUE
    MaxFlashErrors = 1
    MaxAllocFailures = 1
    MaxPowerLosses = 1
INVARIANTS BootSlotVerified BuffersConserved BusyOnlyWhileServing
