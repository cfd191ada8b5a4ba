SPECIFICATION Spec
CONSTANTS
    Requests = {"upload", "provision"}
    Chunks = 1
    FanMayFail = FALSE
    MaxFlashErrors = 0
    MaxAllocFailures = 0
    MaxPowerLosses = 0
INVARIANT FlashOnlyWhileOff
