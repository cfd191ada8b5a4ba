SPECIFICATION Spec
CONSTANTS
    Requests = {"upload"}
    Chunks = 1
    FanMayFail = FALSE
    MaxFlashErrors = 0
    MaxAllocFailures = 0
    MaxPowerLosses = 0
INVARIANT ProbationHasFallback
