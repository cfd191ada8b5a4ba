SPECIFICATION Spec
CONSTANTS
    Requests = {"upload"}
    Chunks = 2
    FanMayFail = TRUE
    MaxFlashErrors = 1
    MaxAllocFailures = 0
    MaxPowerLosses = 1
INVARIANTS FlashOnlyWhileOff FanLockedOnlyForOperation
PROPERTIES HandlerEnds ProbationResolves
