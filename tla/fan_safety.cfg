SPECIFICATION Spec
CONSTANTS
    touch = touch
    rest = rest
    worker = worker
    SeqMax = 2
    TickMod = 2
    Clients = {touch, rest}
    Maintainers = {worker}
    Commands <- SpeedCommands
    Durations <- ShortDurations
    QuiesceTicks = 3
    MaxFailures = 2
    MaxResets = 0
INVARIANTS TypeOK QuiescedMeansOff HolderHasMotorOff NoReplayAfterMaintenance SnapshotTellsTheOutput OneFailureStopsMotor
PROPERTIES BreakBeforeMake TimeoutMeansFault CommandSettles
