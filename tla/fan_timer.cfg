SPECIFICATION Spec
CONSTANTS
    touch = touch
    rest = rest
    worker = worker
    SeqMax = 2
    TickMod = 5
    Clients = {touch}
    Maintainers = {}
    Commands <- TimerCommands
    Durations <- TimedDurations
    QuiesceTicks = 3
    MaxFailures = 1
    MaxResets = 2
INVARIANTS ShutoffOnTime FaultSurvivesReset
PROPERTIES NoEarlyShutoff RetainedFaultKeepsMotorOff
