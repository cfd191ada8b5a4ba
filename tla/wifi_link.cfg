SPECIFICATION Spec
CONSTANTS
    TickMod = 8
    Delays <- TwoDelays
    QueueLength = 3
    RetryLimit = 2
    Pause = 2
    MaxLag = 1
    MaxInitFailures = 2
    MaxDrops = 2
    MaxConnectErrors = 1
    MaxAddresses = 1
INVARIANTS NoEventLost ConnectedTellsLink LedTellsLink
PROPERTIES AttemptsPaced KeepsTrying
