SPECIFICATION Spec
CONSTANTS
    Keys = {4, 5}
    QueueLength = 2
    ACTIVE_STABLE = 1
    RELEASE_STABLE = 2
    TickMod = 4
    MaxLag = 1
    MaxEdges = 2
INVARIANTS NoPhantomPad
PROPERTIES OneKeyPerTouch KeysApart RearmsAfterRelease
