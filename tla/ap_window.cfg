SPECIFICATION Spec
CONSTANTS
    Window = 2
    MaxFailures = 0
    MaxBindFailures = 1
    MaxStartTimeouts = 0
    MaxStopTimeouts = 0
INVARIANT ApHasWindow
