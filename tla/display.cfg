SPECIFICATION Spec
CONSTANTS
    Snapshots <- ThreeSnapshots
    Readers = {"main"}
    MaxPublish = 2
    Keys = {1, 3, 4, 5}
    Statuses = {"OFFLINE", "CONNECTING", "CONNECTED"}
    Wake = 1
    SequenceTimeout = 3
    MaxFailures = 2
CONSTRAINT SetupWithoutFailures
INVARIANTS PanelShowsRendered BrightnessHonoured SetupFollowsKeys
PROPERTIES PanelFollowsFan
