SPECIFICATION Spec
CONSTANTS
    Window = 2
    MaxFailures = 2
    MaxBindFailures = 2
    MaxStartTimeouts = 1
    MaxStopTimeouts = 1
INVARIANTS UploadKeepsWindow ApMatchesFlag DnsNotLeaked PortalStays
PROPERTIES StorageNotReused WindowCloses
