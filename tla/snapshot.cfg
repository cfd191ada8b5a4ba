SPECIFICATION Spec
CONSTANTS
    Fields <- TwoFields
    Snapshots <- TwoSpeeds
    Readers = {"main", "http"}
    Attempts = 4
    MaxPublish = 2
PROPERTIES ImplementsRegister
