SPECIFICATION Spec
CONSTANTS
    SavingTimeout = 1
    ProvisioningTimeout = 11
    TransitionTimeout = 1
    AssociationTimeout = 3
    Ipv4Timeout = 5
    RetryDelay = 1
    MaxAttempts = 3
    DriverFaults = TRUE
    MaxSets = 3
    MaxCancels = 2
INVARIANTS
    IdleMeansStopped
    AckMeansStopped
    RadioIsKnown
    UncancelledSetIsTried
PROPERTIES
    ErrorIsSettled
