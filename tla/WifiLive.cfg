SPECIFICATION FairSpec
CONSTANTS
    SavingTimeout = 1
    ProvisioningTimeout = 11
    TransitionTimeout = 1
    AssociationTimeout = 3
    Ipv4Timeout = 5
    RetryDelay = 1
    MaxAttempts = 3
    DriverFaults = FALSE
    MaxSets = 2
    MaxCancels = 1
PROPERTIES
    PendingSettles
