SPECIFICATION FairSpec
CONSTANTS
    Top = 3
    Offers <- MCOffers
    Ops <- MCOps
    RxBurst = 2
    FifoSize = 2
    MaxOps = 2
    MaxFaults = 1
INVARIANTS
    PermitIsOfThisSession
PROPERTIES
    RefreshIsFresh
    IdleDescendsInSteps
    ContractSettles
CHECK_DEADLOCK FALSE
