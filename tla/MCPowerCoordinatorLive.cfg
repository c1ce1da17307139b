SPECIFICATION FairSpec
CONSTANTS
    SlotCount = 2
    MaxTickets = 3
    Intents <- MCLiveIntents
    SinkOutcomes <- MCSinkOutcomes
PROPERTIES
    ImplementsLedger
    EveryTicketIsAnswered
    HoldShedsContracts
CHECK_DEADLOCK FALSE
