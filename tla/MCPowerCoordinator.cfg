SPECIFICATION Spec
CONSTANTS
    SlotCount = 3
    MaxTickets = 3
    Intents <- MCIntents
    SinkOutcomes <- MCSinkOutcomes
INVARIANTS
    ResultBelongsToHolder
    UnsettledHaveOwnSlots
    NoSlotLeak
    ProgressIsOwed
    WatermarkSparesLiveTickets
    ActiveOwnerHoldsContract
CHECK_DEADLOCK FALSE
