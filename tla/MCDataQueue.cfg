SPECIFICATION FairSpec
CONSTANTS
    MaxItems = 4
    Batches = {0, 1, 2}
    QueueTTL = 4
    MaxAge = 2
INVARIANTS
    TypeOK
    NothingLostUnseen
    NewestFirst
    TTLMeasuresSilence
PROPERTIES
    ExpiryOnlyAfterSilence
    Drains
    ImplementsAtMostOnce
