CONSTANTS
    Batches <- MCBatches
    Patient = TRUE
    MaxFunds = 2
    MaxWaiting = 1
    MaxCrashes = 2
SPECIFICATION Spec
INVARIANTS
    TypeOK
    SuccessIsOnDag
    NoLostTrade
    AnnouncedOnceAfterSending
PROPERTIES
    ImplementsDelivery
CHECK_DEADLOCK FALSE
