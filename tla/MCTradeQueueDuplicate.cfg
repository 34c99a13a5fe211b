CONSTANTS
    Batches <- ShortBatches
    Patient = FALSE
    MaxFunds = 2
    MaxWaiting = 1
    MaxCrashes = 0
SPECIFICATION Spec
INVARIANTS
    NoDuplicateSend
CHECK_DEADLOCK FALSE
