CONSTANTS
    Batches <- MCBatches
    Patient = FALSE
    MaxFunds = 2
    MaxWaiting = 1
    MaxCrashes = 0
SPECIFICATION FairSpec
INVARIANTS
    AllAnnounced
PROPERTIES
    SentUnlessStuck
    CallsAnswered
CHECK_DEADLOCK FALSE
