CONSTANTS
    Batches <- MCBatches
    Patient = TRUE
    MaxFunds = 2
    MaxWaiting = 1
    MaxCrashes = 1
    Orders <- MCOrders
    Size <- MCSize
    Taker <- MCTaker
    Maker <- MCMaker
SPECIFICATION FairSettlementSpec
INVARIANTS
    ChecksAgree
    CommittedAsMatched
PROPERTIES
    SettledUnlessStopped
CHECK_DEADLOCK FALSE
