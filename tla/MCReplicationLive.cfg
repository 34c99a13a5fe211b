CONSTANTS
    a = a
    b = b
    c = c
    Nodes <- Two
    Wires <- Pair
    Late <- OnlyB
    Active <- Two
    Kind <- CancelOrder
    Bad <- BadCancel
    Unpaired <- NoPairAtA
    MaxDrops = 1
    MaxCrashes = 1
SPECIFICATION FairSpec
INVARIANTS
    TypeOK
    AppliedInOrder
    ReappliedOnlyAfterCrash
    PublishedFirst
PROPERTIES
    Replicated
CHECK_DEADLOCK FALSE
