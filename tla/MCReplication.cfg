CONSTANTS
    a = a
    b = b
    c = c
    Nodes <- Three
    Wires <- Line
    Late <- Nobody
    Active <- OnlyA
    Kind <- AllKinds
    Bad <- BadBoth
    Unpaired <- AllPaired
    MaxDrops = 0
    MaxCrashes = 0
SPECIFICATION Spec
INVARIANTS
    StoredOnce
    StoredInOrder
CHECK_DEADLOCK FALSE
