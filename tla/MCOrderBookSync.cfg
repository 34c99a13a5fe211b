CONSTANTS
    big = big
    small = small
    third = third
    Orders <- Three
    Size <- Sizes
    Pairs <- Matches
    Refused <- Bad
    Mispriced <- Rounded
    MaxEvents = 4
    MaxCrashes = 1
SPECIFICATION Spec
INVARIANTS
    TypeOK
    BookAgrees
    TradesComplete
CHECK_DEADLOCK FALSE
