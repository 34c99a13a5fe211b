CONSTANTS
    MinForRefill = 1
    NotifyBelow = 3
    MinToWithdraw = 2
    MaxMoney = 4
    MaxTopUps = 1
    MaxChecks = 2
    MaxCrashes = 1
SPECIFICATION FairSpec
INVARIANTS
    TypeOK
PROPERTIES
    RefilledWhenLow
    ToldWhenDry
CHECK_DEADLOCK FALSE
