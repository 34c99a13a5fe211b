CONSTANTS
    u1 = u1
    u2 = u2
    op = op
    Users <- MCUsers
    Operator = op
    NoAddress = NoAddress
    All = All
    Absent = Absent
    NaN = NaN
    Default = 0
    NotShown = NotShown
    FirstBalance <- MCFirstBalance
    Requests <- MCRequests
    MaxUnits = 2
    MaxReads = 1
    MaxCrashes = 1
SPECIFICATION FairSpec
INVARIANTS
    TypeOK
    ShownIsAmount
    PendingInProgress
    QuietShown
PROPERTIES
    TradesSettled
CHECK_DEADLOCK FALSE
