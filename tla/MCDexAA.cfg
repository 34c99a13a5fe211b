CONSTANTS
    u1 = u1
    u2 = u2
    m = m
    base = base
    x = x
    Addresses <- MCAddresses
    Assets <- MCAssets
    Base = base
    NoAsset = NoAsset
    NoAddress = NoAddress
    ThisAddress = ThisAddress
    Orders <- MCOrders
    Signers = {m}
    Amounts = {1}
    Payments <- MCPayments
    Attached = {1}
    MinBytes = 1
    AaFee = 1
    CancelFee = 1
    UnitFee = 1
    MaxFee = 1
    MaxTime = 1
    MaxHoldings <- MCMaxHoldings
SPECIFICATION Spec
INVARIANTS
    TypeOK
    Solvency
    OrderBudget
PROPERTIES
    DeadOrdersNeverTrade
    OnlyAuthorizedDebits
    ImplementsOrderLife
CHECK_DEADLOCK FALSE
