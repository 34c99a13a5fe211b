CONSTANTS
    u1 = u1
    u2 = u2
    m = m
    base = base
    x = x
    Addresses <- MCAddresses
    Assets <- MCAssets
    Base = base
    NoAsset = NoAsset
    NoAddress = NoAddress
    ThisAddress = ThisAddress
    Orders <- PricesOrders
    Signers = {}
    Amounts = {}
    Payments <- PricesPayments
    Attached = {0}
    MinBytes = 1
    AaFee = 1
    CancelFee = 1
    UnitFee = 1
    MaxFee = 1
    MaxTime = 0
    MaxHoldings <- PricesMaxHoldings
SPECIFICATION Spec
INVARIANTS
    FairFill
    NoPanic
CHECK_DEADLOCK FALSE
