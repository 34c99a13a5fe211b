CONSTANTS
    me = me
    peer = peer
    u1 = u1
    u2 = u2
    base = base
    x = x
    y = y
    z = z
    ThisAddress = ThisAddress
    NoAddress = NoAddress
    NoAsset = NoAsset
    Me = me
    Addresses <- MCAddresses
    Matchers <- MCMatchers
    Assets <- AssetOrder
    QuoteAssets <- Quoted
    Orders <- MCOrders
    Digits = 1
    Scale = 2
    MatcherRate <- Tenth
    MatcherRateMax <- Half
    AffiliateRate <- Tenth
    Sessions = {s1, s2}
    Devices = {d1}
    Signers <- MCSigners
    Cancellable <- MCCancellable
    Members <- MCMembers
    MaxTasks = 1
    MaxBook = 3
SPECIFICATION Spec
INVARIANTS
    MatchesSettle
    BookAuthorized
    LoginProven
CHECK_DEADLOCK FALSE
