SPECIFICATION FairSpec
CONSTANTS
    shop = shop
    cheap = cheap
    third = third
    NoProduct = NoProduct
    Req = {r1}
    Slot = {s1}
    r1 = r1
    s1 = s1
    MaxRows = 4
    Source = {shop, cheap, third}
    Answer <- Answers
    FreshFor = 1
    ThinFor = 1
    MaxClock = 3
    MaxServed = 3
    MayRestart = TRUE
INVARIANTS
    LookupFindsProduct
    OneOfferPerSource
    HistoryOfActive
PROPERTIES
    LookupsSpaced
    SearchAnswers
CHECK_DEADLOCK FALSE
