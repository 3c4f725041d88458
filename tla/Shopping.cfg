SPECIFICATION Spec
CONSTANTS
    None = None
    Rank <- Codes
    Within = {}
    Title <- Titles
    Merchant <- Shops
    IdValue = {"B17"}
    Query = {"iphone", "iphones"}
    Question <- Questions
    Answer <- Vendors
    Refresh <- Lookups
    Linked <- Links
    Score <- Scores
    Curated <- Lines
    PaywallPrices = TRUE
    MaxServed = 2
INVARIANTS
    PricesWithheld
    PreviewHidesPicks
    FlaggedNotCompared
    CardPriceIsOnOffer
    EachCardOnce
PROPERTIES
    UsedApartFromNew
