SPECIFICATION FairSpec
CONSTANTS
    t1 = t1
    t2 = t2
    s1 = s1
    gtin = gtin
    asin = asin
    rival = rival
    mpn = mpn
    Tx = {t1, t2}
    Key = {1, 2, 3}
    Ident = {gtin, asin, rival, mpn}
    Shop = {s1}
    KindOf <- KindsOf
    Batch <- Batches
INVARIANTS
    OfferOfItsProduct
    ConflictFindsWinner
PROPERTIES
    ConflictsAreForeign
    SearchesEnd
