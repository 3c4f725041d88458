------------------------------ MODULE Matching ------------------------------
(***************************************************************************)
(* services/product_matcher.py: is this listing that product?  Confidences *)
(* are per thousand.  A candidate is a title and identifiers.               *)
(***************************************************************************)
EXTENDS Titles

CONSTANTS
    Title,   \* name -> what product_normalizer finds in it, and whether it says used
    Within   \* pairs of names: the first is part of the second, or an alias of it

ASSUME WordsAssumption == \A t \in DOMAIN Title : IsFiniteSet(Title[t].words)

TitleAttributes == [t \in DOMAIN Title |-> Attributes(Title[t])]
Candidate(title, ids) == [title |-> title, ids |-> ids]

LineupModifiers ==
    {"ultra", "plus", "pro", "max", "mini", "lite", "fe", "neo", "prime", "air", "note",
     "edge", "fold", "flip", "se", "xl", "classic", "active", "slim"}

\* The share of words two sets have in common is at least n in d.
Overlap(a, b, n, d) == d * Cardinality(a \cap b) >= n * Cardinality(a \cup b)

Stated(a, b) == a # None /\ b # None
SameName(a, b) == a = b \/ {<<a, b>>, <<b, a>>} \cap Within # {}
BrandDiffers(a, b) == Stated(a.brand, b.brand) /\ ~SameName(a.brand, b.brand)
BrandAgrees(a, b) == Stated(a.brand, b.brand) /\ SameName(a.brand, b.brand)

Variant == {"storage", "ram", "color", "size"}
Compared(a, b) == {k \in Variant : Stated(a[k], b[k])}
Agreements(a, b) == {k \in Compared(a, b) : IF k = "color" THEN SameName(a[k], b[k])
                                                           ELSE a[k] = b[k]}
Conflicts(a, b) == Compared(a, b) \ Agreements(a, b)
HalfStated(a, b) == {k \in Variant : (a[k] = None) # (b[k] = None)}

Verdict(type, confidence, why) == [type |-> type, confidence |-> confidence, why |-> why]
Exact(confidence) == Verdict("exact", confidence, {})

\* Identifiers in the order they are asked.  One that agrees decides; a GTIN or
\* an ASIN that differs decides too.
HardIds == <<"gtin", "asin", "mpn", "sku">>
IdConfidence == <<990, 980, 960, 930>>
Deciding(r, c) ==
    {i \in DOMAIN HardIds :
        /\ HardIds[i] \in DOMAIN r.ids \cap DOMAIN c.ids
        /\ i =< 2 \/ r.ids[HardIds[i]] = c.ids[HardIds[i]]}

\* It agrees, or it differs and the titles may still be of one family.
ById(agree, confidence, a, b) ==
    LET family == a.models \cap b.models # {} \/ (a.tokens # {} /\ Overlap(a.tokens, b.tokens, 1, 2))
    IN IF agree THEN Exact(confidence)
       ELSE IF ~BrandDiffers(a, b) /\ family THEN Verdict("variant", 850, {})
       ELSE Verdict("similar", 600, {})

\* Too far apart to be more than similar, and how far.
Apart(a, b, similar, unknown, why) ==
    IF a.tokens # {} /\ Overlap(a.tokens, b.tokens, 3, 10)
    THEN Verdict("similar", similar, why) ELSE Verdict("unknown", unknown, why)

GenerationDiffers(a, b) == Stated(a.generation, b.generation) /\ a.generation # b.generation
ChipDiffers(a, b) == Stated(a.chip, b.chip) /\ a.chip # b.chip
LineDiffers(a, b) == /\ a.tokens \cap LineupModifiers # b.tokens \cap LineupModifiers
                     /\ a.tokens \cap b.tokens # {}
CodeDiffers(a, b) == a.models # {} /\ b.models # {} /\ a.models \cap b.models = {}

SameFamily(a, b) ==
    \/ a.models \cap b.models # {}
    \/ a.tokens # {} /\ (Overlap(a.tokens, b.tokens, 11, 20) \/
                         (BrandAgrees(a, b) /\ Overlap(a.tokens, b.tokens, 2, 5)))

\* The confidence of two listings of one family that agree on every variant
\* attribute that both state.
Likeness(a, b) ==
    LET all == Cardinality(a.tokens \cup b.tokens)
        alike == Cardinality(a.tokens \cap b.tokens)
        words == IF a.tokens = {} \/ b.tokens = {} THEN 0 ELSE (400 * alike + all) \div (2 * all)
        codes == IF a.models \cap b.models # {} THEN 100 ELSE 0
        gain == 600 + words + codes + 40 * Cardinality(Agreements(a, b))
        loss == 80 * Cardinality(HalfStated(a, b))
    IN Max({500, Min({970, gain - loss})})

ByAttributes(a, b) ==
    IF a.accessory # b.accessory THEN Verdict("similar", 750, {})
    ELSE IF BrandDiffers(a, b) THEN Verdict("similar", 700, {})
    ELSE IF LineDiffers(a, b) /\ GenerationDiffers(a, b)
         THEN Apart(a, b, 350, 200, {"line", "generation"})
    ELSE IF LineDiffers(a, b) THEN Verdict("similar", 700, {"line"})
    ELSE IF CodeDiffers(a, b) THEN Apart(a, b, 550, 300, {"code"})
    ELSE IF GenerationDiffers(a, b) THEN Verdict("similar", 700, {"generation"})
    ELSE IF ChipDiffers(a, b) THEN Verdict("similar", 700, {})
    ELSE IF ~SameFamily(a, b) THEN Apart(a, b, 500, 200, {})
    ELSE IF Conflicts(a, b) # {}
         THEN Verdict("variant", Min({950, 750 + 100 * Cardinality(Agreements(a, b))}), {})
    ELSE Exact(Likeness(a, b))

Likenesses == [p \in (DOMAIN Title) \X (DOMAIN Title) |->
                 ByAttributes(TitleAttributes[p[1]], TitleAttributes[p[2]])]

\* match_products
Match(reference, candidate) ==
    LET i == Min(Deciding(reference, candidate))
    IN IF Deciding(reference, candidate) = {} THEN Likenesses[<<reference.title, candidate.title>>]
       ELSE ById(reference.ids[HardIds[i]] = candidate.ids[HardIds[i]], IdConfidence[i],
                 TitleAttributes[reference.title], TitleAttributes[candidate.title])
=============================================================================
