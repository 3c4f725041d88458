------------------------------ MODULE Listings ------------------------------
(***************************************************************************)
(* From the vendors' answer to result cards, the pure half of              *)
(* services/search_service.py with services/market_filter.py: listings are *)
(* filtered, grouped into products and compared with what was asked for.   *)
(*                                                                         *)
(* A listing has a title, identifiers, a condition, a price, the cost of   *)
(* shipping if stated, a shop and days of delivery.  Titles and shops are  *)
(* named; Title and Merchant say what the code finds in them.  Unpriced    *)
(* listings never get here; coupons come from demo data only.              *)
(***************************************************************************)
EXTENDS Matching, Plausible, SequencesExt

CONSTANTS
    Merchant,    \* shop -> what the market filter knows of it
    IdValue      \* what identifiers may be

Ids == UNION {[K -> IdValue] : K \in SUBSET {"gtin", "asin", "mpn", "sku"}}
Conditions == {"new", "used"}
Listing == [title : DOMAIN Title, ids : Ids, cond : Conditions, price : Nat, shipping : {None} \cup Nat,
            shop : {None} \cup DOMAIN Merchant, days : {None} \cup Nat]

CandidateOf(l) == Candidate(l.title, l.ids)

\* What is at these places of a sequence, by weight and otherwise as it came;
\* and without weights.
Taken(s, places, weight) ==
    LET before == [i \in places |->
                     {j \in places : weight[j] < weight[i] \/ (weight[j] = weight[i] /\ j < i)}]
        place == [n \in 1..Cardinality(places) |-> CHOOSE i \in places : Cardinality(before[i]) = n - 1]
    IN <<>> \o [n \in 1..Cardinality(places) |-> s[place[n]]]
Kept(s, places) == Taken(s, places, [i \in places |-> 0])

\* f, and what g has beside it.
Extended(f, g) == [x \in DOMAIN f \cup DOMAIN g |-> IF x \in DOMAIN f THEN f[x] ELSE g[x]]

\* condition_from_title: a listing is used if its title says so.
Titled(l) == [l EXCEPT !.cond = IF Title[l.title].used THEN "used" ELSE @]

\* compute_true_price: shipping that is not known is not counted.
TruePrice(l) == l.price + (IF l.shipping = None THEN 0 ELSE l.shipping)

-----------------------------------------------------------------------------
(* Filters                                                                 *)

\* listing_market, of a merchant: words of another country, its domain unless
\* that is an aggregator's, then its name.
Market(m) ==
    IF m.abroad THEN "foreign"
    ELSE IF m.domain \notin {None, "aggregator"} THEN m.domain
    ELSE FirstStated(<<m.curated, m.known, m.named>>)

Sold(l) == l.shop # None /\ Market(Merchant[l.shop]) = "india"

\* Not a part, a rental or a service unless that was asked for, and never a
\* catalogue of models.
IsProduct(a, asked) ==
    /\ a.accessory => asked.accessory
    /\ a.rental => asked.rental
    /\ a.service => asked.service
    /\ ~a.catalogue

\* The family a listing's price is compared with: its first model.
FamilyOf(a) == IF a.models = {} THEN None ELSE FirstModel(a)
Families(s) == [i \in DOMAIN s |-> FamilyOf(TitleAttributes[s[i].title])]

\* The priced entries of a sequence that are far below the others of their family.
FarBelow(s, family) ==
    LET priced == {i \in DOMAIN s : s[i].price # None /\ family[i] # None}
        kin(i) == {j \in priced : family[j] = family[i]}
    IN {i \in priced : BelowFloor(s[i].price, Reference(s, kin(i)))}

Places(s) == [i \in 1..Len(s) |-> i]
PlausiblyPriced(s) ==
    LET gone == FarBelow(s, Families(s)) IN Kept(s, DOMAIN s \ gone)

\* filter_implausible_price_outliers also puts listings without a model first
\* and the others family by family.
InFamilies(s, family) ==
    LET first(i) == IF family[i] = None THEN 0
                    ELSE Min({j \in DOMAIN s : family[j] = family[i]})
    IN Taken(s, DOMAIN s, [i \in DOMAIN s |-> first(i)])
ByFamily(s) == InFamilies(s, Families(s))

Filtered(listings, asked) ==
    LET wanted(l) == Sold(l) /\ IsProduct(TitleAttributes[l.title], asked)
    IN ByFamily(PlausiblyPriced(Kept(listings, {i \in DOMAIN listings : wanted(listings[i])})))

-----------------------------------------------------------------------------
(* Groups                                                                  *)

\* Mutant: whatever its condition.
JoinableAnyCondition(groups, l, verdict) ==
    {i \in DOMAIN groups : verdict[i].type = "exact" /\ verdict[i].confidence >= 750}

\* The groups that a listing, with these verdicts, is the product of.
Joinable(groups, l, verdict) ==
    {i \in DOMAIN groups : /\ groups[i].cond = l.cond
                           /\ verdict[i].type = "exact" /\ verdict[i].confidence >= 750}

NewGroup(l) ==
    [ref |-> CandidateOf(l), cond |-> l.cond, match |-> Verdict("none", 0, {}),
     members |-> <<[l |-> l, match |-> Exact(1000)]>>]

\* A listing joins the group it is most confidently the product of.
Placed(groups, l, verdict) ==
    LET may == Joinable(groups, l, verdict)
        best == CHOOSE i \in may : \A j \in may :
                   \/ verdict[j].confidence < verdict[i].confidence
                   \/ verdict[j].confidence = verdict[i].confidence /\ i =< j
    IN IF may = {} THEN Append(groups, NewGroup(l))
       ELSE [groups EXCEPT ![best].members = Append(@, [l |-> l, match |-> verdict[best]]),
                           ![best].ref = IF @.ids = <<>> /\ l.ids # <<>> THEN CandidateOf(l) ELSE @]

\* A listing keeps the condition its title gives it here.
Place(groups, l) ==
    Placed(groups, Titled(l), [i \in DOMAIN groups |-> Match(groups[i].ref, CandidateOf(l))])

\* group_listings
Groups(listings) == FoldLeft(Place, <<>>, listings)

\* The group's identifiers: its reference's, then what the others add.
GroupIds(g) == FoldLeft(LAMBDA ids, m : Extended(ids, m.l.ids), g.ref.ids, g.members)

\* Exact matches first, the confident ones first; otherwise as they came.
Ranked(groups) ==
    LET weight(i) == (IF groups[i].match.type = "exact" THEN 1000 ELSE 0) + groups[i].match.confidence
    IN Taken(groups, DOMAIN groups, [i \in DOMAIN groups |-> -weight(i)])

Against(groups, reference) ==
    [i \in DOMAIN groups |-> [groups[i] EXCEPT !.match = Match(reference, groups[i].ref)]]

\* What is compared with a photograph's look-alike is never exact.
LookAlike(groups) ==
    [i \in DOMAIN groups |->
        IF groups[i].match.type = "exact"
        THEN [groups[i] EXCEPT !.match = Verdict("similar", Min({groups[i].match.confidence, 700}), {})]
        ELSE groups[i]]

\* Attributes a, at verdict m, answer a query for the model of attributes q.
AnswersModel(q, brand, a, m) ==
    LET lined == Stated(q.family, a.family)
    IN /\ lined => /\ q.family = a.family
                   /\ q.number = None \/ q.number = a.number
       /\ Stated(brand, a.brand) => brand = a.brand
       /\ ~(CodeDiffers(q, a) /\ ~lined /\ "line" \in m.why)
       /\ m.type # "unknown" /\ m.why \cap {"code", "generation"} = {}

\* A group that answers a query naming a model.
Answers(query, r) ==
    AnswersModel(TitleAttributes[query], FirstStated(SubSeq(Title[query].brands, 1, 4)),
                 TitleAttributes[r.title], Match(Candidate(query, <<>>), r))

\* _filter_to_named_model
NamedModel(groups, query) ==
    IF TitleAttributes[query].models = {} THEN groups
    ELSE LET answering == {i \in DOMAIN groups : Answers(query, groups[i].ref)}
         IN Ranked(Against(Kept(groups, answering), Candidate(query, <<>>)))

-----------------------------------------------------------------------------
(* Cards                                                                   *)

\* hide_non_product_cards and hide_implausible_results
Shown(cards, asked) ==
    PlausiblyPriced(Kept(cards, {i \in DOMAIN cards : IsProduct(TitleAttributes[cards[i].title], asked)}))
=============================================================================
