------------------------------ MODULE Shopping ------------------------------
(***************************************************************************)
(* What shoppers are shown: the searches of services/search_service.py,    *)
(* and the pages of api/v1/products.py, family_service, catalog_browse,    *)
(* recommendation_engine, shopping_agent and account_service that read     *)
(* the same stored products.                                               *)
(*                                                                         *)
(* Requests are served one at a time: Catalogue has overlapping writers    *)
(* and Offers overlapping readers, retry intervals and store lookups.      *)
(* Price bounds, paging, demo data and words addressed to people are left  *)
(* out; so are sellers, and offers that are out of stock.                  *)
(***************************************************************************)
EXTENDS Listings

INSTANCE Ranking

CONSTANTS
    Query,         \* what people type: names of titles
    Question,      \* what the agent is asked: whether to compare, the items it lists
                   \* and the product it names, or None
    Answer,        \* what the vendors may return to a search: sequences of listings
    Refresh,       \* and to the lookup of one product
    Linked,        \* pasted links: the title, the identifiers, the page's own offers
    Score,         \* shop -> trust scores it may be given, and whether that flags it
    Curated,       \* curated line -> its brand
    PaywallPrices, \* are prices part of the paid plan?
    MaxServed      \* bound on the requests

ASSUME QuestionAssumption ==
    /\ Query \subseteq DOMAIN Title
    /\ Question \subseteq [compare : BOOLEAN, items : Seq(DOMAIN Title), product : {None} \cup DOMAIN Title]
ASSUME AnswerAssumption ==
    /\ Answer \cup Refresh \subseteq Seq(Listing)
    /\ Linked \subseteq [title : DOMAIN Title, ids : Ids, offers : Seq({l \in Listing : l.shop # None})]
ASSUME ScoreAssumption ==
    \A s \in DOMAIN Merchant : Score[s] \subseteq [score : 0..100, flagged : BOOLEAN]

VARIABLES
    products,      \* key -> the stored product, its offers and observed prices
    trust,         \* the stored trust score of each shop
    plan,          \* the viewer's plan
    reply,         \* what the last request showed
    served

vars == <<products, trust, plan, reply, served>>

SeePrices == plan = "pro" \/ ~PaywallPrices
CompareOffers == plan = "pro"

-----------------------------------------------------------------------------
(* Storing                                                                 *)

\* f, with this at x.
With(f, x, y) == [k \in DOMAIN f \cup {x} |-> IF k = x THEN y ELSE f[k]]

\* record_offer: one row for each shop and condition, the listing's own.  What is
\* confidently the product is a price observation too.
Recorded(p, l, match) ==
    LET source == <<l.shop, l.cond>>
        row == [title |-> l.title, price |-> TruePrice(l), cond |-> l.cond, shop |-> l.shop,
                days |-> l.days, match |-> match.type, confidence |-> match.confidence,
                active |-> TRUE]
    IN [p EXCEPT !.offers = With(@, source, row),
                 !.history = IF match.type = "exact" /\ match.confidence >= 700
                             THEN @ \cup {<<source, TruePrice(l)>>} ELSE @]

RecordedAll(p, listings, match) ==
    FoldLeft(LAMBDA q, n : Recorded(q, listings[n], match[n]), p, Places(listings))

Identified(ps) == UNION {{<<i, ps[k].ids[i], k>> : i \in DOMAIN ps[k].ids} : k \in DOMAIN ps}

\* A product's key: the one it would be stored under, or the one that a product
\* with one of its identifiers has.
KeyFor(ps, known, attrs, ids, cond) ==
    LET own == <<CanonicalKey(attrs, ids), cond>>
        alike(i) == {t \in known : t[1] = i /\ i \in DOMAIN ids /\ t[2] = ids[i]}
        hard == {n \in 1..3 : alike(HardIds[n]) # {}}
    IN IF own \in DOMAIN ps \/ cond # "new" \/ hard = {} THEN own
       ELSE (CHOOSE t \in alike(HardIds[Min(hard)]) : TRUE)[3]

\* upsert_product: identifiers are added, the line is the latest one.
Upserted(ps, key, title, attrs, ids, cond) ==
    LET kept == IF cond = "new" THEN ids ELSE <<>>
    IN IF key \in DOMAIN ps
       THEN [ps EXCEPT ![key].ids = Extended(@, kept),
                       ![key].line = IF attrs.line = None THEN @ ELSE attrs.line]
       ELSE With(ps, key, [title |-> title, ids |-> kept, line |-> attrs.line,
                           offers |-> <<>>, history |-> {}])

\* Mutant: once for each group.
ListedEachTime(seen, key, match) == Append(seen, [key |-> key, match |-> match])

\* Several groups may turn out to be one product: it is listed once.
Listed(seen, key, match) ==
    IF \E n \in DOMAIN seen : seen[n].key = key THEN seen
    ELSE Append(seen, [key |-> key, match |-> match])

\* _upsert_groups and _record_offers, for the next group: the listings of an
\* attached group are offers of the referenced product.
StoreGroup(st, g, reference) ==
    LET attached == reference # None /\ g.match.type = "exact" /\ g.match.confidence >= 800
        ids == GroupIds(g)
        attrs == TitleAttributes[g.ref.title]
        key == IF attached THEN reference ELSE KeyFor(st.ps, st.known, attrs, ids, g.cond)
        ps == IF attached THEN st.ps ELSE Upserted(st.ps, key, g.ref.title, attrs, ids, g.cond)
        p == RecordedAll(ps[key], [n \in DOMAIN g.members |-> g.members[n].l],
                         [n \in DOMAIN g.members |-> IF attached THEN g.match ELSE g.members[n].match])
    IN [ps |-> [ps EXCEPT ![key] = p],
        known |-> IF key \in DOMAIN st.ps \/ g.cond # "new" THEN st.known
                  ELSE st.known \cup {<<i, ids[i], key>> : i \in DOMAIN ids},
        seen |-> Listed(st.seen, key, g.match.type)]

StoreGroups(ps, groups, reference) ==
    FoldLeft(LAMBDA st, g : StoreGroup(st, g, reference),
             [ps |-> ps, known |-> Identified(ps), seen |-> <<>>], groups)

Active(p) == {s \in DOMAIN p.offers : p.offers[s].active}

\* Active offers that are not a part or a rental of the product.
Plain(p) ==
    LET product == TitleAttributes[p.title].accessory
        odd(o) == (o.accessory /\ ~product) \/ o.rental
    IN {s \in Active(p) : ~odd(TitleAttributes[p.offers[s].title])}

\* retire_implausible_offers and purge_implausible_history, of what is plain
HealedOf(p, plain) ==
    LET exact == {s \in plain : p.offers[s].match = "exact"}
        reference == Reference(p.offers, IF Cardinality(exact) >= 3 THEN exact ELSE plain)
        kept == {s \in plain : ~BelowFloor(p.offers[s].price, reference)}
        gone == Active(p) \ kept
        offers == [s \in DOMAIN p.offers |-> [p.offers[s] EXCEPT !.active = @ /\ s \notin gone]]
    IN [p EXCEPT !.offers = offers,
                 !.history = {h \in @ : h[1] \notin gone /\ ~BelowFloor(h[2], reference)}]
Healed(p) == HealedOf(p, Plain(p))

HealedAll(ps, keys) == [k \in DOMAIN ps |-> IF k \in keys THEN Healed(ps[k]) ELSE ps[k]]

-----------------------------------------------------------------------------
(* Replies                                                                 *)

Nothing == [surface |-> "none", asked |-> None, cards |-> <<>>, offers |-> {}, figures |-> {},
            shops |-> {}]

\* Exact offers set the price of a card, if there are any.
Priced(p) ==
    LET exact == {s \in Active(p) : p.offers[s].match = "exact"}
    IN {p.offers[s].price : s \in IF exact = {} THEN Active(p) ELSE exact}

Card(ps, key, match) ==
    [id |-> key, title |-> ps[key].title, match |-> match,
     price |-> IF Priced(ps[key]) = {} THEN None ELSE Min(Priced(ps[key])),
     shops |-> {s[1] : s \in Active(ps[key])}]

\* Mutant: only the price is taken off.
WithheldPrice(cards) == [i \in DOMAIN cards |-> [cards[i] EXCEPT !.price = None]]

\* withhold_prices
Withheld(cards) ==
    [i \in DOMAIN cards |-> [cards[i] EXCEPT !.price = None, !.shops = {}]]

\* products_for_line, is_family_member
Members(ps, line) ==
    {k \in DOMAIN ps : LET a == TitleAttributes[ps[k].title]
                       IN /\ a.line # None /\ a.line.token = line
                          /\ ~(a.accessory \/ a.rental \/ a.service \/ a.catalogue)}

RowsOf(ps, keys) ==
    {r \in UNION {{k} \X Active(ps[k]) : k \in keys} : ps[r[1]].offers[r[2]].match = "exact"}

\* FamilyService.build: the lowest price of each storage size of a line, from
\* rows of which some are new and some not far below those.
FiguresOf(size, row, new, fair) ==
    LET lowest(n) == LET of == {r \in fair : size[r] = n}
                     IN Min({row[r].price : r \in IF of \cap new = {} THEN of ELSE of \cap new})
    IN {[of |-> n, price |-> lowest(n)] : n \in {size[r] : r \in fair}}

FairOf(row, new) == {r \in DOMAIN row : ~BelowFloor(row[r].price, Reference(row, new))}
FamilyRows(size, row) ==
    LET new == {r \in DOMAIN row : row[r].cond = "new"}
    IN FiguresOf(size, row, new, FairOf(row, new))

FamilyFigures(ps, line) ==
    LET rows == RowsOf(ps, Members(ps, line))
    IN FamilyRows([r \in rows |-> TitleAttributes[ps[r[1]].title].storage],
                  [r \in rows |-> ps[r[1]].offers[r[2]]])

\* Words for the category, and families that mean a brand.
CategoryWords == {"phone", "phones", "smartphone", "smartphones", "mobile", "mobiles"}
FamilyBrands == [iphone |-> "apple", iphones |-> "apple", galaxy |-> "samsung", pixel |-> "google",
                 redmi |-> "xiaomi", poco |-> "poco", nord |-> "oneplus", iqoo |-> "iqoo"]

\* catalog_for_query: the brands a query browses the catalogue by, none for all
\* of it, and None if it does not browse.
Browsed(query) ==
    LET words == Title[query].said
        brands == (words \cap Range(Curated))
                  \cup {FamilyBrands[w] : w \in words \cap DOMAIN FamilyBrands}
    IN IF Line(Title[query]) # None \/ (brands = {} /\ words \cap CategoryWords = {})
       THEN None ELSE brands

\* CatalogBrowser.page: the lowest price of each curated line of these brands.
CatalogueFigures(ps, brands) ==
    LET lines == {l \in DOMAIN Curated : brands = {} \/ Curated[l] \in brands}
        line(k) == IF ps[k].line = None THEN None ELSE ps[k].line.token
        rows == {r \in RowsOf(ps, {k \in DOMAIN ps : line(k) \in lines}) :
                    ps[r[1]].offers[r[2]].cond = "new"}
        row == [r \in rows |-> ps[r[1]].offers[r[2]]]
        of(l) == {r \in rows : line(r[1]) = l}
        fair == {r \in rows : ~BelowFloor(row[r].price, Reference(row, of(line(r[1]))))}
    IN {[of |-> l, price |-> Min({row[r].price : r \in fair \cap of(l)})] :
          l \in {line(r[1]) : r \in fair}}

IfSeen(figures) == IF SeePrices THEN figures ELSE {}

\* An offer as it is answered: with what is on record about its shop.
OfferResponse(o) == Extended(o, [score |-> trust[o.shop].score])

\* Mutant: every active offer.
ResponsesOfAll(ps, key) == {OfferResponse(ps[key].offers[s]) : s \in Active(ps[key])}

\* The offers of the comparison: those of flagged shops are withheld.
Responses(ps, key) ==
    {OfferResponse(ps[key].offers[s]) : s \in {s \in Active(ps[key]) : ~trust[s[1]].flagged}}

ExactOf(offers) == {o \in offers : o.match = "exact"}

-----------------------------------------------------------------------------
Init ==
    /\ products = <<>> /\ reply = Nothing /\ served = 0
    /\ trust = [s \in DOMAIN Merchant |-> [score |-> None, flagged |-> FALSE]]
    /\ plan \in {"free", "pro"}

\* The next request may come.
Ready == reply = Nothing /\ served < MaxServed
Replies(ps, r) ==
    /\ Ready /\ served' = served + 1
    /\ products' = ps /\ reply' = Extended(r, Nothing)
    /\ UNCHANGED <<trust, plan>>

\* Mutant: before they are.
CardsUnhealed(st) == [n \in DOMAIN st.seen |-> Card(st.ps, st.seen[n].key, st.seen[n].match)]

\* Cards of what a search stored, after implausible offers were retired.
Cards(st) == [n \in DOMAIN st.seen |-> Card(st.healed, st.seen[n].key, st.seen[n].match)]

\* _persist_groups: the first two dozen groups.
AndHealed(st) ==
    [seen |-> st.seen, ps |-> st.ps,
     healed |-> HealedAll(st.ps, {st.seen[n].key : n \in DOMAIN st.seen})]
Persisted(ps, groups, reference) ==
    AndHealed(StoreGroups(ps, SubSeq(groups, 1, Min({24, Len(groups)})), reference))

\* _catalog_fallback: stored products whose name has every word of the query.
Named(ps, query) ==
    LET named == SetToSeq({k \in DOMAIN ps : Title[query].said \subseteq Title[ps[k].title].said})
    IN [n \in DOMAIN named |-> [ref |-> Candidate(ps[named[n]].title, <<>>), key |-> named[n],
                                match |-> Verdict("none", 0, {})]]
Fallback(ps, query) ==
    LET cards(found) == [n \in DOMAIN found |-> Card(ps, found[n].key, "none")]
    IN cards(NamedModel(Named(ps, query), query))

\* A typed query.  With nothing to show, what is stored already answers.
Results(ps, query, found, st) ==
    LET cards == IF found THEN [n \in DOMAIN st.seen |-> [Cards(st)[n] EXCEPT !.match = "none"]]
                 ELSE Fallback(ps, query)
    IN [ps |-> st.healed, cards |-> Shown(cards, TitleAttributes[query]),
        surface |-> IF found THEN "text" ELSE "stored"]
ResultsOf(ps, query, groups) ==
    Results(ps, query, groups # <<>>, Persisted(ps, groups, None))
TextResults(ps, query, answer) ==
    ResultsOf(ps, query, NamedModel(Groups(Filtered(answer, TitleAttributes[query])), query))

\* The family of the line a query names, or the curated models it browses.
Figures(ps, query) ==
    LET a == TitleAttributes[query]
    IN IF a.line = None
       THEN IF Browsed(query) = None THEN {} ELSE CatalogueFigures(ps, Browsed(query))
       ELSE IF a.accessory \/ a.rental \/ a.service THEN {} ELSE FamilyFigures(ps, a.line.token)

TextSearch(query, answer) ==
    Ready /\ \E found \in {TextResults(products, query, answer)} :
        Replies(found.ps, [surface |-> found.surface, asked |-> query,
                           cards |-> IF SeePrices THEN found.cards ELSE Withheld(found.cards),
                           figures |-> IfSeen(Figures(found.ps, query))])

\* A link whose page answers stores the referenced product and its own offers.
Opened(own, link, ids) ==
    LET based == Upserted(products, own, link.title, TitleAttributes[link.title], ids, "new")
    IN [based EXCEPT ![own] = RecordedAll(@, link.offers, [n \in DOMAIN link.offers |-> Exact(980)])]

\* Listings of a link's product or of products like it.
LinkGroups(link, ids, listings) ==
    Ranked(Against(Groups(Filtered(listings, TitleAttributes[link.title])),
                   Candidate(link.title, ids)))

ShownTo(ps, surface, title, cards) ==
    Replies(ps, [surface |-> surface, asked |-> title,
                 cards |-> IF SeePrices THEN cards ELSE Withheld(cards)])

\* The card of the referenced product comes first, unless it is among the others.
LinkReached(link, answer) ==
    Ready /\
    \E own \in {KeyFor(products, Identified(products), TitleAttributes[link.title], link.ids, "new")} :
    \E st \in {Persisted(Opened(own, link, link.ids),
                         LinkGroups(link, link.ids, link.offers \o answer), own)} :
        LET listed == \E n \in DOMAIN st.seen : st.seen[n].key = own
            cards == (IF listed THEN <<>> ELSE <<Card(st.healed, own, "none")>>) \o Cards(st)
        IN ShownTo(st.healed, "link", link.title, Shown(cards, TitleAttributes[link.title]))

\* Otherwise the words of the link are the reference.
LinkUnreached(link, answer) ==
    Ready /\
    \E st \in {Persisted(products, LinkGroups(link, <<>>, answer), None)} :
        ShownTo(st.healed, "link", link.title, Shown(Cards(st), TitleAttributes[link.title]))

\* A photo: the first look-alike is the reference, and a text search on its
\* title adds other shops.
PhotoSearch(seen, answer) ==
    /\ Ready /\ seen # <<>>
    /\ \E st \in {Persisted(products,
                        Ranked(LookAlike(Against(
                            Groups(Filtered(seen \o answer, TitleAttributes[seen[1].title])),
                            CandidateOf(seen[1])))), None)} :
           ShownTo(st.healed, "photo", seen[1].title,
                   Shown(Cards(st), TitleAttributes[seen[1].title]))

-----------------------------------------------------------------------------
(* Pages of one product                                                    *)

\* refresh_offers: a listing that may be the product is recorded as an offer of
\* it; only the market is filtered.
Refreshed(ps, key, answer) ==
    LET p == ps[key]
        match(l) == Match(Candidate(p.title, p.ids), CandidateOf(l))
        may == {i \in DOMAIN answer : Sold(answer[i]) /\ match(answer[i]).type # "unknown"}
        found == Kept(answer, may)
    IN [ps EXCEPT ![key] = RecordedAll(@, found, [n \in DOMAIN found |-> match(found[n])])]

\* compare: refreshed, if Offers' conditions say so, then healed.
ForComparison(ps, key, answer) == HealedAll(Refreshed(ps, key, answer), {key})

\* GET /products/{id}/offers, with a preview for viewers who may not compare.
ComparePage(key, answer) ==
    /\ Ready
    /\ \E ps \in {ForComparison(products, key, answer)} : \E all \in {Responses(ps, key)} :
       \E shown \in IF CompareOffers \/ all = {} THEN {all} ELSE Previews(all) :
           Replies(ps, [surface |-> IF CompareOffers THEN "comparison" ELSE "preview",
                        asked |-> key, offers |-> shown])

\* GET /products/{id}/recommendations
Recommended(ps, key) == IF CompareOffers THEN Picked(ExactOf(Responses(ps, key))) ELSE {}
Recommend(key, answer) ==
    Ready /\ \E ps \in {ForComparison(products, key, answer)} :
        Replies(ps, [surface |-> "recommendation", asked |-> key, offers |-> Recommended(ps, key)])

\* heuristic_intent: a question that compares names up to three products.
CompareItems(question) ==
    IF question.compare THEN SubSeq(question.items, 1, Min({3, Len(question.items)})) ELSE <<>>

Queries(question) ==
    IF CompareItems(question) # <<>> THEN CompareItems(question)
    ELSE IF question.product = None THEN <<>> ELSE <<question.product>>

\* The shopping agent has the first results of a search compared.
WithTop(st, found, top, later) ==
    LET compared(ps) == [ps |-> ps, cards |-> st.cards \o top,
                         offers |-> st.offers \cup UNION {Recommended(ps, top[n].id) : n \in DOMAIN top}]
    IN compared(FoldLeft(LAMBDA q, c : ForComparison(q, c.id, later), found.ps, top))
Searched(st, most, found, later) ==
    WithTop(st, found, SubSeq(found.cards, 1, Min({most, Len(found.cards)})), later)

\* It searches for each product a question names; of products to be compared it
\* takes the first result each.
AgentFound(queries, most, answers, later) ==
    FoldLeft(LAMBDA st, n : Searched(st, most, TextResults(st.ps, queries[n], answers[n]), later),
             [ps |-> products, cards |-> <<>>, offers |-> {}], Places(queries))

\* The agent reads as a viewer who is not signed in.
AskAgent(question, answers, later) ==
    Ready /\ \E end \in {AgentFound(Queries(question), IF question.compare THEN 1 ELSE 3, answers, later)} :
        Replies(end.ps, [surface |-> "agent", asked |-> question, offers |-> end.offers,
                         cards |-> IF PaywallPrices THEN Withheld(end.cards) ELSE end.cards])

\* Asked about the product on screen and no other, it compares that; its price
\* there is that of the best offer overall.
AskAbout(key, later) ==
    Ready /\
    \E ps \in {ForComparison(products, key, later)} :
    \E picks \in {Picks(ExactOf(Responses(ps, key)))} :
        LET best == IF CompareOffers /\ "BEST_OVERALL" \in DOMAIN picks THEN picks.BEST_OVERALL ELSE {}
        IN Replies(ps, [surface |-> "agent", asked |-> key, offers |-> Recommended(ps, key),
                        figures |-> IfSeen({[of |-> key, price |-> o.price] : o \in best})])

\* GET /products/{id}, GET /products/{id}/history, GET /products/family, the
\* catalogue, and the list of saved products, which shows everybody the lowest
\* exact price.
ReadPage(surface, asked, figures) ==
    Replies(products, [surface |-> surface, asked |-> asked, figures |-> figures])
ProductPage(key) ==
    ReadPage("product", key, IfSeen({[of |-> key, price |-> p] : p \in Priced(products[key])}))
HistoryPage(key) ==
    ReadPage("history", key, IF CompareOffers THEN {[of |-> key, price |-> h[2]] : h \in products[key].history}
                                              ELSE {})
FamilyPage(line) == ReadPage("family", line, IfSeen(FamilyFigures(products, line)))
CataloguePage == ReadPage("catalogue", None, IfSeen(CatalogueFigures(products, {})))
SavedPage(key) ==
    LET exact == {o \in {products[key].offers[s] : s \in Active(products[key])} : o.match = "exact"}
    IN ReadPage("saved", key, {[of |-> key, price |-> o.price] :
                                 o \in {o \in exact : \A p \in exact : o.price =< p.price}})

\* GET /products/{id}/trust, whatever the plan: the shops on offer that have a score.
TrustPage(key) ==
    Replies(products, [surface |-> "trust", asked |-> key,
                       shops |-> {s[1] : s \in {s \in Active(products[key]) : trust[s[1]].score # None}}])

\* refresh_prices of workers/jobs.py
RefreshJob(key, answer) == Replies(Refreshed(products, key, answer), Nothing)

-----------------------------------------------------------------------------
\* A score is stored: by an assessment, or it is the baseline of a curated shop,
\* which a comparison or the trust page stores before it answers.
Assess(shop, score) ==
    /\ reply = Nothing /\ trust[shop] # score
    /\ trust' = [trust EXCEPT ![shop] = score]
    /\ UNCHANGED <<products, plan, reply, served>>

\* The plan runs out, or the viewer signs out; or subscribes.
ChangePlan ==
    /\ reply = Nothing
    /\ plan' = IF plan = "pro" THEN "free" ELSE "pro"
    /\ UNCHANGED <<products, trust, reply, served>>

\* What was shown is read; the next request may come.
Leave ==
    /\ reply # Nothing /\ reply' = Nothing
    /\ UNCHANGED <<products, trust, plan, served>>

Later == Answer \cup {<<>>}
Next ==
    \/ \E query \in Query, a \in Later : TextSearch(query, a)
    \/ \E link \in Linked, a \in Answer : LinkReached(link, a) \/ LinkUnreached(link, a)
    \/ \E seen \in Answer, a \in Later : PhotoSearch(seen, a)
    \/ \E question \in Question, later \in Refresh :
          \E answers \in [DOMAIN Queries(question) -> Later] : AskAgent(question, answers, later)
    \/ \E key \in DOMAIN products, a \in Refresh : \/ ComparePage(key, a) \/ Recommend(key, a)
                                                 \/ AskAbout(key, a) \/ RefreshJob(key, a)
    \/ \E key \in DOMAIN products : ProductPage(key) \/ HistoryPage(key) \/ SavedPage(key) \/ TrustPage(key)
    \/ \E line \in DOMAIN Curated : FamilyPage(line)
    \/ CataloguePage
    \/ \E shop \in DOMAIN trust : \E score \in Score[shop] : Assess(shop, score)
    \/ ChangePlan \/ Leave

Spec == Init /\ [][Next]_vars

-----------------------------------------------------------------------------
\* Without the paid plan prices stay out of every reply modelled here but two: the
\* preview of a comparison, which is meant to show some, and the list of saved
\* products, which shows prices to everybody.  Shops stay out of every reply but
\* that preview and the trust page, which names those that have a score.
PricesWithheld ==
    PaywallPrices /\ plan = "free" =>
        /\ reply.surface \notin {"preview", "saved"} =>
              /\ \A n \in DOMAIN reply.cards : reply.cards[n].price = None /\ reply.cards[n].shops = {}
              /\ reply.offers = {} /\ reply.figures = {}
        /\ reply.surface # "trust" => reply.shops = {}

\* The free preview gives away neither the best offers nor where they are: of
\* every offer it shows there is a cheaper one, and no pick is at its shop.
PreviewHidesPicks ==
    reply.surface = "preview" =>
        LET exact == ExactOf(Responses(products, reply.asked))
        IN \A o \in reply.offers : /\ \E p \in exact : p.price < o.price
                                   /\ \A p \in Picked(exact) : p.shop # o.shop

\* Neither a comparison, nor a recommendation, nor the agent names an offer of a
\* shop that is flagged.
FlaggedNotCompared == \A o \in reply.offers : ~trust[o.shop].flagged

\* A price on a search's card is that of an offer which is still on show when the
\* card is read, and is neither a part nor a rental of the product, however it was
\* stored before.  (_results_for; the card of a link's own product, when no
\* listing names it, is made without it.)
CardPriceIsOnOffer ==
    reply.surface \in {"text", "link", "photo"} =>
        \A n \in DOMAIN reply.cards : LET c == reply.cards[n] IN
            c.price # None /\ (reply.surface = "text" \/ c.match # "none") =>
                \E s \in Plain(products[c.id]) : c.price = products[c.id].offers[s].price

\* A search result is one card for each product, although several groups of
\* listings may belong to it.  (The agent may name a product twice, when it is
\* the first result of two searches.)
EachCardOnce ==
    reply.surface # "agent" =>
        \A m, n \in DOMAIN reply.cards : reply.cards[m].id = reply.cards[n].id => m = n

\* A typed query or a photo never stores a used listing with a product that is
\* new, nor the reverse: neither becomes the other's cheapest offer.
UsedApartFromNew ==
    [][reply'.surface \in {"text", "photo"} =>
        \A k \in DOMAIN products' : \A s \in DOMAIN products'[k].offers :
            \/ s[2] = k[2]
            \/ k \in DOMAIN products /\ s \in DOMAIN products[k].offers]_vars

\* The exact offers behind each card of a typed query are of the card's line:
\* another tier of the same generation, a 17 Pro beside a 17, "is a sibling and
\* stays, as its own card" (_filter_to_named_model).
TiersKeepTheirCards ==
    reply.surface = "text" =>
        \A n \in DOMAIN reply.cards : LET c == reply.cards[n] IN
            \A s \in Active(products[c.id]) : LET o == products[c.id].offers[s] IN
                o.match = "exact" => TitleAttributes[o.title].line = TitleAttributes[c.title].line
=============================================================================
