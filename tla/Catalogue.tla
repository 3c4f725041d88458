----------------------------- MODULE Catalogue -----------------------------
(***************************************************************************)
(* How overlapping searches write products and retailers: the persistence  *)
(* half of services/search_service.py and of services/catalog.py.          *)
(*                                                                         *)
(* A search groups its listings, reads what the catalogue already has, and *)
(* writes every new product in one batch inside a savepoint.  When another *)
(* search inserted one of them first, the savepoint is rolled back, the    *)
(* catalogue is read again and the groups are redone one at a time.  New   *)
(* retailers are inserted last, outside any savepoint.  An INSERT of a key *)
(* or an UPDATE of a row that another open transaction wrote waits for it. *)
(*                                                                         *)
(* A product row is named by its key and by the slot whose search made it  *)
(* (the code's random id), so that a rolled-back row and the row that won  *)
(* differ.  An offer is the pair of rows it refers to; prices, sellers and     *)
(* the policies of curated retailers are left out.                         *)
(***************************************************************************)
EXTENDS Naturals, Sequences, SequencesExt, FiniteSets

CONSTANTS
    Tx,       \* search requests that may be in flight at once
    Key,      \* canonical keys; numbers, so that updates have the order of row ids
    Ident,    \* hard identifiers: values of gtin, asin or mpn
    KindOf,   \* which of the three an identifier is
    Shop,     \* retailer slugs
    Batch     \* the listing groups a search may come to persist

ASSUME KeyAssumption   == Key \subseteq Nat
ASSUME KindAssumption  == KindOf \in [Ident -> {"gtin", "asin", "mpn"}]
ASSUME BatchAssumption == \A b \in Batch : b \in Seq([key : Key, ids : SUBSET Ident, shop : Shop])

VARIABLES
    products,   \* the products table
    retailers,  \* slugs in the retailers table
    offers,     \* committed offers: the product row and the retailer
    tx          \* what each search has read, planned and written

vars == <<products, retailers, offers, tx>>

-----------------------------------------------------------------------------
\* A search: its batch of groups, the products prefetched (seen), the retailers
\* preloaded (known), the product of each group so far (plan), changes not flushed
\* yet in flush order (todo), and what the open transaction has inserted (own),
\* updated (changed) and opened (retailers).
NoSearch == [pc |-> "idle", batch |-> <<>>, seen |-> {}, known |-> {}, plan |-> <<>>,
             todo |-> <<>>, own |-> {}, changed |-> {}, opened |-> {}]

Product(key, maker, ids) == [key |-> key, maker |-> maker, ids |-> ids]
Offer(p, shop) == [key |-> p.key, maker |-> p.maker, shop |-> shop]

\* One row a flush is about to write.
Write(row, ids, new) == [row |-> row, ids |-> ids, new |-> new]

New(t, g) == Product(g.key, t, g.ids)

\* Prefetched.find: the product with the key, else one with a shared identifier.
Lookup(rows, g) ==
    LET byKey == {r \in rows : r.key = g.key}
    IN  IF byKey # {} THEN byKey ELSE {r \in rows : r.ids \cap g.ids # {}}

\* Identifiers of a kind the product, as loaded, has none of.
Missing(r, g) == {i \in g.ids : \A j \in r.ids : KindOf[j] # KindOf[i]}

\* The columns written replace what the row holds by now.
Enriched(r, ids) == [r EXCEPT !.ids =
    {j \in @ : \A i \in ids : KindOf[i] # KindOf[j]} \cup ids]

Applied(rows, writes) ==
    {IF \E w \in writes : w.row = r.key
     THEN Enriched(r, UNION {w.ids : w \in {v \in writes : v.row = r.key}}) ELSE r : r \in rows}

\* What t's own queries see.
Visible(t) == Applied(products, tx[t].changed) \cup tx[t].own

-----------------------------------------------------------------------------
(* Locks: a row inserted or updated belongs to its transaction until it ends *)
Held(t) == {r.key : r \in tx[t].own} \cup {w.row : w \in tx[t].changed} \cup tx[t].opened
Flushing(t) == tx[t].todo # <<>> /\ tx[t].pc \in {"flush", "ask", "nested", "pending", "shops"}
Waiting(t)  == Flushing(t) /\ \E s \in Tx \ {t} : Head(tx[t].todo).row \in Held(s)
Holder(t)   == CHOOSE s \in Tx \ {t} : Head(tx[t].todo).row \in Held(s)

\* t waits, over any number of searches, for itself.
Deadlocked(t) ==
    \E path \in UNION {[1..n -> Tx] : n \in 1..Cardinality(Tx)} :
        LET n == Len(path) IN
        /\ path[1] = t
        /\ \A i \in 1..n : Waiting(path[i]) /\ Holder(path[i]) = path[(i % n) + 1]

-----------------------------------------------------------------------------
Init ==
    /\ products = {}
    /\ retailers = {}
    /\ offers = {}
    /\ tx = [t \in Tx |-> NoSearch]

Step(t, change) == /\ tx' = [tx EXCEPT ![t] = change]
                   /\ UNCHANGED <<products, retailers, offers>>

\* The providers have answered and the listings are grouped: prefetch_products.
Begin(t) ==
    /\ tx[t].pc = "idle"
    /\ \E b \in Batch :
         Step(t, [NoSearch EXCEPT !.pc = "retailers", !.batch = b, !.seen = products])

\* preload_retailers and preload_sellers
PreloadRetailers(t) ==
    /\ tx[t].pc = "retailers"
    /\ Step(t, [tx[t] EXCEPT !.pc = "batch", !.known = retailers])

-----------------------------------------------------------------------------
(* The batch: every group planned without a query, then one flush          *)

\* S put in the order of these ranks.
InOrder(S, rank) ==
    {q \in [1..Cardinality(S) -> S] :
        /\ \A x \in S : \E n \in DOMAIN q : q[n] = x
        /\ \A n \in DOMAIN q : \A m \in 1..(n - 1) : rank[q[m]] < rank[q[n]]}
ByRow(writes) == InOrder(writes, [w \in writes |-> w.row])
ByPlace(places) == InOrder(places, [i \in places |-> i])

\* A change to row k joins the changes waiting for the next flush, in row order.
Pend(todo, k, ids) ==
    LET same == {v \in ToSet(todo) : v.row = k}
        w == Write(k, ids \cup UNION {v.ids : v \in same}, FALSE)
    IN  ByRow((ToSet(todo) \ same) \cup {w})

\* Mutant: a product created for the batch is not remembered.
HitsUnremembered(t, p, i) == Lookup(tx[t].seen, tx[t].batch[i])

\* What group i finds: a product created for an earlier group is remembered.
Hits(t, p, i) == Lookup(tx[t].seen \cup {p[j] : j \in 1..(i - 1)}, tx[t].batch[i])

\* _upsert_groups with deferred = TRUE.  A found product is written when it
\* lacks an identifier; the listings may bring every found product a photo or an
\* attribute as well, or none of them.
PlanBatch(t) ==
    /\ tx[t].pc = "batch"
    /\ LET b == tx[t].batch IN
       \E p \in [DOMAIN b -> tx[t].seen \cup {New(t, b[i]) : i \in DOMAIN b}] :
         LET fresh == {i \in DOMAIN b : Hits(t, p, i) = {}}
             found == {i \in DOMAIN b : p[i] \in tx[t].seen}
             lacking == {i \in found : Missing(p[i], b[i]) # {}}
             brought(k) == UNION {Missing(p[i], b[i]) : i \in {j \in DOMAIN b : p[j].key = k}}
             insert(i) == Write(p[i].key, p[i].ids \cup brought(p[i].key), TRUE)
         IN /\ \A i \in DOMAIN b : p[i] \in IF i \in fresh THEN {New(t, b[i])} ELSE Hits(t, p, i)
            /\ \E touched \in {lacking, found} :
               \E changes \in ByRow({Write(k, brought(k), FALSE) : k \in {p[i].key : i \in touched}}),
                  order \in ByPlace(fresh) :
                 Step(t, [tx[t] EXCEPT
                      !.pc = "flush", !.plan = p,
                      !.todo = changes \o [n \in DOMAIN order |-> insert(order[n])]])

-----------------------------------------------------------------------------
(* Flushing products                                                       *)
Taken(t) == \E r \in products \cup tx[t].own : r.key = Head(tx[t].todo).row

\* The next row of a flush is written, once nobody else holds it.
WriteProduct(t) ==
    /\ Flushing(t) /\ tx[t].pc # "shops" /\ ~Waiting(t)
    /\ LET w == Head(tx[t].todo)
           mine == \E r \in tx[t].own : r.key = w.row
       IN /\ w.new => ~Taken(t)
          /\ Step(t, [tx[t] EXCEPT
               !.todo = Tail(@),
               !.own = IF w.new THEN @ \cup {Product(w.row, t, w.ids)}
                                ELSE Applied(@, {w}),
               !.changed = IF w.new \/ mine THEN @ ELSE @ \cup {w}])

Conflict(t) == Flushing(t) /\ ~Waiting(t) /\ Head(tx[t].todo).new /\ Taken(t)

\* Mutants: the plan that was rolled back is used; the batch is tried again.
BatchConflictKeepsPlan(t) ==
    /\ tx[t].pc = "flush" /\ Conflict(t)
    /\ Step(t, [tx[t] EXCEPT !.pc = "pending", !.todo = <<>>, !.own = {}, !.changed = {}])
BatchConflictReplans(t) ==
    /\ tx[t].pc = "flush" /\ Conflict(t)
    /\ Step(t, [tx[t] EXCEPT !.pc = "batch", !.todo = <<>>, !.plan = <<>>,
                             !.own = {}, !.changed = {}])

\* IntegrityError in the batch: the savepoint undoes all of it.
BatchConflict(t) ==
    /\ tx[t].pc = "flush" /\ Conflict(t)
    /\ Step(t, [tx[t] EXCEPT !.pc = "reread", !.todo = <<>>, !.plan = <<>>,
                             !.own = {}, !.changed = {}])

-----------------------------------------------------------------------------
(* One group at a time: _upsert_groups with deferred = FALSE               *)
Reread(t) ==
    /\ tx[t].pc = "reread"
    /\ Step(t, [tx[t] EXCEPT !.pc = "single", !.seen = products])

Planning(t) == Len(tx[t].plan) < Len(tx[t].batch)
Next1(t) == tx[t].batch[Len(tx[t].plan) + 1]

\* The group joins product r, whose changes wait for the next flush.
Join(t, r) ==
    \E todo \in Pend(tx[t].todo, r.key, Missing(r, Next1(t)))
              \cup (IF Missing(r, Next1(t)) = {} THEN {tx[t].todo} ELSE {}) :
        Step(t, [tx[t] EXCEPT !.pc = "single", !.plan = Append(@, r), !.todo = todo])

SingleKnown(t) ==
    /\ tx[t].pc = "single" /\ Planning(t)
    /\ \E r \in Lookup(tx[t].seen, Next1(t)) : Join(t, r)

\* A query: what is pending is flushed first.
SingleUnknown(t) ==
    /\ tx[t].pc = "single" /\ Planning(t)
    /\ Lookup(tx[t].seen, Next1(t)) = {}
    /\ Step(t, [tx[t] EXCEPT !.pc = "ask"])

Ask(t) ==
    /\ tx[t].pc = "ask" /\ tx[t].todo = <<>>
    /\ LET g == Next1(t)
           hits == Lookup(Visible(t), g)
       IN \/ \E r \in hits : Join(t, r)
          \/ /\ hits = {}
             /\ Step(t, [tx[t] EXCEPT !.pc = "nested",
                          !.todo = <<Write(g.key, g.ids, TRUE)>>])

Created(t) ==
    /\ tx[t].pc = "nested" /\ tx[t].todo = <<>>
    /\ Step(t, [tx[t] EXCEPT !.pc = "single", !.plan = Append(@, New(t, Next1(t)))])

\* IntegrityError in the group's own savepoint: ask for the row that won.
SingleConflict(t) ==
    /\ tx[t].pc = "nested" /\ Conflict(t)
    /\ Step(t, [tx[t] EXCEPT !.pc = "again", !.todo = <<>>])

\* Mutant: only the prefetched rows are asked again.
WinnerPrefetched(t) == Lookup(tx[t].seen, Next1(t))

Winner(t) == Lookup(Visible(t), Next1(t))

\* Without a row the error was about something else, and the search fails.
AskAgain(t) ==
    /\ tx[t].pc = "again"
    /\ IF Winner(t) = {} THEN Step(t, NoSearch) ELSE \E r \in Winner(t) : Join(t, r)

AllPlanned(t) ==
    /\ tx[t].pc = "single" /\ ~Planning(t)
    /\ Step(t, [tx[t] EXCEPT !.pc = "pending"])

-----------------------------------------------------------------------------
(* _record_offers                                                          *)

\* A retailer the preload did not find is created without asking again.
RecordOffers(t) ==
    /\ tx[t].pc \in {"flush", "pending"} /\ tx[t].todo = <<>>
    /\ LET shops == [i \in DOMAIN tx[t].batch |-> tx[t].batch[i].shop]
           absent == {i \in DOMAIN shops : /\ shops[i] \notin tx[t].known
                                           /\ \A j \in 1..(i - 1) : shops[j] # shops[i]}
       IN \E order \in ByPlace(absent) :
            Step(t, [tx[t] EXCEPT !.pc = "shops",
                       !.todo = [n \in DOMAIN order |-> Write(shops[order[n]], {}, TRUE)]])

WriteShop(t) ==
    /\ tx[t].pc = "shops" /\ Flushing(t) /\ ~Waiting(t)
    /\ Head(tx[t].todo).row \notin retailers
    /\ Step(t, [tx[t] EXCEPT !.todo = Tail(@), !.opened = @ \cup {Head(tx[t].todo).row}])

\* IntegrityError outside any savepoint: the whole search is rolled back.
ShopConflict(t) ==
    /\ tx[t].pc = "shops" /\ Flushing(t) /\ ~Waiting(t)
    /\ Head(tx[t].todo).row \in retailers
    /\ Step(t, NoSearch)

\* flush_pending writes the offers; the commit makes everything visible.
Commit(t) ==
    /\ tx[t].pc = "shops" /\ tx[t].todo = <<>>
    /\ products' = Visible(t)
    /\ retailers' = retailers \cup tx[t].opened
    /\ offers' = offers \cup {Offer(tx[t].plan[i], tx[t].batch[i].shop) : i \in DOMAIN tx[t].batch}
    /\ tx' = [tx EXCEPT ![t] = NoSearch]

\* Any failure of the request rolls it back.
Abort(t) == tx[t].pc # "idle" /\ Step(t, NoSearch)

\* PostgreSQL ends one of the transactions that wait for each other.
DeadlockVictim(t) == Deadlocked(t) /\ Step(t, NoSearch)

-----------------------------------------------------------------------------
Proceed(t) ==
    \/ PreloadRetailers(t) \/ PlanBatch(t) \/ WriteProduct(t) \/ BatchConflict(t)
    \/ Reread(t) \/ SingleKnown(t) \/ SingleUnknown(t) \/ Ask(t) \/ Created(t)
    \/ SingleConflict(t) \/ AskAgain(t) \/ AllPlanned(t)
    \/ RecordOffers(t) \/ WriteShop(t) \/ ShopConflict(t) \/ Commit(t)
    \/ DeadlockVictim(t)

Next == \E t \in Tx : Begin(t) \/ Proceed(t) \/ Abort(t)

Spec == Init /\ [][Next]_vars

\* A handler runs on, PostgreSQL grants a row lock in the order it was asked
\* for, and its deadlock detector runs.
FairSpec == Spec /\ \A t \in Tx : SF_vars(Proceed(t))

-----------------------------------------------------------------------------
\* Every committed offer belongs to a committed product and retailer: no search
\* records its offers on a row that its own savepoint undid.
OfferOfItsProduct ==
    \A o \in offers : /\ o.shop \in retailers
                      /\ \E p \in products : p.key = o.key /\ p.maker = o.maker

\* After a conflict inside a group's own savepoint the row that won is found, so
\* two searches that race to insert one product never fail over it.
ConflictFindsWinner == \A t \in Tx : tx[t].pc = "again" => Winner(t) # {}

\* The batch is undone only for a product some other search committed, never
\* because the batch itself holds a product twice.
ConflictsAreForeign ==
    [][\A t \in Tx : tx[t].pc = "flush" /\ tx[t].todo # <<>> /\ tx'[t].todo = <<>>
                        /\ tx'[t].pc # "flush" /\ tx'[t].pc # "idle" =>
        \E p \in products : p.key = Head(tx[t].todo).row]_vars

\* A search that began ends, whatever the others insert meanwhile: the redone
\* batch cannot conflict for ever and no cycle of waiting searches lasts.
SearchesEnd == \A t \in Tx : tx[t].pc # "idle" ~> tx[t].pc = "idle"
=============================================================================
