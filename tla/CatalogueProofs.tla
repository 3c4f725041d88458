--------------------------- MODULE CatalogueProofs ---------------------------
(***************************************************************************)
(* Proofs about Catalogue, for any number of overlapping searches, any     *)
(* batches and any identifiers: offers belong to rows that are there, a    *)
(* race for one product ends with the row that won, and a batch is undone  *)
(* only for a product that another search committed.                       *)
(***************************************************************************)
EXTENDS Catalogue, FiniteSetTheorems, TLAPS

-----------------------------------------------------------------------------
(* Finite sets *)

\* There is a least number in a set of numbers, unless it is empty.
LEMMA LeastNumber ==
    ASSUME NEW N \in SUBSET Nat, N # {}
    PROVE  \E n \in N : \A m \in N : n =< m
<1>1. PICK n \in N : \A m \in N : ~(<<m, n>> \in OpToRel(<, Nat))
    BY NatLessThanWellFounded, WFMin
<1>2. \A m \in N : ~(m < n) BY <1>1 DEF OpToRel
<1> QED BY <1>2

\* What maps over a finite set is finite.
LEMMA ImageFinite ==
  ASSUME NEW S, IsFiniteSet(S), NEW f
  PROVE  IsFiniteSet({f[x] : x \in S})
<1> DEFINE T == {f[x] : x \in S}
           g == [x \in S |-> f[x]]
<1>1. g \in Surjection(S, T) BY DEF Surjection
<1> HIDE DEF T, g
<1>2. IsFiniteSet(T) BY <1>1, FS_Surjection
<1> QED BY <1>2 DEF T

-----------------------------------------------------------------------------
(* Types *)

Group == [key : Key, ids : SUBSET Ident, shop : Shop]
Row == [key : Key, maker : Tx, ids : SUBSET Ident]
Writes == [row : Key \cup Shop, ids : SUBSET Ident, new : BOOLEAN]
Search == [pc : {"idle", "retailers", "batch", "flush", "reread", "single", "ask", "nested",
                 "again", "pending", "shops"},
           batch : Seq(Group), seen : SUBSET Row, known : SUBSET Shop, plan : Seq(Row),
           todo : Seq(Writes), own : SUBSET Row, changed : SUBSET Writes, opened : SUBSET Shop]

\* A flush of retailers writes retailers, any other flush products.
Rows(t) == IF tx[t].pc = "shops" THEN Shop ELSE Key

TypeOK ==
    /\ products \subseteq Row
    /\ retailers \subseteq Shop
    /\ offers \subseteq [key : Key, maker : Tx, shop : Shop]
    /\ tx \in [Tx -> Search]
    /\ \A t \in Tx : \A n \in DOMAIN tx[t].todo : tx[t].todo[n].row \in Rows(t)

\* What an update leaves of a product: everything but its identifiers.
LEMMA EnrichedIs ==
    ASSUME NEW r \in Row, NEW ids \in SUBSET Ident
    PROVE  /\ Enriched(r, ids) \in Row
           /\ Enriched(r, ids).key = r.key /\ Enriched(r, ids).maker = r.maker
<1>1. PICK i : i = {j \in r.ids : \A k \in ids : KindOf[k] # KindOf[j]} \cup ids OBVIOUS
<1>2. i \in SUBSET Ident BY <1>1 DEF Row
<1>3. Enriched(r, ids) = [r EXCEPT !.ids = i] BY <1>1 DEF Enriched
<1> QED BY <1>2, <1>3 DEF Row

\* Rows keep their key and maker when updates are applied, and none goes or comes.
LEMMA AppliedKeeps ==
    ASSUME NEW rows \in SUBSET Row, NEW writes \in SUBSET Writes
    PROVE  /\ Applied(rows, writes) \in SUBSET Row
           /\ \A r \in rows : \E q \in Applied(rows, writes) : q.key = r.key /\ q.maker = r.maker
           /\ \A q \in Applied(rows, writes) : \E r \in rows : q.key = r.key /\ q.maker = r.maker
<1> DEFINE Now(r) == IF \E w \in writes : w.row = r.key
                     THEN Enriched(r, UNION {w.ids : w \in {v \in writes : v.row = r.key}}) ELSE r
<1>1. Applied(rows, writes) = {Now(r) : r \in rows} BY DEF Applied
<1>2. ASSUME NEW r \in rows
      PROVE  Now(r) \in Row /\ Now(r).key = r.key /\ Now(r).maker = r.maker
    <2>1. PICK ids : ids = UNION {w.ids : w \in {v \in writes : v.row = r.key}} OBVIOUS
    <2>2. ids \in SUBSET Ident BY <2>1 DEF Writes
    <2> QED BY <2>1, <2>2, EnrichedIs
<1> HIDE DEF Now
<1> QED BY <1>1, <1>2

\* What a search's queries see: every row of the table, and its own.
LEMMA VisibleIs ==
    ASSUME TypeOK, NEW t \in Tx
    PROVE  /\ Visible(t) \in SUBSET Row
           /\ \A r \in products \cup tx[t].own :
                \E q \in Visible(t) : q.key = r.key /\ q.maker = r.maker
           /\ \A q \in Visible(t) :
                \E r \in products \cup tx[t].own : q.key = r.key /\ q.maker = r.maker
<1>1. products \in SUBSET Row /\ tx[t].own \in SUBSET Row /\ tx[t].changed \in SUBSET Writes
    BY DEF TypeOK, Search
<1>2. PICK rows : rows = Applied(products, tx[t].changed) OBVIOUS
<1>3. /\ rows \in SUBSET Row
      /\ \A r \in products : \E q \in rows : q.key = r.key /\ q.maker = r.maker
      /\ \A q \in rows : \E r \in products : q.key = r.key /\ q.maker = r.maker
    BY <1>1, <1>2, AppliedKeeps
<1>4. Visible(t) = rows \cup tx[t].own BY <1>2 DEF Visible
<1> QED BY <1>1, <1>3, <1>4

\* A set put in order is a sequence of all of it, and of it alone.
LEMMA OrderIs ==
    ASSUME NEW S, IsFiniteSet(S), NEW q \in [1..Cardinality(S) -> S]
    PROVE  q \in Seq(S) /\ DOMAIN q = 1..Len(q) /\ Len(q) \in Nat
BY FS_CardinalityType

\* The places of a sequence are finitely many, and so is any set of them.
LEMMA PlacesFinite ==
    ASSUME NEW S, NEW b \in Seq(S), NEW P \in SUBSET DOMAIN b
    PROVE  IsFiniteSet(P)
<1>1. PICK n \in Nat : DOMAIN b = 1..n
    <2>1. DOMAIN b = 1..Len(b) /\ Len(b) \in Nat OBVIOUS
    <2> QED BY <2>1
<1>2. 1 \in Int /\ n \in Int OBVIOUS
<1>3. IsFiniteSet(1..n) BY <1>2, FS_Interval
<1> QED BY <1>1, <1>3, FS_Subset

\* A step of one search.
LEMMA StepIs ==
    ASSUME TypeOK, NEW t \in Tx, NEW new, Step(t, new)
    PROVE  /\ tx'[t] = new
           /\ \A s \in Tx \ {t} : tx'[s] = tx[s]
           /\ UNCHANGED <<products, retailers, offers>>
BY DEF Step, TypeOK

\* Types hold after it if they hold of the search.
LEMMA StepType ==
    ASSUME TypeOK, NEW t \in Tx, NEW new \in Search, Step(t, new),
           \A n \in DOMAIN new.todo : new.todo[n].row \in IF new.pc = "shops" THEN Shop ELSE Key
    PROVE  TypeOK'
<1>1. tx' \in [Tx -> Search] BY DEF Step, TypeOK
<1>2. \A s \in Tx : \A n \in DOMAIN tx'[s].todo :
        tx'[s].todo[n].row \in IF tx'[s].pc = "shops" THEN Shop ELSE Key
    BY StepIs DEF TypeOK, Rows
<1> QED BY <1>1, <1>2, StepIs DEF TypeOK, Rows

\* Nothing is a sequence of anything.
LEMMA Empty == <<>> \in Seq(Group) /\ <<>> \in Seq(Row) /\ <<>> \in Seq(Writes)
OBVIOUS

\* An ended search is none.
LEMMA NoSearchType == NoSearch \in Search
BY Empty DEF NoSearch, Search

\* What a lookup finds is among the rows.
LEMMA LookupIn == ASSUME NEW rows, NEW g PROVE Lookup(rows, g) \subseteq rows
BY DEF Lookup

\* The identifiers a product lacks are identifiers.
LEMMA MissingType ==
    ASSUME NEW g \in Group, NEW r PROVE Missing(r, g) \in SUBSET Ident
BY DEF Missing, Group

\* The group a search is at.
LEMMA NextGroup ==
    ASSUME TypeOK, NEW t \in Tx, Planning(t)
    PROVE  Next1(t) \in Group
<1>1. tx[t].batch \in Seq(Group) /\ tx[t].plan \in Seq(Row) BY DEF TypeOK, Search
<1> QED BY <1>1 DEF Planning, Next1

\* One more product is planned on.
LEMMA OneMore ==
    ASSUME NEW plan \in Seq(Row), NEW r \in Row
    PROVE  /\ Append(plan, r) \in Seq(Row)
           /\ \A i \in DOMAIN Append(plan, r) :
                Append(plan, r)[i] = r \/ (i \in DOMAIN plan /\ Append(plan, r)[i] = plan[i])
<1>1. PICK more : more = Append(plan, r) OBVIOUS
<1>2. more \in Seq(Row) /\ Len(more) = Len(plan) + 1 BY <1>1
<1>3. PICK n \in Nat : n = Len(plan) OBVIOUS
<1>4. DOMAIN more = 1..(n + 1) /\ DOMAIN plan = 1..n BY <1>2, <1>3
<1>5. \A i \in DOMAIN more : more[i] = r \/ (i \in DOMAIN plan /\ more[i] = plan[i])
    BY <1>1, <1>3, <1>4
<1> QED BY <1>1, <1>2, <1>5, Zenon

\* A pended change leaves a sequence of changes to products.
LEMMA PendType ==
    ASSUME NEW todo \in Seq(Writes), \A n \in DOMAIN todo : todo[n].row \in Key,
           NEW k \in Key, NEW ids \in SUBSET Ident, NEW q \in Pend(todo, k, ids)
    PROVE  q \in Seq(Writes) /\ \A n \in DOMAIN q : q[n].row \in Key
<1> DEFINE same == {v \in ToSet(todo) : v.row = k}
           w == Write(k, ids \cup UNION {v.ids : v \in same}, FALSE)
<1>1. PICK S : S = (ToSet(todo) \ same) \cup {w} OBVIOUS
<1>2. ToSet(todo) \subseteq Writes /\ \A v \in ToSet(todo) : v.row \in Key BY DEF ToSet
<1>3. w \in Writes /\ w.row \in Key BY <1>2 DEF Write, Writes
<1>4. S \subseteq Writes /\ \A v \in S : v.row \in Key BY <1>1, <1>2, <1>3
<1>5. IsFiniteSet(S)
    <2>1. IsFiniteSet(DOMAIN todo) BY PlacesFinite
    <2>2. IsFiniteSet({todo[n] : n \in DOMAIN todo}) BY <2>1, ImageFinite
    <2>3. IsFiniteSet(ToSet(todo)) BY <2>2 DEF ToSet
    <2>4. IsFiniteSet(ToSet(todo) \ same) BY <2>3, FS_Subset
    <2> QED BY <1>1, <2>4, FS_AddElement
<1>6. q \in [1..Cardinality(S) -> S] BY <1>1 DEF Pend, ByRow, InOrder
<1>7. q \in Seq(S) /\ DOMAIN q = 1..Len(q) BY <1>5, <1>6, OrderIs
<1> QED BY <1>4, <1>7

-----------------------------------------------------------------------------
(* What a search relies on *)

InTable(k, m) == \E r \in products : r.key = k /\ r.maker = m
Mine(t, k, m) == \E r \in tx[t].own : r.key = k /\ r.maker = m

\* The insert of a product that the batch has planned.
Coming(t, k) == \E n \in DOMAIN tx[t].todo : tx[t].todo[n].new /\ tx[t].todo[n].row = k

\* Every product a search has read is in the table; every product it has
\* planned on is there, or is a row of its own, written or about to be.
PlanOK(t) ==
    /\ \A r \in tx[t].seen : InTable(r.key, r.maker)
    /\ \A i \in DOMAIN tx[t].plan : LET r == tx[t].plan[i] IN
         \/ InTable(r.key, r.maker) \/ Mine(t, r.key, r.maker)
         \/ tx[t].pc = "flush" /\ r.maker = t /\ Coming(t, r.key)
    /\ tx[t].pc \in {"flush", "pending", "shops"} => Len(tx[t].batch) =< Len(tx[t].plan)
    /\ tx[t].pc \in {"idle", "retailers", "batch", "reread"} =>
         tx[t].plan = <<>> /\ tx[t].own = {} /\ tx[t].todo = <<>>

\* The batch inserts no product twice.
BatchOK(t) ==
    tx[t].pc = "flush" => \A n \in DOMAIN tx[t].todo : tx[t].todo[n].new =>
        /\ \A r \in tx[t].own : r.key # tx[t].todo[n].row
        /\ \A m \in 1..(n - 1) : tx[t].todo[m].new => tx[t].todo[m].row # tx[t].todo[n].row

\* A group's own savepoint inserts the product of that group; when it fails, the
\* row that won is there.
NestedOK(t) ==
    /\ tx[t].pc \in {"ask", "nested", "again"} => Planning(t)
    /\ tx[t].pc = "nested" => \/ tx[t].todo = <<Write(Next1(t).key, Next1(t).ids, TRUE)>>
                              \/ tx[t].todo = <<>> /\ Mine(t, Next1(t).key, t)
    /\ tx[t].pc = "again" => \E r \in products \cup tx[t].own : r.key = Next1(t).key

\* The shops of a batch are in the table, or opened, or about to be.
ShopsOK(t) ==
    /\ tx[t].known \subseteq retailers
    /\ tx[t].pc = "shops" => \A i \in DOMAIN tx[t].batch :
         tx[t].batch[i].shop \in retailers \cup tx[t].opened
                                 \cup {tx[t].todo[n].row : n \in DOMAIN tx[t].todo}

SlotOK(t) == PlanOK(t) /\ BatchOK(t) /\ NestedOK(t) /\ ShopsOK(t)
Inv == TypeOK /\ OfferOfItsProduct /\ \A t \in Tx : SlotOK(t)

\* A search that has not begun relies on nothing, nor does one that has ended.
LEMMA NoneOK == ASSUME NEW t, tx[t] = NoSearch PROVE SlotOK(t)
<1>1. PlanOK(t) BY DEF PlanOK, NoSearch
<1>2. BatchOK(t) BY DEF BatchOK, NoSearch
<1>3. NestedOK(t) BY DEF NestedOK, NoSearch
<1>4. ShopsOK(t) BY DEF ShopsOK, NoSearch
<1> QED BY <1>1, <1>2, <1>3, <1>4 DEF SlotOK

\* A search that a step ends relies on nothing after it.
LEMMA NoneLeft == ASSUME NEW t, tx'[t] = NoSearch PROVE SlotOK(t)'
<1>1. PlanOK(t)' BY DEF PlanOK, NoSearch
<1>2. BatchOK(t)' BY DEF BatchOK, NoSearch
<1>3. NestedOK(t)' BY DEF NestedOK, NoSearch
<1>4. ShopsOK(t)' BY DEF ShopsOK, NoSearch
<1> QED BY <1>1, <1>2, <1>3, <1>4 DEF SlotOK

\* At the start nothing is stored and nobody searches.
LEMMA InvInit == Init => Inv
<1> SUFFICES ASSUME Init PROVE Inv OBVIOUS
<1>1. TypeOK
    <2>1. tx \in [Tx -> Search] BY NoSearchType DEF Init
    <2>2. \A t \in Tx : tx[t].todo = <<>> BY DEF Init, NoSearch
    <2> QED BY <2>1, <2>2 DEF Init, TypeOK
<1>2. ASSUME NEW t \in Tx PROVE SlotOK(t) BY NoneOK DEF Init
<1> QED BY <1>1, <1>2 DEF Init, Inv, OfferOfItsProduct

\* A search that another one's step leaves alone relies on no less after it.
LEMMA SlotStays ==
    ASSUME NEW t, SlotOK(t), UNCHANGED tx[t],
           \A k, m : InTable(k, m) => InTable(k, m)',
           \A r \in products : \E q \in products' : q.key = r.key,
           retailers \subseteq retailers'
    PROVE  SlotOK(t)'
<1>1. PlanOK(t)' BY DEF SlotOK, PlanOK, Mine, Coming
<1>2. BatchOK(t)' BY DEF SlotOK, BatchOK
<1>3. NestedOK(t)'
    <2>1. Next1(t)' = Next1(t) /\ Planning(t)' = Planning(t) BY DEF Next1, Planning
    <2>2. \A k : Mine(t, k, t)' = Mine(t, k, t) BY DEF Mine
    <2>3. PICK g : g = Next1(t) OBVIOUS
    <2>4. Mine(t, g.key, t) => (\E r \in tx[t].own : r.key = g.key /\ r.maker = t) BY DEF Mine
    <2> QED BY <2>1, <2>3, <2>4 DEF SlotOK, NestedOK, Mine
<1>4. ShopsOK(t)' BY DEF SlotOK, ShopsOK
<1> QED BY <1>1, <1>2, <1>3, <1>4 DEF SlotOK

\* A step that changes one search alone has to be looked at for that search.
LEMMA StepInv ==
    ASSUME Inv, NEW t \in Tx, NEW new, Step(t, new), TypeOK', SlotOK(t)'
    PROVE  Inv'
<1>1. /\ \A s \in Tx \ {t} : tx'[s] = tx[s]
      /\ UNCHANGED <<products, retailers, offers>>
    BY StepIs DEF Inv
<1>2. \A k, m : InTable(k, m) => InTable(k, m)' BY <1>1 DEF InTable
<1>3. \A r \in products : \E q \in products' : q.key = r.key BY <1>1
<1>4. ASSUME NEW s \in Tx \ {t} PROVE SlotOK(s)' BY <1>1, <1>2, <1>3, SlotStays DEF Inv
<1>5. OfferOfItsProduct' BY <1>1 DEF Inv, OfferOfItsProduct
<1> QED BY <1>4, <1>5 DEF Inv

\* A search that fails, at any point, leaves the tables as they were.
LEMMA EndInv == ASSUME Inv, NEW t \in Tx, Step(t, NoSearch) PROVE Inv'
<1>1. tx'[t] = NoSearch BY StepIs DEF Inv
<1>2. \A n \in DOMAIN NoSearch.todo : NoSearch.todo[n].row \in
        IF NoSearch.pc = "shops" THEN Shop ELSE Key
    BY DEF NoSearch
<1>3. TypeOK' BY <1>2, NoSearchType, StepType DEF Inv
<1>4. SlotOK(t)' BY <1>1, NoneLeft
<1> QED BY <1>3, <1>4, StepInv

-----------------------------------------------------------------------------
(* The steps of one search *)

\* A search begins.
LEMMA BeginInv == ASSUME Inv, NEW t \in Tx, Begin(t) PROVE Inv'
<1>1. PICK b \in Batch :
        Step(t, [NoSearch EXCEPT !.pc = "retailers", !.batch = b, !.seen = products])
    BY DEF Begin
<1>2. PICK new : new = [NoSearch EXCEPT !.pc = "retailers", !.batch = b, !.seen = products]
    OBVIOUS
<1>3. new = [pc |-> "retailers", batch |-> b, seen |-> products, known |-> {}, plan |-> <<>>,
             todo |-> <<>>, own |-> {}, changed |-> {}, opened |-> {}]
    BY <1>2 DEF NoSearch
<1>4. b \in Seq(Group) BY BatchAssumption DEF Group
<1>5. new \in Search
    <2>1. NoSearch \in Search BY NoSearchType
    <2> QED BY <1>2, <1>4, <2>1 DEF Search, Inv, TypeOK
<1>6. Step(t, new) BY <1>1, <1>2
<1>7. TypeOK' BY <1>3, <1>5, <1>6, StepType DEF Inv
<1>8. tx'[t] = new /\ products' = products BY <1>6, StepIs DEF Inv
<1>9. SlotOK(t)'
    <2>1. PlanOK(t)' BY <1>3, <1>8 DEF PlanOK, InTable
    <2>2. BatchOK(t)' BY <1>3, <1>8 DEF BatchOK
    <2>3. NestedOK(t)' BY <1>3, <1>8 DEF NestedOK
    <2>4. ShopsOK(t)' BY <1>3, <1>8 DEF ShopsOK
    <2> QED BY <2>1, <2>2, <2>3, <2>4 DEF SlotOK
<1> QED BY <1>6, <1>7, <1>9, StepInv

\* It reads the retailers.
LEMMA PreloadInv == ASSUME Inv, NEW t \in Tx, PreloadRetailers(t) PROVE Inv'
<1>1. tx[t] \in Search /\ retailers \subseteq Shop /\ tx[t].todo = <<>> /\ SlotOK(t)
    BY DEF Inv, TypeOK, PreloadRetailers, SlotOK, PlanOK
<1>2. PICK new : new = [tx[t] EXCEPT !.pc = "batch", !.known = retailers] OBVIOUS
<1>3. new \in Search /\ new = [tx[t] EXCEPT !.pc = "batch", !.known = retailers]
    BY <1>1, <1>2 DEF Search
<1>4. Step(t, new) /\ tx[t].pc = "retailers" BY <1>2 DEF PreloadRetailers
<1>5. DOMAIN new.todo = {} BY <1>1, <1>3 DEF Search
<1>6. TypeOK' BY <1>3, <1>4, <1>5, StepType DEF Inv
<1>7. tx'[t] = new /\ UNCHANGED <<products, retailers>> BY <1>4, StepIs DEF Inv
<1>8. SlotOK(t)'
    <2>1. PlanOK(t)' BY <1>1, <1>3, <1>4, <1>7 DEF SlotOK, PlanOK, InTable, Search
    <2>2. BatchOK(t)' BY <1>1, <1>3, <1>7 DEF BatchOK, Search
    <2>3. NestedOK(t)' BY <1>1, <1>3, <1>7 DEF NestedOK, Search
    <2>4. ShopsOK(t)' BY <1>1, <1>3, <1>7 DEF ShopsOK, Search
    <2> QED BY <2>1, <2>2, <2>3, <2>4 DEF SlotOK
<1> QED BY <1>4, <1>6, <1>8, StepInv

\* The batch conflicted: its savepoint is undone.
LEMMA BatchConflictInv == ASSUME Inv, NEW t \in Tx, BatchConflict(t) PROVE Inv'
<1>1. tx[t] \in Search /\ products \subseteq Row /\ SlotOK(t)
    BY DEF Inv, TypeOK
<1>2. PICK new : new = [tx[t] EXCEPT !.pc = "reread", !.todo = <<>>, !.plan = <<>>,
                                     !.own = {}, !.changed = {}]
    OBVIOUS
<1>3. new \in Search /\ new = [tx[t] EXCEPT !.pc = "reread", !.todo = <<>>, !.plan = <<>>,
                                            !.own = {}, !.changed = {}]
    BY <1>1, <1>2, Empty DEF Search
<1>4. Step(t, new) /\ tx[t].pc = "flush" BY <1>2 DEF BatchConflict
<1>5. DOMAIN new.todo = {} BY <1>1, <1>3, <1>4 DEF Search
<1>6. TypeOK' BY <1>3, <1>4, <1>5, StepType DEF Inv
<1>7. tx'[t] = new /\ UNCHANGED <<products, retailers>> BY <1>4, StepIs DEF Inv
<1>8. SlotOK(t)'
    <2>1. PlanOK(t)' BY <1>1, <1>3, <1>4, <1>7 DEF SlotOK, PlanOK, InTable, Search, Mine, Coming, Planning
    <2>2. BatchOK(t)' BY <1>1, <1>3, <1>7 DEF BatchOK, Search
    <2>3. NestedOK(t)' BY <1>1, <1>3, <1>4, <1>7 DEF NestedOK, Search, Planning
    <2>4. ShopsOK(t)' BY <1>1, <1>3, <1>7 DEF SlotOK, ShopsOK, Search
    <2> QED BY <2>1, <2>2, <2>3, <2>4 DEF SlotOK
<1> QED BY <1>4, <1>6, <1>8, StepInv

\* It reads the products again.
LEMMA RereadInv == ASSUME Inv, NEW t \in Tx, Reread(t) PROVE Inv'
<1>1. tx[t] \in Search /\ tx[t].pc = "reread" /\ products \subseteq Row /\ SlotOK(t)
    BY DEF Inv, TypeOK, Reread
<1>2. PICK new : new = [tx[t] EXCEPT !.pc = "single", !.seen = products] OBVIOUS
<1>3. new \in Search /\ new = [tx[t] EXCEPT !.pc = "single", !.seen = products]
    BY <1>1, <1>2 DEF Search
<1>4. Step(t, new) /\ tx[t].todo = <<>> BY <1>2 DEF Reread, Inv, SlotOK, PlanOK
<1>5. DOMAIN new.todo = {} BY <1>1, <1>3, <1>4 DEF Search
<1>6. TypeOK' BY <1>3, <1>4, <1>5, StepType DEF Inv
<1>7. tx'[t] = new /\ UNCHANGED <<products, retailers>> BY <1>4, StepIs DEF Inv
<1>8. SlotOK(t)'
    <2>1. PlanOK(t)' BY <1>1, <1>3, <1>4, <1>7 DEF SlotOK, PlanOK, InTable, Search, Mine, Coming, Planning
    <2>2. BatchOK(t)' BY <1>1, <1>3, <1>7 DEF BatchOK, Search
    <2>3. NestedOK(t)' BY <1>1, <1>3, <1>4, <1>7 DEF NestedOK, Search, Planning
    <2>4. ShopsOK(t)' BY <1>1, <1>3, <1>7 DEF SlotOK, ShopsOK, Search
    <2> QED BY <2>1, <2>2, <2>3, <2>4 DEF SlotOK
<1> QED BY <1>4, <1>6, <1>8, StepInv

\* The group is not among the rows read: ask the database.
LEMMA SingleUnknownInv == ASSUME Inv, NEW t \in Tx, SingleUnknown(t) PROVE Inv'
<1>1. /\ tx[t] \in Search /\ products \subseteq Row /\ SlotOK(t)
      /\ tx[t].pc = "single" /\ Planning(t)
    BY DEF Inv, TypeOK, SingleUnknown
<1>2. PICK new : new = [tx[t] EXCEPT !.pc = "ask"] OBVIOUS
<1>3. new \in Search /\ new = [tx[t] EXCEPT !.pc = "ask"]
    BY <1>1, <1>2 DEF Search
<1>4. Step(t, new) BY <1>2 DEF SingleUnknown
<1>5. \A n \in DOMAIN new.todo : new.todo[n].row \in IF new.pc = "shops" THEN Shop ELSE Key
    BY <1>1, <1>3 DEF Search, Inv, TypeOK, Rows
<1>6. TypeOK' BY <1>3, <1>4, <1>5, StepType DEF Inv
<1>7. tx'[t] = new /\ UNCHANGED <<products, retailers>> BY <1>4, StepIs DEF Inv
<1>8. SlotOK(t)'
    <2>1. PlanOK(t)' BY <1>1, <1>3, <1>7 DEF SlotOK, PlanOK, InTable, Search, Mine, Coming, Planning
    <2>2. BatchOK(t)' BY <1>1, <1>3, <1>7 DEF BatchOK, Search
    <2>3. NestedOK(t)' BY <1>1, <1>3, <1>7 DEF SlotOK, NestedOK, Search, Planning, Next1, Mine
    <2>4. ShopsOK(t)' BY <1>1, <1>3, <1>7 DEF SlotOK, ShopsOK, Search
    <2> QED BY <2>1, <2>2, <2>3, <2>4 DEF SlotOK
<1> QED BY <1>4, <1>6, <1>8, StepInv

\* Every group has its product.
LEMMA AllPlannedInv == ASSUME Inv, NEW t \in Tx, AllPlanned(t) PROVE Inv'
<1>1. /\ tx[t] \in Search /\ products \subseteq Row /\ SlotOK(t)
      /\ tx[t].pc = "single" /\ ~Planning(t)
    BY DEF Inv, TypeOK, AllPlanned
<1>2. PICK new : new = [tx[t] EXCEPT !.pc = "pending"] OBVIOUS
<1>3. new \in Search /\ new = [tx[t] EXCEPT !.pc = "pending"]
    BY <1>1, <1>2 DEF Search
<1>4. Step(t, new) BY <1>2 DEF AllPlanned
<1>5. \A n \in DOMAIN new.todo : new.todo[n].row \in IF new.pc = "shops" THEN Shop ELSE Key
    BY <1>1, <1>3 DEF Search, Inv, TypeOK, Rows
<1>6. TypeOK' BY <1>3, <1>4, <1>5, StepType DEF Inv
<1>7. tx'[t] = new /\ UNCHANGED <<products, retailers>> BY <1>4, StepIs DEF Inv
<1>8. SlotOK(t)'
    <2>1. PlanOK(t)' BY <1>1, <1>3, <1>7 DEF SlotOK, PlanOK, InTable, Search, Mine, Coming, Planning
    <2>2. BatchOK(t)' BY <1>1, <1>3, <1>7 DEF BatchOK, Search
    <2>3. NestedOK(t)' BY <1>1, <1>3, <1>7 DEF SlotOK, NestedOK, Search, Planning, Next1, Mine
    <2>4. ShopsOK(t)' BY <1>1, <1>3, <1>7 DEF SlotOK, ShopsOK, Search
    <2> QED BY <2>1, <2>2, <2>3, <2>4 DEF SlotOK
<1> QED BY <1>4, <1>6, <1>8, StepInv

\* The product was inserted meanwhile.
LEMMA SingleConflictInv == ASSUME Inv, NEW t \in Tx, SingleConflict(t) PROVE Inv'
<1>1. /\ tx[t] \in Search /\ products \subseteq Row /\ SlotOK(t)
      /\ tx[t].pc = "nested" /\ Taken(t) /\ tx[t].todo # <<>>
    BY DEF Inv, TypeOK, SingleConflict, Conflict, Flushing
<1>2. PICK new : new = [tx[t] EXCEPT !.pc = "again", !.todo = <<>>] OBVIOUS
<1>3. new \in Search /\ new = [tx[t] EXCEPT !.pc = "again", !.todo = <<>>]
    BY <1>1, <1>2, Empty DEF Search
<1>4. Step(t, new) BY <1>2 DEF SingleConflict
<1>5. \A n \in DOMAIN new.todo : new.todo[n].row \in IF new.pc = "shops" THEN Shop ELSE Key
    BY <1>1, <1>3 DEF Search, Inv, TypeOK, Rows
<1>6. TypeOK' BY <1>3, <1>4, <1>5, StepType DEF Inv
<1>7. tx'[t] = new /\ UNCHANGED <<products, retailers>> BY <1>4, StepIs DEF Inv
<1>8. SlotOK(t)'
    <2>1. PlanOK(t)' BY <1>1, <1>3, <1>7 DEF SlotOK, PlanOK, InTable, Search, Mine, Coming, Planning
    <2>2. BatchOK(t)' BY <1>1, <1>3, <1>7 DEF BatchOK, Search
    <2>3. NestedOK(t)' BY <1>1, <1>3, <1>7 DEF SlotOK, NestedOK, Search, Planning, Next1, Mine, Taken, Write
    <2>4. ShopsOK(t)' BY <1>1, <1>3, <1>7 DEF SlotOK, ShopsOK, Search
    <2> QED BY <2>1, <2>2, <2>3, <2>4 DEF SlotOK
<1> QED BY <1>4, <1>6, <1>8, StepInv

\* A group's own insert went through.
LEMMA CreatedInv == ASSUME Inv, NEW t \in Tx, Created(t) PROVE Inv'
<1>1. /\ tx[t] \in Search /\ products \subseteq Row /\ SlotOK(t)
      /\ tx[t].pc = "nested" /\ tx[t].todo = <<>>
    BY DEF Inv, TypeOK, Created
<1>2. Planning(t) /\ Mine(t, Next1(t).key, t)
    BY <1>1 DEF SlotOK, NestedOK
<1>3. PICK r : r = New(t, Next1(t)) OBVIOUS
<1>4. r \in Row /\ r.key = Next1(t).key /\ r.maker = t
    BY <1>2, <1>3, NextGroup DEF Inv, New, Product, Group, Row
<1>5a. PICK plan : plan = Append(tx[t].plan, r) OBVIOUS
<1>5. /\ plan \in Seq(Row)
      /\ \A i \in DOMAIN plan : plan[i] = r \/ (i \in DOMAIN tx[t].plan /\ plan[i] = tx[t].plan[i])
    BY <1>5a, <1>1, <1>4, OneMore DEF Search
<1>6. PICK new \in Search : new = [tx[t] EXCEPT !.pc = "single", !.plan = plan]
    BY <1>1, <1>5 DEF Search
<1>7. Step(t, new) BY <1>3, <1>5a, <1>6 DEF Created
<1>8. TypeOK'
    <2>1. DOMAIN new.todo = {} BY <1>1, <1>6 DEF Search
    <2> QED BY <1>6, <1>7, <2>1, StepType DEF Inv
<1>9. tx'[t] = new /\ UNCHANGED <<products, retailers>> BY <1>7, StepIs DEF Inv
<1>10. SlotOK(t)'
    <2>1. PlanOK(t)'
        <3>1. /\ new.plan = plan /\ new.own = tx[t].own /\ new.seen = tx[t].seen
              /\ new.pc = "single"
            BY <1>1, <1>6 DEF Search
        <3>2. \A k, m : Mine(t, k, m)' = Mine(t, k, m) BY <1>9, <3>1 DEF Mine
        <3>3. \A k, m : InTable(k, m)' = InTable(k, m) BY <1>9 DEF InTable
        <3> QED BY <1>1, <1>2, <1>4, <1>5, <1>9, <3>1, <3>2, <3>3 DEF SlotOK, PlanOK
    <2>2. BatchOK(t)' BY <1>1, <1>6, <1>9 DEF BatchOK, Search
    <2>3. NestedOK(t)' BY <1>1, <1>6, <1>9 DEF NestedOK, Search
    <2>4. ShopsOK(t)' BY <1>1, <1>6, <1>9 DEF SlotOK, ShopsOK, Search
    <2> QED BY <2>1, <2>2, <2>3, <2>4 DEF SlotOK
<1> QED BY <1>7, <1>8, <1>10, StepInv

\* A group joins a product that is in the table or is the search's own.
LEMMA JoinInv ==
    ASSUME Inv, NEW t \in Tx, tx[t].pc \in {"single", "ask", "again"}, Planning(t),
           NEW r \in Row, InTable(r.key, r.maker) \/ Mine(t, r.key, r.maker), Join(t, r)
    PROVE  Inv'
<1>1. /\ tx[t] \in Search /\ products \subseteq Row /\ SlotOK(t)
      /\ \A n \in DOMAIN tx[t].todo : tx[t].todo[n].row \in Key
    BY DEF Inv, TypeOK, Rows
<1>2. PICK ids : ids = Missing(r, Next1(t)) OBVIOUS
<1>3. ids \in SUBSET Ident BY <1>2, NextGroup, MissingType DEF Inv
<1>4. PICK todo : /\ todo \in Pend(tx[t].todo, r.key, ids) \/ todo = tx[t].todo
                  /\ Step(t, [tx[t] EXCEPT !.pc = "single", !.plan = Append(@, r), !.todo = todo])
    BY <1>2 DEF Join
<1>5. todo \in Seq(Writes) /\ \A n \in DOMAIN todo : todo[n].row \in Key
    <2>1. CASE todo = tx[t].todo BY <1>1, <2>1 DEF Search
    <2>2. CASE todo \in Pend(tx[t].todo, r.key, ids)
        <3>1. r.key \in Key /\ tx[t].todo \in Seq(Writes) BY <1>1 DEF Row, Search
        <3> QED BY <1>1, <1>3, <2>2, <3>1, PendType
    <2> QED BY <1>4, <2>1, <2>2
<1>6a. PICK plan : plan = Append(tx[t].plan, r) OBVIOUS
<1>6. /\ plan \in Seq(Row)
      /\ \A i \in DOMAIN plan : plan[i] = r \/ (i \in DOMAIN tx[t].plan /\ plan[i] = tx[t].plan[i])
    BY <1>6a, <1>1, OneMore DEF Search
<1>7. PICK new \in Search : new = [tx[t] EXCEPT !.pc = "single", !.plan = plan, !.todo = todo]
    BY <1>1, <1>5, <1>6 DEF Search
<1>8. Step(t, new) BY <1>4, <1>6a, <1>7
<1>9. /\ new.plan = plan /\ new.own = tx[t].own /\ new.seen = tx[t].seen
      /\ new.pc = "single" /\ new.todo = todo /\ new.known = tx[t].known
    BY <1>1, <1>7 DEF Search
<1>10. TypeOK'
    <2>1. \A n \in DOMAIN new.todo : new.todo[n].row \in IF new.pc = "shops" THEN Shop ELSE Key
        BY <1>5, <1>9
    <2> QED BY <1>8, <2>1, StepType DEF Inv
<1>11. tx'[t] = new /\ UNCHANGED <<products, retailers>> BY <1>8, StepIs DEF Inv
<1>12. SlotOK(t)'
    <2>1. PlanOK(t)'
        <3>1. \A k, m : Mine(t, k, m)' = Mine(t, k, m) BY <1>9, <1>11 DEF Mine
        <3>2. \A k, m : InTable(k, m)' = InTable(k, m) BY <1>11 DEF InTable
        <3>3. \A q \in new.seen : InTable(q.key, q.maker)' BY <1>1, <1>9, <3>2 DEF SlotOK, PlanOK
        <3>4. \A i \in DOMAIN tx[t].plan : \/ InTable(tx[t].plan[i].key, tx[t].plan[i].maker)
                                          \/ Mine(t, tx[t].plan[i].key, tx[t].plan[i].maker)
            BY <1>1 DEF SlotOK, PlanOK
        <3>5. \A i \in DOMAIN plan : \/ InTable(plan[i].key, plan[i].maker)'
                                     \/ Mine(t, plan[i].key, plan[i].maker)'
            BY <1>6, <3>1, <3>2, <3>4
        <3> QED BY <1>9, <1>11, <3>3, <3>5 DEF PlanOK
    <2>2. BatchOK(t)' BY <1>9, <1>11 DEF BatchOK
    <2>3. NestedOK(t)' BY <1>9, <1>11 DEF NestedOK
    <2>4. ShopsOK(t)' BY <1>1, <1>9, <1>11 DEF SlotOK, ShopsOK
    <2> QED BY <2>1, <2>2, <2>3, <2>4 DEF SlotOK
<1> QED BY <1>8, <1>10, <1>12, StepInv

\* A row that a lookup among the visible ones finds is in the table or the search's own.
LEMMA FoundIs ==
    ASSUME TypeOK, NEW t \in Tx, NEW g, NEW r \in Lookup(Visible(t), g)
    PROVE  r \in Row /\ (InTable(r.key, r.maker) \/ Mine(t, r.key, r.maker))
<1>1. r \in Visible(t) BY LookupIn
<1>2. r \in Row BY <1>1, VisibleIs
<1>3. PICK q \in products \cup tx[t].own : r.key = q.key /\ r.maker = q.maker BY <1>1, VisibleIs
<1> QED BY <1>2, <1>3 DEF InTable, Mine

\* A group joins a product that was read.
LEMMA SingleKnownInv == ASSUME Inv, NEW t \in Tx, SingleKnown(t) PROVE Inv'
<1>1. PICK r \in Lookup(tx[t].seen, Next1(t)) : Join(t, r) BY DEF SingleKnown
<1>2. r \in tx[t].seen BY <1>1, LookupIn
<1>3. r \in Row /\ InTable(r.key, r.maker)
    BY <1>2 DEF Inv, TypeOK, Search, SlotOK, PlanOK
<1>4. tx[t].pc = "single" /\ Planning(t) BY DEF SingleKnown
<1> QED BY <1>1, <1>3, <1>4, JoinInv

\* A group asks the database: it joins what it finds, or inserts its product.
LEMMA AskInv == ASSUME Inv, NEW t \in Tx, Ask(t) PROVE Inv'
<1>1. /\ tx[t] \in Search /\ products \subseteq Row /\ SlotOK(t) /\ TypeOK
      /\ tx[t].pc = "ask" /\ tx[t].todo = <<>>
    BY DEF Inv, TypeOK, Ask
<1>2. Planning(t) BY <1>1 DEF SlotOK, NestedOK
<1>3. ASSUME NEW r \in Lookup(Visible(t), Next1(t)), Join(t, r) PROVE Inv'
    BY <1>1, <1>2, <1>3, FoundIs, JoinInv
<1>4. PICK g : g = Next1(t) OBVIOUS
<1>5. g \in Group BY <1>1, <1>2, <1>4, NextGroup
<1>6. PICK new : new = [tx[t] EXCEPT !.pc = "nested", !.todo = <<Write(g.key, g.ids, TRUE)>>]
    OBVIOUS
<1>7. ASSUME Step(t, new) PROVE Inv'
    <2>1. Write(g.key, g.ids, TRUE) \in Writes /\ Write(g.key, g.ids, TRUE).row \in Key
        BY <1>5 DEF Group, Write, Writes
    <2>2. PICK w \in Writes : w = Write(g.key, g.ids, TRUE) /\ w.row \in Key BY <2>1
    <2>3. <<w>> \in Seq(Writes) /\ \A n \in DOMAIN <<w>> : <<w>>[n] = w OBVIOUS
    <2>4. new \in Search /\ new = [tx[t] EXCEPT !.pc = "nested", !.todo = <<w>>]
        BY <1>1, <1>6, <2>2, <2>3 DEF Search
    <2>5. /\ new.plan = tx[t].plan /\ new.own = tx[t].own /\ new.seen = tx[t].seen
          /\ new.pc = "nested" /\ new.todo = <<w>> /\ new.known = tx[t].known /\ new.batch = tx[t].batch
        BY <1>1, <2>4 DEF Search
    <2>6. TypeOK'
        <3>1. \A n \in DOMAIN new.todo : new.todo[n].row \in IF new.pc = "shops" THEN Shop ELSE Key
            BY <2>2, <2>3, <2>5
        <3> QED BY <1>1, <1>7, <2>4, <3>1, StepType
    <2>7. tx'[t] = new /\ UNCHANGED <<products, retailers>> BY <1>1, <1>7, StepIs
    <2>8. PlanOK(t)'
        <3>1. \A k, m : Mine(t, k, m)' = Mine(t, k, m) BY <2>5, <2>7 DEF Mine
        <3>2. \A k, m : InTable(k, m)' = InTable(k, m) BY <2>7 DEF InTable
        <3> QED BY <1>1, <2>5, <2>7, <3>1, <3>2 DEF SlotOK, PlanOK
    <2>9. BatchOK(t)' BY <2>5, <2>7 DEF BatchOK
    <2>10. NestedOK(t)'
        <3>1. Planning(t)' /\ Next1(t)' = g BY <1>2, <1>4, <2>5, <2>7 DEF Planning, Next1
        <3> QED BY <2>2, <2>5, <2>7, <3>1 DEF NestedOK
    <2>11. ShopsOK(t)' BY <1>1, <2>5, <2>7 DEF SlotOK, ShopsOK
    <2> QED BY <1>7, <2>6, <2>8, <2>9, <2>10, <2>11, StepInv DEF SlotOK
<1>8. (\E r \in Lookup(Visible(t), Next1(t)) : Join(t, r)) \/ Step(t, new)
    BY <1>4, <1>6 DEF Ask
<1> QED BY <1>3, <1>7, <1>8

\* A group whose insert failed asks again.
LEMMA AskAgainInv == ASSUME Inv, NEW t \in Tx, AskAgain(t) PROVE Inv'
<1>1. Planning(t) /\ tx[t].pc = "again" /\ TypeOK
    BY DEF AskAgain, Inv, SlotOK, NestedOK
<1>2. ASSUME NEW r \in Lookup(Visible(t), Next1(t)), Join(t, r) PROVE Inv'
    BY <1>1, <1>2, FoundIs, JoinInv
<1>3. Step(t, NoSearch) \/ \E r \in Lookup(Visible(t), Next1(t)) : Join(t, r)
    BY DEF AskAgain, Winner
<1> QED BY <1>2, <1>3, EndInv

-----------------------------------------------------------------------------
(* Writing *)

\* What is left of a sequence when its head is taken off.
LEMMA TailIs ==
    ASSUME NEW S, NEW s \in Seq(S), s # <<>>
    PROVE  /\ Tail(s) \in Seq(S) /\ Head(s) \in S /\ 1 \in DOMAIN s /\ s[1] = Head(s)
           /\ \A n \in DOMAIN Tail(s) : n \in Nat /\ n + 1 \in DOMAIN s /\ Tail(s)[n] = s[n + 1]
           /\ \A n \in DOMAIN s : n # 1 => n - 1 \in DOMAIN Tail(s) /\ Tail(s)[n - 1] = s[n]
<1>1. PICK k \in Nat : k = Len(s) /\ k > 0 OBVIOUS
<1>2. Tail(s) \in Seq(S) /\ Len(Tail(s)) = k - 1 /\ \A n \in 1..(k - 1) : Tail(s)[n] = s[n + 1]
    BY <1>1
<1>3. DOMAIN s = 1..k /\ DOMAIN Tail(s) = 1..(k - 1) BY <1>1, <1>2
<1>4. Head(s) \in S /\ 1 \in DOMAIN s /\ s[1] = Head(s) BY <1>1, <1>3
<1>5. \A n \in DOMAIN Tail(s) : n \in Nat /\ n + 1 \in DOMAIN s /\ Tail(s)[n] = s[n + 1]
    BY <1>2, <1>3
<1>6. ASSUME NEW n \in DOMAIN s, n # 1
      PROVE  n - 1 \in DOMAIN Tail(s) /\ Tail(s)[n - 1] = s[n]
    <2>1. n - 1 \in 1..(k - 1) /\ (n - 1) + 1 = n BY <1>3, <1>6
    <2>2. Tail(s)[n - 1] = s[(n - 1) + 1] BY <1>2, <2>1
    <2> QED BY <1>3, <2>1, <2>2
<1> QED BY <1>2, <1>4, <1>5, <1>6

\* A retailer is inserted.
LEMMA WriteShopInv == ASSUME Inv, NEW t \in Tx, WriteShop(t) PROVE Inv'
<1>1. /\ tx[t] \in Search /\ retailers \subseteq Shop /\ SlotOK(t)
      /\ tx[t].pc = "shops" /\ tx[t].todo # <<>>
      /\ \A n \in DOMAIN tx[t].todo : tx[t].todo[n].row \in Shop
    BY DEF Inv, TypeOK, WriteShop, Flushing, Rows
<1>2. PICK todo, w : todo = Tail(tx[t].todo) /\ w = Head(tx[t].todo) OBVIOUS
<1>3. /\ todo \in Seq(Writes) /\ w \in Writes /\ w.row \in Shop
      /\ \A n \in DOMAIN todo : todo[n].row \in Shop
      /\ \A n \in DOMAIN tx[t].todo : \/ tx[t].todo[n] = w
                                      \/ \E m \in DOMAIN todo : todo[m] = tx[t].todo[n]
    <2>1. tx[t].todo \in Seq(Writes) BY <1>1 DEF Search
    <2>2. PICK old \in Seq(Writes) : old = tx[t].todo BY <2>1
    <2>3. /\ todo \in Seq(Writes) /\ w \in Writes /\ 1 \in DOMAIN old /\ old[1] = w
          /\ \A n \in DOMAIN todo : n + 1 \in DOMAIN old /\ todo[n] = old[n + 1]
          /\ \A n \in DOMAIN old : n # 1 => n - 1 \in DOMAIN todo /\ todo[n - 1] = old[n]
        BY <1>1, <1>2, <2>2, TailIs
    <2> QED BY <1>1, <2>2, <2>3
<1>4. PICK new \in Search :
        new = [tx[t] EXCEPT !.todo = todo, !.opened = tx[t].opened \cup {w.row}]
    BY <1>1, <1>3 DEF Search
<1>5. Step(t, new) BY <1>2, <1>4 DEF WriteShop
<1>6. /\ new.pc = tx[t].pc /\ new.batch = tx[t].batch /\ new.seen = tx[t].seen
      /\ new.known = tx[t].known /\ new.plan = tx[t].plan /\ new.own = tx[t].own
      /\ new.todo = todo /\ new.opened = tx[t].opened \cup {w.row}
    BY <1>1, <1>4 DEF Search
<1>7. TypeOK'
    <2>1. \A n \in DOMAIN new.todo : new.todo[n].row \in IF new.pc = "shops" THEN Shop ELSE Key
        BY <1>1, <1>3, <1>6
    <2> QED BY <1>5, <2>1, StepType DEF Inv
<1>8. tx'[t] = new /\ UNCHANGED <<products, retailers>> BY <1>5, StepIs DEF Inv
<1>9. PlanOK(t)'
    <2>1. \A k, m : Mine(t, k, m)' = Mine(t, k, m) BY <1>6, <1>8 DEF Mine
    <2>2. \A k, m : InTable(k, m)' = InTable(k, m) BY <1>8 DEF InTable
    <2> QED BY <1>1, <1>6, <1>8, <2>1, <2>2 DEF SlotOK, PlanOK
<1>10. BatchOK(t)' /\ NestedOK(t)' BY <1>1, <1>6, <1>8 DEF BatchOK, NestedOK
<1>11. ShopsOK(t)'
    <2>1. new.known \subseteq retailers' BY <1>1, <1>6, <1>8 DEF SlotOK, ShopsOK
    <2>2. ASSUME NEW i \in DOMAIN new.batch
          PROVE  new.batch[i].shop \in retailers' \cup new.opened \cup {todo[n].row : n \in DOMAIN todo}
        BY <1>1, <1>3, <1>6, <1>8 DEF SlotOK, ShopsOK
    <2> QED BY <1>6, <1>8, <2>1, <2>2 DEF ShopsOK
<1> QED BY <1>5, <1>7, <1>9, <1>10, <1>11, StepInv DEF SlotOK

\* The next row of a flush of products is written.
LEMMA WriteProductInv == ASSUME Inv, NEW t \in Tx, WriteProduct(t) PROVE Inv'
<1>1. /\ tx[t] \in Search /\ SlotOK(t) /\ TypeOK
      /\ tx[t].pc \in {"flush", "ask", "nested", "pending"} /\ tx[t].todo # <<>>
      /\ \A n \in DOMAIN tx[t].todo : tx[t].todo[n].row \in Key
    BY DEF Inv, TypeOK, WriteProduct, Flushing, Rows
<1>2. PICK old \in Seq(Writes), own \in SUBSET Row, changed \in SUBSET Writes :
        old = tx[t].todo /\ own = tx[t].own /\ changed = tx[t].changed
    BY <1>1 DEF Search
<1>3. PICK todo, w : todo = Tail(old) /\ w = Head(old) OBVIOUS
<1>4. /\ todo \in Seq(Writes) /\ w \in Writes /\ 1 \in DOMAIN old /\ old[1] = w /\ w.row \in Key
      /\ \A n \in DOMAIN todo : n \in Nat /\ n + 1 \in DOMAIN old /\ todo[n] = old[n + 1]
      /\ \A n \in DOMAIN old : n # 1 => n - 1 \in DOMAIN todo /\ todo[n - 1] = old[n]
    BY <1>1, <1>2, <1>3, TailIs
<1>5. PICK now : now = IF w.new THEN own \cup {Product(w.row, t, w.ids)} ELSE Applied(own, {w})
    OBVIOUS
<1>6. /\ now \in SUBSET Row
      /\ \A r \in own : \E q \in now : q.key = r.key /\ q.maker = r.maker
      /\ w.new => \E q \in now : q.key = w.row /\ q.maker = t
      /\ \A q \in now : (w.new /\ q.key = w.row) \/ \E r \in own : r.key = q.key
    <2>1. CASE w.new
        <3>1. PICK p : p = Product(w.row, t, w.ids) OBVIOUS
        <3>2. p \in Row /\ p.key = w.row /\ p.maker = t BY <1>4, <3>1 DEF Product, Row, Writes
        <3> QED BY <1>5, <2>1, <3>1, <3>2
    <2>2. CASE ~w.new
        <3>1. {w} \in SUBSET Writes BY <1>4
        <3> QED BY <1>5, <2>2, <3>1, AppliedKeeps
    <2> QED BY <2>1, <2>2
<1>7. PICK upd \in SUBSET Writes :
        Step(t, [tx[t] EXCEPT !.todo = todo, !.own = now, !.changed = upd])
    <2>1. changed \in SUBSET Writes /\ changed \cup {w} \in SUBSET Writes BY <1>4
    <2>2. \/ Step(t, [tx[t] EXCEPT !.todo = todo, !.own = now, !.changed = changed])
          \/ Step(t, [tx[t] EXCEPT !.todo = todo, !.own = now, !.changed = changed \cup {w}])
        BY <1>2, <1>3, <1>5 DEF WriteProduct
    <2> QED BY <2>1, <2>2
<1>8. PICK new \in Search : new = [tx[t] EXCEPT !.todo = todo, !.own = now, !.changed = upd]
    BY <1>1, <1>4, <1>6 DEF Search
<1>9. Step(t, new) BY <1>7, <1>8
<1>10. /\ new.pc = tx[t].pc /\ new.batch = tx[t].batch /\ new.seen = tx[t].seen
       /\ new.known = tx[t].known /\ new.plan = tx[t].plan /\ new.own = now
       /\ new.todo = todo
    BY <1>1, <1>8 DEF Search
<1>11. TypeOK'
    <2>1. \A n \in DOMAIN new.todo : new.todo[n].row \in IF new.pc = "shops" THEN Shop ELSE Key
        BY <1>1, <1>2, <1>4, <1>10
    <2> QED BY <1>1, <1>9, <2>1, StepType
<1>12. tx'[t] = new /\ UNCHANGED <<products, retailers>> BY <1>1, <1>9, StepIs
<1>13. \A k, m : Mine(t, k, m) => Mine(t, k, m)' BY <1>2, <1>6, <1>10, <1>12 DEF Mine
<1>14. w.new => Mine(t, w.row, t)' BY <1>6, <1>10, <1>12 DEF Mine
<1>15. \A k, m : InTable(k, m)' = InTable(k, m) BY <1>12 DEF InTable
<1>16. \A k : Coming(t, k) => Coming(t, k)' \/ (w.new /\ w.row = k)
    <2>1. ASSUME NEW k, NEW n \in DOMAIN old, old[n].new, old[n].row = k
          PROVE  (\E m \in DOMAIN todo : todo[m].new /\ todo[m].row = k) \/ (w.new /\ w.row = k)
        BY <1>4, <2>1
    <2> QED BY <1>2, <1>10, <1>12, <2>1 DEF Coming
<1>17. PlanOK(t)'
    <2>1. \A q \in new.seen : InTable(q.key, q.maker)' BY <1>1, <1>10, <1>15 DEF SlotOK, PlanOK
    <2>2. ASSUME NEW i \in DOMAIN new.plan
          PROVE  \/ InTable(new.plan[i].key, new.plan[i].maker)'
                 \/ Mine(t, new.plan[i].key, new.plan[i].maker)'
                 \/ new.pc = "flush" /\ new.plan[i].maker = t /\ Coming(t, new.plan[i].key)'
        <3>1. PICK r : r = tx[t].plan[i] OBVIOUS
        <3>2. \/ InTable(r.key, r.maker) \/ Mine(t, r.key, r.maker)
              \/ tx[t].pc = "flush" /\ r.maker = t /\ Coming(t, r.key)
            BY <1>1, <1>10, <3>1 DEF SlotOK, PlanOK
        <3>3. CASE InTable(r.key, r.maker) BY <1>10, <1>15, <3>1, <3>3
        <3>4. CASE Mine(t, r.key, r.maker) BY <1>10, <1>13, <3>1, <3>4
        <3>5. CASE tx[t].pc = "flush" /\ r.maker = t /\ Coming(t, r.key)
            BY <1>10, <1>14, <1>16, <3>1, <3>5
        <3> QED BY <3>2, <3>3, <3>4, <3>5
    <2> QED BY <1>1, <1>10, <1>12, <2>1, <2>2 DEF SlotOK, PlanOK
<1>18. BatchOK(t)'
    <2> SUFFICES ASSUME tx[t].pc = "flush", NEW n \in DOMAIN todo, todo[n].new
                 PROVE  /\ \A q \in now : q.key # todo[n].row
                        /\ \A m \in 1..(n - 1) : todo[m].new => todo[m].row # todo[n].row
        BY <1>10, <1>12 DEF BatchOK
    <2>1. /\ \A r \in own : r.key # old[n + 1].row
          /\ \A m \in 1..((n + 1) - 1) : old[m].new => old[m].row # old[n + 1].row
        BY <1>1, <1>2, <1>4 DEF SlotOK, BatchOK
    <2>2. n \in Nat /\ todo[n] = old[n + 1] /\ 1 \in 1..((n + 1) - 1) /\ n >= 1
        BY <1>4
    <2>3. w.new => w.row # todo[n].row BY <1>4, <2>1, <2>2
    <2>4. \A q \in now : q.key # todo[n].row BY <1>6, <2>1, <2>2, <2>3
    <2>5. ASSUME NEW m \in 1..(n - 1), todo[m].new PROVE todo[m].row # todo[n].row
        <3>1. m \in DOMAIN todo /\ m + 1 \in 1..((n + 1) - 1)
            <4>1. DOMAIN todo = 1..Len(todo) /\ Len(todo) \in Nat BY <1>4
            <4> QED BY <2>2, <4>1
        <3>2. todo[m] = old[m + 1] BY <1>4, <3>1
        <3> QED BY <2>1, <2>2, <2>5, <3>1, <3>2
    <2> QED BY <2>4, <2>5
<1>19. NestedOK(t)'
    <2>1. Planning(t)' = Planning(t) /\ Next1(t)' = Next1(t)
        BY <1>10, <1>12 DEF Planning, Next1
    <2>2. PICK g : g = Next1(t) OBVIOUS
    <2>3. ASSUME tx[t].pc = "nested" PROVE todo = <<>> /\ Mine(t, g.key, t)'
        <3>1. old = <<Write(g.key, g.ids, TRUE)>>
            BY <1>1, <1>2, <2>2, <2>3 DEF SlotOK, NestedOK
        <3>2. PICK x : x = Write(g.key, g.ids, TRUE) OBVIOUS
        <3>3. todo = <<>> /\ w = x BY <1>3, <3>1, <3>2
        <3>4. w.new /\ w.row = g.key BY <3>2, <3>3 DEF Write
        <3> QED BY <1>14, <3>3, <3>4
    <2> QED BY <1>1, <1>10, <1>12, <2>1, <2>2, <2>3 DEF SlotOK, NestedOK
<1>20. ShopsOK(t)' BY <1>1, <1>10, <1>12 DEF SlotOK, ShopsOK
<1> QED BY <1>9, <1>11, <1>17, <1>18, <1>19, <1>20, StepInv DEF SlotOK

\* Everything written and the offers recorded, the search commits.
LEMMA CommitInv == ASSUME Inv, NEW t \in Tx, Commit(t) PROVE Inv'
<1>1. /\ tx[t] \in Search /\ SlotOK(t) /\ TypeOK
      /\ tx[t].pc = "shops" /\ tx[t].todo = <<>>
      /\ products' = Visible(t) /\ retailers' = retailers \cup tx[t].opened
      /\ tx' = [tx EXCEPT ![t] = NoSearch]
    BY DEF Inv, TypeOK, Commit
<1>2. PICK b \in Seq(Group), plan \in Seq(Row) : b = tx[t].batch /\ plan = tx[t].plan
    BY <1>1 DEF Search
<1>3. PICK made : made = {Offer(plan[i], b[i].shop) : i \in DOMAIN b} OBVIOUS
<1>4. offers' = offers \cup made BY <1>2, <1>3 DEF Commit
<1>5. /\ products' \in SUBSET Row
      /\ \A r \in products \cup tx[t].own : \E q \in products' : q.key = r.key /\ q.maker = r.maker
    BY <1>1, VisibleIs
<1>6. retailers \subseteq retailers' /\ retailers' \subseteq Shop
    BY <1>1 DEF TypeOK, Search
<1>7. ASSUME NEW i \in DOMAIN b
      PROVE  /\ plan[i] \in Row /\ b[i] \in Group /\ b[i].shop \in retailers'
             /\ \E q \in products' : q.key = plan[i].key /\ q.maker = plan[i].maker
    <2>1. DOMAIN b = 1..Len(b) /\ DOMAIN plan = 1..Len(plan) /\ Len(b) \in Nat /\ Len(plan) \in Nat
        OBVIOUS
    <2>2. Len(b) =< Len(plan) BY <1>1, <1>2 DEF SlotOK, PlanOK
    <2>3. i \in DOMAIN plan BY <2>1, <2>2
    <2>4. InTable(plan[i].key, plan[i].maker) \/ Mine(t, plan[i].key, plan[i].maker)
        BY <1>1, <1>2, <2>3 DEF SlotOK, PlanOK
    <2>5. \E q \in products' : q.key = plan[i].key /\ q.maker = plan[i].maker
        BY <1>5, <2>4 DEF InTable, Mine
    <2>6. {tx[t].todo[n].row : n \in DOMAIN tx[t].todo} = {} BY <1>1
    <2>7. b[i].shop \in retailers' BY <1>1, <1>2, <2>6 DEF SlotOK, ShopsOK
    <2>8. plan[i] \in Row /\ b[i] \in Group BY <2>3
    <2> QED BY <2>5, <2>7, <2>8
<1>8. ASSUME NEW o \in made
      PROVE  /\ o \in [key : Key, maker : Tx, shop : Shop] /\ o.shop \in retailers'
             /\ \E q \in products' : q.key = o.key /\ q.maker = o.maker
    <2>1. PICK i \in DOMAIN b : o = Offer(plan[i], b[i].shop) BY <1>3
    <2>2. PICK r \in Row, shop \in Shop :
            r = plan[i] /\ shop = b[i].shop /\ shop \in retailers'
        BY <1>7 DEF Group
    <2>3. o = [key |-> r.key, maker |-> r.maker, shop |-> shop] BY <2>1, <2>2 DEF Offer
    <2>4. \E q \in products' : q.key = r.key /\ q.maker = r.maker BY <1>7, <2>2
    <2> QED BY <2>2, <2>3, <2>4 DEF Row
<1>9. OfferOfItsProduct'
    <2>1. ASSUME NEW o \in offers
          PROVE  /\ o.shop \in retailers'
                 /\ \E q \in products' : q.key = o.key /\ q.maker = o.maker
        BY <1>5, <1>6 DEF Inv, OfferOfItsProduct
    <2> QED BY <1>4, <1>8, <2>1 DEF OfferOfItsProduct
<1>10. tx' \in [Tx -> Search] BY <1>1, NoSearchType DEF TypeOK
<1>11. tx'[t] = NoSearch /\ \A s \in Tx \ {t} : tx'[s] = tx[s] BY <1>1 DEF TypeOK
<1>12. TypeOK'
    <2>1. offers' \subseteq [key : Key, maker : Tx, shop : Shop] BY <1>1, <1>4, <1>8 DEF TypeOK
    <2>2. ASSUME NEW s \in Tx, NEW n \in DOMAIN tx'[s].todo
          PROVE  tx'[s].todo[n].row \in IF tx'[s].pc = "shops" THEN Shop ELSE Key
        BY <1>1, <1>11 DEF TypeOK, Rows, NoSearch
    <2> QED BY <1>5, <1>6, <1>10, <2>1, <2>2 DEF TypeOK, Rows
<1>13. ASSUME NEW s \in Tx PROVE SlotOK(s)'
    <2>1. CASE s = t BY <1>11, <2>1, NoneLeft
    <2>2. CASE s # t
        <3>1. \A k, m : InTable(k, m) => InTable(k, m)' BY <1>5 DEF InTable
        <3> QED BY <1>5, <1>6, <1>11, <2>2, <3>1, SlotStays DEF Inv
    <2> QED BY <2>1, <2>2
<1> QED BY <1>9, <1>12, <1>13 DEF Inv

-----------------------------------------------------------------------------
(* Planning a whole batch *)

\* Two sequences, one after the other.
LEMMA Joined ==
    ASSUME NEW S, NEW a \in Seq(S), NEW b \in Seq(S)
    PROVE  /\ a \o b \in Seq(S)
           /\ \A n \in DOMAIN (a \o b) :
                \/ n \in DOMAIN a /\ (a \o b)[n] = a[n]
                \/ n > Len(a) /\ n - Len(a) \in DOMAIN b /\ (a \o b)[n] = b[n - Len(a)]
           /\ \A n \in DOMAIN b : Len(a) + n \in DOMAIN (a \o b) /\ (a \o b)[Len(a) + n] = b[n]
<1>1. PICK c : c = a \o b OBVIOUS
<1>2. PICK k \in Nat, l \in Nat : k = Len(a) /\ l = Len(b) OBVIOUS
<1>3. c \in Seq(S) /\ Len(c) = k + l /\ \A n \in 1..(k + l) : c[n] = IF n =< k THEN a[n] ELSE b[n - k]
    BY <1>1, <1>2
<1>4. DOMAIN a = 1..k /\ DOMAIN b = 1..l /\ DOMAIN c = 1..(k + l) BY <1>2, <1>3
<1>5. \A n \in DOMAIN c : \/ n \in DOMAIN a /\ c[n] = a[n]
                          \/ n > k /\ n - k \in DOMAIN b /\ c[n] = b[n - k]
    BY <1>3, <1>4
<1>6. ASSUME NEW n \in DOMAIN b PROVE k + n \in DOMAIN c /\ c[k + n] = b[n]
    <2>1. n \in 1..l BY <1>4
    <2>2. k + n \in 1..(k + l) /\ ~(k + n =< k) /\ (k + n) - k = n BY <2>1
    <2> QED BY <1>3, <1>4, <2>2
<1> QED BY <1>1, <1>2, <1>3, <1>5, <1>6

\* No two of the products that the batch creates have the same key.
LEMMA FreshDiffer ==
    ASSUME NEW t \in Tx, NEW p, NEW i \in Nat, NEW j \in 1..(i - 1), Hits(t, p, i) = {}
    PROVE  p[j].key # tx[t].batch[i].key
<1>1. p[j] \in tx[t].seen \cup {p[k] : k \in 1..(i - 1)} OBVIOUS
<1> QED BY <1>1 DEF Hits, Lookup

\* Changes to products, put in the order of the rows.
LEMMA ChangesAre ==
    ASSUME NEW S \in SUBSET Writes, IsFiniteSet(S), \A w \in S : w.row \in Key /\ ~w.new,
           NEW changes \in ByRow(S)
    PROVE  /\ changes \in Seq(Writes)
           /\ \A n \in DOMAIN changes : changes[n].row \in Key /\ ~changes[n].new
<1>1. changes \in [1..Cardinality(S) -> S] BY DEF ByRow, InOrder
<1>2. changes \in Seq(S) /\ DOMAIN changes = 1..Len(changes) BY <1>1, OrderIs
<1> QED BY <1>2

\* The places of a sequence, put in order.
LEMMA PlacedIs ==
    ASSUME NEW S, NEW b \in Seq(S), NEW places \in SUBSET DOMAIN b,
           NEW order \in ByPlace(places)
    PROVE  /\ order \in Seq(places) /\ DOMAIN order = 1..Len(order)
           /\ \A i \in places : \E n \in DOMAIN order : order[n] = i
           /\ \A n \in DOMAIN order : \A m \in 1..(n - 1) : order[m] < order[n]
<1>1. IsFiniteSet(places) BY PlacesFinite
<1>2. /\ order \in [1..Cardinality(places) -> places]
      /\ \A i \in places : \E n \in DOMAIN order : order[n] = i
      /\ \A n \in DOMAIN order : \A m \in 1..(n - 1) :
           [i \in places |-> i][order[m]] < [i \in places |-> i][order[n]]
    BY DEF ByPlace, InOrder
<1>3. order \in Seq(places) /\ DOMAIN order = 1..Len(order) /\ Len(order) \in Nat
    BY <1>1, <1>2, OrderIs
<1>4. ASSUME NEW n \in DOMAIN order, NEW m \in 1..(n - 1) PROVE order[m] < order[n]
    <2>1. m \in DOMAIN order BY <1>3
    <2>2. order[m] \in places /\ order[n] \in places BY <1>3, <2>1
    <2>3. [i \in places |-> i][order[m]] < [i \in places |-> i][order[n]] BY <1>2
    <2> QED BY <2>2, <2>3
<1> QED BY <1>2, <1>3, <1>4

\* What planning a batch comes to: a product for every group, the changes to
\* products that were read, and an insert of every product created, in order.
Planned(t, p, fresh, changes, order, ids, todo) ==
    /\ p \in Seq(Row) /\ fresh \in SUBSET DOMAIN tx[t].batch /\ changes \in Seq(Writes)
    /\ DOMAIN p = DOMAIN tx[t].batch
    /\ \A i \in fresh : p[i] = New(t, tx[t].batch[i]) /\ Hits(t, p, i) = {}
    /\ \A i \in DOMAIN tx[t].batch \ fresh : p[i] \in Hits(t, p, i)
    /\ \A n \in DOMAIN changes : changes[n].row \in Key /\ ~changes[n].new
    /\ order \in Seq(fresh)
    /\ \A i \in fresh : \E n \in DOMAIN order : order[n] = i
    /\ \A n \in DOMAIN order : \A m \in 1..(n - 1) : order[m] < order[n]
    /\ \A i \in fresh : ids[i] \in SUBSET Ident
    /\ todo = changes \o [n \in DOMAIN order |-> Write(p[order[n]].key, ids[order[n]], TRUE)]
    /\ Step(t, [tx[t] EXCEPT !.pc = "flush", !.plan = p, !.todo = todo])

\* Every plan is of that form.
LEMMA PlanBatchIs ==
    ASSUME TypeOK, NEW t \in Tx, PlanBatch(t)
    PROVE  \E p, fresh, changes, order, ids, todo :
               Planned(t, p, fresh, changes, order, ids, todo)
<1> DEFINE b == tx[t].batch
           fresh(p) == {i \in DOMAIN b : Hits(t, p, i) = {}}
           found(p) == {i \in DOMAIN b : p[i] \in tx[t].seen}
           lacking(p) == {i \in found(p) : Missing(p[i], b[i]) # {}}
           brought(p, k) == UNION {Missing(p[i], b[i]) : i \in {j \in DOMAIN b : p[j].key = k}}
           insert(p, i) == Write(p[i].key, p[i].ids \cup brought(p, p[i].key), TRUE)
<1>1. PICK p \in [DOMAIN b -> tx[t].seen \cup {New(t, b[i]) : i \in DOMAIN b}] :
        /\ \A i \in DOMAIN b : p[i] \in IF i \in fresh(p) THEN {New(t, b[i])} ELSE Hits(t, p, i)
        /\ \E touched \in {lacking(p), found(p)} :
           \E changes \in ByRow({Write(k, brought(p, k), FALSE) : k \in {p[i].key : i \in touched}}),
              order \in ByPlace(fresh(p)) :
             Step(t, [tx[t] EXCEPT
                  !.pc = "flush", !.plan = p,
                  !.todo = changes \o [n \in DOMAIN order |-> insert(p, order[n])]])
    BY DEF PlanBatch
<1>2. PICK touched \in {lacking(p), found(p)} :
           \E changes \in ByRow({Write(k, brought(p, k), FALSE) : k \in {p[i].key : i \in touched}}),
              order \in ByPlace(fresh(p)) :
             Step(t, [tx[t] EXCEPT
                  !.pc = "flush", !.plan = p,
                  !.todo = changes \o [n \in DOMAIN order |-> insert(p, order[n])]])
    BY <1>1
<1>3. PICK changes \in ByRow({Write(k, brought(p, k), FALSE) : k \in {p[i].key : i \in touched}}),
           order \in ByPlace(fresh(p)) :
             Step(t, [tx[t] EXCEPT
                  !.pc = "flush", !.plan = p,
                  !.todo = changes \o [n \in DOMAIN order |-> insert(p, order[n])]])
    BY <1>2
<1>4. b \in Seq(Group) /\ tx[t].seen \subseteq Row BY DEF TypeOK, Search
<1>5. PICK new : new = fresh(p) OBVIOUS
<1>6. /\ new \in SUBSET DOMAIN b
      /\ \A i \in new : p[i] = New(t, b[i]) /\ Hits(t, p, i) = {}
      /\ \A i \in DOMAIN b \ new : p[i] \in Hits(t, p, i)
    BY <1>1, <1>5
<1>7. ASSUME NEW i \in DOMAIN b PROVE b[i] \in Group /\ New(t, b[i]) \in Row
    <2>1. b[i] \in Group BY <1>4
    <2>2. \A g \in Group : New(t, g) \in Row BY DEF New, Product, Group, Row
    <2> QED BY <2>1, <2>2
<1>8. \A i \in DOMAIN b : p[i] \in Row BY <1>1, <1>4, <1>7
<1>9. p \in Seq(Row) /\ DOMAIN p = DOMAIN b
    <2>1. PICK n \in Nat : DOMAIN b = 1..n
        <3>1. DOMAIN b = 1..Len(b) /\ Len(b) \in Nat BY <1>4
        <3> QED BY <3>1
    <2>2. PICK S : p \in [DOMAIN b -> S] BY <1>1
    <2>3. p \in [1..n -> Row]
        <3>1. \A i \in 1..n : p[i] \in Row BY <1>8, <2>1
        <3> QED BY ONLY <2>1, <2>2, <3>1
    <2> QED BY ONLY n \in Nat, <2>1, <2>3
<1>10. touched \in SUBSET DOMAIN b BY <1>2
<1>11. \A k : brought(p, k) \in SUBSET Ident
    <2>1. ASSUME NEW i \in DOMAIN b PROVE Missing(p[i], b[i]) \in SUBSET Ident
        BY <1>7, MissingType
    <2> QED BY <2>1
<1>12. /\ changes \in Seq(Writes)
       /\ \A n \in DOMAIN changes : changes[n].row \in Key /\ ~changes[n].new
    <2> DEFINE h == [i \in touched |-> Write(p[i].key, brought(p, p[i].key), FALSE)]
    <2>1. PICK S : S = {h[i] : i \in touched} OBVIOUS
    <2>2. changes \in ByRow(S)
        <3>1. S = {Write(k, brought(p, k), FALSE) : k \in {p[i].key : i \in touched}}
          BY ZenonT(60), <2>1
        <3> QED BY <1>3, <3>1
    <2>3. \A w \in S : w \in Writes /\ w.row \in Key /\ ~w.new
        <3>1. ASSUME NEW i \in touched
              PROVE  h[i] \in Writes /\ h[i].row \in Key /\ ~h[i].new
            <4>1. PICK k \in Key, ids \in SUBSET Ident : k = p[i].key /\ ids = brought(p, k)
                BY <1>8, <1>10, <1>11 DEF Row
            <4>2. h[i] = [row |-> k, ids |-> ids, new |-> FALSE] BY <4>1 DEF Write
            <4>3. PICK w : w = h[i] OBVIOUS
            <4> HIDE DEF h
            <4>4. w \in Writes /\ w.row \in Key /\ ~w.new BY <4>2, <4>3 DEF Writes
            <4> QED BY <4>3, <4>4
        <3> HIDE DEF h
        <3> QED BY <2>1, <3>1
    <2> HIDE DEF h, b
    <2>4. IsFiniteSet(touched) BY <1>4, <1>10, PlacesFinite
    <2>5. IsFiniteSet(S) BY <2>1, <2>4, ImageFinite
    <2> QED BY <2>2, <2>3, <2>5, ChangesAre
<1>13. /\ order \in Seq(new) /\ DOMAIN order = 1..Len(order)
       /\ \A i \in new : \E n \in DOMAIN order : order[n] = i
       /\ \A n \in DOMAIN order : \A m \in 1..(n - 1) : order[m] < order[n]
    <2>1. order \in ByPlace(new) BY <1>3, <1>5
    <2> HIDE DEF b
    <2> QED BY <1>4, <1>6, <2>1, PlacedIs
<1> DEFINE ids == [i \in DOMAIN b |-> p[i].ids \cup brought(p, p[i].key)]
<1>14. \A i \in new : ids[i] \in SUBSET Ident
    <2>1. ASSUME NEW i \in DOMAIN b PROVE Missing(p[i], b[i]) \in SUBSET Ident
        BY <1>7, MissingType
    <2>2. \A i \in new : p[i].ids \in SUBSET Ident BY <1>6, <1>8 DEF Row
    <2> QED BY <1>6, <2>1, <2>2
<1>15. PICK todo : todo = changes \o [n \in DOMAIN order |-> insert(p, order[n])] OBVIOUS
<1>16. Step(t, [tx[t] EXCEPT !.pc = "flush", !.plan = p, !.todo = todo])
    BY <1>3, <1>15
<1>17. todo = changes \o [n \in DOMAIN order |-> Write(p[order[n]].key, ids[order[n]], TRUE)]
    <2>1. \A n \in DOMAIN order : order[n] \in DOMAIN b BY <1>6, <1>13
    <2>2. \A n \in DOMAIN order :
            insert(p, order[n]) = Write(p[order[n]].key, ids[order[n]], TRUE)
        BY <2>1
    <2>3. [n \in DOMAIN order |-> insert(p, order[n])]
            = [n \in DOMAIN order |-> Write(p[order[n]].key, ids[order[n]], TRUE)]
        <3> HIDE DEF insert, ids
        <3> QED BY <2>2
    <2> QED BY <1>15, <2>3
<1> HIDE DEF ids, b
<1>18. Planned(t, p, new, changes, order, ids, todo)
    BY <1>6, <1>9, <1>12, <1>13, <1>14, <1>16, <1>17 DEF b, Planned
<1> QED BY <1>18

\* A batch is planned.
LEMMA PlanBatchInv == ASSUME Inv, NEW t \in Tx, PlanBatch(t) PROVE Inv'
<1>1. /\ tx[t] \in Search /\ SlotOK(t) /\ TypeOK /\ tx[t].pc = "batch" /\ tx[t].own = {}
      /\ tx[t].batch \in Seq(Group) /\ tx[t].seen \subseteq Row
    BY DEF Inv, TypeOK, Search, PlanBatch, SlotOK, PlanOK
<1>2. PICK b \in Seq(Group), seen \in SUBSET Row : b = tx[t].batch /\ seen = tx[t].seen BY <1>1
<1>0. PICK p, fresh, changes, order, ids, todo :
           Planned(t, p, fresh, changes, order, ids, todo)
    BY <1>1, PlanBatchIs
<1>3. /\ p \in Seq(Row) /\ fresh \in SUBSET DOMAIN b /\ changes \in Seq(Writes)
      /\ fresh \subseteq Nat /\ DOMAIN p = DOMAIN b
      /\ \A i \in fresh : p[i] = New(t, b[i]) /\ Hits(t, p, i) = {}
      /\ \A i \in DOMAIN b \ fresh : p[i] \in Hits(t, p, i)
      /\ \A n \in DOMAIN changes : changes[n].row \in Key /\ ~changes[n].new
      /\ order \in Seq(fresh)
      /\ \A i \in fresh : \E n \in DOMAIN order : order[n] = i
      /\ \A n \in DOMAIN order : \A m \in 1..(n - 1) : order[m] < order[n]
      /\ \A i \in fresh : ids[i] \in SUBSET Ident
      /\ todo = changes \o [n \in DOMAIN order |-> Write(p[order[n]].key, ids[order[n]], TRUE)]
      /\ Step(t, [tx[t] EXCEPT !.pc = "flush", !.plan = p, !.todo = todo])
    BY <1>0, <1>2 DEF Planned
<1>4. PICK inserts : inserts = [n \in DOMAIN order |-> Write(p[order[n]].key, ids[order[n]], TRUE)]
    OBVIOUS
<1>5. DOMAIN order = 1..Len(order) /\ Len(order) \in Nat BY <1>3
<1>6. ASSUME NEW n \in DOMAIN order
      PROVE  /\ inserts[n] \in Writes /\ inserts[n].new /\ inserts[n].row = b[order[n]].key
             /\ order[n] \in fresh /\ inserts[n].row \in Key
    <2>1. order[n] \in fresh BY <1>3
    <2>2. PICK i \in fresh : i = order[n] BY <2>1
    <2>2a. i \in DOMAIN b /\ b[i] \in Group BY <1>3
    <2>2b. PICK g \in Group : g = b[i] BY <2>2a
    <2>3. p[i] = New(t, g) BY <1>3, <2>2, <2>2b
    <2>3a. p[i].key = g.key BY <2>3 DEF New, Product
    <2>4. PICK s \in SUBSET Ident : s = ids[i] BY <1>3, <2>2
    <2>5. PICK w : w = inserts[n] OBVIOUS
    <2>6. w = [row |-> g.key, ids |-> s, new |-> TRUE]
        BY <1>4, <2>2, <2>3a, <2>4, <2>5 DEF Write
    <2>7. w \in Writes /\ w.new /\ w.row = g.key /\ w.row \in Key BY <2>6 DEF Writes, Group
    <2> QED BY <2>2, <2>2b, <2>5, <2>7
<1>7. inserts \in Seq(Writes) /\ DOMAIN inserts = DOMAIN order
    <2>1. DOMAIN inserts = DOMAIN order BY <1>4
    <2>2. PICK k \in Nat : DOMAIN order = 1..k BY <1>5
    <2>3. inserts = [n \in 1..k |-> inserts[n]] BY <1>4, <2>2
    <2>4. \A n \in 1..k : inserts[n] \in Writes BY <1>6, <2>2
    <2>5. inserts \in [1..k -> Writes] BY <2>3, <2>4
    <2> QED BY ONLY <2>1, <2>5, k \in Nat
<1>8. /\ todo \in Seq(Writes)
      /\ \A n \in DOMAIN todo :
           \/ n \in DOMAIN changes /\ todo[n] = changes[n]
           \/ n > Len(changes) /\ n - Len(changes) \in DOMAIN inserts /\ todo[n] = inserts[n - Len(changes)]
      /\ \A n \in DOMAIN inserts : Len(changes) + n \in DOMAIN todo /\ todo[Len(changes) + n] = inserts[n]
    <2>1. todo = changes \o inserts BY <1>3, <1>4
    <2>2. changes \in Seq(Writes) BY <1>3
    <2> QED BY <1>7, <2>1, <2>2, Joined
<1>9. \A n \in DOMAIN todo : todo[n].row \in Key BY ZenonT(60), <1>3, <1>6, <1>7, <1>8
<1>10. PICK new \in Search : new = [tx[t] EXCEPT !.pc = "flush", !.plan = p, !.todo = todo]
    BY <1>1, <1>3, <1>8 DEF Search
<1>11. Step(t, new) BY <1>3, <1>10
<1>12. /\ new.pc = "flush" /\ new.batch = b /\ new.seen = seen /\ new.known = tx[t].known
       /\ new.plan = p /\ new.own = {} /\ new.todo = todo
    BY <1>1, <1>2, <1>10 DEF Search
<1>13. TypeOK'
    <2>1. \A n \in DOMAIN new.todo : new.todo[n].row \in IF new.pc = "shops" THEN Shop ELSE Key
        BY <1>9, <1>12
    <2> QED BY <1>1, <1>11, <2>1, StepType
<1>14. tx'[t] = new /\ UNCHANGED <<products, retailers>> BY <1>1, <1>11, StepIs
<1>15. \A i \in fresh : Coming(t, b[i].key)'
    <2>1. ASSUME NEW i \in fresh
          PROVE  \E m \in DOMAIN todo : todo[m].new /\ todo[m].row = b[i].key
        <3>1. PICK n \in DOMAIN order : order[n] = i BY <1>3
        <3>2. inserts[n].new /\ inserts[n].row = b[i].key BY <1>6, <3>1
        <3>3. Len(changes) + n \in DOMAIN todo /\ todo[Len(changes) + n] = inserts[n]
            BY <1>7, <1>8
        <3> QED BY <3>2, <3>3
    <2> QED BY <1>12, <1>14, <2>1 DEF Coming
<1>16. PlanOK(t)'
    <2>1. \A k, m : InTable(k, m)' = InTable(k, m) BY <1>14 DEF InTable
    <2>2. \A r \in seen : InTable(r.key, r.maker)' BY <1>1, <1>2, <2>1 DEF SlotOK, PlanOK
    <2>3. ASSUME NEW i \in DOMAIN p
          PROVE  InTable(p[i].key, p[i].maker)' \/ (p[i].maker = t /\ Coming(t, p[i].key)')
        <3>1. ASSUME NEW j \in DOMAIN b \ fresh
              PROVE  p[j] \in seen \/ \E k \in 1..(j - 1) : p[j] = p[k]
            <4>1. p[j] \in Hits(t, p, j) BY <1>3
            <4>2. p[j] \in tx[t].seen \cup {p[k] : k \in 1..(j - 1)} BY <4>1, LookupIn DEF Hits
            <4> QED BY <1>2, <4>2
        <3> DEFINE Bad == {k \in DOMAIN b : ~(p[k] \in seen \/ \E j \in fresh : p[k] = New(t, b[j]))}
        <3>2. Bad = {}
            <4> SUFFICES ASSUME Bad # {} PROVE FALSE OBVIOUS
            <4>1. PICK n \in Nat : DOMAIN b = 1..n
                <5>1. DOMAIN b = 1..Len(b) /\ Len(b) \in Nat OBVIOUS
                <5> QED BY <5>1
            <4>2. Bad \in SUBSET Nat BY <4>1
            <4>3. PICK k \in Bad : \A m \in Bad : k =< m
                <5> HIDE DEF Bad
                <5> QED BY <4>2, LeastNumber
            <4>4. k \in DOMAIN b \ fresh BY <1>3
            <4>5. PICK j \in 1..(k - 1) : p[k] = p[j] BY <3>1, <4>4
            <4>6. j \in DOMAIN b /\ ~(k =< j) BY <4>1, <4>4, <4>5
            <4>7. j \notin Bad BY <4>3, <4>6
            <4> QED BY <4>5, <4>6, <4>7
        <3>3. \A j \in fresh : New(t, b[j]).key = b[j].key /\ New(t, b[j]).maker = t
            BY DEF New, Product
        <3>4. p[i] \in seen \/ \E j \in fresh : p[i] = New(t, b[j]) BY <1>3, <3>2
        <3> QED BY <1>15, <2>2, <3>3, <3>4
    <2>4. Len(b) =< Len(p)
        <3>1. DOMAIN b = 1..Len(b) /\ DOMAIN p = 1..Len(p) /\ Len(b) \in Nat /\ Len(p) \in Nat
            OBVIOUS
        <3> QED BY <1>3, <3>1
    <2> QED BY <1>12, <1>14, <2>2, <2>3, <2>4 DEF PlanOK
<1>17. BatchOK(t)'
    <2> SUFFICES ASSUME NEW n \in DOMAIN todo, todo[n].new, NEW m \in 1..(n - 1), todo[m].new
                 PROVE  todo[m].row # todo[n].row
        BY <1>12, <1>14 DEF BatchOK
    <2>1. DOMAIN todo = 1..Len(todo) /\ Len(todo) \in Nat /\ Len(changes) \in Nat BY <1>8
    <2>2. n \in Nat /\ m \in Nat /\ m \in DOMAIN todo /\ m < n BY <2>1
    <2>3. PICK a \in DOMAIN inserts, c \in DOMAIN inserts :
            /\ a = n - Len(changes) /\ c = m - Len(changes)
            /\ todo[n] = inserts[a] /\ todo[m] = inserts[c]
        BY ZenonT(60), <1>3, <1>8, <2>2
    <2>4. c \in 1..(a - 1) BY <1>5, <1>7, <2>1, <2>2, <2>3
    <2>5. order[c] < order[a] /\ order[c] \in fresh /\ order[a] \in fresh
        BY <1>3, <1>6, <1>7, <2>3, <2>4
    <2>6. PICK i \in fresh, j \in fresh : i = order[a] /\ j = order[c] /\ j < i BY <2>5
    <2>7. i \in Nat /\ j \in 1..(i - 1)
        <3>1. DOMAIN b = 1..Len(b) /\ Len(b) \in Nat OBVIOUS
        <3>2. i \in 1..Len(b) /\ j \in 1..Len(b) BY <1>3, <3>1
        <3> QED BY <2>6, <3>1, <3>2
    <2>8. Hits(t, p, i) = {} /\ p[j] = New(t, b[j]) BY <1>3
    <2>9. p[j].key # tx[t].batch[i].key BY <2>7, <2>8, FreshDiffer
    <2>10. p[j].key = b[j].key BY <2>8 DEF New, Product
    <2>11. inserts[a].row = b[i].key /\ inserts[c].row = b[j].key BY <1>6, <1>7, <2>6
    <2> QED BY <1>2, <2>3, <2>9, <2>10, <2>11
<1>18. NestedOK(t)' BY <1>12, <1>14 DEF NestedOK
<1>19. ShopsOK(t)' BY <1>1, <1>12, <1>14 DEF SlotOK, ShopsOK
<1> QED BY <1>11, <1>13, <1>16, <1>17, <1>18, <1>19, StepInv DEF SlotOK

\* The offers are recorded: a retailer that was not there is to be inserted.
LEMMA RecordOffersInv == ASSUME Inv, NEW t \in Tx, RecordOffers(t) PROVE Inv'
<1> DEFINE shops == [i \in DOMAIN tx[t].batch |-> tx[t].batch[i].shop]
           absent == {i \in DOMAIN shops : /\ shops[i] \notin tx[t].known
                                           /\ \A j \in 1..(i - 1) : shops[j] # shops[i]}
<1>1. /\ tx[t] \in Search /\ SlotOK(t) /\ TypeOK
      /\ tx[t].pc \in {"flush", "pending"} /\ tx[t].todo = <<>>
      /\ tx[t].batch \in Seq(Group)
    BY DEF Inv, TypeOK, Search, RecordOffers
<1>2. PICK order \in ByPlace(absent) :
        Step(t, [tx[t] EXCEPT !.pc = "shops",
                   !.todo = [n \in DOMAIN order |-> Write(shops[order[n]], {}, TRUE)]])
    BY DEF RecordOffers
<1>3. absent \in SUBSET DOMAIN tx[t].batch OBVIOUS
<1>4. /\ order \in Seq(absent) /\ DOMAIN order = 1..Len(order) /\ Len(order) \in Nat
      /\ \A i \in absent : \E n \in DOMAIN order : order[n] = i
    <2> HIDE DEF absent
    <2>1. /\ order \in Seq(absent) /\ DOMAIN order = 1..Len(order)
          /\ \A i \in absent : \E n \in DOMAIN order : order[n] = i
        BY <1>1, <1>3, PlacedIs
    <2> QED BY <2>1
<1>5. ASSUME NEW i \in DOMAIN tx[t].batch
      PROVE  shops[i] = tx[t].batch[i].shop /\ shops[i] \in Shop
    <2>1. tx[t].batch[i] \in Group BY <1>1
    <2> QED BY <2>1 DEF Group
<1>6. PICK todo : todo = [n \in DOMAIN order |-> Write(shops[order[n]], {}, TRUE)] OBVIOUS
<1>7. ASSUME NEW n \in DOMAIN order
      PROVE  todo[n] \in Writes /\ todo[n].row = shops[order[n]] /\ todo[n].row \in Shop
    <2>1. order[n] \in absent
        <3> HIDE DEF absent
        <3> QED BY <1>4
    <2>2. PICK s \in Shop : s = shops[order[n]] BY <1>3, <1>5, <2>1
    <2>3. PICK w : w = todo[n] OBVIOUS
    <2> HIDE DEF shops
    <2>4. w = [row |-> s, ids |-> {}, new |-> TRUE] BY <1>6, <2>2, <2>3 DEF Write
    <2>5. w \in Writes /\ w.row = s BY <2>4 DEF Writes
    <2> QED BY <2>2, <2>3, <2>5
<1>8. todo \in Seq(Writes) /\ DOMAIN todo = DOMAIN order
    <2>1. DOMAIN todo = DOMAIN order BY <1>6
    <2>2. PICK k \in Nat : DOMAIN order = 1..k BY <1>4
    <2>3. todo = [n \in 1..k |-> todo[n]] BY <1>6, <2>2
    <2>4. \A n \in 1..k : todo[n] \in Writes BY <1>7, <2>2
    <2> HIDE DEF shops
    <2> QED BY <2>1, <2>3, <2>4
<1>9. PICK new \in Search : new = [tx[t] EXCEPT !.pc = "shops", !.todo = todo]
    BY <1>1, <1>8 DEF Search
<1>10. Step(t, new) BY <1>2, <1>6, <1>9
<1>11. /\ new.pc = "shops" /\ new.batch = tx[t].batch /\ new.seen = tx[t].seen
       /\ new.known = tx[t].known /\ new.plan = tx[t].plan /\ new.own = tx[t].own
       /\ new.todo = todo
    BY <1>1, <1>9 DEF Search
<1>12. TypeOK'
    <2>1. \A n \in DOMAIN new.todo : new.todo[n].row \in IF new.pc = "shops" THEN Shop ELSE Key
        BY <1>7, <1>8, <1>11
    <2> QED BY <1>1, <1>10, <2>1, StepType
<1>13. tx'[t] = new /\ UNCHANGED <<products, retailers>> BY <1>1, <1>10, StepIs
<1>14. PlanOK(t)'
    <2>1. \A k, m : Mine(t, k, m)' = Mine(t, k, m) BY <1>11, <1>13 DEF Mine
    <2>2. \A k, m : InTable(k, m)' = InTable(k, m) BY <1>13 DEF InTable
    <2>3. \A k : ~Coming(t, k) BY <1>1 DEF Coming
    <2> QED BY <1>1, <1>11, <1>13, <2>1, <2>2, <2>3 DEF SlotOK, PlanOK
<1>15. BatchOK(t)' /\ NestedOK(t)' BY <1>11, <1>13 DEF BatchOK, NestedOK
<1>16. ShopsOK(t)'
    <2>1. new.known \subseteq retailers' BY <1>1, <1>11, <1>13 DEF SlotOK, ShopsOK
    <2>2. ASSUME NEW i \in DOMAIN tx[t].batch
          PROVE  shops[i] \in retailers \/ \E n \in DOMAIN todo : todo[n].row = shops[i]
        <3>1. CASE shops[i] \in tx[t].known BY <1>1, <3>1 DEF SlotOK, ShopsOK
        <3>2. CASE shops[i] \notin tx[t].known
            <4> DEFINE Same == {j \in DOMAIN tx[t].batch : shops[j] = shops[i]}
            <4>1. DOMAIN tx[t].batch = 1..Len(tx[t].batch) /\ Len(tx[t].batch) \in Nat BY <1>1
            <4>2. Same \in SUBSET Nat /\ Same # {} BY <4>1
            <4>3. PICK j \in Same : \A m \in Same : j =< m
                <5> HIDE DEF Same
                <5> QED BY <4>2, LeastNumber
            <4>4. ASSUME NEW m \in 1..(j - 1) PROVE m \in DOMAIN tx[t].batch /\ m \notin Same
                <5>1. PICK l \in Nat : DOMAIN tx[t].batch = 1..l /\ j \in 1..l BY <4>1, <4>3
                <5>2. m \in 1..l /\ ~(j =< m) BY <5>1
                <5> HIDE DEF Same
                <5> QED BY <4>3, <5>1, <5>2
            <4>5. j \in absent BY <3>2, <4>3, <4>4
            <4>6. PICK n \in DOMAIN order : order[n] = j BY <1>4, <4>5
            <4>7. todo[n].row = shops[i] BY <1>7, <4>3, <4>6
            <4> QED BY <1>8, <4>7
        <3> QED BY <3>1, <3>2
    <2>3. ASSUME NEW i \in DOMAIN new.batch
          PROVE  new.batch[i].shop \in retailers' \cup new.opened
                                        \cup {new.todo[n].row : n \in DOMAIN new.todo}
        <3>1. i \in DOMAIN tx[t].batch /\ new.batch[i].shop = shops[i] BY <1>5, <1>11
        <3> HIDE DEF shops
        <3> QED BY <1>11, <1>13, <2>2, <3>1
    <2> QED BY <1>11, <1>13, <2>1, <2>3 DEF ShopsOK
<1> QED BY <1>10, <1>12, <1>14, <1>15, <1>16, StepInv DEF SlotOK

-----------------------------------------------------------------------------
(* The theorems *)

\* Every step keeps what the searches rely on.
LEMMA InvNext == Inv /\ [Next]_vars => Inv'
<1> SUFFICES ASSUME Inv, [Next]_vars PROVE Inv' OBVIOUS
<1>1. CASE UNCHANGED vars
    <2>1. UNCHANGED <<products, retailers, offers, tx>> BY <1>1 DEF vars
    <2>2. \A t \in Tx : SlotOK(t)'
        <3> TAKE t \in Tx
        <3>1. UNCHANGED tx[t] /\ \A k, m : InTable(k, m) => InTable(k, m)' BY <2>1 DEF InTable
        <3> QED BY <2>1, <3>1, SlotStays DEF Inv
    <2>3. TypeOK' /\ OfferOfItsProduct' BY <2>1 DEF Inv, TypeOK, Rows, OfferOfItsProduct
    <2> QED BY <2>2, <2>3 DEF Inv
<1>2. ASSUME NEW t \in Tx, Begin(t) \/ Proceed(t) \/ Abort(t) PROVE Inv'
    <2>1. CASE Begin(t) BY <2>1, BeginInv
    <2>2. CASE Abort(t) \/ DeadlockVictim(t) \/ ShopConflict(t)
        <3>1. Step(t, NoSearch) BY <2>2 DEF Abort, DeadlockVictim, ShopConflict
        <3> QED BY <3>1, EndInv
    <2>3. CASE PreloadRetailers(t) \/ PlanBatch(t) \/ WriteProduct(t) \/ BatchConflict(t)
        BY <2>3, PreloadInv, PlanBatchInv, WriteProductInv, BatchConflictInv
    <2>4. CASE Reread(t) \/ SingleKnown(t) \/ SingleUnknown(t) \/ Ask(t) \/ Created(t)
        BY <2>4, RereadInv, SingleKnownInv, SingleUnknownInv, AskInv, CreatedInv
    <2>5. CASE SingleConflict(t) \/ AskAgain(t) \/ AllPlanned(t)
        BY <2>5, SingleConflictInv, AskAgainInv, AllPlannedInv
    <2>6. CASE RecordOffers(t) \/ WriteShop(t) \/ Commit(t)
        BY <2>6, RecordOffersInv, WriteShopInv, CommitInv
    <2> QED BY <1>2, <2>1, <2>2, <2>3, <2>4, <2>5, <2>6 DEF Proceed
<1> QED BY <1>1, <1>2 DEF Next

\* What the searches rely on holds throughout.
LEMMA InvAlways == Spec => []Inv
BY InvInit, InvNext, PTL DEF Spec

\* The catalogue's variables keep their types, whatever overlaps.
THEOREM TypeCorrect == Spec => []TypeOK
<1>1. Inv => TypeOK BY DEF Inv
<1> QED BY <1>1, InvAlways, PTL

\* Every committed offer belongs to a committed product and retailer: no search
\* records its offers on a row that its own savepoint undid (_record_offers).
THEOREM OffersHaveRows == Spec => []OfferOfItsProduct
<1>1. Inv => OfferOfItsProduct BY DEF Inv
<1> QED BY <1>1, InvAlways, PTL

\* When a group's own insert conflicts, the row that won is found, so two searches
\* that race to insert one product never fail over it (_create_product).
THEOREM WinnerFound == Spec => []ConflictFindsWinner
<1>1. ASSUME Inv PROVE ConflictFindsWinner
    <2> SUFFICES ASSUME NEW t \in Tx, tx[t].pc = "again" PROVE Winner(t) # {}
        BY DEF ConflictFindsWinner
    <2>1. PICK g : g = Next1(t) OBVIOUS
    <2>2. PICK r \in products \cup tx[t].own : r.key = g.key
        BY <1>1, <2>1 DEF Inv, SlotOK, NestedOK
    <2>3. PICK q \in Visible(t) : q.key = g.key BY <1>1, <2>2, VisibleIs DEF Inv
    <2>4. Winner(t) = Lookup(Visible(t), g) BY <2>1 DEF Winner
    <2>5. {v \in Visible(t) : v.key = g.key} # {} BY <2>3
    <2> QED BY <2>4, <2>5 DEF Lookup
<1> QED BY <1>1, InvAlways, PTL

\* A step of one search leaves the others where they are.
LEMMA OthersStay ==
    ASSUME TypeOK, NEW s \in Tx, Begin(s) \/ Proceed(s) \/ Abort(s), NEW t \in Tx, t # s
    PROVE  tx'[t] = tx[t]
<1>1. ASSUME NEW new, Step(s, new) PROVE tx'[t] = tx[t] BY <1>1, StepIs
<1>2. CASE Begin(s) \/ PreloadRetailers(s) \/ BatchConflict(s) \/ Reread(s) \/ SingleUnknown(s)
           \/ Created(s) \/ SingleConflict(s) \/ AllPlanned(s) \/ WriteShop(s)
           \/ ShopConflict(s) \/ DeadlockVictim(s) \/ Abort(s)
    BY <1>1, <1>2 DEF Begin, PreloadRetailers, BatchConflict, Reread, SingleUnknown, Created,
         SingleConflict, AllPlanned, WriteShop, ShopConflict, DeadlockVictim, Abort
<1>3. CASE WriteProduct(s) BY <1>1, <1>3 DEF WriteProduct
<1>4. CASE SingleKnown(s) \/ Ask(s) \/ AskAgain(s)
    <2>1. ASSUME NEW r, Join(s, r) PROVE tx'[t] = tx[t] BY <1>1, <2>1 DEF Join
    <2> QED BY <1>1, <1>4, <2>1 DEF SingleKnown, Ask, AskAgain
<1>5. CASE PlanBatch(s)
    <2>1. \E new : Step(s, new) BY <1>5 DEF PlanBatch
    <2> QED BY <1>1, <2>1
<1>6. CASE RecordOffers(s) BY <1>1, <1>6 DEF RecordOffers
<1>7. CASE Commit(s) BY <1>7 DEF Commit, TypeOK
<1> QED BY <1>2, <1>3, <1>4, <1>5, <1>6, <1>7 DEF Proceed

\* A batch that cannot be inserted held a product that is in the table by then.
LEMMA ForeignOnly ==
    ASSUME Inv, NEW t \in Tx, BatchConflict(t)
    PROVE  \E p \in products : p.key = Head(tx[t].todo).row
<1>1. /\ tx[t].todo \in Seq(Writes) /\ tx[t].todo # <<>> /\ Head(tx[t].todo).new
      /\ tx[t].pc = "flush" /\ Taken(t) /\ BatchOK(t)
    BY DEF Inv, TypeOK, Search, SlotOK, BatchConflict, Conflict, Flushing
<1>2. 1 \in DOMAIN tx[t].todo /\ tx[t].todo[1] = Head(tx[t].todo) BY <1>1, TailIs
<1>3. \A r \in tx[t].own : r.key # Head(tx[t].todo).row BY <1>1, <1>2 DEF BatchOK
<1> QED BY <1>1, <1>3 DEF Taken

\* A batch is undone only for a product that some other search committed, never
\* because the batch itself holds a product twice: products created for earlier
\* groups are remembered (_upsert_groups, Prefetched.remember).
THEOREM BatchesConflictWithOthers == Spec => ConflictsAreForeign
<1>1. ASSUME Inv, [Next]_vars
      PROVE  \/ UNCHANGED vars
             \/ \A t \in Tx : tx[t].pc = "flush" /\ tx[t].todo # <<>> /\ tx'[t].todo = <<>>
                               /\ tx'[t].pc # "flush" /\ tx'[t].pc # "idle" =>
                  \E p \in products : p.key = Head(tx[t].todo).row
    <2> SUFFICES ASSUME NEW t \in Tx, tx[t].pc = "flush", tx[t].todo # <<>>, tx'[t].todo = <<>>,
                        tx'[t].pc # "flush", tx'[t].pc # "idle"
                 PROVE  \E p \in products : p.key = Head(tx[t].todo).row
        OBVIOUS
    <2>1. PICK s \in Tx : Begin(s) \/ Proceed(s) \/ Abort(s) BY <1>1 DEF Next, vars
    <2>2. s = t BY <1>1, <2>1, OthersStay DEF Inv
    <2>3. ASSUME Step(t, NoSearch) PROVE FALSE
        BY <1>1, <2>3, StepIs DEF Inv, NoSearch
    <2>4. ASSUME WriteProduct(t) PROVE FALSE
        <3>1. PICK todo, own, changed :
                Step(t, [tx[t] EXCEPT !.todo = todo, !.own = own, !.changed = changed])
            BY <2>4 DEF WriteProduct
        <3>2. tx[t] \in Search BY <1>1 DEF Inv, TypeOK
        <3>3. PICK new : new = [tx[t] EXCEPT !.todo = todo, !.own = own, !.changed = changed]
            OBVIOUS
        <3>4. new.pc = "flush" BY <3>2, <3>3 DEF Search
        <3>5. tx'[t] = new BY <1>1, <3>1, <3>3, StepIs DEF Inv
        <3> QED BY <3>4, <3>5
    <2>5. BatchConflict(t)
        BY <2>1, <2>2, <2>3, <2>4 DEF Begin, Proceed, Abort, PreloadRetailers, PlanBatch, Reread,
             SingleKnown, SingleUnknown, Ask, Created, SingleConflict, AskAgain, AllPlanned,
             RecordOffers, WriteShop, ShopConflict, Commit, DeadlockVictim
    <2> QED BY <1>1, <2>5, ForeignOnly
<1> QED BY <1>1, InvAlways, PTL DEF Spec, ConflictsAreForeign
=============================================================================
