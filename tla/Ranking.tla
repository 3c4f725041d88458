------------------------------ MODULE Ranking -------------------------------
(***************************************************************************)
(* OfferService.rank: which offers the comparison recommends.  An offer    *)
(* here has a price, days of delivery, a condition, the confidence of its  *)
(* match and its shop's trust score.                                       *)
(***************************************************************************)
EXTENDS Integers, FiniteSets, FiniteSetsExt

CONSTANT None   \* not known

Trust(o) == IF o.score = None THEN 50 ELSE o.score

\* Of equals the cheapest, which the query lists first.
Best(S, value) ==
    LET top == {o \in S : \A p \in S : value[p] =< value[o]}
    IN CHOOSE o \in top : \A p \in top : o.price =< p.price

Available(offers) ==
    LET new == {o \in offers : o.cond = "new"} IN IF new = {} THEN offers ELSE new

Picks(offers) ==
    LET available == Available(offers)
        prices == {o.price : o \in available}
        low == Min(prices)
        high == Max(prices)
        spread == Max({1, high - low})
        cheaper(o) == IF high = low THEN 1 ELSE high - o.price
        \* Delivery today counts as unknown: five days.
        days(o) == IF o.days \in {None, 0} THEN 5 ELSE Min({o.days, 10})
        rated == {o \in available : o.score # None}
        dated == {o \in available : o.days # None}
        \* Scores out of a hundred, times a hundred, times the spread of prices.
        value == [o \in available |-> 6000 * cheaper(o) + 40 * Trust(o) * spread]
        overall == [o \in available |->
                      4500 * cheaper(o)
                      + (40 * Trust(o) + 15 * (100 - 10 * days(o))
                         + (IF o.confidence >= 900 THEN 500 ELSE 0)) * spread]
        trust == [o \in rated |-> o.score]
        speed == [o \in dated |-> -o.days]
        price == [o \in available |-> -o.price]
        among(S, v) == IF S = {} THEN {} ELSE {Best(S, v)}
    IN IF offers = {} THEN [c \in {} |-> {}]
       ELSE [CHEAPEST |-> among(available, price), SAFEST |-> among(rated, trust),
             FASTEST |-> among(dated, speed), BEST_VALUE |-> among(available, value),
             BEST_OVERALL |-> among(available, overall)]

Picked(offers) == LET picks == Picks(offers) IN UNION {picks[c] : c \in DOMAIN picks}

-----------------------------------------------------------------------------
(* The free preview of a comparison                                        *)

\* Mutant: only the shops of the lowest price are.
GuardedLowest(offers, exact) ==
    {o.shop : o \in {o \in offers : \A p \in exact : o.price =< p.price}}

\* Shops of picked offers and of the lowest price are protected; of the others
\* the cheapest new exact offers of two shops may be shown.
Guarded(offers, exact) ==
    {o.shop : o \in Picked(exact) \cup {o \in offers : \A p \in exact : o.price =< p.price}}

Open(exact, guarded) ==
    {o \in exact : /\ o.shop \notin guarded /\ o.cond = "new"
                   /\ \E p \in exact : p.price < o.price}
PreviewsOf(open) ==
    LET first(s) == CHOOSE o \in open : /\ o.shop = s
                                        /\ \A p \in open : p.shop = s => o.price =< p.price
        heads == {first(o.shop) : o \in open}
    IN {shown \in SUBSET heads :
            /\ Cardinality(shown) = Min({2, Cardinality(heads)})
            /\ \A o \in shown, p \in heads \ shown : o.price =< p.price}

Previews(offers) ==
    LET exact == {o \in offers : o.match = "exact"}
    IN PreviewsOf(Open(exact, Guarded(offers, exact)))
=============================================================================
