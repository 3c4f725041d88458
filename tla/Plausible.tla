----------------------------- MODULE Plausible ------------------------------
(***************************************************************************)
(* implausible_price_floor of services/catalog.py: the price below which a *)
(* listing is not taken for the same item as the others.                   *)
(***************************************************************************)
EXTENDS Naturals, FiniteSets, FiniteSetsExt

\* The floor is a fifth of this price: the upper quartile of at least three.
\* Zero: there is no floor.
Reference(row, ids) ==
    LET n == Cardinality(ids)
        k == Min({n - 1, (n * 3) \div 4})
        below(p) == Cardinality({i \in ids : row[i].price < p})
        upto(p) == Cardinality({i \in ids : row[i].price =< p})
    IN IF n < 3 THEN 0
       ELSE CHOOSE p \in {row[i].price : i \in ids} : below(p) =< k /\ k < upto(p)

BelowFloor(price, reference) == 5 * price < reference
=============================================================================
