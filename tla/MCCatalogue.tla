---------------------------- MODULE MCCatalogue ----------------------------
(***************************************************************************)
(* An instance of Catalogue for TLC: two searches that meet two products   *)
(* in opposite orders, a group that joins a product by its ASIN, listings  *)
(* that disagree on the ASIN of one GTIN, and two groups of one key.       *)
(***************************************************************************)
EXTENDS Catalogue

CONSTANTS t1, t2, s1, gtin, asin, rival, mpn

KindsOf == [i \in Ident |-> CASE i = gtin -> "gtin" [] i = mpn -> "mpn" [] OTHER -> "asin"]

Plain == [key |-> 1, ids |-> {}, shop |-> s1]
Coded == [key |-> 2, ids |-> {gtin, asin, mpn}, shop |-> s1]
Rival == [key |-> 2, ids |-> {gtin, rival}, shop |-> s1]
Amazon == [key |-> 3, ids |-> {asin}, shop |-> s1]

Batches == {<<Plain, Plain>>, <<Plain, Rival>>, <<Coded, Plain, Amazon>>}
=============================================================================
