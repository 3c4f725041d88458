------------------------------ MODULE MCOffers ------------------------------
(***************************************************************************)
(* An instance of Offers for TLC: a shop at the usual price, one that      *)
(* sells a spare part under the product's name, one far too cheap.         *)
(***************************************************************************)
EXTENDS Offers

CONSTANTS shop, cheap, third, r1, s1

Usual(s) == [src |-> s, price |-> 100, odd |-> FALSE, match |-> "exact"]
Part == [src |-> cheap, price |-> 40, odd |-> TRUE, match |-> "exact"]
Cheap == [src |-> cheap, price |-> 10, odd |-> FALSE, match |-> "exact"]

Answers == {{}, {Usual(shop), Part}, {Usual(shop), Usual(third), Cheap}}
=============================================================================
