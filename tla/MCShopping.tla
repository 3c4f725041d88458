----------------------------- MODULE MCShopping -----------------------------
(***************************************************************************)
(* Instances of Shopping for TLC: a phone in two sizes, a higher tier, a   *)
(* renewed one and a case for it, at shops in and outside India.           *)
(***************************************************************************)
EXTENDS Shopping

IPhone(number, tier) == <<"iphone", number, tier>>
Phone == [Blank EXCEPT !.brands = <<None, None, "apple", "apple", "apple">>,
                       !.mentions = <<IPhone("17", None)>>, !.words = {"apple", "iphone", "17"},
                       !.said = {"apple", "iphone", "17"}]
Black == [Phone EXCEPT !.color = "black", !.said = @ \cup {"black"}]

Titles == [
    iphone |-> [Phone EXCEPT !.brands = <<None, None, None, "apple", None>>,
                             !.words = {"iphone", "17"}, !.said = {"iphone", "17"}],
    iphones |-> [Blank EXCEPT !.brands = <<None, None, "apple", None, "apple">>,
                              !.words = {"apple", "phones"}, !.said = {"apple", "phones"}],
    pro |-> [Phone EXCEPT !.mentions = <<IPhone("17", "pro")>>, !.codes = {"iphone17"},
                          !.words = {"iphone", "17", "pro"}, !.said = {"iphone", "17", "pro"}],
    black |-> Black,
    black256 |-> [Black EXCEPT !.sizes = {256}],
    black128 |-> [Black EXCEPT !.sizes = {128}],
    pro256 |-> [Black EXCEPT !.sizes = {256}, !.mentions = <<IPhone("17", "pro")>>, !.codes = {"iphone17"},
                             !.words = @ \cup {"pro"}, !.said = @ \cup {"pro"}],
    renewed |-> [Black EXCEPT !.sizes = {256}, !.words = @ \cup {"renewed"}, !.used = TRUE],
    casing |-> [Black EXCEPT !.words = @ \cup {"case"}, !.part = TRUE]]

Codes == [iphone17 |-> 1, iphone17pro |-> 2]

India == [abroad |-> FALSE, domain |-> "aggregator", curated |-> "india", known |-> None,
          named |-> None]
Shops == [a |-> India, b |-> India, c |-> [India EXCEPT !.curated = None, !.known = "india"],
          d |-> [India EXCEPT !.domain = "india"], tokyo |-> [India EXCEPT !.abroad = TRUE]]

At(shop, title, price, days) ==
    [title |-> title, ids |-> <<>>, cond |-> "new", price |-> price, shipping |-> None,
     shop |-> shop, days |-> days]
Shipped(listing, cost) == [listing EXCEPT !.shipping = cost]

Usual == <<At("a", "black256", 100, 4), Shipped(At("b", "black256", 98, 2), 6), At("tokyo", "black256", 60, 1),
           At("c", "black256", 112, 3), At("d", "black256", 120, None)>>
Mixed == <<At("a", "pro256", 150, 2), Shipped(At("b", "renewed", 70, 3), 0), At("c", "black", 101, 0),
           At("d", "casing", 5, 1)>>
Cheap == <<At("d", "casing", 5, 1), At("b", "black256", 15, 2), At("c", "black128", 90, 3)>>

Vendors == {Usual, Mixed, Cheap}
Lookups == {<<>>, Cheap \o Mixed}
Links == {[title |-> "black256", ids |-> [asin |-> "B17"], offers |-> <<At("a", "black256", 99, 2)>>]}
Scores == [s \in DOMAIN Shops |->
             CASE s = "a" -> {[score |-> 20, flagged |-> TRUE]}
               [] s = "b" -> {[score |-> 80, flagged |-> FALSE]}
               [] OTHER -> {}]
Lines == [iphone17 |-> "apple"]

Questions == {[compare |-> FALSE, items |-> <<>>, product |-> "iphones"],
              [compare |-> TRUE, items |-> <<"iphone", "pro">>, product |-> "iphone"]}
=============================================================================
