------------------------------- MODULE Titles -------------------------------
(***************************************************************************)
(* What services/product_normalizer.py makes of a listing's title, and the *)
(* key a product is stored under.  A title is the record of what the       *)
(* expressions of that file find in it; finding it is left out.            *)
(***************************************************************************)
EXTENDS Naturals, Sequences, FiniteSets, FiniteSetsExt

CONSTANTS
    None,        \* nothing stated
    Rank         \* the alphabetical order of model codes

\* brands: the vendor's hint, the specification, a known brand, the brand of a
\*         product line and the first word, each None if it is missing
\* sizes:  every quantity in gigabytes;  pair: memory and storage written
\*         together;  ram: memory named as such
\* color:  the longest colour named
\* mentions: the product lines named, in order: family, number and tier, the
\*         last two None if missing
\* codes:  model codes and name-and-number phrases, hyphens dropped
\* tiers:  tier words;  words: what is left without variants and stop words
\* part, rental, service, used: it says so;  said: every word
Blank == [brands |-> <<>>, sizes |-> {}, pair |-> None, ram |-> None, color |-> None,
          inch |-> None, mm |-> None, generation |-> None, mentions |-> <<>>, chip |-> None,
          codes |-> {}, tiers |-> {}, words |-> {}, part |-> FALSE, rental |-> FALSE,
          service |-> FALSE, used |-> FALSE, said |-> {}]

FirstStated(values) ==
    LET stated == {i \in DOMAIN values : values[i] # None}
    IN IF stated = {} THEN None ELSE values[Min(stated)]

IsMenu(t) == Cardinality(t.sizes) >= 3

Storage(t) ==
    LET plain == t.sizes \ {t.ram}
    IN IF IsMenu(t) \/ (t.pair = None /\ plain = {}) THEN None
       ELSE IF t.pair # None THEN t.pair[2] ELSE Max(plain)

Memory(t) == IF t.pair = None THEN t.ram ELSE IF IsMenu(t) THEN None ELSE t.pair[1]

\* Lines that are written in two ways.
FamilyAliases == [oneplusnord |-> "nord", oneplusnordce |-> "nordce",
                  motorolaedge |-> "motoedge", motorolag |-> "motog"]

\* find_line, line_token: the first line that carries a number or a tier.  What
\* is sold as "iPhone 17 Air" is the line "iPhone Air".
LineNamed(family, number, tier) ==
    LET alias == IF family \in DOMAIN FamilyAliases THEN FamilyAliases[family] ELSE family
        shown == IF family = "iphone" /\ tier = "air" THEN None ELSE number
        text(part) == IF part = None THEN "" ELSE part
    IN [token |-> alias \o text(shown) \o text(tier), family |-> alias, number |-> shown]

Line(t) ==
    LET named == SelectSeq(t.mentions, LAMBDA m : m[2] # None \/ m[3] # None)
    IN IF named = <<>> THEN None ELSE LineNamed(named[1][1], named[1][2], named[1][3])

\* A name-and-number phrase may read like another line's token.
Models(t, line) == t.codes \cup (IF line = None THEN {} ELSE {line.token})

AttributesOf(t, line) ==
    LET part(p) == IF line = None THEN None ELSE line[p]
    IN [brand |-> FirstStated(t.brands),
        storage |-> Storage(t), ram |-> Memory(t), color |-> t.color,
        size |-> FirstStated(<<t.inch, t.mm>>),
        generation |-> FirstStated(<<t.generation, part("number")>>), chip |-> t.chip,
        line |-> line, family |-> part("family"), number |-> part("number"),
        models |-> Models(t, line), tokens |-> t.words, accessory |-> t.part, rental |-> t.rental,
        service |-> t.service,
        catalogue |-> Cardinality(t.tiers) >= 3 \/ Cardinality(t.sizes) >= 4]

\* extract_attributes
Attributes(t) == AttributesOf(t, Line(t))

\* The first model code decides whom a product is compared with: it is what the
\* code's sorted list begins with.
FirstModel(a) == CHOOSE m \in a.models : \A n \in a.models : Rank[m] =< Rank[n]

\* canonical_key: a hard identifier, else what the title states.
CanonicalKey(a, ids) ==
    LET hard == SelectSeq(<<"gtin", "asin", "mpn">>, LAMBDA k : k \in DOMAIN ids)
    IN IF hard # <<>> THEN <<hard[1], ids[hard[1]]>>
       ELSE <<a.brand, IF a.models = {} THEN a.tokens ELSE {FirstModel(a)},
              a.storage, a.ram, a.color, a.size>>
=============================================================================
