--------------------------- MODULE ShoppingProofs ---------------------------
(***************************************************************************)
(* Proofs about Shopping, for any titles, shops, listings and questions.   *)
(* The invariant is that stored products are of their type (Products): an  *)
(* offer stands under its shop and condition, and only products that are   *)
(* new have identifiers.  What a search or a page shows is then a matter   *)
(* of its step.  Folds over listings and groups keep a set of good values  *)
(* closed under the step of the fold (FoldExists, FoldStays).              *)
(***************************************************************************)
EXTENDS Shopping, SequenceTheorems, FiniteSetTheorems, TLAPS

-----------------------------------------------------------------------------
(* Sets of numbers                                                         *)

LEMMA LeastNumber ==
  ASSUME NEW N \in SUBSET Nat, N # {}
  PROVE  \E n \in N : \A m \in N : n =< m
<1>1. PICK n \in N : \A m \in N : ~(<<m, n>> \in OpToRel(<, Nat))
  BY NatLessThanWellFounded, WFMin
<1>2. \A m \in N : ~(m < n) BY <1>1 DEF OpToRel
<1> QED BY <1>2

LEMMA MinIsLeast ==
  ASSUME NEW N \in SUBSET Nat, N # {}
  PROVE  Min(N) \in N /\ \A m \in N : Min(N) =< m
BY LeastNumber DEF Min

\* Of finitely many things one has the greatest value.
LEMMA Greatest ==
  ASSUME NEW S, IsFiniteSet(S), S # {}, NEW f, \A x \in S : f[x] \in Int
  PROVE  \E x \in S : \A y \in S : f[y] =< f[x]
<1> DEFINE Above(x) == {y \in S : f[y] > f[x]}
           N == {Cardinality(Above(x)) : x \in S}
<1>1. \A x \in S : IsFiniteSet(Above(x)) /\ Cardinality(Above(x)) \in Nat
  BY FS_Subset, FS_CardinalityType
<1>2. PICK n \in N : \A m \in N : n =< m
  <2>1. N \in SUBSET Nat /\ N # {} BY <1>1
  <2> HIDE DEF N
  <2> QED BY <2>1, LeastNumber
<1>3. PICK x \in S : n = Cardinality(Above(x)) BY <1>2
<1>4. ASSUME NEW y \in S, f[y] > f[x] PROVE FALSE
  <2>1. Above(y) \in SUBSET Above(x) BY <1>4
  <2>2. y \in Above(x) /\ y \notin Above(y) BY <1>4
  <2>3. Cardinality(Above(y)) # Cardinality(Above(x)) /\ Cardinality(Above(y)) <= Cardinality(Above(x))
    BY <1>1, <2>1, <2>2, FS_Subset
  <2>4. n =< Cardinality(Above(y)) BY <1>2
  <2> HIDE DEF Above
  <2> QED BY <1>1, <1>3, <2>3, <2>4
<1> QED BY <1>4

LEMMA GreatestNumber ==
  ASSUME NEW N \in SUBSET Int, N # {}, IsFiniteSet(N)
  PROVE  Max(N) \in N /\ \A m \in N : m =< Max(N)
<1>1. \E n \in N : \A m \in N : [k \in N |-> k][m] =< [k \in N |-> k][n]
  <2>1. PICK id : id = [k \in N |-> k] OBVIOUS
  <2>2. \A m \in N : id[m] \in Int BY <2>1
  <2>3. \E n \in N : \A m \in N : id[m] =< id[n] BY <2>2, Greatest
  <2> QED BY <2>1, <2>3
<1>2. \E n \in N : \A m \in N : n >= m BY <1>1
<1> QED BY <1>2 DEF Max

LEMMA ImageFinite ==
  ASSUME NEW S, IsFiniteSet(S), NEW f
  PROVE  IsFiniteSet({f[x] : x \in S})
<1> DEFINE T == {f[x] : x \in S}
           g == [x \in S |-> f[x]]
<1>1. g \in Surjection(S, T) BY DEF Surjection
<1> HIDE DEF T, g
<1>2. IsFiniteSet(T) BY <1>1, FS_Surjection
<1> QED BY <1>2 DEF T

-----------------------------------------------------------------------------
(* Sequences                                                               *)

\* r consists of elements of s at different places of P.
DrawnBy(r, s, P, j) ==
    /\ j \in [DOMAIN r -> P] /\ \A m, n \in DOMAIN r : j[m] = j[n] => m = n
    /\ \A n \in DOMAIN r : r[n] = s[j[n]]
Drawn(r, s, P) ==
    /\ DOMAIN r = 1..Len(r) /\ Len(r) \in Nat /\ r = [n \in 1..Len(r) |-> r[n]]
    /\ \E j : DrawnBy(r, s, P, j)

\* Every place has its turn.
LEMMA PlacesInOrder ==
  ASSUME NEW P \in SUBSET Int, IsFiniteSet(P), NEW weight, \A i \in P : weight[i] \in Int,
         NEW B, \A i \in P : \A j : j \in B[i] <=>
                     j \in P /\ (weight[j] < weight[i] \/ (weight[j] = weight[i] /\ j < i))
  PROVE  /\ Cardinality(P) \in Nat
         /\ \A n \in 1..Cardinality(P) : \E i \in P : Cardinality(B[i]) = n - 1
<1>1. \A i \in P : IsFiniteSet(B[i]) /\ Cardinality(B[i]) \in Nat /\ B[i] \in SUBSET P /\ i \notin B[i]
  <2> SUFFICES ASSUME NEW i \in P
               PROVE  IsFiniteSet(B[i]) /\ Cardinality(B[i]) \in Nat /\ B[i] \in SUBSET P /\ i \notin B[i]
    OBVIOUS
  <2>1. B[i] \in SUBSET P /\ i \notin B[i] OBVIOUS
  <2> QED BY <2>1, FS_Subset, FS_CardinalityType
<1>2. ASSUME NEW i \in P, NEW k \in P, i \in B[k] PROVE Cardinality(B[i]) < Cardinality(B[k])
  <2>1. B[i] \in SUBSET B[k]
    <3> SUFFICES ASSUME NEW j \in B[i] PROVE j \in B[k] OBVIOUS
    <3>1. j \in P /\ (weight[j] < weight[i] \/ (weight[j] = weight[i] /\ j < i)) OBVIOUS
    <3>2. weight[i] < weight[k] \/ (weight[i] = weight[k] /\ i < k) BY <1>2
    <3>3. weight[j] < weight[k] \/ (weight[j] = weight[k] /\ j < k)
      <4>1. weight[i] \in Int /\ weight[j] \in Int /\ weight[k] \in Int
        BY ONLY <3>1, i \in P, k \in P, \A m \in P : weight[m] \in Int
      <4>2. i \in Int /\ j \in Int /\ k \in Int BY <3>1
      <4> QED BY <3>1, <3>2, <4>1, <4>2
    <3> QED BY <3>1, <3>3
  <2>2. Cardinality(B[i]) <= Cardinality(B[k]) /\ Cardinality(B[i]) # Cardinality(B[k])
    BY <1>1, <1>2, <2>1, FS_Subset
  <2>3. Cardinality(B[i]) \in Nat /\ Cardinality(B[k]) \in Nat BY <1>1
  <2> QED BY ONLY <2>2, <2>3
<1>3. \A i, k \in P : i # k => i \in B[k] \/ k \in B[i]
  <2> SUFFICES ASSUME NEW i \in P, NEW k \in P, i # k PROVE i \in B[k] \/ k \in B[i]
    OBVIOUS
  <2>1. weight[i] \in Int /\ weight[k] \in Int /\ i \in Int /\ k \in Int OBVIOUS
  <2>2. \/ weight[i] < weight[k] \/ (weight[i] = weight[k] /\ i < k)
        \/ weight[k] < weight[i] \/ (weight[k] = weight[i] /\ k < i)
    BY <2>1
  <2> QED BY <2>2
<1>4. PICK N \in Nat : N = Cardinality(P) BY FS_CardinalityType
<1> DEFINE rank == [i \in P |-> Cardinality(B[i])]
<1>5. \A i \in P : rank[i] \in 0..(N - 1)
  <2> SUFFICES ASSUME NEW i \in P PROVE rank[i] \in 0..(N - 1) OBVIOUS
  <2>1. Cardinality(B[i]) <= N /\ Cardinality(B[i]) # N BY <1>1, <1>4, FS_Subset
  <2> QED BY <1>1, <2>1
<1>6. \A i, k \in P : rank[i] = rank[k] => i = k
  <2> SUFFICES ASSUME NEW i \in P, NEW k \in P, i # k PROVE rank[i] # rank[k] OBVIOUS
  <2>1. Cardinality(B[i]) < Cardinality(B[k]) \/ Cardinality(B[k]) < Cardinality(B[i]) BY <1>2, <1>3
  <2> QED BY <1>1, <2>1
<1>7. rank \in Injection(P, 0..(N - 1))
  BY <1>5, <1>6 DEF Injection, IsInjective
<1>8. IsFiniteSet(0..(N - 1)) /\ Cardinality(0..(N - 1)) = N
  <2>1. 0 \in Int /\ N - 1 \in Int OBVIOUS
  <2> QED BY <2>1, FS_Interval
<1>9. rank \in Surjection(P, 0..(N - 1))
  <2> HIDE DEF rank
  <2> QED BY <1>4, <1>7, <1>8, FS_Injection
<1>10. \A n \in 1..N : \E i \in P : rank[i] = n - 1
  <2>1. \A t \in 0..(N - 1) : \E i \in P : rank[i] = t
    <3> HIDE DEF rank
    <3> QED BY <1>9 DEF Surjection
  <2>2. \A n \in 1..N : n - 1 \in 0..(N - 1) OBVIOUS
  <2> HIDE DEF rank
  <2> QED BY <2>1, <2>2
<1> QED BY <1>4, <1>10

\* What Taken returns.
LEMMA TakenDraws ==
  ASSUME NEW s, NEW P \in SUBSET Int, IsFiniteSet(P), NEW weight, \A i \in P : weight[i] \in Int
  PROVE  Drawn(Taken(s, P, weight), s, P)
<1> DEFINE before == [i \in P |->
                        {j \in P : weight[j] < weight[i] \/ (weight[j] = weight[i] /\ j < i)}]
           place == [n \in 1..Cardinality(P) |-> CHOOSE i \in P : Cardinality(before[i]) = n - 1]
<1>1. Taken(s, P, weight) = <<>> \o [n \in 1..Cardinality(P) |-> s[place[n]]] BY DEF Taken
<1>2. \A i \in P : \A j : j \in before[i] <=>
          j \in P /\ (weight[j] < weight[i] \/ (weight[j] = weight[i] /\ j < i))
  OBVIOUS
<1> HIDE DEF before
<1>3. /\ Cardinality(P) \in Nat
      /\ \A n \in 1..Cardinality(P) : \E i \in P : Cardinality(before[i]) = n - 1
  BY <1>2, PlacesInOrder
<1>4. PICK N \in Nat : N = Cardinality(P) BY <1>3
<1>5. \A n \in 1..N : place[n] \in P /\ Cardinality(before[place[n]]) = n - 1 BY <1>3, <1>4
<1> HIDE DEF place
<1>6. PICK at : at = [n \in 1..N |-> place[n]] OBVIOUS
<1>7. at \in [1..N -> P] BY <1>5, <1>6
<1>8. ASSUME NEW m \in 1..N, NEW n \in 1..N, at[m] = at[n] PROVE m = n
  <2>1. m - 1 = n - 1 BY <1>5, <1>6, <1>8
  <2> QED BY <2>1
<1>9. PICK r : r = [n \in 1..N |-> s[at[n]]] OBVIOUS
<1>10. r \in Seq({s[at[n]] : n \in 1..N}) /\ Len(r) = N /\ DOMAIN r = 1..N BY <1>9
<1>11. Taken(s, P, weight) = r
  <2>1. r = [n \in 1..Cardinality(P) |-> s[place[n]]] BY <1>4, <1>6, <1>9
  <2> QED BY <1>1, <1>10, <2>1, ConcatEmptySeq
<1>12. DrawnBy(r, s, P, at) BY <1>7, <1>8, <1>9, <1>10 DEF DrawnBy
<1> QED BY <1>9, <1>10, <1>11, <1>12 DEF Drawn

-----------------------------------------------------------------------------
(* Folds                                                                   *)

\* What is true of 0, and of a number after it is of the one before, is true up to n.
LEMMA UpTo ==
  ASSUME NEW n \in Nat, NEW K, 0 \in K, \A k \in 1..n : k - 1 \in K => k \in K
  PROVE  n \in K
<1> DEFINE N == {k \in 0..n : k \notin K}
<1>1. CASE N # {}
  <2>1. PICK k \in N : \A m \in N : k =< m
    <3>1. N \in SUBSET Nat OBVIOUS
    <3> HIDE DEF N
    <3> QED BY <1>1, <3>1, LeastNumber
  <2>2. k \in 1..n /\ k - 1 \in 0..n BY <2>1
  <2>3. k - 1 \notin N
    <3> HIDE DEF N
    <3> QED BY <2>1, <2>2
  <2> QED BY <2>1, <2>2, <2>3
<1>2. CASE N = {} BY <1>2
<1> QED BY <1>1, <1>2

\* The last of some places, and the places before it.
LEMMA LastPlace ==
  ASSUME NEW n \in Nat, NEW T \in SUBSET (1..n), T # {}
  PROVE  /\ Max(T) \in T /\ IsFiniteSet(T) /\ Cardinality(T) \in Nat \ {0}
         /\ T \ {Max(T)} \in SUBSET (1..n) /\ Cardinality(T \ {Max(T)}) = Cardinality(T) - 1
<1>1. IsFiniteSet(1..n)
  <2>1. 1 \in Int /\ n \in Int OBVIOUS
  <2> QED BY <2>1, FS_Interval
<1>2. IsFiniteSet(T) /\ T \in SUBSET Int
  <2>1. IsFiniteSet(T) BY <1>1, FS_Subset
  <2>2. T \in SUBSET Int OBVIOUS
  <2> QED BY <2>1, <2>2
<1>3. Max(T) \in T BY <1>2, GreatestNumber
<1>4. Cardinality(T) \in Nat /\ Cardinality(T) # 0 BY <1>2, FS_CardinalityType, FS_EmptySet
<1>5. Cardinality(T \ {Max(T)}) = Cardinality(T) - 1 BY <1>2, <1>3, FS_RemoveElement
<1> QED BY <1>2, <1>3, <1>4, <1>5

\* One step of a fold: what F says of the places T.
Folded(F, g, s, base, T) == IF T = {} THEN base ELSE g[<<F[T \ {Max(T)}], s[Max(T)]>>]

\* Sequences s of n elements of E, that g folds to values of U; and the fold.
Folds(U, E, n, s, g) == n \in Nat /\ s \in [1..n -> E] /\ g \in [U \X E -> U]
FoldOf(F, U, n, s, g, base) ==
    F \in [SUBSET (1..n) -> U] /\ \A T \in SUBSET (1..n) : F[T] = Folded(F, g, s, base, T)

\* There is such a fold.
LEMMA FoldExists ==
  ASSUME NEW U, NEW base \in U, NEW E, NEW n, NEW s, NEW g, Folds(U, E, n, s, g)
  PROVE  \E F : FoldOf(F, U, n, s, g, base)
<1> n \in Nat /\ s \in [1..n -> E] /\ g \in [U \X E -> U] BY DEF Folds
<1> DEFINE Small(F, k) == \A T \in SUBSET (1..n) : Cardinality(T) =< k => F[T] = Folded(F, g, s, base, T)
           K == {k \in Nat : \E F \in [SUBSET (1..n) -> U] : Small(F, k)}
<1>0. IsFiniteSet(1..n) /\ Cardinality(1..n) = n
  <2>1. 1 \in Int /\ n \in Int OBVIOUS
  <2> QED BY <2>1, FS_Interval
<1>1. \A T \in SUBSET (1..n) : Cardinality(T) =< n /\ Cardinality(T) \in Nat
                               /\ (Cardinality(T) = 0 => T = {})
  <2> SUFFICES ASSUME NEW T \in SUBSET (1..n)
               PROVE  Cardinality(T) =< n /\ Cardinality(T) \in Nat /\ (Cardinality(T) = 0 => T = {})
    OBVIOUS
  <2>1. IsFiniteSet(T) BY <1>0, FS_Subset
  <2>2. Cardinality(T) =< Cardinality(1..n) BY <1>0, FS_Subset
  <2>3. Cardinality(T) \in Nat BY <2>1, FS_CardinalityType
  <2>4. Cardinality(T) = 0 => T = {} BY <2>1, FS_EmptySet
  <2> QED BY <1>0, <2>2, <2>3, <2>4
<1>2. 0 \in K
  <2> DEFINE F == [T \in SUBSET (1..n) |-> base]
  <2>1. F \in [SUBSET (1..n) -> U] OBVIOUS
  <2>2. \A T \in SUBSET (1..n) : Cardinality(T) =< 0 => T = {} BY <1>1
  <2>3. Small(F, 0) BY <2>2 DEF Folded
  <2> HIDE DEF F, Small
  <2> QED BY <2>1, <2>3
<1>3. ASSUME NEW k \in 1..n, k - 1 \in K PROVE k \in K
  <2>1. PICK F \in [SUBSET (1..n) -> U] : Small(F, k - 1)
    <3> HIDE DEF Small
    <3> QED BY <1>3
  <2> DEFINE G == [T \in SUBSET (1..n) |-> IF Cardinality(T) =< k - 1 THEN F[T]
                                          ELSE Folded(F, g, s, base, T)]
  <2>2. \A T \in SUBSET (1..n) : Folded(F, g, s, base, T) \in U
    <3> SUFFICES ASSUME NEW T \in SUBSET (1..n), T # {}
                 PROVE  g[<<F[T \ {Max(T)}], s[Max(T)]>>] \in U
      BY DEF Folded
    <3>1. Max(T) \in 1..n /\ T \ {Max(T)} \in SUBSET (1..n) BY LastPlace
    <3>2. F[T \ {Max(T)}] \in U /\ s[Max(T)] \in E BY <3>1
    <3> QED BY <3>2
  <2>3. G \in [SUBSET (1..n) -> U] BY <2>2
  <2>4. ASSUME NEW T \in SUBSET (1..n), Cardinality(T) =< k PROVE G[T] = Folded(G, g, s, base, T)
    <3>1. G[T] = Folded(F, g, s, base, T) BY <2>1
    <3>2. CASE T = {} BY <3>1, <3>2 DEF Folded
    <3>3. CASE T # {}
      <4>1. T \ {Max(T)} \in SUBSET (1..n) /\ Cardinality(T \ {Max(T)}) = Cardinality(T) - 1
        BY <3>3, LastPlace
      <4>2. Cardinality(T \ {Max(T)}) =< k - 1 BY <1>1, <2>4, <4>1
      <4>3. G[T \ {Max(T)}] = F[T \ {Max(T)}] BY <4>1, <4>2
      <4> HIDE DEF G
      <4> QED BY <3>1, <4>3 DEF Folded
    <3> QED BY <3>2, <3>3
  <2> HIDE DEF G
  <2>5. Small(G, k) BY <2>4
  <2> HIDE DEF Small
  <2> QED BY <2>3, <2>5
<1>4. n \in K
  <2> HIDE DEF K
  <2> QED BY <1>2, <1>3, UpTo
<1>5. PICK F \in [SUBSET (1..n) -> U] : Small(F, n)
  <2> HIDE DEF Small
  <2> QED BY <1>4
<1> QED BY <1>1, <1>5 DEF FoldOf

\* The values of a fold stay among the good ones, if its steps do.
LEMMA FoldStays ==
  ASSUME NEW U, NEW n \in Nat, NEW F, F[{}] \in U,
         \A T \in SUBSET (1..n) : T # {} /\ F[T \ {Max(T)}] \in U => F[T] \in U
  PROVE  \A T \in SUBSET (1..n) : F[T] \in U
<1> DEFINE Bad == {T \in SUBSET (1..n) : F[T] \notin U}
           N == {Cardinality(T) : T \in Bad}
<1>1. CASE Bad # {}
  <2>1. \A T \in Bad : T # {} OBVIOUS
  <2>2. N \in SUBSET Nat /\ N # {}
    <3>1. \A T \in Bad : Cardinality(T) \in Nat BY <2>1, LastPlace
    <3> QED BY <1>1, <3>1
  <2>3. PICK k \in N : \A m \in N : k =< m
    <3> HIDE DEF N
    <3> QED BY <2>2, LeastNumber
  <2>4. PICK T \in Bad : k = Cardinality(T) BY <2>3
  <2>5. T \ {Max(T)} \in SUBSET (1..n) /\ Cardinality(T \ {Max(T)}) = Cardinality(T) - 1
        /\ Cardinality(T) \in Nat
    BY <2>1, LastPlace
  <2>6. T \ {Max(T)} \in Bad
    <3>1. F[T \ {Max(T)}] \notin U BY <2>1
    <3> QED BY <2>5, <3>1
  <2>7. k =< Cardinality(T) - 1 BY <2>3, <2>5, <2>6
  <2> HIDE DEF Bad, N
  <2> QED BY <2>4, <2>5, <2>7
<1>2. CASE Bad = {} BY <1>2
<1> QED BY <1>1, <1>2

-----------------------------------------------------------------------------
(* Verdicts                                                                *)

Verdicts == [type : {"exact", "variant", "similar", "unknown", "none"}, confidence : Int,
             why : SUBSET {"line", "generation", "code"}]

LEMMA MinMaxOfTwo ==
  ASSUME NEW x \in Int, NEW y \in Int
  PROVE  Min({x, y}) \in Int /\ Max({x, y}) \in Int
<1>1. \E z \in {x, y} : \A w \in {x, y} : z =< w OBVIOUS
<1>2. \E z \in {x, y} : \A w \in {x, y} : z >= w OBVIOUS
<1>3. Min({x, y}) \in {x, y} BY <1>1 DEF Min
<1>4. Max({x, y}) \in {x, y} BY <1>2 DEF Max
<1> QED BY <1>3, <1>4

\* Few attributes are compared.
LEMMA VariantFinite == ASSUME NEW S \in SUBSET Variant PROVE Cardinality(S) \in Nat
<1> DEFINE Kind == <<"storage", "ram", "color", "size">>
<1>1. PICK n \in Int : n = 4 OBVIOUS
<1>2. IsFiniteSet(1..n) BY FS_Interval
<1>3. Variant = {Kind[i] : i \in 1..n}
  <2>1. \A k \in Variant : \E i \in 1..n : Kind[i] = k BY <1>1 DEF Variant
  <2>2. \A i \in 1..n : Kind[i] \in Variant BY <1>1 DEF Variant
  <2> HIDE DEF Kind
  <2> QED BY <2>1, <2>2
<1> HIDE DEF Kind
<1>4. IsFiniteSet(Variant) BY <1>2, <1>3, ImageFinite
<1> QED BY <1>4, FS_Subset, FS_CardinalityType

LEMMA LikenessType ==
  ASSUME NEW a, NEW b, IsFiniteSet(a.tokens), IsFiniteSet(b.tokens)
  PROVE  Likeness(a, b) \in Int
<1> DEFINE all == Cardinality(a.tokens \cup b.tokens)
           alike == Cardinality(a.tokens \cap b.tokens)
           words == IF a.tokens = {} \/ b.tokens = {} THEN 0 ELSE (400 * alike + all) \div (2 * all)
           codes == IF a.models \cap b.models # {} THEN 100 ELSE 0
           gain == 600 + words + codes + 40 * Cardinality(Agreements(a, b))
           loss == 80 * Cardinality(HalfStated(a, b))
<1>1. all \in Nat /\ alike \in Nat
  <2>1. IsFiniteSet(a.tokens \cup b.tokens) /\ IsFiniteSet(a.tokens \cap b.tokens)
    BY FS_Union, FS_Intersection
  <2> QED BY <2>1, FS_CardinalityType
<1>2. a.tokens # {} => all # 0
  <2>1. IsFiniteSet(a.tokens \cup b.tokens) BY FS_Union
  <2> QED BY <2>1, FS_EmptySet
<1>3. words \in Int
  <2> HIDE DEF all, alike
  <2>1. CASE a.tokens = {} \/ b.tokens = {} BY <2>1
  <2>2. CASE ~(a.tokens = {} \/ b.tokens = {})
    <3>1. \A x \in Int, y \in Nat : y # 0 => x \div (2 * y) \in Int OBVIOUS
    <3>2. 400 * alike + all \in Int BY <1>1
    <3> QED BY <1>1, <1>2, <2>2, <3>1, <3>2
  <2> QED BY <2>1, <2>2
<1>4. codes \in Int OBVIOUS
<1>5. Cardinality(Agreements(a, b)) \in Nat /\ Cardinality(HalfStated(a, b)) \in Nat
  <2>1. Agreements(a, b) \in SUBSET Variant BY DEF Agreements, Compared
  <2>2. HalfStated(a, b) \in SUBSET Variant BY DEF HalfStated
  <2> QED BY <2>1, <2>2, VariantFinite
<1>6. gain \in Int /\ loss \in Int
  <2> HIDE DEF words, codes
  <2> QED BY <1>3, <1>4, <1>5
<1>7. Likeness(a, b) = Max({500, Min({970, gain - loss})}) BY DEF Likeness
<1> HIDE DEF gain, loss
<1>8. gain - loss \in Int BY <1>6
<1>9. Min({970, gain - loss}) \in Int
  <2>1. 970 \in Int OBVIOUS
  <2> QED BY <1>8, <2>1, MinMaxOfTwo
<1>10. PICK x \in Int : x = Min({970, gain - loss}) BY <1>9
<1>11. 500 \in Int OBVIOUS
<1>12. Max({500, x}) \in Int BY SMTT(30), <1>11, MinMaxOfTwo
<1> QED BY <1>7, <1>10, <1>12

LEMMA ByAttributesType ==
  ASSUME NEW a, NEW b, IsFiniteSet(a.tokens), IsFiniteSet(b.tokens)
  PROVE  ByAttributes(a, b) \in Verdicts
<1>1. Likeness(a, b) \in Int BY LikenessType
<1>2. Min({950, 750 + 100 * Cardinality(Agreements(a, b))}) \in Int
  <2>1. Agreements(a, b) \in SUBSET Variant BY DEF Agreements, Compared
  <2>2. Cardinality(Agreements(a, b)) \in Nat BY <2>1, VariantFinite
  <2>3. 950 \in Int /\ 750 + 100 * Cardinality(Agreements(a, b)) \in Int BY <2>2
  <2> QED BY <2>3, MinMaxOfTwo
<1>3. \A s, u \in Int, w \in SUBSET {"line", "generation", "code"} : Apart(a, b, s, u, w) \in Verdicts
  BY DEF Apart, Verdict, Verdicts
<1>4. Exact(Likeness(a, b)) \in Verdicts BY <1>1 DEF Exact, Verdict, Verdicts
<1>5. Verdict("variant", Min({950, 750 + 100 * Cardinality(Agreements(a, b))}), {}) \in Verdicts
  BY <1>2 DEF Verdict, Verdicts
<1>6. /\ \A c \in {700, 750} : Verdict("similar", c, {}) \in Verdicts
      /\ Verdict("similar", 700, {"line"}) \in Verdicts
      /\ Verdict("similar", 700, {"generation"}) \in Verdicts
  BY DEF Verdict, Verdicts
<1>7. /\ Apart(a, b, 350, 200, {"line", "generation"}) \in Verdicts
      /\ Apart(a, b, 550, 300, {"code"}) \in Verdicts
      /\ Apart(a, b, 500, 200, {}) \in Verdicts
  BY <1>3
<1> QED BY <1>4, <1>5, <1>6, <1>7 DEF ByAttributes

\* A comparison of two titles that are known is a verdict.
LEMMA MatchType ==
  ASSUME NEW r, NEW c, r.title \in DOMAIN Title, c.title \in DOMAIN Title
  PROVE  Match(r, c) \in Verdicts
<1>1. CASE Deciding(r, c) = {}
  <2>1. \A t \in DOMAIN Title : IsFiniteSet(TitleAttributes[t].tokens)
    BY WordsAssumption DEF TitleAttributes, Attributes, AttributesOf
  <2>2. Likenesses[<<r.title, c.title>>] = ByAttributes(TitleAttributes[r.title], TitleAttributes[c.title])
    BY DEF Likenesses
  <2>3. Likenesses[<<r.title, c.title>>] \in Verdicts BY <2>1, <2>2, ByAttributesType
  <2> QED BY <1>1, <2>3 DEF Match
<1>2. CASE Deciding(r, c) # {}
  <2>1. Deciding(r, c) \in SUBSET (1..4) BY DEF Deciding, HardIds
  <2>2. Min(Deciding(r, c)) \in 1..4 BY <1>2, <2>1, MinIsLeast
  <2>3. PICK i \in 1..4 : i = Min(Deciding(r, c)) BY <2>2
  <2>4. IdConfidence[i] \in Int BY DEF IdConfidence
  <2>5. \A agree, a, b : ById(agree, IdConfidence[i], a, b) \in Verdicts
    BY <2>4 DEF ById, Exact, Verdict, Verdicts
  <2> QED BY <1>2, <2>3, <2>5 DEF Match
<1> QED BY <1>1, <1>2

-----------------------------------------------------------------------------
(* Types                                                                   *)

Shop == DOMAIN Merchant
Source == Shop \X Conditions
SoldListing == {l \in Listing : l.shop # None}

\* Functions of finitely many members of D to R.
Maps(D, R) == UNION {[E -> R] : E \in {E \in SUBSET D : IsFiniteSet(E)}}

OfferRow == [title : DOMAIN Title, price : Nat, cond : Conditions, shop : Shop,
             days : {None} \cup Nat, match : {"exact", "variant", "similar", "unknown", "none"},
             confidence : Int, active : BOOLEAN]

\* An offer stands under its shop and its condition.
UnderSource(offers) == \A s \in DOMAIN offers : offers[s].shop = s[1] /\ offers[s].cond = s[2]

Lines == {None} \cup {TitleAttributes[t].line : t \in DOMAIN Title}
Product == {p \in [title : DOMAIN Title, ids : Ids, line : Lines, offers : Maps(Source, OfferRow),
                   history : SUBSET (Source \X Nat)] : UnderSource(p.offers)}

Key == {CanonicalKey(TitleAttributes[x[1]], x[2]) : x \in (DOMAIN Title) \X Ids} \X Conditions

\* Only what is new is known by its identifiers.
Products == {ps \in Maps(Key, Product) : \A k \in DOMAIN ps : k[2] # "new" => DOMAIN ps[k].ids = {}}

TypeOK ==
    /\ products \in Products
    /\ trust \in [Shop -> [score : {None} \cup Nat, flagged : BOOLEAN]]
    /\ plan \in {"free", "pro"}

LEMMA MapIs ==
  ASSUME NEW D, NEW R, NEW f
  PROVE  f \in Maps(D, R) <=> /\ f = [x \in DOMAIN f |-> f[x]] /\ DOMAIN f \in SUBSET D
                              /\ IsFiniteSet(DOMAIN f) /\ \A x \in DOMAIN f : f[x] \in R
<1>1. ASSUME f \in Maps(D, R)
      PROVE  /\ f = [x \in DOMAIN f |-> f[x]] /\ DOMAIN f \in SUBSET D
             /\ IsFiniteSet(DOMAIN f) /\ \A x \in DOMAIN f : f[x] \in R
  <2>1. PICK E \in SUBSET D : IsFiniteSet(E) /\ f \in [E -> R] BY <1>1 DEF Maps
  <2>2. DOMAIN f = E BY <2>1
  <2> QED BY <2>1, <2>2
<1>2. ASSUME f = [x \in DOMAIN f |-> f[x]], DOMAIN f \in SUBSET D, IsFiniteSet(DOMAIN f),
             \A x \in DOMAIN f : f[x] \in R
      PROVE  f \in Maps(D, R)
  <2>1. f \in [DOMAIN f -> R] BY <1>2
  <2> QED BY <1>2, <2>1 DEF Maps
<1> QED BY <1>1, <1>2

LEMMA WithMap ==
  ASSUME NEW D, NEW R, NEW f \in Maps(D, R), NEW x \in D, NEW y \in R
  PROVE  /\ With(f, x, y) \in Maps(D, R) /\ DOMAIN With(f, x, y) = DOMAIN f \cup {x}
         /\ With(f, x, y)[x] = y /\ \A k \in DOMAIN f : k # x => With(f, x, y)[k] = f[k]
<1> DEFINE w == With(f, x, y)
<1>1. DOMAIN w = DOMAIN f \cup {x} /\ w = [k \in DOMAIN f \cup {x} |-> w[k]] BY DEF With
<1>2. w[x] = y /\ \A k \in DOMAIN f : k # x => w[k] = f[k] BY DEF With
<1>3. DOMAIN f \in SUBSET D /\ IsFiniteSet(DOMAIN f) /\ \A k \in DOMAIN f : f[k] \in R BY MapIs
<1>4. IsFiniteSet(DOMAIN f \cup {x}) BY <1>3, FS_AddElement
<1>5. \A k \in DOMAIN w : w[k] \in R BY <1>1, <1>2, <1>3
<1> HIDE DEF w
<1>6. w = [k \in DOMAIN w |-> w[k]] BY <1>1
<1>7. w \in Maps(D, R) BY ZenonT(60), <1>1, <1>3, <1>4, <1>5, <1>6, MapIs
<1> QED BY <1>1, <1>2, <1>7 DEF w

LEMMA ExtendedIds ==
  ASSUME NEW f \in Ids, NEW g \in Ids
  PROVE  Extended(f, g) \in Ids /\ DOMAIN Extended(f, g) = DOMAIN f \cup DOMAIN g
<1> DEFINE Kinds == {"gtin", "asin", "mpn", "sku"}
           e == Extended(f, g)
<1>1. PICK K \in SUBSET Kinds : f \in [K -> IdValue] BY DEF Ids
<1>2. PICK L \in SUBSET Kinds : g \in [L -> IdValue] BY DEF Ids
<1>3. K \cup L \in SUBSET Kinds OBVIOUS
<1>4. e \in [K \cup L -> IdValue] /\ DOMAIN e = K \cup L BY <1>1, <1>2 DEF Extended
<1>5. e \in UNION {[M -> IdValue] : M \in SUBSET Kinds}
  <2> HIDE DEF e, Kinds
  <2> QED BY <1>3, <1>4
<1>6. DOMAIN f = K /\ DOMAIN g = L BY <1>1, <1>2
<1> QED BY <1>4, <1>5, <1>6 DEF Ids

LEMMA NoIds == <<>> \in Ids /\ DOMAIN <<>> = {}
<1>1. <<>> \in [{} -> IdValue] OBVIOUS
<1>2. {} \in SUBSET {"gtin", "asin", "mpn", "sku"} OBVIOUS
<1> QED BY <1>1, <1>2 DEF Ids

LEMMA ListingType ==
  ASSUME NEW l \in Listing
  PROVE  /\ l.title \in DOMAIN Title /\ l.ids \in Ids /\ l.cond \in Conditions
         /\ TruePrice(l) \in Nat /\ l.days \in {None} \cup Nat /\ l.shop \in {None} \cup Shop
         /\ CandidateOf(l).title = l.title /\ CandidateOf(l).ids = l.ids
<1>1. /\ l.title \in DOMAIN Title /\ l.ids \in Ids /\ l.cond \in Conditions /\ l.price \in Nat
      /\ l.shipping \in {None} \cup Nat /\ l.days \in {None} \cup Nat /\ l.shop \in {None} \cup Shop
  BY DEF Listing, Shop
<1>2. l.cond \in Conditions BY <1>1
<1>3. TruePrice(l) \in Nat BY <1>1 DEF TruePrice
<1> QED BY <1>1, <1>2, <1>3 DEF CandidateOf, Candidate

\* An offer is recorded with its product.
LEMMA RecordedType ==
  ASSUME NEW p \in Product, NEW l \in SoldListing, NEW m \in Verdicts
  PROVE  /\ Recorded(p, l, m) \in Product
         /\ Recorded(p, l, m).title = p.title /\ Recorded(p, l, m).ids = p.ids
         /\ DOMAIN Recorded(p, l, m).offers = DOMAIN p.offers \cup {<<l.shop, l.cond>>}
<1> DEFINE source == <<l.shop, l.cond>>
           row == [title |-> l.title, price |-> TruePrice(l), cond |-> l.cond, shop |-> l.shop,
                   days |-> l.days, match |-> m.type, confidence |-> m.confidence, active |-> TRUE]
           offers == With(p.offers, source, row)
           history == IF m.type = "exact" /\ m.confidence >= 700
                      THEN p.history \cup {<<source, TruePrice(l)>>} ELSE p.history
<1>1. /\ p.title \in DOMAIN Title /\ p.ids \in Ids /\ p.line \in Lines
      /\ p.offers \in Maps(Source, OfferRow) /\ p.history \in SUBSET (Source \X Nat)
      /\ UnderSource(p.offers)
      /\ p \in [title : DOMAIN Title, ids : Ids, line : Lines, offers : Maps(Source, OfferRow),
                history : SUBSET (Source \X Nat)]
  BY DEF Product
<1>2. l \in Listing /\ l.shop \in Shop BY ListingType DEF SoldListing
<1>3. source \in Source BY <1>2, ListingType DEF Source
<1>4. row \in OfferRow /\ row.shop = source[1] /\ row.cond = source[2]
  <2>1. m.type \in {"exact", "variant", "similar", "unknown", "none"} /\ m.confidence \in Int
    BY DEF Verdicts
  <2> QED BY <1>2, <2>1, ListingType DEF OfferRow
<1> HIDE DEF source, row
<1>5. /\ offers \in Maps(Source, OfferRow) /\ DOMAIN offers = DOMAIN p.offers \cup {source}
      /\ offers[source] = row /\ \A k \in DOMAIN p.offers : k # source => offers[k] = p.offers[k]
  <2>1. PICK f \in Maps(Source, OfferRow) : f = p.offers BY <1>1
  <2>2. /\ With(f, source, row) \in Maps(Source, OfferRow)
        /\ DOMAIN With(f, source, row) = DOMAIN f \cup {source}
        /\ With(f, source, row)[source] = row
        /\ \A k \in DOMAIN f : k # source => With(f, source, row)[k] = f[k]
    <3>1. source \in Source /\ row \in OfferRow BY <1>3, <1>4
    <3> HIDE DEF offers, history
    <3> QED BY ONLY <3>1, f \in Maps(Source, OfferRow), WithMap
  <2> QED BY <2>1, <2>2
<1>6. UnderSource(offers) BY <1>1, <1>4, <1>5 DEF UnderSource
<1>7. history \in SUBSET (Source \X Nat) BY <1>1, <1>2, <1>3, ListingType
<1>8. Recorded(p, l, m) = [p EXCEPT !.offers = offers, !.history = history]
  BY DEF Recorded, source, row
<1> HIDE DEF offers, history
<1>9. [p EXCEPT !.offers = offers, !.history = history] \in Product
  BY <1>1, <1>5, <1>6, <1>7 DEF Product
<1>10. /\ [p EXCEPT !.offers = offers, !.history = history].title = p.title
       /\ [p EXCEPT !.offers = offers, !.history = history].ids = p.ids
       /\ [p EXCEPT !.offers = offers, !.history = history].offers = offers
  BY <1>1
<1> QED BY <1>5, <1>8, <1>9, <1>10 DEF source

-----------------------------------------------------------------------------
(* Recording                                                               *)

\* What each listing keeps true of a product, all of them do.
LEMMA RecordedAllIn ==
  ASSUME NEW G, NEW p \in G, NEW ls, Len(ls) \in Nat, NEW match,
         \A q \in G, n \in 1..Len(ls) : Recorded(q, ls[n], match[n]) \in G
  PROVE  RecordedAll(p, ls, match) \in G
<1> DEFINE at == Places(ls)
           Eq(F) == F = [T \in SUBSET (DOMAIN at) |->
                           IF T = {} THEN p
                           ELSE LET x == Max(T) IN Recorded(F[T \ {x}], ls[at[x]], match[at[x]])]
<1>1. PICK N \in Nat : N = Len(ls) OBVIOUS
<1>2. DOMAIN at = 1..N /\ \A i \in 1..N : at[i] = i BY <1>1 DEF Places
<1>3. PICK own : own = [i \in 1..N |-> i] OBVIOUS
<1>4. PICK step : step = [x \in G \X (1..N) |-> Recorded(x[1], ls[x[2]], match[x[2]])] OBVIOUS
<1>5. own \in [1..N -> 1..N] /\ step \in [G \X (1..N) -> G] BY <1>1, <1>3, <1>4
<1>6. PICK F : /\ F \in [SUBSET (1..N) -> G]
               /\ \A T \in SUBSET (1..N) : F[T] = Folded(F, step, own, p, T)
  <2>1. PICK E : E = 1..N OBVIOUS
  <2>2. own \in [1..N -> E] /\ step \in [G \X E -> G] BY <1>5, <2>1
  <2>3. p \in G OBVIOUS
  <2>4. Folds(G, E, N, own, step) BY <2>2 DEF Folds
  <2>5. \E F : FoldOf(F, G, N, own, step, p) BY <2>3, <2>4, FoldExists
  <2> QED BY <2>5 DEF FoldOf
<1> HIDE DEF at
<1>7. Eq(F)
  <2>1. ASSUME NEW T \in SUBSET (1..N), T # {}
        PROVE  F[T] = Recorded(F[T \ {Max(T)}], ls[at[Max(T)]], match[at[Max(T)]])
    <3>1. Max(T) \in 1..N /\ T \ {Max(T)} \in SUBSET (1..N) BY <2>1, LastPlace
    <3>2. F[T] = step[<<F[T \ {Max(T)}], own[Max(T)]>>] BY <1>6, <2>1 DEF Folded
    <3>3. F[T \ {Max(T)}] \in G BY <1>6, <3>1
    <3>4. own[Max(T)] = Max(T) /\ at[Max(T)] = Max(T) BY <1>2, <1>3, <3>1
    <3> QED BY <1>4, <3>1, <3>2, <3>3, <3>4
  <2>2. F[{}] = p BY <1>6 DEF Folded
  <2> QED BY <1>2, <1>6, <2>1, <2>2
<1>8. \E H : Eq(H) /\ H[DOMAIN at] = RecordedAll(p, ls, match)
  BY <1>7 DEF RecordedAll, FoldLeft, MapThenFoldSet, at
<1>9. PICK H : Eq(H) /\ H[DOMAIN at] = RecordedAll(p, ls, match) BY <1>8
<1>10. \A T \in SUBSET (1..N) : H[T] \in G
  <2>1. H[{}] \in G BY <1>9
  <2>2. ASSUME NEW T \in SUBSET (1..N), T # {}, H[T \ {Max(T)}] \in G PROVE H[T] \in G
    <3>1. Max(T) \in 1..N BY <2>2, LastPlace
    <3>2. H[T] = Recorded(H[T \ {Max(T)}], ls[at[Max(T)]], match[at[Max(T)]]) BY <1>2, <1>9, <2>2
    <3>3. at[Max(T)] = Max(T) BY <1>2, <3>1
    <3> QED BY <1>1, <2>2, <3>1, <3>2, <3>3
  <2> HIDE DEF Eq
  <2> QED BY <2>1, <2>2, FoldStays
<1>11. H[1..N] \in G BY <1>10
<1> HIDE DEF Eq
<1> QED BY <1>2, <1>9, <1>11

\* A sequence of sold listings.
SoldListings(ls) == Len(ls) \in Nat /\ \A n \in 1..Len(ls) : ls[n] \in SoldListing

LEMMA RecordedAllType ==
  ASSUME NEW p \in Product, NEW ls, SoldListings(ls), NEW match,
         \A n \in 1..Len(ls) : match[n] \in Verdicts
  PROVE  /\ RecordedAll(p, ls, match) \in Product
         /\ RecordedAll(p, ls, match).title = p.title /\ RecordedAll(p, ls, match).ids = p.ids
         /\ \A s \in DOMAIN RecordedAll(p, ls, match).offers :
               \/ s \in DOMAIN p.offers
               \/ \E n \in 1..Len(ls) : s = <<ls[n].shop, ls[n].cond>>
<1> DEFINE G == {q \in Product :
                   /\ q.title = p.title /\ q.ids = p.ids
                   /\ \A s \in DOMAIN q.offers :
                        \/ s \in DOMAIN p.offers
                        \/ \E n \in 1..Len(ls) : s = <<ls[n].shop, ls[n].cond>>}
<1>1. p \in G OBVIOUS
<1>2. ASSUME NEW q \in G, NEW n \in 1..Len(ls) PROVE Recorded(q, ls[n], match[n]) \in G
  <2>1. q \in Product /\ ls[n] \in SoldListing /\ match[n] \in Verdicts BY DEF SoldListings
  <2> QED BY <2>1, RecordedType
<1>3. Len(ls) \in Nat BY DEF SoldListings
<1> HIDE DEF G
<1>4. RecordedAll(p, ls, match) \in G BY <1>1, <1>2, <1>3, RecordedAllIn
<1> QED BY <1>4 DEF G

-----------------------------------------------------------------------------
(* Listings drawn from listings                                            *)

\* What is drawn from good elements is a sequence of them.
LEMMA DrawnSeq ==
  ASSUME NEW S, NEW r, NEW s, NEW P, Drawn(r, s, P), \A i \in P : s[i] \in S
  PROVE  r \in Seq(S)
<1>1. PICK j : DrawnBy(r, s, P, j) BY DEF Drawn
<1>2. DOMAIN r = 1..Len(r) /\ Len(r) \in Nat /\ r = [n \in 1..Len(r) |-> r[n]] BY DEF Drawn
<1>3. PICK N \in Nat : N = Len(r) BY <1>2
<1>4. \A n \in 1..N : r[n] \in S BY <1>1, <1>2, <1>3 DEF DrawnBy
<1>5. r = [n \in 1..N |-> r[n]] BY <1>2, <1>3
<1>6. r \in [1..N -> S] BY <1>4, <1>5
<1> QED BY <1>6

LEMMA SeqPlaces ==
  ASSUME NEW S, NEW s \in Seq(S)
  PROVE  /\ Len(s) \in Nat /\ DOMAIN s = 1..Len(s) /\ \A n \in DOMAIN s : s[n] \in S
         /\ IsFiniteSet(DOMAIN s) /\ DOMAIN s \in SUBSET Nat
         /\ \A P \in SUBSET (DOMAIN s) : IsFiniteSet(P) /\ P \in SUBSET Int
<1>1. Len(s) \in Nat /\ DOMAIN s = 1..Len(s) /\ \A n \in DOMAIN s : s[n] \in S OBVIOUS
<1>2. PICK N \in Nat : N = Len(s) BY <1>1
<1>3. IsFiniteSet(1..N)
  <2>1. 1 \in Int /\ N \in Int OBVIOUS
  <2> QED BY <2>1, FS_Interval
<1>4. \A P \in SUBSET (1..N) : IsFiniteSet(P) /\ P \in SUBSET Int
  <2> SUFFICES ASSUME NEW P \in SUBSET (1..N) PROVE IsFiniteSet(P) /\ P \in SUBSET Int OBVIOUS
  <2>1. IsFiniteSet(P) BY <1>3, FS_Subset
  <2> QED BY <2>1
<1> QED BY <1>1, <1>2, <1>3, <1>4

LEMMA TakenType ==
  ASSUME NEW S, NEW s \in Seq(S), NEW P \in SUBSET (DOMAIN s), NEW weight, \A i \in P : weight[i] \in Int
  PROVE  Drawn(Taken(s, P, weight), s, P) /\ Taken(s, P, weight) \in Seq(S)
<1>1. IsFiniteSet(P) /\ P \in SUBSET Int BY SeqPlaces
<1>2. Drawn(Taken(s, P, weight), s, P) BY <1>1, TakenDraws
<1>3. \A i \in P : s[i] \in S BY SeqPlaces
<1> QED BY <1>2, <1>3, DrawnSeq

LEMMA KeptType ==
  ASSUME NEW S, NEW s \in Seq(S), NEW P \in SUBSET (DOMAIN s)
  PROVE  Drawn(Kept(s, P), s, P) /\ Kept(s, P) \in Seq(S)
<1>1. PICK w : w = [i \in P |-> 0] OBVIOUS
<1>2. \A i \in P : w[i] \in Int BY <1>1
<1>3. Drawn(Taken(s, P, w), s, P) /\ Taken(s, P, w) \in Seq(S) BY <1>2, TakenType
<1> QED BY <1>1, <1>3 DEF Kept

\* What is kept for a reason has it.
LEMMA KeptAre ==
  ASSUME NEW S, NEW s \in Seq(S), NEW P \in SUBSET (DOMAIN s), NEW G, \A i \in P : s[i] \in G
  PROVE  Kept(s, P) \in Seq(G)
<1>1. Drawn(Kept(s, P), s, P) BY KeptType
<1> QED BY <1>1, DrawnSeq

LEMMA PlausiblyPricedType ==
  ASSUME NEW S, NEW s \in Seq(S)
  PROVE  PlausiblyPriced(s) \in Seq(S) /\ \E P \in SUBSET (DOMAIN s) : Drawn(PlausiblyPriced(s), s, P)
<1> DEFINE P == DOMAIN s \ FarBelow(s, Families(s))
<1>1. PlausiblyPriced(s) = Kept(s, P) BY DEF PlausiblyPriced
<1>2. P \in SUBSET (DOMAIN s) OBVIOUS
<1> HIDE DEF P
<1> QED BY <1>1, <1>2, KeptType

LEMMA InFamiliesType ==
  ASSUME NEW S, NEW s \in Seq(S), NEW family
  PROVE  InFamilies(s, family) \in Seq(S)
<1> DEFINE first(i) == IF family[i] = None THEN 0 ELSE Min({j \in DOMAIN s : family[j] = family[i]})
           weight == [i \in DOMAIN s |-> first(i)]
<1>1. ASSUME NEW i \in DOMAIN s PROVE weight[i] \in Int
  <2>1. {j \in DOMAIN s : family[j] = family[i]} \in SUBSET Nat BY SeqPlaces
  <2>2. {j \in DOMAIN s : family[j] = family[i]} # {} OBVIOUS
  <2>3. Min({j \in DOMAIN s : family[j] = family[i]}) \in Nat BY <2>1, <2>2, MinIsLeast
  <2> QED BY <2>3
<1>2. InFamilies(s, family) = Taken(s, DOMAIN s, weight) BY DEF InFamilies
<1>3. PICK P : P = DOMAIN s OBVIOUS
<1> HIDE DEF weight
<1>4. P \in SUBSET (DOMAIN s) /\ \A i \in P : weight[i] \in Int BY <1>1, <1>3
<1>5. Taken(s, P, weight) \in Seq(S) BY <1>4, TakenType
<1> QED BY <1>2, <1>3, <1>5

\* What is left of an answer was sold by a shop.
LEMMA FilteredType ==
  ASSUME NEW listings \in Seq(Listing), NEW asked
  PROVE  Filtered(listings, asked) \in Seq(SoldListing)
<1> DEFINE wanted(l) == Sold(l) /\ IsProduct(TitleAttributes[l.title], asked)
           P == {i \in DOMAIN listings : wanted(listings[i])}
<1>1. Filtered(listings, asked) = ByFamily(PlausiblyPriced(Kept(listings, P))) BY DEF Filtered
<1>2. P \in SUBSET (DOMAIN listings) OBVIOUS
<1>3. \A i \in P : listings[i] \in SoldListing BY SeqPlaces DEF SoldListing, Sold
<1> HIDE DEF P
<1>4. Kept(listings, P) \in Seq(SoldListing) BY <1>2, <1>3, KeptAre
<1>5. PlausiblyPriced(Kept(listings, P)) \in Seq(SoldListing) BY <1>4, PlausiblyPricedType
<1>6. ByFamily(PlausiblyPriced(Kept(listings, P))) \in Seq(SoldListing)
  BY <1>5, InFamiliesType DEF ByFamily
<1> QED BY <1>1, <1>6

-----------------------------------------------------------------------------
(* Groups                                                                  *)

Refs == [title : DOMAIN Title, ids : Ids]
Member == [l : SoldListing, match : Verdicts]

\* The listings of a group have its condition.
Group == {g \in [ref : Refs, cond : Conditions, match : Verdicts, members : Seq(Member)] :
            \A n \in DOMAIN g.members : g.members[n].l.cond = g.cond}

LEMMA CandidateOfType ==
  ASSUME NEW l \in Listing
  PROVE  CandidateOf(l) \in Refs
BY ListingType DEF CandidateOf, Candidate, Refs

LEMMA VerdictsOfModel ==
  /\ Verdict("none", 0, {}) \in Verdicts /\ Exact(1000) \in Verdicts /\ Exact(980) \in Verdicts
  /\ \A c \in Int : Verdict("similar", c, {}) \in Verdicts
BY DEF Verdict, Exact, Verdicts

LEMMA NewGroupType ==
  ASSUME NEW l \in SoldListing
  PROVE  NewGroup(l) \in Group
<1>1. l \in Listing BY DEF SoldListing
<1>2. CandidateOf(l) \in Refs /\ l.cond \in Conditions BY <1>1, CandidateOfType, ListingType
<1>3. PICK m : m = [l |-> l, match |-> Exact(1000)] BY ZenonT(60)
<1>4. m \in Member /\ m.l = l BY <1>3, VerdictsOfModel DEF Member
<1>5. <<m>> \in Seq(Member) /\ DOMAIN <<m>> = {1} /\ <<m>>[1] = m BY <1>4
<1>6. NewGroup(l) = [ref |-> CandidateOf(l), cond |-> l.cond, match |-> Verdict("none", 0, {}),
                     members |-> <<m>>]
  BY <1>3 DEF NewGroup
<1> QED BY <1>2, <1>4, <1>5, <1>6, VerdictsOfModel DEF Group

\* Of groups with confidences one is the first of the most confident.
LEMMA FirstOfBest ==
  ASSUME NEW may \in SUBSET Nat, IsFiniteSet(may), may # {}, NEW c, \A i \in may : c[i] \in Int
  PROVE  \E i \in may : \A j \in may : c[j] < c[i] \/ (c[j] = c[i] /\ i =< j)
<1>1. PICK b \in may : \A j \in may : c[j] =< c[b] BY Greatest
<1> DEFINE top == {j \in may : c[j] = c[b]}
<1>2. PICK i \in top : \A j \in top : i =< j
  <2>1. top \in SUBSET Nat /\ top # {} OBVIOUS
  <2> HIDE DEF top
  <2> QED BY <2>1, LeastNumber
<1>3. ASSUME NEW j \in may PROVE c[j] < c[i] \/ (c[j] = c[i] /\ i =< j)
  <2>1. c[i] = c[b] /\ c[j] =< c[b] /\ c[j] \in Int /\ c[b] \in Int BY <1>1
  <2>2. CASE c[j] = c[b] BY <1>2, <2>1, <2>2
  <2>3. CASE c[j] # c[b] BY <2>1, <2>3
  <2> QED BY <2>2, <2>3
<1> QED BY <1>3

LEMMA PlacedType ==
  ASSUME NEW groups \in Seq(Group), NEW l \in SoldListing, NEW verdict,
         \A i \in DOMAIN groups : verdict[i] \in Verdicts
  PROVE  Placed(groups, l, verdict) \in Seq(Group)
<1> DEFINE may == Joinable(groups, l, verdict)
           best == CHOOSE i \in may : \A j \in may :
                      \/ verdict[j].confidence < verdict[i].confidence
                      \/ verdict[j].confidence = verdict[i].confidence /\ i =< j
<1>1. CASE may = {}
  <2>1. Placed(groups, l, verdict) = Append(groups, NewGroup(l)) BY <1>1 DEF Placed
  <2> QED BY <2>1, NewGroupType
<1>2. CASE may # {}
  <2>1. /\ may \in SUBSET (DOMAIN groups)
        /\ \A i \in may : groups[i].cond = l.cond /\ verdict[i] \in Verdicts
    BY DEF Joinable
  <2>2. may \in SUBSET Nat /\ IsFiniteSet(may) BY <2>1, SeqPlaces
  <2>3. \E i \in may : \A j \in may : \/ verdict[j].confidence < verdict[i].confidence
                                      \/ verdict[j].confidence = verdict[i].confidence /\ i =< j
    <3>1. PICK c : c = [i \in may |-> verdict[i].confidence] OBVIOUS
    <3>2. \A i \in may : c[i] \in Int BY <2>1, <3>1 DEF Verdicts
    <3> HIDE DEF may
    <3>3. \E i \in may : \A j \in may : c[j] < c[i] \/ (c[j] = c[i] /\ i =< j)
      BY <1>2, <2>2, <3>2, FirstOfBest
    <3> QED BY <3>1, <3>3
  <2>4. best \in may BY <2>3
  <2>5. PICK b : b = best OBVIOUS
  <2>6. PICK m : m = [l |-> l, match |-> verdict[b]] OBVIOUS
  <2>7. PICK ref : ref = (IF groups[b].ref.ids = <<>> /\ l.ids # <<>> THEN CandidateOf(l) ELSE groups[b].ref)
    OBVIOUS
  <2>8. PICK g : g = [groups[b] EXCEPT !.members = Append(@, m), !.ref = ref] OBVIOUS
  <2>9. b \in DOMAIN groups /\ groups[b] \in Group /\ groups[b].cond = l.cond /\ verdict[b] \in Verdicts
    BY <2>1, <2>4, <2>5, SeqPlaces
  <2>10. Placed(groups, l, verdict) = [groups EXCEPT ![b] = g]
    <3>1. Placed(groups, l, verdict) =
            [groups EXCEPT ![best].members = Append(@, [l |-> l, match |-> verdict[best]]),
                           ![best].ref = IF @.ids = <<>> /\ l.ids # <<>> THEN CandidateOf(l) ELSE @]
      BY <1>2 DEF Placed
    <3> HIDE DEF may, best
    <3>2. Placed(groups, l, verdict) =
            [groups EXCEPT ![b].members = Append(@, m),
                           ![b].ref = IF @.ids = <<>> /\ l.ids # <<>> THEN CandidateOf(l) ELSE @]
      BY <2>5, <2>6, <3>1
    <3>3. groups[b] \in [ref : Refs, cond : Conditions, match : Verdicts, members : Seq(Member)]
      BY <2>9 DEF Group
    <3> QED BY ONLY <2>7, <2>8, <2>9, <3>2, <3>3, groups \in Seq(Group)
  <2> HIDE DEF may, best
  <2>11. ref \in Refs
    <3>1. l \in Listing BY DEF SoldListing
    <3>2. CandidateOf(l) \in Refs /\ groups[b].ref \in Refs BY <2>9, <3>1, CandidateOfType DEF Group
    <3> QED BY <2>7, <3>2
  <2>12. g \in Group
    <3>1. m \in Member /\ m.l = l BY <2>6, <2>9 DEF Member
    <3>2. PICK ms : ms = groups[b].members OBVIOUS
    <3>3. ms \in Seq(Member) /\ \A n \in DOMAIN ms : ms[n].l.cond = groups[b].cond
      BY <2>9, <3>2 DEF Group
    <3>4. Append(ms, m) \in Seq(Member) BY <3>1, <3>3
    <3>5. \A n \in DOMAIN Append(ms, m) : Append(ms, m)[n].l.cond = groups[b].cond
      <4> SUFFICES ASSUME NEW n \in DOMAIN Append(ms, m)
                   PROVE  Append(ms, m)[n].l.cond = groups[b].cond
        OBVIOUS
      <4>1. Append(ms, m)[n] = m \/ (n \in DOMAIN ms /\ Append(ms, m)[n] = ms[n]) BY <3>3
      <4> QED BY <2>9, <3>1, <3>3, <4>1
    <3>6. groups[b] \in [ref : Refs, cond : Conditions, match : Verdicts, members : Seq(Member)]
      BY <2>9 DEF Group
    <3>7. /\ g \in [ref : Refs, cond : Conditions, match : Verdicts, members : Seq(Member)]
          /\ g.members = Append(ms, m) /\ g.cond = groups[b].cond
      BY <2>8, <2>11, <3>2, <3>4, <3>6
    <3> QED BY <3>5, <3>7 DEF Group
  <2> QED BY <2>9, <2>10, <2>12
<1> QED BY <1>1, <1>2

LEMMA TitledType ==
  ASSUME NEW l \in SoldListing
  PROVE  Titled(l) \in SoldListing
<1>1. PICK cond \in Conditions : Titled(l) = [l EXCEPT !.cond = cond]
  <2>1. PICK cond : cond = (IF Title[l.title].used THEN "used" ELSE l.cond) OBVIOUS
  <2>2. cond \in Conditions BY <2>1 DEF SoldListing, Listing, Conditions
  <2>3. Titled(l) = [l EXCEPT !.cond = cond] BY <2>1 DEF Titled
  <2> QED BY <2>2, <2>3
<1> QED BY <1>1 DEF SoldListing, Listing

LEMMA PlaceType ==
  ASSUME NEW groups \in Seq(Group), NEW l \in SoldListing
  PROVE  Place(groups, l) \in Seq(Group)
<1>1. PICK verdict : verdict = [i \in DOMAIN groups |-> Match(groups[i].ref, CandidateOf(l))] OBVIOUS
<1>2. ASSUME NEW i \in DOMAIN groups PROVE verdict[i] \in Verdicts
  <2>1. groups[i] \in Group BY SeqPlaces
  <2>2. groups[i].ref.title \in DOMAIN Title BY <2>1 DEF Group, Refs
  <2>3. CandidateOf(l).title \in DOMAIN Title BY ListingType DEF SoldListing
  <2> QED BY <1>1, <2>2, <2>3, MatchType
<1>3. Titled(l) \in SoldListing BY TitledType
<1>4. Place(groups, l) = Placed(groups, Titled(l), verdict) BY <1>1 DEF Place
<1> QED BY <1>1, <1>2, <1>3, <1>4, PlacedType

LEMMA GroupsType ==
  ASSUME NEW ls \in Seq(SoldListing)
  PROVE  Groups(ls) \in Seq(Group)
<1> DEFINE G == Seq(Group)
           Eq(F) == F = [T \in SUBSET (DOMAIN ls) |->
                           IF T = {} THEN <<>>
                           ELSE LET x == Max(T) IN Place(F[T \ {x}], ls[x])]
<1>1. PICK N \in Nat : N = Len(ls) OBVIOUS
<1>2. DOMAIN ls = 1..N /\ ls \in [1..N -> SoldListing] BY <1>1
<1>3. <<>> \in G OBVIOUS
<1>4. \A q \in G, l \in SoldListing : Place(q, l) \in G BY PlaceType
<1> HIDE DEF G
<1>5. PICK step : step = [x \in G \X SoldListing |-> Place(x[1], x[2])] OBVIOUS
<1>6. Folds(G, SoldListing, N, ls, step) BY <1>1, <1>2, <1>4, <1>5 DEF Folds
<1>7. PICK F : FoldOf(F, G, N, ls, step, <<>>) BY <1>3, <1>6, FoldExists
<1>8. Eq(F)
  <2>1. ASSUME NEW T \in SUBSET (1..N), T # {}
        PROVE  F[T] = Place(F[T \ {Max(T)}], ls[Max(T)])
    <3>1. Max(T) \in 1..N /\ T \ {Max(T)} \in SUBSET (1..N) BY <2>1, LastPlace
    <3>2. F[T] = step[<<F[T \ {Max(T)}], ls[Max(T)]>>] BY <1>7, <2>1 DEF FoldOf, Folded
    <3>3. F[T \ {Max(T)}] \in G BY <1>7, <3>1 DEF FoldOf
    <3>4. ls[Max(T)] \in SoldListing BY <1>2, <3>1
    <3> QED BY <1>5, <3>2, <3>3, <3>4
  <2>2. F[{}] = <<>> BY <1>7 DEF FoldOf, Folded
  <2>3. F \in [SUBSET (1..N) -> G] BY <1>7 DEF FoldOf
  <2> QED BY <1>2, <2>1, <2>2, <2>3
<1>9. \E H : Eq(H) /\ H[DOMAIN ls] = Groups(ls) BY <1>8 DEF Groups, FoldLeft, MapThenFoldSet
<1>10. PICK H : Eq(H) /\ H[DOMAIN ls] = Groups(ls) BY <1>9
<1>11. \A T \in SUBSET (1..N) : H[T] \in G
  <2>1. H[{}] \in G BY <1>3, <1>10
  <2>2. ASSUME NEW T \in SUBSET (1..N), T # {}, H[T \ {Max(T)}] \in G PROVE H[T] \in G
    <3>1. Max(T) \in 1..N BY <2>2, LastPlace
    <3>2. H[T] = Place(H[T \ {Max(T)}], ls[Max(T)]) BY <1>2, <1>10, <2>2
    <3>3. ls[Max(T)] \in SoldListing BY <1>2, <3>1
    <3> QED BY <1>4, <2>2, <3>2, <3>3
  <2> HIDE DEF Eq
  <2> QED BY <2>1, <2>2, FoldStays
<1>12. H[1..N] \in G BY <1>11
<1> HIDE DEF Eq
<1> QED BY <1>2, <1>10, <1>12 DEF G

LEMMA GroupIdsType ==
  ASSUME NEW g \in Group
  PROVE  GroupIds(g) \in Ids
<1> DEFINE ms == g.members
           Eq(F) == F = [T \in SUBSET (DOMAIN ms) |->
                           IF T = {} THEN g.ref.ids
                           ELSE LET x == Max(T) IN Extended(F[T \ {x}], ms[x].l.ids)]
<1>0. ms \in Seq(Member) /\ g.ref.ids \in Ids BY DEF Group, Refs
<1>1. PICK N \in Nat : N = Len(ms) BY <1>0
<1>2. DOMAIN ms = 1..N /\ ms \in [1..N -> Member] BY <1>0, <1>1
<1>3. PICK base : base = g.ref.ids OBVIOUS
<1>4. \A q \in Ids, m \in Member : Extended(q, m.l.ids) \in Ids
  <2> SUFFICES ASSUME NEW q \in Ids, NEW m \in Member PROVE Extended(q, m.l.ids) \in Ids OBVIOUS
  <2>1. m.l.ids \in Ids BY ListingType DEF Member, SoldListing
  <2> QED BY <2>1, ExtendedIds
<1>5. PICK step : step = [x \in Ids \X Member |-> Extended(x[1], x[2].l.ids)] OBVIOUS
<1>6. Folds(Ids, Member, N, ms, step) BY <1>1, <1>2, <1>4, <1>5 DEF Folds
<1> HIDE DEF ms
<1>7. PICK F : FoldOf(F, Ids, N, ms, step, base) BY <1>0, <1>3, <1>6, FoldExists
<1>8. Eq(F)
  <2>1. ASSUME NEW T \in SUBSET (1..N), T # {}
        PROVE  F[T] = Extended(F[T \ {Max(T)}], ms[Max(T)].l.ids)
    <3>1. Max(T) \in 1..N /\ T \ {Max(T)} \in SUBSET (1..N) BY <2>1, LastPlace
    <3>2. F[T] = step[<<F[T \ {Max(T)}], ms[Max(T)]>>] BY <1>7, <2>1 DEF FoldOf, Folded
    <3>3. F[T \ {Max(T)}] \in Ids BY <1>7, <3>1 DEF FoldOf
    <3>4. ms[Max(T)] \in Member BY <1>2, <3>1
    <3> QED BY <1>5, <3>2, <3>3, <3>4
  <2>2. F[{}] = g.ref.ids BY <1>3, <1>7 DEF FoldOf, Folded
  <2>3. F \in [SUBSET (1..N) -> Ids] BY <1>7 DEF FoldOf
  <2> QED BY <1>2, <2>1, <2>2, <2>3
<1>9. \E H : Eq(H) /\ H[DOMAIN ms] = GroupIds(g) BY <1>8 DEF GroupIds, FoldLeft, MapThenFoldSet, ms
<1>10. PICK H : Eq(H) /\ H[DOMAIN ms] = GroupIds(g) BY <1>9
<1>11. \A T \in SUBSET (1..N) : H[T] \in Ids
  <2>1. H[{}] \in Ids BY <1>0, <1>10
  <2>2. ASSUME NEW T \in SUBSET (1..N), T # {}, H[T \ {Max(T)}] \in Ids PROVE H[T] \in Ids
    <3>1. Max(T) \in 1..N BY <2>2, LastPlace
    <3>2. H[T] = Extended(H[T \ {Max(T)}], ms[Max(T)].l.ids) BY <1>2, <1>10, <2>2
    <3>3. ms[Max(T)] \in Member BY <1>2, <3>1
    <3> QED BY <1>4, <2>2, <3>2, <3>3
  <2> HIDE DEF Eq
  <2> QED BY <2>1, <2>2, FoldStays
<1>12. H[1..N] \in Ids BY <1>11
<1> HIDE DEF Eq
<1> QED BY <1>2, <1>10, <1>12

\* What has a reference, and may be given another verdict.
Comparable(R) ==
    \A g \in R : g.ref \in Refs /\ g.match \in Verdicts /\ \A v \in Verdicts : [g EXCEPT !.match = v] \in R

LEMMA GroupsComparable == Comparable(Group)
<1> SUFFICES ASSUME NEW g \in Group
             PROVE  g.ref \in Refs /\ g.match \in Verdicts /\ \A v \in Verdicts : [g EXCEPT !.match = v] \in Group
  BY DEF Comparable
<1>1. g \in [ref : Refs, cond : Conditions, match : Verdicts, members : Seq(Member)] BY DEF Group
<1>2. ASSUME NEW v \in Verdicts PROVE [g EXCEPT !.match = v] \in Group
  <2>1. PICK h : h = [g EXCEPT !.match = v] OBVIOUS
  <2>2. /\ h \in [ref : Refs, cond : Conditions, match : Verdicts, members : Seq(Member)]
        /\ h.members = g.members /\ h.cond = g.cond
    BY <1>1, <2>1
  <2>3. \A n \in DOMAIN g.members : g.members[n].l.cond = g.cond BY DEF Group
  <2>4. h \in Group BY <2>2, <2>3 DEF Group
  <2> QED BY <2>1, <2>4
<1> QED BY <1>1, <1>2

LEMMA RankedType ==
  ASSUME NEW R, Comparable(R), NEW s \in Seq(R)
  PROVE  Ranked(s) \in Seq(R) /\ Drawn(Ranked(s), s, DOMAIN s)
<1> DEFINE weight(i) == (IF s[i].match.type = "exact" THEN 1000 ELSE 0) + s[i].match.confidence
           w == [i \in DOMAIN s |-> -weight(i)]
<1>1. Ranked(s) = Taken(s, DOMAIN s, w) BY DEF Ranked
<1>2. ASSUME NEW i \in DOMAIN s PROVE w[i] \in Int
  <2>1. s[i] \in R BY SeqPlaces
  <2>2. s[i].match.confidence \in Int BY <2>1 DEF Comparable, Verdicts
  <2> QED BY <2>2
<1>3. PICK P : P = DOMAIN s OBVIOUS
<1> HIDE DEF w
<1>4. P \in SUBSET (DOMAIN s) /\ \A i \in P : w[i] \in Int BY <1>2, <1>3
<1>5. Drawn(Taken(s, P, w), s, P) /\ Taken(s, P, w) \in Seq(R) BY <1>4, TakenType
<1> QED BY <1>1, <1>3, <1>5

LEMMA AgainstType ==
  ASSUME NEW R, Comparable(R), NEW s \in Seq(R), NEW r \in Refs
  PROVE  /\ Against(s, r) \in Seq(R) /\ DOMAIN Against(s, r) = DOMAIN s
         /\ \A i \in DOMAIN s : \E v \in Verdicts : Against(s, r)[i] = [s[i] EXCEPT !.match = v]
<1>1. PICK N \in Nat : N = Len(s) /\ DOMAIN s = 1..N BY SeqPlaces
<1>2. PICK t : t = [i \in 1..N |-> [s[i] EXCEPT !.match = Match(r, s[i].ref)]] OBVIOUS
<1>3. ASSUME NEW i \in 1..N
      PROVE  Match(r, s[i].ref) \in Verdicts /\ t[i] = [s[i] EXCEPT !.match = Match(r, s[i].ref)] /\ t[i] \in R
  <2>1. s[i] \in R BY <1>1, SeqPlaces
  <2>2. s[i].ref.title \in DOMAIN Title /\ r.title \in DOMAIN Title BY <2>1 DEF Comparable, Refs
  <2>3. Match(r, s[i].ref) \in Verdicts BY <2>2, MatchType
  <2> QED BY <1>2, <2>1, <2>3 DEF Comparable
<1>4. Against(s, r) = t BY <1>1, <1>2 DEF Against
<1>5. t \in Seq(R) /\ DOMAIN t = 1..N BY SMTT(30), <1>2, <1>3
<1> QED BY <1>1, <1>3, <1>4, <1>5

LEMMA LookAlikeType ==
  ASSUME NEW s \in Seq(Group)
  PROVE  LookAlike(s) \in Seq(Group)
<1>1. PICK N \in Nat : N = Len(s) /\ DOMAIN s = 1..N BY SeqPlaces
<1>2. PICK t : t = [i \in 1..N |->
                      IF s[i].match.type = "exact"
                      THEN [s[i] EXCEPT !.match = Verdict("similar", Min({s[i].match.confidence, 700}), {})]
                      ELSE s[i]]
  OBVIOUS
<1>3. ASSUME NEW i \in 1..N PROVE t[i] \in Group
  <2>1. s[i] \in Group /\ s[i].match.confidence \in Int BY <1>1, SeqPlaces DEF Group, Verdicts
  <2>2. 700 \in Int OBVIOUS
  <2>3. Min({s[i].match.confidence, 700}) \in Int BY <2>1, <2>2, MinMaxOfTwo
  <2>4. Verdict("similar", Min({s[i].match.confidence, 700}), {}) \in Verdicts BY <2>3, VerdictsOfModel
  <2>5. [s[i] EXCEPT !.match = Verdict("similar", Min({s[i].match.confidence, 700}), {})] \in Group
    BY <2>1, <2>4, GroupsComparable DEF Comparable
  <2> QED BY <1>2, <2>1, <2>5
<1>4. LookAlike(s) = t BY <1>1, <1>2 DEF LookAlike
<1>5. t = [i \in 1..N |-> t[i]] BY <1>2
<1>6. t \in [1..N -> Group] BY <1>3, <1>5
<1>7. t \in Seq(Group) BY ONLY <1>6, N \in Nat
<1> QED BY <1>4, <1>7

\* No two of these have one key.
KeysDiffer(s) == \A m, n \in DOMAIN s : s[m].key = s[n].key => m = n

LEMMA DrawnKeysDiffer ==
  ASSUME NEW r, NEW s, NEW P \in SUBSET (DOMAIN s), Drawn(r, s, P), KeysDiffer(s)
  PROVE  KeysDiffer(r)
<1>1. PICK j : DrawnBy(r, s, P, j) BY DEF Drawn
<1> QED BY <1>1 DEF DrawnBy, KeysDiffer

\* Stored products, as they are compared with a query.
StoredAs(K) == [ref : Refs, key : K, match : Verdicts]

LEMMA StoredComparable == ASSUME NEW K PROVE Comparable(StoredAs(K))
BY DEF Comparable, StoredAs

LEMMA NoIdsRef == ASSUME NEW t \in DOMAIN Title PROVE Candidate(t, <<>>) \in Refs
BY NoIds DEF Candidate, Refs

LEMMA NamedModelType ==
  ASSUME NEW R, Comparable(R), NEW s \in Seq(R), NEW query \in DOMAIN Title
  PROVE  NamedModel(s, query) \in Seq(R)
<1>1. CASE TitleAttributes[query].models = {} BY <1>1 DEF NamedModel
<1>2. CASE TitleAttributes[query].models # {}
  <2>1. PICK P \in SUBSET (DOMAIN s) : P = {i \in DOMAIN s : Answers(query, s[i].ref)} OBVIOUS
  <2>2. NamedModel(s, query) = Ranked(Against(Kept(s, P), Candidate(query, <<>>)))
    BY <1>2, <2>1 DEF NamedModel
  <2>3. Kept(s, P) \in Seq(R) BY KeptType
  <2>4. Against(Kept(s, P), Candidate(query, <<>>)) \in Seq(R) BY <2>3, NoIdsRef, AgainstType
  <2> QED BY <2>2, <2>4, RankedType
<1> QED BY <1>1, <1>2

LEMMA NamedModelKeysDiffer ==
  ASSUME NEW K, NEW s \in Seq(StoredAs(K)), KeysDiffer(s), NEW query \in DOMAIN Title
  PROVE  KeysDiffer(NamedModel(s, query))
<1>1. CASE TitleAttributes[query].models = {} BY <1>1 DEF NamedModel
<1>2. CASE TitleAttributes[query].models # {}
  <2>1. PICK P \in SUBSET (DOMAIN s) : P = {i \in DOMAIN s : Answers(query, s[i].ref)} OBVIOUS
  <2>2. NamedModel(s, query) = Ranked(Against(Kept(s, P), Candidate(query, <<>>)))
    BY <1>2, <2>1 DEF NamedModel
  <2>3. PICK R : R = StoredAs(K) OBVIOUS
  <2>4. Comparable(R) BY <2>3, StoredComparable
  <2>5. PICK k : k = Kept(s, P) OBVIOUS
  <2>6. k \in Seq(R) /\ KeysDiffer(k) BY <2>3, <2>5, KeptType, DrawnKeysDiffer
  <2>7. PICK r \in Refs : r = Candidate(query, <<>>) BY NoIdsRef
  <2>8. PICK a : a = Against(k, r) OBVIOUS
  <2>9. a \in Seq(R) /\ DOMAIN a = DOMAIN k /\ \A i \in DOMAIN k : \E v \in Verdicts : a[i] = [k[i] EXCEPT !.match = v]
    BY <2>4, <2>6, <2>8, AgainstType
  <2>10. \A i \in DOMAIN k : a[i].key = k[i].key
    <3>1. \A i \in DOMAIN k : k[i] \in [ref : Refs, key : K, match : Verdicts]
      BY <2>3, <2>6, SeqPlaces DEF StoredAs
    <3> QED BY <2>9, <3>1
  <2>11. KeysDiffer(a) BY <2>6, <2>9, <2>10 DEF KeysDiffer
  <2>12. PICK P2 \in SUBSET (DOMAIN a) : P2 = DOMAIN a OBVIOUS
  <2>13. Drawn(Ranked(a), a, P2) BY <2>4, <2>9, <2>12, RankedType
  <2>14. KeysDiffer(Ranked(a)) BY <2>11, <2>13, DrawnKeysDiffer
  <2> QED BY <2>2, <2>5, <2>7, <2>8, <2>14
<1> QED BY <1>1, <1>2

-----------------------------------------------------------------------------
(* Storing                                                                 *)

LEMMA ProductsAre ==
  ASSUME NEW ps
  PROVE  ps \in Products <=>
           /\ ps = [k \in DOMAIN ps |-> ps[k]] /\ DOMAIN ps \in SUBSET Key /\ IsFiniteSet(DOMAIN ps)
           /\ \A k \in DOMAIN ps : ps[k] \in Product /\ (k[2] # "new" => DOMAIN ps[k].ids = {})
<1>1. ps \in Maps(Key, Product) <=>
           /\ ps = [k \in DOMAIN ps |-> ps[k]] /\ DOMAIN ps \in SUBSET Key /\ IsFiniteSet(DOMAIN ps)
           /\ \A k \in DOMAIN ps : ps[k] \in Product
  BY MapIs
<1> QED BY <1>1 DEF Products

\* A product may be replaced by one with the same identifiers.
LEMMA ProductReplaced ==
  ASSUME NEW ps \in Products, NEW k \in DOMAIN ps, NEW p \in Product, p.ids = ps[k].ids
  PROVE  /\ [ps EXCEPT ![k] = p] \in Products /\ DOMAIN [ps EXCEPT ![k] = p] = DOMAIN ps
         /\ [ps EXCEPT ![k] = p][k] = p
         /\ \A m \in DOMAIN ps : m # k => [ps EXCEPT ![k] = p][m] = ps[m]
<1>1. /\ ps = [m \in DOMAIN ps |-> ps[m]] /\ DOMAIN ps \in SUBSET Key /\ IsFiniteSet(DOMAIN ps)
      /\ \A m \in DOMAIN ps : ps[m] \in Product /\ (m[2] # "new" => DOMAIN ps[m].ids = {})
  BY ProductsAre
<1>2. PICK q : q = [ps EXCEPT ![k] = p] OBVIOUS
<1>3. /\ DOMAIN q = DOMAIN ps /\ q[k] = p /\ \A m \in DOMAIN ps : m # k => q[m] = ps[m]
      /\ q = [m \in DOMAIN q |-> q[m]]
  BY <1>1, <1>2
<1>4. \A m \in DOMAIN q : q[m] \in Product /\ (m[2] # "new" => DOMAIN q[m].ids = {})
  <2> SUFFICES ASSUME NEW m \in DOMAIN q PROVE q[m] \in Product /\ (m[2] # "new" => DOMAIN q[m].ids = {})
    OBVIOUS
  <2>1. CASE m = k BY <1>1, <1>3, <2>1
  <2>2. CASE m # k BY <1>1, <1>3, <2>2
  <2> QED BY <2>1, <2>2
<1>5. q \in Products BY <1>1, <1>3, <1>4, ProductsAre
<1> QED BY <1>2, <1>3, <1>5

IdKinds == {"gtin", "asin", "mpn", "sku"}
Triples == IdKinds \X IdValue \X Key

\* What is known of identifiers names stored products that are new.
KnownIn(known, ps) == \A t \in known : t[3] \in DOMAIN ps /\ t[3][2] = "new"

LEMMA IdsAre ==
  ASSUME NEW ids \in Ids
  PROVE  DOMAIN ids \in SUBSET IdKinds /\ \A i \in DOMAIN ids : ids[i] \in IdValue
BY DEF Ids, IdKinds

LEMMA IdentifiedType ==
  ASSUME NEW ps \in Products
  PROVE  Identified(ps) \in SUBSET Triples /\ KnownIn(Identified(ps), ps)
<1> SUFFICES ASSUME NEW t \in Identified(ps)
             PROVE  t \in Triples /\ t[3] \in DOMAIN ps /\ t[3][2] = "new"
  BY DEF KnownIn
<1>1. PICK k \in DOMAIN ps : \E i \in DOMAIN ps[k].ids : t = <<i, ps[k].ids[i], k>> BY DEF Identified
<1>4. PICK i \in DOMAIN ps[k].ids : t = <<i, ps[k].ids[i], k>> BY <1>1
<1>2. k \in Key /\ ps[k] \in Product /\ k[2] = "new" BY <1>4, ProductsAre
<1>3. i \in IdKinds /\ ps[k].ids[i] \in IdValue
  <2>1. ps[k].ids \in Ids BY <1>2 DEF Product
  <2> QED BY <1>4, <2>1, IdsAre
<1> QED BY <1>2, <1>3, <1>4 DEF Triples

LEMMA KeyForType ==
  ASSUME NEW ps \in Products, NEW known \in SUBSET Triples, KnownIn(known, ps),
         NEW t \in DOMAIN Title, NEW ids \in Ids, NEW cond \in Conditions
  PROVE  /\ KeyFor(ps, known, TitleAttributes[t], ids, cond) \in Key
         /\ KeyFor(ps, known, TitleAttributes[t], ids, cond)[2] = cond
<1> DEFINE own == <<CanonicalKey(TitleAttributes[t], ids), cond>>
           alike(i) == {x \in known : x[1] = i /\ i \in DOMAIN ids /\ x[2] = ids[i]}
           hard == {n \in 1..3 : alike(HardIds[n]) # {}}
           key == KeyFor(ps, known, TitleAttributes[t], ids, cond)
<1>1. own \in Key /\ own[2] = cond
  <2>1. <<t, ids>> \in (DOMAIN Title) \X Ids OBVIOUS
  <2>2. PICK x \in (DOMAIN Title) \X Ids : x[1] = t /\ x[2] = ids BY <2>1
  <2>3. CanonicalKey(TitleAttributes[x[1]], x[2]) = CanonicalKey(TitleAttributes[t], ids) BY <2>2
  <2> QED BY <2>3 DEF Key
<1>2. CASE own \in DOMAIN ps \/ cond # "new" \/ hard = {}
  <2>1. key = own BY <1>2 DEF KeyFor
  <2> QED BY <1>1, <2>1
<1>3. CASE ~(own \in DOMAIN ps \/ cond # "new" \/ hard = {})
  <2>1. key = (CHOOSE x \in alike(HardIds[Min(hard)]) : TRUE)[3] BY <1>3 DEF KeyFor
  <2>2. hard \in SUBSET Nat /\ hard # {} BY <1>3
  <2>3. Min(hard) \in hard BY ONLY <2>2, MinIsLeast
  <2>4. alike(HardIds[Min(hard)]) # {} BY <2>3
  <2>5. PICK x \in known : key = x[3] BY <2>1, <2>4
  <2>6. x[3] \in DOMAIN ps /\ x[3][2] = "new" BY <2>5 DEF KnownIn
  <2>7. x[3] \in Key BY <2>6, ProductsAre
  <2> QED BY <1>3, <2>5, <2>6, <2>7
<1> QED BY <1>2, <1>3

LEMMA NoOffers == <<>> \in Maps(Source, OfferRow) /\ DOMAIN <<>> = {}
<1>1. <<>> \in [{} -> OfferRow] OBVIOUS
<1>2. {} \in SUBSET Source /\ IsFiniteSet({}) BY FS_EmptySet
<1> QED BY <1>1, <1>2 DEF Maps

\* The stored products with one more, or with more said of one.
UpsertedAs(u, ps, key, title, ids) == u = Upserted(ps, key, title, TitleAttributes[title], ids, key[2])
LEMMA UpsertedType ==
  ASSUME NEW ps \in Products, NEW key \in Key, NEW title \in DOMAIN Title, NEW ids \in Ids,
         NEW u, UpsertedAs(u, ps, key, title, ids)
  PROVE  /\ u \in Products /\ DOMAIN u = DOMAIN ps \cup {key}
         /\ \A k \in DOMAIN ps : u[k].offers = ps[k].offers
         /\ key \notin DOMAIN ps => DOMAIN u[key].offers = {}
<1> DEFINE attrs == TitleAttributes[title]
           kept == IF key[2] = "new" THEN ids ELSE <<>>
<1>1. kept \in Ids /\ (key[2] # "new" => DOMAIN kept = {}) BY NoIds
<1>2. attrs.line \in Lines BY DEF Lines
<1>3. CASE key \in DOMAIN ps
  <2>1. PICK p : p = ps[key] OBVIOUS
  <2>2. p \in Product /\ (key[2] # "new" => DOMAIN p.ids = {}) BY <1>3, <2>1, ProductsAre
  <2>3. PICK q : q = [p EXCEPT !.ids = Extended(@, kept), !.line = IF attrs.line = None THEN @ ELSE attrs.line]
    OBVIOUS
  <2>4. u = [ps EXCEPT ![key] = q]
    <3>1. u = [ps EXCEPT ![key].ids = Extended(@, kept),
                         ![key].line = IF attrs.line = None THEN @ ELSE attrs.line]
      BY <1>3 DEF Upserted, UpsertedAs
    <3> HIDE DEF kept, attrs
    <3>2. p \in [title : DOMAIN Title, ids : Ids, line : Lines, offers : Maps(Source, OfferRow),
                  history : SUBSET (Source \X Nat)]
      BY <2>2 DEF Product
    <3>3. ps = [m \in DOMAIN ps |-> ps[m]] BY ProductsAre
    <3>4. q = [ps[key] EXCEPT !.ids = Extended(@, kept), !.line = IF attrs.line = None THEN @ ELSE attrs.line]
      BY <2>1, <2>3
    <3> QED BY ONLY <1>3, <2>1, <3>1, <3>2, <3>3, <3>4
  <2> HIDE DEF kept, attrs
  <2>5. /\ p.title \in DOMAIN Title /\ p.ids \in Ids /\ p.line \in Lines
        /\ p.offers \in Maps(Source, OfferRow) /\ p.history \in SUBSET (Source \X Nat)
        /\ UnderSource(p.offers)
        /\ p \in [title : DOMAIN Title, ids : Ids, line : Lines, offers : Maps(Source, OfferRow),
                  history : SUBSET (Source \X Nat)]
    BY <2>2 DEF Product
  <2>6. Extended(p.ids, kept) \in Ids /\ DOMAIN Extended(p.ids, kept) = DOMAIN p.ids \cup DOMAIN kept
    BY <1>1, <2>5, ExtendedIds
  <2>7. q \in Product /\ q.offers = p.offers /\ q.ids = Extended(p.ids, kept)
    BY <1>2, <2>3, <2>5, <2>6 DEF Product
  <2>8. key[2] # "new" => DOMAIN q.ids = {} BY <1>1, <2>2, <2>6, <2>7
  <2>9. /\ ps = [m \in DOMAIN ps |-> ps[m]] /\ DOMAIN ps \in SUBSET Key /\ IsFiniteSet(DOMAIN ps)
        /\ \A m \in DOMAIN ps : ps[m] \in Product /\ (m[2] # "new" => DOMAIN ps[m].ids = {})
    BY ProductsAre
  <2>10. /\ DOMAIN u = DOMAIN ps /\ u[key] = q /\ \A m \in DOMAIN ps : m # key => u[m] = ps[m]
         /\ u = [m \in DOMAIN u |-> u[m]]
    BY <1>3, <2>4, <2>9
  <2>11. \A m \in DOMAIN u : u[m] \in Product /\ (m[2] # "new" => DOMAIN u[m].ids = {})
    <3> SUFFICES ASSUME NEW m \in DOMAIN u PROVE u[m] \in Product /\ (m[2] # "new" => DOMAIN u[m].ids = {})
      OBVIOUS
    <3>1. CASE m = key BY <2>7, <2>8, <2>10, <3>1
    <3>2. CASE m # key BY <2>9, <2>10, <3>2
    <3> QED BY <3>1, <3>2
  <2>12. u \in Products BY <2>9, <2>10, <2>11, ProductsAre
  <2> QED BY <1>3, <2>1, <2>7, <2>10, <2>12
<1>4. CASE key \notin DOMAIN ps
  <2>1. PICK q : q = [title |-> title, ids |-> kept, line |-> attrs.line, offers |-> <<>>, history |-> {}]
    OBVIOUS
  <2>2. u = With(ps, key, q) BY <1>4, <2>1 DEF Upserted, UpsertedAs
  <2> HIDE DEF kept, attrs
  <2>3. q \in Product /\ q.offers = <<>> /\ q.ids = kept
    BY <1>1, <1>2, <2>1, NoOffers DEF Product, UnderSource
  <2>4. ps \in Maps(Key, Product) BY DEF Products
  <2>5. /\ With(ps, key, q) \in Maps(Key, Product) /\ DOMAIN With(ps, key, q) = DOMAIN ps \cup {key}
        /\ With(ps, key, q)[key] = q /\ \A k \in DOMAIN ps : k # key => With(ps, key, q)[k] = ps[k]
    <3>1. q \in Product /\ key \in Key BY <2>3
    <3> QED BY ONLY <2>4, <3>1, WithMap
  <2>6. u \in Products
    <3> SUFFICES ASSUME NEW k \in DOMAIN u, k[2] # "new" PROVE DOMAIN u[k].ids = {}
      BY <2>2, <2>5 DEF Products
    <3>1. CASE k = key BY <1>1, <2>2, <2>3, <2>5, <3>1
    <3>2. CASE k # key BY <2>2, <2>5, <3>2 DEF Products
    <3> QED BY <3>1, <3>2
  <2>7. \A k \in DOMAIN ps : u[k] = ps[k] BY <1>4, <2>2, <2>5
  <2>8. DOMAIN u[key].offers = {} BY <2>2, <2>3, <2>5, NoOffers
  <2> QED BY <2>2, <2>5, <2>6, <2>7, <2>8
<1> QED BY <1>3, <1>4

\* No offer has joined a product of the other condition since these were stored.
Unmixed(before, ps) ==
    \A k \in DOMAIN ps : \A s \in DOMAIN ps[k].offers :
        s[2] = k[2] \/ (k \in DOMAIN before /\ s \in DOMAIN before[k].offers)

MatchTypes == {"exact", "variant", "similar", "unknown", "none"}
Seen == [key : Key, match : MatchTypes]

\* While groups are stored: what is seen is stored, and seen once.
Stages == {st \in [ps : Products, known : SUBSET Triples, seen : Seq(Seen)] :
             /\ KnownIn(st.known, st.ps) /\ KeysDiffer(st.seen)
             /\ \A n \in DOMAIN st.seen : st.seen[n].key \in DOMAIN st.ps}
StagesFrom(before, reference) ==
    {st \in Stages : DOMAIN before \subseteq DOMAIN st.ps /\ (reference = None => Unmixed(before, st.ps))}

LEMMA ListedType ==
  ASSUME NEW seen \in Seq(Seen), KeysDiffer(seen), NEW key \in Key,
         NEW match \in MatchTypes
  PROVE  /\ Listed(seen, key, match) \in Seq(Seen) /\ KeysDiffer(Listed(seen, key, match))
         /\ \A n \in DOMAIN Listed(seen, key, match) :
              \/ Listed(seen, key, match)[n].key = key
              \/ n \in DOMAIN seen /\ Listed(seen, key, match)[n] = seen[n]
<1>1. CASE \E n \in DOMAIN seen : seen[n].key = key BY <1>1 DEF Listed
<1>2. CASE ~ \E n \in DOMAIN seen : seen[n].key = key
  <2>1. PICK e : e = [key |-> key, match |-> match] OBVIOUS
  <2>2. e \in Seen /\ e.key = key BY <2>1 DEF Seen
  <2>3. Listed(seen, key, match) = Append(seen, e) BY <1>2, <2>1 DEF Listed
  <2>4. Append(seen, e) \in Seq(Seen) BY <2>2
  <2>5. \A n \in DOMAIN Append(seen, e) : \/ n = Len(seen) + 1 /\ Append(seen, e)[n] = e
                                          \/ n \in DOMAIN seen /\ Append(seen, e)[n] = seen[n]
    OBVIOUS
  <2>6. KeysDiffer(Append(seen, e))
    <3> SUFFICES ASSUME NEW m \in DOMAIN Append(seen, e), NEW n \in DOMAIN Append(seen, e),
                        Append(seen, e)[m].key = Append(seen, e)[n].key
                 PROVE  m = n
      BY DEF KeysDiffer
    <3> QED BY <1>2, <2>2, <2>5 DEF KeysDiffer
  <2> QED BY <2>2, <2>3, <2>4, <2>5, <2>6
<1> QED BY <1>1, <1>2

LEMMA StoreGroupStages ==
  ASSUME NEW before, NEW reference, reference # None => reference \in DOMAIN before,
         NEW st \in StagesFrom(before, reference), NEW g \in Group
  PROVE  StoreGroup(st, g, reference) \in StagesFrom(before, reference)
<1> DEFINE attached == reference # None /\ g.match.type = "exact" /\ g.match.confidence >= 800
           ids == GroupIds(g)
           attrs == TitleAttributes[g.ref.title]
           key == IF attached THEN reference ELSE KeyFor(st.ps, st.known, attrs, ids, g.cond)
           ps == IF attached THEN st.ps ELSE Upserted(st.ps, key, g.ref.title, attrs, ids, g.cond)
           ls == [n \in DOMAIN g.members |-> g.members[n].l]
           match == [n \in DOMAIN g.members |-> IF attached THEN g.match ELSE g.members[n].match]
           p == RecordedAll(ps[key], ls, match)
           known == IF key \in DOMAIN st.ps \/ g.cond # "new" THEN st.known
                    ELSE st.known \cup {<<i, ids[i], key>> : i \in DOMAIN ids}
           seen == Listed(st.seen, key, g.match.type)
<1>1. /\ st.ps \in Products /\ st.known \in SUBSET Triples /\ st.seen \in Seq(Seen)
      /\ KnownIn(st.known, st.ps) /\ KeysDiffer(st.seen)
      /\ \A n \in DOMAIN st.seen : st.seen[n].key \in DOMAIN st.ps
      /\ DOMAIN before \subseteq DOMAIN st.ps /\ (reference # None => reference \in DOMAIN st.ps)
      /\ reference = None => Unmixed(before, st.ps)
  BY DEF StagesFrom, Stages
<1>2. /\ g.ref.title \in DOMAIN Title /\ g.cond \in Conditions /\ g.match \in Verdicts
      /\ g.members \in Seq(Member) /\ \A n \in DOMAIN g.members : g.members[n].l.cond = g.cond
  BY DEF Group, Refs
<1>3. ids \in Ids BY GroupIdsType
<1>4. StoreGroup(st, g, reference) = [ps |-> [ps EXCEPT ![key] = p], known |-> known, seen |-> seen]
  BY DEF StoreGroup
<1>5. /\ key \in Key /\ (~attached => key[2] = g.cond) /\ ps \in Products
      /\ DOMAIN ps = DOMAIN st.ps \cup {key} /\ \A k \in DOMAIN st.ps : ps[k].offers = st.ps[k].offers
      /\ key \notin DOMAIN st.ps => DOMAIN ps[key].offers = {}
  <2>1. CASE attached
    <3>1. key = reference /\ ps = st.ps BY <2>1
    <3>2. reference \in DOMAIN st.ps BY <1>1, <2>1
    <3>3. reference \in Key BY <1>1, <3>2, ProductsAre
    <3> QED BY <1>1, <2>1, <3>1, <3>2, <3>3
  <2>2. CASE ~attached
    <3>1. PICK t \in DOMAIN Title : t = g.ref.title BY <1>2
    <3>2. key = KeyFor(st.ps, st.known, TitleAttributes[t], ids, g.cond) BY <2>2, <3>1
    <3> HIDE DEF ids
    <3>3. key \in Key /\ key[2] = g.cond
      <4>1. PICK k : k = KeyFor(st.ps, st.known, TitleAttributes[t], ids, g.cond) OBVIOUS
      <4>2. k \in Key /\ k[2] = g.cond BY <1>1, <1>2, <1>3, <4>1, KeyForType
      <4> QED BY <3>2, <4>1, <4>2
    <3> HIDE DEF key
    <3>4. PICK k \in Key : k = key BY <3>3
    <3>5. ps = Upserted(st.ps, k, t, TitleAttributes[t], ids, k[2]) BY <2>2, <3>1, <3>3, <3>4
    <3>6. PICK u : u = ps OBVIOUS
    <3> HIDE DEF ps, attached
    <3>7. /\ u \in Products /\ DOMAIN u = DOMAIN st.ps \cup {k}
          /\ \A x \in DOMAIN st.ps : u[x].offers = st.ps[x].offers
          /\ k \notin DOMAIN st.ps => DOMAIN u[k].offers = {}
      <4>1. PICK q \in Products, js \in Ids : q = st.ps /\ js = ids BY <1>1, <1>3
      <4>2. UpsertedAs(u, q, k, t, js) BY <3>5, <3>6, <4>1 DEF UpsertedAs
      <4> HIDE DEF ids
      <4>3. /\ u \in Products /\ DOMAIN u = DOMAIN q \cup {k}
            /\ \A x \in DOMAIN q : u[x].offers = q[x].offers
            /\ k \notin DOMAIN q => DOMAIN u[k].offers = {}
        BY ONLY <4>2, q \in Products, k \in Key, t \in DOMAIN Title, js \in Ids, UpsertedType
      <4> QED BY <4>1, <4>3
    <3> QED BY <2>2, <3>3, <3>4, <3>6, <3>7
  <2> QED BY ZenonT(60), <2>1, <2>2
<1>6. ls \in Seq(SoldListing) /\ SoldListings(ls) /\ Len(ls) = Len(g.members)
      /\ \A n \in 1..Len(ls) : ls[n] = g.members[n].l /\ ls[n].cond = g.cond
  <2>1. PICK N \in Nat : N = Len(g.members) /\ DOMAIN g.members = 1..N BY <1>2
  <2>2. PICK w : w = ls OBVIOUS
  <2>3. w = [n \in 1..N |-> g.members[n].l] BY <2>1, <2>2
  <2>4. \A n \in 1..N : w[n] = g.members[n].l /\ g.members[n].l \in SoldListing
    <3> SUFFICES ASSUME NEW n \in 1..N PROVE w[n] = g.members[n].l /\ g.members[n].l \in SoldListing
      OBVIOUS
    <3>1. g.members[n] \in Member BY <1>2, <2>1
    <3> HIDE DEF ls
    <3> QED BY <2>3, <3>1 DEF Member
  <2>5. w \in [1..N -> SoldListing] BY <2>3, <2>4
  <2>6. w \in Seq(SoldListing) /\ Len(w) = N BY <2>5
  <2> HIDE DEF ls
  <2>7. \A n \in 1..Len(w) : w[n] = g.members[n].l /\ w[n].cond = g.cond BY <1>2, <2>1, <2>4, <2>6
  <2>8. SoldListings(w) BY <2>4, <2>6 DEF SoldListings
  <2> QED BY <2>1, <2>2, <2>6, <2>7, <2>8
<1>7. \A n \in 1..Len(ls) : match[n] \in Verdicts
  <2>1. DOMAIN g.members = 1..Len(ls) /\ \A n \in DOMAIN g.members : g.members[n].match \in Verdicts
    <3> HIDE DEF ls
    <3>1. DOMAIN g.members = 1..Len(ls) /\ \A n \in DOMAIN g.members : g.members[n] \in Member
      BY <1>2, <1>6
    <3> QED BY <3>1 DEF Member
  <2> HIDE DEF attached, ls
  <2> QED BY <1>2, <2>1
<1>8. ps[key] \in Product
  <2> HIDE DEF ps, key
  <2> QED BY <1>5, ProductsAre
<1>9. /\ p \in Product /\ p.ids = ps[key].ids
      /\ \A s \in DOMAIN p.offers : s \in DOMAIN ps[key].offers
                                    \/ \E n \in 1..Len(ls) : s = <<ls[n].shop, ls[n].cond>>
  <2>1. PICK q \in Product : q = ps[key] BY <1>8
  <2>2. PICK v : v = match OBVIOUS
  <2>3. PICK w : w = ls OBVIOUS
  <2>4. SoldListings(w) /\ \A n \in 1..Len(w) : v[n] \in Verdicts BY <1>6, <1>7, <2>2, <2>3
  <2>5. p = RecordedAll(q, w, v) BY <2>1, <2>2, <2>3
  <2> HIDE DEF p, ps, key, ls, match
  <2>6. /\ p \in Product /\ p.ids = q.ids
        /\ \A s \in DOMAIN p.offers : s \in DOMAIN q.offers
                                    \/ \E n \in 1..Len(w) : s = <<w[n].shop, w[n].cond>>
    BY <2>4, <2>5, RecordedAllType
  <2> QED BY <2>1, <2>3, <2>6
<1> HIDE DEF p, match
<1>10. PICK new : new = [ps EXCEPT ![key] = p] OBVIOUS
<1>11. /\ new \in Products /\ DOMAIN new = DOMAIN ps /\ new[key] = p
       /\ \A m \in DOMAIN ps : m # key => new[m] = ps[m]
  <2>1. PICK q \in Products, k \in Key : q = ps /\ k = key BY <1>5
  <2>2. k \in DOMAIN q /\ p.ids = q[k].ids BY ZenonT(60), <1>5, <1>9, <2>1
  <2>3. new = [q EXCEPT ![k] = p] BY <1>10, <2>1
  <2> HIDE DEF ps, key
  <2>4. /\ new \in Products /\ DOMAIN new = DOMAIN q /\ new[k] = p
        /\ \A m \in DOMAIN q : m # k => new[m] = q[m]
    BY <1>9, <2>2, <2>3, ProductReplaced
  <2> QED BY <2>1, <2>4
<1>12. known \in SUBSET Triples /\ KnownIn(known, new)
  <2>1. KnownIn(st.known, new) BY <1>1, <1>5, <1>11 DEF KnownIn
  <2>2. CASE key \in DOMAIN st.ps \/ g.cond # "new"
    BY <1>1, <2>1, <2>2
  <2>3. CASE ~(key \in DOMAIN st.ps \/ g.cond # "new")
    <3>1. ~attached BY <1>1, <2>3
    <3>2. key[2] = "new" /\ key \in DOMAIN new /\ key \in Key BY <1>5, <1>11, <2>3, <3>1
    <3>3. known = st.known \cup {<<i, ids[i], key>> : i \in DOMAIN ids} BY <2>3
    <3>4. PICK js \in Ids : js = ids BY <1>3
    <3> HIDE DEF key, known, ids, ps
    <3>5. \A i \in DOMAIN js : <<i, js[i], key>> \in Triples BY <3>2, IdsAre DEF Triples
    <3>6. \A x \in known : x \in st.known \/ (x \in Triples /\ x[3] = key) BY <3>3, <3>4, <3>5
    <3> QED BY <1>1, <2>1, <3>2, <3>6 DEF KnownIn
  <2> QED BY <2>2, <2>3
<1>13. /\ seen \in Seq(Seen) /\ KeysDiffer(seen) /\ \A n \in DOMAIN seen : seen[n].key \in DOMAIN new
  <2>1. PICK k \in Key : k = key BY <1>5
  <2>2. PICK m \in MatchTypes : m = g.match.type
    BY <1>2 DEF Verdicts, MatchTypes
  <2>3. seen = Listed(st.seen, k, m) BY <2>1, <2>2
  <2>4. k \in DOMAIN new /\ DOMAIN st.ps \in SUBSET (DOMAIN new) BY ZenonT(60), <1>5, <1>11, <2>1
  <2> HIDE DEF seen, key, ps
  <2>5. /\ seen \in Seq(Seen) /\ KeysDiffer(seen)
        /\ \A n \in DOMAIN seen : seen[n].key = k \/ (n \in DOMAIN st.seen /\ seen[n] = st.seen[n])
    <3>1. PICK old \in Seq(Seen) : old = st.seen BY <1>1
    <3>2. KeysDiffer(old) /\ seen = Listed(old, k, m) BY <1>1, <2>3, <3>1
    <3>3. /\ seen \in Seq(Seen) /\ KeysDiffer(seen)
          /\ \A n \in DOMAIN seen : seen[n].key = k \/ (n \in DOMAIN old /\ seen[n] = old[n])
      BY <3>2, ListedType
    <3> QED BY <3>1, <3>3
  <2> QED BY <1>1, <2>4, <2>5
<1>14. DOMAIN before \subseteq DOMAIN new BY <1>1, <1>5, <1>11
<1>15. ASSUME reference = None PROVE Unmixed(before, new)
  <2>1. ~attached /\ Unmixed(before, st.ps) BY <1>1, <1>15
  <2>2. key[2] = g.cond BY <1>5, <2>1
  <2> HIDE DEF key, ps, ls
  <2> SUFFICES ASSUME NEW k \in DOMAIN new, NEW s \in DOMAIN new[k].offers
               PROVE  s[2] = k[2] \/ (k \in DOMAIN before /\ s \in DOMAIN before[k].offers)
    BY DEF Unmixed
  <2>3. CASE k \in DOMAIN st.ps /\ s \in DOMAIN st.ps[k].offers BY <2>1, <2>3 DEF Unmixed
  <2>4. CASE ~(k \in DOMAIN st.ps /\ s \in DOMAIN st.ps[k].offers)
    <3>1. k = key BY <1>5, <1>11, <2>4
    <3>2. s \notin DOMAIN ps[key].offers BY <1>5, <2>4, <3>1
    <3>3. PICK n \in 1..Len(ls) : s = <<ls[n].shop, ls[n].cond>> BY <1>9, <1>11, <3>1, <3>2
    <3> QED BY <1>6, <2>2, <3>1, <3>3
  <2> QED BY <2>3, <2>4
<1> HIDE DEF known, seen, key, ps
<1>16. [ps |-> new, known |-> known, seen |-> seen] \in StagesFrom(before, reference)
  BY <1>11, <1>12, <1>13, <1>14, <1>15 DEF StagesFrom, Stages
<1> QED BY <1>4, <1>10, <1>16

LEMMA StoreGroupsType ==
  ASSUME NEW ps \in Products, NEW groups \in Seq(Group), NEW reference,
         reference # None => reference \in DOMAIN ps
  PROVE  StoreGroups(ps, groups, reference) \in StagesFrom(ps, reference)
<1> DEFINE G == StagesFrom(ps, reference)
           start == [ps |-> ps, known |-> Identified(ps), seen |-> <<>>]
           Eq(F) == F = [T \in SUBSET (DOMAIN groups) |->
                           IF T = {} THEN start
                           ELSE LET x == Max(T) IN StoreGroup(F[T \ {x}], groups[x], reference)]
<1>1. PICK N \in Nat : N = Len(groups) OBVIOUS
<1>2. DOMAIN groups = 1..N /\ groups \in [1..N -> Group] BY <1>1
<1>3. start \in G
  <2>1. start.seen \in Seq(Seen) /\ KeysDiffer(start.seen) /\ DOMAIN start.seen = {} BY DEF KeysDiffer
  <2>2. start.known \in SUBSET Triples /\ KnownIn(start.known, ps) BY IdentifiedType
  <2>3. Unmixed(ps, ps) BY DEF Unmixed
  <2>4. start.ps = ps /\ start = [ps |-> start.ps, known |-> start.known, seen |-> start.seen] OBVIOUS
  <2>5. PICK b : b = start OBVIOUS
  <2> HIDE DEF start
  <2>6. b \in Stages BY <2>1, <2>2, <2>4, <2>5 DEF Stages
  <2> QED BY <2>3, <2>4, <2>5, <2>6 DEF StagesFrom
<1>4. \A q \in G, g \in Group : StoreGroup(q, g, reference) \in G BY StoreGroupStages
<1> HIDE DEF G
<1>5. PICK step : step = [x \in G \X Group |-> StoreGroup(x[1], x[2], reference)] OBVIOUS
<1>6. Folds(G, Group, N, groups, step) BY <1>1, <1>2, <1>4, <1>5 DEF Folds
<1> HIDE DEF start
<1>7. PICK F : FoldOf(F, G, N, groups, step, start) BY <1>3, <1>6, FoldExists
<1>8. Eq(F)
  <2>1. ASSUME NEW T \in SUBSET (1..N), T # {}
        PROVE  F[T] = StoreGroup(F[T \ {Max(T)}], groups[Max(T)], reference)
    <3>1. Max(T) \in 1..N /\ T \ {Max(T)} \in SUBSET (1..N) BY <2>1, LastPlace
    <3>2. F[T] = step[<<F[T \ {Max(T)}], groups[Max(T)]>>] BY <1>7, <2>1 DEF FoldOf, Folded
    <3>3. F[T \ {Max(T)}] \in G BY <1>7, <3>1 DEF FoldOf
    <3>4. groups[Max(T)] \in Group BY <1>2, <3>1
    <3> QED BY <1>5, <3>2, <3>3, <3>4
  <2>2. F[{}] = start BY <1>7 DEF FoldOf, Folded
  <2>3. F \in [SUBSET (1..N) -> G] BY <1>7 DEF FoldOf
  <2> QED BY <1>2, <2>1, <2>2, <2>3
<1>9. \E H : Eq(H) /\ H[DOMAIN groups] = StoreGroups(ps, groups, reference)
  BY <1>8 DEF StoreGroups, FoldLeft, MapThenFoldSet, start
<1>10. PICK H : Eq(H) /\ H[DOMAIN groups] = StoreGroups(ps, groups, reference) BY <1>9
<1>11. \A T \in SUBSET (1..N) : H[T] \in G
  <2>1. H[{}] \in G BY <1>3, <1>10
  <2>2. ASSUME NEW T \in SUBSET (1..N), T # {}, H[T \ {Max(T)}] \in G PROVE H[T] \in G
    <3>1. Max(T) \in 1..N BY <2>2, LastPlace
    <3>2. H[T] = StoreGroup(H[T \ {Max(T)}], groups[Max(T)], reference) BY <1>2, <1>10, <2>2
    <3>3. groups[Max(T)] \in Group BY <1>2, <3>1
    <3> QED BY <1>4, <2>2, <3>2, <3>3
  <2> HIDE DEF Eq
  <2> QED BY <2>1, <2>2, FoldStays
<1>12. H[1..N] \in G BY <1>11
<1> HIDE DEF Eq
<1> QED BY <1>2, <1>10, <1>12 DEF G

-----------------------------------------------------------------------------
(* Healing                                                                 *)

\* What is on show after healing is plain, and nothing else changes.
LEMMA HealedType ==
  ASSUME NEW p \in Product
  PROVE  /\ Healed(p) \in Product /\ Healed(p).title = p.title /\ Healed(p).ids = p.ids
         /\ DOMAIN Healed(p).offers = DOMAIN p.offers
         /\ Active(Healed(p)) = Plain(Healed(p))
<1> DEFINE plain == Plain(p)
           exact == {s \in plain : p.offers[s].match = "exact"}
           reference == Reference(p.offers, IF Cardinality(exact) >= 3 THEN exact ELSE plain)
           kept == {s \in plain : ~BelowFloor(p.offers[s].price, reference)}
           gone == Active(p) \ kept
           offers == [s \in DOMAIN p.offers |-> [p.offers[s] EXCEPT !.active = @ /\ s \notin gone]]
           history == {h \in p.history : h[1] \notin gone /\ ~BelowFloor(h[2], reference)}
<1>1. /\ p.title \in DOMAIN Title /\ p.ids \in Ids /\ p.line \in Lines
      /\ p.offers \in Maps(Source, OfferRow) /\ p.history \in SUBSET (Source \X Nat)
      /\ UnderSource(p.offers)
      /\ p \in [title : DOMAIN Title, ids : Ids, line : Lines, offers : Maps(Source, OfferRow),
                history : SUBSET (Source \X Nat)]
  BY DEF Product
<1>2. Healed(p) = [p EXCEPT !.offers = offers, !.history = history]
  BY DEF Healed, HealedOf
<1>3. plain \in SUBSET Active(p) /\ kept \in SUBSET plain BY DEF Plain
<1>4. /\ DOMAIN p.offers \in SUBSET Source /\ IsFiniteSet(DOMAIN p.offers)
      /\ \A s \in DOMAIN p.offers : p.offers[s] \in OfferRow
  <2>1. PICK f : f = p.offers OBVIOUS
  <2>2. f \in Maps(Source, OfferRow) BY <1>1, <2>1
  <2>3. DOMAIN f \in SUBSET Source /\ IsFiniteSet(DOMAIN f) /\ \A s \in DOMAIN f : f[s] \in OfferRow
    BY <2>2, MapIs
  <2> QED BY <2>1, <2>3
<1> HIDE DEF plain, kept
<1>5. ASSUME NEW s \in DOMAIN p.offers
      PROVE  /\ offers[s] \in OfferRow /\ offers[s].shop = p.offers[s].shop
             /\ offers[s].cond = p.offers[s].cond /\ offers[s].title = p.offers[s].title
             /\ offers[s].active = (p.offers[s].active /\ s \notin gone)
  <2>1. PICK o \in OfferRow : o = p.offers[s] BY <1>4
  <2>2. offers[s] = [o EXCEPT !.active = @ /\ s \notin gone] BY <2>1
  <2>3. o.active \in BOOLEAN BY DEF OfferRow
  <2>4. PICK b \in BOOLEAN : b = (o.active /\ s \notin gone) BY <2>3
  <2>5. offers[s] = [o EXCEPT !.active = b] BY <2>2, <2>4
  <2> HIDE DEF offers, gone
  <2> QED BY <2>1, <2>4, <2>5 DEF OfferRow
<1>6. DOMAIN offers = DOMAIN p.offers /\ offers = [s \in DOMAIN offers |-> offers[s]] OBVIOUS
<1> HIDE DEF offers
<1>7. offers \in Maps(Source, OfferRow) /\ UnderSource(offers)
  <2>1. PICK f : f = offers OBVIOUS
  <2>2. /\ f = [x \in DOMAIN f |-> f[x]] /\ DOMAIN f \in SUBSET Source /\ IsFiniteSet(DOMAIN f)
        /\ \A x \in DOMAIN f : f[x] \in OfferRow
    BY <1>4, <1>5, <1>6, <2>1
  <2>3. f \in Maps(Source, OfferRow) BY <2>2, MapIs
  <2> QED BY <1>1, <1>5, <1>6, <2>1, <2>3 DEF UnderSource
<1>8. history \in SUBSET (Source \X Nat) BY <1>1
<1> HIDE DEF history
<1>9. PICK h : h = Healed(p) OBVIOUS
<1>10. /\ h \in Product /\ h.title = p.title /\ h.ids = p.ids /\ h.offers = offers
  BY <1>1, <1>2, <1>7, <1>8, <1>9 DEF Product
<1>11. \A s \in Active(h) : s \in kept
  BY <1>3, <1>5, <1>6, <1>10 DEF Active
<1>12. \A s \in Active(h) : s \in Plain(h)
  <2> SUFFICES ASSUME NEW s \in Active(h) PROVE s \in Plain(h) OBVIOUS
  <2>1. s \in Plain(p) BY <1>3, <1>11 DEF plain
  <2>2. s \in DOMAIN p.offers /\ h.offers[s].title = p.offers[s].title BY <1>5, <1>6, <1>10 DEF Active
  <2> QED BY <1>10, <2>1, <2>2 DEF Plain
<1>13. Plain(h) \in SUBSET Active(h) BY DEF Plain
<1> QED BY <1>6, <1>9, <1>10, <1>12, <1>13

LEMMA HealedAllType ==
  ASSUME NEW ps \in Products, NEW keys
  PROVE  /\ HealedAll(ps, keys) \in Products /\ DOMAIN HealedAll(ps, keys) = DOMAIN ps
         /\ \A k \in DOMAIN ps : /\ DOMAIN HealedAll(ps, keys)[k].offers = DOMAIN ps[k].offers
                                 /\ k \in keys => Active(HealedAll(ps, keys)[k]) = Plain(HealedAll(ps, keys)[k])
<1>1. /\ ps = [k \in DOMAIN ps |-> ps[k]] /\ DOMAIN ps \in SUBSET Key /\ IsFiniteSet(DOMAIN ps)
      /\ \A k \in DOMAIN ps : ps[k] \in Product /\ (k[2] # "new" => DOMAIN ps[k].ids = {})
  BY ProductsAre
<1>2. PICK h : h = [k \in DOMAIN ps |-> IF k \in keys THEN Healed(ps[k]) ELSE ps[k]] OBVIOUS
<1>3. ASSUME NEW k \in DOMAIN ps
      PROVE  /\ h[k] \in Product /\ h[k].ids = ps[k].ids /\ DOMAIN h[k].offers = DOMAIN ps[k].offers
             /\ k \in keys => Active(h[k]) = Plain(h[k])
  <2>1. ps[k] \in Product BY <1>1
  <2>2. CASE k \in keys
    <3>1. h[k] = Healed(ps[k]) BY <1>2, <2>2
    <3> QED BY <2>1, <3>1, HealedType
  <2>3. CASE k \notin keys
    <3>1. h[k] = ps[k] BY <1>2, <2>3
    <3> QED BY <2>1, <2>3, <3>1
  <2> QED BY <2>2, <2>3
<1>4. DOMAIN h = DOMAIN ps /\ h = [k \in DOMAIN h |-> h[k]] BY <1>2
<1>5. \A k \in DOMAIN h : h[k] \in Product /\ (k[2] # "new" => DOMAIN h[k].ids = {})
  BY <1>1, <1>3, <1>4
<1>6. h \in Products BY <1>1, <1>4, <1>5, ProductsAre
<1>7. HealedAll(ps, keys) = h BY <1>2 DEF HealedAll
<1> QED BY <1>3, <1>4, <1>6, <1>7

\* What a search stored, healed, and what of it is shown.
StoredBy(st, before, reference) ==
    /\ st.healed \in Products /\ DOMAIN before \subseteq DOMAIN st.healed
    /\ reference = None => Unmixed(before, st.healed)
    /\ st.seen \in Seq(Seen) /\ KeysDiffer(st.seen)
    /\ \A n \in DOMAIN st.seen :
          /\ st.seen[n].key \in DOMAIN st.healed
          /\ Active(st.healed[st.seen[n].key]) = Plain(st.healed[st.seen[n].key])

LEMMA FirstOnes ==
  ASSUME NEW S, NEW s \in Seq(S), NEW m \in Nat
  PROVE  SubSeq(s, 1, Min({m, Len(s)})) \in Seq(S)
<1>1. m \in Nat /\ Len(s) \in Nat OBVIOUS
<1>2. {m, Len(s)} \in SUBSET Nat /\ {m, Len(s)} # {} BY <1>1
<1>3. PICK n : n = Min({m, Len(s)}) OBVIOUS
<1>4. n \in {m, Len(s)} /\ \A x \in {m, Len(s)} : n =< x BY <1>2, <1>3, MinIsLeast
<1>5. n \in Nat /\ n =< Len(s) BY <1>1, <1>4
<1>6. 1 \in 1..(Len(s) + 1) /\ n \in (1 - 1)..Len(s) BY <1>1, <1>5
<1>7. SubSeq(s, 1, n) \in Seq(S) BY <1>6, SubSeqProperties
<1> QED BY <1>3, <1>7

LEMMA PersistedType ==
  ASSUME NEW ps \in Products, NEW groups \in Seq(Group), NEW reference,
         reference # None => reference \in DOMAIN ps
  PROVE  StoredBy(Persisted(ps, groups, reference), ps, reference)
<1>1. PICK gs : gs = SubSeq(groups, 1, Min({24, Len(groups)})) OBVIOUS
<1>2. gs \in Seq(Group)
  <2>1. PICK m \in Nat : m = 24 OBVIOUS
  <2> QED BY <1>1, <2>1, FirstOnes
<1>3. PICK st : st = StoreGroups(ps, gs, reference) OBVIOUS
<1>4. st \in StagesFrom(ps, reference) BY <1>2, <1>3, StoreGroupsType
<1>5. /\ st.ps \in Products /\ st.seen \in Seq(Seen) /\ KeysDiffer(st.seen)
      /\ \A n \in DOMAIN st.seen : st.seen[n].key \in DOMAIN st.ps
      /\ DOMAIN ps \subseteq DOMAIN st.ps /\ (reference = None => Unmixed(ps, st.ps))
  BY <1>4 DEF StagesFrom, Stages
<1>6. PICK keys : keys = {st.seen[n].key : n \in DOMAIN st.seen} OBVIOUS
<1>7. PICK h : h = HealedAll(st.ps, keys) OBVIOUS
<1>8. /\ h \in Products /\ DOMAIN h = DOMAIN st.ps
      /\ \A k \in DOMAIN st.ps : /\ DOMAIN h[k].offers = DOMAIN st.ps[k].offers
                                 /\ k \in keys => Active(h[k]) = Plain(h[k])
  BY <1>5, <1>7, HealedAllType
<1>9. PICK r : r = [seen |-> st.seen, ps |-> st.ps, healed |-> h] OBVIOUS
<1>10. Persisted(ps, groups, reference) = r
  BY <1>1, <1>3, <1>6, <1>7, <1>9 DEF Persisted, AndHealed
<1>11. r.seen = st.seen /\ r.healed = h BY <1>9
<1>12. reference = None => Unmixed(ps, h) BY <1>5, <1>8 DEF Unmixed
<1>13. \A n \in DOMAIN st.seen : st.seen[n].key \in DOMAIN h /\ Active(h[st.seen[n].key]) = Plain(h[st.seen[n].key])
  BY <1>5, <1>6, <1>8
<1> QED BY <1>5, <1>8, <1>10, <1>11, <1>12, <1>13 DEF StoredBy

\* Listings recorded with one product.
LEMMA RecordedWith ==
  ASSUME NEW ps \in Products, NEW key \in DOMAIN ps, NEW ls \in Seq(SoldListing), NEW match,
         \A n \in 1..Len(ls) : match[n] \in Verdicts
  PROVE  /\ [ps EXCEPT ![key] = RecordedAll(@, ls, match)] \in Products
         /\ DOMAIN [ps EXCEPT ![key] = RecordedAll(@, ls, match)] = DOMAIN ps
<1>1. PICK p : p = RecordedAll(ps[key], ls, match) OBVIOUS
<1>2. SoldListings(ls) BY SeqPlaces DEF SoldListings
<1>3. PICK q \in Product : q = ps[key] BY ProductsAre
<1>4. p \in Product /\ p.ids = q.ids BY <1>1, <1>2, <1>3, RecordedAllType
<1>5. p.ids = ps[key].ids BY <1>3, <1>4
<1>6. [ps EXCEPT ![key] = p] \in Products /\ DOMAIN [ps EXCEPT ![key] = p] = DOMAIN ps
  BY <1>4, <1>5, ProductReplaced
<1> QED BY <1>1, <1>6

LEMMA OpenedType ==
  ASSUME products \in Products, NEW own \in Key, own[2] = "new", NEW link \in Linked
  PROVE  Opened(own, link, link.ids) \in Products /\ own \in DOMAIN Opened(own, link, link.ids)
         /\ DOMAIN products \subseteq DOMAIN Opened(own, link, link.ids)
<1>1. PICK t \in DOMAIN Title : t = link.title BY AnswerAssumption
<1>2. PICK ids \in Ids : ids = link.ids BY AnswerAssumption
<1>3. PICK ls \in Seq(SoldListing) : ls = link.offers BY AnswerAssumption DEF SoldListing
<1>4. PICK ps \in Products : ps = products OBVIOUS
<1>5. PICK u : u = Upserted(ps, own, t, TitleAttributes[t], ids, own[2]) OBVIOUS
<1>6. UpsertedAs(u, ps, own, t, ids) BY <1>5 DEF UpsertedAs
<1>7. /\ u \in Products /\ DOMAIN u = DOMAIN ps \cup {own}
      /\ \A x \in DOMAIN ps : u[x].offers = ps[x].offers
      /\ own \notin DOMAIN ps => DOMAIN u[own].offers = {}
  BY ONLY <1>6, ps \in Products, own \in Key, t \in DOMAIN Title, ids \in Ids, UpsertedType
<1>8. PICK match : match = [n \in DOMAIN ls |-> Exact(980)] OBVIOUS
<1>9. \A n \in 1..Len(ls) : match[n] \in Verdicts BY <1>8, VerdictsOfModel, SeqPlaces
<1>10. PICK k \in DOMAIN u : k = own BY <1>7
<1>11. PICK o : o = [u EXCEPT ![k] = RecordedAll(@, ls, match)] OBVIOUS
<1>12. o \in Products /\ DOMAIN o = DOMAIN u BY <1>7, <1>9, <1>11, RecordedWith
<1>13. Opened(own, link, link.ids) = o
  BY <1>1, <1>2, <1>3, <1>4, <1>5, <1>8, <1>10, <1>11 DEF Opened
<1> QED BY <1>4, <1>7, <1>12, <1>13

LEMMA RefreshedType ==
  ASSUME NEW ps \in Products, NEW key \in DOMAIN ps, NEW answer \in Seq(Listing)
  PROVE  Refreshed(ps, key, answer) \in Products /\ DOMAIN Refreshed(ps, key, answer) = DOMAIN ps
<1> DEFINE p == ps[key]
           match(l) == Match(Candidate(p.title, p.ids), CandidateOf(l))
           may == {i \in DOMAIN answer : Sold(answer[i]) /\ match(answer[i]).type # "unknown"}
           found == Kept(answer, may)
           verdicts == [n \in DOMAIN found |-> match(found[n])]
<1>1. Refreshed(ps, key, answer) = [ps EXCEPT ![key] = RecordedAll(@, found, verdicts)] BY DEF Refreshed
<1>2. found \in Seq(SoldListing)
  <2>1. may \in SUBSET (DOMAIN answer) OBVIOUS
  <2>2. \A i \in may : answer[i] \in SoldListing BY SeqPlaces DEF SoldListing, Sold
  <2> HIDE DEF may
  <2> QED BY <2>1, <2>2, KeptAre
<1> HIDE DEF found
<1>3. ASSUME NEW n \in 1..Len(found) PROVE verdicts[n] \in Verdicts
  <2>1. n \in DOMAIN found /\ found[n] \in SoldListing BY <1>2, SeqPlaces
  <2>2. found[n] \in Listing BY <2>1 DEF SoldListing
  <2>3. Candidate(p.title, p.ids).title \in DOMAIN Title BY ProductsAre DEF Product, Candidate
  <2>4. CandidateOf(found[n]).title \in DOMAIN Title BY <2>2, ListingType
  <2>5. match(found[n]) \in Verdicts BY <2>3, <2>4, MatchType
  <2> QED BY <2>1, <2>5
<1> HIDE DEF verdicts
<1>4. PICK ls \in Seq(SoldListing) : ls = found BY <1>2
<1>5. \A n \in 1..Len(ls) : verdicts[n] \in Verdicts BY <1>3, <1>4
<1>6. PICK v : v = verdicts OBVIOUS
<1>7. \A n \in 1..Len(ls) : v[n] \in Verdicts BY <1>5, <1>6
<1>8. PICK q : q = [ps EXCEPT ![key] = RecordedAll(@, ls, v)] OBVIOUS
<1>9. q \in Products /\ DOMAIN q = DOMAIN ps BY <1>7, <1>8, RecordedWith
<1> QED BY <1>1, <1>4, <1>6, <1>8, <1>9

LEMMA ForComparisonType ==
  ASSUME NEW ps \in Products, NEW key \in DOMAIN ps, NEW answer \in Seq(Listing)
  PROVE  ForComparison(ps, key, answer) \in Products /\ DOMAIN ForComparison(ps, key, answer) = DOMAIN ps
BY RefreshedType, HealedAllType DEF ForComparison

-----------------------------------------------------------------------------
(* Cards                                                                   *)

CardRow == [id : Key, title : DOMAIN Title, match : MatchTypes, price : {None} \cup Nat, shops : SUBSET Shop]

\* A card's price is that of an offer that is plain and on show.
OnOffer(ps, c) ==
    c.price # None => \E s \in Plain(ps[c.id]) : c.price = ps[c.id].offers[s].price

\* Cards of stored products, and of those that were healed.
CardsOf(ps) == {c \in CardRow : c.id \in DOMAIN ps}
HealedCards(ps) == {c \in CardsOf(ps) : OnOffer(ps, c)}

IdsDiffer(cards) == \A m, n \in DOMAIN cards : cards[m].id = cards[n].id => m = n

LEMMA OffersOf ==
  ASSUME NEW ps \in Products, NEW k \in DOMAIN ps
  PROVE  /\ k \in Key /\ ps[k] \in Product /\ IsFiniteSet(DOMAIN ps[k].offers)
         /\ \A s \in DOMAIN ps[k].offers : s \in Source /\ ps[k].offers[s] \in OfferRow
                                           /\ ps[k].offers[s].shop = s[1] /\ ps[k].offers[s].cond = s[2]
<1>1. k \in Key /\ ps[k] \in Product BY ProductsAre
<1>2. PICK f : f = ps[k].offers OBVIOUS
<1>3. f \in Maps(Source, OfferRow) /\ UnderSource(f) BY <1>1, <1>2 DEF Product
<1>4. DOMAIN f \in SUBSET Source /\ IsFiniteSet(DOMAIN f) /\ \A s \in DOMAIN f : f[s] \in OfferRow
  BY <1>3, MapIs
<1> QED BY <1>1, <1>2, <1>3, <1>4 DEF UnderSource

LEMMA CardType ==
  ASSUME NEW ps \in Products, NEW k \in DOMAIN ps, NEW match \in MatchTypes
  PROVE  /\ Card(ps, k, match) \in CardsOf(ps) /\ Card(ps, k, match).id = k
         /\ Card(ps, k, match).match = match
         /\ Active(ps[k]) = Plain(ps[k]) => Card(ps, k, match) \in HealedCards(ps)
<1> DEFINE price == IF Priced(ps[k]) = {} THEN None ELSE Min(Priced(ps[k]))
           shops == {s[1] : s \in Active(ps[k])}
<1>1. k \in Key /\ ps[k] \in Product BY OffersOf
<1>2. \A s \in Active(ps[k]) : s[1] \in Shop /\ ps[k].offers[s].price \in Nat
  <2> SUFFICES ASSUME NEW s \in Active(ps[k]) PROVE s[1] \in Shop /\ ps[k].offers[s].price \in Nat
    OBVIOUS
  <2>1. s \in DOMAIN ps[k].offers BY DEF Active
  <2>2. s \in Source /\ ps[k].offers[s] \in OfferRow BY <2>1, OffersOf
  <2> QED BY <2>2 DEF Source, OfferRow
<1>3. \A x \in Priced(ps[k]) : \E s \in Active(ps[k]) : x = ps[k].offers[s].price BY DEF Priced
<1>4. Priced(ps[k]) \in SUBSET Nat BY <1>2, <1>3
<1>5. Priced(ps[k]) # {} => Min(Priced(ps[k])) \in Priced(ps[k]) BY <1>4, MinIsLeast
<1>6. price # None => \E s \in Active(ps[k]) : price = ps[k].offers[s].price BY <1>3, <1>5
<1>7. price \in {None} \cup Nat BY <1>4, <1>5
<1>8. shops \in SUBSET Shop BY <1>2
<1>9. Card(ps, k, match) = [id |-> k, title |-> ps[k].title, match |-> match, price |-> price, shops |-> shops]
  BY DEF Card
<1> HIDE DEF price, shops
<1>10. PICK c : c = Card(ps, k, match) OBVIOUS
<1>11. ps[k].title \in DOMAIN Title BY <1>1 DEF Product
<1>12. c \in CardsOf(ps) /\ c.id = k /\ c.match = match /\ c.price = price
  BY <1>1, <1>7, <1>8, <1>9, <1>10, <1>11 DEF CardsOf, CardRow
<1>13. Active(ps[k]) = Plain(ps[k]) => c \in HealedCards(ps)
  BY <1>6, <1>12 DEF HealedCards, OnOffer
<1> QED BY <1>10, <1>12, <1>13

LEMMA CardsType ==
  ASSUME NEW st, NEW before, NEW reference, StoredBy(st, before, reference)
  PROVE  /\ Cards(st) \in Seq(HealedCards(st.healed)) /\ IdsDiffer(Cards(st))
         /\ DOMAIN Cards(st) = DOMAIN st.seen
         /\ \A n \in DOMAIN st.seen : Cards(st)[n].id = st.seen[n].key
<1>1. /\ st.healed \in Products /\ st.seen \in Seq(Seen) /\ KeysDiffer(st.seen)
      /\ \A n \in DOMAIN st.seen :
            /\ st.seen[n].key \in DOMAIN st.healed
            /\ Active(st.healed[st.seen[n].key]) = Plain(st.healed[st.seen[n].key])
  BY DEF StoredBy
<1>2. PICK N \in Nat : N = Len(st.seen) /\ DOMAIN st.seen = 1..N /\ \A n \in 1..N : st.seen[n] \in Seen
  BY <1>1, SeqPlaces
<1>3. PICK cs : cs = [n \in 1..N |-> Card(st.healed, st.seen[n].key, st.seen[n].match)] OBVIOUS
<1>4. ASSUME NEW n \in 1..N PROVE cs[n] \in HealedCards(st.healed) /\ cs[n].id = st.seen[n].key
  <2>1. st.seen[n].match \in MatchTypes BY <1>2 DEF Seen
  <2>2. PICK k \in DOMAIN st.healed, m \in MatchTypes : k = st.seen[n].key /\ m = st.seen[n].match
    BY <1>1, <1>2, <2>1
  <2>3. Active(st.healed[k]) = Plain(st.healed[k]) BY <1>1, <1>2, <2>2
  <2>4. cs[n] = Card(st.healed, k, m) BY <1>3, <2>2
  <2>5. PICK ps \in Products : ps = st.healed BY <1>1
  <2>6. Card(ps, k, m) \in HealedCards(ps) /\ Card(ps, k, m).id = k BY <2>2, <2>3, <2>5, CardType
  <2> QED BY <2>2, <2>4, <2>5, <2>6
<1>5. cs = [n \in 1..N |-> cs[n]] /\ DOMAIN cs = 1..N BY <1>3
<1>6. cs \in [1..N -> HealedCards(st.healed)] BY <1>4, <1>5
<1>7. cs \in Seq(HealedCards(st.healed)) BY ONLY <1>6, N \in Nat
<1>8. IdsDiffer(cs)
  <2>1. \A m, n \in 1..N : st.seen[m].key = st.seen[n].key => m = n BY <1>1, <1>2 DEF KeysDiffer
  <2>2. \A n \in 1..N : cs[n].id = st.seen[n].key BY <1>4
  <2> QED BY ONLY <1>5, <2>1, <2>2 DEF IdsDiffer
<1>9. Cards(st) = cs BY <1>2, <1>3 DEF Cards
<1> QED BY <1>2, <1>4, <1>5, <1>7, <1>8, <1>9

LEMMA DrawnIdsDiffer ==
  ASSUME NEW r, NEW s, NEW P \in SUBSET (DOMAIN s), Drawn(r, s, P), IdsDiffer(s)
  PROVE  IdsDiffer(r)
<1>1. PICK j : DrawnBy(r, s, P, j) BY DEF Drawn
<1> QED BY <1>1 DEF DrawnBy, IdsDiffer

\* What is shown is some of the cards.
LEMMA ShownType ==
  ASSUME NEW S, NEW cards \in Seq(S), NEW asked, IdsDiffer(cards)
  PROVE  Shown(cards, asked) \in Seq(S) /\ IdsDiffer(Shown(cards, asked))
<1>1. PICK P \in SUBSET (DOMAIN cards) :
         P = {i \in DOMAIN cards : IsProduct(TitleAttributes[cards[i].title], asked)}
  OBVIOUS
<1>2. PICK k : k = Kept(cards, P) OBVIOUS
<1>3. k \in Seq(S) /\ IdsDiffer(k) BY <1>2, KeptType, DrawnIdsDiffer
<1>4. PICK r : r = PlausiblyPriced(k) OBVIOUS
<1>5. r \in Seq(S) /\ \E Q \in SUBSET (DOMAIN k) : Drawn(r, k, Q) BY <1>3, <1>4, PlausiblyPricedType
<1>6. IdsDiffer(r) BY <1>3, <1>5, DrawnIdsDiffer
<1> QED BY <1>1, <1>2, <1>4, <1>5, <1>6 DEF Shown

\* Stored products by name, each once.
LEMMA FallbackType ==
  ASSUME NEW ps \in Products, NEW query \in DOMAIN Title
  PROVE  Fallback(ps, query) \in Seq(CardsOf(ps)) /\ IdsDiffer(Fallback(ps, query))
<1> DEFINE S == {k \in DOMAIN ps : Title[query].said \subseteq Title[ps[k].title].said}
<1>1. PICK K : K = DOMAIN ps OBVIOUS
<1>2. PICK s : s = Named(ps, query) OBVIOUS
<1>3. s \in Seq(StoredAs(K)) /\ KeysDiffer(s)
  <2>1. IsFiniteSet(S)
    <3>1. IsFiniteSet(DOMAIN ps) /\ S \in SUBSET (DOMAIN ps) BY ProductsAre
    <3> HIDE DEF S
    <3> QED BY <3>1, FS_Subset
  <2>2. PICK named : named = SetToSeq(S) OBVIOUS
  <2> HIDE DEF S
  <2>3. PICK N \in Nat : N = Cardinality(S) BY <2>1, FS_CardinalityType
  <2>4. \E f \in [1..N -> S] : \A m, n \in 1..N : f[m] = f[n] => m = n
    BY <2>1, <2>3, FS_NatBijection, FS_CardinalityType DEF ExistsBijection, Bijection, Injection, IsInjective
  <2>5. named \in [1..N -> S] /\ \A m, n \in 1..N : named[m] = named[n] => m = n
    BY <2>2, <2>3, <2>4 DEF SetToSeq, IsInjective
  <2>6. ASSUME NEW k \in S
        PROVE  Candidate(ps[k].title, <<>>) \in Refs /\ k \in K
    <3>1. k \in DOMAIN ps BY DEF S
    <3>2. ps[k].title \in DOMAIN Title BY <3>1, ProductsAre DEF Product
    <3> QED BY <1>1, <3>1, <3>2, NoIdsRef
  <2>7. s = [n \in 1..N |-> [ref |-> Candidate(ps[named[n]].title, <<>>), key |-> named[n],
                             match |-> Verdict("none", 0, {})]]
    BY <1>2, <2>2, <2>5 DEF Named, S
  <2>8. \A n \in 1..N : s[n] \in StoredAs(K) /\ s[n].key = named[n]
    BY <2>5, <2>6, <2>7, VerdictsOfModel DEF StoredAs
  <2>9. s = [n \in 1..N |-> s[n]] /\ DOMAIN s = 1..N BY <2>7
  <2>10. s \in [1..N -> StoredAs(K)] BY <2>8, <2>9
  <2>11. s \in Seq(StoredAs(K)) BY ONLY <2>10, N \in Nat
  <2>12. KeysDiffer(s) BY <2>5, <2>8, <2>9 DEF KeysDiffer
  <2> QED BY <2>11, <2>12
<1>4. PICK R : R = StoredAs(K) OBVIOUS
<1>5. PICK found : found = NamedModel(s, query) OBVIOUS
<1>6. found \in Seq(R) /\ KeysDiffer(found)
  <2>1. Comparable(R) BY <1>4, StoredComparable
  <2>2. found \in Seq(R) BY <1>3, <1>4, <1>5, <2>1, NamedModelType
  <2>3. KeysDiffer(found) BY <1>3, <1>5, NamedModelKeysDiffer
  <2> QED BY <2>2, <2>3
<1>7. PICK N \in Nat : N = Len(found) /\ DOMAIN found = 1..N /\ \A n \in 1..N : found[n] \in R
  BY <1>6, SeqPlaces
<1>8. PICK cs : cs = [n \in 1..N |-> Card(ps, found[n].key, "none")] OBVIOUS
<1>9. ASSUME NEW n \in 1..N PROVE cs[n] \in CardsOf(ps) /\ cs[n].id = found[n].key
  <2>1. found[n].key \in DOMAIN ps BY <1>1, <1>4, <1>7 DEF StoredAs
  <2>2. "none" \in MatchTypes BY DEF MatchTypes
  <2> QED BY <1>8, <2>1, <2>2, CardType
<1>10. cs = [n \in 1..N |-> cs[n]] /\ DOMAIN cs = 1..N BY <1>8
<1>11. cs \in [1..N -> CardsOf(ps)] BY <1>9, <1>10
<1>12. cs \in Seq(CardsOf(ps)) BY ONLY <1>11, N \in Nat
<1>13. IdsDiffer(cs) BY <1>6, <1>7, <1>9, <1>10 DEF IdsDiffer, KeysDiffer
<1>14. Fallback(ps, query) = cs BY <1>2, <1>5, <1>7, <1>8 DEF Fallback
<1> QED BY <1>12, <1>13, <1>14

-----------------------------------------------------------------------------
(* Searches                                                                *)

\* A search's products, and the cards it shows of them.
FoundBy(r, before) ==
    /\ r.ps \in Products /\ DOMAIN before \subseteq DOMAIN r.ps /\ Unmixed(before, r.ps)
    /\ r.cards \in Seq(CardsOf(r.ps)) /\ IdsDiffer(r.cards)
    /\ r.surface \in {"text", "stored"}
    /\ r.surface = "text" => r.cards \in Seq(HealedCards(r.ps))

LEMMA LaterSeq == \A a \in Later : a \in Seq(Listing)
<1>1. <<>> \in Seq(Listing) OBVIOUS
<1>2. Answer \in SUBSET Seq(Listing) BY AnswerAssumption
<1> QED BY <1>1, <1>2 DEF Later

LEMMA TextResultsType ==
  ASSUME NEW ps \in Products, NEW query \in DOMAIN Title, NEW answer \in Seq(Listing)
  PROVE  FoundBy(TextResults(ps, query, answer), ps)
<1>1. PICK asked : asked = TitleAttributes[query] OBVIOUS
<1>2. PICK groups : groups = NamedModel(Groups(Filtered(answer, asked)), query) OBVIOUS
<1>3. groups \in Seq(Group)
  <2>1. Filtered(answer, asked) \in Seq(SoldListing) BY FilteredType
  <2>2. Groups(Filtered(answer, asked)) \in Seq(Group) BY <2>1, GroupsType
  <2> QED BY <1>2, <2>2, GroupsComparable, NamedModelType
<1>4. PICK st : st = Persisted(ps, groups, None) OBVIOUS
<1>5. StoredBy(st, ps, None) BY <1>3, <1>4, PersistedType
<1>6. st.healed \in Products /\ DOMAIN ps \subseteq DOMAIN st.healed /\ Unmixed(ps, st.healed)
  BY <1>5 DEF StoredBy
<1>7. PICK h \in Products : h = st.healed BY <1>6
<1>8. PICK cards : cards = (IF groups # <<>> THEN [n \in DOMAIN st.seen |-> [Cards(st)[n] EXCEPT !.match = "none"]]
                            ELSE Fallback(ps, query))
  OBVIOUS
<1>9. /\ cards \in Seq(CardsOf(h)) /\ IdsDiffer(cards)
      /\ groups # <<>> => cards \in Seq(HealedCards(h))
  <2>1. CASE groups # <<>>
    <3>1. PICK cs : cs = Cards(st) OBVIOUS
    <3>2. cs \in Seq(HealedCards(h)) /\ IdsDiffer(cs) /\ DOMAIN cs = DOMAIN st.seen
      BY <1>5, <1>7, <3>1, CardsType
    <3>3. PICK N \in Nat : DOMAIN cs = 1..N /\ \A n \in 1..N : cs[n] \in HealedCards(h)
      BY <3>2, SeqPlaces
    <3>4. cards = [n \in 1..N |-> [cs[n] EXCEPT !.match = "none"]] BY <1>8, <2>1, <3>1, <3>2, <3>3
    <3>5. ASSUME NEW n \in 1..N PROVE cards[n] \in HealedCards(h) /\ cards[n].id = cs[n].id
      <4>1. PICK c \in HealedCards(h) : c = cs[n] BY <3>3
      <4>2. PICK d : d = [c EXCEPT !.match = "none"] OBVIOUS
      <4>3. c \in CardRow /\ c.id \in DOMAIN h /\ OnOffer(h, c) BY DEF HealedCards, CardsOf
      <4>4. d \in CardRow /\ d.id = c.id /\ d.price = c.price BY <4>2, <4>3 DEF CardRow, MatchTypes
      <4>5. d \in HealedCards(h) BY <4>3, <4>4 DEF HealedCards, CardsOf, OnOffer
      <4> QED BY <3>4, <4>1, <4>2, <4>4, <4>5
    <3>6. cards = [n \in 1..N |-> cards[n]] /\ DOMAIN cards = 1..N BY <3>4
    <3>7. cards \in [1..N -> HealedCards(h)] BY <3>5, <3>6
    <3>8. cards \in Seq(HealedCards(h)) BY ONLY <3>7, N \in Nat
    <3>9. cards \in Seq(CardsOf(h))
      <4>1. cards \in [1..N -> CardsOf(h)] BY <3>5, <3>6 DEF HealedCards
      <4> QED BY ONLY <4>1, N \in Nat
    <3>10. IdsDiffer(cards) BY <3>2, <3>3, <3>5, <3>6 DEF IdsDiffer
    <3> QED BY <3>8, <3>9, <3>10
  <2>2. CASE groups = <<>>
    <3>1. cards \in Seq(CardsOf(ps)) /\ IdsDiffer(cards) BY <1>8, <2>2, FallbackType
    <3>2. CardsOf(ps) \in SUBSET CardsOf(h) BY <1>6, <1>7 DEF CardsOf
    <3>3. cards \in Seq(CardsOf(h)) BY <3>1, <3>2
    <3> QED BY <2>2, <3>1, <3>3
  <2> QED BY <2>1, <2>2
<1>10. PICK shown : shown = Shown(cards, asked) OBVIOUS
<1>11. /\ shown \in Seq(CardsOf(h)) /\ IdsDiffer(shown)
       /\ groups # <<>> => shown \in Seq(HealedCards(h))
  BY <1>9, <1>10, ShownType
<1>12. PICK r : r = [ps |-> st.healed, cards |-> shown,
                     surface |-> IF groups # <<>> THEN "text" ELSE "stored"]
  OBVIOUS
<1>13. TextResults(ps, query, answer) = r
  <2>1. TextResults(ps, query, answer) = ResultsOf(ps, query, groups) BY <1>1, <1>2 DEF TextResults
  <2>2. ResultsOf(ps, query, groups) = Results(ps, query, groups # <<>>, st) BY <1>4 DEF ResultsOf
  <2>3. Results(ps, query, groups # <<>>, st) = r
    BY <1>1, <1>8, <1>10, <1>12 DEF Results
  <2> QED BY <2>1, <2>2, <2>3
<1>14. r.ps = h /\ r.cards = shown /\ r.surface \in {"text", "stored"} /\ (r.surface = "text" => groups # <<>>)
  BY <1>7, <1>12
<1> QED BY <1>6, <1>7, <1>11, <1>13, <1>14 DEF FoundBy

\* What holds of a search by link or photo: its cards that name a match are of
\* healed products.
LEMMA MatchedCards ==
  ASSUME NEW st, NEW before, NEW reference, StoredBy(st, before, reference), NEW asked
  PROVE  /\ Shown(Cards(st), asked) \in Seq(HealedCards(st.healed))
         /\ IdsDiffer(Shown(Cards(st), asked))
<1>1. PICK cs : cs = Cards(st) OBVIOUS
<1>2. PICK S : S = HealedCards(st.healed) OBVIOUS
<1>3. cs \in Seq(S) /\ IdsDiffer(cs) BY <1>1, <1>2, CardsType
<1>4. Shown(cs, asked) \in Seq(S) /\ IdsDiffer(Shown(cs, asked)) BY <1>3, ShownType
<1> QED BY <1>1, <1>2, <1>4

LEMMA Preceded ==
  ASSUME NEW S, NEW c \in S, NEW s \in Seq(S)
  PROVE  /\ <<c>> \o s \in Seq(S) /\ DOMAIN (<<c>> \o s) = 1..(Len(s) + 1) /\ (<<c>> \o s)[1] = c
         /\ \A n \in 2..(Len(s) + 1) : (<<c>> \o s)[n] = s[n - 1]
<1>1. <<c>> \in Seq(S) /\ Len(<<c>>) = 1 /\ <<c>>[1] = c OBVIOUS
<1>2. PICK t \in Seq(S) : t = <<c>> BY <1>1
<1>3. Len(t) = 1 /\ t[1] = c BY <1>1, <1>2
<1>4. PICK r : r = t \o s OBVIOUS
<1>5. r \in Seq(S) /\ Len(r) = Len(t) + Len(s)
      /\ \A n \in 1..(Len(t) + Len(s)) : r[n] = IF n =< Len(t) THEN t[n] ELSE s[n - Len(t)]
  BY ONLY <1>4, t \in Seq(S), s \in Seq(S), ConcatProperties
<1>6. DOMAIN r = 1..(Len(s) + 1) BY <1>3, <1>5
<1>7. r[1] = c BY <1>3, <1>5
<1>8. \A n \in 2..(Len(s) + 1) : r[n] = s[n - 1] BY <1>3, <1>5
<1> QED BY <1>2, <1>4, <1>5, <1>6, <1>7, <1>8

LEMMA OnePlaceUp ==
  ASSUME NEW N \in Nat, NEW n \in 1..(N + 1), n # 1
  PROVE  n \in 2..(N + 1) /\ n - 1 \in 1..N
OBVIOUS

\* The card of a link's own product says nothing of a match.
OwnOrHealed(ps) == {c \in CardsOf(ps) : c.match = "none" \/ OnOffer(ps, c)}

LEMMA LinkCards ==
  ASSUME NEW st, NEW before, NEW reference, StoredBy(st, before, reference),
         NEW own \in DOMAIN st.healed, NEW asked, NEW cards,
         cards = (IF \E n \in DOMAIN st.seen : st.seen[n].key = own THEN <<>>
                  ELSE <<Card(st.healed, own, "none")>>) \o Cards(st)
  PROVE  Shown(cards, asked) \in Seq(OwnOrHealed(st.healed)) /\ IdsDiffer(Shown(cards, asked))
<1>1. PICK h \in Products : h = st.healed BY DEF StoredBy
<1>2. PICK cs : cs = Cards(st) OBVIOUS
<1>3. /\ cs \in Seq(HealedCards(h)) /\ IdsDiffer(cs) /\ DOMAIN cs = DOMAIN st.seen
      /\ \A n \in DOMAIN cs : cs[n].id = st.seen[n].key
  BY <1>1, <1>2, CardsType
<1>4. PICK S : S = OwnOrHealed(h) OBVIOUS
<1>5. HealedCards(h) \in SUBSET S BY <1>4 DEF HealedCards, OwnOrHealed
<1>6. cs \in Seq(S) BY <1>3, <1>5
<1>7. cards \in Seq(S) /\ IdsDiffer(cards)
  <2>1. CASE \E n \in DOMAIN st.seen : st.seen[n].key = own
    <3>1. cards = <<>> \o cs BY <1>2, <2>1
    <3>2. cards = cs BY <1>6, <3>1, ConcatEmptySeq
    <3> QED BY <1>3, <1>6, <3>2
  <2>2. CASE ~ \E n \in DOMAIN st.seen : st.seen[n].key = own
    <3>1. PICK c : c = Card(h, own, "none") OBVIOUS
    <3>2. c \in S /\ c.id = own
      <4>1. PICK m \in MatchTypes : m = "none" BY DEF MatchTypes
      <4>2. PICK k \in DOMAIN h : k = own BY <1>1
      <4>3. c \in CardsOf(h) /\ c.id = k /\ c.match = m BY <3>1, <4>1, <4>2, CardType
      <4> QED BY <1>4, <4>1, <4>2, <4>3 DEF OwnOrHealed
    <3>3. cards = <<c>> \o cs BY <1>1, <1>2, <2>2, <3>1
    <3>4. PICK N \in Nat : N = Len(cs) /\ DOMAIN cs = 1..N BY <1>6, SeqPlaces
    <3>5. /\ cards \in Seq(S) /\ DOMAIN cards = 1..(N + 1) /\ cards[1] = c
          /\ \A n \in 2..(N + 1) : cards[n] = cs[n - 1]
      <4>1. Len(cs) = N /\ c \in S BY <3>2, <3>4
      <4> QED BY ONLY <1>6, <3>3, <4>1, Preceded
    <3>6. \A n \in 1..N : cs[n].id # own BY <1>3, <2>2, <3>4
    <3>7. IdsDiffer(cards)
      <4> SUFFICES ASSUME NEW m \in 1..(N + 1), NEW n \in 1..(N + 1), cards[m].id = cards[n].id
                   PROVE  m = n
        BY <3>5 DEF IdsDiffer
      <4>1. CASE m = 1 /\ n = 1 BY <4>1
      <4>2. CASE m = 1 /\ n # 1
        <5>1. n \in 2..(N + 1) /\ n - 1 \in 1..N BY <4>2, OnePlaceUp
        <5> QED BY <3>2, <3>5, <3>6, <4>2, <5>1
      <4>3. CASE m # 1 /\ n = 1
        <5>1. m \in 2..(N + 1) /\ m - 1 \in 1..N BY <4>3, OnePlaceUp
        <5> QED BY <3>2, <3>5, <3>6, <4>3, <5>1
      <4>4. CASE m # 1 /\ n # 1
        <5>1. m \in 2..(N + 1) /\ m - 1 \in 1..N BY <4>4, OnePlaceUp
        <5>2. n \in 2..(N + 1) /\ n - 1 \in 1..N BY <4>4, OnePlaceUp
        <5>3. cs[m - 1].id = cs[n - 1].id BY <3>5, <5>1, <5>2
        <5>4. m - 1 = n - 1 BY <1>3, <3>4, <5>1, <5>2, <5>3 DEF IdsDiffer
        <5> QED BY ONLY N \in Nat, m \in 1..(N + 1), n \in 1..(N + 1), <5>4
      <4> QED BY <4>1, <4>2, <4>3, <4>4
    <3> QED BY <3>5, <3>7
  <2> QED BY <2>1, <2>2
<1>8. Shown(cards, asked) \in Seq(S) /\ IdsDiffer(Shown(cards, asked)) BY <1>7, ShownType
<1> QED BY <1>1, <1>4, <1>8

-----------------------------------------------------------------------------
(* Offers that are compared                                                *)

Response == [title : DOMAIN Title, price : Nat, cond : Conditions, shop : Shop,
             days : {None} \cup Nat, match : MatchTypes, confidence : Int, active : BOOLEAN,
             score : {None} \cup Nat]

TrustType == trust \in [Shop -> [score : {None} \cup Nat, flagged : BOOLEAN]]

LEMMA OfferResponseType ==
  ASSUME TrustType, NEW o \in OfferRow
  PROVE  OfferResponse(o) \in Response /\ OfferResponse(o).shop = o.shop
<1>1. trust[o.shop].score \in {None} \cup Nat BY DEF TrustType, OfferRow
<1>2. PICK score \in {None} \cup Nat : score = trust[o.shop].score BY <1>1
<1>3. OfferResponse(o) = Extended(o, [score |-> score]) BY <1>2 DEF OfferResponse
<1>4. o = [title |-> o.title, price |-> o.price, cond |-> o.cond, shop |-> o.shop, days |-> o.days,
           match |-> o.match, confidence |-> o.confidence, active |-> o.active]
  BY DEF OfferRow
<1>5. PICK r : r = [title |-> o.title, price |-> o.price, cond |-> o.cond, shop |-> o.shop, days |-> o.days,
                    match |-> o.match, confidence |-> o.confidence, active |-> o.active, score |-> score]
  OBVIOUS
<1>6. Extended(o, [score |-> score]) = r
  <2>1. DOMAIN o = {"title", "price", "cond", "shop", "days", "match", "confidence", "active"} BY <1>4
  <2>2. DOMAIN [score |-> score] = {"score"} OBVIOUS
  <2> QED BY <1>5, <2>1, <2>2 DEF Extended
<1>7. r \in Response /\ r.shop = o.shop BY <1>5 DEF Response, OfferRow, MatchTypes
<1> QED BY <1>3, <1>6, <1>7

LEMMA ResponsesType ==
  ASSUME TrustType, NEW ps \in Products, NEW key \in DOMAIN ps
  PROVE  /\ Responses(ps, key) \in SUBSET Response /\ IsFiniteSet(Responses(ps, key))
         /\ \A o \in Responses(ps, key) : ~trust[o.shop].flagged
<1>1. PICK f : f = ps[key].offers OBVIOUS
<1>2. PICK S : S = {s \in Active(ps[key]) : ~trust[s[1]].flagged} OBVIOUS
<1>3. S \in SUBSET (DOMAIN f) BY <1>1, <1>2 DEF Active
<1>4. IsFiniteSet(S) BY <1>1, <1>3, OffersOf, FS_Subset
<1>5. PICK g : g = [s \in S |-> OfferResponse(f[s])] OBVIOUS
<1>6. Responses(ps, key) = {g[s] : s \in S} BY <1>1, <1>2, <1>5 DEF Responses
<1>7. ASSUME NEW s \in S PROVE g[s] \in Response /\ ~trust[g[s].shop].flagged
  <2>1. f[s] \in OfferRow /\ f[s].shop = s[1] BY <1>1, <1>3, OffersOf
  <2>2. OfferResponse(f[s]) \in Response /\ OfferResponse(f[s]).shop = f[s].shop
    BY <2>1, OfferResponseType
  <2> QED BY <1>2, <1>5, <2>1, <2>2
<1>8. IsFiniteSet({g[s] : s \in S}) BY <1>4, ImageFinite
<1> QED BY <1>6, <1>7, <1>8

\* Of the best one is the cheapest.
LEMMA CheapestOfBest ==
  ASSUME NEW S \in SUBSET Response, IsFiniteSet(S), S # {}, NEW v, \A o \in S : v[o] \in Int
  PROVE  \E o \in S : /\ \A p \in S : v[p] =< v[o]
                      /\ \A p \in {q \in S : \A x \in S : v[x] =< v[q]} : o.price =< p.price
<1> DEFINE top == {q \in S : \A x \in S : v[x] =< v[q]}
           prices == {o.price : o \in top}
<1>1. top # {} BY Greatest
<1>2. prices \in SUBSET Nat /\ prices # {} BY <1>1 DEF Response
<1>3. PICK n \in prices : \A m \in prices : n =< m
  <2> HIDE DEF prices
  <2> QED BY <1>2, LeastNumber
<1>4. PICK o \in top : n = o.price BY <1>3
<1> QED BY <1>3, <1>4

\* Of some offers there is a best one.
LEMMA BestIsOne ==
  ASSUME NEW S \in SUBSET Response, IsFiniteSet(S), S # {}, NEW v, \A o \in S : v[o] \in Int
  PROVE  Best(S, v) \in S
<1>1. \E o \in S : /\ \A p \in S : v[p] =< v[o]
                   /\ \A p \in {q \in S : \A x \in S : v[x] =< v[q]} : o.price =< p.price
  BY CheapestOfBest
<1> DEFINE top == {o \in S : \A p \in S : v[p] =< v[o]}
<1>2. \E o \in top : \A p \in top : o.price =< p.price BY <1>1
<1>3. Best(S, v) = CHOOSE o \in top : \A p \in top : o.price =< p.price BY DEF Best
<1>4. Best(S, v) \in top
  <2> HIDE DEF top
  <2> QED BY <1>2, <1>3
<1> QED BY <1>4

LEMMA ProductInt == \A a, b \in Int : a * b \in Int
OBVIOUS

\* What is recommended is among what was compared.
LEMMA PickedAreOffers ==
  ASSUME NEW S \in SUBSET Response, IsFiniteSet(S)
  PROVE  Picked(S) \in SUBSET S
<1>1. CASE S = {}
  <2>1. Picks(S) = [c \in {} |-> {}] BY <1>1 DEF Picks
  <2> QED BY <2>1 DEF Picked
<1>2. CASE S # {}
  <2> DEFINE available == Available(S)
             prices == {o.price : o \in available}
             low == Min(prices)
             high == Max(prices)
             spread == Max({1, high - low})
             cheaper(o) == IF high = low THEN 1 ELSE high - o.price
             days(o) == IF o.days \in {None, 0} THEN 5 ELSE Min({o.days, 10})
             rated == {o \in available : o.score # None}
             dated == {o \in available : o.days # None}
             value == [o \in available |-> 6000 * cheaper(o) + 40 * Trust(o) * spread]
             overall == [o \in available |->
                           4500 * cheaper(o)
                           + (40 * Trust(o) + 15 * (100 - 10 * days(o))
                              + (IF o.confidence >= 900 THEN 500 ELSE 0)) * spread]
             score == [o \in rated |-> o.score]
             speed == [o \in dated |-> -o.days]
             price == [o \in available |-> -o.price]
             among(A, v) == IF A = {} THEN {} ELSE {Best(A, v)}
  <2>1. available \in SUBSET S /\ available # {} /\ IsFiniteSet(available)
    <3>1. available \in SUBSET S /\ available # {} BY <1>2 DEF Available
    <3> QED BY <3>1, FS_Subset
  <2>2. Picks(S) = [CHEAPEST |-> among(available, price), SAFEST |-> among(rated, score),
                    FASTEST |-> among(dated, speed), BEST_VALUE |-> among(available, value),
                    BEST_OVERALL |-> among(available, overall)]
    BY <1>2 DEF Picks
  <2> HIDE DEF available
  <2>3. low \in Int /\ high \in Int
    <3>1. prices \in SUBSET Nat /\ prices # {} BY <2>1 DEF Response
    <3>2. IsFiniteSet(prices)
      <4>1. PICK f : f = [o \in available |-> o.price] OBVIOUS
      <4>2. prices = {f[o] : o \in available} BY <4>1
      <4> HIDE DEF prices
      <4> QED BY <2>1, <4>2, ImageFinite
    <3>3. prices \in SUBSET Int BY <3>1
    <3> HIDE DEF prices
    <3> QED BY <3>1, <3>2, <3>3, MinIsLeast, GreatestNumber
  <2> HIDE DEF low, high
  <2>4. spread \in Int
    <3>1. 1 \in Int /\ high - low \in Int BY <2>3
    <3> QED BY <3>1, MinMaxOfTwo
  <2> HIDE DEF spread
  <2>5. ASSUME NEW o \in available
        PROVE  /\ cheaper(o) \in Int /\ Trust(o) \in Int /\ days(o) \in Int
               /\ o.score # None => o.score \in Int
               /\ o.days # None => o.days \in Int
               /\ o.price \in Int
    <3>1. o.price \in Nat /\ o.score \in {None} \cup Nat /\ o.days \in {None} \cup Nat
      BY <2>1 DEF Response
    <3>2. cheaper(o) \in Int BY <2>3, <3>1
    <3>3. Trust(o) \in Int BY <3>1 DEF Trust
    <3>4. days(o) \in Int
      <4>1. CASE o.days \in {None, 0} BY <4>1
      <4>2. CASE o.days \notin {None, 0}
        <5>1. o.days \in Int /\ 10 \in Int BY <3>1, <4>2
        <5>2. Min({o.days, 10}) \in Int BY <5>1, MinMaxOfTwo
        <5> QED BY <4>2, <5>2
      <4> QED BY <4>1, <4>2
    <3> QED BY <3>1, <3>2, <3>3, <3>4
  <2> HIDE DEF cheaper, days
  <2>6. \A o \in available : value[o] \in Int
    <3> SUFFICES ASSUME NEW o \in available PROVE value[o] \in Int OBVIOUS
    <3>1. PICK c \in Int, t \in Int, s \in Int : c = cheaper(o) /\ t = Trust(o) /\ s = spread
      BY <2>4, <2>5
    <3>2. 6000 * c \in Int /\ 40 * t \in Int OBVIOUS
    <3>3. (40 * t) * s \in Int BY <3>2, ProductInt
    <3>4. 6000 * c + (40 * t) * s \in Int BY <3>2, <3>3
    <3> QED BY <3>1, <3>4
  <2>7. \A o \in available : overall[o] \in Int
    <3> SUFFICES ASSUME NEW o \in available PROVE overall[o] \in Int OBVIOUS
    <3>1. PICK c \in Int, t \in Int, s \in Int, d \in Int :
            c = cheaper(o) /\ t = Trust(o) /\ s = spread /\ d = days(o)
      BY <2>4, <2>5
    <3>2. PICK e \in Int : e = (IF o.confidence >= 900 THEN 500 ELSE 0) OBVIOUS
    <3>3. PICK w \in Int : w = 40 * t + 15 * (100 - 10 * d) + e OBVIOUS
    <3>4. w * s \in Int BY ProductInt
    <3>5. 4500 * c + w * s \in Int BY <3>4
    <3>6. overall[o] = 4500 * c + w * s BY <3>1, <3>2, <3>3
    <3> QED BY <3>5, <3>6
  <2>8. \A o \in rated : score[o] \in Int BY <2>5
  <2>9. \A o \in dated : speed[o] \in Int BY <2>5
  <2>10. \A o \in available : price[o] \in Int BY <2>5
  <2>11. rated \in SUBSET available /\ dated \in SUBSET available OBVIOUS
  <2> HIDE DEF value, overall, score, speed, price, rated, dated
  <2>12. \A A \in SUBSET available : \A v : (\A o \in A : v[o] \in Int) => among(A, v) \in SUBSET S
    <3> SUFFICES ASSUME NEW A \in SUBSET available, NEW v, \A o \in A : v[o] \in Int, A # {}
                 PROVE  Best(A, v) \in S
      OBVIOUS
    <3>1. A \in SUBSET Response /\ IsFiniteSet(A) BY <2>1, FS_Subset
    <3>2. Best(A, v) \in A BY <3>1, BestIsOne
    <3> QED BY <2>1, <3>2
  <2>13. /\ among(available, price) \in SUBSET S /\ among(rated, score) \in SUBSET S
         /\ among(dated, speed) \in SUBSET S /\ among(available, value) \in SUBSET S
         /\ among(available, overall) \in SUBSET S
    <3> HIDE DEF among
    <3> QED BY <2>6, <2>7, <2>8, <2>9, <2>10, <2>11, <2>12
  <2> HIDE DEF among
  <2>14. PICK picks : picks = Picks(S) OBVIOUS
  <2>15. \A c \in DOMAIN picks : picks[c] \in SUBSET S BY <2>2, <2>13, <2>14
  <2> QED BY <2>14, <2>15 DEF Picked
<1> QED BY <1>1, <1>2

\* What a preview shows is compared and has a cheaper one, and its shop is not
\* that of a pick.
LEMMA PreviewsType ==
  ASSUME NEW S \in SUBSET Response, NEW shown \in Previews(S)
  PROVE  \A o \in shown : /\ o \in S /\ \E p \in ExactOf(S) : p.price < o.price
                          /\ \A p \in Picked(ExactOf(S)) : p.shop # o.shop
<1> DEFINE exact == {o \in S : o.match = "exact"}
           guarded == Guarded(S, exact)
           open == Open(exact, guarded)
           first(s) == CHOOSE o \in open : o.shop = s /\ \A p \in open : p.shop = s => o.price =< p.price
           heads == {first(o.shop) : o \in open}
<1>1. exact = ExactOf(S) BY DEF ExactOf
<1>2. shown \in SUBSET heads BY DEF Previews, PreviewsOf
<1>3. open \in SUBSET exact BY DEF Open
<1>4. ASSUME NEW x \in open PROVE first(x.shop) \in open
  <2> DEFINE same == {o \in open : o.shop = x.shop}
             prices == {o.price : o \in same}
  <2>1. same # {} /\ same \in SUBSET open OBVIOUS
  <2>2. prices \in SUBSET Nat /\ prices # {} BY <1>3, <2>1 DEF Response
  <2>3. PICK n \in prices : \A m \in prices : n =< m
    <3> HIDE DEF prices
    <3> QED BY <2>2, LeastNumber
  <2>4. PICK o \in same : n = o.price BY <2>3
  <2>5. \E y \in open : y.shop = x.shop /\ \A p \in open : p.shop = x.shop => y.price =< p.price
    <3> HIDE DEF open
    <3> QED BY <2>3, <2>4
  <2> HIDE DEF open
  <2> QED BY <2>5
<1>5. heads \in SUBSET open
  <2> HIDE DEF open, first
  <2> QED BY <1>4
<1> SUFFICES ASSUME NEW o \in shown
             PROVE  /\ o \in S /\ \E p \in ExactOf(S) : p.price < o.price
                    /\ \A p \in Picked(ExactOf(S)) : p.shop # o.shop
  OBVIOUS
<1>6. o \in open BY <1>2, <1>5
<1>7. o.shop \notin guarded /\ \E p \in exact : p.price < o.price BY <1>6 DEF Open
<1>8. \A p \in Picked(exact) : p.shop \in guarded BY DEF Guarded
<1> HIDE DEF exact, guarded, open
<1>9. o \in S BY <1>1, <1>3, <1>6 DEF ExactOf
<1> QED BY <1>1, <1>7, <1>8, <1>9

LEMMA RecommendedType ==
  ASSUME TrustType, NEW ps \in Products, NEW key \in DOMAIN ps
  PROVE  /\ Recommended(ps, key) \in SUBSET Response
         /\ \A o \in Recommended(ps, key) : ~trust[o.shop].flagged
         /\ ~CompareOffers => Recommended(ps, key) = {}
<1>1. PICK S : S = ExactOf(Responses(ps, key)) OBVIOUS
<1>2. S \in SUBSET Responses(ps, key) BY <1>1 DEF ExactOf
<1>3. S \in SUBSET Response /\ IsFiniteSet(S) /\ \A o \in S : ~trust[o.shop].flagged
  BY <1>2, ResponsesType, FS_Subset
<1>4. Picked(S) \in SUBSET S BY <1>3, PickedAreOffers
<1> QED BY <1>1, <1>3, <1>4 DEF Recommended

-----------------------------------------------------------------------------
(* The shopping agent                                                      *)

\* While the agent searches: what it compared is of shops that are not flagged.
AgentStages ==
    {st \in [ps : Products, cards : Seq(CardRow), offers : SUBSET Response] :
        /\ \A o \in st.offers : ~trust[o.shop].flagged
        /\ ~CompareOffers => st.offers = {}}

ComparedAll(ps, top, later) == FoldLeft(LAMBDA q, c : ForComparison(q, c.id, later), ps, top)

LEMMA ComparedAllType ==
  ASSUME NEW ps \in Products, NEW top \in Seq(CardsOf(ps)), NEW later \in Seq(Listing)
  PROVE  ComparedAll(ps, top, later) \in Products /\ DOMAIN ComparedAll(ps, top, later) = DOMAIN ps
<1> DEFINE G == {q \in Products : DOMAIN q = DOMAIN ps}
           Eq(F) == F = [T \in SUBSET (DOMAIN top) |->
                           IF T = {} THEN ps
                           ELSE LET x == Max(T) IN ForComparison(F[T \ {x}], top[x].id, later)]
<1>1. PICK N \in Nat : N = Len(top) OBVIOUS
<1>2. PICK E : E = CardsOf(ps) OBVIOUS
<1>3. DOMAIN top = 1..N /\ top \in [1..N -> E] BY <1>1, <1>2
<1>4. ps \in G OBVIOUS
<1>5. \A q \in G, c \in E : ForComparison(q, c.id, later) \in G
  <2> SUFFICES ASSUME NEW q \in G, NEW c \in E PROVE ForComparison(q, c.id, later) \in G
    OBVIOUS
  <2>1. PICK k \in DOMAIN q : k = c.id BY <1>2 DEF CardsOf
  <2>2. ForComparison(q, k, later) \in Products /\ DOMAIN ForComparison(q, k, later) = DOMAIN q
    BY ForComparisonType
  <2> QED BY <2>1, <2>2
<1> HIDE DEF G
<1>6. PICK step : step = [x \in G \X E |-> ForComparison(x[1], x[2].id, later)] OBVIOUS
<1>7. Folds(G, E, N, top, step) BY <1>1, <1>3, <1>5, <1>6 DEF Folds
<1>8. PICK F : FoldOf(F, G, N, top, step, ps) BY <1>4, <1>7, FoldExists
<1>9. Eq(F)
  <2>1. ASSUME NEW T \in SUBSET (1..N), T # {}
        PROVE  F[T] = ForComparison(F[T \ {Max(T)}], top[Max(T)].id, later)
    <3>1. Max(T) \in 1..N /\ T \ {Max(T)} \in SUBSET (1..N) BY <2>1, LastPlace
    <3>2. F[T] = step[<<F[T \ {Max(T)}], top[Max(T)]>>] BY <1>8, <2>1 DEF FoldOf, Folded
    <3>3. F[T \ {Max(T)}] \in G BY <1>8, <3>1 DEF FoldOf
    <3>4. top[Max(T)] \in E BY <1>3, <3>1
    <3> QED BY <1>6, <3>2, <3>3, <3>4
  <2>2. F[{}] = ps BY <1>8 DEF FoldOf, Folded
  <2>3. F \in [SUBSET (1..N) -> G] BY <1>8 DEF FoldOf
  <2> QED BY <1>3, <2>1, <2>2, <2>3
<1>10. \E H : Eq(H) /\ H[DOMAIN top] = ComparedAll(ps, top, later)
  BY <1>9 DEF ComparedAll, FoldLeft, MapThenFoldSet
<1>11. PICK H : Eq(H) /\ H[DOMAIN top] = ComparedAll(ps, top, later) BY <1>10
<1>12. \A T \in SUBSET (1..N) : H[T] \in G
  <2>1. H[{}] \in G BY <1>4, <1>11
  <2>2. ASSUME NEW T \in SUBSET (1..N), T # {}, H[T \ {Max(T)}] \in G PROVE H[T] \in G
    <3>1. Max(T) \in 1..N BY <2>2, LastPlace
    <3>2. H[T] = ForComparison(H[T \ {Max(T)}], top[Max(T)].id, later) BY <1>3, <1>11, <2>2
    <3>3. top[Max(T)] \in E BY <1>3, <3>1
    <3> QED BY <1>5, <2>2, <3>2, <3>3
  <2> HIDE DEF Eq
  <2> QED BY <2>1, <2>2, FoldStays
<1>13. H[1..N] \in G BY <1>12
<1> HIDE DEF Eq
<1> QED BY <1>3, <1>11, <1>13 DEF G

LEMMA SearchedType ==
  ASSUME TrustType, NEW st \in AgentStages, NEW found, FoundBy(found, st.ps), NEW most \in Nat,
         NEW later \in Seq(Listing)
  PROVE  Searched(st, most, found, later) \in AgentStages
<1>1. PICK ps \in Products : ps = found.ps /\ found.cards \in Seq(CardsOf(ps)) BY DEF FoundBy
<1>2. PICK cs \in Seq(CardsOf(ps)) : cs = found.cards BY <1>1
<1>3. PICK top : top = SubSeq(cs, 1, Min({most, Len(cs)})) OBVIOUS
<1>4. top \in Seq(CardsOf(ps)) BY <1>3, FirstOnes
<1>5. PICK q : q = ComparedAll(ps, top, later) OBVIOUS
<1>6. q \in Products /\ DOMAIN q = DOMAIN ps BY <1>4, <1>5, ComparedAllType
<1>7. PICK new : new = UNION {Recommended(q, top[n].id) : n \in DOMAIN top} OBVIOUS
<1>8. new \in SUBSET Response /\ (\A o \in new : ~trust[o.shop].flagged) /\ (~CompareOffers => new = {})
  <2>1. ASSUME NEW n \in DOMAIN top
        PROVE  /\ Recommended(q, top[n].id) \in SUBSET Response
               /\ \A o \in Recommended(q, top[n].id) : ~trust[o.shop].flagged
               /\ ~CompareOffers => Recommended(q, top[n].id) = {}
    <3>1. top[n] \in CardsOf(ps) BY <1>4, SeqPlaces
    <3>2. PICK k \in DOMAIN q : k = top[n].id BY <1>6, <3>1 DEF CardsOf
    <3> QED BY <1>6, <3>2, RecommendedType
  <2> QED BY <1>7, <2>1
<1>9. /\ st.cards \in Seq(CardRow) /\ st.offers \in SUBSET Response
      /\ \A o \in st.offers : ~trust[o.shop].flagged
      /\ ~CompareOffers => st.offers = {}
  BY DEF AgentStages
<1>10. PICK cards : cards = st.cards \o top OBVIOUS
<1>11. cards \in Seq(CardRow)
  <2>1. CardsOf(ps) \in SUBSET CardRow BY DEF CardsOf
  <2>2. top \in Seq(CardRow) BY <1>4, <2>1
  <2> QED BY <1>9, <1>10, <2>2, ConcatProperties
<1>12. PICK r : r = [ps |-> q, cards |-> cards, offers |-> st.offers \cup new] OBVIOUS
<1>13. r \in AgentStages BY <1>6, <1>8, <1>9, <1>11, <1>12 DEF AgentStages
<1>14. Searched(st, most, found, later) = WithTop(st, found, top, later)
  BY <1>2, <1>3 DEF Searched
<1>15. WithTop(st, found, top, later) = r
  BY <1>1, <1>5, <1>7, <1>10, <1>12 DEF WithTop, ComparedAll
<1> QED BY <1>13, <1>14, <1>15

LEMMA AgentFoundType ==
  ASSUME TrustType, products \in Products, NEW qs \in Seq(DOMAIN Title), NEW most \in Nat,
         NEW answers \in [DOMAIN qs -> Later], NEW later \in Seq(Listing)
  PROVE  AgentFound(qs, most, answers, later) \in AgentStages
<1> DEFINE Step(st, n) == Searched(st, most, TextResults(st.ps, qs[n], answers[n]), later)
           at == Places(qs)
           start == [ps |-> products, cards |-> <<>>, offers |-> {}]
           Eq(F) == F = [T \in SUBSET (DOMAIN at) |->
                           IF T = {} THEN start
                           ELSE LET x == Max(T) IN
                                Searched(F[T \ {x}], most,
                                         TextResults(F[T \ {x}].ps, qs[at[x]], answers[at[x]]), later)]
<1>1. PICK N \in Nat : N = Len(qs) /\ DOMAIN qs = 1..N OBVIOUS
<1>2. DOMAIN at = 1..N /\ \A i \in 1..N : at[i] = i BY <1>1 DEF Places
<1>3. PICK own : own = [i \in 1..N |-> i] OBVIOUS
<1>4. PICK G : G = AgentStages OBVIOUS
<1>5. PICK E : E = 1..N OBVIOUS
<1>6. start \in G
  <2>1. start.cards \in Seq(CardRow) OBVIOUS
  <2> QED BY <1>4, <2>1 DEF AgentStages
<1>7. \A st \in G, n \in E : Step(st, n) \in G
  <2> SUFFICES ASSUME NEW st \in G, NEW n \in E PROVE Step(st, n) \in G OBVIOUS
  <2>1. PICK s \in AgentStages : s = st BY <1>4
  <2>2. PICK ps \in Products : ps = s.ps BY DEF AgentStages
  <2>3. PICK q \in DOMAIN Title : q = qs[n] BY <1>1, <1>5
  <2>4. PICK a \in Seq(Listing) : a = answers[n] BY <1>1, <1>5, LaterSeq
  <2>5. PICK found : found = TextResults(ps, q, a) OBVIOUS
  <2>6. FoundBy(found, s.ps) BY <2>2, <2>5, TextResultsType
  <2>7. Searched(s, most, found, later) \in AgentStages BY <2>6, SearchedType
  <2> QED BY <1>4, <2>1, <2>2, <2>3, <2>4, <2>5, <2>7
<1> HIDE DEF start
<1>8. PICK step : step = [x \in G \X E |-> Step(x[1], x[2])] OBVIOUS
<1>9. Folds(G, E, N, own, step)
  <2>1. own \in [1..N -> E] BY <1>3, <1>5
  <2> HIDE DEF Step
  <2> QED BY <1>1, <1>7, <1>8, <2>1 DEF Folds
<1>10. PICK F : FoldOf(F, G, N, own, step, start) BY <1>6, <1>9, FoldExists
<1> HIDE DEF at
<1>11. Eq(F)
  <2>1. ASSUME NEW T \in SUBSET (1..N), T # {}
        PROVE  F[T] = Searched(F[T \ {Max(T)}], most,
                               TextResults(F[T \ {Max(T)}].ps, qs[at[Max(T)]], answers[at[Max(T)]]), later)
    <3>1. Max(T) \in 1..N /\ T \ {Max(T)} \in SUBSET (1..N) BY <2>1, LastPlace
    <3>2. F[T] = step[<<F[T \ {Max(T)}], own[Max(T)]>>] BY <1>10, <2>1 DEF FoldOf, Folded
    <3>3. F[T \ {Max(T)}] \in G BY <1>10, <3>1 DEF FoldOf
    <3>4. own[Max(T)] = Max(T) /\ at[Max(T)] = Max(T) /\ Max(T) \in E BY <1>2, <1>3, <1>5, <3>1
    <3>5. F[T] = Step(F[T \ {Max(T)}], Max(T)) BY <1>8, <3>2, <3>3, <3>4
    <3> QED BY <3>4, <3>5
  <2>2. F[{}] = start BY <1>10 DEF FoldOf, Folded
  <2>3. F \in [SUBSET (1..N) -> G] BY <1>10 DEF FoldOf
  <2> QED BY <1>2, <2>1, <2>2, <2>3
<1>12. \E H : Eq(H) /\ H[DOMAIN at] = AgentFound(qs, most, answers, later)
  BY <1>11 DEF AgentFound, FoldLeft, MapThenFoldSet, at, start
<1>13. PICK H : Eq(H) /\ H[DOMAIN at] = AgentFound(qs, most, answers, later) BY <1>12
<1>14. \A T \in SUBSET (1..N) : H[T] \in G
  <2>1. H[{}] \in G BY <1>6, <1>13
  <2>2. ASSUME NEW T \in SUBSET (1..N), T # {}, H[T \ {Max(T)}] \in G PROVE H[T] \in G
    <3>1. Max(T) \in E /\ at[Max(T)] = Max(T)
      <4>1. Max(T) \in 1..N BY <2>2, LastPlace
      <4> QED BY <1>2, <1>5, <4>1
    <3>2. H[T] = Step(H[T \ {Max(T)}], Max(T)) BY <1>2, <1>13, <2>2, <3>1
    <3> HIDE DEF Step
    <3> QED BY <1>7, <2>2, <3>1, <3>2
  <2> HIDE DEF Eq
  <2> QED BY <2>1, <2>2, FoldStays
<1>15. H[1..N] \in G BY <1>14
<1> HIDE DEF Eq
<1> QED BY <1>2, <1>4, <1>13, <1>15

-----------------------------------------------------------------------------
(* What a reply shows                                                      *)

ReplyOK == PricesWithheld /\ PreviewHidesPicks /\ FlaggedNotCompared /\ CardPriceIsOnOffer /\ EachCardOnce

\* What a step leaves: what is stored is of its type, the reply is right, and a
\* query or a photo mixed nothing.
Sound == TypeOK' /\ ReplyOK' /\ (reply'.surface \in {"text", "photo"} => Unmixed(products, products'))

LEMMA RepliesType ==
  ASSUME TypeOK, NEW ps \in Products, NEW r, Replies(ps, r)
  PROVE  /\ TypeOK' /\ products' = ps /\ trust' = trust /\ plan' = plan
         /\ TrustType /\ products \in Products /\ plan \in {"free", "pro"}
         /\ reply' = Extended(r, Nothing)
<1>1. products' = ps /\ trust' = trust /\ plan' = plan /\ reply' = Extended(r, Nothing)
  BY DEF Replies
<1> QED BY <1>1 DEF TypeOK, TrustType

\* A reply of cards.
LEMMA CardsReply ==
  ASSUME NEW cs \in Seq(CardRow), IdsDiffer(cs), plan' = plan,
         reply'.surface \in {"text", "stored", "link", "photo"},
         reply'.cards = IF SeePrices THEN cs ELSE Withheld(cs),
         reply'.offers = {}, reply'.shops = {}, SeePrices \/ reply'.figures = {},
         reply'.surface = "text" => \A n \in DOMAIN cs : OnOffer(products', cs[n]),
         reply'.surface \in {"link", "photo"} =>
             \A n \in DOMAIN cs : cs[n].match # "none" => OnOffer(products', cs[n])
  PROVE  ReplyOK'
<1>1. PICK N \in Nat : DOMAIN cs = 1..N /\ \A n \in 1..N : cs[n] \in CardRow BY SeqPlaces
<1>2. PICK ws : ws = [i \in 1..N |-> [cs[i] EXCEPT !.price = None, !.shops = {}]] OBVIOUS
<1>3. Withheld(cs) = ws BY <1>1, <1>2 DEF Withheld
<1>4. \A n \in 1..N : ws[n].price = None /\ ws[n].shops = {} /\ ws[n].id = cs[n].id
  BY <1>1, <1>2 DEF CardRow
<1>5. DOMAIN ws = 1..N BY <1>2
<1>6. PricesWithheld'
  <2>1. CASE SeePrices BY <2>1 DEF PricesWithheld, SeePrices
  <2>2. CASE ~SeePrices BY <1>3, <1>4, <1>5, <2>2 DEF PricesWithheld
  <2> QED BY <2>1, <2>2
<1>7. PreviewHidesPicks' BY DEF PreviewHidesPicks
<1>8. FlaggedNotCompared' BY DEF FlaggedNotCompared
<1>9. CardPriceIsOnOffer'
  <2>1. CASE SeePrices
    <3>1. reply'.cards = cs BY <2>1
    <3> QED BY <1>1, <3>1 DEF CardPriceIsOnOffer, OnOffer
  <2>2. CASE ~SeePrices
    <3>1. reply'.cards = ws BY <1>3, <2>2
    <3> QED BY <1>4, <1>5, <3>1 DEF CardPriceIsOnOffer
  <2> QED BY <2>1, <2>2
<1>10. EachCardOnce'
  <2>1. CASE SeePrices BY <2>1 DEF EachCardOnce, IdsDiffer
  <2>2. CASE ~SeePrices
    <3>1. reply'.cards = ws BY <1>3, <2>2
    <3> QED BY <1>1, <1>4, <1>5, <3>1 DEF EachCardOnce, IdsDiffer
  <2> QED BY <2>1, <2>2
<1> QED BY <1>6, <1>7, <1>8, <1>9, <1>10 DEF ReplyOK

\* A reply without cards.
LEMMA PageReply ==
  ASSUME reply'.cards = <<>>,
         reply'.surface \notin {"text", "link", "photo"},
         \A o \in reply'.offers : ~trust'[o.shop].flagged,
         reply'.surface \in {"preview", "saved"} \/ SeePrices \/ (reply'.offers = {} /\ reply'.figures = {}),
         reply'.surface = "trust" \/ reply'.shops = {},
         plan' = plan, PreviewHidesPicks'
  PROVE  ReplyOK'
<1>1. DOMAIN reply'.cards = {} OBVIOUS
<1>2. PricesWithheld' BY <1>1 DEF PricesWithheld, SeePrices
<1>3. FlaggedNotCompared' BY DEF FlaggedNotCompared
<1>4. CardPriceIsOnOffer' BY DEF CardPriceIsOnOffer
<1>5. EachCardOnce' BY <1>1 DEF EachCardOnce
<1> QED BY <1>2, <1>3, <1>4, <1>5 DEF ReplyOK

\* Nothing is said.
LEMMA NothingShown ==
  ASSUME reply' = Nothing
  PROVE  ReplyOK' /\ reply'.surface = "none"
<1>1. /\ reply'.surface = "none" /\ reply'.cards = <<>> /\ reply'.offers = {} /\ reply'.figures = {}
      /\ reply'.shops = {}
  BY DEF Nothing
<1>2. DOMAIN reply'.cards = {} BY <1>1
<1> QED BY <1>1, <1>2 DEF ReplyOK, PricesWithheld, PreviewHidesPicks, FlaggedNotCompared,
                          CardPriceIsOnOffer, EachCardOnce

LEMMA TextSearchSound ==
  ASSUME TypeOK, NEW query \in Query, NEW answer \in Later, TextSearch(query, answer)
  PROVE  Sound
<1>1. query \in DOMAIN Title /\ answer \in Seq(Listing) BY LaterSeq, QuestionAssumption
<1>2. PICK found : found = TextResults(products, query, answer) OBVIOUS
<1>3. PICK figures : figures = IfSeen(Figures(found.ps, query)) OBVIOUS
<1>4. PICK cards : cards = (IF SeePrices THEN found.cards ELSE Withheld(found.cards)) OBVIOUS
<1>5. Replies(found.ps, [surface |-> found.surface, asked |-> query, cards |-> cards, figures |-> figures])
  BY <1>2, <1>3, <1>4 DEF TextSearch
<1>6. products \in Products BY DEF TypeOK
<1>7. FoundBy(found, products)
  <2>1. PICK ps \in Products : ps = products BY <1>6
  <2>2. FoundBy(found, ps) BY <1>1, <1>2, <2>1, TextResultsType
  <2> QED BY <2>1, <2>2
<1>8. /\ found.ps \in Products /\ Unmixed(products, found.ps)
      /\ found.cards \in Seq(CardsOf(found.ps)) /\ IdsDiffer(found.cards)
      /\ found.surface \in {"text", "stored"}
      /\ found.surface = "text" => found.cards \in Seq(HealedCards(found.ps))
  BY <1>7 DEF FoundBy
<1>9. /\ TypeOK' /\ products' = found.ps /\ plan' = plan
      /\ reply' = Extended([surface |-> found.surface, asked |-> query, cards |-> cards, figures |-> figures],
                           Nothing)
  BY <1>5, <1>8, RepliesType
<1>10. /\ reply'.surface = found.surface /\ reply'.cards = cards /\ reply'.figures = figures
       /\ reply'.offers = {} /\ reply'.shops = {}
  BY <1>9 DEF Extended, Nothing
<1>11. SeePrices \/ figures = {} BY <1>3 DEF IfSeen
<1>12. found.cards \in Seq(CardRow)
  <2>1. CardsOf(found.ps) \in SUBSET CardRow BY DEF CardsOf
  <2> QED BY <1>8, <2>1
<1>13. found.surface = "text" => \A n \in DOMAIN found.cards : OnOffer(found.ps, found.cards[n])
  <2> SUFFICES ASSUME found.surface = "text", NEW n \in DOMAIN found.cards
               PROVE  OnOffer(found.ps, found.cards[n])
    OBVIOUS
  <2>1. PICK cs \in Seq(HealedCards(found.ps)) : cs = found.cards BY <1>8
  <2>2. cs[n] \in HealedCards(found.ps) BY <2>1, SeqPlaces
  <2> QED BY <2>1, <2>2 DEF HealedCards
<1>14. ReplyOK' BY <1>4, <1>8, <1>9, <1>10, <1>11, <1>12, <1>13, CardsReply
<1> QED BY <1>8, <1>9, <1>14 DEF Sound


\* A reply of matched cards, to a link or a photo.
LEMMA MatchedReply ==
  ASSUME TypeOK, NEW ps \in Products, NEW surface \in {"link", "photo"}, NEW title, NEW cards,
         cards \in Seq(OwnOrHealed(ps)), IdsDiffer(cards), surface = "photo" => Unmixed(products, ps),
         ShownTo(ps, surface, title, cards)
  PROVE  Sound
<1>1. PICK shown : shown = (IF SeePrices THEN cards ELSE Withheld(cards)) OBVIOUS
<1>2. Replies(ps, [surface |-> surface, asked |-> title, cards |-> shown]) BY <1>1 DEF ShownTo
<1>3. /\ TypeOK' /\ products' = ps /\ plan' = plan
      /\ reply' = Extended([surface |-> surface, asked |-> title, cards |-> shown], Nothing)
  BY <1>2, RepliesType
<1>4. /\ reply'.surface = surface /\ reply'.cards = shown /\ reply'.figures = {} /\ reply'.offers = {}
      /\ reply'.shops = {}
  BY <1>3 DEF Extended, Nothing
<1>5. cards \in Seq(CardRow)
  <2>1. OwnOrHealed(ps) \in SUBSET CardRow BY DEF OwnOrHealed, CardsOf
  <2> QED BY <2>1
<1>6. \A n \in DOMAIN cards : cards[n].match # "none" => OnOffer(ps, cards[n])
  <2>1. \A n \in DOMAIN cards : cards[n] \in OwnOrHealed(ps) BY SeqPlaces
  <2> QED BY <2>1 DEF OwnOrHealed
<1>7. ReplyOK' BY <1>1, <1>3, <1>4, <1>5, <1>6, CardsReply
<1> QED BY <1>3, <1>4, <1>7 DEF Sound

LEMMA HealedAreMatched ==
  ASSUME NEW ps, NEW cards \in Seq(HealedCards(ps))
  PROVE  cards \in Seq(OwnOrHealed(ps))
<1>1. HealedCards(ps) \in SUBSET OwnOrHealed(ps) BY DEF HealedCards, OwnOrHealed
<1> QED BY <1>1

LEMMA LinkedIs ==
  ASSUME NEW link \in Linked
  PROVE  link.title \in DOMAIN Title /\ link.ids \in Ids /\ link.offers \in Seq(Listing)
<1>1. link \in [title : DOMAIN Title, ids : Ids, offers : Seq({l \in Listing : l.shop # None})]
  BY AnswerAssumption
<1>2. {l \in Listing : l.shop # None} \in SUBSET Listing OBVIOUS
<1> QED BY <1>1, <1>2

LEMMA LinkGroupsType ==
  ASSUME NEW link \in Linked, NEW ids, Candidate(link.title, ids) \in Refs, NEW listings \in Seq(Listing)
  PROVE  LinkGroups(link, ids, listings) \in Seq(Group)
<1>1. PICK found : found = Filtered(listings, TitleAttributes[link.title]) OBVIOUS
<1>2. found \in Seq(SoldListing) BY <1>1, FilteredType
<1>3. PICK gs \in Seq(Group) : gs = Groups(found) BY <1>2, GroupsType
<1>4. PICK ref \in Refs : ref = Candidate(link.title, ids) OBVIOUS
<1>5. PICK as \in Seq(Group) : as = Against(gs, ref) BY <1>3, <1>4, AgainstType, GroupsComparable
<1>6. Ranked(as) \in Seq(Group) BY <1>5, RankedType, GroupsComparable
<1> QED BY <1>1, <1>3, <1>4, <1>5, <1>6 DEF LinkGroups

LEMMA BothListings == \A a, b \in Seq(Listing) : a \o b \in Seq(Listing)
<1> SUFFICES ASSUME NEW a \in Seq(Listing), NEW b \in Seq(Listing) PROVE a \o b \in Seq(Listing)
  OBVIOUS
<1> QED BY ONLY a \in Seq(Listing), b \in Seq(Listing), ConcatProperties

LEMMA LinkUnreachedSound ==
  ASSUME TypeOK, NEW link \in Linked, NEW answer \in Answer, LinkUnreached(link, answer)
  PROVE  Sound
<1>1. answer \in Seq(Listing) BY AnswerAssumption
<1>2. link.title \in DOMAIN Title BY LinkedIs
<1>3. Candidate(link.title, <<>>) \in Refs BY <1>2, NoIdsRef
<1>4. PICK gs : gs = LinkGroups(link, <<>>, answer) OBVIOUS
<1>5. gs \in Seq(Group) BY <1>1, <1>3, <1>4, LinkGroupsType
<1>6. PICK ps \in Products : ps = products BY DEF TypeOK
<1>7. PICK st : st = Persisted(ps, gs, None) OBVIOUS
<1>8. StoredBy(st, ps, None) BY <1>5, <1>7, PersistedType
<1>9. PICK asked : asked = TitleAttributes[link.title] OBVIOUS
<1>10. PICK cards : cards = Shown(Cards(st), asked) OBVIOUS
<1>11. ShownTo(st.healed, "link", link.title, cards)
  BY <1>4, <1>6, <1>7, <1>9, <1>10 DEF LinkUnreached
<1>12. cards \in Seq(HealedCards(st.healed)) /\ IdsDiffer(cards) BY <1>8, <1>10, MatchedCards
<1>13. cards \in Seq(OwnOrHealed(st.healed)) BY <1>12, HealedAreMatched
<1>14. st.healed \in Products BY <1>8 DEF StoredBy
<1> QED BY <1>11, <1>12, <1>13, <1>14, MatchedReply

LEMMA LinkReachedSound ==
  ASSUME TypeOK, NEW link \in Linked, NEW answer \in Answer, LinkReached(link, answer)
  PROVE  Sound
<1>1. answer \in Seq(Listing) BY AnswerAssumption
<1>2. link.title \in DOMAIN Title /\ link.ids \in Ids /\ link.offers \in Seq(Listing) BY LinkedIs
<1>3. PICK t \in DOMAIN Title : t = link.title BY <1>2
<1>4. PICK ids \in Ids : ids = link.ids BY <1>2
<1>5. PICK listings \in Seq(Listing) : listings = link.offers \o answer BY <1>1, <1>2, BothListings
<1>6. PICK ps \in Products : ps = products BY DEF TypeOK
<1>7. PICK own : own = KeyFor(ps, Identified(ps), TitleAttributes[t], ids, "new") OBVIOUS
<1>8. own \in Key /\ own[2] = "new"
  <2>1. PICK known \in SUBSET Triples : known = Identified(ps) /\ KnownIn(known, ps) BY IdentifiedType
  <2>2. PICK cond \in Conditions : cond = "new" BY DEF Conditions
  <2>3. own = KeyFor(ps, known, TitleAttributes[t], ids, cond) BY <1>7, <2>1, <2>2
  <2> QED BY <2>1, <2>2, <2>3, KeyForType
<1>9. PICK opened : opened = Opened(own, link, link.ids) OBVIOUS
<1>10. opened \in Products /\ own \in DOMAIN opened
  BY <1>6, <1>8, <1>9, OpenedType
<1>11. PICK gs : gs = LinkGroups(link, link.ids, listings) OBVIOUS
<1>12. gs \in Seq(Group)
  <2>1. Candidate(link.title, link.ids) \in Refs BY <1>2 DEF Candidate, Refs
  <2> QED BY <1>11, <2>1, LinkGroupsType
<1>13. PICK st : st = Persisted(opened, gs, own) OBVIOUS
<1>14. StoredBy(st, opened, own) BY <1>10, <1>12, <1>13, PersistedType
<1>15. PICK asked : asked = TitleAttributes[link.title] OBVIOUS
<1>16. PICK all : all = (IF \E n \in DOMAIN st.seen : st.seen[n].key = own THEN <<>>
                         ELSE <<Card(st.healed, own, "none")>>) \o Cards(st)
  OBVIOUS
<1>17. PICK cards : cards = Shown(all, asked) OBVIOUS
<1>18. ShownTo(st.healed, "link", link.title, cards)
  <2>1. own = KeyFor(products, Identified(products), TitleAttributes[link.title], link.ids, "new")
    BY <1>3, <1>4, <1>6, <1>7
  <2>2. st = Persisted(Opened(own, link, link.ids), LinkGroups(link, link.ids, link.offers \o answer), own)
    BY <1>5, <1>9, <1>11, <1>13
  <2>3. ShownTo(st.healed, "link", link.title,
                Shown((IF \E n \in DOMAIN st.seen : st.seen[n].key = own THEN <<>>
                       ELSE <<Card(st.healed, own, "none")>>) \o Cards(st), TitleAttributes[link.title]))
    BY <2>1, <2>2 DEF LinkReached
  <2> QED BY <1>15, <1>16, <1>17, <2>3
<1>19. st.healed \in Products /\ own \in DOMAIN st.healed BY <1>10, <1>14 DEF StoredBy
<1>20. cards \in Seq(OwnOrHealed(st.healed)) /\ IdsDiffer(cards)
  BY <1>14, <1>16, <1>17, <1>19, LinkCards
<1> QED BY <1>18, <1>19, <1>20, MatchedReply

LEMMA PhotoSearchSound ==
  ASSUME TypeOK, NEW seen \in Answer, NEW answer \in Later, PhotoSearch(seen, answer)
  PROVE  Sound
<1>1. seen \in Seq(Listing) /\ answer \in Seq(Listing) BY AnswerAssumption, LaterSeq
<1>2. PICK listings \in Seq(Listing) : listings = seen \o answer BY <1>1, BothListings
<1>3. seen[1] \in Listing
  <2>1. seen # <<>> BY DEF PhotoSearch
  <2> QED BY <1>1, <2>1
<1>4. PICK asked : asked = TitleAttributes[seen[1].title] OBVIOUS
<1>5. PICK found : found = Filtered(listings, asked) OBVIOUS
<1>6. found \in Seq(SoldListing) BY <1>5, FilteredType
<1>7. PICK gs \in Seq(Group) : gs = Groups(found) BY <1>6, GroupsType
<1>8. PICK ref \in Refs : ref = CandidateOf(seen[1]) BY <1>3, CandidateOfType
<1>9. PICK as \in Seq(Group) : as = Against(gs, ref) BY AgainstType, GroupsComparable
<1>10. PICK alike \in Seq(Group) : alike = LookAlike(as) BY LookAlikeType
<1>11. PICK rs \in Seq(Group) : rs = Ranked(alike) BY RankedType, GroupsComparable
<1>12. PICK ps \in Products : ps = products BY DEF TypeOK
<1>13. PICK st : st = Persisted(ps, rs, None) OBVIOUS
<1>14. StoredBy(st, ps, None) BY <1>13, PersistedType
<1>15. PICK cards : cards = Shown(Cards(st), asked) OBVIOUS
<1>16. ShownTo(st.healed, "photo", seen[1].title, cards)
  BY <1>2, <1>4, <1>5, <1>7, <1>8, <1>9, <1>10, <1>11, <1>12, <1>13, <1>15 DEF PhotoSearch
<1>17. cards \in Seq(HealedCards(st.healed)) /\ IdsDiffer(cards) BY <1>14, <1>15, MatchedCards
<1>18. cards \in Seq(OwnOrHealed(st.healed)) BY <1>17, HealedAreMatched
<1>19. st.healed \in Products /\ Unmixed(products, st.healed) BY <1>12, <1>14 DEF StoredBy
<1> QED BY <1>16, <1>17, <1>18, <1>19, MatchedReply

-----------------------------------------------------------------------------
(* Pages                                                                   *)

\* A step that shows no cards.
LEMMA PageSound ==
  ASSUME TypeOK, NEW ps \in Products, NEW r, Replies(ps, r),
         Extended(r, Nothing).cards = <<>>, Extended(r, Nothing).surface \notin {"text", "link", "photo"},
         \A o \in Extended(r, Nothing).offers : ~trust[o.shop].flagged,
         \/ Extended(r, Nothing).surface \in {"preview", "saved"}
         \/ SeePrices
         \/ Extended(r, Nothing).offers = {} /\ Extended(r, Nothing).figures = {},
         Extended(r, Nothing).surface = "trust" \/ Extended(r, Nothing).shops = {},
         PreviewHidesPicks'
  PROVE  Sound
<1>1. TypeOK' /\ products' = ps /\ trust' = trust /\ plan' = plan /\ reply' = Extended(r, Nothing)
  BY RepliesType
<1>2. ReplyOK' BY <1>1, PageReply
<1> QED BY <1>1, <1>2 DEF Sound

\* One that shows only figures.
LEMMA ReadPageSound ==
  ASSUME TypeOK, NEW surface \in {"product", "history", "family", "catalogue", "saved"}, NEW asked, NEW figures,
         surface = "saved" \/ SeePrices \/ figures = {},
         ReadPage(surface, asked, figures)
  PROVE  Sound
<1>1. PICK r : r = [surface |-> surface, asked |-> asked, figures |-> figures] OBVIOUS
<1>2. Replies(products, r) BY <1>1 DEF ReadPage
<1>3. PICK shown : shown = Extended(r, Nothing) OBVIOUS
<1>4. /\ shown.surface = surface /\ shown.cards = <<>> /\ shown.offers = {} /\ shown.figures = figures
      /\ shown.shops = {}
  BY <1>1, <1>3 DEF Extended, Nothing
<1>5. products \in Products /\ reply' = shown BY <1>2, <1>3 DEF TypeOK, Replies
<1>6. PreviewHidesPicks' BY <1>4, <1>5 DEF PreviewHidesPicks
<1>7. surface \notin {"text", "link", "photo"} OBVIOUS
<1> QED BY <1>2, <1>3, <1>4, <1>5, <1>6, <1>7, PageSound

LEMMA IfSeenIs == \A figures : SeePrices \/ IfSeen(figures) = {}
BY DEF IfSeen

LEMMA PagesSound ==
  ASSUME TypeOK
  PROVE  /\ \A key \in DOMAIN products : ProductPage(key) \/ HistoryPage(key) \/ SavedPage(key) => Sound
         /\ \A line \in DOMAIN Curated : FamilyPage(line) => Sound
         /\ CataloguePage => Sound
<1>1. ASSUME NEW key \in DOMAIN products, ProductPage(key) PROVE Sound
  BY <1>1, IfSeenIs, ReadPageSound DEF ProductPage
<1>2. ASSUME NEW key \in DOMAIN products, HistoryPage(key) PROVE Sound
  <2>1. PICK figures : figures = (IF CompareOffers THEN {[of |-> key, price |-> h[2]] : h \in products[key].history}
                                  ELSE {})
    OBVIOUS
  <2>2. SeePrices \/ figures = {} BY <2>1 DEF CompareOffers, SeePrices
  <2>3. ReadPage("history", key, figures) BY <1>2, <2>1 DEF HistoryPage
  <2> QED BY <2>2, <2>3, ReadPageSound
<1>3. ASSUME NEW key \in DOMAIN products, SavedPage(key) PROVE Sound
  BY <1>3, ReadPageSound DEF SavedPage
<1>4. ASSUME NEW line \in DOMAIN Curated, FamilyPage(line) PROVE Sound
  BY <1>4, IfSeenIs, ReadPageSound DEF FamilyPage
<1>5. ASSUME CataloguePage PROVE Sound
  BY <1>5, IfSeenIs, ReadPageSound DEF CataloguePage
<1> QED BY <1>1, <1>2, <1>3, <1>4, <1>5

LEMMA TrustPageSound ==
  ASSUME TypeOK, NEW key \in DOMAIN products, TrustPage(key)
  PROVE  Sound
<1>1. PICK named : named = {s[1] : s \in {s \in Active(products[key]) : trust[s[1]].score # None}} OBVIOUS
<1>2. PICK r : r = [surface |-> "trust", asked |-> key, shops |-> named] OBVIOUS
<1>3. Replies(products, r) BY <1>1, <1>2 DEF TrustPage
<1>4. PICK shown : shown = Extended(r, Nothing) OBVIOUS
<1>5. shown.surface = "trust" /\ shown.cards = <<>> /\ shown.offers = {} /\ shown.figures = {}
  BY <1>2, <1>4 DEF Extended, Nothing
<1>6. products \in Products /\ reply' = shown BY <1>3, <1>4 DEF TypeOK, Replies
<1>7. PreviewHidesPicks' BY <1>5, <1>6 DEF PreviewHidesPicks
<1> QED BY <1>3, <1>4, <1>5, <1>6, <1>7, PageSound

LEMMA ComparePageSound ==
  ASSUME TypeOK, NEW key \in DOMAIN products, NEW answer \in Refresh, ComparePage(key, answer)
  PROVE  Sound
<1>1. answer \in Seq(Listing) BY AnswerAssumption
<1>2. TrustType /\ products \in Products BY DEF TypeOK, TrustType
<1>3. PICK ps : ps = ForComparison(products, key, answer) OBVIOUS
<1>4. ps \in Products /\ key \in DOMAIN ps BY <1>1, <1>2, <1>3, ForComparisonType
<1>5. PICK all : all = Responses(ps, key) OBVIOUS
<1>6. all \in SUBSET Response /\ \A o \in all : ~trust[o.shop].flagged BY <1>2, <1>4, <1>5, ResponsesType
<1>7. PICK surface : surface = (IF CompareOffers THEN "comparison" ELSE "preview") OBVIOUS
<1>8. PICK shown : /\ shown \in (IF CompareOffers \/ all = {} THEN {all} ELSE Previews(all))
                   /\ Replies(ps, [surface |-> surface, asked |-> key, offers |-> shown])
  BY <1>3, <1>5, <1>7 DEF ComparePage
<1>9. PICK r : r = Extended([surface |-> surface, asked |-> key, offers |-> shown], Nothing) OBVIOUS
<1>10. /\ r.surface = surface /\ r.asked = key /\ r.cards = <<>> /\ r.offers = shown /\ r.figures = {}
       /\ r.shops = {}
  BY <1>9 DEF Extended, Nothing
<1>11. /\ TypeOK' /\ products' = ps /\ trust' = trust /\ plan' = plan /\ reply' = r
  BY <1>4, <1>8, <1>9, RepliesType
<1>12. (Responses(products, reply.asked))' = all
  BY <1>5, <1>10, <1>11 DEF Responses, OfferResponse
<1>13. \A o \in shown : /\ o \in all
                        /\ surface = "preview" => /\ \E p \in ExactOf(all) : p.price < o.price
                                                  /\ \A p \in Picked(ExactOf(all)) : p.shop # o.shop
  <2>1. CASE CompareOffers \/ all = {} BY <1>7, <1>8, <2>1
  <2>2. CASE ~(CompareOffers \/ all = {})
    <3>1. shown \in Previews(all) BY <1>8, <2>2
    <3> QED BY <1>6, <3>1, PreviewsType
  <2> QED BY <2>1, <2>2
<1>14. PreviewHidesPicks' BY <1>10, <1>11, <1>12, <1>13 DEF PreviewHidesPicks
<1>15. surface \in {"preview"} \/ SeePrices BY <1>7 DEF CompareOffers, SeePrices
<1>16. surface \notin {"text", "link", "photo"} BY <1>7
<1>17. PICK q : q = [surface |-> surface, asked |-> key, offers |-> shown] OBVIOUS
<1>18. Replies(ps, q) /\ r = Extended(q, Nothing) BY <1>8, <1>9, <1>17
<1> QED BY <1>4, <1>6, <1>10, <1>13, <1>14, <1>15, <1>16, <1>18, PageSound

LEMMA RecommendSound ==
  ASSUME TypeOK, NEW key \in DOMAIN products, NEW answer \in Refresh, Recommend(key, answer)
  PROVE  Sound
<1>1. answer \in Seq(Listing) BY AnswerAssumption
<1>2. TrustType /\ products \in Products BY DEF TypeOK, TrustType
<1>3. PICK ps : ps = ForComparison(products, key, answer) OBVIOUS
<1>4. ps \in Products /\ key \in DOMAIN ps BY <1>1, <1>2, <1>3, ForComparisonType
<1>5. PICK offers : offers = Recommended(ps, key) OBVIOUS
<1>6. (\A o \in offers : ~trust[o.shop].flagged) /\ (SeePrices \/ offers = {})
  BY <1>2, <1>4, <1>5, RecommendedType DEF CompareOffers, SeePrices
<1>7. PICK q : q = [surface |-> "recommendation", asked |-> key, offers |-> offers] OBVIOUS
<1>8. Replies(ps, q) BY <1>3, <1>5, <1>7 DEF Recommend
<1>9. PICK r : r = Extended(q, Nothing) OBVIOUS
<1>10. /\ r.surface = "recommendation" /\ r.cards = <<>> /\ r.offers = offers /\ r.figures = {}
       /\ r.shops = {}
  BY <1>7, <1>9 DEF Extended, Nothing
<1>11. reply' = r BY <1>8, <1>9 DEF Replies
<1>12. PreviewHidesPicks' BY <1>10, <1>11 DEF PreviewHidesPicks
<1> QED BY <1>4, <1>6, <1>8, <1>9, <1>10, <1>12, PageSound

LEMMA AskAboutSound ==
  ASSUME TypeOK, NEW key \in DOMAIN products, NEW later \in Refresh, AskAbout(key, later)
  PROVE  Sound
<1>1. later \in Seq(Listing) BY AnswerAssumption
<1>2. TrustType /\ products \in Products BY DEF TypeOK, TrustType
<1>3. PICK ps : ps = ForComparison(products, key, later) OBVIOUS
<1>4. ps \in Products /\ key \in DOMAIN ps BY <1>1, <1>2, <1>3, ForComparisonType
<1>5. PICK offers : offers = Recommended(ps, key) OBVIOUS
<1>6. (\A o \in offers : ~trust[o.shop].flagged) /\ (SeePrices \/ offers = {})
  BY <1>2, <1>4, <1>5, RecommendedType DEF CompareOffers, SeePrices
<1>7. PICK picks : picks = Picks(ExactOf(Responses(ps, key))) OBVIOUS
<1>8. PICK figures : figures = IfSeen({[of |-> key, price |-> o.price] :
                         o \in IF CompareOffers /\ "BEST_OVERALL" \in DOMAIN picks THEN picks.BEST_OVERALL ELSE {}})
  OBVIOUS
<1>9. PICK q : q = [surface |-> "agent", asked |-> key, offers |-> offers, figures |-> figures] OBVIOUS
<1>10. Replies(ps, q) BY <1>3, <1>5, <1>7, <1>8, <1>9 DEF AskAbout
<1>11. PICK r : r = Extended(q, Nothing) OBVIOUS
<1>12. /\ r.surface = "agent" /\ r.cards = <<>> /\ r.offers = offers /\ r.figures = figures
       /\ r.shops = {}
  BY <1>9, <1>11 DEF Extended, Nothing
<1>13. reply' = r BY <1>10, <1>11 DEF Replies
<1>14. PreviewHidesPicks' BY <1>12, <1>13 DEF PreviewHidesPicks
<1>15. SeePrices \/ figures = {} BY <1>8, IfSeenIs
<1> QED BY <1>4, <1>6, <1>10, <1>11, <1>12, <1>14, <1>15, PageSound

LEMMA RefreshJobSound ==
  ASSUME TypeOK, NEW key \in DOMAIN products, NEW answer \in Refresh, RefreshJob(key, answer)
  PROVE  Sound
<1>1. answer \in Seq(Listing) BY AnswerAssumption
<1>2. PICK before \in Products : before = products BY DEF TypeOK
<1>3. PICK ps : ps = Refreshed(before, key, answer) OBVIOUS
<1>4. ps \in Products BY <1>1, <1>2, <1>3, RefreshedType
<1>5. Replies(ps, Nothing) BY <1>2, <1>3 DEF RefreshJob
<1>6. TypeOK' /\ reply' = Extended(Nothing, Nothing) BY <1>4, <1>5, RepliesType
<1>7. Extended(Nothing, Nothing) = Nothing BY DEF Extended, Nothing
<1>8. ReplyOK' /\ reply'.surface = "none" BY <1>6, <1>7, NothingShown
<1> QED BY <1>6, <1>8 DEF Sound

\* The agent's searches.
LEMMA QueriesType ==
  ASSUME NEW question \in Question
  PROVE  Queries(question) \in Seq(DOMAIN Title)
<1>1. question \in [compare : BOOLEAN, items : Seq(DOMAIN Title), product : {None} \cup DOMAIN Title]
  BY QuestionAssumption
<1>2. PICK items \in Seq(DOMAIN Title) : items = question.items BY <1>1
<1>3. <<>> \in Seq(DOMAIN Title) OBVIOUS
<1>4. CompareItems(question) \in Seq(DOMAIN Title)
  <2>1. PICK m \in Nat : m = 3 OBVIOUS
  <2>2. SubSeq(items, 1, Min({m, Len(items)})) \in Seq(DOMAIN Title) BY FirstOnes
  <2> QED BY <1>2, <1>3, <2>1, <2>2 DEF CompareItems
<1>5. question.product # None => <<question.product>> \in Seq(DOMAIN Title) BY <1>1
<1> QED BY <1>3, <1>4, <1>5 DEF Queries

LEMMA AskAgentSound ==
  ASSUME TypeOK, NEW question \in Question, NEW later \in Refresh,
         NEW answers \in [DOMAIN Queries(question) -> Later], AskAgent(question, answers, later)
  PROVE  Sound
<1>1. later \in Seq(Listing) BY AnswerAssumption
<1>2. TrustType /\ products \in Products BY DEF TypeOK, TrustType
<1>3. PICK qs \in Seq(DOMAIN Title) : qs = Queries(question) BY QueriesType
<1>4. PICK most \in Nat : most = IF question.compare THEN 1 ELSE 3 OBVIOUS
<1>5. PICK end : end = AgentFound(qs, most, answers, later) OBVIOUS
<1>6. end \in AgentStages BY <1>1, <1>2, <1>3, <1>5, AgentFoundType
<1>7. /\ end.ps \in Products /\ end.cards \in Seq(CardRow) /\ \A o \in end.offers : ~trust[o.shop].flagged
      /\ ~CompareOffers => end.offers = {}
  BY <1>6 DEF AgentStages
<1>8. PICK cards : cards = (IF PaywallPrices THEN Withheld(end.cards) ELSE end.cards) OBVIOUS
<1>9. PICK q : q = [surface |-> "agent", asked |-> question, offers |-> end.offers, cards |-> cards] OBVIOUS
<1>10. Replies(end.ps, q)
  BY <1>3, <1>4, <1>5, <1>8, <1>9 DEF AskAgent
<1>11. PICK r : r = Extended(q, Nothing) OBVIOUS
<1>12. /\ r.surface = "agent" /\ r.cards = cards /\ r.offers = end.offers /\ r.figures = {}
       /\ r.shops = {}
  BY <1>9, <1>11 DEF Extended, Nothing
<1>13. TypeOK' /\ trust' = trust /\ plan' = plan /\ reply' = r
  BY <1>7, <1>10, <1>11, RepliesType
<1>14. PricesWithheld'
  <2>1. ASSUME PaywallPrices, plan = "free"
        PROVE  /\ \A n \in DOMAIN cards : cards[n].price = None /\ cards[n].shops = {}
               /\ end.offers = {}
    <3>1. PICK cs \in Seq(CardRow) : cs = end.cards BY <1>7
    <3>2. PICK ws : ws = [i \in DOMAIN cs |-> [cs[i] EXCEPT !.price = None, !.shops = {}]] OBVIOUS
    <3>3. cards = ws BY <1>8, <2>1, <3>1, <3>2 DEF Withheld
    <3>4. \A n \in DOMAIN cs : cs[n] \in CardRow BY SeqPlaces
    <3>5. \A n \in DOMAIN ws : ws[n].price = None /\ ws[n].shops = {} BY <3>2, <3>4 DEF CardRow
    <3>6. end.offers = {} BY <1>7, <2>1 DEF CompareOffers
    <3> QED BY <3>3, <3>5, <3>6
  <2> QED BY <1>12, <1>13, <2>1 DEF PricesWithheld
<1>15. PreviewHidesPicks' BY <1>12, <1>13 DEF PreviewHidesPicks
<1>16. FlaggedNotCompared' BY <1>7, <1>12, <1>13 DEF FlaggedNotCompared
<1>17. CardPriceIsOnOffer' BY <1>12, <1>13 DEF CardPriceIsOnOffer
<1>18. EachCardOnce' BY <1>12, <1>13 DEF EachCardOnce
<1>19. ReplyOK' BY <1>14, <1>15, <1>16, <1>17, <1>18 DEF ReplyOK
<1> QED BY <1>12, <1>13, <1>19 DEF Sound

-----------------------------------------------------------------------------
(* The inductive invariant                                                 *)

IInv == TypeOK /\ ReplyOK

LEMMA InitIInv == Init => IInv
<1> SUFFICES ASSUME Init PROVE IInv
  OBVIOUS
<1>1. products \in Products
  <2>1. products = <<>> /\ DOMAIN products = {} BY DEF Init
  <2>2. products = [k \in DOMAIN products |-> products[k]] BY <2>1
  <2>3. DOMAIN products \in SUBSET Key /\ IsFiniteSet(DOMAIN products) BY <2>1, FS_EmptySet
  <2>4. \A k \in DOMAIN products : products[k] \in Product /\ (k[2] # "new" => DOMAIN products[k].ids = {})
    BY <2>1
  <2> QED BY <2>2, <2>3, <2>4, ProductsAre
<1>2. trust \in [Shop -> [score : {None} \cup Nat, flagged : BOOLEAN]]
  BY DEF Init, Shop
<1>3. TypeOK BY <1>1, <1>2 DEF Init, TypeOK
<1>4. /\ reply.surface = "none" /\ reply.cards = <<>> /\ reply.offers = {} /\ reply.figures = {}
      /\ reply.shops = {}
  BY DEF Init, Nothing
<1>5. DOMAIN reply.cards = {} BY <1>4
<1>6. ReplyOK
  BY <1>4, <1>5 DEF ReplyOK, PricesWithheld, PreviewHidesPicks, FlaggedNotCompared, CardPriceIsOnOffer,
                    EachCardOnce
<1> QED BY <1>3, <1>6 DEF IInv

\* The steps that serve no request: nothing is on show before or after.
LEMMA AssessSound ==
  ASSUME TypeOK, NEW shop \in DOMAIN trust, NEW score \in Score[shop], Assess(shop, score)
  PROVE  Sound
<1>1. trust \in [Shop -> [score : {None} \cup Nat, flagged : BOOLEAN]] BY DEF TypeOK
<1>2. score \in [score : 0..100, flagged : BOOLEAN] BY <1>1, ScoreAssumption DEF Shop
<1>3. score \in [score : {None} \cup Nat, flagged : BOOLEAN]
  <2>1. 0..100 \in SUBSET ({None} \cup Nat) OBVIOUS
  <2> QED BY <1>2, <2>1
<1>4. trust' \in [Shop -> [score : {None} \cup Nat, flagged : BOOLEAN]] BY <1>1, <1>3 DEF Assess
<1>5. TypeOK' BY <1>4 DEF TypeOK, Assess
<1>6. reply' = Nothing BY DEF Assess
<1> QED BY <1>5, <1>6, NothingShown DEF Sound

LEMMA ChangePlanSound == ASSUME TypeOK, ChangePlan PROVE Sound
<1>1. TypeOK' BY DEF TypeOK, ChangePlan
<1>2. reply' = Nothing BY DEF ChangePlan
<1> QED BY <1>1, <1>2, NothingShown DEF Sound

LEMMA LeaveSound == ASSUME TypeOK, Leave PROVE Sound
<1>1. TypeOK' BY DEF TypeOK, Leave
<1>2. reply' = Nothing BY DEF Leave
<1> QED BY <1>1, <1>2, NothingShown DEF Sound

LEMMA NextSound == ASSUME TypeOK, Next PROVE Sound
<1>1. ASSUME NEW query \in Query, NEW a \in Later, TextSearch(query, a) PROVE Sound
  BY <1>1, TextSearchSound
<1>2. ASSUME NEW link \in Linked, NEW a \in Answer, LinkReached(link, a) \/ LinkUnreached(link, a) PROVE Sound
  BY <1>2, LinkReachedSound, LinkUnreachedSound
<1>3. ASSUME NEW seen \in Answer, NEW a \in Later, PhotoSearch(seen, a) PROVE Sound
  BY <1>3, PhotoSearchSound
<1>4. ASSUME NEW question \in Question, NEW later \in Refresh,
             NEW answers \in [DOMAIN Queries(question) -> Later], AskAgent(question, answers, later)
      PROVE  Sound
  BY <1>4, AskAgentSound
<1>5. ASSUME NEW key \in DOMAIN products, NEW a \in Refresh,
             ComparePage(key, a) \/ Recommend(key, a) \/ AskAbout(key, a) \/ RefreshJob(key, a)
      PROVE  Sound
  BY <1>5, ComparePageSound, RecommendSound, AskAboutSound, RefreshJobSound
<1>6. ASSUME \/ \E key \in DOMAIN products : ProductPage(key) \/ HistoryPage(key) \/ SavedPage(key) \/ TrustPage(key)
             \/ \E line \in DOMAIN Curated : FamilyPage(line)
             \/ CataloguePage
      PROVE  Sound
  BY <1>6, PagesSound, TrustPageSound
<1>7. ASSUME \/ \E shop \in DOMAIN trust : \E score \in Score[shop] : Assess(shop, score)
             \/ ChangePlan \/ Leave
      PROVE  Sound
  BY <1>7, AssessSound, ChangePlanSound, LeaveSound
<1> QED BY <1>1, <1>2, <1>3, <1>4, <1>5, <1>6, <1>7 DEF Next

LEMMA StepIInv == ASSUME IInv, [Next]_vars PROVE IInv'
<1>1. CASE Next BY <1>1, NextSound DEF IInv, Sound
<1>2. CASE UNCHANGED vars
  <2>1. products' = products /\ trust' = trust /\ plan' = plan /\ reply' = reply BY <1>2 DEF vars
  <2>2. TypeOK' BY <2>1 DEF IInv, TypeOK
  <2>3. (Responses(products, reply.asked))' = Responses(products, reply.asked)
    BY <2>1 DEF Responses, OfferResponse
  <2>4. PreviewHidesPicks' BY <2>1, <2>3 DEF IInv, ReplyOK, PreviewHidesPicks
  <2>5. PricesWithheld' /\ FlaggedNotCompared' /\ CardPriceIsOnOffer' /\ EachCardOnce'
    BY <2>1 DEF IInv, ReplyOK, PricesWithheld, FlaggedNotCompared, CardPriceIsOnOffer, EachCardOnce
  <2> QED BY <2>2, <2>4, <2>5 DEF IInv, ReplyOK
<1> QED BY <1>1, <1>2

LEMMA IInvHolds == Spec => []IInv
BY InitIInv, StepIInv, PTL DEF Spec

-----------------------------------------------------------------------------
(* Theorems                                                                *)

\* What is stored is of its type, in every run: an offer stands under its own
\* shop and condition, and only a product that is new is known by its
\* identifiers.
THEOREM StoredIsTyped == Spec => []TypeOK
<1>1. IInv => TypeOK BY DEF IInv
<1> QED BY <1>1, IInvHolds, PTL

\* Without the paid plan no reply modelled in Shopping but a preview and the list
\* of saved products shows a price, and none but a preview and the trust page
\* shows a shop, whatever is stored.
THEOREM UnpaidSeesNoPrice == Spec => []PricesWithheld
<1>1. IInv => PricesWithheld BY DEF IInv, ReplyOK
<1> QED BY <1>1, IInvHolds, PTL

\* Of every offer in a preview there is a cheaper one, and no pick is at its shop.
THEOREM PreviewGivesNothingAway == Spec => []PreviewHidesPicks
<1>1. IInv => PreviewHidesPicks BY DEF IInv, ReplyOK
<1> QED BY <1>1, IInvHolds, PTL

\* An offer of a flagged shop is never compared, recommended or told by the agent.
THEOREM FlaggedStayOut == Spec => []FlaggedNotCompared
<1>1. IInv => FlaggedNotCompared BY DEF IInv, ReplyOK
<1> QED BY <1>1, IInvHolds, PTL

\* A price on a search's card is that of a plain offer still on show.
THEOREM CardPricesStand == Spec => []CardPriceIsOnOffer
<1>1. IInv => CardPriceIsOnOffer BY DEF IInv, ReplyOK
<1> QED BY <1>1, IInvHolds, PTL

\* However many groups of listings are one product, a search lists it once.
THEOREM CardsAreDistinct == Spec => []EachCardOnce
<1>1. IInv => EachCardOnce BY DEF IInv, ReplyOK
<1> QED BY <1>1, IInvHolds, PTL

\* A query or a photo never stores a used listing with a product that is new, nor
\* the reverse.
THEOREM UsedIsStoredApart == Spec => UsedApartFromNew
<1>1. ASSUME IInv, [Next]_vars
      PROVE  [reply'.surface \in {"text", "photo"} =>
                \A k \in DOMAIN products' : \A s \in DOMAIN products'[k].offers :
                    \/ s[2] = k[2]
                    \/ k \in DOMAIN products /\ s \in DOMAIN products[k].offers]_vars
  <2>1. CASE Next
    <3>1. Sound BY <1>1, <2>1, NextSound DEF IInv
    <3> QED BY <3>1 DEF Sound, Unmixed
  <2>2. CASE UNCHANGED vars BY <2>2
  <2> QED BY <1>1, <2>1, <2>2
<1> QED BY <1>1, IInvHolds, PTL DEF Spec, UsedApartFromNew
=============================================================================
