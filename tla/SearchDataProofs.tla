-------------------------- MODULE SearchDataProofs --------------------------
(***************************************************************************)
(* Proofs about SearchData, for any workers, vendors, lifetimes and sizes  *)
(* of the memory cache: what a request holds (SlotOK) is as old as its     *)
(* lifetime allows, and the api_cache table covers the answers that were   *)
(* committed (StaleCovers), so that a question is paid for once.           *)
(***************************************************************************)
EXTENDS SearchData, TLAPS

Answer == [key : Key, age : 0..Old, life : {CopyLifetime, Ttl}, items : BOOLEAN]

Working == [pc : {"look", "stale", "call", "store", "done"}, worker : Worker, query : Query,
            nth : Nat, got : SUBSET Answer, labelled : BOOLEAN]

TypeOK ==
    /\ site \in Site
    /\ memory = [w \in Worker |-> memory[w]]
    /\ \A w \in Worker : \A m \in memory[w] : m[2] \in Answer
    /\ rows \subseteq {e \in Answer : e.life = Ttl}
    /\ off \in [Worker -> Nat]
    /\ breaker \in [Worker -> [Vendor -> Nat]]
    /\ slot \in [Tx -> Working \cup {Idle}]
    /\ stored \in [Key -> 0..Old]

\* A request asks one of its installation's vendors; it holds an answer once it
\* has one.  No time passes while it stores or returns the answer, so that one
\* is new, and the other within its lifetime unless it is labelled.
SlotOK(t) ==
    /\ slot[t].pc # "idle" => slot[t].nth =< Len(site.vendors) /\ slot[t].nth # 0
    /\ slot[t].pc \in {"look", "stale", "call"} => slot[t].got = {} /\ ~slot[t].labelled
    /\ slot[t].pc = "store" => ~slot[t].labelled /\ \A e \in slot[t].got : e.age = 0
    /\ slot[t].pc = "done" /\ ~slot[t].labelled => \A e \in slot[t].got : e.age =< e.life

TypeInv == TypeOK /\ \A t \in Tx : SlotOK(t)

-----------------------------------------------------------------------------
(* Sizes, keys and stores *)

\* Lifetimes are ages that can be told apart; the copy's is at most MemTtl.
LEMMA Sizes ==
    /\ Old \in Nat /\ Ttl \in 0..Old /\ CopyLifetime \in 0..Old
    /\ CopyLifetime =< Ttl /\ CopyLifetime =< MemTtl
    /\ Ttl + Grace < Old
    /\ Retry \in Nat \ {0} /\ Pause \in Nat /\ Cooldown \in Nat
BY SizesAssumption DEF Old, CopyLifetime

\* A request asks about a key: one of its installation's vendors and a query.
LEMMA KeyTypes ==
    ASSUME TypeInv, NEW t \in Tx, slot[t].pc # "idle"
    PROVE  /\ VendorOf(t) \in Vendor /\ KeyOf(t) \in Key
           /\ slot[t] \in Working /\ slot[t].worker \in Worker
           /\ Len(site.vendors) \in Nat
<1>1. site.vendors \in Seq(Vendor) BY SiteAssumption DEF TypeInv, TypeOK
<1>2. slot[t] \in Working BY DEF TypeInv, TypeOK, Idle
<1>3. slot[t].nth \in 1..Len(site.vendors) /\ slot[t].query \in Query
    BY <1>2 DEF TypeInv, SlotOK, Working
<1> QED BY <1>1, <1>2, <1>3 DEF KeyOf, VendorOf, Key, Working

\* Eviction keeps some of the entries ...
LEMMA Evicted ==
    ASSUME NEW s, NEW m \in Evict(s)
    PROVE  \E l \in s : m[2] = l[2]
<1>1. ASSUME NEW r, NEW l \in Closed(r) PROVE \E k \in r : l[2] = k[2]
    <2>1. PICK k \in r : l = <<Cardinality({j \in r : j[1] =< k[1]}), k[2]>> BY <1>1 DEF Closed
    <2> QED BY <2>1
<1> DEFINE kept == s \ First({l \in s : l[2].age > l[2].life}, Expired)
           rest == kept \ First(kept, Oldest)
<1>2. kept \subseteq s /\ rest \subseteq s OBVIOUS
<1>3. m \in s \/ m \in Closed(kept) \/ m \in Closed(rest) BY DEF Evict
<1> HIDE DEF kept, rest
<1> QED BY <1>1, <1>2, <1>3

\* ... and remembering an answer adds that answer alone.
LEMMA Remembered ==
    ASSUME NEW s, NEW e, NEW m \in Remember(s, e)
    PROVE  m[2] = e \/ \E l \in s : m[2] = l[2]
<1>1. m \in Evict(s) \/ m[2] = e BY DEF Remember
<1> QED BY <1>1, Evicted

\* What a cache read finds.
LEMMA Found ==
    ASSUME TypeInv, NEW w \in Worker, NEW k, NEW allowStale \in BOOLEAN, NEW found,
           Get(w, k, allowStale, found)
    PROVE  /\ found \subseteq Answer
           /\ \A e \in found : allowStale \/ e.age =< e.life
           /\ off' \in [Worker -> Nat]
<1>1. off' \in [Worker -> Nat] BY Sizes DEF Get, TypeInv, TypeOK
<1>2. InMemory(w, k, allowStale) \subseteq Answer BY DEF InMemory, TypeInv, TypeOK
<1>3. InRows(k, allowStale) \subseteq Answer BY DEF InRows, TypeInv, TypeOK
<1>4. \A e \in InMemory(w, k, allowStale) \cup InRows(k, allowStale) : allowStale \/ e.age =< e.life
    BY DEF InMemory, InRows, Usable
<1> QED BY <1>1, <1>2, <1>3, <1>4 DEF Get

-----------------------------------------------------------------------------
(* Types and freshness *)

\* Everything begins idle and empty.
LEMMA TypeInit == Init => TypeInv
<1>1. Old \in 0..Old BY Sizes
<1>2. Idle.pc = "idle" BY DEF Idle
<1> QED BY <1>1, <1>2 DEF Init, TypeInv, TypeOK, SlotOK

\* One request moves: its own slot decides.
LEMMA SlotStep ==
    ASSUME TypeInv, NEW t \in Tx, NEW new \in Working \cup {Idle},
           slot' = [slot EXCEPT ![t] = new], site' = site,
           new.pc # "idle" => new.nth =< Len(site.vendors) /\ new.nth # 0,
           new.pc \in {"look", "stale", "call"} => new.got = {} /\ ~new.labelled,
           new.pc = "store" => ~new.labelled /\ \A e \in new.got : e.age = 0,
           new.pc = "done" /\ ~new.labelled => \A e \in new.got : e.age =< e.life
    PROVE  slot' \in [Tx -> Working \cup {Idle}] /\ \A s \in Tx : SlotOK(s)'
<1>1. slot' \in [Tx -> Working \cup {Idle}] BY DEF TypeInv, TypeOK
<1>2. ASSUME NEW s \in Tx PROVE SlotOK(s)'
    <2>1. CASE s = t
        <3>1. slot'[s] = new BY <2>1 DEF TypeInv, TypeOK
        <3> QED BY <3>1 DEF SlotOK
    <2>2. CASE s # t
        <3>1. slot'[s] = slot[s] BY <2>2 DEF TypeInv, TypeOK
        <3> QED BY <3>1 DEF SlotOK, TypeInv
    <2> QED BY <2>1, <2>2
<1> QED BY <1>1, <1>2

\* The next vendor, when there is one.
LEMMA NextVendorType ==
    ASSUME TypeInv, NEW t \in Tx, slot[t].pc # "idle", ~slot[t].labelled, ~LastVendor(t)
    PROVE  LET new == NextVendor(t)
           IN  /\ new \in Working
               /\ new.pc = "look" /\ new.nth =< Len(site.vendors) /\ new.nth # 0
               /\ new.got = {} /\ ~new.labelled
<1>1. slot[t] \in Working /\ Len(site.vendors) \in Nat BY KeyTypes
<1>2. slot[t].nth \in Nat /\ slot[t].nth =< Len(site.vendors)
    BY <1>1 DEF Working, TypeInv, SlotOK
<1>3. PICK n \in Nat : n = slot[t].nth + 1 BY <1>2
<1>4. n =< Len(site.vendors) /\ n # 0 BY <1>1, <1>2, <1>3 DEF LastVendor
<1>5. NextVendor(t) = [slot[t] EXCEPT !.pc = "look", !.nth = n, !.got = {}]
    BY <1>3 DEF NextVendor
<1> QED BY <1>1, <1>4, <1>5 DEF Working

\* A request gets an answer, which it returns or, for want of items, passes over.
LEMMA AnsweredType ==
    ASSUME TypeInv, NEW t \in Tx, slot[t].pc # "idle", site' = site,
           NEW e \in Answer, NEW labelled \in BOOLEAN, Answered(t, e, labelled),
           ~slot[t].labelled, labelled \/ e.age =< e.life
    PROVE  slot' \in [Tx -> Working \cup {Idle}] /\ \A s \in Tx : SlotOK(s)'
<1>1. slot[t] \in Working BY KeyTypes
<1>2. slot[t].nth =< Len(site.vendors) /\ slot[t].nth # 0 BY DEF TypeInv, SlotOK
<1>3. CASE e.items \/ LastVendor(t)
    <2> DEFINE new == [slot[t] EXCEPT !.pc = "done", !.got = {e}, !.labelled = labelled]
    <2>1. slot' = [slot EXCEPT ![t] = new] BY <1>3 DEF Answered
    <2>2. /\ new \in Working
          /\ new.pc = "done" /\ new.nth = slot[t].nth
          /\ new.got = {e} /\ new.labelled = labelled
        BY <1>1 DEF Working
    <2> HIDE DEF new
    <2> QED BY <1>2, <2>1, <2>2, SlotStep
<1>4. CASE ~(e.items \/ LastVendor(t))
    <2>1. slot' = [slot EXCEPT ![t] = NextVendor(t)] BY <1>4 DEF Answered
    <2> QED BY <1>4, <2>1, NextVendorType, SlotStep
<1> QED BY <1>3, <1>4

\* A vendor fails a request: the next is asked, or none is left.
LEMMA FailedType ==
    ASSUME TypeInv, NEW t \in Tx, slot[t].pc \in {"stale", "call"}, site' = site, Failed(t)
    PROVE  slot' \in [Tx -> Working \cup {Idle}] /\ \A s \in Tx : SlotOK(s)'
<1>1. slot[t] \in Working BY KeyTypes
<1>2. /\ slot[t].nth =< Len(site.vendors) /\ slot[t].nth # 0
      /\ slot[t].got = {} /\ ~slot[t].labelled
    BY DEF TypeInv, SlotOK
<1>3. CASE LastVendor(t)
    <2> DEFINE new == [slot[t] EXCEPT !.pc = "done"]
    <2>1. slot' = [slot EXCEPT ![t] = new] BY <1>3 DEF Failed
    <2>2. /\ new \in Working /\ new.pc = "done" /\ new.nth = slot[t].nth
          /\ new.got = {} /\ new.labelled = slot[t].labelled
        BY <1>1, <1>2 DEF Working
    <2> HIDE DEF new
    <2> QED BY <1>2, <2>1, <2>2, SlotStep
<1>4. CASE ~LastVendor(t)
    <2>1. slot' = [slot EXCEPT ![t] = NextVendor(t)] BY <1>4 DEF Failed
    <2> QED BY <1>2, <1>4, <2>1, NextVendorType, SlotStep
<1> QED BY <1>3, <1>4

\* It goes on to the stale answer or to the vendor.
LEMMA GotoType ==
    ASSUME TypeInv, NEW t \in Tx, slot[t].pc \in {"look", "call"}, site' = site,
           NEW p \in {"stale", "call"}, Goto(t, p)
    PROVE  slot' \in [Tx -> Working \cup {Idle}] /\ \A s \in Tx : SlotOK(s)'
<1>1. slot[t] \in Working BY KeyTypes
<1>2. /\ slot[t].nth =< Len(site.vendors) /\ slot[t].nth # 0
      /\ slot[t].got = {} /\ ~slot[t].labelled
    BY DEF TypeInv, SlotOK
<1> DEFINE new == [slot[t] EXCEPT !.pc = p]
<1>3. slot' = [slot EXCEPT ![t] = new] BY DEF Goto
<1>4. /\ new \in Working /\ new.pc = p /\ new.nth = slot[t].nth
      /\ new.got = {} /\ new.labelled = slot[t].labelled
    BY <1>1, <1>2 DEF Working
<1> HIDE DEF new
<1> QED BY <1>2, <1>3, <1>4, SlotStep

\* A vendor's answer: the copies it leaves in memory, and what the request holds.
LEMMA VendorAnswersType ==
    ASSUME TypeInv, NEW t \in Tx, NEW items \in BOOLEAN, VendorAnswers(t, items)
    PROVE  /\ memory' = [w \in Worker |-> memory'[w]]
           /\ \A w \in Worker : \A m \in memory'[w] : m[2] \in Answer
           /\ slot' \in [Tx -> Working \cup {Idle}] /\ \A s \in Tx : SlotOK(s)'
<1> DEFINE w == slot[t].worker
           copy == Entry(KeyOf(t), CopyLifetime, items)
           full == [copy EXCEPT !.life = Ttl]
<1>1. slot[t].pc = "call" /\ site' = site BY DEF VendorAnswers
<1>2. /\ KeyOf(t) \in Key /\ slot[t] \in Working /\ slot[t].worker \in Worker
      /\ slot[t].nth =< Len(site.vendors) /\ slot[t].nth # 0
      /\ slot[t].got = {} /\ ~slot[t].labelled
    BY <1>1, KeyTypes DEF TypeInv, SlotOK
<1>3. /\ copy \in Answer /\ copy.age = 0
      /\ full \in Answer /\ full.age = 0 /\ full.life = Ttl
    BY <1>2, Sizes DEF Entry, Answer
<1>0. \A m \in memory[w] : m[2] \in Answer BY <1>2 DEF TypeInv, TypeOK
<1> HIDE DEF copy, full
<1>4. CASE DatabaseOff(w)
    <2>1. /\ memory' = [memory EXCEPT ![w] = Remember(Remember(memory[w], copy), full)]
          /\ Answered(t, full, FALSE)
        BY <1>4 DEF VendorAnswers, copy, full
    <2>2. \A m \in Remember(Remember(memory[w], copy), full) : m[2] \in Answer
        <3>1. \A m \in Remember(memory[w], copy) : m[2] \in Answer BY <1>0, <1>3, Remembered
        <3> QED BY <1>3, <3>1, Remembered
    <2>3. full.age =< full.life BY <1>3, Sizes
    <2>4. slot' \in [Tx -> Working \cup {Idle}] /\ \A s \in Tx : SlotOK(s)'
        BY <1>1, <1>2, <1>3, <2>1, <2>3, AnsweredType
    <2> QED BY <1>2, <2>1, <2>2, <2>4 DEF TypeInv, TypeOK
<1>5. CASE ~DatabaseOff(w)
    <2> DEFINE new == [slot[t] EXCEPT !.pc = "store", !.got = {copy}]
    <2>1. /\ memory' = [memory EXCEPT ![w] = Remember(memory[w], copy)]
          /\ slot' = [slot EXCEPT ![t].pc = "store", ![t].got = {copy}]
        BY <1>5 DEF VendorAnswers, copy, full
    <2>2. \A m \in Remember(memory[w], copy) : m[2] \in Answer
        BY <1>0, <1>3, Remembered
    <2>3. slot' = [slot EXCEPT ![t] = new] BY <2>1 DEF TypeInv, TypeOK
    <2>4. /\ new \in Working /\ new.pc = "store" /\ new.nth = slot[t].nth
          /\ new.got = {copy} /\ ~new.labelled
        BY <1>2, <1>3 DEF Working
    <2> HIDE DEF new
    <2>5. slot' \in [Tx -> Working \cup {Idle}] /\ \A s \in Tx : SlotOK(s)'
        BY <1>1, <1>2, <1>3, <2>3, <2>4, SlotStep
    <2> QED BY <1>2, <2>1, <2>2, <2>5 DEF TypeInv, TypeOK
<1> QED BY <1>4, <1>5

\* The row a store writes, and what its request returns.
LEMMA StoreType ==
    ASSUME TypeInv, NEW t \in Tx, Store(t)
    PROVE  \E e \in Answer :
             /\ e.age = 0
             /\ \/ /\ rows' = {r \in rows : r.key # e.key} \cup {[e EXCEPT !.life = Ttl]}
                   /\ stored' = [stored EXCEPT ![e.key] = 0]
                   /\ UNCHANGED off
                \/ off' \in [Worker -> Nat] /\ UNCHANGED <<rows, stored>>
             /\ slot' \in [Tx -> Working \cup {Idle}] /\ \A s \in Tx : SlotOK(s)'
<1>1. slot[t].pc = "store" /\ site' = site BY DEF Store
<1>2. slot[t] \in Working BY <1>1, KeyTypes
<1>3. PICK e \in slot[t].got :
        /\ Answered(t, e, FALSE)
        /\ \/ /\ rows' = {r \in rows : r.key # e.key} \cup {[e EXCEPT !.life = Ttl]}
              /\ stored' = [stored EXCEPT ![e.key] = 0]
              /\ UNCHANGED off
           \/ off' = [off EXCEPT ![slot[t].worker] = Retry] /\ UNCHANGED <<rows, stored>>
    BY DEF Store, RowLifetime
<1>4. e \in Answer /\ e.age = 0 /\ ~slot[t].labelled
    BY <1>1, <1>2 DEF Working, TypeInv, SlotOK
<1>5. e.age =< e.life BY <1>4, Sizes DEF Answer
<1>6. slot' \in [Tx -> Working \cup {Idle}] /\ \A s \in Tx : SlotOK(s)'
    BY <1>1, <1>3, <1>4, <1>5, AnsweredType
<1>7. off' \in [Worker -> Nat] BY <1>3, Sizes DEF TypeInv, TypeOK
<1> QED BY <1>3, <1>4, <1>6, <1>7

\* The breakers stay times left.
LEMMA BreakerType ==
    ASSUME TypeInv, NEW t \in Tx, slot[t].pc = "call", NEW seconds \in Nat,
           OpenBreaker(t, seconds)
    PROVE  breaker' \in [Worker -> [Vendor -> Nat]]
<1>1. slot[t].worker \in Worker /\ VendorOf(t) \in Vendor BY KeyTypes
<1> QED BY <1>1 DEF OpenBreaker, TypeInv, TypeOK

\* Whatever a request does next, it stays well typed and its answer new.
LEMMA RequestType ==
    ASSUME TypeInv, NEW t \in Tx, Request(t)
    PROVE  TypeInv'
<1> DEFINE Slots == slot' \in [Tx -> Working \cup {Idle}] /\ \A s \in Tx : SlotOK(s)'
<1>1. ASSUME Slots, off' \in [Worker -> Nat], breaker' \in [Worker -> [Vendor -> Nat]],
             UNCHANGED <<site, memory, rows, stored>>
      PROVE  TypeInv'
    BY <1>1 DEF TypeInv, TypeOK
<1>2. off \in [Worker -> Nat] /\ breaker \in [Worker -> [Vendor -> Nat]]
    BY DEF TypeInv, TypeOK
<1>3. ASSUME NEW w \in site.workers, NEW q \in Query, Ask(t, w, q) PROVE TypeInv'
    <2> DEFINE new == [pc |-> "look", worker |-> w, query |-> q, nth |-> 1,
                       got |-> {}, labelled |-> FALSE]
    <2>1. new \in Working BY SiteAssumption DEF Working, TypeInv, TypeOK
    <2>2. site.vendors \in Seq(Vendor) /\ site.vendors # << >> BY SiteAssumption DEF TypeInv, TypeOK
    <2>3. 1 =< Len(site.vendors) BY <2>2
    <2>4. slot' = [slot EXCEPT ![t] = new] /\ site' = site BY <1>3 DEF Ask
    <2>5. new.pc = "look" /\ new.nth = 1 /\ new.got = {} /\ ~new.labelled OBVIOUS
    <2> HIDE DEF new
    <2>6. new.nth =< Len(site.vendors) /\ new.nth # 0 BY <2>3, <2>5
    <2>7. slot' \in [Tx -> Working \cup {Idle}] /\ \A s \in Tx : SlotOK(s)'
        BY <2>1, <2>4, <2>5, <2>6, SlotStep
    <2> QED BY <1>1, <1>2, <1>3, <2>7 DEF Ask
<1>4. CASE Look(t)
    <2>1. slot[t].pc = "look" /\ UNCHANGED <<site, memory, rows, breaker, stored>> BY <1>4 DEF Look
    <2>2. slot[t].worker \in Worker /\ ~slot[t].labelled BY <2>1, KeyTypes DEF TypeInv, SlotOK
    <2>3. PICK found :
            /\ Get(slot[t].worker, KeyOf(t), FALSE, found)
            /\ \/ \E e \in found : Answered(t, e, FALSE)
               \/ \E p \in {"stale", "call"} : Goto(t, p)
        BY <1>4 DEF Look
    <2>4. off' \in [Worker -> Nat] /\ found \subseteq Answer /\ \A e \in found : e.age =< e.life
        BY <2>2, <2>3, Found
    <2>5. Slots BY <2>1, <2>2, <2>3, <2>4, AnsweredType, GotoType
    <2> QED BY <1>1, <1>2, <2>1, <2>4, <2>5
<1>5. CASE Stale(t)
    <2>1. slot[t].pc = "stale" /\ UNCHANGED <<site, memory, rows, breaker, stored>> BY <1>5 DEF Stale
    <2>2. slot[t].worker \in Worker /\ ~slot[t].labelled BY <2>1, KeyTypes DEF TypeInv, SlotOK
    <2>3. PICK found :
            /\ Get(slot[t].worker, KeyOf(t), TRUE, found)
            /\ (\E e \in found : Answered(t, e, TRUE)) \/ Failed(t)
        BY <1>5 DEF Stale
    <2>4. off' \in [Worker -> Nat] /\ found \subseteq Answer BY <2>2, <2>3, Found
    <2>5. Slots BY <2>1, <2>2, <2>3, <2>4, AnsweredType, FailedType
    <2> QED BY <1>1, <1>2, <2>1, <2>4, <2>5
<1>6. CASE VendorFails(t) BY <1>1, <1>2, <1>6, FailedType DEF VendorFails
<1>7. CASE KeyRefused(t)
    BY <1>1, <1>2, <1>7, FailedType, BreakerType, Sizes DEF KeyRefused
<1>8. ASSUME NEW lookStale \in BOOLEAN, QuotaGone(t, lookStale) PROVE TypeInv'
    BY <1>1, <1>2, <1>8, FailedType, GotoType, BreakerType, Sizes DEF QuotaGone
<1>9. CASE VendorPauses(t)
    BY <1>1, <1>2, <1>9, FailedType, BreakerType, Sizes DEF VendorPauses
<1>10. ASSUME NEW items \in BOOLEAN, VendorAnswers(t, items) PROVE TypeInv'
    BY <1>10, VendorAnswersType DEF VendorAnswers, TypeInv, TypeOK
<1>11. CASE Store(t)
    <2>1. PICK e \in Answer :
            \/ /\ rows' = {r \in rows : r.key # e.key} \cup {[e EXCEPT !.life = Ttl]}
               /\ stored' = [stored EXCEPT ![e.key] = 0]
               /\ UNCHANGED off
            \/ off' \in [Worker -> Nat] /\ UNCHANGED <<rows, stored>>
        BY <1>11, StoreType
    <2>2. Slots BY <1>11, StoreType
    <2>3. [e EXCEPT !.life = Ttl] \in {r \in Answer : r.life = Ttl} BY DEF Answer
    <2>4. rows' \subseteq {r \in Answer : r.life = Ttl} BY <2>1, <2>3 DEF TypeInv, TypeOK
    <2>5. stored' \in [Key -> 0..Old] BY <2>1, Sizes DEF TypeInv, TypeOK
    <2>6. off' \in [Worker -> Nat] BY <1>2, <2>1
    <2>7. UNCHANGED <<site, memory, breaker>> BY <1>11 DEF Store
    <2> QED BY <2>2, <2>4, <2>5, <2>6, <2>7 DEF TypeInv, TypeOK
<1>12. CASE Reply(t)
    <2>1. Idle.pc = "idle" BY DEF Idle
    <2>2. Slots BY <1>12, <2>1, SlotStep DEF Reply
    <2> QED BY <1>1, <1>2, <1>12, <2>2 DEF Reply
<1> QED BY <1>3, <1>4, <1>5, <1>6, <1>7, <1>8, <1>9, <1>10, <1>11, <1>12 DEF Request

\* Time passes only while requests are idle or wait for a vendor.
LEMMA TickType == TypeInv /\ Tick => TypeInv'
<1> SUFFICES ASSUME TypeInv, Tick PROVE TypeInv' OBVIOUS
<1>1. ASSUME NEW a \in 0..Old PROVE Older(a) \in 0..Old
    BY <1>1, Sizes DEF Older
<1>2. ASSUME NEW e \in Answer
      PROVE  Aged(e) \in Answer /\ Aged(e).life = e.life
    <2>1. e.age \in 0..Old BY DEF Answer
    <2>2. Older(e.age) \in 0..Old BY <1>1, <2>1
    <2>3. Aged(e) = [e EXCEPT !.age = Older(e.age)] BY DEF Aged
    <2> QED BY <2>2, <2>3 DEF Answer
<1>3. \A n \in Nat : Left(n) \in Nat BY DEF Left
<1>4. /\ memory' = [w \in Worker |-> memory'[w]]
      /\ \A w \in Worker : \A m \in memory'[w] : m[2] \in Answer
    <2>1. memory' = [w \in Worker |-> {<<m[1], Aged(m[2])>> : m \in memory[w]}] BY DEF Tick
    <2>2. ASSUME NEW w \in Worker, NEW m \in memory'[w] PROVE m[2] \in Answer
        <3>1. PICK l \in memory[w] : m = <<l[1], Aged(l[2])>> BY <2>1
        <3>2. l[2] \in Answer BY DEF TypeInv, TypeOK
        <3>3. m[2] = Aged(l[2]) BY <3>1
        <3> QED BY <1>2, <3>2, <3>3
    <2> QED BY <2>1, <2>2
<1>5. rows' \subseteq {e \in Answer : e.life = Ttl}
    <2>1. rows' = {Aged(e) : e \in rows} BY DEF Tick
    <2> QED BY <1>2, <2>1 DEF TypeInv, TypeOK
<1>6. /\ off' \in [Worker -> Nat] /\ breaker' \in [Worker -> [Vendor -> Nat]]
      /\ stored' \in [Key -> 0..Old]
    BY <1>1, <1>3 DEF Tick, TypeInv, TypeOK
<1>7. UNCHANGED <<site, slot>> BY DEF Tick
<1> QED BY <1>4, <1>5, <1>6, <1>7 DEF TypeInv, TypeOK, SlotOK

\* A worker that starts anew has nothing in memory, and its requests are gone.
LEMMA RestartType == ASSUME TypeInv, NEW w \in site.workers, Restart(w) PROVE TypeInv'
<1>1. memory' = [v \in Worker |-> memory'[v]]
      /\ \A v \in Worker : \A m \in memory'[v] : m[2] \in Answer
    BY DEF Restart, TypeInv, TypeOK
<1>2. off' \in [Worker -> Nat] /\ breaker' \in [Worker -> [Vendor -> Nat]]
    BY DEF Restart, TypeInv, TypeOK
<1>3. \A t \in Tx : slot'[t] = slot[t] \/ slot'[t] = Idle BY DEF Restart
<1>4. slot' \in [Tx -> Working \cup {Idle}] BY DEF Restart, TypeInv, TypeOK
<1>5. UNCHANGED <<site, rows, stored>> BY DEF Restart
<1>6. ASSUME NEW t \in Tx PROVE SlotOK(t)'
    <2>1. CASE slot'[t] = Idle BY <2>1 DEF SlotOK, Idle
    <2>2. CASE slot'[t] = slot[t] BY <1>5, <2>2 DEF SlotOK, TypeInv
    <2> QED BY <1>3, <2>1, <2>2
<1> QED BY <1>1, <1>2, <1>4, <1>5, <1>6 DEF TypeInv, TypeOK

\* TypeInv is inductive.
LEMMA TypeStep == TypeInv /\ [Next]_vars => TypeInv'
<1> SUFFICES ASSUME TypeInv, [Next]_vars PROVE TypeInv' OBVIOUS
<1>1. CASE Purge BY <1>1 DEF Purge, TypeInv, TypeOK, SlotOK
<1>2. CASE UNCHANGED vars BY <1>2 DEF vars, TypeInv, TypeOK, SlotOK
<1> QED BY <1>1, <1>2, RequestType, RestartType, TickType DEF Next

\* Caches, breakers, requests and rows are typed for any installation, and what
\* a request is about to store or return is as new as it claims.
THEOREM TypeCorrect == Spec => []TypeInv
BY TypeInit, TypeStep, PTL DEF Spec

\* No answer without the stale label is older than its lifetime, whichever tier
\* of whichever worker it comes from and whatever is evicted, purged or lost.
THEOREM UnlabelledFresh == Spec => []UnlabelledIsFresh
<1>1. TypeInv => UnlabelledIsFresh
    <2> SUFFICES ASSUME TypeInv, NEW t \in Tx, slot[t].pc = "done", ~slot[t].labelled,
                        NEW e \in slot[t].got
                 PROVE  e.age =< Ttl
        BY DEF UnlabelledIsFresh
    <2>1. e.age =< e.life BY DEF TypeInv, SlotOK
    <2>2. e \in Answer BY KeyTypes DEF Working
    <2>3. e.age \in Nat /\ e.life \in Nat /\ e.life =< Ttl BY <2>2, Sizes DEF Answer
    <2> QED BY <2>1, <2>3, Sizes
<1> QED BY <1>1, TypeInit, TypeStep, PTL DEF Spec

\* ... and a copy in memory never outlives a refresh by more than MemTtl.
THEOREM RefreshReaches == Spec => []RefreshReachesWorkers
<1>1. TypeInv => RefreshReachesWorkers
    <2> SUFFICES ASSUME TypeInv, NEW t \in Tx, slot[t].pc = "done", ~slot[t].labelled,
                        NEW e \in slot[t].got, e.life = CopyLifetime, stored[e.key] < e.age
                 PROVE  stored[e.key] =< MemTtl
        BY DEF RefreshReachesWorkers
    <2>1. e.age =< e.life BY DEF TypeInv, SlotOK
    <2>2. e \in Answer BY KeyTypes DEF Working
    <2>3. e.age \in Nat /\ e.key \in Key BY <2>2, Sizes DEF Answer
    <2>4. stored[e.key] \in Nat BY <2>3, Sizes DEF TypeInv, TypeOK
    <2>5. MemTtl \in Nat BY SizesAssumption
    <2> QED BY <2>1, <2>3, <2>4, <2>5, Sizes
<1> QED BY <1>1, TypeInit, TypeStep, PTL DEF Spec

-----------------------------------------------------------------------------
(* The table covers what was committed *)

\* A request that calls a vendor has looked in the cache in that step.
LEMMA CallsLook ==
    ASSUME TypeInv, [Next]_vars, NEW t \in Tx, Calls(t)
    PROVE  Look(t)
<1>1. CASE \E s \in Tx \ {t} : Request(s)
    <2>1. slot'[t] = slot[t]
        BY ZenonT(60), <1>1
           DEF Request, Ask, Look, Stale, VendorFails, KeyRefused, QuotaGone, VendorPauses,
           VendorAnswers, Store, Reply, Answered, Failed, Goto, TypeInv, TypeOK
    <2> QED BY <2>1 DEF Calls
<1>2. CASE Request(t)
    BY <1>2 DEF Calls, Request, Ask, Stale, VendorFails, KeyRefused, QuotaGone, VendorPauses,
       VendorAnswers, Store, Reply
<1>3. CASE Purge \/ Tick \/ UNCHANGED vars BY <1>3 DEF Purge, Tick, vars, Calls
<1>4. CASE \E w \in site.workers : Restart(w) BY <1>4 DEF Restart, Calls, Idle
<1> QED BY <1>1, <1>2, <1>3, <1>4 DEF Next

\* Rows of other keys stay, and a purge leaves what may still be served as stale.
LEMMA CoversStep == TypeInv /\ StaleCovers /\ [Next]_vars => StaleCovers'
<1> SUFFICES ASSUME TypeInv, StaleCovers, [Next]_vars,
                    NEW k \in Key, stored'[k] =< Ttl + Grace
             PROVE  \E e \in rows' : e.key = k /\ e.age =< stored'[k]
    BY DEF StaleCovers
<1>0. stored[k] \in 0..Old BY DEF TypeInv, TypeOK
<1>1. ASSUME UNCHANGED <<rows, stored>> PROVE \E e \in rows' : e.key = k /\ e.age =< stored'[k]
    BY <1>1 DEF StaleCovers
<1>2. ASSUME NEW t \in Tx, Store(t) PROVE \E e \in rows' : e.key = k /\ e.age =< stored'[k]
    <2>1. PICK e \in Answer :
            /\ e.age = 0
            /\ \/ /\ rows' = {r \in rows : r.key # e.key} \cup {[e EXCEPT !.life = Ttl]}
                  /\ stored' = [stored EXCEPT ![e.key] = 0]
               \/ UNCHANGED <<rows, stored>>
        BY <1>2, StoreType
    <2>2. CASE UNCHANGED <<rows, stored>> BY <1>1, <2>2
    <2>3. CASE /\ rows' = {r \in rows : r.key # e.key} \cup {[e EXCEPT !.life = Ttl]}
               /\ stored' = [stored EXCEPT ![e.key] = 0]
        <3>1. CASE k = e.key
            <4>1. stored'[k] = 0 BY <2>3, <3>1 DEF TypeInv, TypeOK
            <4>2. PICK r : r = [e EXCEPT !.life = Ttl] OBVIOUS
            <4>3. r.key = k /\ r.age = 0 BY <2>1, <3>1, <4>2 DEF Answer
            <4>4. r \in rows' BY <2>3, <4>2
            <4> QED BY <4>1, <4>3, <4>4
        <3>2. CASE k # e.key
            <4>1. stored'[k] = stored[k] BY <2>3, <3>2 DEF TypeInv, TypeOK
            <4>2. PICK r \in rows : r.key = k /\ r.age =< stored[k] BY <4>1 DEF StaleCovers
            <4> QED BY <2>3, <3>2, <4>1, <4>2
        <3> QED BY <3>1, <3>2
    <2> QED BY <2>1, <2>2, <2>3
<1>3. CASE Purge
    <2>1. PICK e \in rows : e.key = k /\ e.age =< stored[k] BY <1>3 DEF Purge, StaleCovers
    <2>2. e \in Answer /\ e.life = Ttl BY DEF TypeInv, TypeOK
    <2>3. e.age \in Nat BY <2>2, Sizes DEF Answer
    <2>4. stored[k] =< Ttl + Grace /\ stored' = stored BY <1>3 DEF Purge
    <2>5. e.age =< e.life + Grace BY <1>0, <2>1, <2>2, <2>3, <2>4, SizesAssumption
    <2> QED BY <1>3, <2>1, <2>4, <2>5 DEF Purge
<1>4. CASE Tick
    <2>1. stored'[k] = Older(stored[k]) BY <1>4 DEF Tick
    <2>2. stored[k] < Old /\ stored'[k] = stored[k] + 1
        BY <1>0, <2>1, Sizes, SizesAssumption DEF Older
    <2>3. stored[k] =< Ttl + Grace BY <1>0, <2>2, SizesAssumption
    <2>4. PICK e \in rows : e.key = k /\ e.age =< stored[k] BY <2>3 DEF StaleCovers
    <2>5. e \in Answer BY DEF TypeInv, TypeOK
    <2>6. e.age \in 0..Old BY <2>5 DEF Answer
    <2>7. Aged(e).key = k /\ Aged(e).age = Older(e.age) BY <2>4, <2>5 DEF Aged, Answer
    <2>8. Older(e.age) =< stored'[k] BY <1>0, <2>2, <2>4, <2>6, Sizes DEF Older
    <2>9. Aged(e) \in rows' BY <1>4 DEF Tick
    <2> QED BY <2>7, <2>8, <2>9
<1>5. ASSUME NEW t \in Tx, Request(t), ~Store(t) PROVE UNCHANGED <<rows, stored>>
    BY <1>5 DEF Request, Ask, Look, Stale, VendorFails, KeyRefused, QuotaGone, VendorPauses,
       VendorAnswers, Reply
<1>6. CASE (\E w \in site.workers : Restart(w)) \/ UNCHANGED vars
    BY <1>1, <1>6 DEF Restart, vars
<1> QED BY <1>1, <1>2, <1>3, <1>4, <1>5, <1>6 DEF Next

\* At the start nothing was committed.
LEMMA CoversInit == Init => StaleCovers
<1> SUFFICES ASSUME Init, NEW k \in Key PROVE ~(stored[k] =< Ttl + Grace)
    BY DEF StaleCovers
<1>1. stored[k] = Old BY DEF Init
<1> QED BY <1>1, Sizes, SizesAssumption

\* What was committed can be served as stale until lifetime and grace are over.
THEOREM CommittedAnswersStay == Spec => []StaleCovers
BY TypeInit, TypeStep, CoversInit, CoversStep, PTL DEF Spec

\* No vendor is called for a key whose answer was committed within its
\* lifetime, by any worker the database does not fail.
THEOREM QuestionsPaidOnce == Spec => PaidOnce
<1>1. TypeInv /\ StaleCovers /\ [Next]_vars =>
        \A t \in Tx : Calls(t) => stored[KeyOf(t)] > Ttl \/ DatabaseOff(slot[t].worker)'
    <2> SUFFICES ASSUME TypeInv, StaleCovers, [Next]_vars, NEW t \in Tx, Calls(t),
                        ~(stored[KeyOf(t)] > Ttl)
                 PROVE  DatabaseOff(slot[t].worker)'
        OBVIOUS
    <2>1. Look(t) BY CallsLook
    <2>2. slot[t].pc = "look" BY DEF Calls
    <2>3. /\ slot[t] \in Working /\ slot[t].worker \in Worker /\ KeyOf(t) \in Key
        BY <2>2, KeyTypes
    <2> DEFINE w == slot[t].worker
    <2>4. Get(w, KeyOf(t), FALSE, {})
        <3>1. PICK found :
                /\ Get(w, KeyOf(t), FALSE, found)
                /\ found = {} \/ \E e \in found : Answered(t, e, FALSE)
            BY <2>1 DEF Look
        <3>2. ASSUME NEW e, Answered(t, e, FALSE) PROVE FALSE
            <4>1. slot'[t].pc \in {"done", "look"}
                BY <2>3, <3>2 DEF Answered, NextVendor, Working, TypeInv, TypeOK
            <4> QED BY <4>1 DEF Calls
        <3> QED BY <3>1, <3>2
    <2>5. InRows(KeyOf(t), FALSE) # {}
        <3>1. stored[KeyOf(t)] \in 0..Old BY <2>3 DEF TypeInv, TypeOK
        <3>2. stored[KeyOf(t)] =< Ttl /\ stored[KeyOf(t)] =< Ttl + Grace
            BY <3>1, Sizes, SizesAssumption
        <3>3. PICK e \in rows : e.key = KeyOf(t) /\ e.age =< stored[KeyOf(t)]
            BY <2>3, <3>2 DEF StaleCovers
        <3>4. e \in Answer /\ e.life = Ttl BY DEF TypeInv, TypeOK
        <3>5. e.age \in Nat BY <3>4, Sizes DEF Answer
        <3>6. e.age =< e.life BY <3>1, <3>2, <3>3, <3>4, <3>5, Sizes
        <3> QED BY <3>3, <3>6 DEF InRows, Usable
    <2>6. (off[w] > 0 /\ off' = off) \/ off' = [off EXCEPT ![w] = Retry]
        BY <2>4, <2>5 DEF Get, DatabaseOff
    <2>7. off'[w] > 0 BY <2>3, <2>6, Sizes DEF TypeInv, TypeOK
    <2>8. slot'[t].worker = w
        <3>1. \A p : Goto(t, p) => slot'[t].worker = w
            BY <2>3 DEF Goto, Working, TypeInv, TypeOK
        <3>2. \A e, labelled : Answered(t, e, labelled) => slot'[t].worker = w
            BY <2>3 DEF Answered, NextVendor, Working, TypeInv, TypeOK
        <3> QED BY <2>1, <3>1, <3>2 DEF Look
    <2> QED BY <2>7, <2>8 DEF DatabaseOff
<1> QED BY <1>1, TypeInit, TypeStep, CoversInit, CoversStep, PTL DEF Spec, PaidOnce
=============================================================================
