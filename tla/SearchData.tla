----------------------------- MODULE SearchData -----------------------------
(***************************************************************************)
(* Search data bought from the vendors: core/cache.py,                     *)
(* providers/search_client.py (SerpApi), providers/serper/client.py and    *)
(* the chain that asks one vendor after the other (providers/chain.py).    *)
(*                                                                         *)
(* A worker is a web process.  Its memory cache, its circuit breakers and  *)
(* the time the database last failed it live in the process and die with   *)
(* it; the rows of api_cache are shared and survive.  A request runs       *)
(* between awaits: a cache read, a vendor call and a cache write are one   *)
(* step each, and other requests of any worker run in between.             *)
(*                                                                         *)
(* Time is kept as ages and as time left, so that the clock needs no bound *)
(* and the model is finite: Tick makes everything one unit older.          *)
(***************************************************************************)
EXTENDS Integers, Sequences, FiniteSets

CONSTANTS
    Worker,     \* web processes
    Tx,         \* requests in flight at once, over all workers
    Vendor,     \* search-data vendors
    Site,       \* installations: their web processes, and the vendors they have a
                \* key for in the order they are asked
    Query,      \* what shoppers search for
    Ttl,        \* lifetime of an answer
    MemTtl,     \* longest lifetime of the copy in memory (one hour)
    Grace,      \* how long an expired row is kept (seven days)
    MemCap,     \* entries the memory cache holds before it evicts (5000)
    Expired,    \* most expired entries one write evicts (1000)
    Oldest,     \* entries evicted when that was not enough (500)
    Retry,      \* how long a worker does without a failing database (one minute)
    Pause,      \* breaker time after a rate limit (one minute)
    Cooldown,   \* breaker time after a quota or key refusal
    Hollow      \* vendors that may have nothing for a query

ASSUME SizesAssumption == /\ {Ttl, MemTtl, Grace, MemCap, Expired} \subseteq Nat
                          /\ {Oldest, Retry, Pause, Cooldown} \subseteq Nat \ {0}
ASSUME HollowAssumption == Hollow \subseteq Vendor
ASSUME SiteAssumption == \A s \in Site : /\ s.workers \subseteq Worker
                                         /\ s.vendors \in Seq(Vendor) \ {<< >>}

VARIABLES
    site,      \* the installation
    memory,    \* each worker's _MemoryCache._store: its entries with their places in
               \* insertion order, as <<place, entry>>
    rows,      \* the api_cache table
    off,       \* time left in which each worker does without the database
    breaker,   \* time left until each worker's breaker for each vendor closes
    slot,      \* the requests
    stored     \* history: age of each key's last committed row, Old for none

vars == <<site, memory, rows, off, breaker, slot, stored>>

-----------------------------------------------------------------------------
Key == Vendor \X Query

\* Ages are not told apart beyond Old.
Old == Ttl + Grace + 1
Older(a) == IF a < Old THEN a + 1 ELSE a
Left(n) == IF n > 0 THEN n - 1 ELSE 0

\* A cached answer: its age, its lifetime, and whether it is empty.
Entry(key, life, items) == [key |-> key, age |-> 0, life |-> life, items |-> items]
Aged(e) == [e EXCEPT !.age = Older(@)]

\* A request at work: pc (look, stale, call, store, done), worker, query, nth (of
\* the vendors), got (the answer at hand), labelled (it carries _buywise_stale).
Idle == [pc |-> "idle"]

VendorOf(t) == site.vendors[slot[t].nth]
KeyOf(t) == <<VendorOf(t), slot[t].query>>

BreakerOpen(w, v) == breaker[w][v] > 0

\* Cache._backend: a worker the database failed does without it for a while.
DatabaseOff(w) == off[w] > 0

-----------------------------------------------------------------------------
(* _MemoryCache and _DatabaseCache *)

\* Mutant: an expired answer is answered like any other.
UsableAlways(e, allowStale) == TRUE

Usable(e, allowStale) == allowStale \/ e.age =< e.life

InMemory(w, k, allowStale) == {e \in {m[2] : m \in memory[w]} : e.key = k /\ Usable(e, allowStale)}
InRows(k, allowStale) == {e \in rows : e.key = k /\ Usable(e, allowStale)}

Finds(w, k, allowStale) == {InMemory(w, k, allowStale), InRows(k, allowStale), {}}

\* Cache.get_json: memory, then the database, which may fail the worker.
Get(w, k, allowStale, found) ==
    \/ /\ InMemory(w, k, allowStale) # {}
       /\ found = InMemory(w, k, allowStale)
       /\ UNCHANGED off
    \/ /\ InMemory(w, k, allowStale) = {}
       /\ found = IF DatabaseOff(w) THEN {} ELSE InRows(k, allowStale)
       /\ UNCHANGED off
    \/ /\ InMemory(w, k, allowStale) = {}
       /\ ~DatabaseOff(w)
       /\ found = {}
       /\ off' = [off EXCEPT ![w] = Retry]

\* The n oldest entries of a store, and a store with the gaps in its places closed.
First(s, n) == {m \in s : Cardinality({l \in s : l[1] < m[1]}) < n}
Closed(s) == {<<Cardinality({l \in s : l[1] =< m[1]}), m[2]>> : m \in s}

\* A full store drops some expired entries and, if still full, the oldest.
Evict(s) ==
    LET kept == s \ First({m \in s : m[2].age > m[2].life}, Expired)
    IN  IF Cardinality(s) =< MemCap THEN s
        ELSE IF Cardinality(kept) =< MemCap THEN Closed(kept)
        ELSE Closed(kept \ First(kept, Oldest))

\* _MemoryCache.set: a key already there keeps its place.
Remember(s, e) ==
    LET kept == Evict(s)
        same == {m \in kept : m[2].key = e.key}
    IN  IF same = {} THEN kept \cup {<<Cardinality(kept) + 1, e>>}
        ELSE (kept \ same) \cup {<<m[1], e>> : m \in same}

\* Mutant: the row expires with the copy in memory.
RowLifetimeShort == IF Ttl < MemTtl THEN Ttl ELSE MemTtl

RowLifetime == Ttl

\* Mutant: the copy in memory lives as long as the row.
CopyLifetimeLong == Ttl

CopyLifetime == IF Ttl < MemTtl THEN Ttl ELSE MemTtl

-----------------------------------------------------------------------------
Init ==
    /\ site \in Site
    /\ memory = [w \in Worker |-> {}]
    /\ rows = {}
    /\ off = [w \in Worker |-> 0]
    /\ breaker = [w \in Worker |-> [v \in Vendor |-> 0]]
    /\ slot = [t \in Tx |-> Idle]
    /\ stored = [k \in Key |-> Old]

Goto(t, p) == slot' = [slot EXCEPT ![t].pc = p]

LastVendor(t) == slot[t].nth = Len(site.vendors)
NextVendor(t) == [slot[t] EXCEPT !.pc = "look", !.nth = slot[t].nth + 1, !.got = {}]

\* _first_answer: the request ends with an answer that has items; on an empty
\* answer or a failure the next vendor is asked.
Answered(t, e, labelled) ==
    slot' = [slot EXCEPT ![t] =
        IF e.items \/ LastVendor(t)
        THEN [slot[t] EXCEPT !.pc = "done", !.got = {e}, !.labelled = labelled]
        ELSE NextVendor(t)]

Failed(t) ==
    slot' = [slot EXCEPT ![t] =
        IF LastVendor(t) THEN [slot[t] EXCEPT !.pc = "done"] ELSE NextVendor(t)]

-----------------------------------------------------------------------------
(* SearchClient.search and SerperClient.post *)

Ask(t, w, q) ==
    /\ slot[t].pc = "idle"
    /\ slot' = [slot EXCEPT ![t] = [pc |-> "look", worker |-> w, query |-> q, nth |-> 1,
                                    got |-> {}, labelled |-> FALSE]]
    /\ UNCHANGED <<site, memory, rows, off, breaker, stored>>

\* The cache is asked first, then the breaker.
Look(t) ==
    LET w == slot[t].worker
    IN  /\ slot[t].pc = "look"
        /\ \E found \in Finds(w, KeyOf(t), FALSE) :
             /\ Get(w, KeyOf(t), FALSE, found)
             /\ IF found # {} THEN \E e \in found : Answered(t, e, FALSE)
                ELSE Goto(t, IF BreakerOpen(w, VendorOf(t)) THEN "stale" ELSE "call")
        /\ UNCHANGED <<site, memory, rows, breaker, stored>>

\* _stale: the expired answer, labelled as such, or a failure.
Stale(t) ==
    LET w == slot[t].worker
    IN  /\ slot[t].pc = "stale"
        /\ \E found \in Finds(w, KeyOf(t), TRUE) :
             /\ Get(w, KeyOf(t), TRUE, found)
             /\ IF found # {} THEN \E e \in found : Answered(t, e, TRUE) ELSE Failed(t)
        /\ UNCHANGED <<site, memory, rows, breaker, stored>>

\* Transport error, HTTP error, invalid JSON: the breaker stays as it is.
VendorFails(t) ==
    /\ slot[t].pc = "call"
    /\ Failed(t)
    /\ UNCHANGED <<site, memory, rows, off, breaker, stored>>

OpenBreaker(t, seconds) ==
    breaker' = [breaker EXCEPT ![slot[t].worker][VendorOf(t)] = seconds]

\* The vendor refuses the API key.
KeyRefused(t) ==
    /\ slot[t].pc = "call"
    /\ OpenBreaker(t, Cooldown)
    /\ Failed(t)
    /\ UNCHANGED <<site, memory, rows, off, stored>>

\* The account has no searches left.  Whether the expired answer is looked for
\* depends on how the vendor says so: not when the body of a 200 does, and not
\* for another HTTP error of Serper's.
QuotaGone(t, lookStale) ==
    /\ slot[t].pc = "call"
    /\ OpenBreaker(t, Cooldown)
    /\ IF lookStale THEN Goto(t, "stale") ELSE Failed(t)
    /\ UNCHANGED <<site, memory, rows, off, stored>>

\* A rate limit opens the breaker for a minute, whatever it was set to.
VendorPauses(t) ==
    /\ slot[t].pc = "call"
    /\ OpenBreaker(t, Pause)
    /\ Failed(t)
    /\ UNCHANGED <<site, memory, rows, off, stored>>

\* An answer, possibly without items: set_json writes the copy in memory, and
\* for a worker without database a second time with the whole lifetime.
VendorAnswers(t, items) ==
    LET w == slot[t].worker
        copy == Entry(KeyOf(t), CopyLifetime, items)
        full == [copy EXCEPT !.life = Ttl]
    IN  /\ slot[t].pc = "call"
        /\ items \/ VendorOf(t) \in Hollow
        /\ IF DatabaseOff(w)
           THEN /\ memory' = [memory EXCEPT ![w] = Remember(Remember(@, copy), full)]
                /\ Answered(t, full, FALSE)
           ELSE /\ memory' = [memory EXCEPT ![w] = Remember(@, copy)]
                /\ slot' = [slot EXCEPT ![t].pc = "store", ![t].got = {copy}]
        /\ UNCHANGED <<site, rows, off, breaker, stored>>

\* _DatabaseCache.set, which may fail the worker.
Store(t) ==
    /\ slot[t].pc = "store"
    /\ \E e \in slot[t].got :
         /\ Answered(t, e, FALSE)
         /\ \/ /\ rows' = {r \in rows : r.key # e.key}
                          \cup {[e EXCEPT !.life = RowLifetime]}
               /\ stored' = [stored EXCEPT ![e.key] = 0]
               /\ UNCHANGED off
            \/ /\ off' = [off EXCEPT ![slot[t].worker] = Retry]
               /\ UNCHANGED <<rows, stored>>
    /\ UNCHANGED <<site, memory, breaker>>

Reply(t) ==
    /\ slot[t].pc = "done"
    /\ slot' = [slot EXCEPT ![t] = Idle]
    /\ UNCHANGED <<site, memory, rows, off, breaker, stored>>

-----------------------------------------------------------------------------
\* Mutant: rows go as soon as they expire.
PurgeAtOnce ==
    /\ rows' = {e \in rows : e.age =< e.life}
    /\ UNCHANGED <<site, memory, off, breaker, slot, stored>>

\* purge_expired, run by the cleanup job and by every 200th write.
Purge ==
    /\ rows' = {e \in rows : e.age =< e.life + Grace}
    /\ UNCHANGED <<site, memory, off, breaker, slot, stored>>

\* A worker dies, with its requests, and a new one starts.
Restart(w) ==
    /\ memory' = [memory EXCEPT ![w] = {}]
    /\ off' = [off EXCEPT ![w] = 0]
    /\ breaker' = [breaker EXCEPT ![w] = [v \in Vendor |-> 0]]
    /\ slot' = [t \in Tx |-> IF slot[t].pc # "idle" /\ slot[t].worker = w THEN Idle
                             ELSE slot[t]]
    /\ UNCHANGED <<site, rows, stored>>

\* A call may take longer than a unit of the clock, a cache access may not.
Tick ==
    /\ \A t \in Tx : slot[t].pc \in {"idle", "call"}
    /\ memory' = [w \in Worker |-> {<<m[1], Aged(m[2])>> : m \in memory[w]}]
    /\ rows' = {Aged(e) : e \in rows}
    /\ off' = [w \in Worker |-> Left(off[w])]
    /\ breaker' = [w \in Worker |-> [v \in Vendor |-> Left(breaker[w][v])]]
    /\ stored' = [k \in Key |-> Older(stored[k])]
    /\ UNCHANGED <<site, slot>>

Request(t) ==
    \/ \E w \in site.workers, q \in Query : Ask(t, w, q)
    \/ Look(t) \/ Stale(t)
    \/ VendorFails(t) \/ KeyRefused(t) \/ VendorPauses(t)
    \/ \E lookStale \in BOOLEAN : QuotaGone(t, lookStale)
    \/ \E items \in BOOLEAN : VendorAnswers(t, items)
    \/ Store(t) \/ Reply(t)

Next ==
    \/ \E t \in Tx : Request(t)
    \/ \E w \in site.workers : Restart(w)
    \/ Purge
    \/ Tick

Spec == Init /\ [][Next]_vars

-----------------------------------------------------------------------------
\* An answer without the stale label was obtained from a vendor at most its
\* lifetime ago, whichever tier of whichever worker it comes from.
UnlabelledIsFresh ==
    \A t \in Tx : slot[t].pc = "done" /\ ~slot[t].labelled =>
        \A e \in slot[t].got : e.age =< Ttl

\* Once an answer is refreshed in the database, every worker that did not get
\* its copy during a database failure answers with the refreshed one, or a
\* newer, after MemTtl.
RefreshReachesWorkers ==
    \A t \in Tx : slot[t].pc = "done" /\ ~slot[t].labelled =>
        \A e \in slot[t].got :
            e.life = CopyLifetime /\ stored[e.key] < e.age => stored[e.key] =< MemTtl

\* An answer that was committed stays in the table, or a newer one does, until
\* lifetime and grace have passed: it is there to be served as stale whenever
\* the vendors refuse, whatever is purged in between.
StaleCovers ==
    \A k \in Key : stored[k] =< Ttl + Grace =>
        \E e \in rows : e.key = k /\ e.age =< stored[k]

\* A question is paid for once: no worker calls a vendor for a key whose answer
\* was committed within its lifetime, across restarts and evictions, unless
\* the database fails that worker.
Calls(t) == slot[t].pc = "look" /\ slot'[t].pc = "call"
PaidOnce ==
    [][\A t \in Tx : Calls(t) => stored[KeyOf(t)] > Ttl \/ DatabaseOff(slot[t].worker)']_vars
=============================================================================
