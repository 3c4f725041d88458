------------------------------- MODULE Offers -------------------------------
(***************************************************************************)
(* The stored offers of one product and everybody who rewrites them:       *)
(* services/offer_service.py (the comparison page and the store lookup),   *)
(* the offer half of services/catalog.py, _enrich_top and _results_for of  *)
(* services/search_service.py, and refresh_prices of workers/jobs.py.      *)
(*                                                                         *)
(* Every actor works in a database session of its own.  A session keeps    *)
(* the first version it loaded of a row and writes back, at its commit,    *)
(* the columns it changed; it asks vendors in the middle, with the product *)
(* and its offers already loaded.  Row locks only delay the second of two  *)
(* writers and are left out; so are sellers' names, currencies, delivery.  *)
(***************************************************************************)
EXTENDS Plausible

CONSTANTS
    Req,         \* requests and jobs that may be in flight at once
    Slot,        \* store lookups that may outlive the search that started them
    Source,      \* what tells two offers of a product apart: shop, seller, condition
    Answer,      \* what the vendors may return: sets of listings
    FreshFor,    \* OFFER_REFRESH_SECONDS
    ThinFor,     \* OFFER_THIN_REFRESH_SECONDS
    MaxClock,    \* bound on the clock
    MaxServed,   \* bound on the requests and jobs
    MayRestart,  \* may the process be restarted?
    MaxRows,     \* bound on the rows of one source
    NoProduct    \* no row for the product yet

Verdict == {"exact", "doubtful", "other", "unknown"}  \* doubtful: exact, below 0.7
Listing == [src : Source, price : Nat, odd : BOOLEAN, match : Verdict]

Attributes == [flagged : BOOLEAN, attempted : Nat, enriched : Nat]

ASSUME AnswerAssumption ==
    \A a \in Answer : /\ a \subseteq Listing
                      /\ \A k, l \in a : k.src = l.src => k = l
ASSUME ActorAssumption == Req \cap Slot = {}
ASSUME ProductAssumption == NoProduct \notin Attributes
ASSUME TimeAssumption == {FreshFor, MaxClock, MaxRows} \subseteq Nat /\ ThinFor \in Nat \ {0}

VARIABLES
    offers,     \* the offers table: committed rows, each named by its source and
                \* a number (the code's random id)
    history,    \* price observations: the offer and the price
    attrs,      \* the product's attributes, or NoProduct
    session,    \* what each actor has loaded and changed
    now,
    overlapped, \* has a request started while another was in flight?
    served,     \* requests and jobs so far
    launched    \* when a search last decided to start a store lookup, and how many did

vars == <<offers, history, attrs, session, now, overlapped, served, launched>>

Rest == [kind |-> "none", pc |-> "idle", attrs |-> NoProduct, was |-> NoProduct,
         rows |-> <<>>, loaded |-> <<>>, answer |-> {}, noted |-> {}, purged |-> {},
         slot |-> {}]

-----------------------------------------------------------------------------
(* Sessions                                                                *)

Change(p, s) == session' = [session EXCEPT ![p] = s]
Busy(p) == session[p].pc # "idle"

\* The rows of f, and those of g that f does not have.
Over(f, g) == [i \in DOMAIN f \cup DOMAIN g |-> IF i \in DOMAIN f THEN f[i] ELSE g[i]]

\* Rows read: what the session already holds is not replaced.
Load(s, ids) == LET read == [i \in ids |-> offers[i]]
                IN  [s EXCEPT !.rows = Over(@, read), !.loaded = Over(@, read)]

\* Row i as the database has it once the session's changes are flushed.
Flushed(s, i) ==
    IF i \notin DOMAIN offers THEN s.rows[i]
    ELSE IF i \notin DOMAIN s.loaded THEN offers[i]
    ELSE [c \in DOMAIN offers[i] |->
            IF s.rows[i][c] # s.loaded[i][c] THEN s.rows[i][c] ELSE offers[i][c]]

ActiveFor(s) == {i \in DOMAIN offers \cup DOMAIN s.rows : Flushed(s, i).active}

Written(s) ==
    /\ offers' = [i \in DOMAIN offers \cup DOMAIN s.rows |-> Flushed(s, i)]
    /\ history' = (history \ s.purged) \cup s.noted
    /\ attrs' = IF s.attrs # s.was THEN s.attrs ELSE attrs

-----------------------------------------------------------------------------
(* Recording listings                                                      *)

\* Mutant: only offers on show are looked up.
KnownOnShow(s, src) == {i \in ActiveFor(s) : i[1] = src}

\* The rows a listing may belong to; the retired ones count.
Known(s, src) == {i \in DOMAIN offers \cup DOMAIN s.rows : i[1] = src}

\* A row nobody has made yet: two sessions never make the same one.
NewRow(src) == <<src, 1 + Cardinality({i \in DOMAIN offers \cup
                                          UNION {DOMAIN session[q].rows : q \in Req \cup Slot} :
                                          i[1] = src})>>

\* The row a listing goes to.  Of several it may belong to, the query's order
\* decides: the oldest or the latest.
Target(t, src, latest) ==
    LET known == Known(t, src)
        order(i) == IF latest THEN i[2] ELSE MaxRows - i[2]
    IN  IF known = {} THEN NewRow(src)
        ELSE CHOOSE i \in known : \A j \in known : order(j) =< order(i)

\* record_offer and flush_pending for the listings of an answer, by a session
\* that has read the product's offers: an offer is updated, and shown again if
\* it was retired, or made.  A listing that is confidently the product is a
\* price observation too.
Record(t, answer, latest) ==
    LET kept == {l \in answer : l.match # "unknown"}
        row(l) == [price |-> l.price, odd |-> l.odd, match |-> l.match,
                   active |-> TRUE, at |-> now]
        listed(i) == CHOOSE l \in kept : l.src = i[1]
    IN [t EXCEPT !.rows = Over([i \in {Target(t, l.src, latest) : l \in kept} |-> row(listed(i))], @),
                 !.noted = {[offer |-> Target(t, l.src, latest), price |-> l.price] :
                              l \in {k \in kept : k.match = "exact"}}]

-----------------------------------------------------------------------------
(* Healing: implausible offers are retired and their observations removed  *)

\* retire_implausible_offers
Retirement(row, ids) ==
    LET odd == {i \in ids : row[i].odd}
        exact == {i \in ids \ odd : row[i].match \in {"exact", "doubtful"}}
        reference == Reference(row, IF Cardinality(exact) >= 3 THEN exact ELSE ids \ odd)
    IN [retired |-> odd \cup {i \in ids \ odd : BelowFloor(row[i].price, reference)},
        reference |-> reference]

\* Mutant: only prices below the floor are removed from the history.
PurgeCheap(s, r) == {h \in history \cup s.noted : BelowFloor(h.price, r.reference)}

\* purge_implausible_history
Purge(s, r) == {h \in history \cup s.noted :
                  h.offer \in r.retired \/ BelowFloor(h.price, r.reference)}

\* deactivate_implausible_offers on the active offers that session s has read.
Healed(s, r, gone) ==
    [s EXCEPT !.rows = [i \in DOMAIN @ |->
                          IF i \in r.retired THEN [@[i] EXCEPT !.active = FALSE] ELSE @[i]],
              !.purged = gone, !.noted = @ \ gone]

-----------------------------------------------------------------------------
(* What may ask the vendors                                                *)
EnrichmentAttemptedRecently(a) == a.attempted > 0 /\ now - a.attempted < ThinFor
CanEnrich(a) == a.enriched = 0 /\ a.flagged /\ ~EnrichmentAttemptedRecently(a)

\* compare: nothing recorded, everything old, or too thin to compare.
NeedsRefresh(s, ids) ==
    LET age == now - Max({s.rows[i].at : i \in ids})
    IN \/ ids = {}
       \/ age > FreshFor
       \/ Cardinality(ids) < 2 /\ (age > ThinFor \/ CanEnrich(s.attrs))

-----------------------------------------------------------------------------
Never == [at |-> 0, n |-> 0]
OnceMore(count) == [at |-> now, n |-> count.n + 1]

Init ==
    /\ offers = <<>> /\ history = {} /\ attrs = NoProduct
    /\ session = [p \in Req \cup Slot |-> Rest]
    /\ now = 1 /\ served = 0 /\ launched = Never
    /\ overlapped = FALSE

Stored == <<offers, history, attrs>>
Starts(p) ==
    /\ ~Busy(p)
    /\ overlapped' = (overlapped \/ \E q \in Req \cup Slot : Busy(q))
    /\ served < MaxServed /\ served' = served + 1

\* GET /products/{id}/offers: the page loads the product and its offers; a
\* member's refresh is forced.
OpenView(p, forced) ==
    /\ Starts(p) /\ attrs # NoProduct
    /\ LET ids == {i \in DOMAIN offers : offers[i].active}
           s == Load([Rest EXCEPT !.kind = "view", !.attrs = attrs, !.was = attrs], ids)
           ask == forced \/ NeedsRefresh(s, ids)
       IN Change(p, [s EXCEPT !.pc = IF ask THEN "fetch" ELSE "heal"])
    /\ UNCHANGED <<Stored, now, launched>>

\* refresh_prices, for a product somebody tracks.
OpenJob(p) ==
    /\ Starts(p) /\ attrs # NoProduct
    /\ Change(p, [Rest EXCEPT !.kind = "job", !.pc = "fetch", !.attrs = attrs, !.was = attrs])
    /\ UNCHANGED <<Stored, now, launched>>

\* refresh_offers: the vendors have answered, or none of them could.
Answered(p) ==
    /\ session[p].pc = "fetch"
    /\ \E a \in Answer, latest \in BOOLEAN, s \in {Load(session[p], DOMAIN offers)} :
         Change(p, [Record(s, a, latest) EXCEPT
                      !.attrs.enriched = now,
                      !.pc = IF session[p].kind = "view" THEN "heal" ELSE "commit"])
    /\ UNCHANGED <<Stored, now, overlapped, served, launched>>

\* refresh_offers raised before it recorded anything; whoever called goes on.
RefreshRaises(p) ==
    /\ session[p].pc = "fetch"
    /\ Change(p, [session[p] EXCEPT !.pc = IF session[p].kind = "view" THEN "heal" ELSE "commit",
                                    !.answer = {"raised"}])
    /\ UNCHANGED <<Stored, now, overlapped, served, launched>>

-----------------------------------------------------------------------------
(* Search                                                                  *)
Merged(a, flagged) ==
    IF a = NoProduct THEN [flagged |-> flagged, attempted |-> 0, enriched |-> 0]
    ELSE [a EXCEPT !.flagged = @ \/ flagged]

\* The listings of this product, and whether Google says several shops sell it.
OpenSearch(p, answer, flagged) ==
    /\ Starts(p) /\ answer # {}
    /\ Change(p, [Rest EXCEPT !.kind = "search", !.pc = "record", !.answer = answer,
                              !.was = attrs, !.attrs = Merged(attrs, flagged)])
    /\ UNCHANGED <<Stored, now, launched>>

\* _upsert_groups and _record_offers.  Of two searches that make the product
\* the second waits and joins the row of the first.
RecordSearch(p) ==
    /\ session[p].pc = "record"
    /\ session[p].was = NoProduct =>
          \A q \in Req : session[q].was = NoProduct => session[q].pc \in {"idle", "record"}
    /\ \E s \in {Load(session[p], DOMAIN offers)} :
       LET late == s.was = NoProduct /\ attrs # NoProduct
       IN \E latest \in BOOLEAN :
               Change(p, [Record(s, s.answer, latest) EXCEPT
                                   !.pc = "heal",
                                   !.was = IF late THEN attrs ELSE @,
                                   !.attrs = IF late THEN Merged(attrs, s.attrs.flagged) ELSE @])
    /\ UNCHANGED <<Stored, now, overlapped, served, launched>>

\* A search whose card shows one offer of a product that several shops sell
\* looks the others up (_enrich_top).
LooksUp(s, shown) == s.kind = "search" /\ CanEnrich(s.attrs) /\ Cardinality(shown) =< 1

Heal(p) ==
    /\ session[p].pc = "heal"
    /\ \E s \in {Load(session[p], ActiveFor(session[p]) \cap DOMAIN offers)} :
       \E r \in {Retirement(s.rows, ActiveFor(s))} :
         Change(p, [Healed(s, r, Purge(s, r)) EXCEPT
                      !.pc = IF LooksUp(s, ActiveFor(s) \ r.retired) THEN "mark" ELSE "commit"])
    /\ UNCHANGED <<Stored, now, overlapped, served, launched>>

\* Mutants: the attempt is not marked; the lookup starts before the commit.
CommitUnmarked(p) ==
    /\ session[p].pc = "mark"
    /\ LET s == session[p] IN
       /\ Written(s)
       /\ Change(p, [s EXCEPT !.pc = "launch", !.was = s.attrs, !.loaded = s.rows,
                              !.noted = {}, !.purged = {}])
    /\ launched' = OnceMore(launched)
    /\ UNCHANGED <<now, overlapped, served>>
LaunchUncommitted(p) ==
    /\ session[p].pc = "mark"
    /\ Change(p, [session[p] EXCEPT !.pc = "launch", !.attrs.attempted = now])
    /\ launched' = OnceMore(launched)
    /\ UNCHANGED <<Stored, now, overlapped, served>>

\* The attempt is marked and committed before the lookup starts.
CommitMark(p) ==
    /\ session[p].pc = "mark"
    /\ LET s == [session[p] EXCEPT !.attrs.attempted = now] IN
       /\ Written(s)
       /\ Change(p, [s EXCEPT !.pc = "launch", !.was = s.attrs, !.loaded = s.rows,
                              !.noted = {}, !.purged = {}])
    /\ launched' = OnceMore(launched)
    /\ UNCHANGED <<now, overlapped, served>>

\* A lookup for which no slot is left never gets an answer.
Launch(p) ==
    /\ session[p].pc = "launch"
    /\ \/ \E q \in Slot :
            /\ ~Busy(q)
            /\ session' = [session EXCEPT ![p].pc = "wait", ![p].slot = {q},
                                          ![q] = [Rest EXCEPT !.kind = "lookup", !.pc = "open"]]
       \/ (\A q \in Slot : Busy(q)) /\ Change(p, [session[p] EXCEPT !.pc = "wait"])
    /\ UNCHANGED <<Stored, now, overlapped, served, launched>>

\* Mutant: the search waits for as long as the lookup takes.
WaitOn(p) == session[p].pc = "wait" /\ UNCHANGED vars

\* SEARCH_ENRICH_WAIT_SECONDS are over: the search answers with what it has.
TimedOut(p) ==
    /\ session[p].pc = "wait"
    /\ Change(p, [session[p] EXCEPT !.pc = "commit", !.slot = {}])
    /\ UNCHANGED <<Stored, now, overlapped, served, launched>>

\* The lookup refreshed the product: its card is read anew.
Rebuild(p) ==
    /\ session[p].pc = "rebuild"
    /\ Change(p, Load([session[p] EXCEPT !.pc = "commit", !.rows = <<>>, !.loaded = <<>>,
                                         !.attrs = attrs, !.was = attrs],
                      {i \in DOMAIN offers : offers[i].active}))
    /\ UNCHANGED <<Stored, now, overlapped, served, launched>>

-----------------------------------------------------------------------------
(* The store lookup: enrich_in_own_session with force                      *)

\* The lookup ends; a search that still waits for it goes on.
Ends(q, refreshed) ==
    session' = [p \in Req \cup Slot |->
        IF p = q THEN Rest
        ELSE IF q \in session[p].slot
        THEN [session[p] EXCEPT !.pc = IF refreshed THEN "rebuild" ELSE "commit", !.slot = {}]
        ELSE session[p]]

OpenLookup(q) ==
    /\ session[q].pc = "open"
    /\ LET ids == {i \in DOMAIN offers : offers[i].active}
       IN IF attrs = NoProduct \/ Cardinality(ids) >= 2 \/ attrs.enriched # 0 \/ ~attrs.flagged
          THEN Ends(q, FALSE)
          ELSE Change(q, Load([session[q] EXCEPT !.pc = "fetch", !.was = attrs,
                                 !.attrs = [attrs EXCEPT !.attempted = now]], ids))
    /\ UNCHANGED <<Stored, now, overlapped, served, launched>>

-----------------------------------------------------------------------------
Commit(p) ==
    /\ session[p].pc = "commit"
    /\ Written(session[p])
    /\ IF p \in Slot THEN Ends(p, session[p].answer = {}) ELSE Change(p, Rest)
    /\ UNCHANGED <<now, overlapped, served, launched>>

\* The process is restarted: whatever was in flight is gone.
Restart ==
    /\ MayRestart /\ \E p \in Req \cup Slot : Busy(p)
    /\ session' = [p \in Req \cup Slot |-> Rest]
    /\ UNCHANGED <<Stored, now, overlapped, served, launched>>

\* The clock counts retry intervals of half an hour; a lookup ends within its
\* vendors' timeouts, seconds, so none outlasts an interval.
Tick ==
    /\ now < MaxClock /\ \A q \in Slot : ~Busy(q)
    /\ now' = now + 1
    /\ UNCHANGED <<Stored, session, overlapped, served, launched>>

Proceed(p) ==
    \/ Answered(p) \/ RefreshRaises(p)
    \/ RecordSearch(p) \/ Heal(p) \/ CommitMark(p) \/ Launch(p) \/ TimedOut(p) \/ Rebuild(p)
    \/ OpenLookup(p) \/ Commit(p)

Next ==
    \/ \E p \in Req : \/ \E forced \in BOOLEAN : OpenView(p, forced)
                      \/ OpenJob(p)
                      \/ \E a \in Answer, flagged \in BOOLEAN : OpenSearch(p, a, flagged)
    \/ \E p \in Req \cup Slot : Proceed(p)
    \/ Restart \/ Tick

Spec == Init /\ [][Next]_vars

\* A search runs on and its timeouts fire; nothing is assumed of a lookup.
Serve(p) ==
    \/ RecordSearch(p) \/ Heal(p) \/ CommitMark(p) \/ Launch(p) \/ TimedOut(p) \/ Rebuild(p)
    \/ session[p].kind = "search" /\ Commit(p)
FairSpec == Spec /\ \A p \in Req : WF_vars(Serve(p))

-----------------------------------------------------------------------------
\* A store lookup finds the product of the search that started it: the search
\* commits first (_enrich_top).
LookupFindsProduct == \A q \in Slot : session[q].pc = "open" => attrs # NoProduct

\* Two searches served one after the other start no two store lookups within
\* the retry interval, even when the first lookup fails or is still running.
LookupsSpaced ==
    [][launched' # launched /\ launched # Never => launched'.at - launched.at >= ThinFor]_vars

\* A search answers, even if the store lookup it started never ends.
SearchAnswers == \A p \in Req : session[p].kind = "search" ~> session[p].pc = "idle"

\* Served one at a time, requests leave one row for each source of a product,
\* whatever was retired and found again between them.
OneOfferPerSource ==
    ~overlapped => \A i, j \in DOMAIN offers : i[1] = j[1] => i = j

\* Served one at a time, requests leave no observation of a retired offer: the
\* history card reads observations, not offers.
HistoryOfActive == ~overlapped => \A h \in history : offers[h.offer].active
=============================================================================
