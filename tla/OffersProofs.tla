---------------------------- MODULE OffersProofs ----------------------------
(***************************************************************************)
(* Proofs about Offers, for any vendors' answers, intervals and numbers of *)
(* requests and lookups.  AttrsInv: a session that starts a lookup has     *)
(* committed the product.  SpacedInv: for requests that come one after the *)
(* other, the mark of the last attempt survives whatever the lookups write *)
(* back.  CalmInv: while no request has started beside another, one        *)
(* session at most has anything to write, and what it would write keeps    *)
(* one row per source and no observation of a retired one.                 *)
(***************************************************************************)
EXTENDS Offers, FiniteSetTheorems, TLAPS

USE ActorAssumption, ProductAssumption, TimeAssumption, AnswerAssumption

Actor == Req \cup Slot
Held == Attributes \cup {NoProduct}

IsSession(s) ==
    s = [kind |-> s.kind, pc |-> s.pc, attrs |-> s.attrs, was |-> s.was, rows |-> s.rows,
         loaded |-> s.loaded, answer |-> s.answer, noted |-> s.noted, purged |-> s.purged,
         slot |-> s.slot]

Unwritten(s) == s.noted = {} /\ s.purged = {}

\* What an actor is doing, and what its session holds at each point.
Stage(p, s) ==
    /\ p \in Req => s.kind # "lookup" /\ s.pc # "open"
    /\ p \in Slot => s.pc \in {"idle", "open", "fetch", "commit"} /\ s.kind \in {"none", "lookup"}
    /\ s.pc \in {"idle", "open", "fetch", "record", "heal", "mark", "launch", "wait", "rebuild",
                 "commit"}
    /\ s.pc = "idle" => s = Rest
    /\ s.pc \in {"open", "record"} => s.rows = <<>> /\ s.loaded = <<>>
    /\ s.pc \in {"open", "record", "fetch"} => Unwritten(s)
    /\ s.pc = "heal" => s.purged = {}
    /\ s.pc = "record" => s.answer \in Answer
    /\ s.slot # {} => s.pc = "wait"

\* The product's attributes, as stored and as held.
AttrsOK(s) ==
    /\ s.attrs \in Held /\ s.was \in Held
    /\ s.pc \notin {"idle", "open"} => s.attrs \in Attributes
    /\ s.was # NoProduct \/ s.pc \in {"open", "launch", "wait", "rebuild"} => attrs # NoProduct

AttrsInv ==
    /\ now \in Nat \ {0} /\ attrs \in Held
    /\ session = [p \in Actor |-> session[p]]
    /\ \A p \in Actor : IsSession(session[p]) /\ Stage(p, session[p]) /\ AttrsOK(session[p])

-----------------------------------------------------------------------------
(* A lookup finds the product *)

\* One session changes.
LEMMA Changed ==
    ASSUME session = [q \in Actor |-> session[q]], NEW p \in Actor, NEW s, Change(p, s)
    PROVE  /\ session'[p] = s /\ session' = [q \in Actor |-> session'[q]]
           /\ \A q \in Actor \ {p} : session'[q] = session[q]
BY DEF Change

LEMMA RestOK == \A p : IsSession(Rest) /\ Stage(p, Rest) /\ AttrsOK(Rest)
BY DEF Rest, IsSession, Stage, AttrsOK, Held, Unwritten

LEMMA AttrsInit == Init => AttrsInv
<1> SUFFICES ASSUME Init PROVE AttrsInv
    OBVIOUS
<1>1. ASSUME NEW p \in Actor PROVE session[p] = Rest BY DEF Init, Actor
<1>2. session = [p \in Actor |-> session[p]] BY DEF Init, Actor
<1> QED BY <1>1, <1>2, RestOK DEF Init, AttrsInv, Held

\* What a session writes is a product.
LEMMA AttrsWritten ==
    ASSUME AttrsInv, NEW s, Written(s), s.attrs \in Attributes, s.was \in Held,
           s.was # NoProduct => attrs # NoProduct
    PROVE  attrs' \in Attributes
BY DEF AttrsInv, Written, Held

\* One session moves on, and the product stays.
LEMMA OneMoves ==
    ASSUME AttrsInv, NEW p \in Actor, NEW s, Change(p, s), now' = now,
           attrs' \in Held, attrs # NoProduct => attrs' # NoProduct,
           IsSession(s), Stage(p, s), AttrsOK(s)'
    PROVE  AttrsInv'
<1>1. /\ session'[p] = s /\ session' = [q \in Actor |-> session'[q]]
      /\ \A q \in Actor \ {p} : session'[q] = session[q]
    BY Changed DEF AttrsInv
<1>2. ASSUME NEW q \in Actor
      PROVE  (IsSession(session[q]) /\ Stage(q, session[q]) /\ AttrsOK(session[q]))'
    <2>1. CASE q = p BY <1>1, <2>1 DEF IsSession, Stage, AttrsOK
    <2>2. CASE q # p
        <3>1. session'[q] = session[q] BY <1>1, <2>2
        <3> QED BY <3>1 DEF AttrsInv, IsSession, Stage, AttrsOK
    <2> QED BY <2>1, <2>2
<1> QED BY <1>1, <1>2 DEF AttrsInv

\* Reading, recording and healing concern rows and observations only.
Alike(s, u) ==
    /\ u.kind = s.kind /\ u.pc = s.pc /\ u.attrs = s.attrs /\ u.was = s.was
    /\ u.answer = s.answer /\ u.slot = s.slot

LEMMA LoadIs ==
    ASSUME NEW s, IsSession(s), NEW ids, NEW u, u = Load(s, ids)
    PROVE  /\ IsSession(u) /\ Alike(s, u) /\ u.noted = s.noted /\ u.purged = s.purged
           /\ u.rows = Over(s.rows, [i \in ids |-> offers[i]])
           /\ u.loaded = Over(s.loaded, [i \in ids |-> offers[i]])
<1> DEFINE read == [i \in ids |-> offers[i]]
<1>1. u = [s EXCEPT !.rows = Over(s.rows, read), !.loaded = Over(s.loaded, read)] BY DEF Load
<1> HIDE DEF read
<1>2. PICK rows, loaded : rows = Over(s.rows, read) /\ loaded = Over(s.loaded, read) OBVIOUS
<1>3. u = [s EXCEPT !.rows = rows, !.loaded = loaded] BY <1>1, <1>2
<1>4. IsSession(u) /\ Alike(s, u) /\ u.noted = s.noted /\ u.purged = s.purged
      /\ u.rows = rows /\ u.loaded = loaded
    BY <1>3 DEF IsSession, Alike
<1> QED BY <1>2, <1>4 DEF read

LEMMA RecordIs ==
    ASSUME NEW s, IsSession(s), NEW answer, NEW latest, NEW u, u = Record(s, answer, latest)
    PROVE  IsSession(u) /\ Alike(s, u) /\ u.loaded = s.loaded /\ u.purged = s.purged
<1>1. PICK rows, noted : u = [s EXCEPT !.rows = rows, !.noted = noted] BY DEF Record
<1> QED BY <1>1 DEF IsSession, Alike

LEMMA HealedIs ==
    ASSUME NEW s, IsSession(s), NEW r, NEW gone, NEW u, u = Healed(s, r, gone)
    PROVE  IsSession(u) /\ Alike(s, u) /\ u.loaded = s.loaded
<1>1. PICK rows, noted : u = [s EXCEPT !.rows = rows, !.purged = gone, !.noted = noted]
    BY DEF Healed
<1> QED BY <1>1 DEF IsSession, Alike

LEMMA MergedIs ==
    ASSUME NEW a \in Held, NEW flagged \in BOOLEAN
    PROVE  /\ Merged(a, flagged) \in Attributes
           /\ a # NoProduct => Merged(a, flagged).attempted = a.attempted
BY DEF Merged, Held, Attributes

\* A step of p's session to s that writes nothing.
Goes(p, s) ==
    /\ Change(p, s) /\ IsSession(s) /\ Stage(p, s) /\ AttrsOK(s)'
    /\ UNCHANGED <<attrs, now, launched>>

\* A request begins with the attributes as they are stored.
Begins(s) ==
    /\ s.pc \in {"fetch", "heal", "record"} /\ s.was = attrs
    /\ attrs # NoProduct => s.attrs.attempted = attrs.attempted

Opens(p) ==
    \/ \E forced \in BOOLEAN : OpenView(p, forced)
    \/ OpenJob(p)
    \/ \E a \in Answer, flagged \in BOOLEAN : OpenSearch(p, a, flagged)

LEMMA OpensAre ==
    ASSUME AttrsInv, NEW p \in Req, Opens(p)
    PROVE  \E s : Goes(p, s) /\ Begins(s)
<1>1. ASSUME NEW forced \in BOOLEAN, OpenView(p, forced) PROVE \E s : Goes(p, s) /\ Begins(s)
    <2>1. PICK o : o = [Rest EXCEPT !.kind = "view", !.attrs = attrs, !.was = attrs] OBVIOUS
    <2>2. PICK u : u = Load(o, {i \in DOMAIN offers : offers[i].active}) OBVIOUS
    <2>3. PICK pc \in {"fetch", "heal"} : Change(p, [u EXCEPT !.pc = pc])
        <3> DEFINE ids == {i \in DOMAIN offers : offers[i].active}
                   next == IF forced \/ NeedsRefresh(u, ids) THEN "fetch" ELSE "heal"
        <3>1. Change(p, [u EXCEPT !.pc = next]) BY <1>1, <2>1, <2>2 DEF OpenView
        <3>2. next \in {"fetch", "heal"} OBVIOUS
        <3> HIDE DEF next
        <3> QED BY <3>1, <3>2
    <2>4. PICK s : Change(p, s) /\ s = [u EXCEPT !.pc = pc] BY <2>3
    <2>8. IsSession(o) BY <2>1 DEF Rest, IsSession
    <2>5. IsSession(u) /\ Alike(o, u) /\ u.noted = o.noted /\ u.purged = o.purged
        BY <2>2, <2>8, LoadIs
    <2>6. UNCHANGED <<attrs, now, launched>> /\ attrs # NoProduct /\ attrs \in Held
        BY <1>1 DEF OpenView, Stored, AttrsInv
    <2>7. IsSession(s) /\ Stage(p, s) /\ AttrsOK(s)'
        BY <2>1, <2>4, <2>5, <2>6 DEF Rest, IsSession, Alike, Stage, AttrsOK, Held, Unwritten
    <2>9. Begins(s) BY <2>1, <2>4, <2>5 DEF IsSession, Alike, Begins, Rest
    <2> QED BY <2>4, <2>6, <2>7, <2>9 DEF Goes
<1>2. ASSUME OpenJob(p) PROVE \E s : Goes(p, s) /\ Begins(s)
    <2>1. PICK s : /\ Change(p, s)
                   /\ s = [Rest EXCEPT !.kind = "job", !.pc = "fetch", !.attrs = attrs,
                                       !.was = attrs]
        BY <1>2 DEF OpenJob
    <2>2. UNCHANGED <<attrs, now, launched>> /\ attrs # NoProduct /\ attrs \in Held
        BY <1>2 DEF OpenJob, Stored, AttrsInv
    <2>3. IsSession(s) /\ Stage(p, s) /\ AttrsOK(s)'
        BY <2>1, <2>2 DEF Rest, IsSession, Stage, AttrsOK, Held, Unwritten
    <2>4. Begins(s) BY <2>1 DEF Begins, Rest
    <2> QED BY <2>1, <2>2, <2>3, <2>4 DEF Goes
<1>3. ASSUME NEW a \in Answer, NEW flagged \in BOOLEAN, OpenSearch(p, a, flagged)
      PROVE  \E s : Goes(p, s) /\ Begins(s)
    <2>1. PICK s : /\ Change(p, s)
                   /\ s = [Rest EXCEPT !.kind = "search", !.pc = "record", !.answer = a,
                                       !.was = attrs, !.attrs = Merged(attrs, flagged)]
        BY <1>3 DEF OpenSearch
    <2>2. UNCHANGED <<attrs, now, launched>> /\ attrs \in Held
        BY <1>3 DEF OpenSearch, Stored, AttrsInv
    <2>3. PICK m \in Attributes : m = Merged(attrs, flagged) /\ (attrs # NoProduct => m.attempted = attrs.attempted)
        BY <2>2, MergedIs
    <2>4. IsSession(s) /\ Stage(p, s) /\ AttrsOK(s)'
        BY <2>1, <2>2, <2>3 DEF Rest, IsSession, Stage, AttrsOK, Held, Unwritten
    <2>5. Begins(s) BY <2>1, <2>3 DEF Begins, Rest
    <2> QED BY <2>1, <2>2, <2>4, <2>5 DEF Goes
<1> QED BY <1>1, <1>2, <1>3 DEF Opens

\* Reading, recording and healing keep the mark of the last attempt as the
\* session read it; a search that made a product may find that it is there.
Works(p, s) ==
    LET t == session[p] IN
    /\ t.pc \in {"fetch", "record", "heal"} /\ s.pc \in {"heal", "mark", "commit"}
    /\ \/ s.was = t.was /\ s.attrs.attempted = t.attrs.attempted
       \/ /\ t.pc = "record" /\ s.was = attrs /\ attrs # NoProduct
          /\ s.attrs.attempted = attrs.attempted
    /\ s.pc = "mark" => t.kind = "search" /\ CanEnrich(s.attrs)

LEMMA WorksAre ==
    ASSUME AttrsInv, NEW p \in Actor, Answered(p) \/ RefreshRaises(p) \/ RecordSearch(p) \/ Heal(p)
    PROVE  \E s : Goes(p, s) /\ Works(p, s)
<1>0. /\ IsSession(session[p]) /\ Stage(p, session[p]) /\ AttrsOK(session[p])
      /\ attrs \in Held /\ now \in Nat
    BY DEF AttrsInv
<1>1. ASSUME Answered(p) PROVE \E s : Goes(p, s) /\ Works(p, s)
    <2>1. PICK a \in Answer, latest \in BOOLEAN, t \in {Load(session[p], DOMAIN offers)} :
             Change(p, [Record(t, a, latest) EXCEPT
                          !.attrs.enriched = now,
                          !.pc = IF session[p].kind = "view" THEN "heal" ELSE "commit"])
        BY <1>1 DEF Answered
    <2>2. PICK u : u = Record(t, a, latest) OBVIOUS
    <2>3. t = Load(session[p], DOMAIN offers) BY <2>1
    <2>5. IsSession(t) /\ Alike(session[p], t) /\ t.purged = session[p].purged
        BY ZenonT(60), <1>0, <2>3, LoadIs
    <2>6. IsSession(u) /\ Alike(t, u) /\ u.purged = t.purged BY <2>2, <2>5, RecordIs
    <2>7. session[p].pc = "fetch" /\ UNCHANGED <<attrs, now, launched>> BY <1>1 DEF Answered, Stored
    <2>8. PICK a2 \in Attributes : /\ a2 = [u.attrs EXCEPT !.enriched = now]
                                  /\ a2.attempted = u.attrs.attempted
        <3>1. u.attrs \in Attributes BY <1>0, <2>5, <2>6, <2>7 DEF Alike, AttrsOK
        <3>2. PICK w \in Attributes : w = u.attrs BY <3>1
        <3>3. PICK x : x = [w EXCEPT !.enriched = now] OBVIOUS
        <3>4. x \in Attributes /\ x.attempted = w.attempted BY <1>0, <3>3 DEF Attributes
        <3> QED BY <3>2, <3>3, <3>4
    <2>9. PICK pc \in {"heal", "commit"} :
             pc = IF session[p].kind = "view" THEN "heal" ELSE "commit"
        OBVIOUS
    <2>10. PICK s : s = [u EXCEPT !.attrs = a2, !.pc = pc] OBVIOUS
    <2>11. Change(p, s) BY <2>1, <2>2, <2>8, <2>9, <2>10
    <2>12. IsSession(s) /\ Stage(p, s) /\ AttrsOK(s)'
        BY <1>0, <2>5, <2>6, <2>7, <2>9, <2>10
        DEF IsSession, Alike, Stage, AttrsOK, Held, Unwritten
    <2>13. /\ s.was = session[p].was /\ s.attrs.attempted = session[p].attrs.attempted
           /\ s.pc \in {"heal", "commit"}
        BY <2>5, <2>6, <2>8, <2>10 DEF IsSession, Alike, Attributes
    <2> QED BY <2>7, <2>11, <2>12, <2>13 DEF Goes, Works
<1>2. ASSUME RefreshRaises(p) PROVE \E s : Goes(p, s) /\ Works(p, s)
    <2>1. PICK s : s = [session[p] EXCEPT
                          !.pc = IF session[p].kind = "view" THEN "heal" ELSE "commit",
                          !.answer = {"raised"}]
        OBVIOUS
    <2>2. Change(p, s) /\ session[p].pc = "fetch" /\ UNCHANGED <<attrs, now, launched>>
        BY <1>2, <2>1 DEF RefreshRaises, Stored
    <2>3. IsSession(s) /\ Stage(p, s) /\ AttrsOK(s)'
        BY <1>0, <2>1, <2>2 DEF IsSession, Stage, AttrsOK, Held, Unwritten
    <2>4. Works(p, s) BY <1>0, <2>1, <2>2 DEF IsSession, Works
    <2> QED BY <2>2, <2>3, <2>4 DEF Goes
<1>3. ASSUME RecordSearch(p) PROVE \E s : Goes(p, s) /\ Works(p, s)
    <2>1. PICK t \in {Load(session[p], DOMAIN offers)} :
             LET late == t.was = NoProduct /\ attrs # NoProduct
             IN \E latest \in BOOLEAN :
                  Change(p, [Record(t, t.answer, latest) EXCEPT
                               !.pc = "heal",
                               !.was = IF late THEN attrs ELSE @,
                               !.attrs = IF late THEN Merged(attrs, t.attrs.flagged) ELSE @])
        BY <1>3 DEF RecordSearch
    <2>2. IsSession(t) /\ Alike(session[p], t) /\ t.purged = session[p].purged
        <3>1. t = Load(session[p], DOMAIN offers) BY <2>1
        <3> QED BY ZenonT(60), <1>0, <3>1, LoadIs
    <2>3. session[p].pc = "record" /\ UNCHANGED <<attrs, now, launched>>
        BY <1>3 DEF RecordSearch, Stored
    <2>4. PICK m \in Attributes : t.was = NoProduct /\ attrs # NoProduct =>
             m = Merged(attrs, t.attrs.flagged) /\ m.attempted = attrs.attempted
        <3>1. t.attrs \in Attributes BY <1>0, <2>2, <2>3 DEF Alike, AttrsOK
        <3>2. t.attrs.flagged \in BOOLEAN BY <3>1 DEF Attributes
        <3> QED BY <1>0, <3>1, <3>2, MergedIs
    <2>5. PICK u, latest : /\ u = Record(t, t.answer, latest)
                           /\ \/ /\ t.was = NoProduct /\ attrs # NoProduct
                                 /\ Change(p, [u EXCEPT !.pc = "heal", !.was = attrs, !.attrs = m])
                              \/ /\ ~(t.was = NoProduct /\ attrs # NoProduct)
                                 /\ Change(p, [u EXCEPT !.pc = "heal", !.was = @, !.attrs = @])
        <3>1. CASE t.was = NoProduct /\ attrs # NoProduct BY <2>1, <2>4, <3>1
        <3>2. CASE ~(t.was = NoProduct /\ attrs # NoProduct) BY <2>1, <3>2
        <3> QED BY <3>1, <3>2
    <2>6. IsSession(u) /\ Alike(t, u) /\ u.purged = t.purged BY <2>2, <2>5, RecordIs
    <2>7. PICK s : /\ Change(p, s)
                   /\ \/ /\ t.was = NoProduct /\ attrs # NoProduct
                         /\ s = [u EXCEPT !.pc = "heal", !.was = attrs, !.attrs = m]
                      \/ s = [u EXCEPT !.pc = "heal", !.was = @, !.attrs = @]
        BY <2>5
    <2>9. /\ IsSession(s) /\ s.pc = "heal" /\ s.kind = u.kind /\ s.slot = u.slot
          /\ s.purged = u.purged
          /\ \/ attrs # NoProduct /\ s.was = attrs /\ s.attrs = m /\ m.attempted = attrs.attempted
             \/ s.was = u.was /\ s.attrs = u.attrs
        BY <2>4, <2>6, <2>7 DEF IsSession
    <2>8. IsSession(s) /\ Stage(p, s) /\ AttrsOK(s)'
        BY <1>0, <2>2, <2>3, <2>6, <2>9 DEF Alike, Stage, AttrsOK, Held, Unwritten
    <2>10. Works(p, s) BY <2>2, <2>3, <2>6, <2>9 DEF Alike, Works
    <2> QED BY <2>3, <2>7, <2>8, <2>10 DEF Goes
<1>4. ASSUME Heal(p) PROVE \E s : Goes(p, s) /\ Works(p, s)
    <2>1. PICK t \in {Load(session[p], ActiveFor(session[p]) \cap DOMAIN offers)} :
          \E r \in {Retirement(t.rows, ActiveFor(t))} :
             Change(p, [Healed(t, r, Purge(t, r)) EXCEPT
                          !.pc = IF LooksUp(t, ActiveFor(t) \ r.retired) THEN "mark" ELSE "commit"])
        BY <1>4 DEF Heal
    <2>2. PICK r : Change(p, [Healed(t, r, Purge(t, r)) EXCEPT
                          !.pc = IF LooksUp(t, ActiveFor(t) \ r.retired) THEN "mark" ELSE "commit"])
        BY <2>1
    <2>3. PICK u : u = Healed(t, r, Purge(t, r)) OBVIOUS
    <2>4. PICK pc \in {"mark", "commit"} :
             /\ Change(p, [u EXCEPT !.pc = pc])
             /\ pc = "mark" => LooksUp(t, ActiveFor(t) \ r.retired)
        <3> DEFINE next == IF LooksUp(t, ActiveFor(t) \ r.retired) THEN "mark" ELSE "commit"
        <3>1. next \in {"mark", "commit"} /\ (next = "mark" => LooksUp(t, ActiveFor(t) \ r.retired))
            OBVIOUS
        <3>2. Change(p, [u EXCEPT !.pc = next]) BY <2>2, <2>3
        <3> HIDE DEF next
        <3> QED BY <3>1, <3>2
    <2>5. PICK s : Change(p, s) /\ s = [u EXCEPT !.pc = pc] BY <2>4
    <2>6. IsSession(t) /\ Alike(session[p], t) BY <1>0, <2>1, LoadIs
    <2>7. IsSession(u) /\ Alike(t, u) BY <2>3, <2>6, HealedIs
    <2>8. session[p].pc = "heal" /\ UNCHANGED <<attrs, now, launched>> BY <1>4 DEF Heal, Stored
    <2>9. IsSession(s) /\ Stage(p, s) /\ AttrsOK(s)'
        BY <1>0, <2>5, <2>6, <2>7, <2>8 DEF IsSession, Alike, Stage, AttrsOK, Held, Unwritten
    <2>10. /\ s.pc = pc /\ s.attrs = t.attrs /\ s.attrs = session[p].attrs /\ s.was = session[p].was
           /\ t.kind = session[p].kind
        BY <2>5, <2>6, <2>7 DEF IsSession, Alike
    <2>11. pc = "mark" => t.kind = "search" /\ CanEnrich(t.attrs) BY <2>4 DEF LooksUp
    <2>12. Works(p, s) BY <2>8, <2>10, <2>11 DEF Works
    <2> QED BY <2>5, <2>8, <2>9, <2>12 DEF Goes
<1> QED BY <1>1, <1>2, <1>3, <1>4

\* The attempt is marked, in the session and in what is committed.
Marks(p, s) ==
    /\ session[p].pc = "mark" /\ s.pc = "launch" /\ s.attrs \in Attributes /\ s.attrs.attempted = now
    /\ session[p].was = NoProduct \/ session[p].was.attempted # now => attrs' = s.attrs

LEMMA MarkIs ==
    ASSUME AttrsInv, NEW p \in Actor, CommitMark(p)
    PROVE  /\ AttrsInv'
           /\ \E s : Change(p, s) /\ Marks(p, s)
           /\ UNCHANGED now /\ launched' = OnceMore(launched)
<1>0. /\ IsSession(session[p]) /\ Stage(p, session[p]) /\ AttrsOK(session[p])
      /\ attrs \in Held /\ now \in Nat
    BY DEF AttrsInv
<1>1. PICK t : t = [session[p] EXCEPT !.attrs.attempted = now] OBVIOUS
<1>2. /\ session[p].pc = "mark" /\ Written(t) /\ now' = now /\ launched' = OnceMore(launched)
      /\ Change(p, [t EXCEPT !.pc = "launch", !.was = t.attrs, !.loaded = t.rows,
                             !.noted = {}, !.purged = {}])
    BY <1>1 DEF CommitMark
<1>3. IsSession(t) /\ Alike([session[p] EXCEPT !.attrs = t.attrs], t) /\ t.attrs \in Attributes
    BY <1>0, <1>1, <1>2 DEF IsSession, Alike, AttrsOK, Attributes
<1>4. attrs' \in Attributes
    BY <1>0, <1>1, <1>2, <1>3, AttrsWritten DEF IsSession, AttrsOK
<1>5. PICK s : /\ Change(p, s)
               /\ s = [t EXCEPT !.pc = "launch", !.was = t.attrs, !.loaded = t.rows,
                                !.noted = {}, !.purged = {}]
    BY <1>2
<1>6. IsSession(s) /\ Stage(p, s) /\ AttrsOK(s)'
    BY <1>0, <1>1, <1>2, <1>3, <1>4, <1>5
    DEF IsSession, Alike, Stage, AttrsOK, Held, Unwritten
<1>7. /\ s.pc = "launch" /\ s.attrs = t.attrs /\ t.was = session[p].was /\ t.attrs.attempted = now
    BY <1>0, <1>1, <1>2, <1>3, <1>5 DEF IsSession, Alike, AttrsOK, Attributes
<1>8. t.was = NoProduct \/ t.was.attempted # now => attrs' = t.attrs
    BY <1>2, <1>3, <1>7 DEF Written
<1>9. Marks(p, s) BY <1>2, <1>3, <1>7, <1>8 DEF Marks
<1>10. AttrsInv' BY <1>2, <1>4, <1>5, <1>6, OneMoves DEF Held
<1> QED BY <1>2, <1>5, <1>9, <1>10

\* The wait is over.
Waited(p, s) ==
    /\ session[p].pc \in {"wait", "rebuild"} /\ s.pc = "commit"
    /\ s.attrs = attrs \/ s.attrs = session[p].attrs

LEMMA WaitsAre ==
    ASSUME AttrsInv, NEW p \in Actor, TimedOut(p) \/ Rebuild(p)
    PROVE  \E s : Goes(p, s) /\ Waited(p, s)
<1>0. /\ IsSession(session[p]) /\ Stage(p, session[p]) /\ AttrsOK(session[p])
      /\ attrs \in Held /\ now \in Nat
    BY DEF AttrsInv
<1>1. ASSUME TimedOut(p) PROVE \E s : Goes(p, s) /\ Waited(p, s)
    <2>1. PICK s : s = [session[p] EXCEPT !.pc = "commit", !.slot = {}] OBVIOUS
    <2>2. Change(p, s) /\ session[p].pc = "wait" /\ UNCHANGED <<attrs, now, launched>>
        BY <1>1, <2>1 DEF TimedOut, Stored
    <2>3. IsSession(s) /\ Stage(p, s) /\ AttrsOK(s)'
        BY <1>0, <2>1, <2>2 DEF IsSession, Stage, AttrsOK, Held, Unwritten
    <2>4. Waited(p, s) BY <1>0, <2>1, <2>2 DEF IsSession, Waited
    <2> QED BY <2>2, <2>3, <2>4 DEF Goes
<1>2. ASSUME Rebuild(p) PROVE \E s : Goes(p, s) /\ Waited(p, s)
    <2>1. PICK t : t = [session[p] EXCEPT !.pc = "commit", !.rows = <<>>, !.loaded = <<>>,
                                          !.attrs = attrs, !.was = attrs]
        OBVIOUS
    <2>2. PICK s : s = Load(t, {i \in DOMAIN offers : offers[i].active}) OBVIOUS
    <2>3. Change(p, s) /\ session[p].pc = "rebuild" /\ UNCHANGED <<attrs, now, launched>>
        BY <1>2, <2>1, <2>2 DEF Rebuild, Stored
    <2>4. IsSession(t) BY <1>0, <2>1 DEF IsSession
    <2>5. IsSession(s) /\ Alike(t, s) BY <2>2, <2>4, LoadIs
    <2>6. Stage(p, s) /\ AttrsOK(s)'
        BY <1>0, <2>1, <2>3, <2>5 DEF IsSession, Alike, Stage, AttrsOK, Held, Unwritten
    <2>7. Waited(p, s) BY <1>0, <2>1, <2>3, <2>5 DEF IsSession, Alike, Waited
    <2> QED BY <2>3, <2>5, <2>6, <2>7 DEF Goes
<1> QED BY <1>1, <1>2

\* Several sessions move on.
LEMMA AllMove ==
    ASSUME AttrsInv, now' \in Nat \ {0}, attrs' \in Held, attrs # NoProduct => attrs' # NoProduct,
           session' = [q \in Actor |-> session'[q]],
           \A q \in Actor : \/ session'[q] = session[q]
                            \/ (IsSession(session[q]) /\ Stage(q, session[q]) /\ AttrsOK(session[q]))'
    PROVE  AttrsInv'
<1>1. ASSUME NEW q \in Actor
      PROVE  (IsSession(session[q]) /\ Stage(q, session[q]) /\ AttrsOK(session[q]))'
    <2>1. CASE session'[q] = session[q] BY <2>1 DEF AttrsInv, IsSession, Stage, AttrsOK
    <2> QED BY <2>1
<1> QED BY <1>1 DEF AttrsInv

\* What may become of a session when a lookup starts, opens or ends, or a
\* session ends.
Passes(q) ==
    \/ session'[q] = session[q]
    \/ session'[q].pc \in {"idle", "open"}
    \/ /\ session[q].pc \in {"launch", "wait"} /\ session'[q].pc \in {"wait", "rebuild", "commit"}
       /\ session'[q].attrs = session[q].attrs
    \/ q \in Slot /\ session'[q].pc = "fetch" /\ session'[q].attrs.attempted = now

\* A lookup ends: a search that still waits for it goes on.
LEMMA EndsIs ==
    ASSUME AttrsInv, NEW p \in Actor, NEW refreshed, Ends(p, refreshed)
    PROVE  /\ session' = [q \in Actor |-> session'[q]]
           /\ session'[p] = Rest
           /\ \A q \in Actor \ {p} :
                 \/ session'[q] = session[q]
                 \/ /\ session[q].pc = "wait"
                    /\ \E pc \in {"rebuild", "commit"} :
                          session'[q] = [session[q] EXCEPT !.pc = pc, !.slot = {}]
<1> DEFINE next == IF refreshed THEN "rebuild" ELSE "commit"
<1>a. session' = [q \in Actor |-> session'[q]] BY DEF Ends, Actor
<1>b. session'[p] = Rest BY DEF Ends, Actor
<1>c. ASSUME NEW q \in Actor \ {p}, p \notin session[q].slot PROVE session'[q] = session[q]
    BY <1>c DEF Ends, Actor
<1>d. ASSUME NEW q \in Actor \ {p}, p \in session[q].slot
      PROVE  session'[q] = [session[q] EXCEPT !.pc = next, !.slot = {}]
    BY <1>d DEF Ends, Actor
<1>2. next \in {"rebuild", "commit"} OBVIOUS
<1> HIDE DEF next
<1>3. ASSUME NEW q \in Actor \ {p}, p \in session[q].slot PROVE session[q].pc = "wait"
    BY <1>3 DEF AttrsInv, Stage
<1> QED BY <1>a, <1>b, <1>c, <1>d, <1>2, <1>3

LEMMA EndsInv ==
    ASSUME AttrsInv, NEW p \in Actor, NEW refreshed, Ends(p, refreshed), now' = now,
           attrs' \in Held, attrs # NoProduct => attrs' # NoProduct
    PROVE  AttrsInv' /\ \A q \in Actor : Passes(q)
<1>1. now \in Nat \ {0} BY DEF AttrsInv
<1>2. ASSUME NEW q \in Actor
      PROVE  /\ Passes(q)
             /\ \/ session'[q] = session[q]
                \/ (IsSession(session[q]) /\ Stage(q, session[q]) /\ AttrsOK(session[q]))'
    <2>1. CASE q = p
        <3>1. session'[q] = Rest BY <2>1, EndsIs
        <3> QED BY <3>1, RestOK DEF Rest, IsSession, Stage, AttrsOK, Passes
    <2>2. CASE q # p /\ session'[q] # session[q]
        <3>1. /\ session[q].pc = "wait"
              /\ \E pc \in {"rebuild", "commit"} :
                    session'[q] = [session[q] EXCEPT !.pc = pc, !.slot = {}]
            BY <2>2, EndsIs
        <3>2. PICK pc \in {"rebuild", "commit"} :
                 session'[q] = [session[q] EXCEPT !.pc = pc, !.slot = {}]
            BY <3>1
        <3>3. IsSession(session[q]) /\ Stage(q, session[q]) /\ AttrsOK(session[q]) BY DEF AttrsInv
        <3>4. PICK s : s = [session[q] EXCEPT !.pc = pc, !.slot = {}] OBVIOUS
        <3>5. IsSession(s) /\ Stage(q, s) /\ AttrsOK(s)'
            BY <3>1, <3>3, <3>4 DEF IsSession, Stage, AttrsOK, Unwritten
        <3>6. s.pc = pc /\ s.attrs = session[q].attrs BY <3>3, <3>4 DEF IsSession
        <3>7. Passes(q) BY <3>1, <3>2, <3>4, <3>6 DEF Passes
        <3> QED BY <3>2, <3>4, <3>5, <3>7 DEF IsSession, Stage, AttrsOK
    <2> QED BY <2>1, <2>2 DEF Passes
<1> QED BY <1>1, <1>2, EndsIs, AllMove

\* Lookups and the ends of sessions.
Handled(p) ==
    /\ UNCHANGED <<now, launched>>
    /\ attrs' = attrs \/ (session[p].pc = "commit" /\ attrs' = session[p].attrs)
    /\ \A q \in Actor : Passes(q)

LEMMA LookupsAre ==
    ASSUME AttrsInv, NEW p \in Actor, Launch(p) \/ OpenLookup(p) \/ Commit(p)
    PROVE  AttrsInv' /\ Handled(p)
<1>0. /\ IsSession(session[p]) /\ Stage(p, session[p]) /\ AttrsOK(session[p])
      /\ attrs \in Held /\ now \in Nat
    BY DEF AttrsInv
<1>1. ASSUME Launch(p) PROVE AttrsInv' /\ Handled(p)
    <2>1. session[p].pc = "launch" /\ UNCHANGED <<attrs, now, launched>>
        BY <1>1 DEF Launch, Stored
    <2>2. CASE Change(p, [session[p] EXCEPT !.pc = "wait"])
        <3>1. PICK s : s = [session[p] EXCEPT !.pc = "wait"] OBVIOUS
        <3>2. IsSession(s) /\ Stage(p, s) /\ AttrsOK(s)'
            BY <1>0, <2>1, <3>1 DEF IsSession, Stage, AttrsOK, Unwritten
        <3>3. s.pc = "wait" /\ s.attrs = session[p].attrs BY <1>0, <3>1 DEF IsSession
        <3>4. \A q \in Actor : Passes(q)
            <4>1. session'[p] = s /\ \A q \in Actor \ {p} : session'[q] = session[q]
                BY <2>2, <3>1, Changed DEF AttrsInv
            <4> QED BY <2>1, <3>3, <4>1 DEF Passes
        <3> QED BY <1>0, <2>1, <2>2, <3>1, <3>2, <3>4, OneMoves DEF Handled
    <2>3. ASSUME NEW q \in Slot, ~Busy(q),
                 session' = [session EXCEPT ![p].pc = "wait", ![p].slot = {q},
                                            ![q] = [Rest EXCEPT !.kind = "lookup", !.pc = "open"]]
          PROVE  AttrsInv' /\ Handled(p)
        <3>1. p # q /\ q \in Actor BY <2>1, <2>3 DEF Busy, Actor
        <3>2. PICK s : s = [session[p] EXCEPT !.pc = "wait", !.slot = {q}] OBVIOUS
        <3>3. PICK u : u = [Rest EXCEPT !.kind = "lookup", !.pc = "open"] OBVIOUS
        <3>4. /\ session' = [x \in Actor |-> session'[x]]
              /\ session'[p] = s /\ session'[q] = u
              /\ \A x \in Actor \ {p, q} : session'[x] = session[x]
            BY <2>3, <3>1, <3>2, <3>3 DEF AttrsInv
        <3>5. IsSession(s) /\ Stage(p, s) /\ AttrsOK(s)'
            BY <1>0, <2>1, <3>2 DEF IsSession, Stage, AttrsOK, Unwritten
        <3>6. attrs # NoProduct BY <1>0, <2>1 DEF AttrsOK
        <3>7. IsSession(u) /\ Stage(q, u) /\ AttrsOK(u)'
            BY <2>1, <3>3, <3>6 DEF Rest, IsSession, Stage, AttrsOK, Unwritten, Held
        <3>8. (IsSession(session[p]) /\ Stage(p, session[p]) /\ AttrsOK(session[p]))'
            BY <3>4, <3>5 DEF IsSession, Stage, AttrsOK
        <3>9. (IsSession(session[q]) /\ Stage(q, session[q]) /\ AttrsOK(session[q]))'
            BY <3>4, <3>7 DEF IsSession, Stage, AttrsOK
        <3>10. now' \in Nat \ {0} BY <2>1 DEF AttrsInv
        <3>11. AttrsInv' BY <1>0, <2>1, <3>4, <3>8, <3>9, <3>10, AllMove
        <3>12. s.pc = "wait" /\ s.attrs = session[p].attrs /\ u.pc = "open"
            BY <1>0, <3>2, <3>3 DEF IsSession, Rest
        <3>13. \A x \in Actor : Passes(x) BY <2>1, <3>4, <3>12 DEF Passes
        <3> QED BY <2>1, <3>11, <3>13 DEF Handled
    <2> QED BY <1>1, <2>2, <2>3 DEF Launch
<1>2. ASSUME OpenLookup(p) PROVE AttrsInv' /\ Handled(p)
    <2>1. session[p].pc = "open" /\ UNCHANGED <<attrs, now, launched>>
        BY <1>2 DEF OpenLookup, Stored
    <2>2. CASE Ends(p, FALSE) BY <1>0, <2>1, <2>2, EndsInv DEF Handled
    <2>3. CASE ~Ends(p, FALSE)
        <3>1. PICK t : t = [session[p] EXCEPT !.pc = "fetch", !.was = attrs,
                                              !.attrs = [attrs EXCEPT !.attempted = now]]
            OBVIOUS
        <3>2. PICK s : s = Load(t, {i \in DOMAIN offers : offers[i].active}) OBVIOUS
        <3>3. Change(p, s) BY <1>2, <2>3, <3>1, <3>2 DEF OpenLookup
        <3>4. IsSession(t) BY <1>0, <3>1 DEF IsSession
        <3>5. IsSession(s) /\ Alike(t, s) /\ s.noted = t.noted /\ s.purged = t.purged
            BY <3>2, <3>4, LoadIs
        <3>6. attrs # NoProduct /\ attrs \in Attributes BY <1>0, <2>1 DEF AttrsOK, Held
        <3>7. [attrs EXCEPT !.attempted = now] \in Attributes BY <1>0, <3>6 DEF Attributes
        <3>8. Stage(p, s) /\ AttrsOK(s)'
            BY <1>0, <2>1, <3>1, <3>5, <3>6, <3>7
            DEF IsSession, Alike, Stage, AttrsOK, Held, Unwritten
        <3>9. AttrsInv' BY <1>0, <2>1, <3>3, <3>5, <3>8, OneMoves
        <3>10. s.pc = "fetch" /\ s.attrs.attempted = now /\ p \in Slot
            BY <1>0, <2>1, <3>1, <3>5, <3>6 DEF IsSession, Alike, Attributes, Stage, Actor
        <3>11. \A q \in Actor : Passes(q)
            <4>1. session'[p] = s /\ \A q \in Actor \ {p} : session'[q] = session[q]
                BY <3>3, Changed DEF AttrsInv
            <4> QED BY <3>10, <4>1 DEF Passes
        <3> QED BY <2>1, <3>9, <3>11 DEF Handled
    <2> QED BY <2>2, <2>3
<1>3. ASSUME Commit(p) PROVE AttrsInv' /\ Handled(p)
    <2>1. session[p].pc = "commit" /\ Written(session[p]) /\ UNCHANGED <<now, launched>>
        BY <1>3 DEF Commit
    <2>2. attrs' \in Attributes BY <1>0, <2>1, AttrsWritten DEF AttrsOK
    <2>5. attrs' = attrs \/ attrs' = session[p].attrs BY <2>1 DEF Written
    <2>3. CASE p \in Slot
        <3>1. Ends(p, session[p].answer = {}) BY <1>3, <2>3 DEF Commit
        <3> QED BY <2>1, <2>2, <2>5, <3>1, EndsInv DEF Held, Handled
    <2>4. CASE p \notin Slot
        <3>1. Change(p, Rest) BY <1>3, <2>4 DEF Commit
        <3>2. AttrsOK(Rest)' BY DEF AttrsOK, Rest, Held
        <3>3. \A q \in Actor : Passes(q) BY <3>1, Changed DEF AttrsInv, Passes, Rest
        <3>4. AttrsInv' BY <2>1, <2>2, <3>1, <3>2, RestOK, OneMoves DEF Held
        <3> QED BY <2>1, <2>5, <3>3, <3>4 DEF Handled
    <2> QED BY <2>3, <2>4
<1> QED BY <1>1, <1>2, <1>3

LEMMA AttrsStep == AttrsInv /\ [Next]_vars => AttrsInv'
<1> SUFFICES ASSUME AttrsInv, [Next]_vars PROVE AttrsInv'
    OBVIOUS
<1>1. CASE Restart
    <2>1. attrs' = attrs /\ now' = now /\ session' = [p \in Actor |-> Rest]
        BY <1>1 DEF Restart, Stored, Actor
    <2>2. \A q \in Actor : (IsSession(session[q]) /\ Stage(q, session[q]) /\ AttrsOK(session[q]))'
        BY <2>1, RestOK DEF Rest, IsSession, Stage, AttrsOK
    <2> QED BY <2>1, <2>2, AllMove DEF AttrsInv
<1>2. CASE Tick BY <1>2, AllMove DEF Tick, Stored, AttrsInv
<1>3. CASE UNCHANGED vars BY <1>3, AllMove DEF vars, AttrsInv
<1>4. ASSUME NEW p \in Actor, NEW s, Goes(p, s) PROVE AttrsInv'
    BY <1>4, OneMoves DEF Goes, AttrsInv
<1>5. ASSUME NEW p \in Actor, Proceed(p) PROVE AttrsInv'
    BY <1>4, <1>5, WorksAre, MarkIs, WaitsAre, LookupsAre DEF Proceed
<1>6. ASSUME NEW p \in Req, Opens(p) PROVE AttrsInv' BY <1>4, <1>6, OpensAre DEF Actor
<1> QED BY <1>1, <1>2, <1>3, <1>5, <1>6 DEF Next, Opens, Actor

\* A store lookup finds the product of the search that started it, however
\* requests, jobs, lookups and restarts interleave (offer_service.py, the
\* session of its own in enrich_in_own_session).
THEOREM LookupsFind == Spec => []LookupFindsProduct
<1>1. AttrsInv => LookupFindsProduct BY DEF AttrsInv, AttrsOK, LookupFindsProduct, Actor
<1> QED BY <1>1, AttrsInit, AttrsStep, PTL DEF Spec

-----------------------------------------------------------------------------
(* Lookups are spaced *)

\* Requests and jobs come one at a time; lookups run beside them.
OneRequest == \A p, q \in Req : p = q

\* No lookup has started, or these attributes say when one did.
Marked(a) ==
    launched # Never => a \in Attributes /\ launched.at > 0 /\ launched.at =< a.attempted

SpacedOK(p, s) ==
    /\ p \in Req /\ s.pc # "idle" => Marked(s.attrs)
    /\ p \in Req /\ s.pc \in {"fetch", "record", "heal", "mark"} =>
          s.was = NoProduct \/ s.was.attempted = s.attrs.attempted
    /\ s.pc = "mark" => ~EnrichmentAttemptedRecently(s.attrs)
    /\ p \in Slot /\ s.pc \in {"fetch", "commit"} => s.attrs.attempted = now

SpacedInv ==
    /\ launched \in [at : Nat, n : Nat] /\ launched.at =< now
    /\ Marked(attrs)
    /\ \A p \in Actor : SpacedOK(p, session[p])

LEMMA SpacedInit == Init => SpacedInv
BY DEF Init, SpacedInv, SpacedOK, Marked, Never, Rest, Actor

\* One session moves on and nothing is written.
LEMMA SpacedOne ==
    ASSUME AttrsInv, SpacedInv, NEW p \in Actor, NEW s, Goes(p, s), SpacedOK(p, s)
    PROVE  SpacedInv'
<1>1. /\ session'[p] = s /\ \A q \in Actor \ {p} : session'[q] = session[q]
      /\ UNCHANGED <<attrs, now, launched>>
    BY Changed DEF AttrsInv, Goes
<1>2. ASSUME NEW q \in Actor PROVE SpacedOK(q, session[q])'
    <2>1. SpacedOK(q, session'[q]) BY <1>1 DEF SpacedInv
    <2> QED BY <1>1, <2>1 DEF SpacedOK, Marked, EnrichmentAttemptedRecently
<1> QED BY <1>1, <1>2 DEF SpacedInv, Marked

LEMMA SpacedOpens ==
    ASSUME AttrsInv, SpacedInv, NEW p \in Req, NEW s, Goes(p, s), Begins(s)
    PROVE  SpacedInv'
<1>1. p \in Actor /\ p \notin Slot BY DEF Actor
<1>2. s.attrs \in Attributes BY DEF Goes, Begins, AttrsOK
<1>3. Marked(s.attrs) BY <1>2 DEF SpacedInv, Marked, Begins
<1>4. SpacedOK(p, s) BY <1>1, <1>3 DEF SpacedOK, Begins
<1> QED BY <1>1, <1>4, SpacedOne

LEMMA SpacedWorks ==
    ASSUME AttrsInv, SpacedInv, NEW p \in Actor, NEW s, Goes(p, s), Works(p, s)
    PROVE  SpacedInv'
<1>1. SpacedOK(p, session[p]) /\ Stage(p, session[p]) BY DEF SpacedInv, AttrsInv
<1>2. s.attrs \in Attributes /\ Stage(p, s) BY DEF Goes, Works, AttrsOK
<1>3. p \in Req => Marked(s.attrs) BY <1>1, <1>2 DEF SpacedInv, Marked, SpacedOK, Works
<1>4. p \in Req => s.was = NoProduct \/ s.was.attempted = s.attrs.attempted
    BY <1>1 DEF SpacedOK, Works
<1>5. s.pc = "mark" => ~EnrichmentAttemptedRecently(s.attrs) BY DEF Works, CanEnrich
<1>6. p \in Slot => s.attrs.attempted = now BY <1>1 DEF SpacedOK, Works, Stage
<1> QED BY <1>3, <1>4, <1>5, <1>6, SpacedOne DEF SpacedOK

LEMMA SpacedWaits ==
    ASSUME AttrsInv, SpacedInv, NEW p \in Actor, NEW s, Goes(p, s), Waited(p, s)
    PROVE  SpacedInv'
<1>1. SpacedOK(p, session[p]) /\ Stage(p, session[p]) BY DEF SpacedInv, AttrsInv
<1>2. p \in Req /\ p \notin Slot BY <1>1 DEF Waited, Stage, Actor
<1>3. Marked(s.attrs) BY <1>1, <1>2 DEF SpacedInv, SpacedOK, Waited
<1> QED BY <1>2, <1>3, SpacedOne DEF SpacedOK, Waited

\* What is marked now was not marked within the interval, neither by this
\* search nor by an earlier one.
LEMMA MarkedLongAgo ==
    ASSUME AttrsInv, SpacedInv, NEW p \in Actor, session[p].pc = "mark", launched # Never
    PROVE  now - launched.at >= ThinFor
<1>1. SpacedOK(p, session[p]) /\ Stage(p, session[p]) BY DEF SpacedInv, AttrsInv
<1>2. PICK a \in Attributes : a = session[p].attrs BY DEF AttrsInv, AttrsOK
<1>3. p \in Req BY <1>1 DEF Stage, Actor
<1>4. launched.at > 0 /\ launched.at =< a.attempted /\ ~EnrichmentAttemptedRecently(a)
    BY <1>1, <1>2, <1>3 DEF SpacedOK, Marked
<1>5. a.attempted \in Nat /\ launched.at \in Nat /\ now \in Nat
    BY <1>2 DEF Attributes, SpacedInv, AttrsInv
<1> QED BY <1>4, <1>5 DEF EnrichmentAttemptedRecently

LEMMA SpacedMark ==
    ASSUME OneRequest, AttrsInv, SpacedInv, NEW p \in Actor, CommitMark(p)
    PROVE  SpacedInv'
<1>1. PICK s : Change(p, s) /\ Marks(p, s) BY MarkIs
<1>2. /\ session'[p] = s /\ \A q \in Actor \ {p} : session'[q] = session[q]
    BY <1>1, Changed DEF AttrsInv
<1>3. now' = now /\ launched' = OnceMore(launched) /\ now \in Nat /\ now > 0
    BY MarkIs DEF AttrsInv
<1>4. /\ SpacedOK(p, session[p]) /\ Stage(p, session[p]) /\ AttrsOK(session[p])
      /\ session[p].pc = "mark" /\ p \in Req
    BY <1>1 DEF SpacedInv, AttrsInv, Marks, Stage, Actor
<1>5. attrs' = s.attrs
    <2>1. PICK a \in Attributes : a = session[p].attrs BY <1>4 DEF AttrsOK
    <2>2. a.attempted # now
        BY <1>3, <1>4, <2>1 DEF SpacedOK, EnrichmentAttemptedRecently, Attributes
    <2>3. session[p].was = NoProduct \/ session[p].was.attempted = a.attempted
        BY <1>4, <2>1 DEF SpacedOK
    <2> QED BY <1>1, <2>2, <2>3 DEF Marks
<1>6. launched' \in [at : Nat, n : Nat] /\ launched'.at = now
    BY <1>3 DEF OnceMore, SpacedInv
<1>7. Marked(attrs)' BY <1>1, <1>3, <1>5, <1>6 DEF Marked, Marks
<1>8. ASSUME NEW q \in Actor PROVE SpacedOK(q, session[q])'
    <2>1. CASE q = p BY <1>1, <1>2, <1>4, <1>5, <1>7, <2>1 DEF SpacedOK, Marks
    <2>2. CASE q # p
        <3>1. session'[q] = session[q] /\ SpacedOK(q, session[q]) /\ Stage(q, session[q]) /\ q \notin Req
            BY <1>2, <1>4, <2>2 DEF OneRequest, SpacedInv, AttrsInv
        <3> QED BY <1>3, <3>1 DEF SpacedOK, Stage, EnrichmentAttemptedRecently, Actor
    <2> QED BY <2>1, <2>2
<1> QED BY <1>3, <1>6, <1>7, <1>8 DEF SpacedInv

LEMMA SpacedHandled ==
    ASSUME AttrsInv, AttrsInv', SpacedInv, NEW p \in Actor, Handled(p)
    PROVE  SpacedInv'
<1>1. UNCHANGED <<now, launched>> /\ now \in Nat BY DEF Handled, AttrsInv
<1>2. Marked(attrs')
    <2>1. CASE attrs' = attrs BY <2>1 DEF SpacedInv
    <2>2. CASE session[p].pc = "commit" /\ attrs' = session[p].attrs
        <3>1. /\ SpacedOK(p, session[p]) /\ session[p].attrs \in Attributes
              /\ p \in Req \/ p \in Slot
            BY <2>2 DEF SpacedInv, AttrsInv, AttrsOK, Actor
        <3>2. CASE p \in Req BY <2>2, <3>1, <3>2 DEF SpacedOK
        <3>3. CASE p \in Slot BY <2>2, <3>1, <3>3 DEF SpacedOK, SpacedInv, Marked
        <3> QED BY <3>1, <3>2, <3>3
    <2> QED BY <2>1, <2>2 DEF Handled
<1>3. ASSUME NEW q \in Actor PROVE SpacedOK(q, session[q])'
    <2>0. /\ SpacedOK(q, session[q]) /\ Stage(q, session[q]) /\ Stage(q, session'[q])
          /\ q \in Req \/ q \in Slot
        BY DEF SpacedInv, AttrsInv, Actor
    <2>1. CASE session'[q] = session[q]
        BY <1>1, <2>0, <2>1 DEF SpacedOK, Marked, EnrichmentAttemptedRecently
    <2>2. CASE session'[q].pc \in {"idle", "open"} BY <2>0, <2>2 DEF SpacedOK, Stage
    <2>3. CASE /\ session[q].pc \in {"launch", "wait"}
               /\ session'[q].pc \in {"wait", "rebuild", "commit"}
               /\ session'[q].attrs = session[q].attrs
        BY <1>1, <2>0, <2>3 DEF SpacedOK, Marked, Stage
    <2>4. CASE q \in Slot /\ session'[q].pc = "fetch" /\ session'[q].attrs.attempted = now
        BY <1>1, <2>4 DEF SpacedOK
    <2> QED BY <2>1, <2>2, <2>3, <2>4 DEF Handled, Passes
<1> QED BY <1>1, <1>2, <1>3 DEF SpacedInv, Marked

LEMMA SpacedStep ==
    ASSUME OneRequest, AttrsInv, SpacedInv, [Next]_vars
    PROVE  SpacedInv'
<1>0. AttrsInv' BY AttrsStep
<1>1. CASE Restart
    <2>1. UNCHANGED <<attrs, now, launched>> /\ session' = [p \in Actor |-> Rest]
        BY <1>1 DEF Restart, Stored, Actor
    <2>2. ASSUME NEW q \in Actor PROVE SpacedOK(q, session[q])'
        <3>1. session'[q] = Rest BY <2>1
        <3> QED BY <3>1 DEF SpacedOK, Rest
    <2> QED BY <2>1, <2>2 DEF SpacedInv, Marked
<1>2. CASE Tick
    <2>1. /\ UNCHANGED <<attrs, session, launched>> /\ now' = now + 1 /\ now \in Nat
          /\ \A q \in Slot : session[q].pc = "idle"
        BY <1>2 DEF Tick, Stored, Busy, AttrsInv
    <2>2. ASSUME NEW q \in Actor PROVE SpacedOK(q, session[q])'
        <3>1. SpacedOK(q, session[q]) BY DEF SpacedInv
        <3>2. Marked(session[q].attrs)' <=> Marked(session[q].attrs) BY <2>1 DEF Marked
        <3>3. session[q].pc = "mark" =>
                 ~EnrichmentAttemptedRecently(session[q].attrs)'
            <4>1. SUFFICES ASSUME session[q].pc = "mark"
                           PROVE  ~EnrichmentAttemptedRecently(session[q].attrs)'
                OBVIOUS
            <4>2. session[q].attrs \in Attributes BY <4>1 DEF AttrsInv, AttrsOK
            <4>3. session[q].attrs.attempted \in Nat BY <4>2 DEF Attributes
            <4> QED BY <2>1, <3>1, <4>1, <4>3 DEF SpacedOK, EnrichmentAttemptedRecently
        <3> QED BY <2>1, <3>1, <3>2, <3>3 DEF SpacedOK
    <2> QED BY <2>1, <2>2 DEF SpacedInv, Marked
<1>3. CASE UNCHANGED vars
    BY <1>3 DEF vars, SpacedInv, SpacedOK, Marked, EnrichmentAttemptedRecently
<1>4. ASSUME NEW p \in Actor, Proceed(p) PROVE SpacedInv'
    <2>1. CASE Answered(p) \/ RefreshRaises(p) \/ RecordSearch(p) \/ Heal(p)
        BY <2>1, WorksAre, SpacedWorks
    <2>2. CASE TimedOut(p) \/ Rebuild(p) BY <2>2, WaitsAre, SpacedWaits
    <2>3. CASE CommitMark(p) BY <2>3, SpacedMark
    <2>4. CASE Launch(p) \/ OpenLookup(p) \/ Commit(p) BY <1>0, <2>4, LookupsAre, SpacedHandled
    <2> QED BY <1>4, <2>1, <2>2, <2>3, <2>4 DEF Proceed
<1>5. ASSUME NEW p \in Req, Opens(p) PROVE SpacedInv' BY <1>5, OpensAre, SpacedOpens
<1> QED BY <1>1, <1>2, <1>3, <1>4, <1>5 DEF Next, Opens, Actor

\* Requests that come one after the other start no two store lookups within
\* the retry interval, whatever the lookups they start write back and whenever
\* the process restarts (mark_enrichment_attempt, _enrich_top).
THEOREM LookupsAreSpaced ==
    ASSUME OneRequest
    PROVE  Spec => LookupsSpaced
<1>1. AttrsInv /\ SpacedInv /\ [Next]_vars =>
        [launched' # launched /\ launched # Never => launched'.at - launched.at >= ThinFor]_vars
    <2> SUFFICES ASSUME AttrsInv, SpacedInv, [Next]_vars, launched' # launched, launched # Never
                 PROVE  launched'.at - launched.at >= ThinFor
        OBVIOUS
    <2>1. PICK p \in Actor : CommitMark(p)
        BY DEF Next, Actor, vars, Proceed, OpenView, OpenJob, OpenSearch, Answered, RefreshRaises,
               RecordSearch, Heal, Launch, TimedOut, Rebuild, OpenLookup, Commit, Restart, Tick
    <2>2. session[p].pc = "mark" /\ launched' = OnceMore(launched) BY <2>1 DEF CommitMark
    <2>3. launched'.at = now BY <2>2 DEF OnceMore
    <2> QED BY <2>2, <2>3, MarkedLongAgo
<1> QED BY <1>1, AttrsInit, AttrsStep, SpacedInit, SpacedStep, PTL DEF Spec, LookupsSpaced

-----------------------------------------------------------------------------
(* One row per source, and a history of what is on offer *)

OfferRow == [price : Nat, odd : BOOLEAN, match : Verdict, active : BOOLEAN, at : Nat]

\* Rows, each the first of its source.
Single(f) == \A i \in DOMAIN f : i = <<i[1], 1>> /\ f[i] \in OfferRow

\* What a session has loaded is what is stored.
InStep(s) ==
    /\ DOMAIN s.loaded = DOMAIN s.rows \cap DOMAIN offers
    /\ \A i \in DOMAIN s.loaded : s.loaded[i] = offers[i]

\* Row i as session s sees it.
Seen(s, i) == IF i \in DOMAIN s.rows THEN s.rows[i] ELSE offers[i]

\* A session in step that would leave no observation of a retired offer.
Fresh(s) ==
    /\ InStep(s)
    /\ \A h \in (history \ s.purged) \cup s.noted :
          h.offer \in DOMAIN offers \cup DOMAIN s.rows /\ Seen(s, h.offer).active

\* A session that has nothing to write.
Clean(s) == DOMAIN s.rows \subseteq DOMAIN offers /\ s.loaded = s.rows /\ Unwritten(s)

Resting(s) == s.pc \in {"wait", "rebuild", "commit"} /\ Clean(s)

Kept(s) ==
    /\ Single(s.rows)
    /\ Fresh(s) \/ Clean(s)
    /\ s.pc \in {"idle", "launch", "wait", "rebuild"} => Clean(s)
    /\ s.pc \in {"open", "fetch", "record", "heal", "mark"} => Fresh(s)

\* Of two sessions in use one is a lookup's, the other a request's that rests.
Beside(p, q) ==
    Busy(p) /\ Busy(q) => \/ p \in Req /\ q \in Slot /\ Resting(session[p])
                          \/ p \in Slot /\ q \in Req /\ Resting(session[q])

HistoryActive == \A h \in history : h.offer \in DOMAIN offers /\ offers[h.offer].active

Shelf ==
    /\ offers = [i \in DOMAIN offers |-> offers[i]]
    /\ Single(offers) /\ HistoryActive

Calm ==
    /\ Shelf
    /\ \A p \in Actor : Kept(session[p])
    /\ \A p \in Actor : \A q \in Actor \ {p} : Beside(p, q)

CalmInv == overlapped \in BOOLEAN /\ (~overlapped => Calm)

LEMMA NoRows == DOMAIN <<>> = {}
OBVIOUS

\* A session without rows.
LEMMA EmptyKept ==
    ASSUME HistoryActive, NEW s, s.rows = <<>>, s.loaded = <<>>, Unwritten(s)
    PROVE  Clean(s) /\ Fresh(s) /\ Single(s.rows)
BY NoRows DEF HistoryActive, Clean, Fresh, InStep, Seen, Single, Unwritten

LEMMA RestKept == Clean(Rest) /\ Single(Rest.rows) /\ Kept(Rest) /\ Rest.pc = "idle"
<1>1. Clean(Rest) /\ Single(Rest.rows) /\ Rest.pc = "idle"
    BY NoRows DEF Rest, Clean, Single, Unwritten
<1> QED BY <1>1 DEF Kept

\* What is flushed is what the session sees.
LEMMA FlushedIs ==
    ASSUME Single(offers), NEW s, Single(s.rows), InStep(s),
           NEW i \in DOMAIN offers \cup DOMAIN s.rows
    PROVE  Flushed(s, i) = Seen(s, i)
<1>1. CASE i \notin DOMAIN offers BY <1>1 DEF Flushed, Seen
<1>2. CASE i \in DOMAIN offers /\ i \notin DOMAIN s.loaded
    BY <1>2 DEF Flushed, Seen, InStep
<1>3. CASE i \in DOMAIN offers /\ i \in DOMAIN s.loaded
    <2>1. i \in DOMAIN s.rows /\ s.loaded[i] = offers[i] BY <1>3 DEF InStep
    <2>2. PICK a, b : a = offers[i] /\ b = s.rows[i] OBVIOUS
    <2>3. a \in OfferRow /\ b \in OfferRow BY <1>3, <2>1, <2>2 DEF Single
    <2>4. [c \in DOMAIN a |-> IF b[c] # a[c] THEN b[c] ELSE a[c]] = b BY <2>3 DEF OfferRow
    <2> QED BY <1>3, <2>1, <2>2, <2>4 DEF Flushed, Seen
<1> QED BY <1>1, <1>2, <1>3

LEMMA CleanIs ==
    ASSUME Single(offers), NEW s, Clean(s), NEW i \in DOMAIN offers \cup DOMAIN s.rows
    PROVE  i \in DOMAIN offers /\ Flushed(s, i) = offers[i]
<1>1. i \in DOMAIN offers BY DEF Clean
<1>2. CASE i \notin DOMAIN s.loaded BY <1>1, <1>2 DEF Flushed
<1>3. CASE i \in DOMAIN s.loaded
    <2>1. PICK a, b : a = offers[i] /\ b = s.rows[i] OBVIOUS
    <2>2. a \in OfferRow BY <1>1, <2>1 DEF Single
    <2>3. [c \in DOMAIN a |-> IF b[c] # b[c] THEN b[c] ELSE a[c]] = a BY <2>2 DEF OfferRow
    <2> QED BY <1>1, <1>3, <2>1, <2>3 DEF Flushed, Clean
<1> QED BY <1>1, <1>2, <1>3

\* A session with nothing to write leaves the offers as they are.
LEMMA CleanWrites ==
    ASSUME Shelf, NEW s, Clean(s), Written(s)
    PROVE  UNCHANGED <<offers, history>>
<1>1. \A i \in DOMAIN offers \cup DOMAIN s.rows : Flushed(s, i) = offers[i] BY CleanIs DEF Shelf
<1>2. DOMAIN offers \cup DOMAIN s.rows = DOMAIN offers BY DEF Clean
<1>3. offers' = [i \in DOMAIN offers |-> offers[i]] BY <1>1, <1>2 DEF Written
<1>4. history' = history BY DEF Written, Clean, Unwritten
<1> QED BY <1>3, <1>4 DEF Shelf

\* A session in step writes what it sees.
LEMMA FreshWrites ==
    ASSUME Shelf, NEW s, Single(s.rows), Fresh(s), Written(s)
    PROVE  Shelf' /\ DOMAIN offers' = DOMAIN offers \cup DOMAIN s.rows
<1>1. /\ DOMAIN offers' = DOMAIN offers \cup DOMAIN s.rows
      /\ \A i \in DOMAIN offers' : offers'[i] = Seen(s, i)
    BY FlushedIs DEF Written, Fresh, Shelf
<1>2. Single(offers') BY <1>1 DEF Single, Seen, Shelf
<1>5. (offers = [i \in DOMAIN offers |-> offers[i]])' BY DEF Written
<1>3. ASSUME NEW h \in history' PROVE h.offer \in DOMAIN offers' /\ offers'[h.offer].active
    <2>1. h \in (history \ s.purged) \cup s.noted BY DEF Written
    <2>2. h.offer \in DOMAIN offers \cup DOMAIN s.rows /\ Seen(s, h.offer).active
        BY <2>1 DEF Fresh
    <2> QED BY <1>1, <2>2
<1>4. HistoryActive' BY <1>3 DEF HistoryActive
<1> QED BY <1>1, <1>2, <1>4, <1>5 DEF Shelf

\* Reading more rows changes nothing of what a session in step sees.
LEMMA LoadFresh ==
    ASSUME Shelf, NEW s, IsSession(s), Fresh(s), Single(s.rows), NEW ids, ids \subseteq DOMAIN offers,
           NEW u, u = Load(s, ids)
    PROVE  /\ Fresh(u) /\ Single(u.rows) /\ DOMAIN u.rows = DOMAIN s.rows \cup ids
           /\ u.noted = s.noted /\ u.purged = s.purged
<1>1. PICK read : read = [i \in ids |-> offers[i]] OBVIOUS
<1>2. /\ u.noted = s.noted /\ u.purged = s.purged
      /\ u.rows = Over(s.rows, read) /\ u.loaded = Over(s.loaded, read)
    BY <1>1, LoadIs
<1>3. DOMAIN read = ids /\ \A i \in ids : read[i] = offers[i] BY <1>1
<1>4. /\ DOMAIN u.rows = DOMAIN s.rows \cup ids
      /\ \A i \in DOMAIN s.rows : u.rows[i] = s.rows[i]
      /\ \A i \in ids \ DOMAIN s.rows : u.rows[i] = offers[i]
    BY <1>2, <1>3 DEF Over
<1>5. /\ DOMAIN u.loaded = DOMAIN s.loaded \cup ids
      /\ \A i \in DOMAIN u.loaded : u.loaded[i] = offers[i]
    <2>1. PICK f : f = s.loaded OBVIOUS
    <2>2. PICK g : g = Over(f, read) OBVIOUS
    <2>3. /\ DOMAIN g = DOMAIN f \cup ids
          /\ \A i \in DOMAIN f : g[i] = f[i]
          /\ \A i \in ids \ DOMAIN f : g[i] = offers[i]
        <3>1. PICK h : h = read /\ g = Over(f, h) BY <2>2
        <3>2. DOMAIN h = ids /\ \A i \in ids : h[i] = offers[i] BY <1>3, <3>1
        <3> QED BY <3>1, <3>2 DEF Over
    <2>4. \A i \in DOMAIN f : f[i] = offers[i] BY <2>1 DEF Fresh, InStep
    <2> QED BY <1>2, <2>1, <2>2, <2>3, <2>4
<1>6. InStep(u) BY <1>4, <1>5 DEF Fresh, InStep
<1>7. Single(u.rows) BY <1>4 DEF Single, Shelf
<1>8. \A i \in DOMAIN offers \cup DOMAIN s.rows : Seen(u, i) = Seen(s, i) BY <1>4 DEF Seen
<1>9. Fresh(u) BY <1>2, <1>4, <1>6, <1>8 DEF Fresh
<1> QED BY <1>2, <1>4, <1>7, <1>9

\* A listing goes to the one row of its source.
LEMMA TargetIs ==
    ASSUME AttrsInv, Shelf, NEW p \in Actor, \A q \in Actor \ {p} : Clean(session[q]),
           NEW t, Single(t.rows), DOMAIN session[p].rows \subseteq DOMAIN t.rows,
           NEW src, NEW latest \in BOOLEAN
    PROVE  Target(t, src, latest) = <<src, 1>>
<1>1. \A i \in Known(t, src) : i = <<src, 1>> BY DEF Known, Single, Shelf
<1>2. CASE Known(t, src) = {}
    <2>1. DOMAIN offers \cup UNION {DOMAIN session[q].rows : q \in Req \cup Slot}
             \subseteq DOMAIN offers \cup DOMAIN t.rows
        BY DEF Clean, Actor
    <2>2. {i \in DOMAIN offers \cup UNION {DOMAIN session[q].rows : q \in Req \cup Slot} :
             i[1] = src} = {}
        BY <1>2, <2>1 DEF Known
    <2>3. NewRow(src) = <<src, 1 + Cardinality({})>> BY <2>2 DEF NewRow
    <2>4. Cardinality({}) = 0 BY FS_EmptySet
    <2> QED BY <1>2, <2>3, <2>4 DEF Target
<1>3. CASE Known(t, src) # {}
    <2> DEFINE order(i) == IF latest THEN i[2] ELSE MaxRows - i[2]
    <2>1. order(<<src, 1>>) \in Int OBVIOUS
    <2>2. \E i \in Known(t, src) : \A j \in Known(t, src) : order(j) =< order(i)
        BY <1>1, <1>3, <2>1
    <2>3. Target(t, src, latest) = CHOOSE i \in Known(t, src) :
             \A j \in Known(t, src) : order(j) =< order(i)
        BY <1>3 DEF Target
    <2>4. Target(t, src, latest) \in Known(t, src) BY <2>2, <2>3
    <2> QED BY <1>1, <2>4
<1> QED BY <1>2, <1>3

\* Recording keeps a session in step: it makes or shows the row of a listing,
\* and what it observes is shown.
LEMMA RecordFresh ==
    ASSUME AttrsInv, Shelf, NEW p \in Actor, \A q \in Actor \ {p} : Clean(session[q]),
           NEW t, IsSession(t), Fresh(t), Single(t.rows), Unwritten(t), DOMAIN offers \subseteq DOMAIN t.rows,
           DOMAIN session[p].rows \subseteq DOMAIN t.rows, NEW a \in Answer, NEW latest \in BOOLEAN,
           NEW u, u = Record(t, a, latest)
    PROVE  Fresh(u) /\ Single(u.rows)
<1> DEFINE kept == {l \in a : l.match # "unknown"}
           row(l) == [price |-> l.price, odd |-> l.odd, match |-> l.match,
                      active |-> TRUE, at |-> now]
           listed(i) == CHOOSE l \in kept : l.src = i[1]
           mine == {Target(t, l.src, latest) : l \in kept}
           made == [i \in mine |-> row(listed(i))]
           seen == {[offer |-> Target(t, l.src, latest), price |-> l.price] :
                      l \in {k \in kept : k.match = "exact"}}
<1>1. \A l \in kept : Target(t, l.src, latest) = <<l.src, 1>> BY TargetIs
<1>2. a \subseteq Listing BY AnswerAssumption
<1>3. ASSUME NEW i \in mine
      PROVE  i = <<i[1], 1>> /\ row(listed(i)) \in OfferRow /\ row(listed(i)).active
    <2>1. PICK l \in kept : i = <<l.src, 1>> BY <1>1
    <2>2. listed(i) \in kept BY <2>1
    <2>3. PICK k \in kept : k = listed(i) BY <2>2
    <2>4. k \in Listing /\ now \in Nat BY <1>2 DEF AttrsInv
    <2>5. row(k) \in OfferRow /\ row(k).active BY <2>4 DEF Listing, OfferRow
    <2> QED BY <2>1, <2>3, <2>5
<1>4. u = [t EXCEPT !.rows = Over(made, @), !.noted = seen] BY DEF Record
<1>5. \A h \in seen : h.offer \in mine OBVIOUS
<1>6. DOMAIN made = mine /\ \A i \in mine : made[i] \in OfferRow /\ made[i].active /\ i = <<i[1], 1>>
    BY <1>3
<1> HIDE DEF made, seen, mine
<1>7. PICK rows, old : old = t.rows /\ rows = Over(made, old) OBVIOUS
<1>8. u.rows = rows /\ u.noted = seen /\ u.loaded = t.loaded /\ u.purged = t.purged
    BY <1>4, <1>7 DEF IsSession
<1>9. /\ DOMAIN u.rows = mine \cup DOMAIN t.rows
      /\ \A i \in mine : u.rows[i] = made[i]
      /\ \A i \in DOMAIN t.rows \ mine : u.rows[i] = t.rows[i]
    <2>1. /\ DOMAIN rows = DOMAIN made \cup DOMAIN old
          /\ \A i \in DOMAIN made : rows[i] = made[i]
          /\ \A i \in DOMAIN old \ DOMAIN made : rows[i] = old[i]
        <3>1. PICK m : m = made /\ rows = Over(m, old) BY <1>7
        <3> QED BY <3>1 DEF Over
    <2> QED BY <1>6, <1>7, <1>8, <2>1
<1>10. Single(u.rows) BY <1>6, <1>9 DEF Single
<1>11. InStep(u) BY <1>8, <1>9 DEF Fresh, InStep
<1>12. \A i \in mine : Seen(u, i).active BY <1>6, <1>9 DEF Seen
<1>13. \A i \in DOMAIN t.rows \ mine : Seen(u, i) = Seen(t, i) BY <1>9 DEF Seen
<1>14. ASSUME NEW h \in (history \ u.purged) \cup u.noted
       PROVE  h.offer \in DOMAIN offers \cup DOMAIN u.rows /\ Seen(u, h.offer).active
    <2>1. CASE h \in seen BY <1>5, <1>9, <1>12, <2>1
    <2>2. CASE h \notin seen
        <3>1. h.offer \in DOMAIN t.rows /\ Seen(t, h.offer).active
            BY <1>8, <2>2 DEF Fresh, Unwritten
        <3> QED BY <1>9, <1>12, <1>13, <3>1
    <2> QED BY <2>1, <2>2
<1> QED BY <1>10, <1>11, <1>14 DEF Fresh

\* Healing takes the observations of what it retires away.
LEMMA HealedFresh ==
    ASSUME Shelf, NEW t, IsSession(t), Fresh(t), Single(t.rows), t.purged = {}, NEW r,
           NEW u, u = Healed(t, r, Purge(t, r)), r.retired \subseteq DOMAIN t.rows
    PROVE  Fresh(u) /\ Single(u.rows)
<1> DEFINE rows == [i \in DOMAIN t.rows |->
                      IF i \in r.retired THEN [t.rows[i] EXCEPT !.active = FALSE] ELSE t.rows[i]]
<1>1. PICK gone : gone = Purge(t, r) OBVIOUS
<1>2. u = [t EXCEPT !.rows = rows, !.purged = gone, !.noted = @ \ gone] BY <1>1 DEF Healed
<1>3. /\ DOMAIN rows = DOMAIN t.rows
      /\ \A i \in DOMAIN t.rows \ r.retired : rows[i] = t.rows[i]
      /\ \A i \in DOMAIN t.rows : rows[i] \in OfferRow
    <2>1. ASSUME NEW i \in DOMAIN t.rows PROVE rows[i] \in OfferRow
        <3>1. PICK b \in OfferRow : b = t.rows[i] BY DEF Single
        <3>2. [b EXCEPT !.active = FALSE] \in OfferRow BY <3>1 DEF OfferRow
        <3> QED BY <3>1, <3>2
    <2> QED BY <2>1
<1> HIDE DEF rows
<1>4. u.rows = rows /\ u.purged = gone /\ u.noted = t.noted \ gone /\ u.loaded = t.loaded
    BY <1>2 DEF IsSession
<1>5. Single(u.rows) BY <1>3, <1>4 DEF Single
<1>6. InStep(u) BY <1>3, <1>4 DEF Fresh, InStep
<1>7. ASSUME NEW h \in (history \ u.purged) \cup u.noted
      PROVE  h.offer \in DOMAIN offers \cup DOMAIN u.rows /\ Seen(u, h.offer).active
    <2>1. h \in (history \cup t.noted) \ gone BY <1>4
    <2>2. h.offer \notin r.retired BY <1>1, <2>1 DEF Purge
    <2>3. h.offer \in DOMAIN offers \cup DOMAIN t.rows /\ Seen(t, h.offer).active
        BY <2>1 DEF Fresh
    <2> QED BY <1>3, <1>4, <2>2, <2>3 DEF Seen
<1> QED BY <1>5, <1>6, <1>7 DEF Fresh

\* A session at work is the only one with anything to write.
LEMMA AloneIs ==
    ASSUME AttrsInv, Calm, NEW p \in Actor, Busy(p), ~Resting(session[p])
    PROVE  \A q \in Actor \ {p} :
              Clean(session[q]) /\ (Busy(q) => p \in Slot /\ q \in Req /\ Resting(session[q]))
<1> SUFFICES ASSUME NEW q \in Actor \ {p}
             PROVE  Clean(session[q]) /\ (Busy(q) => p \in Slot /\ q \in Req /\ Resting(session[q]))
    OBVIOUS
<1>1. CASE ~Busy(q) BY <1>1 DEF Calm, Kept, Busy
<1>2. CASE Busy(q) BY <1>2 DEF Calm, Beside, Resting
<1> QED BY <1>1, <1>2

\* One session moves on and nothing is written.
Moves(p, s) ==
    /\ Change(p, s) /\ UNCHANGED <<offers, history>>
    /\ Kept(s)
    /\ Busy(p) \/ \A q \in Actor : ~Busy(q)
    /\ Resting(session[p]) => Resting(s)

LEMMA CalmMoves ==
    ASSUME AttrsInv, Calm, NEW p \in Actor, NEW s, Moves(p, s)
    PROVE  Calm'
<1>1. /\ session'[p] = s /\ \A q \in Actor \ {p} : session'[q] = session[q]
      /\ UNCHANGED <<offers, history>>
    BY Changed DEF AttrsInv, Moves
<1>2. Shelf' BY <1>1 DEF Calm, Shelf, Single, HistoryActive
<1>3. ASSUME NEW q \in Actor PROVE Kept(session[q])'
    <2>1. Kept(session'[q]) BY <1>1 DEF Calm, Moves
    <2> QED BY <1>1, <2>1 DEF Kept, Single, Fresh, InStep, Seen, Clean
<1>4. \A q \in Actor : Resting(session'[q]) => Resting(session[q])'
    BY <1>1 DEF Resting, Clean
<1>5. ASSUME NEW x \in Actor, NEW q \in Actor \ {x} PROVE Beside(x, q)'
    <2> SUFFICES ASSUME Busy(x)', Busy(q)'
                 PROVE  \/ x \in Req /\ q \in Slot /\ Resting(session[x])'
                        \/ x \in Slot /\ q \in Req /\ Resting(session[q])'
        BY DEF Beside
    <2>1. Busy(x) /\ Busy(q) BY <1>1 DEF Busy, Moves
    <2>2. Beside(x, q) BY DEF Calm
    <2>3. \A y \in Actor : Resting(session[y]) => Resting(session'[y])
        BY <1>1 DEF Moves
    <2> QED BY <1>4, <2>1, <2>2, <2>3 DEF Beside
<1> QED BY <1>2, <1>3, <1>5 DEF Calm

\* A session that ends, its changes written, leaves the others as they are, but
\* for a search that waited for it.
Leaves(p) ==
    /\ session'[p].pc \in {"idle", "launch"} /\ Kept(session[p])'
    /\ \A q \in Actor \ {p} :
          \/ session'[q] = session[q]
          \/ /\ session[q].pc = "wait"
             /\ \E pc \in {"rebuild", "commit"} :
                   session'[q] = [session[q] EXCEPT !.pc = pc, !.slot = {}]

\* What a waiting search holds when it goes on.
LEMMA WokenIs ==
    ASSUME NEW s, IsSession(s), NEW pc \in {"rebuild", "commit"}, Clean(s), Single(s.rows)
    PROVE  /\ Resting([s EXCEPT !.pc = pc, !.slot = {}])
           /\ Single([s EXCEPT !.pc = pc, !.slot = {}].rows)
<1>1. PICK u : u = [s EXCEPT !.pc = pc, !.slot = {}] OBVIOUS
<1>2. /\ u.pc = pc /\ u.rows = s.rows /\ u.loaded = s.loaded /\ u.noted = s.noted
      /\ u.purged = s.purged
    BY <1>1 DEF IsSession
<1>3. Resting(u) /\ Single(u.rows) BY <1>2 DEF Resting, Clean, Unwritten
<1> QED BY <1>1, <1>3

LEMMA CalmLeaves ==
    ASSUME AttrsInv, Calm, NEW p \in Actor, Busy(p), ~Resting(session[p]), Leaves(p),
           Shelf', DOMAIN offers \subseteq DOMAIN offers',
           session'[p].pc = "launch" => p \in Req
    PROVE  Calm'
<1>1. ASSUME NEW q \in Actor \ {p}
      PROVE  /\ Kept(session[q])' /\ Clean(session[q])'
             /\ Busy(q)' => p \in Slot /\ q \in Req /\ Resting(session[q])'
    <2>1. /\ Clean(session[q]) /\ Single(session[q].rows) /\ IsSession(session[q])
          /\ Busy(q) => p \in Slot /\ q \in Req /\ Resting(session[q])
        BY AloneIs DEF Calm, Kept, AttrsInv
    <2>2. CASE session'[q] = session[q]
        <3>1. Clean(session[q])' BY <2>1, <2>2 DEF Clean, Unwritten
        <3> QED BY <2>1, <2>2, <3>1 DEF Kept, Single, Busy, Resting
    <2>3. CASE session'[q] # session[q]
        <3>1. PICK pc \in {"rebuild", "commit"} : /\ session[q].pc = "wait"
                          /\ session'[q] = [session[q] EXCEPT !.pc = pc, !.slot = {}]
            BY <2>3 DEF Leaves
        <3>2. PICK u : u = session'[q] /\ Resting(u) /\ Single(u.rows) BY <2>1, <3>1, WokenIs
        <3>3. Clean(session[q])' BY <3>2 DEF Resting, Clean, Unwritten
        <3>4. Resting(session[q])' /\ Kept(session[q])' BY <3>2, <3>3 DEF Resting, Kept, Single
        <3> QED BY <2>1, <3>1, <3>3, <3>4 DEF Busy
    <2> QED BY <2>2, <2>3
<1>2. \A q \in Actor : Kept(session[q])' BY <1>1 DEF Leaves
<1>3. ASSUME NEW x \in Actor, NEW q \in Actor \ {x} PROVE Beside(x, q)'
    <2>1. p \in Req => p \notin Slot OBVIOUS
    <2>2. session'[p].pc = "idle" => ~Busy(p)' BY DEF Busy
    <2>3. CASE x = p BY <1>1, <2>1, <2>2, <2>3 DEF Beside, Leaves
    <2>4. CASE q = p BY <1>1, <2>1, <2>2, <2>4 DEF Beside, Leaves
    <2>5. CASE x # p /\ q # p
        <3>1. ~(Busy(x)' /\ Busy(q)')
            <4>1. SUFFICES ASSUME Busy(x)', Busy(q)' PROVE FALSE OBVIOUS
            <4>2. Busy(x) /\ Busy(q) BY <4>1, <2>5 DEF Leaves, Busy
            <4>3. x \in Req /\ q \in Req BY <4>2, <2>5, AloneIs
            <4> QED BY <4>2, <4>3 DEF Calm, Beside
        <3> QED BY <3>1 DEF Beside
    <2> QED BY <2>3, <2>4, <2>5
<1> QED BY <1>2, <1>3 DEF Calm

LEMMA CalmOpens ==
    ASSUME AttrsInv, Calm, NEW p \in Req, Opens(p), ~overlapped'
    PROVE  \E s : Moves(p, s)
<1>0. Shelf /\ p \in Actor BY DEF Calm, Actor
<1>1. \A q \in Actor : ~Busy(q) BY DEF Opens, OpenView, OpenJob, OpenSearch, Starts, Actor
<1>2. ~Resting(session[p]) BY <1>0, <1>1 DEF Resting, Busy, AttrsInv, Stage
<1>3. UNCHANGED <<offers, history>> BY DEF Opens, OpenView, OpenJob, OpenSearch, Stored
<1>4. CASE \E forced \in BOOLEAN : OpenView(p, forced)
    <2>1. PICK forced \in BOOLEAN : OpenView(p, forced) BY <1>4
    <2>2. PICK o : o = [Rest EXCEPT !.kind = "view", !.attrs = attrs, !.was = attrs] OBVIOUS
    <2>3. PICK u : u = Load(o, {i \in DOMAIN offers : offers[i].active}) OBVIOUS
    <2>4. PICK pc \in {"fetch", "heal"} : Change(p, [u EXCEPT !.pc = pc])
        <3> DEFINE ids == {i \in DOMAIN offers : offers[i].active}
                   next == IF forced \/ NeedsRefresh(u, ids) THEN "fetch" ELSE "heal"
        <3>1. Change(p, [u EXCEPT !.pc = next]) BY <2>1, <2>2, <2>3 DEF OpenView
        <3>2. next \in {"fetch", "heal"} OBVIOUS
        <3> HIDE DEF next
        <3> QED BY <3>1, <3>2
    <2>5. PICK s : Change(p, s) /\ s = [u EXCEPT !.pc = pc] BY <2>4
    <2>6. IsSession(o) /\ o.rows = <<>> /\ o.loaded = <<>> /\ Unwritten(o)
        BY <2>2 DEF Rest, IsSession, Unwritten
    <2>7. Fresh(o) /\ Single(o.rows) BY <1>0, <2>6, EmptyKept DEF Shelf
    <2>8. Fresh(u) /\ Single(u.rows) BY <1>0, <2>3, <2>6, <2>7, LoadFresh
    <2>9. IsSession(u) BY <2>3, <2>6, LoadIs
    <2>10. /\ s.pc = pc /\ s.rows = u.rows /\ s.loaded = u.loaded /\ s.noted = u.noted
           /\ s.purged = u.purged
        BY <2>5, <2>9 DEF IsSession
    <2>11. Kept(s) BY <2>8, <2>10 DEF Kept, Fresh, InStep, Seen
    <2> QED BY <1>1, <1>2, <1>3, <2>5, <2>11 DEF Moves
<1>5. CASE OpenJob(p) \/ \E a \in Answer, flagged \in BOOLEAN : OpenSearch(p, a, flagged)
    <2>1. PICK s : /\ Change(p, s)
                   /\ s.rows = <<>> /\ s.loaded = <<>> /\ Unwritten(s) /\ s.pc \in {"fetch", "record"}
        <3>1. CASE OpenJob(p)
            <4>1. PICK s : Change(p, s) /\ s = [Rest EXCEPT !.kind = "job", !.pc = "fetch",
                                                            !.attrs = attrs, !.was = attrs]
                BY <3>1 DEF OpenJob
            <4>2. s.rows = <<>> /\ s.loaded = <<>> /\ Unwritten(s) /\ s.pc = "fetch"
                BY <4>1 DEF Rest, Unwritten
            <4> QED BY <4>1, <4>2
        <3>2. CASE \E a \in Answer, flagged \in BOOLEAN : OpenSearch(p, a, flagged)
            <4>1. PICK a \in Answer, flagged \in BOOLEAN : OpenSearch(p, a, flagged) BY <3>2
            <4>2. PICK s : Change(p, s) /\ s = [Rest EXCEPT !.kind = "search", !.pc = "record",
                              !.answer = a, !.was = attrs, !.attrs = Merged(attrs, flagged)]
                BY <4>1 DEF OpenSearch
            <4>3. s.rows = <<>> /\ s.loaded = <<>> /\ Unwritten(s) /\ s.pc = "record"
                BY <4>2 DEF Rest, Unwritten
            <4> QED BY <4>2, <4>3
        <3> QED BY <1>5, <3>1, <3>2
    <2>2. Kept(s) BY <1>0, <2>1, EmptyKept DEF Shelf, Kept
    <2> QED BY <1>1, <1>2, <1>3, <2>1, <2>2 DEF Moves
<1> QED BY <1>4, <1>5 DEF Opens

\* The rows and observations of u, and where s stands.
LEMMA FreshIsKept ==
    ASSUME NEW u, Fresh(u), Single(u.rows), NEW s, s.rows = u.rows, s.loaded = u.loaded,
           s.noted = u.noted, s.purged = u.purged, s.pc \in {"fetch", "heal", "mark", "commit"}
    PROVE  Kept(s)
BY DEF Kept, Fresh, InStep, Seen

LEMMA CalmWorks ==
    ASSUME AttrsInv, Calm, NEW p \in Actor,
           Answered(p) \/ RefreshRaises(p) \/ RecordSearch(p) \/ Heal(p)
    PROVE  \E s : Moves(p, s)
<1>0. /\ IsSession(session[p]) /\ Stage(p, session[p]) /\ Shelf
      /\ Fresh(session[p]) /\ Single(session[p].rows) /\ Busy(p) /\ ~Resting(session[p])
      /\ session[p].pc \in {"fetch", "record", "heal"} /\ UNCHANGED <<offers, history>>
    BY DEF Answered, RefreshRaises, RecordSearch, Heal, AttrsInv, Calm, Kept, Busy, Resting, Stored
<1>1. \A q \in Actor \ {p} : Clean(session[q]) BY <1>0, AloneIs
<1>2. ASSUME NEW t, t = Load(session[p], DOMAIN offers), Unwritten(session[p]),
             NEW a \in Answer, NEW latest \in BOOLEAN, NEW u, u = Record(t, a, latest)
      PROVE  Fresh(u) /\ Single(u.rows) /\ IsSession(u)
    <2>1. /\ Fresh(t) /\ Single(t.rows) /\ DOMAIN t.rows = DOMAIN session[p].rows \cup DOMAIN offers
          /\ Unwritten(t)
        BY <1>0, <1>2, LoadFresh DEF Unwritten
    <2>2. IsSession(t) BY <1>0, <1>2, LoadIs
    <2> QED BY <1>0, <1>1, <1>2, <2>1, <2>2, RecordFresh, RecordIs
<1>3. CASE Answered(p)
    <2>1. PICK a \in Answer, latest \in BOOLEAN, t \in {Load(session[p], DOMAIN offers)} :
             Change(p, [Record(t, a, latest) EXCEPT
                          !.attrs.enriched = now,
                          !.pc = IF session[p].kind = "view" THEN "heal" ELSE "commit"])
        BY <1>3 DEF Answered
    <2>2. PICK u : u = Record(t, a, latest) OBVIOUS
    <2>3. t = Load(session[p], DOMAIN offers) /\ Unwritten(session[p])
        BY <1>0, <1>3, <2>1 DEF Stage, Answered
    <2>4. Fresh(u) /\ Single(u.rows) /\ IsSession(u) BY <1>2, <2>2, <2>3
    <2>5. PICK pc \in {"heal", "commit"} :
             pc = IF session[p].kind = "view" THEN "heal" ELSE "commit"
        OBVIOUS
    <2>6. PICK s : s = [u EXCEPT !.attrs.enriched = now, !.pc = pc] /\ Change(p, s)
        BY <2>1, <2>2, <2>5
    <2>7. /\ s.pc = pc /\ s.rows = u.rows /\ s.loaded = u.loaded /\ s.noted = u.noted
          /\ s.purged = u.purged
        BY <2>4, <2>6 DEF IsSession
    <2>8. Kept(s) BY <2>4, <2>7, FreshIsKept
    <2> QED BY <1>0, <2>6, <2>8 DEF Moves
<1>4. CASE RefreshRaises(p)
    <2>1. PICK pc \in {"heal", "commit"} :
             pc = IF session[p].kind = "view" THEN "heal" ELSE "commit"
        OBVIOUS
    <2>2. PICK s : s = [session[p] EXCEPT !.pc = pc, !.answer = {"raised"}] /\ Change(p, s)
        BY <1>4, <2>1 DEF RefreshRaises
    <2>3. PICK u : u = session[p] OBVIOUS
    <2>4. /\ s.pc = pc /\ s.rows = u.rows /\ s.loaded = u.loaded /\ s.noted = u.noted
          /\ s.purged = u.purged
        BY <1>0, <2>2, <2>3 DEF IsSession
    <2>5. Kept(s) BY <1>0, <2>3, <2>4, FreshIsKept
    <2> QED BY <1>0, <2>2, <2>5 DEF Moves
<1>5. CASE RecordSearch(p)
    <2>1. PICK t \in {Load(session[p], DOMAIN offers)} :
             LET late == t.was = NoProduct /\ attrs # NoProduct
             IN \E latest \in BOOLEAN :
                  Change(p, [Record(t, t.answer, latest) EXCEPT
                               !.pc = "heal",
                               !.was = IF late THEN attrs ELSE @,
                               !.attrs = IF late THEN Merged(attrs, t.attrs.flagged) ELSE @])
        BY <1>5 DEF RecordSearch
    <2>2. PICK late, latest \in BOOLEAN :
                  Change(p, [Record(t, t.answer, latest) EXCEPT
                               !.pc = "heal",
                               !.was = IF late THEN attrs ELSE @,
                               !.attrs = IF late THEN Merged(attrs, t.attrs.flagged) ELSE @])
        BY <2>1
    <2>3. PICK u : u = Record(t, t.answer, latest) OBVIOUS
    <2>4. t = Load(session[p], DOMAIN offers) /\ Unwritten(session[p]) /\ session[p].answer \in Answer
        BY <1>0, <1>5, <2>1 DEF Stage, RecordSearch
    <2>5. t.answer \in Answer
        <3>1. Alike(session[p], t) BY <1>0, <2>4, LoadIs
        <3> QED BY <2>4, <3>1 DEF Alike
    <2>6. Fresh(u) /\ Single(u.rows) /\ IsSession(u) BY <1>2, <2>3, <2>4, <2>5
    <2>7. PICK was, held : Change(p, [u EXCEPT !.pc = "heal", !.was = was, !.attrs = held])
        <3>1. PICK was, held : /\ was = IF late THEN attrs ELSE u.was
                               /\ held = IF late THEN Merged(attrs, t.attrs.flagged) ELSE u.attrs
            OBVIOUS
        <3> QED BY <2>2, <2>3, <3>1
    <2>8. PICK s : s = [u EXCEPT !.pc = "heal", !.was = was, !.attrs = held] /\ Change(p, s)
        BY <2>7
    <2>9. /\ s.pc = "heal" /\ s.rows = u.rows /\ s.loaded = u.loaded /\ s.noted = u.noted
          /\ s.purged = u.purged
        BY <2>6, <2>8 DEF IsSession
    <2>10. Kept(s) BY <2>6, <2>9, FreshIsKept
    <2> QED BY <1>0, <2>8, <2>10 DEF Moves
<1>6. CASE Heal(p)
    <2>1. PICK t \in {Load(session[p], ActiveFor(session[p]) \cap DOMAIN offers)} :
          \E r \in {Retirement(t.rows, ActiveFor(t))} :
             Change(p, [Healed(t, r, Purge(t, r)) EXCEPT
                          !.pc = IF LooksUp(t, ActiveFor(t) \ r.retired) THEN "mark" ELSE "commit"])
        BY <1>6 DEF Heal
    <2>2. PICK r : /\ r = Retirement(t.rows, ActiveFor(t))
                   /\ Change(p, [Healed(t, r, Purge(t, r)) EXCEPT
                          !.pc = IF LooksUp(t, ActiveFor(t) \ r.retired) THEN "mark" ELSE "commit"])
        BY <2>1
    <2>3. PICK u : u = Healed(t, r, Purge(t, r)) OBVIOUS
    <2>4. PICK pc \in {"mark", "commit"} :
             pc = IF LooksUp(t, ActiveFor(t) \ r.retired) THEN "mark" ELSE "commit"
        OBVIOUS
    <2>5. PICK s : s = [u EXCEPT !.pc = pc] /\ Change(p, s) BY <2>2, <2>3, <2>4
    <2>6. session[p].purged = {} BY <1>0, <1>6 DEF Stage, Heal
    <2>7. PICK ids : ids = ActiveFor(session[p]) \cap DOMAIN offers OBVIOUS
    <2>8. t = Load(session[p], ids) /\ ids \subseteq DOMAIN offers BY <2>1, <2>7
    <2>9. /\ Fresh(t) /\ Single(t.rows) /\ t.purged = {} /\ IsSession(t)
          /\ DOMAIN t.rows = DOMAIN session[p].rows \cup ids
        <3>1. IsSession(t) BY <1>0, <2>8, LoadIs
        <3>2. /\ Fresh(t) /\ Single(t.rows) /\ DOMAIN t.rows = DOMAIN session[p].rows \cup ids
              /\ t.purged = session[p].purged
            BY <1>0, <2>8, LoadFresh
        <3> QED BY <2>6, <3>1, <3>2
    <2>10. r.retired \subseteq DOMAIN t.rows
        <3>1. r.retired \subseteq ActiveFor(t) BY <2>2 DEF Retirement
        <3>2. ASSUME NEW i \in ActiveFor(t) PROVE i \in DOMAIN t.rows
            <4>1. CASE i \in DOMAIN session[p].rows BY <2>9, <4>1
            <4>2. CASE i \notin DOMAIN session[p].rows
                <5>1. CASE i \in ids BY <2>9, <5>1
                <5>2. CASE i \notin ids
                    <6>1. i \in DOMAIN offers \cup DOMAIN t.rows /\ Flushed(t, i).active
                        BY DEF ActiveFor
                    <6>2. i \notin DOMAIN t.rows BY <2>9, <4>2, <5>2
                    <6>3. i \in DOMAIN offers /\ Flushed(t, i) = offers[i]
                        BY <1>0, <2>9, <6>1, <6>2, FlushedIs DEF Fresh, Seen, Shelf
                    <6>4. Flushed(session[p], i) = offers[i]
                        BY <1>0, <4>2, <6>3, FlushedIs DEF Fresh, Seen, Shelf
                    <6>5. i \in ActiveFor(session[p]) BY <6>1, <6>3, <6>4 DEF ActiveFor
                    <6> QED BY <2>7, <5>2, <6>3, <6>5
                <5> QED BY <5>1, <5>2
            <4> QED BY <4>1, <4>2
        <3> QED BY <3>1, <3>2
    <2>11. Fresh(u) /\ Single(u.rows) /\ IsSession(u)
        BY <1>0, <2>3, <2>9, <2>10, HealedFresh, HealedIs
    <2>12. /\ s.pc = pc /\ s.rows = u.rows /\ s.loaded = u.loaded /\ s.noted = u.noted
           /\ s.purged = u.purged
        BY <2>5, <2>11 DEF IsSession
    <2>13. Kept(s) BY <2>11, <2>12, FreshIsKept
    <2> QED BY <1>0, <2>5, <2>13 DEF Moves
<1> QED BY <1>3, <1>4, <1>5, <1>6

\* What happens to searches that wait for a lookup, and to lookups.
LEMMA CalmWaits ==
    ASSUME AttrsInv, Calm, NEW p \in Actor, TimedOut(p) \/ Rebuild(p)
    PROVE  \E s : Moves(p, s)
<1>0. /\ IsSession(session[p]) /\ Stage(p, session[p]) /\ Shelf
      /\ Clean(session[p]) /\ Single(session[p].rows) /\ Busy(p)
      /\ UNCHANGED <<offers, history>>
    BY DEF TimedOut, Rebuild, AttrsInv, Calm, Kept, Busy, Stored
<1>1. CASE TimedOut(p)
    <2>1. PICK s : s = [session[p] EXCEPT !.pc = "commit", !.slot = {}] /\ Change(p, s)
        BY <1>1 DEF TimedOut
    <2>2. Resting(s) /\ Single(s.rows) BY <1>0, <2>1, WokenIs
    <2>3. Kept(s) BY <2>1, <2>2, <1>0 DEF Kept, Resting, IsSession
    <2> QED BY <1>0, <2>1, <2>2, <2>3 DEF Moves
<1>2. CASE Rebuild(p)
    <2>1. PICK t : t = [session[p] EXCEPT !.pc = "commit", !.rows = <<>>, !.loaded = <<>>,
                                          !.attrs = attrs, !.was = attrs]
        OBVIOUS
    <2>2. PICK ids : ids = {i \in DOMAIN offers : offers[i].active} OBVIOUS
    <2>3. PICK s : s = Load(t, ids) /\ Change(p, s) BY <1>2, <2>1, <2>2 DEF Rebuild
    <2>4. /\ IsSession(t) /\ t.pc = "commit" /\ t.rows = <<>> /\ t.loaded = <<>> /\ Unwritten(t)
        BY <1>0, <2>1 DEF IsSession, Clean, Unwritten
    <2>5. Fresh(t) /\ Single(t.rows) BY <1>0, <2>4, EmptyKept DEF Shelf
    <2>6. /\ Single(s.rows) /\ DOMAIN s.rows = DOMAIN t.rows \cup ids
          /\ s.noted = t.noted /\ s.purged = t.purged
        BY <1>0, <2>2, <2>3, <2>4, <2>5, LoadFresh
    <2>7. IsSession(s) /\ Alike(t, s) /\ s.loaded = s.rows
        <3>1. IsSession(s) /\ Alike(t, s)
              /\ s.rows = Over(t.rows, [i \in ids |-> offers[i]])
              /\ s.loaded = Over(t.loaded, [i \in ids |-> offers[i]])
            BY <2>3, <2>4, LoadIs
        <3> QED BY <2>4, <3>1
    <2>8. Clean(s) /\ s.pc = "commit"
        BY <2>2, <2>4, <2>6, <2>7, NoRows DEF Clean, Unwritten, Alike
    <2>9. Kept(s) /\ Resting(s) BY <2>6, <2>8 DEF Kept, Resting
    <2> QED BY <1>0, <2>3, <2>9 DEF Moves
<1> QED BY <1>1, <1>2

LEMMA CalmLaunch ==
    ASSUME AttrsInv, Calm, NEW p \in Actor, Launch(p)
    PROVE  Calm'
<1>0. /\ IsSession(session[p]) /\ Stage(p, session[p]) /\ Shelf /\ session[p].pc = "launch"
      /\ Clean(session[p]) /\ Single(session[p].rows) /\ Busy(p) /\ ~Resting(session[p])
      /\ UNCHANGED <<offers, history>>
    BY DEF Launch, AttrsInv, Calm, Kept, Busy, Stored, Resting
<1>1. p \in Req /\ p \notin Slot BY <1>0 DEF Stage, Actor
<1>2. CASE Change(p, [session[p] EXCEPT !.pc = "wait"])
    <2>1. PICK s : s = [session[p] EXCEPT !.pc = "wait"] /\ Change(p, s) BY <1>2
    <2>2. /\ s.pc = "wait" /\ s.rows = session[p].rows /\ s.loaded = session[p].loaded
          /\ s.noted = session[p].noted /\ s.purged = session[p].purged
        BY <1>0, <2>1 DEF IsSession
    <2>3. Kept(s) /\ Resting(s) BY <1>0, <2>2 DEF Kept, Resting, Clean, Unwritten
    <2> QED BY <1>0, <2>1, <2>3, CalmMoves DEF Moves
<1>3. ASSUME NEW q \in Slot, ~Busy(q),
             session' = [session EXCEPT ![p].pc = "wait", ![p].slot = {q},
                                        ![q] = [Rest EXCEPT !.kind = "lookup", !.pc = "open"]]
      PROVE  Calm'
    <2>1. p # q /\ q \in Actor BY <1>0, <1>1 DEF Actor
    <2>2. PICK s : s = [session[p] EXCEPT !.pc = "wait", !.slot = {q}] OBVIOUS
    <2>3. PICK u : u = [Rest EXCEPT !.kind = "lookup", !.pc = "open"] OBVIOUS
    <2>4. /\ session'[p] = s /\ session'[q] = u
          /\ \A x \in Actor \ {p, q} : session'[x] = session[x]
        BY <1>3, <2>1, <2>2, <2>3 DEF AttrsInv
    <2>5. /\ s.pc = "wait" /\ s.rows = session[p].rows /\ s.loaded = session[p].loaded
          /\ s.noted = session[p].noted /\ s.purged = session[p].purged
        BY <1>0, <2>2 DEF IsSession
    <2>6. Kept(s) /\ Resting(s) BY <1>0, <2>5 DEF Kept, Resting, Clean, Unwritten
    <2>7. u.rows = <<>> /\ u.loaded = <<>> /\ Unwritten(u) /\ u.pc = "open"
        BY <2>3 DEF Rest, Unwritten
    <2>8. Kept(u) BY <1>0, <2>7, EmptyKept DEF Shelf, Kept
    <2>9. \A x \in Actor \ {p, q} : ~Busy(x) BY <1>0, <1>1, AloneIs
    <2>10. ASSUME NEW x \in Actor PROVE Kept(session[x])'
        <3>1. Kept(session'[x]) BY <2>4, <2>6, <2>8 DEF Calm
        <3> QED BY <1>0, <3>1 DEF Kept, Single, Fresh, InStep, Seen, Clean
    <2>11. \A x \in Actor \ {p, q} : ~Busy(x)' BY <2>4, <2>9 DEF Busy
    <2>12. Resting(session[p])' BY <1>0, <2>4, <2>6 DEF Resting, Clean
    <2>13. \A x \in Actor : \A y \in Actor \ {x} : Beside(x, y)'
        BY <1>1, <1>3, <2>11, <2>12 DEF Beside
    <2>14. Shelf' BY <1>0 DEF Shelf, Single, HistoryActive
    <2> QED BY <2>10, <2>13, <2>14 DEF Calm
<1> QED BY <1>2, <1>3 DEF Launch

LEMMA CalmOpenLookup ==
    ASSUME AttrsInv, Calm, NEW p \in Actor, OpenLookup(p)
    PROVE  Calm'
<1>0. /\ IsSession(session[p]) /\ Stage(p, session[p]) /\ Shelf /\ session[p].pc = "open"
      /\ Busy(p) /\ ~Resting(session[p]) /\ UNCHANGED <<offers, history>>
    BY DEF OpenLookup, AttrsInv, Calm, Kept, Busy, Stored, Resting
<1>1. CASE Ends(p, FALSE)
    <2>1. Shelf' BY <1>0 DEF Shelf, Single, HistoryActive
    <2>2. session'[p] = Rest BY <1>1, EndsIs
    <2>3. Kept(session[p])' /\ session'[p].pc = "idle"
        BY <2>2, NoRows DEF Rest, Kept, Clean, Single, Unwritten
    <2>4. Leaves(p) BY <1>1, <2>3, EndsIs DEF Leaves
    <2> QED BY <1>0, <2>1, <2>3, <2>4, CalmLeaves
<1>2. CASE ~Ends(p, FALSE)
    <2>1. PICK t : t = [session[p] EXCEPT !.pc = "fetch", !.was = attrs,
                                          !.attrs = [attrs EXCEPT !.attempted = now]]
        OBVIOUS
    <2>2. PICK ids : ids = {i \in DOMAIN offers : offers[i].active} OBVIOUS
    <2>3. PICK s : s = Load(t, ids) /\ Change(p, s) BY <1>0, <1>2, <2>1, <2>2 DEF OpenLookup
    <2>4. /\ IsSession(t) /\ t.pc = "fetch" /\ t.rows = <<>> /\ t.loaded = <<>> /\ Unwritten(t)
        BY <1>0, <2>1 DEF IsSession, Stage, Unwritten
    <2>5. Fresh(t) /\ Single(t.rows) BY <1>0, <2>4, EmptyKept DEF Shelf
    <2>6. Fresh(s) /\ Single(s.rows) BY <1>0, <2>2, <2>3, <2>4, <2>5, LoadFresh
    <2>7. s.pc = "fetch"
        <3>1. Alike(t, s) BY <2>3, <2>4, LoadIs
        <3> QED BY <2>4, <3>1 DEF Alike
    <2>8. Kept(s) BY <2>6, <2>7 DEF Kept
    <2> QED BY <1>0, <2>3, <2>8, CalmMoves DEF Moves
<1> QED BY <1>1, <1>2

LEMMA CalmMark ==
    ASSUME AttrsInv, Calm, NEW p \in Actor, CommitMark(p)
    PROVE  Calm'
<1>0. /\ IsSession(session[p]) /\ Stage(p, session[p]) /\ Shelf /\ session[p].pc = "mark"
      /\ Fresh(session[p]) /\ Single(session[p].rows) /\ Busy(p) /\ ~Resting(session[p])
    BY DEF CommitMark, AttrsInv, Calm, Kept, Busy, Resting
<1>1. PICK t : t = [session[p] EXCEPT !.attrs.attempted = now] OBVIOUS
<1>2. PICK s : /\ Written(t) /\ Change(p, s)
               /\ s = [t EXCEPT !.pc = "launch", !.was = t.attrs, !.loaded = t.rows,
                                !.noted = {}, !.purged = {}]
    BY <1>1 DEF CommitMark
<1>3. /\ IsSession(t) /\ t.rows = session[p].rows /\ t.loaded = session[p].loaded
      /\ t.noted = session[p].noted /\ t.purged = session[p].purged
    BY <1>0, <1>1 DEF IsSession
<1>4. Fresh(t) /\ Single(t.rows) BY <1>0, <1>3 DEF Fresh, InStep, Seen
<1>5. Shelf' /\ DOMAIN offers' = DOMAIN offers \cup DOMAIN t.rows
    BY <1>0, <1>2, <1>4, FreshWrites
<1>6. s.pc = "launch" /\ s.rows = t.rows /\ s.loaded = t.rows /\ Unwritten(s)
    BY <1>2, <1>3 DEF IsSession, Unwritten
<1>7. /\ session'[p] = s /\ \A q \in Actor \ {p} : session'[q] = session[q]
    BY <1>2, Changed DEF AttrsInv
<1>8. Kept(session[p])' BY <1>4, <1>5, <1>6, <1>7 DEF Kept, Single, Clean, Unwritten
<1>9. Leaves(p) BY <1>6, <1>7, <1>8 DEF Leaves
<1>10. p \in Req BY <1>0 DEF Stage, Actor
<1> QED BY <1>0, <1>5, <1>9, <1>10, CalmLeaves

LEMMA CalmCommit ==
    ASSUME AttrsInv, Calm, NEW p \in Actor, Commit(p)
    PROVE  Calm'
<1>0. /\ IsSession(session[p]) /\ Stage(p, session[p]) /\ Shelf /\ session[p].pc = "commit"
      /\ Single(session[p].rows) /\ Busy(p) /\ Written(session[p])
      /\ Fresh(session[p]) \/ Clean(session[p])
    BY DEF Commit, AttrsInv, Calm, Kept, Busy
<1>1. /\ session'[p] = Rest
      /\ \A q \in Actor \ {p} :
            \/ session'[q] = session[q]
            \/ /\ p \in Slot /\ session[q].pc = "wait"
               /\ \E pc \in {"rebuild", "commit"} :
                     session'[q] = [session[q] EXCEPT !.pc = pc, !.slot = {}]
    <2>1. CASE p \in Slot
        <3>1. Ends(p, session[p].answer = {}) BY <2>1 DEF Commit
        <3> QED BY <2>1, <3>1, EndsIs
    <2>2. CASE p \notin Slot
        <3>1. Change(p, Rest) BY <2>2 DEF Commit
        <3> QED BY <3>1, Changed DEF AttrsInv
    <2> QED BY <2>1, <2>2
<1>2. CASE ~Resting(session[p])
    <2>1. Fresh(session[p]) BY <1>0, <1>2 DEF Resting
    <2>2. Shelf' /\ DOMAIN offers \subseteq DOMAIN offers' BY <1>0, <2>1, FreshWrites
    <2>5. session'[p] = Rest BY <1>1
    <2>3. Kept(session[p])' /\ session'[p].pc = "idle"
        BY <2>5, NoRows DEF Rest, Kept, Clean, Single, Unwritten
    <2>4. Leaves(p) BY <1>1, <2>3 DEF Leaves
    <2> QED BY <1>0, <1>2, <2>2, <2>3, <2>4, CalmLeaves
<1>3. CASE Resting(session[p])
    <2>1. UNCHANGED <<offers, history>> BY <1>0, <1>3, CleanWrites DEF Resting
    <2>2. Shelf' BY <1>0, <2>1 DEF Shelf, Single, HistoryActive
    <2>3. ASSUME NEW q \in Actor \ {p}
          PROVE  /\ Kept(session[q])'
                 /\ Busy(q)' => Busy(q)
                 /\ Resting(session[q]) => Resting(session[q])'
        <3>1. CASE session'[q] = session[q]
            <4>1. Kept(session[q]) BY DEF Calm
            <4> QED BY <2>1, <3>1, <4>1
                DEF Kept, Single, Fresh, InStep, Seen, Clean, Busy, Resting, Unwritten
        <3>2. CASE session'[q] # session[q]
            <4>1. PICK pc \in {"rebuild", "commit"} :
                     /\ session[q].pc = "wait"
                     /\ session'[q] = [session[q] EXCEPT !.pc = pc, !.slot = {}]
                BY <1>1, <3>2
            <4>2. Clean(session[q]) /\ Single(session[q].rows) /\ IsSession(session[q])
                BY <4>1 DEF Calm, Kept, AttrsInv
            <4>3. PICK u : u = session'[q] /\ Resting(u) /\ Single(u.rows) BY <4>1, <4>2, WokenIs
            <4>4. Resting(session[q])' BY <2>1, <4>3 DEF Resting, Clean, Unwritten
            <4>5. Kept(session[q])' BY <4>3, <4>4 DEF Kept, Resting, Single
            <4> QED BY <4>1, <4>4, <4>5 DEF Busy
        <3> QED BY <3>1, <3>2
    <2>7. session'[p] = Rest BY <1>1
    <2>4. Kept(session[p])' /\ ~Busy(p)'
        BY <2>7, NoRows DEF Rest, Kept, Clean, Single, Unwritten, Busy
    <2>5. ASSUME NEW x \in Actor, NEW q \in Actor \ {x} PROVE Beside(x, q)'
        <3> SUFFICES ASSUME Busy(x)', Busy(q)'
                     PROVE  \/ x \in Req /\ q \in Slot /\ Resting(session[x])'
                            \/ x \in Slot /\ q \in Req /\ Resting(session[q])'
            BY DEF Beside
        <3>1. x \in Actor \ {p} /\ q \in Actor \ {p} BY <2>4
        <3>2. Busy(x) /\ Busy(q) BY <2>3, <3>1
        <3>3. Beside(x, q) BY DEF Calm
        <3> QED BY <2>3, <3>1, <3>2, <3>3 DEF Beside
    <2>6. ASSUME NEW x \in Actor PROVE Kept(session[x])'
        <3>1. CASE x = p BY <2>4, <3>1
        <3>2. CASE x # p BY <2>3, <3>2
        <3> QED BY <3>1, <3>2
    <2> QED BY <2>2, <2>5, <2>6 DEF Calm
<1> QED BY <1>2, <1>3

LEMMA CalmStep ==
    ASSUME AttrsInv, CalmInv, [Next]_vars
    PROVE  CalmInv'
<1>1. overlapped' \in BOOLEAN /\ (~overlapped' => ~overlapped)
    BY DEF CalmInv, Next, vars, Proceed, OpenView, OpenJob, OpenSearch, Starts, Answered,
           RefreshRaises, RecordSearch, Heal, CommitMark, Launch, TimedOut, Rebuild, OpenLookup,
           Commit, Restart, Tick
<1> SUFFICES ASSUME ~overlapped' PROVE Calm'
    BY <1>1 DEF CalmInv
<1>2. Calm BY <1>1 DEF CalmInv
<1>3. ASSUME UNCHANGED <<offers, history, session>> PROVE Calm'
    BY <1>2, <1>3 DEF Calm, Shelf, Single, HistoryActive, Kept, Fresh, InStep, Seen, Clean,
                      Unwritten, Beside, Busy, Resting
<1>4. CASE Restart
    <2>1. UNCHANGED <<offers, history>> /\ \A p \in Actor : session'[p] = Rest
        BY <1>4 DEF Restart, Stored, Actor
    <2>2. Shelf' BY <1>2, <2>1 DEF Calm, Shelf, Single, HistoryActive
    <2>3. \A p \in Actor : Kept(session[p])'
        BY <2>1, NoRows DEF Rest, Kept, Clean, Single, Unwritten
    <2>4. \A p \in Actor : ~Busy(p)' BY <2>1 DEF Rest, Busy
    <2> QED BY <2>2, <2>3, <2>4 DEF Calm, Beside
<1>5. CASE Tick BY <1>3, <1>5 DEF Tick, Stored
<1>6. CASE UNCHANGED vars BY <1>3, <1>6 DEF vars
<1>7. ASSUME NEW p \in Actor, Proceed(p) PROVE Calm'
    <2>1. CASE Answered(p) \/ RefreshRaises(p) \/ RecordSearch(p) \/ Heal(p)
        BY <1>2, <2>1, CalmWorks, CalmMoves
    <2>2. CASE TimedOut(p) \/ Rebuild(p) BY <1>2, <2>2, CalmWaits, CalmMoves
    <2>3. CASE CommitMark(p) BY <1>2, <2>3, CalmMark
    <2>4. CASE Launch(p) BY <1>2, <2>4, CalmLaunch
    <2>5. CASE OpenLookup(p) BY <1>2, <2>5, CalmOpenLookup
    <2>6. CASE Commit(p) BY <1>2, <2>6, CalmCommit
    <2> QED BY <1>7, <2>1, <2>2, <2>3, <2>4, <2>5, <2>6 DEF Proceed
<1>8. ASSUME NEW p \in Req, Opens(p) PROVE Calm'
    <2>1. p \in Actor BY DEF Actor
    <2> QED BY <1>2, <1>8, <2>1, CalmOpens, CalmMoves
<1> QED BY <1>4, <1>5, <1>6, <1>7, <1>8 DEF Next, Opens, Actor

LEMMA CalmInit == Init => CalmInv
<1> SUFFICES ASSUME Init PROVE Calm /\ overlapped \in BOOLEAN
    BY DEF CalmInv
<1>1. offers = <<>> /\ history = {} /\ (\A p \in Actor : session[p] = Rest) /\ overlapped = FALSE
    BY DEF Init, Actor
<1>2. Shelf BY <1>1, NoRows DEF Shelf, Single, HistoryActive
<1>3. \A p \in Actor : Kept(session[p]) /\ ~Busy(p) BY <1>1, RestKept DEF Busy
<1> QED BY <1>1, <1>2, <1>3 DEF Calm, Beside

\* Requests, jobs and lookups that never start beside one another leave one row
\* for each source of the product (record_offer, offer_identity_hash), whatever
\* was retired and found again between them.
THEOREM OneRowPerSource == Spec => []OneOfferPerSource
<1>1. CalmInv => OneOfferPerSource
    BY DEF CalmInv, Calm, Shelf, Single, OneOfferPerSource
<1> QED BY <1>1, AttrsInit, AttrsStep, CalmInit, CalmStep, PTL DEF Spec

\* They leave no observation of a retired offer in the history the page shows
\* (deactivate_implausible_offers, purge_implausible_history).
THEOREM HistoryOnOffer == Spec => []HistoryOfActive
<1>1. CalmInv => HistoryOfActive
    BY DEF CalmInv, Calm, Shelf, HistoryActive, HistoryOfActive
<1> QED BY <1>1, AttrsInit, AttrsStep, CalmInit, CalmStep, PTL DEF Spec
=============================================================================
