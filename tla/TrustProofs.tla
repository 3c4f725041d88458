---------------------------- MODULE TrustProofs ----------------------------
(***************************************************************************)
(* Proofs about Trust, for any retailers, pages, reports, users and        *)
(* transactions: flag_count counts users (FlagInv ties what a transaction  *)
(* loaded to the flags there are), and a badge accuses a retailer only on  *)
(* corroborated evidence (BasisInv follows every piece of evidence from    *)
(* where it is found to the score).                                        *)
(***************************************************************************)
EXTENDS Trust, FiniteSetTheorems, TLAPS

Assessments == {"assess", "refresh_trust", "live", "baseline"}

\* What a transaction holds: an assessment, or a loaded report.
Shape(x) ==
  /\ x.kind \in Assessments \union {"idle", "flag", "moderate"}
  /\ x.kind \in Assessments =>
       /\ x = [kind |-> x.kind, step |-> x.step, batch |-> x.batch, done |-> x.done,
               own |-> x.own, pending |-> x.pending, got |-> x.got]
       /\ x.batch \in Seq(Retailer)
       /\ x.step # "commit" => x.batch # <<>>
  /\ x.kind \in {"flag", "moderate"} =>
       /\ x = [kind |-> x.kind, report |-> x.report, arg |-> x.arg, loaded |-> x.loaded,
               step |-> x.step]
       /\ x.report \in Report

TxInv == tx = [t \in Tx |-> tx[t]] /\ \A t \in Tx : Shape(tx[t])

-----------------------------------------------------------------------------
(* The shape of transactions *)

\* At the start nothing is in flight.
LEMMA TxInit == Init => TxInv
BY DEF Init, TxInv, Shape, Idle, Assessments

\* One transaction moves.
LEMMA TxOne ==
  ASSUME TxInv, NEW t \in Tx, NEW new, Shape(new), tx' = [tx EXCEPT ![t] = new]
  PROVE  TxInv'
<1>1. \A u \in Tx : tx'[u] = IF u = t THEN new ELSE tx[u] BY DEF TxInv
<1>2. tx' = [u \in Tx |-> tx'[u]] BY DEF TxInv
<1>3. \A u \in Tx : Shape(tx'[u]) BY <1>1 DEF TxInv
<1> QED BY <1>2, <1>3 DEF TxInv

\* Nothing in flight is a shape too.
LEMMA IdleShape == Shape(Idle)
BY DEF Shape, Idle, Assessments

\* An assessment that goes on, and that it is one still.
Moved(x, step, batch, done, own, pending, got) ==
  [kind |-> x.kind, step |-> step, batch |-> batch, done |-> done, own |-> own,
   pending |-> pending, got |-> got]

\* An assessment keeps its shape as long as it has a shop left or commits.
LEMMA MovedShape ==
  ASSUME NEW x, x.kind \in Assessments, NEW step, NEW batch \in Seq(Retailer), NEW done,
         NEW own, NEW pending, NEW got, step # "commit" => batch # <<>>
  PROVE  Shape(Moved(x, step, batch, done, own, pending, got))
BY DEF Moved, Shape, Assessments

\* An assessment is what its fields are.
LEMMA IsMoved ==
  ASSUME TxInv, NEW t \in Tx, Assessing(t)
  PROVE  LET x == tx[t] IN x = Moved(x, x.step, x.batch, x.done, x.own, x.pending, x.got)
BY DEF TxInv, Shape, Assessing, Assessments, Moved

\* What the pages and the reports say of a shop.
WebItems(r) == {AnalyzeItem(r, page) : page \in Pages[r]}
ReportItems(r) == {CommunityEvidence(r, p, About[p].topic, About[p].rating, About[p].verified) :
                     p \in ApprovedReports(r)}

\* It collects.
LEMMA CollectMoves ==
  ASSUME TxInv, NEW t \in Tx, Collect(t)
  PROVE  LET x == tx[t]
             r == Head(x.batch)
         IN  \E found \in {{}} \union Refinements(WebItems(r)) :
               tx' = [tx EXCEPT ![t] =
                        Moved(x, "store", x.batch, x.done, x.own, x.pending,
                              PolicyEvidence(r, Policies[r]) \union found \union ReportItems(r))]
<1> DEFINE x == tx[t]
           r == Head(x.batch)
<1>1. x = Moved(x, x.step, x.batch, x.done, x.own, x.pending, x.got) BY IsMoved DEF Collect
<1>2. PICK found \in {{}} \union Refinements(WebItems(r)) :
        tx' = [tx EXCEPT ![t].step = "store",
                         ![t].got = PolicyEvidence(r, Policies[r]) \union found \union ReportItems(r)]
  BY DEF Collect, WebItems, ReportItems
<1>3. PICK got : got = PolicyEvidence(r, Policies[r]) \union found \union ReportItems(r) OBVIOUS
<1>4. PICK new : new = [x EXCEPT !.step = "store", !.got = got] OBVIOUS
<1>5. tx' = [tx EXCEPT ![t] = new] BY <1>2, <1>3, <1>4 DEF TxInv
<1>6. new = Moved(x, "store", x.batch, x.done, x.own, x.pending, got) BY <1>1, <1>4 DEF Moved
<1> QED BY <1>3, <1>5, <1>6

\* It stores what is not on record, or waits to.
LEMMA StoreMoves ==
  ASSUME TxInv, NEW t \in Tx, Store(t) \/ StoreAfterWait(t)
  PROVE  LET x == tx[t]
         IN  \E items \in SUBSET x.got :
               \/ tx' = [tx EXCEPT ![t] =
                           Moved(x, "score", x.batch, x.done,
                                 x.own \union {<<Head(x.batch), e>> : e \in items},
                                 x.pending, x.got)]
               \/ tx' = [tx EXCEPT ![t] =
                           Moved(x, "wait", x.batch, x.done, x.own, x.pending, items)]
<1> DEFINE x == tx[t]
<1>1. x = Moved(x, x.step, x.batch, x.done, x.own, x.pending, x.got)
  BY IsMoved DEF Store, StoreAfterWait, Waiting
<1>2. PICK items \in SUBSET x.got :
        \/ tx' = [tx EXCEPT ![t].step = "score",
                            ![t].own = x.own \union {<<Head(x.batch), e>> : e \in items}]
        \/ tx' = [tx EXCEPT ![t].step = "wait", ![t].got = items]
  <2>1. CASE Store(t)
    <3> DEFINE fps == IdsOf(evidence \union x.own)
               items == {i \in x.got : i.id \notin fps}
    <3>1. \/ tx' = [tx EXCEPT ![t].step = "score",
                              ![t].own = x.own \union {<<Head(x.batch), e>> : e \in items}]
          \/ tx' = [tx EXCEPT ![t].step = "wait",
                              ![t].got = {w[2] : w \in {<<Head(x.batch), e>> : e \in items}}]
      BY <2>1 DEF Store, TxInv
    <3>2. items \in SUBSET x.got OBVIOUS
    <3> HIDE DEF items
    <3>3. {w[2] : w \in {<<Head(x.batch), e>> : e \in items}} = items
      <4>1. \A e \in items : <<Head(x.batch), e>>[2] = e OBVIOUS
      <4> QED BY <4>1
    <3> QED BY <3>1, <3>2, <3>3
  <2>2. CASE StoreAfterWait(t)
    BY <2>2 DEF StoreAfterWait, TxInv
  <2> QED BY <2>1, <2>2
<1>3. CASE tx' = [tx EXCEPT ![t].step = "score",
                            ![t].own = x.own \union {<<Head(x.batch), e>> : e \in items}]
  <2>1. PICK own : own = x.own \union {<<Head(x.batch), e>> : e \in items} OBVIOUS
  <2>2. PICK new : new = [x EXCEPT !.step = "score", !.own = own] OBVIOUS
  <2>3. tx' = [tx EXCEPT ![t] = new] BY <1>3, <2>1, <2>2 DEF TxInv
  <2>4. new = Moved(x, "score", x.batch, x.done, own, x.pending, x.got) BY <1>1, <2>2 DEF Moved
  <2> QED BY <2>1, <2>3, <2>4
<1>4. CASE tx' = [tx EXCEPT ![t].step = "wait", ![t].got = items]
  <2>1. PICK new : new = [x EXCEPT !.step = "wait", !.got = items] OBVIOUS
  <2>2. tx' = [tx EXCEPT ![t] = new] BY <1>4, <2>1 DEF TxInv
  <2>3. new = Moved(x, "wait", x.batch, x.done, x.own, x.pending, items) BY <1>1, <2>1 DEF Moved
  <2> QED BY <2>2, <2>3
<1> QED BY <1>2, <1>3, <1>4

\* It scores a retailer and turns to the next.
LEMMA ScoreMoves ==
  ASSUME TxInv, NEW t \in Tx, ComputeAndStore(t)
  PROVE  LET x == tx[t]
             r == Head(x.batch)
             rest == Tail(x.batch)
         IN  \E new : /\ new.basis = ItemsOf(r, evidence \union x.own)
                      /\ new = [basis |-> new.basis, rank |-> new.rank]
                      /\ tx' = [tx EXCEPT ![t] =
                           Moved(x, IF rest = <<>> THEN "commit" ELSE "collect", rest,
                                 Append(x.done, r), x.own,
                                 [q \in DOMAIN x.pending \union {r} |->
                                    IF q = r THEN new ELSE x.pending[q]], {})]
<1> DEFINE x == tx[t]
           r == Head(x.batch)
           rest == Tail(x.batch)
<1>1. x = Moved(x, x.step, x.batch, x.done, x.own, x.pending, x.got)
  BY DEF TxInv, Shape, Assessing, Assessments, Moved, ComputeAndStore
<1>2. PICK new : new = [basis |-> ItemsOf(r, evidence \union x.own),
                        rank |-> 1 + Max(PendingRanks(r))]
  OBVIOUS
<1> DEFINE step == IF rest = <<>> THEN "commit" ELSE "collect"
           pending == [q \in DOMAIN x.pending \union {r} |-> IF q = r THEN new ELSE x.pending[q]]
<1>3. PICK p : p = pending OBVIOUS
<1>4. PICK y : y = [x EXCEPT !.batch = rest, !.got = {}, !.step = step,
                             !.done = Append(x.done, r), !.pending = p]
  OBVIOUS
<1>5. tx' = [tx EXCEPT ![t] = y] BY <1>2, <1>3, <1>4 DEF TxInv, ComputeAndStore
<1>6. y = Moved(x, step, rest, Append(x.done, r), x.own, p, {}) BY <1>1, <1>4 DEF Moved
<1>7. new.basis = ItemsOf(r, evidence \union x.own) /\ new = [basis |-> new.basis, rank |-> new.rank]
  BY <1>2
<1> QED BY <1>3, <1>5, <1>6, <1>7

\* A transaction that has loaded a report keeps to it.
LEMMA ReportShape ==
  ASSUME NEW x, Shape(x), x.kind \in {"flag", "moderate"}, NEW step
  PROVE  LET new == [x EXCEPT !.step = step]
         IN  /\ Shape(new) /\ new.kind = x.kind /\ new.step = step /\ new.report = x.report
             /\ new.arg = x.arg /\ new.loaded = x.loaded
<1>1. x = [kind |-> x.kind, report |-> x.report, arg |-> x.arg, loaded |-> x.loaded,
           step |-> x.step] /\ x.report \in Report
  BY DEF Shape
<1>2. PICK new : new = [x EXCEPT !.step = step] OBVIOUS
<1>3. new = [kind |-> x.kind, report |-> x.report, arg |-> x.arg, loaded |-> x.loaded,
             step |-> step]
  BY <1>1, <1>2
<1>4. /\ new.kind = x.kind /\ new.step = step /\ new.report = x.report
      /\ new.arg = x.arg /\ new.loaded = x.loaded
  BY <1>3
<1>5. Shape(new) BY <1>1, <1>3, <1>4 DEF Shape, Assessments
<1> QED BY <1>2, <1>4, <1>5

\* A transaction that moves on keeps its shape.
LEMMA MovedTx ==
  ASSUME TxInv, NEW t \in Tx, Assessing(t), NEW step, NEW batch \in Seq(Retailer), NEW done,
         NEW own, NEW pending, NEW got, step # "commit" => batch # <<>>,
         tx' = [tx EXCEPT ![t] = Moved(tx[t], step, batch, done, own, pending, got)]
  PROVE  TxInv'
<1>1. tx[t].kind \in Assessments BY DEF Assessing, Assessments
<1>2. Shape(Moved(tx[t], step, batch, done, own, pending, got)) BY <1>1, MovedShape
<1> QED BY <1>2, TxOne

\* A commit ends one transaction; the others learn that their scores are later.
LEMMA CommitMoves ==
  ASSUME TxInv, NEW t \in Tx, Commit(t), NEW u \in Tx
  PROVE  /\ tx' = [v \in Tx |-> tx'[v]]
         /\ u = t => tx'[u] = Idle
         /\ u # t /\ ~Assessing(u) => tx'[u] = tx[u]
         /\ u # t /\ Assessing(u) =>
              LET x == tx[u]
              IN  tx'[u] = Moved(x, x.step, x.batch, x.done, x.own,
                                 Superseded(x.pending, tx[t].pending), x.got)
<1>1. tx' = [v \in Tx |-> IF v = t THEN Idle
                          ELSE IF Assessing(v)
                          THEN [tx[v] EXCEPT !.pending = Superseded(tx[v].pending, tx[t].pending)]
                          ELSE tx[v]]
  BY DEF Commit
<1>2. ASSUME u # t, Assessing(u)
      PROVE  LET x == tx[u]
             IN  tx'[u] = Moved(x, x.step, x.batch, x.done, x.own,
                                Superseded(x.pending, tx[t].pending), x.got)
  <2> DEFINE x == tx[u]
  <2>1. x = Moved(x, x.step, x.batch, x.done, x.own, x.pending, x.got)
    BY <1>2 DEF TxInv, Shape, Assessing, Assessments, Moved
  <2>2. PICK p : p = Superseded(x.pending, tx[t].pending) OBVIOUS
  <2>3. PICK y : y = [x EXCEPT !.pending = p] OBVIOUS
  <2>4. tx'[u] = y BY <1>1, <1>2, <2>2, <2>3
  <2>5. y = Moved(x, x.step, x.batch, x.done, x.own, p, x.got) BY <2>1, <2>3 DEF Moved
  <2> QED BY <2>2, <2>4, <2>5
<1> QED BY <1>1, <1>2

\* Transactions keep their shape.
LEMMA TxStep == TxInv /\ [Next]_vars => TxInv'
<1> SUFFICES ASSUME TxInv, [Next]_vars PROVE TxInv'
  OBVIOUS
<1>1. ASSUME NEW t \in Tx, NEW kind \in Assessments, NEW batch, Start(t, kind, batch) PROVE TxInv'
  <2>1. batch \in Seq(Retailer) /\ batch # <<>> BY <1>1 DEF Start
  <2> DEFINE new == [kind |-> kind, step |-> IF kind = "baseline" THEN "store" ELSE "collect",
                     batch |-> batch, done |-> <<>>, own |-> {}, pending |-> <<>>,
                     got |-> IF kind = "baseline"
                             THEN PolicyEvidence(Head(batch), Policies[Head(batch)]) ELSE {}]
  <2>2. Shape(new) BY <2>1 DEF Shape, Assessments
  <2>3. tx' = [tx EXCEPT ![t] = new] BY <1>1 DEF Start
  <2> HIDE DEF new
  <2> QED BY <2>2, <2>3, TxOne
<1>2. ASSUME NEW t \in Tx, Assessing(t), tx[t].step # "commit"
      PROVE  /\ tx[t].kind \in Assessments /\ tx[t].batch \in Seq(Retailer) /\ tx[t].batch # <<>>
             /\ Tail(tx[t].batch) \in Seq(Retailer)
  BY <1>2 DEF TxInv, Shape, Assessing, Assessments
<1>3. ASSUME NEW t \in Tx, Collect(t) PROVE TxInv'
  <2>1. Assessing(t) /\ tx[t].step # "commit" BY <1>3 DEF Collect
  <2>2. PICK batch, done, own, pending :
          batch = tx[t].batch /\ done = tx[t].done /\ own = tx[t].own /\ pending = tx[t].pending
    OBVIOUS
  <2>3. PICK got : tx' = [tx EXCEPT ![t] = Moved(tx[t], "store", batch, done, own, pending, got)]
    BY <1>3, <2>2, CollectMoves
  <2>4. batch \in Seq(Retailer) /\ batch # <<>> BY <1>2, <2>1, <2>2
  <2> QED BY <2>1, <2>3, <2>4, MovedTx
<1>4. ASSUME NEW t \in Tx, Store(t) \/ StoreAfterWait(t) PROVE TxInv'
  <2>1. Assessing(t) /\ tx[t].step # "commit" BY <1>4 DEF Store, StoreAfterWait, Waiting
  <2>2. PICK batch, done, own, pending, got :
          /\ batch = tx[t].batch /\ done = tx[t].done /\ own = tx[t].own
          /\ pending = tx[t].pending /\ got = tx[t].got
    OBVIOUS
  <2>3. PICK items \in SUBSET tx[t].got :
          \/ tx' = [tx EXCEPT ![t] =
                      Moved(tx[t], "score", tx[t].batch, tx[t].done,
                            tx[t].own \union {<<Head(tx[t].batch), e>> : e \in items},
                            tx[t].pending, tx[t].got)]
          \/ tx' = [tx EXCEPT ![t] =
                      Moved(tx[t], "wait", tx[t].batch, tx[t].done, tx[t].own, tx[t].pending, items)]
    BY <1>4, StoreMoves
  <2>4. PICK added : added = tx[t].own \union {<<Head(tx[t].batch), e>> : e \in items} OBVIOUS
  <2>5. PICK step \in {"score", "wait"} : \E newOwn, newGot :
          tx' = [tx EXCEPT ![t] = Moved(tx[t], step, batch, done, newOwn, pending, newGot)]
    <3>1. \/ tx' = [tx EXCEPT ![t] = Moved(tx[t], "score", batch, done, added, pending, got)]
          \/ tx' = [tx EXCEPT ![t] = Moved(tx[t], "wait", batch, done, own, pending, items)]
      BY <2>2, <2>3, <2>4
    <3> QED BY <3>1
  <2>6. PICK newOwn, newGot :
          tx' = [tx EXCEPT ![t] = Moved(tx[t], step, batch, done, newOwn, pending, newGot)]
    BY <2>5
  <2>7. batch \in Seq(Retailer) /\ batch # <<>> BY <1>2, <2>1, <2>2
  <2> QED BY <2>1, <2>6, <2>7, MovedTx
<1>5. ASSUME NEW t \in Tx, ComputeAndStore(t) PROVE TxInv'
  <2>1. Assessing(t) /\ tx[t].step # "commit" BY <1>5 DEF ComputeAndStore
  <2> DEFINE x == tx[t]
             rest == Tail(x.batch)
             step == IF rest = <<>> THEN "commit" ELSE "collect"
  <2>2. PICK new : tx' = [tx EXCEPT ![t] =
                            Moved(x, step, rest, Append(x.done, Head(x.batch)), x.own,
                                  [q \in DOMAIN x.pending \union {Head(x.batch)} |->
                                     IF q = Head(x.batch) THEN new ELSE x.pending[q]], {})]
    BY <1>5, ScoreMoves
  <2>3. rest \in Seq(Retailer) /\ (step # "commit" => rest # <<>>) BY <1>2, <2>1
  <2> HIDE DEF rest, step
  <2> QED BY <2>1, <2>2, <2>3, MovedTx
<1>7. ASSUME NEW t \in Tx, Commit(t) PROVE TxInv'
  <2>1. ASSUME NEW u \in Tx PROVE Shape(tx'[u])
    <3>1. CASE u = t BY <1>7, <3>1, CommitMoves, IdleShape
    <3>2. CASE u # t /\ ~Assessing(u) BY <1>7, <3>2, CommitMoves DEF TxInv
    <3>3. CASE u # t /\ Assessing(u)
      <4>1. /\ tx[u].kind \in Assessments /\ tx[u].batch \in Seq(Retailer)
            /\ tx[u].step # "commit" => tx[u].batch # <<>>
        BY <3>3 DEF TxInv, Shape, Assessing, Assessments
      <4> QED BY <1>7, <3>3, <4>1, CommitMoves, MovedShape
    <3> QED BY <3>1, <3>2, <3>3
  <2>2. tx' = [v \in Tx |-> tx'[v]] BY <1>7, CommitMoves
  <2> QED BY <2>1, <2>2 DEF TxInv
<1>8. ASSUME NEW t \in Tx, tx' = [tx EXCEPT ![t] = Idle] PROVE TxInv'
  BY <1>8, IdleShape, TxOne
<1>9. ASSUME NEW t \in Tx, NEW kind \in {"flag", "moderate"}, NEW p \in Report, NEW what,
             LoadReport(t, kind, p, what)
      PROVE  TxInv'
  <2> DEFINE new == [kind |-> kind, report |-> p, arg |-> what, loaded |-> reports[p],
                     step |-> "loaded"]
  <2>1. tx' = [tx EXCEPT ![t] = new] BY <1>9 DEF LoadReport
  <2>2. Shape(new) BY DEF Shape, Assessments
  <2> HIDE DEF new
  <2> QED BY <2>1, <2>2, TxOne
<1>10. ASSUME NEW t \in Tx, InsertFlag(t) PROVE TxInv'
  <2> DEFINE new == [tx[t] EXCEPT !.step = "flagged"]
  <2>1. Shape(tx[t]) /\ tx[t].kind = "flag" BY <1>10 DEF InsertFlag, Flagging, TxInv
  <2>2. Shape(new) BY <2>1, ReportShape
  <2>3. tx' = [tx EXCEPT ![t] = IF FlagRow(t) \in flags THEN Idle ELSE new]
    BY <1>10 DEF InsertFlag, TxInv
  <2> HIDE DEF new
  <2> QED BY <2>2, <2>3, IdleShape, TxOne
<1>11. CASE UNCHANGED tx BY <1>11 DEF TxInv
<1>12. ASSUME NEW t \in Tx, Assessment(t) PROVE TxInv'
  BY <1>1, <1>3, <1>4, <1>5, <1>7, <1>8, <1>12
     DEF Assessment, AssessNewRetailers, RefreshTrust, GetRetailerTrust, EnsureBaselineScore,
         CollectionFails, Assessments
<1>13. ASSUME NEW t \in Tx, Community(t) PROVE TxInv'
  BY <1>8, <1>9, <1>10, <1>13 DEF Community, CommitFlag, CommitModeration
<1> QED BY <1>11, <1>12, <1>13 DEF Next, vars, Create
-----------------------------------------------------------------------------
(* Flags *)

FlagsOf(p) == {f \in flags : f[1] = p}

\* What a transaction loaded of a report is no more than the flags it has by
\* now; the flag it is about to write is new, and nobody else writes it.
FlagOK(t) ==
  Flagging(t) =>
    /\ tx[t].loaded.flags \in Nat
    /\ tx[t].loaded.flags <= Cardinality(FlagsOf(tx[t].report))
    /\ tx[t].step = "flagged" =>
         /\ FlagRow(t) \notin flags
         /\ \A u \in Tx \ {t} : Flagging(u) /\ tx[u].step = "flagged" => FlagRow(u) # FlagRow(t)

ReportOK(p) ==
  /\ reports[p] = [status |-> reports[p].status, flags |-> reports[p].flags]
  /\ reports[p].flags \in Nat

FlagInv ==
  /\ IsFiniteSet(flags)
  /\ reports = [p \in Report |-> reports[p]]
  /\ \A p \in Report : ReportOK(p)
  /\ FlagsAreDistinctUsers
  /\ \A t \in Tx : FlagOK(t)

\* At the start nobody has flagged anything.
LEMMA FlagInit == Init => FlagInv
<1> SUFFICES ASSUME Init PROVE FlagInv
  OBVIOUS
<1>1. IsFiniteSet(flags) /\ flags = {} BY FS_EmptySet DEF Init
<1>2. \A p \in Report : FlagsOf(p) = {} /\ Cardinality(FlagsOf(p)) = 0
  BY <1>1, FS_EmptySet DEF FlagsOf
<1>3. \A p \in Report : reports[p].flags = 0 /\ ReportOK(p) BY DEF Init, ReportOK
<1>4. FlagsAreDistinctUsers BY <1>2, <1>3 DEF FlagsAreDistinctUsers, FlagsOf
<1>5. \A t \in Tx : ~Flagging(t) BY DEF Init, Idle, Flagging
<1>6. reports = [p \in Report |-> reports[p]] BY DEF Init
<1> QED BY <1>1, <1>3, <1>4, <1>5, <1>6 DEF FlagInv, FlagOK

\* A transaction that flags does so from when it loads the report.
LEMMA FlaggersLoad ==
  ASSUME TxInv, [Next]_vars, NEW t \in Tx, Flagging(t)'
  PROVE  \/ tx'[t] = tx[t]
         \/ /\ Flagging(t) /\ tx[t].step = "loaded" /\ InsertFlag(t)
            /\ tx'[t].step = "flagged" /\ tx'[t].report = tx[t].report
            /\ tx'[t].arg = tx[t].arg /\ tx'[t].loaded = tx[t].loaded
         \/ \E p \in Report : /\ tx'[t].report = p /\ tx'[t].loaded = reports[p]
                              /\ tx'[t].step = "loaded"
                              /\ UNCHANGED communityVars
<1>1. tx'[t].kind = "flag" BY DEF Flagging
<1>2. ASSUME NEW s \in Tx, NEW new, tx' = [tx EXCEPT ![s] = new], new.kind # "flag"
      PROVE  tx'[t] = tx[t]
  BY <1>1, <1>2 DEF TxInv
<1>3. ASSUME NEW s \in Tx, NEW kind \in Assessments, NEW batch, Start(s, kind, batch)
      PROVE  tx'[t] = tx[t]
  <2> DEFINE new == [kind |-> kind, step |-> IF kind = "baseline" THEN "store" ELSE "collect",
                     batch |-> batch, done |-> <<>>, own |-> {}, pending |-> <<>>,
                     got |-> IF kind = "baseline"
                             THEN PolicyEvidence(Head(batch), Policies[Head(batch)]) ELSE {}]
  <2>1. tx' = [tx EXCEPT ![s] = new] BY <1>3 DEF Start
  <2>2. new.kind # "flag" BY DEF Assessments
  <2> HIDE DEF new
  <2> QED BY <1>2, <2>1, <2>2
<1>5. ASSUME NEW s \in Tx, Collect(s) \/ Store(s) \/ StoreAfterWait(s) \/ ComputeAndStore(s)
      PROVE  tx'[t] = tx[t]
  <2>1. CASE s # t
    BY <1>5, <2>1 DEF TxInv, Collect, Store, StoreAfterWait, ComputeAndStore
  <2>2. CASE s = t
    <3>1. Assessing(t) /\ tx'[t].kind = tx[t].kind
      <4>1. Assessing(t)
        BY <1>5, <2>2 DEF Collect, Store, StoreAfterWait, ComputeAndStore, Waiting
      <4>2. PICK batch, done, own, pending, got :
              /\ batch = tx[t].batch /\ done = tx[t].done /\ own = tx[t].own
              /\ pending = tx[t].pending /\ got = tx[t].got
        OBVIOUS
      <4>3. CASE Collect(t)
        <5>1. PICK new : tx' = [tx EXCEPT ![t] = Moved(tx[t], "store", batch, done, own, pending, new)]
          BY <4>2, <4>3, CollectMoves
        <5> QED BY <4>1, <5>1 DEF Moved, TxInv
      <4>4. CASE Store(t) \/ StoreAfterWait(t)
        <5> DEFINE x == tx[t]
        <5>1. PICK items \in SUBSET x.got :
                \/ tx' = [tx EXCEPT ![t] =
                            Moved(x, "score", x.batch, x.done,
                                  x.own \union {<<Head(x.batch), e>> : e \in items},
                                  x.pending, x.got)]
                \/ tx' = [tx EXCEPT ![t] =
                            Moved(x, "wait", x.batch, x.done, x.own, x.pending, items)]
          BY <4>4, StoreMoves
        <5> QED BY <4>1, <5>1 DEF Moved, TxInv
      <4>5. CASE ComputeAndStore(t)
        <5> DEFINE x == tx[t]
                   rest == Tail(x.batch)
        <5>1. PICK n : tx' = [tx EXCEPT ![t] =
                         Moved(x, IF rest = <<>> THEN "commit" ELSE "collect", rest,
                               Append(x.done, Head(x.batch)), x.own,
                               [q \in DOMAIN x.pending \union {Head(x.batch)} |->
                                  IF q = Head(x.batch) THEN n ELSE x.pending[q]], {})]
          BY <4>5, ScoreMoves
        <5> QED BY <4>1, <5>1 DEF Moved, TxInv
      <4> QED BY <1>5, <2>2, <4>1, <4>3, <4>4, <4>5
    <3> QED BY <1>1, <3>1 DEF Assessing
  <2> QED BY <2>1, <2>2
<1>6. ASSUME NEW s \in Tx, Commit(s) PROVE tx'[t] = tx[t]
  <2>1. CASE t = s
    <3>1. tx'[t] = Idle BY <1>6, <2>1, CommitMoves
    <3> QED BY <1>1, <3>1 DEF Idle
  <2>2. CASE t # s /\ Assessing(t)
    <3>1. PICK p : tx'[t] = Moved(tx[t], tx[t].step, tx[t].batch, tx[t].done, tx[t].own, p, tx[t].got)
      BY <1>6, <2>2, CommitMoves
    <3>2. tx'[t].kind = tx[t].kind BY <3>1 DEF Moved
    <3> QED BY <1>1, <2>2, <3>2 DEF Assessing
  <2>3. CASE t # s /\ ~Assessing(t) BY <1>6, <2>3, CommitMoves
  <2> QED BY <2>1, <2>2, <2>3
<1>7. ASSUME NEW s \in Tx, CollectionFails(s) \/ CommitFlag(s) \/ CommitModeration(s)
      PROVE  tx'[t] = tx[t]
  <2>1. tx' = [tx EXCEPT ![s] = Idle] BY <1>7 DEF CollectionFails, CommitFlag, CommitModeration
  <2>2. Idle.kind # "flag" BY DEF Idle
  <2> QED BY <1>2, <2>1, <2>2
<1>8. ASSUME NEW s \in Tx, Assessment(s) PROVE tx'[t] = tx[t]
  BY <1>3, <1>5, <1>6, <1>7, <1>8
     DEF Assessment, AssessNewRetailers, RefreshTrust, GetRetailerTrust, EnsureBaselineScore,
         Assessments
<1>9. ASSUME NEW s \in Tx, s # t, Community(s) PROVE tx'[t] = tx[t]
  BY <1>9 DEF Community, LoadReport, InsertFlag, CommitFlag, CommitModeration, TxInv
<1>10. ASSUME NEW p \in Report, NEW kind, NEW what, LoadReport(t, kind, p, what)
       PROVE  /\ tx'[t].report = p /\ tx'[t].loaded = reports[p] /\ tx'[t].step = "loaded"
              /\ UNCHANGED communityVars
  BY <1>10 DEF LoadReport, TxInv
<1>11. ASSUME InsertFlag(t)
       PROVE  /\ Flagging(t) /\ tx[t].step = "loaded"
              /\ tx'[t].step = "flagged" /\ tx'[t].report = tx[t].report
              /\ tx'[t].arg = tx[t].arg /\ tx'[t].loaded = tx[t].loaded
  <2> DEFINE new == [tx[t] EXCEPT !.step = "flagged"]
  <2>1. Shape(tx[t]) /\ tx[t].kind = "flag" BY <1>11 DEF InsertFlag, Flagging, TxInv
  <2>2. /\ new.step = "flagged" /\ new.report = tx[t].report
        /\ new.arg = tx[t].arg /\ new.loaded = tx[t].loaded
    BY <2>1, ReportShape
  <2>3. tx'[t] = IF FlagRow(t) \in flags THEN Idle ELSE new BY <1>11 DEF InsertFlag, TxInv
  <2>4. tx'[t] # Idle BY <1>1 DEF Idle
  <2> HIDE DEF new
  <2> QED BY <1>11, <2>2, <2>3, <2>4 DEF InsertFlag
<1>12. CASE UNCHANGED vars \/ \E p \in Report : Create(p) BY <1>12 DEF vars, Create
<1> QED BY <1>7, <1>8, <1>9, <1>10, <1>11, <1>12 DEF Next, Community
\* A flag is written from what was loaded, and is one more than there were.
LEMMA FlagCommitted ==
  ASSUME TxInv, FlagInv, NEW t \in Tx, CommitFlag(t)
  PROVE  FlagInv'
<1>1. PICK p, old, count, f :
        /\ p \in Report /\ old \in Nat /\ count \in Nat
        /\ p = tx[t].report /\ old = tx[t].loaded.flags /\ count = old + 1 /\ f = FlagRow(t)
  BY DEF CommitFlag, Flagging, TxInv, Shape, FlagInv, FlagOK
<1>2. /\ old <= Cardinality(FlagsOf(p)) /\ f \notin flags /\ f[1] = p
      /\ \A u \in Tx \ {t} : Flagging(u) /\ tx[u].step = "flagged" => FlagRow(u) # f
  BY <1>1 DEF CommitFlag, FlagInv, FlagOK, FlagRow
<1>3. flags' = flags \union {f} BY <1>1 DEF CommitFlag
<1>4. IsFiniteSet(flags) /\ IsFiniteSet(flags') BY <1>3, FS_AddElement DEF FlagInv
<1>6. FlagsOf(p)' = FlagsOf(p) \union {f} /\ f \notin FlagsOf(p)
  <2>1. FlagsOf(p)' = {g \in flags' : g[1] = p} BY DEF FlagsOf
  <2> QED BY <1>2, <1>3, <2>1 DEF FlagsOf
<1>7. \A q \in Report : q # p => FlagsOf(q)' = FlagsOf(q) BY <1>2, <1>3 DEF FlagsOf
<1>8. \A q \in Report : IsFiniteSet(FlagsOf(q)) BY <1>4, FS_Subset DEF FlagsOf
<1>9. /\ Cardinality(FlagsOf(p)') = Cardinality(FlagsOf(p)) + 1
      /\ Cardinality(FlagsOf(p)) \in Nat
  BY <1>1, <1>6, <1>8, FS_AddElement, FS_CardinalityType
<1>10. \A q \in Report : Cardinality(FlagsOf(q)) \in Nat
  BY <1>8, FS_CardinalityType
<1>11. PICK status : reports' = [reports EXCEPT ![p].flags = count, ![p].status = status]
  BY <1>1 DEF CommitFlag, FlagInv
<1>12. reports'[p].flags = count /\ ReportOK(p)'
  <2>1. reports[p] = [status |-> reports[p].status, flags |-> reports[p].flags]
    BY <1>1 DEF FlagInv, ReportOK
  <2>2. reports'[p] = [reports[p] EXCEPT !.flags = count, !.status = status]
    BY <1>1, <1>11 DEF FlagInv
  <2>3. reports'[p] = [status |-> status, flags |-> count] BY <2>1, <2>2
  <2> QED BY <1>1, <2>3 DEF ReportOK
<1>13. \A q \in Report : q # p => reports'[q] = reports[q] BY <1>1, <1>11 DEF FlagInv
<1>14. reports' = [q \in Report |-> reports'[q]] BY <1>1, <1>11 DEF FlagInv
<1>15. \A q \in Report : ReportOK(q)'
  <2>1. \A q \in Report : q # p => ReportOK(q)' BY <1>13 DEF ReportOK, FlagInv
  <2> QED BY <1>12, <2>1
<1>16. FlagsAreDistinctUsers'
  <2>1. count <= Cardinality(FlagsOf(p)') BY <1>1, <1>2, <1>9
  <2>2. ASSUME NEW q \in Report PROVE reports'[q].flags <= Cardinality(FlagsOf(q)')
    <3>1. CASE q = p BY <1>12, <2>1, <3>1
    <3>2. CASE q # p
      <4>1. reports[q].flags <= Cardinality(FlagsOf(q)) BY DEF FlagInv, FlagsAreDistinctUsers, FlagsOf
      <4> QED BY <1>7, <1>13, <3>2, <4>1
    <3> QED BY <3>1, <3>2
  <2> QED BY <2>2 DEF FlagsAreDistinctUsers, FlagsOf
<1>17. ASSUME NEW u \in Tx PROVE FlagOK(u)'
  <2>1. CASE u = t BY <2>1 DEF CommitFlag, TxInv, Idle, FlagOK, Flagging
  <2>2. CASE u # t
    <3>1. tx'[u] = tx[u] BY <2>2 DEF CommitFlag, TxInv
    <3>2. ASSUME Flagging(u) PROVE FlagOK(u)'
      <4>a. tx[u].report \in Report BY <3>2 DEF TxInv, Shape, Flagging
      <4>b. tx[u].loaded.flags \in Nat BY <3>2 DEF FlagInv, FlagOK
      <4>c. PICK q \in Report : q = tx[u].report BY <4>a
      <4>d. PICK had \in Nat : had = tx[u].loaded.flags BY <4>b
      <4>e. PICK g : g = FlagRow(u) OBVIOUS
      <4>1. q = tx[u].report /\ g = FlagRow(u) /\ had = tx[u].loaded.flags BY <4>c, <4>d, <4>e
      <4>2. had <= Cardinality(FlagsOf(q)) BY <3>2, <4>1 DEF FlagInv, FlagOK
      <4>3. had <= Cardinality(FlagsOf(q)') BY <1>7, <1>9, <1>10, <4>1, <4>2
      <4>4. ASSUME tx[u].step = "flagged" PROVE g \notin flags'
        BY <1>2, <1>3, <2>2, <3>2, <4>1, <4>4 DEF FlagInv, FlagOK
      <4>5. \A v \in Tx : Flagging(v)' => tx'[v] = tx[v] /\ v # t
        BY DEF CommitFlag, TxInv, Idle, Flagging
      <4>6. ASSUME tx[u].step = "flagged", NEW v \in Tx \ {u}, Flagging(v)', tx'[v].step = "flagged"
            PROVE  FlagRow(v)' # g
        BY <3>1, <3>2, <4>1, <4>5, <4>6 DEF FlagInv, FlagOK, FlagRow, Flagging
      <4>7. FlagRow(u)' = g /\ q = tx'[u].report /\ had = tx'[u].loaded.flags
        BY <3>1, <4>1 DEF FlagRow
      <4>8. FlagsOf(q)' = FlagsOf(tx[u].report)' BY <4>7 DEF FlagsOf
      <4> QED BY <3>1, <4>1, <4>3, <4>4, <4>6, <4>7, <4>8 DEF FlagOK
    <3> QED BY <3>1, <3>2 DEF FlagOK, Flagging
  <2> QED BY <2>1, <2>2
<1> QED BY <1>4, <1>14, <1>15, <1>16, <1>17 DEF FlagInv

\* A transaction that loads a report finds no more flags on it than there are.
LEMMA FlagStep == TxInv /\ FlagInv /\ [Next]_vars => FlagInv'
<1> SUFFICES ASSUME TxInv, FlagInv, [Next]_vars PROVE FlagInv'
  OBVIOUS
<1>1. CASE \E t \in Tx : CommitFlag(t) BY <1>1, FlagCommitted
<1>2. CASE ~\E t \in Tx : CommitFlag(t)
  <2>1. flags' = flags
    BY ZenonT(60), <1>2
       DEF Next, vars, Assessment, AssessNewRetailers, RefreshTrust, GetRetailerTrust,
       EnsureBaselineScore, Start, Collect, Store, StoreAfterWait, CollectionFails,
       ComputeAndStore, Commit, Community, LoadReport, InsertFlag, CommitModeration, Create,
       communityVars
  <2>2. /\ reports' = [p \in Report |-> reports'[p]]
        /\ \A p \in Report : ReportOK(p)' /\ reports'[p].flags = reports[p].flags
    <3>1. CASE \E p \in Report : Create(p)
      BY <3>1 DEF Create, FlagInv, ReportOK
    <3>2. CASE \E t \in Tx : CommitModeration(t)
      <4>1. PICK p, status : reports' = [reports EXCEPT ![p].status = status]
        BY <3>2 DEF CommitModeration
      <4>2. \A q \in Report : reports'[q] = IF q = p THEN [reports[q] EXCEPT !.status = status]
                                            ELSE reports[q]
        BY <4>1 DEF FlagInv
      <4>3. ASSUME NEW q \in Report PROVE ReportOK(q)' /\ reports'[q].flags = reports[q].flags
        <5>1. /\ reports[q] = [status |-> reports[q].status, flags |-> reports[q].flags]
              /\ reports[q].flags \in Nat
          BY DEF FlagInv, ReportOK
        <5>2. CASE q = p
          <6>1. reports'[q] = [status |-> status, flags |-> reports[q].flags]
            BY <4>2, <5>1, <5>2
          <6> QED BY <5>1, <6>1 DEF ReportOK
        <5>3. CASE q # p BY <4>2, <5>1, <5>3 DEF ReportOK
        <5> QED BY <5>2, <5>3
      <4> QED BY <4>1, <4>3 DEF FlagInv
    <3>3. CASE UNCHANGED reports BY <3>3 DEF FlagInv, ReportOK
    <3> QED
      BY ZenonT(60), <1>2, <3>1, <3>2, <3>3
         DEF Next, vars, Assessment, AssessNewRetailers, RefreshTrust,
         GetRetailerTrust, EnsureBaselineScore, Start, Collect, Store, StoreAfterWait,
         CollectionFails, ComputeAndStore, Commit, Community, LoadReport, InsertFlag, communityVars
  <2>3. FlagsAreDistinctUsers' BY <2>1, <2>2 DEF FlagInv, FlagsAreDistinctUsers
  <2>4. ASSUME NEW t \in Tx, Flagging(t)' PROVE FlagOK(t)'
    <3>1. CASE tx'[t] = tx[t]
      <4>1. Flagging(t) /\ FlagOK(t) BY <2>4, <3>1 DEF FlagInv, Flagging
      <4>2. ASSUME tx[t].step = "flagged", NEW u \in Tx \ {t}, Flagging(u)', tx'[u].step = "flagged"
            PROVE  FlagRow(u)' # FlagRow(t)'
        <5>1. CASE tx'[u] = tx[u]
          BY <3>1, <4>1, <4>2, <5>1 DEF FlagOK, FlagRow, Flagging
        <5>2. CASE InsertFlag(u) /\ tx'[u].report = tx[u].report /\ tx'[u].arg = tx[u].arg
          BY <3>1, <4>1, <4>2, <5>2 DEF FlagRow, InsertFlag
        <5> QED BY <4>2, <5>1, <5>2, FlaggersLoad
      <4> QED BY <2>1, <3>1, <4>1, <4>2 DEF FlagOK, FlagRow, FlagsOf
    <3>2. CASE /\ Flagging(t) /\ tx[t].step = "loaded" /\ InsertFlag(t)
               /\ tx'[t].step = "flagged" /\ tx'[t].report = tx[t].report
               /\ tx'[t].arg = tx[t].arg /\ tx'[t].loaded = tx[t].loaded
      <4>1. FlagRow(t)' = FlagRow(t) BY <3>2 DEF FlagRow
      <4>2. FlagRow(t) \notin flags
        BY <2>4, <3>2 DEF InsertFlag, TxInv, Flagging, Idle
      <4>3. ASSUME NEW u \in Tx \ {t}, Flagging(u)', tx'[u].step = "flagged"
            PROVE  FlagRow(u)' # FlagRow(t)'
        <5>1. tx'[u] = tx[u] BY <3>2 DEF InsertFlag, TxInv
        <5> QED BY <3>2, <4>1, <4>3, <5>1 DEF InsertFlag, FlagRow, Flagging
      <4>4. FlagOK(t) BY DEF FlagInv
      <4> QED BY <2>1, <3>2, <4>1, <4>2, <4>3, <4>4 DEF FlagOK, FlagsOf
    <3>3. CASE \E p \in Report : /\ tx'[t].report = p /\ tx'[t].loaded = reports[p]
                                 /\ tx'[t].step = "loaded"
      BY <2>1, <3>3 DEF FlagOK, FlagInv, ReportOK, FlagsAreDistinctUsers, FlagsOf
    <3> QED BY <2>4, <3>1, <3>2, <3>3, FlaggersLoad
  <2>5. IsFiniteSet(flags') BY <2>1 DEF FlagInv
  <2>6. \A t \in Tx : FlagOK(t)' BY <2>4 DEF FlagOK
  <2> QED BY <2>2, <2>3, <2>5, <2>6 DEF FlagInv
<1> QED BY <1>1, <1>2

\* flag_count never exceeds the users who flagged (CommunityService.flag), for
\* any number of flags and moderations at once: it is written from what the
\* transaction loaded, which is never more than there is, and its own flag is
\* one more.
THEOREM FlagsCountUsers == Spec => []FlagsAreDistinctUsers
<1>1. Init => TxInv /\ FlagInv BY TxInit, FlagInit
<1>2. TxInv /\ FlagInv /\ [Next]_vars => TxInv' /\ FlagInv' BY TxStep, FlagStep
<1>3. FlagInv => FlagsAreDistinctUsers BY DEF FlagInv
<1> QED BY <1>1, <1>2, <1>3, PTL DEF Spec

-----------------------------------------------------------------------------
(* Sums over finite sets, as MapThenSumSet computes them: one element      *)
(* after another, in the order in which CHOOSE takes them.  The sums of    *)
(* all subsets of a set are a function F; that it exists and what its      *)
(* values are is shown by taking a least counterexample, which needs no    *)
(* induction theorem.                                                      *)

FirstOf(s) == CHOOSE x \in s : TRUE

\* What F says of s without its first element, and that element.
Added(F, f, s) == IF s = {} THEN 0 ELSE f[FirstOf(s)] + F[s \ {FirstOf(s)}]

\* F is the sums of f, at least over the subsets of up to n elements.
AddsUp(F, f, S, n) == \A s \in SUBSET S : Cardinality(s) =< n => F[s] = Added(F, f, s)
SumsOf(F, f, S) == \A s \in SUBSET S : F[s] = Added(F, f, s)

\* There is a least number in a set of numbers, unless it is empty.
LEMMA LeastNumber ==
    ASSUME NEW N \in SUBSET Nat, N # {}
    PROVE  \E n \in N : \A m \in N : n =< m
<1>1. PICK n \in N : \A m \in N : ~(<<m, n>> \in OpToRel(<, Nat))
    BY NatLessThanWellFounded, WFMin
<1>2. \A m \in N : ~(m < n) BY <1>1 DEF OpToRel
<1> QED BY <1>2

\* The sizes of subsets.
LEMMA Sizes ==
    ASSUME NEW S, IsFiniteSet(S), NEW s \in SUBSET S
    PROVE  /\ Cardinality(s) \in Nat /\ Cardinality(s) =< Cardinality(S)
           /\ Cardinality(S) \in Nat
           /\ Cardinality(s) = 0 <=> s = {}
           /\ \A x \in s : Cardinality(s \ {x}) = Cardinality(s) - 1
<1>1. IsFiniteSet(s) /\ Cardinality(s) =< Cardinality(S) BY FS_Subset
<1>2. Cardinality(s) \in Nat /\ Cardinality(S) \in Nat BY <1>1, FS_CardinalityType
<1>3. Cardinality(s) = 0 <=> s = {} BY <1>1, FS_EmptySet
<1>4. \A x \in s : Cardinality(s \ {x}) = Cardinality(s) - 1 BY <1>1, FS_RemoveElement
<1> QED BY <1>1, <1>2, <1>3, <1>4

\* The subsets of up to n elements have sums, for every n.
LEMMA SumsOfSmall ==
    ASSUME NEW S, IsFiniteSet(S), NEW f, NEW n \in Nat
    PROVE  \E F : AddsUp(F, f, S, n)
<1> DEFINE Bad == {k \in Nat : \A F : ~AddsUp(F, f, S, k)}
<1>1. CASE Bad = {} BY <1>1
<1>2. CASE Bad # {}
    <2>1. PICK k \in Bad : \A m \in Bad : k =< m
        <3> HIDE DEF Bad
        <3>1. Bad \in SUBSET Nat BY DEF Bad
        <3> QED BY <1>2, <3>1, LeastNumber
    <2>2. k \in Nat /\ \A F : ~AddsUp(F, f, S, k) BY <2>1
    <2>3. CASE k = 0
        <3>1. \A s \in SUBSET S : Cardinality(s) =< 0 => s = {} BY Sizes
        <3>2. AddsUp([s \in SUBSET S |-> 0], f, S, 0) BY <3>1 DEF AddsUp, Added
        <3> QED BY <2>2, <2>3, <3>2
    <2>4. CASE k # 0
        <3>1. k - 1 \in Nat /\ k - 1 \notin Bad BY <2>1, <2>2, <2>4
        <3>2. PICK F : AddsUp(F, f, S, k - 1) BY <3>1
        <3> DEFINE G == [s \in SUBSET S |-> IF Cardinality(s) =< k - 1 THEN F[s] ELSE Added(F, f, s)]
        <3>3. ASSUME NEW s \in SUBSET S, Cardinality(s) =< k PROVE G[s] = Added(G, f, s)
            <4>1. G[s] = Added(F, f, s) BY <3>2 DEF AddsUp
            <4>2. CASE s = {} BY <4>1, <4>2 DEF Added
            <4>3. CASE s # {}
                <5>1. FirstOf(s) \in s BY <4>3 DEF FirstOf
                <5>2. s \ {FirstOf(s)} \in SUBSET S /\ Cardinality(s \ {FirstOf(s)}) =< k - 1
                    BY <2>2, <3>3, <5>1, Sizes
                <5>3. G[s \ {FirstOf(s)}] = F[s \ {FirstOf(s)}] BY <5>2
                <5> QED BY <4>1, <5>3 DEF Added
            <4> QED BY <4>2, <4>3
        <3> HIDE DEF G
        <3>4. AddsUp(G, f, S, k) BY <3>3 DEF AddsUp
        <3> QED BY <2>2, <3>4
    <2> QED BY <2>3, <2>4
<1> QED BY <1>1, <1>2

\* Every finite set has sums.
LEMMA SumsExist ==
    ASSUME NEW S, IsFiniteSet(S), NEW f
    PROVE  \E F : SumsOf(F, f, S) /\ F = [s \in SUBSET S |-> F[s]]
<1>1. PICK F : AddsUp(F, f, S, Cardinality(S)) BY SumsOfSmall, Sizes
<1>2. \A s \in SUBSET S : F[s] = Added(F, f, s) BY <1>1, Sizes DEF AddsUp
<1> DEFINE G == [s \in SUBSET S |-> F[s]]
<1>3. ASSUME NEW s \in SUBSET S PROVE G[s] = Added(G, f, s)
    <2>1. G[s] = Added(F, f, s) BY <1>2
    <2>2. CASE s = {} BY <2>1, <2>2 DEF Added
    <2>3. CASE s # {}
        <3>1. s \ {FirstOf(s)} \in SUBSET S OBVIOUS
        <3>2. G[s \ {FirstOf(s)}] = F[s \ {FirstOf(s)}] BY <3>1
        <3> QED BY <2>1, <3>2 DEF Added
    <2> QED BY <2>2, <2>3
<1>4. G = [s \in SUBSET S |-> G[s]] OBVIOUS
<1> HIDE DEF G
<1> QED BY <1>3, <1>4 DEF SumsOf

\* They are integers if the elements' numbers are, and natural numbers likewise.
LEMMA SumsType ==
    ASSUME NEW S, IsFiniteSet(S), NEW N \in {Nat, Int}, NEW f, \A x \in S : f[x] \in N,
           NEW F, SumsOf(F, f, S), NEW s \in SUBSET S
    PROVE  F[s] \in N
<1> DEFINE Bad == {Cardinality(r) : r \in {r \in SUBSET S : F[r] \notin N}}
<1>1. Bad \in SUBSET Nat BY Sizes
<1>2. CASE Bad # {}
    <2> HIDE DEF Bad
    <2>1. PICK k \in Bad : \A m \in Bad : k =< m BY <1>1, <1>2, LeastNumber
    <2>2. PICK r \in SUBSET S : F[r] \notin N /\ k = Cardinality(r) BY <2>1 DEF Bad
    <2>3. F[r] = Added(F, f, r) BY DEF SumsOf
    <2>4. r # {} BY <2>2, <2>3 DEF Added
    <2>5. FirstOf(r) \in r BY <2>4 DEF FirstOf
    <2>6. r \ {FirstOf(r)} \in SUBSET S /\ Cardinality(r \ {FirstOf(r)}) = k - 1 /\ k \in Nat
        BY <2>2, <2>5, Sizes
    <2>7. k - 1 \notin Bad BY <2>1, <2>6, <1>1
    <2>8. F[r \ {FirstOf(r)}] \in N BY <2>6, <2>7 DEF Bad
    <2>9. f[FirstOf(r)] \in N BY <2>5
    <2>10. F[r] = f[FirstOf(r)] + F[r \ {FirstOf(r)}] BY <2>3, <2>4 DEF Added
    <2> QED BY <2>2, <2>8, <2>9, <2>10
<1> QED BY <1>2

\* What maps over a finite set is finite.
LEMMA ImageFinite ==
  ASSUME NEW S, IsFiniteSet(S), NEW f
  PROVE  IsFiniteSet({f[x] : x \in S})
<1> DEFINE T == {f[x] : x \in S}
           g == [x \in S |-> f[x]]
<1>1. g \in Surjection(S, T) BY DEF Surjection
<1> HIDE DEF T, g
<1>2. IsFiniteSet(T) BY <1>1, FS_Surjection
<1> QED BY <1>2 DEF T

-----------------------------------------------------------------------------
(* What a badge accuses on *)

\* A serious, confident negative that a leading query found is one the discount
\* spares; the rest is what sums need.
Sound(e) ==
  /\ {e.confidence, e.recency, e.severity} \subseteq Nat /\ e.sentiment \in Int
  /\ e.source_type \in DOMAIN SourceReliability
  /\ e.leading /\ e.sentiment <= -500 /\ e.confidence >= 500 => Spared(e)

IsEvidence(e) ==
  e = [id |-> e.id, source |-> e.source, source_type |-> e.source_type, topic |-> e.topic,
       sentiment |-> e.sentiment, severity |-> e.severity, confidence |-> e.confidence,
       recency |-> e.recency, leading |-> e.leading]

SoundItems(E) == IsFiniteSet(E) /\ \A e \in E : Sound(e)
SoundRows(R) == IsFiniteSet(R) /\ \A w \in R : Sound(w[2])

\* The policies on record are sound evidence (policy_evidence).
LEMMA PoliciesSound ==
  ASSUME NEW r \in Retailer
  PROVE  SoundItems(PolicyEvidence(r, Policies[r]))
<1> DEFINE facts == Policies[r]
           ItemOf == [f \in DOMAIN PolicyFacts |->
                        Evidence(<<r, f>>, "retailer_policy", "policy",
                                 PolicyFacts[f][1], PolicyFacts[f][2], 200, PolicyFacts[f][3])]
<1>1. facts \subseteq DOMAIN PolicyFacts BY FoundAssumption
<1>2. CASE facts = {}
  <2>1. PICK e : e = Evidence(<<r, "no_policy">>, "retailer_policy", "policy", "transparency",
                              0, 300, 300)
    OBVIOUS
  <2>2. PolicyEvidence(r, facts) = {e} BY <1>2, <2>1 DEF PolicyEvidence
  <2>3. IsFiniteSet({e}) BY FS_Singleton
  <2>4. Sound(e) BY <2>1 DEF Sound, Evidence, SourceReliability
  <2> QED BY <2>2, <2>3, <2>4 DEF SoundItems
<1>3. CASE facts # {}
  <2>1. PolicyEvidence(r, facts) = {ItemOf[f] : f \in facts} BY <1>1, <1>3 DEF PolicyEvidence
  <2>2. IsFiniteSet(DOMAIN PolicyFacts)
    <3> DEFINE Fact == <<"publishes_return_policy", "buyer_protection",
                         "grievance_officer_published", "cod_available",
                         "established_year_in_india", "verified_purchase_reviews",
                         "authorised_sellers_only", "customer_support_published",
                         "physical_stores">>
    <3>1. DOMAIN PolicyFacts = {Fact[i] : i \in 1..9}
      <4>1. \A f \in DOMAIN PolicyFacts : \E i \in 1..9 : Fact[i] = f BY DEF PolicyFacts
      <4>2. \A i \in 1..9 : Fact[i] \in DOMAIN PolicyFacts BY DEF PolicyFacts
      <4> HIDE DEF Fact
      <4> QED BY <4>1, <4>2
    <3>2. PICK n \in Int : n = 9 OBVIOUS
    <3>3. IsFiniteSet(1..n) BY FS_Interval
    <3>4. DOMAIN PolicyFacts = {Fact[i] : i \in 1..n} BY <3>1, <3>2
    <3> HIDE DEF Fact
    <3> QED BY <3>3, <3>4, ImageFinite
  <2>3. IsFiniteSet(facts) BY <1>1, <2>2, FS_Subset
  <2>4. \A f \in DOMAIN PolicyFacts : Sound(ItemOf[f])
    BY DEF PolicyFacts, Sound, Evidence, SourceReliability
  <2> HIDE DEF ItemOf
  <2>5. IsFiniteSet(PolicyEvidence(r, facts)) BY <2>1, <2>3, ImageFinite
  <2> QED BY <1>1, <2>1, <2>4, <2>5 DEF SoundItems
<1> QED BY <1>2, <1>3

\* So is what a user reports (community_evidence).
LEMMA ReportsSound == ASSUME NEW r PROVE SoundItems(ReportItems(r))
<1> DEFINE ItemOf == [p \in ApprovedReports(r) |->
                        CommunityEvidence(r, p, About[p].topic, About[p].rating, About[p].verified)]
<1>1. ReportItems(r) = {ItemOf[p] : p \in ApprovedReports(r)} BY DEF ReportItems
<1>2. ApprovedReports(r) \subseteq Report BY DEF ApprovedReports
<1>3. IsFiniteSet(ApprovedReports(r)) BY <1>2, TrustAssumption, FS_Subset
<1>4. \A p \in ApprovedReports(r) : Sound(ItemOf[p])
  BY <1>2, FoundAssumption DEF Sound, CommunityEvidence, Evidence, SourceReliability
<1> HIDE DEF ItemOf
<1>5. IsFiniteSet(ReportItems(r)) BY <1>1, <1>3, ImageFinite
<1> QED BY <1>1, <1>4, <1>5 DEF SoundItems

\* A page found by a leading query has little confidence unless its words are
\* friendly (analyze_item).
LEMMA PageSound ==
  ASSUME NEW r \in Retailer, NEW page \in Pages[r]
  PROVE  LET e == AnalyzeItem(r, page)
         IN  /\ Sound(e) /\ IsEvidence(e)
             /\ e.leading => e.confidence <= 350 \/ (e.sentiment > 0 /\ ~page.own)
<1>1. page.site \in 0..1000 /\ page.own \in BOOLEAN /\ page.leading \in BOOLEAN
  BY FoundAssumption
<1> DEFINE sent == IF page.own THEN 300 ELSE Sentiment(page.neg, page.pos)
           site == IF page.own THEN 300
                   ELSE IF sent = 0 THEN AtMost(page.site, 300) ELSE page.site
           conf == IF page.leading /\ sent < 0 THEN Times(site, 350) ELSE site
           topic == IF page.own THEN "transparency" ELSE page.topic
           sev == IF page.own THEN 200 ELSE Severity(page.neg, page.pos)
<1>2. AnalyzeItem(r, page) =
        [id |-> <<r, page.url>>, source |-> "google_search", source_type |-> "search_result",
         topic |-> topic, sentiment |-> sent, severity |-> sev, confidence |-> conf,
         recency |-> 800, leading |-> page.leading]
  BY DEF AnalyzeItem, Evidence
<1>3. site \in 0..1000 BY <1>1 DEF AtMost
<1>4. sent \in Int
  <2>1. page.neg \in Nat /\ page.pos \in Nat BY FoundAssumption
  <2>2. PICK n \in Nat : n = page.neg BY <2>1
  <2>3. PICK p \in Nat : p = page.pos BY <2>1
  <2>4. Sentiment(n, p) \in Int
    <3>1. CASE n = 0 /\ p = 0 BY <3>1 DEF Sentiment
    <3>2. CASE ~(n = 0 /\ p = 0)
      <4>1. PICK d \in Nat : d = p + n OBVIOUS
      <4>2. d > 0 /\ (p - n) * 1000 \in Int BY <3>2, <4>1
      <4>3. ((p - n) * 1000) \div d \in Int BY <4>2
      <4> QED BY <3>2, <4>1, <4>3 DEF Sentiment
    <3> QED BY <3>1, <3>2
  <2> QED BY <2>2, <2>3, <2>4
<1> HIDE DEF sent, site
<1>4a. /\ page.own => site = 300 /\ sent = 300
       /\ ~page.own /\ sent = 0 => site <= 300
  BY <1>1 DEF AtMost, sent, site
<1>5. /\ conf \in Nat
      /\ page.leading /\ sent < 0 => conf <= 350
      /\ ~(page.leading /\ sent < 0) => conf = site
  <2>1. PICK n \in 0..1000 : n = site BY <1>3
  <2>2. Times(n, 350) \in Nat
    <3>1. PICK m \in Nat : m = n * 350 OBVIOUS
    <3>2. m \div 1000 \in Nat BY <3>1
    <3> QED BY <3>1, <3>2 DEF Times
  <2>3. Times(n, 350) <= 350 BY DEF Times
  <2>4. CASE page.leading /\ sent < 0
    <3>1. conf = Times(n, 350) BY <2>1, <2>4
    <3> HIDE DEF conf
    <3> QED BY <2>2, <2>3, <2>4, <3>1
  <2>5. CASE ~(page.leading /\ sent < 0)
    <3>1. conf = n BY <2>1, <2>5
    <3> HIDE DEF conf
    <3> QED BY <2>1, <2>5, <3>1
  <2> QED BY <2>4, <2>5
<1>5a. sev \in Nat
  <2>1. page.neg \in Nat /\ page.pos \in Nat BY FoundAssumption
  <2>2. PICK n \in Nat, p \in Nat : n = page.neg /\ p = page.pos BY <2>1
  <2>3. Severity(n, p) \in Nat
    <3>1. PICK q \in Nat : q = n \div 4 OBVIOUS
    <3> QED BY <3>1 DEF Severity, AtMost
  <2> QED BY <2>2, <2>3
<1> HIDE DEF conf, topic, sev
<1>6. ~(page.leading /\ sent <= -500 /\ conf >= 500) BY <1>4, <1>5
<1>7. PICK e : e = AnalyzeItem(r, page) OBVIOUS
<1>8. /\ e.confidence = conf /\ e.recency = 800 /\ e.source_type = "search_result"
      /\ e.leading = page.leading /\ e.sentiment = sent /\ e.severity = sev /\ IsEvidence(e)
  BY <1>2, <1>7 DEF IsEvidence
<1>9. Sound(e) BY <1>4, <1>5, <1>5a, <1>6, <1>8 DEF Sound, SourceReliability
<1>10. ASSUME page.leading PROVE conf <= 350 \/ (sent > 0 /\ ~page.own)
  <2>1. CASE sent < 0 BY <1>5, <1>10, <2>1
  <2>2. CASE ~(sent < 0)
    <3>1. conf = site BY <1>5, <2>2
    <3>2. page.own \/ sent = 0 => site <= 350 BY <1>3, <1>4a
    <3> QED BY <1>4, <2>2, <3>1, <3>2
  <2> QED BY <2>1, <2>2
<1> QED BY <1>7, <1>8, <1>9, <1>10

\* What an AI provider says may be anything in its range (refine_with_ai).
LEMMA ReadingType ==
  ASSUME NEW e, Sound(e), NEW reading \in Readings
  PROVE  /\ (IF "sentiment" \in DOMAIN reading THEN reading["sentiment"] ELSE e["sentiment"]) \in Int
         /\ (IF "severity" \in DOMAIN reading THEN reading["severity"] ELSE e["severity"]) \in Nat
<1>1. e["sentiment"] \in Int /\ e["severity"] \in Nat BY DEF Sound
<1>2. ASSUME "sentiment" \in DOMAIN reading PROVE reading["sentiment"] \in Int
  <2>1. reading["sentiment"] \in -1000..1000 BY <1>2, FoundAssumption
  <2>2. PICK low \in Int : low = -1000 OBVIOUS
  <2>3. \A n \in low..1000 : n \in Int OBVIOUS
  <2>4. PICK sent : sent = reading["sentiment"] OBVIOUS
  <2>5. sent \in low..1000 BY <2>1, <2>2, <2>4
  <2>6. sent \in Int BY ONLY <2>3, <2>5
  <2> QED BY <2>4, <2>6
<1>3. ASSUME "severity" \in DOMAIN reading PROVE reading["severity"] \in Nat
  <2>1. reading["severity"] \in 0..1000 BY <1>3, FoundAssumption
  <2>2. PICK sev : sev = reading["severity"] OBVIOUS
  <2>3. sev \in 0..1000 BY <2>1, <2>2
  <2>4. sev \in Nat BY ONLY <2>3
  <2> QED BY <2>2, <2>4
<1> QED BY <1>1, <1>2, <1>3

\* A page that had little confidence accuses only when the provider's answer was
\* about it more than once.
LEMMA RefinedSound ==
  ASSUME NEW r \in Retailer, NEW page \in Pages[r],
         NEW reading \in Readings, NEW rows \in 1..MostRows
  PROVE  Sound(Refine(AnalyzeItem(r, page), reading, rows))
<1>1. PICK e : e = AnalyzeItem(r, page) OBVIOUS
<1>2. /\ Sound(e) /\ IsEvidence(e)
      /\ e.leading => e.confidence <= 350 \/ (e.sentiment > 0 /\ ~page.own)
  BY <1>1, PageSound
<1> DEFINE Read(field) == IF field \in DOMAIN reading THEN reading[field] ELSE e[field]
<1>3. PICK new : new = Refine(e, reading, rows) OBVIOUS
<1>4. PICK top, sent, sev, conf :
        /\ top = Read("topic") /\ sent = Read("sentiment") /\ sev = Read("severity")
        /\ conf = AtMost(850, e.confidence + 100 * rows)
  OBVIOUS
<1>5. new = [e EXCEPT !.topic = top, !.sentiment = sent, !.severity = sev, !.confidence = conf]
  BY <1>3, <1>4 DEF Refine
<1>6. sent \in Int /\ sev \in Nat BY <1>2, <1>4, ReadingType
<1> HIDE DEF Read
<1>7. new = [id |-> e.id, source |-> e.source, source_type |-> e.source_type,
             topic |-> top, sentiment |-> sent, severity |-> sev,
             confidence |-> conf, recency |-> e.recency, leading |-> e.leading]
  <2>1. e = [id |-> e.id, source |-> e.source, source_type |-> e.source_type, topic |-> e.topic,
             sentiment |-> e.sentiment, severity |-> e.severity, confidence |-> e.confidence,
             recency |-> e.recency, leading |-> e.leading]
    BY <1>2 DEF IsEvidence
  <2> QED BY <1>5, <2>1
<1>8. /\ new.confidence = conf /\ new.recency = e.recency /\ new.leading = e.leading
      /\ new.source_type = e.source_type /\ new.sentiment = sent /\ new.severity = sev
      /\ new.id = e.id
  BY <1>7
<1>9. /\ conf \in Nat
      /\ e.confidence <= 350 /\ conf >= 500 => conf > e.confidence + 100
  <2>1. PICK n \in Nat : n = 100 * rows BY TrustAssumption
  <2>2. PICK c \in Nat : c = e.confidence BY <1>2 DEF Sound
  <2> QED BY <1>4, <2>1, <2>2 DEF AtMost
<1>10. ASSUME new.leading, new.confidence >= 500 PROVE Spared(new)
  <2>1. (e.sentiment > 0 /\ ~page.own) \/ new.confidence > e.confidence + 100
    BY <1>2, <1>8, <1>9, <1>10
  <2> QED BY <1>1, <1>8, <2>1 DEF Spared
<1>11. Sound(new)
  <2>1. {new.confidence, new.recency, new.severity} \subseteq Nat /\ new.sentiment \in Int
    BY <1>2, <1>6, <1>8, <1>9 DEF Sound
  <2>2. new.source_type \in DOMAIN SourceReliability BY <1>2, <1>8 DEF Sound
  <2> QED BY <1>10, <2>1, <2>2 DEF Sound
<1> QED BY <1>1, <1>3, <1>11

\* What a web search yields is sound, as it is and as the provider reads it.
LEMMA WebSound ==
  ASSUME NEW r \in Retailer, NEW found \in {{}} \union Refinements(WebItems(r))
  PROVE  SoundItems(found)
<1> DEFINE web == WebItems(r)
           ItemOf == [page \in Pages[r] |-> AnalyzeItem(r, page)]
<1>1. web = {ItemOf[page] : page \in Pages[r]} BY DEF WebItems
<1>2. IsFiniteSet(Pages[r]) BY FoundAssumption
<1>3. IsFiniteSet(web)
  <2> HIDE DEF ItemOf, web
  <2> QED BY <1>1, <1>2, ImageFinite
<1>4. \A e \in web : Sound(e) BY PageSound DEF WebItems
<1>5. CASE found = {} BY <1>5, FS_EmptySet DEF SoundItems
<1>6. CASE found # {}
  <2>1. PICK read \in SUBSET web : \E a \in [read -> [reading : Readings, rows : 1..MostRows]] :
          found = (web \ DOMAIN a) \union {Refine(e, a[e].reading, a[e].rows) : e \in DOMAIN a}
    BY <1>6 DEF Refinements
  <2>2. PICK a \in [read -> [reading : Readings, rows : 1..MostRows]] :
          found = (web \ DOMAIN a) \union {Refine(e, a[e].reading, a[e].rows) : e \in DOMAIN a}
    BY <2>1
  <2> DEFINE ReadOf == [e \in read |-> Refine(e, a[e].reading, a[e].rows)]
             untouched == web \ read
             refined == {ReadOf[e] : e \in read}
  <2>3. found = untouched \union refined BY <2>2
  <2>4. \A e \in read : Sound(ReadOf[e])
    <3> SUFFICES ASSUME NEW e \in read PROVE Sound(Refine(e, a[e].reading, a[e].rows))
      OBVIOUS
    <3>1. PICK page \in Pages[r] : e = AnalyzeItem(r, page) BY DEF WebItems
    <3>2. a[e] \in [reading : Readings, rows : 1..MostRows] BY <2>2
    <3>3. PICK x \in Readings, n \in 1..MostRows : x = a[e].reading /\ n = a[e].rows BY <3>2
    <3>4. Sound(Refine(AnalyzeItem(r, page), x, n)) BY RefinedSound
    <3> QED BY <3>1, <3>3, <3>4
  <2> HIDE DEF ReadOf, web
  <2>5. IsFiniteSet(read) /\ IsFiniteSet(untouched) BY <1>3, FS_Subset
  <2>6. IsFiniteSet(refined) BY <2>5, ImageFinite
  <2>7. \A e \in untouched : Sound(e) BY <1>4
  <2>8. \A e \in refined : Sound(e) BY <2>4
  <2> HIDE DEF untouched, refined
  <2>9. IsFiniteSet(found) BY <2>3, <2>5, <2>6, FS_Union
  <2> QED BY <2>3, <2>7, <2>8, <2>9 DEF SoundItems
<1> QED BY <1>5, <1>6

\* What a transaction has found, inserted and calculated, and what is on record.
PendingOK(p) == p = [basis |-> p.basis, rank |-> p.rank] /\ SoundItems(p.basis)
Held(own, pending, got) ==
  /\ SoundRows(own) /\ SoundItems(got)
  /\ \A q \in DOMAIN pending : PendingOK(pending[q])

BasisInv ==
  /\ SoundRows(evidence)
  /\ \A r \in Retailer : SoundItems(scores[r])
  /\ \A t \in Tx : Assessing(t) => Held(tx[t].own, tx[t].pending, tx[t].got)

\* There is no evidence at the start.
LEMMA BasisInit == Init => BasisInv
BY FS_EmptySet DEF Init, BasisInv, SoundRows, SoundItems, Assessing, Idle

\* Some of the items, and the rows made of them.
LEMMA RowsSound ==
  ASSUME NEW E, SoundItems(E), NEW items \in SUBSET E, NEW r
  PROVE  SoundItems(items) /\ SoundRows({<<r, e>> : e \in items})
<1>1. IsFiniteSet(items) /\ \A e \in items : Sound(e) BY FS_Subset DEF SoundItems
<1> DEFINE RowOf == [e \in items |-> <<r, e>>]
           rows == {<<r, e>> : e \in items}
<1>2. rows = {RowOf[e] : e \in items} OBVIOUS
<1>3. \A w \in rows : w[2] \in items OBVIOUS
<1> HIDE DEF RowOf, rows
<1>4. IsFiniteSet(rows) BY <1>1, <1>2, ImageFinite
<1>5. SoundRows(rows) BY <1>1, <1>3, <1>4 DEF SoundRows
<1> QED BY <1>1, <1>5 DEF SoundItems, rows

\* The items of a retailer among sound rows.
LEMMA ItemsSound ==
  ASSUME NEW R, SoundRows(R), NEW r
  PROVE  SoundItems(ItemsOf(r, R))
<1> DEFINE mine == {w \in R : w[1] = r}
           ItemOf == [w \in mine |-> w[2]]
<1>1. IsFiniteSet(mine) BY FS_Subset DEF SoundRows
<1>2. ItemsOf(r, R) = {ItemOf[w] : w \in mine} BY DEF ItemsOf
<1>3. \A w \in mine : Sound(ItemOf[w]) BY DEF SoundRows
<1> HIDE DEF mine, ItemOf
<1>4. IsFiniteSet(ItemsOf(r, R)) BY <1>1, <1>2, ImageFinite
<1> QED BY <1>2, <1>3, <1>4 DEF SoundItems

\* One transaction moves on and holds only sound evidence.
LEMMA BasisOne ==
  ASSUME TxInv, BasisInv, NEW t \in Tx, NEW new, tx' = [tx EXCEPT ![t] = new],
         Held(new.own, new.pending, new.got) \/ new.kind \notin Assessments,
         UNCHANGED <<evidence, scores>>
  PROVE  BasisInv'
<1>1. \A u \in Tx : tx'[u] = IF u = t THEN new ELSE tx[u] BY DEF TxInv
<1>2. SoundRows(evidence)' BY DEF BasisInv, SoundRows, Sound
<1>3. \A r \in Retailer : SoundItems(scores[r])' BY DEF BasisInv, SoundItems, Sound
<1>4. ASSUME NEW u \in Tx, Assessing(u)' PROVE Held(tx'[u].own, tx'[u].pending, tx'[u].got)
  BY <1>1, <1>4 DEF BasisInv, Assessing, Assessments
<1> QED BY <1>2, <1>3, <1>4 DEF BasisInv, Held, PendingOK, SoundItems, SoundRows, Sound

\* The evidence on record, in flight and behind each score stays sound.
LEMMA BasisStep == TxInv /\ BasisInv /\ [Next]_vars => BasisInv'
<1> SUFFICES ASSUME TxInv, BasisInv, [Next]_vars PROVE BasisInv'
  OBVIOUS
<1>1. ASSUME NEW t \in Tx, Assessing(t)
      PROVE  /\ Held(tx[t].own, tx[t].pending, tx[t].got)
             /\ tx[t].step # "commit" => Head(tx[t].batch) \in Retailer
  BY <1>1 DEF BasisInv, TxInv, Shape, Assessing, Assessments
<1>2. ASSUME NEW t \in Tx, NEW kind \in Assessments, NEW batch, Start(t, kind, batch)
      PROVE  BasisInv'
  <2>1. Head(batch) \in Retailer BY <1>2 DEF Start
  <2> DEFINE got == IF kind = "baseline"
                    THEN PolicyEvidence(Head(batch), Policies[Head(batch)]) ELSE {}
             new == [kind |-> kind, step |-> IF kind = "baseline" THEN "store" ELSE "collect",
                     batch |-> batch, done |-> <<>>, own |-> {}, pending |-> <<>>, got |-> got]
  <2>2. SoundItems(got) BY <2>1, PoliciesSound, FS_EmptySet DEF SoundItems
  <2>3. SoundRows({}) BY FS_EmptySet DEF SoundRows
  <2>4. Held(new.own, new.pending, new.got) BY <2>2, <2>3 DEF Held
  <2>5. tx' = [tx EXCEPT ![t] = new] /\ UNCHANGED <<evidence, scores>>
    BY <1>2 DEF Start, trustVars
  <2> HIDE DEF new
  <2> QED BY <2>4, <2>5, BasisOne
<1>3. ASSUME NEW t \in Tx, Assessing(t), NEW step, NEW batch, NEW done, NEW own, NEW pending,
             NEW got, Held(own, pending, got), UNCHANGED <<evidence, scores>>,
             tx' = [tx EXCEPT ![t] = Moved(tx[t], step, batch, done, own, pending, got)]
      PROVE  BasisInv'
  <2>1. PICK new : new = Moved(tx[t], step, batch, done, own, pending, got) OBVIOUS
  <2>2. new.own = own /\ new.pending = pending /\ new.got = got BY <2>1 DEF Moved
  <2>3. Held(new.own, new.pending, new.got) BY <1>3, <2>2
  <2> QED BY <1>3, <2>1, <2>3, BasisOne
<1>4. ASSUME NEW t \in Tx, Collect(t) PROVE BasisInv'
  <2>1. Assessing(t) /\ tx[t].step # "commit" /\ UNCHANGED <<evidence, scores>>
    BY <1>4 DEF Collect, trustVars
  <2>2. PICK r, batch, done, own, pending :
          /\ r = Head(batch) /\ batch = tx[t].batch /\ done = tx[t].done /\ own = tx[t].own
          /\ pending = tx[t].pending
    OBVIOUS
  <2>3. r \in Retailer /\ Held(own, pending, tx[t].got) BY <1>1, <2>1, <2>2
  <2>4. PICK found \in {{}} \union Refinements(WebItems(r)) :
          tx' = [tx EXCEPT ![t] =
                   Moved(tx[t], "store", batch, done, own, pending,
                         PolicyEvidence(r, Policies[r]) \union found \union ReportItems(r))]
    BY <1>4, <2>2, CollectMoves
  <2>5. PICK policy, said : policy = PolicyEvidence(r, Policies[r]) /\ said = ReportItems(r)
    OBVIOUS
  <2>6. SoundItems(policy) /\ SoundItems(found) /\ SoundItems(said)
    BY <2>3, <2>5, PoliciesSound, WebSound, ReportsSound
  <2>7. PICK got : got = policy \union found \union said OBVIOUS
  <2>8. SoundItems(got) BY <2>6, <2>7, FS_Union DEF SoundItems
  <2>9. Held(own, pending, got) BY <2>3, <2>8 DEF Held
  <2>10. tx' = [tx EXCEPT ![t] = Moved(tx[t], "store", batch, done, own, pending, got)]
    BY <2>4, <2>5, <2>7
  <2> QED BY <1>3, <2>1, <2>9, <2>10
<1>5. ASSUME NEW t \in Tx, Store(t) \/ StoreAfterWait(t) PROVE BasisInv'
  <2>1. Assessing(t) /\ tx[t].step # "commit" /\ UNCHANGED <<evidence, scores>>
    BY <1>5 DEF Store, StoreAfterWait, Waiting, trustVars
  <2>2. PICK r, batch, done, own, pending, got :
          /\ r = Head(batch) /\ batch = tx[t].batch /\ done = tx[t].done /\ own = tx[t].own
          /\ pending = tx[t].pending /\ got = tx[t].got
    OBVIOUS
  <2>3. Held(own, pending, got) BY <1>1, <2>1, <2>2
  <2>4. PICK items \in SUBSET got :
          \/ tx' = [tx EXCEPT ![t] = Moved(tx[t], "score", batch, done,
                                           own \union {<<r, e>> : e \in items}, pending, got)]
          \/ tx' = [tx EXCEPT ![t] = Moved(tx[t], "wait", batch, done, own, pending, items)]
    BY <1>5, <2>2, StoreMoves
  <2>5. PICK rows, more : rows = {<<r, e>> : e \in items} /\ more = own \union rows OBVIOUS
  <2>6. SoundItems(items) /\ SoundRows(rows)
    <3>1. SoundItems(got) BY <2>3 DEF Held
    <3> QED BY <2>5, <3>1, RowsSound
  <2>7. SoundRows(more) BY <2>3, <2>5, <2>6, FS_Union DEF Held, SoundRows
  <2>8. Held(more, pending, got) /\ Held(own, pending, items) BY <2>3, <2>6, <2>7 DEF Held
  <2>9. \/ tx' = [tx EXCEPT ![t] = Moved(tx[t], "score", batch, done, more, pending, got)]
        \/ tx' = [tx EXCEPT ![t] = Moved(tx[t], "wait", batch, done, own, pending, items)]
    BY <2>4, <2>5
  <2> QED BY <1>3, <2>1, <2>8, <2>9
<1>6. ASSUME NEW t \in Tx, ComputeAndStore(t) PROVE BasisInv'
  <2>1. Assessing(t) /\ tx[t].step # "commit" /\ UNCHANGED <<evidence, scores>>
    BY <1>6 DEF ComputeAndStore, trustVars
  <2> DEFINE x == tx[t]
             first == Head(x.batch)
  <2>2. PICK new :
          /\ new.basis = ItemsOf(first, evidence \union x.own)
          /\ new = [basis |-> new.basis, rank |-> new.rank]
          /\ tx' = [tx EXCEPT ![t] =
               Moved(x, IF Tail(x.batch) = <<>> THEN "commit" ELSE "collect", Tail(x.batch),
                     Append(x.done, first), x.own,
                     [q \in DOMAIN x.pending \union {first} |->
                        IF q = first THEN new ELSE x.pending[q]], {})]
    BY <1>6, ScoreMoves
  <2>3. PICK r, own, pending, p, step, rest, done :
          /\ r = first /\ own = x.own /\ pending = x.pending
          /\ p = [q \in DOMAIN pending \union {r} |-> IF q = r THEN new ELSE pending[q]]
          /\ step = IF Tail(x.batch) = <<>> THEN "commit" ELSE "collect"
          /\ rest = Tail(x.batch) /\ done = Append(x.done, first)
    OBVIOUS
  <2>4. tx' = [tx EXCEPT ![t] = Moved(tx[t], step, rest, done, own, p, {})] BY <2>2, <2>3
  <2>5. Held(own, pending, tx[t].got) BY <1>1, <2>1, <2>3
  <2>6. SoundRows(evidence \union own)
    <3>1. SoundRows(evidence) /\ SoundRows(own) BY <2>5 DEF Held, BasisInv
    <3> QED BY <3>1, FS_Union DEF SoundRows
  <2>7. SoundItems(new.basis)
    <3>1. SoundItems(ItemsOf(r, evidence \union own)) BY <2>6, ItemsSound
    <3> QED BY <2>2, <2>3, <3>1
  <2>8. PendingOK(new) BY <2>2, <2>7 DEF PendingOK
  <2>9. Held(own, p, {})
    BY <2>3, <2>5, <2>8, FS_EmptySet DEF Held, SoundItems
  <2> QED BY <1>3, <2>1, <2>4, <2>9
<1>7. ASSUME NEW t \in Tx, Commit(t) PROVE BasisInv'
  <2>1. Assessing(t) /\ Held(tx[t].own, tx[t].pending, tx[t].got) BY <1>1, <1>7 DEF Commit
  <2>2. SoundRows(evidence)'
    <3>1. evidence' = evidence \union tx[t].own BY <1>7 DEF Commit
    <3>2. SoundRows(evidence) /\ SoundRows(tx[t].own) BY <2>1 DEF Held, BasisInv
    <3>3. SoundRows(evidence \union tx[t].own) BY <3>2, FS_Union DEF SoundRows
    <3> QED BY <3>1, <3>3
  <2>3. ASSUME NEW r \in Retailer PROVE SoundItems(scores'[r])
    <3>1. \/ scores'[r] = scores[r]
          \/ r \in DOMAIN tx[t].pending /\ scores'[r] = tx[t].pending[r].basis
      BY <1>7 DEF Commit
    <3> QED BY <2>1, <3>1 DEF Held, PendingOK, BasisInv
  <2>4. ASSUME NEW u \in Tx, Assessing(u)'
        PROVE  Held(tx'[u].own, tx'[u].pending, tx'[u].got)
    <3>1. u # t /\ Assessing(u)
      BY <1>7, <2>4, CommitMoves DEF Assessing, Idle
    <3>2. Held(tx[u].own, tx[u].pending, tx[u].got) BY <1>1, <3>1
    <3>3. PICK mine, pending, p :
            mine = tx[t].pending /\ pending = tx[u].pending /\ p = Superseded(pending, mine)
      OBVIOUS
    <3>4. \A q \in DOMAIN pending : PendingOK(pending[q]) BY <3>2, <3>3 DEF Held
    <3>5. ASSUME NEW q \in DOMAIN p PROVE PendingOK(p[q])
      <4>1. q \in DOMAIN pending BY <3>3, <3>5 DEF Superseded
      <4>2. p[q] = pending[q] \/ \E k : p[q] = [pending[q] EXCEPT !.rank = k]
        BY <3>3, <4>1 DEF Superseded
      <4>3. PendingOK(pending[q]) BY <3>4, <4>1
      <4>4. CASE \E k : p[q] = [pending[q] EXCEPT !.rank = k]
        <5>1. PICK k : p[q] = [pending[q] EXCEPT !.rank = k] BY <4>4
        <5>2. pending[q] = [basis |-> pending[q].basis, rank |-> pending[q].rank]
          BY <4>3 DEF PendingOK
        <5>3. p[q] = [basis |-> pending[q].basis, rank |-> k] BY <5>1, <5>2
        <5> QED BY <4>3, <5>3 DEF PendingOK
      <4> QED BY <4>2, <4>3, <4>4
    <3>6. tx'[u] = Moved(tx[u], tx[u].step, tx[u].batch, tx[u].done, tx[u].own, p, tx[u].got)
      BY <1>7, <3>1, <3>3, CommitMoves
    <3>7. tx'[u].own = tx[u].own /\ tx'[u].pending = p /\ tx'[u].got = tx[u].got
      BY <3>6 DEF Moved
    <3> QED BY <3>2, <3>5, <3>7 DEF Held
  <2> QED BY <2>2, <2>3, <2>4 DEF BasisInv, Held, PendingOK, SoundItems, SoundRows, Sound
<1>8. ASSUME NEW t \in Tx, NEW new, new.kind \notin Assessments, tx' = [tx EXCEPT ![t] = new],
             UNCHANGED <<evidence, scores>>
      PROVE  BasisInv'
  BY <1>8, BasisOne
<1>9. ASSUME NEW t \in Tx, CollectionFails(t) PROVE BasisInv'
  BY <1>8, <1>9 DEF CollectionFails, trustVars, Idle, Assessments
<1>10. ASSUME NEW t \in Tx, Assessment(t) PROVE BasisInv'
  <2>1. CASE AssessNewRetailers(t) BY <1>2, <2>1 DEF AssessNewRetailers, Assessments
  <2>2. CASE RefreshTrust(t) BY <1>2, <2>2 DEF RefreshTrust, Assessments
  <2>3. CASE \E r \in Retailer : GetRetailerTrust(t, r) \/ EnsureBaselineScore(t, r)
    BY <1>2, <2>3 DEF GetRetailerTrust, EnsureBaselineScore, Assessments
  <2> QED BY <1>4, <1>5, <1>6, <1>7, <1>9, <1>10, <2>1, <2>2, <2>3 DEF Assessment
<1>11. ASSUME NEW t \in Tx, Community(t) PROVE BasisInv'
  <2>1. \E new : new.kind \notin Assessments /\ tx' = [tx EXCEPT ![t] = new]
    <3>1. CASE InsertFlag(t)
      <4>1. Shape(tx[t]) /\ tx[t].kind = "flag" BY <3>1 DEF InsertFlag, Flagging, TxInv
      <4>2. PICK new : new = [tx[t] EXCEPT !.step = "flagged"] OBVIOUS
      <4>3. new.kind = "flag" BY <4>1, <4>2, ReportShape
      <4>4. tx' = [tx EXCEPT ![t] = Idle] \/ tx' = [tx EXCEPT ![t] = new]
        BY <3>1, <4>2 DEF InsertFlag, TxInv
      <4> QED BY <4>3, <4>4 DEF Idle, Assessments
    <3>2. ASSUME NEW kind \in {"flag", "moderate"}, NEW p \in Report, NEW what,
                 LoadReport(t, kind, p, what)
          PROVE  \E new : new.kind \notin Assessments /\ tx' = [tx EXCEPT ![t] = new]
      <4>1. PICK new : new = [kind |-> kind, report |-> p, arg |-> what,
                              loaded |-> reports[p], step |-> "loaded"]
        OBVIOUS
      <4> QED BY <3>2, <4>1 DEF LoadReport, Assessments
    <3>3. CASE tx' = [tx EXCEPT ![t] = Idle] BY <3>3 DEF Idle, Assessments
    <3> QED BY <1>11, <3>1, <3>2, <3>3 DEF Community, CommitFlag, CommitModeration
  <2>2. UNCHANGED <<evidence, scores>>
    BY <1>11 DEF Community, LoadReport, InsertFlag, CommitFlag, CommitModeration, trustVars
  <2> QED BY <1>8, <2>1, <2>2
<1>12. ASSUME UNCHANGED <<evidence, scores, tx>> PROVE BasisInv'
  BY <1>12 DEF BasisInv, Held, PendingOK, SoundItems, SoundRows, Sound, Assessing
<1> QED BY <1>10, <1>11, <1>12 DEF Next, vars, Create, trustVars

\* What a total adds up to.
LEMMA TotalType ==
  ASSUME NEW f, IsFiniteSet(DOMAIN f), NEW N \in {Nat, Int}, \A x \in DOMAIN f : f[x] \in N
  PROVE  /\ Total(f) \in N
         /\ N = Nat /\ DOMAIN f # {} /\ (\A x \in DOMAIN f : f[x] > 0) => Total(f) > 0
<1> DEFINE S == DOMAIN f
           G(F) == F = [s \in SUBSET S |->
                          IF s = {} THEN 0
                          ELSE LET x == CHOOSE x \in s : TRUE IN f[x] + F[s \ {x}]]
<1>1. PICK F : SumsOf(F, f, S) /\ F = [s \in SUBSET S |-> F[s]] BY SumsExist
<1>2. G(F)
  <2> HIDE DEF S
  <2> QED BY ZenonT(60), <1>1 DEF SumsOf, Added, FirstOf
<1>3. \E H : G(H) /\ H[S] = Total(f)
  BY <1>2 DEF Total, MapThenSumSet, MapThenFoldSet
<1>4. PICK H : G(H) /\ H[S] = Total(f) BY <1>3
<1>5. SumsOf(H, f, S)
  <2> HIDE DEF S
  <2> QED BY <1>4 DEF SumsOf, Added, FirstOf
<1>6. \A s \in SUBSET S : H[s] \in N BY <1>5, SumsType
<1>7. Total(f) \in N BY <1>4, <1>6
<1>8. ASSUME N = Nat, S # {}, \A x \in S : f[x] > 0 PROVE Total(f) > 0
  <2>1. FirstOf(S) \in S BY <1>8 DEF FirstOf
  <2>2. H[S] = f[FirstOf(S)] + H[S \ {FirstOf(S)}] BY <1>5, <1>8 DEF SumsOf, Added
  <2>3. PICK a \in Nat, b \in Nat : a = f[FirstOf(S)] /\ b = H[S \ {FirstOf(S)}] /\ a > 0
    <3>1. H[S \ {FirstOf(S)}] \in Nat BY <1>6, <1>8
    <3> QED BY <1>8, <2>1, <3>1
  <2> QED BY <1>4, <2>2, <2>3
<1> QED BY <1>7, <1>8

\* What a piece of evidence weighs, and what several weigh together.
LEMMA WeightType == ASSUME NEW e, Sound(e) PROVE EvidenceWeight(e) \in Nat
<1>1. \A a, b \in Nat : Times(a, b) \in Nat
  <2> SUFFICES ASSUME NEW a \in Nat, NEW b \in Nat PROVE Times(a, b) \in Nat
    OBVIOUS
  <2>1. PICK n \in Nat : n = a * b OBVIOUS
  <2>2. n \div 1000 \in Nat OBVIOUS
  <2> QED BY <2>1, <2>2 DEF Times
<1>2. /\ e.confidence \in Nat /\ e.recency \in Nat
      /\ SourceReliability[e.source_type] \in Nat
  BY DEF Sound, SourceReliability
<1> QED BY <1>1, <1>2 DEF EvidenceWeight

LEMMA WeightTotal ==
  ASSUME NEW E, SoundItems(E)
  PROVE  Total(Weights(E)) \in Nat
<1>1. PICK f : f = Weights(E) OBVIOUS
<1>2. DOMAIN f = E /\ \A e \in E : f[e] = EvidenceWeight(e) BY <1>1 DEF Weights
<1>3. \A e \in DOMAIN f : f[e] \in Nat BY <1>2, WeightType DEF SoundItems
<1>4. IsFiniteSet(DOMAIN f) BY <1>2 DEF SoundItems
<1> QED BY <1>1, <1>3, <1>4, TotalType

\* There are seven factors.
LEMMA FactorsFinite == IsFiniteSet(Factor)
<1> DEFINE Name == <<"returns", "delivery", "customer_service", "authenticity", "fraud",
                     "transparency", "payment_security">>
<1>1. Factor = {Name[i] : i \in 1..7}
  <2>1. \A f \in Factor : \E i \in 1..7 : Name[i] = f BY DEF Factor, FactorWeights
  <2>2. \A i \in 1..7 : Name[i] \in Factor BY DEF Factor, FactorWeights
  <2> HIDE DEF Name
  <2> QED BY <2>1, <2>2
<1>2. PICK n \in Int : n = 7 OBVIOUS
<1>3. IsFiniteSet(1..n) BY FS_Interval
<1>4. Factor = {Name[i] : i \in 1..n} BY <1>1, <1>2
<1> HIDE DEF Name
<1> QED BY <1>3, <1>4, ImageFinite

\* What the evidence of a factor covers is at most all of it (assess).
LEMMA CoverageType ==
  ASSUME NEW E, SoundItems(E), NEW topic
  PROVE  Coverage(topic, E) \in 0..1000 /\ Total(Weights(Rows(topic, E))) \in Nat
<1>1. Rows(topic, E) \in SUBSET E BY DEF Rows
<1>2. SoundItems(Rows(topic, E)) BY <1>1, RowsSound
<1>3. PICK n \in Nat : n = Total(Weights(Rows(topic, E))) BY <1>2, WeightTotal
<1>4. AtMost(1000, n) \in 0..1000 BY DEF AtMost
<1> QED BY <1>3, <1>4 DEF Coverage

\* A factor's score lies between 0 and 100, whatever was found.
LEMMA ComponentType ==
  ASSUME NEW E, SoundItems(E), NEW topic
  PROVE  ComponentScore(topic, E) \in 0..100
<1> DEFINE items == Rows(topic, E)
           weighed == [e \in items |->
                         LET sw == Times(e.sentiment, EvidenceWeight(e))
                         IN  IF e.sentiment < 0 THEN Times(sw, 1000 + e.severity) ELSE sw]
           w == Total(Weights(items)) + 500
           s == RoundDiv(50 * w + 65 * Total(weighed), w)
<1>1. ComponentScore(topic, E) = IF s < 0 THEN 0 ELSE AtMost(s, 100) BY DEF ComponentScore
<1>2. SoundItems(items)
  <2>1. items \in SUBSET E BY DEF Rows
  <2> HIDE DEF items
  <2> QED BY <2>1, RowsSound
<1>3. ASSUME NEW e \in items PROVE weighed[e] \in Int
  <2>1. \A a, b \in Int : Times(a, b) \in Int BY DEF Times
  <2>2. Sound(e) BY <1>2 DEF SoundItems
  <2>3. PICK sent \in Int, sev \in Int, weight \in Int :
          sent = e.sentiment /\ sev = e.severity /\ weight = EvidenceWeight(e)
    BY <2>2, WeightType DEF Sound
  <2>4. PICK sw \in Int : sw = Times(sent, weight) BY <2>1
  <2>5. Times(sw, 1000 + sev) \in Int BY <2>1
  <2>6. weighed[e] = IF sent < 0 THEN Times(sw, 1000 + sev) ELSE sw BY <2>3, <2>4
  <2> HIDE DEF weighed
  <2> QED BY <2>5, <2>6
<1>4. Total(weighed) \in Int
  <2>1. DOMAIN weighed = items OBVIOUS
  <2>2. IsFiniteSet(items) BY <1>2 DEF SoundItems
  <2> HIDE DEF weighed, items
  <2> QED BY <1>3, <2>1, <2>2, TotalType
<1>5. Total(Weights(items)) \in Nat
  <2> HIDE DEF items
  <2> QED BY <1>2, WeightTotal
<1>6. s \in Int
  <2> HIDE DEF weighed, items
  <2>1. PICK a \in Int, b \in Nat : a = Total(weighed) /\ b = w /\ b > 0 BY <1>4, <1>5
  <2>2. PICK x \in Int, y \in Nat : x = 2 * (50 * b + 65 * a) + b /\ y = 2 * b /\ y > 0 BY <2>1
  <2>3. x \div y \in Int BY <2>2
  <2>4. s = x \div y BY <2>1, <2>2 DEF RoundDiv
  <2> QED BY <2>3, <2>4
<1> HIDE DEF s
<1> QED BY <1>1, <1>6 DEF AtMost

\* The weighted mean of the covered factors is not negative: their weights add
\* up to more than nothing.
LEMMA OverallType ==
  ASSUME NEW E, SoundItems(E)
  PROVE  Overall(E) \in Nat
<1> DEFINE covered == {t \in Factor : Rows(t, E) # {}}
           weight == [t \in covered |-> FactorWeights[t] * (500 + Coverage(t, E) \div 2)]
           share == [t \in covered |-> ComponentScore(t, E) * weight[t]]
           mean == IF covered = {} THEN 5000 ELSE (Total(share) * 100) \div Total(weight)
<1>1. Overall(E) \in {mean, AtMost(mean, 4500), AtMost(mean, 5400)} BY DEF Overall
<1>2. IsFiniteSet(covered)
  <2>1. covered \in SUBSET Factor OBVIOUS
  <2> HIDE DEF covered
  <2> QED BY <2>1, FactorsFinite, FS_Subset
<1>3. ASSUME NEW t \in covered PROVE weight[t] \in Nat /\ weight[t] > 0 /\ share[t] \in Nat
  <2>1. PICK c \in 0..1000 : c = Coverage(t, E) BY CoverageType
  <2>2. FactorWeights[t] \in {20, 18, 15, 12, 8} BY DEF Factor, FactorWeights
  <2>3. PICK f \in 8..20 : f = FactorWeights[t]
    <3>1. FactorWeights[t] \in 8..20 BY <2>2
    <3> QED BY <3>1
  <2>4. PICK h \in Nat : h = 500 + c \div 2 /\ h > 0 OBVIOUS
  <2>5. f * h \in Nat /\ f * h > 0 BY <2>3, <2>4
  <2>6. weight[t] = f * h BY <2>1, <2>3, <2>4
  <2>7. PICK k \in Nat : k = ComponentScore(t, E)
    <3>1. ComponentScore(t, E) \in 0..100 BY ComponentType
    <3> QED BY <3>1
  <2>8. PICK n \in Nat : n = weight[t] /\ n > 0 BY <2>5, <2>6
  <2>9. share[t] = k * n BY <2>7, <2>8
  <2>10. k * n \in Nat OBVIOUS
  <2> HIDE DEF share, weight
  <2> QED BY <2>8, <2>9, <2>10
<1>4. DOMAIN weight = covered /\ DOMAIN share = covered OBVIOUS
<1>5. Total(weight) \in Nat /\ (covered # {} => Total(weight) > 0) /\ Total(share) \in Nat
  <2> HIDE DEF weight, share, covered
  <2> QED BY <1>2, <1>3, <1>4, TotalType
<1>6. mean \in Nat
  <2> HIDE DEF weight, share, covered
  <2>1. CASE covered = {} BY <2>1
  <2>2. CASE covered # {}
    <3>1. PICK a \in Nat, b \in Nat : a = Total(share) * 100 /\ b = Total(weight) /\ b > 0
      BY <1>5, <2>2
    <3>2. a \div b \in Nat BY <3>1
    <3>3. mean = a \div b BY <2>2, <3>1
    <3> QED BY <3>2, <3>3
  <2> QED BY <2>1, <2>2
<1> HIDE DEF mean
<1> QED BY <1>1, <1>6 DEF AtMost

LEMMA ScoreType ==
  ASSUME NEW E, SoundItems(E)
  PROVE  Score(E) \in 0..100
<1>1. PICK n \in Nat : n = Overall(E) BY OverallType
<1>2. PICK k \in Nat : k = RoundDiv(n, 100) BY DEF RoundDiv
<1>3. AtMost(k, 100) \in 0..100 BY DEF AtMost
<1> QED BY <1>1, <1>2, <1>3 DEF Score

\* Confidence is at most all of it, and low on fewer than three pieces of evidence.
LEMMA ConfidenceType ==
  ASSUME NEW E, SoundItems(E)
  PROVE  /\ Confidence(E) \in 0..1000
         /\ Cardinality(E) < 3 => Confidence(E) <= 300
<1> DEFINE total == Total(Weights(E))
           sources == {e.source : e \in E}
           well == {t \in Factor : Coverage(t, E) > 200}
           raw == AtMost(1000, 150 + (AtMost(total, 6000) * 450) \div 6000
                                 + AtMost(Cardinality(sources), 3) * 50
                                 + (Cardinality(well) * 250) \div 7)
           thin == IF Cardinality(E) < 3 THEN AtMost(raw, 300) ELSE raw
<1>1. Confidence(E) = 10 * RoundDiv(thin, 10) BY DEF Confidence
<1>2. total \in Nat BY WeightTotal
<1>3. Cardinality(sources) \in Nat
  <2> DEFINE SourceOf == [e \in E |-> e.source]
  <2>1. sources = {SourceOf[e] : e \in E} OBVIOUS
  <2>2. IsFiniteSet(E) BY DEF SoundItems
  <2> HIDE DEF SourceOf, sources
  <2> QED BY <2>1, <2>2, ImageFinite, FS_CardinalityType
<1>4. Cardinality(well) \in Nat
  <2>1. well \in SUBSET Factor OBVIOUS
  <2> HIDE DEF well
  <2> QED BY <2>1, FactorsFinite, FS_Subset, FS_CardinalityType
<1>5. raw \in 0..1000
  <2> HIDE DEF total, sources, well
  <2>1. PICK a \in Nat, b \in Nat, c \in Nat :
          a = total /\ b = Cardinality(sources) /\ c = Cardinality(well)
    BY <1>2, <1>3, <1>4
  <2>2. PICK d \in Nat : d = (AtMost(a, 6000) * 450) \div 6000
    <3>1. AtMost(a, 6000) \in Nat BY DEF AtMost
    <3> QED BY <3>1
  <2>3. PICK e \in Nat : e = AtMost(b, 3) * 50
    <3>1. AtMost(b, 3) \in Nat BY DEF AtMost
    <3> QED BY <3>1
  <2>4. PICK f \in Nat : f = (c * 250) \div 7 OBVIOUS
  <2>5. raw = AtMost(1000, 150 + d + e + f) BY <2>1, <2>2, <2>3, <2>4
  <2> HIDE DEF raw
  <2> QED BY <2>5 DEF AtMost
<1> HIDE DEF raw
<1>6. thin \in 0..1000 /\ (Cardinality(E) < 3 => thin <= 300) BY <1>5 DEF AtMost
<1>7. PICK k \in 0..1000 : k = thin BY <1>6
<1>8. RoundDiv(k, 10) \in 0..100 /\ (k <= 300 => RoundDiv(k, 10) <= 30) BY DEF RoundDiv
<1> HIDE DEF thin
<1> QED BY <1>1, <1>6, <1>7, <1>8

\* An accusation rests on at least three serious and confident pieces of
\* evidence, none of them a leading query's that is not spared; fewer than three
\* pieces give none.
LEMMA SoundBadge ==
  ASSUME NEW r \in Retailer \ Curated, SoundItems(scores[r])
  PROVE  /\ Badge(r) = "flagged" =>
              Cardinality({e \in scores[r] : Serious(e) /\ (e.leading => Spared(e))}) >= 3
         /\ Cardinality(scores[r]) < 3 => Badge(r) = "unverified"
<1> DEFINE E == scores[r]
           serious == {e \in E : Serious(e) /\ (e.leading => Spared(e))}
<1>1. /\ Assess(E).score = -1 \/ Assess(E).level = "low" => Badge(r) = "unverified"
      /\ Badge(r) = "flagged" => Assess(E).risk = "high"
  <2>1. PICK a : a = Assess(E) OBVIOUS
  <2>2. r \notin Curated OBVIOUS
  <2> HIDE DEF E
  <2> QED BY <2>1, <2>2 DEF Badge, VerificationStatus, E
<1>2. IsFiniteSet(E) /\ \A e \in E : Sound(e) BY DEF SoundItems
<1>3. ASSUME Badge(r) = "flagged" PROVE Cardinality(serious) >= 3
  <2>1. Assess(E).risk = "high" BY <1>1, <1>3
  <2>2. E # {} /\ Risk(E) = "high" BY <2>1 DEF Assess, NoScore
  <2> DEFINE against == {e \in E : Corroborates(e)}
  <2>3. Cardinality(against) >= 3 BY <2>2 DEF Risk
  <2>4. against \in SUBSET serious
    <3> SUFFICES ASSUME NEW e \in E, Corroborates(e)
                 PROVE  Serious(e) /\ (e.leading => Spared(e))
      OBVIOUS
    <3> QED BY <1>2 DEF Corroborates, Serious, Sound
  <2>5. serious \in SUBSET E OBVIOUS
  <2> HIDE DEF against, serious
  <2>6. IsFiniteSet(serious) BY <1>2, <2>5, FS_Subset
  <2>7. Cardinality(against) <= Cardinality(serious) BY <2>4, <2>6, FS_Subset
  <2>8. Cardinality(serious) \in Nat /\ Cardinality(against) \in Nat
    BY <2>4, <2>6, FS_Subset, FS_CardinalityType
  <2> QED BY <2>3, <2>7, <2>8
<1>4. ASSUME Cardinality(E) < 3 PROVE Badge(r) = "unverified"
  <2>1. CASE E = {}
    <3>1. Assess(E).score = -1 BY <2>1 DEF Assess, NoScore
    <3> QED BY <1>1, <3>1
  <2>2. CASE E # {}
    <3>1. Confidence(E) \in 0..1000 /\ Confidence(E) <= 300 BY <1>2, <1>4, ConfidenceType DEF SoundItems
    <3>2. ConfidenceLevel(Confidence(E)) = "low" BY <3>1 DEF ConfidenceLevel
    <3>3. Assess(E).level = "low" BY <2>2, <3>2 DEF Assess
    <3> QED BY <1>1, <3>3
  <2> QED BY <2>1, <2>2
<1> QED BY <1>3, <1>4

\* BuyWise accuses a retailer (TrustEngine.assess, verification_status) only on
\* corroborated evidence, whatever is found, reported, read by an AI provider,
\* assessed and committed at once: a page that a leading query found counts only
\* if its own words were friendly or the provider's answer was about it more than
\* once.
THEOREM AccusedOnlyIfCorroborated == Spec => []FlaggedOnlyIfCorroborated
<1>1. Init => TxInv /\ BasisInv BY TxInit, BasisInit
<1>2. TxInv /\ BasisInv /\ [Next]_vars => TxInv' /\ BasisInv' BY TxStep, BasisStep
<1>3. BasisInv => FlaggedOnlyIfCorroborated
  BY SoundBadge DEF BasisInv, FlaggedOnlyIfCorroborated
<1> QED BY <1>1, <1>2, <1>3, PTL DEF Spec

\* The scores and confidences on record are on their scales.
ScoresInRange ==
  \A r \in Retailer : scores[r] # {} =>
    /\ Assess(scores[r]).score \in 0..100
    /\ Confidence(scores[r]) \in 0..1000

\* Every trust score on record lies between 0 and 100 and its confidence between
\* 0 and 1, though a factor's mean sentiment, amplified by severity, may leave
\* its scale and the mean is taken over the factors covered (assess of trust_engine.py):
\* whatever is found, reported, read by a provider, and assessed at once.  It is
\* what Shopping's ScoreAssumption supposes of the scores that searches and pages
\* read.
THEOREM AssessmentsAreInRange == Spec => []ScoresInRange
<1>1. Init => TxInv /\ BasisInv BY TxInit, BasisInit
<1>2. TxInv /\ BasisInv /\ [Next]_vars => TxInv' /\ BasisInv' BY TxStep, BasisStep
<1>3. ASSUME BasisInv, NEW r \in Retailer, scores[r] # {}
      PROVE  Assess(scores[r]).score \in 0..100 /\ Confidence(scores[r]) \in 0..1000
  <2>1. SoundItems(scores[r]) BY <1>3 DEF BasisInv
  <2>2. Assess(scores[r]).score = Score(scores[r]) BY <1>3 DEF Assess
  <2> QED BY <2>1, <2>2, ScoreType, ConfidenceType
<1>4. BasisInv => ScoresInRange BY <1>3 DEF ScoresInRange
<1> QED BY <1>1, <1>2, <1>4, PTL DEF Spec
=============================================================================
