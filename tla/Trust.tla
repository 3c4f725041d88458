------------------------------- MODULE Trust -------------------------------
(***************************************************************************)
(* Trust evidence and community reports: services/trust_service.py,        *)
(* services/community_service.py, the trust jobs of workers/jobs.py and    *)
(* the routes that call them, as database transactions that overlap.       *)
(*                                                                         *)
(* A transaction that assesses retailers takes them one after the other:   *)
(* it collects (a long await on the providers, then a read of the approved *)
(* reports), stores what it does not find on record, and scores.  A job    *)
(* commits once, after its whole batch.  trust_evidence.fingerprint is     *)
(* unique: an insert waits for another uncommitted insert of the same item *)
(* and fails if that one commits.                                          *)
(***************************************************************************)
EXTENDS TrustEngine, Sequences, SequencesExt

CONSTANTS Retailer,     \* the retailers, all of them already in the table
          Curated,      \* those with published policies in data/retailers.py
          Policies,     \* the facts of each retailer, {} when it is not curated
          Pages,        \* what the web search finds about each retailer
          Readings,     \* what an AI provider may say of a page; {} when none is configured
          MostRows,     \* rows of one answer about the same page: the prompt asks for
                        \* one, the code takes any number
          Report, User, \* community reports, users who flag
          About,        \* for a report: retailer, topic, rating, verified
          HideAfter,    \* flags that hide an approved report (3 in the code)
          Tx,           \* transactions that may be in flight together
          AssessBatch,  \* TRUST_ASSESS_BATCH
          RefreshBatch  \* limit of refresh_trust

ASSUME TrustAssumption ==
  /\ Curated \subseteq Retailer
  /\ {AssessBatch, RefreshBatch, HideAfter, MostRows} \subseteq Nat \ {0}
  /\ IsFiniteSet(Report)

\* What is found about a retailer; fractions are thousandths.
ASSUME FoundAssumption ==
  /\ \A r \in Retailer : /\ Policies[r] \subseteq DOMAIN PolicyFacts
                         /\ IsFiniteSet(Pages[r])
                         /\ \A page \in Pages[r] : /\ {page.neg, page.pos} \subseteq Nat
                                                 /\ page.site \in 0..1000
                                                 /\ {page.own, page.leading} \subseteq BOOLEAN
  /\ \A reading \in Readings :
       /\ DOMAIN reading \subseteq {"topic", "sentiment", "severity"}
       /\ "topic" \in DOMAIN reading => reading["topic"] \in Factor \union {"general"}
       /\ "sentiment" \in DOMAIN reading => reading["sentiment"] \in -1000..1000
       /\ "severity" \in DOMAIN reading => reading["severity"] \in 0..1000
  /\ \A p \in Report : About[p].rating \in 0..5 /\ About[p].verified \in BOOLEAN

VARIABLES evidence,  \* committed trust_evidence rows, as <<retailer, item>>
          scores,    \* the latest trust_scores row of each retailer, as the items it
                     \* was calculated from: Assess gives its columns
          byUpdate,  \* the retailers by updated_at, oldest first
          reports,   \* community_reports
          flags,     \* report_flags rows, as <<report, user>>
          tx         \* what each transaction has read and written

vars == <<evidence, scores, byUpdate, reports, flags, tx>>
trustVars == <<evidence, scores, byUpdate>>
communityVars == <<reports, flags>>

Idle == [kind |-> "idle"]

IdsOf(rows) == {row[2].id : row \in rows}
ItemsOf(r, rows) == {row[2] : row \in {w \in rows : w[1] = r}}
Assessing(t) == tx[t].kind \in {"assess", "refresh_trust", "live", "baseline"}
OwnOf(t) == IF Assessing(t) THEN tx[t].own ELSE {}
HeldByOthers(t) == UNION {IdsOf(OwnOf(u)) : u \in Tx \ {t}}
Scored(r) == scores[r] # {}

Init ==
  /\ evidence = {} /\ flags = {}
  /\ scores = [r \in Retailer |-> {}]
  /\ byUpdate = SetToSeq(Retailer)
  /\ reports = [p \in Report |-> [status |-> "none", flags |-> 0]]
  /\ tx = [t \in Tx |-> Idle]

-----------------------------------------------------------------------------
(* Transactions that assess retailers.                                     *)

Start(t, kind, batch) ==
  /\ tx[t] = Idle /\ batch \in Seq(Retailer) \ {<<>>}
  /\ tx' = [tx EXCEPT ![t] =
              [kind |-> kind, step |-> IF kind = "baseline" THEN "store" ELSE "collect",
               batch |-> batch, done |-> <<>>, own |-> {}, pending |-> <<>>,
               got |-> IF kind = "baseline"
                       THEN PolicyEvidence(Head(batch), Policies[Head(batch)]) ELSE {}]]
  /\ UNCHANGED <<trustVars, communityVars>>

RetailersNeedingAssessment ==
  SelectSeq(SetToSeq(Retailer), LAMBDA r : ~Scored(r))

Batch(s, limit) == SubSeq(s, 1, AtMost(Len(s), limit))

AssessNewRetailers(t) == Start(t, "assess", Batch(RetailersNeedingAssessment, AssessBatch))
RefreshTrust(t) == Start(t, "refresh_trust", Batch(byUpdate, RefreshBatch))
\* An administrator's refresh, or the shopping agent when the latest score is
\* older than CACHE_TTL_TRUST_SECONDS; as time passes it may start at any moment.
GetRetailerTrust(t, r) == Start(t, "live", <<r>>)
\* A page or a search that shows a curated retailer nobody has scored yet.
EnsureBaselineScore(t, r) ==
  r \in Curated /\ ~Scored(r) /\ Start(t, "baseline", <<r>>)

ApprovedReports(r) ==
  {p \in Report : reports[p].status = "approved" /\ About[p].retailer = r}

\* An AI provider is given at most this many search results at once.
ReadAtOnce == 25

\* Its answer may be about any of them, once or several times; its failure
\* changes nothing.
Refinements(items) ==
  LET Answers(read) == [read -> [reading : Readings, rows : 1..MostRows]]
      After(a) == (items \ DOMAIN a) \union
                  {Refine(e, a[e].reading, a[e].rows) : e \in DOMAIN a}
  IN  UNION {{After(a) : a \in Answers(read)} :
               read \in {batch \in SUBSET items : Cardinality(batch) <= ReadAtOnce}}

Collect(t) ==
  /\ Assessing(t) /\ tx[t].step = "collect"
  /\ LET r == Head(tx[t].batch)
         web == {AnalyzeItem(r, page) : page \in Pages[r]}
         community == {CommunityEvidence(r, p, About[p].topic, About[p].rating,
                                         About[p].verified) : p \in ApprovedReports(r)}
     IN  \E found \in {{}} \union Refinements(web) :
           tx' = [tx EXCEPT ![t].step = "store",
                            ![t].got = PolicyEvidence(r, Policies[r]) \union found \union community]
  /\ UNCHANGED <<trustVars, communityVars>>

\* The items whose fingerprints are not on record are inserted.
Store(t) ==
  /\ Assessing(t) /\ tx[t].step = "store"
  /\ LET r == Head(tx[t].batch)
         fps == IdsOf(evidence \union tx[t].own)
         new == {<<r, e>> : e \in {i \in tx[t].got : i.id \notin fps}}
     IN  IF IdsOf(new) \intersect HeldByOthers(t) = {}
         THEN tx' = [tx EXCEPT ![t].step = "score", ![t].own = @ \union new]
         ELSE tx' = [tx EXCEPT ![t].step = "wait", ![t].got = {row[2] : row \in new}]
  /\ UNCHANGED <<trustVars, communityVars>>

Waiting(t) == Assessing(t) /\ tx[t].step = "wait"
WaitsFor(t, u) == {e.id : e \in tx[t].got} \intersect IdsOf(OwnOf(u)) # {}

\* The other transaction was rolled back: the insert goes through.
StoreAfterWait(t) ==
  /\ Waiting(t)
  /\ {e.id : e \in tx[t].got} \intersect (HeldByOthers(t) \union IdsOf(evidence)) = {}
  /\ tx' = [tx EXCEPT ![t].step = "score",
                      ![t].own = @ \union {<<Head(tx[t].batch), e>> : e \in tx[t].got}]
  /\ UNCHANGED <<trustVars, communityVars>>

\* The other one committed the item, or both wait for each other and this one
\* is ended.
InsertIsRefused(t) ==
  \/ {e.id : e \in tx[t].got} \intersect IdsOf(evidence) # {}
  \/ \E u \in Tx \ {t} : Waiting(u) /\ WaitsFor(t, u) /\ WaitsFor(u, t)

\* The flush fails.  The session can do nothing more until it is rolled back,
\* so whatever catches the error, the transaction is lost.
CollectionFails(t) ==
  /\ Waiting(t) /\ InsertIsRefused(t)
  /\ tx' = [tx EXCEPT ![t] = Idle]
  /\ UNCHANGED <<trustVars, communityVars>>

PendingRanks(r) ==
  {0} \union {tx[t].pending[r].rank : t \in {u \in Tx : Assessing(u) /\ r \in DOMAIN tx[u].pending}}

\* A score is calculated from the rows the transaction sees.  Its rank says
\* how many scores later than the committed one it was calculated.
ComputeAndStore(t) ==
  /\ Assessing(t) /\ tx[t].step = "score"
  /\ LET r == Head(tx[t].batch)
         new == [basis |-> ItemsOf(r, evidence \union tx[t].own),
                 rank |-> 1 + Max(PendingRanks(r))]
         rest == Tail(tx[t].batch)
     IN  tx' = [tx EXCEPT ![t].batch = rest, ![t].got = {},
                          ![t].step = IF rest = <<>> THEN "commit" ELSE "collect",
                          ![t].done = Append(@, r),
                          ![t].pending = [q \in DOMAIN @ \union {r} |-> IF q = r THEN new ELSE @[q]]]
  /\ UNCHANGED <<trustVars, communityVars>>

Superseded(other, mine) ==
  [r \in DOMAIN other |->
     IF r \in DOMAIN mine /\ mine[r].rank > 0
     THEN [other[r] EXCEPT !.rank = IF @ > mine[r].rank THEN @ - mine[r].rank ELSE -1]
     ELSE other[r]]

\* Mutant: refresh_trust does not set updated_at.
CommitUnmoved(t) ==
  /\ Assessing(t) /\ tx[t].step = "commit"
  /\ evidence' = evidence \union tx[t].own
  /\ scores' = [r \in Retailer |-> IF r \in DOMAIN tx[t].pending
                                   THEN tx[t].pending[r].basis ELSE scores[r]]
  /\ tx' = [tx EXCEPT ![t] = Idle]
  /\ UNCHANGED <<byUpdate, communityVars>>

Commit(t) ==
  /\ Assessing(t) /\ tx[t].step = "commit"
  /\ LET pending == tx[t].pending
         latest == {r \in DOMAIN pending : pending[r].rank > 0}
         moved == IF tx[t].kind = "refresh_trust" THEN tx[t].done ELSE <<>>
     IN  /\ evidence' = evidence \union tx[t].own
         /\ scores' = [r \in Retailer |-> IF r \in latest THEN pending[r].basis ELSE scores[r]]
         /\ byUpdate' = SelectSeq(byUpdate, LAMBDA r : r \notin ToSet(moved)) \o moved
         /\ tx' = [u \in Tx |->
                     IF u = t THEN Idle
                     ELSE IF Assessing(u) THEN [tx[u] EXCEPT !.pending = Superseded(@, pending)]
                     ELSE tx[u]]
  /\ UNCHANGED communityVars

-----------------------------------------------------------------------------
(* Community reports.                                                      *)

Create(p) ==
  /\ reports[p].status = "none"
  /\ reports' = [reports EXCEPT ![p].status = "pending"]
  /\ UNCHANGED <<trustVars, flags, tx>>

LoadReport(t, kind, p, what) ==
  /\ tx[t] = Idle /\ reports[p].status # "none"
  /\ tx' = [tx EXCEPT ![t] = [kind |-> kind, report |-> p, arg |-> what,
                              loaded |-> reports[p], step |-> "loaded"]]
  /\ UNCHANGED <<trustVars, communityVars>>

Flagging(t) == tx[t].kind = "flag"
FlagRow(t) == <<tx[t].report, tx[t].arg>>

\* Mutant: a flag that exists already is not refused.
InsertFlagAgain(t) ==
  /\ Flagging(t) /\ tx[t].step = "loaded"
  /\ tx' = [tx EXCEPT ![t].step = "flagged"]
  /\ UNCHANGED <<trustVars, communityVars>>

\* One flag per user and report: the second insert waits for the first.
InsertFlag(t) ==
  /\ Flagging(t) /\ tx[t].step = "loaded"
  /\ \A u \in Tx \ {t} : ~(Flagging(u) /\ tx[u].step = "flagged" /\ FlagRow(u) = FlagRow(t))
  /\ tx' = [tx EXCEPT ![t] = IF FlagRow(t) \in flags THEN Idle ELSE [@ EXCEPT !.step = "flagged"]]
  /\ UNCHANGED <<trustVars, communityVars>>

\* flag_count and moderation_status are written from the loaded row.
CommitFlag(t) ==
  /\ Flagging(t) /\ tx[t].step = "flagged"
  /\ LET count == tx[t].loaded.flags + 1
         hide == count >= HideAfter /\ tx[t].loaded.status = "approved"
         p == tx[t].report
     IN  reports' = [reports EXCEPT ![p].flags = count,
                                    ![p].status = IF hide THEN "hidden" ELSE @]
  /\ flags' = flags \union {FlagRow(t)}
  /\ tx' = [tx EXCEPT ![t] = Idle]
  /\ UNCHANGED trustVars

Decision == [approve |-> "approved", reject |-> "rejected", hide |-> "hidden"]

\* Only what differs from the loaded row is written.
CommitModeration(t) ==
  /\ tx[t].kind = "moderate"
  /\ LET status == Decision[tx[t].arg]
     IN  reports' = [reports EXCEPT ![tx[t].report].status =
                       IF status = tx[t].loaded.status THEN @ ELSE status]
  /\ tx' = [tx EXCEPT ![t] = Idle]
  /\ UNCHANGED <<trustVars, flags>>

-----------------------------------------------------------------------------
Assessment(t) ==
  \/ AssessNewRetailers(t) \/ RefreshTrust(t)
  \/ \E r \in Retailer : GetRetailerTrust(t, r) \/ EnsureBaselineScore(t, r)
  \/ Collect(t) \/ Store(t) \/ StoreAfterWait(t) \/ CollectionFails(t)
  \/ ComputeAndStore(t) \/ Commit(t)

Community(t) ==
  \/ \E p \in Report, u \in User : LoadReport(t, "flag", p, u)
  \/ \E p \in Report, a \in DOMAIN Decision : LoadReport(t, "moderate", p, a)
  \/ InsertFlag(t) \/ CommitFlag(t) \/ CommitModeration(t)

Next ==
  \/ \E t \in Tx : Assessment(t) \/ Community(t)
  \/ \E p \in Report : Create(p)

Spec == Init /\ [][Next]_vars

\* Requests and jobs in progress go on, the nightly refresh is started again
\* and again, and the search vendor does not fail for a retailer forever.
Continue(t) ==
  \/ Collect(t) \/ Store(t) \/ StoreAfterWait(t) \/ CollectionFails(t)
  \/ ComputeAndStore(t) \/ Commit(t)
  \/ InsertFlag(t) \/ CommitFlag(t) \/ CommitModeration(t)

Answered(t, r) ==
  /\ Collect(t) /\ Head(tx[t].batch) = r
  /\ {<<r, page.url>> : page \in Pages[r]} \subseteq {e.id : e \in tx'[t].got}

Fairness ==
  /\ \A t \in Tx : WF_vars(Continue(t))
  /\ SF_vars(\E t \in Tx : RefreshTrust(t))
  /\ \A r \in Retailer : SF_vars(\E t \in Tx : Answered(t, r))

FairSpec == Spec /\ Fairness

-----------------------------------------------------------------------------
(* Properties.                                                             *)

\* flag_count never exceeds the users who flagged, so as many distinct users
\* as the limit says are needed to hide a report, whatever is clicked twice or counted concurrently.
FlagsAreDistinctUsers ==
  \A p \in Report : reports[p].flags <= Cardinality({f \in flags : f[1] = p})

Badge(r) == VerificationStatus(r \in Curated, Assess(scores[r]))

Serious(e) == e.sentiment <= -500 /\ e.severity >= 600 /\ e.confidence >= 500

\* What a leading query found and the discount spares: a page whose own words
\* were friendly, or one an AI provider's answer was about more than once.
Spared(e) ==
  \E r \in Retailer : \E page \in Pages[r] :
    LET found == AnalyzeItem(r, page)
    IN  /\ e.id = found.id
        /\ \/ found.sentiment > 0 /\ ~page.own
           \/ e.confidence > found.confidence + 100

\* A retailer is flagged only on three serious, confident pieces of evidence.
\* A page that a leading query found is one of them only if it is spared: a
\* page with unfriendly words, or the retailer's own, is not, read by an AI
\* provider or not.  With fewer than three pieces of any kind the badge says
\* nothing.
FlaggedOnlyIfCorroborated ==
  \A r \in Retailer \ Curated :
    LET basis == scores[r]
    IN  /\ Badge(r) = "flagged" =>
             Cardinality({e \in basis : Serious(e) /\ (e.leading => Spared(e))}) >= 3
        /\ Cardinality(basis) < 3 => Badge(r) = "unverified"

\* What the web says about a retailer is on record in the end, also when the
\* first assessment met a vendor that was down or lost its batch to a conflict.
WebEvidenceArrives ==
  <>(\A r \in Retailer : {<<r, page.url>> : page \in Pages[r]} \subseteq IdsOf(evidence))

=============================================================================
