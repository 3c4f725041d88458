---------------------------- MODULE TrustEngine ----------------------------
(***************************************************************************)
(* How BuyWise turns evidence about a retailer into a verdict:             *)
(* services/evidence_analyzer.py (from what was found to scored evidence), *)
(* services/trust_engine.py (from evidence to score, confidence and risk)  *)
(* and verification_status of services/trust_service.py (the badge).       *)
(* Pure operators.  Fractions are thousandths; a product of two fractions  *)
(* is rounded down to a thousandth.  Factor lists, examples and            *)
(* explanations are left out: nothing is decided on them.                  *)
(***************************************************************************)
EXTENDS Integers, FiniteSets, FiniteSetsExt

FactorWeights ==
  [returns |-> 20, delivery |-> 18, customer_service |-> 15, authenticity |-> 15,
   fraud |-> 12, transparency |-> 12, payment_security |-> 8]
Factor == DOMAIN FactorWeights

SourceReliability ==
  [verified_purchase |-> 1000, policy |-> 950, review_platform |-> 750,
   community_report |-> 550, search_result |-> 500]

Times(a, b) == (a * b) \div 1000
RoundDiv(a, b) == (2 * a + b) \div (2 * b)
AtMost(x, bound) == IF x < bound THEN x ELSE bound
Total(f) == MapThenSumSet(LAMBDA x : f[x], DOMAIN f)

-----------------------------------------------------------------------------
(* Evidence: what each source yields.                                      *)

Evidence(id, source, type, topic, sent, sev, conf) ==
  [id |-> id, source |-> source, source_type |-> type, topic |-> topic,
   sentiment |-> sent, severity |-> sev, confidence |-> conf,
   recency |-> 800, leading |-> FALSE]

\* The facts a curated retailer publishes, as <<topic, sentiment, confidence>>.
PolicyFacts ==
  [publishes_return_policy    |-> <<"returns", 500, 700>>,
   buyer_protection           |-> <<"returns", 500, 700>>,
   grievance_officer_published |-> <<"transparency", 500, 700>>,
   cod_available              |-> <<"payment_security", 300, 600>>,
   established_year_in_india  |-> <<"transparency", 600, 850>>,
   verified_purchase_reviews  |-> <<"authenticity", 500, 800>>,
   authorised_sellers_only    |-> <<"authenticity", 600, 800>>,
   customer_support_published |-> <<"customer_service", 400, 750>>,
   physical_stores            |-> <<"transparency", 400, 650>>]

PolicyEvidence(r, facts) ==
  IF facts = {}
  THEN {Evidence(<<r, "no_policy">>, "retailer_policy", "policy", "transparency", 0, 300, 300)}
  ELSE {Evidence(<<r, f>>, "retailer_policy", "policy",
                 PolicyFacts[f][1], PolicyFacts[f][2], 200, PolicyFacts[f][3]) : f \in facts}

\* A community report with a star rating of 1 to 5 (0: none given).
CommunityEvidence(r, p, topic, rating, verified) ==
  LET sent == IF rating = 0 THEN 0 ELSE (rating - 3) * 500
  IN  Evidence(<<r, p>>, "buywise_community",
               IF verified THEN "verified_purchase" ELSE "community_report",
               topic, sent, IF sent < -400 THEN 600 ELSE 300,
               IF verified THEN 750 ELSE 500)

\* What the words of a text say: the weights of the negative and positive
\* phrases it contains, as sentiment and severity.
Sentiment(neg, pos) ==
  IF neg = 0 /\ pos = 0 THEN 0 ELSE ((pos - neg) * 1000) \div (pos + neg)
Severity(neg, pos) ==
  IF neg > pos THEN AtMost(1000, 300 + neg \div 4) ELSE 300

\* Mutant: what a leading query finds counts like anything else.
TakenAtFaceValue(r, page) ==
  LET sent == Sentiment(page.neg, page.pos)
  IN  [Evidence(<<r, page.url>>, "google_search", "search_result", page.topic, sent,
                Severity(page.neg, page.pos), page.site) EXCEPT !.leading = page.leading]

\* A page found by a web search: `neg' and `pos' are what its words weigh,
\* `site' is the confidence its domain has, `own' says that it is the
\* retailer's own page and `leading' that a query like "X scam" found it.
AnalyzeItem(r, page) ==
  LET sent == IF page.own THEN 300 ELSE Sentiment(page.neg, page.pos)
      site == IF page.own THEN 300
              ELSE IF sent = 0 THEN AtMost(page.site, 300) ELSE page.site
  IN  [Evidence(<<r, page.url>>, "google_search", "search_result",
                IF page.own THEN "transparency" ELSE page.topic, sent,
                IF page.own THEN 200 ELSE Severity(page.neg, page.pos),
                IF page.leading /\ sent < 0 THEN Times(site, 350) ELSE site)
         EXCEPT !.leading = page.leading]

\* What an AI provider's answer makes of a search result that `rows' of its rows
\* are about: each row sets what it gives in a readable form, so the last to give
\* a field counts, and each row adds a little confidence.
Refine(e, reading, rows) ==
  LET Read(field) == IF field \in DOMAIN reading THEN reading[field] ELSE e[field]
  IN  [e EXCEPT !.topic = Read("topic"), !.sentiment = Read("sentiment"),
                !.severity = Read("severity"),
                !.confidence = AtMost(850, e.confidence + 100 * rows)]

-----------------------------------------------------------------------------
(* Assessment.                                                             *)

EvidenceWeight(e) ==
  Times(Times(e.confidence, SourceReliability[e.source_type]), e.recency)

Rows(topic, E) ==
  {e \in E : \/ e.topic = topic
             \/ topic = "customer_service" /\ e.topic = "general"}

Weights(E) == [e \in E |-> EvidenceWeight(e)]

Coverage(topic, E) == AtMost(1000, Total(Weights(Rows(topic, E))))

\* 0..100: the weighted mean sentiment of the topic's evidence, negative
\* evidence amplified by its severity, pulled to 50 by half a unit of weight.
ComponentScore(topic, E) ==
  LET Weighed(e) ==
        LET sw == Times(e.sentiment, EvidenceWeight(e))
        IN  IF e.sentiment < 0 THEN Times(sw, 1000 + e.severity) ELSE sw
      w == Total(Weights(Rows(topic, E))) + 500
      s == RoundDiv(50 * w + 65 * Total([e \in Rows(topic, E) |-> Weighed(e)]), w)
  IN  IF s < 0 THEN 0 ELSE AtMost(s, 100)

SevereFraud(E) ==
  Total(Weights({e \in E : e.topic = "fraud" /\ e.sentiment < -500 /\ e.severity >= 700}))

\* The weighted mean over the covered factors, in hundredths of a point;
\* severe fraud evidence caps it.
Overall(E) ==
  LET covered == {t \in Factor : Rows(t, E) # {}}
      weight == [t \in covered |-> FactorWeights[t] * (500 + Coverage(t, E) \div 2)]
      share == [t \in covered |-> ComponentScore(t, E) * weight[t]]
      mean == IF covered = {} THEN 5000
              ELSE (Total(share) * 100) \div Total(weight)
  IN  CASE SevereFraud(E) >= 1000 -> AtMost(mean, 4500)
        [] SevereFraud(E) \in 500 .. 999 -> AtMost(mean, 5400)
        [] OTHER -> mean

Score(E) == AtMost(RoundDiv(Overall(E), 100), 100)

Confidence(E) ==
  LET coveredWell == Cardinality({t \in Factor : Coverage(t, E) > 200})
      quantity == (AtMost(Total(Weights(E)), 6000) * 450) \div 6000
      diversity == AtMost(Cardinality({e.source : e \in E}), 3) * 50
      raw == AtMost(1000, 150 + quantity + diversity + (coveredWell * 250) \div 7)
      thin == IF Cardinality(E) < 3 THEN AtMost(raw, 300) ELSE raw
  IN  10 * RoundDiv(thin, 10)

ConfidenceLevel(c) == IF c >= 700 THEN "high" ELSE IF c >= 450 THEN "medium" ELSE "low"

\* The score sits on the neutral prior: the evidence does not discriminate.
Uninformative(score) == score \in 44 .. 56

Corroborates(e) ==
  e.sentiment <= -500 /\ e.severity >= 600 /\ e.confidence >= 500

Risk(E) ==
  IF Confidence(E) < 400 \/ Uninformative(Score(E)) THEN "unknown"
  ELSE IF Score(E) >= 75 THEN "low"
  ELSE IF Score(E) >= 55 THEN "medium"
  ELSE IF Cardinality({e \in E : Corroborates(e)}) >= 3 THEN "high" ELSE "medium"

NoScore == [score |-> -1, risk |-> "unknown", level |-> "low", count |-> 0]

Assess(E) ==
  IF E = {} THEN NoScore
  ELSE [score |-> Score(E), risk |-> Risk(E),
        level |-> ConfidenceLevel(Confidence(E)), count |-> Cardinality(E)]

\* The badge beside a merchant's name, from the score on record.
VerificationStatus(curated, assessment) ==
  CASE curated -> "verified"
    [] ~curated /\ (assessment.score = -1 \/ assessment.level = "low") -> "unverified"
    [] ~curated /\ assessment.score # -1 /\ assessment.level # "low" ->
         IF assessment.risk = "high" THEN "flagged" ELSE "verified"
=============================================================================
