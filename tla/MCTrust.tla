------------------------------ MODULE MCTrust ------------------------------
(* Instances of Trust: a curated retailer and one nobody knows. *)
EXTENDS Trust, TLC

\* What a search for complaints about the unknown retailer finds on a review
\* site: a complaint, a friendly page, and one that says nothing either way.
Page(url, topic, neg, pos) ==
  [url |-> url, topic |-> topic, neg |-> neg, pos |-> pos, site |-> 650,
   leading |-> TRUE, own |-> FALSE]
Complaint == Page("c1", "returns", 1600, 0)
Praise == Page("c2", "delivery", 0, 1000)
Mention == Page("c3", "general", 0, 0)

MCPolicies == ("known" :> {"publishes_return_policy", "established_year_in_india"}) @@ ("new" :> {})
MCPages == ("known" :> {}) @@ ("new" :> {Complaint, Praise, Mention})
MCAbout == ("p1" :> [retailer |-> "new", topic |-> "authenticity", rating |-> 1,
                      verified |-> FALSE])

\* An AI provider may read a page as a serious complaint.
MCReadings == {[topic |-> "fraud", sentiment |-> -900, severity |-> 900]}

\* Four questions share the run: assessments that overlap each other; one that
\* overlaps moderation and flags; moderation and flags that overlap each other;
\* and assessments of which an AI provider reads the first.
VARIABLE part

MCInit ==
  /\ Init
  /\ part \in {"assess", "mixed", "community", "read"}

\* No page in hand has been read.
AsFound ==
  \A t \in Tx : Assessing(t) =>
    \A r \in Retailer : \A page \in Pages[r] : \A e \in tx[t].got :
      e.id = <<r, page.url>> => e = AnalyzeItem(r, page)

MCNext ==
  /\ UNCHANGED part
  /\ \/ part = "assess" /\ \E t \in Tx : Assessment(t)
     \/ part = "mixed" /\ (Assessment("t1") \/ Community("t2"))
     \/ part = "community" /\ \E t \in Tx : Community(t)
     \/ part = "read" /\ (Assessment("t1") \/ Community("t1"))
     \/ part # "assess" /\ \E p \in Report : Create(p)
  /\ \/ part = "read" /\ evidence = {}
     \/ AsFound'

MCSpec == MCInit /\ [][MCNext]_<<vars, part>> /\ Fairness
=============================================================================
