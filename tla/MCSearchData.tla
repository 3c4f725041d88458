---------------------------- MODULE MCSearchData ----------------------------
(***************************************************************************)
(* Instances of SearchData for TLC: one query, on an installation of one   *)
(* process with both vendors and on one of two processes with SerpApi only.*)
(***************************************************************************)
EXTENDS SearchData, TLC

CONSTANTS w1, w2, t1, t2, q1, serpapi, serper

BothSites == {[workers |-> {w}, vendors |-> <<serpapi, serper>>] : w \in Worker}
             \cup {[workers |-> Worker, vendors |-> <<serpapi>>]}

Symmetry == Permutations(Tx) \cup Permutations(Worker)
=============================================================================
