------------------------------ MODULE Queries ------------------------------
(***************************************************************************)
(* What the SELECTs of storage/queries.py answer over one snapshot of the  *)
(* postings and scores tables.  Pure operators; Reads composes them with   *)
(* the calls that write.  SQL leaves the order of rows with equal keys     *)
(* open, so a query has a set of answers; an answer is a sequence of row   *)
(* ids, the positions of the rows in scores.                               *)
(***************************************************************************)
EXTENDS Scoring, Paging

CONSTANTS
    Info,       \* the columns of each posting, which no code updates
    Unset,        \* a filter that is None
    MaxLimit    \* the largest limit accepted, 1000 in the code

ASSUME LimitAssumption == MaxLimit \in Nat \ {0}

SortColumns    == {"posted_date", "title", "company", "score"}
SortDirections == {"ASC", "DESC"}

-----------------------------------------------------------------------------
(* The requests the tools, the resources and the digest make.              *)
QueryPostings(min_score, role_anchor, date_after, limit) ==
    [kind |-> "postings", min_score |-> min_score, role_anchor |-> role_anchor,
     date_after |-> date_after, limit |-> limit,
     column |-> "posted_date", direction |-> "DESC"]

TopPostingsForDigest(limit) ==
    [QueryPostings(0, Unset, Unset, limit) EXCEPT !.column = "score"]

ScoresHistory(limit) == [kind |-> "history", limit |-> limit, offset |-> 0]

(* The prompt that quotes the history has no other source.                 *)
AnalyzeDigestTrends(limit) == ScoresHistory(limit)

StatsSummary == [kind |-> "stats"]

ValidatedSort(q) == q.column \in SortColumns /\ q.direction \in SortDirections

(* What does not raise ValueError before the connection is opened.         *)
Valid(q) ==
    /\ q.kind \in {"postings", "history"} => q.limit \in 1..MaxLimit
    /\ q.kind = "postings" => q.min_score \in 0..MaxScore /\ ValidatedSort(q)
    /\ q.kind = "history"  => q.offset >= 0

-----------------------------------------------------------------------------
(* s.scored_at = (SELECT MAX(scored_at) ... WHERE posting_id = p.id): every *)
(* row of the posting with the greatest stamp.                             *)
LatestRows(scores, p) ==
    {i \in DOMAIN scores :
        /\ scores[i].posting_id = p
        /\ \A j \in DOMAIN scores :
             scores[j].posting_id = p => scores[j].scored_at <= scores[i].scored_at}

(* Mutant: the threshold is part of the subquery, so that an older score   *)
(* above it stands in for a newer one below.                               *)
MatchingInSubquery(postings, scores, q) ==
    LET kept == {i \in DOMAIN scores : scores[i].score >= q.min_score}
    IN  {i \in kept :
            LET p == scores[i].posting_id
            IN  /\ p \in postings
                /\ \A j \in kept : scores[j].posting_id = p
                                     => scores[j].scored_at <= scores[i].scored_at
                /\ q.role_anchor # Unset => Info[p].role_anchor = q.role_anchor
                /\ q.date_after  # Unset => Info[p].posted_date >= q.date_after}

(* Mutant: the bound on the score is exclusive.                            *)
MatchingAbove(postings, scores, q) ==
    {i \in DOMAIN scores :
        LET p == scores[i].posting_id
        IN  /\ p \in postings
            /\ i \in LatestRows(scores, p)
            /\ scores[i].score > q.min_score
            /\ q.role_anchor # Unset => Info[p].role_anchor = q.role_anchor
            /\ q.date_after  # Unset => Info[p].posted_date >= q.date_after}

(* The rows of the JOIN that pass the WHERE clause.                        *)
Matching(postings, scores, q) ==
    {i \in DOMAIN scores :
        LET p == scores[i].posting_id
        IN  /\ p \in postings
            /\ i \in LatestRows(scores, p)
            /\ scores[i].score >= q.min_score
            /\ q.role_anchor # Unset => Info[p].role_anchor = q.role_anchor
            /\ q.date_after  # Unset => Info[p].posted_date >= q.date_after}

PostingsAnswers(postings, scores, q) ==
    LET ids == Matching(postings, scores, q)
        key == [i \in ids |-> IF q.column = "score" THEN scores[i].score
                              ELSE Info[scores[i].posting_id][q.column]]
    IN  Pages(ids, key, q.direction, q.limit, 0)

(* Mutant: ordered by the score, as the digest is.                         *)
HistoryByScore(scores, q) ==
    Pages(DOMAIN scores, [i \in DOMAIN scores |-> scores[i].score],
          "DESC", q.limit, q.offset)

HistoryAnswers(scores, q) ==
    Pages(DOMAIN scores, [i \in DOMAIN scores |-> scores[i].scored_at],
          "DESC", q.limit, q.offset)

Answers(postings, scores, q) ==
    IF q.kind = "postings" THEN PostingsAnswers(postings, scores, q)
                           ELSE HistoryAnswers(scores, q)

-----------------------------------------------------------------------------
(* Mutant: only the rows that are still some posting's latest are counted. *)
LatestBandCounts(scores) ==
    LET latest == {i \in DOMAIN scores : i \in LatestRows(scores, scores[i].posting_id)}
    IN  [b \in {scores[i].score_band : i \in latest} |->
            Cardinality({i \in latest : scores[i].score_band = b})]

(* SELECT score_band, COUNT(...) GROUP BY score_band.                      *)
BandCounts(scores) ==
    [b \in {scores[i].score_band : i \in DOMAIN scores} |->
        Cardinality({i \in DOMAIN scores : scores[i].score_band = b})]
=============================================================================
