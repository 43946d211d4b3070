------------------------------- MODULE Reads -------------------------------
(***************************************************************************)
(* Clients that read while rescore_posting calls and the seed script       *)
(* write: the tool query_postings, the rows of the digest, and the         *)
(* resources scores/history and stats/summary.  Each SELECT sees one       *)
(* snapshot; get_stats_summary runs five of them, with commits in between. *)
(* A reader that is cut off is one that takes no further step.             *)
(***************************************************************************)
EXTENDS Rescore, Queries

CONSTANTS
    Readers,        \* invocations of the reading tools and resources
    Requests,       \* what they may ask
    NoRequest,      \* nothing asked yet
    MaxTags         \* bound: mismatches in the other database

(* No caller of the history gives an offset.                               *)
ASSUME RequestsAssumption ==
    /\ NoRequest \notin Requests
    /\ MaxTags \in Nat
    /\ \A q \in Requests : \/ q = StatsSummary
                          \/ q.kind = "postings"
                          \/ q = ScoresHistory(q.limit)

(* A table has finitely many rows to count.                                *)
ASSUME PostingsAssumption == IsFiniteSet(Ids)

VARIABLES
    reader,     \* where each reader stands
    ask,        \* its request
    answer,     \* the row ids it was given
    stats,      \* the statistics it has gathered
    prior,      \* the calls that were over when each call started
    before      \* the calls that had returned when each reader asked

readVars == <<reader, ask, answer, stats, before>>
allVars  == <<vars, readVars, prior>>

NoStats == [postings_total |-> 0, scores_total |-> 0, averaged |-> 0,
            by_band |-> <<>>, tagged |-> 0]

ReadsInit ==
    /\ Init
    /\ reader = [r \in Readers |-> "idle"]
    /\ ask    = [r \in Readers |-> NoRequest]
    /\ answer = [r \in Readers |-> <<>>]
    /\ stats  = [r \in Readers |-> NoStats]
    /\ prior  = [c \in Calls |-> {}]
    /\ before = [r \in Readers |-> {}]

-----------------------------------------------------------------------------
ReaderTo(r, step) == reader' = [reader EXCEPT ![r] = step]
Gather(r, counts) == stats'  = [stats EXCEPT ![r] = counts]

(* The arguments are checked before the first await.                       *)
Ask(r) ==
    /\ reader[r] = "idle"
    /\ \E q \in Requests :
         /\ ask' = [ask EXCEPT ![r] = q]
         /\ ReaderTo(r, IF Valid(q) THEN "asked" ELSE "ValueError")
    /\ before' = [before EXCEPT ![r] = {c \in Calls : outcome[c] = "returned"}]
    /\ UNCHANGED <<vars, answer, stats, prior>>

(* query_postings_filtered and get_scores_history: one SELECT.             *)
Fetch(r) ==
    /\ reader[r] = "asked"
    /\ ask[r] # StatsSummary
    /\ \E rows \in Answers(postings, scores, ask[r]) :
         answer' = [answer EXCEPT ![r] = rows]
    /\ ReaderTo(r, "answered")
    /\ UNCHANGED <<vars, ask, stats, before, prior>>

(* get_stats_summary, SELECT by SELECT.  Of the average only its number of *)
(* rows is kept: it is None when there are none.                           *)
CountPostings(r) ==
    /\ reader[r] = "asked"
    /\ ask[r] = StatsSummary
    /\ Gather(r, [stats[r] EXCEPT !.postings_total = Cardinality(postings)])
    /\ ReaderTo(r, "postings counted")
    /\ UNCHANGED <<vars, ask, answer, before, prior>>

CountScores(r) ==
    /\ reader[r] = "postings counted"
    /\ Gather(r, [stats[r] EXCEPT !.scores_total = Len(scores)])
    /\ ReaderTo(r, "scores counted")
    /\ UNCHANGED <<vars, ask, answer, before, prior>>

AverageScores(r) ==
    /\ reader[r] = "scores counted"
    /\ Gather(r, [stats[r] EXCEPT !.averaged = Len(scores)])
    /\ ReaderTo(r, "averaged")
    /\ UNCHANGED <<vars, ask, answer, before, prior>>

CountBands(r) ==
    /\ reader[r] = "averaged"
    /\ Gather(r, [stats[r] EXCEPT !.by_band = BandCounts(scores)])
    /\ ReaderTo(r, "bands counted")
    /\ UNCHANGED <<vars, ask, answer, before, prior>>

(* The last SELECT runs on the other database, where no other variable    *)
(* here has a say.                                                         *)
CountTags(r) ==
    /\ reader[r] = "bands counted"
    /\ \E n \in 0..MaxTags : Gather(r, [stats[r] EXCEPT !.tagged = n])
    /\ ReaderTo(r, "answered")
    /\ UNCHANGED <<vars, ask, answer, before, prior>>

(* A step of the writers; a call that starts remembers which are over.     *)
Write ==
    /\ Next
    /\ prior' = [c \in Calls |-> IF pc[c] = "idle" /\ pc'[c] # "idle"
                                 THEN {d \in Calls : pc[d] = "done"}
                                 ELSE prior[c]]
    /\ UNCHANGED readVars

ReadsNext == \/ Write
             \/ \E r \in Readers : \/ Ask(r)
                                   \/ Fetch(r)
                                   \/ CountPostings(r)
                                   \/ CountScores(r)
                                   \/ AverageScores(r)
                                   \/ CountBands(r)
                                   \/ CountTags(r)

ReadsSpec == ReadsInit /\ [][ReadsNext]_allVars

-----------------------------------------------------------------------------
(* GROUP BY answers no row for a band without scores.                      *)
Statistics(s) == /\ DOMAIN s = DOMAIN NoStats
                 /\ {s.postings_total, s.scores_total, s.averaged, s.tagged} \subseteq Nat
                 /\ DOMAIN s.by_band \subseteq Bands
                 /\ \A b \in DOMAIN s.by_band : s.by_band[b] \in Nat

InBand(table, b) == IF b \in DOMAIN table THEN table[b] ELSE 0
BandTotal(table) == InBand(table, "high") + InBand(table, "mid") + InBand(table, "low")

Counting == {"postings counted", "scores counted", "averaged", "bands counted"}

Answered(kind) == {r \in Readers : reader[r] = "answered" /\ ask[r].kind = kind}

ReadsTypeOK ==
    /\ reader \in [Readers -> {"idle", "asked", "ValueError", "answered"} \cup Counting]
    /\ ask    \in [Readers -> Requests \cup {NoRequest}]
    /\ answer \in [Readers -> Seq(DOMAIN scores)]
    /\ DOMAIN stats = Readers /\ \A r \in Readers : Statistics(stats[r])
    /\ \A r \in Readers : reader[r] = "answered" /\ ask[r] # StatsSummary
                            => Len(answer[r]) <= ask[r].limit
    /\ before \in [Readers -> SUBSET Calls]
    /\ prior  \in [Calls -> SUBSET Calls]

(* What a reader was told is of calls that are over.                       *)
Asked ==
    \A r \in Readers :
        /\ reader[r] \notin {"idle", "ValueError"} => ask[r] \in Requests /\ Valid(ask[r])
        /\ reader[r] \in Counting => ask[r] = StatsSummary
        /\ \A c \in before[r] : outcome[c] = "returned"

(* A row is stamped by the clock between the start and the end of its      *)
(* call, so a call that was over when another started has no later stamp.  *)
Chronology ==
    \A c \in Calls :
        /\ outcome[c] # "none" => pc[c] = "done"
        /\ draft[c] # NoRow => /\ draft[c].posting_id = target[c]
                               /\ draft[c].scored_at <= clock
        /\ \A d \in prior[c] :
             /\ pc[d] = "done"
             /\ draft[c] # NoRow /\ draft[d] # NoRow
                  => draft[d].scored_at <= draft[c].scored_at

Past(r, steps) == reader[r] \in steps \/ r \in Answered("stats")

(* The statistics gathered so far cover what had been returned, each later *)
(* one no less than an earlier one, and none more than is stored by now.   *)
GatheredBy(r) ==
    /\ Past(r, {"scores counted", "averaged", "bands counted"})
         => Cardinality(before[r]) <= stats[r].scores_total
    /\ reader[r] = "scores counted" => stats[r].scores_total <= Len(scores)
    /\ Past(r, {"averaged", "bands counted"}) => stats[r].scores_total <= stats[r].averaged
    /\ reader[r] = "averaged" => stats[r].averaged <= Len(scores)
    /\ Past(r, {"bands counted"}) => stats[r].averaged <= BandTotal(stats[r].by_band)

Gathered == \A r \in Readers : GatheredBy(r)

Timeline == Asked /\ Chronology /\ Gathered

ReadsInv == /\ IInv
            /\ ReadsTypeOK
            /\ Timeline

(* Row a is by a call that was over before the one of row b started, and b *)
(* was returned before reader r asked: r must take b to be the newer, and  *)
(* only has the stamps, taken before the wait for the lock, to tell by.    *)
(* Where the stamps differ, that is: see OneLatestRow.                     *)
Supersedes(b, a, r) == /\ scores[b].call \in before[r]
                       /\ scores[a].call \in prior[scores[b].call]
                       /\ scores[a].scored_at # scores[b].scored_at

(* A posting is never listed with a score that a later call had already    *)
(* replaced when the query was made, filtered or not, although rows are    *)
(* committed in another order than they are stamped.                       *)
ListsNoSupersededScore ==
    \A r \in Answered("postings") : \A a \in ToSet(answer[r]) : \A b \in DOMAIN scores :
        scores[b].posting_id = scores[a].posting_id => ~Supersedes(b, a, r)

(* A posting is not lost from the list: one that a call has returned a     *)
(* score for is there, if it passes the filters, no score of it is below   *)
(* the threshold and the page is not full -- also while the seed script    *)
(* takes postings away.                                                    *)
ListsEveryScoredPosting ==
    \A r \in Answered("postings") : \A c \in before[r] :
        LET q == ask[r]
            p == target[c]
        IN  /\ Len(answer[r]) < q.limit
            /\ q.role_anchor \in {Unset, Info[p].role_anchor}
            /\ q.date_after = Unset \/ Info[p].posted_date >= q.date_after
            /\ \A i \in DOMAIN scores : scores[i].posting_id = p
                                          => scores[i].score >= q.min_score
            => \E a \in ToSet(answer[r]) : scores[a].posting_id = p

(* queries.py:229, "newest first": no row comes after one it supersedes,   *)
(* and none is cut off while one it supersedes is shown.                   *)
HistoryNewestFirst ==
    \A r \in Answered("history") : \A k \in DOMAIN answer[r] : \A b \in DOMAIN scores :
        Supersedes(b, answer[r][k], r) => \E j \in 1..(k - 1) : answer[r][j] = b

(* The statistics may be torn, but in one direction only: each count       *)
(* covers every score that had been returned before, and no later one of   *)
(* them covers less, so that scores_avg is not None beside a positive      *)
(* scores_total and the bands add up to no less than the total.            *)
StatsOnlyGrow ==
    \A r \in Answered("stats") :
        LET s == stats[r]
        IN  /\ Cardinality(before[r]) <= s.scores_total
            /\ s.scores_total <= s.averaged
            /\ s.averaged <= BandTotal(s.by_band)

(* How far that query goes wrong: a posting is listed twice only with      *)
(* different rows, and only when their stamps tie.                         *)
TwiceOnlyInATie ==
    \A r \in Answered("postings") : \A j, k \in DOMAIN answer[r] :
        LET a == answer[r][j]
            b == answer[r][k]
        IN  j # k => /\ a # b
                     /\ scores[a].posting_id = scores[b].posting_id
                          => scores[a].scored_at = scores[b].scored_at

(* queries.py:97, "A posting joined with its latest score": with one.      *)
OneLatestRow ==
    \A r \in Answered("postings") : \A a, b \in ToSet(answer[r]) :
        scores[a].posting_id = scores[b].posting_id => a = b
=============================================================================
