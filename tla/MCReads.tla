------------------------------ MODULE MCReads ------------------------------
(***************************************************************************)
(* Instances of Reads for the model checker: two postings that differ in   *)
(* every column, one request of each kind and of each filter, and a limit  *)
(* out of range.                                                           *)
(***************************************************************************)
EXTENDS Reads, TLC

CONSTANTS v1, blank, plain, synth1, other1

MCBody ==
    [ good |-> [fields |-> Fields, score |-> 1, score_band |-> "high", fault |-> "none"],
      poor |-> [fields |-> Fields, score |-> 0, score_band |-> "low",  fault |-> "none"] ]
MCObjects     == DOMAIN MCBody
MCReplies     == {[fault |-> "none", text |-> <<o>>] : o \in MCObjects}
MCRubricTexts == {<<blank, v1, plain>>}
MCStamps      == {v1}
MCSynth       == {synth1}
MCOthers      == {other1}

MCInfo == [p \in Ids |-> IF p = other1
                         THEN [title |-> 1, company |-> 2, posted_date |-> 1,
                               role_anchor |-> "platform"]
                         ELSE [title |-> 2, company |-> 1, posted_date |-> 2,
                               role_anchor |-> "ai"]]

MCRequests == {QueryPostings(1, Unset, Unset, 2), QueryPostings(0, "ai", 2, 2),
               TopPostingsForDigest(1), ScoresHistory(1), AnalyzeDigestTrends(2),
               ScoresHistory(3), StatsSummary}

(* Once the last reader has its answer, what it should have been is fixed; *)
(* and a missing rubric only keeps calls from writing, which `rescore'     *)
(* looks at.  The states after either are not explored.                    *)
Explored == /\ rubric # NoFile
            /\ \E r \in Readers : reader[r] \notin {"answered", "ValueError"}

Symmetric == Permutations(Calls)
=============================================================================
