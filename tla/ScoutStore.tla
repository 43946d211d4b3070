----------------------------- MODULE ScoutStore -----------------------------
(***************************************************************************)
(* What scout.db promises to everyone who reads it, with no connections,   *)
(* locks or calls: postings come from the dataset, the synthetic ones all  *)
(* together or not at all, and scores are only ever appended, one per      *)
(* call, each of a posting that is there.                                  *)
(***************************************************************************)
EXTENDS Sequences, Naturals

CONSTANTS
    Rows,       \* the score rows a reader accepts
    Synth,      \* ids of the synthetic postings
    Others      \* ids of the postings the seed script never touches

VARIABLES
    postings,   \* ids of the rows of the postings table
    scores      \* the rows of the scores table, in the order of their ids

vars == <<postings, scores>>

Init == /\ postings \in {Others, Others \cup Synth}
        /\ scores = <<>>

AddScore(row) ==
    /\ row.posting_id \in postings
    /\ \A i \in DOMAIN scores : scores[i].call # row.call
    /\ scores' = Append(scores, row)
    /\ UNCHANGED postings

RemoveSynth ==
    /\ \A i \in DOMAIN scores : scores[i].posting_id \notin Synth
    /\ postings' = postings \ Synth
    /\ UNCHANGED scores

LoadSynth ==
    /\ postings' = postings \cup Synth
    /\ UNCHANGED scores

Next == \/ RemoveSynth
        \/ LoadSynth
        \/ \E row \in Rows : AddScore(row)

Spec == Init /\ [][Next]_vars
=============================================================================
