----------------------------- MODULE MCRescore -----------------------------
(***************************************************************************)
(* Instances of Rescore for the model checker.                             *)
(***************************************************************************)
EXTENDS RescoreHistory, TLC

CONSTANTS v1, v2, blank, plain, synth1, other1, stranger

(* One completion of each kind: two that are scored, one refused by the    *)
(* schema and one the decoder fails on.                                    *)
MCBody ==
    [ good    |-> [fields |-> Fields, score |-> 1,  score_band |-> "high",  fault |-> "none"],
      poor    |-> [fields |-> Fields, score |-> 0,  score_band |-> "low",   fault |-> "none"],
      badBand |-> [fields |-> Fields, score |-> 1,  score_band |-> "great", fault |-> "none"],
      digits  |-> [fields |-> Fields, score |-> 1,  score_band |-> "mid",   fault |-> "ValueError"] ]
MCObjects == DOMAIN MCBody

MCReplies == [fault : {"none"}, text : {<<o>> : o \in MCObjects}]
               \cup {[fault |-> "CallFailed", text |-> <<>>]}

(* One of them of each way a call can go on.                               *)
MCFewReplies == [fault : {"none"}, text : {<<"good">>, <<"badBand">>}]

(* Two stamped texts, told apart by their first non-empty line only.       *)
MCRubricTexts == {<<blank, v1, plain>>, <<blank, v2, plain>>}
MCStamps      == {v1, v2}
MCSynth       == {synth1}
MCOthers      == {other1}
MCStrangers   == {stranger}

(* Bound: one call is for a synthetic posting, the other for either kind.  *)
(* The calls are alike, and target never changes: what is not explored is  *)
(* two calls for postings that no script touches.                          *)
OneSynthetic == target[CHOOSE c \in Calls : TRUE] \in Synth
=============================================================================
