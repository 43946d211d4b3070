----------------------------- MODULE MCScoring -----------------------------
(***************************************************************************)
(* score_posting for the model checker: every completion of at most        *)
(* MaxTokens tokens and every way the call can fail.                       *)
(***************************************************************************)
EXTENDS Client, TLC

CONSTANT MaxTokens      \* bound: length of the completions enumerated

Object(fields, score, band, fault) ==
    [fields |-> fields, score |-> score, score_band |-> band, fault |-> fault]

objects ==
    [ good     |-> Object(Fields, 2, "high", "none"),
      edge     |-> Object(Fields, 0, "low",  "none"),
      over     |-> Object(Fields, 3, "high", "none"),
      under    |-> Object(Fields, -1, "low", "none"),
      badBand  |-> Object(Fields, 1, "great", "none"),
      partial  |-> Object({"score"}, 1, "mid", "none"),
      digits   |-> Object(Fields, 1, "mid", "ValueError"),
      nested   |-> Object(Fields, 1, "mid", "RecursionError"),
      broken   |-> Object(Fields, 1, "mid", "JSONDecodeError") ]

opens ==
    [ open |-> [fault |-> "JSONDecodeError"],
      long |-> [fault |-> "ValueError"],
      deep |-> [fault |-> "RecursionError"] ]

MCBody    == objects @@ opens
MCObjects == DOMAIN objects
MCOpens   == DOMAIN opens
MCTokens  == {"}", "prose"} \cup MCOpens \cup MCObjects
MCReplies == [fault : {"none"}, text : BoundedSeq(MCTokens, MaxTokens)]
               \cup [fault : Faults, text : {<<>>}]
=============================================================================
