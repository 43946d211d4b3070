------------------------------- MODULE Client -------------------------------
(***************************************************************************)
(* One call of score_posting, and what the module promises of it           *)
(* (scoring/client.py:1-30).  The promises read a completion in their own  *)
(* way: by its objects and what stands around them, not by first and last  *)
(* braces.                                                                 *)
(***************************************************************************)
EXTENDS Scoring

CONSTANTS
    Tokens,     \* what a completion is made of
    Replies     \* what the LLM call may yield

(* The call fails, or choices[0].message.content cannot be read, or a text *)
(* is there.                                                               *)
Faults == CallCaught \cup ShapeCaught \cup {"TypeError"}

ASSUME TokensAssumption == Objects \cup Opens \cup {"}"} \subseteq Tokens
ASSUME ReplyAssumption  ==
    Replies \subseteq [fault : Faults \cup {"none"}, text : Seq(Tokens)]

VARIABLES reply, result
vars == <<reply, result>>

Pending == [outcome |-> "pending", score |-> 0, score_band |-> "none"]

Init == reply \in Replies /\ result = Pending

Score == /\ result = Pending
         /\ result' = ScorePosting(reply)
         /\ UNCHANGED reply

Next == Score
Spec == Init /\ [][Next]_vars

-----------------------------------------------------------------------------
(* The reference reading of a completion: what it opens with, where its    *)
(* objects are, and whether the rest of it is mere framing: no brace opens *)
(* before the object and none closes after it.                             *)
Leads(text, i) == /\ i \in DOMAIN text /\ text[i] \in Opens \cup Objects
                  /\ \A j \in DOMAIN text : j < i => text[j] \notin Opens \cup Objects

Candidates(text) == {i \in DOMAIN text : text[i] \in Objects}

Framed(text, i) == /\ Candidates(text) = {i}
                   /\ \A j \in DOMAIN text : /\ j < i => text[j] \notin Opens
                                             /\ j > i => text[j] # "}"

Acceptable(o) == /\ o \in Objects
                 /\ Body[o].fault = "none"
                 /\ Body[o].fields = Fields
                 /\ Body[o].score \in 0..MaxScore
                 /\ Body[o].score_band \in Bands

(* The "real correctness gate" of client.py:17-18: a score that is         *)
(* returned is the first object's of the completion (client.py:76-81),     *)
(* with no brace opened before it, and that object passes the schema.      *)
(* Nothing is scored from a fragment, from a later object when the first   *)
(* is not acceptable, or out of range.                                     *)
ScoresOnlyTheFirstObject ==
    result.outcome = "returned" =>
        /\ reply.fault = "none"
        /\ \E i \in DOMAIN reply.text :
              /\ Leads(reply.text, i)
              /\ Acceptable(reply.text[i])
              /\ result.score = Body[reply.text[i]].score
              /\ result.score_band = Body[reply.text[i]].score_band

(* A call fails for a reason.  Framing never costs a score: an acceptable  *)
(* object in any amount of preamble, fences and epilogue is scored         *)
(* (client.py:14-16), unless another brace stands in them.  And what       *)
(* escapes the promise of ScoringError (client.py:28) is a response        *)
(* without choices, or a completion whose first brace begins what is       *)
(* beyond the limits of the decoder, whatever follows it; nothing else.    *)
FailsForCause ==
    /\ result.outcome \notin {"pending", "returned"} /\ reply.fault = "none" =>
         \A i \in DOMAIN reply.text : Framed(reply.text, i) => ~Acceptable(reply.text[i])
    /\ result.outcome \notin {"pending", "returned", "ScoringError"} =>
         \/ reply.fault = "TypeError" /\ result.outcome = "TypeError"
         \/ /\ reply.fault = "none"
            /\ result.outcome \in {"ValueError", "RecursionError"}
            /\ \E i \in DOMAIN reply.text :
                  Leads(reply.text, i) /\ result.outcome = Body[reply.text[i]].fault

(* client.py:16-17, "We isolate the first {...} block before parsing": a   *)
(* completion whose first object is acceptable is scored by it.            *)
FirstObjectIsIsolated ==
    result.outcome # "pending" /\ reply.fault = "none" =>
        \A i \in DOMAIN reply.text :
            Leads(reply.text, i) /\ Acceptable(reply.text[i]) => result.outcome = "returned"

(* client.py:28, "All failures collapse to ScoringError": a call either    *)
(* returns or raises that one exception.                                   *)
AllFailuresCollapse == result.outcome \in {"pending", "returned", "ScoringError"}
=============================================================================
