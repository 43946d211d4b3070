------------------------------ MODULE Scoring ------------------------------
(***************************************************************************)
(* The scoring client (scoring/client.py): from the reply the LLM call     *)
(* yields to a ScoreResult or to the exception the caller sees.  Pure      *)
(* operators, no state: Rescore composes them with the store.              *)
(*                                                                         *)
(* A completion is a sequence of tokens: a member of Objects is a text     *)
(* from a brace to the brace that closes it, a member of Opens is a brace  *)
(* that nothing after it closes, "}" is a brace that closes nothing, and   *)
(* every other token holds no brace.                                       *)
(***************************************************************************)
EXTENDS Integers, SequencesExt

CONSTANTS
    Objects,    \* the object texts a completion may hold
    Opens,      \* the opening braces without an end
    Body,       \* what json.loads and pydantic make of what begins there
    MaxScore    \* the upper bound of a score, 100 in the code

ASSUME MaxScoreAssumption == MaxScore \in Nat

Bands        == {"high", "mid", "low"}
Exceptions   == {"CallFailed", "NotStr", "AttributeError", "IndexError", "KeyError",
                 "TypeError", "JSONDecodeError", "ValueError", "RecursionError",
                 "ValidationError", "ScoringError"}
DecodeFaults == {"JSONDecodeError", "ValueError", "RecursionError"}
Fields       == {"score", "score_band", "rationale"}

(* An object's `fault' is what json.loads raises on it ("none" if it       *)
(* decodes); `fields' are the keys whose value pydantic can coerce to the  *)
(* declared type.  An opening that no brace closes never decodes: its      *)
(* `fault' is where the decoder gives up in what follows it, at the end of *)
(* the slice or before that, at a number too long or a nesting too deep.   *)
ASSUME BodyAssumption ==
    /\ \A o \in Objects : /\ Body[o].fields \subseteq Fields
                          /\ Body[o].fault \in DecodeFaults \cup {"none"}
                          /\ Body[o].score \in Int
    /\ \A o \in Opens : Body[o].fault \in DecodeFaults

ASSUME ObjectsAssumption == /\ Objects \cap Opens = {}
                            /\ "}" \notin Objects \cup Opens

-----------------------------------------------------------------------------
(* text.find("{") .. text.rfind("}"): the slice of the completion that is  *)
(* parsed, empty when the function raises.                                 *)
Opening(t) == t \in Opens \cup Objects
Closing(t) == t \in {"}"} \cup Objects

(* Mutant: text.rfind("{"), the slice begins at the last object.           *)
LastOpen(text) == SelectLastInSeq(text, Opening)

FirstOpen(text) == SelectInSeq(text, Opening)
LastClose(text) == SelectLastInSeq(text, Closing)

(* Mutant: the slice runs to the end of the completion.                    *)
ExtractToEnd(text) ==
    IF FirstOpen(text) = 0 THEN <<>> ELSE SubSeq(text, FirstOpen(text), Len(text))

ExtractJsonBlock(text) ==
    IF FirstOpen(text) = 0 \/ LastClose(text) = 0
    THEN <<>>
    ELSE SubSeq(text, FirstOpen(text), LastClose(text))

-----------------------------------------------------------------------------
(* The three try blocks turn the exceptions they name into ScoringError    *)
(* and let every other one through.                                        *)
CallCaught   == {"CallFailed"}                        \* except Exception
ShapeCaught  == {"AttributeError", "IndexError", "KeyError", "NotStr"}
ParseCaught  == {"JSONDecodeError"}
SchemaCaught == {"KeyError", "ValidationError"}

Collapse(raised, caught) == IF raised \in caught THEN "ScoringError" ELSE raised

(* json.loads decodes the value the slice begins with before it looks at  *)
(* what stands behind it ("Extra data"): a first value that does not       *)
(* decode raises its own fault, whatever follows.                          *)
LoadsFault(block) ==
    CASE Body[block[1]].fault # "none"                      -> Body[block[1]].fault
      [] Body[block[1]].fault = "none" /\ Len(block) > 1    -> "JSONDecodeError"
      [] OTHER                                              -> "none"

(* Mutant: score_band declared as a plain str.                             *)
SchemaFaultAnyBand(body) ==
    CASE body.fields # Fields -> "KeyError"
      [] body.fields = Fields /\ body.score \notin 0..MaxScore -> "ValidationError"
      [] OTHER -> "none"

(* ScoreResult(...) on the decoded object.                                 *)
SchemaFault(body) ==
    CASE body.fields # Fields                                -> "KeyError"
      [] body.fields = Fields
           /\ ~(body.score \in 0..MaxScore /\ body.score_band \in Bands)
                                                             -> "ValidationError"
      [] OTHER                                               -> "none"

(* score_posting after the await: what it raises on a completion's text.   *)
TextFault(text) ==
    LET block == ExtractJsonBlock(text)
    IN  CASE block = <<>>
               -> "ScoringError"
          [] block # <<>> /\ LoadsFault(block) # "none"
               -> Collapse(LoadsFault(block), ParseCaught)
          [] OTHER
               -> Collapse(SchemaFault(Body[block[1]]), SchemaCaught)

(* reply.fault is what the LLM call or the reading of                      *)
(* choices[0].message.content raises, "none" when reply.text is a string.  *)
Raised(reply) == IF reply.fault # "none"
                 THEN Collapse(reply.fault, CallCaught \cup ShapeCaught)
                 ELSE TextFault(reply.text)

(* score_posting as a whole, from the reply on.                            *)
ScorePosting(reply) ==
    IF Raised(reply) # "none"
    THEN [outcome |-> Raised(reply), score |-> 0, score_band |-> "none"]
    ELSE LET body == Body[ExtractJsonBlock(reply.text)[1]]
         IN  [outcome |-> "returned", score |-> body.score, score_band |-> body.score_band]
=============================================================================
