--------------------------- MODULE ScoringProofs ---------------------------
(***************************************************************************)
(* What score_posting guarantees to its caller, for every reply.           *)
(***************************************************************************)
EXTENDS Scoring, SequenceTheorems, WellFoundedInduction, TLAPS

-----------------------------------------------------------------------------
(* Slicing                                                                 *)

(* Index sets have a least and a greatest member.                          *)
LEMMA MinIsLeast ==
    ASSUME NEW I, I \subseteq Nat, I # {}
    PROVE  Min(I) \in I /\ \A i \in I : Min(I) <= i
  <1>1. PICK x \in I : \A y \in I : ~ (<<y, x>> \in OpToRel(<, Nat))
    BY NatLessThanWellFounded, WFMin
  <1>2. \A y \in I : ~ (y < x)
    BY <1>1 DEF OpToRel
  <1>2a. \A y \in I : x <= y
    BY <1>2
  <1>3. QED
    BY <1>2a DEF Min

LEMMA MaxIsGreatest ==
    ASSUME NEW n \in Nat, NEW I, I \subseteq 0..n, I # {}
    PROVE  Max(I) \in I /\ \A i \in I : Max(I) >= i
  <1> DEFINE D == {n - i : i \in I}
  <1>1. D \subseteq Nat /\ D # {}
    <2>1. \A i \in I : i \in Int /\ i <= n
      OBVIOUS
    <2>2. D # {}
      OBVIOUS
    <2>3. QED
      BY <2>1, <2>2
  <1> HIDE DEF D
  <1>2. Min(D) \in D /\ \A d \in D : Min(D) <= d
    BY <1>1, MinIsLeast
  <1>3. PICK x \in I : Min(D) = n - x
    BY <1>2 DEF D
  <1>4. \A y \in I : x >= y
    <2> SUFFICES ASSUME NEW y \in I PROVE x >= y
      OBVIOUS
    <2>1. n - x <= n - y
      BY <1>2, <1>3 DEF D
    <2>2. QED
      BY <2>1
  <1>5. QED
    BY <1>4 DEF Max

(* What SelectInSeq and SelectLastInSeq return: 0 for no index, or the     *)
(* first or the last one.                                                  *)
LEMMA FirstIndex ==
    ASSUME NEW n \in Nat, NEW I, I \subseteq 1..n, NEW f, f = IF I # {} THEN Min(I) ELSE 0
    PROVE  \/ f = 0 /\ I = {}
           \/ f \in I /\ \A i \in I : f <= i
  <1>1. I \subseteq Nat
    OBVIOUS
  <1>2. I # {} => Min(I) \in I /\ \A i \in I : Min(I) <= i
    BY <1>1, MinIsLeast
  <1>3. QED
    BY <1>2

LEMMA LastIndex ==
    ASSUME NEW n \in Nat, NEW I, I \subseteq 1..n, NEW f, f = IF I # {} THEN Max(I) ELSE 0
    PROVE  \/ f = 0 /\ I = {}
           \/ f \in I /\ \A i \in I : f >= i
  <1>1. I \subseteq 0..n
    OBVIOUS
  <1>2. I # {} => Max(I) \in I /\ \A i \in I : Max(I) >= i
    BY <1>1, MaxIsGreatest
  <1>3. QED
    BY <1>2

(* text.find("{") and text.rfind("}").                                     *)
LEMMA FirstOpenIsFirst ==
    ASSUME NEW S, NEW text \in Seq(S)
    PROVE  LET opens == {i \in 1..Len(text) : Opening(text[i])}
           IN  \/ FirstOpen(text) = 0 /\ opens = {}
               \/ FirstOpen(text) \in opens /\ \A i \in opens : FirstOpen(text) <= i
  <1> DEFINE opens == {i \in 1..Len(text) : Opening(text[i])}
  <1>1. FirstOpen(text) = IF opens # {} THEN Min(opens) ELSE 0
    BY DEF FirstOpen, SelectInSeq
  <1>2. opens \subseteq 1..Len(text)
    BY Zenon
  <1>2a. Len(text) \in Nat
    BY LenProperties
  <1> HIDE DEF opens
  <1>3. \/ FirstOpen(text) = 0 /\ opens = {}
        \/ FirstOpen(text) \in opens /\ \A i \in opens : FirstOpen(text) <= i
    BY <1>1, <1>2, <1>2a, FirstIndex
  <1>4. QED
    BY <1>3 DEF opens

LEMMA LastCloseIsLast ==
    ASSUME NEW S, NEW text \in Seq(S)
    PROVE  LET closes == {i \in 1..Len(text) : Closing(text[i])}
           IN  \/ LastClose(text) = 0 /\ closes = {}
               \/ LastClose(text) \in closes /\ \A i \in closes : LastClose(text) >= i
  <1> DEFINE closes == {i \in 1..Len(text) : Closing(text[i])}
  <1>1. LastClose(text) = IF closes # {} THEN Max(closes) ELSE 0
    BY DEF LastClose, SelectLastInSeq
  <1>2. closes \subseteq 1..Len(text)
    BY Zenon
  <1>2a. Len(text) \in Nat
    BY LenProperties
  <1> HIDE DEF closes
  <1>3. \/ LastClose(text) = 0 /\ closes = {}
        \/ LastClose(text) \in closes /\ \A i \in closes : LastClose(text) >= i
    BY <1>1, <1>2, <1>2a, LastIndex
  <1>4. QED
    BY <1>3 DEF closes

(* The slice begins with the completion's first opening or object.         *)
LEMMA SliceStarts ==
    ASSUME NEW S, NEW text \in Seq(S), ExtractJsonBlock(text) # <<>>
    PROVE  LET block == ExtractJsonBlock(text)
               f     == FirstOpen(text)
               l     == LastClose(text)
           IN  /\ f \in 1..Len(text) /\ l \in 1..Len(text)
               /\ Opening(text[f])
               /\ \A i \in 1..Len(text) : Opening(text[i]) => f <= i
               /\ block[1] = text[f]
               /\ Len(block) = l - f + 1
  <1> DEFINE opens  == {i \in 1..Len(text) : Opening(text[i])}
             closes == {i \in 1..Len(text) : Closing(text[i])}
             block  == ExtractJsonBlock(text)
             f      == FirstOpen(text)
             l      == LastClose(text)
  <1>1. \/ f = 0 /\ opens = {}
        \/ f \in opens /\ \A i \in opens : f <= i
    BY FirstOpenIsFirst
  <1>2. \/ l = 0 /\ closes = {}
        \/ l \in closes /\ \A i \in closes : l >= i
    BY LastCloseIsLast
  <1>3. Len(text) \in Nat /\ \A i \in 1..Len(text) : text[i] \in S
    BY LenProperties, ElementOfSeq
  <1>4. f # 0 /\ l # 0 /\ block = SubSeq(text, f, l)
    BY Zenon DEF ExtractJsonBlock
  <1>5. \A i \in 1..Len(text) : i \in opens <=> Opening(text[i])
    BY Zenon
  <1>6. \A i \in closes : i \in 1..Len(text)
    BY Zenon
  <1>7. \A i \in opens : i \in 1..Len(text)
    BY Zenon
  <1>8. block # <<>>
    BY Zenon
  <1> HIDE DEF opens, closes, f, l, block
  <1>9. f \in 1..Len(text) /\ l \in 1..Len(text) /\ Opening(text[f])
    BY <1>1, <1>2, <1>4, <1>5, <1>6, <1>7, Zenon
  <1>10. \A i \in f..l : text[i] \in S
    BY <1>3, <1>9
  <1>11. /\ SubSeq(text, f, l) \in Seq(S)
         /\ Len(SubSeq(text, f, l)) = IF f <= l THEN l - f + 1 ELSE 0
         /\ \A i \in 1..(l - f + 1) : SubSeq(text, f, l)[i] = text[f + i - 1]
    BY <1>9, <1>10, SubSeqProperties
  <1>12. f <= l
    <2>1. SUFFICES ASSUME ~ (f <= l) PROVE FALSE
      OBVIOUS
    <2>2. Len(block) = 0 /\ block \in Seq(S)
      BY <1>4, <1>11, <2>1
    <2>3. QED
      BY <1>8, <2>2, EmptySeq
  <1>13. 1 \in 1..(l - f + 1) /\ f + 1 - 1 = f
    BY <1>9, <1>12
  <1>14. block[1] = text[f] /\ Len(block) = l - f + 1
    <2>1. SubSeq(text, f, l)[1] = text[f + 1 - 1]
      BY <1>11, <1>13
    <2>2. QED
      BY <1>4, <1>11, <1>12, <1>13, <2>1
  <1>15. \A i \in 1..Len(text) : Opening(text[i]) => f <= i
    BY <1>1, <1>4, <1>5, Zenon
  <1>16. QED
    BY <1>9, <1>14, <1>15 DEF f, l, block

-----------------------------------------------------------------------------
(* What is raised                                                          *)

(* A fault that no except clause names is let through, one that is named   *)
(* becomes ScoringError: neither becomes "none" or a result.               *)
LEMMA CollapseKeepsFailing ==
    ASSUME NEW raised \in Exceptions, NEW caught
    PROVE  Collapse(raised, caught) \in Exceptions
  BY DEF Collapse, Exceptions

(* json.loads fails on a slice with an exception or not at all.            *)
LEMMA LoadsFaultType ==
    ASSUME NEW S, NEW text \in Seq(S), ExtractJsonBlock(text) # <<>>
    PROVE  LoadsFault(ExtractJsonBlock(text)) \in DecodeFaults \cup {"none"}
  <1> DEFINE block == ExtractJsonBlock(text)
  <1>1. block[1] \in Opens \cup Objects
    BY SliceStarts DEF Opening
  <1> HIDE DEF block
  <1>2. Body[block[1]].fault \in DecodeFaults \cup {"none"}
    BY <1>1, BodyAssumption
  <1>3. LoadsFault(block) \in DecodeFaults \cup {"none"}
    BY <1>2 DEF LoadsFault, DecodeFaults
  <1>4. QED
    BY <1>3 DEF block

(* The whole client raises an exception or nothing.                        *)
LEMMA RaisedType ==
    ASSUME NEW S, NEW reply, reply.fault \in Exceptions \cup {"none"}, reply.text \in Seq(S)
    PROVE  Raised(reply) \in Exceptions \cup {"none"}
  <1> DEFINE block == ExtractJsonBlock(reply.text)
  <1>1. CASE reply.fault # "none"
    BY <1>1, CollapseKeepsFailing DEF Raised
  <1>2. ASSUME reply.fault = "none"
        PROVE  TextFault(reply.text) \in Exceptions \cup {"none"}
    <2> HIDE DEF block
    <2>1. CASE block = <<>>
      BY <2>1 DEF TextFault, Exceptions, block
    <2>2. CASE block # <<>> /\ LoadsFault(block) # "none"
      <3>1. LoadsFault(block) \in Exceptions
        BY <2>2, LoadsFaultType DEF block, DecodeFaults, Exceptions
      <3>2. TextFault(reply.text) = Collapse(LoadsFault(block), ParseCaught)
        BY <2>2 DEF TextFault, block
      <3>3. QED
        BY <3>1, <3>2, CollapseKeepsFailing
    <2>3. CASE block # <<>> /\ LoadsFault(block) = "none"
      <3>1. SchemaFault(Body[block[1]]) \in {"KeyError", "ValidationError", "none"}
        BY DEF SchemaFault
      <3>2. TextFault(reply.text) = Collapse(SchemaFault(Body[block[1]]), SchemaCaught)
        BY <2>3 DEF TextFault, block
      <3>3. QED
        BY <3>1, <3>2 DEF Collapse, SchemaCaught, Exceptions
    <2>4. QED
      BY <2>1, <2>2, <2>3
  <1>3. QED
    BY <1>1, <1>2 DEF Raised

(* The correctness gate of client.py:17-18: whatever the LLM answers, a    *)
(* score that is returned is in range and its band is one of the three.    *)
THEOREM ReturnedScoreIsValid ==
    ASSUME NEW S, NEW reply, reply.fault \in Exceptions \cup {"none"}, reply.text \in Seq(S),
           ScorePosting(reply).outcome = "returned"
    PROVE  /\ ScorePosting(reply).score \in 0..MaxScore
           /\ ScorePosting(reply).score_band \in Bands
  <1> DEFINE block == ExtractJsonBlock(reply.text)
             body  == Body[block[1]]
  <1>1. Raised(reply) = "none"
    <2>1. Raised(reply) \in Exceptions \cup {"none"}
      BY RaisedType
    <2>2. SUFFICES ASSUME Raised(reply) # "none" PROVE FALSE
      OBVIOUS
    <2>3. ScorePosting(reply).outcome = Raised(reply)
      BY <2>2 DEF ScorePosting
    <2>4. QED
      BY <2>1, <2>2, <2>3 DEF Exceptions
  <1>2. TextFault(reply.text) = "none"
    BY <1>1, CollapseKeepsFailing DEF Raised, Exceptions
  <1> HIDE DEF block
  <1>3. block # <<>> /\ LoadsFault(block) = "none"
    <2>1. block # <<>>
      BY <1>2 DEF TextFault, block
    <2>2. LoadsFault(block) \in Exceptions \cup {"none"}
      BY <2>1, LoadsFaultType DEF block, DecodeFaults, Exceptions
    <2>3. LoadsFault(block) # "none" => TextFault(reply.text) = Collapse(LoadsFault(block), ParseCaught)
      BY <2>1 DEF TextFault, block
    <2>4. QED
      BY <1>2, <2>1, <2>2, <2>3, CollapseKeepsFailing DEF Exceptions
  <1>4. SchemaFault(body) = "none"
    BY <1>2, <1>3 DEF TextFault, Collapse, SchemaFault, block
  <1>5. body.score \in 0..MaxScore /\ body.score_band \in Bands
    BY <1>4 DEF SchemaFault
  <1>6. /\ ScorePosting(reply).score = body.score
        /\ ScorePosting(reply).score_band = body.score_band
    BY <1>1 DEF ScorePosting, block
  <1>7. QED
    BY <1>5, <1>6

(* What a call of score_posting may end with.                              *)
LEMMA OutcomeType ==
    ASSUME NEW S, NEW reply, reply.fault \in Exceptions \cup {"none"}, reply.text \in Seq(S)
    PROVE  ScorePosting(reply).outcome \in Exceptions \cup {"returned"}
  BY RaisedType DEF ScorePosting
=============================================================================
