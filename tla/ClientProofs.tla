---------------------------- MODULE ClientProofs ----------------------------
(***************************************************************************)
(* For completions of any length, of any tokens and any objects: the slice *)
(* between the outer braces begins with the completion's first brace, and  *)
(* is one whole object when nothing but framing stands around it, so that  *)
(* what score_posting returns and why it fails is what the module          *)
(* promises.                                                               *)
(***************************************************************************)
EXTENDS Client, ScoringProofs

(* What the slice begins with is what the completion opens with.           *)
LEMMA SliceLeads ==
    ASSUME NEW text \in Seq(Tokens), ExtractJsonBlock(text) # <<>>
    PROVE  \E i \in DOMAIN text : /\ Leads(text, i)
                                  /\ ExtractJsonBlock(text)[1] = text[i]
  <1> DEFINE f == FirstOpen(text)
  <1>1. DOMAIN text = 1..Len(text) /\ Len(text) \in Nat
    BY LenProperties
  <1>2. /\ f \in 1..Len(text)
        /\ Opening(text[f])
        /\ \A i \in 1..Len(text) : Opening(text[i]) => f <= i
        /\ ExtractJsonBlock(text)[1] = text[f]
    BY SliceStarts
  <1> HIDE DEF f
  <1>3. ASSUME NEW j \in DOMAIN text, j < f PROVE ~ Opening(text[j])
    BY <1>1, <1>2, <1>3
  <1>4. Leads(text, f)
    BY <1>1, <1>2, <1>3 DEF Leads, Opening
  <1>5. QED
    BY <1>1, <1>2, <1>4

(* An object in mere framing is what the slice holds.                      *)
LEMMA FramedIsSlice ==
    ASSUME NEW text \in Seq(Tokens), NEW i \in DOMAIN text, Framed(text, i)
    PROVE  /\ ExtractJsonBlock(text) # <<>>
           /\ ExtractJsonBlock(text)[1] = text[i]
           /\ Len(ExtractJsonBlock(text)) = 1
  <1> DEFINE opens  == {j \in 1..Len(text) : Opening(text[j])}
             closes == {j \in 1..Len(text) : Closing(text[j])}
             f      == FirstOpen(text)
             l      == LastClose(text)
  <1>1. \/ f = 0 /\ opens = {}
        \/ f \in opens /\ \A j \in opens : f <= j
    BY FirstOpenIsFirst
  <1>2. \/ l = 0 /\ closes = {}
        \/ l \in closes /\ \A j \in closes : l >= j
    BY LastCloseIsLast
  <1>3. DOMAIN text = 1..Len(text) /\ Len(text) \in Nat
    BY LenProperties
  <1>4. i \in opens /\ i \in closes
    BY <1>3 DEF Framed, Candidates, Opening, Closing
  <1>5. \A j \in opens : j \in 1..Len(text) /\ (text[j] \in Opens \/ text[j] \in Objects)
    BY DEF Opening
  <1>6. \A j \in closes : j \in 1..Len(text) /\ (text[j] = "}" \/ text[j] \in Objects)
    BY DEF Closing
  <1> HIDE DEF opens, closes, f, l
  <1>6a. i \in 1..Len(text)
    BY <1>3, Zenon
  <1>6b. 1..Len(text) \subseteq Nat
    BY <1>3
  <1>6c. i \in Nat
    BY <1>6a, <1>6b, Zenon
  <1>7. f = i
    <2>1. f \in 1..Len(text) /\ f <= i /\ (text[f] \in Opens \/ text[f] \in Objects)
      <3>1. f \in opens /\ f <= i
        BY <1>1, <1>4, Zenon
      <3>2. QED
        BY <1>5, <3>1, Zenon
    <2>2. f < i => text[f] \notin Opens
      BY <1>3, <2>1 DEF Framed
    <2>3. text[f] \in Objects => f = i
      BY <1>3, <2>1 DEF Framed, Candidates
    <2>4. f \in Nat
      BY <1>6b, <2>1, Zenon
    <2>5. ~ (f < i)
      <3>1. SUFFICES ASSUME f < i PROVE FALSE
        OBVIOUS
      <3>2. f = i
        BY <2>1, <2>2, <2>3, <3>1, Zenon
      <3>3. QED
        BY <1>6c, <3>1, <3>2
    <2>6. f <= i
      BY <2>1, Zenon
    <2>7. QED
      BY <1>6c, <2>4, <2>5, <2>6
  <1>8. l = i
    <2>1. l \in 1..Len(text) /\ l >= i /\ (text[l] = "}" \/ text[l] \in Objects)
      <3>1. l \in closes /\ l >= i
        BY <1>2, <1>4, Zenon
      <3>2. QED
        BY <1>6, <3>1, Zenon
    <2>2. l > i => text[l] # "}"
      BY <1>3, <2>1 DEF Framed
    <2>3. text[l] \in Objects => l = i
      BY <1>3, <2>1 DEF Framed, Candidates
    <2>4. l \in Nat
      BY <1>6b, <2>1, Zenon
    <2>5. ~ (l > i)
      <3>1. SUFFICES ASSUME l > i PROVE FALSE
        OBVIOUS
      <3>2. l = i
        BY <2>1, <2>2, <2>3, <3>1, Zenon
      <3>3. QED
        BY <1>6c, <3>1, <3>2
    <2>6. l >= i
      BY <2>1, Zenon
    <2>7. QED
      BY <1>6c, <2>4, <2>5, <2>6
  <1>9. ExtractJsonBlock(text) # <<>>
    <2>1. ExtractJsonBlock(text) = SubSeq(text, i, i)
      <3>1. FirstOpen(text) # 0 /\ LastClose(text) # 0
        BY <1>6a, <1>7, <1>8 DEF f, l
      <3>2. QED
        BY <1>7, <1>8, <3>1 DEF ExtractJsonBlock, f, l
    <2>2. \A j \in i..i : text[j] \in Tokens
      BY <1>6a, <1>3, ElementOfSeq
    <2>3. /\ SubSeq(text, i, i) \in Seq(Tokens)
          /\ Len(SubSeq(text, i, i)) = IF i <= i THEN i - i + 1 ELSE 0
      BY <1>6c, <2>2, SubSeqProperties
    <2>4. Len(SubSeq(text, i, i)) = 1
      BY <1>6c, <2>3
    <2>5. Len(<<>>) = 0
      BY EmptySeq
    <2>6. QED
      BY <2>1, <2>4, <2>5
  <1>10. /\ ExtractJsonBlock(text)[1] = text[f]
         /\ Len(ExtractJsonBlock(text)) = l - f + 1
    BY <1>9, SliceStarts DEF f, l
  <1>11. QED
    BY <1>6c, <1>7, <1>8, <1>9, <1>10

-----------------------------------------------------------------------------
(* What a call ends with                                                   *)

Reply == [fault : Faults \cup {"none"}, text : Seq(Tokens)]

LEMMA ReplyFaults ==
    ASSUME NEW r \in Reply
    PROVE  /\ r.fault \in Exceptions \cup {"none"}
           /\ r.text \in Seq(Tokens)
  BY DEF Reply, Faults, CallCaught, ShapeCaught, Exceptions

(* The three outcomes of a completion's text, by what its slice begins     *)
(* with.                                                                   *)
LEMMA TextOutcomes ==
    ASSUME NEW r \in Reply, r.fault = "none"
    PROVE  LET block == ExtractJsonBlock(r.text)
               body  == Body[block[1]]
           IN  \/ /\ Raised(r) = "none"
                  /\ block # <<>>
                  /\ body.fault = "none" /\ SchemaFault(body) = "none"
               \/ /\ Raised(r) = "ScoringError"
                  /\ \/ block = <<>>
                     \/ Len(block) > 1
                     \/ body.fault # "none"
                     \/ SchemaFault(body) # "none"
               \/ /\ Raised(r) \in {"ValueError", "RecursionError"}
                  /\ block # <<>>
                  /\ body.fault = Raised(r)
  <1> DEFINE block == ExtractJsonBlock(r.text)
             body  == Body[block[1]]
  <1>1. Raised(r) = TextFault(r.text)
    BY DEF Raised
  <1>2. TextFault(r.text) = CASE block = <<>> -> "ScoringError"
                              [] block # <<>> /\ LoadsFault(block) # "none"
                                   -> Collapse(LoadsFault(block), ParseCaught)
                              [] OTHER -> Collapse(SchemaFault(body), SchemaCaught)
    BY Zenon DEF TextFault
  <1>3. LoadsFault(block) = CASE body.fault # "none"                   -> body.fault
                              [] body.fault = "none" /\ Len(block) > 1 -> "JSONDecodeError"
                              [] OTHER                                 -> "none"
    BY Zenon DEF LoadsFault
  <1>4. SchemaFault(body) \in {"KeyError", "ValidationError", "none"}
    BY DEF SchemaFault
  <1>5. block # <<>> => LoadsFault(block) \in DecodeFaults \cup {"none"}
    BY ReplyFaults, LoadsFaultType
  <1>6. \/ /\ Raised(r) = "none"
           /\ block # <<>>
           /\ body.fault = "none" /\ SchemaFault(body) = "none"
        \/ /\ Raised(r) = "ScoringError"
           /\ \/ block = <<>>
              \/ Len(block) > 1
              \/ body.fault # "none"
              \/ SchemaFault(body) # "none"
        \/ /\ Raised(r) \in {"ValueError", "RecursionError"}
           /\ block # <<>>
           /\ body.fault = Raised(r)
    <2> HIDE DEF block, body
    <2>1. CASE block = <<>>
      BY <1>1, <1>2, <2>1
    <2>2. CASE block # <<>> /\ body.fault # "none"
      <3>1. Raised(r) = Collapse(body.fault, ParseCaught)
        BY <1>1, <1>2, <1>3, <2>2
      <3>2. body.fault \in DecodeFaults
        BY <1>3, <1>5, <2>2
      <3>3. \/ Raised(r) = "ScoringError"
            \/ Raised(r) = body.fault /\ body.fault \in {"ValueError", "RecursionError"}
        BY <3>1, <3>2 DEF Collapse, ParseCaught, DecodeFaults
      <3>4. QED
        BY <2>2, <3>3
    <2>3. CASE block # <<>> /\ body.fault = "none" /\ Len(block) > 1
      BY <1>1, <1>2, <1>3, <2>3 DEF Collapse, ParseCaught
    <2>4. CASE block # <<>> /\ body.fault = "none" /\ ~ (Len(block) > 1)
      <3>1. Raised(r) = Collapse(SchemaFault(body), SchemaCaught)
        BY <1>1, <1>2, <1>3, <2>4
      <3>2. \/ Raised(r) = "none" /\ SchemaFault(body) = "none"
            \/ Raised(r) = "ScoringError" /\ SchemaFault(body) # "none"
        BY <1>4, <3>1 DEF Collapse, SchemaCaught
      <3>3. QED
        BY <2>4, <3>2
    <2>5. QED
      BY <2>1, <2>2, <2>3, <2>4
  <1>7. QED
    BY <1>6, Zenon

LEMMA FaultOutcomes ==
    ASSUME NEW r \in Reply, r.fault # "none"
    PROVE  \/ Raised(r) = "ScoringError"
           \/ Raised(r) = "TypeError" /\ r.fault = "TypeError"
  BY DEF Reply, Raised, Faults, CallCaught, ShapeCaught, Collapse

LEMMA RaisedOutcome ==
    ASSUME NEW r \in Reply
    PROVE  /\ ScorePosting(r).outcome = "returned" => Raised(r) = "none"
           /\ Raised(r) # "none" => ScorePosting(r).outcome = Raised(r)
           /\ Raised(r) = "none" =>
                ScorePosting(r) =
                    [outcome    |-> "returned",
                     score      |-> Body[ExtractJsonBlock(r.text)[1]].score,
                     score_band |-> Body[ExtractJsonBlock(r.text)[1]].score_band]
  <1>1. Raised(r) \in Exceptions \cup {"none"}
    BY ReplyFaults, RaisedType
  <1>2. Raised(r) # "returned"
    BY <1>1 DEF Exceptions
  <1>3. Raised(r) # "none" =>
          ScorePosting(r) = [outcome |-> Raised(r), score |-> 0, score_band |-> "none"]
    BY DEF ScorePosting
  <1>4. Raised(r) = "none" =>
          ScorePosting(r) =
              [outcome    |-> "returned",
               score      |-> Body[ExtractJsonBlock(r.text)[1]].score,
               score_band |-> Body[ExtractJsonBlock(r.text)[1]].score_band]
    BY DEF ScorePosting
  <1>5. QED
    BY <1>2, <1>3, <1>4

(* Passing the schema is being acceptable.                                 *)
LEMMA SchemaIsAcceptable ==
    ASSUME NEW o \in Objects
    PROVE  Acceptable(o) <=> Body[o].fault = "none" /\ SchemaFault(Body[o]) = "none"
  BY DEF Acceptable, SchemaFault

-----------------------------------------------------------------------------
(* A call is pending or ended with what score_posting makes of its reply.  *)
CallInv == /\ reply \in Reply
           /\ result \in {Pending, ScorePosting(reply)}

LEMMA CallInvariance == Spec => []CallInv
  <1>1. Init => CallInv
    BY ReplyAssumption DEF Init, CallInv, Reply
  <1>2. CallInv /\ [Next]_vars => CallInv'
    BY DEF CallInv, Next, Score, vars
  <1>3. QED
    BY <1>1, <1>2, PTL DEF Spec

LEMMA PendingOutcome == Pending.outcome = "pending"
  BY DEF Pending

(* The correctness gate of client.py:17-18 in full: a score is that of the *)
(* completion's first object, and that object passes the schema.           *)
THEOREM ScoresTheFirstObject == Spec => []ScoresOnlyTheFirstObject
  <1>1. CallInv => ScoresOnlyTheFirstObject
    <2> SUFFICES ASSUME CallInv, result.outcome = "returned"
                 PROVE  /\ reply.fault = "none"
                        /\ \E i \in DOMAIN reply.text :
                              /\ Leads(reply.text, i)
                              /\ Acceptable(reply.text[i])
                              /\ result.score = Body[reply.text[i]].score
                              /\ result.score_band = Body[reply.text[i]].score_band
      BY DEF ScoresOnlyTheFirstObject
    <2> DEFINE block == ExtractJsonBlock(reply.text)
    <2>1. reply \in Reply /\ result = ScorePosting(reply)
      BY PendingOutcome DEF CallInv
    <2>2. Raised(reply) = "none"
      BY <2>1, RaisedOutcome
    <2>3. reply.fault = "none"
      BY <2>1, <2>2, FaultOutcomes
    <2>4. /\ block # <<>>
          /\ Body[block[1]].fault = "none" /\ SchemaFault(Body[block[1]]) = "none"
      BY <2>1, <2>2, <2>3, TextOutcomes
    <2>5. PICK i \in DOMAIN reply.text : Leads(reply.text, i) /\ block[1] = reply.text[i]
      BY <2>1, <2>4, ReplyFaults, SliceLeads
    <2>6. reply.text[i] \in Objects
      <3>1. reply.text[i] \in Opens \cup Objects
        BY <2>5 DEF Leads
      <3>2. reply.text[i] \notin Opens
        BY <2>4, <2>5, BodyAssumption DEF DecodeFaults
      <3>3. QED
        BY <3>1, <3>2
    <2>7. Acceptable(reply.text[i])
      BY <2>4, <2>5, <2>6, SchemaIsAcceptable
    <2>8. /\ result.score = Body[reply.text[i]].score
          /\ result.score_band = Body[reply.text[i]].score_band
      BY <2>1, <2>2, <2>5, RaisedOutcome
    <2>9. QED
      BY <2>3, <2>5, <2>7, <2>8
  <1>2. QED
    BY <1>1, CallInvariance, PTL

(* No acceptable object is lost to its framing, and what is not collapsed  *)
(* to ScoringError (client.py:28) is a response without choices or what    *)
(* the completion opens with, when that exceeds the decoder's limits.      *)
THEOREM FailuresHaveTheirCause == Spec => []FailsForCause
  <1>1. CallInv => FailsForCause
    <2> SUFFICES ASSUME CallInv, result.outcome \notin {"pending", "returned"}
                 PROVE  FailsForCause
      BY DEF FailsForCause
    <2> DEFINE block == ExtractJsonBlock(reply.text)
    <2>1. reply \in Reply /\ result = ScorePosting(reply)
      BY PendingOutcome DEF CallInv
    <2>2. Raised(reply) # "none" /\ result.outcome = Raised(reply)
      BY <2>1, RaisedOutcome
    <2>3. ASSUME reply.fault = "none", NEW i \in DOMAIN reply.text,
                 Framed(reply.text, i), Acceptable(reply.text[i])
          PROVE  FALSE
      <3>1. block # <<>> /\ block[1] = reply.text[i] /\ Len(block) = 1
        BY <2>1, <2>3, ReplyFaults, FramedIsSlice
      <3>2. reply.text[i] \in Objects
        BY <2>3 DEF Acceptable
      <3>3. Body[block[1]].fault = "none" /\ SchemaFault(Body[block[1]]) = "none"
        BY <2>3, <3>1, <3>2, SchemaIsAcceptable
      <3>4. ~ (Len(block) > 1)
        BY <3>1
      <3>5. QED
        BY <2>1, <2>2, <2>3, <3>1, <3>3, <3>4, TextOutcomes
    <2>4. ASSUME result.outcome # "ScoringError", reply.fault # "none"
          PROVE  reply.fault = "TypeError" /\ result.outcome = "TypeError"
      BY <2>1, <2>2, <2>4, FaultOutcomes
    <2>5. ASSUME result.outcome # "ScoringError", reply.fault = "none"
          PROVE  /\ result.outcome \in {"ValueError", "RecursionError"}
                 /\ \E i \in DOMAIN reply.text :
                       Leads(reply.text, i) /\ result.outcome = Body[reply.text[i]].fault
      <3>1. /\ result.outcome \in {"ValueError", "RecursionError"}
            /\ block # <<>>
            /\ Body[block[1]].fault = result.outcome
        BY <2>1, <2>2, <2>5, TextOutcomes
      <3>2. PICK i \in DOMAIN reply.text : Leads(reply.text, i) /\ block[1] = reply.text[i]
        BY <2>1, <3>1, ReplyFaults, SliceLeads
      <3>3. QED
        BY <3>1, <3>2
    <2>6. QED
      BY <2>3, <2>4, <2>5 DEF FailsForCause
  <1>2. QED
    BY <1>1, CallInvariance, PTL
=============================================================================
