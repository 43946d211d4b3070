---------------------------- MODULE ReadsProofs ----------------------------
(***************************************************************************)
(* What readers of scout.db are told, for any number of calls, scripts and *)
(* readers and any requests, while rows are committed in another order     *)
(* than they are stamped.                                                  *)
(***************************************************************************)
EXTENDS Reads, RescoreProofs, PagingProofs, WellFoundedInduction

LEMMA WritersAlone == [ReadsNext]_allVars => [Next]_vars
  BY DEF ReadsNext, allVars, Write, Ask, Fetch, CountPostings, CountScores, AverageScores,
         CountBands, CountTags

LEMMA WriterInvariant == IInv /\ [Next]_vars => IInv'
  BY TypeStep, DraftsStep, LockStep, CheckedStep, StoredStep, ReferencesStep DEF IInv

LEMMA NoStatsType == Statistics(NoStats)
  <1>1. DOMAIN <<>> = {}
    BY EmptySeq, LenProperties
  <1>2. QED
    BY <1>1 DEF Statistics, NoStats

LEMMA InitReadsInv == ReadsInit => ReadsInv
  <1> SUFFICES ASSUME ReadsInit PROVE ReadsInv
    OBVIOUS
  <1> USE DEF ReadsInit
  <1>1. IInv
    BY InitIInv
  <1>2. ReadsTypeOK
    BY NoStatsType DEF ReadsTypeOK
  <1>3. Asked /\ Chronology
    BY DEF Asked, Counting, Chronology, Init
  <1>4. Gathered
    BY DEF Gathered, GatheredBy, Past, Answered
  <1>5. QED
    BY <1>1, <1>2, <1>3, <1>4 DEF ReadsInv, Timeline

-----------------------------------------------------------------------------
(* What the writers leave alone                                            *)

(* A call that is over stays as it is, a row is stamped when it is         *)
(* drafted, and the clock does not go back.                                *)
LEMMA CallsGoOn ==
    ASSUME IInv, [Next]_vars, NEW d \in Calls
    PROVE  /\ pc[d] = "done" => /\ pc'[d] = "done"
                                /\ outcome'[d] = outcome[d]
                                /\ draft'[d] = draft[d]
           /\ outcome'[d] = outcome[d] \/ pc'[d] = "done"
           /\ \/ draft'[d] = draft[d]
              \/ /\ pc[d] = "scoring"
                 /\ draft'[d].posting_id = target[d]
                 /\ draft'[d].scored_at = clock
           /\ target'[d] = target[d]
           /\ clock \in Nat /\ clock' \in Nat /\ clock <= clock'
  <1> USE DEF Goto, Finish, SeedTo, store, callVars
  <1>0. TypeOK
    BY DEF IInv
  <1>1. clock \in Nat /\ clock' \in Nat
    BY TypeStep, ClockAssumption, <1>0 DEF TypeOK
  <1>2. ASSUME NEW c \in Calls, LlmReply(c)
        PROVE  /\ pc[c] = "scoring"
               /\ \/ draft' = [draft EXCEPT ![c] = draft'[c]]
                  \/ draft' = draft
               /\ \/ draft'[c] = draft[c]
                  \/ /\ draft'[c].posting_id = target[c]
                     /\ draft'[c].scored_at = clock
               /\ \/ pc' = [pc EXCEPT ![c] = "inserting"] /\ outcome' = outcome
                  \/ /\ pc' = [pc EXCEPT ![c] = "done"]
                     /\ outcome' = [outcome EXCEPT ![c] = outcome'[c]]
               /\ UNCHANGED <<target, clock>>
    <2>1. PICK result \in Results :
            \/ /\ draft' = [draft EXCEPT ![c] = Draft(c, result)]
               /\ Goto(c, "inserting")
            \/ /\ Finish(c, result.outcome)
               /\ UNCHANGED draft
      BY <1>2 DEF LlmReply
    <2> DEFINE row == Draft(c, result)
    <2>2. row.posting_id = target[c] /\ row.scored_at = clock
      BY DEF Draft
    <2> HIDE DEF row
    <2>3. pc[c] = "scoring" /\ UNCHANGED <<target, clock>>
      BY <1>2 DEF LlmReply
    <2>4. CASE draft' = [draft EXCEPT ![c] = row] /\ Goto(c, "inserting")
      BY <1>0, <2>2, <2>3, <2>4 DEF TypeOK
    <2>5. CASE Finish(c, result.outcome) /\ UNCHANGED draft
      BY <1>0, <2>3, <2>5 DEF TypeOK
    <2>6. QED
      BY <2>1, <2>4, <2>5 DEF row
  <1>3. CASE \E c \in Calls : LlmReply(c)
    BY <1>0, <1>1, <1>2, <1>3 DEF TypeOK
  <1>4. ASSUME NEW c \in Calls,
               \/ Start(c) \/ GetPosting(c) \/ LoadRubric(c) \/ Insert(c) \/ Commit(c)
               \/ CloseAborted(c) \/ Return(c) \/ Abandon(c)
        PROVE  /\ pc[c] # "done"
               /\ UNCHANGED <<draft, target, clock>>
               /\ \A e \in Calls \ {c} : pc'[e] = pc[e] /\ outcome'[e] = outcome[e]
               /\ outcome'[c] = outcome[c] \/ pc'[c] = "done"
    BY <1>0, <1>4 DEF Start, GetPosting, LoadRubric, Insert, BeginInsert, BusyTimeout, Commit,
                      CloseAborted, Return, Abandon, TypeOK
  <1>5. ASSUME NEW s \in Seeders,
               SeedDelete(s) \/ SeedStep(s) \/ SeedBusyTimeout(s) \/ SeedKill(s)
        PROVE  UNCHANGED <<callVars, clock>>
    BY <1>5 DEF SeedDelete, SeedStep, SeedAbort, SeedCommit, SeedInsert, SeedBusyTimeout, SeedKill
  <1>6. CASE EditRubric \/ Tick \/ UNCHANGED vars
    BY <1>1, <1>6 DEF EditRubric, Tick, vars
  <1>7. QED
    BY <1>1, <1>3, <1>4, <1>5, <1>6 DEF Next, CallStep

LEMMA RowsGrow ==
    ASSUME IInv, [Next]_vars
    PROVE  Len(scores) \in Nat /\ Len(scores') \in Nat /\ Len(scores) <= Len(scores')
  <1>1. scores \in Seq(Rows) /\ scores' \in Seq(Rows)
    BY TypeStep DEF IInv, TypeOK
  <1>2. /\ DOMAIN scores = 1..Len(scores) /\ Len(scores) \in Nat
        /\ DOMAIN scores' = 1..Len(scores') /\ Len(scores') \in Nat
    BY <1>1, LenProperties
  <1>3. DOMAIN scores \subseteq DOMAIN scores'
    BY RowsStay
  <1>4. Len(scores) # 0 => Len(scores) \in DOMAIN scores
    BY <1>2
  <1>5. Len(scores) # 0 => Len(scores) \in 1..Len(scores')
    BY <1>2, <1>3, <1>4
  <1>6. QED
    BY <1>2, <1>5

-----------------------------------------------------------------------------
(* The inductive invariant                                                 *)

LEMMA FiniteRows == TypeOK => IsFiniteSet(DOMAIN scores) /\ DOMAIN scores \subseteq Nat
  <1> SUFFICES ASSUME TypeOK PROVE IsFiniteSet(DOMAIN scores) /\ DOMAIN scores \subseteq Nat
    OBVIOUS
  <1>1. DOMAIN scores = 1..Len(scores) /\ Len(scores) \in Nat
    BY DEF TypeOK
  <1>2. IsFiniteSet(1..Len(scores))
    BY <1>1, FS_Interval
  <1>3. QED
    BY <1>1, <1>2

LEMMA RowCount == TypeOK => Cardinality(DOMAIN scores) = Len(scores) /\ Len(scores) \in Nat
  <1> SUFFICES ASSUME TypeOK PROVE Cardinality(DOMAIN scores) = Len(scores) /\ Len(scores) \in Nat
    OBVIOUS
  <1>1. DOMAIN scores = 1..Len(scores) /\ Len(scores) \in Nat
    BY DEF TypeOK
  <1>2. Cardinality(1..Len(scores)) = IF 1 > Len(scores) THEN 0 ELSE Len(scores) - 1 + 1
    BY <1>1, FS_Interval
  <1>3. (IF 1 > Len(scores) THEN 0 ELSE Len(scores) - 1 + 1) = Len(scores)
    BY <1>1
  <1>4. QED
    BY <1>1, <1>2, <1>3

(* Rows of different kinds are counted apart.                              *)
LEMMA CountedApart ==
    ASSUME NEW S, NEW T, IsFiniteSet(S), IsFiniteSet(T), S \cap T = {}
    PROVE  /\ IsFiniteSet(S \cup T)
           /\ Cardinality(S \cup T) = Cardinality(S) + Cardinality(T)
  <1>1. Cardinality(S) \in Nat /\ Cardinality(T) \in Nat /\ Cardinality({}) = 0
    BY FS_CardinalityType, FS_EmptySet
  <1>2. /\ IsFiniteSet(S \cup T)
        /\ Cardinality(S \cup T) = Cardinality(S) + Cardinality(T) - Cardinality(S \cap T)
    BY FS_Union
  <1>3. Cardinality(S \cap T) = 0
    BY <1>1
  <1>4. QED
    BY <1>1, <1>2, <1>3

(* An answer is of stored rows and within the limit.                       *)
LEMMA AnswerType ==
    ASSUME TypeOK, NEW q \in Requests, q # StatsSummary, Valid(q),
           NEW rows \in Answers(postings, scores, q)
    PROVE  rows \in Seq(DOMAIN scores) /\ Len(rows) <= q.limit
  <1>1. IsFiniteSet(DOMAIN scores)
    BY FiniteRows
  <1>2. CASE q.kind = "postings"
    <2> DEFINE ids == Matching(postings, scores, q)
    <2>1. ids \subseteq DOMAIN scores
      BY DEF Matching
    <2>2. IsFiniteSet(ids)
      BY <1>1, <2>1, FS_Subset
    <2>3. q.limit \in Nat
      BY <1>2, LimitAssumption DEF Valid
    <2>4. PICK key : rows \in Pages(ids, key, q.direction, q.limit, 0)
      BY <1>2 DEF Answers, PostingsAnswers
    <2> HIDE DEF ids
    <2>5. rows \in Seq(ids) /\ Len(rows) <= q.limit
      BY <2>2, <2>3, <2>4, ShortPage
    <2>6. QED
      BY <2>1, <2>5
  <1>3. CASE q.kind # "postings"
    <2>1. q.kind = "history" /\ q.offset = 0
      BY <1>3, RequestsAssumption DEF ScoresHistory
    <2>2. q.limit \in Nat
      BY <2>1, LimitAssumption DEF Valid
    <2>3. PICK key : rows \in Pages(DOMAIN scores, key, "DESC", q.limit, 0)
      BY <1>3, <2>1 DEF Answers, HistoryAnswers
    <2>4. QED
      BY <1>1, <2>2, <2>3, ShortPage
  <1>4. QED
    BY <1>2, <1>3

(* Who has an answer had it before, or fetches it in this step.            *)
LEMMA AnsweredBy ==
    ASSUME ReadsInv, [ReadsNext]_allVars,
           NEW r \in Readers, reader'[r] = "answered", ask'[r] # StatsSummary
    PROVE  /\ ask'[r] = ask[r] /\ before'[r] = before[r]
           /\ \/ reader[r] = "answered" /\ answer'[r] = answer[r]
              \/ Fetch(r)
  <1> USE DEF ReaderTo
  <1>1. ReadsTypeOK /\ Asked
    BY DEF ReadsInv, Timeline
  <1>2. ASSUME NEW s \in Readers, Ask(s)
        PROVE  /\ s # r /\ reader'[r] = reader[r] /\ answer' = answer
               /\ ask'[r] = ask[r] /\ before'[r] = before[r]
    BY <1>1, <1>2 DEF Ask, ReadsTypeOK
  <1>3. ASSUME NEW s \in Readers, Fetch(s)
        PROVE  /\ ask' = ask /\ before' = before
               /\ s # r => reader'[r] = reader[r] /\ answer'[r] = answer[r]
    BY <1>1, <1>3 DEF Fetch, ReadsTypeOK
  <1>4. ASSUME NEW s \in Readers,
               CountPostings(s) \/ CountScores(s) \/ AverageScores(s) \/ CountBands(s)
        PROVE  /\ s # r /\ reader'[r] = reader[r]
               /\ UNCHANGED <<ask, answer, before>>
    <2>1. PICK step \in Counting : reader' = [reader EXCEPT ![s] = step]
      BY <1>4, Zenon DEF CountPostings, CountScores, AverageScores, CountBands, Counting
    <2>2. UNCHANGED <<ask, answer, before>>
      BY <1>4, Zenon DEF CountPostings, CountScores, AverageScores, CountBands
    <2>3. QED
      BY <1>1, <2>1, <2>2 DEF ReadsTypeOK, Counting
  <1>5. ASSUME NEW s \in Readers, CountTags(s)
        PROVE  /\ s # r /\ reader'[r] = reader[r]
               /\ UNCHANGED <<ask, answer, before>>
    <2>1. /\ reader[s] = "bands counted"
          /\ reader' = [reader EXCEPT ![s] = "answered"]
          /\ UNCHANGED <<ask, answer, before>>
      BY <1>5, Zenon DEF CountTags
    <2>2. ask[s] = StatsSummary
      BY <1>1, <2>1 DEF Asked, Counting
    <2>3. QED
      BY <1>1, <2>1, <2>2 DEF ReadsTypeOK
  <1>6. ASSUME Write \/ UNCHANGED allVars
        PROVE  UNCHANGED <<reader, ask, answer, before>>
    BY <1>6 DEF Write, readVars, allVars
  <1>7. QED
    BY <1>2, <1>3, <1>4, <1>5, <1>6 DEF ReadsNext

(* Each score that was returned when the reader asked has a row.           *)
LEMMA ReturnedAreStored ==
    ASSUME ReadsInv, NEW r \in Readers
    PROVE  Cardinality(before[r]) <= Len(scores)
  <1>1. ReadsTypeOK /\ Asked /\ Stored /\ TypeOK
    BY DEF ReadsInv, Timeline, IInv
  <1> DEFINE row == [c \in before[r] |-> CHOOSE i \in DOMAIN scores : scores[i].call = c]
  <1>2. ASSUME NEW c \in before[r]
        PROVE  \E i \in DOMAIN scores : scores[i].call = c
    BY <1>1 DEF ReadsTypeOK, Asked, Stored
  <1>3. \A c \in before[r] : row[c] \in DOMAIN scores /\ scores[row[c]].call = c
    BY <1>2
  <1> HIDE DEF row
  <1>4. row \in [before[r] -> DOMAIN scores]
    BY <1>3 DEF row
  <1>5. \A c, d \in before[r] : row[c] = row[d] => c = d
    BY <1>3
  <1>6. row \in Injection(before[r], DOMAIN scores)
    BY <1>4, <1>5 DEF Injection, IsInjective
  <1>7. IsFiniteSet(DOMAIN scores)
    BY <1>1, FiniteRows
  <1>8. Cardinality(before[r]) <= Cardinality(DOMAIN scores)
    BY <1>6, <1>7, FS_Injection
  <1>9. QED
    BY <1>1, <1>8, RowCount

(* GROUP BY leaves no row out: every stored band is one of the three.      *)
LEMMA BandTotals ==
    ASSUME TypeOK
    PROVE  /\ BandTotal(BandCounts(scores)) = Len(scores)
           /\ DOMAIN BandCounts(scores) \subseteq Bands
           /\ \A b \in DOMAIN BandCounts(scores) : BandCounts(scores)[b] \in Nat
  <1> DEFINE rows(b) == {i \in DOMAIN scores : scores[i].score_band = b}
             table   == BandCounts(scores)
             High    == rows("high")
             Mid     == rows("mid")
             Low     == rows("low")
  <1>1. \A i \in DOMAIN scores : scores[i].score_band \in {"high", "mid", "low"}
    BY StoredRowType DEF Rows, Bands
  <1>2. table = [b \in {scores[i].score_band : i \in DOMAIN scores} |-> Cardinality(rows(b))]
    BY Zenon DEF BandCounts
  <1>3. IsFiniteSet(DOMAIN scores)
    BY FiniteRows
  <1>4. ASSUME NEW b PROVE IsFiniteSet(rows(b)) /\ Cardinality(rows(b)) \in Nat
    <2>1. rows(b) \subseteq DOMAIN scores
      OBVIOUS
    <2>2. QED
      BY <1>3, <2>1, FS_Subset, FS_CardinalityType
  <1>5. ASSUME NEW b PROVE InBand(table, b) = Cardinality(rows(b))
    <2>1. CASE b \in DOMAIN table
      BY <1>2, <2>1 DEF InBand
    <2>2. CASE b \notin DOMAIN table
      <3>1. rows(b) = {}
        BY <1>2, <2>2
      <3>2. QED
        BY <2>2, <3>1, FS_EmptySet DEF InBand
    <2>3. QED
      BY <2>1, <2>2
  <1>6. DOMAIN table \subseteq Bands /\ \A b \in DOMAIN table : table[b] \in Nat
    <2>1. DOMAIN table = {scores[i].score_band : i \in DOMAIN scores}
      BY <1>2
    <2>2. ASSUME NEW b \in DOMAIN table PROVE b \in Bands /\ table[b] \in Nat
      <3>1. table[b] = Cardinality(rows(b))
        BY <1>2, <2>1
      <3>2. b \in Bands
        BY <1>1, <2>1 DEF Bands
      <3>3. QED
        BY <1>4, <3>1, <3>2
    <2>3. QED
      BY <2>2
  <1>7. DOMAIN scores = (High \cup Mid) \cup Low
    BY <1>1
  <1>8. High \cap Mid = {} /\ (High \cup Mid) \cap Low = {}
    OBVIOUS
  <1>9. BandTotal(table) = Cardinality(High) + Cardinality(Mid) + Cardinality(Low)
    BY <1>5 DEF BandTotal
  <1>10. /\ IsFiniteSet(High) /\ Cardinality(High) \in Nat
         /\ IsFiniteSet(Mid)  /\ Cardinality(Mid) \in Nat
         /\ IsFiniteSet(Low)  /\ Cardinality(Low) \in Nat
    BY <1>4
  <1> HIDE DEF table, High, Mid, Low
  <1>11. /\ IsFiniteSet(High \cup Mid)
         /\ Cardinality(High \cup Mid) = Cardinality(High) + Cardinality(Mid)
    BY <1>8, <1>10, CountedApart
  <1>12. Cardinality((High \cup Mid) \cup Low) = Cardinality(High \cup Mid) + Cardinality(Low)
    BY <1>8, <1>10, <1>11, CountedApart
  <1>13. BandTotal(table) = Cardinality(DOMAIN scores)
    BY <1>7, <1>9, <1>10, <1>11, <1>12
  <1>14. QED
    BY <1>6, <1>13, RowCount DEF table

(* A reader's step is its own, and leaves the tables alone.                *)
ReaderStep(r) == \/ Ask(r) \/ Fetch(r) \/ CountPostings(r) \/ CountScores(r)
                 \/ AverageScores(r) \/ CountBands(r) \/ CountTags(r)

LEMMA OthersWait ==
    ASSUME ReadsTypeOK, NEW r \in Readers, ReaderStep(r), NEW s \in Readers, s # r
    PROVE  /\ reader'[s] = reader[s] /\ ask'[s] = ask[s]
           /\ stats'[s] = stats[s] /\ before'[s] = before[s]
  <1> USE DEF ReaderTo, Gather
  <1>1. CASE Ask(r)
    BY <1>1 DEF Ask, ReadsTypeOK
  <1>2. CASE Fetch(r)
    BY <1>2 DEF Fetch, ReadsTypeOK
  <1>3. CASE CountPostings(r)
    BY <1>3 DEF CountPostings, ReadsTypeOK
  <1>4. CASE CountScores(r)
    BY <1>4 DEF CountScores, ReadsTypeOK
  <1>5. CASE AverageScores(r)
    BY <1>5 DEF AverageScores, ReadsTypeOK
  <1>6. CASE CountBands(r)
    BY <1>6 DEF CountBands, ReadsTypeOK
  <1>7. CASE CountTags(r)
    BY <1>7 DEF CountTags, ReadsTypeOK
  <1>8. QED
    BY <1>1, <1>2, <1>3, <1>4, <1>5, <1>6, <1>7 DEF ReaderStep

(* What each step of a reader gathers.                                     *)
LEMMA GatherStep ==
    ASSUME ReadsTypeOK, NEW r \in Readers, ReaderStep(r)
    PROVE  \/ /\ Ask(r) \/ Fetch(r)
              /\ stats'[r] = stats[r]
           \/ /\ CountPostings(r)
              /\ stats'[r] = [stats[r] EXCEPT !.postings_total = Cardinality(postings)]
           \/ /\ CountScores(r)
              /\ stats'[r] = [stats[r] EXCEPT !.scores_total = Len(scores)]
           \/ /\ AverageScores(r)
              /\ stats'[r] = [stats[r] EXCEPT !.averaged = Len(scores)]
           \/ /\ CountBands(r)
              /\ stats'[r] = [stats[r] EXCEPT !.by_band = BandCounts(scores)]
           \/ /\ CountTags(r)
              /\ \E n \in 0..MaxTags : stats'[r] = [stats[r] EXCEPT !.tagged = n]
  <1>0. DOMAIN stats = Readers
    BY DEF ReadsTypeOK
  <1>1. ASSUME NEW counts, Gather(r, counts) PROVE stats'[r] = counts
    BY <1>0, <1>1 DEF Gather
  <1>2. CASE Ask(r) \/ Fetch(r)
    <2>1. UNCHANGED stats
      BY <1>2 DEF Ask, Fetch
    <2>2. QED
      BY <1>2, <2>1
  <1>3. CASE CountPostings(r)
    <2>1. Gather(r, [stats[r] EXCEPT !.postings_total = Cardinality(postings)])
      BY <1>3, Zenon DEF CountPostings
    <2>2. QED
      BY <1>1, <1>3, <2>1, Zenon
  <1>4. CASE CountScores(r)
    <2>1. Gather(r, [stats[r] EXCEPT !.scores_total = Len(scores)])
      BY <1>4, Zenon DEF CountScores
    <2>2. QED
      BY <1>1, <1>4, <2>1, Zenon
  <1>5. CASE AverageScores(r)
    <2>1. Gather(r, [stats[r] EXCEPT !.averaged = Len(scores)])
      BY <1>5, Zenon DEF AverageScores
    <2>2. QED
      BY <1>1, <1>5, <2>1, Zenon
  <1>6. CASE CountBands(r)
    <2>1. Gather(r, [stats[r] EXCEPT !.by_band = BandCounts(scores)])
      BY <1>6, Zenon DEF CountBands
    <2>2. QED
      BY <1>1, <1>6, <2>1, Zenon
  <1>7. CASE CountTags(r)
    <2>1. \E n \in 0..MaxTags : Gather(r, [stats[r] EXCEPT !.tagged = n])
      BY <1>7, Zenon DEF CountTags
    <2>2. QED
      BY <1>1, <1>7, <2>1, Zenon
  <1>8. QED
    BY <1>2, <1>3, <1>4, <1>5, <1>6, <1>7 DEF ReaderStep

LEMMA StatsType ==
    ASSUME ReadsInv, NEW r \in Readers, ReaderStep(r)
    PROVE  DOMAIN stats' = Readers /\ Statistics(stats'[r])
  <1>0. ReadsTypeOK /\ TypeOK /\ Statistics(stats[r])
    BY DEF ReadsInv, IInv, ReadsTypeOK
  <1>1. DOMAIN stats' = Readers
    BY <1>0, Zenon DEF ReaderStep, Ask, Fetch, CountPostings, CountScores, AverageScores,
                       CountBands, CountTags, Gather, ReadsTypeOK
  <1>2. DOMAIN NoStats = {"postings_total", "scores_total", "averaged", "by_band", "tagged"}
    BY DEF NoStats
  <1>3. CASE stats'[r] = stats[r]
    BY <1>0, <1>1, <1>3
  <1>4. CASE stats'[r] = [stats[r] EXCEPT !.postings_total = Cardinality(postings)]
    <2>1. IsFiniteSet(postings)
      BY <1>0, PostingsAssumption, FS_Subset DEF TypeOK
    <2>1a. Cardinality(postings) \in Nat
      BY <2>1, FS_CardinalityType
    <2>2. QED
      BY <1>0, <1>1, <1>2, <1>4, <2>1a DEF Statistics
  <1>5. CASE stats'[r] = [stats[r] EXCEPT !.scores_total = Len(scores)]
    BY <1>0, <1>1, <1>2, <1>5, RowCount DEF Statistics
  <1>6. CASE stats'[r] = [stats[r] EXCEPT !.averaged = Len(scores)]
    BY <1>0, <1>1, <1>2, <1>6, RowCount DEF Statistics
  <1>7. CASE stats'[r] = [stats[r] EXCEPT !.by_band = BandCounts(scores)]
    BY <1>0, <1>1, <1>2, <1>7, BandTotals DEF Statistics
  <1>8. ASSUME NEW n \in 0..MaxTags, stats'[r] = [stats[r] EXCEPT !.tagged = n]
        PROVE  Statistics(stats'[r])
    BY <1>0, <1>1, <1>2, <1>8, RequestsAssumption DEF Statistics
  <1>9. QED
    BY <1>0, <1>1, <1>3, <1>4, <1>5, <1>6, <1>7, <1>8, GatherStep

LEMMA ReadsTypeStep == ReadsInv /\ [ReadsNext]_allVars => ReadsTypeOK'
  <1> SUFFICES ASSUME ReadsInv, [ReadsNext]_allVars PROVE ReadsTypeOK'
    OBVIOUS
  <1> USE DEF ReaderTo
  <1>0. ReadsTypeOK /\ Asked /\ IInv /\ TypeOK
    BY DEF ReadsInv, Timeline, IInv
  <1>1. Seq(DOMAIN scores) \subseteq Seq(DOMAIN scores')
    <2>1. DOMAIN scores \subseteq DOMAIN scores'
      BY <1>0, WritersAlone, RowsStay
    <2>2. QED
      BY <2>1
  <1>2. ASSUME NEW r \in Readers, Ask(r)
        PROVE  /\ reader' \in [Readers -> {"idle", "asked", "ValueError", "answered"}
                                            \cup Counting]
               /\ ask' \in [Readers -> Requests \cup {NoRequest}]
               /\ answer' \in [Readers -> Seq(DOMAIN scores)]
               /\ before' \in [Readers -> SUBSET Calls]
    BY <1>0, <1>2 DEF Ask, ReadsTypeOK
  <1>3. ASSUME NEW r \in Readers, Fetch(r)
        PROVE  /\ reader' \in [Readers -> {"idle", "asked", "ValueError", "answered"}
                                            \cup Counting]
               /\ ask' \in [Readers -> Requests \cup {NoRequest}]
               /\ answer' \in [Readers -> Seq(DOMAIN scores)]
               /\ before' \in [Readers -> SUBSET Calls]
               /\ reader'[r] = "answered" => Len(answer'[r]) <= ask[r].limit
    <2>1. PICK rows \in Answers(postings, scores, ask[r]) :
            answer' = [answer EXCEPT ![r] = rows]
      BY <1>3 DEF Fetch
    <2>2. ask[r] \in Requests /\ Valid(ask[r]) /\ ask[r] # StatsSummary
      BY <1>0, <1>3 DEF Fetch, Asked
    <2>3. rows \in Seq(DOMAIN scores) /\ Len(rows) <= ask[r].limit
      BY <1>0, <2>1, <2>2, AnswerType
    <2>4. reader' = [reader EXCEPT ![r] = "answered"] /\ UNCHANGED <<ask, before>>
      BY <1>3 DEF Fetch
    <2>5. QED
      BY <1>0, <2>1, <2>3, <2>4 DEF ReadsTypeOK
  <1>4. ASSUME NEW r \in Readers,
               \/ CountPostings(r) \/ CountScores(r) \/ AverageScores(r) \/ CountBands(r)
               \/ CountTags(r)
        PROVE  /\ reader' \in [Readers -> {"idle", "asked", "ValueError", "answered"}
                                            \cup Counting]
               /\ UNCHANGED <<ask, answer, before>>
    <2>1. PICK step \in Counting \cup {"answered"} : reader' = [reader EXCEPT ![r] = step]
      BY <1>4, Zenon DEF CountPostings, CountScores, AverageScores, CountBands, CountTags,
                         Counting
    <2>2. UNCHANGED <<ask, answer, before>>
      BY <1>4, Zenon DEF CountPostings, CountScores, AverageScores, CountBands, CountTags
    <2>3. QED
      BY <1>0, <2>1, <2>2 DEF ReadsTypeOK
  <1>5. /\ reader' \in [Readers -> {"idle", "asked", "ValueError", "answered"} \cup Counting]
        /\ ask' \in [Readers -> Requests \cup {NoRequest}]
        /\ answer' \in [Readers -> Seq(DOMAIN scores)]
        /\ before' \in [Readers -> SUBSET Calls]
    <2>1. CASE Write \/ UNCHANGED allVars
      BY <1>0, <2>1 DEF Write, readVars, allVars, ReadsTypeOK
    <2>2. ASSUME UNCHANGED <<ask, answer, before>>
          PROVE  /\ ask' \in [Readers -> Requests \cup {NoRequest}]
                 /\ answer' \in [Readers -> Seq(DOMAIN scores)]
                 /\ before' \in [Readers -> SUBSET Calls]
      BY <1>0, <2>2 DEF ReadsTypeOK
    <2>3. QED
      BY <1>2, <1>3, <1>4, <2>1, <2>2 DEF ReadsNext
  <1>6. ASSUME NEW r \in Readers, reader'[r] = "answered", ask'[r] # StatsSummary
        PROVE  Len(answer'[r]) <= ask'[r].limit
    <2>1. /\ ask'[r] = ask[r]
          /\ \/ reader[r] = "answered" /\ answer'[r] = answer[r]
             \/ Fetch(r)
      BY <1>6, AnsweredBy
    <2>2. CASE reader[r] = "answered" /\ answer'[r] = answer[r]
      BY <1>0, <1>6, <2>1, <2>2 DEF ReadsTypeOK
    <2>3. CASE Fetch(r)
      BY <1>3, <1>6, <2>1, <2>3
    <2>4. QED
      BY <2>1, <2>2, <2>3
  <1>7. prior' \in [Calls -> SUBSET Calls]
    <2>1. CASE Write
      BY <1>0, <2>1 DEF Write, ReadsTypeOK
    <2>2. CASE UNCHANGED prior
      BY <1>0, <2>2 DEF ReadsTypeOK
    <2>3. ASSUME NEW r \in Readers,
                 \/ Ask(r) \/ Fetch(r) \/ CountPostings(r) \/ CountScores(r)
                 \/ AverageScores(r) \/ CountBands(r) \/ CountTags(r)
          PROVE  UNCHANGED prior
      BY <2>3, Zenon DEF Ask, Fetch, CountPostings, CountScores, AverageScores, CountBands,
                         CountTags
    <2>4. QED
      BY <2>1, <2>2, <2>3 DEF ReadsNext, allVars
  <1>8. DOMAIN stats' = Readers /\ \A r \in Readers : Statistics(stats'[r])
    <2>1. CASE Write \/ UNCHANGED allVars
      BY <1>0, <2>1 DEF Write, readVars, allVars, ReadsTypeOK
    <2>2. ASSUME NEW r \in Readers, ReaderStep(r)
          PROVE  DOMAIN stats' = Readers /\ \A s \in Readers : Statistics(stats'[s])
      <3>1. DOMAIN stats' = Readers /\ Statistics(stats'[r])
        BY <2>2, StatsType
      <3>2. \A s \in Readers \ {r} : stats'[s] = stats[s]
        BY <1>0, <2>2, OthersWait
      <3>3. QED
        BY <1>0, <3>1, <3>2 DEF ReadsTypeOK
    <2>3. QED
      BY <2>1, <2>2 DEF ReadsNext, ReaderStep
  <1>9. QED
    BY <1>1, <1>5, <1>6, <1>7, <1>8 DEF ReadsTypeOK

(* A call that is over when a reader asks stays returned.                  *)
LEMMA AskedStep == ReadsInv /\ [ReadsNext]_allVars => Asked'
  <1> SUFFICES ASSUME ReadsInv, [ReadsNext]_allVars PROVE Asked'
    OBVIOUS
  <1> USE DEF ReaderTo
  <1>0. ReadsTypeOK /\ Asked /\ Chronology /\ IInv /\ TypeOK /\ [Next]_vars
    BY WritersAlone DEF ReadsInv, Timeline, IInv
  <1>1. \A c \in Calls : outcome[c] = "returned" => outcome'[c] = "returned"
    <2> SUFFICES ASSUME NEW c \in Calls, outcome[c] = "returned"
                 PROVE  outcome'[c] = "returned"
      OBVIOUS
    <2>1. pc[c] = "done"
      BY <1>0 DEF Chronology
    <2>2. QED
      BY <1>0, <2>1, CallsGoOn
  <1>2. ASSUME NEW r \in Readers, Ask(r) PROVE Asked'
    <2>1. PICK q \in Requests :
            /\ ask' = [ask EXCEPT ![r] = q]
            /\ reader' = [reader EXCEPT ![r] = IF Valid(q) THEN "asked" ELSE "ValueError"]
      BY <1>2 DEF Ask
    <2>2. before' = [before EXCEPT ![r] = {c \in Calls : outcome[c] = "returned"}]
      BY <1>2 DEF Ask
    <2>3. \A s \in Readers : \A c \in before'[s] : outcome'[c] = "returned"
      BY <1>0, <1>1, <2>2 DEF ReadsTypeOK, Asked
    <2>4. ASSUME NEW s \in Readers
          PROVE  /\ reader'[s] \notin {"idle", "ValueError"}
                       => ask'[s] \in Requests /\ Valid(ask'[s])
                 /\ reader'[s] \in Counting => ask'[s] = StatsSummary
      <3>1. CASE s = r
        BY <1>0, <2>1, <3>1 DEF ReadsTypeOK, Counting
      <3>2. CASE s # r
        BY <1>0, <2>1, <3>2 DEF ReadsTypeOK, Asked
      <3>3. QED
        BY <3>1, <3>2
    <2>5. QED
      BY <2>3, <2>4 DEF Asked
  <1>3. ASSUME NEW r \in Readers,
               \/ Fetch(r) \/ CountPostings(r) \/ CountScores(r) \/ AverageScores(r)
               \/ CountBands(r) \/ CountTags(r)
        PROVE  Asked'
    <2>1. PICK step \in Counting \cup {"answered"} :
            /\ reader' = [reader EXCEPT ![r] = step]
            /\ step = "answered" \/ ask[r] = StatsSummary
      <3>1. CASE Fetch(r)
        BY <3>1 DEF Fetch
      <3>2. CASE CountPostings(r)
        BY <3>2, Zenon DEF CountPostings, Counting
      <3>3. CASE CountScores(r) \/ AverageScores(r) \/ CountBands(r)
        <4>1. ask[r] = StatsSummary
          BY <1>0, <3>3, Zenon DEF CountScores, AverageScores, CountBands, Asked, Counting
        <4>2. QED
          BY <3>3, <4>1, Zenon DEF CountScores, AverageScores, CountBands, Counting
      <3>4. CASE CountTags(r)
        BY <3>4, Zenon DEF CountTags
      <3>5. QED
        BY <1>3, <3>1, <3>2, <3>3, <3>4
    <2>2. UNCHANGED <<ask, before>>
      BY <1>3, Zenon DEF Fetch, CountPostings, CountScores, AverageScores, CountBands, CountTags
    <2>3. reader[r] \notin {"idle", "ValueError"}
      BY <1>3, Zenon DEF Fetch, CountPostings, CountScores, AverageScores, CountBands, CountTags
    <2>4. QED
      BY <1>0, <1>1, <2>1, <2>2, <2>3 DEF ReadsTypeOK, Asked, Counting
  <1>4. CASE Write \/ UNCHANGED allVars
    BY <1>0, <1>1, <1>4 DEF Write, readVars, allVars, ReadsTypeOK, Asked
  <1>5. QED
    BY <1>2, <1>3, <1>4 DEF ReadsNext

(* A call that starts finds the earlier ones over, and their stamps behind *)
(* the clock that its own will be read from.                               *)
LEMMA ChronologyStep == ReadsInv /\ [ReadsNext]_allVars => Chronology'
  <1> SUFFICES ASSUME ReadsInv, [ReadsNext]_allVars PROVE Chronology'
    OBVIOUS
  <1>0. ReadsTypeOK /\ Chronology /\ IInv /\ TypeOK /\ Drafts /\ [Next]_vars
    BY WritersAlone DEF ReadsInv, Timeline, IInv
  <1>1. \A c \in Calls : draft[c] # NoRow => draft[c].scored_at \in Nat
    BY <1>0, ClockAssumption DEF Drafts, Rows
  <1>2. \A c \in Calls : \/ prior'[c] = prior[c]
                         \/ /\ pc[c] = "idle"
                            /\ prior'[c] = {d \in Calls : pc[d] = "done"}
    <2>1. CASE Write
      BY <2>1 DEF Write
    <2>2. ASSUME NEW r \in Readers,
                 \/ Ask(r) \/ Fetch(r) \/ CountPostings(r) \/ CountScores(r)
                 \/ AverageScores(r) \/ CountBands(r) \/ CountTags(r)
          PROVE  UNCHANGED prior
      BY <2>2, Zenon DEF Ask, Fetch, CountPostings, CountScores, AverageScores, CountBands,
                         CountTags
    <2>3. QED
      BY <2>1, <2>2 DEF ReadsNext, allVars
  <1>3. ASSUME NEW c \in Calls
        PROVE  /\ outcome'[c] # "none" => pc'[c] = "done"
               /\ draft'[c] # NoRow => /\ draft'[c].posting_id = target'[c]
                                       /\ draft'[c].scored_at <= clock'
    BY <1>0, <1>1, CallsGoOn DEF Chronology
  <1>4. ASSUME NEW c \in Calls, NEW d \in prior'[c]
        PROVE  /\ pc'[d] = "done"
               /\ draft'[c] # NoRow /\ draft'[d] # NoRow
                     => draft'[d].scored_at <= draft'[c].scored_at
    <2>1. d \in Calls /\ pc[d] = "done"
      BY <1>0, <1>2 DEF ReadsTypeOK, Chronology
    <2>2. pc'[d] = "done" /\ draft'[d] = draft[d]
      BY <1>0, <2>1, CallsGoOn
    <2>3. ASSUME draft'[c] # NoRow, draft[d] # NoRow
          PROVE  draft[d].scored_at <= draft'[c].scored_at
      <3>1. CASE draft'[c] = draft[c]
        <4>1. pc[c] # "idle"
          BY <1>0, <2>3, <3>1 DEF Drafts
        <4>2. d \in prior[c]
          BY <1>2, <4>1
        <4>3. QED
          BY <1>0, <2>3, <3>1, <4>2 DEF Chronology
      <3>2. CASE draft'[c].scored_at = clock
        BY <1>0, <2>1, <2>3, <3>2 DEF Chronology
      <3>3. QED
        BY <1>0, <3>1, <3>2, CallsGoOn
    <2>4. QED
      BY <2>2, <2>3
  <1>5. QED
    BY <1>3, <1>4 DEF Chronology

(* The statistics are gathered from a table that only grows.               *)
LEMMA GatheredStep == ReadsInv /\ [ReadsNext]_allVars => Gathered'
  <1> SUFFICES ASSUME ReadsInv, [ReadsNext]_allVars, NEW r \in Readers
               PROVE  GatheredBy(r)'
    BY Zenon DEF Gathered
  <1>0. ReadsTypeOK /\ Asked /\ GatheredBy(r) /\ IInv /\ TypeOK /\ [Next]_vars
    BY WritersAlone DEF ReadsInv, Timeline, IInv, Gathered
  <1>1. Len(scores) \in Nat /\ Len(scores') \in Nat /\ Len(scores) <= Len(scores')
    BY <1>0, RowsGrow
  <1>2. Statistics(stats[r])
    BY <1>0 DEF ReadsTypeOK
  <1>2a. DOMAIN stats[r] = {"postings_total", "scores_total", "averaged", "by_band", "tagged"}
    BY <1>2 DEF Statistics, NoStats
  <1>3. stats[r].scores_total \in Nat /\ stats[r].averaged \in Nat
    BY <1>2 DEF Statistics
  <1>4. ASSUME reader'[r] = reader[r], ask'[r] = ask[r], stats'[r] = stats[r],
               before'[r] = before[r]
        PROVE  GatheredBy(r)'
    <2>1. Past(r, {"scores counted", "averaged", "bands counted"})'
            => Past(r, {"scores counted", "averaged", "bands counted"})
      BY <1>4 DEF Past, Answered
    <2>2. Past(r, {"averaged", "bands counted"})' => Past(r, {"averaged", "bands counted"})
      BY <1>4 DEF Past, Answered
    <2>3. Past(r, {"bands counted"})' => Past(r, {"bands counted"})
      BY <1>4 DEF Past, Answered
    <2>3a. \A n \in Nat : n <= Len(scores) => n <= Len(scores')
      BY <1>1
    <2>3b. /\ reader[r] = "scores counted" => stats[r].scores_total <= Len(scores)
           /\ reader[r] = "averaged" => stats[r].averaged <= Len(scores)
      BY <1>0, Zenon DEF GatheredBy
    <2>4. reader[r] = "scores counted" => stats[r].scores_total <= Len(scores')
      BY <1>3, <2>3a, <2>3b, Zenon
    <2>5. reader[r] = "averaged" => stats[r].averaged <= Len(scores')
      BY <1>3, <2>3a, <2>3b, Zenon
    <2>6. QED
      BY <1>0, <1>4, <2>1, <2>2, <2>3, <2>4, <2>5 DEF GatheredBy
  <1>5. ASSUME NEW s \in Readers, ReaderStep(s), s # r PROVE GatheredBy(r)'
    BY <1>0, <1>4, <1>5, OthersWait
  <1>6. CASE Write \/ UNCHANGED allVars
    BY <1>4, <1>6 DEF Write, readVars, allVars
  <1>7. ASSUME ReaderStep(r) PROVE GatheredBy(r)'
    <2>0. scores' = scores
      BY <1>7, Zenon DEF ReaderStep, Ask, Fetch, CountPostings, CountScores, AverageScores,
                         CountBands, CountTags, vars, store
    <2>1. CASE Ask(r)
      <3>1. reader'[r] \in {"asked", "ValueError"}
        BY <1>0, <2>1 DEF Ask, ReaderTo, ReadsTypeOK
      <3>2. QED
        BY <3>1 DEF GatheredBy, Past, Answered
    <2>2. CASE Fetch(r)
      <3>1. reader'[r] = "answered" /\ ask'[r] = ask[r]
        BY <1>0, <2>2 DEF Fetch, ReaderTo, ReadsTypeOK
      <3>2. ask[r] \in Requests /\ ask[r] # StatsSummary
        BY <1>0, <2>2 DEF Fetch, Asked
      <3>3. ask[r].kind # "stats"
        BY <3>2, RequestsAssumption DEF ScoresHistory
      <3>4. QED
        BY <3>1, <3>3 DEF GatheredBy, Past, Answered
    <2>3. CASE CountPostings(r)
      <3>1. reader'[r] = "postings counted"
        BY <1>0, <2>3, Zenon DEF CountPostings, ReaderTo, ReadsTypeOK
      <3>2. QED
        BY <3>1 DEF GatheredBy, Past, Answered
    <2>4. ASSUME CountScores(r), stats'[r] = [stats[r] EXCEPT !.scores_total = Len(scores)]
          PROVE  GatheredBy(r)'
      <3>1. reader'[r] = "scores counted"
        BY <1>0, <2>4, Zenon DEF CountScores, ReaderTo, ReadsTypeOK
      <3>2. stats'[r].scores_total = Len(scores)
        BY <1>2a, <2>4
      <3>3. Cardinality(before'[r]) <= Len(scores)
        <4>1. before'[r] = before[r]
          BY <2>4, Zenon DEF CountScores
        <4>2. QED
          BY <4>1, ReturnedAreStored
      <3>4. QED
        BY <1>1, <2>0, <3>1, <3>2, <3>3 DEF GatheredBy, Past, Answered
    <2>5. ASSUME AverageScores(r), stats'[r] = [stats[r] EXCEPT !.averaged = Len(scores)]
          PROVE  GatheredBy(r)'
      <3>1. reader[r] = "scores counted"
        BY <2>5, Zenon DEF AverageScores
      <3>2. reader'[r] = "averaged"
        BY <1>0, <2>5, Zenon DEF AverageScores, ReaderTo, ReadsTypeOK
      <3>3. stats'[r].averaged = Len(scores) /\ stats'[r].scores_total = stats[r].scores_total
        BY <1>2a, <2>5
      <3>4. before'[r] = before[r]
        BY <2>5, Zenon DEF AverageScores
      <3>5. /\ Cardinality(before[r]) <= stats[r].scores_total
            /\ stats[r].scores_total <= Len(scores)
        BY <1>0, <3>1 DEF GatheredBy, Past
      <3>6. QED
        BY <1>1, <2>0, <3>2, <3>3, <3>4, <3>5 DEF GatheredBy, Past, Answered
    <2>6. ASSUME CountBands(r), stats'[r] = [stats[r] EXCEPT !.by_band = BandCounts(scores)]
          PROVE  GatheredBy(r)'
      <3>1. reader[r] = "averaged"
        BY <2>6, Zenon DEF CountBands
      <3>2. reader'[r] = "bands counted"
        BY <1>0, <2>6, Zenon DEF CountBands, ReaderTo, ReadsTypeOK
      <3>3. /\ stats'[r].by_band = BandCounts(scores)
            /\ stats'[r].averaged = stats[r].averaged
            /\ stats'[r].scores_total = stats[r].scores_total
        BY <1>2a, <2>6
      <3>4. before'[r] = before[r]
        BY <2>6, Zenon DEF CountBands
      <3>5. /\ Cardinality(before[r]) <= stats[r].scores_total
            /\ stats[r].scores_total <= stats[r].averaged
            /\ stats[r].averaged <= Len(scores)
        BY <1>0, <3>1 DEF GatheredBy, Past
      <3>6. BandTotal(BandCounts(scores)) = Len(scores)
        BY <1>0, BandTotals
      <3>7. QED
        BY <3>2, <3>3, <3>4, <3>5, <3>6 DEF GatheredBy, Past, Answered
    <2>7. ASSUME CountTags(r), NEW n \in 0..MaxTags, stats'[r] = [stats[r] EXCEPT !.tagged = n]
          PROVE  GatheredBy(r)'
      <3>1. reader[r] = "bands counted"
        BY <2>7, Zenon DEF CountTags
      <3>2. reader'[r] = "answered"
        BY <1>0, <2>7, Zenon DEF CountTags, ReaderTo, ReadsTypeOK
      <3>3. /\ stats'[r].by_band = stats[r].by_band
            /\ stats'[r].averaged = stats[r].averaged
            /\ stats'[r].scores_total = stats[r].scores_total
        BY <1>2a, <2>7
      <3>4. before'[r] = before[r]
        BY <2>7, Zenon DEF CountTags
      <3>5. /\ Cardinality(before[r]) <= stats[r].scores_total
            /\ stats[r].scores_total <= stats[r].averaged
            /\ stats[r].averaged <= BandTotal(stats[r].by_band)
        BY <1>0, <3>1 DEF GatheredBy, Past
      <3>6. QED
        BY <3>2, <3>3, <3>4, <3>5 DEF GatheredBy
    <2>8. QED
      BY <1>0, <1>7, <2>1, <2>2, <2>3, <2>4, <2>5, <2>6, <2>7, GatherStep
  <1>8. QED
    BY <1>5, <1>6, <1>7 DEF ReadsNext, ReaderStep

(* What readers are told, and when, rests on the invariant of the writers  *)
(* and on the stamps of calls that did not overlap.                        *)
THEOREM ReadsInvariance == ReadsSpec => []ReadsInv
  <1>1. ReadsInv /\ [ReadsNext]_allVars => ReadsInv'
    BY WritersAlone, WriterInvariant, ReadsTypeStep, AskedStep, ChronologyStep,
       GatheredStep
       DEF ReadsInv, Timeline
  <1>2. QED
    BY InitReadsInv, <1>1, PTL DEF ReadsSpec

(* Stamps are in the order of the calls that did not overlap, although     *)
(* rows are committed in another, and what has returned stays returned.    *)
THEOREM StampsFollowCalls == ReadsSpec => []Timeline
  BY ReadsInvariance, PTL DEF ReadsInv

(* Readers only look: what the writers do beside them is what Rescore says *)
(* of them alone, ...                                                      *)
THEOREM ReadersOnlyLook == ReadsSpec => Spec
  <1>1. ReadsInit => Init
    BY DEF ReadsInit
  <1>2. QED
    BY <1>1, WritersAlone, PTL DEF ReadsSpec, Spec

(* ... so that the tables that are read keep the promise of ScoutStore.    *)
THEOREM ReadTablesAreTheStore == ReadsSpec => ImplementsStore
  BY ReadersOnlyLook, Refinement, PTL

(* A reader is told stored rows only, no more than it asked for.           *)
THEOREM ReadsTypeCorrect == ReadsSpec => []ReadsTypeOK
  BY ReadsInvariance, PTL DEF ReadsInv

-----------------------------------------------------------------------------
(* Answers                                                                 *)

(* An answer stays what it was when it was fetched: rows that are added    *)
(* later are by calls that had not returned when the reader asked.         *)
LEMMA OldAnswer ==
    ASSUME ReadsInv, [ReadsNext]_allVars,
           NEW r \in Readers, reader[r] = "answered", answer'[r] = answer[r],
           before'[r] = before[r]
    PROVE  /\ answer[r] \in Seq(DOMAIN scores)
           /\ \A a \in ToSet(answer[r]) : a \in DOMAIN scores /\ scores'[a] = scores[a]
           /\ \A i \in DOMAIN scores : i \in DOMAIN scores' /\ scores'[i] = scores[i]
           /\ \A b \in DOMAIN scores' :
                scores'[b].call \in before'[r] =>
                    /\ b \in DOMAIN scores
                    /\ scores'[b].call \in Calls
                    /\ prior'[scores'[b].call] = prior[scores'[b].call]
  <1>0. ReadsTypeOK /\ Asked /\ Chronology /\ IInv /\ TypeOK /\ [Next]_vars
    BY WritersAlone DEF ReadsInv, Timeline, IInv
  <1>1. answer[r] \in Seq(DOMAIN scores) /\ before[r] \subseteq Calls
    BY <1>0 DEF ReadsTypeOK
  <1>2. /\ \A i \in DOMAIN scores : i \in DOMAIN scores' /\ scores'[i] = scores[i]
        /\ \A i \in DOMAIN scores' \ DOMAIN scores : pc[scores'[i].call] # "done"
    BY <1>0, RowsStay
  <1>3. \A a \in ToSet(answer[r]) : a \in DOMAIN scores
    BY <1>1 DEF ToSet
  <1>4. ASSUME NEW b \in DOMAIN scores', scores'[b].call \in before'[r]
        PROVE  /\ b \in DOMAIN scores
               /\ scores'[b].call \in Calls
               /\ prior'[scores'[b].call] = prior[scores'[b].call]
    <2> DEFINE c == scores'[b].call
    <2>1. c \in Calls /\ outcome[c] = "returned"
      BY <1>0, <1>1, <1>4 DEF Asked
    <2>2. pc[c] = "done"
      BY <1>0, <2>1 DEF Chronology
    <2>3. prior'[c] = prior[c]
      <3>1. CASE Write
        BY <2>1, <2>2, <3>1 DEF Write
      <3>2. ASSUME NEW s \in Readers,
                   \/ Ask(s) \/ Fetch(s) \/ CountPostings(s) \/ CountScores(s)
                   \/ AverageScores(s) \/ CountBands(s) \/ CountTags(s)
            PROVE  UNCHANGED prior
        BY <3>2, Zenon DEF Ask, Fetch, CountPostings, CountScores, AverageScores, CountBands,
                           CountTags
      <3>3. QED
        BY <3>1, <3>2 DEF ReadsNext, allVars
    <2>4. QED
      BY <1>2, <2>1, <2>2, <2>3
  <1>5. QED
    BY <1>1, <1>2, <1>3, <1>4

(* A fetched answer is one of the SELECT's over the tables as they are.    *)
LEMMA NewAnswer ==
    ASSUME ReadsInv, NEW r \in Readers, Fetch(r)
    PROVE  /\ answer'[r] \in Answers(postings, scores, ask[r])
           /\ ask[r] \in Requests /\ ask[r] # StatsSummary /\ Valid(ask[r])
           /\ answer'[r] \in Seq(DOMAIN scores)
           /\ UNCHANGED <<vars, prior, before>>
           /\ ask' = ask
  <1>1. ReadsTypeOK /\ Asked /\ TypeOK
    BY DEF ReadsInv, Timeline, IInv
  <1>2. PICK rows \in Answers(postings, scores, ask[r]) :
          answer' = [answer EXCEPT ![r] = rows]
    BY DEF Fetch
  <1>3. answer'[r] = rows
    BY <1>1, <1>2 DEF ReadsTypeOK
  <1>4. ask[r] \in Requests /\ ask[r] # StatsSummary /\ Valid(ask[r])
    BY <1>1 DEF Fetch, Asked
  <1>5. rows \in Seq(DOMAIN scores)
    BY <1>1, <1>4, AnswerType
  <1>6. UNCHANGED <<vars, prior, before>> /\ ask' = ask
    BY DEF Fetch
  <1>7. QED
    BY <1>2, <1>3, <1>4, <1>5, <1>6

(* A row that supersedes another has the later stamp.                      *)
LEMMA LaterStamp ==
    ASSUME ReadsInv, NEW r \in Readers, NEW a \in DOMAIN scores, NEW b \in DOMAIN scores,
           Supersedes(b, a, r)
    PROVE  scores[b].scored_at > scores[a].scored_at
  <1>1. Chronology /\ TypeOK /\ Stored
    BY DEF ReadsInv, Timeline, IInv
  <1>2. /\ scores[a] \in Rows /\ scores[a].call \in Calls
        /\ scores[b] \in Rows /\ scores[b].call \in Calls
    BY <1>1, StoredRowType
  <1>3. scores[a] = draft[scores[a].call] /\ scores[b] = draft[scores[b].call]
    BY <1>1 DEF Stored
  <1>4. scores[a] # NoRow /\ scores[b] # NoRow
    BY <1>2, NoRowAssumption
  <1>5. scores[a].scored_at <= scores[b].scored_at
    BY <1>1, <1>2, <1>3, <1>4 DEF Chronology, Supersedes
  <1>6. scores[a].scored_at \in Nat /\ scores[b].scored_at \in Nat
    BY <1>2, ClockAssumption DEF Rows
  <1>7. QED
    BY <1>5, <1>6 DEF Supersedes

LEMMA SupersededStep ==
    ReadsInv /\ ListsNoSupersededScore /\ [ReadsNext]_allVars => ListsNoSupersededScore'
  <1> SUFFICES ASSUME ReadsInv, ListsNoSupersededScore, [ReadsNext]_allVars,
                      NEW r \in Readers, reader'[r] = "answered", ask'[r].kind = "postings",
                      NEW a \in ToSet(answer'[r]), NEW b \in DOMAIN scores',
                      scores'[b].posting_id = scores'[a].posting_id, Supersedes(b, a, r)'
               PROVE  FALSE
    BY DEF ListsNoSupersededScore, Answered
  <1>1. ask'[r] # StatsSummary
    BY DEF StatsSummary
  <1>2. /\ ask'[r] = ask[r] /\ before'[r] = before[r]
        /\ \/ reader[r] = "answered" /\ answer'[r] = answer[r]
           \/ Fetch(r)
    BY <1>1, AnsweredBy
  <1>3. CASE reader[r] = "answered" /\ answer'[r] = answer[r]
    <2>1. /\ a \in DOMAIN scores /\ scores'[a] = scores[a]
          /\ b \in DOMAIN scores /\ scores'[b] = scores[b]
          /\ prior'[scores[b].call] = prior[scores[b].call]
      BY <1>2, <1>3, OldAnswer DEF Supersedes
    <2>2. Supersedes(b, a, r)
      BY <1>2, <2>1 DEF Supersedes
    <2>3. QED
      BY <1>2, <1>3, <2>1, <2>2 DEF ListsNoSupersededScore, Answered
  <1>4. CASE Fetch(r)
    <2> DEFINE q   == ask[r]
               ids == Matching(postings, scores, q)
    <2>1. /\ answer'[r] \in Answers(postings, scores, q)
          /\ Valid(q) /\ q.kind = "postings"
          /\ UNCHANGED <<vars, prior, before>>
      BY <1>2, <1>4, NewAnswer
    <2>2. PICK key : answer'[r] \in Pages(ids, key, q.direction, q.limit, 0)
      BY <2>1 DEF Answers, PostingsAnswers
    <2>3. q.limit \in Nat
      BY <2>1, LimitAssumption DEF Valid
    <2>4. IsFiniteSet(ids)
      BY FiniteRows, FS_Subset DEF Matching, ReadsInv, IInv
    <2>5. answer'[r] \in Seq(ids)
      BY <2>2, <2>3, <2>4, ShortPage
    <2>6. a \in ids
      BY <2>5 DEF ToSet
    <2>7. UNCHANGED scores
      BY <2>1 DEF vars, store
    <2>8. /\ a \in DOMAIN scores /\ b \in DOMAIN scores
          /\ scores[b].scored_at <= scores[a].scored_at
      BY <2>6, <2>7 DEF Matching, LatestRows
    <2>9. Supersedes(b, a, r)
      BY <2>1, <2>7 DEF Supersedes
    <2>10. scores[b].scored_at > scores[a].scored_at
      BY <2>8, <2>9, LaterStamp
    <2>11. scores[a].scored_at \in Nat /\ scores[b].scored_at \in Nat
      BY <2>8, StoredRowType, ClockAssumption DEF Rows, ReadsInv, IInv
    <2>12. QED
      BY <2>8, <2>10, <2>11
  <1>5. QED
    BY <1>2, <1>3, <1>4

(* A posting is never listed with a score that a later call had replaced   *)
(* before the reader asked.                                                *)
THEOREM NoSupersededScores == ReadsSpec => []ListsNoSupersededScore
  <1>1. ReadsInit => ListsNoSupersededScore
    BY DEF ReadsInit, ListsNoSupersededScore, Answered
  <1>2. QED
    BY <1>1, SupersededStep, ReadsInvariance, PTL DEF ReadsSpec

LEMMA TieStep == ReadsInv /\ TwiceOnlyInATie /\ [ReadsNext]_allVars => TwiceOnlyInATie'
  <1> SUFFICES ASSUME ReadsInv, TwiceOnlyInATie, [ReadsNext]_allVars,
                      NEW r \in Readers, reader'[r] = "answered", ask'[r].kind = "postings",
                      NEW j \in DOMAIN answer'[r], NEW k \in DOMAIN answer'[r], j # k
               PROVE  LET a == answer'[r][j]
                          b == answer'[r][k]
                      IN  /\ a # b
                          /\ scores'[a].posting_id = scores'[b].posting_id
                               => scores'[a].scored_at = scores'[b].scored_at
    BY DEF TwiceOnlyInATie, Answered
  <1> DEFINE a == answer'[r][j]
             b == answer'[r][k]
  <1>1. ask'[r] # StatsSummary
    BY DEF StatsSummary
  <1>2. /\ ask'[r] = ask[r] /\ before'[r] = before[r]
        /\ \/ reader[r] = "answered" /\ answer'[r] = answer[r]
           \/ Fetch(r)
    BY <1>1, AnsweredBy
  <1>3. CASE reader[r] = "answered" /\ answer'[r] = answer[r]
    <2>1. a \in ToSet(answer[r]) /\ b \in ToSet(answer[r])
      BY <1>3 DEF ToSet
    <2>2. scores'[a] = scores[a] /\ scores'[b] = scores[b]
      BY <1>2, <1>3, <2>1, OldAnswer
    <2>3. QED
      BY <1>2, <1>3, <2>2 DEF TwiceOnlyInATie, Answered
  <1>4. CASE Fetch(r)
    <2> DEFINE q   == ask[r]
               ids == Matching(postings, scores, q)
    <2>1. /\ answer'[r] \in Answers(postings, scores, q)
          /\ Valid(q) /\ q.kind = "postings"
          /\ UNCHANGED <<vars, prior, before>>
      BY <1>2, <1>4, NewAnswer
    <2>2. PICK key : answer'[r] \in Pages(ids, key, q.direction, q.limit, 0)
      BY <2>1 DEF Answers, PostingsAnswers
    <2>3. q.limit \in Nat
      BY <2>1, LimitAssumption DEF Valid
    <2>4. IsFiniteSet(ids)
      BY FiniteRows, FS_Subset DEF Matching, ReadsInv, IInv
    <2>5. answer'[r] \in Seq(ids) /\ a # b
      BY <2>2, <2>3, <2>4, ShortPage
    <2>6. a \in ids /\ b \in ids
      BY <2>5
    <2>7. UNCHANGED scores
      BY <2>1 DEF vars, store
    <2>8. /\ a \in DOMAIN scores /\ b \in DOMAIN scores
          /\ scores[a].posting_id = scores[b].posting_id =>
               /\ scores[b].scored_at <= scores[a].scored_at
               /\ scores[a].scored_at <= scores[b].scored_at
      BY <2>6 DEF Matching, LatestRows
    <2>9. scores[a].scored_at \in Nat /\ scores[b].scored_at \in Nat
      BY <2>8, StoredRowType, ClockAssumption DEF Rows, ReadsInv, IInv
    <2>10. QED
      BY <2>5, <2>7, <2>8, <2>9
  <1>5. QED
    BY <1>2, <1>3, <1>4

(* The JOIN with the latest score lists a posting twice only when two of   *)
(* its scores carry the same, greatest stamp.                              *)
THEOREM TwiceListedIsATie == ReadsSpec => []TwiceOnlyInATie
  <1>1. ReadsInit => TwiceOnlyInATie
    BY DEF ReadsInit, TwiceOnlyInATie, Answered
  <1>2. QED
    BY <1>1, TieStep, ReadsInvariance, PTL DEF ReadsSpec

LEMMA HistoryStep ==
    ReadsInv /\ HistoryNewestFirst /\ [ReadsNext]_allVars => HistoryNewestFirst'
  <1> SUFFICES ASSUME ReadsInv, HistoryNewestFirst, [ReadsNext]_allVars,
                      NEW r \in Readers, reader'[r] = "answered", ask'[r].kind = "history",
                      NEW k \in DOMAIN answer'[r], NEW b \in DOMAIN scores',
                      Supersedes(b, answer[r][k], r)'
               PROVE  \E j \in 1..(k - 1) : answer'[r][j] = b
    BY DEF HistoryNewestFirst, Answered
  <1>1. ask'[r] # StatsSummary
    BY DEF StatsSummary
  <1>2. /\ ask'[r] = ask[r] /\ before'[r] = before[r]
        /\ \/ reader[r] = "answered" /\ answer'[r] = answer[r]
           \/ Fetch(r)
    BY <1>1, AnsweredBy
  <1> DEFINE a == answer'[r][k]
  <1>3. CASE reader[r] = "answered" /\ answer'[r] = answer[r]
    <2>1. a \in ToSet(answer[r])
      BY <1>3 DEF ToSet
    <2>2. /\ a \in DOMAIN scores /\ scores'[a] = scores[a]
          /\ b \in DOMAIN scores /\ scores'[b] = scores[b]
          /\ prior'[scores[b].call] = prior[scores[b].call]
      BY <1>2, <1>3, <2>1, OldAnswer DEF Supersedes
    <2>3. Supersedes(b, answer[r][k], r)
      BY <1>2, <1>3, <2>2 DEF Supersedes
    <2>4. QED
      BY <1>2, <1>3, <2>2, <2>3 DEF HistoryNewestFirst, Answered
  <1>4. CASE Fetch(r)
    <2> DEFINE q   == ask[r]
               ids == DOMAIN scores
               key == [i \in DOMAIN scores |-> scores[i].scored_at]
    <2>1. /\ answer'[r] \in Answers(postings, scores, q)
          /\ q \in Requests /\ q # StatsSummary /\ Valid(q) /\ q.kind = "history"
          /\ UNCHANGED <<vars, prior, before>>
      BY <1>2, <1>4, NewAnswer
    <2>2. q.limit \in Nat /\ q.offset = 0
      BY <2>1, RequestsAssumption, LimitAssumption DEF Valid, ScoresHistory
    <2>3. answer'[r] \in Pages(ids, key, "DESC", q.limit, 0)
      BY <2>1, <2>2 DEF Answers, HistoryAnswers
    <2>4. IsFiniteSet(ids) /\ key \in [ids -> Int] /\ key \in [ids -> Nat]
      <3>1. \A i \in ids : scores[i].scored_at \in Nat
        BY StoredRowType, ClockAssumption DEF Rows, ReadsInv, IInv
      <3>2. QED
        BY <3>1, FiniteRows DEF ReadsInv, Timeline, IInv
    <2> HIDE DEF key
    <2>5. /\ answer'[r] \in Seq(ids)
          /\ \A i, j \in DOMAIN answer'[r] :
               i < j => key[answer'[r][i]] >= key[answer'[r][j]]
          /\ \A i \in ids : i \notin ToSet(answer'[r]) =>
               \A j \in ToSet(answer'[r]) : key[j] >= key[i]
      BY <2>2, <2>3, <2>4, FirstPage
    <2>6. UNCHANGED scores
      BY <2>1 DEF vars, store
    <2>7. a \in ids /\ a \in ToSet(answer'[r]) /\ b \in ids
      BY <2>5, <2>6 DEF ToSet
    <2>8. Supersedes(b, a, r)
      BY <2>1, <2>6 DEF Supersedes
    <2>9. key[b] > key[a]
      BY <2>7, <2>8, LaterStamp DEF key
    <2>10. key[a] \in Nat /\ key[b] \in Nat
      BY <2>4, <2>7
    <2>11. b \in ToSet(answer'[r])
      BY <2>5, <2>7, <2>9, <2>10
    <2>12. PICK j \in DOMAIN answer'[r] : answer'[r][j] = b
      BY <2>11 DEF ToSet
    <2>13. j # k /\ ~(k < j)
      BY <2>5, <2>9, <2>10, <2>12
    <2>14. j \in Nat \ {0} /\ k \in Nat \ {0}
      BY <2>5
    <2>15. j \in 1..(k - 1)
      BY <2>13, <2>14
    <2>16. QED
      BY <2>12, <2>15
  <1>5. QED
    BY <1>2, <1>3, <1>4

(* "newest first" (queries.py:229), as far as the stamps can tell.         *)
THEOREM HistoryIsNewestFirst == ReadsSpec => []HistoryNewestFirst
  <1>1. ReadsInit => HistoryNewestFirst
    BY DEF ReadsInit, HistoryNewestFirst, Answered
  <1>2. QED
    BY <1>1, HistoryStep, ReadsInvariance, PTL DEF ReadsSpec

(* A posting that has a score has a latest one.                            *)
LEMMA LatestRowExists ==
    ASSUME TypeOK, NEW i \in DOMAIN scores
    PROVE  \E a \in DOMAIN scores : /\ scores[a].posting_id = scores[i].posting_id
                                    /\ a \in LatestRows(scores, scores[i].posting_id)
  <1> DEFINE p    == scores[i].posting_id
             rows == {j \in DOMAIN scores : scores[j].posting_id = p}
             T    == {MaxClock - scores[j].scored_at : j \in rows}
  <1>1. \A j \in DOMAIN scores : scores[j].scored_at \in 0..MaxClock
    BY StoredRowType DEF Rows
  <1>2. T \subseteq Nat
    BY <1>1, ClockAssumption
  <1>3. T # {}
    OBVIOUS
  <1> HIDE DEF T
  <1>4. PICK x \in T : \A y \in T : ~ (<<y, x>> \in OpToRel(<, Nat))
    BY <1>2, <1>3, NatLessThanWellFounded, WFMin
  <1>5. \A y \in T : ~ (y < x)
    BY <1>2, <1>4 DEF OpToRel
  <1>6. PICK a \in rows : x = MaxClock - scores[a].scored_at
    BY <1>4 DEF T
  <1>7. \A j \in rows : scores[j].scored_at <= scores[a].scored_at
    <2> SUFFICES ASSUME NEW j \in rows PROVE scores[j].scored_at <= scores[a].scored_at
      OBVIOUS
    <2>1. ~ (MaxClock - scores[j].scored_at < MaxClock - scores[a].scored_at)
      BY <1>5, <1>6 DEF T
    <2>2. scores[j].scored_at \in 0..MaxClock /\ scores[a].scored_at \in 0..MaxClock
      BY <1>1
    <2>3. QED
      BY <2>1, <2>2, ClockAssumption
  <1>8. QED
    BY <1>6, <1>7 DEF LatestRows

LEMMA ScoredPostingStep ==
    ReadsInv /\ ListsEveryScoredPosting /\ [ReadsNext]_allVars => ListsEveryScoredPosting'
  <1> SUFFICES ASSUME ReadsInv, ListsEveryScoredPosting, [ReadsNext]_allVars,
                      NEW r \in Readers, reader'[r] = "answered", ask'[r].kind = "postings",
                      NEW c \in before'[r],
                      Len(answer'[r]) < ask'[r].limit,
                      ask'[r].role_anchor \in {Unset, Info[target'[c]].role_anchor},
                      ask'[r].date_after = Unset
                          \/ Info[target'[c]].posted_date >= ask'[r].date_after,
                      \A i \in DOMAIN scores' : scores'[i].posting_id = target'[c]
                                                  => scores'[i].score >= ask'[r].min_score
               PROVE  \E a \in ToSet(answer'[r]) : scores'[a].posting_id = target'[c]
    BY DEF ListsEveryScoredPosting, Answered
  <1>0. ReadsTypeOK /\ Asked /\ Chronology /\ IInv /\ TypeOK /\ [Next]_vars
    BY WritersAlone DEF ReadsInv, Timeline, IInv
  <1>1. ask'[r] # StatsSummary
    BY DEF StatsSummary
  <1>2. /\ ask'[r] = ask[r] /\ before'[r] = before[r]
        /\ \/ reader[r] = "answered" /\ answer'[r] = answer[r]
           \/ Fetch(r)
    BY <1>1, AnsweredBy
  <1>3. c \in Calls /\ outcome[c] = "returned" /\ target'[c] = target[c]
    BY <1>0, <1>2, CallsGoOn DEF ReadsTypeOK, Asked
  <1> DEFINE q == ask[r]
             p == target[c]
  <1>4. CASE reader[r] = "answered" /\ answer'[r] = answer[r]
    <2>1. /\ \A a \in ToSet(answer[r]) : scores'[a] = scores[a]
          /\ \A i \in DOMAIN scores : i \in DOMAIN scores' /\ scores'[i] = scores[i]
      BY <1>2, <1>4, OldAnswer
    <2>2. \A i \in DOMAIN scores : scores[i].posting_id = p => scores[i].score >= q.min_score
      BY <1>2, <1>3, <2>1
    <2>3. \E a \in ToSet(answer[r]) : scores[a].posting_id = p
      <3>1. r \in Answered("postings") /\ c \in before[r]
        BY <1>2, <1>4 DEF Answered
      <3>2. /\ Len(answer[r]) < q.limit
            /\ q.role_anchor \in {Unset, Info[p].role_anchor}
            /\ q.date_after = Unset \/ Info[p].posted_date >= q.date_after
        BY <1>2, <1>3, <1>4
      <3>3. QED
        BY <2>2, <3>1, <3>2 DEF ListsEveryScoredPosting
    <2>4. QED
      BY <1>3, <1>4, <2>1, <2>3
  <1>5. CASE Fetch(r)
    <2> DEFINE ids == Matching(postings, scores, q)
    <2>1. /\ answer'[r] \in Answers(postings, scores, q)
          /\ Valid(q) /\ q.kind = "postings"
          /\ UNCHANGED scores
      BY <1>2, <1>5, NewAnswer DEF vars, store
    <2>2. PICK key : answer'[r] \in Pages(ids, key, q.direction, q.limit, 0)
      BY <2>1 DEF Answers, PostingsAnswers
    <2>3. q.limit \in Nat
      BY <2>1, LimitAssumption DEF Valid
    <2>4. ids \subseteq DOMAIN scores /\ IsFiniteSet(ids)
      BY <1>0, FiniteRows, FS_Subset DEF Matching
    <2>5. ids \subseteq ToSet(answer'[r])
      BY <1>2, <2>2, <2>3, <2>4, ShortPage
    <2>6. PICK i \in DOMAIN scores : scores[i].posting_id = p
      <3>1. PICK i \in DOMAIN scores : scores[i].call = c /\ scores[i] = draft[c]
        BY <1>0, <1>3 DEF IInv, Stored
      <3>2. draft[c] # NoRow
        BY <1>0, <3>1, StoredRowType, NoRowAssumption
      <3>3. QED
        BY <1>0, <1>3, <3>1, <3>2 DEF Chronology
    <2>7. PICK a \in DOMAIN scores : scores[a].posting_id = p /\ a \in LatestRows(scores, p)
      BY <1>0, <2>6, LatestRowExists
    <2>8. p \in postings
      BY <1>0, <2>6 DEF IInv, ReferentialIntegrity, Referenced
    <2>9. /\ scores[a].score >= q.min_score
          /\ q.role_anchor # Unset => Info[p].role_anchor = q.role_anchor
          /\ q.date_after  # Unset => Info[p].posted_date >= q.date_after
      BY <1>2, <1>3, <2>1, <2>7
    <2>10. a \in ids
      BY <2>7, <2>8, <2>9 DEF Matching
    <2>11. QED
      BY <1>3, <2>1, <2>5, <2>7, <2>10
  <1>6. QED
    BY <1>2, <1>4, <1>5

(* A posting is not lost from the list: not behind an older score, not by  *)
(* a join with a posting that is gone.                                     *)
THEOREM EveryScoredPostingListed == ReadsSpec => []ListsEveryScoredPosting
  <1>1. ReadsInit => ListsEveryScoredPosting
    BY DEF ReadsInit, ListsEveryScoredPosting, Answered
  <1>2. QED
    BY <1>1, ScoredPostingStep, ReadsInvariance, PTL DEF ReadsSpec

-----------------------------------------------------------------------------
(* The statistics may be torn, but each count covers what had been         *)
(* returned when the reader asked, and no later one covers less.           *)
THEOREM StatisticsOnlyGrow == ReadsSpec => []StatsOnlyGrow
  <1>1. ReadsInv => StatsOnlyGrow
    BY DEF ReadsInv, Timeline, Gathered, GatheredBy, Past, Answered, StatsOnlyGrow
  <1>2. QED
    BY <1>1, ReadsInvariance, PTL
=============================================================================
