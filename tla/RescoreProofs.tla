--------------------------- MODULE RescoreProofs ---------------------------
(***************************************************************************)
(* Safety of Rescore for any number of calls and scripts, any dataset, any *)
(* replies and rubric texts: IInv is inductive and implies the properties  *)
(* the runs check, and Rescore implements ScoutStore.                      *)
(***************************************************************************)
EXTENDS RescoreHistory, ScoringProofs

LEMMA VersionType ==
    ASSUME NEW text
    PROVE  ExtractVersion(text) \in Versions
  BY DEF ExtractVersion, Versions

LEMMA InitIInv == Init => IInv
  <1> SUFFICES ASSUME Init PROVE IInv
    OBVIOUS
  <1>1. TypeOK
    BY ClockAssumption DEF Init, TypeOK, Ids, CallSteps, SeedSteps, Outcomes
  <1>2. Drafts /\ Checked
    BY DEF Init, Drafts, Checked
  <1>3. LockHeldByTransaction
    BY WriterAssumption DEF Init, LockHeldByTransaction
  <1>4. Stored
    BY DEF Init, Stored
  <1>5. ReferentialIntegrity
    BY DEF Init, ReferentialIntegrity, Referenced
  <1>6. QED
    BY <1>1, <1>2, <1>3, <1>4, <1>5 DEF IInv

(* What a call of score_posting ends with: an exception, or a score in     *)
(* range with one of the three bands.                                      *)
LEMMA ResultType ==
    ASSUME NEW result \in Results
    PROVE  /\ result.outcome \in Exceptions \cup {"returned"}
           /\ result.outcome = "returned" => /\ result.score \in 0..MaxScore
                                            /\ result.score_band \in Bands
  <1>1. PICK reply \in Replies : result = ScorePosting(reply)
    BY DEF Results
  <1>2. /\ reply.fault \in Exceptions \cup {"none"}
        /\ reply.text \in Seq(ToSet(reply.text))
    BY RepliesAssumption
  <1>3. QED
    BY <1>1, <1>2, OutcomeType, ReturnedScoreIsValid

(* A draft that LlmReply makes is a row the Score model accepts.           *)
LEMMA DraftType ==
    ASSUME TypeOK, NEW c \in Calls, NEW result \in Results, result.outcome = "returned"
    PROVE  /\ Draft(c, result) \in Rows
           /\ Draft(c, result).call = c
           /\ Draft(c, result).posting_id = target[c]
           /\ Draft(c, result).rubric_version = ExtractVersion(sent[c])
  <1>1. result.score \in 0..MaxScore /\ result.score_band \in Bands
    BY ResultType
  <1>2. ExtractVersion(sent[c]) \in Versions
    BY VersionType
  <1>3. target[c] \in Ids /\ clock \in 0..MaxClock
    BY DEF TypeOK
  <1>4. QED
    BY <1>1, <1>2, <1>3 DEF Draft, Rows

LEMMA TypeStep == IInv /\ [Next]_vars => TypeOK'
  <1> SUFFICES ASSUME IInv, [Next]_vars PROVE TypeOK'
    OBVIOUS
  <1> USE DEF TypeOK, Goto, Finish, SeedTo, store, callVars, CallSteps, SeedSteps, Outcomes
  <1>0. TypeOK
    BY DEF IInv
  <1>1. ASSUME NEW c \in Calls, Start(c) PROVE TypeOK'
    BY <1>0, <1>1 DEF Start
  <1>2. ASSUME NEW c \in Calls, GetPosting(c) PROVE TypeOK'
    BY <1>0, <1>2, Zenon DEF GetPosting, Exceptions
  <1>3. ASSUME NEW c \in Calls, LoadRubric(c) PROVE TypeOK'
    BY <1>0, <1>3 DEF LoadRubric
  <1>4. ASSUME NEW c \in Calls, LlmReply(c) PROVE TypeOK'
    <2>1. PICK result \in Results :
            \/ /\ result.outcome = "returned"
               /\ draft' = [draft EXCEPT ![c] = Draft(c, result)]
               /\ Goto(c, "inserting")
            \/ /\ result.outcome # "returned"
               /\ Finish(c, result.outcome)
               /\ UNCHANGED draft
      BY <1>4 DEF LlmReply
    <2>2. CASE result.outcome = "returned"
      BY <1>0, <1>4, <2>1, <2>2, DraftType DEF LlmReply
    <2>3. CASE result.outcome # "returned"
      <3>1. result.outcome \in Outcomes
        BY ResultType, <2>3
      <3>2. QED
        BY <1>0, <1>4, <2>1, <2>3, <3>1 DEF LlmReply
    <2>4. QED
      BY <2>2, <2>3
  <1>5. ASSUME NEW c \in Calls, Insert(c) PROVE TypeOK'
    BY <1>0, <1>5 DEF Insert, BeginInsert, BusyTimeout
  <1>6. ASSUME NEW c \in Calls, Commit(c) PROVE TypeOK'
    <2>1. draft[c] \in Rows
      BY <1>6 DEF Commit, IInv, Drafts
    <2>2. QED
      BY <1>0, <1>6, <2>1 DEF Commit
  <1>7. ASSUME NEW c \in Calls, CloseAborted(c) \/ Return(c) \/ Abandon(c) PROVE TypeOK'
    BY <1>0, <1>7 DEF CloseAborted, Return, Abandon
  <1>8. ASSUME NEW s \in Seeders,
               SeedDelete(s) \/ SeedAbort(s) \/ SeedCommit(s)
        PROVE  TypeOK'
    BY <1>0, <1>8 DEF SeedDelete, SeedAbort, SeedCommit
  <1>9. ASSUME NEW s \in Seeders, SeedInsert(s) PROVE TypeOK'
    BY <1>0, <1>9 DEF SeedInsert, Ids
  <1>10. ASSUME NEW s \in Seeders, SeedBusyTimeout(s) \/ SeedKill(s) PROVE TypeOK'
    BY <1>0, <1>10 DEF SeedBusyTimeout, SeedKill, SeedEnds
  <1>11. CASE EditRubric \/ UNCHANGED vars
    BY <1>0, <1>11 DEF EditRubric, vars
  <1>12. CASE Tick
    BY <1>0, <1>12, ClockAssumption DEF Tick
  <1>13. QED
    BY <1>1, <1>2, <1>3, <1>4, <1>5, <1>6, <1>7, <1>8, <1>9, <1>10, <1>11, <1>12
       DEF Next, CallStep, SeedStep

(* Only LoadRubric writes sent[c] and only LlmReply writes draft[c].       *)
LEMMA DraftsStep == IInv /\ [Next]_vars => Drafts'
  <1> SUFFICES ASSUME IInv, [Next]_vars PROVE Drafts'
    OBVIOUS
  <1> USE DEF Drafts, Goto, Finish, store, callVars
  <1>0. TypeOK /\ Drafts
    BY DEF IInv
  <1>1. ASSUME NEW c \in Calls, Start(c) \/ GetPosting(c) PROVE Drafts'
    BY <1>0, <1>1 DEF Start, GetPosting, TypeOK
  <1>2. ASSUME NEW c \in Calls, LoadRubric(c) PROVE Drafts'
    BY <1>0, <1>2 DEF LoadRubric, TypeOK
  <1>3. ASSUME NEW c \in Calls, LlmReply(c) PROVE Drafts'
    <2>1. PICK result \in Results :
            \/ /\ result.outcome = "returned"
               /\ draft' = [draft EXCEPT ![c] = Draft(c, result)]
               /\ Goto(c, "inserting")
            \/ /\ result.outcome # "returned"
               /\ Finish(c, result.outcome)
               /\ UNCHANGED draft
      BY <1>3 DEF LlmReply
    <2>2. CASE result.outcome = "returned"
      <3> DEFINE row == Draft(c, result)
      <3>1. /\ row \in Rows
            /\ row.call = c
            /\ row.posting_id = target[c]
            /\ row.rubric_version = ExtractVersion(sent[c])
        BY <1>0, <2>2, DraftType
      <3>2. /\ draft' = [draft EXCEPT ![c] = row]
            /\ pc' = [pc EXCEPT ![c] = "inserting"]
            /\ UNCHANGED <<sent, target>>
        BY <1>3, <2>1, <2>2 DEF LlmReply
      <3>3. sent[c] \in RubricTexts
        BY <1>0, <1>3 DEF LlmReply
      <3> HIDE DEF row
      <3>4. QED
        BY <1>0, <3>1, <3>2, <3>3, NoRowAssumption DEF TypeOK
    <2>3. CASE result.outcome # "returned"
      BY <1>0, <1>3, <2>1, <2>3 DEF LlmReply, TypeOK
    <2>4. QED
      BY <2>2, <2>3
  <1>4. ASSUME NEW c \in Calls, Insert(c) PROVE Drafts'
    BY <1>0, <1>4 DEF Insert, BeginInsert, BusyTimeout, TypeOK
  <1>5. ASSUME NEW c \in Calls, Commit(c) \/ CloseAborted(c) \/ Return(c) \/ Abandon(c)
        PROVE  Drafts'
    BY <1>0, <1>5 DEF Commit, CloseAborted, Return, Abandon, TypeOK
  <1>6. ASSUME NEW s \in Seeders,
               SeedDelete(s) \/ SeedStep(s) \/ SeedBusyTimeout(s) \/ SeedKill(s)
        PROVE  Drafts'
    BY <1>0, <1>6 DEF SeedDelete, SeedStep, SeedAbort, SeedCommit, SeedInsert,
                      SeedBusyTimeout, SeedKill
  <1>7. CASE EditRubric \/ Tick \/ UNCHANGED vars
    BY <1>0, <1>7 DEF EditRubric, Tick, vars
  <1>8. QED
    BY <1>1, <1>2, <1>3, <1>4, <1>5, <1>6, <1>7 DEF Next, CallStep

(* A transaction is entered with the lock free and left by freeing it.     *)
LEMMA LockStep == IInv /\ [Next]_vars => LockHeldByTransaction'
  <1> SUFFICES ASSUME IInv, [Next]_vars PROVE LockHeldByTransaction'
    OBVIOUS
  <1> USE WriterAssumption DEF LockHeldByTransaction, Goto, Finish, SeedTo, store, callVars
  <1>0. TypeOK /\ LockHeldByTransaction
    BY DEF IInv
  <1>1. ASSUME NEW c \in Calls, Start(c) \/ GetPosting(c) \/ LoadRubric(c)
        PROVE  LockHeldByTransaction'
    BY <1>0, <1>1 DEF Start, GetPosting, LoadRubric, TypeOK
  <1>2. ASSUME NEW c \in Calls, LlmReply(c) PROVE LockHeldByTransaction'
    <2>1. /\ pc' = [pc EXCEPT ![c] = "inserting"] \/ pc' = [pc EXCEPT ![c] = "done"]
          /\ pc[c] = "scoring"
          /\ UNCHANGED <<writer, seed>>
      BY <1>2 DEF LlmReply
    <2>2. QED
      BY <1>0, <2>1 DEF TypeOK
  <1>3. ASSUME NEW c \in Calls, Insert(c) PROVE LockHeldByTransaction'
    <2>1. CASE BeginInsert(c)
      BY <1>0, <2>1 DEF BeginInsert, TypeOK
    <2>2. CASE BusyTimeout(c)
      BY <1>0, <2>2 DEF BusyTimeout, TypeOK
    <2>3. QED
      BY <1>3, <2>1, <2>2 DEF Insert
  <1>4. ASSUME NEW c \in Calls, Commit(c) \/ CloseAborted(c) \/ Return(c)
        PROVE  LockHeldByTransaction'
    <2>1. CASE Commit(c)
      BY <1>0, <2>1 DEF Commit, TypeOK
    <2>2. CASE CloseAborted(c)
      BY <1>0, <2>2 DEF CloseAborted, TypeOK
    <2>3. CASE Return(c)
      BY <1>0, <2>3 DEF Return, TypeOK
    <2>4. QED
      BY <1>4, <2>1, <2>2, <2>3
  <1>5. ASSUME NEW c \in Calls, Abandon(c) PROVE LockHeldByTransaction'
    BY <1>0, <1>5 DEF Abandon, TypeOK
  <1>6. ASSUME NEW s \in Seeders, SeedDelete(s) \/ SeedStep(s)
        PROVE  LockHeldByTransaction'
    <2>1. CASE SeedDelete(s)
      BY <1>0, <2>1 DEF SeedDelete, TypeOK
    <2>2. CASE SeedAbort(s) \/ SeedCommit(s)
      BY <1>0, <2>2 DEF SeedAbort, SeedCommit, TypeOK
    <2>3. CASE SeedInsert(s)
      BY <1>0, <2>3 DEF SeedInsert, TypeOK
    <2>4. QED
      BY <1>6, <2>1, <2>2, <2>3 DEF SeedStep
  <1>7. ASSUME NEW s \in Seeders, SeedBusyTimeout(s) \/ SeedKill(s)
        PROVE  LockHeldByTransaction'
    BY <1>0, <1>7 DEF SeedBusyTimeout, SeedKill, SeedEnds, TypeOK
  <1>8. CASE EditRubric \/ Tick \/ UNCHANGED vars
    BY <1>0, <1>8 DEF EditRubric, Tick, vars
  <1>9. QED
    BY <1>1, <1>2, <1>3, <1>4, <1>5, <1>6, <1>7, <1>8 DEF Next, CallStep

(* What a commit adds to the scores table.                                 *)
LEMMA CommitAppends ==
    ASSUME IInv, NEW c \in Calls, Commit(c)
    PROVE  /\ draft[c] \in Rows
           /\ draft[c].call = c
           /\ DOMAIN scores' = DOMAIN scores \cup {Len(scores) + 1}
           /\ Len(scores) + 1 \notin DOMAIN scores
           /\ \A i \in DOMAIN scores : scores'[i] = scores[i]
           /\ scores'[Len(scores) + 1] = draft[c]
           /\ Referenced' = Referenced \cup {draft[c].posting_id}
  <1>1. /\ draft[c] \in Rows
        /\ draft[c].call = c
    BY DEF Commit, IInv, Drafts
  <1>2. scores \in Seq(Rows) /\ scores' = Append(scores, draft[c])
    BY DEF Commit, IInv, TypeOK
  <1>3. /\ DOMAIN scores' = DOMAIN scores \cup {Len(scores) + 1}
        /\ Len(scores) + 1 \notin DOMAIN scores
        /\ \A i \in DOMAIN scores : scores'[i] = scores[i]
        /\ scores'[Len(scores) + 1] = draft[c]
    BY <1>1, <1>2
  <1>4. Referenced' = Referenced \cup {draft[c].posting_id}
    BY <1>3, Zenon DEF Referenced
  <1>5. QED
    BY <1>1, <1>3, <1>4

(* Nobody else writes to the tables while a transaction relies on what it  *)
(* has checked.                                                            *)
LEMMA CheckedStep == IInv /\ [Next]_vars => Checked'
  <1> SUFFICES ASSUME IInv, [Next]_vars PROVE Checked'
    OBVIOUS
  <1> USE DEF Checked, Goto, Finish, SeedTo, store, callVars
  <1>0. TypeOK /\ Checked
    BY DEF IInv
  <1>1. ASSUME NEW c \in Calls, Start(c) \/ GetPosting(c) \/ LoadRubric(c)
        PROVE  Checked'
    BY <1>0, <1>1 DEF Start, GetPosting, LoadRubric, TypeOK, Referenced
  <1>2. ASSUME NEW c \in Calls, LlmReply(c) PROVE Checked'
    <2>1. /\ pc' = [pc EXCEPT ![c] = "inserting"] \/ pc' = [pc EXCEPT ![c] = "done"]
          /\ pc[c] = "scoring"
          /\ \A d \in Calls \ {c} : draft'[d] = draft[d]
          /\ UNCHANGED <<postings, scores, seed>>
      BY <1>0, <1>2 DEF LlmReply, TypeOK
    <2>2. QED
      BY <1>0, <2>1 DEF TypeOK, Referenced
  <1>3. ASSUME NEW c \in Calls, Insert(c) PROVE Checked'
    BY <1>0, <1>3 DEF Insert, BeginInsert, BusyTimeout, TypeOK, Referenced
  <1>4. ASSUME NEW c \in Calls, Commit(c) PROVE Checked'
    <2>1. writer = c
      BY <1>4 DEF Commit, IInv, LockHeldByTransaction
    <2>2. \A s \in Seeders : seed'[s] # "deleted"
      BY <1>4, <2>1, WriterAssumption DEF Commit, IInv, LockHeldByTransaction
    <2>3. QED
      BY <1>0, <1>4, <2>2 DEF Commit, TypeOK
  <1>5. ASSUME NEW c \in Calls, CloseAborted(c) \/ Return(c) \/ Abandon(c)
        PROVE  Checked'
    BY <1>0, <1>5 DEF CloseAborted, Return, Abandon, TypeOK, Referenced
  <1>6. ASSUME NEW s \in Seeders, SeedDelete(s) PROVE Checked'
    <2>1. seed'[s] = "deleted" => Referenced \cap Synth = {}
      BY <1>0, <1>6 DEF SeedDelete, IInv, ReferentialIntegrity, TypeOK
    <2>2. QED
      BY <1>0, <1>6, <2>1 DEF SeedDelete, TypeOK, Referenced
  <1>7. ASSUME NEW s \in Seeders, SeedCommit(s) PROVE Checked'
    <2>1. writer = s
      BY <1>7 DEF SeedCommit, IInv, LockHeldByTransaction
    <2>2. \A c \in Calls : pc'[c] # "inserted"
      BY <1>7, <2>1, WriterAssumption DEF SeedCommit, IInv, LockHeldByTransaction
    <2>3. QED
      BY <1>0, <1>7, <2>2 DEF SeedCommit, TypeOK, Referenced
  <1>8. ASSUME NEW s \in Seeders,
               SeedAbort(s) \/ SeedInsert(s) \/ SeedBusyTimeout(s) \/ SeedKill(s)
        PROVE  Checked'
    BY <1>0, <1>8 DEF SeedAbort, SeedInsert, SeedBusyTimeout, SeedKill, SeedEnds, TypeOK,
                      Referenced
  <1>9. CASE EditRubric \/ Tick \/ UNCHANGED vars
    BY <1>0, <1>9 DEF EditRubric, Tick, vars, Referenced
  <1>10. QED
    BY <1>1, <1>2, <1>3, <1>4, <1>5, <1>6, <1>7, <1>8, <1>9 DEF Next, CallStep, SeedStep

(* A commit adds a reference to a posting its transaction has checked, and *)
(* the script deletes only what its transaction found unreferenced.        *)
LEMMA ReferencesStep == IInv /\ [Next]_vars => ReferentialIntegrity'
  <1> SUFFICES ASSUME IInv, [Next]_vars PROVE ReferentialIntegrity'
    OBVIOUS
  <1> USE DEF ReferentialIntegrity
  <1>0. Checked /\ ReferentialIntegrity
    BY DEF IInv
  <1>1. ASSUME NEW c \in Calls, Commit(c) PROVE ReferentialIntegrity'
    BY <1>0, <1>1, CommitAppends DEF Commit, Checked
  <1>2. ASSUME NEW s \in Seeders, SeedCommit(s) \/ SeedInsert(s)
        PROVE  ReferentialIntegrity'
    BY <1>0, <1>2 DEF SeedCommit, SeedInsert, Checked, Referenced
  <1>3. CASE UNCHANGED <<postings, scores>>
    BY <1>0, <1>3 DEF Referenced
  <1>4. ASSUME NEW c \in Calls,
               \/ Start(c) \/ GetPosting(c) \/ LoadRubric(c) \/ LlmReply(c)
               \/ Insert(c) \/ CloseAborted(c) \/ Return(c) \/ Abandon(c)
        PROVE  UNCHANGED <<postings, scores>>
    BY <1>4 DEF Start, GetPosting, LoadRubric, LlmReply, Insert, BeginInsert, BusyTimeout,
                CloseAborted, Return, Abandon, store
  <1>5. ASSUME NEW s \in Seeders,
               SeedDelete(s) \/ SeedAbort(s) \/ SeedBusyTimeout(s) \/ SeedKill(s)
        PROVE  UNCHANGED <<postings, scores>>
    BY <1>5 DEF SeedDelete, SeedAbort, SeedBusyTimeout, SeedKill, store
  <1>6. CASE EditRubric \/ Tick \/ UNCHANGED vars
    BY <1>0, <1>6 DEF EditRubric, Tick, vars, store, Referenced
  <1>7. QED
    BY <1>1, <1>2, <1>3, <1>4, <1>5, <1>6 DEF Next, CallStep, SeedStep

(* Every stored row is a row of some call.                                 *)
LEMMA StoredRowType ==
    ASSUME TypeOK, NEW i \in DOMAIN scores
    PROVE  scores[i] \in Rows /\ scores[i].call \in Calls
  <1>1. scores[i] \in Rows
    BY DEF TypeOK
  <1>2. QED
    BY <1>1 DEF Rows

(* The commit is the only step that stores a row, and a call commits once. *)
LEMMA StoredStep == IInv /\ [Next]_vars => Stored'
  <1> SUFFICES ASSUME IInv, [Next]_vars PROVE Stored'
    OBVIOUS
  <1> USE DEF Goto, Finish, SeedTo, store, callVars
  <1>0. TypeOK /\ Stored /\ Drafts
    BY DEF IInv
  <1>1. \A i \in DOMAIN scores : scores[i].call \in Calls
    BY <1>0, StoredRowType
  <1>2. ASSUME NEW c \in Calls, Start(c) \/ GetPosting(c) \/ LoadRubric(c)
        PROVE  Stored'
    BY <1>0, <1>1, <1>2 DEF Start, GetPosting, LoadRubric, TypeOK, Stored
  <1>3. ASSUME NEW c \in Calls, LlmReply(c) PROVE Stored'
    <2>1. PICK how \in Outcomes \ {"returned"} :
            /\ \/ Goto(c, "inserting")
               \/ Finish(c, how)
            /\ \A d \in Calls \ {c} : draft'[d] = draft[d]
            /\ pc[c] = "scoring"
            /\ UNCHANGED scores
      <3>1. PICK result \in Results :
              \/ /\ result.outcome = "returned"
                 /\ draft' = [draft EXCEPT ![c] = Draft(c, result)]
                 /\ Goto(c, "inserting")
              \/ /\ result.outcome # "returned"
                 /\ Finish(c, result.outcome)
                 /\ UNCHANGED draft
        BY <1>3 DEF LlmReply
      <3>2. result.outcome \in Exceptions \cup {"returned"}
        BY ResultType
      <3>3. "none" \in Outcomes \ {"returned"} /\ Exceptions \subseteq Outcomes
        BY DEF Outcomes
      <3>4. UNCHANGED scores /\ pc[c] = "scoring"
        BY <1>3 DEF LlmReply
      <3>5. QED
        BY <1>0, <3>1, <3>2, <3>3, <3>4 DEF TypeOK
    <2>2. QED
      BY <1>0, <1>1, <2>1 DEF TypeOK, Stored
  <1>4. ASSUME NEW c \in Calls, Insert(c) PROVE Stored'
    BY <1>0, <1>1, <1>4 DEF Insert, BeginInsert, BusyTimeout, TypeOK, Stored
  <1>5. ASSUME NEW c \in Calls, Commit(c) PROVE Stored'
    <2> DEFINE n == Len(scores) + 1
    <2>1. /\ draft[c].call = c
          /\ DOMAIN scores' = DOMAIN scores \cup {n}
          /\ n \notin DOMAIN scores
          /\ \A i \in DOMAIN scores : scores'[i] = scores[i]
          /\ scores'[n] = draft[c]
      BY <1>5, CommitAppends
    <2> HIDE DEF n
    <2>2. \A i \in DOMAIN scores : scores[i].call # c
      BY <1>0, <1>5 DEF Commit, Stored
    <2>3. /\ pc' = [pc EXCEPT ![c] = "committed"]
          /\ UNCHANGED <<draft, outcome>>
      BY <1>5 DEF Commit
    <2>4. ASSUME NEW i \in DOMAIN scores'
          PROVE  LET d == scores'[i].call
                 IN  /\ scores'[i] = draft'[d]
                     /\ pc'[d] \in {"committed", "done"}
                     /\ pc'[d] = "done" => outcome'[d] \in {"returned", "abandoned"}
      BY <1>0, <1>1, <2>1, <2>2, <2>3 DEF TypeOK, Stored
    <2>5. \A i, j \in DOMAIN scores' : scores'[i].call = scores'[j].call => i = j
      BY <1>0, <2>1, <2>2 DEF Stored
    <2>6. ASSUME NEW d \in Calls, pc'[d] = "committed" \/ outcome'[d] = "returned"
          PROVE  \E i \in DOMAIN scores' : scores'[i].call = d
      <3>1. CASE d = c
        BY <2>1, <3>1
      <3>2. CASE d # c
        BY <1>0, <2>1, <2>3, <2>6, <3>2 DEF TypeOK, Stored
      <3>3. QED
        BY <3>1, <3>2
    <2>7. QED
      BY <2>4, <2>5, <2>6 DEF Stored
  <1>6. ASSUME NEW c \in Calls, CloseAborted(c) PROVE Stored'
    BY <1>0, <1>1, <1>6 DEF CloseAborted, TypeOK, Stored
  <1>7. ASSUME NEW c \in Calls, Return(c) \/ Abandon(c) PROVE Stored'
    BY <1>0, <1>1, <1>7 DEF Return, Abandon, TypeOK, Stored
  <1>8. ASSUME NEW s \in Seeders,
               SeedDelete(s) \/ SeedStep(s) \/ SeedBusyTimeout(s) \/ SeedKill(s)
        PROVE  Stored'
    BY <1>0, <1>8 DEF SeedDelete, SeedStep, SeedAbort, SeedCommit, SeedInsert,
                      SeedBusyTimeout, SeedKill, Stored
  <1>9. CASE EditRubric \/ Tick \/ UNCHANGED vars
    BY <1>0, <1>9 DEF EditRubric, Tick, vars, Stored
  <1>10. QED
    BY <1>2, <1>3, <1>4, <1>5, <1>6, <1>7, <1>8, <1>9 DEF Next, CallStep

(* The strengthening holds in every reachable state, under no fairness.    *)
THEOREM Invariance == Spec => []IInv
  <1>1. IInv /\ [Next]_vars => IInv'
    BY TypeStep, DraftsStep, LockStep, CheckedStep, StoredStep, ReferencesStep DEF IInv
  <1>2. QED
    BY InitIInv, <1>1, PTL DEF Spec

(* Every variable keeps its type; in particular every stored row is one    *)
(* the Score model of queries.py:79-93 accepts when it is read back.       *)
THEOREM TypeCorrect == Spec => []TypeOK
  BY Invariance, PTL DEF IInv

(* No score ever refers to a posting that is gone, whatever the seed       *)
(* script deletes while calls wait for the LLM or for the write lock.      *)
THEOREM ReferencesHold == Spec => []ReferentialIntegrity
  BY Invariance, PTL DEF IInv

(* The write lock of scout.db never outlives the transaction that took it, *)
(* cancellations and kills included.                                       *)
THEOREM LockNeverLeaks == Spec => []LockHeldByTransaction
  BY Invariance, PTL DEF IInv

(* A call that returned has exactly its row stored, a call that failed has *)
(* none, and no call has two.                                              *)
THEOREM OutcomesHold == Spec => []OutcomeMatchesStore
  <1>1. ASSUME IInv PROVE OutcomeMatchesStore
    <2>1. TypeOK /\ Stored
      BY <1>1 DEF IInv
    <2>2. ASSUME NEW c \in Calls,
                 NEW i \in DOMAIN scores, scores[i].call = c
          PROVE  /\ scores[i] = draft[c]
                 /\ pc[c] = "committed" \/ outcome[c] \in {"returned", "abandoned"}
      BY <2>1, <2>2 DEF Stored
    <2>3. ASSUME NEW c \in Calls, outcome[c] = "returned"
          PROVE  \E i \in DOMAIN scores : scores[i].call = c
      BY <2>1, <2>3 DEF Stored
    <2>4. \A i, j \in DOMAIN scores : scores[i].call = scores[j].call => i = j
      BY <2>1 DEF Stored
    <2>5. QED
      BY <2>2, <2>3, <2>4 DEF OutcomeMatchesStore
  <1>2. QED
    BY Invariance, <1>1, PTL

(* The version read from a text, without a search: that of its first line  *)
(* that is not blank.                                                      *)
Leads(text, k) == k \in DOMAIN text /\ \A j \in 1..(k - 1) : text[j] = Blank

VersionRead(text, v) ==
    \/ v \in Stamps /\ \E k \in DOMAIN text : Leads(text, k) /\ text[k] = v
    \/ v = Unversioned /\ \A k \in DOMAIN text : Leads(text, k) => text[k] \notin Stamps

LEMMA VersionLeads ==
    ASSUME NEW text \in Seq(Lines)
    PROVE  VersionRead(text, ExtractVersion(text))
  <1> DEFINE n == Len(text)
             lines == {i \in 1..n : text[i] # Blank}
             first == SelectInSeq(text, LAMBDA line : line # Blank)
  <1>1. n \in Nat /\ DOMAIN text = 1..n
    BY LenProperties
  <1>2. ExtractVersion(text) = IF first # 0 /\ text[first] \in Stamps THEN text[first]
                                                                  ELSE Unversioned
    BY DEF ExtractVersion
  <1>3. first = IF lines # {} THEN Min(lines) ELSE 0
    BY DEF SelectInSeq
  <1>4. lines \subseteq 1..n
    BY Zenon
  <1> HIDE DEF first, lines
  <1>5. \/ first = 0 /\ lines = {}
        \/ first \in lines /\ \A i \in lines : first <= i
    BY <1>1, <1>3, <1>4, FirstIndex
  <1>6. \A i \in 1..n : i \in lines <=> text[i] # Blank
    BY DEF lines
  <1>7. Blank \notin Stamps
    BY LinesAssumption
  <1> HIDE DEF n
  <1>8. CASE lines = {}
    <2>1. \A k \in 1..n : text[k] \notin Stamps
      BY <1>6, <1>7, <1>8
    <2>2. ExtractVersion(text) = Unversioned
      BY <1>2, <1>5, <1>8
    <2>3. QED
      BY <1>1, <2>1, <2>2 DEF VersionRead
  <1>9. CASE first \in lines /\ \A i \in lines : first <= i
    <2>1. first \in 1..n /\ first # 0
      BY <1>1, <1>4, <1>9
    <2>2. \A j \in 1..(first - 1) : j \in 1..n /\ ~(first <= j)
      BY <1>1, <2>1
    <2>3. Leads(text, first)
      BY <1>1, <1>6, <1>9, <2>1, <2>2 DEF Leads
    <2>4. ASSUME NEW k \in 1..n, Leads(text, k), k # first PROVE text[k] \notin Stamps
      <3>1. CASE k < first
        <4>1. k \in 1..(first - 1)
          BY <1>1, <2>1, <3>1
        <4>2. QED
          BY <1>7, <2>3, <4>1 DEF Leads
      <3>2. CASE first < k
        <4>1. first \in 1..(k - 1)
          BY <1>1, <2>1, <3>2
        <4>2. text[first] # Blank
          BY <1>6, <1>9, <2>1
        <4>3. QED
          BY <2>4, <4>1, <4>2 DEF Leads
      <3>3. QED
        BY <1>1, <2>1, <2>4, <3>1, <3>2
    <2>5. QED
      BY <1>1, <1>2, <2>1, <2>3, <2>4 DEF VersionRead
  <1>10. QED
    BY <1>5, <1>8, <1>9

(* A stored score carries the version of the text its own call was given,  *)
(* as that text's first line has it, however often the file is edited.     *)
THEOREM VersionIsOfTheTextSent ==
    Spec => [](\A i \in DOMAIN scores :
                  VersionRead(sent[scores[i].call], scores[i].rubric_version))
  <1>1. ASSUME IInv
        PROVE  \A i \in DOMAIN scores :
                  VersionRead(sent[scores[i].call], scores[i].rubric_version)
    <2> SUFFICES ASSUME NEW i \in DOMAIN scores
                 PROVE  VersionRead(sent[scores[i].call], scores[i].rubric_version)
      OBVIOUS
    <2> DEFINE c == scores[i].call
    <2>1. scores[i] \in Rows /\ c \in Calls
      BY <1>1, StoredRowType DEF IInv
    <2>2. scores[i] = draft[c]
      BY <1>1 DEF IInv, Stored
    <2>3. draft[c] # NoRow
      BY <2>1, <2>2, NoRowAssumption
    <2>4. /\ sent[c] \in RubricTexts
          /\ scores[i].rubric_version = ExtractVersion(sent[c])
      BY <1>1, <2>1, <2>2, <2>3 DEF IInv, Drafts
    <2>5. sent[c] \in Seq(Lines)
      BY <2>4, RubricAssumption
    <2>6. QED
      BY <2>4, <2>5, VersionLeads
  <1>2. QED
    BY Invariance, <1>1, PTL

(* Where every rubric text in use has a stamp of its own, a stored score   *)
(* tells the very text the LLM was given, whatever was edited meanwhile.   *)
THEOREM ScoresAreTraced ==
    ASSUME \A a, b \in RubricTexts : ExtractVersion(a) = ExtractVersion(b) => a = b
    PROVE  Spec => []ScoreTracedToRubric
  <1>1. ASSUME IInv PROVE ScoreTracedToRubric
    <2> SUFFICES ASSUME NEW i \in DOMAIN scores
                 PROVE  /\ sent[scores[i].call] # NoFile
                        /\ \A text \in RubricTexts :
                             ExtractVersion(text) = scores[i].rubric_version
                                 => text = sent[scores[i].call]
      BY DEF ScoreTracedToRubric
    <2> DEFINE c == scores[i].call
    <2>1. scores[i] \in Rows /\ c \in Calls
      BY <1>1, StoredRowType DEF IInv
    <2>2. scores[i] = draft[c]
      BY <1>1 DEF IInv, Stored
    <2>3. draft[c] # NoRow
      BY <2>1, <2>2, NoRowAssumption
    <2>4. /\ sent[c] \in RubricTexts
          /\ scores[i].rubric_version = ExtractVersion(sent[c])
      BY <1>1, <2>1, <2>2, <2>3 DEF IInv, Drafts
    <2>5. QED
      BY <2>4, RubricAssumption
  <1>2. QED
    BY Invariance, <1>1, PTL

(* Inductive together: the insertion is one statement, so it restores all  *)
(* of the synthetic postings or none of them.                              *)
LEMMA SynthStep ==
    TypeOK /\ AllOrNothing /\ SynthLostOnlyBetweenCommits /\ [Next]_vars
        => AllOrNothing' /\ SynthLostOnlyBetweenCommits'
  <1> SUFFICES ASSUME TypeOK, AllOrNothing, SynthLostOnlyBetweenCommits, [Next]_vars
               PROVE  AllOrNothing' /\ SynthLostOnlyBetweenCommits'
    OBVIOUS
  <1> USE DEF AllOrNothing, SynthLostOnlyBetweenCommits, SeedTo, store, callVars
  <1>1. ASSUME NEW c \in Calls, Start(c) \/ CallStep(c) \/ Abandon(c)
        PROVE  UNCHANGED <<postings, seed>>
    BY <1>1 DEF Start, CallStep, GetPosting, LoadRubric, LlmReply, Insert, BeginInsert,
                BusyTimeout, Commit, CloseAborted, Return, Abandon
  <1>2. ASSUME NEW s \in Seeders, SeedDelete(s) \/ SeedAbort(s) \/ SeedCommit(s)
        PROVE  AllOrNothing' /\ SynthLostOnlyBetweenCommits'
    BY <1>2 DEF SeedDelete, SeedAbort, SeedCommit, TypeOK
  <1>3. ASSUME NEW s \in Seeders, SeedInsert(s)
        PROVE  AllOrNothing' /\ SynthLostOnlyBetweenCommits'
    BY <1>3 DEF SeedInsert, TypeOK
  <1>4. ASSUME NEW s \in Seeders, SeedBusyTimeout(s) \/ SeedKill(s)
        PROVE  AllOrNothing' /\ SynthLostOnlyBetweenCommits'
    BY <1>4 DEF SeedBusyTimeout, SeedKill, SeedEnds, TypeOK
  <1>5. CASE EditRubric \/ Tick \/ UNCHANGED vars
    BY <1>5 DEF EditRubric, Tick, vars
  <1>6. QED
    BY <1>1, <1>2, <1>3, <1>4, <1>5 DEF Next, SeedStep

(* After a run of the seed script the synthetic postings are there, unless *)
(* another run is between its two commits or ended there.                  *)
THEOREM SynthRestored == Spec => []SynthLostOnlyBetweenCommits
  <1>1. Init => AllOrNothing /\ SynthLostOnlyBetweenCommits
    BY IdsAssumption DEF Init, AllOrNothing, SynthLostOnlyBetweenCommits
  <1>2. QED
    BY <1>1, SynthStep, TypeCorrect, PTL DEF Spec

(* Rows are only added, each by a call that is not over.                   *)
LEMMA RowsStay ==
    ASSUME IInv, [Next]_vars
    PROVE  /\ DOMAIN scores \subseteq DOMAIN scores'
           /\ \A i \in DOMAIN scores : scores'[i] = scores[i]
           /\ \A i \in DOMAIN scores' \ DOMAIN scores :
                scores'[i].call \in Calls /\ pc[scores'[i].call] # "done"
  <1> USE DEF store, callVars
  <1>1. ASSUME NEW c \in Calls, Commit(c)
        PROVE  /\ DOMAIN scores \subseteq DOMAIN scores'
               /\ \A i \in DOMAIN scores : scores'[i] = scores[i]
               /\ \A i \in DOMAIN scores' \ DOMAIN scores :
                    scores'[i].call \in Calls /\ pc[scores'[i].call] # "done"
    <2>1. /\ draft[c].call = c
          /\ DOMAIN scores' = DOMAIN scores \cup {Len(scores) + 1}
          /\ \A i \in DOMAIN scores : scores'[i] = scores[i]
          /\ scores'[Len(scores) + 1] = draft[c]
      BY <1>1, CommitAppends
    <2>2. pc[c] = "inserted"
      BY <1>1 DEF Commit
    <2>3. QED
      BY <2>1, <2>2
  <1>2. ASSUME NEW c \in Calls,
               \/ Start(c) \/ GetPosting(c) \/ LoadRubric(c) \/ LlmReply(c)
               \/ Insert(c) \/ CloseAborted(c) \/ Return(c) \/ Abandon(c)
        PROVE  UNCHANGED scores
    BY <1>2 DEF Start, GetPosting, LoadRubric, LlmReply, Insert, BeginInsert, BusyTimeout,
                CloseAborted, Return, Abandon
  <1>3. ASSUME NEW s \in Seeders,
               SeedDelete(s) \/ SeedStep(s) \/ SeedBusyTimeout(s) \/ SeedKill(s)
        PROVE  UNCHANGED scores
    BY <1>3 DEF SeedDelete, SeedStep, SeedAbort, SeedCommit, SeedInsert, SeedBusyTimeout, SeedKill
  <1>4. CASE EditRubric \/ Tick \/ UNCHANGED vars
    BY <1>4 DEF EditRubric, Tick, vars
  <1>5. QED
    BY <1>1, <1>2, <1>3, <1>4 DEF Next, CallStep

(* The scores table is a log: no row is ever changed, moved or removed.    *)
THEOREM RowsAreNeverRewritten ==
    Spec => [][/\ DOMAIN scores \subseteq DOMAIN scores'
               /\ \A i \in DOMAIN scores : scores'[i] = scores[i]]_vars
  <1>1. IInv /\ [Next]_vars => [/\ DOMAIN scores \subseteq DOMAIN scores'
                               /\ \A i \in DOMAIN scores : scores'[i] = scores[i]]_vars
    BY RowsStay
  <1>2. QED
    BY <1>1, Invariance, PTL DEF Spec

-----------------------------------------------------------------------------
(* Refinement                                                              *)

LEMMA InitRefines == Init => Store!Init
  BY DEF Init, Store!Init

(* A commit is AddScore, the script's two commits are RemoveSynth and      *)
(* LoadSynth, and no other step changes a table.                           *)
LEMMA StepRefines == IInv /\ [Next]_vars => [Store!Next]_(Store!vars)
  <1> SUFFICES ASSUME IInv, [Next]_vars PROVE [Store!Next]_(Store!vars)
    OBVIOUS
  <1> USE DEF Store!vars
  <1>1. ASSUME NEW c \in Calls, Commit(c) PROVE Store!Next
    <2>1. draft[c] \in Rows /\ draft[c].call = c
      BY <1>1, CommitAppends
    <2>2. draft[c].posting_id \in postings
      BY <1>1 DEF Commit, IInv, Checked
    <2>3. \A i \in DOMAIN scores : scores[i].call # draft[c].call
      BY <1>1, <2>1 DEF Commit, IInv, Stored
    <2>4. Store!AddScore(draft[c])
      BY <1>1, <2>2, <2>3 DEF Commit, Store!AddScore
    <2>5. QED
      BY <2>1, <2>4 DEF Store!Next
  <1>2. ASSUME NEW s \in Seeders, SeedCommit(s) PROVE Store!Next
    <2>1. \A i \in DOMAIN scores : scores[i].posting_id \notin Synth
      BY <1>2 DEF SeedCommit, IInv, Checked, Referenced
    <2>2. QED
      BY <1>2, <2>1 DEF SeedCommit, Store!RemoveSynth, Store!Next
  <1>3. ASSUME NEW s \in Seeders, SeedInsert(s)
        PROVE  Store!Next \/ UNCHANGED <<postings, scores>>
    BY <1>3 DEF SeedInsert, Store!LoadSynth, Store!Next
  <1>4. ASSUME NEW c \in Calls,
               \/ Start(c) \/ GetPosting(c) \/ LoadRubric(c) \/ LlmReply(c)
               \/ Insert(c) \/ CloseAborted(c) \/ Return(c) \/ Abandon(c)
        PROVE  UNCHANGED <<postings, scores>>
    BY <1>4 DEF Start, GetPosting, LoadRubric, LlmReply, Insert, BeginInsert, BusyTimeout,
                CloseAborted, Return, Abandon, store
  <1>5. ASSUME NEW s \in Seeders,
               SeedDelete(s) \/ SeedAbort(s) \/ SeedBusyTimeout(s) \/ SeedKill(s)
        PROVE  UNCHANGED <<postings, scores>>
    BY <1>5 DEF SeedDelete, SeedAbort, SeedBusyTimeout, SeedKill, store
  <1>6. CASE EditRubric \/ Tick \/ UNCHANGED vars
    BY <1>6 DEF EditRubric, Tick, vars, store
  <1>7. QED
    BY <1>1, <1>2, <1>3, <1>4, <1>5, <1>6 DEF Next, CallStep, SeedStep

(* Connections, locks, failed statements and cut-off calls are invisible   *)
(* to a reader of scout.db: it sees the abstract store.                    *)
THEOREM Refinement == Spec => ImplementsStore
  BY InitRefines, StepRefines, Invariance, PTL DEF Spec, ImplementsStore, Store!Spec

-----------------------------------------------------------------------------
(* Failures and their history                                              *)

(* The history variables hinder no step of Rescore.                        *)
LEMMA HistoryOnlyLooks == HistorySpec => Spec
  <1>1. HistoryInit => Init
    BY DEF HistoryInit
  <1>2. [HistoryNext]_<<vars, history>> => [Next]_vars
    BY DEF HistoryNext
  <1>3. QED
    BY <1>1, <1>2, PTL DEF HistorySpec, Spec

(* What they have seen they keep, and they see every deletion of a call's  *)
(* posting and every insertion beside a purged run.                        *)
LEMMA Seen ==
    ASSUME [HistoryNext]_<<vars, history>>
    PROVE  /\ [Next]_vars
           /\ gone \subseteq gone' /\ overtaken \subseteq overtaken'
           /\ \A c \in Calls :
                pc[c] \notin {"idle", "reading", "done"}
                  /\ target[c] \in postings /\ target[c] \notin postings' => c \in gone'
           /\ \A s \in Seeders :
                /\ seed[s] = "purged" /\ seed'[s] = "purged"
                /\ Synth \cap postings = {} /\ Synth \cap postings' # {}
                => s \in overtaken'
  <1>1. CASE HistoryNext
    BY <1>1 DEF HistoryNext, Observe, UnderWay
  <1>2. CASE UNCHANGED <<vars, history>>
    BY <1>2 DEF vars, store, history
  <1>3. QED
    BY <1>1, <1>2

(* Only the script deletes, all that is synthetic and nothing else.        *)
LEMMA FoundStep == IInv /\ Found /\ [HistoryNext]_<<vars, history>> => Found'
  <1> SUFFICES ASSUME IInv, Found, [HistoryNext]_<<vars, history>> PROVE Found'
    OBVIOUS
  <1> USE DEF Found, Goto, Finish, SeedTo, store, callVars
  <1>0. /\ TypeOK /\ Drafts
        /\ gone \subseteq gone' /\ overtaken \subseteq overtaken'
    BY Seen DEF IInv
  <1>1. ASSUME NEW c \in Calls, Start(c) \/ GetPosting(c) \/ LoadRubric(c)
        PROVE  Found'
    BY <1>0, <1>1 DEF Start, GetPosting, LoadRubric, TypeOK, Referenced
  <1>2. ASSUME NEW c \in Calls, LlmReply(c) PROVE Found'
    <2>1. /\ pc' = [pc EXCEPT ![c] = "inserting"] \/ pc' = [pc EXCEPT ![c] = "done"]
          /\ pc[c] = "scoring"
          /\ UNCHANGED <<postings, scores, seed, target>>
      BY <1>2 DEF LlmReply
    <2>2. QED
      BY <1>0, <2>1 DEF TypeOK, Referenced
  <1>3. ASSUME NEW c \in Calls, Insert(c) PROVE Found'
    BY <1>0, <1>3 DEF Insert, BeginInsert, BusyTimeout, TypeOK, Drafts, Referenced
  <1>4. ASSUME NEW c \in Calls, Commit(c) PROVE Found'
    <2>1. Referenced \subseteq Referenced'
      BY <1>4, CommitAppends DEF IInv
    <2>2. QED
      BY <1>0, <1>4, <2>1 DEF Commit, TypeOK
  <1>5. ASSUME NEW c \in Calls, CloseAborted(c) \/ Return(c) \/ Abandon(c)
        PROVE  Found'
    BY <1>0, <1>5 DEF CloseAborted, Return, Abandon, TypeOK, Referenced
  <1>6. ASSUME NEW s \in Seeders, SeedDelete(s) \/ SeedAbort(s) PROVE Found'
    BY <1>0, <1>6 DEF SeedDelete, SeedAbort, TypeOK, Referenced
  <1>7. ASSUME NEW s \in Seeders, SeedCommit(s) PROVE Found'
    <2>1. \A c \in Calls :
             pc[c] \notin {"idle", "reading", "done"}
               /\ target[c] \in postings /\ target[c] \notin postings' => c \in gone'
      BY Seen
    <2>2. /\ postings' = postings \ Synth
          /\ UNCHANGED <<pc, target, scores>>
          /\ seed' = [seed EXCEPT ![s] = "purged"]
      BY <1>7 DEF SeedCommit
    <2>3. Others \subseteq postings'
      BY <2>2, IdsAssumption
    <2>4. ASSUME NEW c \in Calls
          PROVE  /\ pc'[c] \in {"loading", "scoring", "inserting"} /\ target'[c] \notin postings'
                       => target'[c] \in Synth /\ c \in gone'
                 /\ pc'[c] = "aborting" => target'[c] \in Synth /\ c \in gone'
      BY <1>0, <2>1, <2>2
    <2>5. ASSUME NEW d \in Seeders
          PROVE  /\ seed'[d] = "refused" => Referenced' \cap Synth # {}
                 /\ seed'[d] = "purged" /\ Synth \cap postings' # {} => d \in overtaken'
      BY <1>0, <2>2 DEF TypeOK, Referenced
    <2>6. QED
      BY <2>3, <2>4, <2>5
  <1>8. ASSUME NEW s \in Seeders, SeedInsert(s) PROVE Found'
    <2>1. \A d \in Seeders :
             /\ seed[d] = "purged" /\ seed'[d] = "purged"
             /\ Synth \cap postings = {} /\ Synth \cap postings' # {}
             => d \in overtaken'
      BY Seen
    <2>2. /\ postings \subseteq postings'
          /\ UNCHANGED <<pc, target, scores>>
          /\ \/ seed' = [seed EXCEPT ![s] = "done"]
             \/ seed' = [seed EXCEPT ![s] = "IntegrityError"]
      BY <1>8 DEF SeedInsert
    <2>3. ASSUME NEW d \in Seeders
          PROVE  /\ seed'[d] = "refused" => Referenced' \cap Synth # {}
                 /\ seed'[d] = "purged" /\ Synth \cap postings' # {} => d \in overtaken'
      BY <1>0, <2>1, <2>2 DEF TypeOK, Referenced
    <2>4. QED
      BY <1>0, <2>2, <2>3
  <1>9. ASSUME NEW s \in Seeders, SeedBusyTimeout(s) \/ SeedKill(s) PROVE Found'
    BY <1>0, <1>9 DEF SeedBusyTimeout, SeedKill, SeedEnds, TypeOK, Referenced
  <1>10. CASE EditRubric \/ Tick \/ UNCHANGED vars
    BY <1>0, <1>10 DEF EditRubric, Tick, vars, Referenced
  <1>11. [Next]_vars
    BY Seen
  <1>12. QED
    BY <1>1, <1>2, <1>3, <1>4, <1>5, <1>6, <1>7, <1>8, <1>9, <1>10, <1>11
       DEF Next, CallStep, SeedStep

(* What explains a failure is not undone: history is only added to, and a  *)
(* reference stays.                                                        *)
LEMMA ExplainedStep ==
    IInv /\ Found /\ FailuresExplained /\ [HistoryNext]_<<vars, history>> => FailuresExplained'
  <1> SUFFICES ASSUME IInv, Found, FailuresExplained, [HistoryNext]_<<vars, history>>
               PROVE  FailuresExplained'
    OBVIOUS
  <1> USE DEF FailuresExplained, Goto, Finish, SeedTo, store, callVars
  <1>0. /\ TypeOK /\ Found
        /\ gone \subseteq gone' /\ overtaken \subseteq overtaken'
    BY Seen DEF IInv
  <1>1. ASSUME NEW c \in Calls,
               \/ Start(c) \/ GetPosting(c) \/ LoadRubric(c) \/ Insert(c)
               \/ Return(c) \/ Abandon(c)
        PROVE  FailuresExplained'
    BY <1>0, <1>1 DEF Start, GetPosting, LoadRubric, Insert, BeginInsert, BusyTimeout, Return,
                      Abandon, TypeOK, Referenced
  <1>2. ASSUME NEW c \in Calls, LlmReply(c) PROVE FailuresExplained'
    <2>1. PICK how \in Exceptions \cup {"returned", "none"} :
            /\ \/ UNCHANGED outcome
               \/ outcome' = [outcome EXCEPT ![c] = how]
            /\ UNCHANGED <<scores, seed, target>>
      <3>1. PICK result \in Results :
              \/ /\ result.outcome = "returned"
                 /\ Goto(c, "inserting")
              \/ /\ result.outcome # "returned"
                 /\ Finish(c, result.outcome)
        BY <1>2 DEF LlmReply
      <3>2. result.outcome \in Exceptions \cup {"returned"}
        BY ResultType
      <3>3. UNCHANGED <<scores, seed, target>>
        BY <1>2 DEF LlmReply
      <3>4. QED
        BY <3>1, <3>2, <3>3
    <2>2. how # "IntegrityError"
      BY DEF Exceptions
    <2>3. QED
      BY <1>0, <2>1, <2>2 DEF TypeOK, Referenced
  <1>3. ASSUME NEW c \in Calls, Commit(c) PROVE FailuresExplained'
    <2>1. Referenced \subseteq Referenced'
      BY <1>3, CommitAppends DEF IInv
    <2>2. QED
      BY <1>0, <1>3, <2>1 DEF Commit, TypeOK
  <1>4. ASSUME NEW c \in Calls, CloseAborted(c) PROVE FailuresExplained'
    BY <1>0, <1>4 DEF CloseAborted, TypeOK, Found, Referenced
  <1>5. ASSUME NEW s \in Seeders, SeedStep(s) \/ SeedDelete(s) PROVE FailuresExplained'
    <2>1. CASE SeedDelete(s)
      BY <1>0, <2>1 DEF SeedDelete, TypeOK, Referenced
    <2>2. CASE SeedAbort(s)
      BY <1>0, <2>2 DEF SeedAbort, TypeOK, Found, Referenced
    <2>3. CASE SeedCommit(s)
      BY <1>0, <2>3 DEF SeedCommit, TypeOK, Referenced
    <2>4. CASE SeedInsert(s)
      BY <1>0, <2>4 DEF SeedInsert, TypeOK, Found, Referenced
    <2>5. QED
      BY <1>5, <2>1, <2>2, <2>3, <2>4 DEF SeedStep
  <1>6. ASSUME NEW s \in Seeders, SeedBusyTimeout(s) \/ SeedKill(s) PROVE FailuresExplained'
    BY <1>0, <1>6 DEF SeedBusyTimeout, SeedKill, SeedEnds, TypeOK, Referenced
  <1>7. CASE EditRubric \/ Tick \/ UNCHANGED vars
    BY <1>0, <1>7 DEF EditRubric, Tick, vars, Referenced
  <1>8. [Next]_vars
    BY Seen
  <1>9. QED
    BY <1>1, <1>2, <1>3, <1>4, <1>5, <1>6, <1>7, <1>8 DEF Next, CallStep

(* The driver's IntegrityError reaches a caller of rescore_posting only    *)
(* when a script deleted the posting between the read that found it and    *)
(* the insert, and a run of the script only for scores of its postings or  *)
(* for a run that put the rows back between its two commits.               *)
THEOREM FailuresAreExplained == HistorySpec => []FailuresExplained
  <1>1. HistoryInit => Found /\ FailuresExplained
    BY DEF HistoryInit, Init, Found, FailuresExplained
  <1>2. HistorySpec => []IInv
    BY HistoryOnlyLooks, Invariance, PTL
  <1>3. QED
    BY <1>1, <1>2, FoundStep, ExplainedStep, PTL DEF HistorySpec
=============================================================================
