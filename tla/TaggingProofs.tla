--------------------------- MODULE TaggingProofs ---------------------------
(***************************************************************************)
(* Safety of Tagging for any number of calls and prompts, any limits and   *)
(* any rubric texts: TaggingInv is inductive, the properties the run       *)
(* checks follow from it, and Tagging implements Journal.                  *)
(***************************************************************************)
EXTENDS Tagging, PagingProofs

LEMMA InitInv == Init => TaggingInv
  <1> SUFFICES ASSUME Init PROVE TaggingInv
    OBVIOUS
  <1>1. TaggingTypeOK
    BY ClockAssumption DEF Init, TaggingTypeOK, TagTypes, PromptTypes, PagesFit, TagSteps, Outcomes, PromptSteps
  <1>2. LockHeldByInsert /\ Drafts /\ Positions /\ Chronology
    BY TagsAssumption
       DEF Init, LockHeldByInsert, Drafts, Positions, Chronology
  <1>3. Prompted
    BY DEF Init, Prompted
  <1>4. QED
    BY <1>1, <1>2, <1>3 DEF TaggingInv

(* The list of a prompt, whichever page the database answers with.         *)
LEMMA Listed ==
    ASSUME TaggingInv, NEW p \in Prompts, stage[p] = "listing",
           NEW page \in RecentMismatches(limit[p])
    PROVE  /\ page \in Seq(DOMAIN tags)
           /\ Len(page) <= limit[p]
           /\ \A i \in DOMAIN tags : i \notin ToSet(page) =>
                /\ Len(page) = limit[p]
                /\ \A k \in ToSet(page) : /\ k \in DOMAIN tags
                                          /\ tags[k].created_at >= tags[i].created_at
  <1> DEFINE key == [i \in DOMAIN tags |-> tags[i].created_at]
  <1>1. tags \in Seq(Rows) /\ DOMAIN tags = 1..Len(tags) /\ Len(tags) \in Nat
    BY DEF TaggingInv, TaggingTypeOK, TagTypes
  <1>2. IsFiniteSet(DOMAIN tags)
    BY <1>1, FS_Interval
  <1>3. \A i \in DOMAIN tags : tags[i] \in Rows
    BY <1>1
  <1>4. key \in [DOMAIN tags -> Int]
    BY <1>3, ClockAssumption DEF Rows
  <1>5. limit[p] \in Nat
    BY LimitsAssumption DEF TaggingInv, Prompted
  <1>6. page \in Pages(DOMAIN tags, key, "DESC", limit[p], 0)
    BY DEF RecentMismatches
  <1> HIDE DEF key
  <1>7. /\ page \in Seq(DOMAIN tags)
        /\ Len(page) <= limit[p]
        /\ \A i \in DOMAIN tags : i \notin ToSet(page) =>
             /\ Len(page) = limit[p]
             /\ \A k \in ToSet(page) : k \in DOMAIN tags /\ key[k] >= key[i]
    BY <1>2, <1>4, <1>5, <1>6, FirstPage
  <1>8. QED
    BY <1>7 DEF key

LEMMA TagTypesStep == TaggingInv /\ [Next]_vars => TagTypes'
  <1> SUFFICES ASSUME TaggingInv, [Next]_vars PROVE TagTypes'
    OBVIOUS
  <1> USE DEF TagTypes, Goto, Finish, tagVars, TagSteps, Outcomes
  <1>0. TagTypes
    BY DEF TaggingInv, TaggingTypeOK
  <1>1. ASSUME NEW t \in Tags, Start(t) PROVE TagTypes'
    <2>1. [call |-> t, created_at |-> clock] \in Rows
      BY <1>0 DEF Rows
    <2>2. Acknowledged \in SUBSET Tags
      BY DEF Acknowledged
    <2>3. QED
      BY <1>0, <1>1, <2>1, <2>2 DEF Start
  <1>2. ASSUME NEW t \in Tags, BeginInsert(t) PROVE TagTypes'
    <2>1. Len(tags) + 1 \in Nat
      BY <1>0
    <2>2. QED
      BY <1>0, <1>2, <2>1 DEF BeginInsert
  <1>3. ASSUME NEW t \in Tags, BusyTimeout(t) PROVE TagTypes'
    BY <1>0, <1>3 DEF BusyTimeout
  <1>4. ASSUME NEW t \in Tags, Commit(t) PROVE TagTypes'
    <2>1. draft[t] \in Rows
      BY <1>4 DEF TaggingInv, Drafts, Commit
    <2>2. QED
      BY <1>0, <1>4, <2>1 DEF Commit
  <1>5. ASSUME NEW t \in Tags, Return(t) PROVE TagTypes'
    BY <1>0, <1>5 DEF Return
  <1>6. ASSUME NEW t \in Tags, Abandon(t) PROVE TagTypes'
    BY <1>0, <1>6 DEF Abandon
  <1>7. ASSUME NEW p \in Prompts, Invoke(p) \/ LoadRubric(p) \/ ListTags(p) PROVE TagTypes'
    BY <1>0, <1>7 DEF Invoke, LoadRubric, ListTags
  <1>8. CASE EditRubric \/ Tick \/ UNCHANGED vars
    BY <1>0, <1>8, ClockAssumption DEF EditRubric, Tick, vars
  <1>9. QED
    BY <1>1, <1>2, <1>3, <1>4, <1>5, <1>6, <1>7, <1>8 DEF Next

LEMMA PromptTypesStep == TaggingInv /\ [Next]_vars => PromptTypes' /\ PagesFit'
  <1> SUFFICES ASSUME TaggingInv, [Next]_vars PROVE PromptTypes' /\ PagesFit'
    OBVIOUS
  <1> USE DEF PromptTypes, PagesFit, PromptTo, promptVars
  <1>0. PromptTypes /\ PagesFit
    BY DEF TaggingInv, TaggingTypeOK
  <1>1. ASSUME NEW t \in Tags,
               \/ Start(t) \/ BeginInsert(t) \/ BusyTimeout(t)
               \/ Commit(t) \/ Return(t) \/ Abandon(t)
        PROVE  PromptTypes' /\ PagesFit'
    BY <1>0, <1>1 DEF Start, BeginInsert, BusyTimeout, Commit, Return, Abandon
  <1>2. ASSUME NEW p \in Prompts, Invoke(p) PROVE PromptTypes' /\ PagesFit'
    BY <1>0, <1>2 DEF Invoke, PromptSteps
  <1>3. ASSUME NEW p \in Prompts, LoadRubric(p) PROVE PromptTypes' /\ PagesFit'
    <2>1. AfterLoad(p) \in PromptSteps
      BY DEF AfterLoad, PromptSteps
    <2>2. Acknowledged \in SUBSET Tags
      BY DEF Acknowledged
    <2>3. QED
      BY <1>0, <1>3, <2>1, <2>2 DEF LoadRubric
  <1>4. ASSUME NEW p \in Prompts, ListTags(p) PROVE PromptTypes' /\ PagesFit'
    <2>1. PICK page \in RecentMismatches(limit[p]) :
            /\ shown' = [shown EXCEPT ![p] = page]
            /\ PromptTo(p, IF page = <<>> THEN "no mismatches" ELSE "prompt")
      BY <1>4 DEF ListTags
    <2>2. page \in Seq(DOMAIN tags) /\ Len(page) <= limit[p]
      BY <1>4, Listed DEF ListTags
    <2>3. page \in Seq(Nat)
      <3>1. DOMAIN tags \subseteq Nat
        BY DEF TaggingInv, TaggingTypeOK, TagTypes
      <3>2. QED
        BY <2>2, <3>1
    <2>4. QED
      BY <1>0, <1>4, <2>1, <2>2, <2>3 DEF ListTags, PromptSteps
  <1>5. CASE EditRubric
    BY <1>0, <1>5 DEF EditRubric
  <1>6. CASE Tick \/ UNCHANGED vars
    BY <1>0, <1>6 DEF Tick, vars
  <1>7. QED
    BY <1>1, <1>2, <1>3, <1>4, <1>5, <1>6 DEF Next

LEMMA LockStep == TaggingInv /\ [Next]_vars => LockHeldByInsert'
  <1> SUFFICES ASSUME TaggingInv, [Next]_vars PROVE LockHeldByInsert'
    OBVIOUS
  <1> USE TagsAssumption DEF LockHeldByInsert, Goto, Finish, tagVars
  <1>0. LockHeldByInsert /\ pc \in [Tags -> TagSteps]
    BY DEF TaggingInv, TaggingTypeOK, TagTypes
  <1>1. ASSUME NEW t \in Tags, Start(t) PROVE LockHeldByInsert'
    BY <1>0, <1>1 DEF Start
  <1>2. ASSUME NEW t \in Tags, BeginInsert(t) PROVE LockHeldByInsert'
    BY <1>0, <1>2 DEF BeginInsert
  <1>3. ASSUME NEW t \in Tags, BusyTimeout(t) PROVE LockHeldByInsert'
    BY <1>0, <1>3 DEF BusyTimeout
  <1>4. ASSUME NEW t \in Tags, Commit(t) PROVE LockHeldByInsert'
    BY <1>0, <1>4 DEF Commit
  <1>5. ASSUME NEW t \in Tags, Return(t) PROVE LockHeldByInsert'
    BY <1>0, <1>5 DEF Return
  <1>6. ASSUME NEW t \in Tags, Abandon(t) PROVE LockHeldByInsert'
    BY <1>0, <1>6 DEF Abandon
  <1>7. ASSUME NEW p \in Prompts, Invoke(p) \/ LoadRubric(p) \/ ListTags(p)
        PROVE  LockHeldByInsert'
    BY <1>0, <1>7 DEF Invoke, LoadRubric, ListTags
  <1>8. CASE EditRubric \/ Tick \/ UNCHANGED vars
    BY <1>0, <1>8 DEF EditRubric, Tick, vars
  <1>9. QED
    BY <1>1, <1>2, <1>3, <1>4, <1>5, <1>6, <1>7, <1>8 DEF Next

LEMMA DraftsStep == TaggingInv /\ [Next]_vars => Drafts'
  <1> SUFFICES ASSUME TaggingInv, [Next]_vars PROVE Drafts'
    OBVIOUS
  <1> USE DEF Goto, Finish, tagVars
  <1>0. Drafts /\ TagTypes
    BY DEF TaggingInv, TaggingTypeOK
  <1>1. ASSUME NEW t \in Tags, Start(t) PROVE Drafts'
    <2> DEFINE row == [call |-> t, created_at |-> clock]
    <2>1. row \in Rows /\ row.call = t /\ row.created_at <= clock /\ row # NoRow
      BY <1>0, ClockAssumption, NoRowAssumption DEF TagTypes, Rows
    <2> HIDE DEF row
    <2>2. CASE t \in BlankTags
      BY <1>0, <1>1, <2>2 DEF Start, Drafts, TagTypes
    <2>3. CASE t \notin BlankTags
      <3>1. /\ pc' = [pc EXCEPT ![t] = "inserting"]
            /\ draft' = [draft EXCEPT ![t] = row]
            /\ UNCHANGED clock
        BY <1>1, <2>3 DEF Start, row
      <3>2. QED
        BY <1>0, <2>1, <3>1 DEF Drafts, TagTypes
    <2>4. QED
      BY <2>2, <2>3
  <1>2. ASSUME NEW t \in Tags, BeginInsert(t) \/ BusyTimeout(t) PROVE Drafts'
    BY <1>0, <1>2 DEF BeginInsert, BusyTimeout, Drafts, TagTypes
  <1>3. ASSUME NEW t \in Tags, Commit(t) \/ Return(t) \/ Abandon(t) PROVE Drafts'
    BY <1>0, <1>3 DEF Commit, Return, Abandon, Drafts, TagTypes
  <1>4. ASSUME NEW p \in Prompts, Invoke(p) \/ LoadRubric(p) \/ ListTags(p) PROVE Drafts'
    <2>1. UNCHANGED <<pc, draft, clock>>
      BY <1>4 DEF Invoke, LoadRubric, ListTags
    <2>2. QED
      BY <1>0, <2>1 DEF Drafts
  <1>5. CASE Tick
    <2>1. \A row \in Rows : row.created_at <= clock => row.created_at <= clock'
      BY <1>0, <1>5 DEF Tick, Rows, TagTypes
    <2>2. UNCHANGED <<pc, draft>>
      BY <1>5 DEF Tick
    <2>3. QED
      BY <1>0, <2>1, <2>2 DEF Drafts
  <1>6. CASE EditRubric \/ UNCHANGED vars
    BY <1>0, <1>6 DEF EditRubric, vars, Drafts
  <1>7. QED
    BY <1>1, <1>2, <1>3, <1>4, <1>5, <1>6 DEF Next

(* What a commit adds to the table.                                        *)
LEMMA CommitAppends ==
    ASSUME TaggingInv, NEW t \in Tags, Commit(t)
    PROVE  /\ draft[t] \in Rows
           /\ draft[t].call = t
           /\ lastrowid[t] = Len(tags) + 1
           /\ DOMAIN tags' = DOMAIN tags \cup {lastrowid[t]}
           /\ lastrowid[t] \notin DOMAIN tags
           /\ \A i \in DOMAIN tags : tags'[i] = tags[i]
           /\ tags'[lastrowid[t]] = draft[t]
  <1>1. draft[t] \in Rows /\ draft[t].call = t
    BY DEF Commit, TaggingInv, Drafts
  <1>2. lastrowid[t] = Len(tags) + 1
    BY DEF Commit, TaggingInv, Positions
  <1>3. tags \in Seq(Rows) /\ tags' = Append(tags, draft[t])
    BY DEF Commit, TaggingInv, TaggingTypeOK, TagTypes
  <1>4. QED
    BY <1>1, <1>2, <1>3

(* A call that has not committed has no row.                               *)
LEMMA RowsArePast ==
    ASSUME TaggingInv, NEW t \in Tags, NEW i \in DOMAIN tags, tags[i].call = t
    PROVE  pc[t] = "committed" \/ (pc[t] = "done" /\ outcome[t] \in {"ok", "abandoned"})
  BY DEF TaggingInv, Positions

LEMMA PositionsStep == TaggingInv /\ [Next]_vars => Positions'
  <1> SUFFICES ASSUME TaggingInv, [Next]_vars PROVE Positions'
    OBVIOUS
  <1> USE DEF Goto, Finish, tagVars
  <1>0. Positions /\ TagTypes /\ LockHeldByInsert /\ Drafts
    BY DEF TaggingInv, TaggingTypeOK
  <1>a. \A i \in DOMAIN tags : tags[i].call \in Tags
    <2>1. \A i \in DOMAIN tags : tags[i] \in Rows
      BY <1>0 DEF TagTypes
    <2>2. QED
      BY <2>1 DEF Rows
  <1>1. ASSUME NEW t \in Tags, Start(t) PROVE Positions'
    <2>1. \A i \in DOMAIN tags : tags[i].call # t
      BY <1>0, <1>1, RowsArePast DEF Start
    <2>2. outcome[t] = "none" /\ ack[t] = 0
      BY <1>0, <1>1 DEF Start, Positions
    <2>3. CASE t \in BlankTags
      <3>1. /\ pc' = [pc EXCEPT ![t] = "done"]
            /\ outcome' = [outcome EXCEPT ![t] = "ValueError"]
            /\ UNCHANGED <<tags, draft, lastrowid, ack>>
        BY <1>1, <2>3 DEF Start
      <3>2. QED
        BY <1>0, <1>a, <2>1, <2>2, <3>1 DEF Positions, Placed, TagTypes
    <2>4. CASE t \notin BlankTags
      <3>1. /\ pc' = [pc EXCEPT ![t] = "inserting"]
            /\ \A u \in Tags \ {t} : draft'[u] = draft[u]
            /\ UNCHANGED <<outcome, tags, lastrowid, ack>>
        BY <1>0, <1>1, <2>4 DEF Start, TagTypes
      <3>2. QED
        BY <1>0, <1>a, <2>1, <2>2, <3>1 DEF Positions, Placed, TagTypes
    <2>5. QED
      BY <2>3, <2>4
  <1>2. ASSUME NEW t \in Tags, BeginInsert(t) PROVE Positions'
    <2>1. \A i \in DOMAIN tags : tags[i].call # t
      BY <1>0, <1>2, RowsArePast DEF BeginInsert
    <2>2. outcome[t] = "none" /\ ack[t] = 0
      BY <1>0, <1>2 DEF BeginInsert, Positions
    <2>3. QED
      BY <1>0, <1>2, <1>a, <2>1, <2>2 DEF BeginInsert, Positions, Placed, TagTypes
  <1>3. ASSUME NEW t \in Tags, BusyTimeout(t) PROVE Positions'
    <2>1. \A i \in DOMAIN tags : tags[i].call # t
      BY <1>0, <1>3, RowsArePast DEF BusyTimeout
    <2>2. outcome[t] = "none" /\ ack[t] = 0
      BY <1>0, <1>3 DEF BusyTimeout, Positions
    <2>3. QED
      BY <1>0, <1>3, <1>a, <2>1, <2>2 DEF BusyTimeout, Positions, Placed, TagTypes
  <1>4. ASSUME NEW t \in Tags, Commit(t) PROVE Positions'
    <2>1. \A u \in Tags \ {t} : pc[u] # "inserted"
      BY <1>0, <1>4 DEF Commit, LockHeldByInsert
    <2>2. outcome[t] = "none" /\ ack[t] = 0
      BY <1>0, <1>4 DEF Commit, Positions
    <2>3. /\ pc' = [pc EXCEPT ![t] = "committed"]
          /\ UNCHANGED <<outcome, draft, lastrowid, ack>>
      BY <1>4 DEF Commit
    <2>4. \A u \in Tags : Placed(u) => Placed(u)'
      BY <1>4, <2>3, CommitAppends DEF Placed
    <2>5. Placed(t)'
      BY <1>4, <2>3, CommitAppends DEF Placed
    <2>6. ASSUME NEW i \in DOMAIN tags'
          PROVE  LET u == tags'[i].call
                 IN  /\ tags'[i] = draft'[u]
                     /\ pc'[u] = "committed" \/ outcome'[u] \in {"ok", "abandoned"}
      <3>1. CASE i \in DOMAIN tags
        <4>1. tags'[i] = tags[i] /\ tags[i].call \in Tags
          BY <1>4, <1>a, <3>1, CommitAppends
        <4>2. QED
          BY <1>0, <2>3, <3>1, <4>1 DEF Positions, TagTypes
      <3>2. CASE i = lastrowid[t]
        <4>1. tags'[i] = draft[t] /\ draft[t].call = t
          BY <1>4, <3>2, CommitAppends
        <4>2. QED
          BY <1>0, <2>3, <4>1 DEF TagTypes
      <3>3. DOMAIN tags' = DOMAIN tags \cup {lastrowid[t]}
        BY <1>4, CommitAppends
      <3>4. QED
        BY <3>1, <3>2, <3>3
    <2>7. ASSUME NEW u \in Tags
          PROVE  /\ pc'[u] = "inserted"  => lastrowid'[u] = Len(tags') + 1
                 /\ pc'[u] = "committed" => Placed(u)'
                 /\ outcome'[u] = "ok"   => Placed(u)' /\ ack'[u] = lastrowid'[u]
                 /\ outcome'[u] # "ok"   => ack'[u] = 0
                 /\ outcome'[u] # "none" <=> pc'[u] = "done"
      <3>1. CASE u = t
        BY <1>0, <2>2, <2>3, <2>5, <3>1 DEF TagTypes
      <3>2. CASE u # t
        BY <1>0, <2>1, <2>3, <2>4, <3>2 DEF Positions, TagTypes
      <3>3. QED
        BY <3>1, <3>2
    <2>8. QED
      BY <2>6, <2>7 DEF Positions
  <1>5. ASSUME NEW t \in Tags, Return(t) PROVE Positions'
    BY <1>0, <1>5, <1>a DEF Return, Positions, Placed, TagTypes
  <1>6. ASSUME NEW t \in Tags, Abandon(t) PROVE Positions'
    <2>1. outcome[t] = "none" /\ ack[t] = 0
      BY <1>0, <1>6 DEF Abandon, Positions
    <2>2. QED
      BY <1>0, <1>6, <1>a, <2>1 DEF Abandon, Positions, Placed, TagTypes
  <1>7. ASSUME NEW p \in Prompts, Invoke(p) \/ LoadRubric(p) \/ ListTags(p) PROVE Positions'
    <2>1. UNCHANGED <<tags, pc, draft, lastrowid, outcome, ack>>
      BY <1>7 DEF Invoke, LoadRubric, ListTags
    <2>2. QED
      BY <1>0, <2>1 DEF Positions, Placed
  <1>8. CASE EditRubric \/ Tick \/ UNCHANGED vars
    BY <1>0, <1>8 DEF EditRubric, Tick, vars, Positions, Placed
  <1>9. QED
    BY <1>1, <1>2, <1>3, <1>4, <1>5, <1>6, <1>7, <1>8 DEF Next

(* A call that was answered stays answered and keeps its draft.            *)
LEMMA AnswersStay ==
    ASSUME TaggingInv, [Next]_vars, NEW t \in Tags, outcome[t] = "ok"
    PROVE  outcome'[t] = "ok" /\ draft'[t] = draft[t] /\ ack'[t] = ack[t]
  <1> USE DEF Goto, Finish, tagVars
  <1>0. TagTypes /\ pc[t] = "done"
    BY DEF TaggingInv, TaggingTypeOK, Positions
  <1>1. ASSUME NEW u \in Tags, Start(u) PROVE outcome'[t] = "ok" /\ draft'[t] = draft[t] /\ ack'[t] = ack[t]
    <2>1. u # t
      BY <1>0, <1>1 DEF Start
    <2>2. QED
      BY <1>0, <1>1, <2>1 DEF Start, TagTypes
  <1>2. ASSUME NEW u \in Tags, BeginInsert(u) \/ BusyTimeout(u) \/ Commit(u)
        PROVE  outcome'[t] = "ok" /\ draft'[t] = draft[t] /\ ack'[t] = ack[t]
    BY <1>0, <1>2 DEF BeginInsert, BusyTimeout, Commit, TagTypes
  <1>3. ASSUME NEW u \in Tags, Return(u) \/ Abandon(u)
        PROVE  outcome'[t] = "ok" /\ draft'[t] = draft[t] /\ ack'[t] = ack[t]
    BY <1>0, <1>3 DEF Return, Abandon, TagTypes
  <1>4. ASSUME NEW p \in Prompts, Invoke(p) \/ LoadRubric(p) \/ ListTags(p)
        PROVE  UNCHANGED <<outcome, draft, ack>>
    BY <1>4 DEF Invoke, LoadRubric, ListTags
  <1>5. CASE EditRubric \/ Tick \/ UNCHANGED vars
    BY <1>5 DEF EditRubric, Tick, vars
  <1>6. QED
    BY <1>1, <1>2, <1>3, <1>4, <1>5 DEF Next

(* A row, once there, stays as it is.                                      *)
LEMMA RowsStay ==
    ASSUME TaggingInv, [Next]_vars
    PROVE  DOMAIN tags \subseteq DOMAIN tags' /\ \A i \in DOMAIN tags : tags'[i] = tags[i]
  <1>1. ASSUME NEW t \in Tags, Commit(t)
        PROVE  DOMAIN tags \subseteq DOMAIN tags' /\ \A i \in DOMAIN tags : tags'[i] = tags[i]
    BY <1>1, CommitAppends
  <1>2. ASSUME NEW t \in Tags,
               Start(t) \/ BeginInsert(t) \/ BusyTimeout(t) \/ Return(t) \/ Abandon(t)
        PROVE  UNCHANGED tags
    BY <1>2 DEF Start, BeginInsert, BusyTimeout, Return, Abandon
  <1>3. ASSUME NEW p \in Prompts, Invoke(p) \/ LoadRubric(p) \/ ListTags(p)
        PROVE  UNCHANGED tags
    BY <1>3 DEF Invoke, LoadRubric, ListTags, tagVars
  <1>4. CASE EditRubric \/ Tick \/ UNCHANGED vars
    BY <1>4 DEF EditRubric, Tick, vars, tagVars
  <1>5. QED
    BY <1>1, <1>2, <1>3, <1>4 DEF Next

LEMMA ChronologyStep == TaggingInv /\ [Next]_vars => Chronology'
  <1> SUFFICES ASSUME TaggingInv, [Next]_vars PROVE Chronology'
    OBVIOUS
  <1>0. Chronology /\ Drafts /\ Positions /\ TagTypes
    BY DEF TaggingInv, TaggingTypeOK
  (* Only Start writes prior and draft; what was answered is untouched.    *)
  <1>1. ASSUME NEW t \in Tags, Start(t) PROVE Chronology'
    <2>1. /\ prior' = [prior EXCEPT ![t] = Acknowledged]
          /\ \A u \in Tags \ {t} : draft'[u] = draft[u]
          /\ draft'[t] # NoRow => draft'[t] = [call |-> t, created_at |-> clock]
      BY <1>0, <1>1 DEF Start, TagTypes, Drafts, Goto
    <2>2. SUFFICES ASSUME NEW a \in Tags, NEW b \in Tags, a \in prior'[b]
                   PROVE  /\ outcome'[a] = "ok"
                          /\ draft'[b] # NoRow => draft'[a].created_at <= draft'[b].created_at
      BY DEF Chronology
    <2>3. CASE b = t
      <3>1. outcome[a] = "ok"
        BY <1>0, <2>1, <2>2, <2>3 DEF Acknowledged, TagTypes
      <3>2. outcome'[a] = "ok" /\ draft'[a] = draft[a]
        BY <3>1, AnswersStay
      <3>3. draft[a] # NoRow /\ draft[a].created_at <= clock
        <4>1. Placed(a) /\ tags[lastrowid[a]] \in Rows
          BY <1>0, <3>1 DEF Positions, Placed, TagTypes
        <4>2. QED
          BY <1>0, <4>1, NoRowAssumption DEF Placed, Drafts
      <3>4. QED
        BY <2>1, <2>3, <3>2, <3>3
    <2>4. CASE b # t
      <3>1. a \in prior[b]
        BY <1>0, <2>1, <2>2, <2>4 DEF TagTypes
      <3>2. /\ outcome[a] = "ok"
            /\ draft[b] # NoRow => draft[a].created_at <= draft[b].created_at
        BY <1>0, <3>1 DEF Chronology
      <3>3. outcome'[a] = "ok" /\ draft'[a] = draft[a] /\ draft'[b] = draft[b]
        BY <2>1, <2>4, <3>2, AnswersStay
      <3>4. QED
        BY <3>2, <3>3
    <2>5. QED
      BY <2>3, <2>4
  <1>2. CASE UNCHANGED <<prior, draft>>
    BY <1>0, <1>2, AnswersStay DEF Chronology
  <1>3. ASSUME NEW t \in Tags,
               BeginInsert(t) \/ BusyTimeout(t) \/ Commit(t) \/ Return(t) \/ Abandon(t)
        PROVE  UNCHANGED <<prior, draft>>
    BY <1>3 DEF BeginInsert, BusyTimeout, Commit, Return, Abandon
  <1>4. ASSUME NEW p \in Prompts, Invoke(p) \/ LoadRubric(p) \/ ListTags(p)
        PROVE  UNCHANGED <<prior, draft>>
    BY <1>4 DEF Invoke, LoadRubric, ListTags, tagVars
  <1>5. CASE EditRubric \/ Tick \/ UNCHANGED vars
    <2>1. UNCHANGED <<prior, draft>>
      BY <1>5 DEF EditRubric, Tick, vars, tagVars
    <2>2. QED
      BY <1>2, <2>1
  <1>6. QED
    BY <1>1, <1>2, <1>3, <1>4, <1>5 DEF Next

LEMMA PromptedStep == TaggingInv /\ [Next]_vars => Prompted'
  <1> SUFFICES ASSUME TaggingInv, [Next]_vars PROVE Prompted'
    OBVIOUS
  <1> USE DEF PromptTo, promptVars
  <1>0. Prompted /\ PromptTypes
    BY DEF TaggingInv, TaggingTypeOK
  <1>1. /\ \A q \in Prompts : shown[q] \in Seq(DOMAIN tags')
        /\ \A t \in Tags : outcome[t] = "ok" => outcome'[t] = "ok"
        /\ \A q \in Prompts : before[q] \subseteq Tags
    <2>1. DOMAIN tags \subseteq DOMAIN tags'
      BY RowsStay
    <2>2. \A q \in Prompts : shown[q] \in Seq(DOMAIN tags')
      BY <1>0, <2>1 DEF Prompted
    <2>3. QED
      BY <1>0, <2>2, AnswersStay DEF PromptTypes
  <1>2. CASE UNCHANGED <<promptVars, rubric>>
    BY <1>0, <1>1, <1>2 DEF Prompted
  <1>3. ASSUME NEW t \in Tags,
               \/ Start(t) \/ BeginInsert(t) \/ BusyTimeout(t)
               \/ Commit(t) \/ Return(t) \/ Abandon(t)
        PROVE  UNCHANGED <<promptVars, rubric>>
    BY <1>3 DEF Start, BeginInsert, BusyTimeout, Commit, Return, Abandon
  <1>4. ASSUME NEW p \in Prompts, Invoke(p) PROVE Prompted'
    BY <1>0, <1>1, <1>4 DEF Invoke, Prompted, PromptTypes
  <1>5. ASSUME NEW p \in Prompts, LoadRubric(p) PROVE Prompted'
    <2>1. AfterLoad(p) = "listing" => limit[p] \in 1..MaxLimit
      BY DEF AfterLoad
    <2>2. AfterLoad(p) # "invoked"
      BY DEF AfterLoad
    <2>3. \A t \in Acknowledged : t \in Tags /\ outcome[t] = "ok"
      BY DEF Acknowledged
    <2>4. QED
      BY <1>0, <1>1, <1>5, <2>1, <2>2, <2>3 DEF LoadRubric, Prompted, PromptTypes
  <1>6. ASSUME NEW p \in Prompts, ListTags(p) PROVE Prompted'
    <2>1. PICK page \in RecentMismatches(limit[p]) :
            /\ shown' = [shown EXCEPT ![p] = page]
            /\ PromptTo(p, IF page = <<>> THEN "no mismatches" ELSE "prompt")
      BY <1>6 DEF ListTags
    <2>2. page \in Seq(DOMAIN tags) /\ UNCHANGED tags
      BY <1>6, Listed DEF ListTags, tagVars
    <2>3. QED
      BY <1>0, <1>1, <1>6, <2>1, <2>2 DEF ListTags, Prompted, PromptTypes
  <1>7. CASE EditRubric
    <2>1. \A q \in Prompts : stage[q] = "invoked" => rubric' \in since'[q]
      BY <1>0, <1>7 DEF EditRubric, PromptTypes, Prompting
    <2>2. UNCHANGED <<stage, limit, before, shown>>
      BY <1>7 DEF EditRubric
    <2>3. QED
      BY <1>0, <1>1, <2>1, <2>2 DEF Prompted
  <1>8. CASE Tick \/ UNCHANGED vars
    <2>1. UNCHANGED <<promptVars, rubric>>
      BY <1>8 DEF Tick, vars
    <2>2. QED
      BY <1>2, <2>1
  <1>9. QED
    BY <1>2, <1>3, <1>4, <1>5, <1>6, <1>7, <1>8 DEF Next

-----------------------------------------------------------------------------
(* The inductive invariant holds of every behaviour.                       *)
THEOREM TaggingInvariance == Spec => []TaggingInv
  <1>1. TaggingInv /\ [Next]_vars => TaggingInv'
    BY TagTypesStep, PromptTypesStep, LockStep, DraftsStep, PositionsStep,
       ChronologyStep, PromptedStep DEF TaggingInv, TaggingTypeOK
  <1>2. QED
    BY InitInv, <1>1, PTL DEF Spec

(* Every variable keeps its type and every list its limit.                 *)
THEOREM TaggingTypeCorrect == Spec => []TaggingTypeOK
  <1>1. TaggingInv => TaggingTypeOK
    BY DEF TaggingInv
  <1>2. QED
    BY <1>1, TaggingInvariance, PTL

(* The id a caller is given is that of its own row, with what it said in   *)
(* it, however many calls insert at the same time.                         *)
THEOREM AcksNameRows == Spec => []AckNamesRow
  <1>1. TaggingInv => AckNamesRow
    <2> SUFFICES ASSUME TaggingInv, NEW t \in Acknowledged
                 PROVE  ack[t] \in DOMAIN tags /\ tags[ack[t]] = draft[t]
      BY DEF AckNamesRow
    <2>1. t \in Tags /\ outcome[t] = "ok"
      BY DEF Acknowledged
    <2>2. QED
      BY <2>1 DEF TaggingInv, Positions, Placed
  <1>2. QED
    BY <1>1, TaggingInvariance, PTL

(* A prompt never shows a rubric the file did not hold after it was        *)
(* invoked, nor misses one that is there.                                  *)
THEOREM PromptRubricsAreLive == Spec => []PromptRubricIsLive
  <1>1. Init => PromptRubricIsLive
    BY DEF Init, PromptRubricIsLive
  <1>2. TaggingInv /\ PromptRubricIsLive /\ [Next]_vars => PromptRubricIsLive'
    <2> SUFFICES ASSUME TaggingInv, PromptRubricIsLive, [Next]_vars
                 PROVE  PromptRubricIsLive'
      OBVIOUS
    <2> USE DEF PromptRubricIsLive, PromptTo, promptVars
    <2>0. PromptTypes /\ Prompted
      BY DEF TaggingInv, TaggingTypeOK
    <2>1. ASSUME NEW p \in Prompts, Invoke(p) PROVE PromptRubricIsLive'
      BY <2>0, <2>1 DEF Invoke, PromptTypes
    <2>2. ASSUME NEW p \in Prompts, LoadRubric(p) PROVE PromptRubricIsLive'
      BY <2>0, <2>2 DEF LoadRubric, PromptTypes, Prompted
    <2>3. ASSUME NEW p \in Prompts, ListTags(p) PROVE PromptRubricIsLive'
      BY <2>0, <2>3 DEF ListTags, PromptTypes
    <2>4. CASE EditRubric
      BY <2>0, <2>4 DEF EditRubric, PromptTypes
    <2>5. ASSUME NEW t \in Tags,
                 \/ Start(t) \/ BeginInsert(t) \/ BusyTimeout(t)
                 \/ Commit(t) \/ Return(t) \/ Abandon(t)
          PROVE  PromptRubricIsLive'
      BY <2>5 DEF Start, BeginInsert, BusyTimeout, Commit, Return, Abandon
    <2>6. CASE Tick \/ UNCHANGED vars
      BY <2>6 DEF Tick, vars
    <2>7. QED
      BY <2>1, <2>2, <2>3, <2>4, <2>5, <2>6 DEF Next
  <1>3. QED
    BY <1>1, <1>2, TaggingInvariance, PTL DEF Spec

(* A row of a call that was answered before another began is not stamped   *)
(* later than that one's.                                                  *)
LEMMA OlderIsSmaller ==
    ASSUME TaggingInv, NEW i \in DOMAIN tags, NEW j \in DOMAIN tags, Older(i, j)
    PROVE  tags[i].created_at < tags[j].created_at
  <1>1. /\ tags[i] = draft[tags[i].call]
        /\ tags[j] = draft[tags[j].call]
    BY DEF TaggingInv, Positions
  <1>2. tags[i] \in Rows /\ tags[j] \in Rows
    BY DEF TaggingInv, TaggingTypeOK, TagTypes
  <1>3. draft[tags[j].call] # NoRow /\ tags[i].call \in Tags /\ tags[j].call \in Tags
    BY <1>1, <1>2, NoRowAssumption DEF Rows
  <1>4. tags[i].created_at <= tags[j].created_at
    BY <1>1, <1>3 DEF TaggingInv, Chronology, Older
  <1>5. tags[i].created_at \in Int /\ tags[j].created_at \in Int
    BY <1>2, ClockAssumption DEF Rows
  <1>6. tags[i].created_at # tags[j].created_at
    BY DEF Older
  <1>7. QED
    BY <1>4, <1>5, <1>6

(* The row of a call that was answered before prompt p loaded its rubric   *)
(* is shown, or p's list is full of rows that are not older.               *)
KeptBy(p, t) == \/ ack[t] \in ToSet(shown[p])
                \/ /\ Len(shown[p]) = limit[p]
                   /\ \A k \in ToSet(shown[p]) : ~Older(k, ack[t])

LEMMA AnsweredRow ==
    ASSUME TaggingInv, NEW p \in Prompts, NEW t \in before[p]
    PROVE  t \in Tags /\ outcome[t] = "ok" /\ ack[t] \in DOMAIN tags
  <1>1. t \in Tags /\ outcome[t] = "ok"
    BY DEF TaggingInv, TaggingTypeOK, PromptTypes, Prompted
  <1>2. QED
    BY <1>1 DEF TaggingInv, Positions, Placed

LEMMA ShownRows ==
    ASSUME TaggingInv, NEW p \in Prompts
    PROVE  ToSet(shown[p]) \subseteq DOMAIN tags
  <1>1. shown[p] \in Seq(DOMAIN tags)
    BY DEF TaggingInv, Prompted
  <1>2. QED
    BY <1>1 DEF ToSet

(* Rows, answers and what was over before a call do not change, so         *)
(* neither does which of two rows is older.                                *)
LEMMA OlderStays ==
    ASSUME TaggingInv, [Next]_vars, NEW i \in DOMAIN tags, NEW j \in DOMAIN tags,
           Older(i, j)'
    PROVE  Older(i, j)
  <1>1. tags'[i] = tags[i] /\ tags'[j] = tags[j]
    BY RowsStay
  <1>2. tags[j] \in Rows /\ tags[j].call \in Tags
    <2>1. tags[j] \in Rows
      BY DEF TaggingInv, TaggingTypeOK, TagTypes
    <2>2. QED
      BY <2>1 DEF Rows
  <1> DEFINE u == tags[j].call
  <1>3. pc[u] # "idle"
    BY <1>2, RowsArePast
  <1>4. prior'[u] = prior[u]
    <2>1. ASSUME NEW t \in Tags, Start(t) PROVE prior'[u] = prior[u]
      <3>1. t # u /\ u \in Tags /\ prior \in [Tags -> SUBSET Tags]
        BY <1>2, <1>3, <2>1 DEF Start, TaggingInv, TaggingTypeOK, TagTypes
      <3>2. QED
        BY <2>1, <3>1 DEF Start
    <2>2. ASSUME NEW t \in Tags,
                 BeginInsert(t) \/ BusyTimeout(t) \/ Commit(t) \/ Return(t) \/ Abandon(t)
          PROVE  UNCHANGED prior
      BY <2>2 DEF BeginInsert, BusyTimeout, Commit, Return, Abandon
    <2>3. ASSUME NEW p \in Prompts, Invoke(p) \/ LoadRubric(p) \/ ListTags(p)
          PROVE  UNCHANGED prior
      BY <2>3 DEF Invoke, LoadRubric, ListTags, tagVars
    <2>4. CASE EditRubric \/ Tick \/ UNCHANGED vars
      BY <2>4 DEF EditRubric, Tick, vars, tagVars
    <2>5. QED
      BY <2>1, <2>2, <2>3, <2>4 DEF Next
  <1>5. QED
    BY <1>1, <1>4 DEF Older

LEMMA KeptStays ==
    ASSUME TaggingInv, [Next]_vars, NEW p \in Prompts, NEW t \in before[p],
           KeptBy(p, t), shown'[p] = shown[p], limit'[p] = limit[p]
    PROVE  KeptBy(p, t)'
  <1>1. PICK i \in DOMAIN tags : i = ack[t]
    BY AnsweredRow
  <1>2. ack'[t] = i
    BY <1>1, AnsweredRow, AnswersStay
  <1>3. CASE i \in ToSet(shown[p])
    BY <1>2, <1>3 DEF KeptBy
  <1>4. CASE Len(shown[p]) = limit[p] /\ \A k \in ToSet(shown[p]) : ~Older(k, i)
    <2>1. ASSUME NEW k \in ToSet(shown[p]) PROVE ~Older(k, i)'
      <3>1. k \in DOMAIN tags
        BY ShownRows
      <3>2. ~Older(k, i)
        BY <1>4
      <3>3. QED
        BY <1>1, <3>1, <3>2, OlderStays
    <2>2. \A k \in ToSet(shown'[p]) : ~Older(k, i)'
      BY <2>1
    <2>3. Len(shown'[p]) = limit'[p]
      BY <1>4
    <2>4. \A k \in ToSet(shown'[p]) : ~Older(k, ack[t])'
      BY <1>2, <2>2 DEF Older
    <2>5. QED
      BY <2>3, <2>4 DEF KeptBy
  <1>5. QED
    BY <1>1, <1>3, <1>4 DEF KeptBy

(* Nothing but its own ListTags answers a prompt or changes an answer.     *)
LEMMA AnsweredPrompts ==
    ASSUME TaggingInv, [Next]_vars, NEW p \in Prompts, ~ListTags(p),
           stage'[p] \in {"prompt", "no mismatches"}
    PROVE  /\ stage[p] \in {"prompt", "no mismatches"}
           /\ shown'[p] = shown[p] /\ limit'[p] = limit[p] /\ before'[p] = before[p]
  <1> USE DEF PromptTo, promptVars, tagVars
  <1> DEFINE Still == /\ stage[p] \in {"prompt", "no mismatches"}
                      /\ shown'[p] = shown[p] /\ limit'[p] = limit[p]
                      /\ before'[p] = before[p]
  <1>0. PromptTypes
    BY DEF TaggingInv, TaggingTypeOK
  <1>1. ASSUME NEW t \in Tags, Start(t) \/ BeginInsert(t) \/ BusyTimeout(t)
        PROVE  Still
    BY <1>1 DEF Start, BeginInsert, BusyTimeout
  <1>2. ASSUME NEW t \in Tags, Commit(t) \/ Return(t) \/ Abandon(t) PROVE Still
    BY <1>2 DEF Commit, Return, Abandon
  <1>3. ASSUME NEW q \in Prompts, Invoke(q) PROVE Still
    <2>1. q # p
      BY <1>0, <1>3 DEF Invoke, PromptTypes
    <2>2. QED
      BY <1>0, <1>3, <2>1 DEF Invoke, PromptTypes
  <1>4. ASSUME NEW q \in Prompts, LoadRubric(q) PROVE Still
    <2>1. stage' = [stage EXCEPT ![q] = AfterLoad(q)]
      BY <1>4 DEF LoadRubric
    <2>2. AfterLoad(q) \notin {"prompt", "no mismatches"}
      BY DEF AfterLoad
    <2>3. q # p
      BY <1>0, <2>1, <2>2 DEF PromptTypes
    <2>4. stage'[p] = stage[p]
      BY <1>0, <2>1, <2>3 DEF PromptTypes
    <2>5. before'[p] = before[p] /\ UNCHANGED <<shown, limit>>
      BY <1>0, <1>4, <2>3 DEF LoadRubric, PromptTypes
    <2>6. QED
      BY <2>4, <2>5
  <1>5. ASSUME NEW q \in Prompts, ListTags(q) PROVE Still
    <2>1. q # p
      BY <1>5
    <2>2. QED
      BY <1>0, <1>5, <2>1 DEF ListTags, PromptTypes
  <1>6. CASE EditRubric \/ Tick \/ UNCHANGED vars
    BY <1>6 DEF EditRubric, Tick, vars
  <1>7. QED
    BY <1>1, <1>2, <1>3, <1>4, <1>5, <1>6 DEF Next

(* A list that has just been cut keeps what was answered before it.        *)
LEMMA ListKeeps ==
    ASSUME TaggingInv, NEW p \in Prompts, ListTags(p), NEW t \in before[p]
    PROVE  KeptBy(p, t)'
  <1>1. PICK i \in DOMAIN tags : i = ack[t]
    BY AnsweredRow
  <1>2. PICK page \in RecentMismatches(limit[p]) : shown' = [shown EXCEPT ![p] = page]
    BY DEF ListTags
  <1>3. shown'[p] = page
    BY <1>2 DEF TaggingInv, TaggingTypeOK, PromptTypes
  <1>4. UNCHANGED <<tags, prior, ack, limit>>
    BY DEF ListTags, tagVars
  <1>5. stage[p] = "listing"
    BY DEF ListTags
  <1>6. CASE i \in ToSet(page)
    BY <1>1, <1>3, <1>4, <1>6 DEF KeptBy
  <1>7. CASE i \notin ToSet(page)
    <2>1. Len(page) = limit[p]
      BY <1>5, <1>7, Listed
    <2>2. ASSUME NEW k \in ToSet(page) PROVE ~Older(k, i)
      <3>1. k \in DOMAIN tags /\ tags[k].created_at >= tags[i].created_at
        BY <1>5, <1>7, Listed
      <3>2. tags[k] \in Rows /\ tags[i] \in Rows
        BY <3>1 DEF TaggingInv, TaggingTypeOK, TagTypes
      <3>3. tags[k].created_at \in Int /\ tags[i].created_at \in Int
        BY <3>2, ClockAssumption DEF Rows
      <3>4. ~(tags[k].created_at < tags[i].created_at)
        BY <3>1, <3>3
      <3>5. QED
        BY <3>1, <3>4, OlderIsSmaller
    <2>3. \A k \in ToSet(page) : ~Older(k, ack[t])
      BY <1>1, <2>2
    <2>4. QED
      BY <1>3, <1>4, <2>1, <2>3 DEF KeptBy, Older
  <1>8. QED
    BY <1>6, <1>7

(* A prompt leaves out no mismatch acknowledged before its rubric was      *)
(* loaded, unless its list is full of rows that are not older.             *)
THEOREM PromptsKeepNewestTags == Spec => []PromptKeepsNewestTags
  <1>1. Init => PromptKeepsNewestTags
    BY DEF Init, PromptKeepsNewestTags
  <1>2. TaggingInv /\ PromptKeepsNewestTags /\ [Next]_vars => PromptKeepsNewestTags'
    <2> SUFFICES ASSUME TaggingInv, PromptKeepsNewestTags, [Next]_vars,
                        NEW p \in Prompts, stage'[p] \in {"prompt", "no mismatches"},
                        NEW t \in before'[p]
                 PROVE  KeptBy(p, t)'
      BY DEF PromptKeepsNewestTags, KeptBy
    <2>1. CASE ListTags(p)
      <3>1. t \in before[p]
        BY <2>1 DEF ListTags
      <3>2. QED
        BY <2>1, <3>1, ListKeeps
    <2>2. CASE ~ListTags(p)
      <3>1. /\ stage[p] \in {"prompt", "no mismatches"}
            /\ shown'[p] = shown[p] /\ limit'[p] = limit[p] /\ t \in before[p]
        BY <2>2, AnsweredPrompts
      <3>2. KeptBy(p, t)
        BY <3>1 DEF PromptKeepsNewestTags, KeptBy
      <3>3. QED
        BY <3>1, <3>2, KeptStays
    <2>3. QED
      BY <2>1, <2>2
  <1>3. QED
    BY <1>1, <1>2, TaggingInvariance, PTL DEF Spec

(* Every step of Tagging is one of Journal or changes nothing of it.       *)
LEMMA JournalStep == TaggingInv /\ [Next]_vars => [Tagged!Next]_Tagged!vars
  <1> SUFFICES ASSUME TaggingInv, [Next]_vars PROVE [Tagged!Next]_Tagged!vars
    OBVIOUS
  <1> USE DEF Goto, Finish, tagVars
  <1> DEFINE refused == {t \in Tags : outcome[t] \in {"ValueError", "OperationalError"}}
  <1>0. TagTypes
    BY DEF TaggingInv, TaggingTypeOK
  <1>1. ASSUME NEW t \in Tags, pc[t] \in {"idle", "inserting", "inserted"}
        PROVE  ~Tagged!HasRow(t) /\ t \notin refused
    <2>1. outcome[t] = "none"
      BY <1>0, <1>1 DEF TaggingInv, Positions, TagTypes
    <2>2. \A i \in DOMAIN tags : tags[i].call # t
      BY <1>1, RowsArePast
    <2>3. QED
      BY <2>1, <2>2 DEF Tagged!HasRow
  <1>2. ASSUME NEW t \in Tags, pc[t] \in {"idle", "inserting", "inserted"},
               UNCHANGED <<tags, ack>>,
               outcome' = [outcome EXCEPT ![t] = "ValueError"]
                 \/ outcome' = [outcome EXCEPT ![t] = "OperationalError"]
        PROVE  Tagged!Refuse(t)
    <2>1. refused' = refused \cup {t}
      BY <1>0, <1>2 DEF TagTypes
    <2>2. QED
      BY <1>1, <1>2, <2>1 DEF Tagged!Refuse
  <1>3. ASSUME NEW t \in Tags, Start(t) PROVE [Tagged!Next]_Tagged!vars
    <2>1. CASE t \in BlankTags
      <3>1. Tagged!Refuse(t)
        BY <1>2, <1>3, <2>1 DEF Start
      <3>2. QED
        BY <3>1 DEF Tagged!Next
    <2>2. CASE t \notin BlankTags
      BY <1>3, <2>2 DEF Start, Tagged!vars
    <2>3. QED
      BY <2>1, <2>2
  <1>4. ASSUME NEW t \in Tags, BusyTimeout(t) PROVE [Tagged!Next]_Tagged!vars
    <2>1. Tagged!Refuse(t)
      BY <1>2, <1>4 DEF BusyTimeout
    <2>2. QED
      BY <2>1 DEF Tagged!Next
  <1>5. ASSUME NEW t \in Tags, Commit(t) PROVE [Tagged!Next]_Tagged!vars
    <2>1. draft[t] \in Rows /\ draft[t].call = t
      BY <1>5 DEF TaggingInv, Drafts, Commit
    <2>2. ~Tagged!HasRow(t) /\ t \notin refused
      BY <1>1, <1>5 DEF Commit
    <2>3. Tagged!AppendEntry(draft[t])
      BY <1>5, <2>1, <2>2 DEF Commit, Tagged!AppendEntry
    <2>4. QED
      BY <2>1, <2>3 DEF Tagged!Next
  <1>6. ASSUME NEW t \in Tags, Return(t) PROVE [Tagged!Next]_Tagged!vars
    <2>1. PICK i \in DOMAIN tags : i = lastrowid[t] /\ tags[i] = draft[t]
      BY <1>6 DEF Return, TaggingInv, Positions, Placed
    <2>2. tags[i].call = t
      BY <1>6, <2>1 DEF Return, TaggingInv, Drafts
    <2>3. ack[t] = 0
      <3>1. outcome[t] = "none"
        BY <1>0, <1>6 DEF Return, TaggingInv, Positions, TagTypes
      <3>2. QED
        BY <3>1 DEF TaggingInv, Positions
    <2>4. ack' = [ack EXCEPT ![t] = i] /\ tags' = tags
      BY <1>6, <2>1 DEF Return
    <2>5. refused' = refused
      <3>1. outcome' = [outcome EXCEPT ![t] = "ok"] /\ outcome[t] = "none"
        BY <1>0, <1>6 DEF Return, TaggingInv, Positions, TagTypes
      <3>2. QED
        BY <1>0, <3>1 DEF TagTypes
    <2>6. Tagged!Acknowledge(t)
      BY <2>2, <2>3, <2>4, <2>5 DEF Tagged!Acknowledge
    <2>7. QED
      BY <2>6 DEF Tagged!Next
  <1>7. ASSUME NEW t \in Tags, Abandon(t) PROVE [Tagged!Next]_Tagged!vars
    <2>1. outcome' = [outcome EXCEPT ![t] = "abandoned"] /\ outcome[t] = "none"
      BY <1>0, <1>7 DEF Abandon, TaggingInv, Positions, TagTypes
    <2>2. refused' = refused
      BY <1>0, <2>1 DEF TagTypes
    <2>3. QED
      BY <1>7, <2>2 DEF Abandon, Tagged!vars
  <1>8. ASSUME NEW t \in Tags, BeginInsert(t) PROVE [Tagged!Next]_Tagged!vars
    BY <1>8 DEF BeginInsert, Tagged!vars
  <1>9. ASSUME NEW p \in Prompts, Invoke(p) \/ LoadRubric(p) \/ ListTags(p)
        PROVE  [Tagged!Next]_Tagged!vars
    BY <1>9 DEF Invoke, LoadRubric, ListTags, Tagged!vars
  <1>10. CASE EditRubric \/ Tick \/ UNCHANGED vars
    BY <1>10 DEF EditRubric, Tick, vars, Tagged!vars
  <1>11. QED
    BY <1>3, <1>4, <1>5, <1>6, <1>7, <1>8, <1>9, <1>10 DEF Next

(* Those who tag see an append-only journal in which an answer names the   *)
(* row of its own call and a call that failed has none.                    *)
THEOREM TaggingIsAJournal == Spec => ImplementsJournal
  <1>1. Init => Tagged!Init
    BY DEF Init, Tagged!Init
  <1>2. QED
    BY <1>1, JournalStep, TaggingInvariance, PTL DEF Spec, ImplementsJournal, Tagged!Spec
=============================================================================
