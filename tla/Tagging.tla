------------------------------ MODULE Tagging ------------------------------
(***************************************************************************)
(* tag_mismatched_score (primitives/tools.py) writes to                    *)
(* tagged_mismatches.db, and the prompt tune_rubric (primitives/prompts.py)*)
(* puts its newest rows beside the rubric file.  Calls and prompts are     *)
(* asyncio tasks of one or more server processes, suspended at each await; *)
(* the operator edits or removes the rubric at any time.                   *)
(*                                                                         *)
(* The database is used as scout.db is in Rescore: one connection per      *)
(* call, one writer at a time, readers see the last commit.  It has no     *)
(* foreign key, and no code deletes from it, so the id of a row is its     *)
(* place in the table.                                                     *)
(***************************************************************************)
EXTENDS Paging, Naturals

CONSTANTS
    Tags,           \* invocations of tag_mismatched_score
    BlankTags,      \* those with a blank argument
    Prompts,        \* invocations of tune_rubric
    Limits,         \* the limits they may ask for
    MaxLimit,       \* the largest limit accepted, 1000 in the code
    RubricTexts,    \* the texts the rubric file may hold
    NoFile,         \* the rubric file is missing
    Nobody,         \* no connection holds the write lock
    NoRow,          \* no row drafted yet
    MaxClock        \* bound: the instants of the wall clock

Rows == [call : Tags, created_at : 0..MaxClock]

ASSUME ClockAssumption  == MaxClock \in Nat
ASSUME TagsAssumption   == BlankTags \subseteq Tags /\ Nobody \notin Tags
ASSUME NoRowAssumption  == NoRow \notin Rows
ASSUME LimitsAssumption == MaxLimit \in Nat \ {0} /\ Limits \subseteq Int

VARIABLES
    tags,       \* committed rows of tagged_mismatches, in the order of their ids
    writer,     \* who holds its write lock
    rubric,     \* content of the rubric file
    clock,      \* wall clock
    pc,         \* where each tagging call stands
    draft,      \* the row it inserts
    lastrowid,  \* the id its cursor was given by the INSERT
    outcome,    \* what it told its caller
    ack,        \* the id in its AckResult, 0 for none
    stage,      \* where each prompt stands
    limit,      \* the limit it was given
    loaded,     \* the rubric it loaded
    shown,      \* the ids of the mismatches it lists
    prior,      \* history: the calls acknowledged before each call started
    since,      \* history: what the rubric file held since each prompt was invoked
    before      \* history: the calls acknowledged before it loaded the rubric

tagVars    == <<tags, writer, pc, draft, lastrowid, outcome, ack, prior>>
promptVars == <<stage, limit, loaded, shown, since, before>>
vars       == <<tagVars, rubric, clock, promptVars>>

TagSteps    == {"idle", "inserting", "inserted", "committed", "done"}
Outcomes    == {"none", "ok", "ValueError", "OperationalError", "abandoned"}
PromptSteps == {"idle", "invoked", "listing", "prompt", "no mismatches",
                "ValueError", "FileNotFoundError"}
Prompting   == {"invoked", "listing"}

Init ==
    /\ tags      = <<>>
    /\ writer    = Nobody
    /\ rubric   \in RubricTexts \cup {NoFile}
    /\ clock     = 0
    /\ pc        = [t \in Tags |-> "idle"]
    /\ draft     = [t \in Tags |-> NoRow]
    /\ lastrowid = [t \in Tags |-> 0]
    /\ outcome   = [t \in Tags |-> "none"]
    /\ ack       = [t \in Tags |-> 0]
    /\ stage     = [p \in Prompts |-> "idle"]
    /\ limit    \in [Prompts -> Limits]
    /\ loaded    = [p \in Prompts |-> NoFile]
    /\ shown     = [p \in Prompts |-> <<>>]
    /\ prior     = [t \in Tags |-> {}]
    /\ since     = [p \in Prompts |-> {}]
    /\ before    = [p \in Prompts |-> {}]

-----------------------------------------------------------------------------
(* tag_mismatched_score                                                    *)

Goto(t, step)  == pc' = [pc EXCEPT ![t] = step] /\ UNCHANGED outcome
Finish(t, how) == /\ pc'      = [pc EXCEPT ![t] = "done"]
                  /\ outcome' = [outcome EXCEPT ![t] = how]

Acknowledged == {t \in Tags : outcome[t] = "ok"}

(* insert_tagged_mismatch up to its first await: the three blank checks,   *)
(* then `now', taken before the connection is open.                        *)
Start(t) ==
    /\ pc[t] = "idle"
    /\ \/ t \in BlankTags    /\ Finish(t, "ValueError") /\ UNCHANGED draft
       \/ t \notin BlankTags /\ Goto(t, "inserting")
                             /\ draft' = [draft EXCEPT ![t] = [call |-> t, created_at |-> clock]]
    /\ prior' = [prior EXCEPT ![t] = Acknowledged]
    /\ UNCHANGED <<tags, writer, lastrowid, ack, rubric, clock, promptVars>>

(* BEGIN and INSERT, which gives the cursor its lastrowid.                 *)
BeginInsert(t) ==
    /\ pc[t] = "inserting"
    /\ writer = Nobody
    /\ writer' = t
    /\ lastrowid' = [lastrowid EXCEPT ![t] = Len(tags) + 1]
    /\ Goto(t, "inserted")
    /\ UNCHANGED <<tags, draft, ack, prior, rubric, clock, promptVars>>

(* Mutant: committed and answered while another connection has the lock.   *)
BusyIgnored(t) ==
    /\ pc[t] = "inserting"
    /\ writer # Nobody
    /\ lastrowid' = [lastrowid EXCEPT ![t] = Len(tags) + 1]
    /\ Goto(t, "inserted")
    /\ UNCHANGED <<tags, writer, draft, ack, prior, rubric, clock, promptVars>>

(* busy_timeout: five seconds without the lock.                            *)
BusyTimeout(t) ==
    /\ pc[t] = "inserting"
    /\ writer # Nobody
    /\ Finish(t, "OperationalError")
    /\ UNCHANGED <<tags, writer, draft, lastrowid, ack, prior, rubric, clock, promptVars>>

Commit(t) ==
    /\ pc[t] = "inserted"
    /\ tags' = Append(tags, draft[t])
    /\ writer' = Nobody
    /\ Goto(t, "committed")
    /\ UNCHANGED <<draft, lastrowid, ack, prior, rubric, clock, promptVars>>

(* Mutant: the id is looked up with MAX(id) after the commit.              *)
ReturnLargestId(t) ==
    /\ pc[t] = "committed"
    /\ ack' = [ack EXCEPT ![t] = Len(tags)]
    /\ Finish(t, "ok")
    /\ UNCHANGED <<tags, writer, draft, lastrowid, prior, rubric, clock, promptVars>>

(* Mutant: the insertion is tried again when the answer is late.           *)
ReturnOrRetry(t) ==
    /\ pc[t] = "committed"
    /\ \/ ack' = [ack EXCEPT ![t] = lastrowid[t]] /\ Finish(t, "ok")
       \/ Goto(t, "inserting") /\ UNCHANGED ack
    /\ UNCHANGED <<tags, writer, draft, lastrowid, prior, rubric, clock, promptVars>>

(* The connection closes; the AckResult carries the cursor's lastrowid.    *)
Return(t) ==
    /\ pc[t] = "committed"
    /\ ack' = [ack EXCEPT ![t] = lastrowid[t]]
    /\ Finish(t, "ok")
    /\ UNCHANGED <<tags, writer, draft, lastrowid, prior, rubric, clock, promptVars>>

(* The task is cancelled at an await, or its process ends: the connection  *)
(* goes away with whatever it had not committed.                           *)
Abandon(t) ==
    /\ pc[t] \notin {"idle", "done"}
    /\ writer' = IF writer = t THEN Nobody ELSE writer
    /\ Finish(t, "abandoned")
    /\ UNCHANGED <<tags, draft, lastrowid, ack, prior, rubric, clock, promptVars>>

-----------------------------------------------------------------------------
(* tune_rubric                                                             *)

PromptTo(p, step) == stage' = [stage EXCEPT ![p] = step]

Invoke(p) ==
    /\ stage[p] = "idle"
    /\ PromptTo(p, "invoked")
    /\ since' = [since EXCEPT ![p] = {rubric}]
    /\ UNCHANGED <<tagVars, rubric, clock, limit, loaded, shown, before>>

AfterLoad(p) == IF loaded'[p] = NoFile         THEN "FileNotFoundError"
                ELSE IF limit[p] \in 1..MaxLimit THEN "listing" ELSE "ValueError"

(* Mutant: a rubric that an earlier prompt has loaded is kept in memory.   *)
LoadRubricCached(p) ==
    LET cached == {q \in Prompts : loaded[q] # NoFile}
    IN  /\ stage[p] = "invoked"
        /\ loaded' = [loaded EXCEPT ![p] = IF cached = {} THEN rubric
                                           ELSE loaded[CHOOSE q \in cached : TRUE]]
        /\ before' = [before EXCEPT ![p] = Acknowledged]
        /\ PromptTo(p, AfterLoad(p))
        /\ UNCHANGED <<tagVars, rubric, clock, limit, shown, since>>

(* load_current_rubric, then list_tagged_mismatches up to its await.       *)
LoadRubric(p) ==
    /\ stage[p] = "invoked"
    /\ loaded' = [loaded EXCEPT ![p] = rubric]
    /\ before' = [before EXCEPT ![p] = Acknowledged]
    /\ PromptTo(p, AfterLoad(p))
    /\ UNCHANGED <<tagVars, rubric, clock, limit, shown, since>>

(* Mutant: ORDER BY without DESC.                                          *)
OldestMismatches(n) ==
    Pages(DOMAIN tags, [i \in DOMAIN tags |-> tags[i].created_at], "ASC", n, 0)

(* list_tagged_mismatches: the SELECT.                                     *)
RecentMismatches(n) ==
    Pages(DOMAIN tags, [i \in DOMAIN tags |-> tags[i].created_at], "DESC", n, 0)

ListTags(p) ==
    /\ stage[p] = "listing"
    /\ \E page \in RecentMismatches(limit[p]) :
         /\ shown' = [shown EXCEPT ![p] = page]
         /\ PromptTo(p, IF page = <<>> THEN "no mismatches" ELSE "prompt")
    /\ UNCHANGED <<tagVars, rubric, clock, limit, loaded, since, before>>

-----------------------------------------------------------------------------
EditRubric ==
    /\ rubric' \in RubricTexts \cup {NoFile}
    /\ since' = [p \in Prompts |-> IF stage[p] \in Prompting THEN since[p] \cup {rubric'}
                                   ELSE since[p]]
    /\ UNCHANGED <<tagVars, clock, stage, limit, loaded, shown, before>>

Tick ==
    /\ clock < MaxClock
    /\ clock' = clock + 1
    /\ UNCHANGED <<tagVars, rubric, promptVars>>

Next == \/ \E t \in Tags : \/ Start(t)
                           \/ BeginInsert(t)
                           \/ BusyTimeout(t)
                           \/ Commit(t)
                           \/ Return(t)
                           \/ Abandon(t)
        \/ \E p \in Prompts : Invoke(p) \/ LoadRubric(p) \/ ListTags(p)
        \/ EditRubric
        \/ Tick

Spec == Init /\ [][Next]_vars

-----------------------------------------------------------------------------
TagTypes ==
    /\ tags      \in Seq(Rows)
    /\ writer    \in Tags \cup {Nobody}
    /\ clock     \in 0..MaxClock
    /\ pc        \in [Tags -> TagSteps]
    /\ draft     \in [Tags -> Rows \cup {NoRow}]
    /\ lastrowid \in [Tags -> Nat]
    /\ outcome   \in [Tags -> Outcomes]
    /\ ack       \in [Tags -> Nat]
    /\ prior     \in [Tags -> SUBSET Tags]

PromptTypes ==
    /\ rubric    \in RubricTexts \cup {NoFile}
    /\ stage     \in [Prompts -> PromptSteps]
    /\ limit     \in [Prompts -> Limits]
    /\ loaded    \in [Prompts -> RubricTexts \cup {NoFile}]
    /\ since     \in [Prompts -> SUBSET (RubricTexts \cup {NoFile})]
    /\ before    \in [Prompts -> SUBSET Tags]
    /\ shown     \in [Prompts -> Seq(Nat)]

PagesFit == \A p \in Prompts : shown[p] # <<>> => Len(shown[p]) <= limit[p]

(* With its prompts' lists within their limits.                            *)
TaggingTypeOK == TagTypes /\ PromptTypes /\ PagesFit

(* The id in an acknowledgement names the caller's own row, as it was      *)
(* given, however many other calls insert around it.                       *)
AckNamesRow ==
    \A t \in Acknowledged : ack[t] \in DOMAIN tags /\ tags[ack[t]] = draft[t]

(* The rubric in a prompt is one the file held after the prompt was        *)
(* invoked (prompts.py:20-23, "actual state, not a stale snapshot"), and a *)
(* rubric that has appeared is not reported missing.                       *)
PromptRubricIsLive ==
    \A p \in Prompts : stage[p] \notin {"idle", "invoked"} => loaded[p] \in since[p]

(* Tag a was answered before tag b began, and their stamps tell them apart.*)
Older(a, b) == /\ tags[a].call \in prior[tags[b].call]
               /\ tags[a].created_at # tags[b].created_at

(* A prompt leaves out no mismatch that was acknowledged before its rubric *)
(* was loaded, unless its list is full, and then none that is newer than   *)
(* one it shows: the cases are never older than the rubric beside them.    *)
PromptKeepsNewestTags ==
    \A p \in Prompts : stage[p] \in {"prompt", "no mismatches"} =>
        \A t \in before[p] :
            ack[t] \in ToSet(shown[p])
            \/ /\ Len(shown[p]) = limit[p]
               /\ \A k \in ToSet(shown[p]) : ~Older(k, ack[t])

(* What carries these from step to step.  A transaction that has its       *)
(* lastrowid keeps every other writer out.                                 *)
LockHeldByInsert == \A t \in Tags : writer = t <=> pc[t] = "inserted"

Drafts ==
    \A t \in Tags :
        /\ pc[t] = "idle" => draft[t] = NoRow
        /\ pc[t] \in {"inserting", "inserted", "committed"} => draft[t] # NoRow
        /\ draft[t] # NoRow => /\ draft[t] \in Rows
                               /\ draft[t].call = t
                               /\ draft[t].created_at <= clock

(* The row of a committed call is where its cursor says, and a row is the  *)
(* draft of a call that is past its commit.                                *)
Placed(t) == lastrowid[t] \in DOMAIN tags /\ tags[lastrowid[t]] = draft[t]

Positions ==
    /\ \A t \in Tags :
         /\ pc[t] = "inserted"  => lastrowid[t] = Len(tags) + 1
         /\ pc[t] = "committed" => Placed(t)
         /\ outcome[t] = "ok"   => Placed(t) /\ ack[t] = lastrowid[t]
         /\ outcome[t] # "ok"   => ack[t] = 0
         /\ outcome[t] # "none" <=> pc[t] = "done"
    /\ \A i \in DOMAIN tags :
         LET t == tags[i].call
         IN  /\ tags[i] = draft[t]
             /\ pc[t] = "committed" \/ outcome[t] \in {"ok", "abandoned"}

(* Stamps agree with real time wherever one call was over before another.  *)
Chronology ==
    \A a, b \in Tags :
        a \in prior[b] => /\ outcome[a] = "ok"
                          /\ draft[b] # NoRow => draft[a].created_at <= draft[b].created_at

Prompted ==
    \A p \in Prompts :
        /\ stage[p] = "invoked" => rubric \in since[p]
        /\ stage[p] = "listing" => limit[p] \in 1..MaxLimit
        /\ \A t \in before[p] : outcome[t] = "ok"
        /\ shown[p] \in Seq(DOMAIN tags)

TaggingInv == /\ TaggingTypeOK
              /\ LockHeldByInsert
              /\ Drafts
              /\ Positions
              /\ Chronology
              /\ Prompted

(* Whoever tags sees the abstract journal: it is append-only, an answer    *)
(* names the row of its own call, a call that failed has none, and none    *)
(* has two.                                                                *)
Tagged == INSTANCE Journal WITH
            Writers <- Tags,
            Entries <- Rows,
            rows    <- tags,
            acks    <- ack,
            refused <- {t \in Tags : outcome[t] \in {"ValueError", "OperationalError"}}
ImplementsJournal == Tagged!Spec
=============================================================================
