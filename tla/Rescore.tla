------------------------------ MODULE Rescore ------------------------------
(***************************************************************************)
(* Concurrent rescore_posting calls (primitives/tools.py) against scout.db *)
(* (storage/db.py, storage/queries.py), the rubric file and the LLM, while *)
(* scripts/seed_db.py rebuilds the synthetic postings.                     *)
(*                                                                         *)
(* A call is an asyncio task, of this process or of another one that       *)
(* serves the same database; it can be suspended at every await and be     *)
(* cut off there by a cancellation or the end of its process.  Every       *)
(* database access opens a connection of its own, so a transaction is      *)
(* known by the call or the script that runs it.  SQLite in WAL mode lets  *)
(* readers see the last commit and admits one writer at a time.            *)
(***************************************************************************)
EXTENDS Scoring, Rubric, Naturals, FiniteSets

CONSTANTS
    Calls,          \* invocations of rescore_posting
    Seeders,        \* runs of the seed script
    Synth,          \* ids of the synthetic postings
    Others,         \* ids of postings from elsewhere
    Strangers,      \* ids no posting ever has
    RubricTexts,    \* the texts the rubric file may hold
    NoFile,         \* the rubric file is missing
    Replies,        \* what the LLM call may yield
    Nobody,         \* no connection holds the write lock
    NoRow,          \* no row drafted yet
    MaxClock        \* bound: the instants of the wall clock

Ids == Synth \cup Others \cup Strangers

ASSUME ClockAssumption  == MaxClock \in Nat
ASSUME RubricAssumption == RubricTexts \subseteq Seq(Lines) /\ NoFile \notin RubricTexts
ASSUME RepliesAssumption ==
    \A reply \in Replies : /\ reply.fault \in Exceptions \cup {"none"}
                           /\ reply.text \in Seq(ToSet(reply.text))
ASSUME WriterAssumption == /\ Calls \cap Seeders = {}
                           /\ Nobody \notin Calls \cup Seeders
ASSUME IdsAssumption    == /\ Synth \cap Others = {}
                           /\ Strangers \cap (Synth \cup Others) = {}

(* A row of scores that the Score model accepts when read back.  `call'   *)
(* is the call that wrote it; rationale and model are left out.            *)
Rows == [call : Calls, posting_id : Ids, score : 0..MaxScore, score_band : Bands,
         rubric_version : Versions, scored_at : 0..MaxClock]

ASSUME NoRowAssumption == NoRow \notin Rows

VARIABLES
    postings,   \* committed ids of the postings table
    scores,     \* committed rows of the scores table, in the order of their ids
    writer,     \* who holds the write lock
    rubric,     \* content of the rubric file
    clock,      \* wall clock
    pc,         \* where each call stands
    target,     \* the posting_id each call was given
    sent,       \* the rubric text each call loaded and sent to the LLM
    draft,      \* the row each call inserts
    outcome,    \* what each call gave its caller
    seed        \* where each run of the seed script stands

store    == <<postings, scores, writer>>
callVars == <<pc, target, sent, draft, outcome>>
vars     == <<store, rubric, clock, callVars, seed>>

CallSteps == {"idle", "reading", "loading", "scoring", "inserting", "inserted",
              "aborting", "committed", "done"}
SeedSteps == {"idle", "deleted", "refused", "purged", "done",
              "IntegrityError", "OperationalError", "killed", "purge_only"}

Outcomes  == Exceptions \cup {"none", "returned", "FileNotFoundError",
                              "OperationalError", "IntegrityError", "abandoned"}

Init ==
    /\ postings \in {Others, Others \cup Synth}
    /\ scores   = <<>>
    /\ writer   = Nobody
    /\ rubric  \in RubricTexts \cup {NoFile}
    /\ clock    = 0
    /\ pc       = [c \in Calls |-> "idle"]
    /\ target  \in [Calls -> Ids]
    /\ sent     = [c \in Calls |-> NoFile]
    /\ draft    = [c \in Calls |-> NoRow]
    /\ outcome  = [c \in Calls |-> "none"]
    /\ seed     = [s \in Seeders |-> "idle"]

-----------------------------------------------------------------------------
(* rescore_posting                                                         *)

Goto(c, step)  == pc' = [pc EXCEPT ![c] = step] /\ UNCHANGED outcome
Finish(c, how) == /\ pc'      = [pc EXCEPT ![c] = "done"]
                  /\ outcome' = [outcome EXCEPT ![c] = how]

(* Mutant: a call that found the database locked is run once more.         *)
StartOver(c) ==
    /\ pc[c] = "idle" \/ outcome[c] = "OperationalError"
    /\ Goto(c, "reading")
    /\ UNCHANGED <<store, rubric, clock, target, sent, draft, seed>>

Start(c) ==
    /\ pc[c] = "idle"
    /\ Goto(c, "reading")
    /\ UNCHANGED <<store, rubric, clock, target, sent, draft, seed>>

(* Mutant: that the posting exists is left to the foreign key.             *)
GetPostingTrusting(c) ==
    /\ pc[c] = "reading"
    /\ Goto(c, "loading")
    /\ UNCHANGED <<store, rubric, clock, target, sent, draft, seed>>

(* await queries.get_posting: one SELECT on a connection of its own.       *)
GetPosting(c) ==
    /\ pc[c] = "reading"
    /\ \/ target[c] \in postings    /\ Goto(c, "loading")
       \/ target[c] \notin postings /\ Finish(c, "ValueError")
    /\ UNCHANGED <<store, rubric, clock, target, sent, draft, seed>>

(* load_current_rubric, and score_posting up to its await.                 *)
LoadRubric(c) ==
    /\ pc[c] = "loading"
    /\ sent' = [sent EXCEPT ![c] = rubric]
    /\ \/ rubric # NoFile /\ Goto(c, "scoring")
       \/ rubric = NoFile /\ Finish(c, "FileNotFoundError")
    /\ UNCHANGED <<store, rubric, clock, target, draft, seed>>

(* What score_posting may return or raise.                                 *)
Results == {ScorePosting(reply) : reply \in Replies}

(* Mutant: the version is taken from the file as it is when the reply      *)
(* comes in.                                                               *)
DraftWithCurrentRubric(c, result) ==
    [call |-> c, posting_id |-> target[c], score |-> result.score,
     score_band |-> result.score_band,
     rubric_version |-> ExtractVersion(IF rubric = NoFile THEN <<>> ELSE rubric),
     scored_at |-> clock]

(* The row insert_score builds: its `now' is taken here, before the        *)
(* connection is open.                                                     *)
Draft(c, result) ==
    [call |-> c, posting_id |-> target[c], score |-> result.score,
     score_band |-> result.score_band,
     rubric_version |-> ExtractVersion(sent[c]), scored_at |-> clock]

(* The rest of score_posting, and insert_score up to its first await.  Of  *)
(* insert_score's own checks only the one on the score's range is not      *)
(* about a blank string.                                                   *)
LlmReply(c) ==
    /\ pc[c] = "scoring"
    /\ \E result \in Results :
         \/ /\ result.outcome = "returned"
            /\ result.score \in 0..MaxScore
            /\ draft' = [draft EXCEPT ![c] = Draft(c, result)]
            /\ Goto(c, "inserting")
         \/ /\ result.outcome # "returned"
            /\ Finish(c, result.outcome)
            /\ UNCHANGED draft
    /\ UNCHANGED <<store, rubric, clock, target, sent, seed>>

(* Mutant: foreign_keys left at SQLite's default, OFF.                     *)
BeginInsertUnchecked(c) ==
    /\ pc[c] = "inserting"
    /\ writer = Nobody
    /\ writer' = c
    /\ Goto(c, "inserted")
    /\ UNCHANGED <<postings, scores, rubric, clock, target, sent, draft, seed>>

(* BEGIN and INSERT: the write lock is taken, then the foreign key is      *)
(* checked.  A failed INSERT leaves the transaction open.                  *)
BeginInsert(c) ==
    /\ pc[c] = "inserting"
    /\ writer = Nobody
    /\ writer' = c
    /\ \/ draft[c].posting_id \in postings    /\ Goto(c, "inserted")
       \/ draft[c].posting_id \notin postings /\ Goto(c, "aborting")
    /\ UNCHANGED <<postings, scores, rubric, clock, target, sent, draft, seed>>

(* busy_timeout: five seconds without the lock.                            *)
BusyTimeout(c) ==
    /\ pc[c] = "inserting"
    /\ writer # Nobody
    /\ Finish(c, "OperationalError")
    /\ UNCHANGED <<store, rubric, clock, target, sent, draft, seed>>

Commit(c) ==
    /\ pc[c] = "inserted"
    /\ scores' = Append(scores, draft[c])
    /\ writer' = Nobody
    /\ Goto(c, "committed")
    /\ UNCHANGED <<postings, rubric, clock, target, sent, draft, seed>>

(* Mutant: the driver's error is swallowed.                                *)
CloseSwallowing(c) ==
    /\ pc[c] = "aborting"
    /\ writer' = Nobody
    /\ Finish(c, "returned")
    /\ UNCHANGED <<postings, scores, rubric, clock, target, sent, draft, seed>>

(* Mutant: the connection is kept open after the exception.                *)
CloseKeepingLock(c) ==
    /\ pc[c] = "aborting"
    /\ Finish(c, "IntegrityError")
    /\ UNCHANGED <<store, rubric, clock, target, sent, draft, seed>>

(* Mutant: the failure is recorded on a second connection before this one  *)
(* is closed.                                                              *)
CloseAfterRecording(c) ==
    /\ pc[c] = "aborting"
    /\ writer = Nobody
    /\ Finish(c, "IntegrityError")
    /\ UNCHANGED <<store, rubric, clock, target, sent, draft, seed>>

(* The exception leaves the async with: the connection closes and SQLite   *)
(* rolls the transaction back.                                             *)
CloseAborted(c) ==
    /\ pc[c] = "aborting"
    /\ writer' = Nobody
    /\ Finish(c, "IntegrityError")
    /\ UNCHANGED <<postings, scores, rubric, clock, target, sent, draft, seed>>

Return(c) ==
    /\ pc[c] = "committed"
    /\ Finish(c, "returned")
    /\ UNCHANGED <<store, rubric, clock, target, sent, draft, seed>>

(* Mutant: a cancelled call leaves its connection open.                    *)
AbandonKeepingLock(c) ==
    /\ pc[c] \notin {"idle", "done"}
    /\ Finish(c, "abandoned")
    /\ UNCHANGED <<store, rubric, clock, target, sent, draft, seed>>

(* The task is cancelled at an await, or its process ends: the connection  *)
(* goes away with whatever it had not committed.                           *)
Abandon(c) ==
    /\ pc[c] \notin {"idle", "done"}
    /\ writer' = IF writer = c THEN Nobody ELSE writer
    /\ Finish(c, "abandoned")
    /\ UNCHANGED <<postings, scores, rubric, clock, target, sent, draft, seed>>

-----------------------------------------------------------------------------
(* scripts/seed_db.py main                                                 *)

SeedTo(s, step) == seed' = [seed EXCEPT ![s] = step]

Referenced == {scores[i].posting_id : i \in DOMAIN scores}

(* Mutant: foreign_keys left at SQLite's default, OFF.                     *)
SeedDeleteUnchecked(s) ==
    /\ seed[s] = "idle"
    /\ writer = Nobody
    /\ writer' = s
    /\ SeedTo(s, "deleted")
    /\ UNCHANGED <<postings, scores, rubric, clock, callVars>>

(* DELETE ... LIKE 'synth-%' in a transaction the driver opens; the        *)
(* foreign key refuses it when a score refers to one of the rows.          *)
SeedDelete(s) ==
    /\ seed[s] = "idle"
    /\ writer = Nobody
    /\ writer' = s
    /\ \/ Referenced \cap Synth \cap postings = {} /\ SeedTo(s, "deleted")
       \/ Referenced \cap Synth \cap postings # {} /\ SeedTo(s, "refused")
    /\ UNCHANGED <<postings, scores, rubric, clock, callVars>>

SeedAbort(s) ==
    /\ seed[s] = "refused"
    /\ writer' = Nobody
    /\ SeedTo(s, "IntegrityError")
    /\ UNCHANGED <<postings, scores, rubric, clock, callVars>>

(* executescript first commits what is pending: the deletion.              *)
SeedCommit(s) ==
    /\ seed[s] = "deleted"
    /\ postings' = postings \ Synth
    /\ writer' = Nobody
    /\ SeedTo(s, "purged")
    /\ UNCHANGED <<scores, rubric, clock, callVars>>

(* The script's one INSERT then runs on its own, as a transaction that     *)
(* commits with it; the primary key refuses it when the rows are there.    *)
SeedInsert(s) ==
    /\ seed[s] = "purged"
    /\ writer = Nobody
    /\ \/ /\ Synth \cap postings = {}
          /\ postings' = postings \cup Synth
          /\ SeedTo(s, "done")
       \/ /\ Synth \cap postings # {}
          /\ SeedTo(s, "IntegrityError")
          /\ UNCHANGED postings
    /\ UNCHANGED <<scores, writer, rubric, clock, callVars>>

(* What ends a run early leaves the deletion alone committed from then on. *)
SeedEnds(s, why) == SeedTo(s, IF seed[s] = "purged" THEN "purge_only" ELSE why)

(* Mutant: "database is locked" is swallowed.                              *)
SeedBusySwallowed(s) ==
    /\ seed[s] \in {"idle", "purged"}
    /\ writer # Nobody
    /\ SeedTo(s, "done")
    /\ UNCHANGED <<store, rubric, clock, callVars>>

(* busy_timeout, at either of the two statements that take the lock.       *)
SeedBusyTimeout(s) ==
    /\ seed[s] \in {"idle", "purged"}
    /\ writer # Nobody
    /\ SeedEnds(s, "OperationalError")
    /\ UNCHANGED <<store, rubric, clock, callVars>>

SeedKill(s) ==
    /\ seed[s] \in {"deleted", "refused", "purged"}
    /\ writer' = IF writer = s THEN Nobody ELSE writer
    /\ SeedEnds(s, "killed")
    /\ UNCHANGED <<postings, scores, rubric, clock, callVars>>

-----------------------------------------------------------------------------
(* The operator edits or removes the rubric file.                          *)
EditRubric ==
    /\ rubric' \in RubricTexts \cup {NoFile}
    /\ UNCHANGED <<store, clock, callVars, seed>>

Tick ==
    /\ clock < MaxClock
    /\ clock' = clock + 1
    /\ UNCHANGED <<store, rubric, callVars, seed>>

Insert(c) == BeginInsert(c) \/ BusyTimeout(c)

CallStep(c) == \/ GetPosting(c)
               \/ LoadRubric(c)
               \/ LlmReply(c)
               \/ Insert(c)
               \/ Commit(c)
               \/ CloseAborted(c)
               \/ Return(c)

SeedStep(s) == SeedAbort(s) \/ SeedCommit(s) \/ SeedInsert(s)

Next == \/ \E c \in Calls : Start(c) \/ CallStep(c) \/ Abandon(c)
        \/ \E s \in Seeders : \/ SeedDelete(s)
                              \/ SeedStep(s)
                              \/ SeedBusyTimeout(s)
                              \/ SeedKill(s)
        \/ EditRubric
        \/ Tick

Spec == Init /\ [][Next]_vars

(* A call that has started and a script that has deleted go on: the LLM    *)
(* call ends within its 300 s timeout, and the wait for the write lock     *)
(* within busy_timeout, with the lock or without.                          *)
Fairness == /\ \A c \in Calls : WF_vars(CallStep(c))
            /\ \A s \in Seeders : WF_vars(SeedStep(s) \/ (seed[s] = "purged" /\ SeedBusyTimeout(s)))

FairSpec == Spec /\ Fairness

-----------------------------------------------------------------------------
TypeOK ==
    /\ postings \subseteq Ids
    /\ scores  \in Seq(Rows)
    /\ writer  \in Calls \cup Seeders \cup {Nobody}
    /\ rubric  \in RubricTexts \cup {NoFile}
    /\ clock   \in 0..MaxClock
    /\ pc      \in [Calls -> CallSteps]
    /\ target  \in [Calls -> Ids]
    /\ sent    \in [Calls -> RubricTexts \cup {NoFile}]
    /\ draft   \in [Calls -> Rows \cup {NoRow}]
    /\ outcome \in [Calls -> Outcomes]
    /\ seed    \in [Seeders -> SeedSteps]

(* Every score refers to a posting that exists, whatever the seed script   *)
(* deletes and whenever: what db.py:29-31 has application code rely on.    *)
ReferentialIntegrity == Referenced \subseteq postings

(* What a caller is told is what the table holds: a call that returned has *)
(* exactly its row stored, one that failed has none, and no call, not even *)
(* an abandoned one, has two.                                              *)
OutcomeMatchesStore ==
    /\ \A i, j \in DOMAIN scores : scores[i].call = scores[j].call => i = j
    /\ \A c \in Calls :
         LET stored == {i \in DOMAIN scores : scores[i].call = c}
         IN  /\ outcome[c] = "returned" => \E i \in stored : scores[i] = draft[c]
             /\ stored # {} => pc[c] = "committed"
                               \/ outcome[c] \in {"returned", "abandoned"}

(* A stored row's version is the stamp of the rubric text that the call    *)
(* sent to the LLM, even when the file was edited or removed while the     *)
(* call waited (rubric.py:4-5, "traced back to the exact rubric").  Where  *)
(* every text in use has a stamp of its own, the version tells the text.   *)
ScoreTracedToRubric ==
    \A i \in DOMAIN scores :
        /\ sent[scores[i].call] # NoFile
        /\ \A text \in RubricTexts :
             ExtractVersion(text) = scores[i].rubric_version
                 => text = sent[scores[i].call]

(* The write lock is held by a live transaction only: neither a failed     *)
(* statement nor a cancelled call or killed script leaves it behind.       *)
LockHeldByTransaction ==
    /\ \A c \in Calls : writer = c <=> pc[c] \in {"inserted", "aborting"}
    /\ \A s \in Seeders : writer = s <=> seed[s] \in {"deleted", "refused"}

(* Once the script has seeded, synthetic postings are missing only while a *)
(* run is between its two commits or after one ended there.                *)
SynthLostOnlyBetweenCommits ==
    (\E s \in Seeders : seed[s] = "done") /\ ~(Synth \subseteq postings)
        => \E s \in Seeders : seed[s] \in {"purged", "purge_only"}

(* The synthetic postings come and go together.                            *)
AllOrNothing == Synth \subseteq postings \/ Synth \cap postings = {}

(* What carries the invariants above from step to step.  A draft is a row  *)
(* of its call, made from the rubric text the call sent.                   *)
Drafts ==
    \A c \in Calls :
        /\ draft[c] # NoRow =>
             /\ draft[c] \in Rows
             /\ draft[c].call = c
             /\ draft[c].posting_id = target[c]
             /\ sent[c] \in RubricTexts
             /\ draft[c].rubric_version = ExtractVersion(sent[c])
        /\ pc[c] = "scoring" => sent[c] \in RubricTexts
        /\ pc[c] \in {"idle", "reading", "loading", "scoring"} => draft[c] = NoRow
        /\ pc[c] \in {"inserting", "inserted", "aborting", "committed"} => draft[c] # NoRow

(* What a transaction has checked stays true while it holds the lock.      *)
Checked ==
    /\ \A c \in Calls : pc[c] = "inserted" => draft[c].posting_id \in postings
    /\ \A s \in Seeders : seed[s] = "deleted" => Referenced \cap Synth = {}

(* A stored row is the draft of its call, and the only one; the call is    *)
(* past its commit.                                                        *)
Stored ==
    /\ \A i \in DOMAIN scores :
         LET c == scores[i].call
         IN  /\ scores[i] = draft[c]
             /\ pc[c] \in {"committed", "done"}
             /\ pc[c] = "done" => outcome[c] \in {"returned", "abandoned"}
    /\ \A i, j \in DOMAIN scores : scores[i].call = scores[j].call => i = j
    /\ \A c \in Calls : pc[c] = "committed" \/ outcome[c] = "returned"
                          => \E i \in DOMAIN scores : scores[i].call = c

IInv == /\ TypeOK
        /\ Drafts
        /\ LockHeldByTransaction
        /\ Checked
        /\ Stored
        /\ ReferentialIntegrity

(* Readers see the abstract store: every step of every call and script is  *)
(* one of its steps or changes nothing in it.                              *)
Store == INSTANCE ScoutStore WITH
            Rows     <- Rows,
            Synth    <- Synth,
            Others   <- Others,
            postings <- postings,
            scores   <- scores
ImplementsStore == Store!Spec

(* A call that has started ends, with a result or an exception, and the    *)
(* write lock is always given back.                                        *)
CallsTerminate == \A c \in Calls : pc[c] = "reading" ~> pc[c] = "done"
LockReleased   == writer # Nobody ~> writer = Nobody

(* seed_db.py:3, "Idempotent ... Safe to re-run": a run of the script does *)
(* not fail on the rows that earlier runs and calls have left.             *)
SeedSafeToRerun == \A s \in Seeders : seed[s] # "IntegrityError"

(* tools.py:86-87, "Raises ValueError if posting not found; ScoringError   *)
(* on LLM/parse failure": a call never surfaces the driver's own error on  *)
(* a posting that is not there.                                            *)
MissingPostingRaisesValueError == \A c \in Calls : outcome[c] # "IntegrityError"
=============================================================================
