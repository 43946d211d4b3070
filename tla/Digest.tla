------------------------------- MODULE Digest -------------------------------
(***************************************************************************)
(* regenerate_digest (primitives/tools.py) and the scout://digest/current  *)
(* resource (primitives/resources.py): renders read the scores, build an   *)
(* HTML document and overwrite current.html in place; readers serve        *)
(* whatever the file holds.                                                *)
(*                                                                         *)
(* The code from the end of the query to the end of write_text has no      *)
(* await: it blocks the event loop of its own process, not that of another *)
(* process serving the same output directory.  The file is truncated when  *)
(* it is opened and filled block by block at the writer's own offset.      *)
(***************************************************************************)
EXTENDS Integers, FiniteSets, SequencesExt

CONSTANTS
    Processes,      \* server processes sharing the output directory
    Renders,        \* invocations of regenerate_digest
    Home,           \* the process each of them runs in
    NoFile,         \* current.html does not exist
    Nothing,        \* nothing served yet
    Size,           \* how many blocks a document fills, by the commits it shows
    MaxCommits,     \* bound: scores committed by rescore_posting
    MaxFaults       \* bound: killed processes and failed writes

ASSUME HomeAssumption  == Home \in [Renders -> Processes]
ASSUME BoundAssumption == MaxCommits \in Nat /\ MaxFaults \in Nat

ASSUME SizeAssumption  == Size \in [0..MaxCommits -> Nat \ {0}]

(* A document is told by the number of score commits it was rendered from. *)
Doc(s)  == [k \in 1..Size[s] |-> s]
Hole    == -1       \* a block that was never written
Blocks  == {Hole} \cup 0..MaxCommits
Whole   == {Doc(s) : s \in 0..MaxCommits}

ASSUME NoFileAssumption == NoFile \notin Seq(Blocks)

VARIABLES
    commits,    \* score commits so far
    file,       \* blocks of current.html, or NoFile
    stage,      \* where each render stands
    base,       \* commits when each render was invoked
    snap,       \* commits its query saw
    written,    \* blocks it has written
    rivals,     \* renders that ran while it ran
    served,     \* the last answer of digest_current: by whom, and the blocks
    faults      \* kills and failed writes so far

renderVars == <<stage, base, snap, written, rivals>>
vars == <<commits, file, renderVars, served, faults>>

Stages == {"idle", "querying", "queried", "writing", "done", "OSError",
           "cancelled", "killed"}
Active == {r \in Renders : stage[r] \in {"querying", "queried", "writing"}}

(* The event loop of process p is not inside a render's synchronous part.  *)
LoopFree(p) == \A r \in Renders : Home[r] = p => stage[r] # "writing"

Init ==
    /\ commits = 0
    /\ file \in {NoFile, Doc(0)}
    /\ stage   = [r \in Renders |-> "idle"]
    /\ base    = [r \in Renders |-> 0]
    /\ snap    = [r \in Renders |-> 0]
    /\ written = [r \in Renders |-> 0]
    /\ rivals  = [r \in Renders |-> {}]
    /\ served  = Nothing
    /\ faults  = 0

-----------------------------------------------------------------------------
To(r, s) == stage' = [stage EXCEPT ![r] = s]

(* regenerate_digest is called and awaits the query.                       *)
Invoke(r) ==
    /\ stage[r] = "idle"
    /\ LoopFree(Home[r])
    /\ To(r, "querying")
    /\ base' = [base EXCEPT ![r] = commits]
    /\ rivals' = [a \in Renders |-> IF a = r THEN Active
                                    ELSE IF a \in Active THEN rivals[a] \cup {r}
                                    ELSE rivals[a]]
    /\ UNCHANGED <<commits, file, snap, written, served, faults>>

(* Mutant: the rows an earlier render has read are kept in memory.         *)
QueryCached(r) ==
    /\ stage[r] = "querying"
    /\ To(r, "queried")
    /\ LET earlier == {a \in Renders : stage[a] = "done"}
       IN  snap' = [snap EXCEPT ![r] = IF earlier = {} THEN commits
                                       ELSE snap[CHOOSE a \in earlier : TRUE]]
    /\ UNCHANGED <<commits, file, base, written, rivals, served, faults>>

(* The SELECT, in the connection's own thread: one snapshot.               *)
Query(r) ==
    /\ stage[r] = "querying"
    /\ To(r, "queried")
    /\ snap' = [snap EXCEPT ![r] = commits]
    /\ UNCHANGED <<commits, file, base, written, rivals, served, faults>>

(* Mutant: opened for update, so that an older, longer document stays.     *)
OpenUntruncated(r) ==
    /\ stage[r] = "queried"
    /\ LoopFree(Home[r])
    /\ To(r, "writing")
    /\ file' = IF file = NoFile THEN <<>> ELSE file
    /\ UNCHANGED <<commits, base, snap, written, rivals, served, faults>>

(* The task resumes, builds the document and opens the file: truncated.    *)
Open(r) ==
    /\ stage[r] = "queried"
    /\ LoopFree(Home[r])
    /\ To(r, "writing")
    /\ file' = <<>>
    /\ UNCHANGED <<commits, base, snap, written, rivals, served, faults>>

(* The blocks with v at position k, and holes up to it if the file was     *)
(* truncated by another writer.                                            *)
Put(blocks, k, v) ==
    [i \in 1..(IF k > Len(blocks) THEN k ELSE Len(blocks)) |->
        IF i = k THEN v ELSE IF i <= Len(blocks) THEN blocks[i] ELSE Hole]

(* Mutant: one block too many.                                             *)
WriteBlockTooMany(r) ==
    /\ stage[r] = "writing"
    /\ written[r] <= Size[snap[r]]
    /\ written' = [written EXCEPT ![r] = @ + 1]
    /\ file' = Put(file, written[r] + 1, snap[r])
    /\ UNCHANGED <<commits, stage, base, snap, rivals, served, faults>>

WriteBlock(r) ==
    /\ stage[r] = "writing"
    /\ written[r] < Size[snap[r]]
    /\ written' = [written EXCEPT ![r] = @ + 1]
    /\ file' = Put(file, written[r] + 1, snap[r])
    /\ UNCHANGED <<commits, stage, base, snap, rivals, served, faults>>

Finish(r) ==
    /\ stage[r] = "writing"
    /\ written[r] = Size[snap[r]]
    /\ To(r, "done")
    /\ UNCHANGED <<commits, file, base, snap, written, rivals, served, faults>>

(* The client cancels: only the query is awaited.                          *)
Cancel(r) ==
    /\ stage[r] \in {"querying", "queried"}
    /\ LoopFree(Home[r])
    /\ To(r, "cancelled")
    /\ UNCHANGED <<commits, file, base, snap, written, rivals, served, faults>>

(* A write fails, the disk being full: what was written stays.             *)
WriteFails(r) ==
    /\ faults < MaxFaults
    /\ stage[r] = "writing"
    /\ To(r, "OSError")
    /\ faults' = faults + 1
    /\ UNCHANGED <<commits, file, base, snap, written, rivals, served>>

(* The process ends, and is started again.                                 *)
Kill(p) ==
    /\ faults < MaxFaults
    /\ faults' = faults + 1
    /\ stage' = [r \in Renders |-> IF Home[r] = p /\ r \in Active THEN "killed" ELSE stage[r]]
    /\ UNCHANGED <<commits, file, base, snap, written, rivals, served>>

(* Mutant: the file is read in a worker thread while the loop runs on.     *)
DigestCurrentInThread(p) ==
    /\ served' = [by |-> p, blocks |-> file]
    /\ UNCHANGED <<commits, file, renderVars, faults>>

(* digest_current: the file as it is; a placeholder, here NoFile, when     *)
(* there is none.                                                          *)
DigestCurrent(p) ==
    /\ LoopFree(p)
    /\ served' = [by |-> p, blocks |-> file]
    /\ UNCHANGED <<commits, file, renderVars, faults>>

(* A rescore_posting call commits a score.                                 *)
CommitScore ==
    /\ commits < MaxCommits
    /\ commits' = commits + 1
    /\ UNCHANGED <<file, renderVars, served, faults>>

Next == \/ \E r \in Renders : \/ Invoke(r)
                              \/ Query(r)
                              \/ Open(r)
                              \/ WriteBlock(r)
                              \/ Finish(r)
                              \/ Cancel(r)
                              \/ WriteFails(r)
        \/ \E p \in Processes : DigestCurrent(p) \/ Kill(p)
        \/ CommitScore

Spec == Init /\ [][Next]_vars

-----------------------------------------------------------------------------
TypeOK ==
    /\ commits \in 0..MaxCommits
    /\ file = NoFile \/ file \in Seq(Blocks)
    /\ stage   \in [Renders -> Stages]
    /\ base    \in [Renders -> 0..MaxCommits]
    /\ snap    \in [Renders -> 0..MaxCommits]
    /\ written \in [Renders -> Nat]
    /\ \A r \in Renders : written[r] <= Size[snap[r]]
    /\ rivals  \in [Renders -> SUBSET Renders]
    /\ served = Nothing \/ served.by \in Processes
    /\ faults  \in 0..MaxFaults

TornServed == served # Nothing /\ served.blocks # NoFile /\ served.blocks \notin Whole

(* While one process renders and serves, and neither is killed nor runs    *)
(* out of disk, a reader never sees a document half written: the event     *)
(* loop is what stands between them.                                       *)
WholeInOneProcess ==
    TornServed => \/ faults > 0
                  \/ \E r \in Renders : stage[r] # "idle" /\ Home[r] # served.by

(* A render that overlapped no other leaves its own document in the file,  *)
(* whole, whatever a longer or a broken digest left there before.          *)
AloneRenderIsComplete ==
    [][\A r \in Renders :
          /\ stage[r] = "writing" /\ stage'[r] = "done"
          /\ rivals[r] = {}
          => file' = Doc(snap[r])]_vars

(* A whole document in the file is never older than the scores that were   *)
(* committed before a finished render was invoked, unless a render that    *)
(* overlapped this one put it there: rescore, regenerate and read shows    *)
(* the new score.                                                          *)
DigestKeepsUp ==
    \A done \in Renders : \A s \in 0..MaxCommits :
        /\ stage[done] = "done"
        /\ file = Doc(s)
        => s >= base[done] \/ \E r \in rivals[done] : snap[r] = s

(* What carries these from step to step.  A render queries after it is     *)
(* invoked and writes after both; the event loop of a process is in one    *)
(* render at a time; of two renders that are active together each is a     *)
(* rival of the other, and one that became active later was invoked later. *)
Progress ==
    \A r \in Renders :
        /\ base[r] <= commits /\ snap[r] <= commits
        /\ stage[r] \in {"idle", "querying", "queried"} => written[r] = 0
        /\ stage[r] \in {"queried", "writing", "done"} => base[r] <= snap[r]

Exclusive ==
    \A r, a \in Renders :
        stage[r] = "writing" /\ stage[a] = "writing" /\ Home[r] = Home[a] => r = a

Overlaps ==
    \A r \in Renders : \A a \in Active \ {r} :
        stage[r] # "idle" => a \in rivals[r] \/ (r \notin Active /\ base[r] <= base[a])

(* A file nobody else has written to holds what its writer has written.    *)
Prefix(r) == [k \in 1..written[r] |-> snap[r]]

OwnBlocks == \A r \in Renders : stage[r] = "writing" /\ rivals[r] = {} => file = Prefix(r)

AllIn(p) == faults = 0 /\ \A r \in Renders : stage[r] # "idle" => Home[r] = p

ProcessFile ==
    \A p \in Processes : AllIn(p) =>
        /\ \A r \in Renders : stage[r] = "writing" => file = Prefix(r)
        /\ (\A r \in Renders : stage[r] # "writing") => file = NoFile \/ file \in Whole

(* What a render that has opened the file leaves others to find in it.     *)
FreshBlocks ==
    \A r \in Renders : stage[r] \in {"writing", "done"} =>
        /\ file # NoFile
        /\ \A k \in DOMAIN file :
             \/ file[k] = Hole
             \/ file[k] >= base[r]
             \/ \E a \in rivals[r] : written[a] > 0 /\ snap[a] = file[k]

DigestInv == /\ TypeOK
             /\ Progress
             /\ Exclusive
             /\ Overlaps
             /\ OwnBlocks
             /\ ProcessFile
             /\ FreshBlocks
             /\ WholeInOneProcess

(* resources.py:76, "Return the most recent digest HTML, or a placeholder  *)
(* if none exists": never anything else.                                   *)
ServesDigestOrPlaceholder == ~TornServed
=============================================================================
