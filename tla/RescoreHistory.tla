--------------------------- MODULE RescoreHistory ---------------------------
(***************************************************************************)
(* Rescore with what its variables forget: which calls lost their posting  *)
(* on the way, and which runs of the seed script were overtaken by another *)
(* one between their two commits.  History variables: they read every step *)
(* of Rescore and hinder none.                                             *)
(***************************************************************************)
EXTENDS Rescore

VARIABLES
    gone,       \* calls whose posting was deleted while they were under way
    overtaken   \* runs that have purged, to which another put the rows back

history == <<gone, overtaken>>

(* A call is under way from the read that found its posting.               *)
UnderWay(c) == pc[c] \notin {"idle", "reading", "done"}

Observe ==
    /\ gone' = gone \cup {c \in Calls : /\ UnderWay(c)
                                        /\ target[c] \in postings \ postings'}
    /\ overtaken' = overtaken \cup
           {s \in Seeders : /\ seed[s] = "purged" /\ seed'[s] = "purged"
                           /\ Synth \cap postings = {}
                           /\ Synth \cap postings' # {}}

HistoryInit     == Init /\ gone = {} /\ overtaken = {}
HistoryNext     == Next /\ Observe
HistorySpec     == HistoryInit /\ [][HistoryNext]_<<vars, history>>
FairHistorySpec == HistorySpec /\ Fairness

-----------------------------------------------------------------------------
(* How far the driver's own errors go.  A call ends with one only for a    *)
(* synthetic posting that a script took away after the call had found it   *)
(* and before it ended; a run of the script only on scores of the postings *)
(* it deletes, or when another run put the rows back between its commits.  *)
FailuresExplained ==
    /\ \A c \in Calls : outcome[c] = "IntegrityError"
                            => target[c] \in Synth /\ c \in gone
    /\ \A s \in Seeders : seed[s] = "IntegrityError"
                              => Referenced \cap Synth # {} \/ s \in overtaken

(* What carries it from step to step: a posting that a call has found is   *)
(* there until a script deletes it, and the rows a run has purged are away *)
(* until another run puts them back.                                       *)
Found ==
    /\ Others \subseteq postings
    /\ \A c \in Calls :
         /\ pc[c] \in {"loading", "scoring", "inserting"} /\ target[c] \notin postings
              => target[c] \in Synth /\ c \in gone
         /\ pc[c] = "aborting" => target[c] \in Synth /\ c \in gone
    /\ \A s \in Seeders :
         /\ seed[s] = "refused" => Referenced \cap Synth # {}
         /\ seed[s] = "purged" /\ Synth \cap postings # {} => s \in overtaken
=============================================================================
