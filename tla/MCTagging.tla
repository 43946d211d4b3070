----------------------------- MODULE MCTagging -----------------------------
(***************************************************************************)
(* Instance of Tagging for the model checker: two calls that insert and    *)
(* one with a blank argument; two prompts, each with a limit that is out   *)
(* of range, cuts the list or does not; a rubric that is one of two texts  *)
(* or missing.                                                             *)
(***************************************************************************)
EXTENDS Tagging, TLC

CONSTANTS t1, t2, t3, p1, p2, textA, textB

MCTags        == {t1, t2, t3}
MCBlankTags   == {t3}
MCPrompts     == {p1, p2}
MCLimits      == {0, 1, 2}
MCRubricTexts == {textA, textB}

Symmetric == Permutations({t1, t2}) \cup Permutations(MCPrompts)
               \cup Permutations(MCRubricTexts)

(* One of the prompts has the limit out of range and so ends once it has   *)
(* loaded the rubric.  Prompts only read: neither sees the other, and no   *)
(* step changes a limit.                                                   *)
OneRefused == \E p \in MCPrompts : limit[p] = 0

(* The blank call comes last: it changes nothing but its own outcome.      *)
BlankLast == \A b \in MCBlankTags : pc[b] # "idle" => \A t \in MCTags : pc[t] = "done"
=============================================================================
