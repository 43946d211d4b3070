------------------------------- MODULE Paging -------------------------------
(***************************************************************************)
(* ORDER BY and LIMIT, as the SELECTs of storage/queries.py use them.  SQL *)
(* leaves the order of rows with equal keys open, so there is a set of     *)
(* pages to answer with.                                                   *)
(***************************************************************************)
EXTENDS Integers, SequencesExt

(* Mutant: one row more than the limit, to tell whether there is a next    *)
(* page, and not removed again.                                            *)
PagesOneMore(ids, key, direction, limit, offset) ==
    LET InOrder(s) == \A a, b \in DOMAIN s :
                         a < b => IF direction = "DESC" THEN key[s[a]] >= key[s[b]]
                                                        ELSE key[s[a]] <= key[s[b]]
        last(s)    == IF offset + limit < Len(s) THEN offset + limit + 1 ELSE Len(s)
    IN  {SubSeq(s, offset + 1, last(s)) : s \in {s \in SetToSeqs(ids) : InOrder(s)}}

(* ORDER BY key DESC or ASC, then LIMIT and OFFSET: the pages of the       *)
(* arrangements of ids that are in order.                                  *)
Pages(ids, key, direction, limit, offset) ==
    LET InOrder(s) == \A a, b \in DOMAIN s :
                         a < b => IF direction = "DESC" THEN key[s[a]] >= key[s[b]]
                                                        ELSE key[s[a]] <= key[s[b]]
        last(s)    == IF offset + limit < Len(s) THEN offset + limit ELSE Len(s)
    IN  {SubSeq(s, offset + 1, last(s)) : s \in {s \in SetToSeqs(ids) : InOrder(s)}}
=============================================================================
