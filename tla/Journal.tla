------------------------------ MODULE Journal ------------------------------
(***************************************************************************)
(* What tagged_mismatches.db promises to those who tag: an append-only     *)
(* list with at most one row per call.  A call is acknowledged with the    *)
(* place of its own row, or refused and then never has one; a call that is *)
(* cut off hears neither.  No answer is taken back.                        *)
(***************************************************************************)
EXTENDS Sequences, Naturals

CONSTANTS
    Writers,    \* the calls that append
    Entries     \* the rows they may append, each with its `call'

VARIABLES
    rows,       \* what has been appended
    acks,       \* the place each call was told, 0 for none
    refused     \* the calls that were told they failed

vars == <<rows, acks, refused>>

Init == /\ rows = <<>>
        /\ acks = [w \in Writers |-> 0]
        /\ refused = {}

HasRow(w) == \E i \in DOMAIN rows : rows[i].call = w

AppendEntry(entry) ==
    /\ ~HasRow(entry.call)
    /\ entry.call \notin refused
    /\ rows' = Append(rows, entry)
    /\ UNCHANGED <<acks, refused>>

Acknowledge(w) ==
    /\ acks[w] = 0
    /\ \E i \in DOMAIN rows : /\ rows[i].call = w
                              /\ acks' = [acks EXCEPT ![w] = i]
    /\ UNCHANGED <<rows, refused>>

Refuse(w) ==
    /\ ~HasRow(w)
    /\ w \notin refused
    /\ refused' = refused \cup {w}
    /\ UNCHANGED <<rows, acks>>

Next == \/ \E entry \in Entries : AppendEntry(entry)
        \/ \E w \in Writers : Acknowledge(w) \/ Refuse(w)

Spec == Init /\ [][Next]_vars
=============================================================================
