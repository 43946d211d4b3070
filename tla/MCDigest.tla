------------------------------ MODULE MCDigest ------------------------------
(***************************************************************************)
(* Two processes share the output directory; two renders run in the first. *)
(***************************************************************************)
EXTENDS Digest, TLC

CONSTANTS p1, p2, r1, r2, r3

MCHome == [r \in {r1, r2, r3} |-> IF r = r3 THEN p2 ELSE p1]

(* The newer document is the shorter one.                                  *)
MCSize == [s \in 0..1 |-> 3 - s]

(* One server, one render: what a kill alone can do.                       *)
MCOneHome == [r \in {r1} |-> p1]

Symmetric == Permutations({r1, r2})
=============================================================================
