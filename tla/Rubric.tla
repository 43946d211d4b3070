------------------------------- MODULE Rubric -------------------------------
(***************************************************************************)
(* The rubric file (scoring/rubric.py): a text is a sequence of lines, and *)
(* a line is the "vN.M" stamp found in it, or Blank after strip(), or      *)
(* Plain, any other line.                                                  *)
(***************************************************************************)
EXTENDS SequencesExt

CONSTANTS
    Stamps,     \* the version stamps an operator may write
    Blank,      \* a line that is empty after strip()
    Plain       \* a non-empty line without a stamp

Unversioned == "unversioned"
Lines       == Stamps \cup {Blank, Plain}
Versions    == Stamps \cup {Unversioned}

ASSUME LinesAssumption == /\ Blank # Plain
                          /\ {Blank, Plain, Unversioned} \cap Stamps = {}

(* Mutant: only the very first line is looked at.                          *)
VersionOfFirstLine(text) ==
    IF text # <<>> /\ text[1] \in Stamps THEN text[1] ELSE Unversioned

(* The stamp of the first non-empty line; later lines are never looked at. *)
ExtractVersion(text) ==
    LET first == SelectInSeq(text, LAMBDA line : line # Blank)
    IN  IF first # 0 /\ text[first] \in Stamps THEN text[first] ELSE Unversioned
=============================================================================
