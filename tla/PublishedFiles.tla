---------------------------- MODULE PublishedFiles ----------------------------
(* The public data directory as ledger.py sees it: the files of             *)
(* DATA_FILE_NAMES, in that order, each holding rows.  What a row looks     *)
(* like is left out: it is the key of an attempt that the file reflects.    *)
EXTENDS Naturals

CONSTANTS FileCount,  (* Len(DATA_FILE_NAMES)                               *)
          Keys,       (* attempt keys                                       *)
          Absent      (* the content of a file that does not exist          *)

ASSUME FilesAssumption ==
    /\ FileCount \in Nat \ {0}
    /\ \A rows \in SUBSET Keys : rows # Absent

Files == 1..FileCount

Contents == {Absent} \cup SUBSET Keys

\* The rows of a file; a missing one reads as empty (_read_published).
Rows(content) == IF content = Absent THEN {} ELSE content

\* The files with new rows added, created where there were none.
Extended(contents, new) ==
    [f \in Files |-> IF new[f] = {} THEN contents[f] ELSE Rows(contents[f]) \cup new[f]]

\* What a synchronisation may add: rows the files do not have yet.
Additions(contents) ==
    {new \in [Files -> SUBSET Keys] : \A f \in Files : new[f] \cap Rows(contents[f]) = {}}
=============================================================================
