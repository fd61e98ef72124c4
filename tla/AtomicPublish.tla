---------------------------- MODULE AtomicPublish ----------------------------
(* What ledger.sync_published promises its callers: the files change all at *)
(* once, by rows that were in none of them twice, and never lose a row that *)
(* a caller was told about.                                                 *)
EXTENDS PublishedFiles

VARIABLES db,        (* the content of every file                           *)
          reported   (* per file, the rows a call returned as published     *)

AtomicInit ==
    /\ db \in [Files -> Contents]
    /\ reported = [f \in Files |-> {}]

Publish ==
    \E new \in Additions(db) :
        /\ db' = Extended(db, new)
        /\ reported' = [f \in Files |-> reported[f] \cup new[f]]

AtomicSpec == AtomicInit /\ [][Publish]_<<db, reported>>
=============================================================================
