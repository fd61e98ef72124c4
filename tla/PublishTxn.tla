----------------------------- MODULE PublishTxn -----------------------------
(***************************************************************************)
(* _publish_transaction and _restore of ledger.py: how a synchronisation of *)
(* the published files is made atomic with a file lock, a staging directory *)
(* and a rollback journal, when any process may stop between any two steps. *)
(*                                                                         *)
(* A publisher is a call of sync_published: process_job after a success,    *)
(* `publish` and `collect`.  A call that finds the lock taken raises        *)
(* FileLockError and changes nothing.                                       *)
(***************************************************************************)
EXTENDS PublishedFiles

CONSTANTS Publishers, Nobody, NoJournal

ASSUME PublishersAssumption ==
    /\ Nobody \notin Publishers
    /\ \A contents \in [Files -> Contents] : contents # NoJournal

VARIABLES files,     (* the content of every file in data_dir               *)
          journal,   (* .publish-rollback.json, or NoJournal                *)
          lock,      (* the holder of .publish.lock, or Nobody              *)
          phase,     (* where each publisher is                             *)
          before,    (* its local `before`                                  *)
          stage,     (* the files in its staging directory                  *)
          todo,      (* the files its loop has yet to replace               *)
          reported   (* history: per file, the rows calls returned          *)

vars == <<files, journal, lock, phase, before, stage, todo, reported>>
local == <<before, stage, todo>>

Nothing == [f \in Files |-> Absent]

PublishTypeOK ==
    /\ files \in [Files -> Contents]
    /\ journal \in {NoJournal} \cup [Files -> Contents]
    /\ lock \in Publishers \cup {Nobody}
    /\ phase \in [Publishers -> {"idle", "restoring", "reading", "staged", "swapping", "undoing"}]
    /\ before \in [Publishers -> [Files -> Contents]]
    /\ stage \in [Publishers -> [Files -> Contents]]
    /\ todo \in [Publishers -> SUBSET Files]
    /\ reported \in [Files -> SUBSET Keys]

(* Any published state may have been fetched into data_dir.                 *)
Init ==
    /\ files \in [Files -> Contents]
    /\ journal = NoJournal
    /\ lock = Nobody
    /\ phase = [p \in Publishers |-> "idle"]
    /\ before = [p \in Publishers |-> Nothing]
    /\ stage = [p \in Publishers |-> Nothing]
    /\ todo = [p \in Publishers |-> {}]
    /\ reported = [f \in Files |-> {}]

Goto(p, next) == phase' = [phase EXCEPT ![p] = next]

(* Leaving the with block, by a return or an exception, or with the process:*)
(* the lock goes, and so do the locals.                                     *)
Leave(p) ==
    /\ Goto(p, "idle")
    /\ lock' = Nobody
    /\ before' = [before EXCEPT ![p] = Nothing]
    /\ stage' = [stage EXCEPT ![p] = Nothing]
    /\ todo' = [todo EXCEPT ![p] = {}]

(* The file a loop over DATA_FILE_NAMES is at. *)
IsNext(p, f) == f \in todo[p] /\ \A g \in todo[p] : f <= g

Begin(p) ==
    /\ phase[p] = "idle"
    /\ lock = Nobody
    /\ lock' = p
    /\ \/ /\ journal = NoJournal
          /\ Goto(p, "reading")
          /\ UNCHANGED todo
       \/ /\ journal # NoJournal
          /\ Goto(p, "restoring")
          /\ todo' = [todo EXCEPT ![p] = Files]
    /\ UNCHANGED <<files, journal, before, stage, reported>>

(* Bug: every file is unlinked, as if there had been none.                  *)
UnlinkFile(p) ==
    /\ phase[p] \in {"restoring", "undoing"}
    /\ \E f \in Files :
        /\ IsNext(p, f)
        /\ files' = [files EXCEPT ![f] = Absent]
        /\ todo' = [todo EXCEPT ![p] = @ \ {f}]
    /\ UNCHANGED <<journal, lock, phase, before, stage, reported>>

(* _restore puts the files back one by one, or unlinks those that were not  *)
(* there, and only then unlinks the journal.                                *)
RestoreFile(p) ==
    /\ phase[p] \in {"restoring", "undoing"}
    /\ \E f \in Files :
        /\ IsNext(p, f)
        /\ files' = [files EXCEPT ![f] = journal[f]]
        /\ todo' = [todo EXCEPT ![p] = @ \ {f}]
    /\ UNCHANGED <<journal, lock, phase, before, stage, reported>>

(* Done at entry, the call goes on; done after a failed swap, it raises.    *)
Restored(p) ==
    /\ phase[p] \in {"restoring", "undoing"}
    /\ todo[p] = {}
    /\ journal' = NoJournal
    /\ \/ phase[p] = "restoring" /\ Goto(p, "reading") /\ UNCHANGED <<lock, local>>
       \/ phase[p] = "undoing" /\ Leave(p)
    /\ UNCHANGED <<files, reported>>

(* The files are read and the operation builds the new ones in the stage.   *)
Operate(p) ==
    /\ phase[p] = "reading"
    /\ before' = [before EXCEPT ![p] = files]
    /\ \E new \in Additions(files) : stage' = [stage EXCEPT ![p] = Extended(files, new)]
    /\ Goto(p, "staged")
    /\ UNCHANGED <<files, journal, lock, todo, reported>>

Changed(p) == {f \in Files : stage[p][f] # before[p][f]}

NothingChanged(p) ==
    /\ phase[p] = "staged"
    /\ Changed(p) = {}
    /\ Leave(p)
    /\ UNCHANGED <<files, journal, reported>>

(* Bugs: the swap starts without a journal, or with one that only has the   *)
(* changed files.                                                           *)
SwapUnjournaled(p) ==
    /\ phase[p] = "staged"
    /\ Changed(p) # {}
    /\ todo' = [todo EXCEPT ![p] = Changed(p)]
    /\ Goto(p, "swapping")
    /\ UNCHANGED <<files, journal, lock, before, stage, reported>>

WriteJournalOfChanged(p) ==
    /\ phase[p] = "staged"
    /\ Changed(p) # {}
    /\ journal' = [f \in Changed(p) |-> before[p][f]]
    /\ todo' = [todo EXCEPT ![p] = Changed(p)]
    /\ Goto(p, "swapping")
    /\ UNCHANGED <<files, lock, before, stage, reported>>

(* The replace of the pending journal. *)
WriteJournal(p) ==
    /\ phase[p] = "staged"
    /\ Changed(p) # {}
    /\ journal' = before[p]
    /\ todo' = [todo EXCEPT ![p] = Changed(p)]
    /\ Goto(p, "swapping")
    /\ UNCHANGED <<files, lock, before, stage, reported>>

SwapFile(p) ==
    /\ phase[p] = "swapping"
    /\ \E f \in Files :
        /\ IsNext(p, f)
        /\ files' = [files EXCEPT ![f] = stage[p][f]]
        /\ todo' = [todo EXCEPT ![p] = @ \ {f}]
    /\ UNCHANGED <<journal, lock, phase, before, stage, reported>>

(* A replace raises. *)
SwapFails(p) ==
    /\ phase[p] = "swapping"
    /\ todo[p] # {}
    /\ todo' = [todo EXCEPT ![p] = Files]
    /\ Goto(p, "undoing")
    /\ UNCHANGED <<files, journal, lock, before, stage, reported>>

(* Bug: the journal stays after a successful swap.                          *)
ReturnWithJournal(p) ==
    /\ phase[p] = "swapping"
    /\ todo[p] = {}
    /\ reported' = [f \in Files |->
                       reported[f] \cup (Rows(stage[p][f]) \ Rows(before[p][f]))]
    /\ Leave(p)
    /\ UNCHANGED <<files, journal>>

(* Unlinking the journal is the commit point; the call returns its rows.    *)
Commit(p) ==
    /\ phase[p] = "swapping"
    /\ todo[p] = {}
    /\ journal' = NoJournal
    /\ reported' = [f \in Files |->
                       reported[f] \cup (Rows(stage[p][f]) \ Rows(before[p][f]))]
    /\ Leave(p)
    /\ UNCHANGED files

(* The process stops, or an exception gets out: of the operation, of        *)
(* writing or unlinking the journal, of _restore.                           *)
Abort(p) ==
    /\ phase[p] # "idle"
    /\ Leave(p)
    /\ UNCHANGED <<files, journal, reported>>

Next ==
    \E p \in Publishers :
        \/ Begin(p) \/ RestoreFile(p) \/ Restored(p) \/ Operate(p)
        \/ NothingChanged(p) \/ WriteJournal(p) \/ SwapFile(p) \/ SwapFails(p)
        \/ Commit(p) \/ Abort(p)

Spec == Init /\ [][Next]_vars

-----------------------------------------------------------------------------
(* What is published: the files, or what the journal will bring them back   *)
(* to.                                                                      *)
Published == IF journal = NoJournal THEN files ELSE journal

Atomic == INSTANCE AtomicPublish WITH db <- Published

(* The docstring of _publish_transaction and the CI/CD notes: an            *)
(* interrupted publication is rolled back and a failed swap undone, so that *)
(* the calls of all publishers amount to atomic publications, one after     *)
(* another, with nothing reported that is lost or added twice.              *)
Implements == Atomic!AtomicSpec

(* A row some call returned as published stays published, across crashes of *)
(* later calls and rollbacks of rollbacks.                                  *)
ReportedIsPublished == \A f \in Files : reported[f] \subseteq Rows(Published[f])

(* A reader that takes no lock (the web, the step that commits data/) may   *)
(* see files of two states, but always at least the published rows.         *)
ReadersSeePublished == \A f \in Files : Rows(Published[f]) \subseteq Rows(files[f])
=============================================================================
