--------------------------- MODULE PublishTxnProofs ---------------------------
(* The transaction is atomic for any number of publishers, files and rows.  *)
EXTENDS PublishTxn, TLAPS

(* Facts about adding rows. *)

LEMMA ContentsSet == \A c \in Contents : Rows(c) \in SUBSET Keys
BY FilesAssumption DEF Contents, Rows

LEMMA ExtendedIsContents ==
    ASSUME NEW contents \in [Files -> Contents], NEW new \in Additions(contents)
    PROVE  Extended(contents, new) \in [Files -> Contents]
BY ContentsSet DEF Extended, Additions, Contents

(* Exactly the new rows are added. *)
LEMMA ExtendedRows ==
    ASSUME NEW contents \in [Files -> Contents], NEW new \in Additions(contents), NEW f \in Files
    PROVE  /\ Rows(Extended(contents, new)[f]) = Rows(contents[f]) \cup new[f]
           /\ Rows(Extended(contents, new)[f]) \ Rows(contents[f]) = new[f]
<1>1. new[f] \subseteq Keys /\ new[f] \cap Rows(contents[f]) = {}
  BY DEF Additions
<1>2. Rows(contents[f]) \subseteq Keys
  BY ContentsSet
<1>3. Rows(Extended(contents, new)[f]) = Rows(contents[f]) \cup new[f]
  <2>1. CASE new[f] = {}
    BY <2>1 DEF Extended
  <2>2. CASE new[f] # {}
    <3>1. Extended(contents, new)[f] = Rows(contents[f]) \cup new[f]
      BY <2>2 DEF Extended
    <3>2. Rows(contents[f]) \cup new[f] # Absent
      BY <1>1, <1>2, FilesAssumption
    <3> QED  BY <3>1, <3>2 DEF Rows
  <2> QED  BY <2>1, <2>2
<1> QED  BY <1>1, <1>3

-----------------------------------------------------------------------------
(* Only the lock's holder is past the lock. *)
LockInv == \A p \in Publishers : phase[p] # "idle" <=> lock = p

(* What the stage holds: the files read under the lock, with new rows.      *)
Staged(p) == \E new \in Additions(before[p]) : stage[p] = Extended(before[p], new)

(* What each phase of the holder knows of the files and of the journal.     *)
PhaseInv ==
    \A p \in Publishers :
        /\ phase[p] \in {"restoring", "undoing"} =>
               /\ journal # NoJournal
               /\ \A f \in Files \ todo[p] : files[f] = journal[f]
        /\ phase[p] = "reading" => journal = NoJournal
        /\ phase[p] = "staged" => journal = NoJournal /\ before[p] = files /\ Staged(p)
        /\ phase[p] = "swapping" =>
               /\ journal = before[p]
               /\ Staged(p)
               /\ \A f \in Files \ todo[p] : files[f] = stage[p][f]

TxnInv == PublishTypeOK /\ LockInv /\ PhaseInv /\ ReportedIsPublished /\ ReadersSeePublished

LEMMA TxnInvInit == Init => TxnInv
BY PublishersAssumption, FilesAssumption DEF Init, TxnInv, PublishTypeOK, LockInv, PhaseInv,
   ReportedIsPublished, ReadersSeePublished, Published, Nothing, Contents

LEMMA StagedContents ==
    ASSUME TxnInv, NEW p \in Publishers, phase[p] = "swapping"
    PROVE  /\ before[p] \in [Files -> Contents] /\ stage[p] \in [Files -> Contents]
           /\ journal = before[p] /\ journal # NoJournal
           /\ \A f \in Files : Rows(before[p][f]) \subseteq Rows(stage[p][f])
<1>1. before[p] \in [Files -> Contents] /\ stage[p] \in [Files -> Contents] /\ journal = before[p]
  BY DEF TxnInv, PublishTypeOK, PhaseInv
<1>2. journal # NoJournal
  BY <1>1, PublishersAssumption
<1>3. PICK new \in Additions(before[p]) : stage[p] = Extended(before[p], new)
  BY DEF TxnInv, PhaseInv, Staged
<1>4. \A f \in Files : Rows(before[p][f]) \subseteq Rows(stage[p][f])
  BY <1>1, <1>3, ExtendedRows
<1> QED  BY <1>1, <1>2, <1>4

LEMMA LeaveKeepsInv ==
    ASSUME TxnInv, NEW p \in Publishers, phase[p] # "idle", Leave(p),
           PublishTypeOK', ReportedIsPublished', ReadersSeePublished'
    PROVE  TxnInv'
<1>1. LockInv'
  BY PublishersAssumption DEF TxnInv, PublishTypeOK, LockInv, Leave, Goto
<1>2. PhaseInv'
  BY DEF TxnInv, PublishTypeOK, LockInv, PhaseInv, Leave, Goto
<1> QED  BY <1>1, <1>2 DEF TxnInv

LEMMA LeaveTyped ==
    ASSUME TxnInv, NEW p \in Publishers, Leave(p), files' \in [Files -> Contents],
           journal' \in {NoJournal} \cup [Files -> Contents], reported' \in [Files -> SUBSET Keys]
    PROVE  PublishTypeOK'
BY DEF TxnInv, PublishTypeOK, Leave, Goto, Nothing, Contents

LEMMA TxnInvStep == TxnInv /\ [Next]_vars => TxnInv'
<1> SUFFICES ASSUME TxnInv, [Next]_vars  PROVE  TxnInv'
  OBVIOUS
<1>0. \A p, q \in Publishers : phase[p] # "idle" /\ phase[q] # "idle" => p = q
  BY DEF TxnInv, LockInv
<1>1. ASSUME NEW p \in Publishers, Begin(p)  PROVE  TxnInv'
  <2>1. PublishTypeOK'
    BY <1>1 DEF Begin, Goto, TxnInv, PublishTypeOK
  <2>2. LockInv' /\ \A q \in Publishers : phase[q] = "idle"
    BY <1>1, PublishersAssumption DEF Begin, Goto, TxnInv, PublishTypeOK, LockInv
  <2>3. PhaseInv'
    BY <1>1, <2>2 DEF Begin, Goto, TxnInv, PublishTypeOK, PhaseInv
  <2>4. ReportedIsPublished' /\ ReadersSeePublished'
    BY <1>1 DEF Begin, TxnInv, ReportedIsPublished, ReadersSeePublished, Published
  <2> QED  BY <2>1, <2>2, <2>3, <2>4 DEF TxnInv
<1>2. ASSUME NEW p \in Publishers, RestoreFile(p)  PROVE  TxnInv'
  <2>1. PICK f \in Files : /\ files' = [files EXCEPT ![f] = journal[f]]
                           /\ todo' = [todo EXCEPT ![p] = @ \ {f}]
    BY <1>2 DEF RestoreFile
  <2>2. journal # NoJournal /\ journal \in [Files -> Contents]
    BY <1>2 DEF RestoreFile, TxnInv, PublishTypeOK, PhaseInv
  <2>3. PublishTypeOK' /\ LockInv'
    BY <1>2, <2>1, <2>2 DEF RestoreFile, TxnInv, PublishTypeOK, LockInv
  <2>4. PhaseInv'
    BY <1>0, <1>2, <2>1, <2>2 DEF RestoreFile, TxnInv, PublishTypeOK, PhaseInv, Staged
  <2>5. ReportedIsPublished' /\ ReadersSeePublished'
    BY <1>2, <2>1, <2>2 DEF RestoreFile, TxnInv, PublishTypeOK, ReportedIsPublished,
       ReadersSeePublished, Published
  <2> QED  BY <2>3, <2>4, <2>5 DEF TxnInv
<1>3. ASSUME NEW p \in Publishers, Restored(p)  PROVE  TxnInv'
  <2>1. files = journal
    BY <1>3 DEF Restored, TxnInv, PublishTypeOK, PhaseInv
  <2>2. Published' = Published
    BY <1>3, <2>1 DEF Restored, Published
  <2>3. ReportedIsPublished' /\ ReadersSeePublished'
    BY <1>3, <2>2 DEF Restored, TxnInv, ReportedIsPublished, ReadersSeePublished
  <2>4. CASE Leave(p)
    BY <1>3, <2>3, <2>4, LeaveKeepsInv, LeaveTyped DEF Restored, TxnInv, PublishTypeOK
  <2>5. CASE phase[p] = "restoring" /\ Goto(p, "reading") /\ UNCHANGED <<lock, local>>
    BY <1>0, <1>3, <2>3, <2>5 DEF Restored, Goto, local, TxnInv, PublishTypeOK, LockInv, PhaseInv
  <2> QED  BY <1>3, <2>4, <2>5 DEF Restored
<1>4. ASSUME NEW p \in Publishers, Operate(p)  PROVE  TxnInv'
  <2>1. PICK new \in Additions(files) : stage' = [stage EXCEPT ![p] = Extended(files, new)]
    BY <1>4 DEF Operate
  <2>2. Extended(files, new) \in [Files -> Contents]
    BY ExtendedIsContents DEF TxnInv, PublishTypeOK
  <2>3. PublishTypeOK' /\ LockInv'
    BY <1>4, <2>1, <2>2 DEF Operate, Goto, TxnInv, PublishTypeOK, LockInv
  <2>4. PhaseInv'
    BY <1>0, <1>4, <2>1 DEF Operate, Goto, TxnInv, PublishTypeOK, PhaseInv, Staged
  <2>5. ReportedIsPublished' /\ ReadersSeePublished'
    BY <1>4 DEF Operate, TxnInv, ReportedIsPublished, ReadersSeePublished, Published
  <2> QED  BY <2>3, <2>4, <2>5 DEF TxnInv
<1>5. ASSUME NEW p \in Publishers, NothingChanged(p) \/ Abort(p)  PROVE  TxnInv'
  <2>1. ReportedIsPublished' /\ ReadersSeePublished'
    BY <1>5 DEF NothingChanged, Abort, TxnInv, ReportedIsPublished, ReadersSeePublished, Published
  <2> QED
    BY <1>5, <2>1, LeaveKeepsInv, LeaveTyped DEF NothingChanged, Abort, TxnInv, PublishTypeOK
<1>6. ASSUME NEW p \in Publishers, WriteJournal(p)  PROVE  TxnInv'
  <2>1. /\ journal = NoJournal /\ before[p] = files /\ Staged(p)
        /\ before[p] \in [Files -> Contents] /\ before[p] # NoJournal
    BY <1>6, PublishersAssumption DEF WriteJournal, TxnInv, PublishTypeOK, PhaseInv
  <2>2. PublishTypeOK' /\ LockInv'
    BY <1>6, <2>1 DEF WriteJournal, Goto, Changed, TxnInv, PublishTypeOK, LockInv
  <2>3. PhaseInv'
    BY <1>0, <1>6, <2>1 DEF WriteJournal, Goto, Changed, TxnInv, PublishTypeOK, PhaseInv, Staged
  <2>4. ReportedIsPublished' /\ ReadersSeePublished'
    BY <1>6, <2>1 DEF WriteJournal, TxnInv, ReportedIsPublished, ReadersSeePublished, Published
  <2> QED  BY <2>2, <2>3, <2>4 DEF TxnInv
<1>7. ASSUME NEW p \in Publishers, SwapFile(p)  PROVE  TxnInv'
  <2>1. PICK f \in Files : /\ files' = [files EXCEPT ![f] = stage[p][f]]
                           /\ todo' = [todo EXCEPT ![p] = @ \ {f}]
    BY <1>7 DEF SwapFile
  <2>2. /\ stage[p] \in [Files -> Contents] /\ journal = before[p] /\ journal # NoJournal
        /\ \A g \in Files : Rows(before[p][g]) \subseteq Rows(stage[p][g])
    BY <1>7, StagedContents DEF SwapFile
  <2>3. PublishTypeOK' /\ LockInv'
    BY <1>7, <2>1, <2>2 DEF SwapFile, TxnInv, PublishTypeOK, LockInv
  <2>4. PhaseInv'
    BY <1>0, <1>7, <2>1, <2>2 DEF SwapFile, TxnInv, PublishTypeOK, PhaseInv, Staged
  <2>5. ReportedIsPublished' /\ ReadersSeePublished'
    BY <1>7, <2>1, <2>2 DEF SwapFile, TxnInv, PublishTypeOK, ReportedIsPublished,
       ReadersSeePublished, Published
  <2> QED  BY <2>3, <2>4, <2>5 DEF TxnInv
<1>8. ASSUME NEW p \in Publishers, SwapFails(p)  PROVE  TxnInv'
  BY <1>0, <1>8, StagedContents DEF SwapFails, Goto, TxnInv, PublishTypeOK, LockInv, PhaseInv,
     Staged, ReportedIsPublished, ReadersSeePublished, Published
<1>9. ASSUME NEW p \in Publishers, Commit(p)  PROVE  TxnInv'
  <2>1. /\ stage[p] \in [Files -> Contents] /\ before[p] \in [Files -> Contents]
        /\ journal = before[p] /\ journal # NoJournal
        /\ \A g \in Files : Rows(before[p][g]) \subseteq Rows(stage[p][g])
    BY <1>9, StagedContents DEF Commit
  <2>2. \A f \in Files : files[f] = stage[p][f]
    BY <1>9 DEF Commit, TxnInv, PhaseInv
  <2>3. \A f \in Files : Rows(stage[p][f]) \in SUBSET Keys
    BY <2>1, ContentsSet
  <2>4. PublishTypeOK'
    BY <1>9, <2>3, LeaveTyped DEF Commit, TxnInv, PublishTypeOK
  <2>5. ReportedIsPublished' /\ ReadersSeePublished'
    BY <1>9, <2>1, <2>2 DEF Commit, TxnInv, ReportedIsPublished, ReadersSeePublished, Published
  <2> QED
    BY <1>9, <2>4, <2>5, LeaveKeepsInv DEF Commit
<1>10. CASE UNCHANGED vars
  BY <1>10 DEF vars, TxnInv, PublishTypeOK, LockInv, PhaseInv, Staged, ReportedIsPublished,
     ReadersSeePublished, Published
<1> QED
  BY <1>1, <1>2, <1>3, <1>4, <1>5, <1>6, <1>7, <1>8, <1>9, <1>10 DEF Next

LEMMA TxnInvariant == Spec => []TxnInv
BY TxnInvInit, TxnInvStep, PTL DEF Spec

-----------------------------------------------------------------------------
(* The variables keep their types: above all, a file never holds anything   *)
(* but rows, and the journal is always a whole state of the files.          *)
THEOREM PublishTypeCorrect == Spec => []PublishTypeOK
<1>1. TxnInv => PublishTypeOK
  BY DEF TxnInv
<1> QED  BY <1>1, TxnInvariant, PTL

(* What sync_published returned as published is never rolled back.          *)
THEOREM ReportedStays == Spec => []ReportedIsPublished
<1>1. TxnInv => ReportedIsPublished
  BY DEF TxnInv
<1> QED  BY <1>1, TxnInvariant, PTL

(* A reader without the lock never misses a published row, not even while   *)
(* the files are swapped or put back.                                       *)
THEOREM ReadersMissNothing == Spec => []ReadersSeePublished
<1>1. TxnInv => ReadersSeePublished
  BY DEF TxnInv
<1> QED  BY <1>1, TxnInvariant, PTL

(* The abstract specification is about the same files and rows.             *)
LEMMA SameFiles ==
    /\ Atomic!Files = Files
    /\ Atomic!Contents = Contents
    /\ \A contents : Atomic!Additions(contents) = Additions(contents)
    /\ \A contents, new : Atomic!Extended(contents, new) = Extended(contents, new)
BY DEF Atomic!Files, Files, Atomic!Contents, Contents, Atomic!Additions, Additions,
   Atomic!Extended, Extended, Atomic!Rows, Rows

LEMMA CommitPublishes ==
    ASSUME TxnInv, NEW p \in Publishers, Commit(p)
    PROVE  Atomic!Publish
<1>1. /\ before[p] \in [Files -> Contents] /\ stage[p] \in [Files -> Contents]
      /\ journal = before[p] /\ journal # NoJournal
  BY StagedContents DEF Commit
<1>2. PICK new \in Additions(before[p]) : stage[p] = Extended(before[p], new)
  BY DEF Commit, TxnInv, PhaseInv, Staged
<1>3. files = stage[p]
  BY <1>1 DEF Commit, TxnInv, PublishTypeOK, PhaseInv
<1>4. Published = before[p] /\ Published' = Extended(before[p], new)
  BY <1>1, <1>2, <1>3 DEF Commit, Published
<1>5. reported' = [f \in Files |-> reported[f] \cup new[f]]
  <2>1. \A f \in Files : Rows(stage[p][f]) \ Rows(before[p][f]) = new[f]
    BY <1>1, <1>2, ExtendedRows
  <2> QED  BY <2>1 DEF Commit
<1> QED  BY <1>4, <1>5, SameFiles DEF Atomic!Publish

LEMMA OthersPublishNothing ==
    ASSUME TxnInv, NEW p \in Publishers,
           \/ Begin(p) \/ RestoreFile(p) \/ Restored(p) \/ Operate(p) \/ NothingChanged(p)
           \/ WriteJournal(p) \/ SwapFile(p) \/ SwapFails(p) \/ Abort(p)
    PROVE  UNCHANGED <<Published, reported>>
<1>1. CASE Begin(p) \/ Operate(p) \/ NothingChanged(p) \/ SwapFails(p) \/ Abort(p)
  BY <1>1 DEF Begin, Operate, NothingChanged, SwapFails, Abort, Published
<1>2. CASE RestoreFile(p)
  <2>1. journal # NoJournal
    BY <1>2 DEF RestoreFile, TxnInv, PhaseInv
  <2> QED  BY <1>2, <2>1 DEF RestoreFile, Published
<1>3. CASE Restored(p)
  <2>1. files = journal
    BY <1>3 DEF Restored, TxnInv, PublishTypeOK, PhaseInv
  <2> QED  BY <1>3, <2>1 DEF Restored, Published
<1>4. CASE WriteJournal(p)
  <2>1. journal = NoJournal /\ before[p] = files /\ before[p] # NoJournal
    BY <1>4, PublishersAssumption DEF WriteJournal, TxnInv, PublishTypeOK, PhaseInv
  <2> QED  BY <1>4, <2>1 DEF WriteJournal, Published
<1>5. CASE SwapFile(p)
  <2>1. journal # NoJournal
    BY <1>5, StagedContents DEF SwapFile
  <2> QED  BY <1>5, <2>1 DEF SwapFile, Published
<1> QED  BY <1>1, <1>2, <1>3, <1>4, <1>5

(* The transaction implements atomic publication: each call takes effect at *)
(* the unlink of its journal, or not at all.                                *)
THEOREM PublishIsAtomic == Spec => Implements
<1>1. Init => Atomic!AtomicInit
  BY SameFiles DEF Init, Atomic!AtomicInit, Published
<1>2. TxnInv /\ [Next]_vars => [Atomic!Publish]_<<Published, reported>>
  <2> SUFFICES ASSUME TxnInv, [Next]_vars  PROVE  [Atomic!Publish]_<<Published, reported>>
    OBVIOUS
  <2>1. CASE UNCHANGED vars
    BY <2>1 DEF vars, Published
  <2>2. ASSUME NEW p \in Publishers, Commit(p)  PROVE  Atomic!Publish
    BY <2>2, CommitPublishes
  <2>3. ASSUME NEW p \in Publishers,
               \/ Begin(p) \/ RestoreFile(p) \/ Restored(p) \/ Operate(p) \/ NothingChanged(p)
               \/ WriteJournal(p) \/ SwapFile(p) \/ SwapFails(p) \/ Abort(p)
        PROVE  UNCHANGED <<Published, reported>>
    BY <2>3, OthersPublishNothing
  <2> QED
    BY <2>1, <2>2, <2>3 DEF Next
<1> QED  BY <1>1, <1>2, TxnInvariant, PTL DEF Spec, Implements, Atomic!AtomicSpec
=============================================================================
