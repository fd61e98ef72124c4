--------------------------- MODULE BenchTickProofs ---------------------------
(***************************************************************************)
(* The data branch keeps its rows and gets those a tick has published, for *)
(* any conditions, presets, ranking and number of things that go wrong.    *)
(* Nothing is assumed of the conditions or of the order they are tried in: *)
(* the proofs rest on what bench.yml does with its tree, and on the journal *)
(* of a publication that was killed.                                       *)
(***************************************************************************)
EXTENDS BenchTick, TLAPS

Holds(files, rows) == rows \subseteq files.results \intersect files.summary

\* The run job, up to its commit step.
InRun == place \in {"trying", "working", "publishing", "committing"}

\* What a journal would bring back is in the files, on the branch as in the
\* tree: a publication only adds.
JournalInv ==
    InBoth(Kept(branch), branch.files) /\ InBoth(Kept(work), work.files)

\* A tree that was restored has what stays on the branch and what the tick has
\* published, and keeps it if a publication is rolled back.
TreeInv ==
    InRun /\ restored =>
        /\ InBoth(Kept(branch), Kept(work))
        /\ Holds(Kept(work), made)

\* After the commit step the files on the branch are those of the tree.
CommitInv ==
    place = "verifying" /\ restored =>
        branch.files = work.files /\ Holds(branch.files, made)

\* No step has failed: then the work command returned 0 before the publication,
\* and the publication took all rows that waited.
OkInv ==
    /\ place = "publishing" => ran
    /\ place \in {"committing", "verifying"} /\ ok => ran /\ waiting = {}

\* What the branch holds once the tick is over.
EndInv ==
    /\ place \in {"green", "red"} /\ restored => Holds(branch.files, made)
    /\ place = "green" /\ restored => waiting = {} /\ row \in branch.files.results

TickInv == JournalInv /\ TreeInv /\ CommitInv /\ OkInv /\ EndInv

----------------------------------------------------------------------------
LEMMA InitTick == Init => TickInv
  BY DEF Init, Bare, TickInv, JournalInv, TreeInv, CommitInv, OkInv, EndInv,
         InRun, Between, InBoth, Kept, Tree, Holds

\* Files between two that hold some rows hold them.
LEMMA ReplacingHolds ==
    ASSUME NEW less, NEW old, NEW new, NEW files \in Replacing(old, new),
           InBoth(less, old), InBoth(less, new)
    PROVE  InBoth(less, files)
  BY DEF Replacing, InBoth, Tree

\* The same for rows in both tables.
LEMMA ReplacingHoldsRows ==
    ASSUME NEW rows, NEW old, NEW new, NEW files \in Replacing(old, new),
           Holds(old, rows), Holds(new, rows)
    PROVE  Holds(files, rows)
  BY DEF Replacing, Holds, Tree

\* What a step does to the tree of a tick, if it adds to it what the tick has
\* published and loses nothing that would stay.
Grows ==
    /\ InBoth(Kept(work), work'.files)
    /\ InBoth(Kept(work), Kept(work'))
    /\ InBoth(Kept(work'), work'.files)

LEMMA SyncGrows ==
    ASSUME NEW rows, Sync(rows)
    PROVE  Grows /\ Holds(Kept(work'), made' \ made) /\ made' = made \union rows
<1>1. work'.files = Added(rows) /\ work'.journal = None
  BY DEF Sync
<1>2. Kept(work') = Added(rows)
  BY <1>1 DEF Kept
<1>3. InBoth(Kept(work), Added(rows)) /\ Holds(Added(rows), rows)
  BY DEF InBoth, Holds, Added, Tree
<1>4. InBoth(Added(rows), Added(rows))
  BY DEF InBoth
<1>5. made' = made \union rows
  BY DEF Sync
<1> QED
  BY <1>1, <1>2, <1>3, <1>4, <1>5 DEF Grows, Holds

LEMMA RollBackGrows ==
    ASSUME work' = RolledBack
    PROVE  Grows
<1>1. work'.files = Kept(work) /\ Kept(work') = Kept(work)
  BY DEF RolledBack, Kept
<1> QED
  BY <1>1 DEF Grows, InBoth

\* A publication that is killed leaves more than it began with, and a journal
\* of no less.
LEMMA KilledSyncGrows ==
    ASSUME NEW rows, KilledSync(rows), JournalInv
    PROVE  Grows
<1>1. CASE work' = RolledBack
  BY <1>1, RollBackGrows
<1>2. ASSUME work.journal # None,
             NEW files \in Replacing(work.files, work.journal),
             work' = [files |-> files, journal |-> work.journal]
      PROVE  Grows
  <2>1. Kept(work) = work.journal /\ Kept(work') = work.journal /\ work'.files = files
    BY <1>2 DEF Kept
  <2>2. InBoth(work.journal, work.files) /\ InBoth(work.journal, work.journal)
    BY <2>1 DEF JournalInv, InBoth
  <2>3. InBoth(work.journal, files)
    BY <1>2, <2>2, ReplacingHolds
  <2> QED
    BY <2>1, <2>2, <2>3 DEF Grows
<1>3. ASSUME NEW files \in Replacing(Kept(work), Added(rows)),
             work' = [files |-> files, journal |-> Kept(work)]
      PROVE  Grows
  <2>1. InBoth(Kept(work), Kept(work)) /\ InBoth(Kept(work), Added(rows))
    BY DEF InBoth, Added, Tree
  <2>2. InBoth(Kept(work), files) /\ InBoth(files, files)
    BY <1>3, <2>1, ReplacingHolds DEF InBoth
  <2>3. work'.files = files /\ Kept(work') \in {Kept(work), files}
    BY <1>3 DEF Kept
  <2> QED
    BY <2>1, <2>2, <2>3 DEF Grows
<1> QED
  BY <1>1, <1>2, <1>3 DEF KilledSync

\* A step of the run job that grows the tree keeps what is said of it.
LEMMA GrowthStep ==
    ASSUME JournalInv, TreeInv, Grows, InRun,
           Holds(Kept(work'), made' \ made), branch' = branch, restored' = restored
    PROVE  JournalInv' /\ TreeInv'
<1>1. JournalInv'
  BY DEF JournalInv, Grows, Kept, InBoth
<1>2. ASSUME restored
      PROVE  InBoth(Kept(branch), Kept(work')) /\ Holds(Kept(work'), made')
  <2>1. InBoth(Kept(branch), Kept(work)) /\ Holds(Kept(work), made)
    BY <1>2 DEF TreeInv
  <2>2. InBoth(Kept(work), Kept(work')) /\ Holds(Kept(work'), made' \ made)
    BY DEF Grows
  <2> HIDE DEF Kept
  <2> QED
    BY <2>1, <2>2 DEF InBoth, Holds
<1>3. Kept(branch') = Kept(branch)
  BY DEF Kept
<1> QED
  BY <1>1, <1>2, <1>3 DEF TreeInv

\* And one that leaves the tree alone.
LEMMA StillStep ==
    ASSUME JournalInv, TreeInv, InRun, UNCHANGED <<branch, restored, work, made>>
    PROVE  JournalInv' /\ TreeInv'
  BY DEF JournalInv, TreeInv, Kept, InBoth, Holds

----------------------------------------------------------------------------
(* The steps of a tick *)

\* Inside the run job, and what follows from where a step leads.
LEMMA Elsewhere ==
    ASSUME JournalInv' /\ TreeInv', place' \in {"trying", "working", "committing"},
           place' = "committing" => ~ok'
    PROVE  TickInv'
  BY DEF TickInv, CommitInv, OkInv, EndInv

\* A tick begins in a tree that is the branch, or in an empty one.
LEMMA BeginStep ==
    ASSUME TickInv, Schedule \/ Dispatch \/ Restore
    PROVE  TickInv'
<1>1. ASSUME NEW p, NEW candidates, Begin(p, candidates)
      PROVE  TickInv'
  <2>1. JournalInv'
    BY <1>1 DEF Begin, tables, TickInv, JournalInv, Kept, InBoth
  <2> QED
    BY <1>1, <2>1 DEF Begin, TickInv, TreeInv, CommitInv, OkInv, EndInv, InRun, Between
<1>2. CASE Restore
  <2>1. JournalInv'
    BY <1>2 DEF Restore, Bare, TickInv, JournalInv, Kept, InBoth
  <2>2. TreeInv'
    BY <1>2 DEF Restore, TreeInv, Kept, InBoth, Holds
  <2>3. place' = "trying"
    BY <1>2 DEF Restore
  <2> QED
    BY <2>1, <2>2, <2>3, Elsewhere
<1> QED
  BY <1>1, <1>2 DEF Schedule, Dispatch

\* The loop over the candidates adds published rows to the tree, and leaves the
\* branch alone.
LEMMA LoopStep ==
    ASSUME TickInv,
           \/ SkipCandidate \/ TryCandidate \/ EstimateFails \/ NoCandidate
           \/ Ends \/ EndsSpoiled \/ TimesOut \/ IsCutShort \/ Dies \/ IsLimited
    PROVE  TickInv'
<1>1. JournalInv /\ TreeInv
  BY DEF TickInv
<1>2. ASSUME SkipCandidate \/ TryCandidate \/ EstimateFails \/ NoCandidate
             \/ TimesOut \/ IsCutShort \/ Dies \/ IsLimited
      PROVE  TickInv'
  <2>1. InRun /\ UNCHANGED <<branch, restored, work, made>>
    BY <1>2
    DEF SkipCandidate, TryCandidate, EstimateFails, NoCandidate, TimesOut,
        IsCutShort, Dies, IsLimited, MayTry, Mishap, Failed, tables, InRun,
        Between, Upset, StepFails
  <2>2. place' \in {"trying", "working", "committing"}
        /\ (place' = "committing" => ~ok')
    BY <1>2
    DEF SkipCandidate, TryCandidate, EstimateFails, NoCandidate, TimesOut,
        IsCutShort, Dies, IsLimited, MayTry, Mishap, StepFails, tables
  <2> QED
    BY <1>1, <2>1, <2>2, StillStep, Elsewhere
<1>3. ASSUME Ends \/ EndsSpoiled
      PROVE  TickInv'
  <2>1. InRun /\ branch' = branch /\ place' = "working"
    BY <1>3 DEF Ends, EndsSpoiled, Mishap, InRun, Between
  <2>2. ASSUME NEW sample, Succeeded(sample)
        PROVE  JournalInv' /\ TreeInv'
    <3>1. PICK rows : Sync(rows) /\ restored' = restored
      BY <2>2 DEF Succeeded
    <3> QED
      BY <1>1, <2>1, <3>1, SyncGrows, GrowthStep
  <2>3. ASSUME Failed
        PROVE  JournalInv' /\ TreeInv'
    BY <1>1, <2>1, <2>3, StillStep DEF Failed
  <2>4. JournalInv' /\ TreeInv'
    BY <1>3, <2>2, <2>3 DEF Ends, EndsSpoiled
  <2> QED
    BY <2>1, <2>4, Elsewhere
<1> QED
  BY <1>2, <1>3

\* The work command has returned 0, and the tables are published.
LEMMA PublishStep ==
    ASSUME TickInv, WorkReturns0 \/ Publish
    PROVE  TickInv'
<1>1. JournalInv /\ TreeInv /\ OkInv
  BY DEF TickInv
<1>2. CASE WorkReturns0
  <2>1. InRun /\ UNCHANGED <<branch, restored, work, made>>
    BY <1>2 DEF WorkReturns0, tables, InRun, Between
  <2>2. place' = "publishing" /\ ran'
    BY <1>2 DEF WorkReturns0
  <2> QED
    BY <1>1, <2>1, <2>2, StillStep DEF TickInv, CommitInv, OkInv, EndInv
<1>3. CASE Publish
  <2>1. InRun /\ branch' = branch /\ restored' = restored /\ ran' = ran /\ ran
    BY <1>1, <1>3 DEF Publish, InRun, Between, OkInv
  <2>2. place' = "committing" /\ (ok' => waiting' = {})
    BY <1>3 DEF Publish, Sync, StepFails
  <2>3. JournalInv' /\ TreeInv'
    <3>1. CASE Sync(waiting)
      BY <1>1, <2>1, <3>1, SyncGrows, GrowthStep
    <3>2. CASE work' = work /\ made' = made
      BY <1>1, <2>1, <3>2, StillStep
    <3>3. CASE work' = RolledBack /\ made' = made
      <4>1. Holds(Kept(work'), made' \ made)
        BY <3>3 DEF Holds
      <4> QED
        BY <1>1, <2>1, <3>3, <4>1, RollBackGrows, GrowthStep
    <3> QED
      BY <1>3, <3>1, <3>2, <3>3 DEF Publish
  <2> QED
    BY <2>1, <2>2, <2>3 DEF TickInv, CommitInv, OkInv, EndInv
<1> QED
  BY <1>2, <1>3

LEMMA CancelStep ==
    ASSUME TickInv, Cancel \/ CancelSync
    PROVE  TickInv'
<1>1. JournalInv /\ TreeInv
  BY DEF TickInv
<1>2. InRun /\ branch' = branch /\ restored' = restored /\ made' = made
  BY DEF Cancel, CancelSync, tables, InRun, Between
<1>3. place' = "committing" /\ ~ok'
  BY DEF Cancel, CancelSync, StepFails
<1>4. CASE work' = work
  BY <1>1, <1>2, <1>3, <1>4, StillStep, Elsewhere
<1>5. ASSUME NEW rows, KilledSync(rows)
      PROVE  TickInv'
  <2>1. Grows /\ Holds(Kept(work'), made' \ made)
    BY <1>1, <1>2, <1>5, KilledSyncGrows DEF Holds
  <2> QED
    BY <1>1, <1>2, <1>3, <2>1, GrowthStep, Elsewhere
<1> QED
  BY <1>4, <1>5 DEF Cancel, CancelSync, tables

\* What is in the tree is on the branch after the commit step, and a journal
\* of either is one of the branch.
LEMMA CommitStep ==
    ASSUME TickInv, Commit
    PROVE  TickInv' /\ InBoth(Kept(branch), branch'.files)
<1>1. place = "committing" /\ UNCHANGED <<restored, made, ran, waiting, row>>
  BY DEF Commit
<1>2. place' \in {"verifying", "unpushed"} /\ (ok' => ok)
  BY DEF Commit
<1>3. OkInv' /\ TreeInv' /\ EndInv'
  BY <1>1, <1>2 DEF TickInv, OkInv, TreeInv, EndInv, InRun
<1>4. InBoth(Kept(branch), branch.files) /\ InBoth(Kept(work), work.files)
  BY DEF TickInv, JournalInv
<1>5. ASSUME restored
      PROVE  /\ InBoth(Kept(branch), work.files)
             /\ Holds(work.files, made)
  <2>1. InBoth(Kept(branch), Kept(work)) /\ Holds(Kept(work), made)
    BY <1>1, <1>5 DEF TickInv, TreeInv, InRun
  <2> QED
    BY <1>4, <2>1 DEF InBoth, Holds
<1>6. ASSUME UNCHANGED <<branch, work>>,
             place' = "verifying" /\ restored => work.files = branch.files
      PROVE  TickInv' /\ InBoth(Kept(branch), branch'.files)
  <2>1. JournalInv'
    BY <1>4, <1>6 DEF JournalInv, Kept
  <2>2. CommitInv'
    BY <1>1, <1>5, <1>6 DEF CommitInv, Holds
  <2> QED
    BY <1>3, <1>4, <1>6, <2>1, <2>2 DEF TickInv
<1>7. ASSUME branch' = Copied, work' = Copied, restored
      PROVE  TickInv' /\ InBoth(Kept(branch), branch'.files)
  <2>1. Copied.files = work.files
    BY DEF Copied
  <2>2. Kept(Copied) \in {Kept(work), Kept(branch), work.files}
    BY DEF Kept, Copied
  <2>3. InBoth(work.files, work.files)
    BY DEF InBoth
  <2>4. InBoth(Kept(Copied), Copied.files)
    BY <1>4, <1>5, <1>7, <2>1, <2>2, <2>3
  <2>5. JournalInv'
    BY <1>7, <2>4 DEF JournalInv, Kept
  <2>6. CommitInv'
    BY <1>1, <1>5, <1>7, <2>1 DEF CommitInv, Holds
  <2> QED
    BY <1>3, <1>5, <1>7, <2>1, <2>5, <2>6 DEF TickInv
<1> QED
  BY <1>6, <1>7 DEF Commit, Changed, Always

\* The verdict, and the end of the machine.
LEMMA EndStep ==
    ASSUME TickInv, Verify \/ Lose
    PROVE  TickInv'
<1>1. place' \in Between /\ UNCHANGED <<branch, restored, made, row, waiting>>
  BY DEF Verify, Lose, EndsAs, Between
<1>2. JournalInv'
  BY DEF Verify, Lose, EndsAs, TickInv, JournalInv, Bare, Kept, InBoth
<1>3. TreeInv' /\ CommitInv' /\ OkInv'
  BY <1>1 DEF TreeInv, CommitInv, OkInv, InRun, Between
<1>4. EndInv'
  <2>1. CASE place' = "lost"
    BY <2>1 DEF EndInv
  <2>2. CASE place = "verifying" /\ Verify
    <3>1. place' = "green" => ok /\ Recorded
      BY <2>2 DEF Verify, EndsAs
    <3>2. CommitInv /\ OkInv
      BY DEF TickInv
    <3> QED
      BY <1>1, <2>2, <3>1, <3>2 DEF EndInv, CommitInv, OkInv, Recorded, Holds
  <2> QED
    BY <2>1, <2>2 DEF Verify, Lose, EndsAs
<1> QED
  BY <1>2, <1>3, <1>4 DEF TickInv

\* Every step keeps the invariant.
LEMMA StepTick ==
    ASSUME TickInv, [Next]_vars
    PROVE  TickInv'
<1>1. ASSUME UNCHANGED <<branch, tick>>
      PROVE  TickInv'
  BY <1>1
  DEF TickInv, JournalInv, TreeInv, CommitInv, OkInv, EndInv, InRun, tick, tables,
      Kept, InBoth, Holds
<1>2. ASSUME NEW c \in Conditions, Repair(c)
      PROVE  TickInv'
  BY <1>1, <1>2 DEF Repair
<1>3. ASSUME UNCHANGED vars
      PROVE  TickInv'
  BY <1>1, <1>3 DEF vars
<1> QED
  BY <1>2, <1>3, BeginStep, LoopStep, PublishStep, CancelStep, CommitStep, EndStep
  DEF Next, TickStep

LEMMA TickInvariant == Spec => []TickInv
  BY InitTick, StepTick, PTL DEF Spec

----------------------------------------------------------------------------
\* Every row that a tick has published, having begun with the tables of the
\* branch, is on the branch after it: whatever step failed, and also if it was
\* killed in the middle of a publication, or the branch has the journal of one
\* that was.
THEOREM PublishedIsCommitted == Spec => []MeasuredIsCommitted
<1>1. TickInv => MeasuredIsCommitted
  BY DEF TickInv, EndInv, Holds, MeasuredIsCommitted
<1> QED
  BY <1>1, TickInvariant, PTL

\* A green tick that began with the tables of the branch has its experiment,
\* and every row of its runs, on the branch: that the verify step also takes a
\* row of the working tree makes no difference to it.
THEOREM GreenTicksAreRecorded == Spec => []GreenIsRecorded
<1>1. TickInv => GreenIsRecorded
  BY DEF TickInv, EndInv, Holds, GreenIsRecorded
<1> QED
  BY <1>1, TickInvariant, PTL

\* No tick takes a row from the branch that was there before a publication was
\* killed: neither one that begins without the tables, nor the rollbacks of the
\* journal, in every later tick, which nothing takes off the branch.
THEOREM HistoryStays == Spec => CommittedRowsStay
<1>1. ASSUME TickInv, [Next]_vars
      PROVE  InBoth(Kept(branch), branch'.files)
  <2>1. CASE Commit
    BY <1>1, <2>1, CommitStep
  <2>2. CASE ~Commit
    <3>1. branch' = branch
      BY <1>1, <2>2
      DEF Next, TickStep, vars, Schedule, Dispatch, Restore, Begin, SkipCandidate,
          TryCandidate, EstimateFails, NoCandidate, Ends, EndsSpoiled, TimesOut,
          IsCutShort, Dies, IsLimited, WorkReturns0, Publish, Verify, Cancel,
          CancelSync, Lose, Repair
    <3> QED
      BY <1>1, <3>1 DEF TickInv, JournalInv
  <2> QED
    BY <2>1, <2>2
<1>2. TickInv /\ [Next]_vars => [InBoth(Kept(branch), branch'.files)]_vars
  BY <1>1
<1> QED
  BY <1>2, TickInvariant, PTL DEF Spec, CommittedRowsStay
=============================================================================
