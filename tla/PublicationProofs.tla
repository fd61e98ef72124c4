-------------------------- MODULE PublicationProofs --------------------------
(* What is published is one attempt, under a key of its own, the same in     *)
(* both tables, whatever overlaps, dies and is retried, of every run that is *)
(* not Confusable; and a synchronisation that returns leaves no undisturbed  *)
(* success behind.  Neither the number of runs nor that of attempts is       *)
(* bounded; what goes wrong with a confusable run is shown by keys_refuse.   *)
EXTENDS Publication, JobStoreProofs, FiniteSetTheorems, WellFoundedInduction

Phases == {"idle", "preparing", "running", "evaluating", "publishing"}

Endings == {"open", "unlaunched"} \cup Verdicts

PublicationTyped ==
    /\ StoreTypeOK
    /\ phase \in Phases
    /\ job \in Runs \cup {NoRun}
    /\ phase = "idle" <=> job = NoRun
    /\ ended \in [Runs -> Seq(Endings)]
    /\ saved \in [Runs -> Nat]
    /\ \A r \in Runs : saved[r] <= Attempt(r)
    /\ costless \subseteq Runs
    /\ disturbed \subseteq Runs
    /\ syncing \in {"nobody", "worker", "command"}
    /\ collected \in BOOLEAN
    /\ phase \in {"running", "evaluating", "publishing"} => Attempt(job) # 0
    /\ phase = "running" => Verdict = "open"
    /\ syncing = "worker" => phase = "publishing"

-----------------------------------------------------------------------------
(* Every nonempty set of naturals has a least element.                       *)
LEMMA LeastElement ==
    ASSUME NEW T \in SUBSET Nat, T # {}
    PROVE  \E n \in T : \A m \in T : n <= m
<1> DEFINE R == OpToRel(<, Nat)
<1>1. IsWellFoundedOn(R, Nat)
  BY NatLessThanWellFounded
<1>2. \A x, y \in Nat : x < y => <<x, y>> \in R
  BY DEF OpToRel
<1> HIDE DEF R
<1>3. PICK x \in T : \A y \in T : ~(<<y, x>> \in R)
  BY <1>1, WFMin
<1>4. ASSUME NEW y \in T
      PROVE  x <= y
  <2>1. x \in Nat /\ y \in Nat /\ ~(y < x)
    BY <1>2, <1>3
  <2> QED  BY <2>1
<1> QED  BY <1>3, <1>4

(* attempt_run_id finds a number: among one more than are taken there is one *)
(* that is free, and the first such.                                         *)
LEMMA FirstFree ==
    ASSUME NEW T, IsFiniteSet(T)
    PROVE  \E n \in 1..(Cardinality(T) + 1) :
               n \notin T /\ \A m \in 1..(n - 1) : m \in T
<1> DEFINE c == Cardinality(T) + 1
           U == {n \in 1..c : n \notin T}
<1>1. c \in Nat
  BY FS_CardinalityType
<1>2. U # {}
  <2> SUFFICES ASSUME U = {}  PROVE FALSE
    OBVIOUS
  <2>1. (1..c) \in SUBSET T
    OBVIOUS
  <2>2. Cardinality(1..c) <= Cardinality(T)
    BY <2>1, FS_Subset
  <2>3. Cardinality(1..c) = c
    BY <1>1, FS_Interval
  <2> QED  BY <2>2, <2>3, FS_CardinalityType
<1>3. PICK n \in U : \A m \in U : n <= m
  <2>1. U \in SUBSET Nat
    BY <1>1
  <2> HIDE DEF U
  <2> QED  BY <1>2, <2>1, LeastElement
<1> QED  BY <1>1, <1>3

-----------------------------------------------------------------------------
(* A request changes the rows of the store alone: a row it puts back or      *)
(* removes is not running, and no row becomes a success or a failure by it.  *)
LEMMA RequestStep ==
    ASSUME StoreTypeOK, Request
    PROVE  /\ StoreTypeOK'
           /\ UNCHANGED pubVars
           /\ \A r \in Runs : status'[r] = status[r] \/ status'[r] \in {"queued", "absent"}
           /\ \A r \in Runs : status[r] = "running" => status'[r] = "running"
<1>1. StoreNext /\ UNCHANGED pubVars
  BY DEF Request, StoreNext
<1>2. StoreTypeOK'
  BY <1>1, StoreTypeStep
<1> USE DEF StoreTypeOK
<1>3. ASSUME NEW p \in Plans, NEW a \in Approvals, Enqueue(p, a), NEW r \in Runs
      PROVE  /\ status'[r] = status[r] \/ status'[r] \in {"queued", "absent"}
             /\ status[r] = "running" => status'[r] = "running"
  <2>1. r \in RunsOf(p) => status[r] = "absent"
    BY <1>3 DEF Enqueue, Unused, JobsForDigest, Present
  <2> QED  BY <1>3, <2>1 DEF Enqueue
<1>4. ASSUME NEW s \in Runs, RetryJob(s), NEW r \in Runs
      PROVE  /\ status'[r] = status[r] \/ status'[r] \in {"queued", "absent"}
             /\ status[r] = "running" => status'[r] = "running"
  BY <1>4 DEF RetryJob, NotRetryable
<1>5. ASSUME NEW s \in Runs, DeleteJob(s), NEW r \in Runs
      PROVE  /\ status'[r] = status[r] \/ status'[r] \in {"queued", "absent"}
             /\ status[r] = "running" => status'[r] = "running"
  BY <1>5 DEF DeleteJob
<1> QED  BY <1>1, <1>2, <1>3, <1>4, <1>5 DEF Request

LEMMA TypedInit == Init => PublicationTyped
<1> SUFFICES ASSUME Init  PROVE PublicationTyped
  OBVIOUS
<1>1. StoreTypeOK
  BY DEF Init, StoreInit, StoreTypeOK
<1>2. ended \in [Runs -> Seq(Endings)] /\ \A r \in Runs : Attempt(r) = 0
  BY DEF Init, Attempt
<1>3. saved \in [Runs -> Nat] /\ \A r \in Runs : saved[r] <= Attempt(r)
  BY <1>2 DEF Init
<1>4. /\ phase \in Phases /\ job \in Runs \cup {NoRun} /\ (phase = "idle" <=> job = NoRun)
      /\ syncing \in {"nobody", "worker", "command"} /\ collected \in BOOLEAN
      /\ costless \subseteq Runs /\ disturbed \subseteq Runs
  BY DEF Init, Phases
<1>5. phase \notin {"running", "evaluating", "publishing"} /\ syncing = "nobody"
  BY DEF Init
<1> QED  BY <1>1, <1>2, <1>3, <1>4, <1>5 DEF PublicationTyped

(* The last attempt of the job gets its verdict.                             *)
LEMMA EndsAsStep ==
    ASSUME PublicationTyped, phase = "running",
           NEW verdict \in Verdicts, EndsAs(verdict)
    PROVE  /\ ended' \in [Runs -> Seq(Endings)]
           /\ \A r \in Runs : Len(ended'[r]) = Len(ended[r])
           /\ \A r \in Runs \ {job} : ended'[r] = ended[r]
           /\ \A k \in 1..(Attempt(job) - 1) : ended'[job][k] = ended[job][k]
           /\ ended'[job][Attempt(job)] = verdict
<1>1. job \in Runs /\ ended \in [Runs -> Seq(Endings)] /\ Attempt(job) # 0
  BY DEF PublicationTyped
<1> DEFINE s == ended[job]
           t == [s EXCEPT ![Len(s)] = verdict]
<1>2. s \in Seq(Endings) /\ Len(s) \in Nat /\ Len(s) # 0
  BY <1>1 DEF Attempt, PublicationTyped
<1>3. t \in Seq(Endings) /\ Len(t) = Len(s)
  BY <1>2 DEF Endings
<1>4. t[Len(s)] = verdict /\ \A k \in 1..(Len(s) - 1) : t[k] = s[k]
  BY <1>2
<1>5. ended' = [ended EXCEPT ![job] = t]
  BY <1>1 DEF EndsAs, Attempt
<1> HIDE DEF s, t
<1>6. ended'[job] = t /\ \A r \in Runs \ {job} : ended'[r] = ended[r]
  BY <1>1, <1>5
<1> QED  BY <1>1, <1>3, <1>4, <1>5, <1>6 DEF s, Attempt

(* An attempt that opens the log is one more, and leaves the others alone.   *)
LEMMA OpensLogStep ==
    ASSUME PublicationTyped, NEW start \in {"open", "unlaunched"}, OpensLog(start)
    PROVE  /\ job \in Runs
           /\ ended' \in [Runs -> Seq(Endings)]
           /\ \A r \in Runs \ {job} : ended'[r] = ended[r]
           /\ Len(ended'[job]) = Attempt(job) + 1
           /\ \A k \in 1..Attempt(job) : ended'[job][k] = ended[job][k]
           /\ ended'[job][Attempt(job) + 1] = start
<1>1. job \in Runs /\ ended \in [Runs -> Seq(Endings)]
  BY DEF PublicationTyped, OpensLog
<1> DEFINE s == ended[job]
           t == Append(s, start)
<1>2. s \in Seq(Endings) /\ Len(s) \in Nat
  BY <1>1
<1>3. start \in Endings
  BY DEF Endings
<1> HIDE DEF s, t
<1>4. /\ t \in Seq(Endings) /\ Len(t) = Len(s) + 1
      /\ t[Len(s) + 1] = start /\ \A k \in 1..Len(s) : t[k] = s[k]
  <2>1. t \in Seq(Endings)
    BY <1>2, <1>3 DEF t
  <2>2. Len(t) = Len(s) + 1
    BY <1>2, <1>3 DEF t
  <2>3. t[Len(s) + 1] = start
    BY <1>2, <1>3 DEF t
  <2>4. \A k \in 1..Len(s) : t[k] = s[k]
    BY <1>2, <1>3 DEF t
  <2> QED  BY <2>1, <2>2, <2>3, <2>4
<1>5. ended' = [ended EXCEPT ![job] = t]
  BY <1>1 DEF OpensLog, s, t
<1>6. ended'[job] = t /\ \A r \in Runs \ {job} : ended'[r] = ended[r]
  BY <1>1, <1>5
<1> QED  BY <1>1, <1>4, <1>5, <1>6 DEF s, Attempt

LEMMA LaunchStep ==
    ASSUME PublicationTyped, Launch \/ FailToStart
    PROVE  /\ job \in Runs
           /\ ended' \in [Runs -> Seq(Endings)]
           /\ \A r \in Runs \ {job} : ended'[r] = ended[r]
           /\ Len(ended'[job]) = Attempt(job) + 1
           /\ \A k \in 1..Attempt(job) : ended'[job][k] = ended[job][k]
           /\ Launch => ended'[job][Attempt(job) + 1] = "open"
           /\ disturbed' = disturbed \cup {r \in {job} : listed[r] \in Publishable}
  BY OpensLogStep DEF Launch, FailToStart, OpensLog

(* The worker's operations of the store are steps of the store.              *)
LEMMA WorkerStoreStep ==
    ASSUME StoreTypeOK,
           \/ \E r \in Runs : ClaimNextQueued(r) \/ RequeueJob(r)
           \/ \E r \in Runs, final \in FinalStatus : FinishJob(r, final)
           \/ RequeueOrphanedRunning
           \/ UNCHANGED storeVars
    PROVE  StoreTypeOK'
  BY StoreTypeStep DEF StoreNext

(* Every step keeps the shapes.                                              *)
LEMMA TypedStep ==
    ASSUME PublicationTyped, [Next]_vars
    PROVE  PublicationTyped'
<1> USE DEF PublicationTyped, Phases
<1>0. /\ NoRun \notin Runs
      /\ Verdicts \cup {"blocked", "config-error", "worker-error"} \subseteq FinalStatus
  BY PublicationAssumption DEF Verdicts, FinalStatus
<1>1. CASE Claim
  <2>1. PICK r \in Runs : ClaimNextQueued(r) /\ job' = r
    BY <1>1 DEF Claim
  <2> QED  BY <1>0, <1>1, <2>1, WorkerStoreStep DEF Claim, SyncVars, Attempt, Files
<1>2. CASE EndWithoutRun
  BY <1>0, <1>2, WorkerStoreStep DEF EndWithoutRun, Free, SyncVars, Attempt, Files
<1>3. CASE Launch \/ FailToStart
  <2>1. /\ job \in Runs /\ UNCHANGED <<saved, costless, SyncVars>> /\ phase = "preparing"
        /\ \/ Launch /\ phase' = "running" /\ UNCHANGED <<storeVars, job>>
           \/ Free /\ FinishJob(job, "worker-error")
    BY <1>3 DEF Launch, FailToStart, OpensLog, Files
  <2>2. \A r \in Runs : Len(ended[r]) \in Nat /\ saved[r] \in Nat
    OBVIOUS
  <2>3. Attempt(job)' = IF job' = job THEN Attempt(job) + 1 ELSE Attempt(job)'
    BY <1>3, LaunchStep DEF Attempt
  <2>4. \A r \in Runs : saved'[r] <= Attempt(r)'
    <3>1. \A r \in Runs \ {job} : Len(ended'[r]) = Len(ended[r])
      BY <1>3, LaunchStep
    <3>2. Len(ended'[job]) = Len(ended[job]) + 1
      BY <1>3, LaunchStep DEF Attempt
    <3> QED  BY <2>1, <2>2, <3>1, <3>2 DEF Attempt
  <2>5. phase' = "running" => Verdict' = "open" /\ Attempt(job)' # 0
    <3>1. phase' = "running" => Launch /\ job' = job
      BY <2>1 DEF Free
    <3> QED  BY <1>3, <2>1, <2>2, <3>1, LaunchStep DEF Attempt, Verdict
  <2>6. syncing' # "worker" /\ phase' \notin {"evaluating", "publishing"}
    BY <1>3, <2>1 DEF SyncVars, Free
  <2>7. StoreTypeOK'
    BY <1>0, <2>1, WorkerStoreStep
  <2>8. disturbed' \subseteq Runs
    BY <1>3, <2>1, LaunchStep
  <2> QED  BY <1>0, <1>3, <2>1, <2>4, <2>5, <2>6, <2>7, <2>8, LaunchStep DEF SyncVars, Free
<1>4. CASE UsageLimit
  <2>1. /\ job \in Runs /\ RequeueJob(job) /\ EndsAs("failed") /\ phase = "running"
        /\ Free /\ UNCHANGED <<saved, costless, disturbed, SyncVars>>
    BY <1>4 DEF UsageLimit, Files
  <2>2. \A r \in Runs : Attempt(r)' = Attempt(r)
    BY <2>1, EndsAsStep DEF Attempt, Verdicts
  <2>3. ended' \in [Runs -> Seq(Endings)]
    BY <2>1, EndsAsStep DEF Verdicts
  <2> QED  BY <1>0, <2>1, <2>2, <2>3, WorkerStoreStep DEF Free, SyncVars
<1>5. CASE Finish
  <2>1. PICK verdict \in Verdicts : EndsAs(verdict)
    BY <1>5 DEF Finish
  <2>2. /\ job \in Runs /\ phase = "running" /\ phase' = "evaluating"
        /\ UNCHANGED <<job, saved, costless, disturbed, SyncVars>>
        /\ \E final \in FinalStatus : FinishJob(job, final)
    BY <1>0, <1>5 DEF Finish, Files
  <2>3. \A r \in Runs : Attempt(r)' = Attempt(r)
    BY <2>1, <2>2, EndsAsStep DEF Attempt
  <2>4. ended' \in [Runs -> Seq(Endings)]
    BY <2>1, <2>2, EndsAsStep
  <2>5. Attempt(job)' # 0
    BY <2>2, <2>3 DEF Attempt
  <2> QED  BY <1>0, <2>2, <2>3, <2>4, <2>5, WorkerStoreStep DEF SyncVars
<1>6. CASE Save
  <2>1. /\ job \in Runs /\ saved' = [saved EXCEPT ![job] = Attempt(job)]
        /\ UNCHANGED <<storeVars, ended, SyncVars, disturbed>> /\ costless' \subseteq Runs
        /\ (phase' = "publishing" /\ job' = job) \/ Free
        /\ phase = "evaluating"
    BY <1>6 DEF Save, CostIsSaved
  <2>2. \A r \in Runs : Attempt(r)' = Attempt(r) /\ Attempt(r) \in Nat
    BY <2>1 DEF Attempt
  <2> QED  BY <1>0, <2>1, <2>2, WorkerStoreStep DEF Free, SyncVars, Attempt
<1>7. CASE Interrupt
  <2>1. /\ RequeueOrphanedRunning /\ Free /\ UNCHANGED <<ended, saved, costless>>
        /\ (UNCHANGED SyncVars /\ syncing # "worker") \/ EndSync
        /\ job \in Runs /\ disturbed' \subseteq disturbed \cup {job}
    BY <1>7 DEF Interrupt, Files
  <2> QED  BY <1>0, <2>1, WorkerStoreStep DEF Free, EndSync, SyncVars, Attempt
<1>8. CASE WorkerBegins \/ CommandBegins
  <2>1. /\ UNCHANGED <<storeVars, phase, job, ended, saved, costless, collected>>
        /\ \/ syncing' = "worker" /\ phase = "publishing" /\ disturbed' = disturbed
           \/ syncing' = "command" /\ disturbed' = disturbed \cup {r \in {job} : phase = "evaluating"}
    BY <1>8 DEF WorkerBegins, CommandBegins, Begin, Files
  <2>2. disturbed' \subseteq Runs
    BY <2>1
  <2> QED  BY <2>1, <2>2, WorkerStoreStep DEF Attempt, Verdict
<1>9. CASE WorkerRefused
  BY <1>0, <1>9, WorkerStoreStep DEF WorkerRefused, Free, SyncVars, Attempt, Files
<1>10. CASE Collect
  BY <1>10, WorkerStoreStep DEF Collect, Attempt, Verdict, Files
<1>11. CASE Commit \/ CollectRaises
  <2>1. /\ UNCHANGED <<storeVars, ended, saved, costless, disturbed>>
        /\ syncing' = "nobody" /\ collected' = FALSE
        /\ Free \/ UNCHANGED <<phase, job>>
    BY <1>11 DEF Commit, CollectRaises, EndSync, Files
  <2> QED  BY <1>0, <2>1, WorkerStoreStep DEF Free, Attempt, Verdict
<1>12. CASE Request
  BY <1>12, RequestStep DEF pubVars, Attempt, Verdict
<1>13. CASE UNCHANGED vars
  BY <1>13, WorkerStoreStep DEF vars, pubVars, Attempt, Verdict
<1> QED
  BY <1>1, <1>2, <1>3, <1>4, <1>5, <1>6, <1>7, <1>8, <1>9, <1>10, <1>11, <1>12, <1>13
  DEF Next

-----------------------------------------------------------------------------
(* Everything of the last attempt of the run is on disk, and it ended so.    *)
MeasuredAs(r, verdict) ==
    /\ saved[r] # 0
    /\ saved[r] = Attempt(r)
    /\ ended[r][saved[r]] = verdict

(* The row of the job, and what a synchronisation has at hand.               *)
WorkerInv ==
    /\ phase \in {"preparing", "running"} => status[job] = "running"
    /\ phase = "evaluating" /\ status[job] \in Publishable => status[job] = Verdict
    /\ collected => syncing # "nobody"
    /\ ~collected => built = {}

(* A row in a publishable status has its files, but for the time between     *)
(* finish_job and the save.                                                  *)
SettledOf(r) ==
    status[r] \in Publishable /\ ~(r = job /\ phase = "evaluating") =>
        MeasuredAs(r, status[r])

(* What was listed still is so on disk.                                      *)
ListedOf(r) ==
    syncing # "nobody" /\ listed[r] \in Publishable => MeasuredAs(r, listed[r])

(* The row a synchronisation adds to the summary.                            *)
RowFor(r) == [run |-> r, n |-> NumberFor(r, listed[r]), status |-> listed[r],
              measured |-> saved[r], told |-> Attempt(r)]

NewRows == {RowFor(r) : r \in Missing(summary)}

(* And to the results.                                                       *)
ResultFor(r) == [run |-> r, n |-> NumberFor(r, listed[r]), status |-> ended[r][saved[r]],
                 measured |-> saved[r], told |-> saved[r]]

NewResults == {ResultFor(r) : r \in Missing(results)}

(* The row that was collected is still the one to add.                       *)
BuiltOf(r) ==
    collected =>
        /\ \A row \in built : row.run = r => r \in Missing(summary) /\ row = RowFor(r)
        /\ r \in Missing(summary) => RowFor(r) \in built

(* The row tells of one attempt, as it ended.                                *)
IsAttempt(row) ==
    /\ row.run \in Runs
    /\ row.status \in Publishable
    /\ row.measured \in 1..Attempt(row.run)
    /\ row.told = row.measured
    /\ row.status = ended[row.run][row.measured]

(* Both tables have the same rows of the run, each of one attempt: one for a *)
(* status, and one for a number.                                             *)
TablesOf(r) ==
    /\ \A row \in results \cup summary :
           row.run = r => row \in results /\ row \in summary /\ IsAttempt(row)
    /\ \A p, q \in summary :
           p.run = r /\ q.run = r /\ (p.status = q.status \/ p.n = q.n) => p = q

SoundOf(r) == SettledOf(r) /\ ListedOf(r) /\ BuiltOf(r) /\ TablesOf(r)

SoundInv ==
    /\ PublicationTyped
    /\ WorkerInv
    /\ \A r \in Runs \ disturbed : SoundOf(r)

(* Steps that open no log and give no verdict leave the attempts alone.      *)
LEMMA SameEnded ==
    ASSUME [Next]_vars, ~Launch, ~FailToStart, ~UsageLimit, ~Finish
    PROVE  ended' = ended
  BY DEF Next, Claim, EndWithoutRun, Save, Interrupt, WorkerBegins, CommandBegins, Begin,
         WorkerRefused, Collect, CollectRaises, Commit, Request, pubVars, vars

LEMMA DisturbedGrows ==
    ASSUME [Next]_vars
    PROVE  disturbed \subseteq disturbed'
  BY DEF Next, Claim, EndWithoutRun, Launch, FailToStart, OpensLog, UsageLimit, Finish,
         Save, Interrupt, WorkerBegins, CommandBegins, WorkerRefused, Collect,
         CollectRaises, Commit, Request, pubVars, vars

(* What is published tells of an attempt for good: verdicts are given once.  *)
LEMMA AttemptsStay ==
    ASSUME PublicationTyped, [Next]_vars, NEW row, IsAttempt(row)
    PROVE  IsAttempt(row)'
<1> DEFINE r == row.run
<1>1. /\ r \in Runs /\ row.measured \in 1..Attempt(r)
      /\ row.status = ended[r][row.measured] /\ row.status # "open"
  BY DEF IsAttempt, Publishable
<1>2. Attempt(r) \in Nat
  BY <1>1 DEF PublicationTyped, Attempt
<1>3. SUFFICES Attempt(r)' \in Nat /\ Attempt(r)' >= Attempt(r)
               /\ ended'[r][row.measured] = ended[r][row.measured]
  BY <1>1, <1>2 DEF IsAttempt
<1>4. CASE ended' = ended
  BY <1>2, <1>4 DEF Attempt
<1>5. CASE Launch \/ FailToStart
  BY <1>1, <1>2, <1>5, LaunchStep DEF Attempt
<1>6. ASSUME NEW verdict \in Verdicts, EndsAs(verdict), phase = "running"
      PROVE  /\ Attempt(r)' \in Nat /\ Attempt(r)' >= Attempt(r)
             /\ ended'[r][row.measured] = ended[r][row.measured]
  <2>1. r = job => row.measured # Attempt(job)
    BY <1>1, <1>6 DEF PublicationTyped, Verdict
  <2>2. r = job => row.measured \in 1..(Attempt(job) - 1)
    BY <1>1, <1>2, <2>1
  <2> QED  BY <1>1, <1>2, <1>6, <2>2, EndsAsStep DEF Attempt
<1>7. CASE UsageLimit
  BY <1>6, <1>7 DEF UsageLimit, Verdicts
<1>8. CASE Finish
  BY <1>6, <1>8 DEF Finish
<1> QED  BY <1>4, <1>5, <1>7, <1>8, SameEnded

(* Nothing happens to the files of a listed run unless it is disturbed.      *)
LEMMA ListedStays ==
    ASSUME PublicationTyped, [Next]_vars, NEW r \in Runs \ disturbed',
           listed[r] \in Publishable, MeasuredAs(r, listed[r])
    PROVE  /\ saved'[r] = saved[r] /\ ended'[r][saved[r]] = ended[r][saved[r]]
           /\ Len(ended'[r]) = Len(ended[r])
<1>1. saved[r] = Attempt(r) /\ ended[r][Attempt(r)] # "open"
  BY DEF MeasuredAs, Publishable
<1>2. CASE Launch \/ FailToStart
  <2>1. r # job
    BY <1>2, LaunchStep
  <2>2. saved' = saved
    BY <1>2 DEF Launch, FailToStart, Files
  <2> QED  BY <1>2, <2>1, <2>2, LaunchStep
<1>3. ASSUME NEW verdict \in Verdicts, EndsAs(verdict), phase = "running", saved' = saved
      PROVE  /\ saved'[r] = saved[r] /\ ended'[r][saved[r]] = ended[r][saved[r]]
             /\ Len(ended'[r]) = Len(ended[r])
  <2>1. r # job
    BY <1>1, <1>3 DEF PublicationTyped, Verdict
  <2> QED  BY <1>3, <2>1, EndsAsStep
<1>4. CASE UsageLimit
  BY <1>3, <1>4 DEF UsageLimit, Verdicts, Files
<1>5. CASE Finish
  BY <1>3, <1>5 DEF Finish, Files
<1>6. CASE Save
  <2>1. saved' = [saved EXCEPT ![job] = Attempt(job)] /\ ended' = ended /\ job \in Runs
    BY <1>6 DEF Save, PublicationTyped
  <2>2. saved'[r] = saved[r]
    BY <1>1, <2>1 DEF PublicationTyped
  <2> QED  BY <2>1, <2>2
<1>7. CASE ~Launch /\ ~FailToStart /\ ~UsageLimit /\ ~Finish /\ ~Save
  <2>1. ended' = ended
    BY <1>7, SameEnded
  <2>2. saved' = saved
    BY <1>7
    DEF Next, Claim, EndWithoutRun, Interrupt, WorkerBegins, CommandBegins, Begin,
        WorkerRefused, Collect, CollectRaises, Commit, Request, Files, pubVars, vars
  <2> QED  BY <2>1, <2>2
<1> QED  BY <1>2, <1>4, <1>5, <1>6, <1>7

LEMMA WorkerInvStep ==
    ASSUME PublicationTyped, WorkerInv, [Next]_vars
    PROVE  WorkerInv'
<1>0. StoreTypeOK /\ NoRun \notin Runs
  BY PublicationAssumption DEF PublicationTyped
<1>1. CASE Claim
  BY <1>0, <1>1 DEF Claim, ClaimNextQueued, StoreTypeOK, WorkerInv, SyncVars
<1>2. CASE EndWithoutRun \/ FailToStart \/ UsageLimit
  <2>1. phase' = "idle" /\ UNCHANGED SyncVars
    BY <1>2 DEF EndWithoutRun, FailToStart, UsageLimit, Free
  <2> QED  BY <2>1 DEF WorkerInv, SyncVars
<1>3. CASE Launch
  BY <1>3 DEF Launch, OpensLog, WorkerInv, SyncVars, storeVars
<1>4. CASE Finish
  <2>1. PICK verdict \in Verdicts : EndsAs(verdict)
             /\ (FinishJob(job, verdict) \/ FinishJob(job, "blocked"))
    BY <1>4 DEF Finish
  <2>2. job \in Runs /\ phase = "running" /\ phase' = "evaluating" /\ job' = job
        /\ UNCHANGED SyncVars
    BY <1>4 DEF Finish, PublicationTyped
  <2>3. status'[job] \in {verdict, "blocked"}
    BY <1>0, <2>1, <2>2 DEF FinishJob, StoreTypeOK
  <2>4. Verdict' = verdict
    BY <2>1, <2>2, EndsAsStep DEF Attempt, Verdict
  <2> QED  BY <2>2, <2>3, <2>4 DEF WorkerInv, SyncVars, Publishable
<1>5. CASE Save
  <2>1. phase' \in {"publishing", "idle"} /\ UNCHANGED SyncVars
    BY <1>5 DEF Save, Free
  <2> QED  BY <2>1 DEF WorkerInv, SyncVars
<1>6. CASE Interrupt
  <2>1. phase' = "idle" /\ (UNCHANGED SyncVars \/ EndSync)
    BY <1>6 DEF Interrupt, Free
  <2> QED  BY <2>1 DEF WorkerInv, SyncVars, EndSync
<1>7. CASE WorkerBegins \/ CommandBegins
  BY <1>7 DEF WorkerBegins, CommandBegins, Begin, WorkerInv, storeVars, Verdict, Attempt
<1>8. CASE WorkerRefused
  BY <1>8 DEF WorkerRefused, Free, WorkerInv, SyncVars
<1>9. CASE Collect
  BY <1>9 DEF Collect, WorkerInv, storeVars, Verdict, Attempt
<1>10. CASE CollectRaises \/ Commit
  <2>1. /\ phase' = "idle" \/ UNCHANGED <<phase, job>>
        /\ EndSync /\ UNCHANGED <<storeVars, ended>>
    BY <1>10 DEF CollectRaises, Commit, Free
  <2> QED  BY <2>1 DEF WorkerInv, EndSync, storeVars, Verdict, Attempt
<1>11. CASE Request
  <2>1. /\ UNCHANGED <<phase, job, ended, syncing, collected, built>>
        /\ \A r \in Runs : status'[r] = status[r] \/ status'[r] \in {"queued", "absent"}
        /\ \A r \in Runs : status[r] = "running" => status'[r] = "running"
    BY <1>0, <1>11, RequestStep DEF pubVars
  <2>2. phase # "idle" => job \in Runs
    BY DEF PublicationTyped
  <2> QED  BY <2>1, <2>2 DEF WorkerInv, Verdict, Attempt, Publishable
<1>12. CASE UNCHANGED vars
  BY <1>12 DEF vars, storeVars, pubVars, WorkerInv, Verdict, Attempt
<1> QED
  BY <1>1, <1>2, <1>3, <1>4, <1>5, <1>6, <1>7, <1>8, <1>9, <1>10, <1>11, <1>12 DEF Next

(* Whatever commands do meanwhile: only a worker that ends between           *)
(* finish_job and the save leaves a publishable row without its files.       *)
LEMMA SettledStep ==
    ASSUME PublicationTyped, WorkerInv, [Next]_vars, NEW r \in Runs \ disturbed', SettledOf(r)
    PROVE  SettledOf(r)'
<1>0. StoreTypeOK /\ NoRun \notin Runs /\ (phase # "idle" => job \in Runs /\ job # NoRun)
  BY PublicationAssumption DEF PublicationTyped
<1>1. ASSUME saved'[r] = saved[r], ended'[r] = ended[r], status'[r] = status[r],
             ~(r = job /\ phase = "evaluating")
      PROVE  SettledOf(r)'
  BY <1>1 DEF SettledOf, MeasuredAs, Attempt
<1>2. CASE Claim
  <2>1. PICK s \in Runs : ClaimNextQueued(s) /\ job' = s
    BY <1>2 DEF Claim
  <2>2. status'[s] = "running" /\ \A q \in Runs \ {s} : status'[q] = status[q]
    BY <1>0, <2>1 DEF ClaimNextQueued, StoreTypeOK
  <2>3. phase = "idle" /\ UNCHANGED <<saved, ended>>
    BY <1>2 DEF Claim, Files
  <2> QED  BY <1>1, <2>2, <2>3 DEF SettledOf, Publishable
<1>3. CASE EndWithoutRun
  <2>1. PICK final \in {"blocked", "config-error", "worker-error"} : FinishJob(job, final)
    BY <1>3 DEF EndWithoutRun
  <2>2. phase = "preparing" /\ UNCHANGED <<saved, ended>>
    BY <1>3 DEF EndWithoutRun, Files
  <2>3. status'[job] = final /\ \A s \in Runs \ {job} : status'[s] = status[s]
    BY <1>0, <2>1, <2>2 DEF FinishJob, StoreTypeOK
  <2> QED  BY <1>1, <2>2, <2>3 DEF SettledOf, Publishable
<1>4. CASE Launch
  <2>1. phase = "preparing" /\ saved' = saved /\ status' = status
    BY <1>4 DEF Launch, OpensLog, Files, storeVars
  <2>2. r = job => status[r] \notin Publishable
    BY <2>1 DEF WorkerInv, Publishable
  <2> QED  BY <1>1, <1>4, <2>1, <2>2, LaunchStep DEF SettledOf
<1>5. CASE FailToStart
  <2>1. phase = "preparing" /\ saved' = saved /\ FinishJob(job, "worker-error")
    BY <1>5 DEF FailToStart, OpensLog, Files
  <2>2. status'[job] = "worker-error" /\ \A s \in Runs \ {job} : status'[s] = status[s]
    BY <1>0, <2>1 DEF FinishJob, StoreTypeOK
  <2> QED  BY <1>1, <1>5, <2>1, <2>2, LaunchStep DEF SettledOf, Publishable
<1>6. CASE UsageLimit
  <2>1. phase = "running" /\ RequeueJob(job) /\ EndsAs("failed") /\ saved' = saved
    BY <1>6 DEF UsageLimit, Files
  <2>2. status'[job] = "queued" /\ \A s \in Runs \ {job} : status'[s] = status[s]
    BY <1>0, <2>1 DEF RequeueJob, StoreTypeOK
  <2>3. \A s \in Runs \ {job} : ended'[s] = ended[s]
    BY <2>1, EndsAsStep DEF Verdicts
  <2> QED  BY <1>1, <2>1, <2>2, <2>3 DEF SettledOf, Publishable
<1>7. CASE Finish
  <2>1. PICK verdict \in Verdicts : EndsAs(verdict)
             /\ (FinishJob(job, verdict) \/ FinishJob(job, "blocked"))
    BY <1>7 DEF Finish
  <2>2. phase = "running" /\ phase' = "evaluating" /\ job' = job /\ saved' = saved
    BY <1>7 DEF Finish, Files
  <2>3. \A s \in Runs \ {job} : status'[s] = status[s]
    BY <1>0, <2>1, <2>2 DEF FinishJob, StoreTypeOK
  <2>4. \A s \in Runs \ {job} : ended'[s] = ended[s]
    BY <2>1, <2>2, EndsAsStep
  <2> QED  BY <1>1, <2>2, <2>3, <2>4 DEF SettledOf
<1>8. CASE Save
  <2>1. /\ phase = "evaluating" /\ saved' = [saved EXCEPT ![job] = Attempt(job)]
        /\ status' = status /\ ended' = ended /\ job \in Runs
    BY <1>0, <1>8 DEF Save, storeVars
  <2>2. saved'[job] = Attempt(job) /\ \A s \in Runs \ {job} : saved'[s] = saved[s]
    BY <2>1 DEF PublicationTyped
  <2>3. CASE r = job
    <3>1. Attempt(job) # 0 /\ (status[job] \in Publishable => status[job] = Verdict)
      BY <2>1 DEF PublicationTyped, WorkerInv
    <3> QED  BY <2>1, <2>2, <2>3, <3>1 DEF SettledOf, MeasuredAs, Attempt, Verdict
  <2> QED  BY <1>1, <2>1, <2>2, <2>3
<1>9. CASE Interrupt
  <2>1. /\ \A s \in Runs : status'[s] = status[s] \/ status'[s] = "queued"
        /\ UNCHANGED <<saved, ended>>
        /\ disturbed' = disturbed \cup {s \in {job} : phase = "evaluating"}
    BY <1>0, <1>9 DEF Interrupt, RequeueOrphanedRunning, StoreTypeOK, Files
  <2>2. ~(r = job /\ phase = "evaluating")
    BY <2>1
  <2> QED  BY <1>1, <2>1, <2>2 DEF SettledOf, Publishable
<1>10. CASE \/ WorkerBegins \/ CommandBegins \/ WorkerRefused \/ Collect \/ CollectRaises
            \/ Commit \/ UNCHANGED vars
  <2>1. UNCHANGED <<status, ended, saved>>
    BY <1>10 DEF WorkerBegins, CommandBegins, Begin, WorkerRefused, Collect, CollectRaises,
                 Commit, Files, storeVars, pubVars, vars
  <2>2. UNCHANGED <<phase, job>> \/ (phase = "publishing" /\ phase' = "idle")
    BY <1>10 DEF WorkerBegins, CommandBegins, Begin, WorkerRefused, Collect, CollectRaises,
                 Commit, Free, pubVars, vars, PublicationTyped
  <2> QED  BY <2>1, <2>2 DEF SettledOf, MeasuredAs, Attempt
<1>11. CASE Request
  <2>1. /\ UNCHANGED <<phase, job, ended, saved>>
        /\ status'[r] = status[r] \/ status'[r] \in {"queued", "absent"}
    BY <1>0, <1>11, RequestStep DEF pubVars
  <2> QED  BY <2>1 DEF SettledOf, MeasuredAs, Attempt, Publishable
<1> QED
  BY <1>2, <1>3, <1>4, <1>5, <1>6, <1>7, <1>8, <1>9, <1>10, <1>11 DEF Next

(* A fresh number is free: a run has no more numbers than there are statuses *)
(* to publish.                                                               *)
LEMMA FreshIsFree ==
    ASSUME NEW r, TablesOf(r)
    PROVE  \A q \in results \cup summary : q.run = r => q.n # FreshNumber(r)
<1> DEFINE T == {row.n : row \in {q \in results \cup summary : q.run = r}}
           rowOf(n) == CHOOSE q \in summary : q.run = r /\ q.n = n
           f == [n \in T |-> rowOf(n).status]
<1>1. \A n \in T : rowOf(n) \in summary /\ rowOf(n).run = r /\ rowOf(n).n = n
  BY DEF TablesOf
<1>2. f \in Injection(T, Publishable)
  <2>1. f \in [T -> Publishable]
    BY <1>1 DEF TablesOf, IsAttempt
  <2>2. ASSUME NEW m \in T, NEW n \in T, f[m] = f[n]
        PROVE  m = n
    <3> HIDE DEF T, rowOf
    <3>1. rowOf(m).status = rowOf(n).status
      BY <2>2
    <3> QED  BY <1>1, <3>1 DEF TablesOf
  <2> QED  BY <2>1, <2>2 DEF Injection, IsInjective
<1>3. IsFiniteSet(Publishable)
  <2>1. IsFiniteSet({"succeeded"}) /\ IsFiniteSet({"failed"}) /\ IsFiniteSet({"timeout"})
    BY FS_Singleton
  <2>2. IsFiniteSet({"succeeded"} \cup {"failed"})
    BY <2>1, FS_Union
  <2>3. IsFiniteSet(({"succeeded"} \cup {"failed"}) \cup {"timeout"})
    BY <2>1, <2>2, FS_Union
  <2>4. Publishable = ({"succeeded"} \cup {"failed"}) \cup {"timeout"}
    BY DEF Publishable
  <2> QED  BY <2>3, <2>4
<1>4. IsFiniteSet(T)
  <2> HIDE DEF T, f
  <2> QED  BY <1>2, <1>3, FS_Injection
<1>5. \E n \in 1..(Cardinality(T) + 1) : n \notin T /\ \A m \in 1..(n - 1) : m \in T
  <2> HIDE DEF T
  <2> QED  BY <1>4, FirstFree
<1>6. FreshNumber(r) = CHOOSE n \in 1..(Cardinality(T) + 1) :
                           n \notin T /\ \A m \in 1..(n - 1) : m \in T
  BY DEF FreshNumber
<1>7. FreshNumber(r) \notin T
  <2> HIDE DEF T
  <2> QED  BY <1>5, <1>6
<1> QED  BY <1>7

(* What a synchronisation adds of the run is the same row in both tables,    *)
(* about one attempt, in a status and under a number that its run does not   *)
(* have yet.                                                                 *)
LEMMA RowIsNew ==
    ASSUME PublicationTyped, syncing # "nobody", NEW r \in Runs, ListedOf(r), TablesOf(r)
    PROVE  /\ r \in Missing(results) <=> r \in Missing(summary)
           /\ r \in Missing(summary) => ResultFor(r) = RowFor(r)
           /\ r \in Missing(summary) => IsAttempt(RowFor(r))
           /\ r \in Missing(summary) => \A q \in results \cup summary : q.run = r =>
                  listed[r] # q.status /\ NumberFor(r, listed[r]) # q.n
<1>1. r \in Missing(results) <=> r \in Missing(summary)
  BY DEF Missing, Pairs, TablesOf
<1>2. ASSUME r \in Missing(summary)
      PROVE  /\ ResultFor(r) = RowFor(r)
             /\ IsAttempt(RowFor(r))
             /\ \A q \in results \cup summary : q.run = r =>
                    listed[r] # q.status /\ NumberFor(r, listed[r]) # q.n
  <2>1. listed[r] \in Publishable /\ <<r, listed[r]>> \notin Pairs(summary)
    BY <1>2 DEF Missing
  <2>2. MeasuredAs(r, listed[r])
    BY <2>1 DEF ListedOf
  <2>3. ResultFor(r) = RowFor(r)
    BY <2>2 DEF MeasuredAs, ResultFor, RowFor
  <2>4. saved[r] \in 1..Attempt(r)
    <3>1. saved[r] \in Nat /\ saved[r] # 0 /\ saved[r] = Attempt(r)
      BY <2>2 DEF PublicationTyped, MeasuredAs
    <3> QED  BY <3>1
  <2>5. IsAttempt(RowFor(r))
    BY <2>1, <2>2, <2>4 DEF IsAttempt, MeasuredAs, RowFor
  <2>6. \A q \in results \cup summary : q.run = r => listed[r] # q.status
    BY <2>1 DEF Pairs, TablesOf
  <2>7. NumberFor(r, listed[r]) = FreshNumber(r)
    BY <2>6 DEF NumberFor
  <2> QED  BY <2>3, <2>5, <2>6, <2>7, FreshIsFree
<1> QED  BY <1>1, <1>2

(* The tables are left alone, and so are the attempts that they tell of.     *)
LEMMA TablesStay ==
    ASSUME PublicationTyped, [Next]_vars, UNCHANGED <<results, summary>>, NEW r, TablesOf(r)
    PROVE  TablesOf(r)'
  BY AttemptsStay DEF TablesOf

(* A step that leaves the tables and the synchronisation alone.              *)
LEMMA SoundFrame ==
    ASSUME SoundInv, [Next]_vars,
           UNCHANGED <<results, summary, built, syncing, listed, collected>>,
           NEW r \in Runs \ disturbed'
    PROVE  SoundOf(r)'
<1>1. PublicationTyped /\ WorkerInv /\ SoundOf(r)
  BY DisturbedGrows DEF SoundInv
<1>2. SettledOf(r)' /\ TablesOf(r)'
  BY <1>1, SettledStep, TablesStay DEF SoundOf
<1>3. ASSUME syncing # "nobody", listed[r] \in Publishable
      PROVE  MeasuredAs(r, listed[r])' /\ saved'[r] = saved[r] /\ Len(ended'[r]) = Len(ended[r])
  <2>1. MeasuredAs(r, listed[r])
    BY <1>1, <1>3 DEF SoundOf, ListedOf
  <2>2. /\ saved'[r] = saved[r] /\ ended'[r][saved[r]] = ended[r][saved[r]]
        /\ Len(ended'[r]) = Len(ended[r])
    BY <1>1, <1>3, <2>1, ListedStays
  <2> QED  BY <2>1, <2>2 DEF MeasuredAs, Attempt
<1>4. ListedOf(r)'
  BY <1>3 DEF ListedOf
<1>5. BuiltOf(r)'
  <2> SUFFICES ASSUME collected  PROVE BuiltOf(r)'
    BY DEF BuiltOf
  <2>1. syncing # "nobody"
    BY <1>1 DEF WorkerInv
  <2>2. NumberFor(r, listed[r])' = NumberFor(r, listed[r])
    BY DEF NumberFor, FreshNumber
  <2>3. CASE listed[r] \in Publishable
    <3>1. RowFor(r)' = RowFor(r) /\ (r \in Missing(summary)' <=> r \in Missing(summary))
      BY <1>3, <2>1, <2>2, <2>3 DEF RowFor, Attempt, Missing, Pairs
    <3> QED  BY <1>1, <3>1 DEF BuiltOf, SoundOf
  <2>4. CASE listed[r] \notin Publishable
    <3>1. r \notin Missing(summary) /\ r \notin Missing(summary)'
      BY <2>4 DEF Missing
    <3> QED  BY <1>1, <3>1 DEF BuiltOf, SoundOf
  <2> QED  BY <2>3, <2>4
<1> QED  BY <1>2, <1>4, <1>5 DEF SoundOf

LEMMA SoundInit == Init => SoundInv
<1> SUFFICES ASSUME Init  PROVE SoundInv
  OBVIOUS
<1>1. \A r \in Runs : status[r] = "absent"
  BY DEF Init, StoreInit
<1>2. WorkerInv
  BY DEF Init, WorkerInv
<1>3. \A r \in Runs : SoundOf(r)
  BY <1>1 DEF Init, SoundOf, SettledOf, ListedOf, BuiltOf, TablesOf, Publishable
<1> QED  BY <1>2, <1>3, TypedInit DEF SoundInv

(* What a synchronisation leaves behind: the rows of the run that were there *)
(* and, in both tables, the one to add.                                      *)
LEMMA CommitAdds ==
    ASSUME SoundInv, Commit, NEW r \in Runs \ disturbed
    PROVE  /\ syncing # "nobody" /\ ListedOf(r) /\ TablesOf(r) /\ PublicationTyped
           /\ \A row : row.run = r =>
                  (row \in summary' <=> row \in summary
                                        \/ (r \in Missing(summary) /\ row = RowFor(r)))
           /\ \A row : row.run = r =>
                  (row \in results' <=> row \in results
                                        \/ (r \in Missing(summary) /\ row = RowFor(r)))
<1>1. /\ PublicationTyped /\ SoundOf(r) /\ collected /\ syncing # "nobody"
      /\ ListedOf(r) /\ TablesOf(r) /\ BuiltOf(r)
  BY DEF SoundInv, SoundOf, WorkerInv, Commit
<1>2. summary' = summary \cup built /\ results' = results \cup NewResults
  BY DEF Commit, NewResults, ResultFor
<1>3. \A row : row.run = r => (row \in built <=> r \in Missing(summary) /\ row = RowFor(r))
  BY <1>1 DEF BuiltOf
<1>4. ASSUME NEW row, row.run = r
      PROVE  row \in NewResults <=> r \in Missing(summary) /\ row = RowFor(r)
  <2>1. \A s : ResultFor(s).run = s
    BY DEF ResultFor
  <2>2. row \in NewResults <=> r \in Missing(results) /\ row = ResultFor(r)
    BY <1>4, <2>1 DEF NewResults
  <2> QED  BY <1>1, <2>2, RowIsNew
<1> QED  BY <1>1, <1>2, <1>3, <1>4

LEMMA SoundStep ==
    ASSUME SoundInv, [Next]_vars
    PROVE  SoundInv'
<1>0. PublicationTyped /\ WorkerInv /\ PublicationTyped' /\ WorkerInv'
  BY TypedStep, WorkerInvStep DEF SoundInv
<1> SUFFICES ASSUME NEW r \in Runs \ disturbed'
             PROVE  SoundOf(r)'
  BY <1>0 DEF SoundInv
<1>1. SoundOf(r) /\ SettledOf(r)'
  BY <1>0, DisturbedGrows, SettledStep DEF SoundInv, SoundOf
<1>2. CASE UNCHANGED <<results, summary, built, syncing, listed, collected>>
  BY <1>2, SoundFrame
<1>3. CASE EndSync /\ UNCHANGED <<results, summary>>
  <2>1. ListedOf(r)' /\ BuiltOf(r)'
    BY <1>3 DEF EndSync, ListedOf, BuiltOf
  <2> QED  BY <1>0, <1>1, <1>3, <2>1, TablesStay DEF SoundOf
<1>4. CASE WorkerBegins \/ CommandBegins
  <2>1. /\ UNCHANGED <<phase, job, ended, saved, status, results, summary, collected, built>>
        /\ listed' = status /\ syncing = "nobody"
        /\ \/ phase = "publishing"
           \/ disturbed' = disturbed \cup {s \in {job} : phase = "evaluating"}
    BY <1>4 DEF WorkerBegins, CommandBegins, Begin, Files, Tables, storeVars
  <2>2. ~(r = job /\ phase = "evaluating") /\ ~collected
    BY <1>0, <2>1 DEF WorkerInv
  <2>3. ListedOf(r)'
    BY <1>1, <2>1, <2>2 DEF SoundOf, SettledOf, ListedOf, MeasuredAs, Attempt
  <2>4. BuiltOf(r)'
    BY <2>1, <2>2 DEF BuiltOf
  <2> QED  BY <1>0, <1>1, <2>1, <2>3, <2>4, TablesStay DEF SoundOf
<1>5. CASE Collect
  <2>1. /\ UNCHANGED <<status, ended, saved, results, summary, syncing, listed>>
        /\ collected' = TRUE /\ built' = NewRows
    BY <1>5 DEF Collect, NewRows, RowFor, Files, storeVars
  <2>2. ListedOf(r)'
    BY <1>1, <2>1 DEF SoundOf, ListedOf, MeasuredAs, Attempt
  <2>3. /\ RowFor(r)' = RowFor(r) /\ Missing(summary)' = Missing(summary)
    BY <2>1 DEF RowFor, NumberFor, FreshNumber, Missing, Pairs, Attempt
  <2>4. \A s : RowFor(s).run = s
    BY DEF RowFor
  <2>5. BuiltOf(r)'
    BY <2>1, <2>3, <2>4 DEF BuiltOf, NewRows
  <2> QED  BY <1>0, <1>1, <2>1, <2>2, <2>5, TablesStay DEF SoundOf
<1>6. CASE Commit
  <2>1. r \in Runs \ disturbed /\ EndSync
    BY <1>6, DisturbedGrows DEF Commit
  <2>2. ListedOf(r)' /\ BuiltOf(r)'
    BY <2>1 DEF EndSync, ListedOf, BuiltOf
  <2>3. /\ ListedOf(r) /\ TablesOf(r) /\ syncing # "nobody"
        /\ \A row : row.run = r =>
               (row \in summary' <=> row \in summary
                                     \/ (r \in Missing(summary) /\ row = RowFor(r)))
        /\ \A row : row.run = r =>
               (row \in results' <=> row \in results
                                     \/ (r \in Missing(summary) /\ row = RowFor(r)))
    BY <1>6, <2>1, CommitAdds
  <2>4. /\ r \in Missing(summary) => IsAttempt(RowFor(r))
        /\ r \in Missing(summary) => \A q \in results \cup summary : q.run = r =>
               listed[r] # q.status /\ NumberFor(r, listed[r]) # q.n
    BY <1>0, <2>3, RowIsNew
  <2>5. ASSUME NEW row \in results' \cup summary', row.run = r
        PROVE  row \in results' /\ row \in summary' /\ IsAttempt(row)'
    <3>1. row \in results' /\ row \in summary' /\ IsAttempt(row)
      BY <2>3, <2>4, <2>5 DEF TablesOf
    <3> QED  BY <1>0, <3>1, AttemptsStay
  <2>6. ASSUME NEW p \in summary', NEW q \in summary', p.run = r, q.run = r,
               p.status = q.status \/ p.n = q.n
        PROVE  p = q
    <3>1. RowFor(r).status = listed[r] /\ RowFor(r).n = NumberFor(r, listed[r])
      BY DEF RowFor
    <3>2. /\ p \in summary \/ (r \in Missing(summary) /\ p = RowFor(r))
          /\ q \in summary \/ (r \in Missing(summary) /\ q = RowFor(r))
      BY <2>3, <2>6
    <3> QED  BY <2>3, <2>4, <2>6, <3>1, <3>2 DEF TablesOf
  <2>7. TablesOf(r)'
    BY <2>5, <2>6 DEF TablesOf
  <2> QED  BY <1>1, <2>2, <2>7 DEF SoundOf
<1>7. CASE ~WorkerBegins /\ ~CommandBegins /\ ~Collect /\ ~Commit
  <2>1. \/ UNCHANGED <<results, summary, built, syncing, listed, collected>>
        \/ EndSync /\ UNCHANGED <<results, summary>>
    BY <1>7
    DEF Next, Claim, EndWithoutRun, Launch, FailToStart, UsageLimit, Finish, Save,
        Interrupt, WorkerRefused, CollectRaises, Request, Files, Tables, SyncVars,
        pubVars, vars
  <2> QED  BY <1>2, <1>3, <2>1
<1> QED  BY <1>4, <1>5, <1>6, <1>7

LEMMA SoundInvariant == Spec => []SoundInv
  BY SoundInit, SoundStep, PTL DEF Spec

-----------------------------------------------------------------------------
(* A run whose log was opened once, whatever overlaps, and whoever is        *)
(* interrupted.                                                              *)
Once(r) == Attempt(r) <= 1

(* The run has had its one attempt, and it ended so.                         *)
EndedAs(r, verdict) ==
    /\ r \in Runs
    /\ Attempt(r) = 1
    /\ ended[r][1] = verdict
    /\ verdict # "open"

(* A row is about the one attempt of its run, all of it, under the run id.   *)
FirstRow(row) ==
    /\ row.n = 1 /\ row.measured = 1 /\ row.told = 1
    /\ EndedAs(row.run, row.status)

(* The tables know one attempt of the run, and it is staged once.            *)
OnceOf(r) ==
    /\ status[r] \in Publishable => EndedAs(r, status[r])
    /\ syncing # "nobody" /\ listed[r] \in Publishable => EndedAs(r, listed[r])
    /\ \A row \in results \cup summary \cup built : row.run = r => FirstRow(row)
    /\ \A row \in built, q \in summary : row.run = r => q.run # r
    /\ \A p, q \in built : p.run = r /\ q.run = r => p = q

OnceInv ==
    /\ PublicationTyped
    /\ phase \in {"preparing", "running"} => status[job] = "running"
    /\ collected => syncing # "nobody"
    /\ \A row \in results \cup summary \cup built : row.run \in Runs
    /\ \A r \in Runs : Once(r) => OnceOf(r)

(* Attempts are never taken back.                                            *)
LEMMA OnceBefore ==
    ASSUME PublicationTyped, [Next]_vars, NEW r \in Runs, Once(r)'
    PROVE  Once(r)
<1>1. Attempt(r) \in Nat
  BY DEF PublicationTyped, Attempt
<1>2. CASE ended' = ended
  BY <1>2 DEF Once, Attempt
<1>3. CASE Launch \/ FailToStart
  <2>1. r # job => ended'[r] = ended[r]
    BY <1>3, LaunchStep
  <2>2. r = job => Len(ended'[r]) = Attempt(r) + 1
    BY <1>3, LaunchStep
  <2> QED  BY <1>1, <2>1, <2>2 DEF Once, Attempt
<1>4. ASSUME NEW last \in Verdicts, EndsAs(last), phase = "running"
      PROVE  Once(r)
  BY <1>4, EndsAsStep DEF Once, Attempt
<1>5. CASE UsageLimit
  BY <1>4, <1>5 DEF UsageLimit, Verdicts
<1>6. CASE Finish
  BY <1>4, <1>6 DEF Finish
<1> QED  BY <1>2, <1>3, <1>5, <1>6, SameEnded

LEMMA EndedStays ==
    ASSUME PublicationTyped, [Next]_vars, NEW r, NEW verdict, EndedAs(r, verdict), Once(r)'
    PROVE  EndedAs(r, verdict)'
<1>1. r \in Runs /\ Attempt(r) = 1 /\ ended[r][1] = verdict /\ verdict # "open"
  BY DEF EndedAs
<1>2. SUFFICES Attempt(r)' = 1 /\ ended'[r][1] = verdict
  BY <1>1 DEF EndedAs
<1>3. CASE ended' = ended
  BY <1>1, <1>3 DEF Attempt
<1>4. CASE Launch \/ FailToStart
  <2>1. r # job
    <3>1. r = job => Len(ended'[r]) = 2
      BY <1>1, <1>4, LaunchStep
    <3> QED  BY <3>1 DEF Once, Attempt
  <2> QED  BY <1>1, <1>4, <2>1, LaunchStep DEF Attempt
<1>5. ASSUME NEW last \in Verdicts, EndsAs(last), phase = "running"
      PROVE  Attempt(r)' = 1 /\ ended'[r][1] = verdict
  <2>1. r # job
    BY <1>1, <1>5 DEF PublicationTyped, Verdict
  <2> QED  BY <1>1, <1>5, <2>1, EndsAsStep DEF Attempt
<1>6. CASE UsageLimit
  BY <1>5, <1>6 DEF UsageLimit, Verdicts
<1>7. CASE Finish
  BY <1>5, <1>7 DEF Finish
<1> QED  BY <1>3, <1>4, <1>6, <1>7, SameEnded

(* With one attempt, its row is under the run id in either table.            *)
LEMMA OnceNumber ==
    ASSUME NEW r, OnceOf(r), EndedAs(r, listed[r])
    PROVE  NumberFor(r, listed[r]) = 1
<1> DEFINE known == {row.n : row \in {q \in results \cup summary :
                                          q.run = r /\ q.status = listed[r]}}
           taken == {row.n : row \in {q \in results \cup summary : q.run = r}}
<1>1. \A q \in results \cup summary : q.run = r => q.n = 1 /\ q.status = listed[r]
  BY DEF OnceOf, FirstRow, EndedAs
<1>2. CASE known = {}
  <2>1. taken = {}
    BY <1>1, <1>2
  <2>2. NumberFor(r, listed[r]) = FreshNumber(r)
    BY <1>2 DEF NumberFor
  <2>3. FreshNumber(r) = CHOOSE n \in 1..(Cardinality(taken) + 1) :
                             n \notin taken /\ \A m \in 1..(n - 1) : m \in taken
    BY DEF FreshNumber
  <2>4. 1 \in 1..(Cardinality(taken) + 1) /\ Cardinality(taken) + 1 = 1
    BY <2>1, FS_EmptySet
  <2>5. 1 \notin taken /\ \A m \in 1..(1 - 1) : m \in taken
    BY <2>1
  <2>6. FreshNumber(r) \in 1..(Cardinality(taken) + 1)
    <3> HIDE DEF taken
    <3> QED  BY <2>3, <2>4, <2>5
  <2>7. FreshNumber(r) = 1
    <3> HIDE DEF taken
    <3> QED  BY <2>4, <2>6
  <2> QED  BY <2>2, <2>7
<1>3. CASE known # {}
  <2>1. known \subseteq {1}
    BY <1>1
  <2>2. NumberFor(r, listed[r]) = CHOOSE n \in known : TRUE
    BY <1>3 DEF NumberFor
  <2> HIDE DEF known
  <2> QED  BY <1>3, <2>1, <2>2
<1> QED  BY <1>2, <1>3

(* What a synchronisation adds, to either table, is the one attempt of a run *)
(* that the summary, or the results, do not have yet.                        *)
LEMMA OnceRows ==
    ASSUME OnceInv, syncing # "nobody", NEW r \in Runs, Once(r)
    PROVE  /\ \A row \in NewRows : row.run = r => FirstRow(row)
           /\ \A row \in NewRows, q \in summary : row.run = r => q.run # r
           /\ \A p, q \in NewRows : p.run = r /\ q.run = r => p = q
<1> DEFINE row == RowFor(r)
<1>1. OnceOf(r)
  BY DEF OnceInv
<1>2. ASSUME NEW p \in NewRows, p.run = r
      PROVE  p = row /\ r \in Missing(summary)
  BY <1>2 DEF NewRows, RowFor
<1>3. ASSUME r \in Missing(summary)
      PROVE  FirstRow(row) /\ \A q \in summary : q.run # r
  <2>1. EndedAs(r, listed[r]) /\ <<r, listed[r]>> \notin Pairs(summary)
    BY <1>1, <1>3 DEF Missing, OnceOf
  <2>2. NumberFor(r, listed[r]) = 1
    BY <1>1, <2>1, OnceNumber
  <2>3. Attempt(r) = 1 /\ saved[r] = 1
    BY <1>3, <2>1 DEF Missing, OnceInv, PublicationTyped, EndedAs
  <2>4. FirstRow(row)
    BY <2>1, <2>2, <2>3 DEF FirstRow, RowFor
  <2>5. ASSUME NEW q \in summary, q.run = r
        PROVE  q.status = listed[r]
    BY <1>1, <2>1, <2>5 DEF OnceOf, FirstRow, EndedAs
  <2> QED  BY <2>1, <2>4, <2>5 DEF Pairs
<1> HIDE DEF row
<1> QED  BY <1>2, <1>3

(* What is added is about rows of the store.                                 *)
LEMMA NewRowsRuns ==
    (\A row \in NewRows : row.run \in Runs) /\ (\A row \in NewResults : row.run \in Runs)
<1>1. ASSUME NEW row \in NewRows
      PROVE  row.run \in Runs
  <2>1. PICK r \in Missing(summary) : row = RowFor(r)
    BY DEF NewRows
  <2>2. r \in Runs
    BY DEF Missing
  <2> QED  BY <2>1, <2>2 DEF RowFor
<1>2. ASSUME NEW row \in NewResults
      PROVE  row.run \in Runs
  <2>1. PICK r \in Missing(results) : row = ResultFor(r)
    BY DEF NewResults
  <2>2. r \in Runs
    BY DEF Missing
  <2> QED  BY <2>1, <2>2 DEF ResultFor
<1> QED  BY <1>1, <1>2

LEMMA OnceResults ==
    ASSUME OnceInv, syncing # "nobody", NEW r \in Runs, Once(r)
    PROVE  /\ \A row \in NewResults : row.run = r => FirstRow(row)
           /\ \A row \in NewResults, q \in results : row.run = r => q.run # r
           /\ \A p, q \in NewResults : p.run = r /\ q.run = r => p = q
<1> DEFINE row == ResultFor(r)
<1>1. OnceOf(r)
  BY DEF OnceInv
<1>2. ASSUME NEW p \in NewResults, p.run = r
      PROVE  p = row /\ r \in Missing(results)
  BY <1>2 DEF NewResults, ResultFor
<1>3. ASSUME r \in Missing(results)
      PROVE  FirstRow(row) /\ \A q \in results : q.run # r
  <2>1. EndedAs(r, listed[r]) /\ <<r, listed[r]>> \notin Pairs(results)
    BY <1>1, <1>3 DEF Missing, OnceOf
  <2>2. NumberFor(r, listed[r]) = 1
    BY <1>1, <2>1, OnceNumber
  <2>3. saved[r] = 1 /\ EndedAs(r, ended[r][saved[r]])
    BY <1>3, <2>1 DEF Missing, OnceInv, PublicationTyped, EndedAs
  <2>4. FirstRow(row)
    BY <2>2, <2>3 DEF FirstRow, ResultFor
  <2>5. ASSUME NEW q \in results, q.run = r
        PROVE  q.status = listed[r]
    BY <1>1, <2>1, <2>5 DEF OnceOf, FirstRow, EndedAs
  <2> QED  BY <2>1, <2>4, <2>5 DEF Pairs
<1> HIDE DEF row
<1> QED  BY <1>2, <1>3

LEMMA OnceInit == Init => OnceInv
<1> SUFFICES ASSUME Init  PROVE OnceInv
  OBVIOUS
<1>1. \A r \in Runs : status[r] = "absent" /\ Attempt(r) = 0
  BY DEF Init, StoreInit, Attempt
<1>2. /\ phase = "idle" /\ syncing = "nobody" /\ collected = FALSE
      /\ results = {} /\ summary = {} /\ built = {}
  BY DEF Init
<1> QED  BY <1>1, <1>2, TypedInit DEF OnceInv, OnceOf, Publishable

(* A step that leaves the tables and the synchronisation alone.              *)
LEMMA OnceFrame ==
    ASSUME OnceInv, [Next]_vars,
           UNCHANGED <<results, summary, built, syncing, listed, collected>>,
           phase' \in {"preparing", "running"} => status'[job'] = "running",
           \A r \in Runs : Once(r)' /\ status'[r] \in Publishable => EndedAs(r, status[r])'
    PROVE  OnceInv'
<1>1. PublicationTyped /\ PublicationTyped'
  BY TypedStep DEF OnceInv
<1>2. ASSUME NEW r \in Runs, Once(r)'
      PROVE  OnceOf(r)'
  <2>1. Once(r) /\ OnceOf(r)
    BY <1>1, <1>2, OnceBefore DEF OnceInv
  <2>2. ASSUME NEW row \in results \cup summary \cup built, row.run = r
        PROVE  FirstRow(row)'
    <3>1. row.n = 1 /\ row.measured = 1 /\ row.told = 1 /\ EndedAs(row.run, row.status)
      BY <2>1, <2>2 DEF OnceOf, FirstRow
    <3>2. EndedAs(row.run, row.status)'
      BY <1>1, <1>2, <2>2, <3>1, EndedStays
    <3> QED  BY <3>1, <3>2 DEF FirstRow
  <2>3. syncing # "nobody" /\ listed[r] \in Publishable => EndedAs(r, listed[r])'
    BY <1>1, <1>2, <2>1, EndedStays DEF OnceOf
  <2>4. status'[r] \in Publishable => EndedAs(r, status[r])'
    BY <1>2
  <2> QED  BY <2>1, <2>2, <2>3, <2>4 DEF OnceOf
<1> QED  BY <1>1, <1>2 DEF OnceInv

LEMMA OnceStep ==
    ASSUME OnceInv, [Next]_vars
    PROVE  OnceInv'
<1>0. PublicationTyped /\ StoreTypeOK /\ NoRun \notin Runs /\ PublicationTyped'
  BY TypedStep, PublicationAssumption DEF OnceInv, PublicationTyped
<1>1. ASSUME NEW r \in Runs, Once(r)'
      PROVE  Once(r) /\ OnceOf(r)
  BY <1>0, <1>1, OnceBefore DEF OnceInv
<1>2. ASSUME NEW r \in Runs, NEW verdict, EndedAs(r, verdict), Once(r)'
      PROVE  EndedAs(r, verdict)'
  BY <1>0, <1>2, EndedStays
<1>3. ASSUME NEW row, FirstRow(row), row.run \in Runs, Once(row.run)'
      PROVE  FirstRow(row)'
  BY <1>2, <1>3 DEF FirstRow
<1>4. ASSUME NEW r \in Runs, Once(r)', status[r] \in Publishable, status'[r] = status[r]
      PROVE  EndedAs(r, status[r])'
  BY <1>1, <1>2, <1>4 DEF OnceOf
<1>5. CASE Claim
  <2>1. PICK r \in Runs : ClaimNextQueued(r) /\ job' = r
    BY <1>5 DEF Claim
  <2>2. status'[r] = "running" /\ \A s \in Runs \ {r} : status'[s] = status[s]
    BY <1>0, <2>1 DEF ClaimNextQueued, StoreTypeOK
  <2>3. \A s \in Runs : Once(s)' /\ status'[s] \in Publishable => EndedAs(s, status[s])'
    BY <1>4, <2>2 DEF Publishable
  <2>4. UNCHANGED <<results, summary, built, syncing, listed, collected>>
    BY <1>5 DEF Claim, Files, SyncVars
  <2> QED  BY <2>1, <2>2, <2>3, <2>4, OnceFrame
<1>6. CASE EndWithoutRun
  <2>1. PICK final \in {"blocked", "config-error", "worker-error"} : FinishJob(job, final)
    BY <1>6 DEF EndWithoutRun
  <2>2. job \in Runs /\ phase' = "idle"
    BY <1>0, <1>6 DEF EndWithoutRun, Free, PublicationTyped
  <2>3. status'[job] = final /\ \A s \in Runs \ {job} : status'[s] = status[s]
    BY <1>0, <2>1, <2>2 DEF FinishJob, StoreTypeOK
  <2>4. \A s \in Runs : Once(s)' /\ status'[s] \in Publishable => EndedAs(s, status[s])'
    BY <1>4, <2>3 DEF Publishable
  <2>5. UNCHANGED <<results, summary, built, syncing, listed, collected>>
    BY <1>6 DEF EndWithoutRun, Files, SyncVars
  <2> QED  BY <2>2, <2>4, <2>5, OnceFrame
<1>7. CASE Launch
  <2>1. phase = "preparing" /\ job' = job /\ status' = status
        /\ UNCHANGED <<results, summary, built, syncing, listed, collected>>
    BY <1>7 DEF Launch, OpensLog, Files, SyncVars, storeVars
  <2>2. \A s \in Runs : Once(s)' /\ status'[s] \in Publishable => EndedAs(s, status[s])'
    BY <1>4, <2>1
  <2>3. status'[job'] = "running"
    BY <2>1 DEF OnceInv
  <2> QED  BY <2>1, <2>2, <2>3, OnceFrame
<1>8. CASE UsageLimit
  <2>1. job \in Runs /\ phase' = "idle" /\ RequeueJob(job)
        /\ UNCHANGED <<results, summary, built, syncing, listed, collected>>
    BY <1>0, <1>8 DEF UsageLimit, Free, PublicationTyped, Files, SyncVars
  <2>2. status'[job] = "queued" /\ \A s \in Runs \ {job} : status'[s] = status[s]
    BY <1>0, <2>1 DEF RequeueJob, StoreTypeOK
  <2>3. \A s \in Runs : Once(s)' /\ status'[s] \in Publishable => EndedAs(s, status[s])'
    BY <1>4, <2>2 DEF Publishable
  <2> QED  BY <2>1, <2>3, OnceFrame
<1>9. CASE Finish
  <2>1. PICK verdict \in Verdicts : EndsAs(verdict)
             /\ (FinishJob(job, verdict) \/ FinishJob(job, "blocked"))
    BY <1>9 DEF Finish
  <2>2. job \in Runs /\ phase = "running" /\ phase' = "evaluating" /\ job' = job
        /\ UNCHANGED <<results, summary, built, syncing, listed, collected>>
    BY <1>0, <1>9 DEF Finish, PublicationTyped, Files, SyncVars
  <2>3. status'[job] \in {verdict, "blocked"} /\ \A s \in Runs \ {job} : status'[s] = status[s]
    BY <1>0, <2>1, <2>2 DEF FinishJob, StoreTypeOK
  <2>4. ASSUME Once(job)'
        PROVE  EndedAs(job, verdict)'
    <3>1. Attempt(job) = 1
      <4>1. Attempt(job) <= 1 /\ Attempt(job) # 0 /\ Attempt(job) \in Nat
        BY <1>0, <1>1, <2>2, <2>4 DEF PublicationTyped, Once, Attempt
      <4> HIDE DEF Attempt
      <4> QED  BY <4>1
    <3>2. Len(ended'[job]) = 1 /\ ended'[job][1] = verdict
      BY <1>0, <2>1, <2>2, <3>1, EndsAsStep DEF Attempt
    <3> QED  BY <2>2, <3>2 DEF EndedAs, Attempt, Verdicts
  <2>5. \A s \in Runs : Once(s)' /\ status'[s] \in Publishable => EndedAs(s, status[s])'
    <3>1. "blocked" \notin Publishable
      BY DEF Publishable
    <3> SUFFICES ASSUME NEW s \in Runs, Once(s)', status'[s] \in Publishable
                 PROVE  EndedAs(s, status[s])'
      OBVIOUS
    <3>2. CASE s = job
      <4>1. status'[s] = verdict
        BY <2>3, <3>1, <3>2
      <4> QED  BY <2>2, <2>4, <3>2, <4>1 DEF EndedAs, Attempt
    <3>3. CASE s # job
      BY <1>4, <2>3, <3>3
    <3> QED  BY <3>2, <3>3
  <2> QED  BY <2>2, <2>5, OnceFrame
<1>10. CASE Save
  <2>1. status' = status /\ phase' \in {"publishing", "idle"}
        /\ UNCHANGED <<results, summary, built, syncing, listed, collected>>
    BY <1>10 DEF Save, Free, Tables, SyncVars, storeVars
  <2>2. \A s \in Runs : Once(s)' /\ status'[s] \in Publishable => EndedAs(s, status[s])'
    BY <1>4, <2>1
  <2> QED  BY <2>1, <2>2, OnceFrame
<1>11. CASE WorkerRefused
  <2>1. status' = status /\ phase' = "idle"
        /\ UNCHANGED <<results, summary, built, syncing, listed, collected>>
    BY <1>11 DEF WorkerRefused, Free, Files, SyncVars, storeVars
  <2>2. \A s \in Runs : Once(s)' /\ status'[s] \in Publishable => EndedAs(s, status[s])'
    BY <1>4, <2>1
  <2> QED  BY <2>1, <2>2, OnceFrame
<1>12. CASE Request \/ UNCHANGED vars
  <2>1. /\ UNCHANGED pubVars
        /\ \A r \in Runs : status'[r] = status[r] \/ status'[r] \in {"queued", "absent"}
        /\ \A r \in Runs : status[r] = "running" => status'[r] = "running"
    BY <1>0, <1>12, RequestStep DEF vars, storeVars
  <2>2. UNCHANGED <<phase, job, results, summary, built, syncing, listed, collected>>
    BY <2>1 DEF pubVars
  <2>3. \A s \in Runs : Once(s)' /\ status'[s] \in Publishable => EndedAs(s, status[s])'
    BY <1>4, <2>1 DEF Publishable
  <2>4. phase' \in {"preparing", "running"} => status'[job'] = "running"
    BY <1>0, <2>1, <2>2 DEF OnceInv, PublicationTyped
  <2> QED  BY <2>2, <2>3, <2>4, OnceFrame
<1>13. CASE Interrupt
  <2>1. /\ phase' = "idle"
        /\ \A s \in Runs : status'[s] = status[s] \/ status'[s] = "queued"
        /\ UNCHANGED <<results, summary>>
        /\ UNCHANGED <<built, syncing, listed, collected>>
              \/ (syncing' = "nobody" /\ built' = {} /\ collected' = FALSE)
    BY <1>0, <1>13 DEF Interrupt, Free, RequeueOrphanedRunning, EndSync, Files, SyncVars,
       StoreTypeOK
  <2>2. \A s \in Runs : Once(s)' /\ status'[s] \in Publishable => EndedAs(s, status[s])'
    BY <1>4, <2>1 DEF Publishable
  <2>3. CASE UNCHANGED <<built, syncing, listed, collected>>
    BY <2>1, <2>2, <2>3, OnceFrame
  <2>4. CASE syncing' = "nobody" /\ built' = {} /\ collected' = FALSE
    <3>1. ASSUME NEW r \in Runs, Once(r)'
          PROVE  OnceOf(r)'
      <4>1. \A row \in results \cup summary : row.run = r => FirstRow(row)'
        BY <1>1, <1>3, <3>1 DEF OnceOf
      <4> QED  BY <2>1, <2>2, <2>4, <3>1, <4>1 DEF OnceOf
    <3> QED  BY <1>0, <2>1, <2>4, <3>1 DEF OnceInv
  <2> QED  BY <2>1, <2>3, <2>4
<1>14. CASE WorkerBegins \/ CommandBegins
  <2>1. /\ syncing = "nobody" /\ syncing' # "nobody" /\ listed' = status
        /\ status' = status
        /\ UNCHANGED <<phase, job, results, summary, collected, built>>
    BY <1>14 DEF WorkerBegins, CommandBegins, Begin, Files, storeVars
  <2>2. ASSUME NEW r \in Runs, Once(r)'
        PROVE  OnceOf(r)'
    <3>1. OnceOf(r)
      BY <1>1, <2>2
    <3>2. \A row \in results \cup summary \cup built : row.run = r => FirstRow(row)'
      BY <1>3, <2>2, <3>1 DEF OnceOf
    <3>3. status[r] \in Publishable => EndedAs(r, status[r])'
      BY <1>4, <2>1, <2>2
    <3>4. listed'[r] \in Publishable => EndedAs(r, listed[r])'
      BY <2>1, <3>3 DEF EndedAs, Attempt
    <3> QED  BY <2>1, <3>1, <3>2, <3>3, <3>4 DEF OnceOf
  <2> QED  BY <1>0, <2>1, <2>2 DEF OnceInv
<1>15. CASE Collect
  <2>1. /\ UNCHANGED <<phase, job, results, summary, syncing, listed>> /\ status' = status
        /\ syncing # "nobody" /\ built' = NewRows
    BY <1>15 DEF Collect, Files, storeVars, NewRows, RowFor
  <2>2. ASSUME NEW r \in Runs, Once(r)'
        PROVE  OnceOf(r)'
    <3>1. Once(r) /\ OnceOf(r)
      BY <1>1, <2>2
    <3>2. \A row \in results \cup summary : row.run = r => FirstRow(row)'
      BY <1>3, <2>2, <3>1 DEF OnceOf
    <3>3. \A row \in built' : row.run = r => FirstRow(row)'
      BY <1>3, <2>1, <2>2, <3>1, OnceRows
    <3>4. /\ \A row \in built', q \in summary : row.run = r => q.run # r
          /\ \A p, q \in built' : p.run = r /\ q.run = r => p = q
      BY <2>1, <3>1, OnceRows
    <3>5. status'[r] \in Publishable => EndedAs(r, status[r])'
      BY <1>4, <2>1, <2>2
    <3>6. listed[r] \in Publishable => EndedAs(r, listed[r])'
      BY <1>2, <2>1, <2>2, <3>1 DEF OnceOf
    <3>7. listed'[r] \in Publishable => EndedAs(r, listed[r])'
      BY <2>1, <3>6 DEF EndedAs, Attempt
    <3> QED  BY <2>1, <3>2, <3>3, <3>4, <3>5, <3>7 DEF OnceOf
  <2>3. \A row \in built' : row.run \in Runs
    BY <2>1, NewRowsRuns
  <2> QED  BY <1>0, <2>1, <2>2, <2>3 DEF OnceInv
<1>16. CASE Commit
  <2>1. /\ collected /\ syncing # "nobody" /\ status' = status
        /\ syncing' = "nobody" /\ collected' = FALSE /\ built' = {}
        /\ phase' = "idle" \/ UNCHANGED <<phase, job>>
    BY <1>16 DEF Commit, EndSync, OnceInv, storeVars, Free
  <2>2. summary' = summary \cup built /\ results' = results \cup NewResults
    BY <1>16 DEF Commit, NewResults, ResultFor
  <2>3. ASSUME NEW r \in Runs, Once(r)'
        PROVE  OnceOf(r)'
    <3>1. Once(r) /\ OnceOf(r)
      BY <1>1, <2>3
    <3>2. \A row \in summary' \cup results' : row.run = r => FirstRow(row)
      BY <2>1, <2>2, <3>1, OnceResults DEF OnceOf
    <3>3. \A row \in summary' \cup results' : row.run = r => FirstRow(row)'
      BY <1>3, <2>3, <3>2
    <3>4. status'[r] \in Publishable => EndedAs(r, status[r])'
      BY <1>4, <2>1, <2>3
    <3> QED  BY <2>1, <3>3, <3>4 DEF OnceOf
  <2>4. \A row \in results' \cup summary' : row.run \in Runs
    BY <2>2, NewRowsRuns DEF OnceInv
  <2> QED  BY <1>0, <2>1, <2>3, <2>4 DEF OnceInv
<1>17. CASE FailToStart
  <2>1. /\ job \in Runs /\ phase' = "idle" /\ FinishJob(job, "worker-error")
        /\ UNCHANGED <<results, summary, built, syncing, listed, collected>>
    BY <1>0, <1>17 DEF FailToStart, OpensLog, Free, PublicationTyped, Files, SyncVars
  <2>2. status'[job] = "worker-error" /\ \A s \in Runs \ {job} : status'[s] = status[s]
    BY <1>0, <2>1 DEF FinishJob, StoreTypeOK
  <2>3. \A s \in Runs : Once(s)' /\ status'[s] \in Publishable => EndedAs(s, status[s])'
    BY <1>4, <2>2 DEF Publishable
  <2> QED  BY <2>1, <2>3, OnceFrame
<1>18. CASE CollectRaises
  <2>1. /\ syncing' = "nobody" /\ built' = {} /\ collected' = FALSE /\ status' = status
        /\ UNCHANGED <<results, summary>>
        /\ phase' = "idle" \/ UNCHANGED <<phase, job>>
    BY <1>18 DEF CollectRaises, EndSync, Files, storeVars, Free
  <2>2. ASSUME NEW r \in Runs, Once(r)'
        PROVE  OnceOf(r)'
    <3>1. \A row \in results \cup summary : row.run = r => FirstRow(row)'
      BY <1>1, <1>3, <2>2 DEF OnceOf
    <3>2. status'[r] \in Publishable => EndedAs(r, status[r])'
      BY <1>4, <2>1, <2>2
    <3> QED  BY <2>1, <3>1, <3>2 DEF OnceOf
  <2> QED  BY <1>0, <2>1, <2>2 DEF OnceInv
<1> QED
  BY <1>5, <1>6, <1>7, <1>8, <1>9, <1>10, <1>11, <1>12, <1>13, <1>14, <1>15, <1>16, <1>17,
     <1>18
  DEF Next

LEMMA OnceInvariant == Spec => []OnceInv
  BY OnceInit, OnceStep, PTL DEF Spec

(* What the tables know of the run is one attempt under one key.             *)
TellsOne(r) ==
    \A p, q \in results \cup summary : p.run = r /\ q.run = r =>
        /\ p.measured = p.told /\ p.status = ended[r][p.measured]
        /\ Key(p) = Key(q) /\ p.measured = q.measured /\ p.status = q.status

(* A run whose log was opened once is published as one attempt, under one    *)
(* key and with one status, also when commands overlap with the worker,      *)
(* workers die and other runs are retried: all that goes wrong with a run    *)
(* needs a second attempt of this very run to open its log, whether claude   *)
(* then starts or not.                                                       *)
THEOREM OpenedOnceTellsOne ==
    Spec => [](\A r \in Runs : Once(r) => TellsOne(r))
<1>1. OnceInv => \A r \in Runs : Once(r) => TellsOne(r)
  BY DEF OnceInv, OnceOf, FirstRow, EndedAs, TellsOne, Key
<1> QED  BY <1>1, OnceInvariant, PTL

-----------------------------------------------------------------------------
(* Of a run that is not Confusable, no attempt was disturbed or there was    *)
(* but one.                                                                  *)
BothInv == SoundInv /\ OnceInv

LEMMA BothInvariant == Spec => []BothInv
  BY SoundInvariant, OnceInvariant, PTL DEF BothInv

LEMMA NotConfusable ==
    ASSUME BothInv, NEW r \in Runs, ~Confusable(r)
    PROVE  (r \in Runs \ disturbed /\ SoundOf(r)) \/ (Once(r) /\ OnceOf(r))
<1>1. Attempt(r) \in Nat
  BY DEF BothInv, OnceInv, PublicationTyped, Attempt
<1>2. r \notin disturbed \/ Attempt(r) <= 1
  <2> HIDE DEF Attempt
  <2> QED  BY <1>1 DEF Confusable
<1> QED  BY <1>2 DEF BothInv, SoundInv, OnceInv, Once

(* A published row is about one attempt: its measures and its turns are of   *)
(* the same one, and its status is how that one ended, unless its run was    *)
(* disturbed and its log opened again.                                       *)
THEOREM PublishedIsOneAttempt == Spec => []RowsAreOneAttempt
<1>1. BothInv => RowsAreOneAttempt
  <2> SUFFICES ASSUME BothInv, NEW row \in results \cup summary, ~Confusable(row.run)
               PROVE  row.measured = row.told /\ row.status = ended[row.run][row.measured]
    BY DEF RowsAreOneAttempt
  <2>1. row.run \in Runs
    BY DEF BothInv, OnceInv
  <2>2. CASE SoundOf(row.run)
    BY <2>2 DEF SoundOf, TablesOf, IsAttempt
  <2>3. CASE OnceOf(row.run)
    BY <2>3 DEF OnceOf, FirstRow, EndedAs
  <2> QED  BY <2>1, <2>2, <2>3, NotConfusable
<1> QED  BY <1>1, BothInvariant, PTL

(* A key stands for one attempt, in both tables.                             *)
THEOREM KeysStandForAttempts == Spec => []KeysAreAttempts
<1>1. BothInv => KeysAreAttempts
  <2> SUFFICES ASSUME BothInv, NEW p \in results \cup summary, NEW q \in results \cup summary,
                      Key(p) = Key(q), ~Confusable(p.run)
               PROVE  p.measured = q.measured
    BY DEF KeysAreAttempts
  <2>1. p.run \in Runs /\ p.run = q.run /\ p.n = q.n
    BY DEF BothInv, OnceInv, Key
  <2>2. CASE SoundOf(p.run)
    BY <2>1, <2>2 DEF SoundOf, TablesOf
  <2>3. CASE OnceOf(p.run)
    BY <2>1, <2>3 DEF OnceOf, FirstRow
  <2> QED  BY <2>1, <2>2, <2>3, NotConfusable
<1> QED  BY <1>1, BothInvariant, PTL

(* Nothing makes _attempt_keys refuse a synchronisation but a run that was   *)
(* disturbed and whose log was opened again.                                 *)
THEOREM ContradictionsAreCaused == Spec => []ContradictionsHaveCause
<1>1. BothInv => ContradictionsHaveCause
  <2> SUFFICES ASSUME BothInv, NEW p \in results \cup summary, NEW q \in results \cup summary,
                      p.run = q.run, p.status = q.status, ~Confusable(p.run)
               PROVE  p.n = q.n
    BY DEF ContradictionsHaveCause
  <2>1. p.run \in Runs
    BY DEF BothInv, OnceInv
  <2>2. CASE SoundOf(p.run)
    BY <2>2 DEF SoundOf, TablesOf
  <2>3. CASE OnceOf(p.run)
    BY <2>3 DEF OnceOf, FirstRow
  <2> QED  BY <2>1, <2>2, <2>3, NotConfusable
<1> QED  BY <1>1, BothInvariant, PTL

(* A synchronisation that returns leaves no undisturbed success behind, also *)
(* when its own worker died, or found the lock taken, before publishing it.  *)
THEOREM SuccessesArePublished == Spec => SuccessIsPublished
<1>1. ASSUME SoundInv, Commit, NEW r \in Runs \ disturbed, listed[r] = "succeeded"
      PROVE  <<r, "succeeded">> \in Pairs(results') \cap Pairs(summary')
  <2>1. /\ syncing # "nobody" /\ ListedOf(r) /\ TablesOf(r) /\ PublicationTyped
        /\ \A row : row.run = r =>
               (row \in summary' <=> row \in summary
                                     \/ (r \in Missing(summary) /\ row = RowFor(r)))
        /\ \A row : row.run = r =>
               (row \in results' <=> row \in results
                                     \/ (r \in Missing(summary) /\ row = RowFor(r)))
    BY <1>1, CommitAdds
  <2>2. saved[r] # 0
    BY <1>1, <2>1 DEF ListedOf, MeasuredAs, Publishable
  <2>3. CASE <<r, "succeeded">> \in Pairs(summary)
    <3>1. PICK row \in summary : row.run = r /\ row.status = "succeeded"
      BY <2>3 DEF Pairs
    <3>2. row \in results' /\ row \in summary'
      BY <2>1, <3>1 DEF TablesOf
    <3> QED  BY <3>1, <3>2 DEF Pairs
  <2>4. CASE <<r, "succeeded">> \notin Pairs(summary)
    <3>1. r \in Missing(summary)
      BY <1>1, <2>2, <2>4 DEF Missing, Publishable
    <3>2. RowFor(r).run = r /\ RowFor(r).status = "succeeded"
      BY <1>1 DEF RowFor
    <3>3. RowFor(r) \in results' /\ RowFor(r) \in summary'
      BY <2>1, <3>1, <3>2
    <3> QED  BY <3>2, <3>3 DEF Pairs
  <2> QED  BY <2>3, <2>4
<1>2. SoundInv /\ [Next]_vars =>
          [Commit => \A r \in Runs \ disturbed : listed[r] = "succeeded" =>
              <<r, "succeeded">> \in Pairs(results') \cap Pairs(summary')]_vars
  BY <1>1
<1> QED  BY <1>2, SoundInvariant, PTL DEF Spec, SuccessIsPublished

LEMMA TablesChange ==
    ASSUME [Next]_vars, ~Commit
    PROVE  UNCHANGED Tables
  BY DEF Next, Claim, EndWithoutRun, Launch, FailToStart, UsageLimit, Finish, Save, Interrupt,
         WorkerBegins, CommandBegins, Begin, WorkerRefused, Collect, CollectRaises, Request,
         Files, Tables, vars, pubVars

(* What a synchronisation adds of an undisturbed run.                        *)
LEMMA SoundOnlyAdds ==
    ASSUME SoundInv, Commit, NEW r \in Runs \ disturbed,
           NEW p \in results' \cup summary', NEW q \in results' \cup summary',
           Key(p) = Key(q), p.run = r
    PROVE  p = q
<1>1. /\ syncing # "nobody" /\ ListedOf(r) /\ TablesOf(r) /\ PublicationTyped
      /\ \A row : row.run = r =>
             (row \in summary' <=> row \in summary
                                   \/ (r \in Missing(summary) /\ row = RowFor(r)))
      /\ \A row : row.run = r =>
             (row \in results' <=> row \in results
                                   \/ (r \in Missing(summary) /\ row = RowFor(r)))
  BY CommitAdds
<1>2. r \in Missing(summary) => \A s \in results \cup summary : s.run = r =>
          NumberFor(r, listed[r]) # s.n
  BY <1>1, RowIsNew
<1>3. q.run = r /\ p.n = q.n /\ RowFor(r).n = NumberFor(r, listed[r])
  BY DEF Key, RowFor
<1>4. /\ p \in results \cup summary \/ (r \in Missing(summary) /\ p = RowFor(r))
      /\ q \in results \cup summary \/ (r \in Missing(summary) /\ q = RowFor(r))
  BY <1>1, <1>3
<1> QED  BY <1>1, <1>2, <1>3, <1>4 DEF TablesOf

(* What the publication transaction takes for granted of a synchronisation   *)
(* (Additions of PublishedFiles): it keeps every row of a table, and the     *)
(* rows it adds are under keys that the table does not have yet.             *)
THEOREM SynchronisationsAddNewKeys == Spec => AddsNewKeys
<1>1. BothInv => \A row \in built, q \in summary : ~Confusable(row.run) => Key(row) # Key(q)
  <2> SUFFICES ASSUME BothInv, NEW row \in built, NEW q \in summary, ~Confusable(row.run),
                      Key(row) = Key(q)
               PROVE  FALSE
    OBVIOUS
  <2> DEFINE r == row.run
  <2>1. r \in Runs /\ q.run = r /\ q.n = row.n
    BY DEF BothInv, OnceInv, Key
  <2>2. CASE SoundOf(r)
    <3>1. PublicationTyped /\ collected /\ syncing # "nobody"
      BY DEF BothInv, SoundInv, WorkerInv
    <3>2. r \in Missing(summary) /\ row = RowFor(r) /\ ListedOf(r) /\ TablesOf(r)
      BY <2>2, <3>1 DEF SoundOf, BuiltOf
    <3> HIDE DEF r
    <3>3. RowFor(r).n # q.n
      BY <2>1, <3>1, <3>2, RowIsNew DEF RowFor
    <3> QED  BY <2>1, <3>2, <3>3
  <2>3. CASE OnceOf(r)
    BY <2>1, <2>3 DEF OnceOf
  <2> QED  BY <2>1, <2>2, <2>3, NotConfusable
<1>2. BothInv /\ [Next]_vars => [OnlyAdds(results, results') /\ OnlyAdds(summary, summary')]_Tables
  <2> SUFFICES ASSUME BothInv, [Next]_vars, Commit
               PROVE  OnlyAdds(results, results') /\ OnlyAdds(summary, summary')
    BY TablesChange
  <2>1. /\ syncing # "nobody" /\ summary' = summary \cup built
        /\ results' = results \cup NewResults
    BY DEF Commit, BothInv, SoundInv, WorkerInv, NewResults, ResultFor
  <2>2. ASSUME NEW p \in built, NEW q \in summary', Key(p) = Key(q), ~Confusable(p.run)
        PROVE  p = q
    <3>1. p.run \in Runs /\ q.run = p.run /\ p \in summary'
      BY <2>1, <2>2 DEF BothInv, OnceInv, Key
    <3>2. CASE p.run \in Runs \ disturbed
      BY <2>2, <3>1, <3>2, SoundOnlyAdds DEF BothInv
    <3>3. CASE OnceOf(p.run)
      BY <2>1, <2>2, <3>1, <3>3 DEF OnceOf
    <3> QED  BY <2>2, <3>1, <3>2, <3>3, NotConfusable
  <2>3. ASSUME NEW p \in NewResults, NEW q \in results', Key(p) = Key(q), ~Confusable(p.run)
        PROVE  p = q
    <3>1. p.run \in Runs /\ q.run = p.run /\ p \in results'
      BY <2>1, <2>3, NewRowsRuns DEF Key
    <3>2. CASE p.run \in Runs \ disturbed
      BY <2>3, <3>1, <3>2, SoundOnlyAdds DEF BothInv
    <3>3. CASE Once(p.run)
      <4>1. /\ \A s \in results : s.run # p.run
            /\ \A s, t \in NewResults : s.run = p.run /\ t.run = p.run => s = t
        BY <2>1, <3>1, <3>3, OnceResults DEF BothInv
      <4> QED  BY <2>1, <2>3, <3>1, <4>1
    <3> QED  BY <2>3, <3>1, <3>2, <3>3, NotConfusable
  <2> QED  BY <2>1, <2>2, <2>3 DEF OnlyAdds
<1> QED  BY <1>1, <1>2, BothInvariant, PTL DEF Spec, AddsNewKeys

-----------------------------------------------------------------------------
(* What holds without restriction on attempts or overlaps.                   *)

LEMMA TypedInvariant == Spec => []PublicationTyped
  BY TypedInit, TypedStep, PTL DEF Spec

(* All that process_job, the recovery and the requests do to the rows is a   *)
(* behaviour of the store, whatever is synchronised meanwhile: the theorems  *)
(* of the store hold here.                                                   *)
THEOREM PublicationKeepsStore == Spec => StoreSpec
<1>1. Init => StoreInit
  BY DEF Init
<1>2. PublicationTyped /\ [Next]_vars => [StoreNext]_storeVars
  <2> SUFFICES ASSUME PublicationTyped, Next  PROVE [StoreNext]_storeVars
    BY DEF vars
  <2>1. phase # "idle" => job \in Runs
    BY DEF PublicationTyped
  <2>2. Verdicts \cup {"blocked", "config-error", "worker-error"} \subseteq FinalStatus
    BY DEF Verdicts, FinalStatus
  <2>3. CASE \/ Claim \/ EndWithoutRun \/ FailToStart \/ UsageLimit \/ Finish
             \/ Interrupt \/ Request
    BY <2>1, <2>2, <2>3
    DEF Claim, EndWithoutRun, FailToStart, OpensLog, UsageLimit, Finish, Interrupt, Request,
    StoreNext
  <2>4. CASE \/ Launch \/ Save \/ WorkerBegins \/ CommandBegins \/ WorkerRefused
             \/ Collect \/ CollectRaises \/ Commit
    BY <2>4 DEF Launch, Save, WorkerBegins, CommandBegins, Begin, WorkerRefused,
                Collect, CollectRaises, Commit
  <2> QED  BY <2>3, <2>4 DEF Next
<1> QED  BY <1>1, <1>2, TypedInvariant, PTL DEF Spec, StoreSpec
=============================================================================
