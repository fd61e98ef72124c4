-------------------------- MODULE QueueWorkerProofs --------------------------
(* What the workers promise for every set of runs and of workers, whatever  *)
(* faults are injected.                                                     *)
EXTENDS QueueWorker, JobStoreProofs

(* The three steps of the critical section that announces a job.            *)
Rearm(w) == Announce(w) \/ LookAtShutdown(w) \/ SetForShutdown(w)

(* The lock's holder is the one worker inside run(), past worker_lock.      *)
LockInv == \A w \in Workers : pc[w] \in Locked <=> lock = w

(* The status in hand is one that finish_job may be given.                  *)
VerdictInv ==
    \A w \in Workers :
        /\ pc[w] = "aborting" => verdict[w] \in {"config-error", "blocked", "worker-error"}
        /\ pc[w] = "settling" => verdict[w] \in {"succeeded", "failed", "timeout", "cancelled"}

(* The local `job` is set from the claim to the end of the turn.            *)
JobInv == \A w \in Workers : pc[w] \in Completing \cup {"deciding"} => job[w] \in Runs

RowInv == LockInv /\ VerdictInv /\ JobInv /\ FinishAccepted /\ RunningIsOwned

LEMMA RowInvInit == Init => TypeOK /\ RowInv
<1> SUFFICES ASSUME Init  PROVE  TypeOK /\ RowInv
  OBVIOUS
<1>1. TypeOK
  BY DEF Init, StoreInit, TypeOK, StoreTypeOK, Ended, Verdicts
<1>2. RowInv
  BY WorkersAssumption DEF Init, StoreInit, RowInv, LockInv, VerdictInv, JobInv, FinishAccepted,
     RunningIsOwned, Locked, Idle, Announcing, Processing, Completing
<1> QED  BY <1>1, <1>2

-----------------------------------------------------------------------------
(* A step of a worker or of a request is an operation of the store, or      *)
(* leaves the store alone.                                                  *)
LEMMA StoreStep ==
    ASSUME TypeOK, RowInv, [Next]_vars
    PROVE  [StoreNext]_storeVars
<1> USE DEF TypeOK
<1>1. ASSUME NEW w \in Workers, Recover(w)  PROVE  StoreNext
  BY <1>1 DEF Recover, StoreNext
<1>2. ASSUME NEW w \in Workers, Claim(w)  PROVE  StoreNext
  BY <1>2 DEF Claim, StoreNext
<1>3. ASSUME NEW w \in Workers, UsageLimit(w)  PROVE  StoreNext
  <2>1. job[w] \in Runs
    BY <1>3 DEF UsageLimit, RowInv, FinishAccepted, Processing
  <2> QED  BY <1>3, <2>1 DEF UsageLimit, StoreNext
<1>4. ASSUME NEW w \in Workers, FinishRun(w)  PROVE  StoreNext
  <2>1. job[w] \in Runs
    BY <1>4 DEF FinishRun, RowInv, FinishAccepted, Processing
  <2>2. RowStatusFor(verdict[w]) \subseteq FinalStatus
    BY <1>4 DEF FinishRun, RowInv, VerdictInv, RowStatusFor, FinalStatus
  <2> QED  BY <1>4, <2>1, <2>2 DEF FinishRun, StoreNext
<1>5. ASSUME NEW w \in Workers, EndWithoutRun(w)  PROVE  StoreNext
  <2>1. job[w] \in Runs
    BY <1>5 DEF EndWithoutRun, RowInv, FinishAccepted, Processing
  <2>2. verdict[w] \in FinalStatus
    BY <1>5 DEF EndWithoutRun, RowInv, VerdictInv, FinalStatus
  <2> QED  BY <1>5, <2>1, <2>2 DEF EndWithoutRun, StoreNext
<1>6. CASE Request
  BY <1>6 DEF Request, StoreNext
<1>7. ASSUME NEW w \in Workers,
             \/ TakeLock(w) \/ LockTaken(w) \/ CheckShutdown(w) \/ NothingQueued(w)
             \/ WaitOver(w) \/ Rearm(w) \/ Load(w) \/ Launch(w) \/ ChildExits(w)
             \/ ChildStopped(w) \/ Evaluate(w) \/ SaveResult(w) \/ SyncPublished(w)
             \/ Clear(w) \/ Decide(w) \/ Raise(w) \/ Die(w) \/ Start(w) \/ AgentWrites(w)
             \/ StopCurrent(w) \/ StopSetsShutdown(w) \/ StopSetsCancel(w)
      PROVE  UNCHANGED storeVars
  BY <1>7 DEF TakeLock, LockTaken, CheckShutdown, NothingQueued, WaitOver, Rearm, Announce,
     LookAtShutdown, SetForShutdown, Stay,
       Load,
     Launch, ChildExits, ChildStopped, Evaluate, SaveResult, SyncPublished, Clear, Decide,
     Raise, LaunchRaises, EvaluateRaises, PublishLockTaken, Die, Start, AgentWrites,
     StopCurrent, StopSetsShutdown, StopSetsCancel
<1>8. ASSUME NEW r \in Runs, StrayWrites(r) \/ StrayEnds(r)  PROVE  UNCHANGED storeVars
  BY <1>8 DEF StrayWrites, StrayEnds
<1>9. CASE UNCHANGED vars
  BY <1>9 DEF vars
<1> QED
  BY <1>1, <1>2, <1>3, <1>4, <1>5, <1>6, <1>7, <1>8, <1>9 DEF Next, Work, Rearm

-----------------------------------------------------------------------------
(* Typing *)

(* TypeOK without the store's part. *)
WorkerTypeOK ==
    /\ pc \in [Workers -> Ended \cup {"locking"} \cup Locked]
    /\ lock \in Workers \cup {NoWorker}
    /\ job \in [Workers -> Runs \cup {NoRun}]
    /\ current \in [Workers -> Runs \cup {NoRun}]
    /\ cancel \in [Workers -> BOOLEAN]
    /\ shutdown \in [Workers -> BOOLEAN]
    /\ stopping \in [Workers -> {"no", "half", "done"}]
    /\ verdict \in [Workers -> Verdicts]
    /\ dirty \subseteq Runs
    /\ strays \subseteq Runs
    /\ asked \subseteq Runs

LEMMA LeaveTyped ==
    ASSUME WorkerTypeOK, NEW w \in Workers, NEW how \in Ended, Leave(w, how),
           dirty' \subseteq Runs, strays' \subseteq Runs, asked' \subseteq Runs
    PROVE  WorkerTypeOK'
BY DEF WorkerTypeOK, Leave, Goto, Verdicts

LEMMA TypeStep ==
    ASSUME TypeOK, RowInv, [Next]_vars
    PROVE  TypeOK'
<1> USE DEF WorkerTypeOK, Ended, Locked, Idle, Announcing, Processing, Completing
<1>1. WorkerTypeOK /\ StoreTypeOK
  BY DEF TypeOK
<1>2. StoreTypeOK'
  BY <1>1, StoreStep, StoreTypeStep
<1>3. ASSUME NEW w \in Workers,
             \/ LockTaken(w) \/ LaunchRaises(w) \/ EvaluateRaises(w)
             \/ PublishLockTaken(w)
      PROVE  WorkerTypeOK'
  BY <1>1, <1>3, LeaveTyped DEF LockTaken, LaunchRaises, EvaluateRaises,
     PublishLockTaken, Files
<1>4. ASSUME NEW w \in Workers, Die(w)  PROVE  WorkerTypeOK'
  <2>1. pc[w] = "running" => job[w] \in Runs
    BY DEF RowInv, FinishAccepted
  <2> QED  BY <1>1, <1>4, <2>1, LeaveTyped DEF Die
<1>5. ASSUME NEW w \in Workers,
             \/ TakeLock(w) \/ Recover(w) \/ Start(w) \/ WaitOver(w) \/ Rearm(w)
             \/ SaveResult(w) \/ SyncPublished(w) \/ FinishRun(w)
             \/ EndWithoutRun(w) \/ Clear(w)
      PROVE  WorkerTypeOK'
  BY <1>1, <1>5 DEF TakeLock, Recover, Start, WaitOver, Rearm, Announce, LookAtShutdown,
     SetForShutdown, Stay,
       SaveResult,
     SyncPublished, FinishRun, EndWithoutRun, Clear, Goto, Files, Flags, CancelAtStart
<1>6. ASSUME NEW w \in Workers, CheckShutdown(w)  PROVE  WorkerTypeOK'
  BY <1>1, <1>6, LeaveTyped DEF CheckShutdown, Stay, Goto, Files, Flags
<1>7. ASSUME NEW w \in Workers, NothingQueued(w)  PROVE  WorkerTypeOK'
  BY <1>1, <1>7, LeaveTyped DEF NothingQueued, Stay, Goto, Files, Flags
<1>8. ASSUME NEW w \in Workers, Claim(w)  PROVE  WorkerTypeOK'
  BY <1>1, <1>8 DEF Claim, Goto, Files, Flags
<1>9. ASSUME NEW w \in Workers, Load(w) \/ Launch(w) \/ UsageLimit(w)  PROVE  WorkerTypeOK'
  BY <1>1, <1>9 DEF Load, Launch, UsageLimit, Goto, Files, Flags, Verdicts, FinalStatus
<1>10. ASSUME NEW w \in Workers, ChildExits(w) \/ ChildStopped(w)  PROVE  WorkerTypeOK'
  BY <1>1, <1>10 DEF ChildExits, ChildStopped, Goto, Files, Flags, Verdicts, FinalStatus
<1>11. ASSUME NEW w \in Workers, Decide(w)  PROVE  WorkerTypeOK'
  <2>1. CASE \E how \in Ended : Leave(w, how)
    BY <1>1, <1>11, <2>1, LeaveTyped DEF Decide, Files
  <2>2. CASE \E phase \in {"backoff", "checking"} : NextTurn(w, phase)
    BY <1>1, <1>11, <2>2 DEF Decide, NextTurn, Goto, Files, Flags, Verdicts
  <2> QED  BY <1>11, <2>1, <2>2 DEF Decide, OnceExit
<1>12. ASSUME NEW w \in Workers, AgentWrites(w) \/ Evaluate(w)  PROVE  WorkerTypeOK'
  <2>1. pc[w] \in {"running", "evaluating"} => job[w] \in Runs
    BY DEF RowInv, FinishAccepted, JobInv
  <2> QED
    BY <1>1, <1>12, <2>1 DEF AgentWrites, Evaluate, Goto, Flags
<1>13. ASSUME NEW w \in Workers,
              StopCurrent(w) \/ StopSetsShutdown(w) \/ StopSetsCancel(w)
       PROVE  WorkerTypeOK'
  BY <1>1, <1>13 DEF StopCurrent, StopSetsShutdown, StopSetsCancel, Files
<1>14. ASSUME NEW r \in Runs, StrayWrites(r) \/ StrayEnds(r)  PROVE  WorkerTypeOK'
  BY <1>1, <1>14 DEF StrayWrites, StrayEnds, Flags
<1>15. ASSUME Request  PROVE  WorkerTypeOK'
  BY <1>1, <1>15 DEF Request, workerVars
<1>16. ASSUME UNCHANGED vars  PROVE  WorkerTypeOK'
  BY <1>1, <1>16 DEF vars, workerVars
<1>17. WorkerTypeOK'
  BY <1>3, <1>4, <1>5, <1>6, <1>7, <1>8, <1>9, <1>10, <1>11, <1>12, <1>13, <1>14,
     <1>15, <1>16 DEF Next, Work, Rearm, Raise
<1> QED  BY <1>2, <1>17 DEF TypeOK
-----------------------------------------------------------------------------
(* The lock and the rows *)

LEMMA LeaveKeepsRowInv ==
    ASSUME TypeOK, RowInv, NEW w \in Workers, NEW how \in Ended, Leave(w, how),
           pc[w] \notin Ended, UNCHANGED storeVars
    PROVE  RowInv'
<1> USE WorkersAssumption
    DEF Ended, Locked, Idle, Announcing, Processing, Completing, storeVars, Leave, Goto,
    TypeOK, RowInv
<1>1. LockInv'
  BY DEF LockInv
<1>2. VerdictInv' /\ JobInv' /\ FinishAccepted'
  BY DEF VerdictInv, JobInv, FinishAccepted
<1>3. RunningIsOwned'
  BY DEF RunningIsOwned, LockInv
<1> QED  BY <1>1, <1>2, <1>3

(* A step of the lock's holder within run(): no other worker is inside.     *)
LEMMA HolderKeepsRowInv ==
    ASSUME TypeOK, RowInv, NEW w \in Workers,
           pc[w] \in Locked, lock' = lock,
           NEW phase \in Locked, pc' = [pc EXCEPT ![w] = phase],
           \A v \in Workers \ {w} : job'[v] = job[v] /\ verdict'[v] = verdict[v],
           phase = "aborting" => verdict'[w] \in {"config-error", "blocked", "worker-error"},
           phase = "settling" => verdict'[w] \in {"succeeded", "failed", "timeout", "cancelled"},
           phase \in Announcing \cup Processing =>
               job'[w] \in Runs /\ status'[job'[w]] = "running",
           phase \in Completing \cup {"deciding"} => job'[w] \in Runs,
           \A r \in Runs : status'[r] = "running" =>
               phase \in Announcing \cup Processing /\ job'[w] = r
    PROVE  RowInv'
<1> USE WorkersAssumption DEF TypeOK, RowInv
<1>0. lock = w /\ \A v \in Workers \ {w} : pc[v] \notin Locked
  BY DEF LockInv
<1>1. LockInv'
  BY <1>0 DEF LockInv
<1>2. VerdictInv'
  BY <1>0 DEF VerdictInv, Locked, Announcing, Processing
<1>3. JobInv'
  BY <1>0 DEF JobInv, Locked
<1>4. FinishAccepted'
  BY <1>0 DEF FinishAccepted, Locked
<1>5. RunningIsOwned'
  BY <1>0 DEF RunningIsOwned, Locked, Idle
<1> QED  BY <1>1, <1>2, <1>3, <1>4, <1>5

LEMMA RowInvStep ==
    ASSUME TypeOK, RowInv, [Next]_vars
    PROVE  RowInv'
<1> DEFINE HolderAt(w) == pc[w] \in Locked /\ lock = w
<1>0. \A w \in Workers : pc[w] \in Locked => lock = w
  BY DEF RowInv, LockInv
<1>1. ASSUME NEW w \in Workers, LockTaken(w) \/ Raise(w) \/ Die(w)  PROVE  RowInv'
  BY <1>1, LeaveKeepsRowInv DEF LockTaken, Raise, LaunchRaises, EvaluateRaises,
     PublishLockTaken, Die, Ended
<1>2. ASSUME NEW w \in Workers, Start(w) \/ TakeLock(w)  PROVE  RowInv'
  BY <1>2, WorkersAssumption DEF Start, TakeLock, Goto, TypeOK, RowInv, LockInv, VerdictInv,
     JobInv, FinishAccepted, RunningIsOwned, Ended, Locked, Idle, Announcing, Processing,
     Completing,
     storeVars
<1>3. ASSUME NEW w \in Workers, Recover(w)  PROVE  RowInv'
  <2>1. \A r \in Runs : status'[r] # "running"
    BY <1>3 DEF Recover, RequeueOrphanedRunning
  <2> QED
    BY <1>3, <2>1, HolderKeepsRowInv DEF Recover, Goto, Locked, Idle, Announcing, Processing,
       Completing
<1>4. ASSUME NEW w \in Workers, CheckShutdown(w) \/ NothingQueued(w) \/ Decide(w) \/ WaitOver(w)
      PROVE  RowInv'
  <2>1. CASE \E how \in Ended : Leave(w, how)
    BY <1>4, <2>1, LeaveKeepsRowInv DEF CheckShutdown, NothingQueued, Decide, WaitOver, Ended
  <2>2. CASE \E phase \in Idle : Goto(w, phase) /\ UNCHANGED lock
    <3>1. \A r \in Runs : status[r] # "running"
      BY <1>0, <1>4, WorkersAssumption DEF CheckShutdown, NothingQueued, Decide, WaitOver,
         RowInv, RunningIsOwned, Locked, Idle, Announcing, Processing
    <3>2. PICK phase \in Idle : Goto(w, phase) /\ UNCHANGED lock
      BY <2>2
    <3>3. /\ pc[w] \in Locked
          /\ \A v \in Workers \ {w} : job'[v] = job[v] /\ verdict'[v] = verdict[v]
      BY <1>4, <3>2 DEF CheckShutdown, NothingQueued, Decide, WaitOver, Stay, NextTurn,
         Leave, Goto, TypeOK, Locked, Idle
    <3>4. status' = status
      BY <1>4 DEF CheckShutdown, NothingQueued, Decide, WaitOver, storeVars
    <3>5. /\ phase \in Locked
          /\ phase \notin Announcing \cup Processing \cup Completing \cup {"deciding"}
      BY DEF Locked, Idle, Announcing, Processing, Completing
    <3>6. phase # "aborting" /\ phase # "settling"
      BY DEF Idle
    <3> QED
      BY <3>1, <3>2, <3>3, <3>4, <3>5, <3>6, HolderKeepsRowInv DEF Goto
  <2> QED
    BY <1>4, <2>1, <2>2 DEF CheckShutdown, NothingQueued, Decide, WaitOver, Stay, NextTurn,
       Ended, Idle, OnceExit
<1>5. ASSUME NEW w \in Workers, Claim(w)  PROVE  RowInv'
  <2>1. PICK r \in Runs : ClaimNextQueued(r) /\ job' = [job EXCEPT ![w] = r]
    BY <1>5 DEF Claim
  <2>2. \A s \in Runs : status[s] # "running"
    BY <1>0, <1>5, WorkersAssumption DEF Claim, RowInv, RunningIsOwned, Locked, Idle,
       Announcing, Processing
  <2>3. \A s \in Runs : status'[s] = "running" <=> s = r
    BY <2>1, <2>2 DEF ClaimNextQueued, Queued, TypeOK, StoreTypeOK
  <2>4. /\ pc[w] \in Locked /\ lock' = lock /\ verdict' = verdict
        /\ pc' = [pc EXCEPT ![w] = "announcing"]
    BY <1>5 DEF Claim, Goto, Locked, Idle
  <2>5. job'[w] = r /\ \A v \in Workers \ {w} : job'[v] = job[v]
    BY <2>1 DEF TypeOK
  <2>6. "announcing" \in Locked \cap Announcing /\ "announcing" \notin Completing \cup {"deciding"}
    BY DEF Locked, Announcing, Completing
  <2> QED
    BY <2>3, <2>4, <2>5, <2>6, HolderKeepsRowInv
<1>6. ASSUME NEW w \in Workers, pc[w] \in Announcing \cup Processing
      PROVE  /\ job[w] \in Runs
             /\ status[job[w]] = "running"
             /\ \A r \in Runs : status[r] = "running" => job[w] = r
  BY <1>0, <1>6, WorkersAssumption DEF RowInv, FinishAccepted, RunningIsOwned, Locked,
     Announcing, Processing
<1>7. ASSUME NEW w \in Workers,
             \/ Rearm(w) \/ Load(w) \/ Launch(w) \/ ChildExits(w) \/ ChildStopped(w)
      PROVE  RowInv'
  <2>1. PICK phase \in Announcing \cup Processing : pc' = [pc EXCEPT ![w] = phase]
    BY <1>7 DEF Rearm, Announce, LookAtShutdown, SetForShutdown, Stay,
       Load, Launch, ChildExits, ChildStopped, Goto, Announcing,
       Processing
  <2>2. /\ pc[w] \in Announcing \cup Processing
        /\ \A v \in Workers \ {w} : verdict'[v] = verdict[v]
        /\ phase = "aborting" => verdict'[w] \in {"config-error", "blocked", "worker-error"}
        /\ phase = "settling" => verdict'[w] \in {"succeeded", "failed", "timeout", "cancelled"}
        /\ lock' = lock /\ job' = job /\ status' = status
    BY <1>7, <2>1 DEF Rearm, Announce, LookAtShutdown, SetForShutdown, Stay,
       Load, Launch, ChildExits, ChildStopped, Goto, Announcing,
       Processing, TypeOK, storeVars
  <2>3. phase \in Locked /\ phase \notin Completing \cup {"deciding"}
    BY DEF Locked, Announcing, Processing, Completing
  <2>4. pc[w] \in Locked
    BY <2>2 DEF Locked
  <2>5. /\ job'[w] \in Runs /\ status'[job'[w]] = "running"
        /\ \A r \in Runs : status'[r] = "running" => job'[w] = r
    BY <1>6, <2>2
  <2>6. phase \in Announcing \cup Processing
    OBVIOUS
  <2> QED
    BY <2>1, <2>2, <2>3, <2>4, <2>5, <2>6, HolderKeepsRowInv
<1>8. ASSUME NEW w \in Workers, UsageLimit(w) \/ FinishRun(w) \/ EndWithoutRun(w)
      PROVE  RowInv'
  <2>1. PICK phase \in Completing : pc' = [pc EXCEPT ![w] = phase]
    BY <1>8 DEF UsageLimit, FinishRun, EndWithoutRun, Goto, Completing
  <2>2. /\ pc[w] \in Processing
        /\ \A v \in Workers \ {w} : verdict'[v] = verdict[v]
        /\ lock' = lock /\ job' = job
    BY <1>8 DEF UsageLimit, FinishRun, EndWithoutRun, Processing, TypeOK
  <2>3. \A r \in Runs : status'[r] # "running"
    <3>1. \A r \in Runs : r # job[w] => status[r] # "running"
      BY <1>6, <2>2
    <3>2. CASE UsageLimit(w)
      BY <3>1, <3>2 DEF UsageLimit, RequeueJob, TypeOK, StoreTypeOK
    <3>3. CASE FinishRun(w)
      <4>1. PICK final \in RowStatusFor(verdict[w]) : FinishJob(job[w], final)
        BY <3>3 DEF FinishRun
      <4>2. final # "running"
        BY <3>3 DEF FinishRun, RowStatusFor, RowInv, VerdictInv
      <4> QED  BY <3>1, <4>1, <4>2 DEF FinishJob, TypeOK, StoreTypeOK
    <3>4. CASE EndWithoutRun(w)
      <4>1. verdict[w] # "running"
        BY <3>4 DEF EndWithoutRun, RowInv, VerdictInv
      <4> QED  BY <3>1, <3>4, <4>1 DEF EndWithoutRun, FinishJob, TypeOK, StoreTypeOK
    <3> QED  BY <1>8, <3>2, <3>3, <3>4
  <2>4. phase \in Locked /\ phase \notin Announcing \cup Processing \cup {"aborting", "settling"}
    BY DEF Locked, Announcing, Processing, Completing
  <2>5. pc[w] \in Locked /\ job[w] \in Runs
    BY <1>6, <2>2 DEF Locked
  <2> QED
    BY <2>1, <2>2, <2>3, <2>4, <2>5, HolderKeepsRowInv
<1>9. ASSUME NEW w \in Workers, Evaluate(w) \/ SaveResult(w) \/ SyncPublished(w) \/ Clear(w)
      PROVE  RowInv'
  <2>1. PICK phase \in Completing \cup {"deciding"} : pc' = [pc EXCEPT ![w] = phase]
    BY <1>9 DEF Evaluate, SaveResult, SyncPublished, Clear, Goto, Completing
  <2>2. /\ pc[w] \in Completing
        /\ lock' = lock /\ job' = job /\ verdict' = verdict /\ status' = status
    BY <1>9 DEF Evaluate, SaveResult, SyncPublished, Clear, Completing, storeVars
  <2>3. pc[w] \in Locked /\ job[w] \in Runs
    BY <2>2 DEF RowInv, JobInv, Locked
  <2>4. \A r \in Runs : status[r] # "running"
    BY <1>0, <2>2, <2>3, WorkersAssumption DEF RowInv, RunningIsOwned, Announcing, Processing,
       Completing
  <2>5. phase \in Locked /\ phase \notin Announcing \cup Processing \cup {"aborting", "settling"}
    BY DEF Locked, Announcing, Processing, Completing
  <2> QED
    BY <2>1, <2>2, <2>3, <2>4, <2>5, HolderKeepsRowInv
<1>10. ASSUME \/ \E w \in Workers : \/ AgentWrites(w) \/ StopCurrent(w)
                                     \/ StopSetsShutdown(w) \/ StopSetsCancel(w)
              \/ \E r \in Runs : StrayWrites(r) \/ StrayEnds(r)
              \/ UNCHANGED vars
       PROVE  RowInv'
  <2>1. UNCHANGED <<pc, lock, job, verdict, status>>
    BY <1>10 DEF AgentWrites, StopCurrent, StopSetsShutdown, StopSetsCancel, StrayWrites,
       StrayEnds, storeVars, workerVars, vars
  <2> QED
    BY <2>1 DEF RowInv, LockInv, VerdictInv, JobInv, FinishAccepted, RunningIsOwned
<1>11. ASSUME Request  PROVE  RowInv'
  <2>1. UNCHANGED <<pc, lock, job, verdict>>
    BY <1>11 DEF Request, workerVars
  <2>2. \A r \in Runs : status'[r] = "running" <=> status[r] = "running"
    <3>1. ASSUME NEW p \in Plans, NEW a \in Approvals, Enqueue(p, a)
          PROVE  \A r \in Runs : status'[r] = "running" <=> status[r] = "running"
      <4>1. \A r \in RunsOf(p) : r \in Runs => status[r] = "absent"
        BY <3>1 DEF Enqueue, JobsForDigest, Present, Unused
      <4> QED  BY <3>1, <4>1 DEF Enqueue
    <3>2. ASSUME NEW r \in Runs, RetryJob(r) \/ DeleteJob(r)
          PROVE  \A s \in Runs : status'[s] = "running" <=> status[s] = "running"
      BY <3>2 DEF RetryJob, DeleteJob, TypeOK, StoreTypeOK, NotRetryable
    <3> QED  BY <1>11, <3>1, <3>2 DEF Request
  <2> QED
    BY <2>1, <2>2 DEF RowInv, LockInv, VerdictInv, JobInv, FinishAccepted, RunningIsOwned
<1> QED
  BY <1>1, <1>2, <1>3, <1>4, <1>5, <1>7, <1>8, <1>9, <1>10, <1>11 DEF Next, Work, Rearm
-----------------------------------------------------------------------------
(* Stopping *)

(* Only the run in hand is ever current: stop_current cannot name another.  *)
CurrentInv ==
    \A w \in Workers : current[w] # NoRun =>
        current[w] = job[w] /\ pc[w] \in {"rearming", "setting"} \cup Processing \cup Completing

(* No stop is accepted for a run before it is announced, and the event is   *)
(* set again only for a shutdown.                                           *)
AnnounceInv ==
    \A w \in Workers : /\ pc[w] \in Announcing => job[w] \notin asked
                       /\ pc[w] = "setting" => shutdown[w]

(* stop() sets _shutdown first. *)
StopOrder == \A w \in Workers : stopping[w] \in {"half", "done"} => shutdown[w]

(* An armed cancel event, or the status it led to, has a cause.             *)
CauseInv ==
    \A w \in Workers :
        \/ pc[w] \in {"rearming", "setting"} \cup Processing /\ cancel[w]
        \/ pc[w] = "settling" /\ verdict[w] = "cancelled"
        => job[w] \in asked \/ shutdown[w]

StopInv ==
    CurrentInv /\ AnnounceInv /\ StopOrder /\ AcceptedStopKept /\ ShutdownReachesRun /\ CauseInv

LEMMA StopInvInit == Init => StopInv
BY DEF Init, StopInv, CurrentInv, AnnounceInv, StopOrder, AcceptedStopKept,
   ShutdownReachesRun, CauseInv, Announcing, Processing

LEMMA LeaveKeepsStopInv ==
    ASSUME TypeOK, StopInv, NEW w \in Workers, NEW how \in Ended, Leave(w, how), asked' = asked
    PROVE  StopInv'
BY DEF TypeOK, Leave, Goto, Ended, Announcing, Processing, Completing, StopInv, CurrentInv,
   AnnounceInv,
   StopOrder, AcceptedStopKept, ShutdownReachesRun, CauseInv

(* A step that moves one worker on with its run in hand and its flags as    *)
(* they are.                                                                *)
LEMMA MoveKeepsStopInv ==
    ASSUME TypeOK, StopInv, NEW w \in Workers, NEW phase, pc' = [pc EXCEPT ![w] = phase],
           phase \notin Announcing, job' = job, current' = current, asked' = asked,
           UNCHANGED Flags,
           phase \in Processing => pc[w] \in Processing,
           current[w] # NoRun => phase \in Processing \cup Completing,
           \A v \in Workers \ {w} : verdict'[v] = verdict[v],
           phase = "settling" /\ verdict'[w] = "cancelled" => cancel[w]
    PROVE  StopInv'
BY DEF TypeOK, Flags, Announcing, Processing, StopInv, CurrentInv, AnnounceInv, StopOrder,
   AcceptedStopKept,
   ShutdownReachesRun, CauseInv

LEMMA StopInvStep ==
    ASSUME TypeOK, RowInv, StopInv, [Next]_vars
    PROVE  StopInv'
<1>0. \A v, w \in Workers : pc[v] \in Locked /\ pc[w] \in Locked => v = w
  BY DEF RowInv, LockInv
<1>1. ASSUME NEW w \in Workers, LockTaken(w) \/ Raise(w) \/ Die(w)  PROVE  StopInv'
  BY <1>1, LeaveKeepsStopInv DEF LockTaken, Raise, LaunchRaises, EvaluateRaises,
     PublishLockTaken, Die, Ended
<1>2. ASSUME NEW w \in Workers, Start(w) \/ TakeLock(w) \/ Recover(w) \/ WaitOver(w)
      PROVE  StopInv'
  <2>1. PICK phase \in {"locking", "recovering", "checking"} : pc' = [pc EXCEPT ![w] = phase]
    BY <1>2 DEF Start, TakeLock, Recover, WaitOver, Goto
  <2>2. current[w] = NoRun
    BY <1>2 DEF Start, TakeLock, Recover, WaitOver, StopInv, CurrentInv, Ended, Processing,
       Completing
  <2>3. UNCHANGED <<job, current, verdict, asked, Flags>>
    BY <1>2 DEF Start, TakeLock, Recover, WaitOver
  <2> QED
    BY <2>1, <2>2, <2>3, MoveKeepsStopInv DEF Announcing, Processing
<1>3. ASSUME NEW w \in Workers, Load(w) \/ Launch(w) \/ ChildExits(w) \/ ChildStopped(w)
      PROVE  StopInv'
  <2>1. PICK phase \in Processing : pc' = [pc EXCEPT ![w] = phase]
    BY <1>3 DEF Load, Launch, ChildExits, ChildStopped, Goto, Processing
  <2>2. /\ pc[w] \in Processing
        /\ UNCHANGED <<job, current, asked, Flags>>
        /\ \A v \in Workers \ {w} : verdict'[v] = verdict[v]
    BY <1>3 DEF Load, Launch, ChildExits, ChildStopped, Processing, TypeOK
  <2>3. phase = "settling" /\ verdict'[w] = "cancelled" => cancel[w]
    BY <1>3, <2>1 DEF Load, Launch, ChildExits, ChildStopped, Goto, TypeOK
  <2>4. phase \in Processing
    OBVIOUS
  <2>5. phase \notin Announcing
    BY <2>4 DEF Announcing, Processing
  <2> QED
    BY <2>1, <2>2, <2>3, <2>4, <2>5, MoveKeepsStopInv
<1>4. ASSUME NEW w \in Workers,
             \/ UsageLimit(w) \/ FinishRun(w) \/ EndWithoutRun(w)
             \/ Evaluate(w) \/ SaveResult(w) \/ SyncPublished(w)
      PROVE  StopInv'
  <2>1. PICK phase \in Completing : pc' = [pc EXCEPT ![w] = phase]
    BY <1>4 DEF UsageLimit, FinishRun, EndWithoutRun, Evaluate, SaveResult, SyncPublished, Goto,
       Completing
  <2>2. /\ UNCHANGED <<job, current, asked, Flags>>
        /\ \A v \in Workers \ {w} : verdict'[v] = verdict[v]
    BY <1>4 DEF UsageLimit, FinishRun, EndWithoutRun, Evaluate, SaveResult, SyncPublished,
       TypeOK
  <2>3. phase \notin Processing /\ phase \notin Announcing /\ phase # "settling"
    BY DEF Announcing, Processing, Completing
  <2> QED
    BY <2>1, <2>2, <2>3, MoveKeepsStopInv
<1>5. ASSUME NEW w \in Workers, CheckShutdown(w) \/ NothingQueued(w) \/ Decide(w)
      PROVE  StopInv'
  <2>1. CASE \E how \in Ended : Leave(w, how)
    BY <1>5, <2>1, LeaveKeepsStopInv DEF CheckShutdown, NothingQueued, Decide
  <2>2. CASE \E phase \in Idle : Stay(w, phase)
    <3>1. PICK phase \in Idle : Stay(w, phase)
      BY <2>2
    <3>2. current[w] = NoRun
      BY <1>5 DEF CheckShutdown, NothingQueued, Decide, StopInv, CurrentInv, Processing,
         Completing
    <3>3. asked' = asked
      BY <1>5 DEF CheckShutdown, NothingQueued, Decide
    <3>4. phase \notin Processing /\ phase \notin Announcing /\ phase # "settling"
      BY DEF Idle, Announcing, Processing
    <3> QED
      BY <3>1, <3>2, <3>3, <3>4, MoveKeepsStopInv DEF Stay, Goto
  <2>3. CASE \E phase \in Idle : NextTurn(w, phase)
    BY <1>5, <2>3 DEF CheckShutdown, NothingQueued, Decide, NextTurn, Goto, TypeOK, Flags, Idle,
       Announcing, Processing, Completing, StopInv, CurrentInv, AnnounceInv, StopOrder,
       AcceptedStopKept,
       ShutdownReachesRun, CauseInv
  <2> QED
    BY <1>5, <2>1, <2>2, <2>3 DEF CheckShutdown, NothingQueued, Decide, Ended, Idle, OnceExit
<1>6. ASSUME NEW w \in Workers, Claim(w)  PROVE  StopInv'
  BY <1>0, <1>6 DEF Claim, Goto, TypeOK, Flags, Locked, Idle, Announcing, Processing,
     Completing, StopInv,
     CurrentInv, AnnounceInv, StopOrder, AcceptedStopKept, ShutdownReachesRun, CauseInv
<1>7. ASSUME NEW w \in Workers, Rearm(w)  PROVE  StopInv'
  BY <1>0, <1>7 DEF Rearm, Announce, LookAtShutdown, SetForShutdown, Stay,
       Goto, TypeOK, Locked, Announcing, Processing, Completing, StopInv,
     CurrentInv, AnnounceInv, StopOrder, AcceptedStopKept, ShutdownReachesRun, CauseInv,
     CancelAtStart, Flags
<1>8. ASSUME NEW w \in Workers, Clear(w)  PROVE  StopInv'
  BY <1>8 DEF Clear, Goto, TypeOK, Flags, Announcing, Processing, Completing, StopInv,
     CurrentInv, AnnounceInv, StopOrder, AcceptedStopKept, ShutdownReachesRun, CauseInv
<1>9. ASSUME NEW w \in Workers, StopCurrent(w)  PROVE  StopInv'
  BY <1>0, <1>9 DEF StopCurrent, TypeOK, Locked, Announcing, Processing, Completing, StopInv,
     CurrentInv, AnnounceInv, StopOrder, AcceptedStopKept, ShutdownReachesRun, CauseInv
<1>10. ASSUME NEW w \in Workers, StopSetsShutdown(w) \/ StopSetsCancel(w)  PROVE  StopInv'
  BY <1>10 DEF StopSetsShutdown, StopSetsCancel, TypeOK, StopInv, CurrentInv, AnnounceInv,
     StopOrder, AcceptedStopKept, ShutdownReachesRun, CauseInv
<1>11. ASSUME \/ \E w \in Workers : AgentWrites(w)
              \/ \E r \in Runs : StrayWrites(r) \/ StrayEnds(r)
              \/ Request \/ UNCHANGED vars
       PROVE  StopInv'
  <2>1. UNCHANGED <<pc, job, current, verdict, asked, Flags>>
    BY <1>11 DEF AgentWrites, StrayWrites, StrayEnds, Request, workerVars, vars, Flags
  <2> QED
    BY <2>1 DEF Flags, StopInv, CurrentInv, AnnounceInv, StopOrder, AcceptedStopKept,
       ShutdownReachesRun, CauseInv
<1> QED
  BY <1>1, <1>2, <1>3, <1>4, <1>5, <1>6, <1>7, <1>8, <1>9, <1>10, <1>11 DEF Next, Work, Rearm
-----------------------------------------------------------------------------
(* Theorems *)

LEMMA WorkersInvariant == Spec => [](TypeOK /\ RowInv /\ StopInv)
<1>1. Init => TypeOK /\ RowInv /\ StopInv
  BY RowInvInit, StopInvInit
<1>2. TypeOK /\ RowInv /\ StopInv /\ [Next]_vars => (TypeOK /\ RowInv /\ StopInv)'
  BY TypeStep, RowInvStep, StopInvStep
<1> QED  BY <1>1, <1>2, PTL DEF Spec

(* The variables of the workers and of the store keep their types, whatever *)
(* interleaves.                                                             *)
THEOREM TypeCorrect == Spec => []TypeOK
BY WorkersInvariant, PTL

(* worker.lock protects the rows: a running row belongs to the one worker   *)
(* that holds the lock, to nobody, or is about to be recovered.             *)
THEOREM LockProtectsRows == Spec => []RunningIsOwned
<1>1. RowInv => RunningIsOwned
  BY DEF RowInv
<1> QED  BY <1>1, WorkersInvariant, PTL

(* finish_job and requeue_job always find their row running.                *)
THEOREM FinishIsAccepted == Spec => []FinishAccepted
<1>1. RowInv => FinishAccepted
  BY DEF RowInv
<1> QED  BY <1>1, WorkersInvariant, PTL

(* An accepted stop is not lost when run() rearms the cancel event.         *)
THEOREM StopIsKept == Spec => []AcceptedStopKept
<1>1. StopInv => AcceptedStopKept
  BY DEF StopInv
<1> QED  BY <1>1, WorkersInvariant, PTL

(* Closing the server reaches the run in hand, in every interleaving of     *)
(* stop() with the start of a run.                                          *)
THEOREM ShutdownIsKept == Spec => []ShutdownReachesRun
<1>1. StopInv => ShutdownReachesRun
  BY DEF StopInv
<1> QED  BY <1>1, WorkersInvariant, PTL

(* Only process_job gives a row the status cancelled, and it has a reason.  *)
LEMMA CancelledStep ==
    ASSUME TypeOK, RowInv, StopInv, [Next]_vars, NEW r \in Runs,
           status[r] = "running", status'[r] = "cancelled"
    PROVE  r \in asked \/ \E w \in Workers : job[w] = r /\ shutdown[w]
<1>1. PICK w \in Workers : FinishRun(w) \/ EndWithoutRun(w)
  <2>1. [StoreNext]_storeVars
    BY StoreStep
  <2>2. ASSUME NEW w \in Workers, Recover(w) \/ Claim(w) \/ UsageLimit(w)
        PROVE  status'[r] # "cancelled"
    BY <2>2 DEF Recover, RequeueOrphanedRunning, Claim, ClaimNextQueued, UsageLimit, RequeueJob,
       TypeOK, StoreTypeOK
  <2>3. ASSUME Request  PROVE  status'[r] # "cancelled"
    BY <2>3 DEF Request, Enqueue, RetryJob, DeleteJob, TypeOK, StoreTypeOK
  <2>4. storeVars' # storeVars
    BY DEF storeVars
  <2> QED
    BY <2>2, <2>3, <2>4 DEF Next, Work, Rearm, vars, TakeLock, LockTaken, CheckShutdown,
       NothingQueued,
       WaitOver, Rearm, Announce, LookAtShutdown, SetForShutdown, Stay,
       Load, Launch, ChildExits, ChildStopped, Evaluate, SaveResult,
       SyncPublished, Clear, Decide, Raise, LaunchRaises, EvaluateRaises, PublishLockTaken, Die,
       Start, AgentWrites, StopCurrent, StopSetsShutdown, StopSetsCancel, StrayWrites, StrayEnds
<1>2. job[w] = r /\ verdict[w] = "cancelled" /\ pc[w] = "settling"
  <2>1. pc[w] \in Processing
    BY <1>1 DEF FinishRun, EndWithoutRun, Processing
  <2>2. job[w] \in Runs
    BY <2>1 DEF RowInv, FinishAccepted
  <2>3. CASE FinishRun(w)
    BY <2>2, <2>3 DEF FinishRun, FinishJob, RowStatusFor, TypeOK, StoreTypeOK
  <2>4. CASE EndWithoutRun(w)
    BY <2>2, <2>4 DEF EndWithoutRun, FinishJob, RowInv, VerdictInv, TypeOK, StoreTypeOK
  <2> QED  BY <1>1, <2>3, <2>4
<1> QED  BY <1>2 DEF StopInv, CauseInv

(* A run ends as cancelled only for a stop that was accepted for it, or     *)
(* because its own worker was shutting down.                                *)
THEOREM CancelledHasCause == Spec => CancelledWasAsked
<1>1. TypeOK /\ RowInv /\ StopInv /\ [Next]_vars =>
          [\A r \in Runs : status[r] = "running" /\ status'[r] = "cancelled" =>
              \/ r \in asked
              \/ \E w \in Workers : job[w] = r /\ shutdown[w]]_vars
  BY CancelledStep
<1> QED  BY <1>1, WorkersInvariant, PTL DEF Spec, CancelledWasAsked

(* Whatever the workers do, the two tables only ever move as the operations *)
(* of job_store.py move them: the theorems about StoreSpec hold here too.   *)
THEOREM WorkersImplementStore == Spec => StoreSpec
<1>1. Init => StoreInit
  BY DEF Init
<1>2. TypeOK /\ RowInv /\ [Next]_vars => [StoreNext]_storeVars
  BY StoreStep
<1> QED  BY <1>1, <1>2, WorkersInvariant, PTL DEF Spec, StoreSpec

(* For instance: a measured success is final while workers die, recover,    *)
(* retry and delete.                                                        *)
THEOREM WorkersKeepSuccess == Spec => SucceededIsFinal
BY WorkersImplementStore, SuccessIsFinal, PTL

-----------------------------------------------------------------------------
(* What `work --once` knows when it returns: a success in hand is in the    *)
(* row, or was deleted with it for good.                                    *)
Completed == Completing \cup {"deciding"}

SuccessInHand ==
    \A w \in Workers : pc[w] \in Completed /\ verdict[w] = "succeeded" =>
        job[w] \in Runs /\ Spent(job[w]) /\ status[job[w]] \in {"succeeded", "absent"}

(* A worker comes to have a success in hand by finish_job only.             *)
LEMMA SuccessComesFromFinish ==
    ASSUME TypeOK, RowInv, [Next]_vars, NEW w \in Workers,
           pc'[w] \in Completed, verdict'[w] = "succeeded"
    PROVE  \/ FinishRun(w)
           \/ pc[w] \in Completed /\ verdict[w] = "succeeded" /\ job'[w] = job[w]
<1> DEFINE Goal == \/ FinishRun(w)
                   \/ pc[w] \in Completed /\ verdict[w] = "succeeded" /\ job'[w] = job[w]
<1> USE DEF TypeOK, Completed, Completing
<1>1. ASSUME NEW v \in Workers, NEW how \in Ended, Leave(v, how)  PROVE  Goal
  BY <1>1 DEF Leave, Goto, Ended
<1>2. ASSUME NEW v \in Workers,
             LockTaken(v) \/ LaunchRaises(v) \/ EvaluateRaises(v) \/ PublishLockTaken(v) \/ Die(v)
      PROVE  Goal
  BY <1>1, <1>2 DEF LockTaken, LaunchRaises, EvaluateRaises, PublishLockTaken, Die, Ended
<1>3. ASSUME NEW v \in Workers, CheckShutdown(v) \/ NothingQueued(v)  PROVE  Goal
  BY <1>1, <1>3 DEF CheckShutdown, NothingQueued, Stay, Goto, Ended
<1>4. ASSUME NEW v \in Workers,
             \/ TakeLock(v) \/ Recover(v) \/ Start(v) \/ WaitOver(v) \/ Rearm(v)
             \/ Evaluate(v) \/ SaveResult(v) \/ SyncPublished(v) \/ Clear(v)
      PROVE  Goal
  BY <1>4 DEF TakeLock, Recover, Start, WaitOver, Rearm, Announce, LookAtShutdown,
     SetForShutdown, Stay,
       Evaluate, SaveResult,
     SyncPublished, Clear, Goto
<1>5. ASSUME NEW v \in Workers, Claim(v) \/ Load(v) \/ Launch(v) \/ ChildExits(v) \/ ChildStopped(v)
      PROVE  Goal
  BY <1>5 DEF Claim, Load, Launch, ChildExits, ChildStopped, Goto
<1>6. ASSUME NEW v \in Workers, UsageLimit(v)  PROVE  Goal
  BY <1>6 DEF UsageLimit, Goto
<1>7. ASSUME NEW v \in Workers, FinishRun(v)  PROVE  Goal
  BY <1>7 DEF FinishRun, Goto
<1>8. ASSUME NEW v \in Workers, EndWithoutRun(v)  PROVE  Goal
  BY <1>8 DEF EndWithoutRun, Goto, RowInv, VerdictInv
<1>9. ASSUME NEW v \in Workers, Decide(v)  PROVE  Goal
  <2>1. CASE \E how \in Ended : Leave(v, how)
    BY <1>1, <2>1
  <2>2. CASE \E phase \in {"backoff", "checking"} : NextTurn(v, phase)
    BY <2>2 DEF NextTurn, Goto
  <2> QED  BY <1>9, <2>1, <2>2 DEF Decide, OnceExit, Ended
<1>10. ASSUME \/ Request
              \/ \E v \in Workers : AgentWrites(v) \/ StopCurrent(v) \/ StopSetsShutdown(v) \/ StopSetsCancel(v)
              \/ \E r \in Runs : StrayWrites(r) \/ StrayEnds(r)
              \/ UNCHANGED vars
       PROVE  Goal
  BY <1>10 DEF Request, workerVars, AgentWrites, StopCurrent, StopSetsShutdown, StopSetsCancel,
     StrayWrites, StrayEnds, vars
<1> QED
  BY <1>2, <1>3, <1>4, <1>5, <1>6, <1>7, <1>8, <1>9, <1>10 DEF Next, Work, Rearm, Raise

LEMMA SuccessInHandStep ==
    ASSUME TypeOK, RowInv, PresentIsSpent, SuccessInHand, [Next]_vars
    PROVE  SuccessInHand'
<1> SUFFICES ASSUME NEW w \in Workers, pc'[w] \in Completed, verdict'[w] = "succeeded"
             PROVE  (job[w] \in Runs /\ Spent(job[w]) /\ status[job[w]] \in {"succeeded", "absent"})'
  BY DEF SuccessInHand, Completed, Completing
<1>1. StoreTypeOK /\ [StoreNext]_storeVars
  BY StoreStep DEF TypeOK
<1>2. CASE FinishRun(w)
  <2>1. job[w] \in Runs /\ job'[w] = job[w] /\ status[job[w]] = "running" /\ verdict[w] = "succeeded"
    BY <1>2 DEF FinishRun, RowInv, FinishAccepted, Processing
  <2>2. status'[job[w]] = "succeeded"
    BY <1>1, <1>2, <2>1 DEF FinishRun, FinishJob, RowStatusFor, StoreTypeOK
  <2>3. Spent(job[w])
    BY <2>1 DEF PresentIsSpent, Present
  <2> QED  BY <1>2, <2>1, <2>2, <2>3 DEF FinishRun, FinishJob, Spent
<1>3. CASE pc[w] \in Completed /\ verdict[w] = "succeeded" /\ job'[w] = job[w]
  <2>1. PICK r \in Runs : r = job[w]
    BY <1>3 DEF SuccessInHand
  <2>2. Spent(r) /\ status[r] \in {"succeeded", "absent"}
    BY <1>3, <2>1 DEF SuccessInHand
  <2>3. Spent(r)' /\ (~Present(r) => ~Present(r)')
    BY <1>1, <2>2, SpentStep
  <2>4. status[r] = "succeeded" => status'[r] \in {"succeeded", "absent"}
    BY <1>1, SuccessStep
  <2> QED  BY <1>3, <2>1, <2>2, <2>3, <2>4 DEF Spent, Present
<1> QED  BY <1>2, <1>3, SuccessComesFromFinish

(* `work --once` exits with 0 only for a row that succeeded.                *)
THEOREM OnceIsTruthful == Spec => OnceReportsRow
<1>1. Init => SuccessInHand
  BY DEF Init, SuccessInHand, Completed, Completing
<1>2. TypeOK /\ RowInv /\ SuccessInHand /\ [Next]_vars =>
        [\A w \in Once : pc[w] = "deciding" /\ pc'[w] = "returned0" =>
             status[job[w]] \in {"succeeded", "absent"}]_vars
  <2> SUFFICES ASSUME TypeOK, SuccessInHand, Next, NEW w \in Once,
                      pc[w] = "deciding", pc'[w] = "returned0"
               PROVE  verdict[w] = "succeeded"
    BY WorkersAssumption DEF SuccessInHand, Completed
  <2> USE DEF TypeOK
  <2>1. w \in Workers
    BY WorkersAssumption
  <2>2. ASSUME NEW v \in Workers, Decide(v)  PROVE  verdict[w] = "succeeded"
    <3>1. CASE v = w
      BY <2>1, <2>2, <3>1 DEF Decide, Leave, Goto, OnceExit
    <3>2. CASE v # w
      BY <2>1, <2>2, <3>2 DEF Decide, Leave, Goto, NextTurn
    <3> QED  BY <3>1, <3>2
  <2>3. ASSUME NEW v \in Workers,
               \/ LockTaken(v) \/ LaunchRaises(v) \/ EvaluateRaises(v) \/ PublishLockTaken(v)
               \/ Die(v) \/ CheckShutdown(v) \/ NothingQueued(v)
        PROVE  FALSE
    BY <2>1, <2>3 DEF LockTaken, LaunchRaises, EvaluateRaises, PublishLockTaken, Die,
       CheckShutdown, NothingQueued, Leave, Stay, Goto
  <2>4. ASSUME NEW v \in Workers,
               \/ TakeLock(v) \/ Recover(v) \/ Start(v) \/ WaitOver(v) \/ Rearm(v)
               \/ Claim(v) \/ Load(v) \/ Launch(v) \/ ChildExits(v) \/ ChildStopped(v)
        PROVE  FALSE
    BY <2>1, <2>4 DEF TakeLock, Recover, Start, WaitOver, Rearm, Announce, LookAtShutdown,
       SetForShutdown, Stay,
       Claim, Load, Launch,
       ChildExits, ChildStopped, Goto, Ended
  <2>5. ASSUME NEW v \in Workers,
               \/ UsageLimit(v) \/ FinishRun(v) \/ EndWithoutRun(v) \/ Evaluate(v)
               \/ SaveResult(v) \/ SyncPublished(v) \/ Clear(v)
        PROVE  FALSE
    BY <2>1, <2>5 DEF UsageLimit, FinishRun, EndWithoutRun, Evaluate, SaveResult,
       SyncPublished, Clear, Goto
  <2>6. ASSUME \/ Request
               \/ \E v \in Workers : \/ AgentWrites(v) \/ StopCurrent(v)
                                    \/ StopSetsShutdown(v) \/ StopSetsCancel(v)
               \/ \E r \in Runs : StrayWrites(r) \/ StrayEnds(r)
        PROVE  FALSE
    BY <2>6 DEF Request, workerVars, AgentWrites, StopCurrent, StopSetsShutdown,
       StopSetsCancel, StrayWrites, StrayEnds
  <2> QED  BY <2>2, <2>3, <2>4, <2>5, <2>6 DEF Next, Work, Rearm, Raise
<1>3. TypeOK /\ RowInv /\ PresentIsSpent /\ SuccessInHand /\ [Next]_vars => SuccessInHand'
  BY SuccessInHandStep
<1>4. Spec => []PresentIsSpent
  BY WorkersImplementStore, SpentCorrect, PTL
<1> QED  BY <1>1, <1>2, <1>3, <1>4, WorkersInvariant, PTL DEF Spec, OnceReportsRow
=============================================================================
