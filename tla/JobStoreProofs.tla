--------------------------- MODULE JobStoreProofs ---------------------------
(* What the state store promises to any mix of clients, for every set of    *)
(* runs, plans and digests.                                                 *)
EXTENDS JobStore, TLAPS

(* Every operation keeps the rows well-typed. *)
LEMMA StoreTypeStep ==
    ASSUME StoreTypeOK, [StoreNext]_storeVars
    PROVE  StoreTypeOK'
<1> USE PlansAssumption DEF StoreTypeOK, RowStatus, FinalStatus, storeVars
<1>1. ASSUME NEW p \in Plans, NEW a \in Approvals, Enqueue(p, a)
      PROVE  StoreTypeOK'
  <2>1. PlanRuns[p] \in Seq(Runs) /\ Len(PlanRuns[p]) \in Nat
    OBVIOUS
  <2>2. \A r \in RunsOf(p) : Position(p, r) \in DOMAIN PlanRuns[p]
    BY DEF Position, RunsOf
  <2>3. \A r \in RunsOf(p) : Position(p, r) \in Nat
    BY <2>1, <2>2
  <2>4. sequence' \in [Runs -> Nat] /\ lastSeq' \in Nat
    BY <1>1, <2>1, <2>3 DEF Enqueue
  <2>5. status' \in [Runs -> RowStatus \cup {"absent"}] /\ consumed' \subseteq Digests
    BY <1>1 DEF Enqueue
  <2> QED  BY <1>1, <2>4, <2>5 DEF Enqueue
<1>2. ASSUME NEW r \in Runs, NEW final \in FinalStatus, FinishJob(r, final)
      PROVE  StoreTypeOK'
  BY <1>2 DEF FinishJob
<1>3. ASSUME NEW r \in Runs, ClaimNextQueued(r)  PROVE  StoreTypeOK'
  BY <1>3 DEF ClaimNextQueued
<1>4. ASSUME NEW r \in Runs, DeleteJob(r)  PROVE  StoreTypeOK'
  BY <1>4 DEF DeleteJob
<1>5. ASSUME NEW r \in Runs, RetryJob(r)  PROVE  StoreTypeOK'
  BY <1>5 DEF RetryJob
<1>6. ASSUME NEW r \in Runs, RequeueJob(r)  PROVE  StoreTypeOK'
  BY <1>6 DEF RequeueJob
<1>7. CASE RequeueOrphanedRunning
  BY <1>7 DEF RequeueOrphanedRunning
<1>8. CASE UNCHANGED storeVars
  BY <1>8
<1> QED  BY <1>1, <1>2, <1>3, <1>4, <1>5, <1>6, <1>7, <1>8 DEF StoreNext

(* The type invariant of the store. *)
THEOREM StoreTypeCorrect == StoreSpec => []StoreTypeOK
<1>1. StoreInit => StoreTypeOK
  BY DEF StoreInit, StoreTypeOK
<1> QED  BY <1>1, StoreTypeStep, PTL DEF StoreSpec

-----------------------------------------------------------------------------
(* Each operation that leaves a final status wipes the end of the attempt,  *)
(* and only finish_job writes one.                                          *)
LEMMA OutcomeStep ==
    ASSUME StoreTypeOK, OutcomeMatchesStatus, [StoreNext]_storeVars
    PROVE  OutcomeMatchesStatus'
<1> USE DEF StoreTypeOK, OutcomeMatchesStatus, FinalStatus, RowStatus, storeVars
<1>1. ASSUME NEW p \in Plans, NEW a \in Approvals, Enqueue(p, a)
      PROVE  OutcomeMatchesStatus'
  <2>1. \A r \in RunsOf(p) \cap Runs : status[r] = "absent"
    BY <1>1 DEF Enqueue, JobsForDigest, Present, Unused
  <2> QED  BY <1>1, <2>1 DEF Enqueue
<1>2. ASSUME NEW r \in Runs, NEW final \in FinalStatus, FinishJob(r, final)
      PROVE  OutcomeMatchesStatus'
  BY <1>2 DEF FinishJob
<1>3. ASSUME NEW r \in Runs, ClaimNextQueued(r)  PROVE  OutcomeMatchesStatus'
  BY <1>3 DEF ClaimNextQueued, Queued
<1>4. ASSUME NEW r \in Runs, DeleteJob(r)  PROVE  OutcomeMatchesStatus'
  BY <1>4 DEF DeleteJob
<1>5. ASSUME NEW r \in Runs, RetryJob(r)  PROVE  OutcomeMatchesStatus'
  BY <1>5 DEF RetryJob
<1>6. ASSUME NEW r \in Runs, RequeueJob(r)  PROVE  OutcomeMatchesStatus'
  BY <1>6 DEF RequeueJob
<1>7. CASE RequeueOrphanedRunning
  BY <1>7 DEF RequeueOrphanedRunning
<1>8. CASE UNCHANGED storeVars
  BY <1>8
<1> QED  BY <1>1, <1>2, <1>3, <1>4, <1>5, <1>6, <1>7, <1>8 DEF StoreNext

(* No client can make a queued or running row show the numbers of an        *)
(* earlier attempt.                                                         *)
THEOREM OutcomeCorrect == StoreSpec => []OutcomeMatchesStatus
<1>1. StoreInit => OutcomeMatchesStatus
  BY DEF StoreInit, OutcomeMatchesStatus, FinalStatus
<1> QED  BY <1>1, StoreTypeCorrect, OutcomeStep, PTL DEF StoreSpec

-----------------------------------------------------------------------------
LEMMA SuccessStep ==
    ASSUME StoreTypeOK, [StoreNext]_storeVars, NEW r \in Runs, status[r] = "succeeded"
    PROVE  status'[r] \in {"succeeded", "absent"}
<1> USE DEF StoreTypeOK
<1>1. ASSUME NEW p \in Plans, NEW a \in Approvals, Enqueue(p, a)
      PROVE  status'[r] = "succeeded"
  <2>1. r \notin RunsOf(p)
    BY <1>1 DEF Enqueue, JobsForDigest, Present, Unused
  <2> QED  BY <1>1, <2>1 DEF Enqueue
<1>2. ASSUME NEW s \in Runs, NEW final \in FinalStatus, FinishJob(s, final)
      PROVE  status'[r] = "succeeded"
  BY <1>2 DEF FinishJob
<1>3. ASSUME NEW s \in Runs,
             ClaimNextQueued(s) \/ DeleteJob(s) \/ RetryJob(s) \/ RequeueJob(s)
      PROVE  status'[r] \in {"succeeded", "absent"}
  BY <1>3 DEF ClaimNextQueued, Queued, DeleteJob, RetryJob, RequeueJob, NotRetryable
<1>4. CASE RequeueOrphanedRunning
  BY <1>4 DEF RequeueOrphanedRunning
<1>5. CASE UNCHANGED storeVars
  BY <1>5 DEF storeVars
<1> QED  BY <1>1, <1>2, <1>3, <1>4, <1>5 DEF StoreNext

(* A measured success is final, whatever the clients do. *)
THEOREM SuccessIsFinal == StoreSpec => SucceededIsFinal
<1>1. StoreTypeOK /\ [StoreNext]_storeVars =>
        [\A r \in Runs : status[r] = "succeeded" =>
             status'[r] \in {"succeeded", "absent"}]_storeVars
  BY SuccessStep
<1> QED  BY <1>1, StoreTypeCorrect, PTL DEF StoreSpec, SucceededIsFinal

-----------------------------------------------------------------------------
(* A row exists only under a consumed approval: what makes a deletion       *)
(* final, since consumed_approvals is never deleted from.                   *)
Spent(r) == \E p \in Plans : r \in RunsOf(p) /\ DigestOf[p] \in consumed

PresentIsSpent == \A r \in Runs : Present(r) => Spent(r)

LEMMA PresentIsSpentStep ==
    ASSUME StoreTypeOK, PresentIsSpent, [StoreNext]_storeVars
    PROVE  PresentIsSpent'
<1> USE DEF StoreTypeOK, PresentIsSpent, Present, Spent
<1>1. ASSUME NEW p \in Plans, NEW a \in Approvals, Enqueue(p, a)
      PROVE  PresentIsSpent'
  BY <1>1 DEF Enqueue
<1>2. ASSUME NEW r \in Runs, NEW final \in FinalStatus, FinishJob(r, final)
      PROVE  PresentIsSpent'
  BY <1>2 DEF FinishJob
<1>3. ASSUME NEW r \in Runs, ClaimNextQueued(r)  PROVE  PresentIsSpent'
  BY <1>3 DEF ClaimNextQueued, Queued
<1>4. ASSUME NEW r \in Runs, DeleteJob(r)  PROVE  PresentIsSpent'
  BY <1>4 DEF DeleteJob
<1>5. ASSUME NEW r \in Runs, RetryJob(r)  PROVE  PresentIsSpent'
  BY <1>5 DEF RetryJob
<1>6. ASSUME NEW r \in Runs, RequeueJob(r)  PROVE  PresentIsSpent'
  BY <1>6 DEF RequeueJob
<1>7. CASE RequeueOrphanedRunning
  BY <1>7 DEF RequeueOrphanedRunning
<1>8. CASE UNCHANGED storeVars
  BY <1>8 DEF storeVars
<1> QED  BY <1>1, <1>2, <1>3, <1>4, <1>5, <1>6, <1>7, <1>8 DEF StoreNext

THEOREM SpentCorrect == StoreSpec => []PresentIsSpent
<1>1. StoreInit => PresentIsSpent
  BY DEF StoreInit, PresentIsSpent, Present
<1> QED  BY <1>1, StoreTypeCorrect, PresentIsSpentStep, PTL DEF StoreSpec

(* Approvals stay consumed, and a run of a consumed approval without a row  *)
(* gets none.                                                               *)
LEMMA SpentStep ==
    ASSUME StoreTypeOK, NEW r \in Runs, Spent(r), [StoreNext]_storeVars
    PROVE  Spent(r)' /\ (~Present(r) => ~Present(r)')
<1> USE DEF StoreTypeOK, Present, Spent
<1>1. ASSUME NEW p \in Plans, NEW a \in Approvals, Enqueue(p, a)
      PROVE  Spent(r)' /\ (~Present(r) => ~Present(r)')
  <2>1. r \notin RunsOf(p)
    BY <1>1, PlansAssumption DEF Enqueue, Unused
  <2> QED  BY <1>1, <2>1 DEF Enqueue
<1>2. ASSUME NEW s \in Runs, NEW final \in FinalStatus, FinishJob(s, final)
      PROVE  Spent(r)' /\ (~Present(r) => ~Present(r)')
  BY <1>2 DEF FinishJob
<1>3. ASSUME NEW s \in Runs,
             ClaimNextQueued(s) \/ DeleteJob(s) \/ RetryJob(s) \/ RequeueJob(s)
      PROVE  Spent(r)' /\ (~Present(r) => ~Present(r)')
  BY <1>3 DEF ClaimNextQueued, Queued, DeleteJob, RetryJob, RequeueJob
<1>4. CASE RequeueOrphanedRunning
  BY <1>4 DEF RequeueOrphanedRunning
<1>5. CASE UNCHANGED storeVars
  BY <1>5 DEF storeVars
<1> QED  BY <1>1, <1>2, <1>3, <1>4, <1>5 DEF StoreNext

(* Once deleted, a run never comes back. *)
THEOREM DeletionIsFinal == StoreSpec => DeletedStaysDeleted
<1>1. ASSUME NEW r \in Runs  PROVE  StoreSpec => StaysDeleted(r)
  <2>1. PresentIsSpent /\ Present(r) => Spent(r)
    BY DEF PresentIsSpent
  <2>2. StoreTypeOK /\ Spent(r) /\ [StoreNext]_storeVars =>
          Spent(r)' /\ (~Present(r) => ~Present(r)')
    BY SpentStep
  <2> QED  BY <2>1, <2>2, StoreTypeCorrect, SpentCorrect, PTL DEF StoreSpec, StaysDeleted
<1> QED  BY <1>1 DEF DeletedStaysDeleted

-----------------------------------------------------------------------------
(* Two plans with one digest never have rows at the same time. *)
DigestHasOneBatch ==
    \A p, q \in Plans : DigestOf[p] = DigestOf[q] =>
        \A r \in RunsOf(p), s \in RunsOf(q) : Present(r) /\ Present(s) => p = q

LEMMA OneBatchStep ==
    ASSUME StoreTypeOK, DigestHasOneBatch, [StoreNext]_storeVars
    PROVE  DigestHasOneBatch'
<1> SUFFICES ASSUME NEW p \in Plans, NEW q \in Plans, DigestOf[p] = DigestOf[q],
                    NEW r \in RunsOf(p), NEW s \in RunsOf(q),
                    Present(r)', Present(s)', p # q
             PROVE  FALSE
  BY DEF DigestHasOneBatch
<1>1. r \in Runs /\ s \in Runs
  BY PlansAssumption DEF RunsOf
<1>2. ~Present(r) \/ ~Present(s)
  BY DEF DigestHasOneBatch
<1>3. PICK new \in Plans, a \in Approvals : Enqueue(new, a)
  <2>1. \A t \in Runs : ~Present(t) /\ Present(t)' =>
            \E new \in Plans, a \in Approvals : Enqueue(new, a)
    BY DEF StoreNext, StoreTypeOK, Present, FinishJob, ClaimNextQueued, Queued,
           DeleteJob, RetryJob, RequeueJob, RequeueOrphanedRunning, storeVars
  <2> QED  BY <1>1, <1>2, <2>1
<1>4. \A t \in Runs : Present(t)' => Present(t) \/ t \in RunsOf(new)
  BY <1>3 DEF Enqueue, Present, StoreTypeOK
<1>5. r \in RunsOf(new) \/ s \in RunsOf(new)
  BY <1>1, <1>2, <1>4
<1>6. DigestOf[new] = DigestOf[p] /\ (r \in RunsOf(new) <=> new = p)
                                  /\ (s \in RunsOf(new) <=> new = q)
  BY <1>5, PlansAssumption
<1>7. ~Present(r) /\ ~Present(s)
  BY <1>1, <1>3, <1>6 DEF Enqueue, JobsForDigest, Unused
<1> QED  BY <1>1, <1>4, <1>6, <1>7

THEOREM OneBatchCorrect == StoreSpec => []DigestHasOneBatch
<1>1. StoreInit => DigestHasOneBatch
  BY PlansAssumption DEF StoreInit, DigestHasOneBatch, Present, RunsOf
<1> QED  BY <1>1, StoreTypeCorrect, OneBatchStep, PTL DEF StoreSpec

(* The runs of the other plans that p's approval has shut out. *)
OthersShutOut(p) ==
    \A q \in Plans \ {p} : DigestOf[q] = DigestOf[p] =>
        \A r \in RunsOf(q) : Spent(r) /\ ~Present(r)

(* An approval starts at most one batch, ever. *)
THEOREM ApprovalStartsOneBatch == StoreSpec => OneBatchPerApproval
<1>1. ASSUME NEW p \in Plans  PROVE  StoreSpec => OnlyBatch(p)
  <2>1. PresentIsSpent /\ DigestHasOneBatch /\ HasRows(p) => OthersShutOut(p)
    <3> SUFFICES ASSUME PresentIsSpent, DigestHasOneBatch, HasRows(p),
                        NEW q \in Plans \ {p}, DigestOf[q] = DigestOf[p],
                        NEW r \in RunsOf(q)
                 PROVE  Spent(r) /\ ~Present(r)
      BY DEF OthersShutOut
    <3>1. PICK s \in Runs : s \in RunsOf(p) /\ Present(s)
      BY PlansAssumption DEF HasRows, RunsOf
    <3>2. ~Present(r)
      BY <3>1 DEF DigestHasOneBatch
    <3>3. DigestOf[p] \in consumed
      BY <3>1, PlansAssumption DEF PresentIsSpent, Spent
    <3> QED  BY <3>2, <3>3 DEF Spent
  <2>2. StoreTypeOK /\ OthersShutOut(p) /\ [StoreNext]_storeVars => OthersShutOut(p)'
    <3> SUFFICES ASSUME StoreTypeOK, OthersShutOut(p), [StoreNext]_storeVars,
                        NEW q \in Plans \ {p}, DigestOf[q] = DigestOf[p],
                        NEW r \in RunsOf(q)
                 PROVE  Spent(r)' /\ ~Present(r)'
      BY DEF OthersShutOut
    <3>1. r \in Runs
      BY PlansAssumption DEF RunsOf
    <3>2. Spent(r) /\ ~Present(r)
      BY DEF OthersShutOut
    <3> QED  BY <3>1, <3>2, SpentStep
  <2>3. OthersShutOut(p) => OthersEmpty(p)
    BY DEF OthersShutOut, OthersEmpty, HasRows
  <2> QED
    BY <2>1, <2>2, <2>3, StoreTypeCorrect, SpentCorrect, OneBatchCorrect, PTL
       DEF StoreSpec, OnlyBatch
<1> QED  BY <1>1 DEF OneBatchPerApproval

-----------------------------------------------------------------------------
(* Keys are handed out in increasing order: the strengthening that makes    *)
(* the order of rows inductive.                                             *)
KeysBounded == \A r \in Runs : Present(r) => sequence[r] \in 1..lastSeq

RowOrderInv == RowsKeepPlanOrder /\ KeysBounded

LEMMA PositionIsIndex ==
    ASSUME NEW p \in Plans, NEW i \in DOMAIN PlanRuns[p]
    PROVE  Position(p, PlanRuns[p][i]) = i
BY PlansAssumption DEF Position

(* Rows that are only updated or deleted keep their order. *)
LEMMA OrderKept ==
    ASSUME StoreTypeOK, RowOrderInv, lastSeq' = lastSeq,
           \A r \in Runs : Present(r)' => Present(r) /\ sequence'[r] = sequence[r]
    PROVE  RowOrderInv'
<1>1. KeysBounded'
  BY DEF RowOrderInv, KeysBounded
<1>2. RowsKeepPlanOrder'
  <2>1. ASSUME NEW r \in Runs, NEW s \in Runs, Present(r)', Present(s)',
               sequence'[r] = sequence'[s]
        PROVE  r = s
    BY <2>1 DEF RowOrderInv, RowsKeepPlanOrder
  <2>2. ASSUME NEW p \in Plans, NEW i \in DOMAIN PlanRuns[p], NEW j \in DOMAIN PlanRuns[p],
               i < j, Present(PlanRuns[p][i])', Present(PlanRuns[p][j])'
        PROVE  sequence'[PlanRuns[p][i]] < sequence'[PlanRuns[p][j]]
    <3>1. PlanRuns[p][i] \in Runs /\ PlanRuns[p][j] \in Runs
      BY PlansAssumption
    <3> QED  BY <2>2, <3>1 DEF RowOrderInv, RowsKeepPlanOrder
  <2> QED  BY <2>1, <2>2 DEF RowsKeepPlanOrder
<1> QED  BY <1>1, <1>2 DEF RowOrderInv

LEMMA RowOrderStep ==
    ASSUME StoreTypeOK, RowOrderInv, [StoreNext]_storeVars
    PROVE  RowOrderInv'
<1> USE DEF StoreTypeOK
<1>1. ASSUME NEW p \in Plans, NEW a \in Approvals, Enqueue(p, a)
      PROVE  RowOrderInv'
  <2>1. PlanRuns[p] \in Seq(Runs) /\ Len(PlanRuns[p]) \in Nat
    BY PlansAssumption
  <2>2. \A r \in RunsOf(p) \cap Runs : ~Present(r)
    BY <1>1 DEF Enqueue, JobsForDigest, Unused
  <2>3. \A i \in DOMAIN PlanRuns[p] :
            /\ PlanRuns[p][i] \in Runs
            /\ PlanRuns[p][i] \in RunsOf(p)
            /\ i \in 1..Len(PlanRuns[p])
            /\ sequence'[PlanRuns[p][i]] = lastSeq + i
    BY <1>1, <2>1, PositionIsIndex DEF Enqueue, RunsOf
  <2>4. \A r \in RunsOf(p) : \E i \in DOMAIN PlanRuns[p] : r = PlanRuns[p][i]
    BY DEF RunsOf
  <2>5. \A r \in Runs : r \notin RunsOf(p) =>
            (Present(r)' <=> Present(r)) /\ sequence'[r] = sequence[r]
    BY <1>1 DEF Enqueue, Present
  <2>6. lastSeq' = lastSeq + Len(PlanRuns[p])
    BY <1>1 DEF Enqueue
  <2>7. KeysBounded'
    <3> SUFFICES ASSUME NEW r \in Runs, Present(r)'
                 PROVE  sequence'[r] \in 1..lastSeq'
      BY DEF KeysBounded
    <3>1. CASE r \in RunsOf(p)
      BY <3>1, <2>1, <2>3, <2>4, <2>6
    <3>2. CASE r \notin RunsOf(p)
      BY <3>2, <2>1, <2>5, <2>6 DEF RowOrderInv, KeysBounded
    <3> QED  BY <3>1, <3>2
  <2>8. ASSUME NEW r \in Runs, NEW s \in Runs, Present(r)', Present(s)',
               sequence'[r] = sequence'[s]
        PROVE  r = s
    <3>1. ASSUME NEW t \in Runs, Present(t)', t \notin RunsOf(p)
          PROVE  sequence'[t] \in 1..lastSeq /\ Present(t) /\ sequence'[t] = sequence[t]
      BY <3>1, <2>5 DEF RowOrderInv, KeysBounded
    <3>2. ASSUME NEW t \in Runs, t \in RunsOf(p)
          PROVE  \E i \in DOMAIN PlanRuns[p] : /\ t = PlanRuns[p][i]
                                              /\ i \in Nat /\ i > 0
                                              /\ sequence'[t] = lastSeq + i
      <4>1. PICK i \in DOMAIN PlanRuns[p] : t = PlanRuns[p][i]
        BY <3>2, <2>4
      <4>2. i \in 1..Len(PlanRuns[p]) /\ sequence'[t] = lastSeq + i
        BY <4>1, <2>3
      <4>3. i \in Nat /\ i > 0
        BY <4>2, <2>1
      <4> QED  BY <4>1, <4>2, <4>3
    <3>3. CASE r \in RunsOf(p) /\ s \in RunsOf(p)
      BY <3>3, <3>2, <2>8
    <3>4. CASE r \notin RunsOf(p) /\ s \notin RunsOf(p)
      BY <3>4, <3>1, <2>8 DEF RowOrderInv, RowsKeepPlanOrder
    <3>5. CASE r \in RunsOf(p) /\ s \notin RunsOf(p)
      BY <3>5, <3>1, <3>2, <2>8
    <3>6. CASE r \notin RunsOf(p) /\ s \in RunsOf(p)
      BY <3>6, <3>1, <3>2, <2>8
    <3> QED  BY <3>3, <3>4, <3>5, <3>6
  <2>9. ASSUME NEW q \in Plans, NEW i \in DOMAIN PlanRuns[q], NEW j \in DOMAIN PlanRuns[q],
               i < j, Present(PlanRuns[q][i])', Present(PlanRuns[q][j])'
        PROVE  sequence'[PlanRuns[q][i]] < sequence'[PlanRuns[q][j]]
    <3>1. CASE q = p
      BY <3>1, <2>9, <2>1, <2>3
    <3>2. CASE q # p
      <4>1. /\ PlanRuns[q][i] \in Runs \ RunsOf(p)
            /\ PlanRuns[q][j] \in Runs \ RunsOf(p)
        <5>1. PlanRuns[q][i] \in RunsOf(q) /\ PlanRuns[q][j] \in RunsOf(q)
          BY DEF RunsOf
        <5>2. PlanRuns[q][i] \in Runs /\ PlanRuns[q][j] \in Runs
          BY PlansAssumption
        <5>3. RunsOf(q) \cap RunsOf(p) = {}
          BY <3>2, PlansAssumption
        <5> QED  BY <5>1, <5>2, <5>3
      <4> QED  BY <4>1, <2>5, <2>9 DEF RowOrderInv, RowsKeepPlanOrder
    <3> QED  BY <3>1, <3>2
  <2> QED  BY <2>7, <2>8, <2>9 DEF RowOrderInv, RowsKeepPlanOrder
<1>2. ASSUME NEW r \in Runs, NEW final \in FinalStatus, FinishJob(r, final)
      PROVE  RowOrderInv'
  BY <1>2, OrderKept DEF FinishJob, Present
<1>3. ASSUME NEW r \in Runs,
             ClaimNextQueued(r) \/ RetryJob(r) \/ RequeueJob(r)
      PROVE  RowOrderInv'
  <2>1. \A s \in Runs : Present(s)' => Present(s)
    BY <1>3 DEF ClaimNextQueued, Queued, RetryJob, RequeueJob, Present
  <2>2. sequence' = sequence /\ lastSeq' = lastSeq
    BY <1>3 DEF ClaimNextQueued, RetryJob, RequeueJob
  <2> QED  BY <2>1, <2>2, OrderKept
<1>4. ASSUME NEW r \in Runs, DeleteJob(r)  PROVE  RowOrderInv'
  BY <1>4, OrderKept DEF DeleteJob, Present
<1>5. CASE RequeueOrphanedRunning
  BY <1>5, OrderKept DEF RequeueOrphanedRunning, Present
<1>6. CASE UNCHANGED storeVars
  BY <1>6, OrderKept DEF storeVars, Present
<1> QED  BY <1>1, <1>2, <1>3, <1>4, <1>5, <1>6 DEF StoreNext

(* Rows have distinct keys in plan order, so that the claim that takes the  *)
(* lowest key runs each batch in the order of its plan.                     *)
THEOREM RowOrderCorrect == StoreSpec => []RowsKeepPlanOrder
<1>1. StoreInit => RowOrderInv
  <2>1. StoreInit => \A r \in Runs : ~Present(r)
    BY DEF StoreInit, Present
  <2>2. \A p \in Plans : \A i \in DOMAIN PlanRuns[p] : PlanRuns[p][i] \in Runs
    BY PlansAssumption
  <2> QED  BY <2>1, <2>2 DEF RowOrderInv, RowsKeepPlanOrder, KeysBounded
<1>2. RowOrderInv => RowsKeepPlanOrder
  BY DEF RowOrderInv
<1> QED  BY <1>1, <1>2, StoreTypeCorrect, RowOrderStep, PTL DEF StoreSpec
=============================================================================
