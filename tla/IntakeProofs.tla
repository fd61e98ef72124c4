---------------------------- MODULE IntakeProofs ----------------------------
(***************************************************************************)
(* For any conditions, inputs and number of batches and edits: the rows of *)
(* the queue are those of approved batches, and what a worker launches is  *)
(* what its row says, whoever edits the inputs and the run directories     *)
(* meanwhile.                                                              *)
(***************************************************************************)
EXTENDS Intake, TLAPS

\* None is no file, no row and no run.
NoneIsNew ==
    /\ \A d, p : [digest |-> d, plan |-> p] # None
    /\ \A b, r, c, t, l, i, m, d :
          [batch |-> b, runs |-> r, contents |-> c, tools |-> t, auth |-> l,
           isolation |-> i, model |-> m, digest |-> d] # None
    /\ \A s, d, c, t, i, m :
          [status |-> s, digest |-> d, content |-> c, tool |-> t,
           isolation |-> i, model |-> m] # None
    /\ \A p, w, a, d : [prompt |-> p, workdir |-> w, asset |-> a, doc |-> d] # None
    /\ \A c, t, i, m :
          [content |-> c, tool |-> t, isolation |-> i, model |-> m] # None
    /\ None \notin RunIds

Shapes ==
    /\ phase = [b \in Batches |-> phase[b]]
    /\ plans = [b \in Batches |-> plans[b]]
    /\ approvals = [b \in Batches |-> approvals[b]]
    /\ rows = [r \in RunIds |-> rows[r]]
    /\ worker = [job |-> worker.job, step |-> worker.step, spec |-> worker.spec,
                 late |-> worker.late]

\* A plan is saved once.
PlanInv == \A b \in Batches : plans[b] # None => phase[b] = "shown"

\* An approval keeps the plan of its batch.
ApprovalInv ==
    \A b \in Batches : approvals[b] # None =>
        plans[b] # None /\ approvals[b].plan = plans[b]

\* The row is one of an approved plan.
ApprovedRow(r) ==
    \E b \in Batches :
        /\ approvals[b] # None
        /\ \E k \in DOMAIN approvals[b].plan.runs :
              /\ approvals[b].plan.runs[k] = r
              /\ rows[r] = [RowOf(approvals[b].plan, k)
                                EXCEPT !.status = rows[r].status]

RowInv ==
    /\ \A r \in RunIds : rows[r] # None => ApprovedRow(r)
    /\ worker.step # "idle" => worker.job \in RunIds /\ ApprovedRow(worker.job)

IntakeInv == Shapes /\ PlanInv /\ ApprovalInv /\ RowInv

----------------------------------------------------------------------------
\* At first there are no plans, approvals and rows.
LEMMA InitIntake ==
    ASSUME Init
    PROVE  IntakeInv
<1>1. Shapes
  BY DEF Init, Shapes
<1>2. PlanInv /\ ApprovalInv
  BY DEF Init, PlanInv, ApprovalInv
<1>3. RowInv
  BY DEF Init, RowInv
<1> QED
  BY <1>1, <1>2, <1>3 DEF IntakeInv

\* A row that keeps all but its status stays an approved one, if the approvals
\* keep their plans.
LEMMA RowsStay ==
    ASSUME NEW r, ApprovedRow(r),
           rows'[r] = rows[r] \/ (\E s : rows'[r] = [rows[r] EXCEPT !.status = s]),
           \A b \in Batches : approvals[b] # None =>
              approvals'[b] # None /\ approvals'[b].plan = approvals[b].plan
    PROVE  ApprovedRow(r)'
<1>0. PICK b \in Batches :
          /\ approvals[b] # None
          /\ \E k \in DOMAIN approvals[b].plan.runs :
                /\ approvals[b].plan.runs[k] = r
                /\ rows[r] = [RowOf(approvals[b].plan, k)
                                  EXCEPT !.status = rows[r].status]
  BY DEF ApprovedRow
<1>1. PICK k \in DOMAIN approvals[b].plan.runs :
          /\ approvals[b].plan.runs[k] = r
          /\ rows[r] = [RowOf(approvals[b].plan, k)
                            EXCEPT !.status = rows[r].status]
  BY <1>0
<1>2. approvals'[b] # None /\ approvals'[b].plan = approvals[b].plan
  BY <1>0
<1>3. rows'[r] = [RowOf(approvals[b].plan, k) EXCEPT !.status = rows'[r].status]
  BY <1>1 DEF RowOf
<1>4. rows'[r] = [RowOf(approvals'[b].plan, k) EXCEPT !.status = rows'[r].status]
  BY <1>2, <1>3
<1>5. k \in DOMAIN approvals'[b].plan.runs /\ approvals'[b].plan.runs[k] = r
  BY <1>1, <1>2
<1> QED
  BY <1>2, <1>4, <1>5, Zenon DEF ApprovedRow

\* What only touches inputs, requests, run directories and phases that have no
\* plan keeps the invariant.
LEMMA StepElsewhere ==
    ASSUME IntakeInv, UNCHANGED <<plans, approvals, rows>>,
           Shapes',
           \A b \in Batches : phase[b] = "shown" => phase'[b] = "shown",
           worker'.step # "idle" => worker.step # "idle" /\ worker'.job = worker.job
    PROVE  IntakeInv'
<1>1. PlanInv'
  BY DEF IntakeInv, PlanInv
<1>2. ApprovalInv'
  BY DEF IntakeInv, ApprovalInv
<1>3. \A r : ApprovedRow(r) => ApprovedRow(r)'
  BY RowsStay
<1>4. RowInv'
  BY <1>3 DEF IntakeInv, RowInv
<1> QED
  BY <1>1, <1>2, <1>4 DEF IntakeInv

\* The steps of an estimate before the plan is saved, edits of inputs and of
\* run directories.
LEMMA StepBefore ==
    ASSUME IntakeInv,
           \/ \E b \in Batches :
                 \/ \E include \in SUBSET ConditionIds :
                       \E skipUnavailable \in BOOLEAN, model \in Models :
                          StartEstimate(b, include, skipUnavailable, model)
                 \/ ReadInputs(b) \/ HashAssets(b) \/ MakeDirectory(b)
                 \/ Abandon(b)
           \/ \E input \in Inputs, version \in Versions \union {0} :
                 Edit(input, version)
           \/ \E r \in RunIds, part \in {"prompt", "workdir", "asset"} :
                 \E reseal \in BOOLEAN : Tamper(r, part, reseal)
    PROVE  IntakeInv'
<1>0. Shapes
  BY DEF IntakeInv
<1>1. ASSUME NEW b \in Batches,
             NEW include, NEW skipUnavailable, NEW model,
             StartEstimate(b, include, skipUnavailable, model)
      PROVE  IntakeInv'
  BY <1>0, <1>1, StepElsewhere DEF StartEstimate, Shapes, queue
<1>2. ASSUME NEW b \in Batches, ReadInputs(b)
      PROVE  IntakeInv'
  BY <1>0, <1>2, StepElsewhere DEF ReadInputs, Shapes, queue
<1>3. ASSUME NEW b \in Batches, HashAssets(b)
      PROVE  IntakeInv'
  BY <1>0, <1>3, StepElsewhere DEF HashAssets, Shapes, queue
<1>4. ASSUME NEW b \in Batches, MakeDirectory(b)
      PROVE  IntakeInv'
  BY <1>0, <1>4, StepElsewhere DEF MakeDirectory, Shapes, queue
<1>5. ASSUME NEW b \in Batches, Abandon(b)
      PROVE  IntakeInv'
  BY <1>0, <1>5, StepElsewhere DEF Abandon, Shapes, queue
<1>6. ASSUME NEW input, NEW version, Edit(input, version)
      PROVE  IntakeInv'
  BY <1>0, <1>6, StepElsewhere DEF Edit, Shapes, queue
<1>7. ASSUME NEW r, NEW part, NEW reseal, Tamper(r, part, reseal)
      PROVE  IntakeInv'
  BY <1>0, <1>7, StepElsewhere DEF Tamper, Shapes, queue, estimates
<1> QED
  BY <1>1, <1>2, <1>3, <1>4, <1>5, <1>6, <1>7

\* The plan is saved: its batch had none, nor an approval.
LEMMA StepSave ==
    ASSUME IntakeInv, NEW b \in Batches, CheckAndSave(b)
    PROVE  IntakeInv'
<1>1. /\ Shapes /\ PlanInv /\ ApprovalInv /\ RowInv
  BY DEF IntakeInv
<1>2. plans[b] = None /\ approvals[b] = None
  BY <1>1 DEF CheckAndSave, PlanInv, ApprovalInv
<1>3. PICK q : plans' = [plans EXCEPT ![b] = PlanOf(b, q)]
  BY DEF CheckAndSave
<1>4. /\ phase' = [phase EXCEPT ![b] = "shown"]
      /\ approvals' = approvals /\ rows' = rows /\ worker' = worker
  BY DEF CheckAndSave, queue
<1>5. Shapes'
  BY <1>1, <1>3, <1>4 DEF Shapes
<1>6. PlanInv'
  <2>1. /\ plans'[b] = PlanOf(b, q) /\ phase'[b] = "shown"
        /\ \A c \in Batches \ {b} : plans'[c] = plans[c] /\ phase'[c] = phase[c]
    BY <1>1, <1>3, <1>4 DEF Shapes
  <2> QED
    BY <1>1, <2>1 DEF PlanInv
<1>7. ApprovalInv'
  <2>1. \A c \in Batches : plans[c] # None => plans'[c] = plans[c]
    BY <1>1, <1>2, <1>3 DEF Shapes
  <2> QED
    BY <1>1, <1>4, <2>1 DEF ApprovalInv
<1>8. RowInv'
  BY <1>1, <1>4, RowsStay DEF RowInv
<1> QED
  BY <1>5, <1>6, <1>7, <1>8 DEF IntakeInv

\* The user confirms a digest: where the batch had an approval, the new one
\* keeps the same plan.
LEMMA StepApprove ==
    ASSUME NoneIsNew, IntakeInv, NEW b \in Batches, Approve(b)
    PROVE  IntakeInv'
<1>1. /\ Shapes /\ PlanInv /\ ApprovalInv /\ RowInv
  BY DEF IntakeInv
<1>2. /\ plans' = plans /\ phase' = phase /\ rows' = rows /\ worker' = worker
      /\ plans[b] # None
      /\ approvals' = [approvals EXCEPT ![b] =
            [digest |-> plans[b].digest, plan |-> plans[b]]]
  BY DEF Approve, queue, estimates
<1>3. /\ approvals'[b] # None /\ approvals'[b].plan = plans[b]
      /\ \A c \in Batches \ {b} : approvals'[c] = approvals[c]
  BY <1>1, <1>2 DEF Shapes, NoneIsNew
<1>4. Shapes' /\ PlanInv'
  BY <1>1, <1>2 DEF Shapes, PlanInv
<1>5. ApprovalInv'
  BY <1>1, <1>2, <1>3 DEF ApprovalInv
<1>6. \A c \in Batches : approvals[c] # None =>
        approvals'[c] # None /\ approvals'[c].plan = approvals[c].plan
  BY <1>1, <1>3 DEF ApprovalInv
<1>7. \A r : rows'[r] = rows[r]
  BY <1>2
<1>8. \A r : ApprovedRow(r) => ApprovedRow(r)'
  BY <1>6, <1>7, RowsStay
<1> QED
  BY <1>1, <1>2, <1>4, <1>5, <1>8 DEF IntakeInv, RowInv

\* The rows of a plan come in with an approval of that very plan.
LEMMA StepEnqueue ==
    ASSUME IntakeInv, NEW b \in Batches, NEW a \in Batches, Enqueue(b, a)
    PROVE  IntakeInv'
<1> DEFINE p == plans[b]
           New(r) == \E k \in DOMAIN p.runs : p.runs[k] = r
           key(r) == CHOOSE k \in DOMAIN p.runs : p.runs[k] = r
<1>1. /\ Shapes /\ PlanInv /\ ApprovalInv /\ RowInv
  BY DEF IntakeInv
<1>2. /\ plans' = plans /\ phase' = phase /\ approvals' = approvals
      /\ worker' = worker
      /\ approvals[a] # None /\ approvals[a].plan = p
      /\ RowsWith(p.digest) = {}
      /\ rows' = [r \in RunIds |-> IF New(r) THEN RowOf(p, key(r)) ELSE rows[r]]
  BY DEF Enqueue, IsFor, estimates
<1>3. Shapes' /\ PlanInv' /\ ApprovalInv'
  BY <1>1, <1>2 DEF Shapes, PlanInv, ApprovalInv
<1>4. ASSUME NEW r \in RunIds, New(r)
      PROVE  ApprovedRow(r)'
  <2>1. key(r) \in DOMAIN p.runs /\ p.runs[key(r)] = r
    BY <1>4
  <2>2. rows'[r] = RowOf(p, key(r))
    BY <1>2, <1>4
  <2>3. rows'[r] = [RowOf(p, key(r)) EXCEPT !.status = rows'[r].status]
    BY <2>2 DEF RowOf
  <2> HIDE DEF key
  <2>4. approvals'[a] = approvals[a]
    BY <1>2
  <2>5. RowOf(p, key(r)) = RowOf(approvals'[a].plan, key(r))
    BY <1>2, <2>4
  <2> QED
    <3>1. key(r) \in DOMAIN approvals'[a].plan.runs
          /\ approvals'[a].plan.runs[key(r)] = r
      BY <1>2, <2>1, <2>4
    <3>2. rows'[r] = [RowOf(approvals'[a].plan, key(r))
                         EXCEPT !.status = rows'[r].status]
      BY <2>3, <2>5
    <3> QED
      BY <1>2, <2>4, <3>1, <3>2, Zenon DEF ApprovedRow
<1>5. ASSUME NEW r \in RunIds, ~New(r), ApprovedRow(r)
      PROVE  ApprovedRow(r)'
  <2>1. rows'[r] = rows[r]
    BY <1>2, <1>5
  <2> QED
    BY <1>2, <1>5, <2>1, RowsStay
<1>6. \A r \in RunIds : ~New(r) => rows'[r] = rows[r]
  BY <1>2
<1>7. RowInv'
  <2>1. ASSUME NEW r \in RunIds, rows'[r] # None
        PROVE  ApprovedRow(r)'
    BY <1>1, <1>4, <1>5, <1>6, <2>1 DEF RowInv
  <2>2. ASSUME worker'.step # "idle"
        PROVE  worker'.job \in RunIds /\ ApprovedRow(worker.job)'
    BY <1>1, <1>2, <1>4, <1>5, <2>2 DEF RowInv
  <2> QED
    BY <2>1, <2>2 DEF RowInv, RunIds
<1> QED
  BY <1>3, <1>7 DEF IntakeInv

\* A row gets another status, and the worker has no row but one that is
\* approved.
LEMMA StepStatus ==
    ASSUME IntakeInv, UNCHANGED <<phase, plans, approvals>>,
           NEW r \in RunIds, ApprovedRow(r), NEW s,
           rows' = rows \/ rows' = [rows EXCEPT ![r].status = s],
           Shapes',
           worker'.step # "idle" =>
              worker'.job \in RunIds /\ ApprovedRow(worker'.job)
    PROVE  IntakeInv'
<1>1. /\ Shapes /\ PlanInv /\ ApprovalInv /\ RowInv
  BY DEF IntakeInv
<1>2. PlanInv' /\ ApprovalInv'
  BY <1>1 DEF PlanInv, ApprovalInv
<1>3. ASSUME NEW x \in RunIds
      PROVE  rows'[x] = rows[x] \/ (\E t : rows'[x] = [rows[x] EXCEPT !.status = t])
  BY <1>1 DEF Shapes
<1>4. ASSUME NEW x \in RunIds, ApprovedRow(x)
      PROVE  ApprovedRow(x)'
  BY <1>3, <1>4, RowsStay
<1>5. ASSUME NEW x \in RunIds, rows'[x] # None
      PROVE  ApprovedRow(x)'
  <2>1. CASE x = r
    BY <2>1, <1>4
  <2>2. CASE x # r
    <3>1. rows'[x] = rows[x]
      BY <1>1, <2>2 DEF Shapes
    <3> QED
      BY <1>1, <1>4, <1>5, <3>1 DEF RowInv
  <2> QED
    BY <2>1, <2>2
<1>6. RunIds' = RunIds
  BY DEF RunIds, RunId, Specs
<1>7. RowInv'
  <2>1. \A x : x \in RunIds /\ ApprovedRow(x) => ApprovedRow(x)'
    BY <1>4
  <2>2. worker'.step # "idle" =>
            worker'.job \in RunIds /\ ApprovedRow(worker.job)'
    BY <2>1
  <2> QED
    BY <1>5, <1>6, <2>2 DEF RowInv
<1> QED
  BY <1>2, <1>7 DEF IntakeInv

\* The worker claims, checks, launches and ends the run of a row, and a row is
\* put back.
LEMMA StepProcess ==
    ASSUME IntakeInv, ProcessJob \/ (\E r \in RunIds : Retry(r))
    PROVE  IntakeInv'
<1>0. Shapes /\ RowInv
  BY DEF IntakeInv
<1>1. ASSUME NEW r \in RunIds, Claim(r)
      PROVE  IntakeInv'
  <2>1. ApprovedRow(r)
    BY <1>0, <1>1 DEF Claim, RowInv
  <2>2. rows' = [rows EXCEPT ![r].status = "running"]
    BY <1>1 DEF Claim
  <2>3. UNCHANGED <<phase, plans, approvals>> /\ worker'.job = r
    BY <1>1 DEF Claim, Idle, estimates
  <2>4. Shapes'
    BY <1>0, <1>1 DEF Claim, Idle, estimates, Shapes
  <2> QED
    BY <2>1, <2>2, <2>3, <2>4, StepStatus
<1>2. ASSUME NEW status, EndAs(status), UNCHANGED <<phase, plans, approvals>>,
             worker.step # "idle"
      PROVE  IntakeInv'
  <2>1. worker.job \in RunIds /\ ApprovedRow(worker.job)
    BY <1>0, <1>2 DEF RowInv
  <2>2. rows' = [rows EXCEPT ![worker.job].status = status]
        /\ worker'.step = "idle"
    BY <1>2 DEF EndAs, Idle
  <2>3. Shapes'
    BY <1>0, <1>2 DEF EndAs, Idle, Shapes
  <2> QED
    BY <1>2, <2>1, <2>2, <2>3, StepStatus
<1>3. ASSUME UNCHANGED <<phase, plans, approvals, rows>>, worker.step # "idle",
             worker'.job = worker.job,
             worker' = [job |-> worker'.job, step |-> worker'.step,
                        spec |-> worker'.spec, late |-> worker'.late]
      PROVE  IntakeInv'
  <2>1. Shapes'
    BY <1>0, <1>3 DEF Shapes
  <2> QED
    BY <1>3, <2>1, StepElsewhere
<1>4. CASE Load
  <2>1. UNCHANGED <<phase, plans, approvals>> /\ worker.step # "idle"
    BY <1>4 DEF Load, estimates
  <2>2. CASE EndAs("config-error")
    BY <1>2, <2>1, <2>2
  <2>3. CASE worker' = [worker EXCEPT !.step = "loaded",
                                      !.spec = dirs[worker.job].doc.spec]
             /\ UNCHANGED <<rows, launched>>
    BY <1>0, <1>3, <2>1, <2>3 DEF Shapes
  <2> QED
    BY <1>4, <2>2, <2>3 DEF Load
<1>5. CASE Preflight
  <2>1. UNCHANGED <<phase, plans, approvals>> /\ worker.step # "idle"
    BY <1>5 DEF Preflight, estimates
  <2>2. CASE EndAs("blocked")
    BY <1>2, <2>1, <2>2
  <2>3. CASE worker' = [worker EXCEPT !.step = "checked"]
             /\ UNCHANGED <<rows, launched>>
    BY <1>0, <1>3, <2>1, <2>3 DEF Shapes
  <2> QED
    BY <1>5, <2>2, <2>3 DEF Preflight
<1>6. CASE Launch
  <2>1. UNCHANGED <<phase, plans, approvals, rows>> /\ worker.step # "idle"
        /\ worker' = [worker EXCEPT !.step = "launched"]
    BY <1>6 DEF Launch, estimates, queue
  <2> QED
    BY <1>0, <1>3, <2>1 DEF Shapes
<1>7. ASSUME NEW status, NEW changed, End(status, changed)
      PROVE  IntakeInv'
  <2>1. UNCHANGED <<phase, plans, approvals>> /\ worker.step # "idle"
        /\ EndAs(status)
    BY <1>7 DEF End, estimates
  <2> QED
    BY <1>2, <2>1
<1>8. ASSUME NEW r \in RunIds, Retry(r)
      PROVE  IntakeInv'
  <2>1. ApprovedRow(r)
    BY <1>0, <1>8 DEF Retry, RowInv
  <2>2. rows' = [rows EXCEPT ![r].status = "queued"]
        /\ UNCHANGED <<phase, plans, approvals, worker>>
    BY <1>8 DEF Retry, estimates
  <2>3. Shapes'
    BY <1>0, <2>2 DEF Shapes
  <2>4. worker'.step # "idle" =>
            worker'.job \in RunIds /\ ApprovedRow(worker'.job)
    BY <1>0, <2>2 DEF RowInv
  <2> QED
    BY <2>1, <2>2, <2>3, <2>4, StepStatus
<1> QED
  BY <1>1, <1>4, <1>5, <1>6, <1>7, <1>8 DEF ProcessJob

\* Every step keeps the invariant.
LEMMA StepIntake ==
    ASSUME NoneIsNew, IntakeInv, [Next]_vars
    PROVE  IntakeInv'
<1>1. ASSUME UNCHANGED vars
      PROVE  IntakeInv'
  <2>1. Shapes'
    BY <1>1 DEF IntakeInv, Shapes, vars
  <2> QED
    BY <1>1, <2>1, StepElsewhere DEF vars
<1>2. ASSUME NEW b \in Batches, Estimate(b)
      PROVE  IntakeInv'
  <2>1. CASE CheckAndSave(b)
    BY <2>1, StepSave
  <2>2. CASE ~CheckAndSave(b)
    BY <1>2, <2>2, StepBefore DEF Estimate
  <2> QED
    BY <2>1, <2>2
<1>3. ASSUME NEW b \in Batches, NEW a \in Batches, Approve(b) \/ Enqueue(b, a)
      PROVE  IntakeInv'
  BY <1>3, StepApprove, StepEnqueue
<1>4. CASE ProcessJob \/ (\E r \in RunIds : Retry(r))
  BY <1>4, StepProcess
<1>5. CASE \/ \E input \in Inputs, version \in Versions \union {0} :
                Edit(input, version)
           \/ \E r \in RunIds, part \in {"prompt", "workdir", "asset"} :
                \E reseal \in BOOLEAN : Tamper(r, part, reseal)
  BY <1>5, StepBefore
<1> QED
  BY <1>1, <1>2, <1>3, <1>4, <1>5 DEF Next

\* Whatever is edited, and however often a row is put back: a row of the queue
\* belongs to a run of a batch the user approved, and keeps the content, the
\* tool, the isolation and the model of the plan (enqueue compares the plan
\* and not the digest alone).
THEOREM ApprovedBatchesOnly ==
    ASSUME NoneIsNew
    PROVE  Spec => []EnqueuedWasApproved
<1>1. IntakeInv => EnqueuedWasApproved
  BY DEF IntakeInv, RowInv, ApprovedRow, EnqueuedWasApproved
<1> QED
  BY InitIntake, StepIntake, <1>1, PTL DEF Spec

----------------------------------------------------------------------------
(* What the worker has loaded and checked *)

\* What the worker would launch with, if it did now.
Held == ContentId(worker.spec, dirs[worker.job].prompt, dirs[worker.job].workdir,
                  dirs[worker.job].asset)

\* Until somebody writes to the directory after the worker's look at it, it
\* holds what the row says; so does the tool, once it was compared.
WorkerInv ==
    /\ worker.late \in BOOLEAN
    /\ worker.step \in {"loaded", "checked"} /\ ~worker.late =>
          Held = rows[worker.job].content
    /\ worker.step = "checked" /\ ~worker.late =>
          Fingerprint(worker.spec) = rows[worker.job].tool
    /\ launched # None => worker.step = "launched"
    /\ launched # None /\ ~worker.late =>
          launched = [content |-> rows[worker.job].content,
                      tool |-> rows[worker.job].tool,
                      isolation |-> rows[worker.job].isolation,
                      model |-> rows[worker.job].model]

FileShapes ==
    /\ source = [i \in Inputs |-> source[i]]
    /\ dirs = [r \in RunIds |-> dirs[r]]

\* The runs of a plan are of its batch.
OwnRuns ==
    \A b \in Batches : plans[b] # None =>
        \A k \in DOMAIN plans[b].runs : plans[b].runs[k][1] = b

LaunchInv == IntakeInv /\ FileShapes /\ OwnRuns /\ WorkerInv

\* The row of the worker is of the batch in its id, whose estimate is over,
\* and carries the digest of its plan.
LEMMA JobsBatch ==
    ASSUME NoneIsNew, IntakeInv, OwnRuns, worker.step # "idle"
    PROVE  /\ worker.job \in RunIds /\ rows[worker.job] # None
           /\ \E b \in Batches :
                 /\ worker.job[1] = b /\ phase[b] = "shown"
                 /\ rows[worker.job].digest = plans[b].digest
<1>1. worker.job \in RunIds /\ ApprovedRow(worker.job)
  BY DEF IntakeInv, RowInv
<1>2. PICK b \in Batches :
          /\ approvals[b] # None
          /\ \E k \in DOMAIN approvals[b].plan.runs :
                /\ approvals[b].plan.runs[k] = worker.job
                /\ rows[worker.job] = [RowOf(approvals[b].plan, k)
                                          EXCEPT !.status = rows[worker.job].status]
  BY <1>1 DEF ApprovedRow
<1>3. PICK k \in DOMAIN approvals[b].plan.runs :
          /\ approvals[b].plan.runs[k] = worker.job
          /\ rows[worker.job] = [RowOf(approvals[b].plan, k)
                                    EXCEPT !.status = rows[worker.job].status]
  BY <1>2
<1>4. plans[b] # None /\ approvals[b].plan = plans[b] /\ phase[b] = "shown"
  BY <1>2 DEF IntakeInv, ApprovalInv, PlanInv
<1>5. worker.job[1] = b
  BY <1>3, <1>4 DEF OwnRuns
<1>6. rows[worker.job] =
          [status |-> rows[worker.job].status, digest |-> plans[b].digest,
           content |-> plans[b].contents[k], tool |-> plans[b].tools[k],
           isolation |-> plans[b].isolation, model |-> plans[b].model]
  BY <1>3, <1>4 DEF RowOf
<1>7. rows[worker.job] # None /\ rows[worker.job].digest = plans[b].digest
  BY <1>6 DEF NoneIsNew
<1> QED
  BY <1>1, <1>4, <1>5, <1>7

\* A row with another status is the same for a launch.
SameRow(r) ==
    /\ rows'[r].content = rows[r].content /\ rows'[r].tool = rows[r].tool
    /\ rows'[r].isolation = rows[r].isolation /\ rows'[r].model = rows[r].model

LEMMA StatusKeepsRow ==
    ASSUME NEW r, ApprovedRow(r), NEW s,
           rows'[r] = rows[r] \/ rows'[r] = [rows[r] EXCEPT !.status = s]
    PROVE  SameRow(r)
<1>1. PICK b \in Batches :
          \E k \in DOMAIN approvals[b].plan.runs :
              rows[r] = [RowOf(approvals[b].plan, k) EXCEPT !.status = rows[r].status]
  BY DEF ApprovedRow
<1>2. PICK k \in DOMAIN approvals[b].plan.runs :
          rows[r] = [RowOf(approvals[b].plan, k) EXCEPT !.status = rows[r].status]
  BY <1>1
<1>3. CASE rows'[r] = rows[r]
  BY <1>3 DEF SameRow
<1>4. CASE rows'[r] = [rows[r] EXCEPT !.status = s]
  BY <1>2, <1>4 DEF SameRow, RowOf
<1> QED
  BY <1>3, <1>4

\* A step of others: the job of the worker, what is in its directory and its
\* tool stay, or the worker is marked late.
LEMMA WorkerStands ==
    ASSUME WorkerInv, launched' = launched,
           worker'.step = worker.step, worker'.job = worker.job,
           worker'.spec = worker.spec,
           worker'.late \in BOOLEAN, worker.late => worker'.late,
           worker.step # "idle" => SameRow(worker.job),
           worker.step \in {"loaded", "checked"} /\ ~worker'.late => Held' = Held,
           worker.step = "checked" /\ ~worker'.late =>
              Fingerprint(worker.spec)' = Fingerprint(worker.spec)
    PROVE  WorkerInv'
<1>1. ~worker'.late => ~worker.late
  OBVIOUS
<1>2. worker'.step \in {"loaded", "checked"} /\ ~worker'.late =>
          Held' = rows'[worker'.job].content
  BY <1>1 DEF WorkerInv, SameRow
<1>3. worker'.step = "checked" /\ ~worker'.late =>
          Fingerprint(worker.spec)' = rows'[worker'.job].tool
  BY <1>1 DEF WorkerInv, SameRow
<1>4. launched' # None /\ ~worker'.late =>
          launched' = [content |-> rows'[worker'.job].content,
                       tool |-> rows'[worker'.job].tool,
                       isolation |-> rows'[worker'.job].isolation,
                       model |-> rows'[worker'.job].model]
  BY <1>1 DEF WorkerInv, SameRow
<1>5. launched' # None => worker'.step = "launched"
  BY DEF WorkerInv
<1> QED
  BY <1>2, <1>3, <1>4, <1>5 DEF WorkerInv

LEMMA InitLaunch ==
    ASSUME Init
    PROVE  LaunchInv
<1>1. FileShapes /\ OwnRuns
  BY DEF Init, FileShapes, OwnRuns
<1>2. WorkerInv
  BY DEF Init, WorkerInv
<1> QED
  BY <1>1, <1>2, InitIntake DEF LaunchInv

\* The steps of an estimate: a directory it makes is not that of the worker,
\* whose batch is of an estimate that is over.
LEMMA EstimateKeepsLaunch ==
    ASSUME NoneIsNew, LaunchInv, NEW b \in Batches, Estimate(b)
    PROVE  FileShapes' /\ OwnRuns' /\ WorkerInv'
<1>0. IntakeInv /\ FileShapes /\ OwnRuns /\ WorkerInv /\ Shapes
  BY DEF LaunchInv, IntakeInv
<1>1. UNCHANGED <<source, rows, worker, launched>>
  <2>1. ASSUME NEW include, NEW skipUnavailable, NEW model,
               StartEstimate(b, include, skipUnavailable, model)
        PROVE  UNCHANGED <<source, rows, worker, launched>>
    BY <2>1 DEF StartEstimate, queue
  <2>2. CASE ReadInputs(b) \/ HashAssets(b) \/ MakeDirectory(b) \/ CheckAndSave(b)
             \/ Abandon(b)
    BY <2>2 DEF ReadInputs, HashAssets, MakeDirectory, CheckAndSave, Abandon, queue
  <2> QED
    BY <2>1, <2>2 DEF Estimate
<1>2. dirs' = dirs \/ (plans' = plans /\ MakeDirectory(b))
  <2>1. ASSUME NEW include, NEW skipUnavailable, NEW model,
               StartEstimate(b, include, skipUnavailable, model)
        PROVE  dirs' = dirs
    BY <2>1 DEF StartEstimate
  <2>2. CASE ReadInputs(b) \/ HashAssets(b) \/ CheckAndSave(b) \/ Abandon(b)
    BY <2>2 DEF ReadInputs, HashAssets, CheckAndSave, Abandon
  <2>3. CASE MakeDirectory(b)
    BY <2>3 DEF MakeDirectory
  <2> QED
    BY <2>1, <2>2, <2>3 DEF Estimate
<1>3. plans' = plans \/ (\E q : plans' = [plans EXCEPT ![b] = PlanOf(b, q)])
  <2>1. ASSUME NEW include, NEW skipUnavailable, NEW model,
               StartEstimate(b, include, skipUnavailable, model)
        PROVE  plans' = plans
    BY <2>1 DEF StartEstimate
  <2>2. CASE ReadInputs(b) \/ HashAssets(b) \/ MakeDirectory(b) \/ Abandon(b)
    BY <2>2 DEF ReadInputs, HashAssets, MakeDirectory, Abandon
  <2>3. CASE CheckAndSave(b)
    BY <2>3 DEF CheckAndSave
  <2> QED
    BY <2>1, <2>2, <2>3 DEF Estimate
<1>4. OwnRuns'
  <2>1. \A q : \A k \in DOMAIN PlanOf(b, q).runs : PlanOf(b, q).runs[k][1] = b
    BY DEF PlanOf, RunId
  <2>2. CASE plans' = plans
    BY <1>0, <2>2 DEF OwnRuns
  <2>3. ASSUME NEW q, plans' = [plans EXCEPT ![b] = PlanOf(b, q)]
        PROVE  OwnRuns'
    <3>1. plans'[b] = PlanOf(b, q) /\ \A c \in Batches \ {b} : plans'[c] = plans[c]
      BY <1>0, <2>3 DEF Shapes
    <3> QED
      BY <1>0, <2>1, <3>1 DEF OwnRuns
  <2> QED
    BY <1>3, <2>2, <2>3
<1>5. FileShapes'
  <2>1. CASE MakeDirectory(b)
    BY <1>0, <1>1, <2>1 DEF MakeDirectory, FileShapes
  <2> QED
    BY <1>0, <1>1, <1>2, <2>1 DEF FileShapes
<1>6. worker.step # "idle" => dirs'[worker.job] = dirs[worker.job]
  <2>1. CASE MakeDirectory(b) /\ worker.step # "idle"
    <3> DEFINE run == RunId(b, Preparing(b))
    <3>1. worker.job \in RunIds /\ phase[worker.job[1]] = "shown"
      BY <1>0, <2>1, JobsBatch
    <3>2. phase[b] = "copying" /\ run[1] = b
      BY <2>1 DEF MakeDirectory, RunId
    <3>3. worker.job # run
      BY <3>1, <3>2
    <3>4. \E dir : dirs' = [dirs EXCEPT ![run] = dir]
      BY <2>1 DEF MakeDirectory
    <3> HIDE DEF run
    <3> QED
      BY <1>0, <3>1, <3>3, <3>4 DEF FileShapes
  <2> QED
    BY <1>2, <2>1
<1>7. WorkerInv'
  <2>1. worker.step # "idle" => SameRow(worker.job) /\ Held' = Held
    BY <1>1, <1>6 DEF SameRow, Held, ContentId
  <2>2. Fingerprint(worker.spec)' = Fingerprint(worker.spec)
    BY <1>1 DEF Fingerprint
  <2>3. worker'.late \in BOOLEAN
    BY <1>0, <1>1 DEF WorkerInv
  <2> QED
    BY <1>0, <1>1, <2>1, <2>2, <2>3, WorkerStands
<1> QED
  BY <1>4, <1>5, <1>7

\* Approvals do not concern the worker, and rows that are added are not its
\* row: its batch was enqueued.
LEMMA QueueKeepsLaunch ==
    ASSUME NoneIsNew, LaunchInv, NEW b \in Batches, NEW a \in Batches,
           Approve(b) \/ Enqueue(b, a)
    PROVE  FileShapes' /\ OwnRuns' /\ WorkerInv'
<1>0. IntakeInv /\ FileShapes /\ OwnRuns /\ WorkerInv
  BY DEF LaunchInv
<1>1. UNCHANGED <<source, dirs, plans, worker, launched>>
  BY DEF Approve, Enqueue
<1>2. worker.step # "idle" => rows'[worker.job] = rows[worker.job]
  <2>1. CASE Approve(b)
    BY <2>1 DEF Approve, queue
  <2>2. CASE Enqueue(b, a) /\ worker.step # "idle"
    <3> DEFINE p == plans[b]
               New(r) == \E k \in DOMAIN p.runs : p.runs[k] = r
    <3>1. /\ p # None /\ RowsWith(p.digest) = {}
          /\ rows' = [r \in RunIds |-> IF New(r)
                          THEN RowOf(p, CHOOSE k \in DOMAIN p.runs : p.runs[k] = r)
                          ELSE rows[r]]
      BY <2>2 DEF Enqueue
    <3>2. PICK c \in Batches :
              /\ worker.job \in RunIds /\ rows[worker.job] # None
              /\ worker.job[1] = c /\ rows[worker.job].digest = plans[c].digest
      BY <1>0, <2>2, JobsBatch
    <3>3. ~New(worker.job)
      <4>1. New(worker.job) => worker.job[1] = b
        BY <1>0, <3>1 DEF OwnRuns
      <4>2. worker.job[1] = b => worker.job \in RowsWith(p.digest)
        BY <3>2 DEF RowsWith
      <4> QED
        BY <3>1, <4>1, <4>2
    <3> HIDE DEF New
    <3> QED
      BY <3>1, <3>2, <3>3
  <2> QED
    BY <2>1, <2>2
<1>3. worker.step # "idle" => SameRow(worker.job)
  BY <1>2 DEF SameRow
<1>4. Held' = Held /\ Fingerprint(worker.spec)' = Fingerprint(worker.spec)
  BY <1>1 DEF Held, ContentId, Fingerprint
<1>5. worker'.late \in BOOLEAN
  BY <1>0, <1>1 DEF WorkerInv
<1>6. WorkerInv'
  BY <1>0, <1>1, <1>3, <1>4, <1>5, WorkerStands
<1> QED
  BY <1>0, <1>1, <1>6 DEF FileShapes, OwnRuns

\* An edit of the tool after the comparison, and a change of the directory
\* after it was loaded, mark the worker late.
LEMMA EditsKeepLaunch ==
    ASSUME NoneIsNew, LaunchInv,
           \/ \E input \in Inputs, version \in Versions \union {0} :
                 Edit(input, version)
           \/ \E r \in RunIds, part \in {"prompt", "workdir", "asset"} :
                 \E reseal \in BOOLEAN : Tamper(r, part, reseal)
    PROVE  FileShapes' /\ OwnRuns' /\ WorkerInv'
<1>0. IntakeInv /\ FileShapes /\ OwnRuns /\ WorkerInv /\ Shapes
  BY DEF LaunchInv, IntakeInv
<1>1. worker.late \in BOOLEAN
  BY <1>0 DEF WorkerInv
<1>2. ASSUME NEW input \in Inputs, NEW version, Edit(input, version)
      PROVE  FileShapes' /\ OwnRuns' /\ WorkerInv'
  <2>1. /\ UNCHANGED <<dirs, plans, rows, launched>>
        /\ source' = [source EXCEPT ![input] = version]
        /\ worker' = [worker EXCEPT !.late =
              worker.late \/ (worker.step = "checked" /\ input = "tool")]
    BY <1>2 DEF Edit, queue
  <2>2. /\ worker'.step = worker.step /\ worker'.job = worker.job
        /\ worker'.spec = worker.spec
        /\ worker'.late = (worker.late \/ (worker.step = "checked" /\ input = "tool"))
    BY <1>0, <2>1 DEF Shapes
  <2>3. input # "tool" => source'["tool"] = source["tool"]
    BY <1>0, <2>1 DEF FileShapes, Inputs
  <2>4. worker.step = "checked" /\ ~worker'.late =>
            Fingerprint(worker.spec)' = Fingerprint(worker.spec)
    BY <2>2, <2>3 DEF Fingerprint
  <2>5. Held' = Held /\ SameRow(worker.job)
    BY <2>1, <2>2 DEF Held, ContentId, SameRow
  <2>6. WorkerInv'
    BY <1>0, <1>1, <2>1, <2>2, <2>4, <2>5, WorkerStands
  <2> QED
    BY <1>0, <2>1, <2>6 DEF FileShapes, OwnRuns
<1>3. ASSUME NEW r \in RunIds, NEW part, NEW reseal, Tamper(r, part, reseal)
      PROVE  FileShapes' /\ OwnRuns' /\ WorkerInv'
  <2>1. /\ UNCHANGED <<source, plans, rows, launched>>
        /\ \E dir : dirs' = [dirs EXCEPT ![r] = dir]
        /\ worker' = [worker EXCEPT !.late =
              worker.late \/ (r = worker.job /\ worker.step \in {"loaded", "checked"})]
    BY <1>3 DEF Tamper, queue
  <2>2. /\ worker'.step = worker.step /\ worker'.job = worker.job
        /\ worker'.spec = worker.spec
        /\ worker'.late = (worker.late
              \/ (r = worker.job /\ worker.step \in {"loaded", "checked"}))
    BY <1>0, <2>1 DEF Shapes
  <2>3. worker.step # "idle" /\ r # worker.job => dirs'[worker.job] = dirs[worker.job]
    BY <1>0, <2>1, JobsBatch DEF FileShapes
  <2>4. worker.step \in {"loaded", "checked"} /\ ~worker'.late => Held' = Held
    BY <2>2, <2>3 DEF Held, ContentId
  <2>5. SameRow(worker.job) /\ Fingerprint(worker.spec)' = Fingerprint(worker.spec)
    BY <2>1, <2>2 DEF SameRow, Fingerprint
  <2>6. WorkerInv'
    BY <1>0, <1>1, <2>1, <2>2, <2>4, <2>5, WorkerStands
  <2> QED
    BY <1>0, <2>1, <2>6 DEF FileShapes, OwnRuns
<1> QED
  BY <1>2, <1>3

\* The worker's own steps: it loads what the row says, compares the tool, and
\* launches with what it finds.
LEMMA ProcessKeepsLaunch ==
    ASSUME NoneIsNew, LaunchInv, ProcessJob \/ (\E r \in RunIds : Retry(r))
    PROVE  FileShapes' /\ OwnRuns' /\ WorkerInv'
<1>0. IntakeInv /\ FileShapes /\ OwnRuns /\ WorkerInv /\ Shapes /\ RowInv
  BY DEF LaunchInv, IntakeInv
<1>1. worker = [job |-> worker.job, step |-> worker.step, spec |-> worker.spec,
                late |-> worker.late] /\ worker.late \in BOOLEAN
  BY <1>0 DEF Shapes, WorkerInv
<1>2. OwnRuns'
  <2>1. plans' = plans
    BY DEF ProcessJob, Claim, Load, Preflight, Launch, End, Retry
  <2> QED
    BY <1>0, <2>1 DEF OwnRuns
<1>3. FileShapes'
  <2>1. source' = source
    BY DEF ProcessJob, Claim, Load, Preflight, Launch, End, Retry
  <2>2. dirs' = dirs \/ (\E r, dir : dirs' = [dirs EXCEPT ![r] = dir])
    BY DEF ProcessJob, Claim, Load, Preflight, Launch, End, Retry
  <2> QED
    BY <1>0, <2>1, <2>2 DEF FileShapes
<1>4. ASSUME NEW status, EndAs(status)
      PROVE  WorkerInv'
  BY <1>4 DEF EndAs, Idle, WorkerInv
<1>5. ASSUME NEW r \in RunIds, Claim(r)
      PROVE  WorkerInv'
  <2>1. worker'.step = "claimed" /\ worker'.late = FALSE /\ launched' = launched
        /\ worker.step = "idle"
    BY <1>5 DEF Claim, Idle
  <2> QED
    BY <1>0, <2>1 DEF WorkerInv
<1>6. ASSUME Load
      PROVE  WorkerInv'
  <2>1. CASE EndAs("config-error")
    BY <1>4, <2>1
  <2>2. CASE /\ dirs[worker.job] # None
             /\ Accepts(dirs[worker.job], rows[worker.job].content)
             /\ worker' = [worker EXCEPT !.step = "loaded",
                                         !.spec = dirs[worker.job].doc.spec]
             /\ UNCHANGED <<rows, launched>>
    <3>1. UNCHANGED <<dirs, rows, launched>> /\ worker.step = "claimed"
      BY <1>6, <2>2 DEF Load
    <3>2. /\ worker'.step = "loaded" /\ worker'.job = worker.job
          /\ worker'.spec = dirs[worker.job].doc.spec /\ worker'.late = worker.late
      BY <1>1, <2>2
    <3>3. Held' = rows[worker.job].content
      BY <2>2, <3>1, <3>2 DEF Held, Accepts, ContentId
    <3>4. launched' = None
      BY <1>0, <3>1 DEF WorkerInv
    <3> QED
      BY <1>1, <3>1, <3>2, <3>3, <3>4 DEF WorkerInv
  <2> QED
    BY <1>6, <2>1, <2>2 DEF Load
<1>7. ASSUME Preflight
      PROVE  WorkerInv'
  <2>1. CASE EndAs("blocked")
    BY <1>4, <2>1
  <2>2. CASE /\ Fingerprint(worker.spec) = rows[worker.job].tool
             /\ worker' = [worker EXCEPT !.step = "checked"]
             /\ UNCHANGED <<rows, launched>>
    <3>1. UNCHANGED <<source, dirs, rows, launched>> /\ worker.step = "loaded"
      BY <1>7, <2>2 DEF Preflight
    <3>2. /\ worker'.step = "checked" /\ worker'.job = worker.job
          /\ worker'.spec = worker.spec /\ worker'.late = worker.late
      BY <1>1, <2>2
    <3>3. Held' = Held /\ Fingerprint(worker.spec)' = Fingerprint(worker.spec)
      BY <3>1, <3>2 DEF Held, ContentId, Fingerprint
    <3>4. launched' = None
      BY <1>0, <3>1 DEF WorkerInv
    <3> QED
      BY <1>0, <1>1, <2>2, <3>1, <3>2, <3>3, <3>4 DEF WorkerInv
  <2> QED
    BY <1>7, <2>1, <2>2 DEF Preflight, ToolsAsApproved
<1>8. ASSUME Launch
      PROVE  WorkerInv'
  <2>1. /\ worker.step = "checked" /\ rows' = rows
        /\ worker' = [worker EXCEPT !.step = "launched"]
        /\ launched' = [content |-> Held, tool |-> Fingerprint(worker.spec),
                        isolation |-> rows[worker.job].isolation,
                        model |-> rows[worker.job].model]
    BY <1>8 DEF Launch, Held, queue
  <2>2. /\ worker'.step = "launched" /\ worker'.job = worker.job
        /\ worker'.late = worker.late
    BY <1>1, <2>1
  <2>3. ~worker.late => /\ Held = rows[worker.job].content
                        /\ Fingerprint(worker.spec) = rows[worker.job].tool
    BY <1>0, <2>1 DEF WorkerInv
  <2> QED
    BY <1>1, <2>1, <2>2, <2>3 DEF WorkerInv
<1>9. ASSUME NEW status, NEW changed, End(status, changed)
      PROVE  WorkerInv'
  BY <1>4, <1>9 DEF End
<1>10. ASSUME NEW r \in RunIds, Retry(r)
       PROVE  WorkerInv'
  <2>1. /\ UNCHANGED <<source, dirs, worker, launched>>
        /\ rows' = [rows EXCEPT ![r].status = "queued"]
    BY <1>10 DEF Retry
  <2>2. worker.step # "idle" => SameRow(worker.job)
    <3>1. SUFFICES ASSUME worker.step # "idle"
                   PROVE  SameRow(worker.job)
      OBVIOUS
    <3>2. worker.job \in RunIds /\ ApprovedRow(worker.job)
      BY <1>0, <3>1 DEF RowInv
    <3>3. rows'[worker.job] = rows[worker.job]
          \/ rows'[worker.job] = [rows[worker.job] EXCEPT !.status = "queued"]
      BY <1>0, <2>1, <3>2 DEF Shapes
    <3> QED
      BY <3>2, <3>3, StatusKeepsRow
  <2>3. Held' = Held /\ Fingerprint(worker.spec)' = Fingerprint(worker.spec)
    BY <2>1 DEF Held, ContentId, Fingerprint
  <2> QED
    BY <1>0, <1>1, <2>1, <2>2, <2>3, WorkerStands
<1> QED
  BY <1>2, <1>3, <1>5, <1>6, <1>7, <1>8, <1>9, <1>10 DEF ProcessJob

LEMMA StepLaunch ==
    ASSUME NoneIsNew, LaunchInv, [Next]_vars
    PROVE  LaunchInv'
<1>1. IntakeInv'
  BY StepIntake DEF LaunchInv
<1>2. ASSUME UNCHANGED vars
      PROVE  FileShapes' /\ OwnRuns' /\ WorkerInv'
  <2>1. UNCHANGED <<source, dirs, plans, rows, worker, launched>>
    BY <1>2 DEF vars
  <2>2. SameRow(worker.job) /\ Held' = Held
        /\ Fingerprint(worker.spec)' = Fingerprint(worker.spec)
    BY <2>1 DEF SameRow, Held, ContentId, Fingerprint
  <2>3. WorkerInv'
    BY <2>1, <2>2, WorkerStands DEF LaunchInv, WorkerInv
  <2> QED
    BY <2>1, <2>3 DEF LaunchInv, FileShapes, OwnRuns
<1>3. ASSUME NEW b \in Batches, Estimate(b)
      PROVE  FileShapes' /\ OwnRuns' /\ WorkerInv'
  BY <1>3, EstimateKeepsLaunch
<1>4. ASSUME NEW b \in Batches, NEW a \in Batches, Approve(b) \/ Enqueue(b, a)
      PROVE  FileShapes' /\ OwnRuns' /\ WorkerInv'
  BY <1>4, QueueKeepsLaunch
<1>5. ASSUME ProcessJob \/ (\E r \in RunIds : Retry(r))
      PROVE  FileShapes' /\ OwnRuns' /\ WorkerInv'
  BY <1>5, ProcessKeepsLaunch
<1>6. ASSUME \/ \E input \in Inputs, version \in Versions \union {0} :
                   Edit(input, version)
             \/ \E r \in RunIds, part \in {"prompt", "workdir", "asset"} :
                   \E reseal \in BOOLEAN : Tamper(r, part, reseal)
      PROVE  FileShapes' /\ OwnRuns' /\ WorkerInv'
  BY <1>6, EditsKeepLaunch
<1> QED
  BY <1>1, <1>2, <1>3, <1>4, <1>5, <1>6 DEF Next, LaunchInv

\* What is launched is what the user approved: the prompt, the fixture, the
\* assets and the condition of the run, the tool, the isolation and the model,
\* unless somebody writes to the directory or updates the tool after the
\* worker's last look at it.
THEOREM LaunchIsApproved ==
    ASSUME NoneIsNew
    PROVE  Spec => []LaunchedAsApproved
<1>1. LaunchInv => LaunchedAsApproved
  <2> SUFFICES ASSUME LaunchInv, launched # None, ~worker.late
               PROVE  \E b \in Batches :
                        /\ approvals[b] # None
                        /\ LET p == approvals[b].plan
                           IN \E k \in DOMAIN p.runs :
                                 /\ p.runs[k] = worker.job
                                 /\ launched = [content |-> p.contents[k],
                                                tool |-> p.tools[k],
                                                isolation |-> p.isolation,
                                                model |-> p.model]
    BY DEF LaunchedAsApproved
  <2>1. /\ ApprovedRow(worker.job)
        /\ launched = [content |-> rows[worker.job].content,
                       tool |-> rows[worker.job].tool,
                       isolation |-> rows[worker.job].isolation,
                       model |-> rows[worker.job].model]
    BY DEF LaunchInv, IntakeInv, RowInv, WorkerInv
  <2>2. PICK b \in Batches :
          /\ approvals[b] # None
          /\ \E k \in DOMAIN approvals[b].plan.runs :
                /\ approvals[b].plan.runs[k] = worker.job
                /\ rows[worker.job] = [RowOf(approvals[b].plan, k)
                                          EXCEPT !.status = rows[worker.job].status]
    BY <2>1 DEF ApprovedRow
  <2>3. PICK k \in DOMAIN approvals[b].plan.runs :
          /\ approvals[b].plan.runs[k] = worker.job
          /\ rows[worker.job] = [RowOf(approvals[b].plan, k)
                                    EXCEPT !.status = rows[worker.job].status]
    BY <2>2
  <2>4. launched = [content |-> approvals[b].plan.contents[k],
                    tool |-> approvals[b].plan.tools[k],
                    isolation |-> approvals[b].plan.isolation,
                    model |-> approvals[b].plan.model]
    BY <2>1, <2>3 DEF RowOf
  <2> QED
    BY <2>2, <2>3, <2>4
<1> QED
  BY InitLaunch, StepLaunch, <1>1, PTL DEF Spec

----------------------------------------------------------------------------
(* Types *)

LEMMA InitType ==
    ASSUME Init
    PROVE  IntakeTypeOK
<1>1. source \in [Inputs -> Versions \union {0}] /\ edits \in 0..MaxEdits
  BY IntakeAssumption DEF Init
<1>2. phase \in [Batches -> {"new", "reading", "hashing", "copying",
                             "checking", "shown", "failed"}]
  BY DEF Init
<1>3. /\ \A b \in Batches : plans[b] = None /\ phase[b] # "shown" /\ approvals[b] = None
      /\ \A r \in RunIds : rows[r] = None
  BY DEF Init
<1>4. worker.step = "idle" /\ worker.job = None /\ launched = None
  BY DEF Init
<1> QED
  BY <1>1, <1>2, <1>3, <1>4 DEF IntakeTypeOK

\* The steps of an estimate move its phase; the plan comes with the last.
LEMMA EstimateKeepsType ==
    ASSUME NoneIsNew, IntakeInv, IntakeTypeOK, NEW b \in Batches, Estimate(b)
    PROVE  IntakeTypeOK'
<1>0. Shapes
  BY DEF IntakeInv
<1>1. UNCHANGED <<source, approvals, rows, worker, launched, edits>>
  <2>1. ASSUME NEW include, NEW skipUnavailable, NEW model,
               StartEstimate(b, include, skipUnavailable, model)
        PROVE  UNCHANGED <<source, approvals, rows, worker, launched, edits>>
    BY <2>1 DEF StartEstimate, queue
  <2>2. CASE ReadInputs(b) \/ HashAssets(b) \/ MakeDirectory(b) \/ CheckAndSave(b)
             \/ Abandon(b)
    BY <2>2 DEF ReadInputs, HashAssets, MakeDirectory, CheckAndSave, Abandon, queue
  <2> QED
    BY <2>1, <2>2 DEF Estimate
<1>2. CASE plans' = plans /\ phase[b] # "shown"
           /\ \E next \in {"reading", "hashing", "copying", "checking", "failed"} :
                 phase' = [phase EXCEPT ![b] = next]
  <2>1. PICK next \in {"reading", "hashing", "copying", "checking", "failed"} :
            phase' = [phase EXCEPT ![b] = next]
    BY <1>2
  <2>2. /\ phase'[b] = next
        /\ \A c \in Batches \ {b} : phase'[c] = phase[c]
    BY <1>0, <2>1 DEF Shapes
  <2>3. phase' \in [Batches -> {"new", "reading", "hashing", "copying",
                                "checking", "shown", "failed"}]
    BY <2>1 DEF IntakeTypeOK
  <2>4. \A c \in Batches : plans'[c] = None <=> phase'[c] # "shown"
    BY <1>2, <2>1, <2>2 DEF IntakeTypeOK
  <2> QED
    BY <1>1, <1>2, <2>3, <2>4 DEF IntakeTypeOK
<1>3. CASE phase' = [phase EXCEPT ![b] = "shown"]
           /\ \E q : plans' = [plans EXCEPT ![b] = PlanOf(b, q)]
  <2>1. PICK q : plans' = [plans EXCEPT ![b] = PlanOf(b, q)]
    BY <1>3
  <2>2. PlanOf(b, q) # None
    BY DEF PlanOf, NoneIsNew
  <2>3. /\ phase'[b] = "shown" /\ plans'[b] # None
        /\ \A c \in Batches \ {b} : phase'[c] = phase[c] /\ plans'[c] = plans[c]
    BY <1>0, <1>3, <2>1, <2>2 DEF Shapes
  <2>4. phase' \in [Batches -> {"new", "reading", "hashing", "copying",
                                "checking", "shown", "failed"}]
    BY <1>3 DEF IntakeTypeOK
  <2>5. \A c \in Batches : /\ plans'[c] = None <=> phase'[c] # "shown"
                           /\ approvals'[c] # None => plans'[c] # None
    BY <1>1, <2>3 DEF IntakeTypeOK
  <2> QED
    BY <1>1, <2>4, <2>5 DEF IntakeTypeOK
<1>4. ASSUME NEW include, NEW skipUnavailable, NEW model,
             StartEstimate(b, include, skipUnavailable, model)
      PROVE  IntakeTypeOK'
  BY <1>2, <1>4 DEF StartEstimate
<1>5. ASSUME ReadInputs(b) \/ HashAssets(b) \/ MakeDirectory(b) \/ Abandon(b)
      PROVE  IntakeTypeOK'
  BY <1>2, <1>5 DEF ReadInputs, HashAssets, MakeDirectory, Abandon
<1>6. ASSUME CheckAndSave(b)
      PROVE  IntakeTypeOK'
  BY <1>3, <1>6 DEF CheckAndSave
<1> QED
  BY <1>4, <1>5, <1>6 DEF Estimate

\* A row that gets another status is a row before and after.
LEMMA StatusKeepsType ==
    ASSUME NoneIsNew, IntakeInv, IntakeTypeOK, NEW r \in RunIds, ApprovedRow(r),
           NEW s \in {"queued", "running", "succeeded", "failed", "blocked",
                      "config-error"},
           rows' = [rows EXCEPT ![r].status = s],
           UNCHANGED <<source, phase, plans, approvals, edits>>,
           worker'.step \in {"idle", "claimed", "loaded", "checked", "launched"},
           worker'.step = "idle" <=> worker'.job = None,
           launched' # None <=> worker'.step = "launched"
    PROVE  IntakeTypeOK'
<1>1. PICK b \in Batches :
          \E k \in DOMAIN approvals[b].plan.runs :
              rows[r] = [RowOf(approvals[b].plan, k) EXCEPT !.status = rows[r].status]
  BY DEF ApprovedRow
<1>2. PICK k \in DOMAIN approvals[b].plan.runs :
          rows[r] = [RowOf(approvals[b].plan, k) EXCEPT !.status = rows[r].status]
  BY <1>1
<1>3. rows'[r] = [rows[r] EXCEPT !.status = s]
      /\ \A x \in RunIds \ {r} : rows'[x] = rows[x]
  BY DEF IntakeInv, Shapes
<1>4. rows'[r].status = s
  BY <1>2, <1>3 DEF RowOf
<1>5. \A x \in RunIds : rows'[x] # None =>
          rows'[x].status \in {"queued", "running", "succeeded", "failed",
                               "blocked", "config-error"}
  BY <1>3, <1>4 DEF IntakeTypeOK
<1> QED
  BY <1>5 DEF IntakeTypeOK

\* Approvals and rows come for plans that were saved.
LEMMA QueueKeepsType ==
    ASSUME NoneIsNew, IntakeInv, IntakeTypeOK, NEW b \in Batches, NEW a \in Batches,
           Approve(b) \/ Enqueue(b, a)
    PROVE  IntakeTypeOK'
<1>0. Shapes
  BY DEF IntakeInv
<1>1. CASE Approve(b)
  <2>1. /\ UNCHANGED <<source, phase, plans, rows, worker, launched, edits>>
        /\ plans[b] # None
        /\ \E x : approvals' = [approvals EXCEPT ![b] = x]
    BY <1>1 DEF Approve, queue, estimates
  <2>2. \A c \in Batches : approvals'[c] # None => plans'[c] # None
    BY <1>0, <2>1 DEF Shapes, IntakeTypeOK
  <2> QED
    BY <2>1, <2>2 DEF IntakeTypeOK
<1>2. CASE Enqueue(b, a)
  <2> DEFINE p == plans[b]
             key(r) == CHOOSE k \in DOMAIN p.runs : p.runs[k] = r
  <2>1. /\ UNCHANGED <<source, phase, plans, approvals, worker, launched, edits>>
        /\ rows' = [r \in RunIds |-> IF \E k \in DOMAIN p.runs : p.runs[k] = r
                                     THEN RowOf(p, key(r)) ELSE rows[r]]
    BY <1>2 DEF Enqueue, estimates
  <2>2. \A k : RowOf(p, k).status = "queued"
    BY DEF RowOf
  <2> HIDE DEF p, key
  <2>3. \A r \in RunIds : rows'[r] = rows[r] \/ rows'[r].status = "queued"
    BY <2>1, <2>2
  <2>4. \A r \in RunIds : rows'[r] # None =>
            rows'[r].status \in {"queued", "running", "succeeded", "failed",
                                 "blocked", "config-error"}
    BY <2>3 DEF IntakeTypeOK
  <2> QED
    BY <2>1, <2>4 DEF IntakeTypeOK
<1> QED
  BY <1>1, <1>2

\* The worker has a row from the claim to the end.
LEMMA ProcessKeepsType ==
    ASSUME NoneIsNew, IntakeInv, IntakeTypeOK, ProcessJob \/ (\E r \in RunIds : Retry(r))
    PROVE  IntakeTypeOK'
<1>0. Shapes /\ RowInv
  BY DEF IntakeInv
<1>1. UNCHANGED <<source, phase, plans, approvals, edits>>
  BY DEF ProcessJob, Claim, Load, Preflight, Launch, End, Retry, estimates
<1>2. ASSUME NEW status \in {"succeeded", "failed", "blocked", "config-error"},
             EndAs(status), worker.step # "idle"
      PROVE  IntakeTypeOK'
  <2>1. worker.job \in RunIds /\ ApprovedRow(worker.job)
    BY <1>0, <1>2 DEF RowInv
  <2>2. /\ rows' = [rows EXCEPT ![worker.job].status = status]
        /\ worker'.step = "idle" /\ worker'.job = None /\ launched' = None
    BY <1>2 DEF EndAs, Idle
  <2> QED
    BY <1>1, <2>1, <2>2, StatusKeepsType
<1>3. ASSUME NEW step \in {"loaded", "checked"}, rows' = rows, launched' = launched,
             worker.step \in {"claimed", "loaded"},
             worker'.step = step, worker'.job = worker.job
      PROVE  IntakeTypeOK'
  BY <1>1, <1>3 DEF IntakeTypeOK
<1>4. ASSUME NEW r \in RunIds, Claim(r)
      PROVE  IntakeTypeOK'
  <2>1. ApprovedRow(r) /\ r # None
    BY <1>0, <1>4 DEF Claim, RowInv, NoneIsNew
  <2>2. /\ rows' = [rows EXCEPT ![r].status = "running"] /\ launched' = launched
        /\ worker'.step = "claimed" /\ worker'.job = r /\ worker.step = "idle"
    BY <1>4 DEF Claim, Idle
  <2>3. launched' = None
    BY <2>2 DEF IntakeTypeOK
  <2> QED
    BY <1>1, <2>1, <2>2, <2>3, StatusKeepsType
<1>5. ASSUME Load
      PROVE  IntakeTypeOK'
  <2>1. CASE EndAs("config-error")
    BY <1>2, <1>5, <2>1 DEF Load
  <2>2. CASE worker' = [worker EXCEPT !.step = "loaded",
                                      !.spec = dirs[worker.job].doc.spec]
             /\ UNCHANGED <<rows, launched>>
    BY <1>0, <1>3, <1>5, <2>2 DEF Load, Shapes
  <2> QED
    BY <1>5, <2>1, <2>2 DEF Load
<1>6. ASSUME Preflight
      PROVE  IntakeTypeOK'
  <2>1. CASE EndAs("blocked")
    BY <1>2, <1>6, <2>1 DEF Preflight
  <2>2. CASE worker' = [worker EXCEPT !.step = "checked"]
             /\ UNCHANGED <<rows, launched>>
    BY <1>0, <1>3, <1>6, <2>2 DEF Preflight, Shapes
  <2> QED
    BY <1>6, <2>1, <2>2 DEF Preflight
<1>7. ASSUME Launch
      PROVE  IntakeTypeOK'
  <2>1. /\ rows' = rows /\ worker.step = "checked" /\ launched' # None
        /\ worker' = [worker EXCEPT !.step = "launched"]
    BY <1>7 DEF Launch, queue, NoneIsNew
  <2>2. worker'.step = "launched" /\ worker'.job = worker.job
    BY <1>0, <2>1 DEF Shapes
  <2> QED
    BY <1>1, <2>1, <2>2 DEF IntakeTypeOK
<1>8. ASSUME NEW status \in {"succeeded", "failed"}, NEW changed, End(status, changed)
      PROVE  IntakeTypeOK'
  BY <1>2, <1>8 DEF End
<1>9. ASSUME NEW r \in RunIds, Retry(r)
      PROVE  IntakeTypeOK'
  <2>1. ApprovedRow(r)
    BY <1>0, <1>9 DEF Retry, RowInv
  <2>2. rows' = [rows EXCEPT ![r].status = "queued"] /\ UNCHANGED <<worker, launched>>
    BY <1>9 DEF Retry
  <2>3. /\ worker'.step \in {"idle", "claimed", "loaded", "checked", "launched"}
        /\ worker'.step = "idle" <=> worker'.job = None
        /\ launched' # None <=> worker'.step = "launched"
    BY <2>2 DEF IntakeTypeOK
  <2> QED
    BY <1>1, <2>1, <2>2, <2>3, StatusKeepsType
<1> QED
  BY <1>4, <1>5, <1>6, <1>7, <1>8, <1>9 DEF ProcessJob

\* Edits are counted, and only lateness of the worker changes with them.
LEMMA EditsKeepType ==
    ASSUME IntakeInv, IntakeTypeOK,
           \/ \E input \in Inputs, version \in Versions \union {0} :
                 Edit(input, version)
           \/ \E r \in RunIds, part \in {"prompt", "workdir", "asset"} :
                 \E reseal \in BOOLEAN : Tamper(r, part, reseal)
    PROVE  IntakeTypeOK'
<1>0. Shapes
  BY DEF IntakeInv
<1>1. ASSUME UNCHANGED <<phase, plans, approvals, rows, launched>>,
             source' \in [Inputs -> Versions \union {0}],
             edits < MaxEdits, edits' = edits + 1,
             worker'.step = worker.step, worker'.job = worker.job
      PROVE  IntakeTypeOK'
  <2>1. edits' \in 0..MaxEdits
    BY <1>1, IntakeAssumption DEF IntakeTypeOK
  <2> QED
    BY <1>1, <2>1 DEF IntakeTypeOK
<1>2. ASSUME NEW input \in Inputs, NEW version \in Versions \union {0},
             Edit(input, version)
      PROVE  IntakeTypeOK'
  <2>1. worker'.step = worker.step /\ worker'.job = worker.job
    BY <1>0, <1>2 DEF Edit, Shapes
  <2>2. source' \in [Inputs -> Versions \union {0}]
    BY <1>2 DEF Edit, IntakeTypeOK
  <2> QED
    BY <1>1, <1>2, <2>1, <2>2 DEF Edit, queue
<1>3. ASSUME NEW r, NEW part, NEW reseal, Tamper(r, part, reseal)
      PROVE  IntakeTypeOK'
  <2>1. worker'.step = worker.step /\ worker'.job = worker.job
    BY <1>0, <1>3 DEF Tamper, Shapes
  <2>2. source' \in [Inputs -> Versions \union {0}]
    BY <1>3 DEF Tamper, IntakeTypeOK
  <2> QED
    BY <1>1, <1>3, <2>1, <2>2 DEF Tamper, queue, estimates
<1> QED
  BY <1>2, <1>3

LEMMA StepType ==
    ASSUME NoneIsNew, IntakeInv, IntakeTypeOK, [Next]_vars
    PROVE  IntakeTypeOK'
<1>1. ASSUME UNCHANGED vars
      PROVE  IntakeTypeOK'
  BY <1>1 DEF vars, IntakeTypeOK
<1> QED
  BY <1>1, EstimateKeepsType, QueueKeepsType, ProcessKeepsType, EditsKeepType DEF Next

\* A plan is there exactly when its estimate was shown, an approval only for a
\* plan, and the worker has a job, and a launch, exactly when its step says so.
THEOREM IntakeTyped ==
    ASSUME NoneIsNew
    PROVE  Spec => []IntakeTypeOK
  BY InitIntake, StepIntake, InitType, StepType, PTL DEF Spec

----------------------------------------------------------------------------
(* The directories that an estimate makes *)

Active == {"reading", "hashing", "copying", "checking"}

IsDirectory(d) ==
    d = [prompt |-> d.prompt, workdir |-> d.workdir, asset |-> d.asset, doc |-> d.doc]

\* The directory of the run is there, and as good as the content says, unless
\* an input moved while it was made or somebody wrote to it.
Made(run, content) ==
    /\ IsDirectory(dirs[run])
    /\ run \in pristine => Accepts(dirs[run], content)

\* How far an estimate is: what it has made, and, as long as nothing moved, that
\* what it has read still is what there is.
Underway(b) ==
    LET q == request[b]
    IN /\ q = [specs |-> q.specs, model |-> q.model, contents |-> q.contents,
               tools |-> q.tools, auth |-> q.auth, prompt |-> q.prompt,
               fixture |-> q.fixture, asset |-> q.asset, steady |-> q.steady]
       /\ q.specs \in Seq(Specs)
       /\ \E S : q.contents \in Seq(S)
       /\ \A k \in 1..Len(q.contents) : Made(RunId(b, q.specs[k]), q.contents[k])
       /\ IF phase[b] = "checking" THEN Len(q.contents) = Len(q.specs)
                                   ELSE Len(q.contents) < Len(q.specs)
       /\ phase[b] \in {"hashing", "copying"} /\ q.steady => q.fixture = source["fixture"]
       /\ phase[b] = "copying" => dirs[RunId(b, Preparing(b))] = None
       /\ phase[b] = "copying" /\ q.steady => q.asset = Asset(Preparing(b))

DirectoryShapes ==
    /\ request = [b \in Batches |-> request[b]]
    /\ pristine \subseteq {r \in RunIds : dirs[r] # None}

KnownRuns ==
    \A b \in Batches : plans[b] # None =>
        \A k \in DOMAIN plans[b].runs : plans[b].runs[k] \in RunIds

EstimatesInv == \A b \in Batches : phase[b] \in Active => Underway(b)

SteadyInv == DirectoryShapes /\ KnownRuns /\ EstimatesInv /\ SteadyIsAccepted

\* Everything that is known of a state.
AllInv == LaunchInv /\ IntakeTypeOK /\ SteadyInv

LEMMA InitSteady ==
    ASSUME Init
    PROVE  SteadyInv
<1>1. \A b \in Batches : phase[b] = "new" /\ plans[b] = None
  BY DEF Init
<1>2. DirectoryShapes
  BY DEF Init, DirectoryShapes
<1> QED
  BY <1>1, <1>2 DEF SteadyInv, KnownRuns, EstimatesInv, Active, SteadyIsAccepted

\* What others may do to a run directory: write to it, and then it is pristine
\* no more.
Clean(r) == r \in pristine' => r \in pristine /\ dirs'[r] = dirs[r]

Kept(r) ==
    /\ Clean(r)
    /\ IsDirectory(dirs[r]) => IsDirectory(dirs'[r])
    /\ dirs[r] = None => dirs'[r] = None

LEMMA RunIsKnown ==
    ASSUME NEW b \in Batches, NEW spec \in Specs
    PROVE  RunId(b, spec) \in RunIds /\ RunId(b, spec)[1] = b
  BY DEF RunIds, RunId

\* The run that is prepared.
LEMMA PreparingIsKnown ==
    ASSUME NEW b \in Batches, Underway(b), phase[b] # "checking"
    PROVE  Preparing(b) \in Specs /\ Len(request[b].contents) + 1 \in 1..Len(request[b].specs)
<1>1. PICK S : request[b].contents \in Seq(S)
  BY DEF Underway
<1>2. /\ Len(request[b].contents) \in Nat /\ request[b].specs \in Seq(Specs)
      /\ Len(request[b].contents) < Len(request[b].specs)
  BY <1>1 DEF Underway
<1>3. Len(request[b].contents) + 1 \in 1..Len(request[b].specs)
  BY <1>2
<1> QED
  BY <1>2, <1>3 DEF Preparing

\* The estimate of a batch goes on where it was, whether the inputs stay or
\* are edited.
LEMMA UnderwayStays ==
    ASSUME NEW b \in Batches, Underway(b), phase[b] \in Active, phase'[b] = phase[b],
           \/ source' = source /\ request'[b] = request[b]
           \/ phase[b] \in {"hashing", "copying"}
                /\ request'[b] = [request[b] EXCEPT !.steady = FALSE]
           \/ phase[b] \notin {"hashing", "copying"} /\ request'[b] = request[b],
           \A r \in RunIds : r[1] = b => Kept(r)
    PROVE  Underway(b)'
<1> DEFINE q == request[b]
           p == request'[b]
<1>0. q = [specs |-> q.specs, model |-> q.model, contents |-> q.contents,
           tools |-> q.tools, auth |-> q.auth, prompt |-> q.prompt,
           fixture |-> q.fixture, asset |-> q.asset, steady |-> q.steady]
  BY DEF Underway
<1>1. PICK S : q.contents \in Seq(S)
  BY DEF Underway
<1>2. q.specs \in Seq(Specs) /\ Len(q.contents) \in Nat /\ Len(q.contents) <= Len(q.specs)
  BY <1>1 DEF Underway
<1>3. /\ p = [specs |-> p.specs, model |-> p.model, contents |-> p.contents,
              tools |-> p.tools, auth |-> p.auth, prompt |-> p.prompt,
              fixture |-> p.fixture, asset |-> p.asset, steady |-> p.steady]
      /\ p.specs = q.specs /\ p.contents = q.contents
      /\ p.fixture = q.fixture /\ p.asset = q.asset
      /\ phase[b] \in {"hashing", "copying"} /\ p.steady => q.steady /\ source' = source
  BY <1>0
<1>4. ASSUME NEW k \in 1..Len(q.contents), NEW run, run = RunId(b, q.specs[k])
      PROVE  /\ IsDirectory(dirs'[run])
             /\ run \in pristine' => Accepts(dirs'[run], q.contents[k])
  <2>1. q.specs[k] \in Specs
    BY <1>2
  <2>2. Kept(run) /\ Made(run, q.contents[k])
    BY <1>4, <2>1, RunIsKnown DEF Underway
  <2> QED
    BY <2>2 DEF Kept, Clean, Made
<1>5. Preparing(b)' = Preparing(b)
  BY <1>3 DEF Preparing
<1>6. phase[b] = "copying" => dirs'[RunId(b, Preparing(b))] = None
  BY PreparingIsKnown, RunIsKnown DEF Underway, Kept
<1>7. phase[b] = "copying" => dirs'[RunId(b, Preparing(b)')] = None
  BY <1>5, <1>6
<1>8. phase[b] = "copying" /\ p.steady => p.asset = Asset(Preparing(b))'
  BY <1>3, <1>5 DEF Underway, Asset
<1>9. phase[b] \in {"hashing", "copying"} /\ p.steady => p.fixture = source'["fixture"]
  BY <1>3 DEF Underway
<1>10. IF phase[b] = "checking" THEN Len(p.contents) = Len(p.specs)
                                ELSE Len(p.contents) < Len(p.specs)
  BY <1>3 DEF Underway
<1>11. \A k \in 1..Len(p.contents) :
          /\ IsDirectory(dirs'[RunId(b, p.specs[k])])
          /\ RunId(b, p.specs[k]) \in pristine' =>
                Accepts(dirs'[RunId(b, p.specs[k])], p.contents[k])
  BY <1>3, <1>4
<1>12. \A k \in 1..Len(p.contents) : Made(RunId(b, request[b].specs[k]), request[b].contents[k])'
  BY <1>11 DEF Made
<1>13. p.specs \in Seq(Specs) /\ \E T : p.contents \in Seq(T)
  BY <1>1, <1>2, <1>3
<1>14. /\ phase'[b] = "copying" => dirs'[RunId(b, Preparing(b))'] = None
       /\ phase'[b] = "copying" /\ p.steady => p.asset = Asset(Preparing(b))'
  BY <1>7, <1>8 DEF RunId
<1> QED
  BY <1>3, <1>9, <1>10, <1>12, <1>13, <1>14 DEF Underway

\* The runs of plans are accepted as before.
LEMMA PlansStay ==
    ASSUME IntakeInv, OwnRuns, KnownRuns, SteadyIsAccepted, plans' = plans,
           \A r \in RunIds : phase[r[1]] = "shown" => Clean(r)
    PROVE  KnownRuns' /\ SteadyIsAccepted'
<1>1. KnownRuns'
  BY DEF KnownRuns
<1>2. ASSUME NEW b \in Batches, plans[b] # None, NEW k \in DOMAIN plans[b].runs,
             plans[b].runs[k] \in pristine'
      PROVE  Accepts(dirs'[plans[b].runs[k]], plans[b].contents[k])
  <2>1. plans[b].runs[k] \in RunIds /\ plans[b].runs[k][1] = b /\ phase[b] = "shown"
    BY <1>2 DEF KnownRuns, OwnRuns, IntakeInv, PlanInv
  <2>2. Clean(plans[b].runs[k])
    BY <2>1
  <2> QED
    BY <1>2, <2>2 DEF Clean, SteadyIsAccepted
<1>3. SteadyIsAccepted'
  BY <1>2 DEF SteadyIsAccepted, Accepts, ContentId
<1> QED
  BY <1>1, <1>3

\* A step that reads and writes nothing of an estimate that is under way.
LEMMA OthersKeepSteady ==
    ASSUME AllInv, UNCHANGED <<source, phase, request, plans>>,
           pristine' \subseteq pristine, \A r \in RunIds : Clean(r),
           \A r \in RunIds : phase[r[1]] \in Active => Kept(r)
    PROVE  SteadyInv'
<1>1. KnownRuns' /\ SteadyIsAccepted'
  BY PlansStay DEF AllInv, LaunchInv, SteadyInv
<1>2. EstimatesInv'
  BY UnderwayStays DEF AllInv, SteadyInv, EstimatesInv
<1>3. DirectoryShapes'
  BY DEF AllInv, SteadyInv, DirectoryShapes, Clean
<1> QED
  BY <1>1, <1>2, <1>3 DEF SteadyInv

\* The queue, approvals and the worker do not touch an estimate; the agent of a
\* run may write to its workdir, and its batch is not under way.
LEMMA ProcessKeepsSteady ==
    ASSUME NoneIsNew, AllInv,
           \/ ProcessJob \/ (\E r \in RunIds : Retry(r))
           \/ \E b, a \in Batches : Approve(b) \/ Enqueue(b, a)
    PROVE  SteadyInv'
<1>0. IntakeInv /\ FileShapes /\ OwnRuns /\ DirectoryShapes
  BY DEF AllInv, LaunchInv, SteadyInv
<1>1. UNCHANGED <<source, phase, request, plans>>
  BY DEF ProcessJob, Claim, Load, Preflight, Launch, End, Retry, Approve, Enqueue,
         estimates
<1>2. CASE UNCHANGED <<dirs, pristine>>
  BY <1>1, <1>2, OthersKeepSteady DEF Kept, Clean
<1>3. ASSUME NEW status, NEW changed, End(status, changed)
      PROVE  SteadyInv'
  <2>1. CASE UNCHANGED <<dirs, pristine>>
    BY <1>1, <2>1, OthersKeepSteady DEF Kept, Clean
  <2>2. CASE /\ dirs' = [dirs EXCEPT ![worker.job].workdir = None]
             /\ pristine' = pristine \ {worker.job}
    <3>1. worker.job \in RunIds /\ phase[worker.job[1]] = "shown"
      BY <1>0, <1>3, JobsBatch DEF End
    <3>2. \A r \in RunIds \ {worker.job} : dirs'[r] = dirs[r]
      BY <1>0, <2>2 DEF FileShapes
    <3>3. \A r \in RunIds : Clean(r)
      BY <2>2, <3>2 DEF Clean
    <3>4. \A r \in RunIds : phase[r[1]] \in Active => Kept(r)
      BY <3>1, <3>2, <3>3 DEF Kept, Active
    <3> QED
      BY <1>1, <2>2, <3>3, <3>4, OthersKeepSteady
  <2> QED
    BY <1>3, <2>1, <2>2 DEF End
<1>4. (\E status \in {"succeeded", "failed"} : \E changed \in BOOLEAN :
          End(status, changed)) \/ UNCHANGED <<dirs, pristine>>
  BY DEF ProcessJob, Claim, Load, Preflight, Launch, Retry, Approve, Enqueue
<1> QED
  BY <1>2, <1>3, <1>4

\* Who writes to a directory makes it one that is not pristine.
LEMMA TamperKeepsSteady ==
    ASSUME NoneIsNew, AllInv, NEW r \in RunIds, NEW part \in {"prompt", "workdir", "asset"},
           NEW reseal \in BOOLEAN, Tamper(r, part, reseal)
    PROVE  SteadyInv'
<1>0. FileShapes
  BY DEF AllInv, LaunchInv
<1>1. /\ UNCHANGED <<source, phase, request, plans>> /\ dirs[r] # None
      /\ pristine' = pristine \ {r}
      /\ dirs' = [dirs EXCEPT ![r] = IF reseal THEN Resealed(Changed(dirs[r], part))
                                               ELSE Changed(dirs[r], part)]
  BY DEF Tamper, estimates
<1>2. \A x \in RunIds \ {r} : dirs'[x] = dirs[x]
  BY <1>0, <1>1 DEF FileShapes
<1>3. \A x \in RunIds : Clean(x)
  BY <1>1, <1>2 DEF Clean
<1>4. IsDirectory(dirs[r]) => IsDirectory(dirs'[r])
  <2>1. dirs'[r] = IF reseal THEN Resealed(Changed(dirs[r], part))
                             ELSE Changed(dirs[r], part)
    BY <1>0, <1>1 DEF FileShapes
  <2>2. ASSUME NEW d, IsDirectory(d)
        PROVE  IsDirectory(Changed(d, part))
    <3>1. /\ IsDirectory([d EXCEPT !.prompt = None])
          /\ IsDirectory([d EXCEPT !.workdir = None])
          /\ IsDirectory([d EXCEPT !.asset = None])
      BY <2>2 DEF IsDirectory
    <3>2. CASE part = "prompt"
      BY <3>1, <3>2 DEF Changed
    <3>3. CASE part = "workdir"
      BY <3>1, <3>3 DEF Changed
    <3>4. CASE part = "asset"
      BY <3>1, <3>4 DEF Changed
    <3> QED
      BY <3>2, <3>3, <3>4
  <2>3. ASSUME NEW d, IsDirectory(d)
        PROVE  IsDirectory(Resealed(d))
    <3> DEFINE id == ContentId(d.doc.spec, d.prompt, d.workdir, d.asset)
               half == [d EXCEPT !.doc.asset = d.asset]
    <3>1. Resealed(d) = [half EXCEPT !.doc.id = id]
      BY DEF Resealed
    <3> HIDE DEF id
    <3>2. IsDirectory(half)
      BY <2>3 DEF IsDirectory
    <3> HIDE DEF half
    <3>3. IsDirectory([half EXCEPT !.doc.id = id])
      BY <3>2 DEF IsDirectory
    <3> QED
      BY <3>1, <3>3
  <2> QED
    BY <2>1, <2>2, <2>3
<1>5. \A x \in RunIds : phase[x[1]] \in Active => Kept(x)
  BY <1>1, <1>2, <1>3, <1>4 DEF Kept
<1> QED
  BY <1>1, <1>3, <1>5, OthersKeepSteady

\* An edit of an input that an estimate has read is noted in its request.
LEMMA EditKeepsSteady ==
    ASSUME AllInv, NEW input \in Inputs, NEW version \in Versions \union {0},
           Edit(input, version)
    PROVE  SteadyInv'
<1>1. /\ UNCHANGED <<phase, dirs, plans, pristine>>
      /\ request' = [b \in Batches |->
             IF phase[b] \in {"hashing", "copying"}
             THEN [request[b] EXCEPT !.steady = FALSE] ELSE request[b]]
  BY DEF Edit
<1>2. KnownRuns' /\ SteadyIsAccepted'
  BY <1>1, PlansStay DEF AllInv, LaunchInv, SteadyInv, Clean
<1>3. DirectoryShapes'
  BY <1>1 DEF AllInv, SteadyInv, DirectoryShapes
<1>4. ASSUME NEW b \in Batches, phase'[b] \in Active
      PROVE  Underway(b)'
  <2>1. Underway(b) /\ phase[b] \in Active /\ phase'[b] = phase[b]
    BY <1>1, <1>4 DEF AllInv, SteadyInv, EstimatesInv
  <2>2. IF phase[b] \in {"hashing", "copying"}
        THEN request'[b] = [request[b] EXCEPT !.steady = FALSE]
        ELSE request'[b] = request[b]
    BY <1>1
  <2>3. \A r \in RunIds : Kept(r)
    BY <1>1 DEF Kept, Clean
  <2> QED
    BY <2>1, <2>2, <2>3, UnderwayStays
<1> QED
  BY <1>2, <1>3, <1>4 DEF SteadyInv, EstimatesInv

\* A step of the estimate of one batch leaves the other batches alone.
LEMMA OthersStay ==
    ASSUME AllInv, NEW b \in Batches, UNCHANGED <<source, plans>>, phase[b] # "shown",
           NEW q, request' = [request EXCEPT ![b] = q],
           NEW next, phase' = [phase EXCEPT ![b] = next],
           \A r \in RunIds : r[1] # b =>
              dirs'[r] = dirs[r] /\ (r \in pristine' => r \in pristine),
           pristine' \subseteq {r \in RunIds : dirs'[r] # None},
           next \in Active => Underway(b)'
    PROVE  SteadyInv'
<1>0. DirectoryShapes /\ Shapes
  BY DEF AllInv, LaunchInv, IntakeInv, SteadyInv
<1>1. \A c \in Batches \ {b} : request'[c] = request[c] /\ phase'[c] = phase[c]
  BY <1>0 DEF DirectoryShapes, Shapes
<1>2. phase'[b] = next
  BY <1>0 DEF Shapes
<1>3. \A r \in RunIds : r[1] # b => Kept(r)
  BY DEF Kept, Clean
<1>4. KnownRuns' /\ SteadyIsAccepted'
  BY <1>3, PlansStay DEF AllInv, LaunchInv, SteadyInv, Kept
<1>5. ASSUME NEW c \in Batches, phase'[c] \in Active
      PROVE  Underway(c)'
  <2>1. CASE c = b
    BY <1>2, <1>5, <2>1
  <2>2. CASE c # b
    <3>1. Underway(c) /\ phase[c] \in Active /\ phase'[c] = phase[c]
          /\ request'[c] = request[c]
      BY <1>1, <1>5, <2>2 DEF AllInv, SteadyInv, EstimatesInv
    <3>2. \A r \in RunIds : r[1] = c => Kept(r)
      BY <1>3, <2>2
    <3> QED
      BY <3>1, <3>2, UnderwayStays
  <2> QED
    BY <2>1, <2>2
<1>6. DirectoryShapes'
  BY <1>0 DEF DirectoryShapes
<1> QED
  BY <1>4, <1>5, <1>6 DEF SteadyInv, EstimatesInv

\* Nothing is made yet.
LEMMA StartKeepsSteady ==
    ASSUME AllInv, NEW b \in Batches, NEW include \in SUBSET ConditionIds,
           NEW skipUnavailable \in BOOLEAN, NEW model \in Models,
           StartEstimate(b, include, skipUnavailable, model)
    PROVE  SteadyInv'
<1> DEFINE specs == Selected(include, skipUnavailable, source["tool"])
           q == [specs |-> specs, model |-> model, contents |-> <<>>,
                 tools |-> <<>>, auth |-> None, prompt |-> None,
                 fixture |-> 0, asset |-> 0, steady |-> TRUE]
<1>1. /\ UNCHANGED <<source, plans, dirs, pristine>> /\ phase[b] = "new" /\ specs # <<>>
      /\ request' = [request EXCEPT ![b] = q]
      /\ phase' = [phase EXCEPT ![b] = "reading"]
  BY DEF StartEstimate
<1>2. specs \in Seq(Specs)
  <2>1. source["tool"] \in Versions \union {0}
    BY DEF AllInv, IntakeTypeOK, Inputs
  <2> QED
    BY <2>1, SelectionAssumption
<1> HIDE DEF specs
<1>3. request'[b] = q /\ phase'[b] = "reading"
  BY <1>1 DEF AllInv, LaunchInv, IntakeInv, Shapes, SteadyInv, DirectoryShapes
<1>4. /\ request'[b] = [specs |-> request'[b].specs, model |-> request'[b].model,
                        contents |-> request'[b].contents, tools |-> request'[b].tools,
                        auth |-> request'[b].auth, prompt |-> request'[b].prompt,
                        fixture |-> request'[b].fixture, asset |-> request'[b].asset,
                        steady |-> request'[b].steady]
      /\ request'[b].specs = specs /\ request'[b].contents = <<>>
  BY <1>3
<1>5. Len(request'[b].contents) = 0 /\ request'[b].contents \in Seq({})
  BY <1>4
<1>6. Len(specs) > 0
  BY <1>1, <1>2
<1>7. Underway(b)'
  BY <1>2, <1>3, <1>4, <1>5, <1>6 DEF Underway
<1>8. pristine' \subseteq {r \in RunIds : dirs'[r] # None}
  BY <1>1 DEF AllInv, SteadyInv, DirectoryShapes
<1> QED
  BY <1>1, <1>7, <1>8, OthersStay

\* What has been made stays; the fixture is read as it is.
LEMMA ReadKeepsSteady ==
    ASSUME AllInv, NEW b \in Batches, ReadInputs(b)
    PROVE  SteadyInv'
<1> DEFINE q == request[b]
           p == [q EXCEPT !.prompt = FinalPrompt(Preparing(b)),
                          !.fixture = source["fixture"], !.steady = TRUE]
<1>1. /\ UNCHANGED <<source, plans, dirs, pristine>> /\ phase[b] = "reading"
      /\ request' = [request EXCEPT ![b] = p]
      /\ phase' = [phase EXCEPT ![b] = "hashing"]
  BY DEF ReadInputs, AllInv, SteadyInv, DirectoryShapes
<1>2. Underway(b)
  BY <1>1 DEF AllInv, SteadyInv, EstimatesInv, Active
<1>3. request'[b] = p /\ phase'[b] = "hashing"
  BY <1>1 DEF AllInv, LaunchInv, IntakeInv, Shapes, SteadyInv, DirectoryShapes
<1> DEFINE n == request'[b]
<1>4. /\ n = [specs |-> n.specs, model |-> n.model, contents |-> n.contents,
              tools |-> n.tools, auth |-> n.auth, prompt |-> n.prompt,
              fixture |-> n.fixture, asset |-> n.asset, steady |-> n.steady]
      /\ n.specs = q.specs /\ n.contents = q.contents /\ n.fixture = source["fixture"]
  BY <1>2, <1>3 DEF Underway
<1>5. \A k \in 1..Len(n.contents) : Made(RunId(b, request[b].specs[k]), request[b].contents[k])'
  BY <1>1, <1>2, <1>4 DEF Underway, Made
<1>6. Underway(b)'
  BY <1>1, <1>2, <1>3, <1>4, <1>5 DEF Underway
<1>7. pristine' \subseteq {r \in RunIds : dirs'[r] # None}
  BY <1>1 DEF AllInv, SteadyInv, DirectoryShapes
<1> QED
  BY <1>1, <1>6, <1>7, OthersStay

\* The assets are hashed as they are, for a run that has no directory.
LEMMA HashKeepsSteady ==
    ASSUME AllInv, NEW b \in Batches, HashAssets(b)
    PROVE  SteadyInv'
<1> DEFINE q == request[b]
           p == [q EXCEPT !.asset = Asset(Preparing(b))]
<1>1. /\ UNCHANGED <<source, plans, dirs, pristine>> /\ phase[b] = "hashing"
      /\ request' = [request EXCEPT ![b] = p]
      /\ phase' = [phase EXCEPT ![b] = "copying"]
      /\ dirs[RunId(b, Preparing(b))] = None
  BY DEF HashAssets, AllInv, SteadyInv, DirectoryShapes
<1>2. Underway(b)
  BY <1>1 DEF AllInv, SteadyInv, EstimatesInv, Active
<1>3. request'[b] = p /\ phase'[b] = "copying"
  BY <1>1 DEF AllInv, LaunchInv, IntakeInv, Shapes, SteadyInv, DirectoryShapes
<1> DEFINE n == request'[b]
<1>4. /\ n = [specs |-> n.specs, model |-> n.model, contents |-> n.contents,
              tools |-> n.tools, auth |-> n.auth, prompt |-> n.prompt,
              fixture |-> n.fixture, asset |-> n.asset, steady |-> n.steady]
      /\ n.specs = q.specs /\ n.contents = q.contents
      /\ n.fixture = q.fixture /\ n.steady = q.steady /\ n.asset = Asset(Preparing(b))
  BY <1>2, <1>3 DEF Underway
<1>5. \A k \in 1..Len(n.contents) : Made(RunId(b, request[b].specs[k]), request[b].contents[k])'
  BY <1>1, <1>2, <1>4 DEF Underway, Made
<1>6. Preparing(b)' = Preparing(b)
  BY <1>4 DEF Preparing
<1>7. dirs'[RunId(b, Preparing(b)')] = None /\ n.asset = Asset(Preparing(b))'
  BY <1>1, <1>4, <1>6 DEF Asset
<1>8. Underway(b)'
  BY <1>1, <1>2, <1>3, <1>4, <1>5, <1>7 DEF Underway, RunId
<1>9. pristine' \subseteq {r \in RunIds : dirs'[r] # None}
  BY <1>1 DEF AllInv, SteadyInv, DirectoryShapes
<1> QED
  BY <1>1, <1>8, <1>9, OthersStay

\* The directory is accepted unless an input moved since the first was read.
LEMMA MakeKeepsSteady ==
    ASSUME NoneIsNew, AllInv, NEW b \in Batches, MakeDirectory(b)
    PROVE  SteadyInv'
<1> DEFINE q == request[b]
           spec == Preparing(b)
           run == RunId(b, spec)
           id == ContentId(spec, q.prompt, q.fixture, q.asset)
           contents == Append(q.contents, id)
           dir == [prompt |-> q.prompt, workdir |-> source["fixture"],
                   asset |-> Asset(spec),
                   doc |-> [spec |-> spec, asset |-> q.asset, id |-> id]]
           next == IF Len(contents) = Len(q.specs) THEN "checking" ELSE "reading"
           p == [q EXCEPT !.contents = contents]
<1>1. /\ UNCHANGED <<source, plans>> /\ phase[b] = "copying"
      /\ dirs' = [dirs EXCEPT ![run] = dir]
      /\ pristine' = IF q.steady THEN pristine \union {run} ELSE pristine
      /\ request' = [request EXCEPT ![b] = p]
      /\ phase' = [phase EXCEPT ![b] = next]
  BY DEF MakeDirectory, PromptFile
<1>2. Underway(b) /\ FileShapes /\ Shapes /\ DirectoryShapes
  BY <1>1 DEF AllInv, LaunchInv, IntakeInv, SteadyInv, EstimatesInv, Active
<1>3. spec \in Specs /\ run \in RunIds /\ run[1] = b
  BY <1>1, <1>2, PreparingIsKnown, RunIsKnown
<1>4. PICK S : q.contents \in Seq(S)
  BY <1>2 DEF Underway
<1>5. Len(q.contents) \in Nat /\ q.specs \in Seq(Specs) /\ Len(q.contents) < Len(q.specs)
      /\ spec = q.specs[Len(q.contents) + 1]
  BY <1>1, <1>2, <1>4 DEF Underway, Preparing
<1>6. request'[b] = p /\ phase'[b] = next
  BY <1>1, <1>2 DEF Shapes, DirectoryShapes
<1>7. /\ contents \in Seq(S \union {id}) /\ Len(contents) = Len(q.contents) + 1
      /\ contents[Len(q.contents) + 1] = id
      /\ \A k \in 1..Len(q.contents) : contents[k] = q.contents[k]
  <2> HIDE DEF id
  <2>1. q.contents \in Seq(S \union {id})
    BY <1>4
  <2> QED
    BY <1>4, <2>1
<1>8. dirs'[run] = dir /\ dir # None /\ dirs[run] = None
      /\ \A r \in RunIds \ {run} : dirs'[r] = dirs[r]
  BY <1>1, <1>2, <1>3 DEF FileShapes, NoneIsNew, Underway
<1>9. run \notin pristine
  BY <1>2, <1>8 DEF DirectoryShapes
<1> DEFINE n == request'[b]
<1>10. /\ n = [specs |-> n.specs, model |-> n.model, contents |-> n.contents,
               tools |-> n.tools, auth |-> n.auth, prompt |-> n.prompt,
               fixture |-> n.fixture, asset |-> n.asset, steady |-> n.steady]
       /\ n.specs = q.specs /\ n.contents = contents
  <2> HIDE DEF contents
  <2> QED
    BY <1>2, <1>6 DEF Underway
<1>11. ASSUME NEW k \in 1..Len(q.contents)
       PROVE  /\ IsDirectory(dirs'[RunId(b, q.specs[k])])
              /\ RunId(b, q.specs[k]) \in pristine' =>
                    Accepts(dirs'[RunId(b, q.specs[k])], q.contents[k])
  <2> DEFINE old == RunId(b, q.specs[k])
  <2>1. q.specs[k] \in Specs
    BY <1>5
  <2>2. old \in RunIds
    BY <2>1, RunIsKnown
  <2>3. Made(old, q.contents[k])
    BY <1>2 DEF Underway
  <2>4. dirs[old] # None
    BY <2>3 DEF Made, IsDirectory, NoneIsNew
  <2> HIDE DEF old, run, dir
  <2>5. dirs'[old] = dirs[old] /\ (old \in pristine' => old \in pristine)
    BY <1>1, <1>8, <2>2, <2>4
  <2> QED
    BY <2>3, <2>5 DEF Made, old
<1>12. /\ IsDirectory(dir)
       /\ run \in pristine' => Accepts(dir, id)
  <2>1. IsDirectory(dir)
    BY DEF IsDirectory
  <2>2. ASSUME run \in pristine'
        PROVE  Accepts(dir, id)
    <3>1. q.steady
      BY <1>1, <1>9, <2>2
    <3>2. q.fixture = source["fixture"] /\ q.asset = Asset(spec)
      BY <1>1, <1>2, <3>1 DEF Underway
    <3> QED
      BY <3>2 DEF Accepts
  <2> QED
    BY <2>1, <2>2
<1>13. ASSUME NEW k \in 1..Len(contents)
       PROVE  /\ IsDirectory(dirs'[RunId(b, q.specs[k])])
              /\ RunId(b, q.specs[k]) \in pristine' =>
                    Accepts(dirs'[RunId(b, q.specs[k])], contents[k])
  <2>1. CASE k = Len(q.contents) + 1
    <3>1. RunId(b, q.specs[k]) = run /\ contents[k] = id
      BY <1>5, <1>7, <2>1
    <3> HIDE DEF dir, id, run, contents
    <3> QED
      BY <1>8, <1>12, <3>1
  <2>2. CASE k # Len(q.contents) + 1
    <3> HIDE DEF contents
    <3>1. k \in 1..Len(q.contents)
      BY <1>5, <1>7, <2>2
    <3> QED
      BY <1>7, <1>11, <3>1
  <2> QED
    BY <2>1, <2>2
<1> HIDE DEF contents, dir, id, run
<1>14. \A k \in 1..Len(n.contents) : Made(RunId(b, request[b].specs[k]), request[b].contents[k])'
  BY <1>10, <1>13 DEF Made
<1>15. IF next = "checking" THEN Len(n.contents) = Len(n.specs)
                            ELSE Len(n.contents) < Len(n.specs)
  BY <1>5, <1>7, <1>10
<1>16. Underway(b)'
  BY <1>5, <1>6, <1>7, <1>10, <1>14, <1>15 DEF Underway
<1>17. pristine' \subseteq {r \in RunIds : dirs'[r] # None}
  BY <1>1, <1>2, <1>3, <1>8 DEF DirectoryShapes
<1>18. \A r \in RunIds : r[1] # b =>
          dirs'[r] = dirs[r] /\ (r \in pristine' => r \in pristine)
  BY <1>1, <1>3, <1>8
<1>19. phase[b] # "shown"
  BY <1>1
<1> HIDE DEF p, next
<1> QED
  BY <1>1, <1>16, <1>17, <1>18, <1>19, OthersStay

\* What stays of an estimate that ends in an error is of no plan.
LEMMA AbandonKeepsSteady ==
    ASSUME AllInv, NEW b \in Batches, Abandon(b)
    PROVE  SteadyInv'
<1>1. /\ UNCHANGED <<source, plans, dirs, pristine>> /\ phase[b] # "shown"
      /\ request' = [request EXCEPT ![b] = None]
      /\ phase' = [phase EXCEPT ![b] = "failed"]
  BY DEF Abandon
<1>2. pristine' \subseteq {r \in RunIds : dirs'[r] # None}
  BY <1>1 DEF AllInv, SteadyInv, DirectoryShapes
<1>3. "failed" \notin Active
  BY DEF Active
<1> QED
  BY <1>1, <1>2, <1>3, OthersStay

\* The plan has the contents that were made, run by run.
LEMMA SaveKeepsSteady ==
    ASSUME AllInv, NEW b \in Batches, CheckAndSave(b)
    PROVE  SteadyInv'
<1> DEFINE q == request[b]
           tools == [k \in DOMAIN q.specs |-> Fingerprint(q.specs[k])]
           p == PlanOf(b, [q EXCEPT !.tools = tools, !.auth = <<source["login"], source["subscription"]>>])
<1>1. /\ UNCHANGED <<source, dirs, pristine>> /\ phase[b] = "checking"
      /\ request' = [request EXCEPT ![b] = None]
      /\ phase' = [phase EXCEPT ![b] = "shown"]
      /\ plans' = [plans EXCEPT ![b] = p]
  BY DEF CheckAndSave
<1>2. Underway(b) /\ Shapes /\ DirectoryShapes
  BY <1>1 DEF AllInv, LaunchInv, IntakeInv, SteadyInv, EstimatesInv, Active
<1>3. /\ plans'[b] = p /\ phase'[b] = "shown"
      /\ \A c \in Batches \ {b} : /\ plans'[c] = plans[c] /\ phase'[c] = phase[c]
                                  /\ request'[c] = request[c]
  BY <1>1, <1>2 DEF Shapes, DirectoryShapes
<1>4. /\ p.runs = [k \in DOMAIN q.specs |-> RunId(b, q.specs[k])]
      /\ p.contents = q.contents
  <2> HIDE DEF tools
  <2> QED
    BY <1>2 DEF PlanOf, Underway
<1>5. q.specs \in Seq(Specs) /\ Len(q.contents) = Len(q.specs)
  BY <1>1, <1>2 DEF Underway
<1>6. \A k \in DOMAIN p.runs : /\ p.runs[k] \in RunIds
                               /\ Made(p.runs[k], p.contents[k])
  <2>1. ASSUME NEW k \in DOMAIN p.runs
        PROVE  p.runs[k] \in RunIds /\ Made(p.runs[k], p.contents[k])
    <3> HIDE DEF p
    <3>1. k \in 1..Len(q.contents) /\ q.specs[k] \in Specs /\ p.runs[k] = RunId(b, q.specs[k])
      BY <1>4, <1>5
    <3> QED
      BY <1>2, <1>4, <3>1, RunIsKnown DEF Underway
  <2> QED
    BY <2>1
<1> HIDE DEF p
<1>7. KnownRuns'
  BY <1>3, <1>6 DEF AllInv, SteadyInv, KnownRuns, RunIds, Specs, RunId
<1>8. SteadyIsAccepted'
  <2>1. \A c \in Batches : plans'[c] # None =>
            \A k \in DOMAIN plans'[c].runs : plans'[c].runs[k] \in pristine =>
                Accepts(dirs[plans'[c].runs[k]], plans'[c].contents[k])
    BY <1>3, <1>6 DEF AllInv, SteadyInv, SteadyIsAccepted, Made
  <2> QED
    BY <1>1, <2>1 DEF SteadyIsAccepted
<1>9. EstimatesInv'
  <2>1. ASSUME NEW c \in Batches, phase'[c] \in Active
        PROVE  Underway(c)'
    <3>1. c # b
      BY <1>3, <2>1 DEF Active
    <3>2. Underway(c) /\ phase[c] \in Active /\ phase'[c] = phase[c]
          /\ request'[c] = request[c]
      BY <1>3, <2>1, <3>1 DEF AllInv, SteadyInv, EstimatesInv
    <3> QED
      BY <1>1, <3>2, UnderwayStays DEF Kept, Clean
  <2> QED
    BY <2>1 DEF EstimatesInv
<1>10. DirectoryShapes'
  BY <1>1, <1>2 DEF DirectoryShapes
<1> QED
  BY <1>7, <1>8, <1>9, <1>10 DEF SteadyInv

LEMMA StepSteady ==
    ASSUME NoneIsNew, AllInv, [Next]_vars
    PROVE  SteadyInv'
<1>1. CASE UNCHANGED vars
  <2>1. UNCHANGED <<source, phase, request, plans, dirs, pristine>>
    BY <1>1 DEF vars, estimates
  <2> QED
    BY <2>1, OthersKeepSteady DEF Kept, Clean
<1>2. ASSUME NEW b \in Batches, Estimate(b)
      PROVE  SteadyInv'
  BY <1>2, StartKeepsSteady, ReadKeepsSteady, HashKeepsSteady, MakeKeepsSteady,
     SaveKeepsSteady, AbandonKeepsSteady DEF Estimate
<1>3. CASE \/ ProcessJob \/ (\E r \in RunIds : Retry(r))
           \/ \E b, a \in Batches : Approve(b) \/ Enqueue(b, a)
  BY <1>3, ProcessKeepsSteady
<1>4. ASSUME NEW input \in Inputs, NEW version \in Versions \union {0},
             Edit(input, version)
      PROVE  SteadyInv'
  BY <1>4, EditKeepsSteady
<1>5. ASSUME NEW r \in RunIds, NEW part \in {"prompt", "workdir", "asset"},
             NEW reseal \in BOOLEAN, Tamper(r, part, reseal)
      PROVE  SteadyInv'
  BY <1>5, TamperKeepsSteady
<1> QED
  BY <1>1, <1>2, <1>3, <1>4, <1>5 DEF Next

\* A run whose inputs stood still while its directory was made, and which
\* nobody wrote to since, is accepted by load_run_snapshot: whatever happens to
\* the inputs later, and whatever other batches do meanwhile.
THEOREM SteadyStands ==
    ASSUME NoneIsNew
    PROVE  Spec => []SteadyIsAccepted
<1>1. Init => AllInv
  BY InitLaunch, InitType, InitSteady DEF AllInv
<1>2. AllInv /\ [Next]_vars => AllInv'
  <2>1. ASSUME AllInv, [Next]_vars
        PROVE  AllInv'
    <3>1. LaunchInv /\ IntakeInv /\ IntakeTypeOK
      BY <2>1 DEF AllInv, LaunchInv
    <3>2. LaunchInv' /\ IntakeTypeOK'
      BY <2>1, <3>1, StepLaunch, StepType
    <3> QED
      BY <2>1, <3>2, StepSteady DEF AllInv
  <2> QED
    BY <2>1
<1>3. AllInv => SteadyIsAccepted
  BY DEF AllInv, SteadyInv
<1> QED
  BY <1>1, <1>2, <1>3, PTL DEF Spec
=============================================================================
