------------------------------ MODULE JobStore ------------------------------
(***************************************************************************)
(* The SQLite state store, token_bench/job_store.py: the table `jobs` and   *)
(* the table `consumed_approvals`.  Every operation of the module runs in   *)
(* one BEGIN IMMEDIATE transaction, so every action below is one step.      *)
(* An operation that raises JobStoreError rolls back and changes nothing:   *)
(* its refusal is the action not being enabled.                             *)
(*                                                                         *)
(* A run id belongs to one plan (run ids carry the batch id).  Two plans    *)
(* may have the same digest: the digest leaves batch_id out.                *)
(***************************************************************************)
EXTENDS Naturals, Sequences

CONSTANTS Runs,      (* run ids                                             *)
          Plans,     (* estimated plans, one per batch                      *)
          Digests,   (* values of plan.digest                               *)
          PlanRuns,  (* plan.runs: the runs of a plan, in plan order        *)
          DigestOf   (* plan.digest                                         *)

\* The run ids a plan lists.
RunsOf(p) == {PlanRuns[p][i] : i \in DOMAIN PlanRuns[p]}

ASSUME PlansAssumption ==
    /\ PlanRuns \in [Plans -> Seq(Runs)]
    /\ DigestOf \in [Plans -> Digests]
    /\ \A p \in Plans : \A i, j \in DOMAIN PlanRuns[p] :
           PlanRuns[p][i] = PlanRuns[p][j] => i = j
    /\ \A p, q \in Plans : p # q => RunsOf(p) \cap RunsOf(q) = {}
    /\ \A r \in Runs : \E p \in Plans : r \in RunsOf(p)

VARIABLES status,    (* the status column of a row, "absent" without a row  *)
          sequence,  (* the AUTOINCREMENT key of a row, 0 without a row     *)
          outcome,   (* does the row carry the end of an attempt:           *)
                     (* finished_at, returncode, duration and log paths     *)
          consumed,  (* the digests in consumed_approvals                   *)
          lastSeq    (* the AUTOINCREMENT counter                           *)

storeVars == <<status, sequence, outcome, consumed, lastSeq>>

(* What finish_job is called with. *)
FinalStatus == {"succeeded", "failed", "timeout", "cancelled",
                "blocked", "config-error", "worker-error"}

RowStatus == {"queued", "running"} \cup FinalStatus

Present(r) == status[r] # "absent"

(* The rows `SELECT * FROM jobs WHERE digest = ?` returns. *)
JobsForDigest(d) == {r \in Runs : /\ Present(r)
                                  /\ \E p \in Plans : /\ r \in RunsOf(p)
                                                      /\ DigestOf[p] = d}

Approvals == [digest : Digests, plan : Plans]

StoreTypeOK ==
    /\ status \in [Runs -> RowStatus \cup {"absent"}]
    /\ sequence \in [Runs -> Nat]
    /\ outcome \in [Runs -> BOOLEAN]
    /\ consumed \subseteq Digests
    /\ lastSeq \in Nat

StoreInit ==
    /\ status = [r \in Runs |-> "absent"]
    /\ sequence = [r \in Runs |-> 0]
    /\ outcome = [r \in Runs |-> FALSE]
    /\ consumed = {}
    /\ lastSeq = 0

-----------------------------------------------------------------------------
(* Bug: the rows of a batch get one key.                                    *)
SamePosition(p, r) == 1

(* The place of a run in its plan. *)
Position(p, r) == CHOOSE i \in DOMAIN PlanRuns[p] : PlanRuns[p][i] = r

(* Bug: only the rows are looked at, not consumed_approvals.                *)
NoRows(d) == JobsForDigest(d) = {}

(* An approval that was used before changes nothing: its rows are returned, *)
(* or the call is refused when they are gone.                               *)
Unused(d) == JobsForDigest(d) = {} /\ d \notin consumed

(* enqueue of a plan under an approval of exactly this plan.                *)
Enqueue(p, a) ==
    /\ a.digest = DigestOf[p]
    /\ a.plan = p
    /\ Unused(DigestOf[p])
    /\ consumed' = consumed \cup {DigestOf[p]}
    /\ status' = [r \in Runs |-> IF r \in RunsOf(p) THEN "queued" ELSE status[r]]
    /\ sequence' = [r \in Runs |-> IF r \in RunsOf(p)
                                     THEN lastSeq + Position(p, r)
                                     ELSE sequence[r]]
    /\ lastSeq' = lastSeq + Len(PlanRuns[p])
    /\ UNCHANGED outcome

Queued == {r \in Runs : status[r] = "queued"}

(* claim_next_queued: the queued row with the lowest sequence. *)
ClaimNextQueued(r) ==
    /\ r \in Queued
    /\ \A s \in Queued : sequence[r] <= sequence[s]
    /\ status' = [status EXCEPT ![r] = "running"]
    /\ UNCHANGED <<sequence, outcome, consumed, lastSeq>>

FinishJob(r, final) ==
    /\ status[r] = "running"
    /\ status' = [status EXCEPT ![r] = final]
    /\ outcome' = [outcome EXCEPT ![r] = TRUE]
    /\ UNCHANGED <<sequence, consumed, lastSeq>>

DeleteJob(r) ==
    /\ Present(r)
    /\ status[r] # "running"
    /\ status' = [status EXCEPT ![r] = "absent"]
    /\ sequence' = [sequence EXCEPT ![r] = 0]
    /\ outcome' = [outcome EXCEPT ![r] = FALSE]
    /\ UNCHANGED <<consumed, lastSeq>>

(* Bugs: a running, or a succeeded row may be retried.                      *)
NotRetryableNorRunning == {"queued", "succeeded"}
NotRetryableUntilDone == {"queued", "running"}

NotRetryable == {"queued", "running", "succeeded"}

(* Bug: the columns of the previous attempt stay.                           *)
RetryJobAsIs(r) ==
    /\ Present(r)
    /\ status[r] \notin NotRetryable
    /\ status' = [status EXCEPT ![r] = "queued"]
    /\ UNCHANGED <<sequence, outcome, consumed, lastSeq>>

RetryJob(r) ==
    /\ Present(r)
    /\ status[r] \notin NotRetryable
    /\ status' = [status EXCEPT ![r] = "queued"]
    /\ outcome' = [outcome EXCEPT ![r] = FALSE]
    /\ UNCHANGED <<sequence, consumed, lastSeq>>

(* Bug: the row gets the status that process_job returns.                   *)
RequeueJobAsReturned(r) ==
    /\ status[r] = "running"
    /\ status' = [status EXCEPT ![r] = "rate-limited"]
    /\ UNCHANGED <<sequence, outcome, consumed, lastSeq>>

RequeueJob(r) ==
    /\ status[r] = "running"
    /\ status' = [status EXCEPT ![r] = "queued"]
    /\ UNCHANGED <<sequence, outcome, consumed, lastSeq>>

(* Bug: the recovery at the start of a worker is left out.                  *)
RequeueNothing == UNCHANGED storeVars

RequeueOrphanedRunning ==
    /\ status' = [r \in Runs |-> IF status[r] = "running" THEN "queued" ELSE status[r]]
    /\ UNCHANGED <<sequence, outcome, consumed, lastSeq>>

StoreNext ==
    \/ \E p \in Plans, a \in Approvals : Enqueue(p, a)
    \/ \E r \in Runs, final \in FinalStatus : FinishJob(r, final)
    \/ \E r \in Runs : \/ ClaimNextQueued(r)
                       \/ DeleteJob(r)
                       \/ RetryJob(r)
                       \/ RequeueJob(r)
    \/ RequeueOrphanedRunning

(* Any client may call any operation whenever it is not refused. *)
StoreSpec == StoreInit /\ [][StoreNext]_storeVars

-----------------------------------------------------------------------------
(* A row carries the end of an attempt exactly when it is in a final        *)
(* status: retry_job wipes the previous attempt, so that the web never      *)
(* shows its numbers as those of the attempt that is queued or running.     *)
OutcomeMatchesStatus ==
    \A r \in Runs : outcome[r] <=> status[r] \in FinalStatus

(* Rows have distinct keys and the rows of a batch keep the order of the    *)
(* plan, whatever was retried or deleted in between: claim_next_queued's    *)
(* ORDER BY sequence runs a batch in plan order.                            *)
RowsKeepPlanOrder ==
    /\ \A r, s \in Runs : Present(r) /\ Present(s) /\ sequence[r] = sequence[s]
                              => r = s
    /\ \A p \in Plans : \A i, j \in DOMAIN PlanRuns[p] :
           LET r == PlanRuns[p][i]
               s == PlanRuns[p][j]
           IN  i < j /\ Present(r) /\ Present(s) => sequence[r] < sequence[s]

(* A measured success is final: no operation puts a succeeded row back in   *)
(* the queue or changes its verdict; it can only be deleted.                *)
SucceededIsFinal ==
    [][\A r \in Runs : status[r] = "succeeded" =>
                           status'[r] \in {"succeeded", "absent"}]_storeVars

StaysDeleted(r) == [](Present(r) => [](~Present(r) => []~Present(r)))

(* A deleted run never comes back: resubmitting its approval (enqueue is    *)
(* documented as safe to repeat) does not create its rows again.            *)
DeletedStaysDeleted == \A r \in Runs : StaysDeleted(r)

HasRows(p) == \E r \in RunsOf(p) : Present(r)

OthersEmpty(p) ==
    \A q \in Plans \ {p} : DigestOf[q] = DigestOf[p] => ~HasRows(q)

OnlyBatch(p) == [](HasRows(p) => []OthersEmpty(p))

(* One approval, one batch: once a plan has rows, no other plan with the    *)
(* same digest ever gets rows, even after the first plan's were deleted.    *)
OneBatchPerApproval == \A p \in Plans : OnlyBatch(p)
=============================================================================
