------------------------------- MODULE Intake -------------------------------
(***************************************************************************)
(* From an estimate to a launch: create_plan fixes the inputs of a batch   *)
(* run by run, the user confirms the digest of the plan, enqueue turns the *)
(* plan and its approval into rows, and a worker checks what it finds in   *)
(* the run directory and on the machine before it launches.                *)
(*                                                                         *)
(* The inputs are a version number each, 0 when the input is missing: the  *)
(* task prompt, the overlay file, the fixture, the external tool, the      *)
(* login (its method and its provider) and the subscription it is for.     *)
(* Anybody may edit them, and the files of a run directory, at any moment. *)
(* A hash is the value it was computed from.                               *)
(***************************************************************************)
EXTENDS Naturals, Sequences, SequencesExt

CONSTANTS
    Batches,    \* batch ids; each estimate takes a new one
    Declared,   \* the conditions in declaration order: records with the
                \* fields id, repeat, overlay (it adds a prompt_overlay) and
                \* plugin (it needs an external plugin)
    Models,     \* what --model may say
    Versions,   \* versions an edit may leave
    MaxEdits,   \* bound on the edits of inputs and run directories
    None        \* stands for a file or a row that does not exist

ASSUME IntakeAssumption ==
    /\ 0 \notin Versions /\ 1 \in Versions
    /\ MaxEdits \in Nat
    /\ None \notin Batches

VARIABLES
    source,     \* the inputs as they are now
    phase,      \* where the estimate of a batch is
    request,    \* what it was asked for, and what it has read so far
    dirs,       \* the run directories
    plans,      \* plan.json of each batch
    approvals,  \* approval.json of each batch
    rows,       \* the rows of the queue
    consumed,   \* digests that were used to enqueue
    worker,     \* the row in process_job, its step and what it has loaded
    launched,   \* history: what the run under way was launched with
    pristine,   \* history: directories made from inputs that stood still,
                \* and not written to since
    edits       \* number of edits so far

estimates == <<phase, request>>
queue == <<rows, consumed>>
vars == <<source, phase, request, dirs, plans, approvals, rows, consumed,
          worker, launched, pristine, edits>>

Inputs == {"task", "overlay", "fixture", "tool", "login", "subscription"}

----------------------------------------------------------------------------
(* What to run *)

\* One repeat of a condition.
Specs == UNION {{[condition |-> Declared[k], repeat |-> i] :
                    i \in 1..Declared[k].repeat} : k \in DOMAIN Declared}

ConditionIds == {Declared[k].id : k \in DOMAIN Declared}

\* Naming no condition selects all of them.
SelectSubset(include) ==
    IF include = {} THEN Declared
    ELSE SelectSeq(Declared, LAMBDA c : c.id \in include)

RepeatsOf(c) == [i \in 1..c.repeat |-> [condition |-> c, repeat |-> i]]

ExpandRuns(conditions) ==
    FlattenSeq([k \in DOMAIN conditions |-> RepeatsOf(conditions[k])])

\* Whether what the condition needs is installed: split_by_availability.
Available(spec, tool) == spec.condition.plugin => tool # 0

\* The runs of an estimate: inspect and split_by_availability.
Selected(include, skipUnavailable, tool) ==
    LET asked == ExpandRuns(SelectSubset(include))
    IN IF skipUnavailable THEN SelectSeq(asked, LAMBDA spec : Available(spec, tool))
                          ELSE asked

\* What is selected are repeats of declared conditions.
ASSUME SelectionAssumption ==
    \A include \in SUBSET ConditionIds, skipUnavailable \in BOOLEAN :
        \A tool \in Versions \union {0} :
            Selected(include, skipUnavailable, tool) \in Seq(Specs)

\* Whether preflight finds no problem, with the files of the given version.
PreflightOK(spec, overlay) ==
    /\ source["login"] # 0
    /\ spec.condition.overlay => overlay # 0
    /\ Available(spec, source["tool"])

Fingerprint(spec) == IF spec.condition.plugin THEN source["tool"] ELSE 0

\* The prompt is the task with the overlay appended; 0 for no overlay.
FinalPrompt(spec) ==
    <<source["task"], IF spec.condition.overlay THEN source["overlay"] ELSE 0>>

Asset(spec) == IF spec.condition.overlay THEN source["overlay"] ELSE 0

ContentId(spec, prompt, fixture, asset) ==
    [spec |-> spec, prompt |-> prompt, fixture |-> fixture, asset |-> asset]

RunId(b, spec) == <<b, spec.condition.id, spec.repeat>>

RunIds == {RunId(b, spec) : b \in Batches, spec \in Specs}

\* Bug: the snapshot is trusted as far as it agrees with itself.
AcceptsWhatAgrees(dir, expected) ==
    /\ dir.asset = dir.doc.asset
    /\ dir.doc.id =
        ContentId(dir.doc.spec, dir.prompt, dir.workdir, dir.doc.asset)

\* load_run_snapshot accepts the directory as the content that was queued.
Accepts(dir, expected) ==
    /\ dir.asset = dir.doc.asset
    /\ LET actual ==
            ContentId(dir.doc.spec, dir.prompt, dir.workdir, dir.doc.asset)
       IN actual = dir.doc.id /\ actual = expected

Isolation(specs) ==
    IF \E k \in DOMAIN specs : specs[k].condition.plugin
    THEN "project-settings" ELSE "safe-mode"

\* What the digest of a plan is computed from: it leaves out the batch and the
\* subscription.
Digest(q) ==
    [contents |-> q.contents, login |-> q.auth[1],
     isolation |-> Isolation(q.specs), model |-> q.model, tools |-> q.tools]

PlanOf(b, q) ==
    [batch |-> b, runs |-> [k \in DOMAIN q.specs |-> RunId(b, q.specs[k])],
     contents |-> q.contents, tools |-> q.tools, auth |-> q.auth,
     isolation |-> Isolation(q.specs), model |-> q.model, digest |-> Digest(q)]

\* The row of the k-th run of a plan.
RowOf(p, k) ==
    [status |-> "queued", digest |-> p.digest, content |-> p.contents[k],
     tool |-> p.tools[k], isolation |-> p.isolation, model |-> p.model]

RowsWith(d) == {r \in RunIds : rows[r] # None /\ rows[r].digest = d}

----------------------------------------------------------------------------
Init ==
    /\ source = [i \in Inputs |-> 1]
    /\ phase = [b \in Batches |-> "new"]
    /\ request = [b \in Batches |-> None]
    /\ dirs = [r \in RunIds |-> None]
    /\ plans = [b \in Batches |-> None]
    /\ approvals = [b \in Batches |-> None]
    /\ rows = [r \in RunIds |-> None]
    /\ consumed = {}
    /\ worker = [job |-> None, step |-> "idle", spec |-> None, late |-> FALSE]
    /\ launched = None
    /\ pristine = {}
    /\ edits = 0

----------------------------------------------------------------------------
(* create_plan *)

\* Nothing is estimated when no run is left.
StartEstimate(b, include, skipUnavailable, model) ==
    /\ phase[b] = "new"
    /\ LET specs == Selected(include, skipUnavailable, source["tool"])
       IN /\ specs # <<>>
          /\ request' = [request EXCEPT ![b] =
                [specs |-> specs, model |-> model, contents |-> <<>>,
                 tools |-> <<>>, auth |-> None, prompt |-> None,
                 fixture |-> 0, asset |-> 0, steady |-> TRUE]]
    /\ phase' = [phase EXCEPT ![b] = "reading"]
    /\ UNCHANGED <<source, dirs, plans, approvals, queue, worker, launched,
                   pristine, edits>>

Preparing(b) == request[b].specs[Len(request[b].contents) + 1]

\* prepare_run reads the prompt, the overlays and the hash of the fixture.
ReadInputs(b) ==
    /\ phase[b] = "reading"
    /\ source["task"] # 0 /\ source["fixture"] # 0
    /\ Preparing(b).condition.overlay => source["overlay"] # 0
    /\ request' = [request EXCEPT
            ![b].prompt = FinalPrompt(Preparing(b)),
            ![b].fixture = source["fixture"],
            ![b].steady = TRUE]
    /\ phase' = [phase EXCEPT ![b] = "hashing"]
    /\ UNCHANGED <<source, dirs, plans, approvals, queue, worker, launched,
                   pristine, edits>>

\* The assets are hashed after that, and the content_id is computed.
HashAssets(b) ==
    /\ phase[b] = "hashing"
    /\ dirs[RunId(b, Preparing(b))] = None
    /\ Preparing(b).condition.overlay => source["overlay"] # 0
    /\ request' = [request EXCEPT ![b].asset = Asset(Preparing(b))]
    /\ phase' = [phase EXCEPT ![b] = "copying"]
    /\ UNCHANGED <<source, dirs, plans, approvals, queue, worker, launched,
                   pristine, edits>>

\* Bug: prompt.md gets the task alone.
PromptOfTask(q) == <<q.prompt[1], 0>>

PromptFile(q) == q.prompt

\* The directory is made last: fixture and assets are copied as they are now.
MakeDirectory(b) ==
    LET q == request[b]
        spec == Preparing(b)
        id == ContentId(spec, q.prompt, q.fixture, q.asset)
        run == RunId(b, spec)
        contents == Append(q.contents, id)
    IN /\ phase[b] = "copying"
       /\ source["fixture"] # 0
       /\ spec.condition.overlay => source["overlay"] # 0
       /\ dirs' = [dirs EXCEPT ![run] =
            [prompt |-> PromptFile(q), workdir |-> source["fixture"],
             asset |-> Asset(spec),
             doc |-> [spec |-> spec, asset |-> q.asset, id |-> id]]]
       /\ pristine' = IF q.steady THEN pristine \union {run} ELSE pristine
       /\ request' = [request EXCEPT ![b].contents = contents]
       /\ phase' = [phase EXCEPT ![b] =
            IF Len(contents) = Len(q.specs) THEN "checking" ELSE "reading"]
       /\ UNCHANGED <<source, plans, approvals, queue, worker, launched,
                      edits>>

\* preflight.check of every run against the repository, build_estimate, and
\* the plan is saved and shown.
CheckAndSave(b) ==
    LET specs == request[b].specs
        checked == [request[b] EXCEPT
            !.tools = [k \in DOMAIN specs |-> Fingerprint(specs[k])],
            !.auth = <<source["login"], source["subscription"]>>]
    IN /\ phase[b] = "checking"
       /\ \A k \in DOMAIN specs : PreflightOK(specs[k], source["overlay"])
       /\ plans' = [plans EXCEPT ![b] = PlanOf(b, checked)]
       /\ phase' = [phase EXCEPT ![b] = "shown"]
       /\ request' = [request EXCEPT ![b] = None]
       /\ UNCHANGED <<source, dirs, approvals, queue, worker, launched,
                      pristine, edits>>

\* Any error, or the end of the process: what was made stays on disk.
Abandon(b) ==
    /\ phase[b] \in {"reading", "hashing", "copying", "checking"}
    /\ phase' = [phase EXCEPT ![b] = "failed"]
    /\ request' = [request EXCEPT ![b] = None]
    /\ UNCHANGED <<source, dirs, plans, approvals, queue, worker, launched,
                   pristine, edits>>

----------------------------------------------------------------------------
(* approve_plan_file and enqueue *)

\* The user confirms the digest of the plan file; the record keeps the plan.
Approve(b) ==
    /\ plans[b] # None
    /\ approvals' = [approvals EXCEPT ![b] =
            [digest |-> plans[b].digest, plan |-> plans[b]]]
    /\ UNCHANGED <<source, estimates, dirs, plans, queue, worker, launched,
                   pristine, edits>>

\* Bug: the digests agree, so the plans are taken to be the same.
ForDigest(approval, plan) == approval.digest = plan.digest

IsFor(approval, plan) ==
    /\ approval.digest = plan.digest
    /\ approval.plan = plan

\* enqueue of the plan of b with the approval of a; a digest that was used
\* gives the rows it has.
Enqueue(b, a) ==
    LET p == plans[b]
    IN /\ p # None /\ approvals[a] # None
       /\ IsFor(approvals[a], p)
       /\ RowsWith(p.digest) = {}
       /\ p.digest \notin consumed
       /\ consumed' = consumed \union {p.digest}
       /\ rows' = [r \in RunIds |->
            IF \E k \in DOMAIN p.runs : p.runs[k] = r
            THEN RowOf(p, CHOOSE k \in DOMAIN p.runs : p.runs[k] = r)
            ELSE rows[r]]
       /\ UNCHANGED <<source, estimates, dirs, plans, approvals, worker,
                      launched, pristine, edits>>

----------------------------------------------------------------------------
(* process_job *)

Idle == [job |-> None, step |-> "idle", spec |-> None, late |-> FALSE]

\* Bug: the worker keeps the job it has ended.
EndAndKeep(status) ==
    /\ rows' = [rows EXCEPT ![worker.job].status = status]
    /\ worker' = [worker EXCEPT !.step = "idle"]
    /\ launched' = None

EndAs(status) ==
    /\ rows' = [rows EXCEPT ![worker.job].status = status]
    /\ worker' = Idle
    /\ launched' = None

Claim(r) ==
    /\ worker.step = "idle"
    /\ rows[r] # None /\ rows[r].status = "queued"
    /\ rows' = [rows EXCEPT ![r].status = "running"]
    /\ worker' = [Idle EXCEPT !.job = r, !.step = "claimed"]
    /\ UNCHANGED <<source, estimates, dirs, plans, approvals, consumed,
                   launched, pristine, edits>>

Load ==
    LET r == worker.job
    IN /\ worker.step = "claimed"
       /\ IF dirs[r] # None /\ Accepts(dirs[r], rows[r].content)
          THEN /\ worker' = [worker EXCEPT !.step = "loaded",
                                           !.spec = dirs[r].doc.spec]
               /\ UNCHANGED <<rows, launched>>
          ELSE EndAs("config-error")
       /\ UNCHANGED <<source, estimates, dirs, plans, approvals, consumed,
                      pristine, edits>>

ToolsAsApproved(row, spec) == Fingerprint(spec) = row.tool

\* preflight.check with the files of the run directory, and the comparison
\* of the fingerprints.
Preflight ==
    LET r == worker.job
    IN /\ worker.step = "loaded"
       /\ IF /\ PreflightOK(worker.spec, dirs[r].asset)
             /\ ToolsAsApproved(rows[r], worker.spec)
          THEN /\ worker' = [worker EXCEPT !.step = "checked"]
               /\ UNCHANGED <<rows, launched>>
          ELSE EndAs("blocked")
       /\ UNCHANGED <<source, estimates, dirs, plans, approvals, consumed,
                      pristine, edits>>

\* run_once: prompt.md is read once more, the rest is used where it lies.
Launch ==
    LET r == worker.job
    IN /\ worker.step = "checked"
       /\ launched' =
            [content |-> ContentId(worker.spec, dirs[r].prompt,
                                   dirs[r].workdir, dirs[r].asset),
             tool |-> Fingerprint(worker.spec),
             isolation |-> rows[r].isolation, model |-> rows[r].model]
       /\ worker' = [worker EXCEPT !.step = "launched"]
       /\ UNCHANGED <<source, estimates, dirs, plans, approvals, queue,
                      pristine, edits>>

\* The run ends; the agent may have written to its workdir.
End(status, changed) ==
    LET r == worker.job
    IN /\ worker.step = "launched"
       /\ EndAs(status)
       /\ IF changed
          THEN /\ dirs' = [dirs EXCEPT ![r].workdir = None]
               /\ pristine' = pristine \ {r}
          ELSE UNCHANGED <<dirs, pristine>>
       /\ UNCHANGED <<source, estimates, plans, approvals, consumed, edits>>

\* retry_job, and requeue_job after a usage limit.
Retry(r) ==
    /\ rows[r] # None
    /\ rows[r].status \in {"failed", "blocked", "config-error"}
    /\ rows' = [rows EXCEPT ![r].status = "queued"]
    /\ UNCHANGED <<source, estimates, dirs, plans, approvals, consumed, worker,
                   launched, pristine, edits>>

----------------------------------------------------------------------------
(* Edits *)

\* Somebody edits or removes an input.
Edit(input, version) ==
    /\ edits < MaxEdits
    /\ version # source[input]
    /\ source' = [source EXCEPT ![input] = version]
    /\ request' = [b \in Batches |->
            IF phase[b] \in {"hashing", "copying"}
            THEN [request[b] EXCEPT !.steady = FALSE] ELSE request[b]]
    /\ worker' = [worker EXCEPT !.late =
            @ \/ (worker.step = "checked" /\ input = "tool")]
    /\ edits' = edits + 1
    /\ UNCHANGED <<phase, dirs, plans, approvals, queue, launched, pristine>>

\* The directory with one part changed.
Changed(dir, part) ==
    CASE part = "prompt"  -> [dir EXCEPT !.prompt = None]
      [] part = "workdir" -> [dir EXCEPT !.workdir = None]
      [] part = "asset"   -> [dir EXCEPT !.asset = None]

\* snapshot.json computed anew from what the directory holds.
Resealed(dir) ==
    [dir EXCEPT !.doc.asset = dir.asset,
                !.doc.id = ContentId(dir.doc.spec, dir.prompt, dir.workdir,
                                     dir.asset)]

\* Somebody writes to a run directory (of an estimate that did not fail: the
\* others are not read any more); late says that the worker has checked
\* it already and not launched yet.
Tamper(r, part, reseal) ==
    /\ edits < MaxEdits
    /\ dirs[r] # None /\ phase[r[1]] # "failed"
    /\ dirs' = [dirs EXCEPT ![r] =
            IF reseal THEN Resealed(Changed(@, part)) ELSE Changed(@, part)]
    /\ pristine' = pristine \ {r}
    /\ worker' = [worker EXCEPT !.late =
            @ \/ (r = worker.job /\ worker.step \in {"loaded", "checked"})]
    /\ edits' = edits + 1
    /\ UNCHANGED <<source, estimates, plans, approvals, queue, launched>>

----------------------------------------------------------------------------
Estimate(b) ==
    \/ \E include \in SUBSET ConditionIds :
          \E skipUnavailable \in BOOLEAN, model \in Models :
             StartEstimate(b, include, skipUnavailable, model)
    \/ ReadInputs(b)
    \/ HashAssets(b)
    \/ MakeDirectory(b)
    \/ CheckAndSave(b)
    \/ Abandon(b)

ProcessJob ==
    \/ \E r \in RunIds : Claim(r)
    \/ Load
    \/ Preflight
    \/ Launch
    \/ \E status \in {"succeeded", "failed"} :
          \E changed \in BOOLEAN : End(status, changed)

Next ==
    \/ \E b \in Batches : Estimate(b)
    \/ \E b \in Batches : Approve(b)
    \/ \E b, a \in Batches : Enqueue(b, a)
    \/ ProcessJob
    \/ \E r \in RunIds : Retry(r)
    \/ \E input \in Inputs, version \in Versions \union {0} :
          Edit(input, version)
    \/ \E r \in RunIds, part \in {"prompt", "workdir", "asset"} :
          \E reseal \in BOOLEAN : Tamper(r, part, reseal)

Spec == Init /\ [][Next]_vars

----------------------------------------------------------------------------
(* Properties *)

\* The shapes of the files, of the rows and of the worker's state.
IntakeTypeOK ==
    /\ source \in [Inputs -> Versions \union {0}]
    /\ phase \in [Batches -> {"new", "reading", "hashing", "copying",
                              "checking", "shown", "failed"}]
    /\ \A b \in Batches :
          /\ plans[b] = None <=> phase[b] # "shown"
          /\ approvals[b] # None => plans[b] # None
    /\ \A r \in RunIds : rows[r] # None =>
          rows[r].status \in {"queued", "running", "succeeded", "failed",
                              "blocked", "config-error"}
    /\ worker.step \in {"idle", "claimed", "loaded", "checked", "launched"}
    /\ worker.step = "idle" <=> worker.job = None
    /\ launched # None <=> worker.step = "launched"
    /\ edits \in 0..MaxEdits

\* A row belongs to a run of a plan of which the user approved this very
\* batch: a plan with the same digest does not do (enqueue compares both).
EnqueuedWasApproved ==
    \A r \in RunIds : rows[r] # None =>
        \E b \in Batches :
            /\ approvals[b] # None
            /\ \E k \in DOMAIN approvals[b].plan.runs :
                  /\ approvals[b].plan.runs[k] = r
                  /\ rows[r] = [RowOf(approvals[b].plan, k)
                                    EXCEPT !.status = rows[r].status]

\* What is launched is what was approved, up to a change after the worker's
\* last look: prompt, fixture, assets, condition, tool, isolation and model.
LaunchedAsApproved ==
    launched # None /\ ~worker.late =>
        \E b \in Batches :
            /\ approvals[b] # None
            /\ LET p == approvals[b].plan
               IN \E k \in DOMAIN p.runs :
                     /\ p.runs[k] = worker.job
                     /\ launched = [content |-> p.contents[k],
                                    tool |-> p.tools[k],
                                    isolation |-> p.isolation,
                                    model |-> p.model]

\* A run whose inputs stood still while its directory was made, and which
\* nobody wrote to since, is accepted by load_run_snapshot, whatever happened
\* to the inputs since.
SteadyIsAccepted ==
    \A b \in Batches : plans[b] # None =>
        \A k \in DOMAIN plans[b].runs : plans[b].runs[k] \in pristine =>
            Accepts(dirs[plans[b].runs[k]], plans[b].contents[k])
=============================================================================
