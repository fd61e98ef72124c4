----------------------------- MODULE Publication -----------------------------
(***************************************************************************)
(* Which attempt a published row is about: process_job from the launch of   *)
(* claude to the end (job_runner.py), over the rows of JobStore, next to    *)
(* sync_published (ledger.py), called by the worker after a success and by  *)
(* the commands publish and collect.                                        *)
(*                                                                         *)
(* All attempts of a run share its id, its log and its result.json.  In the *)
(* published tables an attempt has the key run, run#2, run#3...             *)
(* That the files of a synchronisation change at once is PublishTxn's       *)
(* subject; here a synchronisation reads in steps and commits in one.       *)
(***************************************************************************)
EXTENDS JobStore, FiniteSets

CONSTANTS MaxAttempts,  (* bound: how often a run's log may be opened       *)
          NoRun

ASSUME PublicationAssumption ==
    /\ MaxAttempts \in Nat
    /\ NoRun \notin Runs

VARIABLES phase,    (* of the worker                                        *)
          job,      (* the row the worker processes, or NoRun               *)
          ended,    (* per run, how each of its attempts ended, "open" for  *)
                    (* one that has not; its length is the attempt that     *)
                    (* last opened the log                                  *)
          saved,    (* the attempt whose result.json is there, 0 for none   *)
          costless, (* the runs whose result.json has no cost               *)
          results,  (* the rows of token-bench-results.csv                  *)
          summary,  (* the rows of run-summary.csv                          *)
          syncing,  (* who synchronises: "nobody", "worker" or "command"    *)
          listed,   (* its jobs: the status list_jobs saw                   *)
          collected,(* has it collected the rows for the summary?            *)
          built,    (* those rows                                           *)
          disturbed (* history: the runs that were listed while their log   *)
                    (* and their result.json were of different attempts, or *)
                    (* that may yet be, for a worker ended in between       *)

pubVars == <<phase, job, ended, saved, costless, results, summary, syncing,
             listed, collected, built, disturbed>>
vars == <<storeVars, pubVars>>

Publishable == {"succeeded", "failed", "timeout"}

(* outcome.status of run_once. *)
Verdicts == {"succeeded", "failed", "timeout", "cancelled"}

Attempt(r) == Len(ended[r])

NoneListed == [r \in Runs |-> "absent"]

Init ==
    /\ StoreInit
    /\ phase = "idle"
    /\ job = NoRun
    /\ ended = [r \in Runs |-> <<>>]
    /\ saved = [r \in Runs |-> 0]
    /\ costless = {}
    /\ results = {}
    /\ summary = {}
    /\ syncing = "nobody"
    /\ listed = NoneListed
    /\ collected = FALSE
    /\ built = {}
    /\ disturbed = {}

-----------------------------------------------------------------------------
(* The worker *)

SyncVars == <<syncing, listed, collected, built>>
Tables == <<results, summary>>
Files == <<saved, costless, results, summary>>

Free == phase' = "idle" /\ job' = NoRun

(* .publish.lock is released, and what was staged is gone.                  *)
EndSync ==
    /\ syncing' = "nobody"
    /\ listed' = NoneListed
    /\ collected' = FALSE
    /\ built' = {}

Claim ==
    /\ phase = "idle"
    /\ \E r \in Runs : ClaimNextQueued(r) /\ job' = r
    /\ phase' = "preparing"
    /\ UNCHANGED <<ended, Files, SyncVars, disturbed>>

(* _end_without_run before run_once: nothing is launched, and no file       *)
(* changes.                                                                 *)
EndWithoutRun ==
    /\ phase = "preparing"
    /\ \E final \in {"blocked", "config-error", "worker-error"} : FinishJob(job, final)
    /\ Free
    /\ UNCHANGED <<ended, Files, SyncVars, disturbed>>

(* run_once opens the log for writing, whatever an earlier attempt left and *)
(* whoever is about to read it for a row it listed.                         *)
OpensLog(start) ==
    /\ phase = "preparing"
    /\ Attempt(job) < MaxAttempts
    /\ ended' = [ended EXCEPT ![job] = Append(@, start)]
    /\ disturbed' = disturbed \cup {r \in {job} : listed[r] \in Publishable}

Launch ==
    /\ OpensLog("open")
    /\ phase' = "running"
    /\ UNCHANGED <<storeVars, job, Files, SyncVars>>

(* claude cannot be started: the log is empty by now, result.json is not.   *)
FailToStart ==
    /\ OpensLog("unlaunched")
    /\ FinishJob(job, "worker-error")
    /\ Free
    /\ UNCHANGED <<Files, SyncVars>>

EndsAs(verdict) == ended' = [ended EXCEPT ![job][Attempt(job)] = verdict]

(* A usage limit: the row goes back, and process_job returns.               *)
UsageLimit ==
    /\ phase = "running"
    /\ RequeueJob(job)
    /\ EndsAs("failed")
    /\ Free
    /\ UNCHANGED <<Files, SyncVars, disturbed>>

(* finish_job: a failed run may be recorded as blocked.                     *)
Finish ==
    /\ phase = "running"
    /\ \E verdict \in Verdicts :
        /\ EndsAs(verdict)
        /\ \/ FinishJob(job, verdict)
           \/ verdict = "failed" /\ FinishJob(job, "blocked")
    /\ phase' = "evaluating"
    /\ UNCHANGED <<job, Files, SyncVars, disturbed>>

Verdict == ended[job][Attempt(job)]

(* The cost of claude's result event, which may be missing.                 *)
CostIsSaved == costless' \in {costless \cup {job}, costless \ {job}}

(* Bug: a timeout leaves no result.json.                                    *)
SaveUnlessTimeout ==
    /\ phase = "evaluating"
    /\ saved' = IF Verdict # "timeout" THEN [saved EXCEPT ![job] = Attempt(job)] ELSE saved
    /\ CostIsSaved
    /\ IF Verdict = "succeeded" THEN phase' = "publishing" /\ UNCHANGED job ELSE Free
    /\ UNCHANGED <<storeVars, ended, Tables, SyncVars, disturbed>>

(* Bug: a result.json that is there stays.                                  *)
SaveFirst ==
    /\ phase = "evaluating"
    /\ saved' = IF saved[job] = 0 THEN [saved EXCEPT ![job] = Attempt(job)] ELSE saved
    /\ CostIsSaved
    /\ IF Verdict = "succeeded" THEN phase' = "publishing" /\ UNCHANGED job ELSE Free
    /\ UNCHANGED <<storeVars, ended, Tables, SyncVars, disturbed>>

(* After the evaluation, the result is saved, and a success is published.   *)
Save ==
    /\ phase = "evaluating"
    /\ saved' = [saved EXCEPT ![job] = Attempt(job)]
    /\ CostIsSaved
    /\ IF Verdict = "succeeded" THEN phase' = "publishing" /\ UNCHANGED job ELSE Free
    /\ UNCHANGED <<storeVars, ended, Tables, SyncVars, disturbed>>

(* The worker dies or its evaluation raises, and the next worker recovers.  *)
Interrupt ==
    /\ phase # "idle"
    /\ RequeueOrphanedRunning
    /\ Free
    /\ IF syncing = "worker" THEN EndSync ELSE UNCHANGED SyncVars
    /\ disturbed' = disturbed \cup {r \in {job} : phase = "evaluating"}
    /\ UNCHANGED <<ended, Files>>

-----------------------------------------------------------------------------
(* sync_published *)

Key(row) == <<row.run, row.n>>

Pairs(table) == {<<row.run, row.status>> : row \in table}

(* attempt_run_id: the first of run, run#2, run#3... that is not taken.     *)
FreshNumber(r) ==
    LET taken == {row.n : row \in {q \in results \cup summary : q.run = r}}
    IN  CHOOSE n \in 1..(Cardinality(taken) + 1) :
            n \notin taken /\ \A m \in 1..(n - 1) : m \in taken

(* Bug: every attempt has the run id for its key.                           *)
RunIdOnly(r, status_) == 1

(* Bug: what a table already calls the attempt is not looked up.            *)
FreshEachTime(r, status_) == FreshNumber(r)

(* _attempt_keys: what either table already calls this attempt, or a fresh  *)
(* key.                                                                     *)
NumberFor(r, status_) ==
    LET known == {row.n : row \in {q \in results \cup summary :
                                       q.run = r /\ q.status = status_}}
    IN  IF known = {} THEN FreshNumber(r) ELSE CHOOSE n \in known : TRUE

(* What _attempt_keys raises for: an attempt with two keys.                 *)
TwoKeys ==
    \E p, q \in results \cup summary :
        p.run = q.run /\ p.status = q.status /\ p.n # q.n

(* The synchronisation takes .publish.lock, lists the jobs and assigns the  *)
(* keys; with contradictory keys it raises.                                 *)
Begin(who) ==
    /\ syncing = "nobody"
    /\ ~TwoKeys
    /\ syncing' = who
    /\ listed' = status
    /\ UNCHANGED <<storeVars, phase, job, ended, Files, collected, built>>

WorkerBegins == phase = "publishing" /\ Begin("worker") /\ UNCHANGED disturbed

(* It may list a row as finished whose result.json is still to be saved.    *)
CommandBegins ==
    /\ Begin("command")
    /\ disturbed' = disturbed \cup {r \in {job} : phase = "evaluating"}

(* The worker finds the lock taken, or the keys contradictory: its call     *)
(* raises, after the row was finished.                                      *)
WorkerRefused ==
    /\ phase = "publishing"
    /\ syncing = "command" \/ (syncing = "nobody" /\ TwoKeys)
    /\ Free
    /\ UNCHANGED <<storeVars, ended, Files, SyncVars, disturbed>>

(* Bug: what was published before is only looked up by key.                 *)
EveryListedJob(table) == {r \in Runs : listed[r] \in Publishable /\ saved[r] # 0}

(* Bug: a run with a row in a table is never added again.                   *)
OncePerRun(table) ==
    {r \in Runs : /\ listed[r] \in Publishable
                  /\ r \notin {row.run : row \in table}
                  /\ saved[r] # 0}

(* The jobs to add to a table: of a publishable status, not there yet under *)
(* this status, and with a result.json.                                     *)
Missing(table) ==
    {r \in Runs : /\ listed[r] \in Publishable
                  /\ <<r, listed[r]>> \notin Pairs(table)
                  /\ saved[r] # 0}

(* The rows for the summary that rebuild_comparison cannot read: a success  *)
(* without a cost, for float('') raises.                                    *)
Unreadable == {r \in Missing(summary) : listed[r] = "succeeded" /\ r \in costless}

(* _collect_jobs, for the summary: the status of the job, the quality of    *)
(* result.json, the turns of the log.                                       *)
Collect ==
    /\ syncing # "nobody"
    /\ ~collected
    /\ Unreadable = {}
    /\ collected' = TRUE
    /\ built' = {[run |-> r, n |-> NumberFor(r, listed[r]), status |-> listed[r],
                  measured |-> saved[r], told |-> Attempt(r)] : r \in Missing(summary)}
    /\ UNCHANGED <<storeVars, phase, job, ended, Files, syncing, listed, disturbed>>

(* The whole synchronisation goes with it: what was staged is dropped.      *)
CollectRaises ==
    /\ syncing # "nobody"
    /\ ~collected
    /\ Unreadable # {}
    /\ EndSync
    /\ IF syncing = "worker" THEN Free ELSE UNCHANGED <<phase, job>>
    /\ UNCHANGED <<storeVars, ended, Files, disturbed>>

(* _publish_jobs, for the results: everything, the status too, is that of   *)
(* result.json.  Then the files are replaced and the call returns.          *)
Commit ==
    /\ collected
    /\ summary' = summary \cup built
    /\ results' = results \cup
           {[run |-> r, n |-> NumberFor(r, listed[r]), status |-> ended[r][saved[r]],
             measured |-> saved[r], told |-> saved[r]] : r \in Missing(results)}
    /\ EndSync
    /\ IF syncing = "worker" THEN Free ELSE UNCHANGED <<phase, job>>
    /\ UNCHANGED <<storeVars, ended, saved, costless, disturbed>>

(* enqueue, retry and delete requests.                                      *)
Request ==
    /\ \/ \E p \in Plans, a \in Approvals : Enqueue(p, a)
       \/ \E r \in Runs : \/ RetryJob(r) /\ Attempt(r) < MaxAttempts
                          \/ DeleteJob(r)
    /\ UNCHANGED pubVars

Next ==
    \/ Claim \/ EndWithoutRun \/ Launch \/ FailToStart \/ UsageLimit \/ Finish
    \/ Save \/ Interrupt
    \/ WorkerBegins \/ CommandBegins \/ WorkerRefused
    \/ Collect \/ CollectRaises \/ Commit
    \/ Request

Spec == Init /\ [][Next]_vars

-----------------------------------------------------------------------------
(* Only these runs may be published wrongly: the log was opened again, and  *)
(* some attempt was disturbed.                                              *)
Confusable(r) == r \in disturbed /\ Attempt(r) > 1

(* A published row is about one attempt: its measures and its turns are of  *)
(* the same one, and its status is how that one ended.  attempt_run_id's    *)
(* docstring promises that every attempt is seen on its own.                *)
RowsAreOneAttempt ==
    \A row \in results \cup summary : ~Confusable(row.run) =>
        /\ row.measured = row.told
        /\ row.status = ended[row.run][row.measured]

(* attempt_run_id's docstring: each attempt has a key of its own, so that   *)
(* the web does not add up the turns of two attempts.  No table has a key   *)
(* twice, and a key is the same attempt in both.                            *)
KeysAreAttempts ==
    \A p, q \in results \cup summary :
        Key(p) = Key(q) /\ ~Confusable(p.run) => p.measured = q.measured

(* What was published never makes _attempt_keys raise, for nobody could     *)
(* publish any more; it promises to complete an attempt that was published  *)
(* in part under the same key in both tables.                               *)
KeysAgree == ~TwoKeys

(* An attempt has one key in both tables, so that _attempt_keys never       *)
(* raises, unless it is of a run that was disturbed and launched again.     *)
ContradictionsHaveCause ==
    \A p, q \in results \cup summary :
        p.run = q.run /\ p.status = q.status /\ p.n # q.n => Confusable(p.run)

(* A synchronisation that returns leaves no success behind: those that it   *)
(* listed are in both tables, also when their own worker had died before it *)
(* could publish them, or had found the lock taken.                         *)
SuccessIsPublished ==
    [][Commit => \A r \in Runs \ disturbed : listed[r] = "succeeded" =>
           <<r, "succeeded">> \in Pairs(results') \cap Pairs(summary')]_vars

(* results.py records a missing cost as null, and test_publish.py expects   *)
(* an empty cell: so publish and collect, which take the lock with keys     *)
(* that agree, write every measured success, with a cost or without.        *)
MissingCostIsPublished ==
    [][syncing = "command" /\ syncing' = "nobody" =>
           \A r \in Runs \ disturbed : listed[r] = "succeeded" =>
               <<r, "succeeded">> \in Pairs(summary')]_vars

(* retry_job refuses a succeeded row as already measured: so once the       *)
(* worker is done with it, its result.json is there.                        *)
SuccessIsMeasured ==
    \A r \in Runs : status[r] = "succeeded" /\ job # r =>
        saved[r] # 0 /\ ended[r][saved[r]] = "succeeded"

(* What the publication transaction takes for granted (Additions of          *)
(* PublishedFiles): a synchronisation keeps every row of a table, and the    *)
(* rows it adds are under keys that the table does not have yet.             *)
OnlyAdds(old, new) ==
    /\ old \subseteq new
    /\ \A p \in new \ old, q \in new :
           Key(p) = Key(q) /\ ~Confusable(p.run) => p = q

AddsNewKeys ==
    /\ [](\A row \in built, q \in summary :
             ~Confusable(row.run) => Key(row) # Key(q))
    /\ [][OnlyAdds(results, results') /\ OnlyAdds(summary, summary')]_Tables
=============================================================================
