----------------------------- MODULE QueueWorker -----------------------------
(***************************************************************************)
(* The workers that run the queue: QueueRunner.run (queue_runner.py), the   *)
(* worker lock (worker.py, storage.py) and process_job (job_runner.py) with *)
(* the wait loop of run_once (worker.py), over the tables of JobStore, next *)
(* to the requests of the web API that touch the same rows and flags.       *)
(*                                                                         *)
(* A worker is one process that runs QueueRunner.run: `work --once`, `work  *)
(* --exit-when-empty`, `work`, or the background thread of `serve`.  A step *)
(* is a transaction, a critical section of QueueRunner._lock, a change of   *)
(* the file system, or a wait.                                              *)
(***************************************************************************)
EXTENDS JobStore

CONSTANTS Workers,
          Once,      (* the workers started with --once                     *)
          Drain,     (* the workers started with --exit-when-empty          *)
          Served,    (* the threads of `serve` (stop_on_error=False)        *)
          Faults,    (* which FaultKinds the environment may inject         *)
          NoRun,
          NoWorker

(* What may go wrong around a worker, beyond the outcomes the code turns    *)
(* into a status:                                                           *)
(*   launch    run_once raises something else than WorkerError              *)
(*   evaluate  evaluation.check raises EvaluationError                      *)
(*   publish   sync_published finds .publish.lock taken (FileLockError)     *)
(*   kill      the worker's process is killed                               *)
FaultKinds == {"launch", "evaluate", "publish", "kill"}

ASSUME WorkersAssumption ==
    /\ Once \subseteq Workers
    /\ Drain \subseteq Workers
    /\ Served \subseteq Workers
    /\ Served \cap (Once \cup Drain) = {}
    /\ Faults \subseteq FaultKinds
    /\ NoRun \notin Runs
    /\ NoWorker \notin Workers

VARIABLES pc,        (* where each worker is, see the phases below          *)
          lock,      (* the holder of worker.lock, or NoWorker              *)
          job,       (* run(): the local `job`                              *)
          current,   (* _current_run_id                                     *)
          cancel,    (* _cancel_event                                       *)
          shutdown,  (* _shutdown                                           *)
          stopping,  (* how far stop() has come: "no", "half" or "done"     *)
          verdict,   (* the status process_job has in hand or returned      *)
          dirty,     (* runs whose workdir is not the one snapshotted       *)
          strays,    (* runs with a claude process nobody waits for         *)
          asked      (* history: runs a stop was accepted for since their   *)
                     (* last claim                                          *)

workerVars == <<pc, lock, job, current, cancel, shutdown, stopping, verdict,
                dirty, strays, asked>>
vars == <<storeVars, workerVars>>

(* Not in run(): returned 0 (or not started yet) or 1, ended by an          *)
(* exception, or gone with its process.                                     *)
Ended == {"returned0", "returned1", "raised", "killed"}

(* A row is claimed and process_job is not called yet; after "announcing",  *)
(* the worker is inside the critical section of QueueRunner._lock.          *)
Announcing == {"announcing", "rearming", "setting"}

(* process_job holds a row it has claimed and not yet given a status.       *)
Processing == {"loading", "aborting", "launching", "running", "settling"}

(* process_job has called finish_job or requeue_job.                        *)
Completing == {"evaluating", "saving", "publishing", "clearing"}

Idle == {"recovering", "checking", "claiming", "polling", "backoff"}

Locked == Idle \cup Announcing \cup Processing \cup Completing \cup {"deciding"}

Verdicts == FinalStatus \cup {"none", "rate-limited"}

TypeOK ==
    /\ StoreTypeOK
    /\ pc \in [Workers -> Ended \cup {"locking"} \cup Locked]
    /\ lock \in Workers \cup {NoWorker}
    /\ job \in [Workers -> Runs \cup {NoRun}]
    /\ current \in [Workers -> Runs \cup {NoRun}]
    /\ cancel \in [Workers -> BOOLEAN]
    /\ shutdown \in [Workers -> BOOLEAN]
    /\ stopping \in [Workers -> {"no", "half", "done"}]
    /\ verdict \in [Workers -> Verdicts]
    /\ dirty \subseteq Runs
    /\ strays \subseteq Runs
    /\ asked \subseteq Runs

Init ==
    /\ StoreInit
    /\ pc = [w \in Workers |-> "returned0"]
    /\ lock = NoWorker
    /\ job = [w \in Workers |-> NoRun]
    /\ current = [w \in Workers |-> NoRun]
    /\ cancel = [w \in Workers |-> FALSE]
    /\ shutdown = [w \in Workers |-> FALSE]
    /\ stopping = [w \in Workers |-> "no"]
    /\ verdict = [w \in Workers |-> "none"]
    /\ dirty = {}
    /\ strays = {}
    /\ asked = {}

-----------------------------------------------------------------------------
(* Moving between phases. *)

Goto(w, phase) == pc' = [pc EXCEPT ![w] = phase]

(* Leaving run(): current and the lock are released on every way out, by    *)
(* the finally, by the context manager, or with the process.  The events    *)
(* have no reader left.                                                     *)
Leave(w, how) ==
    /\ Goto(w, how)
    /\ lock' = IF lock = w THEN NoWorker ELSE lock
    /\ job' = [job EXCEPT ![w] = NoRun]
    /\ current' = [current EXCEPT ![w] = NoRun]
    /\ verdict' = [verdict EXCEPT ![w] = "none"]
    /\ cancel' = [cancel EXCEPT ![w] = FALSE]
    /\ shutdown' = [shutdown EXCEPT ![w] = FALSE]
    /\ stopping' = [stopping EXCEPT ![w] = "no"]

Flags == <<cancel, shutdown, stopping>>
Files == <<dirty, strays>>

(* Going on inside run() with nothing else changed for the worker.          *)
Stay(w, phase) == Goto(w, phase) /\ UNCHANGED <<lock, job, current, verdict, Flags>>

(* A new process: a fresh QueueRunner that calls run().                     *)
Start(w) ==
    /\ pc[w] \in Ended
    /\ Goto(w, "locking")
    /\ UNCHANGED <<storeVars, lock, job, current, verdict, Flags, Files, asked>>

(* worker_lock: the file lock does not wait.                                *)
TakeLock(w) ==
    /\ pc[w] = "locking"
    /\ lock = NoWorker
    /\ lock' = w
    /\ Goto(w, "recovering")
    /\ UNCHANGED <<storeVars, job, current, verdict, Flags, Files, asked>>

LockTaken(w) ==
    /\ pc[w] = "locking"
    /\ lock # NoWorker
    /\ Leave(w, "returned1")
    /\ UNCHANGED <<storeVars, Files, asked>>

Recover(w) ==
    /\ pc[w] = "recovering"
    /\ RequeueOrphanedRunning
    /\ Goto(w, "checking")
    /\ UNCHANGED <<lock, job, current, verdict, Flags, Files, asked>>

(* Bug: while True.                                                         *)
CheckNothing(w) ==
    /\ pc[w] = "checking"
    /\ Stay(w, "claiming")
    /\ UNCHANGED <<storeVars, Files, asked>>

(* while not self._shutdown.is_set()                                        *)
CheckShutdown(w) ==
    /\ pc[w] = "checking"
    /\ \/ shutdown[w] /\ Leave(w, "returned0")
       \/ ~shutdown[w] /\ Stay(w, "claiming")
    /\ UNCHANGED <<storeVars, Files, asked>>

(* Bug: the run is current before the cancel event is rearmed for it.       *)
ClaimAndAnnounce(w) ==
    /\ pc[w] = "claiming"
    /\ \E r \in Runs :
        /\ ClaimNextQueued(r)
        /\ job' = [job EXCEPT ![w] = r]
        /\ current' = [current EXCEPT ![w] = r]
        /\ asked' = asked \ {r}
    /\ Goto(w, "announcing")
    /\ UNCHANGED <<lock, verdict, Flags, Files>>

Claim(w) ==
    /\ pc[w] = "claiming"
    /\ \E r \in Runs :
        /\ ClaimNextQueued(r)
        /\ job' = [job EXCEPT ![w] = r]
        /\ asked' = asked \ {r}
    /\ Goto(w, "announcing")
    /\ UNCHANGED <<lock, current, verdict, Flags, Files>>

NothingQueued(w) ==
    /\ pc[w] = "claiming"
    /\ Queued = {}
    /\ \/ /\ w \in Once \cup Drain
          /\ Leave(w, "returned0")
       \/ /\ w \notin Once \cup Drain
          /\ Stay(w, "polling")
    /\ UNCHANGED <<storeVars, Files, asked>>

(* _shutdown.wait: the poll interval, or the 1800 s after a usage limit.    *)
WaitOver(w) ==
    /\ pc[w] \in {"polling", "backoff"}
    /\ Goto(w, "checking")
    /\ UNCHANGED <<storeVars, lock, job, current, verdict, Flags, Files, asked>>

(* Bug: the cancel event is left as the last run had it.                    *)
KeptAtStart(w) == cancel[w]

(* _cancel_event.clear()                                                    *)
CancelAtStart(w) == FALSE

(* _lock is taken, the job made current and the event cleared.  stop() takes *)
(* no lock: it may set its events before, between and after these steps.    *)
Announce(w) ==
    /\ pc[w] = "announcing"
    /\ current' = [current EXCEPT ![w] = job[w]]
    /\ cancel' = [cancel EXCEPT ![w] = CancelAtStart(w)]
    /\ Goto(w, "rearming")
    /\ UNCHANGED <<storeVars, lock, job, verdict, shutdown, stopping, Files, asked>>

(* Bug: the check at the head of the loop is taken to be enough.            *)
LookAtNothing(w) ==
    /\ pc[w] = "rearming"
    /\ Stay(w, "loading")
    /\ UNCHANGED <<storeVars, Files, asked>>

(* if self._shutdown.is_set()                                               *)
LookAtShutdown(w) ==
    /\ pc[w] = "rearming"
    /\ Stay(w, IF shutdown[w] THEN "setting" ELSE "loading")
    /\ UNCHANGED <<storeVars, Files, asked>>

(* _cancel_event.set() for a shutdown                                       *)
SetForShutdown(w) ==
    /\ pc[w] = "setting"
    /\ cancel' = [cancel EXCEPT ![w] = TRUE]
    /\ Goto(w, "loading")
    /\ UNCHANGED <<storeVars, lock, job, current, verdict, shutdown, stopping, Files, asked>>

-----------------------------------------------------------------------------
(* process_job *)

(* load_run_snapshot compares the workdir with the job's content_id; then   *)
(* preflight and the tool fingerprints are checked against the machine as   *)
(* it is now.                                                               *)
Load(w) ==
    /\ pc[w] = "loading"
    /\ \/ /\ job[w] \in dirty
          /\ verdict' = [verdict EXCEPT ![w] = "config-error"]
          /\ Goto(w, "aborting")
       \/ /\ job[w] \notin dirty
          /\ verdict' = [verdict EXCEPT ![w] = "blocked"]
          /\ Goto(w, "aborting")
       \/ /\ job[w] \notin dirty
          /\ Goto(w, "launching")
          /\ UNCHANGED verdict
    /\ UNCHANGED <<storeVars, lock, job, current, Flags, Files, asked>>

(* run_once up to the wait loop: the proxy, if any, and claude itself.      *)
Launch(w) ==
    /\ pc[w] = "launching"
    /\ \/ /\ Goto(w, "running")
          /\ UNCHANGED verdict
       \/ /\ Goto(w, "aborting")
          /\ verdict' = [verdict EXCEPT ![w] = "worker-error"]
    /\ UNCHANGED <<storeVars, lock, job, current, Flags, Files, asked>>

LaunchRaises(w) ==
    /\ pc[w] = "launching"
    /\ "launch" \in Faults
    /\ Leave(w, "raised")
    /\ UNCHANGED <<storeVars, Files, asked>>

(* The agent works in the workdir. *)
AgentWrites(w) ==
    /\ pc[w] = "running"
    /\ dirty' = dirty \cup {job[w]}
    /\ UNCHANGED <<storeVars, pc, lock, job, current, verdict, Flags, strays, asked>>

(* A turn of the wait loop that ends it.  An exit of claude is seen first,  *)
(* then the cancel event, then the deadline.                                *)
ChildExits(w) ==
    /\ pc[w] = "running"
    /\ \E v \in {"succeeded", "failed"} : verdict' = [verdict EXCEPT ![w] = v]
    /\ Goto(w, "settling")
    /\ UNCHANGED <<storeVars, lock, job, current, Flags, Files, asked>>

ChildStopped(w) ==
    /\ pc[w] = "running"
    /\ verdict' = [verdict EXCEPT ![w] = IF cancel[w] THEN "cancelled" ELSE "timeout"]
    /\ Goto(w, "settling")
    /\ UNCHANGED <<storeVars, lock, job, current, Flags, Files, asked>>

(* A failed run whose transcript names the usage limit is put back.         *)
UsageLimit(w) ==
    /\ pc[w] = "settling"
    /\ verdict[w] = "failed"
    /\ RequeueJob(job[w])
    /\ verdict' = [verdict EXCEPT ![w] = "rate-limited"]
    /\ Goto(w, "clearing")
    /\ UNCHANGED <<lock, job, current, Flags, Files, asked>>

(* Bug: the row gets what a usage limit makes process_job return.           *)
RowStatusAsReturned(v) == IF v = "failed" THEN {"failed", "rate-limited"} ELSE {v}

(* The row of a failed run that was cut short or left no output is blocked, *)
(* while the outcome in hand stays failed.                                  *)
RowStatusFor(v) == IF v = "failed" THEN {"failed", "blocked"} ELSE {v}

FinishRun(w) ==
    /\ pc[w] = "settling"
    /\ \E final \in RowStatusFor(verdict[w]) : FinishJob(job[w], final)
    /\ Goto(w, "evaluating")
    /\ UNCHANGED <<lock, job, current, verdict, Flags, Files, asked>>

(* Bug: an early return without finish_job.                                 *)
ReturnWithoutRun(w) ==
    /\ pc[w] = "aborting"
    /\ Goto(w, "clearing")
    /\ UNCHANGED <<storeVars, lock, job, current, verdict, Flags, Files, asked>>

(* _end_without_run *)
EndWithoutRun(w) ==
    /\ pc[w] = "aborting"
    /\ FinishJob(job[w], verdict[w])
    /\ Goto(w, "clearing")
    /\ UNCHANGED <<lock, job, current, verdict, Flags, Files, asked>>

(* evaluation.check runs the tests in the workdir, where Python may leave   *)
(* its byte code.                                                           *)
Evaluate(w) ==
    /\ pc[w] = "evaluating"
    /\ dirty' \in {dirty, dirty \cup {job[w]}}
    /\ Goto(w, "saving")
    /\ UNCHANGED <<storeVars, lock, job, current, verdict, Flags, strays, asked>>

EvaluateRaises(w) ==
    /\ pc[w] = "evaluating"
    /\ "evaluate" \in Faults
    /\ Leave(w, "raised")
    /\ UNCHANGED <<storeVars, Files, asked>>

SaveResult(w) ==
    /\ pc[w] = "saving"
    /\ Goto(w, IF verdict[w] = "succeeded" THEN "publishing" ELSE "clearing")
    /\ UNCHANGED <<storeVars, lock, job, current, verdict, Flags, Files, asked>>

SyncPublished(w) ==
    /\ pc[w] = "publishing"
    /\ Goto(w, "clearing")
    /\ UNCHANGED <<storeVars, lock, job, current, verdict, Flags, Files, asked>>

(* The FileLockError of .publish.lock is the class that run() catches as    *)
(* WorkerLockError: it ends the loop with 1.                                *)
PublishLockTaken(w) ==
    /\ pc[w] = "publishing"
    /\ "publish" \in Faults
    /\ Leave(w, "returned1")
    /\ UNCHANGED <<storeVars, Files, asked>>

(* Back in run(): the finally, then what the returned status means for the  *)
(* loop.                                                                    *)
Clear(w) ==
    /\ pc[w] = "clearing"
    /\ current' = [current EXCEPT ![w] = NoRun]
    /\ Goto(w, "deciding")
    /\ UNCHANGED <<storeVars, lock, job, verdict, Flags, Files, asked>>

NextTurn(w, phase) ==
    /\ Goto(w, phase)
    /\ job' = [job EXCEPT ![w] = NoRun]
    /\ verdict' = [verdict EXCEPT ![w] = "none"]
    /\ UNCHANGED <<lock, current, Flags>>

StopsQueue(w, v) == w \notin Served /\ v \notin {"succeeded", "failed", "rate-limited"}

(* Bug: --once takes a measured failure for a success.                      *)
ExitOfAnyRun(v) == IF v \in {"succeeded", "failed"} THEN "returned0" ELSE "returned1"

OnceExit(v) == IF v = "succeeded" THEN "returned0" ELSE "returned1"

Decide(w) ==
    /\ pc[w] = "deciding"
    /\ \/ /\ w \in Once
          /\ Leave(w, OnceExit(verdict[w]))
       \/ /\ w \notin Once
          /\ verdict[w] = "rate-limited"
          /\ IF w \in Drain THEN Leave(w, "returned1") ELSE NextTurn(w, "backoff")
       \/ /\ w \notin Once
          /\ StopsQueue(w, verdict[w])
          /\ Leave(w, "returned1")
       \/ /\ w \notin Once
          /\ verdict[w] # "rate-limited"
          /\ ~StopsQueue(w, verdict[w])
          /\ NextTurn(w, "checking")
    /\ UNCHANGED <<storeVars, Files, asked>>

-----------------------------------------------------------------------------
(* What happens to a worker from outside. *)

(* QueueRunner.stop_current, for POST /api/stop: the request names no run,  *)
(* and it waits for _lock while the worker announces a job.                 *)
StopCurrent(w) ==
    /\ w \in Served
    /\ pc[w] \notin {"rearming", "setting"}
    /\ current[w] # NoRun
    /\ cancel' = [cancel EXCEPT ![w] = TRUE]
    /\ asked' = asked \cup {current[w]}
    /\ UNCHANGED <<storeVars, pc, lock, job, current, shutdown, stopping, verdict, Files>>

(* QueueRunner.stop, for server_close: two events set without the lock.     *)
StopSetsShutdown(w) ==
    /\ w \in Served
    /\ pc[w] \notin Ended
    /\ stopping[w] = "no"
    /\ shutdown' = [shutdown EXCEPT ![w] = TRUE]
    /\ stopping' = [stopping EXCEPT ![w] = "half"]
    /\ UNCHANGED <<storeVars, pc, lock, job, current, cancel, verdict, Files, asked>>

StopSetsCancel(w) ==
    /\ stopping[w] = "half"
    /\ cancel' = [cancel EXCEPT ![w] = TRUE]
    /\ stopping' = [stopping EXCEPT ![w] = "done"]
    /\ UNCHANGED <<storeVars, pc, lock, job, current, shutdown, verdict, Files, asked>>

(* The process goes away: killed, or leaving a thread that did not end in   *)
(* the 5 s of stop()'s join.  The system frees the file lock; claude lives. *)
Die(w) ==
    /\ pc[w] \notin Ended
    /\ "kill" \in Faults \/ stopping[w] = "done"
    /\ Leave(w, "killed")
    /\ strays' = IF pc[w] = "running" THEN strays \cup {job[w]} ELSE strays
    /\ UNCHANGED <<storeVars, dirty, asked>>

(* A claude process without a worker goes on writing until it ends.         *)
StrayWrites(r) ==
    /\ r \in strays
    /\ dirty' = dirty \cup {r}
    /\ UNCHANGED <<storeVars, pc, lock, job, current, verdict, Flags, strays, asked>>

StrayEnds(r) ==
    /\ r \in strays
    /\ strays' = strays \ {r}
    /\ UNCHANGED <<storeVars, pc, lock, job, current, verdict, Flags, dirty, asked>>

(* enqueue, retry and delete requests reach the store at any time.          *)
Request ==
    /\ \/ \E p \in Plans, a \in Approvals : Enqueue(p, a)
       \/ \E r \in Runs : RetryJob(r) \/ DeleteJob(r)
    /\ UNCHANGED workerVars

-----------------------------------------------------------------------------
(* The steps a worker takes by itself.                                      *)
Work(w) ==
    \/ TakeLock(w) \/ LockTaken(w) \/ Recover(w)
    \/ CheckShutdown(w) \/ Claim(w) \/ NothingQueued(w) \/ WaitOver(w)
    \/ Announce(w) \/ LookAtShutdown(w) \/ SetForShutdown(w)
    \/ Load(w) \/ Launch(w) \/ ChildExits(w) \/ ChildStopped(w)
    \/ UsageLimit(w) \/ FinishRun(w) \/ EndWithoutRun(w)
    \/ Evaluate(w) \/ SaveResult(w) \/ SyncPublished(w)
    \/ Clear(w) \/ Decide(w)

Raise(w) == LaunchRaises(w) \/ EvaluateRaises(w) \/ PublishLockTaken(w)

Next ==
    \/ \E w \in Workers : \/ Work(w) \/ Raise(w) \/ Die(w)
                          \/ Start(w) \/ AgentWrites(w)
                          \/ StopCurrent(w) \/ StopSetsShutdown(w) \/ StopSetsCancel(w)
    \/ \E r \in Runs : StrayWrites(r) \/ StrayEnds(r)
    \/ Request

Spec == Init /\ [][Next]_vars

(* A live thread keeps running, waits are bounded (poll interval, backoff,  *)
(* the run's deadline), and stop() sets its second event.  Starting a       *)
(* worker, the user's requests and the faults are never owed.               *)
FairSpec ==
    Spec /\ \A w \in Workers : WF_vars(Work(w)) /\ WF_vars(StopSetsCancel(w))

-----------------------------------------------------------------------------
(* The lock is what protects a row: a row is running only if nobody holds   *)
(* the lock (its worker died), its new holder has yet to recover it, or the *)
(* holder is the worker that processes this very row.                       *)
RunningIsOwned ==
    \A r \in Runs : status[r] = "running" =>
        \/ lock = NoWorker
        \/ pc[lock] = "recovering"
        \/ pc[lock] \in Announcing \cup Processing /\ job[lock] = r

(* finish_job and requeue_job are never refused: while a worker processes a *)
(* row, no retry, delete or recovery by anybody else moves the row, so that *)
(* an attempt's status is never lost to a JobStoreError.                    *)
FinishAccepted ==
    \A w \in Workers : pc[w] \in Announcing \cup Processing =>
        job[w] \in Runs /\ status[job[w]] = "running"

(* A stop that stop_current accepted stays armed until the run it was       *)
(* accepted for ends: rearming the event for a run cannot swallow it.       *)
AcceptedStopKept ==
    \A w \in Workers : pc[w] \in Processing /\ job[w] \in asked => cancel[w]

(* Once stop() has set both events, no run goes on with its cancel event    *)
(* off: run() clears that event for a new run in between the two, or after  *)
(* them, and has to see the shutdown then.                                  *)
ShutdownReachesRun ==
    \A w \in Workers : stopping[w] = "done" /\ pc[w] \in Processing => cancel[w]

(* A run becomes cancelled only if a stop was accepted for it or its worker *)
(* was shutting down: the cancel of one run never hits the next one.        *)
CancelledWasAsked ==
    [][\A r \in Runs : status[r] = "running" /\ status'[r] = "cancelled" =>
           \/ r \in asked
           \/ \E w \in Workers : job[w] = r /\ shutdown[w]]_vars

(* `work --once` reports success only for a row that the store has as       *)
(* succeeded (or that was deleted since).                                   *)
OnceReportsRow ==
    [][\A w \in Once : pc[w] = "deciding" /\ pc'[w] = "returned0" =>
           status[job[w]] \in {"succeeded", "absent"}]_vars

(* A thread that is told to shut down ends by itself, whatever it was doing *)
(* and however the queue fills meanwhile.                                   *)
ShutdownEnds == \A w \in Workers : shutdown[w] ~> pc[w] \in Ended

(* A claimed row leaves running, unless the worker that has it goes away or  *)
(* is ended by an exception that process_job does not turn into a status.    *)
ClaimedRunEnds ==
    \A r \in Runs : status[r] = "running" ~>
        status[r] # "running" \/ \E w \in Workers : pc[w] \in {"killed", "raised"}

-----------------------------------------------------------------------------
(* What the repository says of its workers, and the runs refute.            *)

(* retry_job and requeue_job: the run is tried again from the start, so an  *)
(* attempt never ends because of what an earlier attempt left behind.       *)
AttemptsStartFresh ==
    \A w \in Workers : pc[w] = "aborting" => verdict[w] # "config-error"

(* process_job's docstring: a blocked run stops a worker that stops on      *)
(* errors.                                                                  *)
BlockedStopsQueue ==
    [][\A w \in Workers \ (Served \cup Once) :
           pc[w] = "deciding" /\ status[job[w]] = "blocked" =>
               pc'[w] # "checking"]_vars

(* The CI/CD notes: the web worker goes on with the next job after an       *)
(* error; only a shutdown ends its thread once it has the lock.             *)
WebWorkerGoesOn ==
    [][\A w \in Served : pc[w] \in Locked /\ ~shutdown[w] =>
           pc'[w] \notin {"returned0", "returned1"}]_vars

(* job_runner's docstring: no path leaves the job running.                  *)
NoPathLeavesRunning ==
    [][\A w \in Workers :
           pc[w] \in Processing /\ pc'[w] \in Ended \ {"killed"} =>
               status'[job[w]] # "running"]_vars
=============================================================================
