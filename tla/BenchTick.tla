----------------------------- MODULE BenchTick -----------------------------
(***************************************************************************)
(* The unattended collection of bench.yml.  A tick ranks the conditions by *)
(* their samples in its plan job.  Its run job restores the tables of the  *)
(* data branch, tries candidates until the work command returns 0,         *)
(* publishes, commits to the data branch and verifies.  The concurrency    *)
(* group lets one tick run at a time.  Each job has a fresh machine: an    *)
(* empty queue and no run directories.                                     *)
(*                                                                         *)
(* Of the five files of the tables, two are told apart: the results, which *)
(* the verify step reads, and the summary, which next-target reads.        *)
(***************************************************************************)
EXTENDS Naturals, Sequences, SequencesExt, FiniteSets

CONSTANTS
    Declared,       \* condition ids in declaration order
    Presets,        \* PRESET_SEQUENCE
    RunsPerPreset,  \* samples of each condition before the next preset
    MaxAttempts,    \* MAX_ATTEMPTS of a tick
    Healths,        \* how the conditions may be at first
    MaxRows,        \* bound: equal rows beyond it are not told apart
    MaxUpsets,      \* bound on manual runs and on what goes wrong in a tick
    None            \* stands for no row, and for no journal

\* How a condition fares: it runs; its tool is missing, so that preflight
\* refuses it; it dies before the model is called; its runs time out; they are
\* cut short; they end but are never samples (failed, or not measurable).
Kinds == {"sound", "absent", "dying", "slow", "cut", "spoiled"}

Conditions == ToSet(Declared)

ASSUME BenchAssumption ==
    /\ Healths \subseteq [Conditions -> Kinds]
    /\ RunsPerPreset \in Nat \ {0} /\ MaxRows >= RunsPerPreset
    /\ MaxAttempts \in Nat /\ MaxUpsets \in Nat

VARIABLES
    health,     \* how each condition fares
    branch,     \* data/ on the data branch: its files, and the journal of a
                \* publication, or None
    place,      \* the step the tick is in, or how the last one ended
    preset,     \* its preset
    left,       \* candidates it has not tried
    attempts,   \* how many it has tried
    queue,      \* rows of its store: conditions
    restored,   \* whether its data/ is the checkout of the branch
    work,       \* its data/, like branch
    waiting,    \* rows of ended runs its store has and the tables have not
    made,       \* rows it has published
    row,        \* the row of the last candidate's run, or None
    ran,        \* whether work returned 0: ran_batch_id exists
    ok,         \* whether no step has failed
    upsets      \* number of upsets so far

choice == <<preset, left, attempts>>
tables == <<restored, work, waiting, made, row>>
tick == <<place, choice, queue, tables, ran, ok>>
vars == <<health, branch, tick, upsets>>

----------------------------------------------------------------------------
(* next-target *)

\* successful_runs_by_condition: succeeded and measurable, in one preset.
Samples(rows, p, c) ==
    Cardinality({r \in rows : r.preset = p /\ r.condition = c /\ r.sample})

NextPreset(rows) ==
    LET short == {k \in DOMAIN Presets : \E c \in Conditions :
                    Samples(rows, Presets[k], c) < RunsPerPreset}
    IN IF short = {} THEN Presets[Len(Presets)]
       ELSE Presets[CHOOSE k \in short : \A l \in short : k <= l]

\* sorted() is stable: fewest samples first, then declaration order.
Before(rows, p, k, l) ==
    LET m == Samples(rows, p, Declared[k])
        n == Samples(rows, p, Declared[l])
    IN m < n \/ (m = n /\ k < l)

\* Bug: only the condition with the fewest samples is a candidate.
FewestOnly(rows, p) ==
    <<Declared[CHOOSE k \in DOMAIN Declared :
        \A l \in DOMAIN Declared : l # k => Before(rows, p, k, l)]>>

ConditionPriority(rows, p) ==
    LET Rank(k) == Cardinality({l \in DOMAIN Declared : Before(rows, p, l, k)})
    IN [i \in DOMAIN Declared |->
            Declared[CHOOSE k \in DOMAIN Declared : Rank(k) = i - 1]]

----------------------------------------------------------------------------
Tree(results, summary) == [results |-> results, summary |-> summary]

Bare == [files |-> Tree({}, {}), journal |-> None]

\* The branch is there, with the files of the tables: a tick cannot make it, for
\* it would commit nothing (Changed).
Init ==
    /\ health \in Healths
    /\ branch = Bare
    /\ place = "red" /\ preset = None /\ left = <<>> /\ attempts = 0
    /\ queue = <<>> /\ restored = TRUE /\ work = Bare
    /\ waiting = {} /\ made = {} /\ row = None
    /\ ran = FALSE /\ ok = TRUE
    /\ upsets = 0

Upset == upsets < MaxUpsets /\ upsets' = upsets + 1

\* No tick is under way: the last one ended well, with a failed step, or its
\* rows were lost with the machine or the push.
Between == {"green", "red", "lost"}

\* The plan job fetches the branch, or goes on without its tables.
Fetched(rows) ==
    \/ rows = branch.files.summary /\ UNCHANGED upsets
    \/ rows = {} /\ Upset

Order(rows) == ConditionPriority(rows, NextPreset(rows))

Begin(p, candidates) ==
    /\ place \in Between
    /\ place' = "planned" /\ preset' = p /\ left' = candidates /\ attempts' = 0
    /\ UNCHANGED <<health, branch, queue, tables, ran, ok>>

\* A tick of the schedule.
Schedule ==
    \E rows \in {branch.files.summary, {}} :
        Fetched(rows) /\ Begin(NextPreset(rows), Order(rows))

\* A manual run names its preset, or its condition, or both; a preset it names
\* does not change the order.
Dispatch ==
    /\ LET rows == branch.files.summary
           Orders == {Order(rows)} \union {<<c>> : c \in Conditions}
       IN \E q \in ToSet(Presets), order \in Orders : Begin(q, order)
    /\ Upset

\* The run job restores data/, or starts without it when the fetch fails,
\* whatever the reason.
Restore ==
    /\ place = "planned"
    /\ place' = "trying"
    /\ \/ restored' = TRUE /\ work' = branch /\ UNCHANGED upsets
       \/ restored' = FALSE /\ work' = Bare /\ Upset
    /\ queue' = <<>> /\ waiting' = {} /\ made' = {} /\ row' = None
    /\ ran' = FALSE /\ ok' = TRUE
    /\ UNCHANGED <<health, branch, choice>>

----------------------------------------------------------------------------
(* Run one batch *)

\* The step fails; the next ones that run are the always() ones.
StepFails == place' = "committing" /\ ok' = FALSE

\* The loop goes on with the next candidate.
MayTry == place = "trying" /\ left # <<>> /\ attempts < MaxAttempts

\* preflight refuses the candidate: this is no attempt.
SkipCandidate ==
    /\ MayTry /\ health[Head(left)] = "absent"
    /\ left' = Tail(left)
    /\ UNCHANGED <<health, branch, place, preset, attempts, queue, tables, ran, ok, upsets>>

\* estimate, approve and enqueue; what an earlier candidate left in the queue
\* comes first.
TryCandidate ==
    /\ MayTry /\ health[Head(left)] # "absent"
    /\ queue' = Append(queue, Head(left))
    /\ left' = Tail(left)
    /\ attempts' = attempts + 1
    /\ row' = None
    /\ place' = "working"
    /\ UNCHANGED <<health, branch, preset, restored, work, waiting, made, ran, ok, upsets>>

\* An error of estimate is no failed attempt: set -e ends the step.
EstimateFails ==
    /\ MayTry /\ health[Head(left)] # "absent"
    /\ Upset
    /\ StepFails
    /\ UNCHANGED <<health, branch, choice, queue, tables, ran>>

NoCandidate ==
    /\ place = "trying" /\ ~MayTry
    /\ StepFails
    /\ UNCHANGED <<health, branch, choice, queue, tables, ran, upsets>>

----------------------------------------------------------------------------
(* work --exit-when-empty *)

Rows(tree) == tree.files.results \union tree.files.summary

NewRow(c, sample) ==
    LET same == {r \in Rows(branch) \union Rows(work) \union waiting :
                    r.condition = c /\ r.preset = preset /\ r.sample = sample}
        bound == IF sample THEN MaxRows ELSE 1
    IN [condition |-> c, preset |-> preset, sample |-> sample,
        number |-> IF Cardinality(same) < bound THEN Cardinality(same) + 1
                   ELSE bound]

\* _restore: a journal that is there is rolled back before anything else.
Kept(tree) == IF tree.journal = None THEN tree.files ELSE tree.journal

RolledBack == [files |-> Kept(work), journal |-> None]

\* Bug: the tables are written anew from the store.
OnlyNew(rows) == Tree(rows, rows)

Added(rows) ==
    Tree(Kept(work).results \union rows, Kept(work).summary \union rows)

\* sync_published: every row of an ended run.
Sync(rows) ==
    /\ work' = [files |-> Added(rows), journal |-> None]
    /\ made' = made \union rows
    /\ waiting' = {}

\* How far the files are when a publication is killed: the results are
\* replaced before the summary.
Replacing(old, new) ==
    {old, Tree(new.results, old.summary), new}

\* Killed in _restore or after it, or between writing the journal and
\* unlinking it.
KilledSync(rows) ==
    \/ work' = RolledBack
    \/ /\ work.journal # None
       /\ \E files \in Replacing(work.files, work.journal) :
              work' = [files |-> files, journal |-> work.journal]
    \/ /\ rows # {}
       /\ \E files \in Replacing(Kept(work), Added(rows)) :
              work' = [files |-> files, journal |-> Kept(work)]

\* succeeded: process_job publishes the row, and those that wait for it.
Succeeded(sample) ==
    LET r == NewRow(Head(queue), sample)
    IN Sync(waiting \union {r}) /\ row' = r /\ UNCHANGED restored

\* failed or timeout: the row waits for the next synchronisation.
Failed ==
    LET r == NewRow(Head(queue), FALSE)
    IN /\ waiting' = waiting \union {r} /\ row' = r
       /\ UNCHANGED <<restored, work, made>>

\* What goes wrong each time with a condition of this kind, and now and then
\* with a sound one.
Mishap(kind) ==
    /\ place = "working" /\ queue # <<>>
    /\ \/ health[Head(queue)] = kind /\ UNCHANGED upsets
       \/ health[Head(queue)] \in {"sound", "spoiled"} \ {kind} /\ Upset

\* succeeded or failed: work goes on with the next row.
Ends ==
    /\ place = "working" /\ queue # <<>>
    /\ health[Head(queue)] = "sound"
    /\ Succeeded(TRUE)
    /\ queue' = Tail(queue)
    /\ UNCHANGED <<health, branch, place, choice, ran, ok, upsets>>

\* failed, or a success that is not measurable and so no sample.
EndsSpoiled ==
    /\ Mishap("spoiled")
    /\ Succeeded(FALSE) \/ Failed
    /\ queue' = Tail(queue)
    /\ UNCHANGED <<health, branch, place, choice, ran, ok>>

\* timeout: work returns 1.
TimesOut ==
    /\ Mishap("slow")
    /\ Failed
    /\ queue' = Tail(queue)
    /\ place' = "trying"
    /\ UNCHANGED <<health, branch, choice, ran, ok>>

\* Cut short: the row is blocked and will not be published, but process_job
\* returns failed, and work goes on.
IsCutShort ==
    /\ Mishap("cut")
    /\ queue' = Tail(queue) /\ row' = None
    /\ UNCHANGED <<health, branch, place, choice, restored, work, waiting, made, ran, ok>>

\* worker-error, or config-error for a row left by an earlier candidate, whose
\* workdir its first attempt has changed: no row, and work returns 1.
Dies ==
    /\ place = "working" /\ queue # <<>>
    /\ health[Head(queue)] = "dying" \/ Len(queue) > 1
    /\ queue' = Tail(queue)
    /\ place' = "trying"
    /\ UNCHANGED <<health, branch, choice, tables, ran, ok, upsets>>

\* The usage limit: the row stays in the queue, and work returns 1.
IsLimited ==
    /\ place = "working" /\ queue # <<>>
    /\ health[Head(queue)] \in {"sound", "slow", "cut", "spoiled"}
    /\ Upset
    /\ place' = "trying"
    /\ UNCHANGED <<health, branch, choice, queue, tables, ran, ok>>

WorkReturns0 ==
    /\ place = "working" /\ queue = <<>>
    /\ ran' = TRUE
    /\ place' = "publishing"
    /\ UNCHANGED <<health, branch, choice, queue, tables, ok, upsets>>

----------------------------------------------------------------------------
(* The steps after it *)

\* publish and collect; the step may fail before or after them.
Publish ==
    /\ place = "publishing"
    /\ \/ Sync(waiting) /\ place' = "committing" /\ UNCHANGED <<ok, upsets>>
       \/ Sync(waiting) /\ StepFails /\ Upset
       \/ work' \in {work, RolledBack} /\ UNCHANGED <<made, waiting>> /\ StepFails /\ Upset
    /\ UNCHANGED <<health, branch, choice, queue, restored, row, ran>>

\* Bug: the step runs only when those before it went well.
AfterSuccess == ok

\* if: always()
Always == TRUE

\* git diff sees what the checkout brought, and no file that is new: nothing
\* at all in a tree that was not restored.
Changed ==
    /\ restored
    /\ \/ work.files # branch.files
       \/ branch.journal # None /\ work.journal # branch.journal

\* cp onto the branch: it takes no file away, and a journal is a file.
Copied ==
    [files |-> work.files,
     journal |-> IF work.journal = None THEN branch.journal ELSE work.journal]

\* A push that is refused, or a branch that cannot be fetched again, fails the
\* step.
Commit ==
    /\ place = "committing"
    /\ \/ /\ ~Always \/ ~Changed
          /\ place' = "verifying"
          /\ UNCHANGED <<branch, work, ok, upsets>>
       \/ /\ Always /\ Changed
          /\ branch' = Copied /\ work' = Copied
          /\ place' = "verifying"
          /\ UNCHANGED <<ok, upsets>>
       \/ /\ Always /\ Changed
          /\ Upset
          /\ ok' = FALSE
          /\ place' = "unpushed"
          /\ UNCHANGED <<branch, work>>
    /\ UNCHANGED <<health, choice, queue, restored, waiting, made, row, ran>>

\* Bug: the verdict of the work command is taken for the row.
TrustsWork == TRUE

\* The batch is looked for on the branch, and then in the working tree.
Recorded ==
    ran => row # None /\ row \in branch.files.results \union work.files.results

\* The machine goes, and its store and tree with it.
EndsAs(end) ==
    /\ place' = end
    /\ preset' = None /\ left' = <<>> /\ attempts' = 0
    /\ queue' = <<>> /\ work' = Bare /\ ok' = TRUE
    /\ UNCHANGED <<restored, waiting, made, row, ran>>

Verify ==
    /\ \/ place = "verifying" /\ EndsAs(IF ok /\ Recorded THEN "green" ELSE "red")
       \/ place = "unpushed" /\ EndsAs("lost")
    /\ UNCHANGED <<health, branch, upsets>>

\* The tick is cancelled, runs out of time, or a step before the batch fails:
\* the always() steps still run.
Cancel ==
    /\ place \in {"trying", "working", "publishing"}
    /\ Upset
    /\ StepFails
    /\ UNCHANGED <<health, branch, choice, queue, tables, ran>>

\* It is cancelled inside a publication.
CancelSync ==
    /\ \/ /\ place = "working" /\ queue # <<>>
          /\ health[Head(queue)] \in {"sound", "spoiled"}
          /\ KilledSync(waiting \union
                 {NewRow(Head(queue), health[Head(queue)] = "sound")})
       \/ place = "publishing" /\ KilledSync(waiting)
    /\ Upset
    /\ StepFails
    /\ UNCHANGED <<health, branch, choice, queue, restored, waiting, made, row, ran>>

\* The machine is gone.
Lose ==
    /\ place \notin Between
    /\ Upset
    /\ EndsAs("lost")
    /\ UNCHANGED <<health, branch>>

\* The tool comes back, or the condition is repaired.
Repair(c) ==
    /\ health[c] # "sound"
    /\ Upset
    /\ health' = [health EXCEPT ![c] = "sound"]
    /\ UNCHANGED <<branch, tick>>

TickStep ==
    \/ Schedule \/ Restore \/ SkipCandidate \/ TryCandidate \/ NoCandidate
    \/ Ends \/ EndsSpoiled \/ TimesOut \/ IsCutShort \/ Dies \/ WorkReturns0
    \/ Publish \/ Commit \/ Verify

Next ==
    \/ TickStep
    \/ Dispatch \/ EstimateFails \/ IsLimited
    \/ Cancel \/ CancelSync \/ Lose
    \/ \E c \in Conditions : Repair(c)

\* Ticks go on, and what goes wrong is bounded by MaxUpsets.
Spec == Init /\ [][Next]_vars /\ WF_vars(TickStep)

----------------------------------------------------------------------------
(* Properties *)

\* Every row a tick has published is on the data branch after it, even if it
\* failed, was cancelled in the middle of a publication or could not diagnose
\* (the commit step runs always): unless it began without the tables of the
\* branch, or the machine or the push was lost.
MeasuredIsCommitted ==
    place \in {"green", "red"} /\ restored =>
        made \subseteq branch.files.results \intersect branch.files.summary

\* A green tick that began with the tables of the branch has an experiment, and
\* every run that ended in it has its row on the data branch (the verify step).
GreenIsRecorded ==
    place = "green" /\ restored =>
        /\ row \in branch.files.results
        /\ made \union waiting \subseteq
               branch.files.results \intersect branch.files.summary

\* The verify step, as docs/CI-CD.md has it: it fails for a run that succeeded
\* and is not in token-bench-results.csv, so that no row is lost in silence.
GreenIsOnBranch == place = "green" => row \in branch.files.results

InBoth(old, new) ==
    old.results \subseteq new.results /\ old.summary \subseteq new.summary

\* No tick takes a row from the data branch but those that a publication was
\* killed over: the rows its journal would bring back stay for good.
CommittedRowsStay == [][InBoth(Kept(branch), branch'.files)]_vars

\* No tick takes a row from the data branch: the tables are restored first, for
\* otherwise, bench.yml says, the history would be lost.
HistoryIsKept == [][InBoth(branch.files, branch'.files)]_vars

Sampled(c) == Samples(branch.files.summary, Presets[1], c) >= RunsPerPreset

\* Fewer conditions than a tick has attempts use one up without a result, and
\* no condition ends a tick without a sample.
OthersGetTheirTurn ==
    /\ Cardinality({d \in Conditions : health[d] \in {"dying", "slow"}}) < MaxAttempts
    /\ \A d \in Conditions : health[d] \notin {"cut", "spoiled"}

\* Every sound condition gets its samples of the first preset, however many
\* tools are missing, as long as the broken conditions leave the others their
\* turn (condition_priority and the loop over the candidates), and no
\* publication was killed that leaves its journal on the branch.
SoundAreSampled ==
    \A c \in Conditions :
        health[c] = "sound" /\ OthersGetTheirTurn
            ~> Sampled(c) \/ branch.journal # None

\* No broken condition keeps the sound ones from their samples, as
\* condition_priority says.
BrokenBlocksNobody ==
    \A c \in Conditions : health[c] = "sound" ~> Sampled(c)
=============================================================================
