----------------------------- MODULE RunSummary -----------------------------
(***************************************************************************)
(* From the transcripts of the runs to run-summary.csv and comparison.csv. *)
(* Jobs are run one at a time and those without success may be run again.  *)
(* A synchronisation adds rows to the summary, in the order of the queue,  *)
(* and builds the comparison anew from all of it.  It may come late: only  *)
(* a success is followed by one, unless the worker dies or it raises.      *)
(***************************************************************************)
EXTENDS TokenAccounting, SequencesExt

CONSTANTS
    Treatments,     \* conditions other than BASE
    BASE,           \* BASELINE_CONDITION
    Series,         \* pairs of a model and a prompt
    BaselineWindow, \* BASELINE_WINDOW
    Contexts,       \* input tokens of a message
    Outputs,        \* output tokens of a message
    MaxLines,       \* bound on the lines of the first transcript;
                    \* each later one has one line less
    MaxRuns,        \* bound on runs, with those that are made again
    MaxDays         \* bound on days

ASSUME SummaryAssumption ==
    /\ BASE \notin Treatments
    /\ BaselineWindow \in Nat \ {0}
    /\ Contexts \subseteq Nat /\ Outputs \subseteq Nat
    /\ MaxLines \in Nat /\ MaxRuns \in Nat /\ MaxDays \in Nat \ {0}

VARIABLES
    today,
    starts,     \* runs started so far
    jobs,       \* the jobs that were started, in the order of the queue
    lines,      \* the transcript of the one that is running
    summary,    \* rows of run-summary.csv
    comparison  \* rows of comparison.csv

vars == <<today, starts, jobs, lines, summary, comparison>>

Conditions == Treatments \union {BASE}
Statuses == {"succeeded", "failed", "timeout"}
Gaps == {"nothing", "quality", "cost"}

Init ==
    /\ today = 1
    /\ starts = 0 /\ jobs = <<>> /\ lines = <<>>
    /\ summary = <<>> /\ comparison = {}

----------------------------------------------------------------------------
(* A run *)

NextDay ==
    /\ today < MaxDays
    /\ today' = today + 1
    /\ UNCHANGED <<starts, jobs, lines, summary, comparison>>

Running == {p \in DOMAIN jobs : jobs[p].status = "running"}

StartOne ==
    /\ Running = {}
    /\ starts < MaxRuns
    /\ starts' = starts + 1
    /\ lines' = <<>>
    /\ UNCHANGED <<today, summary, comparison>>

StartNew(c, s) ==
    /\ StartOne
    /\ jobs' = Append(jobs, [condition |-> c, series |-> s, date |-> today,
                             status |-> "running", measurable |-> FALSE, lacks |-> "nothing"])

\* A job that is retried, or was requeued, keeps its place in the queue.
StartAgain(p) ==
    /\ StartOne
    /\ jobs[p].status \in {"failed", "timeout", "blocked"}
    /\ jobs' = [jobs EXCEPT ![p].status = "running", ![p].date = today]

Messages == {lines[i].message : i \in DOMAIN lines} \ {0}

\* A message has one line for each of its blocks, with the same usage.
NewLines ==
    [message : {Cardinality(Messages) + 1}, context : Contexts, output : Outputs]
        \union {lines[i] : i \in DOMAIN lines}
        \union {[message |-> 0, context |-> 0, output |-> 0]}

WriteLine(line) ==
    /\ Running # {} /\ Len(lines) <= MaxLines - starts
    /\ lines' = Append(lines, line)
    /\ UNCHANGED <<today, starts, jobs, summary, comparison>>

Measurable(status, turns) == status = "succeeded" /\ IsMeasurable(turns)

\* A measurable run may lack its quality or its cost.
End(p, status, lacks) ==
    /\ p \in Running
    /\ LET measurable == Measurable(status, ExtractTurns(lines))
       IN jobs' = [jobs EXCEPT ![p].status = status, ![p].measurable = measurable,
                               ![p].lacks = IF measurable THEN lacks ELSE "nothing"]
    /\ lines' = <<>>
    /\ UNCHANGED <<today, starts, summary, comparison>>

----------------------------------------------------------------------------
(* rebuild_comparison *)

\* The rows it takes, by their place in the summary.
Compared(rows) == {i \in DOMAIN rows : rows[i].measurable /\ rows[i].lacks # "quality"}

OfSeries(rows, s) == {i \in Compared(rows) : rows[i].series = s}

BaseRuns(rows, s) == {i \in OfSeries(rows, s) : rows[i].condition = BASE}

LastOf(places) ==
    {i \in places : Cardinality({j \in places : j > i}) < BaselineWindow}

FirstOf(places) ==
    {i \in places : Cardinality({j \in places : j < i}) < BaselineWindow}

\* Bug: the last BASE runs, whatever their date.
LatestBases(rows, s, date) == LastOf(BaseRuns(rows, s))

\* Bug: no baseline for the runs of the days before the first BASE run.
EarlierBases(rows, s, date) == LastOf({i \in BaseRuns(rows, s) : rows[i].date <= date})

\* _baseline_window
BaselineFor(rows, s, date) ==
    LET earlier == {i \in BaseRuns(rows, s) : rows[i].date <= date}
    IN IF earlier # {} THEN LastOf(earlier) ELSE FirstOf(BaseRuns(rows, s))

\* _comparison_rows_for_date: a row is the runs and the BASE runs it compares.
ComparisonRow(rows, i) ==
    LET s == rows[i].series
        group == {j \in OfSeries(rows, s) : /\ rows[j].condition = rows[i].condition
                                            /\ rows[j].date = rows[i].date}
    IN [date |-> rows[i].date, condition |-> rows[i].condition, series |-> s,
        runs |-> group, baseline |-> BaselineFor(rows, s, rows[i].date)]

RebuildComparison(rows) ==
    {ComparisonRow(rows, i) : i \in {j \in Compared(rows) :
        rows[j].condition # BASE /\ BaseRuns(rows, rows[j].series) # {}}}

\* float() raises for a row it compares whose cost is missing, and the
\* publication is rolled back.
Rebuildable(rows) == \A i \in Compared(rows) : rows[i].lacks # "cost"

----------------------------------------------------------------------------
(* _collect_jobs *)

RowOf(p) ==
    [run |-> p, status |-> jobs[p].status, date |-> jobs[p].date,
     condition |-> jobs[p].condition, series |-> jobs[p].series,
     measurable |-> jobs[p].measurable, lacks |-> jobs[p].lacks]

IsPublished(p) == \E i \in DOMAIN summary : /\ summary[i].run = p
                                            /\ summary[i].status = jobs[p].status

Waiting == {p \in DOMAIN jobs : jobs[p].status \in Statuses /\ ~IsPublished(p)}

\* In the order of list_jobs.
NewRows == [k \in 1..Cardinality(Waiting) |-> RowOf(Nth(Waiting, k))]

Sync ==
    /\ Waiting # {}
    /\ LET rows == summary \o NewRows
       IN /\ Rebuildable(rows)
          /\ summary' = rows
          /\ comparison' = RebuildComparison(rows)
    /\ UNCHANGED <<today, starts, jobs, lines>>

Next ==
    \/ NextDay
    \/ \E c \in Conditions, s \in Series : StartNew(c, s)
    \/ \E p \in DOMAIN jobs : StartAgain(p)
    \/ \E line \in NewLines : WriteLine(line)
    \/ \E p \in DOMAIN jobs, status \in Statuses \union {"blocked"}, lacks \in Gaps :
            End(p, status, lacks)
    \/ Sync

Spec == Init /\ [][Next]_vars

----------------------------------------------------------------------------
(* Properties *)

Turns == ExtractTurns(lines)

\* The four shares add up to the context the provider charged, whatever the
\* transcript, so that the breakdown of no run has to be withheld.  And unless
\* the run was compacted, the context tax is just what the later turns read
\* again besides the first context and the outputs (reconcile, is_measurable).
SharesAreExact ==
    LET turns == ExtractTurns(lines)
        Outs(k) == Total([j \in DOMAIN turns |-> turns[j].output], k - 1)
    IN /\ Balanced(turns)
       /\ IsMeasurable(turns) =>
            ContextTax(turns) =
                Total([k \in DOMAIN turns |->
                          turns[k].context - turns[1].context - Outs(k)], Len(turns))

\* A further line of a message, or a skipped one, changes no turn
\* (assistant_messages).
RepeatsAddNothing ==
    [][Len(lines') > Len(lines) /\ Last(lines').message \in Messages \union {0}
        => ExtractTurns(lines') = ExtractTurns(lines)]_vars

\* Every measurable and scored run of a treatment whose series has such a BASE
\* run is in just one row of the comparison, with BASE runs of its own series
\* that are measurable and scored; and they are of its day or before, if there
\* are any such (rebuild_comparison, _baseline_window).
ComparedInFull ==
    \A i \in DOMAIN summary :
        LET row == summary[i]
            Bases == {b \in DOMAIN summary :
                        /\ summary[b].condition = BASE
                        /\ summary[b].series = row.series
                        /\ summary[b].measurable /\ summary[b].lacks # "quality"}
            upTo == {b \in Bases : summary[b].date <= row.date}
            mine == {r \in comparison : i \in r.runs}
        IN IF row.condition # BASE /\ row.measurable /\ row.lacks # "quality" /\ Bases # {}
           THEN \E r \in mine : /\ mine = {r}
                                /\ r.baseline # {} /\ r.baseline \subseteq Bases
                                /\ upTo # {} => r.baseline \subseteq upTo
           ELSE mine = {}

\* A day that is over is compared once and for all, if it had its BASE runs:
\* runs that started later never change its rows (rebuild_comparison builds
\* them all anew each time).
PastStays ==
    [][\A r \in comparison :
        /\ \A p \in Waiting : jobs[p].date > r.date
        /\ \E b \in r.baseline : summary[b].date <= r.date
        => r \in comparison']_vars

\* The baseline of a row is recent: no BASE run of its series up to its day is
\* left out that was made on a later day than one that is in.  The comment on
\* the window says that the order of the file is that of the runs
\* (rebuild_comparison, _baseline_window).
BaselineIsRecent ==
    \A r \in comparison :
        LET upTo == {b \in BaseRuns(summary, r.series) : summary[b].date <= r.date}
        IN upTo # {} =>
            \A b \in r.baseline, other \in upTo \ r.baseline :
                summary[other].date <= summary[b].date

\* Runs are compared within one round: the BASE runs of a row are of its day.
\* The documentation of comparison.csv says so (rebuild_comparison).
ComparedWithinRound ==
    \A r \in comparison, b \in DOMAIN summary :
        b \in r.baseline => summary[b].date = r.date
=============================================================================
