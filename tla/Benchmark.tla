------------------------------ MODULE Benchmark ------------------------------
(***************************************************************************)
(* run_benchmark: one benchmark after another over one corpus, with the     *)
(* files they leave to each other.  The cases are read from a file, or      *)
(* derived from the corpus and written there; the report is written, and    *)
(* then compared with a baseline read from another path, or the same.  A    *)
(* benchmark can stop at any step; what it wrote before that stays, and what  *)
(* it was writing is left torn, which no later benchmark can read.          *)
(***************************************************************************)
EXTENDS Integers

CONSTANTS
  Cases,      \* evaluation cases, as _case_key tells them apart
  Paths,      \* where reports are kept
  Bounds,     \* values of read_max_chars (as of any option recorded with it)
  Latencies,  \* median latencies, in ms
  Metrics,    \* what is timed beside the search, when the source is found
  Allowed,    \* max_regression_percent
  MaxRuns,    \* bound on the benchmarks run
  MaxEdits,   \* bound on the times somebody removes a file
  None,       \* no file, no baseline, no value
  Torn        \* a file of which only the beginning was written

ASSUME BenchmarkAssumption ==
  /\ Latencies \subseteq Nat /\ Allowed \in Nat /\ MaxRuns \in Nat /\ MaxEdits \in Nat
  /\ "search" \notin Metrics
  /\ None \notin Nat \cup Paths \cup {"held", "failed", "error"}
  /\ Torn # None /\ \A S \in SUBSET Cases : S \notin {None, Torn}

VARIABLES
  casesFile,  \* the content of options.cases_path
  reports,    \* the content of each path
  pc,         \* what the benchmark does next; "idle" between two
  options,    \* its options
  cases,      \* its cases
  report,     \* its report
  exit,       \* how the last benchmark ended: exit code 0, 1, or raised
  runs, edits,
  before,     \* history: the report at the baseline's path when it began
  kept        \* history: paths with a report written since the cases file was removed

vars == <<casesFile, reports, pc, options, cases, report, exit, runs, edits, before, kept>>

---------------------------------------------------------------------------

\* Some of a case's samples found the source, or all did, or none: only then
\* has the case no reading to time.
Found == {"always", "sometimes", "never"}
Timed(found) == {m \in Metrics : found # "never"} \cup {"search"}
CaseReport == UNION {[found : {f}, median : [Timed(f) -> Latencies]] : f \in Found}
Report == UNION {[bound : Bounds, cases : [S -> CaseReport]] : S \in (SUBSET Cases) \ {{}}}

Median(r, c, m) == IF m \in DOMAIN r.cases[c].median THEN r.cases[c].median[m] ELSE None

Passed(r) == \A c \in DOMAIN r.cases : r.cases[c].found = "always"

Options == [output : Paths, baseline : Paths \cup {None}, bound : Bounds]

Init ==
  /\ casesFile \in ((SUBSET Cases) \ {{}}) \cup {None}
  /\ reports = [p \in Paths |-> None] /\ pc = "idle" /\ options = None
  /\ cases = {} /\ report = None /\ exit = None /\ runs = 0 /\ edits = 0
  /\ before = None /\ kept = {}

---------------------------------------------------------------------------
(* compare_benchmarks.                                                     *)

SameCases(current, baseline) == DOMAIN current.cases = DOMAIN baseline.cases

AnyBound(current, baseline) == SameCases(current, baseline)
Comparable(current, baseline) ==
  current.bound = baseline.bound /\ SameCases(current, baseline)

\* current / baseline - 1 > Allowed percent.
Slower(now, then) == now * 100 > then * (100 + Allowed)

SearchOnly(current, baseline) ==
  {cm \in (DOMAIN current.cases) \X {"search"} :
     Slower(Median(current, cm[1], cm[2]), Median(baseline, cm[1], cm[2]))}
Regressions(current, baseline) ==
  {cm \in (DOMAIN current.cases) \X (Metrics \cup {"search"}) :
     LET now == Median(current, cm[1], cm[2])
         then == Median(baseline, cm[1], cm[2])
     IN  now # None /\ then # None /\ then > 0 /\ Slower(now, then)}

---------------------------------------------------------------------------
(* One benchmark.                                                          *)

Begin(o) ==
  /\ pc = "idle" /\ runs < MaxRuns /\ runs' = runs + 1
  /\ options' = o /\ pc' = "resolve" /\ exit' = None
  /\ before' = IF o.baseline = None THEN None ELSE reports[o.baseline]
  /\ cases' = {} /\ report' = None
  /\ UNCHANGED <<casesFile, reports, edits, kept>>

Finish(code) == exit' = code /\ pc' = "idle"

\* _resolve_cases: read the file, or derive the cases and keep them.  A torn file
\* exists, and does not parse: the benchmark fails.
LoadCases ==
  /\ pc = "resolve" /\ casesFile \notin {None, Torn}
  /\ cases' = casesFile /\ pc' = "measure"
  /\ UNCHANGED <<casesFile, reports, options, report, exit, runs, edits, before, kept>>

Emptied(S) == {}
Unsaved(S) == casesFile
Saved(S) == S

DeriveCases ==
  /\ pc = "resolve" /\ casesFile = None
  /\ \E S \in (SUBSET Cases) \ {{}} : cases' = S /\ casesFile' = Saved(S)
  /\ pc' = "measure"
  /\ UNCHANGED <<reports, options, report, exit, runs, edits, before, kept>>

\* The benchmark is stopped while it writes the cases, or the report: write_text
\* has emptied the file before it fills it.
TearCases ==
  /\ pc = "resolve" /\ casesFile = None /\ casesFile' = Torn /\ Finish("error")
  /\ UNCHANGED <<reports, options, cases, report, runs, edits, before, kept>>

TearReport ==
  /\ pc = "save" /\ reports' = [reports EXCEPT ![options.output] = Torn] /\ Finish("error")
  /\ kept' = kept \ {options.output}
  /\ UNCHANGED <<casesFile, options, cases, report, runs, edits, before>>

\* RetrievalBenchmark.run.
Measure ==
  /\ pc = "measure"
  /\ \E results \in [cases -> CaseReport] :
       report' = [bound |-> options.bound, cases |-> results]
  /\ pc' = "save"
  /\ UNCHANGED <<casesFile, reports, options, cases, exit, runs, edits, before, kept>>

SaveReport ==
  /\ pc = "save" /\ reports' = [reports EXCEPT ![options.output] = report]
  /\ kept' = kept \cup {options.output}
  /\ pc' = "compare"
  /\ UNCHANGED <<casesFile, options, cases, report, exit, runs, edits, before>>

FoundOrFast(regressions) == Passed(report) \/ regressions = {}
Good(regressions) == Passed(report) /\ regressions = {}

\* The baseline is read, and the exit code computed.
Verdict(regressions) == IF Good(regressions) THEN "held" ELSE "failed"

Readable(baseline) == baseline \notin {None, Torn} /\ Comparable(report, baseline)

Compare ==
  /\ pc = "compare"
  /\ IF options.baseline = None THEN Finish(Verdict({}))
     ELSE LET baseline == reports[options.baseline]
          IN  IF Readable(baseline) THEN Finish(Verdict(Regressions(report, baseline)))
              ELSE Finish("error")
  /\ UNCHANGED <<casesFile, reports, options, cases, report, runs, edits, before, kept>>

\* Drive fails, no case can be derived, or the benchmark is stopped.
Fail ==
  /\ pc \in {"resolve", "measure", "save", "compare"} /\ Finish("error")
  /\ UNCHANGED <<casesFile, reports, options, cases, report, runs, edits, before, kept>>

\* Somebody removes a file, to measure afresh.
RemoveFile ==
  /\ pc = "idle" /\ edits < MaxEdits /\ edits' = edits + 1
  /\ \/ casesFile' = None /\ kept' = {} /\ UNCHANGED reports
     \/ \E p \in Paths :
          /\ reports' = [reports EXCEPT ![p] = None] /\ kept' = kept \ {p}
          /\ UNCHANGED casesFile
  /\ UNCHANGED <<pc, options, cases, report, exit, runs, before>>

Next ==
  \/ \E o \in Options : Begin(o)
  \/ LoadCases
  \/ DeriveCases
  \/ TearCases
  \/ TearReport
  \/ Measure
  \/ SaveReport
  \/ Compare
  \/ Fail
  \/ RemoveFile

Spec == Init /\ [][Next]_vars

---------------------------------------------------------------------------
(* Properties.                                                             *)

Held == pc = "idle" /\ exit = "held" /\ options.baseline # None

TypeOK ==
  /\ casesFile \in (SUBSET Cases) \cup {None, Torn} /\ casesFile # {}
  /\ reports \in [Paths -> Report \cup {None, Torn}] /\ report \in Report \cup {None}
  /\ pc \in {"idle", "resolve", "measure", "save", "compare"}
  /\ options \in Options \cup {None} /\ cases \subseteq Cases
  /\ exit \in {None, "held", "failed", "error"} /\ before \in Report \cup {None, Torn}
  /\ runs \in 0..MaxRuns /\ edits \in 0..MaxEdits /\ kept \subseteq Paths

\* benchmark.py:290-298: a gate that held has compared every case of both
\* reports, under the same bound: none was new, renamed or left out, and neither
\* report was missing or torn.
NothingSlipsBy ==
  Held => /\ before \notin {None, Torn} \/ options.output = options.baseline
          /\ options.output # options.baseline =>
               DOMAIN before.cases = DOMAIN report.cases /\ before.bound = report.bound

\* evaluation/README.md:51: the command exits nonzero if a source is missing
\* or a median regresses beyond the threshold, measured against the baseline
\* as it was when the benchmark began.
ExitSaysRegression ==
  Held /\ options.output # options.baseline =>
    /\ Passed(report)
    /\ \A c \in DOMAIN report.cases, m \in Metrics \cup {"search"} :
         LET then == Median(before, c, m)
         IN  then # None /\ then # 0 => ~Slower(Median(report, c, m), then)

\* benchmark_cli.py:122-125: two reports written with no removal of the cases
\* file between them measure the same cases, whoever derived these and however
\* that benchmark ended.  (Otherwise a baseline compares two unrelated things.)
SuccessiveReportsMatch ==
  \A p \in kept : DOMAIN reports[p].cases = casesFile
=============================================================================
