-------------------------- MODULE BenchmarkProofs --------------------------
(***************************************************************************)
(* What a gate that held says, for any cases, files, latencies and allowed   *)
(* percentage, however many benchmarks ran before, stopped, or were stopped; *)
(* and, from the middle on, what a census says and which cases are derived,  *)
(* for any corpus, however its documents are moved.                          *)
(***************************************************************************)
EXTENDS Benchmark, Corpus, ListFacts

Gated == options.baseline # None
OtherPath == options.output # options.baseline

\* The baseline is the report that was there when the benchmark began.
Underway ==
  /\ pc # "idle" => options \in Options
  /\ pc # "idle" /\ Gated /\ (OtherPath \/ pc \in {"resolve", "measure", "save"}) =>
       reports[options.baseline] = before
  /\ pc \in {"save", "compare"} => report \in Report /\ DOMAIN report.cases = cases

\* The cases of the benchmark are those of the file.
SameFile ==
  /\ casesFile \in {None, Torn} => kept = {} /\ pc \in {"idle", "resolve"}
  /\ pc \in {"measure", "save", "compare"} => cases = casesFile

\* What the exit code was computed from.
Judged ==
  Held => /\ OtherPath => /\ before \in Report /\ report \in Report
                          /\ Comparable(report, before)
                          /\ Good(Regressions(report, before))
          /\ before \notin {None, Torn} \/ ~OtherPath

IInv == TypeOK /\ Underway /\ SameFile /\ Judged /\ SuccessiveReportsMatch

LEMMA ReportParts ==
  ASSUME NEW r \in Report
  PROVE  /\ r.bound \in Bounds /\ DOMAIN r.cases \in (SUBSET Cases) \ {{}}
         /\ \A c \in DOMAIN r.cases : r.cases[c] \in CaseReport
<1>1. PICK S \in (SUBSET Cases) \ {{}} : r \in [bound : Bounds, cases : [S -> CaseReport]]
  BY DEF Report
<1>2. r.bound \in Bounds /\ r.cases \in [S -> CaseReport]
  BY <1>1
<1>3. QED
  BY <1>2

LEMMA InitInv == BenchmarkAssumption /\ Init => IInv
<1> SUFFICES ASSUME BenchmarkAssumption, Init
             PROVE  IInv
  OBVIOUS
<1>1. casesFile # {} /\ exit # "held"
  BY DEF BenchmarkAssumption, Init
<1>2. TypeOK
  <2>1. runs \in 0..MaxRuns /\ edits \in 0..MaxEdits
    <3>1. MaxRuns \in Nat /\ MaxEdits \in Nat /\ runs = 0 /\ edits = 0
      BY DEF BenchmarkAssumption, Init
    <3>2. QED
      BY <3>1
  <2>2. QED
    BY <1>1, <2>1 DEF Init, TypeOK
<1>3. Underway /\ SameFile /\ Judged /\ SuccessiveReportsMatch
  BY <1>1 DEF Init, Underway, SameFile, Judged, Held, SuccessiveReportsMatch
<1>4. QED
  BY <1>2, <1>3 DEF IInv

LEMMA BeginStep ==
  ASSUME BenchmarkAssumption, IInv, NEW o \in Options, Begin(o)
  PROVE  IInv'
<1>1. /\ pc' = "resolve" /\ options' = o /\ exit' = None /\ cases' = {} /\ report' = None
      /\ UNCHANGED <<casesFile, reports, edits, kept>>
      /\ before' = IF o.baseline = None THEN None ELSE reports[o.baseline]
  BY DEF Begin
<1>2. runs' \in 0..MaxRuns
  <2>1. /\ runs < MaxRuns /\ runs' = runs + 1 /\ runs \in 0..MaxRuns /\ MaxRuns \in Nat
    BY DEF Begin, IInv, TypeOK, BenchmarkAssumption
  <2>2. QED
    BY <2>1
<1>3. before' \in Report \cup {None, Torn}
  BY <1>1 DEF IInv, TypeOK, Options
<1>4. TypeOK'
  BY <1>1, <1>2, <1>3 DEF IInv, TypeOK
<1>5. Underway'
  BY <1>1 DEF Underway, Gated
<1>6. SameFile' /\ Judged' /\ SuccessiveReportsMatch'
  BY <1>1 DEF IInv, SameFile, Judged, Held, SuccessiveReportsMatch
<1>7. QED
  BY <1>4, <1>5, <1>6 DEF IInv

LEMMA CasesStep ==
  ASSUME BenchmarkAssumption, IInv, LoadCases \/ DeriveCases
  PROVE  IInv'
<1>1. /\ pc = "resolve" /\ pc' = "measure"
      /\ UNCHANGED <<reports, options, report, exit, runs, edits, before, kept>>
  BY DEF LoadCases, DeriveCases
<1>2. /\ cases' = casesFile' /\ casesFile' \in (SUBSET Cases) \ {{}} /\ casesFile' \notin {None, Torn}
      /\ casesFile = None \/ casesFile' = casesFile
  <2>1. CASE LoadCases
    <3>1. casesFile \notin {None, Torn} /\ cases' = casesFile /\ casesFile' = casesFile
      BY <2>1 DEF LoadCases
    <3>2. QED
      BY <3>1 DEF IInv, TypeOK
  <2>2. CASE DeriveCases
    <3>1. PICK S \in (SUBSET Cases) \ {{}} : cases' = S /\ casesFile' = S
      BY <2>2 DEF DeriveCases, Saved
    <3>2. casesFile = None /\ S \notin {None, Torn}
      BY <2>2, <3>1 DEF DeriveCases, BenchmarkAssumption
    <3>3. QED
      BY <3>1, <3>2
  <2>3. QED
    BY <2>1, <2>2
<1>3. TypeOK'
  BY <1>1, <1>2 DEF IInv, TypeOK
<1>4. Underway'
  BY <1>1 DEF IInv, Underway, Gated, OtherPath
<1>5. SameFile' /\ Judged'
  BY <1>1, <1>2 DEF IInv, SameFile, Judged, Held
<1>6. SuccessiveReportsMatch'
  BY <1>1, <1>2 DEF IInv, SameFile, SuccessiveReportsMatch
<1>7. QED
  BY <1>3, <1>4, <1>5, <1>6 DEF IInv

LEMMA MeasureStep ==
  ASSUME BenchmarkAssumption, IInv, Measure
  PROVE  IInv'
<1>1. /\ pc = "measure" /\ pc' = "save"
      /\ UNCHANGED <<casesFile, reports, options, cases, exit, runs, edits, before, kept>>
  BY DEF Measure
<1>2. options \in Options /\ cases \in (SUBSET Cases) \ {{}}
  BY <1>1 DEF IInv, TypeOK, Underway, SameFile
<1>3. PICK results \in [cases -> CaseReport] :
        report' = [bound |-> options.bound, cases |-> results]
  BY DEF Measure
<1>4. report' \in [bound : Bounds, cases : [cases -> CaseReport]]
  BY <1>2, <1>3 DEF Options
<1>5. report' \in Report /\ DOMAIN report'.cases = cases
  BY <1>2, <1>3, <1>4 DEF Report
<1>6. TypeOK'
  BY <1>1, <1>5 DEF IInv, TypeOK
<1>7. Underway'
  BY <1>1, <1>5 DEF IInv, Underway, Gated, OtherPath
<1>8. SameFile' /\ Judged' /\ SuccessiveReportsMatch'
  BY <1>1 DEF IInv, SameFile, Judged, Held, SuccessiveReportsMatch
<1>9. QED
  BY <1>6, <1>7, <1>8 DEF IInv

LEMMA SaveStep ==
  ASSUME BenchmarkAssumption, IInv, SaveReport
  PROVE  IInv'
<1>1. /\ pc = "save" /\ pc' = "compare" /\ kept' = kept \cup {options.output}
      /\ reports' = [reports EXCEPT ![options.output] = report]
      /\ UNCHANGED <<casesFile, options, cases, report, exit, runs, edits, before>>
  BY DEF SaveReport
<1>2. options \in Options /\ report \in Report /\ DOMAIN report.cases = casesFile
  BY <1>1 DEF IInv, Underway, SameFile
<1>3. options.output \in Paths
  BY <1>2 DEF Options
<1>4. TypeOK'
  BY <1>1, <1>2, <1>3 DEF IInv, TypeOK
<1>5. Gated /\ OtherPath => reports'[options.baseline] = before
  <2>1. Gated => options.baseline \in Paths
    BY <1>2 DEF Gated, Options
  <2>2. Gated => reports[options.baseline] = before
    BY <1>1 DEF IInv, Underway
  <2>3. QED
    BY <1>1, <1>3, <2>1, <2>2 DEF IInv, TypeOK, OtherPath
<1>6. Underway'
  BY <1>1, <1>2, <1>5 DEF IInv, Underway, Gated, OtherPath
<1>7. SameFile'
  BY <1>1 DEF IInv, SameFile
<1>8. Judged'
  BY <1>1 DEF Judged, Held
<1>9. SuccessiveReportsMatch'
  <2> SUFFICES ASSUME NEW p \in kept'
               PROVE  DOMAIN reports'[p].cases = casesFile
    BY <1>1 DEF SuccessiveReportsMatch
  <2>1. CASE p = options.output
    BY <1>1, <1>2, <1>3, <2>1 DEF IInv, TypeOK
  <2>2. CASE p # options.output
    BY <1>1, <1>3, <2>2 DEF IInv, TypeOK, SuccessiveReportsMatch
  <2>3. QED
    BY <2>1, <2>2
<1>10. QED
  BY <1>4, <1>6, <1>7, <1>8, <1>9 DEF IInv

\* The verdict is given on the reports that the gate says it compared.
LEMMA CompareStep ==
  ASSUME BenchmarkAssumption, IInv, Compare
  PROVE  IInv'
<1>1. /\ pc = "compare" /\ pc' = "idle"
      /\ UNCHANGED <<casesFile, reports, options, cases, report, runs, edits, before, kept>>
  BY DEF Compare, Finish
<1>2. exit' \in {"held", "failed", "error"}
  BY DEF Compare, Finish, Verdict
<1>3. options \in Options /\ report \in Report
  BY <1>1 DEF IInv, Underway
<1>4. TypeOK' /\ Underway' /\ SameFile'
  BY <1>1, <1>2 DEF IInv, TypeOK, Underway, Gated, OtherPath, SameFile
<1>5. ASSUME Held', OtherPath
      PROVE  /\ before \in Report /\ Comparable(report, before)
             /\ Good(Regressions(report, before))
  <2>1. Gated /\ exit' = "held"
    BY <1>1, <1>5 DEF Held, Gated
  <2>2. before = reports[options.baseline] /\ options.baseline \in Paths
    BY <1>1, <1>3, <1>5, <2>1 DEF IInv, Underway, Gated, Options
  <2>3. Readable(before) /\ exit' = Verdict(Regressions(report, before))
    BY <2>1, <2>2 DEF Compare, Finish, Gated
  <2>4. Good(Regressions(report, before))
    BY <2>1, <2>3 DEF Verdict
  <2>5. before \in Report
    BY <2>2, <2>3 DEF IInv, TypeOK, Readable
  <2>6. QED
    BY <2>3, <2>4, <2>5 DEF Readable
<1>6. ASSUME Held', OtherPath
      PROVE  before \notin {None, Torn}
  <2>1. Gated /\ exit' = "held"
    BY <1>1, <1>6 DEF Held, Gated
  <2>2. before = reports[options.baseline]
    BY <1>1, <1>6, <2>1 DEF IInv, Underway
  <2>3. QED
    BY <2>1, <2>2 DEF Compare, Finish, Gated, Readable
<1>7. Judged'
  BY <1>1, <1>3, <1>5, <1>6 DEF Judged, OtherPath, Good, Passed
<1>8. SuccessiveReportsMatch'
  BY <1>1 DEF IInv, SuccessiveReportsMatch
<1>9. QED
  BY <1>4, <1>7, <1>8 DEF IInv

LEMMA FailStep ==
  ASSUME BenchmarkAssumption, IInv, Fail
  PROVE  IInv'
<1>1. /\ pc # "idle" /\ pc' = "idle" /\ exit' = "error"
      /\ UNCHANGED <<casesFile, reports, options, cases, report, runs, edits, before, kept>>
  BY DEF Fail, Finish
<1>2. QED
  BY <1>1 DEF IInv, TypeOK, Underway, Gated, OtherPath, SameFile, Judged, Held,
              SuccessiveReportsMatch

LEMMA TearStep ==
  ASSUME BenchmarkAssumption, IInv, TearCases \/ TearReport
  PROVE  IInv'
<1>1. CASE TearCases
  <2>1. /\ pc = "resolve" /\ casesFile = None /\ casesFile' = Torn /\ pc' = "idle" /\ exit' = "error"
        /\ UNCHANGED <<reports, options, cases, report, runs, edits, before, kept>>
    BY <1>1 DEF TearCases, Finish
  <2>2. casesFile' # {} /\ kept = {}
    BY <2>1 DEF BenchmarkAssumption, IInv, SameFile
  <2>3. TypeOK' /\ Underway' /\ SameFile' /\ Judged'
    BY <2>1, <2>2 DEF IInv, TypeOK, Underway, Gated, OtherPath, SameFile, Judged, Held
  <2>4. SuccessiveReportsMatch'
    BY <2>1, <2>2 DEF SuccessiveReportsMatch
  <2>5. QED
    BY <2>3, <2>4 DEF IInv
<1>2. CASE TearReport
  <2>1. /\ pc = "save" /\ pc' = "idle" /\ exit' = "error" /\ kept' = kept \ {options.output}
        /\ reports' = [reports EXCEPT ![options.output] = Torn]
        /\ UNCHANGED <<casesFile, options, cases, report, runs, edits, before>>
    BY <1>2 DEF TearReport, Finish
  <2>2. options.output \in Paths
    BY <2>1 DEF IInv, Underway, Options
  <2>3. TypeOK'
    BY <2>1, <2>2 DEF IInv, TypeOK
  <2>4. Underway' /\ SameFile' /\ Judged'
    BY <2>1 DEF IInv, Underway, SameFile, Judged, Held
  <2>5. SuccessiveReportsMatch'
    BY <2>1 DEF IInv, TypeOK, SuccessiveReportsMatch
  <2>6. QED
    BY <2>3, <2>4, <2>5 DEF IInv
<1>3. QED
  BY <1>1, <1>2

LEMMA RemoveStep ==
  ASSUME BenchmarkAssumption, IInv, RemoveFile
  PROVE  IInv'
<1>1. /\ pc = "idle" /\ edits' \in 0..MaxEdits
      /\ UNCHANGED <<pc, options, cases, report, exit, runs, before>>
  <2>1. /\ edits < MaxEdits /\ edits' = edits + 1 /\ edits \in 0..MaxEdits
        /\ MaxEdits \in Nat
    BY DEF RemoveFile, IInv, TypeOK, BenchmarkAssumption
  <2>2. edits' \in 0..MaxEdits
    BY <2>1
  <2>3. QED
    BY <2>2 DEF RemoveFile
<1>2. CASE casesFile' = None /\ kept' = {} /\ UNCHANGED reports
  <2>1. casesFile' # {}
    BY <1>2 DEF BenchmarkAssumption
  <2>2. TypeOK' /\ Underway' /\ SameFile' /\ SuccessiveReportsMatch'
    BY <1>1, <1>2, <2>1 DEF IInv, TypeOK, Underway, SameFile, SuccessiveReportsMatch
  <2>3. QED
    BY <1>1, <2>2 DEF IInv, Judged, Held, OtherPath, Good, Passed
<1>3. ASSUME NEW p \in Paths, reports' = [reports EXCEPT ![p] = None],
             kept' = kept \ {p}, UNCHANGED casesFile
      PROVE  IInv'
  <2>1. TypeOK' /\ Underway'
    BY <1>1, <1>3 DEF IInv, TypeOK, Underway
  <2>2. SameFile'
    BY <1>1, <1>3 DEF IInv, SameFile
  <2>3. SuccessiveReportsMatch'
    BY <1>3 DEF IInv, TypeOK, SuccessiveReportsMatch
  <2>4. QED
    BY <1>1, <2>1, <2>2, <2>3 DEF IInv, Judged, Held, OtherPath, Good, Passed
<1>4. QED
  BY <1>2, <1>3 DEF RemoveFile

LEMMA StutterStep ==
  ASSUME IInv, UNCHANGED vars
  PROVE  IInv'
BY DEF IInv, vars, TypeOK, Underway, Gated, OtherPath, SameFile, Judged, Held, Good, Passed,
       SuccessiveReportsMatch

LEMMA Inductive == BenchmarkAssumption /\ IInv /\ [Next]_vars => IInv'
<1> SUFFICES ASSUME BenchmarkAssumption, IInv, [Next]_vars
             PROVE  IInv'
  OBVIOUS
<1>1. ASSUME NEW o \in Options, Begin(o)
      PROVE  IInv'
  BY <1>1, BeginStep
<1>2. QED
  BY <1>1, CasesStep, MeasureStep, SaveStep, CompareStep, FailStep, TearStep, RemoveStep, StutterStep
     DEF Next

LEMMA Invariance == Spec => []IInv
BY BenchmarkAssumption, InitInv, Inductive, PTL DEF Spec

---------------------------------------------------------------------------

\* Every variable keeps its type, whatever is measured, removed or stopped.
THEOREM TypeCorrect == Spec => []TypeOK
<1>1. IInv => TypeOK
  BY DEF IInv
<1>2. QED
  BY <1>1, Invariance, PTL

\* benchmark_cli.py:122-125: reports with no removal of the cases file between
\* them measure the same cases, however many there are.
THEOREM ReportsMatch == Spec => []SuccessiveReportsMatch
<1>1. IInv => SuccessiveReportsMatch
  BY DEF IInv
<1>2. QED
  BY <1>1, Invariance, PTL

\* benchmark.py:290-298: a gate that held has compared every case of both
\* reports under one bound.
THEOREM AllCompared == Spec => []NothingSlipsBy
<1>1. IInv => NothingSlipsBy
  <2> SUFFICES ASSUME IInv, Held
               PROVE  NothingSlipsBy
    BY DEF NothingSlipsBy
  <2>1. QED
    BY DEF IInv, Judged, NothingSlipsBy, OtherPath, Comparable, SameCases
<1>2. QED
  BY <1>1, Invariance, PTL

\* A case whose source every sample found has a median for all that is timed.
LEMMA AllTimed ==
  ASSUME NEW r \in Report, NEW c \in DOMAIN r.cases, r.cases[c].found = "always",
         NEW m \in Metrics \cup {"search"}
  PROVE  m \in DOMAIN r.cases[c].median /\ Median(r, c, m) \in Latencies
<1>1. PICK f \in Found : r.cases[c] \in [found : {f}, median : [Timed(f) -> Latencies]]
  BY ReportParts DEF CaseReport
<1>2. f = "always" /\ r.cases[c].median \in [Timed(f) -> Latencies]
  BY <1>1
<1>3. m \in Timed(f)
  BY <1>2 DEF Timed
<1>4. QED
  BY <1>2, <1>3 DEF Median

\* evaluation/README.md:51: a gate that held found every source, and no median
\* is slower than its baseline by more than was allowed.
THEOREM ExitIsRight == Spec => []ExitSaysRegression
<1>1. IInv => ExitSaysRegression
  <2> SUFFICES ASSUME IInv, Held, OtherPath
               PROVE  ExitSaysRegression
    BY DEF ExitSaysRegression, OtherPath
  <2>1. /\ before \in Report /\ report \in Report /\ SameCases(report, before)
        /\ Passed(report) /\ Regressions(report, before) = {}
    BY DEF IInv, Judged, Comparable, Good
  <2>2. ASSUME NEW c \in DOMAIN report.cases, NEW m \in Metrics \cup {"search"},
               Median(before, c, m) # None, Median(before, c, m) # 0
        PROVE  ~Slower(Median(report, c, m), Median(before, c, m))
    <3>1. Median(report, c, m) # None
      BY <2>1, AllTimed, BenchmarkAssumption DEF Passed, BenchmarkAssumption
    <3>2. Median(before, c, m) \in Latencies
      <4>1. before.cases[c] \in CaseReport
        BY <2>1, ReportParts DEF SameCases
      <4>2. PICK f \in Found :
              before.cases[c] \in [found : {f}, median : [Timed(f) -> Latencies]]
        BY <4>1 DEF CaseReport
      <4>3. m \in DOMAIN before.cases[c].median
        BY <2>2 DEF Median
      <4>4. QED
        BY <4>2, <4>3 DEF Median
    <3>3. Median(before, c, m) > 0
      <4> DEFINE then == Median(before, c, m)
      <4>1. then \in Nat /\ then # 0
        BY <2>2, <3>2, BenchmarkAssumption DEF BenchmarkAssumption
      <4> HIDE DEF then
      <4>2. then > 0
        BY <4>1
      <4>3. QED
        BY <4>2 DEF then
    <3>4. <<c, m>> \notin Regressions(report, before)
      BY <2>1
    <3>5. QED
      BY <2>2, <3>1, <3>3, <3>4 DEF Regressions
  <2>3. QED
    BY <2>1, <2>2 DEF ExitSaysRegression
<1>2. QED
  BY <1>1, Invariance, PTL

---------------------------------------------------------------------------
(* The corpus: its folders in batches.                                     *)

\* Rounding down.
LEMMA Quotient ==
  ASSUME NEW x \in Nat, NEW n \in Nat, n > 0
  PROVE  /\ x \div n \in Nat
         /\ n * (x \div n) <= x /\ x < n * (x \div n) + n
  OBVIOUS

\* Multiples of n are n apart.
LEMMA Multiples ==
  ASSUME NEW n \in Nat, NEW a \in Nat, NEW b \in Nat, a < b
  PROVE  n * a + n <= n * b
<1>1. PICK d \in Nat : b = a + 1 + d
  <2>1. b - a - 1 \in Nat /\ b = a + 1 + (b - a - 1)
    OBVIOUS
  <2>2. QED
    BY <2>1
<1>2. n * b = n * a + n + n * d
  BY <1>1
<1>3. n * d \in Nat /\ n * a \in Nat
  OBVIOUS
<1>4. QED
  BY <1>2, <1>3

\* The batches are as many as cover the folders, and share none.
LEMMA BatchFacts ==
  ASSUME CorpusAssumption
  PROVE  /\ SearchBatches \in Nat
         /\ \A n \in Nat : n * BatchSize < Len(FolderIds) <=> n < SearchBatches
         /\ \A n \in Nat : BatchAt(n * BatchSize) = Batch(n + 1)
         /\ \A g \in Folders : \E b \in 1..SearchBatches : g \in Batch(b)
         /\ \A b, c \in 1..SearchBatches : Batch(b) \cap Batch(c) # {} => b = c
<1> DEFINE L == Len(FolderIds)
           B == BatchSize
           S == SearchBatches
<1>1. L \in Nat /\ B \in Nat /\ B > 0 /\ DOMAIN FolderIds = 1..L /\ IsInjective(FolderIds)
  BY DEF CorpusAssumption
<1>2. S \in Nat /\ B * S <= L + B - 1 /\ L + B - 1 < B * S + B
  <2>1. L + B - 1 \in Nat
    BY <1>1
  <2>2. S = (L + B - 1) \div B
    BY DEF SearchBatches
  <2> HIDE DEF L, B, S
  <2>3. QED
    BY <1>1, <2>1, <2>2, Quotient
<1> HIDE DEF L, B, S
<1>3. ASSUME NEW n \in Nat PROVE n * B < L <=> n < S
  <2>1. n * B = B * n /\ n * B \in Nat /\ B * S \in Nat
    BY <1>1, <1>2
  <2>2. CASE n < S
    <3>1. B * n + B <= B * S
      BY <1>1, <1>2, <2>2, Multiples
    <3>2. QED
      BY <1>1, <1>2, <2>1, <2>2, <3>1
  <2>3. CASE S < n
    <3>1. B * S + B <= B * n
      BY <1>1, <1>2, <2>3, Multiples
    <3>2. QED
      BY <1>1, <1>2, <2>1, <2>3, <3>1
  <2>4. CASE S = n
    BY <1>1, <1>2, <2>1, <2>4
  <2>5. QED
    BY <1>2, <2>2, <2>3, <2>4
<1>4. ASSUME NEW n \in Nat PROVE BatchAt(n * BatchSize) = Batch(n + 1)
  <2>1. n + 1 - 1 = n /\ BatchSize * n = n * BatchSize
    BY <1>1 DEF B
  <2>2. QED
    BY <2>1 DEF Batch
<1>5. ASSUME NEW g \in Folders PROVE \E b \in 1..S : g \in Batch(b)
  <2>1. PICK k \in 1..L : FolderIds[k] = g
    BY <1>1 DEF Folders, ToSet
  <2> DEFINE q == (k - 1) \div B
  <2>2. k - 1 \in Nat /\ k \in Nat
    BY <1>1
  <2>3. q \in Nat /\ B * q <= k - 1 /\ k - 1 < B * q + B
    BY <1>1, <2>2, Quotient
  <2> HIDE DEF q
  <2>4. B * q \in Nat /\ B * q < k /\ k <= B * q + B /\ q * B < L
    BY <1>1, <2>2, <2>3
  <2>5. q < S /\ q + 1 \in 1..S /\ (q + 1) - 1 = q
    BY <1>2, <1>3, <2>3, <2>4
  <2>6. g \in BatchAt(B * q)
    BY <1>1, <2>1, <2>4 DEF BatchAt, B
  <2>7. g \in Batch(q + 1)
    BY <2>5, <2>6 DEF Batch, B
  <2>8. QED
    BY <2>5, <2>7
<1>6. ASSUME NEW b \in 1..S, NEW c \in 1..S, b < c PROVE Batch(b) \cap Batch(c) = {}
  <2> SUFFICES ASSUME NEW g \in Batch(b), g \in Batch(c) PROVE FALSE
    OBVIOUS
  <2>1. PICK k \in 1..L : FolderIds[k] = g /\ k <= B * (b - 1) + B
    BY <1>1 DEF Batch, BatchAt, B
  <2>2. PICK m \in 1..L : FolderIds[m] = g /\ B * (c - 1) < m
    BY <1>1 DEF Batch, BatchAt, B
  <2>3. k = m
    BY <1>1, <2>1, <2>2 DEF IsInjective
  <2>4. b - 1 \in Nat /\ c - 1 \in Nat /\ b - 1 < c - 1
    BY <1>2, <1>6
  <2>5. B * (b - 1) + B <= B * (c - 1)
    BY <1>1, <2>4, Multiples
  <2>6. B * (b - 1) \in Nat /\ B * (c - 1) \in Nat /\ k \in Nat
    BY <1>1, <2>4
  <2> DEFINE lo == B * (b - 1)
             hi == B * (c - 1)
  <2>7. lo \in Nat /\ hi \in Nat /\ k \in Nat /\ B \in Nat /\ k <= lo + B /\ lo + B <= hi /\ hi < k
    BY <1>1, <2>1, <2>2, <2>3, <2>5, <2>6
  <2> HIDE DEF lo, hi
  <2>8. QED
    BY <2>7
<1>7. QED
  <2>1. \A b, c \in 1..S : Batch(b) \cap Batch(c) # {} => b = c
    <3> TAKE b, c \in 1..S
    <3>1. b < c \/ c < b \/ b = c
      BY <1>2
    <3>2. QED
      BY <1>6, <3>1
  <2>2. QED
    BY <1>2, <1>3, <1>4, <1>5, <2>1 DEF L, B, S


---------------------------------------------------------------------------
(* What a search shows.                                                    *)

\* x is ahead of y in the ranking.
RankedBefore == {r \in Items \X Items : \E m, n \in DOMAIN ranking : m < n /\ ranking[m] = r[1] /\ ranking[n] = r[2]}

LEMMA RankingFacts ==
  ASSUME CorpusAssumption, ranking \in Rankings
  PROVE  /\ ranking \in Seq(Items) /\ IsInjective(ranking)
         /\ ToSet(ranking) = {i \in Items : Keyword[i] # Nothing}
         /\ Sorted(ranking, RankedBefore)
<1> DEFINE S == {i \in Items : Keyword[i] # Nothing}
<1>1. IsFiniteSet(Items) /\ ranking \in SetToSeqs(S)
  BY DEF CorpusAssumption
<1>2. S \in SUBSET Items
  OBVIOUS
<1> HIDE DEF S
<1>3. IsFiniteSet(S)
  BY <1>1, <1>2, FS_Subset
<1>4. ranking \in Seq(Items) /\ IsInjective(ranking) /\ ToSet(ranking) = S
  BY <1>1, <1>2, <1>3, Ordering
<1>5. Sorted(ranking, RankedBefore)
  <2>1. DOMAIN ranking = 1..Len(ranking) /\ \A m \in 1..Len(ranking) : ranking[m] \in Items
    BY <1>4
  <2>2. SUFFICES ASSUME NEW m \in 1..Len(ranking), NEW n \in 1..Len(ranking), m < n
                 PROVE  <<ranking[m], ranking[n]>> \in RankedBefore
    BY DEF Sorted
  <2>3. QED
    BY <2>1, <2>2 DEF RankedBefore
<1>6. QED
  BY <1>4, <1>5 DEF S

\* Of a batch: documents that match and are safe, in the order of the ranking.
LEMMA BatchHitsFacts ==
  ASSUME CorpusAssumption, ranking \in Rankings, NEW word, NEW folders, NEW n \in Nat
  PROVE  /\ BatchHits(word, folders, n) \in Seq(Items) /\ IsInjective(BatchHits(word, folders, n))
         /\ ToSet(BatchHits(word, folders, n)) \subseteq {i \in Matching(word, folders) : Safe(i)}
         /\ Sorted(BatchHits(word, folders, n), RankedBefore)
<1> DEFINE M == Matching(word, folders)
           S == {i \in Items : Safe(i)}
           q == Filtered(ranking, M)
           f == First(q, n)
           h == Filtered(f, S)
<1>1. ranking \in Seq(Items) /\ IsInjective(ranking) /\ Sorted(ranking, RankedBefore)
  BY RankingFacts
<1>2. M \subseteq Items
  BY DEF Matching, Listed
<1> HIDE DEF M, S
<1>3. /\ q \in Seq(Items) /\ ToSet(q) = ToSet(ranking) \cap M /\ IsInjective(q)
      /\ Sorted(q, RankedBefore)
  BY <1>1, FilteredSet, FilteredOnce, FilteredSorted
<1> HIDE DEF q
<1>4. /\ f \in Seq(Items) /\ Len(f) = IF Len(q) < n THEN Len(q) ELSE n
      /\ \A k \in 1..Len(f) : f[k] = q[k]
      /\ IsInjective(q) => IsInjective(f)
  BY <1>3, FirstOf
<1>5. Sorted(f, RankedBefore)
  BY <1>3, FirstSorted
<1> HIDE DEF f
<1>6. ToSet(f) \subseteq ToSet(q)
  <2>1. /\ DOMAIN f = 1..Len(f) /\ DOMAIN q = 1..Len(q) /\ Len(q) \in Nat
        /\ Len(f) \in Nat /\ Len(f) <= Len(q)
    BY <1>3, <1>4
  <2>2. \A k \in DOMAIN f : k \in DOMAIN q /\ f[k] = q[k]
    BY <1>4, <2>1
  <2>3. QED
    BY <2>2 DEF ToSet
<1>7. h \in Seq(Items) /\ ToSet(h) = ToSet(f) \cap S /\ IsInjective(h) /\ Sorted(h, RankedBefore)
  BY <1>3, <1>4, <1>5, FilteredSet, FilteredOnce, FilteredSorted
<1>8. h = BatchHits(word, folders, n)
  BY DEF BatchHits, h, f, q, M, S
<1> HIDE DEF h
<1>9. ToSet(h) \subseteq {i \in M : Safe(i)}
  BY <1>3, <1>6, <1>7 DEF S
<1>10. QED
  BY <1>7, <1>8, <1>9 DEF M

LEMMA HitsFacts ==
  ASSUME CorpusAssumption, ranking \in Rankings, NEW word, NEW limit \in Nat
  PROVE  Hits(word, limit) \in Seq(Items) /\ \A j \in ToSet(Hits(word, limit)) : Safe(j)
<1> DEFINE N == SearchBatches
           f == [b \in 1..N |-> BatchHits(word, Batch(b), limit + 1)]
<1>1. N \in Nat
  BY BatchFacts
<1> HIDE DEF N
<1>2. limit + 1 \in Nat
  OBVIOUS
<1>3. \A b \in 1..N :
        /\ BatchHits(word, Batch(b), limit + 1) \in Seq(Items)
        /\ ToSet(BatchHits(word, Batch(b), limit + 1)) \subseteq {i \in Items : Safe(i)}
  <2> TAKE b \in 1..N
  <2>1. /\ BatchHits(word, Batch(b), limit + 1) \in Seq(Items)
        /\ ToSet(BatchHits(word, Batch(b), limit + 1)) \subseteq {i \in Matching(word, Batch(b)) : Safe(i)}
    BY <1>2, BatchHitsFacts
  <2>2. Matching(word, Batch(b)) \subseteq Items
    BY DEF Matching, Listed
  <2>3. QED
    BY <2>1, <2>2
<1>4. f \in Seq(Seq(Items)) /\ Len(f) = N /\ \A b \in 1..N : ToSet(f[b]) \subseteq {i \in Items : Safe(i)}
  BY <1>1, <1>3
<1>5. Hits(word, limit) = First(InterleaveByRank(f), limit)
  BY DEF Hits, N
<1> HIDE DEF f
<1> DEFINE merged == InterleaveByRank(f)
           shown == First(merged, limit)
<1>6. merged \in Seq(Items) /\ ToSet(merged) = UNION {ToSet(f[b]) : b \in 1..N}
  BY <1>4, Interleaved
<1>7. \A j \in ToSet(merged) : Safe(j)
  BY <1>4, <1>6
<1> HIDE DEF merged
<1>8. /\ shown \in Seq(Items) /\ Len(shown) <= Len(merged) /\ Len(merged) \in Nat
      /\ \A k \in 1..Len(shown) : shown[k] = merged[k]
  <2>1. /\ shown \in Seq(Items)
        /\ Len(shown) = IF Len(merged) < limit THEN Len(merged) ELSE limit
        /\ \A k \in 1..Len(shown) : shown[k] = merged[k]
    BY <1>6, FirstOf
  <2>2. Len(merged) \in Nat
    BY <1>6
  <2> HIDE DEF shown
  <2>3. QED
    BY <2>1, <2>2
<1> HIDE DEF shown
<1>9. ASSUME NEW k \in 1..Len(shown) PROVE Safe(shown[k])
  <2>1. k \in 1..Len(merged) /\ shown[k] = merged[k] /\ DOMAIN merged = 1..Len(merged)
    BY <1>6, <1>8
  <2>2. QED
    BY <1>7, <2>1 DEF ToSet
<1>10. \A j \in ToSet(shown) : Safe(j)
  <2>1. DOMAIN shown = 1..Len(shown)
    BY <1>8
  <2>2. QED
    BY <1>9, <2>1 DEF ToSet
<1>11. QED
  BY <1>5, <1>8, <1>10 DEF shown, merged

\* The documents that match a case's path, first match first.
LEMMA SourcesFacts ==
  ASSUME CorpusAssumption, ranking \in Rankings, NEW c, c.limit \in Nat
  PROVE  /\ Sources(c) \in Seq(Items)
         /\ ToSet(Sources(c)) =
              {j \in ToSet(Hits(Keyword[c.item], c.limit)) : PathContains(j, c.item, c.home)}
<1> DEFINE h == Hits(Keyword[c.item], c.limit)
           P == {j \in ToSet(h) : PathContains(j, c.item, c.home)}
<1>1. h \in Seq(Items)
  BY HitsFacts
<1>2. Sources(c) = Filtered(h, P)
  BY DEF Sources
<1> HIDE DEF h
<1>3. ToSet(h) \cap P = {j \in ToSet(h) : PathContains(j, c.item, c.home)}
  OBVIOUS
<1> HIDE DEF P
<1>4. Filtered(h, P) \in Seq(Items) /\ ToSet(Filtered(h, P)) = ToSet(h) \cap P
  BY <1>1, FilteredSet
<1>5. QED
  BY <1>2, <1>3, <1>4 DEF h

\* A document of one batch has one batch of hits to be in.
LEMMA SafeInBatch ==
  ASSUME CorpusAssumption, place \in [Items -> Parents], NEW i \in Items, Safe(i), NEW folders
  PROVE  i \in Listed(folders) <=> place[i][1] \in folders
<1>1. place[i] \in Seq(Folders \cup {Elsewhere}) /\ Len(place[i]) = 1
  BY DEF Safe, Parents
<1>2. DOMAIN place[i] = {1}
  BY <1>1
<1>3. ToSet(place[i]) = {place[i][1]}
  BY <1>2 DEF ToSet
<1>4. QED
  BY <1>3 DEF Listed

\* A document far enough ahead in the ranking is shown.
LEMMA SureFound ==
  ASSUME CorpusAssumption, ranking \in Rankings, place \in [Items -> Parents],
         NEW i \in Items, Sure(i)
  PROVE  i \in ToSet(Hits(Keyword[i], VerifyLimit))
<1> DEFINE w == Keyword[i]
           N == SearchBatches
           n == VerifyLimit + 1
           f == [b \in 1..N |-> BatchHits(w, Batch(b), n)]
           A == InFront(i)
<1>1. /\ Safe(i) /\ Keyword[i] # Nothing /\ (Cardinality(A) + 1) * N <= VerifyLimit
      /\ VerifyLimit \in Nat /\ n \in Nat /\ IsFiniteSet(Items)
  BY DEF Sure, Reads, CorpusAssumption
<1>2. /\ ranking \in Seq(Items) /\ IsInjective(ranking) /\ i \in ToSet(ranking)
      /\ Sorted(ranking, RankedBefore)
  BY <1>1, RankingFacts
<1>3. IsFiniteSet(A) /\ Cardinality(A) \in Nat
  <2>1. A \in SUBSET Items
    BY DEF InFront
  <2> HIDE DEF A
  <2>2. QED
    BY <1>1, <2>1, FS_Subset, FS_CardinalityType
<1>4. ASSUME NEW y, <<y, i>> \in RankedBefore, Keyword[y] = Keyword[i]
      PROVE  y \in A
  <2>1. y \in Items /\ \E m, k \in DOMAIN ranking : m < k /\ ranking[m] = y /\ ranking[k] = i
    BY <1>4 DEF RankedBefore
  <2>2. QED
    BY <1>4, <2>1 DEF InFront
<1>5. N \in Nat
  BY BatchFacts
<1>6. PICK b \in 1..N : place[i][1] \in Batch(b)
  BY <1>1, BatchFacts DEF Safe
<1>7. i \in Listed(Batch(b))
  BY <1>1, <1>6, SafeInBatch
\* It is among the first of its batch that Drive is asked for.
<1> DEFINE M == Matching(w, Batch(b))
           S == {j \in Items : Safe(j)}
           q == Filtered(ranking, M)
           g == First(q, n)
           h == Filtered(g, S)
<1>8. i \in M /\ i \in S /\ \A y \in M : Keyword[y] = Keyword[i]
  BY <1>1, <1>7 DEF Matching
<1>9. h = BatchHits(w, Batch(b), n)
  BY DEF BatchHits
<1> HIDE DEF M, S, A, w, N, n
<1>10. /\ q \in Seq(Items) /\ ToSet(q) = ToSet(ranking) \cap M /\ IsInjective(q)
       /\ Sorted(q, RankedBefore)
  BY <1>2, FilteredSet, FilteredOnce, FilteredSorted
<1> HIDE DEF q
<1>11. PICK p \in 1..Len(q) : q[p] = i /\ p <= Cardinality(A) + 1
  <2>1. i \in ToSet(q)
    BY <1>2, <1>8, <1>10
  <2>2. \A y \in ToSet(q) : <<y, i>> \in RankedBefore => y \in A
    BY <1>4, <1>8, <1>10
  <2>3. QED
    BY <1>3, <1>10, <2>1, <2>2, PlaceOf
<1>12. p \in Nat /\ N > 0 /\ Cardinality(A) + 1 <= (Cardinality(A) + 1) * N
  <2>1. N > 0 /\ p \in Nat
    BY <1>5, <1>6, <1>11
  <2> DEFINE a == Cardinality(A) + 1
  <2>2. a \in Nat
    BY <1>3
  <2> HIDE DEF a
  <2>3. a <= a * N
    BY <1>5, <2>1, <2>2
  <2>4. QED
    BY <2>1, <2>3 DEF a
<1>13. p <= n
  BY <1>1, <1>3, <1>5, <1>11, <1>12 DEF n
<1>14. /\ g \in Seq(Items) /\ Len(g) = IF Len(q) < n THEN Len(q) ELSE n
       /\ \A k \in 1..Len(g) : g[k] = q[k]
       /\ IsInjective(q) => IsInjective(g)
  BY <1>1, <1>10, FirstOf
<1> HIDE DEF g
<1>15. i \in ToSet(g)
  <2>1. p \in 1..Len(g) /\ DOMAIN g = 1..Len(g)
    BY <1>1, <1>10, <1>11, <1>12, <1>13, <1>14
  <2>2. g[p] = i
    BY <1>11, <1>14, <2>1
  <2>3. QED
    BY <2>1, <2>2 DEF ToSet
<1>16. i \in ToSet(h)
  BY <1>8, <1>14, <1>15, FilteredSet
<1> HIDE DEF h
\* And not far behind among those that are shown of the batch.
<1>17. \A c \in 1..N :
         /\ f[c] = BatchHits(w, Batch(c), n)
         /\ f[c] \in Seq(Items) /\ IsInjective(f[c])
         /\ ToSet(f[c]) \subseteq {j \in Matching(w, Batch(c)) : Safe(j)}
         /\ Sorted(f[c], RankedBefore)
  BY <1>1, BatchHitsFacts
<1>18. f \in Seq(Seq(Items)) /\ Len(f) = N
  <2>1. \A c \in 1..N : BatchHits(w, Batch(c), n) \in Seq(Items)
    BY <1>1, BatchHitsFacts
  <2> DEFINE V == Seq(Items)
  <2>2. f \in [1..N -> V]
    BY <2>1, Zenon
  <2> HIDE DEF f, V
  <2>3. f \in Seq(V) /\ Len(f) = N
    BY <1>5, <2>2
  <2>4. QED
    BY <2>3 DEF V
<1>19. f[b] = h
  BY <1>6, <1>9, <1>17
<1> HIDE DEF f
<1>20. PICK r \in 1..Len(f[b]) : f[b][r] = i /\ r <= Cardinality(A) + 1
  <2>1. f[b] \in Seq(Items) /\ IsInjective(f[b]) /\ Sorted(f[b], RankedBefore) /\ i \in ToSet(f[b])
    BY <1>6, <1>16, <1>17, <1>19
  <2>2. \A y \in ToSet(f[b]) : <<y, i>> \in RankedBefore => y \in A
    BY <1>4, <1>6, <1>8, <1>17 DEF M
  <2>3. QED
    BY <1>3, <2>1, <2>2, PlaceOf
<1>21. Separate(f)
  <2>1. ASSUME NEW c \in 1..N, NEW d \in 1..N, NEW j \in ToSet(f[c]), j \in ToSet(f[d])
        PROVE  c = d
    <3>1. Safe(j) /\ j \in Items /\ j \in Listed(Batch(c)) /\ j \in Listed(Batch(d))
      BY <1>17, <2>1 DEF Matching, Listed
    <3>2. place[j][1] \in Batch(c) \cap Batch(d)
      BY <3>1, SafeInBatch
    <3>3. QED
      BY <3>2, BatchFacts DEF N
  <2>2. QED
    BY <1>17, <1>18, <2>1 DEF Separate
<1>22. r * N <= VerifyLimit
  <2> DEFINE a == Cardinality(A) + 1
  <2>1. a \in Nat /\ r \in Nat /\ r <= a /\ a * N <= VerifyLimit
    BY <1>1, <1>3, <1>20
  <2> HIDE DEF a
  <2>2. r * N <= a * N /\ r * N \in Nat /\ a * N \in Nat
    BY <1>5, <2>1
  <2>3. QED
    BY <1>1, <2>1, <2>2
<1>23. f[b][r] \in ToSet(First(InterleaveByRank(f), VerifyLimit))
  BY <1>1, <1>6, <1>18, <1>20, <1>21, <1>22, WithinRank
<1>24. Hits(w, VerifyLimit) = First(InterleaveByRank(f), VerifyLimit)
  BY DEF Hits, f, N, n
<1>25. QED
  BY <1>20, <1>23, <1>24 DEF w


---------------------------------------------------------------------------
(* What holds while the documents are walked, chosen and run.              *)

\* Each stage comes after what it builds on.
Staged ==
  /\ stage = "walking" => todo = {} /\ derived = <<>> /\ skipped = {}
  /\ stage \in {"choosing", "reading", "done"} => lists = SearchBatches
  /\ stage \in {"choosing", "reading"} => op = "derive"
  /\ stage = "reading" => Len(derived) < wanted
  /\ stage = "done" => todo = {} \/ Len(derived) = wanted

\* The counts are near the documents of the batches walked.
Near(n, m, away) == n <= m + away /\ m <= n + away
CountSoFar ==
  op = "census" => \A t \in Types : Near(counts[t], Cardinality(Rows(t, lists)), Astray(t))

\* What was not moved is a candidate once its batch was walked, with its folder.
Gathered ==
  op = "derive" =>
    /\ \A c \in candidates : c.item \notin ToSet(moved) => c.home = place[c.item][1]
    /\ \A i \in Items \ ToSet(moved), b \in 1..lists :
         Reads(i) /\ place[i][1] \in Batch(b) => \E c \in candidates : c.item = i

\* A case is found and reads as long as nothing has moved since it was verified.
Verified(c) == Finds(c) /\ Reads(c.item)
CasesHold ==
  /\ stage = "reading" /\ asOf = Len(moved) => Finds(trying)
  /\ \A k \in 1..Len(derived) :
       /\ derived[k].moves <= Len(moved) /\ derived[k].limit = VerifyLimit
       /\ derived[k].moves = Len(moved) => Verified(derived[k])

\* One case a type, none larger left out; the types still to try are those whose
\* largest document is smaller than that of each type that has a case.
Covered(i) == \E k \in 1..Len(derived) : Type[derived[k].item] = Type[i] /\ Size[derived[k].item] >= Size[i]
LargerType(c, e) == \E d \in candidates : Alike(d, c) /\ Size[d.item] > Size[e.item]
ChoiceSoFar ==
  op = "derive" =>
    /\ stage = "reading" => trying \in Foremost
    /\ \A k, l \in 1..Len(derived) : Alike(derived[k], derived[l]) => k = l
    /\ \A k \in 1..Len(derived), d \in todo : ~Alike(derived[k], d) /\ LargerType(derived[k], d)
    /\ stage \in {"choosing", "reading", "done"} =>
         \A d \in candidates \ todo : Sure(d.item) => d.item \in skipped \/ Covered(d.item)

CorpusInv ==
  CorpusTypeOK /\ Staged /\ CountSoFar /\ Gathered /\ CasesHold /\ ChoiceSoFar /\ DerivedCasesPass

---------------------------------------------------------------------------
(* While nothing moves.                                                    *)

LEMMA SameCorpus ==
  ASSUME place' = place, ranking' = ranking
  PROVE  /\ \A folders : Listed(folders)' = Listed(folders)
         /\ \A i : (Safe(i)' <=> Safe(i)) /\ (Reads(i)' <=> Reads(i))
         /\ \A word, limit : Hits(word, limit)' = Hits(word, limit)
         /\ \A c : Finds(c)' <=> Finds(c)
         /\ \A t, n : Rows(t, n)' = Rows(t, n)
         /\ \A i : InFront(i)' = InFront(i)
<1>1. ASSUME NEW folders PROVE Listed(folders)' = Listed(folders)
  BY Zenon DEF Listed
<1>2. ASSUME NEW i PROVE (Safe(i)' <=> Safe(i)) /\ (Reads(i)' <=> Reads(i))
  BY DEF Safe, Reads
<1>3. ASSUME NEW word, NEW folders PROVE Matching(word, folders)' = Matching(word, folders)
  BY <1>1, Zenon DEF Matching
<1>4. {i \in Items : Safe(i)}' = {i \in Items : Safe(i)}
  BY <1>2, Zenon
<1>5. ASSUME NEW word, NEW folders, NEW n PROVE BatchHits(word, folders, n)' = BatchHits(word, folders, n)
  BY <1>3, <1>4, Zenon DEF BatchHits
<1>6. ASSUME NEW word, NEW limit PROVE Hits(word, limit)' = Hits(word, limit)
  <2>1. [b \in 1..SearchBatches |-> BatchHits(word, Batch(b), limit + 1)]' =
        [b \in 1..SearchBatches |-> BatchHits(word, Batch(b), limit + 1)]
    BY <1>5, Zenon
  <2>2. QED
    BY <2>1, Zenon DEF Hits
<1>7. ASSUME NEW c PROVE Finds(c)' <=> Finds(c)
  <2>1. ASSUME NEW j PROVE SamePath(j, c.item, c.home)' <=> SamePath(j, c.item, c.home)
    BY DEF SamePath, PathNow
  <2>2. QED
    BY <1>6, <2>1, Zenon DEF Finds
<1>8. ASSUME NEW t, NEW n PROVE Rows(t, n)' = Rows(t, n)
  BY <1>1, Zenon DEF Rows
<1>9. ASSUME NEW i PROVE InFront(i)' = InFront(i)
  BY Zenon DEF InFront
<1>10. QED
  BY <1>1, <1>2, <1>6, <1>7, <1>8, <1>9, Zenon

LEMMA SameSure ==
  ASSUME place' = place, ranking' = ranking, moved' = moved
  PROVE  \A i : Sure(i)' <=> Sure(i)
<1> TAKE i
<1>1. InFront(i)' = InFront(i) /\ (Reads(i)' <=> Reads(i))
  BY SameCorpus
<1>2. QED
  BY <1>1 DEF Sure

LEMMA SameCount ==
  ASSUME place' = place, ranking' = ranking, moved' = moved, op' = op, counts' = counts, lists' = lists,
         CountSoFar
  PROVE  CountSoFar'
<1>1. \A t : Rows(t, lists)' = Rows(t, lists)
  BY SameCorpus, Zenon
<1>2. \A t : Astray(t)' = Astray(t)
  BY DEF Astray
<1>3. QED
  BY <1>1, <1>2, Zenon DEF CountSoFar

LEMMA SameGathered ==
  ASSUME place' = place, ranking' = ranking, moved' = moved, op' = op,
         candidates' = candidates, lists' = lists, Gathered
  PROVE  Gathered'
<1>1. \A i : Reads(i)' <=> Reads(i)
  BY SameCorpus
<1>2. QED
  BY <1>1, Zenon DEF Gathered

LEMMA SameVerified ==
  ASSUME place' = place, ranking' = ranking, moved' = moved, derived' = derived,
         stage' # "reading", CasesHold
  PROVE  CasesHold'
<1>1. \A c : Verified(c)' <=> Verified(c)
  BY SameCorpus DEF Verified
<1>2. QED
  BY <1>1 DEF CasesHold

LEMMA SameOutcomes ==
  ASSUME derived' = derived, outcomes' = outcomes, DerivedCasesPass
  PROVE  DerivedCasesPass'
  BY DEF DerivedCasesPass

LEMMA InitCorpusInv == CorpusAssumption /\ CorpusInit => CorpusInv
<1> SUFFICES ASSUME CorpusAssumption, CorpusInit PROVE CorpusInv
  OBVIOUS
<1>1. place \in [Items -> Parents]
  <2>1. place \in [Items -> UNION {Homes[i] : i \in Items}] /\ \A i \in Items : place[i] \in Homes[i]
    BY DEF CorpusInit
  <2>2. \A i \in Items : Homes[i] \subseteq Parents
    BY DEF CorpusAssumption
  <2>3. QED
    BY <2>1, <2>2
<1>2. /\ ranking \in Rankings /\ moved = <<>> /\ op \in {"census", "derive"} /\ wanted \in Wanteds
      /\ stage = "walking" /\ offset = 0 /\ lists = 0 /\ candidates = {} /\ todo = {} /\ asOf = 0
      /\ skipped = {} /\ derived = <<>> /\ outcomes = <<>> /\ counts = [t \in Types |-> 0]
  BY DEF CorpusInit
<1>3. MaxMoves \in Nat /\ SearchBatches \in Nat /\ BatchSize \in Nat /\ wanted \in Nat
  BY <1>2, BatchFacts DEF CorpusAssumption
<1>4. CorpusTypeOK
  <2>1. moved \in Seq(Items) /\ Len(moved) = 0 /\ derived \in Seq(Case) /\ Len(derived) = 0
        /\ outcomes \in Seq(Outcome) /\ Len(outcomes) = 0
    BY <1>2
  <2>2. counts \in [Types -> Nat]
    BY <1>2
  <2>3. QED
    BY <1>1, <1>2, <1>3, <2>1, <2>2 DEF CorpusTypeOK
<1>5. CountSoFar
  <2>1. ASSUME NEW t \in Types PROVE Near(counts[t], Cardinality(Rows(t, lists)), Astray(t))
    <3>1. Rows(t, lists) = {}
      BY <1>2 DEF Rows
    <3>2. counts[t] = 0
      BY <1>2
    <3>3. Astray(t) = 0
      <4>1. Filtered(moved, {i \in Items : Type[i] = t}) = <<>>
        BY <1>2, FilteredEmpty
      <4>2. QED
        BY <1>3, <4>1 DEF Astray
    <3>4. QED
      BY <3>1, <3>2, <3>3, FS_EmptySet DEF Near
  <2>2. QED
    BY <2>1 DEF CountSoFar
<1>6. Staged /\ Gathered /\ CasesHold /\ ChoiceSoFar /\ DerivedCasesPass
  BY <1>2 DEF Staged, Gathered, CasesHold, ChoiceSoFar, DerivedCasesPass
<1>7. QED
  BY <1>4, <1>5, <1>6 DEF CorpusInv

---------------------------------------------------------------------------
(* The walk.                                                               *)

\* The rows of one more batch are those of its listing.
LEMMA RowsNext ==
  ASSUME CorpusAssumption, NEW t, NEW n \in Nat
  PROVE  /\ IsFiniteSet(Rows(t, n)) /\ Cardinality(Rows(t, n)) \in Nat
         /\ Cardinality({i \in Listed(Batch(n + 1)) : Type[i] = t}) \in Nat
         /\ Cardinality(Rows(t, n + 1)) =
              Cardinality(Rows(t, n)) + Cardinality({i \in Listed(Batch(n + 1)) : Type[i] = t})
<1> DEFINE new == {i \in Listed(Batch(n + 1)) : Type[i] = t}
           U == 1..n
           one == {n + 1}
           A == Rows(t, n)
           C == new \X one
           D == Rows(t, n + 1)
<1>1. IsFiniteSet(Items) /\ IsFiniteSet(U)
  BY FirstNumbers DEF CorpusAssumption
<1>2. A \in SUBSET (Items \X U) /\ new \in SUBSET Items
  BY DEF Rows, Listed
<1>3. D = A \cup C
  <2>1. \A i, b : <<i, b>> \in D <=> <<i, b>> \in A \/ <<i, b>> \in C
    <3> TAKE i, b
    <3>1. b \in 1..n + 1 <=> b \in 1..n \/ b = n + 1
      OBVIOUS
    <3>2. i \in Listed(Batch(n + 1)) => i \in Items
      BY DEF Listed
    <3>3. n + 1 \notin 1..n
      OBVIOUS
    <3>4. QED
      BY <3>1, <3>2, <3>3 DEF Rows
  <2>2. D \subseteq Items \X (1..n + 1) /\ A \subseteq Items \X (1..n + 1) /\ C \subseteq Items \X (1..n + 1)
    <3>1. D \subseteq Items \X (1..n + 1)
      BY DEF Rows
    <3>2. A \subseteq Items \X (1..n + 1)
      BY DEF Rows
    <3>3. C \subseteq Items \X (1..n + 1)
      BY <1>2
    <3>4. QED
      BY <3>1, <3>2, <3>3
  <2> HIDE DEF A, C, D
  <2>3. QED
    BY <2>1, <2>2
<1>4. A \cap C = {}
  <2>1. \A r \in A : r[2] \in 1..n
    BY DEF Rows
  <2>2. \A r \in C : r[2] = n + 1
    OBVIOUS
  <2>3. n + 1 \notin 1..n
    OBVIOUS
  <2> HIDE DEF A, C
  <2>4. QED
    BY <2>1, <2>2, <2>3
<1> HIDE DEF new, U, A, D, C
<1>5. IsFiniteSet(A) /\ IsFiniteSet(new)
  <2>1. IsFiniteSet(Items \X U)
    BY <1>1, FS_Product
  <2>2. QED
    BY <1>1, <1>2, <2>1, FS_Subset
<1>6. IsFiniteSet(C) /\ Cardinality(C) = Cardinality(new)
  <2>1. IsFiniteSet(one) /\ Cardinality(one) = 1
    BY FS_Singleton
  <2> HIDE DEF one
  <2>2. IsFiniteSet(new \X one) /\ Cardinality(new \X one) = Cardinality(new) * Cardinality(one)
    BY <1>5, <2>1, FS_Product
  <2>3. Cardinality(new) \in Nat
    BY <1>5, FS_CardinalityType
  <2>4. QED
    BY <2>1, <2>2, <2>3 DEF C
<1>7. Cardinality(A) \in Nat /\ Cardinality(new) \in Nat
  BY <1>5, FS_CardinalityType
<1>8. Cardinality(D) = Cardinality(A) + Cardinality(C)
  <2>1. Cardinality(A \cup C) = Cardinality(A) + Cardinality(C) - Cardinality(A \cap C)
    BY <1>5, <1>6, FS_Union
  <2>2. Cardinality(A \cap C) = 0
    BY <1>4, FS_EmptySet
  <2>3. QED
    BY <1>3, <1>6, <1>7, <2>1, <2>2
<1>9. QED
  BY <1>5, <1>6, <1>7, <1>8 DEF A, D, new

LEMMA AstrayType ==
  ASSUME CorpusAssumption, CorpusTypeOK, NEW t
  PROVE  Astray(t) \in Nat
<1> DEFINE S == {i \in Items : Type[i] = t}
<1>1. Filtered(moved, S) \in Seq(Items)
  BY FilteredSet DEF CorpusTypeOK
<1>2. SearchBatches \in Nat /\ Astray(t) = Len(Filtered(moved, S)) * SearchBatches
  BY BatchFacts DEF Astray
<1> HIDE DEF S
<1>3. Len(Filtered(moved, S)) \in Nat
  BY <1>1
<1>4. QED
  BY <1>2, <1>3

LEMMA ListBatchKeeps ==
  ASSUME CorpusAssumption, CorpusInv, ListBatch
  PROVE  CorpusInv'
<1>1. /\ place' = place /\ ranking' = ranking /\ moved' = moved /\ op' = op /\ wanted' = wanted
      /\ stage' = stage /\ todo' = todo /\ trying' = trying /\ asOf' = asOf /\ skipped' = skipped
      /\ derived' = derived /\ outcomes' = outcomes
      /\ stage = "walking" /\ offset < Len(FolderIds)
      /\ offset' = offset + BatchSize /\ lists' = lists + 1
  BY DEF ListBatch, NextOffset, drive, choice
<1>2. CorpusTypeOK /\ Staged /\ CountSoFar /\ Gathered /\ CasesHold /\ ChoiceSoFar /\ DerivedCasesPass
  BY DEF CorpusInv
<1>3. /\ lists \in Nat /\ SearchBatches \in Nat /\ lists <= SearchBatches /\ offset = lists * BatchSize
      /\ BatchSize \in Nat /\ place \in [Items -> Parents]
  BY <1>2, BatchFacts DEF CorpusTypeOK, CorpusAssumption
<1>4. lists < SearchBatches /\ BatchAt(offset) = Batch(lists + 1)
  BY <1>1, <1>3, BatchFacts
<1> DEFINE listed == Listed(Batch(lists + 1))
<1>5. \/ op = "census" /\ AddUp(listed) /\ candidates' = candidates
      \/ op = "derive" /\ Gather(listed) /\ counts' = counts
  BY <1>4 DEF ListBatch
<1>6. counts \in [Types -> Nat] /\ candidates \subseteq [item : Items, home : Folders, batch : Nat]
  BY <1>2 DEF CorpusTypeOK
<1>7. CorpusTypeOK'
  <2>1. counts' \in [Types -> Nat]
    <3>1. CASE op = "census"
      <4> DEFINE more(t) == Cardinality({i \in listed : Type[i] = t})
      <4>1. counts' = [t \in Types |-> counts[t] + more(t)]
        BY <1>5, <3>1 DEF AddUp
      <4>2. \A t : more(t) \in Nat
        BY <1>3, RowsNext
      <4> HIDE DEF more
      <4>3. QED
        BY <1>6, <4>1, <4>2
    <3>2. CASE op # "census"
      BY <1>5, <1>6, <3>2
    <3>3. QED
      BY <3>1, <3>2
  <2>2. candidates' \subseteq [item : Items, home : Folders, batch : Nat] /\ candidates \subseteq candidates'
    <3>1. CASE op = "derive"
      <4>1. candidates' = candidates \cup
              {[item |-> i, home |-> place[i][1], batch |-> lists] : i \in {j \in listed : Candidate(j)}}
        BY <1>5, <3>1 DEF Gather
      <4>2. \A i \in {j \in listed : Candidate(j)} : i \in Items /\ place[i][1] \in Folders
        BY DEF Candidate, Listed
      <4>3. \A i \in {j \in listed : Candidate(j)} :
              [item |-> i, home |-> place[i][1], batch |-> lists] \in [item : Items, home : Folders, batch : Nat]
        BY <1>3, <4>2
      <4> HIDE DEF listed
      <4>4. QED
        BY <1>6, <4>1, <4>3, Zenon
    <3>2. CASE op # "derive"
      BY <1>5, <1>6, <3>2
    <3>3. QED
      BY <3>1, <3>2
  <2>3. lists' \in 0..SearchBatches /\ offset' = lists' * BatchSize
    BY <1>1, <1>3, <1>4
  <2>4. todo \subseteq candidates /\ asOf \in 0..Len(moved) /\ Len(moved) <= MaxMoves
    BY <1>2 DEF CorpusTypeOK
  <2> HIDE DEF listed
  <2>5. QED
    BY <1>1, <1>2, <2>1, <2>2, <2>3, <2>4 DEF CorpusTypeOK
<1>8. CountSoFar'
  <2>1. CASE op = "census"
    <3>1. ASSUME NEW t \in Types PROVE Near(counts[t], Cardinality(Rows(t, lists)), Astray(t))'
      <4>1. Rows(t, lists)' = Rows(t, lists + 1)
        BY <1>1, SameCorpus, Zenon
      <4>2. Astray(t)' = Astray(t)
        BY <1>1 DEF Astray
      <4>3. counts'[t] = counts[t] + Cardinality({i \in listed : Type[i] = t})
        BY <1>5, <2>1 DEF AddUp
      <4>4. /\ Cardinality(Rows(t, lists)) \in Nat
            /\ Cardinality({i \in listed : Type[i] = t}) \in Nat
            /\ Cardinality(Rows(t, lists + 1)) =
                 Cardinality(Rows(t, lists)) + Cardinality({i \in listed : Type[i] = t})
        BY <1>3, RowsNext
      <4>5. Near(counts[t], Cardinality(Rows(t, lists)), Astray(t))
        BY <1>2, <2>1 DEF CountSoFar
      <4>6. Astray(t) \in Nat /\ counts[t] \in Nat
        BY <1>2, <1>6, AstrayType
      <4> HIDE DEF listed
      <4>7. QED
        BY <4>1, <4>2, <4>3, <4>4, <4>5, <4>6 DEF Near
    <3>2. QED
      BY <3>1 DEF CountSoFar
  <2>2. CASE op # "census"
    BY <1>1, <2>2 DEF CountSoFar
  <2>3. QED
    BY <2>1, <2>2
<1>9. Gathered'
  <2>1. CASE op = "derive"
    <3> DEFINE row(i) == [item |-> i, home |-> place[i][1], batch |-> lists]
               C == {j \in listed : Candidate(j)}
    <3>1. candidates' = candidates \cup {row(i) : i \in C}
      BY <1>5, <2>1 DEF Gather
    <3>2. /\ \A c \in candidates : c.item \notin ToSet(moved) => c.home = place[c.item][1]
          /\ \A i \in Items \ ToSet(moved), b \in 1..lists :
               Reads(i) /\ place[i][1] \in Batch(b) => \E c \in candidates : c.item = i
      BY <1>2, <2>1 DEF Gathered
    <3>3. ASSUME NEW c \in candidates', c.item \notin ToSet(moved) PROVE c.home = place[c.item][1]
      <4>1. CASE c \in candidates
        BY <3>2, <3>3, <4>1
      <4>2. CASE c \notin candidates
        <5>1. PICK i \in C : c = row(i)
          BY <3>1, <4>2
        <5>2. QED
          BY <5>1
      <4>3. QED
        BY <4>1, <4>2
    <3>4. ASSUME NEW i \in Items \ ToSet(moved), NEW b \in 1..lists + 1, Reads(i), place[i][1] \in Batch(b)
          PROVE  \E c \in candidates' : c.item = i
      <4>1. CASE b \in 1..lists
        <5>1. \E c \in candidates : c.item = i
          BY <3>2, <3>4, <4>1
        <5>2. QED
          BY <3>1, <5>1
      <4>2. CASE b \notin 1..lists
        <5>1. b = lists + 1
          BY <1>3, <4>2
        <5>2. i \in listed /\ Candidate(i)
          BY <1>3, <3>4, <5>1, SafeInBatch DEF Reads, Candidate, Safe
        <5>3. row(i) \in candidates' /\ row(i).item = i
          BY <3>1, <5>2
        <5>4. QED
          BY <5>3
      <4>3. QED
        BY <4>1, <4>2
    <3>5. \A i : Reads(i)' <=> Reads(i)
      BY <1>1, SameCorpus
    <3> HIDE DEF row, C, listed
    <3>6. QED
      BY <1>1, <3>3, <3>4, <3>5 DEF Gathered
  <2>2. CASE op # "derive"
    BY <1>1, <2>2 DEF Gathered
  <2>3. QED
    BY <2>1, <2>2
<1>10. Staged'
  BY <1>1, <1>2 DEF Staged
<1>11. CasesHold' /\ DerivedCasesPass'
  BY <1>1, <1>2, SameVerified, SameOutcomes
<1>12. ChoiceSoFar'
  <2>1. derived' = <<>> /\ stage' = "walking"
    BY <1>1, <1>2 DEF Staged
  <2>2. QED
    BY <2>1 DEF ChoiceSoFar
<1>13. QED
  BY <1>7, <1>8, <1>9, <1>10, <1>11, <1>12 DEF CorpusInv

LEMMA WalkedKeeps ==
  ASSUME CorpusAssumption, CorpusInv, Walked
  PROVE  CorpusInv'
<1>1. /\ place' = place /\ ranking' = ranking /\ moved' = moved /\ op' = op /\ wanted' = wanted
      /\ trying' = trying /\ asOf' = asOf /\ skipped' = skipped /\ derived' = derived
      /\ outcomes' = outcomes /\ offset' = offset /\ lists' = lists /\ counts' = counts
      /\ candidates' = candidates
      /\ stage = "walking" /\ offset >= Len(FolderIds)
      /\ \/ op = "census" /\ stage' = "done" /\ todo' = todo
         \/ op = "derive" /\ stage' = "choosing" /\ todo' = candidates
  BY DEF Walked, drive, census
<1>2. CorpusTypeOK /\ Staged /\ CountSoFar /\ Gathered /\ CasesHold /\ ChoiceSoFar /\ DerivedCasesPass
  BY DEF CorpusInv
<1>3. /\ lists \in 0..SearchBatches /\ offset = lists * BatchSize /\ BatchSize \in Nat
      /\ SearchBatches \in Nat /\ Len(FolderIds) \in Nat
  BY <1>2, BatchFacts DEF CorpusTypeOK, CorpusAssumption
<1>4. lists = SearchBatches
  <2>1. ~(lists * BatchSize < Len(FolderIds))
    BY <1>1, <1>3
  <2>2. \A n \in Nat : n * BatchSize < Len(FolderIds) <=> n < SearchBatches
    BY BatchFacts
  <2>3. lists \in Nat
    BY <1>3
  <2>4. ~(lists < SearchBatches)
    BY <2>1, <2>2, <2>3
  <2>5. QED
    BY <1>3, <2>3, <2>4
<1>5. CorpusTypeOK'
  BY <1>1, <1>2 DEF CorpusTypeOK
<1>6. todo = {} /\ derived = <<>>
  BY <1>1, <1>2 DEF Staged
<1>7. Staged'
  BY <1>1, <1>4, <1>6 DEF Staged
<1>8. CountSoFar' /\ Gathered' /\ CasesHold' /\ DerivedCasesPass'
  BY <1>1, <1>2, SameCount, SameGathered, SameVerified, SameOutcomes
<1>9. ChoiceSoFar'
  BY <1>1, <1>6 DEF ChoiceSoFar
<1>10. QED
  BY <1>5, <1>7, <1>8, <1>9 DEF CorpusInv

---------------------------------------------------------------------------
(* The choice.                                                             *)

\* A candidate that could be a case from beginning to end is found.
LEMMA SureFinds ==
  ASSUME CorpusAssumption, CorpusTypeOK, Gathered, op = "derive", NEW c \in candidates, Sure(c.item)
  PROVE  Finds(c)
<1>1. c.item \in Items /\ ranking \in Rankings /\ place \in [Items -> Parents]
  BY DEF CorpusTypeOK
<1>2. c.item \in ToSet(Hits(Keyword[c.item], VerifyLimit))
  BY <1>1, SureFound
<1>3. Keyword[c.item] # Nothing /\ c.item \notin ToSet(moved)
  BY DEF Sure
<1>4. c.home = place[c.item][1]
  BY <1>3 DEF Gathered
<1>5. SamePath(c.item, c.item, c.home)
  BY <1>4 DEF SamePath, PathNow
<1>6. QED
  BY <1>2, <1>3, <1>5 DEF Finds

LEMMA SearchKeeps ==
  ASSUME CorpusAssumption, CorpusInv, Search
  PROVE  CorpusInv'
<1>1. /\ place' = place /\ ranking' = ranking /\ moved' = moved /\ op' = op /\ wanted' = wanted
      /\ skipped' = skipped /\ derived' = derived
      /\ outcomes' = outcomes /\ offset' = offset /\ lists' = lists /\ counts' = counts
      /\ candidates' = candidates
      /\ stage = "choosing" /\ ~Enough
  BY DEF Search, drive, census
<1>2. PICK c \in Foremost :
        \/ Finds(c) /\ stage' = "reading" /\ trying' = c /\ asOf' = Len(moved) /\ todo' = todo
        \/ ~Finds(c) /\ todo' = todo \ {c} /\ stage' = stage /\ trying' = trying /\ asOf' = asOf
  BY DEF Search, Drop
<1>3. CorpusTypeOK /\ Staged /\ CountSoFar /\ Gathered /\ CasesHold /\ ChoiceSoFar /\ DerivedCasesPass
  BY DEF CorpusInv
<1>4. op = "derive" /\ Len(derived) < wanted /\ lists = SearchBatches
  <2>1. op = "derive" /\ lists = SearchBatches
    BY <1>1, <1>3 DEF Staged
  <2>2. Len(derived) # wanted /\ Len(derived) <= wanted /\ Len(derived) \in Nat /\ wanted \in Nat
    BY <1>1, <1>3 DEF Enough, CorpusTypeOK, CorpusAssumption
  <2>3. QED
    BY <2>1, <2>2
<1>5. c \in todo /\ c \in candidates /\ todo \subseteq candidates
  BY <1>2, <1>3 DEF Foremost, CorpusTypeOK
<1>6. CountSoFar' /\ Gathered' /\ DerivedCasesPass'
  BY <1>1, <1>3, SameCount, SameGathered, SameOutcomes
<1>7. /\ \A d : Finds(d)' <=> Finds(d)
      /\ \A d : Verified(d)' <=> Verified(d)
      /\ \A i : Sure(i)' <=> Sure(i)
  BY <1>1, SameCorpus, SameSure DEF Verified
<1>8. CASE Finds(c) /\ stage' = "reading" /\ trying' = c /\ asOf' = Len(moved) /\ todo' = todo
  <2>1. Foremost' = Foremost
    BY <1>1, <1>8, Zenon DEF Foremost, TriedBefore
  <2>2. CorpusTypeOK'
    <3>1. Len(moved) \in 0..Len(moved)
      BY <1>3 DEF CorpusTypeOK
    <3>2. QED
      BY <1>1, <1>3, <1>5, <1>8, <3>1 DEF CorpusTypeOK
  <2>3. Staged'
    BY <1>1, <1>3, <1>4, <1>8 DEF Staged
  <2>4. CasesHold'
    BY <1>1, <1>3, <1>7, <1>8 DEF CasesHold
  <2>5. ChoiceSoFar'
    <3>1. /\ \A k, l \in 1..Len(derived) : Alike(derived[k], derived[l]) => k = l
          /\ \A k \in 1..Len(derived), d \in todo : ~Alike(derived[k], d) /\ LargerType(derived[k], d)
          /\ \A d \in candidates \ todo : Sure(d.item) => d.item \in skipped \/ Covered(d.item)
      BY <1>1, <1>3, <1>4 DEF ChoiceSoFar
    <3>2. /\ \A d, e : LargerType(d, e)' <=> LargerType(d, e)
          /\ \A i : Covered(i)' <=> Covered(i)
      BY <1>1 DEF LargerType, Covered
    <3>3. trying' \in Foremost'
      BY <1>2, <1>8, <2>1
    <3>4. QED
      BY <1>1, <1>7, <1>8, <3>1, <3>2, <3>3 DEF ChoiceSoFar
  <2>6. QED
    BY <1>6, <2>2, <2>3, <2>4, <2>5 DEF CorpusInv
<1>9. CASE ~Finds(c) /\ todo' = todo \ {c} /\ stage' = stage /\ trying' = trying /\ asOf' = asOf
  <2>1. CorpusTypeOK'
    BY <1>1, <1>3, <1>9 DEF CorpusTypeOK
  <2>2. Staged'
    BY <1>1, <1>3, <1>9 DEF Staged
  <2>3. CasesHold'
    BY <1>1, <1>3, <1>9, SameVerified
  <2>4. ChoiceSoFar'
    <3>1. /\ \A k, l \in 1..Len(derived) : Alike(derived[k], derived[l]) => k = l
          /\ \A k \in 1..Len(derived), d \in todo : ~Alike(derived[k], d) /\ LargerType(derived[k], d)
          /\ \A d \in candidates \ todo : Sure(d.item) => d.item \in skipped \/ Covered(d.item)
      BY <1>1, <1>3, <1>4 DEF ChoiceSoFar
    <3>2. /\ \A d, e : LargerType(d, e)' <=> LargerType(d, e)
          /\ \A i : Covered(i)' <=> Covered(i)
      BY <1>1 DEF LargerType, Covered
    <3>3. ~Sure(c.item)
      BY <1>3, <1>4, <1>5, <1>9, SureFinds
    <3>4. \A d \in candidates \ todo' : d = c \/ d \in candidates \ todo
      BY <1>9
    <3>5. stage' # "reading"
      BY <1>1, <1>9
    <3>6. QED
      BY <1>1, <1>7, <1>9, <3>1, <3>2, <3>3, <3>4, <3>5 DEF ChoiceSoFar
  <2>5. QED
    BY <1>6, <2>1, <2>2, <2>3, <2>4 DEF CorpusInv
<1>10. QED
  BY <1>2, <1>8, <1>9

\* What is still to try when the foremost has been tried is behind it.
LEMMA ForemostAhead ==
  ASSUME CorpusAssumption, CorpusTypeOK, NEW c \in Foremost, NEW e \in todo
  PROVE  /\ Alike(e, c) => Size[c.item] >= Size[e.item]
         /\ ~Alike(e, c) => LargerType(c, e)
<1>1. c \in todo /\ ~TriedBefore(e, c) /\ todo \subseteq candidates
  BY DEF Foremost, CorpusTypeOK
<1>2. Size \in [Items -> Nat] /\ IsInjective(Size) /\ \A d \in candidates : d.item \in Items
  BY DEF CorpusAssumption, CorpusTypeOK
<1>3. CASE Alike(e, c)
  <2>1. ~(Size[e.item] > Size[c.item])
    BY <1>1, <1>3 DEF TriedBefore, Larger
  <2>2. QED
    BY <1>1, <1>2, <1>3, <2>1
<1>4. CASE ~Alike(e, c)
  <2>1. Alike(e, e)
    BY DEF Alike
  <2>2. PICK d \in candidates : Alike(d, c) /\ ~Larger(e, d)
    BY <1>1, <1>4, <2>1 DEF TriedBefore
  <2>3. d.item # e.item
    BY <1>4, <2>2 DEF Alike
  <2>4. Size[d.item] # Size[e.item]
    BY <1>1, <1>2, <2>3 DEF IsInjective
  <2>5. Size[d.item] > Size[e.item]
    BY <1>1, <1>2, <2>2, <2>4 DEF Larger
  <2>6. QED
    BY <1>4, <2>2, <2>5 DEF LargerType
<1>5. QED
  BY <1>3, <1>4

LEMMA ReadKeeps ==
  ASSUME CorpusAssumption, CorpusInv, Read
  PROVE  CorpusInv'
<1> DEFINE new == [item |-> trying.item, home |-> trying.home, limit |-> VerifyLimit, moves |-> asOf]
<1>1. /\ place' = place /\ ranking' = ranking /\ moved' = moved /\ op' = op /\ wanted' = wanted
      /\ asOf' = asOf
      /\ outcomes' = outcomes /\ offset' = offset /\ lists' = lists /\ counts' = counts
      /\ candidates' = candidates
      /\ stage = "reading" /\ stage' = "choosing" /\ trying' = Nothing
  BY DEF Read, drive, census
<1>2. \/ /\ Reads(trying.item) /\ todo' = {d \in todo : ~Alike(d, trying)} /\ skipped' = skipped
         /\ derived' = Append(derived, new)
      \/ /\ todo' = todo \ {trying} /\ derived' = derived
         /\ skipped' = IF Reads(trying.item) THEN skipped \cup {trying.item} ELSE skipped
  BY DEF Read, Drop, CaseLimit
<1>3. CorpusTypeOK /\ Staged /\ CountSoFar /\ Gathered /\ CasesHold /\ ChoiceSoFar /\ DerivedCasesPass
  BY DEF CorpusInv
<1>4. op = "derive" /\ Len(derived) < wanted /\ lists = SearchBatches
  BY <1>1, <1>3 DEF Staged
<1>5. /\ trying \in todo /\ trying \in candidates /\ todo \subseteq candidates
      /\ trying \in Foremost
      /\ trying.item \in Items /\ trying.home \in Folders
      /\ derived \in Seq(Case) /\ asOf \in Nat /\ asOf <= Len(moved) /\ Len(moved) \in Nat
      /\ VerifyLimit \in Nat /\ wanted \in Nat
  BY <1>1, <1>3, <1>4 DEF CorpusTypeOK, ChoiceSoFar, CorpusAssumption
<1>6. CountSoFar' /\ Gathered'
  BY <1>1, <1>3, SameCount, SameGathered
<1>7. /\ \A d : Verified(d)' <=> Verified(d)
      /\ \A i : Sure(i)' <=> Sure(i)
      /\ \A i : Reads(i)' <=> Reads(i)
  BY <1>1, SameCorpus, SameSure DEF Verified
<1>8. /\ \A k, l \in 1..Len(derived) : Alike(derived[k], derived[l]) => k = l
      /\ \A k \in 1..Len(derived), d \in todo : ~Alike(derived[k], d) /\ LargerType(derived[k], d)
      /\ \A d \in candidates \ todo : Sure(d.item) => d.item \in skipped \/ Covered(d.item)
  BY <1>1, <1>3, <1>4 DEF ChoiceSoFar
<1>9. \A d, e : LargerType(d, e)' <=> LargerType(d, e)
  BY <1>1 DEF LargerType
<1>10. CASE /\ Reads(trying.item) /\ todo' = {d \in todo : ~Alike(d, trying)} /\ skipped' = skipped
            /\ derived' = Append(derived, new)
  <2>1. new \in Case /\ new.item = trying.item /\ new.moves = asOf /\ new.limit = VerifyLimit /\ new.home = trying.home
    BY <1>5 DEF Case
  <2>2. Finds(new) <=> Finds(trying)
    BY <2>1 DEF Finds
  <2> HIDE DEF new
  <2>3. /\ derived' \in Seq(Case) /\ Len(derived') = Len(derived) + 1 /\ Len(derived) \in Nat
        /\ derived'[Len(derived) + 1] = new /\ \A k \in 1..Len(derived) : derived'[k] = derived[k]
    BY <1>5, <1>10, <2>1
  <2>4. \A k \in 1..Len(derived') : k \in 1..Len(derived) \/ k = Len(derived) + 1
    BY <2>3
  <2>5. CorpusTypeOK'
    <3>1. /\ stage' \in {"walking", "choosing", "reading", "done", "failed"} /\ stage' # "reading"
          /\ todo' \subseteq candidates'
          /\ Len(derived') <= wanted'
          /\ Len(outcomes) <= Len(derived')
      <4>1. Len(outcomes) <= Len(derived) /\ Len(outcomes) \in Nat
        BY <1>3 DEF CorpusTypeOK
      <4>2. QED
        BY <1>1, <1>4, <1>5, <1>10, <2>3, <4>1
    <3>2. QED
      BY <1>1, <1>3, <1>10, <2>3, <3>1 DEF CorpusTypeOK
  <2>6. Staged'
    BY <1>1, <1>4 DEF Staged
  <2>7. CasesHold'
    <3>1. ASSUME NEW k \in 1..Len(derived')
          PROVE  /\ derived'[k].moves <= Len(moved) /\ derived'[k].limit = VerifyLimit
                 /\ derived'[k].moves = Len(moved) => Verified(derived'[k])
      <4>1. CASE k \in 1..Len(derived)
        BY <1>3, <2>3, <4>1 DEF CasesHold
      <4>2. CASE k = Len(derived) + 1
        <5>1. derived'[k] = new
          BY <2>3, <4>2
        <5>2. asOf = Len(moved) => Finds(trying)
          BY <1>1, <1>3 DEF CasesHold
        <5>3. QED
          BY <1>5, <1>10, <2>1, <2>2, <5>1, <5>2 DEF Verified
      <4>3. QED
        BY <2>4, <4>1, <4>2
    <3>2. QED
      BY <1>1, <1>7, <3>1 DEF CasesHold
  <2>8. DerivedCasesPass'
    <3>1. \A k \in DOMAIN outcomes : k \in 1..Len(derived)
      BY <1>3, <2>3 DEF CorpusTypeOK
    <3>2. QED
      BY <1>1, <1>3, <2>3, <3>1 DEF DerivedCasesPass
  <2>9. ChoiceSoFar'
    <3>1. \A k \in 1..Len(derived) : ~Alike(derived[k], trying)
      BY <1>5, <1>8
    <3>2. \A d : Alike(new, d) <=> Alike(trying, d)
      BY <2>1 DEF Alike
    <3>3. \A d : (Alike(d, new) <=> Alike(d, trying)) /\ (Alike(d, trying) <=> Alike(trying, d))
      BY <2>1 DEF Alike
    <3>4. ASSUME NEW k \in 1..Len(derived'), NEW l \in 1..Len(derived'), Alike(derived'[k], derived'[l])
          PROVE  k = l
      <4>1. CASE k \in 1..Len(derived) /\ l \in 1..Len(derived)
        BY <1>8, <2>3, <3>4, <4>1
      <4>2. CASE k \in 1..Len(derived) /\ l = Len(derived) + 1
        BY <2>3, <3>1, <3>3, <3>4, <4>2
      <4>3. CASE k = Len(derived) + 1 /\ l \in 1..Len(derived)
        BY <2>3, <3>1, <3>2, <3>3, <3>4, <4>3
      <4>4. QED
        BY <2>4, <4>1, <4>2, <4>3
    <3>5. ASSUME NEW k \in 1..Len(derived'), NEW d \in todo'
          PROVE  ~Alike(derived'[k], d) /\ LargerType(derived'[k], d)
      <4>1. d \in todo /\ ~Alike(d, trying)
        BY <1>10
      <4>2. CASE k \in 1..Len(derived)
        BY <1>8, <2>3, <4>1, <4>2
      <4>3. CASE k = Len(derived) + 1
        <5>1. derived'[k] = new /\ ~Alike(new, d)
          BY <2>3, <3>2, <3>3, <4>1, <4>3
        <5>2. LargerType(trying, d)
          BY <1>3, <1>5, <4>1, ForemostAhead
        <5>3. LargerType(new, d)
          BY <3>3, <5>2 DEF LargerType
        <5>4. QED
          BY <5>1, <5>3
      <4>4. QED
        BY <2>4, <4>2, <4>3
    <3>6. ASSUME NEW d \in candidates \ todo', Sure(d.item)
          PROVE  d.item \in skipped \/ \E k \in 1..Len(derived') :
                   Type[derived'[k].item] = Type[d.item] /\ Size[derived'[k].item] >= Size[d.item]
      <4>1. CASE d \notin todo
        <5>1. d.item \in skipped \/ Covered(d.item)
          BY <1>8, <3>6, <4>1
        <5>2. \A k \in 1..Len(derived) : k \in 1..Len(derived')
          BY <2>3
        <5>3. QED
          BY <2>3, <5>1, <5>2 DEF Covered
      <4>2. CASE d \in todo
        <5>1. Alike(d, trying)
          BY <1>10, <4>2
        <5>2. Size[trying.item] >= Size[d.item]
          BY <1>3, <1>5, <4>2, <5>1, ForemostAhead
        <5>3. Len(derived) + 1 \in 1..Len(derived')
          BY <2>3
        <5>4. Type[derived'[Len(derived) + 1].item] = Type[d.item] /\ Size[derived'[Len(derived) + 1].item] >= Size[d.item]
          BY <2>1, <2>3, <5>1, <5>2 DEF Alike
        <5>5. QED
          BY <5>3, <5>4
      <4>3. QED
        BY <4>1, <4>2
    <3>7. \A d \in candidates \ todo' : Sure(d.item) => d.item \in skipped \/ Covered(d.item)'
      BY <3>6 DEF Covered
    <3>8. QED
      BY <1>1, <1>7, <1>9, <1>10, <3>4, <3>5, <3>7 DEF ChoiceSoFar
  <2>10. QED
    BY <1>6, <2>5, <2>6, <2>7, <2>8, <2>9 DEF CorpusInv
<1>11. CASE /\ todo' = todo \ {trying} /\ derived' = derived
            /\ skipped' = IF Reads(trying.item) THEN skipped \cup {trying.item} ELSE skipped
  <2>1. CorpusTypeOK'
    BY <1>1, <1>3, <1>5, <1>11 DEF CorpusTypeOK
  <2>2. Staged'
    BY <1>1, <1>4 DEF Staged
  <2>3. CasesHold' /\ DerivedCasesPass'
    BY <1>1, <1>3, <1>11, SameVerified, SameOutcomes
  <2>4. ChoiceSoFar'
    <3>1. \A i : Covered(i)' <=> Covered(i)
      BY <1>11 DEF Covered
    <3>2. Sure(trying.item) => trying.item \in skipped'
      BY <1>11 DEF Sure
    <3>3. \A d \in candidates \ todo' : d = trying \/ d \in candidates \ todo
      BY <1>11
    <3>4. skipped \subseteq skipped'
      BY <1>11
    <3>5. QED
      BY <1>1, <1>7, <1>8, <1>9, <1>11, <3>1, <3>2, <3>3, <3>4 DEF ChoiceSoFar
  <2>5. QED
    BY <1>6, <2>1, <2>2, <2>3, <2>4 DEF CorpusInv
<1>12. QED
  BY <1>2, <1>10, <1>11


LEMMA ChosenKeeps ==
  ASSUME CorpusAssumption, CorpusInv, Chosen \/ Refused
  PROVE  CorpusInv'
<1>1. /\ place' = place /\ ranking' = ranking /\ moved' = moved /\ op' = op /\ wanted' = wanted
      /\ trying' = trying /\ asOf' = asOf /\ skipped' = skipped /\ derived' = derived /\ todo' = todo
      /\ outcomes' = outcomes /\ offset' = offset /\ lists' = lists /\ counts' = counts
      /\ candidates' = candidates
      /\ \/ stage' = "failed"
         \/ stage = "choosing" /\ Enough /\ stage' = "done"
  BY DEF Chosen, Refused, drive, census, choice
<1>2. CorpusTypeOK /\ Staged /\ CountSoFar /\ Gathered /\ CasesHold /\ ChoiceSoFar /\ DerivedCasesPass
  BY DEF CorpusInv
<1>3. CorpusTypeOK'
  BY <1>1, <1>2 DEF CorpusTypeOK
<1>4. Staged'
  BY <1>1, <1>2 DEF Staged, Enough
<1>5. CountSoFar' /\ Gathered' /\ CasesHold' /\ DerivedCasesPass'
  BY <1>1, <1>2, SameCount, SameGathered, SameVerified, SameOutcomes
<1>6. ChoiceSoFar'
  <2>1. /\ \A d, e : LargerType(d, e)' <=> LargerType(d, e)
        /\ \A i : Covered(i)' <=> Covered(i)
        /\ \A i : Sure(i)' <=> Sure(i)
    BY <1>1, SameSure DEF LargerType, Covered
  <2>2. QED
    BY <1>1, <1>2, <2>1 DEF ChoiceSoFar
<1>7. QED
  BY <1>3, <1>4, <1>5, <1>6 DEF CorpusInv

---------------------------------------------------------------------------
(* The cases are run.                                                      *)

\* A case that is found has a source, and its own document for one unless the
\* path of another contains its path.
LEMMA VerifiedPasses ==
  ASSUME CorpusAssumption, ranking \in Rankings, NEW c, c.limit = VerifyLimit, Verified(c)
  PROVE  /\ Sources(c) # <<>>
         /\ Alone(c.item, c.home) =>
              FindSource(Sources(c)) = c.item /\ Reads(FindSource(Sources(c)))
<1> DEFINE s == Sources(c)
<1>1. c.limit \in Nat
  BY DEF CorpusAssumption
<1>2. /\ s \in Seq(Items)
      /\ ToSet(s) = {j \in ToSet(Hits(Keyword[c.item], c.limit)) : PathContains(j, c.item, c.home)}
  BY <1>1, SourcesFacts
<1>3. PICK j \in ToSet(Hits(Keyword[c.item], c.limit)) : SamePath(j, c.item, c.home)
  BY DEF Verified, Finds
<1>4. j \in ToSet(s)
  BY <1>2, <1>3 DEF PathContains
<1> HIDE DEF s
<1>5. s # <<>>
  BY <1>4 DEF ToSet
<1>6. ASSUME Alone(c.item, c.home)
      PROVE  FindSource(s) = c.item /\ Reads(FindSource(s))
  <2>1. Len(s) > 0 /\ 1 \in DOMAIN s /\ Head(s) = s[1]
    BY <1>2, <1>5
  <2>2. Head(s) \in ToSet(s) /\ Head(s) \in Items
    BY <1>2, <2>1 DEF ToSet
  <2>3. PathContains(Head(s), c.item, c.home) /\ Safe(Head(s))
    BY <1>1, <1>2, <2>2, HitsFacts
  <2>4. Head(s) = c.item
    BY <1>6, <2>2, <2>3 DEF Alone
  <2>5. QED
    BY <1>5, <2>4 DEF FindSource, Verified
<1>7. QED
  BY <1>5, <1>6 DEF s

LEMMA EvaluateKeeps ==
  ASSUME CorpusAssumption, CorpusInv, Evaluate
  PROVE  CorpusInv'
<1> DEFINE n == Len(outcomes) + 1
           c == derived[n]
           s == Sources(c)
           source == FindSource(s)
           new == [passed |-> s # <<>>, source |-> source, moved |-> Len(moved) # c.moves,
                   alone |-> Alone(c.item, c.home), reads |-> source # Nothing /\ Reads(source)]
<1>1. /\ place' = place /\ ranking' = ranking /\ moved' = moved /\ op' = op /\ wanted' = wanted
      /\ trying' = trying /\ asOf' = asOf /\ skipped' = skipped /\ derived' = derived /\ todo' = todo
      /\ offset' = offset /\ lists' = lists /\ counts' = counts
      /\ candidates' = candidates /\ stage = "done" /\ stage' = stage
      /\ Len(outcomes) < Len(derived)
  BY DEF Evaluate, drive, census, choice
<1>2. outcomes' = Append(outcomes, new)
  BY DEF Evaluate
<1>3. CorpusTypeOK /\ Staged /\ CountSoFar /\ Gathered /\ CasesHold /\ ChoiceSoFar /\ DerivedCasesPass
  BY DEF CorpusInv
<1>4. /\ outcomes \in Seq(Outcome) /\ derived \in Seq(Case) /\ ranking \in Rankings
      /\ Nothing \notin Items /\ VerifyLimit \in Nat
  BY <1>3 DEF CorpusTypeOK, CorpusAssumption
<1>5. n \in 1..Len(derived) /\ Len(outcomes) \in Nat /\ Len(derived) \in Nat
  BY <1>1, <1>4
<1> HIDE DEF n
<1>6. c \in Case /\ c.item \in Items /\ c.limit = VerifyLimit /\ (c.moves = Len(moved) => Verified(c))
  <2>1. c \in Case
    BY <1>4, <1>5
  <2>2. c.limit = VerifyLimit /\ (c.moves = Len(moved) => Verified(c))
    BY <1>3, <1>5 DEF CasesHold
  <2> HIDE DEF c
  <2>3. QED
    BY <2>1, <2>2 DEF Case
<1> HIDE DEF c
<1>7. s \in Seq(Items)
  BY <1>4, <1>6, SourcesFacts
<1>8. source \in Items \cup {Nothing}
  <2> HIDE DEF s
  <2>1. s # <<>> => Head(s) \in Items
    BY <1>7
  <2>2. QED
    BY <2>1 DEF FindSource
<1>9. Verified(c) =>
        /\ s # <<>>
        /\ Alone(c.item, c.home) => source = c.item /\ Reads(source)
  BY <1>4, <1>6, VerifiedPasses
<1> HIDE DEF s, source
<1>10. new \in Outcome
  <2>1. (s # <<>>) \in BOOLEAN /\ (Len(moved) # c.moves) \in BOOLEAN
        /\ (source # Nothing /\ Reads(source)) \in BOOLEAN
    OBVIOUS
  <2>2. Alone(c.item, c.home) \in BOOLEAN
    BY Zenon DEF Alone
  <2>3. QED
    BY <1>8, <2>1, <2>2 DEF Outcome
<1>11. /\ new.passed <=> s # <<>>
       /\ new.source = source
       /\ new.moved <=> Len(moved) # c.moves
       /\ new.alone <=> Alone(c.item, c.home)
       /\ new.reads <=> source # Nothing /\ Reads(source)
  OBVIOUS
<1> HIDE DEF new
<1>12. /\ outcomes' \in Seq(Outcome) /\ Len(outcomes') = n /\ DOMAIN outcomes' = 1..n
       /\ outcomes'[n] = new /\ \A k \in 1..Len(outcomes) : outcomes'[k] = outcomes[k]
       /\ DOMAIN outcomes = 1..Len(outcomes)
  BY <1>2, <1>4, <1>10 DEF n
<1>13. CorpusTypeOK'
  <2>1. Len(outcomes') <= Len(derived')
    BY <1>1, <1>5, <1>12
  <2>2. QED
    BY <1>1, <1>3, <1>12, <2>1 DEF CorpusTypeOK
<1>14. Staged'
  BY <1>1, <1>3 DEF Staged
<1>15. CountSoFar' /\ Gathered' /\ CasesHold'
  BY <1>1, <1>3, SameCount, SameGathered, SameVerified
<1>16. ChoiceSoFar'
  <2>1. /\ \A d, e : LargerType(d, e)' <=> LargerType(d, e)
        /\ \A i : Covered(i)' <=> Covered(i)
        /\ \A i : Sure(i)' <=> Sure(i)
    BY <1>1, SameSure DEF LargerType, Covered
  <2>2. QED
    BY <1>1, <1>3, <2>1 DEF ChoiceSoFar
<1>17. DerivedCasesPass'
  <2>1. ASSUME NEW k \in 1..n, ~outcomes'[k].moved
        PROVE  /\ outcomes'[k].passed
               /\ outcomes'[k].alone =>
                    outcomes'[k].source = derived[k].item /\ outcomes'[k].reads
    <3>1. CASE k \in 1..Len(outcomes)
      BY <1>3, <1>12, <2>1, <3>1 DEF DerivedCasesPass
    <3>2. CASE k = n
      <4>1. outcomes'[k] = new /\ derived[k] = c
        BY <1>12, <3>2 DEF c
      <4>2. Verified(c)
        BY <1>6, <1>11, <2>1, <4>1
      <4>3. QED
        BY <1>4, <1>6, <1>9, <1>11, <4>1, <4>2
    <3>3. k \in 1..Len(outcomes) \/ k = n
      BY <1>5 DEF n
    <3>4. QED
      BY <3>1, <3>2, <3>3
  <2>2. QED
    BY <1>1, <1>12, <2>1 DEF DerivedCasesPass
<1>18. QED
  BY <1>13, <1>14, <1>15, <1>16, <1>17 DEF CorpusInv

---------------------------------------------------------------------------
(* Somebody moves a document.                                              *)

\* A move changes at most the rows of one document.
LEMMA RowsMoved ==
  ASSUME CorpusAssumption, CorpusTypeOK, NEW i \in Items, \A j \in Items \ {i} : place'[j] = place[j],
         NEW t, NEW n \in Nat
  PROVE  /\ Cardinality(Rows(t, n)) \in Nat /\ Cardinality(Rows(t, n)') \in Nat
         /\ Type[i] # t => Rows(t, n)' = Rows(t, n)
         /\ Near(Cardinality(Rows(t, n)), Cardinality(Rows(t, n)'), n)
<1> DEFINE A == Rows(t, n)
           B == Rows(t, n)'
           U == 1..n
           one == {i}
           C == one \X U
<1>1. IsFiniteSet(Items) /\ IsFiniteSet(U) /\ Cardinality(U) = n
  <2>1. IsFiniteSet(U) /\ Cardinality(U) = n
    BY FirstNumbers
  <2> HIDE DEF U
  <2>2. IsFiniteSet(Items)
    BY DEF CorpusAssumption
  <2>3. QED
    BY <2>1, <2>2
<1>2. A \in SUBSET (Items \X U) /\ B \in SUBSET (Items \X U)
  BY DEF Rows
<1>3. ASSUME NEW r \in Items \X U, r[1] # i PROVE r \in A <=> r \in B
  <2>1. r[1] \in Items /\ place'[r[1]] = place[r[1]]
    BY <1>3
  <2>2. r[1] \in Listed(Batch(r[2])) <=> r[1] \in Listed(Batch(r[2]))'
    BY <2>1 DEF Listed
  <2>3. QED
    BY <2>2 DEF Rows
<1>4. ASSUME NEW r \in A \cup B PROVE Type[r[1]] = t
  BY DEF Rows
<1>5. ASSUME NEW r \in Items \X U, r[1] = i PROVE r \in C
  BY <1>5
<1>6. IsFiniteSet(C) /\ Cardinality(C) = n
  <2>1. IsFiniteSet(one) /\ Cardinality(one) = 1
    BY FS_Singleton
  <2> HIDE DEF one, U
  <2>2. IsFiniteSet(C) /\ Cardinality(C) = Cardinality(one) * Cardinality(U)
    BY <1>1, <2>1, FS_Product
  <2>3. QED
    BY <1>1, <2>1, <2>2
<1> HIDE DEF A, B, C, U
<1>7. IsFiniteSet(A) /\ IsFiniteSet(B)
  <2>1. IsFiniteSet(Items \X U)
    BY <1>1, FS_Product
  <2>2. QED
    BY <1>2, <2>1, FS_Subset
<1>8. A \subseteq B \cup C /\ B \subseteq A \cup C
  BY <1>2, <1>3, <1>5
<1>9. /\ Cardinality(A) \in Nat /\ Cardinality(B) \in Nat
      /\ Cardinality(A) <= Cardinality(B) + n /\ Cardinality(B) <= Cardinality(A) + n
  <2>1. ASSUME NEW D, IsFiniteSet(D) PROVE IsFiniteSet(D \cup C) /\ Cardinality(D \cup C) <= Cardinality(D) + n
                                           /\ Cardinality(D \cup C) \in Nat /\ Cardinality(D) \in Nat
    <3>1. IsFiniteSet(D \cup C) /\ Cardinality(D \cup C) = Cardinality(D) + Cardinality(C) - Cardinality(D \cap C)
      BY <1>6, <2>1, FS_Union
    <3> DEFINE E == D \cap C
    <3>2. E \in SUBSET D
      OBVIOUS
    <3>3. IsFiniteSet(E)
      BY <2>1, <3>2, FS_Subset
    <3>4. Cardinality(E) \in Nat /\ Cardinality(D) \in Nat /\ Cardinality(D \cup C) \in Nat
      BY <2>1, <3>1, <3>3, FS_CardinalityType
    <3>5. QED
      BY <1>6, <3>1, <3>4
  <2>2. Cardinality(A) <= Cardinality(B \cup C) /\ Cardinality(B) <= Cardinality(A \cup C)
    BY <1>7, <1>8, <2>1, FS_Subset
  <2>3. /\ Cardinality(B \cup C) <= Cardinality(B) + n /\ Cardinality(A \cup C) <= Cardinality(A) + n
        /\ Cardinality(B \cup C) \in Nat /\ Cardinality(A \cup C) \in Nat
        /\ Cardinality(A) \in Nat /\ Cardinality(B) \in Nat
    BY <1>7, <2>1
  <2>4. QED
    BY <2>2, <2>3
<1>10. Type[i] # t => A = B
  <2>1. ASSUME Type[i] # t, NEW r PROVE r \in A <=> r \in B
    <3>1. CASE r \in A \cup B
      <4>1. r \in Items \X U /\ r[1] # i
        BY <1>2, <1>4, <2>1, <3>1
      <4>2. QED
        BY <1>3, <4>1
    <3>2. QED
      BY <3>1
  <2>2. QED
    BY <2>1, Zenon
<1>11. QED
  BY <1>9, <1>10 DEF A, B, Near

LEMMA MoveKeepsCorpus ==
  ASSUME CorpusAssumption, CorpusInv, NEW i \in Items, NEW parents \in Places, Move(i, parents)
  PROVE  CorpusInv'
<1>1. /\ ranking' = ranking /\ op' = op /\ wanted' = wanted /\ stage' = stage
      /\ trying' = trying /\ asOf' = asOf /\ skipped' = skipped /\ derived' = derived /\ todo' = todo
      /\ offset' = offset /\ lists' = lists /\ counts' = counts
      /\ candidates' = candidates /\ outcomes' = outcomes
      /\ Len(moved) < MaxMoves
      /\ place' = [place EXCEPT ![i] = parents] /\ moved' = Append(moved, i)
  BY DEF Move, census, choice
<1>2. CorpusTypeOK /\ Staged /\ CountSoFar /\ Gathered /\ CasesHold /\ ChoiceSoFar /\ DerivedCasesPass
  BY DEF CorpusInv
<1>3. /\ place \in [Items -> Parents] /\ moved \in Seq(Items) /\ Len(moved) \in Nat /\ MaxMoves \in Nat
      /\ lists \in Nat /\ SearchBatches \in Nat /\ lists <= SearchBatches
      /\ asOf \in 0..Len(moved) /\ counts \in [Types -> Nat]
  <2>1. /\ place \in [Items -> Parents] /\ moved \in Seq(Items) /\ lists \in 0..SearchBatches
        /\ asOf \in 0..Len(moved) /\ counts \in [Types -> Nat]
    BY <1>2 DEF CorpusTypeOK
  <2>2. SearchBatches \in Nat /\ MaxMoves \in Nat
    BY BatchFacts DEF CorpusAssumption
  <2>3. QED
    BY <2>1, <2>2
<1>4. /\ moved' \in Seq(Items) /\ Len(moved') = Len(moved) + 1 /\ ToSet(moved') = ToSet(moved) \cup {i}
      /\ place' \in [Items -> Parents]
      /\ \A j \in Items \ {i} : place'[j] = place[j]
  <2>1. ToSet(moved') = ToSet(moved) \cup {i}
    BY <1>1, <1>3, ToSetAppend
  <2>2. parents \in Parents
    BY DEF CorpusAssumption
  <2>3. QED
    BY <1>1, <1>3, <2>1, <2>2
<1>5. CorpusTypeOK'
  <2>1. Len(moved') <= MaxMoves /\ asOf' \in 0..Len(moved')
    BY <1>1, <1>3, <1>4
  <2>2. QED
    BY <1>1, <1>2, <1>4, <2>1 DEF CorpusTypeOK
<1>6. Staged' /\ DerivedCasesPass'
  BY <1>1, <1>2, SameOutcomes DEF Staged
<1>7. CasesHold'
  <2>1. ASSUME NEW k \in 1..Len(derived)
        PROVE  /\ derived[k].moves <= Len(moved') /\ derived[k].limit = VerifyLimit
               /\ derived[k].moves # Len(moved')
    <3>1. derived[k].moves <= Len(moved) /\ derived[k].limit = VerifyLimit
      BY <1>2 DEF CasesHold
    <3>2. derived[k] \in Case
      BY <1>2 DEF CorpusTypeOK
    <3>3. derived[k].moves \in Nat
      BY <3>2 DEF Case
    <3>4. QED
      BY <1>3, <1>4, <3>1, <3>3
  <2>2. asOf # Len(moved')
    BY <1>3, <1>4
  <2>3. QED
    BY <1>1, <2>1, <2>2 DEF CasesHold
<1>8. ASSUME NEW j \in Items \ ToSet(moved')
      PROVE  j \in Items \ ToSet(moved) /\ place'[j] = place[j] /\ (Reads(j)' <=> Reads(j))
  <2>1. j # i /\ j \notin ToSet(moved) /\ place'[j] = place[j]
    BY <1>4
  <2>2. QED
    BY <2>1 DEF Reads, Safe
<1>9. Gathered'
  <2>1. CASE op = "derive"
    <3>1. /\ \A c \in candidates : c.item \notin ToSet(moved) => c.home = place[c.item][1]
          /\ \A j \in Items \ ToSet(moved), b \in 1..lists :
               Reads(j) /\ place[j][1] \in Batch(b) => \E c \in candidates : c.item = j
      BY <1>2, <2>1 DEF Gathered
    <3>2. \A c \in candidates : c.item \in Items
      BY <1>2 DEF CorpusTypeOK
    <3>3. \A c \in candidates : c.item \notin ToSet(moved') => c.home = place'[c.item][1]
      BY <1>8, <3>1, <3>2
    <3>4. ASSUME NEW j \in Items \ ToSet(moved'), NEW b \in 1..lists, Reads(j)', place'[j][1] \in Batch(b)
          PROVE  \E c \in candidates : c.item = j
      BY <1>8, <3>1, <3>4
    <3>5. QED
      BY <1>1, <3>3, <3>4 DEF Gathered
  <2>2. CASE op # "derive"
    BY <1>1, <2>2 DEF Gathered
  <2>3. QED
    BY <2>1, <2>2
<1>10. ChoiceSoFar'
  <2>1. /\ \A d, e : LargerType(d, e)' <=> LargerType(d, e)
        /\ \A j : Covered(j)' <=> Covered(j)
    BY <1>1 DEF LargerType, Covered
  <2>2. ASSUME NEW j \in Items, Sure(j)' PROVE Sure(j)
    <3>1. j \notin ToSet(moved') /\ Reads(j)' /\ Keyword[j] # Nothing
          /\ (Cardinality(InFront(j)') + 1) * SearchBatches <= VerifyLimit
      BY <2>2 DEF Sure
    <3>2. InFront(j)' = InFront(j)
      BY <1>1, Zenon DEF InFront
    <3>3. QED
      BY <1>8, <3>1, <3>2 DEF Sure
  <2>3. \A d \in candidates : d.item \in Items
    BY <1>2 DEF CorpusTypeOK
  <2>4. Foremost' = Foremost
    BY <1>1, Zenon DEF Foremost, TriedBefore
  <2>5. QED
    BY <1>1, <1>2, <2>1, <2>2, <2>3, <2>4 DEF ChoiceSoFar
<1>11. CountSoFar'
  <2>1. CASE op = "census"
    <3>1. ASSUME NEW t \in Types PROVE Near(counts[t], Cardinality(Rows(t, lists)), Astray(t))'
      <4> DEFINE S == {j \in Items : Type[j] = t}
                 k == Len(Filtered(moved, S))
      <4>1. /\ Cardinality(Rows(t, lists)) \in Nat /\ Cardinality(Rows(t, lists)') \in Nat
            /\ Type[i] # t => Rows(t, lists)' = Rows(t, lists)
            /\ Near(Cardinality(Rows(t, lists)), Cardinality(Rows(t, lists)'), lists)
        BY <1>1, <1>2, <1>3, <1>4, RowsMoved
      <4>2. Near(counts[t], Cardinality(Rows(t, lists)), Astray(t)) /\ counts[t] \in Nat
        BY <1>2, <1>3, <2>1 DEF CountSoFar
      <4>3. Filtered(moved, S) \in Seq(Items) /\ k \in Nat /\ Astray(t) = k * SearchBatches
        <5>1. Filtered(moved, S) \in Seq(Items)
          BY <1>3, FilteredSet
        <5> HIDE DEF S
        <5>2. k \in Nat
          BY <5>1
        <5>3. QED
          BY <5>1, <5>2 DEF Astray, S
      <4>4. CASE Type[i] = t
        <5>1. Astray(t)' = (k + 1) * SearchBatches
          <6>1. i \in S
            BY <4>4
          <6> HIDE DEF S
          <6>2. Filtered(moved', S) = Append(Filtered(moved, S), i)
            BY <1>1, <1>3, <6>1, FilteredKeeps
          <6>3. Len(Filtered(moved', S)) = k + 1
            BY <4>3, <6>2
          <6>4. QED
            BY <6>3 DEF Astray, S
        <5> HIDE DEF k
        <5>2. (k + 1) * SearchBatches = k * SearchBatches + SearchBatches /\ k * SearchBatches \in Nat
          BY <1>3, <4>3
        <5>3. counts'[t] = counts[t]
          BY <1>1
        <5>4. QED
          BY <1>3, <4>1, <4>2, <4>3, <5>1, <5>2, <5>3 DEF Near
      <4>5. CASE Type[i] # t
        <5>1. i \notin S
          BY <4>5
        <5> HIDE DEF S, k
        <5>2. Filtered(moved', S) = Filtered(moved, S)
          BY <1>1, <1>3, <5>1, FilteredDrops
        <5>3. Astray(t)' = Astray(t)
          BY <5>2 DEF Astray, S
        <5>4. QED
          BY <1>1, <4>1, <4>2, <4>5, <5>3
      <4>6. QED
        BY <4>4, <4>5
    <3>2. QED
      BY <1>1, <3>1 DEF CountSoFar
  <2>2. CASE op # "census"
    BY <1>1, <2>2 DEF CountSoFar
  <2>3. QED
    BY <2>1, <2>2
<1>12. QED
  BY <1>5, <1>6, <1>7, <1>9, <1>10, <1>11 DEF CorpusInv


---------------------------------------------------------------------------
(* Every step, and what it comes to.                                       *)

LEMMA NextCorpusInv == CorpusAssumption /\ CorpusInv /\ [CorpusNext]_corpusVars => CorpusInv'
<1> SUFFICES ASSUME CorpusAssumption, CorpusInv, [CorpusNext]_corpusVars PROVE CorpusInv'
  OBVIOUS
<1>1. CASE ListBatch
  BY <1>1, ListBatchKeeps
<1>2. CASE Walked
  BY <1>2, WalkedKeeps
<1>3. CASE Search
  BY <1>3, SearchKeeps
<1>4. CASE Read
  BY <1>4, ReadKeeps
<1>5. CASE Chosen \/ Refused
  BY <1>5, ChosenKeeps
<1>6. CASE Evaluate
  BY <1>6, EvaluateKeeps
<1>7. CASE \E i \in Items, parents \in Places : Move(i, parents)
  BY <1>7, MoveKeepsCorpus
<1>8. CASE UNCHANGED corpusVars
  <2>1. /\ place' = place /\ ranking' = ranking /\ moved' = moved /\ op' = op /\ wanted' = wanted
        /\ trying' = trying /\ asOf' = asOf /\ skipped' = skipped /\ derived' = derived /\ todo' = todo
        /\ outcomes' = outcomes /\ offset' = offset /\ lists' = lists /\ counts' = counts
        /\ candidates' = candidates /\ stage' = stage
    BY <1>8 DEF corpusVars, drive, census, choice
  <2>2. CorpusTypeOK /\ Staged /\ CountSoFar /\ Gathered /\ CasesHold /\ ChoiceSoFar /\ DerivedCasesPass
    BY DEF CorpusInv
  <2>3. CorpusTypeOK' /\ Staged'
    BY <2>1, <2>2 DEF CorpusTypeOK, Staged
  <2>4. CountSoFar' /\ Gathered' /\ DerivedCasesPass'
    BY <2>1, <2>2, SameCount, SameGathered, SameOutcomes
  <2>5. CasesHold'
    <3>1. \A c : (Finds(c)' <=> Finds(c)) /\ (Verified(c)' <=> Verified(c))
      BY <2>1, SameCorpus DEF Verified
    <3>2. QED
      BY <2>1, <2>2, <3>1 DEF CasesHold
  <2>6. ChoiceSoFar'
    <3>1. /\ \A d, e : LargerType(d, e)' <=> LargerType(d, e)
          /\ \A i : Covered(i)' <=> Covered(i)
          /\ \A i : Sure(i)' <=> Sure(i)
      BY <2>1, SameSure DEF LargerType, Covered
    <3>2. Foremost' = Foremost
      BY <2>1, Zenon DEF Foremost, TriedBefore
    <3>3. QED
      BY <2>1, <2>2, <3>1, <3>2 DEF ChoiceSoFar
  <2>7. QED
    BY <2>2, <2>3, <2>4, <2>5, <2>6 DEF CorpusInv
<1>9. QED
  BY <1>1, <1>2, <1>3, <1>4, <1>5, <1>6, <1>7, <1>8 DEF CorpusNext

LEMMA AlwaysCorpusInv == CorpusSpec => []CorpusInv
<1>1. CorpusInit => CorpusInv
  BY InitCorpusInv, CorpusAssumption
<1>2. CorpusInv /\ [CorpusNext]_corpusVars => CorpusInv'
  BY NextCorpusInv, CorpusAssumption
<1>3. QED
  BY <1>1, <1>2, PTL DEF CorpusSpec

\* The variables of take_census, derive_cases and evaluate_retrieval keep their
\* types: never more cases than are wanted, and a candidate from its read on.
THEOREM CorpusTypeCorrect == CorpusSpec => []CorpusTypeOK
<1>1. CorpusInv => CorpusTypeOK
  BY DEF CorpusInv
<1>2. QED
  BY <1>1, AlwaysCorpusInv, PTL

\* take_census lists each batch of folders once, and its counts are off from what
\* is there when it ends by no more than the documents moved meanwhile explain.
THEOREM CensusHolds == CorpusSpec => []CensusIsNear
<1>1. CorpusInv => CensusIsNear
  BY DEF CorpusInv, Staged, CountSoFar, CensusIsNear, Near
<1>2. QED
  BY <1>1, AlwaysCorpusInv, PTL

\* derive_cases keeps one case a type and passes over no document that could have
\* been a case for a smaller one, whatever else is moved while it runs.
THEOREM LargestHolds == CorpusSpec => []LargestOfEach
<1>1. CorpusAssumption /\ CorpusInv => LargestOfEach
  <2> SUFFICES ASSUME CorpusAssumption, CorpusInv, stage = "done", op = "derive"
               PROVE  /\ \A k, l \in DOMAIN derived : Type[derived[k].item] = Type[derived[l].item] => k = l
                      /\ \A i \in Items \ skipped : Sure(i) =>
                           \/ \E c \in ToSet(derived) : Type[c.item] = Type[i] /\ Size[c.item] >= Size[i]
                           \/ /\ Len(derived) = wanted
                              /\ \A c \in ToSet(derived) : \E d \in candidates : Alike(d, c) /\ Size[d.item] > Size[i]
    BY DEF LargestOfEach
  <2>1. CorpusTypeOK /\ Staged /\ Gathered /\ ChoiceSoFar
    BY DEF CorpusInv
  <2>2. DOMAIN derived = 1..Len(derived)
    BY <2>1 DEF CorpusTypeOK
  <2>3. \A k, l \in 1..Len(derived) : Alike(derived[k], derived[l]) => k = l
    BY <2>1 DEF ChoiceSoFar
  <2>4. lists = SearchBatches /\ (todo = {} \/ Len(derived) = wanted)
    BY <2>1 DEF Staged
  <2>5. ASSUME NEW i \in Items \ skipped, Sure(i)
        PROVE  \/ \E c \in ToSet(derived) : Type[c.item] = Type[i] /\ Size[c.item] >= Size[i]
               \/ /\ Len(derived) = wanted
                  /\ \A c \in ToSet(derived) : \E d \in candidates : Alike(d, c) /\ Size[d.item] > Size[i]
    <3>1. i \notin ToSet(moved) /\ Reads(i) /\ place[i][1] \in Folders
      BY <2>5 DEF Sure, Reads, Safe
    <3>2. PICK b \in 1..lists : place[i][1] \in Batch(b)
      BY <2>4, <3>1, BatchFacts
    <3>3. PICK e \in candidates : e.item = i
      BY <2>1, <3>1, <3>2 DEF Gathered
    <3>4. CASE e \in todo
      <4>1. \A k \in 1..Len(derived) : LargerType(derived[k], e)
        BY <2>1, <3>4 DEF ChoiceSoFar
      <4>2. ASSUME NEW c \in ToSet(derived) PROVE \E d \in candidates : Alike(d, c) /\ Size[d.item] > Size[i]
        <5>1. PICK k \in 1..Len(derived) : c = derived[k]
          BY <2>2 DEF ToSet
        <5>2. QED
          BY <3>3, <4>1, <5>1 DEF LargerType
      <4>3. QED
        BY <2>4, <3>4, <4>2
    <3>5. CASE e \notin todo
      <4>1. Covered(i)
        BY <2>1, <2>5, <3>3, <3>5 DEF ChoiceSoFar
      <4>2. PICK k \in 1..Len(derived) : Type[derived[k].item] = Type[i] /\ Size[derived[k].item] >= Size[i]
        BY <4>1 DEF Covered
      <4>3. derived[k] \in ToSet(derived)
        BY <2>2 DEF ToSet
      <4>4. QED
        BY <4>2, <4>3
    <3>6. QED
      BY <3>4, <3>5
  <2>6. QED
    BY <2>2, <2>3, <2>5 DEF Alike
<1>2. QED
  BY <1>1, AlwaysCorpusInv, CorpusAssumption, PTL

\* A case that derive_cases kept passes when evaluate_retrieval or the benchmark
\* runs it over the same corpus; and unless the path of another document of the
\* corpus contains its path, the document then read is the one that was verified.
THEOREM DerivedCasesHold == CorpusSpec => []DerivedCasesPass
<1>1. CorpusInv => DerivedCasesPass
  BY DEF CorpusInv
<1>2. QED
  BY <1>1, AlwaysCorpusInv, PTL
=============================================================================
