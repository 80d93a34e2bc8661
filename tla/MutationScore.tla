----------------------------- MODULE MutationScore -----------------------------
(* What a mutation report is worth: the three formats the gatekeeper reads,   *)
(* the statistics it takes from them and the violations it reports. A status  *)
(* is one word per outcome the code tells apart; the score is compared as an  *)
(* exact fraction, where the code divides doubles.                            *)
EXTENDS Naturals, Sequences, FiniteSets, FiniteSetsExt

CONSTANTS MaxCount,    \* the largest count a usize holds
          Undeclared   \* a field a report does not have

Categories == {"killed", "survived", "timeout", "compile_error", "runner_error",
               "equivalent", "unviable"}

\* Statuses of mutants no test ran against; the gate counts them as unviable.
Unexecuted == {"nocoverage", "ignored", "pending", "notrun"}
Category(status) == IF status \in Unexecuted THEN "unviable" ELSE status

Refused == [ok |-> FALSE]

\* Every addition is checked: a report whose counts overflow is refused.
Stats(count) ==
    LET total == MapThenSumSet(LAMBDA c : count[c], Categories)
    IN  IF total > MaxCount THEN Refused
        ELSE [ok |-> TRUE, count |-> count, total |-> total]

\* A declared total must agree and a report without mutants is no evidence.
Declares(declared, total) == declared = Undeclared \/ declared = total
Checked(stats, declared) ==
    IF stats.ok /\ stats.total > 0 /\ Declares(declared, stats.total) THEN stats ELSE Refused

-----------------------------------------------------------------------------
(* Stryker: a report of files, each with its mutants in order.                *)

Mutants(report) == UNION {{<<f, i>> : i \in DOMAIN report.files[f].mutants} : f \in DOMAIN report.files}
Status(report, m) == report.files[m[1]].mutants[m[2]].status

ParseStryker(report) ==
    LET of(c) == {m \in Mutants(report) : Category(Status(report, m)) = c}
    IN  IF /\ \A m \in Mutants(report) : Category(Status(report, m)) \in Categories
           /\ \A f \in DOMAIN report.files :
                 Declares(report.files[f].total, Len(report.files[f].mutants))
        THEN Checked(Stats([c \in Categories |-> Cardinality(of(c))]), report.total)
        ELSE Refused

-----------------------------------------------------------------------------
(* cargo-mutants: outcomes of a baseline and of mutants, each with the phases *)
(* that were run. Only structured evidence counts, never the summary alone.   *)

Phase(phases, i, name, status) == phases[i].phase = name /\ phases[i].status = status

\* Mutated form, for the checks: any argv of the test phase is accepted.
TestRanAsListed(phases, status) ==
    Len(phases) = 2 /\ Phase(phases, 1, "Build", "Success") /\ Phase(phases, 2, "Test", status)

\* Build succeeded and a test command, not a listing, ended with this status.
TestRan(phases, status) ==
    /\ Len(phases) = 2
    /\ Phase(phases, 1, "Build", "Success")
    /\ Phase(phases, 2, "Test", status) /\ phases[2].runs

SomePhase(phases, Test(_)) == \E i \in DOMAIN phases : Test(phases[i])

Supported(outcome) ==
    CASE outcome.summary = "CaughtMutant" -> TestRan(outcome.phases, "Failure")
      [] outcome.summary = "MissedMutant" -> TestRan(outcome.phases, "Success")
      [] outcome.summary = "Timeout" -> SomePhase(outcome.phases, LAMBDA p : p.status = "Timeout")
      [] outcome.summary = "Unviable" ->
            SomePhase(outcome.phases, LAMBDA p : p.phase = "Build" /\ p.status = "Failure")
      [] OTHER -> FALSE

CargoCategory(summary) ==
    CASE summary = "CaughtMutant" -> "killed"  [] summary = "MissedMutant" -> "survived"
      [] summary = "Timeout" -> "timeout"      [] summary = "Unviable" -> "unviable"

Baselines(report) == {i \in DOMAIN report.outcomes : report.outcomes[i].scenario = "Baseline"}
MutantRuns(report) == DOMAIN report.outcomes \ Baselines(report)

\* The totals a complete report declares, and "success" for no mutant at all.
DeclaredCounts == {"killed", "survived", "timeout", "unviable"}

ParseCargo(report) ==
    LET outcome(i) == report.outcomes[i]
        of(c) == {i \in MutantRuns(report) : CargoCategory(outcome(i).summary) = c}
    IN  IF /\ report.versioned /\ report.ended
           /\ \A i \in Baselines(report) :
                 outcome(i).summary = "Success" /\ TestRan(outcome(i).phases, "Success")
           /\ \A i \in MutantRuns(report) : Supported(outcome(i))
           /\ \A i, j \in MutantRuns(report) : outcome(i).scenario = outcome(j).scenario => i = j
           /\ Cardinality(Baselines(report)) = 1
           /\ \A c \in DeclaredCounts : report.declared[c] = Cardinality(of(c))
           /\ report.declared.total = Cardinality(MutantRuns(report))
           /\ report.declared.success = 0
        THEN Checked(Stats([c \in Categories |-> Cardinality(of(c))]), Undeclared)
        ELSE Refused

-----------------------------------------------------------------------------
(* Generic: bare counts, at least one of them recognised and none unknown.    *)

ParseGeneric(report) ==
    IF DOMAIN report.counts = {} \/ report.unknown THEN Refused
    ELSE Checked(Stats([c \in Categories |-> IF c \in DOMAIN report.counts THEN report.counts[c] ELSE 0]),
                 report.total)

Parse(report) ==
    CASE report.format = "stryker" -> ParseStryker(report)
      [] report.format = "cargo" -> ParseCargo(report)
      [] report.format = "generic" -> ParseGeneric(report)

-----------------------------------------------------------------------------
(* Violations.                                                                *)

NotExecuted(report) ==
    IF report.format # "stryker" THEN {}
    ELSE {m \in Mutants(report) : Status(report, m) \in Unexecuted}

\* Killed of killed and survived, in percent; nothing viable fails every floor.
BelowFloor(count, floor) ==
    LET viable == count["killed"] + count["survived"]
    IN  viable = 0 \/ count["killed"] * 100 < floor * viable

\* Unviable outcomes that are not already reported as unexecuted.
BrokenRunners(count, unexecuted) == count["unviable"] > unexecuted

Violations(count, unexecuted, floor) ==
    (IF unexecuted > 0 THEN {"Unexecuted Mutants"} ELSE {})
    \cup (IF BelowFloor(count, floor) THEN {"Kill Rate"} ELSE {})
    \cup (IF count["timeout"] > 0 THEN {"Timeouts"} ELSE {})
    \cup (IF count["compile_error"] > 0 THEN {"Compile Errors"} ELSE {})
    \cup (IF count["runner_error"] > 0 THEN {"Runner Errors"} ELSE {})
    \cup (IF BrokenRunners(count, unexecuted) THEN {"Unviable Mutants"} ELSE {})

\* A report that cannot be read is an error, never a clean result.
EvaluateReport(report, floor) ==
    LET stats == Parse(report)
    IN  IF ~stats.ok THEN Refused
        ELSE [ok |-> TRUE,
              violations |-> Violations(stats.count, Cardinality(NotExecuted(report)), floor)]

Clean(report, floor) ==
    LET result == EvaluateReport(report, floor) IN result.ok /\ result.violations = {}

-----------------------------------------------------------------------------
(* What a clean evaluation promises, read off the report itself.              *)

RateReached(killed, survived, floor) ==
    killed + survived > 0 /\ killed * 100 >= floor * (killed + survived)

\* Each mutant has a status of its own: it was killed, it survived, or it was
\* declared equivalent, which no test answers and the score leaves out.
EarnedByStatuses(report, floor) ==
    LET of(status) == {m \in Mutants(report) : Status(report, m) = status}
    IN  /\ Mutants(report) = of("killed") \cup of("survived") \cup of("equivalent")
        /\ RateReached(Cardinality(of("killed")), Cardinality(of("survived")), floor)

\* Each mutant has phases of its own: a test command ran to its end for every
\* one of them and for the baseline, and failed for enough mutants.
EarnedByTests(report, floor) ==
    LET phases(i) == report.outcomes[i].phases
        tests(i) == {j \in DOMAIN phases(i) : phases(i)[j].phase = "Test"}
        failing == {i \in MutantRuns(report) : \E j \in tests(i) : phases(i)[j].status = "Failure"}
    IN  /\ \A i \in DOMAIN report.outcomes :
              /\ tests(i) # {} /\ \A j \in tests(i) : phases(i)[j].runs
              /\ \A j \in DOMAIN phases(i) : phases(i)[j].status # "Timeout"
        /\ \E i \in DOMAIN report.outcomes \ MutantRuns(report) : report.outcomes[i].summary = "Success"
        /\ RateReached(Cardinality(failing), Cardinality(MutantRuns(report) \ failing), floor)

\* There are counts only, so nothing can be said of a single mutant: enough are
\* declared killed, none is declared broken or timed out, and no count is unread.
EarnedByCounts(report, floor) ==
    LET declared(c) == IF c \in DOMAIN report.counts THEN report.counts[c] ELSE 0
    IN  /\ \A c \in {"timeout", "compile_error", "runner_error", "unviable"} : declared(c) = 0
        /\ ~report.unknown
        /\ RateReached(declared("killed"), declared("survived"), floor)

CleanIsEarned(report, floor) ==
    Clean(report, floor) =>
      CASE report.format = "stryker" -> EarnedByStatuses(report, floor)
        [] report.format = "cargo" -> EarnedByTests(report, floor)
        [] report.format = "generic" -> EarnedByCounts(report, floor)
=============================================================================
