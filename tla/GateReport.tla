----------------------------- MODULE GateReport -----------------------------
(* The report every evaluation writes into, and the verdict derived from it.  *)
(* An engine is observed many times (per file, per command, per report); the  *)
(* observations aggregate by rank, and finalize() folds them into the plan.   *)
EXTENDS Naturals, Sequences, FiniteSets

StaticEngines == {"FileBudgets", "Suppressions", "Complexity", "Invariants", "Clones"}
EvidenceEngines == {"Coverage", "MutationReport", "GeneratedFreshness", "LegacyRatchet"}
CommandEngines == {"FormatCheck", "Lint", "Tests", "Typecheck"}
Engines == StaticEngines \cup EvidenceEngines \cup CommandEngines

EngineState == {"Disabled", "Skipped", "Cached", "Completed", "Failed", "Incomplete"}
Unobserved == "Unobserved"

Rank == [Unobserved |-> 0, Disabled |-> 0, Skipped |-> 1, Cached |-> 2, Completed |-> 3,
         Failed |-> 4, Incomplete |-> 5]

\* The exit of a command: its code, or none (never started, killed, timed out).
NoExit == 256
Unevaluated(exit) == exit \in {NoExit, 126, 127}

\* Which engine answers for evidence named by a step of the evaluation.
EvidenceEngine(step) ==
    CASE step \in {"clone-index", "read-clone-index"} -> "Clones"
      [] step \in {"coverage-report", "coverage-diff", "coverage-source-classification"} -> "Coverage"
      [] step \in {"mutation-report", "mutation-scope"} -> "MutationReport"
      [] step = "generated-freshness" -> "GeneratedFreshness"
      [] step = "legacy-ratchet" -> "LegacyRatchet"
      [] step = "format_check" -> "FormatCheck"
      [] step = "lint" -> "Lint"
      [] step = "test" -> "Tests"
      [] step = "typecheck" -> "Typecheck"
      [] OTHER -> "Complexity"

(* findings: blocking static findings, in report order, each with its engine; *)
(* orch: evidence failures and failed commands; cov, mut: the violated metric *)
(* classes; tool: a blocking compiler diagnostic was reported.                *)
NewReport == [obs |-> [e \in Engines |-> Unobserved], findings |-> << >>,
              orch |-> {}, cov |-> {}, mut |-> {}, tool |-> FALSE]

ObserveLatest(report, id, state) == [report EXCEPT !.obs[id] = state]

Observe(report, id, state) ==
    IF Rank[state] > Rank[report.obs[id]] THEN [report EXCEPT !.obs[id] = state] ELSE report

ObserveAllLatest(report, ids, state) ==
    [report EXCEPT !.obs = [e \in Engines |-> IF e \in ids THEN state ELSE @[e]]]

\* Observe one state for several engines.
ObserveAll(report, ids, state) ==
    [report EXCEPT !.obs = [e \in Engines |->
        IF e \in ids /\ Rank[state] > Rank[@[e]] THEN state ELSE @[e]]]

\* A source that cannot be read or classified was missed by every static engine.
ObserveEvidenceFailure(report, step) ==
    ObserveAll(report,
               IF step \in {"read-source", "classify-source"} THEN StaticEngines
                                                              ELSE {EvidenceEngine(step)},
               "Incomplete")

AddViolation(report, step, exit) ==
    [report EXCEPT !.orch = @ \cup {[step |-> step, exit |-> exit]}]

RecordEvidenceFailure(report, blocking, step) ==
    LET seen == ObserveEvidenceFailure(report, step)
    IN  IF blocking THEN AddViolation(seen, step, NoExit) ELSE seen

\* Several steps without evidence at once, each of which blocks.
RecordEvidenceFailures(report, steps) ==
    [ObserveAll(report, {EvidenceEngine(s) : s \in steps}, "Incomplete")
        EXCEPT !.orch = @ \cup {[step |-> s, exit |-> NoExit] : s \in steps}]

\* Metrics that say evidence is missing rather than below a floor.
MissingCoverage == {"Missing Source Coverage", "Missing Diff Coverage",
                    "Missing Critical Path", "Coverage Count Overflow"}
IncompleteMutation == {"Mutation Unexecuted Mutants", "Mutation Timeouts",
                       "Mutation Compile Errors", "Mutation Runner Errors",
                       "Mutation Unviable Mutants"}

NoViolations(report) ==
    /\ report.findings = << >> /\ report.orch = {} /\ report.cov = {} /\ report.mut = {}
    /\ ~report.tool

\* What the findings themselves say of their engines, added when the report closes.
ViolationStates(report) ==
    [e \in Engines |->
        (IF e = "Lint" /\ report.tool THEN {"Failed"} ELSE {})
        \cup {"Failed" : f \in {f \in 1 .. Len(report.findings) : report.findings[f].engine = e}}
        \cup {IF Unevaluated(v.exit) THEN "Incomplete" ELSE "Failed" :
                 v \in {v \in report.orch : EvidenceEngine(v.step) = e}}
        \cup {IF m \in MissingCoverage THEN "Incomplete" ELSE "Failed" :
                 m \in IF e = "Coverage" THEN report.cov ELSE {}}
        \cup {IF m \in IncompleteMutation THEN "Incomplete" ELSE "Failed" :
                 m \in IF e = "MutationReport" THEN report.mut ELSE {}}]

Highest(states) == CHOOSE s \in states : \A t \in states : Rank[t] <= Rank[s]

FinalObservations(report) ==
    [e \in Engines |-> Highest({report.obs[e]} \cup ViolationStates(report)[e])]

\* A plan fixes, before anything runs, which engines the command owes.
Reconcile(plan, obs) ==
    [plan EXCEPT !.engines = [e \in Engines |->
        IF @[e].selected /\ obs[e] # Unobserved THEN [@[e] EXCEPT !.state = obs[e]] ELSE @[e]]]

\* Every selected engine of an evaluation that aborted is incomplete.
AbortedPlan(plan) ==
    [plan EXCEPT !.engines = [e \in Engines |->
        IF @[e].selected THEN [@[e] EXCEPT !.state = "Incomplete"] ELSE @[e]]]

IsPartial(plan) ==
    \/ plan.command # "check"
    \/ plan.mode # "repository"
    \/ \E e \in Engines : plan.engines[e].enabled /\ ~plan.engines[e].selected

IsComplete(plan) ==
    /\ ~IsPartial(plan)
    /\ \A e \in Engines : plan.engines[e].selected => plan.engines[e].state \in {"Completed", "Cached"}

IncompleteEvidence(report) ==
    \/ report.mut \cap IncompleteMutation # {}
    \/ \E v \in report.orch : Unevaluated(v.exit)
    \/ report.cov \cap MissingCoverage # {}

Outcome(report) ==
    IF IncompleteEvidence(report) THEN "incomplete"
    ELSE IF NoViolations(report) THEN "passed" ELSE "violations"

ExitCode(outcome) == CASE outcome = "passed" -> 0 [] outcome = "violations" -> 1 [] OTHER -> 2

DocumentOfFindings(report, plan) ==
    LET final == Reconcile(plan, FinalObservations(report))
        status == IF NoViolations(report) THEN "passed" ELSE "violations"
    IN  [status |-> status, exit |-> ExitCode(status), partial |-> IsPartial(final),
         accepted |-> NoViolations(report) /\ IsComplete(final),
         states |-> [e \in Engines |-> final.engines[e].state]]

\* What the machine document of a finalized report states.
Document(report, plan) ==
    LET final == Reconcile(plan, FinalObservations(report))
    IN  [status |-> Outcome(report), exit |-> ExitCode(Outcome(report)),
         partial |-> IsPartial(final),
         accepted |-> NoViolations(report) /\ IsComplete(final),
         states |-> [e \in Engines |-> final.engines[e].state]]

\* The verdict shown to a person is stricter: a selected engine that was never
\* observed in a full check, or stayed incomplete, is shown as incomplete.
AcceptanceIncomplete(report, plan) ==
    LET final == Reconcile(plan, FinalObservations(report))
    IN  \/ Outcome(report) = "incomplete"
        \/ \E e \in Engines :
              /\ final.engines[e].selected
              /\ \/ final.engines[e].state = "Incomplete"
                 \/ ~IsPartial(final) /\ final.engines[e].state = "Skipped"

HumanVerdict(report, plan) ==
    IF AcceptanceIncomplete(report, plan) THEN "Incomplete"
    ELSE IF NoViolations(report) THEN "Passed" ELSE "Failed"
=============================================================================
