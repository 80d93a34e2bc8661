----------------------------- MODULE CheckCommand -----------------------------
(* `hardgate check`: from the parsed options to the exit status. The command  *)
(* fixes a plan, then lets producers, the static engines, the ratchet,        *)
(* project commands and evidence gates write into one report, closes it,      *)
(* publishes it and exits. Any of them may fail, and a signal may arrive at   *)
(* any time. Files, findings and Git evidence are inputs of a case.           *)
EXTENDS StaticPolicy, LegacyRatchet

CONSTANTS Cases,      \* the invocations: options, configuration, tree, baseline
          Signals,    \* the signals that may arrive
          NoPlan, Running, Nothing

IsSequence(s) == s \in Seq(ToSet(s))
FindingsIn(tree, index) ==
    (UNION {ToSet(tree[i].findings) : i \in DOMAIN tree}) \cup ToSet(index.found)
IsScan(tree, index) ==
    /\ IsSequence(tree) /\ IsSequence(index.found)
    /\ \A i \in DOMAIN tree : IsSequence(tree[i].findings)
    /\ \A f \in FindingsIn(tree, index) : f.actual \in Nat
    /\ \A f \in ToSet(index.found) : f.engine = "Clones"

ASSUME CasesAssumption ==
    \A c \in Cases :
        /\ IsScan(c.tree, c.index) /\ IsScan(c.base.tree, c.base.index)
        /\ DOMAIN c.config.roles = ToSet(PolicyRoles)
        /\ IsSequence(c.config.producers)
        /\ \A p \in ToSet(c.config.producers) : p.kind \in {"coverage", "mutation"}
ASSUME SignalsAssumption == Signals \subseteq Nat
ASSUME NothingAssumption ==
    Nothing \notin [status : {"passed", "violations", "incomplete"}, exit : 0 .. 2, partial : BOOLEAN,
                    accepted : BOOLEAN, states : [Engines -> EngineState]]

VARIABLES case,       \* the invocation
          phase,      \* what the command does next
          plan,       \* the engines it owes, or NoPlan before it is fixed
          report,     \* the report being written
          runs,       \* producer runs, in order
          steps,      \* the project commands of the session, as <<group, command>>
          count,      \* commands run or reports read in this phase
          reference,  \* BOOLEAN: the ratchet loaded its Git evidence
          files,      \* published documents: report JSON and rendered output
          result,     \* what the command returns
          signal,     \* the first signal received, or 0
          exit,       \* the exit status, or Running
          gaps,       \* ghost: engines whose evidence was not obtained
          failed      \* ghost: engines a requirement of which was not met

vars == <<case, phase, plan, report, runs, steps, count, reference, files, result, signal,
          exit, gaps, failed>>

StepName == [Format |-> "format_check", Lint |-> "lint", Tests |-> "test", Typecheck |-> "typecheck"]

Selects(kind) == case.checks = {} \/ kind \in case.checks
Config == case.config
Ratchets == Selects("Policy") /\ Config.ratchet # "off"

-----------------------------------------------------------------------------
(* The plan: which engines the configuration enables and the options select.  *)

EnabledEngines ==
    {"FileBudgets", "Complexity", "FormatCheck", "Lint"}
    \cup {e \in Engines : CASE e = "Suppressions" -> Config.suppressions
                            [] e = "Invariants" -> Config.invariants
                            [] e = "Clones" -> ClonesEnabled(Config)
                            [] e = "Coverage" -> Config.coverage
                            [] e = "MutationReport" -> Config.mutation
                            [] e = "GeneratedFreshness" -> Config.generated # "off"
                            [] e = "LegacyRatchet" -> Config.ratchet # "off"
                            [] e = "Tests" -> Config.commands.Tests # << >>
                            [] e = "Typecheck" -> Config.commands.Typecheck # << >>
                            [] OTHER -> FALSE}

Requested(e) ==
    CASE e = "FormatCheck" -> Selects("Format")
      [] e \in {"Lint", "Tests", "Typecheck"} -> Selects(e)
      [] OTHER -> Selects("Policy")

ScopeMode ==
    IF case.diff THEN "diff"
    ELSE IF case.scope.files \cup case.scope.under = {} THEN "repository" ELSE "paths"

GatePlan ==
    [command |-> "check", mode |-> ScopeMode,
     engines |-> [e \in Engines |->
        [enabled |-> e \in EnabledEngines,
         selected |-> e \in EnabledEngines /\ Requested(e),
         state |-> IF e \in EnabledEngines THEN "Skipped" ELSE "Disabled"]]]

\* Options the command refuses before it has a plan.
Refused ==
    \/ case.samePath
    \/ ~Selects("Policy") /\ case.reportOption
    \/ case.mode # "none" /\ ~Config.coverage /\ ~Config.mutation

\* Commands run inside a workload guard when evidence or isolation asks for it.
ExecutesTools ==
    \/ case.mode # "none"
    \/ case.checks = {} \/ case.checks # {"Policy"}
    \/ Config.generated = "set"
Guarded == ExecutesTools /\ (case.mode # "none" \/ Config.isolation)

-----------------------------------------------------------------------------

Init ==
    /\ case \in Cases
    /\ phase = "resolve" /\ plan = NoPlan /\ report = NewReport /\ runs = << >>
    /\ steps = << >> /\ count = 0 /\ reference = FALSE
    /\ files = [json |-> Nothing, rendered |-> Nothing]
    /\ result = Nothing /\ signal = 0 /\ exit = Running /\ gaps = {} /\ failed = {}

Unchanged(others) ==
    UNCHANGED <<case, plan, signal, exit>> /\ UNCHANGED others

\* What a phase that only writes the report leaves alone.
ReportStep(next, new, missing, bad) ==
    /\ phase' = next /\ report' = new /\ gaps' = gaps \cup missing /\ failed' = failed \cup bad
    /\ Unchanged(<<runs, files, result>>)

\* The command ends with an error; run_planned keeps the plan it aborted.
Abort(reason) ==
    /\ phase' = "guard" /\ result' = reason
    /\ plan' = IF plan = NoPlan THEN NoPlan ELSE AbortedPlan(plan)
    /\ UNCHANGED <<case, report, runs, steps, count, reference, files, signal, exit, gaps, failed>>

Resolve ==
    /\ phase = "resolve"
    /\ \/ Refused /\ Abort("error")
       \/ Guarded /\ Abort("error")                    \* admission to the workload failed
       \/ /\ ~Refused
          /\ phase' = "evidence" /\ plan' = GatePlan
          /\ UNCHANGED <<case, report, runs, steps, count, reference, files, result, signal,
                         exit, gaps, failed>>

-----------------------------------------------------------------------------
(* Producers run first, one after the other, until a signal arrives.          *)

KindEnabled(kind) == IF kind = "coverage" THEN Config.coverage ELSE Config.mutation

Preflight ==
    \A kind \in {"coverage", "mutation"} :
        KindEnabled(kind) => \E i \in DOMAIN Config.producers : Config.producers[i].kind = kind

EnabledProducers == Among(Config.producers, {p \in ToSet(Config.producers) : KindEnabled(p.kind)})

KindEngine(kind) == IF kind = "coverage" THEN "Coverage" ELSE "MutationReport"

\* One producer reuses authenticated evidence (not when asked to run cold),
\* produces it, or fails.
RunProducer ==
    /\ phase = "evidence" /\ case.mode # "none" /\ Preflight
    /\ Len(runs) < Len(EnabledProducers)
    /\ \E status \in {"produced", "failed"} \cup (IF case.mode = "reuse" THEN {"reused"} ELSE {}) :
          LET producer == EnabledProducers[Len(runs) + 1]
          IN  /\ runs' = Append(runs, [kind |-> producer.kind, status |-> status,
                                       command |-> producer.command])
              /\ gaps' = IF status = "failed" THEN gaps \cup {KindEngine(producer.kind)} ELSE gaps
              /\ phase' = IF signal # 0 \/ Len(runs') = Len(EnabledProducers) THEN "static" ELSE phase
    /\ Unchanged(<<report, steps, count, reference, files, result, failed>>)

SkipProducers ==
    /\ phase = "evidence"
    /\ case.mode = "none" \/ ~Preflight
    /\ phase' = "static"
    /\ runs' = IF case.mode = "none" THEN << >>
               ELSE <<[kind |-> "any", status |-> "failed", command |-> Nothing]>>
    /\ gaps' = IF case.mode = "none" THEN gaps
               ELSE gaps \cup {KindEngine(k) : k \in {k \in {"coverage", "mutation"} : KindEnabled(k)}}
    /\ Unchanged(<<report, steps, count, reference, files, result, failed>>)

\* A failed run is missing evidence of its kind, whatever the checks selected.
MissedSteps ==
    {step \in {"coverage-report", "mutation-report"} :
        \E i \in DOMAIN runs :
            LET kind == IF step = "coverage-report" THEN "coverage" ELSE "mutation"
            IN  runs[i].status = "failed" /\ KindEnabled(kind) /\ runs[i].kind \in {kind, "any"}}

\* Mutant: only a check that evaluates the reports records it, and as coverage.
RecordProducersSelected(into) ==
    RecordEvidenceFailures(into, IF Selects("Policy") /\ \E i \in DOMAIN runs : runs[i].status = "failed"
                                 THEN {"coverage-report"} ELSE {})

RecordProducers(into) == RecordEvidenceFailures(into, MissedSteps)

-----------------------------------------------------------------------------
(* The static phase and the ratchet.                                          *)

SelectedFiles(diff) ==
    SelectFiles({case.tree[i].path : i \in DOMAIN case.tree}, case.changed, case.scope, diff)

\* The ratchet judges the whole tree, so it turns the diff of the files off.
StaticDiff == case.diff /\ ~Ratchets

StaticReport ==
    IF ~Selects("Policy") THEN NewReport
    ELSE RunSharedGate(Config, case.tree, SelectedFiles(StaticDiff), StaticDiff, case.index)

\* What a role lacks blocks under an error severity; a lenient reader looks at all.
Blocks(role, lenient) == lenient \/ Severity(Config, role) = "Error"

\* Ghost, stated of the files themselves: the engines a selected file withholds
\* evidence from. The policy may ignore migrations the inventory knows.
FileGap(file, lenient) ==
    IF file.path \notin SelectedFiles(StaticDiff) THEN {}
    ELSE (IF \/ ~file.readable /\ Blocks(file.role, lenient)
             \/ file.role = "Unknown" /\ Config.enforceClassified /\ ~file.retired
          THEN StaticEngines ELSE {})
         \cup (IF \/ file.retired /\ file.role \in {"Source", "Test", "Migration", "Unknown"}
                  \/ /\ Blocks(file.role, lenient)
                     /\ \/ ~file.ast /\ file.role = "Source" /\ ~file.inventory
                        \/ /\ ~file.ast /\ file.role = "Migration"
                           /\ ~(file.inventory /\ Severity(Config, "Migration") = "Ignore")
                        \/ file.readable /\ file.ast /\ ReceivesComplexity(file.role) /\ ~file.parses
               THEN {"Complexity"} ELSE {})

\* Clones are compared with files outside a diff too, once it selects a file.
CloneGap(file, lenient) ==
    /\ CloneRole(Config, file.role) /\ SelectedFiles(StaticDiff) # {}
    /\ StaticDiff \/ file.path \in SelectedFiles(StaticDiff)
    /\ IF file.readable THEN ~case.index.complete ELSE Blocks(file.role, lenient)

StaticGaps(lenient) ==
    IF ~Selects("Policy") THEN {}
    ELSE {e \in {"Clones"} : \E i \in DOMAIN case.tree : CloneGap(case.tree[i], lenient)}
         \cup UNION {FileGap(case.tree[i], lenient) : i \in DOMAIN case.tree}
BlockingGaps == StaticGaps(FALSE)

\* Ghost: the engines with a finding that blocks under the role of its file.
Blocking ==
    IF ~Selects("Policy") THEN {}
    ELSE {e \in StaticEngines \ {"Clones"} :
             \E i \in DOMAIN case.tree :
                /\ case.tree[i].path \in SelectedFiles(StaticDiff) /\ case.tree[i].readable
                /\ e \in EnginesOf(Config, case.tree[i])
                /\ e = "Complexity" => case.tree[i].parses
                /\ \E j \in DOMAIN case.tree[i].findings :
                      LET f == case.tree[i].findings[j]
                      IN  f.engine = e /\ FindingSeverity(Config, case.tree[i].role, f) = "Error"}

Static ==
    /\ phase = "static"
    /\ \/ Selects("Policy") /\ Abort("error")                \* discovery or Git failed
       \/ ReportStep("ratchet", RecordProducers(StaticReport), BlockingGaps, {})
    /\ UNCHANGED <<steps, count, reference>>

\* The baseline is analysed whole under the trusted configuration.
BaselineReport ==
    AnalyzeSnapshot(TrustedBaselineConfig(Config), case.base.tree,
                    {case.base.tree[i].path : i \in DOMAIN case.base.tree}, FALSE, case.base.index)

FindingEngines(findings) == {findings[i].engine : i \in DOMAIN findings}

RatchetFailure == RecordEvidenceFailure(report, TRUE, "legacy-ratchet")

\* Findings of the report are ratcheted, evidence failures never are.
Ratchet ==
    /\ phase = "ratchet" /\ Ratchets
    /\ UNCHANGED <<steps, count>>
    /\ \/ /\ ReportStep("generated", RatchetFailure, {"LegacyRatchet"}, FindingEngines(report.findings))
          /\ UNCHANGED reference
       \/ /\ Config.ratchet = "set" /\ reference' = TRUE
          /\ LET loaded == Observe(report, "LegacyRatchet", "Completed")
             IN  IF BaselineReport.orch # {}
                 THEN ReportStep("generated", RecordEvidenceFailure(loaded, TRUE, "legacy-ratchet"),
                                 {"LegacyRatchet"}, FindingEngines(report.findings))
                 ELSE LET kept == ApplyLegacyRatchet(report.findings, BaselineReport.findings,
                                                     case.changes).retained
                      IN  ReportStep("generated", [loaded EXCEPT !.findings = kept], {},
                                     FindingEngines(kept))

NoRatchet ==
    /\ phase = "ratchet" /\ ~Ratchets
    /\ ReportStep("generated", report, {}, Blocking \cup (FindingEngines(report.findings) \cap {"Clones"}))
    /\ UNCHANGED <<steps, count, reference>>

-----------------------------------------------------------------------------
(* Project commands: the freshness command, then the selected groups.         *)

StepsOf(group, reused) ==
    LET owed == Among(Config.commands[group], ToSet(Config.commands[group]) \ reused)
    IN  IF Selects(group) THEN [i \in DOMAIN owed |-> <<group, owed[i]>>] ELSE << >>

\* Only tests may be reused from a producer.
CommandSteps(reused) ==
    StepsOf("Format", {}) \o StepsOf("Lint", {}) \o StepsOf("Tests", reused) \o StepsOf("Typecheck", {})

Unresolved == {g \in {"Format", "Lint"} : Selects(g) /\ Config.commands[g] = << >>}

GroupEngine(group) == EvidenceEngine(StepName[group])

Generated ==
    /\ phase = "generated" /\ Selects("Policy") /\ Config.generated # "off"
    /\ \E code \in IF Config.generated = "missing" THEN {NoExit} ELSE {0, 1, 127, NoExit} :
          LET seen == Observe(report, "GeneratedFreshness", "Completed")
          IN  IF code = 0 THEN ReportStep("commands", seen, {}, {})
              ELSE ReportStep("commands", AddViolation(seen, "generated-freshness", code),
                              IF Unevaluated(code) THEN {"GeneratedFreshness"} ELSE {},
                              IF Unevaluated(code) THEN {} ELSE {"GeneratedFreshness"})
    /\ UNCHANGED <<steps, count, reference>>

NoGenerated ==
    /\ phase = "generated" /\ ~(Selects("Policy") /\ Config.generated # "off")
    /\ ReportStep("commands", report, {}, {}) /\ UNCHANGED <<steps, count, reference>>

\* Test commands a producer just ran first, in a run that is still reusable.
ReusableTests ==
    IF case.mode = "none" THEN {}
    ELSE {c \in ToSet(Config.commands.Tests) :
             \E i \in DOMAIN runs : runs[i].status \in {"produced", "reused"} /\ runs[i].command = c.id}

\* The groups are resolved, then one session is opened for all their commands.
OpenSession ==
    /\ phase = "commands"
    /\ \E reused \in SUBSET (IF Selects("Tests") THEN ReusableTests ELSE {}) :
          LET resolved == RecordEvidenceFailures(report, {StepName[g] : g \in Unresolved})
              seen == IF reused = {} THEN resolved ELSE Observe(resolved, "Tests", "Completed")
              owed == CommandSteps(reused)
              unresolved == {GroupEngine(g) : g \in Unresolved}
          IN  /\ steps' = owed
              /\ IF owed = << >> THEN ReportStep("coverage", seen, unresolved, {})
                 ELSE \/ ReportStep("session", seen, unresolved, {})
                      \/ ReportStep("coverage",
                             [seen EXCEPT !.orch = @ \cup {[step |-> StepName[owed[i][1]], exit |-> NoExit] :
                                                              i \in DOMAIN owed}],
                             unresolved \cup {GroupEngine(owed[i][1]) : i \in DOMAIN owed}, {})
    /\ UNCHANGED <<count, reference>>

\* Clippy's verdict is taken from its diagnostic stream, which must be complete and
\* agree with the exit code; a failure must be explained by a blocking finding.
ClippyFinished(code, stream) ==
    /\ stream.complete /\ code # NoExit
    /\ stream.success = (code = 0)
    /\ code = 0 \/ stream.blocking

RecordResult(r, group, command, code, stream) ==
    LET tool == [r EXCEPT !.tool = @ \/ stream.blocking]
    IN  IF group = "Lint" /\ command.clippy
        THEN IF ClippyFinished(code, stream)
             THEN Observe(tool, "Lint", IF stream.blocking THEN "Failed" ELSE "Completed")
             ELSE AddViolation(tool, "lint", IF code = 0 THEN NoExit ELSE code)
        ELSE IF code = 0 THEN Observe(r, GroupEngine(group), "Completed")
        ELSE AddViolation(r, StepName[group], code)

Streams == [complete : BOOLEAN, success : BOOLEAN, blocking : BOOLEAN]
NoStream == [complete |-> TRUE, success |-> TRUE, blocking |-> FALSE]

\* The commands run in order; results are private until the report is closed,
\* so each is recorded as it ends. The first step answers for the cleanup.
RunCommand ==
    /\ phase = "session"
    /\ \E code \in {0, 1, 127, NoExit} :
       \E stream \in IF steps[count + 1][2].clippy THEN Streams ELSE {NoStream} :
          LET group == steps[count + 1][1]
              command == steps[count + 1][2]
              engine == GroupEngine(group)
              clippy == group = "Lint" /\ command.clippy
              missing == IF clippy THEN ~ClippyFinished(code, stream) /\ (code = 0 \/ Unevaluated(code))
                                   ELSE Unevaluated(code)
          IN  /\ count' = IF count + 1 = Len(steps) THEN 0 ELSE count + 1
              /\ ReportStep(IF count + 1 = Len(steps) THEN "close" ELSE "session",
                            RecordResult(report, group, command, code, stream),
                            IF missing THEN {engine} ELSE {},
                            IF code \notin {0, 127, NoExit} \/ (clippy /\ stream.blocking) THEN {engine} ELSE {})
    /\ UNCHANGED <<steps, reference>>

CloseSession ==
    /\ phase = "close"
    /\ \/ ReportStep("coverage", report, {}, {})
       \/ LET first == steps[1][1]
          IN  ReportStep("coverage", AddViolation(report, StepName[first], NoExit), {GroupEngine(first)}, {})
    /\ UNCHANGED <<steps, count, reference>>

-----------------------------------------------------------------------------
(* Coverage and mutation evidence.                                            *)

\* Whether a source must be covered: a Rust file by a function found in it; any
\* other unless a parse shows that nothing in it executes.
ExecutionApplies(file) ==
    LET parsed == file.readable /\ file.parses
    IN  IF file.language = "rust" THEN parsed /\ file.executable
        ELSE file.language # "css" /\ (parsed => file.executable)

SelectedSources ==
    {i \in DOMAIN case.tree : case.tree[i].role = "Source" /\ case.tree[i].path \in SelectedFiles(StaticDiff)}

SourceFiles == {case.tree[i].path : i \in {i \in SelectedSources : ExecutionApplies(case.tree[i])}}

\* Changed lines of selected sources that were read and can be parsed; the
\* ratchet's evidence is used when there is one.
HasChangedLines ==
    /\ Ratchets => reference
    /\ \E i \in SelectedSources : case.tree[i].readable /\ case.tree[i].ast
                                  /\ case.changes.lines[case.tree[i].path] # {}

\* The metrics a scored report may violate, by mode.
CoverageMetrics ==
    IF case.diff THEN {"Missing Diff Coverage", "Diff Coverage"}
    ELSE {"Missing Source Coverage", "Line Coverage"}

ScoreCoverage(into, missing, inputs) ==
    \/ ReportStep("mutation", RecordEvidenceFailure(into, TRUE, "coverage-report"),
                  missing \cup {"Coverage"}, {})
    \/ \E violated \in IF inputs THEN SUBSET CoverageMetrics ELSE {{}} :
          ReportStep("mutation",
                     [(IF inputs THEN Observe(into, "Coverage", "Completed") ELSE into)
                         EXCEPT !.cov = @ \cup violated],
                     missing \cup (IF violated \cap MissingCoverage # {} THEN {"Coverage"} ELSE {}),
                     IF violated \ MissingCoverage # {} THEN {"Coverage"} ELSE {})

\* A diff uses the ratchet's evidence, none when the ratchet failed, and its own
\* otherwise; its lines are classified once more, which may abort the command.
Coverage ==
    /\ phase = "coverage" /\ Selects("Policy") /\ Config.coverage
    /\ UNCHANGED <<steps, count, reference>>
    /\ \/ ScoreCoverage(report, {},
             IF case.diff THEN HasChangedLines ELSE SourceFiles # {} \/ Config.critical)
       \/ ~case.diff /\ ScoreCoverage(
             RecordEvidenceFailure(report, TRUE, "coverage-source-classification"),
             {"Coverage"}, Config.critical)
       \/ case.diff /\ ~Ratchets /\ ScoreCoverage(
             RecordEvidenceFailure(report, TRUE, "coverage-diff"), {"Coverage"}, FALSE)
       \/ case.diff /\ Abort("error")

NoCoverage ==
    /\ phase = "coverage" /\ ~(Selects("Policy") /\ Config.coverage)
    /\ ReportStep("mutation", report, {}, {}) /\ UNCHANGED <<steps, count, reference>>

\* The reports are validated one by one; then all of them as a set.
MutationReport ==
    /\ phase = "mutation" /\ Selects("Policy") /\ Config.mutation /\ count < Config.reports
    /\ \/ ReportStep("mutation", RecordEvidenceFailure(report, TRUE, "mutation-report"), {"MutationReport"}, {})
       \/ \E violated \in SUBSET {"Mutation Score", "Mutation Timeouts"} :
             ReportStep("mutation",
                 [Observe(report, "MutationReport", "Completed") EXCEPT !.mut = @ \cup violated],
                 IF violated \cap IncompleteMutation # {} THEN {"MutationReport"} ELSE {},
                 IF violated \ IncompleteMutation # {} THEN {"MutationReport"} ELSE {})
    /\ count' = count + 1
    /\ UNCHANGED <<steps, reference>>

\* Reports are judged as a set when each of them is valid. A failed one has left
\* a step in the report; where a failed producer left the same, either may hold.
MutationSet ==
    /\ phase = "mutation" /\ Selects("Policy") /\ Config.mutation /\ count = Config.reports
    /\ IF Config.reports = 0
       THEN ReportStep("emit", RecordEvidenceFailure(report, TRUE, "mutation-report"), {"MutationReport"}, {})
       ELSE \/ ReportStep("emit", report, {}, {})
            \/ /\ (\E v \in report.orch : v.step = "mutation-report") => "mutation-report" \in MissedSteps
               /\ ReportStep("emit", RecordEvidenceFailure(report, TRUE, "mutation-scope"), {"MutationReport"}, {})
    /\ UNCHANGED <<steps, count, reference>>

NoMutation ==
    /\ phase = "mutation" /\ ~(Selects("Policy") /\ Config.mutation)
    /\ ReportStep("emit", report, {}, {}) /\ UNCHANGED <<steps, count, reference>>

-----------------------------------------------------------------------------
(* The report is closed once and published: JSON file, output file, stdout.   *)

Closed == Document(report, plan)

WriteOutput(name, next) ==
    /\ files' = [files EXCEPT ![name] = Closed]
    /\ phase' = next
    /\ UNCHANGED <<case, plan, report, runs, steps, count, reference, result, signal, exit, gaps, failed>>

Skip(next) ==
    /\ phase' = next
    /\ UNCHANGED <<case, plan, report, runs, steps, count, reference, files, result, signal, exit, gaps, failed>>

WriteJson ==
    /\ phase = "emit"
    /\ IF case.json THEN WriteOutput("json", "rendered") \/ Abort("error") ELSE Skip("rendered")

WriteRendered ==
    /\ phase = "rendered"
    /\ IF case.rendered THEN WriteOutput("rendered", "stdout") \/ Abort("error") ELSE Skip("stdout")

WriteStdout ==
    /\ phase = "stdout"
    /\ \/ /\ result' = Outcome(report) /\ phase' = "guard"
          /\ UNCHANGED <<case, plan, report, runs, steps, count, reference, files, signal, exit,
                         gaps, failed>>
       \/ Abort("error")
       \/ Abort("broken pipe")

\* A guard that does not verify overrides whatever the command returned.
VerifyGuard ==
    /\ phase = "guard"
    /\ Skip("finish") \/ (Guarded /\ Abort("error"))

\* The status a result ends with. An error that cannot be told as JSON, because
\* the reader of the output has gone, is no failure either.
ExitsFor(outcome) ==
    CASE outcome = "broken pipe" -> {0}
      [] outcome = "error" -> {2} \cup (IF case.format = "json" THEN {0} ELSE {})
      [] OTHER -> {ExitCode(outcome)}

Finish ==
    /\ phase = "finish" /\ phase' = "done"
    /\ exit' \in IF signal # 0 THEN {128 + signal} ELSE ExitsFor(result)
    /\ UNCHANGED <<case, plan, report, runs, steps, count, reference, files, result, signal, gaps, failed>>

ReceiveSignal ==
    /\ phase # "done" /\ signal = 0
    /\ signal' \in Signals
    /\ UNCHANGED <<case, phase, plan, report, runs, steps, count, reference, files, result, exit,
                   gaps, failed>>

Done == phase = "done" /\ UNCHANGED vars

Next ==
    \/ Resolve \/ RunProducer \/ SkipProducers \/ Static \/ Ratchet \/ NoRatchet
    \/ Generated \/ NoGenerated \/ OpenSession \/ RunCommand \/ CloseSession
    \/ Coverage \/ NoCoverage \/ MutationReport \/ MutationSet \/ NoMutation
    \/ WriteJson \/ WriteRendered \/ WriteStdout \/ VerifyGuard \/ Finish \/ ReceiveSignal \/ Done

Spec == Init /\ [][Next]_vars

-----------------------------------------------------------------------------
(* Properties.                                                                *)

\* The command may have ended because nobody reads its standard output.
ReaderGone == result = "broken pipe" \/ (result = "error" /\ case.format = "json")

\* The exit status says what happened: 0 only when no required evidence was
\* missed and nothing failed (a reader that closed stdout aside), 1 only when
\* something failed and nothing was missed, 2 only when something was missed or
\* the command itself failed; missing evidence never looks like a violation, and
\* only an error due as JSON may be lost with the reader it was for.
ExitStatusIsEarned ==
    phase = "done" =>
        /\ (exit = 0 /\ ~ReaderGone) => (result # "error" /\ gaps = {} /\ failed = {})
        /\ exit = 1 => gaps = {} /\ failed # {}
        /\ exit = 2 => result = "error" \/ gaps # {}

\* A document that declares acceptance was written by a check of the whole
\* repository that obtained the evidence of every engine it enables, gaps that a
\* lenient role does not block included, and is shown to a person as passed; and
\* a whole check shown as passed declares acceptance.
AcceptanceIsComplete ==
    \A name \in DOMAIN files : files[name] # Nothing =>
        /\ files[name].accepted =>
              /\ ~files[name].partial
              /\ gaps \cup failed \cup StaticGaps(TRUE) = {}
              /\ SelectedFiles(StaticDiff) = {case.tree[i].path : i \in DOMAIN case.tree}
              /\ \A e \in EnabledEngines : files[name].states[e] = "Completed"
        /\ ~files[name].partial =>
              (files[name].accepted <=> HumanVerdict(report, plan) = "Passed")

\* When the command returns an outcome, every requested file holds a document of
\* that outcome; the two never disagree, whatever fails later.
PublishedMatchesExit ==
    /\ (files.json # Nothing /\ files.rendered # Nothing) => files.json = files.rendered
    /\ (phase = "done" /\ result \in {"passed", "violations", "incomplete"}) =>
        \A name \in DOMAIN files :
            /\ case[name] <=> files[name] # Nothing
            /\ files[name] # Nothing =>
                  files[name].status = result /\ (signal = 0 => files[name].exit = exit)

\* Evidence never gets better while the report is written: no engine recovers
\* from a worse observation, no failure is withdrawn, and only the ratchet, which
\* judges static findings alone, takes findings out.
EvidenceNeverImproves ==
    [][ /\ \A e \in Engines : Rank[report'.obs[e]] >= Rank[report.obs[e]]
        /\ report.orch \subseteq report'.orch /\ report.cov \subseteq report'.cov
        /\ report.mut \subseteq report'.mut /\ (report.tool => report'.tool)
        /\ report'.findings # report.findings =>
              \/ phase = "static"
              \/ phase = "ratchet" /\ ToSet(report'.findings) \subseteq ToSet(report.findings) ]_vars
=============================================================================
