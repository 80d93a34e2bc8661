---------------------------- MODULE StaticPolicy ----------------------------
(* The static phase: which engines look at which file, and what a finding of  *)
(* theirs becomes under the severity its role configures. The engines' own    *)
(* findings are inputs of a file. A file contributes one role view: Rust      *)
(* files split into source and test views are outside this module.            *)
EXTENDS GateReport, SequencesExt

Roles == {"Source", "Test", "Generated", "Fixture", "Vendor", "Migration", "Config",
          "Documentation", "Unknown"}
PolicyRoles == <<"Source", "Test", "Generated", "Fixture", "Migration">>
ReceivesComplexity(role) == role \in {"Source", "Test"}
ReceivesInvariants(role) == role \in {"Source", "Test"}
ReceivesCloneAnalysis(role) == role \in {"Source", "Test", "Fixture"}
ReceivesSafetyChecks(role) == role \in {"Source", "Test", "Fixture", "Migration", "Config"}

\* Vendored directories are decided before the ordered custom rules, the first
\* of which that matches decides before the built-in conventions.
Classify(vendored, rules, path, builtin) ==
    LET matching == {i \in DOMAIN rules : path \in rules[i].paths}
    IN  IF vendored THEN "Vendor"
        ELSE IF matching # {} THEN rules[CHOOSE i \in matching : \A j \in matching : i <= j].role
        ELSE builtin

Unset == "unset"
Override(value, default) == IF value = Unset THEN default ELSE value

\* The first-class policy section of a role, if the role has one.
Policy(config, role, field) ==
    IF role \in DOMAIN config.roles THEN config.roles[role][field] ELSE Unset

Severity(config, role) ==
    Override(Policy(config, role, "severity"), IF config.strict THEN "Error" ELSE "Warning")

FileSizeSeverity(config, role) ==
    Override(Policy(config, role, "fileSize"), Severity(config, role))

ComplexitySeverity(config, role, finding) ==
    IF finding.metric \in {"Function Lines", "Statement Count"}
    THEN Override(Policy(config, role, "functionSize"), Severity(config, role))
    ELSE Severity(config, role)

\* A blocking clone below the role's blocking floor is only a warning.
CloneSeverity(config, role, finding) ==
    LET configured == Override(Policy(config, role, "clone"), Severity(config, role))
    IN  IF configured = "Error" /\ finding.actual < config.roles[role].cloneFloor
        THEN "Warning" ELSE configured

FindingSeverity(config, role, finding) ==
    CASE finding.engine = "FileBudgets" -> FileSizeSeverity(config, role)
      [] finding.engine = "Complexity" -> ComplexitySeverity(config, role, finding)
      [] finding.engine = "Clones" -> CloneSeverity(config, role, finding)
      [] OTHER -> Severity(config, role)

\* The elements of a sequence that are in S, in order.
Among(seq, S) == FoldLeft(LAMBDA kept, x : IF x \in S THEN Append(kept, x) ELSE kept, << >>, seq)

\* Only error findings block; warnings are advisories and the rest is dropped.
ApplyFindings(report, config, role, findings) ==
    [report EXCEPT !.findings =
        @ \o Among(findings, {f \in ToSet(findings) : FindingSeverity(config, role, f) = "Error"})]

\* Missing evidence of a role: always observed, blocking only as an error; a
\* migration the inventory knows may be ignored explicitly.
RecordRoleEvidenceFailure(report, config, file, step) ==
    IF /\ step = "unsupported-source" /\ file.role = "Migration" /\ file.inventory
       /\ Severity(config, file.role) = "Ignore"
    THEN report
    ELSE RecordEvidenceFailure(report, Severity(config, file.role) = "Error", step)

\* A selected file no engine can answer for is a gap of the evaluation.
RecordClassificationGap(report, config, file) ==
    IF file.retired /\ file.role \in {"Source", "Test", "Migration", "Unknown"}
    THEN RecordEvidenceFailure(report, TRUE, "unsupported-source")
    ELSE IF file.role = "Unknown" /\ config.enforceClassified
    THEN RecordEvidenceFailure(report, TRUE, "classify-source")
    ELSE IF file.ast \/ file.role \notin {"Source", "Migration"} \/ (file.role = "Source" /\ file.inventory)
    THEN report
    ELSE RecordRoleEvidenceFailure(report, config, file, "unsupported-source")

\* The engines that ran on a file, whatever they found.
EnginesOf(config, file) ==
    {e \in StaticEngines \ {"Clones"} :
        CASE e = "FileBudgets" -> ReceivesSafetyChecks(file.role)
          [] e = "Suppressions" -> ReceivesSafetyChecks(file.role) /\ config.suppressions
          [] e = "Invariants" -> ReceivesInvariants(file.role) /\ config.invariants
          [] OTHER -> ReceivesComplexity(file.role) /\ file.ast}

\* One analysed file: engines observed, findings applied, then its parse error.
MergeFile(report, config, file) ==
    LET ran == EnginesOf(config, file)
        merged == ApplyFindings(ObserveAll(report, ran, "Completed"), config, file.role,
                     Among(file.findings, {f \in ToSet(file.findings) :
                              f.engine \in ran /\ (f.engine = "Complexity" => file.parses)}))
    IN  IF "Complexity" \in ran /\ ~file.parses
        THEN RecordRoleEvidenceFailure(merged, config, file, "parse-source") ELSE merged

CloneConfigForRole(config, role) ==
    Override(Policy(config, role, "cloneEnabled"), config.clones) = "yes"

\* A role whose clones nobody compares by default must be enabled by name.
CloneRole(config, role) ==
    /\ CloneConfigForRole(config, role)
    /\ ReceivesCloneAnalysis(role) \/ Policy(config, role, "cloneEnabled") = "yes"

ClonesEnabled(config) == \E i \in DOMAIN PolicyRoles : CloneRole(config, PolicyRoles[i])

(* One role's clone group: every file of the role in a diff (the others are   *)
(* its reference), otherwise the selected ones. index says whether the        *)
(* detector could complete and what it found among the files of the role.     *)
(* Failures to read files of a role differ in their path only.                *)
CloneGroup(report, config, role, snapshot, selected, diff, index) ==
    LET members == {i \in DOMAIN snapshot :
                       snapshot[i].role = role /\ (diff \/ snapshot[i].path \in selected)}
        unread == {i \in members : ~snapshot[i].readable}
        paths == {snapshot[i].path : i \in members \ unread}
        failed == IF unread = {} THEN report
                  ELSE RecordRoleEvidenceFailure(report, config, snapshot[CHOOSE i \in unread : TRUE],
                                                 "read-clone-index")
        touching == {c \in ToSet(index.found) :
                       ToSet(c.files) \subseteq paths /\ (diff => ToSet(c.files) \cap selected # {})}
        seen == Observe(failed, "Clones", "Completed")
    IN  IF members = unread THEN failed
        ELSE IF index.complete THEN ApplyFindings(seen, config, role, Among(index.found, touching))
        ELSE RecordEvidenceFailure(seen, TRUE, "clone-index")

RunCloneAnalysis(report, config, snapshot, selected, diff, index) ==
    FoldLeft(LAMBDA r, role : IF CloneRole(config, role)
                              THEN CloneGroup(r, config, role, snapshot, selected, diff, index)
                              ELSE r,
             report, PolicyRoles)

\* One selected file: what it lacks, then its engines if it can be read.
AnalyzeFile(report, config, file) ==
    LET classified == RecordClassificationGap(report, config, file)
    IN  IF file.readable THEN MergeFile(classified, config, file)
        ELSE RecordRoleEvidenceFailure(classified, config, file, "read-source")

(* All selected files. The code classifies all, reads all and merges all;     *)
(* only merging adds findings, and the rest does not depend on the order.     *)
AnalyzeFiles(config, snapshot, selected) ==
    FoldLeft(LAMBDA r, f : IF f.path \in selected THEN AnalyzeFile(r, config, f) ELSE r,
             NewReport, snapshot)

\* The static engines over one captured snapshot of the files.
AnalyzeSnapshot(config, snapshot, selected, diff, index) ==
    RunCloneAnalysis(AnalyzeFiles(config, snapshot, selected), config, snapshot, selected, diff, index)

\* The whole static phase. Nothing is captured when no file is selected, so a
\* diff that changes nothing has no clones to compare.
RunSharedGate(config, inventory, selected, diff, index) ==
    AnalyzeSnapshot(config, IF selected = {} THEN << >> ELSE inventory, selected, diff, index)

\* The inventory under the given paths; a file named itself is always kept.
UnderPaths(inventory, scope) ==
    IF scope.files \cup scope.under = {} THEN inventory
    ELSE (inventory \cap scope.under) \cup scope.files

\* Files under a path or, in a diff, the changed ones and those added by path.
SelectFiles(inventory, changed, scope, diff) ==
    IF ~diff THEN UnderPaths(inventory, scope)
    ELSE changed \cup (IF scope.files \cup scope.under = {} THEN {}
                       ELSE UnderPaths(inventory, scope))

\* The baseline is judged as strictly as the policy allows, so that a gap in it
\* can never be hidden by a lenient role.
TrustedBaselineConfig(config) ==
    [config EXCEPT !.strict = TRUE,
                   !.roles = [role \in DOMAIN @ |-> [@[role] EXCEPT !.severity = "Error"]]]
=============================================================================
