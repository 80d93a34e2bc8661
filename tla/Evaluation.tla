------------------------------- MODULE Evaluation -------------------------------
(* The pure algorithms of the gate and what each promises of its result: a    *)
(* case is one input of one of them, of the kind its name says.               *)
EXTENDS ResourceBudget, LegacyRatchet, MutationScore, EvidencePartitions, CoverageScore, CloneIndex

VARIABLE case

Is(kind) == case.kind = kind

-----------------------------------------------------------------------------
(* Resource budgets: [telemetry, host, mounts, cpus, jobs, estimate], and the *)
(* launch of a scope: [total, requested, jobs, page, parent].                 *)

\* A mutation budget and all planned runners fit the host and every level of
\* the cgroup, beside the reserve (budget.rs, worker_plan.rs, memory/cgroup.rs),
\* and nothing is admitted while any level is under pressure. The levels are
\* those of the mounts that hold the cgroup's own directory, their first. Where
\* memory is not measured there is nothing to fit.
BudgetFitsEveryLevel ==
    Is("budget") =>
      LET sample == SampleMemory(case.telemetry, case.host, case.mounts)
          budget == FromSample(sample, case.cpus, case.jobs)
          holding == {i \in DOMAIN case.mounts : case.telemetry = "cgroup" /\ ~case.mounts[i][1].gone}
          levels == {l \in UNION {{case.mounts[i][j] : j \in DOMAIN case.mounts[i]} : i \in holding} :
                        ~l.gone /\ l.files = "all"}
          fits(bytes) ==
            /\ bytes <= case.host.available
            /\ \A l \in levels : l.max # Unlimited => bytes + WorkingBytes(l.current, l.stat) <= l.max
            /\ \A l \in levels : l.high # Unlimited => bytes + WorkingBytes(l.current, l.stat) <= l.high
      IN  sample.ok /\ sample # Unmeasured =>
            /\ BudgetFits(sample, case.cpus, case.jobs) /\ WorkersFit(sample, case.jobs, case.estimate)
            /\ budget.ok => fits(budget.memory + budget.reserve) /\ \A l \in levels : l.full = 0
            /\ LET plan == WorkerPlan(sample, case.jobs, case.estimate)
               IN  plan.ok => fits(plan.jobs * case.estimate + CoordinatorBytes + plan.reserve)

\* The command a supervisor launches finds its own scope as its boundary
\* (supervisor.rs properties against linux.rs find_boundary), after the kernel
\* rounded every limit to pages, and not an unlimited ancestor of it.
LaunchedScopeIsFound ==
    Is("launch") =>
      LET memory == MemoryLimit(case.total, case.requested, case.jobs)
          scope == Readback(ScopeProperties(memory, case.jobs), case.page)
      IN  memory >= 5 * Alignment =>
            /\ LaunchedScopeIsBounded(memory, case.jobs, case.page)
            /\ FindBoundary(<<scope, case.parent>>, memory, case.jobs) = 1

-----------------------------------------------------------------------------
(* The legacy ratchet: a repository and the static findings of its work tree  *)
(* and of its merge base, [repo, current, baseline].                          *)

Ratchet == ApplyLegacyRatchet(case.current, case.baseline, LoadReference(case.repo))

\* Where a path was at the merge base, following the renames of the change.
Origin(path) ==
    LET lineage == LoadReference(case.repo).lineage
    IN  IF path \in DOMAIN lineage THEN lineage[path] ELSE path

\* Grandfathering admits no new debt: every excused finding stands for a finding
\* of the baseline of the same engine and name, in the files its own come from,
\* that is at least as bad; there are never more excused findings of some badness
\* than the baseline had; no line of an excused finding is new in its file, and a
\* file kept over its budget has not changed; and of an unchanged tree nothing is
\* retained that can be told apart (adoption.rs, git_evidence.rs).
RatchetAdmitsNoNewDebt ==
    Is("ratchet") =>
      LET repo == case.repo
          excused == Ratchet.grandfathered
          current == [i \in DOMAIN excused |-> excused[i][1]]
          atLeast(findings, finding) ==
            Cardinality({i \in DOMAIN findings : /\ findings[i].engine = finding.engine
                                                 /\ findings[i].actual >= finding.actual})
      IN  /\ \A i \in DOMAIN excused :
               LET now == excused[i][1]  was == excused[i][2]
               IN  /\ now.actual <= was.actual /\ now.engine = was.engine /\ now.name = was.name
                   /\ {Origin(now.files[k]) : k \in DOMAIN now.files} = ToSet(was.files)
                   /\ now.engine = "FileBudgets" => repo.work[now.files[1]] = repo.base[Origin(now.files[1])]
                   /\ now.engine # "FileBudgets" =>
                        \A k \in DOMAIN now.files :
                          /\ now.files[k] \notin repo.untracked
                          /\ \A line \in Lines(repo.work[now.files[k]]) \cap (now.ranges[k][1] .. now.ranges[k][2]) :
                               \E l \in Lines(repo.base[Origin(now.files[k])]) :
                                  repo.base[Origin(now.files[k])][l] = repo.work[now.files[k]][line]
          /\ \A i \in DOMAIN current : atLeast(current, current[i]) <= atLeast(case.baseline, current[i])
          /\ (repo.work = repo.base /\ repo.work = repo.head /\ repo.untracked = {}) =>
                \A i \in DOMAIN Ratchet.retained : ~Eligible(Ratchet.retained[i])

\* Where files were only renamed, the findings on their lines were there before
\* and stay excused; a file over its budget need not (CONFIGURATION_SPEC.md,
\* "Pure rename lineage maps the current path back to the baseline path"; the
\* tests of adoption.rs on pure renames).  The code does not do this:
\* git_evidence.rs takes the changed lines from a diff without renames.
RenamedDebtIsExcused ==
    LET moved == \A p \in Inventory : case.repo.work[p] # Absent => case.repo.work[p] = case.repo.base[Origin(p)]
    IN  Is("ratchet") /\ moved =>
        \A i \in DOMAIN Ratchet.retained :
          LET finding == Ratchet.retained[i] IN finding.engine = "FileBudgets" \/ ~Eligible(finding)

-----------------------------------------------------------------------------
(* Mutation reports, [report, floor], and sets of evidence reports of a       *)
(* project, [project, reports, evidence].                                     *)

\* A report without violations has earned its score with what its format lets
\* one see: in Stryker's the status of every mutant, in that of cargo-mutants an
\* executed test for every mutant, in the generic one the declared counts.  No
\* mutant that was not executed, timed out or broke hides behind the score, and
\* enough of the others were killed (gatekeeper.rs, cargo_report.rs,
\* unexecuted.rs).
CleanScoreIsEarned == Is("score") => CleanIsEarned(case.report, case.floor)

\* A set of reports that the gate accepts answers for every executable source
\* exactly once, by an exhaustive partition configured now as when it ran, and
\* with every planned mutant (aggregation.rs, partitions.rs, stryker_scope.rs,
\* mutation_scope.rs).
PartitionsCoverTheInventory ==
    Is("partitions") => SetIsExhaustive(case.project, case.reports, case.evidence)

-----------------------------------------------------------------------------
(* LCOV records, [record, roles, required], reports, [tokens, roles,          *)
(* required], and scores, [map, sources, functionFiles, floors, critical,     *)
(* changed].                                                                  *)

\* No credit for test code: what an accepted LCOV record counts as hit are
\* listed production lines, functions and branches that ran; and an accepted
\* report is a sequence of closed records of different files (lcov.rs,
\* lcov/counters.rs, lcov_details.rs).
LcovCreditsOnlyProduction ==
    /\ Is("record") => RetainedIsConservative(case.record, case.required, case.roles)
    /\ Is("tokens") => AcceptedIsBracketed(case.tokens, case.required, case.roles)

\* A coverage evaluation without violations rests on one unambiguous record per
\* required file, on the floor being reached by their sum, on whole critical
\* files and on a hit for every changed line (evaluator.rs, scoring.rs, paths.rs).
CoverageScoreIsEarned ==
    Is("coverage") => ScoreIsEarned(case.map, case.sources, case.functionFiles, case.floors,
                                    case.critical, case.changed)

-----------------------------------------------------------------------------
(* Clones: [streams, minLines, minTokens].                                    *)

\* Unless it gives up with an error, clone detection misses no pair of equal
\* windows, whatever the hashes collide on, and reports only equal runs
\* (clones/index.rs, clones.rs).
ClonesAreComplete ==
    Is("clones") => DetectionIsComplete(case.streams, case.minLines, case.minTokens)
=============================================================================
