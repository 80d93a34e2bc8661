--------------------------- MODULE EvidencePartitions ---------------------------
(* Named evidence partitions: which sources a configured producer owns, what  *)
(* a report of it must record, and when a set of reports is evidence for the  *)
(* whole source inventory. Paths, names and hashes are opaque.                *)
EXTENDS Naturals, Sequences, FiniteSets

CONSTANTS Unnamed,   \* the partition of a receipt without one
          Nothing    \* no scope in the report, no hash of a path

\* A project: sources [path -> what discovery says of it], inputs [path -> hash]
\* and configured producers [name -> [producer, scope, globs, args]].

Kind(producer) == IF producer \in {"cargo-llvm-cov", "vitest", "pytest"} THEN "coverage" ELSE "mutation"

Language(producer) ==
    CASE producer \in {"cargo-llvm-cov", "cargo-mutants"} -> "rust"
      [] producer = "pytest" -> "python"
      [] producer \in {"vitest", "stryker"} -> "javascript"

-----------------------------------------------------------------------------
(* The inventory: executable sources. A Rust file counts when a production    *)
(* view of it holds a function; stylesheets and erased declarations do not.   *)

Executable(source) ==
    /\ source.role = "source" /\ source.applicable
    /\ source.language = "rust" => source.functions

SourceInventory(project) == {p \in DOMAIN project.sources : Executable(project.sources[p])}

SelectedSources(project, config) == SourceInventory(project) \cap config.globs

\* Resolving a named configuration before its producer runs: the configuration
\* owns the arguments, and a CLI deadline can only shorten its own.
Resolvable(project, name, options) ==
    /\ name \in DOMAIN project.producers
    /\ project.producers[name].producer = options.producer
    /\ ~options.overrides
    /\ SelectedSources(project, project.producers[name]) # {}
    /\ \A p \in SelectedSources(project, project.producers[name]) :
          project.sources[p].language = Language(options.producer)
    \* An exhaustive cargo-mutants run may be narrowed by no filter or setting.
    /\ (options.producer = "cargo-mutants" /\ project.producers[name].scope = "exhaustive") =>
          ~options.narrowed

Resolve(project, name, options) ==
    [name |-> name, config |-> project.producers[name],
     sources |-> SelectedSources(project, project.producers[name]),
     timeout |-> IF options.timeout <= project.producers[name].timeout
                 THEN options.timeout ELSE project.producers[name].timeout]

-----------------------------------------------------------------------------
(* What a report records. Coverage: its source records. cargo-mutants: the    *)
(* files of its mutants. Stryker: its native scope when it has one.           *)

Reported(report) ==
    UNION {{<<f, report.files[f][i]>> : i \in DOMAIN report.files[f]} : f \in DOMAIN report.files}

\* The native scope of a Stryker report is bound to the plan and to the inputs.
ScopeHolds(project, report) ==
    /\ report.scope.passed /\ report.scope.completed /\ report.scope.sameVersion
    /\ DOMAIN report.files \subseteq DOMAIN report.scope.sources
    /\ \A f \in DOMAIN report.files : \A i, j \in DOMAIN report.files[f] :
          report.files[f][i] = report.files[f][j] => i = j
    /\ Reported(report) = report.scope.plan
    /\ \A p \in DOMAIN report.scope.sources :
          p \in DOMAIN project.inputs /\ project.inputs[p] = report.scope.sources[p]

HasScope(report) == report.producer = "stryker" /\ report.scope # Nothing

ReportedSources(report) ==
    IF HasScope(report) THEN DOMAIN report.scope.sources ELSE DOMAIN report.files

SourcesReadable(project, report) == HasScope(report) => ScopeHolds(project, report)

\* A mutated file must be an input, in a role mutation may target; a mutant of
\* Rust code must lie in production text (its span is part of the record).
MutationScopeHolds(project, report) ==
    /\ \A f \in DOMAIN report.files :
          /\ f \in DOMAIN project.inputs
          /\ f \in DOMAIN project.sources
          /\ project.sources[f].role = "source" /\ project.sources[f].mutable
    /\ report.producer = "cargo-mutants" => report.productionSpans

-----------------------------------------------------------------------------
(* Verifying one report against its partition, and a set of reports.          *)

ValidatePartitionReport(project, report) ==
    LET partition == report.partition
        current == project.producers[partition.name]
        expected == SelectedSources(project, current)
    IN  /\ partition.name \in DOMAIN project.producers
        /\ current = partition.config /\ current.producer = report.producer
        /\ expected = partition.sources
        /\ SourcesReadable(project, report)
        /\ ReportedSources(report) \subseteq expected
        /\ current.scope = "exhaustive" =>
             /\ report.producer = "stryker" => report.scope # Nothing
             /\ expected \subseteq ReportedSources(report)

Named(report) == report.partition # Unnamed

\* One report, beyond what its receipt binds (EvidencePublication).
Verify(project, report, kind) ==
    /\ Kind(report.producer) = kind
    /\ kind = "mutation" => MutationScopeHolds(project, report)
    /\ Named(report) => ValidatePartitionReport(project, report)

\* Mutant: partitions of different names are taken to be disjoint.
DisjointNames(reports) ==
    \A i, j \in DOMAIN reports : i # j => reports[i].partition # reports[j].partition

\* No source is answered for by two reports.
Disjoint(reports) ==
    \A i, j \in DOMAIN reports :
        i # j => ReportedSources(reports[i]) \cap ReportedSources(reports[j]) = {}

Configured(project, kind) ==
    {n \in DOMAIN project.producers : Kind(project.producers[n].producer) = kind}

PartitionNames(reports) == {reports[i].partition.name : i \in {j \in DOMAIN reports : Named(reports[j])}}

VerifySet(project, reports, kind) ==
    /\ reports # <<>>
    /\ \A i \in DOMAIN reports :
         /\ Verify(project, reports[i], kind)
         /\ IF Named(reports[i]) THEN reports[i].partition.config.scope = "exhaustive"
            ELSE kind # "mutation"
         /\ SourcesReadable(project, reports[i])
    /\ \A i, j \in DOMAIN reports :
         (i # j /\ Named(reports[i]) /\ Named(reports[j])) =>
            reports[i].partition.name # reports[j].partition.name
    /\ Disjoint(reports)
    /\ Configured(project, kind) = PartitionNames(reports)
    /\ Configured(project, kind) # {} =>
         SourceInventory(project) \subseteq UNION {ReportedSources(reports[i]) : i \in DOMAIN reports}

-----------------------------------------------------------------------------
(* What an accepted set promises.                                             *)

\* Every executable source of a partitioned project is answered for by exactly
\* one report: of an exhaustive partition that is configured as when it ran and
\* whose globs own the source; and a mutation report records every planned
\* mutant of the sources it answers for.
SetIsExhaustive(project, reports, kind) ==
    (VerifySet(project, reports, kind) /\ Configured(project, kind) # {}) =>
      /\ \A p \in SourceInventory(project) :
           \E i \in DOMAIN reports :
             /\ p \in ReportedSources(reports[i])
             /\ \A j \in DOMAIN reports \ {i} : p \notin ReportedSources(reports[j])
             /\ Named(reports[i]) =>
                  \E n \in Configured(project, kind) :
                    /\ reports[i].partition.name = n
                    /\ project.producers[n] = reports[i].partition.config
                    /\ project.producers[n].scope = "exhaustive"
                    /\ p \in project.producers[n].globs
      /\ \A i \in DOMAIN reports :
           HasScope(reports[i]) =>
             \A p \in ReportedSources(reports[i]) :
               {m \in reports[i].scope.plan : m[1] = p} = {m \in Reported(reports[i]) : m[1] = p}
=============================================================================
