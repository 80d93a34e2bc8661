------------------------------ MODULE MCEvaluation ------------------------------
(* The pure algorithms of the gate over small inputs: one action per          *)
(* algorithm chooses an input, and the properties judge its result.           *)
EXTENDS Evaluation

Init == case = [kind |-> "none"]
SeqsUpTo(S, n) == UNION {[1 .. m -> S] : m \in 0 .. n}

-----------------------------------------------------------------------------
(* Resource budgets: a host and a cgroup of two levels under one or two       *)
(* mounts, with usage and cache counters that need not agree; the second      *)
(* mount does not hold the cgroup and has no room left. There is no mount     *)
(* outside a unified cgroup, or where memory is not measured.                 *)

Amounts == {0, 300 * MiB, 700 * MiB, 1500 * MiB}
NoCache == [file |-> 0, shmem |-> 0, dirty |-> 0, writeback |-> 0, unevictable |-> 0]
Level(max, high, current, stat) ==
    [gone |-> FALSE, files |-> "all", max |-> max, high |-> high, current |-> current, stat |-> stat,
     full |-> 0, some |-> 0]
Root == [Level(Unlimited, Unlimited, 0, NoCache) EXCEPT !.files = "none"]
Leaves ==
    {Level(max, high, current, stat) :
        max \in {Unlimited, 1500 * MiB, 3000 * MiB}, high \in {Unlimited, 900 * MiB}, current \in Amounts,
        stat \in {NoCache, [NoCache EXCEPT !.file = 800 * MiB, !.dirty = 300 * MiB]}}
    \cup {[Level(Unlimited, Unlimited, 0, NoCache) EXCEPT !.full = 2],
          [Level(Unlimited, Unlimited, 0, NoCache) EXCEPT !.gone = TRUE], Root}
Full == Level(1500 * MiB, Unlimited, 1500 * MiB, NoCache)
Parents == {Level(max, Unlimited, current, NoCache) : max \in {Unlimited, 2000 * MiB}, current \in {0, 900 * MiB}}

ChooseBudget ==
  /\ Is("none")
  /\ \E leaf \in Leaves, parent \in Parents, total \in {2000 * MiB, 8 * GiB}, free \in Amounts \cup {4 * GiB},
       jobs \in {1, 3}, estimate \in {0, 1, 200 * MiB}, second \in BOOLEAN,
       telemetry \in {"none", "host", "cgroup"} :
      /\ free <= total
      /\ case' = [kind |-> "budget", telemetry |-> telemetry, cpus |-> 8, jobs |-> jobs, estimate |-> estimate,
                  host |-> [total |-> total, available |-> free, full |-> 0, some |-> 0],
                  mounts |-> IF telemetry # "cgroup" THEN << >>
                             ELSE <<(<<leaf, parent, Root>>)>>
                                  \o (IF second THEN <<(<<[leaf EXCEPT !.gone = TRUE], Full, Root>>)>> ELSE << >>)]

ChooseLaunch ==
  /\ Is("none")
  /\ \E total \in {k * MiB + r : k \in {1, 5, 64}, r \in {0, 1, 3}} \cup {40 * GiB, 40 * GiB + 7},
       requested \in {Unlimited, 1024, 1025}, jobs \in {1, 2, 64}, page \in {1, 2, Alignment},
       parent \in {[quota |-> 100, period |-> 100, max |-> Unlimited, high |-> Unlimited, swap |-> Unlimited,
                    tasks |-> 400]} :
      case' = [kind |-> "launch", total |-> total, requested |-> requested, jobs |-> jobs,
                             page |-> page, parent |-> parent]

-----------------------------------------------------------------------------
(* The legacy ratchet: two files before and after, findings that are read off *)
(* the lines, and every repository state between the merge base and the work  *)
(* tree, files that were removed from the index included.                     *)

Tokens == {"s", "f1", "f2", "t"}
Contents(n) == {Absent} \cup UNION {[1 .. m -> Tokens] : m \in 1 .. n}

Finding(engine, path, range, name, actual) ==
    [engine |-> engine, files |-> <<path>>, ranges |-> <<range>>, name |-> name, actual |-> actual]

\* Per line a suppression or a function with a measure, unless an earlier line
\* makes the rest of the file test code; long files have one more.
Scan(tree, path) ==
    LET text == IF tree[path] = Absent THEN << >> ELSE tree[path]
        counts(i) == text[i] # "t" /\ \A j \in 1 .. i : text[j] # "t"
        findings == [i \in DOMAIN text |->
            IF text[i] = "s" THEN Finding("Suppressions", path, <<i, i>>, "s", 0)
            ELSE Finding("Complexity", path, <<i, i>>, "f", IF text[i] = "f1" THEN 1 ELSE 2)]
        production == SelectSeq([i \in DOMAIN text |-> i], counts)
    IN  [k \in DOMAIN production |-> findings[production[k]]]
        \o (IF Len(text) > 1 THEN <<Finding("FileBudgets", path, <<1, Len(text)>>, "", Len(text))>> ELSE << >>)
ScanTree(tree) == Scan(tree, "a") \o Scan(tree, "b")

ChooseRepository ==
  /\ Is("none")
  /\ \E old \in Contents(3), new \in Contents(2), oldB, newB \in {Absent, <<"s">>, <<"f2">>}, untracked \in SUBSET {"b"} :
      /\ "b" \in untracked => newB # Absent
      /\ LET base == [a |-> old, b |-> oldB]  work == [a |-> new, b |-> newB]
         IN  case' = [kind |-> "ratchet", current |-> ScanTree(work), baseline |-> ScanTree(base),
                      repo |-> [base |-> base, head |-> base, work |-> work, untracked |-> untracked]]

-----------------------------------------------------------------------------
(* Mutation reports in the three formats.                                     *)

Words == {"killed", "survived", "equivalent", "timeout", "unviable", "nocoverage", "novel"}
Floors == {50, 100}
Statuses(words) == [i \in DOMAIN words |-> [status |-> words[i]]]

ChooseStryker ==
  /\ Is("none")
  /\ \E a \in SeqsUpTo(Words, 2), b \in SeqsUpTo({"killed", "nocoverage", "unviable"}, 2),
       total, totalA \in {Nothing, 2, 3}, floor \in Floors, files \in {{"a"}, {"a", "b"}} :
      case' = [kind |-> "score", floor |-> floor, report |->
        [format |-> "stryker", total |-> total,
         files |-> [f \in files |-> [mutants |-> Statuses(IF f = "a" THEN a ELSE b),
                                     total |-> IF f = "a" THEN totalA ELSE Nothing]]]]

Ran(phase, status, runs) == [phase |-> phase, status |-> status, runs |-> runs]
PhaseRuns ==
    {<<Ran("Build", "Success", FALSE), Ran("Test", status, runs)>> :
        status \in {"Success", "Failure", "Timeout"}, runs \in BOOLEAN}
    \cup {<<Ran("Build", "Failure", FALSE)>>}
Outcome(scenario, summary, phases) == [scenario |-> scenario, summary |-> summary, phases |-> phases]
Outcomes ==
    {Outcome("Baseline", "Success", phases) : phases \in PhaseRuns}
    \cup {Outcome(m, summary, phases) :
            m \in {"m1", "m2"}, summary \in {"CaughtMutant", "MissedMutant", "Timeout", "Unviable"}, phases \in PhaseRuns}

ChooseCargo ==
  /\ Is("none")
  /\ \E outcomes \in [1 .. 2 -> Outcomes] \cup {<<o>> : o \in Outcomes}, killed, survived \in 0 .. 1, ended \in BOOLEAN :
      case' = [kind |-> "score", floor |-> 50, report |->
        [format |-> "cargo", versioned |-> TRUE, ended |-> ended, outcomes |-> outcomes,
         declared |-> [killed |-> killed, survived |-> survived, timeout |-> 0, unviable |-> 0, success |-> 0,
                       total |-> killed + survived]]]

ChooseGeneric ==
  /\ Is("none")
  /\ \E named \in SUBSET Categories, floor \in Floors, total \in {Nothing, 3}, unknown \in BOOLEAN :
      \E counts \in [named -> 0 .. 2] :
        case' = [kind |-> "score", floor |-> floor, report |->
          [format |-> "generic", counts |-> counts, unknown |-> unknown, total |-> total]]

-----------------------------------------------------------------------------
(* Evidence partitions: a project when its producers ran and when the gate    *)
(* runs, between which its configuration and its sources may change.          *)

Producer(kind) == IF kind = "mutation" THEN "stryker" ELSE "vitest"
Configuration(kind, scope, globs) ==
    [producer |-> Producer(kind), scope |-> scope, globs |-> globs, timeout |-> 2]
SourceOf(role) ==
    [role |-> role, applicable |-> TRUE, language |-> "javascript", functions |-> TRUE, mutable |-> role = "source"]

Projects(kind) ==
    {[sources |-> "x" :> SourceOf("source") @@ "y" :> SourceOf(role),
      inputs |-> "x" :> 1 @@ "y" :> hash,
      producers |-> "p" :> p @@ q] :
        role \in {"source", "test"}, hash \in {1, 2},
        p \in {Configuration(kind, "exhaustive", {"x"}), Configuration(kind, "sample", {"x", "y"})},
        q \in {<<>>} \cup {"q" :> Configuration(kind, "exhaustive", globs) : globs \in {{"y"}, {"x", "y"}}}}

\* One project, or one whose configuration or sources changed since.
Changed(now, old) == Cardinality({f \in {"sources", "inputs", "producers"} : now[f] # old[f]}) <= 1

Options(kind) == [producer |-> Producer(kind), overrides |-> FALSE, narrowed |-> FALSE, timeout |-> 1]

\* What a producer reports: mutants of some sources, and for Stryker the scope
\* that it planned, which names one more mutant when a file was cut short.
FilesReported == {"x" :> <<1>>, "y" :> <<1>>, "x" :> <<1>> @@ "y" :> <<1>>}
Scopes(project, files) ==
    {Nothing} \cup
    {[passed |-> TRUE, completed |-> completed, sameVersion |-> TRUE,
      sources |-> [f \in scoped |-> project.inputs[f]],
      plan |-> {<<f, 1>> : f \in DOMAIN files} \cup more] :
        completed \in BOOLEAN, scoped \in {DOMAIN files, {"x", "y"}}, more \in {{}, {<<"x", 2>>}}}

ReportsOf(kind, project, name) ==
    IF ~Resolvable(project, name, Options(kind)) THEN {}
    ELSE UNION {{[producer |-> Producer(kind), partition |-> Resolve(project, name, Options(kind)),
                  files |-> files, scope |-> scope, productionSpans |-> TRUE] :
                    scope \in IF kind = "mutation" THEN Scopes(project, files) ELSE {Nothing}} :
                  files \in FilesReported}
UnnamedReports(kind) ==
    {[producer |-> Producer(kind), partition |-> Nothing, files |-> files, scope |-> Nothing,
      productionSpans |-> TRUE] : files \in FilesReported}

ChooseReports ==
  /\ Is("none")
  /\ \E kind \in {"mutation", "coverage"} : \E now, old \in Projects(kind) :
      \E first \in ReportsOf(kind, old, "p") \cup UnnamedReports(kind) :
        \E rest \in {<<>>} \cup {<<r>> : r \in ReportsOf(kind, old, "q")} :
          /\ Changed(now, old)
          /\ case' = [kind |-> "partitions", evidence |-> kind, project |-> now, reports |-> <<first>> \o rest]

-----------------------------------------------------------------------------
(* LCOV records with a production line 1 and a test line 2, and short reports *)
(* of tokens in any order.                                                    *)

A == [key |-> "a", form |-> "relative"]
Roles == {<<>>, "a" :> (1 :> "production" @@ 2 :> "test"), "a" :> (1 :> "production" @@ 2 :> "mixed")}
Counts(found, hit, pairs) == {<<>>} \cup {found :> p[1] @@ hit :> p[2] : p \in pairs}

LinesOf == UNION {[S -> 0 .. 1] : S \in SUBSET {1, 2}}
FunctionsOf ==
    {[fn |-> fn, fnda |-> fnda] : fn \in UNION {[S -> {1, 2}] : S \in SUBSET {"f", "g"}},
                                  fnda \in UNION {[S -> 0 .. 1] : S \in SUBSET {"f", "g"}}}
BranchesOf == UNION {[S -> {Nothing, 0, 1}] : S \in SUBSET {<<1, 0>>, <<2, 0>>}}
Pairs(n) == {p \in (0 .. n) \X (0 .. n) : p[2] <= p[1] + 1}

\* Every function part and every branch part beside every line part.
ChooseRecord ==
  /\ Is("none")
  /\ \E da \in LinesOf, lines \in Counts("LF", "LH", Pairs(3)), roles \in Roles, strict \in BOOLEAN :
      \/ \E f \in FunctionsOf, functions \in Counts("FNF", "FNH", Pairs(2)) :
           /\ Is("none") /\ DOMAIN f.fn = DOMAIN f.fnda
           /\ case' = [kind |-> "record", roles |-> roles, required |-> [functions |-> strict, branches |-> strict],
                       record |-> [NewRecord(A) EXCEPT !.da = da, !.fn = f.fn, !.fnda = f.fnda,
                                                                !.counts = lines @@ functions]]
      \/ \E brda \in BranchesOf, branches \in Counts("BRF", "BRH", Pairs(2)) :
           /\ case' = [kind |-> "record", roles |-> roles, required |-> [functions |-> strict, branches |-> strict],
                       record |-> [NewRecord(A) EXCEPT !.da = da, !.brda = brda,
                                                                !.counts = lines @@ branches]]

NotRequired == [functions |-> FALSE, branches |-> FALSE]

ReportTokens ==
    {[tag |-> t] : t \in {"blank", "TN", "VER", "end"}}
    \cup {[tag |-> "SF", path |-> p] : p \in {A, [A EXCEPT !.form = "dotted"], [A EXCEPT !.key = "b"]}}
    \cup {[tag |-> "DA", line |-> 1, hits |-> 1], [tag |-> "LF", count |-> 1], [tag |-> "LH", count |-> 1]}

ChooseTokens ==
  /\ Is("none")
  /\ \E tokens \in SeqsUpTo(ReportTokens, 5) :
      case' = [kind |-> "tokens", tokens |-> tokens, roles |-> <<>>, required |-> NotRequired]

-----------------------------------------------------------------------------
(* Coverage scores: records of two files, one of them under several names.    *)

Scored(da, LF, LH) == [da |-> da, LF |-> LF, LH |-> LH, FNF |-> 0, FNH |-> 0, BRF |-> 0, BRH |-> 0]
Records ==
    {[Scored(1 :> 1, 1, 1) EXCEPT !.FNF = 1, !.FNH = 1], [Scored(1 :> 0, 1, 0) EXCEPT !.FNF = 1],
     [Scored(1 :> 1 @@ 2 :> 0, 2, 1) EXCEPT !.BRF = 2, !.BRH = 1], Scored(<<>>, 0, 0), Scored(1 :> 1, 8, 8)}
NoFloor == [lines |-> Nothing, functions |-> Nothing, branches |-> Nothing]
CoverageFloors ==
    {NoFloor, [NoFloor EXCEPT !.lines = 50], [NoFloor EXCEPT !.lines = 100],
     [NoFloor EXCEPT !.functions = 100], [NoFloor EXCEPT !.branches = 50]}
RecordPaths ==
    {A, [A EXCEPT !.form = "absolute"], [A EXCEPT !.form = "foreign"], [A EXCEPT !.key = "b"]}

ChooseScore ==
  /\ Is("none")
  /\ \E paths \in SUBSET RecordPaths :
      \E map \in [paths -> Records], floors \in CoverageFloors,
         sources \in {Nothing, {A}, {A, [A EXCEPT !.key = "b"]}, {[A EXCEPT !.form = "foreign"]}},
         functionFiles \in {{}, {"a"}}, critical \in SUBSET {"a"},
         changed \in {<<>>, "a" :> {1}, "a" :> {1, 2}} :
        case' = [kind |-> "coverage", map |-> map, sources |-> sources,
                               functionFiles |-> functionFiles, critical |-> critical, changed |-> changed,
                               floors |-> floors]

-----------------------------------------------------------------------------
(* Clones: one long stream or two short ones of tokens, one or two of them to *)
(* a line, under a hash of four values, so that different symbols collide.    *)

Stream(path, symbols, perLine) ==
    [path |-> path, tokens |-> [i \in DOMAIN symbols |->
        [symbol |-> symbols[i], line |-> (i + perLine - 1) \div perLine]]]

ChooseStreams ==
  /\ Is("none")
  /\ \E minLines \in {1, 2}, perLine \in {1, 2} :
      \/ \E symbols \in SeqsUpTo({1, 2}, 8) :
           case' = [kind |-> "clones", minLines |-> minLines, minTokens |-> 2,
                                  streams |-> <<Stream(1, symbols, perLine)>>]
      \/ \E first \in SeqsUpTo({1, 2, 5}, 4), second \in SeqsUpTo({1, 5}, 4), path \in {1, 2} :
           case' = [kind |-> "clones", minLines |-> minLines, minTokens |-> 2,
                                  streams |-> <<Stream(1, first, perLine), Stream(path, second, perLine)>>]

-----------------------------------------------------------------------------

Next ==
    \/ ChooseBudget \/ ChooseLaunch \/ ChooseRepository \/ ChooseStryker \/ ChooseCargo \/ ChooseGeneric
    \/ ChooseReports \/ ChooseRecord \/ ChooseTokens \/ ChooseScore \/ ChooseStreams

Spec == Init /\ [][Next]_case
=============================================================================
