---------------------------- MODULE MCCheckCommand ----------------------------
(* Eighteen invocations for a small repository, to model check CheckCommand.  *)
EXTENDS CheckCommand

File(path, role) ==
    [path |-> path, role |-> role, readable |-> TRUE, ast |-> TRUE, retired |-> FALSE,
     inventory |-> FALSE, parses |-> TRUE, findings |-> << >>, language |-> "rust", executable |-> TRUE]

Finding(engine, path, name, metric, actual) ==
    [engine |-> engine, files |-> <<path>>, ranges |-> <<(<<1, 1>>)>>, name |-> name,
     metric |-> metric, actual |-> actual]

Long(path, actual) == Finding("Complexity", path, "f", "Function Lines", actual)

Unit == [severity |-> Unset, fileSize |-> Unset, functionSize |-> Unset, clone |-> Unset,
         cloneEnabled |-> Unset, cloneFloor |-> 10]

Plain ==
    [strict |-> TRUE, enforceClassified |-> TRUE, suppressions |-> TRUE, invariants |-> FALSE,
     clones |-> "no", roles |-> [r \in ToSet(PolicyRoles) |-> Unit],
     coverage |-> FALSE, mutation |-> FALSE, critical |-> FALSE, generated |-> "off",
     ratchet |-> "off", reports |-> 0, producers |-> << >>, isolation |-> FALSE,
     commands |-> [Format |-> <<[id |-> "fmt", clippy |-> FALSE]>>,
                   Lint |-> <<[id |-> "clippy", clippy |-> TRUE]>>,
                   Tests |-> << >>, Typecheck |-> << >>]]

NoIndex == [complete |-> TRUE, found |-> << >>]

Tree == <<File("a", "Source"), File("t", "Test")>>

Call(config, tree) ==
    [checks |-> {}, diff |-> FALSE, scope |-> [files |-> {}, under |-> {}], mode |-> "none",
     format |-> "terminal", json |-> TRUE, rendered |-> FALSE, samePath |-> FALSE, reportOption |-> FALSE,
     config |-> config, tree |-> tree, changed |-> {"a"}, index |-> NoIndex,
     base |-> [tree |-> Tree, index |-> NoIndex],
     changes |-> [lines |-> [p \in Inventory |-> {}], lineage |-> << >>, files |-> {}]]

Evidence == [Plain EXCEPT !.coverage = TRUE, !.mutation = TRUE, !.reports = 1, !.critical = FALSE,
                          !.commands.Tests = <<[id |-> "test", clippy |-> FALSE]>>,
                          !.producers = <<[name |-> "c", kind |-> "coverage", command |-> "test"],
                                          [name |-> "m", kind |-> "mutation", command |-> "mutants"]>>]

Lenient == [Plain EXCEPT !.roles["Source"].severity = "Warning"]
Ratcheted == [Plain EXCEPT !.ratchet = "set", !.coverage = TRUE]
Cloning == [Plain EXCEPT !.clones = "yes"]

With(path, findings) == <<[File(path, "Source") EXCEPT !.findings = findings], File("t", "Test")>>
Policy1(call) == [call EXCEPT !.checks = {"Policy"}]

MCCases ==
    {Call(Plain, Tree),
     [Call(Plain, Tree) EXCEPT !.samePath = TRUE, !.rendered = TRUE],
     [Call([Plain EXCEPT !.commands.Format = << >>], Tree) EXCEPT !.rendered = TRUE],
     [Call(Evidence, Tree) EXCEPT !.mode = "reuse", !.checks = {"Tests"}],
     [Call(Evidence, Tree) EXCEPT !.mode = "reuse", !.checks = {"Policy", "Tests"}],
     [Call([Evidence EXCEPT !.producers = << >>, !.reports = 0], Tree)
         EXCEPT !.mode = "cold", !.checks = {"Policy"}],
     Policy1(Call([Plain EXCEPT !.generated = "set"], With("a", <<Long("a", 3)>>))),
     [Policy1(Call([Plain EXCEPT !.generated = "missing"], << >>)) EXCEPT !.format = "json"],
     Policy1(Call(Lenient, <<[File("a", "Source") EXCEPT !.parses = FALSE]>>)),
     Call([Lenient EXCEPT !.commands.Lint = <<[id |-> "eslint", clippy |-> FALSE]>>],
          <<[File("a", "Source") EXCEPT !.readable = FALSE], File("t", "Test")>>),
     Policy1(Call(Plain, <<[File("a", "Unknown") EXCEPT !.ast = FALSE],
                           [File("m", "Migration") EXCEPT !.ast = FALSE, !.inventory = TRUE]>>)),
     [Policy1(Call([Plain EXCEPT !.coverage = TRUE], Tree))
         EXCEPT !.diff = TRUE, !.changes.lines["a"] = {1}],
     [Policy1(Call(Ratcheted, With("a", <<Long("a", 3)>>)))
         EXCEPT !.diff = TRUE, !.base.tree = With("a", <<Long("a", 4)>>)],
     [Policy1(Call(Ratcheted, With("a", <<Long("a", 5)>>)))
         EXCEPT !.base.tree = With("a", <<Long("a", 4)>>)],
     [Policy1(Call([Ratcheted EXCEPT !.ratchet = "set", !.coverage = FALSE,
                                     !.roles["Source"].severity = "Warning"], Tree))
         EXCEPT !.base.tree = <<[File("a", "Source") EXCEPT !.parses = FALSE]>>],
     [Policy1(Call(Cloning, Tree))
         EXCEPT !.index = [complete |-> FALSE, found |-> << >>],
                !.scope = [files |-> {"a"}, under |-> {}]],
     [Policy1(Call(Cloning, Tree))
         EXCEPT !.index = [complete |-> FALSE, found |-> << >>], !.diff = TRUE, !.changed = {}],
     Policy1(Call([Plain EXCEPT !.coverage = TRUE],
                  <<[File("a", "Source") EXCEPT !.language = "typescript", !.executable = FALSE]>>))}
=============================================================================
