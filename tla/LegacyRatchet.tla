---------------------------- MODULE LegacyRatchet ----------------------------
(* The legacy ratchet: what changed since a Git merge base, and which current *)
(* static findings the baseline already had. A file is a sequence of lines;   *)
(* Git itself (which lines of two files agree, which new path continues an    *)
(* old one) is external. A finding names its files with a line range in each, *)
(* a name that identifies it beside the path, and a measure.                  *)
EXTENDS Naturals, Sequences, FiniteSets, SequencesExt, FiniteSetsExt

CONSTANTS Absent,        \* the content of a path that does not exist
          Inventory      \* the paths Hardgate inventories

Lines(content) == IF content = Absent THEN {} ELSE DOMAIN content

-----------------------------------------------------------------------------
(* Git: a repository is its merge base, its HEAD and its work tree, and the   *)
(* paths of the work tree that are not tracked.                               *)

\* Line numbers of `new` kept from `old`: some longest common subsequence.
Kept(old, new) ==
    LET common == {K \in SUBSET Lines(new) :
                      \E f \in [K -> Lines(old)] : \A i, j \in K :
                          old[f[i]] = new[i] /\ (i < j => f[i] < f[j])}
    IN  CHOOSE K \in common : \A L \in common : Cardinality(L) <= Cardinality(K)

\* git diff --unified=0 --no-renames: the ranges of new lines, one per run.
Hunks(old, new) ==
    LET added == Lines(new) \ Kept(old, new)
        ranges == {r \in added \X added : /\ r[1] <= r[2] /\ r[1] .. r[2] \subseteq added
                                         /\ r[1] - 1 \notin added /\ r[2] + 1 \notin added}
    IN  {<<r[1], r[2] - r[1] + 1>> : r \in ranges}

\* git diff --name-status --find-renames: one record per path or pair of paths.
StatusRecords(repo) ==
    LET tracked == [p \in DOMAIN repo.work |-> IF p \in repo.untracked THEN Absent ELSE repo.work[p]]
        differs == {p \in DOMAIN repo.work : repo.base[p] # tracked[p]}
        gone == {p \in differs : tracked[p] = Absent}
        fresh == {p \in differs : repo.base[p] = Absent}
        renames == {r \in gone \X fresh : repo.base[r[1]] = tracked[r[2]]}
        pairs == {r \in renames : r = CHOOSE s \in renames : TRUE}
    IN  {[marker |-> "R", paths |-> r] : r \in pairs}
        \cup {[marker |-> IF p \in gone THEN "D" ELSE IF p \in fresh THEN "A" ELSE "M",
               paths |-> <<p>>] : p \in differs \ UNION {ToSet(r) : r \in pairs}}

\* git status --porcelain: paths that differ from HEAD, untracked ones included.
PorcelainPaths(repo) == {p \in DOMAIN repo.work : repo.head[p] # repo.work[p]} \cup repo.untracked

-----------------------------------------------------------------------------
(* git_evidence.rs: the change set read from that output.                     *)

\* A hunk adds its range of new lines; an empty range (a deletion) adds none.
AddHunkLines(lines, hunk) ==
    IF hunk[2] = 0 THEN lines ELSE lines \cup (hunk[1] .. hunk[1] + hunk[2] - 1)

ParseDiff(repo) ==
    [p \in Inventory \ repo.untracked |->
        FoldSet(LAMBDA h, lines : AddHunkLines(lines, h), {}, Hunks(repo.base[p], repo.work[p]))]

\* The pair of a rename is recorded when both its paths are inventoried.
ParseDiffStatus(records) ==
    LET renames == {r \in records : r.marker = "R" /\ ToSet(r.paths) \subseteq Inventory}
    IN  [paths |-> (UNION {ToSet(r.paths) : r \in records}) \cap Inventory,
         lineage |-> [n \in {r.paths[2] : r \in renames} |->
                         (CHOOSE r \in renames : r.paths[2] = n).paths[1]]]

\* Untracked files are new from their first line to their last.
AddUntrackedLines(lines, repo) ==
    [p \in Inventory |-> IF p \in repo.untracked THEN Lines(repo.work[p]) ELSE lines[p]]

LoadReference(repo) ==
    LET status == ParseDiffStatus(StatusRecords(repo))
        lines == AddUntrackedLines(ParseDiff(repo), repo)
    IN  [lines |-> lines, lineage |-> status.lineage,
         files |-> (PorcelainPaths(repo) \cap Inventory) \cup status.paths
                   \cup {p \in Inventory : lines[p] # {}}]

-----------------------------------------------------------------------------
(* adoption.rs: matching current findings with the baseline's.                *)

NumericEngines == {"FileBudgets", "Complexity"}

ChangedRange(file, range, changes) ==
    \E line \in changes.lines[file] : range[1] <= line /\ line <= range[2]

\* A finding belongs to the change when the change touched what it measures.
Attributable(finding, changes) ==
    IF finding.engine = "FileBudgets" THEN finding.files[1] \in changes.files
    ELSE \E i \in DOMAIN finding.files : ChangedRange(finding.files[i], finding.ranges[i], changes)

\* Follow the lineage of a path back, stopping at a path already visited.
CanonicalPath(path, lineage) ==
    LET step(walk, i) == IF walk.path \in walk.visited \/ walk.path \notin DOMAIN lineage
                         THEN walk
                         ELSE [path |-> lineage[walk.path], visited |-> walk.visited \cup {walk.path}]
    IN  FoldLeft(step, [path |-> path, visited |-> {}],
                 [i \in 1 .. Cardinality(DOMAIN lineage) + 1 |-> i]).path

Key(finding, lineage) ==
    [engine |-> finding.engine, name |-> finding.name,
     files |-> {CanonicalPath(finding.files[i], lineage) : i \in DOMAIN finding.files}]

\* A clone without a fingerprint has no identity to compare.
Eligible(finding) == finding.engine = "Clones" => finding.name # ""

\* Mutant: a baseline finding may excuse any number of current ones.
RatchetEvery(state, finding, baseline, changes) ==
    LET fits == {i \in state.available :
                    /\ Key(baseline[i], << >>) = Key(finding, changes.lineage)
                    /\ finding.engine \in NumericEngines => finding.actual <= baseline[i].actual}
    IN  IF ~Eligible(finding) \/ Attributable(finding, changes) \/ fits = {}
        THEN [state EXCEPT !.retained = Append(@, finding)]
        ELSE [state EXCEPT !.grandfathered = Append(@, <<finding, baseline[CHOOSE i \in fits : TRUE]>>)]

(* One current finding: retained when attributable, or when no baseline       *)
(* finding of its key is left that is at least as bad; otherwise it uses up   *)
(* the least such one. Counts of the other engines have no measure.           *)
RatchetOne(state, finding, baseline, changes) ==
    LET fits == {i \in state.available :
                    /\ Key(baseline[i], << >>) = Key(finding, changes.lineage)
                    /\ finding.engine \in NumericEngines => finding.actual <= baseline[i].actual}
        used == CHOOSE i \in fits : \A j \in fits : baseline[i].actual <= baseline[j].actual
    IN  IF ~Eligible(finding) \/ Attributable(finding, changes) \/ fits = {}
        THEN [state EXCEPT !.retained = Append(@, finding)]
        ELSE [state EXCEPT !.available = @ \ {used},
                           !.grandfathered = Append(@, <<finding, baseline[used]>>)]

ApplyLegacyRatchet(current, baseline, changes) ==
    FoldLeft(LAMBDA state, finding : RatchetOne(state, finding, baseline, changes),
             [available |-> {i \in DOMAIN baseline : Eligible(baseline[i])},
              retained |-> << >>, grandfathered |-> << >>],
             current)
=============================================================================
