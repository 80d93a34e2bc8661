------------------------------ MODULE CoverageScore ------------------------------
(* LCOV reports: the grammar of their records, the checks a record must pass, *)
(* the removal of colocated test code, and the scoring of what remains. A     *)
(* line of the report is a token [tag, ...]; a path is [key, form], where the *)
(* key is the file it names and the form how the report spells it.            *)
EXTENDS Integers, Sequences, FiniteSets, FiniteSetsExt, SequencesExt, Saturation, TLC

CONSTANTS MaxLines,   \* the largest sum of counts a usize holds
          None        \* no record, no floor, no role, a branch that never ran

Rejected == [ok |-> FALSE]

CountTags == {"LF", "LH", "FNF", "FNH", "BRF", "BRH"}

-----------------------------------------------------------------------------
(* One source record while it is read.                                        *)

NewRecord(path) == [path |-> path, version |-> FALSE, metric |-> FALSE,
                    da |-> <<>>, counts |-> <<>>, fn |-> <<>>, fnda |-> <<>>, brda |-> <<>>]

Count(record, tag) == IF tag \in DOMAIN record.counts THEN record.counts[tag] ELSE 0
Put(entries, k, v) == [x \in DOMAIN entries \cup {k} |-> IF x = k THEN v ELSE entries[x]]

\* A metric of the record: no line, counter, function or branch comes twice.
IngestMetric(record, token) ==
    LET r == [record EXCEPT !.metric = TRUE]
    IN  CASE token.tag = "DA" /\ token.line > 0 /\ token.line \notin DOMAIN r.da ->
               [r EXCEPT !.da = Put(@, token.line, token.hits)]
          [] token.tag \in CountTags /\ token.tag \notin DOMAIN r.counts ->
               [r EXCEPT !.counts = Put(@, token.tag, token.count)]
          [] token.tag = "FN" /\ token.line > 0 /\ token.name \notin DOMAIN r.fn ->
               [r EXCEPT !.fn = Put(@, token.name, token.line)]
          [] token.tag = "FNDA" /\ token.name \notin DOMAIN r.fnda ->
               [r EXCEPT !.fnda = Put(@, token.name, token.hits)]
          [] token.tag = "BRDA" /\ token.line > 0 /\ <<token.line, token.branch>> \notin DOMAIN r.brda ->
               [r EXCEPT !.brda = Put(@, <<token.line, token.branch>>, token.taken)]
          [] OTHER -> None

-----------------------------------------------------------------------------
(* What a finished record must agree on.                                      *)

Hit(entries, k) == entries[k] # None /\ entries[k] > 0
HitOf(entries) == {k \in DOMAIN entries : Hit(entries, k)}
HasCount(record, tag) == tag \in DOMAIN record.counts

\* The functions behind FNF/FNH: each on its own, or, where LLVM lists several
\* instances of one function, grouped by line; only if both totals agree.
Functions(record) ==
    LET names == DOMAIN record.fn
        hit == {n \in names : n \in DOMAIN record.fnda /\ record.fnda[n] > 0}
        lines == {record.fn[n] : n \in names}
        hitLines == {record.fn[n] : n \in hit}
        agree(all, some) == Cardinality(all) = Count(record, "FNF") /\ Cardinality(some) = Count(record, "FNH")
    IN  CASE agree(names, hit) -> [ok |-> TRUE, all |-> {<<n, record.fn[n], n \in hit>> : n \in names}]
          [] ~agree(names, hit) /\ agree(lines, hitLines) ->
               [ok |-> TRUE, all |-> {<<l, l, l \in hitLines>> : l \in lines}]
          [] OTHER -> Rejected

\* LLVM may report fewer hit lines than it lists, when grouping explains it.
Projected(record) ==
    /\ Count(record, "LH") < Cardinality(HitOf(record.da))
    /\ Cardinality(DOMAIN record.fn) > Count(record, "FNF") /\ Functions(record).ok

ValidLines(record) ==
    LET LF == Count(record, "LF")  LH == Count(record, "LH")  listed == Cardinality(DOMAIN record.da)
    IN  \/ listed = 0 /\ HasCount(record, "LF") = HasCount(record, "LH") /\ LF = 0 /\ LH = 0
        \/ /\ HasCount(record, "LF") /\ HasCount(record, "LH")
           /\ listed > 0 /\ listed <= LF /\ LH <= LF
           /\ LF = listed => LH = Cardinality(HitOf(record.da)) \/ Projected(record)

ValidPair(record, found, hit, required) ==
    /\ HasCount(record, found) = HasCount(record, hit)
    /\ required => HasCount(record, found)
    /\ Count(record, hit) <= Count(record, found)

ValidFunctions(record, required) ==
    LET listed == Cardinality(DOMAIN record.fn)  hit == Cardinality(HitOf(record.fnda))
        FNF == Count(record, "FNF")  FNH == Count(record, "FNH")
    IN  /\ DOMAIN record.fn = DOMAIN record.fnda
        /\ listed > 0 =>
             /\ HasCount(record, "FNF") \/ required
             /\ (listed >= FNF /\ hit >= FNH) => hit - FNH <= listed - FNF

ValidBranches(record, required) == DOMAIN record.brda # {} => HasCount(record, "BRF") \/ required

ValidRecord(record, required) ==
    /\ ValidLines(record)
    /\ ValidPair(record, "FNF", "FNH", required.functions)
    /\ ValidPair(record, "BRF", "BRH", required.branches)
    /\ ValidFunctions(record, required.functions) /\ ValidBranches(record, required.branches)

-----------------------------------------------------------------------------
(* Removing test code. roles[key][line] is "production", "test" or "mixed";   *)
(* a file without roles is not Rust, a line without one is outside its file.  *)

\* An absolute path outside the repository names none of its files.
RepositoryKey(path) == IF path.form = "foreign" THEN None ELSE path.key

RecordLines(record) == DOMAIN record.da \cup {record.fn[n] : n \in DOMAIN record.fn} \cup {b[1] : b \in DOMAIN record.brda}

TestLines(record, roles) ==
    IF RepositoryKey(record.path) \notin DOMAIN roles THEN {}
    ELSE {l \in RecordLines(record) : roles[record.path.key][l] = "test"}

Attributed(record, roles) ==
    RepositoryKey(record.path) \in DOMAIN roles =>
        \A l \in RecordLines(record) : l \in DOMAIN roles[record.path.key] /\ roles[record.path.key][l] # "mixed"

Native(record) ==
    [ok |-> TRUE, da |-> record.da, LF |-> Count(record, "LF"), LH |-> Count(record, "LH"),
     FNF |-> Count(record, "FNF"), FNH |-> Count(record, "FNH"),
     BRF |-> Count(record, "BRF"), BRH |-> Count(record, "BRH")]

Without(entries, dropped) == [k \in DOMAIN entries \ dropped |-> entries[k]]

\* Mutant: hits on lines the report does not list are credited.
LinesHitUnlisted(record, test) ==
    SaturatingSub(Count(record, "LH"), Cardinality(HitOf(record.da) \cap test))

\* A lower bound: unattributed observations stay in the denominator, and hits
\* are credited only to listed production lines.
LinesHit(record, test) ==
    Least(Cardinality(HitOf(record.da) \ test),
          SaturatingSub(Count(record, "LH"), Cardinality(HitOf(record.da) \cap test)))

RetainProduction(record, roles) ==
    LET test == TestLines(record, roles)
        functions == Functions(record)
        kept == {f \in functions.all : f[2] \notin test}
        testBranches == {b \in DOMAIN record.brda : b[1] \in test}
        branchHits == HitOf(record.brda)
    IN  CASE ~Attributed(record, roles) -> Rejected
          [] Attributed(record, roles) /\ test = {} -> Native(record)
          [] OTHER ->
               IF ~functions.ok \/ Count(record, "BRF") # Cardinality(DOMAIN record.brda) THEN Rejected
               ELSE [ok |-> TRUE, da |-> Without(record.da, test),
                     LF |-> Count(record, "LF") - Cardinality(DOMAIN record.da \cap test),
                     LH |-> LinesHit(record, test),
                     FNF |-> Cardinality(kept), FNH |-> Cardinality({f \in kept : f[3]}),
                     BRF |-> Cardinality(DOMAIN record.brda \ testBranches),
                     BRH |-> Least(Cardinality(branchHits \ testBranches),
                                   SaturatingSub(Count(record, "BRH"), Cardinality(branchHits \cap testBranches)))]

FinishRecord(record, required, roles) ==
    IF ValidRecord(record, required) THEN RetainProduction(record, roles) ELSE Rejected

-----------------------------------------------------------------------------
(* The grammar: records between SF and end_of_record, metadata in its place.  *)

\* Two spellings of one relative (or one absolute) path are one record.
LexicalKey(path) == <<path.key, path.form \in {"absolute", "foreign"}>>

Ingest(state, token, required, roles) ==
    LET cur == state.current  open == cur # None
        put(r) == IF r = None THEN Rejected ELSE [state EXCEPT !.current = r]
    IN  CASE ~state.ok -> Rejected
          [] state.ok /\ token.tag = "blank" ->
               IF open THEN put([cur EXCEPT !.metric = TRUE]) ELSE state
          [] state.ok /\ token.tag = "TN" -> IF open THEN Rejected ELSE state
          [] state.ok /\ token.tag = "VER" ->
               IF open /\ ~cur.version /\ ~cur.metric THEN put([cur EXCEPT !.version = TRUE]) ELSE Rejected
          [] state.ok /\ token.tag = "SF" -> IF open THEN Rejected ELSE put(NewRecord(token.path))
          [] state.ok /\ token.tag = "end" ->
               IF ~open THEN Rejected
               ELSE LET done == FinishRecord(cur, required, roles)
                    IN  IF ~done.ok \/ \E p \in DOMAIN state.completed : LexicalKey(p) = LexicalKey(cur.path)
                        THEN Rejected
                        ELSE [state EXCEPT !.current = None, !.completed = Put(@, cur.path, done)]
          [] OTHER -> IF open THEN put(IngestMetric(cur, token)) ELSE Rejected

ParseReport(tokens, required, roles) ==
    LET start == [ok |-> TRUE, current |-> None, completed |-> <<>>]
        end == FoldLeft(LAMBDA state, token : Ingest(state, token, required, roles), start, tokens)
    IN  IF end.ok /\ end.current = None /\ DOMAIN end.completed # {} THEN end ELSE Rejected

-----------------------------------------------------------------------------
(* Scoring. A source resolves only to the one record that names it.           *)

Candidates(map, key) == {p \in DOMAIN map : RepositoryKey(p) = key}

\* Mutant: an ambiguous name resolves to one of its records.
ResolvesAny(map, key) == key # None /\ Candidates(map, key) # {}

\* A name resolves to the only record that bears it.
Resolves(map, key) == key # None /\ Cardinality(Candidates(map, key)) = 1

RecordOf(map, key) == map[CHOOSE p \in Candidates(map, key) : TRUE]

CoverageTotals(map, keys) ==
    [tag \in CountTags |-> MapThenSumSet(LAMBDA k : RecordOf(map, k)[tag], keys)]

Below(hit, found, floor) ==
    floor # None /\ (IF found = 0 THEN floor > 0 ELSE hit * 100 < floor * found)

\* Records are taken with the key they were resolved for: two equal ones count.
FloorViolations(map, keys, floors) ==
    LET sum == CoverageTotals(map, keys)
    IN  IF \E tag \in CountTags : sum[tag] > MaxLines THEN {<<"Count Overflow", None>>}
        ELSE (IF Below(sum["LH"], sum["LF"], floors.lines) THEN {<<"Line Coverage", None>>} ELSE {})
             \cup (IF Below(sum["FNH"], sum["FNF"], floors.functions) THEN {<<"Function Coverage", None>>} ELSE {})
             \cup (IF Below(sum["BRH"], sum["BRF"], floors.branches) THEN {<<"Branch Coverage", None>>} ELSE {})

CriticalViolations(map, critical) ==
    {<<"Missing Critical Path", c>> : c \in {c \in critical : ~Resolves(map, c)}}
    \cup {<<"Critical Path", c>> :
            c \in {c \in critical : Resolves(map, c) /\ Below(RecordOf(map, c).LH, RecordOf(map, c).LF, 100)}}

\* sources: the source files that must be covered, as paths.
Evaluate(map, sources, floors, critical) ==
    LET keys == {RepositoryKey(s) : s \in sources} \ {None}
        found == {k \in keys : Resolves(map, k)}
    IN  {<<"Missing Source", s>> : s \in {s \in sources : RepositoryKey(s) = None}}
        \cup {<<"Missing Source", k>> : k \in keys \ found}
        \cup FloorViolations(map, found, floors)
        \cup CriticalViolations(map, critical)

\* Without an inventory every unambiguous record counts, and each function's
\* file must have one.
EvaluateReported(map, functionFiles, floors, critical) ==
    {<<"Missing Source", k>> : k \in {k \in functionFiles : ~Resolves(map, k)}}
    \cup FloorViolations(map, {k \in {RepositoryKey(p) : p \in DOMAIN map} : Resolves(map, k)}, floors)
    \cup CriticalViolations(map, critical)

\* Strict diff scoring: every changed code line has an entry, with a hit.
EvaluateDiff(map, changed) ==
    {<<"Missing Diff", k>> : k \in {k \in DOMAIN changed :
        ~Resolves(map, k) \/ ~(changed[k] \subseteq DOMAIN RecordOf(map, k).da)}}
    \cup {<<"Diff Line", k>> : k \in {k \in DOMAIN changed :
        Resolves(map, k) /\ \E l \in changed[k] \cap DOMAIN RecordOf(map, k).da : RecordOf(map, k).da[l] = 0}}

-----------------------------------------------------------------------------
(* What the score promises.                                                   *)

\* An accepted record never gets credit for test code: what is counted as hit
\* is at most the listed production lines, functions and branches that ran, the
\* denominators are at least those listed, and no count exceeds its total.
RetainedIsConservative(record, required, roles) ==
    LET result == FinishRecord(record, required, roles)
        test == TestLines(record, roles)
        functionLines == {record.fn[n] : n \in DOMAIN record.fn} \ test
        branches == {b \in DOMAIN record.brda : b[1] \notin test}
    IN  result.ok =>
          /\ result.LH <= result.LF /\ result.FNH <= result.FNF /\ result.BRH <= result.BRF
          /\ result.LH <= Count(record, "LH") /\ result.BRH <= Count(record, "BRH")
          /\ result.LF >= Cardinality(DOMAIN record.da \ test)
          /\ (test # {} \/ Count(record, "LF") = Cardinality(DOMAIN record.da)) =>
                result.LH <= Cardinality(HitOf(record.da) \ test)
          /\ test # {} =>
                /\ result.FNF >= Cardinality(functionLines) /\ result.BRF = Cardinality(branches)
                /\ (\A n \in DOMAIN record.fn : record.fn[n] \notin test => record.fnda[n] = 0) => result.FNH = 0
                /\ result.BRH <= Cardinality({b \in branches : Hit(record.brda, b)})

\* An accepted report is a sequence of closed records of different files, and
\* each metric lies inside one of them.
AcceptedIsBracketed(tokens, required, roles) ==
    ParseReport(tokens, required, roles).ok =>
      LET at(tag) == {i \in DOMAIN tokens : tokens[i].tag = tag}
          opened(i) == Cardinality({j \in at("SF") : j <= i}) - Cardinality({j \in at("end") : j <= i})
      IN  /\ at("SF") # {} /\ opened(Len(tokens)) = 0
          /\ \A i \in DOMAIN tokens : opened(i) \in {0, 1}
          /\ \A i \in DOMAIN tokens :
               tokens[i].tag \in CountTags \cup {"DA", "VER", "end"} => opened(i - 1) = 1
          /\ \A i \in at("VER") : tokens[i - 1].tag = "SF"
          /\ \A i, j \in at("SF") : i # j => LexicalKey(tokens[i].path) # LexicalKey(tokens[j].path)

\* No violation means that each required source has one record that is not
\* ambiguous, that together they reach every floor, that a critical file is
\* covered whole, and that every changed line ran. Without an inventory
\* (sources = None) the required ones are the files with functions, and every
\* unambiguous record counts.
ScoreIsEarned(map, sources, functionFiles, floors, critical, changed) ==
    LET records(k) == {p \in DOMAIN map : p.form # "foreign" /\ p.key = k}
        required == IF sources = None THEN functionFiles ELSE {s.key : s \in sources}
        used == IF sources = None THEN {p \in DOMAIN map : records(p.key) = {p}}
                ELSE UNION {records(k) : k \in required}
        sum(tag) == MapThenSumSet(LAMBDA p : map[p][tag], used)
        reached(hit, found, floor) ==
            (floor # None /\ floor > 0) => sum(found) > 0 /\ sum(hit) * 100 >= floor * sum(found)
        violations == IF sources = None THEN EvaluateReported(map, functionFiles, floors, critical)
                      ELSE Evaluate(map, sources, floors, critical)
    IN  violations \cup EvaluateDiff(map, changed) = {} =>
          /\ \A k \in required : Cardinality(records(k)) = 1
          /\ sources # None => \A s \in sources : s.form # "foreign"
          /\ reached("LH", "LF", floors.lines)
          /\ reached("FNH", "FNF", floors.functions) /\ reached("BRH", "BRF", floors.branches)
          /\ \A c \in critical : \E p \in records(c) : records(c) = {p} /\ map[p].LF > 0 /\ map[p].LH >= map[p].LF
          /\ \A k \in DOMAIN changed : \E p \in records(k) :
               records(k) = {p} /\ \A l \in changed[k] : l \in DOMAIN map[p].da /\ map[p].da[l] > 0
=============================================================================
