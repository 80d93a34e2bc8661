------------------------------- MODULE CloneIndex -------------------------------
(* Clone detection: windows of tokens indexed by a rolling hash, verified     *)
(* token by token, coalesced into violations. A stream is [path, tokens], a   *)
(* token [symbol, line]; symbols are numbers, their own hash. Streams come    *)
(* sorted: changed files first, then by path.                                 *)
EXTENDS Integers, Sequences, FiniteSets, FiniteSetsExt, SequencesExt, Saturation

CONSTANTS HashSize,       \* number of hash values (2^64 in the code)
          HashBase,       \* base of the rolling hash
          WindowLimit,    \* windows kept per hash value
          MatchLimit      \* raw matches kept

ASSUME HashAssumption == HashSize \in Nat \ {0} /\ HashBase \in Nat

\* The elements of s that are in S, in their order.
Selected(s, S) == FoldLeft(LAMBDA kept, x : IF x \in S THEN Append(kept, x) ELSE kept, <<>>, s)

-----------------------------------------------------------------------------
(* Rolling hash, modulo the width of the hash.                                *)

WindowHash(tokens, n) ==
    FoldLeft(LAMBDA h, t : (h * HashBase + t.symbol) % HashSize, 0, SubSeq(tokens, 1, n))

PowBase(n) == FoldLeft(LAMBDA p, i : (p * HashBase) % HashSize, 1, [i \in 1 .. n |-> i])

\* Mutant: the token that leaves is not scaled to its place.
RollUnscaled(hash, old, new, n) == ((hash - old) * HashBase + new) % HashSize

\* The window one token further: the first token leaves, the next one enters.
Roll(hash, old, new, n) ==
    ((hash - old * PowBase(n - 1)) * HashBase + new) % HashSize

\* hashes[i]: the hash of the window of n tokens that starts at i.
RollingHashes(tokens, n) ==
    FoldLeft(LAMBDA hashes, i :
                 Append(hashes, Roll(Last(hashes), tokens[i - 1].symbol, tokens[i + n - 1].symbol, n)),
             <<WindowHash(tokens, n)>>, [k \in 1 .. Len(tokens) - n |-> k + 1])

-----------------------------------------------------------------------------
(* Windows and verified matches.                                              *)

Window(s, tokens, i, n) ==
    [stream |-> s, startLine |-> tokens[i].line, endLine |-> tokens[i + n - 1].line,
     start |-> i, end |-> i + n - 1]

Spans(window, minLines) == SaturatingSub(window.endLine, window.startLine) + 1 >= minLines

Slice(streams, s, start, end) == SubSeq(streams[s].tokens, start, end)
SameSymbols(x, y) == [i \in DOMAIN x |-> x[i].symbol] = [i \in DOMAIN y |-> y[i].symbol]

TokensMatch(streams, v, w) ==
    SameSymbols(Slice(streams, v.stream, v.start, v.end), Slice(streams, w.stream, w.start, w.end))

\* A window of the same file is no clone within minLines of the earlier one.
TooClose(streams, earlier, later, minLines) ==
    /\ streams[earlier.stream].path = streams[later.stream].path
    /\ later.startLine <= earlier.endLine + minLines

\* The two sides of a match are ordered by path, then by place.
Before(streams, v, w) ==
    LET p == streams[v.stream].path  q == streams[w.stream].path
    IN  p < q \/ (p = q /\ (v.stream < w.stream \/ (v.stream = w.stream /\ v.start <= w.start)))

Match(streams, v, w) ==
    LET a == IF Before(streams, v, w) THEN v ELSE w
        b == IF Before(streams, v, w) THEN w ELSE v
    IN  [a |-> a, b |-> b]

\* index: [windows: hash -> the windows kept, matches, ok]. A window or match
\* that would be dropped for lack of room is an error instead.
Record(index, window, hash, streams, minLines) ==
    LET kept == index.windows[hash]
        fresh == Selected(kept, {v \in ToSet(kept) : /\ ~TooClose(streams, v, window, minLines)
                                                     /\ TokensMatch(streams, v, window)})
    IN  IF Len(kept) >= WindowLimit \/ Len(index.matches) + Len(fresh) > MatchLimit
        THEN [index EXCEPT !.ok = FALSE]
        ELSE [index EXCEPT !.windows[hash] = Append(@, window),
                           !.matches = @ \o [i \in DOMAIN fresh |-> Match(streams, fresh[i], window)]]

IndexStream(index, s, streams, minLines, n) ==
    LET tokens == streams[s].tokens
        hashes == RollingHashes(tokens, n)
        step(idx, i) ==
            LET w == Window(s, tokens, i, n)
            IN  IF idx.ok /\ Spans(w, minLines) THEN Record(idx, w, hashes[i], streams, minLines) ELSE idx
    IN  IF Len(tokens) < n THEN index
        ELSE FoldLeft(step, index, [i \in 1 .. Len(tokens) - n + 1 |-> i])

BuildIndex(streams, minLines, n) ==
    FoldLeft(LAMBDA index, s : IndexStream(index, s, streams, minLines, n),
             [ok |-> TRUE, windows |-> [h \in 0 .. HashSize - 1 |-> <<>>], matches |-> <<>>],
             [s \in DOMAIN streams |-> s])

-----------------------------------------------------------------------------
(* Coalescing.                                                                *)

Paths(streams, m) == <<streams[m.a.stream].path, streams[m.b.stream].path>>

\* Stable order by the two paths, then by the two start lines.
SortKey(streams, m) == Paths(streams, m) \o <<m.a.startLine, m.b.startLine>>
LessKey(x, y) == \E i \in DOMAIN x : x[i] < y[i] /\ \A j \in 1 .. i - 1 : x[j] = y[j]
Insert(streams, sorted, m) ==
    LET later == {x \in ToSet(sorted) : LessKey(SortKey(streams, m), SortKey(streams, x))}
    IN  Selected(sorted, ToSet(sorted) \ later) \o <<m>> \o Selected(sorted, later)
SortMatches(streams, matches) ==
    FoldLeft(LAMBDA sorted, m : Insert(streams, sorted, m), <<>>, matches)

WithinGap(start, end, gap) == start <= end + gap
Touch(v, w) == WithinGap(w.start, v.end, 1) /\ WithinGap(v.start, w.end, 1)
Overlap(v, w) == v.stream = w.stream /\ w.start <= v.end /\ w.end >= v.start

\* Both sides advance together: what lies between them was verified.
Aligned(l, r) ==
    l.a.start + r.b.start = r.a.start + l.b.start /\ Touch(l.a, r.a) /\ Touch(l.b, r.b)

Join(v, w) == [v EXCEPT !.start = Least(v.start, w.start), !.end = Most(v.end, w.end),
                        !.endLine = Most(v.endLine, w.endLine)]

CanMerge(streams, l, r) ==
    /\ Paths(streams, l) = Paths(streams, r)
    /\ l.a.stream = r.a.stream /\ l.b.stream = r.b.stream
    /\ WithinGap(r.a.startLine, l.a.endLine, 2) /\ WithinGap(r.b.startLine, l.b.endLine, 2)
    /\ WithinGap(r.a.start, l.a.end, 1) /\ WithinGap(r.b.start, l.b.end, 1)
    /\ Aligned(l, r) \/ TokensMatch(streams, Join(l.a, r.a), Join(l.b, r.b))

\* A match extends the last one, is dropped as another alignment of it, or is
\* kept as a clone of its own.
CoalesceOne(streams, kept, m) ==
    LET last == kept[Len(kept)]
    IN  CASE kept # <<>> /\ CanMerge(streams, last, m) ->
               [kept EXCEPT ![Len(kept)] = [a |-> Join(last.a, m.a), b |-> Join(last.b, m.b)]]
          [] kept # <<>> /\ ~CanMerge(streams, last, m) /\ Paths(streams, last) = Paths(streams, m)
                /\ (Overlap(last.a, m.a) \/ Overlap(last.b, m.b)) -> kept
          [] OTHER -> Append(kept, m)

Coalesce(streams, matches) ==
    FoldLeft(LAMBDA kept, m : CoalesceOne(streams, kept, m), <<>>, SortMatches(streams, matches))

\* A clone is reported when both sides span the lines, match and are as long.
Reportable(streams, c, minLines, n) ==
    /\ Spans(c.a, minLines) /\ Spans(c.b, minLines)
    /\ TokensMatch(streams, c.a, c.b) /\ c.a.end - c.a.start + 1 >= n

DetectClones(streams, minLines, n) ==
    LET index == BuildIndex(streams, minLines, n)
    IN  IF ~index.ok THEN [ok |-> FALSE]
        ELSE [ok |-> TRUE,
              clones |-> LET merged == Coalesce(streams, index.matches)
                         IN  Selected(merged, {c \in ToSet(merged) : Reportable(streams, c, minLines, n)})]

-----------------------------------------------------------------------------
(* What detection promises.                                                   *)

\* Unless it fails outright, detection loses no duplicate: every pair of equal
\* windows, found here by comparing all of them, shares tokens with a reported
\* clone of the same two files, and every reported clone is two equal runs.
DetectionIsComplete(streams, minLines, n) ==
    LET result == DetectClones(streams, minLines, n)
        windows == UNION {{Window(s, streams[s].tokens, i, n) : i \in 1 .. Len(streams[s].tokens) - n + 1}
                            : s \in DOMAIN streams}
        earlier(v, w) == v.stream < w.stream \/ (v.stream = w.stream /\ v.start < w.start)
    IN  result.ok =>
          /\ \A v, w \in {x \in windows : Spans(x, minLines)} :
               (earlier(v, w) /\ TokensMatch(streams, v, w) /\ ~TooClose(streams, v, w, minLines)) =>
                 \E i \in DOMAIN result.clones :
                   LET c == result.clones[i]  m == Match(streams, v, w)
                   IN  Paths(streams, c) = Paths(streams, m) /\ (Overlap(c.a, m.a) \/ Overlap(c.b, m.b))
          /\ \A i \in DOMAIN result.clones :
               LET c == result.clones[i]
               IN  /\ SameSymbols(Slice(streams, c.a.stream, c.a.start, c.a.end),
                                  Slice(streams, c.b.stream, c.b.start, c.b.end))
                   /\ c.a.end - c.a.start + 1 >= n
=============================================================================
