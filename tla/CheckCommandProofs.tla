------------------------- MODULE CheckCommandProofs -------------------------
(***************************************************************************)
(* Proofs about CheckCommand for any invocations: any tree, configuration, *)
(* findings, baseline and signals. The invariant relates the report to the *)
(* ghosts: while the report is new, while it holds static evidence only,   *)
(* and from the ratchet on, when the verdict counts. The static phase and  *)
(* the ratchet are folds over sequences of any length.                     *)
(***************************************************************************)
EXTENDS CheckCommand, LegacyRatchetProofs

(* The states an engine of a check is observed in, and the findings that any  *)
(* of the cases can bring.                                                    *)
Observed == {Unobserved, "Completed", "Failed", "Incomplete"}
Findings ==
    UNION {FindingsIn(c.tree, c.index) \cup FindingsIn(c.base.tree, c.base.index) : c \in Cases}

(* A report, as a record of its parts.                                        *)
IsReport(r) ==
    /\ r = [obs |-> r.obs, findings |-> r.findings, orch |-> r.orch, cov |-> r.cov, mut |-> r.mut,
            tool |-> r.tool]
    /\ r.obs \in [Engines -> Observed] /\ r.findings \in Seq(Findings) /\ r.tool \in BOOLEAN

(* Only a blocking compiler diagnostic makes an observation a failure.        *)
Sound(r) == IsReport(r) /\ \A e \in Engines : r.obs[e] = "Failed" => r.tool

(* Evidence that was obtained and is bad, unlike IncompleteEvidence.          *)
FailedEvidence(r) ==
    \/ r.findings # << >> \/ r.tool
    \/ \E v \in r.orch : ~Unevaluated(v.exit)
    \/ r.cov \ MissingCoverage # {} \/ r.mut \ IncompleteMutation # {}

(* What a command returns, and the phases in their order.                     *)
Outcomes == {"passed", "violations", "incomplete"}
Early == {"resolve", "evidence", "static"}
Writing == {"generated", "commands", "session", "close", "coverage", "mutation"}
Closing == {"emit", "rendered", "stdout"}
Leaving == {"guard", "finish", "done"}

Published == \E name \in DOMAIN files : files[name] # Nothing

(* The verdict of the report counts: it is being written after the ratchet,   *)
(* or the command left with it, or some document shows it.                    *)
Settled ==
    \/ phase \in Writing \cup Closing
    \/ phase \in Leaving /\ (result \in Outcomes \/ Published)

(* The plan, or what an abort made of it.                                     *)
IsPlan(p) ==
    /\ p = [command |-> "check", mode |-> ScopeMode, engines |-> p.engines]
    /\ p.engines \in [Engines -> [enabled : BOOLEAN, selected : BOOLEAN,
                                  state : {"Skipped", "Disabled", "Incomplete"}]]
    /\ \A e \in Engines :
          /\ p.engines[e].enabled <=> e \in EnabledEngines
          /\ p.engines[e].selected <=> e \in EnabledEngines /\ Requested(e)
          /\ p.engines[e].selected => p.engines[e].state \in {"Skipped", "Incomplete"}

(* The invocation is one of the cases; the command is in one of its phases.   *)
CaseInv ==
    /\ case \in Cases /\ signal \in Signals \cup {0} /\ IsSequence(runs)
    /\ phase \in Early \cup {"ratchet"} \cup Writing \cup Closing \cup Leaving

(* The report is sound.                                                       *)
ReportInv == Sound(report)

(* Until the static phase the report is new; what was missed is the gap.      *)
EarlyInv ==
    /\ phase \in Early => report = NewReport /\ failed = {} /\ (gaps # {} <=> MissedSteps # {})
    /\ phase = "resolve" \/ (phase = "evidence" /\ (case.mode = "none" \/ ~Preflight)) => runs = << >>

(* Then it holds static evidence, which the ghosts describe.                  *)
RatchetInv ==
    phase = "ratchet" =>
        /\ failed = {} /\ report.cov = {} /\ report.mut = {} /\ ~report.tool
        /\ \A v \in report.orch : v.exit = NoExit
        /\ gaps # {} <=> report.orch # {}
        /\ Blocking # {} <=> \E i \in DOMAIN report.findings : report.findings[i].engine # "Clones"

(* After the ratchet the verdict is that of the ghosts.                       *)
VerdictInv ==
    Settled => (gaps # {} <=> IncompleteEvidence(report)) /\ (failed # {} <=> FailedEvidence(report))

(* A gap that no role blocks still leaves an engine incomplete.               *)
GapInv ==
    phase = "ratchet" \/ Settled =>
        (StaticGaps(TRUE) # {} => \E e \in EnabledEngines : report.obs[e] = "Incomplete")

(* The plan is fixed until the command leaves.                                *)
PlanInv ==
    /\ phase \notin {"resolve"} \cup Leaving => plan = GatePlan
    /\ Published => IsPlan(plan)

(* Whatever is published is the document of the report and the fixed plan.    *)
FilesInv ==
    /\ DOMAIN files = {"json", "rendered"}
    /\ \A name \in DOMAIN files : files[name] # Nothing => files[name] = Document(report, GatePlan)
    /\ phase \notin {"rendered", "stdout"} \cup Leaving => ~Published
    /\ phase = "rendered" => (case.json <=> files.json # Nothing) /\ files.rendered = Nothing
    /\ phase = "stdout" => \A name \in DOMAIN files : case[name] <=> files[name] # Nothing

(* The result is the outcome of the report or the reason of an abort.         *)
ResultInv ==
    /\ phase \in Leaving => result \in Outcomes \cup {"error", "broken pipe"}
    /\ phase \in Leaving /\ result \in Outcomes =>
          /\ result = Outcome(report)
          /\ \A name \in DOMAIN files : case[name] <=> files[name] # Nothing
    /\ phase = "done" =>
          exit \in IF signal # 0 THEN {128 + signal} ELSE ExitsFor(result)

(* The inductive invariant.                                                   *)
IInv ==
    /\ CaseInv /\ ReportInv /\ EarlyInv /\ RatchetInv /\ VerdictInv /\ GapInv /\ PlanInv
    /\ FilesInv /\ ResultInv
-----------------------------------------------------------------------------
(* Folds over a sequence.                                                     *)

(* A function that a fold iterates stays with what each of its steps carries  *)
(* over.                                                                      *)
FoldRuns(it, n, State, base, Step, Good) ==
    /\ n \in Nat /\ base \in State /\ base \in Good[0] /\ Step \in [State \X (1 .. n) -> State]
    /\ it[{}] = base
    /\ \A s \in SUBSET (1 .. n) :
          s # {} /\ it[s \ {Max(s)}] \in State => it[s] = Step[<<it[s \ {Max(s)}], Max(s)>>]
    /\ \A k \in 1 .. n, x \in State : x \in Good[k - 1] => Step[<<x, k>>] \in Good[k]

(* What an iteration of a fold reaches.                                       *)
LEMMA FoldReaches ==
  ASSUME NEW n, NEW State, NEW base, NEW it, NEW Good, NEW Step,
         FoldRuns(it, n, State, base, Step, Good)
  PROVE  it[1 .. n] \in State /\ it[1 .. n] \in Good[n]
<1>. USE DEF FoldRuns
<1>. DEFINE Carried == [k \in 0 .. n |-> {x \in State : x \in Good[k]}]
<1>1. it[{}] \in Carried[0]
  OBVIOUS
<1>2. ASSUME NEW k \in 1 .. n, it[1 .. k - 1] \in Carried[k - 1]
      PROVE  it[1 .. k] \in Carried[k]
  <2>1. Max(1 .. k) = k /\ (1 .. k) \ {k} = 1 .. k - 1
    <3>1. k - 1 \in Nat /\ (k - 1) + 1 = k
      OBVIOUS
    <3>. QED  BY <3>1, GreatestOfInterval
  <2>2. 1 .. k \in SUBSET (1 .. n) /\ 1 .. k # {} /\ k - 1 \in 0 .. n /\ k \in 0 .. n
    <3>1. k \in 1 .. k
      OBVIOUS
    <3>2. \A j \in 1 .. k : j \in 1 .. n
      OBVIOUS
    <3>. QED  BY <3>1, <3>2
  <2>3. it[1 .. k - 1] \in State /\ it[1 .. k - 1] \in Good[k - 1]
    BY <1>2, <2>2
  <2>4. it[1 .. k] = Step[<<it[1 .. k - 1], k>>]
    BY <2>1, <2>2, <2>3
  <2>5. <<it[1 .. k - 1], k>> \in State \X (1 .. n)
    BY <2>3
  <2>6. it[1 .. k] \in State /\ it[1 .. k] \in Good[k]
    BY <2>3, <2>4, <2>5
  <2>. QED  BY <2>2, <2>6
<1>3. it[1 .. n] \in Carried[n]
  <2>. HIDE DEF Carried
  <2>. QED  BY <1>1, <1>2, FoldInvariant
<1>. QED  BY <1>3

(* Among keeps exactly the elements that are in the set.                      *)
LEMMA AmongSelects ==
  ASSUME NEW T, NEW seq \in Seq(T), NEW S
  PROVE  Among(seq, S) \in Seq(T) /\ ToSet(Among(seq, S)) = ToSet(seq) \cap S
<1>. DEFINE n == Len(seq)
            State == Seq(T)
            base == << >>
            Taken(x, k) == IF seq[k] \in S THEN Append(x, seq[k]) ELSE x
            Step == [p \in State \X (1 .. n) |-> Taken(p[1], p[2])]
            Iterates(g) == g = [s \in SUBSET DOMAIN seq |->
                                  IF s = {} THEN base ELSE Taken(g[s \ {Max(s)}], Max(s))]
            it == CHOOSE g : Iterates(g)
            Good == [k \in 0 .. n |-> {x \in State : ToSet(x) = {seq[j] : j \in 1 .. k} \cap S}]
<1>1. DOMAIN seq = 1 .. n /\ n \in Nat
  OBVIOUS
<1>2. ASSUME NEW x \in State, NEW k \in 1 .. n
      PROVE  Taken(x, k) \in State /\ (x \in Good[k - 1] => Taken(x, k) \in Good[k])
  <2>1. seq[k] \in T
    OBVIOUS
  <2>2. Append(x, seq[k]) \in State /\ ToSet(Append(x, seq[k])) = ToSet(x) \cup {seq[k]}
    <3>. HIDE DEF n
    <3>. QED  BY <2>1, Appended DEF ToSet
  <2>3. {seq[j] : j \in 1 .. k} = {seq[j] : j \in 1 .. k - 1} \cup {seq[k]}
    OBVIOUS
  <2>4. k - 1 \in 0 .. n /\ k \in 0 .. n
    OBVIOUS
  <2>. HIDE DEF n
  <2>. QED  BY <2>2, <2>3, <2>4
<1>3. base \in State /\ base \in Good[0]
  <2>1. {seq[j] : j \in 1 .. 0} = {} /\ ToSet(base) = {}
    BY DEF ToSet
  <2>. QED  BY <2>1
<1>4. Among(seq, S) = it[DOMAIN seq]
  BY Zenon DEF Among, FoldLeft, MapThenFoldSet
<1>. HIDE DEF State, Taken, base
<1>5. Step \in [State \X (1 .. n) -> State]
  BY <1>2
<1>6. PICK g \in [SUBSET (1 .. n) -> State] : FoldFits(g, n, base, Step)
  <2>. HIDE DEF Step, n
  <2>. QED  BY <1>1, <1>3, <1>5, FoldExists
<1>7. Iterates(it)
  <2>1. g[{}] = base
    BY <1>6 DEF FoldFits
  <2>2. ASSUME NEW s \in SUBSET (1 .. n), s # {}
        PROVE  g[s] = Taken(g[s \ {Max(s)}], Max(s))
    <3>1. Max(s) \in 1 .. n
      BY <1>1, <2>2, Greatest
    <3>2. g[s \ {Max(s)}] \in State
      OBVIOUS
    <3>3. g[s] = Step[<<g[s \ {Max(s)}], Max(s)>>]
      BY <1>6, <2>2 DEF FoldFits
    <3>. QED  BY <3>1, <3>2, <3>3
  <2>3. Iterates(g)
    BY <1>1, <2>1, <2>2
  <2>. HIDE DEF Iterates
  <2>. QED  BY <2>3
<1>8. /\ it[{}] = base
      /\ \A s \in SUBSET (1 .. n) : s # {} /\ it[s \ {Max(s)}] \in State =>
            it[s] = Step[<<it[s \ {Max(s)}], Max(s)>>]
  <2>. HIDE DEF it
  <2>1. it[{}] = base
    BY <1>7
  <2>2. ASSUME NEW s \in SUBSET (1 .. n), s # {}, it[s \ {Max(s)}] \in State
        PROVE  it[s] = Step[<<it[s \ {Max(s)}], Max(s)>>]
    <3>1. Max(s) \in 1 .. n
      BY <1>1, <2>2, Greatest
    <3>2. it[s] = Taken(it[s \ {Max(s)}], Max(s))
      BY <1>1, <1>7, <2>2
    <3>3. <<it[s \ {Max(s)}], Max(s)>> \in State \X (1 .. n)
      BY <2>2, <3>1
    <3>. QED  BY <3>2, <3>3
  <2>. QED  BY <2>1, <2>2
<1>9. it[1 .. n] \in State /\ it[1 .. n] \in Good[n]
  <2>1. ASSUME NEW k \in 1 .. n, NEW x \in State
        PROVE  x \in Good[k - 1] => Step[<<x, k>>] \in Good[k]
    <3>1. Step[<<x, k>>] = Taken(x, k)
      OBVIOUS
    <3>. HIDE DEF Step, Good, n
    <3>. QED  BY <1>2, <3>1
  <2>. HIDE DEF it, Good, Step, n
  <2>2. FoldRuns(it, n, State, base, Step, Good)
    BY <1>1, <1>3, <1>5, <1>8, <2>1 DEF FoldRuns
  <2>. QED  BY <2>2, FoldReaches
<1>. HIDE DEF it
<1>10. ToSet(seq) = {seq[j] : j \in 1 .. n}
  BY <1>1 DEF ToSet
<1>. QED  BY <1>1, <1>4, <1>9, <1>10 DEF State

(* What concatenation keeps.                                                  *)
LEMMA Concatenated ==
  ASSUME NEW T, NEW s \in Seq(T), NEW t \in Seq(T)
  PROVE  s \o t \in Seq(T) /\ ToSet(s \o t) = ToSet(s) \cup ToSet(t)
<1>1. s \o t \in Seq(T) /\ Len(s \o t) = Len(s) + Len(t) /\ Len(s) \in Nat /\ Len(t) \in Nat
  OBVIOUS
<1>2. DOMAIN s = 1 .. Len(s) /\ DOMAIN t = 1 .. Len(t) /\ DOMAIN (s \o t) = 1 .. Len(s) + Len(t)
  OBVIOUS
<1>3. ASSUME NEW i \in 1 .. Len(s)
      PROVE  (s \o t)[i] = s[i]
  OBVIOUS
<1>4. ASSUME NEW i \in 1 .. Len(t)
      PROVE  (s \o t)[Len(s) + i] = t[i] /\ Len(s) + i \in 1 .. Len(s) + Len(t)
  OBVIOUS
<1>5. ASSUME NEW i \in 1 .. Len(s) + Len(t), i \notin 1 .. Len(s)
      PROVE  \E j \in 1 .. Len(t) : i = Len(s) + j
  <2>1. i - Len(s) \in 1 .. Len(t) /\ i = Len(s) + (i - Len(s))
    BY <1>1, <1>5
  <2>. QED  BY <2>1
<1>6. ToSet(s \o t) \subseteq ToSet(s) \cup ToSet(t)
  <2>1. ASSUME NEW i \in DOMAIN (s \o t)
        PROVE  (s \o t)[i] \in ToSet(s) \cup ToSet(t)
    <3>1. CASE i \in 1 .. Len(s)
      BY <1>2, <1>3, <3>1 DEF ToSet
    <3>2. CASE i \notin 1 .. Len(s)
      <4>1. PICK j \in 1 .. Len(t) : i = Len(s) + j
        BY <1>2, <1>5, <3>2
      <4>. QED  BY <1>2, <1>4, <4>1 DEF ToSet
    <3>. QED  BY <3>1, <3>2
  <2>. QED  BY <2>1 DEF ToSet
<1>7. ToSet(s) \cup ToSet(t) \subseteq ToSet(s \o t)
  <2>1. ASSUME NEW i \in DOMAIN s  PROVE s[i] \in ToSet(s \o t)
    <3>1. i \in DOMAIN (s \o t) /\ (s \o t)[i] = s[i]
      BY <1>1, <1>2, <1>3
    <3>. QED  BY <3>1 DEF ToSet
  <2>2. ASSUME NEW i \in DOMAIN t  PROVE t[i] \in ToSet(s \o t)
    <3>1. Len(s) + i \in DOMAIN (s \o t) /\ (s \o t)[Len(s) + i] = t[i]
      BY <1>2, <1>4
    <3>. QED  BY <3>1 DEF ToSet
  <2>. QED  BY <2>1, <2>2 DEF ToSet
<1>. QED  BY <1>1, <1>6, <1>7

-----------------------------------------------------------------------------
(* The static phase writes a draft: it has neither evaluated commands nor     *)
(* reports. Adds says what every one of its steps keeps.                      *)

(* Steps of the static phase that may lack evidence.                          *)
StaticSteps == {"read-source", "classify-source", "unsupported-source", "parse-source",
                "read-clone-index", "clone-index"}

(* A report of the static phase, with findings in F.                          *)
Drafts(F) ==
    [obs : [Engines -> {Unobserved, "Completed", "Incomplete"}], findings : Seq(F),
     orch : SUBSET [step : StaticSteps, exit : {NoExit}], cov : {{}}, mut : {{}}, tool : {FALSE}]

(* What every step of the static phase keeps.                                 *)
Adds(F, r, next) ==
    /\ next \in Drafts(F) /\ r.orch \subseteq next.orch
    /\ \A e \in Engines : r.obs[e] = "Incomplete" => next.obs[e] = "Incomplete"

(* A draft with other observations, findings and failures.                    *)
Revised(r, obs, findings, orch) ==
    [obs |-> obs, findings |-> findings, orch |-> orch, cov |-> r.cov, mut |-> r.mut, tool |-> r.tool]

(* A new report is an empty draft.                                            *)
LEMMA NewDraft ==
  ASSUME NEW F
  PROVE  NewReport \in Drafts(F) /\ NewReport.orch = {} /\ ToSet(NewReport.findings) = {}
  BY DEF NewReport, Drafts, ToSet

(* Every step has an engine that answers for it.                              *)
LEMMA AnsweringEngine ==
  ASSUME NEW step
  PROVE  EvidenceEngine(step) \in Engines
  BY DEF EvidenceEngine, Engines, StaticEngines, EvidenceEngines, CommandEngines

(* Two steps of the static phase make one.                                    *)
LEMMA AddsCompose ==
  ASSUME NEW F, NEW r, NEW s, NEW t, Adds(F, r, s), Adds(F, s, t)
  PROVE  Adds(F, r, t)
  BY DEF Adds

(* The parts of a draft.                                                      *)
LEMMA DraftTypes ==
  ASSUME NEW F, NEW r \in Drafts(F)
  PROVE  /\ r.obs \in [Engines -> {Unobserved, "Completed", "Incomplete"}] /\ r.findings \in Seq(F)
         /\ r.orch \in SUBSET [step : StaticSteps, exit : {NoExit}]
         /\ r.cov = {} /\ r.mut = {} /\ r.tool = FALSE
  BY DEF Drafts

(* Changing a field of a draft, written as a record.                          *)
LEMMA DraftFields ==
  ASSUME NEW F, NEW r \in Drafts(F)
  PROVE  /\ \A x : [r EXCEPT !.obs = x] = Revised(r, x, r.findings, r.orch)
         /\ \A x : [r EXCEPT !.findings = x] = Revised(r, r.obs, x, r.orch)
         /\ \A x : [r EXCEPT !.orch = x] = Revised(r, r.obs, r.findings, x)
  BY DEF Drafts, Revised

(* A record of the right parts is a draft.                                    *)
LEMMA DraftMade ==
  ASSUME NEW F, NEW r \in Drafts(F), NEW orch \in SUBSET [step : StaticSteps, exit : {NoExit}],
         NEW obs \in [Engines -> {Unobserved, "Completed", "Incomplete"}], NEW findings \in Seq(F)
  PROVE  LET next == Revised(r, obs, findings, orch)
         IN  next \in Drafts(F) /\ next.obs = obs /\ next.findings = findings /\ next.orch = orch
<1>1. r.cov \in {{}} /\ r.mut \in {{}} /\ r.tool \in {FALSE}
  BY DEF Drafts
<1>. QED  BY <1>1 DEF Drafts, Revised

(* An observation of several engines keeps findings and failures.             *)
LEMMA DraftObserveAll ==
  ASSUME NEW F, NEW r \in Drafts(F), NEW ids, NEW state \in {"Completed", "Incomplete"}
  PROVE  /\ Adds(F, r, ObserveAll(r, ids, state))
         /\ state = "Incomplete" =>
               \A e \in ids \cap Engines : ObserveAll(r, ids, state).obs[e] = "Incomplete"
         /\ ObserveAll(r, ids, state).findings = r.findings
         /\ ObserveAll(r, ids, state).orch = r.orch
<1>. DEFINE seen == [e \in Engines |->
                       IF e \in ids /\ Rank[state] > Rank[r.obs[e]] THEN state ELSE r.obs[e]]
<1>1. ObserveAll(r, ids, state) = Revised(r, seen, r.findings, r.orch)
  BY DraftFields DEF ObserveAll
<1>2. seen \in [Engines -> {Unobserved, "Completed", "Incomplete"}]
  BY DEF Drafts
<1>3. ASSUME NEW e \in Engines,
             r.obs[e] = "Incomplete" \/ (state = "Incomplete" /\ e \in ids)
      PROVE  seen[e] = "Incomplete"
  <2>1. r.obs[e] \in {"Unobserved", "Completed", "Incomplete"}
    BY DEF Drafts, Unobserved
  <2>. QED  BY <1>3, <2>1 DEF Rank
<1>. HIDE DEF seen
<1>4. LET next == ObserveAll(r, ids, state)
      IN  next \in Drafts(F) /\ next.obs = seen /\ next.findings = r.findings /\ next.orch = r.orch
  <2>1. r.findings \in Seq(F) /\ r.orch \in SUBSET [step : StaticSteps, exit : {NoExit}]
    BY DraftTypes
  <2>. QED  BY <1>1, <1>2, <2>1, DraftMade
<1>. QED  BY <1>3, <1>4 DEF Adds

(* So does an observation of one.                                             *)
LEMMA DraftObserve ==
  ASSUME NEW F, NEW r \in Drafts(F), NEW e \in Engines
  PROVE  /\ Adds(F, r, Observe(r, e, "Completed"))
         /\ Observe(r, e, "Completed").findings = r.findings
         /\ Observe(r, e, "Completed").orch = r.orch
<1>. DEFINE seen == [r.obs EXCEPT ![e] = "Completed"]
<1>1. CASE Rank["Completed"] > Rank[r.obs[e]]
  <2>1. Observe(r, e, "Completed") = Revised(r, seen, r.findings, r.orch)
    BY <1>1, DraftFields DEF Observe
  <2>2. r.obs \in [Engines -> {"Unobserved", "Completed", "Incomplete"}]
    BY DEF Drafts, Unobserved
  <2>3. r.obs[e] # "Incomplete"
    BY <1>1, <2>2 DEF Rank
  <2>4. seen \in [Engines -> {"Unobserved", "Completed", "Incomplete"}]
    BY <2>2
  <2>5. \A x \in Engines : r.obs[x] = "Incomplete" => seen[x] = "Incomplete"
    BY <2>2, <2>3
  <2>. HIDE DEF seen
  <2>6. LET next == Observe(r, e, "Completed")
        IN  next \in Drafts(F) /\ next.obs = seen /\ next.findings = r.findings /\ next.orch = r.orch
    <3>1. r.findings \in Seq(F) /\ r.orch \in SUBSET [step : StaticSteps, exit : {NoExit}]
      BY DraftTypes
    <3>2. seen \in [Engines -> {Unobserved, "Completed", "Incomplete"}]
      BY <2>4 DEF Unobserved
    <3>. QED  BY <2>1, <3>1, <3>2, DraftMade
  <2>. QED  BY <2>5, <2>6 DEF Adds
<1>2. CASE ~(Rank["Completed"] > Rank[r.obs[e]])
  BY <1>2 DEF Observe, Adds
<1>. QED  BY <1>1, <1>2

(* Engines that a step of missing evidence leaves incomplete.                 *)
MissedBy(step) ==
    IF step \in {"read-source", "classify-source"} THEN StaticEngines ELSE {EvidenceEngine(step)}

(* Missing evidence leaves the engines it names incomplete.                   *)
LEMMA DraftMissed ==
  ASSUME NEW F, NEW r \in Drafts(F), NEW step
  PROVE  /\ Adds(F, r, ObserveEvidenceFailure(r, step))
         /\ ObserveEvidenceFailure(r, step).findings = r.findings
         /\ ObserveEvidenceFailure(r, step).orch = r.orch
         /\ \A e \in MissedBy(step) : ObserveEvidenceFailure(r, step).obs[e] = "Incomplete"
<1>1. ObserveEvidenceFailure(r, step) = ObserveAll(r, MissedBy(step), "Incomplete")
  BY DEF ObserveEvidenceFailure, MissedBy
<1>2. MissedBy(step) \subseteq Engines
  BY AnsweringEngine DEF MissedBy, Engines
<1>. QED  BY <1>1, <1>2, DraftObserveAll

(* A violation makes the draft fail and keeps the rest.                       *)
LEMMA DraftBroken ==
  ASSUME NEW F, NEW r \in Drafts(F), NEW step \in StaticSteps
  PROVE  /\ Adds(F, r, AddViolation(r, step, NoExit))
         /\ AddViolation(r, step, NoExit).findings = r.findings
         /\ AddViolation(r, step, NoExit).orch # {}
         /\ AddViolation(r, step, NoExit).obs = r.obs
<1>. DEFINE orch == r.orch \cup {[step |-> step, exit |-> NoExit]}
<1>1. AddViolation(r, step, NoExit) = Revised(r, r.obs, r.findings, orch)
  BY DraftFields DEF AddViolation
<1>2. /\ r.obs \in [Engines -> {Unobserved, "Completed", "Incomplete"}] /\ r.findings \in Seq(F)
      /\ r.orch \in SUBSET [step : StaticSteps, exit : {NoExit}]
  BY DraftTypes
<1>3. orch \in SUBSET [step : StaticSteps, exit : {NoExit}] /\ orch # {} /\ r.orch \subseteq orch
  <2>1. [step |-> step, exit |-> NoExit] \in [step : StaticSteps, exit : {NoExit}]
    OBVIOUS
  <2>. QED  BY <1>2, <2>1
<1>. HIDE DEF orch
<1>4. LET next == AddViolation(r, step, NoExit)
      IN  next \in Drafts(F) /\ next.obs = r.obs /\ next.findings = r.findings /\ next.orch = orch
  BY <1>1, <1>2, <1>3, DraftMade
<1>. QED  BY <1>3, <1>4 DEF Adds

(* A recorded evidence failure does both.                                     *)
LEMMA DraftRecord ==
  ASSUME NEW F, NEW r \in Drafts(F), NEW step \in StaticSteps
  PROVE  /\ Adds(F, r, RecordEvidenceFailure(r, TRUE, step))
         /\ RecordEvidenceFailure(r, TRUE, step).findings = r.findings
         /\ RecordEvidenceFailure(r, TRUE, step).orch # {}
         /\ \A e \in MissedBy(step) : RecordEvidenceFailure(r, TRUE, step).obs[e] = "Incomplete"
<1>. DEFINE seen == ObserveEvidenceFailure(r, step)
            next == AddViolation(seen, step, NoExit)
<1>1. RecordEvidenceFailure(r, TRUE, step) = next
  BY DEF RecordEvidenceFailure
<1>2. /\ Adds(F, r, seen) /\ seen \in Drafts(F) /\ seen.findings = r.findings
      /\ \A e \in MissedBy(step) : seen.obs[e] = "Incomplete"
  BY DraftMissed DEF Adds
<1>. HIDE DEF seen
<1>3. Adds(F, seen, next) /\ next.findings = seen.findings /\ next.orch # {} /\ next.obs = seen.obs
  BY <1>2, DraftBroken
<1>. HIDE DEF next
<1>4. Adds(F, r, next)
  BY <1>2, <1>3, AddsCompose
<1>. QED  BY <1>1, <1>2, <1>3, <1>4

(* Of a file's findings those that block under its role are added.            *)
LEMMA DraftFindings ==
  ASSUME NEW F, NEW r \in Drafts(F), NEW config, NEW role, NEW findings \in Seq(F)
  PROVE  LET next == ApplyFindings(r, config, role, findings)
         IN  /\ Adds(F, r, next) /\ next.orch = r.orch
             /\ ToSet(next.findings) = ToSet(r.findings)
                   \cup {f \in ToSet(findings) : FindingSeverity(config, role, f) = "Error"}
<1>. DEFINE blocking == {f \in ToSet(findings) : FindingSeverity(config, role, f) = "Error"}
            some == Among(findings, blocking)
            all == r.findings \o some
<1>1. some \in Seq(F) /\ ToSet(some) = blocking
  <2>1. blocking \subseteq ToSet(findings)
    OBVIOUS
  <2>. HIDE DEF blocking
  <2>2. some \in Seq(F) /\ ToSet(some) = ToSet(findings) \cap blocking
    BY AmongSelects
  <2>. QED  BY <2>1, <2>2
<1>2. ApplyFindings(r, config, role, findings) = Revised(r, r.obs, all, r.orch)
  BY DraftFields DEF ApplyFindings
<1>. HIDE DEF some, blocking
<1>3. r.findings \in Seq(F)
  BY DEF Drafts
<1>4. all \in Seq(F) /\ ToSet(all) = ToSet(r.findings) \cup ToSet(some)
  BY <1>1, <1>3, Concatenated
<1>. HIDE DEF all
<1>5. LET next == ApplyFindings(r, config, role, findings)
      IN  /\ next \in Drafts(F) /\ next.obs = r.obs /\ next.orch = r.orch
          /\ next.findings = all
  <2>1. /\ r.obs \in [Engines -> {Unobserved, "Completed", "Incomplete"}]
        /\ r.orch \in SUBSET [step : StaticSteps, exit : {NoExit}]
    BY DraftTypes
  <2>. QED  BY <1>2, <1>4, <2>1, DraftMade
<1>6. Adds(F, r, ApplyFindings(r, config, role, findings))
  BY <1>5 DEF Adds
<1>. QED  BY <1>1, <1>4, <1>5, <1>6 DEF blocking

(* Missing evidence of a role blocks when the role is judged as an error, and *)
(* is seen in any case; the exception is the migration.                       *)
LEMMA DraftRole ==
  ASSUME NEW F, NEW r \in Drafts(F), NEW config, NEW file, NEW step \in StaticSteps,
         ~(/\ step = "unsupported-source" /\ file.role = "Migration" /\ file.inventory
           /\ Severity(config, file.role) = "Ignore")
  PROVE  /\ Adds(F, r, RecordRoleEvidenceFailure(r, config, file, step))
         /\ RecordRoleEvidenceFailure(r, config, file, step).findings = r.findings
         /\ RecordRoleEvidenceFailure(r, config, file, step).orch # {}
               <=> r.orch # {} \/ Severity(config, file.role) = "Error"
         /\ \A e \in MissedBy(step) :
               RecordRoleEvidenceFailure(r, config, file, step).obs[e] = "Incomplete"
<1>. DEFINE next == RecordRoleEvidenceFailure(r, config, file, step)
            seen == ObserveEvidenceFailure(r, step)
<1>1. next = IF Severity(config, file.role) = "Error" THEN AddViolation(seen, step, NoExit) ELSE seen
  BY DEF RecordRoleEvidenceFailure, RecordEvidenceFailure
<1>. HIDE DEF next
<1>2. /\ Adds(F, r, seen) /\ seen \in Drafts(F) /\ seen.findings = r.findings /\ seen.orch = r.orch
      /\ \A e \in MissedBy(step) : seen.obs[e] = "Incomplete"
  BY DraftMissed DEF Adds
<1>. HIDE DEF seen
<1>3. CASE Severity(config, file.role) = "Error"
  <2>1. Adds(F, seen, next) /\ next.findings = seen.findings /\ next.orch # {} /\ next.obs = seen.obs
    BY <1>1, <1>2, <1>3, DraftBroken
  <2>2. Adds(F, r, next)
    BY <1>2, <2>1, AddsCompose
  <2>. QED  BY <1>2, <1>3, <2>1, <2>2 DEF next
<1>4. CASE Severity(config, file.role) # "Error"
  BY <1>1, <1>2, <1>4 DEF next
<1>. QED  BY <1>3, <1>4

(* What a selected file withholds: FileGap, for any configuration.            *)
Unclassified(config, file, lenient) ==
    \/ file.retired /\ file.role \in {"Source", "Test", "Migration", "Unknown"}
    \/ file.role = "Unknown" /\ config.enforceClassified
    \/ /\ lenient \/ Severity(config, file.role) = "Error"
       /\ \/ ~file.ast /\ file.role = "Source" /\ ~file.inventory
          \/ /\ ~file.ast /\ file.role = "Migration"
             /\ ~(file.inventory /\ Severity(config, "Migration") = "Ignore")

(* A file whose complexity cannot be measured.                                *)
Unparsed(file) == file.ast /\ ReceivesComplexity(file.role) /\ ~file.parses

Withholds(config, file, lenient) ==
    \/ Unclassified(config, file, lenient)
    \/ /\ lenient \/ Severity(config, file.role) = "Error"
       /\ ~file.readable \/ Unparsed(file)

(* The findings of a file that block.                                         *)
Found(config, file) ==
    {f \in ToSet(file.findings) :
        /\ file.readable /\ f.engine \in EnginesOf(config, file)
        /\ f.engine = "Complexity" => file.parses
        /\ FindingSeverity(config, file.role, f) = "Error"}

(* What classification adds to a draft.                                       *)
LEMMA DraftClassified ==
  ASSUME NEW F, NEW r \in Drafts(F), NEW config, NEW file
  PROVE  LET next == RecordClassificationGap(r, config, file)
         IN  /\ Adds(F, r, next) /\ next.findings = r.findings
             /\ next.orch # {} <=> r.orch # {} \/ Unclassified(config, file, FALSE)
             /\ Unclassified(config, file, TRUE) => next.obs["Complexity"] = "Incomplete"
<1>. DEFINE next == RecordClassificationGap(r, config, file)
<1>0. "Complexity" \in MissedBy("unsupported-source") /\ "Complexity" \in MissedBy("classify-source")
  BY DEF EvidenceEngine, StaticEngines, MissedBy
<1>1. CASE file.retired /\ file.role \in {"Source", "Test", "Migration", "Unknown"}
  <2>1. next = RecordEvidenceFailure(r, TRUE, "unsupported-source")
    BY <1>1 DEF RecordClassificationGap
  <2>2. Unclassified(config, file, FALSE)
    BY <1>1 DEF Unclassified
  <2>. HIDE DEF next
  <2>3. /\ Adds(F, r, next) /\ next.findings = r.findings /\ next.orch # {}
        /\ next.obs["Complexity"] = "Incomplete"
    BY <1>0, <2>1, DraftRecord DEF StaticSteps
  <2>. QED  BY <2>2, <2>3 DEF next
<1>2. CASE ~(file.retired /\ file.role \in {"Source", "Test", "Migration", "Unknown"})
           /\ file.role = "Unknown" /\ config.enforceClassified
  <2>1. next = RecordEvidenceFailure(r, TRUE, "classify-source")
    BY <1>2 DEF RecordClassificationGap
  <2>2. Unclassified(config, file, FALSE)
    BY <1>2 DEF Unclassified
  <2>. HIDE DEF next
  <2>3. /\ Adds(F, r, next) /\ next.findings = r.findings /\ next.orch # {}
        /\ next.obs["Complexity"] = "Incomplete"
    BY <1>0, <2>1, DraftRecord DEF StaticSteps
  <2>. QED  BY <2>2, <2>3 DEF next
<1>3. CASE /\ ~(file.retired /\ file.role \in {"Source", "Test", "Migration", "Unknown"})
           /\ ~(file.role = "Unknown" /\ config.enforceClassified)
  <2>1. CASE file.ast \/ file.role \notin {"Source", "Migration"} \/ (file.role = "Source" /\ file.inventory)
    <3>1. next = r
      BY <1>3, <2>1 DEF RecordClassificationGap
    <3>2. ~Unclassified(config, file, FALSE) /\ ~Unclassified(config, file, TRUE)
      BY <1>3, <2>1 DEF Unclassified
    <3>. QED  BY <3>1, <3>2 DEF Adds
  <2>2. CASE ~(file.ast \/ file.role \notin {"Source", "Migration"} \/ (file.role = "Source" /\ file.inventory))
    <3>1. next = RecordRoleEvidenceFailure(r, config, file, "unsupported-source")
      BY <1>3, <2>2 DEF RecordClassificationGap
    <3>2. CASE file.role = "Migration" /\ file.inventory /\ Severity(config, file.role) = "Ignore"
      <4>1. next = r
        BY <3>1, <3>2 DEF RecordRoleEvidenceFailure
      <4>2. ~Unclassified(config, file, FALSE) /\ ~Unclassified(config, file, TRUE)
        BY <1>3, <3>2 DEF Unclassified
      <4>. QED  BY <4>1, <4>2 DEF Adds
    <3>3. CASE ~(file.role = "Migration" /\ file.inventory /\ Severity(config, file.role) = "Ignore")
      <4>1. (Unclassified(config, file, FALSE) <=> Severity(config, file.role) = "Error")
        BY <1>3, <2>2, <3>3 DEF Unclassified
      <4>. HIDE DEF next
      <4>2. /\ Adds(F, r, next) /\ next.findings = r.findings
            /\ next.orch # {} <=> r.orch # {} \/ Severity(config, file.role) = "Error"
            /\ next.obs["Complexity"] = "Incomplete"
        BY <1>0, <3>1, <3>3, DraftRole DEF StaticSteps
      <4>. QED  BY <4>1, <4>2 DEF next
    <3>. QED  BY <3>2, <3>3
  <2>. QED  BY <2>1, <2>2
<1>. QED  BY <1>1, <1>2, <1>3

(* What merging the analysis of a file adds to a draft.                       *)
LEMMA DraftMerged ==
  ASSUME NEW F, NEW r \in Drafts(F), NEW config, NEW file,
         file.readable, file.findings \in Seq(F)
  PROVE  LET next == MergeFile(r, config, file)
         IN  /\ Adds(F, r, next)
             /\ next.orch # {} <=> r.orch # {} \/ (Unparsed(file) /\ Severity(config, file.role) = "Error")
             /\ Unparsed(file) => next.obs["Complexity"] = "Incomplete"
             /\ ToSet(next.findings) = ToSet(r.findings) \cup Found(config, file)
<1>. DEFINE ran == EnginesOf(config, file)
            counted == {f \in ToSet(file.findings) :
                           f.engine \in ran /\ (f.engine = "Complexity" => file.parses)}
            seen == ObserveAll(r, ran, "Completed")
            some == Among(file.findings, counted)
            merged == ApplyFindings(seen, config, file.role, some)
            next == MergeFile(r, config, file)
<1>1. Adds(F, r, seen) /\ seen.findings = r.findings /\ seen.orch = r.orch
  BY DraftObserveAll
<1>2. some \in Seq(F) /\ ToSet(some) = counted
  <2>. HIDE DEF counted
  <2>1. some \in Seq(F) /\ ToSet(some) = ToSet(file.findings) \cap counted
    BY AmongSelects
  <2>. QED  BY <2>1 DEF counted
<1>3. seen \in Drafts(F)
  BY <1>1 DEF Adds
<1>. DEFINE bad == {f \in ToSet(some) : FindingSeverity(config, file.role, f) = "Error"}
<1>4. /\ Adds(F, seen, merged) /\ merged.orch = seen.orch
      /\ ToSet(merged.findings) = ToSet(seen.findings) \cup bad
  <2>. HIDE DEF seen, some
  <2>. QED  BY <1>2, <1>3, DraftFindings
<1>5. "Complexity" \in ran <=> file.ast /\ ReceivesComplexity(file.role)
  BY DEF EnginesOf, StaticEngines
<1>6. next = IF Unparsed(file) THEN RecordRoleEvidenceFailure(merged, config, file, "parse-source")
             ELSE merged
  <2>1. next = IF "Complexity" \in ran /\ ~file.parses
               THEN RecordRoleEvidenceFailure(merged, config, file, "parse-source") ELSE merged
    BY DEF MergeFile
  <2>. HIDE DEF next, merged, ran
  <2>. QED  BY <1>5, <2>1 DEF Unparsed
<1>. HIDE DEF merged, seen, some, next
<1>7. bad = Found(config, file)
  BY <1>2 DEF Found
<1>. HIDE DEF bad
<1>8. Adds(F, r, merged) /\ merged \in Drafts(F) /\ merged.orch = r.orch
  <2>1. Adds(F, r, merged)
    BY <1>1, <1>4, AddsCompose
  <2>. QED  BY <1>1, <1>4, <2>1 DEF Adds
<1>9. ToSet(merged.findings) = ToSet(r.findings) \cup Found(config, file)
  BY <1>1, <1>4, <1>7
<1>10. CASE Unparsed(file)
  <2>1. "Complexity" \in MissedBy("parse-source")
    BY DEF EvidenceEngine, MissedBy
  <2>2. next = RecordRoleEvidenceFailure(merged, config, file, "parse-source")
    BY <1>6, <1>10
  <2>3. /\ Adds(F, merged, next) /\ next.findings = merged.findings
        /\ next.orch # {} <=> merged.orch # {} \/ Severity(config, file.role) = "Error"
        /\ next.obs["Complexity"] = "Incomplete"
    BY <1>8, <2>1, <2>2, DraftRole DEF StaticSteps
  <2>4. Adds(F, r, next)
    BY <1>8, <2>3, AddsCompose
  <2>. QED  BY <1>8, <1>9, <1>10, <2>3, <2>4 DEF next
<1>11. CASE ~Unparsed(file)
  BY <1>6, <1>8, <1>9, <1>11 DEF next
<1>. QED  BY <1>10, <1>11

(* One analysed file: what it withholds and what was found in it.             *)
Analysis(F, r, config, file, next) ==
    /\ Adds(F, r, next)
    /\ next.orch # {} <=> r.orch # {} \/ Withholds(config, file, FALSE)
    /\ Withholds(config, file, TRUE) => next.obs["Complexity"] = "Incomplete"
    /\ ToSet(next.findings) = ToSet(r.findings) \cup Found(config, file)

(* What one file adds to a draft.                                             *)
LEMMA DraftAnalyzed ==
  ASSUME NEW F, NEW r \in Drafts(F), NEW config, NEW file, file.findings \in Seq(F)
  PROVE  Analysis(F, r, config, file, AnalyzeFile(r, config, file))
<1>. DEFINE classified == RecordClassificationGap(r, config, file)
            next == AnalyzeFile(r, config, file)
<1>1. /\ Adds(F, r, classified) /\ classified.findings = r.findings
      /\ classified.orch # {} <=> r.orch # {} \/ Unclassified(config, file, FALSE)
      /\ Unclassified(config, file, TRUE) => classified.obs["Complexity"] = "Incomplete"
  BY DraftClassified
<1>2. classified \in Drafts(F)
  BY <1>1 DEF Adds
<1>3. "Complexity" \in Engines
  BY DEF Engines, StaticEngines
<1>4. CASE file.readable
  <2>1. next = MergeFile(classified, config, file)
    BY <1>4 DEF AnalyzeFile
  <2>. HIDE DEF classified, next
  <2>2. /\ Adds(F, classified, next)
        /\ next.orch # {} <=>
              classified.orch # {} \/ (Unparsed(file) /\ Severity(config, file.role) = "Error")
        /\ Unparsed(file) => next.obs["Complexity"] = "Incomplete"
        /\ ToSet(next.findings) = ToSet(classified.findings) \cup Found(config, file)
    BY <1>2, <1>4, <2>1, DraftMerged
  <2>3. Adds(F, r, next)
    BY <1>1, <2>2, AddsCompose
  <2>4. /\ Withholds(config, file, FALSE) <=>
              Unclassified(config, file, FALSE) \/ (Unparsed(file) /\ Severity(config, file.role) = "Error")
        /\ Withholds(config, file, TRUE) => Unclassified(config, file, TRUE) \/ Unparsed(file)
    BY <1>4 DEF Withholds
  <2>5. Unclassified(config, file, TRUE) => next.obs["Complexity"] = "Incomplete"
    BY <1>1, <1>3, <2>2 DEF Adds
  <2>. QED  BY <1>1, <2>2, <2>3, <2>4, <2>5 DEF next, Analysis
<1>5. CASE ~file.readable
  <2>1. next = RecordRoleEvidenceFailure(classified, config, file, "read-source")
    BY <1>5 DEF AnalyzeFile
  <2>. HIDE DEF classified, next
  <2>2. "Complexity" \in MissedBy("read-source")
    BY DEF MissedBy, StaticEngines
  <2>3. /\ Adds(F, classified, next) /\ next.findings = classified.findings
        /\ next.orch # {} <=> classified.orch # {} \/ Severity(config, file.role) = "Error"
        /\ next.obs["Complexity"] = "Incomplete"
    BY <1>2, <2>1, <2>2, DraftRole DEF StaticSteps
  <2>4. Adds(F, r, next)
    BY <1>1, <2>3, AddsCompose
  <2>5. Withholds(config, file, FALSE) <=>
           Unclassified(config, file, FALSE) \/ Severity(config, file.role) = "Error"
    BY <1>5 DEF Withholds
  <2>6. Found(config, file) = {}
    BY <1>5 DEF Found
  <2>. QED  BY <1>1, <2>3, <2>4, <2>5, <2>6 DEF next, Analysis
<1>. QED  BY <1>4, <1>5

(* All selected files.                                                        *)
FilesAnalysis(F, config, snapshot, selected, all) ==
    LET chosen == {i \in DOMAIN snapshot : snapshot[i].path \in selected}
    IN  /\ all \in Drafts(F)
        /\ all.orch # {} <=> \E i \in chosen : Withholds(config, snapshot[i], FALSE)
        /\ (\E i \in chosen : Withholds(config, snapshot[i], TRUE)) => all.obs["Complexity"] = "Incomplete"
        /\ ToSet(all.findings) = UNION {Found(config, snapshot[i]) : i \in chosen}

(* All selected files leave a draft of what they hold and withhold.           *)
LEMMA FilesAnalyzed ==
  ASSUME NEW F, NEW config, NEW snapshot, IsSequence(snapshot), NEW selected,
         \A i \in DOMAIN snapshot : snapshot[i].findings \in Seq(F)
  PROVE  FilesAnalysis(F, config, snapshot, selected, AnalyzeFiles(config, snapshot, selected))
<1>. DEFINE n == Len(snapshot)
            chosen == {i \in DOMAIN snapshot : snapshot[i].path \in selected}
            State == Drafts(F)
            base == NewReport
            Taken(x, k) == IF snapshot[k].path \in selected THEN AnalyzeFile(x, config, snapshot[k]) ELSE x
            Step == [p \in State \X (1 .. n) |-> Taken(p[1], p[2])]
            Iterates(g) == g = [s \in SUBSET DOMAIN snapshot |->
                                  IF s = {} THEN base ELSE Taken(g[s \ {Max(s)}], Max(s))]
            it == CHOOSE g : Iterates(g)
            Analyzed(x, k) ==
              /\ x.orch # {} <=> \E i \in 1 .. k : i \in chosen /\ Withholds(config, snapshot[i], FALSE)
              /\ \A i \in 1 .. k : i \in chosen /\ Withholds(config, snapshot[i], TRUE)
                                      => x.obs["Complexity"] = "Incomplete"
              /\ ToSet(x.findings) = UNION {Found(config, snapshot[i]) : i \in 1 .. k \cap chosen}
            Good == [k \in 0 .. n |-> {x \in State : Analyzed(x, k)}]
<1>1. DOMAIN snapshot = 1 .. n /\ n \in Nat
  BY DEF IsSequence
<1>2. ASSUME NEW x \in State, NEW k \in 1 .. n
      PROVE  Taken(x, k) \in State /\ (x \in Good[k - 1] => Taken(x, k) \in Good[k])
  <2>1. snapshot[k].findings \in Seq(F) /\ k \in Int
    BY <1>1
  <2>2. 1 .. k = (1 .. k - 1) \cup {k}
    OBVIOUS
  <2>3. k - 1 \in 0 .. n /\ k \in 0 .. n
    BY <1>1
  <2>. DEFINE y == AnalyzeFile(x, config, snapshot[k])
  <2>4. /\ Adds(F, x, y)
        /\ y.orch # {} <=> x.orch # {} \/ Withholds(config, snapshot[k], FALSE)
        /\ Withholds(config, snapshot[k], TRUE) => y.obs["Complexity"] = "Incomplete"
        /\ ToSet(y.findings) = ToSet(x.findings) \cup Found(config, snapshot[k])
    <3>. HIDE DEF Good, Analyzed, chosen
    <3>1. x \in Drafts(F)
      OBVIOUS
    <3>2. Analysis(F, x, config, snapshot[k], y)
      BY <2>1, <3>1, DraftAnalyzed
    <3>. HIDE DEF y
    <3>. QED  BY <3>2 DEF Analysis
  <2>5. y \in State /\ (x.obs["Complexity"] = "Incomplete" => y.obs["Complexity"] = "Incomplete")
    BY <2>4 DEF Adds, Engines, StaticEngines
  <2>6. x \in Good[k - 1] <=> Analyzed(x, k - 1)
    BY <2>3
  <2>7. CASE k \in chosen
    <3>1. Taken(x, k) = y
      BY <2>7
    <3>. HIDE DEF y, chosen
    <3>2. ASSUME Analyzed(x, k - 1)
          PROVE  Analyzed(y, k)
      <4>1. y.orch # {} <=> \E i \in 1 .. k : i \in chosen /\ Withholds(config, snapshot[i], FALSE)
        BY <2>2, <2>4, <2>7, <3>2
      <4>2. \A i \in 1 .. k : i \in chosen /\ Withholds(config, snapshot[i], TRUE)
                                 => y.obs["Complexity"] = "Incomplete"
        BY <2>2, <2>4, <2>5, <3>2
      <4>3. 1 .. k \cap chosen = ((1 .. k - 1) \cap chosen) \cup {k}
        BY <2>2, <2>7
      <4>4. UNION {Found(config, snapshot[i]) : i \in 1 .. k \cap chosen}
              = (UNION {Found(config, snapshot[i]) : i \in (1 .. k - 1) \cap chosen})
                   \cup Found(config, snapshot[k])
        BY <4>3
      <4>. QED  BY <2>4, <3>2, <4>1, <4>2, <4>4
    <3>. HIDE DEF Analyzed
    <3>3. y \in Good[k] <=> Analyzed(y, k)
      BY <2>3, <2>5
    <3>. HIDE DEF Good, Taken
    <3>. QED  BY <2>5, <2>6, <3>1, <3>2, <3>3
  <2>8. CASE k \notin chosen
    <3>1. Taken(x, k) = x
      BY <1>1, <2>8
    <3>. HIDE DEF y, chosen
    <3>2. 1 .. k \cap chosen = (1 .. k - 1) \cap chosen
      BY <2>2, <2>8
    <3>3. ASSUME Analyzed(x, k - 1)
          PROVE  Analyzed(x, k)
      <4>1. x.orch # {} <=> \E i \in 1 .. k : i \in chosen /\ Withholds(config, snapshot[i], FALSE)
        BY <2>2, <2>8, <3>3
      <4>2. \A i \in 1 .. k : i \in chosen /\ Withholds(config, snapshot[i], TRUE)
                                 => x.obs["Complexity"] = "Incomplete"
        BY <2>2, <2>8, <3>3
      <4>. QED  BY <3>2, <3>3, <4>1, <4>2
    <3>. HIDE DEF Analyzed
    <3>4. x \in Good[k] <=> Analyzed(x, k)
      BY <2>3
    <3>. HIDE DEF Good, Taken
    <3>. QED  BY <2>6, <3>1, <3>3, <3>4
  <2>. QED  BY <2>7, <2>8
<1>3. base \in State /\ base \in Good[0]
  <2>1. base \in State /\ base.orch = {} /\ ToSet(base.findings) = {}
    BY NewDraft
  <2>2. 1 .. 0 = {}
    OBVIOUS
  <2>. HIDE DEF base, chosen
  <2>3. UNION {Found(config, snapshot[i]) : i \in 1 .. 0 \cap chosen} = {}
    BY <2>2
  <2>4. Analyzed(base, 0)
    BY <2>1, <2>2, <2>3
  <2>. HIDE DEF Analyzed
  <2>. QED  BY <1>1, <2>1, <2>4
<1>4. AnalyzeFiles(config, snapshot, selected) = it[DOMAIN snapshot]
  BY Zenon DEF AnalyzeFiles, FoldLeft, MapThenFoldSet
<1>. HIDE DEF State, Taken, base
<1>5. Step \in [State \X (1 .. n) -> State]
  BY <1>2
<1>6. PICK g \in [SUBSET (1 .. n) -> State] : FoldFits(g, n, base, Step)
  <2>. HIDE DEF Step, n
  <2>. QED  BY <1>1, <1>3, <1>5, FoldExists
<1>7. Iterates(it)
  <2>1. g[{}] = base
    BY <1>6 DEF FoldFits
  <2>2. ASSUME NEW s \in SUBSET (1 .. n), s # {}
        PROVE  g[s] = Taken(g[s \ {Max(s)}], Max(s))
    <3>1. Max(s) \in 1 .. n
      BY <1>1, <2>2, Greatest
    <3>2. g[s \ {Max(s)}] \in State
      OBVIOUS
    <3>3. g[s] = Step[<<g[s \ {Max(s)}], Max(s)>>]
      BY <1>6, <2>2 DEF FoldFits
    <3>. QED  BY <3>1, <3>2, <3>3
  <2>3. Iterates(g)
    BY <1>1, <2>1, <2>2
  <2>. HIDE DEF Iterates
  <2>. QED  BY <2>3
<1>8. /\ it[{}] = base
      /\ \A s \in SUBSET (1 .. n) : s # {} /\ it[s \ {Max(s)}] \in State =>
            it[s] = Step[<<it[s \ {Max(s)}], Max(s)>>]
  <2>. HIDE DEF it
  <2>1. it[{}] = base
    BY <1>7
  <2>2. ASSUME NEW s \in SUBSET (1 .. n), s # {}, it[s \ {Max(s)}] \in State
        PROVE  it[s] = Step[<<it[s \ {Max(s)}], Max(s)>>]
    <3>1. Max(s) \in 1 .. n
      BY <1>1, <2>2, Greatest
    <3>2. it[s] = Taken(it[s \ {Max(s)}], Max(s))
      BY <1>1, <1>7, <2>2
    <3>3. <<it[s \ {Max(s)}], Max(s)>> \in State \X (1 .. n)
      BY <2>2, <3>1
    <3>. QED  BY <3>2, <3>3
  <2>. QED  BY <2>1, <2>2
<1>9. it[1 .. n] \in State /\ it[1 .. n] \in Good[n]
  <2>1. ASSUME NEW k \in 1 .. n, NEW x \in State
        PROVE  x \in Good[k - 1] => Step[<<x, k>>] \in Good[k]
    <3>1. Step[<<x, k>>] = Taken(x, k)
      OBVIOUS
    <3>. HIDE DEF Step, Good, n
    <3>. QED  BY <1>2, <3>1
  <2>. HIDE DEF it, Good, Step, n
  <2>2. FoldRuns(it, n, State, base, Step, Good)
    BY <1>1, <1>3, <1>5, <1>8, <2>1 DEF FoldRuns
  <2>. QED  BY <2>2, FoldReaches

<1>. HIDE DEF it
<1>10. it[1 .. n] \in Drafts(F) /\ Analyzed(it[1 .. n], n)
  <2>. HIDE DEF Analyzed
  <2>. QED  BY <1>1, <1>9 DEF State
<1>11. 1 .. n \cap chosen = chosen
  BY <1>1
<1>. HIDE DEF chosen, n
<1>. QED  BY <1>1, <1>4, <1>10, <1>11 DEF chosen, FilesAnalysis

-----------------------------------------------------------------------------
(* The clone group of one role.                                               *)

(* The members of the clone group of a role, as indices.                      *)
Members(role, snapshot, selected, diff) ==
    {i \in DOMAIN snapshot : snapshot[i].role = role /\ (diff \/ snapshot[i].path \in selected)}

(* What the members of a group withhold: CloneGap, for any configuration.     *)
GroupGap(config, role, members, snapshot, index, lenient) ==
    \E i \in members : IF snapshot[i].readable THEN ~index.complete
                       ELSE lenient \/ Severity(config, role) = "Error"

(* A compared clone group: what it withholds and what was found.              *)
Comparison(F, r, config, role, members, snapshot, index, next) ==
    /\ Adds(F, r, next)
    /\ next.orch # {} <=> r.orch # {} \/ GroupGap(config, role, members, snapshot, index, FALSE)
    /\ GroupGap(config, role, members, snapshot, index, TRUE) => next.obs["Clones"] = "Incomplete"
    /\ ToSet(r.findings) \subseteq ToSet(next.findings)
    /\ ToSet(next.findings) \subseteq ToSet(r.findings) \cup ToSet(index.found)

(* Comparing the clones of one role.                                          *)
LEMMA DraftCloned ==
  ASSUME NEW F, NEW r \in Drafts(F), NEW config, NEW role, NEW snapshot, NEW selected, NEW diff,
         NEW index, index.found \in Seq(F)
  PROVE  Comparison(F, r, config, role, Members(role, snapshot, selected, diff), snapshot, index,
                    CloneGroup(r, config, role, snapshot, selected, diff, index))
<1>. DEFINE members == Members(role, snapshot, selected, diff)
            unread == {i \in members : ~snapshot[i].readable}
            file == snapshot[CHOOSE i \in unread : TRUE]
            withheld == IF unread = {} THEN r
                      ELSE RecordRoleEvidenceFailure(r, config, file, "read-clone-index")
            paths == {snapshot[i].path : i \in members \ unread}
            touching == {c \in ToSet(index.found) :
                           ToSet(c.files) \subseteq paths /\ (diff => ToSet(c.files) \cap selected # {})}
            seen == Observe(withheld, "Clones", "Completed")
            some == Among(index.found, touching)
            found == ApplyFindings(seen, config, role, some)
            broken == RecordEvidenceFailure(seen, TRUE, "clone-index")
            next == CloneGroup(r, config, role, snapshot, selected, diff, index)
<1>1. next = IF members = unread THEN withheld ELSE IF index.complete THEN found ELSE broken
  BY DEF CloneGroup, Members
<1>2. "Clones" \in Engines /\ "Clones" \in MissedBy("read-clone-index") /\ "Clones" \in MissedBy("clone-index")
  BY DEF EvidenceEngine, Engines, StaticEngines, MissedBy
<1>3. some \in Seq(F) /\ ToSet(some) \subseteq ToSet(index.found)
  <2>. HIDE DEF touching
  <2>1. some \in Seq(F) /\ ToSet(some) = ToSet(index.found) \cap touching
    BY AmongSelects
  <2>. QED  BY <2>1
<1>. HIDE DEF next, some
<1>4. /\ Adds(F, r, withheld) /\ withheld.findings = r.findings
      /\ withheld.orch # {} <=> r.orch # {} \/ (unread # {} /\ Severity(config, role) = "Error")
      /\ unread # {} => withheld.obs["Clones"] = "Incomplete"
  <2>1. CASE unread = {}
    <3>1. withheld = r
      BY <2>1
    <3>. HIDE DEF withheld
    <3>. QED  BY <2>1, <3>1 DEF Adds
  <2>2. CASE unread # {}
    <3>1. file.role = role
      BY <2>2 DEF Members
    <3>2. withheld = RecordRoleEvidenceFailure(r, config, file, "read-clone-index")
      BY <2>2
    <3>. HIDE DEF withheld, file, unread
    <3>3. /\ Adds(F, r, withheld) /\ withheld.findings = r.findings
          /\ withheld.orch # {} <=> r.orch # {} \/ Severity(config, file.role) = "Error"
          /\ withheld.obs["Clones"] = "Incomplete"
      BY <1>2, <3>2, DraftRole DEF StaticSteps
    <3>. QED  BY <2>2, <3>1, <3>3
  <2>. QED  BY <2>1, <2>2
<1>5. withheld \in Drafts(F)
  BY <1>4 DEF Adds
<1>. HIDE DEF withheld
<1>6. Adds(F, withheld, seen) /\ seen.findings = withheld.findings /\ seen.orch = withheld.orch
  BY <1>2, <1>5, DraftObserve
<1>7. seen \in Drafts(F)
  BY <1>6 DEF Adds
<1>. HIDE DEF seen
<1>8. Adds(F, r, seen)
  BY <1>4, <1>6, AddsCompose
<1>9. unread # {} => seen.obs["Clones"] = "Incomplete"
  BY <1>2, <1>4, <1>6 DEF Adds
<1>10. members # unread <=> \E i \in members : snapshot[i].readable
  OBVIOUS
<1>11. unread # {} <=> \E i \in members : ~snapshot[i].readable
  OBVIOUS
<1>. HIDE DEF members, unread
<1>12. CASE members = unread
  <2>1. next = withheld
    BY <1>1, <1>12
  <2>2. GroupGap(config, role, members, snapshot, index, FALSE) <=>
           unread # {} /\ Severity(config, role) = "Error"
    BY <1>10, <1>11, <1>12 DEF GroupGap
  <2>3. GroupGap(config, role, members, snapshot, index, TRUE) => unread # {}
    BY <1>10, <1>11, <1>12 DEF GroupGap
  <2>4. Comparison(F, r, config, role, members, snapshot, index, next)
    BY <1>4, <2>1, <2>2, <2>3 DEF Comparison
  <2>. QED  BY <2>4 DEF next, members
<1>13. CASE members # unread /\ index.complete
  <2>1. next = found
    BY <1>1, <1>13
  <2>2. GroupGap(config, role, members, snapshot, index, FALSE) <=>
           unread # {} /\ Severity(config, role) = "Error"
    BY <1>11, <1>13 DEF GroupGap
  <2>3. GroupGap(config, role, members, snapshot, index, TRUE) => unread # {}
    BY <1>11, <1>13 DEF GroupGap
  <2>. DEFINE bad == {f \in ToSet(some) : FindingSeverity(config, role, f) = "Error"}
  <2>4. Adds(F, seen, found) /\ found.orch = seen.orch /\ ToSet(found.findings) = ToSet(seen.findings) \cup bad
    BY <1>3, <1>7, DraftFindings
  <2>5. bad \subseteq ToSet(index.found)
    BY <1>3
  <2>. HIDE DEF found, bad
  <2>6. Adds(F, r, found)
    BY <1>8, <2>4, AddsCompose
  <2>7. unread # {} => found.obs["Clones"] = "Incomplete"
    BY <1>2, <1>9, <2>4 DEF Adds
  <2>8. Comparison(F, r, config, role, members, snapshot, index, next)
    BY <1>4, <1>6, <2>1, <2>2, <2>3, <2>4, <2>5, <2>6, <2>7 DEF Comparison
  <2>. QED  BY <2>8 DEF next, members
<1>14. CASE members # unread /\ ~index.complete
  <2>1. next = broken
    BY <1>1, <1>14
  <2>2. GroupGap(config, role, members, snapshot, index, FALSE)
    BY <1>10, <1>14 DEF GroupGap
  <2>3. /\ Adds(F, seen, broken) /\ broken.findings = seen.findings /\ broken.orch # {}
        /\ broken.obs["Clones"] = "Incomplete"
    BY <1>2, <1>7, DraftRecord DEF StaticSteps
  <2>. HIDE DEF broken
  <2>4. Adds(F, r, broken)
    BY <1>8, <2>3, AddsCompose
  <2>5. Comparison(F, r, config, role, members, snapshot, index, next)
    BY <1>4, <1>6, <2>1, <2>2, <2>3, <2>4 DEF Comparison
  <2>. QED  BY <2>5 DEF next, members
<1>. QED  BY <1>12, <1>13, <1>14

(* The clone groups of all roles.                                             *)
Groups(config) == {role \in ToSet(PolicyRoles) : CloneRole(config, role)}

(* Comparing the clones of every role that asks for it.                       *)
LEMMA ClonesCompared ==
  ASSUME NEW F, NEW r \in Drafts(F), NEW config, NEW snapshot, NEW selected, NEW diff,
         NEW index, index.found \in Seq(F)
  PROVE  LET last == RunCloneAnalysis(r, config, snapshot, selected, diff, index)
             Gap(lenient) == \E role \in Groups(config) :
                GroupGap(config, role, Members(role, snapshot, selected, diff), snapshot, index, lenient)
         IN  /\ Adds(F, r, last)
             /\ last.orch # {} <=> r.orch # {} \/ Gap(FALSE)
             /\ Gap(TRUE) => last.obs["Clones"] = "Incomplete"
             /\ ToSet(r.findings) \subseteq ToSet(last.findings)
             /\ ToSet(last.findings) \subseteq ToSet(r.findings) \cup ToSet(index.found)
<1>. DEFINE n == Len(PolicyRoles)
            member == [k \in 1 .. n |-> Members(PolicyRoles[k], snapshot, selected, diff)]
            State == Drafts(F)
            base == r
            Taken(x, k) == IF CloneRole(config, PolicyRoles[k])
                          THEN CloneGroup(x, config, PolicyRoles[k], snapshot, selected, diff, index)
                          ELSE x
            Step == [p \in State \X (1 .. n) |-> Taken(p[1], p[2])]
            Iterates(g) == g = [s \in SUBSET DOMAIN PolicyRoles |->
                                  IF s = {} THEN base ELSE Taken(g[s \ {Max(s)}], Max(s))]
            it == CHOOSE g : Iterates(g)
            blocks == {k \in 1 .. n : /\ CloneRole(config, PolicyRoles[k])
                                      /\ GroupGap(config, PolicyRoles[k], member[k], snapshot, index, FALSE)}
            lacks == {k \in 1 .. n : /\ CloneRole(config, PolicyRoles[k])
                                     /\ GroupGap(config, PolicyRoles[k], member[k], snapshot, index, TRUE)}
            Compared(x, k) ==
              /\ Adds(F, r, x)
              /\ x.orch # {} <=> r.orch # {} \/ \E i \in 1 .. k : i \in blocks
              /\ \A i \in 1 .. k : i \in lacks => x.obs["Clones"] = "Incomplete"
              /\ ToSet(r.findings) \subseteq ToSet(x.findings)
              /\ ToSet(x.findings) \subseteq ToSet(r.findings) \cup ToSet(index.found)
            Good == [k \in 0 .. n |-> {x \in State : Compared(x, k)}]
<1>1. DOMAIN PolicyRoles = 1 .. n /\ n \in Nat
  BY DEF PolicyRoles
<1>2. ASSUME NEW x \in State, NEW k \in 1 .. n
      PROVE  Taken(x, k) \in State /\ (x \in Good[k - 1] => Taken(x, k) \in Good[k])
  <2>1. 1 .. k = (1 .. k - 1) \cup {k}
    OBVIOUS
  <2>2. k - 1 \in 0 .. n /\ k \in 0 .. n
    BY <1>1
  <2>3. x \in Good[k - 1] <=> Compared(x, k - 1)
    BY <2>2
  <2>4. CASE CloneRole(config, PolicyRoles[k])
    <3>. DEFINE y == CloneGroup(x, config, PolicyRoles[k], snapshot, selected, diff, index)
    <3>1. Taken(x, k) = y
      BY <2>4
    <3>2. Comparison(F, x, config, PolicyRoles[k], Members(PolicyRoles[k], snapshot, selected, diff),
                     snapshot, index, y)
      <4>. HIDE DEF Good, Compared
      <4>. QED  BY DraftCloned
    <3>3. member[k] = Members(PolicyRoles[k], snapshot, selected, diff)
      OBVIOUS
    <3>. HIDE DEF y, member
    <3>4. /\ Adds(F, x, y)
          /\ y.orch # {} <=> x.orch # {} \/ k \in blocks
          /\ k \in lacks => y.obs["Clones"] = "Incomplete"
          /\ ToSet(x.findings) \subseteq ToSet(y.findings)
          /\ ToSet(y.findings) \subseteq ToSet(x.findings) \cup ToSet(index.found)
      BY <2>4, <3>2, <3>3 DEF Comparison
    <3>. HIDE DEF blocks, lacks
    <3>5. y \in State /\ (x.obs["Clones"] = "Incomplete" => y.obs["Clones"] = "Incomplete")
      BY <3>4 DEF Adds, Engines, StaticEngines
    <3>6. ASSUME Compared(x, k - 1)
          PROVE  Compared(y, k)
      <4>1. Adds(F, r, y)
        BY <3>4, <3>6, AddsCompose
      <4>2. y.orch # {} <=> r.orch # {} \/ \E i \in 1 .. k : i \in blocks
        BY <2>1, <3>4, <3>6
      <4>3. \A i \in 1 .. k : i \in lacks => y.obs["Clones"] = "Incomplete"
        BY <2>1, <3>4, <3>5, <3>6
      <4>. QED  BY <3>4, <3>6, <4>1, <4>2, <4>3
    <3>. HIDE DEF Compared
    <3>7. y \in Good[k] <=> Compared(y, k)
      BY <2>2, <3>5
    <3>. HIDE DEF Good, Taken
    <3>. QED  BY <2>3, <3>1, <3>5, <3>6, <3>7
  <2>5. CASE ~CloneRole(config, PolicyRoles[k])
    <3>1. Taken(x, k) = x
      BY <2>5
    <3>2. k \notin blocks /\ k \notin lacks
      BY <2>5
    <3>. HIDE DEF blocks, lacks
    <3>3. ASSUME Compared(x, k - 1)
          PROVE  Compared(x, k)
      <4>1. x.orch # {} <=> r.orch # {} \/ \E i \in 1 .. k : i \in blocks
        BY <2>1, <3>2, <3>3
      <4>2. \A i \in 1 .. k : i \in lacks => x.obs["Clones"] = "Incomplete"
        BY <2>1, <3>2, <3>3
      <4>. QED  BY <3>3, <4>1, <4>2
    <3>. HIDE DEF Compared
    <3>4. x \in Good[k] <=> Compared(x, k)
      BY <2>2
    <3>. HIDE DEF Good, Taken
    <3>. QED  BY <2>3, <3>1, <3>3, <3>4
  <2>. QED  BY <2>4, <2>5
<1>. HIDE DEF blocks, lacks
<1>3. base \in State /\ base \in Good[0]
  <2>1. 1 .. 0 = {}
    OBVIOUS
  <2>2. Compared(base, 0)
    BY <2>1 DEF Adds
  <2>. HIDE DEF Compared
  <2>. QED  BY <1>1, <2>2
<1>4. RunCloneAnalysis(r, config, snapshot, selected, diff, index) = it[DOMAIN PolicyRoles]
  BY Zenon DEF RunCloneAnalysis, FoldLeft, MapThenFoldSet
<1>. HIDE DEF State, Taken, base
<1>5. Step \in [State \X (1 .. n) -> State]
  BY <1>2
<1>6. PICK g \in [SUBSET (1 .. n) -> State] : FoldFits(g, n, base, Step)
  <2>. HIDE DEF Step, n
  <2>. QED  BY <1>1, <1>3, <1>5, FoldExists
<1>7. Iterates(it)
  <2>1. g[{}] = base
    BY <1>6 DEF FoldFits
  <2>2. ASSUME NEW s \in SUBSET (1 .. n), s # {}
        PROVE  g[s] = Taken(g[s \ {Max(s)}], Max(s))
    <3>1. Max(s) \in 1 .. n
      BY <1>1, <2>2, Greatest
    <3>2. g[s \ {Max(s)}] \in State
      OBVIOUS
    <3>3. g[s] = Step[<<g[s \ {Max(s)}], Max(s)>>]
      BY <1>6, <2>2 DEF FoldFits
    <3>. QED  BY <3>1, <3>2, <3>3
  <2>3. Iterates(g)
    BY <1>1, <2>1, <2>2
  <2>. HIDE DEF Iterates
  <2>. QED  BY <2>3
<1>8. /\ it[{}] = base
      /\ \A s \in SUBSET (1 .. n) : s # {} /\ it[s \ {Max(s)}] \in State =>
            it[s] = Step[<<it[s \ {Max(s)}], Max(s)>>]
  <2>. HIDE DEF it
  <2>1. it[{}] = base
    BY <1>7
  <2>2. ASSUME NEW s \in SUBSET (1 .. n), s # {}, it[s \ {Max(s)}] \in State
        PROVE  it[s] = Step[<<it[s \ {Max(s)}], Max(s)>>]
    <3>1. Max(s) \in 1 .. n
      BY <1>1, <2>2, Greatest
    <3>2. it[s] = Taken(it[s \ {Max(s)}], Max(s))
      BY <1>1, <1>7, <2>2
    <3>3. <<it[s \ {Max(s)}], Max(s)>> \in State \X (1 .. n)
      BY <2>2, <3>1
    <3>. QED  BY <3>2, <3>3
  <2>. QED  BY <2>1, <2>2
<1>9. it[1 .. n] \in State /\ it[1 .. n] \in Good[n]
  <2>1. ASSUME NEW k \in 1 .. n, NEW x \in State
        PROVE  x \in Good[k - 1] => Step[<<x, k>>] \in Good[k]
    <3>1. Step[<<x, k>>] = Taken(x, k)
      OBVIOUS
    <3>. HIDE DEF Step, Good, n
    <3>. QED  BY <1>2, <3>1
  <2>. HIDE DEF it, Good, Step, n
  <2>2. FoldRuns(it, n, State, base, Step, Good)
    BY <1>1, <1>3, <1>5, <1>8, <2>1 DEF FoldRuns
  <2>. QED  BY <2>2, FoldReaches

<1>. HIDE DEF it, n
<1>10. Compared(it[1 .. n], n)
  <2>. HIDE DEF Compared
  <2>. QED  BY <1>1, <1>9
<1>11. /\ (\E i \in 1 .. n : i \in blocks) <=>
             \E role \in Groups(config) :
                GroupGap(config, role, Members(role, snapshot, selected, diff), snapshot, index, FALSE)
       /\ (\E i \in 1 .. n : i \in lacks) <=>
             \E role \in Groups(config) :
                GroupGap(config, role, Members(role, snapshot, selected, diff), snapshot, index, TRUE)
  BY <1>1 DEF blocks, lacks, Groups, ToSet
<1>. QED  BY <1>1, <1>4, <1>10, <1>11

-----------------------------------------------------------------------------
(* The static report, and what it says of the files themselves.               *)

(* A report of files and clones: what was withheld and what was found.        *)
SnapshotAnalysis(F, config, snapshot, selected, diff, index, last) ==
    LET chosen == {i \in DOMAIN snapshot : snapshot[i].path \in selected}
        Gap(lenient) == \E role \in Groups(config) :
           GroupGap(config, role, Members(role, snapshot, selected, diff), snapshot, index, lenient)
        found == UNION {Found(config, snapshot[i]) : i \in chosen}
    IN  /\ last \in Drafts(F)
        /\ last.orch # {} <=> Gap(FALSE) \/ \E i \in chosen : Withholds(config, snapshot[i], FALSE)
        /\ (\E i \in chosen : Withholds(config, snapshot[i], TRUE)) => last.obs["Complexity"] = "Incomplete"
        /\ Gap(TRUE) => last.obs["Clones"] = "Incomplete"
        /\ found \subseteq ToSet(last.findings)
        /\ ToSet(last.findings) \subseteq found \cup ToSet(index.found)

(* The report of a snapshot.                                                  *)
LEMMA SnapshotReport ==
  ASSUME NEW F, NEW config, NEW snapshot, IsSequence(snapshot), NEW selected, NEW diff,
         NEW index, index.found \in Seq(F),
         \A i \in DOMAIN snapshot : snapshot[i].findings \in Seq(F)
  PROVE  SnapshotAnalysis(F, config, snapshot, selected, diff, index,
                          AnalyzeSnapshot(config, snapshot, selected, diff, index))
<1>. DEFINE all == AnalyzeFiles(config, snapshot, selected)
            last == AnalyzeSnapshot(config, snapshot, selected, diff, index)
            chosen == {i \in DOMAIN snapshot : snapshot[i].path \in selected}
            found == UNION {Found(config, snapshot[i]) : i \in chosen}
            blocks == \E role \in Groups(config) :
                GroupGap(config, role, Members(role, snapshot, selected, diff), snapshot, index, FALSE)
            lacks == \E role \in Groups(config) :
                GroupGap(config, role, Members(role, snapshot, selected, diff), snapshot, index, TRUE)
<1>1. /\ all \in Drafts(F)
      /\ all.orch # {} <=> \E i \in chosen : Withholds(config, snapshot[i], FALSE)
      /\ (\E i \in chosen : Withholds(config, snapshot[i], TRUE)) => all.obs["Complexity"] = "Incomplete"
      /\ ToSet(all.findings) = found
  <2>. HIDE DEF chosen, found
  <2>1. FilesAnalysis(F, config, snapshot, selected, all)
    BY FilesAnalyzed
  <2>. HIDE DEF all
  <2>. QED  BY <2>1 DEF FilesAnalysis, chosen, found
<1>2. last = RunCloneAnalysis(all, config, snapshot, selected, diff, index)
  BY DEF AnalyzeSnapshot
<1>. HIDE DEF all, last
<1>3. /\ Adds(F, all, last)
      /\ last.orch # {} <=> all.orch # {} \/ blocks
      /\ lacks => last.obs["Clones"] = "Incomplete"
      /\ ToSet(all.findings) \subseteq ToSet(last.findings)
      /\ ToSet(last.findings) \subseteq ToSet(all.findings) \cup ToSet(index.found)
  BY <1>1, <1>2, ClonesCompared
<1>4. last \in Drafts(F) /\ (all.obs["Complexity"] = "Incomplete" => last.obs["Complexity"] = "Incomplete")
  BY <1>3 DEF Adds, Engines, StaticEngines
<1>. HIDE DEF chosen, found, blocks, lacks
<1>. QED  BY <1>1, <1>3, <1>4 DEF last, chosen, found, blocks, lacks, SnapshotAnalysis

(* A sequence is one over any larger set.                                     *)
LEMMA Widened ==
  ASSUME NEW s, IsSequence(s), NEW F, ToSet(s) \subseteq F
  PROVE  s \in Seq(F)
<1>1. s \in Seq(ToSet(s))
  BY DEF IsSequence
<1>2. Len(s) \in Nat /\ s \in [1 .. Len(s) -> ToSet(s)]
  BY <1>1
<1>3. s \in [1 .. Len(s) -> F]
  BY <1>2
<1>. QED  BY <1>2, <1>3

(* The shape of the inputs of a case.                                         *)
LEMMA CaseScans ==
  ASSUME case \in Cases
  PROVE  /\ IsSequence(case.tree) /\ case.index.found \in Seq(Findings)
         /\ \A i \in DOMAIN case.tree : case.tree[i].findings \in Seq(Findings)
         /\ \A f \in ToSet(case.index.found) : f.engine = "Clones"
         /\ IsSequence(case.base.tree) /\ case.base.index.found \in Seq(Findings)
         /\ \A i \in DOMAIN case.base.tree : case.base.tree[i].findings \in Seq(Findings)
         /\ \A f \in Findings : f.actual \in Nat
<1>1. /\ IsScan(case.tree, case.index) /\ IsScan(case.base.tree, case.base.index)
  BY CasesAssumption
<1>2. /\ FindingsIn(case.tree, case.index) \subseteq Findings
      /\ FindingsIn(case.base.tree, case.base.index) \subseteq Findings
  BY DEF Findings
<1>3. /\ ToSet(case.index.found) \subseteq Findings /\ ToSet(case.base.index.found) \subseteq Findings
      /\ \A i \in DOMAIN case.tree : ToSet(case.tree[i].findings) \subseteq Findings
      /\ \A i \in DOMAIN case.base.tree : ToSet(case.base.tree[i].findings) \subseteq Findings
  <2>1. ASSUME NEW tree, NEW index, FindingsIn(tree, index) \subseteq Findings
        PROVE  /\ ToSet(index.found) \subseteq Findings
               /\ \A i \in DOMAIN tree : ToSet(tree[i].findings) \subseteq Findings
    BY <2>1 DEF FindingsIn
  <2>. QED  BY <1>2, <2>1
<1>4. case.index.found \in Seq(Findings) /\ case.base.index.found \in Seq(Findings)
  BY <1>1, <1>3, Widened DEF IsScan
<1>5. \A i \in DOMAIN case.tree : case.tree[i].findings \in Seq(Findings)
  BY <1>1, <1>3, Widened DEF IsScan
<1>6. \A i \in DOMAIN case.base.tree : case.base.tree[i].findings \in Seq(Findings)
  BY <1>1, <1>3, Widened DEF IsScan
<1>7. \A f \in Findings : f.actual \in Nat
  BY CasesAssumption DEF Findings, IsScan
<1>. QED  BY <1>1, <1>4, <1>5, <1>6, <1>7 DEF IsScan

(* The ghost of a file's gaps agrees with what the file withholds.            *)
LEMMA GapOfFile ==
  ASSUME NEW file
  PROVE  /\ FileGap(file, FALSE) # {} <=>
               file.path \in SelectedFiles(StaticDiff) /\ Withholds(Config, file, FALSE)
         /\ FileGap(file, TRUE) # {} <=>
               file.path \in SelectedFiles(StaticDiff) /\ Withholds(Config, file, TRUE)
  BY DEF FileGap, Withholds, Unclassified, Unparsed, Blocks, StaticEngines, ReceivesComplexity

(* The ghost of the clone gaps agrees with the groups of the roles, once a    *)
(* file is selected.                                                          *)
LEMMA GapOfClones ==
  ASSUME case \in Cases, SelectedFiles(StaticDiff) # {}
  PROVE  \A lenient \in BOOLEAN :
            (\E i \in DOMAIN case.tree : CloneGap(case.tree[i], lenient)) <=>
            \E role \in Groups(Config) :
               GroupGap(Config, role, Members(role, case.tree, SelectedFiles(StaticDiff), StaticDiff),
                        case.tree, case.index, lenient)
<1>1. ToSet(PolicyRoles) = {"Source", "Test", "Generated", "Fixture", "Migration"}
  BY DEF PolicyRoles, ToSet
<1>2. ASSUME NEW role, CloneRole(Config, role)  PROVE role \in Groups(Config)
  <2>1. DOMAIN Config.roles = ToSet(PolicyRoles)
    BY CasesAssumption DEF Config
  <2>2. role \in ToSet(PolicyRoles)
    BY <1>1, <1>2, <2>1 DEF CloneRole, Policy, Unset, ReceivesCloneAnalysis
  <2>. QED  BY <1>2, <2>2 DEF Groups
<1>3. \A role \in Groups(Config) : CloneRole(Config, role)
  BY DEF Groups
<1>. DEFINE tree == case.tree
            selected == SelectedFiles(StaticDiff)
<1>4. ASSUME NEW lenient \in BOOLEAN, NEW i \in DOMAIN tree, CloneGap(tree[i], lenient)
      PROVE  \E role \in Groups(Config) :
               GroupGap(Config, role, Members(role, tree, selected, StaticDiff), tree, case.index, lenient)
  <2>1. tree[i].role \in Groups(Config)
    BY <1>2, <1>4 DEF CloneGap
  <2>2. i \in Members(tree[i].role, tree, selected, StaticDiff)
    BY <1>4 DEF CloneGap, Members
  <2>3. GroupGap(Config, tree[i].role, Members(tree[i].role, tree, selected, StaticDiff), tree,
                 case.index, lenient)
    BY <1>4, <2>2 DEF CloneGap, GroupGap, Blocks
  <2>. QED  BY <2>1, <2>3
<1>5. ASSUME NEW lenient \in BOOLEAN, NEW role \in Groups(Config),
             GroupGap(Config, role, Members(role, tree, selected, StaticDiff), tree, case.index, lenient)
      PROVE  \E i \in DOMAIN tree : CloneGap(tree[i], lenient)
  <2>1. PICK i \in Members(role, tree, selected, StaticDiff) :
            IF tree[i].readable THEN ~case.index.complete ELSE lenient \/ Severity(Config, role) = "Error"
    BY <1>5 DEF GroupGap
  <2>2. i \in DOMAIN tree /\ tree[i].role = role /\ (StaticDiff \/ tree[i].path \in selected)
    BY DEF Members
  <2>. QED  BY <1>3, <2>1, <2>2 DEF CloneGap, Blocks
<1>. QED  BY <1>4, <1>5

(* What the static phase writes agrees with the ghosts, which read the files. *)
LEMMA StaticDraft ==
  ASSUME case \in Cases
  PROVE  /\ StaticReport \in Drafts(Findings)
         /\ StaticReport.orch # {} <=> BlockingGaps # {}
         /\ StaticGaps(TRUE) # {} => \E e \in EnabledEngines : StaticReport.obs[e] = "Incomplete"
         /\ Blocking # {} <=> \E f \in ToSet(StaticReport.findings) : f.engine # "Clones"
<1>. DEFINE new == StaticReport
            tree == case.tree
            selected == SelectedFiles(StaticDiff)
            chosen == {i \in DOMAIN tree : tree[i].path \in selected}
<1>1. CASE ~Selects("Policy")
  <2>1. new = NewReport /\ BlockingGaps = {} /\ StaticGaps(TRUE) = {} /\ Blocking = {}
    BY <1>1 DEF StaticReport, StaticGaps, BlockingGaps, Blocking
  <2>2. new \in Drafts(Findings) /\ new.orch = {} /\ ToSet(new.findings) = {}
    BY <2>1, NewDraft
  <2>. QED  BY <2>1, <2>2
<1>2. CASE Selects("Policy") /\ selected = {}
  <2>1. new = AnalyzeSnapshot(Config, << >>, selected, StaticDiff, case.index)
    BY <1>2 DEF StaticReport, RunSharedGate
  <2>2. BlockingGaps = {} /\ StaticGaps(TRUE) = {} /\ Blocking = {}
    BY <1>2 DEF BlockingGaps, StaticGaps, CloneGap, FileGap, Blocking
  <2>3. /\ IsSequence(<< >>) /\ case.index.found \in Seq(Findings)
        /\ \A f \in ToSet(case.index.found) : f.engine = "Clones"
    BY CaseScans DEF IsSequence
  <2>. HIDE DEF new, selected
  <2>4. SnapshotAnalysis(Findings, Config, << >>, selected, StaticDiff, case.index, new)
    BY <2>1, <2>3, SnapshotReport
  <2>5. /\ new \in Drafts(Findings) /\ new.orch = {}
        /\ ToSet(new.findings) \subseteq ToSet(case.index.found)
    BY <2>4 DEF SnapshotAnalysis, GroupGap, Members
  <2>. QED  BY <2>2, <2>3, <2>5 DEF new
<1>3. CASE Selects("Policy") /\ selected # {}
  <2>. DEFINE blocks == \E role \in Groups(Config) :
                GroupGap(Config, role, Members(role, tree, selected, StaticDiff), tree, case.index, FALSE)
              lacks == \E role \in Groups(Config) :
                GroupGap(Config, role, Members(role, tree, selected, StaticDiff), tree, case.index, TRUE)
              found == UNION {Found(Config, tree[i]) : i \in chosen}
  <2>1. new = AnalyzeSnapshot(Config, tree, selected, StaticDiff, case.index)
    BY <1>3 DEF StaticReport, RunSharedGate
  <2>2. /\ new \in Drafts(Findings)
        /\ new.orch # {} <=> blocks \/ \E i \in chosen : Withholds(Config, tree[i], FALSE)
        /\ (\E i \in chosen : Withholds(Config, tree[i], TRUE)) => new.obs["Complexity"] = "Incomplete"
        /\ lacks => new.obs["Clones"] = "Incomplete"
        /\ found \subseteq ToSet(new.findings)
        /\ ToSet(new.findings) \subseteq found \cup ToSet(case.index.found)
    <3>. HIDE DEF new, selected
    <3>1. /\ IsSequence(tree) /\ case.index.found \in Seq(Findings)
          /\ \A i \in DOMAIN tree : tree[i].findings \in Seq(Findings)
      BY CaseScans
    <3>. HIDE DEF tree, chosen, found, blocks, lacks
    <3>2. SnapshotAnalysis(Findings, Config, tree, selected, StaticDiff, case.index, new)
      BY <2>1, <3>1, SnapshotReport
    <3>. QED  BY <3>2 DEF SnapshotAnalysis, chosen, found, blocks, lacks
  <2>3. /\ blocks <=> \E i \in DOMAIN tree : CloneGap(tree[i], FALSE)
        /\ lacks <=> \E i \in DOMAIN tree : CloneGap(tree[i], TRUE)
    BY <1>3, GapOfClones
  <2>. HIDE DEF new, blocks, lacks
  <2>4. BlockingGaps # {} <=> blocks \/ \E i \in chosen : Withholds(Config, tree[i], FALSE)
    <3>1. BlockingGaps # {} <=> \/ \E i \in DOMAIN tree : CloneGap(tree[i], FALSE)
                                \/ \E i \in DOMAIN tree : FileGap(tree[i], FALSE) # {}
      BY <1>3 DEF BlockingGaps, StaticGaps
    <3>. QED  BY <2>3, <3>1, GapOfFile
  <2>5. StaticGaps(TRUE) # {} <=> lacks \/ \E i \in chosen : Withholds(Config, tree[i], TRUE)
    <3>1. StaticGaps(TRUE) # {} <=> \/ \E i \in DOMAIN tree : CloneGap(tree[i], TRUE)
                                    \/ \E i \in DOMAIN tree : FileGap(tree[i], TRUE) # {}
      BY <1>3 DEF StaticGaps
    <3>. QED  BY <2>3, <3>1, GapOfFile
  <2>6. "Complexity" \in EnabledEngines
    BY DEF EnabledEngines
  <2>7. lacks => "Clones" \in EnabledEngines
    <3>1. ASSUME NEW role \in Groups(Config)  PROVE ClonesEnabled(Config)
      BY DEF Groups, ToSet, ClonesEnabled
    <3>2. lacks => ClonesEnabled(Config)
      BY <3>1 DEF lacks
    <3>. QED  BY <3>2 DEF EnabledEngines, Engines, StaticEngines
  <2>8. StaticGaps(TRUE) # {} => \E e \in EnabledEngines : new.obs[e] = "Incomplete"
    BY <2>2, <2>5, <2>6, <2>7
  <2>9. Blocking # {} <=> found # {}
    <3>1. ASSUME NEW i \in chosen, NEW f \in Found(Config, tree[i])
          PROVE  f.engine \in Blocking
      <4>1. f.engine \in StaticEngines \ {"Clones"}
        BY DEF Found, EnginesOf
      <4>. QED  BY <1>3, <4>1 DEF Blocking, Found, ToSet
    <3>2. ASSUME NEW e \in Blocking
          PROVE  found # {}
      <4>1. PICK i \in DOMAIN tree :
               /\ tree[i].path \in selected /\ tree[i].readable
               /\ e \in EnginesOf(Config, tree[i])
               /\ e = "Complexity" => tree[i].parses
               /\ \E j \in DOMAIN tree[i].findings :
                     /\ tree[i].findings[j].engine = e
                     /\ FindingSeverity(Config, tree[i].role, tree[i].findings[j]) = "Error"
        BY <1>3 DEF Blocking
      <4>. HIDE DEF selected
      <4>2. PICK j \in DOMAIN tree[i].findings :
               /\ tree[i].findings[j].engine = e
               /\ FindingSeverity(Config, tree[i].role, tree[i].findings[j]) = "Error"
        BY <4>1
      <4>3. tree[i].findings[j] \in Found(Config, tree[i])
        BY <4>1, <4>2 DEF Found, ToSet
      <4>. QED  BY <4>1, <4>3
    <3>. QED  BY <3>1, <3>2
  <2>10. \A f \in found : f.engine # "Clones"
    BY DEF Found, EnginesOf
  <2>11. \A f \in ToSet(case.index.found) : f.engine = "Clones"
    BY CaseScans
  <2>. HIDE DEF found, chosen
  <2>. QED  BY <2>2, <2>4, <2>8, <2>9, <2>10, <2>11 DEF new
<1>. QED  BY <1>1, <1>2, <1>3

(* The baseline is a draft too.                                               *)
LEMMA BaselineDraft ==
  ASSUME case \in Cases
  PROVE  BaselineReport \in Drafts(Findings)
<1>1. /\ IsSequence(case.base.tree) /\ case.base.index.found \in Seq(Findings)
      /\ \A i \in DOMAIN case.base.tree : case.base.tree[i].findings \in Seq(Findings)
  BY CaseScans
<1>. DEFINE all == {case.base.tree[i].path : i \in DOMAIN case.base.tree}
<1>2. SnapshotAnalysis(Findings, TrustedBaselineConfig(Config), case.base.tree, all, FALSE, case.base.index,
                       BaselineReport)
  <2>1. BaselineReport =
          AnalyzeSnapshot(TrustedBaselineConfig(Config), case.base.tree, all, FALSE, case.base.index)
    BY DEF BaselineReport
  <2>. HIDE DEF all
  <2>. QED  BY <1>1, <2>1, SnapshotReport
<1>. QED  BY <1>2 DEF SnapshotAnalysis

-----------------------------------------------------------------------------
(* Writing into a report. Wrote says what the steps after the ratchet do: the *)
(* evidence only gets worse, and in the way the ghosts record.                *)

(* Evidence that only gets worse.                                             *)
Grows(r, new) ==
    /\ \A e \in Engines : Rank[new.obs[e]] >= Rank[r.obs[e]]
    /\ r.orch \subseteq new.orch /\ r.cov \subseteq new.cov /\ r.mut \subseteq new.mut
    /\ r.tool => new.tool

(* Evidence that gets worse in the way the ghosts record.                     *)
Wrote(r, new, missing, bad) ==
    /\ Sound(new) /\ Grows(r, new) /\ new.findings = r.findings
    /\ IncompleteEvidence(new) <=> IncompleteEvidence(r) \/ missing # {}
    /\ FailedEvidence(new) <=> FailedEvidence(r) \/ bad # {}

(* A report of these parts.                                                   *)
Composed(obs, findings, orch, cov, mut, tool) ==
    [obs |-> obs, findings |-> findings, orch |-> orch, cov |-> cov, mut |-> mut, tool |-> tool]

(* Changing a field of a report, written as a record.                         *)
LEMMA ReportFields ==
  ASSUME NEW r, IsReport(r)
  PROVE  /\ r = Composed(r.obs, r.findings, r.orch, r.cov, r.mut, r.tool)
         /\ \A x : [r EXCEPT !.obs = x] = Composed(x, r.findings, r.orch, r.cov, r.mut, r.tool)
         /\ \A x : [r EXCEPT !.findings = x] = Composed(r.obs, x, r.orch, r.cov, r.mut, r.tool)
         /\ \A x : [r EXCEPT !.orch = x] = Composed(r.obs, r.findings, x, r.cov, r.mut, r.tool)
         /\ \A x : [r EXCEPT !.cov = x] = Composed(r.obs, r.findings, r.orch, x, r.mut, r.tool)
         /\ \A x : [r EXCEPT !.mut = x] = Composed(r.obs, r.findings, r.orch, r.cov, x, r.tool)
         /\ \A x : [r EXCEPT !.tool = x] = Composed(r.obs, r.findings, r.orch, r.cov, r.mut, x)
<1>. DEFINE obs == r.obs
            findings == r.findings
            orch == r.orch
            cov == r.cov
            mut == r.mut
            tool == r.tool
<1>1. r = [obs |-> obs, findings |-> findings, orch |-> orch, cov |-> cov, mut |-> mut, tool |-> tool]
  BY DEF IsReport
<1>. HIDE DEF obs, findings, orch, cov, mut, tool
<1>2. /\ r = Composed(obs, findings, orch, cov, mut, tool)
      /\ \A x : [r EXCEPT !.obs = x] = Composed(x, findings, orch, cov, mut, tool)
      /\ \A x : [r EXCEPT !.findings = x] = Composed(obs, x, orch, cov, mut, tool)
      /\ \A x : [r EXCEPT !.orch = x] = Composed(obs, findings, x, cov, mut, tool)
      /\ \A x : [r EXCEPT !.cov = x] = Composed(obs, findings, orch, x, mut, tool)
      /\ \A x : [r EXCEPT !.mut = x] = Composed(obs, findings, orch, cov, x, tool)
      /\ \A x : [r EXCEPT !.tool = x] = Composed(obs, findings, orch, cov, mut, x)
  BY <1>1 DEF Composed
<1>. QED  BY <1>2 DEF obs, findings, orch, cov, mut, tool

(* A record of the right parts is a report.                                   *)
LEMMA ReportMade ==
  ASSUME NEW r, NEW obs \in [Engines -> Observed], NEW findings \in Seq(Findings), NEW orch, NEW cov,
         NEW mut, NEW tool \in BOOLEAN
  PROVE  LET new == Composed(obs, findings, orch, cov, mut, tool)
         IN  /\ IsReport(new) /\ new.obs = obs /\ new.findings = findings /\ new.orch = orch
             /\ new.cov = cov /\ new.mut = mut /\ new.tool = tool
  BY DEF IsReport, Composed

(* The parts of a report.                                                     *)
LEMMA ReportTypes ==
  ASSUME NEW r, IsReport(r)
  PROVE  r.obs \in [Engines -> Observed] /\ r.findings \in Seq(Findings) /\ r.tool \in BOOLEAN
  BY DEF IsReport

(* The ranks of the observed states, from unobserved to incomplete.           *)
LEMMA Ranks ==
  /\ \A s \in Observed : Rank[s] \in Nat
  /\ Rank["Unobserved"] = 0 /\ Rank["Completed"] = 3 /\ Rank["Failed"] = 4 /\ Rank["Incomplete"] = 5
  /\ Observed = {"Unobserved", "Completed", "Failed", "Incomplete"}
  BY DEF Rank, Observed, Unobserved

(* A missed engine stays missed.                                              *)
LEMMA StaysMissed ==
  ASSUME NEW r, NEW new, IsReport(new), Grows(r, new), NEW e \in Engines, r.obs[e] = "Incomplete"
  PROVE  new.obs[e] = "Incomplete"
<1>1. Rank[new.obs[e]] >= 5 /\ new.obs[e] \in Observed
  BY Ranks DEF Grows, IsReport
<1>. QED  BY <1>1, Ranks

(* A report is no worse than itself.                                          *)
LEMMA GrowsNot ==
  ASSUME NEW r, IsReport(r)
  PROVE  Grows(r, r)
<1>1. \A e \in Engines : r.obs[e] \in Observed
  BY DEF IsReport
<1>2. \A e \in Engines : Rank[r.obs[e]] \in Nat
  BY <1>1, Ranks
<1>. QED  BY <1>2 DEF Grows

(* Writing nothing.                                                           *)
LEMMA WroteNothing ==
  ASSUME NEW r, Sound(r)
  PROVE  Wrote(r, r, {}, {})
  BY GrowsNot DEF Wrote, Sound

(* Two writes make one.                                                       *)
LEMMA WroteBoth ==
  ASSUME NEW r, IsReport(r), NEW s, NEW t, NEW m, NEW n, NEW b, NEW c, Wrote(r, s, m, b), Wrote(s, t, n, c)
  PROVE  Wrote(r, t, m \cup n, b \cup c)
<1>1. ASSUME NEW e \in Engines  PROVE Rank[t.obs[e]] >= Rank[r.obs[e]]
  <2>1. t.obs[e] \in Observed /\ s.obs[e] \in Observed /\ r.obs[e] \in Observed
    BY DEF Wrote, Sound, IsReport
  <2>2. Rank[t.obs[e]] \in Nat /\ Rank[s.obs[e]] \in Nat /\ Rank[r.obs[e]] \in Nat
    BY <2>1, Ranks
  <2>3. Rank[t.obs[e]] >= Rank[s.obs[e]] /\ Rank[s.obs[e]] >= Rank[r.obs[e]]
    BY DEF Wrote, Grows
  <2>. QED  BY <2>2, <2>3
<1>2. Grows(r, t)
  BY <1>1 DEF Wrote, Grows
<1>. QED  BY <1>2 DEF Wrote

(* An observation that does not fail without a diagnostic.                    *)
LEMMA WroteObserve ==
  ASSUME NEW r, Sound(r), NEW e \in Engines, NEW state \in {"Completed", "Failed"},
         state = "Failed" => r.tool
  PROVE  Wrote(r, Observe(r, e, state), {}, {})
<1>. DEFINE new == Observe(r, e, state)
            obs == [r.obs EXCEPT ![e] = state]
<1>1. CASE Rank[state] > Rank[r.obs[e]]
  <2>1. new = Composed(obs, r.findings, r.orch, r.cov, r.mut, r.tool)
    BY <1>1, ReportFields DEF Observe, Sound
  <2>2. r.obs \in [Engines -> Observed] /\ r.findings \in Seq(Findings) /\ r.tool \in BOOLEAN
    BY ReportTypes DEF Sound
  <2>3. obs \in [Engines -> Observed]
    BY <2>2 DEF Observed
  <2>4. ASSUME NEW x \in Engines
        PROVE  Rank[obs[x]] >= Rank[r.obs[x]] /\ (obs[x] = "Failed" => r.tool)
    <3>1. Rank[r.obs[x]] \in Nat /\ Rank[state] \in Nat
      BY <2>2, Ranks
    <3>2. obs[x] = IF x = e THEN state ELSE r.obs[x]
      BY <2>2
    <3>. QED  BY <1>1, <3>1, <3>2 DEF Sound
  <2>. HIDE DEF obs, new
  <2>5. /\ IsReport(new) /\ new.obs = obs /\ new.findings = r.findings /\ new.orch = r.orch
        /\ new.cov = r.cov /\ new.mut = r.mut /\ new.tool = r.tool
    BY <2>1, <2>2, <2>3, ReportMade
  <2>6. Sound(new) /\ Grows(r, new)
    BY <2>4, <2>5 DEF Sound, Grows
  <2>7. /\ IncompleteEvidence(new) <=> IncompleteEvidence(r)
        /\ FailedEvidence(new) <=> FailedEvidence(r)
    BY <2>5 DEF IncompleteEvidence, FailedEvidence
  <2>8. Wrote(r, new, {}, {})
    BY <2>5, <2>6, <2>7 DEF Wrote
  <2>. QED  BY <2>8 DEF new
<1>2. CASE ~(Rank[state] > Rank[r.obs[e]])
  BY <1>2, WroteNothing DEF Observe
<1>. QED  BY <1>1, <1>2

(* New contents that are no better than those of a report.                    *)
More(r, obs, orch, cov, mut, tool) ==
    /\ obs \in [Engines -> Observed] /\ tool \in BOOLEAN
    /\ \A e \in Engines : Rank[obs[e]] >= Rank[r.obs[e]] /\ (obs[e] = "Failed" => tool)
    /\ r.orch \subseteq orch /\ r.cov \subseteq cov /\ r.mut \subseteq mut /\ (r.tool => tool)

(* Contents no better than before.                                            *)
LEMMA WroteMore ==
  ASSUME NEW r, Sound(r), NEW obs, NEW orch, NEW cov, NEW mut, NEW tool,
         More(r, obs, orch, cov, mut, tool)
  PROVE  LET new == Composed(obs, r.findings, orch, cov, mut, tool)
         IN  /\ Sound(new) /\ Grows(r, new) /\ new.findings = r.findings
             /\ new.orch = orch /\ new.cov = cov /\ new.mut = mut /\ new.tool = tool
<1>. DEFINE new == Composed(obs, r.findings, orch, cov, mut, tool)
<1>1. r.findings \in Seq(Findings)
  BY ReportTypes DEF Sound
<1>2. /\ IsReport(new) /\ new.obs = obs /\ new.findings = r.findings /\ new.orch = orch
      /\ new.cov = cov /\ new.mut = mut /\ new.tool = tool
  BY <1>1, ReportMade DEF More
<1>. HIDE DEF new
<1>3. Sound(new) /\ Grows(r, new)
  BY <1>2 DEF Sound, Grows, More
<1>. QED  BY <1>2, <1>3 DEF new

(* What WroteMore needs of the observations when they stay as they are.       *)
LEMMA SameObservations ==
  ASSUME NEW r, Sound(r)
  PROVE  \A e \in Engines : Rank[r.obs[e]] >= Rank[r.obs[e]] /\ (r.obs[e] = "Failed" => r.tool)
  BY GrowsNot DEF Sound, Grows

(* A failed command is a violation, or missing when it was not evaluated.     *)
LEMMA WroteViolation ==
  ASSUME NEW r, Sound(r), NEW step, NEW code, NEW missing, missing # {} <=> Unevaluated(code),
         NEW bad, bad # {} <=> ~Unevaluated(code)
  PROVE  Wrote(r, AddViolation(r, step, code), missing, bad)
<1>. DEFINE new == AddViolation(r, step, code)
            orch == r.orch \cup {[step |-> step, exit |-> code]}
<1>1. new = Composed(r.obs, r.findings, orch, r.cov, r.mut, r.tool)
  BY ReportFields DEF AddViolation, Sound
<1>2. r.obs \in [Engines -> Observed] /\ r.tool \in BOOLEAN
  BY ReportTypes DEF Sound
<1>3. r.orch \subseteq orch
  OBVIOUS
<1>4. [step |-> step, exit |-> code].exit = code
  OBVIOUS
<1>5. /\ (\E v \in orch : Unevaluated(v.exit)) <=> (\E v \in r.orch : Unevaluated(v.exit)) \/ Unevaluated(code)
      /\ (\E v \in orch : ~Unevaluated(v.exit)) <=> (\E v \in r.orch : ~Unevaluated(v.exit)) \/ ~Unevaluated(code)
  BY <1>4
<1>. HIDE DEF new, orch
<1>6. /\ Sound(new) /\ Grows(r, new) /\ new.findings = r.findings
      /\ new.orch = orch /\ new.cov = r.cov /\ new.mut = r.mut /\ new.tool = r.tool
  <2>1. More(r, r.obs, orch, r.cov, r.mut, r.tool)
    BY <1>1, <1>2, <1>3, SameObservations DEF More
  <2>. QED  BY <1>1, <2>1, WroteMore
<1>7. /\ IncompleteEvidence(new) <=> IncompleteEvidence(r) \/ Unevaluated(code)
      /\ FailedEvidence(new) <=> FailedEvidence(r) \/ ~Unevaluated(code)
  BY <1>5, <1>6 DEF IncompleteEvidence, FailedEvidence
<1>8. Wrote(r, new, missing, bad)
  BY <1>6, <1>7 DEF Wrote
<1>. QED  BY <1>8 DEF new

(* Missing evidence: engines seen incomplete, and failures without an exit.   *)
LEMMA WroteMissing ==
  ASSUME NEW r, Sound(r), NEW ids, NEW lost, \A v \in lost : v.exit = NoExit
  PROVE  Wrote(r, [ObserveAll(r, ids, "Incomplete") EXCEPT !.orch = @ \cup lost], lost, {})
<1>. DEFINE seen == [e \in Engines |-> IF e \in ids /\ Rank["Incomplete"] > Rank[r.obs[e]]
                                       THEN "Incomplete" ELSE r.obs[e]]
            observed == ObserveAll(r, ids, "Incomplete")
            orch == r.orch \cup lost
            new == [observed EXCEPT !.orch = @ \cup lost]
<1>1. r.obs \in [Engines -> Observed] /\ r.findings \in Seq(Findings) /\ r.tool \in BOOLEAN
  BY ReportTypes DEF Sound
<1>2. observed = Composed(seen, r.findings, r.orch, r.cov, r.mut, r.tool)
  BY ReportFields DEF ObserveAll, Sound
<1>3. seen \in [Engines -> Observed]
  BY <1>1 DEF Observed
<1>4. ASSUME NEW e \in Engines
      PROVE  Rank[seen[e]] >= Rank[r.obs[e]] /\ (seen[e] = "Failed" => r.tool)
  <2>1. Rank[r.obs[e]] \in Nat /\ Rank["Incomplete"] \in Nat
    BY <1>1, Ranks
  <2>2. (seen[e] = "Incomplete" /\ Rank["Incomplete"] > Rank[r.obs[e]]) \/ seen[e] = r.obs[e]
    OBVIOUS
  <2>. HIDE DEF seen
  <2>. QED  BY <2>1, <2>2 DEF Sound
<1>5. new = Composed(seen, r.findings, orch, r.cov, r.mut, r.tool)
  <2>. HIDE DEF observed, seen
  <2>. QED  BY <1>2 DEF Composed
<1>6. /\ (\E v \in orch : Unevaluated(v.exit)) <=> (\E v \in r.orch : Unevaluated(v.exit)) \/ lost # {}
      /\ (\E v \in orch : ~Unevaluated(v.exit)) <=> (\E v \in r.orch : ~Unevaluated(v.exit))
  BY DEF Unevaluated
<1>7. r.orch \subseteq orch
  OBVIOUS
<1>. HIDE DEF new, orch, seen, observed
<1>71. \A e \in Engines : Rank[seen[e]] >= Rank[r.obs[e]] /\ (seen[e] = "Failed" => r.tool)
  BY <1>4
<1>8. /\ Sound(new) /\ Grows(r, new) /\ new.findings = r.findings
      /\ new.orch = orch /\ new.cov = r.cov /\ new.mut = r.mut /\ new.tool = r.tool
  <2>1. More(r, seen, orch, r.cov, r.mut, r.tool)
    BY <1>1, <1>3, <1>5, <1>7, <1>71 DEF More
  <2>. QED  BY <1>5, <2>1, WroteMore
<1>9. /\ IncompleteEvidence(new) <=> IncompleteEvidence(r) \/ lost # {}
      /\ FailedEvidence(new) <=> FailedEvidence(r)
  BY <1>6, <1>8 DEF IncompleteEvidence, FailedEvidence
<1>10. Wrote(r, new, lost, {})
  BY <1>8, <1>9 DEF Wrote
<1>. QED  BY <1>10 DEF new, observed

(* An evidence failure is missing evidence.                                   *)
LEMMA WroteFailure ==
  ASSUME NEW r, Sound(r), NEW step, NEW missing, missing # {}
  PROVE  Wrote(r, RecordEvidenceFailure(r, TRUE, step), missing, {})
<1>. DEFINE lost == {[step |-> step, exit |-> NoExit]}
            new == [ObserveAll(r, MissedBy(step), "Incomplete") EXCEPT !.orch = @ \cup lost]
<1>1. RecordEvidenceFailure(r, TRUE, step) = new
  BY DEF RecordEvidenceFailure, AddViolation, ObserveEvidenceFailure, MissedBy
<1>2. (\A v \in lost : v.exit = NoExit) /\ lost # {}
  OBVIOUS
<1>. HIDE DEF lost
<1>3. Wrote(r, new, lost, {})
  BY <1>2, WroteMissing
<1>. HIDE DEF new
<1>. QED  BY <1>1, <1>2, <1>3 DEF Wrote

(* Several at once, if there is one.                                          *)
LEMMA WroteFailures ==
  ASSUME NEW r, Sound(r), NEW stepset, NEW missing, missing # {} <=> stepset # {}
  PROVE  Wrote(r, RecordEvidenceFailures(r, stepset), missing, {})
<1>. DEFINE lost == {[step |-> s, exit |-> NoExit] : s \in stepset}
            ids == {EvidenceEngine(s) : s \in stepset}
            new == [ObserveAll(r, ids, "Incomplete") EXCEPT !.orch = @ \cup lost]
<1>1. RecordEvidenceFailures(r, stepset) = new
  BY DEF RecordEvidenceFailures
<1>2. (\A v \in lost : v.exit = NoExit) /\ (lost # {} <=> stepset # {})
  <2>1. \A s \in stepset : [step |-> s, exit |-> NoExit] \in lost
    OBVIOUS
  <2>2. \A v \in lost : \E s \in stepset : v = [step |-> s, exit |-> NoExit]
    OBVIOUS
  <2>3. \A v \in lost : v.exit = NoExit
    BY <2>2
  <2>. HIDE DEF lost
  <2>. QED  BY <2>1, <2>2, <2>3
<1>. HIDE DEF lost, ids
<1>3. Wrote(r, new, lost, {})
  BY <1>2, WroteMissing
<1>. HIDE DEF new
<1>. QED  BY <1>1, <1>2, <1>3 DEF Wrote

(* The commands of a session that cannot be opened never ran.                 *)
LEMMA WroteLost ==
  ASSUME NEW r, Sound(r), NEW lost, \A v \in lost : v.exit = NoExit
  PROVE  Wrote(r, [r EXCEPT !.orch = @ \cup lost], lost, {})
<1>. DEFINE orch == r.orch \cup lost
            new == [r EXCEPT !.orch = @ \cup lost]
<1>1. new = Composed(r.obs, r.findings, orch, r.cov, r.mut, r.tool)
  BY ReportFields DEF Sound
<1>2. r.obs \in [Engines -> Observed] /\ r.tool \in BOOLEAN /\ r.orch \subseteq orch
  BY ReportTypes DEF Sound
<1>3. /\ (\E v \in orch : Unevaluated(v.exit)) <=> (\E v \in r.orch : Unevaluated(v.exit)) \/ lost # {}
      /\ (\E v \in orch : ~Unevaluated(v.exit)) <=> (\E v \in r.orch : ~Unevaluated(v.exit))
  BY DEF Unevaluated
<1>. HIDE DEF new, orch
<1>4. /\ Sound(new) /\ Grows(r, new) /\ new.findings = r.findings
      /\ new.orch = orch /\ new.cov = r.cov /\ new.mut = r.mut /\ new.tool = r.tool
  <2>1. More(r, r.obs, orch, r.cov, r.mut, r.tool)
    BY <1>1, <1>2, SameObservations DEF More
  <2>. QED  BY <1>1, <2>1, WroteMore
<1>5. /\ IncompleteEvidence(new) <=> IncompleteEvidence(r) \/ lost # {}
      /\ FailedEvidence(new) <=> FailedEvidence(r)
  BY <1>3, <1>4 DEF IncompleteEvidence, FailedEvidence
<1>6. Wrote(r, new, lost, {})
  BY <1>4, <1>5 DEF Wrote
<1>. QED  BY <1>6 DEF new

(* Violated coverage metrics.                                                 *)
LEMMA WroteCoverage ==
  ASSUME NEW r, Sound(r), NEW violated,
         NEW missing, missing # {} <=> violated \cap MissingCoverage # {},
         NEW bad, bad # {} <=> violated \ MissingCoverage # {}
  PROVE  Wrote(r, [r EXCEPT !.cov = @ \cup violated], missing, bad)
<1>. DEFINE cov == r.cov \cup violated
            new == [r EXCEPT !.cov = @ \cup violated]
<1>1. new = Composed(r.obs, r.findings, r.orch, cov, r.mut, r.tool)
  BY ReportFields DEF Sound
<1>2. r.obs \in [Engines -> Observed] /\ r.tool \in BOOLEAN /\ r.cov \subseteq cov
  BY ReportTypes DEF Sound
<1>3. /\ cov \cap MissingCoverage # {} <=> r.cov \cap MissingCoverage # {} \/ missing # {}
      /\ cov \ MissingCoverage # {} <=> r.cov \ MissingCoverage # {} \/ bad # {}
  OBVIOUS
<1>. HIDE DEF new, cov
<1>4. /\ Sound(new) /\ Grows(r, new) /\ new.findings = r.findings
      /\ new.orch = r.orch /\ new.cov = cov /\ new.mut = r.mut /\ new.tool = r.tool
  <2>1. More(r, r.obs, r.orch, cov, r.mut, r.tool)
    BY <1>1, <1>2, SameObservations DEF More
  <2>. QED  BY <1>1, <2>1, WroteMore
<1>5. /\ IncompleteEvidence(new) <=> IncompleteEvidence(r) \/ missing # {}
      /\ FailedEvidence(new) <=> FailedEvidence(r) \/ bad # {}
  BY <1>3, <1>4 DEF IncompleteEvidence, FailedEvidence
<1>6. Wrote(r, new, missing, bad)
  BY <1>4, <1>5 DEF Wrote
<1>. QED  BY <1>6 DEF new

(* Violated mutation metrics.                                                 *)
LEMMA WroteMutation ==
  ASSUME NEW r, Sound(r), NEW violated,
         NEW missing, missing # {} <=> violated \cap IncompleteMutation # {},
         NEW bad, bad # {} <=> violated \ IncompleteMutation # {}
  PROVE  Wrote(r, [r EXCEPT !.mut = @ \cup violated], missing, bad)
<1>. DEFINE mut == r.mut \cup violated
            new == [r EXCEPT !.mut = @ \cup violated]
<1>1. new = Composed(r.obs, r.findings, r.orch, r.cov, mut, r.tool)
  BY ReportFields DEF Sound
<1>2. r.obs \in [Engines -> Observed] /\ r.tool \in BOOLEAN /\ r.mut \subseteq mut
  BY ReportTypes DEF Sound
<1>3. /\ mut \cap IncompleteMutation # {} <=> r.mut \cap IncompleteMutation # {} \/ missing # {}
      /\ mut \ IncompleteMutation # {} <=> r.mut \ IncompleteMutation # {} \/ bad # {}
  OBVIOUS
<1>. HIDE DEF new, mut
<1>4. /\ Sound(new) /\ Grows(r, new) /\ new.findings = r.findings
      /\ new.orch = r.orch /\ new.cov = r.cov /\ new.mut = mut /\ new.tool = r.tool
  <2>1. More(r, r.obs, r.orch, r.cov, mut, r.tool)
    BY <1>1, <1>2, SameObservations DEF More
  <2>. QED  BY <1>1, <2>1, WroteMore
<1>5. /\ IncompleteEvidence(new) <=> IncompleteEvidence(r) \/ missing # {}
      /\ FailedEvidence(new) <=> FailedEvidence(r) \/ bad # {}
  BY <1>3, <1>4 DEF IncompleteEvidence, FailedEvidence
<1>6. Wrote(r, new, missing, bad)
  BY <1>4, <1>5 DEF Wrote
<1>. QED  BY <1>6 DEF new

(* A compiler diagnostic that blocks.                                         *)
LEMMA WroteDiagnostic ==
  ASSUME NEW r, Sound(r), NEW blocking \in BOOLEAN, NEW bad, bad # {} <=> blocking
  PROVE  LET new == [r EXCEPT !.tool = @ \/ blocking]
         IN  Wrote(r, new, {}, bad) /\ (blocking => new.tool)
<1>. DEFINE tool == r.tool \/ blocking
            new == [r EXCEPT !.tool = @ \/ blocking]
<1>1. new = Composed(r.obs, r.findings, r.orch, r.cov, r.mut, tool)
  <2>1. new = [r EXCEPT !.tool = tool]
    OBVIOUS
  <2>. HIDE DEF new, tool
  <2>. QED  BY <2>1, ReportFields DEF Sound
<1>2. r.obs \in [Engines -> Observed] /\ r.tool \in BOOLEAN /\ tool \in BOOLEAN
  BY ReportTypes DEF Sound
<1>3. r.tool => tool
  OBVIOUS
<1>4. \A e \in Engines : Rank[r.obs[e]] >= Rank[r.obs[e]] /\ (r.obs[e] = "Failed" => tool)
  BY SameObservations
<1>5. tool <=> r.tool \/ blocking
  OBVIOUS
<1>. HIDE DEF new, tool
<1>6. /\ Sound(new) /\ Grows(r, new) /\ new.findings = r.findings
      /\ new.orch = r.orch /\ new.cov = r.cov /\ new.mut = r.mut /\ new.tool = tool
  <2>1. More(r, r.obs, r.orch, r.cov, r.mut, tool)
    BY <1>1, <1>2, <1>3, <1>4 DEF More
  <2>. QED  BY <1>1, <2>1, WroteMore
<1>7. /\ IncompleteEvidence(new) <=> IncompleteEvidence(r)
      /\ FailedEvidence(new) <=> FailedEvidence(r) \/ bad # {}
  BY <1>5, <1>6 DEF IncompleteEvidence, FailedEvidence
<1>8. Wrote(r, new, {}, bad) /\ (blocking => new.tool)
  BY <1>5, <1>6, <1>7 DEF Wrote
<1>. QED  BY <1>8 DEF new

-----------------------------------------------------------------------------
(* The verdict: closing a report, the plan, the document.                     *)

(* The highest of some states is one of them, incomplete if one is.           *)
LEMMA HighestState ==
  ASSUME NEW S, S \subseteq Observed, S # {}
  PROVE  Highest(S) \in S /\ ("Incomplete" \in S => Highest(S) = "Incomplete")
<1>1. \E s \in S : \A t \in S : Rank[t] <= Rank[s]
  <2>1. CASE "Incomplete" \in S
    BY <2>1, Ranks
  <2>2. CASE "Incomplete" \notin S /\ "Failed" \in S
    BY <2>2, Ranks
  <2>3. CASE "Incomplete" \notin S /\ "Failed" \notin S /\ "Completed" \in S
    BY <2>3, Ranks
  <2>4. CASE "Incomplete" \notin S /\ "Failed" \notin S /\ "Completed" \notin S
    <3>1. \A s \in S : s = "Unobserved"
      BY <2>4, Ranks
    <3>2. \A s \in S : Rank[s] = 0
      BY <3>1, Ranks
    <3>3. PICK s \in S : TRUE
      OBVIOUS
    <3>. QED  BY <3>2, <3>3
  <2>. QED  BY <2>1, <2>2, <2>3, <2>4
<1>2. Highest(S) \in S /\ \A t \in S : Rank[t] <= Rank[Highest(S)]
  BY <1>1 DEF Highest
<1>3. ASSUME "Incomplete" \in S
      PROVE  Highest(S) = "Incomplete"
  <2>1. Highest(S) \in {"Unobserved", "Completed", "Failed", "Incomplete"}
    BY <1>2, Ranks
  <2>2. Rank["Incomplete"] <= Rank[Highest(S)]
    BY <1>2, <1>3
  <2>. QED  BY <2>1, <2>2, Ranks
<1>. QED  BY <1>2, <1>3

(* What closing a report makes of an observation.                             *)
LEMMA FinalStates ==
  ASSUME NEW r, IsReport(r), NEW e \in Engines
  PROVE  /\ FinalObservations(r)[e] \in Observed
         /\ r.obs[e] = "Incomplete" => FinalObservations(r)[e] = "Incomplete"
         /\ NoViolations(r) => FinalObservations(r)[e] = r.obs[e]
<1>. DEFINE added == ViolationStates(r)[e]
            all == {r.obs[e]} \cup added
<1>1. added \subseteq {"Failed", "Incomplete"}
  BY DEF ViolationStates
<1>2. NoViolations(r) => added = {}
  BY DEF ViolationStates, NoViolations
<1>3. FinalObservations(r)[e] = Highest(all)
  BY DEF FinalObservations
<1>4. r.obs[e] \in Observed
  BY DEF IsReport
<1>. HIDE DEF added
<1>5. all \subseteq Observed /\ all # {} /\ (added = {} => all = {r.obs[e]}) /\ r.obs[e] \in all
  BY <1>1, <1>4, Ranks
<1>. HIDE DEF all
<1>. QED  BY <1>2, <1>3, <1>5, HighestState

(* What a plan says of an engine.                                             *)
PlannedEngine(e, entry) ==
    /\ entry \in [enabled : BOOLEAN, selected : BOOLEAN, state : {"Skipped", "Disabled", "Incomplete"}]
    /\ entry.enabled <=> e \in EnabledEngines
    /\ entry.selected <=> e \in EnabledEngines /\ Requested(e)
    /\ entry.selected => entry.state \in {"Skipped", "Incomplete"}

(* A plan made of planned engines.                                            *)
LEMMA PlanMade ==
  ASSUME NEW engines, engines = [e \in Engines |-> engines[e]],
         \A e \in Engines : PlannedEngine(e, engines[e])
  PROVE  IsPlan([command |-> "check", mode |-> ScopeMode, engines |-> engines])
<1>. DEFINE p == [command |-> "check", mode |-> ScopeMode, engines |-> engines]
<1>1. p.engines = engines
  OBVIOUS
<1>. HIDE DEF p
<1>2. p.engines \in [Engines -> [enabled : BOOLEAN, selected : BOOLEAN,
                                 state : {"Skipped", "Disabled", "Incomplete"}]]
  BY <1>1 DEF PlannedEngine
<1>3. \A e \in Engines :
         /\ p.engines[e].enabled <=> e \in EnabledEngines
         /\ p.engines[e].selected <=> e \in EnabledEngines /\ Requested(e)
         /\ p.engines[e].selected => p.engines[e].state \in {"Skipped", "Incomplete"}
  BY <1>1 DEF PlannedEngine
<1>4. p = [command |-> "check", mode |-> ScopeMode, engines |-> p.engines]
  BY <1>1 DEF p
<1>5. IsPlan(p)
  BY <1>2, <1>3, <1>4 DEF IsPlan
<1>. QED  BY <1>5 DEF p

(* The plan the command fixes is one.                                         *)
LEMMA GateIsPlan ==
  IsPlan(GatePlan)
<1>. DEFINE engines == [e \in Engines |->
        [enabled |-> e \in EnabledEngines,
         selected |-> e \in EnabledEngines /\ Requested(e),
         state |-> IF e \in EnabledEngines THEN "Skipped" ELSE "Disabled"]]
<1>1. ASSUME NEW e \in Engines  PROVE PlannedEngine(e, engines[e])
  <2>. DEFINE enabled == e \in EnabledEngines
              selected == e \in EnabledEngines /\ Requested(e)
              state == IF e \in EnabledEngines THEN "Skipped" ELSE "Disabled"
              entry == [enabled |-> enabled, selected |-> selected, state |-> state]
  <2>1. engines[e] = entry
    OBVIOUS
  <2>2. enabled \in BOOLEAN /\ selected \in BOOLEAN /\ state \in {"Skipped", "Disabled", "Incomplete"}
    OBVIOUS
  <2>3. selected => enabled /\ state = "Skipped"
    OBVIOUS
  <2>. HIDE DEF enabled, selected, state, engines
  <2>4. /\ entry \in [enabled : BOOLEAN, selected : BOOLEAN, state : {"Skipped", "Disabled", "Incomplete"}]
        /\ entry.enabled = enabled /\ entry.selected = selected /\ entry.state = state
    BY <2>2
  <2>. HIDE DEF entry
  <2>5. PlannedEngine(e, entry)
    BY <2>3, <2>4 DEF PlannedEngine, enabled, selected
  <2>. QED  BY <2>1, <2>5
<1>2. engines = [e \in Engines |-> engines[e]]
  OBVIOUS
<1>3. GatePlan = [command |-> "check", mode |-> ScopeMode, engines |-> engines]
  BY DEF GatePlan
<1>. HIDE DEF engines
<1>. QED  BY <1>1, <1>2, <1>3, PlanMade

(* The parts of a plan.                                                       *)
LEMMA PlanParts ==
  ASSUME NEW p, IsPlan(p)
  PROVE  /\ p = [command |-> "check", mode |-> ScopeMode, engines |-> p.engines]
         /\ p.engines = [e \in Engines |-> p.engines[e]]
         /\ \A e \in Engines : PlannedEngine(e, p.engines[e])
  BY DEF IsPlan, PlannedEngine

(* Aborting a plan leaves one of the same engines.                            *)
LEMMA AbortedIsPlan ==
  ASSUME NEW p, IsPlan(p)
  PROVE  IsPlan(AbortedPlan(p))
<1>. DEFINE was == p.engines
            engines == [e \in Engines |->
                          IF was[e].selected THEN [was[e] EXCEPT !.state = "Incomplete"] ELSE was[e]]
<1>1. p = [command |-> "check", mode |-> ScopeMode, engines |-> was]
  BY PlanParts
<1>2. \A e \in Engines : PlannedEngine(e, was[e])
  BY PlanParts
<1>3. AbortedPlan(p) = [p EXCEPT !.engines = engines]
  BY DEF AbortedPlan
<1>. HIDE DEF was
<1>4. ASSUME NEW e \in Engines  PROVE PlannedEngine(e, engines[e])
  <2>1. CASE was[e].selected
    <3>. DEFINE entry == [was[e] EXCEPT !.state = "Incomplete"]
    <3>1. engines[e] = entry
      BY <2>1
    <3>2. was[e] \in [enabled : BOOLEAN, selected : BOOLEAN, state : {"Skipped", "Disabled", "Incomplete"}]
      BY <1>2 DEF PlannedEngine
    <3>3. /\ entry \in [enabled : BOOLEAN, selected : BOOLEAN, state : {"Skipped", "Disabled", "Incomplete"}]
          /\ entry.enabled = was[e].enabled /\ entry.selected = was[e].selected /\ entry.state = "Incomplete"
      BY <3>2
    <3>. HIDE DEF entry
    <3>4. PlannedEngine(e, entry)
      BY <1>2, <3>3 DEF PlannedEngine
    <3>. QED  BY <3>1, <3>4
  <2>2. CASE ~was[e].selected
    BY <1>2, <2>2
  <2>. QED  BY <2>1, <2>2
<1>5. engines = [e \in Engines |-> engines[e]]
  OBVIOUS
<1>. HIDE DEF engines
<1>6. [p EXCEPT !.engines = engines] = [command |-> "check", mode |-> ScopeMode, engines |-> engines]
  BY <1>1
<1>. QED  BY <1>3, <1>4, <1>5, <1>6, PlanMade

(* A closed plan: what was observed replaces what was planned.                *)
LEMMA Reconciled ==
  ASSUME NEW p, IsPlan(p), NEW obs
  PROVE  LET final == Reconcile(p, obs)
         IN  /\ final.command = "check" /\ final.mode = ScopeMode
             /\ \A e \in Engines :
                   /\ final.engines[e].enabled <=> e \in EnabledEngines
                   /\ final.engines[e].selected <=> e \in EnabledEngines /\ Requested(e)
                   /\ final.engines[e].state = IF final.engines[e].selected /\ obs[e] # Unobserved THEN obs[e]
                                               ELSE p.engines[e].state
                   /\ p.engines[e].state \in {"Skipped", "Disabled", "Incomplete"}
                   /\ final.engines[e].selected => p.engines[e].state \in {"Skipped", "Incomplete"}
<1>. DEFINE was == p.engines
            engines == [e \in Engines |->
                          IF was[e].selected /\ obs[e] # Unobserved
                          THEN [was[e] EXCEPT !.state = obs[e]] ELSE was[e]]
            final == Reconcile(p, obs)
<1>1. p = [command |-> "check", mode |-> ScopeMode, engines |-> was]
  BY PlanParts
<1>2. \A e \in Engines : PlannedEngine(e, was[e])
  BY PlanParts
<1>3. final = [p EXCEPT !.engines = engines]
  BY DEF Reconcile
<1>. HIDE DEF was
<1>4. ASSUME NEW e \in Engines
      PROVE  /\ engines[e].enabled <=> e \in EnabledEngines
             /\ engines[e].selected <=> e \in EnabledEngines /\ Requested(e)
             /\ engines[e].state = IF engines[e].selected /\ obs[e] # Unobserved THEN obs[e] ELSE was[e].state
             /\ was[e].state \in {"Skipped", "Disabled", "Incomplete"}
             /\ engines[e].selected => was[e].state \in {"Skipped", "Incomplete"}
  <2>1. was[e] \in [enabled : BOOLEAN, selected : BOOLEAN, state : {"Skipped", "Disabled", "Incomplete"}]
    BY <1>2 DEF PlannedEngine
  <2>2. CASE was[e].selected /\ obs[e] # Unobserved
    <3>. DEFINE entry == [was[e] EXCEPT !.state = obs[e]]
    <3>1. engines[e] = entry
      BY <2>2
    <3>2. entry.enabled = was[e].enabled /\ entry.selected = was[e].selected /\ entry.state = obs[e]
      BY <2>1
    <3>. HIDE DEF entry, engines
    <3>. QED  BY <1>2, <2>1, <2>2, <3>1, <3>2 DEF PlannedEngine
  <2>3. CASE ~(was[e].selected /\ obs[e] # Unobserved)
    <3>1. engines[e] = was[e]
      BY <2>3
    <3>. HIDE DEF engines
    <3>. QED  BY <1>2, <2>1, <2>3, <3>1 DEF PlannedEngine
  <2>. QED  BY <2>2, <2>3
<1>. HIDE DEF engines, final
<1>5. final.command = "check" /\ final.mode = ScopeMode /\ final.engines = engines
  BY <1>1, <1>3
<1>. QED  BY <1>4, <1>5 DEF final, was

(* Outcome and exit code, by the two halves of the evidence.                  *)
LEMMA Verdict ==
  ASSUME NEW r, IsReport(r)
  PROVE  /\ NoViolations(r) <=> ~IncompleteEvidence(r) /\ ~FailedEvidence(r)
         /\ Outcome(r) = "passed" <=> NoViolations(r)
         /\ Outcome(r) = "incomplete" <=> IncompleteEvidence(r)
         /\ Outcome(r) \in Outcomes /\ ExitCode(Outcome(r)) \in 0 .. 2
         /\ ExitCode(Outcome(r)) = 0 <=> Outcome(r) = "passed"
         /\ ExitCode(Outcome(r)) = 1 <=> Outcome(r) = "violations"
<1>1. NoViolations(r) <=> ~IncompleteEvidence(r) /\ ~FailedEvidence(r)
  <2>1. NoViolations(r) => ~IncompleteEvidence(r) /\ ~FailedEvidence(r)
    BY DEF NoViolations, IncompleteEvidence, FailedEvidence
  <2>2. ASSUME ~IncompleteEvidence(r), ~FailedEvidence(r)
        PROVE  NoViolations(r)
    <3>1. r.orch = {} /\ r.cov = {} /\ r.mut = {}
      BY <2>2 DEF IncompleteEvidence, FailedEvidence
    <3>. QED  BY <2>2, <3>1 DEF NoViolations, FailedEvidence
  <2>. QED  BY <2>1, <2>2
<1>. QED  BY <1>1 DEF Outcome, Outcomes, ExitCode

(* What a document says of the report it closes.                              *)
LEMMA DocumentStates ==
  ASSUME NEW r, IsReport(r), NEW p, IsPlan(p)
  PROVE  LET document == Document(r, p)
         IN  /\ document # Nothing /\ document.status = Outcome(r) /\ document.exit = ExitCode(Outcome(r))
             /\ document.partial <=> IsPartial(Reconcile(p, FinalObservations(r)))
             /\ document.accepted <=> NoViolations(r) /\ IsComplete(Reconcile(p, FinalObservations(r)))
             /\ \A e \in Engines :
                   document.states[e] = Reconcile(p, FinalObservations(r)).engines[e].state
<1>. DEFINE final == Reconcile(p, FinalObservations(r))
            states == [e \in Engines |-> final.engines[e].state]
            document == Document(r, p)
<1>1. document = [status |-> Outcome(r), exit |-> ExitCode(Outcome(r)), partial |-> IsPartial(final),
                  accepted |-> NoViolations(r) /\ IsComplete(final), states |-> states]
  BY DEF Document
<1>2. states \in [Engines -> EngineState]
  <2>1. ASSUME NEW e \in Engines  PROVE final.engines[e].state \in EngineState
    <3>1. FinalObservations(r)[e] \in Observed
      BY FinalStates
    <3>2. /\ final.engines[e].state = IF final.engines[e].selected /\ FinalObservations(r)[e] # Unobserved
                                      THEN FinalObservations(r)[e] ELSE p.engines[e].state
          /\ p.engines[e].state \in {"Skipped", "Disabled", "Incomplete"}
      BY Reconciled
    <3>. HIDE DEF final
    <3>. QED  BY <3>1, <3>2, Ranks DEF EngineState, Unobserved
  <2>. HIDE DEF final
  <2>. QED  BY <2>1
<1>3. \A e \in Engines : states[e] = final.engines[e].state
  OBVIOUS
<1>. HIDE DEF states, document, final
<1>4. Outcome(r) \in {"passed", "violations", "incomplete"} /\ ExitCode(Outcome(r)) \in 0 .. 2
  BY Verdict DEF Outcomes
<1>5. IsPartial(final) \in BOOLEAN /\ (NoViolations(r) /\ IsComplete(final)) \in BOOLEAN
  BY DEF IsPartial, IsComplete, NoViolations
<1>6. document \in [status : {"passed", "violations", "incomplete"}, exit : 0 .. 2, partial : BOOLEAN,
                    accepted : BOOLEAN, states : [Engines -> EngineState]]
  BY <1>1, <1>2, <1>4, <1>5
<1>7. document # Nothing
  BY <1>6, NothingAssumption
<1>8. /\ document.status = Outcome(r) /\ document.exit = ExitCode(Outcome(r))
      /\ document.partial <=> IsPartial(final)
      /\ document.accepted <=> NoViolations(r) /\ IsComplete(final)
      /\ document.states = states
  BY <1>1
<1>. QED  BY <1>3, <1>7, <1>8 DEF document, final

-----------------------------------------------------------------------------
(* Steps.                                                                     *)

(* What depends on the invocation alone.                                      *)
LEMMA CaseFixed ==
  ASSUME case' = case
  PROVE  /\ GatePlan' = GatePlan /\ EnabledEngines' = EnabledEngines /\ ScopeMode' = ScopeMode
         /\ StaticGaps(TRUE)' = StaticGaps(TRUE) /\ Blocking' = Blocking /\ (Preflight' <=> Preflight)
         /\ \A e : Requested(e)' <=> Requested(e)
         /\ \A kind : KindEnabled(kind)' <=> KindEnabled(kind)
<1>1. Config' = Config /\ \A kind : Selects(kind)' <=> Selects(kind)
  BY DEF Config, Selects
<1>2. (Ratchets' <=> Ratchets) /\ (\A e : Requested(e)' <=> Requested(e)) /\ ScopeMode' = ScopeMode
  BY <1>1 DEF Ratchets, Requested, ScopeMode
<1>3. EnabledEngines' = EnabledEngines
  BY <1>1 DEF EnabledEngines
<1>4. StaticDiff' = StaticDiff
  BY <1>2 DEF StaticDiff
<1>5. SelectedFiles(StaticDiff)' = SelectedFiles(StaticDiff)
  BY <1>4 DEF SelectedFiles
<1>6. \A file : FileGap(file, TRUE)' = FileGap(file, TRUE)
  BY <1>1, <1>5 DEF FileGap, Blocks
<1>7. \A file : CloneGap(file, TRUE)' <=> CloneGap(file, TRUE)
  BY <1>1, <1>4, <1>5 DEF CloneGap, Blocks
<1>8. StaticGaps(TRUE)' = StaticGaps(TRUE)
  BY <1>1, <1>6, <1>7 DEF StaticGaps
<1>9. Blocking' = Blocking
  BY <1>1, <1>5 DEF Blocking
<1>10. GatePlan' = GatePlan
  BY <1>2, <1>3 DEF GatePlan
<1>11. \A kind : KindEnabled(kind)' <=> KindEnabled(kind)
  BY <1>1 DEF KindEnabled
<1>12. Preflight' <=> Preflight
  BY <1>1, <1>11 DEF Preflight
<1>. QED  BY <1>2, <1>3, <1>8, <1>9, <1>10, <1>11, <1>12

(* A plan stays one.                                                          *)
LEMMA PlanFixed ==
  ASSUME case' = case, plan' = plan, IsPlan(plan)
  PROVE  IsPlan(plan)'
  BY CaseFixed DEF IsPlan

(* An aborted plan stays one.                                                 *)
LEMMA PlanAborted ==
  ASSUME case' = case, plan' = AbortedPlan(plan), IsPlan(plan)
  PROVE  IsPlan(plan)'
<1>1. IsPlan(AbortedPlan(plan))
  BY AbortedIsPlan
<1>. QED  BY <1>1, CaseFixed DEF IsPlan

(* Documents are published after the verdict.                                 *)
LEMMA Settling ==
  ASSUME IInv, Published
  PROVE  Settled /\ phase \in {"rendered", "stdout"} \cup Leaving
  BY DEF IInv, FilesInv, Settled, Closing

(* Leaving with an error keeps the invariant.                                 *)
LEMMA AbortKeeps ==
  ASSUME IInv, NEW reason \in {"error", "broken pipe"}, Abort(reason)
  PROVE  IInv'
<1>. USE DEF IInv
<1>1. /\ case' = case /\ phase' = "guard" /\ report' = report /\ runs' = runs /\ files' = files
      /\ signal' = signal /\ gaps' = gaps /\ failed' = failed /\ result' = reason
      /\ plan' = plan \/ plan' = AbortedPlan(plan)
  BY DEF Abort
<1>2. phase' \in Leaving /\ phase' \notin Early \cup {"ratchet", "done"} \cup Writing \cup Closing
  BY <1>1 DEF Leaving, Early, Writing, Closing
<1>3. CaseInv'
  BY <1>1, <1>2 DEF CaseInv
<1>4. ReportInv'
  BY <1>1 DEF ReportInv
<1>5. EarlyInv' /\ RatchetInv'
  BY <1>1, <1>2 DEF EarlyInv, RatchetInv, Early
<1>6. result' \notin Outcomes
  BY <1>1 DEF Outcomes
<1>7. Settled' => Published
  BY <1>1, <1>2, <1>6 DEF Settled, Published
<1>8. VerdictInv'
  BY <1>1, <1>7, Settling DEF VerdictInv
<1>9. GapInv'
  BY <1>1, <1>2, <1>7, Settling, CaseFixed DEF GapInv
<1>10. PlanInv'
  <2>1. ASSUME Published'  PROVE IsPlan(plan)'
    <3>1. IsPlan(plan)
      BY <1>1, <2>1 DEF PlanInv, Published
    <3>. QED  BY <1>1, <3>1, PlanFixed, PlanAborted
  <2>. QED  BY <1>2, <2>1 DEF PlanInv
<1>11. FilesInv'
  BY <1>1, <1>2, CaseFixed DEF FilesInv, Leaving
<1>12. ResultInv'
  BY <1>1, <1>2, <1>6 DEF ResultInv
<1>. QED  BY <1>3, <1>4, <1>5, <1>8, <1>9, <1>10, <1>11, <1>12

(* After the ratchet, a phase that writes the report keeps the invariant when *)
(* it writes what the ghosts record.                                          *)
Writes ==
    \E next \in Writing \cup {"emit"} : \E new, missing, bad :
        ReportStep(next, new, missing, bad) /\ Wrote(report, new, missing, bad)

(* A write after the ratchet keeps the invariant.                             *)
LEMMA WriteKeeps ==
  ASSUME IInv, phase \in Writing, Writes
  PROVE  IInv'
<1>. USE DEF IInv
<1>1. PICK next, new, missing, bad :
         /\ next \in Writing \cup {"emit"}
         /\ ReportStep(next, new, missing, bad) /\ Wrote(report, new, missing, bad)
  BY DEF Writes
<1>2. /\ case' = case /\ phase' = next /\ report' = new /\ runs' = runs /\ files' = files
      /\ plan' = plan /\ signal' = signal /\ result' = result
      /\ gaps' = gaps \cup missing /\ failed' = failed \cup bad
  BY <1>1 DEF ReportStep, Unchanged
<1>3. /\ phase' \in Writing \cup {"emit"} /\ Settled /\ Settled'
      /\ phase' \notin Early \cup Leaving \cup {"ratchet", "resolve", "rendered", "stdout"}
      /\ phase \notin Early \cup Leaving \cup {"ratchet", "resolve", "rendered", "stdout"}
  BY <1>1, <1>2 DEF Settled, Writing, Closing, Early, Leaving
<1>4. CaseInv'
  BY <1>2, <1>3 DEF CaseInv, Closing
<1>5. ReportInv'
  BY <1>1, <1>2 DEF ReportInv, Wrote
<1>6. EarlyInv' /\ RatchetInv'
  BY <1>3 DEF EarlyInv, RatchetInv, Early
<1>7. VerdictInv'
  BY <1>1, <1>2, <1>3 DEF VerdictInv, Wrote
<1>8. GapInv'
  <2>1. EnabledEngines \subseteq Engines
    BY DEF EnabledEngines, Engines, StaticEngines, CommandEngines
  <2>2. ASSUME NEW e \in Engines, report.obs[e] = "Incomplete"  PROVE report'.obs[e] = "Incomplete"
    BY <1>1, <1>2, <2>2, StaysMissed DEF Wrote, Sound
  <2>. QED  BY <1>2, <1>3, <2>1, <2>2, CaseFixed DEF GapInv
<1>9. ~Published /\ ~Published'
  BY <1>2, <1>3 DEF FilesInv, Published
<1>10. PlanInv'
  BY <1>2, <1>3, <1>9, CaseFixed DEF PlanInv
<1>11. FilesInv'
  BY <1>2, <1>3, <1>9 DEF FilesInv, Published
<1>12. ResultInv'
  BY <1>3 DEF ResultInv, Leaving
<1>. QED  BY <1>4, <1>5, <1>6, <1>7, <1>8, <1>10, <1>11, <1>12

(* EvidenceNeverImproves, of one step.                                        *)
Worsens ==
    /\ \A e \in Engines : Rank[report'.obs[e]] >= Rank[report.obs[e]]
    /\ report.orch \subseteq report'.orch /\ report.cov \subseteq report'.cov
    /\ report.mut \subseteq report'.mut /\ (report.tool => report'.tool)
    /\ report'.findings # report.findings =>
          \/ phase = "static"
          \/ phase = "ratchet" /\ ToSet(report'.findings) \subseteq ToSet(report.findings)

(* A write after the ratchet improves nothing.                                *)
LEMMA WriteWorsens ==
  ASSUME Writes
  PROVE  Worsens
  BY DEF Writes, Wrote, Grows, Worsens, ReportStep

(* Nor does a step that leaves the report alone.                              *)
LEMMA KeptWorsens ==
  ASSUME IInv, report' = report
  PROVE  Worsens
<1>1. Grows(report, report)
  BY GrowsNot DEF IInv, ReportInv, Sound
<1>. QED  BY <1>1 DEF Grows, Worsens

-----------------------------------------------------------------------------
(* The phases that only write the report.                                     *)

(* A write, with what it wrote.                                               *)
LEMMA WriteStep ==
  ASSUME NEW next \in Writing \cup {"emit"}, NEW new, NEW missing, NEW bad,
         ReportStep(next, new, missing, bad), Wrote(report, new, missing, bad)
  PROVE  Writes
  BY DEF Writes

(* A phase that has nothing to do.                                            *)
LEMMA NothingStep ==
  ASSUME Sound(report), NEW next \in Writing \cup {"emit"}, ReportStep(next, report, {}, {})
  PROVE  Writes
  BY WroteNothing, WriteStep

(* The freshness command.                                                     *)
LEMMA GeneratedWrites ==
  ASSUME Sound(report), Generated
  PROVE  Writes
<1>. DEFINE seen == Observe(report, "GeneratedFreshness", "Completed")
<1>1. PICK code \in {0, 1, 127, NoExit} :
         IF code = 0 THEN ReportStep("commands", seen, {}, {})
         ELSE ReportStep("commands", AddViolation(seen, "generated-freshness", code),
                         IF Unevaluated(code) THEN {"GeneratedFreshness"} ELSE {},
                         IF Unevaluated(code) THEN {} ELSE {"GeneratedFreshness"})
  BY DEF Generated
<1>2. Wrote(report, seen, {}, {})
  BY WroteObserve DEF Engines, EvidenceEngines
<1>3. "commands" \in Writing \cup {"emit"} /\ Sound(seen) /\ IsReport(report)
  BY <1>2 DEF Writing, Wrote, Sound
<1>. HIDE DEF seen
<1>4. CASE code = 0
  BY <1>1, <1>2, <1>3, <1>4, WriteStep
<1>5. CASE code # 0
  <2>. DEFINE missing == IF Unevaluated(code) THEN {"GeneratedFreshness"} ELSE {}
              bad == IF Unevaluated(code) THEN {} ELSE {"GeneratedFreshness"}
              new == AddViolation(seen, "generated-freshness", code)
  <2>1. (missing # {} <=> Unevaluated(code)) /\ (bad # {} <=> ~Unevaluated(code))
    OBVIOUS
  <2>2. ReportStep("commands", new, missing, bad)
    BY <1>1, <1>5
  <2>. HIDE DEF missing, bad
  <2>3. Wrote(seen, new, missing, bad)
    BY <1>3, <2>1, WroteViolation
  <2>4. Wrote(report, new, {} \cup missing, {} \cup bad)
    BY <1>2, <1>3, <2>3, WroteBoth
  <2>5. {} \cup missing = missing /\ {} \cup bad = bad
    OBVIOUS
  <2>. HIDE DEF new
  <2>. QED  BY <1>3, <2>2, <2>4, <2>5, WriteStep
<1>. QED  BY <1>4, <1>5

(* The session: unresolved groups, reused tests, a session that cannot open.  *)
LEMMA SessionWrites ==
  ASSUME Sound(report), OpenSession
  PROVE  Writes
<1>. DEFINE stepset == {StepName[g] : g \in Unresolved}
            unresolved == {GroupEngine(g) : g \in Unresolved}
            resolved == RecordEvidenceFailures(report, stepset)
            seenOf(reused) == IF reused = {} THEN resolved ELSE Observe(resolved, "Tests", "Completed")
            lostOf(owed) == {[step |-> StepName[owed[i][1]], exit |-> NoExit] : i \in DOMAIN owed}
            enginesOf(owed) == {GroupEngine(owed[i][1]) : i \in DOMAIN owed}
<1>1. PICK reused, owed :
         \/ ReportStep("coverage", seenOf(reused), unresolved, {})
         \/ ReportStep("session", seenOf(reused), unresolved, {})
         \/ ReportStep("coverage", [seenOf(reused) EXCEPT !.orch = @ \cup lostOf(owed)],
                       unresolved \cup enginesOf(owed), {})
  BY DEF OpenSession
<1>. DEFINE seen == seenOf(reused)
            lost == lostOf(owed)
            engines == enginesOf(owed)
<1>2. unresolved # {} <=> stepset # {}
  OBVIOUS
<1>3. lost # {} <=> engines # {}
  <2>1. /\ \A i \in DOMAIN owed : [step |-> StepName[owed[i][1]], exit |-> NoExit] \in lost
        /\ \A i \in DOMAIN owed : GroupEngine(owed[i][1]) \in engines
    OBVIOUS
  <2>2. /\ \A v \in lost : \E i \in DOMAIN owed : v = [step |-> StepName[owed[i][1]], exit |-> NoExit]
        /\ \A e \in engines : \E i \in DOMAIN owed : e = GroupEngine(owed[i][1])
    OBVIOUS
  <2>. HIDE DEF lost, engines
  <2>. QED  BY <2>1, <2>2
<1>4. \A v \in lost : v.exit = NoExit
  <2>1. \A v \in lost : \E i \in DOMAIN owed : v = [step |-> StepName[owed[i][1]], exit |-> NoExit]
    OBVIOUS
  <2>. HIDE DEF lost
  <2>. QED  BY <2>1
<1>5. Wrote(report, resolved, unresolved, {})
  <2>. HIDE DEF stepset, unresolved
  <2>. QED  BY <1>2, WroteFailures
<1>6. /\ "coverage" \in Writing \cup {"emit"} /\ "session" \in Writing \cup {"emit"}
      /\ IsReport(report) /\ Sound(resolved) /\ "Tests" \in Engines
  BY <1>5 DEF Writing, Wrote, Sound, Engines, CommandEngines
<1>7. Wrote(report, seen, unresolved, {})
  <2>1. CASE reused = {}
    BY <1>5, <2>1
  <2>2. CASE reused # {}
    <3>. DEFINE observed == Observe(resolved, "Tests", "Completed")
    <3>1. seen = observed
      BY <2>2
    <3>. HIDE DEF resolved, unresolved
    <3>2. Wrote(resolved, observed, {}, {})
      BY <1>6, WroteObserve
    <3>. HIDE DEF observed, seen
    <3>3. Wrote(report, observed, unresolved \cup {}, {} \cup {})
      BY <1>5, <1>6, <3>2, WroteBoth
    <3>4. unresolved \cup {} = unresolved /\ {} \cup {} = {}
      OBVIOUS
    <3>. QED  BY <3>1, <3>3, <3>4
  <2>. QED  BY <2>1, <2>2
<1>8. ReportStep("coverage", seen, unresolved, {}) \/ ReportStep("session", seen, unresolved, {})
      \/ ReportStep("coverage", [seen EXCEPT !.orch = @ \cup lost], unresolved \cup engines, {})
  BY <1>1
<1>. HIDE DEF seen, unresolved, lost, engines
<1>9. CASE ReportStep("coverage", seen, unresolved, {})
  BY <1>6, <1>7, <1>9, WriteStep
<1>10. CASE ReportStep("session", seen, unresolved, {})
  BY <1>6, <1>7, <1>10, WriteStep
<1>11. CASE ReportStep("coverage", [seen EXCEPT !.orch = @ \cup lost], unresolved \cup engines, {})
  <2>. DEFINE new == [seen EXCEPT !.orch = @ \cup lost]
  <2>1. Sound(seen)
    BY <1>7 DEF Wrote
  <2>2. Wrote(seen, new, lost, {})
    BY <1>4, <2>1, WroteLost
  <2>. HIDE DEF new
  <2>3. Wrote(report, new, unresolved \cup lost, {} \cup {})
    BY <1>6, <1>7, <2>2, WroteBoth
  <2>4. Wrote(report, new, unresolved \cup engines, {})
    BY <1>3, <2>3 DEF Wrote
  <2>5. ReportStep("coverage", new, unresolved \cup engines, {})
    BY <1>11 DEF new
  <2>. QED  BY <1>6, <2>4, <2>5, WriteStep
<1>. QED  BY <1>8, <1>9, <1>10, <1>11

(* One project command, Clippy and its diagnostics included.                  *)
LEMMA CommandWrites ==
  ASSUME Sound(report), RunCommand
  PROVE  Writes
<1>. DEFINE group == steps[count + 1][1]
            command == steps[count + 1][2]
            engine == GroupEngine(group)
            clippy == group = "Lint" /\ command.clippy
            next == IF count + 1 = Len(steps) THEN "close" ELSE "session"
            missingOf(code, stream) ==
               IF IF clippy THEN ~ClippyFinished(code, stream) /\ (code = 0 \/ Unevaluated(code))
                            ELSE Unevaluated(code)
               THEN {engine} ELSE {}
            badOf(code, stream) ==
               IF code \notin {0, 127, NoExit} \/ (clippy /\ stream.blocking) THEN {engine} ELSE {}
<1>1. PICK code \in {0, 1, 127, NoExit}, stream \in Streams \cup {NoStream} :
         ReportStep(next, RecordResult(report, group, command, code, stream),
                    missingOf(code, stream), badOf(code, stream))
  BY DEF RunCommand
<1>. DEFINE missing == missingOf(code, stream)
            bad == badOf(code, stream)
            new == RecordResult(report, group, command, code, stream)
            tool == [report EXCEPT !.tool = @ \/ stream.blocking]
            blocked == IF stream.blocking THEN {engine} ELSE {}
<1>2. next \in Writing \cup {"emit"} /\ IsReport(report) /\ stream.blocking \in BOOLEAN
  <2>1. stream.blocking \in BOOLEAN
    <3>1. Streams = [complete : BOOLEAN, success : BOOLEAN, blocking : BOOLEAN]
      BY DEF Streams
    <3>2. NoStream.blocking \in BOOLEAN
      BY DEF NoStream
    <3>3. \A s \in Streams : s.blocking \in BOOLEAN
      BY <3>1
    <3>. QED  BY <3>2, <3>3
  <2>2. next \in {"close", "session"}
    OBVIOUS
  <2>. HIDE DEF next
  <2>. QED  BY <2>1, <2>2 DEF Writing, Sound
<1>3. engine \in Engines /\ "Lint" \in Engines
  BY AnsweringEngine DEF GroupEngine, Engines, CommandEngines
<1>4. Unevaluated(NoExit) /\ (Unevaluated(code) <=> code \notin {0, 1})
  BY DEF Unevaluated, NoExit
<1>5. ReportStep(next, new, missing, bad)
  BY <1>1
<1>6. /\ missing # {} <=> IF clippy THEN ~ClippyFinished(code, stream) /\ (code = 0 \/ Unevaluated(code))
                                    ELSE Unevaluated(code)
      /\ bad # {} <=> code \notin {0, 127, NoExit} \/ (clippy /\ stream.blocking)
      /\ blocked # {} <=> stream.blocking
  OBVIOUS
<1>7. new = IF clippy
            THEN IF ClippyFinished(code, stream)
                 THEN Observe(tool, "Lint", IF stream.blocking THEN "Failed" ELSE "Completed")
                 ELSE AddViolation(tool, "lint", IF code = 0 THEN NoExit ELSE code)
            ELSE IF code = 0 THEN Observe(report, engine, "Completed")
            ELSE AddViolation(report, StepName[group], code)
  BY DEF RecordResult
<1>8. Wrote(report, tool, {}, blocked) /\ (stream.blocking => tool.tool)
  <2>. HIDE DEF blocked
  <2>. QED  BY <1>2, <1>6, WroteDiagnostic
<1>9. Sound(tool)
  BY <1>8 DEF Wrote
<1>. HIDE DEF group, command, engine, clippy, missing, bad, new, tool, blocked, next
<1>10. Wrote(report, new, missing, bad)
  <2>1. CASE clippy /\ ClippyFinished(code, stream)
    <3>. DEFINE state == IF stream.blocking THEN "Failed" ELSE "Completed"
    <3>1. new = Observe(tool, "Lint", state)
      BY <1>7, <2>1
    <3>2. state \in {"Completed", "Failed"} /\ (state = "Failed" => tool.tool)
      BY <1>8
    <3>. HIDE DEF state
    <3>3. Wrote(tool, new, {}, {})
      BY <1>3, <1>9, <3>1, <3>2, WroteObserve
    <3>4. Wrote(report, new, {} \cup {}, blocked \cup {})
      BY <1>2, <1>8, <3>3, WroteBoth
    <3>5. missing = {} \cup {} /\ (bad # {} <=> blocked \cup {} # {})
      BY <1>4, <1>6, <2>1 DEF ClippyFinished
    <3>. QED  BY <3>4, <3>5 DEF Wrote
  <2>2. CASE clippy /\ ~ClippyFinished(code, stream)
    <3>. DEFINE status == IF code = 0 THEN NoExit ELSE code
                m == IF Unevaluated(status) THEN {engine} ELSE {}
                b == IF Unevaluated(status) THEN {} ELSE {engine}
    <3>1. new = AddViolation(tool, "lint", status)
      BY <1>7, <2>2
    <3>2. (m # {} <=> Unevaluated(status)) /\ (b # {} <=> ~Unevaluated(status))
      OBVIOUS
    <3>3. Unevaluated(status) <=> code = 0 \/ Unevaluated(code)
      BY <1>4
    <3>. HIDE DEF status, m, b
    <3>4. Wrote(tool, new, m, b)
      BY <1>9, <3>1, <3>2, WroteViolation
    <3>5. Wrote(report, new, {} \cup m, blocked \cup b)
      BY <1>2, <1>8, <3>4, WroteBoth
    <3>6. missing # {} <=> {} \cup m # {}
      BY <1>6, <2>2, <3>2, <3>3
    <3>7. bad # {} <=> blocked \cup b # {}
      BY <1>4, <1>6, <2>2, <3>2, <3>3
    <3>. QED  BY <3>5, <3>6, <3>7 DEF Wrote
  <2>3. CASE ~clippy /\ code = 0
    <3>1. new = Observe(report, engine, "Completed")
      BY <1>7, <2>3
    <3>2. Wrote(report, new, {}, {})
      BY <1>3, <3>1, WroteObserve
    <3>3. missing = {} /\ bad = {}
      BY <1>4, <1>6, <2>3
    <3>. QED  BY <3>2, <3>3
  <2>4. CASE ~clippy /\ code # 0
    <3>1. new = AddViolation(report, StepName[group], code)
      BY <1>7, <2>4
    <3>2. (missing # {} <=> Unevaluated(code)) /\ (bad # {} <=> ~Unevaluated(code))
      BY <1>4, <1>6, <2>4
    <3>. QED  BY <3>1, <3>2, WroteViolation
  <2>. QED  BY <2>1, <2>2, <2>3, <2>4
<1>. QED  BY <1>2, <1>5, <1>10, WriteStep

(* The end of the session.                                                    *)
LEMMA CloseWrites ==
  ASSUME Sound(report), CloseSession
  PROVE  Writes
<1>. DEFINE first == steps[1][1]
            new == AddViolation(report, StepName[first], NoExit)
<1>1. ReportStep("coverage", report, {}, {}) \/ ReportStep("coverage", new, {GroupEngine(first)}, {})
  BY DEF CloseSession
<1>2. "coverage" \in Writing \cup {"emit"} /\ Unevaluated(NoExit)
  BY DEF Writing, Unevaluated
<1>3. Wrote(report, new, {GroupEngine(first)}, {})
  <2>. HIDE DEF first
  <2>. QED  BY <1>2, WroteViolation
<1>. HIDE DEF new
<1>. QED  BY <1>1, <1>2, <1>3, NothingStep, WriteStep

(* A coverage report, missing or scored.                                      *)
LEMMA ScoreWrites ==
  ASSUME Sound(report), NEW into, NEW missing, Wrote(report, into, missing, {}), NEW inputs,
         ScoreCoverage(into, missing, inputs)
  PROVE  Writes
<1>1. "mutation" \in Writing \cup {"emit"} /\ "Coverage" \in Engines
  BY DEF Writing, Engines, EvidenceEngines
<1>2. Sound(into) /\ IsReport(report)
  BY DEF Wrote, Sound
<1>3. CASE ReportStep("mutation", RecordEvidenceFailure(into, TRUE, "coverage-report"),
                      missing \cup {"Coverage"}, {})
  <2>. DEFINE new == RecordEvidenceFailure(into, TRUE, "coverage-report")
              one == {"Coverage"}
  <2>1. one # {}
    OBVIOUS
  <2>. HIDE DEF one
  <2>2. Wrote(into, new, one, {})
    BY <1>2, <2>1, WroteFailure
  <2>. HIDE DEF new
  <2>3. Wrote(report, new, missing \cup one, {} \cup {})
    BY <1>2, <2>2, WroteBoth
  <2>4. {} \cup {} = {}
    OBVIOUS
  <2>. QED  BY <1>1, <1>3, <2>3, <2>4, WriteStep DEF new, one
<1>4. CASE \E violated \in IF inputs THEN SUBSET CoverageMetrics ELSE {{}} :
             ReportStep("mutation",
                        [(IF inputs THEN Observe(into, "Coverage", "Completed") ELSE into)
                            EXCEPT !.cov = @ \cup violated],
                        missing \cup (IF violated \cap MissingCoverage # {} THEN {"Coverage"} ELSE {}),
                        IF violated \ MissingCoverage # {} THEN {"Coverage"} ELSE {})
  <2>1. PICK violated :
             ReportStep("mutation",
                        [(IF inputs THEN Observe(into, "Coverage", "Completed") ELSE into)
                            EXCEPT !.cov = @ \cup violated],
                        missing \cup (IF violated \cap MissingCoverage # {} THEN {"Coverage"} ELSE {}),
                        IF violated \ MissingCoverage # {} THEN {"Coverage"} ELSE {})
    BY <1>4
  <2>. DEFINE seen == IF inputs THEN Observe(into, "Coverage", "Completed") ELSE into
              m == IF violated \cap MissingCoverage # {} THEN {"Coverage"} ELSE {}
              b == IF violated \ MissingCoverage # {} THEN {"Coverage"} ELSE {}
              new == [seen EXCEPT !.cov = @ \cup violated]
  <2>2. ReportStep("mutation", new, missing \cup m, b)
    BY <2>1
  <2>3. (m # {} <=> violated \cap MissingCoverage # {}) /\ (b # {} <=> violated \ MissingCoverage # {})
    OBVIOUS
  <2>4. Wrote(into, seen, {}, {})
    <3>1. Wrote(into, into, {}, {})
      BY <1>2, WroteNothing
    <3>2. Wrote(into, Observe(into, "Coverage", "Completed"), {}, {})
      BY <1>1, <1>2, WroteObserve
    <3>. QED  BY <3>1, <3>2
  <2>. HIDE DEF seen, m, b
  <2>5. Sound(seen) /\ IsReport(into)
    BY <1>2, <2>4 DEF Wrote, Sound
  <2>6. Wrote(seen, new, m, b)
    BY <2>3, <2>5, WroteCoverage
  <2>. HIDE DEF new
  <2>7. Wrote(into, new, {} \cup m, {} \cup b)
    BY <2>4, <2>5, <2>6, WroteBoth
  <2>8. Wrote(report, new, missing \cup ({} \cup m), {} \cup ({} \cup b))
    BY <1>2, <2>7, WroteBoth
  <2>9. missing \cup ({} \cup m) = missing \cup m /\ {} \cup ({} \cup b) = b
    OBVIOUS
  <2>. QED  BY <1>1, <2>2, <2>8, <2>9, WriteStep
<1>. QED  BY <1>3, <1>4 DEF ScoreCoverage

(* The coverage phase, which may abort the command.                           *)
LEMMA CoverageWrites ==
  ASSUME Sound(report), Coverage
  PROVE  Writes \/ Abort("error")
<1>. DEFINE one == {"Coverage"}
            wrote(step) == RecordEvidenceFailure(report, TRUE, step)
<1>1. \/ \E inputs \in BOOLEAN : ScoreCoverage(report, {}, inputs)
      \/ \E inputs \in BOOLEAN : ScoreCoverage(wrote("coverage-source-classification"), one, inputs)
      \/ \E inputs \in BOOLEAN : ScoreCoverage(wrote("coverage-diff"), one, inputs)
      \/ Abort("error")
  <2>1. CASE ScoreCoverage(report, {}, IF case.diff THEN HasChangedLines ELSE SourceFiles # {} \/ Config.critical)
    <3>. DEFINE inputs == (IF case.diff THEN HasChangedLines ELSE SourceFiles # {} \/ Config.critical) = TRUE
    <3>1. ScoreCoverage(report, {}, inputs)
      BY <2>1 DEF ScoreCoverage
    <3>2. inputs \in BOOLEAN
      OBVIOUS
    <3>. HIDE DEF inputs
    <3>. QED  BY <3>1, <3>2
  <2>2. CASE ScoreCoverage(wrote("coverage-source-classification"), one, Config.critical)
    <3>. DEFINE inputs == Config.critical = TRUE
    <3>1. ScoreCoverage(wrote("coverage-source-classification"), one, inputs)
      BY <2>2 DEF ScoreCoverage
    <3>2. inputs \in BOOLEAN
      OBVIOUS
    <3>. HIDE DEF inputs
    <3>. QED  BY <3>1, <3>2
  <2>3. CASE ScoreCoverage(wrote("coverage-diff"), one, FALSE)
    BY <2>3
  <2>. QED  BY <2>1, <2>2, <2>3 DEF Coverage
<1>2. Wrote(report, report, {}, {})
  BY WroteNothing
<1>3. \A step : Wrote(report, wrote(step), one, {})
  <2>1. one # {}
    OBVIOUS
  <2>. HIDE DEF one
  <2>. QED  BY <2>1, WroteFailure
<1>. HIDE DEF one, wrote
<1>. QED  BY <1>1, <1>2, <1>3, ScoreWrites

(* One mutation report.                                                       *)
LEMMA MutationWrites ==
  ASSUME Sound(report), MutationReport
  PROVE  Writes
<1>. DEFINE one == {"MutationReport"}
            seen == Observe(report, "MutationReport", "Completed")
            m(violated) == IF violated \cap IncompleteMutation # {} THEN one ELSE {}
            b(violated) == IF violated \ IncompleteMutation # {} THEN one ELSE {}
<1>1. \/ ReportStep("mutation", RecordEvidenceFailure(report, TRUE, "mutation-report"), one, {})
      \/ \E violated : ReportStep("mutation", [seen EXCEPT !.mut = @ \cup violated], m(violated), b(violated))
  BY DEF MutationReport
<1>2. /\ "mutation" \in Writing \cup {"emit"} /\ "MutationReport" \in Engines /\ IsReport(report) /\ one # {}
  BY DEF Writing, Engines, EvidenceEngines, Sound
<1>. HIDE DEF one
<1>3. CASE ReportStep("mutation", RecordEvidenceFailure(report, TRUE, "mutation-report"), one, {})
  <2>1. Wrote(report, RecordEvidenceFailure(report, TRUE, "mutation-report"), one, {})
    BY <1>2, WroteFailure
  <2>. QED  BY <1>2, <1>3, <2>1, WriteStep
<1>4. ASSUME NEW violated,
             ReportStep("mutation", [seen EXCEPT !.mut = @ \cup violated], m(violated), b(violated))
      PROVE  Writes
  <2>. DEFINE missing == m(violated)
              bad == b(violated)
              new == [seen EXCEPT !.mut = @ \cup violated]
  <2>1. Wrote(report, seen, {}, {})
    BY <1>2, WroteObserve
  <2>. HIDE DEF seen
  <2>2. Sound(seen)
    BY <2>1 DEF Wrote
  <2>3. /\ missing # {} <=> violated \cap IncompleteMutation # {}
        /\ bad # {} <=> violated \ IncompleteMutation # {}
    BY <1>2
  <2>4. ReportStep("mutation", new, missing, bad)
    BY <1>4
  <2>. HIDE DEF missing, bad
  <2>5. Wrote(seen, new, missing, bad)
    BY <2>2, <2>3, WroteMutation
  <2>. HIDE DEF new
  <2>6. Wrote(report, new, {} \cup missing, {} \cup bad)
    BY <1>2, <2>1, <2>5, WroteBoth
  <2>7. {} \cup missing = missing /\ {} \cup bad = bad
    OBVIOUS
  <2>. QED  BY <1>2, <2>4, <2>6, <2>7, WriteStep
<1>. QED  BY <1>1, <1>3, <1>4

(* The set of mutation reports.                                               *)
LEMMA MutationSetWrites ==
  ASSUME Sound(report), MutationSet
  PROVE  Writes
<1>. DEFINE one == {"MutationReport"}
<1>1. \/ ReportStep("emit", report, {}, {})
      \/ \E step : ReportStep("emit", RecordEvidenceFailure(report, TRUE, step), one, {})
  BY DEF MutationSet
<1>2. one # {} /\ "emit" \in Writing \cup {"emit"}
  OBVIOUS
<1>. HIDE DEF one
<1>3. \A step : Wrote(report, RecordEvidenceFailure(report, TRUE, step), one, {})
  BY <1>2, WroteFailure
<1>. QED  BY <1>1, <1>2, <1>3, NothingStep, WriteStep

-----------------------------------------------------------------------------
(* Before the ratchet.                                                        *)

\* A run that misses the evidence of an enabled kind.
Misses(run) ==
    /\ run.status = "failed"
    /\ \E kind \in {"coverage", "mutation"} : KindEnabled(kind) /\ run.kind \in {kind, "any"}

(* The missed steps, said of the runs.                                        *)
LEMMA MissedRuns ==
  /\ MissedSteps # {} <=> \E run \in ToSet(runs) : Misses(run)
  /\ case' = case => (MissedSteps' # {} <=> \E run \in ToSet(runs') : Misses(run))
<1>1. MissedSteps # {} <=> \E run \in ToSet(runs) : Misses(run)
  BY DEF MissedSteps, Misses, ToSet
<1>2. ASSUME case' = case
      PROVE  MissedSteps' # {} <=> \E run \in ToSet(runs') : Misses(run)
  <2>1. \A kind : KindEnabled(kind)' <=> KindEnabled(kind)
    BY <1>2, CaseFixed
  <2>. QED  BY <2>1 DEF MissedSteps, Misses, ToSet
<1>. QED  BY <1>1, <1>2

(* A sequence with one more element.                                          *)
LEMMA AnotherRun ==
  ASSUME NEW s, IsSequence(s), NEW x
  PROVE  IsSequence(Append(s, x)) /\ ToSet(Append(s, x)) = ToSet(s) \cup {x}
<1>. DEFINE T == ToSet(s) \cup {x}
<1>1. s \in Seq(T)
  BY Widened
<1>2. x \in T
  OBVIOUS
<1>3. Append(s, x) \in Seq(T)
  <2>. HIDE DEF T
  <2>. QED  BY <1>1, <1>2
<1>4. ToSet(Append(s, x)) = ToSet(s) \cup {x}
  <2>. HIDE DEF T
  <2>. QED  BY <1>1, <1>2, Appended DEF ToSet
<1>. QED  BY <1>3, <1>4 DEF IsSequence

(* Sequences of none and of one element.                                      *)
LEMMA ShortRuns ==
  /\ IsSequence(<< >>) /\ ToSet(<< >>) = {}
  /\ \A x : IsSequence(<<x>>) /\ ToSet(<<x>>) = {x}
<1>1. IsSequence(<< >>) /\ ToSet(<< >>) = {}
  BY DEF IsSequence, ToSet
<1>2. ASSUME NEW x
      PROVE  IsSequence(<<x>>) /\ ToSet(<<x>>) = {x}
  <2>1. ToSet(<<x>>) = {x}
    BY DEF ToSet
  <2>2. <<x>> \in Seq({x})
    OBVIOUS
  <2>. QED  BY <2>1, <2>2 DEF IsSequence
<1>. QED  BY <1>1, <1>2

(* Producers keep the invariant while missed steps account for the gaps.      *)
LEMMA EarlyKeeps ==
  ASSUME IInv, phase \in {"resolve", "evidence"}, phase' \in {"evidence", "static"},
         UNCHANGED <<case, report, files, result, signal, failed>>, plan' = GatePlan, IsSequence(runs'),
         gaps' # {} <=> MissedSteps' # {},
         phase' = "evidence" /\ (case.mode = "none" \/ ~Preflight) => runs' = << >>
  PROVE  IInv'
<1>. USE DEF IInv
<1>1. /\ phase \in Early /\ phase' \in Early
      /\ phase' \notin {"resolve", "ratchet", "rendered", "stdout"} \cup Writing \cup Closing \cup Leaving
      /\ phase \notin {"rendered", "stdout"} \cup Leaving
  BY DEF Early, Writing, Closing, Leaving
<1>2. CaseInv' /\ ReportInv'
  BY <1>1 DEF CaseInv, ReportInv
<1>3. EarlyInv'
  BY <1>1, CaseFixed DEF EarlyInv
<1>4. RatchetInv' /\ VerdictInv' /\ GapInv' /\ ResultInv'
  BY <1>1 DEF RatchetInv, VerdictInv, GapInv, ResultInv, Settled, Leaving
<1>5. ~Published /\ ~Published'
  BY <1>1 DEF FilesInv, Published
<1>6. PlanInv'
  BY <1>1, <1>5, CaseFixed DEF PlanInv
<1>7. FilesInv'
  BY <1>1, <1>5 DEF FilesInv, Published
<1>. QED  BY <1>2, <1>3, <1>4, <1>6, <1>7

(* Resolving the plan keeps the invariant.                                    *)
LEMMA ResolveKeeps ==
  ASSUME IInv, Resolve
  PROVE  IInv'
<1>1. CASE Abort("error")
  BY <1>1, AbortKeeps
<1>2. CASE ~Abort("error")
  <2>1. /\ phase = "resolve" /\ phase' = "evidence" /\ plan' = GatePlan
        /\ UNCHANGED <<case, report, runs, files, result, signal, failed, gaps>>
    BY <1>2 DEF Resolve
  <2>2. runs = << >> /\ (gaps # {} <=> MissedSteps # {}) /\ IsSequence(runs)
    BY <2>1 DEF IInv, EarlyInv, CaseInv, Early
  <2>3. MissedSteps' # {} <=> MissedSteps # {}
    BY <2>1, MissedRuns
  <2>. QED  BY <2>1, <2>2, <2>3, EarlyKeeps
<1>. QED  BY <1>1, <1>2

(* A producer run keeps the invariant.                                        *)
LEMMA ProducerKeeps ==
  ASSUME IInv, RunProducer
  PROVE  IInv'
<1>. DEFINE producer == EnabledProducers[Len(runs) + 1]
<1>1. PICK status :
         /\ runs' = Append(runs, [kind |-> producer.kind, status |-> status, command |-> producer.command])
         /\ gaps' = IF status = "failed" THEN gaps \cup {KindEngine(producer.kind)} ELSE gaps
         /\ phase' = IF signal # 0 \/ Len(runs') = Len(EnabledProducers) THEN "static" ELSE phase
  BY DEF RunProducer
<1>. DEFINE run == [kind |-> producer.kind, status |-> status, command |-> producer.command]
<1>2. /\ phase = "evidence" /\ case.mode # "none" /\ Preflight /\ Len(runs) < Len(EnabledProducers)
      /\ UNCHANGED <<case, plan, report, files, result, signal, failed>>
  BY DEF RunProducer, Unchanged
<1>3. plan = GatePlan /\ (gaps # {} <=> MissedSteps # {}) /\ IsSequence(runs) /\ case \in Cases
  BY <1>2 DEF IInv, PlanInv, EarlyInv, CaseInv, Early, Leaving
<1>4. producer.kind \in {"coverage", "mutation"} /\ KindEnabled(producer.kind)
  <2>. DEFINE all == ToSet(Config.producers)
              enabled == {p \in all : KindEnabled(p.kind)}
  <2>1. IsSequence(Config.producers) /\ \A p \in all : p.kind \in {"coverage", "mutation"}
    BY <1>3, CasesAssumption DEF Config
  <2>2. EnabledProducers = Among(Config.producers, enabled) /\ Config.producers \in Seq(all)
    BY <2>1 DEF EnabledProducers, IsSequence
  <2>. HIDE DEF all, enabled
  <2>3. EnabledProducers \in Seq(all) /\ ToSet(EnabledProducers) = ToSet(Config.producers) \cap enabled
    BY <2>2, AmongSelects
  <2>4. Len(runs) \in Nat
    BY <1>3 DEF IsSequence
  <2>5. Len(runs) + 1 \in DOMAIN EnabledProducers
    BY <1>2, <2>3, <2>4
  <2>6. producer \in ToSet(EnabledProducers)
    BY <2>5 DEF ToSet
  <2>. HIDE DEF producer
  <2>. QED  BY <2>1, <2>3, <2>6 DEF enabled
<1>5. run.kind = producer.kind /\ run.status = status
  OBVIOUS
<1>6. runs' = Append(runs, run) /\ (gaps' # {} <=> gaps # {} \/ status = "failed")
  BY <1>1
<1>7. phase' \in {"evidence", "static"}
  BY <1>1, <1>2
<1>. HIDE DEF run, producer
<1>8. IsSequence(runs') /\ ToSet(runs') = ToSet(runs) \cup {run}
  BY <1>3, <1>6, AnotherRun
<1>9. Misses(run) <=> status = "failed"
  BY <1>4, <1>5 DEF Misses
<1>10. gaps' # {} <=> MissedSteps' # {}
  BY <1>2, <1>3, <1>6, <1>8, <1>9, MissedRuns
<1>. QED  BY <1>2, <1>3, <1>7, <1>8, <1>10, EarlyKeeps

(* So does running none.                                                      *)
LEMMA SkipProducersKeeps ==
  ASSUME IInv, SkipProducers
  PROVE  IInv'
<1>1. /\ phase = "evidence" /\ phase' = "static" /\ (case.mode = "none" \/ ~Preflight)
      /\ UNCHANGED <<case, plan, report, files, result, signal, failed>>
  BY DEF SkipProducers, Unchanged
<1>2. /\ plan = GatePlan /\ (gaps # {} <=> MissedSteps # {}) /\ runs = << >>
  BY <1>1 DEF IInv, PlanInv, EarlyInv, Early, Leaving
<1>3. gaps = {}
  BY <1>2, MissedRuns, ShortRuns
<1>4. CASE case.mode = "none"
  <2>1. runs' = << >> /\ gaps' = {}
    BY <1>3, <1>4 DEF SkipProducers
  <2>2. gaps' # {} <=> MissedSteps' # {}
    BY <1>1, <2>1, MissedRuns, ShortRuns
  <2>3. IsSequence(runs')
    BY <2>1, ShortRuns
  <2>. QED  BY <1>1, <1>2, <2>2, <2>3, EarlyKeeps
<1>5. CASE case.mode # "none"
  <2>. DEFINE run == [kind |-> "any", status |-> "failed", command |-> Nothing]
              engines == {KindEngine(k) : k \in {k \in {"coverage", "mutation"} : KindEnabled(k)}}
  <2>1. runs' = <<run>> /\ gaps' = gaps \cup engines
    BY <1>5 DEF SkipProducers
  <2>2. run.kind = "any" /\ run.status = "failed"
    OBVIOUS
  <2>3. engines # {} <=> KindEnabled("coverage") \/ KindEnabled("mutation")
    OBVIOUS
  <2>. HIDE DEF run, engines
  <2>4. engines # {} <=> Misses(run)
    BY <2>2, <2>3 DEF Misses
  <2>5. IsSequence(runs') /\ ToSet(runs') = {run}
    BY <2>1, ShortRuns
  <2>6. gaps' # {} <=> MissedSteps' # {}
    BY <1>1, <1>3, <2>1, <2>4, <2>5, MissedRuns
  <2>. QED  BY <1>1, <1>2, <2>5, <2>6, EarlyKeeps
<1>. QED  BY <1>4, <1>5

-----------------------------------------------------------------------------
(* The static phase and the ratchet.                                          *)

(* The static phase keeps the invariant.                                      *)
LEMMA StaticKeeps ==
  ASSUME IInv, Static
  PROVE  IInv' /\ Worsens
<1>. USE DEF IInv
<1>1. CASE Abort("error")
  <2>1. report' = report
    BY <1>1 DEF Abort
  <2>. QED  BY <1>1, <2>1, AbortKeeps, KeptWorsens
<1>2. CASE ~Abort("error")
  <2>. DEFINE draft == StaticReport
              new == RecordProducers(draft)
              ids == {EvidenceEngine(s) : s \in MissedSteps}
              lost == {[step |-> s, exit |-> NoExit] : s \in MissedSteps}
              observed == ObserveAll(draft, ids, "Incomplete")
  <2>1. /\ phase = "static" /\ phase' = "ratchet" /\ report' = new /\ gaps' = gaps \cup BlockingGaps
        /\ failed' = failed \cup {} /\ UNCHANGED <<case, plan, signal, exit, runs, files, result>>
    BY <1>2 DEF Static, ReportStep, Unchanged
  <2>2. /\ plan = GatePlan /\ (gaps # {} <=> MissedSteps # {}) /\ report = NewReport /\ failed = {}
        /\ ~Published /\ case \in Cases
    BY <2>1 DEF PlanInv, EarlyInv, FilesInv, CaseInv, Early, Leaving, Published
  <2>3. /\ draft \in Drafts(Findings)
        /\ draft.orch # {} <=> BlockingGaps # {}
        /\ StaticGaps(TRUE) # {} => \E e \in EnabledEngines : draft.obs[e] = "Incomplete"
        /\ Blocking # {} <=> \E f \in ToSet(draft.findings) : f.engine # "Clones"
    BY <2>2, StaticDraft
  <2>. HIDE DEF draft
  <2>4. new = [observed EXCEPT !.orch = @ \cup lost]
    BY DEF RecordProducers, RecordEvidenceFailures
  <2>5. (\A v \in lost : v.exit = NoExit) /\ (lost # {} <=> MissedSteps # {})
    <3>1. \A s \in MissedSteps : [step |-> s, exit |-> NoExit] \in lost
      OBVIOUS
    <3>2. \A v \in lost : \E s \in MissedSteps : v = [step |-> s, exit |-> NoExit]
      OBVIOUS
    <3>3. \A v \in lost : v.exit = NoExit
      BY <3>2
    <3>. HIDE DEF lost
    <3>. QED  BY <3>1, <3>2, <3>3
  <2>. HIDE DEF lost, ids, new
  <2>6. Adds(Findings, draft, observed) /\ observed.findings = draft.findings /\ observed.orch = draft.orch
    BY <2>3, DraftObserveAll
  <2>7. observed \in Drafts(Findings)
    BY <2>6 DEF Adds
  <2>. HIDE DEF observed
  <2>8. new = Revised(observed, observed.obs, observed.findings, observed.orch \cup lost)
    BY <2>4, <2>7, DraftFields
  <2>9. /\ new.obs = observed.obs /\ new.findings = draft.findings /\ new.orch = draft.orch \cup lost
        /\ new.cov = {} /\ new.mut = {} /\ new.tool = FALSE
        /\ new = [obs |-> new.obs, findings |-> new.findings, orch |-> new.orch, cov |-> new.cov,
                  mut |-> new.mut, tool |-> new.tool]
    BY <2>6, <2>7, <2>8, DraftTypes DEF Revised
  <2>10. /\ new.obs \in [Engines -> {"Unobserved", "Completed", "Incomplete"}]
         /\ new.findings \in Seq(Findings) /\ \A v \in new.orch : v.exit = NoExit
    <3>1. observed.obs \in [Engines -> {"Unobserved", "Completed", "Incomplete"}]
      BY <2>7, DraftTypes DEF Unobserved
    <3>2. draft.findings \in Seq(Findings) /\ draft.orch \in SUBSET [step : StaticSteps, exit : {NoExit}]
      BY <2>3, DraftTypes
    <3>3. \A v \in draft.orch : v.exit = NoExit
      BY <3>2
    <3>. QED  BY <2>5, <2>9, <3>1, <3>2, <3>3
  <2>11. Sound(new)
    BY <2>9, <2>10, Ranks DEF Sound, IsReport
  <2>12. /\ phase' \notin Early \cup Writing \cup Closing \cup Leaving \cup {"resolve", "rendered", "stdout"}
         /\ phase' \notin {"done", "evidence"} /\ ~Published'
    BY <2>1, <2>2 DEF Early, Writing, Closing, Leaving, Published
  <2>13. CaseInv' /\ ReportInv' /\ EarlyInv'
    BY <2>1, <2>11, <2>12 DEF CaseInv, ReportInv, EarlyInv
  <2>14. RatchetInv'
    <3>1. gaps' # {} <=> report'.orch # {}
      BY <2>1, <2>2, <2>3, <2>5, <2>9
    <3>2. (\E f \in ToSet(draft.findings) : f.engine # "Clones")
             <=> \E i \in DOMAIN new.findings : new.findings[i].engine # "Clones"
      BY <2>9 DEF ToSet
    <3>3. Blocking' # {} <=> \E i \in DOMAIN report'.findings : report'.findings[i].engine # "Clones"
      BY <2>1, <2>3, <3>2, CaseFixed
    <3>. QED  BY <2>1, <2>2, <2>9, <2>10, <3>1, <3>3 DEF RatchetInv
  <2>15. GapInv'
    <3>1. EnabledEngines \subseteq Engines
      BY DEF EnabledEngines, Engines, StaticEngines, CommandEngines
    <3>2. \A e \in EnabledEngines : draft.obs[e] = "Incomplete" => new.obs[e] = "Incomplete"
      BY <2>6, <2>9, <3>1 DEF Adds
    <3>3. StaticGaps(TRUE)' # {} => \E e \in EnabledEngines' : report'.obs[e] = "Incomplete"
      BY <2>1, <2>3, <3>2, CaseFixed
    <3>. QED  BY <3>3 DEF GapInv
  <2>16. VerdictInv' /\ ResultInv'
    BY <2>12 DEF VerdictInv, ResultInv, Settled
  <2>17. PlanInv'
    BY <2>1, <2>2, <2>12, CaseFixed DEF PlanInv
  <2>18. FilesInv'
    BY <2>1, <2>12 DEF FilesInv, Published
  <2>19. Worsens
    <3>1. \A e \in Engines : Rank[new.obs[e]] \in Nat /\ Rank[report.obs[e]] = 0
      BY <2>2, <2>11, Ranks DEF Sound, IsReport, NewReport, Unobserved
    <3>2. report.orch = {} /\ report.cov = {} /\ report.mut = {} /\ report.tool = FALSE
      BY <2>2 DEF NewReport
    <3>. QED  BY <2>1, <3>1, <3>2 DEF Worsens
  <2>. QED  BY <2>13, <2>14, <2>15, <2>16, <2>17, <2>18, <2>19
<1>. QED  BY <1>1, <1>2

(* The verdict counts from here on.                                           *)
LEMMA RatchetedKeeps ==
  ASSUME IInv, phase = "ratchet", NEW new, NEW missing, NEW bad,
         ReportStep("generated", new, missing, bad), Sound(new), Grows(report, new),
         IncompleteEvidence(new) <=> gaps \cup missing # {}, FailedEvidence(new) <=> bad # {}
  PROVE  IInv'
<1>. USE DEF IInv
<1>1. /\ case' = case /\ phase' = "generated" /\ report' = new /\ runs' = runs /\ files' = files
      /\ plan' = plan /\ signal' = signal /\ result' = result
      /\ gaps' = gaps \cup missing /\ failed' = failed \cup bad
  BY DEF ReportStep, Unchanged
<1>2. /\ Settled'
      /\ phase' \notin Early \cup Leaving \cup {"ratchet", "resolve", "evidence", "rendered", "stdout", "done"}
      /\ phase \notin {"resolve", "rendered", "stdout"} \cup Leaving
  BY <1>1 DEF Settled, Writing, Closing, Early, Leaving
<1>3. CaseInv' /\ ReportInv' /\ EarlyInv' /\ RatchetInv' /\ ResultInv'
  BY <1>1, <1>2 DEF CaseInv, ReportInv, EarlyInv, RatchetInv, ResultInv, Writing, Closing
<1>4. failed = {}
  BY DEF RatchetInv
<1>5. VerdictInv'
  BY <1>1, <1>4 DEF VerdictInv
<1>6. GapInv'
  <2>1. EnabledEngines \subseteq Engines
    BY DEF EnabledEngines, Engines, StaticEngines, CommandEngines
  <2>2. ASSUME NEW e \in Engines, report.obs[e] = "Incomplete"  PROVE report'.obs[e] = "Incomplete"
    BY <1>1, <2>2, StaysMissed DEF Sound
  <2>. QED  BY <1>1, <2>1, <2>2, CaseFixed DEF GapInv
<1>7. ~Published /\ ~Published'
  BY <1>1, <1>2 DEF FilesInv, Published
<1>8. PlanInv'
  BY <1>1, <1>2, <1>7, CaseFixed DEF PlanInv
<1>9. FilesInv'
  BY <1>1, <1>2, <1>7 DEF FilesInv, Published
<1>. QED  BY <1>3, <1>5, <1>6, <1>8, <1>9

(* At the ratchet the report holds static evidence only.                      *)
LEMMA RatchetEvidence ==
  ASSUME IInv, phase = "ratchet"
  PROVE  /\ IncompleteEvidence(report) <=> gaps # {}
         /\ FailedEvidence(report) <=> report.findings # << >>
         /\ \A v \in report.orch : ~(~Unevaluated(v.exit))
         /\ report.cov = {} /\ report.mut = {} /\ ~report.tool
<1>1. /\ report.cov = {} /\ report.mut = {} /\ ~report.tool /\ (gaps # {} <=> report.orch # {})
      /\ \A v \in report.orch : Unevaluated(v.exit)
  BY DEF IInv, RatchetInv, Unevaluated
<1>. QED  BY <1>1 DEF IncompleteEvidence, FailedEvidence

(* There are engines with findings when there are findings.                   *)
LEMMA EnginesFound ==
  ASSUME NEW T, NEW s \in Seq(T)
  PROVE  FindingEngines(s) # {} <=> s # << >>
<1>1. CASE s = << >>
  BY <1>1 DEF FindingEngines
<1>2. CASE s # << >>
  <2>1. Len(s) \in Nat /\ Len(s) # 0 /\ DOMAIN s = 1 .. Len(s)
    BY <1>2
  <2>2. 1 \in DOMAIN s
    BY <2>1
  <2>. QED  BY <1>2, <2>2 DEF FindingEngines
<1>. QED  BY <1>1, <1>2

(* A ratchet without its evidence lets every finding stand.                   *)
LEMMA RatchetLost ==
  ASSUME IInv, phase = "ratchet", NEW new, Wrote(report, new, {"LegacyRatchet"}, {}),
         ReportStep("generated", new, {"LegacyRatchet"}, FindingEngines(report.findings))
  PROVE  IInv' /\ Worsens
<1>1. Sound(new) /\ Grows(report, new) /\ new.findings = report.findings /\ IncompleteEvidence(new)
  BY DEF Wrote
<1>2. FailedEvidence(new) <=> FindingEngines(report.findings) # {}
  <2>1. report.findings \in Seq(Findings)
    BY ReportTypes DEF IInv, ReportInv, Sound
  <2>2. FindingEngines(report.findings) # {} <=> report.findings # << >>
    BY <2>1, EnginesFound
  <2>. QED  BY <2>2, RatchetEvidence DEF Wrote
<1>3. gaps \cup {"LegacyRatchet"} # {}
  OBVIOUS
<1>4. IInv'
  BY <1>1, <1>2, <1>3, RatchetedKeeps
<1>. QED  BY <1>1, <1>4 DEF Worsens, Grows, ReportStep

(* What an engine observed is all that an observation changes.                *)
LEMMA ObserveFields ==
  ASSUME NEW r, Sound(r), NEW e \in Engines
  PROVE  LET new == Observe(r, e, "Completed")
         IN  /\ Sound(new) /\ Grows(r, new) /\ new.findings = r.findings /\ new.orch = r.orch
             /\ new.cov = r.cov /\ new.mut = r.mut /\ new.tool = r.tool
<1>. DEFINE new == Observe(r, e, "Completed")
            obs == [r.obs EXCEPT ![e] = "Completed"]
<1>1. IsReport(r)
  BY DEF Sound
<1>2. new = r \/ new = [r EXCEPT !.obs = obs]
  BY DEF Observe
<1>3. Sound(new) /\ Grows(r, new) /\ new.findings = r.findings
  <2>1. Wrote(r, new, {}, {})
    BY WroteObserve
  <2>. HIDE DEF new
  <2>. QED  BY <2>1 DEF Wrote
<1>4. new.orch = r.orch /\ new.cov = r.cov /\ new.mut = r.mut /\ new.tool = r.tool
  <2>1. CASE new = r
    BY <2>1
  <2>2. CASE new = [r EXCEPT !.obs = obs]
    <3>. HIDE DEF obs
    <3>1. [r EXCEPT !.obs = obs] = Composed(obs, r.findings, r.orch, r.cov, r.mut, r.tool)
      BY <1>1, ReportFields
    <3>. HIDE DEF new
    <3>. QED  BY <2>2, <3>1 DEF Composed
  <2>. HIDE DEF new
  <2>. QED  BY <1>2, <2>1, <2>2
<1>. HIDE DEF new
<1>. QED  BY <1>3, <1>4 DEF new

(* The findings the ratchet keeps are findings of the report.                 *)
LEMMA RatchetKept ==
  ASSUME case \in Cases, Sound(report)
  PROVE  LET kept == ApplyLegacyRatchet(report.findings, BaselineReport.findings, case.changes).retained
         IN  kept \in Seq(Findings) /\ ToSet(kept) \subseteq ToSet(report.findings)
<1>. DEFINE current == report.findings
            baseline == BaselineReport.findings
            ratcheted == ApplyLegacyRatchet(current, baseline, case.changes)
<1>1. current \in Seq(Findings)
  BY ReportTypes DEF Sound
<1>2. baseline \in Seq(Findings)
  BY BaselineDraft, DraftTypes
<1>3. \A f \in Findings : f.actual \in Nat
  BY CaseScans
<1>. HIDE DEF current, baseline
<1>4. /\ ratcheted \in Matchings(Findings, baseline)
      /\ Ratcheted(ratcheted, Len(current), current, baseline, case.changes)
  <2>. HIDE DEF ratcheted
  <2>. QED  BY <1>1, <1>2, <1>3, RatchetFold DEF ratcheted
<1>. HIDE DEF ratcheted
<1>5. ratcheted.retained \in Seq(Findings)
  BY <1>4 DEF Matchings
<1>6. \A i \in DOMAIN ratcheted.retained : \E j \in 1 .. Len(current) : ratcheted.retained[i] = current[j]
  BY <1>4 DEF Ratcheted
<1>7. ToSet(ratcheted.retained) \subseteq ToSet(current)
  <2>1. DOMAIN current = 1 .. Len(current)
    BY <1>1
  <2>. QED  BY <1>6, <2>1 DEF ToSet
<1>. QED  BY <1>5, <1>7 DEF current, baseline, ratcheted

(* A ratchet with its evidence keeps some of the findings.                    *)
LEMMA RatchetSettles ==
  ASSUME IInv, phase = "ratchet", NEW loaded, Sound(loaded), Grows(report, loaded),
         loaded.orch = report.orch, loaded.cov = report.cov, loaded.mut = report.mut,
         loaded.tool = report.tool,
         NEW kept \in Seq(Findings), ToSet(kept) \subseteq ToSet(report.findings),
         ReportStep("generated", [loaded EXCEPT !.findings = kept], {}, FindingEngines(kept))
  PROVE  IInv' /\ Worsens
<1>. DEFINE new == [loaded EXCEPT !.findings = kept]
<1>1. new = Composed(loaded.obs, kept, loaded.orch, loaded.cov, loaded.mut, loaded.tool)
  BY ReportFields DEF Sound
<1>2. loaded.obs \in [Engines -> Observed] /\ loaded.tool \in BOOLEAN
  BY ReportTypes DEF Sound
<1>3. ReportStep("generated", new, {}, FindingEngines(kept))
  OBVIOUS
<1>. HIDE DEF new
<1>4. /\ IsReport(new) /\ new.obs = loaded.obs /\ new.findings = kept /\ new.orch = report.orch
      /\ new.cov = report.cov /\ new.mut = report.mut /\ new.tool = report.tool
  BY <1>1, <1>2, ReportMade
<1>5. Sound(new) /\ Grows(report, new)
  BY <1>4 DEF Sound, Grows
<1>6. IncompleteEvidence(new) <=> gaps \cup {} # {}
  BY <1>4, RatchetEvidence DEF IncompleteEvidence
<1>7. FailedEvidence(new) <=> FindingEngines(kept) # {}
  <2>1. FindingEngines(kept) # {} <=> kept # << >>
    BY EnginesFound
  <2>. QED  BY <1>4, <2>1, RatchetEvidence DEF FailedEvidence
<1>8. IInv'
  BY <1>3, <1>5, <1>6, <1>7, RatchetedKeeps
<1>9. report' = new
  BY <1>3 DEF ReportStep
<1>. QED  BY <1>4, <1>5, <1>8, <1>9 DEF Worsens, Grows

(* The ratchet keeps the invariant.                                           *)
LEMMA RatchetKeeps ==
  ASSUME IInv, Ratchet
  PROVE  IInv' /\ Worsens
<1>. DEFINE loaded == Observe(report, "LegacyRatchet", "Completed")
            failedLoad == RecordEvidenceFailure(loaded, TRUE, "legacy-ratchet")
            kept == ApplyLegacyRatchet(report.findings, BaselineReport.findings, case.changes).retained
<1>1. /\ phase = "ratchet"
      /\ \/ ReportStep("generated", RatchetFailure, {"LegacyRatchet"}, FindingEngines(report.findings))
         \/ ReportStep("generated", failedLoad, {"LegacyRatchet"}, FindingEngines(report.findings))
         \/ ReportStep("generated", [loaded EXCEPT !.findings = kept], {}, FindingEngines(kept))
  BY DEF Ratchet
<1>2. Sound(report) /\ IsReport(report) /\ "LegacyRatchet" \in Engines /\ case \in Cases
  BY DEF IInv, ReportInv, CaseInv, Sound, Engines, EvidenceEngines
<1>3. /\ Sound(loaded) /\ Grows(report, loaded) /\ loaded.orch = report.orch
      /\ loaded.cov = report.cov /\ loaded.mut = report.mut /\ loaded.tool = report.tool
  BY <1>2, ObserveFields
<1>4. Wrote(report, loaded, {}, {})
  BY <1>2, WroteObserve
<1>5. kept \in Seq(Findings) /\ ToSet(kept) \subseteq ToSet(report.findings)
  BY <1>2, RatchetKept
<1>. HIDE DEF loaded, kept
<1>6. Wrote(report, RatchetFailure, {"LegacyRatchet"}, {})
  BY <1>2, WroteFailure DEF RatchetFailure
<1>7. Wrote(report, failedLoad, {"LegacyRatchet"}, {})
  <2>1. Wrote(loaded, failedLoad, {"LegacyRatchet"}, {})
    BY <1>3, WroteFailure
  <2>. HIDE DEF failedLoad
  <2>2. Wrote(report, failedLoad, {} \cup {"LegacyRatchet"}, {} \cup {})
    BY <1>2, <1>4, <2>1, WroteBoth
  <2>3. {} \cup {"LegacyRatchet"} = {"LegacyRatchet"} /\ {} \cup {} = {}
    OBVIOUS
  <2>. QED  BY <2>2, <2>3
<1>. HIDE DEF failedLoad
<1>8. CASE ReportStep("generated", RatchetFailure, {"LegacyRatchet"}, FindingEngines(report.findings))
  BY <1>1, <1>6, <1>8, RatchetLost
<1>9. CASE ReportStep("generated", failedLoad, {"LegacyRatchet"}, FindingEngines(report.findings))
  BY <1>1, <1>7, <1>9, RatchetLost
<1>10. CASE ReportStep("generated", [loaded EXCEPT !.findings = kept], {}, FindingEngines(kept))
  BY <1>1, <1>3, <1>5, <1>10, RatchetSettles
<1>. QED  BY <1>1, <1>8, <1>9, <1>10

(* Without a ratchet the blocking findings and the clones are the verdict.    *)
LEMMA NoRatchetKeeps ==
  ASSUME IInv, NoRatchet
  PROVE  IInv' /\ Worsens
<1>. DEFINE bad == Blocking \cup (FindingEngines(report.findings) \cap {"Clones"})
<1>1. phase = "ratchet" /\ ReportStep("generated", report, {}, bad)
  BY DEF NoRatchet
<1>2. Sound(report) /\ Grows(report, report)
  BY GrowsNot DEF IInv, ReportInv, Sound
<1>3. IncompleteEvidence(report) <=> gaps \cup {} # {}
  BY <1>1, RatchetEvidence
<1>4. FailedEvidence(report) <=> bad # {}
  <2>1. Blocking # {} <=> \E i \in DOMAIN report.findings : report.findings[i].engine # "Clones"
    BY <1>1 DEF IInv, RatchetInv
  <2>2. FindingEngines(report.findings) \cap {"Clones"} # {}
           <=> \E i \in DOMAIN report.findings : report.findings[i].engine = "Clones"
    BY DEF FindingEngines
  <2>3. report.findings # << >> <=> \E i \in DOMAIN report.findings : TRUE
    <3>1. report.findings \in Seq(Findings)
      BY <1>2, ReportTypes DEF Sound
    <3>2. FindingEngines(report.findings) # {} <=> \E i \in DOMAIN report.findings : TRUE
      BY DEF FindingEngines
    <3>. QED  BY <3>1, <3>2, EnginesFound
  <2>4. FailedEvidence(report) <=> report.findings # << >>
    BY <1>1, RatchetEvidence
  <2>. QED  BY <2>1, <2>2, <2>3, <2>4
<1>. HIDE DEF bad
<1>5. IInv'
  BY <1>1, <1>2, <1>3, <1>4, RatchetedKeeps
<1>6. report' = report
  BY <1>1 DEF ReportStep
<1>. QED  BY <1>5, <1>6, KeptWorsens

-----------------------------------------------------------------------------
(* Publishing and leaving.                                                    *)

(* The document of a report depends on the invocation only.                   *)
LEMMA SameDocument ==
  ASSUME case' = case, report' = report
  PROVE  Document(report, GatePlan)' = Document(report, GatePlan)
  BY CaseFixed

(* Receiving a signal, or nothing at all, keeps the invariant.                *)
LEMMA StillKeeps ==
  ASSUME IInv, UNCHANGED <<case, phase, plan, report, runs, files, result, exit, gaps, failed>>,
         signal' \in Signals \cup {0}, phase = "done" => signal' = signal
  PROVE  IInv'
<1>. USE DEF IInv
<1>1. (Published' <=> Published) /\ (Settled' <=> Settled)
  BY DEF Settled, Published
<1>2. CaseInv' /\ ReportInv'
  BY DEF CaseInv, ReportInv
<1>3. EarlyInv'
  <2>1. MissedSteps' # {} <=> MissedSteps # {}
    BY MissedRuns
  <2>. QED  BY <2>1, CaseFixed DEF EarlyInv
<1>4. RatchetInv' /\ VerdictInv' /\ GapInv'
  BY <1>1, CaseFixed DEF RatchetInv, VerdictInv, GapInv
<1>5. PlanInv'
  BY <1>1, CaseFixed, PlanFixed DEF PlanInv
<1>6. FilesInv'
  BY <1>1, SameDocument DEF FilesInv
<1>7. ResultInv'
  BY DEF ResultInv, ExitsFor
<1>. QED  BY <1>2, <1>3, <1>4, <1>5, <1>6, <1>7

(* A step that changes neither report nor plan, on the way out.               *)
LEMMA QuietKeeps ==
  ASSUME IInv, UNCHANGED <<case, plan, report, runs, signal, gaps, failed>>,
         \/ phase \in Closing /\ phase' \in {"rendered", "stdout", "guard"}
         \/ phase \in Leaving /\ phase' \in Leaving /\ UNCHANGED <<files, result>>,
         FilesInv', ResultInv'
  PROVE  IInv'
<1>. USE DEF IInv
<1>1. (Settled' => Settled) /\ phase' \notin Early \cup {"ratchet", "resolve", "evidence"}
  <2>1. CASE phase \in Closing /\ phase' \in {"rendered", "stdout", "guard"}
    BY <2>1 DEF Settled, Closing, Early
  <2>2. CASE phase \in Leaving /\ phase' \in Leaving /\ UNCHANGED <<files, result>>
    <3>1. (Published' <=> Published) /\ result' = result
      BY <2>2 DEF Published
    <3>2. phase' \notin Writing \cup Closing \cup Early \cup {"ratchet", "resolve", "evidence"}
      BY <2>2 DEF Leaving, Writing, Closing, Early
    <3>. QED  BY <2>2, <3>1, <3>2 DEF Settled
  <2>. QED  BY <2>1, <2>2
<1>2. CaseInv' /\ ReportInv' /\ EarlyInv' /\ RatchetInv'
  BY <1>1 DEF CaseInv, ReportInv, EarlyInv, RatchetInv, Closing, Leaving
<1>3. VerdictInv' /\ GapInv'
  BY <1>1, CaseFixed DEF VerdictInv, GapInv
<1>4. PlanInv'
  <2>1. CASE phase \in Closing
    <3>1. plan = GatePlan
      BY <2>1 DEF PlanInv, Closing, Leaving
    <3>2. IsPlan(plan)'
      BY <3>1, GateIsPlan, PlanFixed
    <3>. QED  BY <3>1, <3>2, CaseFixed DEF PlanInv
  <2>2. CASE phase \in Leaving /\ phase' \in Leaving /\ UNCHANGED files
    <3>1. Published' <=> Published
      BY <2>2 DEF Published
    <3>. QED  BY <2>2, <3>1, PlanFixed DEF PlanInv
  <2>. QED  BY <2>1, <2>2
<1>. QED  BY <1>2, <1>3, <1>4

(* The document that is published.                                            *)
LEMMA ClosedDocument ==
  ASSUME IInv, phase \in Closing
  PROVE  Closed = Document(report, GatePlan) /\ Closed # Nothing
<1>1. plan = GatePlan /\ IsReport(report)
  BY DEF IInv, PlanInv, ReportInv, Sound, Closing, Leaving
<1>2. Document(report, GatePlan) # Nothing
  BY <1>1, GateIsPlan, DocumentStates
<1>. QED  BY <1>1, <1>2 DEF Closed

(* Writing the JSON report keeps the invariant.                               *)
LEMMA JsonKeeps ==
  ASSUME IInv, WriteJson
  PROVE  IInv' /\ report' = report
<1>. USE DEF IInv
<1>1. phase = "emit" /\ phase \in Closing
  BY DEF WriteJson, Closing
<1>2. ~Published /\ DOMAIN files = {"json", "rendered"}
  BY <1>1 DEF FilesInv, Leaving
<1>3. CASE case.json /\ WriteOutput("json", "rendered")
  <2>1. /\ UNCHANGED <<case, plan, report, runs, signal, gaps, failed, result>> /\ phase' = "rendered"
        /\ files' = [files EXCEPT !["json"] = Closed]
    BY <1>3 DEF WriteOutput
  <2>2. DOMAIN files' = {"json", "rendered"} /\ files'.json = Closed /\ files'.rendered = Nothing
    BY <1>2, <2>1 DEF Published
  <2>3. FilesInv'
    BY <1>1, <1>3, <2>1, <2>2, ClosedDocument, SameDocument DEF FilesInv
  <2>4. ResultInv'
    BY <2>1 DEF ResultInv, Leaving
  <2>. QED  BY <1>1, <2>1, <2>3, <2>4, QuietKeeps
<1>4. CASE ~case.json /\ Skip("rendered")
  <2>1. UNCHANGED <<case, plan, report, runs, signal, gaps, failed, result, files>> /\ phase' = "rendered"
    BY <1>4 DEF Skip
  <2>2. files.json = Nothing /\ files.rendered = Nothing
    BY <1>2 DEF Published
  <2>3. FilesInv'
    BY <1>2, <1>4, <2>1, <2>2 DEF FilesInv
  <2>4. ResultInv'
    BY <2>1 DEF ResultInv, Leaving
  <2>. QED  BY <1>1, <2>1, <2>3, <2>4, QuietKeeps
<1>5. CASE Abort("error")
  BY <1>5, AbortKeeps DEF Abort
<1>. QED  BY <1>3, <1>4, <1>5 DEF WriteJson

(* Writing the rendered report keeps the invariant.                           *)
LEMMA RenderedKeeps ==
  ASSUME IInv, WriteRendered
  PROVE  IInv' /\ report' = report
<1>. USE DEF IInv
<1>1. phase = "rendered" /\ phase \in Closing
  BY DEF WriteRendered, Closing
<1>2. /\ DOMAIN files = {"json", "rendered"} /\ (case.json <=> files.json # Nothing)
      /\ files.rendered = Nothing
  BY <1>1 DEF FilesInv
<1>3. CASE case.rendered /\ WriteOutput("rendered", "stdout")
  <2>1. /\ UNCHANGED <<case, plan, report, runs, signal, gaps, failed, result>> /\ phase' = "stdout"
        /\ files' = [files EXCEPT !["rendered"] = Closed]
    BY <1>3 DEF WriteOutput
  <2>2. DOMAIN files' = {"json", "rendered"} /\ files'.rendered = Closed /\ files'.json = files.json
    BY <1>2, <2>1
  <2>3. FilesInv'
    BY <1>1, <1>2, <1>3, <2>1, <2>2, ClosedDocument, SameDocument DEF FilesInv
  <2>4. ResultInv'
    BY <2>1 DEF ResultInv, Leaving
  <2>. QED  BY <1>1, <2>1, <2>3, <2>4, QuietKeeps
<1>4. CASE ~case.rendered /\ Skip("stdout")
  <2>1. UNCHANGED <<case, plan, report, runs, signal, gaps, failed, result, files>> /\ phase' = "stdout"
    BY <1>4 DEF Skip
  <2>2. FilesInv'
    BY <1>2, <1>4, <2>1, SameDocument DEF FilesInv
  <2>3. ResultInv'
    BY <2>1 DEF ResultInv, Leaving
  <2>. QED  BY <1>1, <2>1, <2>2, <2>3, QuietKeeps
<1>5. CASE Abort("error")
  BY <1>5, AbortKeeps DEF Abort
<1>. QED  BY <1>3, <1>4, <1>5 DEF WriteRendered

(* Printing the report, or failing to, keeps the invariant.                   *)
LEMMA StdoutKeeps ==
  ASSUME IInv, WriteStdout
  PROVE  IInv' /\ report' = report
<1>. USE DEF IInv
<1>1. phase = "stdout" /\ phase \in Closing
  BY DEF WriteStdout, Closing
<1>2. CASE /\ result' = Outcome(report) /\ phase' = "guard"
           /\ UNCHANGED <<case, plan, report, runs, files, signal, gaps, failed>>
  <2>1. Outcome(report) \in Outcomes
    BY Verdict DEF ReportInv, Sound
  <2>2. FilesInv'
    BY <1>2, SameDocument DEF FilesInv, Leaving
  <2>3. ResultInv'
    BY <1>1, <1>2, <2>1 DEF ResultInv, FilesInv
  <2>. QED  BY <1>1, <1>2, <2>2, <2>3, QuietKeeps
<1>3. CASE \E reason \in {"error", "broken pipe"} : Abort(reason)
  BY <1>3, AbortKeeps DEF Abort
<1>. QED  BY <1>2, <1>3 DEF WriteStdout

(* Verifying the guard keeps the invariant.                                   *)
LEMMA GuardKeeps ==
  ASSUME IInv, VerifyGuard
  PROVE  IInv' /\ report' = report
<1>. USE DEF IInv
<1>1. phase = "guard" /\ phase \in Leaving
  BY DEF VerifyGuard, Leaving
<1>2. CASE Skip("finish")
  <2>1. UNCHANGED <<case, plan, report, runs, signal, gaps, failed, result, files>> /\ phase' = "finish"
    BY <1>2 DEF Skip
  <2>2. FilesInv'
    BY <2>1, SameDocument DEF FilesInv, Leaving
  <2>3. ResultInv'
    BY <1>1, <2>1 DEF ResultInv
  <2>. QED  BY <1>1, <2>1, <2>2, <2>3, QuietKeeps DEF Leaving
<1>3. CASE Abort("error")
  BY <1>3, AbortKeeps DEF Abort
<1>. QED  BY <1>2, <1>3 DEF VerifyGuard

(* Exiting keeps the invariant.                                               *)
LEMMA FinishKeeps ==
  ASSUME IInv, Finish
  PROVE  IInv' /\ report' = report
<1>. USE DEF IInv
<1>1. /\ phase = "finish" /\ phase' = "done" /\ phase \in Leaving /\ phase' \in Leaving
      /\ UNCHANGED <<case, plan, report, runs, signal, gaps, failed, result, files>>
      /\ exit' \in IF signal # 0 THEN {128 + signal} ELSE ExitsFor(result)
  BY DEF Finish, Leaving
<1>2. FilesInv'
  BY <1>1, SameDocument DEF FilesInv
<1>3. ResultInv'
  BY <1>1 DEF ResultInv, ExitsFor
<1>. QED  BY <1>1, <1>2, <1>3, QuietKeeps

-----------------------------------------------------------------------------
(* Every step.                                                                *)

(* The invariant holds initially.                                             *)
LEMMA InitHolds ==
  Init => IInv
<1>. SUFFICES ASSUME Init  PROVE IInv
  OBVIOUS
<1>1. /\ case \in Cases /\ phase = "resolve" /\ report = NewReport /\ runs = << >> /\ signal = 0
      /\ files = [json |-> Nothing, rendered |-> Nothing] /\ gaps = {} /\ failed = {}
  BY DEF Init
<1>2. ~Published /\ ~Settled
  BY <1>1 DEF Published, Settled, Writing, Closing, Leaving
<1>3. MissedSteps = {}
  BY <1>1 DEF MissedSteps
<1>4. Sound(report)
  <2>1. NewReport \in Drafts(Findings)
    BY NewDraft
  <2>2. NewReport = [obs |-> NewReport.obs, findings |-> NewReport.findings, orch |-> NewReport.orch,
                     cov |-> NewReport.cov, mut |-> NewReport.mut, tool |-> NewReport.tool]
    BY DEF NewReport
  <2>3. NewReport.obs = [e \in Engines |-> Unobserved]
    BY DEF NewReport
  <2>. QED  BY <1>1, <2>1, <2>2, <2>3, DraftTypes, Ranks DEF Sound, IsReport, Unobserved
<1>5. CaseInv
  BY <1>1, ShortRuns DEF CaseInv, Early
<1>6. EarlyInv /\ RatchetInv /\ VerdictInv /\ GapInv
  BY <1>1, <1>2, <1>3 DEF EarlyInv, RatchetInv, VerdictInv, GapInv
<1>7. PlanInv /\ FilesInv /\ ResultInv
  BY <1>1, <1>2 DEF PlanInv, FilesInv, ResultInv, Leaving, Published
<1>. QED  BY <1>4, <1>5, <1>6, <1>7 DEF IInv, ReportInv

(* A write keeps the invariant and improves nothing.                          *)
LEMMA WrittenKeeps ==
  ASSUME IInv, phase \in Writing, Writes
  PROVE  IInv' /\ Worsens
  BY WriteKeeps, WriteWorsens

(* Every step keeps the invariant and improves nothing.                       *)
LEMMA StepKeeps ==
  ASSUME IInv, [Next]_vars
  PROVE  IInv' /\ Worsens
<1>1. Sound(report) /\ "emit" \in Writing \cup {"emit"} /\ "commands" \in Writing /\ "mutation" \in Writing
      /\ signal \in Signals \cup {0}
  BY DEF IInv, ReportInv, CaseInv, Writing
<1>2. CASE Resolve
  <2>1. report' = report
    BY <1>2 DEF Resolve, Abort
  <2>. QED  BY <1>2, <2>1, ResolveKeeps, KeptWorsens
<1>3. CASE RunProducer
  <2>1. report' = report
    BY <1>3 DEF RunProducer, Unchanged
  <2>. QED  BY <1>3, <2>1, ProducerKeeps, KeptWorsens
<1>4. CASE SkipProducers
  <2>1. report' = report
    BY <1>4 DEF SkipProducers, Unchanged
  <2>. QED  BY <1>4, <2>1, SkipProducersKeeps, KeptWorsens
<1>5. CASE Static
  BY <1>5, StaticKeeps
<1>6. CASE Ratchet
  BY <1>6, RatchetKeeps
<1>7. CASE NoRatchet
  BY <1>7, NoRatchetKeeps
<1>8. CASE Generated
  <2>1. phase \in Writing
    BY <1>8 DEF Generated, Writing
  <2>. QED  BY <1>1, <1>8, <2>1, GeneratedWrites, WrittenKeeps
<1>9. CASE NoGenerated
  <2>1. phase \in Writing /\ ReportStep("commands", report, {}, {})
    BY <1>9 DEF NoGenerated, Writing
  <2>. QED  BY <1>1, <2>1, NothingStep, WrittenKeeps
<1>10. CASE OpenSession
  <2>1. phase \in Writing
    BY <1>10 DEF OpenSession, Writing
  <2>. QED  BY <1>1, <1>10, <2>1, SessionWrites, WrittenKeeps
<1>11. CASE RunCommand
  <2>1. phase \in Writing
    BY <1>11 DEF RunCommand, Writing
  <2>. QED  BY <1>1, <1>11, <2>1, CommandWrites, WrittenKeeps
<1>12. CASE CloseSession
  <2>1. phase \in Writing
    BY <1>12 DEF CloseSession, Writing
  <2>. QED  BY <1>1, <1>12, <2>1, CloseWrites, WrittenKeeps
<1>13. CASE Coverage
  <2>1. phase \in Writing
    BY <1>13 DEF Coverage, Writing
  <2>2. CASE Writes
    BY <2>1, <2>2, WrittenKeeps
  <2>3. CASE Abort("error")
    <3>1. report' = report
      BY <2>3 DEF Abort
    <3>. QED  BY <2>3, <3>1, AbortKeeps, KeptWorsens
  <2>. QED  BY <1>1, <1>13, <2>2, <2>3, CoverageWrites
<1>14. CASE NoCoverage
  <2>1. phase \in Writing /\ ReportStep("mutation", report, {}, {})
    BY <1>14 DEF NoCoverage, Writing
  <2>. QED  BY <1>1, <2>1, NothingStep, WrittenKeeps
<1>15. CASE MutationReport
  <2>1. phase \in Writing
    BY <1>15 DEF MutationReport, Writing
  <2>. QED  BY <1>1, <1>15, <2>1, MutationWrites, WrittenKeeps
<1>16. CASE MutationSet
  <2>1. phase \in Writing
    BY <1>16 DEF MutationSet, Writing
  <2>. QED  BY <1>1, <1>16, <2>1, MutationSetWrites, WrittenKeeps
<1>17. CASE NoMutation
  <2>1. phase \in Writing /\ ReportStep("emit", report, {}, {})
    BY <1>17 DEF NoMutation, Writing
  <2>. QED  BY <1>1, <2>1, NothingStep, WrittenKeeps
<1>18. CASE WriteJson
  BY <1>18, JsonKeeps, KeptWorsens
<1>19. CASE WriteRendered
  BY <1>19, RenderedKeeps, KeptWorsens
<1>20. CASE WriteStdout
  BY <1>20, StdoutKeeps, KeptWorsens
<1>21. CASE VerifyGuard
  BY <1>21, GuardKeeps, KeptWorsens
<1>22. CASE Finish
  BY <1>22, FinishKeeps, KeptWorsens
<1>23. CASE ReceiveSignal \/ UNCHANGED vars
  <2>1. /\ UNCHANGED <<case, phase, plan, report, runs, files, result, exit, gaps, failed>>
        /\ signal' \in Signals \cup {0} /\ (phase = "done" => signal' = signal)
    BY <1>1, <1>23 DEF ReceiveSignal, vars
  <2>. QED  BY <2>1, StillKeeps, KeptWorsens
<1>. QED
  BY <1>2, <1>3, <1>4, <1>5, <1>6, <1>7, <1>8, <1>9, <1>10, <1>11, <1>12, <1>13, <1>14, <1>15, <1>16,
     <1>17, <1>18, <1>19, <1>20, <1>21, <1>22, <1>23 DEF Next, Done

-----------------------------------------------------------------------------
(* What the invariant means for who reads the exit status and the documents.  *)

(* The inductive invariant holds in every reachable state.                    *)
THEOREM CheckInvariant ==
  Spec => []IInv
<1>1. IInv /\ [Next]_vars => IInv'
  BY StepKeeps
<1>. QED  BY <1>1, InitHolds, PTL DEF Spec

(* The exit status of a check says what happened (main.rs, exit_status): 0    *)
(* only when every requirement was met, 1 only when one was not and nothing   *)
(* is unknown, 2 only when something is unknown or the command failed.        *)
THEOREM EarnedExit ==
  Spec => []ExitStatusIsEarned
<1>1. ASSUME IInv  PROVE ExitStatusIsEarned
  <2>. SUFFICES ASSUME phase = "done"
                PROVE  /\ (exit = 0 /\ ~ReaderGone) => (result # "error" /\ gaps = {} /\ failed = {})
                       /\ exit = 1 => gaps = {} /\ failed # {}
                       /\ exit = 2 => result = "error" \/ gaps # {}
    BY DEF ExitStatusIsEarned
  <2>1. /\ result \in Outcomes \cup {"error", "broken pipe"}
        /\ result \in Outcomes => result = Outcome(report) /\ Settled
        /\ signal # 0 => exit = 128 + signal
        /\ signal = 0 /\ result = "broken pipe" => exit = 0
        /\ signal = 0 /\ result = "error" => exit = 2 \/ (exit = 0 /\ case.format = "json")
        /\ signal = 0 /\ result \notin {"broken pipe", "error"} => exit = ExitCode(result)
    BY <1>1 DEF IInv, ResultInv, Settled, Leaving, ExitsFor
  <2>2. signal \in Nat /\ (exit \in 0 .. 2 => signal = 0)
    <3>1. signal \in Nat
      BY <1>1, SignalsAssumption DEF IInv, CaseInv
    <3>2. signal # 0 => 128 + signal \notin 0 .. 2
      BY <3>1
    <3>. QED  BY <2>1, <3>1, <3>2
  <2>3. result = "error" => exit # 1 /\ (exit = 0 => case.format = "json")
    <3>1. exit \in {0, 1} => exit \in 0 .. 2
      OBVIOUS
    <3>. QED  BY <2>1, <2>2, <3>1
  <2>4. ASSUME result = "broken pipe"
        PROVE  exit \notin {1, 2}
    <3>1. exit \in {1, 2} => exit \in 0 .. 2
      OBVIOUS
    <3>2. exit \in 0 .. 2 => exit = 0
      BY <2>1, <2>2, <2>4
    <3>. QED  BY <3>1, <3>2
  <2>5. CASE result \in Outcomes
    <3>1. /\ gaps # {} <=> IncompleteEvidence(report)
          /\ failed # {} <=> FailedEvidence(report)
          /\ IsReport(report)
      BY <1>1, <2>1, <2>5 DEF IInv, VerdictInv, ReportInv, Sound
    <3>2. /\ NoViolations(report) <=> gaps = {} /\ failed = {}
          /\ Outcome(report) = "passed" <=> NoViolations(report)
          /\ Outcome(report) = "incomplete" <=> gaps # {}
          /\ Outcome(report) \in Outcomes
          /\ ExitCode(Outcome(report)) \in 0 .. 2
          /\ ExitCode(Outcome(report)) = 0 <=> Outcome(report) = "passed"
          /\ ExitCode(Outcome(report)) = 1 <=> Outcome(report) = "violations"
      BY <3>1, Verdict
    <3>3. result = Outcome(report) /\ result \notin {"broken pipe", "error"}
      BY <2>1, <2>5 DEF Outcomes
    <3>4. exit \in 0 .. 2 => exit = ExitCode(Outcome(report))
      BY <2>1, <2>2, <3>3
    <3>5. exit = 0 => gaps = {} /\ failed = {}
      BY <3>2, <3>4
    <3>6. exit = 1 => gaps = {} /\ failed # {}
      <4>1. "violations" # "passed" /\ "violations" # "incomplete"
        OBVIOUS
      <4>. QED  BY <3>2, <3>4, <4>1
    <3>7. exit = 2 => gaps # {}
      BY <3>2, <3>4 DEF Outcomes
    <3>. QED  BY <3>3, <3>5, <3>6, <3>7
  <2>6. CASE result = "error"
    BY <2>3, <2>6 DEF ReaderGone
  <2>7. CASE result = "broken pipe"
    BY <2>4, <2>7 DEF ReaderGone
  <2>. QED  BY <2>1, <2>5, <2>6, <2>7
<1>. QED  BY <1>1, CheckInvariant, PTL

(* In a report without a violation, what an engine of a plan is shown as says *)
(* whether it was completed.                                                  *)
LEMMA PassedStates ==
  ASSUME NEW r, Sound(r), NoViolations(r), NEW p, IsPlan(p), NEW e \in Engines
  PROVE  LET final == Reconcile(p, FinalObservations(r))
         IN  final.engines[e].selected =>
                /\ final.engines[e].state \in {"Completed", "Skipped", "Incomplete"}
                /\ final.engines[e].state = "Completed" <=> r.obs[e] = "Completed"
<1>. DEFINE final == Reconcile(p, FinalObservations(r))
<1>1. IsReport(r) /\ r.obs[e] # "Failed"
  BY DEF Sound, NoViolations
<1>2. FinalObservations(r)[e] = r.obs[e] /\ FinalObservations(r)[e] \in Observed
  BY <1>1, FinalStates
<1>3. /\ final.engines[e].state = IF final.engines[e].selected /\ FinalObservations(r)[e] # Unobserved
                                  THEN FinalObservations(r)[e] ELSE p.engines[e].state
      /\ final.engines[e].selected => p.engines[e].state \in {"Skipped", "Incomplete"}
  BY Reconciled
<1>. HIDE DEF final
<1>4. final.engines[e].selected =>
         /\ final.engines[e].state \in {"Completed", "Skipped", "Incomplete"}
         /\ final.engines[e].state = "Completed" <=> r.obs[e] = "Completed"
  BY <1>1, <1>2, <1>3, Ranks DEF Unobserved
<1>. QED  BY <1>4 DEF final

(* Whether a plan is partial does not depend on the states of its engines.    *)
LEMMA SamePartial ==
  ASSUME NEW obs, NEW p, IsPlan(p)
  PROVE  IsPartial(Reconcile(p, obs)) <=> ScopeMode # "repository" \/ \E e \in EnabledEngines : ~Requested(e)
<1>. DEFINE final == Reconcile(p, obs)
<1>1. /\ final.command = "check" /\ final.mode = ScopeMode
      /\ \A e \in Engines : /\ final.engines[e].enabled <=> e \in EnabledEngines
                            /\ final.engines[e].selected <=> e \in EnabledEngines /\ Requested(e)
  BY Reconciled
<1>2. EnabledEngines \subseteq Engines
  BY DEF EnabledEngines, Engines, StaticEngines, CommandEngines
<1>. HIDE DEF final
<1>3. IsPartial(final)
        <=> ScopeMode # "repository" \/ \E e \in Engines : e \in EnabledEngines /\ ~Requested(e)
  BY <1>1 DEF IsPartial
<1>. QED  BY <1>2, <1>3 DEF final

(* A whole check is complete, and is shown as passed, when nothing is         *)
(* violated and every engine it enables was completed; an abort that marks    *)
(* the unobserved engines changes neither.                                    *)
LEMMA WholeCheck ==
  ASSUME NEW r, Sound(r), NEW p, IsPlan(p), ~IsPartial(Reconcile(p, FinalObservations(r)))
  PROVE  LET complete == NoViolations(r) /\ \A e \in EnabledEngines : r.obs[e] = "Completed"
         IN  /\ NoViolations(r) /\ IsComplete(Reconcile(p, FinalObservations(r))) <=> complete
             /\ HumanVerdict(r, p) = "Passed" <=> complete
<1>. DEFINE final == Reconcile(p, FinalObservations(r))
<1>1. \A e \in Engines : final.engines[e].selected <=> e \in EnabledEngines
  <2>1. \A e \in EnabledEngines : Requested(e)
    BY SamePartial
  <2>. QED  BY <2>1, Reconciled
<1>2. EnabledEngines \subseteq Engines
  BY DEF EnabledEngines, Engines, StaticEngines, CommandEngines
<1>3. Outcome(r) = "incomplete" => ~NoViolations(r)
  BY Verdict DEF Sound
<1>4. NoViolations(r) =>
         \A e \in EnabledEngines :
            /\ final.engines[e].state \in {"Completed", "Skipped", "Incomplete"}
            /\ final.engines[e].state = "Completed" <=> r.obs[e] = "Completed"
  BY <1>1, <1>2, PassedStates
<1>5. ~IsPartial(final)
  OBVIOUS
<1>6. AcceptanceIncomplete(r, p) <=>
         \/ Outcome(r) = "incomplete"
         \/ \E e \in Engines : /\ final.engines[e].selected
                               /\ \/ final.engines[e].state = "Incomplete"
                                  \/ ~IsPartial(final) /\ final.engines[e].state = "Skipped"
  BY DEF AcceptanceIncomplete
<1>. HIDE DEF final
<1>7. IsComplete(final) <=> \A e \in EnabledEngines : final.engines[e].state \in {"Completed", "Cached"}
  BY <1>1, <1>2, <1>5 DEF IsComplete
<1>8. AcceptanceIncomplete(r, p) <=>
         Outcome(r) = "incomplete" \/ \E e \in EnabledEngines : final.engines[e].state \in {"Incomplete", "Skipped"}
  BY <1>1, <1>2, <1>5, <1>6
<1>9. HumanVerdict(r, p) = "Passed" <=> ~AcceptanceIncomplete(r, p) /\ NoViolations(r)
  BY DEF HumanVerdict
<1>10. NoViolations(r) /\ IsComplete(final)
          <=> NoViolations(r) /\ \A e \in EnabledEngines : r.obs[e] = "Completed"
  BY <1>4, <1>7
<1>11. HumanVerdict(r, p) = "Passed"
          <=> NoViolations(r) /\ \A e \in EnabledEngines : r.obs[e] = "Completed"
  BY <1>3, <1>4, <1>8, <1>9
<1>. QED  BY <1>10, <1>11 DEF final

(* A document that declares acceptance (serialize.rs) was written by a check  *)
(* of the whole repository that obtained all the evidence it owes; a whole    *)
(* check is accepted exactly when a person is shown that it passed.           *)
THEOREM CompleteAcceptance ==
  Spec => []AcceptanceIsComplete
<1>1. ASSUME IInv  PROVE AcceptanceIsComplete
  <2>. SUFFICES ASSUME NEW name \in DOMAIN files, files[name] # Nothing
                PROVE  /\ files[name].accepted =>
                             /\ ~files[name].partial
                             /\ gaps \cup failed \cup StaticGaps(TRUE) = {}
                             /\ SelectedFiles(StaticDiff) = {case.tree[i].path : i \in DOMAIN case.tree}
                             /\ \A e \in EnabledEngines : files[name].states[e] = "Completed"
                       /\ ~files[name].partial =>
                             (files[name].accepted <=> HumanVerdict(report, plan) = "Passed")
    BY DEF AcceptanceIsComplete
  <2>. DEFINE final == Reconcile(GatePlan, FinalObservations(report))
              complete == NoViolations(report) /\ \A e \in EnabledEngines : report.obs[e] = "Completed"
  <2>1. /\ Published /\ files[name] = Document(report, GatePlan) /\ Sound(report) /\ IsReport(report)
        /\ IsPlan(GatePlan) /\ IsPlan(plan)
    BY <1>1, GateIsPlan DEF IInv, FilesInv, PlanInv, Published, ReportInv, Sound
  <2>2. /\ files[name].partial <=> IsPartial(final)
        /\ files[name].accepted <=> NoViolations(report) /\ IsComplete(final)
        /\ \A e \in Engines : files[name].states[e] = final.engines[e].state
    BY <2>1, DocumentStates
  <2>3. IsComplete(final) => ~IsPartial(final)
    BY DEF IsComplete
  <2>4. ~IsPartial(final) =>
           /\ NoViolations(report) /\ IsComplete(final) <=> complete
           /\ HumanVerdict(report, plan) = "Passed" <=> complete
    <3>1. IsPartial(final) <=> IsPartial(Reconcile(plan, FinalObservations(report)))
      BY <2>1, SamePartial
    <3>. QED  BY <2>1, <3>1, WholeCheck
  <2>5. EnabledEngines \subseteq Engines
    BY DEF EnabledEngines, Engines, StaticEngines, CommandEngines
  <2>6. ASSUME files[name].accepted
        PROVE  /\ gaps \cup failed \cup StaticGaps(TRUE) = {}
               /\ SelectedFiles(StaticDiff) = {case.tree[i].path : i \in DOMAIN case.tree}
               /\ \A e \in EnabledEngines : files[name].states[e] = "Completed"
    <3>1. complete /\ ~IsPartial(final)
      BY <2>2, <2>3, <2>4, <2>6
    <3>2. Settled
      BY <1>1, <2>1, Settling
    <3>3. gaps = {} /\ failed = {}
      BY <1>1, <2>1, <3>1, <3>2, Verdict DEF IInv, VerdictInv
    <3>4. StaticGaps(TRUE) = {}
      <4>1. StaticGaps(TRUE) # {} => \E e \in EnabledEngines : report.obs[e] = "Incomplete"
        BY <1>1, <3>2 DEF IInv, GapInv
      <4>. QED  BY <3>1, <4>1
    <3>5. SelectedFiles(StaticDiff) = {case.tree[i].path : i \in DOMAIN case.tree}
      <4>1. ScopeMode = "repository"
        BY <2>1, <3>1, SamePartial
      <4>2. ~case.diff /\ case.scope.files \cup case.scope.under = {}
        BY <4>1 DEF ScopeMode
      <4>3. StaticDiff = FALSE
        BY <4>2 DEF StaticDiff
      <4>. QED  BY <4>2, <4>3 DEF SelectedFiles, SelectFiles, UnderPaths
    <3>6. ASSUME NEW e \in EnabledEngines  PROVE files[name].states[e] = "Completed"
      <4>1. Requested(e) /\ e \in Engines
        BY <2>1, <2>5, <3>1, SamePartial
      <4>2. final.engines[e].selected
        BY <2>1, <4>1, Reconciled
      <4>3. final.engines[e].state = "Completed"
        BY <2>1, <3>1, <4>1, <4>2, PassedStates
      <4>. QED  BY <2>2, <4>1, <4>3
    <3>. QED  BY <3>3, <3>4, <3>5, <3>6
  <2>. HIDE DEF final, complete
  <2>. QED  BY <2>2, <2>3, <2>4, <2>6
<1>. QED  BY <1>1, CheckInvariant, PTL

(* The JSON report and the rendered one agree, and when the command returns   *)
(* an outcome every file asked for holds a document of it, exit included.     *)
THEOREM PublishedExit ==
  Spec => []PublishedMatchesExit
<1>1. ASSUME IInv  PROVE PublishedMatchesExit
  <2>1. /\ DOMAIN files = {"json", "rendered"}
        /\ \A name \in DOMAIN files : files[name] # Nothing => files[name] = Document(report, GatePlan)
    BY <1>1 DEF IInv, FilesInv
  <2>2. /\ Document(report, GatePlan).status = Outcome(report)
        /\ Document(report, GatePlan).exit = ExitCode(Outcome(report))
    BY <1>1, GateIsPlan, DocumentStates DEF IInv, ReportInv, Sound
  <2>3. ASSUME phase = "done", result \in {"passed", "violations", "incomplete"}
        PROVE  \A name \in DOMAIN files :
                  /\ case[name] <=> files[name] # Nothing
                  /\ files[name] # Nothing =>
                        files[name].status = result /\ (signal = 0 => files[name].exit = exit)
    <3>1. /\ result = Outcome(report)
          /\ \A name \in DOMAIN files : case[name] <=> files[name] # Nothing
          /\ signal = 0 => exit = ExitCode(result)
      BY <1>1, <2>3 DEF IInv, ResultInv, Leaving, Outcomes, ExitsFor
    <3>. QED  BY <2>1, <2>2, <3>1
  <2>. QED  BY <2>1, <2>3 DEF PublishedMatchesExit
<1>. QED  BY <1>1, CheckInvariant, PTL

(* While the report is written no engine recovers from a worse observation,   *)
(* no failure is withdrawn, and only the ratchet takes findings out.          *)
THEOREM NeverImproves ==
  Spec => EvidenceNeverImproves
<1>1. IInv /\ [Next]_vars => IInv'
  BY StepKeeps
<1>2. IInv /\ [Next]_vars => [Worsens]_vars
  BY StepKeeps
<1>. QED  BY <1>1, <1>2, InitHolds, PTL DEF Spec, EvidenceNeverImproves, Worsens
=============================================================================
