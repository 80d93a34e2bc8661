----------------------------- MODULE EvidenceGate -----------------------------
(***************************************************************************)
(* `hardgate check` and the report verification commands as readers of the *)
(* evidence that EvidencePublication produces (src/src/evidence/mod.rs,    *)
(* aggregation.rs; src/src/commands/verify.rs, coverage_reports.rs).       *)
(*                                                                         *)
(* The gate reads one artifact after the other while producers, the        *)
(* developer and other processes go on.  A coverage report is verified and *)
(* then parsed; a mutation report is verified, scored and, when the set of *)
(* reports is aggregated, verified once more.                              *)
(***************************************************************************)
EXTENDS EvidencePublication

CONSTANTS
  Gate,         \* the gate as a holder of the workload lease
  GateLeased,   \* TRUE: the policy requires isolation, the gate takes the lease
  Rechecks      \* TRUE: a mutation gate, which verifies again after scoring

ASSUME GateConstants ==
  /\ Gate \notin Runs \cup {NoFile}
  /\ GateLeased \in BOOLEAN
  /\ Rechecks \in BOOLEAN

VARIABLES
  gate,       \* next step of the gate
  seen,       \* the receipt verify has in memory
  left,       \* inputs its walk of the checkout has still to visit
  scored,     \* the report bytes the gate evaluated
  witnessed,  \* history: seen was authenticated at some moment of this verify
  walked,     \* history: the checkouts that were on disk since the walk began
  undone      \* history: runs since whose start an input went back to old content

gateVars == <<gate, seen, left, scored, witnessed, walked, undone>>
allVars  == <<vars, gateVars>>

GateSteps == {"receipt", "slot", "record", "job", "hash", "walk", "score"}

GateInit ==
  /\ Init
  /\ gate = "idle" /\ seen = NoFile /\ left = {} /\ scored = NoFile
  /\ witnessed = FALSE /\ walked = {} /\ undone = {}

GateGoto(from, to) == gate = from /\ gate' = to

-----------------------------------------------------------------------------

GateEnter ==
  /\ GateGoto("idle", "receipt")
  /\ IF GateLeased THEN lease = NoFile /\ lease' = Gate ELSE UNCHANGED lease
  /\ UNCHANGED <<checkout, files, registry, pc, private, job, cancelled,
                 stuck, seen, left, scored>>

ReadReceipt ==
  /\ GateGoto("receipt", "slot")
  /\ receipt # NoFile
  /\ seen' = receipt
  /\ UNCHANGED <<vars, left, scored>>

\* authentication::verify, first the slot, then the record it names.
ReadSlot ==
  /\ GateGoto("slot", "record")
  /\ slot = seen /\ seen \in marked
  /\ UNCHANGED <<vars, seen, left, scored>>

ReadRecord ==
  /\ GateGoto("record", "job")
  /\ seen \in records
  /\ UNCHANGED <<vars, seen, left, scored>>

\* Mutant: a job that still exists is not noticed.
ProbeJobSkipped ==
  /\ GateGoto("job", "hash")
  /\ UNCHANGED <<vars, seen, left, scored>>

\* Receipt.workspace must not exist.
ProbeJob ==
  /\ GateGoto("job", "hash")
  /\ job[seen] = "absent"
  /\ UNCHANGED <<vars, seen, left, scored>>

HashReport ==
  /\ GateGoto("hash", "walk")
  /\ report = attests[seen]
  /\ left' = Files
  /\ UNCHANGED <<vars, seen, scored>>

\* The step after the walk; a report that is already scored was verified twice.
AfterWalk == IF scored = NoFile THEN "score" ELSE "accepted"

\* Mutant: the inputs are walked but not compared.
WalkFileUncompared(f) ==
  /\ gate = "walk" /\ f \in left
  /\ left' = left \ {f}
  /\ gate' = IF left' = {} THEN AfterWalk ELSE "walk"
  /\ UNCHANGED <<vars, seen, scored>>

WalkFile(f) ==
  /\ gate = "walk" /\ f \in left
  /\ src[f] = before[seen][f]
  /\ left' = left \ {f}
  /\ gate' = IF left' = {} THEN AfterWalk ELSE "walk"
  /\ UNCHANGED <<vars, seen, scored>>

\* Mutant: a mutation report is not verified again after it was scored.
ScoreReportOnce ==
  /\ GateGoto("score", "accepted")
  /\ report # NoFile
  /\ scored' = report
  /\ UNCHANGED <<vars, seen, left>>

\* The report file is opened again and parsed.
ScoreReport ==
  /\ GateGoto("score", IF Rechecks THEN "receipt" ELSE "accepted")
  /\ report # NoFile
  /\ scored' = report
  /\ UNCHANGED <<vars, seen, left>>

\* An `ensure!` that does not hold, or an I/O error, is an evidence failure.
Reject ==
  /\ gate \in GateSteps
  /\ gate' = "rejected"
  /\ UNCHANGED <<vars, seen, left, scored>>

GateExit ==
  /\ gate \in {"accepted", "rejected"}
  /\ gate' = "idle" /\ seen' = NoFile /\ left' = {} /\ scored' = NoFile
  /\ lease' = IF lease = Gate THEN NoFile ELSE lease
  /\ UNCHANGED <<checkout, files, registry, pc, private, job, cancelled, stuck>>

GateStep ==
  \/ GateEnter \/ ReadReceipt \/ ReadSlot \/ ReadRecord \/ ProbeJob \/ HashReport
  \/ ScoreReport \/ Reject \/ GateExit
  \/ \E f \in Files : WalkFile(f)

\* Maintains the history variables in every step of the system.
Witness ==
  witnessed' = /\ gate' \notin {"idle", "receipt"}
               /\ \/ witnessed /\ seen' = seen
                  \/ seen' # NoFile /\ Authenticated(seen)'

\* The walk begins in the state after the report was hashed.
Observe ==
  walked' = IF gate' = "walk"
            THEN {src'} \cup (IF gate = "walk" THEN walked ELSE {})
            ELSE IF gate' \in {"score", "accepted"} THEN walked ELSE {}

\* Versions number the contents of an input in the order of their appearance: a
\* lower one is an old content that has come back.
Regress ==
  undone' = IF \E f \in Files : src'[f] < src[f] THEN undone \cup Tried ELSE undone

GateNext ==
  /\ \/ GateStep
     \/ Next /\ UNCHANGED <<gate, seen, left, scored>>
  /\ Witness /\ Observe /\ Regress

GateSpec == GateInit /\ [][GateNext]_allVars

-----------------------------------------------------------------------------
(* Properties *)

\* Types, and that nothing is accepted halfway through its walk.
GateTypeOK ==
  /\ gate \in GateSteps \cup {"idle", "accepted", "rejected"}
  /\ seen \in Runs \cup {NoFile}
  /\ left \subseteq Files
  /\ scored \in Runs \cup {NoFile}
  /\ witnessed \in BOOLEAN
  /\ walked \subseteq Snapshots
  /\ undone \subseteq Runs
  /\ lease \in Runs \cup {NoFile, Gate}
  /\ gate = "walk" => seen # NoFile /\ left # {}
  /\ gate = "accepted" => seen # NoFile /\ scored # NoFile /\ left = {}

\* The bytes the gate evaluated are the bytes the verified receipt attests.
ScoredReportWasVerified ==
  gate = "accepted" => scored = attests[seen]

\* The evaluated report came out of a run on inputs each of which was on disk at
\* some moment of the walk.  Neither the run nor the gate reads the checkout at
\* once, so these inputs need not have been there together; but they were, at
\* one moment of the walk, unless some input went back to an old content after
\* the run had begun.
AcceptedCheckoutIsCurrent ==
  gate = "accepted" =>
    /\ \A f \in Files : \E c \in walked : ranOn[scored][f] = c[f]
    /\ scored \notin undone => ranOn[scored] \in walked

\* The artifacts are read one by one, yet there was one moment during the
\* verification at which the receipt was authenticated and its job gone.
AcceptanceIsLinearizable ==
  gate = "accepted" => witnessed

=============================================================================
