------------------------- MODULE EvidencePublication -------------------------
(***************************************************************************)
(* `hardgate evidence`: producing one report from an isolated copy of the  *)
(* checkout and publishing it with a receipt that the local registry       *)
(* authenticates (src/src/evidence: execution.rs, publication.rs,          *)
(* authentication.rs, workspace.rs, workspace_lifecycle.rs, snapshot.rs).  *)
(*                                                                         *)
(* One destination is modelled: pending file, report, receipt and registry *)
(* slot are all named after it, so two destinations share no state.  Runs  *)
(* are attempts to produce it.  A run makes one report, one receipt, one   *)
(* job directory and one registry record, all unique to it (the job path,  *)
(* with its pid and nonce, is a field of the receipt), so the run itself   *)
(* stands for the bytes it writes and for their digest.                    *)
(*                                                                         *)
(* A run may be killed between any two steps, and every fallible step may  *)
(* return an error, which unwinds the guards it holds; what a guard has to *)
(* remove may stay as well.  The developer edits the checkout, undoes      *)
(* edits, or restores a saved report and receipt, at any time.             *)
(***************************************************************************)
EXTENDS Naturals

CONSTANTS
  Runs,            \* attempts to produce evidence for the destination
  Files,           \* project inputs that a Snapshot covers
  MaxVersion,      \* bound: a file has the contents 0..MaxVersion
  MaxPreliminary,  \* bound: prerequisite and auxiliary stages of a run
  SharedBoundary,  \* TRUE: limits are inherited and no workload lease is taken
  Reapable,        \* runs whose retained job somebody may delete later
  Restorable,      \* runs whose report and receipt somebody may put back later
  NoFile           \* the content of a path that does not exist

ASSUME PublicationConstants ==
  /\ MaxVersion \in Nat
  /\ MaxPreliminary \in Nat
  /\ SharedBoundary \in BOOLEAN
  /\ Reapable \subseteq Runs
  /\ Restorable \subseteq Runs
  /\ NoFile \notin Runs
  /\ NoFile \notin [Files -> 0..MaxVersion]

VARIABLES
  src,       \* the checkout: version of each input
  pending,   \* destination.with_extension("pending")
  report,    \* the destination
  receipt,   \* destination.hardgate.json
  slot,      \* the run whose slot file the registry holds
  marked,    \* runs that have written their digest into their slot file
  records,   \* runs with a complete record in the registry
  lease,     \* holder of the per-user workload lease
  pc,        \* next step of each run
  before,    \* Snapshot taken at the start of a run (Receipt.inputs)
  copy,      \* inputs in the run's private copy
  todo,      \* inputs the walk in progress has still to visit
  prelim,    \* preliminary stages still to execute
  ranOn,     \* inputs the producer's main stage executed on
  attests,   \* Receipt.report_sha256: whose bytes the receipt names
  job,       \* status of the run's job directory, as the run last set it
  cancelled, \* SIGINT or SIGTERM received
  stuck      \* history: what Certification::drop of a run failed to remove

checkout == <<src>>
files    == <<pending, report, receipt>>
registry == <<slot, marked, records>>
private  == <<before, copy, todo, prelim, ranOn, attests>>
vars == <<checkout, files, registry, lease, pc, private, job, cancelled, stuck>>

-----------------------------------------------------------------------------

Versions == 0..MaxVersion
Snapshots == [Files -> Versions]

\* Steps of produce, run_producer and run_stage, in order.
ProduceSteps ==
  {"revoke", "remove_receipt", "capture", "create", "copy", "check_copy",
   "check_root", "version", "stage", "check_restoration", "check_checkout"}

\* Steps of publish and save_verified, in order; grouped by the guards an
\* error has to drop: none, PendingReceipt, PendingReceipt and Certification.
PublishSteps == {"begin", "write", "validate", "attest", "precheck", "rename"}
ReceiptSteps == {"receipt", "check_report", "check_receipt", "postcheck", "record"}
CertifySteps == {"slot", "mark", "authenticate", "close", "remove", "final"}

\* Drop of the guards, in the order of the stack.
DropSteps == {"drop_slot", "drop_record", "drop_receipt", "drop_workspace"}

Fallible == ProduceSteps \cup PublishSteps \cup ReceiptSteps \cup CertifySteps
Working  == Fallible \cup DropSteps
Ended    == {"refused", "done", "failed", "crashed"}
JobStatus == {"absent", "active", "publishing", "completed", "failed",
              "interrupted", "publication-failed", "cleanup-failed"}

Init ==
  /\ src = [f \in Files |-> 0]
  /\ pending = NoFile /\ report = NoFile /\ receipt = NoFile
  /\ slot = NoFile /\ marked = {} /\ records = {}
  /\ lease = NoFile
  /\ pc = [p \in Runs |-> "idle"]
  /\ before = [p \in Runs |-> src]
  /\ copy = [p \in Runs |-> src]
  /\ todo = [p \in Runs |-> {}]
  /\ prelim = [p \in Runs |-> 0]
  /\ ranOn = [p \in Runs |-> NoFile]
  /\ attests = [p \in Runs |-> NoFile]
  /\ job = [p \in Runs |-> "absent"]
  /\ cancelled = [p \in Runs |-> FALSE]
  /\ stuck = [p \in Runs |-> {}]

Goto(p, from, to) ==
  /\ pc[p] = from
  /\ pc' = [pc EXCEPT ![p] = to]

\* The process ends: its lease, if it holds one, is released by the kernel.
Release(p) == lease' = IF lease = p THEN NoFile ELSE lease

-----------------------------------------------------------------------------
(* Admission *)

\* runtime::enter: take the workload lease, or inherit a boundary without it.
Enter(p) ==
  /\ Goto(p, "idle", "revoke")
  /\ IF SharedBoundary THEN UNCHANGED lease
     ELSE lease = NoFile /\ lease' = p
  /\ UNCHANGED <<checkout, files, registry, private, job, cancelled, stuck>>

\* Contention timeout, cancellation while queued or refused admission.
Refuse(p) ==
  /\ Goto(p, "idle", "refused")
  /\ UNCHANGED <<checkout, files, registry, lease, private, job, cancelled, stuck>>

-----------------------------------------------------------------------------
(* produce: bind the inputs and copy them *)

\* Mutant: the previous slot stays linked.
RevokeNothing(p) ==
  /\ Goto(p, "revoke", "remove_receipt")
  /\ UNCHANGED <<checkout, files, registry, lease, private, job, cancelled, stuck>>

\* authentication::revoke unlinks whatever slot the destination has.
Revoke(p) ==
  /\ Goto(p, "revoke", "remove_receipt")
  /\ slot' = NoFile
  /\ UNCHANGED <<checkout, files, marked, records, lease, private, job, cancelled, stuck>>

RemoveReceipt(p) ==
  /\ Goto(p, "remove_receipt", "capture")
  /\ receipt' = NoFile
  /\ todo' = [todo EXCEPT ![p] = Files]
  /\ UNCHANGED <<checkout, pending, report, registry, lease, before, copy, prelim,
                 ranOn, attests, job, cancelled, stuck>>

\* Snapshot::capture_with reads one file after the other.
CaptureFile(p, f) ==
  /\ pc[p] = "capture" /\ f \in todo[p] /\ ~cancelled[p]
  /\ before' = [before EXCEPT ![p][f] = src[f]]
  /\ todo' = [todo EXCEPT ![p] = @ \ {f}]
  /\ pc' = [pc EXCEPT ![p] = IF todo'[p] = {} THEN "create" ELSE "capture"]
  /\ UNCHANGED <<checkout, files, registry, lease, copy, prelim, ranOn, attests, job,
                 cancelled, stuck>>

\* EvidenceWorkspace::create_at: a new private job directory.
CreateWorkspace(p) ==
  /\ Goto(p, "create", "copy")
  /\ ~cancelled[p]
  /\ job' = [job EXCEPT ![p] = "active"]
  /\ todo' = [todo EXCEPT ![p] = Files]
  /\ UNCHANGED <<checkout, files, registry, lease, before, copy, prelim, ranOn, attests,
                 cancelled, stuck>>

\* copy_tree, one file after the other.
CopyFile(p, f) ==
  /\ pc[p] = "copy" /\ f \in todo[p] /\ ~cancelled[p]
  /\ copy' = [copy EXCEPT ![p][f] = src[f]]
  /\ todo' = [todo EXCEPT ![p] = @ \ {f}]
  /\ pc' = [pc EXCEPT ![p] = IF todo'[p] = {} THEN "check_copy" ELSE "copy"]
  /\ UNCHANGED <<checkout, files, registry, lease, before, prelim, ranOn, attests, job,
                 cancelled, stuck>>

\* Only this run writes its copy, so the walk over it is one step.
CheckCopy(p) ==
  /\ Goto(p, "check_copy", "check_root")
  /\ ~cancelled[p] /\ copy[p] = before[p]
  /\ todo' = [todo EXCEPT ![p] = Files]
  /\ UNCHANGED <<checkout, files, registry, lease, before, copy, prelim, ranOn, attests,
                 job, cancelled, stuck>>

\* require_same against a fresh walk of the checkout.  A file that differs
\* makes the comparison fail: the only step left is then an error.
Rewalk(p, f, step, next) ==
  /\ pc[p] = step /\ f \in todo[p] /\ ~cancelled[p]
  /\ src[f] = before[p][f]
  /\ todo' = [todo EXCEPT ![p] = @ \ {f}]
  /\ pc' = [pc EXCEPT ![p] = IF todo'[p] = {} THEN next ELSE step]

\* The second half of create_verified.
CheckRoot(p, f) ==
  /\ Rewalk(p, f, "check_root", "version")
  /\ UNCHANGED <<checkout, files, registry, lease, before, copy, prelim, ranOn, attests,
                 job, cancelled, stuck>>

-----------------------------------------------------------------------------
(* run_producer: preliminary stages, then the main one *)

\* producer::prepare picks the stages; then the producer is asked for its
\* version, in the copy, which that command is taken to leave alone.
QueryVersion(p) ==
  /\ Goto(p, "version", "stage")
  /\ \E n \in 0..MaxPreliminary : prelim' = [prelim EXCEPT ![p] = n]
  /\ UNCHANGED <<checkout, files, registry, lease, before, copy, todo, ranOn, attests,
                 job, cancelled, stuck>>

\* Mutant: the count of preliminary stages goes on past the last one.
RunStageUncounted(p) ==
  /\ Goto(p, "stage", "check_restoration")
  /\ \E left \in Snapshots : copy' = [copy EXCEPT ![p] = left]
  /\ prelim' = [prelim EXCEPT ![p] = @ - 1]
  /\ ranOn' = IF prelim[p] = 0 THEN [ranOn EXCEPT ![p] = copy[p]] ELSE ranOn
  /\ UNCHANGED <<checkout, files, registry, lease, before, todo, attests, job, cancelled, stuck>>

\* The command may leave its copy different from what it found.
RunStage(p) ==
  /\ Goto(p, "stage", "check_restoration")
  /\ \E left \in Snapshots : copy' = [copy EXCEPT ![p] = left]
  /\ IF prelim[p] = 0
     THEN /\ ranOn' = [ranOn EXCEPT ![p] = copy[p]]
          /\ UNCHANGED prelim
     ELSE /\ prelim' = [prelim EXCEPT ![p] = @ - 1]
          /\ UNCHANGED ranOn
  /\ UNCHANGED <<checkout, files, registry, lease, before, todo, attests, job, cancelled, stuck>>

\* Mutant: what a stage left behind is not compared.
CheckRestorationSkipped(p) ==
  /\ Goto(p, "check_restoration", "check_checkout")
  /\ ~cancelled[p]
  /\ todo' = [todo EXCEPT ![p] = Files]
  /\ UNCHANGED <<checkout, files, registry, lease, before, copy, prelim, ranOn, attests,
                 job, cancelled, stuck>>

CheckRestoration(p) ==
  /\ Goto(p, "check_restoration", "check_checkout")
  /\ ~cancelled[p] /\ copy[p] = before[p]
  /\ todo' = [todo EXCEPT ![p] = Files]
  /\ UNCHANGED <<checkout, files, registry, lease, before, copy, prelim, ranOn, attests,
                 job, cancelled, stuck>>

CheckCheckout(p, f) ==
  /\ Rewalk(p, f, "check_checkout", IF ranOn[p] = NoFile THEN "stage" ELSE "begin")
  /\ UNCHANGED <<checkout, files, registry, lease, before, copy, prelim, ranOn, attests,
                 job, cancelled, stuck>>

-----------------------------------------------------------------------------
(* publish *)

BeginPublication(p) ==
  /\ Goto(p, "begin", "write")
  /\ job' = [job EXCEPT ![p] = "publishing"]
  /\ UNCHANGED <<checkout, files, registry, lease, private, cancelled, stuck>>

\* The name of the pending file is fixed by the destination, not by the run.
WritePending(p) ==
  /\ Goto(p, "write", "validate")
  /\ pending' = p
  /\ UNCHANGED <<checkout, report, receipt, registry, lease, private, job, cancelled, stuck>>

Validate(p) ==
  /\ Goto(p, "validate", "attest")
  /\ pending # NoFile
  /\ UNCHANGED <<checkout, files, registry, lease, private, job, cancelled, stuck>>

\* A report that fails validation is unlinked; one that fails the partition
\* check, or cannot be read, is left behind.
Invalid(p) ==
  /\ Goto(p, "validate", "drop_workspace")
  /\ pending' \in {NoFile, pending}
  /\ UNCHANGED <<checkout, report, receipt, registry, lease, private, job, cancelled, stuck>>

\* report_sha256 is the digest of the pending file, read back from disk.
AttestReport(p) ==
  /\ Goto(p, "attest", "precheck")
  /\ ~cancelled[p] /\ pending # NoFile
  /\ attests' = [attests EXCEPT ![p] = pending]
  /\ todo' = [todo EXCEPT ![p] = Files]
  /\ UNCHANGED <<checkout, files, registry, lease, before, copy, prelim, ranOn, job,
                 cancelled, stuck>>

CheckBeforePublication(p, f) ==
  /\ Rewalk(p, f, "precheck", "rename")
  /\ UNCHANGED <<checkout, files, registry, lease, before, copy, prelim, ranOn, attests,
                 job, cancelled, stuck>>

RenameReport(p) ==
  /\ Goto(p, "rename", "receipt")
  /\ ~cancelled[p]
  /\ pending # NoFile
  /\ report' = pending /\ pending' = NoFile
  /\ UNCHANGED <<checkout, receipt, registry, lease, private, job, cancelled, stuck>>

\* write_atomic_file: the receipt appears with all its bytes.
WriteReceipt(p) ==
  /\ Goto(p, "receipt", "check_report")
  /\ receipt' = p
  /\ UNCHANGED <<checkout, pending, report, registry, lease, private, job, cancelled, stuck>>

CheckReport(p) ==
  /\ Goto(p, "check_report", "check_receipt")
  /\ ~cancelled[p] /\ report = attests[p]
  /\ UNCHANGED <<checkout, files, registry, lease, private, job, cancelled, stuck>>

CheckReceipt(p) ==
  /\ Goto(p, "check_receipt", "postcheck")
  /\ receipt = p
  /\ todo' = [todo EXCEPT ![p] = Files]
  /\ UNCHANGED <<checkout, files, registry, lease, before, copy, prelim, ranOn, attests,
                 job, cancelled, stuck>>

CheckAfterPublication(p, f) ==
  /\ Rewalk(p, f, "postcheck", "record")
  /\ UNCHANGED <<checkout, files, registry, lease, before, copy, prelim, ranOn, attests,
                 job, cancelled, stuck>>

-----------------------------------------------------------------------------
(* certify, close and commit *)

CreateRecord(p) ==
  /\ Goto(p, "record", "slot")
  /\ records' = records \cup {p}
  /\ UNCHANGED <<checkout, files, slot, marked, lease, private, job, cancelled, stuck>>

\* create_new: an existing slot is an error.
CreateSlot(p) ==
  /\ Goto(p, "slot", "mark")
  /\ slot = NoFile
  /\ slot' = p
  /\ UNCHANGED <<checkout, files, marked, records, lease, private, job, cancelled, stuck>>

\* The digest goes into the file this run opened, linked or not.
MarkSlot(p) ==
  /\ Goto(p, "mark", "authenticate")
  /\ marked' = marked \cup {p}
  /\ UNCHANGED <<checkout, files, slot, records, lease, private, job, cancelled, stuck>>

\* authentication::verify for the receipt of run p.
Authentic(p) == slot = p /\ p \in marked /\ p \in records

Authenticate(p) ==
  /\ Goto(p, "authenticate", "close")
  /\ Authentic(p)
  /\ UNCHANGED <<checkout, files, registry, lease, private, job, cancelled, stuck>>

CloseWorkspace(p) ==
  /\ Goto(p, "close", "remove")
  /\ ~cancelled[p]
  /\ job[p] \in {"active", "publishing"}
  /\ job' = [job EXCEPT ![p] = "completed"]
  /\ UNCHANGED <<checkout, files, registry, lease, private, cancelled, stuck>>

\* The job path exists until the last directory entry is gone.
RemoveWorkspace(p) ==
  /\ Goto(p, "remove", "final")
  /\ job' = [job EXCEPT ![p] = "absent"]
  /\ UNCHANGED <<checkout, files, registry, lease, private, cancelled, stuck>>

\* Mutant: a copy that could not be removed does not fail the command.
CleanupIgnored(p) ==
  /\ Goto(p, "remove", "final")
  /\ job' = [job EXCEPT ![p] = "cleanup-failed"]
  /\ UNCHANGED <<checkout, files, registry, lease, private, cancelled, stuck>>

CleanupFails(p) ==
  /\ Goto(p, "remove", "drop_slot")
  /\ job' = [job EXCEPT ![p] = "cleanup-failed"]
  /\ UNCHANGED <<checkout, files, registry, lease, private, cancelled, stuck>>

\* certification.commit and publication.committed: both guards let go.
Commit(p) ==
  /\ Goto(p, "final", "done")
  /\ ~cancelled[p]
  /\ Release(p)
  /\ UNCHANGED <<checkout, files, registry, private, job, cancelled, stuck>>

-----------------------------------------------------------------------------
(* Errors, and the guards they unwind *)

\* Mutant: the certification is committed before the last look at signals.
UnwindCommitted(step) ==
  CASE step = "revoke" -> "refused"
    [] step \in CertifySteps \ {"final"} -> "drop_slot"
    [] step \in ReceiptSteps \cup {"final"} -> "drop_receipt"
    [] OTHER -> "drop_workspace"

\* Where an error at this step enters the unwinding.
Unwind(step) ==
  CASE step = "revoke" -> "refused"
    [] step \in CertifySteps -> "drop_slot"
    [] step \in ReceiptSteps -> "drop_receipt"
    [] OTHER -> "drop_workspace"

\* Any `?`: an I/O error, pressure, an exhausted budget, a cancellation or a
\* comparison that does not hold.  An error before the removal leaves a job
\* that close gives its failed status on the way out.
FailedStatus(p) ==
  IF cancelled[p] THEN "interrupted"
  ELSE IF job[p] = "publishing" THEN "publication-failed" ELSE "failed"

Retained(p) ==
  IF job[p] \in {"active", "publishing"}
  THEN [job EXCEPT ![p] = FailedStatus(p)] ELSE job

Abort(p) ==
  /\ pc[p] \in Fallible \ {"remove"}
  /\ pc' = [pc EXCEPT ![p] = Unwind(pc[p])]
  /\ job' = IF pc[p] = "close" THEN Retained(p) ELSE job
  /\ IF pc[p] = "revoke" THEN Release(p) ELSE UNCHANGED lease
  /\ UNCHANGED <<checkout, files, registry, private, cancelled, stuck>>

\* Certification::drop: the slot path, whoever linked it.  A removal that fails
\* is ignored, and the file stays.
DropSlot(p) ==
  /\ Goto(p, "drop_slot", "drop_record")
  /\ \/ /\ slot' = NoFile
        /\ UNCHANGED stuck
     \/ /\ slot # NoFile
        /\ stuck' = [stuck EXCEPT ![p] = @ \cup {"slot"}]
        /\ UNCHANGED slot
  /\ UNCHANGED <<checkout, files, marked, records, lease, private, job, cancelled>>

\* Then the record; a removal that fails is reported and changes nothing else.
DropRecord(p) ==
  /\ Goto(p, "drop_record", "drop_receipt")
  /\ \/ /\ records' = records \ {p}
        /\ UNCHANGED stuck
     \/ /\ stuck' = [stuck EXCEPT ![p] = @ \cup {"record"}]
        /\ UNCHANGED records
  /\ UNCHANGED <<checkout, files, slot, marked, lease, private, job, cancelled>>

\* PendingReceipt::drop: the receipt path, whoever wrote it, if it can be removed.
DropReceipt(p) ==
  /\ Goto(p, "drop_receipt", "drop_workspace")
  /\ receipt' \in {NoFile, receipt}
  /\ UNCHANGED <<checkout, pending, report, registry, lease, private, job, cancelled, stuck>>

\* EvidenceWorkspace::drop retains the job; the command returns an error.
DropWorkspace(p) ==
  /\ Goto(p, "drop_workspace", "failed")
  /\ job' = Retained(p)
  /\ Release(p)
  /\ UNCHANGED <<checkout, files, registry, private, cancelled, stuck>>

-----------------------------------------------------------------------------
(* The environment *)

\* SIGKILL or the OOM killer: nothing is unwound, and what is on disk stays.
Crash(p) ==
  /\ pc[p] \in Working
  /\ pc' = [pc EXCEPT ![p] = IF @ = "revoke" THEN "refused" ELSE "crashed"]
  /\ Release(p)
  /\ UNCHANGED <<checkout, files, registry, private, job, cancelled, stuck>>

Signal(p) ==
  /\ pc[p] \in Working /\ ~cancelled[p]
  /\ cancelled' = [cancelled EXCEPT ![p] = TRUE]
  /\ UNCHANGED <<checkout, files, registry, lease, pc, private, job, stuck>>

\* Any other content, an earlier one too: edits are undone, branches changed.
Edit(f) ==
  /\ \E v \in Versions \ {src[f]} : src' = [src EXCEPT ![f] = v]
  /\ UNCHANGED <<files, registry, lease, pc, private, job, cancelled, stuck>>

\* A saved report and receipt of an earlier run are put back.
Restore(p) ==
  /\ p \in Restorable /\ pc[p] \in Ended /\ attests[p] # NoFile
  /\ report' = attests[p] /\ receipt' = p
  /\ UNCHANGED <<checkout, pending, registry, lease, pc, private, job, cancelled, stuck>>

\* A retained job is deleted, by hand or with the temporary directory.
Reap(p) ==
  /\ p \in Reapable /\ pc[p] \in {"failed", "crashed"} /\ job[p] # "absent"
  /\ job' = [job EXCEPT ![p] = "absent"]
  /\ UNCHANGED <<checkout, files, registry, lease, pc, private, cancelled, stuck>>

-----------------------------------------------------------------------------

Produce(p) ==
  \/ Revoke(p) \/ RemoveReceipt(p) \/ CreateWorkspace(p) \/ CheckCopy(p)
  \/ QueryVersion(p) \/ RunStage(p) \/ CheckRestoration(p)
  \/ \E f \in Files :
       CaptureFile(p, f) \/ CopyFile(p, f) \/ CheckRoot(p, f) \/ CheckCheckout(p, f)

Publish(p) ==
  \/ BeginPublication(p) \/ WritePending(p) \/ Validate(p) \/ Invalid(p)
  \/ AttestReport(p) \/ RenameReport(p) \/ WriteReceipt(p) \/ CheckReport(p)
  \/ CheckReceipt(p)
  \/ \E f \in Files : CheckBeforePublication(p, f) \/ CheckAfterPublication(p, f)

Certify(p) ==
  \/ CreateRecord(p) \/ CreateSlot(p) \/ MarkSlot(p) \/ Authenticate(p)
  \/ CloseWorkspace(p) \/ RemoveWorkspace(p) \/ CleanupFails(p) \/ Commit(p)

Fail(p) == Abort(p) \/ DropSlot(p) \/ DropRecord(p) \/ DropReceipt(p) \/ DropWorkspace(p)

\* The code of a running command; Enter and Refuse are the user's to start.
Step(p) == Produce(p) \/ Publish(p) \/ Certify(p) \/ Fail(p)

Environment ==
  \/ \E p \in Runs : Crash(p) \/ Signal(p) \/ Restore(p) \/ Reap(p)
  \/ \E f \in Files : Edit(f)

Next ==
  \/ \E p \in Runs : Enter(p) \/ Refuse(p) \/ Step(p)
  \/ Environment

Spec == Init /\ [][Next]_vars

-----------------------------------------------------------------------------
(* Properties *)

\* The variables keep their types.
TypeOK ==
  /\ src \in Snapshots
  /\ pending \in Runs \cup {NoFile}
  /\ report \in Runs \cup {NoFile}
  /\ receipt \in Runs \cup {NoFile}
  /\ slot \in Runs \cup {NoFile}
  /\ marked \subseteq Runs
  /\ records \subseteq Runs
  /\ lease \in Runs \cup {NoFile}
  /\ pc \in [Runs -> {"idle"} \cup Working \cup Ended]
  /\ before \in [Runs -> Snapshots]
  /\ copy \in [Runs -> Snapshots]
  /\ todo \in [Runs -> SUBSET Files]
  /\ prelim \in [Runs -> 0..MaxPreliminary]
  /\ ranOn \in [Runs -> Snapshots \cup {NoFile}]
  /\ attests \in [Runs -> Runs \cup {NoFile}]
  /\ job \in [Runs -> JobStatus]
  /\ cancelled \in [Runs -> BOOLEAN]
  /\ stuck \in [Runs -> SUBSET {"slot", "record"}]

\* What a reader can establish about the receipt of run p from the registry
\* and the job path: authenticated, and its workspace gone.
Authenticated(p) == Authentic(p) /\ job[p] = "absent"

\* Everything a reader compares apart from the checkout: the receipt on disk is
\* p's, it is authenticated, and the report hashes to what it attests.
Usable(p) == receipt = p /\ Authenticated(p) /\ report = attests[p]

\* The evidence a reader can accept is the report of the very run the receipt
\* names, and the main stage of that run executed on the recorded inputs.
UsableEvidenceIsBound ==
  \A p \in Runs : Usable(p) => report = p /\ ranOn[p] = before[p]

\* What a run that returned an error or was cancelled leaves in the registry is
\* what Certification::drop tried to remove and could not.  So its receipt is
\* authentic afterwards, put back or not, only if both removals failed.
FailedRunIsWithdrawn ==
  \A p \in Runs : pc[p] = "failed" =>
    /\ slot = p => "slot" \in stuck[p]
    /\ p \in records => "record" \in stuck[p]

\* Success is reported only for authenticated evidence, and what was reported
\* is withdrawn by nothing but the revocation that starts a later attempt.
Durable(p) ==
  /\ pc'[p] = "done" /\ pc[p] # "done" => Authenticated(p)'
  /\ pc[p] = "done" /\ Authenticated(p) /\ ~Authenticated(p)' =>
       \E q \in Runs : pc[q] = "revoke" /\ pc'[q] = "remove_receipt"

CompletionIsDurable == [][\A p \in Runs : Durable(p)]_vars

-----------------------------------------------------------------------------
(* Refinement of EvidenceContract *)

\* A run counts as an attempt from the moment it has revoked its predecessor.
Tried == {p \in Runs : pc[p] \notin {"idle", "refused", "revoke"}}

\* It can still change what is usable while it works, and after a crash or an
\* error as long as the registry holds its slot.
Latest ==
  {p \in Tried : pc[p] \in Working \/ (pc[p] \in {"crashed", "failed"} /\ slot = p)}

UsableRun == IF slot # NoFile /\ Authenticated(slot) THEN slot ELSE NoFile

Contract == INSTANCE EvidenceContract
  WITH None <- NoFile, usable <- UsableRun, latest <- Latest, tried <- Tried

\* Production implements the contract, crashes, cancellations and the later
\* deletion of retained jobs included.
ImplementsContract == Contract!Spec

=============================================================================
