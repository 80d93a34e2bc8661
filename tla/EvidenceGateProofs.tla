--------------------------- MODULE EvidenceGateProofs ---------------------------
(***************************************************************************)
(* Proofs about EvidenceGate: the gate as a reader beside any number of    *)
(* producing runs, edits and their undoing, restored receipts, reaped jobs  *)
(* and removals that fail.                                                 *)
(***************************************************************************)
EXTENDS EvidenceGate, EvidencePublicationProofs

\* Steps after the slot, the record and the job have been read.
SlotRead   == {"record", "job", "hash", "walk", "score", "accepted"}
RecordRead == SlotRead \ {"record"}
JobRead    == RecordRead \ {"job"}

\* Steps of a run whose record has been dropped, or could have been.
Dropped == {"drop_receipt", "drop_workspace", "failed", "crashed"}

\* A slot names a run with a record until the record is dropped, a run that is
\* done has no job, and a run that has not revoked yet has captured nothing.
SettledInv == \A p \in Runs :
  /\ pc[p] \in CertifySteps \cup {"drop_slot", "done"} => p \in records
  /\ slot = p => p \in records \/ pc[p] \in Dropped
  /\ pc[p] \in {"final", "done"} => job[p] = "absent"
  /\ pc[p] \in {"idle", "refused", "revoke"} => \A f \in Files : before[p][f] = 0

\* What a run has captured is no newer than the checkout, as long as no content
\* has come back.
AgeInv == \A p \in Runs \ undone : \A f \in Files : before[p][f] <= src[f]

\* The gate's own variables at each of its steps.
ReaderInv ==
  /\ gate \in GateSteps \cup {"idle", "accepted", "rejected"}
  /\ seen \in Runs \cup {NoFile}
  /\ left \subseteq Files
  /\ scored \in Runs \cup {NoFile}
  /\ witnessed \in BOOLEAN
  /\ walked \subseteq Snapshots
  /\ undone \subseteq Runs
  /\ gate \in {"slot"} \cup SlotRead => seen # NoFile
  /\ gate \notin {"walk", "rejected"} => left = {}
  /\ gate = "walk" /\ Files # {} => left # {}
  /\ gate = "accepted" => scored # NoFile
  /\ gate \in {"idle", "score"} => scored = NoFile

HolderInv ==
  /\ lease \in Runs \cup {NoFile, Gate}
  /\ GateLeased /\ gate # "idle" => lease = Gate

\* Under the lease what the gate has read of the registry stays true.
RegistryHeld ==
  /\ gate \in SlotRead => seen = slot
  /\ gate \in RecordRead => seen \in records

\* One of the checkouts of the walk has the content of input f that was captured.
Found(f) == \E c \in walked : before[seen][f] = c[f]

\* The walk compares each input at a moment of its own.  If nothing has come back,
\* either the whole checkout has been what was captured, or some input is newer
\* already, and the walk has not come to it.
WalkInv ==
  /\ gate = "walk" =>
       /\ src \in walked
       /\ \A f \in Files \ left : Found(f)
       /\ seen \notin undone => \/ before[seen] \in walked
                              \/ \E f \in left : before[seen][f] < src[f]
  /\ gate \in {"score", "accepted"} =>
       /\ \A f \in Files : Found(f)
       /\ seen \notin undone => before[seen] \in walked

\* Nothing is put back between verification and scoring, or one saved report at
\* most and the verification is repeated.
RestoredOnce == \/ Restorable = {}
                \/ Rechecks /\ \A p, q \in Restorable : p = q

\* A report that is put back while the gate works replaces the verified one for
\* good.
ReportInv ==
  /\ gate \in {"walk", "score"} =>
       report = slot \/ \E p \in Restorable : report = attests[p]
  /\ gate \in GateSteps /\ scored # NoFile =>
       \/ scored = slot
       \/ report = scored /\ \E p \in Restorable : attests[p] = scored
  /\ gate \in {"walk", "accepted"} /\ scored # NoFile => scored = slot

Linked(s) == slot = s /\ s \in marked
Kept(s)   == Linked(s) /\ s \in records

\* A run that has lost or will lose its slot with a job nobody removes.
Stranded(s) ==
  /\ pc[s] \in {"drop_record", "drop_receipt", "drop_workspace", "failed", "crashed"}
  /\ job[s] # "absent"

\* A run whose record is gone for good.
Lost(s) == pc[s] \in Dropped /\ s \notin records

\* Slot, record and job are read in turn.  What has vanished in between has
\* been whole before, or its job is there for ever, or its record will be missed.
WitnessInv ==
  /\ gate \notin {"idle", "receipt"} /\ seen # NoFile /\ Authenticated(seen)
       => witnessed
  /\ gate = "record" =>
       \/ witnessed \/ Linked(seen)
       \/ ~GateLeased /\ (Stranded(seen) \/ Lost(seen))
  /\ gate = "job" => witnessed \/ Kept(seen) \/ (~GateLeased /\ Stranded(seen))
  /\ gate \in JobRead => witnessed

Exclusive == ~SharedBoundary

GateIInv ==
  /\ DataOK /\ ExecutionInv /\ RegistryInv /\ SettledInv /\ AgeInv
  /\ ReaderInv /\ HolderInv
  /\ Exclusive => LeaseInv
  /\ Exclusive /\ GateLeased => RegistryHeld /\ WalkInv
  /\ Exclusive /\ GateLeased /\ RestoredOnce => ReportInv
  /\ Exclusive /\ (GateLeased \/ Reapable = {}) => WitnessInv

-----------------------------------------------------------------------------
(* Every step preserves each part *)

\* A record outlives its slot, and success comes after the removal of the job.
LEMMA SettledStep ==
  DataOK /\ RegistryInv /\ SettledInv /\ [Next]_vars => SettledInv'
<1>. SUFFICES ASSUME DataOK, RegistryInv, SettledInv, [Next]_vars
             PROVE  SettledInv'
  OBVIOUS
<1>. USE PublicationConstants DEF DataOK, RegistryInv, InWorkspace,
         SettledInv, Dropped, Snapshots, Fallible, Working, Ended, ProduceSteps,
         PublishSteps,
         ReceiptSteps, CertifySteps, DropSteps, checkout, files, registry,
         private
<1>1. ASSUME NEW p \in Runs, Enter(p) PROVE SettledInv'
  BY <1>1 DEF Enter, Goto
<1>2. ASSUME NEW p \in Runs, Refuse(p) PROVE SettledInv'
  BY <1>2 DEF Refuse, Goto
<1>3. ASSUME NEW p \in Runs, Revoke(p) PROVE SettledInv'
  BY <1>3 DEF Revoke, Goto
<1>4. ASSUME NEW p \in Runs, RemoveReceipt(p) PROVE SettledInv'
  BY <1>4 DEF RemoveReceipt, Goto
<1>5. ASSUME NEW p \in Runs, NEW f \in Files, CaptureFile(p, f)
      PROVE SettledInv'
  BY <1>5 DEF CaptureFile
<1>6. ASSUME NEW p \in Runs, CreateWorkspace(p) PROVE SettledInv'
  BY <1>6 DEF CreateWorkspace, Goto
<1>7. ASSUME NEW p \in Runs, NEW f \in Files, CopyFile(p, f) PROVE SettledInv'
  BY <1>7 DEF CopyFile
<1>8. ASSUME NEW p \in Runs, CheckCopy(p) PROVE SettledInv'
  BY <1>8 DEF CheckCopy, Goto
<1>9. ASSUME NEW p \in Runs, NEW f \in Files, CheckRoot(p, f)
      PROVE SettledInv'
  BY <1>9 DEF CheckRoot, Rewalk
<1>10. ASSUME NEW p \in Runs, QueryVersion(p) PROVE SettledInv'
  BY <1>10 DEF QueryVersion, Goto
<1>11. ASSUME NEW p \in Runs, RunStage(p) PROVE SettledInv'
  BY <1>11 DEF RunStage, Goto
<1>12. ASSUME NEW p \in Runs, CheckRestoration(p) PROVE SettledInv'
  BY <1>12 DEF CheckRestoration, Goto
<1>13. ASSUME NEW p \in Runs, NEW f \in Files, CheckCheckout(p, f)
      PROVE SettledInv'
  BY <1>13 DEF CheckCheckout, Rewalk
<1>14. ASSUME NEW p \in Runs, BeginPublication(p) PROVE SettledInv'
  BY <1>14 DEF BeginPublication, Goto
<1>15. ASSUME NEW p \in Runs, WritePending(p) PROVE SettledInv'
  BY <1>15 DEF WritePending, Goto
<1>16. ASSUME NEW p \in Runs, Validate(p) PROVE SettledInv'
  BY <1>16 DEF Validate, Goto
<1>17. ASSUME NEW p \in Runs, Invalid(p) PROVE SettledInv'
  BY <1>17 DEF Invalid, Goto
<1>18. ASSUME NEW p \in Runs, AttestReport(p) PROVE SettledInv'
  BY <1>18 DEF AttestReport, Goto
<1>19. ASSUME NEW p \in Runs, NEW f \in Files, CheckBeforePublication(p, f)
      PROVE SettledInv'
  BY <1>19 DEF CheckBeforePublication, Rewalk
<1>20. ASSUME NEW p \in Runs, RenameReport(p) PROVE SettledInv'
  BY <1>20 DEF RenameReport, Goto
<1>21. ASSUME NEW p \in Runs, WriteReceipt(p) PROVE SettledInv'
  BY <1>21 DEF WriteReceipt, Goto
<1>22. ASSUME NEW p \in Runs, CheckReport(p) PROVE SettledInv'
  BY <1>22 DEF CheckReport, Goto
<1>23. ASSUME NEW p \in Runs, CheckReceipt(p) PROVE SettledInv'
  BY <1>23 DEF CheckReceipt, Goto
<1>24. ASSUME NEW p \in Runs, NEW f \in Files, CheckAfterPublication(p, f)
      PROVE SettledInv'
  BY <1>24 DEF CheckAfterPublication, Rewalk
<1>25. ASSUME NEW p \in Runs, CreateRecord(p) PROVE SettledInv'
  BY <1>25 DEF CreateRecord, Goto
<1>26. ASSUME NEW p \in Runs, CreateSlot(p) PROVE SettledInv'
  BY <1>26 DEF CreateSlot, Goto
<1>27. ASSUME NEW p \in Runs, MarkSlot(p) PROVE SettledInv'
  BY <1>27 DEF MarkSlot, Goto
<1>28. ASSUME NEW p \in Runs, Authenticate(p) PROVE SettledInv'
  BY <1>28 DEF Authenticate, Goto, Authentic
<1>29. ASSUME NEW p \in Runs, CloseWorkspace(p) PROVE SettledInv'
  BY <1>29 DEF CloseWorkspace, Goto
<1>30. ASSUME NEW p \in Runs, RemoveWorkspace(p) PROVE SettledInv'
  BY <1>30 DEF RemoveWorkspace, Goto
<1>31. ASSUME NEW p \in Runs, CleanupFails(p) PROVE SettledInv'
  BY <1>31 DEF CleanupFails, Goto
<1>32. ASSUME NEW p \in Runs, Commit(p) PROVE SettledInv'
  BY <1>32 DEF Commit, Goto, Release
<1>33. ASSUME NEW p \in Runs, Abort(p) PROVE SettledInv'
  BY <1>33 DEF Abort, Retained, FailedStatus, Unwind, Release
<1>34. ASSUME NEW p \in Runs, DropSlot(p) PROVE SettledInv'
  BY <1>34 DEF DropSlot, Goto
<1>35. ASSUME NEW p \in Runs, DropRecord(p) PROVE SettledInv'
  BY <1>35 DEF DropRecord, Goto
<1>36. ASSUME NEW p \in Runs, DropReceipt(p) PROVE SettledInv'
  BY <1>36 DEF DropReceipt, Goto
<1>37. ASSUME NEW p \in Runs, DropWorkspace(p) PROVE SettledInv'
  BY <1>37 DEF DropWorkspace, Goto, Retained, FailedStatus, Release
<1>38. ASSUME NEW p \in Runs, Crash(p) PROVE SettledInv'
  BY <1>38 DEF Crash, Release
<1>39. ASSUME NEW p \in Runs, Signal(p) PROVE SettledInv'
  BY <1>39 DEF Signal
<1>40. ASSUME NEW p \in Runs, Restore(p) PROVE SettledInv'
  BY <1>40 DEF Restore
<1>41. ASSUME NEW p \in Runs, Reap(p) PROVE SettledInv'
  BY <1>41 DEF Reap
<1>42. ASSUME NEW f \in Files, Edit(f) PROVE SettledInv'
  BY <1>42 DEF Edit
<1>43. CASE UNCHANGED vars
  BY <1>43 DEF vars
<1>. QED
  BY <1>1, <1>2, <1>3, <1>4, <1>5, <1>6, <1>7, <1>8, <1>9, <1>10, <1>11,
     <1>12, <1>13, <1>14, <1>15, <1>16, <1>17, <1>18, <1>19, <1>20, <1>21,
     <1>22, <1>23, <1>24, <1>25, <1>26, <1>27, <1>28, <1>29, <1>30, <1>31,
     <1>32, <1>33, <1>34, <1>35, <1>36, <1>37, <1>38, <1>39, <1>40, <1>41,
     <1>42, <1>43 DEF Next, Environment, Step, Produce, Publish, Certify, Fail

\* Only an edit changes the checkout, only its capture what a run has captured.
LEMMA InputMoves ==
  [Next]_vars => \/ UNCHANGED <<src, before>>
                 \/ \E f \in Files : Edit(f)
                 \/ \E p \in Runs : \E f \in Files : CaptureFile(p, f)
<1>. SUFFICES ASSUME [Next]_vars, ~\E f \in Files : Edit(f),
                     ~\E p \in Runs : \E f \in Files : CaptureFile(p, f)
              PROVE  src' = src /\ before' = before
  OBVIOUS
<1>. USE DEF checkout, private
<1>1. ASSUME NEW p \in Runs, Produce(p) PROVE src' = src /\ before' = before
  BY <1>1 DEF Produce, Revoke, RemoveReceipt, CreateWorkspace, CheckCopy,
     QueryVersion, RunStage, CheckRestoration, CopyFile, CheckRoot,
     CheckCheckout
<1>2. ASSUME NEW p \in Runs, Publish(p) PROVE src' = src /\ before' = before
  BY <1>2 DEF Publish, BeginPublication, WritePending, Validate, Invalid,
     AttestReport, RenameReport, WriteReceipt, CheckReport, CheckReceipt,
     CheckBeforePublication, CheckAfterPublication
<1>3. ASSUME NEW p \in Runs, Certify(p) PROVE src' = src /\ before' = before
  BY <1>3 DEF Certify, CreateRecord, CreateSlot, MarkSlot, Authenticate,
     CloseWorkspace, RemoveWorkspace, CleanupFails, Commit
<1>4. ASSUME NEW p \in Runs, Fail(p) PROVE src' = src /\ before' = before
  BY <1>4 DEF Fail, Abort, DropSlot, DropRecord, DropReceipt, DropWorkspace
<1>5. ASSUME Environment PROVE src' = src /\ before' = before
  BY <1>5 DEF Environment, Crash, Signal, Restore, Reap
<1>6. ASSUME NEW p \in Runs, Enter(p) \/ Refuse(p) PROVE src' = src /\ before' = before
  BY <1>6 DEF Enter, Refuse
<1>7. CASE UNCHANGED vars
  BY <1>7 DEF vars
<1>. QED
  BY <1>1, <1>2, <1>3, <1>4, <1>5, <1>6, <1>7 DEF Next, Step

\* What is captured is what is there, and an edit that brings an old content back
\* is noted for every run that may have captured a later one.
LEMMA AgeStep ==
  ASSUME DataOK, SettledInv, AgeInv, [Next]_vars, Regress
  PROVE  AgeInv'
<1>. USE PublicationConstants DEF DataOK, AgeInv, Snapshots, Versions, checkout, files,
         registry, private
<1>0. undone \subseteq undone'
  BY DEF Regress
<1>1. ASSUME NEW p \in Runs, NEW f \in Files, CaptureFile(p, f) PROVE AgeInv'
  BY <1>0, <1>1 DEF CaptureFile
<1>2. ASSUME NEW f \in Files, Edit(f) PROVE AgeInv'
  <2>1. before' = before /\ src' \in [Files -> 0..MaxVersion]
    BY <1>2 DEF Edit
  <2>2. \A p \in Runs : \A g \in Files : /\ before[p][g] \in Nat
                                       /\ src[g] \in Nat /\ src'[g] \in Nat
    BY <2>1
  <2>3. CASE \E g \in Files : src'[g] < src[g]
    <3>. SUFFICES ASSUME NEW p \in Runs, p \notin undone', NEW g \in Files
                  PROVE  before[p][g] <= src'[g]
      BY <2>1
    <3>1. pc[p] \in {"idle", "refused", "revoke"}
      BY <2>3 DEF Regress, Tried
    <3>2. before[p][g] = 0
      BY <3>1 DEF SettledInv
    <3>. QED
      BY <2>2, <3>2
  <2>4. CASE ~\E g \in Files : src'[g] < src[g]
    <3>. SUFFICES ASSUME NEW p \in Runs, p \notin undone', NEW g \in Files
                  PROVE  before[p][g] <= src'[g]
      BY <2>1
    <3>1. before[p][g] <= src[g] /\ ~(src'[g] < src[g])
      BY <1>0, <2>4
    <3>. QED
      BY <2>2, <3>1
  <2>. QED
    BY <2>3, <2>4
<1>3. CASE UNCHANGED <<src, before>>
  BY <1>0, <1>3
<1>4. UNCHANGED <<src, before>> \/ (\E f \in Files : Edit(f))
        \/ (\E p \in Runs : \E f \in Files : CaptureFile(p, f))
  BY InputMoves
<1>. QED
  BY <1>1, <1>2, <1>3, <1>4

\* A run that takes a step of its own is working.
LEMMA StepWorks ==
  ASSUME NEW p \in Runs, Step(p)
  PROVE  pc[p] \in Working
<1>. USE DEF Goto, Fallible, Working, ProduceSteps, PublishSteps, ReceiptSteps,
         CertifySteps, DropSteps
<1>1. CASE Produce(p)
  BY <1>1 DEF Produce, Revoke, RemoveReceipt, CreateWorkspace, CheckCopy,
     QueryVersion, RunStage, CheckRestoration, CaptureFile, CopyFile,
     CheckRoot, CheckCheckout, Rewalk
<1>2. CASE Publish(p)
  BY <1>2 DEF Publish, BeginPublication, WritePending, Validate, Invalid,
     AttestReport, RenameReport, WriteReceipt, CheckReport, CheckReceipt,
     CheckBeforePublication, CheckAfterPublication, Rewalk
<1>3. CASE Certify(p)
  BY <1>3 DEF Certify, CreateRecord, CreateSlot, MarkSlot, Authenticate,
     CloseWorkspace, RemoveWorkspace, CleanupFails, Commit
<1>4. CASE Fail(p)
  BY <1>4 DEF Fail, Abort, DropSlot, DropRecord, DropReceipt, DropWorkspace
<1>. QED
  BY <1>1, <1>2, <1>3, <1>4 DEF Step

\* While the gate holds the lease only edits, restored reports, deleted jobs and
\* refused runs happen: nobody touches the registry.
LEMMA HeldStep ==
  ASSUME DataOK, LeaseInv, ~SharedBoundary, lease = Gate, [Next]_vars
  PROVE  /\ UNCHANGED <<slot, marked, records, before, attests, lease>>
         /\ report' = report \/ \E p \in Restorable : report' = attests[p]
<1>. USE GateConstants, PublicationConstants DEF checkout, files, registry, private
<1>. DEFINE Goal == /\ UNCHANGED <<slot, marked, records, before, attests, lease>>
                    /\ report' = report \/ \E p \in Restorable : report' = attests[p]
<1>1. ASSUME NEW p \in Runs, Step(p) \/ Crash(p) \/ Signal(p) PROVE FALSE
  BY <1>1, StepWorks DEF LeaseInv, Crash, Signal
<1>2. ASSUME NEW p \in Runs, Enter(p) PROVE FALSE
  BY <1>2 DEF Enter
<1>3. ASSUME NEW p \in Runs, Refuse(p) PROVE Goal
  BY <1>3 DEF Refuse
<1>4. ASSUME NEW p \in Runs, Restore(p) PROVE Goal
  BY <1>4 DEF Restore
<1>5. ASSUME NEW p \in Runs, Reap(p) PROVE Goal
  BY <1>5 DEF Reap
<1>6. ASSUME NEW f \in Files, Edit(f) PROVE Goal
  BY <1>6 DEF Edit
<1>7. CASE UNCHANGED vars
  BY <1>7 DEF vars
<1>. QED
  BY <1>1, <1>2, <1>3, <1>4, <1>5, <1>6, <1>7 DEF Next, Environment

\* A run with slot and record loses them to a later one only when it has ended,
\* and to its own failure only with a job it leaves behind; a lost record does
\* not come back.
LEMMA StrandStep ==
  ASSUME DataOK, RegistryInv, SettledInv, LeaseInv, ~SharedBoundary, Reapable = {},
         [Next]_vars, NEW s \in Runs
  PROVE  /\ (Kept(s) \/ Stranded(s)) /\ ~Authenticated(s) => Kept(s)' \/ Stranded(s)'
         /\ Lost(s) => Lost(s)'
<1>. DEFINE Goal ==
         /\ (Kept(s) \/ Stranded(s)) /\ ~Authenticated(s) => Kept(s)' \/ Stranded(s)'
         /\ Lost(s) => Lost(s)'
<1>. USE PublicationConstants DEF DataOK, RegistryInv, LeaseInv, SettledInv,
         Authenticated, Authentic, Kept, Linked, Stranded, Lost, Dropped,
         InWorkspace, Fallible,
         Working, Ended, ProduceSteps, PublishSteps, ReceiptSteps,
         CertifySteps, DropSteps, checkout, files, registry, private
<1>1. ASSUME NEW p \in Runs, Enter(p) PROVE Goal
  BY <1>1 DEF Enter, Goto
<1>2. ASSUME NEW p \in Runs, Refuse(p) PROVE Goal
  BY <1>2 DEF Refuse, Goto
<1>3. ASSUME NEW p \in Runs, Revoke(p) PROVE Goal
  BY <1>3 DEF Revoke, Goto
<1>4. ASSUME NEW p \in Runs, RemoveReceipt(p) PROVE Goal
  BY <1>4 DEF RemoveReceipt, Goto
<1>5. ASSUME NEW p \in Runs, NEW f \in Files, CaptureFile(p, f) PROVE Goal
  BY <1>5 DEF CaptureFile
<1>6. ASSUME NEW p \in Runs, CreateWorkspace(p) PROVE Goal
  BY <1>6 DEF CreateWorkspace, Goto
<1>7. ASSUME NEW p \in Runs, NEW f \in Files, CopyFile(p, f) PROVE Goal
  BY <1>7 DEF CopyFile
<1>8. ASSUME NEW p \in Runs, CheckCopy(p) PROVE Goal
  BY <1>8 DEF CheckCopy, Goto
<1>9. ASSUME NEW p \in Runs, NEW f \in Files, CheckRoot(p, f) PROVE Goal
  BY <1>9 DEF CheckRoot, Rewalk
<1>10. ASSUME NEW p \in Runs, QueryVersion(p) PROVE Goal
  BY <1>10 DEF QueryVersion, Goto
<1>11. ASSUME NEW p \in Runs, RunStage(p) PROVE Goal
  BY <1>11 DEF RunStage, Goto
<1>12. ASSUME NEW p \in Runs, CheckRestoration(p) PROVE Goal
  BY <1>12 DEF CheckRestoration, Goto
<1>13. ASSUME NEW p \in Runs, NEW f \in Files, CheckCheckout(p, f) PROVE Goal
  BY <1>13 DEF CheckCheckout, Rewalk
<1>14. ASSUME NEW p \in Runs, BeginPublication(p) PROVE Goal
  BY <1>14 DEF BeginPublication, Goto
<1>15. ASSUME NEW p \in Runs, WritePending(p) PROVE Goal
  BY <1>15 DEF WritePending, Goto
<1>16. ASSUME NEW p \in Runs, Validate(p) PROVE Goal
  BY <1>16 DEF Validate, Goto
<1>17. ASSUME NEW p \in Runs, Invalid(p) PROVE Goal
  BY <1>17 DEF Invalid, Goto
<1>18. ASSUME NEW p \in Runs, AttestReport(p) PROVE Goal
  BY <1>18 DEF AttestReport, Goto
<1>19. ASSUME NEW p \in Runs, NEW f \in Files, CheckBeforePublication(p, f)
      PROVE Goal
  BY <1>19 DEF CheckBeforePublication, Rewalk
<1>20. ASSUME NEW p \in Runs, RenameReport(p) PROVE Goal
  BY <1>20 DEF RenameReport, Goto
<1>21. ASSUME NEW p \in Runs, WriteReceipt(p) PROVE Goal
  BY <1>21 DEF WriteReceipt, Goto
<1>22. ASSUME NEW p \in Runs, CheckReport(p) PROVE Goal
  BY <1>22 DEF CheckReport, Goto
<1>23. ASSUME NEW p \in Runs, CheckReceipt(p) PROVE Goal
  BY <1>23 DEF CheckReceipt, Goto
<1>24. ASSUME NEW p \in Runs, NEW f \in Files, CheckAfterPublication(p, f)
      PROVE Goal
  BY <1>24 DEF CheckAfterPublication, Rewalk
<1>25. ASSUME NEW p \in Runs, CreateRecord(p) PROVE Goal
  BY <1>25 DEF CreateRecord, Goto
<1>26. ASSUME NEW p \in Runs, CreateSlot(p) PROVE Goal
  BY <1>26 DEF CreateSlot, Goto
<1>27. ASSUME NEW p \in Runs, MarkSlot(p) PROVE Goal
  BY <1>27 DEF MarkSlot, Goto
<1>28. ASSUME NEW p \in Runs, Authenticate(p) PROVE Goal
  BY <1>28 DEF Authenticate, Goto, Authentic
<1>29. ASSUME NEW p \in Runs, CloseWorkspace(p) PROVE Goal
  BY <1>29 DEF CloseWorkspace, Goto
<1>30. ASSUME NEW p \in Runs, RemoveWorkspace(p) PROVE Goal
  BY <1>30 DEF RemoveWorkspace, Goto
<1>31. ASSUME NEW p \in Runs, CleanupFails(p) PROVE Goal
  BY <1>31 DEF CleanupFails, Goto
<1>32. ASSUME NEW p \in Runs, Commit(p) PROVE Goal
  BY <1>32 DEF Commit, Goto, Release
<1>33. ASSUME NEW p \in Runs, Abort(p) PROVE Goal
  BY <1>33 DEF Abort, Retained, FailedStatus, Unwind, Release
<1>34. ASSUME NEW p \in Runs, DropSlot(p) PROVE Goal
  BY <1>34 DEF DropSlot, Goto
<1>35. ASSUME NEW p \in Runs, DropRecord(p) PROVE Goal
  BY <1>35 DEF DropRecord, Goto
<1>36. ASSUME NEW p \in Runs, DropReceipt(p) PROVE Goal
  BY <1>36 DEF DropReceipt, Goto
<1>37. ASSUME NEW p \in Runs, DropWorkspace(p) PROVE Goal
  BY <1>37 DEF DropWorkspace, Goto, Retained, FailedStatus, Release
<1>38. ASSUME NEW p \in Runs, Crash(p) PROVE Goal
  BY <1>38 DEF Crash, Release
<1>39. ASSUME NEW p \in Runs, Signal(p) PROVE Goal
  BY <1>39 DEF Signal
<1>40. ASSUME NEW p \in Runs, Restore(p) PROVE Goal
  BY <1>40 DEF Restore
<1>41. ASSUME NEW p \in Runs, Reap(p) PROVE Goal
  BY <1>41 DEF Reap
<1>42. ASSUME NEW f \in Files, Edit(f) PROVE Goal
  BY <1>42 DEF Edit
<1>43. CASE UNCHANGED vars
  BY <1>43 DEF vars
<1>. QED
  BY <1>1, <1>2, <1>3, <1>4, <1>5, <1>6, <1>7, <1>8, <1>9, <1>10, <1>11,
     <1>12, <1>13, <1>14, <1>15, <1>16, <1>17, <1>18, <1>19, <1>20, <1>21,
     <1>22, <1>23, <1>24, <1>25, <1>26, <1>27, <1>28, <1>29, <1>30, <1>31,
     <1>32, <1>33, <1>34, <1>35, <1>36, <1>37, <1>38, <1>39, <1>40, <1>41,
     <1>42, <1>43 DEF Next, Environment, Step, Produce, Publish, Certify, Fail

-----------------------------------------------------------------------------
(* Theorems *)

\* What the gate does leaves everything but the lease alone.
LEMMA GateKeeps ==
  GateStep => UNCHANGED <<checkout, files, registry, pc, private, job, cancelled,
                          stuck>>
BY DEF GateStep, GateEnter, ReadReceipt, ReadSlot, ReadRecord, ProbeJob,
   HashReport, ScoreReport, Reject, GateExit, WalkFile, vars

\* The gate takes a free lease and gives its own back.
LEMMA GateLease ==
  GateStep => \/ lease' = lease
              \/ lease = NoFile /\ lease' = Gate
              \/ lease = Gate /\ lease' = NoFile
BY DEF GateStep, GateEnter, ReadReceipt, ReadSlot, ReadRecord, ProbeJob,
   HashReport, ScoreReport, Reject, GateExit, WalkFile, vars

-----------------------------------------------------------------------------
(* Every step of the gate and of the producers preserves each part *)

ProducerStep ==
  /\ Next /\ UNCHANGED <<gate, seen, left, scored>>
  /\ Witness /\ Observe /\ Regress

\* The producers' own invariant is the producers' affair.
LEMMA ProductionStep ==
  ASSUME DataOK, ExecutionInv, RegistryInv, SettledInv, AgeInv, [GateNext]_allVars
  PROVE  DataOK' /\ ExecutionInv' /\ RegistryInv' /\ SettledInv' /\ AgeInv'
<1>1. CASE GateStep \/ UNCHANGED allVars
  <2>1. UNCHANGED <<src, pending, report, receipt, slot, marked, records, pc, before,
                    copy, todo, prelim, ranOn, attests, job, cancelled, stuck>>
    BY <1>1, GateKeeps DEF allVars, vars, checkout, files, registry, private
  <2>2. DataOK'
    BY <2>1 DEF DataOK
  <2>3. ExecutionInv' /\ RegistryInv'
    BY <2>1 DEF ExecutionInv, RegistryInv
  <2>4. SettledInv'
    BY <2>1 DEF SettledInv
  <2>5. undone \subseteq undone'
    BY <1>1 DEF GateNext, Regress, allVars, gateVars
  <2>6. AgeInv'
    BY <2>1, <2>5 DEF AgeInv
  <2>. QED
    BY <2>2, <2>3, <2>4, <2>6
<1>2. CASE Next /\ Regress
  BY <1>2, DataStep, ExecutionStep, RegistryStep, SettledStep, AgeStep
<1>. QED
  BY <1>1, <1>2 DEF GateNext

\* The gate leaves the lease of a working run alone.
LEMMA LeaseHeldStep ==
  ASSUME DataOK, RegistryInv, LeaseInv, ~SharedBoundary, [GateNext]_allVars
  PROVE  LeaseInv'
<1>1. CASE GateStep \/ UNCHANGED allVars
  <2>1. UNCHANGED <<pending, slot, marked, records, pc, attests, job>>
    BY <1>1, GateKeeps DEF allVars, vars, files, registry, private
  <2>2. \A p \in Runs : lease = p => lease' = p
    BY <1>1, GateLease, GateConstants, PublicationConstants DEF allVars, vars
  <2>. QED
    BY <2>1, <2>2 DEF LeaseInv, Authentic
<1>2. CASE Next
  BY <1>2, LeaseStep
<1>. QED
  BY <1>1, <1>2 DEF GateNext

\* The history of the gate's walk is one of checkouts and runs.
LEMMA HistoryStep ==
  ASSUME DataOK, DataOK', ReaderInv, Witness, Observe, Regress
  PROVE  witnessed' \in BOOLEAN /\ walked' \subseteq Snapshots /\ undone' \subseteq Runs
<1>1. witnessed' \in BOOLEAN
  BY DEF Witness
<1>2. walked' \subseteq Snapshots
  BY DEF Observe, ReaderInv, DataOK
<1>3. undone' \subseteq Runs
  BY DEF Regress, ReaderInv, Tried
<1>. QED
  BY <1>1, <1>2, <1>3

\* The gate's own variables keep their types, step by step.
LEMMA ReaderStep ==
  ASSUME DataOK, DataOK', ReaderInv, [GateNext]_allVars
  PROVE  ReaderInv'
<1>. USE PublicationConstants DEF ReaderInv, DataOK, GateSteps, SlotRead, GateGoto,
         vars, checkout, files, registry, private
<1>0. CASE UNCHANGED allVars
  BY <1>0 DEF allVars, gateVars
<1>1. CASE ProducerStep
  BY <1>1, HistoryStep DEF ProducerStep
<1>. SUFFICES ASSUME GateStep, Witness, Observe, Regress PROVE ReaderInv'
  BY <1>0, <1>1 DEF GateNext, ProducerStep
<1>2. witnessed' \in BOOLEAN /\ walked' \subseteq Snapshots /\ undone' \subseteq Runs
  BY HistoryStep
<1>3. CASE GateEnter
  BY <1>2, <1>3 DEF GateEnter
<1>4. CASE ReadReceipt
  BY <1>2, <1>4 DEF ReadReceipt
<1>5. CASE ReadSlot
  BY <1>2, <1>5 DEF ReadSlot
<1>6. CASE ReadRecord
  BY <1>2, <1>6 DEF ReadRecord
<1>7. CASE ProbeJob
  BY <1>2, <1>7 DEF ProbeJob
<1>8. CASE HashReport
  BY <1>2, <1>8 DEF HashReport
<1>9. CASE ScoreReport
  BY <1>2, <1>9 DEF ScoreReport
<1>10. CASE Reject
  BY <1>2, <1>10 DEF Reject
<1>11. CASE GateExit
  BY <1>2, <1>11 DEF GateExit
<1>12. ASSUME NEW f \in Files, WalkFile(f) PROVE ReaderInv'
  BY <1>2, <1>12 DEF WalkFile, AfterWalk
<1>. QED
  BY <1>3, <1>4, <1>5, <1>6, <1>7, <1>8, <1>9, <1>10, <1>11, <1>12 DEF GateStep

\* Nobody but the gate takes the gate's lease away.
LEMMA HolderStep ==
  ASSUME HolderInv, [GateNext]_allVars
  PROVE  HolderInv'
<1>. USE GateConstants DEF HolderInv, GateGoto, GateSteps
<1>0. CASE UNCHANGED allVars
  BY <1>0 DEF allVars, gateVars, vars
<1>1. CASE ProducerStep
  BY <1>1, LeaseMoves DEF ProducerStep
<1>2. CASE GateStep
  BY <1>2 DEF GateStep, GateEnter, ReadReceipt, ReadSlot, ReadRecord, ProbeJob,
     HashReport, ScoreReport, Reject, GateExit, WalkFile, vars
<1>. QED
  BY <1>0, <1>1, <1>2 DEF GateNext, ProducerStep

\* What the producers can do while the gate holds the lease.
LEMMA ProducerHeld ==
  ASSUME DataOK, LeaseInv, ~SharedBoundary, GateLeased, HolderInv, gate # "idle",
         ProducerStep \/ UNCHANGED allVars
  PROVE  /\ UNCHANGED <<slot, marked, records, before, attests>>
         /\ UNCHANGED <<gate, seen, left, scored>>
         /\ report' = report \/ \E p \in Restorable : report' = attests[p]
<1>1. [Next]_vars
  BY DEF ProducerStep, allVars
<1>2. lease = Gate
  BY DEF HolderInv
<1>3. UNCHANGED <<gate, seen, left, scored>>
  BY DEF ProducerStep, allVars, gateVars
<1>. QED
  BY <1>1, <1>2, <1>3, HeldStep

\* The gate holds what it has read of the registry to be true, as it may.
LEMMA RegistryHeldStep ==
  ASSUME DataOK, LeaseInv, ~SharedBoundary, GateLeased, HolderInv, ReaderInv,
         RegistryHeld, [GateNext]_allVars
  PROVE  RegistryHeld'
<1>. USE DEF RegistryHeld, SlotRead, RecordRead
<1>1. CASE ProducerStep \/ UNCHANGED allVars
  <2>1. CASE gate = "idle"
    BY <1>1, <2>1 DEF ProducerStep, allVars, gateVars
  <2>. QED
    BY <1>1, <2>1, ProducerHeld
<1>2. CASE GateStep
  BY <1>2 DEF GateStep, GateEnter, ReadReceipt, ReadSlot, ReadRecord, ProbeJob,
     HashReport, ScoreReport, Reject, GateExit, WalkFile, AfterWalk, GateGoto,
     GateSteps, vars, registry, ReaderInv
<1>. QED
  BY <1>1, <1>2 DEF GateNext, ProducerStep

\* A run whose slot is linked has begun.
LEMMA LinkedTried ==
  ASSUME RegistryInv, slot \in Runs
  PROVE  slot \in Tried
BY DEF RegistryInv, Tried, CertifySteps, DropSteps

\* Versions are numbers, now and after the step.
LEMMA VersionsAreNumbers ==
  ASSUME DataOK, DataOK', NEW p \in Runs, NEW f \in Files
  PROVE  /\ before[p][f] \in Nat /\ src[f] \in Nat
         /\ before'[p][f] \in Nat /\ src'[f] \in Nat
BY PublicationConstants DEF DataOK, Snapshots, Versions

\* Two checkouts that differ differ in an input.
LEMMA SameCheckout ==
  ASSUME NEW c \in Snapshots, NEW d \in Snapshots, c # d
  PROVE  \E f \in Files : c[f] # d[f]
BY DEF Snapshots

\* An input that agrees when it is visited is in the checkout of that moment.  If
\* one was newer than what the run captured when the walk began, it stays so
\* unless an old content comes back, and the walk cannot pass it.
LEMMA WalkStep ==
  ASSUME DataOK, DataOK', RegistryInv, AgeInv, LeaseInv, ~SharedBoundary, GateLeased,
         HolderInv, ReaderInv, RegistryHeld, WalkInv, [GateNext]_allVars
  PROVE  WalkInv'
<1>0. undone \subseteq undone'
  BY DEF GateNext, Regress, allVars, gateVars
<1>1. CASE ProducerStep \/ UNCHANGED allVars
  <2>1. CASE gate = "idle"
    BY <1>1, <2>1 DEF ProducerStep, allVars, gateVars, WalkInv
  <2>2. CASE gate # "idle"
    <3>1. UNCHANGED <<before, gate, seen, left>>
      BY <1>1, <2>2, ProducerHeld
    <3>2. CASE gate = "walk"
      <4>1. seen \in Runs /\ seen \in Tried /\ left \subseteq Files
        BY <3>2, LinkedTried DEF ReaderInv, RegistryHeld, SlotRead
      <4>2. walked \subseteq walked' /\ src' \in walked'
        BY <1>1, <3>1, <3>2 DEF ProducerStep, Observe, allVars, gateVars, vars, WalkInv,
                                checkout
      <4>3. \A f \in Files \ left : Found(f)'
        BY <3>1, <3>2, <4>2 DEF WalkInv, Found
      <4>4. ASSUME seen \notin undone', ~(before[seen] \in walked)
            PROVE  \E f \in left : before[seen][f] < src'[f]
        <5>1. PICK f \in left : before[seen][f] < src[f]
          BY <1>0, <3>2, <4>4 DEF WalkInv
        <5>2. ~(src'[f] < src[f])
          <6>1. CASE UNCHANGED allVars
            BY <6>1, <4>1, <5>1, VersionsAreNumbers DEF allVars, vars, checkout
          <6>2. CASE Regress
            BY <4>1, <4>4, <6>2 DEF Regress
          <6>. QED
            BY <1>1, <6>1, <6>2 DEF ProducerStep
        <5>3. before[seen][f] \in Nat /\ src[f] \in Nat /\ src'[f] \in Nat
          BY <4>1, VersionsAreNumbers
        <5>. QED
          BY <5>1, <5>2, <5>3
      <4>. QED
        BY <3>1, <3>2, <4>2, <4>3, <4>4 DEF WalkInv
    <3>3. CASE gate \in {"score", "accepted"}
      <4>1. walked' = walked
        BY <1>1, <3>1, <3>3 DEF ProducerStep, Observe, allVars, gateVars
      <4>. QED
        BY <1>0, <3>1, <3>3, <4>1 DEF WalkInv, Found
    <3>4. CASE gate \notin {"walk", "score", "accepted"}
      BY <3>1, <3>4 DEF WalkInv
    <3>. QED
      BY <3>2, <3>3, <3>4
  <2>. QED
    BY <2>1, <2>2
<1>2. CASE HashReport /\ Observe
  <2>1. /\ gate' = "walk" /\ seen' = seen /\ left' = Files
        /\ src' = src /\ before' = before
    BY <1>2 DEF HashReport, GateGoto, vars, checkout, private
  <2>2. walked' = {src}
    BY <1>2, <2>1 DEF HashReport, GateGoto, Observe
  <2>3. seen \in Runs
    BY <1>2 DEF HashReport, GateGoto, ReaderInv, SlotRead
  <2>4. ASSUME seen \notin undone', before[seen] # src
        PROVE  \E f \in Files : before[seen][f] < src[f]
    <3>1. before[seen] \in Snapshots /\ src \in Snapshots
      BY <2>3 DEF DataOK
    <3>2. PICK f \in Files : before[seen][f] # src[f]
      BY <2>4, <3>1, SameCheckout
    <3>3. before[seen][f] <= src[f]
      BY <1>0, <2>3, <2>4 DEF AgeInv
    <3>4. before[seen][f] \in Nat /\ src[f] \in Nat
      BY <2>3, VersionsAreNumbers
    <3>. QED
      BY <3>2, <3>3, <3>4
  <2>. QED
    BY <2>1, <2>2, <2>4 DEF WalkInv
<1>3. ASSUME NEW f \in Files, WalkFile(f), Observe PROVE WalkInv'
  <2>0. /\ gate = "walk" /\ src' = src /\ before' = before /\ seen' = seen
        /\ left' = left \ {f} /\ src[f] = before[seen][f]
        /\ gate' = IF left' = {} THEN AfterWalk ELSE "walk"
    BY <1>3 DEF WalkFile, vars, checkout, private
  <2>1. src \in walked /\ walked' = walked
    BY <1>3, <2>0 DEF WalkInv, Observe, AfterWalk
  <2>2. \A g \in Files \ left' : Found(g)'
    BY <2>0, <2>1 DEF WalkInv, Found
  <2>3. ASSUME seen \notin undone', ~(before[seen] \in walked)
        PROVE  \E g \in left' : before[seen][g] < src[g]
    <3>1. PICK g \in left : before[seen][g] < src[g]
      BY <1>0, <2>0, <2>3 DEF WalkInv
    <3>2. seen \in Runs /\ g \in Files
      BY <2>0, <3>1 DEF ReaderInv, SlotRead
    <3>3. before[seen][g] \in Nat /\ src[g] \in Nat
      BY <3>2, VersionsAreNumbers
    <3>4. g # f
      BY <2>0, <3>1, <3>3
    <3>. QED
      BY <2>0, <3>1, <3>4
  <2>4. CASE left' = {}
    <3>1. \A g \in Files : Found(g)'
      BY <2>2, <2>4
    <3>2. seen \notin undone' => before[seen] \in walked
      BY <2>3, <2>4
    <3>3. gate' \in {"score", "accepted"}
      BY <2>0, <2>4 DEF AfterWalk
    <3>. QED
      BY <2>0, <2>1, <3>1, <3>2, <3>3 DEF WalkInv
  <2>5. CASE left' # {}
    <3>1. gate' = "walk"
      BY <2>0, <2>5
    <3>. QED
      BY <2>0, <2>1, <2>2, <2>3, <3>1 DEF WalkInv
  <2>. QED
    BY <2>4, <2>5
<1>4. CASE ScoreReport /\ Observe
  BY <1>0, <1>4 DEF ScoreReport, GateGoto, Observe, vars, checkout, private, WalkInv,
                    Found
<1>5. CASE GateEnter \/ ReadReceipt \/ ReadSlot \/ ReadRecord \/ ProbeJob
             \/ Reject \/ GateExit
  <2>1. gate' \notin {"walk", "score", "accepted"}
    BY <1>5 DEF GateEnter, ReadReceipt, ReadSlot, ReadRecord, ProbeJob, Reject,
                GateExit, GateGoto
  <2>. QED
    BY <2>1 DEF WalkInv
<1>. QED
  BY <1>1, <1>2, <1>3, <1>4, <1>5 DEF GateNext, ProducerStep, GateStep

\* A report that has been replaced is not the verified one again.
LEMMA ReportStep ==
  ASSUME DataOK, LeaseInv, ~SharedBoundary, GateLeased, RestoredOnce, HolderInv,
         ReaderInv, RegistryHeld, ReportInv, [GateNext]_allVars
  PROVE  ReportInv'
<1>. USE DEF ReportInv, GateSteps, files, registry, private
<1>1. CASE ProducerStep \/ UNCHANGED allVars
  <2>1. CASE gate = "idle"
    BY <1>1, <2>1 DEF ProducerStep, allVars, gateVars
  <2>. QED
    BY <1>1, <2>1, ProducerHeld DEF RestoredOnce
<1>2. CASE HashReport
  <2>1. seen = slot /\ seen \in records /\ seen \in Runs
    BY <1>2 DEF HashReport, GateGoto, ReaderInv, RegistryHeld, SlotRead, RecordRead
  <2>2. report = slot
    BY <1>2, <2>1 DEF HashReport, LeaseInv
  <2>. QED
    BY <1>2, <2>2 DEF HashReport, GateGoto, vars
<1>3. ASSUME NEW f \in Files, WalkFile(f) PROVE ReportInv'
  BY <1>3 DEF WalkFile, AfterWalk, vars
<1>4. CASE ScoreReport
  BY <1>4 DEF ScoreReport, GateGoto, RestoredOnce, vars
<1>5. CASE GateEnter \/ GateExit
  BY <1>5 DEF GateEnter, GateExit, GateGoto, vars, ReaderInv
<1>6. CASE ReadReceipt \/ ReadSlot \/ ReadRecord \/ ProbeJob \/ Reject
  BY <1>6 DEF ReadReceipt, ReadSlot, ReadRecord, ProbeJob, Reject, GateGoto, vars
<1>. QED
  BY <1>1, <1>2, <1>3, <1>4, <1>5, <1>6 DEF GateNext, ProducerStep, GateStep

\* A linked run is authentic: its record is there, and the rest of its files.
LEMMA WitnessStep ==
  ASSUME DataOK, RegistryInv, SettledInv, LeaseInv, ~SharedBoundary,
         GateLeased \/ Reapable = {}, HolderInv, ReaderInv, WitnessInv,
         [GateNext]_allVars
  PROVE  WitnessInv'
<1>. USE DEF WitnessInv, SlotRead, RecordRead, JobRead
<1>0. CASE UNCHANGED allVars
  BY <1>0 DEF allVars, gateVars, vars, registry, Authenticated, Authentic, Kept, Linked,
     Stranded, Lost
<1>1. CASE ProducerStep
  <2>0. [Next]_vars /\ UNCHANGED <<gate, seen>>
    BY <1>1 DEF ProducerStep
  <2>1. gate \notin {"idle", "receipt"} /\ seen # NoFile /\ Authenticated(seen)'
          => witnessed'
    BY <1>1 DEF ProducerStep, Witness
  <2>2. gate \notin {"idle", "receipt"} /\ witnessed => witnessed'
    BY <1>1 DEF ProducerStep, Witness
  <2>3. ASSUME gate = "record", ~witnessed
        PROVE  \/ Linked(seen)' 
               \/ ~GateLeased /\ (Stranded(seen)' \/ Lost(seen)')
    <3>1. seen \in Runs /\ ~Authenticated(seen)
      BY <2>3 DEF ReaderInv
    <3>2. CASE GateLeased
      BY <1>1, <2>3, <3>2, ProducerHeld DEF Linked
    <3>3. CASE ~GateLeased
      <4>1. Kept(seen) \/ Stranded(seen) \/ Lost(seen)
        BY <2>3, <3>1 DEF SettledInv, Kept, Linked, Lost
      <4>2. Reapable = {}
        BY <3>3
      <4>3. \A s \in Runs :
              /\ (Kept(s) \/ Stranded(s)) /\ ~Authenticated(s) => Kept(s)' \/ Stranded(s)'
              /\ Lost(s) => Lost(s)'
        BY <2>0, <4>2, StrandStep
      <4>4. Kept(seen)' \/ Stranded(seen)' \/ Lost(seen)'
        BY <2>0, <3>1, <4>1, <4>3 DEF Kept, Linked, Stranded, Lost
      <4>. QED
        BY <3>3, <4>4 DEF Kept
    <3>. QED
      BY <3>2, <3>3
  <2>4. ASSUME gate = "job", ~witnessed
        PROVE  Kept(seen)' \/ (~GateLeased /\ Stranded(seen)')
    <3>1. seen \in Runs /\ ~Authenticated(seen)
      BY <2>4 DEF ReaderInv
    <3>2. CASE GateLeased
      BY <1>1, <2>4, <3>2, ProducerHeld DEF Kept, Linked
    <3>3. CASE ~GateLeased
      <4>1. Kept(seen) \/ Stranded(seen)
        BY <2>4
      <4>2. Reapable = {}
        BY <3>3
      <4>3. \A s \in Runs :
              (Kept(s) \/ Stranded(s)) /\ ~Authenticated(s) => Kept(s)' \/ Stranded(s)'
        BY <2>0, <4>2, StrandStep
      <4>. QED
        BY <2>0, <3>1, <3>3, <4>1, <4>3 DEF Kept, Linked, Stranded
    <3>. QED
      BY <3>2, <3>3
  <2>. QED
    BY <2>0, <2>1, <2>2, <2>3, <2>4
<1>2. CASE GateStep /\ Witness
  <2>1. UNCHANGED <<slot, marked, records, pc, job>>
    BY <1>2, GateKeeps DEF registry
  <2>2. gate' \notin {"idle", "receipt"} /\ seen' # NoFile /\ Authenticated(seen)'
          => witnessed'
    BY <1>2 DEF Witness
  <2>3. ASSUME gate' \in {"record", "job"}, ~witnessed'
        PROVE  /\ gate' = "record" => Linked(seen)'
               /\ gate' = "job" => Kept(seen)' \/ (~GateLeased /\ Stranded(seen)')
    <3>1. CASE ReadSlot
      BY <2>1, <3>1 DEF ReadSlot, GateGoto, Linked
    <3>2. CASE ReadRecord
      <4>1. gate = "record" /\ gate' = "job" /\ seen' = seen /\ seen \in records
        BY <3>2 DEF ReadRecord, GateGoto
      <4>2. ~witnessed
        BY <1>2, <2>3, <4>1 DEF Witness
      <4>3. Kept(seen) \/ (~GateLeased /\ Stranded(seen))
        BY <4>1, <4>2 DEF Kept, Lost
      <4>. QED
        BY <2>1, <4>1, <4>3 DEF Kept, Linked, Stranded
    <3>. QED
      BY <1>2, <2>3, <3>1, <3>2
         DEF GateStep, GateEnter, ReadReceipt, ProbeJob, HashReport, ScoreReport,
             Reject, GateExit, WalkFile, AfterWalk, GateGoto
  <2>4. ASSUME gate' \in JobRead PROVE witnessed'
    <3>1. CASE ProbeJob
      <4>1. seen \in Runs /\ job[seen] = "absent" /\ seen' = seen /\ gate = "job"
        BY <3>1 DEF ProbeJob, GateGoto, ReaderInv
      <4>2. Kept(seen) => Authenticated(seen)
        BY <4>1 DEF Kept, Linked, Authenticated, Authentic
      <4>3. witnessed
        BY <4>1, <4>2 DEF Stranded, ReaderInv
      <4>. QED
        BY <1>2, <2>4, <4>1, <4>3 DEF Witness
    <3>2. CASE GateStep /\ ~ProbeJob
      BY <1>2, <2>4, <3>2
         DEF GateStep, GateEnter, ReadReceipt, ReadSlot, ReadRecord, HashReport,
             ScoreReport, Reject, GateExit, WalkFile, AfterWalk, GateGoto, Witness
    <3>. QED
      BY <1>2, <3>1, <3>2
  <2>. QED
    BY <2>1, <2>2, <2>3, <2>4
<1>. QED
  BY <1>0, <1>1, <1>2 DEF GateNext, ProducerStep

-----------------------------------------------------------------------------
(* The invariant *)

LEMMA GateInvInit == GateInit => GateIInv
<1>. SUFFICES ASSUME GateInit PROVE GateIInv
  OBVIOUS
<1>0. IInv
  BY InvInit DEF GateInit
<1>1. DataOK /\ ExecutionInv /\ RegistryInv
  BY <1>0 DEF IInv, TypeOK, DataOK
<1>2. Exclusive => LeaseInv
  BY <1>0 DEF IInv, Exclusive
<1>3. SettledInv
  BY PublicationConstants DEF GateInit, Init, SettledInv, CertifySteps
<1>4. AgeInv
  BY PublicationConstants DEF GateInit, Init, AgeInv, Snapshots, Versions
<1>5. ReaderInv
  BY <1>1 DEF GateInit, ReaderInv, GateSteps, SlotRead
<1>6. HolderInv
  BY DEF GateInit, Init, HolderInv
<1>7. RegistryHeld /\ WalkInv /\ ReportInv /\ WitnessInv
  BY DEF GateInit, RegistryHeld, WalkInv, ReportInv, WitnessInv, SlotRead,
     RecordRead, JobRead, GateSteps
<1>. QED
  BY <1>1, <1>2, <1>3, <1>4, <1>5, <1>6, <1>7 DEF GateIInv

LEMMA GateInvStep == GateIInv /\ [GateNext]_allVars => GateIInv'
<1>. SUFFICES ASSUME GateIInv, [GateNext]_allVars PROVE GateIInv'
  OBVIOUS
<1>. USE DEF GateIInv, Exclusive
<1>1. DataOK' /\ ExecutionInv' /\ RegistryInv' /\ SettledInv' /\ AgeInv'
  BY ProductionStep
<1>2. ReaderInv' /\ HolderInv'
  BY <1>1, ReaderStep, HolderStep
<1>3. Exclusive => LeaseInv'
  BY LeaseHeldStep
<1>4. Exclusive /\ GateLeased => RegistryHeld' /\ WalkInv'
  BY <1>1, RegistryHeldStep, WalkStep
<1>5. Exclusive /\ GateLeased /\ RestoredOnce => ReportInv'
  BY ReportStep
<1>6. Exclusive /\ (GateLeased \/ Reapable = {}) => WitnessInv'
  BY WitnessStep
<1>. QED
  BY <1>1, <1>2, <1>3, <1>4, <1>5, <1>6 DEF RestoredOnce

\* In every behaviour of producers and gate the parts of the invariant hold, each
\* under the circumstances it names.
THEOREM GateInvariant == GateSpec => []GateIInv
<1>. QED
  BY GateInvInit, GateInvStep, PTL DEF GateSpec

-----------------------------------------------------------------------------
(* Theorems *)

\* Types, and that nothing is accepted halfway through its walk; a checkout has
\* at least one input.
THEOREM GateTypeCorrect ==
  ASSUME Files # {} PROVE GateSpec => []GateTypeOK
<1>1. GateIInv => GateTypeOK
  BY DEF GateIInv, ReaderInv, HolderInv, GateTypeOK, SlotRead
<1>. QED
  BY <1>1, GateInvariant, PTL

\* A gate under the lease accepts the bytes it has scored only if they are those
\* the receipt attests, although the report is opened anew to be scored.
THEOREM ScoredVerified ==
  ASSUME ~SharedBoundary, GateLeased, RestoredOnce
  PROVE  GateSpec => []ScoredReportWasVerified
<1>1. GateIInv => ScoredReportWasVerified
  <2>. SUFFICES ASSUME GateIInv, gate = "accepted" PROVE scored = attests[seen]
    BY DEF ScoredReportWasVerified
  <2>1. seen = slot /\ seen \in records /\ seen \in Runs
    BY DEF GateIInv, Exclusive, RegistryHeld, SlotRead, RecordRead, ReaderInv
  <2>2. scored = slot
    BY DEF GateIInv, Exclusive, ReportInv, ReaderInv
  <2>3. attests[seen] = seen
    BY <2>1 DEF GateIInv, Exclusive, LeaseInv
  <2>. QED
    BY <2>1, <2>2, <2>3
<1>. QED
  BY <1>1, GateInvariant, PTL

\* The report that is accepted came out of a run on inputs each of which was on
\* disk during the gate's walk, and all at one moment of it unless some content
\* came back since the run had begun: neither walk is atomic.
THEOREM AcceptedCurrent ==
  ASSUME ~SharedBoundary, GateLeased, RestoredOnce
  PROVE  GateSpec => []AcceptedCheckoutIsCurrent
<1>1. GateIInv => AcceptedCheckoutIsCurrent
  <2>. SUFFICES ASSUME GateIInv, gate = "accepted"
                PROVE  /\ \A f \in Files : \E c \in walked : ranOn[scored][f] = c[f]
                       /\ scored \notin undone => ranOn[scored] \in walked
    BY DEF AcceptedCheckoutIsCurrent
  <2>1. seen = slot /\ seen \in records /\ seen \in Runs
    BY DEF GateIInv, Exclusive, RegistryHeld, SlotRead, RecordRead, ReaderInv
  <2>2. scored = slot
    BY DEF GateIInv, Exclusive, ReportInv, ReaderInv
  <2>3. ranOn[seen] = before[seen]
    BY <2>1 DEF GateIInv, RegistryInv, ExecutionInv
  <2>4. /\ \A f \in Files : Found(f)
        /\ seen \notin undone => before[seen] \in walked
    BY DEF GateIInv, Exclusive, WalkInv
  <2>. QED
    BY <2>1, <2>2, <2>3, <2>4 DEF Found
<1>. QED
  BY <1>1, GateInvariant, PTL

\* Slot, record and job are read one by one, yet at one moment of the
\* verification the receipt was authenticated and its job gone: without the lease
\* if nobody deletes retained jobs, under the lease even then.
THEOREM AcceptanceLinearizable ==
  ASSUME ~SharedBoundary, GateLeased \/ Reapable = {}
  PROVE  GateSpec => []AcceptanceIsLinearizable
<1>1. GateIInv => AcceptanceIsLinearizable
  BY DEF GateIInv, Exclusive, WitnessInv, AcceptanceIsLinearizable, JobRead,
     RecordRead, SlotRead
<1>. QED
  BY <1>1, GateInvariant, PTL

=============================================================================
