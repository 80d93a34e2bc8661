---------------------- MODULE EvidencePublicationProofs ----------------------
(***************************************************************************)
(* Proofs about EvidencePublication for any number of runs and inputs, any *)
(* number of edits and preliminary stages.                                 *)
(***************************************************************************)
EXTENDS EvidencePublication, TLAPS

\* Steps at which the main stage has not been reached.
Unstaged == {"idle", "refused", "revoke", "remove_receipt", "capture", "create",
             "copy", "check_copy", "check_root", "version"}

Published == PublishSteps \cup ReceiptSteps \cup CertifySteps

\* Steps between the creation of the job directory and its removal.
InWorkspace == (ProduceSteps \ {"revoke", "remove_receipt", "capture", "create"})
               \cup PublishSteps \cup ReceiptSteps \cup (CertifySteps \ {"final"})

\* The types of all that a run works on; the lease may also be the gate's.
DataOK ==
  /\ src \in Snapshots
  /\ pending \in Runs \cup {NoFile}
  /\ report \in Runs \cup {NoFile}
  /\ receipt \in Runs \cup {NoFile}
  /\ slot \in Runs \cup {NoFile}
  /\ marked \subseteq Runs
  /\ records \subseteq Runs
  /\ pc \in [Runs -> {"idle"} \cup Working \cup Ended]
  /\ before \in [Runs -> Snapshots]
  /\ copy \in [Runs -> Snapshots]
  /\ todo \in [Runs -> SUBSET Files]
  /\ prelim \in [Runs -> 0..MaxPreliminary]
  /\ ranOn \in [Runs -> Snapshots \cup {NoFile}]
  /\ attests \in [Runs -> Runs \cup {NoFile}]
  /\ job \in [Runs -> JobStatus]
  /\ cancelled \in [Runs -> BOOLEAN]
  /\ stuck \in [Runs -> SUBSET {"slot", "record"}]

\* Nothing executes except on a copy that equals the recorded inputs.
ExecutionInv == \A p \in Runs :
  /\ ranOn[p] \in {NoFile, before[p]}
  /\ pc[p] \in Unstaged => ranOn[p] = NoFile
  /\ pc[p] \in {"check_root", "version", "stage", "check_checkout"} => copy[p] = before[p]
  /\ pc[p] \in Published => ranOn[p] # NoFile

\* Steps after the attempt to remove the slot.
Undone == {"drop_record", "drop_receipt", "drop_workspace", "failed"}

\* Where a run is when the registry still holds something of it.
RegistryInv == \A p \in Runs :
  /\ p \in records => /\ pc[p] \in CertifySteps \cup DropSteps \cup
                                   {"done", "failed", "crashed"}
                      /\ pc[p] \in Undone \ {"drop_record"} => "record" \in stuck[p]
                      /\ ranOn[p] # NoFile
  /\ slot = p => /\ pc[p] \in (CertifySteps \ {"slot"}) \cup DropSteps \cup
                              {"done", "failed", "crashed"}
                 /\ pc[p] \in Undone => "slot" \in stuck[p]
  /\ pc[p] \in InWorkspace => job[p] # "absent"

\* What the workload lease adds: a working run is alone with the destination.
LeaseInv == \A p \in Runs :
  /\ pc[p] \in Working => lease = p
  /\ pc[p] \in {"validate", "attest", "precheck", "rename"} => pending = p
  /\ pc[p] \in {"precheck", "rename"} \cup ReceiptSteps \cup CertifySteps =>
       attests[p] = p
  /\ p \in records => attests[p] = p
  /\ pc[p] \in Working \ {"revoke"} => slot \in {NoFile, p}
  /\ pc[p] \in {"close", "remove", "final"} => Authentic(p)
  /\ pc[p] = "final" => job[p] = "absent"

IInv == TypeOK /\ ExecutionInv /\ RegistryInv /\ (~SharedBoundary => LeaseInv)

-----------------------------------------------------------------------------
(* Every step preserves each part *)

\* A stage that is left to execute can be counted down.
LEMMA Countdown ==
  ASSUME NEW n \in 0..MaxPreliminary, n # 0
  PROVE  n - 1 \in 0..MaxPreliminary
  BY PublicationConstants

\* A removal that fails is noted in its run's set.
LEMMA FailureNoted ==
  ASSUME NEW r \in Runs, NEW S, NEW x \in S, NEW noted \in [Runs -> SUBSET S]
  PROVE  [noted EXCEPT ![r] = @ \cup {x}] \in [Runs -> SUBSET S]
<1>1. noted[r] \cup {x} \in SUBSET S
  OBVIOUS
<1>. QED
  BY <1>1

\* The variables keep their types.
LEMMA DataStep ==
  DataOK /\ [Next]_vars => DataOK'
<1>. SUFFICES ASSUME DataOK, [Next]_vars
             PROVE  DataOK'
  OBVIOUS
<1>. USE PublicationConstants DEF DataOK, Versions, Snapshots, JobStatus,
             Fallible, Working, Ended, ProduceSteps, PublishSteps,
             ReceiptSteps, CertifySteps, DropSteps, checkout, files, registry,
             private
<1>1. ASSUME NEW p \in Runs, Enter(p) PROVE DataOK'
  BY <1>1 DEF Enter, Goto
<1>2. ASSUME NEW p \in Runs, Refuse(p) PROVE DataOK'
  BY <1>2 DEF Refuse, Goto
<1>3. ASSUME NEW p \in Runs, Revoke(p) PROVE DataOK'
  BY <1>3 DEF Revoke, Goto
<1>4. ASSUME NEW p \in Runs, RemoveReceipt(p) PROVE DataOK'
  BY <1>4 DEF RemoveReceipt, Goto
<1>5. ASSUME NEW p \in Runs, NEW f \in Files, CaptureFile(p, f) PROVE DataOK'
  BY <1>5 DEF CaptureFile
<1>6. ASSUME NEW p \in Runs, CreateWorkspace(p) PROVE DataOK'
  BY <1>6 DEF CreateWorkspace, Goto
<1>7. ASSUME NEW p \in Runs, NEW f \in Files, CopyFile(p, f) PROVE DataOK'
  BY <1>7 DEF CopyFile
<1>8. ASSUME NEW p \in Runs, CheckCopy(p) PROVE DataOK'
  BY <1>8 DEF CheckCopy, Goto
<1>9. ASSUME NEW p \in Runs, NEW f \in Files, CheckRoot(p, f) PROVE DataOK'
  BY <1>9 DEF CheckRoot, Rewalk
<1>43. ASSUME NEW p \in Runs, QueryVersion(p) PROVE DataOK'
  BY <1>43 DEF QueryVersion, Goto
<1>10. ASSUME NEW p \in Runs, RunStage(p) PROVE DataOK'
  <2>1. copy' \in [Runs -> Snapshots]
    BY <1>10 DEF RunStage
  <2>2. ranOn' \in [Runs -> Snapshots \cup {NoFile}]
    <3>1. ranOn' = ranOn \/ ranOn' = [ranOn EXCEPT ![p] = copy[p]]
      BY <1>10 DEF RunStage
    <3>2. copy[p] \in Snapshots
      OBVIOUS
    <3>. QED
      BY <3>1, <3>2
  <2>3. prelim' \in [Runs -> 0..MaxPreliminary]
    <3>1. CASE prelim[p] = 0
      BY <1>10, <3>1 DEF RunStage
    <3>2. CASE prelim[p] # 0
      <4>1. prelim[p] - 1 \in 0..MaxPreliminary
        <5>1. prelim[p] \in 0..MaxPreliminary
          OBVIOUS
        <5>. QED
          BY <3>2, <5>1, Countdown
      <4>2. prelim' = [prelim EXCEPT ![p] = prelim[p] - 1]
        BY <1>10, <3>2 DEF RunStage
      <4>. QED
        BY <4>1, <4>2
    <3>. QED
      BY <3>1, <3>2
  <2>4. pc' \in [Runs -> {"idle"} \cup Working \cup Ended]
    BY <1>10 DEF RunStage, Goto
  <2>5. UNCHANGED <<checkout, files, registry, lease, before, todo, attests, job,
                    cancelled, stuck>>
    BY <1>10 DEF RunStage
  <2>. QED
    BY <2>1, <2>2, <2>3, <2>4, <2>5
<1>11. ASSUME NEW p \in Runs, CheckRestoration(p) PROVE DataOK'
  BY <1>11 DEF CheckRestoration, Goto
<1>12. ASSUME NEW p \in Runs, NEW f \in Files, CheckCheckout(p, f)
      PROVE DataOK'
  BY <1>12 DEF CheckCheckout, Rewalk
<1>13. ASSUME NEW p \in Runs, BeginPublication(p) PROVE DataOK'
  BY <1>13 DEF BeginPublication, Goto
<1>14. ASSUME NEW p \in Runs, WritePending(p) PROVE DataOK'
  BY <1>14 DEF WritePending, Goto
<1>15. ASSUME NEW p \in Runs, Validate(p) PROVE DataOK'
  BY <1>15 DEF Validate, Goto
<1>16. ASSUME NEW p \in Runs, Invalid(p) PROVE DataOK'
  BY <1>16 DEF Invalid, Goto
<1>17. ASSUME NEW p \in Runs, AttestReport(p) PROVE DataOK'
  BY <1>17 DEF AttestReport, Goto
<1>18. ASSUME NEW p \in Runs, NEW f \in Files, CheckBeforePublication(p, f)
      PROVE DataOK'
  BY <1>18 DEF CheckBeforePublication, Rewalk
<1>19. ASSUME NEW p \in Runs, RenameReport(p) PROVE DataOK'
  BY <1>19 DEF RenameReport, Goto
<1>20. ASSUME NEW p \in Runs, WriteReceipt(p) PROVE DataOK'
  BY <1>20 DEF WriteReceipt, Goto
<1>21. ASSUME NEW p \in Runs, CheckReport(p) PROVE DataOK'
  BY <1>21 DEF CheckReport, Goto
<1>22. ASSUME NEW p \in Runs, CheckReceipt(p) PROVE DataOK'
  BY <1>22 DEF CheckReceipt, Goto
<1>23. ASSUME NEW p \in Runs, NEW f \in Files, CheckAfterPublication(p, f)
      PROVE DataOK'
  BY <1>23 DEF CheckAfterPublication, Rewalk
<1>24. ASSUME NEW p \in Runs, CreateRecord(p) PROVE DataOK'
  BY <1>24 DEF CreateRecord, Goto
<1>25. ASSUME NEW p \in Runs, CreateSlot(p) PROVE DataOK'
  BY <1>25 DEF CreateSlot, Goto
<1>26. ASSUME NEW p \in Runs, MarkSlot(p) PROVE DataOK'
  BY <1>26 DEF MarkSlot, Goto
<1>27. ASSUME NEW p \in Runs, Authenticate(p) PROVE DataOK'
  BY <1>27 DEF Authenticate, Goto, Authentic
<1>28. ASSUME NEW p \in Runs, CloseWorkspace(p) PROVE DataOK'
  BY <1>28 DEF CloseWorkspace, Goto
<1>29. ASSUME NEW p \in Runs, RemoveWorkspace(p) PROVE DataOK'
  BY <1>29 DEF RemoveWorkspace, Goto
<1>30. ASSUME NEW p \in Runs, CleanupFails(p) PROVE DataOK'
  BY <1>30 DEF CleanupFails, Goto
<1>31. ASSUME NEW p \in Runs, Commit(p) PROVE DataOK'
  BY <1>31 DEF Commit, Goto, Release
<1>32. ASSUME NEW p \in Runs, Abort(p) PROVE DataOK'
  BY <1>32 DEF Abort, Retained, FailedStatus, Unwind, Release
<1>33. ASSUME NEW p \in Runs, DropSlot(p) PROVE DataOK'
  <2>1. slot' \in Runs \cup {NoFile}
    BY <1>33 DEF DropSlot
  <2>2. stuck' \in [Runs -> SUBSET {"slot", "record"}]
    <3>1. stuck \in [Runs -> SUBSET {"slot", "record"}] /\ "slot" \in {"slot", "record"}
      OBVIOUS
    <3>2. [stuck EXCEPT ![p] = @ \cup {"slot"}] \in [Runs -> SUBSET {"slot", "record"}]
      BY ONLY <3>1, FailureNoted
    <3>3. stuck' = stuck \/ stuck' = [stuck EXCEPT ![p] = @ \cup {"slot"}]
      BY <1>33 DEF DropSlot
    <3>. QED
      BY ONLY <3>1, <3>2, <3>3
  <2>3. pc' \in [Runs -> {"idle"} \cup Working \cup Ended]
    BY <1>33 DEF DropSlot, Goto
  <2>4. UNCHANGED <<checkout, files, marked, records, private, job, cancelled>>
    BY <1>33 DEF DropSlot
  <2>. QED
    BY <2>1, <2>2, <2>3, <2>4
<1>34. ASSUME NEW p \in Runs, DropRecord(p) PROVE DataOK'
  BY <1>34 DEF DropRecord, Goto
<1>35. ASSUME NEW p \in Runs, DropReceipt(p) PROVE DataOK'
  BY <1>35 DEF DropReceipt, Goto
<1>36. ASSUME NEW p \in Runs, DropWorkspace(p) PROVE DataOK'
  BY <1>36 DEF DropWorkspace, Goto, Retained, FailedStatus, Release
<1>37. ASSUME NEW p \in Runs, Crash(p) PROVE DataOK'
  BY <1>37 DEF Crash, Release
<1>38. ASSUME NEW p \in Runs, Signal(p) PROVE DataOK'
  BY <1>38 DEF Signal
<1>39. ASSUME NEW p \in Runs, Restore(p) PROVE DataOK'
  BY <1>39 DEF Restore
<1>40. ASSUME NEW p \in Runs, Reap(p) PROVE DataOK'
  BY <1>40 DEF Reap
<1>41. ASSUME NEW f \in Files, Edit(f) PROVE DataOK'
  BY <1>41 DEF Edit
<1>42. CASE UNCHANGED vars
  BY <1>42 DEF vars
<1>. QED
  BY <1>1, <1>2, <1>3, <1>4, <1>5, <1>6, <1>7, <1>8, <1>9, <1>10, <1>11,
     <1>12, <1>13, <1>14, <1>15, <1>16, <1>17, <1>18, <1>19, <1>20, <1>21,
     <1>22, <1>23, <1>24, <1>25, <1>26, <1>27, <1>28, <1>29, <1>30, <1>31,
     <1>32, <1>33, <1>34, <1>35, <1>36, <1>37, <1>38, <1>39, <1>40, <1>41,
     <1>42, <1>43  DEF Next, Environment, Step, Produce, Publish, Certify, Fail

\* Copying, staging and the comparisons around them keep the execution bound.
LEMMA ExecutionStep ==
  DataOK /\ ExecutionInv /\ [Next]_vars => ExecutionInv'
<1>. SUFFICES ASSUME DataOK, ExecutionInv, [Next]_vars
             PROVE  ExecutionInv'
  OBVIOUS
<1>. USE PublicationConstants DEF DataOK, ExecutionInv, Unstaged, Published,
             Fallible, Working, Ended, ProduceSteps, PublishSteps,
             ReceiptSteps, CertifySteps, DropSteps, checkout, files, registry,
             private
<1>1. ASSUME NEW p \in Runs, Enter(p) PROVE ExecutionInv'
  BY <1>1 DEF Enter, Goto
<1>2. ASSUME NEW p \in Runs, Refuse(p) PROVE ExecutionInv'
  BY <1>2 DEF Refuse, Goto
<1>3. ASSUME NEW p \in Runs, Revoke(p) PROVE ExecutionInv'
  BY <1>3 DEF Revoke, Goto
<1>4. ASSUME NEW p \in Runs, RemoveReceipt(p) PROVE ExecutionInv'
  BY <1>4 DEF RemoveReceipt, Goto
<1>5. ASSUME NEW p \in Runs, NEW f \in Files, CaptureFile(p, f)
      PROVE ExecutionInv'
  BY <1>5 DEF CaptureFile
<1>6. ASSUME NEW p \in Runs, CreateWorkspace(p) PROVE ExecutionInv'
  BY <1>6 DEF CreateWorkspace, Goto
<1>7. ASSUME NEW p \in Runs, NEW f \in Files, CopyFile(p, f)
      PROVE ExecutionInv'
  BY <1>7 DEF CopyFile
<1>8. ASSUME NEW p \in Runs, CheckCopy(p) PROVE ExecutionInv'
  BY <1>8 DEF CheckCopy, Goto
<1>9. ASSUME NEW p \in Runs, NEW f \in Files, CheckRoot(p, f)
      PROVE ExecutionInv'
  BY <1>9 DEF CheckRoot, Rewalk
<1>43. ASSUME NEW p \in Runs, QueryVersion(p) PROVE ExecutionInv'
  BY <1>43 DEF QueryVersion, Goto
<1>10. ASSUME NEW p \in Runs, RunStage(p) PROVE ExecutionInv'
  BY <1>10 DEF RunStage, Goto
<1>11. ASSUME NEW p \in Runs, CheckRestoration(p) PROVE ExecutionInv'
  BY <1>11 DEF CheckRestoration, Goto
<1>12. ASSUME NEW p \in Runs, NEW f \in Files, CheckCheckout(p, f)
      PROVE ExecutionInv'
  BY <1>12 DEF CheckCheckout, Rewalk
<1>13. ASSUME NEW p \in Runs, BeginPublication(p) PROVE ExecutionInv'
  BY <1>13 DEF BeginPublication, Goto
<1>14. ASSUME NEW p \in Runs, WritePending(p) PROVE ExecutionInv'
  BY <1>14 DEF WritePending, Goto
<1>15. ASSUME NEW p \in Runs, Validate(p) PROVE ExecutionInv'
  BY <1>15 DEF Validate, Goto
<1>16. ASSUME NEW p \in Runs, Invalid(p) PROVE ExecutionInv'
  BY <1>16 DEF Invalid, Goto
<1>17. ASSUME NEW p \in Runs, AttestReport(p) PROVE ExecutionInv'
  BY <1>17 DEF AttestReport, Goto
<1>18. ASSUME NEW p \in Runs, NEW f \in Files, CheckBeforePublication(p, f)
      PROVE ExecutionInv'
  BY <1>18 DEF CheckBeforePublication, Rewalk
<1>19. ASSUME NEW p \in Runs, RenameReport(p) PROVE ExecutionInv'
  BY <1>19 DEF RenameReport, Goto
<1>20. ASSUME NEW p \in Runs, WriteReceipt(p) PROVE ExecutionInv'
  BY <1>20 DEF WriteReceipt, Goto
<1>21. ASSUME NEW p \in Runs, CheckReport(p) PROVE ExecutionInv'
  BY <1>21 DEF CheckReport, Goto
<1>22. ASSUME NEW p \in Runs, CheckReceipt(p) PROVE ExecutionInv'
  BY <1>22 DEF CheckReceipt, Goto
<1>23. ASSUME NEW p \in Runs, NEW f \in Files, CheckAfterPublication(p, f)
      PROVE ExecutionInv'
  BY <1>23 DEF CheckAfterPublication, Rewalk
<1>24. ASSUME NEW p \in Runs, CreateRecord(p) PROVE ExecutionInv'
  BY <1>24 DEF CreateRecord, Goto
<1>25. ASSUME NEW p \in Runs, CreateSlot(p) PROVE ExecutionInv'
  BY <1>25 DEF CreateSlot, Goto
<1>26. ASSUME NEW p \in Runs, MarkSlot(p) PROVE ExecutionInv'
  BY <1>26 DEF MarkSlot, Goto
<1>27. ASSUME NEW p \in Runs, Authenticate(p) PROVE ExecutionInv'
  BY <1>27 DEF Authenticate, Goto, Authentic
<1>28. ASSUME NEW p \in Runs, CloseWorkspace(p) PROVE ExecutionInv'
  BY <1>28 DEF CloseWorkspace, Goto
<1>29. ASSUME NEW p \in Runs, RemoveWorkspace(p) PROVE ExecutionInv'
  BY <1>29 DEF RemoveWorkspace, Goto
<1>30. ASSUME NEW p \in Runs, CleanupFails(p) PROVE ExecutionInv'
  BY <1>30 DEF CleanupFails, Goto
<1>31. ASSUME NEW p \in Runs, Commit(p) PROVE ExecutionInv'
  BY <1>31 DEF Commit, Goto, Release
<1>32. ASSUME NEW p \in Runs, Abort(p) PROVE ExecutionInv'
  BY <1>32 DEF Abort, Retained, FailedStatus, Unwind, Release
<1>33. ASSUME NEW p \in Runs, DropSlot(p) PROVE ExecutionInv'
  BY <1>33 DEF DropSlot, Goto
<1>34. ASSUME NEW p \in Runs, DropRecord(p) PROVE ExecutionInv'
  BY <1>34 DEF DropRecord, Goto
<1>35. ASSUME NEW p \in Runs, DropReceipt(p) PROVE ExecutionInv'
  BY <1>35 DEF DropReceipt, Goto
<1>36. ASSUME NEW p \in Runs, DropWorkspace(p) PROVE ExecutionInv'
  BY <1>36 DEF DropWorkspace, Goto, Retained, FailedStatus, Release
<1>37. ASSUME NEW p \in Runs, Crash(p) PROVE ExecutionInv'
  BY <1>37 DEF Crash, Release
<1>38. ASSUME NEW p \in Runs, Signal(p) PROVE ExecutionInv'
  BY <1>38 DEF Signal
<1>39. ASSUME NEW p \in Runs, Restore(p) PROVE ExecutionInv'
  BY <1>39 DEF Restore
<1>40. ASSUME NEW p \in Runs, Reap(p) PROVE ExecutionInv'
  BY <1>40 DEF Reap
<1>41. ASSUME NEW f \in Files, Edit(f) PROVE ExecutionInv'
  BY <1>41 DEF Edit
<1>42. CASE UNCHANGED vars
  BY <1>42 DEF vars
<1>. QED
  BY <1>1, <1>2, <1>3, <1>4, <1>5, <1>6, <1>7, <1>8, <1>9, <1>10, <1>11,
     <1>12, <1>13, <1>14, <1>15, <1>16, <1>17, <1>18, <1>19, <1>20, <1>21,
     <1>22, <1>23, <1>24, <1>25, <1>26, <1>27, <1>28, <1>29, <1>30, <1>31,
     <1>32, <1>33, <1>34, <1>35, <1>36, <1>37, <1>38, <1>39, <1>40, <1>41,
     <1>42, <1>43  DEF Next, Environment, Step, Produce, Publish, Certify, Fail

\* Records and slots come and go with the steps of the run that owns them.
LEMMA RegistryStep ==
  DataOK /\ ExecutionInv /\ RegistryInv /\ [Next]_vars => RegistryInv'
<1>. SUFFICES ASSUME DataOK, ExecutionInv, RegistryInv, [Next]_vars
             PROVE  RegistryInv'
  OBVIOUS
<1>. USE PublicationConstants DEF DataOK, ExecutionInv, RegistryInv,
             InWorkspace, Published, Unstaged, Fallible, Working, Ended,
             ProduceSteps, PublishSteps, ReceiptSteps, CertifySteps,
             DropSteps, Undone, checkout, files, registry, private
<1>1. ASSUME NEW p \in Runs, Enter(p) PROVE RegistryInv'
  BY <1>1 DEF Enter, Goto
<1>2. ASSUME NEW p \in Runs, Refuse(p) PROVE RegistryInv'
  BY <1>2 DEF Refuse, Goto
<1>3. ASSUME NEW p \in Runs, Revoke(p) PROVE RegistryInv'
  BY <1>3 DEF Revoke, Goto
<1>4. ASSUME NEW p \in Runs, RemoveReceipt(p) PROVE RegistryInv'
  BY <1>4 DEF RemoveReceipt, Goto
<1>5. ASSUME NEW p \in Runs, NEW f \in Files, CaptureFile(p, f)
      PROVE RegistryInv'
  BY <1>5 DEF CaptureFile
<1>6. ASSUME NEW p \in Runs, CreateWorkspace(p) PROVE RegistryInv'
  BY <1>6 DEF CreateWorkspace, Goto
<1>7. ASSUME NEW p \in Runs, NEW f \in Files, CopyFile(p, f)
      PROVE RegistryInv'
  BY <1>7 DEF CopyFile
<1>8. ASSUME NEW p \in Runs, CheckCopy(p) PROVE RegistryInv'
  BY <1>8 DEF CheckCopy, Goto
<1>9. ASSUME NEW p \in Runs, NEW f \in Files, CheckRoot(p, f)
      PROVE RegistryInv'
  BY <1>9 DEF CheckRoot, Rewalk
<1>43. ASSUME NEW p \in Runs, QueryVersion(p) PROVE RegistryInv'
  BY <1>43 DEF QueryVersion, Goto
<1>10. ASSUME NEW p \in Runs, RunStage(p) PROVE RegistryInv'
  BY <1>10 DEF RunStage, Goto
<1>11. ASSUME NEW p \in Runs, CheckRestoration(p) PROVE RegistryInv'
  BY <1>11 DEF CheckRestoration, Goto
<1>12. ASSUME NEW p \in Runs, NEW f \in Files, CheckCheckout(p, f)
      PROVE RegistryInv'
  BY <1>12 DEF CheckCheckout, Rewalk
<1>13. ASSUME NEW p \in Runs, BeginPublication(p) PROVE RegistryInv'
  BY <1>13 DEF BeginPublication, Goto
<1>14. ASSUME NEW p \in Runs, WritePending(p) PROVE RegistryInv'
  BY <1>14 DEF WritePending, Goto
<1>15. ASSUME NEW p \in Runs, Validate(p) PROVE RegistryInv'
  BY <1>15 DEF Validate, Goto
<1>16. ASSUME NEW p \in Runs, Invalid(p) PROVE RegistryInv'
  BY <1>16 DEF Invalid, Goto
<1>17. ASSUME NEW p \in Runs, AttestReport(p) PROVE RegistryInv'
  BY <1>17 DEF AttestReport, Goto
<1>18. ASSUME NEW p \in Runs, NEW f \in Files, CheckBeforePublication(p, f)
      PROVE RegistryInv'
  BY <1>18 DEF CheckBeforePublication, Rewalk
<1>19. ASSUME NEW p \in Runs, RenameReport(p) PROVE RegistryInv'
  BY <1>19 DEF RenameReport, Goto
<1>20. ASSUME NEW p \in Runs, WriteReceipt(p) PROVE RegistryInv'
  BY <1>20 DEF WriteReceipt, Goto
<1>21. ASSUME NEW p \in Runs, CheckReport(p) PROVE RegistryInv'
  BY <1>21 DEF CheckReport, Goto
<1>22. ASSUME NEW p \in Runs, CheckReceipt(p) PROVE RegistryInv'
  BY <1>22 DEF CheckReceipt, Goto
<1>23. ASSUME NEW p \in Runs, NEW f \in Files, CheckAfterPublication(p, f)
      PROVE RegistryInv'
  BY <1>23 DEF CheckAfterPublication, Rewalk
<1>24. ASSUME NEW p \in Runs, CreateRecord(p) PROVE RegistryInv'
  BY <1>24 DEF CreateRecord, Goto
<1>25. ASSUME NEW p \in Runs, CreateSlot(p) PROVE RegistryInv'
  BY <1>25 DEF CreateSlot, Goto
<1>26. ASSUME NEW p \in Runs, MarkSlot(p) PROVE RegistryInv'
  BY <1>26 DEF MarkSlot, Goto
<1>27. ASSUME NEW p \in Runs, Authenticate(p) PROVE RegistryInv'
  BY <1>27 DEF Authenticate, Goto, Authentic
<1>28. ASSUME NEW p \in Runs, CloseWorkspace(p) PROVE RegistryInv'
  BY <1>28 DEF CloseWorkspace, Goto
<1>29. ASSUME NEW p \in Runs, RemoveWorkspace(p) PROVE RegistryInv'
  BY <1>29 DEF RemoveWorkspace, Goto
<1>30. ASSUME NEW p \in Runs, CleanupFails(p) PROVE RegistryInv'
  BY <1>30 DEF CleanupFails, Goto
<1>31. ASSUME NEW p \in Runs, Commit(p) PROVE RegistryInv'
  BY <1>31 DEF Commit, Goto, Release
<1>32. ASSUME NEW p \in Runs, Abort(p) PROVE RegistryInv'
  BY <1>32 DEF Abort, Retained, FailedStatus, Unwind, Release
<1>33. ASSUME NEW p \in Runs, DropSlot(p) PROVE RegistryInv'
  BY <1>33 DEF DropSlot, Goto
<1>34. ASSUME NEW p \in Runs, DropRecord(p) PROVE RegistryInv'
  BY <1>34 DEF DropRecord, Goto
<1>35. ASSUME NEW p \in Runs, DropReceipt(p) PROVE RegistryInv'
  BY <1>35 DEF DropReceipt, Goto
<1>36. ASSUME NEW p \in Runs, DropWorkspace(p) PROVE RegistryInv'
  BY <1>36 DEF DropWorkspace, Goto, Retained, FailedStatus, Release
<1>37. ASSUME NEW p \in Runs, Crash(p) PROVE RegistryInv'
  BY <1>37 DEF Crash, Release
<1>38. ASSUME NEW p \in Runs, Signal(p) PROVE RegistryInv'
  BY <1>38 DEF Signal
<1>39. ASSUME NEW p \in Runs, Restore(p) PROVE RegistryInv'
  BY <1>39 DEF Restore
<1>40. ASSUME NEW p \in Runs, Reap(p) PROVE RegistryInv'
  BY <1>40 DEF Reap
<1>41. ASSUME NEW f \in Files, Edit(f) PROVE RegistryInv'
  BY <1>41 DEF Edit
<1>42. CASE UNCHANGED vars
  BY <1>42 DEF vars
<1>. QED
  BY <1>1, <1>2, <1>3, <1>4, <1>5, <1>6, <1>7, <1>8, <1>9, <1>10, <1>11,
     <1>12, <1>13, <1>14, <1>15, <1>16, <1>17, <1>18, <1>19, <1>20, <1>21,
     <1>22, <1>23, <1>24, <1>25, <1>26, <1>27, <1>28, <1>29, <1>30, <1>31,
     <1>32, <1>33, <1>34, <1>35, <1>36, <1>37, <1>38, <1>39, <1>40, <1>41,
     <1>42, <1>43  DEF Next, Environment, Step, Produce, Publish, Certify, Fail

\* Under the lease no other run touches the destination or the registry.
LEMMA LeaseStep ==
  DataOK /\ ~SharedBoundary /\ RegistryInv /\ LeaseInv /\ [Next]_vars => LeaseInv'
<1>. SUFFICES ASSUME DataOK, ~SharedBoundary, RegistryInv, LeaseInv, [Next]_vars
             PROVE  LeaseInv'
  OBVIOUS
<1>. USE PublicationConstants DEF DataOK, RegistryInv, LeaseInv, Authentic,
             InWorkspace, Fallible, Working, Ended, ProduceSteps,
             PublishSteps, ReceiptSteps, CertifySteps, DropSteps, checkout,
             files, registry, private
<1>1. ASSUME NEW p \in Runs, Enter(p) PROVE LeaseInv'
  BY <1>1 DEF Enter, Goto
<1>2. ASSUME NEW p \in Runs, Refuse(p) PROVE LeaseInv'
  BY <1>2 DEF Refuse, Goto
<1>3. ASSUME NEW p \in Runs, Revoke(p) PROVE LeaseInv'
  BY <1>3 DEF Revoke, Goto
<1>4. ASSUME NEW p \in Runs, RemoveReceipt(p) PROVE LeaseInv'
  BY <1>4 DEF RemoveReceipt, Goto
<1>5. ASSUME NEW p \in Runs, NEW f \in Files, CaptureFile(p, f)
      PROVE LeaseInv'
  BY <1>5 DEF CaptureFile
<1>6. ASSUME NEW p \in Runs, CreateWorkspace(p) PROVE LeaseInv'
  BY <1>6 DEF CreateWorkspace, Goto
<1>7. ASSUME NEW p \in Runs, NEW f \in Files, CopyFile(p, f) PROVE LeaseInv'
  BY <1>7 DEF CopyFile
<1>8. ASSUME NEW p \in Runs, CheckCopy(p) PROVE LeaseInv'
  BY <1>8 DEF CheckCopy, Goto
<1>9. ASSUME NEW p \in Runs, NEW f \in Files, CheckRoot(p, f) PROVE LeaseInv'
  BY <1>9 DEF CheckRoot, Rewalk
<1>43. ASSUME NEW p \in Runs, QueryVersion(p) PROVE LeaseInv'
  BY <1>43 DEF QueryVersion, Goto
<1>10. ASSUME NEW p \in Runs, RunStage(p) PROVE LeaseInv'
  BY <1>10 DEF RunStage, Goto
<1>11. ASSUME NEW p \in Runs, CheckRestoration(p) PROVE LeaseInv'
  BY <1>11 DEF CheckRestoration, Goto
<1>12. ASSUME NEW p \in Runs, NEW f \in Files, CheckCheckout(p, f)
      PROVE LeaseInv'
  BY <1>12 DEF CheckCheckout, Rewalk
<1>13. ASSUME NEW p \in Runs, BeginPublication(p) PROVE LeaseInv'
  BY <1>13 DEF BeginPublication, Goto
<1>14. ASSUME NEW p \in Runs, WritePending(p) PROVE LeaseInv'
  BY <1>14 DEF WritePending, Goto
<1>15. ASSUME NEW p \in Runs, Validate(p) PROVE LeaseInv'
  BY <1>15 DEF Validate, Goto
<1>16. ASSUME NEW p \in Runs, Invalid(p) PROVE LeaseInv'
  BY <1>16 DEF Invalid, Goto
<1>17. ASSUME NEW p \in Runs, AttestReport(p) PROVE LeaseInv'
  BY <1>17 DEF AttestReport, Goto
<1>18. ASSUME NEW p \in Runs, NEW f \in Files, CheckBeforePublication(p, f)
      PROVE LeaseInv'
  BY <1>18 DEF CheckBeforePublication, Rewalk
<1>19. ASSUME NEW p \in Runs, RenameReport(p) PROVE LeaseInv'
  BY <1>19 DEF RenameReport, Goto
<1>20. ASSUME NEW p \in Runs, WriteReceipt(p) PROVE LeaseInv'
  BY <1>20 DEF WriteReceipt, Goto
<1>21. ASSUME NEW p \in Runs, CheckReport(p) PROVE LeaseInv'
  BY <1>21 DEF CheckReport, Goto
<1>22. ASSUME NEW p \in Runs, CheckReceipt(p) PROVE LeaseInv'
  BY <1>22 DEF CheckReceipt, Goto
<1>23. ASSUME NEW p \in Runs, NEW f \in Files, CheckAfterPublication(p, f)
      PROVE LeaseInv'
  BY <1>23 DEF CheckAfterPublication, Rewalk
<1>24. ASSUME NEW p \in Runs, CreateRecord(p) PROVE LeaseInv'
  BY <1>24 DEF CreateRecord, Goto
<1>25. ASSUME NEW p \in Runs, CreateSlot(p) PROVE LeaseInv'
  BY <1>25 DEF CreateSlot, Goto
<1>26. ASSUME NEW p \in Runs, MarkSlot(p) PROVE LeaseInv'
  BY <1>26 DEF MarkSlot, Goto
<1>27. ASSUME NEW p \in Runs, Authenticate(p) PROVE LeaseInv'
  BY <1>27 DEF Authenticate, Goto, Authentic
<1>28. ASSUME NEW p \in Runs, CloseWorkspace(p) PROVE LeaseInv'
  BY <1>28 DEF CloseWorkspace, Goto
<1>29. ASSUME NEW p \in Runs, RemoveWorkspace(p) PROVE LeaseInv'
  BY <1>29 DEF RemoveWorkspace, Goto
<1>30. ASSUME NEW p \in Runs, CleanupFails(p) PROVE LeaseInv'
  BY <1>30 DEF CleanupFails, Goto
<1>31. ASSUME NEW p \in Runs, Commit(p) PROVE LeaseInv'
  BY <1>31 DEF Commit, Goto, Release
<1>32. ASSUME NEW p \in Runs, Abort(p) PROVE LeaseInv'
  BY <1>32 DEF Abort, Retained, FailedStatus, Unwind, Release
<1>33. ASSUME NEW p \in Runs, DropSlot(p) PROVE LeaseInv'
  BY <1>33 DEF DropSlot, Goto
<1>34. ASSUME NEW p \in Runs, DropRecord(p) PROVE LeaseInv'
  BY <1>34 DEF DropRecord, Goto
<1>35. ASSUME NEW p \in Runs, DropReceipt(p) PROVE LeaseInv'
  BY <1>35 DEF DropReceipt, Goto
<1>36. ASSUME NEW p \in Runs, DropWorkspace(p) PROVE LeaseInv'
  BY <1>36 DEF DropWorkspace, Goto, Retained, FailedStatus, Release
<1>37. ASSUME NEW p \in Runs, Crash(p) PROVE LeaseInv'
  BY <1>37 DEF Crash, Release
<1>38. ASSUME NEW p \in Runs, Signal(p) PROVE LeaseInv'
  BY <1>38 DEF Signal
<1>39. ASSUME NEW p \in Runs, Restore(p) PROVE LeaseInv'
  BY <1>39 DEF Restore
<1>40. ASSUME NEW p \in Runs, Reap(p) PROVE LeaseInv'
  BY <1>40 DEF Reap
<1>41. ASSUME NEW f \in Files, Edit(f) PROVE LeaseInv'
  BY <1>41 DEF Edit
<1>42. CASE UNCHANGED vars
  BY <1>42 DEF vars
<1>. QED
  BY <1>1, <1>2, <1>3, <1>4, <1>5, <1>6, <1>7, <1>8, <1>9, <1>10, <1>11,
     <1>12, <1>13, <1>14, <1>15, <1>16, <1>17, <1>18, <1>19, <1>20, <1>21,
     <1>22, <1>23, <1>24, <1>25, <1>26, <1>27, <1>28, <1>29, <1>30, <1>31,
     <1>32, <1>33, <1>34, <1>35, <1>36, <1>37, <1>38, <1>39, <1>40, <1>41,
     <1>42, <1>43  DEF Next, Environment, Step, Produce, Publish, Certify, Fail

\* The lease is taken when it is free and released by its holder.
LEMMA LeaseMoves ==
  [Next]_vars => \/ lease' = lease
                 \/ lease = NoFile /\ lease' \in Runs
                 \/ lease \in Runs /\ lease' = NoFile
<1>. SUFFICES ASSUME [Next]_vars
             PROVE  \/ lease' = lease
                    \/ lease = NoFile /\ lease' \in Runs
                    \/ lease \in Runs /\ lease' = NoFile
  OBVIOUS
<1>1. ASSUME NEW p \in Runs, Produce(p) PROVE lease' = lease
  BY <1>1 DEF Produce, Revoke, RemoveReceipt, CreateWorkspace, CheckCopy,
     QueryVersion, RunStage, CheckRestoration, CaptureFile, CopyFile,
     CheckRoot, CheckCheckout
<1>2. ASSUME NEW p \in Runs, Publish(p) PROVE lease' = lease
  BY <1>2 DEF Publish, BeginPublication, WritePending, Validate, Invalid,
     AttestReport, RenameReport, WriteReceipt, CheckReport, CheckReceipt,
     CheckBeforePublication, CheckAfterPublication
<1>3. ASSUME NEW p \in Runs, Certify(p), lease' # lease
      PROVE  lease \in Runs /\ lease' = NoFile
  BY <1>3 DEF Certify, CreateRecord, CreateSlot, MarkSlot, Authenticate,
     CloseWorkspace, RemoveWorkspace, CleanupFails, Commit, Release
<1>4. ASSUME NEW p \in Runs, Fail(p), lease' # lease
      PROVE  lease \in Runs /\ lease' = NoFile
  BY <1>4 DEF Fail, Abort, DropSlot, DropRecord, DropReceipt, DropWorkspace,
     Release
<1>5. ASSUME Environment, lease' # lease
      PROVE  lease \in Runs /\ lease' = NoFile
  BY <1>5 DEF Environment, Crash, Signal, Restore, Reap, Edit, Release
<1>6. ASSUME NEW p \in Runs, Enter(p) \/ Refuse(p), lease' # lease
      PROVE  lease = NoFile /\ lease' \in Runs
  BY <1>6 DEF Enter, Refuse
<1>7. CASE UNCHANGED vars
  BY <1>7 DEF vars
<1>. QED
  BY <1>1, <1>2, <1>3, <1>4, <1>5, <1>6, <1>7 DEF Next, Step

\* The variables keep their types.
LEMMA TypeStep == TypeOK /\ [Next]_vars => TypeOK'
  BY DataStep, LeaseMoves DEF TypeOK, DataOK

-----------------------------------------------------------------------------
(* The invariant *)

\* The invariant holds initially.
LEMMA InvInit == Init => IInv
<1>. SUFFICES ASSUME Init PROVE IInv
  OBVIOUS
<1>. USE PublicationConstants DEF Init
<1>1. src \in Snapshots
  BY DEF Snapshots, Versions
<1>2. TypeOK
  BY <1>1 DEF TypeOK, JobStatus
<1>3. ExecutionInv
  BY DEF ExecutionInv, Published, PublishSteps, ReceiptSteps, CertifySteps
<1>4. RegistryInv
  BY DEF RegistryInv, InWorkspace, ProduceSteps, PublishSteps, ReceiptSteps,
         CertifySteps
<1>5. LeaseInv
  BY DEF LeaseInv, Working, Fallible, ProduceSteps, PublishSteps, ReceiptSteps,
         CertifySteps, DropSteps
<1>. QED
  BY <1>2, <1>3, <1>4, <1>5 DEF IInv

\* Every step preserves the invariant.
LEMMA InvStep == IInv /\ [Next]_vars => IInv'
<1>. SUFFICES ASSUME IInv, [Next]_vars PROVE IInv'
  OBVIOUS
<1>0. DataOK
  BY DEF IInv, TypeOK, DataOK
<1>1. TypeOK' /\ ExecutionInv' /\ RegistryInv'
  BY <1>0, TypeStep, ExecutionStep, RegistryStep DEF IInv
<1>2. ~SharedBoundary => LeaseInv'
  BY <1>0, LeaseStep DEF IInv
<1>. QED
  BY <1>1, <1>2 DEF IInv

\* Every reachable state satisfies the inductive invariant.
THEOREM Invariant == Spec => []IInv
<1>. QED
  BY InvInit, InvStep, PTL DEF Spec

\* Type correctness, for every number of runs and inputs.
THEOREM TypeCorrect == Spec => []TypeOK
<1>1. IInv => TypeOK
  BY DEF IInv
<1>. QED
  BY <1>1, Invariant, PTL

-----------------------------------------------------------------------------
(* Safety *)

\* A failed run keeps in the registry only what its guard could not remove,
\* lease or no lease: the guards of publication.rs and authentication.rs unwind
\* from every step to the end.
THEOREM FailedRunWithdrawn == Spec => []FailedRunIsWithdrawn
<1>1. IInv => FailedRunIsWithdrawn
  BY DEF IInv, RegistryInv, FailedRunIsWithdrawn, Undone
<1>. QED
  BY <1>1, Invariant, PTL

\* With the workload lease, evidence a reader can accept is the report of the
\* run its receipt names, executed on the inputs that receipt records.
THEOREM UsableEvidenceBound ==
  ASSUME ~SharedBoundary PROVE Spec => []UsableEvidenceIsBound
<1>1. IInv => UsableEvidenceIsBound
  <2>. SUFFICES ASSUME IInv, NEW p \in Runs, Usable(p)
                PROVE  report = p /\ ranOn[p] = before[p]
    BY DEF UsableEvidenceIsBound
  <2>1. p \in records /\ report = attests[p]
    BY DEF Usable, Authenticated, Authentic
  <2>2. attests[p] = p
    BY <2>1 DEF IInv, LeaseInv
  <2>3. ranOn[p] = before[p]
    BY <2>1 DEF IInv, RegistryInv, ExecutionInv
  <2>. QED
    BY <2>1, <2>2, <2>3
<1>. QED
  BY <1>1, Invariant, PTL

-----------------------------------------------------------------------------
(* Refinement of EvidenceContract, under the workload lease *)

\* A run between its revocation and its end.
Inside(p) == pc[p] \in Working \ {"revoke"}

\* The run that holds the lease is the only one whose end the registry awaits.
LatestIsWorking == \A p \in Runs : Inside(p) => Latest = {p}

\* Under the lease the working run is the latest attempt, the only one.
LEMMA LatestNow == IInv /\ ~SharedBoundary => LatestIsWorking
<1>. SUFFICES ASSUME IInv, ~SharedBoundary, NEW p \in Runs, Inside(p)
              PROVE  Latest = {p}
  BY DEF LatestIsWorking
<1>1. p \in Latest
  BY
     DEF Latest, Tried, Inside, Fallible, Working, ProduceSteps, PublishSteps,
         ReceiptSteps, CertifySteps, DropSteps
<1>2. ASSUME NEW q \in Latest PROVE q = p
  <2>1. lease = p /\ slot \in {NoFile, p}
    BY DEF IInv, LeaseInv, Inside
  <2>2. q \in Runs /\ (pc[q] \in Working \/ slot = q)
    BY <1>2 DEF Latest, Tried
  <2>3. CASE pc[q] \in Working
    BY <2>1, <2>2, <2>3 DEF IInv, LeaseInv
  <2>4. CASE slot = q
    BY <2>1, <2>2, <2>4, PublicationConstants
  <2>. QED
    BY <2>2, <2>3, <2>4
<1>. QED
  BY <1>1, <1>2

\* The same after a step.
LEMMA LatestNext == ASSUME ~SharedBoundary PROVE IInv' => LatestIsWorking'
<1>1. IInv => LatestIsWorking
  BY LatestNow
<1>. QED
  BY <1>1, PTL

\* The registry and the job directories determine the usable run.
LEMMA UsableKept ==
  UNCHANGED <<slot, marked, records, job>> => UsableRun' = UsableRun
  BY DEF UsableRun, Authenticated, Authentic

\* A step inside a run neither begins nor ends an attempt.
LEMMA StayInside ==
  ASSUME IInv, IInv', ~SharedBoundary, NEW p \in Runs, Inside(p), Inside(p)',
         pc' = [pc EXCEPT ![p] = pc'[p]]
  PROVE  Latest' = Latest /\ Tried' = Tried
<1>1. Latest = {p} /\ Latest' = {p}
  BY LatestNow, LatestNext DEF LatestIsWorking
<1>2. Tried' = Tried
  BY
     DEF Tried, Inside, IInv, TypeOK, Fallible, Working, ProduceSteps,
         PublishSteps, ReceiptSteps, CertifySteps, DropSteps
<1>. QED
  BY <1>1, <1>2

\* The end of a run ends its attempt, unless a crash or an error leaves its slot.
LEMMA LeaveInside ==
  ASSUME IInv, ~SharedBoundary, NEW p \in Runs, Inside(p), slot' = slot,
         NEW end \in {"done", "failed", "crashed"}, pc' = [pc EXCEPT ![p] = end]
  PROVE  /\ p \in Latest /\ Tried' = Tried
         /\ Latest' \in {Latest, {}}
         /\ end = "done" => Latest' = {}
<1>1. Latest = {p}
  BY LatestNow DEF LatestIsWorking
<1>2. Tried' = Tried
  BY
     DEF Tried, Inside, IInv, TypeOK, Fallible, Working, ProduceSteps,
         PublishSteps, ReceiptSteps, CertifySteps, DropSteps
<1>3. \A q \in Runs : q # p => pc'[q] = pc[q]
  BY DEF IInv, TypeOK
<1>4. pc'[p] = end /\ end \notin Working
  BY
     DEF IInv, TypeOK, Fallible, Working, ProduceSteps, PublishSteps,
         ReceiptSteps, CertifySteps, DropSteps
<1>5. Latest' \subseteq {p}
  BY <1>1, <1>2, <1>3 DEF Latest
<1>6. end = "done" => p \notin Latest'
  BY <1>4 DEF Latest
<1>. QED
  BY <1>1, <1>2, <1>5, <1>6

\* Every step of a run is a step of the contract or changes nothing it sees.
LEMMA ContractStep ==
  IInv /\ IInv' /\ ~SharedBoundary /\ [Next]_vars =>
    Contract!Next \/ UNCHANGED <<UsableRun, Latest, Tried>>
<1>. DEFINE Goal == Contract!Next \/ UNCHANGED <<UsableRun, Latest, Tried>>
<1>. SUFFICES ASSUME IInv, IInv', ~SharedBoundary, [Next]_vars PROVE Goal
  OBVIOUS
<1>1. ASSUME NEW p \in Runs, Enter(p) PROVE Goal
  <2>1. Latest' = Latest /\ Tried' = Tried
    BY <1>1
       DEF Latest, Tried, Enter, Goto, registry, Fallible, Working,
           ProduceSteps, PublishSteps, ReceiptSteps, CertifySteps, DropSteps
  <2>. QED
    BY <1>1, <2>1, UsableKept DEF Enter, registry
<1>2. ASSUME NEW p \in Runs, Refuse(p) PROVE Goal
  <2>1. Latest' = Latest /\ Tried' = Tried
    BY <1>2
       DEF Latest, Tried, Refuse, Goto, registry, Fallible, Working,
           ProduceSteps, PublishSteps, ReceiptSteps, CertifySteps, DropSteps
  <2>. QED
    BY <1>2, <2>1, UsableKept DEF Refuse, registry
<1>3. ASSUME NEW p \in Runs, Revoke(p) PROVE Goal
  <2>1. p \notin Tried /\ Tried' = Tried \cup {p}
    BY <1>3 DEF Tried, Revoke, Goto, IInv, TypeOK
  <2>2. Latest' = {p}
    BY <1>3, LatestNext
       DEF Revoke, Goto, LatestIsWorking, Inside, IInv, TypeOK, Fallible,
           Working, ProduceSteps, PublishSteps, ReceiptSteps, CertifySteps,
           DropSteps
  <2>3. UsableRun' = NoFile
    BY <1>3 DEF UsableRun, Revoke
  <2>. QED
    BY <2>1, <2>2, <2>3 DEF Contract!Next, Contract!Begin
<1>4. ASSUME NEW p \in Runs, RemoveReceipt(p) PROVE Goal
  <2>1. Inside(p) /\ Inside(p)' /\ pc' = [pc EXCEPT ![p] = pc'[p]]
    BY <1>4
       DEF RemoveReceipt, Goto, Inside, IInv, TypeOK, Fallible, Working,
           ProduceSteps, PublishSteps, ReceiptSteps, CertifySteps, DropSteps
  <2>2. UsableRun' = UsableRun
    BY <1>4, UsableKept DEF RemoveReceipt, registry
  <2>. QED
    BY <2>1, <2>2, StayInside
<1>5. ASSUME NEW p \in Runs, NEW f \in Files, CaptureFile(p, f) PROVE Goal
  <2>1. Inside(p) /\ Inside(p)' /\ pc' = [pc EXCEPT ![p] = pc'[p]]
    BY <1>5
       DEF CaptureFile, Inside, IInv, TypeOK, Fallible, Working, ProduceSteps,
           PublishSteps, ReceiptSteps, CertifySteps, DropSteps
  <2>2. UsableRun' = UsableRun
    BY <1>5, UsableKept DEF CaptureFile, registry
  <2>. QED
    BY <2>1, <2>2, StayInside
<1>6. ASSUME NEW p \in Runs, CreateWorkspace(p) PROVE Goal
  <2>1. Inside(p) /\ Inside(p)' /\ pc' = [pc EXCEPT ![p] = pc'[p]]
    BY <1>6
       DEF CreateWorkspace, Goto, Inside, IInv, TypeOK, Fallible, Working,
           ProduceSteps, PublishSteps, ReceiptSteps, CertifySteps, DropSteps
  <2>2. UNCHANGED <<slot, marked, records>> /\ slot \in {NoFile, p}
    BY <1>6, <2>1 DEF CreateWorkspace, registry, IInv, LeaseInv, Inside
  <2>3. slot = p => job[p] # "absent" /\ job'[p] # "absent"
    BY <1>6
       DEF CreateWorkspace, Goto, IInv, RegistryInv, TypeOK, InWorkspace,
           Fallible, Working, ProduceSteps, PublishSteps, ReceiptSteps,
           CertifySteps, DropSteps
  <2>4. UsableRun' = UsableRun
    BY <2>2, <2>3 DEF UsableRun, Authenticated
  <2>. QED
    BY <2>1, <2>4, StayInside
<1>7. ASSUME NEW p \in Runs, NEW f \in Files, CopyFile(p, f) PROVE Goal
  <2>1. Inside(p) /\ Inside(p)' /\ pc' = [pc EXCEPT ![p] = pc'[p]]
    BY <1>7
       DEF CopyFile, Inside, IInv, TypeOK, Fallible, Working, ProduceSteps,
           PublishSteps, ReceiptSteps, CertifySteps, DropSteps
  <2>2. UsableRun' = UsableRun
    BY <1>7, UsableKept DEF CopyFile, registry
  <2>. QED
    BY <2>1, <2>2, StayInside
<1>8. ASSUME NEW p \in Runs, CheckCopy(p) PROVE Goal
  <2>1. Inside(p) /\ Inside(p)' /\ pc' = [pc EXCEPT ![p] = pc'[p]]
    BY <1>8
       DEF CheckCopy, Goto, Inside, IInv, TypeOK, Fallible, Working,
           ProduceSteps, PublishSteps, ReceiptSteps, CertifySteps, DropSteps
  <2>2. UsableRun' = UsableRun
    BY <1>8, UsableKept DEF CheckCopy, registry
  <2>. QED
    BY <2>1, <2>2, StayInside
<1>9. ASSUME NEW p \in Runs, NEW f \in Files, CheckRoot(p, f) PROVE Goal
  <2>1. Inside(p) /\ Inside(p)' /\ pc' = [pc EXCEPT ![p] = pc'[p]]
    BY <1>9
       DEF CheckRoot, Rewalk, Inside, IInv, TypeOK, Fallible, Working,
           ProduceSteps, PublishSteps, ReceiptSteps, CertifySteps, DropSteps
  <2>2. UsableRun' = UsableRun
    BY <1>9, UsableKept DEF CheckRoot, registry
  <2>. QED
    BY <2>1, <2>2, StayInside
<1>43. ASSUME NEW p \in Runs, QueryVersion(p) PROVE Goal
  <2>1. Inside(p) /\ Inside(p)' /\ pc' = [pc EXCEPT ![p] = pc'[p]]
    BY <1>43
       DEF QueryVersion, Goto, Inside, IInv, TypeOK, Fallible, Working,
           ProduceSteps, PublishSteps, ReceiptSteps, CertifySteps, DropSteps
  <2>2. UsableRun' = UsableRun
    BY <1>43, UsableKept DEF QueryVersion, registry
  <2>. QED
    BY <2>1, <2>2, StayInside
<1>10. ASSUME NEW p \in Runs, RunStage(p) PROVE Goal
  <2>1. Inside(p) /\ Inside(p)' /\ pc' = [pc EXCEPT ![p] = pc'[p]]
    BY <1>10
       DEF RunStage, Goto, Inside, IInv, TypeOK, Fallible, Working,
           ProduceSteps, PublishSteps, ReceiptSteps, CertifySteps, DropSteps
  <2>2. UsableRun' = UsableRun
    BY <1>10, UsableKept DEF RunStage, registry
  <2>. QED
    BY <2>1, <2>2, StayInside
<1>11. ASSUME NEW p \in Runs, CheckRestoration(p) PROVE Goal
  <2>1. Inside(p) /\ Inside(p)' /\ pc' = [pc EXCEPT ![p] = pc'[p]]
    BY <1>11
       DEF CheckRestoration, Goto, Inside, IInv, TypeOK, Fallible, Working,
           ProduceSteps, PublishSteps, ReceiptSteps, CertifySteps, DropSteps
  <2>2. UsableRun' = UsableRun
    BY <1>11, UsableKept DEF CheckRestoration, registry
  <2>. QED
    BY <2>1, <2>2, StayInside
<1>12. ASSUME NEW p \in Runs, NEW f \in Files, CheckCheckout(p, f) PROVE Goal
  <2>1. Inside(p) /\ Inside(p)' /\ pc' = [pc EXCEPT ![p] = pc'[p]]
    BY <1>12
       DEF CheckCheckout, Rewalk, Inside, IInv, TypeOK, Fallible, Working,
           ProduceSteps, PublishSteps, ReceiptSteps, CertifySteps, DropSteps
  <2>2. UsableRun' = UsableRun
    BY <1>12, UsableKept DEF CheckCheckout, registry
  <2>. QED
    BY <2>1, <2>2, StayInside
<1>13. ASSUME NEW p \in Runs, BeginPublication(p) PROVE Goal
  <2>1. Inside(p) /\ Inside(p)' /\ pc' = [pc EXCEPT ![p] = pc'[p]]
    BY <1>13
       DEF BeginPublication, Goto, Inside, IInv, TypeOK, Fallible, Working,
           ProduceSteps, PublishSteps, ReceiptSteps, CertifySteps, DropSteps
  <2>2. UNCHANGED <<slot, marked, records>> /\ slot \in {NoFile, p}
    BY <1>13, <2>1 DEF BeginPublication, registry, IInv, LeaseInv, Inside
  <2>3. slot = p => job[p] # "absent" /\ job'[p] # "absent"
    BY <1>13
       DEF BeginPublication, Goto, IInv, RegistryInv, TypeOK, InWorkspace,
           Fallible, Working, ProduceSteps, PublishSteps, ReceiptSteps,
           CertifySteps, DropSteps
  <2>4. UsableRun' = UsableRun
    BY <2>2, <2>3 DEF UsableRun, Authenticated
  <2>. QED
    BY <2>1, <2>4, StayInside
<1>14. ASSUME NEW p \in Runs, WritePending(p) PROVE Goal
  <2>1. Inside(p) /\ Inside(p)' /\ pc' = [pc EXCEPT ![p] = pc'[p]]
    BY <1>14
       DEF WritePending, Goto, Inside, IInv, TypeOK, Fallible, Working,
           ProduceSteps, PublishSteps, ReceiptSteps, CertifySteps, DropSteps
  <2>2. UsableRun' = UsableRun
    BY <1>14, UsableKept DEF WritePending, registry
  <2>. QED
    BY <2>1, <2>2, StayInside
<1>15. ASSUME NEW p \in Runs, Validate(p) PROVE Goal
  <2>1. Inside(p) /\ Inside(p)' /\ pc' = [pc EXCEPT ![p] = pc'[p]]
    BY <1>15
       DEF Validate, Goto, Inside, IInv, TypeOK, Fallible, Working,
           ProduceSteps, PublishSteps, ReceiptSteps, CertifySteps, DropSteps
  <2>2. UsableRun' = UsableRun
    BY <1>15, UsableKept DEF Validate, registry
  <2>. QED
    BY <2>1, <2>2, StayInside
<1>16. ASSUME NEW p \in Runs, Invalid(p) PROVE Goal
  <2>1. Inside(p) /\ Inside(p)' /\ pc' = [pc EXCEPT ![p] = pc'[p]]
    BY <1>16
       DEF Invalid, Goto, Inside, IInv, TypeOK, Fallible, Working,
           ProduceSteps, PublishSteps, ReceiptSteps, CertifySteps, DropSteps
  <2>2. UsableRun' = UsableRun
    BY <1>16, UsableKept DEF Invalid, registry
  <2>. QED
    BY <2>1, <2>2, StayInside
<1>17. ASSUME NEW p \in Runs, AttestReport(p) PROVE Goal
  <2>1. Inside(p) /\ Inside(p)' /\ pc' = [pc EXCEPT ![p] = pc'[p]]
    BY <1>17
       DEF AttestReport, Goto, Inside, IInv, TypeOK, Fallible, Working,
           ProduceSteps, PublishSteps, ReceiptSteps, CertifySteps, DropSteps
  <2>2. UsableRun' = UsableRun
    BY <1>17, UsableKept DEF AttestReport, registry
  <2>. QED
    BY <2>1, <2>2, StayInside
<1>18. ASSUME NEW p \in Runs, NEW f \in Files, CheckBeforePublication(p, f)
      PROVE  Goal
  <2>1. Inside(p) /\ Inside(p)' /\ pc' = [pc EXCEPT ![p] = pc'[p]]
    BY <1>18
       DEF CheckBeforePublication, Rewalk, Inside, IInv, TypeOK, Fallible,
           Working, ProduceSteps, PublishSteps, ReceiptSteps, CertifySteps,
           DropSteps
  <2>2. UsableRun' = UsableRun
    BY <1>18, UsableKept DEF CheckBeforePublication, registry
  <2>. QED
    BY <2>1, <2>2, StayInside
<1>19. ASSUME NEW p \in Runs, RenameReport(p) PROVE Goal
  <2>1. Inside(p) /\ Inside(p)' /\ pc' = [pc EXCEPT ![p] = pc'[p]]
    BY <1>19
       DEF RenameReport, Goto, Inside, IInv, TypeOK, Fallible, Working,
           ProduceSteps, PublishSteps, ReceiptSteps, CertifySteps, DropSteps
  <2>2. UsableRun' = UsableRun
    BY <1>19, UsableKept DEF RenameReport, registry
  <2>. QED
    BY <2>1, <2>2, StayInside
<1>20. ASSUME NEW p \in Runs, WriteReceipt(p) PROVE Goal
  <2>1. Inside(p) /\ Inside(p)' /\ pc' = [pc EXCEPT ![p] = pc'[p]]
    BY <1>20
       DEF WriteReceipt, Goto, Inside, IInv, TypeOK, Fallible, Working,
           ProduceSteps, PublishSteps, ReceiptSteps, CertifySteps, DropSteps
  <2>2. UsableRun' = UsableRun
    BY <1>20, UsableKept DEF WriteReceipt, registry
  <2>. QED
    BY <2>1, <2>2, StayInside
<1>21. ASSUME NEW p \in Runs, CheckReport(p) PROVE Goal
  <2>1. Inside(p) /\ Inside(p)' /\ pc' = [pc EXCEPT ![p] = pc'[p]]
    BY <1>21
       DEF CheckReport, Goto, Inside, IInv, TypeOK, Fallible, Working,
           ProduceSteps, PublishSteps, ReceiptSteps, CertifySteps, DropSteps
  <2>2. UsableRun' = UsableRun
    BY <1>21, UsableKept DEF CheckReport, registry
  <2>. QED
    BY <2>1, <2>2, StayInside
<1>22. ASSUME NEW p \in Runs, CheckReceipt(p) PROVE Goal
  <2>1. Inside(p) /\ Inside(p)' /\ pc' = [pc EXCEPT ![p] = pc'[p]]
    BY <1>22
       DEF CheckReceipt, Goto, Inside, IInv, TypeOK, Fallible, Working,
           ProduceSteps, PublishSteps, ReceiptSteps, CertifySteps, DropSteps
  <2>2. UsableRun' = UsableRun
    BY <1>22, UsableKept DEF CheckReceipt, registry
  <2>. QED
    BY <2>1, <2>2, StayInside
<1>23. ASSUME NEW p \in Runs, NEW f \in Files, CheckAfterPublication(p, f)
      PROVE  Goal
  <2>1. Inside(p) /\ Inside(p)' /\ pc' = [pc EXCEPT ![p] = pc'[p]]
    BY <1>23
       DEF CheckAfterPublication, Rewalk, Inside, IInv, TypeOK, Fallible,
           Working, ProduceSteps, PublishSteps, ReceiptSteps, CertifySteps,
           DropSteps
  <2>2. UsableRun' = UsableRun
    BY <1>23, UsableKept DEF CheckAfterPublication, registry
  <2>. QED
    BY <2>1, <2>2, StayInside
<1>24. ASSUME NEW p \in Runs, CreateRecord(p) PROVE Goal
  <2>1. Inside(p) /\ Inside(p)' /\ pc' = [pc EXCEPT ![p] = pc'[p]]
    BY <1>24
       DEF CreateRecord, Goto, Inside, IInv, TypeOK, Fallible, Working,
           ProduceSteps, PublishSteps, ReceiptSteps, CertifySteps, DropSteps
  <2>2. slot = NoFile /\ slot' = NoFile
    BY <1>24, <2>1
       DEF CreateRecord, Goto, IInv, LeaseInv, RegistryInv, Inside, Fallible,
           Working, ProduceSteps, PublishSteps, ReceiptSteps, CertifySteps,
           DropSteps
  <2>. QED
    BY <2>1, <2>2, StayInside DEF UsableRun
<1>25. ASSUME NEW p \in Runs, CreateSlot(p) PROVE Goal
  <2>1. Inside(p) /\ Inside(p)' /\ pc' = [pc EXCEPT ![p] = pc'[p]]
    BY <1>25
       DEF CreateSlot, Goto, Inside, IInv, TypeOK, Fallible, Working,
           ProduceSteps, PublishSteps, ReceiptSteps, CertifySteps, DropSteps
  <2>2. slot = NoFile /\ slot' = p /\ job'[p] # "absent"
    BY <1>25
       DEF CreateSlot, Goto, IInv, RegistryInv, InWorkspace, Fallible, Working,
           ProduceSteps, PublishSteps, ReceiptSteps, CertifySteps, DropSteps
  <2>3. UsableRun = NoFile /\ UsableRun' = NoFile
    BY <2>2 DEF UsableRun, Authenticated
  <2>. QED
    BY <2>1, <2>3, StayInside
<1>26. ASSUME NEW p \in Runs, MarkSlot(p) PROVE Goal
  <2>1. Inside(p) /\ Inside(p)' /\ pc' = [pc EXCEPT ![p] = pc'[p]]
    BY <1>26
       DEF MarkSlot, Goto, Inside, IInv, TypeOK, Fallible, Working,
           ProduceSteps, PublishSteps, ReceiptSteps, CertifySteps, DropSteps
  <2>2. slot \in {NoFile, p} /\ slot' = slot /\ job[p] # "absent" /\ job' = job
    BY <1>26, <2>1
       DEF MarkSlot, Goto, IInv, RegistryInv, LeaseInv, InWorkspace, Inside,
           Fallible, Working, ProduceSteps, PublishSteps, ReceiptSteps,
           CertifySteps, DropSteps
  <2>3. UsableRun = NoFile /\ UsableRun' = NoFile
    BY <2>2 DEF UsableRun, Authenticated
  <2>. QED
    BY <2>1, <2>3, StayInside
<1>27. ASSUME NEW p \in Runs, Authenticate(p) PROVE Goal
  <2>1. Inside(p) /\ Inside(p)' /\ pc' = [pc EXCEPT ![p] = pc'[p]]
    BY <1>27
       DEF Authenticate, Goto, Inside, IInv, TypeOK, Fallible, Working,
           ProduceSteps, PublishSteps, ReceiptSteps, CertifySteps, DropSteps
  <2>2. UsableRun' = UsableRun
    BY <1>27, UsableKept DEF Authenticate, registry
  <2>. QED
    BY <2>1, <2>2, StayInside
<1>28. ASSUME NEW p \in Runs, CloseWorkspace(p) PROVE Goal
  <2>1. Inside(p) /\ Inside(p)' /\ pc' = [pc EXCEPT ![p] = pc'[p]]
    BY <1>28
       DEF CloseWorkspace, Goto, Inside, IInv, TypeOK, Fallible, Working,
           ProduceSteps, PublishSteps, ReceiptSteps, CertifySteps, DropSteps
  <2>2. UNCHANGED <<slot, marked, records>> /\ slot \in {NoFile, p}
    BY <1>28, <2>1 DEF CloseWorkspace, registry, IInv, LeaseInv, Inside
  <2>3. slot = p => job[p] # "absent" /\ job'[p] # "absent"
    BY <1>28
       DEF CloseWorkspace, Goto, IInv, RegistryInv, TypeOK, InWorkspace,
           Fallible, Working, ProduceSteps, PublishSteps, ReceiptSteps,
           CertifySteps, DropSteps
  <2>4. UsableRun' = UsableRun
    BY <2>2, <2>3 DEF UsableRun, Authenticated
  <2>. QED
    BY <2>1, <2>4, StayInside
<1>29. ASSUME NEW p \in Runs, RemoveWorkspace(p) PROVE Goal
  <2>1. Inside(p) /\ Inside(p)' /\ pc' = [pc EXCEPT ![p] = pc'[p]]
    BY <1>29
       DEF RemoveWorkspace, Goto, Inside, IInv, TypeOK, Fallible, Working,
           ProduceSteps, PublishSteps, ReceiptSteps, CertifySteps, DropSteps
  <2>2. Authentic(p) /\ job[p] # "absent"
    BY <1>29
       DEF RemoveWorkspace, Goto, IInv, RegistryInv, LeaseInv, InWorkspace,
           Fallible, Working, ProduceSteps, PublishSteps, ReceiptSteps,
           CertifySteps, DropSteps
  <2>3. Authentic(p)' /\ job'[p] = "absent"
    BY <1>29, <2>2 DEF RemoveWorkspace, Authentic, registry, IInv, TypeOK
  <2>4. UsableRun = NoFile /\ UsableRun' = p
    BY <2>2, <2>3, PublicationConstants DEF UsableRun, Authenticated, Authentic
  <2>5. p \in Latest /\ Latest' = Latest /\ Tried' = Tried
    BY <2>1, StayInside, LatestNow DEF LatestIsWorking
  <2>. QED
    BY <2>4, <2>5 DEF Contract!Next, Contract!Complete
<1>30. ASSUME NEW p \in Runs, CleanupFails(p) PROVE Goal
  <2>1. Inside(p) /\ Inside(p)' /\ pc' = [pc EXCEPT ![p] = pc'[p]]
    BY <1>30
       DEF CleanupFails, Goto, Inside, IInv, TypeOK, Fallible, Working,
           ProduceSteps, PublishSteps, ReceiptSteps, CertifySteps, DropSteps
  <2>2. UNCHANGED <<slot, marked, records>> /\ slot \in {NoFile, p}
    BY <1>30, <2>1 DEF CleanupFails, registry, IInv, LeaseInv, Inside
  <2>3. slot = p => job[p] # "absent" /\ job'[p] # "absent"
    BY <1>30
       DEF CleanupFails, Goto, IInv, RegistryInv, TypeOK, InWorkspace,
           Fallible, Working, ProduceSteps, PublishSteps, ReceiptSteps,
           CertifySteps, DropSteps
  <2>4. UsableRun' = UsableRun
    BY <2>2, <2>3 DEF UsableRun, Authenticated
  <2>. QED
    BY <2>1, <2>4, StayInside
<1>31. ASSUME NEW p \in Runs, Commit(p) PROVE Goal
  <2>1. Inside(p) /\ pc' = [pc EXCEPT ![p] = "done"]
    BY <1>31
       DEF Commit, Goto, Inside, IInv, TypeOK, Fallible, Working, ProduceSteps,
           PublishSteps, ReceiptSteps, CertifySteps, DropSteps
  <2>2. UsableRun' = UsableRun
    BY <1>31, UsableKept DEF Commit, registry
  <2>3. slot' = slot
    BY <1>31 DEF Commit, registry
  <2>. QED
    BY <2>1, <2>2, <2>3, LeaveInside DEF Contract!Next, Contract!Retire
<1>32. ASSUME NEW p \in Runs, Abort(p) PROVE Goal
  <2>1. CASE pc[p] = "revoke"
    <3>1. Latest' = Latest /\ Tried' = Tried
      BY <1>32, <2>1
         DEF Abort, Unwind, Latest, Tried, registry, Fallible, Working,
             ProduceSteps, PublishSteps, ReceiptSteps, CertifySteps, DropSteps
    <3>2. job' = job
      BY <1>32, <2>1 DEF Abort
    <3>. QED
      BY <1>32, <3>1, <3>2, UsableKept DEF Abort, registry
  <2>2. CASE pc[p] # "revoke"
    <3>1. Inside(p) /\ Inside(p)' /\ pc' = [pc EXCEPT ![p] = pc'[p]]
      BY <1>32, <2>2
         DEF Abort, Unwind, Inside, Fallible, Working, ProduceSteps,
             PublishSteps, ReceiptSteps, CertifySteps, DropSteps, IInv, TypeOK
    <3>2. CASE pc[p] = "close"
      <4>1. slot' = slot /\ slot \in {NoFile, p} /\ job[p] # "absent"
        BY <1>32, <3>1, <3>2
           DEF Abort, registry, IInv, LeaseInv, RegistryInv, Inside,
               InWorkspace, Fallible, Working, ProduceSteps, PublishSteps,
               ReceiptSteps, CertifySteps, DropSteps
      <4>2. job'[p] # "absent"
        BY <1>32, <3>2, <4>1 DEF Abort, Retained, FailedStatus, IInv, TypeOK
      <4>3. UsableRun = NoFile /\ UsableRun' = NoFile
        BY <4>1, <4>2 DEF UsableRun, Authenticated
      <4>. QED
        BY <3>1, <4>3, StayInside
    <3>3. CASE pc[p] # "close"
      <4>1. UsableRun' = UsableRun
        BY <1>32, <3>3, UsableKept DEF Abort, registry
      <4>. QED
        BY <3>1, <4>1, StayInside
    <3>. QED
      BY <3>2, <3>3
  <2>. QED
    BY <2>1, <2>2
<1>33. ASSUME NEW p \in Runs, DropSlot(p) PROVE Goal
  <2>1. Inside(p) /\ Inside(p)' /\ pc' = [pc EXCEPT ![p] = pc'[p]]
    BY <1>33
       DEF DropSlot, Goto, Inside, IInv, TypeOK, Fallible, Working,
           ProduceSteps, PublishSteps, ReceiptSteps, CertifySteps, DropSteps
  <2>2. UsableRun \in {NoFile, p} /\ UsableRun' \in {NoFile, UsableRun}
    <3>1. slot \in {NoFile, p}
      BY <2>1 DEF IInv, LeaseInv, Inside
    <3>2. UNCHANGED <<marked, records, job>>
      BY <1>33 DEF DropSlot
    <3>3. CASE slot' = NoFile
      BY <3>1, <3>3 DEF UsableRun
    <3>4. CASE slot' = slot
      BY <3>1, <3>2, <3>4, UsableKept DEF UsableRun
    <3>. QED
      BY <1>33, <3>3, <3>4 DEF DropSlot
  <2>3. p \in Latest /\ Latest' = Latest /\ Tried' = Tried
    BY <2>1, StayInside, LatestNow DEF LatestIsWorking
  <2>. QED
    BY <2>2, <2>3 DEF Contract!Next, Contract!Withdraw
<1>34. ASSUME NEW p \in Runs, DropRecord(p) PROVE Goal
  <2>1. Inside(p) /\ Inside(p)' /\ pc' = [pc EXCEPT ![p] = pc'[p]]
    BY <1>34
       DEF DropRecord, Goto, Inside, IInv, TypeOK, Fallible, Working,
           ProduceSteps, PublishSteps, ReceiptSteps, CertifySteps, DropSteps
  <2>2. UsableRun \in {NoFile, p} /\ UsableRun' \in {NoFile, UsableRun}
    <3>1. slot \in {NoFile, p}
      BY <2>1 DEF IInv, LeaseInv, Inside
    <3>2. UNCHANGED <<slot, marked, job>>
      BY <1>34 DEF DropRecord
    <3>3. CASE records' = records \ {p}
      BY <3>1, <3>2, <3>3 DEF UsableRun, Authenticated, Authentic
    <3>4. CASE records' = records
      BY <3>1, <3>2, <3>4, UsableKept DEF UsableRun
    <3>. QED
      BY <1>34, <3>3, <3>4 DEF DropRecord
  <2>3. p \in Latest /\ Latest' = Latest /\ Tried' = Tried
    BY <2>1, StayInside, LatestNow DEF LatestIsWorking
  <2>. QED
    BY <2>2, <2>3 DEF Contract!Next, Contract!Withdraw
<1>35. ASSUME NEW p \in Runs, DropReceipt(p) PROVE Goal
  <2>1. Inside(p) /\ Inside(p)' /\ pc' = [pc EXCEPT ![p] = pc'[p]]
    BY <1>35
       DEF DropReceipt, Goto, Inside, IInv, TypeOK, Fallible, Working,
           ProduceSteps, PublishSteps, ReceiptSteps, CertifySteps, DropSteps
  <2>2. UsableRun' = UsableRun
    BY <1>35, UsableKept DEF DropReceipt, registry
  <2>. QED
    BY <2>1, <2>2, StayInside
<1>36. ASSUME NEW p \in Runs, DropWorkspace(p) PROVE Goal
  <2>1. Inside(p) /\ pc' = [pc EXCEPT ![p] = "failed"]
    BY <1>36
       DEF DropWorkspace, Goto, Inside, IInv, TypeOK, Fallible, Working,
           ProduceSteps, PublishSteps, ReceiptSteps, CertifySteps, DropSteps
  <2>2. slot' = slot /\ slot \in {NoFile, p} /\ UNCHANGED <<marked, records>>
    BY <1>36, <2>1 DEF DropWorkspace, IInv, LeaseInv, Inside, registry
  <2>3. job'[p] = "absent" <=> job[p] = "absent"
    BY <1>36 DEF DropWorkspace, Retained, FailedStatus, IInv, TypeOK
  <2>4. UsableRun' = UsableRun
    BY <2>2, <2>3 DEF UsableRun, Authenticated, Authentic
  <2>5. p \in Latest /\ Tried' = Tried /\ Latest' \in {Latest, {}}
    BY <2>1, <2>2, LeaveInside
  <2>. QED
    BY <2>4, <2>5 DEF Contract!Next, Contract!Retire
<1>37. ASSUME NEW p \in Runs, Crash(p) PROVE Goal
  <2>1. UsableRun' = UsableRun /\ slot' = slot
    BY <1>37, UsableKept DEF Crash, registry
  <2>2. CASE pc[p] = "revoke"
    <3>1. Latest' = Latest /\ Tried' = Tried
      BY <1>37, <2>2
         DEF Crash, Latest, Tried, registry, Fallible, Working, ProduceSteps,
             PublishSteps, ReceiptSteps, CertifySteps, DropSteps
    <3>. QED
      BY <2>1, <3>1
  <2>3. CASE pc[p] # "revoke"
    <3>1. Inside(p) /\ pc' = [pc EXCEPT ![p] = "crashed"]
      BY <1>37, <2>3
         DEF Crash, Inside, Fallible, Working, ProduceSteps, PublishSteps,
             ReceiptSteps, CertifySteps, DropSteps
    <3>2. p \in Latest /\ Tried' = Tried /\ Latest' \in {Latest, {}}
      BY <2>1, <3>1, LeaveInside
    <3>. QED
      BY <2>1, <3>2 DEF Contract!Next, Contract!Retire
  <2>. QED
    BY <2>2, <2>3
<1>38. ASSUME NEW p \in Runs, Signal(p) PROVE Goal
  BY <1>38, UsableKept DEF Signal, registry, Latest, Tried
<1>39. ASSUME NEW p \in Runs, Restore(p) PROVE Goal
  BY <1>39, UsableKept DEF Restore, registry, Latest, Tried
<1>40. ASSUME NEW p \in Runs, Reap(p) PROVE Goal
  <2>1. Latest' = Latest /\ Tried' = Tried
    BY <1>40 DEF Reap, Latest, Tried, registry
  <2>2. CASE Authentic(p)
    <3>1. p \in Latest
      BY <1>40, <2>2
         DEF Reap, Latest, Tried, Authentic, IInv, RegistryInv, Fallible,
             Working, ProduceSteps, PublishSteps, ReceiptSteps, CertifySteps,
             DropSteps
    <3>2. UsableRun = NoFile /\ UsableRun' = p
      BY <1>40, <2>2, PublicationConstants
         DEF Reap, UsableRun, Authenticated, Authentic, registry, IInv, TypeOK
    <3>. QED
      BY <2>1, <3>1, <3>2 DEF Contract!Next, Contract!Complete
  <2>3. CASE ~Authentic(p)
    <3>1. UsableRun' = UsableRun
      BY <1>40, <2>3
         DEF Reap, UsableRun, Authenticated, Authentic, registry, IInv, TypeOK
    <3>. QED
      BY <2>1, <3>1
  <2>. QED
    BY <2>2, <2>3
<1>41. ASSUME NEW f \in Files, Edit(f) PROVE Goal
  BY <1>41, UsableKept DEF Edit, registry, Latest, Tried
<1>42. CASE UNCHANGED vars
  BY <1>42, UsableKept DEF vars, registry, Latest, Tried
<1>. QED
  BY <1>1, <1>2, <1>3, <1>4, <1>5, <1>6, <1>7, <1>8, <1>9, <1>10, <1>11, <1>12,
      <1>13, <1>14, <1>15, <1>16, <1>17, <1>18, <1>19, <1>20, <1>21, <1>22,
      <1>23, <1>24, <1>25, <1>26, <1>27, <1>28, <1>29, <1>30, <1>31, <1>32,
      <1>33, <1>34, <1>35, <1>36, <1>37, <1>38, <1>39, <1>40, <1>41, <1>42,
      <1>43
  DEF Next, Environment, Step, Produce, Publish, Certify, Fail

\* Every execution of the detailed model is one of the contract, for every
\* number of runs and inputs, crashes and failures at any step included.
THEOREM ContractImplemented ==
  ASSUME ~SharedBoundary PROVE Spec => ImplementsContract
<1>1. Init => Contract!Init
  BY
     DEF Init, Contract!Init, UsableRun, Latest, Tried, Fallible, Working,
         ProduceSteps, PublishSteps, ReceiptSteps, CertifySteps, DropSteps
<1>2. IInv /\ IInv' /\ [Next]_vars => [Contract!Next]_Contract!contractVars
  BY ContractStep DEF Contract!contractVars
<1>. QED
  BY <1>1, <1>2, Invariant, PTL DEF Spec, ImplementsContract, Contract!Spec

-----------------------------------------------------------------------------
(* Durability, under the workload lease *)

\* Success is reported by Commit, of a run whose evidence is authenticated;
\* while a run is done, its slot and record are withdrawn by nobody but the
\* revocation of a later attempt.
LEMMA DurableStep ==
  ASSUME IInv, ~SharedBoundary, [Next]_vars, NEW r \in Runs
  PROVE  Durable(r)
<1>. USE PublicationConstants DEF IInv, TypeOK, Authenticated, Authentic, registry
<1>. DEFINE Ends == pc'[r] = "done" /\ pc[r] # "done"
            Kept == UNCHANGED <<slot, marked, records, job>>
            Loss == pc[r] = "done" /\ Authenticated(r) /\ ~Authenticated(r)'
<1>. SUFFICES /\ Ends => Authenticated(r)'
              /\ Loss => \E q \in Runs : pc[q] = "revoke" /\ pc'[q] = "remove_receipt"
  BY DEF Durable
<1>. DEFINE Goal == /\ Ends => Authenticated(r)'
                    /\ Loss => \E q \in Runs : /\ pc[q] = "revoke"
                                               /\ pc'[q] = "remove_receipt"
<1>0. Kept => ~Loss
  OBVIOUS
<1>1. ASSUME NEW p \in Runs, Enter(p) PROVE Goal
  BY <1>1, <1>0 DEF Enter, Goto
<1>2. ASSUME NEW p \in Runs, Refuse(p) PROVE Goal
  BY <1>2, <1>0 DEF Refuse, Goto
<1>3. ASSUME NEW p \in Runs, Revoke(p) PROVE Goal
  BY <1>3 DEF Revoke, Goto
<1>4. ASSUME NEW p \in Runs, RemoveReceipt(p) PROVE Goal
  BY <1>4, <1>0 DEF RemoveReceipt, Goto
<1>5. ASSUME NEW p \in Runs, NEW f \in Files, CaptureFile(p, f) PROVE Goal
  BY <1>5, <1>0 DEF CaptureFile
<1>6. ASSUME NEW p \in Runs, CreateWorkspace(p) PROVE Goal
  BY <1>6 DEF CreateWorkspace, Goto
<1>7. ASSUME NEW p \in Runs, NEW f \in Files, CopyFile(p, f) PROVE Goal
  BY <1>7, <1>0 DEF CopyFile
<1>8. ASSUME NEW p \in Runs, CheckCopy(p) PROVE Goal
  BY <1>8, <1>0 DEF CheckCopy, Goto
<1>9. ASSUME NEW p \in Runs, NEW f \in Files, CheckRoot(p, f) PROVE Goal
  BY <1>9, <1>0 DEF CheckRoot, Rewalk
<1>43. ASSUME NEW p \in Runs, QueryVersion(p) PROVE Goal
  BY <1>43, <1>0 DEF QueryVersion, Goto
<1>10. ASSUME NEW p \in Runs, RunStage(p) PROVE Goal
  BY <1>10, <1>0 DEF RunStage, Goto
<1>11. ASSUME NEW p \in Runs, CheckRestoration(p) PROVE Goal
  BY <1>11, <1>0 DEF CheckRestoration, Goto
<1>12. ASSUME NEW p \in Runs, NEW f \in Files, CheckCheckout(p, f) PROVE Goal
  BY <1>12, <1>0 DEF CheckCheckout, Rewalk
<1>13. ASSUME NEW p \in Runs, BeginPublication(p) PROVE Goal
  BY <1>13 DEF BeginPublication, Goto
<1>14. ASSUME NEW p \in Runs, WritePending(p) PROVE Goal
  BY <1>14, <1>0 DEF WritePending, Goto
<1>15. ASSUME NEW p \in Runs, Validate(p) PROVE Goal
  BY <1>15, <1>0 DEF Validate, Goto
<1>16. ASSUME NEW p \in Runs, Invalid(p) PROVE Goal
  BY <1>16, <1>0 DEF Invalid, Goto
<1>17. ASSUME NEW p \in Runs, AttestReport(p) PROVE Goal
  BY <1>17, <1>0 DEF AttestReport, Goto
<1>18. ASSUME NEW p \in Runs, NEW f \in Files, CheckBeforePublication(p, f)
      PROVE  Goal
  BY <1>18, <1>0 DEF CheckBeforePublication, Rewalk
<1>19. ASSUME NEW p \in Runs, RenameReport(p) PROVE Goal
  BY <1>19, <1>0 DEF RenameReport, Goto
<1>20. ASSUME NEW p \in Runs, WriteReceipt(p) PROVE Goal
  BY <1>20, <1>0 DEF WriteReceipt, Goto
<1>21. ASSUME NEW p \in Runs, CheckReport(p) PROVE Goal
  BY <1>21, <1>0 DEF CheckReport, Goto
<1>22. ASSUME NEW p \in Runs, CheckReceipt(p) PROVE Goal
  BY <1>22, <1>0 DEF CheckReceipt, Goto
<1>23. ASSUME NEW p \in Runs, NEW f \in Files, CheckAfterPublication(p, f)
      PROVE  Goal
  BY <1>23, <1>0 DEF CheckAfterPublication, Rewalk
<1>24. ASSUME NEW p \in Runs, CreateRecord(p) PROVE Goal
  BY <1>24 DEF CreateRecord, Goto
<1>25. ASSUME NEW p \in Runs, CreateSlot(p) PROVE Goal
  BY <1>25 DEF CreateSlot, Goto
<1>26. ASSUME NEW p \in Runs, MarkSlot(p) PROVE Goal
  BY <1>26 DEF MarkSlot, Goto
<1>27. ASSUME NEW p \in Runs, Authenticate(p) PROVE Goal
  BY <1>27, <1>0 DEF Authenticate, Goto
<1>28. ASSUME NEW p \in Runs, CloseWorkspace(p) PROVE Goal
  BY <1>28 DEF CloseWorkspace, Goto
<1>29. ASSUME NEW p \in Runs, RemoveWorkspace(p) PROVE Goal
  BY <1>29 DEF RemoveWorkspace, Goto
<1>30. ASSUME NEW p \in Runs, CleanupFails(p) PROVE Goal
  BY <1>30 DEF CleanupFails, Goto
<1>31. ASSUME NEW p \in Runs, Commit(p) PROVE Goal
  <2>1. Authenticated(p)
    BY <1>31 DEF Commit, Goto, LeaseInv
  <2>2. Kept /\ pc' = [pc EXCEPT ![p] = "done"]
    BY <1>31 DEF Commit, Goto
  <2>3. Authenticated(p)'
    BY <2>1, <2>2
  <2>4. Ends => r = p
    BY <2>2
  <2>. QED
    BY <1>0, <2>2, <2>3, <2>4
<1>32. ASSUME NEW p \in Runs, Abort(p) PROVE Goal
  <2>1. ~Ends
    BY <1>32 DEF Abort, Unwind, CertifySteps, ReceiptSteps
  <2>2. ~Loss
    BY <1>32 DEF Abort, Retained, FailedStatus
  <2>. QED
    BY <2>1, <2>2
<1>33. ASSUME NEW p \in Runs, DropSlot(p) PROVE Goal
  <2>1. slot \in {NoFile, p}
    BY <1>33
       DEF DropSlot, Goto, LeaseInv, Working, Fallible, ProduceSteps,
           PublishSteps, ReceiptSteps, CertifySteps, DropSteps
  <2>2. ~Loss
    BY <1>33, <2>1 DEF DropSlot, Goto
  <2>. QED
    BY <1>33, <2>2 DEF DropSlot, Goto
<1>34. ASSUME NEW p \in Runs, DropRecord(p) PROVE Goal
  BY <1>34 DEF DropRecord, Goto
<1>35. ASSUME NEW p \in Runs, DropReceipt(p) PROVE Goal
  BY <1>35, <1>0 DEF DropReceipt, Goto
<1>36. ASSUME NEW p \in Runs, DropWorkspace(p) PROVE Goal
  <2>1. ~Ends
    BY <1>36 DEF DropWorkspace, Goto
  <2>2. ~Loss
    BY <1>36 DEF DropWorkspace, Goto, Retained, FailedStatus
  <2>. QED
    BY <2>1, <2>2
<1>37. ASSUME NEW p \in Runs, Crash(p) PROVE Goal
  BY <1>37, <1>0 DEF Crash
<1>38. ASSUME NEW p \in Runs, Signal(p) PROVE Goal
  BY <1>38, <1>0 DEF Signal
<1>39. ASSUME NEW p \in Runs, Restore(p) PROVE Goal
  BY <1>39, <1>0 DEF Restore
<1>40. ASSUME NEW p \in Runs, Reap(p) PROVE Goal
  BY <1>40 DEF Reap
<1>41. ASSUME NEW f \in Files, Edit(f) PROVE Goal
  BY <1>41, <1>0 DEF Edit
<1>42. CASE UNCHANGED vars
  BY <1>42, <1>0 DEF vars
<1>. QED
  BY <1>1, <1>2, <1>3, <1>4, <1>5, <1>6, <1>7, <1>8, <1>9, <1>10, <1>11, <1>12,
      <1>13, <1>14, <1>15, <1>16, <1>17, <1>18, <1>19, <1>20, <1>21, <1>22,
      <1>23, <1>24, <1>25, <1>26, <1>27, <1>28, <1>29, <1>30, <1>31, <1>32,
      <1>33, <1>34, <1>35, <1>36, <1>37, <1>38, <1>39, <1>40, <1>41, <1>42,
      <1>43
  DEF Next, Environment, Step, Produce, Publish, Certify, Fail

\* With the lease, reported success is durable: see Durable.
THEOREM CompletionDurable ==
  ASSUME ~SharedBoundary PROVE Spec => CompletionIsDurable
<1>1. IInv /\ [Next]_vars => [\A p \in Runs : Durable(p)]_vars
  BY DurableStep
<1>. QED
  BY <1>1, Invariant, PTL DEF Spec, CompletionIsDurable

=============================================================================
