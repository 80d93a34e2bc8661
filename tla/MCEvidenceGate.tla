---------------------------- MODULE MCEvidenceGate ----------------------------
(* TLC instances of EvidenceGate: interchangeable runs and inputs. *)
EXTENDS EvidenceGate, TLC

Symmetry == Permutations(Runs) \cup Permutations(Files)

\* For instances that tell the runs apart.
FileSymmetry == Permutations(Files)

(***************************************************************************)
(* Views that forget what no step and no property reads any more.  A run   *)
(* that has ended, or is dropping its guards, does not look at its walk,   *)
(* copy, stages and signal again, and of its job only the presence counts; *)
(* once the copy is complete, only whether it still is what was recorded.  *)
(* Its inputs, its mark and its record count while the slot is its own or  *)
(* the gate holds its receipt or its report; a removal that failed, while  *)
(* the file is there.  A gate that has rejected forgets what it had read.  *)
(***************************************************************************)
Over(p) == pc[p] \in Ended \cup DropSteps
Held(p) == slot = p \/ (seen = p /\ gate \notin {"idle", "receipt", "slot", "rejected"})
Forgotten(p) == Over(p) /\ ~Held(p)
Live == {p \in Runs : ~Forgotten(p)}

Progress(p) ==
  IF Over(p) THEN {}
  ELSE <<IF pc[p] \in {"capture", "create", "copy"} THEN copy[p] ELSE copy[p] = before[p],
         todo[p], prelim[p], cancelled[p], job[p]>>

Evidence(p) ==
  IF Forgotten(p) THEN p \in records /\ "record" \notin stuck[p]
  ELSE <<before[p], ranOn[p], p \in marked, p \in records, job[p] = "absent",
         stuck[p] \ (IF slot = p THEN {} ELSE {"slot"})>>

GateView ==
  <<src, pending, report, receipt, slot, lease, pc,
    [p \in Runs |-> Progress(p)], [p \in Runs |-> Evidence(p)],
    [p \in Live \cup Restorable |-> attests[p]],
    gate, IF gate = "rejected" THEN {} ELSE <<seen, left, scored, witnessed>>>>

\* The checkouts seen by the walk too, where a property reads them.
CheckoutView == <<GateView, walked, undone \cap Live>>
=============================================================================
