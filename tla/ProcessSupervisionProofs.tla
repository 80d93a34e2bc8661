------------------------ MODULE ProcessSupervisionProofs ------------------------
(***************************************************************************)
(* Proofs about ProcessSupervision for any set of descendants, any of them *)
(* leaving the group, and any pipe blocking.                               *)
(***************************************************************************)
EXTENDS ProcessSupervision, TLAPS

\* Steps before the child has ended, been given up or been refused.
Polling == {"idle", "check", "try_wait"}
Receiving == {"receive_stdout", "receive_stderr"}

\* A supervised child has been started, and only its end or a failure ends the
\* polling.
PhaseInv ==
  /\ wait = "none" <=> pc \in Polling \/ (pc = "done" /\ leader = "none")
  /\ leader = "none" <=> pc = "idle" \/ (pc = "done" /\ wait = "none")
  /\ pc = "done" /\ wait = "none" => outcome = "failed"
  /\ outcome = "none" <=> pc # "done"
  /\ pc \in Polling => round = 1 /\ got = {}
  /\ round = 2 => halt

\* After TERM and its grace period every member of the group has a KILL pending.
KillInv == pc \in {"reap", "absence"} => Running \subseteq killed

\* The termination has ended: an exited leader's output is received once before.
Terminated ==
  \/ pc = "finish"
  \/ pc \in Receiving /\ (wait # "exited" \/ round = 2)
  \/ pc = "done" /\ wait # "none"

\* A termination without an error leaves no group and no child to be reaped; a
\* stream that was received comes from a reader that has ended.
CleanInv ==
  /\ Terminated /\ ~failed => ~GroupPresent
  /\ wait = "timeout" /\ Terminated => ~failed
  /\ \A s \in got : reader[s] = "sent"
  /\ outcome \in {"completed", "timed_out"} => ~failed /\ got = Streams

IInv == TypeOK /\ PhaseInv /\ KillInv /\ CleanInv

-----------------------------------------------------------------------------
(* Every step preserves each part *)

\* The variables keep their types.
LEMMA TypeStep ==
  TypeOK /\ PhaseInv /\ [Next]_vars => TypeOK'
<1>. SUFFICES ASSUME TypeOK, PhaseInv, [Next]_vars
             PROVE  TypeOK'
  OBVIOUS
<1>. USE SupervisionConstants DEF TypeOK, PhaseInv, Polling, Running,
         Streams, Processes, Rounds, processes, capture, demand
<1>1. ASSUME Spawn PROVE TypeOK'
  BY <1>1 DEF Spawn, Goto
<1>2. ASSUME Refuse PROVE TypeOK'
  BY <1>2 DEF Refuse, Goto
<1>3. ASSUME Check PROVE TypeOK'
  BY <1>3 DEF Check
<1>4. ASSUME Exited PROVE TypeOK'
  BY <1>4 DEF Exited, Goto
<1>5. ASSUME WaitError PROVE TypeOK'
  BY <1>5 DEF WaitError, Goto
<1>6. ASSUME PollAgain PROVE TypeOK'
  BY <1>6 DEF PollAgain, Goto
<1>7. ASSUME Timeout PROVE TypeOK'
  BY <1>7 DEF Timeout, Goto
<1>8. ASSUME SignalTerm PROVE TypeOK'
  BY <1>8 DEF SignalTerm, Goto
<1>9. ASSUME PollDirectChild PROVE TypeOK'
  BY <1>9 DEF PollDirectChild
<1>10. ASSUME GroupGone PROVE TypeOK'
  BY <1>10 DEF GroupGone, Goto
<1>11. ASSUME GraceOver PROVE TypeOK'
  BY <1>11 DEF GraceOver, Goto
<1>12. ASSUME Reaped PROVE TypeOK'
  BY <1>12 DEF Reaped, Goto
<1>13. ASSUME ReapFails PROVE TypeOK'
  BY <1>13 DEF ReapFails, Goto
<1>14. ASSUME AbsenceVerified PROVE TypeOK'
  BY <1>14 DEF AbsenceVerified, AfterCleanup
<1>15. ASSUME GroupRemains PROVE TypeOK'
  BY <1>15 DEF GroupRemains, AfterCleanup
<1>16. ASSUME NEW s \in Streams, Receive(s) PROVE TypeOK'
  BY <1>16 DEF Receive, Goto, ReceiveStep, AfterReceive
<1>17. ASSUME NEW s \in Streams, ReceiveTimeout(s) PROVE TypeOK'
  BY <1>17 DEF ReceiveTimeout, Goto, ReceiveStep, AfterReceive
<1>18. ASSUME CollectAgain PROVE TypeOK'
  BY <1>18 DEF CollectAgain, Goto
<1>19. ASSUME Finish PROVE TypeOK'
  BY <1>19 DEF Finish, Goto
<1>20. ASSUME NEW s \in Streams, ReadToEnd(s) PROVE TypeOK'
  BY <1>20 DEF ReadToEnd
<1>21. ASSUME NEW s \in Streams, ReadUntilHalt(s) PROVE TypeOK'
  BY <1>21 DEF ReadUntilHalt
<1>22. ASSUME NEW d \in Descendants, Fork(d) PROVE TypeOK'
  BY <1>22 DEF Fork
<1>23. ASSUME NEW d \in Descendants, LeaveGroup(d) PROVE TypeOK'
  BY <1>23 DEF LeaveGroup
<1>24. ASSUME NEW p \in Processes, End(p) PROVE TypeOK'
  BY <1>24 DEF End
<1>25. ASSUME NEW p \in Processes, NEW s \in Streams, ClosePipe(p, s)
      PROVE TypeOK'
  BY <1>25 DEF ClosePipe
<1>26. ASSUME Signal PROVE TypeOK'
  BY <1>26 DEF Signal
<1>27. ASSUME Deadline PROVE TypeOK'
  BY <1>27 DEF Deadline
<1>28. CASE UNCHANGED vars
  BY <1>28 DEF vars
<1>. QED
  BY <1>1, <1>2, <1>3, <1>4, <1>5, <1>6, <1>7, <1>8, <1>9, <1>10, <1>11,
     <1>12, <1>13, <1>14, <1>15, <1>16, <1>17, <1>18, <1>19, <1>20, <1>21,
     <1>22, <1>23, <1>24, <1>25, <1>26, <1>27, <1>28
     DEF Next, Supervise, Read, Workload

\* Every step to another phase leaves a reason and, at last, an outcome.
LEMMA PhaseStep ==
  TypeOK /\ PhaseInv /\ [Next]_vars => PhaseInv'
<1>. SUFFICES ASSUME TypeOK, PhaseInv, [Next]_vars
             PROVE  PhaseInv'
  OBVIOUS
<1>. USE SupervisionConstants DEF TypeOK, PhaseInv, Polling, Streams,
         Processes, Rounds, processes, capture, demand
<1>1. ASSUME Spawn PROVE PhaseInv'
  BY <1>1 DEF Spawn, Goto
<1>2. ASSUME Refuse PROVE PhaseInv'
  BY <1>2 DEF Refuse, Goto
<1>3. ASSUME Check PROVE PhaseInv'
  BY <1>3 DEF Check
<1>4. ASSUME Exited PROVE PhaseInv'
  BY <1>4 DEF Exited, Goto
<1>5. ASSUME WaitError PROVE PhaseInv'
  BY <1>5 DEF WaitError, Goto
<1>6. ASSUME PollAgain PROVE PhaseInv'
  BY <1>6 DEF PollAgain, Goto
<1>7. ASSUME Timeout PROVE PhaseInv'
  BY <1>7 DEF Timeout, Goto
<1>8. ASSUME SignalTerm PROVE PhaseInv'
  BY <1>8 DEF SignalTerm, Goto
<1>9. ASSUME PollDirectChild PROVE PhaseInv'
  BY <1>9 DEF PollDirectChild
<1>10. ASSUME GroupGone PROVE PhaseInv'
  BY <1>10 DEF GroupGone, Goto
<1>11. ASSUME GraceOver PROVE PhaseInv'
  BY <1>11 DEF GraceOver, Goto
<1>12. ASSUME Reaped PROVE PhaseInv'
  BY <1>12 DEF Reaped, Goto
<1>13. ASSUME ReapFails PROVE PhaseInv'
  BY <1>13 DEF ReapFails, Goto
<1>14. ASSUME AbsenceVerified PROVE PhaseInv'
  BY <1>14 DEF AbsenceVerified, AfterCleanup
<1>15. ASSUME GroupRemains PROVE PhaseInv'
  BY <1>15 DEF GroupRemains, AfterCleanup
<1>16. ASSUME NEW s \in Streams, Receive(s) PROVE PhaseInv'
  BY <1>16 DEF Receive, Goto, ReceiveStep, AfterReceive
<1>17. ASSUME NEW s \in Streams, ReceiveTimeout(s) PROVE PhaseInv'
  BY <1>17 DEF ReceiveTimeout, Goto, ReceiveStep, AfterReceive
<1>18. ASSUME CollectAgain PROVE PhaseInv'
  BY <1>18 DEF CollectAgain, Goto
<1>19. ASSUME Finish PROVE PhaseInv'
  BY <1>19 DEF Finish, Goto
<1>20. ASSUME NEW s \in Streams, ReadToEnd(s) PROVE PhaseInv'
  BY <1>20 DEF ReadToEnd
<1>21. ASSUME NEW s \in Streams, ReadUntilHalt(s) PROVE PhaseInv'
  BY <1>21 DEF ReadUntilHalt
<1>22. ASSUME NEW d \in Descendants, Fork(d) PROVE PhaseInv'
  BY <1>22 DEF Fork
<1>23. ASSUME NEW d \in Descendants, LeaveGroup(d) PROVE PhaseInv'
  BY <1>23 DEF LeaveGroup
<1>24. ASSUME NEW p \in Processes, End(p) PROVE PhaseInv'
  BY <1>24 DEF End
<1>25. ASSUME NEW p \in Processes, NEW s \in Streams, ClosePipe(p, s)
      PROVE PhaseInv'
  BY <1>25 DEF ClosePipe
<1>26. ASSUME Signal PROVE PhaseInv'
  BY <1>26 DEF Signal
<1>27. ASSUME Deadline PROVE PhaseInv'
  BY <1>27 DEF Deadline
<1>28. CASE UNCHANGED vars
  BY <1>28 DEF vars
<1>. QED
  BY <1>1, <1>2, <1>3, <1>4, <1>5, <1>6, <1>7, <1>8, <1>9, <1>10, <1>11,
     <1>12, <1>13, <1>14, <1>15, <1>16, <1>17, <1>18, <1>19, <1>20, <1>21,
     <1>22, <1>23, <1>24, <1>25, <1>26, <1>27, <1>28
     DEF Next, Supervise, Read, Workload

\* Nobody who goes on forks: the parent would have to be without a KILL.
LEMMA KillStep ==
  TypeOK /\ KillInv /\ [Next]_vars => KillInv'
<1>. SUFFICES ASSUME TypeOK, KillInv, [Next]_vars
             PROVE  KillInv'
  OBVIOUS
<1>. USE SupervisionConstants DEF TypeOK, KillInv, Running, GroupPresent,
         Streams, Processes, Rounds, processes, capture, demand
<1>1. ASSUME Spawn PROVE KillInv'
  BY <1>1 DEF Spawn, Goto
<1>2. ASSUME Refuse PROVE KillInv'
  BY <1>2 DEF Refuse, Goto
<1>3. ASSUME Check PROVE KillInv'
  BY <1>3 DEF Check
<1>4. ASSUME Exited PROVE KillInv'
  BY <1>4 DEF Exited, Goto
<1>5. ASSUME WaitError PROVE KillInv'
  BY <1>5 DEF WaitError, Goto
<1>6. ASSUME PollAgain PROVE KillInv'
  BY <1>6 DEF PollAgain, Goto
<1>7. ASSUME Timeout PROVE KillInv'
  BY <1>7 DEF Timeout, Goto
<1>8. ASSUME SignalTerm PROVE KillInv'
  BY <1>8 DEF SignalTerm, Goto
<1>9. ASSUME PollDirectChild PROVE KillInv'
  BY <1>9 DEF PollDirectChild
<1>10. ASSUME GroupGone PROVE KillInv'
  BY <1>10 DEF GroupGone, Goto
<1>11. ASSUME GraceOver PROVE KillInv'
  BY <1>11 DEF GraceOver, Goto
<1>12. ASSUME Reaped PROVE KillInv'
  BY <1>12 DEF Reaped, Goto
<1>13. ASSUME ReapFails PROVE KillInv'
  BY <1>13 DEF ReapFails, Goto
<1>14. ASSUME AbsenceVerified PROVE KillInv'
  BY <1>14 DEF AbsenceVerified, AfterCleanup
<1>15. ASSUME GroupRemains PROVE KillInv'
  BY <1>15 DEF GroupRemains, AfterCleanup
<1>16. ASSUME NEW s \in Streams, Receive(s) PROVE KillInv'
  BY <1>16 DEF Receive, Goto, ReceiveStep, AfterReceive
<1>17. ASSUME NEW s \in Streams, ReceiveTimeout(s) PROVE KillInv'
  BY <1>17 DEF ReceiveTimeout, Goto, ReceiveStep, AfterReceive
<1>18. ASSUME CollectAgain PROVE KillInv'
  BY <1>18 DEF CollectAgain, Goto
<1>19. ASSUME Finish PROVE KillInv'
  BY <1>19 DEF Finish, Goto
<1>20. ASSUME NEW s \in Streams, ReadToEnd(s) PROVE KillInv'
  BY <1>20 DEF ReadToEnd
<1>21. ASSUME NEW s \in Streams, ReadUntilHalt(s) PROVE KillInv'
  BY <1>21 DEF ReadUntilHalt
<1>22. ASSUME NEW d \in Descendants, Fork(d) PROVE KillInv'
  BY <1>22 DEF Fork
<1>23. ASSUME NEW d \in Descendants, LeaveGroup(d) PROVE KillInv'
  BY <1>23 DEF LeaveGroup
<1>24. ASSUME NEW p \in Processes, End(p) PROVE KillInv'
  BY <1>24 DEF End
<1>25. ASSUME NEW p \in Processes, NEW s \in Streams, ClosePipe(p, s)
      PROVE KillInv'
  BY <1>25 DEF ClosePipe
<1>26. ASSUME Signal PROVE KillInv'
  BY <1>26 DEF Signal
<1>27. ASSUME Deadline PROVE KillInv'
  BY <1>27 DEF Deadline
<1>28. CASE UNCHANGED vars
  BY <1>28 DEF vars
<1>. QED
  BY <1>1, <1>2, <1>3, <1>4, <1>5, <1>6, <1>7, <1>8, <1>9, <1>10, <1>11,
     <1>12, <1>13, <1>14, <1>15, <1>16, <1>17, <1>18, <1>19, <1>20, <1>21,
     <1>22, <1>23, <1>24, <1>25, <1>26, <1>27, <1>28
     DEF Next, Supervise, Read, Workload

\* A terminated group stays empty, a finished reader finished.
LEMMA CleanStep ==
  TypeOK /\ PhaseInv /\ CleanInv /\ [Next]_vars => CleanInv'
<1>. SUFFICES ASSUME TypeOK, PhaseInv, CleanInv, [Next]_vars
             PROVE  CleanInv'
  OBVIOUS
<1>. USE SupervisionConstants DEF TypeOK, PhaseInv, CleanInv, Terminated,
         Polling, Receiving, Running, GroupPresent, Streams, Processes,
         Rounds, processes, capture, demand
<1>1. ASSUME Spawn PROVE CleanInv'
  BY <1>1 DEF Spawn, Goto
<1>2. ASSUME Refuse PROVE CleanInv'
  BY <1>2 DEF Refuse, Goto
<1>3. ASSUME Check PROVE CleanInv'
  BY <1>3 DEF Check
<1>4. ASSUME Exited PROVE CleanInv'
  BY <1>4 DEF Exited, Goto
<1>5. ASSUME WaitError PROVE CleanInv'
  BY <1>5 DEF WaitError, Goto
<1>6. ASSUME PollAgain PROVE CleanInv'
  BY <1>6 DEF PollAgain, Goto
<1>7. ASSUME Timeout PROVE CleanInv'
  BY <1>7 DEF Timeout, Goto
<1>8. ASSUME SignalTerm PROVE CleanInv'
  BY <1>8 DEF SignalTerm, Goto
<1>9. ASSUME PollDirectChild PROVE CleanInv'
  BY <1>9 DEF PollDirectChild
<1>10. ASSUME GroupGone PROVE CleanInv'
  BY <1>10 DEF GroupGone, Goto
<1>11. ASSUME GraceOver PROVE CleanInv'
  BY <1>11 DEF GraceOver, Goto
<1>12. ASSUME Reaped PROVE CleanInv'
  BY <1>12 DEF Reaped, Goto
<1>13. ASSUME ReapFails PROVE CleanInv'
  BY <1>13 DEF ReapFails, Goto
<1>14. ASSUME AbsenceVerified PROVE CleanInv'
  BY <1>14 DEF AbsenceVerified, AfterCleanup
<1>15. ASSUME GroupRemains PROVE CleanInv'
  BY <1>15 DEF GroupRemains, AfterCleanup
<1>16. ASSUME NEW s \in Streams, Receive(s) PROVE CleanInv'
  BY <1>16 DEF Receive, Goto, ReceiveStep, AfterReceive
<1>17. ASSUME NEW s \in Streams, ReceiveTimeout(s) PROVE CleanInv'
  BY <1>17 DEF ReceiveTimeout, Goto, ReceiveStep, AfterReceive
<1>18. ASSUME CollectAgain PROVE CleanInv'
  BY <1>18 DEF CollectAgain, Goto
<1>19. ASSUME Finish PROVE CleanInv'
  BY <1>19 DEF Finish, Goto
<1>20. ASSUME NEW s \in Streams, ReadToEnd(s) PROVE CleanInv'
  BY <1>20 DEF ReadToEnd
<1>21. ASSUME NEW s \in Streams, ReadUntilHalt(s) PROVE CleanInv'
  BY <1>21 DEF ReadUntilHalt
<1>22. ASSUME NEW d \in Descendants, Fork(d) PROVE CleanInv'
  BY <1>22 DEF Fork
<1>23. ASSUME NEW d \in Descendants, LeaveGroup(d) PROVE CleanInv'
  BY <1>23 DEF LeaveGroup
<1>24. ASSUME NEW p \in Processes, End(p) PROVE CleanInv'
  BY <1>24 DEF End
<1>25. ASSUME NEW p \in Processes, NEW s \in Streams, ClosePipe(p, s)
      PROVE CleanInv'
  BY <1>25 DEF ClosePipe
<1>26. ASSUME Signal PROVE CleanInv'
  BY <1>26 DEF Signal
<1>27. ASSUME Deadline PROVE CleanInv'
  BY <1>27 DEF Deadline
<1>28. CASE UNCHANGED vars
  BY <1>28 DEF vars
<1>. QED
  BY <1>1, <1>2, <1>3, <1>4, <1>5, <1>6, <1>7, <1>8, <1>9, <1>10, <1>11,
     <1>12, <1>13, <1>14, <1>15, <1>16, <1>17, <1>18, <1>19, <1>20, <1>21,
     <1>22, <1>23, <1>24, <1>25, <1>26, <1>27, <1>28
     DEF Next, Supervise, Read, Workload

-----------------------------------------------------------------------------
(* Theorems *)

\* In every behaviour phase, group, KILL and outcome agree.
THEOREM Invariant == Spec => []IInv
<1>1. Init => IInv
  <2>. SUFFICES ASSUME Init PROVE IInv
    OBVIOUS
  <2>1. TypeOK
    <3>1. writers \in [Streams -> SUBSET Processes] /\ reader \in [Streams -> {"none", "reading", "sent"}]
      BY DEF Init
    <3>2. round \in Rounds
      BY DEF Init, Rounds
    <3>3. control \in BOOLEAN /\ late \in BOOLEAN /\ signalled \in BOOLEAN /\ failed \in BOOLEAN /\ halt \in BOOLEAN
      BY DEF Init
    <3>. QED
      BY <3>1, <3>2, <3>3 DEF Init, TypeOK
  <2>2. PhaseInv /\ KillInv
    BY DEF Init, PhaseInv, KillInv, Polling
  <2>3. CleanInv
    BY DEF Init, CleanInv, Terminated, Receiving
  <2>. QED
    BY <2>1, <2>2, <2>3 DEF IInv
<1>2. IInv /\ [Next]_vars => IInv'
  BY TypeStep, PhaseStep, KillStep, CleanStep DEF IInv
<1>. QED
  BY <1>1, <1>2, PTL DEF Spec

\* The variables keep their types: no third round of collecting.
THEOREM TypeCorrect == Spec => []TypeOK
<1>1. IInv => TypeOK
  BY DEF IInv
<1>. QED
  BY <1>1, Invariant, PTL

\* However the command forks, whatever is left after the termination of its
\* group has a KILL pending.
THEOREM SurvivorsKilled == Spec => []SurvivorsAreKilled
<1>1. IInv => SurvivorsAreKilled
  BY DEF IInv, KillInv, SurvivorsAreKilled
<1>. QED
  BY <1>1, Invariant, PTL

\* A clean outcome leaves no group, no child to be reaped and no reader.
THEOREM OutcomeClean == Spec => []OutcomeIsClean
<1>1. IInv => OutcomeIsClean
  BY DEF IInv, TypeOK, PhaseInv, CleanInv, OutcomeIsClean, Terminated, GroupPresent
<1>. QED
  BY <1>1, Invariant, PTL

=============================================================================
