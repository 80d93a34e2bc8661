----------------------- MODULE WorkloadSupervisorProofs -----------------------
(***************************************************************************)
(* Proofs about WorkloadSupervisor for any number of commands, whichever   *)
(* of them may be signalled, killed or denied an answer by the manager.    *)
(***************************************************************************)
EXTENDS WorkloadSupervisor, TLAPS

\* Steps at which the supervisor has the description of the slot open.
Supervising == {"acquired", "wait", "kill", "cleanup", "show", "stop", "verify", "judge"}

\* Steps at which a leader has been started.
Launched == Supervising \ {"acquired"}

\* Whoever supervises a workload or leads it holds the slot.
SlotInv == \A c \in Commands :
  /\ pc[c] \in Supervising => slot = c /\ "supervisor" \in holders
  /\ leader[c] \in Alive => slot = c /\ "leader" \in holders

\* What scope, marker and exit code tell about a leader and its tools.
LeaderInv == \A c \in Commands :
  /\ pc[c] \in {"idle", "queue", "acquired"} => leader[c] = "none"
  /\ pc[c] \in Launched => leader[c] # "none"
  /\ code[c] = "none" <=> leader[c] \in {"none"} \cup Alive
  /\ leader[c] \in {"inside", "admitted"} \/ tools[c] => scope[c] = "active"
  /\ scope[c] = "active" \/ marker[c] => leader[c] \notin {"none", "launching"}
  /\ marker[c] \/ tools[c] => leader[c] \in {"admitted", "exited"}
  /\ leader[c] = "admitted" \/ tools[c] => marker[c] \/ pc[c] = "ended"

\* A verdict goes from the inner command over its exit code to the result.
VerdictInv == \A c \in Commands :
  /\ evaluated[c] => leader[c] = "exited"
  /\ code[c] = "evaluated" /\ marker[c] => evaluated[c]
  /\ result[c] = "evaluated" => code[c] = "evaluated"
  /\ result[c] = "evaluated" /\ pc[c] = "exit" => evaluated[c]
  /\ status[c] = "evaluated" => evaluated[c]

\* A workload that is about to be left has been stopped, or its stop has failed.
StopInv == \A c \in Commands :
  /\ result[c] \notin {"none", "error"} => leader[c] = "exited"
  /\ pc[c] = "cleanup" => leader[c] = "exited" \/ marker[c]
  /\ pc[c] \in {"show", "stop", "verify"} => marker[c]
  /\ pc[c] \in {"judge", "exit", "ended"} /\ (result[c] # "error" \/ c \notin Unreliable) =>
       leader[c] \notin Alive /\ ~tools[c]

\* The part of TypeOK about the slot.
LockType ==
  /\ slot \in Commands \cup {Free}
  /\ holders \subseteq Roles
  /\ slot = Free <=> holders = {}

IInv == TypeOK /\ SlotInv /\ LeaderInv /\ VerdictInv /\ StopInv

-----------------------------------------------------------------------------
(* Every step preserves each part *)

\* Closing a description frees the slot exactly when nobody is left.
LEMMA ClosedType ==
  ASSUME LockType, NEW c \in Commands, NEW roles, Closed(c, roles) \/ UNCHANGED lock
  PROVE  LockType'
  BY SupervisorConstants DEF LockType, Closed, lock

\* The variables keep their types.
LEMMA TypeStep ==
  TypeOK /\ SlotInv /\ LeaderInv /\ [Next]_vars => TypeOK'
<1>. SUFFICES ASSUME TypeOK, SlotInv, LeaderInv, [Next]_vars
             PROVE  TypeOK'
  OBVIOUS
<1>. USE SupervisorConstants DEF TypeOK, LockType, SlotInv, LeaderInv, Supervising, Launched,
         Waiting, Roles, Alive, Codes, Set, lock, workload, verdict
<1>1. ASSUME NEW c \in Commands, Enter(c) PROVE TypeOK'
  BY <1>1 DEF Enter, Goto
<1>2. ASSUME NEW c \in Commands, Acquire(c) PROVE TypeOK'
  BY <1>2 DEF Acquire, Goto
<1>3. ASSUME NEW c \in Commands, GiveUp(c) PROVE TypeOK'
  BY <1>3 DEF GiveUp, Goto
<1>4. ASSUME NEW c \in Commands, Launch(c) PROVE TypeOK'
  BY <1>4 DEF Launch, Goto
<1>5. ASSUME NEW c \in Commands, LaunchFails(c) PROVE TypeOK'
  BY <1>5 DEF LaunchFails, Goto
<1>6. ASSUME NEW c \in Commands, LeaderExited(c) PROVE TypeOK'
  BY <1>6 DEF LeaderExited, Goto
<1>7. ASSUME NEW c \in Commands, Cancel(c) PROVE TypeOK'
  BY <1>7 DEF Cancel, Goto
<1>8. ASSUME NEW c \in Commands, Kill(c) PROVE TypeOK'
  <2>1. Closed(c, {"leader"})
    BY <1>8 DEF Kill, Goto, LeaderDies
  <2>2. LockType'
    BY <2>1, ClosedType
  <2>. QED
    BY <1>8, <2>2 DEF Kill, Goto, LeaderDies
<1>9. ASSUME NEW c \in Commands, Cleanup(c) PROVE TypeOK'
  BY <1>9 DEF Cleanup, Goto
<1>10. ASSUME NEW c \in Commands, Judge(c) PROVE TypeOK'
  BY <1>10 DEF Judge, Goto
<1>11. ASSUME NEW c \in Commands, Exit(c) PROVE TypeOK'
  <2>1. Closed(c, {"supervisor"})
    BY <1>11 DEF Exit
  <2>2. LockType'
    BY <2>1, ClosedType
  <2>3. status' \in [Commands -> {"none", "evaluated", "incomplete", "interrupted"}]
    BY <1>11 DEF Exit
  <2>4. pc' \in [Commands -> {"idle", "ended", "killed"} \cup Waiting]
    BY <1>11 DEF Exit, Goto
  <2>5. marker' \in [Commands -> BOOLEAN]
    BY <1>11 DEF Exit
  <2>6. UNCHANGED <<from, signalled, late, scope, leader, code, tools, evaluated, result>>
    BY <1>11 DEF Exit
  <2>. QED
    BY <2>2, <2>3, <2>4, <2>5, <2>6
<1>12. ASSUME NEW c \in Commands, Show(c) PROVE TypeOK'
  BY <1>12 DEF Show, Stopped
<1>13. ASSUME NEW c \in Commands, Stop(c) PROVE TypeOK'
  <2>1. UNCHANGED lock \/ Closed(c, {"leader", "tools"})
    BY <1>13 DEF Stop, Goto, ScopeKilled, LeaderDies
  <2>2. LockType'
    BY <2>1, ClosedType
  <2>3. CASE scope[c] = "active"
    <3>1. pc' \in [Commands -> {"idle", "ended", "killed"} \cup Waiting]
      BY <1>13 DEF Stop, Goto
    <3>2. UNCHANGED <<from, signalled, late, verdict>>
      BY <1>13 DEF Stop
    <3>3. ScopeKilled(c)
      BY <1>13, <2>3 DEF Stop
    <3>. QED
      BY <2>2, <3>1, <3>2, <3>3 DEF ScopeKilled, LeaderDies
  <2>4. CASE scope[c] # "active"
    BY <1>13, <2>2, <2>4 DEF Stop, Goto, ScopeKilled, LeaderDies
  <2>. QED
    BY <2>3, <2>4
<1>14. ASSUME NEW c \in Commands, ManagerFails(c) PROVE TypeOK'
  BY <1>14 DEF ManagerFails
<1>15. ASSUME NEW c \in Commands, ScopeStarts(c) PROVE TypeOK'
  BY <1>15 DEF ScopeStarts
<1>16. ASSUME NEW c \in Commands, LauncherFails(c) PROVE TypeOK'
  <2>1. Closed(c, {"leader"})
    BY <1>16 DEF LauncherFails, LeaderDies
  <2>2. LockType'
    BY <2>1, ClosedType
  <2>. QED
    BY <1>16, <2>2 DEF LauncherFails, LeaderDies
<1>17. ASSUME NEW c \in Commands, Acknowledge(c) PROVE TypeOK'
  BY <1>17 DEF Acknowledge
<1>18. ASSUME NEW c \in Commands, InnerRefuses(c) PROVE TypeOK'
  <2>1. Closed(c, {"leader"})
    BY <1>18 DEF InnerRefuses, LeaderDies
  <2>2. LockType'
    BY <2>1, ClosedType
  <2>. QED
    BY <1>18, <2>2 DEF InnerRefuses, LeaderDies
<1>19. ASSUME NEW c \in Commands, StartTools(c) PROVE TypeOK'
  BY <1>19 DEF StartTools
<1>20. ASSUME NEW c \in Commands, ToolsLetGo(c) PROVE TypeOK'
  <2>1. Closed(c, {"tools"})
    BY <1>20 DEF ToolsLetGo
  <2>2. LockType'
    BY <2>1, ClosedType
  <2>3. tools' = tools \/ tools' = [tools EXCEPT ![c] = FALSE]
    BY <1>20 DEF ToolsLetGo
  <2>4. tools' \in [Commands -> BOOLEAN]
    <3>1. CASE tools' = tools
      BY <3>1
    <3>2. CASE tools' = [tools EXCEPT ![c] = FALSE]
      BY <3>2
    <3>. QED
      BY <2>3, <3>1, <3>2
  <2>5. UNCHANGED <<pc, from, signalled, late, scope, leader, code, marker, evaluated, verdict>>
    BY <1>20 DEF ToolsLetGo
  <2>. QED
    BY <2>2, <2>4, <2>5
<1>21. ASSUME NEW c \in Commands, LeaderEnds(c) PROVE TypeOK'
  <2>1. Closed(c, {"leader"})
    BY <1>21 DEF LeaderEnds, LeaderDies
  <2>2. LockType'
    BY <2>1, ClosedType
  <2>. QED
    BY <1>21, <2>2 DEF LeaderEnds, LeaderDies
<1>22. ASSUME NEW c \in Commands, Expire(c) PROVE TypeOK'
  <2>1. Closed(c, {"leader", "tools"})
    BY <1>22 DEF Expire, ScopeKilled, LeaderDies
  <2>2. LockType'
    BY <2>1, ClosedType
  <2>. QED
    BY <1>22, <2>2 DEF Expire, ScopeKilled, LeaderDies
<1>23. ASSUME NEW c \in Commands, Collect(c) PROVE TypeOK'
  BY <1>23 DEF Collect
<1>24. ASSUME NEW c \in Commands, Signal(c) PROVE TypeOK'
  BY <1>24 DEF Signal
<1>25. ASSUME NEW c \in Commands, RunsLong(c) PROVE TypeOK'
  BY <1>25 DEF RunsLong
<1>26. ASSUME NEW c \in Commands, SupervisorKilled(c) PROVE TypeOK'
  <2>1. Closed(c, {"supervisor"})
    BY <1>26 DEF SupervisorKilled
  <2>2. LockType'
    BY <2>1, ClosedType
  <2>. QED
    BY <1>26, <2>2 DEF SupervisorKilled
<1>27. CASE UNCHANGED vars
  BY <1>27 DEF vars
<1>. QED
  BY <1>1, <1>2, <1>3, <1>4, <1>5, <1>6, <1>7, <1>8, <1>9, <1>10, <1>11,
     <1>12, <1>13, <1>14, <1>15, <1>16, <1>17, <1>18, <1>19, <1>20, <1>21,
     <1>22, <1>23, <1>24, <1>25, <1>26, <1>27
     DEF Next, Supervise, Workload, Launcher

\* The slot stays with a workload until its last holder is gone.
LEMMA SlotStep ==
  TypeOK /\ SlotInv /\ LeaderInv /\ [Next]_vars => SlotInv'
<1>. SUFFICES ASSUME TypeOK, SlotInv, LeaderInv, [Next]_vars
             PROVE  SlotInv'
  OBVIOUS
<1>. USE SupervisorConstants DEF TypeOK, LockType, SlotInv, LeaderInv, Supervising, Launched, Waiting, Roles, Alive,
         Codes, Set, lock, workload, verdict
<1>1. ASSUME NEW c \in Commands, Enter(c) PROVE SlotInv'
  BY <1>1 DEF Enter, Goto
<1>2. ASSUME NEW c \in Commands, Acquire(c) PROVE SlotInv'
  BY <1>2 DEF Acquire, Goto
<1>3. ASSUME NEW c \in Commands, GiveUp(c) PROVE SlotInv'
  BY <1>3 DEF GiveUp, Goto
<1>4. ASSUME NEW c \in Commands, Launch(c) PROVE SlotInv'
  BY <1>4 DEF Launch, Goto
<1>5. ASSUME NEW c \in Commands, LaunchFails(c) PROVE SlotInv'
  BY <1>5 DEF LaunchFails, Goto
<1>6. ASSUME NEW c \in Commands, LeaderExited(c) PROVE SlotInv'
  BY <1>6 DEF LeaderExited, Goto
<1>7. ASSUME NEW c \in Commands, Cancel(c) PROVE SlotInv'
  BY <1>7 DEF Cancel, Goto
<1>8. ASSUME NEW c \in Commands, Kill(c) PROVE SlotInv'
  BY <1>8 DEF Kill, Goto, LeaderDies, Closed
<1>9. ASSUME NEW c \in Commands, Cleanup(c) PROVE SlotInv'
  BY <1>9 DEF Cleanup, Goto
<1>10. ASSUME NEW c \in Commands, Judge(c) PROVE SlotInv'
  BY <1>10 DEF Judge, Goto
<1>11. ASSUME NEW c \in Commands, Exit(c) PROVE SlotInv'
  BY <1>11 DEF Exit, Goto, Closed
<1>12. ASSUME NEW c \in Commands, Show(c) PROVE SlotInv'
  BY <1>12 DEF Show, Stopped
<1>13. ASSUME NEW c \in Commands, Stop(c) PROVE SlotInv'
  BY <1>13 DEF Stop, Goto, ScopeKilled, LeaderDies, Closed
<1>14. ASSUME NEW c \in Commands, ManagerFails(c) PROVE SlotInv'
  BY <1>14 DEF ManagerFails
<1>15. ASSUME NEW c \in Commands, ScopeStarts(c) PROVE SlotInv'
  BY <1>15 DEF ScopeStarts
<1>16. ASSUME NEW c \in Commands, LauncherFails(c) PROVE SlotInv'
  BY <1>16 DEF LauncherFails, LeaderDies, Closed
<1>17. ASSUME NEW c \in Commands, Acknowledge(c) PROVE SlotInv'
  BY <1>17 DEF Acknowledge
<1>18. ASSUME NEW c \in Commands, InnerRefuses(c) PROVE SlotInv'
  BY <1>18 DEF InnerRefuses, LeaderDies, Closed
<1>19. ASSUME NEW c \in Commands, StartTools(c) PROVE SlotInv'
  BY <1>19 DEF StartTools
<1>20. ASSUME NEW c \in Commands, ToolsLetGo(c) PROVE SlotInv'
  BY <1>20 DEF ToolsLetGo, Closed
<1>21. ASSUME NEW c \in Commands, LeaderEnds(c) PROVE SlotInv'
  BY <1>21 DEF LeaderEnds, LeaderDies, Closed
<1>22. ASSUME NEW c \in Commands, Expire(c) PROVE SlotInv'
  BY <1>22 DEF Expire, ScopeKilled, LeaderDies, Closed
<1>23. ASSUME NEW c \in Commands, Collect(c) PROVE SlotInv'
  BY <1>23 DEF Collect
<1>24. ASSUME NEW c \in Commands, Signal(c) PROVE SlotInv'
  BY <1>24 DEF Signal
<1>25. ASSUME NEW c \in Commands, RunsLong(c) PROVE SlotInv'
  BY <1>25 DEF RunsLong
<1>26. ASSUME NEW c \in Commands, SupervisorKilled(c) PROVE SlotInv'
  BY <1>26 DEF SupervisorKilled, Closed
<1>27. CASE UNCHANGED vars
  BY <1>27 DEF vars
<1>. QED
  BY <1>1, <1>2, <1>3, <1>4, <1>5, <1>6, <1>7, <1>8, <1>9, <1>10, <1>11,
     <1>12, <1>13, <1>14, <1>15, <1>16, <1>17, <1>18, <1>19, <1>20, <1>21,
     <1>22, <1>23, <1>24, <1>25, <1>26, <1>27
     DEF Next, Supervise, Workload, Launcher

\* Scope, marker and exit code follow the leader.
LEMMA LeaderStep ==
  TypeOK /\ LeaderInv /\ [Next]_vars => LeaderInv'
<1>. SUFFICES ASSUME TypeOK, LeaderInv, [Next]_vars
             PROVE  LeaderInv'
  OBVIOUS
<1>. USE SupervisorConstants DEF TypeOK, LeaderInv, Supervising, Launched, Waiting, Alive, Codes,
         Set, lock, workload, verdict
<1>1. ASSUME NEW c \in Commands, Enter(c) PROVE LeaderInv'
  BY <1>1 DEF Enter, Goto
<1>2. ASSUME NEW c \in Commands, Acquire(c) PROVE LeaderInv'
  BY <1>2 DEF Acquire, Goto
<1>3. ASSUME NEW c \in Commands, GiveUp(c) PROVE LeaderInv'
  BY <1>3 DEF GiveUp, Goto
<1>4. ASSUME NEW c \in Commands, Launch(c) PROVE LeaderInv'
  BY <1>4 DEF Launch, Goto
<1>5. ASSUME NEW c \in Commands, LaunchFails(c) PROVE LeaderInv'
  BY <1>5 DEF LaunchFails, Goto
<1>6. ASSUME NEW c \in Commands, LeaderExited(c) PROVE LeaderInv'
  BY <1>6 DEF LeaderExited, Goto
<1>7. ASSUME NEW c \in Commands, Cancel(c) PROVE LeaderInv'
  BY <1>7 DEF Cancel, Goto
<1>8. ASSUME NEW c \in Commands, Kill(c) PROVE LeaderInv'
  BY <1>8 DEF Kill, Goto, LeaderDies, Closed
<1>9. ASSUME NEW c \in Commands, Cleanup(c) PROVE LeaderInv'
  BY <1>9 DEF Cleanup, Goto
<1>10. ASSUME NEW c \in Commands, Judge(c) PROVE LeaderInv'
  BY <1>10 DEF Judge, Goto
<1>11. ASSUME NEW c \in Commands, Exit(c) PROVE LeaderInv'
  BY <1>11 DEF Exit, Goto, Closed
<1>12. ASSUME NEW c \in Commands, Show(c) PROVE LeaderInv'
  BY <1>12 DEF Show, Stopped
<1>13. ASSUME NEW c \in Commands, Stop(c) PROVE LeaderInv'
  BY <1>13 DEF Stop, Goto, ScopeKilled, LeaderDies, Closed
<1>14. ASSUME NEW c \in Commands, ManagerFails(c) PROVE LeaderInv'
  BY <1>14 DEF ManagerFails
<1>15. ASSUME NEW c \in Commands, ScopeStarts(c) PROVE LeaderInv'
  BY <1>15 DEF ScopeStarts
<1>16. ASSUME NEW c \in Commands, LauncherFails(c) PROVE LeaderInv'
  BY <1>16 DEF LauncherFails, LeaderDies, Closed
<1>17. ASSUME NEW c \in Commands, Acknowledge(c) PROVE LeaderInv'
  BY <1>17 DEF Acknowledge
<1>18. ASSUME NEW c \in Commands, InnerRefuses(c) PROVE LeaderInv'
  BY <1>18 DEF InnerRefuses, LeaderDies, Closed
<1>19. ASSUME NEW c \in Commands, StartTools(c) PROVE LeaderInv'
  BY <1>19 DEF StartTools
<1>20. ASSUME NEW c \in Commands, ToolsLetGo(c) PROVE LeaderInv'
  BY <1>20 DEF ToolsLetGo, Closed
<1>21. ASSUME NEW c \in Commands, LeaderEnds(c) PROVE LeaderInv'
  BY <1>21 DEF LeaderEnds, LeaderDies, Closed
<1>22. ASSUME NEW c \in Commands, Expire(c) PROVE LeaderInv'
  BY <1>22 DEF Expire, ScopeKilled, LeaderDies, Closed
<1>23. ASSUME NEW c \in Commands, Collect(c) PROVE LeaderInv'
  BY <1>23 DEF Collect
<1>24. ASSUME NEW c \in Commands, Signal(c) PROVE LeaderInv'
  BY <1>24 DEF Signal
<1>25. ASSUME NEW c \in Commands, RunsLong(c) PROVE LeaderInv'
  BY <1>25 DEF RunsLong
<1>26. ASSUME NEW c \in Commands, SupervisorKilled(c) PROVE LeaderInv'
  BY <1>26 DEF SupervisorKilled, Closed
<1>27. CASE UNCHANGED vars
  BY <1>27 DEF vars
<1>. QED
  BY <1>1, <1>2, <1>3, <1>4, <1>5, <1>6, <1>7, <1>8, <1>9, <1>10, <1>11,
     <1>12, <1>13, <1>14, <1>15, <1>16, <1>17, <1>18, <1>19, <1>20, <1>21,
     <1>22, <1>23, <1>24, <1>25, <1>26, <1>27
     DEF Next, Supervise, Workload, Launcher

\* Nothing but the inner command makes a verdict.
LEMMA VerdictStep ==
  TypeOK /\ LeaderInv /\ VerdictInv /\ [Next]_vars => VerdictInv'
<1>. SUFFICES ASSUME TypeOK, LeaderInv, VerdictInv, [Next]_vars
             PROVE  VerdictInv'
  OBVIOUS
<1>. USE SupervisorConstants DEF TypeOK, LeaderInv, VerdictInv, Supervising, Launched, Waiting, Alive,
         Codes, Set, lock, workload, verdict
<1>1. ASSUME NEW c \in Commands, Enter(c) PROVE VerdictInv'
  BY <1>1 DEF Enter, Goto
<1>2. ASSUME NEW c \in Commands, Acquire(c) PROVE VerdictInv'
  BY <1>2 DEF Acquire, Goto
<1>3. ASSUME NEW c \in Commands, GiveUp(c) PROVE VerdictInv'
  BY <1>3 DEF GiveUp, Goto
<1>4. ASSUME NEW c \in Commands, Launch(c) PROVE VerdictInv'
  BY <1>4 DEF Launch, Goto
<1>5. ASSUME NEW c \in Commands, LaunchFails(c) PROVE VerdictInv'
  BY <1>5 DEF LaunchFails, Goto
<1>6. ASSUME NEW c \in Commands, LeaderExited(c) PROVE VerdictInv'
  BY <1>6 DEF LeaderExited, Goto
<1>7. ASSUME NEW c \in Commands, Cancel(c) PROVE VerdictInv'
  BY <1>7 DEF Cancel, Goto
<1>8. ASSUME NEW c \in Commands, Kill(c) PROVE VerdictInv'
  BY <1>8 DEF Kill, Goto, LeaderDies, Closed
<1>9. ASSUME NEW c \in Commands, Cleanup(c) PROVE VerdictInv'
  BY <1>9 DEF Cleanup, Goto
<1>10. ASSUME NEW c \in Commands, Judge(c) PROVE VerdictInv'
  BY <1>10 DEF Judge, Goto
<1>11. ASSUME NEW c \in Commands, Exit(c) PROVE VerdictInv'
  BY <1>11 DEF Exit, Goto, Closed
<1>12. ASSUME NEW c \in Commands, Show(c) PROVE VerdictInv'
  BY <1>12 DEF Show, Stopped
<1>13. ASSUME NEW c \in Commands, Stop(c) PROVE VerdictInv'
  BY <1>13 DEF Stop, Goto, ScopeKilled, LeaderDies, Closed
<1>14. ASSUME NEW c \in Commands, ManagerFails(c) PROVE VerdictInv'
  BY <1>14 DEF ManagerFails
<1>15. ASSUME NEW c \in Commands, ScopeStarts(c) PROVE VerdictInv'
  BY <1>15 DEF ScopeStarts
<1>16. ASSUME NEW c \in Commands, LauncherFails(c) PROVE VerdictInv'
  BY <1>16 DEF LauncherFails, LeaderDies, Closed
<1>17. ASSUME NEW c \in Commands, Acknowledge(c) PROVE VerdictInv'
  BY <1>17 DEF Acknowledge
<1>18. ASSUME NEW c \in Commands, InnerRefuses(c) PROVE VerdictInv'
  BY <1>18 DEF InnerRefuses, LeaderDies, Closed
<1>19. ASSUME NEW c \in Commands, StartTools(c) PROVE VerdictInv'
  BY <1>19 DEF StartTools
<1>20. ASSUME NEW c \in Commands, ToolsLetGo(c) PROVE VerdictInv'
  BY <1>20 DEF ToolsLetGo, Closed
<1>21. ASSUME NEW c \in Commands, LeaderEnds(c) PROVE VerdictInv'
  BY <1>21 DEF LeaderEnds, LeaderDies, Closed
<1>22. ASSUME NEW c \in Commands, Expire(c) PROVE VerdictInv'
  BY <1>22 DEF Expire, ScopeKilled, LeaderDies, Closed
<1>23. ASSUME NEW c \in Commands, Collect(c) PROVE VerdictInv'
  BY <1>23 DEF Collect
<1>24. ASSUME NEW c \in Commands, Signal(c) PROVE VerdictInv'
  BY <1>24 DEF Signal
<1>25. ASSUME NEW c \in Commands, RunsLong(c) PROVE VerdictInv'
  BY <1>25 DEF RunsLong
<1>26. ASSUME NEW c \in Commands, SupervisorKilled(c) PROVE VerdictInv'
  BY <1>26 DEF SupervisorKilled, Closed
<1>27. CASE UNCHANGED vars
  BY <1>27 DEF vars
<1>. QED
  BY <1>1, <1>2, <1>3, <1>4, <1>5, <1>6, <1>7, <1>8, <1>9, <1>10, <1>11,
     <1>12, <1>13, <1>14, <1>15, <1>16, <1>17, <1>18, <1>19, <1>20, <1>21,
     <1>22, <1>23, <1>24, <1>25, <1>26, <1>27
     DEF Next, Supervise, Workload, Launcher

\* No way to the exit leads past a workload that goes on.
LEMMA StopStep ==
  TypeOK /\ LeaderInv /\ StopInv /\ [Next]_vars => StopInv'
<1>. SUFFICES ASSUME TypeOK, LeaderInv, StopInv, [Next]_vars
             PROVE  StopInv'
  OBVIOUS
<1>. USE SupervisorConstants DEF TypeOK, LeaderInv, StopInv, Supervising, Launched, Waiting, Alive, Codes,
         Set, lock, workload, verdict
<1>1. ASSUME NEW c \in Commands, Enter(c) PROVE StopInv'
  BY <1>1 DEF Enter, Goto
<1>2. ASSUME NEW c \in Commands, Acquire(c) PROVE StopInv'
  BY <1>2 DEF Acquire, Goto
<1>3. ASSUME NEW c \in Commands, GiveUp(c) PROVE StopInv'
  BY <1>3 DEF GiveUp, Goto
<1>4. ASSUME NEW c \in Commands, Launch(c) PROVE StopInv'
  BY <1>4 DEF Launch, Goto
<1>5. ASSUME NEW c \in Commands, LaunchFails(c) PROVE StopInv'
  BY <1>5 DEF LaunchFails, Goto
<1>6. ASSUME NEW c \in Commands, LeaderExited(c) PROVE StopInv'
  BY <1>6 DEF LeaderExited, Goto
<1>7. ASSUME NEW c \in Commands, Cancel(c) PROVE StopInv'
  BY <1>7 DEF Cancel, Goto
<1>8. ASSUME NEW c \in Commands, Kill(c) PROVE StopInv'
  BY <1>8 DEF Kill, Goto, LeaderDies, Closed
<1>9. ASSUME NEW c \in Commands, Cleanup(c) PROVE StopInv'
  BY <1>9 DEF Cleanup, Goto
<1>10. ASSUME NEW c \in Commands, Judge(c) PROVE StopInv'
  BY <1>10 DEF Judge, Goto
<1>11. ASSUME NEW c \in Commands, Exit(c) PROVE StopInv'
  BY <1>11 DEF Exit, Goto, Closed
<1>12. ASSUME NEW c \in Commands, Show(c) PROVE StopInv'
  BY <1>12 DEF Show, Stopped
<1>13. ASSUME NEW c \in Commands, Stop(c) PROVE StopInv'
  BY <1>13 DEF Stop, Goto, ScopeKilled, LeaderDies, Closed
<1>14. ASSUME NEW c \in Commands, ManagerFails(c) PROVE StopInv'
  BY <1>14 DEF ManagerFails
<1>15. ASSUME NEW c \in Commands, ScopeStarts(c) PROVE StopInv'
  BY <1>15 DEF ScopeStarts
<1>16. ASSUME NEW c \in Commands, LauncherFails(c) PROVE StopInv'
  BY <1>16 DEF LauncherFails, LeaderDies, Closed
<1>17. ASSUME NEW c \in Commands, Acknowledge(c) PROVE StopInv'
  BY <1>17 DEF Acknowledge
<1>18. ASSUME NEW c \in Commands, InnerRefuses(c) PROVE StopInv'
  BY <1>18 DEF InnerRefuses, LeaderDies, Closed
<1>19. ASSUME NEW c \in Commands, StartTools(c) PROVE StopInv'
  BY <1>19 DEF StartTools
<1>20. ASSUME NEW c \in Commands, ToolsLetGo(c) PROVE StopInv'
  BY <1>20 DEF ToolsLetGo, Closed
<1>21. ASSUME NEW c \in Commands, LeaderEnds(c) PROVE StopInv'
  BY <1>21 DEF LeaderEnds, LeaderDies, Closed
<1>22. ASSUME NEW c \in Commands, Expire(c) PROVE StopInv'
  BY <1>22 DEF Expire, ScopeKilled, LeaderDies, Closed
<1>23. ASSUME NEW c \in Commands, Collect(c) PROVE StopInv'
  BY <1>23 DEF Collect
<1>24. ASSUME NEW c \in Commands, Signal(c) PROVE StopInv'
  BY <1>24 DEF Signal
<1>25. ASSUME NEW c \in Commands, RunsLong(c) PROVE StopInv'
  BY <1>25 DEF RunsLong
<1>26. ASSUME NEW c \in Commands, SupervisorKilled(c) PROVE StopInv'
  BY <1>26 DEF SupervisorKilled, Closed
<1>27. CASE UNCHANGED vars
  BY <1>27 DEF vars
<1>. QED
  BY <1>1, <1>2, <1>3, <1>4, <1>5, <1>6, <1>7, <1>8, <1>9, <1>10, <1>11,
     <1>12, <1>13, <1>14, <1>15, <1>16, <1>17, <1>18, <1>19, <1>20, <1>21,
     <1>22, <1>23, <1>24, <1>25, <1>26, <1>27
     DEF Next, Supervise, Workload, Launcher

-----------------------------------------------------------------------------
(* Theorems *)

\* In every behaviour each command's place, leader, scope, marker and result
\* agree.
THEOREM Invariant == Spec => []IInv
<1>1. Init => IInv
  BY SupervisorConstants DEF Init, IInv, TypeOK, SlotInv, LeaderInv, VerdictInv, StopInv,
     Supervising, Launched, Alive
<1>2. IInv /\ [Next]_vars => IInv'
  BY TypeStep, SlotStep, LeaderStep, VerdictStep, StopStep DEF IInv
<1>. QED
  BY <1>1, <1>2, PTL DEF Spec

\* The variables keep their types, and a held slot is held by somebody.
THEOREM TypeCorrect == Spec => []TypeOK
<1>1. IInv => TypeOK
  BY DEF IInv
<1>. QED
  BY <1>1, Invariant, PTL

\* Never two live leaders, although supervisors are killed and their workloads
\* go on: the leader holds the slot itself.
THEOREM WorkloadsExclusive == Spec => []LeadersExclusive
<1>1. IInv => LeadersExclusive
  BY DEF IInv, SlotInv, LeadersExclusive
<1>. QED
  BY <1>1, Invariant, PTL

\* Exit status 0 or 1 comes from an evaluation of the inner command.
THEOREM VerdictEvaluated == Spec => []VerdictIsEvaluated
<1>1. IInv => VerdictIsEvaluated
  BY DEF IInv, VerdictInv, VerdictIsEvaluated
<1>. QED
  BY <1>1, Invariant, PTL

\* A passed on exit status leaves neither leader nor tools, whatever the manager
\* answers.
THEOREM ReturnStops == Spec => []ReturnedMeansStopped
<1>1. IInv => ReturnedMeansStopped
  BY DEF IInv, StopInv, ReturnedMeansStopped
<1>. QED
  BY <1>1, Invariant, PTL

\* With a manager that answers, a cancelled or failed supervisor leaves nothing
\* either, tools started between marker and kill included.
THEOREM CancellationLeavesNothing == Spec => []CancellationStops
<1>1. IInv => CancellationStops
  BY DEF IInv, StopInv, CancellationStops
<1>. QED
  BY <1>1, Invariant, PTL

=============================================================================
