-------------------------- MODULE ManagedMutationProofs --------------------------
(***************************************************************************)
(* Proofs about ManagedMutation for any number of invocations, any of them *)
(* with an owner that is killed or a manager that fails.                   *)
(***************************************************************************)
EXTENDS ManagedMutation, TLAPS

Fresh     == {"idle", "prepare", "spawn"}
Polling   == {"poll", "inspect", "pin", "start", "check"}
Returning == {"stop", "stop_pin", "stop_unit", "stopping", "collect",
              "release"} \cup KillSteps
Ended     == {"done", "crashed"}

\* The direct child is no more.
Dead(r) == child[r] \in {"zombie", "reaped"}
\* Neither it nor what it forked is left.
Gone(r) == Dead(r) /\ ~rest[r]

\* The lease is held exactly by the one owner that works.
LeaseInv == \A r \in Runs : lease = r <=> pc[r] \notin {"idle"} \cup Ended

\* The wait, the attempt and the ownership of an owner at each of its steps.
PhaseInv ==
  \A r \in Runs :
    /\ pc[r] \in Fresh => child[r] = "none" /\ ~marker[r] /\ ~invocation[r]
    /\ pc[r] \in Fresh => pinned[r] = None
    /\ pc[r] \in Fresh \cup Polling => owned[r] /\ attempt[r] = 1
    /\ pc[r] \in {"terminate", "reap", "finish"} => attempt[r] = 1 /\ wait[r] # "none"
    /\ pc[r] \in Returning => wait[r] # "none"
    /\ pc[r] = "release" => attempt[r] = 2

\* Processes are in the scope of the unit name only, and a scope that was
\* active has been joined.
UnitInv ==
  /\ \A r \in Runs : child[r] = "joining" \/ Populated(r) => unit = r
  /\ active => unit # None
  /\ unit # None => child[unit] \notin {"none", "launcher"}
  /\ active => child[unit] # "joining"

\* What an owner has pinned is its own scope, or it has none any more; its
\* target has waited for that.
PinInv ==
  \A r \in Runs :
    /\ invocation[r] => child[r] \notin {"none", "launcher"}
    /\ pc[r] \in {"pin", "stop_pin"} => invocation[r]
    /\ pinned[r] = r => child[r] \notin {"none", "launcher", "joining"}
    /\ pinned[r] \notin {r, None} => Gone(r)
    /\ pc[r] \notin Ended /\ marker[r] => pinned[r] # None /\ invocation[r]
    /\ pc[r] \notin Ended /\ (child[r] \in {"target", "reporting"} \/ rest[r])
         => marker[r]

\* A clean report is the last thing of its scope, and so is what follows of it.
ReportInv ==
  \A r \in Runs :
    /\ report[r] # "none" => Dead(r)
    /\ report[r] = "clean" => Gone(r) /\ ~hit[r]
    /\ wait[r] = "exited" => Gone(r) /\ ~hit[r]
    /\ outcome[r] = "completed" => Gone(r) /\ ~hit[r]

\* The scope is given up only when the target can no longer start in it, and
\* the second stop finds a child that is dead or killed.
StopInv ==
  \A r \in Runs :
    /\ pc[r] \notin Ended /\ ~owned[r] => ~rest[r] /\ (marker[r] => Dead(r))
    /\ attempt[r] = 2 \/ pc[r] \in {"reap", "finish"} => (ChildLives(r) => gkilled[r])
    /\ pc[r] \in {"release", "done"} => Doomed(r)

\* The unit name belongs to the owner that has prepared it, to nobody, or to
\* the late launcher of an owner that was killed; so does what is pinned.
ForeignInv ==
  \A r \in Runs :
    /\ pc[r] \notin {"idle", "prepare"} \cup Ended /\ unit \notin {r, None}
         => pc[unit] = "crashed"
    /\ pinned[r] \notin {r, None} => pc[pinned[r]] = "crashed"
    /\ pc[r] # "crashed" => killers[r] \subseteq {r, "manager"}

IInv == /\ TypeOK /\ LeaseInv /\ PhaseInv /\ UnitInv /\ PinInv /\ ReportInv
        /\ StopInv /\ ForeignInv

-----------------------------------------------------------------------------
(* Every step preserves each part *)

\* Where a stop of the scope returns to is a step, and its error a wait.
LEMMA ReturnedTypes ==
  ASSUME TypeOK, NEW r \in Runs, NEW from, NEW ok \in BOOLEAN, Returned(r, from, ok)
  PROVE  /\ \E s \in {"release", "finish", "terminate"} : pc' = [pc EXCEPT ![r] = s]
         /\ wait' = wait \/ wait' = [wait EXCEPT ![r] = "error"]
<1>. wait = [wait EXCEPT ![r] = wait[r]]
  BY DEF TypeOK
<1>. QED
  BY DEF Returned, Goto

\* The variables keep their types.
LEMMA TypeStep ==
  TypeOK /\ PhaseInv /\ [Next]_vars => TypeOK'
<1>. SUFFICES ASSUME TypeOK, PhaseInv, [Next]_vars
             PROVE  TypeOK'
  OBVIOUS
<1>. USE ManagedConstants DEF TypeOK, PhaseInv, Fresh, Polling, Returning,
         Ended, KillSteps, InScope, Attempts, manager, progress, handle,
         scope, kills
<1>1. ASSUME NEW r \in Runs, Acquire(r) PROVE TypeOK'
  BY <1>1 DEF Acquire, Goto
<1>2. ASSUME NEW r \in Runs, Refuse(r) PROVE TypeOK'
  BY <1>2 DEF Refuse, Goto
<1>3. ASSUME NEW r \in Runs, Prepare(r) PROVE TypeOK'
  BY <1>3 DEF Prepare, Goto
<1>4. ASSUME NEW r \in Runs, Spawn(r) PROVE TypeOK'
  BY <1>4 DEF Spawn, Goto
<1>5. ASSUME NEW r \in Runs, SpawnFails(r) PROVE TypeOK'
  BY <1>5 DEF SpawnFails, StopWith, Goto
<1>6. ASSUME NEW r \in Runs, Pressure(r) PROVE TypeOK'
  BY <1>6 DEF Pressure, StopWith, Goto
<1>7. ASSUME NEW r \in Runs, ChildExited(r) PROVE TypeOK'
  BY <1>7 DEF ChildExited, StopWith, Goto, Verified
<1>8. ASSUME NEW r \in Runs, ChildRuns(r) PROVE TypeOK'
  BY <1>8 DEF ChildRuns, Goto
<1>9. ASSUME NEW r \in Runs, Inspect(r) PROVE TypeOK'
  <2>1. CASE unit = None /\ Goto(r, "inspect", "start") /\ UNCHANGED <<wait, invocation>>
    BY <1>9, <2>1 DEF Inspect, Goto
  <2>2. CASE /\ unit = r /\ Goto(r, "inspect", IF PathExists THEN "pin" ELSE "start")
             /\ invocation' = [invocation EXCEPT ![r] = TRUE]
             /\ UNCHANGED wait
    <3>1. pc' \in {[pc EXCEPT ![r] = "pin"], [pc EXCEPT ![r] = "start"]}
      BY <2>2, Zenon DEF Goto
    <3>. QED
      BY <1>9, <2>2, <3>1 DEF Inspect
  <2>3. CASE StopWith(r, "inspect", "error") /\ UNCHANGED invocation
    BY <1>9, <2>3 DEF Inspect, StopWith, Goto
  <2>. QED
    BY <1>9, <2>1, <2>2, <2>3 DEF Inspect
<1>10. ASSUME NEW r \in Runs, Pin(r) PROVE TypeOK'
  BY <1>10 DEF Pin, Goto, PinStep
<1>11. ASSUME NEW r \in Runs, Start(r) PROVE TypeOK'
  BY <1>11 DEF Start, Goto
<1>12. ASSUME NEW r \in Runs, StartFails(r) PROVE TypeOK'
  BY <1>12 DEF StartFails, StopWith, Goto
<1>13. ASSUME NEW r \in Runs, CheckLive(r) PROVE TypeOK'
  BY <1>13 DEF CheckLive, StopWith, Goto
<1>14. ASSUME NEW r \in Runs, TimedOut(r) PROVE TypeOK'
  BY <1>14 DEF TimedOut, StopWith, Goto
<1>15. ASSUME NEW r \in Runs, NotOwned(r) PROVE TypeOK'
  BY <1>15 DEF NotOwned, Returned, Goto
<1>16. ASSUME NEW r \in Runs, Stop(r) PROVE TypeOK'
  <2>1. CASE unit = None /\ Goto(r, "stop", "kill_last") /\ UNCHANGED invocation
    BY <1>16, <2>1 DEF Stop, Goto
  <2>2. CASE /\ unit = r /\ Goto(r, "stop", IF PathExists THEN "stop_pin" ELSE "stop_unit")
             /\ invocation' = [invocation EXCEPT ![r] = TRUE]
    <3>1. pc' \in {[pc EXCEPT ![r] = "stop_pin"], [pc EXCEPT ![r] = "stop_unit"]}
      BY <2>2, Zenon DEF Goto
    <3>. QED
      BY <1>16, <2>2, <3>1 DEF Stop
  <2>3. CASE Goto(r, "stop", "rescue") /\ UNCHANGED invocation
    BY <1>16, <2>3 DEF Stop, Goto
  <2>. QED
    BY <1>16, <2>1, <2>2, <2>3 DEF Stop
<1>17. ASSUME NEW r \in Runs, StopUnit(r) PROVE TypeOK'
  BY <1>17 DEF StopUnit, Goto, KillScope
<1>18. ASSUME NEW r \in Runs, UnitStopped(r) PROVE TypeOK'
  BY <1>18 DEF UnitStopped, Goto
<1>19. ASSUME NEW r \in Runs, StopTimesOut(r) PROVE TypeOK'
  BY <1>19 DEF StopTimesOut, Goto
<1>20. ASSUME NEW r \in Runs, Collected(r) PROVE TypeOK'
  BY <1>20 DEF Collected, Returned, Goto
<1>21. ASSUME NEW r \in Runs, NotCollected(r) PROVE TypeOK'
  BY <1>21 DEF NotCollected, Goto
<1>22. ASSUME NEW r \in Runs, ManagerFails(r) PROVE TypeOK'
  BY <1>22 DEF ManagerFails, Goto
<1>23. ASSUME NEW r \in Runs, KillPinned(r) PROVE TypeOK'
  BY <1>23 DEF KillPinned, KillScope, PinnedPopulated
<1>24. ASSUME NEW r \in Runs, PinnedEmpty(r) PROVE TypeOK'
  <2>1. CASE Goto(r, "kill", "collect") /\ UNCHANGED <<wait, owned>>
    BY <1>24, <2>1 DEF PinnedEmpty, Goto
  <2>2. CASE /\ Returned(r, "kill_last", TRUE)
             /\ owned' = [owned EXCEPT ![r] = FALSE]
    <3>1. PICK s \in {"release", "finish", "terminate"} : pc' = [pc EXCEPT ![r] = s]
      BY <2>2, ReturnedTypes
    <3>2. wait' = wait \/ wait' = [wait EXCEPT ![r] = "error"]
      BY <2>2, ReturnedTypes
    <3>. QED
      BY <1>24, <2>2, <3>1, <3>2 DEF PinnedEmpty
  <2>3. CASE /\ Returned(r, "rescue", FALSE)
             /\ owned' = [owned EXCEPT ![r] = pinned[r] = None]
    <3>1. (pinned[r] = None) \in BOOLEAN
      OBVIOUS
    <3>2. owned' \in [Runs -> BOOLEAN]
      BY <2>3, <3>1
    <3>3. PICK s \in {"release", "finish", "terminate"} : pc' = [pc EXCEPT ![r] = s]
      BY <2>3, ReturnedTypes
    <3>4. wait' = wait \/ wait' = [wait EXCEPT ![r] = "error"]
      BY <2>3, ReturnedTypes
    <3>. QED
      BY <1>24, <3>2, <3>3, <3>4 DEF PinnedEmpty
  <2>. QED
    BY <1>24, <2>1, <2>2, <2>3 DEF PinnedEmpty
<1>25. ASSUME NEW r \in Runs, PinnedRemains(r) PROVE TypeOK'
  <2>1. CASE UNCHANGED wait /\ (Goto(r, "kill", "rescue") \/ Goto(r, "kill_last", "rescue"))
    BY <1>25, <2>1 DEF PinnedRemains, Goto
  <2>2. CASE Returned(r, "rescue", FALSE)
    <3>1. PICK s \in {"release", "finish", "terminate"} : pc' = [pc EXCEPT ![r] = s]
      BY <2>2, ReturnedTypes
    <3>2. wait' = wait \/ wait' = [wait EXCEPT ![r] = "error"]
      BY <2>2, ReturnedTypes
    <3>. QED
      BY <1>25, <3>1, <3>2 DEF PinnedRemains
  <2>. QED
    BY <1>25, <2>1, <2>2 DEF PinnedRemains
<1>26. ASSUME NEW r \in Runs, Terminate(r) PROVE TypeOK'
  BY <1>26 DEF Terminate, Goto
<1>27. ASSUME NEW r \in Runs, Reap(r) PROVE TypeOK'
  BY <1>27 DEF Reap, Goto
<1>28. ASSUME NEW r \in Runs, Finish(r) PROVE TypeOK'
  BY <1>28 DEF Finish, Goto
<1>29. ASSUME NEW r \in Runs, Release(r) PROVE TypeOK'
  BY <1>29 DEF Release, Goto, Forget
<1>30. ASSUME NEW r \in Runs, Crash(r) PROVE TypeOK'
  BY <1>30 DEF Crash, Forget
<1>31. ASSUME NEW r \in Runs, Launch(r) PROVE TypeOK'
  BY <1>31 DEF Launch
<1>32. ASSUME NEW r \in Runs, Join(r) PROVE TypeOK'
  BY <1>32 DEF Join
<1>33. ASSUME NEW r \in Runs, RunTarget(r) PROVE TypeOK'
  BY <1>33 DEF RunTarget
<1>34. ASSUME NEW r \in Runs, Fork(r) PROVE TypeOK'
  BY <1>34 DEF Fork
<1>35. ASSUME NEW r \in Runs, HitLimit(r) PROVE TypeOK'
  BY <1>35 DEF HitLimit
<1>36. ASSUME NEW r \in Runs, TargetEnds(r) PROVE TypeOK'
  BY <1>36 DEF TargetEnds
<1>37. ASSUME NEW r \in Runs, Report(r) PROVE TypeOK'
  BY <1>37 DEF Report
<1>38. ASSUME NEW r \in Runs, ChildDies(r) PROVE TypeOK'
  BY <1>38 DEF ChildDies
<1>39. ASSUME NEW r \in Runs, RestEnds(r) PROVE TypeOK'
  BY <1>39 DEF RestEnds
<1>40. ASSUME NEW r \in Runs, Expire(r) PROVE TypeOK'
  BY <1>40 DEF Expire, KillScope
<1>41. ASSUME Deactivate PROVE TypeOK'
  BY <1>41 DEF Deactivate
<1>42. ASSUME Collect PROVE TypeOK'
  BY <1>42 DEF Collect, PathExists
<1>43. CASE UNCHANGED vars
  BY <1>43 DEF vars
<1>. QED
  BY <1>1, <1>2, <1>3, <1>4, <1>5, <1>6, <1>7, <1>8, <1>9, <1>10, <1>11,
     <1>12, <1>13, <1>14, <1>15, <1>16, <1>17, <1>18, <1>19, <1>20, <1>21,
     <1>22, <1>23, <1>24, <1>25, <1>26, <1>27, <1>28, <1>29, <1>30, <1>31,
     <1>32, <1>33, <1>34, <1>35, <1>36, <1>37, <1>38, <1>39, <1>40, <1>41,
     <1>42, <1>43 DEF Next, Own, StopScope, Process

\* Whoever works has the lease: others get it only when it is given back.
LEMMA LeaseStep ==
  TypeOK /\ LeaseInv /\ [Next]_vars => LeaseInv'
<1>. SUFFICES ASSUME TypeOK, LeaseInv, [Next]_vars
             PROVE  LeaseInv'
  OBVIOUS
<1>. USE ManagedConstants DEF TypeOK, LeaseInv, Fresh, Polling, Returning,
         Ended, KillSteps, manager, progress, handle, scope, kills
<1>1. ASSUME NEW r \in Runs, Acquire(r) PROVE LeaseInv'
  BY <1>1 DEF Acquire, Goto
<1>2. ASSUME NEW r \in Runs, Refuse(r) PROVE LeaseInv'
  BY <1>2 DEF Refuse, Goto
<1>3. ASSUME NEW r \in Runs, Prepare(r) PROVE LeaseInv'
  BY <1>3 DEF Prepare, Goto
<1>4. ASSUME NEW r \in Runs, Spawn(r) PROVE LeaseInv'
  BY <1>4 DEF Spawn, Goto
<1>5. ASSUME NEW r \in Runs, SpawnFails(r) PROVE LeaseInv'
  BY <1>5 DEF SpawnFails, StopWith, Goto
<1>6. ASSUME NEW r \in Runs, Pressure(r) PROVE LeaseInv'
  BY <1>6 DEF Pressure, StopWith, Goto
<1>7. ASSUME NEW r \in Runs, ChildExited(r) PROVE LeaseInv'
  BY <1>7 DEF ChildExited, StopWith, Goto, Verified
<1>8. ASSUME NEW r \in Runs, ChildRuns(r) PROVE LeaseInv'
  BY <1>8 DEF ChildRuns, Goto
<1>9. ASSUME NEW r \in Runs, Inspect(r) PROVE LeaseInv'
  BY <1>9 DEF Inspect, StopWith, Goto
<1>10. ASSUME NEW r \in Runs, Pin(r) PROVE LeaseInv'
  BY <1>10 DEF Pin, Goto, PinStep
<1>11. ASSUME NEW r \in Runs, Start(r) PROVE LeaseInv'
  BY <1>11 DEF Start, Goto
<1>12. ASSUME NEW r \in Runs, StartFails(r) PROVE LeaseInv'
  BY <1>12 DEF StartFails, StopWith, Goto
<1>13. ASSUME NEW r \in Runs, CheckLive(r) PROVE LeaseInv'
  BY <1>13 DEF CheckLive, StopWith, Goto
<1>14. ASSUME NEW r \in Runs, TimedOut(r) PROVE LeaseInv'
  BY <1>14 DEF TimedOut, StopWith, Goto
<1>15. ASSUME NEW r \in Runs, NotOwned(r) PROVE LeaseInv'
  BY <1>15 DEF NotOwned, Returned, Goto
<1>16. ASSUME NEW r \in Runs, Stop(r) PROVE LeaseInv'
  BY <1>16 DEF Stop, Goto
<1>17. ASSUME NEW r \in Runs, StopUnit(r) PROVE LeaseInv'
  BY <1>17 DEF StopUnit, Goto, KillScope
<1>18. ASSUME NEW r \in Runs, UnitStopped(r) PROVE LeaseInv'
  BY <1>18 DEF UnitStopped, Goto
<1>19. ASSUME NEW r \in Runs, StopTimesOut(r) PROVE LeaseInv'
  BY <1>19 DEF StopTimesOut, Goto
<1>20. ASSUME NEW r \in Runs, Collected(r) PROVE LeaseInv'
  BY <1>20 DEF Collected, Returned, Goto
<1>21. ASSUME NEW r \in Runs, NotCollected(r) PROVE LeaseInv'
  BY <1>21 DEF NotCollected, Goto
<1>22. ASSUME NEW r \in Runs, ManagerFails(r) PROVE LeaseInv'
  BY <1>22 DEF ManagerFails, Goto
<1>23. ASSUME NEW r \in Runs, KillPinned(r) PROVE LeaseInv'
  BY <1>23 DEF KillPinned, KillScope, PinnedPopulated
<1>24. ASSUME NEW r \in Runs, PinnedEmpty(r) PROVE LeaseInv'
  BY <1>24 DEF PinnedEmpty, Returned, Goto, PinnedPopulated
<1>25. ASSUME NEW r \in Runs, PinnedRemains(r) PROVE LeaseInv'
  BY <1>25 DEF PinnedRemains, Returned, Goto, PinnedPopulated
<1>26. ASSUME NEW r \in Runs, Terminate(r) PROVE LeaseInv'
  BY <1>26 DEF Terminate, Goto
<1>27. ASSUME NEW r \in Runs, Reap(r) PROVE LeaseInv'
  BY <1>27 DEF Reap, Goto
<1>28. ASSUME NEW r \in Runs, Finish(r) PROVE LeaseInv'
  BY <1>28 DEF Finish, Goto
<1>29. ASSUME NEW r \in Runs, Release(r) PROVE LeaseInv'
  BY <1>29 DEF Release, Goto, Forget
<1>30. ASSUME NEW r \in Runs, Crash(r) PROVE LeaseInv'
  BY <1>30 DEF Crash, Forget
<1>31. ASSUME NEW r \in Runs, Launch(r) PROVE LeaseInv'
  BY <1>31 DEF Launch
<1>32. ASSUME NEW r \in Runs, Join(r) PROVE LeaseInv'
  BY <1>32 DEF Join
<1>33. ASSUME NEW r \in Runs, RunTarget(r) PROVE LeaseInv'
  BY <1>33 DEF RunTarget
<1>34. ASSUME NEW r \in Runs, Fork(r) PROVE LeaseInv'
  BY <1>34 DEF Fork
<1>35. ASSUME NEW r \in Runs, HitLimit(r) PROVE LeaseInv'
  BY <1>35 DEF HitLimit
<1>36. ASSUME NEW r \in Runs, TargetEnds(r) PROVE LeaseInv'
  BY <1>36 DEF TargetEnds
<1>37. ASSUME NEW r \in Runs, Report(r) PROVE LeaseInv'
  BY <1>37 DEF Report
<1>38. ASSUME NEW r \in Runs, ChildDies(r) PROVE LeaseInv'
  BY <1>38 DEF ChildDies
<1>39. ASSUME NEW r \in Runs, RestEnds(r) PROVE LeaseInv'
  BY <1>39 DEF RestEnds
<1>40. ASSUME NEW r \in Runs, Expire(r) PROVE LeaseInv'
  BY <1>40 DEF Expire, KillScope
<1>41. ASSUME Deactivate PROVE LeaseInv'
  BY <1>41 DEF Deactivate
<1>42. ASSUME Collect PROVE LeaseInv'
  BY <1>42 DEF Collect, PathExists
<1>43. CASE UNCHANGED vars
  BY <1>43 DEF vars
<1>. QED
  BY <1>1, <1>2, <1>3, <1>4, <1>5, <1>6, <1>7, <1>8, <1>9, <1>10, <1>11,
     <1>12, <1>13, <1>14, <1>15, <1>16, <1>17, <1>18, <1>19, <1>20, <1>21,
     <1>22, <1>23, <1>24, <1>25, <1>26, <1>27, <1>28, <1>29, <1>30, <1>31,
     <1>32, <1>33, <1>34, <1>35, <1>36, <1>37, <1>38, <1>39, <1>40, <1>41,
     <1>42, <1>43 DEF Next, Own, StopScope, Process

\* Each step of an owner leaves what its next one relies on.
LEMMA PhaseStep ==
  TypeOK /\ LeaseInv /\ PhaseInv /\ [Next]_vars => PhaseInv'
<1>. SUFFICES ASSUME TypeOK, LeaseInv, PhaseInv, [Next]_vars
             PROVE  PhaseInv'
  OBVIOUS
<1>. USE ManagedConstants DEF TypeOK, LeaseInv, PhaseInv, Fresh, Polling,
         Returning, Ended, KillSteps, Attempts, InScope, ChildLives, manager,
         progress, handle, scope, kills
<1>1. ASSUME NEW r \in Runs, Acquire(r) PROVE PhaseInv'
  BY <1>1 DEF Acquire, Goto
<1>2. ASSUME NEW r \in Runs, Refuse(r) PROVE PhaseInv'
  BY <1>2 DEF Refuse, Goto
<1>3. ASSUME NEW r \in Runs, Prepare(r) PROVE PhaseInv'
  BY <1>3 DEF Prepare, Goto
<1>4. ASSUME NEW r \in Runs, Spawn(r) PROVE PhaseInv'
  BY <1>4 DEF Spawn, Goto
<1>5. ASSUME NEW r \in Runs, SpawnFails(r) PROVE PhaseInv'
  BY <1>5 DEF SpawnFails, StopWith, Goto
<1>6. ASSUME NEW r \in Runs, Pressure(r) PROVE PhaseInv'
  BY <1>6 DEF Pressure, StopWith, Goto
<1>7. ASSUME NEW r \in Runs, ChildExited(r) PROVE PhaseInv'
  BY <1>7 DEF ChildExited, StopWith, Goto, Verified
<1>8. ASSUME NEW r \in Runs, ChildRuns(r) PROVE PhaseInv'
  BY <1>8 DEF ChildRuns, Goto
<1>9. ASSUME NEW r \in Runs, Inspect(r) PROVE PhaseInv'
  BY <1>9 DEF Inspect, StopWith, Goto
<1>10. ASSUME NEW r \in Runs, Pin(r) PROVE PhaseInv'
  BY <1>10 DEF Pin, Goto, PinStep
<1>11. ASSUME NEW r \in Runs, Start(r) PROVE PhaseInv'
  BY <1>11 DEF Start, Goto
<1>12. ASSUME NEW r \in Runs, StartFails(r) PROVE PhaseInv'
  BY <1>12 DEF StartFails, StopWith, Goto
<1>13. ASSUME NEW r \in Runs, CheckLive(r) PROVE PhaseInv'
  BY <1>13 DEF CheckLive, StopWith, Goto
<1>14. ASSUME NEW r \in Runs, TimedOut(r) PROVE PhaseInv'
  BY <1>14 DEF TimedOut, StopWith, Goto
<1>15. ASSUME NEW r \in Runs, NotOwned(r) PROVE PhaseInv'
  BY <1>15 DEF NotOwned, Returned, Goto
<1>16. ASSUME NEW r \in Runs, Stop(r) PROVE PhaseInv'
  BY <1>16 DEF Stop, Goto
<1>17. ASSUME NEW r \in Runs, StopUnit(r) PROVE PhaseInv'
  BY <1>17 DEF StopUnit, Goto, KillScope
<1>18. ASSUME NEW r \in Runs, UnitStopped(r) PROVE PhaseInv'
  BY <1>18 DEF UnitStopped, Goto
<1>19. ASSUME NEW r \in Runs, StopTimesOut(r) PROVE PhaseInv'
  BY <1>19 DEF StopTimesOut, Goto
<1>20. ASSUME NEW r \in Runs, Collected(r) PROVE PhaseInv'
  BY <1>20 DEF Collected, Returned, Goto
<1>21. ASSUME NEW r \in Runs, NotCollected(r) PROVE PhaseInv'
  BY <1>21 DEF NotCollected, Goto
<1>22. ASSUME NEW r \in Runs, ManagerFails(r) PROVE PhaseInv'
  BY <1>22 DEF ManagerFails, Goto
<1>23. ASSUME NEW r \in Runs, KillPinned(r) PROVE PhaseInv'
  BY <1>23 DEF KillPinned, KillScope, PinnedPopulated
<1>24. ASSUME NEW r \in Runs, PinnedEmpty(r) PROVE PhaseInv'
  BY <1>24 DEF PinnedEmpty, Returned, Goto, PinnedPopulated
<1>25. ASSUME NEW r \in Runs, PinnedRemains(r) PROVE PhaseInv'
  BY <1>25 DEF PinnedRemains, Returned, Goto, PinnedPopulated
<1>26. ASSUME NEW r \in Runs, Terminate(r) PROVE PhaseInv'
  BY <1>26 DEF Terminate, Goto
<1>27. ASSUME NEW r \in Runs, Reap(r) PROVE PhaseInv'
  BY <1>27 DEF Reap, Goto
<1>28. ASSUME NEW r \in Runs, Finish(r) PROVE PhaseInv'
  BY <1>28 DEF Finish, Goto
<1>29. ASSUME NEW r \in Runs, Release(r) PROVE PhaseInv'
  BY <1>29 DEF Release, Goto, Forget
<1>30. ASSUME NEW r \in Runs, Crash(r) PROVE PhaseInv'
  BY <1>30 DEF Crash, Forget
<1>31. ASSUME NEW r \in Runs, Launch(r) PROVE PhaseInv'
  BY <1>31 DEF Launch
<1>32. ASSUME NEW r \in Runs, Join(r) PROVE PhaseInv'
  BY <1>32 DEF Join
<1>33. ASSUME NEW r \in Runs, RunTarget(r) PROVE PhaseInv'
  BY <1>33 DEF RunTarget
<1>34. ASSUME NEW r \in Runs, Fork(r) PROVE PhaseInv'
  BY <1>34 DEF Fork
<1>35. ASSUME NEW r \in Runs, HitLimit(r) PROVE PhaseInv'
  BY <1>35 DEF HitLimit
<1>36. ASSUME NEW r \in Runs, TargetEnds(r) PROVE PhaseInv'
  BY <1>36 DEF TargetEnds
<1>37. ASSUME NEW r \in Runs, Report(r) PROVE PhaseInv'
  BY <1>37 DEF Report
<1>38. ASSUME NEW r \in Runs, ChildDies(r) PROVE PhaseInv'
  BY <1>38 DEF ChildDies
<1>39. ASSUME NEW r \in Runs, RestEnds(r) PROVE PhaseInv'
  BY <1>39 DEF RestEnds
<1>40. ASSUME NEW r \in Runs, Expire(r) PROVE PhaseInv'
  BY <1>40 DEF Expire, KillScope
<1>41. ASSUME Deactivate PROVE PhaseInv'
  BY <1>41 DEF Deactivate
<1>42. ASSUME Collect PROVE PhaseInv'
  BY <1>42 DEF Collect, PathExists
<1>43. CASE UNCHANGED vars
  BY <1>43 DEF vars
<1>. QED
  BY <1>1, <1>2, <1>3, <1>4, <1>5, <1>6, <1>7, <1>8, <1>9, <1>10, <1>11,
     <1>12, <1>13, <1>14, <1>15, <1>16, <1>17, <1>18, <1>19, <1>20, <1>21,
     <1>22, <1>23, <1>24, <1>25, <1>26, <1>27, <1>28, <1>29, <1>30, <1>31,
     <1>32, <1>33, <1>34, <1>35, <1>36, <1>37, <1>38, <1>39, <1>40, <1>41,
     <1>42, <1>43 DEF Next, Own, StopScope, Process

\* A unit name is free again only when its scope is empty.
LEMMA UnitStep ==
  TypeOK /\ PhaseInv /\ UnitInv /\ [Next]_vars => UnitInv'
<1>. SUFFICES ASSUME TypeOK, PhaseInv, UnitInv, [Next]_vars
             PROVE  UnitInv'
  OBVIOUS
<1>. USE ManagedConstants DEF TypeOK, PhaseInv, UnitInv, Fresh, Polling,
         Returning, Ended, KillSteps, InScope, Populated, ChildLives,
         PathExists, manager, progress, handle, scope, kills
<1>1. ASSUME NEW r \in Runs, Acquire(r) PROVE UnitInv'
  BY <1>1 DEF Acquire, Goto
<1>2. ASSUME NEW r \in Runs, Refuse(r) PROVE UnitInv'
  BY <1>2 DEF Refuse, Goto
<1>3. ASSUME NEW r \in Runs, Prepare(r) PROVE UnitInv'
  BY <1>3 DEF Prepare, Goto
<1>4. ASSUME NEW r \in Runs, Spawn(r) PROVE UnitInv'
  BY <1>4 DEF Spawn, Goto
<1>5. ASSUME NEW r \in Runs, SpawnFails(r) PROVE UnitInv'
  BY <1>5 DEF SpawnFails, StopWith, Goto
<1>6. ASSUME NEW r \in Runs, Pressure(r) PROVE UnitInv'
  BY <1>6 DEF Pressure, StopWith, Goto
<1>7. ASSUME NEW r \in Runs, ChildExited(r) PROVE UnitInv'
  BY <1>7 DEF ChildExited, StopWith, Goto, Verified
<1>8. ASSUME NEW r \in Runs, ChildRuns(r) PROVE UnitInv'
  BY <1>8 DEF ChildRuns, Goto
<1>9. ASSUME NEW r \in Runs, Inspect(r) PROVE UnitInv'
  BY <1>9 DEF Inspect, StopWith, Goto
<1>10. ASSUME NEW r \in Runs, Pin(r) PROVE UnitInv'
  BY <1>10 DEF Pin, Goto, PinStep
<1>11. ASSUME NEW r \in Runs, Start(r) PROVE UnitInv'
  BY <1>11 DEF Start, Goto
<1>12. ASSUME NEW r \in Runs, StartFails(r) PROVE UnitInv'
  BY <1>12 DEF StartFails, StopWith, Goto
<1>13. ASSUME NEW r \in Runs, CheckLive(r) PROVE UnitInv'
  BY <1>13 DEF CheckLive, StopWith, Goto
<1>14. ASSUME NEW r \in Runs, TimedOut(r) PROVE UnitInv'
  BY <1>14 DEF TimedOut, StopWith, Goto
<1>15. ASSUME NEW r \in Runs, NotOwned(r) PROVE UnitInv'
  BY <1>15 DEF NotOwned, Returned, Goto
<1>16. ASSUME NEW r \in Runs, Stop(r) PROVE UnitInv'
  BY <1>16 DEF Stop, Goto
<1>17. ASSUME NEW r \in Runs, StopUnit(r) PROVE UnitInv'
  BY <1>17 DEF StopUnit, Goto, KillScope
<1>18. ASSUME NEW r \in Runs, UnitStopped(r) PROVE UnitInv'
  BY <1>18 DEF UnitStopped, Goto
<1>19. ASSUME NEW r \in Runs, StopTimesOut(r) PROVE UnitInv'
  BY <1>19 DEF StopTimesOut, Goto
<1>20. ASSUME NEW r \in Runs, Collected(r) PROVE UnitInv'
  BY <1>20 DEF Collected, Returned, Goto
<1>21. ASSUME NEW r \in Runs, NotCollected(r) PROVE UnitInv'
  BY <1>21 DEF NotCollected, Goto
<1>22. ASSUME NEW r \in Runs, ManagerFails(r) PROVE UnitInv'
  BY <1>22 DEF ManagerFails, Goto
<1>23. ASSUME NEW r \in Runs, KillPinned(r) PROVE UnitInv'
  BY <1>23 DEF KillPinned, KillScope, PinnedPopulated
<1>24. ASSUME NEW r \in Runs, PinnedEmpty(r) PROVE UnitInv'
  BY <1>24 DEF PinnedEmpty, Returned, Goto, PinnedPopulated
<1>25. ASSUME NEW r \in Runs, PinnedRemains(r) PROVE UnitInv'
  BY <1>25 DEF PinnedRemains, Returned, Goto, PinnedPopulated
<1>26. ASSUME NEW r \in Runs, Terminate(r) PROVE UnitInv'
  BY <1>26 DEF Terminate, Goto
<1>27. ASSUME NEW r \in Runs, Reap(r) PROVE UnitInv'
  BY <1>27 DEF Reap, Goto
<1>28. ASSUME NEW r \in Runs, Finish(r) PROVE UnitInv'
  BY <1>28 DEF Finish, Goto
<1>29. ASSUME NEW r \in Runs, Release(r) PROVE UnitInv'
  BY <1>29 DEF Release, Goto, Forget
<1>30. ASSUME NEW r \in Runs, Crash(r) PROVE UnitInv'
  BY <1>30 DEF Crash, Forget
<1>31. ASSUME NEW r \in Runs, Launch(r) PROVE UnitInv'
  BY <1>31 DEF Launch
<1>32. ASSUME NEW r \in Runs, Join(r) PROVE UnitInv'
  BY <1>32 DEF Join
<1>33. ASSUME NEW r \in Runs, RunTarget(r) PROVE UnitInv'
  BY <1>33 DEF RunTarget
<1>34. ASSUME NEW r \in Runs, Fork(r) PROVE UnitInv'
  BY <1>34 DEF Fork
<1>35. ASSUME NEW r \in Runs, HitLimit(r) PROVE UnitInv'
  BY <1>35 DEF HitLimit
<1>36. ASSUME NEW r \in Runs, TargetEnds(r) PROVE UnitInv'
  BY <1>36 DEF TargetEnds
<1>37. ASSUME NEW r \in Runs, Report(r) PROVE UnitInv'
  BY <1>37 DEF Report
<1>38. ASSUME NEW r \in Runs, ChildDies(r) PROVE UnitInv'
  BY <1>38 DEF ChildDies
<1>39. ASSUME NEW r \in Runs, RestEnds(r) PROVE UnitInv'
  BY <1>39 DEF RestEnds
<1>40. ASSUME NEW r \in Runs, Expire(r) PROVE UnitInv'
  BY <1>40 DEF Expire, KillScope
<1>41. ASSUME Deactivate PROVE UnitInv'
  BY <1>41 DEF Deactivate
<1>42. ASSUME Collect PROVE UnitInv'
  BY <1>42 DEF Collect, PathExists
<1>43. CASE UNCHANGED vars
  BY <1>43 DEF vars
<1>. QED
  BY <1>1, <1>2, <1>3, <1>4, <1>5, <1>6, <1>7, <1>8, <1>9, <1>10, <1>11,
     <1>12, <1>13, <1>14, <1>15, <1>16, <1>17, <1>18, <1>19, <1>20, <1>21,
     <1>22, <1>23, <1>24, <1>25, <1>26, <1>27, <1>28, <1>29, <1>30, <1>31,
     <1>32, <1>33, <1>34, <1>35, <1>36, <1>37, <1>38, <1>39, <1>40, <1>41,
     <1>42, <1>43 DEF Next, Own, StopScope, Process

\* Whoever pins a foreign scope has lost its own.
LEMMA PinStepInv ==
  TypeOK /\ PhaseInv /\ UnitInv /\ PinInv /\ [Next]_vars => PinInv'
<1>. SUFFICES ASSUME TypeOK, PhaseInv, UnitInv, PinInv, [Next]_vars
             PROVE  PinInv'
  OBVIOUS
<1>. USE ManagedConstants DEF TypeOK, PhaseInv, UnitInv, PinInv, Fresh,
         Polling, Returning, Ended, KillSteps, InScope, Populated, Dead,
         Gone, ChildLives, PathExists, manager, progress, handle, scope,
         kills
<1>1. ASSUME NEW r \in Runs, Acquire(r) PROVE PinInv'
  BY <1>1 DEF Acquire, Goto
<1>2. ASSUME NEW r \in Runs, Refuse(r) PROVE PinInv'
  BY <1>2 DEF Refuse, Goto
<1>3. ASSUME NEW r \in Runs, Prepare(r) PROVE PinInv'
  BY <1>3 DEF Prepare, Goto
<1>4. ASSUME NEW r \in Runs, Spawn(r) PROVE PinInv'
  BY <1>4 DEF Spawn, Goto
<1>5. ASSUME NEW r \in Runs, SpawnFails(r) PROVE PinInv'
  BY <1>5 DEF SpawnFails, StopWith, Goto
<1>6. ASSUME NEW r \in Runs, Pressure(r) PROVE PinInv'
  BY <1>6 DEF Pressure, StopWith, Goto
<1>7. ASSUME NEW r \in Runs, ChildExited(r) PROVE PinInv'
  BY <1>7 DEF ChildExited, StopWith, Goto, Verified
<1>8. ASSUME NEW r \in Runs, ChildRuns(r) PROVE PinInv'
  BY <1>8 DEF ChildRuns, Goto
<1>9. ASSUME NEW r \in Runs, Inspect(r) PROVE PinInv'
  BY <1>9 DEF Inspect, StopWith, Goto
<1>10. ASSUME NEW r \in Runs, Pin(r) PROVE PinInv'
  BY <1>10 DEF Pin, Goto, PinStep
<1>11. ASSUME NEW r \in Runs, Start(r) PROVE PinInv'
  BY <1>11 DEF Start, Goto
<1>12. ASSUME NEW r \in Runs, StartFails(r) PROVE PinInv'
  BY <1>12 DEF StartFails, StopWith, Goto
<1>13. ASSUME NEW r \in Runs, CheckLive(r) PROVE PinInv'
  BY <1>13 DEF CheckLive, StopWith, Goto
<1>14. ASSUME NEW r \in Runs, TimedOut(r) PROVE PinInv'
  BY <1>14 DEF TimedOut, StopWith, Goto
<1>15. ASSUME NEW r \in Runs, NotOwned(r) PROVE PinInv'
  BY <1>15 DEF NotOwned, Returned, Goto
<1>16. ASSUME NEW r \in Runs, Stop(r) PROVE PinInv'
  BY <1>16 DEF Stop, Goto
<1>17. ASSUME NEW r \in Runs, StopUnit(r) PROVE PinInv'
  BY <1>17 DEF StopUnit, Goto, KillScope
<1>18. ASSUME NEW r \in Runs, UnitStopped(r) PROVE PinInv'
  BY <1>18 DEF UnitStopped, Goto
<1>19. ASSUME NEW r \in Runs, StopTimesOut(r) PROVE PinInv'
  BY <1>19 DEF StopTimesOut, Goto
<1>20. ASSUME NEW r \in Runs, Collected(r) PROVE PinInv'
  BY <1>20 DEF Collected, Returned, Goto
<1>21. ASSUME NEW r \in Runs, NotCollected(r) PROVE PinInv'
  BY <1>21 DEF NotCollected, Goto
<1>22. ASSUME NEW r \in Runs, ManagerFails(r) PROVE PinInv'
  BY <1>22 DEF ManagerFails, Goto
<1>23. ASSUME NEW r \in Runs, KillPinned(r) PROVE PinInv'
  BY <1>23 DEF KillPinned, KillScope, PinnedPopulated
<1>24. ASSUME NEW r \in Runs, PinnedEmpty(r) PROVE PinInv'
  BY <1>24 DEF PinnedEmpty, Returned, Goto, PinnedPopulated
<1>25. ASSUME NEW r \in Runs, PinnedRemains(r) PROVE PinInv'
  BY <1>25 DEF PinnedRemains, Returned, Goto, PinnedPopulated
<1>26. ASSUME NEW r \in Runs, Terminate(r) PROVE PinInv'
  BY <1>26 DEF Terminate, Goto
<1>27. ASSUME NEW r \in Runs, Reap(r) PROVE PinInv'
  BY <1>27 DEF Reap, Goto
<1>28. ASSUME NEW r \in Runs, Finish(r) PROVE PinInv'
  BY <1>28 DEF Finish, Goto
<1>29. ASSUME NEW r \in Runs, Release(r) PROVE PinInv'
  BY <1>29 DEF Release, Goto, Forget
<1>30. ASSUME NEW r \in Runs, Crash(r) PROVE PinInv'
  BY <1>30 DEF Crash, Forget
<1>31. ASSUME NEW r \in Runs, Launch(r) PROVE PinInv'
  BY <1>31 DEF Launch
<1>32. ASSUME NEW r \in Runs, Join(r) PROVE PinInv'
  BY <1>32 DEF Join
<1>33. ASSUME NEW r \in Runs, RunTarget(r) PROVE PinInv'
  BY <1>33 DEF RunTarget
<1>34. ASSUME NEW r \in Runs, Fork(r) PROVE PinInv'
  BY <1>34 DEF Fork
<1>35. ASSUME NEW r \in Runs, HitLimit(r) PROVE PinInv'
  BY <1>35 DEF HitLimit
<1>36. ASSUME NEW r \in Runs, TargetEnds(r) PROVE PinInv'
  BY <1>36 DEF TargetEnds
<1>37. ASSUME NEW r \in Runs, Report(r) PROVE PinInv'
  BY <1>37 DEF Report
<1>38. ASSUME NEW r \in Runs, ChildDies(r) PROVE PinInv'
  BY <1>38 DEF ChildDies
<1>39. ASSUME NEW r \in Runs, RestEnds(r) PROVE PinInv'
  BY <1>39 DEF RestEnds
<1>40. ASSUME NEW r \in Runs, Expire(r) PROVE PinInv'
  BY <1>40 DEF Expire, KillScope
<1>41. ASSUME Deactivate PROVE PinInv'
  BY <1>41 DEF Deactivate
<1>42. ASSUME Collect PROVE PinInv'
  BY <1>42 DEF Collect, PathExists
<1>43. CASE UNCHANGED vars
  BY <1>43 DEF vars
<1>. QED
  BY <1>1, <1>2, <1>3, <1>4, <1>5, <1>6, <1>7, <1>8, <1>9, <1>10, <1>11,
     <1>12, <1>13, <1>14, <1>15, <1>16, <1>17, <1>18, <1>19, <1>20, <1>21,
     <1>22, <1>23, <1>24, <1>25, <1>26, <1>27, <1>28, <1>29, <1>30, <1>31,
     <1>32, <1>33, <1>34, <1>35, <1>36, <1>37, <1>38, <1>39, <1>40, <1>41,
     <1>42, <1>43 DEF Next, Own, StopScope, Process

\* What has been reported or ended stays so.
LEMMA ReportStep ==
  TypeOK /\ PhaseInv /\ ReportInv /\ [Next]_vars => ReportInv'
<1>. SUFFICES ASSUME TypeOK, PhaseInv, ReportInv, [Next]_vars
             PROVE  ReportInv'
  OBVIOUS
<1>. USE ManagedConstants DEF TypeOK, PhaseInv, ReportInv, Fresh, Polling,
         Returning, Ended, KillSteps, InScope, Dead, Gone, ChildLives,
         manager, progress, handle, scope, kills
<1>1. ASSUME NEW r \in Runs, Acquire(r) PROVE ReportInv'
  BY <1>1 DEF Acquire, Goto
<1>2. ASSUME NEW r \in Runs, Refuse(r) PROVE ReportInv'
  BY <1>2 DEF Refuse, Goto
<1>3. ASSUME NEW r \in Runs, Prepare(r) PROVE ReportInv'
  BY <1>3 DEF Prepare, Goto
<1>4. ASSUME NEW r \in Runs, Spawn(r) PROVE ReportInv'
  BY <1>4 DEF Spawn, Goto
<1>5. ASSUME NEW r \in Runs, SpawnFails(r) PROVE ReportInv'
  BY <1>5 DEF SpawnFails, StopWith, Goto
<1>6. ASSUME NEW r \in Runs, Pressure(r) PROVE ReportInv'
  BY <1>6 DEF Pressure, StopWith, Goto
<1>7. ASSUME NEW r \in Runs, ChildExited(r) PROVE ReportInv'
  BY <1>7 DEF ChildExited, StopWith, Goto, Verified
<1>8. ASSUME NEW r \in Runs, ChildRuns(r) PROVE ReportInv'
  BY <1>8 DEF ChildRuns, Goto
<1>9. ASSUME NEW r \in Runs, Inspect(r) PROVE ReportInv'
  BY <1>9 DEF Inspect, StopWith, Goto
<1>10. ASSUME NEW r \in Runs, Pin(r) PROVE ReportInv'
  BY <1>10 DEF Pin, Goto, PinStep
<1>11. ASSUME NEW r \in Runs, Start(r) PROVE ReportInv'
  BY <1>11 DEF Start, Goto
<1>12. ASSUME NEW r \in Runs, StartFails(r) PROVE ReportInv'
  BY <1>12 DEF StartFails, StopWith, Goto
<1>13. ASSUME NEW r \in Runs, CheckLive(r) PROVE ReportInv'
  BY <1>13 DEF CheckLive, StopWith, Goto
<1>14. ASSUME NEW r \in Runs, TimedOut(r) PROVE ReportInv'
  BY <1>14 DEF TimedOut, StopWith, Goto
<1>15. ASSUME NEW r \in Runs, NotOwned(r) PROVE ReportInv'
  BY <1>15 DEF NotOwned, Returned, Goto
<1>16. ASSUME NEW r \in Runs, Stop(r) PROVE ReportInv'
  BY <1>16 DEF Stop, Goto
<1>17. ASSUME NEW r \in Runs, StopUnit(r) PROVE ReportInv'
  BY <1>17 DEF StopUnit, Goto, KillScope
<1>18. ASSUME NEW r \in Runs, UnitStopped(r) PROVE ReportInv'
  BY <1>18 DEF UnitStopped, Goto
<1>19. ASSUME NEW r \in Runs, StopTimesOut(r) PROVE ReportInv'
  BY <1>19 DEF StopTimesOut, Goto
<1>20. ASSUME NEW r \in Runs, Collected(r) PROVE ReportInv'
  BY <1>20 DEF Collected, Returned, Goto
<1>21. ASSUME NEW r \in Runs, NotCollected(r) PROVE ReportInv'
  BY <1>21 DEF NotCollected, Goto
<1>22. ASSUME NEW r \in Runs, ManagerFails(r) PROVE ReportInv'
  BY <1>22 DEF ManagerFails, Goto
<1>23. ASSUME NEW r \in Runs, KillPinned(r) PROVE ReportInv'
  BY <1>23 DEF KillPinned, KillScope, PinnedPopulated
<1>24. ASSUME NEW r \in Runs, PinnedEmpty(r) PROVE ReportInv'
  BY <1>24 DEF PinnedEmpty, Returned, Goto, PinnedPopulated
<1>25. ASSUME NEW r \in Runs, PinnedRemains(r) PROVE ReportInv'
  BY <1>25 DEF PinnedRemains, Returned, Goto, PinnedPopulated
<1>26. ASSUME NEW r \in Runs, Terminate(r) PROVE ReportInv'
  BY <1>26 DEF Terminate, Goto
<1>27. ASSUME NEW r \in Runs, Reap(r) PROVE ReportInv'
  BY <1>27 DEF Reap, Goto
<1>28. ASSUME NEW r \in Runs, Finish(r) PROVE ReportInv'
  BY <1>28 DEF Finish, Goto
<1>29. ASSUME NEW r \in Runs, Release(r) PROVE ReportInv'
  BY <1>29 DEF Release, Goto, Forget
<1>30. ASSUME NEW r \in Runs, Crash(r) PROVE ReportInv'
  BY <1>30 DEF Crash, Forget
<1>31. ASSUME NEW r \in Runs, Launch(r) PROVE ReportInv'
  BY <1>31 DEF Launch
<1>32. ASSUME NEW r \in Runs, Join(r) PROVE ReportInv'
  BY <1>32 DEF Join
<1>33. ASSUME NEW r \in Runs, RunTarget(r) PROVE ReportInv'
  BY <1>33 DEF RunTarget
<1>34. ASSUME NEW r \in Runs, Fork(r) PROVE ReportInv'
  BY <1>34 DEF Fork
<1>35. ASSUME NEW r \in Runs, HitLimit(r) PROVE ReportInv'
  BY <1>35 DEF HitLimit
<1>36. ASSUME NEW r \in Runs, TargetEnds(r) PROVE ReportInv'
  BY <1>36 DEF TargetEnds
<1>37. ASSUME NEW r \in Runs, Report(r) PROVE ReportInv'
  BY <1>37 DEF Report
<1>38. ASSUME NEW r \in Runs, ChildDies(r) PROVE ReportInv'
  BY <1>38 DEF ChildDies
<1>39. ASSUME NEW r \in Runs, RestEnds(r) PROVE ReportInv'
  BY <1>39 DEF RestEnds
<1>40. ASSUME NEW r \in Runs, Expire(r) PROVE ReportInv'
  BY <1>40 DEF Expire, KillScope
<1>41. ASSUME Deactivate PROVE ReportInv'
  BY <1>41 DEF Deactivate
<1>42. ASSUME Collect PROVE ReportInv'
  BY <1>42 DEF Collect, PathExists
<1>43. CASE UNCHANGED vars
  BY <1>43 DEF vars
<1>. QED
  BY <1>1, <1>2, <1>3, <1>4, <1>5, <1>6, <1>7, <1>8, <1>9, <1>10, <1>11,
     <1>12, <1>13, <1>14, <1>15, <1>16, <1>17, <1>18, <1>19, <1>20, <1>21,
     <1>22, <1>23, <1>24, <1>25, <1>26, <1>27, <1>28, <1>29, <1>30, <1>31,
     <1>32, <1>33, <1>34, <1>35, <1>36, <1>37, <1>38, <1>39, <1>40, <1>41,
     <1>42, <1>43 DEF Next, Own, StopScope, Process

\* An owner that goes on to return leaves nothing without a KILL.
LEMMA StopStep ==
  TypeOK /\ PhaseInv /\ UnitInv /\ PinInv /\ ReportInv /\ StopInv /\ [Next]_vars
    => StopInv'
<1>. SUFFICES ASSUME TypeOK, PhaseInv, UnitInv, PinInv, ReportInv, StopInv,
                     [Next]_vars
             PROVE  StopInv'
  OBVIOUS
<1>. USE ManagedConstants DEF TypeOK, PhaseInv, UnitInv, PinInv, ReportInv,
         StopInv, Fresh, Polling, Returning, Ended, KillSteps, InScope,
         ChildLives, Populated, Killed, Dead, Gone, Doomed, PathExists,
         manager, progress, handle, scope, kills
<1>1. ASSUME NEW r \in Runs, Acquire(r) PROVE StopInv'
  BY <1>1 DEF Acquire, Goto
<1>2. ASSUME NEW r \in Runs, Refuse(r) PROVE StopInv'
  BY <1>2 DEF Refuse, Goto
<1>3. ASSUME NEW r \in Runs, Prepare(r) PROVE StopInv'
  BY <1>3 DEF Prepare, Goto
<1>4. ASSUME NEW r \in Runs, Spawn(r) PROVE StopInv'
  BY <1>4 DEF Spawn, Goto
<1>5. ASSUME NEW r \in Runs, SpawnFails(r) PROVE StopInv'
  BY <1>5 DEF SpawnFails, StopWith, Goto
<1>6. ASSUME NEW r \in Runs, Pressure(r) PROVE StopInv'
  BY <1>6 DEF Pressure, StopWith, Goto
<1>7. ASSUME NEW r \in Runs, ChildExited(r) PROVE StopInv'
  BY <1>7 DEF ChildExited, StopWith, Goto, Verified
<1>8. ASSUME NEW r \in Runs, ChildRuns(r) PROVE StopInv'
  BY <1>8 DEF ChildRuns, Goto
<1>9. ASSUME NEW r \in Runs, Inspect(r) PROVE StopInv'
  BY <1>9 DEF Inspect, StopWith, Goto
<1>10. ASSUME NEW r \in Runs, Pin(r) PROVE StopInv'
  BY <1>10 DEF Pin, Goto, PinStep
<1>11. ASSUME NEW r \in Runs, Start(r) PROVE StopInv'
  BY <1>11 DEF Start, Goto
<1>12. ASSUME NEW r \in Runs, StartFails(r) PROVE StopInv'
  BY <1>12 DEF StartFails, StopWith, Goto
<1>13. ASSUME NEW r \in Runs, CheckLive(r) PROVE StopInv'
  BY <1>13 DEF CheckLive, StopWith, Goto
<1>14. ASSUME NEW r \in Runs, TimedOut(r) PROVE StopInv'
  BY <1>14 DEF TimedOut, StopWith, Goto
<1>15. ASSUME NEW r \in Runs, NotOwned(r) PROVE StopInv'
  BY <1>15 DEF NotOwned, Returned, Goto
<1>16. ASSUME NEW r \in Runs, Stop(r) PROVE StopInv'
  BY <1>16 DEF Stop, Goto
<1>17. ASSUME NEW r \in Runs, StopUnit(r) PROVE StopInv'
  BY <1>17 DEF StopUnit, Goto, KillScope
<1>18. ASSUME NEW r \in Runs, UnitStopped(r) PROVE StopInv'
  BY <1>18 DEF UnitStopped, Goto
<1>19. ASSUME NEW r \in Runs, StopTimesOut(r) PROVE StopInv'
  BY <1>19 DEF StopTimesOut, Goto
<1>20. ASSUME NEW r \in Runs, Collected(r) PROVE StopInv'
  BY <1>20 DEF Collected, Returned, Goto
<1>21. ASSUME NEW r \in Runs, NotCollected(r) PROVE StopInv'
  BY <1>21 DEF NotCollected, Goto
<1>22. ASSUME NEW r \in Runs, ManagerFails(r) PROVE StopInv'
  BY <1>22 DEF ManagerFails, Goto
<1>23. ASSUME NEW r \in Runs, KillPinned(r) PROVE StopInv'
  BY <1>23 DEF KillPinned, KillScope, PinnedPopulated
<1>24. ASSUME NEW r \in Runs, PinnedEmpty(r) PROVE StopInv'
  BY <1>24 DEF PinnedEmpty, Returned, Goto, PinnedPopulated
<1>25. ASSUME NEW r \in Runs, PinnedRemains(r) PROVE StopInv'
  BY <1>25 DEF PinnedRemains, Returned, Goto, PinnedPopulated
<1>26. ASSUME NEW r \in Runs, Terminate(r) PROVE StopInv'
  BY <1>26 DEF Terminate, Goto
<1>27. ASSUME NEW r \in Runs, Reap(r) PROVE StopInv'
  BY <1>27 DEF Reap, Goto
<1>28. ASSUME NEW r \in Runs, Finish(r) PROVE StopInv'
  BY <1>28 DEF Finish, Goto
<1>29. ASSUME NEW r \in Runs, Release(r) PROVE StopInv'
  BY <1>29 DEF Release, Goto, Forget
<1>30. ASSUME NEW r \in Runs, Crash(r) PROVE StopInv'
  BY <1>30 DEF Crash, Forget
<1>31. ASSUME NEW r \in Runs, Launch(r) PROVE StopInv'
  BY <1>31 DEF Launch
<1>32. ASSUME NEW r \in Runs, Join(r) PROVE StopInv'
  BY <1>32 DEF Join
<1>33. ASSUME NEW r \in Runs, RunTarget(r) PROVE StopInv'
  BY <1>33 DEF RunTarget
<1>34. ASSUME NEW r \in Runs, Fork(r) PROVE StopInv'
  BY <1>34 DEF Fork
<1>35. ASSUME NEW r \in Runs, HitLimit(r) PROVE StopInv'
  BY <1>35 DEF HitLimit
<1>36. ASSUME NEW r \in Runs, TargetEnds(r) PROVE StopInv'
  BY <1>36 DEF TargetEnds
<1>37. ASSUME NEW r \in Runs, Report(r) PROVE StopInv'
  BY <1>37 DEF Report
<1>38. ASSUME NEW r \in Runs, ChildDies(r) PROVE StopInv'
  BY <1>38 DEF ChildDies
<1>39. ASSUME NEW r \in Runs, RestEnds(r) PROVE StopInv'
  BY <1>39 DEF RestEnds
<1>40. ASSUME NEW r \in Runs, Expire(r) PROVE StopInv'
  BY <1>40 DEF Expire, KillScope
<1>41. ASSUME Deactivate PROVE StopInv'
  BY <1>41 DEF Deactivate
<1>42. ASSUME Collect PROVE StopInv'
  BY <1>42 DEF Collect, PathExists
<1>43. CASE UNCHANGED vars
  BY <1>43 DEF vars
<1>. QED
  BY <1>1, <1>2, <1>3, <1>4, <1>5, <1>6, <1>7, <1>8, <1>9, <1>10, <1>11,
     <1>12, <1>13, <1>14, <1>15, <1>16, <1>17, <1>18, <1>19, <1>20, <1>21,
     <1>22, <1>23, <1>24, <1>25, <1>26, <1>27, <1>28, <1>29, <1>30, <1>31,
     <1>32, <1>33, <1>34, <1>35, <1>36, <1>37, <1>38, <1>39, <1>40, <1>41,
     <1>42, <1>43 DEF Next, Own, StopScope, Process

\* A foreign scope is an orphan of a killed owner.
LEMMA ForeignStep ==
  TypeOK /\ LeaseInv /\ PhaseInv /\ UnitInv /\ StopInv /\ ForeignInv /\ [Next]_vars
    => ForeignInv'
<1>. SUFFICES ASSUME TypeOK, LeaseInv, PhaseInv, UnitInv, StopInv,
                     ForeignInv, [Next]_vars
             PROVE  ForeignInv'
  OBVIOUS
<1>. USE ManagedConstants DEF TypeOK, LeaseInv, PhaseInv, UnitInv, StopInv,
         ForeignInv, Fresh, Polling, Returning, Ended, KillSteps, InScope,
         ChildLives, Populated, Killed, Dead, Gone, Doomed, PathExists,
         manager, progress, handle, scope, kills
<1>1. ASSUME NEW r \in Runs, Acquire(r) PROVE ForeignInv'
  BY <1>1 DEF Acquire, Goto
<1>2. ASSUME NEW r \in Runs, Refuse(r) PROVE ForeignInv'
  BY <1>2 DEF Refuse, Goto
<1>3. ASSUME NEW r \in Runs, Prepare(r) PROVE ForeignInv'
  BY <1>3 DEF Prepare, Goto
<1>4. ASSUME NEW r \in Runs, Spawn(r) PROVE ForeignInv'
  BY <1>4 DEF Spawn, Goto
<1>5. ASSUME NEW r \in Runs, SpawnFails(r) PROVE ForeignInv'
  BY <1>5 DEF SpawnFails, StopWith, Goto
<1>6. ASSUME NEW r \in Runs, Pressure(r) PROVE ForeignInv'
  BY <1>6 DEF Pressure, StopWith, Goto
<1>7. ASSUME NEW r \in Runs, ChildExited(r) PROVE ForeignInv'
  BY <1>7 DEF ChildExited, StopWith, Goto, Verified
<1>8. ASSUME NEW r \in Runs, ChildRuns(r) PROVE ForeignInv'
  BY <1>8 DEF ChildRuns, Goto
<1>9. ASSUME NEW r \in Runs, Inspect(r) PROVE ForeignInv'
  BY <1>9 DEF Inspect, StopWith, Goto
<1>10. ASSUME NEW r \in Runs, Pin(r) PROVE ForeignInv'
  BY <1>10 DEF Pin, Goto, PinStep
<1>11. ASSUME NEW r \in Runs, Start(r) PROVE ForeignInv'
  BY <1>11 DEF Start, Goto
<1>12. ASSUME NEW r \in Runs, StartFails(r) PROVE ForeignInv'
  BY <1>12 DEF StartFails, StopWith, Goto
<1>13. ASSUME NEW r \in Runs, CheckLive(r) PROVE ForeignInv'
  BY <1>13 DEF CheckLive, StopWith, Goto
<1>14. ASSUME NEW r \in Runs, TimedOut(r) PROVE ForeignInv'
  BY <1>14 DEF TimedOut, StopWith, Goto
<1>15. ASSUME NEW r \in Runs, NotOwned(r) PROVE ForeignInv'
  BY <1>15 DEF NotOwned, Returned, Goto
<1>16. ASSUME NEW r \in Runs, Stop(r) PROVE ForeignInv'
  BY <1>16 DEF Stop, Goto
<1>17. ASSUME NEW r \in Runs, StopUnit(r) PROVE ForeignInv'
  BY <1>17 DEF StopUnit, Goto, KillScope
<1>18. ASSUME NEW r \in Runs, UnitStopped(r) PROVE ForeignInv'
  BY <1>18 DEF UnitStopped, Goto
<1>19. ASSUME NEW r \in Runs, StopTimesOut(r) PROVE ForeignInv'
  BY <1>19 DEF StopTimesOut, Goto
<1>20. ASSUME NEW r \in Runs, Collected(r) PROVE ForeignInv'
  BY <1>20 DEF Collected, Returned, Goto
<1>21. ASSUME NEW r \in Runs, NotCollected(r) PROVE ForeignInv'
  BY <1>21 DEF NotCollected, Goto
<1>22. ASSUME NEW r \in Runs, ManagerFails(r) PROVE ForeignInv'
  BY <1>22 DEF ManagerFails, Goto
<1>23. ASSUME NEW r \in Runs, KillPinned(r) PROVE ForeignInv'
  BY <1>23 DEF KillPinned, KillScope, PinnedPopulated
<1>24. ASSUME NEW r \in Runs, PinnedEmpty(r) PROVE ForeignInv'
  BY <1>24 DEF PinnedEmpty, Returned, Goto, PinnedPopulated
<1>25. ASSUME NEW r \in Runs, PinnedRemains(r) PROVE ForeignInv'
  BY <1>25 DEF PinnedRemains, Returned, Goto, PinnedPopulated
<1>26. ASSUME NEW r \in Runs, Terminate(r) PROVE ForeignInv'
  BY <1>26 DEF Terminate, Goto
<1>27. ASSUME NEW r \in Runs, Reap(r) PROVE ForeignInv'
  BY <1>27 DEF Reap, Goto
<1>28. ASSUME NEW r \in Runs, Finish(r) PROVE ForeignInv'
  BY <1>28 DEF Finish, Goto
<1>29. ASSUME NEW r \in Runs, Release(r) PROVE ForeignInv'
  BY <1>29 DEF Release, Goto, Forget
<1>30. ASSUME NEW r \in Runs, Crash(r) PROVE ForeignInv'
  BY <1>30 DEF Crash, Forget
<1>31. ASSUME NEW r \in Runs, Launch(r) PROVE ForeignInv'
  BY <1>31 DEF Launch
<1>32. ASSUME NEW r \in Runs, Join(r) PROVE ForeignInv'
  BY <1>32 DEF Join
<1>33. ASSUME NEW r \in Runs, RunTarget(r) PROVE ForeignInv'
  BY <1>33 DEF RunTarget
<1>34. ASSUME NEW r \in Runs, Fork(r) PROVE ForeignInv'
  BY <1>34 DEF Fork
<1>35. ASSUME NEW r \in Runs, HitLimit(r) PROVE ForeignInv'
  BY <1>35 DEF HitLimit
<1>36. ASSUME NEW r \in Runs, TargetEnds(r) PROVE ForeignInv'
  BY <1>36 DEF TargetEnds
<1>37. ASSUME NEW r \in Runs, Report(r) PROVE ForeignInv'
  BY <1>37 DEF Report
<1>38. ASSUME NEW r \in Runs, ChildDies(r) PROVE ForeignInv'
  BY <1>38 DEF ChildDies
<1>39. ASSUME NEW r \in Runs, RestEnds(r) PROVE ForeignInv'
  BY <1>39 DEF RestEnds
<1>40. ASSUME NEW r \in Runs, Expire(r) PROVE ForeignInv'
  BY <1>40 DEF Expire, KillScope
<1>41. ASSUME Deactivate PROVE ForeignInv'
  BY <1>41 DEF Deactivate
<1>42. ASSUME Collect PROVE ForeignInv'
  BY <1>42 DEF Collect, PathExists
<1>43. CASE UNCHANGED vars
  BY <1>43 DEF vars
<1>. QED
  BY <1>1, <1>2, <1>3, <1>4, <1>5, <1>6, <1>7, <1>8, <1>9, <1>10, <1>11,
     <1>12, <1>13, <1>14, <1>15, <1>16, <1>17, <1>18, <1>19, <1>20, <1>21,
     <1>22, <1>23, <1>24, <1>25, <1>26, <1>27, <1>28, <1>29, <1>30, <1>31,
     <1>32, <1>33, <1>34, <1>35, <1>36, <1>37, <1>38, <1>39, <1>40, <1>41,
     <1>42, <1>43 DEF Next, Own, StopScope, Process

-----------------------------------------------------------------------------
(* Theorems *)

\* In every behaviour lease, unit name, scopes and owners agree.
THEOREM Invariant == Spec => []IInv
<1>1. Init => IInv
  <2>. SUFFICES ASSUME Init PROVE IInv
    OBVIOUS
  <2>1. TypeOK
    <3>1. killers \in [Runs -> SUBSET (Runs \cup {"manager"})]
      BY DEF Init
    <3>2. child \in [Runs -> InScope \cup {"none", "launcher", "joining", "zombie", "reaped"}]
      BY DEF Init
    <3>3. attempt \in [Runs -> Attempts]
      BY DEF Init, Attempts
    <3>. QED
      BY <3>1, <3>2, <3>3 DEF Init, TypeOK
  <2>2. LeaseInv /\ PhaseInv
    BY ManagedConstants DEF Init, LeaseInv, PhaseInv, Fresh, Polling, Returning,
       Ended, KillSteps
  <2>3. UnitInv /\ PinInv
    BY ManagedConstants DEF Init, UnitInv, PinInv, InScope, Populated, Ended
  <2>4. ReportInv /\ StopInv /\ ForeignInv
    BY DEF Init, ReportInv, StopInv, ForeignInv, Ended, ChildLives, InScope,
       Doomed
  <2>. QED
    BY <2>1, <2>2, <2>3, <2>4 DEF IInv
<1>2. IInv /\ [Next]_vars => IInv'
  BY TypeStep, LeaseStep, PhaseStep, UnitStep, PinStepInv, ReportStep,
     StopStep, ForeignStep DEF IInv
<1>. QED
  BY <1>1, <1>2, PTL DEF Spec

\* The variables keep their types.
THEOREM TypeCorrect == Spec => []TypeOK
<1>1. IInv => TypeOK
  BY DEF IInv
<1>. QED
  BY <1>1, Invariant, PTL

\* An owner that lives can always kill its target without the manager.
THEOREM TargetPinned == Spec => []TargetIsPinned
<1>1. IInv => TargetIsPinned
  BY DEF IInv, PinInv, TargetIsPinned, Ended, Gone, Dead
<1>. QED
  BY <1>1, Invariant, PTL

\* A completed command leaves nothing in its scope and has reached no limit.
THEOREM CompletedVerified == Spec => []CompletedIsVerified
<1>1. IInv => CompletedIsVerified
  BY DEF IInv, ReportInv, CompletedIsVerified, Populated, InScope, Gone, Dead
<1>. QED
  BY <1>1, Invariant, PTL

\* An owner that returns leaves nothing without a KILL, whatever has failed.
THEOREM ReturnLeavesNothing == Spec => []ReturnedLeavesNothing
<1>1. IInv => ReturnedLeavesNothing
  BY DEF IInv, StopInv, ReturnedLeavesNothing
<1>. QED
  BY <1>1, Invariant, PTL

\* Nobody else's cleanup takes down the scope of an owner that is alive.
THEOREM LiveUndisturbed == Spec => []LiveRunUndisturbed
<1>1. IInv => LiveRunUndisturbed
  BY DEF IInv, ForeignInv, LiveRunUndisturbed
<1>. QED
  BY <1>1, Invariant, PTL

\* How far the reuse of the unit name goes: what an owner has open and may kill
\* is its own scope or that of an owner that was killed, never of one alive.
THEOREM CleanupSparesLive ==
  Spec => [](\A r, s \in Runs : pinned[r] = s /\ r # s => pc[s] = "crashed")
<1>1. IInv => \A r, s \in Runs : pinned[r] = s /\ r # s => pc[s] = "crashed"
  BY ManagedConstants DEF IInv, ForeignInv
<1>. QED
  BY <1>1, Invariant, PTL

=============================================================================
