-------------------------- MODULE WorkloadSupervisor --------------------------
(***************************************************************************)
(* The outer invocation of a contained command: the per-user workload      *)
(* slot, the systemd scope it launches itself again in, the readiness      *)
(* marker, cancellation, and the exit status it passes on                  *)
(* (src/src/resources/runtime/linux.rs, linux/supervisor.rs,               *)
(* linux/supervisor-readiness.rs, resources/lease.rs, cli_runtime.rs).     *)
(*                                                                         *)
(* The slot is an flock on an open file description.  The scope leader and *)
(* what it starts inherit the descriptor, so the slot is free when the     *)
(* last process holding it is gone.  systemd-run becomes the leader by     *)
(* exec, so both are one process.  Commands inside the scope find their    *)
(* boundary, take no slot and are part of the workload.                    *)
(*                                                                         *)
(* A supervisor, its leader and the tools may be killed at any time.       *)
(***************************************************************************)
CONSTANTS
  Commands,    \* invocations that need a scope of their own
  Free,        \* the slot has no owner
  Disturbed,   \* those whose supervisor may receive a signal, SIGKILL included
  Unreliable   \* those whose queries and stop requests to the user manager may fail

ASSUME SupervisorConstants ==
  /\ Free \notin Commands
  /\ Disturbed \subseteq Commands
  /\ Unreliable \subseteq Commands

VARIABLES
  pc,         \* next step of each supervisor
  from,       \* who called stop_scope: cancel or the final cleanup
  signalled,  \* the supervisor received SIGINT or SIGTERM
  late,       \* more than 1810 seconds have passed
  slot,       \* whose open file description holds the lock
  holders,    \* processes of that command which have the description open
  scope,      \* the transient unit of the command
  leader,     \* systemd-run, then the inner hardgate
  code,       \* exit status of the leader
  tools,      \* project tools are running in the scope
  marker,     \* the readiness marker exists
  result,     \* Result of supervise
  status,     \* exit status of the supervisor
  evaluated   \* history: the inner hardgate itself finished an evaluation

lock     == <<slot, holders>>
workload == <<scope, leader, code, tools, marker, evaluated>>
verdict  == <<result, status>>
vars == <<pc, from, signalled, late, lock, workload, verdict>>

Roles == {"supervisor", "leader", "tools"}
Alive == {"launching", "inside", "admitted"}
Codes == {"evaluated", "incomplete", "interrupted", "killed"}  \* 0|1, 2, 130|143, other
Waiting == {"queue", "acquired", "wait", "kill", "cleanup", "show", "stop", "verify",
            "judge", "exit"}

Init ==
  /\ pc = [c \in Commands |-> "idle"]
  /\ from = [c \in Commands |-> "cleanup"]
  /\ signalled = [c \in Commands |-> FALSE]
  /\ late = [c \in Commands |-> FALSE]
  /\ slot = Free /\ holders = {}
  /\ scope = [c \in Commands |-> "none"]
  /\ leader = [c \in Commands |-> "none"]
  /\ code = [c \in Commands |-> "none"]
  /\ tools = [c \in Commands |-> FALSE]
  /\ marker = [c \in Commands |-> FALSE]
  /\ result = [c \in Commands |-> "none"]
  /\ status = [c \in Commands |-> "none"]
  /\ evaluated = [c \in Commands |-> FALSE]

Goto(c, here, there) == pc[c] = here /\ pc' = [pc EXCEPT ![c] = there]

Set(f, c, value) == f' = [f EXCEPT ![c] = value]

\* Mutant: the lock is unlocked and not only closed.
ClosedUnlocking(c, roles) ==
  IF slot # c THEN UNCHANGED lock
  ELSE holders' = holders \ roles /\ slot' = Free

\* These processes of c have closed the description.
Closed(c, roles) ==
  IF slot # c THEN UNCHANGED lock
  ELSE /\ holders' = holders \ roles
       /\ slot' = IF holders' = {} THEN Free ELSE slot

-----------------------------------------------------------------------------
(* The supervisor: enter, acquire_workload and launch *)

\* No signal, no pressure and no boundary that fits.
Enter(c) ==
  /\ Goto(c, "idle", "queue")
  /\ UNCHANGED <<from, signalled, late, lock, workload, verdict>>

Acquire(c) ==
  /\ Goto(c, "queue", "acquired")
  /\ slot = Free
  /\ slot' = c /\ holders' = {"supervisor"}
  /\ UNCHANGED <<from, signalled, late, workload, verdict>>

\* A busy slot: cancelled while queued, or 30 minutes of contention.
GiveUp(c) ==
  /\ Goto(c, "queue", "exit")
  /\ slot # Free
  /\ Set(result, c, "error")
  /\ UNCHANGED <<from, signalled, late, lock, workload, status>>

\* Mutant: the leader does not inherit the lock.
LaunchCloseOnExec(c) ==
  /\ Goto(c, "acquired", "wait")
  /\ ~signalled[c]
  /\ Set(leader, c, "launching")
  /\ UNCHANGED <<from, signalled, late, lock, scope, code, tools, marker, evaluated, verdict>>

\* The descriptor is not close-on-exec: inherit_workload, then spawn.
Launch(c) ==
  /\ Goto(c, "acquired", "wait")
  /\ ~signalled[c]
  /\ Set(leader, c, "launching")
  /\ holders' = holders \cup {"leader"}
  /\ UNCHANGED <<from, signalled, late, slot, scope, code, tools, marker, evaluated, verdict>>

\* Cancelled after the wait, or no readiness directory or child.
LaunchFails(c) ==
  /\ Goto(c, "acquired", "exit")
  /\ Set(result, c, "error")
  /\ UNCHANGED <<from, signalled, late, lock, workload, status>>

-----------------------------------------------------------------------------
(* wait and cancel *)

\* exit_code, of a child that try_wait has reaped.
LeaderExited(c) ==
  /\ Goto(c, "wait", "cleanup")
  /\ leader[c] = "exited"
  /\ Set(result, c, IF code[c] = "killed" THEN "error" ELSE code[c])
  /\ UNCHANGED <<from, signalled, late, lock, workload, status>>

Cancel(c) ==
  /\ Goto(c, "wait", IF marker[c] THEN "show" ELSE "kill")
  /\ leader[c] # "exited" /\ (signalled[c] \/ late[c])
  /\ Set(from, c, "cancel") /\ Set(result, c, "error")
  /\ UNCHANGED <<signalled, late, lock, workload, status>>

\* The leader is gone; its exit status stands if it had ended before.
LeaderDies(c, how) ==
  /\ Set(leader, c, "exited")
  /\ IF leader[c] \in Alive THEN Set(code, c, how) ELSE UNCHANGED code

\* Mutant: the marker is not looked at again after the kill.
KillAndJudge(c) ==
  /\ Goto(c, "kill", "judge")
  /\ LeaderDies(c, "killed") /\ Closed(c, {"leader"})
  /\ UNCHANGED <<from, signalled, late, scope, tools, marker, evaluated, verdict>>

\* child.kill and child.wait: the leader alone, whatever it has started by now.
Kill(c) ==
  /\ Goto(c, "kill", "cleanup")
  /\ LeaderDies(c, "killed") /\ Closed(c, {"leader"})
  /\ UNCHANGED <<from, signalled, late, scope, tools, marker, evaluated, verdict>>

-----------------------------------------------------------------------------
(* supervise, after wait *)

\* Mutant: only a failed workload is cleaned up.
CleanupOfFailures(c) ==
  /\ Goto(c, "cleanup", IF marker[c] /\ result[c] = "error" THEN "show" ELSE "judge")
  /\ Set(from, c, "cleanup")
  /\ UNCHANGED <<signalled, late, lock, workload, verdict>>

Cleanup(c) ==
  /\ Goto(c, "cleanup", IF marker[c] THEN "show" ELSE "judge")
  /\ Set(from, c, "cleanup")
  /\ UNCHANGED <<signalled, late, lock, workload, verdict>>

\* Mutant: systemd-run's own failure passes for a verdict.
JudgeUnacknowledged(c) ==
  /\ Goto(c, "judge", "exit")
  /\ UNCHANGED <<from, signalled, late, lock, workload, verdict>>

\* Exit 0 or 1 of a leader that never acknowledged its scope is an error.
Judge(c) ==
  /\ Goto(c, "judge", "exit")
  /\ result' = IF result[c] = "evaluated" /\ ~marker[c]
               THEN [result EXCEPT ![c] = "error"] ELSE result
  /\ UNCHANGED <<from, signalled, late, lock, workload, status>>

\* Readiness::drop, then run_parsed: Finished(code) is returned as it is, an
\* error goes through finish, which looks at the signal.
Exit(c) ==
  /\ Goto(c, "exit", "ended")
  /\ Set(status, c, IF result[c] # "error" THEN result[c]
                    ELSE IF signalled[c] THEN "interrupted" ELSE "incomplete")
  /\ Set(marker, c, FALSE)
  /\ Closed(c, {"supervisor"})
  /\ UNCHANGED <<from, signalled, late, scope, leader, code, tools, evaluated, result>>

-----------------------------------------------------------------------------
(* stop_scope *)

Stopped(c) == IF from[c] = "cancel" THEN "kill" ELSE "judge"

\* owned_active, before and after the stop request.
Show(c) ==
  /\ pc[c] \in {"show", "verify"}
  /\ \/ scope[c] # "active" /\ Set(pc, c, Stopped(c))
     \/ pc[c] = "show" /\ scope[c] = "active" /\ Set(pc, c, "stop")
  /\ UNCHANGED <<from, signalled, late, lock, workload, verdict>>

\* KillMode=control-group: TERM for every process of the scope, KILL after 1 s.
ScopeKilled(c) ==
  /\ \E how \in {"interrupted", "killed"} : LeaderDies(c, how)
  /\ Set(tools, c, FALSE) /\ Set(scope, c, "gone")
  /\ Closed(c, {"leader", "tools"})
  /\ UNCHANGED <<marker, evaluated>>

Stop(c) ==
  /\ Goto(c, "stop", "verify")
  /\ IF scope[c] = "active" THEN ScopeKilled(c) ELSE UNCHANGED <<lock, workload>>
  /\ UNCHANGED <<from, signalled, late, verdict>>

\* Mutant: the stop request is repeated after a failure.
ManagerRetried(c) ==
  /\ c \in Unreliable
  /\ pc[c] \in {"show", "stop", "verify"}
  /\ Set(pc, c, "stop")
  /\ Set(result, c, "error")
  /\ UNCHANGED <<from, signalled, late, lock, workload, status>>

\* A bounded control command failed; `?` leaves cancel, and supervise cleans up.
ManagerFails(c) ==
  /\ c \in Unreliable
  /\ pc[c] \in {"show", "stop", "verify"}
  /\ Set(pc, c, IF from[c] = "cancel" THEN "cleanup" ELSE "judge")
  /\ Set(result, c, "error")
  /\ UNCHANGED <<from, signalled, late, lock, workload, status>>

-----------------------------------------------------------------------------
(* The leader, its tools and the scope *)

ScopeStarts(c) ==
  /\ leader[c] = "launching"
  /\ Set(leader, c, "inside") /\ Set(scope, c, "active")
  /\ UNCHANGED <<pc, from, signalled, late, lock, code, tools, marker, evaluated, verdict>>

\* systemd-run fails with exit status 1.
LauncherFails(c) ==
  /\ leader[c] = "launching"
  /\ LeaderDies(c, "evaluated") /\ Closed(c, {"leader"})
  /\ UNCHANGED <<pc, from, signalled, late, scope, tools, marker, evaluated, verdict>>

\* The inner enter: the boundary is verified before the marker is created, and
\* nothing is executed before that.
Acknowledge(c) ==
  /\ leader[c] = "inside" /\ pc[c] # "ended"
  /\ Set(leader, c, "admitted") /\ Set(marker, c, TRUE)
  /\ UNCHANGED <<pc, from, signalled, late, lock, scope, code, tools, evaluated, verdict>>

InnerRefuses(c) ==
  /\ leader[c] = "inside"
  /\ \E how \in {"incomplete", "interrupted"} : LeaderDies(c, how)
  /\ Closed(c, {"leader"})
  /\ UNCHANGED <<pc, from, signalled, late, scope, tools, marker, evaluated, verdict>>

StartTools(c) ==
  /\ leader[c] = "admitted" /\ ~tools[c]
  /\ Set(tools, c, TRUE)
  /\ holders' = IF slot = c THEN holders \cup {"tools"} ELSE holders
  /\ UNCHANGED <<pc, from, signalled, late, slot, scope, leader, code, marker, evaluated,
                 verdict>>

\* The tools end, or only close what they inherited.
ToolsLetGo(c) ==
  /\ tools[c]
  /\ tools' \in {tools, [tools EXCEPT ![c] = FALSE]}
  /\ Closed(c, {"tools"})
  /\ UNCHANGED <<pc, from, signalled, late, scope, leader, code, marker, evaluated, verdict>>

\* The leader ends or is killed; tools that left its process groups stay.
LeaderEnds(c) ==
  /\ leader[c] = "admitted"
  /\ \E how \in Codes : LeaderDies(c, how)
  /\ Closed(c, {"leader"})
  /\ Set(evaluated, c, code'[c] = "evaluated")
  /\ UNCHANGED <<pc, from, signalled, late, scope, tools, marker, verdict>>

\* Mutant: the scope has no runtime ceiling.
ExpireNever(c) == FALSE /\ UNCHANGED vars

\* RuntimeMaxSec, or the kernel under OOMPolicy=kill.
Expire(c) ==
  /\ scope[c] = "active"
  /\ ScopeKilled(c)
  /\ UNCHANGED <<pc, from, signalled, late, verdict>>

\* An empty scope is collected.
Collect(c) ==
  /\ scope[c] = "active" /\ leader[c] = "exited" /\ ~tools[c]
  /\ Set(scope, c, "gone")
  /\ UNCHANGED <<pc, from, signalled, late, lock, leader, code, tools, marker, evaluated,
                 verdict>>

-----------------------------------------------------------------------------

Signal(c) ==
  /\ c \in Disturbed /\ pc[c] \in Waiting /\ ~signalled[c]
  /\ Set(signalled, c, TRUE)
  /\ UNCHANGED <<pc, from, late, lock, workload, verdict>>

RunsLong(c) ==
  /\ pc[c] = "wait" /\ ~late[c]
  /\ Set(late, c, TRUE)
  /\ UNCHANGED <<pc, from, signalled, lock, workload, verdict>>

\* SIGKILL for the supervisor: no cleanup, and its marker directory stays.
SupervisorKilled(c) ==
  /\ c \in Disturbed /\ pc[c] \in Waiting
  /\ Set(pc, c, "killed")
  /\ Closed(c, {"supervisor"})
  /\ UNCHANGED <<from, signalled, late, workload, verdict>>

Supervise(c) ==
  \/ Acquire(c) \/ GiveUp(c) \/ Launch(c) \/ LaunchFails(c)
  \/ LeaderExited(c) \/ Cancel(c) \/ Kill(c) \/ Cleanup(c) \/ Judge(c) \/ Exit(c)
  \/ Show(c) \/ Stop(c) \/ ManagerFails(c)

Launcher(c) == ScopeStarts(c) \/ LauncherFails(c)

Workload(c) ==
  \/ Launcher(c) \/ Acknowledge(c) \/ InnerRefuses(c) \/ StartTools(c) \/ ToolsLetGo(c)
  \/ LeaderEnds(c) \/ Expire(c) \/ Collect(c)

Next == \E c \in Commands :
  \/ Enter(c) \/ Supervise(c) \/ Workload(c)
  \/ Signal(c) \/ RunsLong(c) \/ SupervisorKilled(c)

Spec == Init /\ [][Next]_vars

\* The supervisor is scheduled, clocks advance, systemd-run either starts its
\* scope or fails, and the manager enforces the runtime ceiling of the scope.
FairSpec ==
  Spec /\ \A c \in Commands :
    WF_vars(Supervise(c)) /\ WF_vars(RunsLong(c)) /\ WF_vars(Launcher(c)) /\ WF_vars(Expire(c))

-----------------------------------------------------------------------------
(* Properties *)

\* The variables keep their types; a held slot is held by somebody.
TypeOK ==
  /\ pc \in [Commands -> {"idle", "ended", "killed"} \cup Waiting]
  /\ from \in [Commands -> {"cancel", "cleanup"}]
  /\ signalled \in [Commands -> BOOLEAN] /\ late \in [Commands -> BOOLEAN]
  /\ slot \in Commands \cup {Free}
  /\ holders \subseteq Roles
  /\ slot = Free <=> holders = {}
  /\ scope \in [Commands -> {"none", "active", "gone"}]
  /\ leader \in [Commands -> {"none", "exited"} \cup Alive]
  /\ code \in [Commands -> {"none"} \cup Codes]
  /\ tools \in [Commands -> BOOLEAN] /\ marker \in [Commands -> BOOLEAN]
  /\ evaluated \in [Commands -> BOOLEAN]
  /\ result \in [Commands -> {"none", "evaluated", "incomplete", "interrupted", "error"}]
  /\ status \in [Commands -> {"none", "evaluated", "incomplete", "interrupted"}]

\* At most one workload has a live leader, even when supervisors are killed and
\* their workloads go on without them.
LeadersExclusive ==
  \A c, d \in Commands : leader[c] \in Alive /\ leader[d] \in Alive => c = d

\* Exit status 0 or 1 is the verdict of the inner command, never of the launcher,
\* the manager or a workload that was killed.
VerdictIsEvaluated ==
  \A c \in Commands : status[c] = "evaluated" => evaluated[c]

\* An exit status that was passed on leaves neither leader nor tools behind,
\* not even when queries to the manager fail.
ReturnedMeansStopped ==
  \A c \in Commands :
    pc[c] = "ended" /\ result[c] # "error" => leader[c] \notin Alive /\ ~tools[c]

\* With a manager that answers, a supervisor that returns at all, an error and
\* a cancellation included, leaves nothing running: not even tools that the
\* leader starts between the look at the marker and the kill.
CancellationStops ==
  \A c \in Commands \ Unreliable : pc[c] = "ended" => leader[c] \notin Alive /\ ~tools[c]

\* A signal the supervisor observed decides its exit status.
SignalDecidesStatus ==
  \A c \in Commands : pc[c] = "ended" /\ signalled[c] => status[c] = "interrupted"

\* A supervisor returns whatever its workload does.
SupervisorReturns ==
  \A c \in Commands : pc[c] \in Waiting ~> pc[c] \in {"ended", "killed"}

\* The slot of a workload becomes free again, also when its supervisor was
\* killed and tools that nobody waits for hold it.
SlotIsReleased == \A c \in Commands : slot = c ~> slot # c

=============================================================================
