---------------------------- MODULE ManagedMutation ----------------------------
(***************************************************************************)
(* A mutation command under the resource guard: the per-user lease, the    *)
(* transient scope of the fixed unit name, the shim that waits in it for   *)
(* the start marker, the pinned cgroup directory, the report the shim      *)
(* leaves and the cleanup (src/src/engines/process/mutation.rs,            *)
(* resources/managed/*.rs, resources/lease.rs).                            *)
(*                                                                         *)
(* The direct child of the owner is systemd-run, which creates the scope,  *)
(* joins it and becomes the shim.  The lease is closed on exec, so a       *)
(* killed owner leaves child and scope behind and lets the next owner in.  *)
(* Any process may end at any time, and one that is killed may take as     *)
(* long as it likes.  The manager reports a stop as done once the scope is *)
(* inactive or failed, and collects a scope that is neither active nor     *)
(* populated.                                                              *)
(***************************************************************************)
EXTENDS Naturals

CONSTANTS
  Runs,        \* invocations of the mutation command
  Crashing,    \* those whose owner may be killed
  Unreliable,  \* those whose requests to the manager may fail
  None         \* no invocation

ASSUME ManagedConstants ==
  /\ Crashing \subseteq Runs /\ Unreliable \subseteq Runs
  /\ None \notin Runs /\ "manager" \notin Runs

VARIABLES
  lease,       \* holder of the mutation lease
  unit,        \* the invocation whose scope bears the unit name
  active,      \* that scope is neither inactive nor failed
  pc,          \* next step of each owner
  wait,        \* ProcessWait
  attempt,     \* 1: finish_managed_wait stops the scope, 2: Drop does
  outcome,     \* ProcessOutcome
  invocation,  \* the owner has seen its scope in the manager
  located,     \* ManagedCommand.cgroup is set
  pinned,      \* whose cgroup directory is open
  owned,       \* ManagedCommand.owned
  marker,      \* the start marker is published
  child,       \* the direct child: launcher, then shim, then target
  rest,        \* descendants of the target are left in the scope
  hit,         \* the scope has reached a limit
  report,      \* what a shim that ended with the status of its target left
  killers,     \* who has killed the scope
  gkilled      \* the process group of the direct child is killed

manager == <<unit, active>>
progress == <<wait, attempt, outcome>>
handle  == <<invocation, located, pinned, owned>>
scope   == <<child, rest, hit, report>>
kills   == <<killers, gkilled>>
vars == <<lease, manager, pc, progress, handle, marker, scope, kills>>

Attempts == 1..2

Init ==
  /\ lease = None /\ unit = None /\ active = FALSE
  /\ pc = [r \in Runs |-> "idle"]
  /\ wait = [r \in Runs |-> "none"]
  /\ attempt = [r \in Runs |-> 1]
  /\ outcome = [r \in Runs |-> "none"]
  /\ invocation = [r \in Runs |-> FALSE]
  /\ located = [r \in Runs |-> FALSE]
  /\ pinned = [r \in Runs |-> None]
  /\ owned = [r \in Runs |-> TRUE]
  /\ marker = [r \in Runs |-> FALSE]
  /\ child = [r \in Runs |-> "none"]
  /\ rest = [r \in Runs |-> FALSE]
  /\ hit = [r \in Runs |-> FALSE]
  /\ report = [r \in Runs |-> "none"]
  /\ killers = [r \in Runs |-> {}]
  /\ gkilled = [r \in Runs |-> FALSE]

Goto(r, from, to) == pc[r] = from /\ pc' = [pc EXCEPT ![r] = to]

StopWith(r, from, why) ==
  /\ Goto(r, from, "stop")
  /\ wait' = [wait EXCEPT ![r] = why]

-----------------------------------------------------------------------------
(* The scope and its processes *)

InScope   == {"shim", "target", "reporting"}
ChildLives(r) == child[r] \in InScope \cup {"launcher", "joining"}
Populated(r)  == child[r] \in InScope \/ rest[r]
Killed(r)     == killers[r] # {} \/ gkilled[r]

\* The cgroup of the unit name is there: a populated one is never removed.
PathExists == unit # None /\ (active \/ Populated(unit))

\* systemd-run asks for the scope: the unit exists before it has a cgroup.  A
\* unit that exists already makes it fail.
Launch(r) ==
  /\ child[r] = "launcher" /\ ~Killed(r)
  /\ \/ /\ unit = None /\ unit' = r
        /\ child' = [child EXCEPT ![r] = "joining"]
     \/ /\ unit # None /\ UNCHANGED unit
        /\ child' = [child EXCEPT ![r] = "zombie"]
  /\ UNCHANGED <<lease, active, pc, progress, handle, marker, rest, hit, report, kills>>

\* It is moved into the cgroup and executes the shim.
Join(r) ==
  /\ child[r] = "joining" /\ ~Killed(r)
  /\ active' = TRUE
  /\ child' = [child EXCEPT ![r] = "shim"]
  /\ UNCHANGED <<lease, unit, pc, progress, handle, marker, rest, hit, report, kills>>

\* The shim has checked the limits and finds the marker of its identity.
RunTarget(r) ==
  /\ child[r] = "shim" /\ marker[r] /\ ~Killed(r)
  /\ child' = [child EXCEPT ![r] = "target"]
  /\ UNCHANGED <<lease, manager, pc, progress, handle, marker, rest, hit, report, kills>>

Fork(r) ==
  /\ child[r] = "target" /\ ~Killed(r)
  /\ rest' = [rest EXCEPT ![r] = TRUE]
  /\ UNCHANGED <<lease, manager, pc, progress, handle, marker, child, hit, report, kills>>

HitLimit(r) ==
  /\ child[r] = "target" \/ rest[r]
  /\ ~hit[r] /\ hit' = [hit EXCEPT ![r] = TRUE]
  /\ UNCHANGED <<lease, manager, pc, progress, handle, marker, child, rest, report, kills>>

TargetEnds(r) ==
  /\ child[r] = "target" /\ ~Killed(r)
  /\ child' = [child EXCEPT ![r] = "reporting"]
  /\ UNCHANGED <<lease, manager, pc, progress, handle, marker, rest, hit, report, kills>>

\* Mutant: the shim reports although descendants remain.
ReportAnyway(r) ==
  /\ child[r] = "reporting" /\ ~Killed(r)
  /\ child' = [child EXCEPT ![r] = "zombie"]
  /\ report' = [report EXCEPT ![r] = IF hit[r] THEN "hit" ELSE "clean"]
  /\ UNCHANGED <<lease, manager, pc, progress, handle, marker, rest, hit, kills>>

\* check_processes, the counters, the report; then the status of the target.
Report(r) ==
  /\ child[r] = "reporting" /\ ~Killed(r)
  /\ child' = [child EXCEPT ![r] = "zombie"]
  /\ report' = [report EXCEPT ![r] = IF rest[r] THEN "none"
                                      ELSE IF hit[r] THEN "hit" ELSE "clean"]
  /\ UNCHANGED <<lease, manager, pc, progress, handle, marker, rest, hit, kills>>

\* fail of the shim, a signal or a kill.
ChildDies(r) ==
  /\ ChildLives(r)
  /\ child' = [child EXCEPT ![r] = "zombie"]
  /\ UNCHANGED <<lease, manager, pc, progress, handle, marker, rest, hit, report,
                 kills>>

RestEnds(r) ==
  /\ rest[r] /\ rest' = [rest EXCEPT ![r] = FALSE]
  /\ UNCHANGED <<lease, manager, pc, progress, handle, marker, child, hit, report, kills>>

\* A stop also cancels the start of a scope.
KillScope(r, who) ==
  killers' = [killers EXCEPT ![r] = IF Populated(r) \/ child[r] = "joining"
                                      THEN @ \cup {who} ELSE @]

\* Mutant: the scope has no RuntimeMaxSec.
ExpireNever(r) == FALSE /\ UNCHANGED vars

\* RuntimeMaxSec is over, or the kernel is out of memory: OOMPolicy=kill.
Expire(r) ==
  /\ unit = r /\ active /\ Populated(r) /\ "manager" \notin killers[r]
  /\ KillScope(r, "manager")
  /\ UNCHANGED <<lease, manager, pc, progress, handle, marker, scope, gkilled>>

\* The scope is empty, or the manager gives up after its last KILL.
Deactivate ==
  /\ active /\ (~Populated(unit) \/ killers[unit] # {})
  /\ active' = FALSE
  /\ UNCHANGED <<lease, unit, pc, progress, handle, marker, scope, kills>>

\* --collect.
Collect ==
  /\ unit # None /\ ~PathExists /\ child[unit] # "joining"
  /\ unit' = None
  /\ killers' = [killers EXCEPT ![unit] = {}]
  /\ UNCHANGED <<lease, active, pc, progress, handle, marker, scope, gkilled>>

-----------------------------------------------------------------------------
(* MutationGuard::acquire and ManagedCommand::prepare *)

\* Mutant: the lease excludes nobody.
AcquireShared(r) ==
  /\ Goto(r, "idle", "prepare")
  /\ lease' = r
  /\ UNCHANGED <<manager, progress, handle, marker, scope, kills>>

Acquire(r) ==
  /\ Goto(r, "idle", "prepare")
  /\ lease = None /\ lease' = r
  /\ UNCHANGED <<manager, progress, handle, marker, scope, kills>>

\* reject_previous, then the evidence directory.
Prepare(r) ==
  /\ Goto(r, "prepare", "spawn")
  /\ unit = None
  /\ UNCHANGED <<lease, manager, progress, handle, marker, scope, kills>>

\* A busy lease, too little memory, an existing unit or no manager.
Refuse(r) ==
  /\ \/ Goto(r, "idle", "done") /\ UNCHANGED lease
     \/ Goto(r, "prepare", "done") /\ lease' = None
  /\ outcome' = [outcome EXCEPT ![r] = "failed"]
  /\ UNCHANGED <<manager, wait, attempt, handle, marker, scope, kills>>

Spawn(r) ==
  /\ Goto(r, "spawn", "poll")
  /\ child' = [child EXCEPT ![r] = "launcher"]
  /\ UNCHANGED <<lease, manager, progress, handle, marker, rest, hit, report, 
                 kills>>

\* An early return: Drop is all the cleanup there is.
SpawnFails(r) ==
  /\ StopWith(r, "spawn", "error")
  /\ outcome' = [outcome EXCEPT ![r] = "failed"]
  /\ attempt' = [attempt EXCEPT ![r] = 2]
  /\ UNCHANGED <<lease, manager, handle, marker, scope, kills>>

-----------------------------------------------------------------------------
(* wait_guarded and ManagedCommand::poll *)

\* check_pressure at the head of the loop.
Pressure(r) ==
  /\ StopWith(r, "poll", "error")
  /\ UNCHANGED <<lease, manager, attempt, outcome, handle, marker, scope, kills>>

\* CommandEvidence::verify.
Verified(r) == report[r] = "clean"

ChildExited(r) ==
  /\ child[r] = "zombie"
  /\ StopWith(r, "poll", IF Verified(r) THEN "exited" ELSE "error")
  /\ child' = [child EXCEPT ![r] = "reaped"]
  /\ UNCHANGED <<lease, manager, attempt, outcome, handle, marker, rest, hit,
                 report, kills>>

ChildRuns(r) ==
  /\ ChildLives(r)
  /\ Goto(r, "poll", "inspect")
  /\ UNCHANGED <<lease, manager, progress, handle, marker, scope, kills>>

\* observe: verify_identity refuses the scope of another invocation.
Inspect(r) ==
  /\ \/ unit = None /\ Goto(r, "inspect", "start") /\ UNCHANGED <<wait, invocation>>
     \/ /\ unit = r /\ Goto(r, "inspect", IF PathExists THEN "pin" ELSE "start")
        /\ invocation' = [invocation EXCEPT ![r] = TRUE]
        /\ UNCHANGED wait
     \/ /\ unit \notin {r, None} \/ r \in Unreliable
        /\ StopWith(r, "inspect", "error") /\ UNCHANGED invocation
  /\ UNCHANGED <<lease, manager, attempt, outcome, located, pinned, owned,
                 marker, scope, kills>>

\* pin_cgroup opens the path the manager has told, whoever it belongs to now.
PinStep == [pin |-> "start", stop_pin |-> "stop_unit"]

Pin(r) ==
  /\ \E from \in DOMAIN PinStep : Goto(r, from, PinStep[from])
  /\ located' = [located EXCEPT ![r] = TRUE]
  /\ pinned' = [pinned EXCEPT ![r] = IF @ = None /\ PathExists THEN unit ELSE @]
  /\ UNCHANGED <<lease, manager, progress, invocation, owned, marker, scope, kills>>

\* Mutant: the shim may start as soon as the manager knows the scope.
StartUnpinned(r) ==
  /\ Goto(r, "start", "check")
  /\ marker' = [marker EXCEPT ![r] = @ \/ invocation[r]]
  /\ UNCHANGED <<lease, manager, progress, handle, scope, kills>>

\* start_when_pinned.
Start(r) ==
  /\ Goto(r, "start", "check")
  /\ marker' = [marker EXCEPT ![r] = @ \/ (pinned[r] # None /\ invocation[r])]
  /\ UNCHANGED <<lease, manager, progress, handle, scope, kills>>

\* allow_start fails before or after the link.
StartFails(r) ==
  /\ ~marker[r] /\ pinned[r] # None /\ invocation[r]
  /\ StopWith(r, "start", "error")
  /\ marker' \in {marker, [marker EXCEPT ![r] = TRUE]}
  /\ UNCHANGED <<lease, manager, attempt, outcome, handle, scope, kills>>

\* check_current_cgroup reads by path; only an empty pinned group excuses a
\* path that is gone.
LiveCheckPasses(r) ==
  \/ ~located[r]
  \/ PathExists /\ ~hit[unit]
  \/ ~PathExists /\ pinned[r] # None /\ ~Populated(pinned[r])

CheckLive(r) ==
  /\ \/ Goto(r, "check", "poll") /\ LiveCheckPasses(r) /\ UNCHANGED wait
     \/ StopWith(r, "check", "error") /\ ~LiveCheckPasses(r)
  /\ UNCHANGED <<lease, manager, attempt, outcome, handle, marker, scope, kills>>

\* timed_out, after a poll that found the child running: counted from the start
\* of the target, else from the launch.
TimedOut(r) ==
  /\ StopWith(r, "poll", "timeout")
  /\ UNCHANGED <<lease, manager, attempt, outcome, handle, marker, scope, kills>>

-----------------------------------------------------------------------------
(* ManagedCommand::stop, from finish_managed_wait and from Drop *)

\* Mutant: after the second stop the wait is finished once more.
ReturnedAgain(r, from, ok) ==
  /\ Goto(r, from, IF ok /\ wait[r] = "exited" THEN "finish" ELSE "terminate")
  /\ wait' = [wait EXCEPT ![r] = IF ok THEN @ ELSE "error"]

\* finish_managed_wait; an error of Drop is only logged.
Returned(r, from, ok) ==
  /\ Goto(r, from, IF attempt[r] = 2 THEN "release"
                   ELSE IF ok /\ wait[r] = "exited" THEN "finish" ELSE "terminate")
  /\ wait' = [wait EXCEPT ![r] = IF ok \/ attempt[r] = 2 THEN @ ELSE "error"]

NotOwned(r) ==
  /\ ~owned[r] /\ Returned(r, "stop", TRUE)
  /\ UNCHANGED <<lease, manager, attempt, outcome, handle, marker, scope, kills>>

\* stop_owned: inspect and observe.
Stop(r) ==
  /\ owned[r]
  /\ \/ unit = None /\ Goto(r, "stop", "kill_last") /\ UNCHANGED invocation
     \/ /\ unit = r /\ Goto(r, "stop", IF PathExists THEN "stop_pin" ELSE "stop_unit")
        /\ invocation' = [invocation EXCEPT ![r] = TRUE]
     \/ unit \notin {r, None} /\ Goto(r, "stop", "rescue") /\ UNCHANGED invocation
  /\ UNCHANGED <<lease, manager, progress, located, pinned, owned, marker, scope,
                 kills>>

\* systemctl stop by name; a name that is gone is an error.
StopUnit(r) ==
  /\ \/ unit # None /\ Goto(r, "stop_unit", "stopping") /\ KillScope(unit, r)
     \/ unit = None /\ Goto(r, "stop_unit", "rescue") /\ UNCHANGED killers
  /\ UNCHANGED <<lease, manager, progress, handle, marker, scope, gkilled>>

UnitStopped(r) ==
  /\ Goto(r, "stopping", "kill")
  /\ ~active
  /\ UNCHANGED <<lease, manager, progress, handle, marker, scope, kills>>

\* The control command runs out of time.
StopTimesOut(r) ==
  /\ Goto(r, "stopping", "rescue")
  /\ active
  /\ UNCHANGED <<lease, manager, progress, handle, marker, scope, kills>>

\* A second look, reset-failed for what is left, and wait_until_collected.
Collected(r) ==
  /\ unit = None /\ Returned(r, "collect", TRUE)
  /\ owned' = [owned EXCEPT ![r] = FALSE]
  /\ UNCHANGED <<lease, manager, attempt, outcome, invocation, located, pinned,
                 marker, scope, kills>>

NotCollected(r) ==
  /\ Goto(r, "collect", "rescue")
  /\ unit # None
  /\ UNCHANGED <<lease, manager, progress, handle, marker, scope, kills>>

ManagerFails(r) ==
  /\ r \in Unreliable
  /\ \E from \in {"stop", "stop_unit", "stopping", "collect"} :
       Goto(r, from, "rescue")
  /\ owned[r]
  /\ UNCHANGED <<lease, manager, progress, handle, marker, scope, kills>>

\* stop_pinned_cgroup: after the unit, instead of it, and after an error.
KillSteps == {"kill", "kill_last", "rescue"}

\* Mutant: an error of stop_owned is returned as it is.
PinnedStopped(r) == pc[r] # "rescue" /\ pinned[r] # None /\ Populated(pinned[r])

PinnedPopulated(r) == pinned[r] # None /\ Populated(pinned[r])

KillPinned(r) ==
  /\ pc[r] \in KillSteps /\ PinnedPopulated(r)
  /\ r \notin killers[pinned[r]] /\ KillScope(pinned[r], r)
  /\ UNCHANGED <<lease, manager, pc, progress, handle, marker, scope, gkilled>>

PinnedEmpty(r) ==
  /\ ~PinnedPopulated(r)
  /\ \/ /\ Goto(r, "kill", "collect") /\ UNCHANGED <<wait, owned>>
     \/ /\ Returned(r, "kill_last", TRUE)
        /\ owned' = [owned EXCEPT ![r] = FALSE]
     \/ /\ Returned(r, "rescue", FALSE)
        /\ owned' = [owned EXCEPT ![r] = pinned[r] = None]
  /\ UNCHANGED <<lease, manager, attempt, outcome, invocation, located, pinned,
                 marker, scope, kills>>

\* Mutant: the wait for an empty cgroup has no deadline.
PinnedAwaited(r) == FALSE /\ UNCHANGED vars

\* The deadline of the wait for an empty cgroup.
PinnedRemains(r) ==
  /\ PinnedPopulated(r) /\ r \in killers[pinned[r]]
  /\ \/ Goto(r, "kill", "rescue") /\ UNCHANGED wait
     \/ Goto(r, "kill_last", "rescue") /\ UNCHANGED wait
     \/ Returned(r, "rescue", FALSE)
  /\ UNCHANGED <<lease, manager, attempt, outcome, handle, marker, scope, kills>>

-----------------------------------------------------------------------------
(* terminate_process_tree, finish_process_wait and the drops *)

Terminate(r) ==
  /\ Goto(r, "terminate", "reap")
  /\ gkilled' = [gkilled EXCEPT ![r] = TRUE]
  /\ UNCHANGED <<lease, manager, progress, handle, marker, scope, killers>>

Reap(r) ==
  /\ Goto(r, "reap", "finish")
  /\ child' = [child EXCEPT ![r] = IF ChildLives(r) THEN @ ELSE "reaped"]
  /\ wait' = [wait EXCEPT ![r] = IF ChildLives(r) THEN "error" ELSE @]
  /\ UNCHANGED <<lease, manager, attempt, outcome, handle, marker, rest, hit,
                 report, kills>>

Finish(r) ==
  /\ Goto(r, "finish", "stop")
  /\ outcome' = [outcome EXCEPT ![r] =
                   CASE wait[r] = "exited" -> "completed"
                     [] wait[r] = "timeout" -> "timed_out"
                     [] wait[r] = "error" -> "failed"]
  /\ attempt' = [attempt EXCEPT ![r] = @ + 1]
  /\ UNCHANGED <<lease, manager, wait, handle, marker, scope, kills>>

\* The memory of an owner that has returned or is killed.
Forget(r) ==
  /\ wait' = [wait EXCEPT ![r] = "none"]
  /\ attempt' = [attempt EXCEPT ![r] = 1]
  /\ invocation' = [invocation EXCEPT ![r] = FALSE]
  /\ located' = [located EXCEPT ![r] = FALSE]
  /\ owned' = [owned EXCEPT ![r] = FALSE]
  /\ pinned' = [pinned EXCEPT ![r] = None]

\* The evidence directory goes with ManagedCommand, the lease after it.
Release(r) ==
  /\ Goto(r, "release", "done")
  /\ lease' = None
  /\ marker' = [marker EXCEPT ![r] = FALSE]
  /\ report' = [report EXCEPT ![r] = "none"]
  /\ Forget(r)
  /\ UNCHANGED <<manager, outcome, child, rest, hit,  kills>>

\* SIGKILL of the owner: the kernel closes the lease, nothing is cleaned up.
\* Before the spawn it leaves nothing behind and is left out.
Crash(r) ==
  /\ r \in Crashing /\ pc[r] \notin {"idle", "prepare", "done", "crashed"}
  /\ pc' = [pc EXCEPT ![r] = "crashed"]
  /\ lease' = None
  /\ Forget(r)
  /\ outcome' = [outcome EXCEPT ![r] = "none"]
  /\ UNCHANGED <<manager, marker, scope, kills>>

-----------------------------------------------------------------------------

StopScope(r) ==
  \/ NotOwned(r) \/ Stop(r) \/ StopUnit(r) \/ UnitStopped(r) \/ StopTimesOut(r)
  \/ Collected(r) \/ NotCollected(r) \/ ManagerFails(r)
  \/ KillPinned(r) \/ PinnedEmpty(r) \/ PinnedRemains(r)

Own(r) ==
  \/ Prepare(r) \/ Spawn(r) \/ SpawnFails(r)
  \/ Pressure(r) \/ ChildExited(r) \/ ChildRuns(r) \/ Inspect(r) \/ Pin(r)
  \/ Start(r) \/ StartFails(r) \/ CheckLive(r) \/ TimedOut(r)
  \/ StopScope(r) \/ Terminate(r) \/ Reap(r) \/ Finish(r) \/ Release(r)

Process(r) ==
  \/ RunTarget(r) \/ Fork(r) \/ HitLimit(r) \/ TargetEnds(r) \/ Report(r)
  \/ ChildDies(r) \/ RestEnds(r)

Next ==
  \/ \E r \in Runs :
       \/ Acquire(r) \/ Refuse(r) \/ Own(r) \/ Crash(r)
       \/ Launch(r) \/ Join(r) \/ Process(r) \/ Expire(r)
  \/ Deactivate \/ Collect

Spec == Init /\ [][Next]_vars

\* Owners run, clocks advance, systemd-run and the manager do their work;
\* nothing is assumed of the target or of how soon a killed process ends.
FairSpec ==
  /\ Spec
  /\ \A r \in Runs : WF_vars(Own(r) \/ Refuse(r)) /\ SF_vars(TimedOut(r))
                     /\ WF_vars(Launch(r) \/ Join(r)) /\ WF_vars(Expire(r))

-----------------------------------------------------------------------------
(* Properties *)

\* The variables keep their types.
TypeOK ==
  /\ lease \in Runs \cup {None} /\ unit \in Runs \cup {None} /\ active \in BOOLEAN
  /\ pc \in [Runs -> {"idle", "prepare", "spawn", "poll", "inspect", "pin",
                      "start", "check", "stop", "stop_pin", "stop_unit",
                      "stopping", "collect", "terminate", "reap", "finish",
                      "release", "done", "crashed"} \cup KillSteps]
  /\ wait \in [Runs -> {"none", "exited", "timeout", "error"}]
  /\ attempt \in [Runs -> Attempts]
  /\ outcome \in [Runs -> {"none", "completed", "timed_out", "failed"}]
  /\ invocation \in [Runs -> BOOLEAN] /\ located \in [Runs -> BOOLEAN]
  /\ owned \in [Runs -> BOOLEAN] /\ marker \in [Runs -> BOOLEAN]
  /\ rest \in [Runs -> BOOLEAN] /\ hit \in [Runs -> BOOLEAN]
  /\ gkilled \in [Runs -> BOOLEAN]
  /\ pinned \in [Runs -> Runs \cup {None}]
  /\ child \in [Runs -> InScope \cup {"none", "launcher", "joining", "zombie", "reaped"}]
  /\ report \in [Runs -> {"none", "hit", "clean"}]
  /\ killers \in [Runs -> SUBSET (Runs \cup {"manager"})]

\* The target and what it forks run only in a scope whose directory their owner
\* has open, although scopes end and bear one name: an owner that lives can
\* always kill them without the manager.
TargetIsPinned ==
  \A r \in Runs : pc[r] \notin {"done", "crashed"} /\ (child[r] = "target" \/ rest[r]) =>
    pinned[r] = r

\* A completed command has left nothing in its scope and has reached no limit,
\* also when it did so after the last look at the live counters.
CompletedIsVerified ==
  \A r \in Runs : outcome[r] = "completed" => ~Populated(r) /\ ~hit[r]

\* Whatever is left has a KILL pending; descendants may have left the group.
Doomed(r) == (ChildLives(r) => Killed(r)) /\ (rest[r] => killers[r] # {})

\* When the owner returns, whatever the outcome, everything it started is gone
\* or has a KILL pending: a failing manager, a late launcher, a lost unit name
\* and a failed first stop included.
ReturnedLeavesNothing == \A r \in Runs : pc[r] = "done" => Doomed(r)

\* A run whose owner is alive loses its scope to its owner or the manager only:
\* nobody else's cleanup takes it down through the shared unit name.
LiveRunUndisturbed ==
  \A r \in Runs : pc[r] # "crashed" => killers[r] \subseteq {r, "manager"}

\* Reuse of the unit name never makes cleanup kill a later invocation's cgroup:
\* what an owner has pinned and killed is its own, as the comment on
\* stop_pinned_cgroup says.
CleanupKillsOwn ==
  \A r, s \in Runs : pinned[r] = s /\ r \in killers[s] => r = s

\* An owner that holds the lease gives it back: no wait of the loop or of the
\* cleanup is unbounded.
LeaseIsFreed == []<>(lease = None)

\* What a killed owner leaves behind ends without it: a launcher that is late, a
\* shim that waits for a marker nobody will write, and a running target.
OrphansEnd ==
  []<>(\A r \in Runs : pc[r] = "crashed" => Doomed(r))

=============================================================================
