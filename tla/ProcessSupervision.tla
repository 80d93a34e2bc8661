-------------------------- MODULE ProcessSupervision --------------------------
(***************************************************************************)
(* One external command under supervision: spawn in a process group of its *)
(* own, poll with pressure and cancellation checks, deadline, termination  *)
(* of the group, and the two reader threads that capture its output        *)
(* (src/src/engines/process.rs, process/capture.rs, process/cleanup.rs).   *)
(*                                                                         *)
(* The command is the leader of its group.  It forks descendants, which    *)
(* inherit its pipes, may close them and may leave the group.  Signals     *)
(* other than KILL may be caught, so TERM has no effect of its own; every  *)
(* process may end at any time anyway.  A grace period is over whenever    *)
(* the model says so, and a killed process may outlive it: it belongs to   *)
(* another user by then or is stuck in the kernel.                         *)
(***************************************************************************)
EXTENDS Naturals

CONSTANTS
  Descendants,  \* processes the command may fork
  Leader,       \* the direct child
  Escapees,     \* descendants that may leave the group
  Blocking      \* streams whose pipe could not be made nonblocking

ASSUME SupervisionConstants ==
  /\ Leader \notin Descendants
  /\ Escapees \subseteq Descendants
  /\ Blocking \subseteq {"stdout", "stderr"}

VARIABLES
  control,    \* run_control_command, which checks neither pressure nor signals
  pc,         \* next step of the supervising thread
  wait,       \* ProcessWait
  late,       \* the deadline of the command has passed
  signalled,  \* SIGINT or SIGTERM received
  leader,     \* the direct child: not started, running, zombie or reaped
  group,      \* descendants in the group
  outside,    \* descendants that left it
  killed,     \* processes with a pending KILL
  failed,     \* terminate_process_tree returned an error
  writers,    \* for each pipe, the processes that hold its write end
  reader,     \* for each pipe, the state of its reader thread
  got,        \* streams received from their reader
  halt,       \* CapturedOutput.cancel
  round,      \* first or second collect
  outcome     \* ProcessOutcome

processes == <<leader, group, outside>>
capture   == <<got, halt, round>>
demand    == <<control, late, signalled>>
vars == <<pc, wait, demand, processes, killed, failed, writers, reader, capture,
          outcome>>

Streams   == {"stdout", "stderr"}
Processes == Descendants \cup {Leader}
Rounds    == 1..2

Init ==
  /\ control \in BOOLEAN
  /\ pc = "idle" /\ wait = "none" /\ late = FALSE /\ signalled = FALSE
  /\ leader = "none" /\ group = {} /\ outside = {} /\ killed = {} /\ failed = FALSE
  /\ writers = [s \in Streams |-> {}]
  /\ reader = [s \in Streams |-> "none"]
  /\ got = {} /\ halt = FALSE /\ round = 1
  /\ outcome = "none"

Goto(from, to) == pc = from /\ pc' = to

-----------------------------------------------------------------------------
(* The command and its descendants *)

Running == group \cup (IF leader = "running" THEN {Leader} ELSE {})

\* kill(-pid, 0) succeeds while the group has a member, a zombie leader included.
GroupPresent == group # {} \/ leader \in {"running", "zombie"}

\* A new descendant inherits pipes from its parent.
Fork(d) ==
  /\ d \notin group \cup outside \cup killed
  /\ \E parent \in Running \ killed :
       \E kept \in SUBSET {s \in Streams : parent \in writers[s]} :
         writers' = [s \in Streams |-> writers[s] \cup (IF s \in kept THEN {d} ELSE {})]
  /\ group' = group \cup {d}
  /\ UNCHANGED <<pc, wait, demand, leader, outside, killed, failed, reader,
                 capture, outcome>>

LeaveGroup(d) ==
  /\ d \in (group \cap Escapees) \ killed
  /\ group' = group \ {d} /\ outside' = outside \cup {d}
  /\ UNCHANGED <<pc, wait, demand, leader, killed, failed, writers, reader,
                 capture, outcome>>

ClosePipe(p, s) ==
  /\ p \in writers[s]
  /\ writers' = [writers EXCEPT ![s] = @ \ {p}]
  /\ UNCHANGED <<pc, wait, demand, processes, killed, failed, reader, capture,
                 outcome>>

\* Voluntary or not: the pipes of an ended process are closed.
End(p) ==
  /\ \/ p = Leader /\ leader = "running" /\ leader' = "zombie" /\ UNCHANGED <<group, outside>>
     \/ /\ p \in group \cup outside
        /\ group' = group \ {p} /\ outside' = outside \ {p}
        /\ UNCHANGED leader
  /\ writers' = [s \in Streams |-> writers[s] \ {p}]
  /\ UNCHANGED <<pc, wait, demand, killed, failed, reader, capture, outcome>>

-----------------------------------------------------------------------------
(* The reader threads: read_stream *)

ReadToEnd(s) ==
  /\ reader[s] = "reading" /\ writers[s] = {}
  /\ reader' = [reader EXCEPT ![s] = "sent"]
  /\ UNCHANGED <<pc, wait, demand, processes, killed, failed, writers, capture,
                 outcome>>

\* Mutant: the loop does not look at the cancel flag.
ReadUntilEnd(s) == FALSE /\ UNCHANGED vars

\* A nonblocking reader looks at the flag between two reads.
ReadUntilHalt(s) ==
  /\ reader[s] = "reading" /\ halt /\ s \notin Blocking
  /\ reader' = [reader EXCEPT ![s] = "sent"]
  /\ UNCHANGED <<pc, wait, demand, processes, killed, failed, writers, capture,
                 outcome>>

-----------------------------------------------------------------------------
(* Spawn and poll *)

\* An installed signal, admission or spawn fails: nothing was started.
Refuse ==
  /\ Goto("idle", "done")
  /\ outcome' = "failed"
  /\ UNCHANGED <<wait, demand, processes, killed, failed, writers, reader, capture>>

Spawn ==
  /\ Goto("idle", IF control THEN "try_wait" ELSE "check")
  /\ ~control => ~signalled
  /\ leader' = "running"
  /\ writers' = [s \in Streams |-> {Leader}]
  /\ reader' = [s \in Streams |-> "reading"]
  /\ UNCHANGED <<wait, demand, group, outside, killed, failed, capture, outcome>>

\* check_pressure: a cancellation is an error, so may memory pressure be.
Check ==
  /\ pc = "check"
  /\ \/ pc' = "try_wait" /\ ~signalled /\ UNCHANGED wait
     \/ pc' = "term" /\ wait' = "error"
  /\ UNCHANGED <<demand, processes, killed, failed, writers, reader, capture,
                 outcome>>

\* try_wait reaps a zombie leader; its status is cached for later calls.
Exited ==
  /\ Goto("try_wait", "receive_stdout")
  /\ leader = "zombie"
  /\ leader' = "reaped" /\ wait' = "exited"
  /\ UNCHANGED <<demand, group, outside, killed, failed, writers, reader, capture,
                 outcome>>

WaitError ==
  /\ Goto("try_wait", "term")
  /\ wait' = "error"
  /\ UNCHANGED <<demand, processes, killed, failed, writers, reader, capture,
                 outcome>>

PollAgain ==
  /\ Goto("try_wait", IF control THEN "try_wait" ELSE "check")
  /\ leader = "running" /\ ~late
  /\ UNCHANGED <<wait, demand, processes, killed, failed, writers, reader, capture,
                 outcome>>

Timeout ==
  /\ Goto("try_wait", "term")
  /\ leader = "running" /\ late
  /\ wait' = "timeout"
  /\ UNCHANGED <<demand, processes, killed, failed, writers, reader, capture,
                 outcome>>

-----------------------------------------------------------------------------
(* terminate_unix_process_group *)

SignalTerm ==
  /\ Goto("term", "grace")
  /\ UNCHANGED <<wait, demand, processes, killed, failed, writers, reader, capture,
                 outcome>>

\* wait_for_group_or_grace polls the direct child before it probes the group.
PollDirectChild ==
  /\ pc = "grace" /\ leader = "zombie"
  /\ leader' = "reaped"
  /\ UNCHANGED <<pc, wait, demand, group, outside, killed, failed, writers, reader,
                 capture, outcome>>

GroupGone ==
  /\ Goto("grace", "reap")
  /\ ~GroupPresent
  /\ UNCHANGED <<wait, demand, processes, killed, failed, writers, reader, capture,
                 outcome>>

\* Mutant: the grace period is over and the group is left to itself.
GraceOverWithoutKill ==
  /\ Goto("grace", "reap")
  /\ GroupPresent
  /\ UNCHANGED <<wait, demand, processes, killed, failed, writers, reader, capture,
                 outcome>>

\* kill_remaining_group: the kernel signals all members at once.
GraceOver ==
  /\ Goto("grace", "reap")
  /\ GroupPresent
  /\ killed' = killed \cup Running
  /\ UNCHANGED <<wait, demand, processes, failed, writers, reader, capture, outcome>>

Reaped ==
  /\ Goto("reap", "absence")
  /\ leader \in {"zombie", "reaped"}
  /\ leader' = "reaped"
  /\ UNCHANGED <<wait, demand, group, outside, killed, failed, writers, reader,
                 capture, outcome>>

\* force_reap_direct_child: the leader outlives the KILL of its group.
ReapFails ==
  /\ Goto("reap", "absence")
  /\ leader = "running" /\ Leader \in killed
  /\ failed' = TRUE
  /\ UNCHANGED <<wait, demand, processes, killed, writers, reader, capture, outcome>>

\* finish_wait_outcome continues where terminate_process_tree was called from;
\* a timeout whose cleanup failed is an error.
AfterCleanup(bad) ==
  /\ pc = "absence"
  /\ failed' = (failed \/ bad)
  /\ pc' = IF wait = "exited" THEN "finish" ELSE "receive_stdout"
  /\ wait' = IF wait = "timeout" /\ failed' THEN "error" ELSE wait
  /\ UNCHANGED <<demand, processes, killed, writers, reader, capture, outcome>>

\* Mutant: the group is not probed after its termination.
AbsenceAssumed == AfterCleanup(FALSE)

\* wait_for_group_absence.
AbsenceVerified == ~GroupPresent /\ AfterCleanup(FALSE)

\* Mutant: the probe has no deadline.
GroupAwaited == FALSE /\ UNCHANGED vars

GroupRemains == GroupPresent /\ AfterCleanup(TRUE)

-----------------------------------------------------------------------------
(* CapturedOutput::collect, stdout before stderr *)

ReceiveStep(s) == IF s = "stdout" THEN "receive_stdout" ELSE "receive_stderr"

AfterReceive(s) ==
  IF s = "stdout" THEN "receive_stderr"
  ELSE IF round = 1 /\ wait = "exited" THEN "term" ELSE "finish"

Receive(s) ==
  /\ Goto(ReceiveStep(s), AfterReceive(s))
  /\ s \in got \/ reader[s] = "sent"
  /\ got' = got \cup {s}
  /\ UNCHANGED <<wait, demand, processes, killed, failed, writers, reader, halt,
                 round, outcome>>

\* recv_timeout: one late stream cancels both readers.
ReceiveTimeout(s) ==
  /\ Goto(ReceiveStep(s), AfterReceive(s))
  /\ s \notin got /\ reader[s] = "reading"
  /\ halt' = TRUE
  /\ UNCHANGED <<wait, demand, processes, killed, failed, writers, reader, got,
                 round, outcome>>

\* Mutant: an incomplete capture is collected again and again.
CollectAgainAlways ==
  /\ Goto("finish", "receive_stdout")
  /\ got # Streams
  /\ halt' = TRUE /\ round' = round + 1
  /\ UNCHANGED <<wait, demand, processes, killed, failed, writers, reader, got,
                 outcome>>

\* finish_capture: an incomplete capture is cancelled and collected once more.
CollectAgain ==
  /\ Goto("finish", "receive_stdout")
  /\ got # Streams /\ round = 1
  /\ halt' = TRUE /\ round' = 2
  /\ UNCHANGED <<wait, demand, processes, killed, failed, writers, reader, got,
                 outcome>>

\* finish_wait_outcome.
Finish ==
  /\ Goto("finish", "done")
  /\ got = Streams \/ round = 2
  /\ outcome' = IF got # Streams \/ wait = "error" \/ failed THEN "failed"
                ELSE IF wait = "exited" THEN "completed" ELSE "timed_out"
  /\ UNCHANGED <<wait, demand, processes, killed, failed, writers, reader, capture>>

-----------------------------------------------------------------------------

Signal ==
  /\ ~signalled /\ pc # "done" /\ signalled' = TRUE
  /\ UNCHANGED <<control, pc, wait, late, processes, killed, failed, writers, reader, capture, outcome>>

Deadline ==
  /\ ~late /\ pc \in {"check", "try_wait"} /\ late' = TRUE
  /\ UNCHANGED <<control, pc, wait, signalled, processes, killed, failed, writers, reader, capture,
                 outcome>>

Supervise ==
  \/ Check \/ Exited \/ WaitError \/ PollAgain \/ Timeout
  \/ SignalTerm \/ PollDirectChild \/ GroupGone \/ GraceOver
  \/ Reaped \/ ReapFails \/ AbsenceVerified \/ GroupRemains
  \/ \E s \in Streams : Receive(s) \/ ReceiveTimeout(s)
  \/ CollectAgain \/ Finish

Read(s) == ReadToEnd(s) \/ ReadUntilHalt(s)

Workload ==
  \/ \E d \in Descendants : Fork(d) \/ LeaveGroup(d)
  \/ \E p \in Processes : End(p) \/ \E s \in Streams : ClosePipe(p, s)

Next ==
  \/ Spawn \/ Refuse \/ Supervise
  \/ \E s \in Streams : Read(s)
  \/ Workload \/ Signal \/ Deadline

Spec == Init /\ [][Next]_vars

\* The thread is scheduled, clocks advance and readers run; nothing is assumed
\* of the command, which may hang, fork and hold its pipes for ever.
FairSpec ==
  /\ Spec
  /\ WF_vars(Supervise) /\ WF_vars(Deadline)
  /\ \A s \in Streams : WF_vars(Read(s))

-----------------------------------------------------------------------------
(* Properties *)

\* The variables keep their types.
TypeOK ==
  /\ control \in BOOLEAN
  /\ pc \in {"idle", "check", "try_wait", "term", "grace", "reap", "absence",
             "receive_stdout", "receive_stderr", "finish", "done"}
  /\ wait \in {"none", "exited", "timeout", "error"}
  /\ late \in BOOLEAN /\ signalled \in BOOLEAN /\ failed \in BOOLEAN /\ halt \in BOOLEAN
  /\ leader \in {"none", "running", "zombie", "reaped"}
  /\ group \subseteq Descendants /\ outside \subseteq Descendants
  /\ group \cap outside = {}
  /\ killed \subseteq Processes
  /\ writers \in [Streams -> SUBSET Processes]
  /\ reader \in [Streams -> {"none", "reading", "sent"}]
  /\ got \subseteq Streams
  /\ round \in Rounds
  /\ outcome \in {"none", "completed", "timed_out", "failed"}

\* An outcome other than a failure, a timeout included, means that the whole
\* group is gone, the child reaped and both readers finished, whatever the
\* command forked, closed or survived.
OutcomeIsClean ==
  outcome \in {"completed", "timed_out"} =>
    ~GroupPresent /\ leader = "reaped" /\ \A s \in Streams : reader[s] = "sent"

\* Whatever is left of the group after its termination has a KILL pending: no
\* fork between the probes, TERM and KILL leaves a member that goes on.
SurvivorsAreKilled == pc = "absence" => Running \subseteq killed

\* Whatever the command does and whatever cannot be killed, the call returns.
CommandReturns == (pc # "idle") ~> (pc = "done")

\* No reader thread of a nonblocking pipe is leaked, not even when an escaped
\* descendant keeps the pipe open for ever.
ReadersStop == (pc = "done") ~> (\A s \in Streams \ Blocking : reader[s] # "reading")

=============================================================================
