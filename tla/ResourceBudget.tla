---------------------------- MODULE ResourceBudget ----------------------------
(* How much memory, how many jobs and how many tasks a workload may use, from *)
(* a memory sample and the requested allowance, and when the kernel limits of *)
(* a cgroup count as a boundary for it. Byte counts are naturals (u64 in the  *)
(* code, whose subtractions saturate); a pressure average is a natural too.   *)
EXTENDS Naturals, Sequences, FiniteSets, Saturation

CONSTANTS MiB,          \* bytes of a mebibyte
          Alignment,    \* bytes every memory limit is a multiple of
          Unlimited     \* a kernel limit that reads "max", or is not there

ASSUME UnitsAssumption ==
    /\ Alignment \in Nat \ {0}
    /\ MiB \in Nat /\ \E k \in 1 .. MiB : MiB = k * Alignment
    /\ Unlimited \notin Nat

GiB == 1024 * MiB

Clamp(x, low, high) == Most(low, Least(x, high))

\* A limit is a number or Unlimited; the tighter one wins.
Tighter(a, b) == IF a = Unlimited THEN b ELSE IF b = Unlimited THEN a ELSE Least(a, b)

-----------------------------------------------------------------------------
(* Sampling. A cgroup is its directory and its ancestors up to the mount,     *)
(* each a level with the limits, the usage and the file-cache counters read   *)
(* from it; a level is "gone" when its directory is unreachable.              *)

Invalid == [ok |-> FALSE]

\* What is known where nothing is read: no limit and no pressure.
Unmeasured == [ok |-> TRUE, total |-> Unlimited, available |-> Unlimited, full |-> 0, some |-> 0]

\* Clean file cache can be reclaimed; the counters are read one after another
\* and may disagree with the usage.
WorkingBytes(current, stat) ==
    LET clean == SaturatingSub(SaturatingSub(SaturatingSub(SaturatingSub(
                     stat.file, stat.shmem), stat.dirty), stat.writeback), stat.unevictable)
    IN  SaturatingSub(current, Least(clean, current))

\* The root level may lack the memory controller, but not half of it.
LevelReadable(level, isRoot) ==
    /\ ~level.gone
    /\ level.files = "all" \/ (isRoot /\ level.files = "none")

\* The first unreadable level of a mount, walking up, decides how it fails.
Unreadable(levels) == {i \in DOMAIN levels : ~LevelReadable(levels[i], i = Len(levels))}
Missing(levels) ==
    \E i \in Unreadable(levels) : levels[i].gone /\ \A j \in Unreadable(levels) : i <= j

LeastOf(S) == IF S = {} THEN Unlimited ELSE CHOOSE m \in S : \A n \in S : m <= n
MostOf(S) == CHOOSE m \in S : \A n \in S : n <= m

\* Mutant: only the hard limits of the levels count.
SampleHardLevels(levels) ==
    LET read == {l \in levels : l.files = "all"}
    IN  [ok |-> TRUE,
         total |-> LeastOf({l.max : l \in read} \ {Unlimited}),
         available |-> LeastOf({SaturatingSub(l.max, WorkingBytes(l.current, l.stat)) :
                                   l \in {l \in read : l.max # Unlimited}}),
         full |-> MostOf({l.full : l \in levels}), some |-> MostOf({l.some : l \in levels})]

\* The tightest limit, the least headroom and the highest pressure over levels.
SampleLevels(levels) ==
    LET read == {l \in levels : l.files = "all"}
        used(l) == WorkingBytes(l.current, l.stat)
    IN  [ok |-> TRUE,
         total |-> LeastOf({l.max : l \in read} \ {Unlimited}),
         available |-> LeastOf({SaturatingSub(l.max, used(l)) : l \in {l \in read : l.max # Unlimited}}
                          \cup {SaturatingSub(l.high, used(l)) : l \in {l \in read : l.high # Unlimited}}),
         full |-> MostOf({l.full : l \in levels}), some |-> MostOf({l.some : l \in levels})]

\* A mount through which the cgroup cannot be reached is passed over; one that
\* is reached but unreadable, or none reached at all, refuses the sample.
SampleCgroup(mounts) ==
    LET reached == {i \in DOMAIN mounts : ~Missing(mounts[i])}
    IN  IF reached = {} \/ \E i \in reached : Unreadable(mounts[i]) # {} THEN Invalid
        ELSE SampleLevels(UNION {{mounts[i][j] : j \in DOMAIN mounts[i]} : i \in reached})

\* The host and the cgroup of the process, each limiting the other; the host
\* alone where the process is in no unified cgroup.
SampleLinux(host, group) ==
    IF ~group.ok \/ host.available > host.total THEN Invalid
    ELSE [ok |-> TRUE,
          total |-> Tighter(host.total, group.total),
          available |-> Tighter(host.available, group.available),
          full |-> Most(host.full, group.full), some |-> Most(host.some, group.some)]

\* Memory is measured on Linux only.
SampleMemory(telemetry, host, mounts) ==
    CASE telemetry = "none" -> Unmeasured
      [] telemetry = "host" -> SampleLinux(host, Unmeasured)
      [] telemetry = "cgroup" -> SampleLinux(host, SampleCgroup(mounts))

\* Admission refuses below the reserve and under memory pressure (percentages).
CheckSample(sample, reserve) ==
    sample.ok /\ sample.available >= reserve /\ sample.full < 1 /\ sample.some < 10

-----------------------------------------------------------------------------
(* Budgets.                                                                   *)

AlignMemoryBytes(bytes) == (bytes \div Alignment) * Alignment

ReserveBytes(total) == Clamp(total \div 10, 256 * MiB, 2 * GiB)

\* What one mutation command may use, a fixed share where memory is not measured.
\* Jobs: the CPUs, at most the allowance.
FromSample(sample, cpus, jobs) ==
    LET measured == sample # Unmeasured
        reserve == IF measured THEN ReserveBytes(sample.total) ELSE 256 * MiB
        wanted == IF measured
                  THEN Least(Least(SaturatingSub(sample.available, reserve) \div 2, sample.total \div 4), 8 * GiB)
                  ELSE 2 * GiB
        memory == AlignMemoryBytes(wanted)
    IN  IF (measured /\ ~CheckSample(sample, reserve)) \/ memory < 64 * MiB THEN Invalid
        ELSE [ok |-> TRUE, memory |-> memory, reserve |-> reserve, jobs |-> Least(cpus, jobs)]

\* Mutant: the soft limit is not aligned.
HighMemoryUnaligned(memory) == (memory \div 5) * 4

\* Reclaim starts at four fifths of the hard limit.
HighMemoryBytes(memory) == AlignMemoryBytes((memory \div 5) * 4)

\* An inherited number of jobs is kept when it is one, and within the maximum.
BoundedJobs(inherited, maximum) == IF inherited > 0 THEN Least(inherited, maximum) ELSE maximum

CoordinatorBytes == 512 * MiB

\* Runners that fit beside the coordinator and the reserve; planning needs a
\* measured sample.
WorkerPlan(sample, jobs, estimate) ==
    LET reserve == ReserveBytes(sample.total)
        capacity == SaturatingSub(SaturatingSub(sample.available, reserve), CoordinatorBytes)
        workers == IF estimate = 0 THEN 0 ELSE Least(capacity \div estimate, jobs)
    IN  IF sample = Unmeasured THEN Invalid
        ELSE IF ~CheckSample(sample, reserve) \/ workers = 0 THEN Invalid
        ELSE [ok |-> TRUE, jobs |-> workers, reserve |-> reserve, estimate |-> estimate]

-----------------------------------------------------------------------------
(* The allowance of a workload and the boundary that enforces it.             *)

MaxJobs == 64
DefaultJobs(cpus) == Clamp(cpus \div 2, 1, MaxJobs)

\* Requested, else inherited, else half the CPUs; Unlimited stands for "not given".
SelectJobs(requested, inherited, cpus) ==
    LET jobs == IF requested # Unlimited THEN requested
                ELSE IF inherited # Unlimited THEN inherited ELSE DefaultJobs(cpus)
    IN  IF jobs \in 1 .. MaxJobs THEN [ok |-> TRUE, jobs |-> jobs] ELSE Invalid

TaskLimit(jobs) == Most(jobs * 128, 256)

MemoryCeiling(requestedMiB, jobs) ==
    (IF requestedMiB # Unlimited THEN requestedMiB ELSE Clamp(jobs, 4, 16) * 1024) * MiB

MemoryLimit(hostTotal, requestedMiB, jobs) ==
    AlignMemoryBytes(Least(hostTotal \div 4, MemoryCeiling(requestedMiB, jobs)))

\* Analysis threads: an explicit request beyond the allowance is refused.
SelectWorkers(requested, inherited, maximum) ==
    IF requested # Unlimited /\ requested \notin 1 .. maximum THEN Invalid
    ELSE [ok |-> TRUE,
          workers |-> Least(IF requested # Unlimited THEN requested
                            ELSE IF inherited # Unlimited /\ inherited > 0 THEN inherited ELSE maximum,
                            maximum)]

\* What the service manager is asked for when a scope is launched.
ScopeProperties(memory, jobs) ==
    [max |-> memory, high |-> HighMemoryBytes(memory), swap |-> 0,
     tasks |-> TaskLimit(jobs), quota |-> jobs * 100, period |-> 100]

\* External: the kernel keeps byte limits in whole pages, rounding up.
RoundUp(bytes, page) == ((bytes + page - 1) \div page) * page
Readback(scope, page) ==
    [scope EXCEPT !.max = RoundUp(@, page), !.high = RoundUp(@, page)]

CpuBounded(quota, period, jobs) == quota > 0 /\ period > 0 /\ quota <= period * jobs

\* Whether the limits of a cgroup bound a workload of this allowance.
Bounded(group, limit, jobs) ==
    /\ group.quota # Unlimited /\ CpuBounded(group.quota, group.period, jobs)
    /\ group.max # Unlimited /\ group.max > 0 /\ group.max <= limit
    /\ group.high # Unlimited /\ group.high > 0 /\ group.high <= (group.max \div 5) * 4
    /\ group.swap = 0
    /\ group.tasks # Unlimited /\ group.tasks > 0 /\ group.tasks <= TaskLimit(jobs)

\* The nearest bounded directory, from the cgroup of the process to the mount.
FindBoundary(groups, limit, jobs) ==
    LET fits == {i \in DOMAIN groups : Bounded(groups[i], limit, jobs)}
    IN  IF fits = {} THEN 0 ELSE CHOOSE i \in fits : \A j \in fits : i <= j

\* Hard-limit events: reclaim and throttling counters do not count.
EventSnapshot(events) == [e \in DOMAIN events \ {"low", "high", "sock_throttled"} |-> events[e]]
VerifyBoundary(group, limit, jobs, before, now) ==
    Bounded(group, limit, jobs) /\ EventSnapshot(now) = EventSnapshot(before)

-----------------------------------------------------------------------------
(* What budgets promise.                                                      *)

\* A mutation budget leaves the reserve and as much again free, stays within a
\* quarter of the memory, and is a positive multiple of the alignment.
BudgetFits(sample, cpus, jobs) ==
    LET budget == FromSample(sample, cpus, jobs)
    IN  budget.ok =>
          /\ budget.reserve + 2 * budget.memory <= sample.available
          /\ 4 * budget.memory <= sample.total
          /\ budget.memory % Alignment = 0 /\ budget.memory > 0
          /\ budget.jobs <= jobs

\* All planned runners, the coordinator and the reserve fit what is available.
WorkersFit(sample, jobs, estimate) ==
    LET plan == WorkerPlan(sample, jobs, estimate)
    IN  plan.ok =>
          /\ plan.jobs \in 1 .. jobs
          /\ plan.reserve + CoordinatorBytes + plan.jobs * estimate <= sample.available

\* The scope a supervisor launches is accepted as a boundary by the command in
\* it, whatever page size the kernel rounds the limits to.
LaunchedScopeIsBounded(memory, jobs, page) ==
    Bounded(Readback(ScopeProperties(memory, jobs), page), memory, jobs)
=============================================================================
