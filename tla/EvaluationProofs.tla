---------------------------- MODULE EvaluationProofs ----------------------------
(* What the algorithms of the gate promise (Evaluation.tla), for every input: *)
(* a theorem for each of its properties, on the shape of the case it speaks   *)
(* of. Folds are taken apart by the lemmas of LegacyRatchetProofs.            *)
EXTENDS Evaluation, LegacyRatchetProofs

-----------------------------------------------------------------------------
(* A set of reports that the gate accepts answers for every executable source *)
(* exactly once: for every project and every set of reports.                  *)
LEMMA AcceptedSetIsExhaustive ==
  ASSUME NEW project, NEW reports, NEW kind
  PROVE  SetIsExhaustive(project, reports, kind)
<1>. SUFFICES ASSUME VerifySet(project, reports, kind), Configured(project, kind) # {}
              PROVE  /\ \A p \in SourceInventory(project) :
                          \E i \in DOMAIN reports :
                            /\ p \in ReportedSources(reports[i])
                            /\ \A j \in DOMAIN reports \ {i} : p \notin ReportedSources(reports[j])
                            /\ Named(reports[i]) =>
                                 \E n \in Configured(project, kind) :
                                   /\ reports[i].partition.name = n
                                   /\ project.producers[n] = reports[i].partition.config
                                   /\ project.producers[n].scope = "exhaustive"
                                   /\ p \in project.producers[n].globs
                     /\ \A i \in DOMAIN reports :
                          HasScope(reports[i]) =>
                            \A p \in ReportedSources(reports[i]) :
                              {m \in reports[i].scope.plan : m[1] = p} = {m \in Reported(reports[i]) : m[1] = p}
  BY DEF SetIsExhaustive
<1>1. /\ Disjoint(reports)
      /\ Configured(project, kind) = PartitionNames(reports)
      /\ SourceInventory(project) \subseteq UNION {ReportedSources(reports[i]) : i \in DOMAIN reports}
      /\ \A i \in DOMAIN reports :
            /\ Verify(project, reports[i], kind) /\ SourcesReadable(project, reports[i])
            /\ Named(reports[i]) => reports[i].partition.config.scope = "exhaustive"
  BY DEF VerifySet
<1>2. ASSUME NEW i \in DOMAIN reports, Named(reports[i]), NEW p \in ReportedSources(reports[i])
      PROVE  \E n \in Configured(project, kind) :
               /\ reports[i].partition.name = n
               /\ project.producers[n] = reports[i].partition.config
               /\ project.producers[n].scope = "exhaustive"
               /\ p \in project.producers[n].globs
  <2>. DEFINE n == reports[i].partition.name
  <2>1. ValidatePartitionReport(project, reports[i])
    BY <1>1, <1>2 DEF Verify
  <2>2. n \in Configured(project, kind)
    BY <1>1, <1>2 DEF PartitionNames
  <2>3. /\ project.producers[n] = reports[i].partition.config
        /\ ReportedSources(reports[i]) \subseteq SelectedSources(project, project.producers[n])
    BY <2>1 DEF ValidatePartitionReport
  <2>4. p \in project.producers[n].globs
    BY <1>2, <2>3 DEF SelectedSources
  <2>. QED  BY <1>1, <1>2, <2>2, <2>3, <2>4
<1>3. ASSUME NEW p \in SourceInventory(project)
      PROVE  \E i \in DOMAIN reports :
               /\ p \in ReportedSources(reports[i])
               /\ \A j \in DOMAIN reports \ {i} : p \notin ReportedSources(reports[j])
               /\ Named(reports[i]) =>
                    \E n \in Configured(project, kind) :
                      /\ reports[i].partition.name = n
                      /\ project.producers[n] = reports[i].partition.config
                      /\ project.producers[n].scope = "exhaustive"
                      /\ p \in project.producers[n].globs
  <2>1. PICK i \in DOMAIN reports : p \in ReportedSources(reports[i])
    BY <1>1, <1>3
  <2>2. \A j \in DOMAIN reports \ {i} : p \notin ReportedSources(reports[j])
    BY <1>1, <2>1 DEF Disjoint
  <2>. QED  BY <1>2, <2>1, <2>2
<1>4. ASSUME NEW i \in DOMAIN reports, HasScope(reports[i])
      PROVE  Reported(reports[i]) = reports[i].scope.plan
  BY <1>1, <1>4 DEF SourcesReadable, ScopeHolds
<1>. QED  BY <1>3, <1>4

(* PartitionsCoverTheInventory, for whatever project and reports.             *)
THEOREM EverySetIsExhaustive == PartitionsCoverTheInventory
BY AcceptedSetIsExhaustive DEF PartitionsCoverTheInventory

-----------------------------------------------------------------------------
Samples == [ok : BOOLEAN, total : Nat, available : Nat, full : Nat, some : Nat]

(* A quotient times its divisor is the largest multiple that is no larger.    *)
LEMMA DivideDown ==
    ASSUME NEW a \in Nat, NEW d \in Nat \ {0}
    PROVE  /\ a \div d \in Nat /\ (a \div d) * d \in Nat
           /\ (a \div d) * d <= a /\ a < (a \div d) * d + d
OBVIOUS

(* A multiple leaves no remainder, and dividing it gives the factor back.     *)
LEMMA MultipleDivides ==
    ASSUME NEW a \in Nat, NEW d \in Nat \ {0}
    PROVE  a * d \in Nat /\ (a * d) \div d = a /\ (a * d) % d = 0
OBVIOUS

(* align_memory_bytes never gives more than it is given, and a multiple.      *)
LEMMA AlignDown ==
    ASSUME NEW bytes \in Nat
    PROVE  /\ AlignMemoryBytes(bytes) \in Nat
           /\ AlignMemoryBytes(bytes) <= bytes
           /\ bytes < AlignMemoryBytes(bytes) + Alignment
           /\ AlignMemoryBytes(bytes) % Alignment = 0
<1>1. Alignment \in Nat \ {0}
  BY UnitsAssumption
<1>2. bytes \div Alignment \in Nat
  BY <1>1, DivideDown
<1> QED
  BY <1>1, <1>2, DivideDown, MultipleDivides DEF AlignMemoryBytes

(* The reserve is a number between its two bounds.                            *)
LEMMA ReserveBounds ==
    ASSUME NEW total \in Nat
    PROVE  /\ ReserveBytes(total) \in Nat
           /\ 256 * MiB <= ReserveBytes(total) /\ ReserveBytes(total) <= 2 * GiB
<1>1. MiB \in Nat
  BY UnitsAssumption
<1>2. total \div 10 \in Nat
  OBVIOUS
<1> QED
  BY <1>1, <1>2 DEF ReserveBytes, Clamp, Most, Least, GiB

(* MutationBudget::from_sample leaves the reserve and as much again free,     *)
(* stays within a quarter of the memory and is aligned, for every sample.     *)
THEOREM EveryBudgetFits ==
    ASSUME NEW sample \in Samples, NEW cpus \in Nat, NEW jobs \in Nat
    PROVE  BudgetFits(sample, cpus, jobs)
<1>0. sample # Unmeasured
  BY UnitsAssumption DEF Samples, Unmeasured
<1> DEFINE reserve == ReserveBytes(sample.total)
           headroom == SaturatingSub(sample.available, reserve)
           wanted == Least(Least(headroom \div 2, sample.total \div 4), 8 * GiB)
           memory == AlignMemoryBytes(wanted)
           budget == FromSample(sample, cpus, jobs)
<1>1. sample.total \in Nat /\ sample.available \in Nat
  BY DEF Samples
<1>2. MiB \in Nat /\ Alignment \in Nat \ {0} /\ MiB > 0
  <2>1. PICK k \in Nat \ {0} : MiB = k * Alignment
    BY UnitsAssumption
  <2> QED
    BY <2>1, UnitsAssumption
<1>3. reserve \in Nat
  BY <1>1, ReserveBounds
<1>4. headroom \in Nat /\ (reserve <= sample.available => headroom + reserve = sample.available)
  BY <1>1, <1>3 DEF SaturatingSub
<1>5. /\ wanted \in Nat
      /\ 2 * wanted <= headroom /\ 4 * wanted <= sample.total
  <2> HIDE DEF headroom
  <2>1. headroom \div 2 \in Nat /\ 2 * (headroom \div 2) <= headroom
    BY <1>4
  <2>2. sample.total \div 4 \in Nat /\ 4 * (sample.total \div 4) <= sample.total
    BY <1>1
  <2>3. 8 * GiB \in Nat
    BY <1>2 DEF GiB
  <2> QED
    BY <2>1, <2>2, <2>3, <1>4, <1>1 DEF Least
<1>6. memory \in Nat /\ memory <= wanted /\ memory % Alignment = 0
  <2> HIDE DEF wanted
  <2> QED BY <1>5, AlignDown
<1>7. SUFFICES ASSUME budget.ok
               PROVE  /\ budget.reserve + 2 * budget.memory <= sample.available
                      /\ 4 * budget.memory <= sample.total
                      /\ budget.memory % Alignment = 0 /\ budget.memory > 0
                      /\ budget.jobs <= jobs
  BY DEF BudgetFits
<1>8. /\ CheckSample(sample, reserve) /\ ~(memory < 64 * MiB)
      /\ budget = [ok |-> TRUE, memory |-> memory, reserve |-> reserve, jobs |-> Least(cpus, jobs)]
  <2> HIDE DEF reserve
  <2> QED BY <1>0, <1>7 DEF FromSample, Invalid, reserve
<1>9. budget.memory = memory /\ budget.reserve = reserve /\ budget.jobs = Least(cpus, jobs)
  BY <1>8
<1>10. reserve <= sample.available
  BY <1>8, <1>1, <1>3 DEF CheckSample
<1>11. memory > 0
  <2> HIDE DEF memory
  <2> QED BY <1>8, <1>6, <1>2
<1>12. reserve + 2 * memory <= sample.available /\ 4 * memory <= sample.total
  <2> HIDE DEF memory, wanted, headroom, reserve
  <2> QED BY <1>3, <1>4, <1>5, <1>6, <1>10, <1>1
<1>13. Least(cpus, jobs) <= jobs
  BY DEF Least
<1> QED
  BY <1>6, <1>9, <1>11, <1>12, <1>13

(* All the runners worker_plan.rs admits fit, beside the coordinator and the  *)
(* reserve, in what is available: for every estimate, zero included.          *)
THEOREM EveryWorkerFits ==
    ASSUME NEW sample \in Samples, NEW jobs \in Nat, NEW estimate \in Nat
    PROVE  WorkersFit(sample, jobs, estimate)
<1> DEFINE reserve == ReserveBytes(sample.total)
           free == SaturatingSub(sample.available, reserve)
           capacity == SaturatingSub(free, CoordinatorBytes)
           workers == IF estimate = 0 THEN 0 ELSE Least(capacity \div estimate, jobs)
           chosen == WorkerPlan(sample, jobs, estimate)
<1>1. sample.total \in Nat /\ sample.available \in Nat /\ CoordinatorBytes \in Nat
  BY UnitsAssumption DEF Samples, CoordinatorBytes
<1>2. reserve \in Nat
  BY <1>1, ReserveBounds
<1>3. /\ free \in Nat /\ capacity \in Nat
      /\ capacity > 0 => reserve + CoordinatorBytes + capacity = sample.available
  <2> HIDE DEF reserve
  <2> QED BY <1>1, <1>2 DEF SaturatingSub
<1>4. SUFFICES ASSUME chosen.ok
               PROVE  /\ chosen.jobs \in 1 .. jobs
                      /\ chosen.reserve + CoordinatorBytes + chosen.jobs * estimate <= sample.available
  BY DEF WorkersFit
<1>5. /\ workers # 0
      /\ chosen.jobs = workers /\ chosen.reserve = reserve
  BY <1>4 DEF WorkerPlan, Invalid
<1>6. estimate \in Nat \ {0} /\ workers = Least(capacity \div estimate, jobs)
  BY <1>5
<1>7. capacity \div estimate \in Nat /\ (capacity \div estimate) * estimate <= capacity
  <2> HIDE DEF capacity
  <2> QED BY <1>3, <1>6, DivideDown
<1>8. workers \in 1 .. jobs /\ workers <= capacity \div estimate
  <2> HIDE DEF capacity
  <2> QED BY <1>5, <1>6, <1>7 DEF Least
<1>9. workers * estimate <= (capacity \div estimate) * estimate
  <2> DEFINE q == capacity \div estimate
  <2> HIDE DEF capacity, workers, q
  <2>1. q \in Nat /\ workers \in Nat /\ estimate \in Nat /\ workers <= q
    BY <1>6, <1>7, <1>8 DEF q
  <2>2. PICK e \in Nat : q = workers + e
    <3>1. q - workers \in Nat /\ q = workers + (q - workers)
      BY <2>1
    <3> QED BY <3>1
  <2>3. q * estimate = workers * estimate + e * estimate /\ e * estimate >= 0
    BY <2>1, <2>2
  <2>4. workers * estimate <= q * estimate
    BY <2>1, <2>2, <2>3
  <2> QED BY <2>4 DEF q
<1>10. workers * estimate \in Nat /\ workers * estimate > 0
  <2> HIDE DEF workers
  <2> QED BY <1>6, <1>8
<1>11. workers * estimate <= capacity /\ capacity > 0
  <2> DEFINE p == (capacity \div estimate) * estimate
             w == workers * estimate
  <2>1. p \in Nat
    BY <1>7, <1>6
  <2> HIDE DEF capacity, workers, p, w
  <2> QED BY <1>3, <1>7, <1>9, <1>10, <2>1 DEF p, w
<1> QED
  <2> HIDE DEF capacity, workers, reserve, free, chosen
  <2> QED BY <1>1, <1>2, <1>3, <1>5, <1>8, <1>10, <1>11

(* The kernel's rounding to pages leaves a multiple of the page as it is.     *)
LEMMA RoundUpExact ==
    ASSUME NEW bytes \in Nat, NEW page \in Nat \ {0}, bytes % page = 0
    PROVE  RoundUp(bytes, page) = bytes
<1>1. PICK m \in Nat : bytes = m * page
  <2>1. bytes = (bytes \div page) * page + (bytes % page) /\ bytes \div page \in Nat
    OBVIOUS
  <2> QED BY <2>1
<1>2. (m * page + (page - 1)) \div page = m
  <2> DEFINE q == (m * page + (page - 1)) \div page
             n == m * page + (page - 1)
  <2>1. n \in Nat /\ m * page \in Nat
    OBVIOUS
  <2>2. q \in Nat /\ q * page <= n /\ n < q * page + page
    BY <2>1, DivideDown
  <2>3. q <= m
    <3>1. CASE q >= m + 1
      <4>1. PICK e \in Nat : q = m + 1 + e
        <5>1. q - (m + 1) \in Nat /\ q = m + 1 + (q - (m + 1))
          BY <3>1, <2>2
        <5> QED BY <5>1
      <4>2. q * page = m * page + page + e * page /\ e * page >= 0
        BY <4>1
      <4> QED BY <4>2, <2>1, <2>2
    <3> QED BY <3>1, <2>2
  <2>4. m <= q
    <3>1. CASE m >= q + 1
      <4>1. PICK e \in Nat : m = q + 1 + e
        <5>1. m - (q + 1) \in Nat /\ m = q + 1 + (m - (q + 1))
          BY <3>1, <2>2
        <5> QED BY <5>1
      <4>2. m * page = q * page + page + e * page /\ e * page >= 0
        BY <4>1, <2>2
      <4> QED BY <4>2, <2>1, <2>2
    <3> QED BY <3>1, <2>2
  <2> QED BY <2>2, <2>3, <2>4
<1>3. bytes + page - 1 = m * page + (page - 1)
  BY <1>1
<1> QED
  BY <1>1, <1>2, <1>3 DEF RoundUp

(* A multiple of a multiple of the page is a multiple of the page.            *)
LEMMA PageDivides ==
    ASSUME NEW bytes \in Nat, NEW page \in Nat \ {0}, NEW k \in Nat, Alignment = k * page,
           bytes % Alignment = 0
    PROVE  bytes % page = 0
<1>1. Alignment \in Nat \ {0}
  BY UnitsAssumption
<1>2. bytes = (bytes \div Alignment) * Alignment /\ bytes \div Alignment \in Nat
  BY <1>1
<1> DEFINE m == (bytes \div Alignment) * k
<1>3. bytes = m * page /\ m \in Nat
  BY <1>2
<1> HIDE DEF m
<1>4. (m * page) % page = 0
  BY <1>3, MultipleDivides
<1> QED
  BY <1>3, <1>4

(* The scope a supervisor asks for, read back after the kernel rounded it to  *)
(* pages, is what linux.rs bounded() accepts: a launched command never fails  *)
(* to find its own boundary because of rounding, on 4, 16 or 64 KiB pages.    *)
THEOREM EveryScopeIsBounded ==
    ASSUME NEW memory \in Nat, memory % Alignment = 0, memory >= 5 * Alignment,
           NEW jobs \in Nat \ {0},
           NEW page \in Nat \ {0}, NEW k \in Nat, Alignment = k * page
    PROVE  LaunchedScopeIsBounded(memory, jobs, page)
<1> DEFINE fifth == memory \div 5
           high == HighMemoryBytes(memory)
           scope == ScopeProperties(memory, jobs)
           group == Readback(scope, page)
<1>1. Alignment \in Nat \ {0} /\ Unlimited \notin Nat
  BY UnitsAssumption
<1>2. fifth \in Nat /\ fifth >= Alignment
  BY <1>1
<1>3. high \in Nat /\ high <= fifth * 4 /\ fifth * 4 < high + Alignment /\ high % Alignment = 0
  <2>1. fifth * 4 \in Nat
    BY <1>2
  <2> HIDE DEF fifth
  <2> QED BY <2>1, AlignDown DEF HighMemoryBytes, fifth
<1>4. high > 0 /\ memory > 0
  <2> HIDE DEF high, fifth
  <2> QED BY <1>1, <1>2, <1>3
<1>5. RoundUp(memory, page) = memory /\ RoundUp(high, page) = high
  <2> HIDE DEF high
  <2>1. memory % page = 0 /\ high % page = 0
    BY <1>3, PageDivides
  <2> QED BY <2>1, <1>3, RoundUpExact
<1>6. TaskLimit(jobs) \in Nat /\ TaskLimit(jobs) > 0
  BY DEF TaskLimit, Most
<1>7. /\ group.quota = jobs * 100 /\ group.period = 100 /\ group.swap = 0
      /\ group.max = memory /\ group.high = high /\ group.tasks = TaskLimit(jobs)
  <2>1. scope = [max |-> memory, high |-> high, swap |-> 0, tasks |-> TaskLimit(jobs),
                 quota |-> jobs * 100, period |-> 100]
    BY DEF ScopeProperties
  <2>2. /\ group.max = RoundUp(memory, page) /\ group.high = RoundUp(high, page)
        /\ group.swap = 0 /\ group.tasks = TaskLimit(jobs)
        /\ group.quota = jobs * 100 /\ group.period = 100
    BY DEF Readback, ScopeProperties
  <2> QED BY <2>2, <1>5
<1>8. jobs * 100 \in Nat /\ CpuBounded(jobs * 100, 100, jobs)
  BY DEF CpuBounded
<1>9. Bounded(group, memory, jobs)
  <2> HIDE DEF group, high, scope
  <2> QED BY <1>1, <1>2, <1>3, <1>4, <1>6, <1>7, <1>8 DEF Bounded
<1> QED
  BY <1>9 DEF LaunchedScopeIsBounded

-----------------------------------------------------------------------------

(* LaunchedScopeIsFound, on every host, for every allowance and page size:    *)
(* linux.rs find_boundary stops at the scope itself.                          *)
THEOREM EveryLaunchFindsItsScope ==
  ASSUME Is("launch") =>
           /\ case.total \in Nat /\ case.requested \in Nat \cup {Unlimited} /\ case.jobs \in 1 .. MaxJobs
           /\ \E k \in Nat : Alignment = k * case.page
           /\ case.page \in Nat \ {0}
  PROVE  LaunchedScopeIsFound
<1>. SUFFICES ASSUME Is("launch")
              PROVE  LaunchedScopeIsFound
  BY DEF LaunchedScopeIsFound
<1>. DEFINE memory == MemoryLimit(case.total, case.requested, case.jobs)
            scope == Readback(ScopeProperties(memory, case.jobs), case.page)
            groups == <<scope, case.parent>>
<1>1. case.jobs \in Nat \ {0} /\ MiB \in Nat /\ Alignment \in Nat \ {0}
  BY UnitsAssumption DEF MaxJobs
<1>2. MemoryCeiling(case.requested, case.jobs) \in Nat
  <2>1. case.requested # Unlimited => case.requested \in Nat
    OBVIOUS
  <2>2. Clamp(case.jobs, 4, 16) \in Nat
    BY <1>1 DEF Clamp, Most, Least
  <2>3. \A r \in Nat : r * MiB \in Nat /\ r * 1024 \in Nat
    BY <1>1
  <2>4. (IF case.requested # Unlimited THEN case.requested ELSE Clamp(case.jobs, 4, 16) * 1024) \in Nat
    BY <2>1, <2>2, <2>3
  <2>. QED  BY <2>3, <2>4 DEF MemoryCeiling
<1>3. memory \in Nat /\ memory % Alignment = 0
  <2>1. case.total \div 4 \in Nat
    OBVIOUS
  <2>2. Least(case.total \div 4, MemoryCeiling(case.requested, case.jobs)) \in Nat
    BY <1>2, <2>1 DEF Least
  <2>. QED  BY <2>2, AlignDown DEF MemoryLimit
<1>. SUFFICES ASSUME memory >= 5 * Alignment
              PROVE  /\ LaunchedScopeIsBounded(memory, case.jobs, case.page)
                     /\ FindBoundary(groups, memory, case.jobs) = 1
  BY DEF LaunchedScopeIsFound
<1>4. LaunchedScopeIsBounded(memory, case.jobs, case.page)
  <2>. HIDE DEF memory
  <2>. QED  BY <1>1, <1>3, EveryScopeIsBounded
<1>5. Bounded(groups[1], memory, case.jobs)
  <2>1. groups[1] = scope
    OBVIOUS
  <2>. HIDE DEF memory, groups
  <2>. QED  BY <1>4, <2>1 DEF LaunchedScopeIsBounded
<1>6. FindBoundary(groups, memory, case.jobs) = 1
  <2>. DEFINE fits == {i \in DOMAIN groups : Bounded(groups[i], memory, case.jobs)}
  <2>1. DOMAIN groups = 1 .. 2
    OBVIOUS
  <2>. HIDE DEF memory, groups
  <2>2. fits \in SUBSET (1 .. 2) /\ 1 \in fits
    BY <1>5, <2>1
  <2>3. FindBoundary(groups, memory, case.jobs) = CHOOSE i \in fits : \A j \in fits : i <= j
    BY <2>2 DEF FindBoundary
  <2>4. \A i \in fits : 1 <= i
    BY <2>2
  <2>5. \A i \in fits : (\A j \in fits : i <= j) => i = 1
    BY <2>2
  <2>. HIDE DEF fits
  <2>. QED  BY <2>2, <2>3, <2>4, <2>5
<1>. QED  BY <1>4, <1>6

-----------------------------------------------------------------------------
(* Budgets from a sample of the host and of every level of the cgroup.        *)

LimitsOrNone == Nat \cup {Unlimited}

(* What can be read from a level, and from the levels of a mount: a directory *)
(* under one that is gone is gone.                                            *)
CgroupReading(level) ==
    /\ level.max \in LimitsOrNone /\ level.high \in LimitsOrNone /\ level.current \in Nat
    /\ level.full \in Nat /\ level.some \in Nat
    /\ level.stat \in [file : Nat, shmem : Nat, dirty : Nat, writeback : Nat, unevictable : Nat]

Mount(levels) ==
    /\ \E n \in Nat \ {0} : DOMAIN levels = 1 .. n
    /\ \A i \in DOMAIN levels : CgroupReading(levels[i])
    /\ \A i, j \in DOMAIN levels : (j <= i /\ levels[i].gone) => levels[j].gone

(* LeastOf and MostOf are what their names say, Unlimited standing for none.  *)
LEMMA LeastOfIsLeast ==
  ASSUME NEW S \in SUBSET Nat
  PROVE  /\ LeastOf(S) \in LimitsOrNone
         /\ \A x \in S : LeastOf(S) \in Nat /\ LeastOf(S) <= x
<1>1. CASE S = {}
  BY <1>1 DEF LeastOf, LimitsOrNone
<1>2. CASE S # {}
  <2>1. \E x \in S : \A y \in S : x <= y
    BY <1>2, LeastNatural
  <2>2. LeastOf(S) = CHOOSE m \in S : \A n \in S : m <= n
    BY <1>2 DEF LeastOf
  <2>3. LeastOf(S) \in S /\ \A y \in S : LeastOf(S) <= y
    BY <2>1, <2>2
  <2>. QED  BY <2>3 DEF LimitsOrNone
<1>. QED  BY <1>1, <1>2

(* Every finite set of naturals that is not empty has a greatest element.     *)
LEMMA GreatestNatural ==
  ASSUME NEW S \in SUBSET Nat, IsFiniteSet(S), S # {}
  PROVE  \E x \in S : \A y \in S : y <= x
<1>. DEFINE Has(T) == T # {} => \E x \in T : \A y \in T : y <= x
            K == {k \in Nat : \A T \in SUBSET S : Cardinality(T) = k => Has(T)}
<1>1. \A T \in SUBSET S : IsFiniteSet(T) /\ Cardinality(T) \in Nat
  BY FS_Subset, FS_CardinalityType
<1>2. 0 \in K
  <2>1. ASSUME NEW T \in SUBSET S, Cardinality(T) = 0  PROVE Has(T)
    BY <1>1, <2>1, FS_EmptySet
  <2>. HIDE DEF Has
  <2>. QED  BY <2>1
<1>3. ASSUME NEW k \in Nat, k \in K  PROVE k + 1 \in K
  <2>1. ASSUME NEW T \in SUBSET S, Cardinality(T) = k + 1, T # {}
        PROVE  \E x \in T : \A y \in T : y <= x
    <3>1. PICK t \in T : TRUE
      BY <2>1
    <3>2. T \ {t} \in SUBSET S /\ Cardinality(T \ {t}) = k
      BY <1>1, <2>1, FS_RemoveElement
    <3>3. Has(T \ {t})
      <4>. HIDE DEF Has
      <4>. QED  BY <1>3, <3>2
    <3>4. CASE T \ {t} = {}
      <4>1. \A y \in T : y = t
        BY <3>4
      <4>. QED  BY <3>1, <4>1
    <3>5. CASE T \ {t} # {}
      <4>1. PICK x \in T \ {t} : \A y \in T \ {t} : y <= x
        BY <3>3, <3>5
      <4>2. t \in Nat /\ x \in Nat /\ \A y \in T : y \in Nat
        BY <3>1
      <4>3. CASE t <= x
        <5>1. \A y \in T : y <= x
          BY <4>1, <4>3
        <5>. QED  BY <5>1
      <4>4. CASE x <= t
        <5>1. \A y \in T : y <= t
          BY <4>1, <4>2, <4>4
        <5>. QED  BY <3>1, <5>1
      <4>. QED  BY <4>2, <4>3, <4>4
    <3>. QED  BY <3>4, <3>5
  <2>. QED  BY <2>1
<1>4. Cardinality(S) \in K
  <2>. HIDE DEF K
  <2>1. \A k \in Nat : k \in K
    BY <1>2, <1>3, SetInduction
  <2>. QED  BY <1>1, <2>1
<1>. QED  BY <1>4

(* MostOf, of a set of naturals that is finite, is its greatest element.      *)
LEMMA MostOfIsMost ==
  ASSUME NEW S \in SUBSET Nat, IsFiniteSet(S), S # {}
  PROVE  MostOf(S) \in S /\ \A x \in S : x <= MostOf(S)
BY GreatestNatural DEF MostOf

(* The levels of a finite number of mounts, each with some, are finitely many *)
(* and there is one.                                                          *)
LEMMA LevelsAreFinite ==
  ASSUME NEW mounts, NEW some \in SUBSET DOMAIN mounts, IsFiniteSet(some), some # {},
         \A i \in DOMAIN mounts : Mount(mounts[i]),
         NEW levels, \A l : l \in levels <=> \E i \in some : \E j \in DOMAIN mounts[i] : l = mounts[i][j]
  PROVE  IsFiniteSet(levels) /\ levels # {} /\ \A l \in levels : CgroupReading(l)
<1>. DEFINE rows == {{mounts[i][j] : j \in DOMAIN mounts[i]} : i \in some}
<1>1. IsFiniteSet(rows)
  <2>. DEFINE row == [i \in some |-> {mounts[i][j] : j \in DOMAIN mounts[i]}]
  <2>1. row \in Surjection(some, rows)
    <3>1. \A i \in some : row[i] \in rows
      OBVIOUS
    <3>2. row \in [some -> rows]
      BY <3>1
    <3>3. \A r \in rows : \E i \in some : row[i] = r
      OBVIOUS
    <3>. HIDE DEF row, rows
    <3>. QED  BY <3>2, <3>3 DEF Surjection
  <2>. QED  BY <2>1, FS_Surjection
<1>2. ASSUME NEW r \in rows  PROVE IsFiniteSet(r)
  <2>1. PICK i \in some : r = {mounts[i][j] : j \in DOMAIN mounts[i]}
    OBVIOUS
  <2>. DEFINE D == DOMAIN mounts[i]
              pick == [j \in D |-> mounts[i][j]]
  <2>2. IsFiniteSet(D)
    <3>1. PICK n \in Nat \ {0} : D = 1 .. n
      BY DEF Mount
    <3>. QED  BY <3>1, FS_Interval
  <2>3. pick \in Surjection(D, r)
    BY <2>1 DEF Surjection
  <2>. QED  BY <2>2, <2>3, FS_Surjection
<1>3. IsFiniteSet(levels)
  <2>1. levels = UNION rows
    OBVIOUS
  <2>. HIDE DEF rows
  <2>. QED  BY <1>1, <1>2, <2>1, FS_UNION
<1>4. levels # {}
  <2>1. PICK i \in some : TRUE
    OBVIOUS
  <2>2. 1 \in DOMAIN mounts[i]
    BY DEF Mount
  <2>3. mounts[i][1] \in levels
    BY <2>2
  <2>. QED  BY <2>3
<1>5. \A l \in levels : CgroupReading(l)
  BY DEF Mount
<1>. QED  BY <1>3, <1>4, <1>5

(* The reclaimable part never makes the usage negative.                       *)
LEMMA WorkingIsNatural ==
  ASSUME NEW level, CgroupReading(level)
  PROVE  WorkingBytes(level.current, level.stat) \in Nat
<1>1. \A a, b \in Nat : SaturatingSub(a, b) \in Nat /\ Least(a, b) \in Nat
  BY DEF SaturatingSub, Least
<1>2. /\ level.stat.file \in Nat /\ level.stat.shmem \in Nat /\ level.stat.dirty \in Nat
      /\ level.stat.writeback \in Nat /\ level.stat.unevictable \in Nat /\ level.current \in Nat
  BY DEF CgroupReading
<1>. QED  BY <1>1, <1>2 DEF WorkingBytes

(* A sample of levels is at most every headroom of every level, under the     *)
(* hard and under the soft limit, and its pressure at least that of each.     *)
LEMMA SampleBounds ==
  ASSUME NEW levels, IsFiniteSet(levels), levels # {}, \A l \in levels : CgroupReading(l)
  PROVE  LET group == SampleLevels(levels)
             used(l) == WorkingBytes(l.current, l.stat)
         IN  /\ group.ok /\ group.total \in LimitsOrNone /\ group.available \in LimitsOrNone
             /\ group.full \in Nat /\ group.some \in Nat
             /\ \A l \in levels : l.full <= group.full
             /\ \A l \in levels : l.files = "all" =>
                  /\ l.max # Unlimited =>
                       group.available \in Nat /\ group.available <= SaturatingSub(l.max, used(l))
                  /\ l.high # Unlimited =>
                       group.available \in Nat /\ group.available <= SaturatingSub(l.high, used(l))
<1>. DEFINE group == SampleLevels(levels)
            used(l) == WorkingBytes(l.current, l.stat)
            read == {l \in levels : l.files = "all"}
            totals == {l.max : l \in read} \ {Unlimited}
            hard == {SaturatingSub(l.max, used(l)) : l \in {l \in read : l.max # Unlimited}}
            soft == {SaturatingSub(l.high, used(l)) : l \in {l \in read : l.high # Unlimited}}
            fulls == {l.full : l \in levels}
            somes == {l.some : l \in levels}
<1>1. group = [ok |-> TRUE, total |-> LeastOf(totals), available |-> LeastOf(hard \cup soft),
               full |-> MostOf(fulls), some |-> MostOf(somes)]
  BY DEF SampleLevels
<1>2. \A l \in levels : used(l) \in Nat
  BY WorkingIsNatural
<1>3. /\ \A l \in read : l.max # Unlimited => l.max \in Nat /\ SaturatingSub(l.max, used(l)) \in Nat
      /\ \A l \in read : l.high # Unlimited => l.high \in Nat /\ SaturatingSub(l.high, used(l)) \in Nat
  <2>. HIDE DEF used
  <2>. QED  BY <1>2 DEF CgroupReading, LimitsOrNone, SaturatingSub
<1>4. totals \in SUBSET Nat /\ hard \cup soft \in SUBSET Nat
  <2>. HIDE DEF used
  <2>. QED  BY <1>3
<1>5. fulls \in SUBSET Nat /\ fulls # {} /\ somes \in SUBSET Nat /\ somes # {}
  BY DEF CgroupReading
<1>6. IsFiniteSet(fulls) /\ IsFiniteSet(somes)
  <2>1. [l \in levels |-> l.full] \in Surjection(levels, fulls)
    BY DEF Surjection
  <2>2. [l \in levels |-> l.some] \in Surjection(levels, somes)
    BY DEF Surjection
  <2>. HIDE DEF fulls, somes
  <2>. QED  BY <2>1, <2>2, FS_Surjection
<1>7. /\ LeastOf(totals) \in LimitsOrNone /\ LeastOf(hard \cup soft) \in LimitsOrNone
      /\ \A x \in hard \cup soft : LeastOf(hard \cup soft) \in Nat /\ LeastOf(hard \cup soft) <= x
  <2>. HIDE DEF totals, hard, soft
  <2>. QED  BY <1>4, LeastOfIsLeast
<1>8. /\ MostOf(fulls) \in fulls /\ \A x \in fulls : x <= MostOf(fulls)
      /\ MostOf(somes) \in somes
  <2>. HIDE DEF fulls, somes
  <2>. QED  BY <1>5, <1>6, MostOfIsMost
<1>9. /\ MostOf(fulls) \in Nat /\ MostOf(somes) \in Nat
      /\ \A l \in levels : l.full <= MostOf(fulls)
  BY <1>5, <1>8
<1>10. /\ \A l \in read : l.max # Unlimited => SaturatingSub(l.max, used(l)) \in hard \cup soft
       /\ \A l \in read : l.high # Unlimited => SaturatingSub(l.high, used(l)) \in hard \cup soft
  <2>. HIDE DEF used
  <2>. QED  OBVIOUS
<1>11. /\ \A l \in levels : l.files = "all" => l \in read
       /\ group.ok /\ group.total = LeastOf(totals) /\ group.available = LeastOf(hard \cup soft)
       /\ group.full = MostOf(fulls) /\ group.some = MostOf(somes)
  BY <1>1
<1>. HIDE DEF group, used, totals, hard, soft, fulls, somes, read
<1>12. /\ \A l \in levels : l.files = "all" =>
             /\ l.max # Unlimited =>
                  group.available \in Nat /\ group.available <= SaturatingSub(l.max, used(l))
             /\ l.high # Unlimited =>
                  group.available \in Nat /\ group.available <= SaturatingSub(l.high, used(l))
  BY <1>7, <1>10, <1>11
<1>13. /\ group.ok /\ group.total \in LimitsOrNone /\ group.available \in LimitsOrNone
       /\ group.full \in Nat /\ group.some \in Nat
       /\ \A l \in levels : l.full <= group.full
  BY <1>7, <1>9, <1>11
<1>. QED  BY <1>12, <1>13 DEF group, used

(* What is no more than the headroom fits beside the usage, unless it is 0.   *)
LEMMA HeadroomFits ==
  ASSUME NEW bytes \in Nat, bytes > 0, NEW limit \in Nat, NEW used \in Nat,
         bytes <= SaturatingSub(limit, used)
  PROVE  bytes + used <= limit
BY DEF SaturatingSub

(* BudgetFitsEveryLevel, for every host and every number of mounts and        *)
(* levels.                                                                    *)
THEOREM EveryLevelIsKept ==
  ASSUME Is("budget") =>
           /\ case.host \in [total : Nat, available : Nat, full : Nat, some : Nat]
           /\ \E n \in Nat : DOMAIN case.mounts = 1 .. n
           /\ \A i \in DOMAIN case.mounts : Mount(case.mounts[i])
           /\ case.cpus \in Nat /\ case.jobs \in Nat /\ case.estimate \in Nat
           /\ case.telemetry \in {"none", "host", "cgroup"}
  PROVE  BudgetFitsEveryLevel
<1>. DEFINE host == case.host
            mounts == case.mounts
            group == IF case.telemetry = "cgroup" THEN SampleCgroup(mounts) ELSE Unmeasured
            sample == SampleMemory(case.telemetry, host, mounts)
            budget == FromSample(sample, case.cpus, case.jobs)
            chosen == WorkerPlan(sample, case.jobs, case.estimate)
            holding == {i \in DOMAIN mounts : case.telemetry = "cgroup" /\ ~mounts[i][1].gone}
            levels == {l \in UNION {{mounts[i][j] : j \in DOMAIN mounts[i]} : i \in holding} :
                          ~l.gone /\ l.files = "all"}
            fits(bytes) ==
              /\ bytes <= host.available
              /\ \A l \in levels : l.max # Unlimited => bytes + WorkingBytes(l.current, l.stat) <= l.max
              /\ \A l \in levels : l.high # Unlimited => bytes + WorkingBytes(l.current, l.stat) <= l.high
            reached == {i \in DOMAIN mounts : ~Missing(mounts[i])}
            sampled == UNION {{mounts[i][j] : j \in DOMAIN mounts[i]} : i \in reached}
<1>. SUFFICES ASSUME Is("budget"), sample.ok, sample # Unmeasured
              PROVE  /\ BudgetFits(sample, case.cpus, case.jobs)
                     /\ WorkersFit(sample, case.jobs, case.estimate)
                     /\ budget.ok => fits(budget.memory + budget.reserve) /\ \A l \in levels : l.full = 0
                     /\ chosen.ok => fits(chosen.jobs * case.estimate + CoordinatorBytes + chosen.reserve)
  BY DEF BudgetFitsEveryLevel
<1>1. /\ host \in [total : Nat, available : Nat, full : Nat, some : Nat]
      /\ case.cpus \in Nat /\ case.jobs \in Nat /\ case.estimate \in Nat
      /\ \A i \in DOMAIN mounts : Mount(mounts[i])
  OBVIOUS
<1>2. /\ group.ok
      /\ sample = [ok |-> TRUE, total |-> Tighter(host.total, group.total),
                   available |-> Tighter(host.available, group.available),
                   full |-> Most(host.full, group.full), some |-> Most(host.some, group.some)]
  <2>1. /\ case.telemetry # "none" /\ case.telemetry \in {"none", "host", "cgroup"}
        /\ sample = SampleLinux(host, group)
    BY DEF SampleMemory
  <2>. HIDE DEF host, group, sample
  <2>. QED  BY <2>1 DEF SampleLinux, Invalid
<1>3. ASSUME case.telemetry = "cgroup"
      PROVE  /\ reached # {} /\ \A i \in reached : Unreadable(mounts[i]) = {}
             /\ group = SampleLevels(sampled)
  <2>. HIDE DEF mounts
  <2>. QED  BY <1>2, <1>3 DEF SampleCgroup, Invalid
<1>4. ASSUME case.telemetry = "cgroup"
      PROVE  /\ IsFiniteSet(sampled) /\ sampled # {} /\ \A l \in sampled : CgroupReading(l)
  <2>1. IsFiniteSet(DOMAIN mounts)
    BY FS_Interval
  <2>2. reached \in SUBSET DOMAIN mounts
    OBVIOUS
  <2>. HIDE DEF reached, mounts
  <2>3. IsFiniteSet(reached)
    BY <2>1, <2>2, FS_Subset
  <2>4. reached # {} /\ \A i \in DOMAIN mounts : Mount(mounts[i])
    BY <1>1, <1>3, <1>4
  <2>5. \A l : l \in sampled <=> \E i \in reached : \E j \in DOMAIN mounts[i] : l = mounts[i][j]
    OBVIOUS
  <2>. HIDE DEF sampled
  <2>. QED  BY <2>2, <2>3, <2>4, <2>5, LevelsAreFinite
<1>5. levels \in SUBSET sampled /\ (levels # {} => case.telemetry = "cgroup")
  <2>1. ASSUME NEW i \in holding  PROVE i \in reached
    <3>. SUFFICES ASSUME Missing(mounts[i])  PROVE FALSE
      OBVIOUS
    <3>1. PICK k \in DOMAIN mounts[i] : mounts[i][k].gone
      BY DEF Missing, Unreadable
    <3>2. Mount(mounts[i])
      BY <1>1
    <3>. HIDE DEF mounts
    <3>3. 1 \in DOMAIN mounts[i] /\ 1 <= k
      BY <3>1, <3>2 DEF Mount
    <3>. QED  BY <3>1, <3>2, <3>3 DEF Mount
  <2>2. \A i \in holding : case.telemetry = "cgroup"
    OBVIOUS
  <2>3. \A l \in levels : \E i \in holding : \E j \in DOMAIN mounts[i] : l = mounts[i][j]
    <3>. HIDE DEF holding, mounts
    <3>. QED  OBVIOUS
  <2>4. \A i \in reached : \A j \in DOMAIN mounts[i] : mounts[i][j] \in sampled
    <3>. HIDE DEF reached, mounts
    <3>. QED  OBVIOUS
  <2>. HIDE DEF holding, reached, levels, sampled, mounts
  <2>. QED  BY <2>1, <2>2, <2>3, <2>4
<1>. HIDE DEF sampled, levels
<1>5a. \A l \in levels : CgroupReading(l)
  BY <1>4, <1>5
<1>6. /\ group.total \in LimitsOrNone /\ group.available \in LimitsOrNone
      /\ group.full \in Nat /\ group.some \in Nat
      /\ \A l \in levels : l.full <= group.full
      /\ \A l \in levels :
           /\ l.max # Unlimited =>
                group.available \in Nat /\ group.available <= SaturatingSub(l.max, WorkingBytes(l.current, l.stat))
           /\ l.high # Unlimited =>
                group.available \in Nat /\ group.available <= SaturatingSub(l.high, WorkingBytes(l.current, l.stat))
  <2>1. \A l \in levels : l \in sampled /\ l.files = "all"
    BY <1>5 DEF levels
  <2>2. CASE case.telemetry = "cgroup"
    <3>. HIDE DEF group
    <3>. QED  BY <1>3, <1>4, <2>1, <2>2, SampleBounds
  <2>3. CASE case.telemetry # "cgroup"
    <3>1. group = Unmeasured /\ levels = {}
      BY <1>5, <2>3
    <3>. HIDE DEF group
    <3>. QED  BY <3>1 DEF Unmeasured, LimitsOrNone
  <2>. QED  BY <2>2, <2>3
<1>7. Unlimited \notin Nat /\ MiB \in Nat /\ MiB > 0 /\ CoordinatorBytes \in Nat /\ CoordinatorBytes > 0
  <2>1. PICK k \in Nat \ {0} : MiB = k * Alignment
    BY UnitsAssumption
  <2>2. MiB \in Nat /\ MiB > 0
    BY <2>1, UnitsAssumption
  <2>. QED  BY <2>2, UnitsAssumption DEF CoordinatorBytes
<1>8. /\ sample \in Samples
      /\ sample.available <= host.available
      /\ group.available \in Nat => sample.available <= group.available
      /\ group.full <= sample.full
  <2>. HIDE DEF host, group, sample
  <2>1. \A a \in Nat : \A b \in LimitsOrNone :
           /\ Tighter(a, b) \in Nat /\ Tighter(a, b) <= a
           /\ b \in Nat => Tighter(a, b) <= b
    BY <1>7 DEF Tighter, LimitsOrNone, Least
  <2>2. \A a, b \in Nat : Most(a, b) \in Nat /\ b <= Most(a, b)
    BY DEF Most
  <2>. QED  BY <1>1, <1>2, <1>6, <2>1, <2>2 DEF Samples
<1>9. /\ BudgetFits(sample, case.cpus, case.jobs)
      /\ WorkersFit(sample, case.jobs, case.estimate)
  <2>. HIDE DEF sample
  <2>. QED  BY <1>1, <1>8, EveryBudgetFits, EveryWorkerFits
<1>10. ASSUME NEW bytes \in Nat, bytes > 0, bytes <= sample.available
       PROVE  fits(bytes)
  <2>1. sample.available \in Nat /\ host.available \in Nat
    BY <1>1, <1>8 DEF Samples
  <2>2. bytes <= host.available
    <3>. HIDE DEF sample, host
    <3>. QED  BY <1>8, <1>10, <2>1
  <2>3. ASSUME NEW l \in levels
        PROVE  /\ l.max \in LimitsOrNone /\ l.high \in LimitsOrNone
               /\ WorkingBytes(l.current, l.stat) \in Nat
    BY <1>5a, WorkingIsNatural DEF CgroupReading
  <2>4. ASSUME NEW limit \in Nat, NEW used \in Nat, group.available \in Nat,
               group.available <= SaturatingSub(limit, used)
        PROVE  bytes + used <= limit
    <3>1. SaturatingSub(limit, used) \in Nat
      BY DEF SaturatingSub
    <3>. HIDE DEF sample, group
    <3>2. bytes <= SaturatingSub(limit, used)
      BY <1>8, <1>10, <2>1, <2>4, <3>1
    <3>. QED  BY <1>10, <3>2, HeadroomFits
  <2>. HIDE DEF sample, group, host
  <2>5. \A l \in levels : l.max # Unlimited => bytes + WorkingBytes(l.current, l.stat) <= l.max
    <3>1. \A l \in levels : l.max # Unlimited => l.max \in Nat
      BY <2>3 DEF LimitsOrNone
    <3>. QED  BY <1>6, <2>3, <2>4, <3>1
  <2>6. \A l \in levels : l.high # Unlimited => bytes + WorkingBytes(l.current, l.stat) <= l.high
    <3>1. \A l \in levels : l.high # Unlimited => l.high \in Nat
      BY <2>3 DEF LimitsOrNone
    <3>. QED  BY <1>6, <2>3, <2>4, <3>1
  <2>. QED  BY <2>2, <2>5, <2>6
<1>11. ASSUME budget.ok
       PROVE  fits(budget.memory + budget.reserve) /\ \A l \in levels : l.full = 0
  <2>0. sample # Unmeasured
    OBVIOUS
  <2>1. /\ budget.reserve = ReserveBytes(sample.total) /\ CheckSample(sample, budget.reserve)
        /\ budget.memory = AlignMemoryBytes(Least(Least(SaturatingSub(sample.available, budget.reserve) \div 2,
                                                        sample.total \div 4), 8 * GiB))
    <3>. HIDE DEF sample
    <3>. QED  BY <1>11, <2>0 DEF FromSample, Invalid
  <2>2. /\ budget.reserve + 2 * budget.memory <= sample.available /\ budget.memory > 0
    BY <1>9, <1>11 DEF BudgetFits
  <2>3. sample.total \in Nat /\ sample.available \in Nat /\ budget.reserve \in Nat
    <3>. HIDE DEF sample, budget
    <3>. QED  BY <1>8, <2>1, ReserveBounds DEF Samples
  <2>4. budget.memory \in Nat
    <3>. DEFINE half == SaturatingSub(sample.available, budget.reserve) \div 2
                quarter == sample.total \div 4
    <3>. HIDE DEF sample, budget
    <3>1. SaturatingSub(sample.available, budget.reserve) \in Nat
      BY <2>3 DEF SaturatingSub
    <3>2. half \in Nat /\ quarter \in Nat /\ 8 * GiB \in Nat
      <4>1. \A a \in Nat : a \div 2 \in Nat /\ a \div 4 \in Nat /\ 8 * (1024 * a) \in Nat
        OBVIOUS
      <4>2. 8 * GiB \in Nat
        BY <1>7, <4>1 DEF GiB
      <4>3. half \in Nat
        BY <3>1, <4>1
      <4>4. quarter \in Nat
        BY <2>3, <4>1
      <4>. QED  BY <4>2, <4>3, <4>4
    <3>. HIDE DEF half, quarter
    <3>3. Least(Least(half, quarter), 8 * GiB) \in Nat
      BY <3>2 DEF Least
    <3>. QED  BY <2>1, <3>3, AlignDown DEF half, quarter
  <2>5. fits(budget.memory + budget.reserve)
    <3>1. /\ budget.memory + budget.reserve \in Nat /\ budget.memory + budget.reserve > 0
          /\ budget.memory + budget.reserve <= sample.available
      <4>. HIDE DEF sample, budget
      <4>1. \A m, r, a \in Nat : (m > 0 /\ r + 2 * m <= a) => m + r \in Nat /\ m + r > 0 /\ m + r <= a
        OBVIOUS
      <4>. QED  BY <2>2, <2>3, <2>4, <4>1
    <3>. HIDE DEF fits, sample, budget
    <3>. QED  BY <1>10, <3>1
  <2>6. \A l \in levels : l.full = 0
    <3>1. sample.full < 1 /\ sample.full \in Nat
      BY <1>8, <2>1 DEF CheckSample, Samples
    <3>2. \A l \in levels : l.full \in Nat
      BY <1>5a DEF CgroupReading
    <3>. HIDE DEF sample, group
    <3>. QED  BY <1>6, <1>8, <3>1, <3>2
  <2>. QED  BY <2>5, <2>6
<1>12. ASSUME chosen.ok
       PROVE  fits(chosen.jobs * case.estimate + CoordinatorBytes + chosen.reserve)
  <2>1. /\ chosen.jobs \in 1 .. case.jobs
        /\ chosen.reserve + CoordinatorBytes + chosen.jobs * case.estimate <= sample.available
    BY <1>9, <1>12 DEF WorkersFit
  <2>2. chosen.reserve = ReserveBytes(sample.total)
    <3>. HIDE DEF sample
    <3>. QED  BY <1>12 DEF WorkerPlan, Invalid
  <2>3. chosen.reserve \in Nat /\ sample.available \in Nat
    <3>. HIDE DEF sample, chosen
    <3>. QED  BY <1>8, <2>2, ReserveBounds DEF Samples
  <2>. DEFINE runners == chosen.jobs * case.estimate
              bytes == runners + CoordinatorBytes + chosen.reserve
  <2>4. runners \in Nat
    <3>. HIDE DEF chosen
    <3>. QED  BY <1>1, <2>1
  <2>5. bytes \in Nat /\ bytes > 0 /\ bytes <= sample.available
    <3>. HIDE DEF sample, chosen, runners
    <3>1. chosen.reserve + CoordinatorBytes + runners <= sample.available
      BY <2>1 DEF runners
    <3>2. \A a, b, c, d \in Nat : (b > 0 /\ c + b + a <= d) =>
             a + b + c \in Nat /\ a + b + c > 0 /\ a + b + c <= d
      OBVIOUS
    <3>3. /\ runners + CoordinatorBytes + chosen.reserve \in Nat
          /\ runners + CoordinatorBytes + chosen.reserve > 0
          /\ runners + CoordinatorBytes + chosen.reserve <= sample.available
      <4>. HIDE DEF bytes
      <4>. QED  BY <1>7, <2>3, <2>4, <3>1, <3>2
    <3>. QED  BY <3>3 DEF bytes
  <2>. HIDE DEF bytes, fits, sample, chosen
  <2>6. fits(bytes)
    BY <1>10, <2>5
  <2>. QED  BY <2>6 DEF bytes
<1>. QED  BY <1>9, <1>11, <1>12

-----------------------------------------------------------------------------
(* Mutation scores.                                                           *)

(* A finite set without elements is empty, and only it.                       *)
LEMMA CountsNone ==
  ASSUME NEW S, IsFiniteSet(S)
  PROVE  Cardinality(S) \in Nat /\ (Cardinality(S) > 0 <=> S # {})
<1>1. Cardinality(S) \in Nat
  BY FS_CardinalityType
<1>. QED  BY <1>1, FS_EmptySet

(* What the gate reads off the counts of a report it finds no violation in.   *)
LEMMA CleanCounts ==
  ASSUME NEW report, NEW floor \in Nat, Clean(report, floor),
         \A c \in Categories : Parse(report).count[c] \in Nat,
         IsFiniteSet(NotExecuted(report))
  PROVE  LET count == Parse(report).count
         IN  /\ Parse(report).ok /\ NotExecuted(report) = {}
             /\ RateReached(count["killed"], count["survived"], floor)
             /\ \A c \in {"timeout", "compile_error", "runner_error", "unviable"} : count[c] = 0
<1>. DEFINE count == Parse(report).count
            unexecuted == Cardinality(NotExecuted(report))
<1>1. Parse(report).ok /\ Violations(count, unexecuted, floor) = {}
  BY DEF Clean, EvaluateReport, Refused
<1>2. /\ ~(unexecuted > 0) /\ ~BelowFloor(count, floor) /\ ~BrokenRunners(count, unexecuted)
      /\ ~(count["timeout"] > 0) /\ ~(count["compile_error"] > 0) /\ ~(count["runner_error"] > 0)
  <2>. HIDE DEF count, unexecuted
  <2>. QED  BY <1>1 DEF Violations
<1>3. NotExecuted(report) = {} /\ unexecuted = 0
  BY <1>2, CountsNone, FS_EmptySet
<1>4. \A c \in Categories : count[c] \in Nat
  OBVIOUS
<1>5. /\ count["killed"] \in Nat /\ count["survived"] \in Nat /\ count["timeout"] \in Nat
      /\ count["compile_error"] \in Nat /\ count["runner_error"] \in Nat /\ count["unviable"] \in Nat
  BY <1>4 DEF Categories
<1>. HIDE DEF count, unexecuted
<1>6. RateReached(count["killed"], count["survived"], floor)
  <2>. DEFINE k == count["killed"]
              s == count["survived"]
  <2>1. k \in Nat /\ s \in Nat /\ k + s # 0 /\ ~(k * 100 < floor * (k + s))
    BY <1>2, <1>5 DEF BelowFloor
  <2>. HIDE DEF k, s
  <2>2. k * 100 \in Nat /\ floor * (k + s) \in Nat
    BY <2>1
  <2>3. k + s > 0 /\ k * 100 >= floor * (k + s)
    BY <2>1, <2>2
  <2>. QED  BY <2>3 DEF RateReached, k, s
<1>7. \A c \in {"timeout", "compile_error", "runner_error", "unviable"} : count[c] = 0
  BY <1>2, <1>3, <1>5 DEF BrokenRunners
<1>. QED  BY <1>1, <1>3, <1>6, <1>7 DEF count

(* Statistics that are not refused are the counts they were made from.        *)
LEMMA CheckedCounts ==
  ASSUME NEW count, NEW declared, Checked(Stats(count), declared).ok
  PROVE  Checked(Stats(count), declared).count = count
BY DEF Checked, Stats, Refused

(* A Stryker report: every mutant of every file.                              *)
LEMMA StrykerIsEarned ==
  ASSUME NEW report, report.format = "stryker", NEW floor \in Nat, Clean(report, floor),
         IsFiniteSet(DOMAIN report.files),
         \A f \in DOMAIN report.files : IsFiniteSet(DOMAIN report.files[f].mutants)
  PROVE  CleanIsEarned(report, floor)
<1>. DEFINE of(c) == {m \in Mutants(report) : Category(Status(report, m)) = c}
            counts == [c \in Categories |-> Cardinality(of(c))]
            parsed == Parse(report)
<1>1. IsFiniteSet(Mutants(report))
  <2>. DEFINE rows == {{<<f, i>> : i \in DOMAIN report.files[f].mutants} : f \in DOMAIN report.files}
  <2>1. IsFiniteSet(rows)
    <3>. DEFINE row == [f \in DOMAIN report.files |-> {<<f, i>> : i \in DOMAIN report.files[f].mutants}]
    <3>1. row \in Surjection(DOMAIN report.files, rows)
      BY DEF Surjection
    <3>. QED  BY <3>1, FS_Surjection
  <2>2. ASSUME NEW r \in rows  PROVE IsFiniteSet(r)
    <3>1. PICK f \in DOMAIN report.files : r = {<<f, i>> : i \in DOMAIN report.files[f].mutants}
      OBVIOUS
    <3>. DEFINE D == DOMAIN report.files[f].mutants
                pair == [i \in D |-> <<f, i>>]
    <3>2. pair \in Surjection(D, r)
      BY <3>1 DEF Surjection
    <3>. QED  BY <3>2, FS_Surjection
  <2>3. Mutants(report) = UNION rows
    BY DEF Mutants
  <2>. HIDE DEF rows
  <2>. QED  BY <2>1, <2>2, <2>3, FS_UNION
<1>2. \A c : IsFiniteSet(of(c)) /\ Cardinality(of(c)) \in Nat
  <2>1. \A c : of(c) \in SUBSET Mutants(report)
    OBVIOUS
  <2>. HIDE DEF of
  <2>. QED  BY <1>1, <2>1, FS_Subset, FS_CardinalityType
<1>3. parsed = ParseStryker(report)
  BY DEF Parse
<1>4. parsed.ok
  BY DEF Clean, EvaluateReport, Refused
<1>5. /\ \A m \in Mutants(report) : Category(Status(report, m)) \in Categories
      /\ parsed = Checked(Stats(counts), report.total)
  <2>. HIDE DEF parsed
  <2>. QED  BY <1>3, <1>4 DEF ParseStryker, Refused
<1>6. parsed.count = counts
  <2>. HIDE DEF counts
  <2>. QED  BY <1>4, <1>5, CheckedCounts
<1>7. NotExecuted(report) = {m \in Mutants(report) : Status(report, m) \in Unexecuted}
  BY DEF NotExecuted
<1>8. IsFiniteSet(NotExecuted(report))
  <2>1. NotExecuted(report) \in SUBSET Mutants(report)
    BY <1>7
  <2>. QED  BY <1>1, <2>1, FS_Subset
<1>9. \A c \in Categories : parsed.count[c] = Cardinality(of(c)) /\ parsed.count[c] \in Nat
  <2>1. \A c \in Categories : counts[c] = Cardinality(of(c))
    OBVIOUS
  <2>. HIDE DEF of, counts, parsed
  <2>. QED  BY <1>2, <1>6, <2>1
<1>10. /\ NotExecuted(report) = {}
       /\ RateReached(parsed.count["killed"], parsed.count["survived"], floor)
       /\ \A c \in {"timeout", "compile_error", "runner_error", "unviable"} : parsed.count[c] = 0
  <2>. HIDE DEF of, counts
  <2>. QED  BY <1>8, <1>9, CleanCounts
<1>11. \A c \in {"timeout", "compile_error", "runner_error", "unviable"} : of(c) = {}
  <2>1. \A c \in {"timeout", "compile_error", "runner_error", "unviable"} : c \in Categories
    BY DEF Categories
  <2>. HIDE DEF of, counts, parsed
  <2>. QED  BY <1>2, <1>9, <1>10, <2>1, CountsNone
<1>12. \A m \in Mutants(report) : Category(Status(report, m)) = Status(report, m)
  BY <1>7, <1>10 DEF Category
<1>13. ASSUME NEW m \in Mutants(report)  PROVE Status(report, m) \in {"killed", "survived", "equivalent"}
  <2>1. Status(report, m) \in Categories
    BY <1>5, <1>12
  <2>2. \A c \in {"timeout", "compile_error", "runner_error", "unviable"} : Status(report, m) # c
    BY <1>11, <1>12
  <2>. QED  BY <2>1, <2>2 DEF Categories
<1>14. \A c : of(c) = {m \in Mutants(report) : Status(report, m) = c}
  BY <1>12
<1>15. RateReached(Cardinality({m \in Mutants(report) : Status(report, m) = "killed"}),
                   Cardinality({m \in Mutants(report) : Status(report, m) = "survived"}), floor)
  <2>1. /\ Cardinality({m \in Mutants(report) : Status(report, m) = "killed"}) = parsed.count["killed"]
        /\ Cardinality({m \in Mutants(report) : Status(report, m) = "survived"}) = parsed.count["survived"]
    <3>1. "killed" \in Categories /\ "survived" \in Categories
      BY DEF Categories
    <3>. QED  BY <3>1, <1>9, <1>14
  <2>. QED  BY <1>10, <2>1
<1>16. EarnedByStatuses(report, floor)
  BY <1>13, <1>15 DEF EarnedByStatuses
<1>. QED  BY <1>16 DEF CleanIsEarned

(* A cargo-mutants report: only structured phases count.                      *)
LEMMA CargoIsEarned ==
  ASSUME NEW report, report.format = "cargo", NEW floor \in Nat, Clean(report, floor),
         NEW Phases, report.outcomes \in Seq(Phases),
         \A i \in DOMAIN report.outcomes : \E P : report.outcomes[i].phases \in Seq(P)
  PROVE  CleanIsEarned(report, floor)
<1>. DEFINE outcome(i) == report.outcomes[i]
            of(c) == {i \in MutantRuns(report) : CargoCategory(outcome(i).summary) = c}
            counts == [c \in Categories |-> Cardinality(of(c))]
            parsed == Parse(report)
            tests(i) == {j \in DOMAIN report.outcomes[i].phases : report.outcomes[i].phases[j].phase = "Test"}
            failing == {i \in MutantRuns(report) :
                          \E j \in tests(i) : report.outcomes[i].phases[j].status = "Failure"}
            passing == MutantRuns(report) \ failing
<1>1. /\ IsFiniteSet(MutantRuns(report)) /\ IsFiniteSet(Baselines(report))
  <2>1. IsFiniteSet(DOMAIN report.outcomes)
    <3>1. DOMAIN report.outcomes = 1 .. Len(report.outcomes) /\ Len(report.outcomes) \in Nat
      OBVIOUS
    <3>. QED  BY <3>1, FS_Interval
  <2>2. MutantRuns(report) \in SUBSET DOMAIN report.outcomes /\ Baselines(report) \in SUBSET DOMAIN report.outcomes
    BY DEF MutantRuns, Baselines
  <2>. QED  BY <2>1, <2>2, FS_Subset
<1>2. \A c : IsFiniteSet(of(c)) /\ Cardinality(of(c)) \in Nat
  <2>1. \A c : of(c) \in SUBSET MutantRuns(report)
    OBVIOUS
  <2>. HIDE DEF of
  <2>. QED  BY <1>1, <2>1, FS_Subset, FS_CardinalityType
<1>3. parsed = ParseCargo(report)
  BY DEF Parse
<1>4. parsed.ok
  BY DEF Clean, EvaluateReport, Refused
<1>5. /\ \A i \in Baselines(report) : outcome(i).summary = "Success" /\ TestRan(outcome(i).phases, "Success")
      /\ \A i \in MutantRuns(report) : Supported(outcome(i))
      /\ Cardinality(Baselines(report)) = 1
      /\ parsed = Checked(Stats(counts), Undeclared)
  <2>. HIDE DEF parsed
  <2>. QED  BY <1>3, <1>4 DEF ParseCargo, Refused
<1>6. parsed.count = counts
  <2>. HIDE DEF counts
  <2>. QED  BY <1>4, <1>5, CheckedCounts
<1>7. NotExecuted(report) = {} /\ IsFiniteSet(NotExecuted(report))
  BY FS_EmptySet DEF NotExecuted
<1>8. \A c \in Categories : parsed.count[c] = Cardinality(of(c)) /\ parsed.count[c] \in Nat
  <2>1. \A c \in Categories : counts[c] = Cardinality(of(c))
    OBVIOUS
  <2>. HIDE DEF of, counts, parsed
  <2>. QED  BY <1>2, <1>6, <2>1
<1>9. /\ RateReached(parsed.count["killed"], parsed.count["survived"], floor)
      /\ \A c \in {"timeout", "compile_error", "runner_error", "unviable"} : parsed.count[c] = 0
  <2>. HIDE DEF of, counts
  <2>. QED  BY <1>7, <1>8, CleanCounts
<1>10. of("timeout") = {} /\ of("unviable") = {}
  <2>1. "timeout" \in Categories /\ "unviable" \in Categories
    BY DEF Categories
  <2>. HIDE DEF of, counts, parsed
  <2>. QED  BY <1>2, <1>8, <1>9, <2>1, CountsNone
<1>11. ASSUME NEW i \in MutantRuns(report)
       PROVE  \/ outcome(i).summary = "CaughtMutant" /\ TestRan(outcome(i).phases, "Failure")
              \/ outcome(i).summary = "MissedMutant" /\ TestRan(outcome(i).phases, "Success")
  <2>1. Supported(outcome(i))
    BY <1>5
  <2>2. outcome(i).summary # "Timeout" /\ outcome(i).summary # "Unviable"
    BY <1>10 DEF CargoCategory
  <2>. QED  BY <2>1, <2>2 DEF Supported
<1>12. ASSUME NEW i \in DOMAIN report.outcomes, NEW status, TestRan(outcome(i).phases, status)
       PROVE  /\ DOMAIN outcome(i).phases = 1 .. 2
              /\ outcome(i).phases[1].phase = "Build" /\ outcome(i).phases[1].status = "Success"
              /\ outcome(i).phases[2].phase = "Test" /\ outcome(i).phases[2].status = status
              /\ outcome(i).phases[2].runs
  <2>1. PICK P : outcome(i).phases \in Seq(P)
    OBVIOUS
  <2>2. Len(outcome(i).phases) = 2
    BY <1>12 DEF TestRan
  <2>3. DOMAIN outcome(i).phases = 1 .. 2
    <3>. DEFINE phases == outcome(i).phases
    <3>1. phases \in Seq(P) /\ Len(phases) = 2
      BY <2>1, <2>2
    <3>. HIDE DEF phases, outcome
    <3>2. DOMAIN phases = 1 .. 2
      BY <3>1
    <3>. QED  BY <3>2 DEF phases
  <2>. QED  BY <1>12, <2>3 DEF TestRan, Phase
<1>13. MutantRuns(report) \subseteq DOMAIN report.outcomes /\ Baselines(report) \subseteq DOMAIN report.outcomes
       /\ DOMAIN report.outcomes = MutantRuns(report) \cup Baselines(report)
       /\ MutantRuns(report) \cap Baselines(report) = {}
  BY DEF MutantRuns, Baselines
<1>14. ASSUME NEW i \in DOMAIN report.outcomes
       PROVE  /\ tests(i) # {} /\ \A j \in tests(i) : report.outcomes[i].phases[j].runs
              /\ \A j \in DOMAIN report.outcomes[i].phases : report.outcomes[i].phases[j].status # "Timeout"
  <2>1. \E status \in {"Failure", "Success"} : TestRan(outcome(i).phases, status)
    BY <1>5, <1>11, <1>13
  <2>2. PICK status \in {"Failure", "Success"} : TestRan(outcome(i).phases, status)
    BY <2>1
  <2>3. /\ DOMAIN outcome(i).phases = 1 .. 2
        /\ outcome(i).phases[1].phase = "Build" /\ outcome(i).phases[1].status = "Success"
        /\ outcome(i).phases[2].phase = "Test" /\ outcome(i).phases[2].status = status
        /\ outcome(i).phases[2].runs
    BY <1>12, <2>2
  <2>4. \A j \in DOMAIN outcome(i).phases : j = 1 \/ j = 2
    BY <2>3
  <2>5. 2 \in DOMAIN outcome(i).phases
    BY <2>3
  <2>. QED  BY <2>2, <2>3, <2>4, <2>5
<1>15. failing = of("killed")
  <2>1. ASSUME NEW i \in failing  PROVE i \in of("killed")
    <3>1. PICK j \in DOMAIN outcome(i).phases :
             outcome(i).phases[j].phase = "Test" /\ outcome(i).phases[j].status = "Failure"
      OBVIOUS
    <3>2. CASE outcome(i).summary = "MissedMutant" /\ TestRan(outcome(i).phases, "Success")
      <4>1. DOMAIN outcome(i).phases = 1 .. 2 /\ outcome(i).phases[1].phase = "Build"
            /\ outcome(i).phases[2].status = "Success"
        BY <1>12, <1>13, <3>2
      <4>2. j = 1 \/ j = 2
        BY <4>1
      <4>. QED  BY <3>1, <4>1, <4>2
    <3>3. CASE outcome(i).summary = "CaughtMutant"
      BY <3>3 DEF CargoCategory
    <3>. QED  BY <1>11, <3>2, <3>3
  <2>2. ASSUME NEW i \in of("killed")  PROVE i \in failing
    <3>1. outcome(i).summary # "MissedMutant"
      BY DEF CargoCategory
    <3>2. TestRan(outcome(i).phases, "Failure")
      BY <1>11, <3>1
    <3>3. 2 \in DOMAIN outcome(i).phases /\ outcome(i).phases[2].phase = "Test"
          /\ outcome(i).phases[2].status = "Failure"
      <4>1. i \in DOMAIN report.outcomes
        BY <1>13
      <4>2. /\ DOMAIN outcome(i).phases = 1 .. 2
            /\ outcome(i).phases[2].phase = "Test" /\ outcome(i).phases[2].status = "Failure"
        <5>. HIDE DEF of, outcome
        <5>. QED  BY <1>12, <3>2, <4>1
      <4>3. 2 \in 1 .. 2
        OBVIOUS
      <4>. HIDE DEF outcome
      <4>. QED  BY <4>2, <4>3
    <3>. QED  BY <3>3
  <2>. QED  BY <2>1, <2>2
<1>16. passing = of("survived")
  <2>1. ASSUME NEW i \in MutantRuns(report)
        PROVE  CargoCategory(outcome(i).summary) = "survived" <=> CargoCategory(outcome(i).summary) # "killed"
    BY <1>11 DEF CargoCategory
  <2>2. passing = MutantRuns(report) \ of("killed")
    BY <1>15
  <2>. QED  BY <2>1, <2>2
<1>17. RateReached(Cardinality(failing), Cardinality(passing), floor)
  <2>1. "killed" \in Categories /\ "survived" \in Categories
    BY DEF Categories
  <2>. HIDE DEF of, counts, parsed, failing, passing
  <2>. QED  BY <1>8, <1>9, <1>15, <1>16, <2>1
<1>18. \E i \in DOMAIN report.outcomes \ MutantRuns(report) : report.outcomes[i].summary = "Success"
  <2>1. Baselines(report) # {}
    <3>1. Cardinality(Baselines(report)) = 1
      BY <1>5
    <3>. HIDE DEF outcome, counts, of, parsed, failing, passing
    <3>. QED  BY <1>1, <3>1, CountsNone
  <2>. QED  BY <1>5, <1>13, <2>1
<1>19. EarnedByTests(report, floor)
  <2>. HIDE DEF of, counts, parsed
  <2>. QED  BY <1>14, <1>17, <1>18 DEF EarnedByTests
<1>. QED  BY <1>19 DEF CleanIsEarned

(* A generic report: the counts it declares.                                  *)
LEMMA GenericIsEarned ==
  ASSUME NEW report, report.format = "generic", NEW floor \in Nat, Clean(report, floor),
         \A c \in DOMAIN report.counts : report.counts[c] \in Nat
  PROVE  CleanIsEarned(report, floor)
<1>. DEFINE counts == [c \in Categories |-> IF c \in DOMAIN report.counts THEN report.counts[c] ELSE 0]
            parsed == Parse(report)
<1>1. parsed = ParseGeneric(report)
  BY DEF Parse
<1>2. parsed.ok
  BY DEF Clean, EvaluateReport, Refused
<1>3. parsed = Checked(Stats(counts), report.total)
  <2>. HIDE DEF parsed
  <2>. QED  BY <1>1, <1>2 DEF ParseGeneric, Refused
<1>4. parsed.count = counts
  <2>. HIDE DEF counts
  <2>. QED  BY <1>2, <1>3, CheckedCounts
<1>5. \A c \in Categories : parsed.count[c] \in Nat
  BY <1>4
<1>6. IsFiniteSet(NotExecuted(report))
  BY FS_EmptySet DEF NotExecuted
<1>7. /\ RateReached(parsed.count["killed"], parsed.count["survived"], floor)
      /\ \A c \in {"timeout", "compile_error", "runner_error", "unviable"} : parsed.count[c] = 0
  BY <1>5, <1>6, CleanCounts
<1>8. \A c \in Categories : parsed.count[c] = IF c \in DOMAIN report.counts THEN report.counts[c] ELSE 0
  BY <1>4
<1>9. ~report.unknown
  <2>. HIDE DEF parsed
  <2>. QED  BY <1>1, <1>2 DEF ParseGeneric, Refused
<1>10. EarnedByCounts(report, floor)
  <2>1. {"killed", "survived", "timeout", "compile_error", "runner_error", "unviable"} \subseteq Categories
    BY DEF Categories
  <2>. HIDE DEF counts, parsed
  <2>. QED  BY <1>7, <1>8, <1>9, <2>1 DEF EarnedByCounts
<1>. QED  BY <1>10 DEF CleanIsEarned

(* CleanScoreIsEarned, for reports of any size and any floor: what each of    *)
(* the three formats shows of a score without violations.                     *)
THEOREM EveryCleanScoreIsEarned ==
  ASSUME Is("score") =>
           /\ case.floor \in Nat /\ case.report.format \in {"stryker", "cargo", "generic"}
           /\ case.report.format = "stryker" =>
                /\ IsFiniteSet(DOMAIN case.report.files)
                /\ \A f \in DOMAIN case.report.files : IsFiniteSet(DOMAIN case.report.files[f].mutants)
           /\ case.report.format = "cargo" =>
                /\ \E O : case.report.outcomes \in Seq(O)
                /\ \A i \in DOMAIN case.report.outcomes : \E P : case.report.outcomes[i].phases \in Seq(P)
           /\ case.report.format = "generic" =>
                \A c \in DOMAIN case.report.counts : case.report.counts[c] \in Nat
  PROVE  CleanScoreIsEarned
<1>. SUFFICES ASSUME Is("score"), Clean(case.report, case.floor)
              PROVE  CleanIsEarned(case.report, case.floor)
  BY DEF CleanScoreIsEarned, CleanIsEarned
<1>1. CASE case.report.format = "stryker"
  BY <1>1, StrykerIsEarned
<1>2. CASE case.report.format = "cargo"
  BY <1>2, CargoIsEarned
<1>3. CASE case.report.format = "generic"
  BY <1>3, GenericIsEarned
<1>. QED  BY <1>1, <1>2, <1>3

-----------------------------------------------------------------------------
(* LCOV records.                                                              *)

(* The parts of a record: tables of lines, functions and branches, and counts *)
(* that were declared.                                                        *)
LcovRecord(record) ==
    /\ IsFiniteSet(DOMAIN record.da) /\ IsFiniteSet(DOMAIN record.fn)
    /\ IsFiniteSet(DOMAIN record.fnda) /\ IsFiniteSet(DOMAIN record.brda)
    /\ \A n \in DOMAIN record.fnda : record.fnda[n] \in Nat
    /\ \A tag \in DOMAIN record.counts : record.counts[tag] \in Nat

(* The image of a finite set is finite, and no larger.                        *)
LEMMA ImageIsFinite ==
  ASSUME NEW S, IsFiniteSet(S), NEW T, NEW f, f \in [S -> T], \A y \in T : \E x \in S : f[x] = y
  PROVE  IsFiniteSet(T) /\ Cardinality(T) <= Cardinality(S)
<1>1. f \in Surjection(S, T)
  BY DEF Surjection
<1>. QED  BY <1>1, FS_Surjection

(* Numbers of elements of parts of a finite set.                              *)
LEMMA Parts ==
  ASSUME NEW S, IsFiniteSet(S), NEW T
  PROVE  /\ Cardinality(S) \in Nat /\ Cardinality(S \ T) \in Nat /\ Cardinality(S \cap T) \in Nat
         /\ Cardinality(S \ T) = Cardinality(S) - Cardinality(S \cap T)
<1>1. S \ T \in SUBSET S /\ S \cap T \in SUBSET S
  OBVIOUS
<1>. QED  BY <1>1, FS_Subset, FS_CardinalityType, FS_Difference

(* A part of a finite set is finite and has no more elements.                 *)
LEMMA FewerInPart ==
  ASSUME NEW S, IsFiniteSet(S), NEW T \in SUBSET S
  PROVE  /\ IsFiniteSet(T) /\ Cardinality(T) \in Nat /\ Cardinality(S) \in Nat
         /\ Cardinality(T) <= Cardinality(S)
BY FS_Subset, FS_CardinalityType

(* A total that a record declares, or leaves out, counts as a natural.        *)
LEMMA CountIsNatural ==
  ASSUME NEW record, LcovRecord(record), NEW tag
  PROVE  Count(record, tag) \in Nat
BY DEF LcovRecord, Count

(* What was hit of a table is listed in it.                                   *)
LEMMA HitsAreListed ==
  ASSUME NEW entries, IsFiniteSet(DOMAIN entries)
  PROVE  HitOf(entries) \in SUBSET DOMAIN entries /\ IsFiniteSet(HitOf(entries))
<1>1. HitOf(entries) \in SUBSET DOMAIN entries
  BY DEF HitOf
<1>. QED  BY <1>1, FS_Subset

(* What Functions groups: every name, or every line, with what was hit.       *)
LEMMA FunctionGroups ==
  ASSUME NEW record, LcovRecord(record), Functions(record).ok, DOMAIN record.fn = DOMAIN record.fnda
  PROVE  LET all == Functions(record).all
         IN  /\ IsFiniteSet(all)
             /\ \A f \in all : \E n \in DOMAIN record.fn : f[2] = record.fn[n]
             /\ \A n \in DOMAIN record.fn : \E f \in all : f[2] = record.fn[n]
             /\ \A f \in all : f[3] => \E n \in DOMAIN record.fn : record.fn[n] = f[2] /\ record.fnda[n] > 0
<1>. DEFINE names == DOMAIN record.fn
            hit == {n \in names : n \in DOMAIN record.fnda /\ record.fnda[n] > 0}
            lines == {record.fn[n] : n \in names}
            hitLines == {record.fn[n] : n \in hit}
            byName == {<<n, record.fn[n], n \in hit>> : n \in names}
            byLine == {<<l, l, l \in hitLines>> : l \in lines}
            all == Functions(record).all
<1>. DEFINE Groups(S) ==
              /\ IsFiniteSet(S)
              /\ \A f \in S : \E n \in DOMAIN record.fn : f[2] = record.fn[n]
              /\ \A n \in DOMAIN record.fn : \E f \in S : f[2] = record.fn[n]
              /\ \A f \in S : f[3] => \E n \in DOMAIN record.fn : record.fn[n] = f[2] /\ record.fnda[n] > 0
<1>1. all = byName \/ all = byLine
  BY DEF Functions, Rejected
<1>2. IsFiniteSet(names)
  BY DEF LcovRecord
<1>3. Groups(byName)
  <2>1. IsFiniteSet(byName)
    <3>. DEFINE f == [n \in names |-> <<n, record.fn[n], n \in hit>>]
    <3>1. f \in [names -> byName] /\ \A y \in byName : \E x \in names : f[x] = y
      OBVIOUS
    <3>. HIDE DEF f, byName, names
    <3>. QED  BY <1>2, <3>1, ImageIsFinite
  <2>2. ASSUME NEW f \in byName
        PROVE  /\ \E n \in names : f[2] = record.fn[n]
               /\ f[3] => \E n \in names : record.fn[n] = f[2] /\ record.fnda[n] > 0
    <3>1. PICK n \in names : f = <<n, record.fn[n], n \in hit>>
      OBVIOUS
    <3>2. f[2] = record.fn[n] /\ (f[3] <=> n \in hit)
      BY <3>1
    <3>. QED  BY <3>2
  <2>3. ASSUME NEW n \in names  PROVE \E f \in byName : f[2] = record.fn[n]
    <3>1. <<n, record.fn[n], n \in hit>> \in byName
      OBVIOUS
    <3>. QED  BY <3>1
  <2>. HIDE DEF byName, all
  <2>. QED  BY <2>1, <2>2, <2>3
<1>4. Groups(byLine)
  <2>1. IsFiniteSet(lines)
    <3>. DEFINE f == [n \in names |-> record.fn[n]]
    <3>1. f \in [names -> lines] /\ \A y \in lines : \E x \in names : f[x] = y
      OBVIOUS
    <3>. HIDE DEF f, lines, names
    <3>. QED  BY <1>2, <3>1, ImageIsFinite
  <2>2. IsFiniteSet(byLine)
    <3>. DEFINE f == [l \in lines |-> <<l, l, l \in hitLines>>]
    <3>1. f \in [lines -> byLine] /\ \A y \in byLine : \E x \in lines : f[x] = y
      OBVIOUS
    <3>. HIDE DEF f, byLine, lines
    <3>. QED  BY <2>1, <3>1, ImageIsFinite
  <2>3. ASSUME NEW f \in byLine
        PROVE  /\ \E n \in names : f[2] = record.fn[n]
               /\ f[3] => \E n \in names : record.fn[n] = f[2] /\ record.fnda[n] > 0
    <3>1. PICK l \in lines : f = <<l, l, l \in hitLines>>
      OBVIOUS
    <3>2. f[2] = l /\ (f[3] <=> l \in hitLines)
      BY <3>1
    <3>. QED  BY <3>2
  <2>4. ASSUME NEW n \in names  PROVE \E f \in byLine : f[2] = record.fn[n]
    <3>. DEFINE l == record.fn[n]
    <3>1. l \in lines
      OBVIOUS
    <3>2. <<l, l, l \in hitLines>> \in byLine
      BY <3>1
    <3>. QED  BY <3>2
  <2>. HIDE DEF byLine, all
  <2>. QED  BY <2>2, <2>3, <2>4
<1>. HIDE DEF all, byName, byLine
<1>5. Groups(all)
  <2>. HIDE DEF Groups
  <2>. QED  BY <1>1, <1>3, <1>4
<1>. QED  BY <1>5 DEF all

(* Declared totals of a record the checks accept.                             *)
LEMMA ValidTotals ==
  ASSUME NEW record, LcovRecord(record), NEW required, ValidRecord(record, required)
  PROVE  /\ Count(record, "LH") <= Count(record, "LF") /\ Count(record, "FNH") <= Count(record, "FNF")
         /\ Count(record, "BRH") <= Count(record, "BRF")
         /\ Cardinality(DOMAIN record.da) <= Count(record, "LF")
         /\ Count(record, "LF") = Cardinality(DOMAIN record.da) =>
              Count(record, "LH") <= Cardinality(HitOf(record.da))
         /\ DOMAIN record.fn = DOMAIN record.fnda
<1>1. /\ ValidLines(record) /\ DOMAIN record.fn = DOMAIN record.fnda
      /\ Count(record, "FNH") <= Count(record, "FNF") /\ Count(record, "BRH") <= Count(record, "BRF")
  BY DEF ValidRecord, ValidPair, ValidFunctions
<1>2. /\ Count(record, "LF") \in Nat /\ Count(record, "LH") \in Nat
  BY CountIsNatural
<1>3. Cardinality(DOMAIN record.da) \in Nat /\ Cardinality(HitOf(record.da)) \in Nat
  BY HitsAreListed, FS_CardinalityType DEF LcovRecord
<1>. QED  BY <1>1, <1>2, <1>3 DEF ValidLines, Projected

(* RetainedIsConservative, for records of any size.                           *)
LEMMA EveryRecordIsConservative ==
  ASSUME NEW record, LcovRecord(record), NEW required, NEW roles
  PROVE  RetainedIsConservative(record, required, roles)
<1>. DEFINE result == FinishRecord(record, required, roles)
            test == TestLines(record, roles)
            functionLines == {record.fn[n] : n \in DOMAIN record.fn} \ test
            branches == {b \in DOMAIN record.brda : b[1] \notin test}
            da == DOMAIN record.da
            hit == HitOf(record.da)
            LF == Count(record, "LF")
            LH == Count(record, "LH")
<1>. SUFFICES ASSUME result.ok
     PROVE  /\ result.LH <= result.LF /\ result.FNH <= result.FNF /\ result.BRH <= result.BRF
            /\ result.LH <= LH /\ result.BRH <= Count(record, "BRH")
            /\ result.LF >= Cardinality(da \ test)
            /\ (test # {} \/ LF = Cardinality(da)) => result.LH <= Cardinality(hit \ test)
            /\ test # {} =>
                 /\ result.FNF >= Cardinality(functionLines) /\ result.BRF = Cardinality(branches)
                 /\ (\A n \in DOMAIN record.fn : record.fn[n] \notin test => record.fnda[n] = 0) => result.FNH = 0
                 /\ result.BRH <= Cardinality({b \in branches : Hit(record.brda, b)})
  BY DEF RetainedIsConservative
<1>1. ValidRecord(record, required) /\ result = RetainProduction(record, roles)
  BY DEF FinishRecord, Rejected
<1>2. /\ LH <= LF /\ Count(record, "FNH") <= Count(record, "FNF")
      /\ Count(record, "BRH") <= Count(record, "BRF") /\ Cardinality(da) <= LF
      /\ LF = Cardinality(da) => LH <= Cardinality(hit)
      /\ DOMAIN record.fn = DOMAIN record.fnda
  BY <1>1, ValidTotals
<1>3. /\ LF \in Nat /\ LH \in Nat /\ Count(record, "BRH") \in Nat /\ Count(record, "BRF") \in Nat
  BY CountIsNatural
<1>4. /\ IsFiniteSet(da) /\ hit \in SUBSET da /\ IsFiniteSet(hit)
      /\ IsFiniteSet(DOMAIN record.brda)
      /\ HitOf(record.brda) \in SUBSET DOMAIN record.brda /\ IsFiniteSet(HitOf(record.brda))
  BY HitsAreListed DEF LcovRecord
<1>5. Attributed(record, roles)
  BY <1>1 DEF RetainProduction, Rejected
<1>6. CASE test = {}
  <2>1. result = Native(record)
    BY <1>1, <1>5, <1>6 DEF RetainProduction
  <2>2. /\ result.LF = LF /\ result.LH = LH /\ result.FNF = Count(record, "FNF")
        /\ result.FNH = Count(record, "FNH") /\ result.BRF = Count(record, "BRF")
        /\ result.BRH = Count(record, "BRH")
    <3>. HIDE DEF result
    <3>. QED  BY <2>1 DEF Native
  <2>3. da \ test = da /\ hit \ test = hit
    BY <1>6
  <2>. HIDE DEF result, test, LF, LH, hit, da
  <2>4. LH <= LH /\ Count(record, "BRH") <= Count(record, "BRH")
    BY <1>3
  <2>5. Cardinality(da) \in Nat
    BY <1>4, FS_CardinalityType
  <2>6. LF >= Cardinality(da)
    BY <1>2, <1>3, <2>5
  <2>. QED  BY <1>2, <1>6, <2>2, <2>3, <2>4, <2>6
<1>7. CASE test # {}
  <2>. DEFINE all == Functions(record).all
              kept == {f \in all : f[2] \notin test}
              keptHit == {f \in kept : f[3]}
              testBranches == {b \in DOMAIN record.brda : b[1] \in test}
              branchHits == HitOf(record.brda)
              branchesHit == Cardinality(branchHits \ testBranches)
              branchesLeft == SaturatingSub(Count(record, "BRH"), Cardinality(branchHits \cap testBranches))
  <2>1. /\ Functions(record).ok /\ Count(record, "BRF") = Cardinality(DOMAIN record.brda)
        /\ result = [ok |-> TRUE, da |-> Without(record.da, test),
                     LF |-> LF - Cardinality(da \cap test), LH |-> LinesHit(record, test),
                     FNF |-> Cardinality(kept), FNH |-> Cardinality(keptHit),
                     BRF |-> Cardinality(DOMAIN record.brda \ testBranches),
                     BRH |-> Least(branchesHit, branchesLeft)]
    <3>. HIDE DEF test
    <3>1. ~(test = {})
      BY <1>7
    <3>2. /\ result # Rejected
          /\ Functions(record).ok /\ Count(record, "BRF") = Cardinality(DOMAIN record.brda)
      BY <1>1, <1>5, <3>1 DEF RetainProduction, Rejected, test
    <3>. HIDE DEF result
    <3>. QED  BY <1>1, <1>5, <3>1, <3>2 DEF RetainProduction, test
  <2>2. /\ result.LF = LF - Cardinality(da \cap test) /\ result.LH = LinesHit(record, test)
        /\ result.FNF = Cardinality(kept) /\ result.FNH = Cardinality(keptHit)
        /\ result.BRF = Cardinality(DOMAIN record.brda \ testBranches)
        /\ result.BRH = Least(branchesHit, branchesLeft)
    <3>. HIDE DEF result, kept, keptHit, branchesHit, branchesLeft, test, testBranches, da, LF
    <3>. QED  BY <2>1
  <2>3. /\ IsFiniteSet(all)
        /\ \A f \in all : \E n \in DOMAIN record.fn : f[2] = record.fn[n]
        /\ \A n \in DOMAIN record.fn : \E f \in all : f[2] = record.fn[n]
        /\ \A f \in all : f[3] => \E n \in DOMAIN record.fn : record.fn[n] = f[2] /\ record.fnda[n] > 0
    <3>. HIDE DEF result
    <3>. QED  BY <1>2, <2>1, FunctionGroups
  <2>. HIDE DEF test, all, result
  <2>4. /\ IsFiniteSet(kept) /\ IsFiniteSet(keptHit) /\ Cardinality(keptHit) <= Cardinality(kept)
    <3>1. kept \in SUBSET all /\ keptHit \in SUBSET kept
      OBVIOUS
    <3>. HIDE DEF kept, keptHit
    <3>. QED  BY <2>3, <3>1, FewerInPart
  <2>5. Cardinality(functionLines) <= Cardinality(kept)
    <3>. DEFINE line == [f \in kept |-> f[2]]
    <3>1. \A f \in kept : f[2] \in functionLines
      BY <2>3
    <3>2. \A l \in functionLines : \E f \in kept : f[2] = l
      BY <2>3
    <3>3. line \in [kept -> functionLines] /\ \A l \in functionLines : \E f \in kept : line[f] = l
      <4>. HIDE DEF kept, functionLines
      <4>. QED  BY <3>1, <3>2
    <3>. HIDE DEF kept, functionLines, line
    <3>. QED  BY <2>4, <3>3, ImageIsFinite
  <2>6. ASSUME \A n \in DOMAIN record.fn : record.fn[n] \notin test => record.fnda[n] = 0
        PROVE  Cardinality(keptHit) = 0
    <3>1. keptHit = {}
      BY <2>3, <2>6
    <3>. HIDE DEF keptHit
    <3>. QED  BY <3>1, FS_EmptySet
  <2>7. DOMAIN record.brda \ testBranches = branches
    OBVIOUS
  <2>8. branchHits \ testBranches = {b \in branches : Hit(record.brda, b)}
    BY DEF HitOf
  <2>9. /\ branchesHit \in Nat /\ Cardinality(branches) \in Nat /\ branchesHit <= Cardinality(branches)
        /\ branchesHit = Cardinality({b \in branches : Hit(record.brda, b)})
    <3>1. branchHits \ testBranches \in SUBSET branches /\ branches \in SUBSET DOMAIN record.brda
      BY <1>4, <2>8
    <3>2. branchesHit = Cardinality({b \in branches : Hit(record.brda, b)})
      BY <2>8
    <3>. HIDE DEF branches, testBranches, branchHits
    <3>3. IsFiniteSet(branches)
      BY <1>4, <3>1, FS_Subset
    <3>. QED  BY <3>1, <3>2, <3>3, FewerInPart
  <2>10. branchesLeft <= Count(record, "BRH") /\ branchesLeft \in Nat
    <3>1. Cardinality(branchHits \cap testBranches) \in Nat
      <4>. HIDE DEF testBranches
      <4>. QED  BY <1>4, Parts
    <3>. HIDE DEF branchHits, testBranches
    <3>. QED  BY <1>3, <3>1 DEF SaturatingSub
  <2>11. /\ result.BRH <= result.BRF /\ result.BRH <= Count(record, "BRH")
         /\ result.BRF = Cardinality(branches)
         /\ result.BRH <= Cardinality({b \in branches : Hit(record.brda, b)})
    <3>1. result.BRF = Cardinality(branches)
      BY <2>2, <2>7
    <3>. HIDE DEF branchesHit, branchesLeft, branches, testBranches
    <3>2. Least(branchesHit, branchesLeft) <= branchesHit /\ Least(branchesHit, branchesLeft) <= branchesLeft
          /\ Least(branchesHit, branchesLeft) \in Nat
      BY <2>9, <2>10 DEF Least
    <3>. QED  BY <1>3, <2>2, <2>9, <2>10, <3>1, <3>2
  <2>12. /\ result.LH <= result.LF /\ result.LH <= LH
         /\ result.LF >= Cardinality(da \ test) /\ result.LH <= Cardinality(hit \ test)
    <3>. HIDE DEF da, hit, LF, LH
    <3>1. /\ Cardinality(da) \in Nat /\ Cardinality(da \ test) \in Nat /\ Cardinality(da \cap test) \in Nat
          /\ Cardinality(da \ test) = Cardinality(da) - Cardinality(da \cap test)
          /\ Cardinality(hit \ test) \in Nat /\ Cardinality(hit \cap test) \in Nat
      BY <1>4, Parts
    <3>2. Cardinality(hit \ test) <= Cardinality(da \ test)
      <4>1. hit \ test \in SUBSET (da \ test) /\ IsFiniteSet(da \ test)
        <5>1. da \ test \in SUBSET da
          OBVIOUS
        <5>. QED  BY <1>4, <5>1, FS_Subset
      <4>. QED  BY <4>1, FewerInPart
    <3>3. result.LH = Least(Cardinality(hit \ test), SaturatingSub(LH, Cardinality(hit \cap test)))
      BY <2>2 DEF LinesHit, hit, LH
    <3>4. \A a, b, c \in Nat : /\ Least(a, SaturatingSub(b, c)) \in Nat
                               /\ Least(a, SaturatingSub(b, c)) <= a /\ Least(a, SaturatingSub(b, c)) <= b
      BY DEF Least, SaturatingSub
    <3>5. result.LH \in Nat /\ result.LH <= Cardinality(hit \ test) /\ result.LH <= LH
      <4>. DEFINE a == Cardinality(hit \ test)
                  c == Cardinality(hit \cap test)
      <4>1. a \in Nat /\ c \in Nat /\ result.LH = Least(a, SaturatingSub(LH, c))
        BY <3>1, <3>3
      <4>. HIDE DEF a, c
      <4>2. /\ Least(a, SaturatingSub(LH, c)) \in Nat
            /\ Least(a, SaturatingSub(LH, c)) <= a /\ Least(a, SaturatingSub(LH, c)) <= LH
        BY <1>3, <3>4, <4>1
      <4>3. result.LH \in Nat /\ result.LH <= a /\ result.LH <= LH
        BY <4>1, <4>2
      <4>. QED  BY <4>3 DEF a
    <3>6. result.LF \in Int /\ result.LF >= Cardinality(da \ test)
      BY <1>2, <1>3, <2>2, <3>1
    <3>. QED  BY <3>1, <3>2, <3>5, <3>6
  <2>13. /\ result.FNH <= result.FNF /\ result.FNF >= Cardinality(functionLines)
         /\ (\A n \in DOMAIN record.fn : record.fn[n] \notin test => record.fnda[n] = 0) => result.FNH = 0
    <3>1. Cardinality(kept) \in Nat /\ Cardinality(keptHit) \in Nat
      <4>. HIDE DEF kept, keptHit
      <4>. QED  BY <2>4, FS_CardinalityType
    <3>2. IsFiniteSet(functionLines)
      <4>. DEFINE f == [n \in DOMAIN record.fn |-> record.fn[n]]
                  lines == {record.fn[n] : n \in DOMAIN record.fn}
      <4>1. f \in [DOMAIN record.fn -> lines] /\ \A y \in lines : \E x \in DOMAIN record.fn : f[x] = y
        OBVIOUS
      <4>2. IsFiniteSet(DOMAIN record.fn)
        BY DEF LcovRecord
      <4>3. functionLines \in SUBSET lines
        OBVIOUS
      <4>. HIDE DEF f, lines, functionLines
      <4>4. IsFiniteSet(lines)
        BY <4>1, <4>2, ImageIsFinite
      <4>. QED  BY <4>3, <4>4, FS_Subset
    <3>3. Cardinality(functionLines) \in Nat
      BY <3>2, FS_CardinalityType
    <3>. HIDE DEF kept, keptHit, functionLines
    <3>. QED  BY <2>2, <2>4, <2>5, <2>6, <3>1, <3>3
  <2>. HIDE DEF branches, functionLines, da, hit, LF, LH
  <2>. QED  BY <1>7, <2>11, <2>12, <2>13
<1>. HIDE DEF result, test, branches, functionLines, da, hit, LF, LH
<1>. QED  BY <1>6, <1>7

-----------------------------------------------------------------------------
(* LCOV reports: what the parser may hold while it reads a report.            *)

Tables(K, V) == UNION {[D -> V] : D \in SUBSET K}

LcovValues(tokens) ==
    UNION {{t.tag, t.line, t.hits, t.count, t.name, t.taken, <<t.line, t.branch>>} : t \in ToSet(tokens)}

SourceNames(tokens) == {t.path : t \in ToSet(tokens)}

OpenRecords(tokens) ==
    LET V == LcovValues(tokens)
    IN  [path : SourceNames(tokens), version : BOOLEAN, metric : BOOLEAN,
         da : Tables(V, V), counts : Tables(V, V), fn : Tables(V, V), fnda : Tables(V, V), brda : Tables(V, V)]

LcovStates(tokens, required, roles) ==
    LET done == {FinishRecord(r, required, roles) : r \in OpenRecords(tokens)}
    IN  {Rejected} \cup [ok : {TRUE}, current : {None} \cup OpenRecords(tokens),
                         completed : Tables(SourceNames(tokens), done)]

(* The brackets of the first k lines: records opened and not closed, and the  *)
(* records that an end_of_record has closed.                                  *)
Tagged(tokens, tag) == {i \in DOMAIN tokens : tokens[i].tag = tag}
Opened(tokens, k) == Cardinality({j \in Tagged(tokens, "SF") : j <= k})
                     - Cardinality({j \in Tagged(tokens, "end") : j <= k})
Closed(tokens, i, k) == \E j \in Tagged(tokens, "end") : i < j /\ j <= k

Balanced(state, tokens, k) ==
    /\ Opened(tokens, k) = IF state.current = None THEN 0 ELSE 1
    /\ \A i \in 1 .. k : Opened(tokens, i) \in {0, 1}
    /\ \A i \in 1 .. k : tokens[i].tag \in CountTags \cup {"DA", "VER", "end"} => Opened(tokens, i - 1) = 1

VersionFirst(state, tokens, k) ==
    /\ \A i \in 1 .. k : tokens[i].tag = "VER" => tokens[i - 1].tag = "SF"
    /\ (state.current # None /\ ~state.current.version /\ ~state.current.metric) => tokens[k].tag = "SF"

Distinct(state, tokens, k) ==
    LET SF == {i \in 1 .. k : tokens[i].tag = "SF"}
    IN  /\ (state.current # None \/ DOMAIN state.completed # {}) => SF # {}
        /\ \A i \in SF : Closed(tokens, i, k) =>
              \E p \in DOMAIN state.completed : LexicalKey(p) = LexicalKey(tokens[i].path)
        /\ \A i \in SF : ~Closed(tokens, i, k) =>
              state.current # None /\ state.current.path = tokens[i].path
        /\ \A i, j \in SF : ~Closed(tokens, i, k) /\ ~Closed(tokens, j, k) => i = j
        /\ \A i, j \in SF : i # j /\ Closed(tokens, i, k) /\ Closed(tokens, j, k) =>
              LexicalKey(tokens[i].path) # LexicalKey(tokens[j].path)

Grammatical(state, tokens, k) ==
    state.ok => Balanced(state, tokens, k) /\ VersionFirst(state, tokens, k) /\ Distinct(state, tokens, k)

-----------------------------------------------------------------------------

(* Putting an entry into a table of a kind keeps its kind.                    *)
LEMMA PutKeepsTable ==
  ASSUME NEW K, NEW V, NEW entries \in Tables(K, V), NEW k \in K, NEW v \in V
  PROVE  Put(entries, k, v) \in Tables(K, V)
<1>1. PICK D \in SUBSET K : entries \in [D -> V]
  BY DEF Tables
<1>2. Put(entries, k, v) = [x \in D \cup {k} |-> IF x = k THEN v ELSE entries[x]]
  BY <1>1 DEF Put
<1>3. Put(entries, k, v) \in [D \cup {k} -> V]
  BY <1>1, <1>2
<1>4. D \cup {k} \in SUBSET K
  OBVIOUS
<1>. QED  BY <1>1, <1>3, <1>4 DEF Tables

(* A metric is refused, or becomes part of the record it is in.               *)
LEMMA MetricKeepsRecord ==
  ASSUME NEW tokens, NEW token \in ToSet(tokens), NEW record \in OpenRecords(tokens)
  PROVE  LET next == IngestMetric(record, token)
         IN  \/ next = None
             \/ next \in OpenRecords(tokens) /\ next.path = record.path /\ next.metric
<1>. DEFINE next == IngestMetric(record, token)
            r == [record EXCEPT !.metric = TRUE]
            V == LcovValues(tokens)
<1>1. /\ token.tag \in V /\ token.line \in V /\ token.hits \in V /\ token.count \in V /\ token.name \in V
      /\ token.taken \in V /\ <<token.line, token.branch>> \in V
  BY DEF LcovValues
<1>. HIDE DEF V
<1>. DEFINE Records == [path : SourceNames(tokens), version : BOOLEAN, metric : BOOLEAN,
         da : Tables(V, V), counts : Tables(V, V), fn : Tables(V, V), fnda : Tables(V, V), brda : Tables(V, V)]
<1>2. OpenRecords(tokens) = Records
  BY DEF OpenRecords, V
<1>3. r \in Records /\ r.path = record.path /\ r.metric
  <2>. DEFINE T == Tables(V, V)
              S == SourceNames(tokens)
  <2>1. record \in [path : S, version : BOOLEAN, metric : BOOLEAN,
                     da : T, counts : T, fn : T, fnda : T, brda : T]
    BY <1>2
  <2>. HIDE DEF T, S
  <2>2. /\ r \in [path : S, version : BOOLEAN, metric : BOOLEAN, da : T, counts : T, fn : T, fnda : T, brda : T]
        /\ r.path = record.path /\ r.metric = TRUE
    BY <2>1
  <2>. QED  BY <2>2 DEF T, S
<1>4. \/ next = None
      \/ next = [r EXCEPT !.da = Put(@, token.line, token.hits)]
      \/ next = [r EXCEPT !.counts = Put(@, token.tag, token.count)]
      \/ next = [r EXCEPT !.fn = Put(@, token.name, token.line)]
      \/ next = [r EXCEPT !.fnda = Put(@, token.name, token.hits)]
      \/ next = [r EXCEPT !.brda = Put(@, <<token.line, token.branch>>, token.taken)]
  BY DEF IngestMetric
<1>. HIDE DEF next, r
<1>5. /\ Put(r.da, token.line, token.hits) \in Tables(V, V)
      /\ Put(r.counts, token.tag, token.count) \in Tables(V, V)
      /\ Put(r.fn, token.name, token.line) \in Tables(V, V)
      /\ Put(r.fnda, token.name, token.hits) \in Tables(V, V)
      /\ Put(r.brda, <<token.line, token.branch>>, token.taken) \in Tables(V, V)
  BY <1>1, <1>3, PutKeepsTable
<1>6. next = None \/ (next \in Records /\ next.path = r.path /\ next.metric = r.metric)
  BY <1>3, <1>4, <1>5
<1>. QED  BY <1>2, <1>3, <1>6 DEF next

(* end_of_record closes the record that is read.                              *)
LEMMA ClosesRecord ==
  ASSUME NEW K, NEW V, NEW C, None \in C, NEW k \in K, NEW v \in V,
         NEW state \in [ok : {TRUE}, current : C, completed : Tables(K, V)]
  PROVE  LET closed == [state EXCEPT !.current = None, !.completed = Put(@, k, v)]
         IN  /\ closed \in [ok : {TRUE}, current : C, completed : Tables(K, V)]
             /\ closed.current = None
<1>. DEFINE T == Tables(K, V)
            completed == Put(state.completed, k, v)
<1>1. state.completed \in T
  OBVIOUS
<1>2. completed \in T
  BY <1>1, PutKeepsTable
<1>. HIDE DEF T, completed
<1>3. [state EXCEPT !.current = None, !.completed = completed] \in [ok : {TRUE}, current : C, completed : T]
  BY <1>2 DEF T
<1>. QED  BY <1>3 DEF T, completed

(* What one line does to the parser.                                          *)
LEMMA LineSteps ==
  ASSUME NEW tokens, NEW required, NEW roles, None \notin OpenRecords(tokens),
         NEW token \in ToSet(tokens), NEW state \in LcovStates(tokens, required, roles)
  PROVE  LET next == Ingest(state, token, required, roles)
         IN  /\ next \in LcovStates(tokens, required, roles)
             /\ next.ok =>
                  /\ state.ok
                  /\ \/ state.current = None /\ token.tag \in {"blank", "TN"} /\ next = state
                     \/ /\ state.current # None /\ token.tag \notin {"SF", "end", "VER"}
                        /\ next.current # None /\ next.current.path = state.current.path /\ next.current.metric
                        /\ next.completed = state.completed
                     \/ /\ state.current # None /\ token.tag = "VER"
                        /\ ~state.current.version /\ ~state.current.metric
                        /\ next.current # None /\ next.current.path = state.current.path /\ next.current.version
                        /\ next.completed = state.completed
                     \/ /\ state.current = None /\ token.tag = "SF"
                        /\ next.current # None /\ next.current.path = token.path
                        /\ next.completed = state.completed
                     \/ /\ state.current # None /\ token.tag = "end" /\ next.current = None
                        /\ \A p \in DOMAIN state.completed : LexicalKey(p) # LexicalKey(state.current.path)
                        /\ DOMAIN next.completed = DOMAIN state.completed \cup {state.current.path}
<1>. DEFINE cur == state.current
            next == Ingest(state, token, required, roles)
            SourcePaths == SourceNames(tokens)
            Current == OpenRecords(tokens)
            Done == {FinishRecord(r, required, roles) : r \in Current}
            Reading == [ok : {TRUE}, current : {None} \cup Current, completed : Tables(SourcePaths, Done)]
            put(r) == IF r = None THEN Rejected ELSE [state EXCEPT !.current = r]
<1>1. LcovStates(tokens, required, roles) = {Rejected} \cup Reading
  BY DEF LcovStates
<1>2. CASE ~state.ok
  <2>1. next = Rejected
    BY <1>2 DEF Ingest
  <2>2. ~Rejected.ok
    BY DEF Rejected
  <2>. HIDE DEF next
  <2>. QED  BY <1>1, <2>1, <2>2 DEF next
<1>3. CASE state.ok
  <2>1. state \in Reading
      <3>. HIDE DEF Reading
    <3>. QED  BY <1>1, <1>3 DEF Rejected
  <2>2. cur \in {None} \cup Current /\ state.completed \in Tables(SourcePaths, Done) /\ state.ok = TRUE
    BY <2>1
  <2>3. ASSUME NEW r \in Current
        PROVE  /\ put(r) \in Reading /\ put(r).ok /\ put(r).current = r /\ put(r).current # None
               /\ put(r).completed = state.completed
    <3>1. r # None
      OBVIOUS
    <3>. HIDE DEF Current, Done, SourcePaths
    <3>. QED  BY <2>1, <3>1
  <2>4. put(None) = Rejected /\ ~Rejected.ok
    BY DEF Rejected
  <2>5. ASSUME cur # None
        PROVE  /\ [cur EXCEPT !.metric = TRUE] \in Current /\ [cur EXCEPT !.metric = TRUE].path = cur.path
               /\ [cur EXCEPT !.metric = TRUE].metric
               /\ [cur EXCEPT !.version = TRUE] \in Current /\ [cur EXCEPT !.version = TRUE].path = cur.path
               /\ [cur EXCEPT !.version = TRUE].version
    BY <2>2, <2>5 DEF OpenRecords
  <2>6. NewRecord(token.path) \in Current /\ NewRecord(token.path).path = token.path
    <3>. DEFINE V == LcovValues(tokens)
    <3>1. << >> \in Tables(V, V)
      <4>1. << >> \in [{} -> V]
        OBVIOUS
      <4>. QED  BY <4>1 DEF Tables
    <3>2. token.path \in SourcePaths
      BY DEF SourceNames
    <3>. HIDE DEF V, SourcePaths
    <3>. QED  BY <3>1, <3>2 DEF NewRecord, OpenRecords, V, SourcePaths
  <2>. HIDE DEF cur, SourcePaths, Current, Done, Reading, put
  <2>. DEFINE Skipped == cur = None /\ token.tag \in {"blank", "TN"} /\ next = state
              Metric == /\ cur # None /\ token.tag \notin {"SF", "end", "VER"}
                        /\ next.current # None /\ next.current.path = cur.path /\ next.current.metric
                        /\ next.completed = state.completed
              Version == /\ cur # None /\ token.tag = "VER" /\ ~cur.version /\ ~cur.metric
                         /\ next.current # None /\ next.current.path = cur.path /\ next.current.version
                         /\ next.completed = state.completed
              Start == /\ cur = None /\ token.tag = "SF"
                       /\ next.current # None /\ next.current.path = token.path
                       /\ next.completed = state.completed
              End == /\ cur # None /\ token.tag = "end" /\ next.current = None
                     /\ \A p \in DOMAIN state.completed : LexicalKey(p) # LexicalKey(cur.path)
                     /\ DOMAIN next.completed = DOMAIN state.completed \cup {cur.path}
              Result == \/ next = Rejected
                        \/ next \in Reading /\ (Skipped \/ Metric \/ Version \/ Start \/ End)
  <2>7. ASSUME token.tag = "blank"  PROVE Result
    <3>1. next = IF cur # None THEN put([cur EXCEPT !.metric = TRUE]) ELSE state
      BY <1>3, <2>7 DEF Ingest, cur, put
    <3>2. cur # None => Metric /\ next \in Reading
      <4>. SUFFICES ASSUME cur # None  PROVE Metric /\ next \in Reading
        OBVIOUS
      <4>1. next = put([cur EXCEPT !.metric = TRUE])
        BY <3>1
      <4>. HIDE DEF next
      <4>. QED  BY <2>3, <2>5, <2>7, <4>1
    <3>3. cur = None => Skipped /\ next \in Reading
      BY <2>1, <2>7, <3>1
    <3>. HIDE DEF next, Skipped, Metric
    <3>. QED  BY <3>2, <3>3
  <2>8. ASSUME token.tag = "TN"  PROVE Result
    <3>1. next = IF cur # None THEN Rejected ELSE state
      BY <1>3, <2>8 DEF Ingest, cur
    <3>2. cur = None => Skipped /\ next \in Reading
      BY <2>1, <2>8, <3>1
    <3>. HIDE DEF Skipped
    <3>. QED  BY <3>1, <3>2
  <2>9. ASSUME token.tag = "VER"  PROVE Result
    <3>1. next = IF cur # None /\ ~cur.version /\ ~cur.metric THEN put([cur EXCEPT !.version = TRUE]) ELSE Rejected
      BY <1>3, <2>9 DEF Ingest, cur, put
    <3>. HIDE DEF next
    <3>2. next = Rejected \/ (Version /\ next \in Reading)
      BY <2>3, <2>5, <2>9, <3>1
    <3>. HIDE DEF Version
    <3>. QED  BY <3>2
  <2>10. ASSUME token.tag = "SF"  PROVE Result
    <3>1. next = IF cur # None THEN Rejected ELSE put(NewRecord(token.path))
      BY <1>3, <2>10 DEF Ingest, cur, put
    <3>. HIDE DEF next
    <3>2. next = Rejected \/ (Start /\ next \in Reading)
      BY <2>3, <2>6, <2>10, <3>1
    <3>. HIDE DEF Start
    <3>. QED  BY <3>2
  <2>11. ASSUME token.tag = "end"  PROVE Result
    <3>. DEFINE done == FinishRecord(cur, required, roles)
                closed == [state EXCEPT !.current = None, !.completed = Put(@, cur.path, done)]
    <3>1. next = IF cur = None THEN Rejected
                 ELSE IF ~done.ok \/ \E p \in DOMAIN state.completed : LexicalKey(p) = LexicalKey(cur.path)
                      THEN Rejected ELSE closed
      BY <1>3, <2>11 DEF Ingest, cur
    <3>2. ASSUME cur # None
          PROVE  /\ closed \in Reading /\ closed.current = None
                 /\ DOMAIN closed.completed = DOMAIN state.completed \cup {cur.path}
      <4>1. cur \in Current /\ done \in Done /\ cur.path \in SourcePaths
        <5>1. cur \in Current
          BY <2>2, <3>2
        <5>. QED  BY <5>1 DEF Done, Current, OpenRecords, SourcePaths
      <4>. HIDE DEF done
      <4>2. state \in [ok : {TRUE}, current : {None} \cup Current, completed : Tables(SourcePaths, Done)]
        BY <2>1 DEF Reading
      <4>3. /\ closed \in [ok : {TRUE}, current : {None} \cup Current, completed : Tables(SourcePaths, Done)]
            /\ closed.current = None
        BY <4>1, <4>2, ClosesRecord
      <4>4. closed.completed = Put(state.completed, cur.path, done)
        <5>. HIDE DEF Current
        <5>. QED  BY <4>2
      <4>. QED  BY <4>3, <4>4 DEF Reading, Put
    <3>. HIDE DEF next, closed, done
    <3>3. next = Rejected \/ (End /\ next \in Reading)
      BY <2>11, <3>1, <3>2
    <3>. HIDE DEF End
    <3>. QED  BY <3>3
  <2>12. ASSUME token.tag \notin {"blank", "TN", "VER", "SF", "end"}  PROVE Result
    <3>1. next = IF cur # None THEN put(IngestMetric(cur, token)) ELSE Rejected
      BY <1>3, <2>12 DEF Ingest, cur, put
    <3>. HIDE DEF next
    <3>. DEFINE metric == IngestMetric(cur, token)
    <3>2. cur # None => metric = None \/ (metric \in Current /\ metric.path = cur.path /\ metric.metric)
      BY <2>2, MetricKeepsRecord DEF Current
    <3>. HIDE DEF metric
    <3>3. next = Rejected \/ (Metric /\ next \in Reading)
      BY <2>3, <2>4, <2>12, <3>1, <3>2 DEF metric
    <3>. HIDE DEF Metric
    <3>. QED  BY <3>3
  <2>13. Result
    <3>. HIDE DEF Result
    <3>. QED  BY <2>7, <2>8, <2>9, <2>10, <2>11, <2>12
  <2>14. next = Rejected => next \in LcovStates(tokens, required, roles) /\ ~next.ok
    <3>. HIDE DEF next
    <3>. QED  BY <1>1, <2>4
  <2>15. next \in Reading => next \in LcovStates(tokens, required, roles)
    BY <1>1
  <2>. HIDE DEF next
  <2>16. /\ next \in LcovStates(tokens, required, roles)
         /\ next.ok => Skipped \/ Metric \/ Version \/ Start \/ End
    <3>. HIDE DEF Skipped, Metric, Version, Start, End
    <3>. QED  BY <2>13, <2>14, <2>15
  <2>. QED  BY <1>3, <2>16 DEF next, cur
<1>. HIDE DEF next
<1>. QED  BY <1>2, <1>3

-----------------------------------------------------------------------------
(* How many indices of a set are at most k grows by one where k is in it.     *)
LEMMA CountsUpTo ==
  ASSUME NEW n \in Nat, NEW S \in SUBSET (1 .. n)
  PROVE  /\ Cardinality({j \in S : j <= 0}) = 0
         /\ \A k \in 1 .. n :
              /\ Cardinality({j \in S : j <= k - 1}) \in Nat
              /\ Cardinality({j \in S : j <= k}) = Cardinality({j \in S : j <= k - 1}) + (IF k \in S THEN 1 ELSE 0)
<1>1. {j \in S : j <= 0} = {}
  <2>1. \A j \in 1 .. n : ~(j <= 0)
    OBVIOUS
  <2>. QED  BY <2>1
<1>2. ASSUME NEW k \in 1 .. n
      PROVE  /\ Cardinality({j \in S : j <= k - 1}) \in Nat
             /\ Cardinality({j \in S : j <= k}) = Cardinality({j \in S : j <= k - 1}) + (IF k \in S THEN 1 ELSE 0)
  <2>. DEFINE T == {j \in S : j <= k - 1}
              U == {j \in S : j <= k}
  <2>1. T \in SUBSET (1 .. n) /\ k \notin T
    <3>1. ~(k <= k - 1)
      OBVIOUS
    <3>. QED  BY <3>1
  <2>2. U = IF k \in S THEN T \cup {k} ELSE T
    <3>1. \A j \in 1 .. n : j <= k <=> (j <= k - 1 \/ j = k)
      OBVIOUS
    <3>2. \A j : j \in U <=> j \in T \/ (j \in S /\ j = k)
      BY <3>1
    <3>. HIDE DEF T, U
    <3>. QED  BY <3>2
  <2>. HIDE DEF T, U
  <2>3. IsFiniteSet(1 .. n)
    BY FS_Interval
  <2>4. IsFiniteSet(T)
    BY <2>1, <2>3, FS_Subset
  <2>5. Cardinality(T) \in Nat /\ Cardinality(T \cup {k}) = Cardinality(T) + 1
    BY <2>1, <2>4, FS_CardinalityType, FS_AddElement
  <2>6. Cardinality(U) = Cardinality(T) + (IF k \in S THEN 1 ELSE 0)
    BY <2>2, <2>5
  <2>. QED  BY <2>5, <2>6 DEF T, U
<1>. QED  BY <1>1, <1>2, FS_EmptySet

(* How many records are open changes at the lines that open or close one.     *)
LEMMA OpenedSteps ==
  ASSUME NEW Tokens, NEW tokens \in Seq(Tokens)
  PROVE  /\ Opened(tokens, 0) = 0
         /\ \A k \in 1 .. Len(tokens) :
              /\ Opened(tokens, k - 1) \in Int
              /\ tokens[k].tag = "SF" => Opened(tokens, k) = Opened(tokens, k - 1) + 1
              /\ tokens[k].tag = "end" => Opened(tokens, k) = Opened(tokens, k - 1) - 1
              /\ tokens[k].tag \notin {"SF", "end"} => Opened(tokens, k) = Opened(tokens, k - 1)
<1>. DEFINE n == Len(tokens)
            SF == Tagged(tokens, "SF")
            end == Tagged(tokens, "end")
            up(S, k) == Cardinality({j \in S : j <= k})
<1>1. /\ n \in Nat /\ SF \in SUBSET (1 .. n) /\ end \in SUBSET (1 .. n)
      /\ \A k \in 1 .. n : /\ k \in SF <=> tokens[k].tag = "SF"
                           /\ k \in end <=> tokens[k].tag = "end"
  BY DEF Tagged
<1>2. \A k : Opened(tokens, k) = up(SF, k) - up(end, k)
  BY DEF Opened
<1>. HIDE DEF SF, end
<1>3. /\ up(SF, 0) = 0 /\ up(end, 0) = 0
      /\ \A k \in 1 .. n :
           /\ up(SF, k - 1) \in Nat /\ up(SF, k) = up(SF, k - 1) + (IF k \in SF THEN 1 ELSE 0)
           /\ up(end, k - 1) \in Nat /\ up(end, k) = up(end, k - 1) + (IF k \in end THEN 1 ELSE 0)
  <2>. HIDE DEF n
  <2>1. /\ up(SF, 0) = 0
        /\ \A k \in 1 .. n :
             up(SF, k - 1) \in Nat /\ up(SF, k) = up(SF, k - 1) + (IF k \in SF THEN 1 ELSE 0)
    BY <1>1, CountsUpTo
  <2>2. /\ up(end, 0) = 0
        /\ \A k \in 1 .. n :
             up(end, k - 1) \in Nat /\ up(end, k) = up(end, k - 1) + (IF k \in end THEN 1 ELSE 0)
    BY <1>1, CountsUpTo
  <2>. HIDE DEF up
  <2>. QED  BY <2>1, <2>2
<1>. HIDE DEF up
<1>4. Opened(tokens, 0) = 0
  BY <1>2, <1>3
<1>5. ASSUME NEW k \in 1 .. n
      PROVE  /\ Opened(tokens, k - 1) \in Int
             /\ tokens[k].tag = "SF" => Opened(tokens, k) = Opened(tokens, k - 1) + 1
             /\ tokens[k].tag = "end" => Opened(tokens, k) = Opened(tokens, k - 1) - 1
             /\ tokens[k].tag \notin {"SF", "end"} => Opened(tokens, k) = Opened(tokens, k - 1)
  <2>. HIDE DEF n
  <2>1. /\ Opened(tokens, k) = up(SF, k) - up(end, k) /\ Opened(tokens, k - 1) = up(SF, k - 1) - up(end, k - 1)
    BY <1>2
  <2>2. /\ up(SF, k - 1) \in Nat /\ up(SF, k) = up(SF, k - 1) + (IF k \in SF THEN 1 ELSE 0)
        /\ up(end, k - 1) \in Nat /\ up(end, k) = up(end, k - 1) + (IF k \in end THEN 1 ELSE 0)
    BY <1>3
  <2>3. /\ k \in SF <=> tokens[k].tag = "SF"
        /\ k \in end <=> tokens[k].tag = "end"
    BY <1>1
  <2>. QED  BY <2>1, <2>2, <2>3
<1>. QED  BY <1>4, <1>5

(* Every line keeps the grammar.                                              *)
LEMMA LineKeepsGrammar ==
  ASSUME NEW Tokens, NEW tokens \in Seq(Tokens), NEW required, NEW roles, None \notin OpenRecords(tokens),
         NEW k \in 1 .. Len(tokens), NEW state \in LcovStates(tokens, required, roles),
         Grammatical(state, tokens, k - 1)
  PROVE  LET next == Ingest(state, tokens[k], required, roles)
         IN  next \in LcovStates(tokens, required, roles) /\ Grammatical(next, tokens, k)
<1>. DEFINE next == Ingest(state, tokens[k], required, roles)
            token == tokens[k]
            Skipped == state.current = None /\ token.tag \in {"blank", "TN"} /\ next = state
            Metric == /\ state.current # None /\ token.tag \notin {"SF", "end", "VER"}
                      /\ next.current # None /\ next.current.path = state.current.path /\ next.current.metric
                      /\ next.completed = state.completed
            Version == /\ state.current # None /\ token.tag = "VER"
                       /\ ~state.current.version /\ ~state.current.metric
                       /\ next.current # None /\ next.current.path = state.current.path /\ next.current.version
                       /\ next.completed = state.completed
            Start == /\ state.current = None /\ token.tag = "SF"
                     /\ next.current # None /\ next.current.path = token.path
                     /\ next.completed = state.completed
            End == /\ state.current # None /\ token.tag = "end" /\ next.current = None
                   /\ \A p \in DOMAIN state.completed : LexicalKey(p) # LexicalKey(state.current.path)
                   /\ DOMAIN next.completed = DOMAIN state.completed \cup {state.current.path}
<1>1. token \in ToSet(tokens)
  BY DEF ToSet
<1>2. /\ next \in LcovStates(tokens, required, roles)
      /\ next.ok => state.ok /\ (Skipped \/ Metric \/ Version \/ Start \/ End)
  <2>. HIDE DEF token
  <2>. QED  BY <1>1, LineSteps DEF token
<1>. SUFFICES ASSUME next.ok
     PROVE  Balanced(next, tokens, k) /\ VersionFirst(next, tokens, k) /\ Distinct(next, tokens, k)
  <2>. HIDE DEF next
  <2>. QED  BY <1>2 DEF Grammatical, next
<1>3. Skipped \/ Metric \/ Version \/ Start \/ End
  BY <1>2
<1>4. Balanced(state, tokens, k - 1) /\ VersionFirst(state, tokens, k - 1) /\ Distinct(state, tokens, k - 1)
  BY <1>2 DEF Grammatical
<1>5. /\ 1 .. k = (1 .. k - 1) \cup {k} /\ k \notin 1 .. k - 1 /\ k - 1 \in Nat /\ k \in Nat
      /\ \A i \in 1 .. k - 1 : i < k /\ i \in 1 .. Len(tokens)
  OBVIOUS
<1>. HIDE DEF next
<1>6. Balanced(next, tokens, k)
  <2>1. /\ Opened(tokens, k - 1) \in Int
        /\ token.tag = "SF" => Opened(tokens, k) = Opened(tokens, k - 1) + 1
        /\ token.tag = "end" => Opened(tokens, k) = Opened(tokens, k - 1) - 1
        /\ token.tag \notin {"SF", "end"} => Opened(tokens, k) = Opened(tokens, k - 1)
    BY OpenedSteps
  <2>2. Opened(tokens, k - 1) = IF state.current = None THEN 0 ELSE 1
    BY <1>4 DEF Balanced
  <2>3. Opened(tokens, k) = IF next.current = None THEN 0 ELSE 1
    BY <1>3, <2>1, <2>2
  <2>4. token.tag \in CountTags \cup {"DA", "VER", "end"} => state.current # None
    BY <1>3 DEF CountTags
  <2>. HIDE DEF token, Skipped, Metric, Version, Start, End
  <2>5. \A i \in 1 .. k : Opened(tokens, i) \in {0, 1}
    BY <1>4, <1>5, <2>3 DEF Balanced
  <2>6. ASSUME NEW i \in 1 .. k, tokens[i].tag \in CountTags \cup {"DA", "VER", "end"}
        PROVE  Opened(tokens, i - 1) = 1
    <3>1. CASE i = k
      BY <2>2, <2>4, <2>6, <3>1 DEF token
    <3>2. CASE i # k
      BY <1>4, <1>5, <2>6, <3>2 DEF Balanced
    <3>. QED  BY <3>1, <3>2
  <2>. QED  BY <2>3, <2>5, <2>6 DEF Balanced
<1>7. VersionFirst(next, tokens, k)
  <2>1. (next.current # None /\ ~next.current.version /\ ~next.current.metric) => token.tag = "SF"
    BY <1>3
  <2>2. token.tag = "VER" => state.current # None /\ ~state.current.version /\ ~state.current.metric
    BY <1>3
  <2>. HIDE DEF token, Skipped, Metric, Version, Start, End
  <2>3. ASSUME NEW i \in 1 .. k, tokens[i].tag = "VER"
        PROVE  tokens[i - 1].tag = "SF"
    <3>1. CASE i = k
      BY <1>4, <2>2, <2>3, <3>1 DEF VersionFirst, token
    <3>2. CASE i # k
      BY <1>4, <1>5, <2>3, <3>2 DEF VersionFirst
    <3>. QED  BY <3>1, <3>2
  <2>. QED  BY <2>1, <2>3 DEF VersionFirst, token
<1>8. Distinct(next, tokens, k)
  <2>. DEFINE SF(m) == {i \in 1 .. m : tokens[i].tag = "SF"}
              shut(i, m) == Closed(tokens, i, m)
              lk(i) == LexicalKey(tokens[i].path)
              Done(s) == DOMAIN s.completed
              Facts(s, m) ==
                /\ (s.current # None \/ Done(s) # {}) => SF(m) # {}
                /\ \A i \in SF(m) : shut(i, m) => \E p \in Done(s) : LexicalKey(p) = lk(i)
                /\ \A i \in SF(m) : ~shut(i, m) => s.current # None /\ s.current.path = tokens[i].path
                /\ \A i, j \in SF(m) : ~shut(i, m) /\ ~shut(j, m) => i = j
                /\ \A i, j \in SF(m) : i # j /\ shut(i, m) /\ shut(j, m) => lk(i) # lk(j)
  <2>1. \A i \in 1 .. k : Closed(tokens, i, k) <=> Closed(tokens, i, k - 1) \/ (token.tag = "end" /\ i < k)
    <3>1. \A j : j \in Tagged(tokens, "end") <=> j \in 1 .. Len(tokens) /\ tokens[j].tag = "end"
      BY DEF Tagged
    <3>. QED  BY <3>1 DEF Closed
  <2>2. ~Closed(tokens, k, k)
    BY DEF Closed, Tagged
  <2>3. SF(k) = SF(k - 1) \cup (IF token.tag = "SF" THEN {k} ELSE {})
    BY <1>5
  <2>4. \A i \in SF(k - 1) : i \in 1 .. k - 1 /\ i < k /\ i # k /\ i \in 1 .. k
    BY <1>5
  <2>5. Facts(state, k - 1)
    BY <1>4 DEF Distinct
  <2>6. \A i \in SF(k - 1) : shut(i, k) <=> shut(i, k - 1) \/ token.tag = "end"
    BY <2>1, <2>4
  <2>. HIDE DEF SF, shut
  <2>7. Facts(next, k)
    <3>1. CASE Skipped \/ Metric \/ Version
      <4>1. SF(k) = SF(k - 1) /\ \A i \in SF(k) : shut(i, k) <=> shut(i, k - 1)
        <5>1. token.tag \notin {"SF", "end"}
          BY <3>1
        <5>. HIDE DEF token, Skipped, Metric, Version
        <5>. QED  BY <2>3, <2>6, <5>1
      <4>2. /\ Done(next) = Done(state) /\ (next.current # None <=> state.current # None)
            /\ state.current # None => next.current.path = state.current.path
        BY <3>1
      <4>. HIDE DEF token, lk, Done, Skipped, Metric, Version
      <4>. QED  BY <2>5, <4>1, <4>2
    <3>2. CASE Start
      <4>1. /\ state.current = None /\ token.tag = "SF" /\ next.current # None
            /\ next.current.path = tokens[k].path /\ Done(next) = Done(state)
        BY <3>2
      <4>. HIDE DEF token, lk, Done, Start
      <4>2. /\ SF(k) = SF(k - 1) \cup {k}
            /\ \A i \in SF(k - 1) : i # k /\ shut(i, k) /\ shut(i, k - 1)
            /\ ~shut(k, k)
        BY <2>2, <2>3, <2>4, <2>5, <2>6, <4>1 DEF shut
      <4>. QED  BY <2>5, <4>1, <4>2
    <3>3. CASE End
      <4>1. /\ state.current # None /\ token.tag = "end" /\ next.current = None
            /\ \A p \in Done(state) : LexicalKey(p) # LexicalKey(state.current.path)
            /\ Done(next) = Done(state) \cup {state.current.path}
        BY <3>3
      <4>2. \A i \in SF(k - 1) : ~shut(i, k - 1) => lk(i) = LexicalKey(state.current.path)
        BY <2>5
      <4>. HIDE DEF token, lk, Done, End
      <4>3. SF(k) = SF(k - 1) /\ \A i \in SF(k) : shut(i, k)
        BY <2>3, <2>6, <4>1
      <4>4. SF(k) # {}
        BY <2>5, <4>1, <4>3
      <4>5. \A i \in SF(k) : \E p \in Done(next) : LexicalKey(p) = lk(i)
        BY <2>5, <4>1, <4>2, <4>3
      <4>6. ASSUME NEW i \in SF(k), NEW j \in SF(k), i # j
            PROVE  lk(i) # lk(j)
        BY <2>5, <4>1, <4>2, <4>3, <4>6
      <4>. QED  BY <4>1, <4>3, <4>4, <4>5, <4>6
    <3>. HIDE DEF Facts, Skipped, Metric, Version, Start, End
    <3>. QED  BY <1>3, <3>1, <3>2, <3>3
  <2>. QED  BY <2>7 DEF Distinct, SF, shut
<1>. QED  BY <1>6, <1>7, <1>8

Parsed(tokens, required, roles) ==
    LET start == [ok |-> TRUE, current |-> None, completed |-> << >>]
    IN  FoldLeft(LAMBDA state, token : Ingest(state, token, required, roles), start, tokens)

(* The parser runs through its lines from the first on, and keeps the grammar.*)
LEMMA ReportIsGrammatical ==
  ASSUME NEW Tokens, NEW tokens \in Seq(Tokens), NEW required, NEW roles, None \notin OpenRecords(tokens)
  PROVE  Grammatical(Parsed(tokens, required, roles), tokens, Len(tokens))
<1>. DEFINE n == Len(tokens)
            State == LcovStates(tokens, required, roles)
            base == [ok |-> TRUE, current |-> None, completed |-> << >>]
            Takes(x, k) == Ingest(x, tokens[k], required, roles)
            Step == [p \in State \X (1 .. n) |-> Takes(p[1], p[2])]
            Iterates(g) == g = [s \in SUBSET DOMAIN tokens |->
                                  IF s = {} THEN base ELSE Takes(g[s \ {Max(s)}], Max(s))]
            it == CHOOSE g : Iterates(g)
            Good == [k \in 0 .. n |-> {x \in State : Grammatical(x, tokens, k)}]
            end == Parsed(tokens, required, roles)
<1>1. DOMAIN tokens = 1 .. n /\ n \in Nat
  OBVIOUS
<1>2. ASSUME NEW x \in State, NEW k \in 1 .. n
      PROVE  /\ Takes(x, k) \in State
             /\ Grammatical(x, tokens, k - 1) => Grammatical(Takes(x, k), tokens, k)
  <2>1. tokens[k] \in ToSet(tokens)
    BY <1>1 DEF ToSet
  <2>. HIDE DEF n
  <2>2. Takes(x, k) \in State
    BY <2>1, LineSteps
  <2>3. Grammatical(x, tokens, k - 1) => Grammatical(Takes(x, k), tokens, k)
    BY LineKeepsGrammar DEF n
  <2>. QED  BY <2>2, <2>3
<1>3. base \in State /\ Grammatical(base, tokens, 0)
  <2>1. << >> \in Tables(SourceNames(tokens), {FinishRecord(r, required, roles) : r \in OpenRecords(tokens)})
    <3>. DEFINE V == {FinishRecord(r, required, roles) : r \in OpenRecords(tokens)}
    <3>1. << >> \in [{} -> V]
      OBVIOUS
    <3>. HIDE DEF V
    <3>2. << >> \in Tables(SourceNames(tokens), V)
      BY <3>1 DEF Tables
    <3>. QED  BY <3>2 DEF V
  <2>2. base \in State
    BY <2>1 DEF LcovStates
  <2>3. Opened(tokens, 0) = 0
    BY OpenedSteps
  <2>4. 1 .. 0 = {} /\ base.current = None /\ DOMAIN base.completed = {}
    OBVIOUS
  <2>. HIDE DEF base
  <2>. QED  BY <2>2, <2>3, <2>4 DEF Grammatical, Balanced, VersionFirst, Distinct
<1>4. end = it[DOMAIN tokens]
  BY Zenon DEF Parsed, FoldLeft, MapThenFoldSet
<1>. HIDE DEF State, Takes, base, end
<1>5. PICK g \in [SUBSET (1 .. n) -> State] : FoldFits(g, n, base, Step)
  <2>1. Step \in [State \X (1 .. n) -> State]
    BY <1>2
  <2>. HIDE DEF Step, n
  <2>. QED  BY <1>1, <1>3, <2>1, FoldExists
<1>6. Iterates(g)
  <2>1. g[{}] = base
    BY <1>5 DEF FoldFits
  <2>2. ASSUME NEW s \in SUBSET (1 .. n), s # {}
        PROVE  g[s] = Takes(g[s \ {Max(s)}], Max(s))
    <3>1. Max(s) \in 1 .. n
      BY <1>1, <2>2, Greatest
    <3>2. g[s \ {Max(s)}] \in State
      OBVIOUS
    <3>3. g[s] = Step[<<g[s \ {Max(s)}], Max(s)>>]
      BY <1>5, <2>2 DEF FoldFits
    <3>. QED  BY <3>1, <3>2, <3>3
  <2>. QED  BY <1>1, <2>1, <2>2
<1>7. Iterates(it)
  <2>. HIDE DEF Iterates
  <2>. QED  BY <1>6
<1>8. it[1 .. n] \in Good[n]
  <2>1. it[{}] \in Good[0]
    <3>1. it[{}] = base
      <4>. HIDE DEF it
      <4>. QED  BY <1>7
    <3>. QED  BY <1>3, <3>1
  <2>2. ASSUME NEW k \in 1 .. n, it[1 .. k - 1] \in Good[k - 1]
        PROVE  it[1 .. k] \in Good[k]
    <3>1. Max(1 .. k) = k /\ (1 .. k) \ {k} = 1 .. k - 1
      <4>1. k - 1 \in Nat /\ (k - 1) + 1 = k
        OBVIOUS
      <4>. QED  BY <4>1, GreatestOfInterval
    <3>2. it[1 .. k] = Takes(it[1 .. k - 1], k)
      <4>. HIDE DEF it
      <4>1. 1 .. k \subseteq 1 .. n /\ k \in 1 .. k
        BY <1>1
      <4>. QED  BY <1>1, <1>7, <3>1, <4>1
    <3>. HIDE DEF it
    <3>3. k - 1 \in 0 .. n
      OBVIOUS
    <3>4. it[1 .. k - 1] \in State /\ Grammatical(it[1 .. k - 1], tokens, k - 1)
      BY <2>2, <3>3
    <3>. QED  BY <1>2, <3>2, <3>4
  <2>. HIDE DEF it, Good, n
  <2>. QED  BY <1>1, <2>1, <2>2, FoldInvariant
<1>9. it[1 .. n] \in State /\ Grammatical(it[1 .. n], tokens, n)
  <2>. HIDE DEF it
  <2>. QED  BY <1>8
<1>. HIDE DEF it
<1>. QED  BY <1>1, <1>4, <1>9 DEF State, end, base

(* AcceptedIsBracketed, for reports of any length.                            *)
LEMMA EveryReportIsBracketed ==
  ASSUME NEW Tokens, NEW tokens \in Seq(Tokens), NEW required, NEW roles, None \notin OpenRecords(tokens)
  PROVE  AcceptedIsBracketed(tokens, required, roles)
<1>. DEFINE end == Parsed(tokens, required, roles)
            n == Len(tokens)
            SF == {i \in 1 .. n : tokens[i].tag = "SF"}
<1>. SUFFICES ASSUME ParseReport(tokens, required, roles).ok
     PROVE  /\ Tagged(tokens, "SF") # {} /\ Opened(tokens, n) = 0
            /\ \A i \in DOMAIN tokens : Opened(tokens, i) \in {0, 1}
            /\ \A i \in DOMAIN tokens :
                 tokens[i].tag \in CountTags \cup {"DA", "VER", "end"} => Opened(tokens, i - 1) = 1
            /\ \A i \in Tagged(tokens, "VER") : tokens[i - 1].tag = "SF"
            /\ \A i, j \in Tagged(tokens, "SF") : i # j => LexicalKey(tokens[i].path) # LexicalKey(tokens[j].path)
  BY DEF AcceptedIsBracketed, Opened, Tagged
<1>1. end.ok /\ end.current = None /\ DOMAIN end.completed # {}
  <2>1. ~Rejected.ok
    BY DEF Rejected
  <2>2. ParseReport(tokens, required, roles) =
          IF end.ok /\ end.current = None /\ DOMAIN end.completed # {} THEN end ELSE Rejected
    BY DEF ParseReport, Parsed
  <2>. HIDE DEF end
  <2>. QED  BY <2>1, <2>2
<1>2. Grammatical(end, tokens, n)
  BY ReportIsGrammatical
<1>. HIDE DEF end
<1>3. Balanced(end, tokens, n) /\ VersionFirst(end, tokens, n) /\ Distinct(end, tokens, n)
  BY <1>1, <1>2 DEF Grammatical
<1>4. /\ DOMAIN tokens = 1 .. n
      /\ Tagged(tokens, "SF") = SF
      /\ \A i : i \in Tagged(tokens, "VER") => i \in 1 .. n /\ tokens[i].tag = "VER"
  BY DEF Tagged
<1>5. /\ Opened(tokens, n) = 0
      /\ \A i \in 1 .. n : Opened(tokens, i) \in {0, 1}
      /\ \A i \in 1 .. n : tokens[i].tag \in CountTags \cup {"DA", "VER", "end"} => Opened(tokens, i - 1) = 1
  <2>. HIDE DEF n
  <2>. QED  BY <1>1, <1>3 DEF Balanced
<1>6. \A i \in Tagged(tokens, "VER") : tokens[i - 1].tag = "SF"
  <2>. HIDE DEF n
  <2>. QED  BY <1>3, <1>4 DEF VersionFirst
<1>7. SF # {} /\ \A i, j \in SF : i # j => LexicalKey(tokens[i].path) # LexicalKey(tokens[j].path)
  <2>. HIDE DEF n
  <2>1. SF # {} /\ \A i \in SF : Closed(tokens, i, n)
    BY <1>1, <1>3 DEF Distinct
  <2>. QED  BY <1>3, <2>1 DEF Distinct
<1>. HIDE DEF n, SF
<1>. QED  BY <1>4, <1>5, <1>6, <1>7

(* No credit for test code, in records and reports of any size                *)
(* (LcovCreditsOnlyProduction): the tables of a record are finite with counts *)
(* that are naturals, a report is a sequence of lines, and None, which stands *)
(* for no record, is not a record.                                            *)
THEOREM EveryLcovCreditsOnlyProduction ==
  ASSUME Is("record") => LcovRecord(case.record),
         Is("tokens") => /\ \E Tokens : case.tokens \in Seq(Tokens)
                         /\ None \notin OpenRecords(case.tokens)
  PROVE  LcovCreditsOnlyProduction
<1>1. ASSUME Is("record")  PROVE RetainedIsConservative(case.record, case.required, case.roles)
  BY <1>1, EveryRecordIsConservative
<1>2. ASSUME Is("tokens")  PROVE AcceptedIsBracketed(case.tokens, case.required, case.roles)
  BY <1>2, EveryReportIsBracketed
<1>. QED  BY <1>1, <1>2 DEF LcovCreditsOnlyProduction

-----------------------------------------------------------------------------
(* Sums over finite sets (MapThenSumSet), whatever order they are taken in.   *)

Additive(T, S, f) ==
    /\ T \in [SUBSET S -> Nat] /\ T[{}] = 0
    /\ \A s \in SUBSET S : \A x \in s : T[s] = f[x] + T[s \ {x}]

SumsUp(it, S, f) ==
    \A s \in SUBSET S :
       it[s] = IF s = {} THEN 0 ELSE f[CHOOSE x \in s : TRUE] + it[s \ {CHOOSE x \in s : TRUE}]

(* The number of elements of a finite set, for induction over them.           *)
LEMMA SmallerWithout ==
  ASSUME NEW S, IsFiniteSet(S), NEW x \in S
  PROVE  /\ IsFiniteSet(S \ {x}) /\ Cardinality(S) \in Nat /\ Cardinality(S \ {x}) \in Nat
         /\ Cardinality(S) = Cardinality(S \ {x}) + 1
<1>1. S \ {x} \in SUBSET S /\ x \notin S \ {x} /\ (S \ {x}) \cup {x} = S
  OBVIOUS
<1>2. IsFiniteSet(S \ {x})
  BY <1>1, FS_Subset
<1>3. Cardinality((S \ {x}) \cup {x}) = Cardinality(S \ {x}) + 1
  BY <1>1, <1>2, FS_AddElement
<1>. QED  BY <1>1, <1>2, <1>3, FS_CardinalityType

(* There are sums of naturals over the parts of a finite set.                 *)
LEMMA SumExists ==
  ASSUME NEW S, IsFiniteSet(S), NEW f \in [S -> Nat]
  PROVE  \E T : Additive(T, S, f)
<1>. DEFINE Has(n) == \A R \in SUBSET S : Cardinality(R) = n => \E T : Additive(T, R, f)
            N == {n \in Nat : Has(n)}
<1>1. 0 \in N
  <2>1. ASSUME NEW R \in SUBSET S, Cardinality(R) = 0  PROVE \E T : Additive(T, R, f)
    <3>1. R = {}
      BY <2>1, FS_Subset, FS_EmptySet
    <3>2. Additive([s \in SUBSET R |-> 0], R, f)
      BY <3>1 DEF Additive
    <3>. QED  BY <3>2
  <2>. QED  BY <2>1
<1>2. ASSUME NEW n \in Nat, n \in N  PROVE n + 1 \in N
  <2>. SUFFICES ASSUME NEW R \in SUBSET S, Cardinality(R) = n + 1  PROVE \E T : Additive(T, R, f)
    OBVIOUS
  <2>1. IsFiniteSet(R)
    BY FS_Subset
  <2>2. PICK x : x \in R
    <3>1. R # {}
      BY <2>1, FS_EmptySet
    <3>. QED  BY <3>1
  <2>. DEFINE P == R \ {x}
  <2>3. Cardinality(P) = n /\ P \in SUBSET S
    <3>1. Cardinality(R) = Cardinality(P) + 1 /\ Cardinality(P) \in Nat
      BY <2>1, <2>2, SmallerWithout
    <3>. QED  BY <3>1
  <2>4. PICK T : Additive(T, P, f)
    BY <1>2, <2>3
  <2>. DEFINE U == [s \in SUBSET R |-> IF x \in s THEN f[x] + T[s \ {x}] ELSE T[s]]
  <2>5. \A s \in SUBSET R : s \ {x} \in SUBSET P /\ (x \notin s => s \in SUBSET P)
    OBVIOUS
  <2>6. f[x] \in Nat /\ T \in [SUBSET P -> Nat] /\ T[{}] = 0
    BY <2>2, <2>4 DEF Additive
  <2>7. U \in [SUBSET R -> Nat]
    <3>. HIDE DEF P
    <3>. QED  BY <2>5, <2>6
  <2>8. U[{}] = 0
    BY <2>6
  <2>9. ASSUME NEW s \in SUBSET R, NEW y \in s
        PROVE  U[s] = f[y] + U[s \ {y}]
    <3>1. s \ {y} \in SUBSET R
      OBVIOUS
    <3>2. CASE y = x
      <4>1. x \notin s \ {x}
        OBVIOUS
      <4>. QED  BY <3>1, <3>2, <4>1
    <3>3. CASE y # x /\ x \notin s
      <4>1. T[s] = f[y] + T[s \ {y}]
        BY <2>4, <2>5, <3>3 DEF Additive
      <4>. QED  BY <3>1, <3>3, <4>1
    <3>4. CASE y # x /\ x \in s
      <4>1. s \ {x} \in SUBSET P /\ y \in s \ {x} /\ (s \ {x}) \ {y} = (s \ {y}) \ {x}
            /\ (s \ {y}) \ {x} \in SUBSET P
        BY <3>4
      <4>2. T[s \ {x}] = f[y] + T[(s \ {y}) \ {x}]
        <5>. HIDE DEF P
        <5>. QED  BY <2>4, <4>1 DEF Additive
      <4>3. U[s] = f[x] + T[s \ {x}] /\ U[s \ {y}] = f[x] + T[(s \ {y}) \ {x}]
        BY <3>1, <3>4
      <4>4. f[y] \in Nat /\ T[(s \ {y}) \ {x}] \in Nat
        BY <2>6, <4>1
      <4>. HIDE DEF U, P
      <4>. QED  BY <2>6, <4>2, <4>3, <4>4
    <3>. QED  BY <3>2, <3>3, <3>4
  <2>10. Additive(U, R, f)
    <3>. HIDE DEF U
    <3>. QED  BY <2>7, <2>8, <2>9 DEF Additive
  <2>. QED  BY <2>10
<1>3. \A n \in Nat : n \in N
  <2>. HIDE DEF N
  <2>. QED  BY <1>1, <1>2, SetInduction
<1>4. Cardinality(S) \in Nat /\ S \in SUBSET S
  BY FS_CardinalityType
<1>. QED  BY <1>3, <1>4

(* However a sum is taken apart, it is the same.                              *)
LEMMA SumIsUnique ==
  ASSUME NEW S, IsFiniteSet(S), NEW f \in [S -> Nat], NEW T, Additive(T, S, f), NEW it, SumsUp(it, S, f)
  PROVE  it[S] = T[S]
<1>. DEFINE Same(n) == \A R \in SUBSET S : Cardinality(R) = n => it[R] = T[R]
            N == {n \in Nat : Same(n)}
<1>1. 0 \in N
  <2>1. ASSUME NEW R \in SUBSET S, Cardinality(R) = 0  PROVE it[R] = T[R]
    <3>1. R = {}
      BY <2>1, FS_Subset, FS_EmptySet
    <3>. QED  BY <3>1 DEF Additive, SumsUp
  <2>. QED  BY <2>1
<1>2. ASSUME NEW n \in Nat, n \in N  PROVE n + 1 \in N
  <2>. SUFFICES ASSUME NEW R \in SUBSET S, Cardinality(R) = n + 1  PROVE it[R] = T[R]
    OBVIOUS
  <2>1. IsFiniteSet(R)
    BY FS_Subset
  <2>. DEFINE x == CHOOSE x \in R : TRUE
  <2>2. R # {} /\ x \in R
    BY <2>1, FS_EmptySet
  <2>3. Cardinality(R \ {x}) = n /\ R \ {x} \in SUBSET S
    <3>. HIDE DEF x
    <3>. QED  BY <2>1, <2>2, SmallerWithout
  <2>4. it[R \ {x}] = T[R \ {x}]
    BY <1>2, <2>3
  <2>5. it[R] = f[x] + it[R \ {x}]
    BY <2>2 DEF SumsUp
  <2>6. T[R] = f[x] + T[R \ {x}]
    <3>. HIDE DEF x
    <3>. QED  BY <2>2 DEF Additive
  <2>. QED  BY <2>4, <2>5, <2>6
<1>3. \A n \in Nat : n \in N
  <2>. HIDE DEF N
  <2>. QED  BY <1>1, <1>2, SetInduction
<1>4. Cardinality(S) \in Nat /\ S \in SUBSET S
  BY FS_CardinalityType
<1>. QED  BY <1>3, <1>4

Correspond(key, S, f, K, g) ==
    /\ key \in [S -> K] /\ \A k \in K : \E p \in S : key[p] = k
    /\ \A p, q \in S : key[p] = key[q] => p = q
    /\ \A p \in S : g[key[p]] = f[p]

(* Sums over two sets whose elements correspond.                              *)
LEMMA SumsCorrespond ==
  ASSUME NEW S, NEW f, NEW T, Additive(T, S, f), NEW K, NEW g, NEW key, Correspond(key, S, f, K, g)
  PROVE  \E V : Additive(V, K, g) /\ V[K] = T[S]
<1>. DEFINE Back(R) == {p \in S : key[p] \in R}
            V == [R \in SUBSET K |-> T[Back(R)]]
<1>. /\ key \in [S -> K] /\ \A k \in K : \E p \in S : key[p] = k
     /\ \A p, q \in S : key[p] = key[q] => p = q
     /\ \A p \in S : g[key[p]] = f[p]
  BY DEF Correspond
<1>1. T \in [SUBSET S -> Nat] /\ T[{}] = 0
  BY DEF Additive
<1>2. \A R : Back(R) \in SUBSET S
  OBVIOUS
<1>3. V \in [SUBSET K -> Nat]
  <2>. HIDE DEF Back
  <2>. QED  BY <1>1, <1>2
<1>4. V[{}] = 0
  <2>1. Back({}) = {}
    OBVIOUS
  <2>. HIDE DEF Back
  <2>. QED  BY <1>1, <2>1
<1>5. ASSUME NEW R \in SUBSET K, NEW k \in R
      PROVE  V[R] = g[k] + V[R \ {k}]
  <2>1. PICK p \in S : key[p] = k
    OBVIOUS
  <2>2. p \in Back(R) /\ Back(R \ {k}) = Back(R) \ {p}
    BY <2>1
  <2>. HIDE DEF Back
  <2>3. T[Back(R)] = f[p] + T[Back(R) \ {p}]
    BY <1>2, <2>2 DEF Additive
  <2>4. R \ {k} \in SUBSET K
    OBVIOUS
  <2>. QED  BY <2>1, <2>2, <2>3, <2>4
<1>6. V[K] = T[S]
  <2>1. Back(K) = S
    OBVIOUS
  <2>. HIDE DEF Back
  <2>. QED  BY <2>1
<1>7. Additive(V, K, g)
  <2>. HIDE DEF V
  <2>. QED  BY <1>3, <1>4, <1>5 DEF Additive
<1>. QED  BY <1>6, <1>7

TotalOf(map, tag, keys) == MapThenSumSet(LAMBDA k : RecordOf(map, k)[tag], keys)
TotalUsed(map, tag, used) == MapThenSumSet(LAMBDA p : map[p][tag], used)

(* The total over required files is their sum.                                *)
LEMMA TotalOfKeys ==
  ASSUME NEW map, NEW tag, NEW K, IsFiniteSet(K), \A k \in K : RecordOf(map, k)[tag] \in Nat,
         NEW T, Additive(T, K, [k \in K |-> RecordOf(map, k)[tag]])
  PROVE  TotalOf(map, tag, K) = T[K]
<1>. DEFINE f == [k \in K |-> RecordOf(map, k)[tag]]
            Iterates(g) == g = [s \in SUBSET K |->
                IF s = {} THEN 0 ELSE RecordOf(map, CHOOSE x \in s : TRUE)[tag] + g[s \ {CHOOSE x \in s : TRUE}]]
            it == CHOOSE g : Iterates(g)
<1>1. TotalOf(map, tag, K) = it[K]
  BY Zenon DEF TotalOf, MapThenSumSet, MapThenFoldSet
<1>2. ASSUME NEW s \in SUBSET K, s # {}
      PROVE  (CHOOSE x \in s : TRUE) \in s
  BY <1>2
<1>3. f \in [K -> Nat]
  OBVIOUS
<1>4. Iterates(T)
  <2>1. ASSUME NEW s \in SUBSET K
        PROVE  T[s] = IF s = {} THEN 0 ELSE RecordOf(map, CHOOSE x \in s : TRUE)[tag] + T[s \ {CHOOSE x \in s : TRUE}]
    <3>1. CASE s = {}
      BY <3>1 DEF Additive
    <3>2. CASE s # {}
      <4>. DEFINE x == CHOOSE x \in s : TRUE
      <4>1. x \in s
        BY <3>2
      <4>. HIDE DEF x
      <4>2. T[s] = f[x] + T[s \ {x}] /\ f[x] = RecordOf(map, x)[tag]
        BY <4>1 DEF Additive
      <4>. HIDE DEF f
      <4>. QED  BY <3>2, <4>2 DEF x
    <3>. QED  BY <3>1, <3>2
  <2>2. T \in [SUBSET K -> Nat]
    BY DEF Additive
  <2>. QED  BY <2>1, <2>2
<1>5. Iterates(it)
  <2>. HIDE DEF Iterates
  <2>. QED  BY <1>4
<1>6. SumsUp(it, K, f)
  <2>. HIDE DEF it
  <2>1. ASSUME NEW s \in SUBSET K
        PROVE  it[s] = IF s = {} THEN 0 ELSE f[CHOOSE x \in s : TRUE] + it[s \ {CHOOSE x \in s : TRUE}]
    <3>1. it[s] = IF s = {} THEN 0 ELSE RecordOf(map, CHOOSE x \in s : TRUE)[tag] + it[s \ {CHOOSE x \in s : TRUE}]
      BY <1>5
    <3>2. s # {} => f[CHOOSE x \in s : TRUE] = RecordOf(map, CHOOSE x \in s : TRUE)[tag]
      BY <1>2
    <3>. HIDE DEF f
    <3>. QED  BY <3>1, <3>2
  <2>. HIDE DEF f
  <2>. QED  BY <2>1 DEF SumsUp
<1>. HIDE DEF it
<1>. QED  BY <1>1, <1>3, <1>6, SumIsUnique

(* The total over records is their sum.                                       *)
LEMMA TotalOfRecords ==
  ASSUME NEW map, NEW tag, NEW R, IsFiniteSet(R), \A p \in R : map[p][tag] \in Nat,
         NEW T, Additive(T, R, [p \in R |-> map[p][tag]])
  PROVE  TotalUsed(map, tag, R) = T[R]
<1>. DEFINE f == [p \in R |-> map[p][tag]]
            Iterates(g) == g = [s \in SUBSET R |->
                IF s = {} THEN 0 ELSE map[CHOOSE x \in s : TRUE][tag] + g[s \ {CHOOSE x \in s : TRUE}]]
            it == CHOOSE g : Iterates(g)
<1>1. TotalUsed(map, tag, R) = it[R]
  BY Zenon DEF TotalUsed, MapThenSumSet, MapThenFoldSet
<1>2. ASSUME NEW s \in SUBSET R, s # {}
      PROVE  (CHOOSE x \in s : TRUE) \in s
  BY <1>2
<1>3. f \in [R -> Nat]
  OBVIOUS
<1>4. Iterates(T)
  <2>1. ASSUME NEW s \in SUBSET R
        PROVE  T[s] = IF s = {} THEN 0 ELSE map[CHOOSE x \in s : TRUE][tag] + T[s \ {CHOOSE x \in s : TRUE}]
    <3>1. CASE s = {}
      BY <3>1 DEF Additive
    <3>2. CASE s # {}
      <4>. DEFINE x == CHOOSE x \in s : TRUE
      <4>1. x \in s
        BY <3>2
      <4>. HIDE DEF x
      <4>2. T[s] = f[x] + T[s \ {x}] /\ f[x] = map[x][tag]
        BY <4>1 DEF Additive
      <4>. HIDE DEF f
      <4>. QED  BY <3>2, <4>2 DEF x
    <3>. QED  BY <3>1, <3>2
  <2>2. T \in [SUBSET R -> Nat]
    BY DEF Additive
  <2>. QED  BY <2>1, <2>2
<1>5. Iterates(it)
  <2>. HIDE DEF Iterates
  <2>. QED  BY <1>4
<1>6. SumsUp(it, R, f)
  <2>. HIDE DEF it
  <2>1. ASSUME NEW s \in SUBSET R
        PROVE  it[s] = IF s = {} THEN 0 ELSE f[CHOOSE x \in s : TRUE] + it[s \ {CHOOSE x \in s : TRUE}]
    <3>1. it[s] = IF s = {} THEN 0 ELSE map[CHOOSE x \in s : TRUE][tag] + it[s \ {CHOOSE x \in s : TRUE}]
      BY <1>5
    <3>2. s # {} => f[CHOOSE x \in s : TRUE] = map[CHOOSE x \in s : TRUE][tag]
      BY <1>2
    <3>. HIDE DEF f
    <3>. QED  BY <3>1, <3>2
  <2>. HIDE DEF f
  <2>. QED  BY <2>1 DEF SumsUp
<1>. HIDE DEF it
<1>. QED  BY <1>1, <1>3, <1>6, SumIsUnique

-----------------------------------------------------------------------------
(* Coverage scores.                                                           *)

(* What a report is after it was parsed: finitely many paths, that name a     *)
(* file, each with counts that are naturals and a table of hits.              *)
ParsedMap(map) ==
    /\ IsFiniteSet(DOMAIN map)
    /\ \A p \in DOMAIN map :
          /\ p.key # None
          /\ \A tag \in CountTags : map[p][tag] \in Nat
          /\ \A l \in DOMAIN map[p].da : map[p].da[l] \in Nat

RecordsOf(map, k) == {p \in DOMAIN map : p.form # "foreign" /\ p.key = k}

(* A set of one element is a finite one of cardinality 1.                     *)
LEMMA SingletonOf ==
  ASSUME NEW S
  PROVE  (\E x : S = {x}) <=> (IsFiniteSet(S) /\ Cardinality(S) = 1)
BY FS_Singleton

(* A name that resolves has one record, the one that is used.                 *)
LEMMA Resolved ==
  ASSUME NEW map, ParsedMap(map), NEW k
  PROVE  /\ k # None => Candidates(map, k) = RecordsOf(map, k)
         /\ Resolves(map, k) <=> (k # None /\ \E p : RecordsOf(map, k) = {p})
         /\ \A p : (k # None /\ RecordsOf(map, k) = {p}) => RecordOf(map, k) = map[p] /\ p \in DOMAIN map
<1>1. k # None => Candidates(map, k) = RecordsOf(map, k)
  BY DEF Candidates, RecordsOf, RepositoryKey
<1>2. IsFiniteSet(RecordsOf(map, k))
  <2>1. RecordsOf(map, k) \in SUBSET DOMAIN map
    BY DEF RecordsOf
  <2>. QED  BY <2>1, FS_Subset DEF ParsedMap
<1>3. Resolves(map, k) <=> (k # None /\ \E p : RecordsOf(map, k) = {p})
  BY <1>1, <1>2, SingletonOf DEF Resolves
<1>4. ASSUME NEW p, k # None, RecordsOf(map, k) = {p}
      PROVE  RecordOf(map, k) = map[p] /\ p \in DOMAIN map
  <2>1. Candidates(map, k) = {p}
    BY <1>1, <1>4
  <2>2. (CHOOSE q \in {p} : TRUE) = p
    OBVIOUS
  <2>3. p \in DOMAIN map
    BY <1>4 DEF RecordsOf
  <2>. QED  BY <2>1, <2>2, <2>3 DEF RecordOf
<1>. QED  BY <1>1, <1>3, <1>4

(* The sums of the keys found are those of the records used for them.         *)
LEMMA TotalsAreOfRecords ==
  ASSUME NEW map, ParsedMap(map), NEW keys, \A k \in keys : Resolves(map, k),
         NEW used \in SUBSET DOMAIN map,
         \A k \in keys : \E p \in used : RecordsOf(map, k) = {p},
         \A p \in used : p.key \in keys /\ RecordsOf(map, p.key) = {p},
         NEW tag \in CountTags
  PROVE  /\ CoverageTotals(map, keys)[tag] = TotalUsed(map, tag, used)
         /\ TotalUsed(map, tag, used) \in Nat
<1>. DEFINE f == [p \in used |-> map[p][tag]]
            g == [k \in keys |-> RecordOf(map, k)[tag]]
            key == [p \in used |-> p.key]
<1>1. IsFiniteSet(used)
  BY FS_Subset DEF ParsedMap
<1>2. \A p \in used : map[p][tag] \in Nat
  BY DEF ParsedMap
<1>3. ASSUME NEW k \in keys
      PROVE  \E p \in used : p.key = k /\ RecordOf(map, k) = map[p]
  <2>1. PICK p \in used : RecordsOf(map, k) = {p}
    OBVIOUS
  <2>2. k # None
    BY Resolved
  <2>3. p.key = k
    BY <2>1 DEF RecordsOf
  <2>. QED  BY <2>1, <2>2, <2>3, Resolved
<1>4. ASSUME NEW p \in used
      PROVE  p.key \in keys /\ RecordOf(map, p.key) = map[p]
  <2>1. p.key \in keys /\ RecordsOf(map, p.key) = {p} /\ p.key # None
    BY DEF ParsedMap
  <2>. QED  BY <2>1, Resolved
<1>5. \A p, q \in used : p.key = q.key => p = q
  OBVIOUS
<1>6. key \in [used -> keys] /\ f \in [used -> Nat]
  BY <1>2, <1>4
<1>7. PICK T : Additive(T, used, f)
  <2>. HIDE DEF f
  <2>. QED  BY <1>1, <1>6, SumExists
<1>8. \A k \in keys : \E p \in used : key[p] = k
  BY <1>3
<1>9. \A p, q \in used : key[p] = key[q] => p = q
  BY <1>5
<1>10. \A p \in used : g[key[p]] = f[p]
  BY <1>4
<1>11. PICK V : Additive(V, keys, g) /\ V[keys] = T[used]
  <2>1. Correspond(key, used, f, keys, g)
    <3>. HIDE DEF f, g, key
    <3>. QED  BY <1>6, <1>8, <1>9, <1>10 DEF Correspond
  <2>. HIDE DEF f, g, key
  <2>. QED  BY <1>7, <2>1, SumsCorrespond
<1>12. IsFiniteSet(keys)
  <2>1. \A k \in keys : \E p \in used : key[p] = k
    BY <1>8
  <2>. HIDE DEF key, f, g
  <2>. QED  BY <1>1, <1>6, <2>1, ImageIsFinite
<1>13. TotalUsed(map, tag, used) = T[used]
  BY <1>1, <1>2, <1>7, TotalOfRecords
<1>14. TotalOf(map, tag, keys) = V[keys]
  <2>1. \A k \in keys : RecordOf(map, k)[tag] \in Nat
    BY <1>2, <1>3
  <2>. QED  BY <1>11, <1>12, <2>1, TotalOfKeys
<1>15. CoverageTotals(map, keys)[tag] = TotalOf(map, tag, keys)
  BY DEF CoverageTotals, TotalOf
<1>16. T[used] \in Nat
  BY <1>7 DEF Additive
<1>. QED  BY <1>11, <1>13, <1>14, <1>15, <1>16

-----------------------------------------------------------------------------
(* Floors are percentages; None is none.                                      *)
LcovFloors(floors) ==
    /\ None \notin Nat
    /\ floors.lines \in Nat \cup {None} /\ floors.functions \in Nat \cup {None}
    /\ floors.branches \in Nat \cup {None}

(* A floor above zero that is not missed is reached by something found.       *)
LEMMA ReachedFloor ==
  ASSUME NEW hit \in Nat, NEW found \in Nat, NEW floor \in Nat, floor # None, floor > 0,
         ~Below(hit, found, floor)
  PROVE  found > 0 /\ hit * 100 >= floor * found
<1>1. found # 0
  BY DEF Below
<1>2. ~(hit * 100 < floor * found)
  BY <1>1 DEF Below
<1>3. hit * 100 \in Nat /\ floor * found \in Nat
  OBVIOUS
<1>4. \A a, b \in Nat : ~(a < b) => a >= b
  OBVIOUS
<1>. QED  BY <1>1, <1>2, <1>3, <1>4

(* Without violations every required name resolves, and the floors, the       *)
(* critical files and the changed lines are all there.                        *)
LEMMA CleanScore ==
  ASSUME NEW map, NEW keys, NEW floors, FloorViolations(map, keys, floors) = {}
  PROVE  /\ ~Below(CoverageTotals(map, keys)["LH"], CoverageTotals(map, keys)["LF"], floors.lines)
         /\ ~Below(CoverageTotals(map, keys)["FNH"], CoverageTotals(map, keys)["FNF"], floors.functions)
         /\ ~Below(CoverageTotals(map, keys)["BRH"], CoverageTotals(map, keys)["BRF"], floors.branches)
<1>. DEFINE sum == CoverageTotals(map, keys)
            over == \E tag \in CountTags : sum[tag] > MaxLines
            lines == Below(sum["LH"], sum["LF"], floors.lines)
            functions == Below(sum["FNH"], sum["FNF"], floors.functions)
            branches == Below(sum["BRH"], sum["BRF"], floors.branches)
            violations == FloorViolations(map, keys, floors)
<1>1. ~over
  <2>1. over => <<"Count Overflow", None>> \in violations
    BY DEF FloorViolations
  <2>. HIDE DEF over, violations
  <2>. QED  BY <2>1 DEF violations
<1>2. ~over => /\ lines => <<"Line Coverage", None>> \in violations
               /\ functions => <<"Function Coverage", None>> \in violations
               /\ branches => <<"Branch Coverage", None>> \in violations
  BY DEF FloorViolations
<1>. HIDE DEF over, violations, lines, functions, branches
<1>. QED  BY <1>1, <1>2 DEF violations, lines, functions, branches

(* A critical file without a violation has one record, hit as a whole.        *)
LEMMA CriticalIsWhole ==
  ASSUME NEW map, ParsedMap(map), NEW critical, CriticalViolations(map, critical) = {}, None \notin Nat,
         NEW c \in critical
  PROVE  \E p \in RecordsOf(map, c) : RecordsOf(map, c) = {p} /\ map[p].LF > 0 /\ map[p].LH >= map[p].LF
<1>1. Resolves(map, c)
  <2>1. ~Resolves(map, c) => <<"Missing Critical Path", c>> \in CriticalViolations(map, critical)
    BY DEF CriticalViolations
  <2>. QED  BY <2>1
<1>2. ~Below(RecordOf(map, c).LH, RecordOf(map, c).LF, 100)
  <2>1. Resolves(map, c) /\ Below(RecordOf(map, c).LH, RecordOf(map, c).LF, 100)
          => <<"Critical Path", c>> \in CriticalViolations(map, critical)
    BY DEF CriticalViolations
  <2>. QED  BY <1>1, <2>1
<1>3. PICK p : RecordsOf(map, c) = {p} /\ RecordOf(map, c) = map[p] /\ p \in DOMAIN map
  BY <1>1, Resolved
<1>4. map[p].LF \in Nat /\ map[p].LH \in Nat
  <2>1. map[p]["LF"] \in Nat /\ map[p]["LH"] \in Nat
    BY <1>3 DEF ParsedMap, CountTags
  <2>. QED  BY <2>1
<1>5. 100 \in Nat /\ 100 # None /\ 100 > 0
  OBVIOUS
<1>. DEFINE hit == map[p].LH
            found == map[p].LF
<1>6. found > 0 /\ hit * 100 >= 100 * found
  <2>1. hit \in Nat /\ found \in Nat /\ ~Below(hit, found, 100)
    BY <1>2, <1>3, <1>4
  <2>. HIDE DEF hit, found
  <2>. QED  BY <1>5, <2>1, ReachedFloor
<1>7. hit >= found
  <2>1. hit \in Nat /\ found \in Nat
    BY <1>4
  <2>. HIDE DEF hit, found
  <2>. QED  BY <1>6, <2>1
<1>. QED  BY <1>3, <1>6, <1>7

(* A changed file without a violation has one record, and its lines ran.      *)
LEMMA ChangedLinesRan ==
  ASSUME NEW map, ParsedMap(map), NEW changed, EvaluateDiff(map, changed) = {}, NEW k \in DOMAIN changed
  PROVE  \E p \in RecordsOf(map, k) :
            RecordsOf(map, k) = {p} /\ \A l \in changed[k] : l \in DOMAIN map[p].da /\ map[p].da[l] > 0
<1>1. Resolves(map, k) /\ changed[k] \subseteq DOMAIN RecordOf(map, k).da
  <2>1. ~Resolves(map, k) \/ ~(changed[k] \subseteq DOMAIN RecordOf(map, k).da)
          => <<"Missing Diff", k>> \in EvaluateDiff(map, changed)
    BY DEF EvaluateDiff
  <2>. QED  BY <2>1
<1>2. \A l \in changed[k] \cap DOMAIN RecordOf(map, k).da : RecordOf(map, k).da[l] # 0
  <2>1. (Resolves(map, k) /\ \E l \in changed[k] \cap DOMAIN RecordOf(map, k).da : RecordOf(map, k).da[l] = 0)
          => <<"Diff Line", k>> \in EvaluateDiff(map, changed)
    BY DEF EvaluateDiff
  <2>. QED  BY <1>1, <2>1
<1>3. PICK p : RecordsOf(map, k) = {p} /\ RecordOf(map, k) = map[p] /\ p \in DOMAIN map
  BY <1>1, Resolved
<1>4. ASSUME NEW l \in changed[k]
      PROVE  l \in DOMAIN map[p].da /\ map[p].da[l] > 0
  <2>1. l \in DOMAIN map[p].da /\ map[p].da[l] # 0
    BY <1>1, <1>2, <1>3
  <2>2. map[p].da[l] \in Nat
    BY <1>3, <2>1 DEF ParsedMap
  <2>. QED  BY <2>1, <2>2
<1>. QED  BY <1>3, <1>4

(* ScoreIsEarned, for every inventory, floor, critical file and change.       *)
LEMMA EveryScoreIsEarned ==
  ASSUME NEW map, ParsedMap(map), NEW sources, NEW functionFiles, NEW floors, LcovFloors(floors),
         NEW critical, NEW changed
  PROVE  ScoreIsEarned(map, sources, functionFiles, floors, critical, changed)
<1>. DEFINE required == IF sources = None THEN functionFiles ELSE {s.key : s \in sources}
            used == IF sources = None THEN {p \in DOMAIN map : RecordsOf(map, p.key) = {p}}
                    ELSE UNION {RecordsOf(map, k) : k \in required}
            keys == {RepositoryKey(s) : s \in sources} \ {None}
            found == IF sources = None THEN {k \in {RepositoryKey(p) : p \in DOMAIN map} : Resolves(map, k)}
                     ELSE {k \in keys : Resolves(map, k)}
            violations == IF sources = None THEN EvaluateReported(map, functionFiles, floors, critical)
                          ELSE Evaluate(map, sources, floors, critical)
            sum(tag) == MapThenSumSet(LAMBDA p : map[p][tag], used)
            reached(hit, floored, floor) ==
                (floor # None /\ floor > 0) => sum(floored) > 0 /\ sum(hit) * 100 >= floor * sum(floored)
<1>. SUFFICES ASSUME violations = {}, EvaluateDiff(map, changed) = {}
     PROVE  /\ \A k \in required : Cardinality(RecordsOf(map, k)) = 1
            /\ sources # None => \A s \in sources : s.form # "foreign"
            /\ reached("LH", "LF", floors.lines)
            /\ reached("FNH", "FNF", floors.functions) /\ reached("BRH", "BRF", floors.branches)
            /\ \A c \in critical : \E p \in RecordsOf(map, c) :
                 RecordsOf(map, c) = {p} /\ map[p].LF > 0 /\ map[p].LH >= map[p].LF
            /\ \A k \in DOMAIN changed : \E p \in RecordsOf(map, k) :
                 RecordsOf(map, k) = {p} /\ \A l \in changed[k] : l \in DOMAIN map[p].da /\ map[p].da[l] > 0
  BY DEF ScoreIsEarned, RecordsOf
<1>1. FloorViolations(map, found, floors) = {} /\ CriticalViolations(map, critical) = {}
  <2>1. CASE sources = None
    BY <2>1 DEF EvaluateReported
  <2>2. CASE sources # None
    BY <2>2 DEF Evaluate
  <2>. QED  BY <2>1, <2>2
<1>2. ASSUME sources # None, NEW s \in sources
      PROVE  /\ s.form # "foreign" /\ RepositoryKey(s) = s.key /\ s.key \in found
  <2>1. RepositoryKey(s) # None
    <3>1. RepositoryKey(s) = None => <<"Missing Source", s>> \in violations
      BY <1>2 DEF Evaluate
    <3>. HIDE DEF violations
    <3>. QED  BY <3>1
  <2>2. s.form # "foreign" /\ RepositoryKey(s) = s.key
    BY <2>1 DEF RepositoryKey
  <2>3. s.key \in keys
    BY <2>1, <2>2
  <2>4. s.key \notin found => <<"Missing Source", s.key>> \in violations
    <3>. DEFINE missing == {<<"Missing Source", k>> : k \in keys \ {k \in keys : Resolves(map, k)}}
    <3>1. missing \subseteq violations
      BY <1>2 DEF Evaluate
    <3>2. s.key \notin found => ~Resolves(map, s.key)
      BY <1>2, <2>3
    <3>. HIDE DEF violations, keys, found
    <3>. QED  BY <2>3, <3>1, <3>2
  <2>5. s.key \in found
    <3>. HIDE DEF violations, found
    <3>. QED  BY <2>4
  <2>. QED  BY <2>2, <2>5
<1>3. ASSUME NEW k \in required
      PROVE  Resolves(map, k)
  <2>1. CASE sources = None
    <3>1. ~Resolves(map, k) => <<"Missing Source", k>> \in violations
      BY <2>1 DEF EvaluateReported
    <3>. HIDE DEF violations
    <3>. QED  BY <3>1
  <2>2. CASE sources # None
    <3>1. PICK s \in sources : k = s.key
      BY <2>2
    <3>2. s.key \in found
      BY <1>2, <2>2
    <3>. QED  BY <2>2, <3>1, <3>2
  <2>. QED  BY <2>1, <2>2
<1>4. \A k \in required : Cardinality(RecordsOf(map, k)) = 1
  <2>. HIDE DEF required
  <2>1. ASSUME NEW k \in required  PROVE Cardinality(RecordsOf(map, k)) = 1
    <3>1. \E p : RecordsOf(map, k) = {p}
      BY <1>3, Resolved
    <3>. QED  BY <3>1, SingletonOf
  <2>. QED  BY <2>1
<1>5. sources # None => \A s \in sources : s.form # "foreign"
  BY <1>2
<1>6. /\ used \in SUBSET DOMAIN map /\ \A k \in found : Resolves(map, k)
      /\ \A k \in found : \E p \in used : RecordsOf(map, k) = {p}
      /\ \A p \in used : p.key \in found /\ RecordsOf(map, p.key) = {p}
  <2>1. \A k \in found : Resolves(map, k)
    OBVIOUS
  <2>2. CASE sources = None
    <3>1. used = {p \in DOMAIN map : RecordsOf(map, p.key) = {p}}
          /\ found = {k \in {RepositoryKey(p) : p \in DOMAIN map} : Resolves(map, k)}
      BY <2>2
    <3>. HIDE DEF used, found
    <3>2. ASSUME NEW k \in found  PROVE \E p \in used : RecordsOf(map, k) = {p}
      <4>1. PICK p : RecordsOf(map, k) = {p}
        BY <2>1, Resolved
      <4>2. p \in DOMAIN map /\ p.key = k
        BY <4>1 DEF RecordsOf
      <4>. QED  BY <3>1, <4>1, <4>2
    <3>3. ASSUME NEW p \in used  PROVE p.key \in found /\ RecordsOf(map, p.key) = {p}
      <4>1. p \in DOMAIN map /\ RecordsOf(map, p.key) = {p}
        BY <3>1
      <4>2. p.form # "foreign" /\ p.key # None
        BY <4>1 DEF RecordsOf, ParsedMap
      <4>3. RepositoryKey(p) = p.key
        BY <4>2 DEF RepositoryKey
      <4>4. Resolves(map, p.key)
        BY <4>1, <4>2, Resolved
      <4>. QED  BY <3>1, <4>1, <4>3, <4>4
    <3>4. used \in SUBSET DOMAIN map
      BY <3>1
    <3>. QED  BY <2>1, <3>2, <3>3, <3>4
  <2>3. CASE sources # None
    <3>1. ASSUME NEW p  PROVE p \in used <=> \E k \in required : p \in RecordsOf(map, k)
      <4>. HIDE DEF required
      <4>. QED  BY <2>3
    <3>2. \A k \in required : k \in found
      BY <1>2, <2>3
    <3>3. \A k \in found : k \in required
      <4>1. \A s \in sources : RepositoryKey(s) = s.key
        BY <1>2, <2>3
      <4>. QED  BY <2>3, <4>1
    <3>. HIDE DEF used, found, required
    <3>4. ASSUME NEW k \in found  PROVE \E p \in used : RecordsOf(map, k) = {p}
      <4>1. PICK p : RecordsOf(map, k) = {p}
        BY <2>1, Resolved
      <4>. QED  BY <3>1, <3>3, <4>1
    <3>5. ASSUME NEW p \in used  PROVE p.key \in found /\ RecordsOf(map, p.key) = {p} /\ p \in DOMAIN map
      <4>1. PICK k \in required : p \in RecordsOf(map, k)
        BY <3>1
      <4>2. p.key = k /\ p \in DOMAIN map
        BY <4>1 DEF RecordsOf
      <4>3. PICK q : RecordsOf(map, k) = {q}
        BY <2>1, <3>2, Resolved
      <4>. QED  BY <3>2, <4>1, <4>2, <4>3
    <3>. QED  BY <2>1, <3>4, <3>5
  <2>. HIDE DEF used, found
  <2>. QED  BY <2>2, <2>3
<1>7. ASSUME NEW hit \in CountTags, NEW floored \in CountTags, NEW floor \in Nat \cup {None},
             ~Below(CoverageTotals(map, found)[hit], CoverageTotals(map, found)[floored], floor)
      PROVE  reached(hit, floored, floor)
  <2>. HIDE DEF used, found
  <2>1. /\ CoverageTotals(map, found)[hit] = TotalUsed(map, hit, used) /\ TotalUsed(map, hit, used) \in Nat
        /\ CoverageTotals(map, found)[floored] = TotalUsed(map, floored, used)
        /\ TotalUsed(map, floored, used) \in Nat
    BY <1>6, TotalsAreOfRecords
  <2>2. sum(hit) = TotalUsed(map, hit, used) /\ sum(floored) = TotalUsed(map, floored, used)
    BY DEF TotalUsed
  <2>. HIDE DEF sum
  <2>3. ASSUME floor # None, floor > 0
        PROVE  sum(floored) > 0 /\ sum(hit) * 100 >= floor * sum(floored)
    BY <1>7, <2>1, <2>2, <2>3, ReachedFloor
  <2>. QED  BY <2>3
<1>8. /\ reached("LH", "LF", floors.lines)
      /\ reached("FNH", "FNF", floors.functions) /\ reached("BRH", "BRF", floors.branches)
  <2>1. {"LF", "LH", "FNF", "FNH", "BRF", "BRH"} \subseteq CountTags
    BY DEF CountTags
  <2>2. /\ floors.lines \in Nat \cup {None} /\ floors.functions \in Nat \cup {None}
        /\ floors.branches \in Nat \cup {None}
    BY DEF LcovFloors
  <2>. HIDE DEF reached, found
  <2>. QED  BY <1>1, <1>7, <2>1, <2>2, CleanScore
<1>9. \A c \in critical : \E p \in RecordsOf(map, c) :
         RecordsOf(map, c) = {p} /\ map[p].LF > 0 /\ map[p].LH >= map[p].LF
  BY <1>1, CriticalIsWhole DEF LcovFloors
<1>10. \A k \in DOMAIN changed : \E p \in RecordsOf(map, k) :
         RecordsOf(map, k) = {p} /\ \A l \in changed[k] : l \in DOMAIN map[p].da /\ map[p].da[l] > 0
  BY ChangedLinesRan
<1>. HIDE DEF required, used, found, violations, reached
<1>. QED  BY <1>4, <1>5, <1>8, <1>9, <1>10

(* Coverage that passes was earned (CoverageScoreIsEarned), for reports of    *)
(* any size and floors and changes of any kind.                               *)
THEOREM EveryCoverageScoreIsEarned ==
  ASSUME Is("coverage") => ParsedMap(case.map) /\ LcovFloors(case.floors)
  PROVE  CoverageScoreIsEarned
BY EveryScoreIsEarned DEF CoverageScoreIsEarned

-----------------------------------------------------------------------------
(* The change set of the ratchet. A file has lines 1 .. n; a path that does   *)
(* not exist has none.                                                        *)
Text(content) == \E n \in Nat : Lines(content) = 1 .. n

Common(K, old, new) ==
    \E f \in [K -> Lines(old)] : \A i, j \in K : old[f[i]] = new[i] /\ (i < j => f[i] < f[j])

(* The lines of a file are finitely many naturals.                            *)
LEMMA LinesAreFinite ==
  ASSUME NEW content, Text(content)
  PROVE  IsFiniteSet(Lines(content)) /\ Lines(content) \in SUBSET Nat
BY FS_Interval DEF Text

(* Of a finite set, some subset with a property is largest if one has it.     *)
LEMMA LargestSubset ==
  ASSUME NEW S, IsFiniteSet(S), NEW C \in SUBSET SUBSET S, C # {}
  PROVE  \E K \in C : \A L \in C : Cardinality(L) <= Cardinality(K)
<1>. DEFINE sizes == {Cardinality(S) - Cardinality(K) : K \in C}
<1>1. \A K \in C : /\ Cardinality(K) \in Nat /\ Cardinality(S) \in Nat
                   /\ Cardinality(S) - Cardinality(K) \in Nat
  <2>1. ASSUME NEW K \in C
        PROVE  /\ Cardinality(K) \in Nat /\ Cardinality(S) \in Nat
               /\ Cardinality(S) - Cardinality(K) \in Nat
    <3>1. Cardinality(K) \in Nat /\ Cardinality(S) \in Nat /\ Cardinality(K) <= Cardinality(S)
      <4>1. K \in SUBSET S
        OBVIOUS
      <4>. QED  BY <4>1, FewerInPart
    <3>. QED  BY <3>1
  <2>. QED  BY <2>1
<1>2. sizes \in SUBSET Nat /\ sizes # {}
  BY <1>1
<1>3. PICK m \in sizes : \A x \in sizes : m <= x
  <2>. HIDE DEF sizes
  <2>. QED  BY <1>2, LeastNatural
<1>4. PICK K \in C : m = Cardinality(S) - Cardinality(K)
  OBVIOUS
<1>5. ASSUME NEW L \in C  PROVE Cardinality(L) <= Cardinality(K)
  <2>1. Cardinality(S) - Cardinality(K) <= Cardinality(S) - Cardinality(L)
    BY <1>3, <1>4
  <2>. QED  BY <1>1, <2>1
<1>. QED  BY <1>5

(* What Git keeps of a file is a common subsequence, and one of the longest.  *)
LEMMA KeptIsCommon ==
  ASSUME NEW old, NEW new, Text(new)
  PROVE  /\ Kept(old, new) \in SUBSET Lines(new) /\ Common(Kept(old, new), old, new)
         /\ \A L \in SUBSET Lines(new) : Common(L, old, new) => Cardinality(L) <= Cardinality(Kept(old, new))
<1>. DEFINE C == {K \in SUBSET Lines(new) : Common(K, old, new)}
            largest(K) == K \in C /\ \A L \in C : Cardinality(L) <= Cardinality(K)
<1>1. Kept(old, new) = CHOOSE K \in C : \A L \in C : Cardinality(L) <= Cardinality(K)
  BY DEF Kept, Common
<1>2. {} \in C
  <2>1. << >> \in [{} -> Lines(old)]
    OBVIOUS
  <2>2. Common({}, old, new)
    BY <2>1 DEF Common
  <2>. QED  BY <2>2
<1>3. \E K \in C : \A L \in C : Cardinality(L) <= Cardinality(K)
  <2>1. C \in SUBSET SUBSET Lines(new) /\ C # {} /\ IsFiniteSet(Lines(new))
    BY <1>2, LinesAreFinite
  <2>. HIDE DEF C
  <2>. QED  BY <2>1, LargestSubset
<1>4. largest(Kept(old, new))
  <2>. HIDE DEF C
  <2>. QED  BY <1>1, <1>3
<1>. QED  BY <1>4

(* A file that did not change keeps all its lines.                            *)
LEMMA AllKept ==
  ASSUME NEW content, Text(content)
  PROVE  Kept(content, content) = Lines(content)
<1>. DEFINE S == Lines(content)
            K == Kept(content, content)
<1>1. IsFiniteSet(S)
  BY LinesAreFinite
<1>2. Common(S, content, content)
  <2>1. [i \in S |-> i] \in [S -> S]
    OBVIOUS
  <2>2. \A i, j \in S : content[[x \in S |-> x][i]] = content[i] /\ (i < j => [x \in S |-> x][i] < [x \in S |-> x][j])
    OBVIOUS
  <2>. QED  BY <2>1, <2>2 DEF Common
<1>3. K \in SUBSET S /\ Cardinality(S) <= Cardinality(K)
  BY <1>2, KeptIsCommon
<1>. HIDE DEF S, K
<1>4. Cardinality(K) <= Cardinality(S) /\ Cardinality(K) \in Nat /\ Cardinality(S) \in Nat
  BY <1>1, <1>3, FewerInPart
<1>5. Cardinality(K) = Cardinality(S)
  BY <1>3, <1>4
<1>6. K = S
  BY <1>1, <1>3, <1>5, FS_Subset
<1>. QED  BY <1>6 DEF S, K

-----------------------------------------------------------------------------
(* The hunks of a diff cover every added line.                                *)
LEMMA RunOf ==
  ASSUME NEW n \in Nat, NEW added \in SUBSET (1 .. n), NEW x \in added
  PROVE  \E lo, hi \in added : /\ lo <= x /\ x <= hi /\ lo .. hi \subseteq added
                               /\ lo - 1 \notin added /\ hi + 1 \notin added
<1>. DEFINE lows == {a \in added : a .. x \subseteq added /\ a <= x}
            highs == {b \in added : x .. b \subseteq added /\ x <= b}
<1>1. /\ x \in Nat /\ x .. x = {x} /\ lows \in SUBSET Nat /\ highs \in SUBSET (1 .. n)
      /\ x \in lows /\ x \in highs
  <2>1. x \in Nat /\ added \in SUBSET Nat
    OBVIOUS
  <2>2. x .. x = {x}
    BY <2>1
  <2>3. lows \in SUBSET Nat /\ highs \in SUBSET (1 .. n)
    BY <2>1
  <2>4. x \in lows /\ x \in highs
    BY <2>1, <2>2
  <2>. QED  BY <2>1, <2>2, <2>3, <2>4
<1>2. PICK lo \in lows : \A a \in lows : lo <= a
  <2>. HIDE DEF lows
  <2>. QED  BY <1>1, LeastNatural
<1>3. PICK hi \in highs : \A b \in highs : hi >= b
  <2>. HIDE DEF highs
  <2>. QED  BY <1>1, Greatest
<1>4. lo \in Nat /\ hi \in Nat /\ lo \in added /\ hi \in added
  OBVIOUS
<1>5. lo .. hi \subseteq added
  <2>1. \A y \in lo .. hi : y \in lo .. x \/ y \in x .. hi
    BY <1>4
  <2>. QED  BY <2>1
<1>6. lo - 1 \notin added
  <2>. SUFFICES ASSUME lo - 1 \in added  PROVE FALSE
    OBVIOUS
  <2>1. \A y \in (lo - 1) .. x : y = lo - 1 \/ y \in lo .. x
    BY <1>4
  <2>2. lo - 1 \in lows
    BY <2>1, <1>4
  <2>. QED  BY <1>2, <1>4, <2>2
<1>7. hi + 1 \notin added
  <2>. SUFFICES ASSUME hi + 1 \in added  PROVE FALSE
    OBVIOUS
  <2>1. \A y \in x .. (hi + 1) : y = hi + 1 \/ y \in x .. hi
    BY <1>4
  <2>2. hi + 1 \in highs
    BY <2>1, <1>4
  <2>. QED  BY <1>3, <1>4, <2>2
<1>. QED  BY <1>5, <1>6, <1>7

(* Every added line is in a hunk, and without one there is no hunk.           *)
LEMMA HunksCover ==
  ASSUME NEW old, NEW new, Text(new)
  PROVE  /\ IsFiniteSet(Hunks(old, new))
         /\ \A x \in Lines(new) \ Kept(old, new) : \E h \in Hunks(old, new) :
               h[2] # 0 /\ x \in h[1] .. h[1] + h[2] - 1
         /\ Lines(new) \ Kept(old, new) = {} => Hunks(old, new) = {}
<1>. DEFINE added == Lines(new) \ Kept(old, new)
            ranges == {r \in added \X added : /\ r[1] <= r[2] /\ r[1] .. r[2] \subseteq added
                                             /\ r[1] - 1 \notin added /\ r[2] + 1 \notin added}
            hunks == {<<r[1], r[2] - r[1] + 1>> : r \in ranges}
<1>1. Hunks(old, new) = hunks
  BY DEF Hunks
<1>2. PICK n \in Nat : Lines(new) = 1 .. n
  BY DEF Text
<1>3. IsFiniteSet(added) /\ added \in SUBSET (1 .. n)
  <2>1. added \in SUBSET Lines(new)
    OBVIOUS
  <2>. HIDE DEF added
  <2>. QED  BY <1>2, <2>1, LinesAreFinite, FS_Subset
<1>. HIDE DEF added
<1>4. IsFiniteSet(hunks)
  <2>1. IsFiniteSet(added \X added)
    BY <1>3, FS_Product
  <2>2. ranges \in SUBSET (added \X added)
    OBVIOUS
  <2>. DEFINE f == [r \in ranges |-> <<r[1], r[2] - r[1] + 1>>]
  <2>3. f \in [ranges -> hunks]
    OBVIOUS
  <2>4. \A h \in hunks : \E r \in ranges : f[r] = h
    OBVIOUS
  <2>. HIDE DEF f, ranges, hunks
  <2>5. IsFiniteSet(ranges)
    BY <2>1, <2>2, FS_Subset
  <2>. QED  BY <2>3, <2>4, <2>5, ImageIsFinite
<1>5. ASSUME NEW x \in added
      PROVE  \E h \in hunks : h[2] # 0 /\ x \in h[1] .. h[1] + h[2] - 1
  <2>1. PICK lo \in added, hi \in added :
           /\ lo <= x /\ x <= hi /\ lo .. hi \subseteq added /\ lo - 1 \notin added /\ hi + 1 \notin added
    BY <1>3, RunOf
  <2>2. lo \in Nat /\ hi \in Nat /\ x \in Nat
    BY <1>3
  <2>3. <<lo, hi>> \in ranges
    BY <2>1, <2>2
  <2>. DEFINE h == <<lo, hi - lo + 1>>
  <2>4. h \in hunks
    BY <2>3
  <2>5. h[1] = lo /\ h[2] = hi - lo + 1
    OBVIOUS
  <2>. HIDE DEF h, hunks
  <2>6. h[2] # 0 /\ x \in h[1] .. h[1] + h[2] - 1
    BY <2>1, <2>2, <2>5
  <2>. QED  BY <2>4, <2>6
<1>6. added = {} => hunks = {}
  OBVIOUS
<1>. HIDE DEF hunks
<1>. QED  BY <1>1, <1>4, <1>5, <1>6 DEF added

-----------------------------------------------------------------------------
AddedBy(hunks) == FoldSet(LAMBDA h, lines : AddHunkLines(lines, h), {}, hunks)

(* The lines of a diff are those of all its hunks, in whatever order they are *)
(* added.                                                                     *)
LEMMA HunksAddUp ==
  ASSUME NEW H, IsFiniteSet(H)
  PROVE  /\ \A h \in H : h[2] # 0 => h[1] .. h[1] + h[2] - 1 \subseteq AddedBy(H)
         /\ H = {} => AddedBy(H) = {}
<1>. DEFINE first(s) == CHOOSE x \in s : TRUE
            span(h) == IF h[2] = 0 THEN {} ELSE h[1] .. h[1] + h[2] - 1
            Iterates(g) == g = [s \in SUBSET H |->
                                  IF s = {} THEN {} ELSE AddHunkLines(g[s \ {first(s)}], first(s))]
            it == CHOOSE g : Iterates(g)
            T == [s \in SUBSET H |-> UNION {span(h) : h \in s}]
            Has(R) == \A h \in R : h[2] # 0 => h[1] .. h[1] + h[2] - 1 \subseteq it[R]
            N == {n \in Nat : \A R \in SUBSET H : Cardinality(R) = n => Has(R)}
<1>1. AddedBy(H) = it[H]
  BY Zenon DEF AddedBy, FoldSet, MapThenFoldSet
<1>2. \A s \in SUBSET H : s # {} => first(s) \in s
  OBVIOUS
<1>3. \A lines, h : AddHunkLines(lines, h) = lines \cup span(h)
  BY DEF AddHunkLines
<1>. HIDE DEF first, span
<1>4. Iterates(T)
  <2>1. ASSUME NEW s \in SUBSET H
        PROVE  T[s] = IF s = {} THEN {} ELSE AddHunkLines(T[s \ {first(s)}], first(s))
    <3>1. CASE s = {}
      BY <3>1
    <3>2. CASE s # {}
      <4>. DEFINE x == first(s)
      <4>1. x \in s /\ s \ {x} \in SUBSET H
        BY <1>2, <3>2
      <4>. HIDE DEF x
      <4>2. UNION {span(h) : h \in s} = (UNION {span(h) : h \in s \ {x}}) \cup span(x)
        BY <4>1
      <4>3. T[s] = T[s \ {x}] \cup span(x)
        BY <4>1, <4>2
      <4>. HIDE DEF T
      <4>. QED  BY <1>3, <3>2, <4>3 DEF x
    <3>. QED  BY <3>1, <3>2
  <2>. HIDE DEF first
  <2>. QED  BY <2>1
<1>5. Iterates(it)
  <2>. HIDE DEF Iterates
  <2>. QED  BY <1>4
<1>. HIDE DEF it
<1>6. it[{}] = {}
  BY <1>5
<1>7. 0 \in N
  <2>1. ASSUME NEW R \in SUBSET H, Cardinality(R) = 0  PROVE R = {}
    BY <2>1, FS_Subset, FS_EmptySet
  <2>. QED  BY <2>1
<1>8. ASSUME NEW n \in Nat, n \in N  PROVE n + 1 \in N
  <2>. SUFFICES ASSUME NEW R \in SUBSET H, Cardinality(R) = n + 1  PROVE Has(R)
    OBVIOUS
  <2>. DEFINE x == first(R)
  <2>1. IsFiniteSet(R)
    BY FS_Subset
  <2>2. R # {} /\ x \in R
    BY <1>2, <2>1, FS_EmptySet
  <2>. HIDE DEF x
  <2>3. Cardinality(R \ {x}) = n
    BY <2>1, <2>2, SmallerWithout
  <2>4. Has(R \ {x})
    BY <1>8, <2>3
  <2>5. it[R] = it[R \ {x}] \cup span(x)
    BY <1>3, <1>5, <2>2 DEF x
  <2>6. ASSUME NEW h \in R, h[2] # 0  PROVE h[1] .. h[1] + h[2] - 1 \subseteq it[R]
    <3>1. CASE h = x
      BY <2>5, <2>6, <3>1 DEF span
    <3>2. CASE h # x
      BY <2>4, <2>5, <2>6, <3>2
    <3>. QED  BY <3>1, <3>2
  <2>. QED  BY <2>6
<1>9. \A n \in Nat : n \in N
  <2>. HIDE DEF N
  <2>. QED  BY <1>7, <1>8, SetInduction
<1>10. Cardinality(H) \in Nat /\ H \in SUBSET H
  BY FS_CardinalityType
<1>11. Has(H)
  <2>. HIDE DEF Has
  <2>. QED  BY <1>9, <1>10
<1>12. H = {} => it[H] = {}
  BY <1>6
<1>. QED  BY <1>1, <1>11, <1>12

-----------------------------------------------------------------------------
(* A repository: what Git tells of its inventoried paths.                     *)
Repository(repo) ==
    /\ Inventory \subseteq DOMAIN repo.work
    /\ \A p \in DOMAIN repo.work : Text(repo.base[p]) /\ Text(repo.work[p])

(* What was not reported as changed was kept from the merge base.             *)
LEMMA ChangedLines ==
  ASSUME NEW repo, Repository(repo), NEW p \in Inventory
  PROVE  LET lines == LoadReference(repo).lines[p]
         IN  /\ p \in repo.untracked => lines = Lines(repo.work[p])
             /\ p \notin repo.untracked =>
                  /\ \A x \in Lines(repo.work[p]) \ lines : x \in Kept(repo.base[p], repo.work[p])
                  /\ repo.work[p] = repo.base[p] => lines = {}
<1>. DEFINE lines == LoadReference(repo).lines[p]
            hunks == Hunks(repo.base[p], repo.work[p])
<1>1. lines = IF p \in repo.untracked THEN Lines(repo.work[p]) ELSE ParseDiff(repo)[p]
  BY DEF LoadReference, AddUntrackedLines
<1>2. ASSUME p \notin repo.untracked
      PROVE  lines = AddedBy(hunks)
  BY <1>1, <1>2 DEF ParseDiff, AddedBy
<1>3. Text(repo.work[p])
  BY DEF Repository
<1>4. /\ IsFiniteSet(hunks)
      /\ \A x \in Lines(repo.work[p]) \ Kept(repo.base[p], repo.work[p]) : \E h \in hunks :
            h[2] # 0 /\ x \in h[1] .. h[1] + h[2] - 1
      /\ Lines(repo.work[p]) \ Kept(repo.base[p], repo.work[p]) = {} => hunks = {}
  BY <1>3, HunksCover
<1>5. /\ \A h \in hunks : h[2] # 0 => h[1] .. h[1] + h[2] - 1 \subseteq AddedBy(hunks)
      /\ hunks = {} => AddedBy(hunks) = {}
  <2>. HIDE DEF hunks
  <2>. QED  BY <1>4, HunksAddUp
<1>. HIDE DEF hunks, lines
<1>6. \A x \in Lines(repo.work[p]) \ Kept(repo.base[p], repo.work[p]) : x \in AddedBy(hunks)
  BY <1>4, <1>5
<1>7. repo.work[p] = repo.base[p] => Lines(repo.work[p]) \ Kept(repo.base[p], repo.work[p]) = {}
  BY <1>3, AllKept
<1>. QED  BY <1>1, <1>2, <1>4, <1>5, <1>6, <1>7 DEF lines

(* A file whose content is not that of the merge base is changed.             *)
LEMMA ChangedFiles ==
  ASSUME NEW repo, Repository(repo), NEW p \in Inventory, repo.work[p] # repo.base[p]
  PROVE  p \in LoadReference(repo).files
<1>. DEFINE records == StatusRecords(repo)
<1>1. p \in DOMAIN repo.work
  BY DEF Repository
<1>2. CASE p \in repo.untracked
  BY <1>2 DEF LoadReference, PorcelainPaths
<1>3. CASE p \notin repo.untracked
  <2>. DEFINE tracked == [q \in DOMAIN repo.work |-> IF q \in repo.untracked THEN Absent ELSE repo.work[q]]
              differs == {q \in DOMAIN repo.work : repo.base[q] # tracked[q]}
              gone == {q \in differs : tracked[q] = Absent}
              fresh == {q \in differs : repo.base[q] = Absent}
              renames == {r \in gone \X fresh : repo.base[r[1]] = tracked[r[2]]}
              pairs == {r \in renames : r = CHOOSE s \in renames : TRUE}
              single == differs \ UNION {ToSet(r) : r \in pairs}
              marked(q) == [marker |-> IF q \in gone THEN "D" ELSE IF q \in fresh THEN "A" ELSE "M",
                            paths |-> <<q>>]
  <2>1. records = {[marker |-> "R", paths |-> r] : r \in pairs} \cup {marked(q) : q \in single}
    BY DEF StatusRecords
  <2>2. p \in differs
    BY <1>1, <1>3
  <2>. HIDE DEF differs, pairs, records
  <2>3. \E r \in records : p \in ToSet(r.paths)
    <3>1. CASE p \in single
      <4>1. marked(p) \in records
        BY <2>1, <3>1
      <4>2. marked(p).paths = <<p>> /\ p \in ToSet(<<p>>)
        BY DEF ToSet
      <4>. HIDE DEF marked
      <4>. QED  BY <4>1, <4>2
    <3>2. CASE p \notin single
      <4>1. PICK r \in pairs : p \in ToSet(r)
        BY <2>2, <3>2
      <4>2. [marker |-> "R", paths |-> r] \in records
        BY <2>1
      <4>3. [marker |-> "R", paths |-> r].paths = r
        OBVIOUS
      <4>. QED  BY <4>1, <4>2, <4>3
    <3>. QED  BY <3>1, <3>2
  <2>4. p \in ParseDiffStatus(records).paths
    BY <2>3 DEF ParseDiffStatus
  <2>. QED  BY <2>4 DEF LoadReference, records
<1>. QED  BY <1>2, <1>3

(* The lineage of a rename: its new path is inventoried, tracked, and was not *)
(* in the merge base; and there is at most one.                               *)
LEMMA LineageIsFresh ==
  ASSUME NEW repo
  PROVE  LET lineage == LoadReference(repo).lineage
         IN  /\ \A p \in DOMAIN lineage :
                  /\ p \in Inventory /\ p \notin repo.untracked /\ repo.base[p] = Absent /\ repo.work[p] # Absent
             /\ IsFiniteSet(DOMAIN lineage) /\ Cardinality(DOMAIN lineage) \in Nat
<1>. DEFINE records == StatusRecords(repo)
            lineage == LoadReference(repo).lineage
            tracked == [q \in DOMAIN repo.work |-> IF q \in repo.untracked THEN Absent ELSE repo.work[q]]
            differs == {q \in DOMAIN repo.work : repo.base[q] # tracked[q]}
            gone == {q \in differs : tracked[q] = Absent}
            fresh == {q \in differs : repo.base[q] = Absent}
            renames == {r \in gone \X fresh : repo.base[r[1]] = tracked[r[2]]}
            pair == CHOOSE s \in renames : TRUE
            pairs == {r \in renames : r = pair}
            single == differs \ UNION {ToSet(r) : r \in pairs}
            mark(q) == IF q \in gone THEN "D" ELSE IF q \in fresh THEN "A" ELSE "M"
            marked(q) == [marker |-> mark(q), paths |-> <<q>>]
<1>1. records = {[marker |-> "R", paths |-> r] : r \in pairs} \cup {marked(q) : q \in single}
  BY DEF StatusRecords
<1>2. ASSUME NEW r \in records, r.marker = "R"
      PROVE  r.paths \in renames /\ r.paths = pair
  <2>1. \A q : marked(q).marker # "R"
    <3>1. \A q : marked(q).marker = mark(q) /\ mark(q) # "R"
      OBVIOUS
    <3>. HIDE DEF marked, mark
    <3>. QED  BY <3>1
  <2>. HIDE DEF records, marked, pairs
  <2>2. PICK s \in pairs : r = [marker |-> "R", paths |-> s]
    BY <1>1, <1>2, <2>1
  <2>3. r.paths = s
    BY <2>2
  <2>. QED  BY <2>2, <2>3 DEF pairs
<1>3. \A p \in DOMAIN lineage : \E r \in records : /\ r.marker = "R" /\ ToSet(r.paths) \subseteq Inventory
                                                   /\ p = r.paths[2]
  BY DEF LoadReference, ParseDiffStatus
<1>. HIDE DEF records, lineage
<1>4. ASSUME NEW p \in DOMAIN lineage
      PROVE  /\ p \in Inventory /\ p \notin repo.untracked /\ repo.base[p] = Absent /\ repo.work[p] # Absent
             /\ p = pair[2]
  <2>1. PICK r \in records : r.marker = "R" /\ ToSet(r.paths) \subseteq Inventory /\ p = r.paths[2]
    BY <1>3
  <2>2. r.paths \in gone \X fresh /\ r.paths = pair
    BY <1>2, <2>1
  <2>. HIDE DEF gone, pair
  <2>3. p \in fresh /\ p \in ToSet(r.paths)
    <3>. HIDE DEF fresh
    <3>. QED  BY <2>1, <2>2 DEF ToSet
  <2>. QED  BY <2>1, <2>2, <2>3
<1>5. DOMAIN lineage \in SUBSET {pair[2]}
  BY <1>4
<1>6. IsFiniteSet(DOMAIN lineage) /\ Cardinality(DOMAIN lineage) \in Nat
  <2>. DEFINE only == {pair[2]}
  <2>1. IsFiniteSet(only)
    BY FS_Singleton
  <2>. HIDE DEF only
  <2>2. DOMAIN lineage \in SUBSET only
    BY <1>5 DEF only
  <2>. QED  BY <2>1, <2>2, FewerInPart
<1>. HIDE DEF pair
<1>. QED  BY <1>4, <1>6 DEF lineage

-----------------------------------------------------------------------------
(* A path no rename led to is its own canonical path.                         *)
LEMMA CanonicalIsItself ==
  ASSUME NEW path, NEW lineage, Cardinality(DOMAIN lineage) \in Nat, path \notin DOMAIN lineage
  PROVE  CanonicalPath(path, lineage) = path
<1>. DEFINE n == Cardinality(DOMAIN lineage) + 1
            seq == [i \in 1 .. n |-> i]
            base == [path |-> path, visited |-> {}]
            step(walk, i) == IF walk.path \in walk.visited \/ walk.path \notin DOMAIN lineage
                             THEN walk
                             ELSE [path |-> lineage[walk.path], visited |-> walk.visited \cup {walk.path}]
            Iterates(g) == g = [s \in SUBSET DOMAIN seq |->
                                  IF s = {} THEN base ELSE step(g[s \ {Max(s)}], seq[Max(s)])]
            it == CHOOSE g : Iterates(g)
            T == [s \in SUBSET DOMAIN seq |-> base]
            Good == [k \in 0 .. n |-> {base}]
<1>1. CanonicalPath(path, lineage) = it[DOMAIN seq].path
  BY Zenon DEF CanonicalPath, FoldLeft, MapThenFoldSet
<1>2. n \in Nat /\ DOMAIN seq = 1 .. n
  OBVIOUS
<1>3. \A i : step(base, i) = base
  OBVIOUS
<1>. HIDE DEF base, step, seq, n
<1>4. Iterates(T)
  <2>1. \A s \in SUBSET DOMAIN seq : T[s] = base
    OBVIOUS
  <2>2. ASSUME NEW s \in SUBSET DOMAIN seq
        PROVE  T[s] = IF s = {} THEN base ELSE step(T[s \ {Max(s)}], seq[Max(s)])
    <3>1. s \ {Max(s)} \in SUBSET DOMAIN seq
      OBVIOUS
    <3>2. T[s \ {Max(s)}] = base /\ T[s] = base
      BY <2>1, <3>1
    <3>. HIDE DEF T
    <3>. QED  BY <1>3, <3>2
  <2>. QED  BY <2>2
<1>5. Iterates(it)
  <2>. HIDE DEF Iterates
  <2>. QED  BY <1>4
<1>. HIDE DEF it
<1>6. it[{}] = base
  BY <1>5
<1>7. ASSUME NEW k \in 1 .. n, it[1 .. k - 1] = base
      PROVE  it[1 .. k] = base
  <2>1. Max(1 .. k) = k /\ (1 .. k) \ {k} = 1 .. k - 1
    <3>1. k - 1 \in Nat /\ (k - 1) + 1 = k
      BY <1>2
    <3>. QED  BY <3>1, GreatestOfInterval
  <2>2. 1 .. k \in SUBSET (1 .. n) /\ 1 .. k # {}
    BY <1>2
  <2>3. it[1 .. k] = step(it[1 .. k - 1], seq[k])
    BY <1>2, <1>5, <2>1, <2>2
  <2>. QED  BY <1>3, <1>7, <2>3
<1>8. it[1 .. n] \in Good[n]
  <2>1. it[{}] \in Good[0]
    BY <1>2, <1>6
  <2>2. ASSUME NEW k \in 1 .. n, it[1 .. k - 1] \in Good[k - 1]
        PROVE  it[1 .. k] \in Good[k]
    <3>1. k - 1 \in 0 .. n /\ k \in 0 .. n
      BY <1>2
    <3>2. it[1 .. k - 1] = base
      BY <2>2, <3>1
    <3>. QED  BY <1>7, <3>1, <3>2
  <2>. HIDE DEF Good
  <2>. QED  BY <1>2, <2>1, <2>2, FoldInvariant
<1>9. it[1 .. n] = base
  BY <1>2, <1>8
<1>. QED  BY <1>1, <1>2, <1>9 DEF base

(* A finding as a scan of a tree reports it: of inventoried files, on lines   *)
(* they have, and with a measure only where its engine has one.               *)
Scanned(finding, tree) ==
    /\ finding.actual \in Nat
    /\ finding.engine \notin NumericEngines => finding.actual = 0
    /\ \A i \in DOMAIN finding.files : finding.files[i] \in Inventory
    /\ finding.engine = "FileBudgets" => DOMAIN finding.files = {1}
    /\ finding.engine # "FileBudgets" =>
         \A i \in DOMAIN finding.files :
           Lines(tree[finding.files[i]]) \cap (finding.ranges[i][1] .. finding.ranges[i][2]) # {}

(* What is not attributed to a change has not been touched by it.             *)
LEMMA UntouchedByChange ==
  ASSUME NEW repo, Repository(repo), NEW finding, Scanned(finding, repo.work),
         ~Attributable(finding, LoadReference(repo))
  PROVE  /\ finding.engine = "FileBudgets" => repo.work[finding.files[1]] = repo.base[finding.files[1]]
         /\ finding.engine # "FileBudgets" =>
              \A k \in DOMAIN finding.files :
                /\ finding.files[k] \notin repo.untracked
                /\ \A line \in Lines(repo.work[finding.files[k]]) \cap (finding.ranges[k][1] .. finding.ranges[k][2]) :
                     \E l \in Lines(repo.base[finding.files[k]]) :
                        repo.base[finding.files[k]][l] = repo.work[finding.files[k]][line]
         /\ \A k \in DOMAIN finding.files : finding.files[k] \notin DOMAIN LoadReference(repo).lineage
<1>. DEFINE changes == LoadReference(repo)
<1>1. CASE finding.engine = "FileBudgets"
  <2>. DEFINE p == finding.files[1]
  <2>1. p \in Inventory /\ DOMAIN finding.files = {1}
    BY <1>1 DEF Scanned
  <2>2. p \notin changes.files
    BY <1>1 DEF Attributable
  <2>. HIDE DEF p
  <2>3. repo.work[p] = repo.base[p]
    BY <2>1, <2>2, ChangedFiles
  <2>4. p \notin DOMAIN LoadReference(repo).lineage
    BY <2>3, LineageIsFresh
  <2>. QED  BY <1>1, <2>1, <2>3, <2>4 DEF p
<1>2. CASE finding.engine # "FileBudgets"
  <2>1. ASSUME NEW k \in DOMAIN finding.files
        PROVE  /\ finding.files[k] \notin repo.untracked
               /\ \A line \in Lines(repo.work[finding.files[k]]) \cap (finding.ranges[k][1] .. finding.ranges[k][2]) :
                     \E l \in Lines(repo.base[finding.files[k]]) :
                        repo.base[finding.files[k]][l] = repo.work[finding.files[k]][line]
               /\ finding.files[k] \notin DOMAIN LoadReference(repo).lineage
    <3>. DEFINE p == finding.files[k]
                lo == finding.ranges[k][1]
                hi == finding.ranges[k][2]
                lines == changes.lines[p]
                covered == Lines(repo.work[p]) \cap (lo .. hi)
    <3>1. p \in Inventory /\ covered # {}
      BY <1>2 DEF Scanned
    <3>2. \A line \in lines : ~(lo <= line /\ line <= hi)
      BY <1>2 DEF Attributable, ChangedRange
    <3>3. Text(repo.work[p]) /\ Text(repo.base[p])
      BY <3>1 DEF Repository
    <3>4. /\ p \in repo.untracked => lines = Lines(repo.work[p])
          /\ p \notin repo.untracked =>
               \A x \in Lines(repo.work[p]) \ lines : x \in Kept(repo.base[p], repo.work[p])
      <4>. HIDE DEF p
      <4>. QED  BY <3>1, ChangedLines
    <3>. HIDE DEF p, lo, hi, lines, changes
    <3>5. \A x \in covered : x \in Lines(repo.work[p]) /\ x \notin lines
      BY <3>2
    <3>6. p \notin repo.untracked
      BY <3>1, <3>4, <3>5
    <3>7. Common(Kept(repo.base[p], repo.work[p]), repo.base[p], repo.work[p])
      BY <3>3, KeptIsCommon
    <3>8. ASSUME NEW x \in covered
          PROVE  \E l \in Lines(repo.base[p]) : repo.base[p][l] = repo.work[p][x]
      <4>1. x \in Kept(repo.base[p], repo.work[p])
        BY <3>4, <3>5, <3>6
      <4>. QED  BY <3>7, <4>1 DEF Common
    <3>9. repo.base[p] # Absent
      BY <3>1, <3>8 DEF Lines
    <3>10. p \notin DOMAIN LoadReference(repo).lineage
      BY <3>9, LineageIsFresh
    <3>. QED  BY <3>6, <3>8, <3>10 DEF p, lo, hi
  <2>. QED  BY <1>2, <2>1
<1>. QED  BY <1>1, <1>2

(* So an excused finding and the one that excuses it are of the same files.   *)
LEMMA SameFiles ==
  ASSUME NEW now, NEW was, NEW lineage, Cardinality(DOMAIN lineage) \in Nat,
         \A k \in DOMAIN now.files : now.files[k] \notin DOMAIN lineage,
         Key(was, << >>) = Key(now, lineage)
  PROVE  now.engine = was.engine /\ now.name = was.name /\ ToSet(now.files) = ToSet(was.files)
<1>1. \A k \in DOMAIN now.files : CanonicalPath(now.files[k], lineage) = now.files[k]
  BY CanonicalIsItself
<1>2. \A p : CanonicalPath(p, << >>) = p
  <2>1. DOMAIN << >> = {}
    OBVIOUS
  <2>2. Cardinality(DOMAIN << >>) \in Nat
    BY <2>1, FS_EmptySet
  <2>. QED  BY <2>1, <2>2, CanonicalIsItself
<1>3. Key(was, << >>).files = {was.files[k] : k \in DOMAIN was.files}
  BY <1>2 DEF Key
<1>4. Key(now, lineage).files = {now.files[k] : k \in DOMAIN now.files}
  BY <1>1 DEF Key
<1>5. ToSet(now.files) = ToSet(was.files)
  BY <1>3, <1>4 DEF ToSet
<1>6. now.engine = was.engine /\ now.name = was.name
  BY DEF Key
<1>. QED  BY <1>5, <1>6

-----------------------------------------------------------------------------
(* Of an unchanged tree the ratchet still has, before finding k, a baseline   *)
(* finding for each identifiable one from k on, and has retained none.        *)
Promise(state, k, baseline, g) ==
    LET rest == {j \in DOMAIN baseline : k <= j /\ Eligible(baseline[j])}
    IN  /\ g \in [rest -> state.available]
        /\ \A i, j \in rest : g[i] = g[j] => i = j
        /\ \A j \in rest : /\ Key(baseline[g[j]], << >>) = Key(baseline[j], << >>)
                           /\ baseline[j].actual <= baseline[g[j]].actual

KeepsDebt(state, k, baseline) ==
    /\ \A i \in DOMAIN state.retained : ~Eligible(state.retained[i])
    /\ \E g : Promise(state, k, baseline, g)

(* The baseline finding used up is the least bad one, so whoever was promised *)
(* it can have the one that was promised to finding k.                        *)
LEMMA PromiseIsKept ==
  ASSUME NEW Findings, \A f \in Findings : f.actual \in Nat,
         NEW baseline \in Seq(Findings), NEW changes,
         \A i \in DOMAIN baseline : ~Attributable(baseline[i], changes),
         \A i \in DOMAIN baseline : Key(baseline[i], changes.lineage) = Key(baseline[i], << >>),
         NEW state \in Matchings(Findings, baseline), NEW k \in 1 .. Len(baseline),
         KeepsDebt(state, k, baseline)
  PROVE  KeepsDebt(RatchetOne(state, baseline[k], baseline, changes), k + 1, baseline)
<1>. DEFINE finding == baseline[k]
            fits == Fits(state, finding, baseline, changes)
            used == CHOOSE i \in fits : \A j \in fits : baseline[i].actual <= baseline[j].actual
            next == RatchetOne(state, finding, baseline, changes)
            before == {j \in DOMAIN baseline : k <= j /\ Eligible(baseline[j])}
            after == {j \in DOMAIN baseline : k + 1 <= j /\ Eligible(baseline[j])}
<1>1. finding \in Findings /\ k \in DOMAIN baseline /\ DOMAIN baseline \in SUBSET Nat
  OBVIOUS
<1>2. PICK g : Promise(state, k, baseline, g)
  BY DEF KeepsDebt
<1>3. /\ g \in [before -> state.available]
      /\ \A i, j \in before : g[i] = g[j] => i = j
      /\ \A j \in before : /\ Key(baseline[g[j]], << >>) = Key(baseline[j], << >>)
                           /\ baseline[j].actual <= baseline[g[j]].actual
  BY <1>2 DEF Promise
<1>4. after = before \ {k}
  BY <1>1
<1>5. \A i \in DOMAIN baseline : baseline[i] \in Findings /\ baseline[i].actual \in Nat
  OBVIOUS
<1>6. CASE ~Eligible(finding)
  <2>1. next = [state EXCEPT !.retained = Append(@, finding)]
    BY <1>6 DEF RatchetOne
  <2>2. after = before
    BY <1>4, <1>6
  <2>. HIDE DEF next, before, after
  <2>3. next.available = state.available /\ next.retained = Append(state.retained, finding)
    BY <2>1 DEF Matchings
  <2>4. \A i \in DOMAIN next.retained : ~Eligible(next.retained[i])
    <3>1. state.retained \in Seq(Findings)
      BY DEF Matchings
    <3>2. \A i \in DOMAIN state.retained : ~Eligible(state.retained[i])
      BY DEF KeepsDebt
    <3>. HIDE DEF finding
    <3>3. \A i \in DOMAIN next.retained : i \in DOMAIN state.retained \/ next.retained[i] = finding
      BY <1>1, <2>3, <3>1, Appended
    <3>4. \A i \in DOMAIN state.retained : next.retained[i] = state.retained[i]
      BY <1>1, <2>3, <3>1, Appended
    <3>. QED  BY <1>6, <3>2, <3>3, <3>4
  <2>5. Promise(next, k + 1, baseline, g)
    BY <1>3, <2>2, <2>3 DEF Promise, after
  <2>. QED  BY <2>4, <2>5 DEF KeepsDebt, next
<1>7. CASE Eligible(finding)
  <2>. DEFINE own == g[k]
  <2>1. k \in before
    BY <1>1, <1>7
  <2>2. own \in state.available /\ own \in DOMAIN baseline
    BY <1>3, <2>1 DEF Matchings
  <2>3. own \in fits
    BY <1>1, <1>3, <2>1, <2>2 DEF Fits
  <2>4. fits \in SUBSET DOMAIN baseline
    BY DEF Fits, Matchings
  <2>5. next = [state EXCEPT !.available = @ \ {used},
                             !.grandfathered = Append(@, <<finding, baseline[used]>>)]
    BY <1>1, <1>7, <2>3 DEF RatchetOne, Fits
  <2>6. used \in fits /\ \A j \in fits : baseline[used].actual <= baseline[j].actual
    <3>. HIDE DEF fits
    <3>. QED  BY <2>3, <2>4, LeastFit
  <2>. HIDE DEF next, used
  <2>7. next.available = state.available \ {used} /\ next.retained = state.retained
    BY <2>5 DEF Matchings
  <2>8. /\ used \in state.available /\ used \in DOMAIN baseline
        /\ Key(baseline[used], << >>) = Key(finding, << >>)
    BY <1>1, <2>6, <2>4 DEF Fits
  <2>9. baseline[used].actual <= baseline[own].actual
    BY <2>3, <2>6
  <2>. HIDE DEF fits, own, before, after
  <2>. DEFINE h == [j \in after |-> IF g[j] = used THEN own ELSE g[j]]
  <2>10. \A j \in after : j \in before /\ j # k
    BY <1>4
  <2>11. own = g[k]
    BY DEF own
  <2>12. ASSUME NEW j \in after
         PROVE  /\ h[j] \in next.available
                /\ Key(baseline[h[j]], << >>) = Key(baseline[j], << >>)
                /\ baseline[j].actual <= baseline[h[j]].actual
    <3>0. j \in before /\ j # k /\ j \in DOMAIN baseline
      BY <2>10 DEF before
    <3>1. CASE g[j] = used
      <4>1. h[j] = own
        BY <3>1
      <4>. HIDE DEF h
      <4>2. own # used
        BY <1>3, <2>1, <2>11, <3>0, <3>1
      <4>3. h[j] \in next.available
        BY <2>2, <2>7, <4>1, <4>2
      <4>4. Key(baseline[own], << >>) = Key(finding, << >>)
        BY <1>3, <2>1, <2>11
      <4>5. Key(baseline[used], << >>) = Key(baseline[j], << >>) /\ baseline[j].actual <= baseline[used].actual
        BY <1>3, <3>0, <3>1
      <4>6. baseline[j].actual \in Nat /\ baseline[used].actual \in Nat /\ baseline[own].actual \in Nat
        BY <1>5, <2>2, <2>8, <3>0
      <4>7. baseline[j].actual <= baseline[own].actual
        <5>1. \A a, b, c \in Nat : a <= b /\ b <= c => a <= c
          OBVIOUS
        <5>. QED  BY <2>9, <4>5, <4>6, <5>1
      <4>. QED  BY <2>8, <4>1, <4>3, <4>4, <4>5, <4>7
    <3>2. CASE g[j] # used
      <4>1. h[j] = g[j]
        BY <3>2
      <4>. HIDE DEF h
      <4>. QED  BY <1>3, <2>7, <3>0, <3>2, <4>1
    <3>. QED  BY <3>1, <3>2
  <2>13. ASSUME NEW i \in after, NEW j \in after, h[i] = h[j]
         PROVE  i = j
    <3>1. g[i] # own /\ g[j] # own
      BY <1>3, <2>1, <2>10, <2>11
    <3>2. g[i] = g[j]
      BY <2>13, <3>1
    <3>. QED  BY <1>3, <2>10, <3>2
  <2>14. h \in [after -> next.available]
    BY <2>12
  <2>15. Promise(next, k + 1, baseline, h)
    <3>. HIDE DEF h
    <3>. QED  BY <2>12, <2>13, <2>14 DEF Promise, after
  <2>16. \A i \in DOMAIN next.retained : ~Eligible(next.retained[i])
    BY <2>7 DEF KeepsDebt
  <2>. QED  BY <2>15, <2>16 DEF KeepsDebt, next
<1>. QED  BY <1>6, <1>7

(* Of an unchanged tree only findings without an identity are retained.       *)
LEMMA UnchangedKeepsDebt ==
  ASSUME NEW Findings, \A f \in Findings : f.actual \in Nat,
         NEW baseline \in Seq(Findings), NEW changes,
         \A i \in DOMAIN baseline : ~Attributable(baseline[i], changes),
         \A i \in DOMAIN baseline : Key(baseline[i], changes.lineage) = Key(baseline[i], << >>)
  PROVE  LET retained == ApplyLegacyRatchet(baseline, baseline, changes).retained
         IN  \A i \in DOMAIN retained : ~Eligible(retained[i])
<1>. DEFINE n == Len(baseline)
            State == Matchings(Findings, baseline)
            Good == [k \in 0 .. n |-> {x \in State : KeepsDebt(x, k + 1, baseline)}]
<1>1. n \in Nat /\ DOMAIN baseline = 1 .. n
  OBVIOUS
<1>2. PICK it : /\ it[{}] = RatchetStart(baseline)
                /\ \A k \in 1 .. n : it[1 .. k] = RatchetOne(it[1 .. k - 1], baseline[k], baseline, changes)
                /\ ApplyLegacyRatchet(baseline, baseline, changes) = it[1 .. n]
  BY RatchetRuns
<1>. DEFINE start == RatchetStart(baseline)
<1>3. start \in State
  BY DEF Matchings, RatchetStart
<1>4. KeepsDebt(start, 0 + 1, baseline)
  <2>. DEFINE rest == {j \in DOMAIN baseline : 1 <= j /\ Eligible(baseline[j])}
              g == [j \in rest |-> j]
  <2>1. start.retained = << >> /\ start.available = {i \in DOMAIN baseline : Eligible(baseline[i])}
    BY DEF RatchetStart
  <2>. HIDE DEF start
  <2>2. g \in [rest -> start.available] /\ \A j \in rest : g[j] = j
    BY <2>1
  <2>3. \A j \in rest : baseline[j].actual <= baseline[j].actual
    <3>1. \A a \in Nat : a <= a
      OBVIOUS
    <3>2. \A j \in rest : baseline[j].actual \in Nat
      OBVIOUS
    <3>. QED  BY <3>1, <3>2
  <2>. HIDE DEF g
  <2>4. Promise(start, 1, baseline, g)
    BY <2>2, <2>3 DEF Promise
  <2>5. \A i \in DOMAIN start.retained : ~Eligible(start.retained[i])
    BY <2>1
  <2>. HIDE DEF rest
  <2>6. KeepsDebt(start, 1, baseline)
    BY <2>4, <2>5 DEF KeepsDebt
  <2>. QED  BY <2>6
<1>5. ASSUME NEW k \in 1 .. n, NEW x \in State, KeepsDebt(x, k, baseline)
      PROVE  /\ RatchetOne(x, baseline[k], baseline, changes) \in State
             /\ KeepsDebt(RatchetOne(x, baseline[k], baseline, changes), k + 1, baseline)
  <2>1. RatchetOne(x, baseline[k], baseline, changes) \in State
    BY RatchetOneStep
  <2>2. KeepsDebt(RatchetOne(x, baseline[k], baseline, changes), k + 1, baseline)
    BY <1>5, PromiseIsKept
  <2>. QED  BY <2>1, <2>2
<1>. HIDE DEF State, start
<1>6. it[1 .. n] \in Good[n]
  <2>1. it[{}] \in Good[0]
    BY <1>1, <1>2, <1>3, <1>4 DEF start
  <2>2. ASSUME NEW k \in 1 .. n, it[1 .. k - 1] \in Good[k - 1]
        PROVE  it[1 .. k] \in Good[k]
    <3>1. k - 1 \in 0 .. n /\ k \in 0 .. n /\ (k - 1) + 1 = k
      BY <1>1
    <3>2. it[1 .. k - 1] \in State /\ KeepsDebt(it[1 .. k - 1], (k - 1) + 1, baseline)
      BY <2>2, <3>1
    <3>3. KeepsDebt(it[1 .. k - 1], k, baseline)
      BY <3>1, <3>2
    <3>. QED  BY <1>2, <1>5, <3>1, <3>2, <3>3
  <2>. HIDE DEF Good
  <2>. QED  BY <1>1, <2>1, <2>2, FoldInvariant
<1>7. KeepsDebt(it[1 .. n], n + 1, baseline)
  BY <1>1, <1>6
<1>. QED  BY <1>2, <1>7 DEF KeepsDebt

-----------------------------------------------------------------------------
(* Nothing of an unchanged tree is attributed to a change, and no path has    *)
(* another's name.                                                            *)
LEMMA NothingChanged ==
  ASSUME NEW repo, Repository(repo), repo.work = repo.base, repo.work = repo.head, repo.untracked = {}
  PROVE  LET changes == LoadReference(repo)
         IN  changes.files = {} /\ DOMAIN changes.lineage = {} /\ \A p \in Inventory : changes.lines[p] = {}
<1>. DEFINE changes == LoadReference(repo)
            records == StatusRecords(repo)
            status == ParseDiffStatus(records)
            tracked == [q \in DOMAIN repo.work |-> IF q \in repo.untracked THEN Absent ELSE repo.work[q]]
            differs == {q \in DOMAIN repo.work : repo.base[q] # tracked[q]}
            gone == {q \in differs : tracked[q] = Absent}
            fresh == {q \in differs : repo.base[q] = Absent}
            renames == {r \in gone \X fresh : repo.base[r[1]] = tracked[r[2]]}
            pairs == {r \in renames : r = CHOOSE s \in renames : TRUE}
            single == differs \ UNION {ToSet(r) : r \in pairs}
            mark(q) == IF q \in gone THEN "D" ELSE IF q \in fresh THEN "A" ELSE "M"
<1>1. records = {[marker |-> "R", paths |-> r] : r \in pairs}
                \cup {[marker |-> mark(q), paths |-> <<q>>] : q \in single}
  BY DEF StatusRecords
<1>2. differs = {}
  OBVIOUS
<1>3. pairs = {} /\ single = {}
  <2>. HIDE DEF differs
  <2>1. single = {}
    BY <1>2
  <2>2. fresh = {}
    BY <1>2
  <2>3. gone \X fresh = {}
    BY <2>2
  <2>. QED  BY <2>1, <2>3
<1>. HIDE DEF pairs, single, mark, records
<1>4. records = {}
  BY <1>1, <1>3
<1>5. status.paths = {} /\ DOMAIN status.lineage = {}
  BY <1>4 DEF ParseDiffStatus
<1>6. \A p \in Inventory : changes.lines[p] = {}
  BY ChangedLines
<1>7. PorcelainPaths(repo) = {}
  BY DEF PorcelainPaths
<1>8. changes.files = (PorcelainPaths(repo) \cap Inventory) \cup status.paths
                      \cup {p \in Inventory : changes.lines[p] # {}}
      /\ changes.lineage = status.lineage
  BY DEF LoadReference, records
<1>. HIDE DEF changes, status
<1>. QED  BY <1>5, <1>6, <1>7, <1>8 DEF changes

(* What is asked of a ratchet case: a repository as Git sees it, and the      *)
(* findings of two scans, which are the same scan if the tree is unchanged.   *)
RatchetCase(repo, current, baseline) ==
    /\ Repository(repo)
    /\ \E Findings : current \in Seq(Findings) /\ baseline \in Seq(Findings)
    /\ \A i \in DOMAIN current : Scanned(current[i], repo.work)
    /\ \A i \in DOMAIN baseline : /\ baseline[i].actual \in Nat
                                  /\ baseline[i].engine \notin NumericEngines => baseline[i].actual = 0
    /\ repo.work = repo.base => current = baseline

ExcusedAtLeast(excused, engine, measure) ==
    {i \in DOMAIN excused : excused[i][1].engine = engine /\ excused[i][1].actual >= measure}
FoundAtLeast(findings, engine, measure) ==
    {i \in DOMAIN findings : findings[i].engine = engine /\ findings[i].actual >= measure}

(* No more excused findings than baseline ones are as bad as some measure.    *)
LEMMA ExcusesAreCounted ==
  ASSUME NEW Findings, \A f \in Findings : f.actual \in Nat,
         \A f \in Findings : f.engine \notin NumericEngines => f.actual = 0,
         NEW current \in Seq(Findings), NEW baseline \in Seq(Findings), NEW changes,
         NEW engine, NEW measure \in Nat
  PROVE  Cardinality(ExcusedAtLeast(ApplyLegacyRatchet(current, baseline, changes).grandfathered, engine, measure))
             <= Cardinality(FoundAtLeast(baseline, engine, measure))
<1>. DEFINE result == ApplyLegacyRatchet(current, baseline, changes)
            excused == result.grandfathered
            now == ExcusedAtLeast(excused, engine, measure)
            before == FoundAtLeast(baseline, engine, measure)
<1>1. /\ result \in Matchings(Findings, baseline)
      /\ Ratcheted(result, Len(current), current, baseline, changes)
  BY RatchetFold
<1>. HIDE DEF result
<1>2. excused \in Seq(Findings \X Findings)
  BY <1>1 DEF Matchings
<1>3. PICK own : OwnMatch(result, baseline, own)
  BY <1>1 DEF Ratcheted
<1>4. ASSUME NEW i \in now
      PROVE  own[i] \in before
  <2>0. /\ i \in DOMAIN excused /\ excused[i][1].engine = engine /\ excused[i][1].actual >= measure
    BY DEF ExcusedAtLeast
  <2>1. own[i] \in DOMAIN baseline /\ excused[i][2] = baseline[own[i]]
    BY <1>3, <2>0 DEF OwnMatch
  <2>2. Excuses(excused[i][2], excused[i][1], changes)
    BY <1>1, <2>0 DEF Ratcheted
  <2>3. excused[i][1] \in Findings /\ excused[i][2] \in Findings
    BY <1>2, <2>0
  <2>4. excused[i][2].engine = excused[i][1].engine
    BY <2>2 DEF Excuses, Key
  <2>5. excused[i][1].actual \in Nat /\ excused[i][2].actual \in Nat
    BY <2>3
  <2>6. excused[i][1].actual <= excused[i][2].actual
    <3>1. CASE excused[i][1].engine \in NumericEngines
      BY <2>2, <3>1 DEF Excuses
    <3>2. CASE excused[i][1].engine \notin NumericEngines
      <4>1. excused[i][1].actual = 0
        BY <2>3, <3>2
      <4>. QED  BY <2>5, <4>1
    <3>. QED  BY <3>1, <3>2
  <2>7. excused[i][2].actual >= measure
    BY <2>0, <2>5, <2>6
  <2>. QED  BY <2>0, <2>1, <2>4, <2>7 DEF FoundAtLeast
<1>5. [i \in now |-> own[i]] \in Injection(now, before)
  <2>1. now \in SUBSET DOMAIN excused
    BY DEF ExcusedAtLeast
  <2>. HIDE DEF now, before
  <2>. QED  BY <1>3, <1>4, <2>1 DEF OwnMatch, Injection, IsInjective
<1>6. IsFiniteSet(before)
  <2>1. DOMAIN baseline = 1 .. Len(baseline) /\ Len(baseline) \in Nat
    OBVIOUS
  <2>2. IsFiniteSet(DOMAIN baseline)
    BY <2>1, FS_Interval
  <2>. QED  BY <2>2, FS_Subset DEF FoundAtLeast
<1>. HIDE DEF now, before
<1>7. Cardinality(now) <= Cardinality(before)
  BY <1>5, <1>6, FS_Injection
<1>. QED  BY <1>7 DEF now, before, result

(* Grandfathering admits no new debt (RatchetAdmitsNoNewDebt), whatever the   *)
(* repository, what changed in it and what was found in its two trees.        *)
THEOREM EveryExcuseIsOldDebt ==
  ASSUME Is("ratchet") => RatchetCase(case.repo, case.current, case.baseline)
  PROVE  RatchetAdmitsNoNewDebt
<1>. SUFFICES ASSUME RatchetCase(case.repo, case.current, case.baseline)
              PROVE  RatchetAdmitsNoNewDebt
  BY DEF RatchetAdmitsNoNewDebt
<1>. PICK Findings : case.current \in Seq(Findings) /\ case.baseline \in Seq(Findings)
  BY DEF RatchetCase
<1>. DEFINE repo == case.repo
            now == case.current
            baseline == case.baseline
            Known == {f \in Findings : f.actual \in Nat /\ (f.engine \notin NumericEngines => f.actual = 0)}
            changes == LoadReference(repo)
            result == Ratchet
            excused == result.grandfathered
<1>1. now \in Seq(Known) /\ baseline \in Seq(Known)
  <2>1. \A i \in DOMAIN now : now[i] \in Known
    BY DEF RatchetCase, Scanned
  <2>2. \A i \in DOMAIN baseline : baseline[i] \in Known
    BY DEF RatchetCase
  <2>. HIDE DEF Known
  <2>3. \A s \in Seq(Findings) : (\A i \in DOMAIN s : s[i] \in Known) => s \in Seq(Known)
    OBVIOUS
  <2>. QED  BY <2>1, <2>2, <2>3
<1>2. /\ \A f \in Known : f.actual \in Nat
      /\ \A f \in Known : f.engine \notin NumericEngines => f.actual = 0
  OBVIOUS
<1>3. Repository(repo) /\ \A i \in DOMAIN now : Scanned(now[i], repo.work)
  BY DEF RatchetCase
<1>4. result = ApplyLegacyRatchet(now, baseline, changes)
  BY DEF Ratchet
<1>. HIDE DEF Known, result, changes
<1>5. /\ result \in Matchings(Known, baseline)
      /\ Ratcheted(result, Len(now), now, baseline, changes)
  BY <1>1, <1>2, <1>4, RatchetFold
<1>6. excused \in Seq(Known \X Known)
  BY <1>5 DEF Matchings
<1>7. ASSUME NEW i \in DOMAIN excused
      PROVE  LET f == excused[i][1]  w == excused[i][2]
             IN  /\ f \in Known /\ w \in Known /\ Scanned(f, repo.work) /\ Excuses(w, f, changes)
  <2>1. excused[i] \in Known \X Known
    BY <1>6
  <2>2. /\ \E j \in 1 .. Len(now) : excused[i][1] = now[j]
        /\ Excuses(excused[i][2], excused[i][1], changes)
    BY <1>5 DEF Ratcheted
  <2>3. \A j \in 1 .. Len(now) : j \in DOMAIN now
    BY <1>1
  <2>. QED  BY <1>3, <2>1, <2>2, <2>3
<1>8. ASSUME NEW i \in DOMAIN excused
      PROVE  LET f == excused[i][1]  w == excused[i][2]
             IN  /\ f.actual <= w.actual /\ f.engine = w.engine /\ f.name = w.name
                 /\ ToSet(f.files) = ToSet(w.files)
                 /\ \A k \in DOMAIN f.files : f.files[k] \notin DOMAIN changes.lineage
                 /\ f.engine = "FileBudgets" => repo.work[f.files[1]] = repo.base[f.files[1]]
                 /\ f.engine # "FileBudgets" =>
                      \A k \in DOMAIN f.files :
                        /\ f.files[k] \notin repo.untracked
                        /\ \A line \in Lines(repo.work[f.files[k]]) \cap (f.ranges[k][1] .. f.ranges[k][2]) :
                             \E l \in Lines(repo.base[f.files[k]]) :
                                repo.base[f.files[k]][l] = repo.work[f.files[k]][line]
  <2>. DEFINE f == excused[i][1]
              w == excused[i][2]
  <2>1. f \in Known /\ w \in Known /\ Scanned(f, repo.work) /\ Excuses(w, f, changes)
    BY <1>7
  <2>. HIDE DEF f, w
  <2>2. f.actual <= w.actual
    <3>1. CASE f.engine \in NumericEngines
      BY <2>1, <3>1 DEF Excuses
    <3>2. CASE f.engine \notin NumericEngines
      <4>1. f.actual = 0 /\ w.actual \in Nat
        BY <1>2, <2>1, <3>2
      <4>. QED  BY <4>1
    <3>. QED  BY <3>1, <3>2
  <2>3. ~Attributable(f, changes) /\ Key(w, << >>) = Key(f, changes.lineage)
    BY <2>1 DEF Excuses
  <2>. HIDE DEF repo
  <2>4. /\ f.engine = "FileBudgets" => repo.work[f.files[1]] = repo.base[f.files[1]]
        /\ f.engine # "FileBudgets" =>
             \A k \in DOMAIN f.files :
               /\ f.files[k] \notin repo.untracked
               /\ \A line \in Lines(repo.work[f.files[k]]) \cap (f.ranges[k][1] .. f.ranges[k][2]) :
                    \E l \in Lines(repo.base[f.files[k]]) :
                       repo.base[f.files[k]][l] = repo.work[f.files[k]][line]
        /\ \A k \in DOMAIN f.files : f.files[k] \notin DOMAIN changes.lineage
    BY <1>3, <2>1, <2>3, UntouchedByChange DEF changes
  <2>5. Cardinality(DOMAIN changes.lineage) \in Nat
    BY LineageIsFresh DEF changes
  <2>6. f.engine = w.engine /\ f.name = w.name /\ ToSet(f.files) = ToSet(w.files)
    <3>. HIDE DEF changes
    <3>. QED  BY <2>3, <2>4, <2>5, SameFiles
  <2>. QED  BY <2>2, <2>4, <2>6 DEF f, w
<1>9. ASSUME NEW i \in DOMAIN excused
      PROVE  Cardinality({j \in DOMAIN excused : excused[j][1].engine = excused[i][1].engine
                                                 /\ excused[j][1].actual >= excused[i][1].actual})
             <= Cardinality({j \in DOMAIN baseline : baseline[j].engine = excused[i][1].engine
                                                     /\ baseline[j].actual >= excused[i][1].actual})
  <2>1. excused[i][1].actual \in Nat
    BY <1>2, <1>7
  <2>. DEFINE engine == excused[i][1].engine
              measure == excused[i][1].actual
  <2>2. measure \in Nat
    BY <2>1
  <2>. HIDE DEF engine, measure, now, baseline
  <2>3. Cardinality(ExcusedAtLeast(ApplyLegacyRatchet(now, baseline, changes).grandfathered, engine, measure))
        <= Cardinality(FoundAtLeast(baseline, engine, measure))
    BY <1>1, <1>2, <2>2, ExcusesAreCounted
  <2>4. Cardinality(ExcusedAtLeast(excused, engine, measure)) <= Cardinality(FoundAtLeast(baseline, engine, measure))
    BY <1>4, <2>3
  <2>. QED  BY <2>4 DEF engine, measure, ExcusedAtLeast, FoundAtLeast
<1>10. ASSUME repo.work = repo.base, repo.work = repo.head, repo.untracked = {}
       PROVE  \A i \in DOMAIN result.retained : ~Eligible(result.retained[i])
  <2>1. now = baseline
    BY <1>10 DEF RatchetCase
  <2>2. changes.files = {} /\ DOMAIN changes.lineage = {} /\ \A p \in Inventory : changes.lines[p] = {}
    BY <1>3, <1>10, NothingChanged DEF changes
  <2>3. ASSUME NEW i \in DOMAIN baseline
        PROVE  /\ ~Attributable(baseline[i], changes)
               /\ Key(baseline[i], changes.lineage) = Key(baseline[i], << >>)
    <3>. DEFINE f == baseline[i]
    <3>1. Scanned(f, repo.work)
      BY <1>3, <2>1
    <3>. HIDE DEF f
    <3>2. \A k \in DOMAIN f.files : f.files[k] \in Inventory
      BY <3>1 DEF Scanned
    <3>3. f.engine = "FileBudgets" => DOMAIN f.files = {1}
      BY <3>1 DEF Scanned
    <3>4. ~Attributable(f, changes)
      <4>1. CASE f.engine = "FileBudgets"
        BY <2>2, <4>1 DEF Attributable
      <4>2. CASE f.engine # "FileBudgets"
        BY <2>2, <3>2, <4>2 DEF Attributable, ChangedRange
      <4>. QED  BY <4>1, <4>2
    <3>5. \A p : CanonicalPath(p, changes.lineage) = p /\ CanonicalPath(p, << >>) = p
      <4>1. Cardinality(DOMAIN changes.lineage) \in Nat
        BY <2>2, FS_EmptySet
      <4>2. DOMAIN << >> = {} /\ Cardinality({}) \in Nat
        BY FS_EmptySet
      <4>3. Cardinality(DOMAIN << >>) \in Nat
        BY <4>2
      <4>. QED  BY <2>2, <4>1, <4>2, <4>3, CanonicalIsItself
    <3>6. Key(f, changes.lineage) = Key(f, << >>)
      BY <3>5 DEF Key
    <3>. QED  BY <3>4, <3>6 DEF f
  <2>. HIDE DEF now, baseline
  <2>4. result = ApplyLegacyRatchet(baseline, baseline, changes)
    BY <1>4, <2>1
  <2>. QED  BY <1>1, <1>2, <2>3, <2>4, UnchangedKeepsDebt
<1>11. LET current == [i \in DOMAIN excused |-> excused[i][1]]
       IN  \A i \in DOMAIN current :
             Cardinality({j \in DOMAIN current : /\ current[j].engine = current[i].engine
                                                 /\ current[j].actual >= current[i].actual})
             <= Cardinality({j \in DOMAIN baseline : /\ baseline[j].engine = current[i].engine
                                                     /\ baseline[j].actual >= current[i].actual})
  <2>. DEFINE current == [i \in DOMAIN excused |-> excused[i][1]]
  <2>1. DOMAIN current = DOMAIN excused /\ \A i \in DOMAIN excused : current[i] = excused[i][1]
    OBVIOUS
  <2>. HIDE DEF current, excused
  <2>2. ASSUME NEW i \in DOMAIN excused
        PROVE  {j \in DOMAIN current : /\ current[j].engine = current[i].engine
                                       /\ current[j].actual >= current[i].actual}
             = {j \in DOMAIN excused : excused[j][1].engine = excused[i][1].engine
                                                 /\ excused[j][1].actual >= excused[i][1].actual}
    BY <2>1
  <2>3. ASSUME NEW i \in DOMAIN current
        PROVE  Cardinality({j \in DOMAIN current : /\ current[j].engine = current[i].engine
                                                 /\ current[j].actual >= current[i].actual})
             <= Cardinality({j \in DOMAIN baseline : /\ baseline[j].engine = current[i].engine
                                                     /\ baseline[j].actual >= current[i].actual})
    BY <1>9, <2>1, <2>2
  <2>. QED  BY <2>3 DEF current
<1>12. ASSUME NEW i \in DOMAIN excused
       PROVE  LET f == excused[i][1]  w == excused[i][2]
              IN  /\ f.actual <= w.actual /\ f.engine = w.engine /\ f.name = w.name
                  /\ {Origin(f.files[k]) : k \in DOMAIN f.files} = ToSet(w.files)
                  /\ f.engine = "FileBudgets" => repo.work[f.files[1]] = repo.base[Origin(f.files[1])]
                  /\ f.engine # "FileBudgets" =>
                       \A k \in DOMAIN f.files :
                         /\ f.files[k] \notin repo.untracked
                         /\ \A line \in Lines(repo.work[f.files[k]]) \cap (f.ranges[k][1] .. f.ranges[k][2]) :
                              \E l \in Lines(repo.base[Origin(f.files[k])]) :
                                 repo.base[Origin(f.files[k])][l] = repo.work[f.files[k]][line]
  <2>. DEFINE f == excused[i][1]
  <2>1. \A k \in DOMAIN f.files : Origin(f.files[k]) = f.files[k]
    BY <1>8 DEF Origin, changes
  <2>2. {Origin(f.files[k]) : k \in DOMAIN f.files} = ToSet(f.files)
    BY <2>1 DEF ToSet
  <2>3. f.engine = "FileBudgets" => Origin(f.files[1]) = f.files[1]
    <3>1. f.engine = "FileBudgets" => 1 \in DOMAIN f.files
      BY <1>7 DEF Scanned
    <3>. HIDE DEF f
    <3>. QED  BY <2>1, <3>1
  <2>. HIDE DEF repo, excused
  <2>. QED  BY <1>8, <2>1, <2>2, <2>3
<1>. QED
  <2>. QED  BY <1>12, <1>10, <1>11, Zenon DEF RatchetAdmitsNoNewDebt, result

-----------------------------------------------------------------------------
(* The clone index.                                                           *)

(* A run of a step: what there is after each index.                           *)
Runs(run, n, base, Step) ==
    run[0] = base /\ \A k \in 1 .. n : run[k] = Step[<<run[k - 1], k>>]

(* A run that ends where the fold it does.                                    *)
RunsTo(run, it, n, base, Step) == Runs(run, n, base, Step) /\ run[n] = it[1 .. n]

(* g takes the step at the last index of every set of indices; it does so     *)
(* wherever it is known to be among the states.                               *)
Solves(g, n, State, base, Step) ==
    /\ g \in [SUBSET (1 .. n) -> State] /\ g[{}] = base
    /\ \A s \in SUBSET (1 .. n) : s # {} =>
          /\ Max(s) \in 1 .. n /\ g[s \ {Max(s)}] \in State
          /\ g[s] = Step[<<g[s \ {Max(s)}], Max(s)>>]

Follows(it, n, State, base, Step) ==
    /\ it[{}] = base
    /\ \A s \in SUBSET (1 .. n) :
          (s # {} /\ Max(s) \in 1 .. n /\ it[s \ {Max(s)}] \in State) =>
             it[s] = Step[<<it[s \ {Max(s)}], Max(s)>>]

(* it is a fold that takes the step: it follows it if anything does.          *)
FoldOf(it, n, State, base, Step) ==
    \A g : Solves(g, n, State, base, Step) => Follows(it, n, State, base, Step)

(* A fold that follows a step on a set of states is the end of a run in it.   *)
LEMMA FoldRuns ==
  ASSUME NEW n \in Nat, NEW State, NEW base \in State,
         NEW Step \in [State \X (1 .. n) -> State], NEW it,
         FoldOf(it, n, State, base, Step)
  PROVE  \E run \in [0 .. n -> State] : RunsTo(run, it, n, base, Step)
<1>1. PICK g \in [SUBSET (1 .. n) -> State] : FoldFits(g, n, base, Step)
  BY FoldExists
<1>2. ASSUME NEW s \in SUBSET (1 .. n), s # {}
      PROVE  /\ Max(s) \in 1 .. n /\ g[s \ {Max(s)}] \in State
             /\ g[s] = Step[<<g[s \ {Max(s)}], Max(s)>>]
  <2>1. Max(s) \in s
    BY <1>2, Greatest
  <2>2. g[s] = Step[<<g[s \ {Max(s)}], Max(s)>>]
    BY <1>1, <1>2 DEF FoldFits
  <2>. QED  BY <2>1, <2>2
<1>3. g[{}] = base
  BY <1>1 DEF FoldFits
<1>4. Follows(it, n, State, base, Step)
  <2>1. Solves(g, n, State, base, Step)
    BY <1>2, <1>3 DEF Solves
  <2>. QED  BY <2>1 DEF FoldOf
<1>5. ASSUME NEW k \in 1 .. n, it[1 .. k - 1] \in State
      PROVE  it[1 .. k] \in State /\ it[1 .. k] = Step[<<it[1 .. k - 1], k>>]
  <2>1. Max(1 .. k) = k /\ (1 .. k) \ {k} = 1 .. k - 1
    <3>1. k - 1 \in Nat /\ (k - 1) + 1 = k
      OBVIOUS
    <3>. QED  BY <3>1, GreatestOfInterval
  <2>2. 1 .. k \in SUBSET (1 .. n) /\ 1 .. k # {}
    OBVIOUS
  <2>3. it[1 .. k] = Step[<<it[1 .. k - 1], k>>]
    BY <1>4, <1>5, <2>1, <2>2 DEF Follows
  <2>. QED  BY <1>5, <2>3
<1>6. \A k \in 0 .. n : it[1 .. k] \in State
  <2>. SUFFICES ASSUME NEW j \in 0 .. n  PROVE it[1 .. j] \in State
    OBVIOUS
  <2>. DEFINE Back == {k \in Nat : k <= n => it[1 .. k] \in State}
  <2>1. 0 \in Back
    <3>1. 1 .. 0 = {}
      OBVIOUS
    <3>. QED  BY <1>4, <3>1 DEF Follows
  <2>2. ASSUME NEW k \in Nat, k \in Back  PROVE k + 1 \in Back
    <3>. SUFFICES ASSUME k + 1 <= n  PROVE it[1 .. k + 1] \in State
      OBVIOUS
    <3>1. k + 1 \in 1 .. n /\ (k + 1) - 1 = k /\ k <= n
      OBVIOUS
    <3>2. it[1 .. k] \in State
      BY <2>2, <3>1
    <3>. QED  BY <1>5, <3>1, <3>2
  <2>3. j \in Back
    <3>. HIDE DEF Back
    <3>. QED  BY <2>1, <2>2, SetInduction
  <2>. QED  BY <2>3
<1>. DEFINE run == [k \in 0 .. n |-> it[1 .. k]]
<1>7. run \in [0 .. n -> State] /\ run[n] = it[1 .. n]
  BY <1>6
<1>8. Runs(run, n, base, Step)
  <2>1. 0 \in 0 .. n /\ 1 .. 0 = {}
    OBVIOUS
  <2>2. run[0] = base
    BY <1>4, <2>1 DEF Follows
  <2>3. ASSUME NEW k \in 1 .. n  PROVE run[k] = Step[<<run[k - 1], k>>]
    <3>1. k \in 0 .. n /\ k - 1 \in 0 .. n
      OBVIOUS
    <3>2. it[1 .. k - 1] \in State
      BY <1>6, <3>1
    <3>. QED  BY <1>5, <3>1, <3>2
  <2>. HIDE DEF run
  <2>. QED  BY <2>2, <2>3 DEF Runs
<1>9. RunsTo(run, it, n, base, Step)
  <2>. HIDE DEF run
  <2>. QED  BY <1>7, <1>8 DEF RunsTo
<1>. QED  BY <1>7, <1>9

(* Any step on a set of states has a run.                                     *)
LEMMA RunExists ==
  ASSUME NEW n \in Nat, NEW State, NEW base \in State, NEW Step \in [State \X (1 .. n) -> State]
  PROVE  \E run \in [0 .. n -> State] : Runs(run, n, base, Step)
<1>1. PICK it : FoldFits(it, n, base, Step)
  BY FoldExists
<1>2. Follows(it, n, State, base, Step)
  BY <1>1 DEF Follows, FoldFits
<1>3. FoldOf(it, n, State, base, Step)
  BY <1>2 DEF FoldOf
<1>4. PICK run \in [0 .. n -> State] : RunsTo(run, it, n, base, Step)
  BY <1>3, FoldRuns
<1>. QED  BY <1>4 DEF RunsTo

-----------------------------------------------------------------------------
(* The rolling hash is the hash of the window. Both are compared with the     *)
(* number that the symbols write in base HashBase, which needs no modulus.    *)

Tokens == [symbol : Nat, line : Nat]

(* Multiples of the modulus do not change a remainder.                        *)
LEMMA MultiplesCancel ==
  ASSUME NEW m \in Nat \ {0}, NEW a \in Int, NEW q \in Int
  PROVE  (a + q * m) % m = a % m
<1>. DEFINE r == a % m  s == (a + q * m) % m  d == a \div m  e == (a + q * m) \div m
<1>1. q * m \in Int
  OBVIOUS
<1>2. r \in Int /\ d \in Int /\ 0 <= r /\ r < m /\ a = m * d + r
  OBVIOUS
<1>3. s \in Int /\ e \in Int /\ 0 <= s /\ s < m /\ a + q * m = m * e + s
  BY <1>1
<1>. HIDE DEF r, s, d, e
<1>4. m * (d + q - e) = s - r
  BY <1>2, <1>3
<1>5. ASSUME NEW k \in Int, m * k < m, -m < m * k  PROVE k = 0
  <2>1. CASE k >= 1
    <3>1. m * k >= m
      BY <2>1
    <3>. QED  BY <3>1, <1>5
  <2>2. CASE k <= -1
    <3>1. m * k <= -m
      BY <2>2
    <3>. QED  BY <3>1, <1>5
  <2>. QED  BY <2>1, <2>2
<1>6. d + q - e \in Int /\ s - r < m /\ -m < s - r
  BY <1>2, <1>3
<1>7. d + q - e = 0
  BY <1>4, <1>5, <1>6
<1>8. s - r = 0
  <2>1. m * 0 = 0
    OBVIOUS
  <2>. QED  BY <1>4, <1>7, <2>1
<1>9. s = r
  BY <1>2, <1>3, <1>8
<1>. QED  BY <1>9 DEF r, s

(* a and b differ by a multiple of the number of hash values.                 *)
Congruent(a, b) == \E q \in Int : a = b + q * HashSize

(* Being congruent is having the same remainder.                              *)
LEMMA CongruentRemainders ==
  ASSUME NEW a \in Int, NEW b \in Int, Congruent(a, b)
  PROVE  a % HashSize = b % HashSize
BY HashAssumption, MultiplesCancel DEF Congruent

(* A number and its remainder are congruent.                                  *)
LEMMA RemainderCongruent ==
  ASSUME NEW a \in Int
  PROVE  /\ Congruent(a % HashSize, a) /\ a % HashSize \in Int
         /\ a % HashSize \in 0 .. HashSize - 1
<1>1. HashSize \in Nat \ {0}
  BY HashAssumption
<1>2. a % HashSize \in 0 .. HashSize - 1 /\ a \div HashSize \in Int
       /\ a = HashSize * (a \div HashSize) + (a % HashSize)
  BY <1>1
<1>. DEFINE d == a \div HashSize  r == a % HashSize
<1>. HIDE DEF d, r
<1>3. d \in Int /\ r \in Int /\ a = HashSize * d + r
  BY <1>1, <1>2 DEF d, r
<1>4. -d \in Int /\ r = a + (-d) * HashSize
  BY <1>1, <1>3
<1>5. \E q \in Int : r = a + q * HashSize
  BY <1>4
<1>. QED  BY <1>2, <1>5 DEF Congruent, r

(* What is congruent stays so when it is scaled and moved.                    *)
LEMMA CongruentSteps ==
  ASSUME NEW a \in Int, NEW b \in Int, Congruent(a, b), NEW x \in Int, NEW y \in Int
  PROVE  Congruent(a * x + y, b * x + y)
<1>. DEFINE m == HashSize
<1>1. PICK q \in Int : a = b + q * m
  BY DEF Congruent
<1>2. m \in Int
  BY HashAssumption
<1>. HIDE DEF m
<1>3. a * x + y = (b * x + y) + (q * x) * m
  BY <1>1, <1>2
<1>4. q * x \in Int
  OBVIOUS
<1>. QED  BY <1>3, <1>4 DEF Congruent, m

(* So do differences, the second term scaled.                                 *)
LEMMA CongruentDifferences ==
  ASSUME NEW a \in Int, NEW b \in Int, Congruent(a, b),
         NEW c \in Int, NEW d \in Int, Congruent(c, d), NEW t \in Int
  PROVE  Congruent(a - t * c, b - t * d)
<1>. DEFINE m == HashSize
<1>1. PICK q \in Int : a = b + q * m
  BY DEF Congruent
<1>2. PICK r \in Int : c = d + r * m
  BY DEF Congruent
<1>3. m \in Int
  BY HashAssumption
<1>. HIDE DEF m
<1>4. a - t * c = (b - t * d) + (q - t * r) * m
  BY <1>1, <1>2, <1>3
<1>5. q - t * r \in Int
  OBVIOUS
<1>. QED  BY <1>4, <1>5 DEF Congruent, m

(* Congruence is transitive.                                                  *)
LEMMA CongruentChains ==
  ASSUME NEW a \in Int, NEW b \in Int, NEW c \in Int, Congruent(a, b), Congruent(b, c)
  PROVE  Congruent(a, c)
<1>. DEFINE m == HashSize
<1>1. PICK q \in Int : a = b + q * m
  BY DEF Congruent
<1>2. PICK r \in Int : b = c + r * m
  BY DEF Congruent
<1>3. m \in Int
  BY HashAssumption
<1>. HIDE DEF m
<1>4. a = c + (q + r) * m /\ q + r \in Int
  BY <1>1, <1>2, <1>3
<1>. QED  BY <1>4 DEF Congruent, m

-----------------------------------------------------------------------------
(* The number written by the n symbols from i on, digit by digit, and the     *)
(* powers of the base.                                                        *)
Digits(v, tokens, i, n) ==
    /\ v \in [0 .. n -> Int] /\ v[0] = 0
    /\ \A k \in 1 .. n : v[k] = v[k - 1] * HashBase + tokens[i + k - 1].symbol

Powers(p, n) ==
    p \in [0 .. n -> Int] /\ p[0] = 1 /\ \A k \in 1 .. n : p[k] = p[k - 1] * HashBase

(* Such a number exists for every window.                                     *)
LEMMA DigitsExist ==
  ASSUME NEW tokens \in Seq(Tokens), NEW n \in Nat, NEW i \in Nat \ {0}, i + n - 1 <= Len(tokens)
  PROVE  \E v : Digits(v, tokens, i, n)
<1>. DEFINE State == Int
            Next(x, k) == x * HashBase + tokens[i + k - 1].symbol
            Step == [q \in State \X (1 .. n) |-> Next(q[1], q[2])]
<1>1. \A k \in 1 .. n : tokens[i + k - 1].symbol \in Nat
  <2>. SUFFICES ASSUME NEW k \in 1 .. n  PROVE tokens[i + k - 1].symbol \in Nat
    OBVIOUS
  <2>1. i + k - 1 \in 1 .. Len(tokens)
    OBVIOUS
  <2>2. tokens[i + k - 1] \in Tokens
    BY <2>1
  <2>. QED  BY <2>2 DEF Tokens
<1>2. ASSUME NEW x \in Int, NEW k \in 1 .. n  PROVE Next(x, k) \in Int
  <2>1. x * HashBase \in Int
    BY HashAssumption
  <2>2. tokens[i + k - 1].symbol \in Nat
    BY <1>1, Zenon
  <2>. QED  BY <2>1, <2>2
<1>. HIDE DEF Next
<1>3. Step \in [State \X (1 .. n) -> State] /\ 0 \in State
  BY <1>2
<1>. HIDE DEF State
<1>4. PICK v \in [0 .. n -> State] : Runs(v, n, 0, Step)
  <2>. HIDE DEF Step
  <2>. QED  BY <1>3, RunExists
<1>5. v[0] = 0 /\ \A k \in 1 .. n : v[k] = Next(v[k - 1], k)
  <2>1. v[0] = 0 /\ \A k \in 1 .. n : v[k] = Step[<<v[k - 1], k>>]
    <3>. HIDE DEF Step
    <3>. QED  BY <1>4 DEF Runs
  <2>2. \A k \in 1 .. n : k - 1 \in 0 .. n
    OBVIOUS
  <2>3. \A k \in 1 .. n : <<v[k - 1], k>> \in State \X (1 .. n)
    BY <2>2
  <2>. QED  BY <2>1, <2>3
<1>. QED  BY <1>5 DEF Digits, Next, State

(* WindowHash, token by token.                                                *)
LEMMA WindowHashRuns ==
  ASSUME NEW tokens \in Seq(Tokens), NEW n \in 0 .. Len(tokens)
  PROVE  \E run \in [0 .. n -> Nat] :
            /\ run[0] = 0 /\ run[n] = WindowHash(tokens, n)
            /\ \A k \in 1 .. n : run[k] = (run[k - 1] * HashBase + tokens[k].symbol) % HashSize
<1>. DEFINE State == Nat
            base == 0
            part == SubSeq(tokens, 1, n)
            Next(x, k) == (x * HashBase + part[k].symbol) % HashSize
            Step == [q \in State \X (1 .. n) |-> Next(q[1], q[2])]
            Iterates(g) == g = [s \in SUBSET DOMAIN part |->
                                  IF s = {} THEN base ELSE Next(g[s \ {Max(s)}], Max(s))]
            it == CHOOSE g : Iterates(g)
<1>1. DOMAIN part = 1 .. n /\ n \in Nat /\ \A k \in 1 .. n : part[k] = tokens[k] /\ tokens[k].symbol \in Nat
  <2>1. n \in Nat /\ DOMAIN part = 1 .. n /\ \A k \in 1 .. n : part[k] = tokens[k]
    OBVIOUS
  <2>2. \A k \in 1 .. n : tokens[k] \in Tokens
    OBVIOUS
  <2>. QED  BY <2>1, <2>2 DEF Tokens
<1>2. ASSUME NEW x \in Nat, NEW k \in 1 .. n  PROVE Next(x, k) \in Nat
  <2>1. x * HashBase + part[k].symbol \in Int
    BY <1>1, HashAssumption
  <2>. QED  BY <2>1, RemainderCongruent
<1>3. WindowHash(tokens, n) = it[DOMAIN part]
  BY Zenon DEF WindowHash, FoldLeft, MapThenFoldSet
<1>. HIDE DEF Next, part
<1>4. Step \in [State \X (1 .. n) -> State] /\ base \in State
  BY <1>2
<1>. HIDE DEF State, base
<1>5. FoldOf(it, n, State, base, Step)
  <2>. SUFFICES ASSUME NEW g, Solves(g, n, State, base, Step)
                PROVE  Follows(it, n, State, base, Step)
    BY DEF FoldOf
  <2>1. \A s \in SUBSET (1 .. n) : s # {} => g[s] = Next(g[s \ {Max(s)}], Max(s))
    BY DEF Solves
  <2>2. Iterates(g)
    BY <1>1, <2>1 DEF Solves
  <2>3. Iterates(it)
    <3>. HIDE DEF Iterates
    <3>. QED  BY <2>2
  <2>. HIDE DEF it
  <2>. QED  BY <1>1, <2>3 DEF Follows
<1>. HIDE DEF it
<1>6. PICK run \in [0 .. n -> State] : RunsTo(run, it, n, base, Step)
  <2>. HIDE DEF Step
  <2>1. n \in Nat
    BY <1>1
  <2>. QED  BY <1>4, <1>5, <2>1, FoldRuns
<1>7. \A k \in 1 .. n : run[k] = Next(run[k - 1], k)
  <2>1. \A k \in 1 .. n : run[k] = Step[<<run[k - 1], k>>]
    <3>. HIDE DEF Step
    <3>. QED  BY <1>6 DEF Runs, RunsTo
  <2>2. \A k \in 1 .. n : k - 1 \in 0 .. n
    OBVIOUS
  <2>3. \A k \in 1 .. n : <<run[k - 1], k>> \in State \X (1 .. n)
    BY <2>2
  <2>. QED  BY <2>1, <2>3
<1>8. run[0] = base
  BY <1>6 DEF Runs, RunsTo
<1>. QED  BY <1>1, <1>3, <1>6, <1>7, <1>8 DEF RunsTo, Next, State, base

-----------------------------------------------------------------------------
(* What holds at the start and is kept by every step of a run holds at its end. *)
LEMMA RunInvariant ==
  ASSUME NEW n \in Nat, NEW run, NEW Good,
         run[0] \in Good[0], \A k \in 1 .. n : run[k - 1] \in Good[k - 1] => run[k] \in Good[k]
  PROVE  \A k \in 0 .. n : run[k] \in Good[k]
<1>. DEFINE K == {k \in Nat : k <= n => run[k] \in Good[k]}
<1>1. 0 \in K
  OBVIOUS
<1>2. ASSUME NEW k \in Nat, k \in K  PROVE k + 1 \in K
  <2>. SUFFICES ASSUME k + 1 <= n  PROVE run[k + 1] \in Good[k + 1]
    OBVIOUS
  <2>1. k + 1 \in 1 .. n /\ (k + 1) - 1 = k /\ k <= n
    OBVIOUS
  <2>2. run[k] \in Good[k]
    BY <1>2, <2>1
  <2>. QED  BY <2>1, <2>2
<1>3. \A k \in Nat : k \in K
  <2>. HIDE DEF K
  <2>. QED  BY <1>1, <1>2, SetInduction
<1>. QED  BY <1>3

(* PowBase, factor by factor.                                                 *)
LEMMA PowBaseRuns ==
  ASSUME NEW n \in Nat
  PROVE  \E run \in [0 .. n -> Nat] :
            /\ run[0] = 1 /\ run[n] = PowBase(n)
            /\ \A k \in 1 .. n : run[k] = (run[k - 1] * HashBase) % HashSize
<1>. DEFINE len == n
            State == Nat
            base == 1
            Next(x, k) == (x * HashBase) % HashSize
            Step == [q \in State \X (1 .. len) |-> Next(q[1], q[2])]
            Iterates(g) == g = [js \in SUBSET DOMAIN [i \in 1 .. n |-> i] |->
                                  IF js = {} THEN base ELSE Next(g[js \ {Max(js)}], Max(js))]
            it == CHOOSE g : Iterates(g)
<1>1. DOMAIN [i \in 1 .. n |-> i] = 1 .. len /\ len \in Nat
  OBVIOUS
<1>2. ASSUME NEW x \in State, NEW k \in 1 .. len  PROVE Next(x, k) \in State
  <2>1. x * HashBase \in Int
    BY HashAssumption
  <2>. QED  BY <2>1, RemainderCongruent
<1>3. PowBase(n) = it[DOMAIN [i \in 1 .. n |-> i]]
  BY Zenon DEF PowBase, FoldLeft, MapThenFoldSet
<1>4. base \in State
  OBVIOUS
<1>. HIDE DEF Next, State, base
<1>5. Step \in [State \X (1 .. len) -> State]
  BY <1>2
<1>6. FoldOf(it, len, State, base, Step)
  <2>. SUFFICES ASSUME NEW g, Solves(g, len, State, base, Step)
                PROVE  Follows(it, len, State, base, Step)
    BY DEF FoldOf
  <2>1. \A js \in SUBSET (1 .. len) : js # {} => g[js] = Next(g[js \ {Max(js)}], Max(js))
    BY DEF Solves
  <2>2. Iterates(g)
    BY <1>1, <2>1 DEF Solves
  <2>3. Iterates(it)
    <3>. HIDE DEF Iterates
    <3>. QED  BY <2>2
  <2>. HIDE DEF it
  <2>. QED  BY <1>1, <2>3 DEF Follows
<1>. HIDE DEF it
<1>7. PICK run \in [0 .. len -> State] : RunsTo(run, it, len, base, Step)
  <2>. HIDE DEF Step
  <2>1. len \in Nat
    BY <1>1
  <2>. QED  BY <1>4, <1>5, <1>6, <2>1, FoldRuns
<1>8. \A k \in 1 .. len : run[k] = Next(run[k - 1], k)
  <2>1. \A k \in 1 .. len : run[k] = Step[<<run[k - 1], k>>]
    <3>. HIDE DEF Step
    <3>. QED  BY <1>7 DEF Runs, RunsTo
  <2>2. \A k \in 1 .. len : k - 1 \in 0 .. len
    OBVIOUS
  <2>3. \A k \in 1 .. len : <<run[k - 1], k>> \in State \X (1 .. len)
    BY <2>2
  <2>. QED  BY <2>1, <2>3
<1>9. run[0] = base
  BY <1>7 DEF Runs, RunsTo
<1>10. run[len] = PowBase(n)
  BY <1>1, <1>3, <1>7 DEF RunsTo
<1>11. \A k \in 1 .. len : run[k] = (run[k - 1] * HashBase) % HashSize
  BY <1>1, <1>8 DEF Next
<1>. QED  BY <1>7, <1>9, <1>10, <1>11 DEF State, base

(* RollingHashes, window by window.                                           *)
LEMMA RollingRuns ==
  ASSUME NEW tokens \in Seq(Tokens), NEW n \in 1 .. Len(tokens)
  PROVE  \E run \in [0 .. Len(tokens) - n -> Seq(Int) \ {<<>>}] :
            /\ run[0] = <<WindowHash(tokens, n)>> /\ run[Len(tokens) - n] = RollingHashes(tokens, n)
            /\ \A k \in 1 .. Len(tokens) - n :
                  run[k] = Append(run[k - 1],
                                  Roll(Last(run[k - 1]), tokens[(k + 1) - 1].symbol, tokens[(k + 1) + n - 1].symbol, n))
<1>. DEFINE len == Len(tokens) - n
            seq == [k \in 1 .. Len(tokens) - n |-> k + 1]
            State == Seq(Int) \ {<<>>}
            base == <<WindowHash(tokens, n)>>
            Next(x, k) == Append(x, Roll(Last(x), tokens[seq[k] - 1].symbol, tokens[seq[k] + n - 1].symbol, n))
            Step == [q \in State \X (1 .. len) |-> Next(q[1], q[2])]
            Iterates(g) == g = [js \in SUBSET DOMAIN seq |->
                                  IF js = {} THEN base ELSE Next(g[js \ {Max(js)}], Max(js))]
            it == CHOOSE g : Iterates(g)
<1>1. DOMAIN seq = 1 .. len /\ len \in Nat /\ \A k \in 1 .. len : seq[k] = (k + 1)
  OBVIOUS
<1>2. ASSUME NEW x \in State, NEW k \in 1 .. len  PROVE Next(x, k) \in State
  <2>1. Last(x) \in Int /\ x \in Seq(Int)
    BY DEF Last
  <2>2. seq[k] - 1 \in 1 .. Len(tokens) /\ seq[k] + n - 1 \in 1 .. Len(tokens)
    OBVIOUS
  <2>3. tokens[seq[k] - 1] \in Tokens /\ tokens[seq[k] + n - 1] \in Tokens
    <3>. HIDE DEF seq
    <3>. QED  BY <2>2
  <2>. DEFINE h == Last(x)
              old == tokens[seq[k] - 1].symbol
              new == tokens[seq[k] + n - 1].symbol
  <2>4. old \in Nat /\ new \in Nat
    BY <2>3 DEF Tokens
  <2>. HIDE DEF old, new, h
  <2>5. PowBase(n - 1) \in Nat
    <3>1. n - 1 \in Nat
      OBVIOUS
    <3>2. PICK run \in [0 .. n - 1 -> Nat] : run[n - 1] = PowBase(n - 1)
      BY <3>1, PowBaseRuns
    <3>. QED  BY <3>1, <3>2
  <2>6. Roll(h, old, new, n) \in Int
    <3>1. old * PowBase(n - 1) \in Int /\ h \in Int
      BY <2>1, <2>4, <2>5 DEF h
    <3>2. h - old * PowBase(n - 1) \in Int /\ HashBase \in Int
      BY <3>1, HashAssumption
    <3>3. (h - old * PowBase(n - 1)) * HashBase \in Int
      BY <3>2
    <3>4. (h - old * PowBase(n - 1)) * HashBase + new \in Int
      BY <3>3, <2>4
    <3>. QED  BY <3>4, RemainderCongruent DEF Roll
  <2>7. Append(x, Roll(h, old, new, n)) \in Seq(Int) \ {<<>>}
    <3>. HIDE DEF Next
    <3>. QED  BY <2>1, <2>6
  <2>. QED  BY <2>7 DEF h, old, new
<1>3. RollingHashes(tokens, n) = it[DOMAIN seq]
  BY Zenon DEF RollingHashes, FoldLeft, MapThenFoldSet
<1>4. base \in State
  <2>1. PICK run \in [0 .. n -> Nat] : run[n] = WindowHash(tokens, n)
    <3>1. n \in 0 .. Len(tokens)
      OBVIOUS
    <3>. QED  BY <3>1, WindowHashRuns
  <2>. QED  BY <2>1
<1>. HIDE DEF Next, State, base, seq
<1>5. Step \in [State \X (1 .. len) -> State]
  BY <1>2
<1>6. FoldOf(it, len, State, base, Step)
  <2>. SUFFICES ASSUME NEW g, Solves(g, len, State, base, Step)
                PROVE  Follows(it, len, State, base, Step)
    BY DEF FoldOf
  <2>1. \A js \in SUBSET (1 .. len) : js # {} => g[js] = Next(g[js \ {Max(js)}], Max(js))
    BY DEF Solves
  <2>2. Iterates(g)
    BY <1>1, <2>1 DEF Solves
  <2>3. Iterates(it)
    <3>. HIDE DEF Iterates
    <3>. QED  BY <2>2
  <2>. HIDE DEF it
  <2>. QED  BY <1>1, <2>3 DEF Follows
<1>. HIDE DEF it
<1>7. PICK run \in [0 .. len -> State] : RunsTo(run, it, len, base, Step)
  <2>. HIDE DEF Step
  <2>1. len \in Nat
    BY <1>1
  <2>. QED  BY <1>4, <1>5, <1>6, <2>1, FoldRuns
<1>8. \A k \in 1 .. len : run[k] = Next(run[k - 1], k)
  <2>1. \A k \in 1 .. len : run[k] = Step[<<run[k - 1], k>>]
    <3>. HIDE DEF Step
    <3>. QED  BY <1>7 DEF Runs, RunsTo
  <2>2. \A k \in 1 .. len : k - 1 \in 0 .. len
    OBVIOUS
  <2>3. \A k \in 1 .. len : <<run[k - 1], k>> \in State \X (1 .. len)
    BY <2>2
  <2>. QED  BY <2>1, <2>3
<1>9. run[0] = base
  BY <1>7 DEF Runs, RunsTo
<1>10. run[len] = RollingHashes(tokens, n)
  BY <1>1, <1>3, <1>7 DEF RunsTo
<1>11. \A k \in 1 .. len :
          run[k] = Append(run[k - 1],
                          Roll(Last(run[k - 1]), tokens[(k + 1) - 1].symbol, tokens[(k + 1) + n - 1].symbol, n))
  BY <1>1, <1>8 DEF Next
<1>. QED  BY <1>7, <1>9, <1>10, <1>11 DEF State, base

-----------------------------------------------------------------------------
(* WindowHash computes its number modulo the size of the hash.                 *)
LEMMA HashOfDigits ==
  ASSUME NEW tokens \in Seq(Tokens), NEW n \in 1 .. Len(tokens), NEW v, Digits(v, tokens, 1, n)
  PROVE  WindowHash(tokens, n) = v[n] % HashSize
<1>. DEFINE m == HashSize
            Good == [k \in 0 .. n |-> {x \in Nat : Congruent(x, v[k])}]
<1>1. n \in Nat /\ n \in 0 .. Len(tokens)
  OBVIOUS
<1>2. PICK run \in [0 .. n -> Nat] :
         /\ run[0] = 0 /\ run[n] = WindowHash(tokens, n)
         /\ \A k \in 1 .. n : run[k] = (run[k - 1] * HashBase + tokens[k].symbol) % m
  BY <1>1, WindowHashRuns
<1>3. v \in [0 .. n -> Int] /\ v[0] = 0 /\ HashBase \in Int /\ m \in Int
  BY HashAssumption DEF Digits
<1>4. Congruent(0, 0)
  <2>1. 0 = 0 + 0 * m
    BY <1>3
  <2>. QED  BY <2>1 DEF Congruent
<1>5. ASSUME NEW k \in 1 .. n
      PROVE  /\ k - 1 \in 0 .. n /\ k \in 0 .. n /\ tokens[k].symbol \in Int
             /\ v[k] = v[k - 1] * HashBase + tokens[k].symbol
  <2>1. tokens[k] \in Tokens /\ 1 + k - 1 = k
    OBVIOUS
  <2>2. v[k] = v[k - 1] * HashBase + tokens[1 + k - 1].symbol
    BY DEF Digits
  <2>3. tokens[k].symbol \in Nat
    BY <2>1 DEF Tokens
  <2>. QED  BY <2>1, <2>2, <2>3
<1>6. ASSUME NEW k \in 1 .. n, run[k - 1] \in Good[k - 1]
      PROVE  run[k] \in Good[k]
  <2>. DEFINE a == run[k - 1]
              b == v[k - 1]
              t == tokens[k].symbol
              B == HashBase
  <2>1. a \in Int /\ b \in Int /\ t \in Int /\ Congruent(a, b)
    <3>1. k - 1 \in 0 .. n /\ t \in Int
      BY <1>5
    <3>2. a \in Nat /\ Congruent(a, b)
      BY <1>6, <3>1
    <3>. QED  BY <1>3, <3>1, <3>2
  <2>2. run[k] = (a * B + t) % m /\ v[k] = b * B + t
    BY <1>2, <1>5
  <2>3. k \in 0 .. n /\ run[k] \in Nat /\ v[k] \in Int
    BY <1>2, <1>3
  <2>. HIDE DEF a, b, t, B
  <2>4. B \in Int
    BY <1>3 DEF B
  <2>5. Congruent(a * B + t, b * B + t)
    BY <2>1, <2>4, CongruentSteps
  <2>6. a * B + t \in Int /\ b * B + t \in Int
    <3>1. a * B \in Int /\ b * B \in Int
      BY <2>1, <2>4
    <3>. QED  BY <3>1, <2>1
  <2>7. Congruent((a * B + t) % m, a * B + t) /\ (a * B + t) % m \in Int
    BY <2>6, RemainderCongruent
  <2>. HIDE DEF m
  <2>8. Congruent((a * B + t) % m, b * B + t)
    BY <2>5, <2>6, <2>7, CongruentChains
  <2>. QED  BY <2>2, <2>3, <2>8
<1>7. run[0] \in Good[0]
  BY <1>1, <1>2, <1>3, <1>4
<1>8. run[n] \in Good[n]
  <2>. HIDE DEF Good
  <2>1. \A k \in 0 .. n : run[k] \in Good[k]
    BY <1>1, <1>6, <1>7, RunInvariant
  <2>. QED  BY <1>1, <2>1
<1>9. Congruent(run[n], v[n]) /\ run[n] \in Int /\ v[n] \in Int
  BY <1>1, <1>3, <1>8
<1>10. run[n] % m = v[n] % m
  BY <1>9, CongruentRemainders
<1>11. run[n] % m = run[n]
  <2>1. n \in 1 .. n /\ n - 1 \in 0 .. n
    OBVIOUS
  <2>2. run[n] = (run[n - 1] * HashBase + tokens[n].symbol) % m
    BY <1>2, <2>1
  <2>3. run[n - 1] * HashBase + tokens[n].symbol \in Int
    <3>1. run[n - 1] * HashBase \in Int
      BY <1>2, <1>3, <2>1
    <3>. QED  BY <1>5, <2>1, <3>1
  <2>4. run[n] \in 0 .. m - 1
    BY <2>2, <2>3, RemainderCongruent
  <2>. HIDE DEF m
  <2>5. m \in Nat \ {0}
    BY HashAssumption DEF m
  <2>6. \A d \in Nat \ {0} : \A r \in 0 .. d - 1 : r % d = r
    OBVIOUS
  <2>. QED  BY <2>4, <2>5, <2>6
<1>. QED  BY <1>2, <1>10, <1>11

(* PowBase computes the power modulo the size of the hash.                    *)
LEMMA PowBaseOfPowers ==
  ASSUME NEW n \in Nat, NEW p, Powers(p, n)
  PROVE  PowBase(n) \in Int /\ Congruent(PowBase(n), p[n])
<1>. DEFINE m == HashSize
            Good == [k \in 0 .. n |-> {x \in Nat : Congruent(x, p[k])}]
<1>2. PICK run \in [0 .. n -> Nat] :
         /\ run[0] = 1 /\ run[n] = PowBase(n)
         /\ \A k \in 1 .. n : run[k] = (run[k - 1] * HashBase) % m
  BY PowBaseRuns
<1>3. p \in [0 .. n -> Int] /\ p[0] = 1 /\ HashBase \in Int /\ m \in Int
  BY HashAssumption DEF Powers
<1>4. Congruent(1, 1)
  <2>1. 1 = 1 + 0 * m
    BY <1>3
  <2>. QED  BY <2>1 DEF Congruent
<1>6. ASSUME NEW k \in 1 .. n, run[k - 1] \in Good[k - 1]
      PROVE  run[k] \in Good[k]
  <2>. DEFINE a == run[k - 1]
              b == p[k - 1]
              B == HashBase
  <2>1. a \in Int /\ b \in Int /\ Congruent(a, b)
    BY <1>3, <1>6
  <2>2. run[k] = (a * B) % m /\ p[k] = b * B
    BY <1>2 DEF Powers
  <2>3. k \in 0 .. n /\ run[k] \in Nat /\ p[k] \in Int
    BY <1>2, <1>3
  <2>. HIDE DEF a, b, B
  <2>4. B \in Int
    BY <1>3 DEF B
  <2>. DEFINE zero == 0
  <2>5. Congruent(a * B + zero, b * B + zero)
    <3>1. zero \in Int
      OBVIOUS
    <3>. HIDE DEF zero
    <3>. QED  BY <2>1, <2>4, <3>1, CongruentSteps
  <2>6. a * B \in Int /\ b * B \in Int /\ a * B + zero = a * B /\ b * B + zero = b * B
    BY <2>1, <2>4
  <2>7. Congruent((a * B) % m, a * B) /\ (a * B) % m \in Int
    BY <2>6, RemainderCongruent
  <2>. HIDE DEF m, zero
  <2>8. Congruent((a * B) % m, b * B)
    BY <2>5, <2>6, <2>7, CongruentChains
  <2>. QED  BY <2>2, <2>3, <2>8
<1>7. run[0] \in Good[0]
  BY <1>2, <1>3, <1>4
<1>8. run[n] \in Good[n]
  <2>. HIDE DEF Good
  <2>1. \A k \in 0 .. n : run[k] \in Good[k]
    BY <1>6, <1>7, RunInvariant
  <2>. QED  BY <2>1
<1>. QED  BY <1>2, <1>8

(* The number of the next window, from the number of this one.                *)
LEMMA DigitsShift ==
  ASSUME NEW tokens \in Seq(Tokens), NEW n \in Nat \ {0}, NEW i \in Nat \ {0}, i + n <= Len(tokens),
         NEW v, Digits(v, tokens, i, n), NEW w, Digits(w, tokens, i + 1, n), NEW p, Powers(p, n - 1)
  PROVE  w[n] = (v[n] - tokens[i].symbol * p[n - 1]) * HashBase + tokens[i + n].symbol
<1>. DEFINE B == HashBase
            s(j) == tokens[j].symbol
            Good == [k \in 0 .. n - 1 |-> {x \in Int : x = v[k + 1] - s(i) * p[k]}]
<1>1. B \in Int /\ \A j \in 1 .. Len(tokens) : s(j) \in Int
  <2>1. ASSUME NEW j \in 1 .. Len(tokens)  PROVE s(j) \in Int
    <3>1. tokens[j] \in Tokens
      OBVIOUS
    <3>2. s(j) \in Nat
      BY <3>1 DEF Tokens
    <3>. HIDE DEF s
    <3>. QED  BY <3>2
  <2>. QED  BY <2>1, HashAssumption
<1>2. v \in [0 .. n -> Int] /\ w \in [0 .. n -> Int] /\ p \in [0 .. n - 1 -> Int]
  BY DEF Digits, Powers
<1>3. v[0] = 0 /\ w[0] = 0 /\ p[0] = 1
  BY DEF Digits, Powers
<1>4. \A k \in 1 .. n : /\ v[k] = v[k - 1] * B + s(i + k - 1)
                        /\ w[k] = w[k - 1] * B + s(i + 1 + k - 1)
  BY DEF Digits
<1>5. \A k \in 1 .. n - 1 : p[k] = p[k - 1] * B
  BY DEF Powers
<1>. HIDE DEF B, s
<1>6. w[0] \in Good[0]
  <2>1. 1 \in 1 .. n /\ 1 - 1 = 0 /\ i + 1 - 1 = i /\ 0 \in 0 .. n - 1 /\ i \in 1 .. Len(tokens)
    OBVIOUS
  <2>2. v[1] = 0 * B + s(i)
    BY <1>3, <1>4, <2>1
  <2>3. 0 = v[1] - s(i) * 1
    BY <1>1, <2>1, <2>2
  <2>. QED  BY <1>3, <2>1, <2>3
<1>7. ASSUME NEW k \in 1 .. n - 1, w[k - 1] \in Good[k - 1]
      PROVE  w[k] \in Good[k]
  <2>1. /\ k \in 1 .. n /\ k + 1 \in 1 .. n /\ (k + 1) - 1 = k /\ (k - 1) + 1 = k /\ k - 1 \in 0 .. n - 1
        /\ k \in 0 .. n - 1 /\ i + (k + 1) - 1 = i + 1 + k - 1 /\ i + 1 + k - 1 \in 1 .. Len(tokens)
        /\ i \in 1 .. Len(tokens)
    OBVIOUS
  <2>. DEFINE t == s(i + 1 + k - 1)
              a == v[k]
              q == p[k - 1]
              c == s(i)
              x == w[k - 1]
  <2>2. /\ t \in Int /\ a \in Int /\ q \in Int /\ c \in Int /\ x \in Int
    <3>1. t \in Int /\ c \in Int
      BY <1>1, <2>1
    <3>2. k - 1 \in 0 .. n /\ k \in 0 .. n
      OBVIOUS
    <3>. QED  BY <1>2, <2>1, <3>1, <3>2
  <2>3. x = a - c * q
    BY <1>7, <2>1
  <2>4. w[k] = x * B + t /\ v[k + 1] = a * B + t /\ p[k] = q * B
    BY <1>4, <1>5, <2>1
  <2>5. w[k] \in Int
    BY <1>2, <2>1
  <2>6. w[k] = v[k + 1] - c * p[k]
    <3>. HIDE DEF t, a, q, c, x
    <3>1. (a - c * q) * B + t = (a * B + t) - c * (q * B)
      BY <1>1, <2>2
    <3>. QED  BY <2>3, <2>4, <3>1
  <2>. QED  BY <2>1, <2>5, <2>6
<1>8. w[n - 1] = v[n] - s(i) * p[n - 1]
  <2>1. n - 1 \in Nat /\ n - 1 \in 0 .. n - 1 /\ (n - 1) + 1 = n
    OBVIOUS
  <2>2. \A k \in 0 .. n - 1 : w[k] \in Good[k]
    <3>. HIDE DEF Good
    <3>. QED  BY <1>6, <1>7, <2>1, RunInvariant
  <2>3. w[n - 1] \in Good[n - 1]
    BY <2>1, <2>2
  <2>. QED  BY <2>1, <2>3
<1>9. w[n] = w[n - 1] * B + s(i + n)
  <2>1. n \in 1 .. n /\ i + 1 + n - 1 = i + n
    OBVIOUS
  <2>. QED  BY <1>4, <2>1
<1>. QED  BY <1>8, <1>9 DEF B, s

(* Equal symbols write equal numbers.                                         *)
SameRun(x, i, y, j, n) == \A k \in 1 .. n : x[i + k - 1].symbol = y[j + k - 1].symbol

LEMMA DigitsAgree ==
  ASSUME NEW n \in Nat, NEW x, NEW i, NEW v, Digits(v, x, i, n), NEW y, NEW j, NEW w, Digits(w, y, j, n),
         SameRun(x, i, y, j, n)
  PROVE  v[n] = w[n]
<1>. DEFINE Good == [k \in 0 .. n |-> {w[k]}]
<1>1. v[0] \in Good[0]
  BY DEF Digits
<1>2. ASSUME NEW k \in 1 .. n, v[k - 1] \in Good[k - 1]
      PROVE  v[k] \in Good[k]
  <2>1. k - 1 \in 0 .. n /\ k \in 0 .. n
    OBVIOUS
  <2>2. v[k - 1] = w[k - 1]
    BY <1>2, <2>1
  <2>3. v[k] = v[k - 1] * HashBase + x[i + k - 1].symbol
    BY DEF Digits
  <2>4. w[k] = w[k - 1] * HashBase + y[j + k - 1].symbol
    BY DEF Digits
  <2>5. v[k] = w[k]
    BY <2>2, <2>3, <2>4 DEF SameRun
  <2>. QED  BY <2>1, <2>5
<1>3. v[n] \in Good[n]
  <2>. HIDE DEF Good
  <2>1. \A k \in 0 .. n : v[k] \in Good[k]
    BY <1>1, <1>2, RunInvariant
  <2>. QED  BY <2>1
<1>. QED  BY <1>3

-----------------------------------------------------------------------------
(* The powers exist.                                                          *)
LEMMA PowersExist ==
  ASSUME NEW n \in Nat
  PROVE  \E p : Powers(p, n)
<1>. DEFINE State == Int
            base == 1
            Step == [q \in State \X (1 .. n) |-> q[1] * HashBase]
<1>1. \A x \in Int : x * HashBase \in Int
  BY HashAssumption
<1>2. Step \in [State \X (1 .. n) -> State] /\ base \in State
  BY <1>1
<1>3. PICK p \in [0 .. n -> State] : Runs(p, n, base, Step)
  <2>. HIDE DEF Step, State, base
  <2>. QED  BY <1>2, RunExists
<1>4. p[0] = 1 /\ \A k \in 1 .. n : p[k] = p[k - 1] * HashBase
  <2>1. p[0] = base /\ \A k \in 1 .. n : p[k] = Step[<<p[k - 1], k>>]
    <3>. HIDE DEF Step
    <3>. QED  BY <1>3 DEF Runs
  <2>2. \A k \in 1 .. n : k - 1 \in 0 .. n
    OBVIOUS
  <2>3. \A k \in 1 .. n : <<p[k - 1], k>> \in State \X (1 .. n)
    BY <2>2
  <2>. QED  BY <2>1, <2>3
<1>. QED  BY <1>4 DEF Powers

(* Rolling on gives the remainder of the next window's number.                *)
LEMMA RollStep ==
  ASSUME NEW tokens \in Seq(Tokens), NEW n \in Nat \ {0}, NEW i \in Nat \ {0}, i + n <= Len(tokens),
         NEW v, Digits(v, tokens, i, n), NEW w, Digits(w, tokens, i + 1, n)
  PROVE  Roll(v[n] % HashSize, tokens[i].symbol, tokens[i + n].symbol, n) = w[n] % HashSize
<1>. DEFINE m == HashSize
            h == v[n] % m
            t == tokens[i].symbol
            u == tokens[i + n].symbol
            B == HashBase
            b == PowBase(n - 1)
<1>1. n - 1 \in Nat
  OBVIOUS
<1>2. PICK p : Powers(p, n - 1)
  BY <1>1, PowersExist
<1>3. w[n] = (v[n] - t * p[n - 1]) * B + u
  BY <1>2, DigitsShift
<1>4. v[n] \in Int /\ p[n - 1] \in Int /\ B \in Int
  <2>1. n \in 0 .. n /\ n - 1 \in 0 .. n - 1
    OBVIOUS
  <2>. QED  BY <1>2, <2>1, HashAssumption DEF Digits, Powers
<1>5. t \in Int /\ u \in Int
  <2>1. i \in 1 .. Len(tokens) /\ i + n \in 1 .. Len(tokens)
    OBVIOUS
  <2>2. tokens[i] \in Tokens /\ tokens[i + n] \in Tokens
    BY <2>1
  <2>3. tokens[i].symbol \in Nat /\ tokens[i + n].symbol \in Nat
    BY <2>2 DEF Tokens
  <2>. QED  BY <2>3
<1>6. h \in Int /\ Congruent(h, v[n])
  BY <1>4, RemainderCongruent
<1>7. b \in Int /\ Congruent(b, p[n - 1])
  BY <1>1, <1>2, PowBaseOfPowers
<1>. DEFINE x == v[n]  y == p[n - 1]
<1>8. Roll(h, t, u, n) = ((h - t * b) * B + u) % m
  BY DEF Roll
<1>9. x \in Int /\ y \in Int /\ Congruent(h, x) /\ Congruent(b, y) /\ w[n] = (x - t * y) * B + u
  BY <1>3, <1>4, <1>6, <1>7
<1>. HIDE DEF h, t, u, B, b, x, y
<1>10. h - t * b \in Int /\ x - t * y \in Int
  <2>1. t * b \in Int /\ t * y \in Int
    BY <1>5, <1>7, <1>9
  <2>. QED  BY <1>6, <1>9, <2>1
<1>11. Congruent(h - t * b, x - t * y)
  BY <1>5, <1>6, <1>7, <1>9, CongruentDifferences
<1>12. Congruent((h - t * b) * B + u, (x - t * y) * B + u)
  BY <1>4, <1>5, <1>10, <1>11, CongruentSteps
<1>13. (h - t * b) * B + u \in Int /\ (x - t * y) * B + u \in Int
  <2>1. (h - t * b) * B \in Int /\ (x - t * y) * B \in Int
    BY <1>4, <1>10
  <2>. QED  BY <1>5, <2>1
<1>14. ((h - t * b) * B + u) % m = ((x - t * y) * B + u) % m
  BY <1>12, <1>13, CongruentRemainders
<1>15. Roll(h, t, u, n) = w[n] % m
  BY <1>8, <1>9, <1>14
<1>. QED  BY <1>15, Zenon DEF h, t, u

(* The hashes of the first k + 1 windows are the remainders of their numbers. *)
HashesUpTo(hashes, tokens, n, k) ==
    /\ hashes \in Seq(Int) /\ Len(hashes) = k + 1
    /\ \A i \in 1 .. k + 1 : \A v : Digits(v, tokens, i, n) => hashes[i] = v[n] % HashSize

(* All of them.                                                               *)
LEMMA HashesOfDigits ==
  ASSUME NEW tokens \in Seq(Tokens), NEW n \in 1 .. Len(tokens)
  PROVE  HashesUpTo(RollingHashes(tokens, n), tokens, n, Len(tokens) - n)
<1>. DEFINE len == Len(tokens) - n
            Good == [k \in 0 .. len |-> {x \in Seq(Int) : HashesUpTo(x, tokens, n, k)}]
<1>1. PICK run \in [0 .. len -> Seq(Int) \ {<<>>}] :
         /\ run[0] = <<WindowHash(tokens, n)>> /\ run[len] = RollingHashes(tokens, n)
         /\ \A k \in 1 .. len : run[k] = Append(run[k - 1], Roll(Last(run[k - 1]), tokens[(k + 1) - 1].symbol,
                                                               tokens[(k + 1) + n - 1].symbol, n))
  BY RollingRuns
<1>2. len \in Nat /\ n \in Nat \ {0} /\ n \in Nat
  OBVIOUS
<1>3. run[0] \in Good[0]
  <2>1. run[0] \in Seq(Int) /\ Len(run[0]) = 1 /\ run[0][1] = WindowHash(tokens, n)
    BY <1>1, <1>2
  <2>2. ASSUME NEW i \in 1 .. 1, NEW v, Digits(v, tokens, i, n)
        PROVE  run[0][i] = v[n] % HashSize
    <3>1. i = 1
      OBVIOUS
    <3>2. Digits(v, tokens, 1, n)
      BY <2>2, <3>1
    <3>3. WindowHash(tokens, n) = v[n] % HashSize
      BY <3>2, HashOfDigits
    <3>. QED  BY <2>1, <3>1, <3>3
  <2>3. 0 + 1 = 1 /\ 0 \in 0 .. len
    BY <1>2
  <2>. QED  BY <2>1, <2>2, <2>3 DEF HashesUpTo
<1>4. ASSUME NEW k \in 1 .. len, run[k - 1] \in Good[k - 1]
      PROVE  run[k] \in Good[k]
  <2>. DEFINE x == run[k - 1]
              next == Roll(Last(x), tokens[(k + 1) - 1].symbol, tokens[(k + 1) + n - 1].symbol, n)
  <2>1. /\ k - 1 \in 0 .. len /\ k \in 0 .. len /\ (k - 1) + 1 = k /\ (k + 1) - 1 = k
        /\ (k + 1) + n - 1 = k + n /\ k \in Nat \ {0} /\ k + n <= Len(tokens)
    OBVIOUS
  <2>2. HashesUpTo(x, tokens, n, k - 1)
    BY <1>4, <2>1
  <2>3. x \in Seq(Int) /\ Len(x) = k /\ run[k] = Append(x, next) /\ run[k] \in Seq(Int)
    BY <1>1, <2>1, <2>2 DEF HashesUpTo
  <2>4. ASSUME NEW v, Digits(v, tokens, k + 1, n)
        PROVE  next = v[n] % HashSize
    <3>1. PICK u : Digits(u, tokens, k, n)
      <4>1. k + n - 1 <= Len(tokens)
        OBVIOUS
      <4>. QED  BY <1>2, <2>1, <4>1, DigitsExist
    <3>2. Last(x) = u[n] % HashSize
      <4>1. k \in 1 .. (k - 1) + 1
        OBVIOUS
      <4>2. x[k] = u[n] % HashSize
        BY <2>2, <3>1, <4>1 DEF HashesUpTo
      <4>. QED  BY <2>3, <4>2 DEF Last
    <3>3. Roll(u[n] % HashSize, tokens[k].symbol, tokens[k + n].symbol, n) = v[n] % HashSize
      BY <1>2, <2>1, <2>4, <3>1, RollStep
    <3>. QED  BY <2>1, <3>2, <3>3
  <2>. HIDE DEF next, x
  <2>5. Len(run[k]) = k + 1 /\ run[k][k + 1] = next /\ \A i \in 1 .. k : run[k][i] = x[i]
    <3>1. next \in Int
      <4>1. PICK v : Digits(v, tokens, k + 1, n)
        <5>1. (k + 1) + n - 1 <= Len(tokens) /\ k + 1 \in Nat \ {0}
          OBVIOUS
        <5>. QED  BY <1>2, <5>1, DigitsExist
      <4>2. v[n] \in Int
        <5>1. n \in 0 .. n
          BY <1>2
        <5>. QED  BY <4>1, <5>1 DEF Digits
      <4>. QED  BY <2>4, <4>1, <4>2, RemainderCongruent
    <3>. QED  BY <2>3, <3>1
  <2>6. ASSUME NEW i \in 1 .. k + 1, NEW v, Digits(v, tokens, i, n)
        PROVE  run[k][i] = v[n] % HashSize
    <3>1. CASE i = k + 1
      BY <2>4, <2>5, <2>6, <3>1
    <3>2. CASE i # k + 1
      <4>1. i \in 1 .. k /\ i \in 1 .. (k - 1) + 1
        BY <3>2
      <4>2. x[i] = v[n] % HashSize
        BY <2>2, <2>6, <4>1 DEF HashesUpTo
      <4>. QED  BY <2>5, <4>1, <4>2
    <3>. QED  BY <3>1, <3>2
  <2>7. HashesUpTo(run[k], tokens, n, k)
    BY <2>3, <2>5, <2>6 DEF HashesUpTo
  <2>. QED  BY <2>1, <2>3, <2>7
<1>5. run[len] \in Good[len]
  <2>. HIDE DEF Good
  <2>1. \A k \in 0 .. len : run[k] \in Good[k]
    <3>. HIDE DEF len
    <3>. QED  BY <1>2, <1>3, <1>4, RunInvariant
  <2>. QED  BY <1>2, <2>1
<1>. QED  BY <1>1, <1>2, <1>5

(* So windows with the same symbols have the same hash, wherever they stand.  *)
LEMMA EqualWindowsHash ==
  ASSUME NEW n \in Nat \ {0}, NEW x \in Seq(Tokens), NEW i \in 1 .. Len(x) - n + 1,
         NEW y \in Seq(Tokens), NEW j \in 1 .. Len(y) - n + 1,
         SameRun(x, i, y, j, n)
  PROVE  /\ RollingHashes(x, n)[i] = RollingHashes(y, n)[j]
         /\ RollingHashes(x, n)[i] \in 0 .. HashSize - 1
<1>1. /\ n \in 1 .. Len(x) /\ n \in 1 .. Len(y) /\ n \in Nat /\ i \in Nat \ {0} /\ j \in Nat \ {0}
      /\ i + n - 1 <= Len(x) /\ j + n - 1 <= Len(y)
      /\ i \in 1 .. (Len(x) - n) + 1 /\ j \in 1 .. (Len(y) - n) + 1
  OBVIOUS
<1>2. PICK v : Digits(v, x, i, n)
  BY <1>1, DigitsExist
<1>3. PICK w : Digits(w, y, j, n)
  BY <1>1, DigitsExist
<1>4. RollingHashes(x, n)[i] = v[n] % HashSize
  BY <1>1, <1>2, HashesOfDigits DEF HashesUpTo
<1>5. RollingHashes(y, n)[j] = w[n] % HashSize
  BY <1>1, <1>3, HashesOfDigits DEF HashesUpTo
<1>6. v[n] = w[n]
  BY <1>1, <1>2, <1>3, DigitsAgree
<1>7. v[n] \in Int
  <2>1. n \in 0 .. n
    OBVIOUS
  <2>. QED  BY <1>2, <2>1 DEF Digits
<1>. QED  BY <1>4, <1>5, <1>6, <1>7, RemainderCongruent

-----------------------------------------------------------------------------
(* Filtering and sorting keep what they should.                               *)

(* Selected, run by run.                                                      *)
LEMMA SelectedRuns ==
  ASSUME NEW T, NEW s \in Seq(T), NEW S
  PROVE  \E run \in [0 .. Len(s) -> Seq(T)] :
            /\ run[0] = <<>> /\ run[Len(s)] = Selected(s, S)
            /\ \A k \in 1 .. Len(s) : run[k] = IF s[k] \in S THEN Append(run[k - 1], s[k]) ELSE run[k - 1]
<1>. DEFINE len == Len(s)
            State == Seq(T)
            base == <<>>
            Next(x, k) == IF s[k] \in S THEN Append(x, s[k]) ELSE x
            Step == [q \in State \X (1 .. len) |-> Next(q[1], q[2])]
            Iterates(g) == g = [js \in SUBSET DOMAIN s |->
                                  IF js = {} THEN base ELSE Next(g[js \ {Max(js)}], Max(js))]
            it == CHOOSE g : Iterates(g)
<1>1. DOMAIN s = 1 .. len /\ len \in Nat
  OBVIOUS
<1>2. ASSUME NEW x \in State, NEW k \in 1 .. len  PROVE Next(x, k) \in State
  <2>1. s[k] \in T
    OBVIOUS
  <2>. QED  BY <2>1
<1>3. Selected(s, S) = it[DOMAIN s]
  BY Zenon DEF Selected, FoldLeft, MapThenFoldSet
<1>4. base \in State
  OBVIOUS
<1>. HIDE DEF Next, State, base
<1>5. Step \in [State \X (1 .. len) -> State]
  BY <1>2
<1>6. FoldOf(it, len, State, base, Step)
  <2>. SUFFICES ASSUME NEW g, Solves(g, len, State, base, Step)
                PROVE  Follows(it, len, State, base, Step)
    BY DEF FoldOf
  <2>1. \A js \in SUBSET (1 .. len) : js # {} => g[js] = Next(g[js \ {Max(js)}], Max(js))
    BY DEF Solves
  <2>2. Iterates(g)
    BY <1>1, <2>1 DEF Solves
  <2>3. Iterates(it)
    <3>. HIDE DEF Iterates
    <3>. QED  BY <2>2
  <2>. HIDE DEF it
  <2>. QED  BY <1>1, <2>3 DEF Follows
<1>. HIDE DEF it
<1>7. PICK run \in [0 .. len -> State] : RunsTo(run, it, len, base, Step)
  <2>. HIDE DEF Step
  <2>1. len \in Nat
    BY <1>1
  <2>. QED  BY <1>4, <1>5, <1>6, <2>1, FoldRuns
<1>8. \A k \in 1 .. len : run[k] = Next(run[k - 1], k)
  <2>1. \A k \in 1 .. len : run[k] = Step[<<run[k - 1], k>>]
    <3>. HIDE DEF Step
    <3>. QED  BY <1>7 DEF Runs, RunsTo
  <2>2. \A k \in 1 .. len : k - 1 \in 0 .. len
    OBVIOUS
  <2>3. \A k \in 1 .. len : <<run[k - 1], k>> \in State \X (1 .. len)
    BY <2>2
  <2>. QED  BY <2>1, <2>3
<1>9. run[0] = base
  BY <1>7 DEF Runs, RunsTo
<1>10. run[len] = Selected(s, S)
  BY <1>1, <1>3, <1>7 DEF RunsTo
<1>11. \A k \in 1 .. len : run[k] = IF s[k] \in S THEN Append(run[k - 1], s[k]) ELSE run[k - 1]
  BY <1>1, <1>8 DEF Next
<1>. QED  BY <1>7, <1>9, <1>10, <1>11 DEF State, base

(* The elements of a sequence after an Append and in a prefix.                *)
LEMMA AppendedSet ==
  ASSUME NEW T, NEW s \in Seq(T), NEW x \in T
  PROVE  Append(s, x) \in Seq(T) /\ ToSet(Append(s, x)) = ToSet(s) \cup {x}
<1>. DEFINE r == Append(s, x)
<1>1. /\ r \in Seq(T) /\ DOMAIN r = DOMAIN s \cup {Len(s) + 1}
      /\ r[Len(s) + 1] = x /\ \A i \in DOMAIN s : r[i] = s[i]
  BY Appended
<1>. HIDE DEF r
<1>. QED  BY <1>1 DEF ToSet, r

(* Selected gives the elements that are in the set, and only those.           *)
LEMMA SelectedSet ==
  ASSUME NEW T, NEW s \in Seq(T), NEW S
  PROVE  Selected(s, S) \in Seq(T) /\ ToSet(Selected(s, S)) = ToSet(s) \cap S
<1>. DEFINE n == Len(s)
            Good == [k \in 0 .. n |-> {r \in Seq(T) : ToSet(r) = {s[i] : i \in 1 .. k} \cap S}]
<1>1. n \in Nat /\ DOMAIN s = 1 .. n /\ 0 \in 0 .. n /\ n \in 0 .. n
  OBVIOUS
<1>2. PICK run \in [0 .. n -> Seq(T)] :
         /\ run[0] = <<>> /\ run[n] = Selected(s, S)
         /\ \A k \in 1 .. n : run[k] = IF s[k] \in S THEN Append(run[k - 1], s[k]) ELSE run[k - 1]
  BY SelectedRuns
<1>3. run[0] \in Good[0]
  <2>1. 1 .. 0 = {}
    OBVIOUS
  <2>2. ToSet(run[0]) = {}
    BY <1>2 DEF ToSet
  <2>. QED  BY <1>1, <1>2, <2>1, <2>2
<1>4. ASSUME NEW k \in 1 .. n, run[k - 1] \in Good[k - 1]
      PROVE  run[k] \in Good[k]
  <2>1. k \in 0 .. n /\ k - 1 \in 0 .. n /\ k \in DOMAIN s
    BY <1>1
  <2>2. run[k - 1] \in Seq(T) /\ ToSet(run[k - 1]) = {s[i] : i \in 1 .. k - 1} \cap S
    BY <1>4, <2>1
  <2>3. s[k] \in T /\ run[k] \in Seq(T)
    BY <1>2, <2>1
  <2>4. {s[i] : i \in 1 .. k} = {s[i] : i \in 1 .. k - 1} \cup {s[k]}
    <3>1. 1 .. k = (1 .. k - 1) \cup {k}
      OBVIOUS
    <3>. QED  BY <3>1
  <2>5. ToSet(run[k]) = {s[i] : i \in 1 .. k} \cap S
    <3>1. CASE s[k] \in S
      <4>1. run[k] = Append(run[k - 1], s[k])
        BY <1>2, <3>1
      <4>2. ToSet(run[k]) = ToSet(run[k - 1]) \cup {s[k]}
        BY <2>2, <2>3, <4>1, AppendedSet
      <4>. QED  BY <2>2, <2>4, <3>1, <4>2
    <3>2. CASE s[k] \notin S
      <4>1. run[k] = run[k - 1]
        BY <1>2, <3>2
      <4>. QED  BY <2>2, <2>4, <3>2, <4>1
    <3>. QED  BY <3>1, <3>2
  <2>. QED  BY <2>1, <2>3, <2>5
<1>5. run[n] \in Good[n]
  <2>. HIDE DEF Good
  <2>1. \A k \in 0 .. n : run[k] \in Good[k]
    <3>. HIDE DEF n
    <3>. QED  BY <1>1, <1>3, <1>4, RunInvariant
  <2>. QED  BY <1>1, <2>1
<1>6. run[n] \in Seq(T) /\ ToSet(run[n]) = {s[i] : i \in 1 .. n} \cap S
  <2>. HIDE DEF n
  <2>. QED  BY <1>1, <1>5
<1>7. ToSet(s) = {s[i] : i \in 1 .. n}
  BY <1>1 DEF ToSet
<1>. HIDE DEF n
<1>. QED  BY <1>2, <1>6, <1>7

(* What two sequences hold together.                                          *)
LEMMA JoinedSet ==
  ASSUME NEW T, NEW s \in Seq(T), NEW t \in Seq(T)
  PROVE  s \o t \in Seq(T) /\ ToSet(s \o t) = ToSet(s) \cup ToSet(t)
<1>. DEFINE r == s \o t
<1>1. /\ r \in Seq(T) /\ DOMAIN r = 1 .. Len(s) + Len(t) /\ DOMAIN s = 1 .. Len(s) /\ DOMAIN t = 1 .. Len(t)
      /\ Len(s) \in Nat /\ Len(t) \in Nat
      /\ \A i \in 1 .. Len(s) : r[i] = s[i]
      /\ \A i \in 1 .. Len(t) : r[Len(s) + i] = t[i]
  OBVIOUS
<1>. HIDE DEF r
<1>2. \A i \in 1 .. Len(s) : i \in 1 .. Len(s) + Len(t)
  BY <1>1
<1>3. \A i \in 1 .. Len(t) : Len(s) + i \in 1 .. Len(s) + Len(t)
  BY <1>1
<1>4. ToSet(s) \subseteq ToSet(r)
  BY <1>1, <1>2 DEF ToSet
<1>5. ToSet(t) \subseteq ToSet(r)
  BY <1>1, <1>3 DEF ToSet
<1>6. ASSUME NEW i \in 1 .. Len(s) + Len(t)
      PROVE  r[i] \in ToSet(s) \cup ToSet(t)
  <2>1. CASE i \in 1 .. Len(s)
    BY <1>1, <2>1 DEF ToSet
  <2>2. CASE i \notin 1 .. Len(s)
    <3>1. i - Len(s) \in 1 .. Len(t) /\ Len(s) + (i - Len(s)) = i
      BY <1>1, <2>2
    <3>2. r[i] = t[i - Len(s)]
      BY <1>1, <3>1
    <3>. QED  BY <1>1, <3>1, <3>2 DEF ToSet
  <2>. QED  BY <2>1, <2>2
<1>7. ToSet(r) \subseteq ToSet(s) \cup ToSet(t)
  BY <1>1, <1>6 DEF ToSet
<1>. QED  BY <1>1, <1>4, <1>5, <1>7 DEF r

(* Insert adds its match, wherever it puts it.                                *)
LEMMA InsertedSet ==
  ASSUME NEW T, NEW streams, NEW s \in Seq(T), NEW m \in T
  PROVE  Insert(streams, s, m) \in Seq(T) /\ ToSet(Insert(streams, s, m)) = ToSet(s) \cup {m}
<1>. DEFINE later == {x \in ToSet(s) : LessKey(SortKey(streams, m), SortKey(streams, x))}
            a == Selected(s, ToSet(s) \ later)
            b == Selected(s, later)
            one == <<m>>
            front == a \o one
<1>1. later \subseteq ToSet(s)
  OBVIOUS
<1>2. Insert(streams, s, m) = front \o b
  BY DEF Insert
<1>. HIDE DEF later
<1>3. a \in Seq(T) /\ ToSet(a) = ToSet(s) \cap (ToSet(s) \ later)
  BY SelectedSet
<1>4. b \in Seq(T) /\ ToSet(b) = ToSet(s) \cap later
  BY SelectedSet
<1>. HIDE DEF a, b
<1>5. one \in Seq(T) /\ ToSet(one) = {m}
  BY DEF ToSet
<1>. HIDE DEF one
<1>6. front \in Seq(T) /\ ToSet(front) = ToSet(a) \cup {m}
  BY <1>3, <1>5, JoinedSet
<1>. HIDE DEF front
<1>7. front \o b \in Seq(T) /\ ToSet(front \o b) = ToSet(front) \cup ToSet(b)
  BY <1>4, <1>6, JoinedSet
<1>. QED  BY <1>1, <1>2, <1>3, <1>4, <1>6, <1>7

(* SortMatches, match by match.                                               *)
LEMMA SortRuns ==
  ASSUME NEW T, NEW streams, NEW matches \in Seq(T)
  PROVE  \E run \in [0 .. Len(matches) -> Seq(T)] :
            /\ run[0] = <<>> /\ run[Len(matches)] = SortMatches(streams, matches)
            /\ \A k \in 1 .. Len(matches) : run[k] = Insert(streams, run[k - 1], matches[k])
<1>. DEFINE len == Len(matches)
            State == Seq(T)
            base == <<>>
            Next(x, k) == Insert(streams, x, matches[k])
            Step == [q \in State \X (1 .. len) |-> Next(q[1], q[2])]
            Iterates(g) == g = [js \in SUBSET DOMAIN matches |->
                                  IF js = {} THEN base ELSE Next(g[js \ {Max(js)}], Max(js))]
            it == CHOOSE g : Iterates(g)
<1>1. DOMAIN matches = 1 .. len /\ len \in Nat
  OBVIOUS
<1>2. ASSUME NEW x \in State, NEW k \in 1 .. len  PROVE Next(x, k) \in State
  <2>1. matches[k] \in T
    OBVIOUS
  <2>. QED  BY <2>1, InsertedSet
<1>3. SortMatches(streams, matches) = it[DOMAIN matches]
  BY Zenon DEF SortMatches, FoldLeft, MapThenFoldSet
<1>4. base \in State
  OBVIOUS
<1>. HIDE DEF Next, State, base
<1>5. Step \in [State \X (1 .. len) -> State]
  BY <1>2
<1>6. FoldOf(it, len, State, base, Step)
  <2>. SUFFICES ASSUME NEW g, Solves(g, len, State, base, Step)
                PROVE  Follows(it, len, State, base, Step)
    BY DEF FoldOf
  <2>1. \A js \in SUBSET (1 .. len) : js # {} => g[js] = Next(g[js \ {Max(js)}], Max(js))
    BY DEF Solves
  <2>2. Iterates(g)
    BY <1>1, <2>1 DEF Solves
  <2>3. Iterates(it)
    <3>. HIDE DEF Iterates
    <3>. QED  BY <2>2
  <2>. HIDE DEF it
  <2>. QED  BY <1>1, <2>3 DEF Follows
<1>. HIDE DEF it
<1>7. PICK run \in [0 .. len -> State] : RunsTo(run, it, len, base, Step)
  <2>. HIDE DEF Step
  <2>1. len \in Nat
    BY <1>1
  <2>. QED  BY <1>4, <1>5, <1>6, <2>1, FoldRuns
<1>8. \A k \in 1 .. len : run[k] = Next(run[k - 1], k)
  <2>1. \A k \in 1 .. len : run[k] = Step[<<run[k - 1], k>>]
    <3>. HIDE DEF Step
    <3>. QED  BY <1>7 DEF Runs, RunsTo
  <2>2. \A k \in 1 .. len : k - 1 \in 0 .. len
    OBVIOUS
  <2>3. \A k \in 1 .. len : <<run[k - 1], k>> \in State \X (1 .. len)
    BY <2>2
  <2>. QED  BY <2>1, <2>3
<1>9. run[0] = base
  BY <1>7 DEF Runs, RunsTo
<1>10. run[len] = SortMatches(streams, matches)
  BY <1>1, <1>3, <1>7 DEF RunsTo
<1>11. \A k \in 1 .. len : run[k] = Insert(streams, run[k - 1], matches[k])
  BY <1>1, <1>8 DEF Next
<1>. QED  BY <1>7, <1>9, <1>10, <1>11 DEF State, base

(* Sorting neither loses nor adds a match.                                    *)
LEMMA SortedSet ==
  ASSUME NEW T, NEW streams, NEW matches \in Seq(T)
  PROVE  /\ SortMatches(streams, matches) \in Seq(T)
         /\ ToSet(SortMatches(streams, matches)) = ToSet(matches)
<1>. DEFINE n == Len(matches)
            Good == [k \in 0 .. n |-> {r \in Seq(T) : ToSet(r) = {matches[i] : i \in 1 .. k}}]
<1>1. n \in Nat /\ DOMAIN matches = 1 .. n /\ 0 \in 0 .. n /\ n \in 0 .. n
  OBVIOUS
<1>2. PICK run \in [0 .. n -> Seq(T)] :
         /\ run[0] = <<>> /\ run[n] = SortMatches(streams, matches)
         /\ \A k \in 1 .. n : run[k] = Insert(streams, run[k - 1], matches[k])
  BY SortRuns
<1>3. run[0] \in Good[0]
  <2>1. 1 .. 0 = {}
    OBVIOUS
  <2>2. ToSet(run[0]) = {}
    BY <1>2 DEF ToSet
  <2>. QED  BY <1>1, <1>2, <2>1, <2>2
<1>4. ASSUME NEW k \in 1 .. n, run[k - 1] \in Good[k - 1]
      PROVE  run[k] \in Good[k]
  <2>1. k \in 0 .. n /\ k - 1 \in 0 .. n /\ k \in DOMAIN matches
    BY <1>1
  <2>2. run[k - 1] \in Seq(T) /\ ToSet(run[k - 1]) = {matches[i] : i \in 1 .. k - 1}
    BY <1>4, <2>1
  <2>3. matches[k] \in T /\ run[k] = Insert(streams, run[k - 1], matches[k])
    BY <1>2, <2>1
  <2>4. {matches[i] : i \in 1 .. k} = {matches[i] : i \in 1 .. k - 1} \cup {matches[k]}
    <3>1. 1 .. k = (1 .. k - 1) \cup {k}
      OBVIOUS
    <3>. QED  BY <3>1
  <2>5. run[k] \in Seq(T) /\ ToSet(run[k]) = ToSet(run[k - 1]) \cup {matches[k]}
    BY <2>2, <2>3, InsertedSet
  <2>. QED  BY <2>1, <2>2, <2>4, <2>5
<1>5. run[n] \in Good[n]
  <2>. HIDE DEF Good
  <2>1. \A k \in 0 .. n : run[k] \in Good[k]
    <3>. HIDE DEF n
    <3>. QED  BY <1>1, <1>3, <1>4, RunInvariant
  <2>. QED  BY <1>1, <2>1
<1>6. run[n] \in Seq(T) /\ ToSet(run[n]) = {matches[i] : i \in 1 .. n}
  <2>. HIDE DEF n
  <2>. QED  BY <1>1, <1>5
<1>. QED  BY <1>1, <1>2, <1>6 DEF ToSet

-----------------------------------------------------------------------------
(* Coalescing. A side of a clone is a run of at least n tokens that spans the *)
(* lines; the two sides of a clone have the same symbols.                     *)

StreamRecords == [path : Nat, tokens : Seq(Tokens)]
TokenStreams == Seq(StreamRecords)

SideRecords(streams) ==
    [stream : DOMAIN streams, startLine : Nat, endLine : Nat, start : Nat \ {0}, end : Nat]

Sides(streams, minLines, n) ==
    {x \in SideRecords(streams) :
        x.end <= Len(streams[x.stream].tokens) /\ x.start + n <= x.end + 1 /\ Spans(x, minLines)}

Clones(streams, minLines, n) ==
    {c \in [a : Sides(streams, minLines, n), b : Sides(streams, minLines, n)] :
        TokensMatch(streams, c.a, c.b)}

(* Two runs that overlap or touch at the same distance make one.              *)
LEMMA RunsBridge ==
  ASSUME NEW x, NEW y, NEW i \in Nat, NEW j \in Nat, NEW n \in Nat, SameRun(x, i, y, j, n),
         NEW p \in Nat, NEW q \in Nat, NEW k \in Nat, SameRun(x, p, y, q, k),
         i + q = p + j, p <= i + n, i <= p + k
  PROVE  /\ Most(j + n, q + k) - Least(j, q) = Most(i + n, p + k) - Least(i, p)
         /\ SameRun(x, Least(i, p), y, Least(j, q), Most(i + n, p + k) - Least(i, p))
<1>. DEFINE start == Least(i, p)
            other == Least(j, q)
            len == Most(i + n, p + k) - Least(i, p)
<1>1. Most(j + n, q + k) - Least(j, q) = len
  BY DEF Most, Least
<1>2. ASSUME NEW h \in 1 .. len
      PROVE  x[start + h - 1].symbol = y[other + h - 1].symbol
  <2>1. CASE start + h - 1 \in i .. i + n - 1
    <3>. DEFINE g == start + h - i
    <3>1. g \in 1 .. n /\ i + g - 1 = start + h - 1 /\ j + g - 1 = other + h - 1
      BY <2>1 DEF Least
    <3>. HIDE DEF g, start, other
    <3>2. x[i + g - 1].symbol = y[j + g - 1].symbol
      BY <3>1 DEF SameRun
    <3>. QED  BY <3>1, <3>2
  <2>2. CASE start + h - 1 \notin i .. i + n - 1
    <3>. DEFINE g == start + h - p
    <3>1. g \in 1 .. k /\ p + g - 1 = start + h - 1 /\ q + g - 1 = other + h - 1
      BY <2>2 DEF Least, Most
    <3>. HIDE DEF g, start, other
    <3>2. x[p + g - 1].symbol = y[q + g - 1].symbol
      BY <3>1 DEF SameRun
    <3>. QED  BY <3>1, <3>2
  <2>. QED  BY <2>1, <2>2
<1>3. SameRun(x, start, y, other, len)
  <2>. HIDE DEF start, other, len
  <2>. QED  BY <1>2 DEF SameRun
<1>. QED  BY <1>1, <1>3

(* r is the slice of x from i to j, symbol by symbol.                         *)
SliceOf(r, x, i, j) ==
    DOMAIN r = 1 .. j - i + 1 /\ \A k \in 1 .. j - i + 1 : r[k] = x[i + k - 1]

(* SubSeq gives a slice.                                                      *)
LEMMA SliceIs ==
  ASSUME NEW T, NEW x \in Seq(T), NEW i \in Nat \ {0}, NEW j \in Nat, i <= j, j <= Len(x)
  PROVE  SliceOf(SubSeq(x, i, j), x, i, j)
BY DEF SliceOf

(* Two slices match when they are as long and agree symbol by symbol.         *)
LEMMA MatchIsSameRun ==
  ASSUME NEW streams \in TokenStreams, NEW v \in SideRecords(streams), NEW w \in SideRecords(streams),
         v.end <= Len(streams[v.stream].tokens), v.start <= v.end,
         w.end <= Len(streams[w.stream].tokens), w.start <= w.end
  PROVE  TokensMatch(streams, v, w) <=>
            /\ v.end - v.start = w.end - w.start
            /\ SameRun(streams[v.stream].tokens, v.start, streams[w.stream].tokens, w.start, v.end - v.start + 1)
<1>. DEFINE x == streams[v.stream].tokens
            y == streams[w.stream].tokens
            r == SubSeq(x, v.start, v.end)
            s == SubSeq(y, w.start, w.end)
            a == v.end - v.start + 1
            b == w.end - w.start + 1
<1>1. x \in Seq(Tokens) /\ y \in Seq(Tokens)
  <2>1. v.stream \in DOMAIN streams /\ w.stream \in DOMAIN streams
    BY DEF SideRecords
  <2>2. \A k \in DOMAIN streams : streams[k] \in StreamRecords
    BY DEF TokenStreams
  <2>. QED  BY <2>1, <2>2 DEF StreamRecords
<1>2. v.start \in Nat \ {0} /\ v.end \in Nat /\ w.start \in Nat \ {0} /\ w.end \in Nat
  BY DEF SideRecords
<1>3. a \in Nat \ {0} /\ b \in Nat \ {0}
  BY <1>2
<1>4. SliceOf(r, x, v.start, v.end)
  <2>1. v.start <= v.end /\ v.end <= Len(x)
    OBVIOUS
  <2>. HIDE DEF x, y
  <2>. QED  BY <1>1, <1>2, <2>1, SliceIs
<1>5. SliceOf(s, y, w.start, w.end)
  <2>1. w.start <= w.end /\ w.end <= Len(y)
    OBVIOUS
  <2>. HIDE DEF x, y
  <2>. QED  BY <1>1, <1>2, <2>1, SliceIs
<1>. HIDE DEF r, s, x, y
<1>6. TokensMatch(streams, v, w) <=> SameSymbols(r, s)
  BY DEF TokensMatch, Slice, r, s, x, y
<1>7. SameSymbols(r, s) => a = b
  <2>. SUFFICES ASSUME SameSymbols(r, s)  PROVE a = b
    OBVIOUS
  <2>1. 1 .. a = 1 .. b
    BY <1>4, <1>5 DEF SameSymbols, SliceOf
  <2>. HIDE DEF a, b
  <2>2. a \in 1 .. b /\ b \in 1 .. a
    BY <1>3, <2>1
  <2>. QED  BY <1>3, <2>2
<1>8. a = b <=> v.end - v.start = w.end - w.start
  BY <1>2
<1>. HIDE DEF a, b
<1>9. ASSUME a = b  PROVE SameSymbols(r, s) <=> SameRun(x, v.start, y, w.start, a)
  <2>1. DOMAIN r = 1 .. a /\ \A i \in 1 .. a : r[i] = x[v.start + i - 1]
    BY <1>4 DEF SliceOf, a
  <2>2. DOMAIN s = 1 .. a /\ \A i \in 1 .. a : s[i] = y[w.start + i - 1]
    BY <1>5, <1>9 DEF SliceOf, b
  <2>3. SameSymbols(r, s) <=> \A i \in 1 .. a : r[i].symbol = s[i].symbol
    BY <2>1, <2>2 DEF SameSymbols
  <2>. QED  BY <2>1, <2>2, <2>3 DEF SameRun
<1>10. TokensMatch(streams, v, w) <=> a = b /\ SameRun(x, v.start, y, w.start, a)
  BY <1>6, <1>7, <1>9
<1>. QED  BY <1>8, <1>10 DEF a, x, y

(* What Join makes of the fields of a side.                                   *)
LEMMA JoinFields ==
  ASSUME NEW stream, NEW startLine, NEW endLine, NEW start, NEW end, NEW v, NEW w,
         v = [stream |-> stream, startLine |-> startLine, endLine |-> endLine, start |-> start, end |-> end]
  PROVE  Join(v, w) = [stream |-> stream, startLine |-> startLine, endLine |-> Most(endLine, w.endLine),
                       start |-> Least(start, w.start), end |-> Most(end, w.end)]
<1>1. /\ DOMAIN v = {"stream", "startLine", "endLine", "start", "end"} /\ v.stream = stream
      /\ v.startLine = startLine /\ v.endLine = endLine /\ v.start = start /\ v.end = end
  OBVIOUS
<1>. DEFINE x == Least(v.start, w.start)
            y == Most(v.end, w.end)
            z == Most(v.endLine, w.endLine)
            first == [v EXCEPT !.start = x]
            second == [first EXCEPT !.end = y]
            third == [second EXCEPT !.endLine = z]
<1>2. Join(v, w) = third
  BY DEF Join
<1>. HIDE DEF x, y, z
<1>3. first = [stream |-> stream, startLine |-> startLine, endLine |-> endLine, start |-> x, end |-> end]
  OBVIOUS
<1>. HIDE DEF first
<1>4. second = [stream |-> stream, startLine |-> startLine, endLine |-> endLine, start |-> x, end |-> y]
  BY <1>3
<1>. HIDE DEF second
<1>5. third = [stream |-> stream, startLine |-> startLine, endLine |-> z, start |-> x, end |-> y]
  BY <1>4
<1>. QED  BY <1>1, <1>2, <1>5 DEF x, y, z

(* Joined sides span what both did.                                           *)
LEMMA JoinIsSide ==
  ASSUME NEW streams \in TokenStreams, NEW minLines \in Nat, NEW n \in Nat \ {0},
         NEW v \in Sides(streams, minLines, n), NEW w \in Sides(streams, minLines, n), v.stream = w.stream
  PROVE  /\ Join(v, w) \in Sides(streams, minLines, n)
         /\ Join(v, w).stream = v.stream
         /\ Join(v, w).start = Least(v.start, w.start) /\ Join(v, w).end = Most(v.end, w.end)
<1>1. v \in SideRecords(streams) /\ w \in SideRecords(streams)
  BY DEF Sides
<1>2. Join(v, w) = [stream |-> v.stream, startLine |-> v.startLine, endLine |-> Most(v.endLine, w.endLine),
                    start |-> Least(v.start, w.start), end |-> Most(v.end, w.end)]
  <2>1. v = [stream |-> v.stream, startLine |-> v.startLine, endLine |-> v.endLine,
             start |-> v.start, end |-> v.end]
    BY <1>1 DEF SideRecords
  <2>. QED  BY <2>1, JoinFields
<1>3. /\ v.stream \in DOMAIN streams /\ v.startLine \in Nat /\ v.endLine \in Nat /\ w.endLine \in Nat
      /\ v.start \in Nat \ {0} /\ w.start \in Nat \ {0} /\ v.end \in Nat /\ w.end \in Nat
  BY <1>1 DEF SideRecords
<1>4. /\ Most(v.endLine, w.endLine) \in Nat /\ Least(v.start, w.start) \in Nat \ {0}
      /\ Most(v.end, w.end) \in Nat /\ v.endLine <= Most(v.endLine, w.endLine)
      /\ v.end <= Most(v.end, w.end) /\ Least(v.start, w.start) <= v.start
  BY <1>3 DEF Most, Least
<1>5. Join(v, w) \in SideRecords(streams)
  BY <1>2, <1>3, <1>4 DEF SideRecords
<1>6. /\ Join(v, w).stream = v.stream /\ Join(v, w).startLine = v.startLine
      /\ Join(v, w).endLine = Most(v.endLine, w.endLine)
      /\ Join(v, w).start = Least(v.start, w.start) /\ Join(v, w).end = Most(v.end, w.end)
  BY <1>2
<1>7. Spans(Join(v, w), minLines)
  <2>1. SaturatingSub(v.endLine, v.startLine) + 1 >= minLines
    BY DEF Sides, Spans
  <2>2. SaturatingSub(Most(v.endLine, w.endLine), v.startLine) >= SaturatingSub(v.endLine, v.startLine)
    BY <1>3, <1>4 DEF SaturatingSub
  <2>3. SaturatingSub(v.endLine, v.startLine) \in Nat /\ SaturatingSub(Most(v.endLine, w.endLine), v.startLine) \in Nat
    BY <1>3, <1>4 DEF SaturatingSub
  <2>4. SaturatingSub(Most(v.endLine, w.endLine), v.startLine) + 1 >= minLines
    BY <2>1, <2>2, <2>3
  <2>. QED  BY <1>6, <2>4 DEF Spans
<1>8. Join(v, w).end <= Len(streams[Join(v, w).stream].tokens)
  <2>1. v.end <= Len(streams[v.stream].tokens) /\ w.end <= Len(streams[v.stream].tokens)
    BY DEF Sides
  <2>2. Most(v.end, w.end) <= Len(streams[v.stream].tokens)
    BY <2>1 DEF Most
  <2>. QED  BY <1>6, <2>2
<1>9. Join(v, w).start + n <= Join(v, w).end + 1
  <2>1. v.start + n <= v.end + 1
    BY DEF Sides
  <2>2. Least(v.start, w.start) + n <= Most(v.end, w.end) + 1
    BY <1>3, <1>4, <2>1
  <2>. QED  BY <1>6, <2>2
<1>. QED  BY <1>5, <1>6, <1>7, <1>8, <1>9 DEF Sides

-----------------------------------------------------------------------------
(* c is of the same two files as m and shares tokens with it on a side.       *)
Covers(streams, c, m) ==
    Paths(streams, c) = Paths(streams, m) /\ (Overlap(c.a, m.a) \/ Overlap(c.b, m.b))

Covered(streams, kept, m) == \E i \in DOMAIN kept : Covers(streams, kept[i], m)

(* A joined side overlaps whatever one of the two did.                        *)
LEMMA JoinOverlaps ==
  ASSUME NEW streams \in TokenStreams, NEW minLines \in Nat, NEW n \in Nat \ {0},
         NEW v \in Sides(streams, minLines, n), NEW w \in Sides(streams, minLines, n), v.stream = w.stream,
         NEW x \in Sides(streams, minLines, n), Overlap(v, x) \/ x = w
  PROVE  Overlap(Join(v, w), x)
<1>1. /\ Join(v, w).stream = v.stream /\ Join(v, w).start = Least(v.start, w.start)
      /\ Join(v, w).end = Most(v.end, w.end)
  BY JoinIsSide
<1>2. \A y \in Sides(streams, minLines, n) : y.start \in Nat /\ y.end \in Nat /\ y.start <= y.end
  <2>1. \A y \in Sides(streams, minLines, n) : y.start \in Nat /\ y.end \in Nat /\ y.start + n <= y.end + 1
    BY DEF Sides, SideRecords
  <2>. QED  BY <2>1
<1>3. /\ v.start \in Nat /\ v.end \in Nat /\ w.start \in Nat /\ w.end \in Nat /\ w.start <= w.end
      /\ x.start \in Nat /\ x.end \in Nat
  BY <1>2
<1>4. /\ Least(v.start, w.start) <= v.start /\ Least(v.start, w.start) <= w.start
      /\ v.end <= Most(v.end, w.end) /\ w.end <= Most(v.end, w.end)
      /\ Least(v.start, w.start) \in Nat /\ Most(v.end, w.end) \in Nat
  BY <1>3 DEF Least, Most
<1>. DEFINE s == Least(v.start, w.start)
            e == Most(v.end, w.end)
<1>5. x.stream = v.stream /\ x.start <= e /\ x.end >= s
  <2>. HIDE DEF s, e
  <2>1. CASE x = w
    BY <1>3, <1>4, <2>1 DEF s, e
  <2>2. CASE Overlap(v, x)
    BY <1>3, <1>4, <2>2 DEF Overlap, s, e
  <2>. QED  BY <2>1, <2>2
<1>. QED  BY <1>1, <1>5 DEF Overlap

(* Two clones that may be merged make one, which covers what they covered.    *)
LEMMA MergedIsClone ==
  ASSUME NEW streams \in TokenStreams, NEW minLines \in Nat, NEW n \in Nat \ {0},
         NEW l \in Clones(streams, minLines, n), NEW r \in Clones(streams, minLines, n), CanMerge(streams, l, r)
  PROVE  LET c == [a |-> Join(l.a, r.a), b |-> Join(l.b, r.b)]
         IN  /\ c \in Clones(streams, minLines, n) /\ Covers(streams, c, r)
             /\ \A m \in Clones(streams, minLines, n) : Covers(streams, l, m) => Covers(streams, c, m)
<1>. DEFINE S == Sides(streams, minLines, n)
            a == Join(l.a, r.a)
            b == Join(l.b, r.b)
            c == [a |-> Join(l.a, r.a), b |-> Join(l.b, r.b)]
<1>1. l.a \in S /\ l.b \in S /\ r.a \in S /\ r.b \in S /\ TokensMatch(streams, l.a, l.b) /\ TokensMatch(streams, r.a, r.b)
  BY DEF Clones
<1>2. l.a.stream = r.a.stream /\ l.b.stream = r.b.stream /\ Paths(streams, l) = Paths(streams, r)
  BY DEF CanMerge
<1>3. /\ a \in S /\ a.stream = l.a.stream /\ a.start = Least(l.a.start, r.a.start) /\ a.end = Most(l.a.end, r.a.end)
      /\ b \in S /\ b.stream = l.b.stream /\ b.start = Least(l.b.start, r.b.start) /\ b.end = Most(l.b.end, r.b.end)
  <2>1. a \in S /\ a.stream = l.a.stream /\ a.start = Least(l.a.start, r.a.start) /\ a.end = Most(l.a.end, r.a.end)
    BY <1>1, <1>2, JoinIsSide
  <2>2. b \in S /\ b.stream = l.b.stream /\ b.start = Least(l.b.start, r.b.start) /\ b.end = Most(l.b.end, r.b.end)
    BY <1>1, <1>2, JoinIsSide
  <2>. QED  BY <2>1, <2>2
<1>4. c.a = a /\ c.b = b
  OBVIOUS
<1>5. \A x \in S : /\ x \in SideRecords(streams) /\ x.start \in Nat \ {0} /\ x.end \in Nat /\ x.start <= x.end
                   /\ x.end <= Len(streams[x.stream].tokens)
  <2>1. \A x \in S : /\ x \in SideRecords(streams) /\ x.start \in Nat \ {0} /\ x.end \in Nat /\ x.start + n <= x.end + 1
                     /\ x.end <= Len(streams[x.stream].tokens)
    BY DEF Sides, SideRecords
  <2>. HIDE DEF S
  <2>. QED  BY <2>1
<1>6. TokensMatch(streams, a, b)
  <2>1. CASE TokensMatch(streams, Join(l.a, r.a), Join(l.b, r.b))
    BY <2>1
  <2>2. CASE Aligned(l, r)
    <3>. DEFINE x == streams[l.a.stream].tokens
                y == streams[l.b.stream].tokens
                i == l.a.start
                j == l.b.start
                p == r.a.start
                q == r.b.start
                g == l.a.end - l.a.start + 1
                k == r.a.end - r.a.start + 1
    <3>. HIDE DEF S, a, b, c
    <3>1. /\ i \in Nat /\ j \in Nat /\ p \in Nat /\ q \in Nat /\ l.a.end \in Nat /\ l.b.end \in Nat
          /\ r.a.end \in Nat /\ r.b.end \in Nat /\ i <= l.a.end /\ p <= r.a.end
      BY <1>1, <1>5
    <3>2. l.a.end - i = l.b.end - j /\ SameRun(x, i, y, j, g)
      BY <1>1, <1>5, MatchIsSameRun
    <3>3. r.a.end - p = r.b.end - q /\ SameRun(x, p, y, q, k)
      BY <1>1, <1>2, <1>5, MatchIsSameRun
    <3>4. i + q = p + j /\ p <= l.a.end + 1 /\ i <= r.a.end + 1
      BY <2>2 DEF Aligned, Touch, WithinGap
    <3>. HIDE DEF x, y
    <3>5. /\ g \in Nat /\ k \in Nat /\ i + g = l.a.end + 1 /\ j + g = l.b.end + 1
          /\ p + k = r.a.end + 1 /\ q + k = r.b.end + 1 /\ p <= i + g /\ i <= p + k
      BY <3>1, <3>2, <3>3, <3>4
    <3>. HIDE DEF g, k
    <3>6. /\ Most(j + g, q + k) - Least(j, q) = Most(i + g, p + k) - Least(i, p)
          /\ SameRun(x, Least(i, p), y, Least(j, q), Most(i + g, p + k) - Least(i, p))
      <4>. HIDE DEF i, j, p, q
      <4>. QED  BY <3>1, <3>2, <3>3, <3>4, <3>5, RunsBridge
    <3>7. /\ Most(i + g, p + k) = Most(l.a.end, r.a.end) + 1 /\ Most(j + g, q + k) = Most(l.b.end, r.b.end) + 1
      BY <3>1, <3>5 DEF Most
    <3>8. a.end - a.start = b.end - b.start /\ a.end - a.start + 1 = Most(i + g, p + k) - Least(i, p)
      <4>1. /\ Most(l.a.end, r.a.end) \in Nat /\ Most(l.b.end, r.b.end) \in Nat
            /\ Least(i, p) \in Nat /\ Least(j, q) \in Nat
        BY <3>1 DEF Most, Least
      <4>. QED  BY <1>3, <3>6, <3>7, <4>1
    <3>9. SameRun(x, a.start, y, b.start, a.end - a.start + 1)
      BY <1>3, <3>6, <3>8
    <3>. QED  BY <1>3, <1>5, <3>8, <3>9, MatchIsSameRun DEF x, y
  <2>. QED  BY <2>1, <2>2 DEF CanMerge
<1>7. c \in Clones(streams, minLines, n)
  <2>. HIDE DEF a, b
  <2>. QED  BY <1>3, <1>4, <1>6 DEF Clones
<1>8. Paths(streams, c) = Paths(streams, l)
  <2>. HIDE DEF a, b, c
  <2>. QED  BY <1>3, <1>4 DEF Paths
<1>9. Overlap(c.a, r.a)
  BY <1>1, <1>2, <1>4, JoinOverlaps
<1>10. ASSUME NEW m \in Clones(streams, minLines, n), Covers(streams, l, m)
       PROVE  Covers(streams, c, m)
  <2>1. m.a \in S /\ m.b \in S
    BY DEF Clones
  <2>2. Overlap(l.a, m.a) => Overlap(a, m.a)
    <3>. HIDE DEF c
    <3>. QED  BY <1>1, <1>2, <2>1, JoinOverlaps
  <2>3. Overlap(l.b, m.b) => Overlap(b, m.b)
    <3>. HIDE DEF c
    <3>. QED  BY <1>1, <1>2, <2>1, JoinOverlaps
  <2>. HIDE DEF a, b, c
  <2>. QED  BY <1>4, <1>8, <1>10, <2>2, <2>3 DEF Covers
<1>11. Covers(streams, c, r)
  <2>. HIDE DEF c
  <2>. QED  BY <1>2, <1>8, <1>9 DEF Covers
<1>. HIDE DEF c
<1>12. c \in Clones(streams, minLines, n) /\ Covers(streams, c, r)
       /\ \A m \in Clones(streams, minLines, n) : Covers(streams, l, m) => Covers(streams, c, m)
  BY <1>7, <1>10, <1>11
<1>. QED  BY <1>12 DEF c

(* One match is merged into the last clone, covered by it or a clone itself;  *)
(* and what was covered stays so.                                             *)
LEMMA CoalesceOneStep ==
  ASSUME NEW streams \in TokenStreams, NEW minLines \in Nat, NEW n \in Nat \ {0},
         NEW kept \in Seq(Clones(streams, minLines, n)), NEW m \in Clones(streams, minLines, n)
  PROVE  LET next == CoalesceOne(streams, kept, m)
         IN  /\ next \in Seq(Clones(streams, minLines, n)) /\ Covered(streams, next, m)
             /\ \A x \in Clones(streams, minLines, n) : Covered(streams, kept, x) => Covered(streams, next, x)
<1>. DEFINE C == Clones(streams, minLines, n)
            last == kept[Len(kept)]
            next == CoalesceOne(streams, kept, m)
            joined == [a |-> Join(last.a, m.a), b |-> Join(last.b, m.b)]
            merges == kept # <<>> /\ CanMerge(streams, last, m)
            drops == /\ kept # <<>> /\ ~CanMerge(streams, last, m) /\ Paths(streams, last) = Paths(streams, m)
                     /\ (Overlap(last.a, m.a) \/ Overlap(last.b, m.b))
<1>0. Len(kept) \in Nat /\ DOMAIN kept = 1 .. Len(kept) /\ \A i \in DOMAIN kept : kept[i] \in C
  OBVIOUS
<1>1. kept # <<>> => Len(kept) \in DOMAIN kept
  OBVIOUS
<1>2. CASE merges
  <2>1. next = [kept EXCEPT ![Len(kept)] = joined]
    BY <1>2 DEF CoalesceOne
  <2>2. last \in C
    BY <1>0, <1>1, <1>2
  <2>3. /\ joined \in C /\ Covers(streams, joined, m)
        /\ \A x \in C : Covers(streams, last, x) => Covers(streams, joined, x)
    <3>. HIDE DEF last
    <3>. QED  BY <1>2, <2>2, MergedIsClone
  <2>. HIDE DEF joined, C, next
  <2>4. /\ DOMAIN next = DOMAIN kept /\ next[Len(kept)] = joined
        /\ \A i \in DOMAIN kept : i # Len(kept) => next[i] = kept[i]
    BY <1>1, <1>2, <2>1
  <2>5. next \in Seq(C)
    <3>1. kept \in Seq(C)
      BY DEF C
    <3>. QED  BY <1>1, <1>2, <2>1, <2>3, <3>1
  <2>6. ASSUME NEW x \in C, Covered(streams, kept, x)
        PROVE  Covered(streams, next, x)
    <3>1. PICK i \in DOMAIN kept : Covers(streams, kept[i], x)
      BY <2>6 DEF Covered
    <3>2. Covers(streams, next[i], x)
      BY <2>3, <2>4, <3>1
    <3>. QED  BY <2>4, <3>1, <3>2 DEF Covered
  <2>7. Covered(streams, next, m)
    BY <1>1, <1>2, <2>3, <2>4 DEF Covered
  <2>8. /\ next \in Seq(C) /\ Covered(streams, next, m)
        /\ \A x \in C : Covered(streams, kept, x) => Covered(streams, next, x)
    BY <2>5, <2>6, <2>7
  <2>. QED  BY <2>8 DEF next, C
<1>3. CASE drops
  <2>1. next = kept
    BY <1>3 DEF CoalesceOne
  <2>2. Covers(streams, last, m)
    BY <1>3 DEF Covers
  <2>3. Covered(streams, kept, m)
    BY <1>1, <1>3, <2>2 DEF Covered
  <2>. HIDE DEF next
  <2>4. /\ next \in Seq(C) /\ Covered(streams, next, m)
        /\ \A x \in C : Covered(streams, kept, x) => Covered(streams, next, x)
    BY <2>1, <2>3
  <2>. QED  BY <2>4 DEF next, C
<1>4. CASE ~merges /\ ~drops
  <2>1. next = Append(kept, m)
    BY <1>4 DEF CoalesceOne
  <2>. HIDE DEF next, C
  <2>2. /\ next \in Seq(C) /\ DOMAIN next = DOMAIN kept \cup {Len(kept) + 1}
        /\ next[Len(kept) + 1] = m /\ \A i \in DOMAIN kept : next[i] = kept[i]
    <3>1. kept \in Seq(C) /\ m \in C
      BY DEF C
    <3>. QED  BY <2>1, <3>1, Appended
  <2>3. Covers(streams, m, m)
    <3>1. m.a \in Sides(streams, minLines, n)
      BY DEF Clones
    <3>2. m.a.start \in Nat /\ m.a.end \in Nat /\ m.a.start + n <= m.a.end + 1
      BY <3>1 DEF Sides, SideRecords
    <3>3. Overlap(m.a, m.a)
      BY <3>2 DEF Overlap
    <3>. QED  BY <3>3 DEF Covers
  <2>4. Covered(streams, next, m)
    BY <2>2, <2>3 DEF Covered
  <2>5. \A x \in C : Covered(streams, kept, x) => Covered(streams, next, x)
    BY <2>2 DEF Covered
  <2>6. /\ next \in Seq(C) /\ Covered(streams, next, m)
        /\ \A x \in C : Covered(streams, kept, x) => Covered(streams, next, x)
    BY <2>2, <2>4, <2>5
  <2>. QED  BY <2>6 DEF next, C
<1>. QED  BY <1>2, <1>3, <1>4

(* Coalesce, match by match.                                                  *)
LEMMA CoalesceRuns ==
  ASSUME NEW streams \in TokenStreams, NEW minLines \in Nat, NEW n \in Nat \ {0},
         NEW matches \in Seq(Clones(streams, minLines, n))
  PROVE  \E run \in [0 .. Len(SortMatches(streams, matches)) -> Seq(Clones(streams, minLines, n))] :
            /\ run[0] = <<>> /\ run[Len(SortMatches(streams, matches))] = Coalesce(streams, matches)
            /\ \A k \in 1 .. Len(SortMatches(streams, matches)) :
                  run[k] = CoalesceOne(streams, run[k - 1], SortMatches(streams, matches)[k])
<1>. DEFINE len == Len(SortMatches(streams, matches))
            seq == SortMatches(streams, matches)
            State == Seq(Clones(streams, minLines, n))
            base == <<>>
            Next(x, k) == CoalesceOne(streams, x, seq[k])
            Step == [q \in State \X (1 .. len) |-> Next(q[1], q[2])]
            Iterates(g) == g = [js \in SUBSET DOMAIN seq |->
                                  IF js = {} THEN base ELSE Next(g[js \ {Max(js)}], Max(js))]
            it == CHOOSE g : Iterates(g)
<1>1. DOMAIN seq = 1 .. len /\ len \in Nat /\ \A k \in 1 .. len : seq[k] = SortMatches(streams, matches)[k]
  <2>1. seq \in Seq(Clones(streams, minLines, n))
    BY SortedSet
  <2>. QED  BY <2>1
<1>2. ASSUME NEW x \in State, NEW k \in 1 .. len  PROVE Next(x, k) \in State
  <2>1. seq \in Seq(Clones(streams, minLines, n))
    BY SortedSet
  <2>2. seq[k] \in Clones(streams, minLines, n)
    BY <2>1
  <2>. QED  BY <2>2, CoalesceOneStep
<1>3. Coalesce(streams, matches) = it[DOMAIN seq]
  BY Zenon DEF Coalesce, FoldLeft, MapThenFoldSet
<1>4. base \in State
  OBVIOUS
<1>. HIDE DEF Next, State, base, seq
<1>5. Step \in [State \X (1 .. len) -> State]
  BY <1>2
<1>6. FoldOf(it, len, State, base, Step)
  <2>. SUFFICES ASSUME NEW g, Solves(g, len, State, base, Step)
                PROVE  Follows(it, len, State, base, Step)
    BY DEF FoldOf
  <2>1. \A js \in SUBSET (1 .. len) : js # {} => g[js] = Next(g[js \ {Max(js)}], Max(js))
    BY DEF Solves
  <2>2. Iterates(g)
    BY <1>1, <2>1 DEF Solves
  <2>3. Iterates(it)
    <3>. HIDE DEF Iterates
    <3>. QED  BY <2>2
  <2>. HIDE DEF it
  <2>. QED  BY <1>1, <2>3 DEF Follows
<1>. HIDE DEF it
<1>7. PICK run \in [0 .. len -> State] : RunsTo(run, it, len, base, Step)
  <2>. HIDE DEF Step
  <2>1. len \in Nat
    BY <1>1
  <2>. QED  BY <1>4, <1>5, <1>6, <2>1, FoldRuns
<1>8. \A k \in 1 .. len : run[k] = Next(run[k - 1], k)
  <2>1. \A k \in 1 .. len : run[k] = Step[<<run[k - 1], k>>]
    <3>. HIDE DEF Step
    <3>. QED  BY <1>7 DEF Runs, RunsTo
  <2>2. \A k \in 1 .. len : k - 1 \in 0 .. len
    OBVIOUS
  <2>3. \A k \in 1 .. len : <<run[k - 1], k>> \in State \X (1 .. len)
    BY <2>2
  <2>. QED  BY <2>1, <2>3
<1>9. run[0] = base
  BY <1>7 DEF Runs, RunsTo
<1>10. run[len] = Coalesce(streams, matches)
  BY <1>1, <1>3, <1>7 DEF RunsTo
<1>11. \A k \in 1 .. len : run[k] = CoalesceOne(streams, run[k - 1], SortMatches(streams, matches)[k])
  BY <1>1, <1>8 DEF Next
<1>. QED  BY <1>7, <1>9, <1>10, <1>11 DEF State, base

(* Every match is covered by what coalescing keeps, which are clones.         *)
LEMMA CoalesceCovers ==
  ASSUME NEW streams \in TokenStreams, NEW minLines \in Nat, NEW n \in Nat \ {0},
         NEW matches \in Seq(Clones(streams, minLines, n))
  PROVE  /\ Coalesce(streams, matches) \in Seq(Clones(streams, minLines, n))
         /\ \A m \in ToSet(matches) : Covered(streams, Coalesce(streams, matches), m)
<1>. DEFINE C == Clones(streams, minLines, n)
            sorted == SortMatches(streams, matches)
            len == Len(sorted)
            Good == [k \in 0 .. len |-> {x \in Seq(C) : \A i \in 1 .. k : Covered(streams, x, sorted[i])}]
<1>1. sorted \in Seq(C) /\ ToSet(sorted) = ToSet(matches)
  BY SortedSet
<1>2. PICK run \in [0 .. len -> Seq(C)] :
         /\ run[0] = <<>> /\ run[len] = Coalesce(streams, matches)
         /\ \A k \in 1 .. len : run[k] = CoalesceOne(streams, run[k - 1], sorted[k])
  BY CoalesceRuns
<1>. HIDE DEF sorted
<1>3. len \in Nat /\ DOMAIN sorted = 1 .. len /\ 0 \in 0 .. len /\ len \in 0 .. len
      /\ \A k \in 1 .. len : sorted[k] \in C
  <2>. HIDE DEF C
  <2>. QED  BY <1>1
<1>. HIDE DEF len
<1>4. run[0] \in Good[0]
  <2>1. \A i \in 1 .. 0 : FALSE
    OBVIOUS
  <2>. QED  BY <1>2, <1>3, <2>1
<1>5. ASSUME NEW k \in 1 .. len, run[k - 1] \in Good[k - 1]
      PROVE  run[k] \in Good[k]
  <2>1. k \in 0 .. len /\ k - 1 \in 0 .. len
    BY <1>3
  <2>2. run[k - 1] \in Seq(C) /\ \A i \in 1 .. k - 1 : Covered(streams, run[k - 1], sorted[i])
    BY <1>5, <2>1
  <2>3. sorted[k] \in C /\ run[k] = CoalesceOne(streams, run[k - 1], sorted[k])
    BY <1>2, <1>3
  <2>4. /\ run[k] \in Seq(C) /\ Covered(streams, run[k], sorted[k])
        /\ \A x \in C : Covered(streams, run[k - 1], x) => Covered(streams, run[k], x)
    BY <2>2, <2>3, CoalesceOneStep
  <2>. HIDE DEF C
  <2>5. ASSUME NEW i \in 1 .. k
        PROVE  Covered(streams, run[k], sorted[i])
    <3>1. CASE i = k
      BY <2>4, <3>1
    <3>2. CASE i # k
      <4>1. i \in 1 .. k - 1 /\ i \in 1 .. len
        BY <1>3, <3>2
      <4>. QED  BY <1>3, <2>2, <2>4, <4>1
    <3>. QED  BY <3>1, <3>2
  <2>. QED  BY <2>1, <2>4, <2>5
<1>6. run[len] \in Good[len]
  <2>. HIDE DEF Good
  <2>1. \A k \in 0 .. len : run[k] \in Good[k]
    BY <1>3, <1>4, <1>5, RunInvariant
  <2>. QED  BY <1>3, <2>1
<1>7. run[len] \in Seq(C) /\ \A i \in 1 .. len : Covered(streams, run[len], sorted[i])
  <2>. HIDE DEF C
  <2>. QED  BY <1>3, <1>6
<1>8. \A m \in ToSet(matches) : Covered(streams, run[len], m)
  <2>. SUFFICES ASSUME NEW m \in ToSet(sorted)  PROVE Covered(streams, run[len], m)
    BY <1>1
  <2>1. PICK i \in 1 .. len : m = sorted[i]
    BY <1>3 DEF ToSet
  <2>. QED  BY <1>7, <2>1
<1>. QED  BY <1>2, <1>7, <1>8

-----------------------------------------------------------------------------
(* Indexing.                                                                  *)

(* The windows of n tokens that span the lines, their hash, and their order.  *)
SpanningWindows(streams, minLines, n) ==
    {w \in Sides(streams, minLines, n) : w = Window(w.stream, streams[w.stream].tokens, w.start, n)}

HashOf(streams, w, n) == RollingHashes(streams[w.stream].tokens, n)[w.start]

Earlier(v, w) == v.stream < w.stream \/ (v.stream = w.stream /\ v.start < w.start)

(* w is a duplicate of v that has to be found.                                *)
Duplicates(streams, v, w, minLines) ==
    Earlier(v, w) /\ TokensMatch(streams, v, w) /\ ~TooClose(streams, v, w, minLines)

Indexes(streams, minLines, n) ==
    [ok : BOOLEAN, windows : [0 .. HashSize - 1 -> Seq(SpanningWindows(streams, minLines, n))],
     matches : Seq(Clones(streams, minLines, n))]

(* Unless it gave up, the index holds the windows under their hash and a match *)
(* for each two of them that are duplicates.                                  *)
Indexed(index, streams, minLines, n, windows) ==
    index.ok =>
      /\ \A w \in windows : w \in ToSet(index.windows[HashOf(streams, w, n)])
      /\ \A h \in 0 .. HashSize - 1 : ToSet(index.windows[h]) \subseteq windows
      /\ \A v, w \in windows : Duplicates(streams, v, w, minLines) =>
            Match(streams, v, w) \in ToSet(index.matches)

(* What is known of a spanning window.                                        *)
LEMMA WindowFacts ==
  ASSUME NEW streams \in TokenStreams, NEW minLines \in Nat, NEW n \in Nat \ {0},
         NEW w \in SpanningWindows(streams, minLines, n)
  PROVE  /\ w \in Sides(streams, minLines, n) /\ w \in SideRecords(streams) /\ w.stream \in DOMAIN streams
         /\ streams[w.stream].tokens \in Seq(Tokens) /\ w.stream \in Nat
         /\ w.start \in 1 .. Len(streams[w.stream].tokens) - n + 1
         /\ w.end = w.start + n - 1 /\ w.start <= w.end /\ w.end <= Len(streams[w.stream].tokens)
         /\ w.start \in Nat \ {0} /\ w.end \in Nat /\ Spans(w, minLines)
<1>. DEFINE x == streams[w.stream].tokens
<1>1. w \in Sides(streams, minLines, n) /\ w = Window(w.stream, x, w.start, n)
  BY DEF SpanningWindows
<1>2. w \in SideRecords(streams) /\ w.end <= Len(x) /\ Spans(w, minLines)
  BY <1>1 DEF Sides
<1>3. w.stream \in DOMAIN streams /\ w.start \in Nat \ {0} /\ w.end \in Nat
  BY <1>2 DEF SideRecords
<1>4. x \in Seq(Tokens) /\ w.stream \in Nat
  <2>1. \A k \in DOMAIN streams : k \in Nat /\ streams[k] \in StreamRecords
    BY DEF TokenStreams
  <2>. QED  BY <1>3, <2>1 DEF StreamRecords
<1>5. w.end = w.start + n - 1
  <2>1. Window(w.stream, x, w.start, n).end = w.start + n - 1
    BY DEF Window
  <2>. QED  BY <1>1, <2>1
<1>. HIDE DEF x
<1>6. w.start \in 1 .. Len(x) - n + 1 /\ w.start <= w.end
  <2>1. Len(x) \in Nat
    BY <1>4
  <2>. QED  BY <1>2, <1>3, <1>5, <2>1
<1>. QED  BY <1>1, <1>2, <1>3, <1>4, <1>5, <1>6 DEF x

(* The window at a place of a stream, when it spans the lines.                *)
LEMMA WindowAt ==
  ASSUME NEW streams \in TokenStreams, NEW minLines \in Nat, NEW n \in Nat \ {0},
         NEW s \in DOMAIN streams, NEW i \in 1 .. Len(streams[s].tokens) - n + 1
  PROVE  LET w == Window(s, streams[s].tokens, i, n)
         IN  /\ w.stream = s /\ w.start = i
             /\ Spans(w, minLines) => w \in SpanningWindows(streams, minLines, n)
<1>. DEFINE x == streams[s].tokens
            w == Window(s, x, i, n)
<1>1. x \in Seq(Tokens) /\ Len(x) \in Nat
  <2>1. \A k \in DOMAIN streams : streams[k] \in StreamRecords
    BY DEF TokenStreams
  <2>2. x \in Seq(Tokens)
    BY <2>1 DEF StreamRecords
  <2>. HIDE DEF x
  <2>. QED  BY <2>2
<1>2. i \in 1 .. Len(x) - n + 1
  OBVIOUS
<1>. HIDE DEF x
<1>3. i \in 1 .. Len(x) /\ i + n - 1 \in 1 .. Len(x) /\ i \in Nat \ {0} /\ i + n - 1 \in Nat
  BY <1>1, <1>2
<1>4. x[i].line \in Nat /\ x[i + n - 1].line \in Nat
  <2>1. \A k \in 1 .. Len(x) : x[k] \in Tokens
    BY <1>1
  <2>2. x[i] \in Tokens /\ x[i + n - 1] \in Tokens
    BY <1>3, <2>1
  <2>. QED  BY <2>2 DEF Tokens
<1>5. /\ w.stream = s /\ w.startLine = x[i].line /\ w.endLine = x[i + n - 1].line
      /\ w.start = i /\ w.end = i + n - 1 /\ w \in SideRecords(streams)
  BY <1>3, <1>4 DEF Window, SideRecords
<1>6. w = Window(w.stream, streams[w.stream].tokens, w.start, n)
  BY <1>5 DEF x
<1>. HIDE DEF w
<1>7. w.end <= Len(streams[w.stream].tokens) /\ w.start + n <= w.end + 1
  <2>1. w.end <= Len(x) /\ w.start + n <= w.end + 1
    BY <1>1, <1>3, <1>5
  <2>. QED  BY <1>5, <2>1 DEF x
<1>8. Spans(w, minLines) => w \in SpanningWindows(streams, minLines, n)
  BY <1>5, <1>6, <1>7 DEF SpanningWindows, Sides
<1>9. w.stream = s /\ w.start = i /\ (Spans(w, minLines) => w \in SpanningWindows(streams, minLines, n))
  BY <1>5, <1>8
<1>. QED  BY <1>9 DEF w, x

(* Matching windows have one hash, a hash value.                              *)
LEMMA MatchingWindowsHash ==
  ASSUME NEW streams \in TokenStreams, NEW minLines \in Nat, NEW n \in Nat \ {0},
         NEW v \in SpanningWindows(streams, minLines, n), NEW w \in SpanningWindows(streams, minLines, n),
         TokensMatch(streams, v, w)
  PROVE  HashOf(streams, v, n) = HashOf(streams, w, n) /\ HashOf(streams, v, n) \in 0 .. HashSize - 1
<1>. DEFINE x == streams[v.stream].tokens
            y == streams[w.stream].tokens
<1>1. /\ v \in SideRecords(streams) /\ x \in Seq(Tokens) /\ v.start \in 1 .. Len(x) - n + 1
      /\ v.end = v.start + n - 1 /\ v.start <= v.end /\ v.end <= Len(x) /\ v.start \in Nat
  BY WindowFacts
<1>2. /\ w \in SideRecords(streams) /\ y \in Seq(Tokens) /\ w.start \in 1 .. Len(y) - n + 1
      /\ w.end = w.start + n - 1 /\ w.start <= w.end /\ w.end <= Len(y)
  BY WindowFacts
<1>3. SameRun(x, v.start, y, w.start, v.end - v.start + 1)
  BY <1>1, <1>2, MatchIsSameRun
<1>4. v.end - v.start + 1 = n
  BY <1>1
<1>. HIDE DEF x, y
<1>5. SameRun(x, v.start, y, w.start, n)
  BY <1>3, <1>4
<1>6. RollingHashes(x, n)[v.start] = RollingHashes(y, n)[w.start] /\ RollingHashes(x, n)[v.start] \in 0 .. HashSize - 1
  BY <1>1, <1>2, <1>5, EqualWindowsHash
<1>. QED  BY <1>6 DEF HashOf, x, y

(* A match of two windows that agree is a clone.                              *)
LEMMA MatchIsClone ==
  ASSUME NEW streams \in TokenStreams, NEW minLines \in Nat, NEW n \in Nat \ {0},
         NEW v \in SpanningWindows(streams, minLines, n), NEW w \in SpanningWindows(streams, minLines, n),
         TokensMatch(streams, v, w)
  PROVE  Match(streams, v, w) \in Clones(streams, minLines, n)
<1>1. v \in Sides(streams, minLines, n) /\ w \in Sides(streams, minLines, n)
  BY DEF SpanningWindows
<1>2. TokensMatch(streams, w, v)
  BY DEF TokensMatch, SameSymbols
<1>3. [a |-> v, b |-> w] \in Clones(streams, minLines, n) /\ [a |-> w, b |-> v] \in Clones(streams, minLines, n)
  BY <1>1, <1>2 DEF Clones
<1>. QED  BY <1>3 DEF Match

-----------------------------------------------------------------------------
(* Record adds the window and its matches, or gives up.                       *)
LEMMA RecordStep ==
  ASSUME NEW streams \in TokenStreams, NEW minLines \in Nat, NEW n \in Nat \ {0},
         NEW index \in Indexes(streams, minLines, n), index.ok,
         NEW w \in SpanningWindows(streams, minLines, n),
         NEW windows \in SUBSET SpanningWindows(streams, minLines, n)
  PROVE  LET next == Record(index, w, HashOf(streams, w, n), streams, minLines)
         IN  /\ next \in Indexes(streams, minLines, n)
             /\ ((\A v \in windows : Earlier(v, w)) /\ Indexed(index, streams, minLines, n, windows)) =>
                   Indexed(next, streams, minLines, n, windows \cup {w})
<1>. DEFINE W == SpanningWindows(streams, minLines, n)
            C == Clones(streams, minLines, n)
            h == HashOf(streams, w, n)
            kept == index.windows[h]
            fits == {v \in ToSet(kept) : ~TooClose(streams, v, w, minLines) /\ TokensMatch(streams, v, w)}
            fresh == Selected(kept, fits)
            found == [i \in DOMAIN fresh |-> Match(streams, fresh[i], w)]
            next == Record(index, w, h, streams, minLines)
            full == Len(kept) >= WindowLimit \/ Len(index.matches) + Len(fresh) > MatchLimit
<1>1. h \in 0 .. HashSize - 1
  <2>1. TokensMatch(streams, w, w)
    BY DEF TokensMatch, SameSymbols
  <2>. QED  BY <2>1, MatchingWindowsHash
<1>2. /\ index.ok \in BOOLEAN /\ index.windows \in [0 .. HashSize - 1 -> Seq(W)] /\ index.matches \in Seq(C)
      /\ index = [ok |-> index.ok, windows |-> index.windows, matches |-> index.matches]
  BY DEF Indexes
<1>3. kept \in Seq(W)
  BY <1>1, <1>2
<1>4. fresh \in Seq(W) /\ ToSet(fresh) = ToSet(kept) \cap fits
  <2>. HIDE DEF fits, kept, W
  <2>. QED  BY <1>3, SelectedSet
<1>5. \A v \in ToSet(fresh) : v \in W /\ TokensMatch(streams, v, w)
  <2>1. ToSet(fresh) \subseteq W
    <3>. HIDE DEF fresh, W
    <3>. QED  BY <1>4 DEF ToSet
  <2>. HIDE DEF fresh
  <2>. QED  BY <1>4, <2>1
<1>6. found \in Seq(C) /\ ToSet(found) = {Match(streams, v, w) : v \in ToSet(fresh)}
  <2>. HIDE DEF fresh, C, W
  <2>1. \A i \in DOMAIN fresh : fresh[i] \in ToSet(fresh)
    BY DEF ToSet
  <2>2. \A i \in DOMAIN fresh : Match(streams, fresh[i], w) \in C
    BY <1>5, <2>1, MatchIsClone DEF C, W
  <2>3. DOMAIN fresh = 1 .. Len(fresh) /\ Len(fresh) \in Nat
    BY <1>4
  <2>4. found \in Seq(C)
    BY <2>2, <2>3
  <2>5. ToSet(found) = {Match(streams, fresh[i], w) : i \in DOMAIN fresh}
    BY DEF ToSet
  <2>6. {Match(streams, fresh[i], w) : i \in DOMAIN fresh} = {Match(streams, v, w) : v \in ToSet(fresh)}
    BY DEF ToSet
  <2>. QED  BY <2>4, <2>5, <2>6
<1>7. CASE full
  <2>1. next = [index EXCEPT !.ok = FALSE]
    BY <1>7 DEF Record
  <2>. HIDE DEF next, W, C, full, kept, fresh
  <2>2. next = [ok |-> FALSE, windows |-> index.windows, matches |-> index.matches]
    BY <1>2, <2>1
  <2>3. next \in Indexes(streams, minLines, n) /\ ~next.ok
    BY <1>2, <2>2 DEF Indexes, W, C
  <2>4. Indexed(next, streams, minLines, n, windows \cup {w})
    BY <2>3 DEF Indexed
  <2>. QED  BY <2>3, <2>4 DEF next
<1>8. CASE ~full
  <2>. DEFINE table == [index.windows EXCEPT ![h] = Append(kept, w)]
              all == index.matches \o found
  <2>1. next = [index EXCEPT !.windows[h] = Append(@, w), !.matches = @ \o found]
    BY <1>8 DEF Record
  <2>. HIDE DEF next, full, fresh, found, fits, W, C
  <2>2. next = [ok |-> index.ok, windows |-> table, matches |-> all]
    <3>. HIDE DEF h
    <3>. QED  BY <1>2, <2>1
  <2>3. Append(kept, w) \in Seq(W) /\ ToSet(Append(kept, w)) = ToSet(kept) \cup {w}
    <3>1. w \in W
      BY DEF W
    <3>. HIDE DEF kept
    <3>. QED  BY <1>3, <3>1, AppendedSet
  <2>4. all \in Seq(C) /\ ToSet(all) = ToSet(index.matches) \cup ToSet(found)
    BY <1>2, <1>6, JoinedSet
  <2>. HIDE DEF h, all
  <2>5. /\ table \in [0 .. HashSize - 1 -> Seq(W)] /\ table[h] = Append(kept, w)
        /\ \A g \in 0 .. HashSize - 1 : g # h => table[g] = index.windows[g]
    <3>. HIDE DEF kept
    <3>. QED  BY <1>1, <1>2, <2>3
  <2>. HIDE DEF table
  <2>6. next.ok = index.ok /\ next.windows = table /\ next.matches = all
    BY <2>2
  <2>7. next \in Indexes(streams, minLines, n)
    BY <1>2, <2>2, <2>4, <2>5 DEF Indexes, W, C
  <2>8. ASSUME \A v \in windows : Earlier(v, w), Indexed(index, streams, minLines, n, windows)
        PROVE  Indexed(next, streams, minLines, n, windows \cup {w})
    <3>1. /\ \A v \in windows : v \in ToSet(index.windows[HashOf(streams, v, n)])
          /\ \A g \in 0 .. HashSize - 1 : ToSet(index.windows[g]) \subseteq windows
          /\ \A u, v \in windows : Duplicates(streams, u, v, minLines) =>
                Match(streams, u, v) \in ToSet(index.matches)
      BY <2>8 DEF Indexed
    <3>2. \A g \in 0 .. HashSize - 1 : ToSet(table[g]) \subseteq windows \cup {w}
      BY <2>3, <2>5, <3>1 DEF kept
    <3>3. ASSUME NEW v \in windows \cup {w}
          PROVE  v \in ToSet(table[HashOf(streams, v, n)])
      <4>1. HashOf(streams, v, n) \in 0 .. HashSize - 1
        <5>1. TokensMatch(streams, v, v) /\ v \in SpanningWindows(streams, minLines, n)
          BY DEF TokensMatch, SameSymbols
        <5>. QED  BY <5>1, MatchingWindowsHash
      <4>2. CASE v = w
        BY <2>3, <2>5, <4>2 DEF h
      <4>3. CASE v # w /\ HashOf(streams, v, n) = h
        BY <2>3, <2>5, <3>1, <4>3 DEF kept
      <4>4. CASE v # w /\ HashOf(streams, v, n) # h
        BY <2>5, <3>1, <4>1, <4>4
      <4>. QED  BY <4>2, <4>3, <4>4
    <3>4. ASSUME NEW u \in windows \cup {w}, NEW v \in windows \cup {w}, Duplicates(streams, u, v, minLines)
          PROVE  Match(streams, u, v) \in ToSet(all)
      <4>1. CASE u \in windows /\ v \in windows
        BY <2>4, <3>1, <3>4, <4>1
      <4>2. CASE u \in windows /\ v = w
        <5>1. TokensMatch(streams, u, w) /\ ~TooClose(streams, u, w, minLines)
          BY <3>4, <4>2 DEF Duplicates
        <5>2. u \in SpanningWindows(streams, minLines, n)
          BY <4>2
        <5>3. HashOf(streams, u, n) = h
          BY <5>1, <5>2, MatchingWindowsHash DEF h
        <5>4. u \in ToSet(kept)
          BY <3>1, <4>2, <5>3 DEF kept
        <5>5. u \in ToSet(fresh)
          BY <1>4, <5>1, <5>4 DEF fits
        <5>. QED  BY <1>6, <2>4, <4>2, <5>5
      <4>3. CASE u = w
        <5>1. Earlier(w, v) /\ (v = w \/ Earlier(v, w))
          BY <2>8, <3>4, <4>3 DEF Duplicates
        <5>2. w.stream \in Nat /\ w.start \in Nat /\ v.stream \in Nat /\ v.start \in Nat
          <6>1. v \in SpanningWindows(streams, minLines, n)
            OBVIOUS
          <6>. QED  BY <6>1, WindowFacts
        <5>. QED  BY <5>1, <5>2 DEF Earlier
      <4>. QED  BY <4>1, <4>2, <4>3
    <3>. QED  BY <2>6, <3>2, <3>3, <3>4 DEF Indexed
  <2>. QED  BY <2>7, <2>8 DEF next, h
<1>. QED  BY <1>7, <1>8

(* One window of a stream: recorded when it spans the lines.                  *)
IndexWindow(index, s, i, streams, minLines, n) ==
    LET w == Window(s, streams[s].tokens, i, n)
    IN  IF index.ok /\ Spans(w, minLines)
        THEN Record(index, w, RollingHashes(streams[s].tokens, n)[i], streams, minLines) ELSE index

(* The spanning windows up to a place of a stream.                            *)
UpTo(streams, minLines, n, s, i) ==
    {w \in SpanningWindows(streams, minLines, n) : w.stream < s \/ (w.stream = s /\ w.start <= i)}

(* A window more: the index stays complete for the windows so far.            *)
LEMMA IndexWindowStep ==
  ASSUME NEW streams \in TokenStreams, NEW minLines \in Nat, NEW n \in Nat \ {0},
         NEW s \in DOMAIN streams, NEW i \in 1 .. Len(streams[s].tokens) - n + 1,
         NEW index \in Indexes(streams, minLines, n)
  PROVE  LET next == IndexWindow(index, s, i, streams, minLines, n)
         IN  /\ next \in Indexes(streams, minLines, n)
             /\ Indexed(index, streams, minLines, n, UpTo(streams, minLines, n, s, i - 1)) =>
                   Indexed(next, streams, minLines, n, UpTo(streams, minLines, n, s, i))
<1>. DEFINE w == Window(s, streams[s].tokens, i, n)
            next == IndexWindow(index, s, i, streams, minLines, n)
            before == UpTo(streams, minLines, n, s, i - 1)
            after == UpTo(streams, minLines, n, s, i)
<1>1. w.stream = s /\ w.start = i /\ (Spans(w, minLines) => w \in SpanningWindows(streams, minLines, n))
  BY WindowAt
<1>2. s \in Nat /\ i \in Nat
  BY DEF TokenStreams
<1>3. \A x \in SpanningWindows(streams, minLines, n) :
         /\ x.stream \in Nat /\ x.start \in Nat /\ Spans(x, minLines)
         /\ x = Window(x.stream, streams[x.stream].tokens, x.start, n)
  BY WindowFacts DEF SpanningWindows
<1>. HIDE DEF w
<1>4. \A x \in SpanningWindows(streams, minLines, n) : (x.stream = s /\ x.start = i) => x = w
  BY <1>3 DEF w
<1>5. after = IF Spans(w, minLines) THEN before \cup {w} ELSE before
  <2>1. \A x \in SpanningWindows(streams, minLines, n) :
           x \in after <=> (x \in before \/ (x.stream = s /\ x.start = i))
    BY <1>2, <1>3 DEF UpTo
  <2>2. \A x \in SpanningWindows(streams, minLines, n) : (x.stream = s /\ x.start = i) <=> x = w
    BY <1>1, <1>4
  <2>3. before \subseteq SpanningWindows(streams, minLines, n) /\ after \subseteq SpanningWindows(streams, minLines, n)
    BY DEF UpTo
  <2>4. w \in SpanningWindows(streams, minLines, n) <=> Spans(w, minLines)
    BY <1>1, <1>3
  <2>. HIDE DEF before, after
  <2>. QED  BY <2>1, <2>2, <2>3, <2>4
<1>6. before \subseteq SpanningWindows(streams, minLines, n) /\ \A v \in before : Earlier(v, w)
  <2>1. \A x \in before : x.stream < s \/ (x.stream = s /\ x.start < i)
    BY <1>2, <1>3 DEF UpTo
  <2>2. \A x \in before : Earlier(x, w)
    <3>. HIDE DEF before
    <3>. QED  BY <1>1, <2>1 DEF Earlier
  <2>. QED  BY <2>2 DEF UpTo
<1>. HIDE DEF before, after
<1>7. CASE index.ok /\ Spans(w, minLines)
  <2>1. next = Record(index, w, HashOf(streams, w, n), streams, minLines)
    BY <1>1, <1>7 DEF IndexWindow, HashOf, w
  <2>. HIDE DEF next
  <2>2. next \in Indexes(streams, minLines, n)
    BY <1>1, <1>6, <1>7, <2>1, RecordStep
  <2>3. ASSUME Indexed(index, streams, minLines, n, before)
        PROVE  Indexed(next, streams, minLines, n, before \cup {w})
    BY <1>1, <1>6, <1>7, <2>1, <2>3, RecordStep
  <2>. QED  BY <1>5, <1>7, <2>2, <2>3 DEF next, before, after
<1>8. CASE ~index.ok
  <2>1. next = index
    BY <1>8 DEF IndexWindow
  <2>. HIDE DEF next
  <2>2. Indexed(next, streams, minLines, n, after)
    BY <1>8, <2>1 DEF Indexed
  <2>. QED  BY <2>1, <2>2 DEF next, after
<1>9. CASE ~Spans(w, minLines)
  <2>1. next = index
    BY <1>9 DEF IndexWindow, w
  <2>2. after = before
    BY <1>5, <1>9
  <2>. HIDE DEF next
  <2>. QED  BY <2>1, <2>2 DEF next, after, before
<1>. QED  BY <1>7, <1>8, <1>9

(* IndexStream, window by window.                                             *)
LEMMA IndexStreamRuns ==
  ASSUME NEW streams \in TokenStreams, NEW minLines \in Nat, NEW n \in Nat \ {0},
         NEW s \in DOMAIN streams, n <= Len(streams[s].tokens), NEW index \in Indexes(streams, minLines, n)
  PROVE  \E run \in [0 .. Len(streams[s].tokens) - n + 1 -> Indexes(streams, minLines, n)] :
            /\ run[0] = index /\ run[Len(streams[s].tokens) - n + 1] = IndexStream(index, s, streams, minLines, n)
            /\ \A k \in 1 .. Len(streams[s].tokens) - n + 1 :
                  run[k] = IndexWindow(run[k - 1], s, k, streams, minLines, n)
<1>. DEFINE len == Len(streams[s].tokens) - n + 1
            seq == [i \in 1 .. Len(streams[s].tokens) - n + 1 |-> i]
            State == Indexes(streams, minLines, n)
            base == index
            Next(x, k) == IndexWindow(x, s, seq[k], streams, minLines, n)
            Step == [q \in State \X (1 .. len) |-> Next(q[1], q[2])]
            Iterates(g) == g = [js \in SUBSET DOMAIN seq |->
                                  IF js = {} THEN base ELSE Next(g[js \ {Max(js)}], Max(js))]
            it == CHOOSE g : Iterates(g)
<1>0. ~(Len(streams[s].tokens) < n)
  <2>1. streams[s].tokens \in Seq(Tokens)
    <3>1. \A k \in DOMAIN streams : streams[k] \in StreamRecords
      BY DEF TokenStreams
    <3>. QED  BY <3>1 DEF StreamRecords
  <2>2. Len(streams[s].tokens) \in Nat
    BY <2>1
  <2>. QED  BY <2>2
<1>1. DOMAIN seq = 1 .. len /\ len \in Nat /\ \A k \in 1 .. len : seq[k] = k
  <2>1. streams[s].tokens \in Seq(Tokens)
    <3>1. \A k \in DOMAIN streams : streams[k] \in StreamRecords
      BY DEF TokenStreams
    <3>. QED  BY <3>1 DEF StreamRecords
  <2>. QED  BY <2>1
<1>2. ASSUME NEW x \in State, NEW k \in 1 .. len  PROVE Next(x, k) \in State
  BY IndexWindowStep
<1>3. IndexStream(index, s, streams, minLines, n) = it[DOMAIN seq]
  BY <1>0, Zenon DEF IndexStream, IndexWindow, FoldLeft, MapThenFoldSet
<1>4. base \in State
  OBVIOUS
<1>. HIDE DEF Next, State, base, seq
<1>5. Step \in [State \X (1 .. len) -> State]
  BY <1>2
<1>6. FoldOf(it, len, State, base, Step)
  <2>. SUFFICES ASSUME NEW g, Solves(g, len, State, base, Step)
                PROVE  Follows(it, len, State, base, Step)
    BY DEF FoldOf
  <2>1. \A js \in SUBSET (1 .. len) : js # {} => g[js] = Next(g[js \ {Max(js)}], Max(js))
    BY DEF Solves
  <2>2. Iterates(g)
    BY <1>1, <2>1 DEF Solves
  <2>3. Iterates(it)
    <3>. HIDE DEF Iterates
    <3>. QED  BY <2>2
  <2>. HIDE DEF it
  <2>. QED  BY <1>1, <2>3 DEF Follows
<1>. HIDE DEF it
<1>7. PICK run \in [0 .. len -> State] : RunsTo(run, it, len, base, Step)
  <2>. HIDE DEF Step
  <2>1. len \in Nat
    BY <1>1
  <2>. QED  BY <1>4, <1>5, <1>6, <2>1, FoldRuns
<1>8. \A k \in 1 .. len : run[k] = Next(run[k - 1], k)
  <2>1. \A k \in 1 .. len : run[k] = Step[<<run[k - 1], k>>]
    <3>. HIDE DEF Step
    <3>. QED  BY <1>7 DEF Runs, RunsTo
  <2>2. \A k \in 1 .. len : k - 1 \in 0 .. len
    OBVIOUS
  <2>3. \A k \in 1 .. len : <<run[k - 1], k>> \in State \X (1 .. len)
    BY <2>2
  <2>. QED  BY <2>1, <2>3
<1>9. run[0] = base
  BY <1>7 DEF Runs, RunsTo
<1>10. run[len] = IndexStream(index, s, streams, minLines, n)
  BY <1>1, <1>3, <1>7 DEF RunsTo
<1>11. \A k \in 1 .. len : run[k] = IndexWindow(run[k - 1], s, k, streams, minLines, n)
  BY <1>1, <1>8 DEF Next
<1>. QED  BY <1>7, <1>9, <1>10, <1>11 DEF State, base

-----------------------------------------------------------------------------
(* A stream whose windows are all indexed leaves the index for the next one.  *)
LEMMA IndexStreamStep ==
  ASSUME NEW streams \in TokenStreams, NEW minLines \in Nat, NEW n \in Nat \ {0},
         NEW s \in DOMAIN streams, NEW index \in Indexes(streams, minLines, n)
  PROVE  LET next == IndexStream(index, s, streams, minLines, n)
         IN  /\ next \in Indexes(streams, minLines, n)
             /\ Indexed(index, streams, minLines, n, UpTo(streams, minLines, n, s, 0)) =>
                   Indexed(next, streams, minLines, n, UpTo(streams, minLines, n, s + 1, 0))
<1>. DEFINE next == IndexStream(index, s, streams, minLines, n)
            x == streams[s].tokens
            len == Len(x) - n + 1
            I == Indexes(streams, minLines, n)
            Holds(y, k) == Indexed(index, streams, minLines, n, UpTo(streams, minLines, n, s, 0)) =>
                              Indexed(y, streams, minLines, n, UpTo(streams, minLines, n, s, k))
            Good == [k \in 0 .. len |-> {y \in I : Holds(y, k)}]
<1>1. x \in Seq(Tokens) /\ s \in Nat
  <2>1. \A k \in DOMAIN streams : k \in Nat /\ streams[k] \in StreamRecords
    BY DEF TokenStreams
  <2>. QED  BY <2>1 DEF StreamRecords
<1>2. Len(x) \in Nat
  <2>. HIDE DEF x
  <2>. QED  BY <1>1
<1>3. CASE Len(x) < n
  <2>1. next = index
    BY <1>3 DEF IndexStream
  <2>2. UpTo(streams, minLines, n, s, 0) = UpTo(streams, minLines, n, s + 1, 0)
    <3>1. \A w \in SpanningWindows(streams, minLines, n) : w.stream \in Nat /\ w.start \in Nat \ {0} /\ w.stream # s
      <4>1. ASSUME NEW w \in SpanningWindows(streams, minLines, n), w.stream = s  PROVE FALSE
        <5>1. w.start \in 1 .. Len(x) - n + 1
          BY <4>1, WindowFacts
        <5>. HIDE DEF x
        <5>. QED  BY <1>2, <1>3, <5>1
      <4>. QED  BY <4>1, WindowFacts
    <3>2. \A w \in SpanningWindows(streams, minLines, n) :
             (w.stream < s \/ (w.stream = s /\ w.start <= 0)) <=>
               (w.stream < s + 1 \/ (w.stream = s + 1 /\ w.start <= 0))
      BY <1>1, <3>1
    <3>. QED  BY <3>2 DEF UpTo
  <2>. HIDE DEF next
  <2>. QED  BY <2>1, <2>2 DEF next
<1>4. CASE n <= Len(x)
  <2>1. PICK run \in [0 .. len -> I] :
           /\ run[0] = index /\ run[len] = next
           /\ \A k \in 1 .. len : run[k] = IndexWindow(run[k - 1], s, k, streams, minLines, n)
    BY <1>4, IndexStreamRuns
  <2>2. len \in Nat /\ 0 \in 0 .. len /\ len \in 0 .. len
    BY <1>2, <1>4
  <2>3. run[0] \in Good[0]
    <3>. HIDE DEF len, I
    <3>. QED  BY <2>1, <2>2
  <2>4. ASSUME NEW k \in 1 .. len, run[k - 1] \in Good[k - 1]
        PROVE  run[k] \in Good[k]
    <3>1. k \in 0 .. len /\ k - 1 \in 0 .. len
      BY <2>2
    <3>2. run[k - 1] \in I /\ Holds(run[k - 1], k - 1)
      <4>. HIDE DEF len, I, Holds
      <4>. QED  BY <2>4, <3>1
    <3>3. /\ run[k] \in I
          /\ Indexed(run[k - 1], streams, minLines, n, UpTo(streams, minLines, n, s, k - 1)) =>
               Indexed(run[k], streams, minLines, n, UpTo(streams, minLines, n, s, k))
      BY <2>1, <3>2, IndexWindowStep
    <3>4. Holds(run[k], k)
      BY <3>2, <3>3
    <3>. HIDE DEF len, I, Holds
    <3>. QED  BY <3>1, <3>3, <3>4
  <2>5. run[len] \in Good[len]
    <3>. HIDE DEF Good, len
    <3>1. \A k \in 0 .. len : run[k] \in Good[k]
      BY <2>2, <2>3, <2>4, RunInvariant
    <3>. QED  BY <2>2, <3>1
  <2>6. next \in I /\ Holds(next, len)
    <3>. HIDE DEF Holds, I, len, next
    <3>. QED  BY <2>1, <2>2, <2>5
  <2>7. UpTo(streams, minLines, n, s, len) = UpTo(streams, minLines, n, s + 1, 0)
    <3>1. \A w \in SpanningWindows(streams, minLines, n) :
             w.stream \in Nat /\ w.start \in Nat \ {0} /\ (w.stream = s => w.start <= len)
      BY WindowFacts
    <3>. HIDE DEF len
    <3>2. \A w \in SpanningWindows(streams, minLines, n) :
             (w.stream < s \/ (w.stream = s /\ w.start <= len)) <=>
               (w.stream < s + 1 \/ (w.stream = s + 1 /\ w.start <= 0))
      BY <1>1, <2>2, <3>1
    <3>. QED  BY <3>2 DEF UpTo
  <2>. HIDE DEF next, len
  <2>. QED  BY <2>6, <2>7 DEF next
<1>. HIDE DEF x
<1>. QED  BY <1>2, <1>3, <1>4

(* BuildIndex, stream by stream.                                              *)
LEMMA BuildIndexRuns ==
  ASSUME NEW streams \in TokenStreams, NEW minLines \in Nat, NEW n \in Nat \ {0}
  PROVE  \E run \in [0 .. Len(streams) -> Indexes(streams, minLines, n)] :
            /\ run[0] = [ok |-> TRUE, windows |-> [h \in 0 .. HashSize - 1 |-> <<>>], matches |-> <<>>]
            /\ run[Len(streams)] = BuildIndex(streams, minLines, n)
            /\ \A k \in 1 .. Len(streams) : run[k] = IndexStream(run[k - 1], k, streams, minLines, n)
<1>. DEFINE len == Len(streams)
            seq == [s \in DOMAIN streams |-> s]
            State == Indexes(streams, minLines, n)
            base == [ok |-> TRUE, windows |-> [h \in 0 .. HashSize - 1 |-> <<>>], matches |-> <<>>]
            Next(x, k) == IndexStream(x, seq[k], streams, minLines, n)
            Step == [q \in State \X (1 .. len) |-> Next(q[1], q[2])]
            Iterates(g) == g = [js \in SUBSET DOMAIN seq |->
                                  IF js = {} THEN base ELSE Next(g[js \ {Max(js)}], Max(js))]
            it == CHOOSE g : Iterates(g)
<1>1. DOMAIN seq = 1 .. len /\ len \in Nat /\ \A k \in 1 .. len : seq[k] = k
  BY DEF TokenStreams
<1>2. ASSUME NEW x \in State, NEW k \in 1 .. len  PROVE Next(x, k) \in State
  <2>1. seq[k] = k /\ k \in DOMAIN streams
    BY DEF TokenStreams
  <2>. QED  BY <2>1, IndexStreamStep
<1>3. BuildIndex(streams, minLines, n) = it[DOMAIN seq]
  BY Zenon DEF BuildIndex, FoldLeft, MapThenFoldSet
<1>4. base \in State
  BY DEF Indexes
<1>. HIDE DEF Next, State, base, seq
<1>5. Step \in [State \X (1 .. len) -> State]
  BY <1>2
<1>6. FoldOf(it, len, State, base, Step)
  <2>. SUFFICES ASSUME NEW g, Solves(g, len, State, base, Step)
                PROVE  Follows(it, len, State, base, Step)
    BY DEF FoldOf
  <2>1. \A js \in SUBSET (1 .. len) : js # {} => g[js] = Next(g[js \ {Max(js)}], Max(js))
    BY DEF Solves
  <2>2. Iterates(g)
    BY <1>1, <2>1 DEF Solves
  <2>3. Iterates(it)
    <3>. HIDE DEF Iterates
    <3>. QED  BY <2>2
  <2>. HIDE DEF it
  <2>. QED  BY <1>1, <2>3 DEF Follows
<1>. HIDE DEF it
<1>7. PICK run \in [0 .. len -> State] : RunsTo(run, it, len, base, Step)
  <2>. HIDE DEF Step
  <2>1. len \in Nat
    BY <1>1
  <2>. QED  BY <1>4, <1>5, <1>6, <2>1, FoldRuns
<1>8. \A k \in 1 .. len : run[k] = Next(run[k - 1], k)
  <2>1. \A k \in 1 .. len : run[k] = Step[<<run[k - 1], k>>]
    <3>. HIDE DEF Step
    <3>. QED  BY <1>7 DEF Runs, RunsTo
  <2>2. \A k \in 1 .. len : k - 1 \in 0 .. len
    OBVIOUS
  <2>3. \A k \in 1 .. len : <<run[k - 1], k>> \in State \X (1 .. len)
    BY <2>2
  <2>. QED  BY <2>1, <2>3
<1>9. run[0] = base
  BY <1>7 DEF Runs, RunsTo
<1>10. run[len] = BuildIndex(streams, minLines, n)
  BY <1>1, <1>3, <1>7 DEF RunsTo
<1>11. \A k \in 1 .. len : run[k] = IndexStream(run[k - 1], k, streams, minLines, n)
  BY <1>1, <1>8 DEF Next
<1>12. run[0] = [ok |-> TRUE, windows |-> [h \in 0 .. HashSize - 1 |-> <<>>], matches |-> <<>>]
  BY <1>9 DEF base
<1>13. run \in [0 .. len -> Indexes(streams, minLines, n)]
  BY <1>7 DEF State
<1>. QED  BY <1>10, <1>11, <1>12, <1>13

(* The index of all streams.                                                  *)
LEMMA IndexIsComplete ==
  ASSUME NEW streams \in TokenStreams, NEW minLines \in Nat, NEW n \in Nat \ {0}
  PROVE  /\ BuildIndex(streams, minLines, n) \in Indexes(streams, minLines, n)
         /\ Indexed(BuildIndex(streams, minLines, n), streams, minLines, n, SpanningWindows(streams, minLines, n))
<1>. DEFINE len == Len(streams)
            I == Indexes(streams, minLines, n)
            Holds(y, k) == Indexed(y, streams, minLines, n, UpTo(streams, minLines, n, k + 1, 0))
            Good == [k \in 0 .. len |-> {y \in I : Holds(y, k)}]
<1>1. PICK run \in [0 .. len -> I] :
         /\ run[0] = [ok |-> TRUE, windows |-> [h \in 0 .. HashSize - 1 |-> <<>>], matches |-> <<>>]
         /\ run[len] = BuildIndex(streams, minLines, n)
         /\ \A k \in 1 .. len : run[k] = IndexStream(run[k - 1], k, streams, minLines, n)
  BY BuildIndexRuns
<1>2. len \in Nat /\ 0 \in 0 .. len /\ len \in 0 .. len /\ DOMAIN streams = 1 .. len
  BY DEF TokenStreams
<1>3. \A w \in SpanningWindows(streams, minLines, n) : w.stream \in 1 .. len /\ w.start \in Nat \ {0}
  BY <1>2, WindowFacts
<1>. HIDE DEF len
<1>4. UpTo(streams, minLines, n, 0 + 1, 0) = {}
  <2>1. \A w \in SpanningWindows(streams, minLines, n) : ~(w.stream < 0 + 1 \/ (w.stream = 0 + 1 /\ w.start <= 0))
    BY <1>2, <1>3
  <2>. QED  BY <2>1 DEF UpTo
<1>5. UpTo(streams, minLines, n, len + 1, 0) = SpanningWindows(streams, minLines, n)
  <2>1. \A w \in SpanningWindows(streams, minLines, n) : w.stream < len + 1
    BY <1>2, <1>3
  <2>. QED  BY <2>1 DEF UpTo
<1>6. run[0] \in Good[0]
  <2>1. \A h \in 0 .. HashSize - 1 : run[0].windows[h] = <<>>
    BY <1>1
  <2>2. ToSet(<<>>) = {}
    BY DEF ToSet
  <2>3. Holds(run[0], 0)
    BY <1>4, <2>1, <2>2 DEF Indexed
  <2>. HIDE DEF Holds, I
  <2>. QED  BY <1>1, <1>2, <2>3
<1>7. ASSUME NEW k \in 1 .. len, run[k - 1] \in Good[k - 1]
      PROVE  run[k] \in Good[k]
  <2>1. k \in 0 .. len /\ k - 1 \in 0 .. len /\ k \in DOMAIN streams /\ (k - 1) + 1 = k
    BY <1>2
  <2>2. run[k - 1] \in I /\ Holds(run[k - 1], k - 1)
    <3>. HIDE DEF I, Holds
    <3>. QED  BY <1>7, <2>1
  <2>3. Indexed(run[k - 1], streams, minLines, n, UpTo(streams, minLines, n, k, 0))
    BY <2>1, <2>2
  <2>4. run[k] = IndexStream(run[k - 1], k, streams, minLines, n)
    BY <1>1
  <2>5. run[k] \in I /\ Holds(run[k], k)
    BY <2>1, <2>2, <2>3, <2>4, IndexStreamStep
  <2>. HIDE DEF I, Holds
  <2>. QED  BY <2>1, <2>5
<1>8. run[len] \in Good[len]
  <2>. HIDE DEF Good
  <2>1. \A k \in 0 .. len : run[k] \in Good[k]
    BY <1>2, <1>6, <1>7, RunInvariant
  <2>. QED  BY <1>2, <2>1
<1>9. run[len] \in I /\ Holds(run[len], len)
  <2>. HIDE DEF I, Holds
  <2>. QED  BY <1>2, <1>8
<1>. QED  BY <1>1, <1>5, <1>9

(* Whatever the streams: detection that does not fail reports a clone for     *)
(* every two windows that are duplicates, and clones only.                    *)
LEMMA EveryDuplicateIsFound ==
  ASSUME NEW streams \in TokenStreams, NEW minLines \in Nat, NEW n \in Nat \ {0}
  PROVE  DetectionIsComplete(streams, minLines, n)
<1>. DEFINE result == DetectClones(streams, minLines, n)
            windows == UNION {{Window(s, streams[s].tokens, i, n) : i \in 1 .. Len(streams[s].tokens) - n + 1}
                                : s \in DOMAIN streams}
            index == BuildIndex(streams, minLines, n)
            C == Clones(streams, minLines, n)
            merged == Coalesce(streams, index.matches)
            good == {c \in ToSet(merged) : Reportable(streams, c, minLines, n)}
            found == Selected(merged, good)
<1>1. index \in Indexes(streams, minLines, n) /\ Indexed(index, streams, minLines, n, SpanningWindows(streams, minLines, n))
  BY IndexIsComplete
<1>2. CASE ~index.ok
  <2>1. ~result.ok
    BY <1>2 DEF DetectClones
  <2>. HIDE DEF result
  <2>. QED  BY <2>1 DEF DetectionIsComplete, result
<1>3. CASE index.ok
  <2>1. result.ok /\ result.clones = found
    BY <1>3 DEF DetectClones
  <2>. HIDE DEF result, index
  <2>2. index.matches \in Seq(C)
    BY <1>1 DEF Indexes
  <2>3. merged \in Seq(C) /\ \A m \in ToSet(index.matches) : Covered(streams, merged, m)
    BY <2>2, CoalesceCovers
  <2>4. \A c \in C : Reportable(streams, c, minLines, n)
    <3>1. \A c \in C : c.a \in Sides(streams, minLines, n) /\ c.b \in Sides(streams, minLines, n) /\ TokensMatch(streams, c.a, c.b)
      BY DEF Clones
    <3>2. \A x \in Sides(streams, minLines, n) : Spans(x, minLines) /\ x.end - x.start + 1 >= n
      BY DEF Sides, SideRecords
    <3>. HIDE DEF C
    <3>. QED  BY <3>1, <3>2 DEF Reportable
  <2>. HIDE DEF C, merged
  <2>5. ToSet(merged) \subseteq C
    BY <2>3 DEF ToSet
  <2>6. good = ToSet(merged)
    BY <2>4, <2>5
  <2>7. found \in Seq(C) /\ ToSet(found) = ToSet(merged)
    <3>1. found \in Seq(C) /\ ToSet(found) = ToSet(merged) \cap good
      <4>. HIDE DEF good
      <4>. QED  BY <2>3, SelectedSet
    <3>. HIDE DEF found, good
    <3>. QED  BY <2>6, <3>1
  <2>. HIDE DEF found, good
  <2>8. ASSUME NEW i \in DOMAIN found
        PROVE  /\ SameSymbols(Slice(streams, found[i].a.stream, found[i].a.start, found[i].a.end),
                              Slice(streams, found[i].b.stream, found[i].b.start, found[i].b.end))
               /\ found[i].a.end - found[i].a.start + 1 >= n
    <3>1. found[i] \in C
      BY <2>7
    <3>. QED  BY <2>4, <3>1 DEF Reportable, TokensMatch
  <2>9. ASSUME NEW v \in windows, Spans(v, minLines)
        PROVE  v \in SpanningWindows(streams, minLines, n)
    <3>1. PICK s \in DOMAIN streams : \E i \in 1 .. Len(streams[s].tokens) - n + 1 : v = Window(s, streams[s].tokens, i, n)
      OBVIOUS
    <3>2. PICK i \in 1 .. Len(streams[s].tokens) - n + 1 : v = Window(s, streams[s].tokens, i, n)
      BY <3>1
    <3>. QED  BY <2>9, <3>2, WindowAt
  <2>. HIDE DEF windows
  <2>10. ASSUME NEW v \in windows, NEW w \in windows, Spans(v, minLines), Spans(w, minLines),
                Duplicates(streams, v, w, minLines)
         PROVE  \E i \in DOMAIN found : Covers(streams, found[i], Match(streams, v, w))
    <3>1. Match(streams, v, w) \in ToSet(index.matches)
      BY <1>1, <1>3, <2>9, <2>10 DEF Indexed
    <3>2. PICK k \in DOMAIN merged : Covers(streams, merged[k], Match(streams, v, w))
      BY <2>3, <3>1 DEF Covered
    <3>3. merged[k] \in ToSet(found)
      BY <2>7 DEF ToSet
    <3>4. PICK i \in DOMAIN found : merged[k] = found[i]
      BY <3>3 DEF ToSet
    <3>. QED  BY <3>2, <3>4
  <2>11. /\ \A v, w \in {x \in windows : Spans(x, minLines)} :
               ((v.stream < w.stream \/ (v.stream = w.stream /\ v.start < w.start))
                  /\ TokensMatch(streams, v, w) /\ ~TooClose(streams, v, w, minLines)) =>
                 \E i \in DOMAIN found :
                   /\ Paths(streams, found[i]) = Paths(streams, Match(streams, v, w))
                   /\ Overlap(found[i].a, Match(streams, v, w).a) \/ Overlap(found[i].b, Match(streams, v, w).b)
    BY <2>10 DEF Duplicates, Earlier, Covers
  <2>. QED  BY <2>1, <2>8, <2>11 DEF DetectionIsComplete, result, windows
<1>. QED  BY <1>2, <1>3

(* Clone detection is complete and sound (ClonesAreComplete), for all streams *)
(* of tokens, whatever the hashes collide on.                                 *)
THEOREM EveryCloneIsFound ==
  ASSUME Is("clones") =>
           /\ case.streams \in TokenStreams
           /\ case.minLines \in Nat
           /\ case.minTokens \in Nat \ {0}
  PROVE  ClonesAreComplete
BY EveryDuplicateIsFound DEF ClonesAreComplete
=================================================================================
