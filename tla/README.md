# Formal models of hardgate

hardgate is a local quality gate: it runs external tools (coverage, mutation
testing, formatters, test runners), turns their reports into *source-bound
evidence* and decides from evidence and static findings whether a change is
accepted.  Its own difficult logic is not the parsing of reports but the
protocol around them: which bytes a receipt may vouch for, what survives a
failure or a crash, and how processes that nobody controls are started,
watched and ended.  The modules in this directory model that logic, TLC checks
it on small instances, and TLAPS proves the safety of every protocol and of the
check command for every size.  Where the verdict rests on an algorithm (a
ratchet, a score, a set of partitions, a clone index), that algorithm is a
module too, checked against a reference definition that reads the answer off the
input, and proved to give that answer for inputs of every size.  Every safety
property that a passing run checks is also a theorem.

Paths below are relative to the repository root as `src/…`; the Rust crate is
`src/src/`.

## Inventory

| Component | State it keeps | Operations | Interacts with | What makes it correct |
|---|---|---|---|---|
| Evidence publication (`evidence/{execution,publication,authentication,workspace*,snapshot}.rs`) | report, receipt, `.pending` file, registry (slot, record), workspace copy, job marker | produce, stages, publish, certify, close, drop guards | process supervision runs its stages; the workload slot serialises it; the gate reads its artifacts | usable evidence = bytes of that very run on the recorded inputs; a failed run leaves only what its guards could not remove |
| Evidence gate (`evidence/mod.rs`, `aggregation.rs`, `commands/{verify,coverage_reports,gate_evidence}.rs`) | none of its own | verify, verify_set, score | reads what producers write, while the developer edits | what is scored was verified, on the checkout of now |
| Process supervision (`engines/process*.rs`) | child, process group, two pipes and reader threads, deadline | spawn, poll, terminate, reap, collect | OS processes, signals, memory pressure | no clean outcome with survivors; always returns |
| Workload supervisor (`resources/runtime*`, `resources/lease.rs`, `cli_runtime.rs`) | flock slot, transient scope, readiness marker | acquire, launch, wait, cancel, clean up, exit status | systemd, itself as scope leader | one workload per user; the status is the inner verdict; nothing survives |
| Managed mutation workload (`resources/managed/*`, `engines/process/mutation.rs`) | pinned scope, start gate, kernel counters | prepare, poll, start, stop, collect | systemd, cgroup, shim process | no mutant runs outside limits; incomplete runs are not evidence |
| Resource budget (`resources/{budget,worker_plan,memory*}.rs`, `runtime/profile.rs`) | memory sample | align, reserve, plan | managed workload, supervisor | never more than is available, never zero workers by wrap-around |
| Read-only tool sessions (`evidence/read_only*.rs`, `runtime_inputs.rs`, `process/write_guard.rs`) | verified copy, protected paths | run, verify, close, publish | formatters and linters | tools do not change the checkout |
| Evidence orchestration (`evidence/{orchestration,partitions,mutation_scope}.rs`) | baseline and partition receipts | reuse, run partitions | evidence publication | a reused report is still valid for what is checked |
| Check command (`commands/check*`, `outcome.rs`, `execution_plan.rs`, `engines/orchestration.rs`) | sections of a report | select, run, combine | all of the above | failing and incomplete sections are never a pass |
| Adoption (`adoption*`, `git_evidence.rs`) | git diff, legacy findings | ratchet | git | a legacy allowance never covers new code |
| Mutation gatekeeper, coverage evaluation, clone index, complexity, anti-gaming, invariants | none | pure functions | report files, syntax trees | thresholds, merging and ranges at their boundaries |
| Configuration, discovery, diagnostics, init, MCP server | none across a request | load, classify, render, answer | files, stdio | – |
| Release scripts (`scripts/*.mjs`, `npm/`) | – | – | – | not the program |

The behaviours that are hard to test, each at its line, are the `hazards` of
`PROJECT.json`: artifacts written and read one by one while others replace
them, walks of a checkout that is edited meanwhile, crashes between two
artifacts, drop guards that unlink by path, a deadline racing an exit, forks
racing a kill, pipes held by escaped processes, a marker that appears between
two looks at it, a lock that outlives its owner, a unit name that is reused.

## Modules

| Module | Models | State ↔ code |
|---|---|---|
| `EvidencePublication` | `hardgate evidence <producer>`: `execution::produce` with everything it calls | `report`, `receipt`, `pending` are the files beside each other; `slot`, `marked`, `records` the registry of `authentication.rs`; `job` the workspace path and its lifecycle status; `src` the checkout; `before`, `copy`, `ranOn` the snapshot a run recorded, its copy and what its main stage executed on; `pc` the next statement that touches any of it; `lease` the workload slot; `stuck` history: what `Certification::drop` of a run failed to remove |
| `EvidenceContract` | what publication promises: which run, if any, a reader may trust | two variables: the latest attempt and the usable run |
| `EvidencePublicationProofs` | theorems about the two | – |
| `EvidenceGate` | `EvidenceReceipt::verify` and its callers, running beside `EvidencePublication` | `gate` the next read; `seen` the receipt in memory; `scored` the bytes that were parsed; `witnessed`, `walked` (checkouts on disk during the walk) and `undone` (runs since whose start an input went back to old content) history |
| `EvidenceGateProofs` | theorems about the gate; EXTENDS those about its producers | – |
| `ProcessSupervision` | `run_command*` and `run_control_command`: `process.rs`, `capture.rs`, `cleanup.rs` | `leader`, `group`, `outside`, `killed` the processes; `writers`, `reader`, `got`, `halt` the two pipes and their threads; `pc`, `wait`, `round`, `outcome` the supervising thread |
| `ProcessSupervisionProofs` | theorems about it | – |
| `WorkloadSupervisor` | the outer command around its systemd scope | `slot`, `holders` the flock and who has the description open; `scope`, `leader`, `tools`, `marker` the workload; `pc`, `result`, `status` the supervisor |
| `WorkloadSupervisorProofs` | theorems about it | – |
| `ManagedMutation` | `process/mutation.rs` with `resources/managed/*` and the mutation lease | `lease` the flock; `unit`, `active` what the manager keeps under the fixed name; `child`, `rest`, `hit`, `report` the launcher, which becomes the shim and runs the target, what the target leaves in the scope, its counters and the evidence; `marker` the start marker; `invocation`, `located`, `pinned`, `owned` the fields of `ManagedCommand`; `pc`, `wait`, `attempt`, `outcome` the owner; `killers` history |
| `ManagedMutationProofs` | theorems about it | – |
| `GateReport` | the report of a check and its verdict: `report.rs`, `execution_plan.rs`, `outcome.rs`, `machine.rs` | a report is a record: `obs` the state each engine was observed in, `findings`, and the failures by class; operators for each method that writes it |
| `StaticPolicy` | the static phase (`run_shared_gate`): which files are selected and captured, which engines look at a file of a role, and how severe what they find is | operators over a configuration and a file; a file carries the findings its engines would make |
| `LegacyRatchet` | `adoption.rs`, `git_evidence.rs` | operators over a repository: merge base, HEAD, work tree, untracked paths |
| `LegacyRatchetProofs` | theorems about the ratchet, and induction and folds for the next | – |
| `CheckCommand` | `hardgate check`, from the parsed options to the exit status; EXTENDS the three modules above | `case` the invocation; `plan` the `ExecutionPlan`; `report` the `CheckReport`; `runs`, `steps`, `count` the progress of the producers, of the command session and of the evidence gates; `reference` the loaded Git evidence; `files` the published documents; `result`, `signal`, `exit` the way out; `gaps`, `failed` history, written from the inputs of a step and never read by it |
| `CheckCommandProofs` | theorems about the command; EXTENDS those about the ratchet | – |
| `ResourceBudget` | sampling, budgets, worker plans, allowances and the recognition of a scope as a boundary: `resources/` | operators over samples, levels of a cgroup and limits |
| `MutationScore` | `engines/mutation/`: the Stryker, cargo-mutants and generic formats, statistics, violations | operators over a report |
| `EvidencePartitions` | `evidence/{partitions,aggregation,mutation_scope}.rs` and Stryker's native scope | operators over a project and reports, the project of the gate being another one than that of the run |
| `CoverageScore` | `engines/coverage/`: LCOV records, test code removal, path resolution, floors, critical files, strict diff | a fold over tokens; a map of records |
| `CloneIndex` | `engines/clones/`: rolling hash, index, verification, coalescing | a fold over windows of token streams |
| `Saturation` | the arithmetic of `usize` and `u64` that the algorithms share (`saturating_sub`, `min`, `max`) | operators |
| `Evaluation` | what the six algorithm modules promise of an input: their properties | `case` the input |
| `EvaluationProofs` | theorems about all of them | – |
| `MCEvaluation` | the inputs of the six algorithm modules, one action per algorithm; EXTENDS `Evaluation` | chooses `case` |
| `MCCheckCommand` | eighteen invocations | – |
| `MCEvidencePublication`, `MCEvidenceGate` | TLC instances: symmetry, and for the second the views explained under *Runs* | – |

One action is one step between two effects that another process can observe:
a file written, renamed or removed, a directory entry read, a signal sent, a
child polled.  Every `?` and `ensure!` of `produce` is the action `Abort`,
which may be taken at each fallible step and is followed by the drop guards in
the order Rust runs them.  The `map` of `PROJECT.json` names the lines of each
definition.  Definitions whose comment starts with *Mutant* are not part of
the model: they are plausible mistakes, used to show that the properties
notice them.

Data is abstract where no property looks at it: a report is the name of the
run whose bytes it holds, the content of an input file is a number (equal numbers
are equal hashes, so an undone edit or a `git checkout` compares as equal), an
exit status is its class.  Two runs never produce equal bytes and a job name is never used
twice (the code draws both from a nonce).

`CheckCommand` composes what the command calls: one action per phase of
`check`, and one per producer run, project command and evidence report, because
a signal may fall between two of them and any of them may fail.  A failing
coverage or mutation report enters it as "missing" or "bad"; what makes a report
bad is the subject of `MutationScore` and `CoverageScore`.  The static phase is
one action, since it writes nothing but the report in memory.  What the code
does in a loop over files, roles, findings or commands is a fold over a sequence,
and missing evidence that several steps report at once is recorded as a set
(`RecordEvidenceFailures`), since a report keeps its failures by engine and step.
One thing follows from that: whether every mutation report was valid
(`individually_valid`) is read off the report, where a failed producer looks the
same as a failed report; where that cannot be told, `MutationSet` allows both.

Further data abstraction in the algorithm modules: statuses, paths and symbols
are names; Git is external, so which lines two contents share is *some* longest
common subsequence and which new path continues an old one is any exact rename;
a score is compared as an exact fraction, where `gatekeeper.rs` and
`scoring.rs` divide doubles (29 of 100 against a floor of 29 is below it there);
the hash has a width of four values, so that collisions are the rule; counts have
a small `MaxCount`, so that overflow happens.

Assumptions that are not visible in an action:

* The version query of a producer (`execution.rs:83`) leaves the copy as it
  found it (`QueryVersion`).
* `Crash` is the death of the process: what it unlinked and renamed stays so.
  The code does not sync directories, so after a power loss an unlink or a rename
  may be undone on disk; that is not modelled.
* Job directories disappear on their own only for runs named in `Reapable`,
  and receipts are put back by hand only for those in `Restorable`.
* `evaluated` in `WorkloadSupervisor` means that the inner hardgate ended by
  itself with exit status 0 or 1, which includes a closed standard output.
* In `ProcessSupervision` TERM has no effect of its own, because a process may
  end at any moment anyway; no query of the kernel about a process and no
  signal fails during a termination, so the KILL that `force_reap_direct_child`
  sends to the leader alone, a fallback for that, is left out.
* In `ManagedMutation` a process cannot leave its cgroup; a stop that the
  manager reports as done has made the scope inactive or failed, perhaps with
  processes that do not die, and a populated cgroup is neither removed nor
  collected.  Nothing is assumed of when a killed process is gone.  The shim's
  look at the processes and counters and its report are one step.  Running
  into the limit `LOCK_WAIT_TIMEOUT`, low memory and a unit that exists
  already are all `Refuse`.

## Runs

`Evidence` and `GateUnleased` are explored under a VIEW (`MCEvidenceGate`): states
that agree in it count as one.  The view leaves out only what no later step and
no property reads: the walk, copy, stages, signal and job status of a run that
has ended or is dropping its guards (of the job it keeps the presence), the copy
once it is complete (it keeps whether it equals the snapshot), what is recorded of
a run whose slot is gone and whose receipt no gate holds, a failed removal once
the file is gone, and what a gate had read before it rejected.  So states that
agree in it have the same futures in the view.  The histories that a property of
the run reads are part of its view.

`CHECK_DEADLOCK FALSE` appears where the modelled system legitimately stops: all
runs ended, the command returned, the one evaluation was made.  `Check` does
look for deadlocks: its only final states are those in which an exit status is
set, and there `Done` stutters.

| Run | Question | Bounds, and why they are enough |
|---|---|---|
| `Evidence` | binding, withdrawal, durability and the refinement of `EvidenceContract`; and, for a gate that takes its turn in the slot and verifies again after scoring, that the scored bytes are the attested ones and their run executed on what was on disk during the walk | two runs (the second revokes and replaces the first), two inputs (a walk can be torn), `MaxVersion` 1 (each input is edited and put back at any time), `MaxPreliminary` 1 (a stage before the main one), every job reapable, the receipt of one run restorable (154 850 states) |
| `SharedBoundary` | *violated*: the same binding when both producers are inside one inherited boundary | one input, no edits; the counterexample needs only the shared `.pending` name |
| `GateUnleased` | types; a native gate beside two producers: there was one moment at which all it read was true together | one input; the receipts of both runs may be put back (197 736 states) |
| `GateCoverageRace` | *violated*: the same for a native coverage gate | one input |
| `Process` | a clean outcome leaves nobody, survivors have a pending KILL, the call returns and readers stop | the leader and two descendants (a child of a child that outlives the leader), both may leave the group; one nonblocking and one blocking pipe; gated and control commands |
| `Workload` | exclusion, verdict, cleanup, cancellation, progress, release of the slot | two commands; `Disturbed` = the one that may be signalled or killed, `Unreliable` = the one whose manager requests may fail |
| `WorkloadSignal` | *violated*: a signal decides the exit status | one command |
| `Managed` | start gate, verified completion, nothing left behind, no harm to a live run, the lease is freed, orphans end | two commands, so that the launcher, shim or scope of a killed owner meets the next owner; `Crashing` = the one whose owner may be killed, `Unreliable` = the one whose manager requests may fail; each in either order |
| `ManagedReuse` | *violated*: cleanup kills only the owner's own scope | the same two commands |
| `Check` | do exit status, published documents and what was really evaluated agree, and does evidence never improve while the report is written | eighteen invocations: all of the checks and single ones, diff with and without a selected file, ratchet (better, worse, unparsable baseline), producers cold and reused, lenient roles, unreadable, unparsable and unclassified files, sources without executable code, an incomplete clone index, generated files, both outputs on one path; in each, every step fails in every way it can and a signal arrives at any time (149 087 states) |
| `Evaluate` | does each algorithm give what its reference definition reads off the input | every input within the bounds below (1 016 621 inputs) |
| `PureRename` | *violated*: where files were only renamed, the debt on their lines stays excused | the inputs of `Evaluate` |

The bounds of `Evaluate`, per action:

* `ChooseBudget`: a leaf with limits, usage, cache or an unreadable directory
  under a parent and a root, under one or two mounts, six amounts around the
  thresholds; a host with a unified cgroup, without one, and one that is not
  measured.  `ChooseLaunch`: hosts whose memory is no multiple of anything,
  1, 2 and 64 jobs, three page sizes.  `MiB` is 160 and `Alignment` 10 in the
  proportion of the code (16 to 1), because TLC computes with 32 bits; the
  theorems hold for the real values.
* `ChooseRepository`: up to three lines before and two after, of which one
  kind makes the rest of the file test code, and a second file that appears,
  disappears, is renamed to or is untracked.
* `ChooseStryker`, `ChooseCargo`, `ChooseGeneric`: up to two mutants in each of
  two files, two outcomes with every combination of phases, counts up to the
  overflow; declared totals that may be wrong.
* `ChooseReports`: two producers and two sources; the project may change in its
  producers, its sources or their hashes between run and gate.
* `ChooseRecord`, `ChooseTokens`: two lines, two functions and two branches with
  counters that need not agree; token sequences up to five.  `ChooseScore`:
  four spellings of two files, floors of lines, of functions and of branches.
* `ChooseStreams`: one stream of up to eight tokens or two of up to four, windows
  of two tokens, a window cap of six and a match cap of four, both of which are
  reached.

What the five violated runs show is recorded under `findings`:

1. Inside an inherited boundary no slot is taken, so two producers may run at
   once; both write `<report>.pending` and the digest of the receipt is taken
   from that name again after validation.  The receipt of one run can
   authenticate the report of the other.
2. A native `check` holds no slot.  Its coverage gate verifies a report and
   opens it again to parse it; a producer may have replaced it.  A mutation
   gate verifies again after scoring, and with `require_isolation` the gate
   holds the slot; `Evidence` shows that the two together are enough.
3. `run_parsed` returns the status of a finished scope at once; a signal that
   arrives during the cleanup of a finished workload is not reflected in the
   status, which `finish` would do.
4. The path of the cgroup is opened, and `systemctl stop` is called by name,
   after the status that named them was checked.  When the own scope ends in
   between, a launcher left by a killed owner may have taken the name; cleanup
   then kills that scope through a descriptor that was pinned to the wrong
   directory.  `LiveRunUndisturbed` shows that nobody with a living owner is
   ever hit, since the lease is held until the cleanup has ended.
5. A pure `git mv` makes the static debt on the lines of a file attributable: the
   changed lines come from `git diff --no-renames` (`src/src/git_evidence.rs:52`),
   where every line of the new path is new, so lineage serves only findings that
   lie on no changed line.  `src/docs/CONFIGURATION_SPEC.md:340` and two tests of
   the ratchet, whose change sets have no hunks, say that it is grandfathered.
   `RatchetAdmitsNoNewDebt` is stated up to lineage, so it would hold of a code
   that excuses such debt as well as of this one.

Met while modelling, outside what a run checks:

* A gate may accept after two torn walks that agree although the inputs were
  never on disk together: hashes are compared file by file, and an edit that is
  undone in between makes both walks meet.  What holds even then is that each
  input was there at some moment of the walk; the whole was, unless an input
  went back (`AcceptedCheckoutIsCurrent`).
* A run that is cancelled at its last look at signals, and whose slot and record
  both cannot be unlinked, ends in an error and leaves evidence that a gate
  accepts when its receipt is put back or could not be unlinked either
  (`FailedRunIsWithdrawn` names the two removals).
* A porcelain record `RD` is skipped without its second path
  (`src/src/discovery/mod.rs:303`), which is then read as a record of its own.
* A closed standard output ends the command with status 0, and so does an error
  that is due as JSON (`src/src/cli_runtime.rs:131`; `ExitStatusIsEarned` names the
  exceptions), and the report JSON is already written when a later
  output, or the check of the write guard, fails.
* Clippy that ends with status 1 after a truncated stream counts as a violation,
  not as missing evidence, and a producer's failure is recorded even when the
  options do not select the policy checks.

## Fairness

Safety properties assume none.  `ProcessSupervision!FairSpec` makes the
supervising thread, the reader threads and the clock fair and nothing else:
the thread sleeps at most a poll interval between two steps, every wait in it
has a deadline, and a reader of a nonblocking pipe loops.  The command may
hang, fork and hold its pipes for ever.  The reader of a pipe that could not
be made nonblocking is exempt from `ReadersStop`.
`WorkloadSupervisor!FairSpec` makes the supervisor and its clock fair and
assumes of systemd that `systemd-run` either starts the scope or fails and that
`RuntimeMaxSec` is enforced; nothing is assumed of the leader and its tools.
`ManagedMutation!FairSpec` makes owners fair, lets the deadline of a loop that
goes on for ever pass (strong fairness of `TimedOut`: the loop asks the clock
in every round), and assumes of systemd the same two things.

## Proofs

Every protocol module has a module of theorems beside it, and the algorithms have
one together.  They hold for every set of runs, commands or descendants, every
input and every bound; the assumptions on
constants that they use are the named `ASSUME`s of the model, and whatever a
single theorem needs beyond them is among its hypotheses.  In each protocol the
invariant of interest is not inductive by itself; `IInv` adds what the earlier
steps have established, as a conjunction of parts.  The proof that a step
preserves a part has one step per action, and the last step of each theorem
combines `Init => IInv`, `IInv /\ [Next]_vars => IInv'` and `IInv => Inv`.  TLC
has looked for violations of each `IInv` on a small instance.

### Evidence publication

`EvidencePublicationProofs` proves, for every set of runs and of inputs and
every bound:

* `Invariant`: `Spec => []IInv`;
* `TypeCorrect` and `FailedRunWithdrawn`, with no assumption on the boundary;
* `UsableEvidenceBound`, `CompletionDurable` and `ContractImplemented`,
  assuming `~SharedBoundary` – the run `SharedBoundary` shows that the
  assumption is needed.

`UsableEvidenceIsBound` says nothing of a run whose evidence is not usable *yet*.
`ExecutionInv`: from the comparison after the last stage on, the main stage ran
on the recorded inputs.  `RegistryInv`: a record or slot of a run exists only
between its creation and its withdrawal, or if `stuck` says that the withdrawal
of just that failed.
`LeaseInv`, only without a shared boundary: a working run holds the lease, hence
it is the only one, what it finds in `pending` and `report` is its own from the
moment it wrote it, and the slot is its own or nobody's after its revocation.
The refinement maps a state to the latest attempt that got past its admission
and to the run the slot names, if it is authenticated and its job gone; from
`IInv` every action other than admission, revocation, the removal of the
workspace and the end of a run is a stutter of the contract.

### Evidence gate

`EvidenceGateProofs` keeps the invariant of the producers and adds the reader.
Its parts hold under the circumstances they name, so that one induction serves
all theorems:

* `GateInvariant`, whatever the constants, and `GateTypeCorrect` (the types of
  the gate are checked by no run of their own), for a checkout
  with at least one input (a walk over none would not begin);
* `ScoredVerified` and `AcceptedCurrent` for a gate that holds the slot, without
  a shared boundary, under `RestoredOnce`: nothing is put back by hand, or
  receipts of at most one run are and the gate verifies again after scoring.
  The proof needs `Rechecks` exactly there: `ReportInv` says that a report put
  back between verification and scoring stays, so the second verification meets
  the bytes that were scored.  With two saved reports the first could be put
  back for the scoring and the second, the verified one, after it;
* `AcceptanceLinearizable` without a shared boundary, for a gate that holds the
  slot or if no job directory disappears by itself (`Reapable = {}`).

`RegistryHeld`: under the lease what has been read of the registry stays true.
`WalkInv` collects the checkouts of the gate's walk.  For each input compared so
far one of them has what the run recorded.  For a run since whose start nothing
went back (`undone`), `AgeInv` makes the recorded content the older one, so that
either one checkout of the walk is the recorded one as a whole, or an input that
the walk has yet to compare is newer and will be rejected; both walks are torn,
and this is why they meet.
`WitnessInv`, for a gate without the lease: if what was read has vanished since,
the whole was true before, or the run lost its slot with a job that nobody
removes, and the gate will reject.

### Process supervision

`ProcessSupervisionProofs`: `TypeCorrect`, `SurvivorsKilled` and `OutcomeClean`,
for any number of descendants, any of which forks, leaves the group or ends at
any time.  `KillInv`: from the group's KILL on whatever runs is marked as killed,
what forks meanwhile included.  `CleanInv`: a termination without an error leaves
no group, and what was received comes from a reader that has ended; `PhaseInv`
ties the wait, the round and the outcome to the step of the thread.

### Workload supervisor

`WorkloadSupervisorProofs`: `TypeCorrect`, `WorkloadsExclusive`,
`VerdictEvaluated`, `ReturnStops` and `CancellationLeavesNothing`, for any number
of commands, whichever are signalled, killed or denied an answer.  Exclusion is
inductive only with what holds of supervisors: `SlotInv` says that a supervisor
at work and a live leader both hold the slot in the name of the same command,
so that the death of either does not free it.  `LeaderInv` relates scope, marker,
tools and exit code to the leader; `VerdictInv` follows a verdict from the inner
command over the exit code to the status; `StopInv` says at which step nothing
runs any more, and that only a failed manager request can change that.

### Managed mutation

`ManagedMutationProofs`: `TypeCorrect`, `TargetPinned`, `CompletedVerified`,
`ReturnLeavesNothing` and `LiveUndisturbed`, for any number of commands, any of
which is killed or meets an unreliable manager.  `CleanupSparesLive` bounds what
the violated run `ManagedReuse` shows: a foreign scope that an owner has pinned,
and its cleanup kills, belongs to an owner that was killed.  The argument follows
the unit name: by `LeaseInv` one owner works at a time; by `UnitInv` there are
processes only in the scope that has the name; by `ForeignInv` the name is the
working owner's or that of the late launcher of a killed one.  `PinInv` is the
start gate (a target runs only after its directory is open and the marker
written), `ReportInv` the last look at scope and counters, `StopInv` what the two
stops of an owner leave.

### Check command and ratchet

`LegacyRatchetProofs` proves of the ratchet, for every two lists of findings and
every change set: `RatchetAdmitsNoDebt` (nothing is lost or counted twice; what
the change touched or has no identity is retained; an excused finding has a
baseline finding of its own, of its key, at least as bad) and `DebtNeverGrows`
(at no measure are more excused than the baseline had).  The ratchet is a fold,
and a claim about every prefix is an induction.  The theorems of induction take
an operator, which the installed provers cannot instantiate; `SetInduction` states
induction for a *set* of naturals instead and follows from the least element
of its complement.  `FoldFits` and `FoldExists` give the function on index sets
that a fold of the community modules iterates, `FoldInvariant` what its steps
preserve.  `RatchetRuns` is the ratchet as such an iteration and `LeastFit` its
choice, on which the theorems about algorithms build.

`CheckCommandProofs` proves of `CheckCommand`, for every set of invocations: any
tree, configuration, baseline, producers and clone index, any failure of any step
and any signal at any time:

* `EarnedExit`: the exit status says what was really missing and what was really
  violated, as the ghosts recorded it from the inputs;
* `CompleteAcceptance`: a document that declares acceptance comes from a check of
  the whole repository that obtained all the evidence it owes;
* `PublishedExit`: documents agree with each other and with the exit status;
* `NeverImproves`: in a report no observation gets better, no failure is
  withdrawn, and only the ratchet takes findings out.

Assumed of the invocations (`CasesAssumption`): the lists are finite sequences,
measures are naturals, findings of the clone index are those of its engine,
roles have a configuration and producers are of the two kinds; of signals, that
they are numbers; of `Nothing`, that it is no document.

The report does not say by itself what was left out of it, so the invariant
relates it to the ghosts in three stretches: while producers run the report is
new and the gap is what `MissedSteps` reports later (`EarlyInv`); at the ratchet
it holds static evidence only (`RatchetInv`); from there on the verdict of the
report is that of the ghosts (`VerdictInv`).  The static phase is a fold over
files, each with a fold over its findings, and one over the roles' clone groups;
`FilesAnalyzed` and `ClonesCompared` give its result with an invariant that
collects what was withheld and what was found so far.  The ratchet may empty the
list of findings; `RatchetSettles` uses `RatchetAdmitsNoDebt` to show that
exactly what the ghosts count remains.  After it every step is a write that makes
evidence worse in the way the ghosts record (`Wrote`), or an abort, which marks
the plan but not the report; `FilesInv` and `PlanInv` keep what documents say
apart from that.  `GapInv` covers a role that does not block: its gap is no
failure, but it leaves an engine incomplete and so prevents acceptance.

### Algorithms

`EvaluationProofs` proves the eight properties of `Evaluation`, each with a
theorem for every input.  An algorithm has no steps, so there is no invariant of
a specification to find: a theorem assumes the *shape* of `case` (lists are
sequences, tables are finite, amounts are naturals) and concludes the property.
The shapes are what the Rust types give; TLC has evaluated them on the
1 016 621 inputs of `Evaluate`, all of which have them.  The definitions loop with
the folds of the community modules, and a claim about a loop is an induction over
its prefixes.  Two forms of it serve all proofs: `FoldInvariant`, and `FoldRuns`,
which turns a fold into a run, a function from 0 to the length whose every entry
is one step from the one before, so that `RunInvariant` applies.

*Memory.*  `EveryLevelIsKept`: for any number of mounts and levels of a cgroup,
an admitted budget with its reserve, and all planned runners, fit the host and
every level that can be read, and nothing is admitted under pressure.  It
follows from `EveryBudgetFits` and `EveryWorkerFits`, which say this of one
sample, and from the sample being no more than any of the levels.
`EveryLaunchFindsItsScope`: a launched command recognises its own scope as the
boundary, from `EveryScopeIsBounded` for page sizes that divide the alignment:
the lower bound keeps four fifths of the limit, aligned down, above zero.
The assumption on constants is `UnitsAssumption` (a mebibyte is a positive
multiple of the alignment).  The lemmas about integer division (`DivideDown`,
`MultipleDivides`, `AlignDown`, `ReserveBounds`, `RoundUpExact`, `PageDivides`)
are there because the solver does not find them.

*Partitions.*  `EverySetIsExhaustive` has no hypothesis at all: whatever the
project and the reports, an accepted set answers for each executable source
exactly once, by partitions configured as when they ran.

*Mutation score.*  `EveryCleanScoreIsEarned`, for reports of any size, says of each
format what it lets one see.  Without violations every mutant of a Stryker report
has the status killed, survived or equivalent (the last is no test's answer and
is set aside); for every mutant of cargo-mutants, and the baseline, a test command
ran to its end; the generic format declares counts only, of which none is broken,
timed out or unread.  In each, enough of the killed and survived were killed.  The statistics are sums over files and
mutants; the proof compares them term by term with the cardinalities that the
property counts.

*Coverage.*  `EveryLcovCreditsOnlyProduction`: what a record counts as hit was
executed and is listed production code, and an accepted report is a sequence of
closed records of different files; the invariant of the LCOV grammar says of each
prefix which record is open and what has been closed.
`EveryCoverageScoreIsEarned`: with no violation the required files have one
record each, their sums of lines, functions and branches reach the floors, critical files are whole and the
changed lines ran.  Sums over files do not depend on the order in which the files
are visited, and violations that were found stay found.

*Ratchet.*  `EveryExcuseIsOldDebt` joins `RatchetAdmitsNoDebt` to the change set
that is read from Git.  The hunks of a diff cover every line that is not common
(`HunksCover`), so a line of an excused finding is one the merge base has
(`KeptIsCommon`, `ChangedLines`, `ChangedFiles`), and a renamed file, whose new
path the merge base does not have, cannot pass for a kept one (`LineageIsFresh`).
That all identifiable debt of an unchanged tree stays excused is the harder half,
because the ratchet is greedy: each finding takes the least bad baseline finding
of its key that is as bad.  `PromiseIsKept` is an exchange argument: each finding
that is still to come can be promised an unused baseline finding of its own;
whoever was promised the one just taken gets the one that was promised to the
finding that took it.

*Clones.*  `EveryCloneIsFound`: for every list of token streams, every hash width
and base, detection that does not give up reports a clone for every two equal
windows that are not too close, and every clone it reports is two equal runs of
at least the asked length.  Assumed are a positive number of hash values
(`HashAssumption`) and a positive window length, which `config/validation.rs:84`
enforces.  Four arguments meet in it:

1. The rolling hash of a window is the hash of the window.  Both are compared
   with the number that the symbols write in base `HashBase`, taken without a
   modulus (`Digits`, `Powers`); a step of either fold is a congruence modulo
   `HashSize` (`RollStep`).  So equal windows have equal hashes
   (`EqualWindowsHash`); nothing is assumed of unequal ones.
2. `Indexed`: the index holds each window so far under its hash, and a match for
   each two that are duplicates.  `RecordStep` shows that a window that would be
   dropped for lack of room makes the index give up instead.
3. Filtering and sorting lose nothing and add nothing (`SelectedSet`,
   `SortedSet`).
4. Of coalescing: what is kept are clones, and every match so far is covered by
   one of them, that is, the same two files and a common token
   (`CoalesceOneStep`).  Two aligned clones that touch may be joined without
   comparing tokens again because together they cover the joined range
   (`RunsBridge`); a match that overlaps the last clone in another alignment is
   dropped, and covered by it.

### Only model-checked

* Everything that is about progress (`CommandReturns`, `ReadersStop`,
  `SupervisorReturns`, `SlotIsReleased`, `LeaseIsFreed`, `OrphansEnd`): liveness
  under fairness is out of the prover's reach.
* The violated runs, which are counterexamples and need no proof.

## Not modelled

* Read-only tool sessions, and the command lines and probes of the producers:
  their stages are those of `EvidencePublication`, their effects those of
  external tools.
* The identity of a tool's runtime, which decides whether a report is reused
  (`evidence/orchestration.rs:74`): inputs are known by their version only.
* What tree-sitter engines find in a file, the comment scanner of
  `source_lines.rs`, fingerprints, and the split of a Rust file into source and
  test views: findings, and roles of lines, are inputs.
* The legacy (unbound) scoring of coverage diffs, rendering and layout,
  deserialisation and merging of configurations, presets, directory walking,
  the text formats of procfs, mountinfo and telemetry, environment variables.
* The MCP server, initialisation, inspection commands and release scripts: one
  shot, without state of their own.
* Other platforms than Linux for the workload supervisor and the mutation scope;
  a mutation run inside an inherited boundary, which has no scope of its own;
  the truncation of captured output; a panic in a reader thread; errors of
  `try_wait` on an own child.
* `CheckCommand` runs beside no other process: the interleaving of its evidence
  gates with producers and edits is `EvidenceGate`, for one report.

`PROJECT.json` lists each component with its status and each hazard with the
properties about it, or with the reason why there is none.

## What is left

1. `ReadOnlySession`: verified copy, write guard and publication of formatter
   changes, with "the checkout changes at once or not at all" as its abstract
   specification.
2. Sets of partitions in `EvidenceGate`: several reports read one after another
   while producers replace them; abstract specification: a set is accepted only
   if all of its reports are valid at one moment.
3. Reuse of reports with a runtime identity that covers less than the runtime.
4. Theorems: the sets of partitions, as soon as they are in `EvidenceGate`, and
   the session of item 1.
