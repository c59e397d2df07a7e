# Sonder runtime: TLA+ models and proofs

This directory holds TLA+ models of the parts of the Sonder runtime on which the
durability of side effects and of work depends, the TLC configurations that check them on
small instances, and TLAPS proofs of the most important properties for every
value of the constants. `PROJECT.json` lists the components, the runs, the
mutants, the source lines behind every definition, the hazards, the findings and
the theorems.

## The system

Sonder runs agents that call tools. Several runtime processes of one node share
SQLite databases; each process has threads that run effects, and each may die at
any point. The parts with state that outlives a call are:

| Part | State | Operations | Status |
|---|---|---|---|
| Effect journal store (`sqlite/effect_journal.py`) | intents and outcomes, owner epochs and fences, checkpoints, in-memory latches, verifier slots | begin, outcome, outcome_and_checkpoint, uncertain, latch_uncertainty, claim_owner, recover, reconcile, append_checkpoint, restore_checkpoint | modelled |
| Journaled effects and recovery (`application/execution/`) | the call in progress, the recovery in progress | begin_request, journaled_effect, mark_uncertain, recover_before_restart, reconcile_before_restart, reconcile_unresolved_effects | modelled |
| Host and run leases (`worker_effect_hosts.py`) | lock files of live processes and of node-shared runs | host_lease, acquire_run_lease, transient_run_lease | modelled |
| Worker composition (`bootstrap/app.py`) | owner epoch of the process | worker_binding, reconcile_worker_effects | partly |
| Tool gateway (`gateway_contract.py`) | | the journaled path of _execute_admitted | partly |
| Worker capacity (`sqlite/worker_capacity.py`), deployment admission | reservations and budgets of one machine, live receipts | reserve, dispatch, release, reconcile, admit | modelled, partly |
| Durable job registry (`sqlite/job_registry.py`) | jobs, leases, claim tokens, attempts, receipts | start, claim, heartbeat, finish, finish_once, retry, cancel, request_cancellation, transition, reconcile_stale | partly |
| Fleet ledger (`fleet_store.py`) | agents, owners, retry claims, messages | register, heartbeat, close, reconcile, create, start, finish, cancel, retry claims, queue and claim of messages | partly |
| Autopilot store and controller (`autopilot_store.py`, `autopilot_controller.py`, `autopilot_reality.py`) | the run, its control flags, its task ledger, its workspace notice | claim, save, pause, cancel, finish, reconcile, and every path of `execute_run` | partly |
| Journal hash chain, gateway call sequence, interactive lanes | chain rows, call numbers, conversations | | not modelled |
| Serving, training, user interfaces | | | not modelled: numerical work and I/O |

What makes them hard: an effect outside the database cannot be committed with its
row, so a crash leaves an effect whose fate is unknown; an acknowledgement can be
lost after its commit; two processes may own the same worker identity; a verifier
runs without the lock on state that changes under it; a lease ends while its holder
still works, and the holder answers late.

What has to be right: an operation is never invoked twice; nothing new is admitted
on top of an effect whose fate is unknown; a definitive outcome is final; a
checkpoint counts settled effects only; a superseded process is kept out; recovery
ends; a job has one outcome and an attempt one commit; a cancelled tree stays
cancelled and late results are discarded; a task whose outcome was lost is not run
again; and a run completes only on validated evidence.

## Modules

| Module | What it is |
|---|---|
| `EffectJournal` | The store of one run under arbitrary callers. One action per operation. It is also the abstract specification of what the callers may rely on. |
| `WorkerEffects` | The store with its real callers: processes, leases, recovery, verifiers, calls, and the world in which effects take place. Extends `EffectJournal`. |
| `MCEffectJournal`, `MCWorkerEffects` | Instances for TLC, with their symmetry sets. |
| `WorkerCapacity` | Admission of jobs to the memory and slots of one machine, with the provider that consumes a reservation. |
| `DeploymentAdmission` | Admission of a deployment, every rank or none, over that database. Extends `WorkerCapacity`. |
| `MCWorkerCapacity`, `MCDeploymentAdmission` | Their instances for TLC. |
| `WorkerCapacity_proofs`, `DeploymentAdmission_proofs` | Inductive invariants and theorems about the capacity database, and about deployments over it. |
| `WorkerEffects_proofs` | Inductive invariant and theorems about the store; the composition implements the store; inductive invariant and theorems about the composition. |
| `WorkerSafety_proofs`, `WorkerFences_proofs` | Further theorems about the composition, each with an invariant of its own. |
| `JobTree` | Identities of durable jobs, their trees, outcomes and receipts. |
| `JobContract` | What the job registry promises: the abstract specification, without leases, tokens or revisions. |
| `DurableJobs` | The job registry. Implements `JobContract` under a refinement mapping. |
| `FleetLedger` | The ledger of delegated fleets with the processes that own its rows. |
| `Autopilot` | One autopilot run: the store, the executions of the controller, and the operator. |
| `MCDurableJobs`, `MCFleetLedger`, `MCAutopilot` | Their instances for TLC. |
| `DurableJobs_proofs` | Theorems about the contract; the registry implements it. |
| `FleetLedger_proofs`, `Autopilot_proofs` | Inductive invariants and theorems about the fleet and the autopilot. |

### EffectJournal

Every SQL statement of `SQLiteEffectJournal` is scoped by `run_id`, so one run is
modelled. Every write is one `BEGIN IMMEDIATE` transaction that rolls back when it
raises; so every write is one step, and a refusal is no step.

* `journal` is the `effect_journal` table as a sequence, indexed by its sequence
  column. A row keeps its operation, key, worker, epoch, state, receipt and detail.
  Digests, scope and encoded responses are left out: nothing branches on them
  except equality of requests, which the operation and the key stand for.
* `owner` is `effect_owner`: epoch (0: no row) and `recovery_required` (`fenced`).
* `checkpoints` maps retained generations to their `effect_high_water`.
* `latches` are the processes whose `_live_latches` holds the run; a crash clears
  the process's own.
* `verifying` are the `reconcile` calls between their two transactions, with the
  snapshot each took and the verdict so far. An abandoned call keeps its slot.

`RecordUncertaintyFails` is the storage failure after the latch was added.

### WorkerEffects

`epochOf` and `clock` model `worker_owner_epoch = time_ns()`: each start gets a
later epoch. `hosts` are the processes that opened the journal and so hold a host
lease. A recovery goes through `probed` (only the pass over unresolved runs),
`claimed`, `reconciling`, `waiting` and `restoring`; a call through `looked`,
`admitted`, `returned` or `raised`, and `latching`. Everything that the code does
in separate transactions, or outside one, is a separate step: the read and the
begin of `begin_request`, the probe for peers and the claim, the snapshot of
`reconcile`, its verifier and its second transaction, `uncertain` and
`latch_uncertainty`.

`invoked` and `applied` are the world: they survive every crash. An invocation that
raises may have taken effect or not. A verifier may say `completed` only of an
effect that took place and `failed` only of one that has not so far, or give no
proof at any time (the evidence may be gone).

Limits: one recovery at a time per process and worker; a process stands for one
composition of the application; the interactive lanes, which bind the journal
without claiming it, are not modelled.

### WorkerCapacity

`reservation` and `budget` are the two tables, `leases` the reservations that were
returned to callers; a lease is `[job, token, memory, expires]`. `Reserve` is the
transaction of `reserve_capacity` when it commits and `ReserveRaises` when it rolls
back. A reconciliation takes a page of the expired rows (`Page`), so rows that expired
and were not reached exist. The launch is three steps, `StartJob`, `PollJob` and
`DispatchCapacity`: the record may settle and the lease may expire between them.
`running` holds the jobs launched under a reservation whose processes may exist;
processes of jobs from before admission are not followed, the code itself knows them
by their record only (`NoLegacyJob`). `Init` allows a fresh database, live jobs from
before admission, and a row from before fingerprints were stored.

`release_capacity` leaves the proof to its caller ("callers must already possess
cleanup proof"). `ReleaseCapacity` is the process provider, which has it: it releases
after a complete containment or cleanup receipt only. That guard is an assumption of
this module about `process_jobs.py`, read from its release paths and not derived.

### DeploymentAdmission

`active` is the index of live receipts, `call` the call that holds the lock; each call
to the database is a step. `Restart` empties both. The holder of a receipt may start
the ranks once it has it, also when `admit` returns it a second time, and releases it
after they are gone. A reservation, a dispatch or a release may raise, and a release that
raises has written its row or not: a cleanup goes on with the other ranks, a release too,
and it keeps the receipt. `leaked` are the jobs whose cleanup raised and `unresolved` the
live receipts whose release raised; both are history variables.

### DurableJobs and JobContract

The columns of `durable_job` are one function each. Every writer is one `BEGIN
IMMEDIATE` transaction and one action, except `transition`: it reads outside a write
transaction and then writes by compare-and-set on revision and status, so it is
`TransitionRead` and `TransitionWrite`, with the read kept in `call`. A claim token is
a fresh uuid per claim and a claim is one attempt, so the attempt's number stands for
the token; `claims` are the tokens workers hold, and a worker may also present none,
as older callers do. `committed` and `calledOff` (the jobs on which `cancel` was called)
are history variables. A `transition` may aim at any status of `Target`: the hosts move
jobs to failed, interrupted, paused and cancelled (`fix_service.py`,
`compute_fabric/service.py`) without a lease and for one job only. Startup recovery
(`reconcile_recovery`, `reconcile_with_cleanup`) writes through `transition` only.
Storage busy or full raises before anything is written and is a stutter.

`JobContract` is the promise of `docs/architecture/durable-agent-state-machines.md` in
seven actions. `OutcomeOf` and `HeldOf` map the registry to it: every status that is
not terminal is `open`, and a job is held while its row names a worker. The host of a
job may settle it alone (`Settle`); to call a job off (`CallOff`) is to settle its whole
open subtree in one step. `calledOff` keeps the two apart, so that a `cancel` which stops
half-way is no step of the contract.

### FleetLedger

Each operation of the store is one transaction. Agents, their owners, parents and the
masters they retry are constants; which of them come to exist is up to the run. The
dispatch of a retry (`master_retry`, `start_delegated`) is its claim, the creation of
its row and its release, in any order the threads allow: the row may be late, after the
dispatcher gave up. An agent is delegated by a master that has its row (`Delegable`);
`create_agent` itself would take a missing parent for one that is not stopped. A process
may die at any time, and reconciliation closes its owner only after the probe found it
dead twice, `grace_seconds` apart. Columns nothing decides on, `prune` and
`update_agent` are left out.

### Autopilot

One run. A call of the store is an action; what the controller does between two calls
belongs to the first of them. `pc` names where an execution is; a release status means
that it is about to call `finish_run` with it. `plan` is the execution's own copy of
the ledger, which goes stale when a save is refused or the lease is lost, and is then
still used, as in the code. `Crash` ends an execution anywhere; `ReconcileStaleRuns`
may end its lease while it lives. `PortSave` is a caller of the application port other
than the controller: it claims the run, saves any status that the state machine allows
and calls `finish_run` with any. The planner, the worker, the reviewer and every
budget are free choices. Tasks have the kinds inspect (which stands for research too),
implement and validate; a task is `passed` only with the receipt its kind asks for, so
receipts are not kept apart.

## Runs

| Run | Bounds | Checks |
|---|---|---|
| `journal_workers` | 1 process, 2 workers, 2 operations, 2 keys, 2 epochs, 3 generations, 1 reconcile call | all properties of the store |
| `worker_lease` | 2 processes with 2 threads, 2 operations of which one has a verifier, 2 keys, 2 starts, run lease | AtMostOnce, CompletedTookPlace, FenceJustified, OwnerNotSuperseded, NoBlindAdmission |
| `recovery_ends` | 2 processes without a run lease, 1 operation, 3 starts, no symmetry, fairness | RecoveryEnds, RecoveryMovesOn |
| `worker_capacity` | 2 jobs, 4 budgets of one or two slots over 2 host ids and 2 fingerprints, pages of 1 row, clock to 2 | all properties of admission |
| `deployment_admission` | 2 plans of 2 ranks, memory for three, 1 restart, clock to 2 | ReceiptBacked, NothingStranded, RunningBacked |
| `durable_jobs` | a job with a child, 1 and 2 attempts, 2 workers, 1 host, 1 receipt key, lease of 1 tick, pages of 1 row, transitions to failed, interrupted and cancelled | SnapshotExact, KeepsContract, StaleTokenRefused |
| `fleet_ledger` | a master, a delegated agent, a retry from another process, 2 processes, 1 steering message | TreeCancelled, LateResultDiscarded, RetriedBacked, SteerReachesActive |
| `autopilot` | 2 executions, 3 tasks of the kinds inspect, validate, implement | LostOutcomeKept, CompletionSound, CancelDiscards, TerminalFrozen |
| `latch_left`, `lease_holder_stale`, `deployment_restart`, `retry_claim` | the smallest instance | the findings below |

Two operations are enough for an effect admitted on top of another; two epochs for
a superseded owner, three starts for a crash during a recovery; two generations
retained out of three for the deletion of the oldest; one verifier slot for slots
running out. The processes, threads, keys and (where all have a verifier)
operations are interchangeable; no liveness run uses symmetry. Deadlock is not
checked: nothing forces a process to call, and the model stops when its starts are
used up. `MaxGeneration`, `MaxCalls` and `MaxStarts` are bounds of the model and not
of the code; the theorems hold for every value of them. So are `MaxClock` and
`MaxRevision`: one tick is enough for a lease, a claim or a heartbeat to run out, and
four revisions of the child reach claim, expiry, retry and the second commit. Of the
targets of a transition, interrupted stands for paused and the other open statuses
(whatever may follow those may follow it, and a retry besides), cancelled for succeeded,
and failed leaves the lease in a row that a retry reopens; the theorems have any set of
targets. The two
deployments are interchangeable, each with its ranks. In
`recovery_ends` no recovery ever waits because of `MaxCalls`: with one verifier slot and
one worker a process has at most one reconcile call, and there are two processes. The
autopilot has no bound but the number of executions and tasks: two executions are a
lost one and its successor, and three tasks leave room for a replan after a validation;
a third execution was checked once, with two tasks, without a difference.

Fairness (`FairSpec`): a recovery runs on its caller's thread, which is scheduled,
and the join on a verifier thread has a timeout. No fairness is assumed of
verifiers, of calls, or of starts.

`NoBlindAdmission` is checked for runs with one worker, which is how the application
composes them; with two workers in one run a second worker without an owner row is
admitted over a bare intent of the first.

## Findings

* `latch_left`: after a commit whose acknowledgement failed, `uncertain` may fail in
  the storage; `latch_uncertainty` then keeps the latch that this very call raised,
  and the process admits nothing more in the run although everything is settled.
* `lease_holder_stale`: a process that started earlier than the peer whose lease it
  inherits is refused as stale for ever and keeps the lease.
* `deployment_restart`: `admit` counts a rank as attempted before it reserves it and
  releases every attempted rank when a reservation is refused. After a restart the
  same plan is refused because its rows are dispatched, and the refusal marks the first
  rank's row `cleanup-proven` while that rank may run, so its memory is given away. The
  same sequence against the repository's own classes and an SQLite file ends in the
  same rows: the first rank released, the second dispatched.
* `retry_claim`: a dispatcher whose retry is slow to start releases its claim; another
  one claims the source; the late thread of the first creates its row and fails while
  it is provisioned, and `finish_agent` clears every pending claim on the source, the
  live one included. Its comment says that no other dispatcher can hold a live claim
  then; a third dispatcher can now win the same source.

## Proofs

`WorkerEffects_proofs` proves of the store, for all constants that satisfy the named
assumptions (epochs are positive, verified operations are operations, bounds are
naturals), that `IInv` is inductive, and from it every invariant and action property of
the store. `IInv` adds to those invariants that the retained generations have a latest
one (`HasLatest`, without which the next generation is undefined) and that reconcile
calls refer to existing rows (`VerifyingRows`, without which applying a proof might
write outside the journal). The argument: every operation either appends one row or
rewrites rows in place such that settled rows stay (`RowsKept`); each invariant is
proved once for the append and once for the rewrites. A fence is lifted only in a state
without unresolved rows, so no uncertain row loses it. A lemma that only one lemma uses
is a named step at the head of that lemma's proof (`<1>RewriteStep` and so on), here and
in `WorkerSafety_proofs`.

It then proves that every step of the composition is a step of the store or leaves it
alone (`CallersImplementJournal`: `WSpec => Spec`), so that the theorems of the store
hold of the system, and that no operation is invoked twice (`InvokedAtMostOnce`). `WInv`
says that what the callers hold belongs to running processes, that calls and recoveries
refer to rows of the journal, that a recovery waits for exactly one reconcile call, and
that an admitted operation has not been invoked and no other call has it (`Fresh`):
`begin` refuses an operation with a row, and every invoked operation has one.

`WorkerSafety_proofs` builds on `WInv` and proves the other safety properties of the
composition:

* CompletedTookPlace. `TookPlace` adds that the call which holds a successful result and
  the reconcile call which holds the verdict completed are true of the world: both carry
  the evidence from the step that saw it to the step that writes it.
* OwnerNotSuperseded. `OwnInv` says that epochs are handed out once and never ahead of
  the clock, that the owner row is never behind a process that claimed it or has a
  binding, and, under a run lease, that one process holds it and is never behind the
  owner row. Without the first part an admission might move the owner's epoch.
* In `WorkerFences_proofs`, FenceJustified and NoBlindAdmission, under the hypothesis
  `OneWorker` (the run has at most one worker identity, as in the instances checked).
  `IntentInv` says that all bare intents have one epoch; that the current owner, once it
  has a binding or has recovered its orphans, sees no bare intent but its own; that a
  running process works on each of its bare intents or is latched; and that while the
  worker is fenced, the running process with a bare intent is latched. The last part is
  what makes a late outcome lift the fence: `_commit_settled_run` looks at the latch of
  its own process only.
* Also in `WorkerFences_proofs`, for any number of workers, what RecoveryEnds rests on.
  `WaitCalled` is inductive with `WInv`: a recovery that waits has a reconcile call
  which its join has not given up, about an intent it has yet to examine. Since `WInv`
  allows it one such call, every answer and every timeout removes an intent from what is
  left, and RecoveryMovesOn follows: each step of a recovery ends it, takes it to a later
  phase or leaves it fewer intents, and no step of another actor takes it back. What
  remains for TLC is that such a step is always enabled and, under the fairness, taken.

`WorkerCapacity_proofs` proves every property of the capacity database that the runs
check, for every finite set of jobs and all budgets, leases and page sizes, and
`DeploymentAdmission_proofs` every safety property of the deployments over it, for any
plans. The argument has three parts.

* The sums of `reserve_capacity`. `Memory` is a fold of the library, which adds up a set
  in an order of its own. That the order does not matter, so that a job adds its memory
  to any set it joins and takes it from any set it leaves (`MemoryAdd`, `MemoryRemove`),
  is induction on the size of the set; the provers take it as the smallest
  counterexample, which the well-foundedness of the naturals yields.
* The database, whoever calls it. `StoreInv` adds to JobsWithinBudget and
  MemoryWithinBudget that the leases ever granted are finite in number (else the next
  token is undefined), that the occupied rows name one host and the machine its budget
  records (`OneHost`, `MachineRecorded`: a row has no machine to compare with but the
  recorded one), and that an unexpired lease finds the row it was granted, with the
  same expiry (`LeaseRows`). Every step but a grant moves rows along their life cycle
  and lets the occupied set only shrink (`RowSteps`); a grant adds one job to the set
  that was just counted and records the budget it was counted against. With the callers
  of the process provider, `CapacityInv` adds RunningAccounted, which rests on the guard
  of `ReleaseCapacity`: its callers have proof. `deployment_restart` shows a caller that
  has not. DispatchedOnce follows from the same steps.
* Deployments. Of the database their service sees only which jobs hold dispatched
  capacity, and every step adds a rank to that set, removes one, or keeps it. `Book`
  says that a call admits a plan without a receipt or releases one that has it, that an
  admission has dispatched every rank it has passed, and that what a cleanup or a
  release has yet to visit are the first ranks of its plan (`Accounted`): a cleanup
  from the last attempted rank down to the first therefore leaves nothing behind but the
  ranks whose own release raised.
  ReceiptBacked needs that two plans share no job (`RankAssumption`): a job id is a
  digest of the cluster, the group, the deployment, the plan and the rank.
  RunningBacked says how far the finding `deployment_restart` reaches: a rank that runs
  without its capacity is one whose receipt a restart has lost or a release has tried to
  give back. `Ran` adds that a rank
  runs only under a live receipt or after a restart, and that a release begins when the
  ranks of its plan are gone.

`DurableJobs_proofs` proves of the contract that a receipt key commits one result and
that a receipt stays true of its job (`ContractReceipts`). It also proves that a
`transition` which finds the revision it read finds the row it read, that a token of an
earlier attempt is refused, and that the registry implements the contract
(`RegistryKeepsContract`): the initial states map to initial states and every action to
one of the contract or to a stutter, for every job tree and every bound; the receipts'
properties of the contract then hold of the registry (`RegistryReceipts`). The invariant
adds that a lease belongs to the latest attempt, and that what a `transition` has read
was asked for an existing job; without the first, a commit under a stale token could not
be told from one of the holder.

`FleetLedger_proofs` needs no strengthening beyond types: the conjunction of
TreeCancelled, LateResultDiscarded and RetriedBacked is inductive. Cancellation reaches
a subtree in one transaction, and a row created later asks its parent first.

`Autopilot_proofs` proves its four properties. The strengthening `Sync` says that while
an execution may still write, its copy of the ledger differs from the stored one at
most by the outcome of the task in its hands, and that no other execution has that task
in flight; without it a save could overwrite a lost outcome by an old copy.
CompletionSound is about runs that `finish_run` completed, which it leaves without an
owner; a run that `save_progress` moved to completed keeps its owner.

Only model-checked: the liveness property RecoveryEnds, beyond its safety half above.
Liveness under fairness is out of the prover's reach.

## Not modelled

* Most of the repository by size: user interfaces, model serving and training, tools,
  evaluation, provisioning. It parses, renders, computes numbers or calls the operating
  system; it keeps no protocol between actors that a model checker could explore.
* The hash chain of the journal: its property is one of a hash function.
* The counter of the gateway's call sequence and its halting; an admission itself is
  the `Admit` of `WorkerEffects`, with the ordinal as the operation.
* The conversations of interactive lanes. As callers of the journal they are covered by
  the theorems about `EffectJournal`, which hold of arbitrary callers.
* `prune` of the fleet ledger, the output buffer, the cleanup-proof rows and
  `bind_cancel_request` of the job registry, steering notes of the autopilot.
* The races of wait, cancel and deadline inside a process provider, from which the
  guard of `ReleaseCapacity` should follow.
* Several capacity databases behind one deployment admission.

## Known disagreements without a run

These came up while modelling. Each follows from the model or from a reading of one
operation, and the properties are stated so that they do not contradict it.

* `save_progress` accepts the status completed and looks at no evidence (`PortSave`).
  `autopilot_store.py:252` says that a direct caller must not be able to turn an empty
  ledger into a completed run. The controller never passes that status.
* Cancelling leaves a task in `infra_retry` as it is (`Closed`), although
  `docs/runbooks/autopilot-interruption.md:18` and `docs/wiki/07-agent-autopilot-fleet.md:92`
  say that the open tasks of a cancelled run are closed: `infra_retry` is runnable.
* A failed run is never claimed again (`claim_run`, `autopilot_store.py:432`), although
  `docs/wiki/07-agent-autopilot-fleet.md:77` and `state_machine.py:35` have an explicit
  retry of it. TerminalFrozen is about completed and cancelled runs, on which all agree.
* After a release that raised, some ranks of the retained receipt may be released, and
  `admit` of the same plan returns that receipt (`AdmitRepeated`); the docstring of
  `admit` promises every rank or no usable receipt. ReceiptBacked and RunningBacked
  except such receipts.

Other behaviours are known and no statement of the code is about them, so that no
property covers them: a second worker of a run without an owner row; a build-fix edit
that is proved not applied while its process is about to apply it; a run that completes
although its cancellation was requested after the last look at the flags; a run whose
cancellation flag outlives a pause and that waits for a second cancel; a steering note
during the last task of an invocation, which the final review does not read; a fleet
row created after its owner was closed, which reconciliation does not reach; a startup
recovery whose page is filled by finished jobs.
