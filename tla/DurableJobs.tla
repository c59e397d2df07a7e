---------------------------- MODULE DurableJobs ----------------------------
(***************************************************************************)
(* The durable job registry: one row per job, claimed by workers under a   *)
(* lease, settled by the worker or by the host that runs its process, and  *)
(* interrupted when the lease expires.                                     *)
(*                                                                         *)
(* Source: sonder_runtime/adapters/persistence/sqlite/job_registry.py.     *)
(*                                                                         *)
(* Every writer is one IMMEDIATE transaction, hence one action, but for    *)
(* transition, which reads the row and then writes it by compare-and-set:  *)
(* other processes write in between.  The rows are kept as one function    *)
(* per column.  A claim token is a fresh uuid for every claim, and a claim *)
(* is one attempt, so the token is told by the number of its attempt.      *)
(***************************************************************************)
EXTENDS JobTree, FiniteSets

CONSTANTS
  Worker,          \* worker ids; a worker that restarts may use its id again
  NoWorker,        \* worker_id IS NULL
  Caller,          \* processes that call transition, one call at a time
  Target,          \* the statuses they ask for; transition takes any
  NoCall,          \* the caller has no transition under way
  Lease,           \* lease_seconds, in ticks of the clock
  MaxClock,        \* bound on the clock
  MaxRevision,     \* bound on the revision of each row
  MaxDescendants,  \* max_descendants of cancel and request_cancellation
  Page             \* max_records of the reconciliations

ASSUME RegistryAssumption ==
  /\ NoWorker \notin Worker
  /\ Lease \in Nat \ {0} /\ Page \in Nat \ {0}
  /\ MaxClock \in Nat /\ MaxDescendants \in Nat
  /\ MaxRevision \in [Job -> Nat]

VARIABLES
  status, revision, attempt,   \* columns of durable_job
  worker, until, token,        \* the lease: NoWorker, 0 and 0 for NULL
  process,                     \* whether process_id is set
  receipts,                    \* the rows of durable_job_receipt
  claims,                      \* the JobClaims returned to workers
  committed,                   \* history: the attempts whose worker committed
  calledOff,                   \* history: the jobs that cancel was called for
  call,                        \* what a caller of transition has read
  clock

leaseVars == <<worker, until, token>>
logVars == <<receipts, claims, committed, calledOff>>
vars == <<status, revision, attempt, leaseVars, process, logVars, call,
          clock>>

Status == Terminal \cup
  {"pending", "claimed", "running", "cancellation_requested", "paused",
   "interrupted"}

Call == [job: Job, to: Status, revision: Nat, status: Status]

ASSUME CallAssumption == NoCall \notin Call /\ Target \subseteq Status

Claim == [job: Job, worker: Worker, token: Nat \ {0}]

TypeOK ==
  /\ status \in [Job -> Status \cup {"absent"}]
  /\ revision \in [Job -> Nat]
  /\ attempt \in [Job -> Nat]
  /\ worker \in [Job -> Worker \cup {NoWorker}]
  /\ until \in [Job -> Nat]
  /\ token \in [Job -> Nat]
  /\ process \in [Job -> BOOLEAN]
  /\ receipts \subseteq Receipt
  /\ claims \subseteq Claim
  /\ committed \in [Job -> SUBSET Nat]
  /\ calledOff \subseteq Job
  /\ call \in [Caller -> Call \cup {NoCall}]
  /\ clock \in Nat

Init ==
  /\ status = [j \in Job |-> "absent"]
  /\ revision = [j \in Job |-> 0]
  /\ attempt = [j \in Job |-> 0]
  /\ worker = [j \in Job |-> NoWorker]
  /\ until = [j \in Job |-> 0]
  /\ token = [j \in Job |-> 0]
  /\ process = [j \in Job |-> FALSE]
  /\ receipts = {} /\ claims = {}
  /\ committed = [j \in Job |-> {}]
  /\ calledOff = {}
  /\ call = [c \in Caller |-> NoCall]
  /\ clock = 0

------------------------------------------------------------------------------
Exists(j) == status[j] # "absent"
Open(j) == Exists(j) /\ status[j] \notin Terminal
LeaseActive(j) == until[j] > clock

(* Every write of a row gives it the next revision. *)
Bump(J) ==
  /\ \A j \in J : revision[j] < MaxRevision[j]
  /\ revision' = [j \in Job |->
       IF j \in J THEN revision[j] + 1 ELSE revision[j]]

SetStatus(J, s) == status' = [j \in Job |-> IF j \in J THEN s ELSE status[j]]

ClearLease(J) ==
  /\ worker' = [j \in Job |-> IF j \in J THEN NoWorker ELSE worker[j]]
  /\ until' = [j \in Job |-> IF j \in J THEN 0 ELSE until[j]]
  /\ token' = [j \in Job |-> IF j \in J THEN 0 ELSE token[j]]

(* start: the parent's row must exist, whatever its status. *)
Start(j, spawned) ==
  /\ status[j] = "absent"
  /\ ParentOf[j] # NoJob => Exists(ParentOf[j])
  /\ SetStatus({j}, "pending")
  /\ process' = [process EXCEPT ![j] = spawned]
  /\ UNCHANGED <<revision, attempt, leaseVars, logVars, call, clock>>

AttachProcess(j) ==
  /\ Open(j) /\ ~process[j]
  /\ process' = [process EXCEPT ![j] = TRUE]
  /\ Bump({j})
  /\ UNCHANGED <<status, attempt, leaseVars, logVars, call, clock>>

(* claim: any open job with attempts left and no active lease, whatever    *)
(* its status; an expired lease is taken over.                             *)
ClaimJob(j, w) ==
  /\ Open(j)
  /\ attempt[j] < MaxAttempts[j]
  /\ ~(worker[j] # NoWorker /\ LeaseActive(j))
  /\ SetStatus({j}, "claimed")
  /\ Bump({j})
  /\ attempt' = [attempt EXCEPT ![j] = @ + 1]
  /\ worker' = [worker EXCEPT ![j] = w]
  /\ until' = [until EXCEPT ![j] = clock + Lease]
  /\ token' = [token EXCEPT ![j] = attempt[j] + 1]
  /\ claims' = claims \cup {[job |-> j, worker |-> w, token |-> attempt[j] + 1]}
  /\ UNCHANGED <<process, receipts, committed, calledOff, call, clock>>

(* The tokens a worker can present: those of its claims, or none (0). *)
TokensOf(j, w) ==
  {0} \cup {c.token : c \in {d \in claims : d.job = j /\ d.worker = w}}

(* Mutant: the lease is told by the worker's id alone. *)
HoldsById(j, w, t) ==
  /\ worker[j] = w
  /\ LeaseActive(j)

(* What heartbeat, finish and finish_once ask of the caller. *)
Holds(j, w, t) ==
  /\ worker[j] = w
  /\ LeaseActive(j)
  /\ t # 0 => token[j] = t

(* heartbeat writes "running" over every open status. *)
Heartbeat(j, w, t) ==
  /\ Open(j)
  /\ Holds(j, w, t)
  /\ SetStatus({j}, "running")
  /\ Bump({j})
  /\ until' = [until EXCEPT ![j] = clock + Lease]
  /\ UNCHANGED <<attempt, worker, token, process, logVars, call, clock>>

Commit(j, s) ==
  /\ SetStatus({j}, s)
  /\ Bump({j})
  /\ ClearLease({j})
  /\ committed' = [committed EXCEPT ![j] = @ \cup {attempt[j]}]
  /\ UNCHANGED <<attempt, process, claims, calledOff, call, clock>>

Finish(j, w, t, s) ==
  /\ Open(j)
  /\ Holds(j, w, t)
  /\ Commit(j, s)
  /\ UNCHANGED receipts

(* finish_once: a key that is known, or an attempt that has its receipt,   *)
(* is a replay or a conflict, and neither writes.                          *)
FinishOnce(j, w, t, s, k) ==
  /\ \A r \in receipts : r.key # k
  /\ \A r \in receipts : ~(r.job = j /\ r.attempt = attempt[j])
  /\ Open(j)
  /\ Holds(j, w, t)
  /\ Commit(j, s)
  /\ receipts' = receipts \cup
       {[job |-> j, attempt |-> attempt[j], key |-> k, status |-> s]}

(* retry: an interrupted job may still have its lease; it loses it. *)
Retry(j) ==
  /\ status[j] \in {"failed", "interrupted"}
  /\ attempt[j] < MaxAttempts[j]
  /\ SetStatus({j}, "pending")
  /\ Bump({j})
  /\ ClearLease({j})
  /\ UNCHANGED <<attempt, process, logVars, call, clock>>

------------------------------------------------------------------------------
(***************************************************************************)
(* Cancellation walks the rows below the job and writes in the same        *)
(* transaction; too many descendants roll it back.                         *)
(***************************************************************************)
Subtree(j) == {i \in Tree[j] : Exists(i)}

(* Mutant: the job is cancelled without the jobs below it. *)
CancelJobAlone(j) ==
  LET J == {i \in {j} : Open(i)}
  IN  /\ Exists(j)
      /\ Cardinality(Subtree(j)) - 1 <= MaxDescendants
      /\ SetStatus(J, "cancelled")
      /\ Bump(J)
      /\ ClearLease(J)
      /\ calledOff' = calledOff \cup {j}
      /\ UNCHANGED <<attempt, process, receipts, claims, committed, call, clock>>

CancelJob(j) ==
  LET J == {i \in Subtree(j) : Open(i)}
  IN  /\ Exists(j)
      /\ Cardinality(Subtree(j)) - 1 <= MaxDescendants
      /\ SetStatus(J, "cancelled")
      /\ Bump(J)
      /\ ClearLease(J)
      /\ calledOff' = calledOff \cup {j}
      /\ UNCHANGED <<attempt, process, receipts, claims, committed, call, clock>>

(* Mutant: the request does not count as a revision of the rows. *)
RequestCancellationQuietly(j) ==
  LET J == {i \in Subtree(j) :
              Open(i) /\ status[i] # "cancellation_requested"}
  IN  /\ Exists(j)
      /\ Cardinality(Subtree(j)) - 1 <= MaxDescendants
      /\ SetStatus(J, "cancellation_requested")
      /\ UNCHANGED <<revision, attempt, leaseVars, process, logVars, call,
                     clock>>

(* request_cancellation leaves the lease with the worker. *)
RequestCancellation(j) ==
  LET J == {i \in Subtree(j) :
              Open(i) /\ status[i] # "cancellation_requested"}
  IN  /\ Exists(j)
      /\ Cardinality(Subtree(j)) - 1 <= MaxDescendants
      /\ SetStatus(J, "cancellation_requested")
      /\ Bump(J)
      /\ UNCHANGED <<attempt, leaseVars, process, logVars, call, clock>>

------------------------------------------------------------------------------
(***************************************************************************)
(* transition: the row as read, then the compare-and-set.  An expected     *)
(* revision or status that the row no longer has makes it a read; it is    *)
(* then the caller's earlier read that the compare-and-set is against.  It *)
(* takes any status, a terminal one included, and writes that row alone.   *)
(***************************************************************************)
ReadFor(c, j, s) ==
  call' = [call EXCEPT ![c] =
    [job |-> j, to |-> s, revision |-> revision[j], status |-> status[j]]]

TransitionRead(c, j, s) ==
  /\ call[c] = NoCall
  /\ Open(j)
  /\ ReadFor(c, j, s)
  /\ UNCHANGED <<status, revision, attempt, leaseVars, process, logVars,
                 clock>>

Unchanged(d) == revision[d.job] = d.revision /\ status[d.job] = d.status

TransitionWrite(c) ==
  /\ call[c] # NoCall
  /\ \/ /\ Unchanged(call[c])
        /\ SetStatus({call[c].job}, call[c].to)
        /\ Bump({call[c].job})
     \/ /\ ~Unchanged(call[c])
        /\ UNCHANGED <<status, revision>>
  /\ call' = [call EXCEPT ![c] = NoCall]
  /\ UNCHANGED <<attempt, leaseVars, process, logVars, clock>>

------------------------------------------------------------------------------
(***************************************************************************)
(* reconcile_stale: one page of the claimed or running jobs whose lease    *)
(* has expired, the longest expired first.                                 *)
(***************************************************************************)
Stale == {j \in Job : status[j] \in {"claimed", "running"}
                      /\ until[j] # 0 /\ until[j] <= clock}

ReconcileStale(J) ==
  /\ J # {} /\ J \subseteq Stale
  /\ Cardinality(J) <= Page
  /\ Cardinality(J) = Page \/ J = Stale
  /\ \A i \in J, k \in Stale \ J : until[i] <= until[k]
  /\ SetStatus(J, "interrupted")
  /\ Bump(J)
  /\ ClearLease(J)
  /\ UNCHANGED <<attempt, process, logVars, call, clock>>

Tick ==
  /\ clock < MaxClock
  /\ clock' = clock + 1
  /\ UNCHANGED <<status, revision, attempt, leaseVars, process, logVars, call>>

WorkerStep(j, w) ==
  \/ ClaimJob(j, w)
  \/ \E t \in TokensOf(j, w) :
       \/ Heartbeat(j, w, t)
       \/ \E s \in Terminal :
            \/ Finish(j, w, t, s)
            \/ \E k \in Key : FinishOnce(j, w, t, s, k)

JobStep(j) ==
  \/ \E spawned \in BOOLEAN : Start(j, spawned)
  \/ AttachProcess(j)
  \/ \E w \in Worker : WorkerStep(j, w)
  \/ Retry(j)
  \/ CancelJob(j)
  \/ RequestCancellation(j)

Next ==
  \/ \E j \in Job : JobStep(j)
  \/ \E c \in Caller :
       \/ TransitionWrite(c)
       \/ \E j \in Job, s \in Target : TransitionRead(c, j, s)
  \/ \E J \in SUBSET Job : ReconcileStale(J)
  \/ Tick

Spec == Init /\ [][Next]_vars

------------------------------------------------------------------------------
(***************************************************************************)
(* The registry keeps its contract: with an open job for every status that *)
(* is not terminal, and a job held while its row names a worker, each step *)
(* of the registry is a step of JobContract or changes nothing there.  So  *)
(* no interleaving of claims, late finishes, retries, cancellations and    *)
(* compare-and-sets settles a job twice, commits one attempt twice,        *)
(* reopens a success or exceeds the attempts, and no call of cancel leaves *)
(* a job below the cancelled one open.  (A transition to cancelled does:   *)
(* it is for that job only, and calls nothing off.)                        *)
(***************************************************************************)
OutcomeOf == [j \in Job |-> IF Open(j) THEN "open" ELSE status[j]]

HeldOf == [j \in Job |-> Open(j) /\ worker[j] # NoWorker]

C == INSTANCE JobContract WITH
       outcome <- OutcomeOf, tries <- attempt, held <- HeldOf

KeepsContract == C!ContractSpec

(***************************************************************************)
(* A transition that finds the revision it read finds the row it read: the *)
(* status has not changed and come back in between, so the write of        *)
(* transition is never over a cancellation request, a claim or a commit    *)
(* that its caller has not seen.                                           *)
(***************************************************************************)
SnapshotExact ==
  \A c \in Caller : call[c] # NoCall =>
    LET d == call[c]
    IN  /\ d.revision <= revision[d.job]
        /\ d.revision = revision[d.job] =>
             status[d.job] = d.status /\ Open(d.job)

(***************************************************************************)
(* A stale token neither extends nor commits a newer lease, also when the  *)
(* worker id is used again: a call that presents a token is accepted only  *)
(* for the claim that took the latest attempt.                             *)
(***************************************************************************)
StaleTokenRefused ==
  [][\A j \in Job, w \in Worker : \A t \in TokensOf(j, w) \ {0, attempt[j]} :
       /\ ~Heartbeat(j, w, t)
       /\ \A s \in Terminal :
            /\ ~Finish(j, w, t, s)
            /\ \A k \in Key : ~FinishOnce(j, w, t, s, k)]_vars
==============================================================================
