---------------------------- MODULE WorkerCapacity ----------------------------
(***************************************************************************)
(* Admission of compute jobs to the memory and job slots of one machine:   *)
(* SQLiteWorkerCapacity in                                                 *)
(* sonder_runtime/adapters/persistence/sqlite/worker_capacity.py, with the *)
(* part of the process provider that consumes and returns a reservation.   *)
(*                                                                         *)
(* Every write is one BEGIN IMMEDIATE transaction, so every write is one   *)
(* step; a refusal rolls back and is no step.  Times are ticks of one      *)
(* clock, which all processes of the machine share.                        *)
(***************************************************************************)
EXTENDS Integers, FiniteSets, FiniteSetsExt

CONSTANTS
    Job,            \* remote job ids
    Host,           \* host_id values
    Fingerprint,          \* physical host fingerprints
    Request,        \* request digests
    Budget,         \* budgets callers present (WorkerBudget)
    Demand,         \* memory reservations asked for; NoDemand asks for all of it
    Lease,          \* lease_seconds
    Page,           \* _MAX_RECONCILIATION_ROWS
    MaxClock        \* bound of the model: the last instant

NoRow == [state |-> "absent"]
NoFingerprint == "unverified"
NoDemand == 0

ASSUME JobAssumption == IsFiniteSet(Job)
ASSUME FingerprintAssumption == NoFingerprint \notin Fingerprint
ASSUME BudgetAssumption ==
    Budget \subseteq [host: Host, memory: Nat, jobs: Nat \ {0}, fingerprint: Fingerprint]
ASSUME NumberAssumption == /\ Demand \subseteq Nat
                           /\ Lease \in Nat \ {0}
                           /\ Page \in Nat \ {0}
                           /\ MaxClock \in Nat

VARIABLES
    reservation,    \* worker_capacity_reservation rows
    budget,         \* worker_capacity_budget rows
    jobs,           \* what durable_job says of each execution job
    leases,         \* CapacityReservation values returned to callers
    started,        \* leases whose launch has registered its job
    polled,         \* ... and has read that the job may still be launched
    running,        \* jobs launched under a reservation whose processes may exist
    clock

launch == <<started, polled>>
vars == <<reservation, budget, jobs, leases, started, polled, running, clock>>

-----------------------------------------------------------------------------

Row == [host: Host, request: Request, token: Nat, memory: Nat, expires: Nat,
        state: {"reserved", "dispatched", "released"},
        fingerprint: Fingerprint \cup {NoFingerprint}, reason: {"", "expired", "cleanup-proven"}]

BudgetRow == [state: {"present"}, memory: Nat, jobs: Nat, fingerprint: Fingerprint \cup {NoFingerprint}]

Lessee == [job: Job, token: Nat, memory: Nat, expires: Nat]

TypeOK ==
    /\ reservation \in [Job -> Row \cup {NoRow}]
    /\ budget \in [Host -> BudgetRow \cup {NoRow}]
    /\ jobs \in [Job -> {"absent", "live", "settled"}]
    /\ leases \subseteq Lessee
    /\ started \subseteq leases /\ polled \subseteq leases
    /\ running \subseteq Job
    /\ clock \in Nat

\* Does a row count as occupied capacity?
Holds(r, now) ==
    \/ r.state = "dispatched"
    \/ r.state = "reserved" /\ r.expires > now

OccupiedRows(res, now) == {j \in Job : Holds(res[j], now)}

Occupied(res, h, now) == {j \in OccupiedRows(res, now) : res[j].host = h}

Memory(res, S) == MapThenSumSet(LAMBDA j : res[j].memory, S)

-----------------------------------------------------------------------------
(* Reconciliation: reserved leases age out, one page at a time.            *)

\* Mutant: dispatched rows age out too.
ExpiredDispatched(r) == r.state \in {"reserved", "dispatched"} /\ r.expires <= clock

Expired(r) == r.state = "reserved" /\ r.expires <= clock

\* A page takes the expired rows in the order of their expiry.
ExpiredPages(limit) ==
    LET expired == {j \in Job : Expired(reservation[j])}
    IN  {E \in SUBSET expired :
            /\ Cardinality(E) = IF Cardinality(expired) < limit
                                  THEN Cardinality(expired) ELSE limit
            /\ \A j \in E, k \in expired \ E :
                  reservation[j].expires <= reservation[k].expires}

Aged(E) ==
    [j \in Job |-> IF j \in E
                     THEN [reservation[j] EXCEPT !.state = "released",
                                                 !.reason = "expired"]
                     ELSE reservation[j]]

ReconcileCapacity ==
    /\ \E limit \in 1..Page : \E E \in ExpiredPages(limit) : reservation' = Aged(E)
    /\ UNCHANGED <<budget, jobs, leases, launch, running, clock>>

-----------------------------------------------------------------------------
(* reserve_capacity.                                                       *)

\* What a request asks for.
Wanted(b, m) == IF m = NoDemand THEN b.memory ELSE m

\* No live execution job is without a reservation of its own.
NoLegacyJob(res) == \A k \in Job : jobs[k] = "live" => res[k] # NoRow

SameRequest(r, b, d, m) ==
    /\ r.host = b.host /\ r.request = d
    /\ m # NoDemand => r.memory = m
    /\ r.fingerprint \in {NoFingerprint, b.fingerprint}

\* Mutants: a live lease is taken over; any row whose lease ended is taken again.
ReusableLive(r) ==
    \/ r.state = "reserved"
    \/ r.state = "released" /\ r.reason = "expired"

ReusableReleased(r) == r.state \in {"reserved", "released"} /\ r.expires <= clock

\* Only a lease that aged out may be taken again.
Reusable(r) ==
    \/ r.state = "reserved" /\ r.expires <= clock /\ r.reason \in {"", "expired"}
    \/ r.state = "released" /\ r.reason = "expired"

\* Mutant: the host id is not compared.
NoForeignDisk(res, b) ==
    \A k \in OccupiedRows(res, clock) : res[k].fingerprint \in {NoFingerprint, b.fingerprint}

\* Nothing is occupied under another host id or another machine.
NoForeigner(res, b) ==
    \A k \in OccupiedRows(res, clock) :
        res[k].host = b.host /\ res[k].fingerprint \in {NoFingerprint, b.fingerprint}

\* Mutants: the new demand is not added; the count is off by one.
FitsBefore(res, b, m) ==
    LET occupied == Occupied(res, b.host, clock)
    IN  Memory(res, occupied) <= b.memory /\ Cardinality(occupied) < b.jobs

FitsOneMore(res, b, m) ==
    LET occupied == Occupied(res, b.host, clock)
    IN  /\ Memory(res, occupied) + Wanted(b, m) <= b.memory
        /\ Cardinality(occupied) <= b.jobs

Fits(res, b, m) ==
    LET occupied == Occupied(res, b.host, clock)
    IN  /\ Memory(res, occupied) + Wanted(b, m) <= b.memory
        /\ Cardinality(occupied) < b.jobs

\* The recorded budget agrees with the caller's, or nothing is occupied.
BudgetAgrees(res, b) ==
    LET previous == budget[b.host]
        occupied == Occupied(res, b.host, clock)
    IN  previous # NoRow =>
          /\ previous.fingerprint \in {NoFingerprint, b.fingerprint}
          /\ occupied # {} => /\ previous.fingerprint # NoFingerprint
                              /\ previous.memory = b.memory
                              /\ previous.jobs = b.jobs

NewToken(j) == Cardinality({l \in leases : l.job = j}) + 1

Grant(res, b, j, d, m) ==
    /\ budget' = [budget EXCEPT ![b.host] =
                     [state |-> "present", memory |-> b.memory, jobs |-> b.jobs,
                      fingerprint |-> b.fingerprint]]
    /\ reservation' = [res EXCEPT ![j] =
                          [host |-> b.host, request |-> d, token |-> NewToken(j),
                           memory |-> Wanted(b, m), expires |-> clock + Lease,
                           state |-> "reserved", fingerprint |-> b.fingerprint, reason |-> ""]]
    /\ leases' = leases \cup {[job |-> j, token |-> NewToken(j),
                               memory |-> Wanted(b, m), expires |-> clock + Lease]}

\* The unexpired reservation of this very request is returned as it is.
Returns(res, b, j, d, m) ==
    /\ res[j] # NoRow /\ SameRequest(res[j], b, d, m)
    /\ res[j].state = "reserved" /\ res[j].expires > clock

\* A new lease may be granted.
Admits(res, b, j, d, m) ==
    /\ res[j] # NoRow => SameRequest(res[j], b, d, m) /\ Reusable(res[j])
    /\ NoForeigner(res, b)
    /\ Fits(res, b, m)
    /\ BudgetAgrees(res, b)

Affordable(b, m) == b.memory # 0 /\ Wanted(b, m) <= b.memory

\* The transaction of reserve_capacity when it commits ...
Reserve(b, j, d, m) ==
    /\ Affordable(b, m)
    /\ \E E \in ExpiredPages(Page) :
         LET res == Aged(E)
         IN  /\ NoLegacyJob(res)
             /\ \/ /\ Returns(res, b, j, d, m)
                   /\ reservation' = res
                   /\ UNCHANGED <<budget, leases>>
                \/ /\ Admits(res, b, j, d, m)
                   /\ Grant(res, b, j, d, m)

\* ... and when it raises and rolls back.
ReserveRaises(b, j, d, m) ==
    \/ ~Affordable(b, m)
    \/ \E E \in ExpiredPages(Page) :
         LET res == Aged(E)
         IN  \/ ~NoLegacyJob(res)
             \/ ~Returns(res, b, j, d, m) /\ ~Admits(res, b, j, d, m)

ReserveCapacity(b, j, d, m) ==
    /\ Reserve(b, j, d, m)
    /\ UNCHANGED <<jobs, launch, running, clock>>

-----------------------------------------------------------------------------
(* The process provider.  A job is settled once its record is terminal or   *)
(* its cancellation is requested: neither may be launched.                  *)

\* registry.start: the job row exists from here on, and only once.
StartJob(l) ==
    /\ jobs[l.job] = "absent"
    /\ jobs' = [jobs EXCEPT ![l.job] = "live"]
    /\ started' = started \cup {l}
    /\ UNCHANGED <<reservation, budget, leases, polled, running, clock>>

\* The launch reads the record; what it read may be stale at the dispatch.
PollJob(l) ==
    /\ l \in started
    /\ started' = started \ {l}
    /\ polled' = IF jobs[l.job] = "live" THEN polled \cup {l} ELSE polled
    /\ UNCHANGED <<reservation, budget, jobs, leases, running, clock>>

\* The WHERE clause of dispatch_capacity.
Dispatchable(l) ==
    LET row == reservation[l.job]
    IN  /\ row # NoRow /\ row.token = l.token
        /\ row.state = "reserved" /\ row.expires > clock

DispatchedRow(j) == [reservation EXCEPT ![j].state = "dispatched"]

\* dispatch_capacity, after which the launcher is called.
DispatchCapacity(l) ==
    /\ l \in polled
    /\ Dispatchable(l)
    /\ reservation' = DispatchedRow(l.job)
    /\ polled' = polled \ {l}
    /\ running' = running \cup {l.job}
    /\ UNCHANGED <<budget, jobs, leases, started, clock>>

\* dispatch_capacity raises: the launch fails before there is a process.
DispatchRefused(l) ==
    /\ l \in polled
    /\ ~Dispatchable(l)
    /\ polled' = polled \ {l}
    /\ jobs' = [jobs EXCEPT ![l.job] = "settled"]
    /\ UNCHANGED <<reservation, budget, leases, started, running, clock>>

\* The job's record settles, whatever its process does.
SettleJob(j) ==
    /\ jobs[j] = "live"
    /\ jobs' = [jobs EXCEPT ![j] = "settled"]
    /\ UNCHANGED <<reservation, budget, leases, launch, running, clock>>

\* The last process of the job's tree is gone.
ProcessGone(j) ==
    /\ j \in running
    /\ running' = running \ {j}
    /\ UNCHANGED <<reservation, budget, jobs, leases, launch, clock>>

\* Mutant: the row is released whatever its state.
ReleasedAnyRow(j) == [reservation EXCEPT ![j].state = "released", ![j].reason = "cleanup-proven"]

\* The update of release_capacity: only a dispatched row matches.
ReleasedRow(j) ==
    IF reservation[j].state = "dispatched"
      THEN [reservation EXCEPT ![j].state = "released", ![j].reason = "cleanup-proven"]
      ELSE reservation

\* The provider calls release_capacity with proof that the tree is gone.
ReleaseCapacity(j) ==
    /\ j \notin running /\ jobs[j] # "absent"
    /\ reservation' = ReleasedRow(j)
    /\ UNCHANGED <<budget, jobs, leases, launch, running, clock>>

Tick ==
    /\ clock < MaxClock
    /\ clock' = clock + 1
    /\ UNCHANGED <<reservation, budget, jobs, leases, launch, running>>

-----------------------------------------------------------------------------

\* A database written before fingerprints were recorded: at most one job is
\* dispatched under a budget of its own.
Migrated(j, b, d) ==
    /\ reservation = [k \in Job |->
          IF k = j THEN [host |-> b.host, request |-> d, token |-> 0,
                         memory |-> b.memory, expires |-> 0, state |-> "dispatched",
                         fingerprint |-> NoFingerprint, reason |-> ""]
                   ELSE NoRow]
    /\ budget = [h \in Host |->
          IF h = b.host THEN [state |-> "present", memory |-> b.memory, jobs |-> b.jobs,
                              fingerprint |-> NoFingerprint]
                        ELSE NoRow]
    /\ jobs = [k \in Job |-> IF k = j THEN "live" ELSE "absent"]
    /\ running = {j}

\* Nothing was ever reserved; jobs from before admission may be live.
Unmigrated ==
    /\ reservation = [j \in Job |-> NoRow]
    /\ budget = [h \in Host |-> NoRow]
    /\ jobs \in [Job -> {"absent", "live"}]
    /\ running = {}

Init ==
    /\ leases = {} /\ started = {} /\ polled = {}
    /\ clock = 0
    /\ \/ Unmigrated
       \/ \E j \in Job, b \in Budget, d \in Request : Migrated(j, b, d)

Next ==
    \/ ReconcileCapacity
    \/ \E b \in Budget, j \in Job, d \in Request, m \in Demand : ReserveCapacity(b, j, d, m)
    \/ \E l \in leases : StartJob(l)
    \/ \E l \in started : PollJob(l)
    \/ \E l \in polled : DispatchCapacity(l)
    \/ \E l \in polled : DispatchRefused(l)
    \/ \E j \in Job : SettleJob(j)
    \/ \E j \in Job : ProcessGone(j)
    \/ \E j \in Job : ReleaseCapacity(j)
    \/ Tick

Spec == Init /\ [][Next]_vars

-----------------------------------------------------------------------------
(* Properties.                                                             *)

\* The memory of the dispatched jobs and of the leases that still run never
\* exceeds the recorded budget of the host (the sums of reserve_capacity).
MemoryWithinBudget ==
    \A h \in Host :
        LET occupied == Occupied(reservation, h, clock)
        IN  occupied # {} => /\ budget[h] # NoRow
                             /\ Memory(reservation, occupied) <= budget[h].memory

\* Nor does their number exceed max_jobs, whichever way budgets change.
JobsWithinBudget ==
    \A h \in Host :
        LET occupied == Occupied(reservation, h, clock)
        IN  occupied # {} => /\ budget[h] # NoRow
                             /\ Cardinality(occupied) <= budget[h].jobs

\* Two host ids or two fingerprints are never occupied at once: the database
\* admits to one physical machine ("physical host identity cannot change
\* while capacity is occupied").
OneMachine ==
    \A j, k \in OccupiedRows(reservation, clock) :
        reservation[j].host = reservation[k].host /\ reservation[j].fingerprint = reservation[k].fingerprint

\* A caller that holds an unexpired lease can still dispatch it, unless the job
\* was dispatched: nobody else took or renewed its reservation.
LeaseKept ==
    \A l \in leases :
        l.expires > clock =>
            LET row == reservation[l.job]
            IN  /\ row # NoRow /\ row.token = l.token /\ row.memory = l.memory
                /\ row.state = "reserved" \/ row.state = "dispatched"
                     \/ row.reason = "cleanup-proven"

\* A process launched under a reservation has its memory accounted for until
\* it is gone, however late its lease, its record or the proof of its end comes:
\* "A dispatched row is durable uncertainty until the process owner supplies
\* cleanup proof through release_capacity" (SQLiteWorkerCapacity).
RunningAccounted == \A j \in running : reservation[j].state = "dispatched"

\* No job is dispatched twice: a dispatched row is only ever released with
\* proof, and a row so released is never reserved again.
DispatchedOnce ==
    [][\A j \in Job :
          /\ reservation[j].state = "dispatched"
               => reservation'[j] \in {reservation[j], ReleasedRow(j)[j]}
          /\ reservation[j].state = "released" /\ reservation[j].reason = "cleanup-proven"
               => reservation'[j] = reservation[j]]_vars
=============================================================================
