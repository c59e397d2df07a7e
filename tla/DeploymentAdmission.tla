-------------------------- MODULE DeploymentAdmission --------------------------
(***************************************************************************)
(* Admission of a model deployment, every rank or none:                    *)
(* DeploymentAdmissionService in                                           *)
(* sonder_runtime/application/compute_fabric/deployment_admission.py over  *)
(* one worker capacity database.                                           *)
(*                                                                         *)
(* The service holds its lock for a whole call, so one call is in progress *)
(* at a time; every call it makes to the database is a step of its own, and *)
(* the process may stop between two of them.  Its index does not survive.  *)
(***************************************************************************)
EXTENDS WorkerCapacity, Sequences

CONSTANTS
    Deployment,     \* deployments with their resource plans
    Ranks,          \* the worker job ids of a plan, in the order of its ranks
    Group,          \* its (cluster id, reservation group)
    PlanBudget,     \* the budget its requests carry
    PlanDemand,     \* the memory each of its ranks asks for
    MaxActive,      \* max_active_admissions
    MaxRestarts     \* bound of the model

ASSUME PlanAssumption ==
    /\ Ranks \in [Deployment -> Seq(Job) \ {<<>>}]
    /\ PlanBudget \in [Deployment -> Budget]
    /\ PlanDemand \in [Deployment -> Nat \ {0}]
    /\ DOMAIN Group = Deployment
    /\ MaxActive \in Nat \ {0} /\ MaxRestarts \in Nat

VARIABLES
    active,         \* _active: the deployments whose receipts are live
    call,           \* the call that holds the lock
    unresolved,     \* history: the live receipts whose last release raised
    leaked,         \* history: the jobs whose cleanup raised, since the last restart
    restarts

index == <<active, unresolved, leaked>>
admission == <<index, call, restarts>>
allVars == <<vars, admission>>

Idle == [phase |-> "idle"]

CallType ==
    [phase: {"reserve", "dispatch", "cleanup", "release"}, plan: Deployment,
     at: Nat, token: Nat, failed: BOOLEAN]

AdmissionTypeOK ==
    /\ TypeOK
    /\ active \subseteq Deployment
    /\ call \in CallType \cup {Idle}
    /\ unresolved \subseteq active
    /\ leaked \subseteq Job
    /\ restarts \in 0..MaxRestarts

RankJobs(p) == {Ranks[p][i] : i \in DOMAIN Ranks[p]}

\* A job id is a digest of the cluster, the group, the deployment, the plan and
\* the rank, and so names a rank of one plan.
ASSUME RankAssumption ==
    /\ \A p, q \in Deployment : p # q => RankJobs(p) \cap RankJobs(q) = {}
    /\ Request # {}

\* The rank the call works on.  Its job id and its request digest are both made
\* from the plan and the rank, so a job id always comes with one digest.
Rank == Ranks[call.plan][call.at]
RankRequest == CHOOSE d \in Request : TRUE

NewCall(ph, p, i) ==
    [phase |-> ph, plan |-> p, at |-> i, token |-> 0, failed |-> FALSE]

-----------------------------------------------------------------------------

\* Mutant: the group of a live receipt is not looked at.
AdmitBeginAgain(p) ==
    /\ call = Idle
    /\ PlanDemand[p] <= PlanBudget[p].memory
    /\ Cardinality(active) < MaxActive
    /\ call' = NewCall("reserve", p, 1)
    /\ UNCHANGED <<vars, index, restarts>>

\* admit: the plan is new, its group is free and the index is not full.
AdmitBegin(p) ==
    /\ call = Idle
    /\ PlanDemand[p] <= PlanBudget[p].memory
    /\ \A q \in active : Group[q] # Group[p]
    /\ Cardinality(active) < MaxActive
    /\ call' = NewCall("reserve", p, 1)
    /\ UNCHANGED <<vars, index, restarts>>

\* admit of a plan that has its receipt returns that receipt, whose holder may
\* start the ranks (again).
AdmitRepeated(p) ==
    /\ call = Idle
    /\ p \in active
    /\ running' = running \cup RankJobs(p)
    /\ UNCHANGED <<budget, reservation, jobs, leases, launch, clock, admission>>

\* reserve_capacity returned a lease.
AdmitReserve ==
    /\ call.phase = "reserve"
    /\ Reserve(PlanBudget[call.plan], Rank, RankRequest, PlanDemand[call.plan])
    /\ call' = [call EXCEPT !.phase = "dispatch", !.token = reservation'[Rank].token]
    /\ UNCHANGED <<jobs, launch, running, clock, index, restarts>>

\* reserve_capacity or dispatch_capacity raised: the row refused it, or the
\* storage failed.  The rank is among the attempted ones already.
AdmitRaises ==
    /\ call.phase \in {"reserve", "dispatch"}
    /\ call' = [call EXCEPT !.phase = "cleanup"]
    /\ UNCHANGED <<vars, index, restarts>>

\* dispatch_capacity, and after the last rank the receipt: its holder may start
\* the ranks from then on.
AdmitDispatch ==
    /\ call.phase = "dispatch"
    /\ Dispatchable([job |-> Rank, token |-> call.token])
    /\ reservation' = DispatchedRow(Rank)
    /\ leaked' = leaked \ {Rank}
    /\ IF call.at < Len(Ranks[call.plan])
         THEN /\ call' = [call EXCEPT !.phase = "reserve", !.at = @ + 1]
              /\ UNCHANGED <<active, running>>
         ELSE /\ call' = Idle
              /\ active' = active \cup {call.plan}
              /\ running' = running \cup RankJobs(call.plan)
    /\ UNCHANGED <<budget, jobs, leases, launch, clock, unresolved, restarts>>

\* release_capacity for the rank of the call.  It may raise, and then the row
\* is written or not.
ReleaseCall(raised) ==
    \/ reservation' = ReleasedRow(Rank)
    \/ raised /\ UNCHANGED reservation

\* Mutant: the cleanup ends with the first release that raises.
AdmitCleanupStops(raised) ==
    /\ call.phase = "cleanup"
    /\ ReleaseCall(raised)
    /\ leaked' = IF raised THEN leaked \cup {Rank} ELSE leaked \ {Rank}
    /\ call' = IF call.at = 1 \/ raised THEN Idle ELSE [call EXCEPT !.at = @ - 1]
    /\ UNCHANGED <<budget, jobs, leases, launch, running, clock, active, unresolved,
                   restarts>>

\* The except branch: release_capacity for every attempted rank, last first,
\* whether or not an earlier one raised.  If one did, the caller is told that
\* the cleanup is unresolved.
AdmitCleanup(raised) ==
    /\ call.phase = "cleanup"
    /\ ReleaseCall(raised)
    /\ leaked' = IF raised THEN leaked \cup {Rank} ELSE leaked \ {Rank}
    /\ call' = IF call.at = 1 THEN Idle ELSE [call EXCEPT !.at = @ - 1]
    /\ UNCHANGED <<budget, jobs, leases, launch, running, clock, active, unresolved,
                   restarts>>

\* release(receipt), which the holder calls once its ranks are cleaned up.
ReleaseBegin(p) ==
    /\ call = Idle
    /\ p \in active
    /\ RankJobs(p) \cap running = {}
    /\ call' = NewCall("release", p, Len(Ranks[p]))
    /\ UNCHANGED <<vars, index, restarts>>

\* The next rank, last first.  The entry of the receipt is deleted at the end,
\* unless one of the releases raised.
ReleaseRank(raised) ==
    /\ call.phase = "release"
    /\ ReleaseCall(raised)
    /\ \/ /\ call.at > 1
          /\ call' = [call EXCEPT !.at = @ - 1, !.failed = @ \/ raised]
          /\ UNCHANGED <<active, unresolved>>
       \/ /\ call.at = 1 /\ (call.failed \/ raised)
          /\ call' = Idle
          /\ unresolved' = unresolved \cup {call.plan}
          /\ UNCHANGED active
       \/ /\ call.at = 1 /\ ~(call.failed \/ raised)
          /\ call' = Idle
          /\ active' = active \ {call.plan}
          /\ unresolved' = unresolved \ {call.plan}
    /\ UNCHANGED <<budget, jobs, leases, launch, running, clock, leaked, restarts>>

\* The service's process ends and another takes its place.
Restart ==
    /\ restarts < MaxRestarts
    /\ restarts' = restarts + 1
    /\ active' = {} /\ unresolved' = {} /\ leaked' = {} /\ call' = Idle
    /\ UNCHANGED vars

-----------------------------------------------------------------------------

AdmissionInit ==
    /\ Unmigrated /\ jobs = [j \in Job |-> "absent"]
    /\ leases = {} /\ started = {} /\ polled = {} /\ clock = 0
    /\ active = {} /\ unresolved = {} /\ leaked = {} /\ call = Idle /\ restarts = 0

AdmissionNext ==
    \/ \E p \in Deployment : AdmitBegin(p) \/ AdmitRepeated(p) \/ ReleaseBegin(p)
    \/ AdmitReserve
    \/ AdmitDispatch
    \/ AdmitRaises
    \/ \E raised \in BOOLEAN : AdmitCleanup(raised) \/ ReleaseRank(raised)
    \/ Restart
    \/ ReconcileCapacity /\ UNCHANGED admission
    \/ \E j \in Job : ProcessGone(j) /\ UNCHANGED admission
    \/ Tick /\ UNCHANGED admission

AdmissionSpec == AdmissionInit /\ [][AdmissionNext]_allVars

-----------------------------------------------------------------------------
(* Properties.                                                             *)

\* A live receipt is backed by dispatched capacity for every one of its ranks,
\* until its own release takes it back: leases that age out, other plans, their
\* failing cleanups and restarts in between take nothing from it.  A release
\* that raised may have given some of the ranks away.
ReceiptBacked ==
    \A p \in active \ unresolved :
        \/ call # Idle /\ call.phase = "release" /\ call.plan = p
        \/ \A j \in RankJobs(p) : reservation[j].state = "dispatched"

\* Without a restart, capacity stays dispatched only for a live receipt, for the
\* call in progress, or for a rank whose own cleanup raised: a failed admission
\* leaves no other rank behind, and a release that raised keeps the receipt with
\* which it can be repeated.
NothingStranded ==
    restarts = 0 =>
        \A j \in Job : reservation[j].state = "dispatched" =>
            \/ \E p \in active : j \in RankJobs(p)
            \/ call # Idle /\ j \in RankJobs(call.plan)
            \/ j \in leaked

\* A rank that runs keeps its memory for as long as the service knows its
\* receipt and has not tried to release it; only a restart makes the service
\* forget one.  No failed admission or cleanup of this or another plan gives the
\* memory away.  (After a release that raised, admit returns the receipt again,
\* also for the ranks that were released.)
RunningBacked ==
    \A j \in running :
        \/ reservation[j].state = "dispatched"
        \/ restarts > 0 /\ \A p \in active : j \notin RankJobs(p)
        \/ \E p \in unresolved : j \in RankJobs(p)
=============================================================================
