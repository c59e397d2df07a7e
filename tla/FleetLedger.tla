---------------------------- MODULE FleetLedger ----------------------------
(***************************************************************************)
(* The ledger of delegated fleets: a row per master and per delegated      *)
(* agent, the processes that own the rows, the claims under which a failed *)
(* master is retried, and the messages queued for running agents.          *)
(*                                                                         *)
(* Source: sonder_runtime/adapters/persistence/fleet_store.py, called by   *)
(* master_orchestrator.py.                                                 *)
(*                                                                         *)
(* Every operation is one write transaction, hence one action; one that    *)
(* finds its row in another state than it asks for returns without writing *)
(* and is a stutter.  A live process may call any operation on its own     *)
(* rows at any time: its worker threads, its heartbeat thread, its exit    *)
(* handler and its callers are not ordered with each other.  The column    *)
(* in_model_call, which begin_model_call sets and no operation decides on, *)
(* and the texts and counts of a row are left out.                         *)
(***************************************************************************)
EXTENDS Integers, FiniteSets

CONSTANTS
  Agent,      \* rows of fleet_agents, by id
  Owner,      \* processes, by owner_id: a process registers under one id
  Message,    \* rows of fleet_messages, by id
  NoAgent,    \* the empty parent_id, retry_of and retried_by
  OwnerOf,    \* the process that creates a row
  ParentOf,   \* parent_id: the master of a delegated agent
  RetryOf,    \* retry_of: the master that a master retries
  Recipient,  \* recipient_id of a message
  Steer,      \* the messages with mode 'steer'; the others are follow-ups
  Stale,      \* stale_seconds, in ticks of the clock
  Grace,      \* grace_seconds
  RetryLease, \* lease_seconds of a retry claim
  MaxPending, \* MAX_PENDING_MESSAGES_PER_AGENT
  MaxClock    \* bound on the clock

(* A delegated agent is created by the process of its master, and retries  *)
(* are masters that retry masters.                                         *)
ASSUME FleetAssumption ==
  /\ NoAgent \notin Agent
  /\ OwnerOf \in [Agent -> Owner]
  /\ ParentOf \in [Agent -> Agent \cup {NoAgent}]
  /\ RetryOf \in [Agent -> Agent \cup {NoAgent}]
  /\ Recipient \in [Message -> Agent]
  /\ Steer \subseteq Message
  /\ Stale \in Nat /\ Grace \in Nat /\ RetryLease \in Nat \ {0}
  /\ MaxPending \in Nat /\ MaxClock \in Nat
  /\ \A a \in Agent : ParentOf[a] # NoAgent =>
       ParentOf[a] # a /\ OwnerOf[ParentOf[a]] = OwnerOf[a]
  /\ \A a \in Agent : RetryOf[a] # NoAgent =>
       /\ RetryOf[a] # a /\ ParentOf[a] = NoAgent
       /\ ParentOf[RetryOf[a]] = NoAgent

VARIABLES
  status,     \* status of a row, "absent" before create_agent
  cancel,     \* cancel_requested
  retriedBy,  \* retried_by: NoAgent, a pending claim, or the retry's id
  dispatch,   \* how far master_retry is with a retry
  message,    \* status of a message, "unsent" before queue_agent_message
  owner,      \* row of fleet_owners: "none", "open" or "closed" (closed_ts)
  beat,       \* heartbeat_ts
  seen,       \* stale_seen_ts, Never for NULL
  up,         \* whether the process runs
  clock

rowVars == <<status, cancel>>
ownerVars == <<owner, beat, seen, up>>
vars == <<rowVars, retriedBy, dispatch, message, ownerVars, clock>>

Never == -1

ActiveStatus == {"queued", "running"}
Retryable == {"interrupted", "failed", "cancelled", "task_drift"}
Status == ActiveStatus \cup Retryable \cup {"done", "retried"}
Result == {"done", "failed", "task_drift"}

(* A claim is told by its token; the retry that is dispatched under the    *)
(* claim stands for it.                                                    *)
Claim == [token: Agent, expires: Nat]

ASSUME ClaimAssumption == \A a \in Agent \cup {NoAgent} : a \notin Claim

TypeOK ==
  /\ status \in [Agent -> Status \cup {"absent"}]
  /\ cancel \in [Agent -> BOOLEAN]
  /\ retriedBy \in [Agent -> Agent \cup {NoAgent} \cup Claim]
  /\ dispatch \in [Agent -> {"idle", "claimed", "released"}]
  /\ message \in [Message -> {"unsent", "queued", "delivered", "expired"}]
  /\ owner \in [Owner -> {"none", "open", "closed"}]
  /\ beat \in [Owner -> Nat]
  /\ seen \in [Owner -> Nat \cup {Never}]
  /\ up \in [Owner -> BOOLEAN]
  /\ clock \in Nat

Init ==
  /\ status = [a \in Agent |-> "absent"]
  /\ cancel = [a \in Agent |-> FALSE]
  /\ retriedBy = [a \in Agent |-> NoAgent]
  /\ dispatch = [a \in Agent |-> "idle"]
  /\ message = [m \in Message |-> "unsent"]
  /\ owner = [o \in Owner |-> "none"]
  /\ beat = [o \in Owner |-> 0]
  /\ seen = [o \in Owner |-> Never]
  /\ up = [o \in Owner |-> TRUE]
  /\ clock = 0

------------------------------------------------------------------------------
Exists(a) == status[a] # "absent"
Active(a) == status[a] \in ActiveStatus
ActiveRows == {a \in Agent : Active(a)}
Stopped(a) == cancel[a] \/ status[a] \in {"cancelled", "interrupted"}
Runs(a) == up[OwnerOf[a]]

(* _FLEET_TRANSITIONS, as used by the operations. *)
CanTransition(from, to) ==
  \/ from = "queued" /\ to \in {"running", "cancelled", "interrupted"} \cup Result
  \/ from = "running" /\ to \in {"cancelled", "interrupted"} \cup Result
  \/ from \in Retryable /\ to \in {"queued", "retried"}

------------------------------------------------------------------------------
(* The processes. *)

RegisterOwner(o) ==
  /\ up[o]
  /\ owner' = [owner EXCEPT ![o] = "open"]
  /\ beat' = [beat EXCEPT ![o] = clock]
  /\ seen' = [seen EXCEPT ![o] = Never]
  /\ UNCHANGED <<rowVars, retriedBy, dispatch, message, up, clock>>

HeartbeatOwner(o) ==
  /\ up[o] /\ owner[o] = "open"
  /\ beat' = [beat EXCEPT ![o] = clock]
  /\ seen' = [seen EXCEPT ![o] = Never]
  /\ UNCHANGED <<rowVars, retriedBy, dispatch, message, owner, up, clock>>

(* The active rows of the owners in O are interrupted. *)
Interrupt(O) ==
  LET hit == {a \in ActiveRows : OwnerOf[a] \in O} IN
  /\ status' = [a \in Agent |-> IF a \in hit THEN "interrupted" ELSE status[a]]
  /\ cancel' = [a \in Agent |-> cancel[a] \/ a \in hit]

CloseOwner(o) ==
  /\ up[o] /\ owner[o] # "none"
  /\ Interrupt({o})
  /\ owner' = [owner EXCEPT ![o] = "closed"]
  /\ beat' = [beat EXCEPT ![o] = clock]
  /\ UNCHANGED <<retriedBy, dispatch, message, seen, up, clock>>

ProcessDies(o) ==
  /\ up[o]
  /\ up' = [up EXCEPT ![o] = FALSE]
  /\ UNCHANGED <<rowVars, retriedBy, dispatch, message, owner, beat, seen,
                 clock>>

(* reconcile_stale_owners: of the owners whose heartbeat is overdue, D are *)
(* found dead; the probe of another may be inconclusive, or its host is    *)
(* not this one.                                                           *)
Overdue(o) == owner[o] = "open" /\ beat[o] + Stale < clock

ReconcileStaleOwners(D) ==
  LET gone == {o \in D : seen[o] # Never /\ seen[o] + Grace <= clock} IN
  /\ \A o \in D : Overdue(o) /\ ~up[o]
  /\ Interrupt(gone)
  /\ owner' = [o \in Owner |-> IF o \in gone THEN "closed" ELSE owner[o]]
  /\ seen' = [o \in Owner |->
       IF o \in D /\ seen[o] = Never THEN clock ELSE seen[o]]
  /\ UNCHANGED <<retriedBy, dispatch, message, beat, up, clock>>

------------------------------------------------------------------------------
(* The rows. *)

(* Mutant of CreateAgent: the parent's cancellation is not inherited. *)
CreateAgentAnyway(a) ==
  /\ Runs(a) /\ owner[OwnerOf[a]] # "none"
  /\ status[a] = "absent"
  /\ RetryOf[a] # NoAgent => dispatch[a] # "idle"
  /\ status' = [status EXCEPT ![a] = "queued"]
  /\ UNCHANGED <<cancel, retriedBy, dispatch, message, ownerVars, clock>>

(* create_agent: a child of a stopped parent is born cancelled; a parent   *)
(* without a row is not stopped.  A retry is created by the dispatch that  *)
(* won the claim, and may be late: the dispatcher has given up on its      *)
(* start-up and has released the claim.                                    *)
CreateAgent(a) ==
  LET born(p) == p # NoAgent /\ Stopped(p) IN
  /\ Runs(a) /\ owner[OwnerOf[a]] # "none"
  /\ status[a] = "absent"
  /\ RetryOf[a] # NoAgent => dispatch[a] # "idle"
  /\ status' = [status EXCEPT
       ![a] = IF born(ParentOf[a]) THEN "cancelled" ELSE "queued"]
  /\ cancel' = [cancel EXCEPT ![a] = born(ParentOf[a])]
  /\ UNCHANGED <<retriedBy, dispatch, message, ownerVars, clock>>

StartAgent(a) ==
  /\ Runs(a)
  /\ status[a] = "queued" /\ ~cancel[a]
  /\ status' = [status EXCEPT ![a] = "running"]
  /\ UNCHANGED <<cancel, retriedBy, dispatch, message, ownerVars, clock>>

(* Mutant of FinalStatus: only the status is looked at, not the flag. *)
FinalByStatus(a, result) ==
  IF status[a] = "cancelled" THEN "cancelled" ELSE result

(* finish_agent.  An interrupted row and a row that has its result are     *)
(* returned as they are, and a transition that the table does not allow    *)
(* is an error; a cancelled row is written again.  The end of a retry      *)
(* settles the master it retries: a success is recorded there, a failure   *)
(* clears the claim that is pending there.                                 *)
FinalStatus(a, result) ==
  IF cancel[a] \/ status[a] = "cancelled" THEN "cancelled" ELSE result

Settles(a, final, s) ==
  RetryOf[a] = s /\ final = "done" /\ status[s] \in Retryable
Unclaims(a, final, s) ==
  RetryOf[a] = s /\ final # "done" /\ retriedBy[s] \in Claim

FinishAgent(a, result) ==
  LET final == FinalStatus(a, result) IN
  /\ Runs(a)
  /\ status[a] \notin {"absent", "interrupted"}
  /\ cancel[a] \/ status[a] \notin Result
  /\ status[a] # final => CanTransition(status[a], final)
  /\ status' = [b \in Agent |-> IF b = a THEN final
                                ELSE IF Settles(a, final, b) THEN "retried"
                                ELSE status[b]]
  /\ retriedBy' = [b \in Agent |-> IF Settles(a, final, b) THEN a
                                   ELSE IF Unclaims(a, final, b) THEN NoAgent
                                   ELSE retriedBy[b]]
  /\ message' = [m \in Message |->
       IF message[m] = "queued" /\ m \in Steer /\ Recipient[m] = a
         THEN "expired" ELSE message[m]]
  /\ UNCHANGED <<cancel, dispatch, ownerVars, clock>>

(* cancel_agents: the selected active rows and, again and again, the       *)
(* active rows whose parent is selected.                                   *)
Cascade(R) ==
  LET closed(S) == \A a \in ActiveRows : ParentOf[a] \in S => a \in S IN
  {a \in ActiveRows :
     \A S \in SUBSET ActiveRows : R \subseteq S /\ closed(S) => a \in S}

CancelAgents(R) ==
  LET hit == Cascade(R) IN
  /\ R # {} /\ R \subseteq ActiveRows
  /\ status' = [a \in Agent |->
       IF a \in hit /\ status[a] = "queued" THEN "cancelled" ELSE status[a]]
  /\ cancel' = [a \in Agent |-> cancel[a] \/ a \in hit]
  /\ UNCHANGED <<retriedBy, dispatch, message, ownerVars, clock>>

------------------------------------------------------------------------------
(* master_retry: claim the source, dispatch the retry, release the claim.  *)

Pending(s) == retriedBy[s] \in Claim /\ retriedBy[s].expires > clock

AcquireRetryLease(r) ==
  LET s == RetryOf[r] IN
  /\ Runs(r) /\ s # NoAgent /\ dispatch[r] = "idle"
  /\ status[s] \in Retryable
  /\ retriedBy[s] \notin Agent
  /\ ~Pending(s)
  /\ \A a \in Agent : RetryOf[a] = s => ~Active(a)
  /\ retriedBy' = [retriedBy EXCEPT
       ![s] = [token |-> r, expires |-> clock + RetryLease]]
  /\ dispatch' = [dispatch EXCEPT ![r] = "claimed"]
  /\ UNCHANGED <<rowVars, message, ownerVars, clock>>

(* Mutant of ReleaseRetryLease: retried_by is cleared whatever it holds. *)
ReleaseWhatever(r) ==
  /\ Runs(r) /\ dispatch[r] = "claimed"
  /\ dispatch' = [dispatch EXCEPT ![r] = "released"]
  /\ retriedBy' = [retriedBy EXCEPT ![RetryOf[r]] = NoAgent]
  /\ UNCHANGED <<rowVars, message, ownerVars, clock>>

(* The dispatch returned, failed or gave up on the start-up of the retry;  *)
(* the claim is cleared if it is still this one.                           *)
ReleaseRetryLease(r) ==
  LET s == RetryOf[r] IN
  /\ Runs(r) /\ dispatch[r] = "claimed"
  /\ dispatch' = [dispatch EXCEPT ![r] = "released"]
  /\ retriedBy' = IF retriedBy[s] \in Claim /\ retriedBy[s].token = r
                    THEN [retriedBy EXCEPT ![s] = NoAgent] ELSE retriedBy
  /\ UNCHANGED <<rowVars, message, ownerVars, clock>>

------------------------------------------------------------------------------
(* Messages.  late are the queued messages past their expires_ts, which    *)
(* may be any.  Both ends may be reached by a process other than the       *)
(* owner, with the principal's secret.  The limits per scope and per       *)
(* sender only refuse a message and are left out.                          *)

QueuedFor(a) == {m \in Message : message[m] = "queued" /\ Recipient[m] = a}

QueueAgentMessage(m, late) ==
  LET a == Recipient[m] IN
  /\ message[m] = "unsent" /\ Exists(a)
  /\ m \in Steer => Active(a)
  /\ \A n \in late : message[n] = "queued"
  /\ Cardinality(QueuedFor(a) \ late) < MaxPending
  /\ message' = [n \in Message |-> IF n = m THEN "queued"
                                   ELSE IF n \in late THEN "expired"
                                   ELSE message[n]]
  /\ UNCHANGED <<rowVars, retriedBy, dispatch, ownerVars, clock>>

(* Mutant of Undeliverable: only finish_agent expires steering. *)
LateOnly(a, late) == QueuedFor(a) \cap late

(* claim_agent_messages: the overdue messages expire, and the steering of  *)
(* a recipient that is no longer active; some of the rest are delivered.   *)
Undeliverable(a, late) ==
  {m \in QueuedFor(a) : m \in late \/ (m \in Steer /\ ~Active(a))}

ClaimAgentMessages(a, late, due) ==
  LET rest == QueuedFor(a) \ Undeliverable(a, late) IN
  /\ Exists(a) /\ QueuedFor(a) # {}
  /\ late \subseteq QueuedFor(a)
  /\ due \subseteq rest /\ (rest # {} => due # {})
  /\ message' = [m \in Message |->
       IF m \in due THEN "delivered"
       ELSE IF m \in Undeliverable(a, late) THEN "expired"
       ELSE message[m]]
  /\ UNCHANGED <<rowVars, retriedBy, dispatch, ownerVars, clock>>

------------------------------------------------------------------------------
Tick ==
  /\ clock < MaxClock
  /\ clock' = clock + 1
  /\ UNCHANGED <<rowVars, retriedBy, dispatch, message, ownerVars>>

(* An agent is delegated by a master that has its row.  (Only the pruning  *)
(* of ended rows, which is left out, takes a row away.)                    *)
Delegable(a) == ParentOf[a] # NoAgent => Exists(ParentOf[a])

Next ==
  \/ \E o \in Owner : \/ RegisterOwner(o) \/ HeartbeatOwner(o)
                      \/ CloseOwner(o) \/ ProcessDies(o)
  \/ \E D \in SUBSET Owner : ReconcileStaleOwners(D)
  \/ \E a \in Agent : \/ Delegable(a) /\ CreateAgent(a)
                      \/ StartAgent(a)
                      \/ \E result \in Result : FinishAgent(a, result)
                      \/ AcquireRetryLease(a) \/ ReleaseRetryLease(a)
  \/ \E R \in SUBSET Agent : CancelAgents(R)
  \/ \E late \in SUBSET Message :
       \/ \E m \in Message : QueueAgentMessage(m, late)
       \/ \E a \in Agent, due \in SUBSET Message :
            ClaimAgentMessages(a, late, due)
  \/ Tick

Spec == Init /\ [][Next]_vars

------------------------------------------------------------------------------
(* Cancellation holds for the whole tree: below a parent that is cancelled *)
(* or interrupted no agent is active without the cancellation flag,        *)
(* whichever of create_agent, cancel_agents, close_owner and               *)
(* reconcile_stale_owners came first (create_agent's inheritance).         *)
TreeCancelled ==
  \A a \in Agent :
    /\ ParentOf[a] # NoAgent => (Exists(a) => Exists(ParentOf[a]))
    /\ ParentOf[a] # NoAgent /\ Stopped(ParentOf[a]) /\ Active(a) => cancel[a]

(* A result that arrives after the cancellation is discarded: a row with   *)
(* the flag still waits for its last call, or ended without a result, and  *)
(* never goes back to the queue (finish_agent's "late result discarded").  *)
LateResultDiscarded ==
  \A a \in Agent : cancel[a] =>
    status[a] \in {"running", "cancelled", "interrupted", "retried"}

(* A master is marked retried exactly when retried_by names a retry of it  *)
(* that is done: a claim, a release or the end of another retry that is    *)
(* still under way neither takes the mark back nor sets it.                *)
RetriedBacked ==
  \A s \in Agent :
    /\ status[s] = "retried" <=> retriedBy[s] \in Agent
    /\ retriedBy[s] \in Agent =>
         RetryOf[retriedBy[s]] = s /\ status[retriedBy[s]] = "done"

(* The record of a successful retry is never replaced, by no later claim,  *)
(* release, failure or second success ("never overwrites a recorded        *)
(* successful retried_by").                                                *)
SuccessKept ==
  [][\A s \in Agent : retriedBy[s] \in Agent => retriedBy'[s] = retriedBy[s]]_vars

(* Steering reaches only an agent that can still act on it, although       *)
(* close_owner, reconcile_stale_owners and cancel_agents leave the queue   *)
(* of an agent they end as it is.                                          *)
SteerReachesActive ==
  [][\A m \in Steer : message[m] = "queued" /\ message'[m] = "delivered"
       => Active(Recipient[m])]_vars

(* The end of a retry clears no claim but its own: "no other dispatcher    *)
(* can hold a live claim at this moment" (finish_agent).                   *)
ClaimKept ==
  [][\A a \in Agent : \A result \in Result :
       FinishAgent(a, result) =>
         \A s \in Agent : Pending(s) /\ retriedBy[s].token # a
           => retriedBy'[s] = retriedBy[s]]_vars
=============================================================================
