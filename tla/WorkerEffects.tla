---------------------------- MODULE WorkerEffects ----------------------------
(***************************************************************************)
(* The journal of one run together with the code that uses it:             *)
(*   - journaled_effect (worker_bindings.py) and ToolGateway               *)
(*     (gateway_contract.py), which admit an effect, invoke it and publish *)
(*     its outcome;                                                        *)
(*   - JournalBinding (application/execution/effect_journal.py);           *)
(*   - recover_before_restart and reconcile_before_restart                 *)
(*     (worker_bindings.py) and the pass over unresolved runs              *)
(*     (effect_reconciliation.py);                                         *)
(*   - the host and run leases (worker_effect_hosts.py) and their use in   *)
(*     bootstrap/app.py.                                                   *)
(* Processes start, die at any point and start again with a newer epoch;   *)
(* storage may fail under any publication; effects happen in the world and *)
(* survive every crash.                                                    *)
(***************************************************************************)
EXTENDS EffectJournal

CONSTANTS
    Thread,         \* threads that call effects, of whatever process
    RunLease,       \* TRUE for a node-shared run, which is claimed under a lease
    MaxStarts       \* bound of the model: process starts

ASSUME LeaseAssumption == RunLease \in BOOLEAN
ASSUME StartsAssumption == MaxStarts \in Nat /\ 1..MaxStarts \subseteq Epoch

VARIABLES
    epochOf,        \* worker_owner_epoch of each running process, 0: not running
    clock,          \* time_ns: the last epoch handed out
    hosts,          \* processes that opened the journal: they hold a host lease
    recovery,       \* per process and worker, the recovery under way
    permanent,      \* (process, worker) pairs holding the run lease until exit
    ready,          \* (process, worker) pairs with a binding handed out
    call,           \* what each thread is doing
    invoked,        \* the world: how often each operation was invoked
    applied         \* the world: operations whose effect took place

callers == <<epochOf, clock, hosts, recovery, permanent, ready, call>>

world == <<invoked, applied>>

wvars == <<journal, owner, checkpoints, latches, verifying,
           epochOf, clock, hosts, recovery, permanent, ready, call, invoked, applied>>

NoCall == [pc |-> "idle"]

NoRecovery == [phase |-> "none"]

CallState == {NoCall} \cup
    [pc: {"looked", "admitted", "returned", "raised", "latching"},
     proc: Proc, worker: Worker, op: Op, key: Key, index: Nat,
     result: Terminal]

RecoveryState == {NoRecovery} \cup
    [phase: {"probed", "claimed", "reconciling", "waiting", "restoring"},
     pass: BOOLEAN, todo: SUBSET Nat, fenced: BOOLEAN]

WTypeOK ==
    /\ epochOf \in [Proc -> 0..MaxStarts]
    /\ clock \in 0..MaxStarts
    /\ hosts \subseteq Proc
    /\ recovery \in [Proc -> [Worker -> RecoveryState]]
    /\ permanent \subseteq Proc \X Worker
    /\ ready \subseteq Proc \X Worker
    /\ call \in [Thread -> CallState]
    /\ invoked \in [Op -> Nat]
    /\ applied \subseteq Op

WInit ==
    /\ Init
    /\ epochOf = [p \in Proc |-> 0]
    /\ clock = 0
    /\ hosts = {}
    /\ recovery = [p \in Proc |-> [w \in Worker |-> NoRecovery]]
    /\ permanent = {}
    /\ ready = {}
    /\ call = [t \in Thread |-> NoCall]
    /\ invoked = [op \in Op |-> 0]
    /\ applied = {}

-----------------------------------------------------------------------------
(***************************************************************************)
(* Processes.                                                              *)
(***************************************************************************)

Up(p) == epochOf[p] # 0

\* build_application: worker_owner_epoch = time_ns(), later than every epoch
\* handed out before.
Start(p) ==
    /\ ~Up(p)
    /\ clock < MaxStarts
    /\ clock' = clock + 1
    /\ epochOf' = [epochOf EXCEPT ![p] = clock + 1]
    /\ UNCHANGED <<vars, hosts, recovery, permanent, ready, call, world>>

\* get_worker_effect_journal registers the process as a live host before the
\* journal is opened.
OpenJournal(p) ==
    /\ Up(p)
    /\ p \notin hosts
    /\ hosts' = hosts \cup {p}
    /\ UNCHANGED <<vars, epochOf, clock, recovery, permanent, ready, call, world>>

\* The process dies: its threads, recoveries, bindings, latch and leases end.
Die(p) ==
    /\ Up(p)
    /\ Crash(p)
    /\ epochOf' = [epochOf EXCEPT ![p] = 0]
    /\ hosts' = hosts \ {p}
    /\ recovery' = [recovery EXCEPT ![p] = [w \in Worker |-> NoRecovery]]
    /\ permanent' = {x \in permanent : x[1] # p}
    /\ ready' = {x \in ready : x[1] # p}
    /\ call' = [t \in Thread |->
                   IF call[t] # NoCall /\ call[t].proc = p THEN NoCall ELSE call[t]]
    /\ UNCHANGED <<clock, world>>

-----------------------------------------------------------------------------
(***************************************************************************)
(* recover_before_restart: claim the owner, recover, offer this worker's   *)
(* orphans to the verifiers one by one, restore the checkpoint.  The pass  *)
(* over unresolved runs (pass = TRUE) does the same without the restore,   *)
(* and holds the run lease only meanwhile.                                 *)
(***************************************************************************)

Recovering(p, w) == recovery[p][w].phase

\* The file lock of the run: a composed worker keeps it until its process
\* exits, the pass over unresolved runs from its claim to its end.
HoldsLease(q, w) ==
    \/ <<q, w>> \in permanent
    \/ /\ Recovering(q, w) \notin {"none", "probed"}
       /\ recovery[q][w].pass

\* Mutant: the lease excludes nobody.
LeaseAlwaysFree(p, w) == TRUE

LeaseFree(p, w) == RunLease => \A q \in Proc \ {p} : ~HoldsLease(q, w)

\* worker_binding takes the run lease before anything is claimed and keeps it
\* even if the claim is then refused.
TakeRunLease(p, w) ==
    /\ RunLease
    /\ p \in hosts
    /\ LeaseFree(p, w)
    /\ permanent' = permanent \cup {<<p, w>>}
    /\ UNCHANGED <<vars, epochOf, clock, hosts, recovery, ready, call, world>>

\* reconcile_unresolved_effects goes on only if no other process holds a host
\* lease (peer_hosts_live) and the run has unresolved effects.
ProbePeers(p, w) ==
    /\ hosts = {p}
    /\ Recovering(p, w) = "none"
    /\ \E i \in Unresolved(journal) : journal[i].worker = w
    /\ recovery' = [recovery EXCEPT ![p][w] =
                       [phase |-> "probed", pass |-> TRUE, todo |-> {},
                        fenced |-> FALSE]]
    /\ UNCHANGED <<vars, epochOf, clock, hosts, permanent, ready, call, world>>

\* PeerWorkerLive, or a stale epoch: the pass leaves the run alone.
PassRefused(p, w) ==
    /\ Recovering(p, w) = "probed"
    /\ ~LeaseFree(p, w) \/ owner[w].epoch > epochOf[p]
    /\ recovery' = [recovery EXCEPT ![p][w] = NoRecovery]
    /\ UNCHANGED <<vars, epochOf, clock, hosts, permanent, ready, call, world>>

Claim(p, w) ==
    LET pass == Recovering(p, w) = "probed" IN
    /\ p \in hosts
    /\ Recovering(p, w) \in {"none", "probed"}
    /\ IF pass THEN LeaseFree(p, w) ELSE RunLease => <<p, w>> \in permanent
    /\ ClaimOwner(w, epochOf[p])
    /\ recovery' = [recovery EXCEPT ![p][w] =
                       [phase |-> "claimed", pass |-> pass, todo |-> {},
                        fenced |-> FALSE]]
    /\ UNCHANGED <<epochOf, clock, hosts, permanent, ready, call, world>>

\* No caller passes a liveness map: every prior owner counts as gone.
NoneLive == [w \in Worker |-> 0]

RecoverOrphans(p, w) ==
    /\ Recovering(p, w) = "claimed"
    /\ Recover(p, NoneLive)
    /\ recovery' = [recovery EXCEPT ![p][w].phase = "reconciling",
                                    ![p][w].todo = Orphaned(NoneLive)]
    /\ UNCHANGED <<epochOf, clock, hosts, permanent, ready, call, world>>

\* What follows a recovery that left nothing fenced.
Resumed(r) == IF r.pass THEN NoRecovery ELSE [r EXCEPT !.phase = "restoring"]

RecoverNothing(p, w) ==
    /\ Recovering(p, w) = "claimed"
    /\ Unresolved(journal) = {}
    /\ recovery' = [recovery EXCEPT ![p][w] = Resumed(@)]
    /\ UNCHANGED <<vars, epochOf, clock, hosts, permanent, ready, call, world>>

\* "effect recovery exceeds bounded page", or the storage fails: before the
\* latch was added, or at the commit after it.
RecoverRaises(p, w) ==
    /\ Recovering(p, w) = "claimed"
    /\ recovery' = [recovery EXCEPT ![p][w] = NoRecovery]
    /\ \/ UNCHANGED vars
       \/ Unresolved(journal) # {} /\ RecordUncertaintyFails(p)
    /\ UNCHANGED <<epochOf, clock, hosts, permanent, ready, call, world>>

\* i is the next intent of the decision, in sequence order.
NextIntent(r, i) == i \in r.todo /\ \A k \in r.todo : i <= k

\* Mutant: the loop does not advance.
ExaminedAgain(r, i, stillFenced) ==
    [r EXCEPT !.phase = "reconciling", !.fenced = @ \/ stillFenced]

Examined(r, i, stillFenced) ==
    [r EXCEPT !.phase = "reconciling", !.todo = @ \ {i},
              !.fenced = @ \/ stillFenced]

\* Already definitive, or admitted by another worker, or reconcile raises
\* before its verifier runs (no verifier, no slot; the pass has a time budget).
SkipIntent(p, w) ==
    LET r == recovery[p][w] IN
    /\ Recovering(p, w) = "reconciling"
    /\ \E i \in r.todo :
           /\ NextIntent(r, i)
           /\ \/ ~IsUnresolved(journal[i])
              \/ journal[i].worker # w
              \/ journal[i].op \notin Verified
              \/ ~SlotFree(p)
              \/ r.pass
           /\ recovery' = [recovery EXCEPT
                              ![p][w] = Examined(r, i, IsUnresolved(journal[i]))]
    /\ UNCHANGED <<vars, epochOf, clock, hosts, permanent, ready, call, world>>

OfferIntent(p, w) ==
    LET r == recovery[p][w] IN
    /\ Recovering(p, w) = "reconciling"
    /\ \E i \in r.todo :
           /\ NextIntent(r, i)
           /\ journal[i].worker = w
           /\ ReconcileSnapshot(p, i, epochOf[p])
    /\ recovery' = [recovery EXCEPT ![p][w].phase = "waiting"]
    /\ UNCHANGED <<epochOf, clock, hosts, permanent, ready, call, world>>

\* The verifiers read durable evidence: completed proves that the effect took
\* place, failed (build-fix only) that it had not so far, and evidence may be
\* missing at any time.
VerifierAnswers(v) ==
    /\ \E verdict \in Terminal \cup {"none"} :
           /\ verdict = "completed" => v.snapshot.op \in applied
           /\ verdict = "failed" => v.snapshot.op \notin applied
           /\ Verify(v, verdict)
    /\ UNCHANGED <<callers, world>>

VerifierStops(v) ==
    /\ VerifierExits(v)
    /\ UNCHANGED <<callers, world>>

\* reconcile returns or raises to the recovery that waits for it.
Answered(v, stillFenced) ==
    LET p == v.proc
        w == v.snapshot.worker
    IN  /\ recovery' = [recovery EXCEPT ![p][w] = Examined(@, v.index, stillFenced)]
        /\ UNCHANGED <<epochOf, clock, hosts, permanent, ready, call, world>>

ReconcileReturns(v) ==
    \/ \E r \in Receipt : ApplyProof(v, r) /\ Answered(v, FALSE)
    \/ RefuseProof(v) /\ Answered(v, IsUnresolved(journal[v.index]))
    \/ VerifierTimeout(v) /\ Answered(v, TRUE)

\* EffectRecoveryRequired when something stayed fenced.
ReconcileEnds(p, w) ==
    LET r == recovery[p][w] IN
    /\ Recovering(p, w) = "reconciling"
    /\ r.todo = {}
    /\ recovery' = [recovery EXCEPT
                       ![p][w] = IF r.fenced THEN NoRecovery ELSE Resumed(@)]
    /\ UNCHANGED <<vars, epochOf, clock, hosts, permanent, ready, call, world>>

\* restore_checkpoint accepts, and the binding is handed out; or it raises.
Restore(p, w) ==
    /\ Recovering(p, w) = "restoring"
    /\ ready' = IF RestoreAccepted THEN ready \cup {<<p, w>>} ELSE ready
    /\ recovery' = [recovery EXCEPT ![p][w] = NoRecovery]
    /\ UNCHANGED <<vars, epochOf, clock, hosts, permanent, call, world>>

-----------------------------------------------------------------------------
(***************************************************************************)
(* One effect: begin_request, invoke, publish.                             *)
(***************************************************************************)

Goto(t, pc) == call' = [call EXCEPT ![t].pc = pc]

Finish(t) == call' = [call EXCEPT ![t] = NoCall]

\* begin_request reads the intent before it begins it.  A known operation is
\* refused whatever begin answers.
LookUp(t, p, w, op, key) ==
    /\ call[t] = NoCall
    /\ <<p, w>> \in ready
    /\ \A i \in DOMAIN journal : journal[i].op # op
    /\ call' = [call EXCEPT ![t] =
                   [pc |-> "looked", proc |-> p, worker |-> w, op |-> op,
                    key |-> key, index |-> 0, result |-> "failed"]]
    /\ UNCHANGED <<vars, epochOf, clock, hosts, recovery, permanent, ready, world>>

\* Mutant: the sequence number of the row is off.
AdmitOffByTwo(t) ==
    LET c == call[t] IN
    /\ c.pc = "looked"
    /\ Begin(c.proc, c.worker, epochOf[c.proc], c.op, c.key)
    /\ call' = [call EXCEPT ![t].pc = "admitted", ![t].index = Len(journal) - 1]
    /\ UNCHANGED <<epochOf, clock, hosts, recovery, permanent, ready, world>>

Admit(t) ==
    LET c == call[t] IN
    /\ c.pc = "looked"
    /\ Begin(c.proc, c.worker, epochOf[c.proc], c.op, c.key)
    /\ call' = [call EXCEPT ![t].pc = "admitted", ![t].index = Len(journal) + 1]
    /\ UNCHANGED <<epochOf, clock, hosts, recovery, permanent, ready, world>>

\* Mutant: begin_request takes a replayed intent for an admission.
AdmitReplayTaken(t) ==
    LET c == call[t] IN
    /\ c.pc = "looked"
    /\ EnsureOwner(c.proc, c.worker, epochOf[c.proc])
    /\ \E i \in DOMAIN journal :
           /\ journal[i].op = c.op /\ journal[i].key = c.key
           /\ journal[i].worker = c.worker /\ journal[i].epoch = epochOf[c.proc]
           /\ call' = [call EXCEPT ![t].pc = "admitted", ![t].index = i]
    /\ UNCHANGED <<vars, epochOf, clock, hosts, recovery, permanent, ready, world>>

\* Another thread began the very same intent since LookUp: begin returns it as
\* a replay and begin_request refuses it.
AdmitReplayed(t) ==
    LET c == call[t] IN
    /\ c.pc = "looked"
    /\ EnsureOwner(c.proc, c.worker, epochOf[c.proc])
    /\ \E i \in DOMAIN journal :
           /\ journal[i].op = c.op /\ journal[i].key = c.key
           /\ journal[i].worker = c.worker /\ journal[i].epoch = epochOf[c.proc]
    /\ Finish(t)
    /\ UNCHANGED <<vars, epochOf, clock, hosts, recovery, permanent, ready, world>>

\* begin raises: fenced, latched, stale, conflicting, or the storage failed.
AdmitRefused(t) ==
    /\ call[t].pc = "looked"
    /\ Finish(t)
    /\ UNCHANGED <<vars, epochOf, clock, hosts, recovery, permanent, ready, world>>

\* The invocation returns a result.  A success took place; a failure may have
\* left effects behind.
Invoke(t) ==
    LET c == call[t] IN
    /\ c.pc = "admitted"
    /\ invoked' = [invoked EXCEPT ![c.op] = @ + 1]
    /\ \E s \in Terminal :
           /\ applied' \in {applied, applied \cup {c.op}}
           /\ s = "completed" => c.op \in applied'
           /\ call' = [call EXCEPT ![t].pc = "returned", ![t].result = s]
    /\ UNCHANGED <<vars, epochOf, clock, hosts, recovery, permanent, ready>>

\* The invocation raises, before or after its effect took place.
InvokeRaises(t) ==
    LET c == call[t] IN
    /\ c.pc = "admitted"
    /\ invoked' = [invoked EXCEPT ![c.op] = @ + 1]
    /\ applied' \in {applied, applied \cup {c.op}}
    /\ Goto(t, "raised")
    /\ UNCHANGED <<vars, epochOf, clock, hosts, recovery, permanent, ready>>

\* Mutant: every result is published as completed.
PublishCompleted(t) ==
    LET c == call[t] IN
    /\ c.pc = "returned"
    /\ \E r \in Receipt : Outcome(c.proc, c.index, "completed", r)
    /\ Finish(t) \/ Goto(t, "raised")
    /\ UNCHANGED <<epochOf, clock, hosts, recovery, permanent, ready, world>>

\* journaled_effect publishes with outcome_and_checkpoint, the gateway with
\* outcome.  The commit may raise although it took place.
Publish(t) ==
    LET c == call[t] IN
    /\ c.pc = "returned"
    /\ \E r \in Receipt : \/ OutcomeAndCheckpoint(c.proc, c.index, c.result, r)
                          \/ Outcome(c.proc, c.index, c.result, r)
    /\ Finish(t) \/ Goto(t, "raised")
    /\ UNCHANGED <<epochOf, clock, hosts, recovery, permanent, ready, world>>

\* The receipt, the checkpoint state or the audit record cannot be built or
\* published, the journal refuses the outcome, or the storage fails.
PublishFails(t) ==
    /\ call[t].pc = "returned"
    /\ Goto(t, "raised")
    /\ UNCHANGED <<vars, epochOf, clock, hosts, recovery, permanent, ready, world>>

\* One _record_uncertainty call that works.
Uncertainty(c) ==
    \/ RecordUncertainty(c.proc, c.index)
    \/ ~IsUnresolved(journal[c.index]) /\ UNCHANGED vars

\* mark_uncertain: uncertain, and when that raises (its commit may have taken
\* place) latch_uncertainty, whose failure is swallowed.
MarkUncertain(t) ==
    LET c == call[t] IN
    /\ c.pc = "raised"
    /\ \/ Uncertainty(c) /\ (Finish(t) \/ Goto(t, "latching"))
       \/ RecordUncertaintyFails(c.proc) /\ Goto(t, "latching")
    /\ UNCHANGED <<epochOf, clock, hosts, recovery, permanent, ready, world>>

LatchUncertainty(t) ==
    LET c == call[t] IN
    /\ c.pc = "latching"
    /\ Uncertainty(c) \/ RecordUncertaintyFails(c.proc)
    /\ Finish(t)
    /\ UNCHANGED <<epochOf, clock, hosts, recovery, permanent, ready, world>>

-----------------------------------------------------------------------------

RecoveryStep(p, w) ==
    \/ TakeRunLease(p, w)
    \/ ProbePeers(p, w)
    \/ PassRefused(p, w)
    \/ Claim(p, w)
    \/ RecoverOrphans(p, w)
    \/ RecoverNothing(p, w)
    \/ RecoverRaises(p, w)
    \/ SkipIntent(p, w)
    \/ OfferIntent(p, w)
    \/ ReconcileEnds(p, w)
    \/ Restore(p, w)

CallStep(t) ==
    \/ \E x \in ready, op \in Op, key \in Key : LookUp(t, x[1], x[2], op, key)
    \/ Admit(t)
    \/ AdmitReplayed(t)
    \/ AdmitRefused(t)
    \/ Invoke(t)
    \/ InvokeRaises(t)
    \/ Publish(t)
    \/ PublishFails(t)
    \/ MarkUncertain(t)
    \/ LatchUncertainty(t)

WNext ==
    \/ \E p \in Proc : Start(p) \/ OpenJournal(p) \/ Die(p)
    \/ \E p \in Proc, w \in Worker : RecoveryStep(p, w)
    \/ \E v \in verifying : VerifierAnswers(v) \/ VerifierStops(v) \/ ReconcileReturns(v)
    \/ \E t \in Thread : CallStep(t)

WSpec == WInit /\ [][WNext]_wvars

\* A recovery runs on its caller's thread, which goes on; the join on the
\* verifier's thread has a timeout.  Nothing makes a verifier answer, a call
\* proceed or a process start.
RecoveryProgress(p, w) ==
    \/ PassRefused(p, w)
    \/ Recovering(p, w) = "probed" /\ Claim(p, w)
    \/ RecoverOrphans(p, w)
    \/ RecoverNothing(p, w)
    \/ RecoverRaises(p, w)
    \/ SkipIntent(p, w)
    \/ OfferIntent(p, w)
    \/ \E v \in verifying :
           v.proc = p /\ v.snapshot.worker = w /\ ReconcileReturns(v)
    \/ ReconcileEnds(p, w)
    \/ Restore(p, w)

FairSpec ==
    /\ WSpec
    /\ \A p \in Proc, w \in Worker : WF_wvars(RecoveryProgress(p, w))

-----------------------------------------------------------------------------
(***************************************************************************)
(* Properties.                                                             *)
(***************************************************************************)

\* An operation is invoked at most once, and only with a durable intent, under
\* every crash, restart, storage failure, duplicate call and recovery:
\* begin_request refuses each second admission and recovery never invokes.
AtMostOnce ==
    \A op \in Op : /\ invoked[op] <= 1
                   /\ invoked[op] = 1 => \E i \in DOMAIN journal : journal[i].op = op

\* A completed outcome is recorded only for an effect that took place, whether
\* its worker published it or a verifier proved it after a crash.
CompletedTookPlace ==
    \A i \in DOMAIN journal : journal[i].state = "completed" => journal[i].op \in applied

\* Some live caller is still working on row i.
InFlight(i) == \E t \in Thread : call[t] # NoCall /\ call[t].index = i

\* When an effect is admitted, every other unresolved effect of the run is a
\* bare intent that a live caller is working on: a restarted worker admits
\* nothing on top of an effect whose fate is unknown.
AdmissionStepKnown ==
    \A n \in DOMAIN journal' \ DOMAIN journal :
        \A i \in Unresolved(journal) : journal[i].state = "intent" /\ InFlight(i)
NoBlindAdmission == [][AdmissionStepKnown]_wvars

\* The durable fence (recovery_required) is never left behind: while a worker
\* is fenced, some effect of the run is unresolved.
FenceJustified ==
    (\E w \in Worker : owner[w].fenced) => Unresolved(journal) # {}

\* A composed worker of a node-shared run stays the current owner as long as
\* its process lives: the run lease keeps every peer from superseding it.
OwnerNotSuperseded ==
    RunLease => \A x \in ready : owner[x[2]].epoch = epochOf[x[1]]

\* s is nearer to the end of a recovery than r: it has ended, is in a later phase,
\* or has fewer intents to examine.
LaterPhase == {<<"probed", "claimed">>, <<"claimed", "reconciling">>,
               <<"claimed", "restoring">>, <<"reconciling", "restoring">>}

Nearer(r, s) ==
    \/ s = NoRecovery
    \/ <<r.phase, s.phase>> \in LaterPhase
    \/ r.phase = "reconciling" /\ s.phase = "waiting" /\ s.todo = r.todo
    \/ /\ r.phase \in {"reconciling", "waiting"} /\ s.phase = "reconciling"
       /\ s.todo \subseteq r.todo /\ s.todo # r.todo

\* Whatever a recovery does, or is done to it by its verifiers, its peers and its
\* process, it moves towards its end: none goes back to a phase it has left or to
\* an intent it has examined.  So it ends after finitely many steps of its own.
RecoveryMovesOn ==
    [][\A p \in Proc, w \in Worker :
          Recovering(p, w) # "none" =>
              \/ recovery'[p][w] = recovery[p][w]
              \/ Nearer(recovery[p][w], recovery'[p][w])]_wvars

\* A recovery ends (bound or refused): a verifier that hangs cannot wedge it.
RecoveryEnds ==
    \A p \in Proc, w \in Worker :
        Recovering(p, w) # "none" ~> Recovering(p, w) = "none"

-----------------------------------------------------------------------------
(***************************************************************************)
(* Statements of the repository that the code does not keep.               *)
(***************************************************************************)

\* effect_journal.py:593: when an acknowledgement fails after a definitive
\* commit, the provisional fence is undone.  So a process whose calls have all
\* ended holds its latch only for an unresolved effect.
ProvisionalFenceUndone ==
    \A p \in latches :
        \/ Unresolved(journal) # {}
        \/ \E t \in Thread : call[t] # NoCall /\ call[t].proc = p

\* worker_bindings.py:286 (PeerWorkerLive): the worker can be composed again
\* once the peer has exited.  So a process that took the run lease can claim.
LeaseHolderCanClaim ==
    \A x \in permanent : owner[x[2]].epoch <= epochOf[x[1]]
=============================================================================
