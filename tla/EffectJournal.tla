---------------------------- MODULE EffectJournal ----------------------------
(***************************************************************************)
(* The durable effect journal of one run: SQLiteEffectJournal in           *)
(* sonder_runtime/adapters/persistence/sqlite/effect_journal.py.           *)
(*                                                                         *)
(* Every statement of that class is scoped by run_id, so one run is        *)
(* modelled.  Every write is one BEGIN IMMEDIATE transaction that rolls    *)
(* back when it raises, so every write is one step and a refusal is no     *)
(* step.  Several processes open the same database; each has its own       *)
(* in-memory latch, which a crash loses.  The callers are arbitrary here:  *)
(* any process may call any operation at any time with any identity.       *)
(* WorkerEffects adds the callers.                                         *)
(***************************************************************************)
EXTENDS Integers, Sequences, FiniteSets

CONSTANTS
    Proc,           \* runtime processes sharing the database
    Worker,         \* worker identities of the run
    Op,             \* operation identities; run_id:operation_id is the intent id
    Key,            \* idempotency keys
    Epoch,          \* owner epochs a caller may present
    Receipt,        \* receipt keys of definitive outcomes
    Verified,       \* operations whose family has a registered verifier
    PageBound,      \* max_records of recover
    Retention,      \* CHECKPOINT_RETENTION
    VerifierSlots,  \* _VERIFIER_SLOTS
    MaxGeneration,  \* bound of the model: checkpoint generations appended
    MaxCalls        \* bound of the model: reconcile calls under way

ASSUME EpochAssumption == Epoch \subseteq Nat \ {0}
ASSUME VerifiedAssumption == Verified \subseteq Op
ASSUME BoundAssumption == /\ PageBound \in Nat \ {0}
                          /\ Retention \in Nat \ {0}
                          /\ VerifierSlots \in Nat \ {0}
                          /\ MaxGeneration \in Nat
                          /\ MaxCalls \in Nat

VARIABLES
    journal,        \* effect_journal rows; the index is the sequence column
    owner,          \* effect_owner rows; epoch 0 means that there is no row
    checkpoints,    \* effect_checkpoint rows: generation -> effect_high_water
    latches,        \* processes whose _live_latches holds the run
    verifying       \* reconcile calls between their two transactions

vars == <<journal, owner, checkpoints, latches, verifying>>

-----------------------------------------------------------------------------

NoReceipt == "none"

Terminal == {"completed", "failed"}

States == {"intent", "uncertain"} \cup Terminal

Row == [op: Op, key: Key, worker: Worker, epoch: Epoch, state: States,
        receipt: Receipt \cup {NoReceipt},
        detail: {"", "marked", "restart", "verified"}]

OwnerRow == [epoch: Epoch \cup {0}, fenced: BOOLEAN]

Verdict == {"pending", "abandoned", "none"} \cup Terminal

Verification == [proc: Proc, index: Nat, snapshot: Row, epoch: Epoch,
                 verdict: Verdict]

TypeOK ==
    /\ journal \in Seq(Row)
    /\ owner \in [Worker -> OwnerRow]
    /\ DOMAIN checkpoints \subseteq Nat
    /\ checkpoints \in [DOMAIN checkpoints -> Nat]
    /\ latches \subseteq Proc
    /\ verifying \subseteq Verification

Init ==
    /\ journal = <<>>
    /\ owner = [w \in Worker |-> [epoch |-> 0, fenced |-> FALSE]]
    /\ checkpoints = [g \in {} |-> 0]
    /\ latches = {}
    /\ verifying = {}

-----------------------------------------------------------------------------
(***************************************************************************)
(* Reads.                                                                  *)
(***************************************************************************)

IsUnresolved(row) == row.state \in {"intent", "uncertain"}

Unresolved(j) == {i \in DOMAIN j : IsUnresolved(j[i])}

\* Mutant: the high-water of the whole journal, settled or not.
HighWaterOfAll(j, n) == n = Len(j)

\* _settled_high_water_in returns n: the prefix up to the first row without a
\* definitive outcome, or the whole journal.
SettledHighWater(j, n) ==
    /\ n \in 0..Len(j)
    /\ \A i \in 1..n : ~IsUnresolved(j[i])
    /\ n < Len(j) => IsUnresolved(j[n + 1])

\* ORDER BY generation DESC LIMIT 1
LatestGeneration ==
    CHOOSE g \in DOMAIN checkpoints : \A h \in DOMAIN checkpoints : h <= g

\* restore_checkpoint returns: no checkpoint, or one not ahead of a journal
\* whose every effect is settled.
RestoreAccepted ==
    \/ DOMAIN checkpoints = {}
    \/ /\ checkpoints[LatestGeneration] <= Len(journal)
       /\ Unresolved(journal) = {}

HasOwner(w) == owner[w].epoch # 0

-----------------------------------------------------------------------------
(***************************************************************************)
(* Parts of several operations.                                            *)
(***************************************************************************)

Fenced(o) == [w \in Worker |-> [o[w] EXCEPT !.fenced = (@ \/ o[w].epoch # 0)]]

Unfenced(o) == [w \in Worker |-> [o[w] EXCEPT !.fenced = FALSE]]

\* Mutants: a stale epoch is not refused; only the epoch is looked at.
EnsureOwnerAnyEpoch(p, w, e) ==
    /\ p \notin latches
    /\ IF HasOwner(w) THEN ~owner[w].fenced ELSE \A v \in Worker : ~owner[v].fenced

EnsureOwnerEpochOnly(p, w, e) == owner[w].epoch <= e

\* _ensure_owner_in_transaction does not raise.
EnsureOwner(p, w, e) ==
    /\ p \notin latches
    /\ IF HasOwner(w)
       THEN /\ owner[w].epoch <= e
            /\ ~owner[w].fenced
            /\ owner[w].epoch < e => Unresolved(journal) = {}
       ELSE \A v \in Worker : ~owner[v].fenced

\* _require_current_owner_in_transaction does not raise.
RequireCurrentOwner(w, e) == owner[w].epoch = e /\ ~owner[w].fenced

\* _commit_settled_run, after the writes of its caller's transaction.
CommitSettledRun(p, j) ==
    IF p \in latches /\ Unresolved(j) = {}
    THEN owner' = Unfenced(owner) /\ latches' = latches \ {p}
    ELSE UNCHANGED <<owner, latches>>

\* _append_checkpoint_in_transaction over the journal j: the next generation
\* binds the settled prefix and the oldest generations are deleted.
AppendGeneration(j) ==
    LET gen  == IF DOMAIN checkpoints = {} THEN 0 ELSE LatestGeneration + 1
        kept == {g \in DOMAIN checkpoints : g > gen - Retention}
    IN  /\ gen <= MaxGeneration
        /\ \E n \in 0..Len(j) :
              /\ SettledHighWater(j, n)
              /\ DOMAIN checkpoints # {} => n >= checkpoints[LatestGeneration]
              /\ checkpoints' = [g \in kept \cup {gen} |->
                                    IF g = gen THEN n ELSE checkpoints[g]]

\* _apply_outcome_in_transaction accepts outcome (s, r) for row i: a first
\* outcome of a bare intent, or the exact replay of a definitive one.  A late
\* receipt for an uncertain effect and a conflicting one are refused.
AcceptsOutcome(i, s, r) ==
    \/ journal[i].state = "intent"
    \/ journal[i].state = s /\ journal[i].receipt = r

WithOutcome(i, s, r) ==
    IF journal[i].state = "intent"
    THEN [journal EXCEPT ![i].state = s, ![i].receipt = r]
    ELSE journal

-----------------------------------------------------------------------------
(***************************************************************************)
(* Operations.                                                             *)
(***************************************************************************)

\* Mutant: begin does not look for the idempotency key.
BeginAnyKey(p, w, e, op, key) ==
    /\ EnsureOwner(p, w, e)
    /\ \A i \in DOMAIN journal : journal[i].op # op
    /\ owner' = [owner EXCEPT ![w].epoch = e]
    /\ journal' = Append(journal,
                         [op |-> op, key |-> key, worker |-> w, epoch |-> e,
                          state |-> "intent", receipt |-> NoReceipt,
                          detail |-> ""])
    /\ UNCHANGED <<checkpoints, latches, verifying>>

\* begin admits a new intent.  (With an operation or a key already in the
\* run it returns the same record as a replay, or raises: no step.)
Begin(p, w, e, op, key) ==
    /\ EnsureOwner(p, w, e)
    /\ \A i \in DOMAIN journal : journal[i].op # op /\ journal[i].key # key
    /\ owner' = [owner EXCEPT ![w].epoch = e]
    /\ journal' = Append(journal,
                         [op |-> op, key |-> key, worker |-> w, epoch |-> e,
                          state |-> "intent", receipt |-> NoReceipt,
                          detail |-> ""])
    /\ UNCHANGED <<checkpoints, latches, verifying>>

\* Mutant: a claim at a newer epoch clears recovery_required.
ClaimLiftsFence(w, e) ==
    /\ owner[w].epoch <= e
    /\ owner' = [owner EXCEPT ![w] = [epoch |-> e, fenced |-> FALSE]]
    /\ UNCHANGED <<journal, checkpoints, latches, verifying>>

ClaimOwner(w, e) ==
    /\ owner[w].epoch <= e
    /\ owner' = [owner EXCEPT ![w].epoch = e]
    /\ UNCHANGED <<journal, checkpoints, latches, verifying>>

\* Mutant: a late receipt settles an uncertain effect.
OutcomeOfUncertain(p, i, s, r) ==
    /\ IsUnresolved(journal[i])
    /\ journal' = [journal EXCEPT ![i].state = s, ![i].receipt = r]
    /\ CommitSettledRun(p, journal')
    /\ UNCHANGED <<checkpoints, verifying>>

\* outcome.  Its callers pass only definitive states.
Outcome(p, i, s, r) ==
    /\ AcceptsOutcome(i, s, r)
    /\ journal' = WithOutcome(i, s, r)
    /\ CommitSettledRun(p, WithOutcome(i, s, r))
    /\ UNCHANGED <<checkpoints, verifying>>

\* outcome_and_checkpoint: one transaction; a replay appends no generation.
OutcomeAndCheckpoint(p, i, s, r) ==
    /\ AcceptsOutcome(i, s, r)
    /\ RequireCurrentOwner(journal[i].worker, journal[i].epoch)
    /\ journal' = WithOutcome(i, s, r)
    /\ IF journal[i].state = "intent"
       THEN AppendGeneration(WithOutcome(i, s, r))
       ELSE UNCHANGED checkpoints
    /\ CommitSettledRun(p, WithOutcome(i, s, r))
    /\ UNCHANGED verifying

AppendCheckpoint(w, e) ==
    /\ HasOwner(w)
    /\ RequireCurrentOwner(w, e)
    /\ AppendGeneration(journal)
    /\ UNCHANGED <<journal, owner, latches, verifying>>

\* Mutant: a definitive row is downgraded.
RecordUncertaintyOfAny(p, i) ==
    /\ journal' = [journal EXCEPT ![i].state = "uncertain",
                                  ![i].detail = "marked"]
    /\ owner' = Fenced(owner)
    /\ latches' = latches \cup {p}
    /\ UNCHANGED <<checkpoints, verifying>>

\* uncertain and latch_uncertainty are both _record_uncertainty.  For a
\* definitive row the call leaves the latch as it found it: no step.
RecordUncertainty(p, i) ==
    /\ IsUnresolved(journal[i])
    /\ journal' = [journal EXCEPT ![i].state = "uncertain",
                                  ![i].detail = "marked"]
    /\ owner' = Fenced(owner)
    /\ latches' = latches \cup {p}
    /\ UNCHANGED <<checkpoints, verifying>>

\* The same call when the storage fails: the latch was added first and stays.
RecordUncertaintyFails(p) ==
    /\ latches' = latches \cup {p}
    /\ UNCHANGED <<journal, owner, checkpoints, verifying>>

\* The rows recover hands to reconciliation: already uncertain, or admitted by
\* an owner that is not confirmed live at that very epoch (live[w] = 0: not).
Orphaned(live) ==
    {i \in Unresolved(journal) : \/ journal[i].state = "uncertain"
                                 \/ live[journal[i].worker] # journal[i].epoch}

\* recover, when it decides "reconcile".  ("reattach" and "resume" write
\* nothing, and more than a page of unresolved rows raises.)
Recover(p, live) ==
    /\ Cardinality(Unresolved(journal)) <= PageBound
    /\ Orphaned(live) # {}
    /\ journal' = [i \in DOMAIN journal |->
                      IF i \in Orphaned(live)
                      THEN [journal[i] EXCEPT !.state = "uncertain",
                                              !.detail = "restart"]
                      ELSE journal[i]]
    /\ owner' = Fenced(owner)
    /\ latches' = latches \cup {p}
    /\ UNCHANGED <<checkpoints, verifying>>

-----------------------------------------------------------------------------
(***************************************************************************)
(* reconcile: snapshot the row, run the verifier on its own thread without *)
(* the lock, then apply its proof in a second transaction.                 *)
(***************************************************************************)

HoldsSlot(v) == v.verdict \in {"pending", "abandoned"}

SlotFree(p) ==
    Cardinality({v \in verifying : v.proc = p /\ HoldsSlot(v)}) < VerifierSlots

ReconcileSnapshot(p, i, e) ==
    /\ i \in DOMAIN journal
    /\ IsUnresolved(journal[i])
    /\ journal[i].op \in Verified
    /\ SlotFree(p)
    /\ Cardinality(verifying) < MaxCalls
    /\ verifying' = verifying \cup
           {[proc |-> p, index |-> i, snapshot |-> journal[i], epoch |-> e,
             verdict |-> "pending"]}
    /\ UNCHANGED <<journal, owner, checkpoints, latches>>

\* The verifier returns a proof (completed, failed) or none, or raises (none).
Verify(v, verdict) ==
    /\ v.verdict = "pending"
    /\ verifying' = (verifying \ {v}) \cup {[v EXCEPT !.verdict = verdict]}
    /\ UNCHANGED <<journal, owner, checkpoints, latches>>

\* Mutant: the join has no timeout.
VerifierNeverTimesOut(v) == FALSE /\ Verify(v, "abandoned")

\* The join times out: the caller raises and the thread keeps the slot.
VerifierTimeout(v) == Verify(v, "abandoned")

VerifierExits(v) ==
    /\ v.verdict = "abandoned"
    /\ verifying' = verifying \ {v}
    /\ UNCHANGED <<journal, owner, checkpoints, latches>>

\* Mutant: no proof counts as one.
ProofAppliesToAnyVerdict(v) ==
    /\ IsUnresolved(journal[v.index])
    /\ journal[v.index] = v.snapshot
    /\ owner[v.snapshot.worker].epoch = v.epoch

ProofApplies(v) ==
    /\ v.verdict \in Terminal
    /\ IsUnresolved(journal[v.index])
    /\ journal[v.index] = v.snapshot
    /\ owner[v.snapshot.worker].epoch = v.epoch

WithProof(v, r) ==
    [journal EXCEPT ![v.index].state = v.verdict,
                    ![v.index].receipt = r,
                    ![v.index].detail = "verified"]

\* Mutant: the proof of the last unresolved effect leaves the fence up.
ApplyProofKeepsFence(v, r) ==
    /\ ProofApplies(v)
    /\ journal' = WithProof(v, r)
    /\ IF Unresolved(WithProof(v, r)) = {}
       THEN latches' = latches \ {v.proc}
       ELSE UNCHANGED latches
    /\ verifying' = verifying \ {v}
    /\ UNCHANGED <<owner, checkpoints>>

ApplyProof(v, r) ==
    /\ ProofApplies(v)
    /\ journal' = WithProof(v, r)
    /\ IF Unresolved(WithProof(v, r)) = {}
       THEN owner' = Unfenced(owner) /\ latches' = latches \ {v.proc}
       ELSE UNCHANGED <<owner, latches>>
    /\ verifying' = verifying \ {v}
    /\ UNCHANGED checkpoints

\* The row became definitive or changed, the epoch is stale, or no proof.
RefuseProof(v) ==
    /\ ~HoldsSlot(v)
    /\ ~ProofApplies(v)
    /\ verifying' = verifying \ {v}
    /\ UNCHANGED <<journal, owner, checkpoints, latches>>

-----------------------------------------------------------------------------

\* A process dies: its latch and its reconcile calls die with it.
Crash(p) ==
    /\ latches' = latches \ {p}
    /\ verifying' = {v \in verifying : v.proc # p}
    /\ UNCHANGED <<journal, owner, checkpoints>>

OutcomeStep(p, i) ==
    \E s \in Terminal, r \in Receipt :
        Outcome(p, i, s, r) \/ OutcomeAndCheckpoint(p, i, s, r)

ReconcileStep(v) ==
    \/ \E verdict \in Terminal \cup {"none"} : Verify(v, verdict)
    \/ VerifierTimeout(v)
    \/ VerifierExits(v)
    \/ \E r \in Receipt : ApplyProof(v, r)
    \/ RefuseProof(v)

Next ==
    \/ \E p \in Proc, w \in Worker, e \in Epoch, op \in Op, key \in Key :
           Begin(p, w, e, op, key)
    \/ \E w \in Worker, e \in Epoch : ClaimOwner(w, e) \/ AppendCheckpoint(w, e)
    \/ \E p \in Proc, i \in DOMAIN journal :
           OutcomeStep(p, i) \/ RecordUncertainty(p, i)
    \/ \E p \in Proc, i \in DOMAIN journal, e \in Epoch : ReconcileSnapshot(p, i, e)
    \/ \E p \in Proc : RecordUncertaintyFails(p) \/ Crash(p)
    \/ \E p \in Proc, live \in [Worker -> Epoch \cup {0}] : Recover(p, live)
    \/ \E v \in verifying : ReconcileStep(v)

Spec == Init /\ [][Next]_vars

-----------------------------------------------------------------------------
(***************************************************************************)
(* Properties.                                                             *)
(***************************************************************************)

\* A retained checkpoint (effect_checkpoint) never counts an effect without a
\* definitive outcome and is never ahead of the journal, whatever was marked
\* uncertain, recovered or reconciled around it.  So restore_checkpoint never
\* meets one ahead of the journal, and the settled high-water never moves back.
CheckpointsSettled ==
    \A g \in DOMAIN checkpoints :
        /\ checkpoints[g] <= Len(journal)
        /\ \A i \in 1..checkpoints[g] : journal[i].state \in Terminal

\* While an effect is uncertain, the worker that admitted it is fenced in the
\* durable owner table: no epoch advance (claim_owner), crash, lost latch, late
\* outcome or reconciliation of a sibling effect lifts that fence.
UncertainFenced ==
    \A i \in DOMAIN journal :
        journal[i].state = "uncertain" => owner[journal[i].worker].fenced

\* A worker admits effects in the order of its epochs: once begin or
\* claim_owner has seen an epoch, a binding at an older one admits nothing.
EpochsOrdered ==
    \A i \in DOMAIN journal :
        /\ journal[i].epoch <= owner[journal[i].worker].epoch
        /\ \A k \in 1..i : journal[k].worker = journal[i].worker
                               => journal[k].epoch <= journal[i].epoch

\* One row per operation and per idempotency key, in every interleaving.
IdentityUnique ==
    \A i, k \in DOMAIN journal :
        i # k => journal[i].op # journal[k].op /\ journal[i].key # journal[k].key

\* A definitive outcome is never replaced, downgraded or dropped, by a late
\* receipt, a failed acknowledgement, recovery or a stale proof.
TerminalStep ==
    \A i \in DOMAIN journal :
        journal[i].state \in Terminal => /\ i \in DOMAIN journal'
                                         /\ journal'[i] = journal[i]
TerminalImmutable == [][TerminalStep]_vars

\* An uncertain effect is settled only by a verifier's proof: never by the late
\* receipt of the worker that ran it.
UncertainStep ==
    \A i \in DOMAIN journal :
        journal[i].state = "uncertain" =>
            journal'[i].state = "uncertain" \/ journal'[i].detail = "verified"
UncertainNeedsProof == [][UncertainStep]_vars

\* A worker with an uncertain effect in the run is admitted nothing new.
AdmissionStep ==
    \A n \in DOMAIN journal' \ DOMAIN journal :
        \A i \in DOMAIN journal :
            journal[i].worker = journal'[n].worker => journal[i].state # "uncertain"
NoAdmissionOverUncertainty == [][AdmissionStep]_vars
=============================================================================
