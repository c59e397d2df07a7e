------------------------ MODULE WorkerSafety_proofs -------------------------
(***************************************************************************)
(* Proofs about what the callers of the journal may rely on, for every     *)
(* value of the constants: completed effects took place, and a worker      *)
(* under the run lease is not superseded.  Each rests on WInv and on an    *)
(* invariant of its own.                                                   *)
(***************************************************************************)
EXTENDS WorkerEffects_proofs

-----------------------------------------------------------------------------
(***************************************************************************)
(* A completed effect took place.  The evidence is carried by the call     *)
(* that has its result and by the reconcile call that has its verdict.     *)
(***************************************************************************)

Succeeded(c) == c.pc = "returned" /\ c.result = "completed"

CallsTrue == \A t \in Thread : Succeeded(call[t]) => call[t].op \in applied

VerdictsTrue ==
    \A v \in verifying : v.verdict = "completed" => v.snapshot.op \in applied

TookPlace == CompletedTookPlace /\ CallsTrue /\ VerdictsTrue

\* No row becomes completed.
NoNewCompleted ==
    \A i \in DOMAIN journal' : journal'[i].state = "completed" =>
        i \in DOMAIN journal /\ journal[i].state = "completed"

\* No call gets a result, and no reconcile call a verdict.
NoNewResult ==
    \A t \in Thread : Succeeded(call'[t]) => call'[t] = call[t]

\* The row that an outcome or a proof settles, and every other row.
LEMMA SettledRow ==
    ASSUME TypeOK, NEW i \in DOMAIN journal,
           NEW s, NEW r, NEW d,
           journal' = [journal EXCEPT ![i].state = s, ![i].receipt = r, ![i].detail = d]
    PROVE  /\ DOMAIN journal' = DOMAIN journal
           /\ \A k \in DOMAIN journal : k # i => journal'[k] = journal[k]
           /\ journal'[i].state = s /\ journal'[i].op = journal[i].op
           /\ journal'[i].epoch = journal[i].epoch
<1>1. journal[i] \in Row
  BY DEF TypeOK
<1>2. journal'[i] = [journal[i] EXCEPT !.state = s, !.receipt = r, !.detail = d]
  BY Zenon
<1>. QED
  BY <1>1, <1>2, Zenon DEF Row

\* A call ends or goes on to its next step, and every other call stays.
LEMMA CallChange ==
    ASSUME WInv, NEW t \in Thread, call[t].pc # "idle",
           NEW pc \in {"raised", "latching"}, Finish(t) \/ Goto(t, pc)
    PROVE  /\ \A u \in Thread : u # t => call'[u] = call[u]
           /\ \/ call'[t] = NoCall
              \/ /\ call'[t] # NoCall /\ call'[t].pc = pc
                 /\ call'[t].proc = call[t].proc /\ call'[t].worker = call[t].worker
                 /\ call'[t].op = call[t].op /\ call'[t].index = call[t].index
           /\ call'[t].pc \in {"idle", pc}
<1>1. call \in [Thread -> CallState]
  BY DEF WInv, CallInv, WTypeOK
<1>2. call[t] \in [pc: {"looked", "admitted", "returned", "raised", "latching"},
                  proc: Proc, worker: Worker, op: Op, key: Key, index: Nat,
                  result: Terminal]
  BY CallAt DEF CallState
<1>3. CASE Finish(t)
  BY <1>1, <1>3, Zenon DEF Finish, NoCall
<1>4. CASE Goto(t, pc)
  <2>. DEFINE new == [call[t] EXCEPT !.pc = pc]
  <2>1. call' = [call EXCEPT ![t] = new]
    BY <1>4, Zenon DEF Goto
  <2>2. /\ new.pc = pc /\ new.proc = call[t].proc /\ new.worker = call[t].worker
        /\ new.op = call[t].op /\ new.index = call[t].index
    BY <1>2, Zenon
  <2>3. new # NoCall
    BY <2>2, Zenon DEF NoCall
  <2>. HIDE DEF new
  <2>. QED
    BY <1>1, <2>1, <2>2, <2>3, Zenon
<1>. QED
  BY <1>3, <1>4, SMTT(30)

\* Rows may become uncertain; nothing else happens to them.
Marks ==
    /\ DOMAIN journal' = DOMAIN journal
    /\ \A k \in DOMAIN journal :
          \/ journal'[k] = journal[k]
          \/ /\ journal'[k].state = "uncertain"
             /\ IsUnresolved(journal[k])
             /\ journal'[k].op = journal[k].op
             /\ journal'[k].epoch = journal[k].epoch

\* _record_uncertainty marks its row.
LEMMA RecordMarks ==
    ASSUME TypeOK, NEW p, NEW i \in DOMAIN journal, RecordUncertainty(p, i)
    PROVE  Marks /\ journal'[i].state = "uncertain"
<1>1. journal[i] \in Row
  BY SMTT(30) DEF TypeOK
<1>2. journal'[i] = [journal[i] EXCEPT !.state = "uncertain", !.detail = "marked"]
  BY Zenon DEF RecordUncertainty
<1>3. /\ journal'[i].state = "uncertain"
      /\ journal'[i].op = journal[i].op /\ journal'[i].epoch = journal[i].epoch
  BY <1>1, <1>2, Zenon DEF Row
<1>4. /\ IsUnresolved(journal[i]) /\ DOMAIN journal' = DOMAIN journal
      /\ \A k \in DOMAIN journal : k # i => journal'[k] = journal[k]
  BY SMTT(30) DEF RecordUncertainty
<1>. QED
  BY <1>3, <1>4 DEF Marks

\* recover, without a liveness map, marks every unresolved row.
LEMMA RecoverMarks ==
    ASSUME TypeOK, NEW p, Recover(p, NoneLive)
    PROVE  /\ Marks
           /\ \A k \in DOMAIN journal : journal'[k].state # "intent"
           /\ \E k \in DOMAIN journal : journal'[k].state = "uncertain"
<1>1. DOMAIN journal' = DOMAIN journal
  BY Zenon DEF Recover
<1>2. ASSUME NEW k \in DOMAIN journal
      PROVE  /\ IsUnresolved(journal[k]) =>
                  /\ journal'[k].state = "uncertain"
                  /\ journal'[k].op = journal[k].op
                  /\ journal'[k].epoch = journal[k].epoch
             /\ ~IsUnresolved(journal[k]) => journal'[k] = journal[k]
  <2>1. journal[k] \in Row
    BY DEF TypeOK
  <2>2. k \in Orphaned(NoneLive) <=> IsUnresolved(journal[k])
    BY <2>1, EpochAssumption, Zenon DEF Orphaned, Unresolved, NoneLive, Row, IsUnresolved
  <2>3. journal'[k] = IF k \in Orphaned(NoneLive)
                      THEN [journal[k] EXCEPT !.state = "uncertain", !.detail = "restart"]
                      ELSE journal[k]
    BY Zenon DEF Recover
  <2>. QED
    BY <2>1, <2>2, <2>3, Zenon DEF Row
<1>3. Marks
  BY <1>1, <1>2 DEF Marks
<1>4. \A k \in DOMAIN journal : journal'[k].state # "intent"
  BY <1>2 DEF IsUnresolved
<1>5. PICK k \in Orphaned(NoneLive) : TRUE
  BY Zenon DEF Recover
<1>6. k \in DOMAIN journal /\ IsUnresolved(journal[k])
  BY <1>5, Zenon DEF Orphaned, Unresolved
<1>. QED
  BY <1>2, <1>3, <1>4, <1>6

\* The steps of a recovery leave processes and calls alone; all but two leave
\* the rows and the reconcile calls alone.
LEMMA RecoveryFrame ==
    ASSUME NEW p, NEW w, RecoveryStep(p, w)
    PROVE  /\ UNCHANGED <<epochOf, clock, hosts, call, invoked, applied>>
           /\ \/ UNCHANGED <<journal, verifying>>
              \/ RecoverOrphans(p, w)
              \/ OfferIntent(p, w)
<1>1. CASE TakeRunLease(p, w) \/ ProbePeers(p, w) \/ PassRefused(p, w)
  BY <1>1, Zenon DEF TakeRunLease, ProbePeers, PassRefused, vars, world
<1>2. CASE Claim(p, w)
  BY <1>2, Zenon DEF Claim, ClaimOwner, world
<1>3. CASE RecoverNothing(p, w) \/ SkipIntent(p, w)
  BY <1>3, Zenon DEF RecoverNothing, SkipIntent, vars, world
<1>4. CASE RecoverRaises(p, w)
  BY <1>4, Zenon DEF RecoverRaises, RecordUncertaintyFails, vars, world
<1>5. CASE ReconcileEnds(p, w) \/ Restore(p, w)
  BY <1>5, Zenon DEF ReconcileEnds, Restore, vars, world
<1>6. CASE RecoverOrphans(p, w) \/ OfferIntent(p, w)
  BY <1>6, Zenon DEF RecoverOrphans, OfferIntent, world
<1>. QED
  BY <1>1, <1>2, <1>3, <1>4, <1>5, <1>6, Zenon DEF RecoveryStep

\* The steps of a call leave the other calls, the processes and their
\* recoveries alone.
LEMMA CallFrame ==
    ASSUME WInv, NEW t \in Thread, CallStep(t)
    PROVE  /\ \A u \in Thread : u # t => call'[u] = call[u]
           /\ UNCHANGED <<epochOf, clock, hosts, recovery, permanent, ready, verifying>>
           /\ applied \subseteq applied'
<1>. USE DEF WInv, CallInv, WTypeOK
<1>1. CASE \E x \in ready, op \in Op, key \in Key : LookUp(t, x[1], x[2], op, key)
  BY <1>1 DEF LookUp, vars, world
<1>2. CASE Admit(t)
  <2>1. UNCHANGED <<epochOf, clock, hosts, recovery, permanent, ready, verifying, applied>>
    BY <1>2, Zenon DEF Admit, Begin, world
  <2>2. \A u \in Thread : u # t => call'[u] = call[u]
    BY <1>2 DEF Admit
  <2>. QED
    BY <2>1, <2>2, Zenon
<1>3. CASE AdmitReplayed(t) \/ AdmitRefused(t)
  BY <1>3 DEF AdmitReplayed, AdmitRefused, Finish, vars, world
<1>4. CASE Invoke(t)
  BY <1>4, Zenon DEF Invoke, vars
<1>5. CASE InvokeRaises(t)
  BY <1>5 DEF InvokeRaises, Goto, vars
<1>6. CASE Publish(t) \/ PublishFails(t)
  <2>1. Finish(t) \/ Goto(t, "raised")
    BY <1>6, Zenon DEF Publish, PublishFails
  <2>2. UNCHANGED <<epochOf, clock, hosts, recovery, permanent, ready, applied>>
    BY <1>6, Zenon DEF Publish, PublishFails, world
  <2>3. UNCHANGED verifying
    BY <1>6, Zenon DEF Publish, PublishFails, Outcome, OutcomeAndCheckpoint, vars
  <2>4. \A u \in Thread : u # t => call'[u] = call[u]
    BY <2>1, Zenon DEF Finish, Goto
  <2>. QED
    BY <2>2, <2>3, <2>4, Zenon
<1>7. CASE MarkUncertain(t)
  BY <1>7 DEF MarkUncertain, Uncertainty, RecordUncertainty,
                        RecordUncertaintyFails, Finish, Goto, vars, world
<1>8. CASE LatchUncertainty(t)
  BY <1>8 DEF LatchUncertainty, Uncertainty, RecordUncertainty,
                        RecordUncertaintyFails, Finish, vars, world
<1>. QED
  BY <1>1, <1>2, <1>3, <1>4, <1>5, <1>6, <1>7, <1>8, Zenon DEF CallStep

\* begin_request admits call c of thread t: what it found, and the row n that it
\* appends.
Admitted(t, c, n) ==
    /\ c.pc = "looked" /\ c.proc \in Proc /\ c.worker \in Worker /\ Up(c.proc)
    /\ EnsureOwner(c.proc, c.worker, epochOf[c.proc])
    /\ DOMAIN journal' = DOMAIN journal \cup {n}
    /\ n \notin DOMAIN journal
    /\ \A i \in DOMAIN journal : journal'[i] = journal[i]
    /\ journal'[n].state = "intent"
    /\ journal'[n].epoch = epochOf[c.proc]
    /\ \A w \in Worker : /\ owner'[w].fenced = owner[w].fenced
                         /\ w # c.worker => owner'[w].epoch = owner[w].epoch
    /\ owner'[c.worker].epoch = epochOf[c.proc]
    /\ latches' = latches
    /\ call'[t] # NoCall /\ call'[t].pc = "admitted" /\ call'[t].index = n
    /\ call'[t].proc = c.proc /\ call'[t].worker = c.worker

\* run_effect's admit appends one bare intent of the calling process.
LEMMA AdmitAppends ==
    ASSUME WInv, NEW t \in Thread, Admit(t)
    PROVE  Admitted(t, call[t], Len(journal) + 1)
<1>. DEFINE c == call[t]
            n == Len(journal) + 1
<1>. DEFINE new == [op |-> c.op, key |-> c.key, worker |-> c.worker,
                    epoch |-> epochOf[c.proc], state |-> "intent",
                    receipt |-> NoReceipt, detail |-> ""]
<1>0. /\ c.pc = "looked"
      /\ Begin(c.proc, c.worker, epochOf[c.proc], c.op, c.key)
  BY DEF Admit
<1>1. /\ c.pc = "looked"
      /\ EnsureOwner(c.proc, c.worker, epochOf[c.proc])
      /\ owner' = [owner EXCEPT ![c.worker].epoch = epochOf[c.proc]]
      /\ journal' = Append(journal, new)
      /\ latches' = latches
  BY <1>0, Zenon DEF Begin
<1>2. /\ c.proc \in Proc /\ c.worker \in Worker /\ Up(c.proc)
      /\ c \in CallState /\ c # NoCall
  <2>1. call[t].pc # "idle"
    BY <1>0, Zenon
  <2>. QED
    BY <2>1, CallAt, Zenon
<1>3. epochOf[c.proc] \in Epoch
  BY <1>2, EpochOfUp DEF WInv, CallInv
<1>4. /\ new.state = "intent" /\ new.epoch = epochOf[c.proc]
  BY Zenon
<1>. HIDE DEF new
<1>5. /\ DOMAIN journal' = DOMAIN journal \cup {n} /\ n \notin DOMAIN journal
      /\ \A i \in DOMAIN journal : journal'[i] = journal[i]
      /\ journal'[n] = new
  <2>1. journal \in Seq(Row)
    BY DEF WInv, IInv, TypeOK
  <2>. QED
    BY <1>1, <2>1, SMTT(30)
<1>6. /\ \A w \in Worker : /\ owner'[w].fenced = owner[w].fenced
                           /\ w # c.worker => owner'[w].epoch = owner[w].epoch
      /\ owner'[c.worker].epoch = epochOf[c.proc]
  <2>1. owner \in [Worker -> [epoch: Epoch \cup {0}, fenced: BOOLEAN]]
    BY DEF WInv, IInv, TypeOK, OwnerRow
  <2>. QED
    BY <1>1, <1>2, <2>1, SMTT(30)
<1>7. /\ call'[t] # NoCall /\ call'[t].pc = "admitted" /\ call'[t].index = n
      /\ call'[t].proc = c.proc /\ call'[t].worker = c.worker
  <2>. DEFINE x == [c EXCEPT !.pc = "admitted", !.index = n]
  <2>1. c \in [pc: {"looked", "admitted", "returned", "raised", "latching"},
              proc: Proc, worker: Worker, op: Op, key: Key, index: Nat,
              result: Terminal]
    BY <1>2 DEF CallState
  <2>2. call'[t] = x
    BY Zenon DEF Admit, WInv, CallInv, WTypeOK
  <2>3. /\ x.pc = "admitted" /\ x.index = n
        /\ x.proc = c.proc /\ x.worker = c.worker
    BY <2>1
  <2>4. x # NoCall
    BY <2>3, Zenon DEF NoCall
  <2>. QED
    BY <2>2, <2>3, <2>4
<1>. QED
  BY <1>1, <1>2, <1>4, <1>5, <1>6, <1>7, Zenon DEF Admitted

\* Every step keeps it.
LEMMA TookPlaceInductive == WInv /\ TookPlace /\ [WNext]_wvars => TookPlace'

\* A step that adds no evidence keeps the invariant.
<1>NoNewEvidence.
    ASSUME WInv, TookPlace, JournalGrows, NoNewCompleted, NoNewResult,
           \A v \in verifying' : v.verdict = "completed" => v \in verifying,
           applied \subseteq applied'
    PROVE  TookPlace'
  <2>. USE <1>NoNewEvidence
  <2>1. CompletedTookPlace'
    BY DEF TookPlace, CompletedTookPlace, NoNewCompleted, JournalGrows
  <2>2. CallsTrue'
    BY DEF TookPlace, CallsTrue, NoNewResult
  <2>3. VerdictsTrue'
    BY DEF TookPlace, VerdictsTrue
  <2>. QED
    BY <2>1, <2>2, <2>3 DEF TookPlace

\* Publishing the result of a call records what its invocation did.
<1>PublishTookPlace.
    ASSUME WInv, TookPlace, JournalGrows, NEW t \in Thread, Publish(t)
    PROVE  TookPlace'
  <2>. USE <1>PublishTookPlace
  <2>. DEFINE c == call[t]
              i == c.index
  <2>1. /\ c.pc = "returned"
        /\ UNCHANGED <<verifying, applied>>
        /\ Finish(t) \/ Goto(t, "raised")
    BY Zenon DEF Publish, Outcome, OutcomeAndCheckpoint, world
  <2>2. c \in CallState /\ i \in DOMAIN journal /\ journal[i].op = c.op
    BY <2>1, CallAt, Zenon DEF CallRow
  <2>3. \E r \in Receipt : journal' = WithOutcome(i, c.result, r)
    BY Zenon DEF Publish, Outcome, OutcomeAndCheckpoint
  <2>4. ASSUME NEW k \in DOMAIN journal', journal'[k].state = "completed"
        PROVE  journal'[k].op \in applied
    <3>1. CASE journal' = journal
      BY <2>4, <3>1 DEF TookPlace, CompletedTookPlace
    <3>2. CASE journal' # journal
      <4>1. PICK r \in Receipt : journal' = [journal EXCEPT ![i].state = c.result, ![i].receipt = r]
        BY <2>3, <3>2, SMTT(30) DEF WithOutcome
      <4>2. journal[i] \in Row
        BY <2>2 DEF WInv, IInv, TypeOK
      <4>3. journal'[i] = [journal[i] EXCEPT !.state = c.result, !.receipt = r]
        BY <2>2, <4>1, Zenon
      <4>4. journal'[i].state = c.result /\ journal'[i].op = c.op
        BY <2>2, <4>2, <4>3, Zenon DEF Row
      <4>5. CASE k = i
        BY <2>1, <2>4, <4>4, <4>5, Zenon DEF TookPlace, CallsTrue, Succeeded
      <4>6. CASE k # i
        <5>1. k \in DOMAIN journal /\ journal'[k] = journal[k]
          BY <4>1, <4>6, SMTT(30)
        <5>. QED
          BY <2>4, <5>1, Zenon DEF TookPlace, CompletedTookPlace
      <4>. QED
        BY <4>5, <4>6, SMTT(30)
    <3>. QED
      BY <3>1, <3>2, Zenon
  <2>5. CompletedTookPlace'
    BY <2>1, <2>4, Zenon DEF CompletedTookPlace
  <2>6. CallsTrue'
    <3>1. /\ \A u \in Thread : u # t => call'[u] = call[u]
          /\ call'[t].pc \in {"idle", "raised"}
      BY <2>1, CallChange, SMTT(30)
    <3>. QED
      BY <2>1, <3>1, Zenon DEF TookPlace, CallsTrue, Succeeded
  <2>7. VerdictsTrue'
    BY <2>1, Zenon DEF TookPlace, VerdictsTrue
  <2>. QED
    BY <2>5, <2>6, <2>7, SMTT(30) DEF TookPlace

\* A proof that applies is about the very row it settles.
<1>ProofTookPlace.
    ASSUME WInv, TookPlace, NEW v \in verifying, NEW r \in Receipt,
           ApplyProof(v, r), UNCHANGED <<call, world>>
    PROVE  TookPlace'
  <2>. USE <1>ProofTookPlace
  <2>1. /\ v.verdict \in Terminal /\ journal[v.index] = v.snapshot
        /\ journal' = WithProof(v, r) /\ verifying' = verifying \ {v}
    BY DEF ApplyProof, ProofApplies
  <2>2. v.index \in DOMAIN journal /\ TypeOK
    BY Zenon DEF WInv, IInv, VerifyingRows
  <2>3. /\ DOMAIN journal' = DOMAIN journal
        /\ \A k \in DOMAIN journal : k # v.index => journal'[k] = journal[k]
        /\ journal'[v.index].state = v.verdict
        /\ journal'[v.index].op = v.snapshot.op
    BY <2>1, <2>2, SettledRow, ZenonT(40) DEF WithProof
  <2>4. CompletedTookPlace'
    BY <2>3 DEF TookPlace, CompletedTookPlace, VerdictsTrue, world
  <2>5. CallsTrue' /\ VerdictsTrue'
    BY <2>1, Zenon DEF TookPlace, CallsTrue, VerdictsTrue, Succeeded, world
  <2>. QED
    BY <2>4, <2>5 DEF TookPlace

\* Marking completes nothing.
<1>MarksComplete.
    ASSUME Marks
    PROVE  NoNewCompleted
  BY <1>MarksComplete DEF Marks, NoNewCompleted

\* The steps of a recovery bring no evidence.
<1>RecoveryTookPlace.
    ASSUME WInv, TookPlace, JournalGrows, NEW p \in Proc, NEW w \in Worker,
           RecoveryStep(p, w)
    PROVE  TookPlace'
  <2>. USE <1>RecoveryTookPlace
  <2>1. UNCHANGED <<call, applied>>
    BY RecoveryFrame, Zenon
  <2>2. NoNewResult
    BY <2>1, Zenon DEF NoNewResult
  <2>3. CASE UNCHANGED <<journal, verifying>>
    BY <2>1, <2>2, <2>3, <1>NoNewEvidence, SMTT(30) DEF NoNewCompleted
  <2>4. CASE OfferIntent(p, w)
    <3>1. UNCHANGED journal /\ \A v \in verifying' : v.verdict = "completed" => v \in verifying
      BY <2>4 DEF OfferIntent, ReconcileSnapshot
    <3>. QED
      BY <2>1, <2>2, <3>1, <1>NoNewEvidence, Zenon DEF NoNewCompleted
  <2>5. CASE RecoverOrphans(p, w)
    <3>1. Recover(p, NoneLive) /\ UNCHANGED verifying
      BY <2>5, Zenon DEF RecoverOrphans, Recover
    <3>2. NoNewCompleted
      BY <3>1, RecoverMarks, <1>MarksComplete DEF WInv, IInv
    <3>. QED
      BY <2>1, <2>2, <3>1, <3>2, <1>NoNewEvidence, SMTT(30)
  <2>. QED
    BY <2>3, <2>4, <2>5, RecoveryFrame, Zenon

\* A verifier answers completed only for an effect that took place, and its
\* answer is applied to the row it is about.
<1>VerifierTookPlace.
    ASSUME WInv, TookPlace, JournalGrows, NEW v \in verifying,
           VerifierAnswers(v) \/ VerifierStops(v) \/ ReconcileReturns(v)
    PROVE  TookPlace'
  <2>. USE <1>VerifierTookPlace
  <2>1. UNCHANGED <<call, world>>
    BY Zenon DEF VerifierAnswers, VerifierStops, ReconcileReturns, Answered, callers
  <2>2. NoNewResult /\ applied' = applied
    BY <2>1 DEF NoNewResult, world
  <2>3. v \in Verification
    BY SMTT(30) DEF WInv, IInv, TypeOK
  <2>4. CASE \E r \in Receipt : ApplyProof(v, r)
    BY <2>1, <2>4, <1>ProofTookPlace, Zenon
  <2>5. CASE VerifierStops(v) \/ RefuseProof(v) \/ VerifierTimeout(v)
    <3>1. UNCHANGED journal
      BY <2>5, SMTT(30) DEF VerifierStops, VerifierExits, RefuseProof, VerifierTimeout, Verify
    <3>2. \A u \in verifying' : u.verdict = "completed" => u \in verifying
      BY <2>3, <2>5, Zenon
         DEF VerifierStops, VerifierExits, RefuseProof, VerifierTimeout, Verify,
                        Verification
    <3>. QED
      BY <2>2, <3>1, <3>2, <1>NoNewEvidence DEF NoNewCompleted
  <2>6. CASE VerifierAnswers(v)
    <3>1. PICK verdict \in Terminal \cup {"none"} :
             /\ verdict = "completed" => v.snapshot.op \in applied
             /\ Verify(v, verdict)
      BY <2>6, SMTT(30) DEF VerifierAnswers
    <3>. DEFINE nv == [v EXCEPT !.verdict = verdict]
    <3>2. /\ UNCHANGED journal /\ verifying' = (verifying \ {v}) \cup {nv}
          /\ nv.verdict = verdict /\ nv.snapshot = v.snapshot
      BY <2>3, <3>1, Zenon DEF Verify, Verification
    <3>. HIDE DEF nv
    <3>3. CompletedTookPlace' /\ CallsTrue'
      BY <2>1, <2>2, <3>2 DEF TookPlace, CompletedTookPlace, CallsTrue
    <3>4. VerdictsTrue'
      BY <2>2, <3>1, <3>2, SMTT(30) DEF TookPlace, VerdictsTrue
    <3>. QED
      BY <3>3, <3>4 DEF TookPlace
  <2>. QED
    BY <2>4, <2>5, <2>6, Zenon DEF ReconcileReturns

\* What the calls do to the rows when they publish nothing.
<1>CallRowsStay.
    ASSUME WInv, NEW t \in Thread, CallStep(t), ~Publish(t)
    PROVE  NoNewCompleted
  <2>. USE <1>CallRowsStay
  <2>1. CASE UNCHANGED journal
    BY <2>1 DEF NoNewCompleted
  <2>2. CASE Admit(t)
    BY <2>2, AdmitAppends, SMTT(30) DEF Admitted, NoNewCompleted
  <2>3. CASE MarkUncertain(t) \/ LatchUncertainty(t)
    <3>. DEFINE c == call[t]
    <3>1. c.index \in DOMAIN journal
      BY <2>3, CallAt DEF MarkUncertain, LatchUncertainty, CallRow
    <3>2. RecordUncertainty(c.proc, c.index) \/ UNCHANGED journal
      BY <2>3, Zenon DEF MarkUncertain, LatchUncertainty, Uncertainty,
                         RecordUncertaintyFails, vars
    <3>3. TypeOK
      BY Zenon DEF WInv, IInv
    <3>. HIDE DEF c
    <3>. QED
      BY <2>1, <3>1, <3>2, <3>3, RecordMarks, <1>MarksComplete, Zenon
  <2>4. CASE \/ \E x \in ready, op \in Op, key \in Key : LookUp(t, x[1], x[2], op, key)
             \/ AdmitReplayed(t) \/ AdmitRefused(t) \/ Invoke(t) \/ InvokeRaises(t)
             \/ PublishFails(t)
    BY <2>1, <2>4, Zenon DEF LookUp, AdmitReplayed, AdmitRefused, Invoke, InvokeRaises,
                             PublishFails, vars
  <2>. QED
    BY <2>2, <2>3, <2>4, Zenon DEF CallStep

\* The steps of a call: a success is one that took place.
<1>CallTookPlace.
    ASSUME WInv, TookPlace, JournalGrows, NEW t \in Thread, CallStep(t)
    PROVE  TookPlace'
  <2>. USE <1>CallTookPlace
  <2>1. CASE Publish(t)
    BY <2>1, <1>PublishTookPlace
  <2>2. ASSUME ~Publish(t), Succeeded(call'[t]) => call'[t].op \in applied'
        PROVE  TookPlace'
    <3>1. /\ \A u \in Thread : u # t => call'[u] = call[u]
          /\ UNCHANGED verifying /\ applied \subseteq applied'
      BY CallFrame, Zenon
    <3>2. NoNewCompleted
      BY <2>2, <1>CallRowsStay
    <3>3. CompletedTookPlace'
      BY <3>1, <3>2 DEF TookPlace, CompletedTookPlace, NoNewCompleted, JournalGrows
    <3>4. CallsTrue'
      BY <2>2, <3>1, Zenon DEF TookPlace, CallsTrue
    <3>5. VerdictsTrue'
      BY <3>1, Zenon DEF TookPlace, VerdictsTrue
    <3>. QED
      BY <3>3, <3>4, <3>5 DEF TookPlace
  <2>3. CASE Invoke(t)
    <3>. DEFINE c == call[t]
    <3>1. PICK s \in Terminal :
             /\ s = "completed" => c.op \in applied'
             /\ call' = [call EXCEPT ![t].pc = "returned", ![t].result = s]
      BY <2>3, Zenon DEF Invoke
    <3>2. c \in [pc: {"looked", "admitted", "returned", "raised", "latching"},
                proc: Proc, worker: Worker, op: Op, key: Key, index: Nat,
                result: Terminal]
      BY <2>3, CallAt DEF Invoke, CallState, NoCall
    <3>3. call'[t] = [c EXCEPT !.pc = "returned", !.result = s]
      BY <3>1, Zenon DEF WInv, CallInv, WTypeOK
    <3>4. call'[t].result = s /\ call'[t].op = c.op
      BY <3>2, <3>3, Zenon
    <3>5. c.pc = "admitted"
      BY <2>3, Zenon DEF Invoke
    <3>6. CASE Publish(t)
      BY <3>5, <3>6 DEF Publish
    <3>. QED
      BY <2>2, <3>1, <3>4, <3>6 DEF Succeeded
  <2>4. ASSUME ~Publish(t), call'[t].pc # "returned"
        PROVE  TookPlace'
    BY <2>2, <2>4, Zenon DEF Succeeded
  <2>5. CASE \E x \in ready, op \in Op, key \in Key : LookUp(t, x[1], x[2], op, key)
    BY <2>1, <2>4, <2>5 DEF LookUp, WInv, CallInv, WTypeOK
  <2>6. CASE Admit(t)
    <3>3. call'[t].pc = "admitted"
      BY <2>6, AdmitAppends, Zenon DEF Admitted
    <3>. QED
      BY <2>1, <2>4, <3>3
  <2>7. CASE \/ AdmitReplayed(t) \/ AdmitRefused(t) \/ InvokeRaises(t)
             \/ PublishFails(t) \/ MarkUncertain(t) \/ LatchUncertainty(t)
    <3>1. call[t].pc # "idle"
      BY <2>7, Zenon DEF AdmitReplayed, AdmitRefused, InvokeRaises, PublishFails,
                            MarkUncertain, LatchUncertainty
    <3>2. Finish(t) \/ Goto(t, "raised") \/ Goto(t, "latching")
      BY <2>7, Zenon DEF AdmitReplayed, AdmitRefused, InvokeRaises, PublishFails,
                            MarkUncertain, LatchUncertainty
    <3>3. call'[t].pc # "returned"
      BY <3>1, <3>2, CallChange
    <3>. QED
      BY <2>1, <2>4, <3>3, Zenon
  <2>. QED
    BY <2>1, <2>3, <2>5, <2>6, <2>7, Zenon DEF CallStep

<1>. SUFFICES ASSUME WInv, TookPlace, [WNext]_wvars PROVE TookPlace'
  BY Zenon
<1>1. JournalGrows
  BY StoreStep, StoreGrows, Zenon DEF WInv
<1>2. CASE \E p \in Proc : Start(p) \/ OpenJournal(p)
  BY <1>2, Zenon DEF Start, OpenJournal, vars, world, TookPlace, CompletedTookPlace,
                     CallsTrue, VerdictsTrue
<1>3. CASE \E p \in Proc : Die(p)
  <2>1. PICK p \in Proc : Die(p)
    BY <1>3, Zenon
  <2>2. /\ UNCHANGED <<journal, applied>>
        /\ \A v \in verifying' : v \in verifying
        /\ \A t \in Thread : call'[t] = NoCall \/ call'[t] = call[t]
    BY <2>1 DEF Die, Crash, world
  <2>3. ~Succeeded(NoCall)
    BY Zenon DEF Succeeded, NoCall
  <2>4. NoNewResult /\ NoNewCompleted
    BY <2>2, <2>3, Zenon DEF NoNewResult, NoNewCompleted
  <2>. QED
    BY <1>1, <2>2, <2>4, <1>NoNewEvidence, Zenon
<1>4. CASE \E p \in Proc, w \in Worker : RecoveryStep(p, w)
  BY <1>1, <1>4, <1>RecoveryTookPlace
<1>5. CASE \E v \in verifying :
              VerifierAnswers(v) \/ VerifierStops(v) \/ ReconcileReturns(v)
  BY <1>1, <1>5, <1>VerifierTookPlace, Zenon
<1>6. CASE \E t \in Thread : CallStep(t)
  BY <1>1, <1>6, <1>CallTookPlace, SMTT(30)
<1>7. CASE UNCHANGED wvars
  BY <1>7, Zenon DEF wvars, TookPlace, CompletedTookPlace, CallsTrue, VerdictsTrue
<1>. QED
  BY <1>2, <1>3, <1>4, <1>5, <1>6, <1>7, Zenon DEF WNext

\* A completed outcome is recorded only for an effect that took place, published
\* by its worker or proved by a verifier, under every crash and storage failure.
THEOREM CompletedAlwaysTookPlace == WSpec => []CompletedTookPlace
<1>1. WInit => TookPlace
  BY DEF WInit, Init, TookPlace, CompletedTookPlace, CallsTrue, VerdictsTrue,
         Succeeded, NoCall
<1>2. TookPlace => CompletedTookPlace
  BY DEF TookPlace
<1>. QED
  BY <1>1, <1>2, TookPlaceInductive, WInductive, PTL DEF WSpec

-----------------------------------------------------------------------------
(***************************************************************************)
(* Who owns a worker.  Epochs are handed out once, the owner row never     *)
(* falls behind a process that claimed it, and with a run lease it never   *)
(* gets ahead of one either.                                               *)
(***************************************************************************)

\* The recovery of p has claimed the worker.
Held(p, w) == Recovering(p, w) \notin {"none", "probed"}

OwnerInv ==
    /\ \A p \in Proc : epochOf[p] <= clock
    /\ \A w \in Worker : owner[w].epoch <= clock
    /\ \A p, q \in Proc : Up(p) /\ epochOf[p] = epochOf[q] => p = q
    /\ \A x \in ready : epochOf[x[1]] <= owner[x[2]].epoch
    /\ \A p \in Proc, w \in Worker : Held(p, w) => epochOf[p] <= owner[w].epoch
    /\ \A p \in Proc, w \in Worker :
          Recovering(p, w) = "restoring" => ~recovery[p][w].pass
    /\ \A t \in Thread :
          call[t] # NoCall => <<call[t].proc, call[t].worker>> \in ready

LeaseInv ==
    /\ \A w \in Worker : \A p, q \in Proc :
          HoldsLease(p, w) /\ HoldsLease(q, w) => p = q
    /\ ready \subseteq permanent
    /\ \A p \in Proc, w \in Worker :
          Held(p, w) /\ ~recovery[p][w].pass => <<p, w>> \in permanent
    /\ \A p \in Proc, w \in Worker : Held(p, w) => owner[w].epoch = epochOf[p]
    /\ \A x \in ready : owner[x[2]].epoch = epochOf[x[1]]

OwnInv == OwnerInv /\ (RunLease => LeaseInv)

EpochsStay == \A w \in Worker : owner'[w].epoch = owner[w].epoch

\* Raising or lifting the fence moves no epoch.
LEMMA FencesKeepEpochs ==
    ASSUME WInv, owner' \in {owner, Fenced(owner), Unfenced(owner)}
    PROVE  EpochsStay
BY FencedFacts, UnfencedFacts, Zenon DEF WInv, IInv, EpochsStay

\* A recovery goes back, or on under the claim that it has.
Turns(p, w) ==
    \/ recovery'[p][w] = recovery[p][w]
    \/ recovery'[p][w].phase \in {"none", "probed"}
    \/ /\ Held(p, w)
       /\ recovery'[p][w].pass = recovery[p][w].pass
       /\ recovery'[p][w].phase = "restoring" => ~recovery'[p][w].pass

\* A process that is admitted is the current owner: begin moves no epoch.
LEMMA AdmittedOwner ==
    ASSUME WInv, OwnInv, NEW t \in Thread, Admit(t)
    PROVE  /\ <<call[t].proc, call[t].worker>> \in ready
           /\ HasOwner(call[t].worker)
           /\ owner[call[t].worker].epoch = epochOf[call[t].proc]
           /\ EpochsStay
<1>. DEFINE c == call[t]
<1>1. Admitted(t, c, Len(journal) + 1)
  BY AdmitAppends, Zenon
<1>2. c # NoCall
  BY <1>1, CallUnderWay, Zenon DEF Admitted
<1>3. <<c.proc, c.worker>> \in ready
  BY <1>2, ZenonT(40) DEF OwnInv, OwnerInv
<1>4. epochOf[c.proc] <= owner[c.worker].epoch
  BY <1>3, SMTT(30) DEF OwnInv, OwnerInv
<1>5. epochOf[c.proc] \in Nat \ {0} /\ owner[c.worker].epoch \in Nat
  <2>1. c.proc \in Proc /\ c.worker \in Worker /\ Up(c.proc)
    BY <1>1, SMTT(30) DEF Admitted
  <2>2. owner[c.worker].epoch \in Nat
    BY <2>1, EpochAssumption, SMTT(30) DEF WInv, IInv, TypeOK, OwnerRow
  <2>3. epochOf[c.proc] \in Nat \ {0}
    BY <2>1, StartsAssumption, SMTT(30) DEF WInv, CallInv, WTypeOK, Up
  <2>. QED
    BY <2>2, <2>3, Zenon
<1>6. HasOwner(c.worker)
  BY <1>4, <1>5, SMTT(30) DEF HasOwner
<1>7. owner[c.worker].epoch <= epochOf[c.proc]
  BY <1>1, <1>6, Zenon DEF Admitted, EnsureOwner
<1>8. owner[c.worker].epoch = epochOf[c.proc]
  BY <1>4, <1>5, <1>7
<1>9. EpochsStay
  BY <1>1, <1>8, SMTT(30) DEF Admitted, EpochsStay
<1>. QED
  BY <1>3, <1>6, <1>8, <1>9, Zenon

\* Every step keeps who owns a worker.
LEMMA OwnInductive == WInv /\ OwnInv /\ [WNext]_wvars => OwnInv'

\* A step that claims nothing, hands out nothing and admits nothing.
<1>OwnQuiet.
    ASSUME WInv, OwnInv, EpochsStay,
           UNCHANGED <<epochOf, clock, ready, permanent>>,
           \A p \in Proc, w \in Worker : Turns(p, w),
           \A t \in Thread :
              call'[t] # NoCall => <<call'[t].proc, call'[t].worker>> \in ready
    PROVE  OwnInv'
  <2>. USE <1>OwnQuiet
  <2>1. \A x \in ready : x[1] \in Proc /\ x[2] \in Worker
    BY Zenon DEF WInv, CallInv, WTypeOK
  <2>2. \A p \in Proc, w \in Worker : Held(p, w)' => /\ Held(p, w)
                                                     /\ recovery'[p][w].pass = recovery[p][w].pass
    BY DEF Turns, Held, Recovering
  <2>3. \A p \in Proc, w \in Worker : HoldsLease(p, w)' => HoldsLease(p, w)
    BY <2>2 DEF HoldsLease, Held
  <2>4. \A p \in Proc, w \in Worker :
           recovery'[p][w].phase = "restoring" => ~recovery'[p][w].pass
    BY Zenon DEF Turns, OwnInv, OwnerInv, Recovering
  <2>5. OwnerInv'
    BY <2>1, <2>2, <2>4, Zenon DEF OwnInv, OwnerInv, EpochsStay, Up, Recovering
  <2>6. ASSUME RunLease PROVE LeaseInv'
    BY <2>1, <2>2, <2>3, <2>6 DEF OwnInv, LeaseInv, EpochsStay
  <2>. QED
    BY <2>5, <2>6, Zenon DEF OwnInv

\* The claim of worker_binding or of the pass over unresolved runs.
<1>ClaimOwn.
    ASSUME WInv, OwnInv, NEW p \in Proc, NEW w \in Worker, Claim(p, w)
    PROVE  OwnInv'
  <2>. USE <1>ClaimOwn
  <2>. DEFINE new == [phase |-> "claimed", pass |-> Recovering(p, w) = "probed",
                      todo |-> {}, fenced |-> FALSE]
  <2>1. /\ p \in hosts /\ Recovering(p, w) \in {"none", "probed"}
        /\ IF Recovering(p, w) = "probed" THEN LeaseFree(p, w) ELSE RunLease => <<p, w>> \in permanent
        /\ owner[w].epoch <= epochOf[p]
        /\ owner' = [owner EXCEPT ![w].epoch = epochOf[p]]
        /\ recovery' = [recovery EXCEPT ![p][w] = new]
        /\ UNCHANGED <<epochOf, clock, permanent, ready, call>>
    BY Zenon DEF Claim, ClaimOwner
  <2>2. /\ \A x \in Worker : x # w => owner'[x].epoch = owner[x].epoch
        /\ owner'[w].epoch = epochOf[p]
    <3>1. owner \in [Worker -> [epoch: Epoch \cup {0}, fenced: BOOLEAN]]
      BY Zenon DEF WInv, IInv, TypeOK, OwnerRow
    <3>. QED
      BY <2>1, <3>1
  <2>3. \A q \in Proc, x \in Worker :
           recovery'[q][x] = IF q = p /\ x = w THEN new ELSE recovery[q][x]
    BY <2>1 DEF WInv, CallInv, WTypeOK
  <2>4. new.phase = "claimed" /\ new.pass = (Recovering(p, w) = "probed")
    OBVIOUS
  <2>. HIDE DEF new
  <2>5. /\ \A q \in Proc : epochOf[q] \in Int
        /\ \A x \in Worker : owner[x].epoch \in Int
        /\ clock \in Int /\ Up(p)
        /\ \A x \in ready : x[1] \in Proc /\ x[2] \in Worker
    <3>1. \A x \in Worker : owner[x].epoch \in Int
      BY EpochAssumption, SMTT(30) DEF WInv, IInv, TypeOK, OwnerRow
    <3>. QED
      BY <2>1, <3>1, StartsAssumption, SMTT(30) DEF WInv, CallInv, WTypeOK, Alive
  <2>6. OwnerInv'
    <3>1. \A x \in Worker : owner'[x].epoch <= clock /\ owner[x].epoch <= owner'[x].epoch
      BY <2>1, <2>2, <2>5, SMTT(30) DEF OwnInv, OwnerInv
    <3>2. \A x \in Worker : owner'[x].epoch \in Int
      BY <2>2, <2>5, Zenon
    <3>6. /\ \A x \in ready : epochOf[x[1]] <= owner[x[2]].epoch
          /\ \A q \in Proc, x \in Worker : Held(q, x) => epochOf[q] <= owner[x].epoch
      BY Zenon DEF OwnInv, OwnerInv
    <3>3. \A x \in ready : epochOf[x[1]] <= owner'[x[2]].epoch
      BY <2>5, <3>1, <3>2, <3>6, SMTT(30)
    <3>4. \A q \in Proc, x \in Worker : Held(q, x)' => epochOf[q] <= owner'[x].epoch
      BY <2>2, <2>3, <2>5, <3>1, <3>2, <3>6 DEF Held, Recovering
    <3>5. \A q \in Proc, x \in Worker :
             recovery'[q][x].phase = "restoring" => ~recovery'[q][x].pass
      BY <2>3, <2>4, SMTT(30) DEF OwnInv, OwnerInv, Recovering
    <3>. QED
      BY <2>1, <3>1, <3>3, <3>4, <3>5 DEF OwnInv, OwnerInv, Up, Recovering
  <2>7. ASSUME RunLease PROVE LeaseInv'
    <3>1. LeaseInv
      BY <2>7 DEF OwnInv
    <3>2. \A q \in Proc : HoldsLease(q, w) => q = p
      <4>1. CASE Recovering(p, w) = "probed"
        BY <2>1, <2>7, <4>1, Zenon DEF LeaseFree
      <4>2. CASE Recovering(p, w) # "probed"
        BY <2>1, <2>7, <3>1, <4>2 DEF LeaseInv, HoldsLease
      <4>. QED
        BY <4>1, <4>2, Zenon
    <3>3. \A q \in Proc, x \in Worker : HoldsLease(q, x)' => HoldsLease(q, x) \/ (q = p /\ x = w)
      BY <2>1, <2>3, SMTT(30) DEF HoldsLease, Recovering
    <3>4. \A x \in Worker : \A q, r \in Proc : HoldsLease(q, x)' /\ HoldsLease(r, x)' => q = r
      BY <3>1, <3>2, <3>3 DEF LeaseInv
    <3>5. ready' \subseteq permanent'
      BY <2>1, <3>1 DEF LeaseInv
    <3>6. \A q \in Proc, x \in Worker :
             Held(q, x)' /\ ~recovery'[q][x].pass => <<q, x>> \in permanent'
      <4>1. ASSUME ~new.pass PROVE <<p, w>> \in permanent
        <5>1. Recovering(p, w) # "probed"
          BY <2>4, <4>1, Zenon
        <5>. QED
          BY <2>1, <2>7, <5>1, Zenon
      <4>2. ASSUME NEW q \in Proc, NEW x \in Worker, ~(q = p /\ x = w),
                   Held(q, x)', ~recovery'[q][x].pass
            PROVE  <<q, x>> \in permanent
        <5>1. recovery'[q][x] = recovery[q][x]
          BY <2>3, <4>2, Zenon
        <5>. QED
          BY <3>1, <4>2, <5>1, Zenon DEF LeaseInv, Held, Recovering
      <4>3. permanent' = permanent /\ recovery'[p][w] = new
        BY <2>1, <2>3, Zenon
      <4>. QED
        BY <4>1, <4>2, <4>3, Zenon
    <3>7. \A q \in Proc, x \in Worker : Held(q, x)' => owner'[x].epoch = epochOf'[q]
      <4>1. ASSUME NEW q \in Proc, NEW x \in Worker, Held(q, x)', ~(q = p /\ x = w)
            PROVE  owner'[x].epoch = epochOf[q]
        <5>1. Held(q, x)
          BY <2>3, <4>1, Zenon DEF Held, Recovering
        <5>2. HoldsLease(q, x)
          BY <3>1, <5>1, Zenon DEF LeaseInv, HoldsLease, Held
        <5>3. x # w
          BY <3>2, <4>1, <5>2, SMTT(30)
        <5>. QED
          BY <2>2, <3>1, <5>1, <5>3, Zenon DEF LeaseInv
      <4>. QED
        BY <2>1, <2>2, <4>1, Zenon
    <3>8. \A x \in ready' : owner'[x[2]].epoch = epochOf'[x[1]]
      <4>1. ASSUME NEW x \in ready PROVE owner'[x[2]].epoch = epochOf[x[1]]
        <5>1. x = <<x[1], x[2]>>
          BY DEF WInv, CallInv, WTypeOK
        <5>2. HoldsLease(x[1], x[2])
          BY <3>1, <5>1 DEF LeaseInv, HoldsLease
        <5>. QED
          BY <2>2, <2>5, <3>1, <3>2, <5>2, SMTT(30) DEF LeaseInv
      <4>. QED
        BY <2>1, <4>1, Zenon
    <3>. QED
      BY <3>4, <3>5, <3>6, <3>7, <3>8, Zenon DEF LeaseInv
  <2>. QED
    BY <2>6, <2>7, Zenon DEF OwnInv

\* worker_binding takes the run lease, which nobody else holds.
<1>TakeLeaseOwn.
    ASSUME WInv, OwnInv, NEW p \in Proc, NEW w \in Worker, TakeRunLease(p, w)
    PROVE  OwnInv'
  <2>. USE <1>TakeLeaseOwn
  <2>1. /\ RunLease /\ LeaseFree(p, w) /\ permanent' = permanent \cup {<<p, w>>}
        /\ UNCHANGED <<owner, epochOf, clock, recovery, ready, call>>
    BY Zenon DEF TakeRunLease, vars
  <2>2. OwnerInv'
    BY <2>1, Zenon DEF OwnInv, OwnerInv, Up, Held, Recovering
  <2>3. LeaseInv
    BY <2>1, Zenon DEF OwnInv
  <2>4. \A q \in Proc, x \in Worker : HoldsLease(q, x)' => HoldsLease(q, x) \/ (q = p /\ x = w)
    BY <2>1, Zenon DEF HoldsLease, Recovering
  <2>5. \A q \in Proc : HoldsLease(q, w) => q = p
    BY <2>1, Zenon DEF LeaseFree
  <2>6. \A x \in Worker : \A q, r \in Proc : HoldsLease(q, x)' /\ HoldsLease(r, x)' => q = r
    BY <2>3, <2>4, <2>5, ZenonT(40) DEF LeaseInv
  <2>7. LeaseInv'
    BY <2>1, <2>3, <2>6, Zenon DEF LeaseInv, Held, Recovering
  <2>. QED
    BY <2>2, <2>7, SMTT(30) DEF OwnInv

\* The binding is handed out to the process that recovered.
<1>RestoreOwn.
    ASSUME WInv, OwnInv, NEW p \in Proc, NEW w \in Worker, Restore(p, w)
    PROVE  OwnInv'
  <2>. USE <1>RestoreOwn
  <2>1. /\ Recovering(p, w) = "restoring"
        /\ ready' \in {ready, ready \cup {<<p, w>>}}
        /\ recovery' = [recovery EXCEPT ![p][w] = NoRecovery]
        /\ UNCHANGED <<owner, epochOf, clock, permanent, call>>
    BY Zenon DEF Restore, vars
  <2>2. \A q \in Proc, x \in Worker :
           recovery'[q][x] = IF q = p /\ x = w THEN NoRecovery ELSE recovery[q][x]
    BY <2>1, Zenon DEF WInv, CallInv, WTypeOK
  <2>3. Held(p, w) /\ ~recovery[p][w].pass
    BY <2>1, Zenon DEF Held, OwnInv, OwnerInv
  <2>4. NoRecovery.phase = "none"
    BY Zenon DEF NoRecovery
  <2>5. \A q \in Proc, x \in Worker : Held(q, x)' => Held(q, x) /\ recovery'[q][x] = recovery[q][x]
    BY <2>2, <2>4, Zenon DEF Held, Recovering
  <2>6. \A q \in Proc, x \in Worker : HoldsLease(q, x)' => HoldsLease(q, x)
    BY <2>1, <2>5, Zenon DEF HoldsLease, Held
  <2>7. \A x \in ready' : epochOf[x[1]] <= owner[x[2]].epoch
    BY <2>1, <2>3, SMTT(30) DEF OwnInv, OwnerInv
  <2>8. \A q \in Proc, x \in Worker :
           recovery'[q][x].phase = "restoring" => ~recovery'[q][x].pass
    BY <2>2, <2>4, SMTT(30) DEF OwnInv, OwnerInv, Recovering
  <2>9. \A t \in Thread : call'[t] # NoCall => <<call'[t].proc, call'[t].worker>> \in ready'
    BY <2>1, Zenon DEF OwnInv, OwnerInv
  <2>10. OwnerInv'
    BY <2>1, <2>5, <2>7, <2>8, <2>9, Zenon DEF OwnInv, OwnerInv, Up, Recovering
  <2>11. ASSUME RunLease PROVE LeaseInv'
    <3>1. LeaseInv
      BY <2>11, Zenon DEF OwnInv
    <3>2. <<p, w>> \in permanent /\ owner[w].epoch = epochOf[p]
      BY <2>3, <3>1, Zenon DEF LeaseInv
    <3>. QED
      BY <2>1, <2>5, <2>6, <3>1, <3>2, SMTT(30) DEF LeaseInv
  <2>. QED
    BY <2>10, <2>11, Zenon DEF OwnInv

\* The other steps of a recovery go back or on.
<1>RecoveryOwn.
    ASSUME WInv, OwnInv, NEW p \in Proc, NEW w \in Worker, RecoveryStep(p, w)
    PROVE  OwnInv'
  <2>. USE <1>RecoveryOwn
  <2>1. ASSUME EpochsStay, UNCHANGED <<ready, permanent>>, NEW new,
               recovery' = [recovery EXCEPT ![p][w] = new],
               \/ new.phase = "none"
               \/ new.phase = "probed"
               \/ /\ Held(p, w)
                  /\ new.pass = recovery[p][w].pass
                  /\ new.phase = "restoring" => ~new.pass
        PROVE  OwnInv'
    <3>1. \A q \in Proc, x \in Worker :
             recovery'[q][x] = IF q = p /\ x = w THEN new ELSE recovery[q][x]
      BY <2>1, Zenon DEF WInv, CallInv, WTypeOK
    <3>2. \A q \in Proc, x \in Worker : Turns(q, x)
      BY <2>1, <3>1 DEF Turns
    <3>3. UNCHANGED <<epochOf, clock, call>>
      BY RecoveryFrame, Zenon
    <3>4. \A t \in Thread : call'[t] # NoCall => <<call'[t].proc, call'[t].worker>> \in ready
      BY <3>3, Zenon DEF OwnInv, OwnerInv
    <3>. QED
      BY <2>1, <3>2, <3>3, <3>4, <1>OwnQuiet, Zenon
  <2>2. UNCHANGED owner => EpochsStay
    BY DEF EpochsStay
  <2>3. NoRecovery.phase = "none"
    BY DEF NoRecovery
  <2>4. CASE TakeRunLease(p, w)
    BY <2>4, <1>TakeLeaseOwn, Zenon
  <2>5. CASE ProbePeers(p, w)
    <3>. DEFINE new == [phase |-> "probed", pass |-> TRUE, todo |-> {}, fenced |-> FALSE]
    <3>1. /\ recovery' = [recovery EXCEPT ![p][w] = new]
          /\ UNCHANGED <<owner, ready, permanent>>
      BY <2>5, Zenon DEF ProbePeers, vars
    <3>2. new.phase = "probed"
      BY Zenon
    <3>. HIDE DEF new
    <3>. QED
      BY <2>1, <2>2, <3>1, <3>2, Zenon
  <2>6. CASE PassRefused(p, w) \/ RecoverRaises(p, w)
    <3>1. /\ recovery' = [recovery EXCEPT ![p][w] = NoRecovery]
          /\ UNCHANGED <<owner, ready, permanent>>
      BY <2>6, Zenon DEF PassRefused, RecoverRaises, RecordUncertaintyFails, vars
    <3>. QED
      BY <2>1, <2>2, <2>3, <3>1, Zenon
  <2>7. CASE Claim(p, w)
    BY <2>7, <1>ClaimOwn, Zenon
  <2>8. CASE Restore(p, w)
    BY <2>8, <1>RestoreOwn, Zenon
  <2>9. ASSUME Recovering(p, w) = "claimed" \/ Recovering(p, w) = "reconciling"
        PROVE  /\ Held(p, w)
               /\ recovery[p][w] \in
                    [phase: {"probed", "claimed", "reconciling", "waiting", "restoring"},
                     pass: BOOLEAN, todo: SUBSET Nat, fenced: BOOLEAN]
    BY <2>9, RecoveryAt, Zenon DEF Held
  <2>. DEFINE r == recovery[p][w]
  <2>10. CASE RecoverOrphans(p, w)
    <3>. DEFINE new == [r EXCEPT !.phase = "reconciling", !.todo = Orphaned(NoneLive)]
    <3>1. recovery' = [recovery EXCEPT ![p][w] = new]
      BY <2>10, Zenon DEF RecoverOrphans, WInv, CallInv, WTypeOK
    <3>2. Recovering(p, w) = "claimed" /\ owner' = Fenced(owner) /\ UNCHANGED <<ready, permanent>>
      BY <2>10, Zenon DEF RecoverOrphans, Recover
    <3>3. new.phase # "restoring" /\ new.pass = r.pass
      BY <2>9, <3>2, Zenon
    <3>4. EpochsStay
      BY <3>2, FencesKeepEpochs, Zenon
    <3>. HIDE DEF new
    <3>. QED
      BY <2>1, <2>9, <3>1, <3>2, <3>3, <3>4, Zenon
  <2>11. Recovering(p, w) = "claimed" \/ Recovering(p, w) = "reconciling" =>
           \/ Resumed(r).phase = "none"
           \/ Resumed(r).pass = r.pass /\ ~Resumed(r).pass
    BY <2>3, <2>9, Zenon DEF Resumed
  <2>12. CASE RecoverNothing(p, w)
    <3>1. /\ recovery' = [recovery EXCEPT ![p][w] = Resumed(r)]
          /\ UNCHANGED <<owner, ready, permanent>> /\ Recovering(p, w) = "claimed"
      BY <2>12, Zenon DEF RecoverNothing, vars, WInv, CallInv, WTypeOK
    <3>. QED
      BY <2>1, <2>2, <2>9, <2>11, <3>1, Zenon
  <2>13. CASE ReconcileEnds(p, w)
    <3>. DEFINE new == IF r.fenced THEN NoRecovery ELSE Resumed(r)
    <3>1. /\ recovery' = [recovery EXCEPT ![p][w] = new]
          /\ UNCHANGED <<owner, ready, permanent>> /\ Recovering(p, w) = "reconciling"
      BY <2>13, Zenon DEF ReconcileEnds, vars, WInv, CallInv, WTypeOK
    <3>2. new = NoRecovery \/ new = Resumed(r)
      BY SMTT(30)
    <3>. HIDE DEF new
    <3>. QED
      BY <2>1, <2>2, <2>3, <2>9, <2>11, <3>1, <3>2, Zenon
  <2>14. CASE SkipIntent(p, w)
    <3>0. PICK i : recovery' = [recovery EXCEPT
                                   ![p][w] = Examined(r, i, IsUnresolved(journal[i]))]
      BY <2>14, Zenon DEF SkipIntent
    <3>. DEFINE new == Examined(r, i, IsUnresolved(journal[i]))
    <3>1. /\ recovery' = [recovery EXCEPT ![p][w] = new]
          /\ UNCHANGED <<owner, ready, permanent>> /\ Recovering(p, w) = "reconciling"
      BY <2>14, <3>0, Zenon DEF SkipIntent, vars
    <3>2. new.phase # "restoring" /\ new.pass = r.pass
      <4>1. new.phase = "reconciling" /\ new.pass = r.pass
        BY <2>9, <3>1, Zenon DEF Examined
      <4>. QED
        BY <4>1, Zenon
    <3>. HIDE DEF new
    <3>. QED
      BY <2>1, <2>2, <2>9, <3>1, <3>2, Zenon
  <2>15. CASE OfferIntent(p, w)
    <3>. DEFINE new == [r EXCEPT !.phase = "waiting"]
    <3>1. /\ recovery' = [recovery EXCEPT ![p][w] = new]
          /\ UNCHANGED <<owner, ready, permanent>> /\ Recovering(p, w) = "reconciling"
      BY <2>15, Zenon DEF OfferIntent, ReconcileSnapshot, WInv, CallInv, WTypeOK
    <3>2. new.phase # "restoring" /\ new.pass = r.pass
      BY <2>9, <3>1, Zenon
    <3>. HIDE DEF new
    <3>. QED
      BY <2>1, <2>2, <2>9, <3>1, <3>2, Zenon
  <2>. QED
    BY <2>4, <2>5, <2>6, <2>7, <2>8, <2>10, <2>12, <2>13, <2>14, <2>15, Zenon DEF RecoveryStep

\* reconcile and its verifiers: the recovery goes on under its claim.
<1>VerifierOwn.
    ASSUME WInv, OwnInv, NEW v \in verifying,
           VerifierAnswers(v) \/ VerifierStops(v) \/ ReconcileReturns(v)
    PROVE  OwnInv'
  <2>. USE <1>VerifierOwn
  <2>1. owner' \in {owner, Unfenced(owner)}
    BY Zenon DEF VerifierAnswers, VerifierStops, Verify, VerifierExits, ReconcileReturns,
                 ApplyProof, RefuseProof, VerifierTimeout
  <2>2. EpochsStay
    BY <2>1, FencesKeepEpochs
  <2>3. UNCHANGED <<epochOf, clock, ready, permanent, call>>
    BY Zenon DEF VerifierAnswers, VerifierStops, ReconcileReturns, Answered, callers
  <2>4. \A t \in Thread : call'[t] # NoCall => <<call'[t].proc, call'[t].worker>> \in ready
    BY <2>3, Zenon DEF OwnInv, OwnerInv
  <2>5. \A p \in Proc, w \in Worker : Turns(p, w)
    <3>1. CASE VerifierAnswers(v) \/ VerifierStops(v)
      BY <3>1, ZenonT(40) DEF VerifierAnswers, VerifierStops, callers, Turns
    <3>2. CASE ReconcileReturns(v)
      <4>. DEFINE p == v.proc
                  w == v.snapshot.worker
                  r == recovery[p][w]
      <4>1. p \in Proc /\ w \in Worker
        BY Zenon DEF WInv, IInv, TypeOK, Verification, Row
      <4>2. Awaiting(v)
        BY <3>2, Zenon DEF ReconcileReturns, ApplyProof, ProofApplies, Terminal, RefuseProof,
               HoldsSlot, VerifierTimeout, Verify, Awaiting
      <4>3. Recovering(p, w) = "waiting"
        BY <4>2, ZenonT(40) DEF WInv, CallInv, Awaited
      <4>4. \E b : recovery' = [recovery EXCEPT ![p][w] = Examined(r, v.index, b)]
        BY <3>2, Zenon DEF ReconcileReturns, Answered, WInv, CallInv, WTypeOK
      <4>5. PICK b : recovery' = [recovery EXCEPT ![p][w] = Examined(r, v.index, b)]
        BY <4>4, Zenon
      <4>6. r \in [phase: {"probed", "claimed", "reconciling", "waiting", "restoring"},
                   pass: BOOLEAN, todo: SUBSET Nat, fenced: BOOLEAN]
        BY <4>1, <4>3, RecoveryAt, SMTT(30)
      <4>7. /\ Examined(r, v.index, b).phase = "reconciling"
            /\ Examined(r, v.index, b).pass = r.pass
        BY <4>6, Zenon DEF Examined
      <4>8. \A q \in Proc, x \in Worker :
               recovery'[q][x] = IF q = p /\ x = w THEN Examined(r, v.index, b)
                                                   ELSE recovery[q][x]
        BY <4>1, <4>5, Zenon DEF WInv, CallInv, WTypeOK
      <4>9. Held(p, w)
        BY <4>3, SMTT(30) DEF Held
      <4>. HIDE DEF p, w, r
      <4>. QED
        BY <4>7, <4>8, <4>9 DEF Turns, r
    <3>. QED
      BY <3>1, <3>2, ZenonT(40)
  <2>. QED
    BY <2>2, <2>3, <2>4, <2>5, <1>OwnQuiet, Zenon

\* A call keeps its process and its worker, which were handed out.
<1>CallOwn.
    ASSUME WInv, OwnInv, NEW t \in Thread, CallStep(t)
    PROVE  OwnInv'
  <2>. USE <1>CallOwn
  <2>1. /\ \A u \in Thread : u # t => call'[u] = call[u]
        /\ UNCHANGED <<epochOf, clock, recovery, permanent, ready>>
    BY CallFrame, Zenon
  <2>2. \A p \in Proc, w \in Worker : Turns(p, w)
    BY <2>1, SMTT(30) DEF Turns
  <2>3. ASSUME EpochsStay, call'[t] # NoCall => <<call'[t].proc, call'[t].worker>> \in ready
        PROVE  OwnInv'
    <3>1. \A u \in Thread : call'[u] # NoCall => <<call'[u].proc, call'[u].worker>> \in ready
      BY <2>1, <2>3, Zenon DEF OwnInv, OwnerInv
    <3>. QED
      BY <2>1, <2>2, <2>3, <3>1, <1>OwnQuiet, Zenon
  <2>4. UNCHANGED owner => EpochsStay
    BY Zenon DEF EpochsStay
  <2>5. call[t] # NoCall => <<call[t].proc, call[t].worker>> \in ready
    BY Zenon DEF OwnInv, OwnerInv
  <2>6. CASE \E x \in ready, op \in Op, key \in Key : LookUp(t, x[1], x[2], op, key)
    <3>1. PICK x \in ready, op \in Op, key \in Key : LookUp(t, x[1], x[2], op, key)
      BY <2>6, Zenon
    <3>2. /\ <<x[1], x[2]>> \in ready /\ UNCHANGED owner
          /\ call'[t] = [pc |-> "looked", proc |-> x[1], worker |-> x[2], op |-> op,
                         key |-> key, index |-> 0, result |-> "failed"]
      BY <3>1, Zenon DEF LookUp, vars, WInv, CallInv, WTypeOK
    <3>3. call'[t].proc = x[1] /\ call'[t].worker = x[2]
      BY <3>2
    <3>. QED
      BY <2>3, <2>4, <3>2, <3>3
  <2>7. CASE Admit(t)
    <3>1. EpochsStay /\ <<call[t].proc, call[t].worker>> \in ready
      BY <2>7, AdmittedOwner, Zenon
    <3>2. call'[t].proc = call[t].proc /\ call'[t].worker = call[t].worker
      BY <2>7, AdmitAppends, Zenon DEF Admitted
    <3>. QED
      BY <2>3, <3>1, <3>2, SMTT(30)
  <2>8. ASSUME call[t].pc # "idle", NEW pc \in {"raised", "latching"},
               Finish(t) \/ Goto(t, pc)
        PROVE  call'[t] # NoCall => <<call'[t].proc, call'[t].worker>> \in ready
    <3>1. call[t] # NoCall
      BY <2>8, CallUnderWay, Zenon
    <3>. QED
      BY <2>5, <2>8, <3>1, CallChange, Zenon
  <2>9. CASE Invoke(t)
    <3>. DEFINE c == call[t]
    <3>1. PICK r \in Terminal : call' = [call EXCEPT ![t].pc = "returned", ![t].result = r]
      BY <2>9, Zenon DEF Invoke
    <3>2. c # NoCall /\ c \in CallState
      BY <2>9, CallAt, Zenon DEF Invoke
    <3>3. c \in [pc: {"looked", "admitted", "returned", "raised", "latching"},
                proc: Proc, worker: Worker, op: Op, key: Key, index: Nat,
                result: Terminal]
      BY <3>2 DEF CallState
    <3>4. call'[t] = [c EXCEPT !.pc = "returned", !.result = r]
      BY <3>1, Zenon DEF WInv, CallInv, WTypeOK
    <3>5. call'[t].proc = c.proc /\ call'[t].worker = c.worker
      BY <3>3, <3>4, Zenon
    <3>6. UNCHANGED owner
      BY <2>9, Zenon DEF Invoke, vars
    <3>. QED
      BY <2>3, <2>4, <2>5, <3>2, <3>5, <3>6, Zenon
  <2>10. CASE \/ AdmitReplayed(t) \/ AdmitRefused(t) \/ InvokeRaises(t) \/ PublishFails(t)
              \/ Publish(t) \/ MarkUncertain(t) \/ LatchUncertainty(t)
    <3>1. call[t].pc # "idle"
      BY <2>10, Zenon DEF AdmitReplayed, AdmitRefused, InvokeRaises, PublishFails, Publish,
                            MarkUncertain, LatchUncertainty
    <3>2. Finish(t) \/ Goto(t, "raised") \/ Goto(t, "latching")
      BY <2>10, Zenon DEF AdmitReplayed, AdmitRefused, InvokeRaises, PublishFails, Publish,
                            MarkUncertain, LatchUncertainty
    <3>3. owner' \in {owner, Fenced(owner), Unfenced(owner)}
      <4>1. CASE Publish(t)
        BY <4>1, Zenon DEF Publish, Outcome, OutcomeAndCheckpoint, CommitSettledRun
      <4>2. CASE MarkUncertain(t) \/ LatchUncertainty(t)
        BY <4>2, Zenon DEF MarkUncertain, LatchUncertainty, Uncertainty,
                           RecordUncertainty, RecordUncertaintyFails, vars
      <4>3. CASE AdmitReplayed(t) \/ AdmitRefused(t) \/ InvokeRaises(t) \/ PublishFails(t)
        BY <4>3, Zenon DEF AdmitReplayed, AdmitRefused, InvokeRaises, PublishFails, vars
      <4>. QED
        BY <2>10, <4>1, <4>2, <4>3, SMTT(30)
    <3>4. EpochsStay
      BY <3>3, FencesKeepEpochs, Zenon
    <3>5. call'[t] # NoCall => <<call'[t].proc, call'[t].worker>> \in ready
      <4>1. "raised" \in {"raised", "latching"} /\ "latching" \in {"raised", "latching"}
        BY Zenon
      <4>. QED
        BY <2>8, <3>1, <3>2, <4>1, Zenon
    <3>. QED
      BY <2>3, <3>4, <3>5, SMTT(30)
  <2>. QED
    BY <2>6, <2>7, <2>9, <2>10, Zenon DEF CallStep

\* A process starts at an epoch of its own, and holds nothing yet.
<1>StartOwn.
    ASSUME WInv, OwnInv, NEW p \in Proc, Start(p)
    PROVE  OwnInv'
  <2>. USE <1>StartOwn
  <2>1. /\ ~Up(p) /\ clock' = clock + 1
        /\ epochOf' = [epochOf EXCEPT ![p] = clock + 1]
        /\ UNCHANGED <<owner, recovery, permanent, ready, call>>
    BY Zenon DEF Start, vars
  <2>2. /\ \A q \in Proc : epochOf'[q] = IF q = p THEN clock + 1 ELSE epochOf[q]
        /\ \A q \in Proc : epochOf[q] \in Nat
        /\ clock \in Nat
    BY <2>1, StartsAssumption DEF WInv, CallInv, WTypeOK
  <2>3. \A w \in Worker : owner[w].epoch \in Nat
    BY EpochAssumption DEF WInv, IInv, TypeOK, OwnerRow
  <2>4. \A x \in ready : x[1] \in Proc /\ x[1] # p /\ x[2] \in Worker
    BY <2>1, Zenon DEF WInv, CallInv, WTypeOK, Alive
  <2>5. \A q \in Proc, w \in Worker : Held(q, w) => q # p
    BY <2>1, RecoveryUnderWay, Zenon DEF WInv, CallInv, Alive, Held
  <2>6. OwnerInv'
    <3>6. \A q \in Proc : epochOf[q] <= clock
      BY Zenon DEF OwnInv, OwnerInv
    <3>7. \A w \in Worker : owner[w].epoch <= clock
      BY Zenon DEF OwnInv, OwnerInv
    <3>8. \A q, r \in Proc : epochOf[q] # 0 /\ epochOf[q] = epochOf[r] => q = r
      BY Zenon DEF OwnInv, OwnerInv, Up
    <3>9. \A x \in ready : epochOf[x[1]] <= owner[x[2]].epoch
      BY Zenon DEF OwnInv, OwnerInv
    <3>10. \A q \in Proc, w \in Worker : Held(q, w) => epochOf[q] <= owner[w].epoch
      BY Zenon DEF OwnInv, OwnerInv
    <3>1. \A q \in Proc : epochOf'[q] <= clock'
      BY <2>1, <2>2, <3>6, SMTT(30)
    <3>2. \A w \in Worker : owner'[w].epoch <= clock'
      BY <2>1, <2>2, <2>3, <3>7
    <3>3. \A q, r \in Proc : epochOf'[q] # 0 /\ epochOf'[q] = epochOf'[r] => q = r
      BY <2>2, <3>6, <3>8, SMTT(30)
    <3>4. \A x \in ready' : epochOf'[x[1]] <= owner'[x[2]].epoch
      BY <2>1, <2>2, <2>4, <3>9, Zenon
    <3>5. \A q \in Proc, w \in Worker : Held(q, w)' => epochOf'[q] <= owner'[w].epoch
      BY <2>1, <2>2, <2>5, <3>10, Zenon DEF Held, Recovering
    <3>. QED
      BY <2>1, <3>1, <3>2, <3>3, <3>4, <3>5, Zenon DEF OwnInv, OwnerInv, Up, Recovering
  <2>7. ASSUME RunLease PROVE LeaseInv'
    BY <2>1, <2>2, <2>4, <2>5, <2>7, SMTT(30)
       DEF OwnInv, LeaseInv, HoldsLease, Held, Recovering
  <2>. QED
    BY <2>6, <2>7, Zenon DEF OwnInv

\* A process dies: what it held is gone, what the others hold stays.
<1>DieOwn.
    ASSUME WInv, OwnInv, NEW p \in Proc, Die(p)
    PROVE  OwnInv'
  <2>. USE <1>DieOwn
  <2>1. /\ UNCHANGED <<owner, clock>>
        /\ permanent' = {x \in permanent : x[1] # p}
        /\ ready' = {x \in ready : x[1] # p}
    BY Zenon DEF Die, Crash
  <2>2. \A q \in Proc : epochOf'[q] = IF q = p THEN 0 ELSE epochOf[q]
    BY Zenon DEF Die, WInv, CallInv, WTypeOK
  <2>3. \A q \in Proc, w \in Worker :
           recovery'[q][w] = IF q = p THEN NoRecovery ELSE recovery[q][w]
    BY Zenon DEF Die, WInv, CallInv, WTypeOK
  <2>4. \A t \in Thread :
           \/ call'[t] = NoCall
           \/ call'[t] = call[t] /\ call[t].proc # p
    BY DEF Die
  <2>5. NoRecovery.phase = "none"
    BY Zenon DEF NoRecovery
  <2>6. \A q \in Proc, w \in Worker :
           Held(q, w)' => q # p /\ Held(q, w) /\ recovery'[q][w] = recovery[q][w]
    BY <2>3, <2>5, Zenon DEF Held, Recovering
  <2>7. \A x \in ready : x[1] \in Proc /\ x[2] \in Worker
    BY SMTT(30) DEF WInv, CallInv, WTypeOK
  <2>8. clock \in Nat /\ \A q \in Proc : epochOf[q] \in Nat
    BY StartsAssumption, SMTT(30) DEF WInv, CallInv, WTypeOK
  <2>9. OwnerInv'
    <3>7. \A q \in Proc : epochOf[q] <= clock
      BY Zenon DEF OwnInv, OwnerInv
    <3>8. \A q, r \in Proc : epochOf[q] # 0 /\ epochOf[q] = epochOf[r] => q = r
      BY Zenon DEF OwnInv, OwnerInv, Up
    <3>9. \A x \in ready : epochOf[x[1]] <= owner[x[2]].epoch
      BY Zenon DEF OwnInv, OwnerInv
    <3>10. \A q \in Proc, w \in Worker : Held(q, w) => epochOf[q] <= owner[w].epoch
      BY Zenon DEF OwnInv, OwnerInv
    <3>1. \A q \in Proc : epochOf'[q] <= clock'
      BY <2>1, <2>2, <2>8, <3>7, SMTT(30)
    <3>2. \A q, r \in Proc : epochOf'[q] # 0 /\ epochOf'[q] = epochOf'[r] => q = r
      BY <2>2, <3>8, Zenon
    <3>3. \A x \in ready' : epochOf'[x[1]] <= owner'[x[2]].epoch
      BY <2>1, <2>2, <2>7, <3>9, Zenon
    <3>4. \A q \in Proc, w \in Worker : Held(q, w)' => epochOf'[q] <= owner'[w].epoch
      BY <2>1, <2>2, <2>6, <3>10, Zenon
    <3>5. \A q \in Proc, w \in Worker :
             recovery'[q][w].phase = "restoring" => ~recovery'[q][w].pass
      BY <2>3, <2>5, Zenon DEF OwnInv, OwnerInv, Recovering
    <3>6. \A t \in Thread : call'[t] # NoCall => <<call'[t].proc, call'[t].worker>> \in ready'
      BY <2>1, <2>4, Zenon DEF OwnInv, OwnerInv
    <3>. QED
      BY <2>1, <3>1, <3>2, <3>3, <3>4, <3>5, <3>6, Zenon
         DEF OwnInv, OwnerInv, Up, Recovering
  <2>10. ASSUME RunLease PROVE LeaseInv'
    <3>1. LeaseInv
      BY <2>10, Zenon DEF OwnInv
    <3>2. \A q \in Proc, w \in Worker : HoldsLease(q, w)' => HoldsLease(q, w)
      BY <2>1, <2>6, Zenon DEF HoldsLease, Held
    <3>3. ready' \subseteq permanent'
      BY <2>1, <3>1, Zenon DEF LeaseInv
    <3>4. \A q \in Proc, w \in Worker :
             Held(q, w)' /\ ~recovery'[q][w].pass => <<q, w>> \in permanent'
      BY <2>1, <2>6, <3>1, Zenon DEF LeaseInv
    <3>5. \A q \in Proc, w \in Worker : Held(q, w)' => owner'[w].epoch = epochOf'[q]
      BY <2>1, <2>2, <2>6, <3>1, Zenon DEF LeaseInv
    <3>6. \A x \in ready' : owner'[x[2]].epoch = epochOf'[x[1]]
      BY <2>1, <2>2, <2>7, <3>1, Zenon DEF LeaseInv
    <3>. QED
      BY <3>1, <3>2, <3>3, <3>4, <3>5, <3>6, Zenon DEF LeaseInv
  <2>. QED
    BY <2>9, <2>10, Zenon DEF OwnInv

<1>. SUFFICES ASSUME WInv, OwnInv, [WNext]_wvars PROVE OwnInv'
  BY Zenon
<1>1. CASE \E p \in Proc : OpenJournal(p)
  <2>1. UNCHANGED <<owner, epochOf, clock, recovery, permanent, ready, call>>
    BY <1>1, Zenon DEF OpenJournal, vars
  <2>. QED
    BY <2>1, Zenon DEF OwnInv, OwnerInv, LeaseInv, HoldsLease, Up, Held, Recovering
<1>2. CASE \E p \in Proc : Start(p) \/ Die(p)
  BY <1>2, <1>StartOwn, <1>DieOwn
<1>3. CASE \E p \in Proc, w \in Worker : RecoveryStep(p, w)
  BY <1>3, <1>RecoveryOwn, Zenon
<1>4. CASE \E v \in verifying :
              VerifierAnswers(v) \/ VerifierStops(v) \/ ReconcileReturns(v)
  BY <1>4, <1>VerifierOwn, Zenon
<1>5. CASE \E t \in Thread : CallStep(t)
  BY <1>5, <1>CallOwn
<1>6. CASE UNCHANGED wvars
  BY <1>6, Zenon DEF wvars, OwnInv, OwnerInv, LeaseInv, HoldsLease, Up, Held, Recovering
<1>. QED
  BY <1>1, <1>2, <1>3, <1>4, <1>5, <1>6, Zenon DEF WNext

\* It holds before any process started.
LEMMA OwnInit == WInit => OwnInv
<1>. SUFFICES ASSUME WInit PROVE OwnInv
  BY Zenon
<1>1. OwnerInv
  BY SMTT(30) DEF WInit, Init, OwnerInv, Up, Held, Recovering, NoRecovery
<1>2. LeaseInv
  BY DEF WInit, Init, LeaseInv, HoldsLease, Held, Recovering, NoRecovery
<1>. QED
  BY <1>1, <1>2, Zenon DEF OwnInv

\* OwnInv is an invariant of the journal with its callers.
THEOREM OwnAlways == WSpec => []OwnInv
BY OwnInit, OwnInductive, WInductive, PTL DEF WSpec

\* With the run lease, a composed worker stays the current owner as long as its
\* process lives: no peer and no pass over unresolved runs supersedes it.
THEOREM OwnerNeverSuperseded == WSpec => []OwnerNotSuperseded
<1>1. OwnInv => OwnerNotSuperseded
  BY DEF OwnInv, LeaseInv, OwnerNotSuperseded
<1>. QED
  BY <1>1, OwnAlways, PTL
=============================================================================
