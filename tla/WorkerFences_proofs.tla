------------------------ MODULE WorkerFences_proofs -------------------------
(***************************************************************************)
(* Proofs about the fences of a run with one worker, for every value of    *)
(* the constants: no fence is left behind, and nothing is admitted on top  *)
(* of an effect whose fate is unknown.  They rest on WInv, on OwnInv and   *)
(* on an invariant of their own, IntentInv.  The last section, about how   *)
(* recoveries go on, is for any number of workers and rests on WInv only.  *)
(***************************************************************************)
EXTENDS WorkerSafety_proofs

-----------------------------------------------------------------------------
(***************************************************************************)
(* A run with one worker: what is known about its bare intents.            *)
(***************************************************************************)

OneWorker == \A v, w \in Worker : v = w

NoIntents == \A i \in DOMAIN journal : journal[i].state # "intent"

\* Row i is a bare intent of the running process p.
LiveIntent(i, p) ==
    journal[i].state = "intent" /\ Up(p) /\ epochOf[p] = journal[i].epoch

\* p handed out a binding of w, or has recovered its orphans and examines them.
Serves(p, w) ==
    <<p, w>> \in ready \/ Recovering(p, w) \in {"reconciling", "waiting", "restoring"}

\* A call past its admission works on a row of its own process.
CallEpochs ==
    \A t \in Thread : call[t] # NoCall =>
        IF call[t].pc = "looked" THEN call[t].index = 0
        ELSE journal[call[t].index].epoch = epochOf[call[t].proc]

IntentsOneEpoch ==
    \A i, k \in DOMAIN journal :
        journal[i].state = "intent" /\ journal[k].state = "intent" =>
            journal[i].epoch = journal[k].epoch

\* The current owner has taken care of every intent of an earlier epoch.
IntentsOfOwner ==
    \A p \in Proc, w \in Worker :
        Serves(p, w) /\ owner[w].epoch = epochOf[p] =>
            \A i \in DOMAIN journal :
                journal[i].state = "intent" => journal[i].epoch = epochOf[p]

\* A running process works on its bare intents, or is latched.
IntentsFollowed ==
    \A i \in DOMAIN journal, p \in Proc :
        LiveIntent(i, p) => InFlight(i) \/ p \in latches

\* While the run is fenced, a process with a bare intent is latched: it is the
\* one whose last outcome lifts the fence.
FenceFollowed ==
    \A w \in Worker : owner[w].fenced =>
        /\ Unresolved(journal) # {}
        /\ \A i \in DOMAIN journal, p \in Proc : LiveIntent(i, p) => p \in latches

IntentInv == /\ CallEpochs
             /\ IntentsOneEpoch
             /\ IntentsOfOwner
             /\ IntentsFollowed
             /\ FenceFollowed

-----------------------------------------------------------------------------

\* Rows are rewritten in place and none becomes a bare intent.
Rewrites ==
    /\ DOMAIN journal' = DOMAIN journal
    /\ \A i \in DOMAIN journal :
          /\ journal'[i].epoch = journal[i].epoch
          /\ journal'[i].state = "intent" => journal[i].state = "intent"

\* A call ends, looks its operation up, or goes on with its row.
CallsGoOn ==
    \A t \in Thread :
        \/ call'[t] = NoCall
        \/ call'[t].pc = "looked" /\ call'[t].index = 0
        \/ call'[t] = call[t]
        \/ /\ call[t] # NoCall /\ call[t].pc # "looked" /\ call'[t].pc # "looked"
           /\ call'[t].proc = call[t].proc /\ call'[t].index = call[t].index

\* Who serves the run now did before, or there is nothing to take care of.
ServesOn ==
    \A p \in Proc, w \in Worker :
        Serves(p, w)' /\ owner'[w].epoch = epochOf[p] =>
            \/ Serves(p, w) /\ owner[w].epoch = epochOf[p]
            \/ NoIntents'

FollowsOn ==
    \A i \in DOMAIN journal, p \in Proc :
        LiveIntent(i, p)' /\ (InFlight(i) \/ p \in latches) =>
            InFlight(i)' \/ p \in latches'

FenceOn ==
    \A w \in Worker : owner'[w].fenced =>
        /\ Unresolved(journal') # {}
        /\ \A i \in DOMAIN journal, p \in Proc :
              LiveIntent(i, p)' /\ (owner[w].fenced => p \in latches) => p \in latches'

\* A step that rewrites rows in place keeps the invariant when who serves the run,
\* follows its intents and is fenced goes on as above.
LEMMA IntentQuiet ==
    ASSUME WInv, IntentInv, UNCHANGED epochOf,
           Rewrites, CallsGoOn, ServesOn, FollowsOn, FenceOn
    PROVE  IntentInv'
<1>1. \A i \in DOMAIN journal, p \in Proc : LiveIntent(i, p)' => LiveIntent(i, p)
  BY DEF Rewrites, LiveIntent, Up
<1>2. CallEpochs'
  <2>1. \A t \in Thread : call[t] # NoCall /\ call[t].pc # "looked" =>
           call[t].index \in DOMAIN journal
    BY Zenon DEF WInv, CallInv, CallRows, CallRow
  <2>2. ASSUME NEW t \in Thread, call'[t] # NoCall
        PROVE  IF call'[t].pc = "looked" THEN call'[t].index = 0
               ELSE journal'[call'[t].index].epoch = epochOf'[call'[t].proc]
    <3>1. CASE call'[t].pc = "looked" /\ call'[t].index = 0
      BY <3>1
    <3>2. CASE call'[t] = call[t]
      BY <2>1, <2>2, <3>2, SMTT(30) DEF IntentInv, CallEpochs, Rewrites
    <3>3. CASE /\ call[t] # NoCall /\ call[t].pc # "looked" /\ call'[t].pc # "looked"
               /\ call'[t].proc = call[t].proc /\ call'[t].index = call[t].index
      BY <2>1, <2>2, <3>3, Zenon DEF IntentInv, CallEpochs, Rewrites
    <3>. QED
      BY <2>2, <3>1, <3>2, <3>3, Zenon DEF CallsGoOn
  <2>. QED
    BY <2>2, Zenon DEF CallEpochs
<1>3. IntentsOneEpoch'
  BY DEF IntentInv, IntentsOneEpoch, Rewrites
<1>4. IntentsOfOwner'
  <2>. SUFFICES ASSUME NEW p \in Proc, NEW w \in Worker,
                       Serves(p, w)', owner'[w].epoch = epochOf[p],
                       NEW i \in DOMAIN journal, journal'[i].state = "intent"
                PROVE  journal'[i].epoch = epochOf[p]
    BY Zenon DEF IntentsOfOwner, Rewrites
  <2>1. ~NoIntents'
    BY Zenon DEF NoIntents, Rewrites
  <2>2. Serves(p, w) /\ owner[w].epoch = epochOf[p]
    BY <2>1, Zenon DEF ServesOn
  <2>. QED
    BY <2>2, Zenon DEF IntentInv, IntentsOfOwner, Rewrites
<1>5. IntentsFollowed'
  BY <1>1, Zenon DEF IntentInv, IntentsFollowed, FollowsOn, Rewrites
<1>6. FenceFollowed'
  BY <1>1, Zenon DEF IntentInv, FenceFollowed, FenceOn, Rewrites
<1>. QED
  BY <1>2, <1>3, <1>4, <1>5, <1>6, Zenon DEF IntentInv

\* The worker that admitted a row.
LEMMA RowWorker ==
    ASSUME WInv, NEW i \in DOMAIN journal
    PROVE  journal[i].worker \in Worker
<1>1. journal[i] \in Row
  BY SMTT(30) DEF WInv, IInv, TypeOK
<1>. QED
  BY <1>1, Zenon DEF Row

\* A step of one recovery that writes no row.
LEMMA RecoveryKeepsIntents ==
    ASSUME WInv, IntentInv, NEW p \in Proc, NEW w \in Worker, NEW new,
           recovery' = [recovery EXCEPT ![p][w] = new],
           UNCHANGED <<journal, owner, epochOf, call>>,
           latches \subseteq latches',
           new.phase \in {"reconciling", "waiting", "restoring"} =>
               Serves(p, w) \/ Unresolved(journal) = {},
           \/ ready' = ready
           \/ ready' = ready \cup {<<p, w>>} /\ Serves(p, w)
    PROVE  IntentInv'
<1>1. Rewrites
  BY Zenon DEF Rewrites
<1>2. CallsGoOn
  BY Zenon DEF CallsGoOn
<1>3. Unresolved(journal) = {} => NoIntents'
  BY DEF Unresolved, IsUnresolved, NoIntents
<1>4. \A q \in Proc, x \in Worker :
         recovery'[q][x] = IF q = p /\ x = w THEN new ELSE recovery[q][x]
  BY Zenon DEF WInv, CallInv, WTypeOK
<1>5. \A q \in Proc, x \in Worker :
         Serves(q, x)' => Serves(q, x) \/ NoIntents'
  <2>. SUFFICES ASSUME NEW q \in Proc, NEW x \in Worker, Serves(q, x)', ~NoIntents'
                PROVE  Serves(q, x)
    OBVIOUS
  <2>1. CASE q = p /\ x = w
    <3>1. CASE <<q, x>> \in ready'
      BY <2>1, <3>1, ZenonT(40) DEF Serves
    <3>2. CASE recovery'[q][x].phase \in {"reconciling", "waiting", "restoring"}
      BY <1>3, <1>4, <2>1, <3>2, Zenon
    <3>. QED
      BY <3>1, <3>2, Zenon DEF Serves, Recovering
  <2>2. CASE ~(q = p /\ x = w)
    BY <1>4, <2>2, SMTT(30) DEF Serves, Recovering
  <2>. QED
    BY <2>1, <2>2, SMTT(30)
<1>6. ServesOn
  BY <1>5, Zenon DEF ServesOn
<1>7. FollowsOn
  BY Zenon DEF FollowsOn, InFlight
<1>8. FenceOn
  BY Zenon DEF FenceOn, IntentInv, FenceFollowed
<1>. QED
  BY <1>1, <1>2, <1>6, <1>7, <1>8, IntentQuiet, Zenon

\* A claim takes care of nothing yet.  If the claimer already served the run,
\* it was the current owner before.
LEMMA ClaimIntents ==
    ASSUME WInv, OwnInv, IntentInv, OneWorker,
           NEW p \in Proc, NEW w \in Worker, Claim(p, w)
    PROVE  IntentInv'
<1>. DEFINE new == [phase |-> "claimed", pass |-> Recovering(p, w) = "probed",
                    todo |-> {}, fenced |-> FALSE]
<1>1. /\ p \in hosts /\ owner[w].epoch <= epochOf[p]
      /\ owner' = [owner EXCEPT ![w].epoch = epochOf[p]]
      /\ recovery' = [recovery EXCEPT ![p][w] = new]
      /\ UNCHANGED <<journal, latches, epochOf, ready, call>>
  BY Zenon DEF Claim, ClaimOwner
<1>2. /\ owner'[w].epoch = epochOf[p]
      /\ owner'[w].fenced = owner[w].fenced
  <2>1. owner \in [Worker -> [epoch: Epoch \cup {0}, fenced: BOOLEAN]]
    BY DEF WInv, IInv, TypeOK, OwnerRow
  <2>. QED
    BY <1>1, <2>1, Zenon
<1>3. \A q \in Proc, x \in Worker :
         recovery'[q][x] = IF q = p /\ x = w THEN new ELSE recovery[q][x]
  BY <1>1 DEF WInv, CallInv, WTypeOK
<1>4. new.phase = "claimed"
  BY Zenon
<1>. HIDE DEF new
<1>5. Rewrites /\ CallsGoOn
  BY <1>1, Zenon DEF Rewrites, CallsGoOn
<1>6. ServesOn
  <2>. SUFFICES ASSUME NEW q \in Proc, NEW x \in Worker,
                       Serves(q, x)', owner'[x].epoch = epochOf[q]
                PROVE  Serves(q, x) /\ owner[x].epoch = epochOf[q]
    BY Zenon DEF ServesOn
  <2>1. x = w
    BY Zenon DEF OneWorker
  <2>2. Up(p)
    BY <1>1 DEF WInv, CallInv, Alive
  <2>3. q = p
    BY <1>2, <2>1, <2>2, Zenon DEF OwnInv, OwnerInv
  <2>4. <<p, w>> \in ready
    BY <1>1, <1>3, <1>4, <2>1, <2>3, SMTT(30) DEF Serves, Recovering
  <2>5. epochOf[p] <= owner[w].epoch
    BY <2>4 DEF OwnInv, OwnerInv
  <2>6. epochOf[p] \in Int /\ owner[w].epoch \in Int
    <3>1. owner[w].epoch \in Int
      BY EpochAssumption DEF WInv, IInv, TypeOK, OwnerRow
    <3>. QED
      BY <3>1, StartsAssumption DEF WInv, CallInv, WTypeOK
  <2>. QED
    BY <1>1, <2>1, <2>3, <2>4, <2>5, <2>6 DEF Serves
<1>7. FollowsOn
  BY <1>1, Zenon DEF FollowsOn, InFlight
<1>8. FenceOn
  <2>1. \A x \in Worker : owner'[x].fenced = owner[x].fenced
    BY <1>2, Zenon DEF OneWorker
  <2>. QED
    BY <1>1, <2>1, Zenon DEF FenceOn, IntentInv, FenceFollowed
<1>. QED
  BY <1>1, <1>5, <1>6, <1>7, <1>8, IntentQuiet, Zenon

\* recover leaves no bare intent and something uncertain.
LEMMA OrphansIntents ==
    ASSUME WInv, IntentInv, NEW p \in Proc, NEW w \in Worker, RecoverOrphans(p, w)
    PROVE  IntentInv'
<1>1. UNCHANGED <<epochOf, call>> /\ Recover(p, NoneLive)
  BY Zenon DEF RecoverOrphans
<1>2. /\ Marks
      /\ \A k \in DOMAIN journal : journal'[k].state # "intent"
      /\ \E k \in DOMAIN journal : journal'[k].state = "uncertain"
  BY <1>1, RecoverMarks, Zenon DEF WInv, IInv
<1>3. Rewrites
  BY <1>2 DEF Rewrites, Marks
<1>4. CallsGoOn
  BY <1>1, Zenon DEF CallsGoOn
<1>5. NoIntents'
  BY <1>2, <1>3, Zenon DEF NoIntents, Rewrites
<1>6. ServesOn
  BY <1>5, Zenon DEF ServesOn
<1>7. \A i \in DOMAIN journal, q \in Proc : ~LiveIntent(i, q)'
  BY <1>2, Zenon DEF LiveIntent
<1>8. Unresolved(journal') # {}
  BY <1>2, <1>3, SMTT(30) DEF Unresolved, IsUnresolved, Rewrites
<1>9. FollowsOn /\ FenceOn
  BY <1>7, <1>8, Zenon DEF FollowsOn, FenceOn
<1>. QED
  BY <1>1, <1>3, <1>4, <1>6, <1>9, IntentQuiet, Zenon

\* Every step of a recovery.
LEMMA RecoveryIntents ==
    ASSUME WInv, OwnInv, IntentInv, OneWorker,
           NEW p \in Proc, NEW w \in Worker, RecoveryStep(p, w)
    PROVE  IntentInv'
<1>. DEFINE r == recovery[p][w]
<1>1. UNCHANGED <<epochOf, call>>
  BY RecoveryFrame, Zenon
<1>2. ASSUME NEW new, recovery' = [recovery EXCEPT ![p][w] = new],
             UNCHANGED <<journal, owner, ready>>, latches \subseteq latches',
             new.phase \in {"reconciling", "waiting", "restoring"} =>
               Serves(p, w) \/ Unresolved(journal) = {}
      PROVE  IntentInv'
  BY <1>1, <1>2, RecoveryKeepsIntents, Zenon
<1>3. NoRecovery.phase \notin {"reconciling", "waiting", "restoring"}
  BY Zenon DEF NoRecovery
<1>4. Recovering(p, w) = "reconciling" \/ Recovering(p, w) = "restoring" => Serves(p, w)
  BY Zenon DEF Serves
<1>5. CASE TakeRunLease(p, w)
  <2>1. UNCHANGED <<journal, owner, latches, recovery, ready>>
    BY <1>5, Zenon DEF TakeRunLease, vars
  <2>2. recovery' = [recovery EXCEPT ![p][w] = r]
    BY <2>1 DEF WInv, CallInv, WTypeOK
  <2>3. r.phase \in {"reconciling", "waiting", "restoring"} => Serves(p, w)
    BY DEF Serves, Recovering
  <2>. HIDE DEF r
  <2>. QED
    BY <1>2, <2>1, <2>2, <2>3, Zenon
<1>6. CASE ProbePeers(p, w)
  <2>. DEFINE new == [phase |-> "probed", pass |-> TRUE, todo |-> {}, fenced |-> FALSE]
  <2>1. /\ recovery' = [recovery EXCEPT ![p][w] = new]
        /\ UNCHANGED <<journal, owner, latches, ready>>
    BY <1>6, Zenon DEF ProbePeers, vars
  <2>2. new.phase \notin {"reconciling", "waiting", "restoring"}
    OBVIOUS
  <2>. HIDE DEF new
  <2>. QED
    BY <1>2, <2>1, <2>2, Zenon
<1>7. CASE PassRefused(p, w) \/ RecoverRaises(p, w)
  <2>1. /\ recovery' = [recovery EXCEPT ![p][w] = NoRecovery]
        /\ UNCHANGED <<journal, owner, ready>> /\ latches \subseteq latches'
    BY <1>7, Zenon DEF PassRefused, RecoverRaises, RecordUncertaintyFails, vars
  <2>. QED
    BY <1>2, <1>3, <2>1, Zenon
<1>8. CASE Claim(p, w)
  BY <1>8, ClaimIntents
<1>9. CASE RecoverOrphans(p, w)
  BY <1>9, OrphansIntents, Zenon
<1>10. CASE RecoverNothing(p, w)
  <2>1. /\ recovery' = [recovery EXCEPT ![p][w] = Resumed(r)]
        /\ UNCHANGED <<journal, owner, latches, ready>> /\ Unresolved(journal) = {}
    BY <1>10, Zenon DEF RecoverNothing, vars, WInv, CallInv, WTypeOK
  <2>. QED
    BY <1>2, <2>1, Zenon
<1>11. CASE SkipIntent(p, w) \/ ReconcileEnds(p, w)
  <2>1. /\ \E new : recovery' = [recovery EXCEPT ![p][w] = new]
        /\ UNCHANGED <<journal, owner, latches, ready>>
        /\ Recovering(p, w) = "reconciling"
    BY <1>11, Zenon DEF SkipIntent, ReconcileEnds, vars, WInv, CallInv, WTypeOK
  <2>. QED
    BY <1>2, <1>4, <2>1, Zenon
<1>12. CASE OfferIntent(p, w)
  <2>1. /\ recovery' = [recovery EXCEPT ![p][w] = [r EXCEPT !.phase = "waiting"]]
        /\ UNCHANGED <<journal, owner, latches, ready>>
        /\ Recovering(p, w) = "reconciling"
    BY <1>12, Zenon DEF OfferIntent, ReconcileSnapshot, WInv, CallInv, WTypeOK
  <2>. QED
    BY <1>2, <1>4, <2>1, Zenon
<1>13. CASE Restore(p, w)
  <2>1. /\ recovery' = [recovery EXCEPT ![p][w] = NoRecovery]
        /\ UNCHANGED <<journal, owner, latches>>
        /\ ready' = ready \/ ready' = ready \cup {<<p, w>>}
        /\ Recovering(p, w) = "restoring"
    BY <1>13 DEF Restore, vars
  <2>. QED
    BY <1>1, <1>3, <1>4, <2>1, RecoveryKeepsIntents, Zenon
<1>. QED
  BY <1>5, <1>6, <1>7, <1>8, <1>9, <1>10, <1>11, <1>12, <1>13, Zenon DEF RecoveryStep

\* The proof of the last unresolved effect lifts the fence.
LEMMA ProofIntents ==
    ASSUME WInv, IntentInv, NEW v \in verifying, NEW r \in Receipt,
           ApplyProof(v, r), UNCHANGED <<epochOf, call>>,
           \A p \in Proc, w \in Worker : Serves(p, w)' => Serves(p, w)
    PROVE  IntentInv'
<1>. DEFINE i == v.index
<1>1. /\ ProofApplies(v)
      /\ journal' = WithProof(v, r)
      /\ \/ /\ Unresolved(journal') = {}
            /\ owner' = Unfenced(owner)
         \/ /\ Unresolved(journal') # {}
            /\ UNCHANGED <<owner, latches>>
  BY Zenon DEF ApplyProof
<1>2. i \in DOMAIN journal /\ v.verdict # "intent"
  <2>1. i \in DOMAIN journal
    BY Zenon DEF WInv, IInv, VerifyingRows
  <2>. QED
    BY <1>1, <2>1 DEF ProofApplies, Terminal
<1>3. Rewrites
  <2>1. /\ DOMAIN journal' = DOMAIN journal
        /\ \A k \in DOMAIN journal : k # i => journal'[k] = journal[k]
        /\ journal'[i].state = v.verdict
        /\ journal'[i].epoch = journal[i].epoch
    BY <1>1, <1>2, SettledRow, Zenon DEF WithProof, WInv, IInv
  <2>. QED
    BY <1>2, <2>1, Zenon DEF Rewrites
<1>4. CallsGoOn
  BY Zenon DEF CallsGoOn
<1>5. EpochsStay
  BY <1>1, FencesKeepEpochs
<1>6. ServesOn
  BY <1>5, Zenon DEF ServesOn, EpochsStay
<1>7. Unresolved(journal') = {} => \A k \in DOMAIN journal, q \in Proc : ~LiveIntent(k, q)'
  BY <1>3, Zenon DEF Unresolved, IsUnresolved, LiveIntent, Rewrites
<1>8. FollowsOn
  BY <1>1, <1>7, Zenon DEF FollowsOn, InFlight
<1>9. FenceOn
  <2>1. owner' = Unfenced(owner) => \A w \in Worker : owner'[w].fenced = FALSE
    BY Zenon DEF Unfenced, WInv, IInv, TypeOK, OwnerRow
  <2>. QED
    BY <1>1, <2>1, Zenon DEF FenceOn
<1>. QED
  BY <1>3, <1>4, <1>6, <1>8, <1>9, IntentQuiet, Zenon

\* reconcile and its verifiers.
LEMMA VerifierIntents ==
    ASSUME WInv, IntentInv, NEW v \in verifying,
           VerifierAnswers(v) \/ VerifierStops(v) \/ ReconcileReturns(v)
    PROVE  IntentInv'
<1>1. UNCHANGED <<epochOf, ready, call>>
  BY Zenon DEF VerifierAnswers, VerifierStops, ReconcileReturns, Answered, callers
<1>. DEFINE p == v.proc
            w == v.snapshot.worker
            r == recovery[p][w]
<1>2. p \in Proc /\ w \in Worker
  BY Zenon DEF WInv, IInv, TypeOK, Verification, Row
<1>3. CASE VerifierAnswers(v) \/ VerifierStops(v)
  <2>1. UNCHANGED <<journal, owner, latches, recovery>>
    BY <1>3, Zenon DEF VerifierAnswers, VerifierStops, Verify, VerifierExits, callers
  <2>2. recovery' = [recovery EXCEPT ![p][w] = r]
    BY <2>1, Zenon DEF WInv, CallInv, WTypeOK
  <2>3. r.phase \in {"reconciling", "waiting", "restoring"} => Serves(p, w)
    BY Zenon DEF Serves, Recovering
  <2>. HIDE DEF p, w, r
  <2>. QED
    BY <1>1, <1>2, <2>1, <2>2, <2>3, RecoveryKeepsIntents, Zenon
<1>4. CASE ReconcileReturns(v)
  <2>1. Awaiting(v)
    BY <1>4, Zenon DEF ReconcileReturns, ApplyProof, ProofApplies, Terminal, RefuseProof,
           HoldsSlot, VerifierTimeout, Verify, Awaiting
  <2>2. Recovering(p, w) = "waiting"
    BY <2>1 DEF WInv, CallInv, Awaited
  <2>3. Serves(p, w)
    BY <2>2, SMTT(30) DEF Serves
  <2>4. PICK new : recovery' = [recovery EXCEPT ![p][w] = new]
    BY <1>4, Zenon DEF ReconcileReturns, Answered, WInv, CallInv, WTypeOK
  <2>5. \A q \in Proc, x \in Worker :
           recovery'[q][x] = IF q = p /\ x = w THEN new ELSE recovery[q][x]
    BY <1>2, <2>4 DEF WInv, CallInv, WTypeOK
  <2>6. \A q \in Proc, x \in Worker : Serves(q, x)' => Serves(q, x)
    <3>. HIDE DEF p, w, r
    <3>. QED
      BY <1>1, <2>3, <2>5, SMTT(30) DEF Serves, Recovering
  <2>7. CASE \E k \in Receipt : ApplyProof(v, k)
    BY <1>1, <2>6, <2>7, ProofIntents, Zenon
  <2>8. CASE RefuseProof(v) \/ VerifierTimeout(v)
    <3>1. UNCHANGED <<journal, owner, latches>>
      BY <2>8, Zenon DEF RefuseProof, VerifierTimeout, Verify
    <3>. HIDE DEF p, w, r
    <3>. QED
      BY <1>1, <1>2, <2>3, <2>4, <3>1, RecoveryKeepsIntents, Zenon
  <2>. QED
    BY <1>4, <2>7, <2>8, Zenon DEF ReconcileReturns
<1>. QED
  BY <1>3, <1>4, Zenon

\* A call under way goes on with its row or ends, and admits nothing.
LEMMA CallKeepsIntents ==
    ASSUME WInv, IntentInv, NEW t \in Thread, call[t] # NoCall,
           \A u \in Thread : u # t => call'[u] = call[u],
           UNCHANGED <<epochOf, recovery, ready>>,
           Rewrites, EpochsStay, FenceOn,
           \/ call'[t] = NoCall
           \/ /\ call'[t] # NoCall
              /\ call[t].pc # "looked" /\ call'[t].pc # "looked"
              /\ call'[t].proc = call[t].proc /\ call'[t].index = call[t].index,
           \A i \in DOMAIN journal, q \in Proc :
              /\ call[t].index = i /\ call[t].pc # "looked"
              /\ call'[t] = NoCall /\ LiveIntent(i, q)'
              => q \in latches',
           \A i \in DOMAIN journal, q \in Proc :
              LiveIntent(i, q)' /\ q \in latches => q \in latches'
    PROVE  IntentInv'
<1>1. CallsGoOn
  BY Zenon DEF CallsGoOn
<1>2. ServesOn
  BY Zenon DEF ServesOn, EpochsStay, Serves, Recovering
<1>3. FollowsOn
  <2>. SUFFICES ASSUME NEW i \in DOMAIN journal, NEW q \in Proc,
                       LiveIntent(i, q)', InFlight(i), q \notin latches'
                PROVE  InFlight(i)'
    BY Zenon DEF FollowsOn
  <2>1. PICK u \in Thread : call[u] # NoCall /\ call[u].index = i
    BY Zenon DEF InFlight
  <2>2. CASE u # t
    BY <2>1, <2>2, Zenon DEF InFlight
  <2>3. CASE u = t
    <3>1. call[t].pc # "looked"
      <4>1. 0 \notin DOMAIN journal
        BY DEF WInv, IInv, TypeOK
      <4>. QED
        BY <2>1, <2>3, <4>1, Zenon DEF IntentInv, CallEpochs
    <3>2. call'[t] # NoCall /\ call'[t].index = i
      BY <2>1, <2>3, <3>1, Zenon
    <3>. QED
      BY <3>2, Zenon DEF InFlight
  <2>. QED
    BY <2>2, <2>3, Zenon
<1>. QED
  BY <1>1, <1>2, <1>3, IntentQuiet, Zenon

\* A step of a call that leaves the journal alone.
LEMMA StoreUntouched ==
    ASSUME WInv, IntentInv, UNCHANGED <<journal, owner, epochOf>>, latches \subseteq latches'
    PROVE  Rewrites /\ EpochsStay /\ FenceOn
<1>1. Rewrites /\ EpochsStay
  BY Zenon DEF Rewrites, EpochsStay
<1>2. FenceOn
  BY Zenon DEF FenceOn, IntentInv, FenceFollowed
<1>. QED
  BY <1>1, <1>2

\* begin_request looks its operation up: a call without a row yet.
LEMMA LookUpIntents ==
    ASSUME WInv, IntentInv, NEW t \in Thread, NEW x \in ready, NEW op \in Op, NEW key \in Key,
           LookUp(t, x[1], x[2], op, key)
    PROVE  IntentInv'
<1>1. /\ call[t] = NoCall
      /\ UNCHANGED <<journal, owner, latches, epochOf, recovery, ready>>
      /\ call'[t] = [pc |-> "looked", proc |-> x[1], worker |-> x[2], op |-> op,
                     key |-> key, index |-> 0, result |-> "failed"]
      /\ \A u \in Thread : u # t => call'[u] = call[u]
  BY Zenon DEF LookUp, vars, WInv, CallInv, WTypeOK
<1>2. call'[t].pc = "looked" /\ call'[t].index = 0
  BY <1>1
<1>3. CallsGoOn
  BY <1>1, <1>2, Zenon DEF CallsGoOn
<1>4. Rewrites /\ FenceOn
  BY <1>1, StoreUntouched, Zenon
<1>5. ServesOn
  BY <1>1, Zenon DEF ServesOn, Serves, Recovering
<1>6. FollowsOn
  BY <1>1, Zenon DEF FollowsOn, InFlight
<1>. QED
  BY <1>1, <1>3, <1>4, <1>5, <1>6, IntentQuiet, Zenon

\* begin admits the current owner, whose run is not fenced: the new intent has
\* the epoch of every other one.
LEMMA AdmitIntents ==
    ASSUME WInv, OwnInv, IntentInv, OneWorker, NEW t \in Thread, Admit(t)
    PROVE  IntentInv'
<1>. DEFINE c == call[t]
            n == Len(journal) + 1
            e == epochOf[c.proc]
<1>1. Admitted(t, c, n)
  BY AdmitAppends
<1>2. /\ <<c.proc, c.worker>> \in ready
      /\ HasOwner(c.worker)
      /\ owner[c.worker].epoch = e
      /\ EpochsStay
  BY AdmittedOwner
<1>3. /\ \A u \in Thread : u # t => call'[u] = call[u]
      /\ UNCHANGED <<epochOf, recovery, ready>>
  BY CallFrame, Zenon DEF CallStep
<1>4. \A i \in DOMAIN journal : journal[i].state = "intent" => journal[i].epoch = e
  <2>1. Serves(c.proc, c.worker) /\ c.proc \in Proc /\ c.worker \in Worker
    BY <1>1, <1>2, Zenon DEF Serves, Admitted
  <2>. QED
    BY <1>2, <2>1, Zenon DEF IntentInv, IntentsOfOwner
<1>. HIDE DEF n
<1>5. \A i \in DOMAIN journal' : journal'[i].state = "intent" => journal'[i].epoch = e
  BY <1>1, <1>4, SMTT(30) DEF Admitted
<1>6. \A u \in Thread : call[u] # NoCall /\ call[u].pc # "looked" =>
         call[u].index \in DOMAIN journal
  BY Zenon DEF WInv, CallInv, CallRows, CallRow
<1>7. c # NoCall /\ c.index \notin DOMAIN journal
  <2>1. c # NoCall
    BY <1>1, CallUnderWay, SMTT(30) DEF Admitted
  <2>2. 0 \notin DOMAIN journal
    BY SMTT(30) DEF WInv, IInv, TypeOK
  <2>. QED
    BY <1>1, <2>1, <2>2, Zenon DEF IntentInv, CallEpochs, Admitted
<1>8. CallEpochs'
  <2>1. ASSUME NEW u \in Thread, call'[u] # NoCall, u # t
        PROVE  IF call'[u].pc = "looked" THEN call'[u].index = 0
               ELSE journal'[call'[u].index].epoch = epochOf'[call'[u].proc]
    BY <1>1, <1>3, <1>6, <2>1, SMTT(30) DEF IntentInv, CallEpochs, Admitted
  <2>2. IF call'[t].pc = "looked" THEN call'[t].index = 0
        ELSE journal'[call'[t].index].epoch = epochOf'[call'[t].proc]
    BY <1>1, <1>3, Zenon DEF Admitted
  <2>. QED
    BY <2>1, <2>2, Zenon DEF CallEpochs
<1>9. IntentsOneEpoch'
  BY <1>5, Zenon DEF IntentsOneEpoch
<1>10. IntentsOfOwner'
  <2>. SUFFICES ASSUME NEW q \in Proc, NEW w \in Worker, owner'[w].epoch = epochOf'[q],
                       NEW i \in DOMAIN journal', journal'[i].state = "intent"
                PROVE  journal'[i].epoch = epochOf'[q]
    BY Zenon DEF IntentsOfOwner
  <2>1. w = c.worker
    BY <1>1, Zenon DEF OneWorker, Admitted
  <2>2. epochOf[q] = e
    BY <1>1, <1>3, <2>1, Zenon DEF Admitted
  <2>. QED
    BY <1>3, <1>5, <2>2, Zenon
<1>11. IntentsFollowed'
  <2>. SUFFICES ASSUME NEW i \in DOMAIN journal', NEW q \in Proc, LiveIntent(i, q)'
                PROVE  InFlight(i)' \/ q \in latches'
    BY Zenon DEF IntentsFollowed
  <2>1. CASE i = n
    BY <1>1, <2>1, Zenon DEF InFlight, Admitted
  <2>2. CASE i \in DOMAIN journal
    <3>1. LiveIntent(i, q)
      BY <1>1, <1>3, <2>2, SMTT(30) DEF LiveIntent, Up, Admitted
    <3>2. InFlight(i) \/ q \in latches
      BY <2>2, <3>1, Zenon DEF IntentInv, IntentsFollowed
    <3>3. InFlight(i) => InFlight(i)'
      BY <1>3, <1>7, <2>2, Zenon DEF InFlight
    <3>. QED
      BY <1>1, <3>2, <3>3, Zenon DEF Admitted
  <2>. QED
    BY <1>1, <2>1, <2>2, Zenon DEF Admitted
<1>12. FenceFollowed'
  <2>1. ~owner[c.worker].fenced
    BY <1>1, <1>2, Zenon DEF Admitted, EnsureOwner
  <2>2. \A w \in Worker : ~owner'[w].fenced
    BY <1>1, <2>1, Zenon DEF OneWorker, Admitted
  <2>. QED
    BY <2>2, Zenon DEF FenceFollowed
<1>. QED
  BY <1>8, <1>9, <1>10, <1>11, <1>12, Zenon DEF IntentInv

\* A published outcome: the process of the last bare intent of a fenced run is
\* latched, so its outcome lifts the fence.
LEMMA PublishIntents ==
    ASSUME WInv, OwnInv, IntentInv, NEW t \in Thread, Publish(t)
    PROVE  IntentInv'
<1>. DEFINE c == call[t]
            i == c.index
<1>1. PICK r \in Receipt : /\ AcceptsOutcome(i, c.result, r)
                           /\ journal' = WithOutcome(i, c.result, r)
                           /\ CommitSettledRun(c.proc, journal')
  BY Zenon DEF Publish, Outcome, OutcomeAndCheckpoint
<1>2. /\ c.pc = "returned" /\ (Finish(t) \/ Goto(t, "raised"))
      /\ UNCHANGED <<epochOf, recovery, ready>>
  BY Zenon DEF Publish
<1>3. /\ c # NoCall /\ c \in CallState /\ Up(c.proc) /\ c.proc \in Proc
      /\ i \in DOMAIN journal /\ c.pc # "looked"
  BY <1>2, CallAt, SMTT(30) DEF CallRow
<1>4. c.result \in Terminal
  BY <1>3, SMTT(30) DEF CallState
<1>5. c.result # "intent" /\ c.result # "uncertain"
  BY <1>4 DEF Terminal
<1>6. /\ \A u \in Thread : u # t => call'[u] = call[u]
      /\ \/ call'[t] = NoCall
         \/ /\ call'[t] # NoCall /\ call'[t].pc = "raised"
            /\ call'[t].proc = c.proc /\ call'[t].index = i
  <2>1. c.pc # "idle" /\ "raised" \in {"raised", "latching"}
    BY <1>2, Zenon
  <2>. QED
    BY <1>2, <2>1, CallChange, Zenon
<1>7. /\ DOMAIN journal' = DOMAIN journal
      /\ \A k \in DOMAIN journal : k # i => journal'[k] = journal[k]
      /\ journal'[i].epoch = journal[i].epoch
      /\ journal'[i].state = c.result
      /\ journal[i].state = "intent" \/ journal[i].state = c.result
  <2>1. CASE journal[i].state = "intent"
    <3>1. journal' = [journal EXCEPT ![i].state = c.result, ![i].receipt = r]
      BY <1>1, <2>1, Zenon DEF WithOutcome
    <3>2. journal[i] \in Row /\ journal \in Seq(Row)
      BY <1>3, SMTT(30) DEF WInv, IInv, TypeOK
    <3>3. journal'[i] = [journal[i] EXCEPT !.state = c.result, !.receipt = r]
      BY <1>3, <3>1, Zenon
    <3>4. journal'[i].state = c.result /\ journal'[i].epoch = journal[i].epoch
      BY <3>2, <3>3, Zenon DEF Row
    <3>5. /\ DOMAIN journal' = DOMAIN journal
          /\ \A k \in DOMAIN journal : k # i => journal'[k] = journal[k]
      BY <3>1, Zenon
    <3>. QED
      BY <2>1, <3>4, <3>5, Zenon
  <2>2. CASE journal[i].state # "intent"
    BY <1>1, <2>2, Zenon DEF WithOutcome, AcceptsOutcome
  <2>. QED
    BY <2>1, <2>2, SMTT(30)
<1>8. Rewrites
  BY <1>3, <1>5, <1>7, Zenon DEF Rewrites
<1>9. \/ Unresolved(journal') = {} /\ owner' = Unfenced(owner)
      \/ /\ UNCHANGED <<owner, latches>>
         /\ c.proc \notin latches \/ Unresolved(journal') # {}
  BY <1>1, Zenon DEF CommitSettledRun
<1>10. EpochsStay
  BY <1>9, FencesKeepEpochs, SMTT(30)
<1>11. Unresolved(journal') = {} => \A k \in DOMAIN journal, q \in Proc : ~LiveIntent(k, q)'
  BY <1>8 DEF Unresolved, IsUnresolved, LiveIntent, Rewrites
<1>12. FenceOn
  <2>1. CASE owner' = Unfenced(owner)
    <3>1. \A w \in Worker : owner'[w].fenced = FALSE
      BY <2>1, Zenon DEF Unfenced, WInv, IInv, TypeOK, OwnerRow
    <3>. QED
      BY <3>1, Zenon DEF FenceOn
  <2>2. CASE UNCHANGED <<owner, latches>> /\ (c.proc \notin latches \/ Unresolved(journal') # {})
    <3>1. ASSUME NEW w \in Worker, owner[w].fenced, Unresolved(journal') = {}
          PROVE  FALSE
      <4>1. PICK k \in DOMAIN journal : IsUnresolved(journal[k])
        BY <3>1, SMTT(30) DEF IntentInv, FenceFollowed, Unresolved
      <4>2. k = i
        BY <1>7, <3>1, <4>1, Zenon DEF Unresolved
      <4>3. journal[i].state = "intent"
        BY <1>5, <1>7, <4>1, <4>2 DEF IsUnresolved
      <4>4. journal[i].epoch = epochOf[c.proc]
        BY <1>3, Zenon DEF IntentInv, CallEpochs
      <4>5. LiveIntent(i, c.proc)
        BY <1>3, <4>3, <4>4, Zenon DEF LiveIntent
      <4>. QED
        BY <1>3, <2>2, <3>1, <4>5, Zenon DEF IntentInv, FenceFollowed
    <3>. QED
      BY <2>2, <3>1, Zenon DEF FenceOn
  <2>. QED
    BY <1>9, <2>1, <2>2, SMTT(30)
<1>13. \A k \in DOMAIN journal, q \in Proc : c.index = k => ~LiveIntent(k, q)'
  BY <1>5, <1>7, Zenon DEF LiveIntent
<1>14. \A k \in DOMAIN journal, q \in Proc : LiveIntent(k, q)' /\ q \in latches => q \in latches'
  BY <1>9, <1>11, Zenon
<1>15. call'[t] # NoCall => call'[t].pc # "looked"
  BY <1>6, Zenon
<1>. QED
  BY <1>2, <1>3, <1>6, <1>8, <1>10, <1>12, <1>13, <1>14, <1>15, CallKeepsIntents, Zenon

\* One _record_uncertainty call: it marks the row of its process and latches the
\* process, or it finds the row definitive, or it only latches.
LEMMA UncertaintyIntents ==
    ASSUME WInv, OwnInv, IntentInv, OneWorker, NEW t \in Thread,
           MarkUncertain(t) \/ LatchUncertainty(t)
    PROVE  IntentInv'
<1>. DEFINE c == call[t]
            i == c.index
<1>1. /\ c.pc = "raised" \/ c.pc = "latching"
      /\ Uncertainty(c) \/ RecordUncertaintyFails(c.proc)
      /\ Finish(t) \/ Goto(t, "latching")
      /\ UNCHANGED <<epochOf, recovery, ready>>
  BY Zenon DEF MarkUncertain, LatchUncertainty
<1>2. c.pc # "idle" /\ c.pc # "looked" /\ "latching" \in {"raised", "latching"}
  BY <1>1, Zenon
<1>3. c # NoCall /\ Up(c.proc) /\ c.proc \in Proc /\ i \in DOMAIN journal
  BY <1>2, CallAt, Zenon DEF CallRow
<1>4. /\ \A u \in Thread : u # t => call'[u] = call[u]
      /\ \/ call'[t] = NoCall
         \/ /\ call'[t] # NoCall /\ call'[t].pc = "latching"
            /\ call'[t].proc = c.proc /\ call'[t].index = i
  BY <1>1, <1>2, CallChange, Zenon
<1>5. call'[t] = NoCall \/ call'[t].pc # "looked"
  BY <1>4, Zenon
<1>6. journal[i].epoch = epochOf[c.proc]
  BY <1>2, <1>3, Zenon DEF IntentInv, CallEpochs
<1>7. \A q \in Proc : epochOf[q] = journal[i].epoch => q = c.proc
  BY <1>3, <1>6, Zenon DEF OwnInv, OwnerInv
<1>8. ASSUME Rewrites, EpochsStay, FenceOn, latches \subseteq latches',
             \A k \in DOMAIN journal, q \in Proc :
                k = i /\ LiveIntent(k, q)' => q \in latches'
      PROVE  IntentInv'
  BY <1>1, <1>2, <1>3, <1>4, <1>5, <1>8, CallKeepsIntents, Zenon
<1>9. CASE RecordUncertainty(c.proc, i)
  <2>1. Marks /\ journal'[i].state = "uncertain"
    BY <1>3, <1>9, RecordMarks, Zenon DEF WInv, IInv
  <2>2. /\ owner' = Fenced(owner) /\ latches' = latches \cup {c.proc}
        /\ IsUnresolved(journal[i])
    BY <1>9, Zenon DEF RecordUncertainty
  <2>3. Rewrites
    BY <2>1, SMTT(30) DEF Rewrites, Marks
  <2>4. EpochsStay
    BY <2>2, FencesKeepEpochs, SMTT(30)
  <2>5. Unresolved(journal') # {}
    BY <1>3, <2>1, <2>3, SMTT(30) DEF Unresolved, IsUnresolved, Rewrites
  <2>6. ASSUME NEW w \in Worker, NEW k \in DOMAIN journal, NEW q \in Proc,
               LiveIntent(k, q)', owner[w].fenced => q \in latches
        PROVE  q \in latches'
    <3>1. LiveIntent(k, q)
      BY <1>1, <2>3, <2>6, SMTT(30) DEF Rewrites, LiveIntent, Up
    <3>2. CASE journal[i].state = "uncertain"
      <4>1. journal[i].worker \in Worker
        BY <1>3, RowWorker
      <4>2. owner[w].fenced
        BY <1>3, <3>2, <4>1, Zenon DEF WInv, IInv, UncertainFenced, OneWorker
      <4>. QED
        BY <2>2, <2>6, <4>2, Zenon
    <3>3. CASE journal[i].state = "intent"
      <4>1. journal[k].epoch = journal[i].epoch
        BY <1>3, <3>1, <3>3, Zenon DEF IntentInv, IntentsOneEpoch, LiveIntent
      <4>2. q = c.proc
        BY <1>7, <3>1, <4>1, Zenon DEF LiveIntent
      <4>. QED
        BY <2>2, <4>2, Zenon
    <3>. QED
      BY <2>2, <3>2, <3>3 DEF IsUnresolved
  <2>7. FenceOn
    BY <2>5, <2>6, Zenon DEF FenceOn
  <2>8. \A k \in DOMAIN journal, q \in Proc : k = i => ~LiveIntent(k, q)'
    <3>1. \A k \in DOMAIN journal : k = i => journal'[k].state # "intent"
      BY <2>1, Zenon
    <3>. QED
      BY <3>1, Zenon DEF LiveIntent
  <2>9. latches \subseteq latches'
    BY <2>2, Zenon
  <2>. QED
    BY <1>8, <2>3, <2>4, <2>7, <2>8, <2>9, Zenon
<1>10. CASE ~IsUnresolved(journal[i]) /\ UNCHANGED vars
  <2>1. UNCHANGED <<journal, owner, latches>>
    BY <1>10, Zenon DEF vars
  <2>2. Rewrites /\ EpochsStay /\ FenceOn
    BY <1>1, <2>1, StoreUntouched, Zenon
  <2>3. \A k \in DOMAIN journal, q \in Proc : k = i => ~LiveIntent(k, q)'
    <3>1. \A k \in DOMAIN journal : k = i => journal'[k].state # "intent"
      BY <1>10, <2>1, Zenon DEF IsUnresolved
    <3>. QED
      BY <3>1, Zenon DEF LiveIntent
  <2>. QED
    BY <1>8, <2>1, <2>2, <2>3, Zenon
<1>11. CASE RecordUncertaintyFails(c.proc)
  <2>1. UNCHANGED <<journal, owner>> /\ latches' = latches \cup {c.proc}
    BY <1>11, Zenon DEF RecordUncertaintyFails
  <2>2. latches \subseteq latches'
    BY <2>1, Zenon
  <2>3. Rewrites /\ EpochsStay /\ FenceOn
    BY <1>1, <2>1, <2>2, StoreUntouched, Zenon
  <2>4. \A k \in DOMAIN journal, q \in Proc : k = i /\ LiveIntent(k, q)' => q \in latches'
    <3>1. \A k \in DOMAIN journal, q \in Proc :
             k = i /\ LiveIntent(k, q)' => epochOf[q] = journal[i].epoch
      BY <1>1, <2>1, Zenon DEF LiveIntent
    <3>. QED
      BY <1>7, <2>1, <3>1, Zenon
  <2>. QED
    BY <1>8, <2>2, <2>3, <2>4, Zenon
<1>. QED
  BY <1>1, <1>9, <1>10, <1>11, Zenon DEF Uncertainty

\* Every step of a call.
LEMMA CallIntents ==
    ASSUME WInv, OwnInv, IntentInv, OneWorker, NEW t \in Thread, CallStep(t)
    PROVE  IntentInv'
<1>1. /\ \A u \in Thread : u # t => call'[u] = call[u]
      /\ UNCHANGED <<epochOf, recovery, ready>>
  BY CallFrame, Zenon
<1>2. CASE AdmitReplayed(t) \/ AdmitRefused(t)
  <2>1. call[t].pc = "looked" /\ Finish(t) /\ UNCHANGED <<journal, owner, latches>>
    BY <1>2, Zenon DEF AdmitReplayed, AdmitRefused, vars
  <2>2. call[t] # NoCall /\ call'[t] = NoCall
    <3>1. call[t].pc # "idle"
      BY <2>1, Zenon
    <3>. QED
      BY <2>1, <3>1, CallUnderWay, Zenon DEF Finish, WInv, CallInv, WTypeOK
  <2>3. Rewrites /\ EpochsStay /\ FenceOn
    BY <1>1, <2>1, StoreUntouched, Zenon
  <2>. QED
    BY <1>1, <2>1, <2>2, <2>3, CallKeepsIntents, Zenon
<1>3. CASE Invoke(t) \/ InvokeRaises(t) \/ PublishFails(t)
  <2>1. /\ call[t].pc = "admitted" \/ call[t].pc = "returned"
        /\ UNCHANGED <<journal, owner, latches>>
    BY <1>3, Zenon DEF Invoke, InvokeRaises, PublishFails, vars
  <2>2. call[t] # NoCall /\ call[t] \in CallState /\ call[t].pc # "looked"
    BY <2>1, CallAt, Zenon
  <2>3. call[t] \in [pc: {"looked", "admitted", "returned", "raised", "latching"},
              proc: Proc, worker: Worker, op: Op, key: Key, index: Nat,
              result: Terminal]
    BY <2>2, Zenon DEF CallState
  <2>4. \/ call'[t] = [call[t] EXCEPT !.pc = "raised"]
        \/ \E r \in Terminal : call'[t] = [call[t] EXCEPT !.pc = "returned", !.result = r]
    BY <1>3, Zenon DEF Invoke, InvokeRaises, PublishFails, Goto, WInv, CallInv, WTypeOK
  <2>5. /\ call'[t].pc = "raised" \/ call'[t].pc = "returned"
        /\ call'[t].proc = call[t].proc /\ call'[t].index = call[t].index
    BY <2>3, <2>4, Zenon
  <2>6. call'[t] # NoCall /\ call'[t].pc # "looked"
    BY <2>5 DEF NoCall
  <2>7. Rewrites /\ EpochsStay /\ FenceOn
    BY <1>1, <2>1, StoreUntouched, Zenon
  <2>. QED
    BY <1>1, <2>1, <2>2, <2>5, <2>6, <2>7, CallKeepsIntents, Zenon
<1>4. CASE \E x \in ready, op \in Op, key \in Key : LookUp(t, x[1], x[2], op, key)
  BY <1>4, LookUpIntents
<1>. QED
  BY <1>2, <1>3, <1>4, AdmitIntents, PublishIntents, UncertaintyIntents, Zenon DEF CallStep

\* No row of the journal has the epoch of a process that starts now.
LEMMA StartIntents ==
    ASSUME WInv, OwnInv, IntentInv, NEW p \in Proc, Start(p)
    PROVE  IntentInv'
<1>1. /\ ~Up(p)
      /\ epochOf' = [epochOf EXCEPT ![p] = clock + 1]
      /\ UNCHANGED <<journal, owner, latches, recovery, ready, call>>
  BY Zenon DEF Start, vars
<1>2. \A q \in Proc : epochOf'[q] = IF q = p THEN clock + 1 ELSE epochOf[q]
  BY <1>1 DEF WInv, CallInv, WTypeOK
<1>3. clock \in Nat
  BY StartsAssumption DEF WInv, CallInv, WTypeOK
<1>4. \A i \in DOMAIN journal : journal[i].epoch # clock + 1
  <2>1. ASSUME NEW i \in DOMAIN journal PROVE journal[i].epoch # clock + 1
    <3>1. journal[i].worker \in Worker /\ journal[i].epoch \in Nat
      <4>1. journal[i] \in Row
        BY SMTT(30) DEF WInv, IInv, TypeOK
      <4>. QED
        BY <4>1, EpochAssumption, Zenon DEF Row
    <3>2. owner[journal[i].worker].epoch \in Nat
      BY <3>1, EpochAssumption DEF WInv, IInv, TypeOK, OwnerRow
    <3>3. journal[i].epoch <= owner[journal[i].worker].epoch
      BY Zenon DEF WInv, IInv, EpochsOrdered
    <3>4. owner[journal[i].worker].epoch <= clock
      BY <3>1, Zenon DEF OwnInv, OwnerInv
    <3>. QED
      BY <1>3, <3>1, <3>2, <3>3, <3>4, SMTT(30)
  <2>. QED
    BY <2>1, Zenon
<1>5. \A t \in Thread : call[t] # NoCall => call[t].proc \in Proc /\ call[t].proc # p
  BY <1>1, CallTyped, Zenon DEF WInv, CallInv, Alive
<1>6. CallEpochs'
  <2>1. \A t \in Thread : call[t] # NoCall => epochOf'[call[t].proc] = epochOf[call[t].proc]
    BY <1>2, <1>5, SMTT(30)
  <2>. QED
    BY <1>1, <2>1, Zenon DEF IntentInv, CallEpochs
<1>7. \A w \in Worker : ~Serves(p, w)
  <2>1. \A w \in Worker : <<p, w>> \notin ready
    BY <1>1, Zenon DEF WInv, CallInv, Alive
  <2>2. \A w \in Worker : recovery[p][w] = NoRecovery
    BY <1>1, Zenon DEF WInv, CallInv, Alive
  <2>. QED
    BY <2>1, <2>2, SMTT(30) DEF Serves, Recovering, NoRecovery
<1>8. IntentsOfOwner'
  BY <1>1, <1>2, <1>7 DEF IntentInv, IntentsOfOwner, Serves, Recovering
<1>9. \A i \in DOMAIN journal, q \in Proc : LiveIntent(i, q)' => LiveIntent(i, q)
  BY <1>1, <1>2, <1>4, Zenon DEF LiveIntent, Up
<1>10. IntentsFollowed' /\ FenceFollowed'
  BY <1>1, <1>9, Zenon DEF IntentInv, IntentsFollowed, FenceFollowed, InFlight
<1>11. IntentsOneEpoch'
  BY <1>1, Zenon DEF IntentInv, IntentsOneEpoch
<1>. QED
  BY <1>6, <1>8, <1>10, <1>11, Zenon DEF IntentInv

\* The intents of a process that dies are nobody's; the calls and the latches of
\* the others stay.
LEMMA DieIntents ==
    ASSUME WInv, OwnInv, IntentInv, NEW p \in Proc, Die(p)
    PROVE  IntentInv'
<1>1. /\ UNCHANGED <<journal, owner>> /\ Up(p)
      /\ latches' = latches \ {p}
      /\ ready' = {x \in ready : x[1] # p}
  BY Zenon DEF Die, Crash
<1>2. \A q \in Proc : epochOf'[q] = IF q = p THEN 0 ELSE epochOf[q]
  BY Zenon DEF Die, WInv, CallInv, WTypeOK
<1>3. \A q \in Proc, w \in Worker :
         recovery'[q][w] = IF q = p THEN NoRecovery ELSE recovery[q][w]
  BY Zenon DEF Die, WInv, CallInv, WTypeOK
<1>4. \A t \in Thread :
         call'[t] = IF call[t] # NoCall /\ call[t].proc = p THEN NoCall ELSE call[t]
  BY Zenon DEF Die
<1>5. \A t \in Thread : call[t] # NoCall => call[t].proc \in Proc
  BY CallTyped, Zenon DEF WInv, CallInv
<1>6. CallEpochs'
  <2>1. \A t \in Thread : call'[t] # NoCall =>
           /\ call'[t] = call[t] /\ call[t] # NoCall
           /\ epochOf'[call[t].proc] = epochOf[call[t].proc]
    BY <1>2, <1>4, <1>5, Zenon
  <2>. QED
    BY <1>1, <2>1, SMTT(30) DEF IntentInv, CallEpochs
<1>7. \A q \in Proc, w \in Worker : Serves(q, w)' => q # p /\ Serves(q, w)
  <2>1. NoRecovery.phase \notin {"reconciling", "waiting", "restoring"}
    BY Zenon DEF NoRecovery
  <2>. QED
    BY <1>1, <1>3, <2>1, Zenon DEF Serves, Recovering
<1>8. IntentsOfOwner'
  BY <1>1, <1>2, <1>7, SMTT(30) DEF IntentInv, IntentsOfOwner
<1>9. \A i \in DOMAIN journal, q \in Proc : LiveIntent(i, q)' => q # p /\ LiveIntent(i, q)
  BY <1>1, <1>2 DEF LiveIntent, Up
<1>10. \A i \in DOMAIN journal, q \in Proc :
          LiveIntent(i, q)' /\ InFlight(i) => InFlight(i)'
  <2>. SUFFICES ASSUME NEW i \in DOMAIN journal, NEW q \in Proc,
                       LiveIntent(i, q)', InFlight(i)
                PROVE  InFlight(i)'
    OBVIOUS
  <2>1. PICK t \in Thread : call[t] # NoCall /\ call[t].index = i
    BY Zenon DEF InFlight
  <2>2. call[t].pc # "looked"
    <3>1. 0 \notin DOMAIN journal
      BY SMTT(30) DEF WInv, IInv, TypeOK
    <3>. QED
      BY <2>1, <3>1, Zenon DEF IntentInv, CallEpochs
  <2>3. journal[i].epoch = epochOf[call[t].proc]
    BY <2>1, <2>2, Zenon DEF IntentInv, CallEpochs
  <2>4. q = call[t].proc
    <3>1. Up(q) /\ epochOf[q] = journal[i].epoch
      BY <1>9, Zenon DEF LiveIntent
    <3>2. \A x, y \in Proc : Up(x) /\ epochOf[x] = epochOf[y] => x = y
      BY Zenon DEF OwnInv, OwnerInv
    <3>3. call[t].proc \in Proc
      BY <1>5, <2>1, Zenon
    <3>. QED
      BY <2>3, <3>1, <3>2, <3>3, Zenon
  <2>5. call'[t] = call[t]
    BY <1>4, <1>9, <2>4, Zenon
  <2>. QED
    BY <2>1, <2>5, Zenon DEF InFlight
<1>11. IntentsFollowed'
  BY <1>1, <1>9, <1>10, Zenon DEF IntentInv, IntentsFollowed
<1>12. FenceFollowed'
  BY <1>1, <1>9, Zenon DEF IntentInv, FenceFollowed
<1>13. IntentsOneEpoch'
  BY <1>1, Zenon DEF IntentInv, IntentsOneEpoch
<1>. QED
  BY <1>6, <1>8, <1>11, <1>12, <1>13, Zenon DEF IntentInv

\* Every step keeps what is known about the bare intents.
LEMMA IntentInductive ==
    ASSUME OneWorker
    PROVE  WInv /\ OwnInv /\ IntentInv /\ [WNext]_wvars => IntentInv'
<1>. SUFFICES ASSUME WInv, OwnInv, IntentInv, [WNext]_wvars PROVE IntentInv'
  BY SMTT(30)
<1>1. ASSUME UNCHANGED <<journal, owner, latches, epochOf, recovery, ready, call>>
      PROVE  IntentInv'
  BY <1>1, ZenonT(40) DEF IntentInv, CallEpochs, IntentsOneEpoch, IntentsOfOwner,
       IntentsFollowed, FenceFollowed, Serves, Recovering, LiveIntent, Up, InFlight
<1>2. CASE \E p \in Proc : OpenJournal(p)
  BY <1>1, <1>2, Zenon DEF OpenJournal, vars
<1>3. CASE \E p \in Proc : Start(p) \/ Die(p)
  BY <1>3, StartIntents, DieIntents, Zenon
<1>4. CASE \E p \in Proc, w \in Worker : RecoveryStep(p, w)
  BY <1>4, RecoveryIntents, SMTT(30)
<1>5. CASE \E v \in verifying :
              VerifierAnswers(v) \/ VerifierStops(v) \/ ReconcileReturns(v)
  BY <1>5, VerifierIntents
<1>6. CASE \E t \in Thread : CallStep(t)
  BY <1>6, CallIntents, SMTT(30)
<1>7. CASE UNCHANGED wvars
  BY <1>1, <1>7, ZenonT(40) DEF wvars
<1>. QED
  BY <1>2, <1>3, <1>4, <1>5, <1>6, <1>7, Zenon DEF WNext

\* It holds of the empty journal.
LEMMA IntentInit == WInit => IntentInv
BY SMTT(30) DEF WInit, Init, IntentInv, CallEpochs, IntentsOneEpoch, IntentsOfOwner,
                IntentsFollowed, FenceFollowed

\* IntentInv is an invariant of a run with one worker.
THEOREM IntentsAlways ==
    ASSUME OneWorker
    PROVE  WSpec => []IntentInv
BY IntentInit, IntentInductive, WInductive, OwnAlways, PTL DEF WSpec

\* In a run with one worker the durable fence is never left behind: while the
\* worker is fenced, some effect is unresolved.
THEOREM FencesAreJustified ==
    ASSUME OneWorker
    PROVE  WSpec => []FenceJustified
<1>1. IntentInv => FenceJustified
  BY Zenon DEF IntentInv, FenceFollowed, FenceJustified
<1>. QED
  BY <1>1, IntentsAlways, PTL

\* Only begin adds a row.
LEMMA NoRowsAdded ==
    ASSUME WInv, [WNext]_wvars, ~\E t \in Thread : Admit(t)
    PROVE  DOMAIN journal' \subseteq DOMAIN journal
<1>1. CASE \E p \in Proc : Start(p) \/ OpenJournal(p) \/ Die(p)
  BY <1>1, Zenon DEF Start, OpenJournal, Die, Crash, vars
<1>2. CASE \E p \in Proc, w \in Worker : RecoveryStep(p, w)
  <2>1. PICK p \in Proc, w \in Worker : RecoveryStep(p, w)
    BY <1>2, Zenon
  <2>2. UNCHANGED journal \/ \E k \in Proc : Recover(k, NoneLive)
    BY <2>1, RecoveryFrame, Zenon DEF RecoverOrphans, OfferIntent, ReconcileSnapshot
  <2>. QED
    BY <2>2, RecoverMarks, Zenon DEF Marks, WInv, IInv
<1>3. CASE \E v \in verifying :
              VerifierAnswers(v) \/ VerifierStops(v) \/ ReconcileReturns(v)
  <2>1. PICK v \in verifying :
           VerifierAnswers(v) \/ VerifierStops(v) \/ ReconcileReturns(v)
    BY <1>3
  <2>2. UNCHANGED journal \/ \E r \in Receipt : journal' = WithProof(v, r)
    BY <2>1, Zenon DEF VerifierAnswers, VerifierStops, ReconcileReturns, Verify,
         VerifierExits, ApplyProof, RefuseProof, VerifierTimeout
  <2>. QED
    BY <2>2, Zenon DEF WithProof
<1>4. CASE \E t \in Thread : CallStep(t)
  <2>1. PICK t \in Thread : CallStep(t)
    BY <1>4
  <2>2. CASE Publish(t)
    <3>1. \E r \in Receipt : journal' = WithOutcome(call[t].index, call[t].result, r)
      BY <2>2, Zenon DEF Publish, Outcome, OutcomeAndCheckpoint
    <3>. QED
      BY <3>1, Zenon DEF WithOutcome
  <2>3. CASE MarkUncertain(t) \/ LatchUncertainty(t)
    <3>1. UNCHANGED journal \/ RecordUncertainty(call[t].proc, call[t].index)
      BY <2>3, Zenon DEF MarkUncertain, LatchUncertainty, Uncertainty,
                         RecordUncertaintyFails, vars
    <3>. QED
      BY <3>1, Zenon DEF RecordUncertainty
  <2>4. CASE ~Publish(t) /\ ~MarkUncertain(t) /\ ~LatchUncertainty(t)
    <3>1. UNCHANGED journal
      BY <2>1, <2>4, Zenon DEF CallStep, LookUp, AdmitReplayed, AdmitRefused, Invoke,
                               InvokeRaises, PublishFails, vars
    <3>. QED
      BY <3>1, Zenon
  <2>. QED
    BY <2>2, <2>3, <2>4, SMTT(30)
<1>5. CASE UNCHANGED wvars
  BY <1>5, Zenon DEF wvars
<1>. QED
  BY <1>1, <1>2, <1>3, <1>4, <1>5, Zenon DEF WNext

\* In a run with one worker nothing is admitted on top of an effect whose fate
\* is unknown: every other unresolved effect is a bare intent in flight.
THEOREM NothingAdmittedBlindly ==
    ASSUME OneWorker
    PROVE  WSpec => NoBlindAdmission
<1>1. WInv /\ OwnInv /\ IntentInv /\ [WNext]_wvars => [AdmissionStepKnown]_wvars
  <2>. SUFFICES ASSUME WInv, OwnInv, IntentInv, [WNext]_wvars
                PROVE  [AdmissionStepKnown]_wvars
    OBVIOUS
  <2>1. CASE \E t \in Thread : Admit(t)
    <3>1. PICK t \in Thread : Admit(t)
      BY <2>1, Zenon
    <3>. DEFINE c == call[t]
    <3>2. Admitted(t, c, Len(journal) + 1)
      BY <3>1, AdmitAppends, Zenon
    <3>3. /\ <<c.proc, c.worker>> \in ready
          /\ HasOwner(c.worker)
          /\ owner[c.worker].epoch = epochOf[c.proc]
      BY <3>1, AdmittedOwner, Zenon
    <3>4. ~owner[c.worker].fenced /\ c.proc \notin latches
      BY <3>2, <3>3, Zenon DEF Admitted, EnsureOwner
    <3>5. ASSUME NEW i \in Unresolved(journal)
          PROVE  journal[i].state = "intent" /\ InFlight(i)
      <4>1. i \in DOMAIN journal /\ (journal[i].state = "intent" \/ journal[i].state = "uncertain")
        BY <3>5, Zenon DEF Unresolved, IsUnresolved
      <4>2. journal[i].worker = c.worker
        <5>1. journal[i].worker \in Worker
          BY <4>1, RowWorker
        <5>. QED
          BY <3>2, <5>1, Zenon DEF OneWorker, Admitted
      <4>3. journal[i].state = "intent"
        BY <3>4, <4>1, <4>2, Zenon DEF WInv, IInv, UncertainFenced
      <4>4. Serves(c.proc, c.worker) /\ c.proc \in Proc /\ c.worker \in Worker /\ Up(c.proc)
        BY <3>2, <3>3, Zenon DEF Serves, Admitted
      <4>5. journal[i].epoch = epochOf[c.proc]
        BY <3>3, <4>1, <4>3, <4>4, Zenon DEF IntentInv, IntentsOfOwner
      <4>6. InFlight(i) \/ c.proc \in latches
        BY <4>1, <4>3, <4>4, <4>5, Zenon DEF IntentInv, IntentsFollowed, LiveIntent
      <4>. QED
        BY <3>4, <4>3, <4>6
    <3>. QED
      BY <3>5, Zenon DEF AdmissionStepKnown
  <2>2. CASE ~\E t \in Thread : Admit(t)
    <3>1. DOMAIN journal' \subseteq DOMAIN journal
      BY <2>2, NoRowsAdded, Zenon
    <3>. QED
      BY <3>1, Zenon DEF AdmissionStepKnown
  <2>. QED
    BY <2>1, <2>2
<1>. QED
  BY <1>1, WInductive, OwnAlways, IntentsAlways, PTL DEF WSpec, NoBlindAdmission

-----------------------------------------------------------------------------
(***************************************************************************)
(* How recoveries go on: the safety half of RecoveryEnds.                  *)
(***************************************************************************)

\* The other recoveries are left alone.
Alone(p, w) ==
    \A q \in Proc, x \in Worker :
        q # p \/ x # w => recovery'[q][x] = recovery[q][x]

Onward(p, w) ==
    \/ recovery'[p][w] = recovery[p][w]
    \/ Nearer(recovery[p][w], recovery'[p][w])

\* v is the call that the recovery of p and w waits for.
AnswerTo(v, p, w) ==
    /\ v.proc = p /\ v.snapshot.worker = w /\ Awaiting(v)
    /\ v.index \in recovery[p][w].todo

\* A recovery that waits has its call under way.
WaitCalled ==
    \A p \in Proc, w \in Worker :
        Recovering(p, w) = "waiting" => \E v \in verifying : AnswerTo(v, p, w)

\* A step of a recovery moves it on, and it waits only for what it has offered.
LEMMA RecoveryMoves ==
    ASSUME WInv, NEW p \in Proc, NEW w \in Worker, RecoveryStep(p, w)
    PROVE  /\ Alone(p, w)
           /\ Recovering(p, w) # "none" => Onward(p, w)
           /\ recovery'[p][w].phase = "waiting" =>
                  OfferIntent(p, w) \/ recovery'[p][w] = recovery[p][w]
<1>. DEFINE r == recovery[p][w]
<1>1. recovery \in [Proc -> [Worker -> RecoveryState]]
  BY SMTT(30) DEF WInv, CallInv, WTypeOK
<1>2. ASSUME NEW new, recovery' = [recovery EXCEPT ![p][w] = new]
      PROVE  Alone(p, w) /\ recovery'[p][w] = new
  BY <1>1, <1>2, SMTT(30) DEF Alone
<1>3. ASSUME Recovering(p, w) # "none"
      PROVE  r \in [phase: {"probed", "claimed", "reconciling", "waiting", "restoring"},
                    pass: BOOLEAN, todo: SUBSET Nat, fenced: BOOLEAN]
  BY <1>3, RecoveryAt, Zenon
<1>End. ASSUME recovery' = [recovery EXCEPT ![p][w] = NoRecovery]
        PROVE  /\ Alone(p, w) /\ Onward(p, w)
               /\ recovery'[p][w].phase # "waiting"
  <2>1. recovery'[p][w] = NoRecovery /\ Alone(p, w)
    BY <1>2, <1>End, Zenon
  <2>2. NoRecovery.phase = "none"
    BY DEF NoRecovery
  <2>3. Onward(p, w)
    BY <2>1, Zenon DEF Onward, Nearer
  <2>. QED
    BY <2>1, <2>2, <2>3, SMTT(30)
<1>4. CASE TakeRunLease(p, w)
  BY <1>4, Zenon DEF TakeRunLease, Alone, Onward
<1>5. CASE PassRefused(p, w) \/ RecoverRaises(p, w) \/ Restore(p, w)
  <2>1. recovery' = [recovery EXCEPT ![p][w] = NoRecovery]
    BY <1>5, Zenon DEF PassRefused, RecoverRaises, Restore
  <2>. QED
    BY <1>End, <2>1, Zenon
<1>6. CASE ProbePeers(p, w)
  <2>. DEFINE new == [phase |-> "probed", pass |-> TRUE, todo |-> {}, fenced |-> FALSE]
  <2>1. recovery' = [recovery EXCEPT ![p][w] = new] /\ Recovering(p, w) = "none"
    BY <1>6, Zenon DEF ProbePeers
  <2>2. new.phase = "probed"
    BY SMTT(30)
  <2>3. recovery'[p][w] = new /\ Alone(p, w)
    BY <1>2, <2>1, Zenon
  <2>. HIDE DEF new
  <2>. QED
    BY <2>1, <2>2, <2>3, SMTT(30)
<1>7. CASE Claim(p, w)
  <2>. DEFINE new == [phase |-> "claimed", pass |-> Recovering(p, w) = "probed",
                      todo |-> {}, fenced |-> FALSE]
  <2>1. recovery' = [recovery EXCEPT ![p][w] = new]
    BY <1>7, Zenon DEF Claim
  <2>2. recovery'[p][w] = new /\ Alone(p, w) /\ new.phase = "claimed"
    BY <1>2, <2>1, Zenon
  <2>3. Recovering(p, w) \in {"none", "probed"}
    BY <1>7, Zenon DEF Claim
  <2>. HIDE DEF new
  <2>. QED
    BY <2>2, <2>3 DEF Onward, Nearer, LaterPhase, Recovering
<1>8. CASE RecoverOrphans(p, w)
  <2>. DEFINE new == [r EXCEPT !.phase = "reconciling", !.todo = Orphaned(NoneLive)]
  <2>1. recovery' = [recovery EXCEPT ![p][w] = new] /\ Recovering(p, w) = "claimed"
    BY <1>1, <1>8, Zenon DEF RecoverOrphans
  <2>2. new.phase = "reconciling"
    BY <1>3, <2>1
  <2>3. recovery'[p][w] = new /\ Alone(p, w)
    BY <1>2, <2>1, Zenon
  <2>. HIDE DEF new
  <2>. QED
    BY <2>1, <2>2, <2>3, SMTT(30) DEF Onward, Nearer, LaterPhase, Recovering
<1>9. ASSUME recovery' = [recovery EXCEPT ![p][w] = Resumed(r)],
             Recovering(p, w) \in {"claimed", "reconciling"}
      PROVE  /\ Alone(p, w) /\ Onward(p, w)
             /\ recovery'[p][w].phase # "waiting"
  <2>1. Resumed(r) = NoRecovery \/ Resumed(r).phase = "restoring"
    BY <1>3, <1>9, SMTT(30) DEF Resumed
  <2>2. recovery'[p][w] = Resumed(r) /\ Alone(p, w)
    BY <1>2, <1>9, Zenon
  <2>. QED
    BY <1>9, <2>1, <2>2 DEF Onward, Nearer, LaterPhase, Recovering, NoRecovery
<1>10. CASE RecoverNothing(p, w)
  <2>1. recovery' = [recovery EXCEPT ![p][w] = Resumed(r)]
    BY <1>1, <1>10, Zenon DEF RecoverNothing
  <2>. QED
    BY <1>9, <1>10, <2>1, Zenon DEF RecoverNothing
<1>11. CASE SkipIntent(p, w)
  <2>1. PICK i \in r.todo :
           recovery' = [recovery EXCEPT ![p][w] = Examined(r, i, IsUnresolved(journal[i]))]
    BY <1>11, Zenon DEF SkipIntent
  <2>. DEFINE new == Examined(r, i, IsUnresolved(journal[i]))
  <2>2. Recovering(p, w) = "reconciling"
    BY <1>11, Zenon DEF SkipIntent
  <2>3. new.phase = "reconciling" /\ new.todo = r.todo \ {i}
    BY <1>3, <2>2, SMTT(30) DEF Examined
  <2>4. recovery'[p][w] = new /\ Alone(p, w)
    BY <1>2, <2>1, Zenon
  <2>. HIDE DEF new
  <2>. QED
    BY <2>2, <2>3, <2>4 DEF Onward, Nearer, Recovering
<1>12. CASE OfferIntent(p, w)
  <2>. DEFINE new == [r EXCEPT !.phase = "waiting"]
  <2>1. recovery' = [recovery EXCEPT ![p][w] = new] /\ Recovering(p, w) = "reconciling"
    BY <1>1, <1>12, SMTT(30) DEF OfferIntent
  <2>2. new.phase = "waiting" /\ new.todo = r.todo
    BY <1>3, <2>1, SMTT(30)
  <2>3. recovery'[p][w] = new /\ Alone(p, w)
    BY <1>2, <2>1, Zenon
  <2>. HIDE DEF new
  <2>. QED
    BY <1>12, <2>1, <2>2, <2>3, SMTT(30) DEF Onward, Nearer, Recovering
<1>13. CASE ReconcileEnds(p, w)
  <2>1. CASE r.fenced
    <3>1. recovery' = [recovery EXCEPT ![p][w] = NoRecovery]
      BY <1>13, <2>1, SMTT(30) DEF ReconcileEnds
    <3>. QED
      BY <1>End, <3>1, Zenon
  <2>2. CASE ~r.fenced
    <3>1. recovery' = [recovery EXCEPT ![p][w] = Resumed(r)]
      BY <1>1, <1>13, <2>2 DEF ReconcileEnds
    <3>. QED
      BY <1>9, <1>13, <3>1, Zenon DEF ReconcileEnds
  <2>. QED
    BY <2>1, <2>2, SMTT(30)
<1>. QED
  BY <1>4, <1>5, <1>6, <1>7, <1>8, <1>10, <1>11, <1>12, <1>13, Zenon DEF RecoveryStep

\* What reconcile returns or raises moves the recovery that waits for it on, by
\* the intent that it is about, and no other.
LEMMA AnswerMoves ==
    ASSUME WInv, WaitCalled, NEW v \in verifying, ReconcileReturns(v)
    PROVE  /\ v.proc \in Proc /\ v.snapshot.worker \in Worker
           /\ Alone(v.proc, v.snapshot.worker)
           /\ Onward(v.proc, v.snapshot.worker)
           /\ recovery'[v.proc][v.snapshot.worker].phase = "reconciling"
           /\ verifying \ {v} \subseteq verifying'
<1>. DEFINE p == v.proc
            w == v.snapshot.worker
            r == recovery[p][w]
<1>1. p \in Proc /\ w \in Worker
  BY Zenon DEF WInv, IInv, TypeOK, Verification, Row
<1>2. PICK b : Answered(v, b)
  BY Zenon DEF ReconcileReturns
<1>3. Awaiting(v)
  BY Zenon DEF ReconcileReturns, ApplyProof, ProofApplies, Terminal, RefuseProof,
         HoldsSlot, VerifierTimeout, Verify, Awaiting
<1>4. Recovering(p, w) = "waiting"
  BY <1>3, Zenon DEF WInv, CallInv, Awaited
<1>5. v.index \in r.todo
  <2>1. PICK u \in verifying : AnswerTo(u, p, w)
    BY <1>1, <1>4, ZenonT(40) DEF WaitCalled, AnswerTo, Awaiting
  <2>2. u = v
    BY <1>3, <2>1, Zenon DEF WInv, CallInv, Awaited, SameRecovery, AnswerTo
  <2>. QED
    BY <2>1, <2>2, Zenon DEF AnswerTo
<1>6. recovery' = [recovery EXCEPT ![p][w] = Examined(r, v.index, b)]
  BY <1>1, <1>2, Zenon DEF Answered, WInv, CallInv, WTypeOK
<1>7. recovery'[p][w] = Examined(r, v.index, b) /\ Alone(p, w)
  BY <1>1, <1>6, SMTT(30) DEF Alone, WInv, CallInv, WTypeOK
<1>8. /\ Examined(r, v.index, b).phase = "reconciling"
      /\ Examined(r, v.index, b).todo = r.todo \ {v.index}
  <2>1. r \in [phase: {"probed", "claimed", "reconciling", "waiting", "restoring"},
               pass: BOOLEAN, todo: SUBSET Nat, fenced: BOOLEAN]
    BY <1>1, <1>4, RecoveryAt, Zenon
  <2>. QED
    BY <2>1, Zenon DEF Examined
<1>9. verifying \ {v} \subseteq verifying'
  BY Zenon DEF ReconcileReturns, ApplyProof, RefuseProof, VerifierTimeout, Verify
<1>10. Onward(p, w)
  BY <1>4, <1>5, <1>7, <1>8, Zenon DEF Onward, Nearer, Recovering
<1>. QED
  BY <1>1, <1>7, <1>8, <1>9, <1>10, Zenon

\* Every step leaves a waiting recovery its answer.
LEMMA WaitInductive == WInv /\ WaitCalled /\ [WNext]_wvars => WaitCalled'
<1>. SUFFICES ASSUME WInv, WaitCalled, [WNext]_wvars,
                     NEW q \in Proc, NEW x \in Worker, recovery'[q][x].phase = "waiting"
              PROVE  \E u \in verifying' : AnswerTo(u, q, x)'
  BY Zenon DEF WaitCalled, AnswerTo, Awaiting, Recovering
<1>1. ASSUME recovery'[q][x] = recovery[q][x]
      PROVE  \E u \in verifying : AnswerTo(u, q, x)
  BY <1>1, Zenon DEF WaitCalled, AnswerTo, Awaiting, Recovering
<1>2. ASSUME recovery'[q][x] = recovery[q][x], NEW u, AnswerTo(u, q, x)
      PROVE  AnswerTo(u, q, x)'
  BY <1>2, Zenon DEF AnswerTo, Awaiting
<1>3. ASSUME UNCHANGED <<recovery, verifying>>
      PROVE  \E u \in verifying' : AnswerTo(u, q, x)'
  BY <1>1, <1>2, <1>3, Zenon
<1>4. CASE \E p \in Proc : Start(p) \/ OpenJournal(p)
  BY <1>3, <1>4, Zenon DEF Start, OpenJournal, vars
<1>5. CASE \E p \in Proc : Die(p)
  <2>1. PICK p \in Proc : Die(p)
    BY <1>5, SMTT(30)
  <2>2. /\ verifying' = {u \in verifying : u.proc # p}
        /\ q # p /\ recovery'[q][x] = recovery[q][x]
    BY <2>1 DEF Die, Crash, WInv, CallInv, WTypeOK, NoRecovery
  <2>3. PICK u \in verifying : AnswerTo(u, q, x)
    BY <1>1, <2>2
  <2>4. u \in verifying'
    BY <2>2, <2>3, Zenon DEF AnswerTo
  <2>. QED
    BY <1>2, <2>2, <2>3, <2>4, Zenon
<1>6. CASE \E p \in Proc, w \in Worker : RecoveryStep(p, w)
  <2>1. PICK p \in Proc, w \in Worker : RecoveryStep(p, w)
    BY <1>6, Zenon
  <2>2. \/ recovery'[q][x] = recovery[q][x]
        \/ q = p /\ x = w /\ OfferIntent(p, w)
    <3>1. /\ Alone(p, w)
          /\ recovery'[p][w].phase = "waiting" =>
                 OfferIntent(p, w) \/ recovery'[p][w] = recovery[p][w]
      BY <2>1, RecoveryMoves, Zenon
    <3>2. CASE q = p /\ x = w
      BY <3>1, <3>2, Zenon
    <3>3. CASE q # p \/ x # w
      BY <3>1, <3>3, Zenon DEF Alone
    <3>. QED
      BY <3>2, <3>3, Zenon
  <2>3. verifying \subseteq verifying'
    BY <2>1, RecoveryFrame, Zenon
       DEF RecoverOrphans, Recover, OfferIntent, ReconcileSnapshot
  <2>4. CASE recovery'[q][x] = recovery[q][x]
    BY <1>1, <1>2, <2>3, <2>4, Zenon
  <2>5. CASE q = p /\ x = w /\ OfferIntent(p, w)
    <3>1. PICK i \in recovery[p][w].todo :
             journal[i].worker = w /\ ReconcileSnapshot(p, i, epochOf[p])
      BY <2>5, Zenon DEF OfferIntent
    <3>. DEFINE nv == [proc |-> p, index |-> i, snapshot |-> journal[i],
                       epoch |-> epochOf[p], verdict |-> "pending"]
    <3>2. nv \in verifying'
      BY <3>1, Zenon DEF ReconcileSnapshot
    <3>3. /\ nv.proc = p /\ nv.snapshot.worker = w /\ nv.index = i
          /\ nv.verdict # "abandoned"
      BY <3>1, SMTT(30)
    <3>4. recovery'[p][w].todo = recovery[p][w].todo
      <4>1. /\ recovery' = [recovery EXCEPT ![p][w].phase = "waiting"]
            /\ Recovering(p, w) = "reconciling"
        BY <2>5, Zenon DEF OfferIntent
      <4>2. recovery[p][w] \in
              [phase: {"probed", "claimed", "reconciling", "waiting", "restoring"},
               pass: BOOLEAN, todo: SUBSET Nat, fenced: BOOLEAN]
        BY <4>1, RecoveryAt, Zenon
      <4>. QED
        BY <4>1, <4>2 DEF WInv, CallInv, WTypeOK
    <3>. HIDE DEF nv
    <3>. QED
      BY <2>5, <3>2, <3>3, <3>4, ZenonT(40) DEF AnswerTo, Awaiting
  <2>. QED
    BY <2>2, <2>4, <2>5, Zenon
<1>7. CASE \E v \in verifying : VerifierAnswers(v)
  <2>1. PICK v \in verifying : VerifierAnswers(v)
    BY <1>7, SMTT(30)
  <2>2. PICK s \in Terminal \cup {"none"} : Verify(v, s)
    BY <2>1, Zenon DEF VerifierAnswers
  <2>. DEFINE nv == [v EXCEPT !.verdict = s]
  <2>3. UNCHANGED recovery
    BY <2>1, Zenon DEF VerifierAnswers, callers
  <2>4. verifying' = (verifying \ {v}) \cup {nv}
    BY <2>2, Zenon DEF Verify
  <2>5. /\ nv.proc = v.proc /\ nv.snapshot = v.snapshot /\ nv.index = v.index
        /\ nv.verdict # "abandoned"
    BY <2>2 DEF Terminal, WInv, IInv, TypeOK, Verification
  <2>6. PICK u \in verifying : AnswerTo(u, q, x)
    BY <1>1, <2>3
  <2>. HIDE DEF nv
  <2>7. AnswerTo(v, q, x) => AnswerTo(nv, q, x)'
    BY <2>3, <2>5, Zenon DEF AnswerTo, Awaiting
  <2>. QED
    BY <1>2, <2>3, <2>4, <2>6, <2>7, Zenon
<1>8. CASE \E v \in verifying : VerifierStops(v)
  <2>1. PICK v \in verifying : VerifierStops(v)
    BY <1>8
  <2>2. /\ UNCHANGED recovery
        /\ v.verdict = "abandoned" /\ verifying' = verifying \ {v}
    BY <2>1, Zenon DEF VerifierStops, VerifierExits, callers
  <2>3. PICK u \in verifying : AnswerTo(u, q, x)
    BY <1>1, <2>2
  <2>4. u \in verifying'
    BY <2>2, <2>3, Zenon DEF AnswerTo, Awaiting
  <2>. QED
    BY <1>2, <2>2, <2>3, <2>4, Zenon
<1>9. CASE \E v \in verifying : ReconcileReturns(v)
  <2>1. PICK v \in verifying : ReconcileReturns(v)
    BY <1>9, Zenon
  <2>2. /\ Alone(v.proc, v.snapshot.worker)
        /\ recovery'[v.proc][v.snapshot.worker].phase = "reconciling"
        /\ verifying \ {v} \subseteq verifying'
    BY <2>1, AnswerMoves, Zenon
  <2>3. q # v.proc \/ x # v.snapshot.worker
    BY <2>2, Zenon
  <2>4. recovery'[q][x] = recovery[q][x]
    BY <2>2, <2>3, Zenon DEF Alone
  <2>5. PICK u \in verifying : AnswerTo(u, q, x)
    BY <1>1, <2>4
  <2>6. u \in verifying'
    BY <2>2, <2>3, <2>5, Zenon DEF AnswerTo
  <2>. QED
    BY <1>2, <2>4, <2>5, <2>6, Zenon
<1>10. CASE \E t \in Thread : CallStep(t)
  BY <1>3, <1>10, CallFrame, Zenon
<1>11. CASE UNCHANGED wvars
  BY <1>3, <1>11, Zenon DEF wvars
<1>. QED
  BY <1>4, <1>5, <1>6, <1>7, <1>8, <1>9, <1>10, <1>11, Zenon DEF WNext

\* The call that a recovery waits for is under way in every state.
LEMMA WaitsHaveCalls == WSpec => []WaitCalled
<1>1. WInit => WaitCalled
  BY DEF WInit, WaitCalled, Recovering, NoRecovery
<1>. QED
  BY <1>1, WaitInductive, WInductive, PTL DEF WSpec

\* A recovery only moves towards its end: no step, of its own, of its verifiers
\* or of its peers, takes it back to a phase it has left or to an intent it has
\* examined.
THEOREM RecoveriesMoveOn == WSpec => RecoveryMovesOn
<1>. DEFINE Moves == \A p \in Proc, w \in Worker :
                        Recovering(p, w) # "none" => Onward(p, w)
<1>1. ASSUME WInv, WaitCalled, [WNext]_wvars PROVE Moves
  <2>. USE <1>1
  <2>1. CASE UNCHANGED recovery
    BY <2>1, Zenon DEF Onward
  <2>2. CASE \E p \in Proc : Start(p) \/ OpenJournal(p)
    BY <2>1, <2>2, Zenon DEF Start, OpenJournal
  <2>3. CASE \E p \in Proc : Die(p)
    BY <2>3 DEF Die, Onward, Nearer, WInv, CallInv, WTypeOK
  <2>4. CASE \E p \in Proc, w \in Worker : RecoveryStep(p, w)
    <3>1. PICK p \in Proc, w \in Worker : RecoveryStep(p, w)
      BY <2>4
    <3>2. Alone(p, w) /\ (Recovering(p, w) # "none" => Onward(p, w))
      BY <3>1, RecoveryMoves, Zenon
    <3>. QED
      BY <3>2, Zenon DEF Alone, Onward
  <2>5. CASE \E v \in verifying : VerifierAnswers(v) \/ VerifierStops(v)
    BY <2>1, <2>5, Zenon DEF VerifierAnswers, VerifierStops, callers
  <2>6. CASE \E v \in verifying : ReconcileReturns(v)
    <3>1. PICK v \in verifying : ReconcileReturns(v)
      BY <2>6, Zenon
    <3>2. /\ Alone(v.proc, v.snapshot.worker)
          /\ Onward(v.proc, v.snapshot.worker)
      BY <3>1, AnswerMoves, Zenon
    <3>. QED
      BY <3>2, Zenon DEF Alone, Onward
  <2>7. CASE \E t \in Thread : CallStep(t)
    BY <2>1, <2>7, CallFrame, Zenon
  <2>8. CASE UNCHANGED wvars
    BY <2>1, <2>8, Zenon DEF wvars
  <2>. QED
    BY <2>2, <2>3, <2>4, <2>5, <2>6, <2>7, <2>8, Zenon DEF WNext
<1>2. WInv /\ WaitCalled /\ [WNext]_wvars => [Moves]_wvars
  BY <1>1
<1>. QED
  BY <1>2, WInductive, WaitsHaveCalls, PTL DEF WSpec, RecoveryMovesOn, Onward
=============================================================================
