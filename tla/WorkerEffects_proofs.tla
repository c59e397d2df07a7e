------------------------ MODULE WorkerEffects_proofs ------------------------
(***************************************************************************)
(* Proofs about the effect journal, alone and together with its callers,   *)
(* for every value of the constants.                                       *)
(*                                                                         *)
(* The journal: every operation either appends one row (Begin) or rewrites *)
(* rows in place, and a rewrite obeys RowsKept.  The invariants are then   *)
(* proved once for the append and once for the rewrites.                   *)
(*                                                                         *)
(* The callers: they use the journal only through its operations (WSpec    *)
(* implements Spec, so every theorem about the journal holds of the        *)
(* composition), and no operation is invoked twice.                        *)
(***************************************************************************)
EXTENDS WorkerEffects, TLAPS

-----------------------------------------------------------------------------
(***************************************************************************)
(* The inductive invariant: the invariants that the runs check, with two   *)
(* facts about the representation.                                         *)
(***************************************************************************)

\* There is a latest generation, unless there is none at all.
HasLatest ==
    \/ DOMAIN checkpoints = {}
    \/ \E g \in DOMAIN checkpoints : \A h \in DOMAIN checkpoints : h <= g

\* A reconcile call under way is about a row of the journal.
VerifyingRows == \A v \in verifying : v.index \in DOMAIN journal

IInv ==
    /\ TypeOK
    /\ HasLatest
    /\ VerifyingRows
    /\ CheckpointsSettled
    /\ UncertainFenced
    /\ EpochsOrdered
    /\ IdentityUnique

\* What a rewrite of rows in place may do: the identity stays, a definitive row
\* stays as it is, an uncertain one stays uncertain unless a proof settles it.
RowKept(old, new) ==
    /\ new.op = old.op
    /\ new.key = old.key
    /\ new.worker = old.worker
    /\ new.epoch = old.epoch
    /\ old.state \in Terminal => new = old
    /\ old.state = "uncertain" => new.state = "uncertain" \/ new.detail = "verified"

RowsKept(j, k) ==
    /\ k \in [DOMAIN j -> Row]
    /\ \A i \in DOMAIN j : RowKept(j[i], k[i])

NoNewUncertain(j, k) ==
    \A i \in DOMAIN j : k[i].state = "uncertain" => j[i].state = "uncertain"

\* Leaving the journal alone keeps its rows.
LEMMA RowsKeptSame ==
    ASSUME TypeOK
    PROVE  RowsKept(journal, journal)
BY DEF TypeOK, RowsKept, RowKept

\* An outcome that _apply_outcome_in_transaction accepts keeps the rows.
LEMMA OutcomeKeepsRows ==
    ASSUME TypeOK, NEW i \in DOMAIN journal, NEW s \in Terminal,
           NEW r \in Receipt, AcceptsOutcome(i, s, r)
    PROVE  RowsKept(journal, WithOutcome(i, s, r))
           /\ NoNewUncertain(journal, WithOutcome(i, s, r))
<1>1. journal \in [DOMAIN journal -> Row]
  BY DEF TypeOK
<1>2. CASE journal[i].state = "intent"
  <2>. DEFINE new == [journal[i] EXCEPT !.state = s, !.receipt = r]
  <2>1. WithOutcome(i, s, r) = [journal EXCEPT ![i] = new]
    BY <1>1, <1>2, Zenon DEF WithOutcome
  <2>2. journal[i] \in Row
    BY <1>1
  <2>3. new \in Row /\ RowKept(journal[i], new) /\ new.state # "uncertain"
    BY <1>2, <2>2, Zenon DEF RowKept, Row, States, Terminal
  <2>4. \A k \in DOMAIN journal : RowKept(journal[k], journal[k])
    BY DEF RowKept
  <2>. HIDE DEF new
  <2>. QED
    BY <1>1, <2>1, <2>3, <2>4 DEF RowsKept, NoNewUncertain
<1>3. CASE journal[i].state # "intent"
  BY <1>3, RowsKeptSame DEF WithOutcome, NoNewUncertain
<1>. QED
  BY <1>2, <1>3

\* _record_uncertainty keeps the rows.
LEMMA UncertaintyKeepsRows ==
    ASSUME TypeOK, NEW p \in Proc, NEW i \in DOMAIN journal,
           RecordUncertainty(p, i)
    PROVE  RowsKept(journal, journal')
<1>1. journal \in [DOMAIN journal -> Row]
  BY DEF TypeOK
<1>. DEFINE new == [journal[i] EXCEPT !.state = "uncertain", !.detail = "marked"]
<1>2. journal' = [journal EXCEPT ![i] = new]
  BY <1>1, Zenon DEF RecordUncertainty
<1>3. journal[i] \in Row
  BY <1>1
<1>4. new \in Row /\ RowKept(journal[i], new)
  BY <1>3, Zenon DEF RecordUncertainty, IsUnresolved, RowKept, Row, States, Terminal
<1>5. \A k \in DOMAIN journal : RowKept(journal[k], journal[k])
  BY DEF RowKept
<1>. HIDE DEF new
<1>. QED
  BY <1>1, <1>2, <1>4, <1>5 DEF RowsKept

\* recover keeps the rows.
LEMMA RecoverKeepsRows ==
    ASSUME TypeOK, NEW p \in Proc, NEW live, Recover(p, live)
    PROVE  RowsKept(journal, journal')
<1>1. journal \in [DOMAIN journal -> Row]
  BY DEF TypeOK
<1>2. ASSUME NEW i \in DOMAIN journal
      PROVE  journal'[i] \in Row /\ RowKept(journal[i], journal'[i])
  <2>1. i \in Orphaned(live) => IsUnresolved(journal[i])
    BY DEF Orphaned, Unresolved
  <2>2. journal'[i] = IF i \in Orphaned(live)
                      THEN [journal[i] EXCEPT !.state = "uncertain",
                                              !.detail = "restart"]
                      ELSE journal[i]
    BY Zenon DEF Recover
  <2>. QED
    BY <1>1, <2>1, <2>2, ZenonT(60) DEF IsUnresolved, RowKept, Row, States, Terminal
<1>3. journal' = [i \in DOMAIN journal |-> journal'[i]]
  BY Zenon DEF Recover
<1>. QED
  BY <1>2, <1>3 DEF RowsKept

\* The proof that reconcile applies keeps the rows.
LEMMA ProofKeepsRows ==
    ASSUME TypeOK, VerifyingRows, NEW v \in verifying, NEW r \in Receipt,
           ProofApplies(v)
    PROVE  RowsKept(journal, WithProof(v, r))
           /\ NoNewUncertain(journal, WithProof(v, r))
<1>1. journal \in [DOMAIN journal -> Row] /\ v.index \in DOMAIN journal
  BY DEF TypeOK, VerifyingRows
<1>. DEFINE i == v.index
            new == [journal[i] EXCEPT !.state = v.verdict, !.receipt = r,
                                      !.detail = "verified"]
<1>2. WithProof(v, r) = [journal EXCEPT ![i] = new]
  BY <1>1, Zenon DEF WithProof
<1>3. journal[i] \in Row
  BY <1>1
<1>4. new \in Row /\ RowKept(journal[i], new) /\ new.state # "uncertain"
  BY <1>3, Zenon DEF ProofApplies, IsUnresolved, RowKept, Row, States, Terminal
<1>5. \A k \in DOMAIN journal : RowKept(journal[k], journal[k])
  BY DEF RowKept
<1>. HIDE DEF new
<1>. QED
  BY <1>1, <1>2, <1>4, <1>5 DEF RowsKept, NoNewUncertain

-----------------------------------------------------------------------------
(***************************************************************************)
(* What the parts of an operation establish.                               *)
(***************************************************************************)

\* Fencing reaches the worker of every row: it has an owner row.
LEMMA FencedFacts ==
    ASSUME TypeOK, EpochsOrdered
    PROVE  /\ Fenced(owner) \in [Worker -> OwnerRow]
           /\ \A w \in Worker : Fenced(owner)[w].epoch = owner[w].epoch
           /\ \A i \in DOMAIN journal : Fenced(owner)[journal[i].worker].fenced
<1>1. ASSUME NEW w \in Worker
      PROVE  /\ Fenced(owner)[w] \in OwnerRow
             /\ Fenced(owner)[w].epoch = owner[w].epoch
             /\ owner[w].epoch # 0 => Fenced(owner)[w].fenced
  BY Zenon DEF TypeOK, OwnerRow, Fenced
<1>2. ASSUME NEW i \in DOMAIN journal
      PROVE  journal[i].worker \in Worker /\ owner[journal[i].worker].epoch # 0
  <2>0. journal[i] \in Row
    BY DEF TypeOK
  <2>1. journal[i].worker \in Worker /\ journal[i].epoch \in Nat \ {0}
    BY <2>0, EpochAssumption, Zenon DEF Row
  <2>2. owner[journal[i].worker].epoch \in Nat
    BY <2>1, EpochAssumption DEF TypeOK, OwnerRow
  <2>3. journal[i].epoch <= owner[journal[i].worker].epoch
    BY DEF EpochsOrdered
  <2>. QED
    BY <2>1, <2>2, <2>3
<1>3. Fenced(owner) = [w \in Worker |-> Fenced(owner)[w]]
  BY SMTT(30) DEF Fenced
<1>. QED
  BY <1>1, <1>2, <1>3

\* Lifting the fences changes no epoch.
LEMMA UnfencedFacts ==
    ASSUME TypeOK
    PROVE  /\ Unfenced(owner) \in [Worker -> OwnerRow]
           /\ \A w \in Worker : Unfenced(owner)[w].epoch = owner[w].epoch
BY Zenon DEF TypeOK, OwnerRow, Unfenced

-----------------------------------------------------------------------------
(***************************************************************************)
(* Every action preserves the invariant, one step per action.              *)
(***************************************************************************)

\* Every operation of the journal keeps the invariant.
LEMMA NextInductive == IInv /\ [Next]_vars => IInv'

\* A function over the indices of a sequence is a sequence of the same length.
<1>SameDomainSeq.
    ASSUME NEW S, NEW s \in Seq(S), NEW T, NEW f \in [DOMAIN s -> T]
    PROVE  f \in Seq(T) /\ Len(f) = Len(s) /\ DOMAIN f = DOMAIN s
  <2>. USE <1>SameDomainSeq
  <2>1. DOMAIN s = 1..Len(s) /\ Len(s) \in Nat
    OBVIOUS
  <2>2. f \in [1..Len(s) -> T]
    BY <2>1
  <2>3. f \in Seq(T)
    BY <2>1, <2>2
  <2>. QED
    BY <2>1, <2>2, <2>3

\* _settled_high_water_in: every row of the settled prefix has a definitive
\* outcome, and the prefix is not longer than the journal.
<1>SettledPrefix.
    ASSUME NEW j \in Seq(Row), NEW n, SettledHighWater(j, n)
    PROVE  /\ n \in Nat
           /\ n <= Len(j)
           /\ \A i \in 1..n : j[i].state \in Terminal
  <2>. USE <1>SettledPrefix
  <2>1. n \in Nat /\ n <= Len(j) /\ 1..n \subseteq DOMAIN j
    BY DEF SettledHighWater
  <2>2. ASSUME NEW i \in 1..n PROVE j[i].state \in Terminal
    <3>1. j[i] \in Row /\ ~IsUnresolved(j[i])
      BY <2>1 DEF SettledHighWater
    <3>. QED
      BY <3>1, Zenon DEF IsUnresolved, Row, States, Terminal
  <2>. QED
    BY <2>1, <2>2

\* _append_checkpoint_in_transaction: every retained generation is an old one
\* or binds the settled prefix of j, and the new one is the latest.
<1>AppendGenerationFacts.
    ASSUME TypeOK, HasLatest, NEW j \in Seq(Row), AppendGeneration(j)
    PROVE  /\ DOMAIN checkpoints' \subseteq Nat
           /\ checkpoints' \in [DOMAIN checkpoints' -> Nat]
           /\ HasLatest'
           /\ \A g \in DOMAIN checkpoints' :
                 \/ SettledHighWater(j, checkpoints'[g])
                 \/ g \in DOMAIN checkpoints /\ checkpoints'[g] = checkpoints[g]
  <2>. USE <1>AppendGenerationFacts
  <2>. DEFINE gen  == IF DOMAIN checkpoints = {} THEN 0 ELSE LatestGeneration + 1
              kept == {g \in DOMAIN checkpoints : g > gen - Retention}
  <2>1. PICK n \in 0..Len(j) :
           /\ SettledHighWater(j, n)
           /\ checkpoints' = [g \in kept \cup {gen} |->
                                 IF g = gen THEN n ELSE checkpoints[g]]
    BY DEF AppendGeneration
  <2>2. gen \in Nat /\ \A h \in DOMAIN checkpoints : h <= gen
    <3>1. CASE DOMAIN checkpoints = {}
      BY <3>1
    <3>2. CASE DOMAIN checkpoints # {}
      <4>1. /\ LatestGeneration \in DOMAIN checkpoints
            /\ \A h \in DOMAIN checkpoints : h <= LatestGeneration
        BY <3>2 DEF HasLatest, LatestGeneration
      <4>2. DOMAIN checkpoints \subseteq Nat
        BY DEF TypeOK
      <4>. QED
        BY <3>2, <4>1, <4>2
    <3>. QED
      BY <3>1, <3>2, Zenon
  <2>3. n \in Nat /\ DOMAIN checkpoints' = kept \cup {gen}
    BY <2>1, <1>SettledPrefix
  <2>4. DOMAIN checkpoints \subseteq Nat /\ checkpoints \in [DOMAIN checkpoints -> Nat]
    BY DEF TypeOK
  <2>5. kept \subseteq DOMAIN checkpoints
    OBVIOUS
  <2>. HIDE DEF gen, kept
  <2>6. HasLatest'
    BY <2>2, <2>3, <2>4, <2>5, SMTT(30) DEF HasLatest
  <2>. QED
    BY <2>1, <2>2, <2>3, <2>4, <2>5, <2>6, Zenon

\* Rewriting rows in place leaves every retained checkpoint settled.
<1>KeptSettled.
    ASSUME TypeOK, CheckpointsSettled, NEW j, RowsKept(journal, j)
    PROVE  /\ j \in Seq(Row)
           /\ Len(j) = Len(journal)
           /\ DOMAIN j = DOMAIN journal
           /\ \A g \in DOMAIN checkpoints :
                 /\ checkpoints[g] <= Len(j)
                 /\ \A i \in 1..checkpoints[g] : j[i].state \in Terminal
  <2>. USE <1>KeptSettled
  <2>1. journal \in Seq(Row) /\ j \in [DOMAIN journal -> Row]
    BY DEF TypeOK, RowsKept
  <2>2. j \in Seq(Row) /\ Len(j) = Len(journal) /\ DOMAIN j = DOMAIN journal
    BY <2>1, <1>SameDomainSeq
  <2>3. ASSUME NEW g \in DOMAIN checkpoints
        PROVE  /\ checkpoints[g] <= Len(j)
               /\ \A i \in 1..checkpoints[g] : j[i].state \in Terminal
    <3>1. /\ checkpoints[g] \in Nat
          /\ checkpoints[g] <= Len(journal)
          /\ \A i \in 1..checkpoints[g] : journal[i].state \in Terminal
      BY DEF CheckpointsSettled, TypeOK
    <3>2. ASSUME NEW i \in 1..checkpoints[g] PROVE j[i].state \in Terminal
      <4>1. i \in DOMAIN journal /\ journal[i].state \in Terminal
        BY <2>1, <3>1
      <4>. QED
        BY <4>1 DEF RowsKept, RowKept
    <3>. QED
      BY <2>2, <3>1, <3>2
  <2>. QED
    BY <2>2, <2>3

\* Rewriting rows in place while no owner epoch decreases keeps the order of
\* epochs and the identities.
<1>KeptOrder.
    ASSUME TypeOK, EpochsOrdered, IdentityUnique, RowsKept(journal, journal'),
           owner' \in [Worker -> OwnerRow],
           \A w \in Worker : owner[w].epoch <= owner'[w].epoch
    PROVE  EpochsOrdered' /\ IdentityUnique'
  <2>. USE <1>KeptOrder
  <2>1. DOMAIN journal' = DOMAIN journal
    BY DEF RowsKept
  <2>2. \A i \in DOMAIN journal :
           /\ journal'[i].op = journal[i].op
           /\ journal'[i].key = journal[i].key
           /\ journal'[i].worker = journal[i].worker
           /\ journal'[i].epoch = journal[i].epoch
    BY DEF RowsKept, RowKept
  <2>3. IdentityUnique'
    BY <2>1, <2>2 DEF IdentityUnique
  <2>4. \A i \in DOMAIN journal : journal[i] \in Row
    BY DEF TypeOK
  <2>5. DOMAIN journal = 1..Len(journal) /\ Len(journal) \in Nat
    BY DEF TypeOK
  <2>6. ASSUME NEW i \in DOMAIN journal
        PROVE  journal[i].epoch <= owner'[journal[i].worker].epoch
    <3>1. journal[i].worker \in Worker /\ journal[i].epoch \in Nat
      BY <2>4, EpochAssumption, Zenon DEF Row
    <3>2. journal[i].epoch <= owner[journal[i].worker].epoch
      BY Zenon DEF EpochsOrdered
    <3>3. /\ owner[journal[i].worker].epoch \in Nat
          /\ owner'[journal[i].worker].epoch \in Nat
      BY <3>1, EpochAssumption DEF TypeOK, OwnerRow
    <3>. QED
      BY <3>1, <3>2, <3>3
  <2>7. ASSUME NEW i \in DOMAIN journal, NEW k \in 1..i,
               journal[k].worker = journal[i].worker
        PROVE  k \in DOMAIN journal /\ journal[k].epoch <= journal[i].epoch
    BY <2>5, <2>7, SMTT(30) DEF EpochsOrdered
  <2>8. EpochsOrdered'
    BY <2>1, <2>2, <2>5, <2>6, <2>7 DEF EpochsOrdered
  <2>. QED
    BY <2>3, <2>8

\* Lifting the fence, which happens only when no row is unresolved, or leaving
\* it, keeps the worker of every uncertain row fenced.
<1>LiftKeepsFence.
    ASSUME TypeOK, UncertainFenced, NEW j,
           RowsKept(journal, j), NoNewUncertain(journal, j),
           \/ owner' = Unfenced(owner) /\ Unresolved(j) = {}
           \/ owner' = owner
    PROVE  /\ owner' \in [Worker -> OwnerRow]
           /\ \A w \in Worker : owner[w].epoch <= owner'[w].epoch
           /\ \A i \in DOMAIN j : j[i].state = "uncertain" => owner'[j[i].worker].fenced
  <2>. USE <1>LiftKeepsFence
  <2>1. \A w \in Worker : owner[w].epoch \in Nat
    BY EpochAssumption DEF TypeOK, OwnerRow
  <2>2. CASE owner' = Unfenced(owner) /\ Unresolved(j) = {}
    <3>1. \A i \in DOMAIN j : j[i].state # "uncertain"
      BY <2>2 DEF Unresolved, IsUnresolved
    <3>. QED
      BY <2>1, <2>2, <3>1, UnfencedFacts
  <2>3. CASE owner' = owner
    <3>1. owner' \in [Worker -> OwnerRow]
      BY <2>3 DEF TypeOK
    <3>2. ASSUME NEW i \in DOMAIN j, j[i].state = "uncertain"
          PROVE  owner[j[i].worker].fenced
      BY <3>2 DEF RowsKept, RowKept, NoNewUncertain, UncertainFenced
    <3>. QED
      BY <2>1, <2>3, <3>1, <3>2
  <2>. QED
    BY <2>2, <2>3

\* A step that rewrites rows in place preserves the invariant when it treats
\* the fences and the checkpoints as the steps above say.
<1>RewriteStep.
    ASSUME IInv, RowsKept(journal, journal'),
           owner' \in [Worker -> OwnerRow],
           \A w \in Worker : owner[w].epoch <= owner'[w].epoch,
           \A i \in DOMAIN journal' :
               journal'[i].state = "uncertain" => owner'[journal'[i].worker].fenced,
           UNCHANGED checkpoints \/ AppendGeneration(journal'),
           latches' \subseteq Proc, verifying' \subseteq verifying
    PROVE  IInv'
  <2>. USE <1>RewriteStep
  <2>. USE DEF IInv
  <2>1. /\ journal' \in Seq(Row)
        /\ Len(journal') = Len(journal)
        /\ DOMAIN journal' = DOMAIN journal
        /\ \A g \in DOMAIN checkpoints :
              /\ checkpoints[g] <= Len(journal')
              /\ \A i \in 1..checkpoints[g] : journal'[i].state \in Terminal
    BY <1>KeptSettled, Zenon
  <2>2. EpochsOrdered' /\ IdentityUnique'
    BY <1>KeptOrder
  <2>3. /\ DOMAIN checkpoints' \subseteq Nat
        /\ checkpoints' \in [DOMAIN checkpoints' -> Nat]
        /\ HasLatest'
        /\ \A g \in DOMAIN checkpoints' :
              \/ SettledHighWater(journal', checkpoints'[g])
              \/ g \in DOMAIN checkpoints /\ checkpoints'[g] = checkpoints[g]
    <3>1. CASE UNCHANGED checkpoints
      BY <3>1, Zenon DEF TypeOK, HasLatest
    <3>2. CASE AppendGeneration(journal')
      BY <2>1, <3>2, <1>AppendGenerationFacts
    <3>. QED
      BY <3>1, <3>2, Zenon
  <2>4. CheckpointsSettled'
    BY <2>1, <2>3, <1>SettledPrefix, Zenon DEF CheckpointsSettled
  <2>5. UncertainFenced'
    BY Zenon DEF UncertainFenced
  <2>6. VerifyingRows'
    BY <2>1 DEF VerifyingRows
  <2>7. TypeOK'
    BY <2>1, <2>3, Zenon DEF TypeOK
  <2>. QED
    BY <2>2, <2>3, <2>4, <2>5, <2>6, <2>7, Zenon

\* A step that leaves the journal, the owners and the checkpoints alone.
<1>QuietStep.
    ASSUME IInv, UNCHANGED <<journal, owner, checkpoints>>,
           latches' \subseteq Proc, verifying' \subseteq Verification,
           VerifyingRows'
    PROVE  IInv'
  BY <1>QuietStep DEF IInv, TypeOK, HasLatest, CheckpointsSettled, UncertainFenced,
         EpochsOrdered, IdentityUnique

\* begin keeps the invariant: it appends a bare intent at the newest epoch.
<1>BeginStep.
    ASSUME IInv, NEW p \in Proc, NEW w \in Worker, NEW e \in Epoch,
           NEW op \in Op, NEW key \in Key, Begin(p, w, e, op, key)
    PROVE  IInv'
  <2>. USE <1>BeginStep
  <2>. DEFINE new == [op |-> op, key |-> key, worker |-> w, epoch |-> e,
                      state |-> "intent", receipt |-> NoReceipt, detail |-> ""]
              n == Len(journal) + 1
  <2>. USE DEF IInv
  <2>1. new \in Row
    BY DEF Row, States
  <2>2. journal \in Seq(Row) /\ Len(journal) \in Nat /\ DOMAIN journal = 1..Len(journal)
    BY DEF TypeOK
  <2>3. journal' = Append(journal, new)
    BY Zenon DEF Begin
  <2>5. new.op = op /\ new.key = key /\ new.worker = w /\ new.epoch = e /\ new.state = "intent"
    BY Zenon
  <2>. HIDE DEF new
  <2>4. /\ journal' \in Seq(Row)
        /\ DOMAIN journal' = 1..n
        /\ Len(journal') = n
        /\ journal'[n] = new
        /\ \A i \in DOMAIN journal : journal'[i] = journal[i]
    BY <2>1, <2>2, <2>3
  <2>6. owner[w] \in OwnerRow /\ owner[w].epoch \in Nat /\ e \in Nat /\ owner[w].epoch <= e
    <3>1. owner[w] \in OwnerRow
      BY Zenon DEF TypeOK
    <3>2. owner[w].epoch \in Nat /\ e \in Nat
      BY <3>1, EpochAssumption DEF OwnerRow
    <3>3. owner[w].epoch = 0 \/ owner[w].epoch <= e
      BY Zenon DEF Begin, EnsureOwner, HasOwner
    <3>. QED
      BY <3>1, <3>2, <3>3
  <2>7. /\ owner' \in [Worker -> OwnerRow]
        /\ owner'[w].epoch = e
        /\ \A v \in Worker : owner'[v].fenced = owner[v].fenced
        /\ \A v \in Worker : v # w => owner'[v] = owner[v]
    BY <2>6, Zenon DEF Begin, TypeOK, OwnerRow
  <2>8. ASSUME NEW i \in DOMAIN journal
        PROVE  /\ journal[i].worker \in Worker
               /\ journal[i].epoch \in Nat
               /\ journal[i].epoch <= owner[journal[i].worker].epoch
               /\ journal[i].epoch <= owner'[journal[i].worker].epoch
    <3>1. journal[i] \in Row
      BY DEF TypeOK
    <3>2. journal[i].worker \in Worker /\ journal[i].epoch \in Nat
      BY <3>1, EpochAssumption, Zenon DEF Row
    <3>3. journal[i].epoch <= owner[journal[i].worker].epoch
      BY Zenon DEF EpochsOrdered
    <3>. QED
      BY <2>6, <2>7, <3>2, <3>3
  <2>9. EpochsOrdered'
    <3>1. ASSUME NEW i \in DOMAIN journal'
          PROVE  journal'[i].epoch <= owner'[journal'[i].worker].epoch
      BY <2>2, <2>4, <2>5, <2>6, <2>7, <2>8, SMTT(30)
    <3>2. ASSUME NEW i \in DOMAIN journal', NEW k \in 1..i,
                 journal'[k].worker = journal'[i].worker
          PROVE  journal'[k].epoch <= journal'[i].epoch
      <4>1. CASE i \in DOMAIN journal
        <5>1. k \in DOMAIN journal
          BY <2>2, <4>1, SMTT(30)
        <5>. QED
          BY <2>4, <3>2, <4>1, <5>1, SMTT(30) DEF EpochsOrdered
      <4>2. CASE i = n /\ k \in DOMAIN journal
        BY <2>4, <2>5, <2>6, <2>8, <3>2, <4>2, SMTT(30)
      <4>3. CASE i = n /\ k = n
        BY <2>4, <2>5, <2>6, <4>3
      <4>. QED
        BY <2>2, <2>4, <4>1, <4>2, <4>3
    <3>. QED
      BY <3>1, <3>2, Zenon DEF EpochsOrdered
  <2>10. IdentityUnique'
    <3>1. \A i \in DOMAIN journal : journal[i].op # op /\ journal[i].key # key
      BY Zenon DEF Begin
    <3>. QED
      BY <2>2, <2>4, <2>5, <3>1, SMTT(30) DEF IdentityUnique
  <2>11. UncertainFenced'
    BY <2>2, <2>4, <2>5, <2>7, <2>8 DEF UncertainFenced
  <2>12. CheckpointsSettled'
    <3>1. checkpoints' = checkpoints
      BY Zenon DEF Begin
    <3>2. ASSUME NEW g \in DOMAIN checkpoints
          PROVE  /\ checkpoints[g] <= n
                 /\ \A i \in 1..checkpoints[g] : journal'[i].state \in Terminal
      BY <2>2, <2>4 DEF CheckpointsSettled, TypeOK
    <3>. QED
      BY <2>4, <3>1, <3>2, Zenon DEF CheckpointsSettled
  <2>13. TypeOK' /\ HasLatest' /\ VerifyingRows'
    <3>1. UNCHANGED <<checkpoints, latches, verifying>>
      BY Zenon DEF Begin
    <3>2. TypeOK'
      BY <2>4, <2>7, <3>1, Zenon DEF TypeOK
    <3>3. HasLatest' /\ VerifyingRows'
      BY <2>2, <2>4, <3>1 DEF HasLatest, VerifyingRows
    <3>. QED
      BY <3>2, <3>3, Zenon
  <2>. QED
    BY <2>9, <2>10, <2>11, <2>12, <2>13

\* claim_owner keeps the invariant: the epoch grows and the fence stays.
<1>ClaimOwnerStep.
    ASSUME IInv, NEW w \in Worker, NEW e \in Epoch, ClaimOwner(w, e)
    PROVE  IInv'
  <2>. USE <1>ClaimOwnerStep
  <2>. USE DEF IInv
  <2>1. UNCHANGED <<journal, checkpoints, latches, verifying>>
    BY DEF ClaimOwner
  <2>2. RowsKept(journal, journal')
    BY <2>1, RowsKeptSame, Zenon
  <2>3. owner[w] \in OwnerRow /\ \A v \in Worker : owner[v].epoch \in Nat
    BY EpochAssumption DEF TypeOK, OwnerRow
  <2>4. /\ owner' \in [Worker -> OwnerRow]
        /\ \A v \in Worker : owner[v].epoch <= owner'[v].epoch
        /\ \A v \in Worker : owner'[v].fenced = owner[v].fenced
    BY <2>3 DEF ClaimOwner, TypeOK, OwnerRow
  <2>5. \A i \in DOMAIN journal' :
           journal'[i].state = "uncertain" => owner'[journal'[i].worker].fenced
    <3>1. \A i \in DOMAIN journal : journal[i] \in Row
      BY DEF TypeOK
    <3>2. \A i \in DOMAIN journal : journal[i].worker \in Worker
      BY <3>1, Zenon DEF Row
    <3>. QED
      BY <2>1, <2>4, <3>2, Zenon DEF UncertainFenced
  <2>6. latches' \subseteq Proc /\ verifying' \subseteq verifying
    BY <2>1, Zenon DEF TypeOK
  <2>. QED
    BY <2>1, <2>2, <2>4, <2>5, <2>6, <1>RewriteStep, Zenon

\* append_checkpoint keeps the invariant: it binds the settled prefix.
<1>AppendCheckpointStep.
    ASSUME IInv, NEW w \in Worker, NEW e \in Epoch, AppendCheckpoint(w, e)
    PROVE  IInv'
  <2>. USE <1>AppendCheckpointStep
  <2>. USE DEF IInv
  <2>1. UNCHANGED <<journal, owner, latches, verifying>> /\ AppendGeneration(journal)
    BY DEF AppendCheckpoint
  <2>2. RowsKept(journal, journal') /\ NoNewUncertain(journal, journal')
    BY <2>1, RowsKeptSame, Zenon DEF NoNewUncertain
  <2>3. /\ owner' \in [Worker -> OwnerRow]
        /\ \A v \in Worker : owner[v].epoch <= owner'[v].epoch
        /\ \A i \in DOMAIN journal' :
              journal'[i].state = "uncertain" => owner'[journal'[i].worker].fenced
    BY <2>1, <2>2, <1>LiftKeepsFence, Zenon
  <2>4. AppendGeneration(journal')
    BY <2>1 DEF AppendGeneration
  <2>5. latches' \subseteq Proc /\ verifying' \subseteq verifying
    BY <2>1, Zenon DEF TypeOK
  <2>. QED
    BY <2>2, <2>3, <2>4, <2>5, <1>RewriteStep, Zenon

\* _commit_settled_run after the writes of its transaction.
<1>CommitFacts.
    ASSUME TypeOK, UncertainFenced, NEW p \in Proc, NEW j,
           RowsKept(journal, j), NoNewUncertain(journal, j), CommitSettledRun(p, j)
    PROVE  /\ owner' \in [Worker -> OwnerRow]
           /\ \A w \in Worker : owner[w].epoch <= owner'[w].epoch
           /\ \A i \in DOMAIN j : j[i].state = "uncertain" => owner'[j[i].worker].fenced
           /\ latches' \subseteq Proc
  <2>. USE <1>CommitFacts
  <2>1. \/ owner' = Unfenced(owner) /\ Unresolved(j) = {}
        \/ owner' = owner
    BY SMTT(30) DEF CommitSettledRun
  <2>2. latches' \subseteq Proc
    BY Zenon DEF CommitSettledRun, TypeOK
  <2>. QED
    BY <2>1, <2>2, <1>LiftKeepsFence, Zenon

\* outcome and outcome_and_checkpoint keep the invariant.
<1>OutcomeSteps.
    ASSUME IInv, NEW p \in Proc, NEW i \in DOMAIN journal,
           NEW s \in Terminal, NEW r \in Receipt,
           Outcome(p, i, s, r) \/ OutcomeAndCheckpoint(p, i, s, r)
    PROVE  IInv'
  <2>. USE <1>OutcomeSteps
  <2>. USE DEF IInv
  <2>. DEFINE j == WithOutcome(i, s, r)
  <2>1. /\ AcceptsOutcome(i, s, r)
        /\ journal' = j
        /\ CommitSettledRun(p, j)
        /\ UNCHANGED verifying
        /\ UNCHANGED checkpoints \/ AppendGeneration(j)
    BY SMTT(30) DEF Outcome, OutcomeAndCheckpoint
  <2>2. RowsKept(journal, j) /\ NoNewUncertain(journal, j)
    BY <2>1, OutcomeKeepsRows, Zenon
  <2>. HIDE DEF j
  <2>3. /\ owner' \in [Worker -> OwnerRow]
        /\ \A w \in Worker : owner[w].epoch <= owner'[w].epoch
        /\ \A k \in DOMAIN j : j[k].state = "uncertain" => owner'[j[k].worker].fenced
        /\ latches' \subseteq Proc
    BY <2>1, <2>2, <1>CommitFacts, Zenon
  <2>. QED
    BY <2>1, <2>2, <2>3, <1>RewriteStep

\* uncertain, latch_uncertainty and recover fence every owner of the run.
<1>FenceSteps.
    ASSUME IInv, RowsKept(journal, journal'), owner' = Fenced(owner),
           NEW p \in Proc, latches' = latches \cup {p},
           UNCHANGED <<checkpoints, verifying>>
    PROVE  IInv'
  <2>. USE <1>FenceSteps
  <2>. USE DEF IInv
  <2>1. /\ owner' \in [Worker -> OwnerRow]
        /\ \A w \in Worker : owner'[w].epoch = owner[w].epoch
        /\ \A i \in DOMAIN journal : owner'[journal[i].worker].fenced
    BY FencedFacts, Zenon
  <2>2. \A w \in Worker : owner[w].epoch \in Nat
    BY EpochAssumption DEF TypeOK, OwnerRow
  <2>3. \A i \in DOMAIN journal' : owner'[journal'[i].worker].fenced
    BY <2>1 DEF RowsKept, RowKept
  <2>4. latches' \subseteq Proc
    BY Zenon DEF TypeOK
  <2>. QED
    BY <2>1, <2>2, <2>3, <2>4, <1>RewriteStep, SMTT(30)

\* The second transaction of reconcile keeps the invariant.
<1>ApplyProofStep.
    ASSUME IInv, NEW v \in verifying, NEW r \in Receipt, ApplyProof(v, r)
    PROVE  IInv'
  <2>. USE <1>ApplyProofStep
  <2>. USE DEF IInv
  <2>. DEFINE j == WithProof(v, r)
  <2>1. ProofApplies(v) /\ journal' = j /\ UNCHANGED checkpoints /\ verifying' \subseteq verifying
    BY DEF ApplyProof
  <2>2. RowsKept(journal, j) /\ NoNewUncertain(journal, j)
    BY <2>1, ProofKeepsRows, Zenon
  <2>3. /\ \/ owner' = Unfenced(owner) /\ Unresolved(j) = {}
           \/ owner' = owner
        /\ latches' \subseteq Proc
    BY Zenon DEF ApplyProof, TypeOK
  <2>. HIDE DEF j
  <2>4. /\ owner' \in [Worker -> OwnerRow]
        /\ \A w \in Worker : owner[w].epoch <= owner'[w].epoch
        /\ \A i \in DOMAIN j : j[i].state = "uncertain" => owner'[j[i].worker].fenced
    BY <2>2, <2>3, <1>LiftKeepsFence, Zenon
  <2>. QED
    BY <2>1, <2>2, <2>3, <2>4, <1>RewriteStep, Zenon

\* The first transaction of reconcile keeps the invariant.
<1>SnapshotStep.
    ASSUME IInv, NEW p \in Proc, NEW i \in DOMAIN journal, NEW e \in Epoch,
           ReconcileSnapshot(p, i, e)
    PROVE  IInv'
  <2>. USE <1>SnapshotStep
  <2>. USE DEF IInv
  <2>1. journal[i] \in Row /\ i \in Nat
    BY DEF TypeOK
  <2>2. verifying' \subseteq Verification
    BY <2>1 DEF ReconcileSnapshot, Verification, Verdict, TypeOK
  <2>3. UNCHANGED <<journal, owner, checkpoints, latches>>
    BY Zenon DEF ReconcileSnapshot
  <2>4. VerifyingRows'
    BY <2>3 DEF ReconcileSnapshot, VerifyingRows
  <2>. QED
    BY <2>2, <2>3, <2>4, <1>QuietStep, Zenon DEF TypeOK

\* The verifier answers, the join times out, the thread exits or the proof is
\* refused.
<1>VerdictSteps.
    ASSUME IInv, NEW v \in verifying,
           \/ \E verdict \in Terminal \cup {"none"} : Verify(v, verdict)
           \/ VerifierTimeout(v)
           \/ VerifierExits(v)
           \/ RefuseProof(v)
    PROVE  IInv'
  <2>. USE <1>VerdictSteps
  <2>. USE DEF IInv
  <2>1. UNCHANGED <<journal, owner, checkpoints, latches>>
    BY DEF Verify, VerifierTimeout, VerifierExits, RefuseProof
  <2>2. v \in Verification /\ verifying \subseteq Verification
    BY DEF TypeOK
  <2>3. \A d \in Terminal \cup {"none", "abandoned"} :
           /\ [v EXCEPT !.verdict = d] \in Verification
           /\ [v EXCEPT !.verdict = d].index = v.index
    BY <2>2 DEF Verification, Verdict
  <2>4. \/ verifying' = verifying \ {v}
        \/ \E d \in Terminal \cup {"none", "abandoned"} :
              verifying' = (verifying \ {v}) \cup {[v EXCEPT !.verdict = d]}
    BY Zenon DEF Verify, VerifierTimeout, VerifierExits, RefuseProof
  <2>5. verifying' \subseteq Verification /\ VerifyingRows'
    BY <2>1, <2>2, <2>3, <2>4, Zenon DEF VerifyingRows
  <2>. QED
    BY <2>1, <2>5, <1>QuietStep DEF TypeOK

<1>. SUFFICES ASSUME IInv, [Next]_vars PROVE IInv'
  OBVIOUS
<1>1. CASE \E p \in Proc, w \in Worker, e \in Epoch, op \in Op, key \in Key :
              Begin(p, w, e, op, key)
  BY <1>1, <1>BeginStep, Zenon
<1>2. CASE \E w \in Worker, e \in Epoch : ClaimOwner(w, e) \/ AppendCheckpoint(w, e)
  BY <1>2, <1>ClaimOwnerStep, <1>AppendCheckpointStep, Zenon
<1>3. CASE \E p \in Proc, i \in DOMAIN journal : OutcomeStep(p, i)
  BY <1>3, <1>OutcomeSteps DEF OutcomeStep
<1>4. CASE \E p \in Proc, i \in DOMAIN journal : RecordUncertainty(p, i)
  <2>1. PICK p \in Proc, i \in DOMAIN journal : RecordUncertainty(p, i)
    BY <1>4, Zenon
  <2>2. RowsKept(journal, journal')
    BY <2>1, UncertaintyKeepsRows, SMTT(30) DEF IInv
  <2>. QED
    BY <2>1, <2>2, <1>FenceSteps, Zenon DEF RecordUncertainty
<1>5. CASE \E p \in Proc, i \in DOMAIN journal, e \in Epoch : ReconcileSnapshot(p, i, e)
  BY <1>5, <1>SnapshotStep, Zenon
<1>6. CASE \E p \in Proc : RecordUncertaintyFails(p)
  BY <1>6, <1>QuietStep DEF RecordUncertaintyFails, IInv, TypeOK, VerifyingRows
<1>7. CASE \E p \in Proc : Crash(p)
  BY <1>7, <1>QuietStep, SMTT(40) DEF Crash, IInv, TypeOK, VerifyingRows
<1>8. CASE \E p \in Proc, live \in [Worker -> Epoch \cup {0}] : Recover(p, live)
  <2>1. PICK p \in Proc, live \in [Worker -> Epoch \cup {0}] : Recover(p, live)
    BY <1>8, Zenon
  <2>2. RowsKept(journal, journal')
    BY <2>1, RecoverKeepsRows DEF IInv
  <2>. QED
    BY <2>1, <2>2, <1>FenceSteps, Zenon DEF Recover
<1>9. CASE \E v \in verifying : ReconcileStep(v)
  BY <1>9, <1>VerdictSteps, <1>ApplyProofStep, Zenon DEF ReconcileStep
<1>10. CASE UNCHANGED vars
  BY <1>10, <1>QuietStep, Zenon DEF vars, IInv, TypeOK, VerifyingRows
<1>. QED
  BY <1>1, <1>2, <1>3, <1>4, <1>5, <1>6, <1>7, <1>8, <1>9, <1>10, Zenon DEF Next

\* The empty journal satisfies the invariant.
LEMMA InitInductive == Init => IInv
BY DEF Init, IInv, TypeOK, HasLatest, VerifyingRows, CheckpointsSettled,
       UncertainFenced, EpochsOrdered, IdentityUnique, OwnerRow

\* IInv is an invariant of the journal under any callers.
THEOREM Inductive == Spec => []IInv
BY InitInductive, NextInductive, PTL DEF Spec

\* Type correctness of the journal's tables, latches and reconcile calls.
THEOREM TypeCorrect == Spec => []TypeOK
<1>1. IInv => TypeOK
  BY DEF IInv
<1>. QED
  BY <1>1, Inductive, PTL

\* No retained checkpoint counts an effect without a definitive outcome.
THEOREM CheckpointsAlwaysSettled == Spec => []CheckpointsSettled
<1>1. IInv => CheckpointsSettled
  BY DEF IInv
<1>. QED
  BY <1>1, Inductive, PTL

\* A worker with an uncertain effect is durably fenced.
THEOREM UncertainAlwaysFenced == Spec => []UncertainFenced
<1>1. IInv => UncertainFenced
  BY DEF IInv
<1>. QED
  BY <1>1, Inductive, PTL

\* Effects are admitted in the order of the owner epochs.
THEOREM EpochsAlwaysOrdered == Spec => []EpochsOrdered
<1>1. IInv => EpochsOrdered
  BY DEF IInv
<1>. QED
  BY <1>1, Inductive, PTL

\* One row per operation and per idempotency key.
THEOREM IdentityAlwaysUnique == Spec => []IdentityUnique
<1>1. IInv => IdentityUnique
  BY Zenon DEF IInv
<1>. QED
  BY <1>1, Inductive, PTL

-----------------------------------------------------------------------------

\* Every step appends a row or keeps the rows.
LEMMA StepShape ==
    ASSUME IInv, [Next]_vars
    PROVE  \/ RowsKept(journal, journal')
           \/ \E p \in Proc, w \in Worker, e \in Epoch, op \in Op, key \in Key :
                  Begin(p, w, e, op, key)
<1>. USE DEF IInv
<1>1. UNCHANGED journal => RowsKept(journal, journal')
  BY RowsKeptSame, Zenon
<1>2. ASSUME NEW p \in Proc, NEW i \in DOMAIN journal, OutcomeStep(p, i)
      PROVE  RowsKept(journal, journal')
  BY <1>2, OutcomeKeepsRows, Zenon DEF OutcomeStep, Outcome, OutcomeAndCheckpoint
<1>3. ASSUME NEW v \in verifying, ReconcileStep(v)
      PROVE  RowsKept(journal, journal')
  BY <1>1, <1>3, ProofKeepsRows
     DEF ReconcileStep, Verify, VerifierTimeout, VerifierExits, ApplyProof, RefuseProof
<1>4. ASSUME NEW p \in Proc, NEW i \in DOMAIN journal, RecordUncertainty(p, i)
      PROVE  RowsKept(journal, journal')
  BY <1>4, UncertaintyKeepsRows, Zenon
<1>5. ASSUME NEW p \in Proc, NEW live \in [Worker -> Epoch \cup {0}], Recover(p, live)
      PROVE  RowsKept(journal, journal')
  BY <1>5, RecoverKeepsRows, Zenon
<1>6. ASSUME \/ \E w \in Worker, e \in Epoch : ClaimOwner(w, e) \/ AppendCheckpoint(w, e)
             \/ \E p \in Proc, i \in DOMAIN journal, e \in Epoch : ReconcileSnapshot(p, i, e)
             \/ \E p \in Proc : RecordUncertaintyFails(p) \/ Crash(p)
             \/ UNCHANGED vars
      PROVE  UNCHANGED journal
  BY <1>6, Zenon DEF ClaimOwner, AppendCheckpoint, ReconcileSnapshot,
              RecordUncertaintyFails, Crash, vars
<1>. QED
  BY <1>1, <1>2, <1>3, <1>4, <1>5, <1>6 DEF Next

\* The row that begin appends, and the rows before it.
LEMMA BeginAppends ==
    ASSUME TypeOK, NEW p \in Proc, NEW w \in Worker, NEW e \in Epoch,
           NEW op \in Op, NEW key \in Key, Begin(p, w, e, op, key)
    PROVE  /\ DOMAIN journal' = DOMAIN journal \cup {Len(journal) + 1}
           /\ \A i \in DOMAIN journal : journal'[i] = journal[i]
           /\ journal'[Len(journal) + 1].worker = w
           /\ journal'[Len(journal) + 1].op = op
<1>. DEFINE new == [op |-> op, key |-> key, worker |-> w, epoch |-> e,
                    state |-> "intent", receipt |-> NoReceipt, detail |-> ""]
<1>1. new.worker = w /\ new.op = op /\ new \in Row
  BY DEF Row, States
<1>2. journal \in Seq(Row) /\ journal' = Append(journal, new)
  BY Zenon DEF TypeOK, Begin
<1>. HIDE DEF new
<1>. QED
  BY <1>1, <1>2

\* A definitive outcome is never replaced, downgraded or dropped.
THEOREM TerminalRowsImmutable == Spec => TerminalImmutable
<1>1. IInv /\ [Next]_vars => [TerminalStep]_vars
  <2>. SUFFICES ASSUME IInv, [Next]_vars PROVE TerminalStep
    BY SMTT(30)
  <2>1. CASE RowsKept(journal, journal')
    BY <2>1 DEF RowsKept, RowKept, TerminalStep
  <2>2. ASSUME NEW p \in Proc, NEW w \in Worker, NEW e \in Epoch,
               NEW op \in Op, NEW key \in Key, Begin(p, w, e, op, key)
        PROVE  TerminalStep
    BY <2>2, BeginAppends DEF IInv, TerminalStep
  <2>. QED
    BY <2>1, <2>2, StepShape, Zenon
<1>. QED
  BY <1>1, Inductive, PTL DEF Spec, TerminalImmutable

\* An uncertain effect is settled only by a verifier's proof.
THEOREM UncertainRowsNeedProof == Spec => UncertainNeedsProof
<1>1. IInv /\ [Next]_vars => [UncertainStep]_vars
  <2>. SUFFICES ASSUME IInv, [Next]_vars PROVE UncertainStep
    BY Zenon
  <2>1. CASE RowsKept(journal, journal')
    BY <2>1, Zenon DEF RowsKept, RowKept, UncertainStep
  <2>2. ASSUME NEW p \in Proc, NEW w \in Worker, NEW e \in Epoch,
               NEW op \in Op, NEW key \in Key, Begin(p, w, e, op, key)
        PROVE  UncertainStep
    BY <2>2, BeginAppends, Zenon DEF IInv, UncertainStep
  <2>. QED
    BY <2>1, <2>2, StepShape, Zenon
<1>. QED
  BY <1>1, Inductive, PTL DEF Spec, UncertainNeedsProof

\* A worker with an uncertain effect in the run is admitted nothing new.
THEOREM AdmissionRefusedWhileUncertain == Spec => NoAdmissionOverUncertainty
<1>1. IInv /\ [Next]_vars => [AdmissionStep]_vars
  <2>. SUFFICES ASSUME IInv, [Next]_vars PROVE AdmissionStep
    BY Zenon
  <2>1. CASE RowsKept(journal, journal')
    BY <2>1, Zenon DEF RowsKept, AdmissionStep
  <2>2. ASSUME NEW p \in Proc, NEW w \in Worker, NEW e \in Epoch,
               NEW op \in Op, NEW key \in Key, Begin(p, w, e, op, key)
        PROVE  AdmissionStep
    <3>1. ~owner[w].fenced
      BY <2>2, Zenon DEF Begin, EnsureOwner
    <3>. QED
      BY <2>2, <3>1, BeginAppends DEF IInv, UncertainFenced, AdmissionStep
  <2>. QED
    BY <2>1, <2>2, StepShape
<1>. QED
  BY <1>1, Inductive, PTL DEF Spec, NoAdmissionOverUncertainty

\* The settled prefix reaches every retained checkpoint: the refusal "settled
\* effect high-water moved backwards" is unreachable.
THEOREM HighWaterNeverBack ==
    Spec => [](\A g \in DOMAIN checkpoints, n \in Nat :
                  SettledHighWater(journal, n) => checkpoints[g] <= n)
<1>1. IInv => \A g \in DOMAIN checkpoints, n \in Nat :
                 SettledHighWater(journal, n) => checkpoints[g] <= n
  <2>. SUFFICES ASSUME IInv, NEW g \in DOMAIN checkpoints, NEW n \in Nat,
                       SettledHighWater(journal, n), ~(checkpoints[g] <= n)
                PROVE  FALSE
    BY Zenon
  <2>1. /\ Len(journal) \in Nat
        /\ checkpoints[g] \in Nat
        /\ checkpoints[g] <= Len(journal)
        /\ \A i \in 1..checkpoints[g] : journal[i].state \in Terminal
    BY DEF IInv, TypeOK, CheckpointsSettled
  <2>2. n + 1 \in 1..checkpoints[g] /\ n < Len(journal)
    BY <2>1
  <2>3. journal[n + 1].state \in Terminal /\ IsUnresolved(journal[n + 1])
    BY <2>1, <2>2, Zenon DEF SettledHighWater
  <2>. QED
    BY <2>3 DEF IsUnresolved, Terminal
<1>. QED
  BY <1>1, Inductive, PTL

-----------------------------------------------------------------------------
(***************************************************************************)
(* The inductive invariant.                                                *)
(***************************************************************************)

\* Only running processes hold anything.
Alive ==
    /\ \A p \in hosts : Up(p)
    /\ \A x \in ready : Up(x[1])
    /\ \A p \in Proc, w \in Worker : recovery[p][w] # NoRecovery => Up(p)
    /\ \A t \in Thread : call[t] # NoCall => Up(call[t].proc)

\* What a recovery has left to examine are rows of the journal.
TodoRows ==
    \A p \in Proc, w \in Worker :
        recovery[p][w] # NoRecovery => recovery[p][w].todo \subseteq DOMAIN journal

\* A call past its admission has its row.
CallRow(c) == c.index \in DOMAIN journal /\ journal[c.index].op = c.op

CallRows ==
    \A t \in Thread : call[t] # NoCall /\ call[t].pc # "looked" => CallRow(call[t])

\* An admitted operation has not been invoked, and no other call may invoke it.
Fresh ==
    /\ \A t \in Thread : call[t].pc = "admitted" => invoked[call[t].op] = 0
    /\ \A t, u \in Thread : /\ t # u
                            /\ call[t].pc = "admitted"
                            /\ call[u].pc = "admitted"
                            => call[t].op # call[u].op

\* A reconcile call whose join has not timed out is the one call that the
\* recovery of its worker waits for.
Awaiting(v) == v.verdict # "abandoned"

SameRecovery(u, v) == u.proc = v.proc /\ u.snapshot.worker = v.snapshot.worker

Awaited ==
    /\ \A v \in verifying :
           Awaiting(v) => Recovering(v.proc, v.snapshot.worker) = "waiting"
    /\ \A u, v \in verifying :
           Awaiting(u) /\ Awaiting(v) /\ SameRecovery(u, v) => u = v

CallInv == WTypeOK /\ Alive /\ TodoRows /\ CallRows /\ Fresh /\ AtMostOnce /\ Awaited

WInv == IInv /\ CallInv

\* The rows of the journal keep their places and their operations.
JournalGrows ==
    /\ DOMAIN journal \subseteq DOMAIN journal'
    /\ \A i \in DOMAIN journal : journal'[i].op = journal[i].op

-----------------------------------------------------------------------------
(***************************************************************************)
(* The callers use the journal through its operations only.                *)
(***************************************************************************)

\* A running process has an owner epoch the journal accepts (worker_owner_epoch).
LEMMA EpochOfUp ==
    ASSUME WTypeOK, NEW p \in Proc, Up(p)
    PROVE  epochOf[p] \in Epoch
BY StartsAssumption DEF WTypeOK, Up

\* The fields of a call under way.
LEMMA CallTyped ==
    ASSUME WTypeOK, NEW t \in Thread, call[t] # NoCall
    PROVE  /\ call[t].pc \in {"looked", "admitted", "returned", "raised", "latching"}
           /\ call[t].proc \in Proc
           /\ call[t].worker \in Worker
           /\ call[t].op \in Op
           /\ call[t].key \in Key
           /\ call[t].index \in Nat
           /\ call[t].result \in Terminal
BY DEF WTypeOK, CallState

\* A call with one of the program counters of a call under way.
LEMMA CallUnderWay ==
    ASSUME NEW t \in Thread, call[t].pc # "idle"
    PROVE  call[t] # NoCall
BY DEF NoCall

\* A recovery in one of its phases.
LEMMA RecoveryUnderWay ==
    ASSUME NEW p \in Proc, NEW w \in Worker, Recovering(p, w) # "none"
    PROVE  recovery[p][w] # NoRecovery
BY DEF NoRecovery, Recovering

\* Every step of the composition is a step of the journal or leaves it alone.
LEMMA StoreStep == WInv /\ [WNext]_wvars => [Next]_vars

\* The steps of a recovery.
<1>RecoveryStoreStep.
    ASSUME WInv, NEW p \in Proc, NEW w \in Worker, RecoveryStep(p, w)
    PROVE  [Next]_vars
  <2>. USE <1>RecoveryStoreStep
  <2>. USE DEF WInv, CallInv
  <2>1. CASE \/ TakeRunLease(p, w) \/ ProbePeers(p, w) \/ PassRefused(p, w)
             \/ RecoverNothing(p, w) \/ SkipIntent(p, w) \/ ReconcileEnds(p, w)
             \/ Restore(p, w)
    BY <2>1, Zenon DEF TakeRunLease, ProbePeers, PassRefused, RecoverNothing, SkipIntent,
                ReconcileEnds, Restore
  <2>2. CASE Claim(p, w)
    <3>1. epochOf[p] \in Epoch
      BY <2>2, EpochOfUp, Zenon DEF Claim, Alive
    <3>. QED
      BY <2>2, <3>1, Zenon DEF Claim, Next
  <2>3. CASE RecoverOrphans(p, w)
    <3>1. NoneLive \in [Worker -> Epoch \cup {0}]
      BY Zenon DEF NoneLive
    <3>2. Recover(p, NoneLive)
      BY <2>3, Zenon DEF RecoverOrphans
    <3>. QED
      BY <3>1, <3>2, Zenon DEF Next
  <2>4. CASE RecoverRaises(p, w)
    BY <2>4, Zenon DEF RecoverRaises, Next
  <2>5. CASE OfferIntent(p, w)
    <3>1. recovery[p][w] # NoRecovery
      BY <2>5, RecoveryUnderWay, Zenon DEF OfferIntent
    <3>2. epochOf[p] \in Epoch
      BY <3>1, EpochOfUp, Zenon DEF Alive
    <3>3. PICK i : ReconcileSnapshot(p, i, epochOf[p])
      BY <2>5, Zenon DEF OfferIntent
    <3>4. i \in DOMAIN journal
      BY <3>3, Zenon DEF ReconcileSnapshot
    <3>. QED
      BY <3>2, <3>3, <3>4, Zenon DEF Next
  <2>. QED
    BY <2>1, <2>2, <2>3, <2>4, <2>5, Zenon DEF RecoveryStep

\* The steps of a call.
<1>CallStoreStep.
    ASSUME WInv, NEW t \in Thread, CallStep(t)
    PROVE  [Next]_vars
  <2>. USE <1>CallStoreStep
  <2>. USE DEF WInv, CallInv
  <2>1. CASE \/ \E x \in ready, op \in Op, key \in Key : LookUp(t, x[1], x[2], op, key)
             \/ AdmitReplayed(t) \/ AdmitRefused(t) \/ Invoke(t) \/ InvokeRaises(t)
             \/ PublishFails(t)
    BY <2>1, Zenon DEF LookUp, AdmitReplayed, AdmitRefused, Invoke, InvokeRaises, PublishFails
  <2>2. CASE Admit(t)
    <3>1. call[t] # NoCall
      BY <2>2, CallUnderWay, Zenon DEF Admit
    <3>2. /\ call[t].proc \in Proc /\ call[t].worker \in Worker
          /\ call[t].op \in Op /\ call[t].key \in Key
      BY <3>1, CallTyped, Zenon
    <3>3. epochOf[call[t].proc] \in Epoch
      BY <3>1, <3>2, EpochOfUp, Zenon DEF Alive
    <3>. QED
      BY <2>2, <3>2, <3>3 DEF Admit, Next
  <2>3. ASSUME call[t].pc \in {"returned", "raised", "latching"}
        PROVE  /\ call[t].proc \in Proc
               /\ call[t].index \in DOMAIN journal
               /\ call[t].result \in Terminal
    <3>1. call[t] # NoCall
      BY <2>3, CallUnderWay
    <3>. QED
      BY <2>3, <3>1, CallTyped, Zenon DEF CallRows, CallRow
  <2>4. CASE Publish(t)
    BY <2>3, <2>4, Zenon DEF Publish, OutcomeStep, Next
  <2>5. CASE MarkUncertain(t)
    BY <2>3, <2>5, Zenon DEF MarkUncertain, Uncertainty, Next
  <2>6. CASE LatchUncertainty(t)
    BY <2>3, <2>6, Zenon DEF LatchUncertainty, Uncertainty, Next
  <2>. QED
    BY <2>1, <2>2, <2>4, <2>5, <2>6, Zenon DEF CallStep

<1>. SUFFICES ASSUME WInv, [WNext]_wvars PROVE [Next]_vars
  BY Zenon
<1>1. CASE \E p \in Proc : Start(p) \/ OpenJournal(p) \/ Die(p)
  BY <1>1, Zenon DEF Start, OpenJournal, Die, Next
<1>2. CASE \E p \in Proc, w \in Worker : RecoveryStep(p, w)
  BY <1>2, <1>RecoveryStoreStep
<1>3. CASE \E v \in verifying :
              VerifierAnswers(v) \/ VerifierStops(v) \/ ReconcileReturns(v)
  BY <1>3, Zenon DEF VerifierAnswers, VerifierStops, ReconcileReturns, ReconcileStep, Next
<1>4. CASE \E t \in Thread : CallStep(t)
  BY <1>4, <1>CallStoreStep, Zenon
<1>5. CASE UNCHANGED wvars
  BY <1>5, Zenon DEF wvars, vars
<1>. QED
  BY <1>1, <1>2, <1>3, <1>4, <1>5 DEF WNext

-----------------------------------------------------------------------------
(***************************************************************************)
(* The invariant is inductive.                                             *)
(***************************************************************************)

\* No operation of the journal moves a row or changes its operation.
LEMMA StoreGrows ==
    ASSUME IInv, [Next]_vars
    PROVE  JournalGrows
<1>1. CASE RowsKept(journal, journal')
  BY <1>1, Zenon DEF RowsKept, RowKept, JournalGrows
<1>2. ASSUME NEW p \in Proc, NEW w \in Worker, NEW e \in Epoch,
             NEW op \in Op, NEW key \in Key, Begin(p, w, e, op, key)
      PROVE  JournalGrows
  BY <1>2, BeginAppends, Zenon DEF IInv, JournalGrows
<1>. QED
  BY <1>1, <1>2, StepShape

\* A recovery at one of its phases, by its fields.
LEMMA RecoveryAt ==
    ASSUME WInv, NEW p \in Proc, NEW w \in Worker, Recovering(p, w) # "none"
    PROVE  /\ Up(p)
           /\ recovery[p][w] \in
                [phase: {"probed", "claimed", "reconciling", "waiting", "restoring"},
                 pass: BOOLEAN, todo: SUBSET Nat, fenced: BOOLEAN]
           /\ recovery[p][w].todo \subseteq DOMAIN journal
           /\ Resumed(recovery[p][w]) \in RecoveryState
           /\ Resumed(recovery[p][w]) # NoRecovery =>
                  Resumed(recovery[p][w]).todo = recovery[p][w].todo
           /\ \A i, b : b \in BOOLEAN =>
                 /\ Examined(recovery[p][w], i, b) \in RecoveryState
                 /\ Examined(recovery[p][w], i, b).todo \subseteq recovery[p][w].todo
<1>1. recovery[p][w] # NoRecovery
  BY RecoveryUnderWay, Zenon
<1>2. recovery[p][w] \in
        [phase: {"probed", "claimed", "reconciling", "waiting", "restoring"},
         pass: BOOLEAN, todo: SUBSET Nat, fenced: BOOLEAN]
  BY <1>1 DEF WInv, CallInv, WTypeOK, RecoveryState
<1>3. Up(p) /\ recovery[p][w].todo \subseteq DOMAIN journal
  BY <1>1 DEF WInv, CallInv, Alive, TodoRows
<1>4. /\ Resumed(recovery[p][w]) \in RecoveryState
      /\ Resumed(recovery[p][w]) # NoRecovery =>
             Resumed(recovery[p][w]).todo = recovery[p][w].todo
  BY <1>2, Zenon DEF Resumed, RecoveryState
<1>5. ASSUME NEW i, NEW b \in BOOLEAN
      PROVE  /\ Examined(recovery[p][w], i, b) \in RecoveryState
             /\ Examined(recovery[p][w], i, b).todo \subseteq recovery[p][w].todo
  BY <1>2, Zenon DEF Examined, RecoveryState
<1>. QED
  BY <1>2, <1>3, <1>4, <1>5, Zenon

\* A call that has begun, by its fields.
LEMMA CallAt ==
    ASSUME WInv, NEW t \in Thread, call[t].pc # "idle"
    PROVE  /\ call[t] # NoCall
           /\ call[t] \in CallState
           /\ Up(call[t].proc)
           /\ call[t].proc \in Proc /\ call[t].worker \in Worker
           /\ call[t].op \in Op /\ call[t].key \in Key
           /\ call[t].pc # "looked" => CallRow(call[t])
<1>1. call[t] # NoCall
  BY CallUnderWay, Zenon
<1>2. call[t] \in [pc: {"looked", "admitted", "returned", "raised", "latching"},
                  proc: Proc, worker: Worker, op: Op, key: Key, index: Nat,
                  result: Terminal]
  BY <1>1, Zenon DEF WInv, CallInv, WTypeOK, CallState
<1>3. Up(call[t].proc) /\ (call[t].pc # "looked" => CallRow(call[t]))
  BY <1>1, Zenon DEF WInv, CallInv, Alive, CallRows
<1>4. call[t] \in CallState
  BY <1>2, Zenon DEF CallState
<1>. QED
  BY <1>1, <1>2, <1>3, <1>4, Zenon

\* Every step of the composition keeps the invariant.
LEMMA WNextInductive == WInv /\ [WNext]_wvars => WInv'

\* A growing journal keeps what refers to its rows.
<1>GrowthKeeps.
    ASSUME JournalGrows, WTypeOK
    PROVE  /\ UNCHANGED recovery /\ TodoRows => TodoRows'
           /\ UNCHANGED call /\ CallRows => CallRows'
           /\ UNCHANGED invoked /\ AtMostOnce => AtMostOnce'
           /\ UNCHANGED <<call, invoked>> /\ Fresh => Fresh'
  <2>. USE <1>GrowthKeeps
  <2>1. UNCHANGED recovery /\ TodoRows => TodoRows'
    BY Zenon DEF JournalGrows, TodoRows
  <2>2. UNCHANGED call /\ CallRows => CallRows'
    BY DEF JournalGrows, CallRows, CallRow
  <2>3. UNCHANGED invoked /\ AtMostOnce => AtMostOnce'
    <3>. SUFFICES ASSUME UNCHANGED invoked, AtMostOnce, NEW op \in Op
                  PROVE  /\ invoked'[op] <= 1
                         /\ invoked'[op] = 1 => \E i \in DOMAIN journal' : journal'[i].op = op
      BY Zenon DEF AtMostOnce
    <3>1. invoked'[op] <= 1
      BY Zenon DEF AtMostOnce
    <3>2. ASSUME invoked'[op] = 1 PROVE \E i \in DOMAIN journal' : journal'[i].op = op
      <4>1. PICK i \in DOMAIN journal : journal[i].op = op
        BY <3>2, Zenon DEF AtMostOnce
      <4>. QED
        BY <4>1 DEF JournalGrows
    <3>. QED
      BY <3>1, <3>2, Zenon
  <2>4. UNCHANGED <<call, invoked>> /\ Fresh => Fresh'
    BY Zenon DEF Fresh
  <2>. QED
    BY <2>1, <2>2, <2>3, <2>4, Zenon

\* A step of one recovery: all but what it waits for.
<1>RecoveryChanges.
    ASSUME WInv, JournalGrows, NEW p \in Proc, NEW w \in Worker,
           NEW new \in RecoveryState,
           recovery' = [recovery EXCEPT ![p][w] = new],
           new # NoRecovery => Up(p) /\ new.todo \subseteq DOMAIN journal,
           ready' = ready \/ (ready' = ready \cup {<<p, w>>} /\ Up(p)),
           UNCHANGED <<epochOf, clock, hosts, permanent, call, world>>
    PROVE  /\ Awaited' => CallInv'
           /\ \A q \in Proc, v \in Worker :
                 recovery'[q][v] = IF q = p /\ v = w THEN new ELSE recovery[q][v]
           /\ \A v \in verifying : v.proc \in Proc /\ v.snapshot.worker \in Worker
  <2>. USE <1>RecoveryChanges
  <2>. USE DEF WInv, CallInv
  <2>1. recovery' \in [Proc -> [Worker -> RecoveryState]]
    BY Zenon DEF WTypeOK
  <2>2. \A q \in Proc, v \in Worker :
           recovery'[q][v] = IF q = p /\ v = w THEN new ELSE recovery[q][v]
    BY Zenon DEF WTypeOK
  <2>3. WTypeOK'
    BY <2>1, SMTT(30) DEF WTypeOK, world
  <2>4. Alive'
    BY <2>2 DEF Alive, Up
  <2>5. TodoRows'
    BY <2>2 DEF TodoRows, JournalGrows
  <2>6. CallRows' /\ Fresh' /\ AtMostOnce'
    BY <1>GrowthKeeps DEF world
  <2>7. \A v \in verifying : v.proc \in Proc /\ v.snapshot.worker \in Worker
    BY Zenon DEF IInv, TypeOK, Verification, Row
  <2>. QED
    BY <2>2, <2>3, <2>4, <2>5, <2>6, <2>7

\* A step of one recovery that is not waiting for a verifier.
<1>RecoveryMoves.
    ASSUME WInv, JournalGrows, NEW p \in Proc, NEW w \in Worker,
           NEW new \in RecoveryState,
           recovery' = [recovery EXCEPT ![p][w] = new],
           new # NoRecovery => Up(p) /\ new.todo \subseteq DOMAIN journal,
           Recovering(p, w) # "waiting",
           ready' = ready \/ (ready' = ready \cup {<<p, w>>} /\ Up(p)),
           UNCHANGED <<epochOf, clock, hosts, permanent, call, world, verifying>>
    PROVE  CallInv'
  <2>. USE <1>RecoveryMoves
  <2>1. /\ \A q \in Proc, v \in Worker :
              recovery'[q][v] = IF q = p /\ v = w THEN new ELSE recovery[q][v]
        /\ \A v \in verifying : v.proc \in Proc /\ v.snapshot.worker \in Worker
        /\ Awaited' => CallInv'
    BY <1>RecoveryChanges, ZenonT(40)
  <2>2. ASSUME NEW v \in verifying, Awaiting(v)
        PROVE  recovery'[v.proc][v.snapshot.worker].phase = "waiting"
    <3>1. recovery[v.proc][v.snapshot.worker].phase = "waiting"
      BY <2>2, Zenon DEF WInv, CallInv, Awaited, Recovering
    <3>2. ~(v.proc = p /\ v.snapshot.worker = w)
      BY <3>1, Zenon DEF Recovering
    <3>. QED
      BY <2>1, <3>1, <3>2
  <2>3. Awaited'
    BY <2>2, Zenon DEF WInv, CallInv, Awaited, Recovering, Awaiting, SameRecovery
  <2>. QED
    BY <2>1, <2>3, Zenon

\* A step of one call that invokes nothing and admits nothing.
<1>CallMoves.
    ASSUME WInv, JournalGrows, NEW t \in Thread, NEW new \in CallState,
           call' = [call EXCEPT ![t] = new],
           new # NoCall => /\ Up(new.proc)
                           /\ new.pc # "admitted"
                           /\ new.pc # "looked" => CallRow(new),
           UNCHANGED <<epochOf, clock, hosts, recovery, permanent, ready, world,
                       verifying>>
    PROVE  CallInv'
  <2>. USE <1>CallMoves
  <2>. USE DEF WInv, CallInv
  <2>1. call' \in [Thread -> CallState]
    BY Zenon DEF WTypeOK
  <2>2. \A u \in Thread : call'[u] = IF u = t THEN new ELSE call[u]
    BY Zenon DEF WTypeOK
  <2>3. WTypeOK'
    BY <2>1, Zenon DEF WTypeOK, world
  <2>4. Alive'
    BY <2>2, SMTT(30) DEF Alive, Up
  <2>5. TodoRows' /\ AtMostOnce'
    BY <1>GrowthKeeps, Zenon DEF world
  <2>6. CallRows'
    BY <2>2, SMTT(30) DEF CallRows, CallRow, JournalGrows
  <2>7. call'[t].pc # "admitted"
    BY <2>2, SMTT(30) DEF NoCall
  <2>8. Fresh'
    <3>1. \A u \in Thread : call'[u].pc = "admitted" => call'[u] = call[u]
      BY <2>2, <2>7, Zenon
    <3>2. Fresh /\ invoked' = invoked
      BY Zenon DEF world
    <3>. HIDE DEF WInv, CallInv
    <3>. QED
      BY <3>1, <3>2 DEF Fresh
  <2>9. Awaited'
    BY Zenon DEF Awaited, Recovering, Awaiting, SameRecovery
  <2>. QED
    BY <2>3, <2>4, <2>5, <2>6, <2>8, <2>9, Zenon

\* Every step of a recovery, except that it takes the lease or waits for a
\* verifier, moves the recovery to a state RecoveryMoves allows.
<1>RecoveryInductive.
    ASSUME WInv, JournalGrows, NEW p \in Proc, NEW w \in Worker,
           RecoveryStep(p, w)
    PROVE  CallInv'
  <2>. USE <1>RecoveryInductive
  <2>. DEFINE r == recovery[p][w]
  <2>1. CASE TakeRunLease(p, w)
    <3>1. UNCHANGED <<vars, epochOf, clock, hosts, recovery, ready, call, world>>
      BY <2>1, Zenon DEF TakeRunLease
    <3>2. WTypeOK'
      <4>1. permanent' \subseteq Proc \X Worker
        <5>1. permanent' = permanent \cup {<<p, w>>} /\ permanent \subseteq Proc \X Worker
          BY <2>1, Zenon DEF TakeRunLease, WTypeOK, WInv, CallInv
        <5>. QED
          BY <5>1
      <4>. QED
        BY <3>1, <4>1, Zenon DEF WTypeOK, WInv, CallInv, world
    <3>3. Alive' /\ Awaited'
      BY <3>1, Zenon DEF WInv, CallInv, Alive, Up, Awaited, Recovering, Awaiting,
                  SameRecovery, vars
    <3>. QED
      BY <3>1, <3>2, <3>3, <1>GrowthKeeps, Zenon DEF WInv, CallInv, world
  <2>2. CASE ProbePeers(p, w)
    <3>. DEFINE new == [phase |-> "probed", pass |-> TRUE, todo |-> {}, fenced |-> FALSE]
    <3>1. new \in RecoveryState /\ new.todo = {}
      BY Zenon DEF RecoveryState
    <3>2. Up(p)
      BY <2>2, Zenon DEF ProbePeers, WInv, CallInv, Alive
    <3>3. recovery' = [recovery EXCEPT ![p][w] = new] /\ Recovering(p, w) # "waiting"
      BY <2>2, Zenon DEF ProbePeers
    <3>4. UNCHANGED <<epochOf, clock, hosts, permanent, ready, call, world, verifying>>
      BY <2>2, Zenon DEF ProbePeers, vars
    <3>. QED
      BY <3>1, <3>2, <3>3, <3>4, <1>RecoveryMoves, Zenon
  <2>3. CASE Claim(p, w)
    <3>. DEFINE new == [phase |-> "claimed", pass |-> Recovering(p, w) = "probed",
                        todo |-> {}, fenced |-> FALSE]
    <3>1. new \in RecoveryState /\ new.todo = {}
      BY Zenon DEF RecoveryState
    <3>2. Up(p)
      BY <2>3, Zenon DEF Claim, WInv, CallInv, Alive
    <3>3. recovery' = [recovery EXCEPT ![p][w] = new] /\ Recovering(p, w) # "waiting"
      BY <2>3 DEF Claim
    <3>4. UNCHANGED <<epochOf, clock, hosts, permanent, ready, call, world, verifying>>
      BY <2>3 DEF Claim, ClaimOwner
    <3>. QED
      BY <3>1, <3>2, <3>3, <3>4, <1>RecoveryMoves, Zenon
  <2>4. CASE PassRefused(p, w) \/ RecoverRaises(p, w)
    <3>1. NoRecovery \in RecoveryState
      BY Zenon DEF RecoveryState
    <3>2. recovery' = [recovery EXCEPT ![p][w] = NoRecovery] /\ Recovering(p, w) # "waiting"
      BY <2>4, Zenon DEF PassRefused, RecoverRaises
    <3>3. UNCHANGED <<epochOf, clock, hosts, permanent, ready, call, world, verifying>>
      BY <2>4, Zenon DEF PassRefused, RecoverRaises, RecordUncertaintyFails, vars
    <3>. QED
      BY <3>1, <3>2, <3>3, <1>RecoveryMoves, Zenon
  <2>5. CASE RecoverOrphans(p, w)
    <3>. DEFINE new == [r EXCEPT !.phase = "reconciling", !.todo = Orphaned(NoneLive)]
    <3>1. Recovering(p, w) = "claimed"
      BY <2>5 DEF RecoverOrphans
    <3>2. Orphaned(NoneLive) \subseteq DOMAIN journal /\ DOMAIN journal \subseteq Nat
      BY DEF Orphaned, Unresolved, WInv, IInv, TypeOK
    <3>3. Up(p) /\ new \in RecoveryState /\ new.todo = Orphaned(NoneLive)
      BY <3>1, <3>2, RecoveryAt, ZenonT(40) DEF RecoveryState
    <3>4. recovery' = [recovery EXCEPT ![p][w] = new]
      BY <2>5, Zenon DEF RecoverOrphans, WInv, CallInv, WTypeOK
    <3>5. UNCHANGED <<epochOf, clock, hosts, permanent, ready, call, world, verifying>>
      BY <2>5, Zenon DEF RecoverOrphans, Recover
    <3>. HIDE DEF new
    <3>. QED
      BY <3>1, <3>2, <3>3, <3>4, <3>5, <1>RecoveryMoves, Zenon
  <2>6. CASE RecoverNothing(p, w)
    <3>1. Recovering(p, w) = "claimed" /\ recovery' = [recovery EXCEPT ![p][w] = Resumed(r)]
      BY <2>6, Zenon DEF RecoverNothing, WInv, CallInv, WTypeOK
    <3>2. UNCHANGED <<epochOf, clock, hosts, permanent, ready, call, world, verifying>>
      BY <2>6 DEF RecoverNothing, vars
    <3>. QED
      BY <3>1, <3>2, RecoveryAt, <1>RecoveryMoves, Zenon
  <2>7. CASE SkipIntent(p, w)
    <3>0. PICK i : recovery' = [recovery EXCEPT
                                   ![p][w] = Examined(r, i, IsUnresolved(journal[i]))]
      BY <2>7, Zenon DEF SkipIntent
    <3>. DEFINE b == IsUnresolved(journal[i])
    <3>1. Recovering(p, w) = "reconciling" /\ recovery' = [recovery EXCEPT ![p][w] = Examined(r, i, b)]
      BY <2>7, <3>0, Zenon DEF SkipIntent
    <3>2. UNCHANGED <<epochOf, clock, hosts, permanent, ready, call, world, verifying>>
      BY <2>7, Zenon DEF SkipIntent, vars
    <3>3. b \in BOOLEAN
      BY DEF IsUnresolved
    <3>. HIDE DEF b
    <3>. QED
      BY <3>1, <3>2, <3>3, RecoveryAt, <1>RecoveryMoves, Zenon
  <2>8. CASE ReconcileEnds(p, w)
    <3>. DEFINE new == IF r.fenced THEN NoRecovery ELSE Resumed(r)
    <3>1. Recovering(p, w) = "reconciling" /\ recovery' = [recovery EXCEPT ![p][w] = new]
      BY <2>8, SMTT(30) DEF ReconcileEnds, WInv, CallInv, WTypeOK
    <3>2. UNCHANGED <<epochOf, clock, hosts, permanent, ready, call, world, verifying>>
      BY <2>8, Zenon DEF ReconcileEnds, vars
    <3>3. Up(p) /\ new \in RecoveryState /\ (new # NoRecovery => new.todo \subseteq DOMAIN journal)
      BY <3>1, RecoveryAt DEF RecoveryState
    <3>. HIDE DEF new
    <3>. QED
      BY <3>1, <3>2, <3>3, <1>RecoveryMoves, ZenonT(40)
  <2>9. CASE Restore(p, w)
    <3>1. NoRecovery \in RecoveryState
      BY Zenon DEF RecoveryState
    <3>2. /\ Recovering(p, w) = "restoring"
          /\ recovery' = [recovery EXCEPT ![p][w] = NoRecovery]
          /\ ready' = ready \/ ready' = ready \cup {<<p, w>>}
      BY <2>9, Zenon DEF Restore
    <3>3. UNCHANGED <<epochOf, clock, hosts, permanent, call, world, verifying>>
      BY <2>9, Zenon DEF Restore, vars
    <3>4. Up(p)
      BY <3>2, RecoveryAt, Zenon
    <3>. QED
      BY <3>1, <3>2, <3>3, <3>4, <1>RecoveryMoves, Zenon
  <2>10. CASE OfferIntent(p, w)
    <3>0. PICK i : journal[i].worker = w /\ ReconcileSnapshot(p, i, epochOf[p])
      BY <2>10, Zenon DEF OfferIntent
    <3>. DEFINE new == [r EXCEPT !.phase = "waiting"]
                nv  == [proc |-> p, index |-> i, snapshot |-> journal[i],
                        epoch |-> epochOf[p], verdict |-> "pending"]
    <3>1. /\ Recovering(p, w) = "reconciling"
          /\ journal[i].worker = w
          /\ verifying' = verifying \cup {nv}
      BY <2>10, <3>0, Zenon DEF OfferIntent, ReconcileSnapshot
    <3>2. recovery' = [recovery EXCEPT ![p][w] = new]
      BY <2>10, Zenon DEF OfferIntent, WInv, CallInv, WTypeOK
    <3>3. UNCHANGED <<epochOf, clock, hosts, permanent, ready, call, world>>
      BY <2>10 DEF OfferIntent
    <3>4. /\ Up(p) /\ new \in RecoveryState
          /\ new.todo \subseteq DOMAIN journal /\ new.phase = "waiting"
      <4>1. /\ Up(p) /\ r.todo \subseteq DOMAIN journal
            /\ r \in [phase: {"probed", "claimed", "reconciling", "waiting", "restoring"},
                     pass: BOOLEAN, todo: SUBSET Nat, fenced: BOOLEAN]
        BY <3>1, RecoveryAt, Zenon
      <4>. QED
        BY <4>1, Zenon DEF RecoveryState
    <3>5. nv.proc = p /\ nv.snapshot.worker = w
      BY <3>1, Zenon
    <3>. HIDE DEF new, nv
    <3>6. /\ Awaited' => CallInv'
          /\ \A q \in Proc, v \in Worker :
                recovery'[q][v] = IF q = p /\ v = w THEN new ELSE recovery[q][v]
          /\ \A v \in verifying : v.proc \in Proc /\ v.snapshot.worker \in Worker
      BY <3>2, <3>3, <3>4, <1>RecoveryChanges, Zenon
    <3>7. \A v \in verifying : Awaiting(v) => ~SameRecovery(v, nv)
      BY <3>1, <3>5, Zenon DEF WInv, CallInv, Awaited, SameRecovery
    <3>8. Awaited'
      <4>0. Awaited
        BY Zenon DEF WInv, CallInv
      <4>1. \A v \in verifying' : v \in verifying \/ v = nv
        BY <3>1, Zenon
      <4>2. ASSUME NEW v \in verifying', Awaiting(v)
            PROVE  recovery'[v.proc][v.snapshot.worker].phase = "waiting"
        BY <3>4, <3>5, <3>6, <4>0, <4>1, <4>2, ZenonT(40) DEF Awaited, Recovering
      <4>3. ASSUME NEW u \in verifying', NEW v \in verifying',
                   Awaiting(u), Awaiting(v), SameRecovery(u, v)
            PROVE  u = v
        <5>1. SameRecovery(v, u)
          BY <4>3, Zenon DEF SameRecovery
        <5>. QED
          BY <3>7, <4>0, <4>1, <4>3, <5>1, Zenon DEF Awaited
      <4>. QED
        BY <4>2, <4>3, Zenon DEF Awaited, Recovering, Awaiting, SameRecovery
    <3>. QED
      BY <3>6, <3>8, Zenon
  <2>. QED
    BY <2>1, <2>2, <2>3, <2>4, <2>5, <2>6, <2>7, <2>8, <2>9, <2>10, Zenon DEF RecoveryStep

\* The caller of reconcile gets its answer: the recovery goes on.
<1>AnswerInductive.
    ASSUME WInv, JournalGrows, NEW v \in verifying, ReconcileReturns(v)
    PROVE  CallInv'
  <2>. USE <1>AnswerInductive
  <2>. DEFINE p == v.proc
              w == v.snapshot.worker
              r == recovery[p][w]
  <2>1. p \in Proc /\ w \in Worker /\ v \in Verification
    BY Zenon DEF WInv, IInv, TypeOK, Verification, Row
  <2>2. PICK b \in BOOLEAN : Answered(v, b)
    <3>. DEFINE c == IsUnresolved(journal[v.index])
    <3>1. c \in BOOLEAN
      BY DEF IsUnresolved
    <3>2. Answered(v, FALSE) \/ Answered(v, c) \/ Answered(v, TRUE)
      BY Zenon DEF ReconcileReturns
    <3>3. FALSE \in BOOLEAN /\ TRUE \in BOOLEAN
      OBVIOUS
    <3>. HIDE DEF c
    <3>. QED
      BY <3>1, <3>2, <3>3, Zenon
  <2>3. Awaiting(v)
    BY Zenon DEF ReconcileReturns, ApplyProof, ProofApplies, Terminal, RefuseProof,
           HoldsSlot, VerifierTimeout, Verify, Awaiting
  <2>4. Recovering(p, w) = "waiting"
    BY <2>3, Zenon DEF WInv, CallInv, Awaited
  <2>5. recovery' = [recovery EXCEPT ![p][w] = Examined(r, v.index, b)]
    BY <2>1, <2>2 DEF Answered, WInv, CallInv, WTypeOK
  <2>6. UNCHANGED <<epochOf, clock, hosts, permanent, ready, call, world>>
    BY <2>2, Zenon DEF Answered
  <2>7. /\ Up(p) /\ Examined(r, v.index, b) \in RecoveryState
        /\ Examined(r, v.index, b).todo \subseteq DOMAIN journal
    <3>1. /\ Up(p) /\ Examined(r, v.index, b) \in RecoveryState
          /\ r.todo \subseteq DOMAIN journal /\ Examined(r, v.index, b).todo \subseteq r.todo
      BY <2>1, <2>4, RecoveryAt, Zenon
    <3>. QED
      BY <3>1, Zenon
  <2>8. \A u \in verifying' : Awaiting(u) => u \in verifying \ {v}
    BY Zenon DEF ReconcileReturns, ApplyProof, RefuseProof, VerifierTimeout, Verify,
           Awaiting, WInv, IInv, TypeOK, Verification
  <2>9. \A u \in verifying \ {v} : Awaiting(u) => ~SameRecovery(u, v)
    BY <2>3 DEF WInv, CallInv, Awaited
  <2>10. /\ Awaited' => CallInv'
         /\ \A q \in Proc, x \in Worker :
               recovery'[q][x] = IF q = p /\ x = w THEN Examined(r, v.index, b)
                                                   ELSE recovery[q][x]
         /\ \A u \in verifying : u.proc \in Proc /\ u.snapshot.worker \in Worker
    BY <2>1, <2>5, <2>6, <2>7, <1>RecoveryChanges, Zenon
  <2>11. Awaited'
    <3>1. \A u \in verifying' : Awaiting(u) => u \in verifying /\ ~SameRecovery(u, v)
      BY <2>8, <2>9, Zenon
    <3>2. ASSUME NEW u \in verifying', Awaiting(u)
          PROVE  recovery'[u.proc][u.snapshot.worker] = recovery[u.proc][u.snapshot.worker]
      BY <2>10, <3>1, <3>2, Zenon DEF SameRecovery
    <3>3. Awaited
      BY Zenon DEF WInv, CallInv
    <3>. QED
      BY <3>1, <3>2, <3>3, Zenon DEF Awaited, Recovering
  <2>. QED
    BY <2>10, <2>11, Zenon

\* A verifier answers or an abandoned one stops: only the call itself changes.
<1>VerifierInductive.
    ASSUME WInv, JournalGrows, NEW v \in verifying,
           VerifierAnswers(v) \/ VerifierStops(v)
    PROVE  CallInv'
  <2>. USE <1>VerifierInductive
  <2>. USE DEF WInv, CallInv
  <2>1. UNCHANGED <<callers, world>>
    BY Zenon DEF VerifierAnswers, VerifierStops
  <2>2. WTypeOK' /\ Alive'
    BY <2>1, SMTT(30) DEF WTypeOK, Alive, Up, callers, world
  <2>3. TodoRows' /\ CallRows' /\ Fresh' /\ AtMostOnce'
    BY <2>1, <1>GrowthKeeps, Zenon DEF callers, world
  <2>4. CASE VerifierStops(v)
    BY <2>1, <2>2, <2>3, <2>4, Zenon
       DEF VerifierStops, VerifierExits, Awaited, Recovering, Awaiting, SameRecovery,
           callers
  <2>5. CASE VerifierAnswers(v)
    <3>1. PICK verdict \in Terminal \cup {"none"} : Verify(v, verdict)
      BY <2>5, Zenon DEF VerifierAnswers
    <3>. DEFINE nv == [v EXCEPT !.verdict = verdict]
    <3>2. verifying' = (verifying \ {v}) \cup {nv} /\ Awaiting(v)
      BY <3>1 DEF Verify, Awaiting
    <3>3. nv.proc = v.proc /\ nv.snapshot = v.snapshot
      <4>1. v \in [proc: Proc, index: Nat, snapshot: Row, epoch: Epoch, verdict: Verdict]
        BY Zenon DEF IInv, TypeOK, Verification
      <4>. QED
        BY <4>1, Zenon
    <3>. HIDE DEF nv
    <3>4. Awaited'
      <4>1. recovery' = recovery
        BY <2>1, Zenon DEF callers
      <4>2. \A u \in verifying' : Awaiting(u) => Recovering(u.proc, u.snapshot.worker) = "waiting"
        BY <3>2, <3>3, Zenon DEF Awaited
      <4>3. \A u \in verifying' : u # nv => u \in verifying /\ u # v
        BY <3>2, Zenon
      <4>4. \A u \in verifying : u # v /\ Awaiting(u) => ~SameRecovery(u, nv) /\ ~SameRecovery(nv, u)
        BY <3>2, <3>3, Zenon DEF Awaited, SameRecovery
      <4>5. ASSUME NEW a \in verifying', NEW b \in verifying',
                   Awaiting(a), Awaiting(b), SameRecovery(a, b)
            PROVE  a = b
        BY <4>3, <4>4, <4>5, Zenon DEF Awaited
      <4>. QED
        BY <4>1, <4>2, <4>5, Zenon DEF Awaited, Recovering, Awaiting, SameRecovery
    <3>. QED
      BY <2>2, <2>3, <3>4, Zenon
  <2>. QED
    BY <2>4, <2>5, Zenon

\* The call goes on with its result, or ends: a move CallMoves allows.
<1>CallGoesOn.
    ASSUME WInv, JournalGrows, NEW t \in Thread, call[t].pc # "idle",
           \/ Finish(t)
           \/ /\ call[t].pc # "looked"
              /\ \E pc \in {"returned", "raised", "latching"}, s \in Terminal :
                    \/ call' = [call EXCEPT ![t].pc = pc, ![t].result = s]
                    \/ Goto(t, pc),
           UNCHANGED <<epochOf, clock, hosts, recovery, permanent, ready, world,
                       verifying>>
    PROVE  CallInv'
  <2>. USE <1>CallGoesOn
  <2>1. CASE Finish(t)
    <3>1. NoCall \in CallState
      BY Zenon DEF CallState
    <3>. QED
      BY <2>1, <3>1, <1>CallMoves, Zenon DEF Finish
  <2>2. ASSUME call[t].pc # "looked",
               NEW pc \in {"returned", "raised", "latching"}, NEW s \in Terminal,
               call' = [call EXCEPT ![t].pc = pc, ![t].result = s] \/ Goto(t, pc)
        PROVE  CallInv'
    <3>. DEFINE x == IF Goto(t, pc) THEN call[t].result ELSE s
                new == [call[t] EXCEPT !.pc = pc, !.result = x]
    <3>1. call[t] \in [pc: {"looked", "admitted", "returned", "raised", "latching"},
                      proc: Proc, worker: Worker, op: Op, key: Key, index: Nat,
                      result: Terminal]
      BY CallAt DEF CallState
    <3>2. call' = [call EXCEPT ![t] = new]
      BY <2>2, <3>1, Zenon DEF Goto, WInv, CallInv, WTypeOK
    <3>3. /\ new \in CallState /\ new.pc = pc /\ new.proc = call[t].proc
          /\ new.index = call[t].index /\ new.op = call[t].op
      BY <3>1, Zenon DEF CallState
    <3>4. Up(call[t].proc) /\ CallRow(call[t])
      BY <2>2, CallAt, Zenon
    <3>. HIDE DEF new
    <3>. QED
      BY <3>2, <3>3, <3>4, <1>CallMoves, Zenon DEF CallRow
  <2>. QED
    BY <2>1, <2>2, Zenon

\* begin admits the call: no row carried its operation, so it was never invoked
\* and no other admitted call has it.
<1>AdmitInductive.
    ASSUME WInv, JournalGrows, NEW t \in Thread, Admit(t)
    PROVE  CallInv'
  <2>. USE <1>AdmitInductive
  <2>. DEFINE c   == call[t]
              n   == Len(journal) + 1
              new == [c EXCEPT !.pc = "admitted", !.index = n]
  <2>. USE DEF WInv, CallInv
  <2>1. /\ c.pc = "looked"
        /\ Begin(c.proc, c.worker, epochOf[c.proc], c.op, c.key)
        /\ UNCHANGED <<epochOf, clock, hosts, recovery, permanent, ready, world>>
    BY Zenon DEF Admit
  <2>2. /\ Up(c.proc) /\ c.proc \in Proc /\ c.worker \in Worker
        /\ c.op \in Op /\ c.key \in Key /\ epochOf[c.proc] \in Epoch
    BY <2>1, CallAt, EpochOfUp, Zenon
  <2>3. c \in [pc: {"looked", "admitted", "returned", "raised", "latching"},
              proc: Proc, worker: Worker, op: Op, key: Key, index: Nat,
              result: Terminal]
    BY <2>1, CallAt, Zenon DEF CallState
  <2>4. n \in DOMAIN journal' /\ journal'[n].op = c.op /\ n \in Nat
    BY <2>1, <2>2, BeginAppends DEF IInv, TypeOK
  <2>5. call' = [call EXCEPT ![t] = new]
    BY <2>3, Zenon DEF Admit, WTypeOK
  <2>6. /\ new \in CallState /\ new # NoCall /\ new.pc = "admitted"
        /\ new.proc = c.proc /\ new.op = c.op /\ new.index = n
    BY <2>3, <2>4, ZenonT(40) DEF CallState, NoCall
  <2>. HIDE DEF new
  <2>7. \A u \in Thread : call'[u] = IF u = t THEN new ELSE call[u]
    BY <2>5, SMTT(30) DEF WTypeOK
  <2>8. WTypeOK'
    BY <2>1, <2>5, <2>6, Zenon DEF WTypeOK, world
  <2>9. Alive'
    BY <2>1, <2>2, <2>6, <2>7, SMTT(30) DEF Alive, Up
  <2>10. TodoRows' /\ AtMostOnce'
    <3>1. UNCHANGED recovery /\ UNCHANGED invoked
      BY <2>1, Zenon DEF world
    <3>. QED
      BY <3>1, <1>GrowthKeeps, Zenon
  <2>11. CallRows'
    <3>1. CallRows
      BY Zenon
    <3>. HIDE DEF WInv, CallInv
    <3>. QED
      BY <2>4, <2>6, <2>7, <3>1, SMTT(30) DEF CallRows, CallRow, JournalGrows
  <2>12. \A i \in DOMAIN journal : journal[i].op # c.op
    BY <2>1, Zenon DEF Begin
  <2>13. invoked[c.op] = 0
    <3>1. invoked[c.op] \in Nat /\ invoked[c.op] <= 1
      BY <2>2, Zenon DEF AtMostOnce, WTypeOK
    <3>2. invoked[c.op] # 1
      BY <2>2, <2>12, Zenon DEF AtMostOnce
    <3>. QED
      BY <3>1, <3>2
  <2>14. \A u \in Thread : call[u].pc = "admitted" => call[u].op # c.op
    BY <2>12, CallUnderWay, ZenonT(40) DEF CallRows, CallRow
  <2>15. Fresh'
    <3>1. \A u \in Thread : call'[u].pc = "admitted" => invoked'[call'[u].op] = 0
      BY <2>1, <2>6, <2>7, <2>13, Zenon DEF Fresh, world
    <3>2. ASSUME NEW a \in Thread, NEW b \in Thread, a # b,
                 call'[a].pc = "admitted", call'[b].pc = "admitted"
          PROVE  call'[a].op # call'[b].op
      BY <2>6, <2>7, <2>14, <3>2, SMTT(30) DEF Fresh
    <3>. QED
      BY <3>1, <3>2, Zenon DEF Fresh
  <2>16. Awaited'
    BY <2>1, Zenon DEF Begin, Awaited, Recovering, Awaiting, SameRecovery
  <2>. QED
    BY <2>8, <2>9, <2>10, <2>11, <2>15, <2>16

\* The admitted call is invoked: the first invocation of its operation.
<1>InvokeInductive.
    ASSUME WInv, NEW t \in Thread, Invoke(t) \/ InvokeRaises(t)
    PROVE  CallInv'
  <2>. USE <1>InvokeInductive
  <2>. DEFINE c == call[t]
  <2>. USE DEF WInv, CallInv
  <2>1. /\ c.pc = "admitted"
        /\ invoked' = [invoked EXCEPT ![c.op] = @ + 1]
        /\ applied' \in {applied, applied \cup {c.op}}
        /\ UNCHANGED <<vars, epochOf, clock, hosts, recovery, permanent, ready>>
    BY Zenon DEF Invoke, InvokeRaises
  <2>2. c \in [pc: {"looked", "admitted", "returned", "raised", "latching"},
              proc: Proc, worker: Worker, op: Op, key: Key, index: Nat,
              result: Terminal]
    BY <2>1, CallAt, Zenon DEF CallState
  <2>3. Up(c.proc) /\ CallRow(c)
    BY <2>1, CallAt
  <2>4. PICK new \in CallState :
           /\ call' = [call EXCEPT ![t] = new]
           /\ new.pc \in {"returned", "raised"}
           /\ new.proc = c.proc /\ new.index = c.index /\ new.op = c.op
    <3>1. CASE InvokeRaises(t)
      <4>. DEFINE x == [c EXCEPT !.pc = "raised"]
      <4>1. /\ x \in CallState /\ x.pc = "raised"
            /\ x.proc = c.proc /\ x.index = c.index /\ x.op = c.op
        BY <2>2 DEF CallState
      <4>2. call' = [call EXCEPT ![t] = x]
        BY <3>1, <2>2 DEF InvokeRaises, Goto, WTypeOK
      <4>. HIDE DEF x
      <4>. QED
        BY <4>1, <4>2, Zenon
    <3>2. CASE Invoke(t)
      <4>1. PICK s \in Terminal : call' = [call EXCEPT ![t].pc = "returned", ![t].result = s]
        BY <3>2, Zenon DEF Invoke
      <4>. DEFINE x == [c EXCEPT !.pc = "returned", !.result = s]
      <4>2. /\ x \in CallState /\ x.pc = "returned"
            /\ x.proc = c.proc /\ x.index = c.index /\ x.op = c.op
        BY <2>2, Zenon DEF CallState
      <4>3. call' = [call EXCEPT ![t] = x]
        BY <4>1, <2>2, Zenon DEF WTypeOK
      <4>. HIDE DEF x
      <4>. QED
        BY <4>2, <4>3, Zenon
    <3>. QED
      BY <3>1, <3>2, Zenon
  <2>5. \A u \in Thread : call'[u] = IF u = t THEN new ELSE call[u]
    BY <2>4, Zenon DEF WTypeOK
  <2>6. invoked[c.op] = 0 /\ c.op \in Op
    BY <2>1, <2>2, Zenon DEF Fresh
  <2>7. \A op \in Op : invoked'[op] = IF op = c.op THEN 1 ELSE invoked[op]
    BY <2>1, <2>6 DEF WTypeOK
  <2>8. WTypeOK'
    <3>1. call' \in [Thread -> CallState]
      BY <2>4, ZenonT(40) DEF WTypeOK
    <3>2. invoked' \in [Op -> Nat] /\ applied' \subseteq Op
      BY <2>1, <2>6, SMTT(30) DEF WTypeOK
    <3>. QED
      BY <2>1, <3>1, <3>2, Zenon DEF WTypeOK
  <2>9. Alive'
    BY <2>1, <2>3, <2>4, <2>5 DEF Alive, Up
  <2>10. TodoRows' /\ Awaited'
    BY <2>1, Zenon DEF TodoRows, Awaited, Recovering, Awaiting, SameRecovery, vars
  <2>11. CallRows'
    <3>1. ASSUME NEW u \in Thread, call'[u] # NoCall, call'[u].pc # "looked"
          PROVE  call'[u].index \in DOMAIN journal /\ journal[call'[u].index].op = call'[u].op
      <4>1. CASE u = t
        <5>1. c.index \in DOMAIN journal /\ journal[c.index].op = c.op
          BY <2>3, Zenon DEF CallRow
        <5>. QED
          BY <2>4, <2>5, <4>1, <5>1, Zenon
      <4>2. CASE u # t
        <5>1. call'[u] = call[u]
          BY <2>5, <4>2
        <5>. QED
          BY <3>1, <5>1, Zenon DEF CallRows, CallRow
      <4>. QED
        BY <4>1, <4>2, Zenon
    <3>2. journal' = journal
      BY <2>1, Zenon DEF vars
    <3>. QED
      BY <3>1, <3>2, Zenon DEF CallRows, CallRow
  <2>12. AtMostOnce'
    <3>1. journal' = journal
      BY <2>1, Zenon DEF vars
    <3>2. ASSUME NEW op \in Op
          PROVE  /\ invoked'[op] <= 1
                 /\ invoked'[op] = 1 => \E i \in DOMAIN journal : journal[i].op = op
      <4>1. CASE op = c.op
        <5>1. invoked'[op] = 1
          BY <2>7, <4>1, Zenon
        <5>2. \E i \in DOMAIN journal : journal[i].op = op
          BY <2>3, <4>1, Zenon DEF CallRow
        <5>. QED
          BY <5>1, <5>2
      <4>2. CASE op # c.op
        <5>1. invoked'[op] = invoked[op]
          BY <2>7, <4>2, ZenonT(40)
        <5>. QED
          BY <5>1, ZenonT(40) DEF AtMostOnce
      <4>. QED
        BY <4>1, <4>2, Zenon
    <3>. QED
      BY <3>1, <3>2, Zenon DEF AtMostOnce
  <2>13. Fresh'
    <3>1. ASSUME NEW u \in Thread, call'[u].pc = "admitted"
          PROVE  u # t /\ call'[u] = call[u] /\ call[u].op \in Op /\ call[u].op # c.op
      <4>1. u # t /\ call'[u] = call[u]
        BY <2>4, <2>5, <3>1, Zenon
      <4>2. call[u].op \in Op
        BY <3>1, <4>1, CallAt, Zenon
      <4>3. call[u].pc = "admitted" /\ call[t].pc = "admitted"
        BY <2>1, <3>1, <4>1, Zenon
      <4>. QED
        BY <4>1, <4>2, <4>3, Zenon DEF Fresh
    <3>. QED
      BY <2>7, <3>1, SMTT(30) DEF Fresh
  <2>. QED
    BY <2>8, <2>9, <2>10, <2>11, <2>12, <2>13

\* A process starts or opens the journal.
<1>StartInductive.
    ASSUME WInv, NEW p \in Proc, Start(p) \/ OpenJournal(p)
    PROVE  CallInv'
  <2>. USE <1>StartInductive
  <2>. USE DEF WInv, CallInv
  <2>1. UNCHANGED <<vars, recovery, permanent, ready, call, world>>
    BY Zenon DEF Start, OpenJournal
  <2>2. WTypeOK'
    BY <2>1, StartsAssumption DEF Start, OpenJournal, WTypeOK, world
  <2>3. /\ \A q \in Proc : Up(q) => Up(q)'
        /\ \A q \in hosts' : q \in hosts \/ Up(q)'
    BY Zenon DEF Start, OpenJournal, Up, WTypeOK
  <2>4. Alive'
    <3>1. \A t \in Thread : call[t] # NoCall => call[t].proc \in Proc
      BY CallTyped, Zenon
    <3>2. hosts \subseteq Proc /\ \A x \in ready : x[1] \in Proc
      BY Zenon DEF WTypeOK
    <3>. QED
      BY <2>1, <2>3, <3>1, <3>2, Zenon DEF Alive
  <2>5. TodoRows' /\ CallRows' /\ Fresh' /\ AtMostOnce' /\ Awaited'
    BY <2>1, Zenon DEF TodoRows, CallRows, CallRow, Fresh, AtMostOnce, Awaited, Recovering,
                Awaiting, SameRecovery, vars, world
  <2>. QED
    BY <2>2, <2>4, <2>5, Zenon

\* A process dies: nothing of it is left in the callers' state.
<1>DieInductive.
    ASSUME WInv, NEW p \in Proc, Die(p)
    PROVE  CallInv'
  <2>. USE <1>DieInductive
  <2>. USE DEF WInv, CallInv
  <2>1. /\ UNCHANGED <<clock, world, journal>>
        /\ verifying' = {v \in verifying : v.proc # p}
        /\ hosts' = hosts \ {p}
        /\ permanent' \subseteq permanent
        /\ ready' = {x \in ready : x[1] # p}
    BY Zenon DEF Die, Crash
  <2>2. \A q \in Proc : epochOf'[q] = IF q = p THEN 0 ELSE epochOf[q]
    BY Zenon DEF Die, WTypeOK
  <2>3. \A q \in Proc, w \in Worker :
           recovery'[q][w] = IF q = p THEN NoRecovery ELSE recovery[q][w]
    BY Zenon DEF Die, WTypeOK
  <2>4. \A t \in Thread :
           \/ call'[t] = NoCall
           \/ call'[t] = call[t] /\ call[t].proc # p
    BY Zenon DEF Die
  <2>5. WTypeOK'
    <3>1. epochOf' \in [Proc -> 0..MaxStarts]
      BY StartsAssumption DEF Die, WTypeOK
    <3>2. recovery' \in [Proc -> [Worker -> RecoveryState]]
      BY Zenon DEF Die, WTypeOK, RecoveryState
    <3>3. call' \in [Thread -> CallState]
      BY Zenon DEF Die, WTypeOK, CallState
    <3>. QED
      BY <2>1, <3>1, <3>2, <3>3, Zenon DEF WTypeOK, world
  <2>6. \A t \in Thread : call[t] # NoCall => call[t].proc \in Proc
    BY CallTyped, Zenon
  <2>7. Alive'
    <3>1. \A q \in hosts' : Up(q)'
      BY <2>1, <2>2, Zenon DEF Alive, Up, WTypeOK
    <3>2. \A x \in ready' : Up(x[1])'
      <4>1. \A x \in ready : x[1] \in Proc
        BY Zenon DEF WTypeOK
      <4>. QED
        BY <2>1, <2>2, <4>1, Zenon DEF Alive, Up
    <3>3. \A q \in Proc, w \in Worker : recovery'[q][w] # NoRecovery => Up(q)'
      BY <2>2, <2>3, Zenon DEF Alive, Up
    <3>4. \A t \in Thread : call'[t] # NoCall => epochOf'[call'[t].proc] # 0
      BY <2>2, <2>4, <2>6, Zenon DEF Alive, Up
    <3>. QED
      BY <3>1, <3>2, <3>3, <3>4, Zenon DEF Alive, Up
  <2>8. TodoRows'
    BY <2>1, <2>3, Zenon DEF TodoRows
  <2>9. CallRows' /\ Fresh'
    <3>1. NoCall.pc # "admitted"
      BY Zenon DEF NoCall
    <3>2. CallRows'
      BY <2>1, <2>4, Zenon DEF CallRows, CallRow
    <3>3. Fresh'
      BY <2>1, <2>4, <3>1, SMTT(30) DEF Fresh, world
    <3>. QED
      BY <3>2, <3>3, Zenon
  <2>10. AtMostOnce'
    BY <2>1, Zenon DEF AtMostOnce, world
  <2>11. Awaited'
    <3>1. \A v \in verifying : v.proc \in Proc /\ v.snapshot.worker \in Worker
      BY Zenon DEF IInv, TypeOK, Verification, Row
    <3>. QED
      BY <2>1, <2>3, <3>1, SMTT(30) DEF Awaited, Recovering, Awaiting, SameRecovery
  <2>. QED
    BY <2>5, <2>7, <2>8, <2>9, <2>10, <2>11, Zenon

\* The steps of a call.
<1>CallInductive.
    ASSUME WInv, JournalGrows, NEW t \in Thread, CallStep(t)
    PROVE  CallInv'
  <2>. USE <1>CallInductive
  <2>1. CASE \E x \in ready, op \in Op, key \in Key : LookUp(t, x[1], x[2], op, key)
    <3>1. PICK x \in ready, op \in Op, key \in Key : LookUp(t, x[1], x[2], op, key)
      BY <2>1
    <3>. DEFINE new == [pc |-> "looked", proc |-> x[1], worker |-> x[2], op |-> op,
                        key |-> key, index |-> 0, result |-> "failed"]
    <3>2. Up(x[1]) /\ x[1] \in Proc /\ x[2] \in Worker
      BY Zenon DEF WInv, CallInv, Alive, WTypeOK
    <3>3. new \in CallState /\ new.proc = x[1] /\ new.pc = "looked"
      BY <3>2, Zenon DEF CallState, Terminal
    <3>4. /\ call' = [call EXCEPT ![t] = new]
          /\ UNCHANGED <<epochOf, clock, hosts, recovery, permanent, ready, world,
                         verifying>>
      BY <3>1 DEF LookUp, vars
    <3>. HIDE DEF new
    <3>. QED
      BY <3>2, <3>3, <3>4, <1>CallMoves, Zenon
  <2>2. CASE Admit(t)
    BY <2>2, <1>AdmitInductive, Zenon
  <2>3. CASE Invoke(t) \/ InvokeRaises(t)
    BY <2>3, <1>InvokeInductive, Zenon
  <2>4. CASE AdmitReplayed(t) \/ AdmitRefused(t)
    <3>1. call[t].pc # "idle" /\ Finish(t)
      BY <2>4, Zenon DEF AdmitReplayed, AdmitRefused
    <3>2. UNCHANGED <<epochOf, clock, hosts, recovery, permanent, ready, world, verifying>>
      BY <2>4, Zenon DEF AdmitReplayed, AdmitRefused, vars
    <3>. QED
      BY <3>1, <3>2, <1>CallGoesOn, Zenon
  <2>5. CASE Publish(t) \/ PublishFails(t) \/ MarkUncertain(t) \/ LatchUncertainty(t)
    <3>1. /\ call[t].pc # "idle" /\ call[t].pc # "looked"
          /\ Finish(t) \/ Goto(t, "raised") \/ Goto(t, "latching")
      BY <2>5, Zenon DEF Publish, PublishFails, MarkUncertain, LatchUncertainty
    <3>2. UNCHANGED <<epochOf, clock, hosts, recovery, permanent, ready, world>>
      BY <2>5, Zenon DEF Publish, PublishFails, MarkUncertain, LatchUncertainty
    <3>3. UNCHANGED verifying
      <4>1. CASE Publish(t)
        BY <4>1, Zenon DEF Publish, Outcome, OutcomeAndCheckpoint
      <4>2. CASE PublishFails(t)
        BY <4>2, Zenon DEF PublishFails, vars
      <4>3. CASE MarkUncertain(t) \/ LatchUncertainty(t)
        <5>1. Uncertainty(call[t]) \/ RecordUncertaintyFails(call[t].proc)
          BY <4>3, Zenon DEF MarkUncertain, LatchUncertainty
        <5>. QED
          BY <5>1, Zenon DEF Uncertainty, RecordUncertainty, RecordUncertaintyFails, vars
      <4>. QED
        BY <2>5, <4>1, <4>2, <4>3
    <3>4. "failed" \in Terminal
      BY DEF Terminal
    <3>. QED
      BY <3>1, <3>2, <3>3, <3>4, <1>CallGoesOn, ZenonT(40)
  <2>. QED
    BY <2>1, <2>2, <2>3, <2>4, <2>5, Zenon DEF CallStep

<1>. SUFFICES ASSUME WInv, [WNext]_wvars PROVE WInv'
  OBVIOUS
<1>1. [Next]_vars
  BY StoreStep, Zenon
<1>2. IInv' /\ JournalGrows
  BY <1>1, NextInductive, StoreGrows, Zenon DEF WInv
<1>3. CASE \E p \in Proc : Start(p) \/ OpenJournal(p) \/ Die(p)
  BY <1>2, <1>3, <1>StartInductive, <1>DieInductive, Zenon DEF WInv
<1>4. CASE \E p \in Proc, w \in Worker : RecoveryStep(p, w)
  BY <1>2, <1>4, <1>RecoveryInductive, Zenon DEF WInv
<1>5. CASE \E v \in verifying :
              VerifierAnswers(v) \/ VerifierStops(v) \/ ReconcileReturns(v)
  BY <1>2, <1>5, <1>VerifierInductive, <1>AnswerInductive, Zenon DEF WInv
<1>6. CASE \E t \in Thread : CallStep(t)
  BY <1>2, <1>6, <1>CallInductive, ZenonT(40) DEF WInv
<1>7. CASE UNCHANGED wvars
  BY <1>2, <1>7, Zenon DEF wvars, WInv, CallInv, WTypeOK, Alive, Up, TodoRows, CallRows,
                    CallRow, Fresh, AtMostOnce, Awaited, Recovering, Awaiting,
                    SameRecovery
<1>. QED
  BY <1>3, <1>4, <1>5, <1>6, <1>7, SMTT(30) DEF WNext

\* The initial state satisfies it.
LEMMA WInitInductive == WInit => WInv
<1>. SUFFICES ASSUME WInit PROVE WInv
  OBVIOUS
<1>1. IInv
  BY InitInductive, Zenon DEF WInit
<1>2. WTypeOK
  BY StartsAssumption DEF WInit, WTypeOK, RecoveryState, CallState
<1>3. Alive /\ TodoRows /\ CallRows
  BY Zenon DEF WInit, Alive, TodoRows, CallRows
<1>4. Fresh /\ AtMostOnce
  BY DEF WInit, Fresh, AtMostOnce, NoCall
<1>5. Awaited
  BY Zenon DEF WInit, Init, Awaited
<1>. QED
  BY <1>1, <1>2, <1>3, <1>4, <1>5, Zenon DEF WInv, CallInv

-----------------------------------------------------------------------------
(***************************************************************************)
(* Theorems.                                                               *)
(***************************************************************************)

\* WInv is an invariant of the journal with its callers.
THEOREM WInductive == WSpec => []WInv
BY WInitInductive, WNextInductive, PTL DEF WSpec

\* journaled_effect, the gateway, recovery and the reconciliation pass use the
\* journal through its operations only, with arguments those operations allow:
\* whatever holds of the journal under arbitrary callers holds of the system.
THEOREM CallersImplementJournal == WSpec => Spec
<1>1. WInit => Init
  BY Zenon DEF WInit
<1>. QED
  BY <1>1, StoreStep, WInductive, PTL DEF WSpec, Spec

\* Type correctness of the callers' state.
THEOREM CallersTypeCorrect == WSpec => []WTypeOK
<1>1. WInv => WTypeOK
  BY DEF WInv, CallInv
<1>. QED
  BY <1>1, WInductive, PTL

\* No operation is invoked twice, or without a durable intent, for any number of
\* processes, threads, operations, crashes, restarts and storage failures.
THEOREM InvokedAtMostOnce == WSpec => []AtMostOnce
<1>1. WInv => AtMostOnce
  BY DEF WInv, CallInv
<1>. QED
  BY <1>1, WInductive, PTL
=============================================================================
