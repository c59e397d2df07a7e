------------------------- MODULE DurableJobs_proofs -------------------------
(***************************************************************************)
(* Proofs about the durable job registry, for any jobs, workers, callers   *)
(* and bounds: its invariants, the fencing of stale tokens, and that it    *)
(* implements JobContract.                                                 *)
(***************************************************************************)
EXTENDS DurableJobs, TLAPS

(***************************************************************************)
(* The inductive invariant.  A lease carries the token of the latest       *)
(* attempt, and is gone once that attempt has committed; an attempt that   *)
(* committed is not a later one; a row that does not exist has no lease    *)
(* and nobody has read it.                                                 *)
(***************************************************************************)
LeaseOfLatest ==
  \A j \in Job :
    /\ token[j] \in {0, attempt[j]}
    /\ worker[j] # NoWorker => Exists(j) /\ attempt[j] \notin committed[j]
    /\ \A a \in committed[j] : a <= attempt[j]
    /\ attempt[j] <= MaxAttempts[j]

ReadExists == \A c \in Caller : call[c] # NoCall => Exists(call[c].job)

Inv == TypeOK /\ LeaseOfLatest /\ SnapshotExact /\ ReadExists

LEMMA InitInv == Init => Inv
  BY JobAssumption, RegistryAssumption
  DEF Init, Inv, TypeOK, LeaseOfLatest, SnapshotExact, ReadExists, Status

------------------------------------------------------------------------------
(* Type correctness *)

LEMMA SetStatusType ==
  ASSUME TypeOK, NEW J, NEW s \in Status, SetStatus(J, s)
  PROVE  status' \in [Job -> Status \cup {"absent"}]
  BY DEF SetStatus, TypeOK

LEMMA BumpType ==
  ASSUME TypeOK, NEW J, Bump(J)
  PROVE  revision' \in [Job -> Nat]
  BY DEF Bump, TypeOK

LEMMA ClearLeaseType ==
  ASSUME TypeOK, NEW J, ClearLease(J)
  PROVE  /\ worker' \in [Job -> Worker \cup {NoWorker}]
         /\ until' \in [Job -> Nat]
         /\ token' \in [Job -> Nat]
  BY DEF ClearLease, TypeOK

LEMMA StatusMembers ==
  /\ Terminal \subseteq Status
  /\ {"pending", "claimed", "running", "cancellation_requested", "paused", "interrupted"} \subseteq Status
  /\ {"pending", "claimed", "running", "cancellation_requested", "paused", "interrupted", "absent"}
       \cap Terminal = {}
  /\ "absent" \notin Status
  BY DEF Status, Terminal

LEMMA StartType ==
  ASSUME TypeOK, NEW j \in Job, NEW spawned \in BOOLEAN, Start(j, spawned)
  PROVE  TypeOK'
  BY SetStatusType, StatusMembers DEF Start, TypeOK, leaseVars, logVars

LEMMA AttachProcessType ==
  ASSUME TypeOK, NEW j \in Job, AttachProcess(j)
  PROVE  TypeOK'
  BY BumpType DEF AttachProcess, TypeOK, leaseVars, logVars

LEMMA ClaimJobType ==
  ASSUME TypeOK, NEW j \in Job, NEW w \in Worker, ClaimJob(j, w)
  PROVE  TypeOK'
<1>1. [job |-> j, worker |-> w, token |-> attempt[j] + 1] \in Claim
  BY DEF Claim, TypeOK
<1>2. clock + Lease \in Nat /\ attempt[j] + 1 \in Nat
  BY RegistryAssumption DEF TypeOK
<1>3. /\ attempt' \in [Job -> Nat]
      /\ worker' \in [Job -> Worker \cup {NoWorker}]
      /\ until' \in [Job -> Nat]
      /\ token' \in [Job -> Nat]
  BY <1>2 DEF ClaimJob, TypeOK
<1> QED
  BY <1>1, <1>3, SetStatusType, BumpType, StatusMembers DEF ClaimJob, TypeOK

LEMMA HeartbeatType ==
  ASSUME TypeOK, NEW j \in Job, NEW w \in Worker, NEW t, Heartbeat(j, w, t)
  PROVE  TypeOK'
<1>1. clock + Lease \in Nat
  BY RegistryAssumption DEF TypeOK
<1> QED
  BY <1>1, SetStatusType, BumpType, StatusMembers
  DEF Heartbeat, TypeOK, logVars

LEMMA CommitType ==
  ASSUME TypeOK, NEW j \in Job, NEW s \in Terminal, Commit(j, s),
         receipts' \subseteq Receipt
  PROVE  TypeOK'
<1>1. committed' \in [Job -> SUBSET Nat]
  BY DEF Commit, TypeOK
<1> QED
  BY <1>1, SetStatusType, BumpType, ClearLeaseType, StatusMembers DEF Commit, TypeOK

LEMMA FinishType ==
  ASSUME TypeOK, NEW j \in Job, NEW w \in Worker, NEW t, NEW s \in Terminal,
         Finish(j, w, t, s)
  PROVE  TypeOK'
  BY CommitType, Zenon DEF Finish, TypeOK

LEMMA FinishOnceType ==
  ASSUME TypeOK, NEW j \in Job, NEW w \in Worker, NEW t, NEW s \in Terminal,
         NEW k \in Key, FinishOnce(j, w, t, s, k)
  PROVE  TypeOK'
<1>1. receipts' \subseteq Receipt
  BY DEF FinishOnce, TypeOK, Receipt
<1> QED
  BY <1>1, CommitType DEF FinishOnce

LEMMA RetryType ==
  ASSUME TypeOK, NEW j \in Job, Retry(j)
  PROVE  TypeOK'
  BY SetStatusType, BumpType, ClearLeaseType, StatusMembers, Zenon DEF Retry, TypeOK, logVars

LEMMA CancelJobType ==
  ASSUME TypeOK, NEW j \in Job, CancelJob(j)
  PROVE  TypeOK'
  BY SetStatusType, BumpType, ClearLeaseType, StatusMembers, Zenon
  DEF CancelJob, TypeOK, logVars, Terminal

LEMMA RequestCancellationType ==
  ASSUME TypeOK, NEW j \in Job, RequestCancellation(j)
  PROVE  TypeOK'
  BY SetStatusType, BumpType, StatusMembers
  DEF RequestCancellation, TypeOK, leaseVars, logVars

LEMMA TransitionReadType ==
  ASSUME TypeOK, NEW c \in Caller, NEW j \in Job, NEW s \in Status,
         TransitionRead(c, j, s)
  PROVE  TypeOK'
<1>1. [job |-> j, to |-> s, revision |-> revision[j], status |-> status[j]] \in Call
  BY DEF TransitionRead, Open, Exists, Call, TypeOK
<1> QED
  BY <1>1 DEF TransitionRead, ReadFor, TypeOK, leaseVars, logVars

LEMMA TransitionWriteType ==
  ASSUME TypeOK, NEW c \in Caller, TransitionWrite(c)
  PROVE  TypeOK'
<1>1. call[c].to \in Status
  BY Zenon DEF TransitionWrite, TypeOK, Call
<1>2. status' \in [Job -> Status \cup {"absent"}] /\ revision' \in [Job -> Nat]
  BY <1>1, SetStatusType, BumpType, Zenon DEF TransitionWrite, TypeOK
<1> QED
  BY <1>2 DEF TransitionWrite, TypeOK, leaseVars, logVars

LEMMA ReconcileStaleType ==
  ASSUME TypeOK, NEW J, ReconcileStale(J)
  PROVE  TypeOK'
  BY SetStatusType, BumpType, ClearLeaseType, StatusMembers
  DEF ReconcileStale, TypeOK, logVars

------------------------------------------------------------------------------
(***************************************************************************)
(* A row that somebody may have read keeps its status or takes a new       *)
(* revision.  Every action but the two of transition moves the rows this   *)
(* way and leaves the snapshots alone.                                     *)
(***************************************************************************)
RowsMoveOn ==
  \A j \in Job :
    /\ revision[j] <= revision'[j]
    /\ Exists(j) => status'[j] # "absent"
    /\ Exists(j) /\ revision'[j] = revision[j] => status'[j] = status[j]

LEMMA WriteMovesOn ==
  ASSUME TypeOK, NEW J, NEW s \in Status, SetStatus(J, s), Bump(J)
  PROVE  RowsMoveOn
  BY StatusMembers DEF RowsMoveOn, SetStatus, Bump, TypeOK, Exists

LEMMA SnapshotKept ==
  ASSUME Inv, TypeOK', RowsMoveOn, NEW c \in Caller, call[c] # NoCall
  PROVE  LET d == call[c]
         IN  /\ d.revision <= revision'[d.job]
             /\ d.revision = revision'[d.job] =>
                  status'[d.job] = d.status /\ status'[d.job] \notin Terminal
             /\ status'[d.job] # "absent"
<1> DEFINE d == call[c]
<1>1. d \in Call /\ d.job \in Job /\ d.revision \in Nat
  BY DEF Inv, TypeOK, Call
<1>2. Exists(d.job) /\ d.revision <= revision[d.job]
  BY Zenon DEF Inv, ReadExists, SnapshotExact
<1>3. /\ revision[d.job] \in Nat /\ revision'[d.job] \in Nat
      /\ revision[d.job] <= revision'[d.job]
  BY <1>1 DEF RowsMoveOn, Inv, TypeOK
<1>4. ASSUME d.revision = revision'[d.job]
      PROVE  status'[d.job] = d.status /\ status'[d.job] \notin Terminal
  <2>1. revision'[d.job] = revision[d.job] /\ d.revision = revision[d.job]
    BY <1>1, <1>2, <1>3, <1>4 DEF RowsMoveOn
  <2>2. status'[d.job] = status[d.job]
    BY <1>1, <1>2, <2>1 DEF RowsMoveOn
  <2>3. status[d.job] = d.status /\ Open(d.job)
    BY <2>1 DEF Inv, SnapshotExact
  <2> QED
    BY <2>2, <2>3 DEF Open, Exists
<1>5. status'[d.job] # "absent"
  BY <1>1, <1>2, Zenon DEF RowsMoveOn, Exists
<1>6. d.revision <= revision'[d.job]
  BY <1>1, <1>2, <1>3
<1> QED
  BY <1>4, <1>5, <1>6

LEMMA SnapshotsKept ==
  ASSUME Inv, TypeOK', RowsMoveOn, UNCHANGED call
  PROVE  SnapshotExact' /\ ReadExists'
  BY SnapshotKept, SMTT(30) DEF SnapshotExact, ReadExists, Open, Exists

(* An action that starts no attempt and commits none keeps or clears the   *)
(* leases.                                                                 *)
LEMMA LeasesKept ==
  ASSUME Inv, RowsMoveOn, UNCHANGED <<attempt, committed>>,
         UNCHANGED leaseVars \/ \E J : ClearLease(J)
  PROVE  LeaseOfLatest'
<1>1. \A j \in Job : /\ worker'[j] \in {worker[j], NoWorker}
                     /\ token'[j] \in {token[j], 0}
  BY DEF leaseVars, ClearLease, Inv, TypeOK
<1> QED
  BY <1>1 DEF Inv, LeaseOfLatest, RowsMoveOn, Exists

LEMMA InvFromParts ==
  ASSUME Inv, TypeOK', RowsMoveOn, UNCHANGED <<attempt, committed, call>>,
         UNCHANGED leaseVars \/ \E J : ClearLease(J)
  PROVE  Inv'
  BY SnapshotsKept, LeasesKept, Zenon DEF Inv

LEMMA ClaimJobInv ==
  ASSUME Inv, NEW j \in Job, NEW w \in Worker, ClaimJob(j, w)
  PROVE  Inv'
<1>1. TypeOK /\ TypeOK'
  BY ClaimJobType DEF Inv
<1>2. RowsMoveOn
  BY <1>1, WriteMovesOn, StatusMembers, Zenon DEF ClaimJob
<1>3. LeaseOfLatest'
  <2> SUFFICES ASSUME NEW i \in Job
               PROVE  /\ token'[i] \in {0, attempt'[i]}
                      /\ worker'[i] # NoWorker => status'[i] # "absent" /\ attempt'[i] \notin committed'[i]
                      /\ \A a \in committed'[i] : a <= attempt'[i]
                      /\ attempt'[i] <= MaxAttempts[i]
    BY DEF LeaseOfLatest, Exists
  <2>0. LeaseOfLatest
    BY Zenon DEF Inv
  <2>1. CASE i = j
    <3>1. /\ attempt'[i] = attempt[i] + 1 /\ token'[i] = attempt[i] + 1
          /\ committed' = committed /\ attempt[i] < MaxAttempts[i]
      BY <1>1, <2>1 DEF ClaimJob, TypeOK
    <3>2. attempt[i] \in Nat /\ MaxAttempts[i] \in Nat /\ committed[i] \subseteq Nat
      BY <1>1, JobAssumption, Zenon DEF TypeOK
    <3>3. \A a \in committed[i] : a <= attempt[i]
      BY <2>0, Zenon DEF LeaseOfLatest
    <3>4. status'[i] # "absent"
      BY <1>1, <2>1, Zenon DEF ClaimJob, SetStatus
    <3> QED
      BY <3>1, <3>2, <3>3, <3>4
  <2>2. CASE i # j
    <3>1. /\ attempt'[i] = attempt[i] /\ token'[i] = token[i]
          /\ worker'[i] = worker[i] /\ committed' = committed
          /\ status'[i] = status[i]
      BY <1>1, <2>2 DEF ClaimJob, TypeOK, SetStatus
    <3> QED
      BY <3>1, <2>0, Zenon DEF LeaseOfLatest, Exists
  <2> QED
    BY <2>1, <2>2
<1> QED
  BY <1>1, <1>2, <1>3, SnapshotsKept DEF Inv, ClaimJob

LEMMA CommitInv ==
  ASSUME Inv, TypeOK', NEW j \in Job, NEW s \in Terminal, Commit(j, s)
  PROVE  Inv'
<1>1. TypeOK /\ LeaseOfLatest
  BY Zenon DEF Inv
<1>2. RowsMoveOn
  BY <1>1, WriteMovesOn, StatusMembers, Zenon DEF Commit
<1>3. LeaseOfLatest'
  <2>1. \A i \in Job : /\ worker'[i] \in {worker[i], NoWorker}
                       /\ token'[i] \in {token[i], 0}
                       /\ attempt'[i] = attempt[i]
    BY <1>1, Zenon DEF Commit, ClearLease, TypeOK
  <2>2. worker'[j] = NoWorker /\ committed'[j] = committed[j] \cup {attempt[j]}
    BY <1>1, Zenon DEF Commit, ClearLease, TypeOK
  <2>3. \A i \in Job \ {j} : committed'[i] = committed[i]
    BY <1>1 DEF Commit, TypeOK
  <2>4. \A i \in Job : attempt[i] \in Nat
    BY <1>1 DEF TypeOK
  <2> QED
    BY <2>1, <2>2, <2>3, <2>4, <1>1, <1>2 DEF LeaseOfLatest, RowsMoveOn, Exists
<1> QED
  BY <1>1, <1>2, <1>3, SnapshotsKept DEF Inv, Commit

------------------------------------------------------------------------------
(* transition *)

LEMMA TransitionReadInv ==
  ASSUME Inv, NEW c \in Caller, NEW j \in Job, NEW s \in Target,
         TransitionRead(c, j, s)
  PROVE  Inv'
<1>0. s \in Status
  BY CallAssumption, Zenon
<1>1. TypeOK /\ TypeOK'
  BY <1>0, TransitionReadType, SMTT(30) DEF Inv
<1>2. /\ call' = [call EXCEPT ![c] =
             [job |-> j, to |-> s, revision |-> revision[j], status |-> status[j]]]
      /\ Open(j) /\ revision[j] \in Nat
      /\ UNCHANGED <<status, revision, attempt, worker, until, token, committed>>
  BY <1>1, Zenon DEF TransitionRead, ReadFor, leaseVars, logVars, TypeOK
<1>3. LeaseOfLatest'
  BY <1>2, SMTT(30) DEF Inv, LeaseOfLatest, Exists
<1>4. SnapshotExact' /\ ReadExists'
  <2> SUFFICES ASSUME NEW e \in Caller, call'[e] # NoCall
               PROVE  LET d == call'[e]
                      IN  /\ d.revision <= revision[d.job]
                          /\ d.revision = revision[d.job] =>
                               status[d.job] = d.status /\ Open(d.job)
                          /\ Exists(d.job)
    BY <1>2, SMTT(30) DEF SnapshotExact, ReadExists, Open, Exists
  <2>1. CASE e = c
    BY <1>1, <1>2, <2>1 DEF TypeOK, Open
  <2>2. CASE e # c
    <3>1. call'[e] = call[e]
      BY <1>1, <1>2, <2>2, Zenon DEF TypeOK
    <3> QED
      BY <3>1, SMTT(30) DEF Inv, SnapshotExact, ReadExists
  <2> QED
    BY <2>1, <2>2, SMTT(30)
<1> QED
  BY <1>1, <1>3, <1>4 DEF Inv

(* The rows after the compare-and-set, whether it wrote or not. *)
LEMMA TransitionMovesOn ==
  ASSUME Inv, NEW c \in Caller, TransitionWrite(c)
  PROVE  RowsMoveOn
<1>1. TypeOK /\ call[c].to \in Status
  BY DEF Inv, TransitionWrite, TypeOK, Call
<1>2. CASE UNCHANGED <<status, revision>>
  BY <1>1, <1>2 DEF RowsMoveOn, TypeOK, Exists
<1>3. CASE SetStatus({call[c].job}, call[c].to) /\ Bump({call[c].job})
  BY <1>1, <1>3, WriteMovesOn
<1> QED
  BY <1>2, <1>3, Zenon DEF TransitionWrite

LEMMA TransitionWriteInv ==
  ASSUME Inv, NEW c \in Caller, TransitionWrite(c)
  PROVE  Inv'
<1>1. TypeOK /\ TypeOK' /\ RowsMoveOn
  BY TransitionWriteType, TransitionMovesOn, Zenon DEF Inv
<1>2. LeaseOfLatest'
  BY <1>1, LeasesKept, Zenon DEF TransitionWrite, logVars
<1>3. \A e \in Caller : call'[e] \in {call[e], NoCall}
  BY <1>1, SMTT(30) DEF TransitionWrite, TypeOK
<1>4. SnapshotExact' /\ ReadExists'
  <2> SUFFICES ASSUME NEW e \in Caller, call'[e] # NoCall
               PROVE  LET d == call[e]
                      IN  /\ d.revision <= revision'[d.job]
                          /\ d.revision = revision'[d.job] =>
                               status'[d.job] = d.status /\ status'[d.job] \notin Terminal
                          /\ status'[d.job] # "absent"
    BY <1>3, Zenon DEF SnapshotExact, ReadExists, Open, Exists
  <2> QED
    BY <1>1, <1>3, SnapshotKept, Zenon
<1> QED
  BY <1>1, <1>2, <1>4 DEF Inv

------------------------------------------------------------------------------
(***************************************************************************)
(* The disjuncts of Next, one by one.  A formula that each of them implies *)
(* is implied by Next.                                                     *)
(***************************************************************************)
LEMMA NextCases ==
  ASSUME NEW ACTION P, [Next]_vars,
         \A j \in Job, spawned \in BOOLEAN : Start(j, spawned) => P,
         \A j \in Job : AttachProcess(j) => P,
         \A j \in Job, w \in Worker : ClaimJob(j, w) => P,
         \A j \in Job, w \in Worker : \A t \in TokensOf(j, w) :
            Heartbeat(j, w, t) => P,
         \A j \in Job, w \in Worker, s \in Terminal : \A t \in TokensOf(j, w) :
            Finish(j, w, t, s) => P,
         \A j \in Job, w \in Worker, s \in Terminal, k \in Key :
            \A t \in TokensOf(j, w) : FinishOnce(j, w, t, s, k) => P,
         \A j \in Job : Retry(j) => P,
         \A j \in Job : CancelJob(j) => P,
         \A j \in Job : RequestCancellation(j) => P,
         \A c \in Caller : TransitionWrite(c) => P,
         \A c \in Caller, j \in Job, s \in Target :
            TransitionRead(c, j, s) => P,
         \A J \in SUBSET Job : ReconcileStale(J) => P,
         Tick => P,
         UNCHANGED vars => P
  PROVE  P
  BY ZenonT(40) DEF Next, JobStep, WorkerStep

LEMMA StartInv ==
  ASSUME Inv, NEW j \in Job, NEW spawned \in BOOLEAN, Start(j, spawned)
  PROVE  Inv'
<1>1. TypeOK /\ TypeOK'
  BY StartType, SMTT(30) DEF Inv
<1>2. RowsMoveOn
  BY <1>1 DEF Start, SetStatus, RowsMoveOn, TypeOK, Exists
<1> QED
  BY <1>1, <1>2, InvFromParts, Zenon DEF Start, logVars

LEMMA AttachProcessInv ==
  ASSUME Inv, NEW j \in Job, AttachProcess(j)
  PROVE  Inv'
<1>1. TypeOK /\ TypeOK'
  BY AttachProcessType, SMTT(30) DEF Inv
<1>2. RowsMoveOn
  BY <1>1 DEF AttachProcess, Bump, RowsMoveOn, TypeOK, Exists
<1> QED
  BY <1>1, <1>2, InvFromParts, Zenon DEF AttachProcess, logVars

LEMMA HeartbeatInv ==
  ASSUME Inv, NEW j \in Job, NEW w \in Worker, NEW t, Heartbeat(j, w, t)
  PROVE  Inv'
<1>1. TypeOK /\ TypeOK'
  BY HeartbeatType DEF Inv
<1>2. RowsMoveOn
  BY <1>1, WriteMovesOn, StatusMembers, SMTT(30) DEF Heartbeat
<1>3. LeaseOfLatest'
  BY <1>2, ZenonT(40) DEF Inv, Heartbeat, LeaseOfLatest, RowsMoveOn, Exists, logVars
<1> QED
  BY <1>1, <1>2, <1>3, SnapshotsKept DEF Inv, Heartbeat

LEMMA RetryInv ==
  ASSUME Inv, NEW j \in Job, Retry(j)
  PROVE  Inv'
<1>1. TypeOK /\ TypeOK'
  BY RetryType, Zenon DEF Inv
<1>2. RowsMoveOn
  BY <1>1, WriteMovesOn, StatusMembers DEF Retry
<1> QED
  BY <1>1, <1>2, InvFromParts DEF Retry, logVars

LEMMA CancelJobInv ==
  ASSUME Inv, NEW j \in Job, CancelJob(j)
  PROVE  Inv'
<1>1. TypeOK /\ TypeOK'
  BY CancelJobType, Zenon DEF Inv
<1>2. RowsMoveOn
  BY <1>1, WriteMovesOn, StatusMembers DEF CancelJob, Terminal
<1> QED
  BY <1>1, <1>2, InvFromParts DEF CancelJob, logVars

LEMMA RequestCancellationInv ==
  ASSUME Inv, NEW j \in Job, RequestCancellation(j)
  PROVE  Inv'
<1>1. TypeOK /\ TypeOK'
  BY RequestCancellationType, Zenon DEF Inv
<1>2. RowsMoveOn
  BY <1>1, WriteMovesOn, StatusMembers DEF RequestCancellation
<1> QED
  BY <1>1, <1>2, InvFromParts DEF RequestCancellation, logVars

LEMMA ReconcileStaleInv ==
  ASSUME Inv, NEW J, ReconcileStale(J)
  PROVE  Inv'
<1>1. TypeOK /\ TypeOK'
  BY ReconcileStaleType, Zenon DEF Inv
<1>2. RowsMoveOn
  BY <1>1, WriteMovesOn, StatusMembers, Zenon DEF ReconcileStale
<1> QED
  BY <1>1, <1>2, InvFromParts DEF ReconcileStale, logVars

LEMMA IdleInv ==
  ASSUME Inv, TypeOK',
         UNCHANGED <<status, revision, attempt, leaseVars, committed, call>>
  PROVE  Inv'
<1>1. RowsMoveOn
  BY DEF Inv, RowsMoveOn, TypeOK, Exists
<1> QED
  BY <1>1, InvFromParts, SMTT(30)

LEMMA StepInv == Inv /\ [Next]_vars => Inv'
<1> SUFFICES ASSUME Inv, [Next]_vars PROVE Inv'
  OBVIOUS
<1>1. ASSUME NEW j \in Job, NEW w \in Worker, NEW s \in Terminal,
             NEW t \in TokensOf(j, w), Finish(j, w, t, s)
      PROVE  Inv'
  BY <1>1, FinishType, CommitInv, SMTT(30) DEF Inv, Finish
<1>2. ASSUME NEW j \in Job, NEW w \in Worker, NEW s \in Terminal, NEW k \in Key,
             NEW t \in TokensOf(j, w), FinishOnce(j, w, t, s, k)
      PROVE  Inv'
  BY <1>2, FinishOnceType, CommitInv, SMTT(30) DEF Inv, FinishOnce
<1>3. ASSUME Tick PROVE Inv'
  BY <1>3, IdleInv, SMTT(30) DEF Tick, Inv, TypeOK, leaseVars, logVars
<1>4. ASSUME UNCHANGED vars PROVE Inv'
  BY <1>4, IdleInv DEF vars, Inv, TypeOK, leaseVars, logVars
<1> HIDE DEF Inv
<1> QED
  BY <1>1, <1>2, <1>3, <1>4, StartInv, AttachProcessInv, ClaimJobInv, HeartbeatInv,
     RetryInv, CancelJobInv, RequestCancellationInv, TransitionReadInv,
     TransitionWriteInv, ReconcileStaleInv, NextCases, ZenonT(40)

LEMMA Invariant == Spec => []Inv
  BY InitInv, StepInv, PTL DEF Spec

------------------------------------------------------------------------------
(* Theorems about the registry *)

(***************************************************************************)
(* Every column of the registry keeps its type.                            *)
(***************************************************************************)
THEOREM TypesKept == Spec => []TypeOK
<1>1. Inv => TypeOK
  BY DEF Inv
<1> QED
  BY <1>1, Invariant, PTL

(***************************************************************************)
(* transition writes over the row that it read, or does not write: no      *)
(* claim, commit, cancellation request or reconciliation between its two   *)
(* halves goes unnoticed.                                                  *)
(***************************************************************************)
THEOREM SnapshotsAreExact == Spec => []SnapshotExact
<1>1. Inv => SnapshotExact
  BY DEF Inv
<1> QED
  BY <1>1, Invariant, PTL

(***************************************************************************)
(* A worker that presents a token is refused unless the token is of the    *)
(* latest attempt, in heartbeat, finish and finish_once, however worker    *)
(* ids are used again.                                                     *)
(***************************************************************************)
THEOREM StaleTokensAreRefused == Spec => StaleTokenRefused
<1> DEFINE Refused(j, w, t) ==
      /\ ~Heartbeat(j, w, t)
      /\ \A s \in Terminal :
           /\ ~Finish(j, w, t, s)
           /\ \A k \in Key : ~FinishOnce(j, w, t, s, k)
<1> DEFINE Fenced ==
      \A j \in Job, w \in Worker : \A t \in TokensOf(j, w) \ {0, attempt[j]} :
        Refused(j, w, t)
<1>1. Inv /\ [Next]_vars => [Fenced]_vars
  <2> SUFFICES ASSUME Inv, NEW j \in Job, NEW w \in Worker,
                      NEW t \in TokensOf(j, w) \ {0, attempt[j]}
               PROVE  Refused(j, w, t)
    BY Zenon
  <2>1. ~Holds(j, w, t)
    BY DEF Inv, LeaseOfLatest, Holds
  <2> QED
    BY <2>1, Zenon DEF Heartbeat, Finish, FinishOnce
<1> QED
  BY <1>1, Invariant, PTL DEF Spec, StaleTokenRefused

------------------------------------------------------------------------------
(***************************************************************************)
(* The registry implements its contract.  Each lemma maps one action to a  *)
(* step of JobContract, or to a step that leaves the contract's state as   *)
(* it is.                                                                  *)
(***************************************************************************)
Contract == [C!ContractNext]_(C!contractVars)

LEMMA Unseen ==
  ASSUME UNCHANGED <<attempt, committed, receipts, calledOff>>,
         \A j \in Job : Open(j)' <=> Open(j),
         \A j \in Job : ~Open(j) => status'[j] = status[j],
         \A j \in Job : Open(j) => (worker'[j] = NoWorker <=> worker[j] = NoWorker)
  PROVE  Contract
<1>1. OutcomeOf' = OutcomeOf
  BY ZenonT(40) DEF OutcomeOf
<1>2. HeldOf' = HeldOf
  BY Zenon DEF HeldOf
<1> QED
  BY <1>1, <1>2, SMTT(30) DEF Contract, C!contractVars

(* A write of another open status over open rows, the leases kept. *)
LEMMA ReopenUnseen ==
  ASSUME TypeOK, NEW J, NEW s \in Status \ Terminal, SetStatus(J, s),
         \A j \in J : j \in Job => Open(j),
         UNCHANGED <<attempt, committed, receipts, calledOff>>,
         \A j \in Job : worker'[j] = NoWorker <=> worker[j] = NoWorker
  PROVE  Contract
<1>1. \A j \in Job : status'[j] = IF j \in J THEN s ELSE status[j]
  BY Zenon DEF SetStatus, TypeOK
<1> QED
  BY <1>1, Unseen, StatusMembers, Zenon DEF Open, Exists

LEMMA StartRefines ==
  ASSUME Inv, NEW j \in Job, NEW spawned \in BOOLEAN, Start(j, spawned)
  PROVE  Contract
<1>1. \A i \in Job : status'[i] = IF i = j THEN "pending" ELSE status[i]
  BY Zenon DEF Start, SetStatus
<1>2. OutcomeOf' = [OutcomeOf EXCEPT ![j] = "open"]
  BY <1>1, StatusMembers, ZenonT(40) DEF OutcomeOf, Open, Exists
<1>3. OutcomeOf[j] = "absent"
  BY SMTT(30) DEF OutcomeOf, Start, Open, Exists
<1>4. ParentOf[j] # NoJob => OutcomeOf[ParentOf[j]] # "absent"
  BY JobAssumption DEF OutcomeOf, Start, Open, Exists
<1>5. HeldOf' = HeldOf
  <2>1. worker[j] = NoWorker
    BY Zenon DEF Inv, LeaseOfLatest, Start, Exists
  <2> QED
    BY <2>1, <1>1, SMTT(30) DEF HeldOf, Start, leaseVars, Open, Exists
<1>6. C!Submit(j)
  BY <1>2, <1>3, <1>4, <1>5, Zenon DEF C!Submit, Start, logVars
<1> QED
  BY <1>6, Zenon DEF Contract, C!ContractNext

LEMMA ClaimJobRefines ==
  ASSUME Inv, NEW j \in Job, NEW w \in Worker, ClaimJob(j, w)
  PROVE  Contract
<1>1. \A i \in Job : /\ status'[i] = IF i = j THEN "claimed" ELSE status[i]
                     /\ worker'[i] = IF i = j THEN w ELSE worker[i]
  BY SMTT(30) DEF ClaimJob, SetStatus, Inv, TypeOK
<1>2. Open(j) /\ w # NoWorker
  BY RegistryAssumption, ZenonT(40) DEF ClaimJob
<1>3. OutcomeOf' = OutcomeOf /\ OutcomeOf[j] = "open"
  BY <1>1, <1>2, StatusMembers DEF OutcomeOf, Open, Exists
<1>4. HeldOf' = [HeldOf EXCEPT ![j] = TRUE]
  BY <1>1, <1>2, StatusMembers, ZenonT(40) DEF HeldOf, Open, Exists
<1>5. C!Try(j)
  BY <1>3, <1>4, Zenon DEF C!Try, ClaimJob
<1> QED
  BY <1>5, SMTT(30) DEF Contract, C!ContractNext

(* What a commit is to the contract, with the receipt R that it leaves. *)
LEMMA CommitRefines ==
  ASSUME Inv, NEW j \in Job, NEW w \in Worker, NEW t, NEW s \in Terminal, NEW R,
         Open(j), Holds(j, w, t), Commit(j, s),
         receipts' = receipts \cup R, \A r \in R, q \in receipts : r.key # q.key
  PROVE  C!Commit(j, s, R)
<1>1. \A i \in Job : /\ status'[i] = IF i = j THEN s ELSE status[i]
                     /\ worker'[i] = IF i = j THEN NoWorker ELSE worker[i]
  BY SMTT(30) DEF Commit, SetStatus, ClearLease
<1>2. worker[j] # NoWorker
  BY RegistryAssumption DEF Holds
<1>3. attempt[j] \notin committed[j]
  BY <1>2 DEF Inv, LeaseOfLatest
<1>4. s \in Terminal /\ s # "absent"
  BY StatusMembers
<1>5. OutcomeOf[j] = "open" /\ OutcomeOf' = [OutcomeOf EXCEPT ![j] = s]
  BY <1>1, <1>4, ZenonT(40) DEF OutcomeOf, Open, Exists
<1>6. HeldOf[j] /\ HeldOf' = [HeldOf EXCEPT ![j] = FALSE]
  BY <1>1, <1>2, ZenonT(40) DEF HeldOf, Open, Exists
<1> QED
  BY <1>3, <1>5, <1>6, SMTT(30) DEF C!Commit, Commit

LEMMA FinishRefines ==
  ASSUME Inv, NEW j \in Job, NEW w \in Worker, NEW t, NEW s \in Terminal,
         Finish(j, w, t, s)
  PROVE  Contract
<1>1. C!Commit(j, s, {})
  BY CommitRefines, Zenon DEF Finish
<1> QED
  BY <1>1 DEF Contract, C!ContractNext, C!Terminal, Terminal

LEMMA FinishOnceRefines ==
  ASSUME Inv, NEW j \in Job, NEW w \in Worker, NEW t, NEW s \in Terminal,
         NEW k \in Key, FinishOnce(j, w, t, s, k)
  PROVE  Contract
<1> DEFINE R == {[job |-> j, attempt |-> attempt[j], key |-> k, status |-> s]}
<1>1. C!Commit(j, s, R)
  BY CommitRefines DEF FinishOnce
<1>2. R = {C!ReceiptOf(j, s, k)}
  BY Zenon DEF C!ReceiptOf
<1> QED
  BY <1>1, <1>2, ZenonT(40) DEF Contract, C!ContractNext, C!Terminal, Terminal

LEMMA RetryRefines ==
  ASSUME Inv, NEW j \in Job, Retry(j)
  PROVE  Contract
<1>1. \A i \in Job : /\ status'[i] = IF i = j THEN "pending" ELSE status[i]
                     /\ worker'[i] = IF i = j THEN NoWorker ELSE worker[i]
  BY DEF Retry, SetStatus, ClearLease
<1>2. CASE status[j] = "failed"
  <2>1. OutcomeOf[j] = "failed" /\ OutcomeOf' = [OutcomeOf EXCEPT ![j] = "open"]
    BY <1>1, <1>2, StatusMembers, ZenonT(40) DEF OutcomeOf, Open, Exists, Terminal
  <2>2. HeldOf' = HeldOf
    BY <1>1, <1>2 DEF HeldOf, Open, Exists, Terminal
  <2>3. C!Reopen(j)
    BY <2>1, <2>2, SMTT(30) DEF C!Reopen, Retry, logVars
  <2> QED
    BY <2>3, ZenonT(40) DEF Contract, C!ContractNext
<1>3. CASE status[j] = "interrupted" /\ worker[j] = NoWorker
  <2>1. Open(j) /\ UNCHANGED <<attempt, committed, receipts, calledOff>>
    BY <1>3, StatusMembers, Zenon DEF Retry, logVars, Open, Exists
  <2> QED
    BY <1>1, <1>3, <2>1, Unseen, StatusMembers, Zenon DEF Open, Exists
<1>4. CASE status[j] = "interrupted" /\ worker[j] # NoWorker
  <2>1. OutcomeOf' = OutcomeOf /\ OutcomeOf[j] = "open"
    BY <1>1, <1>4, StatusMembers DEF OutcomeOf, Open, Exists
  <2>2. HeldOf[j] /\ HeldOf' = [i \in Job |-> IF i \in {j} THEN FALSE ELSE HeldOf[i]]
    BY <1>1, <1>4, StatusMembers, ZenonT(40) DEF HeldOf, Open, Exists
  <2>3. C!Withdraw({j})
    BY <2>1, <2>2, Zenon DEF C!Withdraw, Retry, logVars
  <2> QED
    BY <2>3 DEF Contract, C!ContractNext
<1> QED
  BY <1>2, <1>3, <1>4, SMTT(30) DEF Retry

LEMMA CancelJobRefines ==
  ASSUME Inv, NEW j \in Job, CancelJob(j)
  PROVE  Contract
<1> DEFINE J == {i \in Subtree(j) : Open(i)}
<1>1. \A i \in Job : /\ status'[i] = IF i \in J THEN "cancelled" ELSE status[i]
                     /\ worker'[i] = IF i \in J THEN NoWorker ELSE worker[i]
  BY Zenon DEF CancelJob, SetStatus, ClearLease
<1>2. J = {i \in Tree[j] : OutcomeOf[i] = "open"} /\ J \subseteq Job
  <2>1. Tree[j] \subseteq Job
    BY Zenon DEF Tree
  <2>2. \A i \in Job : OutcomeOf[i] = "open" <=> Open(i)
    BY StatusMembers, Zenon DEF OutcomeOf, Open, Exists, Inv, TypeOK, Status, Terminal
  <2> QED
    BY <2>1, <2>2, Zenon DEF Subtree, Open
<1>3. /\ UNCHANGED <<attempt, committed, receipts>>
      /\ calledOff' = calledOff \cup {j}
  BY Zenon DEF CancelJob
<1> HIDE DEF J
<1>4. \A i \in J : i \in Job /\ Open(i)
  BY <1>2, Zenon DEF J
<1>5. OutcomeOf[j] # "absent"
  BY StatusMembers, Zenon DEF CancelJob, OutcomeOf, Open, Exists
<1>6. OutcomeOf' = [i \in Job |-> IF i \in J THEN "cancelled" ELSE OutcomeOf[i]]
  BY <1>1, <1>4 DEF OutcomeOf, Open, Exists, Terminal
<1>7. HeldOf' = [i \in Job |-> IF i \in J THEN FALSE ELSE HeldOf[i]]
  BY <1>1, <1>4, ZenonT(40) DEF HeldOf, Open, Exists, Terminal
<1>8. C!Tree = Tree
  BY Zenon DEF C!Tree, Tree
<1>9. C!CallOff(j)
  BY <1>2, <1>3, <1>5, <1>6, <1>7, <1>8 DEF C!CallOff
<1> QED
  BY <1>9, ZenonT(40) DEF Contract, C!ContractNext

LEMMA TransitionWriteRefines ==
  ASSUME Inv, NEW c \in Caller, TransitionWrite(c)
  PROVE  Contract
<1> DEFINE d == call[c]
<1>0. UNCHANGED <<attempt, worker, committed, receipts, calledOff>>
  BY Zenon DEF TransitionWrite, leaseVars, logVars
<1>1. d.job \in Job /\ d.to \in Status
  BY Zenon DEF TransitionWrite, Inv, TypeOK, Call
<1>2. CASE UNCHANGED <<status, revision>>
  BY <1>0, <1>2, Unseen, ZenonT(40) DEF Open, Exists
<1>3. CASE Unchanged(d) /\ SetStatus({d.job}, d.to)
  <2>1. Open(d.job)
    BY <1>3, SMTT(30) DEF Unchanged, Inv, SnapshotExact, TransitionWrite
  <2>2. CASE d.to \in Status \ Terminal
    BY <1>0, <1>3, <2>1, <2>2, ReopenUnseen, SMTT(30) DEF Inv
  <2>3. CASE d.to \in Terminal
    <3> DEFINE i == d.job
               s == d.to
    <3>1. \A k \in Job : status'[k] = IF k = i THEN s ELSE status[k]
      BY <1>3, Zenon DEF SetStatus
    <3>2. s \in Terminal
      BY <2>3, Zenon
    <3> HIDE DEF i, s
    <3>3. i \in Job /\ Open(i)
      BY <1>1, <2>1 DEF i
    <3>4. OutcomeOf[i] = "open" /\ OutcomeOf' = [OutcomeOf EXCEPT ![i] = s]
      BY <3>1, <3>2, <3>3, ZenonT(40) DEF OutcomeOf, Open, Exists
    <3>5. HeldOf' = [HeldOf EXCEPT ![i] = FALSE]
      BY <1>0, <3>1, <3>2, <3>3, ZenonT(40) DEF HeldOf, Open, Exists
    <3>6. C!Settle(i, s)
      BY <1>0, <3>4, <3>5 DEF C!Settle
    <3> QED
      BY <3>2, <3>3, <3>6, ZenonT(40) DEF Contract, C!ContractNext, C!Terminal, Terminal
  <2> QED
    BY <1>1, <2>2, <2>3, SMTT(30)
<1> QED
  BY <1>2, <1>3, Zenon DEF TransitionWrite

LEMMA ReconcileStaleRefines ==
  ASSUME Inv, NEW J \in SUBSET Job, ReconcileStale(J)
  PROVE  Contract
<1>1. \A i \in Job : /\ status'[i] = IF i \in J THEN "interrupted" ELSE status[i]
                     /\ worker'[i] = IF i \in J THEN NoWorker ELSE worker[i]
  BY SMTT(30) DEF ReconcileStale, SetStatus, ClearLease
<1>2. \A i \in J : Open(i)
  BY StatusMembers DEF ReconcileStale, Stale, Open, Exists
<1>3. UNCHANGED <<attempt, committed, receipts, calledOff>>
  BY Zenon DEF ReconcileStale, logVars
<1> DEFINE H == {i \in J : worker[i] # NoWorker}
<1>4. CASE H = {}
  BY <1>1, <1>2, <1>3, <1>4, Unseen, StatusMembers, Zenon DEF Open, Exists
<1>5. CASE H # {}
  <2>1. OutcomeOf' = OutcomeOf /\ \A i \in H : OutcomeOf[i] = "open"
    BY <1>1, <1>2, StatusMembers, Zenon DEF OutcomeOf, Open, Exists
  <2>2. /\ \A i \in H : HeldOf[i]
        /\ HeldOf' = [i \in Job |-> IF i \in H THEN FALSE ELSE HeldOf[i]]
    BY <1>1, <1>2, StatusMembers, ZenonT(40) DEF HeldOf, Open, Exists
  <2>3. C!Withdraw(H)
    BY <1>3, <2>1, <2>2 DEF C!Withdraw
  <2>4. H \in (SUBSET Job) \ {{}}
    BY <1>5
  <2> QED
    BY <2>3, <2>4, ZenonT(40) DEF Contract, C!ContractNext
<1> QED
  BY <1>4, <1>5, SMTT(30)

LEMMA InitRefines == Init => C!ContractInit
<1> SUFFICES ASSUME Init PROVE C!ContractInit
  OBVIOUS
<1>1. OutcomeOf = [j \in Job |-> "absent"] /\ HeldOf = [j \in Job |-> FALSE]
  BY ZenonT(40) DEF Init, OutcomeOf, HeldOf, Open, Exists
<1> QED
  BY <1>1 DEF Init, C!ContractInit

LEMMA StepRefines == Inv /\ [Next]_vars => Contract
<1> SUFFICES ASSUME Inv, [Next]_vars PROVE Contract
  BY Zenon
<1>1. ASSUME NEW j \in Job, AttachProcess(j) PROVE Contract
  BY <1>1, Unseen, Zenon DEF AttachProcess, leaseVars, logVars, Open, Exists
<1>2. ASSUME NEW j \in Job, NEW w \in Worker, NEW t \in TokensOf(j, w),
             Heartbeat(j, w, t)
      PROVE  Contract
  BY <1>2, ReopenUnseen, StatusMembers DEF Heartbeat, logVars, Inv
<1>3. ASSUME NEW j \in Job, RequestCancellation(j) PROVE Contract
  BY <1>3, ReopenUnseen, StatusMembers, ZenonT(40)
  DEF RequestCancellation, leaseVars, logVars, Inv
<1>4. ASSUME NEW c \in Caller, NEW j \in Job,
             NEW s \in Target, TransitionRead(c, j, s)
      PROVE  Contract
  BY <1>4, Unseen, SMTT(30) DEF TransitionRead, leaseVars, logVars, Open, Exists
<1>5. ASSUME Tick PROVE Contract
  BY <1>5, Unseen, SMTT(30) DEF Tick, leaseVars, logVars, Open, Exists
<1>6. ASSUME UNCHANGED vars PROVE Contract
  BY <1>6, Unseen, Zenon DEF vars, leaseVars, logVars, Open, Exists
<1> HIDE DEF Inv, Contract
<1> QED
  BY <1>1, <1>2, <1>3, <1>4, <1>5, <1>6, StartRefines, ClaimJobRefines,
     FinishRefines, FinishOnceRefines, RetryRefines, CancelJobRefines,
     TransitionWriteRefines, ReconcileStaleRefines, NextCases, ZenonT(40)

(***************************************************************************)
(* The registry implements JobContract: a job settles once per opening, an *)
(* attempt commits at most once and leaves at most one receipt, attempts   *)
(* are not exceeded, and a call of cancel takes the whole open subtree.    *)
(***************************************************************************)
THEOREM RegistryKeepsContract == Spec => KeepsContract
  BY InitRefines, StepRefines, Invariant, PTL
  DEF Spec, KeepsContract, C!ContractSpec, Contract

------------------------------------------------------------------------------
(* What the contract says of receipts *)

(***************************************************************************)
(* The inductive invariant.  A receipt is of a try that was committed, and *)
(* a try commits once; so no two receipts are of one try.                  *)
(***************************************************************************)
ReceiptOfCommit == \A r \in receipts : r.attempt \in committed[r.job]

ContractInv ==
  /\ C!ContractTypeOK
  /\ ReceiptOfCommit
  /\ C!ReceiptUnique
  /\ C!ReceiptFinal

(* It holds in the contract's initial states. *)
LEMMA ContractInitInv == C!ContractInit => ContractInv
  BY JobAssumption DEF C!ContractInit, ContractInv, C!ContractTypeOK, ReceiptOfCommit,
     C!ReceiptUnique, C!ReceiptFinal, C!Terminal

(* A commit that leaves a receipt, or none. *)
LEMMA ContractCommitInv ==
  ASSUME ContractInv, NEW j \in Job, NEW s \in C!Terminal, NEW R,
         C!Commit(j, s, R), R = {} \/ \E k \in Key : R = {C!ReceiptOf(j, s, k)}
  PROVE  ContractInv'
<1> USE DEF ContractInv
<1>1. \A r \in R : /\ r \in C!Receipt
                   /\ r.job = j /\ r.attempt = attempt[j] /\ r.status = s
  BY DEF C!ReceiptOf, C!Receipt, C!ContractTypeOK
<1>2. \A r, q \in R : r = q
  BY SMTT(30)
<1>3. C!ContractTypeOK'
  BY <1>1 DEF C!Commit, C!ContractTypeOK
<1>4. \A i \in Job : committed[i] \subseteq committed'[i]
  BY DEF C!Commit, C!ContractTypeOK
<1>5. attempt[j] \in committed'[j] /\ attempt[j] \notin committed[j]
  BY DEF C!Commit, C!ContractTypeOK
<1>6. ReceiptOfCommit'
  <2> SUFFICES ASSUME NEW r \in receipts' PROVE r.attempt \in committed'[r.job]
    BY Zenon DEF ReceiptOfCommit
  <2>1. CASE r \in R
    BY <2>1, <1>1, <1>5, Zenon
  <2>2. CASE r \in receipts
    BY <2>2, <1>4, Zenon DEF ReceiptOfCommit, C!ContractTypeOK, C!Receipt
  <2> QED
    BY <2>1, <2>2, Zenon DEF C!Commit
<1>7. C!ReceiptUnique'
  <2>1. \A r \in R, q \in receipts : r.key # q.key /\ ~(r.job = q.job /\ r.attempt = q.attempt)
    BY <1>1, <1>5, Zenon DEF C!Commit, ReceiptOfCommit
  <2> QED
    BY <2>1, <1>2, Zenon DEF C!Commit, C!ReceiptUnique
<1>8. C!ReceiptFinal'
  <2>1. OutcomeOf[j] = "open" /\ OutcomeOf' = [OutcomeOf EXCEPT ![j] = s]
    BY Zenon DEF C!Commit
  <2>2. \A r \in receipts : r.job \in Job /\ r.status \in C!Terminal
    BY Zenon DEF C!ContractTypeOK, C!Receipt
  <2>3. \A r \in receipts : r.status # "failed" => r.job # j
    BY <2>1, <2>2 DEF C!ReceiptFinal, C!Terminal
  <2> QED
    BY <1>1, <2>1, <2>2, <2>3 DEF C!Commit, C!ReceiptFinal, C!ContractTypeOK
<1> QED
  BY <1>3, <1>6, <1>7, <1>8, Zenon

(* A step that only moves a job out of "absent", "open" or "failed" keeps  *)
(* the receipts and what they say.                                         *)
LEMMA ContractQuietInv ==
  ASSUME ContractInv, C!ContractTypeOK', UNCHANGED <<committed, receipts>>,
         \A j \in Job : OutcomeOf[j] \in {"succeeded", "cancelled"} => OutcomeOf'[j] = OutcomeOf[j]
  PROVE  ContractInv'
<1> USE DEF ContractInv
<1>1. ReceiptOfCommit' /\ C!ReceiptUnique'
  BY Zenon DEF ReceiptOfCommit, C!ReceiptUnique
<1>2. C!ReceiptFinal'
  BY DEF C!ReceiptFinal, C!ContractTypeOK, C!Receipt, C!Terminal
<1> QED
  BY <1>1, <1>2, Zenon

(* Every step the contract allows keeps the invariant. *)
LEMMA ContractStepInv == ContractInv /\ Contract => ContractInv'
<1> SUFFICES ASSUME ContractInv, Contract PROVE ContractInv'
  BY Zenon
<1>0. C!ContractTypeOK
  BY Zenon DEF ContractInv
<1>1. ASSUME NEW j \in Job, C!Submit(j) PROVE ContractInv'
  BY <1>0, <1>1, ContractQuietInv, Zenon DEF C!Submit, C!ContractTypeOK, C!Terminal
<1>2. ASSUME NEW j \in Job, C!Try(j) PROVE ContractInv'
  BY <1>0, <1>2, ContractQuietInv DEF C!Try, C!ContractTypeOK
<1>3. ASSUME NEW j \in Job, C!Reopen(j) PROVE ContractInv'
  BY <1>0, <1>3, ContractQuietInv DEF C!Reopen, C!ContractTypeOK, C!Terminal
<1>4. ASSUME NEW j \in Job, C!CallOff(j) PROVE ContractInv'
  BY <1>0, <1>4, ContractQuietInv, Zenon DEF C!CallOff, C!ContractTypeOK, C!Terminal
<1>5. ASSUME NEW j \in Job, NEW s \in C!Terminal, C!Settle(j, s) PROVE ContractInv'
  BY <1>0, <1>5, ContractQuietInv DEF C!Settle, C!ContractTypeOK, C!Terminal
<1>6. ASSUME NEW j \in Job, NEW s \in C!Terminal, C!Commit(j, s, {}) PROVE ContractInv'
  BY <1>6, ContractCommitInv, ZenonT(40)
<1>7. ASSUME NEW j \in Job, NEW s \in C!Terminal, NEW k \in Key, C!Commit(j, s, {C!ReceiptOf(j, s, k)})
      PROVE  ContractInv'
  BY <1>7, ContractCommitInv, ZenonT(40)
<1>8. ASSUME NEW J \in (SUBSET Job) \ {{}}, C!Withdraw(J) PROVE ContractInv'
  BY <1>0, <1>8, ContractQuietInv, Zenon DEF C!Withdraw, C!ContractTypeOK
<1>9. CASE UNCHANGED C!contractVars
  BY <1>0, <1>9, ContractQuietInv DEF C!contractVars, C!ContractTypeOK
<1> QED
  BY <1>1, <1>2, <1>3, <1>4, <1>5, <1>6, <1>7, <1>8, <1>9, ZenonT(40)
     DEF Contract, C!ContractNext

(***************************************************************************)
(* What follows from the contract alone: the receipts of finish_once are   *)
(* unique per attempt and per key, and one of success or of cancellation   *)
(* is never contradicted by the row of its job, whatever is retried,       *)
(* cancelled or settled later.                                             *)
(***************************************************************************)
THEOREM ContractReceipts == KeepsContract => [](C!ReceiptUnique /\ C!ReceiptFinal)
<1>1. ContractInv => C!ReceiptUnique /\ C!ReceiptFinal
  BY DEF ContractInv
<1> QED
  BY <1>1, ContractInitInv, ContractStepInv, PTL DEF KeepsContract, C!ContractSpec, Contract

(***************************************************************************)
(* So the receipts of the registry are unique and stay true: replaying     *)
(* finish_once always finds the one receipt of its key.                    *)
(***************************************************************************)
THEOREM RegistryReceipts == Spec => [](C!ReceiptUnique /\ C!ReceiptFinal)
  BY RegistryKeepsContract, ContractReceipts, PTL
==============================================================================
