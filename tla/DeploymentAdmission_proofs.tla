---------------------- MODULE DeploymentAdmission_proofs ----------------------
(***************************************************************************)
(* Proofs about the admission of whole deployments, for every finite set   *)
(* of jobs, all deployments and any number of restarts: the capacity       *)
(* database keeps StoreInv, and the service's receipts and calls agree     *)
(* with what it holds (Book).                                              *)
(***************************************************************************)
EXTENDS DeploymentAdmission, WorkerCapacity_proofs

-----------------------------------------------------------------------------
(***************************************************************************)
(* Deployments.  Of the capacity database their service sees which jobs    *)
(* hold dispatched capacity; a call adds ranks to them, in order, or takes *)
(* ranks from them, last first, and nothing else changes them.             *)
(***************************************************************************)

Dispatched == {j \in Job : reservation[j].state = "dispatched"}

Plan == Ranks[call.plan]
Admitting == call # Idle /\ call.phase \in {"reserve", "dispatch"}
Releasing(p) == call # Idle /\ call.phase = "release" /\ call.plan = p

\* The receipt of p outlives the call in progress: it is not the one released, or
\* one of its releases raised.
Kept(p) == Releasing(p) => call.failed

\* The ranks of the call that may hold dispatched capacity are the first ones.
Reach == IF call.phase \in {"reserve", "dispatch"} THEN call.at - 1 ELSE call.at

CallTypeOK ==
    /\ active \subseteq Deployment
    /\ call \in CallType \cup {Idle}
    /\ unresolved \subseteq active /\ leaked \subseteq Job
    /\ restarts \in 0..MaxRestarts
    /\ call # Idle => call.at \in 1..Len(Plan)

\* A call admits a plan that has no receipt or releases one that has.
CallPlan == call # Idle => (call.phase = "release" <=> call.plan \in active)

\* An admission has dispatched every rank it has passed.
Passed == Admitting => \A i \in 1..(call.at - 1) : Plan[i] \in Dispatched

Backed == \A p \in active \ unresolved : Releasing(p) \/ RankJobs(p) \subseteq Dispatched

\* Dispatched capacity is a receipt's that is kept, the call's, or leaked.
Accounted ==
    restarts = 0 =>
        \A j \in Dispatched :
            \/ \E p \in active : j \in RankJobs(p) /\ Kept(p)
            \/ call # Idle /\ \E i \in 1..Reach : Plan[i] = j
            \/ j \in leaked

Book == CallTypeOK /\ CallPlan /\ Passed /\ Backed /\ Accounted

AdmissionInv == StoreInv /\ Book

\* What a call in progress works on.
LEMMA CallAt ==
    ASSUME CallTypeOK, call # Idle
    PROVE  /\ call \in CallType /\ call.plan \in Deployment /\ call.at \in 1..Len(Plan)
           /\ Plan \in Seq(Job) /\ Len(Plan) \in Nat /\ DOMAIN Plan = 1..Len(Plan)
           /\ Rank = Plan[call.at] /\ Rank \in Job
           /\ RankJobs(call.plan) = {Plan[i] : i \in 1..Len(Plan)}
<1>1. call \in CallType /\ call.plan \in Deployment /\ call.at \in 1..Len(Plan)
  BY Zenon DEF CallTypeOK, CallType
<1>2. Plan \in Seq(Job)
  BY <1>1, PlanAssumption DEF Plan
<1>3. Len(Plan) \in Nat /\ DOMAIN Plan = 1..Len(Plan)
  BY <1>2
<1>4. Rank = Plan[call.at] /\ Rank \in Job
  BY <1>1, <1>2 DEF Rank, Plan
<1>5. RankJobs(call.plan) = {Plan[i] : i \in 1..Len(Plan)}
  BY <1>3, Zenon DEF RankJobs, Plan
<1>. QED  BY <1>1, <1>2, <1>3, <1>4, <1>5, SMTT(30)

\* The ranks of a plan are jobs.
LEMMA RanksAreJobs ==
    ASSUME NEW p \in Deployment
    PROVE  RankJobs(p) \subseteq Job /\ Len(Ranks[p]) \in Nat \ {0}
<1>1. Ranks[p] \in Seq(Job) /\ Ranks[p] # <<>>
  BY PlanAssumption, Zenon
<1>. QED  BY <1>1, SMTT(30) DEF RankJobs

\* Nothing the book speaks of moves.
LEMMA BookSame ==
    ASSUME Book, Dispatched' = Dispatched, UNCHANGED admission
    PROVE  Book'
<1>0. UNCHANGED <<active, unresolved, leaked, call, restarts>>
  BY Zenon DEF admission, index
<1>1. Plan' = Plan /\ Rank' = Rank /\ Reach' = Reach /\ (Admitting' <=> Admitting)
  BY <1>0, Zenon DEF Plan, Rank, Reach, Admitting
<1>2. \A p : (Releasing(p)' <=> Releasing(p)) /\ (Kept(p)' <=> Kept(p))
  BY <1>0, Zenon DEF Releasing, Kept
<1>3. CallTypeOK' /\ CallPlan'
  BY <1>0, <1>1 DEF Book, CallTypeOK, CallPlan
<1>4. Passed' /\ Backed'
  BY <1>0, <1>1, <1>2, Zenon DEF Book, Passed, Backed
<1>5. Accounted'
  BY <1>0, <1>1, <1>2, Zenon DEF Book, Accounted
<1>. QED  BY <1>3, <1>4, <1>5 DEF Book

\* admit begins with a plan that has no receipt, release with one that has.
LEMMA BookBegins ==
    ASSUME Book, call = Idle, Dispatched' = Dispatched,
           UNCHANGED <<active, unresolved, leaked, restarts>>,
           NEW p \in Deployment, NEW ph \in {"reserve", "release"}, ph = "release" <=> p \in active,
           call' = NewCall(ph, p, IF ph = "reserve" THEN 1 ELSE Len(Ranks[p]))
    PROVE  Book'
<1>1. Len(Ranks[p]) \in Nat \ {0}
  BY RanksAreJobs, Zenon
<1>2. /\ call' \in CallType /\ call' # Idle /\ call'.phase = ph /\ call'.plan = p
      /\ call'.at = IF ph = "reserve" THEN 1 ELSE Len(Ranks[p])
  BY <1>1, Zenon DEF CallType, Idle, NewCall
<1>3. Plan' = Ranks[p] /\ call'.at \in 1..Len(Ranks[p])
  BY <1>1, <1>2 DEF Plan
<1>4. CallTypeOK' /\ CallPlan'
  BY <1>2, <1>3, Zenon DEF Book, CallTypeOK, CallPlan
<1>5. Passed'
  BY <1>2 DEF Passed, Admitting
<1>6. Backed'
  BY DEF Book, Backed, Releasing
<1>7. Accounted'
  <2>. SUFFICES ASSUME restarts = 0, NEW j \in Dispatched
                PROVE  \/ \E q \in active : j \in RankJobs(q) /\ Kept(q)'
                       \/ call' # Idle /\ \E i \in 1..Reach' : Plan'[i] = j
                       \/ j \in leaked
    BY Zenon DEF Accounted
  <2>0. CASE j \in leaked
    BY <2>0, Zenon
  <2>. SUFFICES ASSUME j \notin leaked
                PROVE  \/ \E q \in active : j \in RankJobs(q) /\ Kept(q)'
                       \/ call' # Idle /\ \E i \in 1..Reach' : Plan'[i] = j
    BY <2>0, Zenon
  <2>1. PICK q \in active : j \in RankJobs(q)
    BY Zenon DEF Book, Accounted
  <2>2. CASE ph = "release" /\ q = p
    <3>1. Reach' = Len(Ranks[p])
      BY <1>2, <2>2, Zenon DEF Reach
    <3>2. PICK i \in DOMAIN Ranks[p] : j = Ranks[p][i]
      BY <2>1, <2>2, Zenon DEF RankJobs
    <3>3. DOMAIN Ranks[p] = 1..Len(Ranks[p])
      BY PlanAssumption, SMTT(30)
    <3>. QED  BY <1>2, <1>3, <3>1, <3>2, <3>3, Zenon
  <2>3. CASE ~(ph = "release" /\ q = p)
    <3>1. Kept(q)'
      BY <1>2, <2>3, SMTT(30) DEF Releasing, Kept
    <3>. QED  BY <2>1, <3>1, Zenon
  <2>. QED  BY <2>2, <2>3, Zenon
<1>. QED  BY <1>4, <1>5, <1>6, <1>7 DEF Book

\* The call goes on with the same rank: it has its lease, or it failed.
LEMMA BookTurns ==
    ASSUME Book, Admitting, Dispatched' = Dispatched,
           UNCHANGED <<active, unresolved, leaked, restarts>>,
           call' \in CallType, call'.plan = call.plan, call'.at = call.at,
           call'.phase \in {"dispatch", "cleanup"}
    PROVE  Book'
<1>1. /\ call # Idle /\ call.phase \in {"reserve", "dispatch"} /\ call.at \in 1..Len(Plan)
      /\ Len(Plan) \in Nat
  BY CallAt DEF Book, Admitting
<1>2. call' # Idle
  BY DEF CallType, Idle
<1>3. Plan' = Plan
  BY Zenon DEF Plan
<1>4. \A p : ~Releasing(p) /\ ~Releasing(p)' /\ Kept(p) /\ Kept(p)'
  BY <1>1, Zenon DEF Releasing, Kept
<1>5. CallTypeOK' /\ CallPlan'
  BY <1>1, <1>2, <1>3, Zenon DEF Book, CallTypeOK, CallPlan
<1>6. Passed'
  BY <1>1, <1>3, Zenon DEF Book, Passed, Admitting
<1>7. Backed'
  BY <1>4, Zenon DEF Book, Backed
<1>8. Accounted'
  <2>1. 1..Reach \subseteq 1..Reach'
    BY <1>1, SMTT(30) DEF Reach
  <2>. QED  BY <1>1, <1>2, <1>3, <1>4, <2>1, Zenon DEF Book, Accounted
<1>. QED  BY <1>5, <1>6, <1>7, <1>8, Zenon DEF Book

\* A rank is dispatched, and the call goes on with the next one.
LEMMA BookDispatches ==
    ASSUME Book, Admitting, Dispatched' = Dispatched \cup {Rank}, leaked' = leaked \ {Rank},
           UNCHANGED <<active, unresolved, restarts>>,
           call.at < Len(Plan), call' \in CallType, call'.plan = call.plan,
           call'.at = call.at + 1, call'.phase = "reserve"
    PROVE  Book'
<1>1. /\ call # Idle /\ call.phase \in {"reserve", "dispatch"} /\ call.at \in 1..Len(Plan)
      /\ Len(Plan) \in Nat /\ Rank = Plan[call.at]
  BY CallAt DEF Book, Admitting
<1>2. call' # Idle
  BY SMTT(30) DEF CallType, Idle
<1>3. Plan' = Plan
  BY Zenon DEF Plan
<1>4. \A p : ~Releasing(p) /\ ~Releasing(p)' /\ Kept(p) /\ Kept(p)'
  BY <1>1, SMTT(30) DEF Releasing, Kept
<1>5. CallTypeOK' /\ CallPlan'
  BY <1>1, <1>2, <1>3, SMTT(30) DEF Book, CallTypeOK, CallPlan
<1>6. Passed'
  <2>1. \A i \in 1..(call.at - 1) : Plan[i] \in Dispatched
    BY SMTT(30) DEF Book, Passed
  <2>2. \A i \in 1..(call'.at - 1) : i \in 1..(call.at - 1) \/ i = call.at
    BY <1>1, SMTT(30)
  <2>3. \A i \in 1..(call'.at - 1) : Plan[i] \in Dispatched'
    BY <1>1, <2>1, <2>2, Zenon
  <2>. QED  BY <1>3, <2>3, Zenon DEF Passed
<1>7. Backed'
  BY <1>4, SMTT(30) DEF Book, Backed
<1>8. Accounted'
  <2>1. 1..Reach \subseteq 1..Reach' /\ call.at \in 1..Reach'
    BY <1>1 DEF Reach
  <2>. SUFFICES ASSUME restarts = 0, NEW j \in Dispatched'
                PROVE  \/ \E q \in active : j \in RankJobs(q) /\ Kept(q)'
                       \/ call' # Idle /\ \E i \in 1..Reach' : Plan'[i] = j
                       \/ j \in leaked'
    BY Zenon DEF Accounted
  <2>2. CASE j = Rank
    BY <1>1, <1>2, <1>3, <2>1, <2>2, Zenon
  <2>3. CASE j \in Dispatched /\ j # Rank
    BY <1>2, <1>3, <1>4, <2>1, <2>3, Zenon DEF Book, Accounted
  <2>. QED  BY <2>2, <2>3, Zenon
<1>. QED  BY <1>5, <1>6, <1>7, <1>8 DEF Book

\* The last rank is dispatched: the plan gets its receipt.
LEMMA BookAdmits ==
    ASSUME Book, Admitting, Dispatched' = Dispatched \cup {Rank}, leaked' = leaked \ {Rank},
           UNCHANGED <<unresolved, restarts>>,
           ~(call.at < Len(Plan)), call' = Idle, active' = active \cup {call.plan}
    PROVE  Book'
<1>1. /\ call # Idle /\ call.phase \in {"reserve", "dispatch"} /\ call.at \in 1..Len(Plan)
      /\ Len(Plan) \in Nat /\ Rank = Plan[call.at] /\ call.plan \in Deployment
      /\ RankJobs(call.plan) = {Plan[i] : i \in 1..Len(Plan)}
  BY CallAt, Zenon DEF Book, Admitting
<1>2. \A p : ~Releasing(p) /\ ~Releasing(p)' /\ Kept(p) /\ Kept(p)'
  BY <1>1, Zenon DEF Releasing, Kept
<1>3. CallTypeOK' /\ CallPlan' /\ Passed'
  BY <1>1, Zenon DEF Book, CallTypeOK, CallPlan, Passed, Admitting
<1>4. RankJobs(call.plan) \subseteq Dispatched'
  <2>1. \A i \in 1..(call.at - 1) : Plan[i] \in Dispatched
    BY DEF Book, Passed
  <2>2. \A i \in 1..Len(Plan) : i \in 1..(call.at - 1) \/ i = call.at
    BY <1>1, SMTT(30)
  <2>3. \A i \in 1..Len(Plan) : Plan[i] \in Dispatched'
    BY <1>1, <2>1, <2>2, Zenon
  <2>. QED  BY <1>1, <2>3, Zenon
<1>5. Backed'
  BY <1>2, <1>4, Zenon DEF Book, Backed
<1>6. Accounted'
  <2>1. 1..Reach \subseteq 1..Len(Plan) /\ call.at \in 1..Len(Plan)
    BY <1>1 DEF Reach
  <2>. SUFFICES ASSUME restarts = 0, NEW j \in Dispatched'
                PROVE  (\E q \in active' : j \in RankJobs(q) /\ Kept(q)') \/ j \in leaked'
    BY Zenon DEF Accounted
  <2>2. ASSUME j \in RankJobs(call.plan)
        PROVE  \E q \in active' : j \in RankJobs(q) /\ Kept(q)'
    BY <1>2, <2>2, Zenon
  <2>3. CASE j = Rank
    BY <1>1, <2>1, <2>2, <2>3, Zenon
  <2>4. CASE j \in Dispatched /\ j # Rank
    <3>1. \/ \E q \in active : j \in RankJobs(q)
          \/ \E i \in 1..Reach : Plan[i] = j
          \/ j \in leaked
      BY <2>4, Zenon DEF Book, Accounted
    <3>2. (\E i \in 1..Reach : Plan[i] = j) => j \in RankJobs(call.plan)
      BY <1>1, <2>1, Zenon
    <3>3. (\E q \in active : j \in RankJobs(q)) => \E q \in active' : j \in RankJobs(q) /\ Kept(q)'
      BY <1>2, Zenon
    <3>4. j \in leaked => j \in leaked'
      BY <2>4, Zenon
    <3>. QED  BY <2>2, <3>1, <3>2, <3>3, <3>4, Zenon
  <2>. QED  BY <2>3, <2>4, Zenon
<1>. QED  BY <1>3, <1>5, <1>6, SMTT(30) DEF Book

\* release_capacity was called for a rank, by a failed admission or with its
\* receipt, and the call goes on with the one before it.  A rank that stays
\* dispatched is leaked, or keeps its receipt.
LEMMA BookReleases ==
    ASSUME Book, call # Idle, call.phase \in {"cleanup", "release"},
           Dispatched' \subseteq Dispatched, Dispatched \ {Rank} \subseteq Dispatched',
           leaked' \subseteq Job, leaked \ {Rank} \subseteq leaked',
           Rank \in Dispatched' => IF call.phase = "release" THEN call'.failed ELSE Rank \in leaked',
           UNCHANGED <<active, unresolved, restarts>>, call.failed => call'.failed,
           call.at # 1, call' \in CallType, call'.plan = call.plan,
           call'.at = call.at - 1, call'.phase = call.phase
    PROVE  Book'
<1>1. /\ call.at \in 1..Len(Plan) /\ Len(Plan) \in Nat /\ Rank = Plan[call.at]
      /\ RankJobs(call.plan) = {Plan[i] : i \in 1..Len(Plan)} /\ call.plan \in Deployment
      /\ active \subseteq Deployment
  BY CallAt, Zenon DEF Book, CallTypeOK
<1>2. call' # Idle
  BY DEF CallType, Idle
<1>3. Plan' = Plan
  BY Zenon DEF Plan
<1>4. \A p : (Releasing(p)' <=> Releasing(p)) /\ (Kept(p) => Kept(p)')
  BY <1>2, Zenon DEF Releasing, Kept
<1>5. CallTypeOK' /\ CallPlan' /\ Passed'
  BY <1>1, <1>2, <1>3, SMTT(30) DEF Book, CallTypeOK, CallPlan, Passed, Admitting
<1>6. Backed'
  <2>. SUFFICES ASSUME NEW p \in active \ unresolved, ~Releasing(p)
                PROVE  RankJobs(p) \subseteq Dispatched \ {Rank}
    BY <1>4, Zenon DEF Backed
  <2>1. RankJobs(p) \subseteq Dispatched
    BY DEF Book, Backed
  <2>2. p # call.plan
    BY Zenon DEF Book, CallPlan, Releasing
  <2>3. Rank \in RankJobs(call.plan)
    BY <1>1, Zenon
  <2>. QED  BY <1>1, <2>1, <2>2, <2>3, RankAssumption, Zenon
<1>7. Accounted'
  <2>. SUFFICES ASSUME restarts = 0, NEW j \in Dispatched'
                PROVE  \/ \E q \in active : j \in RankJobs(q) /\ Kept(q)'
                       \/ \E i \in 1..Reach' : Plan[i] = j
                       \/ j \in leaked'
    BY <1>2, <1>3, <1>4, Zenon DEF Accounted
  <2>1. \A i \in 1..Reach : i \in 1..Reach' \/ i = call.at
    BY <1>1, SMTT(30) DEF Reach
  <2>2. CASE j = Rank /\ call.phase = "release"
    <3>1. call.plan \in active /\ Kept(call.plan)' /\ j \in RankJobs(call.plan)
      BY <1>1, <2>2, Zenon DEF Book, CallPlan, Kept
    <3>. QED  BY <3>1, Zenon
  <2>3. CASE j = Rank /\ call.phase # "release"
    BY <2>3, Zenon
  <2>4. CASE j # Rank
    BY <1>1, <1>4, <2>1, <2>4, Zenon DEF Book, Accounted
  <2>. QED  BY <2>2, <2>3, <2>4, Zenon
<1>. QED  BY <1>5, <1>6, <1>7, Zenon DEF Book

\* release_capacity was called for the first rank: the call ends, and with it the
\* receipt, unless a release raised.
LEMMA BookEnds ==
    ASSUME Book, call # Idle, call.phase \in {"cleanup", "release"},
           Dispatched' \subseteq Dispatched, Dispatched \ {Rank} \subseteq Dispatched',
           leaked' \subseteq Job, leaked \ {Rank} \subseteq leaked',
           Rank \in Dispatched' =>
               IF call.phase = "release" THEN call.plan \in active' ELSE Rank \in leaked',
           call.phase = "release" /\ call.failed => call.plan \in active',
           active' \subseteq active, unresolved' \subseteq active',
           \A p \in active : p # call.plan => p \in active',
           \A p \in active' \ unresolved' : p \notin unresolved /\ p # call.plan,
           UNCHANGED restarts, call.at = 1, call' = Idle
    PROVE  Book'
<1>1. /\ Rank = Plan[call.at] /\ call.plan \in Deployment /\ active \subseteq Deployment
      /\ Rank \in RankJobs(call.plan)
  BY CallAt, Zenon DEF Book, CallTypeOK
<1>2. \A p : ~Releasing(p)' /\ Kept(p)'
  BY Zenon DEF Releasing, Kept
<1>3. CallTypeOK' /\ CallPlan' /\ Passed'
  BY <1>1, Zenon DEF Book, CallTypeOK, CallPlan, Passed, Admitting
<1>4. Backed'
  <2>. SUFFICES ASSUME NEW p \in active' \ unresolved'
                PROVE  RankJobs(p) \subseteq Dispatched \ {Rank}
    BY Zenon DEF Backed
  <2>1. p \in active \ unresolved /\ p # call.plan
    BY Zenon
  <2>2. RankJobs(p) \subseteq Dispatched
    BY <2>1, Zenon DEF Book, Backed, Releasing
  <2>. QED  BY <1>1, <2>1, <2>2, RankAssumption, Zenon
<1>5. Accounted'
  <2>. SUFFICES ASSUME restarts = 0, NEW j \in Dispatched'
                PROVE  (\E q \in active' : j \in RankJobs(q)) \/ j \in leaked'
    BY <1>2, Zenon DEF Accounted
  <2>1. \A i \in 1..Reach : i = call.at
    BY DEF Reach
  <2>2. CASE j = Rank
    BY <1>1, <2>2, Zenon
  <2>3. CASE j # Rank
    <3>1. (\E q \in active : j \in RankJobs(q) /\ Kept(q)) \/ j \in leaked
      BY <1>1, <2>1, <2>3, Zenon DEF Book, Accounted
    <3>2. \A q \in active : Kept(q) => q \in active' \/ call.phase = "cleanup"
      BY Zenon DEF Kept, Releasing
    <3>3. call.phase = "cleanup" => call.plan \notin active
      BY Zenon DEF Book, CallPlan
    <3>. QED  BY <2>3, <3>1, <3>2, <3>3, Zenon
  <2>. QED  BY <2>2, <2>3, Zenon
<1>. QED  BY <1>3, <1>4, <1>5, Zenon DEF Book

\* A lease that ages out was not dispatched, and is not then.
LEMMA AgedDispatched ==
    ASSUME TypeOK, NEW n, NEW E \in ExpiredPages(n), NEW k \in Job
    PROVE  Aged(E)[k].state = "dispatched" <=> reservation[k].state = "dispatched"
<1>1. CASE k \in E
  <2>1. reservation[k].state = "reserved"
    BY <1>1, SMTT(30) DEF ExpiredPages, Expired
  <2>2. reservation[k] \in Row
    BY <2>1, RowPresent, Zenon
  <2>3. Aged(E)[k] = [reservation[k] EXCEPT !.state = "released", !.reason = "expired"]
    BY <1>1, Zenon DEF Aged
  <2>4. Aged(E)[k].state = "released"
    BY <2>2, <2>3, Zenon DEF Row
  <2>. QED  BY <2>1, <2>4, Zenon
<1>2. CASE k \notin E
  <2>1. Aged(E)[k] = reservation[k]
    BY <1>2, Zenon DEF Aged
  <2>. QED  BY <2>1, Zenon
<1>. QED  BY <1>1, <1>2, Zenon

\* reconcile_capacity touches no dispatched capacity.
LEMMA ReconcileQuiet ==
    ASSUME TypeOK, ReconcileCapacity
    PROVE  Dispatched' = Dispatched
<1>1. PICK limit \in 1..Page : \E E \in ExpiredPages(limit) : reservation' = Aged(E)
  BY Zenon DEF ReconcileCapacity
<1>2. PICK E \in ExpiredPages(limit) : reservation' = Aged(E)
  BY <1>1, Zenon
<1>3. \A k \in Job : reservation'[k].state = "dispatched" <=> reservation[k].state = "dispatched"
  BY <1>2, AgedDispatched, Zenon
<1>. QED  BY <1>3 DEF Dispatched

\* Nor does reserve_capacity, which leaves the caller with a token.
LEMMA ReserveQuiet ==
    ASSUME StoreInv, NEW b \in Budget, NEW j \in Job, NEW d \in Request, NEW m \in Nat,
           Reserve(b, j, d, m), UNCHANGED <<jobs, launch, running, clock>>
    PROVE  StoreInv' /\ Dispatched' = Dispatched /\ reservation'[j].token \in Nat
<1>0. TypeOK
  BY Zenon DEF StoreInv, Tables
<1>1. StoreInv'
  BY ReserveKeeps, Zenon
<1>2. PICK E \in ExpiredPages(Page) :
              \/ /\ reservation' = Aged(E) /\ UNCHANGED <<budget, leases>>
                 /\ Returns(Aged(E), b, j, d, m)
              \/ Admits(Aged(E), b, j, d, m) /\ Grant(Aged(E), b, j, d, m)
  BY <1>0, ReserveCases, Zenon
<1>3. Aged(E) = [k \in Job |-> Aged(E)[k]]
  BY Zenon DEF Aged
<1>4. reservation'[j].state = "reserved"
  <2>1. CASE reservation' = Aged(E) /\ Returns(Aged(E), b, j, d, m)
    BY <2>1, Zenon DEF Returns
  <2>2. CASE Grant(Aged(E), b, j, d, m)
    BY <1>3, <2>2, Zenon DEF Grant
  <2>. QED  BY <1>2, <2>1, <2>2, SMTT(30)
<1>5. reservation'[j].token \in Nat
  <2>1. reservation'[j] \in Row
    BY <1>1, <1>4, SMTT(30) DEF StoreInv, Tables, TypeOK, NoRow
  <2>. QED  BY <2>1, Zenon DEF Row
<1>6. \A k \in Job : k # j => reservation'[k] = Aged(E)[k]
  BY <1>2, <1>3, Zenon DEF Grant
<1>7. reservation[j].state # "dispatched"
  BY <1>0, <1>4, ReserveSpares, SMTT(30)
<1>8. \A k \in Job : reservation'[k].state = "dispatched" <=> reservation[k].state = "dispatched"
  BY <1>0, <1>4, <1>6, <1>7, AgedDispatched, Zenon
<1>. QED  BY <1>1, <1>5, <1>8 DEF Dispatched

\* dispatch_capacity adds a job to the dispatched ones.
LEMMA DispatchAdds ==
    ASSUME StoreInv, NEW j \in Job, reservation[j].state = "reserved", reservation[j].expires > clock,
           reservation' = DispatchedRow(j), running' \subseteq Job,
           UNCHANGED <<budget, jobs, leases, launch, clock>>
    PROVE  StoreInv' /\ Dispatched' = Dispatched \cup {j}
<1>0. TypeOK
  BY Zenon DEF StoreInv, Tables
<1>1. /\ RowSteps(reservation') /\ reservation'[j].state = "dispatched"
      /\ \A k \in Job : k # j => reservation'[k] = reservation[k]
  BY <1>0, DispatchedSteps, Zenon
<1>2. started' \subseteq leases /\ polled' \subseteq leases
  BY <1>0, SMTT(30) DEF TypeOK, launch
<1>3. StoreInv'
  BY <1>1, <1>2, TableKeeps, Zenon
<1>. QED  BY <1>1, <1>3, SMTT(30) DEF Dispatched

\* release_capacity takes it out.
LEMMA ReleaseTakes ==
    ASSUME StoreInv, NEW j \in Job, reservation' = ReleasedRow(j),
           UNCHANGED <<budget, jobs, leases, launch, running, clock>>
    PROVE  StoreInv' /\ Dispatched' = Dispatched \ {j}
<1>0. TypeOK
  BY SMTT(30) DEF StoreInv, Tables
<1>1. /\ RowSteps(reservation') /\ reservation'[j].state # "dispatched"
      /\ \A k \in Job : k # j => reservation'[k] = reservation[k]
  BY <1>0, ReleasedSteps, Zenon
<1>2. started' \subseteq leases /\ polled' \subseteq leases /\ running' \subseteq Job
  BY <1>0, Zenon DEF TypeOK, launch
<1>3. StoreInv'
  BY <1>1, <1>2, TableKeeps, SMTT(30)
<1>. QED  BY <1>1, <1>3 DEF Dispatched

\* A step that leaves the database alone.
LEMMA DatabaseSame ==
    ASSUME StoreInv, UNCHANGED vars
    PROVE  StoreInv' /\ Dispatched' = Dispatched
<1>1. UNCHANGED <<reservation, budget, leases, clock, jobs, started, polled, running>>
  BY Zenon DEF vars
<1>2. StoreInv'
  BY <1>1, OutsideKeeps, Zenon DEF StoreInv, Tables, TypeOK
<1>. QED  BY <1>1, <1>2, Zenon DEF Dispatched

\* A call in progress is in one of its phases.
LEMMA CallThere ==
    ASSUME call.phase \in {"reserve", "dispatch", "cleanup", "release"}
    PROVE  call # Idle
BY DEF Idle

\* release_capacity for one rank, whether or not it raised.
LEMMA ReleaseCalled ==
    ASSUME StoreInv, Rank \in Job, NEW raised, ReleaseCall(raised),
           UNCHANGED <<budget, jobs, leases, launch, running, clock>>
    PROVE  /\ StoreInv'
           /\ Dispatched' \subseteq Dispatched /\ Dispatched \ {Rank} \subseteq Dispatched'
           /\ Rank \in Dispatched' => raised
<1>1. CASE reservation' = ReleasedRow(Rank)
  BY <1>1, ReleaseTakes, SMTT(30)
<1>2. CASE raised /\ UNCHANGED reservation
  BY <1>2, DatabaseSame, Zenon DEF vars, launch
<1>. QED  BY <1>1, <1>2, Zenon DEF ReleaseCall

\* admit, reserve_capacity returns: the rank has its lease.
LEMMA ReserveStep ==
    ASSUME AdmissionInv, AdmitReserve
    PROVE  AdmissionInv'
<1>0. StoreInv /\ Book /\ CallTypeOK
  BY SMTT(30) DEF AdmissionInv, Book
<1>1. call.phase = "reserve" /\ UNCHANGED <<active, unresolved, leaked, restarts>>
  BY Zenon DEF AdmitReserve, index
<1>2. Admitting /\ call \in CallType /\ Rank \in Job /\ call.plan \in Deployment
  BY <1>0, <1>1, CallThere, CallAt, SMTT(30) DEF Admitting
<1>3. /\ PlanBudget[call.plan] \in Budget /\ PlanDemand[call.plan] \in Nat
      /\ RankRequest \in Request
  BY <1>2, PlanAssumption, RankAssumption DEF RankRequest
<1>4. /\ Reserve(PlanBudget[call.plan], Rank, RankRequest, PlanDemand[call.plan])
      /\ UNCHANGED <<jobs, launch, running, clock>>
  BY SMTT(30) DEF AdmitReserve
<1>5. StoreInv' /\ Dispatched' = Dispatched /\ reservation'[Rank].token \in Nat
  BY <1>0, <1>2, <1>3, <1>4, ReserveQuiet, SMTT(30)
<1>6. call' = [call EXCEPT !.phase = "dispatch", !.token = reservation'[Rank].token]
  BY Zenon DEF AdmitReserve
<1>7. /\ call' \in CallType /\ call'.plan = call.plan /\ call'.at = call.at
      /\ call'.phase = "dispatch"
  BY <1>2, <1>5, <1>6, Zenon DEF CallType
<1>8. Book'
  BY <1>0, <1>1, <1>2, <1>5, <1>7, BookTurns, SMTT(30)
<1>. QED  BY <1>5, <1>8, Zenon DEF AdmissionInv

\* admit, an exception: the call turns to the cleanup.
LEMMA RaisesStep ==
    ASSUME AdmissionInv, AdmitRaises
    PROVE  AdmissionInv'
<1>0. StoreInv /\ Book /\ CallTypeOK
  BY SMTT(30) DEF AdmissionInv, Book
<1>1. /\ call.phase \in {"reserve", "dispatch"} /\ call' = [call EXCEPT !.phase = "cleanup"]
      /\ UNCHANGED <<active, unresolved, leaked, restarts>>
  BY Zenon DEF AdmitRaises, index
<1>2. Admitting /\ call \in CallType
  BY <1>0, <1>1, CallThere, CallAt, SMTT(30) DEF Admitting
<1>3. StoreInv' /\ Dispatched' = Dispatched
  BY <1>0, DatabaseSame, Zenon DEF AdmitRaises
<1>4. /\ call' \in CallType /\ call'.plan = call.plan /\ call'.at = call.at
      /\ call'.phase = "cleanup"
  BY <1>1, <1>2, Zenon DEF CallType
<1>5. Book'
  BY <1>0, <1>1, <1>2, <1>3, <1>4, BookTurns, SMTT(30)
<1>. QED  BY <1>3, <1>5, Zenon DEF AdmissionInv

\* admit, dispatch_capacity returns: the next rank, or the receipt.
LEMMA DispatchStep ==
    ASSUME AdmissionInv, AdmitDispatch
    PROVE  AdmissionInv'
<1>0. StoreInv /\ Book /\ CallTypeOK
  BY DEF AdmissionInv, Book
<1>1. call.phase = "dispatch" /\ leaked' = leaked \ {Rank} /\ UNCHANGED <<unresolved, restarts>>
  BY Zenon DEF AdmitDispatch
<1>2. /\ Admitting /\ call \in CallType /\ Rank \in Job /\ call.plan \in Deployment
      /\ call.at \in Nat
  BY <1>0, <1>1, CallThere, CallAt, SMTT(30) DEF Admitting
<1>3. /\ reservation[Rank].state = "reserved" /\ reservation[Rank].expires > clock
      /\ reservation' = DispatchedRow(Rank) /\ UNCHANGED <<budget, jobs, leases, launch, clock>>
  BY Zenon DEF AdmitDispatch, Dispatchable
<1>4. running' \subseteq Job
  <2>1. running \subseteq Job /\ RankJobs(call.plan) \subseteq Job
    BY <1>0, <1>2, RanksAreJobs, Zenon DEF StoreInv, Tables, TypeOK
  <2>2. running' = running \/ running' = running \cup RankJobs(call.plan)
    BY Zenon DEF AdmitDispatch
  <2>. QED  BY <2>1, <2>2, Zenon
<1>5. StoreInv' /\ Dispatched' = Dispatched \cup {Rank}
  BY <1>0, <1>2, <1>3, <1>4, DispatchAdds, Zenon
<1>6. CASE call.at < Len(Plan)
  <2>. DEFINE next == call.at + 1
  <2>1. call' = [call EXCEPT !.phase = "reserve", !.at = next] /\ UNCHANGED active
    BY <1>2, <1>6 DEF AdmitDispatch, Plan, CallType
  <2>2. next \in Nat /\ next = call.at + 1
    BY <1>2, SMTT(30)
  <2>. HIDE DEF next
  <2>3. /\ call' \in CallType /\ call'.plan = call.plan /\ call'.at = next
        /\ call'.phase = "reserve"
    BY <1>2, <2>1, <2>2, Zenon DEF CallType
  <2>4. Book'
    BY <1>0, <1>1, <1>2, <1>5, <1>6, <2>1, <2>2, <2>3, BookDispatches, Zenon
  <2>. QED  BY <1>5, <2>4 DEF AdmissionInv
<1>7. CASE ~(call.at < Len(Plan))
  <2>1. call' = Idle /\ active' = active \cup {call.plan}
    BY <1>7 DEF AdmitDispatch, Plan
  <2>2. Book'
    BY <1>0, <1>1, <1>2, <1>5, <1>7, <2>1, BookAdmits
  <2>. QED  BY <1>5, <2>2, SMTT(30) DEF AdmissionInv
<1>. QED  BY <1>6, <1>7, Zenon

\* release_capacity for one rank in the except branch of admit.
LEMMA CleanupStep ==
    ASSUME AdmissionInv, NEW raised \in BOOLEAN, AdmitCleanup(raised)
    PROVE  AdmissionInv'
<1>0. StoreInv /\ Book /\ CallTypeOK
  BY SMTT(30) DEF AdmissionInv, Book
<1>1. /\ call.phase = "cleanup" /\ ReleaseCall(raised)
      /\ UNCHANGED <<budget, jobs, leases, launch, running, clock, active, unresolved, restarts>>
      /\ leaked' = IF raised THEN leaked \cup {Rank} ELSE leaked \ {Rank}
  BY Zenon DEF AdmitCleanup
<1>2. /\ call # Idle /\ call \in CallType /\ Rank \in Job /\ call.at \in 1..Len(Plan)
      /\ Len(Plan) \in Nat
  BY <1>0, <1>1, CallThere, CallAt
<1>3. /\ StoreInv' /\ Dispatched' \subseteq Dispatched /\ Dispatched \ {Rank} \subseteq Dispatched'
      /\ Rank \in Dispatched' => raised
  BY <1>0, <1>1, <1>2, ReleaseCalled, Zenon
<1>4. /\ leaked' \subseteq Job /\ leaked \ {Rank} \subseteq leaked'
      /\ Rank \in Dispatched' => Rank \in leaked'
  BY <1>0, <1>1, <1>2, <1>3, SMTT(30) DEF CallTypeOK
<1>5. CASE call.at = 1
  <2>1. call' = Idle
    BY <1>5, Zenon DEF AdmitCleanup
  <2>2. call.plan \notin active /\ unresolved \subseteq active
    BY <1>0, <1>1, <1>2, SMTT(30) DEF Book, CallPlan, CallTypeOK
  <2>3. Book'
    BY <1>0, <1>1, <1>2, <1>3, <1>4, <1>5, <2>1, <2>2, BookEnds, SMTT(30)
  <2>. QED  BY <1>3, <2>3, Zenon DEF AdmissionInv
<1>6. CASE call.at # 1
  <2>1. call' = [call EXCEPT !.at = @ - 1]
    BY <1>6, Zenon DEF AdmitCleanup
  <2>2. /\ call' \in CallType /\ call'.plan = call.plan /\ call'.at = call.at - 1
        /\ call'.phase = call.phase /\ call'.failed = call.failed
    BY <1>2, <1>6, <2>1 DEF CallType
  <2>3. Book'
    BY <1>0, <1>1, <1>2, <1>3, <1>4, <1>6, <2>2, BookReleases, SMTT(30)
  <2>. QED  BY <1>3, <2>3, Zenon DEF AdmissionInv
<1>. QED  BY <1>5, <1>6, Zenon

\* release_capacity for one rank of a receipt.
LEMMA ReleaseStep ==
    ASSUME AdmissionInv, NEW raised \in BOOLEAN, ReleaseRank(raised)
    PROVE  AdmissionInv'
<1>0. StoreInv /\ Book /\ CallTypeOK
  BY SMTT(30) DEF AdmissionInv, Book
<1>1. /\ call.phase = "release" /\ ReleaseCall(raised)
      /\ UNCHANGED <<budget, jobs, leases, launch, running, clock, leaked, restarts>>
  BY Zenon DEF ReleaseRank
<1>2. /\ call # Idle /\ call \in CallType /\ Rank \in Job /\ call.at \in 1..Len(Plan)
      /\ Len(Plan) \in Nat /\ call.failed \in BOOLEAN
  BY <1>0, <1>1, CallThere, CallAt DEF CallType
<1>3. /\ StoreInv' /\ Dispatched' \subseteq Dispatched /\ Dispatched \ {Rank} \subseteq Dispatched'
      /\ Rank \in Dispatched' => raised
  BY <1>0, <1>1, <1>2, ReleaseCalled, Zenon
<1>4. /\ leaked' \subseteq Job /\ leaked \ {Rank} \subseteq leaked'
      /\ call.plan \in active /\ unresolved \subseteq active
  BY <1>0, <1>1, <1>2, SMTT(30) DEF Book, CallTypeOK, CallPlan
<1>5. CASE call.at = 1
  <2>1. /\ call' = Idle
        /\ \/ /\ call.failed \/ raised
              /\ active' = active /\ unresolved' = unresolved \cup {call.plan}
           \/ /\ ~call.failed /\ ~raised
              /\ active' = active \ {call.plan} /\ unresolved' = unresolved \ {call.plan}
    BY <1>2, <1>5, SMTT(30) DEF ReleaseRank
  <2>2. /\ active' \subseteq active /\ unresolved' \subseteq active'
        /\ \A p \in active : p # call.plan => p \in active'
        /\ \A p \in active' \ unresolved' : p \notin unresolved /\ p # call.plan
        /\ (call.failed \/ raised) => call.plan \in active'
    BY <1>4, <2>1, SMTT(30)
  <2>3. Book'
    BY <1>0, <1>1, <1>2, <1>3, <1>4, <1>5, <2>1, <2>2, BookEnds, SMTT(30)
  <2>. QED  BY <1>3, <2>3, Zenon DEF AdmissionInv
<1>6. CASE call.at # 1
  <2>1. /\ call' = [call EXCEPT !.at = @ - 1, !.failed = @ \/ raised]
        /\ UNCHANGED <<active, unresolved>>
    BY <1>6, Zenon DEF ReleaseRank
  <2>2. call.at - 1 \in Nat /\ (call.failed \/ raised) \in BOOLEAN
    BY <1>2, <1>6, SMTT(30)
  <2>3. /\ call' \in CallType /\ call'.plan = call.plan /\ call'.at = call.at - 1
        /\ call'.phase = call.phase /\ call'.failed = (call.failed \/ raised)
    BY <1>2, <2>1, <2>2, Zenon DEF CallType
  <2>4. Book'
    BY <1>0, <1>1, <1>2, <1>3, <1>4, <1>6, <2>1, <2>3, BookReleases, SMTT(30)
  <2>. QED  BY <1>3, <2>4, Zenon DEF AdmissionInv
<1>. QED  BY <1>5, <1>6, Zenon

\* The service's process is replaced: its index is empty again.
LEMMA RestartStep ==
    ASSUME AdmissionInv, Restart
    PROVE  AdmissionInv'
<1>1. StoreInv'
  BY DatabaseSame, Zenon DEF AdmissionInv, Restart
<1>2. /\ call' = Idle /\ active' = {} /\ unresolved' = {} /\ leaked' = {}
      /\ restarts' \in 0..MaxRestarts /\ restarts' # 0
  BY PlanAssumption DEF AdmissionInv, Book, CallTypeOK, Restart
<1>3. Book'
  BY <1>2, Zenon DEF Book, CallTypeOK, CallPlan, Passed, Admitting, Backed, Accounted
<1>. QED  BY <1>1, <1>3, Zenon DEF AdmissionInv

\* Every step of the service, and of what goes on around it, keeps the invariant.
LEMMA AdmissionInductive == AdmissionInv /\ [AdmissionNext]_allVars => AdmissionInv'
<1>. SUFFICES ASSUME AdmissionInv, [AdmissionNext]_allVars PROVE AdmissionInv'
  BY Zenon
<1>0. StoreInv /\ Book /\ TypeOK
  BY Zenon DEF AdmissionInv, StoreInv, Tables
<1>1. ASSUME NEW p \in Deployment, AdmitBegin(p) PROVE AdmissionInv'
  <2>1. /\ StoreInv' /\ Dispatched' = Dispatched /\ p \notin active
        /\ UNCHANGED <<active, unresolved, leaked, restarts>>
    BY <1>0, <1>1, DatabaseSame, SMTT(30) DEF AdmitBegin, index
  <2>2. call = Idle /\ call' = NewCall("reserve", p, 1)
    BY <1>1, Zenon DEF AdmitBegin
  <2>3. Book'
    BY <1>0, <2>1, <2>2, BookBegins, Zenon
  <2>. QED  BY <2>1, <2>3 DEF AdmissionInv
<1>2. ASSUME NEW p \in Deployment, ReleaseBegin(p) PROVE AdmissionInv'
  <2>1. /\ StoreInv' /\ Dispatched' = Dispatched /\ p \in active
        /\ UNCHANGED <<active, unresolved, leaked, restarts>>
    BY <1>0, <1>2, DatabaseSame DEF ReleaseBegin, index
  <2>2. call = Idle /\ call' = NewCall("release", p, Len(Ranks[p]))
    BY <1>2, Zenon DEF ReleaseBegin
  <2>3. Book'
    BY <1>0, <2>1, <2>2, BookBegins, Zenon
  <2>. QED  BY <2>1, <2>3, SMTT(30) DEF AdmissionInv
<1>3. ASSUME StoreInv', Dispatched' = Dispatched, UNCHANGED admission PROVE AdmissionInv'
  BY <1>0, <1>3, BookSame, Zenon DEF AdmissionInv
<1>8. ASSUME NEW p \in Deployment, AdmitRepeated(p) PROVE AdmissionInv'
  <2>1. /\ UNCHANGED <<reservation, budget, leases, clock, jobs, launch, admission>>
        /\ running' = running \cup RankJobs(p)
    BY <1>8, Zenon DEF AdmitRepeated
  <2>2. running' \subseteq Job
    BY <1>0, <2>1, RanksAreJobs, SMTT(30) DEF TypeOK
  <2>3. StoreInv'
    BY <1>0, <2>1, <2>2, OutsideKeeps, SMTT(30) DEF TypeOK, launch
  <2>. QED  BY <1>3, <2>1, <2>3, Zenon DEF Dispatched
<1>4. ASSUME ReconcileCapacity, UNCHANGED admission PROVE AdmissionInv'
  <2>1. RowSteps(reservation') /\ UNCHANGED <<budget, jobs, leases, launch, running, clock>>
    BY <1>4, ReconcileSteps, SMTT(30)
  <2>2. started' \subseteq leases /\ polled' \subseteq leases /\ running' \subseteq Job
    BY <1>0, <2>1, SMTT(30) DEF TypeOK, launch
  <2>3. StoreInv'
    BY <1>0, <2>1, <2>2, TableKeeps
  <2>. QED  BY <1>0, <1>3, <1>4, <2>3, ReconcileQuiet, SMTT(30)
<1>5. ASSUME NEW j \in Job, ProcessGone(j), UNCHANGED admission PROVE AdmissionInv'
  <2>1. UNCHANGED <<reservation, budget, leases, clock, jobs, launch>> /\ running' \subseteq Job
    BY <1>0, <1>5 DEF ProcessGone, TypeOK
  <2>2. StoreInv'
    BY <1>0, <2>1, OutsideKeeps, SMTT(30) DEF TypeOK, launch
  <2>. QED  BY <1>3, <1>5, <2>1, <2>2, SMTT(30) DEF Dispatched
<1>6. ASSUME Tick, UNCHANGED admission PROVE AdmissionInv'
  BY <1>0, <1>3, <1>6, TickKeeps, SMTT(30) DEF Tick, Dispatched
<1>7. CASE UNCHANGED allVars
  BY <1>0, <1>3, <1>7, DatabaseSame, SMTT(30) DEF allVars
<1>. QED
  BY <1>1, <1>2, <1>4, <1>5, <1>6, <1>7, <1>8, ReserveStep, RaisesStep, DispatchStep,
     CleanupStep, ReleaseStep, RestartStep, ZenonT(40) DEF AdmissionNext

\* The service starts with an empty database and an empty index.
LEMMA AdmissionInitial == AdmissionInit => AdmissionInv
<1>. SUFFICES ASSUME AdmissionInit PROVE AdmissionInv
  OBVIOUS
<1>1. StoreInv
  BY EmptyKeeps, Zenon DEF AdmissionInit
<1>2. Dispatched = {}
  BY Zenon DEF AdmissionInit, Unmigrated, Dispatched, NoRow
<1>3. call = Idle /\ active = {} /\ unresolved = {} /\ leaked = {} /\ restarts \in 0..MaxRestarts
  BY PlanAssumption, SMTT(30) DEF AdmissionInit
<1>4. Book
  BY <1>2, <1>3, Zenon DEF Book, CallTypeOK, CallPlan, Passed, Admitting, Backed, Accounted
<1>. QED  BY <1>1, <1>4 DEF AdmissionInv

\* The database, the index and the call in progress keep their types.
THEOREM AdmissionTypeCorrect == AdmissionSpec => []AdmissionTypeOK
<1>1. AdmissionInv => AdmissionTypeOK
  BY DEF AdmissionInv, StoreInv, Tables, Book, CallTypeOK, AdmissionTypeOK
<1>. QED  BY <1>1, AdmissionInitial, AdmissionInductive, PTL DEF AdmissionSpec

\* Deployments stay within the memory of the machine they are admitted to.
THEOREM DeploymentsFit == AdmissionSpec => []MemoryWithinBudget
<1>1. AdmissionInv => MemoryWithinBudget
  BY Zenon DEF AdmissionInv, StoreInv
<1>. QED  BY <1>1, AdmissionInitial, AdmissionInductive, PTL DEF AdmissionSpec

\* Every rank of a live receipt holds dispatched capacity until the receipt's own
\* release is tried: no failed admission, no failing cleanup of another plan and
\* no reconciliation takes it away.
THEOREM ReceiptsAreBacked == AdmissionSpec => []ReceiptBacked
<1>1. ASSUME AdmissionInv PROVE ReceiptBacked
  <2>1. \A p \in active \ unresolved : Releasing(p) \/ RankJobs(p) \subseteq Dispatched
    BY <1>1, Zenon DEF AdmissionInv, Book, Backed
  <2>2. \A j \in Dispatched : reservation[j].state = "dispatched"
    BY SMTT(30) DEF Dispatched
  <2>. QED  BY <2>1, <2>2, Zenon DEF ReceiptBacked, Releasing
<1>. QED  BY <1>1, AdmissionInitial, AdmissionInductive, PTL DEF AdmissionSpec

\* While the service's process lives, a failed admission or a release leaves no
\* rank dispatched that nobody could release, but for those whose own cleanup
\* raised.
THEOREM NothingIsStranded == AdmissionSpec => []NothingStranded
<1>1. ASSUME AdmissionInv PROVE NothingStranded
  <2>. SUFFICES ASSUME restarts = 0, NEW j \in Job, reservation[j].state = "dispatched"
                PROVE  \/ \E p \in active : j \in RankJobs(p)
                       \/ call # Idle /\ j \in RankJobs(call.plan)
                       \/ j \in leaked
    BY Zenon DEF NothingStranded
  <2>1. j \in Dispatched
    BY Zenon DEF Dispatched
  <2>2. \/ \E p \in active : j \in RankJobs(p)
        \/ call # Idle /\ \E i \in 1..Reach : Plan[i] = j
        \/ j \in leaked
    BY <1>1, <2>1, Zenon DEF AdmissionInv, Book, Accounted
  <2>3. ASSUME call # Idle, NEW i \in 1..Reach, Plan[i] = j
        PROVE  j \in RankJobs(call.plan)
    <3>1. /\ call.at \in 1..Len(Plan) /\ Len(Plan) \in Nat
          /\ RankJobs(call.plan) = {Plan[k] : k \in 1..Len(Plan)}
      BY <1>1, <2>3, CallAt, SMTT(30) DEF AdmissionInv, Book
    <3>2. i \in 1..Len(Plan)
      BY <3>1, SMTT(30) DEF Reach
    <3>. QED  BY <2>3, <3>1, <3>2, SMTT(30)
  <2>. QED  BY <2>2, <2>3
<1>. QED  BY <1>1, AdmissionInitial, AdmissionInductive, PTL DEF AdmissionSpec

-----------------------------------------------------------------------------
(***************************************************************************)
(* Running ranks.  A receipt under release has no rank that runs, and as   *)
(* long as the service has not restarted every rank that runs has its      *)
(* receipt in the index.                                                   *)
(***************************************************************************)

ReleasedStopped == \A p \in active : Releasing(p) => RankJobs(p) \cap running = {}

RunningKnown == restarts = 0 => \A j \in running : \E p \in active : j \in RankJobs(p)

Ran == ReleasedStopped /\ RunningKnown

\* A step that takes no receipt, starts no rank and begins no release.
LEMMA RanSame ==
    ASSUME Ran, running' \subseteq running, active' = active, restarts' = restarts,
           \A p \in active : Releasing(p)' => Releasing(p)
    PROVE  Ran'
<1>1. ReleasedStopped'
  BY Zenon DEF Ran, ReleasedStopped
<1>2. RunningKnown'
  BY Zenon DEF Ran, RunningKnown
<1>. QED  BY <1>1, <1>2, Zenon DEF Ran

\* Every step of the service keeps it.
LEMMA RanInductive == AdmissionInv /\ Ran /\ [AdmissionNext]_allVars => Ran'
<1>. SUFFICES ASSUME AdmissionInv, Ran, [AdmissionNext]_allVars PROVE Ran'
  BY Zenon
<1>0. CallTypeOK /\ CallPlan
  BY Zenon DEF AdmissionInv, Book
<1>1. ASSUME NEW p \in Deployment, AdmitBegin(p) PROVE Ran'
  <2>1. call'.phase = "reserve" /\ running' = running /\ UNCHANGED <<active, restarts>>
    BY <1>1, Zenon DEF AdmitBegin, NewCall, vars, index
  <2>. QED  BY <2>1, RanSame, Zenon DEF Releasing
<1>2. ASSUME NEW p \in Deployment, ReleaseBegin(p) PROVE Ran'
  <2>1. /\ call'.plan = p /\ running' = running /\ UNCHANGED <<active, restarts>>
        /\ RankJobs(p) \cap running = {}
    BY <1>2 DEF ReleaseBegin, NewCall, vars, index
  <2>2. ReleasedStopped'
    BY <2>1, Zenon DEF ReleasedStopped, Releasing
  <2>. QED  BY <2>1, <2>2 DEF Ran, RunningKnown
<1>3. CASE AdmitReserve
  <2>1. call.phase = "reserve" /\ running' = running /\ UNCHANGED <<active, restarts>>
    BY <1>3 DEF AdmitReserve, index
  <2>2. call' = [call EXCEPT !.phase = "dispatch", !.token = reservation'[Rank].token]
    BY <1>3, Zenon DEF AdmitReserve
  <2>3. call \in CallType
    BY <1>0, <2>1, CallThere, CallAt
  <2>4. call'.phase = "dispatch"
    BY <2>2, <2>3, Zenon DEF CallType
  <2>. QED  BY <2>1, <2>4, RanSame DEF Releasing
<1>4. CASE AdmitRaises
  <2>1. /\ call.phase \in {"reserve", "dispatch"} /\ running' = running
        /\ UNCHANGED <<active, restarts>> /\ call' = [call EXCEPT !.phase = "cleanup"]
    BY <1>4, Zenon DEF AdmitRaises, vars, index
  <2>2. call \in CallType
    BY <1>0, <2>1, CallThere, CallAt
  <2>3. call'.phase = "cleanup"
    BY <2>1, <2>2, Zenon DEF CallType
  <2>. QED  BY <2>1, <2>3, RanSame, SMTT(30) DEF Releasing
<1>5. CASE AdmitDispatch
  <2>1. call.phase = "dispatch" /\ restarts' = restarts
    BY <1>5, Zenon DEF AdmitDispatch
  <2>2. call # Idle /\ call \in CallType
    BY <1>0, <2>1, CallThere, CallAt, SMTT(30)
  <2>3. CASE call.at < Len(Ranks[call.plan])
    <3>1. /\ call' = [call EXCEPT !.phase = "reserve", !.at = @ + 1]
          /\ running' = running /\ active' = active
      BY <1>5, <2>3, SMTT(30) DEF AdmitDispatch
    <3>2. call'.phase = "reserve"
      BY <2>2, <3>1, Zenon DEF CallType
    <3>. QED  BY <2>1, <3>1, <3>2, RanSame, SMTT(30) DEF Releasing
  <2>4. CASE ~(call.at < Len(Ranks[call.plan]))
    <3>1. /\ call' = Idle /\ active' = active \cup {call.plan}
          /\ running' = running \cup RankJobs(call.plan)
      BY <1>5, <2>4, SMTT(30) DEF AdmitDispatch
    <3>2. ReleasedStopped'
      BY <3>1 DEF ReleasedStopped, Releasing
    <3>3. RunningKnown'
      BY <2>1, <3>1, SMTT(30) DEF Ran, RunningKnown
    <3>. QED  BY <3>2, <3>3 DEF Ran
  <2>. QED  BY <2>3, <2>4
<1>6. ASSUME NEW raised \in BOOLEAN, AdmitCleanup(raised) PROVE Ran'
  <2>1. /\ call.phase = "cleanup" /\ running' = running /\ UNCHANGED <<active, restarts>>
        /\ call' = Idle \/ call' = [call EXCEPT !.at = @ - 1]
    BY <1>6, Zenon DEF AdmitCleanup
  <2>2. call \in CallType
    BY <1>0, <2>1, CallThere, CallAt, SMTT(30)
  <2>3. call' = Idle \/ call'.phase = "cleanup"
    BY <2>1, <2>2, Zenon DEF CallType
  <2>. QED  BY <2>1, <2>3, RanSame, SMTT(30) DEF Releasing
<1>7. ASSUME NEW raised \in BOOLEAN, ReleaseRank(raised) PROVE Ran'
  <2>1. call.phase = "release" /\ running' = running /\ restarts' = restarts
    BY <1>7, Zenon DEF ReleaseRank
  <2>2. call # Idle /\ call \in CallType
    BY <1>0, <2>1, CallThere, CallAt, SMTT(30)
  <2>3. call.plan \in active /\ RankJobs(call.plan) \cap running = {}
    BY <1>0, <2>1, <2>2, SMTT(30) DEF CallPlan, Ran, ReleasedStopped, Releasing
  <2>4. CASE call' = Idle /\ active' \in {active, active \ {call.plan}}
    <3>1. ReleasedStopped'
      BY <2>4, Zenon DEF ReleasedStopped, Releasing
    <3>2. RunningKnown'
      BY <2>1, <2>3, <2>4, SMTT(30) DEF Ran, RunningKnown
    <3>. QED  BY <3>1, <3>2, SMTT(30) DEF Ran
  <2>5. CASE /\ call' = [call EXCEPT !.at = @ - 1, !.failed = @ \/ raised]
             /\ active' = active
    <3>1. call'.plan = call.plan
      BY <2>2, <2>5, Zenon DEF CallType
    <3>. QED  BY <2>1, <2>2, <2>5, <3>1, RanSame, SMTT(30) DEF Releasing
  <2>. QED  BY <1>7, <2>4, <2>5, Zenon DEF ReleaseRank
<1>8. CASE Restart
  <2>1. active' = {} /\ restarts' # 0
    BY <1>0, <1>8, SMTT(30) DEF Restart, CallTypeOK
  <2>. QED  BY <2>1 DEF Ran, ReleasedStopped, RunningKnown
<1>9. ASSUME running' \subseteq running, UNCHANGED admission PROVE Ran'
  <2>1. UNCHANGED <<active, call, restarts>>
    BY <1>9, Zenon DEF admission, index
  <2>. QED  BY <1>9, <2>1, RanSame, SMTT(30) DEF Releasing
<1>14. ASSUME NEW p \in Deployment, AdmitRepeated(p) PROVE Ran'
  <2>1. /\ p \in active /\ call' = Idle /\ running' = running \cup RankJobs(p)
        /\ UNCHANGED <<active, restarts>>
    BY <1>14, Zenon DEF AdmitRepeated, admission, index
  <2>2. ReleasedStopped'
    BY <2>1, Zenon DEF ReleasedStopped, Releasing
  <2>3. RunningKnown'
    BY <2>1, Zenon DEF Ran, RunningKnown
  <2>. QED  BY <2>2, <2>3, Zenon DEF Ran
<1>10. ASSUME NEW j \in Job, ProcessGone(j), UNCHANGED admission PROVE Ran'
  BY <1>9, <1>10, SMTT(30) DEF ProcessGone
<1>11. CASE ReconcileCapacity /\ UNCHANGED admission
  BY <1>9, <1>11, ReconcileSteps, SMTT(30)
<1>12. CASE Tick /\ UNCHANGED admission
  BY <1>9, <1>12, SMTT(30) DEF Tick
<1>13. CASE UNCHANGED allVars
  BY <1>9, <1>13 DEF allVars, vars
<1>. QED
  BY <1>1, <1>2, <1>3, <1>4, <1>5, <1>6, <1>7, <1>8, <1>10, <1>11, <1>12, <1>13, <1>14,
     ZenonT(40) DEF AdmissionNext

\* A rank that runs keeps its memory while the service has its receipt and has not
\* tried to release it, and until a restart the service has the receipt of every
\* rank that runs.
THEOREM RunningRanksAreBacked == AdmissionSpec => []RunningBacked
<1>1. AdmissionInit => Ran
  BY Zenon DEF AdmissionInit, Ran, ReleasedStopped, RunningKnown, Unmigrated
<1>2. ASSUME AdmissionInv, Ran PROVE RunningBacked
  <2>1. restarts \in Nat
    BY <1>2, PlanAssumption, SMTT(30) DEF AdmissionInv, Book, CallTypeOK
  <2>2. ASSUME NEW j \in running, NEW p \in active \ unresolved, j \in RankJobs(p)
        PROVE  reservation[j].state = "dispatched"
    <3>1. ~Releasing(p)
      BY <1>2, <2>2, Zenon DEF Ran, ReleasedStopped
    <3>2. RankJobs(p) \subseteq Dispatched
      BY <1>2, <3>1, Zenon DEF AdmissionInv, Book, Backed
    <3>. QED  BY <2>2, <3>2, Zenon DEF Dispatched
  <2>3. restarts = 0 => \A j \in running : \E p \in active : j \in RankJobs(p)
    BY <1>2 DEF Ran, RunningKnown
  <2>4. restarts = 0 \/ restarts > 0
    BY <2>1, SMTT(30)
  <2>. QED  BY <2>2, <2>3, <2>4, Zenon DEF RunningBacked
<1>. QED
  BY <1>1, <1>2, AdmissionInitial, AdmissionInductive, RanInductive, PTL DEF AdmissionSpec
=============================================================================
