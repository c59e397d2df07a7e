------------------------- MODULE FleetLedger_proofs -------------------------
(***************************************************************************)
(* Proofs that cancellation holds for the whole tree, that a late result   *)
(* is discarded, that a recorded retry is real and stays, and that         *)
(* steering reaches only active agents, for all rows, owners and messages. *)
(***************************************************************************)
EXTENDS FleetLedger, TLAPS

(* The three invariants rest on each other: a recorded retry stays done    *)
(* because a row with a result never has the cancellation flag.            *)
Inv == TypeOK /\ TreeCancelled /\ LateResultDiscarded /\ RetriedBacked

(* The columns of the rows that RetriedBacked reads are functions on Agent *)
(* with disjoint claims.                                                   *)
LEMMA ClaimsApart ==
  \A x \in Claim : x \notin Agent /\ x # NoAgent
BY ClaimAssumption

(* The initial state: no row exists. *)
LEMMA InitInv == Init => Inv
<1> SUFFICES ASSUME Init PROVE Inv
    OBVIOUS
<1>1. TypeOK
    BY DEF Init, TypeOK, Never
<1>2. TreeCancelled
    BY FleetAssumption DEF Init, TreeCancelled, Exists, Active, ActiveStatus
<1>3. LateResultDiscarded
    BY Zenon DEF Init, LateResultDiscarded
<1>4. RetriedBacked
    BY FleetAssumption, Zenon DEF Init, RetriedBacked
<1> QED BY <1>1, <1>2, <1>3, <1>4 DEF Inv

(* Every step keeps the types. *)
LEMMA TypeStep ==
  ASSUME TypeOK, [Next]_vars
  PROVE  TypeOK'
<1> USE FleetAssumption DEF TypeOK, rowVars, ownerVars, Never
<1>1. ASSUME NEW o \in Owner, RegisterOwner(o) PROVE TypeOK'
    BY <1>1, Zenon DEF RegisterOwner
<1>2. ASSUME NEW o \in Owner, HeartbeatOwner(o) PROVE TypeOK'
    BY <1>2 DEF HeartbeatOwner
<1>3. ASSUME NEW o \in Owner, CloseOwner(o) PROVE TypeOK'
    BY <1>3 DEF CloseOwner, Interrupt, Status, Retryable
<1>4. ASSUME NEW o \in Owner, ProcessDies(o) PROVE TypeOK'
    BY <1>4 DEF ProcessDies
<1>5. ASSUME NEW D \in SUBSET Owner, ReconcileStaleOwners(D) PROVE TypeOK'
    BY <1>5, Zenon DEF ReconcileStaleOwners, Interrupt, Status, Retryable
<1>6. ASSUME NEW a \in Agent, CreateAgent(a) PROVE TypeOK'
  <2>1. status' \in [Agent -> Status \cup {"absent"}]
      BY <1>6 DEF CreateAgent, Status, Retryable, ActiveStatus
  <2>2. cancel' \in [Agent -> BOOLEAN]
    <3> DEFINE born(p) == p # NoAgent /\ Stopped(p)
    <3>1. born(ParentOf[a]) \in BOOLEAN
        BY DEF Stopped
    <3>2. cancel' = [cancel EXCEPT ![a] = born(ParentOf[a])]
        BY <1>6, Zenon DEF CreateAgent
    <3> HIDE DEF born
    <3> QED BY <3>1, <3>2
  <2> QED BY <1>6, <2>1, <2>2 DEF CreateAgent
<1>7. ASSUME NEW a \in Agent, StartAgent(a) PROVE TypeOK'
    BY <1>7 DEF StartAgent, Status, ActiveStatus
<1>8. ASSUME NEW a \in Agent, NEW result \in Result, FinishAgent(a, result)
      PROVE  TypeOK'
  <2>1. status' \in [Agent -> Status \cup {"absent"}]
      BY <1>8, Zenon DEF FinishAgent, FinalStatus, Status, Retryable, Result
  <2>2. retriedBy' \in [Agent -> Agent \cup {NoAgent} \cup Claim]
      BY <1>8 DEF FinishAgent
  <2>3. message' \in [Message -> {"unsent", "queued", "delivered", "expired"}]
      BY <1>8, Zenon DEF FinishAgent
  <2> QED BY <1>8, <2>1, <2>2, <2>3 DEF FinishAgent
<1>9. ASSUME NEW r \in Agent, AcquireRetryLease(r) PROVE TypeOK'
  <2>1. [token |-> r, expires |-> clock + RetryLease] \in Claim
      BY DEF Claim
  <2>2. retriedBy' = [retriedBy EXCEPT ![RetryOf[r]] =
                        [token |-> r, expires |-> clock + RetryLease]]
      BY <1>9, Zenon DEF AcquireRetryLease
  <2>3. RetryOf[r] \in Agent
      BY <1>9 DEF AcquireRetryLease
  <2>4. retriedBy' \in [Agent -> Agent \cup {NoAgent} \cup Claim]
      BY <2>1, <2>2, <2>3
  <2> QED BY <1>9, <2>4 DEF AcquireRetryLease
<1>10. ASSUME NEW r \in Agent, ReleaseRetryLease(r) PROVE TypeOK'
    BY <1>10, Zenon DEF ReleaseRetryLease
<1>11. ASSUME NEW R \in SUBSET Agent, CancelAgents(R) PROVE TypeOK'
    BY <1>11, Zenon DEF CancelAgents, Status, Retryable
<1>12. ASSUME NEW late \in SUBSET Message, NEW m \in Message,
              QueueAgentMessage(m, late)
       PROVE  TypeOK'
    BY <1>12 DEF QueueAgentMessage
<1>13. ASSUME NEW late \in SUBSET Message, NEW a \in Agent,
              NEW due \in SUBSET Message, ClaimAgentMessages(a, late, due)
       PROVE  TypeOK'
    BY <1>13, Zenon DEF ClaimAgentMessages
<1>14. CASE Tick
    BY <1>14 DEF Tick
<1>15. CASE UNCHANGED vars
    BY <1>15 DEF vars
<1> QED BY <1>1, <1>2, <1>3, <1>4, <1>5, <1>6, <1>7, <1>8, <1>9, <1>10,
           <1>11, <1>12, <1>13, <1>14, <1>15, Zenon DEF Next

------------------------------------------------------------------------------
(* The four actions that write rows without the end of an agent, and the   *)
(* steps that leave status and cancel alone.                               *)

(* A step that leaves the rows alone keeps what is said of them. *)
LEMMA RowsSame ==
  ASSUME UNCHANGED rowVars
  PROVE  /\ TreeCancelled => TreeCancelled'
         /\ LateResultDiscarded => LateResultDiscarded'
         /\ RetriedBacked /\ retriedBy' = retriedBy => RetriedBacked'
<1> USE DEF rowVars
<1>1. TreeCancelled => TreeCancelled'
    BY DEF TreeCancelled, Exists, Stopped, Active
<1>2. LateResultDiscarded => LateResultDiscarded'
    BY DEF LateResultDiscarded
<1>3. RetriedBacked /\ retriedBy' = retriedBy => RetriedBacked'
    BY Zenon DEF RetriedBacked
<1> QED BY <1>1, <1>2, <1>3

(* close_owner and reconcile_stale_owners interrupt whole trees: a child   *)
(* has the owner of its parent.                                            *)
LEMMA InterruptInv ==
  ASSUME Inv, TypeOK', NEW O \in SUBSET Owner, Interrupt(O),
         retriedBy' = retriedBy
  PROVE  TreeCancelled' /\ LateResultDiscarded' /\ RetriedBacked'
<1> USE FleetAssumption DEF Inv, TypeOK
<1> DEFINE hit == {a \in ActiveRows : OwnerOf[a] \in O}
<1>1. \A a \in Agent :
        /\ a \in hit <=> Active(a) /\ OwnerOf[a] \in O
        /\ a \in hit => status'[a] = "interrupted" /\ cancel'[a]
        /\ a \notin hit => status'[a] = status[a] /\ (cancel'[a] <=> cancel[a])
    BY Zenon DEF Interrupt, ActiveRows
<1> HIDE DEF hit
<1>2. TreeCancelled'
  <2> SUFFICES ASSUME NEW a \in Agent, ParentOf[a] # NoAgent
               PROVE  /\ Exists(a)' => Exists(ParentOf[a])'
                      /\ Stopped(ParentOf[a])' /\ Active(a)' => (cancel[a])'
      BY Zenon DEF TreeCancelled
  <2>1. ParentOf[a] \in Agent /\ OwnerOf[ParentOf[a]] = OwnerOf[a]
      OBVIOUS
  <2>2. Exists(a) => Exists(ParentOf[a])
      BY Zenon DEF TreeCancelled
  <2>3. Stopped(ParentOf[a]) /\ Active(a) => cancel[a]
      BY Zenon DEF TreeCancelled
  <2>4. Exists(a)' => Exists(ParentOf[a])'
      BY <1>1, <2>1, <2>2 DEF Exists, Active, ActiveStatus
  <2>5. ASSUME Stopped(ParentOf[a])', Active(a)' PROVE (cancel[a])'
    <3>1. a \notin hit /\ Active(a)
        BY <1>1, <2>5, Zenon DEF Active, ActiveStatus
    <3>2. ParentOf[a] \notin hit
        BY <1>1, <2>1, <3>1
    <3>3. Stopped(ParentOf[a])
        BY <1>1, <2>1, <2>5, <3>2, Zenon DEF Stopped
    <3> QED BY <1>1, <2>3, <3>1, <3>3, Zenon
  <2> QED BY <2>4, <2>5, Zenon
<1>3. LateResultDiscarded'
    BY <1>1, Zenon DEF LateResultDiscarded
<1>4. RetriedBacked'
    BY <1>1, SMTT(30) DEF RetriedBacked, Active, ActiveStatus
<1> QED BY <1>2, <1>3, <1>4

(* create_agent gives a child the cancellation of its parent. *)
LEMMA CreateInv ==
  ASSUME Inv, TypeOK', NEW a \in Agent, Delegable(a), CreateAgent(a)
  PROVE  TreeCancelled' /\ LateResultDiscarded' /\ RetriedBacked'
<1> USE FleetAssumption DEF Inv, TypeOK
<1> DEFINE born == ParentOf[a] # NoAgent /\ Stopped(ParentOf[a])
<1>1. /\ status[a] = "absent"
      /\ ParentOf[a] # NoAgent => Exists(ParentOf[a])
      /\ status' = [status EXCEPT
                      ![a] = IF born THEN "cancelled" ELSE "queued"]
      /\ cancel' = [cancel EXCEPT ![a] = born]
      /\ retriedBy' = retriedBy
    BY Zenon DEF CreateAgent, Delegable
<1>2. \A b \in Agent : b # a =>
        status'[b] = status[b] /\ cancel'[b] = cancel[b]
    BY <1>1
<1>3. status'[a] = (IF born THEN "cancelled" ELSE "queued") /\ cancel'[a] = born
    BY <1>1
<1>4. TreeCancelled'
  <2> SUFFICES ASSUME NEW b \in Agent, ParentOf[b] # NoAgent
               PROVE  /\ Exists(b)' => Exists(ParentOf[b])'
                      /\ Stopped(ParentOf[b])' /\ Active(b)' => (cancel[b])'
      BY Zenon DEF TreeCancelled
  <2>1. ParentOf[b] \in Agent /\ ParentOf[b] # b
      OBVIOUS
  <2>2. /\ Exists(b) => Exists(ParentOf[b])
        /\ Stopped(ParentOf[b]) /\ Active(b) => cancel[b]
      BY DEF TreeCancelled
  <2>3. CASE b = a
    <3>1. /\ status'[ParentOf[a]] = status[ParentOf[a]]
          /\ cancel'[ParentOf[a]] = cancel[ParentOf[a]]
        BY <1>2, <2>1, <2>3, Zenon
    <3>2. Exists(ParentOf[b])'
        BY <1>1, <2>3, <3>1 DEF Exists
    <3>3. Stopped(ParentOf[b])' => born
        BY <2>3, <3>1, Zenon DEF Stopped
    <3> QED BY <1>3, <2>3, <3>2, <3>3, Zenon
  <2>4. CASE b # a /\ ParentOf[b] = a
    <3>1. ~Exists(b)
        BY <1>1, <2>2, <2>4 DEF Exists
    <3> QED BY <1>2, <2>4, <3>1, Zenon DEF Exists, Active, ActiveStatus
  <2>5. CASE b # a /\ ParentOf[b] # a
    <3>1. /\ status'[b] = status[b] /\ cancel'[b] = cancel[b]
          /\ status'[ParentOf[b]] = status[ParentOf[b]]
          /\ cancel'[ParentOf[b]] = cancel[ParentOf[b]]
        BY <1>2, <2>1, <2>5, Zenon
    <3> QED BY <2>2, <3>1, Zenon DEF Exists, Stopped, Active
  <2> QED BY <2>3, <2>4, <2>5
<1>5. LateResultDiscarded'
    BY <1>2, <1>3, Zenon DEF LateResultDiscarded
<1>6. RetriedBacked'
    BY <1>1, <1>2, <1>3 DEF RetriedBacked
<1> QED BY <1>4, <1>5, <1>6, Zenon

(* start_agent starts only a row without the flag. *)
LEMMA StartInv ==
  ASSUME Inv, TypeOK', NEW a \in Agent, StartAgent(a)
  PROVE  TreeCancelled' /\ LateResultDiscarded' /\ RetriedBacked'
<1> USE FleetAssumption DEF Inv, TypeOK
<1>1. /\ status[a] = "queued" /\ status'[a] = "running"
      /\ \A b \in Agent : b # a => status'[b] = status[b]
      /\ cancel' = cancel /\ retriedBy' = retriedBy
    BY DEF StartAgent
<1>2. TreeCancelled'
    BY <1>1 DEF TreeCancelled, Exists, Stopped, Active, ActiveStatus
<1>3. LateResultDiscarded'
    BY <1>1, Zenon DEF LateResultDiscarded
<1>4. RetriedBacked'
    BY <1>1 DEF RetriedBacked
<1> QED BY <1>2, <1>3, <1>4, Zenon

(* cancel_agents selects, with a row, the active rows below it. *)
LEMMA CascadeClosed ==
  ASSUME NEW R \in SUBSET Agent, NEW a \in ActiveRows,
         ParentOf[a] \in Cascade(R)
  PROVE  a \in Cascade(R)
BY Zenon DEF Cascade

(* cancel_agents flags a tree whole. *)
LEMMA CancelInv ==
  ASSUME Inv, TypeOK', NEW R \in SUBSET Agent, CancelAgents(R)
  PROVE  TreeCancelled' /\ LateResultDiscarded' /\ RetriedBacked'
<1> USE FleetAssumption DEF Inv, TypeOK
<1> DEFINE hit == Cascade(R)
<1>1. hit \subseteq ActiveRows
    BY DEF Cascade
<1>2. \A a \in Agent :
        /\ a \in hit /\ status[a] = "queued" =>
             status'[a] = "cancelled" /\ cancel'[a]
        /\ a \in hit /\ status[a] # "queued" =>
             status[a] = "running" /\ status'[a] = status[a] /\ cancel'[a]
        /\ a \notin hit => status'[a] = status[a] /\ (cancel'[a] <=> cancel[a])
  <2> HIDE DEF hit
  <2>1. /\ status' = [a \in Agent |->
             IF a \in hit /\ status[a] = "queued" THEN "cancelled"
             ELSE status[a]]
        /\ cancel' = [a \in Agent |-> cancel[a] \/ a \in hit]
      BY Zenon DEF CancelAgents, hit
  <2> QED BY <1>1, <2>1, Zenon DEF ActiveRows, Active, ActiveStatus
<1>3. \A a \in ActiveRows : ParentOf[a] \in hit => a \in hit
    BY CascadeClosed
<1>4. retriedBy' = retriedBy
    BY Zenon DEF CancelAgents
<1> HIDE DEF hit
<1>5. TreeCancelled'
  <2> SUFFICES ASSUME NEW a \in Agent, ParentOf[a] # NoAgent
               PROVE  /\ Exists(a)' => Exists(ParentOf[a])'
                      /\ Stopped(ParentOf[a])' /\ Active(a)' => (cancel[a])'
      BY DEF TreeCancelled
  <2>1. ParentOf[a] \in Agent
      OBVIOUS
  <2>2. /\ Exists(a) => Exists(ParentOf[a])
        /\ Stopped(ParentOf[a]) /\ Active(a) => cancel[a]
      BY Zenon DEF TreeCancelled
  <2>3. Exists(a)' => Exists(ParentOf[a])'
      BY <1>2, <2>1, <2>2, Zenon DEF Exists
  <2>4. ASSUME Stopped(ParentOf[a])', Active(a)' PROVE (cancel[a])'
    <3>1. Active(a) /\ a \in ActiveRows
        BY <1>2, <2>4, Zenon DEF Active, ActiveStatus, ActiveRows
    <3>2. CASE ParentOf[a] \in hit
        BY <1>2, <1>3, <3>1, <3>2, Zenon
    <3>3. CASE ParentOf[a] \notin hit
      <4>1. Stopped(ParentOf[a])
          BY <1>2, <2>1, <2>4, <3>3, Zenon DEF Stopped
      <4> QED BY <1>2, <2>2, <3>1, <4>1, Zenon
    <3> QED BY <3>2, <3>3, Zenon
  <2> QED BY <2>3, <2>4, Zenon
<1>6. LateResultDiscarded'
    BY <1>2, Zenon DEF LateResultDiscarded
<1>7. RetriedBacked'
    BY <1>2, <1>4 DEF RetriedBacked
<1> QED BY <1>5, <1>6, <1>7

(* What finish_agent does to the rows: it ends the row, and marks the      *)
(* master that the row retried.  A row that is retried is never ended.     *)
LEMMA FinishRows ==
  ASSUME Inv, NEW a \in Agent, NEW result \in Result, FinishAgent(a, result)
  PROVE  LET final == FinalStatus(a, result) IN
         /\ status[a] \in {"queued", "running", "cancelled"}
         /\ final \in Result \cup {"cancelled"}
         /\ cancel[a] \/ status[a] = "cancelled" => final = "cancelled"
         /\ status'[a] = final
         /\ \A b \in Agent : b # a =>
              status'[b] = IF Settles(a, final, b) THEN "retried" ELSE status[b]
         /\ cancel' = cancel
<1> USE FleetAssumption DEF Inv, TypeOK
<1> DEFINE final == FinalStatus(a, result)
<1>1. final \in Result \cup {"cancelled"}
    BY DEF FinalStatus
<1>2. cancel[a] \/ status[a] = "cancelled" => final = "cancelled"
    BY Zenon DEF FinalStatus
<1>3. status[a] \in {"queued", "running", "cancelled"}
  <2>1. /\ status[a] \notin {"absent", "interrupted"}
        /\ cancel[a] \/ status[a] \notin Result
        /\ status[a] # final => CanTransition(status[a], final)
      BY DEF FinishAgent
  <2>2. cancel[a] => status[a] \in {"running", "cancelled", "interrupted", "retried"}
      BY Zenon DEF LateResultDiscarded
  <2>3. status[a] \in {"queued", "running", "cancelled", "retried"}
      BY <2>1, <2>2 DEF Result, Status, ActiveStatus, Retryable
  <2>4. status[a] # "retried"
      BY <1>1, <2>1, Zenon DEF CanTransition, Result, Retryable
  <2> QED BY <2>3, <2>4, Zenon
<1>4. /\ status' = [b \in Agent |-> IF b = a THEN final
                                    ELSE IF Settles(a, final, b) THEN "retried"
                                    ELSE status[b]]
      /\ cancel' = cancel
    BY Zenon DEF FinishAgent
<1> HIDE DEF final
<1>5. /\ status'[a] = final
      /\ \A b \in Agent : b # a =>
           status'[b] = IF Settles(a, final, b) THEN "retried" ELSE status[b]
    BY <1>4, Zenon
<1> QED BY <1>1, <1>2, <1>3, <1>4, <1>5, Zenon DEF final

(* finish_agent: the flag of an ended row is the flag it had, and the      *)
(* success of a retry is recorded once.                                    *)
LEMMA FinishInv ==
  ASSUME Inv, TypeOK', NEW a \in Agent, NEW result \in Result,
         FinishAgent(a, result)
  PROVE  TreeCancelled' /\ LateResultDiscarded' /\ RetriedBacked'
<1> USE FleetAssumption DEF Inv, TypeOK
<1> DEFINE final == FinalStatus(a, result)
           settled(b) == Settles(a, final, b)
<1>1. /\ status[a] \in {"queued", "running", "cancelled"}
      /\ final \in Result \cup {"cancelled"}
      /\ cancel[a] \/ status[a] = "cancelled" => final = "cancelled"
      /\ status'[a] = final
      /\ \A b \in Agent : b # a =>
           status'[b] = IF settled(b) THEN "retried" ELSE status[b]
      /\ cancel' = cancel
    BY FinishRows, Zenon
<1>2. final = "cancelled" => cancel[a] \/ status[a] = "cancelled"
    BY Zenon DEF FinalStatus, Result
<1>3. \A b \in Agent : settled(b) =>
        /\ RetryOf[a] = b /\ b # a /\ final = "done"
        /\ status[b] \in Retryable
    BY DEF Settles
<1>4. \A b \in Agent : retriedBy'[b] =
        IF settled(b) THEN a
        ELSE IF Unclaims(a, final, b) THEN NoAgent ELSE retriedBy[b]
    BY Zenon DEF FinishAgent
<1>5. \A b \in Agent : Unclaims(a, final, b) => retriedBy[b] \in Claim
    BY Zenon DEF Unclaims
<1> HIDE DEF final, settled
<1>6. TreeCancelled'
  <2> SUFFICES ASSUME NEW b \in Agent, ParentOf[b] # NoAgent
               PROVE  /\ Exists(b)' => Exists(ParentOf[b])'
                      /\ Stopped(ParentOf[b])' /\ Active(b)' => (cancel[b])'
      BY Zenon DEF TreeCancelled
  <2>1. ParentOf[b] \in Agent
      OBVIOUS
  <2>2. /\ Exists(b) => Exists(ParentOf[b])
        /\ Stopped(ParentOf[b]) /\ Active(b) => cancel[b]
      BY Zenon DEF TreeCancelled
  <2>3. \A d \in Agent : /\ Exists(d)' <=> Exists(d)
                         /\ Active(d)' => Active(d)
                         /\ Stopped(d)' => Stopped(d)
      BY <1>1, <1>2, <1>3
         DEF Exists, Active, Stopped, ActiveStatus, Result, Retryable
  <2> QED BY <1>1, <2>1, <2>2, <2>3, Zenon
<1>7. LateResultDiscarded'
    BY <1>1, <1>3 DEF LateResultDiscarded
<1>8. RetriedBacked'
  <2> SUFFICES ASSUME NEW s \in Agent
               PROVE  /\ status'[s] = "retried" <=> retriedBy'[s] \in Agent
                      /\ retriedBy'[s] \in Agent =>
                           /\ RetryOf[retriedBy'[s]] = s
                           /\ status'[retriedBy'[s]] = "done"
      BY Zenon DEF RetriedBacked
  <2>1. CASE settled(s)
      BY <1>1, <1>3, <1>4, <2>1
  <2>2. CASE ~settled(s)
    <3>1. status'[s] = "retried" <=> status[s] = "retried"
        BY <1>1, <2>2, Zenon DEF Result
    <3>2. retriedBy'[s] \in Agent <=> retriedBy[s] \in Agent
        BY <1>4, <1>5, <2>2, ClaimsApart
    <3>3. ASSUME retriedBy[s] \in Agent
          PROVE  /\ retriedBy'[s] = retriedBy[s]
                 /\ status'[retriedBy[s]] = "done"
      <4>1. status[retriedBy[s]] = "done"
          BY <3>3, Zenon DEF RetriedBacked
      <4>2. retriedBy[s] # a /\ ~settled(retriedBy[s])
          BY <1>1, <1>3, <3>3, <4>1, Zenon DEF Retryable
      <4> QED BY <1>1, <1>4, <1>5, <2>2, <3>3, <4>1, <4>2, ClaimsApart
    <3> QED BY <3>1, <3>2, <3>3 DEF RetriedBacked
  <2> QED BY <2>1, <2>2
<1> QED BY <1>6, <1>7, <1>8, Zenon

(* Claims come and go only where no retry is recorded. *)
LEMMA ClaimInv ==
  ASSUME Inv, NEW r \in Agent, AcquireRetryLease(r) \/ ReleaseRetryLease(r)
  PROVE  RetriedBacked'
<1> USE FleetAssumption DEF Inv, TypeOK
<1>1. \A s \in Agent : \/ retriedBy'[s] = retriedBy[s]
                       \/ retriedBy'[s] \notin Agent /\ retriedBy[s] \notin Agent
  <2>1. CASE AcquireRetryLease(r)
    <3>1. [token |-> r, expires |-> clock + RetryLease] \in Claim
        BY DEF Claim
    <3>2. /\ retriedBy[RetryOf[r]] \notin Agent
          /\ retriedBy' = [retriedBy EXCEPT ![RetryOf[r]] =
                             [token |-> r, expires |-> clock + RetryLease]]
        BY <2>1, Zenon DEF AcquireRetryLease
    <3> QED BY <3>1, <3>2, ClaimsApart
  <2>2. CASE ReleaseRetryLease(r)
      BY <2>2, ClaimsApart DEF ReleaseRetryLease
  <2> QED BY <2>1, <2>2, Zenon
<1>2. status' = status
    BY Zenon DEF AcquireRetryLease, ReleaseRetryLease, rowVars
<1> QED BY <1>1, <1>2, Zenon DEF RetriedBacked

(* Every step keeps the invariant. *)
LEMMA InvStep ==
  ASSUME Inv, [Next]_vars
  PROVE  Inv'
<1>0. TypeOK'
    BY TypeStep DEF Inv
<1> USE <1>0 DEF Inv
<1>1. ASSUME UNCHANGED rowVars, retriedBy' = retriedBy PROVE Inv'
    BY <1>1, RowsSame
<1>2. ASSUME NEW o \in Owner,
             RegisterOwner(o) \/ HeartbeatOwner(o) \/ ProcessDies(o)
      PROVE  Inv'
    BY <1>1, <1>2 DEF RegisterOwner, HeartbeatOwner, ProcessDies
<1>3. ASSUME NEW o \in Owner, CloseOwner(o) PROVE Inv'
  <2>1. Interrupt({o}) /\ retriedBy' = retriedBy
      BY <1>3 DEF CloseOwner
  <2> QED BY <2>1, InterruptInv
<1>4. ASSUME NEW D \in SUBSET Owner, ReconcileStaleOwners(D) PROVE Inv'
  <2> DEFINE gone == {o \in D : seen[o] # Never /\ seen[o] + Grace <= clock}
  <2>1. Interrupt(gone) /\ retriedBy' = retriedBy
      BY <1>4 DEF ReconcileStaleOwners
  <2>2. gone \in SUBSET Owner
      OBVIOUS
  <2> HIDE DEF gone
  <2> QED BY <2>1, <2>2, InterruptInv, Zenon
<1>5. ASSUME NEW a \in Agent, Delegable(a), CreateAgent(a) PROVE Inv'
    BY <1>5, CreateInv
<1>6. ASSUME NEW a \in Agent, StartAgent(a) PROVE Inv'
    BY <1>6, StartInv, Zenon
<1>7. ASSUME NEW a \in Agent, NEW result \in Result, FinishAgent(a, result)
      PROVE  Inv'
    BY <1>7, FinishInv, Zenon
<1>8. ASSUME NEW r \in Agent, AcquireRetryLease(r) \/ ReleaseRetryLease(r)
      PROVE  Inv'
  <2>1. UNCHANGED rowVars
      BY <1>8, Zenon DEF AcquireRetryLease, ReleaseRetryLease
  <2> QED BY <1>8, <2>1, ClaimInv, RowsSame
<1>9. ASSUME NEW R \in SUBSET Agent, CancelAgents(R) PROVE Inv'
    BY <1>9, CancelInv, Zenon
<1>10. ASSUME NEW late \in SUBSET Message, NEW m \in Message,
              QueueAgentMessage(m, late)
       PROVE  Inv'
    BY <1>1, <1>10 DEF QueueAgentMessage
<1>11. ASSUME NEW late \in SUBSET Message, NEW a \in Agent,
              NEW due \in SUBSET Message, ClaimAgentMessages(a, late, due)
       PROVE  Inv'
    BY <1>1, <1>11 DEF ClaimAgentMessages
<1>12. CASE Tick
    BY <1>1, <1>12 DEF Tick
<1>13. CASE UNCHANGED vars
    BY <1>1, <1>13 DEF vars
<1> QED BY <1>2, <1>3, <1>4, <1>5, <1>6, <1>7, <1>8, <1>9, <1>10, <1>11,
           <1>12, <1>13, Zenon DEF Next

------------------------------------------------------------------------------
(* The invariant holds of every reachable state of the ledger. *)
LEMMA InvHolds == Spec => []Inv
BY InitInv, InvStep, PTL DEF Spec

(* Type correctness of the ledger (fleet_store's two tables and the        *)
(* dispatches of master_retry).                                            *)
THEOREM TypesKept == Spec => []TypeOK
BY InvHolds, PTL DEF Inv

(* For every tree and every order of create_agent, cancel_agents,          *)
(* close_owner, reconcile_stale_owners and finish_agent, no agent below a  *)
(* stopped parent is active without the flag.                              *)
THEOREM TreesAreCancelled == Spec => []TreeCancelled
BY InvHolds, PTL DEF Inv

(* A row whose cancellation was requested never gets a result              *)
(* (finish_agent's first branch).                                          *)
THEOREM LateResultsAreDiscarded == Spec => []LateResultDiscarded
BY InvHolds, PTL DEF Inv

(* retried_by of a master marked retried names a retry of it that is done  *)
(* (the two settlements at the end of finish_agent).                       *)
THEOREM RetriesAreBacked == Spec => []RetriedBacked
BY InvHolds, PTL DEF Inv

(* No step replaces the record of a successful retry: claims, releases and *)
(* the ends of other retries leave it.                                     *)
THEOREM SuccessIsKept == Spec => SuccessKept
<1>1. ASSUME Inv, [Next]_vars, NEW s \in Agent, retriedBy[s] \in Agent
      PROVE  retriedBy'[s] = retriedBy[s]
  <2> USE FleetAssumption, <1>1 DEF Inv, TypeOK
  <2>1. status[s] = "retried"
      BY Zenon DEF RetriedBacked
  <2>2. ASSUME NEW a \in Agent, NEW result \in Result, FinishAgent(a, result)
        PROVE  retriedBy'[s] = retriedBy[s]
    <3>1. /\ ~Settles(a, FinalStatus(a, result), s)
          /\ ~Unclaims(a, FinalStatus(a, result), s)
        BY <2>1, ClaimsApart, Zenon DEF Settles, Unclaims, Retryable
    <3> QED BY <2>2, <3>1, Zenon DEF FinishAgent
  <2>3. ASSUME NEW r \in Agent, AcquireRetryLease(r)
        PROVE  retriedBy'[s] = retriedBy[s]
      BY <2>3, Zenon DEF AcquireRetryLease
  <2>4. ASSUME NEW r \in Agent, ReleaseRetryLease(r)
        PROVE  retriedBy'[s] = retriedBy[s]
      BY <2>4, ClaimsApart, Zenon DEF ReleaseRetryLease
  <2>5. ASSUME retriedBy' = retriedBy PROVE retriedBy'[s] = retriedBy[s]
      BY <2>5, Zenon
  <2> QED BY <1>1, <2>2, <2>3, <2>4, <2>5, Zenon
          DEF Next, vars, RegisterOwner, HeartbeatOwner, CloseOwner,
              ProcessDies, ReconcileStaleOwners, CreateAgent, StartAgent,
              CancelAgents, QueueAgentMessage, ClaimAgentMessages, Tick
<1>2. Inv /\ [Next]_vars =>
        [\A s \in Agent : retriedBy[s] \in Agent => retriedBy'[s] = retriedBy[s]]_vars
    BY <1>1
<1> QED BY InvHolds, <1>2, PTL DEF Spec, SuccessKept

(* Steering is delivered only to an active agent (claim_agent_messages     *)
(* expires it first), whatever ended the agent.                            *)
THEOREM SteeringReachesActive == Spec => SteerReachesActive
<1>1. ASSUME Inv, [Next]_vars, NEW m \in Steer,
             message[m] = "queued", message'[m] = "delivered"
      PROVE  Active(Recipient[m])
  <2> USE FleetAssumption, <1>1 DEF Inv, TypeOK
  <2>1. message' # message
      BY Zenon
  <2>2. ASSUME NEW a \in Agent, NEW result \in Result, FinishAgent(a, result)
        PROVE  FALSE
      BY <2>2, Zenon DEF FinishAgent
  <2>3. ASSUME NEW late \in SUBSET Message, NEW n \in Message,
               QueueAgentMessage(n, late)
        PROVE  FALSE
      BY <2>3, Zenon DEF QueueAgentMessage
  <2>4. ASSUME NEW late \in SUBSET Message, NEW a \in Agent,
               NEW due \in SUBSET Message, ClaimAgentMessages(a, late, due)
        PROVE  Active(Recipient[m])
    <3>1. m \in due
        BY <2>4, Zenon DEF ClaimAgentMessages
    <3>2. m \in QueuedFor(a) /\ m \notin Undeliverable(a, late)
        BY <2>4, <3>1, SMTT(30) DEF ClaimAgentMessages
    <3> QED BY <3>2 DEF QueuedFor, Undeliverable
  <2> QED BY <1>1, <2>1, <2>2, <2>3, <2>4, Zenon
          DEF Next, vars, RegisterOwner, HeartbeatOwner, CloseOwner,
              ProcessDies, ReconcileStaleOwners, CreateAgent, StartAgent,
              CancelAgents, AcquireRetryLease, ReleaseRetryLease, Tick
<1>2. Inv /\ [Next]_vars =>
        [\A m \in Steer : message[m] = "queued" /\ message'[m] = "delivered"
           => Active(Recipient[m])]_vars
    BY <1>1
<1> QED BY InvHolds, <1>2, PTL DEF Spec, SteerReachesActive
=============================================================================
