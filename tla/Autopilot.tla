------------------------------ MODULE Autopilot ------------------------------
(***************************************************************************)
(* One durable autopilot run: the row that records its owner, its flags    *)
(* and its task ledger, the executions that claim it one after the other,  *)
(* and the operator who pauses and cancels it.                             *)
(*                                                                         *)
(* Source: autopilot_controller.py (execute_run) over                      *)
(* sonder_runtime/adapters/persistence/autopilot_store.py.                 *)
(*                                                                         *)
(* A call of the store is one transaction, hence one action; what the      *)
(* controller does between two calls belongs to the first of them.  Every  *)
(* execution has an owner id of its own.  A lease ends when the process    *)
(* dies, or when it is suspended past its heartbeats, so it may end at any *)
(* time, while the task of the execution still runs.                       *)
(*                                                                         *)
(* The answers of the planner, the worker and the reviewer are free, and   *)
(* so is every test of a budget (cycles, failures, replans, checkpoints,   *)
(* attempts, wall time): each may come out either way.  Steering notes are *)
(* left out.                                                               *)
(***************************************************************************)
EXTENDS Integers

CONSTANTS
  Exec,    \* executions of execute_run, by owner_id
  NoExec,  \* owner_id = ''
  N,       \* max_tasks
  Kind     \* kind of the task with each number

Task == 1..N

ASSUME AutopilotAssumption ==
  /\ NoExec \notin Exec
  /\ N \in Nat
  /\ Kind \in [Task -> {"inspect", "implement", "validate"}]

VARIABLES
  status, owner, cancel, pause,  \* columns of the run
  task,    \* plan_json: the status of every task, "absent" past the plan
  stale,   \* pending of autopilot_workspace_reality: inspection is due
  pc,      \* where an execution is; a release status: it calls finish_run
  plan,    \* the execution's copy of the ledger
  todo,    \* the task that the execution works on, 0 for none
  flight   \* history: the task whose outcome the execution has not recorded

row == <<status, owner, cancel, pause>>
controller == <<pc, plan, todo, flight>>
vars == <<row, task, stale, controller>>

Active == {"planning", "running"}
Resumable == {"ready", "paused", "blocked", "interrupted"}
Terminal == {"completed", "failed", "cancelled"}
Release == Terminal \cup {"paused", "blocked"}

(* "deferred" is a pending task with verification_deferred set. *)
TaskStatus == {"absent", "pending", "deferred", "infra_retry", "running",
               "passed", "passed_unverified", "failed", "uncertain",
               "superseded", "cancelled"}
Ledger == [Task -> TaskStatus]

Phase == {"idle", "claimed", "resume", "inspect", "accept", "acknowledge",
          "plan", "planned", "top", "pick", "start", "work", "worked", "save",
          "judge", "checkpoint", "failure", "completion", "final", "error",
          "done", "dead"}

Reviews == {"checkpoint", "failure", "completion", "final"}

TypeOK ==
  /\ status \in Active \cup Resumable \cup Terminal
  /\ owner \in Exec \cup {NoExec}
  /\ cancel \in BOOLEAN /\ pause \in BOOLEAN /\ stale \in BOOLEAN
  /\ task \in Ledger
  /\ pc \in [Exec -> Phase \cup Release]
  /\ plan \in [Exec -> Ledger]
  /\ todo \in [Exec -> Task \cup {0}]
  /\ flight \in [Exec -> Task \cup {0}]

NoPlan == [t \in Task |-> "absent"]

Init ==
  /\ status = "ready" /\ owner = NoExec
  /\ cancel = FALSE /\ pause = FALSE /\ stale = FALSE
  /\ task = NoPlan
  /\ pc = [e \in Exec |-> "idle"]
  /\ plan = [e \in Exec |-> NoPlan]
  /\ todo = [e \in Exec |-> 0]
  /\ flight = [e \in Exec |-> 0]

------------------------------------------------------------------------------
(* The ledger. *)

Runnable(p) == {t \in Task : p[t] \in {"pending", "infra_retry"}}
Open(p) == {t \in Task : p[t] \in {"pending", "deferred"}}
Has(p, s) == \E t \in Task : p[t] = s

Replaced(p, from, to) == [t \in Task |-> IF p[t] \in from THEN to ELSE p[t]]

(* _append_replan: some open tasks are superseded and some are added; a    *)
(* validation task that is not superseded must be left.  normalize_plan    *)
(* does the same from nothing.                                             *)
Extensions(p, drop) ==
  {q \in {[t \in Task |-> IF t \in drop THEN "superseded"
                          ELSE IF p[t] = "absent" /\ t <= n THEN "pending"
                          ELSE p[t]] : n \in 0..N} :
     /\ q # p
     /\ \E t \in Task :
          Kind[t] = "validate" /\ q[t] \notin {"absent", "superseded"}}

(* _completion_evidence_reason, and _completion_gate alike.  A task is     *)
(* passed only with the host receipt its kind asks for.                    *)
Evidence(p) ==
  /\ \A t \in Task : p[t] \in {"absent", "passed", "superseded"}
  /\ \E t \in Task : Kind[t] = "validate" /\ p[t] = "passed"

------------------------------------------------------------------------------
(* The store. *)

Owns(e) == owner = e /\ status \in Active
(* Mutant of Writable: a save is accepted after a cancellation. *)
WritableAfterCancel(e) == Owns(e)
Writable(e) == Owns(e) /\ ~cancel

(* save_progress with the plan p and the status to, which is the present   *)
(* one when none is given: refused without the lease, and after a          *)
(* cancellation.  The owner stays.                                         *)
SaveProgress(e, p, to) ==
  /\ task' = IF Writable(e) THEN p ELSE task
  /\ status' = IF Writable(e) THEN to ELSE status
  /\ UNCHANGED <<owner, cancel, pause, stale>>

Closed(p) == Replaced(p, {"pending", "deferred", "running"}, "cancelled")

(* Mutant of FinishRun: the write trusts the gate of the controller and    *)
(* checks neither the owner nor the evidence.                              *)
FinishRunTrusting(e, to) ==
  /\ IF status \in Active
       THEN /\ status' = to /\ owner' = NoExec /\ pause' = FALSE
            /\ task' = IF to = "cancelled" THEN Closed(task) ELSE task
       ELSE UNCHANGED <<status, owner, pause, task>>
  /\ UNCHANGED <<cancel, stale>>

FinishRun(e, to) ==
  /\ IF Owns(e) /\ (to = "completed" => Evidence(task) /\ ~stale)
       THEN /\ status' = to /\ owner' = NoExec /\ pause' = FALSE
            /\ task' = IF to = "cancelled" THEN Closed(task) ELSE task
       ELSE UNCHANGED <<status, owner, pause, task>>
  /\ UNCHANGED <<cancel, stale>>

RequestPause ==
  /\ status \notin Terminal
  /\ IF status \in Active
       THEN pause' = TRUE /\ UNCHANGED <<status, owner>>
       ELSE status' = "paused" /\ pause' = FALSE /\ owner' = NoExec
  /\ UNCHANGED <<cancel, task, stale, controller>>

(* Mutant of RequestCancel: terminal runs are not left alone. *)
RequestCancelAlways ==
  /\ cancel' = TRUE
  /\ IF status \in Active
       THEN UNCHANGED <<status, owner, task>>
       ELSE /\ status' = "cancelled" /\ owner' = NoExec
            /\ task' = Closed(task)
  /\ UNCHANGED <<pause, stale, controller>>

RequestCancel ==
  /\ status \notin Terminal
  /\ cancel' = TRUE
  /\ IF status \in Active
       THEN UNCHANGED <<status, owner, task>>
       ELSE /\ status' = "cancelled" /\ owner' = NoExec
            /\ task' = Closed(task)
  /\ UNCHANGED <<pause, stale, controller>>

ReconcileStaleRuns ==
  /\ status \in Active
  /\ status' = "interrupted" /\ owner' = NoExec
  /\ UNCHANGED <<cancel, pause, task, stale, controller>>

------------------------------------------------------------------------------
(* The controller. *)

Goto(e, label) == pc' = [pc EXCEPT ![e] = label]
Local(e, p) == plan' = [plan EXCEPT ![e] = p]

(* claim_run, for an execution that begins. *)
Claim(e) ==
  /\ pc[e] = "idle"
  /\ status \in Resumable /\ ~cancel
  /\ status' = IF task = NoPlan THEN "planning" ELSE "running"
  /\ owner' = e /\ pause' = FALSE
  /\ Local(e, task) /\ Goto(e, "claimed")
  /\ UNCHANGED <<cancel, task, stale, todo, flight>>

(* Mutant of RefuseReplay: an interrupted task is queued again. *)
RequeueInterrupted(e) ==
  /\ pc[e] = "claimed" /\ Has(plan[e], "running")
  /\ SaveProgress(e, Replaced(plan[e], {"running"}, "pending"), "running")
  /\ Goto(e, "paused")
  /\ UNCHANGED <<plan, todo, flight>>

(* A caller of the store other than the controller: it claims the run,     *)
(* saves a status (the state machine allows every one but ready) and calls *)
(* finish_run with any.                                                    *)
PortSave(e) ==
  /\ pc[e] = "claimed"
  /\ \E to \in (Active \cup Resumable \cup Terminal) \ {"ready"} :
       SaveProgress(e, task, to)
  /\ \E to \in Release : Goto(e, to)
  /\ UNCHANGED <<plan, todo, flight>>

(* A task that the ledger still shows as running was lost with another     *)
(* execution: it is kept as uncertain, and the run is paused.              *)
RefuseReplay(e) ==
  /\ pc[e] = "claimed" /\ Has(plan[e], "running")
  /\ SaveProgress(e, Replaced(plan[e], {"running"}, "uncertain"), "running")
  /\ Goto(e, "paused")
  /\ UNCHANGED <<plan, todo, flight>>

(* An explicit resume makes deferred validation runnable again. *)
ClearDeferred(e) ==
  /\ pc[e] = "claimed" /\ ~Has(plan[e], "running")
  /\ IF Has(plan[e], "deferred")
       THEN /\ Local(e, Replaced(plan[e], {"deferred"}, "pending"))
            /\ SaveProgress(e, Replaced(plan[e], {"deferred"}, "pending"), "running")
       ELSE UNCHANGED <<plan, row, task, stale>>
  /\ Goto(e, "resume")
  /\ UNCHANGED <<todo, flight>>

(* reality.resume.  The notice was loaded with the claim, if the execution *)
(* still had the run then.  Without a plan, or when the workspace is as    *)
(* the snapshot has it, the execution goes on; the write of a first        *)
(* snapshot may find the ownership lost.                                   *)
Unchanged(e) ==
  /\ pc[e] = "resume"
  /\ \/ /\ ~stale \/ owner # e \/ cancel
        /\ Goto(e, IF plan[e] = NoPlan THEN "plan" ELSE "top")
     \/ /\ plan[e] = NoPlan /\ ~Writable(e)
        /\ Goto(e, "error")
  /\ UNCHANGED <<row, task, stale, plan, todo, flight>>

(* The workspace changed, or the inspection of an earlier change is due. *)
Changed(e) ==
  /\ pc[e] = "resume" /\ plan[e] # NoPlan
  /\ IF Writable(e) THEN stale' = TRUE /\ Goto(e, "inspect")
                    ELSE stale' = stale /\ Goto(e, "error")
  /\ UNCHANGED <<row, task, plan, todo, flight>>

(* _recover_workspace: the evidence of validation is dropped; then the     *)
(* workspace is inspected read-only and a replacement plan is asked for.   *)
DropEvidence(e) ==
  LET p == [t \in Task |-> IF Kind[t] = "validate" /\ plan[e][t] = "passed"
                             THEN "pending" ELSE plan[e][t]] IN
  /\ pc[e] = "inspect"
  /\ SaveProgress(e, p, status)
  /\ Local(e, IF Writable(e) THEN p ELSE plan[e])
  /\ \/ Goto(e, "accept")
     \/ Goto(e, "paused")
     \/ Goto(e, "error")
  /\ UNCHANGED <<todo, flight>>

AcceptPlan(e) ==
  /\ pc[e] = "accept"
  /\ \/ \E p \in Extensions(plan[e], Open(plan[e])) :
          /\ Has(plan[e], "absent")
          /\ SaveProgress(e, p, status) /\ Local(e, p)
          /\ Goto(e, IF Writable(e) THEN "acknowledge" ELSE "error")
     \/ /\ Goto(e, "paused") \/ Goto(e, "error")
        /\ UNCHANGED <<row, task, stale, plan>>
  /\ UNCHANGED <<todo, flight>>

Acknowledge(e) ==
  /\ pc[e] = "acknowledge"
  /\ IF Writable(e) THEN stale' = FALSE /\ Goto(e, "top")
                    ELSE stale' = stale /\ Goto(e, "error")
  /\ UNCHANGED <<row, task, plan, todo, flight>>

(* control_flags after a planner, a worker or a reviewer returned, and at  *)
(* the top of the loop.                                                    *)
Flagged(e, heedPause) ==
  \/ owner # e /\ Goto(e, "error")
  \/ owner = e /\ cancel /\ Goto(e, "cancelled")
  \/ owner = e /\ ~cancel /\ heedPause /\ pause /\ Goto(e, "paused")
Clear(e, heedPause) == owner = e /\ ~cancel /\ (heedPause => ~pause)

Plan(e) ==
  /\ pc[e] = "plan"
  /\ \/ Flagged(e, FALSE) /\ UNCHANGED plan
     \/ Clear(e, FALSE) /\ Goto(e, "planned")
        /\ \E p \in Extensions(NoPlan, {}) : Local(e, p)
     \/ Goto(e, "error") /\ UNCHANGED plan
  /\ UNCHANGED <<row, task, stale, todo, flight>>

(* With plan_only the run is paused here. *)
SavePlan(e) ==
  /\ pc[e] = "planned"
  /\ SaveProgress(e, plan[e], "running")
  /\ Goto(e, "top") \/ Goto(e, "paused")
  /\ UNCHANGED <<plan, todo, flight>>

(* The loop: flags, wall clock and cycle budgets, then the ledger is read  *)
(* again, whoever owns the run by now.                                     *)
Top(e) ==
  /\ pc[e] = "top"
  /\ \/ Flagged(e, TRUE)
     \/ Clear(e, TRUE) /\ (Goto(e, "pick") \/ Goto(e, "paused"))
  /\ UNCHANGED <<row, task, stale, plan, todo, flight>>

Pick(e) ==
  /\ pc[e] = "pick"
  /\ Local(e, task)
  /\ \/ /\ \E t \in Runnable(task) :
             /\ \A u \in Runnable(task) : t <= u
             /\ todo' = [todo EXCEPT ![e] = t]
        /\ Goto(e, "start")
     \/ /\ Runnable(task) = {}
        /\ Goto(e, IF Has(task, "passed_unverified") \/ Has(task, "deferred")
                     THEN "paused" ELSE "completion")
        /\ UNCHANGED todo
     \/ Goto(e, "blocked") /\ UNCHANGED todo
  /\ UNCHANGED <<row, task, stale, flight>>

(* The conditional write that starts a task; work_fn is called only after  *)
(* it was accepted.                                                        *)
Start(e) ==
  LET p == [plan[e] EXCEPT ![todo[e]] = "running"] IN
  /\ pc[e] = "start"
  /\ SaveProgress(e, p, "running") /\ Local(e, p)
  /\ IF Writable(e)
       THEN Goto(e, "work") /\ flight' = [flight EXCEPT ![e] = todo[e]]
       ELSE /\ Goto(e, IF owner = e /\ cancel THEN "cancelled" ELSE "error")
            /\ UNCHANGED flight
  /\ UNCHANGED todo

(* work_fn returns, finds the provider unavailable, or raises. *)
Outcome(k) ==
  {"passed", "failed"} \cup (IF k = "implement" THEN {"passed_unverified"} ELSE {})
                       \cup (IF k = "validate" THEN {"deferred"} ELSE {})

Work(e) ==
  /\ pc[e] = "work"
  /\ \/ \E s \in Outcome(Kind[todo[e]]) :
          /\ Local(e, [plan[e] EXCEPT ![todo[e]] = s])
          /\ Goto(e, "worked")
     \/ /\ Local(e, [plan[e] EXCEPT ![todo[e]] = "infra_retry"])
        /\ Goto(e, "worked")
     \/ Goto(e, "error") /\ UNCHANGED plan
  /\ UNCHANGED <<row, task, stale, todo, flight>>

Worked(e) ==
  /\ pc[e] = "worked"
  /\ Flagged(e, FALSE) \/ (Clear(e, FALSE) /\ Goto(e, "save"))
  /\ UNCHANGED <<row, task, stale, plan, todo, flight>>

(* The outcome is recorded.  A provider that was unavailable is tried      *)
(* again, or the run is paused.                                            *)
SaveResult(e) ==
  /\ pc[e] = "save"
  /\ SaveProgress(e, plan[e], status)
  /\ flight' = IF Writable(e) THEN [flight EXCEPT ![e] = 0] ELSE flight
  /\ IF plan[e][todo[e]] = "infra_retry"
       THEN Goto(e, "top") \/ (Writable(e) /\ Goto(e, "paused"))
       ELSE Goto(e, "judge")
  /\ UNCHANGED <<plan, todo>>

(* What follows a recorded outcome.  reality.settled writes a snapshot and *)
(* may find the ownership lost; a save that was refused goes unnoticed     *)
(* until the flags are read.                                               *)
Judge(e) ==
  LET s == plan[e][todo[e]] IN
  /\ pc[e] = "judge"
  /\ \/ flight[e] = 0 /\ ~Writable(e) /\ Goto(e, "error")
     \/ s # "failed" /\ Goto(e, "top")
     \/ /\ s = "passed" /\ Kind[todo[e]] = "inspect" /\ Runnable(plan[e]) # {}
        /\ Flagged(e, TRUE) \/ (Clear(e, TRUE) /\ Goto(e, "checkpoint"))
     \/ s = "failed" /\ (Goto(e, "failure") \/ Goto(e, "blocked"))
  /\ UNCHANGED <<row, task, stale, plan, todo, flight>>

(* The loop ends when the cycles of the invocation are used up; a last     *)
(* review follows if no task is left.                                      *)
ExitLoop(e) ==
  /\ pc[e] = "top" /\ todo[e] # 0
  /\ Local(e, task)
  /\ Goto(e, IF Runnable(task) = {} THEN "final" ELSE "paused")
  /\ UNCHANGED <<row, task, stale, todo, flight>>

(* review_fn raised or answered; then the flags are read. *)
Interrupted(e) ==
  /\ pc[e] \in Reviews
  /\ Flagged(e, TRUE) \/ Goto(e, "error")
  /\ UNCHANGED <<row, task, stale, plan, todo, flight>>

Complete(e) ==
  /\ pc[e] \in {"completion", "final"} /\ Clear(e, TRUE)
  /\ Evidence(plan[e])
  /\ Goto(e, "completed")
  /\ UNCHANGED <<row, task, stale, plan, todo, flight>>

Decline(e) ==
  /\ pc[e] \in Reviews /\ Clear(e, TRUE)
  /\ \/ Goto(e, "paused")
     \/ pc[e] # "final" /\ Goto(e, "blocked")
     \/ pc[e] = "checkpoint" /\ Goto(e, "top")
  /\ UNCHANGED <<row, task, stale, plan, todo, flight>>

Retry(e) ==
  LET p == [plan[e] EXCEPT ![todo[e]] = "pending"] IN
  /\ pc[e] = "failure" /\ Clear(e, TRUE)
  /\ SaveProgress(e, p, status) /\ Local(e, p) /\ Goto(e, "top")
  /\ UNCHANGED <<todo, flight>>

(* The failed task is superseded, or at a checkpoint some of the open      *)
(* ones.                                                                   *)
Replan(e) ==
  /\ pc[e] \in Reviews \ {"final"} /\ Clear(e, TRUE)
  /\ \E p \in IF pc[e] = "failure"
                THEN Extensions([plan[e] EXCEPT ![todo[e]] = "superseded"], {})
              ELSE IF pc[e] = "checkpoint"
                THEN UNION {Extensions(plan[e], drop) : drop \in SUBSET Open(plan[e])}
              ELSE Extensions(plan[e], {}) :
       SaveProgress(e, p, status) /\ Local(e, p)
  /\ Goto(e, "top")
  /\ UNCHANGED <<todo, flight>>

(* The handler of an exception of the controller. *)
Unwind(e) ==
  /\ pc[e] = "error"
  /\ Goto(e, IF owner = e /\ cancel THEN "cancelled" ELSE "failed")
  /\ UNCHANGED <<row, task, stale, plan, todo, flight>>

Finish(e) ==
  /\ pc[e] \in Release
  /\ FinishRun(e, pc[e])
  /\ Goto(e, "done") /\ Local(e, NoPlan) /\ todo' = [todo EXCEPT ![e] = 0]
  /\ UNCHANGED flight

(* The process dies. *)
Crash(e) ==
  /\ pc[e] \notin {"idle", "done", "dead"}
  /\ Goto(e, "dead") /\ Local(e, NoPlan) /\ todo' = [todo EXCEPT ![e] = 0]
  /\ UNCHANGED <<row, task, stale, flight>>

Advance(e) ==
  \/ Claim(e) \/ PortSave(e) \/ RefuseReplay(e) \/ ClearDeferred(e)
  \/ Unchanged(e) \/ Changed(e)
  \/ DropEvidence(e) \/ AcceptPlan(e) \/ Acknowledge(e)
  \/ Plan(e) \/ SavePlan(e)
  \/ Top(e) \/ ExitLoop(e) \/ Pick(e) \/ Start(e)
  \/ Work(e) \/ Worked(e) \/ SaveResult(e) \/ Judge(e)
  \/ Interrupted(e) \/ Complete(e) \/ Decline(e) \/ Retry(e) \/ Replan(e)
  \/ Unwind(e) \/ Finish(e)

Next ==
  \/ \E e \in Exec : Advance(e) \/ Crash(e)
  \/ RequestPause \/ RequestCancel \/ ReconcileStaleRuns

Spec == Init /\ [][Next]_vars

------------------------------------------------------------------------------
(* Properties. *)

(* No replay of an unknown outcome: a task that some execution started and *)
(* whose outcome it did not record, because it died, lost its lease or     *)
(* failed, stays running, uncertain or cancelled.  It is never pending     *)
(* again, and never passed, failed or superseded.                          *)
LostOutcomeKept ==
  \A e \in Exec : flight[e] # 0 =>
    task[flight[e]] \in {"running", "uncertain", "cancelled"}

(* A run that finish_run completed (it gives up the owner) has a validated *)
(* ledger with nothing left open, no inspection of the workspace due, and  *)
(* no execution, alive or dead, with a task whose outcome it did not       *)
(* record, whoever called it and whatever was saved before.  save_progress *)
(* writes the status completed without a look at the evidence; the owner   *)
(* of such a run stays.                                                    *)
CompletionSound ==
  status = "completed" /\ owner = NoExec =>
    Evidence(task) /\ ~stale /\ \A e \in Exec : flight[e] = 0

(* After request_cancel no result enters the ledger: from then on it only  *)
(* changes when the open tasks are closed with the run.                    *)
CancelDiscards ==
  [][cancel => \/ task' = task
               \/ status' = "cancelled" /\ task' = Closed(task)]_vars

(* A run that completed or was cancelled keeps its status, its ledger and  *)
(* its notice, whatever executions that lost it, reconciliation and the    *)
(* operator still do.                                                      *)
TerminalFrozen ==
  [][(status \in {"completed", "cancelled"}) =>
       /\ status' = status /\ owner' = owner
       /\ task' = task /\ stale' = stale]_vars
=============================================================================
