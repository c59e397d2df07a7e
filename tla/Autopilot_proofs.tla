-------------------------- MODULE Autopilot_proofs --------------------------
(***************************************************************************)
(* What holds of an autopilot run with any number of executions and tasks. *)
(*                                                                         *)
(* The argument rests on Sync: while an execution may write, its copy of   *)
(* the ledger differs from the stored one at most by the outcome of its    *)
(* task, and no other execution has that task in flight.  An execution     *)
(* that lost the run never gets it back, so its copy no longer matters.    *)
(***************************************************************************)
EXTENDS Autopilot, TLAPS

Lost == {"running", "uncertain", "cancelled"}

(* The ledger q has no new answer for a task whose outcome p lacks. *)
Keeps(p, q) == \A t \in Task : p[t] \in Lost => q[t] \in Lost

Copied == {"claimed", "resume", "inspect", "accept", "acknowledge", "plan",
           "start", "judge"} \cup Reviews
Busy == {"work", "worked", "save"}

Sync(e) ==
  Writable(e) =>
    /\ pc[e] \in Copied => plan[e] = task
    /\ pc[e] \in {"plan", "planned"} => task = NoPlan
    /\ pc[e] = "start" => todo[e] \in Runnable(task)
    /\ pc[e] \in Busy =>
         /\ todo[e] \in Task /\ task[todo[e]] = "running"
         /\ \A t \in Task : t # todo[e] => plan[e][t] = task[t]
         /\ \A f \in Exec : f # e => flight[f] # todo[e]
    /\ pc[e] = "failure" => plan[e][todo[e]] = "failed"

Inv ==
  /\ TypeOK
  /\ LostOutcomeKept
  /\ CompletionSound
  /\ \A e \in Exec : Sync(e)

------------------------------------------------------------------------------
(* The ledger. *)

(* Replacing a status keeps every lost outcome, unless it is one and the   *)
(* new status is not.                                                      *)
LEMMA ReplacedKeeps ==
  ASSUME NEW p \in Ledger, NEW from, NEW to \in TaskStatus,
         from \cap Lost = {} \/ to \in Lost
  PROVE  Replaced(p, from, to) \in Ledger /\ Keeps(p, Replaced(p, from, to))
BY DEF Replaced, Ledger, Keeps, Lost

(* _append_replan leaves every lost outcome alone. *)
LEMMA ExtensionsKeep ==
  ASSUME NEW p \in Ledger, NEW drop \in SUBSET Open(p),
         NEW q \in Extensions(p, drop)
  PROVE  q \in Ledger /\ Keeps(p, q)
<1>1. PICK n \in 0..N :
        q = [t \in Task |-> IF t \in drop THEN "superseded"
                            ELSE IF p[t] = "absent" /\ t <= n THEN "pending"
                            ELSE p[t]]
  BY DEF Extensions
<1>2. q \in Ledger
  BY <1>1 DEF Ledger, TaskStatus
<1>3. \A t \in Task : p[t] \in Lost => t \notin drop /\ p[t] # "absent"
  BY DEF Open, Lost
<1> QED
  BY <1>1, <1>2, <1>3 DEF Keeps

(* Setting one task that has no lost outcome keeps the others. *)
LEMMA OneTaskKeeps ==
  ASSUME NEW p \in Ledger, NEW t, NEW s \in TaskStatus,
         t \in Task => p[t] \notin Lost \/ s \in Lost
  PROVE  [p EXCEPT ![t] = s] \in Ledger /\ Keeps(p, [p EXCEPT ![t] = s])
BY Zenon DEF Ledger, Keeps

------------------------------------------------------------------------------
(* What a step of one execution means for the others. *)

Others(e) ==
  \A g \in Exec \ {e} : pc'[g] = pc[g] /\ plan'[g] = plan[g] /\ todo'[g] = todo[g]

(* A step that takes the run away from an execution, or changes nothing    *)
(* that the execution relies on, keeps its copy in order.                  *)
LEMMA Frame ==
  ASSUME Inv, NEW e, Others(e), NEW g \in Exec \ {e},
         \/ owner' # g
         \/ /\ status' = status /\ owner' = owner /\ cancel' = cancel
            /\ task' = task /\ flight' = flight
  PROVE  Sync(g)'
<1>1. CASE owner' # g
  BY <1>1 DEF Sync, Writable, Owns
<1>2. CASE /\ status' = status /\ owner' = owner /\ cancel' = cancel
           /\ task' = task /\ flight' = flight
  <2>1. Writable(g)' = Writable(g) /\ pc'[g] = pc[g] /\ plan'[g] = plan[g] /\ todo'[g] = todo[g]
    BY <1>2 DEF Writable, Owns, Others
  <2>2. Sync(g)
    BY DEF Inv
  <2> QED
    BY <1>2, <2>1, <2>2 DEF Sync, Runnable
<1> QED
  BY <1>1, <1>2

(* A step that leaves the row, the ledger and the notice alone. *)
LEMMA QuietStep ==
  ASSUME Inv, NEW e, Others(e),
         status' = status, owner' = owner, cancel' = cancel,
         task' = task, stale' = stale, flight' = flight
  PROVE  /\ LostOutcomeKept' /\ CompletionSound'
         /\ \A g \in Exec \ {e} : Sync(g)'
<1>1. \A g \in Exec \ {e} : Sync(g)'
  BY Frame
<1> QED
  BY <1>1 DEF Inv, LostOutcomeKept, CompletionSound, Evidence

(* A save, accepted or refused. *)
LEMMA SaveStep ==
  ASSUME Inv, NEW e \in Exec, Others(e), NEW p \in Ledger,
         NEW to \in Active \cup Resumable \cup Terminal,
         SaveProgress(e, p, to), Writable(e) => Keeps(task, p), flight' = flight
  PROVE  /\ LostOutcomeKept' /\ CompletionSound'
         /\ \A g \in Exec \ {e} : Sync(g)'
         /\ status' \in Active \cup Resumable \cup Terminal /\ task' \in Ledger
         /\ owner' = owner /\ cancel' = cancel /\ pause' = pause /\ stale' = stale
<1>1. CASE Writable(e)
  <2>1. task' = p /\ status' = to /\ owner' = e /\ owner' = owner
        /\ cancel' = cancel /\ pause' = pause /\ stale' = stale
    BY <1>1 DEF SaveProgress, Writable, Owns
  <2>2. \A g \in Exec \ {e} : Sync(g)'
    BY <2>1, Frame
  <2>3. LostOutcomeKept'
    BY <1>1, <2>1 DEF Inv, TypeOK, LostOutcomeKept, Keeps, Lost
  <2> QED
    BY <2>1, <2>2, <2>3, AutopilotAssumption DEF CompletionSound
<1>2. CASE ~Writable(e)
  <2>1. task' = task /\ status' = status /\ owner' = owner
        /\ cancel' = cancel /\ pause' = pause /\ stale' = stale
    BY <1>2 DEF SaveProgress
  <2> QED
    BY <2>1, QuietStep DEF Inv, TypeOK
<1> QED
  BY <1>1, <1>2

------------------------------------------------------------------------------
(* The steps of an execution. *)

LEMMA InitInv == Init => Inv
<1> SUFFICES ASSUME Init PROVE Inv
  OBVIOUS
<1>1. TypeOK
  BY AutopilotAssumption, Zenon
  DEF Init, TypeOK, NoPlan, Ledger, TaskStatus, Resumable, Phase
<1>2. LostOutcomeKept /\ CompletionSound
  BY DEF Init, LostOutcomeKept, CompletionSound
<1>3. \A e \in Exec : Sync(e)
  BY DEF Init, Sync, Writable, Owns, Active
<1> QED
  BY <1>1, <1>2, <1>3 DEF Inv

(* Only the state of the execution itself changes. *)
LEMMA QuietInv ==
  ASSUME Inv, NEW e \in Exec, Others(e), UNCHANGED <<row, task, stale, flight>>,
         pc' \in [Exec -> Phase \cup Release], plan' \in [Exec -> Ledger],
         todo' \in [Exec -> Task \cup {0}], Sync(e)'
  PROVE  Inv'
<1>1. status' = status /\ owner' = owner /\ cancel' = cancel /\ pause' = pause
      /\ task' = task /\ stale' = stale /\ flight' = flight
  BY DEF row
<1>2. TypeOK'
  BY <1>1 DEF Inv, TypeOK
<1>3. LostOutcomeKept' /\ CompletionSound' /\ \A g \in Exec \ {e} : Sync(g)'
  BY <1>1, QuietStep, Zenon
<1> QED
  BY <1>2, <1>3 DEF Inv

(* The copy is not used where the execution goes next. *)
LEMMA AwayInv ==
  ASSUME Inv, NEW e \in Exec, NEW label \in Phase \cup Release,
         label \notin Copied \cup Busy \cup {"planned"}, Goto(e, label),
         UNCHANGED <<row, task, stale, plan, todo, flight>>
  PROVE  Inv'
<1>1. pc' \in [Exec -> Phase \cup Release] /\ Others(e) /\ pc'[e] = label
  BY DEF Inv, TypeOK, Goto, Others
<1>2. Sync(e)'
  BY <1>1 DEF Sync, Copied, Reviews
<1> QED
  BY <1>1, <1>2, QuietInv DEF Inv, TypeOK

(* The flags send an execution to an error or to a release. *)
LEMMA FlaggedInv ==
  ASSUME Inv, NEW e \in Exec, NEW heed, Flagged(e, heed),
         UNCHANGED <<row, task, stale, plan, todo, flight>>
  PROVE  Inv'
<1>1. PICK label \in {"error", "cancelled", "paused"} : Goto(e, label)
  BY DEF Flagged
<1> QED
  BY <1>1, AwayInv DEF Phase, Release, Terminal, Copied, Busy, Reviews

(* The execution goes on with its copy as it is. *)
LEMMA OnwardInv ==
  ASSUME Inv, NEW e \in Exec, NEW label \in Copied, pc[e] \in Copied,
         Goto(e, label),
         label \notin {"plan", "start"}, label = "failure" => plan[e][todo[e]] = "failed",
         UNCHANGED <<row, task, stale, plan, todo, flight>>
  PROVE  Inv'
<1>1. pc' \in [Exec -> Phase \cup Release] /\ Others(e) /\ pc'[e] = label
  BY DEF Inv, TypeOK, Goto, Others, Copied, Phase, Reviews
<1>2. Writable(e)' = Writable(e) /\ plan' = plan /\ task' = task /\ todo' = todo
  BY DEF row, Writable, Owns
<1>3. Sync(e)'
  BY <1>1, <1>2, Zenon DEF Inv, Sync, Copied, Busy, Reviews
<1> QED
  BY <1>1, <1>3, QuietInv DEF Inv, TypeOK

LEMMA UnchangedInv == ASSUME Inv, NEW e \in Exec, Unchanged(e) PROVE Inv'
<1>1. CASE pc'[e] = "plan" /\ plan[e] = NoPlan
  <2>1. pc' = [pc EXCEPT ![e] = "plan"] /\ UNCHANGED <<row, task, stale, plan, todo, flight>>
        /\ pc[e] = "resume"
    BY <1>1, Zenon DEF Unchanged, Goto, Inv, TypeOK
  <2>2. pc' \in [Exec -> Phase \cup Release] /\ Others(e) /\ pc'[e] = "plan"
    BY <2>1 DEF Inv, TypeOK, Others, Phase
  <2>3. Writable(e)' = Writable(e) /\ plan' = plan /\ task' = task
    BY <2>1 DEF row, Writable, Owns
  <2>4. Sync(e)'
    BY <1>1, <2>1, <2>2, <2>3, Zenon DEF Inv, Sync, Copied, Busy, NoPlan
  <2> QED
    BY <2>1, <2>2, <2>4, QuietInv DEF Inv, TypeOK
<1>2. CASE Goto(e, "top") \/ Goto(e, "error")
  BY <1>2, AwayInv DEF Unchanged, Phase, Copied, Busy, Reviews
<1> QED
  BY <1>1, <1>2 DEF Unchanged, Goto, Inv, TypeOK

LEMMA PlanInv == ASSUME Inv, NEW e \in Exec, Plan(e) PROVE Inv'
<1>1. CASE Flagged(e, FALSE) /\ UNCHANGED plan
  BY <1>1, FlaggedInv, Zenon DEF Plan
<1>2. CASE Goto(e, "error") /\ UNCHANGED plan
  BY <1>2, AwayInv DEF Plan, Phase, Copied, Busy, Reviews
<1>3. ASSUME Goto(e, "planned"), NEW p \in Extensions(NoPlan, {}), Local(e, p)
      PROVE  Inv'
  <2>1. NoPlan \in Ledger /\ p \in Ledger
    BY <1>3, ExtensionsKeep, Zenon DEF NoPlan, Ledger, TaskStatus
  <2>2. pc' \in [Exec -> Phase \cup Release] /\ plan' \in [Exec -> Ledger] /\ Others(e)
        /\ pc'[e] = "planned" /\ pc[e] = "plan"
    BY <1>3, <2>1, Zenon DEF Plan, Inv, TypeOK, Goto, Local, Others, Phase
  <2>3. Sync(e)'
    BY <2>2 DEF Plan, Inv, Sync, Copied, Busy, Reviews, Writable, Owns, row, NoPlan
  <2> QED
    BY <2>2, <2>3, QuietInv, Zenon DEF Plan, Inv, TypeOK
<1> QED
  BY <1>1, <1>2, <1>3, Zenon DEF Plan

LEMMA TopInv == ASSUME Inv, NEW e \in Exec, Top(e) PROVE Inv'
<1>1. CASE Flagged(e, TRUE)
  BY <1>1, FlaggedInv, Zenon DEF Top
<1>2. CASE Goto(e, "pick") \/ Goto(e, "paused")
  BY <1>2, AwayInv DEF Top, Phase, Release, Copied, Busy, Reviews
<1> QED
  BY <1>1, <1>2, Zenon DEF Top

(* The ledger is read again: the copy is exact, whoever owns the run. *)
LEMMA ReadInv ==
  ASSUME Inv, NEW e \in Exec, NEW label \in {"start", "completion", "final"} \cup Release,
         Goto(e, label), Local(e, task), todo' \in [Exec -> Task \cup {0}],
         \A g \in Exec \ {e} : todo'[g] = todo[g],
         label = "start" => todo'[e] \in Runnable(task),
         UNCHANGED <<row, task, stale, flight>>
  PROVE  Inv'
<1>1. pc' \in [Exec -> Phase \cup Release] /\ plan' \in [Exec -> Ledger] /\ Others(e)
      /\ pc'[e] = label /\ plan'[e] = task
  BY DEF Inv, TypeOK, Goto, Local, Others, Phase
<1>2. Runnable(task)' = Runnable(task) /\ task' = task
  BY Zenon DEF Runnable
<1>3. Sync(e)'
  BY <1>1, <1>2 DEF Sync, Copied, Busy, Reviews, Release, Terminal
<1> QED
  BY <1>1, <1>3, QuietInv

LEMMA PickInv == ASSUME Inv, NEW e \in Exec, Pick(e) PROVE Inv'
<1>1. ASSUME NEW t \in Runnable(task), todo' = [todo EXCEPT ![e] = t], Goto(e, "start")
      PROVE  Inv'
  <2>1. t \in Task
    BY DEF Runnable
  <2>2. todo' \in [Exec -> Task \cup {0}] /\ todo'[e] = t /\ \A g \in Exec \ {e} : todo'[g] = todo[g]
    BY <1>1, <2>1 DEF Inv, TypeOK
  <2> QED
    BY <1>1, <2>2, ReadInv DEF Pick
<1>2. ASSUME NEW label \in {"paused", "completion", "blocked"}, Goto(e, label), UNCHANGED todo
      PROVE  Inv'
  <2>1. todo' \in [Exec -> Task \cup {0}] /\ \A g \in Exec \ {e} : todo'[g] = todo[g]
    BY <1>2, Zenon DEF Inv, TypeOK
  <2> QED
    BY <1>2, <2>1, ReadInv, Zenon DEF Pick, Release
<1> QED
  BY <1>1, <1>2 DEF Pick

LEMMA ExitLoopInv == ASSUME Inv, NEW e \in Exec, ExitLoop(e) PROVE Inv'
<1>1. PICK label \in {"final", "paused"} : Goto(e, label)
  BY Zenon DEF ExitLoop
<1>2. todo' \in [Exec -> Task \cup {0}] /\ \A g \in Exec \ {e} : todo'[g] = todo[g]
  BY Zenon DEF Inv, TypeOK, ExitLoop
<1> QED
  BY <1>1, <1>2, ReadInv, Zenon DEF ExitLoop, Release

LEMMA WorkInv == ASSUME Inv, NEW e \in Exec, Work(e) PROVE Inv'
<1>1. ASSUME NEW s \in TaskStatus, Local(e, [plan[e] EXCEPT ![todo[e]] = s]), Goto(e, "worked")
      PROVE  Inv'
  <2>1. pc' \in [Exec -> Phase \cup Release] /\ plan' \in [Exec -> Ledger] /\ Others(e)
        /\ pc'[e] = "worked" /\ pc[e] = "work" /\ plan'[e] = [plan[e] EXCEPT ![todo[e]] = s]
    BY <1>1, Zenon DEF Work, Inv, TypeOK, Goto, Local, Others, Phase, Ledger
  <2>2. \A t \in Task : t # todo[e] => plan'[e][t] = plan[e][t]
    BY <2>1, Zenon DEF Inv, TypeOK, Ledger
  <2>3. Writable(e)' = Writable(e) /\ task' = task /\ todo' = todo /\ flight' = flight
    BY Zenon DEF Work, Writable, Owns, row
  <2>4. Sync(e)'
    BY <2>1, <2>2, <2>3, Zenon DEF Inv, Sync, Copied, Busy, Reviews
  <2> QED
    BY <2>1, <2>4, QuietInv, Zenon DEF Work, Inv, TypeOK
<1>2. CASE Goto(e, "error") /\ UNCHANGED plan
  BY <1>2, AwayInv DEF Work, Phase, Copied, Busy, Reviews
<1>3. Outcome(Kind[todo[e]]) \subseteq TaskStatus /\ "infra_retry" \in TaskStatus
  BY DEF Outcome, TaskStatus
<1> QED
  BY <1>1, <1>2, <1>3, Zenon DEF Work

LEMMA WorkedInv == ASSUME Inv, NEW e \in Exec, Worked(e) PROVE Inv'
<1>1. CASE Flagged(e, FALSE)
  BY <1>1, FlaggedInv, Zenon DEF Worked
<1>2. CASE Goto(e, "save")
  <2>1. pc' \in [Exec -> Phase \cup Release] /\ Others(e) /\ pc'[e] = "save" /\ pc[e] = "worked"
    BY <1>2 DEF Worked, Inv, TypeOK, Goto, Others, Phase
  <2>2. Writable(e)' = Writable(e) /\ task' = task /\ todo' = todo /\ flight' = flight /\ plan' = plan
    BY DEF Worked, Writable, Owns, row
  <2>3. Sync(e)'
    BY <2>1, <2>2, Zenon DEF Inv, Sync, Copied, Busy, Reviews
  <2> QED
    BY <2>1, <2>3, QuietInv DEF Worked, Inv, TypeOK
<1> QED
  BY <1>1, <1>2, Zenon DEF Worked

LEMMA JudgeInv == ASSUME Inv, NEW e \in Exec, Judge(e) PROVE Inv'
<1> UNCHANGED <<row, task, stale, plan, todo, flight>> /\ pc[e] \in Copied
  BY DEF Judge, Copied
<1>1. CASE Flagged(e, TRUE)
  BY <1>1, FlaggedInv, Zenon
<1>2. CASE Goto(e, "error") \/ Goto(e, "top") \/ Goto(e, "blocked")
  BY <1>2, AwayInv, Zenon DEF Phase, Release, Copied, Busy, Reviews
<1>3. CASE Goto(e, "checkpoint")
  BY <1>3, OnwardInv DEF Copied, Reviews
<1>4. CASE plan[e][todo[e]] = "failed" /\ Goto(e, "failure")
  BY <1>4, OnwardInv DEF Copied, Reviews
<1> QED
  BY <1>1, <1>2, <1>3, <1>4, Zenon DEF Judge

(* The steps of a review that write nothing, and the end of an error. *)
LEMMA ReviewInv ==
  ASSUME Inv, NEW e \in Exec,
         Interrupted(e) \/ Complete(e) \/ Decline(e) \/ Unwind(e)
  PROVE  Inv'
<1> UNCHANGED <<row, task, stale, plan, todo, flight>>
  BY Zenon DEF Interrupted, Complete, Decline, Unwind
<1>1. CASE Flagged(e, TRUE)
  BY <1>1, FlaggedInv, Zenon
<1>2. ASSUME NEW label \in Release \cup {"error", "top"}, Goto(e, label)
      PROVE  Inv'
  BY <1>2, AwayInv DEF Phase, Release, Terminal, Copied, Busy, Reviews
<1> QED
  BY <1>1, <1>2, Zenon DEF Interrupted, Complete, Decline, Unwind, Release, Terminal

LEMMA CrashInv == ASSUME Inv, NEW e \in Exec, Crash(e) PROVE Inv'
<1>1. pc' \in [Exec -> Phase \cup Release] /\ plan' \in [Exec -> Ledger] /\ Others(e)
      /\ todo' \in [Exec -> Task \cup {0}] /\ pc'[e] = "dead"
  BY Zenon DEF Crash, Inv, TypeOK, Goto, Local, Others, Phase, NoPlan, Ledger, TaskStatus
<1>2. Sync(e)'
  BY <1>1 DEF Sync, Copied, Busy, Reviews
<1> QED
  BY <1>1, <1>2, QuietInv DEF Crash

(* A save, after which the copy is what was written, or is not used. *)
LEMMA SavedInv ==
  ASSUME Inv, NEW e \in Exec, NEW p \in Ledger, NEW q \in Ledger,
         NEW to \in Active \cup Resumable \cup Terminal,
         SaveProgress(e, p, to), Writable(e) => Keeps(task, p),
         NEW label \in Phase \cup Release, Goto(e, label), Local(e, q),
         \/ label \notin Copied \cup Busy \cup {"planned"}
         \/ label \in {"resume", "accept", "acknowledge"} /\ (Writable(e) => q = p),
         UNCHANGED <<todo, flight>>
  PROVE  Inv'
<1>1. pc' \in [Exec -> Phase \cup Release] /\ plan' \in [Exec -> Ledger] /\ Others(e)
      /\ pc'[e] = label /\ plan'[e] = q
  BY Zenon DEF Inv, TypeOK, Goto, Local, Others
<1>2. /\ LostOutcomeKept' /\ CompletionSound'
      /\ \A g \in Exec \ {e} : Sync(g)'
      /\ status' \in Active \cup Resumable \cup Terminal /\ task' \in Ledger
      /\ owner' = owner /\ cancel' = cancel /\ pause' = pause /\ stale' = stale
  BY <1>1, SaveStep, Zenon
<1>3. TypeOK'
  BY <1>1, <1>2 DEF Inv, TypeOK
<1>4. Sync(e)'
  <2>1. CASE label \notin Copied \cup Busy \cup {"planned"}
    BY <1>1, <2>1, Zenon DEF Sync, Copied, Reviews
  <2>2. CASE label \in {"resume", "accept", "acknowledge"} /\ (Writable(e) => q = p)
    <3>1. Writable(e)' => Writable(e) /\ task' = p
      BY <1>2 DEF SaveProgress, Writable, Owns
    <3> QED
      BY <1>1, <2>2, <3>1, Zenon DEF Sync, Copied, Busy, Reviews
  <2> QED
    BY <2>1, <2>2, Zenon
<1> QED
  BY <1>2, <1>3, <1>4 DEF Inv

(* The statuses that the controller saves. *)
LEMMA SavedStatus == Inv => {"running", status} \subseteq Active \cup Resumable \cup Terminal
BY DEF Inv, TypeOK, Active

LEMMA PortSaveInv == ASSUME Inv, NEW e \in Exec, PortSave(e) PROVE Inv'
<1>1. plan[e] \in Ledger /\ Local(e, plan[e]) /\ task \in Ledger /\ Keeps(task, task)
  BY Zenon DEF PortSave, Inv, TypeOK, Local, Keeps
<1>2. PICK to \in Active \cup Resumable \cup Terminal : SaveProgress(e, task, to)
  BY Zenon DEF PortSave
<1>3. PICK label \in Release : Goto(e, label)
  BY Zenon DEF PortSave
<1>4. label \in Phase \cup Release /\ label \notin Copied \cup Busy \cup {"planned"}
  BY <1>3 DEF Release, Terminal, Copied, Busy, Reviews
<1> QED
  BY <1>1, <1>2, <1>3, <1>4, SavedInv, Zenon DEF PortSave

LEMMA RefuseReplayInv == ASSUME Inv, NEW e \in Exec, RefuseReplay(e) PROVE Inv'
<1> DEFINE p == Replaced(plan[e], {"running"}, "uncertain")
<1>1. plan[e] \in Ledger /\ Local(e, plan[e]) /\ (Writable(e) => plan[e] = task)
  BY Zenon DEF RefuseReplay, Inv, TypeOK, Local, Sync, Copied
<1>2. p \in Ledger /\ Keeps(plan[e], p)
  BY <1>1, ReplacedKeeps, Zenon DEF TaskStatus, Lost
<1> QED
  BY <1>1, <1>2, SavedInv, SavedStatus DEF RefuseReplay, Phase, Release, Copied, Busy, Reviews

LEMMA ClearDeferredInv == ASSUME Inv, NEW e \in Exec, ClearDeferred(e) PROVE Inv'
<1> DEFINE p == Replaced(plan[e], {"deferred"}, "pending")
<1>1. plan[e] \in Ledger /\ (Writable(e) => plan[e] = task) /\ pc[e] \in Copied
  BY Zenon DEF ClearDeferred, Inv, TypeOK, Sync, Copied
<1>2. p \in Ledger /\ Keeps(plan[e], p)
  BY <1>1, ReplacedKeeps, Zenon DEF TaskStatus, Lost
<1>3. CASE Has(plan[e], "deferred")
  BY <1>1, <1>2, <1>3, SavedInv, SavedStatus, Zenon DEF ClearDeferred, Phase
<1>4. CASE ~Has(plan[e], "deferred")
  BY <1>1, <1>4, OnwardInv, Zenon DEF ClearDeferred, Copied
<1> QED
  BY <1>3, <1>4

LEMMA DropEvidenceInv == ASSUME Inv, NEW e \in Exec, DropEvidence(e) PROVE Inv'
<1> DEFINE p == [t \in Task |-> IF Kind[t] = "validate" /\ plan[e][t] = "passed"
                                  THEN "pending" ELSE plan[e][t]]
           q == IF Writable(e) THEN p ELSE plan[e]
<1>1. plan[e] \in Ledger /\ (Writable(e) => plan[e] = task)
  BY DEF DropEvidence, Inv, TypeOK, Sync, Copied
<1>2. p \in Ledger /\ Keeps(plan[e], p) /\ q \in Ledger
  BY <1>1, Zenon DEF Ledger, TaskStatus, Keeps, Lost
<1>3. SaveProgress(e, p, status) /\ Local(e, q) /\ UNCHANGED <<todo, flight>>
  BY Zenon DEF DropEvidence
<1>4. PICK label \in {"accept", "paused", "error"} : Goto(e, label)
  BY Zenon DEF DropEvidence
<1>5. (Writable(e) => Keeps(task, p)) /\ (Writable(e) => q = p)
  BY <1>1, <1>2, Zenon
<1> HIDE DEF p, q
<1> QED
  BY <1>2, <1>3, <1>4, <1>5, SavedInv, SavedStatus DEF Phase, Release, Copied, Busy, Reviews

LEMMA AcceptPlanInv == ASSUME Inv, NEW e \in Exec, AcceptPlan(e) PROVE Inv'
<1>1. plan[e] \in Ledger /\ (Writable(e) => plan[e] = task) /\ UNCHANGED <<todo, flight>>
  BY DEF AcceptPlan, Inv, TypeOK, Sync, Copied
<1>2. ASSUME NEW p \in Extensions(plan[e], Open(plan[e])), SaveProgress(e, p, status), Local(e, p),
             Goto(e, IF Writable(e) THEN "acknowledge" ELSE "error")
      PROVE  Inv'
  <2>1. p \in Ledger /\ Keeps(plan[e], p)
    BY <1>1, ExtensionsKeep, Zenon
  <2>2. CASE Writable(e)
    BY <1>1, <1>2, <2>1, <2>2, SavedInv, SavedStatus DEF Phase
  <2>3. CASE ~Writable(e)
    BY <1>1, <1>2, <2>1, <2>3, SavedInv, SavedStatus, Zenon DEF Phase, Copied, Busy, Reviews
  <2> QED
    BY <2>2, <2>3, Zenon
<1>3. CASE (Goto(e, "paused") \/ Goto(e, "error")) /\ UNCHANGED <<row, task, stale, plan>>
  BY <1>1, <1>3, AwayInv, Zenon DEF Phase, Release, Copied, Busy, Reviews
<1> QED
  BY <1>2, <1>3, Zenon DEF AcceptPlan

LEMMA SavePlanInv == ASSUME Inv, NEW e \in Exec, SavePlan(e) PROVE Inv'
<1>1. plan[e] \in Ledger /\ Local(e, plan[e])
  BY Zenon DEF SavePlan, Inv, TypeOK, Local
<1>2. Writable(e) => Keeps(task, plan[e])
  BY Zenon DEF SavePlan, Inv, Sync, NoPlan, Keeps, Lost
<1> QED
  BY <1>1, <1>2, SavedInv, SavedStatus DEF SavePlan, Phase, Release, Copied, Busy, Reviews

LEMMA RetryInv == ASSUME Inv, NEW e \in Exec, Retry(e) PROVE Inv'
<1> DEFINE p == [plan[e] EXCEPT ![todo[e]] = "pending"]
<1>1. plan[e] \in Ledger /\ (Writable(e) => plan[e] = task /\ plan[e][todo[e]] = "failed")
  BY Zenon DEF Retry, Inv, TypeOK, Sync, Copied, Reviews
<1>2. p \in Ledger /\ (Writable(e) => Keeps(plan[e], p))
  BY <1>1, Zenon DEF Ledger, TaskStatus, Keeps, Lost
<1> QED
  BY <1>1, <1>2, SavedInv, SavedStatus, Zenon DEF Retry, Phase, Copied, Busy, Reviews

LEMMA ReplanInv == ASSUME Inv, NEW e \in Exec, Replan(e) PROVE Inv'
<1> DEFINE r == [plan[e] EXCEPT ![todo[e]] = "superseded"]
<1>1. plan[e] \in Ledger /\ (Writable(e) => plan[e] = task) /\ Goto(e, "top")
      /\ UNCHANGED <<todo, flight>>
  BY Zenon DEF Replan, Inv, TypeOK, Sync, Copied
<1>2. PICK p : /\ SaveProgress(e, p, status) /\ Local(e, p)
               /\ \/ pc[e] = "failure" /\ p \in Extensions(r, {})
                  \/ \E drop \in SUBSET Open(plan[e]) : p \in Extensions(plan[e], drop)
  BY Zenon DEF Replan
<1>3. p \in Ledger /\ (Writable(e) => Keeps(plan[e], p))
  <2>1. CASE pc[e] = "failure" /\ p \in Extensions(r, {})
    <3>1. r \in Ledger /\ (Writable(e) => Keeps(plan[e], r))
      BY <1>1, <2>1, Zenon DEF Inv, Sync, Ledger, TaskStatus, Keeps, Lost
    <3>2. p \in Ledger /\ Keeps(r, p)
      BY <2>1, <3>1, ExtensionsKeep
    <3> QED
      BY <3>1, <3>2, Zenon DEF Keeps
  <2>2. CASE \E drop \in SUBSET Open(plan[e]) : p \in Extensions(plan[e], drop)
    BY <1>1, <2>2, ExtensionsKeep, Zenon
  <2> QED
    BY <1>2, <2>1, <2>2
<1> QED
  BY <1>1, <1>2, <1>3, SavedInv, SavedStatus, Zenon DEF Phase, Copied, Busy, Reviews

(* A task is started only where no execution has it in flight. *)
LEMMA StartInv == ASSUME Inv, NEW e \in Exec, Start(e) PROVE Inv'
<1> DEFINE p == [plan[e] EXCEPT ![todo[e]] = "running"]
<1>1. plan[e] \in Ledger /\ p \in Ledger /\ SaveProgress(e, p, "running") /\ Local(e, p)
      /\ UNCHANGED todo /\ pc[e] = "start"
  BY Zenon DEF Start, Inv, TypeOK, Ledger, TaskStatus
<1>2. CASE ~Writable(e)
  <2>1. PICK label \in {"cancelled", "error"} : Goto(e, label) /\ UNCHANGED flight
    BY <1>2 DEF Start
  <2>2. label \in Phase \cup Release /\ label \notin Copied \cup Busy \cup {"planned"}
    BY DEF Phase, Release, Terminal, Copied, Busy, Reviews
  <2> HIDE DEF p
  <2> QED
    BY <1>1, <1>2, <2>1, <2>2, SavedInv, SavedStatus, Zenon
<1>3. CASE Writable(e)
  <2>1. plan[e] = task /\ todo[e] \in Runnable(task) /\ todo[e] \in Task
    BY <1>1, <1>3, Zenon DEF Inv, Sync, Copied, Runnable
  <2>2. /\ task' = p /\ status' = "running" /\ owner' = e /\ cancel' = cancel
        /\ pause' = pause /\ stale' = stale
    BY <1>1, <1>3, Zenon DEF SaveProgress, Writable, Owns
  <2>3. Goto(e, "work") /\ flight' = [flight EXCEPT ![e] = todo[e]]
    BY <1>3, Zenon DEF Start
  <2>4. \A f \in Exec : flight[f] # todo[e]
    BY <2>1, AutopilotAssumption DEF Inv, LostOutcomeKept, Runnable, Task
  <2>5. /\ pc' \in [Exec -> Phase \cup Release] /\ plan' \in [Exec -> Ledger] /\ Others(e)
        /\ pc'[e] = "work" /\ plan'[e] = p /\ flight' \in [Exec -> Task \cup {0}]
    BY <1>1, <2>1, <2>3, Zenon DEF Inv, TypeOK, Goto, Local, Others, Phase
  <2>6. TypeOK'
    BY <1>1, <2>2, <2>5, Zenon DEF Inv, TypeOK, Active
  <2>7. \A t \in Task : t # todo[e] => p[t] = task[t]
    BY <1>1, <2>1, Zenon DEF Ledger
  <2>8. p[todo[e]] = "running"
    BY <1>1, <2>1, Zenon DEF Ledger
  <2> HIDE DEF p
  <2>9. LostOutcomeKept'
    <3> SUFFICES ASSUME NEW f \in Exec, flight'[f] # 0
                 PROVE  task'[flight'[f]] \in Lost
      BY DEF LostOutcomeKept, Lost
    <3>1. CASE f = e
      BY <2>2, <2>3, <2>8, <3>1, Zenon DEF Inv, TypeOK, Lost
    <3>2. CASE f # e
      BY <2>2, <2>3, <2>4, <2>7, <3>2, Zenon DEF Inv, TypeOK, LostOutcomeKept, Lost
    <3> QED
      BY <3>1, <3>2
  <2>10. CompletionSound'
    BY <2>2, Zenon DEF CompletionSound
  <2>11. Sync(e)'
    BY <1>1, <2>1, <2>2, <2>3, <2>4, <2>5, <2>8, Zenon
       DEF Sync, Copied, Busy, Reviews, Inv, TypeOK
  <2>12. \A g \in Exec \ {e} : Sync(g)'
    BY <2>2, <2>5, Frame, Zenon
  <2> QED
    BY <2>6, <2>9, <2>10, <2>11, <2>12, Zenon DEF Inv
<1> QED
  BY <1>2, <1>3, Zenon

(* An outcome is recorded only by the execution that has it. *)
LEMMA SaveResultInv == ASSUME Inv, NEW e \in Exec, SaveResult(e) PROVE Inv'
<1>1. plan[e] \in Ledger /\ SaveProgress(e, plan[e], status) /\ UNCHANGED <<plan, todo>> /\ pc[e] = "save"
  BY Zenon DEF SaveResult, Inv, TypeOK
<1>2. PICK label \in {"top", "paused", "judge"} : Goto(e, label)
  BY Zenon DEF SaveResult
<1>3. /\ pc' \in [Exec -> Phase \cup Release] /\ Others(e) /\ pc'[e] = label
  BY <1>1, <1>2, Zenon DEF Inv, TypeOK, Goto, Others, Phase, Release
<1>4. CASE ~Writable(e)
  <2>1. /\ flight' = flight /\ task' = task /\ status' = status /\ owner' = owner
        /\ cancel' = cancel /\ pause' = pause /\ stale' = stale
    BY <1>1, <1>4, Zenon DEF SaveResult, SaveProgress
  <2>2. ~Writable(e)'
    BY <1>4, <2>1 DEF Writable, Owns
  <2> QED
    BY <1>1, <1>3, <2>1, <2>2, QuietInv DEF Sync, row, Inv, TypeOK
<1>5. CASE Writable(e)
  <2>1. /\ todo[e] \in Task /\ task[todo[e]] = "running"
        /\ \A t \in Task : t # todo[e] => plan[e][t] = task[t]
        /\ \A f \in Exec : f # e => flight[f] # todo[e]
    BY <1>1, <1>5, ZenonT(40) DEF Inv, Sync, Busy
  <2>2. /\ task' = plan[e] /\ status' = status /\ owner' = e /\ cancel' = cancel
        /\ pause' = pause /\ stale' = stale /\ flight' = [flight EXCEPT ![e] = 0]
    BY <1>1, <1>5, Zenon DEF SaveResult, SaveProgress, Writable, Owns
  <2>3. TypeOK'
    BY <1>1, <1>3, <2>2, Zenon DEF Inv, TypeOK
  <2>4. LostOutcomeKept'
    BY <2>1, <2>2 DEF Inv, TypeOK, LostOutcomeKept
  <2>5. CompletionSound'
    BY <2>2, AutopilotAssumption, Zenon DEF CompletionSound
  <2>6. Sync(e)'
    BY <1>1, <1>3, <2>2, Zenon DEF Sync, Copied, Busy, Reviews
  <2>7. \A g \in Exec \ {e} : Sync(g)'
    BY <1>3, <2>2, Frame, Zenon
  <2> QED
    BY <2>3, <2>4, <2>5, <2>6, <2>7, Zenon DEF Inv
<1> QED
  BY <1>4, <1>5

(* The notice of a changed workspace is set and taken back by the owner. *)
LEMMA NoticeInv ==
  ASSUME Inv, NEW e \in Exec, Changed(e) \/ Acknowledge(e) PROVE Inv'
<1>1. /\ status' = status /\ owner' = owner /\ cancel' = cancel /\ pause' = pause
      /\ task' = task /\ plan' = plan /\ todo' = todo /\ flight' = flight
      /\ pc[e] \in Copied
  BY Zenon DEF Changed, Acknowledge, row, Copied
<1>2. PICK label \in {"inspect", "top", "error"} : Goto(e, label)
  BY Zenon DEF Changed, Acknowledge
<1>3. pc' \in [Exec -> Phase \cup Release] /\ Others(e) /\ pc'[e] = label
  BY <1>1, <1>2 DEF Inv, TypeOK, Goto, Others, Phase
<1>4. stale' \in BOOLEAN
  BY Zenon DEF Changed, Acknowledge, Inv, TypeOK
<1>5. TypeOK'
  BY <1>1, <1>3, <1>4, Zenon DEF Inv, TypeOK
<1>6. LostOutcomeKept'
  BY <1>1, Zenon DEF Inv, LostOutcomeKept
<1>7. CompletionSound'
  <2>1. status = "completed" => stale' = stale
    BY Zenon DEF Changed, Acknowledge, Writable, Owns, Active
  <2> QED
    BY <1>1, <2>1, Zenon DEF Inv, CompletionSound, Evidence
<1>8. Sync(e)'
  BY <1>1, <1>3, Zenon DEF Inv, Sync, Copied, Busy, Reviews, Writable, Owns
<1>9. \A g \in Exec \ {e} : Sync(g)'
  BY <1>1, <1>3, Frame, Zenon
<1> QED
  BY <1>5, <1>6, <1>7, <1>8, <1>9, Zenon DEF Inv

LEMMA ClaimInv == ASSUME Inv, NEW e \in Exec, Claim(e) PROVE Inv'
<1>1. /\ status' \in Active /\ owner' = e /\ cancel' = cancel /\ pause' = FALSE
      /\ task' = task /\ stale' = stale /\ todo' = todo /\ flight' = flight
  BY Zenon DEF Claim, Active
<1>2. pc' \in [Exec -> Phase \cup Release] /\ plan' \in [Exec -> Ledger] /\ Others(e)
      /\ pc'[e] = "claimed" /\ plan'[e] = task
  BY <1>1 DEF Claim, Inv, TypeOK, Goto, Local, Others, Phase
<1>3. TypeOK'
  BY <1>1, <1>2, Zenon DEF Inv, TypeOK
<1>4. LostOutcomeKept' /\ CompletionSound'
  BY <1>1, Zenon DEF Inv, LostOutcomeKept, CompletionSound, Active
<1>5. Sync(e)'
  BY <1>1, <1>2, Zenon DEF Sync, Busy, Reviews
<1>6. \A g \in Exec \ {e} : Sync(g)'
  BY <1>1, <1>2, Frame
<1> QED
  BY <1>3, <1>4, <1>5, <1>6 DEF Inv

(* Closing the open tasks keeps every lost outcome. *)
LEMMA ClosedKeeps ==
  ASSUME NEW p \in Ledger PROVE Closed(p) \in Ledger /\ Keeps(p, Closed(p))
BY ReplacedKeeps, Zenon DEF Closed, TaskStatus, Lost

LEMMA FinishInv == ASSUME Inv, NEW e \in Exec, Finish(e) PROVE Inv'
<1>1. FinishRun(e, pc[e]) /\ pc[e] \in Release /\ flight' = flight
  BY Zenon DEF Finish
<1>2. pc' \in [Exec -> Phase \cup Release] /\ plan' \in [Exec -> Ledger] /\ Others(e)
      /\ todo' \in [Exec -> Task \cup {0}] /\ pc'[e] = "done"
  BY Zenon DEF Finish, Inv, TypeOK, Goto, Local, Others, Phase, NoPlan, Ledger, TaskStatus
<1>3. Sync(e)'
  BY <1>2, Zenon DEF Sync, Copied, Busy, Reviews
<1>4. CASE Owns(e) /\ (pc[e] = "completed" => Evidence(task) /\ ~stale)
  <2>1. /\ status' = pc[e] /\ owner' = NoExec /\ pause' = FALSE
        /\ cancel' = cancel /\ stale' = stale
        /\ task' = IF pc[e] = "cancelled" THEN Closed(task) ELSE task
    BY <1>1, <1>4, Zenon DEF FinishRun
  <2>2. task' \in Ledger /\ Keeps(task, task')
    BY <2>1, ClosedKeeps, Zenon DEF Inv, TypeOK, Keeps
  <2>3. TypeOK'
    BY <1>1, <1>2, <2>1, <2>2, Zenon DEF Inv, TypeOK, Release, Resumable
  <2>4. LostOutcomeKept'
    BY <1>1, <2>2, Zenon DEF Inv, TypeOK, LostOutcomeKept, Keeps, Lost
  <2>5. CompletionSound'
    <3> SUFFICES ASSUME status' = "completed" PROVE Evidence(task)' /\ ~stale' /\ \A g \in Exec : flight'[g] = 0
      BY DEF CompletionSound
    <3>1. Evidence(task) /\ ~stale /\ task' = task
      BY <1>4, <2>1, Zenon
    <3>2. \A g \in Exec : flight[g] = 0
      BY <3>1, Zenon DEF Inv, TypeOK, LostOutcomeKept, Evidence
    <3> QED
      BY <1>1, <2>1, <3>1, <3>2 DEF Evidence
  <2>6. \A g \in Exec \ {e} : Sync(g)'
    BY <1>2, <2>1, Frame, AutopilotAssumption
  <2> QED
    BY <1>3, <2>3, <2>4, <2>5, <2>6 DEF Inv
<1>5. CASE ~(Owns(e) /\ (pc[e] = "completed" => Evidence(task) /\ ~stale))
  <2>1. UNCHANGED <<row, task, stale, flight>>
    BY <1>1, <1>5, Zenon DEF FinishRun, row
  <2> QED
    BY <1>2, <1>3, <2>1, QuietInv, Zenon
<1> QED
  BY <1>4, <1>5, Zenon

------------------------------------------------------------------------------
(* The operator and the reconciliation. *)

LEMMA EnvironmentInv ==
  ASSUME Inv, RequestPause \/ RequestCancel \/ ReconcileStaleRuns PROVE Inv'
<1>1. /\ pc' = pc /\ plan' = plan /\ todo' = todo /\ flight' = flight /\ stale' = stale
  BY Zenon DEF RequestPause, RequestCancel, ReconcileStaleRuns, controller
<1>2. task' \in Ledger /\ Keeps(task, task')
  BY ClosedKeeps, Zenon DEF RequestPause, RequestCancel, ReconcileStaleRuns, Inv, TypeOK, Keeps
<1>3. TypeOK'
  BY <1>1, <1>2, Zenon DEF RequestPause, RequestCancel, ReconcileStaleRuns, Inv, TypeOK,
                    Resumable, Terminal
<1>4. LostOutcomeKept'
  BY <1>1, <1>2, Zenon DEF Inv, TypeOK, LostOutcomeKept, Keeps, Lost
<1>5. status' # "completed"
  BY Zenon DEF RequestPause, RequestCancel, ReconcileStaleRuns, Terminal
<1>6. ASSUME NEW g \in Exec PROVE Sync(g)'
  <2>1. Writable(g)' => Writable(g) /\ task' = task
    BY AutopilotAssumption
    DEF RequestPause, RequestCancel, ReconcileStaleRuns, Writable, Owns, Active, Inv, TypeOK
  <2> QED
    BY <1>1, <2>1 DEF Inv, Sync, Runnable
<1> QED
  BY <1>3, <1>4, <1>5, <1>6 DEF Inv, CompletionSound

LEMMA NextInv == Inv /\ [Next]_vars => Inv'
<1> SUFFICES ASSUME Inv, [Next]_vars PROVE Inv'
  BY SMTT(30)
<1>1. ASSUME NEW e \in Exec, Advance(e) PROVE Inv'
  BY <1>1, ClaimInv, PortSaveInv, RefuseReplayInv, ClearDeferredInv, UnchangedInv, NoticeInv,
     DropEvidenceInv, AcceptPlanInv, PlanInv, SavePlanInv, TopInv, ExitLoopInv,
     PickInv, StartInv, WorkInv, WorkedInv, SaveResultInv, JudgeInv, ReviewInv,
     RetryInv, ReplanInv, FinishInv, Zenon DEF Advance
<1>2. CASE UNCHANGED vars
  BY <1>2 DEF vars, row, controller, Inv, TypeOK, LostOutcomeKept, CompletionSound,
              Evidence, Sync, Writable, Owns, Runnable
<1> QED
  BY <1>1, <1>2, CrashInv, EnvironmentInv DEF Next

LEMMA Invariance == Spec => []Inv
BY InitInv, NextInv, PTL DEF Spec

------------------------------------------------------------------------------
(* The theorems. *)

(* Every column and every local variable keeps its type. *)
THEOREM TypesKept == Spec => []TypeOK
<1>1. Inv => TypeOK
  BY DEF Inv
<1> QED
  BY <1>1, Invariance, PTL

(* execute_run never replays a task whose outcome was lost, and never      *)
(* counts it as done.                                                      *)
THEOREM LostOutcomesAreKept == Spec => []LostOutcomeKept
<1>1. Inv => LostOutcomeKept
  BY DEF Inv
<1> QED
  BY <1>1, Invariance, PTL

(* finish_run completes a run only on evidence, with nothing in flight,    *)
(* also for a caller that goes around the controller.                      *)
THEOREM CompletionsAreSound == Spec => []CompletionSound
<1>1. Inv => CompletionSound
  BY DEF Inv
<1> QED
  BY <1>1, Invariance, PTL

(* What a step of an execution does to the stored run. *)
LEMMA StoreCalls ==
  ASSUME NEW e \in Exec, Advance(e) \/ Crash(e)
  PROVE  \/ Claim(e)
         \/ \E p, to : SaveProgress(e, p, to)
         \/ FinishRun(e, pc[e])
         \/ UNCHANGED <<row, task>> /\ (Writable(e) \/ stale' = stale)
<1>1. CASE PortSave(e) \/ RefuseReplay(e) \/ DropEvidence(e) \/ SavePlan(e) \/ Start(e) \/ SaveResult(e)
           \/ Retry(e) \/ Replan(e)
  BY <1>1, Zenon DEF PortSave, RefuseReplay, DropEvidence, SavePlan, Start, SaveResult, Retry, Replan
<1>2. CASE ClearDeferred(e) \/ AcceptPlan(e)
  BY <1>2, Zenon DEF ClearDeferred, AcceptPlan
<1>3. CASE Changed(e) \/ Acknowledge(e)
  BY <1>3, Zenon DEF Changed, Acknowledge
<1>4. CASE Unchanged(e) \/ Plan(e) \/ Top(e) \/ ExitLoop(e) \/ Pick(e) \/ Work(e)
           \/ Worked(e) \/ Judge(e)
  BY <1>4, Zenon DEF Unchanged, Plan, Top, ExitLoop, Pick, Work, Worked, Judge
<1>5. CASE Interrupted(e) \/ Complete(e) \/ Decline(e) \/ Unwind(e) \/ Crash(e)
  BY <1>5, Zenon DEF Interrupted, Complete, Decline, Unwind, Crash
<1>6. CASE Finish(e)
  BY <1>6 DEF Finish
<1> QED
  BY <1>1, <1>2, <1>3, <1>4, <1>5, <1>6, Zenon DEF Advance

(* save_progress refuses every write after a cancellation; the ledger is   *)
(* closed by finish_run or by request_cancel.                              *)
THEOREM CancellationDiscards == Spec => CancelDiscards
<1> DEFINE Kept == cancel => \/ task' = task
                             \/ status' = "cancelled" /\ task' = Closed(task)
<1>1. [Next]_vars => [Kept]_vars
  <2> SUFFICES ASSUME Next, cancel
               PROVE  task' = task \/ (status' = "cancelled" /\ task' = Closed(task))
    BY Zenon
  <2>1. ASSUME NEW e \in Exec, Advance(e) \/ Crash(e)
        PROVE  task' = task \/ (status' = "cancelled" /\ task' = Closed(task))
    <3>1. CASE Claim(e) \/ UNCHANGED <<row, task>>
      BY <3>1, Zenon DEF Claim
    <3>2. ASSUME NEW p, NEW to, SaveProgress(e, p, to) PROVE task' = task
      BY <3>2 DEF SaveProgress, Writable
    <3>3. CASE FinishRun(e, pc[e])
      BY <3>3 DEF FinishRun
    <3> QED
      BY <2>1, <3>1, <3>2, <3>3, StoreCalls
  <2>2. CASE RequestPause \/ RequestCancel \/ ReconcileStaleRuns
    BY <2>2, Zenon DEF RequestPause, RequestCancel, ReconcileStaleRuns
  <2> QED
    BY <2>1, <2>2, Zenon DEF Next
<1> QED
  BY <1>1, PTL DEF Spec, CancelDiscards

(* No write is accepted for a run that completed or was cancelled. *)
THEOREM TerminalRunsAreFrozen == Spec => TerminalFrozen
<1> DEFINE Frozen == /\ status' = status /\ owner' = owner
                     /\ task' = task /\ stale' = stale
<1>1. [Next]_vars => [(status \in {"completed", "cancelled"}) => Frozen]_vars
  <2> SUFFICES ASSUME Next, status \in {"completed", "cancelled"} PROVE Frozen
    BY Zenon
  <2>1. status \notin Active \cup Resumable
    BY Zenon DEF Terminal, Active, Resumable
  <2>2. ASSUME NEW e \in Exec, Advance(e) \/ Crash(e) PROVE Frozen
    <3>1. ~Owns(e) /\ ~Writable(e) /\ ~Claim(e)
      BY <2>1, Zenon DEF Owns, Writable, Claim
    <3>2. ASSUME NEW p, NEW to, SaveProgress(e, p, to) PROVE Frozen
      BY <3>1, <3>2, Zenon DEF SaveProgress
    <3>3. CASE FinishRun(e, pc[e])
      BY <3>1, <3>3 DEF FinishRun
    <3>4. CASE UNCHANGED <<row, task>> /\ (Writable(e) \/ stale' = stale)
      BY <3>1, <3>4 DEF row
    <3> QED
      BY <2>2, <3>1, <3>2, <3>3, <3>4, StoreCalls
  <2>3. CASE RequestPause \/ RequestCancel \/ ReconcileStaleRuns
    BY <2>1, <2>3 DEF Terminal, RequestPause, RequestCancel, ReconcileStaleRuns
  <2> QED
    BY <2>2, <2>3 DEF Next
<1> QED
  BY <1>1, PTL DEF Spec, TerminalFrozen
=============================================================================
