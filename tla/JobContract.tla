----------------------------- MODULE JobContract -----------------------------
(***************************************************************************)
(* What the durable job registry promises its callers, with none of the    *)
(* means: no leases, no tokens, no revisions and no processes.             *)
(*                                                                         *)
(* A job is open until it settles with one outcome.  Success and           *)
(* cancellation are for ever; a failure may be reopened, but only while    *)
(* tries are left, and a try is never given back.  A job may be held by    *)
(* the worker of its latest try.  That worker may commit the outcome, once *)
(* for the try, and may leave a receipt whose key no other receipt has.    *)
(* The host of a job may settle that job alone, also as cancelled.  To call *)
(* a job off settles its whole open subtree, in the same step.             *)
(*                                                                         *)
(* This is what docs/architecture/durable-agent-state-machines.md states;  *)
(* DurableJobs, the registry itself, is shown to implement it.             *)
(***************************************************************************)
EXTENDS JobTree

VARIABLES
  outcome,      \* absent, open, or how the job settled
  tries,        \* how often the job was given to a worker
  held,         \* whether the worker of the latest try may still commit
  committed,    \* the tries whose outcome a worker committed
  receipts,     \* the completion receipts written so far
  calledOff     \* the jobs that somebody has called off

contractVars == <<outcome, tries, held, committed, receipts, calledOff>>

ContractTypeOK ==
  /\ outcome \in [Job -> Terminal \cup {"absent", "open"}]
  /\ tries \in [Job -> Nat]
  /\ held \in [Job -> BOOLEAN]
  /\ committed \in [Job -> SUBSET Nat]
  /\ receipts \subseteq Receipt
  /\ calledOff \subseteq Job

ContractInit ==
  /\ outcome = [j \in Job |-> "absent"]
  /\ tries = [j \in Job |-> 0]
  /\ held = [j \in Job |-> FALSE]
  /\ committed = [j \in Job |-> {}]
  /\ receipts = {}
  /\ calledOff = {}

Submit(j) ==
  /\ outcome[j] = "absent"
  /\ ParentOf[j] # NoJob => outcome[ParentOf[j]] # "absent"
  /\ outcome' = [outcome EXCEPT ![j] = "open"]
  /\ UNCHANGED <<tries, held, committed, receipts, calledOff>>

(* A new try takes the job, whether or not an earlier one still held it. *)
Try(j) ==
  /\ outcome[j] = "open"
  /\ tries[j] < MaxAttempts[j]
  /\ tries' = [tries EXCEPT ![j] = @ + 1]
  /\ held' = [held EXCEPT ![j] = TRUE]
  /\ UNCHANGED <<outcome, committed, receipts, calledOff>>

(* The latest try of each of the jobs loses it, without an outcome. *)
Withdraw(J) ==
  /\ \A j \in J : outcome[j] = "open" /\ held[j]
  /\ held' = [j \in Job |-> IF j \in J THEN FALSE ELSE held[j]]
  /\ UNCHANGED <<outcome, tries, committed, receipts, calledOff>>

(* The worker of the latest try commits; R is its receipt, if it left one. *)
Commit(j, s, R) ==
  /\ outcome[j] = "open"
  /\ held[j]
  /\ tries[j] \notin committed[j]
  /\ \A r \in R, q \in receipts : r.key # q.key
  /\ outcome' = [outcome EXCEPT ![j] = s]
  /\ held' = [held EXCEPT ![j] = FALSE]
  /\ committed' = [committed EXCEPT ![j] = @ \cup {tries[j]}]
  /\ receipts' = receipts \cup R
  /\ UNCHANGED <<tries, calledOff>>

ReceiptOf(j, s, k) ==
  [job |-> j, attempt |-> tries[j], key |-> k, status |-> s]

(* The host of the job settles it, and it alone, without a worker's commit. *)
Settle(j, s) ==
  /\ outcome[j] = "open"
  /\ outcome' = [outcome EXCEPT ![j] = s]
  /\ held' = [held EXCEPT ![j] = FALSE]
  /\ UNCHANGED <<tries, committed, receipts, calledOff>>

Reopen(j) ==
  /\ outcome[j] = "failed"
  /\ tries[j] < MaxAttempts[j]
  /\ outcome' = [outcome EXCEPT ![j] = "open"]
  /\ UNCHANGED <<tries, held, committed, receipts, calledOff>>

(* The job is called off, and with it every open job of its subtree. *)
CallOff(j) ==
  LET J == {i \in Tree[j] : outcome[i] = "open"}
  IN  /\ outcome[j] # "absent"
      /\ outcome' = [i \in Job |-> IF i \in J THEN "cancelled" ELSE outcome[i]]
      /\ held' = [i \in Job |-> IF i \in J THEN FALSE ELSE held[i]]
      /\ calledOff' = calledOff \cup {j}
      /\ UNCHANGED <<tries, committed, receipts>>

ContractNext ==
  \/ \E j \in Job :
       \/ Submit(j)
       \/ Try(j)
       \/ Reopen(j)
       \/ CallOff(j)
       \/ \E s \in Terminal :
            \/ Settle(j, s)
            \/ Commit(j, s, {})
            \/ \E k \in Key : Commit(j, s, {ReceiptOf(j, s, k)})
  \/ \E J \in (SUBSET Job) \ {{}} : Withdraw(J)

ContractSpec == ContractInit /\ [][ContractNext]_contractVars

------------------------------------------------------------------------------
(***************************************************************************)
(* The first receipt of a try is the only one, and its key finds it: what  *)
(* the two UNIQUE constraints of durable_job_receipt and the replay check  *)
(* of finish_once are for.                                                 *)
(***************************************************************************)
ReceiptUnique ==
  \A r, s \in receipts :
    (r.key = s.key \/ (r.job = s.job /\ r.attempt = s.attempt)) => r = s

(***************************************************************************)
(* A receipt of success or of cancellation stays true: the job has that    *)
(* outcome for ever after.  (A receipt of failure does not bind the job:   *)
(* retry reopens it.)                                                      *)
(***************************************************************************)
ReceiptFinal ==
  \A r \in receipts : r.status # "failed" => outcome[r.job] = r.status
==============================================================================
