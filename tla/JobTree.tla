------------------------------- MODULE JobTree -------------------------------
(***************************************************************************)
(* The identities of durable jobs: their parents, the statuses that end    *)
(* them, and the receipts of their completion.  Shared by the contract of  *)
(* the registry (JobContract) and by the registry itself (DurableJobs).    *)
(***************************************************************************)
EXTENDS Naturals

CONSTANTS
  Job,          \* job ids
  NoJob,        \* the parent of a root job
  ParentOf,     \* the job that each job names as its parent
  Key,          \* receipt keys the callers use
  MaxAttempts   \* max_attempts of each job's row

ASSUME JobAssumption ==
  /\ NoJob \notin Job
  /\ ParentOf \in [Job -> Job \cup {NoJob}]
  /\ MaxAttempts \in [Job -> Nat \ {0}]

Terminal == {"succeeded", "failed", "cancelled"}

(* One try of one job: its number, and a payload digest told by its status. *)
Receipt == [job: Job, attempt: Nat, key: Key, status: Terminal]

(***************************************************************************)
(* A job with all its descendants: the least set that holds the job and,   *)
(* with a job, every job that names it as its parent.                      *)
(***************************************************************************)
Tree == [j \in Job |->
  {i \in Job : \A S \in SUBSET Job :
     (j \in S /\ \A k \in Job : ParentOf[k] \in S => k \in S) => i \in S}]
==============================================================================
