--------------------------- MODULE MCWorkerCapacity ---------------------------
(***************************************************************************)
(* Worker admission on a small instance: two jobs under budgets of which   *)
(* some hold one job and some two, and some rename or replace the machine. *)
(***************************************************************************)
EXTENDS WorkerCapacity, TLC

CONSTANTS h1, h2, f1, f2

BudgetOf(h, memory, n, f) ==
    [host |-> h, memory |-> memory, jobs |-> n, fingerprint |-> f]

\* The same machine with less memory and one slot, under another host id, with
\* another disk.  A demand for all memory leaves none for the second job.
MCBudget == {BudgetOf(h1, 3, 2, f1), BudgetOf(h1, 2, 1, f1),
             BudgetOf(h2, 3, 2, f1), BudgetOf(h1, 3, 2, f2)}

Symmetry == Permutations(Job)
=============================================================================
