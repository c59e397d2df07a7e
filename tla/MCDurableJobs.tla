--------------------------- MODULE MCDurableJobs ---------------------------
(* DurableJobs for TLC: a job and its child. *)
EXTENDS DurableJobs, TLC

CONSTANTS parent, child, w1, w2

MCJob == {parent, child}
MCParentOf == parent :> NoJob @@ child :> parent
MCMaxAttempts == parent :> 1 @@ child :> 2
MCMaxRevision == parent :> 1 @@ child :> 4
MCWorker == {w1, w2}

MCSymmetry == Permutations(MCWorker)
=============================================================================
