--------------------------- MODULE MCWorkerEffects ---------------------------
(***************************************************************************)
(* The journal and its callers on a small instance.                        *)
(***************************************************************************)
EXTENDS WorkerEffects, TLC

CONSTANTS p1, p2, w1, w2, o1, o2, k1, k2, r1, t1, t2

MCEpoch == 1..MaxStarts

Symmetry == Permutations(Proc) \cup Permutations(Thread) \cup Permutations(Key)

\* Where every operation has a verifier the operations are interchangeable too.
FullSymmetry == Symmetry \cup Permutations(Op)
=============================================================================
