--------------------------- MODULE MCEffectJournal ---------------------------
(***************************************************************************)
(* The effect journal of one run on a small instance, with callers that    *)
(* may do anything in any order.                                           *)
(***************************************************************************)
EXTENDS EffectJournal, TLC

CONSTANTS p1, p2, w1, w2, o1, o2, k1, k2, r1

MCEpoch == 1..2

Symmetry == Permutations({p1, p2}) \cup Permutations({w1, w2})
              \cup Permutations({o1, o2}) \cup Permutations({k1, k2})
=============================================================================
