--------------------------- MODULE MCFleetLedger ---------------------------
(***************************************************************************)
(* A master with one delegated agent, and the retries of that master from  *)
(* the process that ran it and from another one.                           *)
(***************************************************************************)
EXTENDS FleetLedger, TLC

CONSTANTS m, c, r1, r2, o1, o2, steer

MCOwnerOf == [a \in Agent |-> IF a = r1 THEN o2 ELSE o1]
MCParentOf == [a \in Agent |-> IF a = c THEN m ELSE NoAgent]
MCRetryOf == [a \in Agent |-> IF a \in {r1, r2} THEN m ELSE NoAgent]
MCRecipient == [n \in Message |-> c]
=============================================================================
