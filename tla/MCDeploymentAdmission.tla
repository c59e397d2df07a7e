------------------------- MODULE MCDeploymentAdmission -------------------------
(***************************************************************************)
(* Two deployments of two ranks, in groups of their own, that contend for  *)
(* one machine, whose memory holds three ranks and whose slots hold four.  *)
(***************************************************************************)
EXTENDS DeploymentAdmission, TLC

CONSTANTS h1, f1, p1, p2, a1, a2, b1, b2

TheBudget == [host |-> h1, memory |-> 3, jobs |-> 4, fingerprint |-> f1]

MCBudget == {TheBudget}
MCRanks == p1 :> <<a1, a2>> @@ p2 :> <<b1, b2>>
MCGroup == p1 :> "first" @@ p2 :> "second"
MCPlanBudget == [p \in Deployment |-> TheBudget]
MCPlanDemand == [p \in Deployment |-> 1]

\* The plans are interchangeable, each with its ranks.
Swap == p1 :> p2 @@ p2 :> p1 @@ a1 :> b1 @@ b1 :> a1 @@ a2 :> b2 @@ b2 :> a2
MCSymmetry == {Swap}
=============================================================================
