-------------------------- MODULE MCReconciliation --------------------------
(* Reconciliation for TLC: orders of one contract, one market.                 *)
EXTENDS Reconciliation

CONSTANTS t1, kA

MCKey == [t \in Traces |-> kA]
\* SimpleMomentum, the deployed strategy, always proposes one contract.
MCUnit == [t \in Traces |-> 1]
=============================================================================
