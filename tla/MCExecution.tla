----------------------------- MODULE MCExecution -----------------------------
(* Execution for TLC: one or two orders, of one contract each.               *)
EXTENDS Execution

CONSTANTS t1, t2, kA

MCKey == [t \in Traces |-> kA]
\* SimpleMomentum, the deployed strategy, always proposes one contract.
MCUnit == [t \in Traces |-> 1]

ClientSymmetry == Permutations(Clients)
=============================================================================
