--------------------------- MODULE MCIntentLedger ---------------------------
(* IntentLedger for TLC: three intents in two markets, unequal notionals.    *)
EXTENDS IntentLedger

CONSTANTS t1, t2, t3, kA, kB

MCKey == t1 :> kA @@ t2 :> kA @@ t3 :> kB
MCQuantity == t1 :> 1 @@ t2 :> 2 @@ t3 :> 1
MCNotional == t1 :> 2 @@ t2 :> 3 @@ t3 :> 2

ClientSymmetry == Permutations(Clients)
=============================================================================
