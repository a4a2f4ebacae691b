---------------------------- MODULE MCRiskEngine ----------------------------
(* RiskEngine for TLC: one strategy that buys and sells in one market.       *)
EXTENDS RiskEngine

CONSTANTS s1, mA, buy1, sell1

MCStrategy == [o \in Signals |-> s1]
MCMarket == [o \in Signals |-> mA]
MCSide == buy1 :> "buy" @@ sell1 :> "sell"
MCQuantity == [o \in Signals |-> 1]
MCPrice == buy1 :> 3 @@ sell1 :> 1

MCPolicy == [maxQuantity |-> 5, maxNotional |-> 5, minPrice |-> 1, maxPrice |-> 9,
             maxPosition |-> 6, maxConcentrationPct |-> 100, maxExposure |-> 9,
             maxPerMinute |-> 2, maxDailyLoss |-> 1, maxLosses |-> 2,
             maxDrawdownPct |-> 15, maxDataAge |-> 1]
=============================================================================
