----------------------------- MODULE MCBacktest -----------------------------
(* Backtest for TLC: two markets, quotes that are locked, as those of          *)
(* runner_test.go are, and one with the usual spread.  The prices are          *)
(* multiples of 12, so that the averages of up to four contracts come out even. *)
EXTENDS Backtest, TLC

MCQuotes == {[bid |-> 60, ask |-> 60], [bid |-> 144, ask |-> 144], [bid |-> 48, ask |-> 72]}

\* The limits of runner_test.go, with an order rate the ticks can reach and the
\* drawdown of policies/paper.yaml.
MCPolicy == [maxQuantity |-> 100, maxNotional |-> 10000, minPrice |-> 2, maxPrice |-> 198,
             maxPosition |-> 20000, maxConcentrationPct |-> 100, maxExposure |-> 100000,
             maxPerMinute |-> 2, maxDailyLoss |-> 10000, maxLosses |-> 20,
             maxDrawdownPct |-> 15, maxDataAge |-> 3600]

MarketSymmetry == Permutations(Markets)
=============================================================================
