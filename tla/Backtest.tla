------------------------------ MODULE Backtest ------------------------------
(***************************************************************************)
(* services/backtest: trade-ctl backtest reads the stored snapshots in the *)
(* order they were taken, groups them into ticks, and replays the ticks    *)
(* through SimpleMomentum, the checks of the risk engine and a simulated   *)
(* fill, on a state of the risk engine's that it updates itself.           *)
(*                                                                         *)
(* The checks are those of RiskEngine, on this state.  SimpleMomentum      *)
(* ranges over a Go map, so the orders of a tick come in any order.        *)
(* Times are seconds.  Prices are in units of half a cent: the scraper     *)
(* stores whole cents, and the middle of two of them is the price of an    *)
(* order.                                                                  *)
(***************************************************************************)
EXTENDS Integers, Sequences, FiniteSets, FiniteSetsExt, SequencesExt

CONSTANTS Markets,
          Quotes,          \* what a snapshot may hold: [bid, ask]
          Gaps,            \* seconds from one snapshot to the next
          Tolerance,       \* of GroupByTimestamp
          Policy,          \* the limits of the policy file, as in RiskEngine
          MaxSpreadBps,    \* per_trade.max_spread_bps
          InitialCapital,
          MaxSnapshots     \* bound: snapshots in the date range

ASSUME BacktestAssumption ==
    /\ Quotes \subseteq [bid : Nat, ask : Nat]
    /\ Gaps \subseteq Nat
    /\ Tolerance \in Nat
    /\ Policy.maxPerMinute \in Nat
    /\ Policy.maxDrawdownPct \in Nat
    /\ MaxSpreadBps \in Nat
    /\ InitialCapital \in Nat
    /\ MaxSnapshots \in Nat

VARIABLES phase,           \* "load", "run" or "done"
          snapshots,       \* the rows read so far: [market, at, quote]
          ticks,           \* [at, data], the last one being currentTick while loading
          index,           \* the tick being replayed
          todo,            \* the markets whose signals of this tick are left
          clock, book, totalExposure, orderTimes, orderKeys, orderNotionals, marketData,
          equity, peak, dailyPnL,
          trades           \* [order, at, pnl], oldest first

state == <<book, totalExposure, orderTimes, orderKeys, orderNotionals, equity, peak, dailyPnL>>
backtestVars == <<phase, snapshots, ticks, index, todo, clock, state, marketData, trades>>

\* The one strategy of the registry, which always proposes one contract.
Name == "simple-momentum"
Mid(q) == (q.bid + q.ask) \div 2
Orders == [market : Markets, side : {"buy", "sell"}, price : {Mid(q) : q \in Quotes}]

\* The risk engine on this state, which no other call touches: no strategy is
\* halted and the mode is that of NewEmptyState.
Risk ==
    INSTANCE RiskEngine
        WITH Strategies <- {Name}, Allowed <- Markets, Signals <- Orders,
             Strategy <- [o \in Orders |-> Name],
             Market <- [o \in Orders |-> o.market],
             Side <- [o \in Orders |-> o.side],
             Quantity <- [o \in Orders |-> 1],
             Price <- [o \in Orders |-> o.price],
             Minute <- 60, DupWindow <- 30,
             HaltModes <- {}, RiskDbFaults <- FALSE, MaxDelay <- 0, MaxApprovals <- 0,
             MaxReports <- 0, MaxTime <- 0, MaxCrashes <- 0,
             systemMode <- "normal", halted <- {},
             lock <- "free", eval <- << >>, report <- << >>, up <- TRUE, crashes <- 0,
             positions <- << >>, approvals <- << >>, acked <- << >>, cut <- << >>

-----------------------------------------------------------------------------
\* Loading (loader.go)

\* Mutant: a snapshot at the tolerance exactly starts a tick of its own.
BelowTolerance(s) ==
    /\ ticks # << >>
    /\ s.at - Last(ticks).at < Tolerance

\* The snapshot is no further than the tolerance from the tick's first.
SameTick(s) ==
    /\ ticks # << >>
    /\ s.at - Last(ticks).at <= Tolerance

Put(data, s) ==
    [m \in DOMAIN data \cup {s.market} |->
        IF m = s.market THEN [quote |-> s.quote, at |-> s.at] ELSE data[m]]

\* LoadSnapshots ... ORDER BY captured_at, and the loop of GroupByTimestamp.
GroupByTimestamp(m, q, gap) ==
    LET s == [market |-> m, quote |-> q,
              at |-> IF snapshots = << >> THEN 0 ELSE Last(snapshots).at + gap]
    IN /\ phase = "load"
       /\ Len(snapshots) < MaxSnapshots
       /\ snapshots' = Append(snapshots, s)
       /\ ticks' = IF SameTick(s)
                   THEN [ticks EXCEPT ![Len(ticks)].data = Put(@, s)]
                   ELSE Append(ticks, [at |-> s.at, data |-> Put(<< >>, s)])
       /\ UNCHANGED <<phase, index, todo, clock, state, marketData, trades>>

\* trade-ctl ends when the range holds no snapshot.
RunBegins ==
    /\ phase = "load"
    /\ snapshots # << >>
    /\ phase' = "run"
    /\ UNCHANGED <<snapshots, ticks, index, todo, clock, state, marketData, trades>>

-----------------------------------------------------------------------------
\* The strategy and the fill (simple_momentum.go, fills.go)

\* The signal of a quote: at the middle, below 40 or above 60 cents.
Signals(m, q) ==
    LET mid == Mid(q)
    IN {[market |-> m, side |-> "buy", price |-> p] : p \in {mid} \cap 1..79}
           \cup {[market |-> m, side |-> "sell", price |-> p] : p \in {n \in {mid} : n > 120}}

\* SimulateFill: the price of the fill, or zero for none.
SimulateFill(o, q) ==
    CASE o.side = "buy"  /\ q.ask > 0 /\ q.ask <= o.price -> q.ask
      [] o.side = "sell" /\ q.bid > 0 /\ q.bid >= o.price -> q.bid
      [] OTHER -> 0

SpreadBps(q) == IF Mid(q) = 0 THEN 0 ELSE ((q.ask - q.bid) * 10000) \div Mid(q)

-----------------------------------------------------------------------------
\* Run (runner.go)

Key(o) == <<o.market, Name>>

\* Integer division of Go.
Quo(a, b) == IF a >= 0 THEN a \div b ELSE -((-a) \div b)

\* computePnL for one contract: the price against the average the notional gives.
computePnL(o, price) ==
    LET p == book[Key(o)]
    IN CASE o.side = "sell" /\ p.contracts > 0 -> price - Quo(p.notional, p.contracts)
         [] o.side = "buy"  /\ p.contracts < 0 -> Quo(p.notional, -p.contracts) - price
         [] OTHER -> 0

\* RunAllChecks; only the global P&L, equity and peak are kept up by Run.
RunAllChecks(o) ==
    LET stats == [dailyPnL |-> dailyPnL, peak |-> peak, equity |-> equity]
    IN /\ Risk!GateChecks(o)
       /\ Risk!checkPositionLimit(o)
       /\ Risk!checkConcentration(o)
       /\ Risk!checkVenueExposure(o)
       /\ Risk!checkGlobalExposure(o)
       /\ Risk!checkDailyLoss(stats)
       /\ Risk!checkGlobalDrawdown(stats)
       /\ Risk!RateChecks(o)

\* Mutant: the order's time is not recorded.
ForgetTime(o) == orderTimes

TrackTime(o) == [orderTimes EXCEPT ![Name] = Append(@, clock)]

\* The key holds the quantity and not the venue, unlike IdempotencyKey.
OrderKey(o) == <<Name, o.market, o.side, 1, o.price>>

\* The exposure is that of the market just traded.
updateState(o, price) ==
    LET sign == IF o.side = "buy" THEN 1 ELSE -1
    IN /\ book' = [book EXCEPT ![Key(o)] = [contracts |-> @.contracts + sign,
                                            notional |-> @.notional + sign * price]]
       /\ LET n == book'[Key(o)].notional
          IN totalExposure' = IF n < 0 THEN -n ELSE n
       /\ orderTimes' = TrackTime(o)
       /\ orderNotionals' = [orderNotionals EXCEPT ![Name] = Append(@, o.price)]
       /\ orderKeys' = {k \in orderKeys : k.key # OrderKey(o)}
                           \cup {[key |-> OrderKey(o), at |-> clock]}

\* Mutant: the comparison with the peak is missing.
PeakFollows(e) == e

NewPeak(e) == Max({peak, e})

\* The next tick: the clock, the market data, the signals.
NextTick ==
    /\ phase = "run"
    /\ todo = {}
    /\ index < Len(ticks)
    /\ index' = index + 1
    /\ LET tick == ticks[index']
       IN /\ clock' = tick.at
          /\ marketData' =
                [m \in Markets |->
                    IF m \in DOMAIN tick.data
                    THEN [at   |-> tick.data[m].at,
                          wide |-> SpreadBps(tick.data[m].quote) > MaxSpreadBps]
                    ELSE marketData[m]]
          /\ todo' = {m \in DOMAIN tick.data : Signals(m, tick.data[m].quote) # {}}
    /\ UNCHANGED <<phase, snapshots, ticks, state, trades>>

\* One signal: checks, fill, P&L, state, equity.
Propose(m) ==
    LET quote == ticks[index].data[m].quote
    IN \E o \in Signals(m, quote) :
          LET price == SimulateFill(o, quote)
              pnl   == computePnL(o, price)
          IN /\ todo' = todo \ {m}
             /\ \/ /\ RunAllChecks(o) /\ price > 0
                   /\ updateState(o, price)
                   /\ trades' = Append(trades, [order |-> o, at |-> clock, pnl |-> pnl])
                   /\ equity' = equity + pnl
                   /\ dailyPnL' = dailyPnL + pnl
                   /\ peak' = NewPeak(equity')
                \/ /\ ~(RunAllChecks(o) /\ price > 0)
                   /\ UNCHANGED <<state, trades>>
             /\ UNCHANGED <<phase, snapshots, ticks, index, clock, marketData>>

\* The metrics are computed from the trades and printed.
RunEnds ==
    /\ phase = "run"
    /\ todo = {}
    /\ index = Len(ticks)
    /\ phase' = "done"
    /\ UNCHANGED <<snapshots, ticks, index, todo, clock, state, marketData, trades>>

-----------------------------------------------------------------------------
BacktestInit ==
    /\ phase = "load"
    /\ snapshots = << >>
    /\ ticks = << >>
    /\ index = 0
    /\ todo = {}
    /\ clock = 0
    /\ book = [k \in Markets \X {Name} |-> [contracts |-> 0, notional |-> 0]]
    /\ totalExposure = 0
    /\ orderTimes = [s \in {Name} |-> << >>]
    /\ orderKeys = {}
    /\ orderNotionals = [s \in {Name} |-> << >>]
    /\ marketData = [m \in Markets |-> Risk!NoData]
    /\ equity = InitialCapital
    /\ peak = InitialCapital
    /\ dailyPnL = 0
    /\ trades = << >>

BacktestNext ==
    \/ \E m \in Markets, q \in Quotes, gap \in Gaps : GroupByTimestamp(m, q, gap)
    \/ RunBegins
    \/ NextTick
    \/ \E m \in todo : Propose(m)
    \/ RunEnds

BacktestSpec == BacktestInit /\ [][BacktestNext]_backtestVars

-----------------------------------------------------------------------------
\* Properties

\* Two snapshots lie within the tolerance of each other.
Near(j, k) == snapshots[j].at - snapshots[k].at \in (-Tolerance)..Tolerance

\* The snapshots that the replay sees at tick i: those taken from its time on and
\* before the time of the next.
Slice(i) ==
    {j \in DOMAIN snapshots :
        /\ snapshots[j].at >= ticks[i].at
        /\ \A k \in DOMAIN ticks : k > i => snapshots[j].at < ticks[k].at}

\* What GroupByTimestamp keeps of "Snapshots within tolerance of each other are
\* considered simultaneous", a relation that is not transitive: no snapshot is left
\* out, all those of a tick lie within the tolerance of each other, none could have
\* joined the tick before without breaking that, and of each market the last one of
\* the tick counts.
TicksWithinTolerance ==
    /\ UNION {Slice(i) : i \in DOMAIN ticks} = DOMAIN snapshots
    /\ \A i \in DOMAIN ticks : \A j, k \in Slice(i) : Near(j, k)
    /\ \A i \in 2..Len(ticks) : \A k \in Slice(i) : \E j \in Slice(i - 1) : ~Near(j, k)
    /\ \A i \in DOMAIN ticks :
          LET of(m) == {j \in Slice(i) : snapshots[j].market = m}
          IN /\ DOMAIN ticks[i].data = {snapshots[j].market : j \in Slice(i)}
             /\ \A m \in DOMAIN ticks[i].data :
                   ticks[i].data[m].quote = snapshots[Max(of(m))].quote

\* The equity after the first n trades.
EquityAfter(n) == InitialCapital + SumFunction([i \in 1..n |-> trades[i].pnl])

\* The drawdown limit ends the replay's trading for good: no trade follows one
\* after which the equity lay the limit or more below its peak so far.  A replay
\* without capital that never gained anything has no peak to fall from.
DrawdownEndsTrading ==
    \A n \in 0..(Len(trades) - 1) :
        LET top == Max({EquityAfter(k) : k \in 0..n})
        IN top # 0 => (top - EquityAfter(n)) * 100 < Policy.maxDrawdownPct * top

\* No minute of the simulated time holds more trades than the policy allows,
\* however the ticks fall into it and in whatever order their orders come.
TradesPerMinute ==
    \A i \in DOMAIN trades :
        Cardinality({j \in 1..i : trades[j].at > trades[i].at - 60}) <= Policy.maxPerMinute

\* "Same code path as live trading": what the live engine denies as a duplicate,
\* the same order within 30 seconds, is not traded in the replay either.
ReplayDeniesDuplicates ==
    \A i, j \in DOMAIN trades :
        i < j /\ trades[i].order = trades[j].order => trades[j].at - trades[i].at >= 30
=============================================================================
