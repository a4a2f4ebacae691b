--------------------------- MODULE BacktestProofs ---------------------------
(***************************************************************************)
(* The theorems about the replay, for every set of markets and quotes, any *)
(* gaps, tolerance, policy and capital, and any number of snapshots.       *)
(*                                                                         *)
(* The grouping: TicksWithinTolerance follows from what the loop measures, *)
(* the distance from the tick's first snapshot (FromStart), which is       *)
(* inductive once it is known that the snapshots come in the order of      *)
(* their times and that the last one belongs to the last tick (Grouped).   *)
(* The limits: the replay keeps what the checks read itself, so the        *)
(* invariant says that its order times are those of the trades (Tracked)   *)
(* and that its equity and peak are those of the trades' profits and       *)
(* losses (Curve).                                                         *)
(***************************************************************************)
EXTENDS Backtest, SumProofs

Snapshot == [market : Markets, quote : Quotes, at : Nat]
TickData == UNION {[M -> [quote : Quotes, at : Nat]] : M \in SUBSET Markets}
Tick == [at : Nat, data : TickData]
Trade == [order : Orders, at : Nat, pnl : Int]
Position == [contracts : Int, notional : Int]

LoadType ==
    /\ snapshots \in Seq(Snapshot)
    /\ ticks \in Seq(Tick)
    /\ index \in 0..Len(ticks)
    /\ phase = "load" => index = 0 /\ todo = {}
    /\ \A m \in todo : index # 0 /\ m \in DOMAIN ticks[index].data

RunType ==
    /\ clock \in Nat
    /\ book \in [Markets \X {Name} -> Position]
    /\ orderTimes \in [{Name} -> Seq(Nat)]
    /\ trades \in Seq(Trade)
    /\ equity \in Int
    /\ peak \in Nat

BacktestType == LoadType /\ RunType

-----------------------------------------------------------------------------
\* Types

\* What a sequence holds.
LEMMA Elements ==
    ASSUME NEW S, NEW q \in Seq(S)
    PROVE  /\ Len(q) \in Nat
           /\ DOMAIN q = 1..Len(q)
           /\ \A i \in 1..Len(q) : q[i] \in S
OBVIOUS

\* What appending does.
LEMMA Appended ==
    ASSUME NEW S, NEW q \in Seq(S), NEW x \in S, NEW r, r = Append(q, x)
    PROVE  /\ r \in Seq(S)
           /\ Len(r) = Len(q) + 1
           /\ r[Len(q) + 1] = x
           /\ \A i \in 1..Len(q) : r[i] = q[i]
OBVIOUS

\* The middle of a quote, and a tick's data with one more snapshot, have their types.
LEMMA MidType ==
    ASSUME NEW q \in Quotes
    PROVE  q.bid \in Nat /\ q.ask \in Nat /\ Mid(q) \in Nat
<1>1. q.bid \in Nat /\ q.ask \in Nat
    BY BacktestAssumption
<1>2. QED
    BY <1>1 DEF Mid

LEMMA PutType ==
    ASSUME NEW data, NEW s \in Snapshot,
           data \in TickData \/ data = << >>
    PROVE  /\ Put(data, s) \in TickData
           /\ DOMAIN Put(data, s) = DOMAIN data \cup {s.market}
           /\ Put(data, s)[s.market].quote = s.quote
           /\ \A m \in DOMAIN data : m # s.market => Put(data, s)[m] = data[m]
<1> DEFINE V == [quote : Quotes, at : Nat]
           new == [quote |-> s.quote, at |-> s.at]
<1>1. new \in V /\ s.market \in Markets /\ new.quote = s.quote
    BY DEF Snapshot
<1>2. PICK M \in SUBSET Markets : DOMAIN data = M /\ \A m \in M : data[m] \in V
  <2>1. CASE data = << >>
    BY <2>1
  <2>2. CASE data \in TickData
    BY <2>2 DEF TickData
  <2>3. QED
    BY <2>1, <2>2
<1> HIDE DEF V, new
<1>3. Put(data, s) = [m \in M \cup {s.market} |-> IF m = s.market THEN new ELSE data[m]]
    BY <1>2 DEF Put, new
<1>4. Put(data, s) \in [M \cup {s.market} -> V] /\ M \cup {s.market} \in SUBSET Markets
    BY <1>1, <1>2, <1>3
<1>5. Put(data, s) \in TickData
    BY <1>4 DEF TickData, V
<1>6. QED
    BY <1>1, <1>2, <1>3, <1>5

\* A signal is an order at the middle of its quote.
LEMMA SignalType ==
    ASSUME NEW m \in Markets, NEW q \in Quotes, NEW o \in Signals(m, q)
    PROVE  o \in Orders /\ o.market = m
<1>1. o.market = m /\ o.side \in {"buy", "sell"} /\ o.price = Mid(q)
      /\ o = [market |-> o.market, side |-> o.side, price |-> o.price]
    BY DEF Signals
<1>2. QED
    BY <1>1 DEF Orders

\* A fill has a price and a profit.
LEMMA FillType ==
    ASSUME RunType, NEW q \in Quotes, NEW o \in Orders
    PROVE  SimulateFill(o, q) \in Nat /\ computePnL(o, SimulateFill(o, q)) \in Int
<1> DEFINE price == SimulateFill(o, q)
           p == book[Key(o)]
<1>1. price \in Nat
    BY MidType DEF SimulateFill
<1>2. o.market \in Markets
    BY DEF Orders
<1>3. p \in Position
    BY <1>2 DEF RunType, Key
<1>4. p.contracts \in Int /\ p.notional \in Int
    BY <1>3 DEF Position
<1>5. \A a \in Int : \A b \in Int : b > 0 => Quo(a, b) \in Int
    BY DEF Quo
<1> HIDE DEF price, p
<1>6. CASE o.side = "sell" /\ p.contracts > 0
  <2>1. computePnL(o, price) = price - Quo(p.notional, p.contracts)
    BY <1>6 DEF computePnL, p
  <2>2. QED
    BY <1>1, <1>4, <1>5, <1>6, <2>1 DEF price
<1>7. CASE o.side = "buy" /\ p.contracts < 0
  <2>1. computePnL(o, price) = Quo(p.notional, -p.contracts) - price
    BY <1>7 DEF computePnL, p
  <2>2. -p.contracts \in Int /\ -p.contracts > 0
    BY <1>4, <1>7
  <2>3. Quo(p.notional, -p.contracts) \in Int
    BY <1>4, <1>5, <2>2
  <2>4. QED
    BY <1>1, <2>1, <2>3 DEF price
<1>8. CASE ~(o.side = "sell" /\ p.contracts > 0) /\ ~(o.side = "buy" /\ p.contracts < 0)
  <2>1. computePnL(o, price) = 0
    BY <1>8 DEF computePnL, p
  <2>2. QED
    BY <1>1, <2>1 DEF price
<1>9. QED
    BY <1>6, <1>7, <1>8

\* A trade: an order that passed the checks is filled and booked.
Traded(o, price, pnl) ==
    /\ RunAllChecks(o)
    /\ updateState(o, price)
    /\ trades' = Append(trades, [order |-> o, at |-> clock, pnl |-> pnl])
    /\ equity' = equity + pnl
    /\ peak' = NewPeak(equity')

\* A signal ends in a trade or changes nothing but the list of signals left.
LEMMA ProposeEnds ==
    ASSUME BacktestType, NEW m \in todo, Propose(m)
    PROVE  /\ UNCHANGED <<phase, snapshots, ticks, index, clock, marketData>>
           /\ todo' = todo \ {m}
           /\ \/ UNCHANGED <<state, trades>>
              \/ \E o \in Orders, price \in Nat, pnl \in Int : Traded(o, price, pnl)
<1> DEFINE quote == ticks[index].data[m].quote
<1>1. quote \in Quotes /\ m \in Markets
  <2>1. index \in 1..Len(ticks) /\ m \in DOMAIN ticks[index].data
    BY Elements DEF BacktestType, LoadType
  <2>2. ticks[index] \in Tick
    BY <2>1, Elements DEF BacktestType, LoadType
  <2>3. ticks[index].data \in TickData
    BY <2>2 DEF Tick
  <2>4. PICK M \in SUBSET Markets : ticks[index].data \in [M -> [quote : Quotes, at : Nat]]
    BY <2>3 DEF TickData
  <2>5. m \in M /\ ticks[index].data[m] \in [quote : Quotes, at : Nat]
    BY <2>1, <2>4
  <2>6. QED
    BY <2>5
<1>2. PICK o \in Signals(m, quote) :
         LET price == SimulateFill(o, quote)
             pnl   == computePnL(o, price)
         IN /\ todo' = todo \ {m}
            /\ \/ Traded(o, price, pnl)
               \/ UNCHANGED <<state, trades>>
            /\ UNCHANGED <<phase, snapshots, ticks, index, clock, marketData>>
    BY DEF Propose, Traded
<1> HIDE DEF quote
<1>3. o \in Orders
    BY <1>1, SignalType
<1>4. SimulateFill(o, quote) \in Nat /\ computePnL(o, SimulateFill(o, quote)) \in Int
    BY <1>1, <1>3, FillType DEF BacktestType
<1>5. QED
    BY <1>2, <1>3, <1>4

\* A trade keeps the types.
LEMMA TradedType ==
    ASSUME RunType, UNCHANGED clock, NEW o \in Orders, NEW price \in Nat, NEW pnl \in Int,
           Traded(o, price, pnl)
    PROVE  RunType'
<1>1. trades' \in Seq(Trade)
  <2>1. [order |-> o, at |-> clock, pnl |-> pnl] \in Trade
    BY DEF RunType, Trade
  <2>2. QED
    BY <2>1, Appended DEF RunType, Traded
<1>2. orderTimes' \in [{Name} -> Seq(Nat)]
  <2>1. orderTimes' = [orderTimes EXCEPT ![Name] = Append(@, clock)]
    BY DEF Traded, updateState, TrackTime
  <2>2. QED
    BY <2>1 DEF RunType
<1>3. book' \in [Markets \X {Name} -> Position]
  <2> DEFINE sign == IF o.side = "buy" THEN 1 ELSE -1
             new == [contracts |-> book[Key(o)].contracts + sign,
                     notional |-> book[Key(o)].notional + sign * price]
  <2>1. book' = [book EXCEPT ![Key(o)] = new]
    BY DEF Traded, updateState
  <2>2. Key(o) \in Markets \X {Name}
    BY DEF Orders, Key
  <2>3. book[Key(o)] \in Position
    BY <2>2 DEF RunType
  <2>4. sign \in Int /\ sign * price \in Int
    OBVIOUS
  <2>5. new \in Position
    BY <2>3, <2>4 DEF Position
  <2> HIDE DEF new
  <2>6. QED
    BY <2>1, <2>2, <2>5 DEF RunType
<1>4. equity' \in Int /\ peak' \in Nat
  <2>1. equity' = equity + pnl /\ equity \in Int /\ peak \in Nat
    BY DEF RunType, Traded
  <2>2. equity' \in Int
    BY <2>1
  <2>3. peak' = Max({peak, equity'})
    BY DEF Traded, NewPeak
  <2>4. Max({peak, equity'}) \in {peak, equity'} /\ Max({peak, equity'}) >= peak
    BY <2>1, <2>2, MaxOfTwo
  <2>5. peak' \in Int /\ peak' >= peak
    BY <2>1, <2>2, <2>3, <2>4
  <2>6. QED
    BY <2>1, <2>2, <2>5
<1>5. QED
    BY <1>1, <1>2, <1>3, <1>4 DEF RunType

\* The snapshot of a step of the loader, and what it does to the ticks.
Loaded(s) ==
    /\ s \in Snapshot
    /\ snapshots = << >> \/ s.at >= Last(snapshots).at
    /\ snapshots' = Append(snapshots, s)
    /\ ticks' = IF SameTick(s)
                THEN [ticks EXCEPT ![Len(ticks)].data = Put(@, s)]
                ELSE Append(ticks, [at |-> s.at, data |-> Put(<< >>, s)])

LEMMA LoadStep ==
    ASSUME LoadType, NEW m \in Markets, NEW q \in Quotes, NEW gap \in Gaps,
           GroupByTimestamp(m, q, gap)
    PROVE  \E s : Loaded(s)
<1> DEFINE at == IF snapshots = << >> THEN 0 ELSE Last(snapshots).at + gap
           s == [market |-> m, quote |-> q, at |-> at]
<1>1. gap \in Nat
    BY BacktestAssumption
<1>2. at \in Nat /\ (snapshots = << >> \/ at >= Last(snapshots).at)
  <2>1. CASE snapshots = << >>
    BY <2>1
  <2>2. CASE snapshots # << >>
    <3>1. snapshots \in Seq(Snapshot) /\ Len(snapshots) \in 1..Len(snapshots)
      BY <2>2 DEF LoadType
    <3>2. Last(snapshots) \in Snapshot
      BY <3>1, Elements DEF Last
    <3>3. Last(snapshots).at \in Nat
      BY <3>2 DEF Snapshot
    <3>4. QED
      BY <1>1, <2>2, <3>3
  <2>3. QED
    BY <2>1, <2>2
<1>3. /\ snapshots' = Append(snapshots, s)
      /\ ticks' = IF SameTick(s)
                  THEN [ticks EXCEPT ![Len(ticks)].data = Put(@, s)]
                  ELSE Append(ticks, [at |-> s.at, data |-> Put(<< >>, s)])
    BY DEF GroupByTimestamp
<1> HIDE DEF at
<1>4. s \in Snapshot /\ s.at = at
    BY <1>2 DEF Snapshot
<1> HIDE DEF s
<1>5. Loaded(s)
    BY <1>2, <1>3, <1>4 DEF Loaded
<1>6. QED
    BY <1>5

\* The snapshot goes into the last tick or makes one.
LEMMA LoadedTick ==
    ASSUME LoadType, NEW s, Loaded(s), SameTick(s)
    PROVE  /\ ticks' \in Seq(Tick) /\ Len(ticks') = Len(ticks)
           /\ Len(ticks) \in 1..Len(ticks) /\ Last(ticks) = ticks[Len(ticks)]
           /\ \A i \in 1..Len(ticks) : ticks'[i].at = ticks[i].at
           /\ \A i \in 1..Len(ticks) : i # Len(ticks) => ticks'[i] = ticks[i]
           /\ ticks'[Len(ticks)].data = Put(ticks[Len(ticks)].data, s)
<1> DEFINE n == Len(ticks)
           old == ticks[n]
           new == [old EXCEPT !.data = Put(old.data, s)]
<1>1. ticks \in Seq(Tick) /\ ticks # << >>
    BY DEF LoadType, SameTick
<1>2. n \in 1..n /\ n \in Nat
    BY <1>1
<1>3. old \in Tick
    BY <1>1, <1>2, Elements
<1>4. old.data \in TickData /\ old = [at |-> old.at, data |-> old.data] /\ old.at \in Nat
    BY <1>3 DEF Tick
<1>5. Put(old.data, s) \in TickData
    BY <1>4, PutType DEF Loaded
<1>6. new = [at |-> old.at, data |-> Put(old.data, s)]
    BY <1>4
<1>7. new \in Tick /\ new.at = old.at /\ new.data = Put(old.data, s)
    BY <1>4, <1>5, <1>6 DEF Tick
<1>8. ticks' = [ticks EXCEPT ![n] = new]
    BY DEF Loaded
<1> HIDE DEF new
<1>9. /\ ticks' \in Seq(Tick) /\ Len(ticks') = n
      /\ ticks'[n] = new /\ \A i \in 1..n : i # n => ticks'[i] = ticks[i]
    BY <1>1, <1>2, <1>7, <1>8
<1>10. QED
    BY <1>2, <1>7, <1>9 DEF Last

LEMMA LoadedNewTick ==
    ASSUME LoadType, NEW s, Loaded(s), ~SameTick(s)
    PROVE  /\ ticks' \in Seq(Tick) /\ Len(ticks') = Len(ticks) + 1
           /\ \A i \in 1..Len(ticks) : ticks'[i] = ticks[i]
           /\ ticks'[Len(ticks) + 1].at = s.at
           /\ ticks'[Len(ticks) + 1].data = Put(<< >>, s)
<1> DEFINE new == [at |-> s.at, data |-> Put(<< >>, s)]
<1>1. new \in Tick
  <2>1. Put(<< >>, s) \in TickData /\ s.at \in Nat
    BY PutType DEF Loaded, Snapshot
  <2>2. QED
    BY <2>1 DEF Tick
<1>2. ticks' = Append(ticks, new)
    BY DEF Loaded
<1>3. new.at = s.at /\ new.data = Put(<< >>, s)
    OBVIOUS
<1> HIDE DEF new
<1>4. QED
    BY <1>1, <1>2, <1>3, Appended DEF LoadType

\* Loading keeps the types.
LEMMA LoadedType ==
    ASSUME LoadType, NEW s, Loaded(s), phase = "load", UNCHANGED <<phase, index, todo>>
    PROVE  LoadType'
<1>1. snapshots' \in Seq(Snapshot)
    BY Appended DEF Loaded, LoadType
<1>2. ticks' \in Seq(Tick) /\ Len(ticks') \in Nat
    BY LoadedTick, LoadedNewTick
<1>3. QED
    BY <1>1, <1>2 DEF LoadType

\* The types hold throughout.
LEMMA InitTyped ==
    ASSUME BacktestInit
    PROVE  BacktestType
<1>1. LoadType
    BY DEF BacktestInit, LoadType
<1>2. InitialCapital \in Nat
    BY BacktestAssumption
<1>3. RunType
    BY <1>2 DEF BacktestInit, RunType, Position
<1>4. QED
    BY <1>1, <1>3 DEF BacktestType

LEMMA NextTickType ==
    ASSUME BacktestType, NextTick
    PROVE  BacktestType'
<1> DEFINE tick == ticks[index + 1]
<1>1. /\ index \in Nat /\ Len(ticks) \in Nat /\ ticks \in Seq(Tick)
      /\ index' = index + 1 /\ index + 1 \in 1..Len(ticks)
    BY Elements DEF BacktestType, LoadType, NextTick
<1>2. tick \in Tick
    BY <1>1, Elements
<1>3. clock' = tick.at /\ todo' \subseteq DOMAIN tick.data
    BY <1>1 DEF NextTick
<1>4. UNCHANGED <<phase, snapshots, ticks, state, trades>> /\ phase # "load"
    BY DEF NextTick
<1>5. LoadType'
    BY <1>1, <1>3, <1>4 DEF BacktestType, LoadType
<1>6. clock' \in Nat
    BY <1>2, <1>3 DEF Tick
<1>7. RunType'
    BY <1>4, <1>6 DEF BacktestType, RunType, state
<1>8. QED
    BY <1>5, <1>7 DEF BacktestType

LEMMA StepTyped ==
    ASSUME BacktestType, [BacktestNext]_backtestVars
    PROVE  BacktestType'
<1>1. ASSUME NEW m \in Markets, NEW q \in Quotes, NEW gap \in Gaps,
             GroupByTimestamp(m, q, gap)
      PROVE  BacktestType'
  <2>1. PICK s : Loaded(s)
    BY <1>1, LoadStep DEF BacktestType
  <2>2. phase = "load" /\ UNCHANGED <<phase, index, todo, clock, state, marketData, trades>>
    BY <1>1 DEF GroupByTimestamp
  <2>3. LoadType'
    BY <2>1, <2>2, LoadedType DEF BacktestType
  <2>4. RunType'
    BY <2>2 DEF BacktestType, RunType, state
  <2>5. QED
    BY <2>3, <2>4 DEF BacktestType
<1>2. CASE RunBegins \/ RunEnds
  <2>1. UNCHANGED <<snapshots, ticks, index, todo, clock, state, trades>> /\ phase' # "load"
    BY <1>2 DEF RunBegins, RunEnds
  <2>2. QED
    BY <2>1 DEF BacktestType, LoadType, RunType, state
<1>3. CASE NextTick
    BY <1>3, NextTickType
<1>4. ASSUME NEW m \in todo, Propose(m)
      PROVE  BacktestType'
  <2>1. /\ UNCHANGED <<phase, snapshots, ticks, index, clock, marketData>>
        /\ todo' = todo \ {m}
        /\ \/ UNCHANGED <<state, trades>>
           \/ \E o \in Orders, price \in Nat, pnl \in Int : Traded(o, price, pnl)
    BY <1>4, ProposeEnds
  <2>2. LoadType'
    BY <2>1 DEF BacktestType, LoadType
  <2>3. RunType'
    <3>1. CASE UNCHANGED <<state, trades>>
      BY <2>1, <3>1 DEF BacktestType, RunType, state
    <3>2. ASSUME NEW o \in Orders, NEW price \in Nat, NEW pnl \in Int, Traded(o, price, pnl)
          PROVE  RunType'
      BY <2>1, <3>2, TradedType DEF BacktestType
    <3>3. QED
      BY <2>1, <3>1, <3>2
  <2>4. QED
    BY <2>2, <2>3 DEF BacktestType
<1>5. CASE UNCHANGED backtestVars
    BY <1>5 DEF backtestVars, state, BacktestType, LoadType, RunType
<1>6. QED
    BY <1>1, <1>2, <1>3, <1>4, <1>5 DEF BacktestNext

\* What the steps do to the part of the state the limits are about.
LEMMA TradeOrNot ==
    ASSUME BacktestType, [BacktestNext]_backtestVars
    PROVE  \/ UNCHANGED <<state, trades>>
           \/ \E o \in Orders, price \in Nat, pnl \in Int : Traded(o, price, pnl) /\ clock' = clock
<1>1. ASSUME NEW m \in todo, Propose(m)
      PROVE  \/ UNCHANGED <<state, trades>>
             \/ \E o \in Orders, price \in Nat, pnl \in Int :
                   Traded(o, price, pnl) /\ clock' = clock
    BY <1>1, ProposeEnds
<1>2. CASE UNCHANGED backtestVars
    BY <1>2 DEF backtestVars
<1>3. QED
    BY <1>1, <1>2 DEF BacktestNext, GroupByTimestamp, RunBegins, NextTick, RunEnds

-----------------------------------------------------------------------------
\* The rate limit

\* The times the rate check counts are those of the trades.
Tracked ==
    /\ Len(orderTimes[Name]) = Len(trades)
    /\ \A i \in 1..Len(trades) : orderTimes[Name][i] = trades[i].at


\* A trade adds itself to the trades and its time to the times.
LEMMA TradeAppended ==
    ASSUME RunType, NEW o \in Orders, NEW price \in Nat, NEW pnl \in Int, Traded(o, price, pnl)
    PROVE  /\ Len(trades) \in Nat
           /\ Len(trades') = Len(trades) + 1
           /\ \A i \in 1..Len(trades) : trades'[i] = trades[i]
           /\ trades'[Len(trades) + 1].at = clock
           /\ trades'[Len(trades) + 1].pnl = pnl
           /\ orderTimes'[Name] = Append(orderTimes[Name], clock)
<1> DEFINE t == [order |-> o, at |-> clock, pnl |-> pnl]
<1>1. t \in Trade /\ t.at = clock /\ t.pnl = pnl
    BY DEF RunType, Trade
<1>2. trades' = Append(trades, t)
    BY DEF Traded
<1> HIDE DEF t
<1>3. /\ Len(trades) \in Nat
      /\ Len(trades') = Len(trades) + 1
      /\ \A i \in 1..Len(trades) : trades'[i] = trades[i]
      /\ trades'[Len(trades) + 1] = t
    BY <1>1, <1>2, Appended, Elements DEF RunType
<1>4. orderTimes' = [orderTimes EXCEPT ![Name] = Append(@, clock)]
    BY DEF Traded, updateState, TrackTime
<1>5. orderTimes'[Name] = Append(orderTimes[Name], clock)
    BY <1>4 DEF RunType
<1>6. QED
    BY <1>1, <1>3, <1>5

\* At a trade the times of its minute are fewer than the limit.
LEMMA RatePassed ==
    ASSUME RunType, NEW o \in Orders, RunAllChecks(o)
    PROVE  Cardinality({i \in DOMAIN orderTimes[Name] : orderTimes[Name][i] > clock - 60})
               < Policy.maxPerMinute
<1> DEFINE recent == {i \in DOMAIN orderTimes[Name] : orderTimes[Name][i] > clock - 60}
<1>1. [p \in Orders |-> Name][o] = Name
    OBVIOUS
<1>2. Risk!Cardinality(recent) < Policy.maxPerMinute
    BY <1>1 DEF RunAllChecks, Risk!RateChecks, Risk!checkStrategyOrderFrequency
<1> HIDE DEF recent
<1>3. Risk!Cardinality(recent) = Cardinality(recent)
    BY DEF Risk!Cardinality, Cardinality
<1>4. QED
    BY <1>2, <1>3 DEF recent

LEMMA TrackedStep ==
    ASSUME BacktestType, Tracked, [BacktestNext]_backtestVars
    PROVE  Tracked'
<1>1. CASE UNCHANGED <<state, trades>>
    BY <1>1 DEF Tracked, state
<1>2. ASSUME NEW o \in Orders, NEW price \in Nat, NEW pnl \in Int, Traded(o, price, pnl)
      PROVE  Tracked'
  <2> DEFINE old == orderTimes[Name]
             n == Len(trades)
  <2>1. /\ n \in Nat /\ Len(trades') = n + 1
        /\ \A i \in 1..n : trades'[i] = trades[i]
        /\ trades'[n + 1].at = clock
        /\ orderTimes'[Name] = Append(old, clock)
    BY <1>2, TradeAppended DEF BacktestType
  <2>2. old \in Seq(Nat) /\ clock \in Nat /\ Len(old) = n /\ \A i \in 1..n : old[i] = trades[i].at
    BY DEF BacktestType, RunType, Tracked
  <2>3. /\ Len(orderTimes'[Name]) = n + 1
        /\ orderTimes'[Name][n + 1] = clock
        /\ \A i \in 1..n : orderTimes'[Name][i] = old[i]
    BY <2>1, <2>2, Appended
  <2>4. \A i \in 1..(n + 1) : i \in 1..n \/ i = n + 1
    BY <2>1
  <2>5. \A i \in 1..(n + 1) : orderTimes'[Name][i] = trades'[i].at
    BY <2>1, <2>2, <2>3, <2>4
  <2>6. QED
    BY <2>1, <2>3, <2>5 DEF Tracked
<1>3. QED
    BY <1>1, <1>2, TradeOrNot

LEMMA RateStep ==
    ASSUME BacktestType, Tracked, TradesPerMinute, [BacktestNext]_backtestVars
    PROVE  TradesPerMinute'
<1>1. CASE UNCHANGED <<state, trades>>
    BY <1>1 DEF TradesPerMinute
<1>2. ASSUME NEW o \in Orders, NEW price \in Nat, NEW pnl \in Int, Traded(o, price, pnl)
      PROVE  TradesPerMinute'
  <2> DEFINE n == Len(trades)
             times == orderTimes[Name]
             recent == {i \in DOMAIN times : times[i] > clock - 60}
             minute(i) == {j \in 1..i : trades'[j].at > trades'[i].at - 60}
  <2>1. /\ n \in Nat /\ Len(trades') = n + 1
        /\ \A i \in 1..n : trades'[i] = trades[i]
        /\ trades'[n + 1].at = clock
    BY <1>2, TradeAppended DEF BacktestType
  <2>2. DOMAIN trades = 1..n /\ DOMAIN trades' = 1..(n + 1)
    <3>1. RunType'
      BY StepTyped DEF BacktestType
    <3>2. QED
      BY <2>1, <3>1, Elements DEF BacktestType, RunType
  <2>3. ASSUME NEW i \in 1..n
        PROVE  Cardinality(minute(i)) <= Policy.maxPerMinute
    <3>1. minute(i) = {j \in 1..i : trades[j].at > trades[i].at - 60}
      BY <2>1
    <3>2. QED
      BY <2>2, <3>1 DEF TradesPerMinute
  <2>4. Cardinality(minute(n + 1)) <= Policy.maxPerMinute
    <3>1. Cardinality(recent) < Policy.maxPerMinute
      BY <1>2, RatePassed DEF BacktestType, Traded
    <3>2. DOMAIN times = 1..n /\ \A i \in 1..n : times[i] = trades[i].at /\ times[i] \in Nat
      <4>1. times \in Seq(Nat)
        BY DEF BacktestType, RunType
      <4>2. QED
        BY <4>1, Elements DEF Tracked
    <3>3. clock \in Nat
      BY DEF BacktestType, RunType
    <3>4. minute(n + 1) = recent \cup {n + 1}
      <4>1. \A j \in 1..(n + 1) : j \in 1..n \/ j = n + 1
        BY <2>1
      <4>2. clock > clock - 60
        BY <3>3
      <4>3. 1..n \subseteq 1..(n + 1) /\ n + 1 \in 1..(n + 1)
        BY <2>1
      <4>4. QED
        BY <2>1, <3>2, <4>1, <4>2, <4>3
    <3>5. recent \subseteq 1..n
      BY <3>2
    <3> HIDE DEF recent, minute
    <3>6. IsFiniteSet(recent) /\ Cardinality(recent) \in Nat
      <4>1. IsFiniteSet(1..n)
        BY <2>1, FS_Interval
      <4>2. QED
        BY <3>5, <4>1, FS_Subset, FS_CardinalityType
    <3>7. n + 1 \notin recent
      BY <2>1, <3>5
    <3>8. Cardinality(recent \cup {n + 1}) = Cardinality(recent) + 1
      BY <3>6, <3>7, FS_AddElement
    <3>9. Policy.maxPerMinute \in Nat
      BY BacktestAssumption
    <3>10. Cardinality(recent) + 1 <= Policy.maxPerMinute
      BY <3>1, <3>6, <3>9
    <3>11. QED
      BY <3>4, <3>8, <3>10
  <2>5. \A i \in 1..(n + 1) : i \in 1..n \/ i = n + 1
    BY <2>1
  <2>6. \A i \in DOMAIN trades' : Cardinality(minute(i)) <= Policy.maxPerMinute
    BY <2>2, <2>3, <2>4, <2>5
  <2>7. QED
    BY <2>6 DEF TradesPerMinute
<1>3. QED
    BY <1>1, <1>2, TradeOrNot

\* The replay keeps to the rate limit in every window of a minute that ends at a
\* trade: what its checks count is what it traded.
THEOREM ReplayKeepsRate == BacktestSpec => []TradesPerMinute
<1> DEFINE I == BacktestType /\ Tracked /\ TradesPerMinute
<1>1. BacktestInit => I
  <2>1. ASSUME BacktestInit PROVE Tracked /\ TradesPerMinute
    BY <2>1 DEF BacktestInit, Tracked, TradesPerMinute
  <2>2. QED
    BY <2>1, InitTyped
<1>2. I /\ [BacktestNext]_backtestVars => I'
  <2>1. ASSUME I, [BacktestNext]_backtestVars PROVE I'
    BY <2>1, StepTyped, TrackedStep, RateStep
  <2>2. QED
    BY <2>1
<1>3. QED
    BY <1>1, <1>2, PTL DEF BacktestSpec


-----------------------------------------------------------------------------
\* The drawdown

\* The profits and losses of the first n trades of q.
Pnls(q, n) == [i \in 1..n |-> q[i].pnl]

\* Equity and peak are what the trades make of the capital.
Curve ==
    /\ equity = EquityAfter(Len(trades))
    /\ \A k \in 0..Len(trades) : EquityAfter(k) <= peak
    /\ \E k \in 0..Len(trades) : peak = EquityAfter(k)

\* A trade's profit is a number, and so is their sum.
LEMMA PnlType ==
    ASSUME NEW q \in Seq(Trade), NEW n \in 0..Len(q)
    PROVE  Pnls(q, n) \in [1..n -> Int] /\ SumFunction(Pnls(q, n)) \in Int
<1>1. \A i \in 1..n : q[i].pnl \in Int
  <2>1. \A i \in 1..n : i \in 1..Len(q)
    BY Elements
  <2>2. \A i \in 1..n : q[i] \in Trade
    BY <2>1, Elements
  <2>3. QED
    BY <2>2 DEF Trade
<1>2. Pnls(q, n) \in [1..n -> Int]
    BY <1>1 DEF Pnls
<1>3. n \in Nat /\ IsFiniteSet(1..n)
    BY Elements, FS_Interval
<1>4. SumFunction(Pnls(q, n)) \in Int
    BY <1>2, <1>3, SumInt
<1>5. QED
    BY <1>2, <1>4

\* One more trade adds its profit.
LEMMA PnlsGrow ==
    ASSUME NEW p \in Seq(Trade), NEW q \in Seq(Trade), Len(q) = Len(p) + 1,
           \A i \in 1..Len(p) : q[i] = p[i]
    PROVE  /\ \A k \in 0..Len(p) : Pnls(q, k) = Pnls(p, k)
           /\ SumFunction(Pnls(q, Len(p) + 1)) = SumFunction(Pnls(p, Len(p))) + q[Len(p) + 1].pnl
<1> DEFINE n == Len(p)
           f == Pnls(p, n)
           g == Pnls(q, n + 1)
<1>1. n \in Nat
    BY Elements
<1>2. \A k \in 0..n : Pnls(q, k) = Pnls(p, k)
  <2>1. \A k \in 0..n : \A i \in 1..k : i \in 1..n
    BY <1>1
  <2>2. QED
    BY <2>1 DEF Pnls
<1>3. f \in [1..n -> Int] /\ g \in [1..(n + 1) -> Int]
  <2>1. n \in 0..Len(p) /\ n + 1 \in 0..Len(q)
    BY <1>1
  <2>2. QED
    BY <2>1, PnlType
<1>4. (\A i \in 1..n : g[i] = f[i]) /\ g[n + 1] = q[n + 1].pnl
  <2>1. \A i \in 1..n : i \in 1..(n + 1)
    BY <1>1
  <2>2. n + 1 \in 1..(n + 1)
    BY <1>1
  <2>3. QED
    BY <2>1, <2>2 DEF Pnls
<1> HIDE DEF n, f, g
<1>5. SumFunction(g) = SumFunction(f) + g[n + 1]
    BY <1>1, <1>3, <1>4, SumGrows
<1>6. QED
    BY <1>2, <1>4, <1>5 DEF n, f, g

\* The equity a trade leaves: that before it and its profit.
LEMMA EquityGrows ==
    ASSUME BacktestType, NEW o \in Orders, NEW price \in Nat, NEW pnl \in Int,
           Traded(o, price, pnl), RunType'
    PROVE  /\ \A k \in 0..Len(trades) : EquityAfter(k) \in Int /\ EquityAfter(k)' = EquityAfter(k)
           /\ Len(trades') = Len(trades) + 1
           /\ \A k \in {Len(trades) + 1} : EquityAfter(k)' = EquityAfter(Len(trades)) + pnl
<1>1. trades \in Seq(Trade) /\ trades' \in Seq(Trade) /\ InitialCapital \in Int
    BY BacktestAssumption DEF BacktestType, RunType
<1>2. /\ Len(trades) \in Nat /\ Len(trades') = Len(trades) + 1
      /\ \A i \in 1..Len(trades) : trades'[i] = trades[i]
      /\ trades'[Len(trades) + 1].pnl = pnl
    BY TradeAppended DEF BacktestType
<1>3. /\ \A k \in 0..Len(trades) : Pnls(trades', k) = Pnls(trades, k)
      /\ SumFunction(Pnls(trades', Len(trades) + 1)) = SumFunction(Pnls(trades, Len(trades))) + pnl
    BY <1>1, <1>2, PnlsGrow
<1>4. \A k : EquityAfter(k) = InitialCapital + SumFunction(Pnls(trades, k))
    BY DEF EquityAfter, Pnls
<1>5. \A k : EquityAfter(k)' = InitialCapital + SumFunction(Pnls(trades', k))
    BY DEF EquityAfter, Pnls
<1>6. \A k \in 0..Len(trades) : SumFunction(Pnls(trades, k)) \in Int
    BY <1>1, PnlType
<1>7. \A k \in 0..Len(trades) : EquityAfter(k) \in Int
    BY <1>1, <1>4, <1>6
<1>8. \A k \in 0..Len(trades) : EquityAfter(k)' = EquityAfter(k)
    BY <1>3, <1>4, <1>5
<1>9. Len(trades) \in 0..Len(trades)
    BY <1>2
<1>10. \A k \in {Len(trades) + 1} : EquityAfter(k)' = EquityAfter(Len(trades)) + pnl
  <2>1. SumFunction(Pnls(trades, Len(trades))) \in Int
    BY <1>6, <1>9
  <2>2. InitialCapital + (SumFunction(Pnls(trades, Len(trades))) + pnl)
            = (InitialCapital + SumFunction(Pnls(trades, Len(trades)))) + pnl
    BY <1>1, <2>1
  <2>3. QED
    BY <1>3, <1>4, <1>5, <2>2
<1>11. QED
    BY <1>2, <1>7, <1>8, <1>10


\* At a trade the equity is less than the limit below the peak.
LEMMA DrawdownPassed ==
    ASSUME NEW o, RunAllChecks(o)
    PROVE  peak = 0 \/ (peak - equity) * 100 < Policy.maxDrawdownPct * peak
BY DEF RunAllChecks, Risk!checkGlobalDrawdown

LEMMA CurveStep ==
    ASSUME BacktestType, Curve, [BacktestNext]_backtestVars
    PROVE  Curve'
<1>1. CASE UNCHANGED <<state, trades>>
    BY <1>1 DEF Curve, EquityAfter, state
<1>2. ASSUME NEW o \in Orders, NEW price \in Nat, NEW pnl \in Int, Traded(o, price, pnl)
      PROVE  Curve'
  <2>1. RunType'
    BY StepTyped DEF BacktestType
  <2>2. PICK n : n = Len(trades)
    OBVIOUS
  <2>3. n \in Nat /\ n \in 0..n /\ n + 1 \in 0..(n + 1)
    BY <2>2, Elements DEF BacktestType, RunType
  <2>4. /\ \A k \in 0..n : EquityAfter(k) \in Int /\ EquityAfter(k)' = EquityAfter(k)
        /\ Len(trades') = n + 1
        /\ EquityAfter(n + 1)' = EquityAfter(n) + pnl
    BY <1>2, <2>1, <2>2, EquityGrows
  <2>5. /\ equity = EquityAfter(n) /\ peak \in Int
        /\ \A k \in 0..n : EquityAfter(k) <= peak
        /\ \E k \in 0..n : peak = EquityAfter(k)
    BY <2>2 DEF Curve, BacktestType, RunType
  <2>6. equity' = EquityAfter(n + 1)' /\ equity' \in Int
    BY <1>2, <2>3, <2>4, <2>5 DEF Traded
  <2>7. peak' \in {peak, equity'} /\ peak' >= peak /\ peak' >= equity' /\ peak' \in Int
    <3>1. peak' = Max({peak, equity'})
      BY <1>2 DEF Traded, NewPeak
    <3>2. /\ Max({peak, equity'}) \in {peak, equity'}
          /\ Max({peak, equity'}) >= peak /\ Max({peak, equity'}) >= equity'
      BY <2>5, <2>6, MaxOfTwo
    <3>3. QED
      BY <2>5, <2>6, <3>1, <3>2
  <2>8. \A k \in 0..(n + 1) : k \in 0..n \/ k = n + 1
    BY <2>3
  <2>9. \A k \in 0..(n + 1) : EquityAfter(k)' <= peak'
    <3>1. \A k \in 0..n : EquityAfter(k)' <= peak'
      BY <2>4, <2>5, <2>7
    <3>2. EquityAfter(n + 1)' <= peak'
      BY <2>6, <2>7
    <3>3. QED
      BY <2>8, <3>1, <3>2
  <2>10. \E k \in 0..(n + 1) : peak' = EquityAfter(k)'
    <3>1. CASE peak' = equity'
      BY <2>3, <2>6, <3>1
    <3>2. CASE peak' = peak
      <4>1. PICK k \in 0..n : peak = EquityAfter(k)
        BY <2>5
      <4>2. k \in 0..(n + 1) /\ peak' = EquityAfter(k)'
        BY <2>3, <2>4, <3>2, <4>1
      <4>3. QED
        BY <4>2
    <3>3. QED
      BY <2>7, <3>1, <3>2
  <2>11. equity' = EquityAfter(Len(trades))'
    <3>1. EquityAfter(Len(trades))' = EquityAfter(n + 1)'
      BY <2>4 DEF EquityAfter
    <3>2. QED
      BY <2>6, <3>1
  <2>12. QED
    BY <2>4, <2>9, <2>10, <2>11 DEF Curve
<1>3. QED
    BY <1>1, <1>2, TradeOrNot

\* Trade n + 1 kept to the limit, seen from the trades before it.
Within(n) ==
    LET top == Max({EquityAfter(k) : k \in 0..n})
    IN top # 0 => (top - EquityAfter(n)) * 100 < Policy.maxDrawdownPct * top

LEMMA DrawdownStep ==
    ASSUME BacktestType, Curve, DrawdownEndsTrading, [BacktestNext]_backtestVars
    PROVE  DrawdownEndsTrading'
<1>1. CASE UNCHANGED <<state, trades>>
  <2>1. trades' = trades
    BY <1>1
  <2>2. \A k : EquityAfter(k)' = EquityAfter(k)
    BY <2>1 DEF EquityAfter
  <2>3. \A n : Within(n)' <=> Within(n)
    BY <2>2 DEF Within
  <2>4. QED
    BY <2>1, <2>3 DEF DrawdownEndsTrading, Within
<1>2. ASSUME NEW o \in Orders, NEW price \in Nat, NEW pnl \in Int, Traded(o, price, pnl)
      PROVE  DrawdownEndsTrading'
  <2>1. RunType'
    BY StepTyped DEF BacktestType
  <2>2. PICK n : n = Len(trades)
    OBVIOUS
  <2>3. n \in Nat /\ n \in 0..n
    BY <2>2, Elements DEF BacktestType, RunType
  <2>4. /\ \A k \in 0..n : EquityAfter(k) \in Int /\ EquityAfter(k)' = EquityAfter(k)
        /\ Len(trades') = n + 1
    BY <1>2, <2>1, <2>2, EquityGrows
  <2>5. ASSUME NEW i \in 0..n, Within(i)
        PROVE  Within(i)'
    <3>1. \A k \in 0..i : k \in 0..n
      BY <2>3
    <3>2. {EquityAfter(k)' : k \in 0..i} = {EquityAfter(k) : k \in 0..i}
      BY <2>4, <3>1
    <3>3. EquityAfter(i)' = EquityAfter(i)
      BY <2>4
    <3> HIDE DEF EquityAfter
    <3>4. QED
      BY <2>5, <3>2, <3>3 DEF Within
  <2>6. \A i \in 0..(n - 1) : Within(i)
    BY <2>2 DEF DrawdownEndsTrading, Within
  <2>7. Within(n)
    <3>1. /\ equity = EquityAfter(n)
          /\ \A k \in 0..n : EquityAfter(k) <= peak
          /\ \E k \in 0..n : peak = EquityAfter(k)
      BY <2>2 DEF Curve
    <3> DEFINE S == {EquityAfter(k) : k \in 0..n}
    <3>2. S \in SUBSET Int /\ peak \in S /\ peak \in Int
      BY <2>4, <3>1 DEF BacktestType, RunType
    <3>3. \A y \in S : peak >= y
      BY <2>4, <3>1, <3>2
    <3> HIDE DEF S
    <3>4. Max(S) = peak
      BY <3>2, <3>3, MaxIsLargest
    <3>5. peak = 0 \/ (peak - equity) * 100 < Policy.maxDrawdownPct * peak
      BY <1>2, DrawdownPassed DEF Traded
    <3>6. Within(n) <=> (Max(S) # 0 => (Max(S) - EquityAfter(n)) * 100 < Policy.maxDrawdownPct * Max(S))
      BY DEF Within, S
    <3>7. QED
      BY <3>1, <3>4, <3>5, <3>6
  <2>8. \A i \in 0..n : Within(i)'
    <3>1. \A i \in 0..n : i \in 0..(n - 1) \/ i = n
      BY <2>3
    <3>2. \A i \in 0..n : Within(i)
      BY <2>6, <2>7, <3>1
    <3>3. QED
      BY <2>5, <3>2
  <2>9. Len(trades') - 1 = n
    BY <2>3, <2>4
  <2>10. QED
    BY <2>8, <2>9 DEF DrawdownEndsTrading, Within
<1>3. QED
    BY <1>1, <1>2, TradeOrNot

\* Once the equity lies the limit below its peak no trade follows: the equity
\* and the peak the check reads are those of all the trades.
THEOREM ReplayStopsAtDrawdown == BacktestSpec => []DrawdownEndsTrading
<1> DEFINE I == BacktestType /\ Curve /\ DrawdownEndsTrading
<1>1. BacktestInit => I
  <2>1. ASSUME BacktestInit PROVE Curve /\ DrawdownEndsTrading
    <3>1. Len(trades) = 0 /\ equity = InitialCapital /\ peak = InitialCapital
          /\ InitialCapital \in Nat
      BY <2>1, BacktestAssumption DEF BacktestInit
    <3>2. DOMAIN [i \in 1..0 |-> trades[i].pnl] = {}
      OBVIOUS
    <3>3. SumFunction([i \in 1..0 |-> trades[i].pnl]) = 0
      BY <3>2, SumEmpty
    <3>4. EquityAfter(0) = InitialCapital
      BY <3>1, <3>3 DEF EquityAfter
    <3>5. 0..0 = {0} /\ 0..(0 - 1) = {}
      OBVIOUS
    <3>6. Curve
      BY <3>1, <3>4, <3>5 DEF Curve
    <3>7. DrawdownEndsTrading
      BY <3>1, <3>5 DEF DrawdownEndsTrading
    <3>8. QED
      BY <3>6, <3>7
  <2>2. QED
    BY <2>1, InitTyped
<1>2. I /\ [BacktestNext]_backtestVars => I'
  <2>1. ASSUME I, [BacktestNext]_backtestVars PROVE I'
    BY <2>1, StepTyped, CurveStep, DrawdownStep
  <2>2. QED
    BY <2>1
<1>3. QED
    BY <1>1, <1>2, PTL DEF BacktestSpec


-----------------------------------------------------------------------------
\* The grouping

\* The snapshots come in the order of their times, and the last one is in the
\* last tick.
Grouped ==
    /\ \A j \in 1..Len(snapshots) : snapshots[j].at <= snapshots[Len(snapshots)].at
    /\ Len(ticks) = 0 <=> Len(snapshots) = 0
    /\ Len(ticks) # 0 =>
          snapshots[Len(snapshots)].at - ticks[Len(ticks)].at \in 0..Tolerance

\* The snapshots of a tick as the loop measures them: from its start on and no
\* later than the tolerance.
Members(i) ==
    {j \in DOMAIN snapshots : snapshots[j].at - ticks[i].at \in 0..Tolerance}

\* The ticks start at a snapshot, more than the tolerance apart; together they
\* hold every snapshot; and for each market the last snapshot of the tick counts.
FromStart ==
    /\ \A i \in DOMAIN ticks : \E j \in DOMAIN snapshots : snapshots[j].at = ticks[i].at
    /\ \A i, j \in DOMAIN ticks : i < j => ticks[j].at - ticks[i].at > Tolerance
    /\ UNION {Members(i) : i \in DOMAIN ticks} = DOMAIN snapshots
    /\ \A i \in DOMAIN ticks :
          LET of(m) == {j \in Members(i) : snapshots[j].market = m}
          IN /\ DOMAIN ticks[i].data = {snapshots[j].market : j \in Members(i)}
             /\ \A m \in DOMAIN ticks[i].data :
                   ticks[i].data[m].quote = snapshots[Max(of(m))].quote

\* Its parts.
Starts == \A i \in 1..Len(ticks) : \E j \in 1..Len(snapshots) : snapshots[j].at = ticks[i].at
Apart ==
    \A i, j \in 1..Len(ticks) : i < j => ticks[j].at - ticks[i].at > Tolerance
Covered == \A j \in 1..Len(snapshots) : \E i \in 1..Len(ticks) : j \in Members(i)
Of(i, m) == {j \in Members(i) : snapshots[j].market = m}
Right(i) ==
    /\ DOMAIN ticks[i].data = {snapshots[j].market : j \in Members(i)}
    /\ \A m \in DOMAIN ticks[i].data : ticks[i].data[m].quote = snapshots[Max(Of(i, m))].quote

Parts == Starts /\ Apart /\ Covered /\ \A i \in 1..Len(ticks) : Right(i)

\* The domains of the two sequences, and the times in them.
LEMMA LoadedTimes ==
    ASSUME LoadType
    PROVE  /\ Len(snapshots) \in Nat /\ DOMAIN snapshots = 1..Len(snapshots)
           /\ Len(ticks) \in Nat /\ DOMAIN ticks = 1..Len(ticks)
           /\ \A j \in 1..Len(snapshots) : snapshots[j].at \in Nat
           /\ \A i \in 1..Len(ticks) : ticks[i].at \in Nat
<1>1. snapshots \in Seq(Snapshot) /\ ticks \in Seq(Tick)
    BY DEF LoadType
<1>2. /\ Len(snapshots) \in Nat /\ DOMAIN snapshots = 1..Len(snapshots)
      /\ Len(ticks) \in Nat /\ DOMAIN ticks = 1..Len(ticks)
    BY <1>1, Elements
<1>3. \A j \in 1..Len(snapshots) : snapshots[j] \in Snapshot
    BY <1>1, Elements
<1>4. \A i \in 1..Len(ticks) : ticks[i] \in Tick
    BY <1>1, Elements
<1>5. QED
    BY <1>2, <1>3, <1>4 DEF Snapshot, Tick

\* The parts make up the property.
LEMMA ReferenceParts ==
    ASSUME LoadType
    PROVE  FromStart <=> Starts /\ Apart /\ Covered /\ \A i \in 1..Len(ticks) : Right(i)
<1>1. DOMAIN snapshots = 1..Len(snapshots) /\ DOMAIN ticks = 1..Len(ticks)
    BY LoadedTimes
<1>2. (UNION {Members(i) : i \in DOMAIN ticks} = DOMAIN snapshots) <=> Covered
  <2>1. \A i : Members(i) \subseteq DOMAIN snapshots
    BY DEF Members
  <2> HIDE DEF Members
  <2>2. QED
    BY <1>1, <2>1 DEF Covered
<1>3. FromStart <=>
        /\ \A i \in DOMAIN ticks : \E j \in DOMAIN snapshots : snapshots[j].at = ticks[i].at
        /\ \A i, j \in DOMAIN ticks : i < j => ticks[j].at - ticks[i].at > Tolerance
        /\ UNION {Members(i) : i \in DOMAIN ticks} = DOMAIN snapshots
        /\ \A i \in DOMAIN ticks : Right(i)
    BY DEF FromStart, Right, Of
<1>4. QED
    BY <1>1, <1>2, <1>3 DEF Starts, Apart

LEMMA ReferencePartsNow == LoadType => (Parts <=> FromStart)
BY ReferenceParts DEF Parts

LEMMA ReferencePartsNext ==
    ASSUME LoadType', Parts'
    PROVE  FromStart'
BY ReferencePartsNow, PTL

\* The largest of a set of positions is one of them.
LEMMA MaxIn ==
    ASSUME NEW n \in Nat, NEW S \in SUBSET (1..n), S # {}
    PROVE  Max(S) \in S
<1> DEFINE f == [x \in S |-> x]
<1>1. IsFiniteSet(S)
  <2>1. IsFiniteSet(1..n)
    BY FS_Interval
  <2>2. QED
    BY <2>1, FS_Subset
<1>2. f \in [S -> Int] /\ \A x \in S : f[x] = x
    OBVIOUS
<1> HIDE DEF f
<1>3. \E x \in S : \A y \in S : f[x] >= f[y]
    BY <1>1, <1>2, LargestValue
<1>4. PICK x \in S : \A y \in S : x >= y
    BY <1>2, <1>3
<1>5. S \in SUBSET Int
    OBVIOUS
<1>6. Max(S) = x
    BY <1>4, <1>5, MaxIsLargest
<1>7. QED
    BY <1>4, <1>6

\* A loaded snapshot, as the last of the sequence.
LEMMA LoadedLast ==
    ASSUME LoadType, NEW s, Loaded(s), Grouped
    PROVE  /\ s.at \in Nat
           /\ Len(snapshots') = Len(snapshots) + 1
           /\ \A j \in 1..Len(snapshots) : snapshots'[j] = snapshots[j]
           /\ snapshots'[Len(snapshots) + 1] = s
           /\ \A j \in 1..Len(snapshots) : snapshots[j].at <= s.at
           /\ Len(ticks) # 0 => s.at >= ticks[Len(ticks)].at
<1>1. snapshots \in Seq(Snapshot) /\ s \in Snapshot /\ snapshots' = Append(snapshots, s)
    BY DEF LoadType, Loaded
<1>2. /\ Len(snapshots') = Len(snapshots) + 1
      /\ \A j \in 1..Len(snapshots) : snapshots'[j] = snapshots[j]
      /\ snapshots'[Len(snapshots) + 1] = s
    BY <1>1, Appended
<1>3. s.at \in Nat
    BY <1>1 DEF Snapshot
<1>4. CASE Len(snapshots) = 0
  <2>1. \A j \in 1..Len(snapshots) : FALSE
    BY <1>4
  <2>2. Len(ticks) = 0
    BY <1>4 DEF Grouped
  <2>3. QED
    BY <1>2, <1>3, <2>1, <2>2
<1>5. CASE Len(snapshots) # 0
  <2>1. Len(snapshots) \in 1..Len(snapshots) /\ s.at >= snapshots[Len(snapshots)].at
    <3>1. Len(snapshots) \in Nat /\ snapshots # << >>
      BY <1>1, <1>5
    <3>2. QED
      BY <1>5, <3>1 DEF Loaded, Last
  <2>2. \A j \in 1..Len(snapshots) : snapshots[j].at \in Nat /\ snapshots[j].at <= snapshots[Len(snapshots)].at
    BY LoadedTimes DEF Grouped
  <2>3. \A j \in 1..Len(snapshots) : snapshots[j].at <= s.at
    BY <1>3, <2>1, <2>2
  <2>4. Len(ticks) # 0 => s.at >= ticks[Len(ticks)].at
    <3>1. SUFFICES ASSUME Len(ticks) # 0 PROVE s.at >= ticks[Len(ticks)].at
      OBVIOUS
    <3>2. ticks[Len(ticks)].at \in Nat
      BY <3>1, LoadedTimes
    <3>3. snapshots[Len(snapshots)].at - ticks[Len(ticks)].at \in 0..Tolerance
      BY <3>1 DEF Grouped
    <3>4. QED
      BY <1>3, <2>1, <2>2, <3>2, <3>3, BacktestAssumption
  <2>5. QED
    BY <1>2, <1>3, <2>3, <2>4
<1>6. QED
    BY <1>4, <1>5


\* A tick the snapshot is too late for keeps its snapshots and its data.
LEMMA OldTick ==
    ASSUME LoadType, LoadType', NEW s, Loaded(s), Grouped, NEW i \in 1..Len(ticks), Right(i),
           ticks'[i] = ticks[i], s.at - ticks[i].at > Tolerance
    PROVE  Members(i)' = Members(i) /\ Right(i)'
<1> DEFINE n == Len(snapshots)
<1>1. /\ s.at \in Nat /\ Len(snapshots') = n + 1 /\ snapshots'[n + 1] = s
      /\ \A j \in 1..n : snapshots'[j] = snapshots[j]
    BY LoadedLast
<1>2. n \in Nat /\ DOMAIN snapshots = 1..n /\ DOMAIN snapshots' = 1..(n + 1)
  <2>1. n \in Nat /\ DOMAIN snapshots = 1..n
    BY LoadedTimes
  <2>2. snapshots' \in Seq(Snapshot)
    BY DEF LoadType
  <2>3. QED
    BY <1>1, <2>1, <2>2, Elements
<1>3. ticks[i].at \in Nat /\ Tolerance \in Nat
    BY LoadedTimes, BacktestAssumption
<1>4. Members(i) = {j \in 1..n : snapshots[j].at - ticks[i].at \in 0..Tolerance}
    BY <1>2 DEF Members
<1>5. Members(i)' = {j \in 1..(n + 1) : snapshots'[j].at - ticks[i].at \in 0..Tolerance}
    BY <1>2 DEF Members
<1>6. s.at - ticks[i].at \notin 0..Tolerance
    BY <1>1, <1>3
<1>7. \A j : j \in 1..(n + 1) <=> j \in 1..n \/ j = n + 1
    BY <1>2
<1>8. Members(i)' = Members(i)
  <2> HIDE DEF n
  <2>1. \A j : j \in Members(i)' <=> j \in Members(i)
    BY <1>1, <1>4, <1>5, <1>6, <1>7
  <2>2. QED
    BY <1>4, <1>5, <2>1
<1>9. \A j \in Members(i) : snapshots'[j] = snapshots[j]
    BY <1>1, <1>4
<1>10. \A m : Of(i, m)' = Of(i, m)
    BY <1>8, <1>9 DEF Of
<1>11. Members(i) \subseteq 1..n
    BY <1>4
<1> HIDE DEF Members, n
<1>12. {snapshots'[j].market : j \in Members(i)} = {snapshots[j].market : j \in Members(i)}
    BY <1>9
<1>13. ASSUME NEW m \in DOMAIN ticks[i].data
       PROVE  snapshots'[Max(Of(i, m))] = snapshots[Max(Of(i, m))]
  <2>1. Of(i, m) # {} /\ Of(i, m) \in SUBSET (1..n)
    BY <1>11, <1>13 DEF Right, Of
  <2>2. Max(Of(i, m)) \in Of(i, m)
    BY <1>2, <2>1, MaxIn
  <2>3. QED
    BY <1>9, <2>2 DEF Of
<1>14. Right(i)' <=> /\ DOMAIN ticks'[i].data = {snapshots'[j].market : j \in Members(i)'}
                     /\ \A m \in DOMAIN ticks'[i].data :
                           ticks'[i].data[m].quote = snapshots'[Max(Of(i, m)')].quote
    BY DEF Right
<1>15. Right(i)'
  <2> HIDE DEF Of
  <2>1. DOMAIN ticks'[i].data = {snapshots'[j].market : j \in Members(i)'}
    BY <1>8, <1>12 DEF Right
  <2>2. \A m \in DOMAIN ticks'[i].data : ticks'[i].data[m].quote = snapshots'[Max(Of(i, m)')].quote
    BY <1>10, <1>13 DEF Right
  <2>3. QED
    BY <1>14, <2>1, <2>2
<1>16. QED
    BY <1>8, <1>15

\* The last tick with the snapshot in it.
LEMMA LastTick ==
    ASSUME LoadType, LoadType', NEW s, Loaded(s), Grouped, SameTick(s),
           NEW k, k = Len(ticks), Right(k)
    PROVE  Members(k)' = Members(k) \cup {Len(snapshots) + 1} /\ Right(k)'
<1> DEFINE n == Len(snapshots)
<1>1. /\ s.at \in Nat /\ Len(snapshots') = n + 1 /\ snapshots'[n + 1] = s
      /\ \A j \in 1..n : snapshots'[j] = snapshots[j]
      /\ Len(ticks) # 0 => s.at >= ticks[Len(ticks)].at
    BY LoadedLast
<1>2. n \in Nat /\ DOMAIN snapshots = 1..n /\ DOMAIN snapshots' = 1..(n + 1)
  <2>1. n \in Nat /\ DOMAIN snapshots = 1..n
    BY LoadedTimes
  <2>2. snapshots' \in Seq(Snapshot)
    BY DEF LoadType
  <2>3. QED
    BY <1>1, <2>1, <2>2, Elements
<1>3. /\ k \in 1..Len(ticks) /\ Last(ticks) = ticks[k]
      /\ ticks'[k].at = ticks[k].at
      /\ ticks'[k].data = Put(ticks[k].data, s)
    BY LoadedTick
<1>4. ticks[k].at \in Nat /\ Tolerance \in Nat /\ s.at >= ticks[k].at
      /\ s.at - ticks[k].at <= Tolerance
  <2>1. ticks[k].at \in Nat /\ Tolerance \in Nat
    BY <1>3, LoadedTimes, BacktestAssumption
  <2>2. Len(ticks) # 0
    BY <1>3, LoadedTimes
  <2>3. QED
    BY <1>1, <1>3, <2>1, <2>2 DEF SameTick
<1>5. Members(k) = {j \in 1..n : snapshots[j].at - ticks[k].at \in 0..Tolerance}
    BY <1>2 DEF Members
<1>6. Members(k)' = {j \in 1..(n + 1) : snapshots'[j].at - ticks[k].at \in 0..Tolerance}
    BY <1>2, <1>3 DEF Members
<1>7. s.at - ticks[k].at \in 0..Tolerance
    BY <1>1, <1>4
<1>8. (\A j : j \in 1..(n + 1) <=> j \in 1..n \/ j = n + 1) /\ n + 1 \notin 1..n
    BY <1>2
<1>9. Members(k)' = Members(k) \cup {n + 1}
  <2> HIDE DEF n
  <2>1. \A j : j \in Members(k)' <=> j \in Members(k) \cup {n + 1}
    BY <1>1, <1>5, <1>6, <1>7, <1>8
  <2>2. QED
    BY <1>5, <1>6, <2>1
<1>10. Members(k) \subseteq 1..n /\ \A j \in Members(k) : snapshots'[j] = snapshots[j]
    BY <1>1, <1>5
<1>11. /\ DOMAIN ticks'[k].data = DOMAIN ticks[k].data \cup {s.market}
       /\ ticks'[k].data[s.market].quote = s.quote
       /\ \A m \in DOMAIN ticks[k].data : m # s.market => ticks'[k].data[m] = ticks[k].data[m]
  <2>1. ticks[k].data \in TickData
    <3>1. ticks[k] \in Tick
      BY <1>3, Elements DEF LoadType
    <3>2. QED
      BY <3>1 DEF Tick
  <2>2. s \in Snapshot
    BY DEF Loaded
  <2>3. /\ DOMAIN Put(ticks[k].data, s) = DOMAIN ticks[k].data \cup {s.market}
        /\ Put(ticks[k].data, s)[s.market].quote = s.quote
        /\ \A m \in DOMAIN ticks[k].data : m # s.market => Put(ticks[k].data, s)[m] = ticks[k].data[m]
    BY <2>1, <2>2, PutType
  <2>4. QED
    BY <1>3, <2>3
<1> HIDE DEF Members, n
<1>12. DOMAIN ticks'[k].data = {snapshots'[j].market : j \in Members(k)'}
  <2>1. DOMAIN ticks[k].data = {snapshots[j].market : j \in Members(k)}
    BY DEF Right
  <2>2. {snapshots'[j].market : j \in Members(k)'}
            = {snapshots[j].market : j \in Members(k)} \cup {s.market}
    BY <1>1, <1>9, <1>10
  <2>3. QED
    BY <1>11, <2>1, <2>2
<1>13. ASSUME NEW m \in DOMAIN ticks'[k].data
       PROVE  ticks'[k].data[m].quote = snapshots'[Max(Of(k, m)')].quote
  <2>1. CASE m = s.market
    <3>1. Of(k, m)' \subseteq 1..(n + 1) /\ n + 1 \in Of(k, m)'
      BY <1>1, <1>8, <1>9, <1>10, <2>1 DEF Of
    <3>2. PICK S : S = Of(k, m)'
      OBVIOUS
    <3>3. S \in SUBSET Int /\ n + 1 \in S /\ \A y \in S : n + 1 >= y
      BY <1>2, <3>1, <3>2
    <3>4. Max(S) = n + 1
      BY <3>3, MaxIsLargest
    <3>5. QED
      BY <1>1, <1>11, <2>1, <3>2, <3>4
  <2>2. CASE m # s.market
    <3>1. m \in DOMAIN ticks[k].data /\ ticks'[k].data[m] = ticks[k].data[m]
      BY <1>11, <1>13, <2>2
    <3>2. Of(k, m)' = Of(k, m)
      BY <1>1, <1>9, <1>10, <2>2 DEF Of
    <3>3. Of(k, m) # {} /\ Of(k, m) \in SUBSET (1..n)
      BY <1>10, <3>1 DEF Right, Of
    <3>4. Max(Of(k, m)) \in Of(k, m)
      BY <1>2, <3>3, MaxIn
    <3>5. snapshots'[Max(Of(k, m))] = snapshots[Max(Of(k, m))]
      BY <1>10, <3>4 DEF Of
    <3>6. ticks[k].data[m].quote = snapshots[Max(Of(k, m))].quote
      BY <3>1 DEF Right
    <3>7. QED
      BY <3>1, <3>2, <3>5, <3>6
  <2>3. QED
    BY <2>1, <2>2
<1>14. Right(k)' <=> /\ DOMAIN ticks'[k].data = {snapshots'[j].market : j \in Members(k)'}
                     /\ \A m \in DOMAIN ticks'[k].data :
                           ticks'[k].data[m].quote = snapshots'[Max(Of(k, m)')].quote
    BY DEF Right
<1>15. Right(k)'
    BY <1>12, <1>13, <1>14
<1>16. QED
    BY <1>9, <1>15 DEF n


\* A snapshot that makes a new tick is later than every tick and its tolerance.
LEMMA TooLate ==
    ASSUME LoadType, NEW s, Loaded(s), Grouped, Apart, ~SameTick(s)
    PROVE  /\ \A i \in 1..Len(ticks) : s.at - ticks[i].at > Tolerance
           /\ \A j \in 1..Len(snapshots) : snapshots[j].at < s.at
<1>1. /\ Len(ticks) \in Nat /\ Len(snapshots) \in Nat /\ Tolerance \in Nat
      /\ \A i \in 1..Len(ticks) : ticks[i].at \in Nat
      /\ \A j \in 1..Len(snapshots) : snapshots[j].at \in Nat
    BY LoadedTimes, BacktestAssumption
<1>2. CASE Len(ticks) = 0
  <2>1. Len(snapshots) = 0
    BY <1>2 DEF Grouped
  <2>2. QED
    BY <1>2, <2>1
<1>3. CASE Len(ticks) # 0
  <2> DEFINE k == Len(ticks)
             n == Len(snapshots)
  <2>1. k \in 1..k /\ ticks # << >>
    BY <1>1, <1>3 DEF LoadType
  <2>2. s.at \in Nat
    BY LoadedLast
  <2>3. s.at - ticks[k].at > Tolerance
    <3>1. ~(s.at - ticks[k].at <= Tolerance)
      BY <2>1 DEF SameTick, Last
    <3>2. QED
      BY <1>1, <2>1, <2>2, <3>1
  <2>4. ASSUME NEW i \in 1..k
        PROVE  s.at - ticks[i].at > Tolerance
    <3>1. CASE i = k
      BY <2>3, <3>1
    <3>2. CASE i < k
      <4>1. ticks[k].at - ticks[i].at > Tolerance
        BY <2>1, <3>2 DEF Apart
      <4>2. QED
        BY <1>1, <2>1, <2>2, <2>3, <4>1
    <3>3. QED
      BY <1>1, <3>1, <3>2
  <2>5. n \in 1..n /\ snapshots[n].at - ticks[k].at \in 0..Tolerance
    BY <1>1, <1>3 DEF Grouped
  <2>6. \A j \in 1..n : snapshots[j].at <= snapshots[n].at
    BY DEF Grouped
  <2>7. snapshots[n].at < s.at
    BY <1>1, <2>1, <2>2, <2>3, <2>5
  <2>8. \A j \in 1..n : snapshots[j].at < s.at
    BY <1>1, <2>2, <2>5, <2>6, <2>7
  <2>9. QED
    BY <2>4, <2>8
<1>4. QED
    BY <1>2, <1>3

\* The new tick holds the snapshot and no other.
LEMMA FirstOfTick ==
    ASSUME LoadType, LoadType', NEW s, Loaded(s), Grouped, Apart, ~SameTick(s),
           NEW k, k = Len(ticks) + 1
    PROVE  Members(k)' = {Len(snapshots) + 1} /\ Right(k)'
<1> DEFINE n == Len(snapshots)
<1>1. /\ s.at \in Nat /\ Len(snapshots') = n + 1 /\ snapshots'[n + 1] = s
      /\ \A j \in 1..n : snapshots'[j] = snapshots[j]
    BY LoadedLast
<1>2. n \in Nat /\ DOMAIN snapshots' = 1..(n + 1)
  <2>1. n \in Nat
    BY LoadedTimes
  <2>2. snapshots' \in Seq(Snapshot)
    BY DEF LoadType
  <2>3. QED
    BY <1>1, <2>1, <2>2, Elements
<1>3. ticks'[k].at = s.at /\ ticks'[k].data = Put(<< >>, s)
    BY LoadedNewTick
<1>4. Members(k)' = {j \in 1..(n + 1) : snapshots'[j].at - s.at \in 0..Tolerance}
    BY <1>2, <1>3 DEF Members
<1>5. \A j \in 1..n : snapshots'[j].at - s.at \notin 0..Tolerance
  <2>1. \A j \in 1..n : snapshots[j].at < s.at /\ snapshots[j].at \in Nat
    BY TooLate, LoadedTimes
  <2>2. QED
    BY <1>1, <2>1, BacktestAssumption
<1>6. s.at - s.at \in 0..Tolerance
    BY <1>1, BacktestAssumption
<1>7. \A j : j \in 1..(n + 1) <=> j \in 1..n \/ j = n + 1
    BY <1>2
<1>8. Members(k)' = {n + 1}
  <2> HIDE DEF n
  <2>1. \A j : j \in Members(k)' <=> j \in {n + 1}
    BY <1>1, <1>4, <1>5, <1>6, <1>7
  <2>2. QED
    BY <1>4, <2>1
<1>9. /\ DOMAIN ticks'[k].data = {s.market}
      /\ ticks'[k].data[s.market].quote = s.quote
  <2>1. s \in Snapshot /\ DOMAIN << >> = {}
    BY DEF Loaded
  <2>2. /\ DOMAIN Put(<< >>, s) = DOMAIN << >> \cup {s.market}
        /\ Put(<< >>, s)[s.market].quote = s.quote
    BY <2>1, PutType
  <2>3. QED
    BY <1>3, <2>1, <2>2
<1> HIDE DEF Members, n
<1>11. Max({n + 1}) = n + 1
  <2>1. PICK S : S = {n + 1}
    OBVIOUS
  <2>2. S \in SUBSET Int /\ n + 1 \in S /\ \A y \in S : n + 1 >= y
    BY <1>2, <2>1
  <2>3. Max(S) = n + 1
    BY <2>2, MaxIsLargest
  <2>4. QED
    BY <2>1, <2>3
<1>12. {snapshots'[j].market : j \in Members(k)'} = {s.market}
    BY <1>1, <1>8
<1>13. Right(k)' <=> /\ DOMAIN ticks'[k].data = {snapshots'[j].market : j \in Members(k)'}
                     /\ \A m \in DOMAIN ticks'[k].data :
                           ticks'[k].data[m].quote = snapshots'[Max(Of(k, m)')].quote
    BY DEF Right
<1>14. ASSUME NEW m \in DOMAIN ticks'[k].data
       PROVE  ticks'[k].data[m].quote = snapshots'[Max(Of(k, m)')].quote
  <2>1. m = s.market
    BY <1>9, <1>14
  <2>2. Of(k, m)' = {n + 1}
    BY <1>1, <1>8, <2>1 DEF Of
  <2>3. QED
    BY <1>1, <1>9, <1>11, <2>1, <2>2
<1>15. QED
    BY <1>8, <1>9, <1>12, <1>13, <1>14 DEF n


\* Both cases keep FromStart and what its proof needs.
LEMMA SameTickStep ==
    ASSUME LoadType, LoadType', NEW s, Loaded(s), SameTick(s), Grouped, FromStart
    PROVE  Grouped' /\ FromStart'
<1>1. PICK n : n = Len(snapshots)
    OBVIOUS
<1>2. PICK k : k = Len(ticks)
    OBVIOUS
<1>3. Starts /\ Apart /\ Covered /\ \A i \in 1..k : Right(i)
    BY <1>2, ReferenceParts
<1>4. /\ s.at \in Nat /\ Len(snapshots') = n + 1 /\ snapshots'[n + 1] = s
      /\ \A j \in 1..n : snapshots'[j] = snapshots[j]
      /\ \A j \in 1..n : snapshots[j].at <= s.at
      /\ k # 0 => s.at >= ticks[k].at
    BY <1>1, <1>2, LoadedLast
<1>5. /\ Len(ticks') = k /\ k \in 1..k /\ Last(ticks) = ticks[k]
      /\ \A i \in 1..k : ticks'[i].at = ticks[i].at
      /\ \A i \in 1..k : i # k => ticks'[i] = ticks[i]
    BY <1>2, LoadedTick
<1>6. /\ n \in Nat /\ k \in Nat /\ Tolerance \in Nat
      /\ \A i \in 1..k : ticks[i].at \in Nat
    BY <1>1, <1>2, LoadedTimes, BacktestAssumption
<1>7. \A j : j \in 1..(n + 1) <=> j \in 1..n \/ j = n + 1
    BY <1>6
<1>8. Members(k)' = Members(k) \cup {n + 1} /\ Right(k)'
    BY <1>1, <1>2, <1>3, <1>5, LastTick
<1>9. ASSUME NEW i \in 1..k, i # k
      PROVE  Members(i)' = Members(i) /\ Right(i)'
  <2>1. ticks[k].at - ticks[i].at > Tolerance
    BY <1>2, <1>3, <1>5, <1>6, <1>9 DEF Apart
  <2>2. s.at >= ticks[k].at
    BY <1>4, <1>5, <1>6
  <2>3. s.at - ticks[i].at > Tolerance
    BY <1>4, <1>5, <1>6, <2>1, <2>2
  <2>4. ticks'[i] = ticks[i] /\ Right(i) /\ i \in 1..Len(ticks)
    BY <1>2, <1>3, <1>5, <1>9
  <2>5. QED
    BY <2>3, <2>4, OldTick
<1>10. Starts'
  <2>1. \A i \in 1..k : \E j \in 1..(n + 1) : snapshots'[j].at = ticks'[i].at
    BY <1>1, <1>2, <1>3, <1>4, <1>5, <1>7 DEF Starts
  <2>2. QED
    BY <1>4, <1>5, <2>1 DEF Starts
<1>11. Apart'
    BY <1>2, <1>3, <1>5 DEF Apart
<1>12. Covered'
  <2>1. \A j \in 1..n : \E i \in 1..k : j \in Members(i)'
    BY <1>1, <1>2, <1>3, <1>8, <1>9 DEF Covered
  <2>2. n + 1 \in Members(k)'
    BY <1>8
  <2>3. \A j \in 1..(n + 1) : \E i \in 1..k : j \in Members(i)'
    BY <1>5, <1>7, <2>1, <2>2
  <2>4. QED
    BY <1>4, <1>5, <2>3 DEF Covered
<1>13. \A i \in 1..Len(ticks') : Right(i)'
    BY <1>5, <1>8, <1>9
<1>14. Grouped'
  <2>1. \A j \in 1..(n + 1) : snapshots'[j].at <= snapshots'[n + 1].at
    BY <1>4, <1>7
  <2>2. s.at - ticks[k].at <= Tolerance /\ s.at >= ticks[k].at
    BY <1>4, <1>5, <1>6 DEF SameTick
  <2>3. s.at - ticks[k].at \in 0..Tolerance
    BY <1>4, <1>5, <1>6, <2>2
  <2>4. snapshots'[n + 1].at - ticks'[k].at \in 0..Tolerance
    BY <1>4, <1>5, <2>3
  <2>5. n + 1 # 0 /\ k # 0
    BY <1>5, <1>6
  <2>6. QED
    BY <1>4, <1>5, <2>1, <2>4, <2>5 DEF Grouped
<1>15. FromStart'
  <2>1. Parts'
    BY <1>10, <1>11, <1>12, <1>13 DEF Parts
  <2>2. QED
    BY <2>1, ReferencePartsNext
<1>16. QED
    BY <1>14, <1>15

LEMMA NewTickStep ==
    ASSUME LoadType, LoadType', NEW s, Loaded(s), ~SameTick(s), Grouped, FromStart
    PROVE  Grouped' /\ FromStart'
<1>1. PICK n : n = Len(snapshots)
    OBVIOUS
<1>2. PICK k : k = Len(ticks)
    OBVIOUS
<1>3. Starts /\ Apart /\ Covered /\ \A i \in 1..k : Right(i)
    BY <1>2, ReferenceParts
<1>4. /\ s.at \in Nat /\ Len(snapshots') = n + 1 /\ snapshots'[n + 1] = s
      /\ \A j \in 1..n : snapshots'[j] = snapshots[j]
      /\ \A j \in 1..n : snapshots[j].at <= s.at
    BY <1>1, LoadedLast
<1>5. /\ Len(ticks') = k + 1
      /\ \A i \in 1..k : ticks'[i] = ticks[i]
      /\ ticks'[k + 1].at = s.at
    BY <1>2, LoadedNewTick
<1>6. /\ n \in Nat /\ k \in Nat /\ Tolerance \in Nat
      /\ \A i \in 1..k : ticks[i].at \in Nat
    BY <1>1, <1>2, LoadedTimes, BacktestAssumption
<1>7. /\ \A j : j \in 1..(n + 1) <=> j \in 1..n \/ j = n + 1
      /\ \A i : i \in 1..(k + 1) <=> i \in 1..k \/ i = k + 1
    BY <1>6
<1>8. Members(k + 1)' = {n + 1} /\ Right(k + 1)'
    BY <1>1, <1>2, <1>3, FirstOfTick
<1>9. \A i \in 1..k : s.at - ticks[i].at > Tolerance
    BY <1>2, <1>3, TooLate
<1>10. ASSUME NEW i \in 1..k
       PROVE  Members(i)' = Members(i) /\ Right(i)'
  <2>1. ticks'[i] = ticks[i] /\ Right(i) /\ i \in 1..Len(ticks) /\ s.at - ticks[i].at > Tolerance
    BY <1>2, <1>3, <1>5, <1>9
  <2>2. QED
    BY <2>1, OldTick
<1>11. Starts'
  <2>1. \A i \in 1..k : \E j \in 1..(n + 1) : snapshots'[j].at = ticks'[i].at
    BY <1>1, <1>2, <1>3, <1>4, <1>5, <1>7 DEF Starts
  <2>2. \A i \in 1..(k + 1) : \E j \in 1..(n + 1) : snapshots'[j].at = ticks'[i].at
    BY <1>4, <1>5, <1>7, <2>1
  <2>3. QED
    BY <1>4, <1>5, <2>2 DEF Starts
<1>12. Apart'
  <2>1. ASSUME NEW i \in 1..(k + 1), NEW j \in 1..(k + 1), i < j
        PROVE  ticks'[j].at - ticks'[i].at > Tolerance
    <3>1. i \in 1..k
      BY <1>6, <2>1
    <3>2. CASE j = k + 1
      BY <1>5, <1>9, <3>1, <3>2
    <3>3. CASE j \in 1..k
      BY <1>2, <1>3, <1>5, <2>1, <3>1, <3>3 DEF Apart
    <3>4. QED
      BY <1>7, <3>2, <3>3
  <2>2. QED
    BY <1>5, <2>1 DEF Apart
<1>13. Covered'
  <2>1. \A j \in 1..n : \E i \in 1..k : j \in Members(i)'
    BY <1>1, <1>2, <1>3, <1>10 DEF Covered
  <2>2. n + 1 \in Members(k + 1)'
    BY <1>8
  <2>3. \A j \in 1..(n + 1) : \E i \in 1..(k + 1) : j \in Members(i)'
    BY <1>7, <2>1, <2>2
  <2>4. QED
    BY <1>4, <1>5, <2>3 DEF Covered
<1>14. \A i \in 1..Len(ticks') : Right(i)'
    BY <1>5, <1>7, <1>8, <1>10
<1>15. Grouped'
  <2>1. \A j \in 1..(n + 1) : snapshots'[j].at <= snapshots'[n + 1].at
    BY <1>4, <1>7
  <2>2. snapshots'[n + 1].at - ticks'[k + 1].at \in 0..Tolerance
    <3>1. s.at - s.at \in 0..Tolerance
      BY <1>4, <1>6
    <3>2. QED
      BY <1>4, <1>5, <3>1
  <2>3. n + 1 # 0 /\ k + 1 # 0
    BY <1>6
  <2>4. QED
    BY <1>4, <1>5, <2>1, <2>2, <2>3 DEF Grouped
<1>16. FromStart'
  <2>1. Parts'
    BY <1>11, <1>12, <1>13, <1>14 DEF Parts
  <2>2. QED
    BY <2>1, ReferencePartsNext
<1>17. QED
    BY <1>15, <1>16

\* What the replay sees at a tick is what the loop put there.
LEMMA SliceMeasured ==
    ASSUME LoadType, Starts, Apart, Covered
    PROVE  \A i \in 1..Len(ticks) : Slice(i) = Members(i)
<1>1. /\ DOMAIN snapshots = 1..Len(snapshots) /\ DOMAIN ticks = 1..Len(ticks)
      /\ Len(ticks) \in Nat /\ Tolerance \in Nat
      /\ \A j \in 1..Len(snapshots) : snapshots[j].at \in Nat
      /\ \A i \in 1..Len(ticks) : ticks[i].at \in Nat
    BY LoadedTimes, BacktestAssumption
<1>2. ASSUME NEW i \in 1..Len(ticks), NEW j \in Members(i)
      PROVE  j \in Slice(i)
  <2>1. /\ j \in DOMAIN snapshots
        /\ snapshots[j].at >= ticks[i].at /\ snapshots[j].at - ticks[i].at <= Tolerance
    BY <1>1, <1>2 DEF Members
  <2>2. ASSUME NEW k \in DOMAIN ticks, k > i
        PROVE  snapshots[j].at < ticks[k].at
    <3>1. ticks[k].at - ticks[i].at > Tolerance
      BY <1>1, <2>2 DEF Apart
    <3>2. QED
      BY <1>1, <2>1, <2>2, <3>1
  <2>3. QED
    BY <2>1, <2>2 DEF Slice
<1>3. ASSUME NEW i \in 1..Len(ticks), NEW j \in Slice(i)
      PROVE  j \in Members(i)
  <2>1. /\ j \in 1..Len(snapshots) /\ snapshots[j].at >= ticks[i].at
        /\ \A k \in 1..Len(ticks) : k > i => snapshots[j].at < ticks[k].at
    BY <1>1, <1>3 DEF Slice
  <2>2. PICK k \in 1..Len(ticks) : j \in Members(k)
    BY <2>1 DEF Covered
  <2>3. snapshots[j].at >= ticks[k].at /\ snapshots[j].at - ticks[k].at <= Tolerance
    BY <1>1, <2>1, <2>2 DEF Members
  <2>4. ~(k > i)
    BY <1>1, <2>1, <2>3
  <2>5. ASSUME k < i PROVE FALSE
    <3>1. ticks[i].at - ticks[k].at > Tolerance
      BY <2>5 DEF Apart
    <3>2. QED
      BY <1>1, <2>1, <2>3, <3>1
  <2>6. k = i
    BY <1>1, <2>4, <2>5
  <2>7. QED
    BY <2>2, <2>6
<1>4. QED
    BY <1>2, <1>3

LEMMA Distance ==
    ASSUME NEW a \in Nat, NEW b \in Nat, NEW c \in Nat, NEW t \in Nat,
           a >= c, a - c <= t, b >= c, b - c <= t
    PROVE  a - b \in (-t)..t
OBVIOUS

\* The distances within and between the ticks, from those to their starts.
LEMMA StartsDecide ==
    ASSUME LoadType, FromStart
    PROVE  TicksWithinTolerance
<1>1. Starts /\ Apart /\ Covered /\ \A i \in 1..Len(ticks) : Right(i)
    BY ReferenceParts
<1>2. /\ DOMAIN snapshots = 1..Len(snapshots) /\ DOMAIN ticks = 1..Len(ticks)
      /\ Len(ticks) \in Nat /\ Tolerance \in Nat
      /\ \A j \in 1..Len(snapshots) : snapshots[j].at \in Nat
      /\ \A i \in 1..Len(ticks) : ticks[i].at \in Nat
    BY LoadedTimes, BacktestAssumption
<1>3. \A i \in 1..Len(ticks) : Slice(i) = Members(i)
    BY <1>1, SliceMeasured
<1>4. \A i : Slice(i) \subseteq 1..Len(snapshots)
    BY <1>2 DEF Slice
<1>5. UNION {Slice(i) : i \in DOMAIN ticks} = DOMAIN snapshots
    BY <1>1, <1>2, <1>3, <1>4 DEF Covered
<1>6. \A i \in 1..Len(ticks) : \A j \in Slice(i) :
          snapshots[j].at >= ticks[i].at /\ snapshots[j].at - ticks[i].at <= Tolerance
    BY <1>2, <1>3 DEF Members
<1>7. ASSUME NEW i \in DOMAIN ticks, NEW j \in Slice(i), NEW k \in Slice(i)
      PROVE  Near(j, k)
  <2>1. /\ snapshots[j].at \in Nat /\ snapshots[k].at \in Nat /\ ticks[i].at \in Nat
        /\ snapshots[j].at >= ticks[i].at /\ snapshots[j].at - ticks[i].at <= Tolerance
        /\ snapshots[k].at >= ticks[i].at /\ snapshots[k].at - ticks[i].at <= Tolerance
    BY <1>2, <1>4, <1>6, <1>7
  <2>2. snapshots[j].at - snapshots[k].at \in (-Tolerance)..Tolerance
    BY <1>2, <2>1, Distance
  <2>3. QED
    BY <2>2 DEF Near
<1>8. ASSUME NEW i \in 2..Len(ticks), NEW k \in Slice(i)
      PROVE  \E j \in Slice(i - 1) : ~Near(j, k)
  <2>1. i \in 1..Len(ticks) /\ i - 1 \in 1..Len(ticks) /\ i - 1 < i
    BY <1>2
  <2>2. PICK j \in 1..Len(snapshots) : snapshots[j].at = ticks[i - 1].at
    BY <1>1, <2>1 DEF Starts
  <2>3. j \in Slice(i - 1)
    <3>1. snapshots[j].at - ticks[i - 1].at \in 0..Tolerance
      BY <1>2, <2>1, <2>2
    <3>2. QED
      BY <1>2, <1>3, <2>1, <2>2, <3>1 DEF Members
  <2>4. ticks[i].at - ticks[i - 1].at > Tolerance
    BY <1>1, <2>1 DEF Apart
  <2>5. snapshots[k].at >= ticks[i].at /\ k \in 1..Len(snapshots)
    BY <1>4, <1>6, <2>1
  <2>6. ~Near(j, k)
    BY <1>2, <2>1, <2>2, <2>4, <2>5 DEF Near
  <2>7. QED
    BY <2>3, <2>6
<1>9. ASSUME NEW i \in DOMAIN ticks
      PROVE  /\ DOMAIN ticks[i].data = {snapshots[j].market : j \in Slice(i)}
             /\ \A m \in DOMAIN ticks[i].data :
                   ticks[i].data[m].quote
                       = snapshots[Max({j \in Slice(i) : snapshots[j].market = m})].quote
  <2>1. Right(i) /\ Slice(i) = Members(i)
    BY <1>1, <1>2, <1>3, <1>9
  <2>2. QED
    BY <2>1 DEF Right, Of
<1>10. QED
    BY <1>5, <1>7, <1>8, <1>9 DEF TicksWithinTolerance

\* The ticks of GroupByTimestamp hold snapshots within the tolerance of each other,
\* all of them, and are not split without need, whatever the snapshots, their gaps
\* and the tolerance.
THEOREM TicksKeepTolerance == BacktestSpec => []TicksWithinTolerance
<1> DEFINE I == BacktestType /\ Grouped /\ FromStart
<1>1. BacktestInit => I
  <2>1. ASSUME BacktestInit PROVE I
    <3>1. BacktestType /\ Len(snapshots) = 0 /\ Len(ticks) = 0 /\ 1..0 = {}
      BY <2>1, InitTyped DEF BacktestInit
    <3>2. Starts /\ Apart /\ Covered /\ \A i \in 1..Len(ticks) : Right(i)
      BY <3>1 DEF Starts, Apart, Covered
    <3>3. Grouped
      BY <3>1 DEF Grouped
    <3>4. QED
      BY <3>1, <3>2, <3>3, ReferenceParts DEF BacktestType
  <2>2. QED
    BY <2>1
<1>2. I /\ [BacktestNext]_backtestVars => I'
  <2>1. SUFFICES ASSUME I, [BacktestNext]_backtestVars PROVE I'
    OBVIOUS
  <2>2. BacktestType' /\ LoadType /\ LoadType'
    BY <2>1, StepTyped DEF BacktestType
  <2>3. CASE UNCHANGED <<snapshots, ticks>>
    <3>1. \A i : Members(i)' = Members(i)
      BY <2>3 DEF Members
    <3>2. \A i, m : Of(i, m)' = Of(i, m)
      BY <2>3, <3>1 DEF Of
    <3>3. \A i : Right(i)' <=> Right(i)
      BY <2>3, <3>1, <3>2 DEF Right
    <3>4. Parts
      BY <2>1, <2>2, ReferencePartsNow
    <3>5. Parts'
      BY <2>3, <3>1, <3>3, <3>4 DEF Parts, Starts, Apart, Covered
    <3>6. Grouped'
      BY <2>1, <2>3 DEF Grouped
    <3>7. QED
      BY <2>2, <3>5, <3>6, ReferencePartsNext
  <2>4. ASSUME NEW m \in Markets, NEW q \in Quotes, NEW gap \in Gaps, GroupByTimestamp(m, q, gap)
        PROVE  I'
    <3>1. PICK s : Loaded(s)
      BY <2>2, <2>4, LoadStep
    <3>2. Grouped' /\ FromStart'
      BY <2>1, <2>2, <3>1, SameTickStep, NewTickStep
    <3>3. QED
      BY <2>2, <3>2
  <2>5. ASSUME NEW m \in todo, Propose(m) PROVE UNCHANGED <<snapshots, ticks>>
    BY <2>1, <2>5, ProposeEnds
  <2>6. QED
    BY <2>1, <2>3, <2>4, <2>5 DEF BacktestNext, RunBegins, NextTick, RunEnds, backtestVars
<1>3. I => TicksWithinTolerance
    BY StartsDecide DEF BacktestType
<1>4. QED
    BY <1>1, <1>2, <1>3, PTL DEF BacktestSpec

=============================================================================
