----------------------------- MODULE RiskEngine -----------------------------
(***************************************************************************)
(* services/risk: the engine that approves or denies every proposed order  *)
(* and keeps positions from the fills the execution engine reports.        *)
(*                                                                         *)
(* EvaluateOrder takes the lock only to read the pointer to the state: the *)
(* checks read the state itself unlocked, in three groups here, while      *)
(* fills, market data and halts go on; the decision time, the rate         *)
(* tracking and the return follow.  ReportFill holds the lock over its SQL.*)
(* Each strategy engine waits for the answer to one proposal before it     *)
(* makes the next (processSignals), so a strategy has one call at a time.  *)
(*                                                                         *)
(* All orders go to one venue.  Times are ticks of clock.                  *)
(***************************************************************************)
EXTENDS Integers, FiniteSets, FiniteSetsExt, SequencesExt

CONSTANTS Strategies, Markets,
          Signals,        \* what strategies propose
          Strategy,       \* signal -> strategy
          Market,         \* signal -> market
          Side,           \* signal -> "buy" or "sell"
          Quantity,       \* signal -> contracts
          Price,          \* signal -> price
          Allowed,        \* markets the policy allows
          Policy,         \* the limits of the policy file
          Minute,         \* ticks in the minute of checkStrategyOrderFrequency
          DupWindow,      \* ticks in the 30s of checkDuplicateOrder
          HaltModes,      \* the modes kill.activated events carry
          RiskDbFaults,   \* whether a SQL statement may fail
          MaxDelay,       \* bound: age of a market data event when it is delivered
          MaxApprovals,   \* bound: approvals
          MaxReports,     \* bound: reported fills
          MaxTime,        \* bound: the clock
          MaxCrashes      \* bound: crashes of the risk engine

ASSUME RiskAssumption ==
    /\ Strategy \in [Signals -> Strategies]
    /\ Market \in [Signals -> Markets]
    /\ Side \in [Signals -> {"buy", "sell"}]
    /\ Quantity \in [Signals -> Nat]
    /\ Price \in [Signals -> Nat]
    /\ Allowed \subseteq Markets
    /\ Policy \in [maxQuantity : Nat, maxNotional : Nat, minPrice : Nat, maxPrice : Nat,
                   maxPosition : Nat, maxConcentrationPct : Nat, maxExposure : Nat,
                   maxPerMinute : Nat, maxDailyLoss : Nat, maxLosses : Nat,
                   maxDrawdownPct : Nat, maxDataAge : Nat]
    /\ Minute \in Nat /\ DupWindow \in Nat
    /\ HaltModes \subseteq {"soft_pause", "cancel_only", "full_stop"}
    /\ RiskDbFaults \in BOOLEAN
    /\ MaxDelay \in Nat /\ MaxApprovals \in Nat /\ MaxReports \in Nat
    /\ MaxTime \in Nat /\ MaxCrashes \in Nat

VARIABLES clock,
          systemMode, halted,            \* State.SystemMode; strategies with Halted set
          book,                          \* State.Markets: key -> [contracts, notional]
          totalExposure,                 \* State.TotalExposure
          orderTimes, orderKeys, orderNotionals,  \* the rate tracking of State
          marketData,                    \* market -> [at, wide]
          lock, eval, report,            \* Engine.mu and the calls
          up, crashes,
          positions,                     \* risk.positions: key -> [contracts, notional]
          approvals,                     \* history: [signal, at, left, life], oldest first
          acked, cut                     \* history: fills saved and acknowledged; the others

memory == <<systemMode, halted, book, totalExposure, orderTimes, orderKeys, orderNotionals>>
process == <<lock, eval, report, up, crashes>>
history == <<approvals, acked, cut>>
riskVars == <<clock, memory, marketData, process, positions, history>>

PositionKeys == {<<Market[o], Strategy[o]>> : o \in Signals}
PositionKey(o) == <<Market[o], Strategy[o]>>
IdempotencyKey(o) == <<Strategy[o], Market[o], Side[o], Price[o]>>
Notional(o) == Quantity[o] * Price[o]

Flat == [contracts |-> 0, notional |-> 0]
NoData == [at |-> -1, wide |-> FALSE]

-----------------------------------------------------------------------------
\* The checks (services/risk/checks.go)

checkSystemMode(o) == systemMode = "normal"
checkStrategyNotHalted(o) == Strategy[o] \notin halted
checkMarketAllowed(o) == Market[o] \in Allowed

checkDataFreshness(o) ==
    LET md == marketData[Market[o]]
    IN md # NoData /\ clock - md.at <= Policy.maxDataAge
checkSpread(o) == marketData[Market[o]] = NoData \/ ~marketData[Market[o]].wide

checkPriceSanity(o) == Price[o] \in Policy.minPrice..Policy.maxPrice
checkPerTradeSize(o) == Quantity[o] <= Policy.maxQuantity
checkPerTradeNotional(o) == Notional(o) <= Policy.maxNotional

\* A sale is added to the position like a purchase.
NewNotional(o) == book[PositionKey(o)].notional + Notional(o)
checkPositionLimit(o) == NewNotional(o) <= Policy.maxPosition
checkConcentration(o) ==
    totalExposure = 0
        \/ NewNotional(o) * 100 <= Policy.maxConcentrationPct * (totalExposure + Notional(o))
\* No code of the services writes State.Venues: its exposure reads as zero.
checkVenueExposure(o) == Notional(o) <= Policy.maxExposure
checkGlobalExposure(o) == totalExposure + Notional(o) <= Policy.maxExposure

\* The fields of State that only services/backtest ever writes; daily_stats,
\* which LoadState reads, gets no P&L either.
UnfedStats == [dailyPnL |-> 0, losses |-> 0, peak |-> 0, equity |-> 0]
checkDailyLoss(st) == st.dailyPnL >= -Policy.maxDailyLoss
checkStrategyConsecutiveLosses(st) == st.losses < Policy.maxLosses
checkGlobalDrawdown(st) ==
    st.peak = 0 \/ (st.peak - st.equity) * 100 < Policy.maxDrawdownPct * st.peak

\* Mutant: the limit itself is let through.
AtMostLimit(o) ==
    Cardinality({i \in DOMAIN orderTimes[Strategy[o]] :
                    orderTimes[Strategy[o]][i] > clock - Minute}) <= Policy.maxPerMinute

checkStrategyOrderFrequency(o) ==
    Cardinality({i \in DOMAIN orderTimes[Strategy[o]] :
                    orderTimes[Strategy[o]][i] > clock - Minute}) < Policy.maxPerMinute

\* Mutant: the window is one tick short.
DuplicateAtWindow(o) ==
    \A k \in orderKeys : k.key = IdempotencyKey(o) => clock - k.at >= DupWindow - 1

checkDuplicateOrder(o) ==
    \A k \in orderKeys : k.key = IdempotencyKey(o) => clock - k.at >= DupWindow

checkFatFinger(o) ==
    LET all    == orderNotionals[Strategy[o]]
        recent == SubSeq(all, Max({1, Len(all) - 9}), Len(all))
        avg    == FoldLeft(LAMBDA n, m : n + m, 0, recent) \div Len(recent)
    IN Len(all) >= 3 => (avg > 0 => Notional(o) <= avg * 5)

GateChecks(o) ==
    /\ checkSystemMode(o)
    /\ checkStrategyNotHalted(o)
    /\ checkMarketAllowed(o)
    /\ checkDataFreshness(o)
    /\ checkPriceSanity(o)
    /\ checkSpread(o)
    /\ checkPerTradeSize(o)
    /\ checkPerTradeNotional(o)
ExposureChecks(o) ==
    /\ checkPositionLimit(o)
    /\ checkConcentration(o)
    /\ checkVenueExposure(o)
    /\ checkGlobalExposure(o)
    /\ checkDailyLoss(UnfedStats)
    /\ checkStrategyConsecutiveLosses(UnfedStats)
    /\ checkGlobalDrawdown(UnfedStats)
RateChecks(o) ==
    /\ checkStrategyOrderFrequency(o)
    /\ checkDuplicateOrder(o)
    /\ checkFatFinger(o)

-----------------------------------------------------------------------------
\* EvaluateOrder

IdleEval == [pc |-> "idle", signal |-> "none", passed |-> FALSE, at |-> 0]
EvalGoto(s, pc, passed, at) ==
    eval' = [eval EXCEPT ![s] = [pc |-> pc, signal |-> eval[s].signal, passed |-> passed, at |-> at]]

\* ProposedOrder.Validate; the notional is the product by construction.
Validate(o) == Quantity[o] > 0 /\ Price[o] > 0

EvalBegin(o) ==
    /\ up
    /\ eval[Strategy[o]].pc = "idle"
    /\ Validate(o)
    /\ lock = "free"
    /\ eval' = [eval EXCEPT ![Strategy[o]] =
                   [pc |-> "gates", signal |-> o, passed |-> TRUE, at |-> 0]]
    /\ UNCHANGED <<clock, memory, marketData, lock, report, up, crashes, positions, history>>

\* RunAllChecks, without the lock.  Only the strategy's own calls write what the
\* rate checks read, so they may be read last.
EvalCheck(s, pc, result, next) ==
    /\ eval[s].pc = pc
    /\ EvalGoto(s, next, eval[s].passed /\ result, 0)
    /\ UNCHANGED <<clock, memory, marketData, lock, report, up, crashes, positions, history>>
EvalGates(s) == EvalCheck(s, "gates", GateChecks(eval[s].signal), "exposure")
EvalExposure(s) == EvalCheck(s, "exposure", ExposureChecks(eval[s].signal), "rates")
EvalRates(s) == EvalCheck(s, "rates", RateChecks(eval[s].signal), "decide")

\* now := time.Now(); the decision is signed, saved (an error is logged) and
\* published; a denial returns.
EvalDecide(s) ==
    /\ eval[s].pc = "decide"
    /\ \/ eval[s].passed /\ EvalGoto(s, "record", TRUE, clock)
       \/ ~eval[s].passed /\ eval' = [eval EXCEPT ![s] = IdleEval]
    /\ UNCHANGED <<clock, memory, marketData, lock, report, up, crashes, positions, history>>

KeysWith(key, at) == {k \in orderKeys : k.key # key} \cup {[key |-> key, at |-> at]}

\* The rate tracking of an approval, under the lock, and the return.
EvalRecord(s) ==
    LET o  == eval[s].signal
        at == eval[s].at
    IN /\ eval[s].pc = "record"
       /\ lock = "free"
       /\ Len(approvals) < MaxApprovals
       /\ orderTimes' = [orderTimes EXCEPT ![s] = Append(@, at)]
       /\ orderKeys' = KeysWith(IdempotencyKey(o), at)
       /\ orderNotionals' = [orderNotionals EXCEPT ![s] = Append(@, Notional(o))]
       /\ approvals' = Append(approvals, [signal |-> o, at |-> at, left |-> Quantity[o],
                                          life |-> crashes])
       /\ eval' = [eval EXCEPT ![s] = IdleEval]
       /\ UNCHANGED <<clock, systemMode, halted, book, totalExposure, marketData, lock, report,
                      up, crashes, positions, acked, cut>>

-----------------------------------------------------------------------------
\* ReportFill: memory, then the tables, then the answer, all under the lock

IdleReport == [pc |-> "idle", signal |-> "none", qty |-> 0, saved |-> FALSE]

\* The fill being reported: acknowledged with its position saved, or not.
TheFill == [signal |-> report.signal, qty |-> report.qty]
Acknowledged ==
    IF report.saved THEN acked' = Append(acked, TheFill) /\ UNCHANGED cut
    ELSE cut' = Append(cut, TheFill) /\ UNCHANGED acked

\* The position after a fill of q contracts of o.
Filled(p, o, q) ==
    LET sign == IF Side[o] = "buy" THEN 1 ELSE -1
    IN [contracts |-> p.contracts + sign * q, notional |-> p.notional + sign * q * Price[o]]

\* A fill of an approved order, in one report or several.
ReportLock(i, q) ==
    LET o == approvals[i].signal
    IN /\ up
       /\ lock = "free"
       /\ q <= approvals[i].left
       /\ Len(acked) + Len(cut) < MaxReports
       /\ lock' = "fill"
       /\ book' = [book EXCEPT ![PositionKey(o)] = Filled(@, o, q)]
       /\ report' = [pc |-> "save", signal |-> o, qty |-> q, saved |-> FALSE]
       /\ approvals' = [approvals EXCEPT ![i].left = @ - q]
       /\ UNCHANGED <<clock, systemMode, halted, totalExposure, orderTimes, orderKeys,
                      orderNotionals, marketData, eval, up, crashes, positions, acked, cut>>

\* The upserts of daily_stats (whose counts nothing reads back) and positions,
\* which gets the whole position; errors are logged.
ReportSave ==
    LET k == PositionKey(report.signal)
    IN /\ report.pc = "save"
       /\ \/ /\ positions' = [positions EXCEPT ![k] = book[k]]
             /\ report' = [report EXCEPT !.pc = "return", !.saved = TRUE]
          \/ /\ RiskDbFaults
             /\ UNCHANGED positions
             /\ report' = [report EXCEPT !.pc = "return"]
       /\ UNCHANGED <<clock, memory, marketData, lock, eval, up, crashes, history>>

ReportReturn ==
    /\ report.pc = "return"
    /\ report' = IdleReport
    /\ lock' = "free"
    /\ Acknowledged
    /\ UNCHANGED <<clock, memory, marketData, eval, up, crashes, positions, approvals>>

-----------------------------------------------------------------------------
\* Events, time, crash and restart

SetSystemMode(m) ==
    /\ up
    /\ lock = "free"
    /\ systemMode' = m
    /\ UNCHANGED <<clock, halted, book, totalExposure, orderTimes, orderKeys, orderNotionals,
                   marketData, process, positions, history>>

\* An event may be delivered late, or again after a newer one.
UpdateMarketData(m, at, wide) ==
    /\ up
    /\ lock = "free"
    /\ marketData' = [marketData EXCEPT ![m] = [at |-> at, wide |-> wide]]
    /\ UNCHANGED <<clock, memory, process, positions, history>>

Tick ==
    /\ clock < MaxTime
    /\ clock' = clock + 1
    /\ UNCHANGED <<memory, marketData, process, positions, history>>

NewEmptyState ==
    /\ systemMode' = "normal"
    /\ halted' = {}
    /\ book' = [k \in PositionKeys |-> Flat]
    /\ totalExposure' = 0
    /\ orderTimes' = [s \in Strategies |-> << >>]
    /\ orderKeys' = {}
    /\ orderNotionals' = [s \in Strategies |-> << >>]
    /\ marketData' = [m \in Markets |-> NoData]

RiskCrash ==
    /\ up
    /\ crashes < MaxCrashes
    /\ crashes' = crashes + 1
    /\ up' = FALSE
    /\ NewEmptyState
    /\ lock' = "free"
    /\ eval' = [s \in Strategies |-> IdleEval]
    /\ report' = IdleReport
    /\ cut' = IF report.pc = "idle" THEN cut ELSE Append(cut, TheFill)
    /\ UNCHANGED <<clock, positions, approvals, acked>>

\* Mutant: only long positions are loaded.
LoadLong == {k \in PositionKeys : positions[k].contracts > 0}

\* WHERE net_quantity != 0
LoadedPositions == {k \in PositionKeys : positions[k].contracts # 0}

\* LoadState: the positions, their exposure, and the halts the table holds.
LoadState ==
    /\ ~up
    /\ up' = TRUE
    /\ book' = [k \in PositionKeys |-> IF k \in LoadedPositions THEN positions[k] ELSE Flat]
    /\ totalExposure' = MapThenSumSet(LAMBDA k : IF positions[k].notional < 0
                                                 THEN -positions[k].notional
                                                 ELSE positions[k].notional, LoadedPositions)
    /\ systemMode' \in {"normal"} \cup HaltModes
    /\ halted' \in IF systemMode' = "normal" THEN {{}} ELSE SUBSET Strategies
    /\ UNCHANGED <<clock, orderTimes, orderKeys, orderNotionals, marketData, lock, eval, report,
                   crashes, positions, history>>

-----------------------------------------------------------------------------
RiskInit ==
    /\ clock = 0
    /\ systemMode = "normal"
    /\ halted = {}
    /\ book = [k \in PositionKeys |-> Flat]
    /\ totalExposure = 0
    /\ orderTimes = [s \in Strategies |-> << >>]
    /\ orderKeys = {}
    /\ orderNotionals = [s \in Strategies |-> << >>]
    /\ marketData = [m \in Markets |-> NoData]
    /\ lock = "free"
    /\ eval = [s \in Strategies |-> IdleEval]
    /\ report = IdleReport
    /\ up = TRUE
    /\ crashes = 0
    /\ positions = [k \in PositionKeys |-> Flat]
    /\ approvals = << >>
    /\ acked = << >>
    /\ cut = << >>

EvaluateOrder(s) ==
    EvalGates(s) \/ EvalExposure(s) \/ EvalRates(s) \/ EvalDecide(s) \/ EvalRecord(s)

ReportFill ==
    \/ \E i \in DOMAIN approvals : \E q \in 1..approvals[i].left : ReportLock(i, q)
    \/ ReportSave
    \/ ReportReturn

RiskNext ==
    \/ \E o \in Signals : EvalBegin(o)
    \/ \E s \in Strategies : EvaluateOrder(s)
    \/ ReportFill
    \/ \E m \in HaltModes : SetSystemMode(m)
    \/ \E m \in Markets : \E at \in Max({0, clock - MaxDelay})..clock : \E wide \in BOOLEAN :
          UpdateMarketData(m, at, wide)
    \/ Tick
    \/ RiskCrash
    \/ LoadState

RiskSpec == RiskInit /\ [][RiskNext]_riskVars

-----------------------------------------------------------------------------
\* Properties

SameStrategy(i, j) == Strategy[approvals[i].signal] = Strategy[approvals[j].signal]
WithinMinute(i) == {j \in DOMAIN approvals : /\ SameStrategy(i, j)
                                             /\ approvals[j].at <= approvals[i].at
                                             /\ approvals[j].at > approvals[i].at - Minute}

\* While the engine runs, no minute holds more approvals of a strategy than the
\* policy allows, although time passes between the check, the decision and the
\* entry in the rate tracking.
OrdersPerMinute ==
    \A i \in DOMAIN approvals :
        Cardinality({j \in WithinMinute(i) : approvals[j].life = approvals[i].life})
            <= Policy.maxPerMinute

\* While the engine runs, two approvals of the same order are a window apart.
DuplicatesApart ==
    \A i, j \in DOMAIN approvals :
        /\ i < j
        /\ approvals[i].life = approvals[j].life
        /\ IdempotencyKey(approvals[i].signal) = IdempotencyKey(approvals[j].signal)
        => approvals[j].at - approvals[i].at >= DupWindow

\* The contracts that a part of a sequence of fills brings to a position.
Bought(f) == IF Side[f.signal] = "buy" THEN f.qty ELSE -f.qty
FillsOf(fills, part, k) == {i \in part : PositionKey(fills[i].signal) = k}
Contracts(fills, part, k) == SumFunction([i \in FillsOf(fills, part, k) |-> Bought(fills[i])])

\* A fill that was saved and acknowledged stays booked, through restarts: the
\* position holds every such fill, and of the fills whose report a crash cut short
\* or whose statement failed each is in it or not, and none is in it twice.
AckedFillsCounted ==
    up /\ report.pc = "idle" =>
        \E kept \in SUBSET DOMAIN cut :
            \A k \in PositionKeys :
                book[k].contracts = Contracts(acked, DOMAIN acked, k) + Contracts(cut, kept, k)
=============================================================================
