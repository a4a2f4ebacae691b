--------------------------- MODULE Reconciliation ---------------------------
(***************************************************************************)
(* services/recon: the loop in the execution engine's process that         *)
(* compares what the tables say with what the exchange says, and asks the  *)
(* watchdog for a halt on a critical mismatch; and the check at start-up.  *)
(*                                                                         *)
(* It composes with Execution: the risk engine's table risk.positions is   *)
(* what the fill poller has reported.  A cycle reads the table and the     *)
(* exchange in separate steps while submissions, cancellations and polls   *)
(* go on.                                                                  *)
(***************************************************************************)
EXTENDS Execution

VARIABLES cyc,         \* the cycle of Engine.Run
          consistent,  \* what the start-up check of this life found
          raised,      \* a cycle of this life called killSwitch.Trigger
          gap          \* history: a fill was unsettled during this cycle

reconVars == <<cyc, consistent, raised, gap>>
rvars == <<vars, reconVars>>

-----------------------------------------------------------------------------
\* The two sides of the comparison

\* SELECT market_id, SUM(net_quantity) ... HAVING SUM(net_quantity) != 0: a
\* market without a row is a market with a zero sum.
InternalPositions ==
    [k \in Keys |-> SumFunction([t \in {t \in Traces : Key[t] = k} |-> reported[t]])]

\* Both loops: an absent market counts as zero on either side.
comparePositionMaps(internal, exchange) == {k \in Keys : internal[k] # exchange[k]}

\* order_existence or filled_quantity: the mismatches that are critical.
CriticalOrder(row) ==
    \/ row.exch \notin Venue!ExIds
    \/ row.filled # exOrders[row.exch].filled

\* Any mismatch, status included (statusesAlign asks for equal names).
OrderMismatch(row) ==
    CriticalOrder(row) \/ row.status # exOrders[row.exch].status

-----------------------------------------------------------------------------
\* RunOnce

IdleCycle == [pc |-> "idle", internal |-> [k \in Keys |-> 0], rows |-> << >>, critical |-> FALSE]

CycleGoto(pc) == cyc' = [cyc EXCEPT !.pc = pc]

\* ComparePositions, the query.
ReadPositions ==
    /\ up
    /\ cyc.pc = "idle"
    /\ cyc' = [IdleCycle EXCEPT !.pc = "positions", !.internal = InternalPositions]

\* The query fails, and the comparison is skipped.
PositionsError ==
    /\ up
    /\ cyc.pc = "idle"
    /\ cyc' = [IdleCycle EXCEPT !.pc = "orders"]

\* ComparePositions, GetPositions and the comparison.
ComparePositions ==
    /\ cyc.pc = "positions"
    /\ cyc' = [cyc EXCEPT !.pc = "orders",
                          !.critical = comparePositionMaps(cyc.internal, positions) # {}]

\* The map is keyed by exchange id: of two rows with one id the last stays.
OrderMaps ==
    {m \in [{orders[t].exch : t \in LoadedOrders} -> LoadedOrders] :
        \A e \in DOMAIN m : orders[m[e]].exch = e}

\* CompareOrders, the query; Scan fails on a NULL exchange id.
ReadOrders ==
    /\ cyc.pc = "orders"
    /\ ScanSucceeds
    /\ \E m \in OrderMaps :
          cyc' = [cyc EXCEPT !.pc = "compare", !.rows = [e \in DOMAIN m |-> orders[m[e]]]]

\* The query or a Scan fails, and the comparison is skipped.
OrdersError ==
    /\ cyc.pc = "orders"
    /\ CycleGoto("verdict")

\* CompareOrders, GetOrder and the comparison of one order, in map order.
CompareOrder(e) ==
    /\ cyc.pc = "compare"
    /\ e \in DOMAIN cyc.rows
    /\ cyc' = [cyc EXCEPT !.rows = [d \in DOMAIN cyc.rows \ {e} |-> cyc.rows[d]],
                          !.critical = cyc.critical \/ CriticalOrder(cyc.rows[e])]

CompareOrders ==
    \/ \E e \in 1..MaxOrders : CompareOrder(e)
    \/ cyc.pc = "compare" /\ DOMAIN cyc.rows = {} /\ CycleGoto("verdict")


\* The snapshots are written (nothing reads them), and a critical mismatch is
\* logged and sent to the watchdog as TriggerKillSwitch, whose answer is only
\* logged: CallerCheck refuses it, execution-engine is not on the method's list.
Verdict ==
    /\ cyc.pc = "verdict"
    /\ cyc' = IdleCycle
    /\ raised' = (raised \/ cyc.critical)

\* A trace is placed once, so a row of another life has another trace.
Booked(f) ==
    \E i \in DOMAIN fillRows :
        fillRows[i].fill = f /\ fillRows[i].trace = exOrders[exFills[f].order].req

\* A fill is settled when it is booked and the poller is done with it.
Unsettled ==
    \/ \E f \in DOMAIN exFills : ~Booked(f)
    \/ poll.pc \in {"apply", "unregister", "intent", "report"}

Reading ==
    /\ ReadPositions \/ PositionsError \/ ComparePositions
          \/ ReadOrders \/ OrdersError \/ CompareOrders
    /\ UNCHANGED raised

RunOnce ==
    /\ Reading \/ Verdict
    /\ gap' = (cyc'.pc # "idle" /\ (gap \/ Unsettled))
    /\ UNCHANGED <<vars, consistent>>

-----------------------------------------------------------------------------
\* Start-up, crash, and the rest of the process

\* RunStartupCheck compares before anything else runs; its verdict only decides
\* between two log lines (main calls SetReconciled(true) on both), an error ends
\* the start.
Start ==
    /\ RecoverFull
    /\ consistent' = (/\ comparePositionMaps(InternalPositions, positions) = {}
                      /\ \A t \in LoadedOrders : ~OrderMismatch(orders[t]))
    /\ UNCHANGED <<cyc, raised, gap>>

ProcessCrash ==
    /\ Crash
    /\ cyc' = IdleCycle
    /\ raised' = FALSE
    /\ gap' = FALSE
    /\ UNCHANGED consistent

EngineStep ==
    \/ \E c \in Clients : SubmitOrder(c)
    \/ \E a \in Shared : transitionOrder(a)
    \/ CancelOrder
    \/ CancelAll
    \/ Poll
    \/ \E m \in Modes : SetSystemMode(m)
    \/ ExchangeStep

\* The loop rests while the engine makes a step.
CycleWaits ==
    /\ gap' = (gap \/ (cyc.pc # "idle" /\ Unsettled'))
    /\ UNCHANGED <<cyc, consistent, raised>>

Trading == EngineStep /\ CycleWaits

ReconInit ==
    /\ Init
    /\ cyc = IdleCycle
    /\ consistent = TRUE
    /\ raised = FALSE
    /\ gap = FALSE

ReconNext == Trading \/ RunOnce \/ ProcessCrash \/ Start

ReconSpec == ReconInit /\ [][ReconNext]_rvars

\* The fill poller, and CancelAll while it holds the lock, with their transitions.
PollerStep == Poll \/ transitionOrder("poll")
LockedStep == mu = "cancelall" /\ (CancelAll \/ transitionOrder("cancelall"))

\* The ticker of the loop runs, its calls return, and the query for the positions
\* does not fail for ever.  Of the engine only this is assumed: the poller goes on,
\* a CancelAll that holds the lock goes on, and the lock is not taken from the
\* poller for ever (an RWMutex lets a waiting reader in before the next writer, and
\* a writer that has waited too long before others).
ReconFairSpec ==
    /\ ReconSpec
    /\ WF_rvars(RunOnce)
    /\ SF_rvars(RunOnce /\ ReadPositions)
    /\ WF_rvars(Start)
    /\ SF_rvars(PollerStep /\ CycleWaits)
    /\ WF_rvars(LockedStep /\ CycleWaits)

-----------------------------------------------------------------------------
\* Properties

\* A critical mismatch is never an artefact of the tables' bookkeeping: in a life
\* that started consistent, a cycle only finds one when the exchange held a fill
\* during that cycle that the poller had not settled.  (Such a fill may be one of
\* normal operation, on its way.)
AlarmMeansUnsettledFill == cyc.critical /\ consistent => gap

\* The poller has been past the fill and has not booked it.
FillLost == poll.pc = "idle" /\ \E f \in 1..lastPoll : ~Booked(f)

=============================================================================
