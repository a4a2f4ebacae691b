------------------------------ MODULE Execution ------------------------------
(***************************************************************************)
(* services/execution: the engine that takes approved orders, records them *)
(* in the intent ledger and in execution.orders, places them at the venue, *)
(* polls the fills and cancels.                                            *)
(*                                                                         *)
(* Goroutines and their steps: every SQL statement, venue call, critical   *)
(* section of Engine.mu and unguarded read or write of a shared            *)
(* OrderRecord is one step.                                                *)
(*   sub[c]   a SubmitOrder call of the gRPC server                        *)
(*   canc     a CancelOrder call                                           *)
(*   ca       a CancelAll call (the kill switch)                           *)
(*   poll     the fill poller of cmd/execution-engine                      *)
(*   tr[a]    the transitionOrder call of canc, ca or poll                 *)
(* A crash loses the memory of the process and the in-process exchange of  *)
(* paper trading with it; the tables survive.                              *)
(*                                                                         *)
(* The idempotency key makes trace ids unique in execution.orders, so an   *)
(* order is named by its trace and not by its internal_order_id.           *)
(***************************************************************************)
EXTENDS IntentLedger

CONSTANTS Approved,      \* traces whose approval is signed and positive
          Cancels,       \* which cancel calls happen: subset of Cancellers
          Modes,         \* the system modes heartbeats answer
          RemoteFaults,  \* whether venue and risk engine calls may fail
          MaxCrashes,    \* bound: crashes of the engine
          MaxOrders      \* bound: orders per life of the exchange

Cancellers == {"cancel", "cancelall"}
Shared == Cancellers \cup {"poll"}

ASSUME ExecutionAssumption ==
    /\ Approved \subseteq Traces
    /\ Cancels \subseteq Cancellers
    /\ Modes \subseteq {"normal", "soft_pause", "cancel_only", "full_stop"}
    /\ RemoteFaults \in BOOLEAN
    /\ MaxCrashes \in Nat
    /\ MaxOrders \in Nat

VARIABLES orders,      \* execution.orders: trace -> [status, filled, exch]
          fillRows,    \* execution.fills: sequence of [trace, fill]
          reported,    \* trace -> contracts reported to the risk engine
          placed,      \* history: trace -> venue orders accepted for it
          rec,         \* the OrderRecord objects in memory
          openOrders, intentMap, mode, mu,   \* the fields of Engine
          sub, canc, ca, poll, lastPoll, tr, \* the goroutines
          up, crashes,                       \* the process
          exOrders, exFills, positions, balance, filler  \* the exchange

\* The exchange behind PaperAdapter.
Venue == INSTANCE MockExchange
            WITH Requests <- Traces, Markets <- Keys, ReqMarket <- Key,
                 ReqSide <- [t \in Traces |-> "buy"], ReqQty <- Quantity,
                 ReqPrice <- [t \in Traces |-> Notional[t] \div Quantity[t]],
                 InitialBalance <- 0, Rejects <- RemoteFaults

venueVars == <<exOrders, exFills, positions, balance, filler>>
dbVars == <<orders, fillRows, reported, placed>>
memVars == <<rec, openOrders, intentMap>>
procVars == <<sub, canc, ca, poll, lastPoll, tr>>
sysVars == <<mode, mu, up, crashes>>
vars == <<ledgerVars, dbVars, memVars, procVars, sysVars, venueVars>>

-----------------------------------------------------------------------------
\* Order statuses (internal/models/order.go)

OrderTerminal == {"filled", "cancelled", "rejected", "expired", "failed"}
OrderLive == {"pending", "open", "partially_filled"}

validTransitions ==
    ({"pending"} \X {"open", "rejected", "failed", "filled"})
        \cup ({"open"} \X {"partially_filled", "filled", "cancelled", "expired"})
        \cup ({"partially_filled"} \X {"partially_filled", "filled", "cancelled"})

NullId == 0   \* exchange_order_id IS NULL
NoRecord == [status |-> "none", filled |-> 0, exch |-> NullId]

PersistedRows == {t \in Traces : orders[t].status # "none"}

\* One UPDATE of execution.orders or order_intents; an error is only logged.
WriteRow(t, row) ==
    \/ orders' = [orders EXCEPT ![t] = row]
    \/ DbFaults /\ UNCHANGED orders
WriteIntent(t, s) ==
    \/ intents' = UpdatedIntents(t, s)
    \/ DbFaults /\ UNCHANGED intents

-----------------------------------------------------------------------------
\* transitionOrder on a record other goroutines can reach: the test of the
\* current status, the assignment (which also fixes the arguments of the
\* UPDATE) and the UPDATE are three steps; nothing guards the record.

IdleTr == [pc |-> "idle", trace |-> NoTrace, to |-> "none", row |-> NoRecord]

Transition(a, t, s) ==
    tr' = [tr EXCEPT ![a] = [pc |-> "check", trace |-> t, to |-> s, row |-> NoRecord]]

TransGoto(a, pc, row) ==
    tr' = [tr EXCEPT ![a] = [pc |-> pc, trace |-> tr[a].trace, to |-> tr[a].to, row |-> row]]

ValidateTransition(from, to) == <<from, to>> \in validTransitions

TransCheck(a) ==
    /\ tr[a].pc = "check"
    /\ TransGoto(a, IF ValidateTransition(rec[tr[a].trace].status, tr[a].to)
                    THEN "set" ELSE "done", NoRecord)
    /\ UNCHANGED <<ledgerVars, dbVars, memVars, sub, canc, ca, poll, lastPoll, sysVars,
                   venueVars>>

\* Mutant: transitionOrder forgets the UPDATE.
SetWithoutWrite(a) ==
    /\ tr[a].pc = "set"
    /\ rec' = [rec EXCEPT ![tr[a].trace].status = tr[a].to]
    /\ TransGoto(a, "done", NoRecord)
    /\ UNCHANGED <<ledgerVars, dbVars, openOrders, intentMap, sub, canc, ca, poll,
                   lastPoll, sysVars, venueVars>>

TransSet(a) ==
    LET r   == rec[tr[a].trace]
        row == [status |-> tr[a].to, filled |-> r.filled, exch |-> r.exch]
    IN /\ tr[a].pc = "set"
       /\ rec' = [rec EXCEPT ![tr[a].trace] = row]
       /\ TransGoto(a, "write", row)
       /\ UNCHANGED <<ledgerVars, dbVars, openOrders, intentMap, sub, canc, ca, poll,
                      lastPoll, sysVars, venueVars>>

TransWrite(a) ==
    /\ tr[a].pc = "write"
    /\ WriteRow(tr[a].trace, tr[a].row)
    /\ TransGoto(a, "done", NoRecord)
    /\ UNCHANGED <<ledgerVars, fillRows, reported, placed, memVars, sub, canc, ca, poll,
                   lastPoll, sysVars, venueVars>>

\* The caller goes on.
Transitioned(a) == tr[a].pc = "done" /\ tr' = [tr EXCEPT ![a] = IdleTr]

-----------------------------------------------------------------------------
\* SubmitOrder

IdleSub == [pc |-> "idle", trace |-> NoTrace, exch |-> NullId, ack |-> "none"]

SubAcked(c, pc, ack, id) ==
    sub' = [sub EXCEPT ![c] = [pc |-> pc, trace |-> sub[c].trace, exch |-> id, ack |-> ack]]
SubGoto(c, pc) == SubAcked(c, pc, sub[c].ack, sub[c].exch)
SubReturn(c) == sub' = [sub EXCEPT ![c] = IdleSub]

\* The approval, the mode and the reconciliation gate, then ledger.Append.
\* (The gate is always open by then: main sets reconciled on both outcomes of
\* the startup check before it serves gRPC.)
SubmitGate(c, t) ==
    /\ up
    /\ sub[c].pc = "idle"
    /\ t \in Approved
    /\ mu = "free"
    /\ mode = "normal"
    /\ AppendBegin(c, t)
    /\ sub' = [sub EXCEPT ![c] = [pc |-> "append", trace |-> t, exch |-> NullId, ack |-> "none"]]
    /\ UNCHANGED <<dbVars, memVars, canc, ca, poll, lastPoll, tr, sysVars, venueVars>>

\* A statement of ledger.Append.
SubmitAppend(c) ==
    /\ AppendLookup(c) \/ AppendCompute(c) \/ AppendDraw(c) \/ AppendInsert(c) \/ AppendDbError(c)
    /\ UNCHANGED <<dbVars, memVars, procVars, sysVars, venueVars>>

SubmitAppended(c) ==
    /\ sub[c].pc = "append"
    /\ \/ app[c].pc = "ok" /\ SubGoto(c, "persist")
       \/ app[c].pc = "err" /\ SubReturn(c)
    /\ AppendReturn(c)
    /\ UNCHANGED <<dbVars, memVars, canc, ca, poll, lastPoll, tr, sysVars, venueVars>>

NewRecord == [status |-> "pending", filled |-> 0, exch |-> NullId]

\* Mutant: idempotency_key is not unique.
RowFree(t) == TRUE

KeyUnused(t) == t \notin PersistedRows

\* Mutant: the error of the INSERT is logged and SubmitOrder goes on.
PersistErrorIgnored(c) ==
    LET t == sub[c].trace
    IN /\ sub[c].pc = "persist"
       /\ \/ KeyUnused(t) /\ orders' = [orders EXCEPT ![t] = NewRecord]
          \/ (~KeyUnused(t) \/ DbFaults) /\ UNCHANGED orders
       /\ rec' = [rec EXCEPT ![t] = NewRecord]
       /\ SubGoto(c, "venue")
       /\ UNCHANGED <<ledgerVars, fillRows, reported, placed, openOrders, intentMap, canc, ca,
                      poll, lastPoll, tr, sysVars, venueVars>>

\* INSERT INTO execution.orders; idempotency_key is unique.  A failed INSERT
\* may have taken effect; either way SubmitOrder returns and the intent stays
\* as it is.
SubmitPersist(c) ==
    LET t == sub[c].trace
        inserted == orders' = [orders EXCEPT ![t] = NewRecord]
    IN /\ sub[c].pc = "persist"
       /\ \/ /\ KeyUnused(t)
             /\ inserted
             /\ rec' = [rec EXCEPT ![t] = NewRecord]
             /\ SubGoto(c, "venue")
          \/ /\ ~KeyUnused(t)
             /\ SubReturn(c)
             /\ UNCHANGED <<orders, rec>>
          \/ /\ DbFaults
             /\ (KeyUnused(t) /\ inserted) \/ UNCHANGED orders
             /\ SubReturn(c)
             /\ UNCHANGED rec
       /\ UNCHANGED <<ledgerVars, fillRows, reported, placed, openOrders, intentMap, canc, ca,
                      poll, lastPoll, tr, sysVars, venueVars>>

\* venue.SubmitOrder: accepted, rejected, or an error without effect.
SubmitVenue(c) ==
    LET t == sub[c].trace
    IN /\ sub[c].pc = "venue"
       /\ \/ /\ Venue!ExSubmit(t, "open")
             /\ SubAcked(c, "transition", "open", Len(exOrders) + 1)
             /\ placed' = [placed EXCEPT ![t] = @ + 1]
          \/ /\ Venue!ExSubmit(t, "rejected")
             /\ SubAcked(c, "transition", "rejected", Len(exOrders) + 1)
             /\ UNCHANGED placed
          \/ /\ RemoteFaults
             /\ SubAcked(c, "transition", "failed", NullId)
             /\ UNCHANGED <<placed, venueVars>>
       /\ UNCHANGED <<ledgerVars, orders, fillRows, reported, memVars, canc, ca, poll, lastPoll,
                      tr, sysVars>>

\* transitionOrder on the record nobody else has yet: always legal.
SubmitTransition(c) ==
    LET t == sub[c].trace
        row == [status |-> sub[c].ack, filled |-> 0, exch |-> sub[c].exch]
    IN /\ sub[c].pc = "transition"
       /\ rec' = [rec EXCEPT ![t] = row]
       /\ WriteRow(t, row)
       /\ SubGoto(c, "intent")
       /\ UNCHANGED <<ledgerVars, fillRows, reported, placed, openOrders, intentMap, canc, ca,
                      poll, lastPoll, tr, sysVars, venueVars>>

\* ledger.UpdateStatus; a rejected or failed order is then done.
SubmitIntent(c) ==
    /\ sub[c].pc = "intent"
    /\ \/ /\ sub[c].ack = "open"
          /\ WriteIntent(sub[c].trace, "open")
          /\ SubGoto(c, "register")
       \/ /\ sub[c].ack # "open"
          /\ WriteIntent(sub[c].trace, "rejected")
          /\ SubReturn(c)
    /\ UNCHANGED <<nextVersion, app, dbVars, memVars, canc, ca, poll, lastPoll, tr, sysVars,
                   venueVars>>

\* The order enters openOrders and intentMap, and SubmitOrder returns.
SubmitRegister(c) ==
    /\ sub[c].pc = "register"
    /\ mu = "free"
    /\ openOrders' = openOrders \cup {sub[c].trace}
    /\ intentMap' = intentMap \cup {sub[c].trace}
    /\ SubReturn(c)
    /\ UNCHANGED <<ledgerVars, dbVars, rec, canc, ca, poll, lastPoll, tr, sysVars, venueVars>>

-----------------------------------------------------------------------------
\* CancelOrder

IdleCanc == [pc |-> "idle", trace |-> NoTrace]

CancelLookup(t) ==
    /\ up
    /\ "cancel" \in Cancels
    /\ canc.pc = "idle"
    /\ mu = "free"
    /\ t \in openOrders
    /\ canc' = [pc |-> "venue", trace |-> t]
    /\ UNCHANGED <<ledgerVars, dbVars, memVars, sub, ca, poll, lastPoll, tr, sysVars,
                   venueVars>>

\* Mutant: the order is cancelled in the engine's records only.
CancelLocally ==
    /\ canc.pc = "venue"
    /\ Transition("cancel", canc.trace, "cancelled")
    /\ canc' = [pc |-> "unregister", trace |-> canc.trace]
    /\ UNCHANGED <<ledgerVars, dbVars, memVars, sub, ca, poll, lastPoll, sysVars, venueVars>>

\* venue.CancelOrder; CancelOrder returns when it answers an error.
CancelVenue ==
    LET e == rec[canc.trace].exch
    IN /\ canc.pc = "venue"
       /\ \/ /\ Venue!ExCancel(e)
             /\ Transition("cancel", canc.trace, "cancelled")
             /\ canc' = [pc |-> "unregister", trace |-> canc.trace]
          \/ /\ ~Venue!Cancellable(e) \/ RemoteFaults
             /\ canc' = IdleCanc
             /\ UNCHANGED <<tr, venueVars>>
       /\ UNCHANGED <<ledgerVars, dbVars, memVars, sub, ca, poll, lastPoll, sysVars>>

\* Mutant: the entry of intentMap stays.
KeepIntentEntry(t) == openOrders' = openOrders \ {t} /\ UNCHANGED intentMap

Unregister(t) ==
    /\ openOrders' = openOrders \ {t}
    /\ intentMap' = intentMap \ {t}

CancelUnregister ==
    /\ canc.pc = "unregister"
    /\ Transitioned("cancel")
    /\ mu = "free"
    /\ Unregister(canc.trace)
    /\ canc' = IF canc.trace \in intentMap THEN [pc |-> "intent", trace |-> canc.trace]
               ELSE IdleCanc
    /\ UNCHANGED <<ledgerVars, dbVars, rec, sub, ca, poll, lastPoll, sysVars, venueVars>>

CancelIntent ==
    /\ canc.pc = "intent"
    /\ WriteIntent(canc.trace, "cancelled")
    /\ canc' = IdleCanc
    /\ UNCHANGED <<nextVersion, app, dbVars, memVars, sub, ca, poll, lastPoll, tr, sysVars,
                   venueVars>>

CancelOrder ==
    (\E t \in Traces : CancelLookup(t)) \/ CancelVenue \/ CancelUnregister \/ CancelIntent

-----------------------------------------------------------------------------
\* CancelAll: the venue first, then the engine's own orders under the lock,
\* whatever the venue answered.

IdleCa == [pc |-> "idle", trace |-> NoTrace]

CaVenue ==
    /\ up
    /\ "cancelall" \in Cancels
    /\ ca.pc = "idle"
    /\ Venue!ExCancelAll \/ (RemoteFaults /\ UNCHANGED venueVars)
    /\ ca' = [ca EXCEPT !.pc = "lock"]
    /\ UNCHANGED <<ledgerVars, dbVars, memVars, sub, canc, poll, lastPoll, tr, sysVars>>

CaLock ==
    /\ ca.pc = "lock"
    /\ mu = "free"
    /\ mu' = "cancelall"
    /\ ca' = [ca EXCEPT !.pc = "loop"]
    /\ UNCHANGED <<ledgerVars, dbVars, memVars, sub, canc, poll, lastPoll, tr, mode, up, crashes,
                   venueVars>>

CaLoop(t) ==
    /\ ca.pc = "loop"
    /\ t \in openOrders
    /\ Transition("cancelall", t, "cancelled")
    /\ ca' = [pc |-> "intent", trace |-> t]
    /\ UNCHANGED <<ledgerVars, dbVars, memVars, sub, canc, poll, lastPoll, sysVars, venueVars>>

CaWriteIntent(t) ==
    IF t \in intentMap THEN WriteIntent(t, "cancelled") ELSE UNCHANGED intents

CaIntent ==
    /\ ca.pc = "intent"
    /\ Transitioned("cancelall")
    /\ CaWriteIntent(ca.trace)
    /\ Unregister(ca.trace)
    /\ ca' = [IdleCa EXCEPT !.pc = "loop"]
    /\ UNCHANGED <<nextVersion, app, dbVars, rec, sub, canc, poll, lastPoll, sysVars,
                   venueVars>>

CaUnlock ==
    /\ ca.pc = "loop"
    /\ openOrders = {}
    /\ mu' = "free"
    /\ ca' = IdleCa
    /\ UNCHANGED <<ledgerVars, dbVars, memVars, sub, canc, poll, lastPoll, tr, mode, up, crashes,
                   venueVars>>

CancelAll == CaVenue \/ CaLock \/ (\E t \in Traces : CaLoop(t)) \/ CaIntent \/ CaUnlock

-----------------------------------------------------------------------------
\* The fill poller: runFillPoller, PollFills, processFill

IdlePoll == [pc |-> "idle", start |-> 0, next |-> 0, last |-> 0, trace |-> NoTrace]

PollFill == exFills[poll.next]
PollGoto(pc, t) ==
    poll' = [pc |-> pc, start |-> poll.start, next |-> poll.next, last |-> poll.last, trace |-> t]
NextFill ==
    poll' = [pc |-> "fill", start |-> poll.start, next |-> poll.next + 1, last |-> poll.last,
             trace |-> NoTrace]

\* pollStart := time.Now(), before the venue is asked.
PollStart ==
    /\ up
    /\ poll.pc = "idle"
    /\ poll' = [pc |-> "fetch", start |-> Len(exFills), next |-> 0, last |-> 0, trace |-> NoTrace]
    /\ UNCHANGED <<ledgerVars, dbVars, memVars, sub, canc, ca, lastPoll, tr, sysVars,
                   venueVars>>

\* Mutant: the time of the poll is taken when it ends.
AdvanceToEnd == Len(exFills)

AdvanceTo == poll.start

PollFetch ==
    /\ poll.pc = "fetch"
    /\ poll' = [pc |-> "fill", start |-> poll.start, next |-> lastPoll + 1,
                last |-> lastPoll + Cardinality(Venue!ExPoll(lastPoll)), trace |-> NoTrace]
    /\ UNCHANGED <<ledgerVars, dbVars, memVars, sub, canc, ca, lastPoll, tr, sysVars,
                   venueVars>>

\* The venue fails: lastPoll stays.
PollError ==
    /\ RemoteFaults
    /\ poll.pc = "fetch"
    /\ poll' = IdlePoll
    /\ UNCHANGED <<ledgerVars, dbVars, memVars, sub, canc, ca, lastPoll, tr, sysVars,
                   venueVars>>

PollDone ==
    /\ poll.pc = "fill"
    /\ poll.next > poll.last
    /\ lastPoll' = AdvanceTo
    /\ poll' = IdlePoll
    /\ UNCHANGED <<ledgerVars, dbVars, memVars, sub, canc, ca, tr, sysVars, venueVars>>

\* Mutant: any open order will do.
AnyOpenOrder(t, f) == TRUE

Owns(t, f) == rec[t].exch = f.order

\* The first open order with the fill's exchange id, in map order; a fill of an
\* unknown order is dropped.
PollLookup ==
    LET known == {t \in openOrders : Owns(t, PollFill)}
    IN /\ poll.pc = "fill"
       /\ poll.next <= poll.last
       /\ mu = "free"
       /\ \/ \E t \in known : PollGoto("persist", t)
          \/ known = {} /\ NextFill
       /\ UNCHANGED <<ledgerVars, dbVars, memVars, sub, canc, ca, lastPoll, tr, sysVars,
                      venueVars>>

\* INSERT INTO execution.fills; on an error the fill is skipped.
PollPersist ==
    LET inserted == fillRows' = Append(fillRows, [trace |-> poll.trace, fill |-> poll.next])
    IN /\ poll.pc = "persist"
       /\ \/ inserted /\ PollGoto("apply", poll.trace)
          \/ DbFaults /\ (inserted \/ UNCHANGED fillRows) /\ NextFill
       /\ UNCHANGED <<ledgerVars, orders, reported, placed, memVars, sub, canc, ca, lastPoll, tr,
                      sysVars, venueVars>>

\* rec.FilledQuantity += f.Quantity decides between filled and partially_filled.
PollApply ==
    LET t == poll.trace
        total == rec[t].filled + PollFill.qty
    IN /\ poll.pc = "apply"
       /\ rec' = [rec EXCEPT ![t].filled = total]
       /\ Transition("poll", t, IF total >= Quantity[t] THEN "filled" ELSE "partially_filled")
       /\ PollGoto("unregister", poll.trace)
       /\ UNCHANGED <<ledgerVars, dbVars, openOrders, intentMap, sub, canc, ca, lastPoll, sysVars,
                      venueVars>>

PollUnregister ==
    /\ poll.pc = "unregister"
    /\ Transitioned("poll")
    /\ \/ /\ tr["poll"].to = "filled"
          /\ mu = "free"
          /\ Unregister(poll.trace)
          /\ PollGoto(IF poll.trace \in intentMap THEN "intent" ELSE "report", poll.trace)
       \/ /\ tr["poll"].to # "filled"
          /\ PollGoto("report", poll.trace)
          /\ UNCHANGED <<openOrders, intentMap>>
    /\ UNCHANGED <<ledgerVars, dbVars, rec, sub, canc, ca, lastPoll, sysVars, venueVars>>

PollIntent ==
    /\ poll.pc = "intent"
    /\ WriteIntent(poll.trace, "filled")
    /\ PollGoto("report", poll.trace)
    /\ UNCHANGED <<nextVersion, app, dbVars, memVars, sub, canc, ca, lastPoll, tr, sysVars,
                   venueVars>>

\* Mutant: the risk engine is not told.
ReportDropped ==
    /\ poll.pc = "report"
    /\ NextFill
    /\ UNCHANGED <<ledgerVars, dbVars, memVars, sub, canc, ca, lastPoll, tr, sysVars, venueVars>>

\* riskCallback; its error is ignored.
PollReport ==
    /\ poll.pc = "report"
    /\ \/ reported' = [reported EXCEPT ![poll.trace] = @ + PollFill.qty]
       \/ RemoteFaults /\ UNCHANGED reported
    /\ NextFill
    /\ UNCHANGED <<ledgerVars, orders, fillRows, placed, memVars, sub, canc, ca, lastPoll, tr,
                   sysVars, venueVars>>

Poll ==
    \/ PollStart \/ PollFetch \/ PollError \/ PollDone \/ PollLookup \/ PollPersist
    \/ PollApply \/ PollUnregister \/ PollIntent \/ PollReport

-----------------------------------------------------------------------------
\* The system mode, the exchange's fill goroutines, crash and recovery

\* A heartbeat's answer sets the mode (runHeartbeatLoop).
SetSystemMode(m) ==
    /\ up
    /\ mu = "free"
    /\ m # mode
    /\ mode' = m
    /\ UNCHANGED <<ledgerVars, dbVars, memVars, procVars, mu, up, crashes, venueVars>>

ExchangeStep ==
    /\ up
    /\ \E e \in Venue!ExIds : Venue!ExFill(e) \/ Venue!ExNoFill(e)
    /\ UNCHANGED <<ledgerVars, dbVars, memVars, procVars, sysVars>>

Crash ==
    /\ up
    /\ crashes < MaxCrashes
    /\ crashes' = crashes + 1
    /\ up' = FALSE
    /\ mode' = "normal"
    /\ mu' = "free"
    /\ app' = [c \in Clients |-> Idle]
    /\ sub' = [c \in Clients |-> IdleSub]
    /\ canc' = IdleCanc
    /\ ca' = IdleCa
    /\ poll' = IdlePoll
    /\ lastPoll' = 0
    /\ tr' = [a \in Shared |-> IdleTr]
    /\ rec' = [t \in Traces |-> NoRecord]
    /\ openOrders' = {}
    /\ intentMap' = {}
    /\ exOrders' = << >> /\ exFills' = << >> /\ filler' = {}
    /\ positions' = [k \in Keys |-> 0] /\ balance' = 0
    /\ UNCHANGED <<intents, nextVersion, dbVars>>

LoadedOrders == {t \in Traces : orders[t].status \in OrderLive}

\* rows.Scan reads exchange_order_id into a Go string, which fails on NULL and
\* ends the start with os.Exit(1).
ScanSucceeds == \A t \in LoadedOrders : orders[t].exch # NullId

\* RecoverFull, then the fill poller and the gRPC server start.  An error while
\* the intent of an open order is read only leaves intentMap without it.
RecoverFull ==
    /\ ~up
    /\ ScanSucceeds
    /\ up' = TRUE
    /\ rec' = [t \in Traces |-> IF t \in LoadedOrders THEN orders[t] ELSE NoRecord]
    /\ openOrders' = LoadedOrders
    /\ \/ intentMap' = LoadedOrders \cap Rows
       \/ DbFaults /\ intentMap' \in SUBSET (LoadedOrders \cap Rows)
    /\ UNCHANGED <<ledgerVars, dbVars, procVars, mode, mu, crashes, venueVars>>

-----------------------------------------------------------------------------
Init ==
    /\ LedgerInit
    /\ orders = [t \in Traces |-> NoRecord]
    /\ fillRows = << >>
    /\ reported = [t \in Traces |-> 0]
    /\ placed = [t \in Traces |-> 0]
    /\ rec = [t \in Traces |-> NoRecord]
    /\ openOrders = {}
    /\ intentMap = {}
    /\ mode = "normal"
    /\ mu = "free"
    /\ sub = [c \in Clients |-> IdleSub]
    /\ canc = IdleCanc
    /\ ca = IdleCa
    /\ poll = IdlePoll
    /\ lastPoll = 0
    /\ tr = [a \in Shared |-> IdleTr]
    /\ up = TRUE
    /\ crashes = 0
    /\ Venue!ExInit

SubmitOrder(c) ==
    \/ \E t \in Traces : SubmitGate(c, t)
    \/ SubmitAppend(c)
    \/ SubmitAppended(c)
    \/ SubmitPersist(c)
    \/ SubmitVenue(c)
    \/ SubmitTransition(c)
    \/ SubmitIntent(c)
    \/ SubmitRegister(c)

transitionOrder(a) == TransCheck(a) \/ TransSet(a) \/ TransWrite(a)

Next ==
    \/ \E c \in Clients : SubmitOrder(c)
    \/ \E a \in Shared : transitionOrder(a)
    \/ CancelOrder
    \/ CancelAll
    \/ Poll
    \/ \E m \in Modes : SetSystemMode(m)
    \/ ExchangeStep
    \/ Crash
    \/ RecoverFull

Spec == Init /\ [][Next]_vars

-----------------------------------------------------------------------------
\* Properties

Record == [status : {"none"} \cup OrderLive \cup OrderTerminal, filled : Nat, exch : Nat]
SubPc == {"idle", "append", "persist", "venue", "transition", "intent", "register"}

\* Type invariant: the ledger's type, the rows and records, and the goroutines'
\* counters; a lock held by CancelAll belongs to a CancelAll inside its loop.
TypeOK ==
    /\ LedgerTypeOK
    /\ orders \in [Traces -> Record]
    /\ rec \in [Traces -> Record]
    /\ reported \in [Traces -> Nat]
    /\ openOrders \subseteq Traces /\ intentMap \subseteq openOrders
    /\ \A c \in Clients : sub[c].pc \in SubPc /\ (sub[c].pc = "append" <=> app[c].pc # "idle")
    /\ \A a \in Shared : tr[a].pc \in {"idle", "check", "set", "write", "done"}
    /\ mu = "cancelall" <=> ca.pc \in {"loop", "intent"}
    /\ lastPoll \in 0..Len(exFills)
    /\ up \in BOOLEAN

\* Write-ahead: an order at the venue was first persisted, and its intent before
\* it, across crashes, failed statements and concurrent submissions of the same
\* trace ("Record intent in the ledger before any venue interaction").
WriteAhead ==
    /\ \A t \in PersistedRows : t \in Rows
    /\ \A e \in Venue!ExIds : exOrders[e].req \in PersistedRows
    /\ \A t \in Traces : placed[t] > 0 => t \in PersistedRows

\* An approval is placed at most once, however often it is submitted, by however
\* many goroutines, before or after a crash (idempotency_key).
AtMostOnePlacement == \A t \in Traces : placed[t] <= 1

Quiet ==
    /\ up
    /\ \A c \in Clients : sub[c].pc = "idle"
    /\ canc.pc = "idle" /\ ca.pc = "idle" /\ poll.pc = "idle"

\* When no call is in progress the three records of an order agree: the row in
\* execution.orders, the record in openOrders and the intent in the ledger.
QuiescentAgreement ==
    Quiet =>
        \A t \in PersistedRows :
            /\ t \in openOrders <=> orders[t].status \in OrderLive
            /\ t \in openOrders <=> t \in Outstanding
            /\ t \in openOrders => orders[t] = rec[t] /\ t \in intentMap

\* Exposure is never understated: while an order can still fill at the venue, its
\* intent counts as outstanding ("the ground truth for exposure accounting").
LiveImpliesOutstanding ==
    \A e \in Venue!ExIds :
        exOrders[e].status \in Venue!ExLive => exOrders[e].req \in Outstanding

\* execution.orders follows validTransitions ("every legal state transition"),
\* although the test and the UPDATE of transitionOrder are separate steps.
Orders == INSTANCE Lifecycle
            WITH Ids <- Traces, Absent <- "none",
                 Edges <- {<<"none", "pending">>} \cup validTransitions,
                 st <- [t \in Traces |-> orders[t].status]

RowsFollowLifecycle == Orders!Spec

\* What execution.fills holds for an order.
BookedContracts(t) ==
    SumFunction([i \in {j \in 1..Len(fillRows) : fillRows[j].trace = t}
                    |-> exFills[fillRows[i].fill].qty])

\* What the poller has booked and not reported yet.
Unreported(t) ==
    IF poll.trace = t /\ poll.pc \in {"apply", "unregister", "intent", "report"}
    THEN PollFill.qty ELSE 0

\* A fill is booked once, and what is booked is what the risk engine has been
\* told or is about to be told (processFill, runFillPoller).
FillsBookedOnce ==
    /\ \A i, j \in 1..Len(fillRows) : fillRows[i].fill = fillRows[j].fill => i = j
    /\ \A t \in Traces : reported[t] + Unreported(t) = BookedContracts(t)

\* A fill is booked for the order that the venue filled (processFill finds it by
\* exchange_order_id alone).
FillsGoToTheirOrder ==
    [][fillRows' # fillRows
          => LET row == Last(fillRows')
             IN exOrders[exFills[row.fill].order].req = row.trace]_vars

\* Whatever a crash interrupts, an order that recovery would load as open still
\* has an outstanding intent: CancelOrder and the poller write a terminal status
\* to execution.orders before the ledger, so a restart does not trade with an
\* understated exposure.  (Not so with CancelAll: where it meets a CancelOrder or
\* the poller on one order, the row's transition of the second is refused, and the
\* second may end the intent before the first has written the row.)
LoadedImpliesOutstanding == LoadedOrders \subseteq Outstanding

\* An order the engine has recorded as cancelled is not live at the venue
\* (CancelOrder asks the venue before it records anything).
CancelledIsDead ==
    \A e \in Venue!ExIds :
        orders[exOrders[e].req].status = "cancelled"
            => exOrders[e].status \notin Venue!ExLive

\* The trace of the order that fill f belongs to.
FilledTrace(f) == exOrders[exFills[f].order].req

\* No poll has fetched the fill yet, and its order is registered.
Detectable(f) ==
    /\ f \in DOMAIN exFills
    /\ lastPoll < f /\ poll.last < f
    /\ FilledTrace(f) \in openOrders

HasFillRow(f) == \E i \in 1..Len(fillRows) : fillRows[i].fill = f

\* CancelAll is about to take the fill's order out of openOrders.
TakenByCancelAll(f) ==
    f \in DOMAIN exFills /\ ca.pc = "intent" /\ ca.trace = FilledTrace(f)

\* A fill that no poll has fetched yet, of a registered order of one contract, is
\* booked in the end, whatever polls, submissions and CancelOrder calls go on
\* meanwhile (the venue refuses to cancel an order it has filled), unless the
\* engine crashes first or CancelAll, which unregisters every order without asking
\* whether it is filled, gets to the order before the poller does.
RegisteredFillsBooked ==
    \A f \in 1..MaxOrders : Detectable(f) ~> ~up \/ TakenByCancelAll(f) \/ HasFillRow(f)
=============================================================================
