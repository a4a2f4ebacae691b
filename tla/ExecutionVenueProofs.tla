------------------------ MODULE ExecutionVenueProofs ------------------------
(***************************************************************************)
(* What the execution engine's records say of its orders at the venue, for *)
(* every set of traces and of concurrent submitters.                       *)
(*                                                                         *)
(* The argument goes in layers, each an invariant that rests on the ones   *)
(* before it and on ExecInv:                                               *)
(*   EngineType   the types, fills within their quantities, and a poller   *)
(*                whose indices stay inside the venue's list of fills;     *)
(*   LinkInv      an order at the venue is the one the engine's record     *)
(*                names, from the moment a goroutine other than its        *)
(*                submitter can reach the record;                          *)
(*   DeadInv, OpenInv                                                      *)
(*                what is recorded as cancelled is dead at the venue, and  *)
(*                what nobody has filled keeps its intent (no CancelAll);  *)
(*   Whole        an order of one contract is filled at once or not at     *)
(*                all, and what the venue has settled stays settled;       *)
(*   AddressInv   exchange ids name the orders they were given to (no      *)
(*                crash: the exchange starts its ids again);               *)
(*   RowInv       the row, the record and the intent of an order of one    *)
(*                contract agree but for the goroutine that is on its way  *)
(*                to change them;                                          *)
(*   CallInv      and every such goroutine arrives (no crash);             *)
(*   BookInv      an order of one contract has one row in execution.fills, *)
(*                and has left openOrders before the poller looks up its   *)
(*                next fill (no crash, no failing call).                   *)
(***************************************************************************)
EXTENDS ExecutionProofs, FiniteSetTheorems

CancType == [pc : {"idle", "venue", "unregister", "intent"}, trace : Traces \cup {NoTrace}]
CaType == [pc : {"idle", "lock", "loop", "intent"}, trace : Traces \cup {NoTrace}]
PollType == [pc : {"idle", "fetch", "fill", "persist", "apply", "unregister", "intent", "report"},
             start : Nat, next : Nat, last : Nat, trace : Traces \cup {NoTrace}]
TrType == [pc : {"idle", "check", "set", "write", "done"}, trace : Traces \cup {NoTrace},
           to : {"none"} \cup OrderLive \cup OrderTerminal, row : Record]

Processing == {"persist", "apply", "unregister", "intent", "report"}

MemType ==
    /\ orders \in [Traces -> Record]
    /\ rec \in [Traces -> Record]
    /\ reported \in [Traces -> Nat]
    /\ intentMap \in SUBSET openOrders

ProcType ==
    /\ canc \in CancType /\ (canc.pc # "idle" => canc.trace \in Traces)
    /\ ca \in CaType /\ (ca.pc = "intent" => ca.trace \in Traces)
    /\ tr \in [Shared -> TrType]
    /\ \A a \in Shared : tr[a].pc # "idle" => tr[a].trace \in Traces
    /\ mu = "cancelall" <=> ca.pc \in {"loop", "intent"}
    /\ up \in BOOLEAN

VenueOrder == [req : Traces, filled : Nat, status : Venue!ExStatus]
VenueFill == [order : Nat, qty : Nat]

VenueType ==
    /\ exOrders \in Seq(VenueOrder)
    /\ exFills \in Seq(VenueFill)
    /\ \A e \in 1..Len(exOrders) : exOrders[e].filled <= Quantity[exOrders[e].req]
    /\ \A f \in 1..Len(exFills) : exFills[f].order \in 1..Len(exOrders)

\* The poller's positions are inside the list of fills.
PollInv ==
    /\ poll \in PollType
    /\ poll.start <= Len(exFills)
    /\ poll.last <= Len(exFills)
    /\ poll.pc \in Processing => poll.next \in 1..poll.last /\ poll.trace \in Traces
    /\ poll.pc = "fill" => poll.next # 0
    /\ lastPoll \in 0..Len(exFills)

EngineType == MemType /\ ProcType /\ VenueType /\ PollInv

-----------------------------------------------------------------------------
\* The venue

\* The larger of two numbers.
LEMMA VenueMax ==
    ASSUME NEW a \in Int, NEW b \in Int
    PROVE  Venue!Max({a, b}) \in {a, b} /\ Venue!Max({a, b}) >= a /\ Venue!Max({a, b}) >= b
<1>1. \E x \in {a, b} : \A y \in {a, b} : x >= y
  <2>1. CASE a >= b
    BY <2>1
  <2>2. CASE b >= a
    BY <2>2
  <2>3. QED
    BY <2>1, <2>2
<1>2. QED
    BY <1>1 DEF Venue!Max

\* A fill takes at most what is left.
LEMMA FillSize ==
    ASSUME NEW r \in Nat, NEW q \in {r} \cup Venue!PartialSizes(r)
    PROVE  q \in 0..r
<1>1. CASE q = r
    BY <1>1
<1>2. CASE q \in Venue!PartialSizes(r)
  <2>1. r > 1 /\ q \in Venue!Max({1, r \div 10})..((9 * r) \div 10)
    BY <1>2 DEF Venue!PartialSizes
  <2>2. Venue!Max({1, r \div 10}) >= 1 /\ Venue!Max({1, r \div 10}) \in Int
    <3>1. r \div 10 \in Int /\ 1 \in Int
      OBVIOUS
    <3>2. QED
      BY <3>1, VenueMax
  <2>3. (9 * r) \div 10 <= r /\ (9 * r) \div 10 \in Int
    OBVIOUS
  <2>4. QED
    BY <2>1, <2>2, <2>3
<1>3. QED
    BY <1>1, <1>2

\* What can happen to the venue's orders: nothing, a new one, or old ones that
\* keep their request, never come out of cancelled and never become untouched.
Evolves ==
    /\ Len(exOrders') = Len(exOrders)
    /\ \A e \in 1..Len(exOrders) :
          /\ exOrders'[e].req = exOrders[e].req
          /\ exOrders[e].status = "cancelled" => exOrders'[e].status = "cancelled"
          /\ exOrders'[e].status = "open" => exOrders[e].status = "open"

\* Fills are only added.
FillsGrow ==
    /\ Len(exFills) <= Len(exFills')
    /\ \A f \in 1..Len(exFills) : exFills'[f] = exFills[f]

\* A fill, a cancel and a cancel of everything keep the types.
LEMMA VenueMoves ==
    ASSUME VenueType,
           \/ \E e \in Venue!ExIds : Venue!ExFill(e) \/ Venue!ExNoFill(e)
           \/ \E e : Venue!ExCancel(e)
           \/ Venue!ExCancelAll
    PROVE  VenueType' /\ Evolves /\ FillsGrow
<1>0. /\ exOrders \in Seq(VenueOrder) /\ exFills \in Seq(VenueFill)
      /\ \A e \in 1..Len(exOrders) : exOrders[e] \in VenueOrder
      /\ Len(exOrders) \in Nat /\ Len(exFills) \in Nat
    BY DEF VenueType
<1>1. ASSUME NEW e \in 1..Len(exOrders), NEW o \in VenueOrder, o.req = exOrders[e].req,
             o.filled <= Quantity[o.req], exOrders' = [exOrders EXCEPT ![e] = o],
             exOrders[e].status # "cancelled" \/ o.status = "cancelled", o.status # "open"
      PROVE  /\ Evolves
             /\ exOrders' \in Seq(VenueOrder)
             /\ \A d \in 1..Len(exOrders') : exOrders'[d].filled <= Quantity[exOrders'[d].req]
  <2>1. /\ exOrders' \in Seq(VenueOrder) /\ Len(exOrders') = Len(exOrders)
        /\ exOrders'[e] = o
        /\ \A d \in 1..Len(exOrders) : d # e => exOrders'[d] = exOrders[d]
    BY <1>0, <1>1
  <2>2. QED
    BY <1>1, <2>1 DEF Evolves, VenueType
<1>2. ASSUME UNCHANGED exFills
      PROVE  FillsGrow
    BY <1>0, <1>2 DEF FillsGrow
<1>3. ASSUME NEW e \in Venue!ExIds, Venue!ExFill(e)
      PROVE  VenueType' /\ Evolves /\ FillsGrow
  <2> DEFINE o == exOrders[e]
             r == Quantity[o.req] - o.filled
  <2>1. /\ o \in VenueOrder /\ o.req \in Traces /\ o.filled \in Nat
        /\ Quantity[o.req] \in Nat /\ r \in Nat /\ e \in 1..Len(exOrders)
    <3>1. o \in VenueOrder /\ e \in 1..Len(exOrders)
      BY <1>0 DEF Venue!ExIds
    <3>2. o.req \in Traces /\ o.filled \in Nat
      BY <3>1 DEF VenueOrder
    <3>3. Quantity[o.req] \in Nat
      BY <3>2, LedgerAssumption
    <3>4. o.filled <= Quantity[o.req]
      BY <3>1 DEF VenueType
    <3> HIDE DEF o
    <3>5. r \in Nat
      BY <3>2, <3>3, <3>4
    <3>6. QED
      BY <3>1, <3>2, <3>3, <3>5
  <2>2. /\ o.status # "cancelled"
        /\ \E q \in {r} \cup Venue!PartialSizes(r) :
           /\ exFills' = Append(exFills, [order |-> e, qty |-> q])
           /\ exOrders' = [exOrders EXCEPT ![e] =
                              [req |-> o.req, filled |-> o.filled + q,
                               status |-> IF r - q <= 0 THEN "filled" ELSE "partially_filled"]]
    BY <1>3 DEF Venue!ExFill, Venue!Fillable
  <2>3. PICK q \in {r} \cup Venue!PartialSizes(r) :
           /\ exFills' = Append(exFills, [order |-> e, qty |-> q])
           /\ exOrders' = [exOrders EXCEPT ![e] =
                              [req |-> o.req, filled |-> o.filled + q,
                               status |-> IF r - q <= 0 THEN "filled" ELSE "partially_filled"]]
    BY <2>2
  <2>4. q \in 0..r
    BY <2>1, FillSize
  <2> DEFINE new == [req |-> o.req, filled |-> o.filled + q,
                     status |-> IF r - q <= 0 THEN "filled" ELSE "partially_filled"]
  <2>5. /\ new \in VenueOrder /\ new.req = o.req /\ new.status # "open"
        /\ new.filled <= Quantity[new.req]
    BY <2>1, <2>4 DEF VenueOrder, Venue!ExStatus, Venue!ExLive
  <2>6. [order |-> e, qty |-> q] \in VenueFill
    BY <2>1, <2>4 DEF VenueFill
  <2>7. exOrders' = [exOrders EXCEPT ![e] = new]
    BY <2>3
  <2> HIDE DEF new
  <2>8. /\ Evolves
        /\ exOrders' \in Seq(VenueOrder)
        /\ \A d \in 1..Len(exOrders') : exOrders'[d].filled <= Quantity[exOrders'[d].req]
    BY <1>1, <2>1, <2>2, <2>5, <2>7
  <2>9. /\ exFills' \in Seq(VenueFill)
        /\ Len(exFills') = Len(exFills) + 1
        /\ \A f \in 1..Len(exFills) : exFills'[f] = exFills[f]
        /\ exFills'[Len(exFills) + 1].order = e
    BY <1>0, <2>3, <2>6
  <2>10. \A f \in 1..Len(exFills') : exFills'[f].order \in 1..Len(exOrders')
    BY <1>0, <2>1, <2>8, <2>9 DEF VenueType, Evolves
  <2>11. QED
    BY <1>0, <2>8, <2>9, <2>10 DEF VenueType, FillsGrow
<1>4. ASSUME NEW e, Venue!ExCancel(e)
      PROVE  VenueType' /\ Evolves /\ FillsGrow
  <2> DEFINE new == [exOrders[e] EXCEPT !.status = "cancelled"]
  <2>1. e \in 1..Len(exOrders) /\ exOrders[e] \in VenueOrder /\ UNCHANGED exFills
    BY <1>0, <1>4 DEF Venue!ExCancel, Venue!Cancellable, Venue!ExIds
  <2>2. /\ new \in VenueOrder /\ new.req = exOrders[e].req /\ new.status = "cancelled"
        /\ new.filled <= Quantity[new.req]
    BY <2>1 DEF VenueOrder, VenueType, Venue!ExStatus
  <2>3. exOrders' = [exOrders EXCEPT ![e] = new]
    BY <1>4 DEF Venue!ExCancel
  <2> HIDE DEF new
  <2>4. /\ Evolves
        /\ exOrders' \in Seq(VenueOrder)
        /\ \A d \in 1..Len(exOrders') : exOrders'[d].filled <= Quantity[exOrders'[d].req]
    BY <1>1, <2>1, <2>2, <2>3
  <2>5. QED
    BY <1>2, <2>1, <2>4 DEF VenueType, Evolves
<1>5. CASE Venue!ExCancelAll
  <2>1. /\ exOrders' = [e \in 1..Len(exOrders) |->
                          IF exOrders[e].status \in Venue!ExLive
                          THEN [exOrders[e] EXCEPT !.status = "cancelled"] ELSE exOrders[e]]
        /\ UNCHANGED exFills
    BY <1>5 DEF Venue!ExCancelAll, Venue!ExIds
  <2>2. \A e \in 1..Len(exOrders) :
           /\ exOrders'[e] \in VenueOrder
           /\ exOrders'[e].req = exOrders[e].req /\ exOrders'[e].filled = exOrders[e].filled
           /\ exOrders[e].status = "cancelled" => exOrders'[e].status = "cancelled"
           /\ exOrders'[e].status # "open"
    BY <1>0, <2>1 DEF VenueOrder, Venue!ExStatus, Venue!ExLive
  <2>3. exOrders' \in Seq(VenueOrder) /\ Len(exOrders') = Len(exOrders)
    BY <1>0, <2>1, <2>2
  <2>4. QED
    BY <1>2, <2>1, <2>2, <2>3 DEF VenueType, Evolves
<1>6. ASSUME NEW e, Venue!ExNoFill(e)
      PROVE  VenueType' /\ Evolves /\ FillsGrow
    BY <1>2, <1>6 DEF Venue!ExNoFill, VenueType, Evolves
<1>7. QED
    BY <1>3, <1>4, <1>5, <1>6

\* A new order keeps the types and leaves the others alone.
LEMMA VenueAdds ==
    ASSUME VenueType, NEW t \in Traces, NEW s \in {"open", "rejected"},
           Venue!ExSubmit(t, s)
    PROVE  /\ VenueType' /\ FillsGrow /\ UNCHANGED exFills
           /\ Len(exOrders') = Len(exOrders) + 1
           /\ \A e \in 1..Len(exOrders) : exOrders'[e] = exOrders[e]
           /\ exOrders'[Len(exOrders) + 1].req = t
           /\ exOrders'[Len(exOrders) + 1].status = s
<1> DEFINE new == [req |-> t, filled |-> 0, status |-> s]
<1>1. /\ exOrders \in Seq(VenueOrder) /\ exFills \in Seq(VenueFill) /\ Len(exOrders) \in Nat
      /\ exOrders' = Append(exOrders, new) /\ UNCHANGED exFills
    BY DEF VenueType, Venue!ExSubmit
<1>2. new \in VenueOrder /\ new.filled <= Quantity[new.req]
    BY LedgerAssumption DEF VenueOrder, Venue!ExStatus, Venue!ExLive
<1>3. /\ exOrders' \in Seq(VenueOrder) /\ Len(exOrders') = Len(exOrders) + 1
      /\ \A e \in 1..Len(exOrders) : exOrders'[e] = exOrders[e]
      /\ exOrders'[Len(exOrders) + 1] = new
    BY <1>1, <1>2
<1>4. VenueType'
    BY <1>1, <1>2, <1>3 DEF VenueType
<1>5. FillsGrow
    BY <1>1 DEF FillsGrow
<1>6. QED
    BY <1>1, <1>3, <1>4, <1>5

-----------------------------------------------------------------------------
\* Frames for the types

\* The tables, records and maps do not change.
LEMMA MemFrame ==
    ASSUME MemType, UNCHANGED <<orders, rec, reported, openOrders, intentMap>>
    PROVE  MemType'
BY DEF MemType

\* The goroutines other than the submitters and the poller do not move.
LEMMA ProcFrame ==
    ASSUME ProcType, UNCHANGED <<canc, ca, tr, mu, up>>
    PROVE  ProcType'
BY DEF ProcType

\* The venue does not move.
LEMMA VenueFrame ==
    ASSUME VenueType, UNCHANGED <<exOrders, exFills>>
    PROVE  VenueType' /\ FillsGrow /\ Evolves
BY DEF VenueType, FillsGrow, Evolves

\* The poller does not move; fills may arrive.
LEMMA PollFrame ==
    ASSUME PollInv, VenueType, VenueType', UNCHANGED <<poll, lastPoll>>, FillsGrow
    PROVE  PollInv'
<1>1. Len(exFills) \in Nat /\ Len(exFills') \in Nat /\ Len(exFills) <= Len(exFills')
    BY DEF VenueType, FillsGrow
<1>2. QED
    BY <1>1 DEF PollInv, PollType

\* An UPDATE with a record, or a failed one, keeps the type of the table.
LEMMA RowTyped ==
    ASSUME orders \in [Traces -> Record], NEW t \in Traces, NEW row \in Record, WriteRow(t, row)
    PROVE  orders' \in [Traces -> Record]
BY DEF WriteRow

\* Starting a transition keeps the types.
LEMMA TransitionTyped ==
    ASSUME ProcType, NEW a \in Shared, NEW t \in Traces,
           NEW s \in OrderLive \cup OrderTerminal, Transition(a, t, s)
    PROVE  /\ tr' \in [Shared -> TrType]
           /\ \A b \in Shared : tr'[b].pc # "idle" => tr'[b].trace \in Traces
<1>1. [pc |-> "check", trace |-> t, to |-> s, row |-> NoRecord] \in TrType
    BY DEF TrType, NoRecord, Record, NullId
<1>2. QED
    BY <1>1 DEF ProcType, Transition

\* So does ending it.
LEMMA TransitionedTyped ==
    ASSUME ProcType, NEW a \in Shared, Transitioned(a)
    PROVE  /\ tr' \in [Shared -> TrType]
           /\ \A b \in Shared : tr'[b].pc # "idle" => tr'[b].trace \in Traces
<1>1. IdleTr \in TrType /\ IdleTr.pc = "idle"
    BY DEF TrType, IdleTr, NoRecord, Record, NullId
<1>2. QED
    BY <1>1 DEF ProcType, Transitioned

-----------------------------------------------------------------------------
\* The types, step by step

\* SubmitOrder.
LEMMA SubmitTyped ==
    ASSUME ExecInv, EngineType, NEW c \in Clients, SubmitOrder(c)
    PROVE  EngineType'
<1> USE DEF EngineType
<1>1. CASE \/ \E t \in Traces : SubmitGate(c, t)
           \/ SubmitAppend(c) \/ SubmitAppended(c) \/ SubmitIntent(c)
  <2>1. UNCHANGED <<orders, rec, reported, openOrders, intentMap, canc, ca, tr, mu, up, exOrders,
                    exFills, poll, lastPoll>>
    BY <1>1 DEF SubmitGate, SubmitAppend, SubmitAppended, SubmitIntent, dbVars, memVars, procVars,
                sysVars, venueVars
  <2>2. QED
    BY <2>1, MemFrame, ProcFrame, VenueFrame, PollFrame
<1>2. CASE SubmitPersist(c)
  <2>1. UNCHANGED <<reported, openOrders, intentMap, canc, ca, tr, mu, up, exOrders, exFills, poll,
                    lastPoll>>
    BY <1>2 DEF SubmitPersist, sysVars, venueVars
  <2>2. sub[c].trace \in Traces
    BY <1>2 DEF SubmitPersist, ExecInv, SubInv, Appended, Rows
  <2>3. NewRecord \in Record
    BY DEF NewRecord, Record, OrderLive, NullId
  <2>4. /\ orders' = orders \/ orders' = [orders EXCEPT ![sub[c].trace] = NewRecord]
        /\ rec' = rec \/ rec' = [rec EXCEPT ![sub[c].trace] = NewRecord]
    BY <1>2 DEF SubmitPersist
  <2>5. MemType'
    BY <2>1, <2>2, <2>3, <2>4 DEF MemType
  <2>6. QED
    BY <2>1, <2>5, ProcFrame, VenueFrame, PollFrame
<1>3. CASE SubmitVenue(c)
  <2>1. UNCHANGED <<orders, rec, reported, openOrders, intentMap, canc, ca, tr, mu, up, poll,
                    lastPoll>>
    BY <1>3 DEF SubmitVenue, memVars, sysVars
  <2>2. sub[c].trace \in Traces
    BY <1>3 DEF SubmitVenue, ExecInv, SubInv, Appended, Rows
  <2>3. VenueType' /\ FillsGrow
    BY <1>3, <2>2, VenueAdds, VenueFrame DEF SubmitVenue, venueVars
  <2>4. QED
    BY <2>1, <2>3, MemFrame, ProcFrame, PollFrame
<1>4. CASE SubmitTransition(c)
  <2> DEFINE row == [status |-> sub[c].ack, filled |-> 0, exch |-> sub[c].exch]
  <2>1. UNCHANGED <<reported, openOrders, intentMap, canc, ca, tr, mu, up, exOrders, exFills, poll,
                    lastPoll>>
    BY <1>4 DEF SubmitTransition, sysVars, venueVars
  <2>2. sub[c].trace \in Traces /\ sub[c] \in SubType
    BY <1>4 DEF SubmitTransition, ExecInv, SubInv, Appended, Rows
  <2>3. row \in Record
    BY <2>2 DEF SubType, Record, OrderLive, OrderTerminal
  <2>4. rec' = [rec EXCEPT ![sub[c].trace] = row] /\ WriteRow(sub[c].trace, row)
    BY <1>4 DEF SubmitTransition
  <2> HIDE DEF row
  <2>5. orders' \in [Traces -> Record]
    BY <2>2, <2>3, <2>4, RowTyped DEF MemType
  <2>6. MemType'
    BY <2>1, <2>2, <2>3, <2>4, <2>5 DEF MemType
  <2>7. QED
    BY <2>1, <2>6, ProcFrame, VenueFrame, PollFrame
<1>5. CASE SubmitRegister(c)
  <2>1. UNCHANGED <<orders, rec, reported, canc, ca, tr, mu, up, exOrders, exFills, poll,
                    lastPoll>>
    BY <1>5 DEF SubmitRegister, dbVars, sysVars, venueVars
  <2>2. MemType'
    BY <1>5, <2>1 DEF SubmitRegister, MemType
  <2>3. QED
    BY <2>1, <2>2, ProcFrame, VenueFrame, PollFrame
<1>6. QED
    BY <1>1, <1>2, <1>3, <1>4, <1>5 DEF SubmitOrder

\* transitionOrder.
LEMMA TransTyped ==
    ASSUME ExecInv, EngineType, NEW a \in Shared, transitionOrder(a)
    PROVE  EngineType'
<1> USE DEF EngineType
<1>1. /\ UNCHANGED <<reported, openOrders, intentMap, canc, ca, mu, up, exOrders, exFills, poll,
                     lastPoll>>
      /\ tr[a].pc # "idle"
    BY DEF transitionOrder, TransCheck, TransSet, TransWrite, dbVars, memVars, sysVars, venueVars
<1>2. tr[a] \in TrType /\ tr[a].trace \in Traces
    BY <1>1 DEF ProcType
<1>3. ASSUME NEW pc \in {"set", "done", "write"}, NEW row \in Record, TransGoto(a, pc, row)
      PROVE  ProcType'
  <2>1. [pc |-> pc, trace |-> tr[a].trace, to |-> tr[a].to, row |-> row] \in TrType
    BY <1>2, <1>3 DEF TrType
  <2>2. /\ tr' \in [Shared -> TrType]
        /\ \A b \in Shared : tr'[b].pc # "idle" => tr'[b].trace \in Traces
    BY <1>2, <1>3, <2>1 DEF ProcType, TransGoto
  <2>3. QED
    BY <1>1, <2>2 DEF ProcType
<1>4. NoRecord \in Record
    BY DEF NoRecord, Record, NullId
<1>5. CASE TransCheck(a)
  <2>1. UNCHANGED <<orders, rec>>
    BY <1>5 DEF TransCheck, dbVars, memVars
  <2>2. \E pc \in {"set", "done"} : TransGoto(a, pc, NoRecord)
    BY <1>5 DEF TransCheck
  <2>3. QED
    BY <1>1, <1>3, <1>4, <2>1, <2>2, MemFrame, VenueFrame, PollFrame
<1>6. CASE TransSet(a)
  <2> DEFINE row == [status |-> tr[a].to, filled |-> rec[tr[a].trace].filled,
                     exch |-> rec[tr[a].trace].exch]
  <2>1. UNCHANGED orders /\ rec' = [rec EXCEPT ![tr[a].trace] = row] /\ TransGoto(a, "write", row)
    BY <1>6 DEF TransSet, dbVars
  <2>2. row \in Record
    BY <1>2 DEF TrType, Record, MemType
  <2> HIDE DEF row
  <2>3. MemType'
    BY <1>1, <1>2, <2>1, <2>2 DEF MemType
  <2>4. QED
    BY <1>1, <1>3, <2>1, <2>2, <2>3, VenueFrame, PollFrame
<1>7. CASE TransWrite(a)
  <2>1. UNCHANGED rec /\ WriteRow(tr[a].trace, tr[a].row) /\ TransGoto(a, "done", NoRecord)
    BY <1>7 DEF TransWrite, memVars
  <2>2. tr[a].row \in Record
    BY <1>2 DEF TrType
  <2>3. orders' \in [Traces -> Record]
    BY <1>2, <2>1, <2>2, RowTyped DEF MemType
  <2>4. MemType'
    BY <1>1, <2>1, <2>3 DEF MemType
  <2>5. QED
    BY <1>1, <1>3, <1>4, <2>1, <2>4, VenueFrame, PollFrame
<1>8. QED
    BY <1>5, <1>6, <1>7 DEF transitionOrder

\* CancelOrder.
LEMMA CancelTyped ==
    ASSUME ExecInv, EngineType, CancelOrder
    PROVE  EngineType'
<1> USE DEF EngineType
<1>1. ASSUME NEW t \in Traces, CancelLookup(t)
      PROVE  EngineType'
  <2>1. UNCHANGED <<orders, rec, reported, openOrders, intentMap, ca, tr, mu, up, exOrders,
                    exFills, poll, lastPoll>>
    BY <1>1 DEF CancelLookup, dbVars, memVars, sysVars, venueVars
  <2>2. canc' = [pc |-> "venue", trace |-> t]
    BY <1>1 DEF CancelLookup
  <2>3. ProcType'
    BY <2>1, <2>2 DEF ProcType, CancType
  <2>4. QED
    BY <2>1, <2>3, MemFrame, VenueFrame, PollFrame
<1>2. IdleCanc \in CancType /\ IdleCanc.pc = "idle"
    BY DEF IdleCanc, CancType
<1>3. CASE CancelVenue
  <2>1. UNCHANGED <<orders, rec, reported, openOrders, intentMap, ca, mu, up, poll, lastPoll>>
    BY <1>3 DEF CancelVenue, dbVars, memVars, sysVars
  <2>2. canc.trace \in Traces
    BY <1>3 DEF CancelVenue, ProcType
  <2>3. CASE Venue!ExCancel(rec[canc.trace].exch) /\ Transition("cancel", canc.trace, "cancelled")
             /\ canc' = [pc |-> "unregister", trace |-> canc.trace]
    <3>1. /\ tr' \in [Shared -> TrType]
          /\ \A b \in Shared : tr'[b].pc # "idle" => tr'[b].trace \in Traces
      BY <2>2, <2>3, TransitionTyped DEF Shared, Cancellers, OrderTerminal
    <3>2. ProcType'
      BY <2>1, <2>2, <2>3, <3>1 DEF ProcType, CancType
    <3>3. VenueType' /\ FillsGrow
      BY <2>3, VenueMoves
    <3>4. QED
      BY <2>1, <3>2, <3>3, MemFrame, PollFrame
  <2>4. CASE canc' = IdleCanc /\ UNCHANGED <<tr, venueVars>>
    <3>1. ProcType'
      BY <1>2, <2>1, <2>4 DEF ProcType
    <3>2. QED
      BY <2>1, <2>4, <3>1, MemFrame, VenueFrame, PollFrame DEF venueVars
  <2>5. QED
    BY <1>3, <2>3, <2>4 DEF CancelVenue
<1>4. CASE CancelUnregister
  <2>1. UNCHANGED <<orders, rec, reported, ca, mu, up, exOrders, exFills, poll, lastPoll>>
    BY <1>4 DEF CancelUnregister, dbVars, sysVars, venueVars
  <2>2. /\ tr' \in [Shared -> TrType]
        /\ \A b \in Shared : tr'[b].pc # "idle" => tr'[b].trace \in Traces
    BY <1>4, TransitionedTyped DEF CancelUnregister, Shared, Cancellers
  <2>3. canc' = [pc |-> "intent", trace |-> canc.trace] \/ canc' = IdleCanc
    BY <1>4 DEF CancelUnregister
  <2>4. canc.trace \in Traces
    BY <1>4 DEF CancelUnregister, ProcType
  <2>5. ProcType'
    BY <1>2, <2>1, <2>2, <2>3, <2>4 DEF ProcType, CancType
  <2>6. MemType'
    BY <1>4, <2>1 DEF CancelUnregister, Unregister, MemType
  <2>7. QED
    BY <2>1, <2>5, <2>6, VenueFrame, PollFrame
<1>5. CASE CancelIntent
  <2>1. UNCHANGED <<orders, rec, reported, openOrders, intentMap, ca, tr, mu, up, exOrders,
                    exFills, poll, lastPoll>> /\ canc' = IdleCanc
    BY <1>5 DEF CancelIntent, dbVars, memVars, sysVars, venueVars
  <2>2. ProcType'
    BY <1>2, <2>1 DEF ProcType
  <2>3. QED
    BY <2>1, <2>2, MemFrame, VenueFrame, PollFrame
<1>6. QED
    BY <1>1, <1>3, <1>4, <1>5 DEF CancelOrder

\* CancelAll.
LEMMA CancelAllTyped ==
    ASSUME ExecInv, EngineType, CancelAll
    PROVE  EngineType'
<1> USE DEF EngineType
<1>0. ca \in CaType /\ tr \in [Shared -> TrType]
    BY DEF ProcType
<1>1. CASE CaVenue
  <2>1. UNCHANGED <<orders, rec, reported, openOrders, intentMap, canc, tr, mu, up, poll, lastPoll>>
        /\ ca' = [ca EXCEPT !.pc = "lock"] /\ ca.pc = "idle"
    BY <1>1 DEF CaVenue, dbVars, memVars, sysVars
  <2>2. ProcType'
    BY <1>0, <2>1 DEF ProcType, CaType
  <2>3. VenueType' /\ FillsGrow
    BY <1>1, VenueMoves, VenueFrame DEF CaVenue, venueVars
  <2>4. QED
    BY <2>1, <2>2, <2>3, MemFrame, PollFrame
<1>2. CASE CaLock
  <2>1. UNCHANGED <<orders, rec, reported, openOrders, intentMap, canc, tr, up, poll, lastPoll,
                    exOrders, exFills>>
        /\ ca' = [ca EXCEPT !.pc = "loop"] /\ mu' = "cancelall"
    BY <1>2 DEF CaLock, dbVars, memVars, venueVars
  <2>2. ProcType'
    BY <1>0, <2>1 DEF ProcType, CaType
  <2>3. QED
    BY <2>1, <2>2, MemFrame, VenueFrame, PollFrame
<1>3. ASSUME NEW t \in Traces, CaLoop(t)
      PROVE  EngineType'
  <2>1. UNCHANGED <<orders, rec, reported, openOrders, intentMap, canc, up, poll, lastPoll, mu,
                    exOrders, exFills>>
        /\ ca' = [pc |-> "intent", trace |-> t] /\ ca.pc = "loop"
    BY <1>3 DEF CaLoop, dbVars, memVars, venueVars, sysVars
  <2>2. /\ tr' \in [Shared -> TrType]
        /\ \A b \in Shared : tr'[b].pc # "idle" => tr'[b].trace \in Traces
    BY <1>3, TransitionTyped DEF CaLoop, Shared, Cancellers, OrderTerminal
  <2>3. ProcType'
    BY <1>0, <2>1, <2>2 DEF ProcType, CaType
  <2>4. QED
    BY <2>1, <2>3, MemFrame, VenueFrame, PollFrame
<1>4. CASE CaIntent
  <2>1. UNCHANGED <<orders, rec, reported, canc, up, poll, lastPoll, mu, exOrders, exFills>>
        /\ ca' = [IdleCa EXCEPT !.pc = "loop"] /\ ca.pc = "intent"
    BY <1>4 DEF CaIntent, dbVars, venueVars, sysVars
  <2>2. /\ tr' \in [Shared -> TrType]
        /\ \A b \in Shared : tr'[b].pc # "idle" => tr'[b].trace \in Traces
    BY <1>4, TransitionedTyped DEF CaIntent, Shared, Cancellers
  <2>3. ProcType'
    BY <1>0, <2>1, <2>2 DEF ProcType, CaType, IdleCa
  <2>4. MemType'
    BY <1>4, <2>1 DEF CaIntent, Unregister, MemType
  <2>5. QED
    BY <2>1, <2>3, <2>4, VenueFrame, PollFrame
<1>5. CASE CaUnlock
  <2>1. UNCHANGED <<orders, rec, reported, openOrders, intentMap, canc, tr, up, poll, lastPoll,
                    exOrders, exFills>>
        /\ ca' = IdleCa /\ mu' = "free"
    BY <1>5 DEF CaUnlock, dbVars, memVars, venueVars
  <2>2. ProcType'
    BY <1>0, <2>1 DEF ProcType, CaType, IdleCa
  <2>3. QED
    BY <2>1, <2>2, MemFrame, VenueFrame, PollFrame
<1>6. QED
    BY <1>1, <1>2, <1>3, <1>4, <1>5 DEF CancelAll

\* The poller.
LEMMA PollTyped ==
    ASSUME ExecInv, EngineType, Poll
    PROVE  EngineType'
<1> USE DEF EngineType
<1>0. /\ Len(exFills) \in Nat /\ poll \in PollType /\ lastPoll \in 0..Len(exFills)
      /\ \A f \in 1..Len(exFills) : exFills[f].qty \in Nat
  <2>1. exFills \in Seq(VenueFill)
    BY DEF VenueType
  <2>2. Len(exFills) \in Nat /\ \A f \in 1..Len(exFills) : exFills[f] \in VenueFill
    BY <2>1
  <2>3. QED
    BY <2>2 DEF PollInv, VenueFill
<1>1. CASE PollStart \/ PollFetch \/ PollError \/ PollDone
  <2>1. UNCHANGED <<orders, rec, reported, openOrders, intentMap, canc, ca, tr, mu, up, exOrders,
                    exFills>>
    BY <1>1 DEF PollStart, PollFetch, PollError, PollDone, dbVars, memVars, sysVars, venueVars
  <2>2. ASSUME PollStart PROVE PollInv'
    BY <1>0, <2>1, <2>2 DEF PollStart, PollInv, PollType, Processing
  <2>3. ASSUME PollFetch PROVE PollInv'
    <3>0. lastPoll + 1 \in Int /\ Len(exFills) \in Int
      BY <1>0
    <3>1. Cardinality((lastPoll + 1)..Len(exFills)) = Len(exFills) - lastPoll
      <4>1. \A i, j \in Int : Cardinality(i..j) = IF i > j THEN 0 ELSE j - i + 1
        BY FS_Interval
      <4>2. Cardinality((lastPoll + 1)..Len(exFills))
              = IF lastPoll + 1 > Len(exFills) THEN 0 ELSE Len(exFills) - (lastPoll + 1) + 1
        BY <3>0, <4>1
      <4>3. QED
        BY <1>0, <4>2
    <3>2. /\ poll' = [pc |-> "fill", start |-> poll.start, next |-> lastPoll + 1,
                      last |-> Len(exFills), trace |-> NoTrace]
          /\ UNCHANGED lastPoll
      BY <1>0, <2>3, <3>1 DEF PollFetch, Venue!ExPoll
    <3>3. PollInv'
      BY <1>0, <2>1, <3>2 DEF PollInv, PollType, Processing
    <3>4. QED
      BY <3>3
  <2>4. ASSUME PollError PROVE PollInv'
    BY <1>0, <2>1, <2>4 DEF PollError, PollInv, PollType, Processing, IdlePoll
  <2>5. ASSUME PollDone PROVE PollInv'
    BY <1>0, <2>1, <2>5 DEF PollDone, AdvanceTo, PollInv, PollType, Processing, IdlePoll
  <2>6. PollInv'
    BY <1>1, <2>2, <2>3, <2>4, <2>5
  <2>7. QED
    BY <2>1, <2>6, MemFrame, ProcFrame, VenueFrame
<1>2. ASSUME UNCHANGED <<exFills, lastPoll>>,
             \/ /\ poll.pc \in Processing
                /\ \E pc \in {"persist", "apply", "unregister", "intent", "report"} :
                      PollGoto(pc, poll.trace)
             \/ /\ poll.pc \in Processing \cup {"fill"} /\ NextFill
             \/ /\ poll.pc = "fill" /\ poll.next <= poll.last
                /\ \E t \in Traces : PollGoto("persist", t)
      PROVE  PollInv'
    BY <1>0, <1>2 DEF PollGoto, NextFill, PollInv, PollType, Processing
<1>3. CASE PollLookup
  <2>1. UNCHANGED <<orders, rec, reported, openOrders, intentMap, canc, ca, tr, mu, up, exOrders,
                    exFills, lastPoll>>
    BY <1>3 DEF PollLookup, dbVars, memVars, sysVars, venueVars
  <2>2. openOrders \subseteq Traces
    BY DEF ExecInv, RegInv, PersistedRows
  <2>3. PollInv'
    BY <1>2, <1>3, <2>1, <2>2 DEF PollLookup
  <2>4. QED
    BY <2>1, <2>3, MemFrame, ProcFrame, VenueFrame
<1>4. CASE PollPersist \/ PollIntent
  <2>1. UNCHANGED <<orders, rec, reported, openOrders, intentMap, canc, ca, tr, mu, up, exOrders,
                    exFills, lastPoll>>
    BY <1>4 DEF PollPersist, PollIntent, dbVars, memVars, sysVars, venueVars
  <2>2. PollInv'
    BY <1>2, <1>4, <2>1 DEF PollPersist, PollIntent, Processing
  <2>3. QED
    BY <2>1, <2>2, MemFrame, ProcFrame, VenueFrame
<1>5. CASE PollApply
  <2> DEFINE total == rec[poll.trace].filled + PollFill.qty
             to == IF total >= Quantity[poll.trace] THEN "filled" ELSE "partially_filled"
  <2>1. UNCHANGED <<orders, reported, openOrders, intentMap, canc, ca, mu, up, exOrders, exFills,
                    lastPoll>>
    BY <1>5 DEF PollApply, dbVars, sysVars, venueVars
  <2>2. PollInv'
    BY <1>2, <1>5, <2>1 DEF PollApply, Processing
  <2>3. poll.trace \in Traces /\ poll.next \in 1..Len(exFills)
    BY <1>0, <1>5 DEF PollApply, PollInv, PollType, Processing
  <2>4. total \in Nat
    BY <1>0, <2>3 DEF PollFill, MemType, Record
  <2>5. rec' = [rec EXCEPT ![poll.trace].filled = total] /\ Transition("poll", poll.trace, to)
    BY <1>5 DEF PollApply
  <2>6. to \in OrderLive \cup OrderTerminal
    BY DEF OrderLive, OrderTerminal
  <2> HIDE DEF total, to
  <2>7. [rec[poll.trace] EXCEPT !.filled = total] \in Record
    BY <2>3, <2>4 DEF MemType, Record
  <2>8. MemType'
    BY <2>1, <2>3, <2>5, <2>7 DEF MemType
  <2>9. /\ tr' \in [Shared -> TrType]
        /\ \A b \in Shared : tr'[b].pc # "idle" => tr'[b].trace \in Traces
    BY <2>3, <2>5, <2>6, TransitionTyped DEF Shared
  <2>10. ProcType'
    BY <2>1, <2>9 DEF ProcType
  <2>11. QED
    BY <2>1, <2>2, <2>8, <2>10, VenueFrame
<1>6. CASE PollUnregister
  <2>1. UNCHANGED <<orders, rec, reported, canc, ca, mu, up, exOrders, exFills, lastPoll>>
    BY <1>6 DEF PollUnregister, dbVars, sysVars, venueVars
  <2>2. PollInv'
    BY <1>2, <1>6, <2>1 DEF PollUnregister, Processing
  <2>3. MemType'
    BY <1>6, <2>1 DEF PollUnregister, Unregister, MemType
  <2>4. /\ tr' \in [Shared -> TrType]
        /\ \A b \in Shared : tr'[b].pc # "idle" => tr'[b].trace \in Traces
    BY <1>6, TransitionedTyped DEF PollUnregister, Shared
  <2>5. ProcType'
    BY <2>1, <2>4 DEF ProcType
  <2>6. QED
    BY <2>1, <2>2, <2>3, <2>5, VenueFrame
<1>7. CASE PollReport
  <2>1. UNCHANGED <<orders, rec, openOrders, intentMap, canc, ca, tr, mu, up, exOrders, exFills,
                    lastPoll>>
    BY <1>7 DEF PollReport, memVars, sysVars, venueVars
  <2>2. PollInv'
    BY <1>2, <1>7, <2>1 DEF PollReport, Processing
  <2>3. poll.trace \in Traces /\ PollFill.qty \in Nat
    BY <1>0, <1>7 DEF PollReport, PollInv, PollType, Processing, PollFill
  <2>4. MemType'
    BY <1>7, <2>1, <2>3 DEF PollReport, MemType
  <2>5. QED
    BY <2>1, <2>2, <2>4, ProcFrame, VenueFrame
<1>8. QED
    BY <1>1, <1>3, <1>4, <1>5, <1>6, <1>7 DEF Poll

\* The mode, the venue's fills, a crash and a recovery.
LEMMA ProcessTyped ==
    ASSUME ExecInv, EngineType,
           (\E m \in Modes : SetSystemMode(m)) \/ ExchangeStep \/ Crash \/ RecoverFull
    PROVE  EngineType'
<1> USE DEF EngineType
<1>0. IdleCanc \in CancType /\ IdleCa \in CaType /\ IdleTr \in TrType /\ NoRecord \in Record
    BY DEF IdleCanc, CancType, IdleCa, CaType, IdleTr, TrType, NoRecord, Record, NullId
<1>1. CASE \E m \in Modes : SetSystemMode(m)
    BY <1>1, MemFrame, ProcFrame, VenueFrame, PollFrame
    DEF SetSystemMode, dbVars, memVars, procVars, venueVars
<1>2. CASE ExchangeStep
  <2>1. UNCHANGED <<orders, rec, reported, openOrders, intentMap, canc, ca, tr, mu, up, poll,
                    lastPoll>>
    BY <1>2 DEF ExchangeStep, dbVars, memVars, procVars, sysVars
  <2>2. VenueType' /\ FillsGrow
    BY <1>2, VenueMoves DEF ExchangeStep
  <2>3. QED
    BY <2>1, <2>2, MemFrame, ProcFrame, PollFrame
<1>3. CASE Crash
  <2>1. /\ UNCHANGED <<orders, reported>> /\ rec' = [t \in Traces |-> NoRecord]
        /\ openOrders' = {} /\ intentMap' = {} /\ canc' = IdleCanc /\ ca' = IdleCa
        /\ tr' = [a \in Shared |-> IdleTr] /\ mu' = "free" /\ up' = FALSE
        /\ exOrders' = << >> /\ exFills' = << >> /\ poll' = IdlePoll /\ lastPoll' = 0
    BY <1>3 DEF Crash, dbVars
  <2>2. MemType'
    BY <1>0, <2>1 DEF MemType
  <2>3. ProcType'
    BY <1>0, <2>1 DEF ProcType, IdleCanc, IdleCa, IdleTr
  <2>4. VenueType'
    BY <2>1 DEF VenueType
  <2>5. PollInv'
    BY <2>1 DEF PollInv, PollType, IdlePoll, Processing
  <2>6. QED
    BY <2>2, <2>3, <2>4, <2>5
<1>4. CASE RecoverFull
  <2>1. UNCHANGED <<orders, reported, canc, ca, tr, mu, exOrders, exFills, poll, lastPoll>>
        /\ up' = TRUE
    BY <1>4 DEF RecoverFull, dbVars, procVars, venueVars
  <2>2. rec' \in [Traces -> Record]
    BY <1>0, <1>4 DEF RecoverFull, MemType
  <2>3. intentMap' \subseteq openOrders'
    BY <1>4 DEF RecoverFull
  <2>4. MemType'
    BY <2>1, <2>2, <2>3 DEF MemType
  <2>5. ProcType'
    BY <2>1 DEF ProcType
  <2>6. QED
    BY <2>1, <2>4, <2>5, VenueFrame, PollFrame
<1>5. QED
    BY <1>1, <1>2, <1>3, <1>4

\* The types hold of an engine that starts on empty tables.
LEMMA EngineTypeInit == Init => EngineType
<1> SUFFICES ASSUME Init PROVE EngineType
    OBVIOUS
<1>0. IdleCanc \in CancType /\ IdleCa \in CaType /\ IdleTr \in TrType /\ NoRecord \in Record
    BY DEF IdleCanc, CancType, IdleCa, CaType, IdleTr, TrType, NoRecord, Record, NullId
<1>1. MemType
    BY <1>0 DEF Init, MemType
<1>2. ProcType
    BY <1>0 DEF Init, ProcType, IdleCanc, IdleCa, IdleTr
<1>3. VenueType
    BY DEF Init, Venue!ExInit, VenueType
<1>4. PollInv
    BY DEF Init, Venue!ExInit, PollInv, PollType, IdlePoll, Processing
<1>5. QED
    BY <1>1, <1>2, <1>3, <1>4 DEF EngineType

\* Every step keeps them.
LEMMA EngineTypeStep == ExecInv /\ EngineType /\ [Next]_vars => EngineType'
<1> SUFFICES ASSUME ExecInv, EngineType, [Next]_vars PROVE EngineType'
    OBVIOUS
<1>1. CASE UNCHANGED vars
    BY <1>1, MemFrame, ProcFrame, VenueFrame, PollFrame
    DEF EngineType, vars, dbVars, memVars, procVars, sysVars, venueVars
<1>2. QED
    BY <1>1, SubmitTyped, TransTyped, CancelTyped, CancelAllTyped, PollTyped, ProcessTyped DEF Next

\* Type correctness of the engine, whatever fails, crashes or runs concurrently:
\* the tables, the records, the lock and the poller's position in the fills.
THEOREM EngineTypeCorrect == Spec => []TypeOK
<1>1. ExecInv /\ EngineType => TypeOK
  <2> SUFFICES ASSUME ExecInv, EngineType PROVE TypeOK
    OBVIOUS
  <2>1. LedgerTypeOK
    BY DEF ExecInv, LedgerInv
  <2>2. \A c \in Clients : sub[c].pc \in SubPc /\ (sub[c].pc = "append" <=> app[c].pc # "idle")
    BY DEF ExecInv, SubInv, SubType
  <2>3. openOrders \subseteq Traces
    BY DEF ExecInv, RegInv, PersistedRows
  <2>4. \A a \in Shared : tr[a].pc \in {"idle", "check", "set", "write", "done"}
    BY DEF EngineType, ProcType, TrType
  <2>5. up \in BOOLEAN
    BY DEF EngineType, ProcType
  <2>6. QED
    BY <2>1, <2>2, <2>3, <2>4, <2>5 DEF EngineType, MemType, ProcType, PollInv, TypeOK
<1>2. QED
    BY <1>1, ExecInvInit, ExecInvStep, EngineTypeInit, EngineTypeStep, PTL DEF Spec

-----------------------------------------------------------------------------
\* Orders, records and who may touch them

\* A goroutine other than the submitter can reach the order of t.
Held(t) ==
    \/ t \in openOrders
    \/ canc.pc # "idle" /\ canc.trace = t
    \/ ca.pc = "intent" /\ ca.trace = t
    \/ poll.pc \in Processing /\ poll.trace = t
    \/ \E a \in Shared : tr[a].pc # "idle" /\ tr[a].trace = t

\* A stopped process runs nothing, and its exchange is gone with it.
Stopped ==
    ~up => /\ \A c \in Clients : sub[c].pc = "idle"
           /\ canc.pc = "idle" /\ ca.pc = "idle" /\ poll.pc = "idle"
           /\ \A a \in Shared : tr[a].pc = "idle"
           /\ exOrders = << >>

\* Whoever stands at the venue with a trace is alone with it.
AloneAtVenue ==
    /\ \A t \in Traces : Held(t) => t \in PersistedRows
    /\ \A c \in Clients : sub[c].pc \in AtVenue => ~Held(sub[c].trace)
    /\ \A c, d \in Clients :
          sub[c].pc \in AtVenue /\ sub[d].pc \in AtVenue /\ sub[c].trace = sub[d].trace => c = d

\* The record names the venue's order, except while the submitter still has the
\* venue's answer in its hand.
Linked ==
    \A e \in 1..Len(exOrders) :
        /\ \A c \in Clients : sub[c].pc = "venue" => sub[c].trace # exOrders[e].req
        /\ \A c \in Clients : sub[c].pc = "transition" /\ sub[c].trace = exOrders[e].req
                                 => sub[c].exch = e
        /\ \/ rec[exOrders[e].req].exch = e
           \/ \E c \in Clients : sub[c].pc = "transition" /\ sub[c].trace = exOrders[e].req

LinkInv == Stopped /\ AloneAtVenue /\ Linked

\* What CancelOrder leaves behind once the venue has confirmed it.
NoCancelAll == ca.pc = "idle" /\ tr["cancelall"].pc = "idle"

Dead(t) == \A e \in 1..Len(exOrders) : exOrders[e].req = t => exOrders[e].status = "cancelled"

DeadInv ==
    /\ NoCancelAll
    /\ tr["cancel"].pc # "idle" => tr["cancel"].trace = canc.trace /\ canc.pc = "unregister"
    /\ canc.pc = "unregister" => Dead(canc.trace)
    /\ tr["poll"].pc # "idle" => tr["poll"].to # "cancelled"
    /\ \A a \in Shared : tr[a].pc = "write" => tr[a].row.status = tr[a].to
    /\ \A c \in Clients : sub[c].pc = "venue" => orders[sub[c].trace].status # "cancelled"
    /\ \A t \in Traces : orders[t].status = "cancelled" => Dead(t)

\* The orders nothing has filled yet, and who is about to end an intent.
NotOpen(t) == \A e \in 1..Len(exOrders) : exOrders[e].req = t => exOrders[e].status # "open"

OpenInv ==
    /\ NoCancelAll
    /\ \A e \in 1..Len(exOrders) : exOrders[e].status = "open" => exOrders[e].req \in Outstanding
    /\ Rows \ PersistedRows \subseteq Outstanding
    /\ \A c \in Clients :
          /\ sub[c].pc = "venue" => sub[c].trace \in Outstanding
          /\ sub[c].pc \in {"transition", "intent"} /\ sub[c].ack # "open"
                => NotOpen(sub[c].trace)
    /\ canc.pc \in {"unregister", "intent"} => NotOpen(canc.trace)
    /\ poll.pc \in Processing => NotOpen(poll.trace)
    /\ \A f \in 1..Len(exFills) : exOrders[exFills[f].order].status # "open"

\* While the exchange lives as long as the engine, a record names an order of
\* its own trace.
Names(t, e) == e \in 1..Len(exOrders) /\ exOrders[e].req = t

SubNamed ==
    \A c \in Clients :
        /\ sub[c].pc \in {"transition", "intent", "register"} /\ sub[c].ack = "open"
              => Names(sub[c].trace, sub[c].exch)
        /\ sub[c].pc \in {"intent", "register"} => rec[sub[c].trace].exch = sub[c].exch
        /\ sub[c].pc = "register" => sub[c].ack = "open"
OpenNamed == \A t \in openOrders : Names(t, rec[t].exch)
PollNamed == poll.pc = "persist" => Names(poll.trace, exFills[poll.next].order)

AddressInv ==
    /\ crashes = 0 /\ up
    /\ fillRows \in Seq([trace : Traces, fill : Nat])
    /\ SubNamed /\ OpenNamed /\ PollNamed

-----------------------------------------------------------------------------
\* The link between records and venue orders

\* Submitters at the venue or with its answer do not move, and nobody gets there.
SubKept ==
    /\ \A c \in Clients : sub'[c].pc \in AtVenue
                             => sub[c].pc \in AtVenue /\ sub'[c].trace = sub[c].trace
    /\ \A c \in Clients : sub'[c].pc \in {"venue", "transition"} => sub'[c] = sub[c]
    /\ \A c \in Clients : sub[c].pc \in {"venue", "transition"} => sub'[c] = sub[c]

\* A step of a running engine that touches no submitter at the venue and no
\* exchange id of a record, and reaches no order it could not reach before.
LEMMA LinkFrame ==
    ASSUME ExecInv, EngineType, LinkInv, up', SubKept, \A t \in Traces : Held(t)' => Held(t),
           PersistedRows \subseteq PersistedRows', Evolves,
           \A t \in Traces : rec'[t].exch = rec[t].exch
    PROVE  LinkInv'
<1>1. Stopped'
    BY DEF Stopped
<1>2. AloneAtVenue'
  <2>1. \A c \in Clients : sub[c].pc \in AtVenue => sub[c].trace \in Traces
    BY DEF ExecInv, SubInv, PersistedRows
  <2>2. \A t \in Traces : Held(t)' => t \in PersistedRows'
    BY DEF LinkInv, AloneAtVenue
  <2>3. \A c \in Clients : sub'[c].pc \in AtVenue => ~Held(sub[c].trace)'
    BY <2>1 DEF LinkInv, AloneAtVenue, SubKept
  <2>4. QED
    BY <2>2, <2>3 DEF LinkInv, AloneAtVenue, SubKept
<1>3. Linked'
  <2>1. \A e \in 1..Len(exOrders) : exOrders'[e].req = exOrders[e].req /\ exOrders[e].req \in Traces
    BY DEF Evolves, ExecInv, VenInv, PersistedRows
  <2>2. Len(exOrders') = Len(exOrders)
    BY DEF Evolves
  <2>3. QED
    BY <2>1, <2>2 DEF LinkInv, Linked, SubKept
<1>4. QED
    BY <1>1, <1>2, <1>3 DEF LinkInv

\* Nothing but a recovery happens while the process is down.
LEMMA RunsOnlyUp ==
    ASSUME ExecInv, LinkInv, Next, ~RecoverFull
    PROVE  up
<1> SUFFICES ASSUME ~up PROVE FALSE
    OBVIOUS
<1>1. /\ \A c \in Clients : sub[c].pc = "idle" /\ app[c].pc = "idle"
      /\ canc.pc = "idle" /\ ca.pc = "idle" /\ poll.pc = "idle"
      /\ \A a \in Shared : tr[a].pc = "idle"
    BY DEF LinkInv, Stopped, ExecInv, SubInv
<1>2. \A c \in Clients : ~SubmitOrder(c)
    BY <1>1 DEF SubmitOrder, SubmitGate, SubmitAppend, AppendLookup, AppendCompute, AppendDraw,
                AppendInsert, AppendDbError, SubmitAppended, SubmitPersist, SubmitVenue,
                SubmitTransition, SubmitIntent, SubmitRegister
<1>3. \A a \in Shared : ~transitionOrder(a)
    BY <1>1 DEF transitionOrder, TransCheck, TransSet, TransWrite
<1>4. ~CancelOrder /\ ~CancelAll
    BY <1>1 DEF CancelOrder, CancelLookup, CancelVenue, CancelUnregister, CancelIntent,
                CancelAll, CaVenue, CaLock, CaLoop, CaIntent, CaUnlock
<1>5. ~Poll
    BY <1>1 DEF Poll, PollStart, PollFetch, PollError, PollDone, PollLookup, PollPersist,
                PollApply, PollUnregister, PollIntent, PollReport
<1>6. ~Crash /\ ~ExchangeStep /\ \A m \in Modes : ~SetSystemMode(m)
    BY DEF Crash, ExchangeStep, SetSystemMode
<1>7. QED
    BY <1>2, <1>3, <1>4, <1>5, <1>6 DEF Next

\* SubmitOrder: the row's INSERT makes the submitter the only one with the
\* trace, and the venue's order gets into the record before anybody else can
\* reach it.
LEMMA SubmitLinked ==
    ASSUME ExecInv, EngineType, LinkInv, ExecInv', EngineType', up, NEW c \in Clients,
           SubmitOrder(c)
    PROVE  LinkInv'
<1>0. /\ up' /\ UNCHANGED <<canc, ca, poll, tr>>
      /\ sub \in [Clients -> SubType]
      /\ rec \in [Traces -> Record]
    BY DEF SubmitOrder, SubmitGate, SubmitAppend, SubmitAppended, SubmitPersist, SubmitVenue,
           SubmitTransition, SubmitIntent, SubmitRegister, sysVars, procVars, ExecInv, SubInv,
           EngineType, MemType
<1>1. UNCHANGED openOrders => \A t \in Traces : Held(t)' <=> Held(t)
    BY <1>0 DEF Held
<1>2. CASE \/ \E t \in Traces : SubmitGate(c, t)
           \/ SubmitAppend(c) \/ SubmitAppended(c) \/ SubmitIntent(c)
  <2>1. UNCHANGED <<openOrders, rec, orders, exOrders>>
    BY <1>2 DEF SubmitGate, SubmitAppend, SubmitAppended, SubmitIntent, dbVars, memVars, venueVars
  <2>2. SubKept
    BY <1>0, <1>2 DEF SubKept, SubmitGate, SubmitAppend, SubmitAppended, SubmitIntent, SubGoto,
                      SubAcked, SubReturn, IdleSub, procVars, AtVenue
  <2>3. PersistedRows' = PersistedRows /\ Evolves
    BY <2>1 DEF PersistedRows, Evolves
  <2>4. QED
    BY <1>0, <1>1, <2>1, <2>2, <2>3, LinkFrame
<1>3. CASE SubmitPersist(c) /\ SubReturn(c) /\ UNCHANGED rec
  <2>1. UNCHANGED <<openOrders, rec, exOrders>>
    BY <1>3 DEF SubmitPersist, venueVars
  <2>2. SubKept
    BY <1>0, <1>3 DEF SubKept, SubmitPersist, SubReturn, IdleSub, AtVenue
  <2>3. PersistedRows \subseteq PersistedRows' /\ Evolves
    <3>1. CASE UNCHANGED orders
      BY <2>1, <3>1 DEF PersistedRows, Evolves
    <3>2. CASE orders' = [orders EXCEPT ![sub[c].trace] = NewRecord]
      BY <2>1, <3>2 DEF PersistedRows, Evolves, NewRecord, EngineType, MemType
    <3>3. QED
      BY <1>3, <3>1, <3>2 DEF SubmitPersist
  <2>4. QED
    BY <1>0, <1>1, <2>1, <2>2, <2>3, LinkFrame
<1>4. CASE SubmitPersist(c) /\ ~SubReturn(c)
  <2> DEFINE t == sub[c].trace
  <2>1. /\ UNCHANGED <<openOrders, exOrders>> /\ sub[c].pc = "persist" /\ t \notin PersistedRows
        /\ SubGoto(c, "venue") /\ rec' = [rec EXCEPT ![t] = NewRecord]
        /\ orders' = [orders EXCEPT ![t] = NewRecord]
    BY <1>4 DEF SubmitPersist, venueVars, KeyUnused
  <2>2. t \in Traces /\ PersistedRows' = PersistedRows \cup {t}
    <3>1. t \in Traces
      BY <2>1 DEF ExecInv, SubInv, Appended, Rows
    <3>2. QED
      BY <2>1, <3>1 DEF PersistedRows, NewRecord, EngineType, MemType
  <2>3. /\ sub'[c].pc = "venue" /\ sub'[c].trace = t
        /\ \A d \in Clients : d # c => sub'[d] = sub[d]
    BY <1>0, <2>1 DEF SubGoto, SubAcked
  <2>4. \A d \in Clients : sub[d].pc \in AtVenue => sub[d].trace # t
    BY <2>1 DEF ExecInv, SubInv
  <2>5. AloneAtVenue'
    <3>1. \A u \in Traces : Held(u)' <=> Held(u)
      BY <1>1, <2>1
    <3>2. \A u \in Traces : Held(u)' => u \in PersistedRows'
      BY <2>2, <3>1 DEF LinkInv, AloneAtVenue
    <3>3. \A d \in Clients : sub'[d].pc \in AtVenue => ~Held(sub[d].trace)'
      <4>1. \A d \in Clients : sub'[d].trace \in Traces /\ sub'[d].pc \in AtVenue
               => ~Held(sub'[d].trace)
        BY <2>1, <2>2, <2>3 DEF LinkInv, AloneAtVenue
      <4>2. \A d \in Clients : sub'[d].pc \in AtVenue => sub'[d].trace \in Traces
        BY DEF ExecInv, SubInv, PersistedRows
      <4>3. QED
        BY <3>1, <4>1, <4>2
    <3>4. \A d1, d2 \in Clients : sub'[d1].pc \in AtVenue /\ sub'[d2].pc \in AtVenue
             /\ sub'[d1].trace = sub'[d2].trace => d1 = d2
      BY <2>3, <2>4 DEF LinkInv, AloneAtVenue
    <3>5. QED
      BY <3>2, <3>3, <3>4 DEF AloneAtVenue
  <2>6. Linked'
    <3>1. \A e \in 1..Len(exOrders) :
             exOrders[e].req # t /\ rec'[exOrders[e].req].exch = rec[exOrders[e].req].exch
      BY <2>1, <2>2, <1>0 DEF ExecInv, VenInv
    <3>2. QED
      BY <2>1, <2>3, <3>1 DEF LinkInv, Linked
  <2>7. QED
    BY <1>0, <2>5, <2>6 DEF LinkInv, Stopped
<1>5. ASSUME NEW d \in Clients, NEW pc \in {"transition", "intent"},
             UNCHANGED <<openOrders, orders>>, sub[d].pc \in AtVenue,
             sub'[d].pc = pc, sub'[d].trace = sub[d].trace,
             \A x \in Clients : x # d => sub'[x] = sub[x]
      PROVE  AloneAtVenue'
  <2>1. \A u \in Traces : (Held(u)' <=> Held(u)) /\ PersistedRows' = PersistedRows
    BY <1>1, <1>5 DEF PersistedRows
  <2>2. \A x \in Clients : /\ sub'[x].pc \in AtVenue => sub[x].pc \in AtVenue
                           /\ sub'[x].trace = sub[x].trace
                           /\ sub'[x].pc \in AtVenue => sub'[x].trace \in Traces
    BY <1>5 DEF ExecInv, SubInv, PersistedRows
  <2>3. QED
    BY <2>1, <2>2 DEF LinkInv, AloneAtVenue
<1>6. CASE SubmitVenue(c)
  <2> DEFINE t == sub[c].trace
  <2>1. /\ UNCHANGED <<openOrders, orders, rec>> /\ sub[c].pc = "venue"
        /\ \E id \in {Len(exOrders) + 1, NullId} : \E ack : SubAcked(c, "transition", ack, id)
    BY <1>6 DEF SubmitVenue, memVars
  <2>2. /\ sub'[c].pc = "transition" /\ sub'[c].trace = t
        /\ \A d \in Clients : d # c => sub'[d] = sub[d]
    BY <1>0, <2>1 DEF SubAcked
  <2>3. AloneAtVenue'
    BY <1>5, <2>1, <2>2 DEF AtVenue
  <2>4. t \in Traces /\ \A d \in Clients : d # c /\ sub[d].pc \in AtVenue => sub[d].trace # t
    BY <2>1 DEF ExecInv, SubInv, PersistedRows, LinkInv, AloneAtVenue, AtVenue
  <2>5. Linked'
    <3>1. CASE UNCHANGED exOrders
      BY <2>1, <2>2, <3>1 DEF LinkInv, Linked
    <3>2. ASSUME NEW ack \in {"open", "rejected"}, Venue!ExSubmit(t, ack),
                 SubAcked(c, "transition", ack, Len(exOrders) + 1)
          PROVE  Linked'
      <4>1. /\ Len(exOrders') = Len(exOrders) + 1
            /\ \A e \in 1..Len(exOrders) : exOrders'[e] = exOrders[e]
            /\ exOrders'[Len(exOrders) + 1].req = t
            /\ Len(exOrders) \in Nat
        BY <2>4, <3>2, VenueAdds DEF EngineType, VenueType
      <4>2. sub'[c].exch = Len(exOrders) + 1
        BY <1>0, <3>2 DEF SubAcked
      <4>3. ASSUME NEW e \in 1..Len(exOrders')
            PROVE  /\ \A d \in Clients : sub'[d].pc = "venue" => sub'[d].trace # exOrders'[e].req
                   /\ \A d \in Clients : sub'[d].pc = "transition" /\ sub'[d].trace = exOrders'[e].req
                                            => sub'[d].exch = e
                   /\ \/ rec'[exOrders'[e].req].exch = e
                      \/ \E d \in Clients : sub'[d].pc = "transition"
                                              /\ sub'[d].trace = exOrders'[e].req
        <5>1. CASE e = Len(exOrders) + 1
          BY <2>1, <2>2, <2>4, <4>1, <4>2, <5>1 DEF AtVenue
        <5>2. CASE e \in 1..Len(exOrders)
          <6>1. exOrders'[e] = exOrders[e] /\ exOrders[e].req # t
            BY <2>1, <4>1, <5>2 DEF LinkInv, Linked
          <6>2. /\ \A d \in Clients : sub[d].pc = "venue" => sub[d].trace # exOrders[e].req
                /\ \A d \in Clients : sub[d].pc = "transition" /\ sub[d].trace = exOrders[e].req
                                         => sub[d].exch = e
                /\ \/ rec[exOrders[e].req].exch = e
                   \/ \E d \in Clients : sub[d].pc = "transition" /\ sub[d].trace = exOrders[e].req
            BY <5>2 DEF LinkInv, Linked
          <6>3. QED
            BY <2>1, <2>2, <6>1, <6>2
        <5>3. QED
          BY <4>1, <5>1, <5>2
      <4>4. QED
        BY <4>3 DEF Linked
    <3>3. QED
      BY <1>6, <3>1, <3>2 DEF SubmitVenue, venueVars
  <2>6. QED
    BY <1>0, <2>3, <2>5 DEF LinkInv, Stopped
<1>7. CASE SubmitTransition(c)
  <2> DEFINE t == sub[c].trace
             row == [status |-> sub[c].ack, filled |-> 0, exch |-> sub[c].exch]
  <2>1. /\ UNCHANGED <<openOrders, exOrders>> /\ sub[c].pc = "transition" /\ SubGoto(c, "intent")
        /\ rec' = [rec EXCEPT ![t] = row] /\ WriteRow(t, row)
    BY <1>7 DEF SubmitTransition, venueVars
  <2>2. t \in Traces /\ t \in PersistedRows /\ row.status # "none"
        /\ \A d \in Clients : d # c /\ sub[d].pc \in AtVenue => sub[d].trace # t
    BY <2>1 DEF ExecInv, SubInv, PersistedRows, LinkInv, AloneAtVenue, AtVenue
  <2>3. /\ sub'[c].pc = "intent" /\ sub'[c].trace = t
        /\ \A d \in Clients : d # c => sub'[d] = sub[d]
    BY <1>0, <2>1 DEF SubGoto, SubAcked
  <2>4. PersistedRows' = PersistedRows
    BY <2>1, <2>2, RowWrite DEF ExecInv, PlaceInv
  <2>5. rec'[t].exch = sub[c].exch /\ \A u \in Traces : u # t => rec'[u] = rec[u]
    BY <1>0, <2>1, <2>2
  <2> HIDE DEF row
  <2>6. AloneAtVenue'
    <3>1. \A u \in Traces : Held(u)' <=> Held(u)
      BY <1>1, <2>1
    <3>2. \A x \in Clients : /\ sub'[x].pc \in AtVenue => sub[x].pc \in AtVenue
                             /\ sub'[x].trace = sub[x].trace
                             /\ sub'[x].pc \in AtVenue => sub'[x].trace \in Traces
      BY <2>1, <2>3 DEF ExecInv, SubInv, PersistedRows, AtVenue
    <3>3. QED
      BY <2>4, <3>1, <3>2 DEF LinkInv, AloneAtVenue
  <2>7. Linked'
    <3>1. \A e \in 1..Len(exOrders) : exOrders[e].req \in Traces
      BY DEF ExecInv, VenInv, PersistedRows
    <3>2. \A d \in Clients : sub'[d].pc = "transition" => d # c /\ sub'[d] = sub[d]
      BY <2>3
    <3>3. ASSUME NEW e \in 1..Len(exOrders)
          PROVE  \/ rec'[exOrders[e].req].exch = e
                 \/ \E d \in Clients : sub'[d].pc = "transition" /\ sub'[d].trace = exOrders[e].req
      <4>1. CASE exOrders[e].req = t
        BY <2>1, <2>5, <4>1 DEF LinkInv, Linked
      <4>2. CASE exOrders[e].req # t
        BY <2>3, <2>5, <3>1, <4>2 DEF LinkInv, Linked
      <4>3. QED
        BY <4>1, <4>2
    <3>4. QED
      BY <2>1, <2>3, <3>2, <3>3 DEF LinkInv, Linked
  <2>8. QED
    BY <1>0, <2>6, <2>7 DEF LinkInv, Stopped
<1>8. CASE SubmitRegister(c)
  <2> DEFINE t == sub[c].trace
  <2>1. /\ UNCHANGED <<orders, rec, exOrders>> /\ sub[c].pc = "register" /\ SubReturn(c)
        /\ openOrders' = openOrders \cup {t}
    BY <1>8 DEF SubmitRegister, dbVars, venueVars
  <2>2. t \in Traces /\ t \in PersistedRows
        /\ \A d \in Clients : d # c /\ sub[d].pc \in AtVenue => sub[d].trace # t
    BY <2>1 DEF ExecInv, SubInv, PersistedRows, LinkInv, AloneAtVenue, AtVenue
  <2>3. sub'[c].pc = "idle" /\ \A d \in Clients : d # c => sub'[d] = sub[d]
    BY <1>0, <2>1 DEF SubReturn, IdleSub
  <2>4. AloneAtVenue'
    <3>1. \A u \in Traces : Held(u)' <=> Held(u) \/ u = t
      BY <1>0, <2>1 DEF Held
    <3>2. PersistedRows' = PersistedRows
      BY <2>1 DEF PersistedRows
    <3>3. \A x \in Clients : sub'[x].pc \in AtVenue
             => x # c /\ sub'[x] = sub[x] /\ sub[x].pc \in AtVenue /\ sub[x].trace \in Traces
      BY <2>3 DEF ExecInv, SubInv, PersistedRows, AtVenue
    <3>4. QED
      BY <2>2, <3>1, <3>2, <3>3 DEF LinkInv, AloneAtVenue
  <2>5. Linked'
    BY <2>1, <2>3 DEF LinkInv, Linked
  <2>6. QED
    BY <1>0, <2>4, <2>5 DEF LinkInv, Stopped
<1>9. QED
  <2>1. SubmitPersist(c) => (SubReturn(c) /\ UNCHANGED rec) \/ ~SubReturn(c)
    <3>1. ASSUME SubmitPersist(c), SubGoto(c, "venue") PROVE ~SubReturn(c)
      BY <1>0, <3>1 DEF SubGoto, SubAcked, SubReturn, IdleSub
    <3>2. QED
      BY <3>1 DEF SubmitPersist
  <2>2. QED
    BY <1>2, <1>3, <1>4, <1>6, <1>7, <1>8, <2>1 DEF SubmitOrder

\* The other goroutines only ever reach orders that were already reachable, and
\* leave the exchange ids of the records alone.
LEMMA BackgroundLinked ==
    ASSUME ExecInv, EngineType, LinkInv, ExecInv', EngineType', up,
           \/ \E a \in Shared : transitionOrder(a)
           \/ CancelOrder \/ CancelAll \/ Poll
           \/ \E m \in Modes : SetSystemMode(m)
           \/ ExchangeStep
    PROVE  LinkInv'
<1>0. /\ sub \in [Clients -> SubType] /\ rec \in [Traces -> Record] /\ tr \in [Shared -> TrType]
      /\ openOrders \subseteq Traces
      /\ \A a \in Shared : tr[a].pc # "idle" => tr[a].trace \in Traces
    BY DEF ExecInv, SubInv, EngineType, MemType, ProcType, RegInv, PersistedRows
<1>1. ASSUME up', UNCHANGED <<sub, rec, orders>>, Evolves, \A t \in Traces : Held(t)' => Held(t)
      PROVE  LinkInv'
  <2>1. SubKept /\ PersistedRows' = PersistedRows
    BY <1>1 DEF SubKept, PersistedRows
  <2>2. QED
    BY <1>1, <2>1, LinkFrame
<1>2. \A a \in Shared : Transitioned(a) =>
         \A b \in Shared : tr'[b].pc # "idle" => tr[b].pc # "idle" /\ tr'[b].trace = tr[b].trace
    BY <1>0 DEF Transitioned, IdleTr
<1>3. ASSUME NEW a \in Shared, transitionOrder(a)
      PROVE  LinkInv'
  <2>1. UNCHANGED <<sub, canc, ca, poll, openOrders, up, exOrders>> /\ tr[a].pc # "idle"
    BY <1>3 DEF transitionOrder, TransCheck, TransSet, TransWrite, sysVars, memVars, venueVars
  <2>2. \A b \in Shared : tr'[b].pc # "idle" => tr[b].pc # "idle" /\ tr'[b].trace = tr[b].trace
    <3>1. tr \in [Shared -> TrType]
      BY <1>0
    <3>2. CASE TransCheck(a)
      BY <2>1, <3>1, <3>2 DEF TransCheck, TransGoto
    <3>3. CASE TransSet(a)
      BY <2>1, <3>1, <3>3 DEF TransSet, TransGoto
    <3>4. CASE TransWrite(a)
      BY <2>1, <3>1, <3>4 DEF TransWrite, TransGoto
    <3>5. QED
      BY <1>3, <3>2, <3>3, <3>4 DEF transitionOrder
  <2>3. \A t \in Traces : Held(t)' => Held(t)
    BY <2>1, <2>2 DEF Held
  <2>4. \A t \in Traces : rec'[t].exch = rec[t].exch
    <3>1. tr[a].trace \in Traces
      BY <1>0, <2>1
    <3>2. CASE TransSet(a)
      BY <1>0, <3>1, <3>2 DEF TransSet
    <3>3. QED
      BY <1>3, <3>2 DEF transitionOrder, TransCheck, TransWrite, memVars
  <2>5. PersistedRows \subseteq PersistedRows'
    <3>1. CASE TransWrite(a)
      <4>1. tr[a].trace \in PersistedRows /\ tr[a].row.status # "none"
        BY <3>1 DEF TransWrite, ExecInv, RegInv, TrInv
      <4>2. QED
        BY <3>1, <4>1, RowWrite DEF TransWrite, ExecInv, PlaceInv
    <3>2. CASE UNCHANGED orders
      BY <3>2 DEF PersistedRows
    <3>3. QED
      BY <1>3, <3>1, <3>2 DEF transitionOrder, TransCheck, TransSet, dbVars
  <2>6. SubKept /\ Evolves
    BY <2>1 DEF SubKept, Evolves
  <2>7. QED
    BY <2>1, <2>3, <2>4, <2>5, <2>6, LinkFrame
<1>4. CASE CancelOrder
  <2>1. UNCHANGED <<sub, ca, poll, rec, orders, up>>
    BY <1>4 DEF CancelOrder, CancelLookup, CancelVenue, CancelUnregister, CancelIntent, memVars,
                dbVars, sysVars
  <2>2. Evolves
    <3>1. CASE UNCHANGED exOrders
      BY <3>1 DEF Evolves
    <3>2. QED
      BY <1>4, <3>1, VenueMoves DEF EngineType, CancelOrder, CancelLookup, CancelVenue,
         CancelUnregister, CancelIntent, venueVars
  <2>3. \A t \in Traces : Held(t)' => Held(t)
    <3>1. CASE \E t \in Traces : CancelLookup(t)
      BY <2>1, <3>1 DEF CancelLookup, Held, memVars
    <3>2. CASE CancelVenue
      <4>1. openOrders' = openOrders
        BY <3>2 DEF CancelVenue, memVars
      <4>2. CASE Transition("cancel", canc.trace, "cancelled")
                  /\ canc' = [pc |-> "unregister", trace |-> canc.trace]
        <5>1. \A b \in Shared : tr'[b] = tr[b] \/ tr'[b].trace = canc.trace
          BY <1>0, <4>2 DEF Transition
        <5>2. QED
          BY <2>1, <3>2, <4>1, <4>2, <5>1 DEF CancelVenue, Held
      <4>3. CASE canc' = IdleCanc /\ UNCHANGED tr
        BY <2>1, <4>1, <4>3 DEF Held, IdleCanc
      <4>4. QED
        BY <3>2, <4>2, <4>3 DEF CancelVenue
    <3>3. CASE CancelUnregister
      <4>1. \A b \in Shared : tr'[b].pc # "idle" => tr[b].pc # "idle" /\ tr'[b].trace = tr[b].trace
        BY <1>2, <3>3 DEF CancelUnregister, Shared, Cancellers
      <4>2. QED
        BY <2>1, <3>3, <4>1 DEF CancelUnregister, Unregister, Held, IdleCanc
    <3>4. CASE CancelIntent
      BY <2>1, <3>4 DEF CancelIntent, Held, IdleCanc, memVars
    <3>5. QED
      BY <1>4, <3>1, <3>2, <3>3, <3>4 DEF CancelOrder
  <2>4. QED
    BY <1>1, <2>1, <2>2, <2>3
<1>5. CASE CancelAll
  <2>1. UNCHANGED <<sub, canc, poll, rec, orders, up>>
    BY <1>5 DEF CancelAll, CaVenue, CaLock, CaLoop, CaIntent, CaUnlock, memVars, dbVars, sysVars
  <2>2. Evolves
    <3>1. CASE UNCHANGED exOrders
      BY <3>1 DEF Evolves
    <3>2. QED
      BY <1>5, <3>1, VenueMoves DEF EngineType, CancelAll, CaVenue, CaLock, CaLoop, CaIntent,
         CaUnlock, venueVars
  <2>3. \A t \in Traces : Held(t)' => Held(t)
    <3>0. ca \in CaType
      BY DEF EngineType, ProcType
    <3>1. CASE CaVenue \/ CaLock \/ CaUnlock
      BY <2>1, <3>0, <3>1 DEF CaVenue, CaLock, CaUnlock, Held, memVars, IdleCa, CaType
    <3>2. CASE \E t \in Traces : CaLoop(t)
      <4>1. PICK t \in openOrders : ca' = [pc |-> "intent", trace |-> t]
                                    /\ Transition("cancelall", t, "cancelled")
        BY <3>2 DEF CaLoop
      <4>2. \A b \in Shared : tr'[b] = tr[b] \/ tr'[b].trace = t
        BY <1>0, <4>1 DEF Transition
      <4>3. QED
        BY <2>1, <3>2, <4>1, <4>2 DEF CaLoop, Held, memVars
    <3>3. CASE CaIntent
      <4>1. \A b \in Shared : tr'[b].pc # "idle" => tr[b].pc # "idle" /\ tr'[b].trace = tr[b].trace
        BY <1>2, <3>3 DEF CaIntent, Shared, Cancellers
      <4>2. QED
        BY <2>1, <3>3, <4>1 DEF CaIntent, Unregister, Held, IdleCa
    <3>4. QED
      BY <1>5, <3>1, <3>2, <3>3 DEF CancelAll
  <2>4. QED
    BY <1>1, <2>1, <2>2, <2>3
<1>6. CASE Poll
  <2>1. UNCHANGED <<sub, canc, ca, orders, up, exOrders>>
    BY <1>6 DEF Poll, PollStart, PollFetch, PollError, PollDone, PollLookup, PollPersist,
                PollApply, PollUnregister, PollIntent, PollReport, dbVars, sysVars, venueVars
  <2>2. \A t \in Traces : rec'[t].exch = rec[t].exch
    <3>1. CASE PollApply
      BY <1>0, <3>1 DEF PollApply, EngineType, MemType, Record
    <3>2. CASE UNCHANGED rec
      BY <3>2
    <3>3. QED
      BY <1>6, <3>1, <3>2 DEF Poll, PollStart, PollFetch, PollError, PollDone, PollLookup,
         PollPersist, PollUnregister, PollIntent, PollReport, memVars
  <2>3. \A t \in Traces : Held(t)' => Held(t)
    <3>1. CASE PollStart \/ PollFetch \/ PollError \/ PollDone \/ PollReport
      BY <2>1, <3>1 DEF PollStart, PollFetch, PollError, PollDone, PollReport, NextFill, IdlePoll,
                        Held, memVars, Processing
    <3>2. CASE PollLookup
      BY <2>1, <3>2 DEF PollLookup, PollGoto, NextFill, Held, memVars, Processing
    <3>3. CASE PollPersist \/ PollIntent
      BY <2>1, <3>3 DEF PollPersist, PollIntent, PollGoto, NextFill, Held, memVars, Processing
    <3>4. CASE PollApply
      <4>1. \A b \in Shared : tr'[b] = tr[b] \/ tr'[b].trace = poll.trace
        BY <1>0, <3>4 DEF PollApply, Transition
      <4>2. QED
        BY <2>1, <3>4, <4>1 DEF PollApply, PollGoto, Held, Processing
    <3>5. CASE PollUnregister
      <4>1. \A b \in Shared : tr'[b].pc # "idle" => tr[b].pc # "idle" /\ tr'[b].trace = tr[b].trace
        BY <1>2, <3>5 DEF PollUnregister, Shared
      <4>2. QED
        BY <2>1, <3>5, <4>1 DEF PollUnregister, Unregister, PollGoto, Held, Processing
    <3>6. QED
      BY <1>6, <3>1, <3>2, <3>3, <3>4, <3>5 DEF Poll
  <2>4. SubKept /\ Evolves /\ PersistedRows' = PersistedRows
    BY <2>1 DEF SubKept, Evolves, PersistedRows
  <2>5. QED
    BY <2>1, <2>2, <2>3, <2>4, LinkFrame
<1>7. CASE (\E m \in Modes : SetSystemMode(m)) \/ ExchangeStep
  <2>1. UNCHANGED <<sub, canc, ca, poll, tr, rec, openOrders, orders, up>>
    BY <1>7 DEF SetSystemMode, ExchangeStep, dbVars, memVars, procVars, sysVars
  <2>2. Evolves
    <3>1. CASE UNCHANGED exOrders
      BY <3>1 DEF Evolves
    <3>2. QED
      BY <1>7, <3>1, VenueMoves DEF EngineType, SetSystemMode, ExchangeStep, venueVars
  <2>3. \A t \in Traces : Held(t)' => Held(t)
    BY <2>1 DEF Held
  <2>4. QED
    BY <1>1, <2>1, <2>2, <2>3
<1>8. QED
    BY <1>3, <1>4, <1>5, <1>6, <1>7

\* The link holds at the start, and every step keeps it: a crash leaves no venue
\* order to link, and a recovery finds none.
LEMMA LinkInvInit == Init => LinkInv
<1> SUFFICES ASSUME Init PROVE LinkInv
    OBVIOUS
<1>1. /\ \A t \in Traces : ~Held(t)
      /\ \A c \in Clients : sub[c].pc = "idle"
      /\ exOrders = << >> /\ up
    BY DEF Init, Venue!ExInit, Held, IdleCanc, IdleCa, IdlePoll, IdleTr, IdleSub, Processing
<1>2. QED
    BY <1>1 DEF LinkInv, Stopped, AloneAtVenue, Linked, AtVenue

\* Every step keeps the link.
LEMMA LinkInvStep == ExecInv /\ EngineType /\ LinkInv /\ [Next]_vars => LinkInv'
<1> SUFFICES ASSUME ExecInv, EngineType, LinkInv, [Next]_vars PROVE LinkInv'
    OBVIOUS
<1>0. ExecInv' /\ EngineType'
    BY ExecInvStep, EngineTypeStep
<1>1. CASE UNCHANGED vars
  <2>1. UNCHANGED <<sub, canc, ca, poll, tr, rec, openOrders, orders, up, exOrders>>
    BY <1>1 DEF vars, dbVars, memVars, procVars, sysVars, venueVars
  <2>2. UNCHANGED PersistedRows /\ \A t \in Traces : Held(t)' <=> Held(t)
    BY <2>1 DEF PersistedRows, Held
  <2>3. QED
    <3>1. \A c \in Clients : sub[c].pc \in AtVenue => sub[c].trace \in Traces
      BY DEF ExecInv, SubInv, PersistedRows
    <3>2. Stopped' /\ Linked'
      BY <2>1 DEF LinkInv, Stopped, Linked
    <3>3. AloneAtVenue'
      BY <2>1, <2>2, <3>1 DEF LinkInv, AloneAtVenue
    <3>4. QED
      BY <3>2, <3>3 DEF LinkInv
<1>2. CASE Crash
  <2>1. /\ \A t \in Traces : ~Held(t)'
        /\ \A c \in Clients : sub'[c].pc = "idle"
        /\ exOrders' = << >>
        /\ canc'.pc = "idle" /\ ca'.pc = "idle" /\ poll'.pc = "idle"
        /\ \A a \in Shared : tr'[a].pc = "idle"
    BY <1>2 DEF Crash, Held, IdleCanc, IdleCa, IdlePoll, IdleTr, IdleSub, Processing
  <2>2. QED
    BY <2>1 DEF LinkInv, Stopped, AloneAtVenue, Linked, AtVenue
<1>3. CASE RecoverFull
  <2>1. /\ \A c \in Clients : sub'[c].pc = "idle"
        /\ exOrders' = << >> /\ up' /\ UNCHANGED orders
        /\ canc'.pc = "idle" /\ ca'.pc = "idle" /\ poll'.pc = "idle"
        /\ \A a \in Shared : tr'[a].pc = "idle"
        /\ openOrders' = LoadedOrders
    BY <1>3 DEF RecoverFull, LinkInv, Stopped, procVars, venueVars, dbVars
  <2>2. \A t \in Traces : Held(t)' => t \in PersistedRows'
    BY <2>1 DEF Held, Processing, LoadedOrders, PersistedRows, OrderLive
  <2>3. QED
    BY <2>1, <2>2 DEF LinkInv, Stopped, AloneAtVenue, Linked, AtVenue
<1>4. CASE Next /\ ~RecoverFull /\ ~Crash
  <2>1. up
    BY <1>4, RunsOnlyUp
  <2>2. QED
    BY <1>0, <1>4, <2>1, SubmitLinked, BackgroundLinked DEF Next
<1>5. QED
    BY <1>1, <1>2, <1>3, <1>4

-----------------------------------------------------------------------------
\* A cancelled order is dead

\* Where the kill switch calls no CancelAll, none is ever in progress.
LEMMA NoCancelAllStep ==
    ASSUME EngineType, NoCancelAll, [Next]_vars, "cancelall" \notin Cancels
    PROVE  NoCancelAll' /\ ~CancelAll
<1>0. /\ ca.pc = "idle" /\ tr["cancelall"].pc = "idle" /\ tr \in [Shared -> TrType]
      /\ "cancelall" \in Shared /\ "cancel" \in Shared /\ "poll" \in Shared
    BY DEF NoCancelAll, EngineType, ProcType, Shared, Cancellers
<1>1. ~CancelAll
    BY <1>0 DEF CancelAll, CaVenue, CaLock, CaLoop, CaIntent, CaUnlock
<1>2. ca' = ca \/ ca' = IdleCa
    BY <1>1 DEF Next, vars, procVars, SubmitOrder, SubmitGate, SubmitAppend, SubmitAppended,
       SubmitPersist, SubmitVenue, SubmitTransition, SubmitIntent, SubmitRegister, transitionOrder,
       TransCheck, TransSet, TransWrite, CancelOrder, CancelLookup, CancelVenue, CancelUnregister,
       CancelIntent, Poll, PollStart, PollFetch, PollError, PollDone, PollLookup, PollPersist,
       PollApply, PollUnregister, PollIntent, PollReport, SetSystemMode, ExchangeStep, Crash,
       RecoverFull
<1>3. tr'["cancelall"].pc = "idle"
  <2>1. ASSUME NEW a \in Shared, transitionOrder(a)
        PROVE  tr'["cancelall"].pc = "idle"
    <3>1. a # "cancelall"
      BY <1>0, <2>1 DEF transitionOrder, TransCheck, TransSet, TransWrite
    <3>2. QED
      BY <1>0, <2>1, <3>1 DEF transitionOrder, TransCheck, TransSet, TransWrite, TransGoto
  <2>2. CASE CancelOrder
    BY <1>0, <2>2 DEF CancelOrder, CancelLookup, CancelVenue, CancelUnregister, CancelIntent,
                      Transition, Transitioned
  <2>3. CASE Poll
    BY <1>0, <2>3 DEF Poll, PollStart, PollFetch, PollError, PollDone, PollLookup, PollPersist,
                      PollApply, PollUnregister, PollIntent, PollReport, Transition, Transitioned
  <2>4. CASE Crash
    BY <1>0, <2>4 DEF Crash, IdleTr
  <2>5. CASE UNCHANGED tr
    BY <1>0, <2>5
  <2>6. QED
    BY <1>1, <2>1, <2>2, <2>3, <2>4, <2>5 DEF Next, vars, procVars, SubmitOrder, SubmitGate,
       SubmitAppend, SubmitAppended, SubmitPersist, SubmitVenue, SubmitTransition, SubmitIntent,
       SubmitRegister, SetSystemMode, ExchangeStep, RecoverFull
<1>4. QED
    BY <1>0, <1>1, <1>2, <1>3 DEF NoCancelAll, IdleCa

\* A venue order that is dead stays so.
LEMMA DeadStays ==
    ASSUME Evolves, NEW t, Dead(t)
    PROVE  Dead(t)'
BY DEF Dead, Evolves

\* A step that leaves the table and the goroutines that write it alone.
LEMMA DeadFrame ==
    ASSUME DeadInv, NoCancelAll', Evolves, UNCHANGED <<orders, canc, tr>>,
           \A c \in Clients : sub'[c].pc = "venue" => sub'[c] = sub[c]
    PROVE  DeadInv'
<1>1. \A t \in Traces \cup {canc.trace} : Dead(t) => Dead(t)'
    BY DeadStays
<1>2. canc'.pc = "unregister" => Dead(canc.trace)'
    BY <1>1 DEF DeadInv, Dead, Evolves
<1>3. QED
    BY <1>1, <1>2 DEF DeadInv

\* The steps of SubmitOrder.
LEMMA SubmitDead ==
    ASSUME ExecInv, EngineType, LinkInv, DeadInv, NoCancelAll', NEW c \in Clients, SubmitOrder(c)
    PROVE  DeadInv'
<1>0. /\ UNCHANGED <<canc, tr>>
      /\ sub \in [Clients -> SubType] /\ orders \in [Traces -> Record]
    BY DEF SubmitOrder, SubmitGate, SubmitAppend, SubmitAppended, SubmitPersist, SubmitVenue,
           SubmitTransition, SubmitIntent, SubmitRegister, procVars, ExecInv, SubInv,
           EngineType, MemType
<1>1. CASE \/ \E t \in Traces : SubmitGate(c, t)
           \/ SubmitAppend(c) \/ SubmitAppended(c) \/ SubmitIntent(c) \/ SubmitRegister(c)
  <2>1. UNCHANGED <<orders, exOrders>>
    BY <1>1 DEF SubmitGate, SubmitAppend, SubmitAppended, SubmitIntent, SubmitRegister, dbVars,
                venueVars
  <2>2. \A d \in Clients : sub'[d].pc = "venue" => sub'[d] = sub[d]
    BY <1>0, <1>1 DEF SubmitGate, SubmitAppend, SubmitAppended, SubmitIntent, SubmitRegister,
                      SubGoto, SubAcked, SubReturn, IdleSub, procVars
  <2>3. QED
    BY <1>0, <2>1, <2>2, DeadFrame DEF Evolves
<1>2. CASE SubmitPersist(c) \/ SubmitTransition(c)
  <2> DEFINE t == sub[c].trace
  <2>1. UNCHANGED exOrders /\ \A u : Dead(u)' <=> Dead(u)
    BY <1>2 DEF SubmitPersist, SubmitTransition, venueVars, Dead
  <2>2. t \in Traces
    BY <1>2 DEF SubmitPersist, SubmitTransition, ExecInv, SubInv, Appended, Rows
  <2>3. PICK row \in Record : row.status # "cancelled" /\
           (orders' = orders \/ orders' = [orders EXCEPT ![t] = row])
    <3>1. CASE SubmitPersist(c)
      <4>1. NewRecord \in Record /\ NewRecord.status # "cancelled"
        BY DEF NewRecord, Record, NullId, OrderLive
      <4>2. QED
        BY <3>1, <4>1 DEF SubmitPersist
    <3>2. CASE SubmitTransition(c)
      <4>1. [status |-> sub[c].ack, filled |-> 0, exch |-> sub[c].exch] \in Record
            /\ sub[c].ack # "cancelled"
        BY <1>0 DEF SubType, Record, OrderLive, OrderTerminal
      <4>2. QED
        BY <3>2, <4>1 DEF SubmitTransition, WriteRow
    <3>3. QED
      BY <1>2, <3>1, <3>2
  <2>4. \A u \in Traces : orders'[u].status = "cancelled" => orders[u].status = "cancelled"
    BY <1>0, <2>2, <2>3
  <2>5. \A d \in Clients : d # c => sub'[d] = sub[d]
    BY <1>0, <1>2 DEF SubmitPersist, SubmitTransition, SubGoto, SubAcked, SubReturn
  <2>6. sub'[c].pc = "venue" => sub'[c].trace = t /\ orders'[t].status # "cancelled"
    <3>1. CASE SubmitPersist(c)
      BY <1>0, <2>2, <3>1 DEF SubmitPersist, SubGoto, SubAcked, SubReturn, IdleSub, NewRecord
    <3>2. CASE SubmitTransition(c)
      BY <1>0, <3>2 DEF SubmitTransition, SubGoto, SubAcked
    <3>3. QED
      BY <1>2, <3>1, <3>2
  <2>7. \A d \in Clients : sub[d].pc = "venue" => sub[d].trace \in Traces
    BY DEF ExecInv, SubInv, AtVenue, PersistedRows
  <2>8. \A d \in Clients : sub'[d].pc = "venue" => orders'[sub'[d].trace].status # "cancelled"
    BY <2>4, <2>5, <2>6, <2>7 DEF DeadInv
  <2>9. canc'.pc = "unregister" => Dead(canc.trace)'
    BY <1>0, <2>1 DEF DeadInv, Dead
  <2>10. QED
    BY <1>0, <2>1, <2>4, <2>8, <2>9 DEF DeadInv
<1>3. CASE SubmitVenue(c)
  <2> DEFINE t == sub[c].trace
  <2>1. UNCHANGED orders /\ sub[c].pc = "venue" /\ sub'[c].pc = "transition"
        /\ \A d \in Clients : d # c => sub'[d] = sub[d]
    BY <1>0, <1>3 DEF SubmitVenue, SubAcked
  <2>2. t \in Traces /\ ~Held(t)
    BY <2>1 DEF ExecInv, SubInv, AtVenue, PersistedRows, LinkInv, AloneAtVenue
  <2>3. \A u : u # t /\ Dead(u) => Dead(u)'
    <3>1. CASE UNCHANGED exOrders
      BY <3>1 DEF Dead
    <3>2. CASE \E ack \in {"open", "rejected"} : Venue!ExSubmit(t, ack)
      <4>1. /\ Len(exOrders') = Len(exOrders) + 1 /\ Len(exOrders) \in Nat
            /\ \A e \in 1..Len(exOrders) : exOrders'[e] = exOrders[e]
            /\ exOrders'[Len(exOrders) + 1].req = t
        BY <2>2, <3>2, VenueAdds DEF EngineType, VenueType
      <4>2. QED
        BY <4>1 DEF Dead
    <3>3. QED
      BY <1>3, <3>1, <3>2 DEF SubmitVenue, venueVars
  <2>4. canc.pc # "idle" => canc.trace # t
    BY <2>2 DEF Held
  <2>5. \A u \in Traces : orders'[u].status = "cancelled" => Dead(u)'
    BY <2>1, <2>3 DEF DeadInv
  <2>6. canc.pc = "unregister" => Dead(canc.trace)'
    <3>1. ASSUME NEW u, u = canc.trace, canc.pc = "unregister" PROVE Dead(u)'
      BY <2>3, <2>4, <3>1 DEF DeadInv
    <3>2. QED
      BY <1>0, <3>1 DEF Dead
  <2>7. QED
    BY <1>0, <2>1, <2>5, <2>6 DEF DeadInv
<1>4. QED
    BY <1>1, <1>2, <1>3 DEF SubmitOrder

\* transitionOrder: only CancelOrder's can write "cancelled", and by then the
\* venue has cancelled.
LEMMA TransDead ==
    ASSUME ExecInv, EngineType, LinkInv, DeadInv, NoCancelAll', NEW a \in Shared,
           transitionOrder(a)
    PROVE  DeadInv'
<1>0. /\ UNCHANGED <<sub, canc, exOrders>> /\ tr[a].pc # "idle" /\ tr[a].trace \in Traces
      /\ tr \in [Shared -> TrType] /\ orders \in [Traces -> Record]
      /\ {"cancel", "poll", "cancelall"} = Shared
    BY DEF transitionOrder, TransCheck, TransSet, TransWrite, venueVars, EngineType, MemType,
           ProcType, Shared, Cancellers
<1>1. \A u : Dead(u)' <=> Dead(u)
    BY <1>0 DEF Dead
<1>2. /\ \A b \in Shared : b # a => tr'[b] = tr[b]
      /\ tr'[a].trace = tr[a].trace /\ tr'[a].to = tr[a].to
      /\ tr'[a].pc = "write" => tr'[a].row.status = tr[a].to
    BY <1>0 DEF transitionOrder, TransCheck, TransSet, TransWrite, TransGoto
<1>3. \A u \in Traces : orders'[u].status = "cancelled"
         => orders[u].status = "cancelled" \/ (u = tr[a].trace /\ Dead(u))
  <2>1. CASE TransWrite(a) /\ orders' = [orders EXCEPT ![tr[a].trace] = tr[a].row]
    <3>1. tr[a].pc = "write" /\ tr[a].row.status = tr[a].to
      BY <1>0, <2>1 DEF TransWrite, DeadInv
    <3>2. tr[a].to = "cancelled" => Dead(tr[a].trace)
      BY <1>0 DEF DeadInv, NoCancelAll
    <3>3. QED
      BY <1>0, <2>1, <3>1, <3>2
  <2>2. CASE UNCHANGED orders
    BY <2>2
  <2>3. QED
    BY <2>1, <2>2 DEF transitionOrder, TransCheck, TransSet, TransWrite, WriteRow, dbVars
<1>4. \A c \in Clients : sub[c].pc = "venue" => sub[c].trace \in Traces /\ sub[c].trace # tr[a].trace
  <2>1. Held(tr[a].trace)
    BY <1>0 DEF Held
  <2>2. QED
    BY <2>1 DEF ExecInv, SubInv, AtVenue, PersistedRows, LinkInv, AloneAtVenue
<1>5. \A c \in Clients : sub'[c].pc = "venue" => orders'[sub'[c].trace].status # "cancelled"
    BY <1>0, <1>3, <1>4 DEF DeadInv
<1>6. \A u \in Traces : orders'[u].status = "cancelled" => Dead(u)'
    BY <1>1, <1>3 DEF DeadInv
<1>7. canc.pc = "unregister" => Dead(canc.trace)'
    BY <1>0, <1>1 DEF DeadInv, Dead
<1>8. tr'["cancel"].pc # "idle" => tr'["cancel"].trace = canc.trace /\ canc.pc = "unregister"
    BY <1>0, <1>2 DEF DeadInv
<1>9. tr'["poll"].pc # "idle" => tr'["poll"].to # "cancelled"
    BY <1>0, <1>2 DEF DeadInv
<1>10. \A b \in Shared : tr'[b].pc = "write" => tr'[b].row.status = tr'[b].to
    BY <1>0, <1>2 DEF DeadInv
<1>11. QED
    BY <1>0, <1>5, <1>6, <1>7, <1>8, <1>9, <1>10 DEF DeadInv

\* The venue's answer to CancelOrder is about the one order the trace has there.
LEMMA VenueCancels ==
    ASSUME EngineType, LinkInv, canc.pc = "venue", Venue!ExCancel(rec[canc.trace].exch)
    PROVE  /\ Evolves
           /\ \A e \in 1..Len(exOrders) :
                 exOrders[e].req = canc.trace => exOrders'[e].status = "cancelled"
<1>1. Held(canc.trace)
    BY DEF Held
<1>2. \A e \in 1..Len(exOrders) : exOrders[e].req = canc.trace => e = rec[canc.trace].exch
    BY <1>1 DEF LinkInv, Linked, AloneAtVenue, AtVenue
<1>3. rec[canc.trace].exch \in 1..Len(exOrders)
      /\ exOrders' = [exOrders EXCEPT ![rec[canc.trace].exch].status = "cancelled"]
    BY DEF Venue!ExCancel, Venue!Cancellable, Venue!ExIds
<1>4. exOrders[rec[canc.trace].exch] \in VenueOrder
    BY <1>3 DEF EngineType, VenueType
<1>5. exOrders'[rec[canc.trace].exch].status = "cancelled"
    BY <1>3, <1>4 DEF EngineType, VenueType, VenueOrder
<1>6. QED
    BY <1>2, <1>5, VenueMoves DEF EngineType

\* CancelOrder starts its transition when the venue has cancelled the one order
\* that the trace has there.
LEMMA CancelDead ==
    ASSUME ExecInv, EngineType, LinkInv, DeadInv, NoCancelAll', CancelOrder
    PROVE  DeadInv'
<1>0. /\ UNCHANGED <<sub, orders>> /\ tr \in [Shared -> TrType]
      /\ "cancel" \in Shared /\ "poll" \in Shared
    BY DEF CancelOrder, CancelLookup, CancelVenue, CancelUnregister, CancelIntent, dbVars,
           EngineType, ProcType, Shared, Cancellers
<1>1. ASSUME UNCHANGED exOrders, canc'.pc # "unregister", tr'["cancel"].pc = "idle",
             \A b \in Shared : b # "cancel" => tr'[b] = tr[b]
      PROVE  DeadInv'
  <2>1. \A u : Dead(u)' <=> Dead(u)
    BY <1>1 DEF Dead
  <2>2. \A b \in Shared : tr'[b].pc = "write" => tr'[b].row.status = tr'[b].to
    BY <1>0, <1>1 DEF DeadInv
  <2>3. QED
    BY <1>0, <1>1, <2>1, <2>2 DEF DeadInv
<1>2. CASE (\E t \in Traces : CancelLookup(t)) \/ CancelIntent
  <2>1. UNCHANGED <<exOrders, tr>> /\ canc.pc # "unregister" /\ canc'.pc # "unregister"
    BY <1>2 DEF CancelLookup, CancelIntent, IdleCanc, venueVars
  <2>2. QED
    BY <1>1, <2>1 DEF DeadInv
<1>3. CASE CancelUnregister
  <2>1. UNCHANGED exOrders /\ canc'.pc # "unregister" /\ Transitioned("cancel")
    BY <1>3 DEF CancelUnregister, IdleCanc, venueVars
  <2>2. QED
    BY <1>0, <1>1, <2>1 DEF Transitioned, IdleTr
<1>4. CASE CancelVenue /\ canc' = IdleCanc /\ UNCHANGED <<tr, venueVars>>
  <2>1. UNCHANGED <<exOrders, tr>> /\ canc.pc # "unregister" /\ canc'.pc # "unregister"
    BY <1>4 DEF CancelVenue, IdleCanc, venueVars
  <2>2. QED
    BY <1>1, <2>1 DEF DeadInv
<1>5. CASE /\ CancelVenue /\ Venue!ExCancel(rec[canc.trace].exch)
           /\ Transition("cancel", canc.trace, "cancelled")
           /\ canc' = [pc |-> "unregister", trace |-> canc.trace]
  <2>1. canc.pc = "venue"
    BY <1>5 DEF CancelVenue
  <2>2. Evolves
    BY <1>5, <2>1, VenueCancels
  <2>3. \A e \in 1..Len(exOrders) : exOrders[e].req = canc.trace => exOrders'[e].status = "cancelled"
    BY <1>5, <2>1, VenueCancels
  <2>4. Dead(canc.trace)'
    BY <1>5, <2>2, <2>3 DEF Dead, Evolves
  <2>5. \A u \in Traces : orders'[u].status = "cancelled" => Dead(u)'
    BY <1>0, <2>2, DeadStays DEF DeadInv
  <2>6. /\ tr'["cancel"].trace = canc'.trace /\ tr'["cancel"].pc = "check"
        /\ \A b \in Shared : b # "cancel" => tr'[b] = tr[b]
    BY <1>0, <1>5 DEF Transition
  <2>7. \A b \in Shared : tr'[b].pc = "write" => tr'[b].row.status = tr'[b].to
    BY <2>6 DEF DeadInv
  <2>8. QED
    BY <1>0, <1>5, <2>4, <2>5, <2>6, <2>7 DEF DeadInv
<1>6. QED
    BY <1>2, <1>3, <1>4, <1>5 DEF CancelOrder, CancelVenue

\* The poller never asks for a cancellation.
LEMMA PollDead ==
    ASSUME ExecInv, EngineType, DeadInv, NoCancelAll', Poll
    PROVE  DeadInv'
<1>0. /\ UNCHANGED <<sub, orders, canc, exOrders>> /\ tr \in [Shared -> TrType]
      /\ "cancel" \in Shared /\ "poll" \in Shared
    BY DEF Poll, PollStart, PollFetch, PollError, PollDone, PollLookup, PollPersist, PollApply,
           PollUnregister, PollIntent, PollReport, dbVars, venueVars, EngineType, ProcType, Shared,
           Cancellers
<1>1. \A u : Dead(u)' <=> Dead(u)
    BY <1>0 DEF Dead
<1>2. canc.pc = "unregister" => Dead(canc.trace)'
    BY <1>0, <1>1 DEF DeadInv, Dead
<1>3. ASSUME \A b \in Shared : b # "poll" => tr'[b] = tr[b],
             tr'["poll"].pc # "write", tr'["poll"].to # "cancelled"
      PROVE  DeadInv'
  <2>1. \A b \in Shared : tr'[b].pc = "write" => tr'[b].row.status = tr'[b].to
    BY <1>3 DEF DeadInv
  <2>2. QED
    BY <1>0, <1>1, <1>2, <1>3, <2>1 DEF DeadInv
<1>4. CASE PollApply
  <2>1. \E s \in {"filled", "partially_filled"} : Transition("poll", poll.trace, s)
    BY <1>4 DEF PollApply
  <2>2. QED
    BY <1>0, <1>3, <2>1 DEF Transition
<1>5. CASE PollUnregister
  <2>1. Transitioned("poll")
    BY <1>5 DEF PollUnregister
  <2>2. QED
    BY <1>0, <1>3, <2>1 DEF Transitioned, IdleTr
<1>6. CASE UNCHANGED tr
  <2>1. Evolves /\ \A c \in Clients : sub'[c].pc = "venue" => sub'[c] = sub[c]
    BY <1>0 DEF Evolves
  <2>2. QED
    BY <1>0, <1>6, <2>1, DeadFrame
<1>7. QED
    BY <1>4, <1>5, <1>6 DEF Poll, PollStart, PollFetch, PollError, PollDone, PollLookup,
       PollPersist, PollIntent, PollReport

\* Every step keeps cancelled orders dead.
LEMMA DeadInvStep ==
    ASSUME "cancelall" \notin Cancels
    PROVE  ExecInv /\ EngineType /\ LinkInv /\ DeadInv /\ [Next]_vars => DeadInv'
<1> SUFFICES ASSUME ExecInv, EngineType, LinkInv, DeadInv, [Next]_vars PROVE DeadInv'
    OBVIOUS
<1>0. NoCancelAll' /\ ~CancelAll
    BY NoCancelAllStep DEF DeadInv
<1>1. CASE UNCHANGED vars
    BY <1>0, <1>1, DeadFrame DEF Evolves, vars, dbVars, procVars, venueVars
<1>2. CASE (\E m \in Modes : SetSystemMode(m)) \/ ExchangeStep \/ RecoverFull
  <2>1. UNCHANGED <<orders, canc, tr, sub>>
    BY <1>2 DEF SetSystemMode, ExchangeStep, RecoverFull, dbVars, procVars
  <2>2. Evolves
    <3>1. CASE UNCHANGED exOrders
      BY <3>1 DEF Evolves
    <3>2. QED
      BY <1>2, <3>1, VenueMoves DEF EngineType, SetSystemMode, ExchangeStep, RecoverFull, venueVars
  <2>3. QED
    BY <1>0, <2>1, <2>2, DeadFrame
<1>3. CASE Crash
  <2>1. /\ canc'.pc = "idle" /\ exOrders' = << >>
        /\ "cancel" \in Shared /\ "poll" \in Shared
    BY <1>3 DEF Crash, IdleCanc, Shared, Cancellers
  <2>2. \A a \in Shared : tr'[a].pc = "idle"
    BY <1>3 DEF Crash, IdleTr
  <2>3. \A u : Dead(u)'
    BY <2>1 DEF Dead
  <2>4. \A c \in Clients : sub'[c].pc = "idle"
    BY <1>3 DEF Crash, IdleSub
  <2>5. QED
    BY <1>0, <2>1, <2>2, <2>3, <2>4 DEF DeadInv
<1>4. QED
    BY <1>0, <1>1, <1>2, <1>3, SubmitDead, TransDead, CancelDead, PollDead DEF Next

\* CancelledIsDead for every number of orders, submitters and crashes, for every
\* quantity, and whatever statement or call fails: CancelOrder's row never says
\* "cancelled" of an order that can still fill.  CancelAll is left out because it
\* does not keep this promise: it records its cancellations whatever the venue
\* answered.
THEOREM CancelledOrdersAreDead ==
    ASSUME "cancelall" \notin Cancels
    PROVE  Spec => []CancelledIsDead
<1>1. Init => DeadInv
  <2> SUFFICES ASSUME Init PROVE DeadInv
    OBVIOUS
  <2>1. /\ \A c \in Clients : sub[c].pc = "idle"
        /\ ca.pc = "idle" /\ canc.pc = "idle" /\ exOrders = << >>
    BY DEF Init, Venue!ExInit, IdleSub, IdleCa, IdleCanc
  <2>2. \A a \in Shared : tr[a].pc = "idle"
    BY DEF Init, IdleTr
  <2>3. "cancel" \in Shared /\ "poll" \in Shared /\ "cancelall" \in Shared
    BY DEF Shared, Cancellers
  <2>4. QED
    BY <2>1, <2>2, <2>3 DEF DeadInv, NoCancelAll, Dead
<1>2. ExecInv /\ DeadInv => CancelledIsDead
    BY DEF ExecInv, VenInv, PersistedRows, DeadInv, Dead, CancelledIsDead, Venue!ExIds,
           Venue!ExLive
<1>3. ExecInv /\ EngineType /\ LinkInv /\ DeadInv /\ [Next]_vars => DeadInv'
    BY DeadInvStep
<1>4. QED
    BY <1>1, <1>2, <1>3, ExecInvInit, ExecInvStep, EngineTypeInit, EngineTypeStep, LinkInvInit,
       LinkInvStep, PTL DEF Spec

-----------------------------------------------------------------------------
\* An untouched order has an outstanding intent

\* What a change of the ledger must leave true of the open orders.
Covered ==
    /\ \A e \in 1..Len(exOrders) : exOrders[e].status = "open" => exOrders[e].req \in Outstanding'
    /\ (Rows \ PersistedRows)' \subseteq Outstanding'
    /\ \A c \in Clients : sub[c].pc = "venue" => sub[c].trace \in Outstanding'

FillsTouched == \A f \in 1..Len(exFills) : exOrders[exFills[f].order].status # "open"

\* The ledger is not written and rows of execution.orders are at most added.
LEMMA LedgerStill ==
    ASSUME OpenInv, UNCHANGED intents, PersistedRows \subseteq PersistedRows'
    PROVE  Covered
<1>1. Outstanding' = Outstanding /\ Rows' = Rows
    BY DEF Outstanding, Rows
<1>2. QED
    BY <1>1 DEF OpenInv, Covered

\* Append adds a pending row or none.
LEMMA LedgerAppends ==
    ASSUME ExecInv, OpenInv, NEW c \in Clients, SubmitAppend(c)
    PROVE  Covered /\ Outstanding \subseteq Outstanding'
<1>1. \/ intents' = intents
      \/ /\ intents' = [intents EXCEPT ![app[c].trace] = NewRow(c)]
         /\ app[c].trace \notin Rows /\ app[c].pc = "insert"
    BY DEF SubmitAppend, AppendLookup, AppendCompute, AppendDraw, AppendInsert, AppendDbError
<1>2. intents \in [Traces -> [status : IntentStatus, version : Nat]]
      /\ (app[c].pc # "idle" => app[c].trace \in Traces)
    BY DEF ExecInv, LedgerInv, LedgerTypeOK
<1>3. Outstanding \subseteq Outstanding' /\ Rows' \subseteq Rows \cup Outstanding'
    BY <1>1, <1>2 DEF Outstanding, Rows, NewRow, IntentOutstanding
<1>4. PersistedRows' = PersistedRows
    BY DEF SubmitAppend, dbVars, PersistedRows
<1>5. QED
    BY <1>3, <1>4 DEF OpenInv, Covered

\* UpdateStatus ends an intent only where no untouched order depends on it.
LEMMA LedgerUpdates ==
    ASSUME ExecInv, OpenInv, NEW t \in PersistedRows, NEW s \in UpdateStatuses, WriteIntent(t, s),
           UNCHANGED orders,
           s = "open" \/ (NotOpen(t) /\ \A c \in Clients : sub[c].pc = "venue" => sub[c].trace # t)
    PROVE  Covered
<1>1. CASE UNCHANGED intents
    BY <1>1, LedgerStill DEF PersistedRows
<1>2. CASE intents[t].status \in IntentOutstanding /\ intents' = [intents EXCEPT ![t].status = s]
  <2>1. intents \in [Traces -> [status : IntentStatus, version : Nat]] /\ t \in Traces
    BY DEF ExecInv, LedgerInv, LedgerTypeOK, PersistedRows
  <2>2. intents'[t].status = s /\ \A u \in Traces : u # t => intents'[u] = intents[u]
    BY <1>2, <2>1
  <2>3. Rows' = Rows
    BY <1>2, <2>1, <2>2 DEF Rows, UpdateStatuses, IntentOutstanding
  <2>4. \A u \in Outstanding : u # t \/ s = "open" => u \in Outstanding'
    BY <2>1, <2>2 DEF Outstanding, IntentOutstanding
  <2>5. PersistedRows' = PersistedRows
    BY DEF PersistedRows
  <2>6. QED
    BY <2>3, <2>4, <2>5 DEF OpenInv, Covered, NotOpen
<1>3. QED
    BY <1>1, <1>2 DEF WriteIntent, UpdatedIntents

\* Nothing becomes untouched.
LEMMA NotOpenStays ==
    ASSUME Evolves, NEW t, NotOpen(t)
    PROVE  NotOpen(t)'
BY DEF NotOpen, Evolves

\* A step that starts no new claim on an order.
LEMMA OpenFrame ==
    ASSUME OpenInv, NoCancelAll', Evolves, Covered, FillsTouched',
           \A c \in Clients : sub'[c].pc = "venue"
              => sub'[c].trace \in Outstanding',
           \A c \in Clients : sub'[c].pc \in {"transition", "intent"}
              => sub[c].pc \in {"transition", "intent"} /\ sub'[c].trace = sub[c].trace
                 /\ sub'[c].ack = sub[c].ack,
           canc'.pc \in {"unregister", "intent"}
              => canc.pc \in {"unregister", "intent"} /\ canc'.trace = canc.trace,
           poll'.pc \in Processing => poll.pc \in Processing /\ poll'.trace = poll.trace
    PROVE  OpenInv'
<1>1. \A t : NotOpen(t) => NotOpen(t)'
    BY NotOpenStays
<1>2. \A e \in 1..Len(exOrders') : exOrders'[e].status = "open" => exOrders'[e].req \in Outstanding'
    BY DEF Covered, Evolves
<1>3. ASSUME NEW c \in Clients, sub'[c].pc \in {"transition", "intent"}, sub'[c].ack # "open"
      PROVE  NotOpen(sub[c].trace)'
  <2>1. NotOpen(sub[c].trace) /\ sub'[c].trace = sub[c].trace
    BY <1>3 DEF OpenInv
  <2>2. QED
    BY <2>1 DEF NotOpen, Evolves
<1>4. canc'.pc \in {"unregister", "intent"} => NotOpen(canc.trace)'
    BY DEF OpenInv, NotOpen, Evolves
<1>5. poll'.pc \in Processing => NotOpen(poll.trace)'
    BY DEF OpenInv, NotOpen, Evolves
<1>6. QED
    BY <1>2, <1>3, <1>4, <1>5 DEF OpenInv, Covered, FillsTouched

\* A fill touches the order it fills.
LEMMA FillTouches ==
    ASSUME VenueType, FillsTouched,
           \/ \E e \in Venue!ExIds : Venue!ExFill(e) \/ Venue!ExNoFill(e)
           \/ \E e : Venue!ExCancel(e)
           \/ Venue!ExCancelAll
    PROVE  FillsTouched'
<1>1. Evolves /\ VenueType'
    BY VenueMoves
<1>2. CASE UNCHANGED exFills
    BY <1>1, <1>2 DEF FillsTouched, Evolves, VenueType
<1>3. ASSUME NEW e \in Venue!ExIds, Venue!ExFill(e)
      PROVE  FillsTouched'
  <2> DEFINE o == exOrders[e]
             r == Quantity[o.req] - o.filled
             new(q) == [req |-> o.req, filled |-> o.filled + q,
                        status |-> IF r - q <= 0 THEN "filled" ELSE "partially_filled"]
  <2>0. \E q \in {r} \cup Venue!PartialSizes(r) :
           /\ exFills' = Append(exFills, [order |-> e, qty |-> q])
           /\ exOrders' = [exOrders EXCEPT ![e] = new(q)]
    BY <1>3 DEF Venue!ExFill
  <2>1. PICK q : /\ exFills' = Append(exFills, [order |-> e, qty |-> q])
                 /\ exOrders'[e].status # "open"
    <3>1. exOrders \in Seq(VenueOrder) /\ e \in 1..Len(exOrders)
      BY DEF Venue!ExIds, VenueType
    <3>2. \A q : new(q).status # "open"
      OBVIOUS
    <3>3. PICK q \in {r} \cup Venue!PartialSizes(r) :
             /\ exFills' = Append(exFills, [order |-> e, qty |-> q])
             /\ exOrders' = [exOrders EXCEPT ![e] = new(q)]
      BY <2>0
    <3>4. exOrders'[e] = new(q)
      BY <3>1, <3>3
    <3>5. exOrders'[e].status # "open"
      BY <3>2, <3>4
    <3>6. QED
      BY <3>3, <3>5
  <2>2. /\ Len(exFills) \in Nat /\ Len(exFills') = Len(exFills) + 1
        /\ \A f \in 1..Len(exFills) : exFills'[f] = exFills[f]
        /\ exFills'[Len(exFills) + 1].order = e
    <3>1. exFills \in Seq(VenueFill)
      BY DEF VenueType
    <3>2. QED
      BY <2>1, <3>1
  <2>3. ASSUME NEW f \in 1..Len(exFills')
        PROVE  exOrders'[exFills'[f].order].status # "open"
    <3>1. CASE f = Len(exFills) + 1
      BY <2>1, <2>2, <3>1
    <3>2. CASE f \in 1..Len(exFills)
      <4>1. exFills[f].order \in 1..Len(exOrders)
        BY <3>2 DEF VenueType
      <4>2. exOrders[exFills[f].order].status # "open" /\ exFills'[f] = exFills[f]
        BY <2>2, <3>2 DEF FillsTouched
      <4>3. QED
        BY <1>1, <4>1, <4>2 DEF Evolves
    <3>3. QED
      BY <2>2, <3>1, <3>2
  <2>4. QED
    BY <2>3 DEF FillsTouched
<1>4. QED
    BY <1>2, <1>3 DEF Venue!ExNoFill, Venue!ExCancel, Venue!ExCancelAll

\* SubmitOrder: a new order at the venue finds its intent pending, and only a
\* refused order ends its intent here.
LEMMA SubmitOpen ==
    ASSUME ExecInv, EngineType, LinkInv, OpenInv, NoCancelAll', NEW c \in Clients, SubmitOrder(c)
    PROVE  OpenInv'
<1> DEFINE t == sub[c].trace
<1>0. /\ UNCHANGED <<canc, poll>>
      /\ sub \in [Clients -> SubType] /\ orders \in [Traces -> Record]
    BY DEF SubmitOrder, SubmitGate, SubmitAppend, SubmitAppended, SubmitPersist, SubmitVenue,
           SubmitTransition, SubmitIntent, SubmitRegister, procVars, ExecInv, SubInv,
           EngineType, MemType
<1>1. ASSUME UNCHANGED <<exOrders, exFills>>
      PROVE  Evolves /\ FillsTouched'
    BY <1>1 DEF Evolves, FillsTouched, OpenInv
<1>2. CASE (\E u \in Traces : SubmitGate(c, u)) \/ SubmitAppended(c) \/ SubmitRegister(c)
  <2>1. UNCHANGED <<intents, orders, exOrders, exFills>>
    BY <1>2 DEF SubmitGate, SubmitAppended, SubmitRegister, AppendBegin, AppendReturn, dbVars,
                venueVars, ledgerVars
  <2>2. Covered
    BY <2>1, LedgerStill DEF PersistedRows
  <2>3. \A d \in Clients : sub'[d].pc \in {"venue", "transition", "intent"} => sub'[d] = sub[d]
    BY <1>0, <1>2 DEF SubmitGate, SubmitAppended, SubmitRegister, SubGoto, SubAcked, SubReturn,
                      IdleSub
  <2>4. QED
    BY <1>0, <1>1, <2>1, <2>2, <2>3, OpenFrame DEF Covered
<1>3. CASE SubmitAppend(c)
  <2>1. UNCHANGED <<sub, exOrders, exFills>>
    BY <1>3 DEF SubmitAppend, procVars, venueVars
  <2>2. Covered
    BY <1>3, LedgerAppends
  <2>3. QED
    BY <1>0, <1>1, <2>1, <2>2, OpenFrame DEF Covered
<1>4. CASE SubmitPersist(c)
  <2>1. /\ UNCHANGED <<intents, exOrders, exFills>> /\ sub[c].pc = "persist"
        /\ \/ UNCHANGED orders
           \/ KeyUnused(t) /\ orders' = [orders EXCEPT ![t] = NewRecord]
        /\ SubReturn(c) \/ (KeyUnused(t) /\ SubGoto(c, "venue"))
    BY <1>4 DEF SubmitPersist, venueVars, ledgerVars
  <2>2. t \in Rows /\ t \in Traces
    BY <2>1 DEF ExecInv, SubInv, Appended, Rows
  <2>3. PersistedRows \subseteq PersistedRows'
    BY <1>0, <2>1, <2>2 DEF PersistedRows, NewRecord
  <2>4. Covered /\ Outstanding' = Outstanding
    BY <2>1, <2>3, LedgerStill DEF Outstanding
  <2>5. \A d \in Clients : d # c => sub'[d] = sub[d]
    BY <1>0, <2>1 DEF SubGoto, SubAcked, SubReturn
  <2>6. /\ sub'[c].pc \in {"idle", "venue"}
        /\ sub'[c].pc = "venue" => KeyUnused(t) /\ sub'[c].trace = t
    BY <1>0, <2>1 DEF SubGoto, SubAcked, SubReturn, IdleSub
  <2>7. KeyUnused(t) => t \in Outstanding
    BY <2>2 DEF KeyUnused, OpenInv
  <2>8. \A d \in Clients : sub'[d].pc = "venue" => sub'[d].trace \in Outstanding'
    BY <2>4, <2>5, <2>6, <2>7 DEF OpenInv
  <2>9. QED
    BY <1>0, <1>1, <2>1, <2>4, <2>5, <2>6, <2>8, OpenFrame
<1>5. CASE SubmitTransition(c)
  <2>1. /\ UNCHANGED <<intents, exOrders, exFills>> /\ sub[c].pc = "transition"
        /\ WriteRow(t, [status |-> sub[c].ack, filled |-> 0, exch |-> sub[c].exch])
        /\ SubGoto(c, "intent")
    BY <1>5 DEF SubmitTransition, venueVars, ledgerVars
  <2>2. t \in PersistedRows /\ sub[c].ack # "none"
    BY <2>1 DEF ExecInv, SubInv, AtVenue
  <2>3. PersistedRows' = PersistedRows
    BY <2>1, <2>2, RowWrite DEF ExecInv, PlaceInv
  <2>4. Covered
    BY <2>1, <2>3, LedgerStill
  <2>5. /\ \A d \in Clients : d # c => sub'[d] = sub[d]
        /\ sub'[c].pc = "intent" /\ sub'[c].trace = t /\ sub'[c].ack = sub[c].ack
    BY <1>0, <2>1 DEF SubGoto, SubAcked
  <2>6. \A d \in Clients : sub'[d].pc \in {"transition", "intent"}
           => sub[d].pc \in {"transition", "intent"} /\ sub'[d].trace = sub[d].trace
              /\ sub'[d].ack = sub[d].ack
    BY <2>1, <2>5
  <2>7. \A d \in Clients : sub'[d].pc = "venue" => sub'[d].trace \in Outstanding'
    BY <2>4, <2>5 DEF Covered
  <2>8. QED
    BY <1>0, <1>1, <2>1, <2>4, <2>6, <2>7, OpenFrame
<1>6. CASE SubmitIntent(c)
  <2>1. /\ UNCHANGED <<orders, exOrders, exFills>> /\ sub[c].pc = "intent"
        /\ \/ sub[c].ack = "open" /\ WriteIntent(t, "open") /\ SubGoto(c, "register")
           \/ sub[c].ack # "open" /\ WriteIntent(t, "rejected") /\ SubReturn(c)
    BY <1>6 DEF SubmitIntent, venueVars, dbVars
  <2>2. t \in PersistedRows /\ \A d \in Clients : sub[d].pc = "venue" => sub[d].trace # t
    BY <2>1 DEF ExecInv, SubInv, AtVenue, LinkInv, AloneAtVenue
  <2>3. sub[c].ack # "open" => NotOpen(t)
    BY <2>1 DEF OpenInv
  <2>4. Covered
    BY <2>1, <2>2, <2>3, LedgerUpdates DEF UpdateStatuses
  <2>5. \A d \in Clients : sub'[d].pc \in {"venue", "transition", "intent"} => sub'[d] = sub[d]
    BY <1>0, <2>1 DEF SubGoto, SubAcked, SubReturn, IdleSub
  <2>6. QED
    BY <1>0, <1>1, <2>1, <2>4, <2>5, OpenFrame DEF Covered
<1>7. CASE SubmitVenue(c)
  <2>1. /\ UNCHANGED <<intents, orders>> /\ sub[c].pc = "venue"
        /\ sub'[c].pc = "transition" /\ sub'[c].trace = t
        /\ \A d \in Clients : d # c => sub'[d] = sub[d]
    BY <1>0, <1>7 DEF SubmitVenue, SubAcked, ledgerVars
  <2>2. /\ t \in Traces /\ t \in Outstanding /\ ~Held(t)
        /\ \A d \in Clients : d # c /\ sub[d].pc \in AtVenue => sub[d].trace # t
        /\ \A e \in 1..Len(exOrders) : exOrders[e].req # t
    BY <2>1 DEF ExecInv, SubInv, AtVenue, PersistedRows, LinkInv, AloneAtVenue, Linked, OpenInv
  <2>3. /\ Outstanding' = Outstanding /\ Rows' = Rows /\ PersistedRows' = PersistedRows
        /\ canc.pc # "idle" => canc.trace # t
        /\ poll.pc \in Processing => poll.trace # t
    BY <2>1, <2>2 DEF Outstanding, Rows, PersistedRows, Held
  <2>4. \/ UNCHANGED <<exOrders, exFills>> /\ sub'[c].ack # "open"
        \/ \E ack \in {"open", "rejected"} :
              /\ UNCHANGED exFills /\ sub'[c].ack = ack
              /\ Len(exOrders') = Len(exOrders) + 1 /\ Len(exOrders) \in Nat
              /\ \A e \in 1..Len(exOrders) : exOrders'[e] = exOrders[e]
              /\ exOrders'[Len(exOrders) + 1].req = t
              /\ exOrders'[Len(exOrders) + 1].status = ack
    <3>1. CASE SubAcked(c, "transition", "failed", NullId) /\ UNCHANGED venueVars
      BY <1>0, <3>1 DEF SubAcked, venueVars
    <3>2. ASSUME NEW ack \in {"open", "rejected"}, Venue!ExSubmit(t, ack),
                 SubAcked(c, "transition", ack, Len(exOrders) + 1)
          PROVE  /\ UNCHANGED exFills /\ sub'[c].ack = ack
                 /\ Len(exOrders') = Len(exOrders) + 1 /\ Len(exOrders) \in Nat
                 /\ \A e \in 1..Len(exOrders) : exOrders'[e] = exOrders[e]
                 /\ exOrders'[Len(exOrders) + 1].req = t
                 /\ exOrders'[Len(exOrders) + 1].status = ack
      <4>1. sub'[c].ack = ack
        BY <1>0, <3>2 DEF SubAcked
      <4>2. QED
        BY <2>2, <3>2, <4>1, VenueAdds DEF EngineType, VenueType
    <3>3. QED
      BY <1>7, <3>1, <3>2 DEF SubmitVenue
  <2>5. \A u : u # t /\ NotOpen(u) => NotOpen(u)'
    BY <2>4 DEF NotOpen
  <2>6. \A e \in 1..Len(exOrders') : exOrders'[e].status = "open" => exOrders'[e].req \in Outstanding'
    BY <2>2, <2>3, <2>4 DEF OpenInv
  <2>7. FillsTouched'
    BY <2>4 DEF FillsTouched, OpenInv, EngineType, VenueType
  <2>8. sub'[c].ack # "open" => \A e \in 1..Len(exOrders') :
                                   exOrders'[e].req = t => exOrders'[e].status # "open"
    BY <2>2, <2>4
  <2>9. ASSUME NEW d \in Clients, sub'[d].pc \in {"transition", "intent"}, sub'[d].ack # "open"
        PROVE  NotOpen(sub[d].trace)'
    <3>1. CASE d = c
      BY <2>1, <2>8, <2>9, <3>1 DEF NotOpen
    <3>2. CASE d # c
      <4>1. sub'[d] = sub[d] /\ sub[d].trace # t /\ NotOpen(sub[d].trace)
        BY <2>1, <2>2, <2>9, <3>2 DEF OpenInv, AtVenue
      <4>2. QED
        BY <2>5, <4>1 DEF NotOpen
    <3>3. QED
      BY <3>1, <3>2
  <2>10. \A d \in Clients : sub'[d].pc = "venue" => sub'[d].trace \in Outstanding'
    BY <2>1, <2>3 DEF OpenInv
  <2>11. canc'.pc \in {"unregister", "intent"} => NotOpen(canc.trace)'
    <3>1. ASSUME NEW u, u = canc.trace, canc.pc \in {"unregister", "intent"} PROVE NotOpen(u)'
      BY <2>3, <2>5, <3>1 DEF OpenInv
    <3>2. QED
      BY <1>0, <3>1 DEF NotOpen
  <2>12. poll'.pc \in Processing => NotOpen(poll.trace)'
    <3>1. ASSUME NEW u, u = poll.trace, poll.pc \in Processing PROVE NotOpen(u)'
      BY <2>3, <2>5, <3>1 DEF OpenInv
    <3>2. QED
      BY <1>0, <3>1 DEF NotOpen
  <2>13. QED
    BY <2>3, <2>6, <2>7, <2>9, <2>10, <2>11, <2>12 DEF OpenInv, FillsTouched
<1>8. QED
    BY <1>2, <1>3, <1>4, <1>5, <1>6, <1>7 DEF SubmitOrder

\* CancelOrder ends the intent of an order the venue has cancelled.
LEMMA CancelOpen ==
    ASSUME ExecInv, EngineType, LinkInv, OpenInv, NoCancelAll', CancelOrder
    PROVE  OpenInv'
<1>0. UNCHANGED <<sub, orders, poll, exFills>>
    BY DEF CancelOrder, CancelLookup, CancelVenue, CancelUnregister, CancelIntent, dbVars,
           venueVars, Venue!ExCancel
<1>1. ASSUME UNCHANGED exOrders
      PROVE  Evolves /\ FillsTouched'
    BY <1>0, <1>1 DEF Evolves, FillsTouched, OpenInv
<1>2. CASE \/ (\E t \in Traces : CancelLookup(t)) \/ CancelUnregister
           \/ CancelVenue /\ canc' = IdleCanc /\ UNCHANGED <<tr, venueVars>>
  <2>1. UNCHANGED <<intents, exOrders>>
    BY <1>2 DEF CancelLookup, CancelUnregister, CancelVenue, venueVars, ledgerVars
  <2>2. canc'.pc \in {"unregister", "intent"}
           => canc.pc \in {"unregister", "intent"} /\ canc'.trace = canc.trace
    BY <1>2 DEF CancelLookup, CancelUnregister, IdleCanc
  <2>3. Covered
    BY <1>0, <2>1, LedgerStill DEF PersistedRows
  <2>4. QED
    BY <1>0, <1>1, <2>1, <2>2, <2>3, OpenFrame DEF Covered
<1>3. CASE CancelIntent
  <2>1. UNCHANGED exOrders /\ canc.pc = "intent" /\ canc'.pc = "idle"
        /\ WriteIntent(canc.trace, "cancelled")
    BY <1>3 DEF CancelIntent, IdleCanc, venueVars
  <2>2. /\ Held(canc.trace) /\ canc.trace \in PersistedRows /\ NotOpen(canc.trace)
    BY <2>1 DEF Held, ExecInv, RegInv, OpenInv
  <2>3. \A c \in Clients : sub[c].pc = "venue" => sub[c].trace # canc.trace
    BY <2>2 DEF LinkInv, AloneAtVenue, AtVenue
  <2>4. Covered
    BY <1>0, <2>1, <2>2, <2>3, LedgerUpdates DEF UpdateStatuses
  <2>5. QED
    BY <1>0, <1>1, <2>1, <2>4, OpenFrame DEF Covered
<1>4. CASE /\ CancelVenue /\ Venue!ExCancel(rec[canc.trace].exch)
           /\ canc' = [pc |-> "unregister", trace |-> canc.trace]
  <2>1. canc.pc = "venue" /\ UNCHANGED intents
    BY <1>4 DEF CancelVenue, ledgerVars
  <2>2. /\ Evolves
        /\ \A e \in 1..Len(exOrders) :
              exOrders[e].req = canc.trace => exOrders'[e].status = "cancelled"
    BY <1>4, <2>1, VenueCancels
  <2>3. NotOpen(canc.trace)'
    BY <1>4, <2>2 DEF NotOpen, Evolves
  <2>4. FillsTouched'
    BY <1>4, FillTouches DEF EngineType, OpenInv, FillsTouched
  <2>5. Covered
    BY <1>0, <2>1, LedgerStill DEF PersistedRows
  <2>6. \A e \in 1..Len(exOrders') : exOrders'[e].status = "open" => exOrders'[e].req \in Outstanding'
    BY <2>2, <2>5 DEF Covered, Evolves
  <2>7. \A c \in Clients : sub'[c].pc \in {"transition", "intent"} /\ sub'[c].ack # "open"
           => NotOpen(sub[c].trace)'
    BY <1>0, <2>2 DEF OpenInv, NotOpen, Evolves
  <2>8. poll'.pc \in Processing => NotOpen(poll.trace)'
    BY <1>0, <2>2 DEF OpenInv, NotOpen, Evolves
  <2>9. QED
    BY <1>0, <2>3, <2>4, <2>5, <2>6, <2>7, <2>8 DEF OpenInv, Covered, FillsTouched
<1>5. QED
    BY <1>2, <1>3, <1>4 DEF CancelOrder, CancelVenue

\* The poller works for an order that the venue has filled, and ends only its
\* intent.
LEMMA PollOpen ==
    ASSUME ExecInv, EngineType, LinkInv, OpenInv, NoCancelAll', Poll
    PROVE  OpenInv'
<1>0. UNCHANGED <<sub, orders, canc, exOrders, exFills>>
    BY DEF Poll, PollStart, PollFetch, PollError, PollDone, PollLookup, PollPersist, PollApply,
           PollUnregister, PollIntent, PollReport, dbVars, venueVars
<1>1. Evolves /\ FillsTouched'
    BY <1>0 DEF Evolves, FillsTouched, OpenInv
<1>2. CASE PollIntent
  <2>1. poll.pc = "intent" /\ poll'.pc = "report" /\ poll'.trace = poll.trace
        /\ WriteIntent(poll.trace, "filled")
    BY <1>2 DEF PollIntent, PollGoto
  <2>2. poll.pc \in Processing /\ poll.trace \in Traces /\ Held(poll.trace)
    BY <2>1 DEF Held, Processing, EngineType, PollInv
  <2>3. poll.trace \in PersistedRows /\ NotOpen(poll.trace)
    BY <2>2 DEF LinkInv, AloneAtVenue, OpenInv
  <2>4. \A c \in Clients : sub[c].pc = "venue" => sub[c].trace # poll.trace
    BY <2>2 DEF LinkInv, AloneAtVenue, AtVenue
  <2>5. Covered
    BY <1>0, <2>1, <2>3, <2>4, LedgerUpdates DEF UpdateStatuses
  <2>6. QED
    BY <1>0, <1>1, <2>1, <2>2, <2>5, OpenFrame DEF Covered
<1>3. ~PollIntent => UNCHANGED intents
    BY DEF Poll, PollStart, PollFetch, PollError, PollDone, PollLookup, PollPersist, PollApply,
           PollUnregister, PollReport, ledgerVars
<1>4. UNCHANGED intents => Covered
    BY <1>0, LedgerStill DEF PersistedRows
<1>5. CASE ~PollIntent /\ (poll'.pc \in Processing
                              => poll.pc \in Processing /\ poll'.trace = poll.trace)
    BY <1>0, <1>1, <1>3, <1>4, <1>5, OpenFrame DEF Covered
<1>6. CASE PollLookup /\ poll'.pc \in Processing
  <2>1. /\ poll.pc = "fill" /\ poll.next <= poll.last
        /\ poll'.trace \in openOrders /\ rec[poll'.trace].exch = exFills[poll.next].order
    BY <1>6 DEF PollLookup, PollGoto, NextFill, Processing, Owns, PollFill
  <2>2. poll.next \in 1..Len(exFills)
    BY <2>1 DEF EngineType, PollInv, PollType, VenueType
  <2>3. Held(poll'.trace)
    BY <2>1 DEF Held
  <2>4. \A e \in 1..Len(exOrders) : exOrders[e].req = poll'.trace => exOrders[e].status # "open"
    BY <2>1, <2>2, <2>3 DEF LinkInv, Linked, AloneAtVenue, AtVenue, OpenInv
  <2>5. Covered
    BY <1>4, <1>6 DEF PollLookup, ledgerVars
  <2>6. NotOpen(poll.trace)'
    BY <1>0, <2>4 DEF NotOpen
  <2>7. canc'.pc \in {"unregister", "intent"} => NotOpen(canc.trace)'
    BY <1>0 DEF OpenInv, NotOpen
  <2>8. \A c \in Clients : sub'[c].pc \in {"transition", "intent"} /\ sub'[c].ack # "open"
           => NotOpen(sub[c].trace)'
    BY <1>0 DEF OpenInv, NotOpen
  <2>9. QED
    BY <1>0, <1>1, <2>5, <2>6, <2>7, <2>8 DEF OpenInv, Covered, FillsTouched
<1>7. QED
  <2>1. ~PollIntent /\ ~PollLookup => (poll'.pc \in Processing
                              => poll.pc \in Processing /\ poll'.trace = poll.trace)
    BY DEF Poll, PollStart, PollFetch, PollError, PollDone, PollPersist, PollApply,
           PollUnregister, PollReport, PollGoto, NextFill, IdlePoll, Processing
  <2>2. QED
    BY <1>2, <1>5, <1>6, <2>1

\* Every step keeps the intents of untouched orders outstanding.
LEMMA OpenInvStep ==
    ASSUME "cancelall" \notin Cancels
    PROVE  ExecInv /\ EngineType /\ LinkInv /\ OpenInv /\ [Next]_vars => OpenInv'
<1> SUFFICES ASSUME ExecInv, EngineType, LinkInv, OpenInv, [Next]_vars PROVE OpenInv'
    OBVIOUS
<1>0. NoCancelAll' /\ ~CancelAll
    BY NoCancelAllStep DEF OpenInv
<1>1. CASE UNCHANGED vars \/ (\E a \in Shared : transitionOrder(a))
           \/ (\E m \in Modes : SetSystemMode(m)) \/ ExchangeStep \/ RecoverFull
  <2>1. UNCHANGED <<intents, canc, poll, sub>>
    BY <1>1 DEF vars, transitionOrder, TransCheck, TransSet, TransWrite, SetSystemMode, ExchangeStep,
                RecoverFull, procVars, ledgerVars
  <2>2. Evolves /\ FillsTouched'
    <3>1. CASE UNCHANGED <<exOrders, exFills>>
      BY <3>1 DEF Evolves, FillsTouched, OpenInv
    <3>2. CASE ExchangeStep
      BY <3>2, VenueMoves, FillTouches DEF ExchangeStep, EngineType, FillsTouched, OpenInv
    <3>3. QED
      BY <1>1, <3>1, <3>2 DEF vars, transitionOrder, TransCheck, TransSet, TransWrite,
         SetSystemMode, RecoverFull, venueVars
  <2>3. PersistedRows \subseteq PersistedRows'
    <3>1. CASE UNCHANGED orders
      BY <3>1 DEF PersistedRows
    <3>2. ASSUME NEW a \in Shared, TransWrite(a)
          PROVE  PersistedRows \subseteq PersistedRows'
      <4>1. tr[a].trace \in PersistedRows /\ tr[a].row.status # "none"
        BY <3>2 DEF TransWrite, ExecInv, RegInv, TrInv
      <4>2. QED
        BY <3>2, <4>1, RowWrite DEF TransWrite, ExecInv, PlaceInv
    <3>3. QED
      BY <1>1, <3>1, <3>2 DEF vars, transitionOrder, TransCheck, TransSet, SetSystemMode,
         ExchangeStep, RecoverFull, dbVars
  <2>4. Covered
    BY <2>1, <2>3, LedgerStill
  <2>5. QED
    BY <1>0, <2>1, <2>2, <2>4, OpenFrame DEF Covered
<1>2. CASE Crash
  <2>1. /\ canc'.pc = "idle" /\ poll'.pc = "idle" /\ exOrders' = << >> /\ exFills' = << >>
        /\ UNCHANGED <<intents, orders>>
    BY <1>2 DEF Crash, IdleCanc, IdlePoll, dbVars
  <2>2. \A c \in Clients : sub'[c].pc = "idle"
    BY <1>2 DEF Crash, IdleSub
  <2>3. Covered
    BY <2>1, LedgerStill DEF PersistedRows
  <2>4. QED
    BY <1>0, <2>1, <2>2, <2>3 DEF OpenInv, Covered, Processing
<1>3. QED
    BY <1>0, <1>1, <1>2, SubmitOpen, CancelOpen, PollOpen DEF Next

\* The invariant holds at the start.
LEMMA OpenInvInit == Init => OpenInv
<1> SUFFICES ASSUME Init PROVE OpenInv
    OBVIOUS
<1>1. /\ \A c \in Clients : sub[c].pc = "idle"
      /\ ca.pc = "idle" /\ canc.pc = "idle" /\ poll.pc = "idle"
      /\ exOrders = << >> /\ exFills = << >>
    BY DEF Init, Venue!ExInit, IdleSub, IdleCa, IdleCanc, IdlePoll
<1>2. tr["cancelall"].pc = "idle"
    BY DEF Init, IdleTr, Shared, Cancellers
<1>3. Rows = {}
    BY DEF Init, LedgerInit, Rows
<1>4. QED
    BY <1>1, <1>2, <1>3 DEF OpenInv, NoCancelAll, Processing

\* The orders nothing has filled, of LiveImpliesOutstanding.
UntouchedOutstanding ==
    \A e \in Venue!ExIds : exOrders[e].status = "open" => exOrders[e].req \in Outstanding

\* For every quantity: while an order stands at the venue untouched, its intent
\* counts as outstanding, whatever statement or call fails, in whatever order
\* the submitters, the poller and CancelOrder run, and across crashes.
THEOREM UntouchedOrdersCounted ==
    ASSUME "cancelall" \notin Cancels
    PROVE  Spec => []UntouchedOutstanding
<1>1. OpenInv => UntouchedOutstanding
    BY DEF OpenInv, UntouchedOutstanding, Venue!ExIds
<1>2. ExecInv /\ EngineType /\ LinkInv /\ OpenInv /\ [Next]_vars => OpenInv'
    BY OpenInvStep
<1>3. QED
    BY <1>1, <1>2, OpenInvInit, ExecInvInit, ExecInvStep, EngineTypeInit, EngineTypeStep,
       LinkInvInit, LinkInvStep, PTL DEF Spec

\* The venue has cancelled, or filled, the order with an exchange id.
CancelledAt(e) == e \in 1..Len(exOrders) /\ exOrders[e].status = "cancelled"
FilledAt(e) == e \in 1..Len(exOrders) /\ exOrders[e].status = "filled"

\* Neither is ever undone.
Settles ==
    \A e : (CancelledAt(e) => CancelledAt(e)') /\ (FilledAt(e) => FilledAt(e)')

\* Orders of one contract are filled whole or not at all.
Whole ==
    /\ \A e \in 1..Len(exOrders) :
          /\ exOrders[e].status # "partially_filled"
          /\ exOrders[e].status = "open" => exOrders[e].filled = 0
    /\ \A e \in filler : e \in 1..Len(exOrders) /\ exOrders[e].status \in {"open", "cancelled"}
    /\ \A f \in 1..Len(exFills) : exFills[f].qty = 1 /\ FilledAt(exFills[f].order)

\* A step that leaves the venue alone.
LEMMA WholeFrame ==
    ASSUME Whole, UNCHANGED <<exOrders, exFills, filler>>
    PROVE  Whole' /\ Settles
<1>1. \A e : (CancelledAt(e)' <=> CancelledAt(e)) /\ (FilledAt(e)' <=> FilledAt(e))
    BY DEF CancelledAt, FilledAt
<1>2. QED
    BY <1>1 DEF Whole, Settles

\* An order that is replaced by one that is complete or cancelled, and that was
\* neither filled nor, if it is now filled, cancelled.
LEMMA WholeReplace ==
    ASSUME VenueType, Whole, NEW e \in 1..Len(exOrders), NEW o \in VenueOrder,
           exOrders' = [exOrders EXCEPT ![e] = o], exOrders[e].status # "filled",
           \/ o.status = "cancelled" /\ UNCHANGED <<exFills, filler>>
           \/ /\ o.status = "filled" /\ exOrders[e].status # "cancelled"
              /\ filler' = filler \ {e}
              /\ exFills' = Append(exFills, [order |-> e, qty |-> 1])
    PROVE  Whole' /\ Settles
<1> DEFINE Full(d) == d \in 1..Len(exOrders') /\ exOrders'[d].status = "filled"
<1>1. /\ exOrders \in Seq(VenueOrder) /\ exFills \in Seq(VenueFill)
      /\ Len(exOrders) \in Nat /\ Len(exFills) \in Nat
    BY DEF VenueType
<1>2. /\ Len(exOrders') = Len(exOrders)
      /\ exOrders'[e] = o
      /\ \A d \in 1..Len(exOrders) : d # e => exOrders'[d] = exOrders[d]
    BY <1>1
<1>3. Settles
    BY <1>2 DEF Settles, CancelledAt, FilledAt
<1>4. \A d \in 1..Len(exOrders') :
         /\ exOrders'[d].status # "partially_filled"
         /\ exOrders'[d].status = "open" => exOrders'[d].filled = 0
  <2>1. ASSUME NEW d \in 1..Len(exOrders')
        PROVE  /\ exOrders'[d].status # "partially_filled"
               /\ exOrders'[d].status = "open" => exOrders'[d].filled = 0
    <3>1. CASE d = e
      BY <1>2, <3>1
    <3>2. CASE d # e
      BY <1>2, <2>1, <3>2 DEF Whole
    <3>3. QED
      BY <3>1, <3>2
  <2>2. QED
    BY <2>1
<1>5. \A d \in filler' : d \in 1..Len(exOrders') /\ exOrders'[d].status \in {"open", "cancelled"}
  <2>1. ASSUME NEW d \in filler'
        PROVE  d \in 1..Len(exOrders') /\ exOrders'[d].status \in {"open", "cancelled"}
    <3>1. d \in filler /\ d \in 1..Len(exOrders) /\ exOrders[d].status \in {"open", "cancelled"}
      BY <2>1 DEF Whole
    <3>2. CASE d = e
      BY <1>2, <2>1, <3>2
    <3>3. CASE d # e
      BY <1>2, <3>1, <3>3
    <3>4. QED
      BY <3>2, <3>3
  <2>2. QED
    BY <2>1
<1>6. \A f \in 1..Len(exFills') : exFills'[f].qty = 1 /\ Full(exFills'[f].order)
  <2>1. \A f \in 1..Len(exFills) : exFills[f].qty = 1 /\ Full(exFills[f].order)
    BY <1>3 DEF Whole, Settles, FilledAt
  <2>2. CASE UNCHANGED exFills
    BY <2>1, <2>2
  <2>3. CASE o.status = "filled" /\ exFills' = Append(exFills, [order |-> e, qty |-> 1])
    <3>1. [order |-> e, qty |-> 1] \in VenueFill
      BY <1>1 DEF VenueFill
    <3>2. /\ Len(exFills') = Len(exFills) + 1
          /\ \A f \in 1..Len(exFills) : exFills'[f] = exFills[f]
          /\ exFills'[Len(exFills) + 1] = [order |-> e, qty |-> 1]
      BY <1>1, <2>3, <3>1
    <3>3. Full(e)
      BY <1>2, <2>3
    <3> HIDE DEF Full
    <3>4. ASSUME NEW f \in 1..Len(exFills')
          PROVE  exFills'[f].qty = 1 /\ Full(exFills'[f].order)
      <4>1. CASE f = Len(exFills) + 1
        BY <3>2, <3>3, <4>1
      <4>2. CASE f \in 1..Len(exFills)
        BY <2>1, <3>2, <4>2
      <4>3. QED
        BY <1>1, <3>2, <4>1, <4>2
    <3>5. QED
      BY <3>4
  <2>4. QED
    BY <2>2, <2>3
<1>7. QED
    BY <1>3, <1>4, <1>5, <1>6 DEF Whole, FilledAt

\* An attempt to fill one contract and a cancel of one order.
LEMMA WholeMoves ==
    ASSUME \A t \in Traces : Quantity[t] = 1, VenueType, Whole,
           \/ \E e \in Venue!ExIds : Venue!ExFill(e) \/ Venue!ExNoFill(e)
           \/ \E e : Venue!ExCancel(e)
    PROVE  Whole' /\ Settles
<1>0. /\ exOrders \in Seq(VenueOrder) /\ Len(exOrders) \in Nat
      /\ \A e \in 1..Len(exOrders) : exOrders[e] \in VenueOrder
    BY DEF VenueType
<1>1. ASSUME NEW e \in Venue!ExIds, Venue!ExFill(e)
      PROVE  Whole' /\ Settles
  <2> DEFINE o == exOrders[e]
             new(q) == [req |-> o.req, filled |-> o.filled + q,
                        status |-> IF 1 - q <= 0 THEN "filled" ELSE "partially_filled"]
  <2>1. e \in 1..Len(exOrders) /\ o \in VenueOrder /\ o.req \in Traces /\ Quantity[o.req] = 1
    BY <1>0 DEF Venue!ExIds, VenueOrder
  <2>2. e \in filler /\ o.status # "cancelled"
    BY <1>1 DEF Venue!ExFill, Venue!Fillable
  <2>3. o.status = "open" /\ o.filled = 0
    BY <2>1, <2>2 DEF Whole
  <2>4. Venue!PartialSizes(1) = {} /\ Quantity[o.req] - o.filled = 1
    BY <2>1, <2>3 DEF Venue!PartialSizes
  <2>5. \E q \in {1} \cup Venue!PartialSizes(1) :
           /\ exFills' = Append(exFills, [order |-> e, qty |-> q])
           /\ exOrders' = [exOrders EXCEPT ![e] = new(q)]
           /\ filler' = Venue!Reschedule(e, 1 - q)
    BY <1>1, <2>4 DEF Venue!ExFill
  <2>6. /\ exFills' = Append(exFills, [order |-> e, qty |-> 1])
        /\ exOrders' = [exOrders EXCEPT ![e] = new(1)]
        /\ filler' = Venue!Reschedule(e, 1 - 1)
    BY <2>4, <2>5
  <2>7. filler' = filler \ {e}
    BY <2>6 DEF Venue!Reschedule
  <2>8. new(1) \in VenueOrder /\ new(1).status = "filled"
    BY <2>1, <2>3 DEF VenueOrder, Venue!ExStatus, Venue!ExLive
  <2> HIDE DEF new
  <2>9. QED
    BY <2>1, <2>3, <2>6, <2>7, <2>8, WholeReplace
<1>2. ASSUME NEW e, Venue!ExCancel(e)
      PROVE  Whole' /\ Settles
  <2> DEFINE new == [exOrders[e] EXCEPT !.status = "cancelled"]
  <2>1. /\ e \in 1..Len(exOrders) /\ exOrders[e].status # "filled"
        /\ exOrders' = [exOrders EXCEPT ![e] = new] /\ UNCHANGED <<exFills, filler>>
    BY <1>2 DEF Venue!ExCancel, Venue!Cancellable, Venue!ExIds
  <2>2. new \in VenueOrder /\ new.status = "cancelled"
    BY <1>0, <2>1 DEF VenueOrder, Venue!ExStatus
  <2> HIDE DEF new
  <2>3. QED
    BY <2>1, <2>2, WholeReplace
<1>3. ASSUME NEW e, Venue!ExNoFill(e)
      PROVE  Whole' /\ Settles
  <2>1. filler' \subseteq filler /\ UNCHANGED <<exOrders, exFills>>
    BY <1>3 DEF Venue!ExNoFill
  <2>2. \A d : (CancelledAt(d)' <=> CancelledAt(d)) /\ (FilledAt(d)' <=> FilledAt(d))
    BY <2>1 DEF CancelledAt, FilledAt
  <2>3. QED
    BY <2>1, <2>2 DEF Whole, Settles
<1>4. QED
    BY <1>1, <1>2, <1>3

\* A new order.
LEMMA WholeAdds ==
    ASSUME VenueType, Whole, NEW t \in Traces, NEW s \in {"open", "rejected"},
           Venue!ExSubmit(t, s)
    PROVE  Whole' /\ Settles
<1>1. /\ VenueType' /\ UNCHANGED exFills
      /\ Len(exOrders') = Len(exOrders) + 1 /\ Len(exOrders) \in Nat
      /\ \A e \in 1..Len(exOrders) : exOrders'[e] = exOrders[e]
      /\ exOrders'[Len(exOrders) + 1].status = s
    BY VenueAdds DEF VenueType
<1>2. exOrders'[Len(exOrders) + 1].filled = 0
    BY <1>1, VenueAdds DEF Venue!ExSubmit, VenueType
<1>3. filler' \subseteq filler \cup {Len(exOrders) + 1}
      /\ (s # "open" => filler' = filler)
    BY DEF Venue!ExSubmit
<1>4. \A e : (CancelledAt(e) => CancelledAt(e)') /\ (FilledAt(e) => FilledAt(e)')
    BY <1>1 DEF CancelledAt, FilledAt
<1>5. \A e \in 1..Len(exOrders') :
         /\ exOrders'[e].status # "partially_filled"
         /\ exOrders'[e].status = "open" => exOrders'[e].filled = 0
    BY <1>1, <1>2 DEF Whole
<1>6. \A e \in filler' : e \in 1..Len(exOrders') /\ exOrders'[e].status \in {"open", "cancelled"}
  <2>1. ASSUME NEW e \in filler'
        PROVE  e \in 1..Len(exOrders') /\ exOrders'[e].status \in {"open", "cancelled"}
    <3>1. CASE e \in filler
      BY <1>1, <3>1 DEF Whole
    <3>2. CASE e = Len(exOrders) + 1 /\ s = "open"
      BY <1>1, <3>2
    <3>3. QED
      BY <1>3, <2>1, <3>1, <3>2
  <2>2. QED
    BY <2>1
<1>7. \A f \in 1..Len(exFills') :
         /\ exFills'[f].qty = 1
         /\ exFills'[f].order \in 1..Len(exOrders')
         /\ exOrders'[exFills'[f].order].status = "filled"
    BY <1>1 DEF Whole, FilledAt
<1>8. QED
    BY <1>4, <1>5, <1>6, <1>7 DEF Whole, Settles, FilledAt

\* No step fills a part of one contract, and none undoes a fill or a cancel while
\* the exchange lives.
LEMMA WholeStep ==
    ASSUME \A t \in Traces : Quantity[t] = 1, "cancelall" \notin Cancels
    PROVE  ExecInv /\ EngineType /\ NoCancelAll /\ Whole /\ [Next]_vars
              => Whole' /\ (~Crash => Settles)
<1> SUFFICES ASSUME ExecInv, EngineType, NoCancelAll, Whole, [Next]_vars
             PROVE  Whole' /\ (~Crash => Settles)
    OBVIOUS
<1>0. VenueType /\ ~CancelAll
    BY NoCancelAllStep DEF EngineType
<1>1. CASE UNCHANGED venueVars
    BY <1>1, WholeFrame DEF venueVars
<1>2. CASE Crash
    BY <1>2 DEF Crash, Whole
<1>3. ASSUME NEW c \in Clients, SubmitOrder(c)
      PROVE  Whole' /\ Settles
  <2>1. CASE SubmitVenue(c)
    <3>1. sub[c].trace \in Traces
      BY <2>1 DEF SubmitVenue, ExecInv, SubInv, AtVenue, PersistedRows
    <3>2. QED
      BY <1>0, <2>1, <3>1, WholeAdds, WholeFrame DEF SubmitVenue, venueVars
  <2>2. QED
    BY <1>3, <2>1, WholeFrame DEF SubmitOrder, SubmitGate, SubmitAppend, SubmitAppended,
       SubmitPersist, SubmitTransition, SubmitIntent, SubmitRegister, venueVars
<1>4. CASE ExchangeStep
    BY <1>0, <1>4, WholeMoves DEF ExchangeStep
<1>5. CASE CancelOrder
    BY <1>0, <1>5, WholeMoves, WholeFrame DEF CancelOrder, CancelLookup, CancelVenue,
       CancelUnregister, CancelIntent, venueVars
<1>6. CASE Poll
    BY <1>1, <1>6 DEF Poll, PollStart, PollFetch, PollError, PollDone, PollLookup, PollPersist,
       PollApply, PollUnregister, PollIntent, PollReport
<1>7. QED
    BY <1>0, <1>1, <1>2, <1>3, <1>4, <1>5, <1>6 DEF Next, vars, transitionOrder, TransCheck,
       TransSet, TransWrite, SetSystemMode, RecoverFull

\* LiveImpliesOutstanding for orders of one contract, which is what the deployed
\* strategy proposes: nothing that can still fill is missing from the exposure.
\* (With larger orders two overlapping polls book a partial fill twice, and the
\* engine ends the intent of an order that is half filled.)
THEOREM UnitOrdersCounted ==
    ASSUME "cancelall" \notin Cancels, \A t \in Traces : Quantity[t] = 1
    PROVE  Spec => []LiveImpliesOutstanding
<1>1. Init => Whole
    BY DEF Init, Venue!ExInit, Whole
<1>2. OpenInv /\ Whole => LiveImpliesOutstanding
    BY DEF OpenInv, Whole, LiveImpliesOutstanding, Venue!ExIds, Venue!ExLive
<1>3. ExecInv /\ EngineType /\ LinkInv /\ OpenInv /\ [Next]_vars => OpenInv'
    BY OpenInvStep
<1>4. ExecInv /\ EngineType /\ OpenInv /\ Whole /\ [Next]_vars => Whole'
    BY WholeStep DEF OpenInv
<1>5. QED
    BY <1>1, <1>2, <1>3, <1>4, OpenInvInit, ExecInvInit, ExecInvStep, EngineTypeInit,
       EngineTypeStep, LinkInvInit, LinkInvStep, PTL DEF Spec

-----------------------------------------------------------------------------
\* Fills go to their order

\* The venue forgets no order.
VenueKeeps ==
    /\ Len(exOrders) \in Nat /\ Len(exOrders') \in Nat /\ Len(exOrders) <= Len(exOrders')
    /\ \A e \in 1..Len(exOrders) : exOrders'[e].req = exOrders[e].req

\* Without a crash, orders and fills are only added at the venue.
LEMMA VenueRemembers ==
    ASSUME ExecInv, EngineType, EngineType', [Next]_vars, ~Crash
    PROVE  VenueKeeps /\ FillsGrow
<1>0. Len(exOrders) \in Nat /\ Len(exOrders') \in Nat
    BY DEF EngineType, VenueType
<1>1. CASE UNCHANGED <<exOrders, exFills>>
    BY <1>0, <1>1, VenueFrame DEF VenueKeeps, EngineType
<1>2. ASSUME \/ \E e \in Venue!ExIds : Venue!ExFill(e) \/ Venue!ExNoFill(e)
             \/ \E e : Venue!ExCancel(e)
             \/ Venue!ExCancelAll
      PROVE  VenueKeeps /\ FillsGrow
  <2>1. Evolves /\ FillsGrow
    BY <1>2, VenueMoves DEF EngineType
  <2>2. QED
    BY <1>0, <2>1 DEF VenueKeeps, Evolves
<1>3. ASSUME NEW c \in Clients, SubmitVenue(c)
      PROVE  VenueKeeps /\ FillsGrow
  <2>1. sub[c].trace \in Traces
    BY <1>3 DEF SubmitVenue, ExecInv, SubInv, AtVenue, PersistedRows
  <2>2. ASSUME NEW ack \in {"open", "rejected"}, Venue!ExSubmit(sub[c].trace, ack)
        PROVE  VenueKeeps /\ FillsGrow
    BY <1>0, <2>1, <2>2, VenueAdds DEF VenueKeeps, EngineType
  <2>3. QED
    BY <1>1, <1>3, <2>2 DEF SubmitVenue, venueVars
<1>4. ASSUME NEW c \in Clients, SubmitOrder(c)
      PROVE  VenueKeeps /\ FillsGrow
    BY <1>1, <1>3, <1>4 DEF SubmitOrder, SubmitGate, SubmitAppend, SubmitAppended, SubmitPersist,
       SubmitTransition, SubmitIntent, SubmitRegister, venueVars
<1>5. CASE CancelOrder \/ CancelAll \/ ExchangeStep
    BY <1>1, <1>2, <1>5 DEF CancelOrder, CancelLookup, CancelVenue, CancelUnregister,
       CancelIntent, CancelAll, CaVenue, CaLock, CaLoop, CaIntent, CaUnlock, ExchangeStep, venueVars
<1>6. CASE Poll
    BY <1>1, <1>6 DEF Poll, PollStart, PollFetch, PollError, PollDone, PollLookup, PollPersist,
       PollApply, PollUnregister, PollIntent, PollReport, venueVars
<1>7. QED
    BY <1>1, <1>4, <1>5, <1>6 DEF Next, vars, venueVars, transitionOrder, TransCheck, TransSet,
       TransWrite, SetSystemMode, RecoverFull

\* A name stays good.
LEMMA NameStays ==
    ASSUME VenueKeeps, NEW t, NEW e, Names(t, e)
    PROVE  Names(t, e)'
BY DEF VenueKeeps, Names

\* No submitter at the venue moves.
LEMMA SubNamedFrame ==
    ASSUME SubNamed, VenueKeeps,
           \A c \in Clients : sub'[c].pc \in {"transition", "intent", "register"}
              => sub'[c] = sub[c] /\ rec'[sub[c].trace].exch = rec[sub[c].trace].exch
    PROVE  SubNamed'
<1>1. ASSUME NEW c \in Clients, sub'[c].pc \in {"transition", "intent", "register"},
             sub'[c].ack = "open"
      PROVE  Names(sub[c].trace, sub[c].exch)'
  <2>1. sub'[c] = sub[c] /\ Names(sub[c].trace, sub[c].exch)
    BY <1>1 DEF SubNamed
  <2>2. QED
    BY <2>1 DEF VenueKeeps, Names
<1>2. QED
    BY <1>1 DEF SubNamed

\* Open orders keep the exchange ids of their records.
LEMMA OpenNamedFrame ==
    ASSUME OpenNamed, VenueKeeps, openOrders' \subseteq openOrders,
           \A t \in openOrders : rec'[t].exch = rec[t].exch
    PROVE  OpenNamed'
BY DEF OpenNamed, VenueKeeps, Names

\* The poller has found no new order.
LEMMA PollNamedFrame ==
    ASSUME EngineType, PollNamed, VenueKeeps, FillsGrow,
           poll'.pc = "persist" => poll' = poll
    PROVE  PollNamed'
<1> SUFFICES ASSUME poll'.pc = "persist" PROVE PollNamed'
    BY DEF PollNamed
<1>1. poll' = poll /\ poll.next \in 1..Len(exFills)
    BY DEF EngineType, PollInv, PollType, VenueType, Processing
<1>2. Names(poll.trace, exFills[poll.next].order) /\ exFills'[poll.next] = exFills[poll.next]
    BY <1>1 DEF PollNamed, FillsGrow
<1>3. QED
    BY <1>1, <1>2 DEF PollNamed, VenueKeeps, Names

\* SubmitOrder puts the venue's answer into the record before the order is
\* registered.
LEMMA SubmitNamed ==
    ASSUME ExecInv, EngineType, EngineType', LinkInv, AddressInv, VenueKeeps, FillsGrow,
           NEW c \in Clients, SubmitOrder(c)
    PROVE  AddressInv'
<1> DEFINE t == sub[c].trace
<1>0. /\ UNCHANGED <<poll, crashes, up, fillRows>>
      /\ sub \in [Clients -> SubType] /\ rec \in [Traces -> Record]
    BY DEF SubmitOrder, SubmitGate, SubmitAppend, SubmitAppended, SubmitPersist, SubmitVenue,
           SubmitTransition, SubmitIntent, SubmitRegister, procVars, sysVars, dbVars, ExecInv, SubInv,
           EngineType, MemType
<1>1. PollNamed'
    BY <1>0, PollNamedFrame DEF AddressInv
<1>2. ASSUME SubNamed', OpenNamed'
      PROVE  AddressInv'
    BY <1>0, <1>1, <1>2 DEF AddressInv
<1>3. CASE (\E u \in Traces : SubmitGate(c, u)) \/ SubmitAppend(c) \/ SubmitAppended(c)
  <2>1. UNCHANGED <<rec, openOrders>>
    BY <1>3 DEF SubmitGate, SubmitAppend, SubmitAppended, memVars
  <2>2. \A d \in Clients : sub'[d].pc \in {"transition", "intent", "register"} => sub'[d] = sub[d]
    BY <1>0, <1>3 DEF SubmitGate, SubmitAppend, SubmitAppended, SubGoto, SubAcked, SubReturn,
                      IdleSub, procVars
  <2>3. QED
    BY <1>2, <2>1, <2>2, SubNamedFrame, OpenNamedFrame DEF AddressInv
<1>4. CASE SubmitPersist(c)
  <2>1. /\ UNCHANGED openOrders /\ sub[c].pc = "persist"
        /\ \/ UNCHANGED rec
           \/ rec' = [rec EXCEPT ![t] = NewRecord] /\ t \notin PersistedRows
        /\ SubReturn(c) \/ SubGoto(c, "venue")
    BY <1>4 DEF SubmitPersist, KeyUnused
  <2>2. \A u \in PersistedRows : rec'[u] = rec[u]
    BY <1>0, <2>1 DEF PersistedRows
  <2>3. \A d \in Clients : sub'[d].pc \in {"transition", "intent", "register"}
           => sub'[d] = sub[d] /\ sub[d].trace \in PersistedRows
    BY <1>0, <2>1 DEF SubReturn, SubGoto, SubAcked, IdleSub, ExecInv, SubInv, AtVenue
  <2>4. openOrders \subseteq PersistedRows
    BY DEF ExecInv, RegInv
  <2>5. QED
    BY <1>2, <2>1, <2>2, <2>3, <2>4, SubNamedFrame, OpenNamedFrame DEF AddressInv
<1>5. CASE SubmitVenue(c)
  <2>1. UNCHANGED <<rec, openOrders>> /\ sub[c].pc = "venue"
    BY <1>5 DEF SubmitVenue, memVars
  <2>2. t \in Traces
    BY <2>1 DEF ExecInv, SubInv, AtVenue, PersistedRows
  <2>3. /\ sub'[c].pc = "transition" /\ sub'[c].trace = t
        /\ \A d \in Clients : d # c => sub'[d] = sub[d]
    BY <1>0, <1>5 DEF SubmitVenue, SubAcked
  <2>4. sub'[c].ack = "open" => Names(sub[c].trace, sub[c].exch)'
    <3>1. CASE Venue!ExSubmit(t, "open") /\ SubAcked(c, "transition", "open", Len(exOrders) + 1)
      <4>1. sub'[c].exch = Len(exOrders) + 1
        BY <1>0, <3>1 DEF SubAcked
      <4>2. Len(exOrders') = Len(exOrders) + 1 /\ exOrders'[Len(exOrders) + 1].req = t
        BY <2>2, <3>1, VenueAdds DEF EngineType
      <4>3. QED
        BY <2>3, <4>1, <4>2 DEF Names, VenueKeeps
    <3>2. CASE SubAcked(c, "transition", "rejected", Len(exOrders) + 1)
               \/ SubAcked(c, "transition", "failed", NullId)
      BY <1>0, <3>2 DEF SubAcked
    <3>3. QED
      BY <1>5, <3>1, <3>2 DEF SubmitVenue
  <2>5. \A d \in Clients : d # c => (Names(sub[d].trace, sub[d].exch)
                                        => Names(sub[d].trace, sub[d].exch)')
    BY <2>3 DEF Names, VenueKeeps
  <2>6. SubNamed'
    BY <2>1, <2>3, <2>4, <2>5 DEF AddressInv, SubNamed
  <2>7. QED
    BY <1>2, <2>1, <2>6, OpenNamedFrame DEF AddressInv
<1>6. CASE SubmitTransition(c)
  <2> DEFINE row == [status |-> sub[c].ack, filled |-> 0, exch |-> sub[c].exch]
  <2>1. /\ UNCHANGED <<openOrders, exOrders>> /\ sub[c].pc = "transition"
        /\ rec' = [rec EXCEPT ![t] = row] /\ SubGoto(c, "intent")
    BY <1>6 DEF SubmitTransition, venueVars
  <2>2. /\ t \in Traces /\ ~Held(t)
        /\ \A d \in Clients : d # c /\ sub[d].pc \in AtVenue => sub[d].trace # t
                                                               /\ sub[d].trace \in Traces
    BY <2>1 DEF ExecInv, SubInv, AtVenue, PersistedRows, LinkInv, AloneAtVenue
  <2>3. rec'[t].exch = sub[c].exch /\ \A u \in Traces : u # t => rec'[u] = rec[u]
    BY <1>0, <2>1, <2>2
  <2> HIDE DEF row
  <2>4. /\ sub'[c].pc = "intent" /\ sub'[c].trace = t /\ sub'[c].exch = sub[c].exch
        /\ sub'[c].ack = sub[c].ack /\ \A d \in Clients : d # c => sub'[d] = sub[d]
    BY <1>0, <2>1 DEF SubGoto, SubAcked
  <2>5. OpenNamed'
    <3>1. \A u \in openOrders : u # t /\ u \in Traces
      BY <2>2 DEF Held, ExecInv, RegInv, PersistedRows
    <3>2. QED
      BY <2>1, <2>3, <3>1, OpenNamedFrame DEF AddressInv
  <2>6. \A d \in Clients : Names(sub[d].trace, sub[d].exch)' <=> Names(sub[d].trace, sub[d].exch)
    BY <2>1, <2>4 DEF Names
  <2>7. SubNamed'
    BY <2>1, <2>2, <2>3, <2>4, <2>6 DEF AddressInv, SubNamed, AtVenue
  <2>8. QED
    BY <1>2, <2>5, <2>7
<1>7. CASE SubmitIntent(c)
  <2>1. /\ UNCHANGED <<rec, openOrders, exOrders>> /\ sub[c].pc = "intent"
        /\ \/ sub[c].ack = "open" /\ SubGoto(c, "register")
           \/ SubReturn(c)
    BY <1>7 DEF SubmitIntent, memVars, venueVars
  <2>2. /\ \A d \in Clients : d # c => sub'[d] = sub[d]
        /\ \/ sub'[c].pc = "idle"
           \/ /\ sub'[c].pc = "register" /\ sub'[c].ack = "open" /\ sub[c].ack = "open"
              /\ sub'[c].trace = t /\ sub'[c].exch = sub[c].exch
    BY <1>0, <2>1 DEF SubGoto, SubAcked, SubReturn, IdleSub
  <2>3. SubNamed'
    BY <2>1, <2>2 DEF AddressInv, SubNamed, Names
  <2>4. QED
    BY <1>2, <2>1, <2>3, OpenNamedFrame DEF AddressInv
<1>8. CASE SubmitRegister(c)
  <2>1. /\ UNCHANGED <<rec, exOrders>> /\ openOrders' = openOrders \cup {t}
        /\ sub[c].pc = "register" /\ SubReturn(c)
    BY <1>8 DEF SubmitRegister, venueVars
  <2>2. \A d \in Clients : sub'[d].pc \in {"transition", "intent", "register"} => sub'[d] = sub[d]
    BY <1>0, <2>1 DEF SubReturn, IdleSub
  <2>3. Names(t, rec[t].exch)
    BY <2>1 DEF AddressInv, SubNamed
  <2>4. OpenNamed'
    BY <2>1, <2>3 DEF AddressInv, OpenNamed, Names
  <2>5. QED
    BY <1>2, <2>1, <2>2, <2>4, SubNamedFrame DEF AddressInv
<1>9. QED
    BY <1>3, <1>4, <1>5, <1>6, <1>7, <1>8 DEF SubmitOrder

LEMMA AddressInvInit == Init => AddressInv
<1> SUFFICES ASSUME Init PROVE AddressInv
    OBVIOUS
<1>1. \A c \in Clients : sub[c].pc = "idle"
    BY DEF Init, IdleSub
<1>2. QED
    BY <1>1 DEF Init, IdlePoll, AddressInv, SubNamed, OpenNamed, PollNamed

\* Every step keeps the names, as long as the exchange does not restart under
\* the engine's records.
LEMMA AddressInvStep ==
    ASSUME MaxCrashes = 0
    PROVE  ExecInv /\ EngineType /\ LinkInv /\ AddressInv /\ [Next]_vars => AddressInv'
<1> SUFFICES ASSUME ExecInv, EngineType, LinkInv, AddressInv, [Next]_vars PROVE AddressInv'
    OBVIOUS
<1>0. ~Crash /\ ~RecoverFull /\ EngineType'
    BY EngineTypeStep DEF Crash, RecoverFull, AddressInv
<1>1. VenueKeeps /\ FillsGrow
    BY <1>0, VenueRemembers
<1>2. /\ rec \in [Traces -> Record] /\ openOrders \subseteq Traces /\ sub \in [Clients -> SubType]
      /\ \A c \in Clients : sub[c].pc \in AtVenue => sub[c].trace \in Traces
      /\ SubNamed /\ OpenNamed /\ PollNamed
    BY DEF EngineType, MemType, ExecInv, RegInv, SubInv, PersistedRows, AddressInv
<1>3. ASSUME UNCHANGED <<sub, crashes, up>>, openOrders' \subseteq openOrders,
             \A t \in Traces : rec'[t].exch = rec[t].exch
      PROVE  SubNamed' /\ OpenNamed' /\ crashes' = 0 /\ up'
  <2>1. \A c \in Clients : sub'[c].pc \in {"transition", "intent", "register"}
           => sub'[c] = sub[c] /\ rec'[sub[c].trace].exch = rec[sub[c].trace].exch
    BY <1>2, <1>3 DEF AtVenue
  <2>2. QED
    BY <1>1, <1>2, <1>3, <2>1, SubNamedFrame, OpenNamedFrame DEF AddressInv
<1>4. ASSUME NEW a \in Shared, transitionOrder(a)
      PROVE  AddressInv'
  <2>1. UNCHANGED <<sub, crashes, up, openOrders, fillRows, poll>> /\ tr[a].pc # "idle"
    BY <1>4 DEF transitionOrder, TransCheck, TransSet, TransWrite, sysVars, dbVars, memVars
  <2>2. \A t \in Traces : rec'[t].exch = rec[t].exch
    <3>1. tr[a].trace \in Traces
      BY <2>1 DEF EngineType, ProcType
    <3>2. CASE TransSet(a)
      BY <1>2, <3>1, <3>2 DEF TransSet
    <3>3. QED
      BY <1>4, <3>2 DEF transitionOrder, TransCheck, TransWrite, memVars
  <2>3. QED
    BY <1>1, <1>2, <1>3, <2>1, <2>2, PollNamedFrame DEF AddressInv
<1>5. CASE \/ UNCHANGED vars \/ CancelOrder \/ CancelAll
           \/ \E m \in Modes : SetSystemMode(m)
           \/ ExchangeStep
  <2>1. UNCHANGED <<sub, crashes, up, rec, fillRows, poll>> /\ openOrders' \subseteq openOrders
    BY <1>5 DEF vars, CancelOrder, CancelLookup, CancelVenue, CancelUnregister, CancelIntent,
       CancelAll, CaVenue, CaLock, CaLoop, CaIntent, CaUnlock, Unregister, SetSystemMode,
       ExchangeStep, sysVars, dbVars, memVars, procVars
  <2>2. QED
    BY <1>1, <1>2, <1>3, <2>1, PollNamedFrame DEF AddressInv
<1>6. CASE Poll
  <2>1. UNCHANGED <<sub, crashes, up, exOrders, exFills>> /\ openOrders' \subseteq openOrders
    BY <1>6 DEF Poll, PollStart, PollFetch, PollError, PollDone, PollLookup, PollPersist,
       PollApply, PollUnregister, PollIntent, PollReport, Unregister, memVars, sysVars, venueVars
  <2>2. \A t \in Traces : rec'[t].exch = rec[t].exch
    <3>1. CASE PollApply
      BY <1>2, <3>1 DEF PollApply, Record
    <3>2. QED
      BY <1>6, <3>1 DEF Poll, PollStart, PollFetch, PollError, PollDone, PollLookup,
         PollPersist, PollUnregister, PollIntent, PollReport, memVars
  <2>3. fillRows' \in Seq([trace : Traces, fill : Nat])
    <3>1. CASE UNCHANGED fillRows
      BY <3>1 DEF AddressInv
    <3>2. CASE PollPersist
      <4>1. poll.trace \in Traces /\ poll.next \in Nat
        BY <3>2 DEF PollPersist, EngineType, PollInv, PollType, Processing
      <4>2. [trace |-> poll.trace, fill |-> poll.next] \in [trace : Traces, fill : Nat]
        BY <4>1
      <4>3. ASSUME NEW row \in [trace : Traces, fill : Nat], fillRows' = Append(fillRows, row)
            PROVE  fillRows' \in Seq([trace : Traces, fill : Nat])
        BY <4>3 DEF AddressInv
      <4>4. QED
        BY <3>1, <3>2, <4>2, <4>3 DEF PollPersist
    <3>3. QED
      BY <1>6, <3>1, <3>2 DEF Poll, PollStart, PollFetch, PollError, PollDone, PollLookup,
         PollApply, PollUnregister, PollIntent, PollReport, dbVars
  <2>4. PollNamed'
    <3>1. CASE PollLookup /\ poll'.pc = "persist"
      <4>1. /\ poll'.trace \in openOrders /\ rec[poll'.trace].exch = exFills[poll.next].order
            /\ poll'.next = poll.next
        BY <3>1 DEF PollLookup, PollGoto, NextFill, Owns, PollFill
      <4>2. Names(poll'.trace, exFills[poll.next].order)
        BY <1>2, <4>1 DEF OpenNamed
      <4>3. QED
        BY <2>1, <4>1, <4>2 DEF PollNamed, Names
    <3>2. CASE poll'.pc # "persist"
      BY <3>2 DEF PollNamed
    <3>3. QED
      BY <1>6, <3>1, <3>2 DEF Poll, PollStart, PollFetch, PollError, PollDone, PollPersist,
         PollApply, PollUnregister, PollIntent, PollReport, PollGoto, NextFill, IdlePoll
  <2>5. QED
    BY <1>3, <2>1, <2>2, <2>3, <2>4 DEF AddressInv
<1>7. QED
    BY <1>0, <1>1, <1>4, <1>5, <1>6, SubmitNamed DEF Next

\* FillsGoToTheirOrder for every number of orders and submitters, with CancelOrder
\* and CancelAll at any time and with failing statements and calls: processFill
\* books a fill for the order that was filled.  It needs the ids of the engine's
\* records to be those of the running exchange, and so no crash: the exchange of
\* paper trading counts its ids from 1 again.
THEOREM FillsBookedForTheirOrder ==
    ASSUME MaxCrashes = 0
    PROVE  Spec => FillsGoToTheirOrder
<1>1. Init => AddressInv
    BY AddressInvInit
<1>2. ExecInv /\ EngineType /\ LinkInv /\ AddressInv /\ [Next]_vars => AddressInv'
    BY AddressInvStep
<1>3. ASSUME EngineType, AddressInv, [Next]_vars, fillRows' # fillRows
      PROVE  exOrders[exFills[Last(fillRows').fill].order].req = Last(fillRows').trace
  <2>1. PollPersist
    BY <1>3 DEF Next, vars, SubmitOrder, SubmitGate, SubmitAppend, SubmitAppended,
       SubmitPersist, SubmitVenue, SubmitTransition, SubmitIntent, SubmitRegister, transitionOrder,
       TransCheck, TransSet, TransWrite, CancelOrder, CancelLookup, CancelVenue, CancelUnregister,
       CancelIntent, CancelAll, CaVenue, CaLock, CaLoop, CaIntent, CaUnlock, Poll, PollStart,
       PollFetch, PollError, PollDone, PollLookup, PollApply, PollUnregister, PollIntent,
       PollReport, SetSystemMode, ExchangeStep, Crash, RecoverFull, dbVars
  <2> DEFINE row == [trace |-> poll.trace, fill |-> poll.next]
  <2>2. fillRows' = Append(fillRows, row) /\ poll.pc = "persist"
    BY <1>3, <2>1 DEF PollPersist
  <2>3. Last(fillRows') = row
    <3>1. fillRows \in Seq([trace : Traces, fill : Nat])
      BY <1>3 DEF AddressInv
    <3>2. row \in [trace : Traces, fill : Nat]
      BY <1>3, <2>2 DEF EngineType, PollInv, PollType, Processing
    <3> HIDE DEF row
    <3>3. Len(fillRows') = Len(fillRows) + 1 /\ fillRows'[Len(fillRows) + 1] = row
      BY <2>2, <3>1, <3>2
    <3>4. QED
      BY <3>3 DEF Last
  <2>4. QED
    BY <1>3, <2>2, <2>3 DEF AddressInv, PollNamed, Names
<1>4. EngineType /\ AddressInv /\ [Next]_vars
        => [fillRows' # fillRows
              => LET row == Last(fillRows')
                 IN exOrders[exFills[row.fill].order].req = row.trace]_vars
    BY <1>3
<1>5. QED
    BY <1>1, <1>2, <1>4, ExecInvInit, ExecInvStep, EngineTypeInit, EngineTypeStep, LinkInvInit,
       LinkInvStep, PTL DEF Spec, FillsGoToTheirOrder
-----------------------------------------------------------------------------
\* The three records of an order of one contract

\* A transition belongs to the call that started it, and its UPDATE writes what
\* the record says.
SettleInv ==
    /\ NoCancelAll
    /\ tr["cancel"].pc # "idle" <=> canc.pc = "unregister"
    /\ tr["cancel"].pc # "idle" => tr["cancel"].trace = canc.trace /\ tr["cancel"].to = "cancelled"
    /\ tr["poll"].pc # "idle" <=> poll.pc = "unregister"
    /\ tr["poll"].pc # "idle" => tr["poll"].trace = poll.trace /\ tr["poll"].to = "filled"
    /\ \A a \in Shared : tr[a].pc = "write" => tr[a].row = rec[tr[a].trace]

\* The canceller has an order the venue has cancelled, the poller one it has
\* filled: never the same one.
ApartInv ==
    /\ canc.pc = "venue" => canc.trace \in openOrders \/ FilledAt(rec[canc.trace].exch)
    /\ canc.pc = "unregister" => canc.trace \in openOrders /\ CancelledAt(rec[canc.trace].exch)
    /\ poll.pc \in {"persist", "apply", "unregister"}
          => poll.trace \in openOrders /\ FilledAt(rec[poll.trace].exch)

\* The transition a works on t, has reached its UPDATE, or is past it.
Moving(a, t) == tr[a].pc # "idle" /\ tr[a].trace = t
Writing(a, t) == tr[a].pc = "write" /\ tr[a].trace = t
Written(a, t) == tr[a].pc = "done" /\ tr[a].trace = t

\* The record and the row of an open order.
OpenRecord(t) ==
    /\ (\A a \in Shared : ~Writing(a, t) /\ ~Written(a, t))
          => rec[t].status = "open" /\ orders[t].status = "open"
    /\ rec[t] = orders[t] \/ \E a \in Shared : Moving(a, t)
    /\ \A a \in Shared :
          /\ Writing(a, t) => rec[t].status = tr[a].to /\ orders[t].status = "open"
          /\ Written(a, t) => orders[t].status = tr[a].to

\* The record and the row of an order its submitter has in hand.
SubmitRecord(c) ==
    LET t == sub[c].trace
    IN /\ sub[c].pc \in {"venue", "transition"} => orders[t].status = "pending"
       /\ sub[c].pc \in {"intent", "register"} => orders[t] = rec[t] /\ orders[t].status = sub[c].ack
       /\ sub[c].pc = "register" => sub[c].ack = "open"

\* A row: live only while its intent is.
RowOk(t) ==
    /\ orders[t].status # "partially_filled"
    /\ orders[t].status = "pending" => orders[t].exch = NullId
    /\ orders[t].status \in OrderLive => t \in Outstanding

TableInv ==
    /\ \A t \in Traces : RowOk(t)
    /\ canc.pc = "intent" => orders[canc.trace].status = "cancelled"
    /\ poll.pc = "intent" => orders[poll.trace].status = "filled"

RowInv ==
    /\ Whole
    /\ SettleInv
    /\ ApartInv
    /\ \A t \in openOrders : OpenRecord(t)
    /\ \A c \in Clients : SubmitRecord(c)
    /\ TableInv

\* What the layers below say, and what the steps of this section rest on.
Below == ExecInv /\ EngineType /\ LinkInv /\ OpenInv

\* The types that the steps need.
LEMMA RowTypes ==
    ASSUME Below
    PROVE  /\ sub \in [Clients -> SubType]
           /\ orders \in [Traces -> Record] /\ rec \in [Traces -> Record]
           /\ tr \in [Shared -> TrType]
           /\ Shared = {"cancel", "cancelall", "poll"}
           /\ openOrders \subseteq Traces /\ intentMap \subseteq openOrders
           /\ \A c \in Clients : sub[c].pc \in AtVenue => sub[c].trace \in Traces /\ ~Held(sub[c].trace)
           /\ \A c, d \in Clients :
                 sub[c].pc \in AtVenue /\ sub[d].pc \in AtVenue /\ sub[c].trace = sub[d].trace => c = d
           /\ \A t : Held(t) => t \in Traces
<1>1. \A t : Held(t) => t \in Traces
    BY DEF Below, Held, Processing, ExecInv, RegInv, PersistedRows, EngineType, ProcType, PollInv
<1>2. openOrders \subseteq Traces /\ \A c \in Clients : sub[c].pc \in AtVenue => sub[c].trace \in Traces
    BY DEF Below, ExecInv, SubInv, RegInv, PersistedRows
<1>3. QED
    BY <1>1, <1>2 DEF Below, ExecInv, SubInv, EngineType, MemType, ProcType, Shared, Cancellers,
       LinkInv, AloneAtVenue

\* A transition in progress is on an open order, and it is the only one on it.
LEMMA OneWriter ==
    ASSUME Below, SettleInv, ApartInv
    PROVE  /\ \A a \in Shared : tr[a].pc # "idle" => /\ tr[a].trace \in openOrders
                                                     /\ tr[a].to \in {"cancelled", "filled"}
                                                     /\ a \in {"cancel", "poll"}
           /\ \A a, b \in Shared :
                 tr[a].pc # "idle" /\ tr[b].pc # "idle" /\ tr[a].trace = tr[b].trace => a = b
           /\ canc.pc = "unregister" /\ poll.pc \in {"persist", "apply", "unregister"}
                 => canc.trace # poll.trace
<1>1. canc.pc = "unregister" /\ poll.pc \in {"persist", "apply", "unregister"}
         => canc.trace # poll.trace
    BY DEF ApartInv, CancelledAt, FilledAt
<1>2. Shared = {"cancel", "cancelall", "poll"} /\ tr["cancelall"].pc = "idle"
    BY RowTypes DEF SettleInv, NoCancelAll
<1>3. QED
    BY <1>1, <1>2 DEF SettleInv, ApartInv

\* A submitter that does not move, or is not at the venue.
LEMMA SubmitRecordFrame ==
    ASSUME Below, NEW c \in Clients, SubmitRecord(c),
           \/ sub'[c].pc \notin AtVenue
           \/ /\ sub'[c] = sub[c]
              /\ sub[c].pc \in AtVenue =>
                    /\ orders'[sub[c].trace] = orders[sub[c].trace]
                    /\ rec'[sub[c].trace] = rec[sub[c].trace]
    PROVE  SubmitRecord(c)'
<1>1. CASE sub'[c].pc \notin AtVenue
    BY <1>1 DEF SubmitRecord, AtVenue
<1>2. CASE /\ sub'[c] = sub[c]
           /\ sub[c].pc \in AtVenue =>
                    /\ orders'[sub[c].trace] = orders[sub[c].trace]
                    /\ rec'[sub[c].trace] = rec[sub[c].trace]
    BY <1>2 DEF SubmitRecord, AtVenue
<1>3. QED
    BY <1>1, <1>2

\* The canceller stays where it is or is done; the poller stays, persists its fill
\* or goes on to the next.
CancKept ==
    /\ canc'.pc = "unregister" <=> canc.pc = "unregister"
    /\ canc'.pc # "idle" => canc'.pc = canc.pc /\ canc'.trace = canc.trace
PollKept ==
    /\ poll'.pc = "unregister" <=> poll.pc = "unregister"
    /\ poll'.pc \in {"unregister", "intent"} => poll'.pc = poll.pc /\ poll'.trace = poll.trace
    /\ poll'.pc \in {"persist", "apply"} => poll.pc \in {"persist", "apply"} /\ poll'.trace = poll.trace

\* A step that writes no row and no record, and that only ends the intent of an
\* order whose row is not live.
LEMMA RowKeeps ==
    ASSUME RowInv, NoCancelAll', Whole', Settles, UNCHANGED <<orders, rec, openOrders, tr>>,
           CancKept, PollKept, \A c \in Clients : SubmitRecord(c)',
           \A t \in Traces : t \in Outstanding /\ orders[t].status \in OrderLive => t \in Outstanding'
    PROVE  RowInv'
<1>1. SettleInv'
    BY DEF RowInv, SettleInv, CancKept, PollKept
<1>2. ApartInv'
  <2>1. canc'.pc = "venue" => canc'.trace \in openOrders' \/ FilledAt(rec[canc.trace].exch)'
    <3>1. ASSUME canc'.pc = "venue", ~(canc'.trace \in openOrders')
          PROVE  FilledAt(rec[canc.trace].exch)'
      <4>1. canc.pc = "venue" /\ canc'.trace = canc.trace /\ FilledAt(rec[canc.trace].exch)
        BY <3>1 DEF CancKept, RowInv, ApartInv
      <4>2. \A e : FilledAt(e) => e \in 1..Len(exOrders') /\ exOrders'[e].status = "filled"
        BY DEF Settles, FilledAt
      <4>3. QED
        BY <4>1, <4>2 DEF FilledAt
    <3>2. QED
      BY <3>1
  <2>2. canc'.pc = "unregister" => canc'.trace \in openOrders' /\ CancelledAt(rec[canc.trace].exch)'
    <3>1. ASSUME canc'.pc = "unregister"
          PROVE  canc'.trace \in openOrders' /\ CancelledAt(rec[canc.trace].exch)'
      <4>1. canc.pc = "unregister" /\ canc'.trace = canc.trace /\ canc.trace \in openOrders
            /\ CancelledAt(rec[canc.trace].exch)
        BY <3>1 DEF CancKept, RowInv, ApartInv
      <4>2. \A e : CancelledAt(e) => e \in 1..Len(exOrders') /\ exOrders'[e].status = "cancelled"
        BY DEF Settles, CancelledAt
      <4>3. QED
        BY <4>1, <4>2 DEF CancelledAt
    <3>2. QED
      BY <3>1
  <2>3. poll'.pc \in {"persist", "apply", "unregister"}
           => poll'.trace \in openOrders' /\ FilledAt(rec[poll.trace].exch)'
    <3>1. ASSUME poll'.pc \in {"persist", "apply", "unregister"}
          PROVE  poll'.trace \in openOrders' /\ FilledAt(rec[poll.trace].exch)'
      <4>1. poll.pc \in {"persist", "apply", "unregister"} /\ poll'.trace = poll.trace
        BY <3>1 DEF PollKept
      <4>2. poll.trace \in openOrders /\ FilledAt(rec[poll.trace].exch)
        BY <4>1 DEF RowInv, ApartInv
      <4>3. \A e : FilledAt(e) => e \in 1..Len(exOrders') /\ exOrders'[e].status = "filled"
        BY DEF Settles, FilledAt
      <4>4. QED
        BY <4>1, <4>2, <4>3 DEF FilledAt
    <3>2. QED
      BY <3>1
  <2>4. QED
    BY <2>1, <2>2, <2>3 DEF ApartInv
<1>3. \A t \in openOrders' : OpenRecord(t)'
    BY DEF RowInv, OpenRecord, Moving, Writing, Written
<1>4. TableInv'
    BY DEF RowInv, TableInv, RowOk, CancKept, PollKept
<1>5. QED
    BY <1>1, <1>2, <1>3, <1>4 DEF RowInv

\* A step that writes the row and the record of an order that only its submitter
\* can reach.
LEMMA RowSubmits ==
    ASSUME Below, RowInv, NEW t \in Traces, ~Held(t), NoCancelAll',
           UNCHANGED <<intents, openOrders, canc, poll, tr, exOrders, exFills, filler>>,
           \A u \in Traces : u # t => orders'[u] = orders[u] /\ rec'[u] = rec[u],
           RowOk(t)', \A c \in Clients : SubmitRecord(c)'
    PROVE  RowInv'
<1>1. /\ t \notin openOrders
      /\ canc.pc # "idle" => canc.trace # t /\ canc.trace \in Traces
      /\ poll.pc \in Processing => poll.trace # t /\ poll.trace \in Traces
      /\ \A a \in Shared : tr[a].pc # "idle" => tr[a].trace # t /\ tr[a].trace \in Traces
      /\ openOrders \subseteq Traces
    BY RowTypes DEF Held
<1>2. Whole'
    BY WholeFrame DEF RowInv
<1>3. SettleInv'
    BY <1>1 DEF RowInv, SettleInv
<1>4. ApartInv'
    BY <1>1 DEF RowInv, ApartInv, FilledAt, CancelledAt, Processing
<1>5. \A u \in openOrders' : OpenRecord(u)'
    BY <1>1 DEF RowInv, OpenRecord, Moving, Writing, Written
<1>6. ASSUME NEW u \in Traces PROVE RowOk(u)'
    BY <1>6 DEF RowInv, TableInv, RowOk, Outstanding
<1>7. TableInv'
    BY <1>1, <1>6 DEF RowInv, TableInv, Processing
<1>8. QED
    BY <1>2, <1>3, <1>4, <1>5, <1>7 DEF RowInv

\* The assumptions under which the records agree: orders of one contract, no
\* CancelAll, and a database that executes its statements.
UnitEngine ==
    /\ \A t \in Traces : Quantity[t] = 1
    /\ "cancelall" \notin Cancels
    /\ ~DbFaults

\* The INSERT of SubmitOrder writes a row for a trace that nobody has in hand.
LEMMA RowPersist ==
    ASSUME UnitEngine, Below, RowInv, NoCancelAll', NEW c \in Clients, SubmitPersist(c)
    PROVE  RowInv'
<1>0. sub[c].trace \in Traces
    BY DEF SubmitPersist, Below, ExecInv, SubInv, Appended, Rows
<1> SUFFICES ASSUME NEW t \in Traces, t = sub[c].trace PROVE RowInv'
    BY <1>0
<1>1. /\ sub[c].pc = "persist" /\ t \in Rows
      /\ UNCHANGED <<intents, openOrders, canc, poll, tr, exOrders, exFills, filler>>
    BY DEF SubmitPersist, Below, ExecInv, SubInv, Appended, Rows, ledgerVars, venueVars
<1>2. CASE KeyUnused(t) /\ orders' = [orders EXCEPT ![t] = NewRecord]
           /\ rec' = [rec EXCEPT ![t] = NewRecord] /\ SubGoto(c, "venue")
  <2>1. t \notin PersistedRows /\ t \in Outstanding /\ ~Held(t)
    BY <1>1, <1>2 DEF KeyUnused, Below, OpenInv, LinkInv, AloneAtVenue
  <2>2. \A d \in Clients : sub[d].pc \in AtVenue => sub[d].trace # t
    BY <2>1 DEF Below, ExecInv, SubInv
  <2>3. /\ orders'[t] = NewRecord /\ rec'[t] = NewRecord
        /\ \A u \in Traces : u # t => orders'[u] = orders[u] /\ rec'[u] = rec[u]
    BY <1>1, <1>2, RowTypes
  <2>4. RowOk(t)'
    BY <1>1, <2>1, <2>3 DEF RowOk, NewRecord, Outstanding
  <2>5. ASSUME NEW d \in Clients
        PROVE  SubmitRecord(d)'
    <3>1. CASE d = c
      <4>1. sub'[c].pc = "venue" /\ sub'[c].trace = t
        BY <1>2, RowTypes DEF SubGoto, SubAcked
      <4>2. QED
        BY <2>3, <3>1, <4>1 DEF SubmitRecord, NewRecord
    <3>2. CASE d # c
      <4>1. sub'[d] = sub[d]
        BY <1>2, <3>2, RowTypes DEF SubGoto, SubAcked
      <4>2. sub[d].pc \in AtVenue => /\ orders'[sub[d].trace] = orders[sub[d].trace]
                                     /\ rec'[sub[d].trace] = rec[sub[d].trace]
        BY <2>2, <2>3, RowTypes
      <4>3. QED
        BY <4>1, <4>2, SubmitRecordFrame DEF RowInv
    <3>3. QED
      BY <3>1, <3>2
  <2>6. QED
    BY <1>1, <2>1, <2>3, <2>4, <2>5, RowSubmits
<1>3. CASE SubReturn(c) /\ UNCHANGED <<orders, rec>>
  <2>1. \A d \in Clients : sub'[d].pc \notin AtVenue \/ sub'[d] = sub[d]
    BY <1>3, RowTypes DEF SubReturn, IdleSub, AtVenue
  <2>2. \A d \in Clients : SubmitRecord(d)'
    BY <1>3, <2>1, SubmitRecordFrame DEF RowInv
  <2>3. Whole' /\ Settles
    BY <1>1, WholeFrame DEF RowInv
  <2>4. QED
    BY <1>1, <1>3, <2>2, <2>3, RowKeeps DEF CancKept, PollKept, Outstanding
<1>4. QED
    BY <1>2, <1>3 DEF SubmitPersist, UnitEngine

\* The venue's answer moves the row of the new order to its first status.
LEMMA RowTransition ==
    ASSUME UnitEngine, Below, RowInv, NoCancelAll', NEW c \in Clients, SubmitTransition(c)
    PROVE  RowInv'
<1>0. sub[c].trace \in Traces
    BY RowTypes DEF SubmitTransition, AtVenue
<1> SUFFICES ASSUME NEW t \in Traces, t = sub[c].trace PROVE RowInv'
    BY <1>0
<1> DEFINE row == [status |-> sub[c].ack, filled |-> 0, exch |-> sub[c].exch]
<1>1. /\ sub[c].pc = "transition" /\ ~Held(t)
      /\ UNCHANGED <<intents, openOrders, canc, poll, tr, exOrders, exFills, filler>>
      /\ sub[c].ack \in {"open", "rejected", "failed"}
      /\ orders[t].status = "pending"
    BY RowTypes DEF SubmitTransition, AtVenue, ledgerVars, venueVars, Below, ExecInv, SubInv, SubType,
       RowInv, SubmitRecord
<1>2. \A d \in Clients : d # c /\ sub[d].pc \in AtVenue => sub[d].trace # t
    BY <1>1, RowTypes DEF AtVenue
<1>3. /\ orders'[t] = row /\ rec'[t] = row
      /\ \A u \in Traces : u # t => orders'[u] = orders[u] /\ rec'[u] = rec[u]
    BY <1>1, RowTypes DEF SubmitTransition, WriteRow, UnitEngine
<1>4. /\ sub'[c].pc = "intent" /\ sub'[c].trace = t /\ sub'[c].ack = sub[c].ack
      /\ \A d \in Clients : d # c => sub'[d] = sub[d]
    BY RowTypes DEF SubmitTransition, SubGoto, SubAcked
<1>5. t \in Outstanding
    BY <1>1 DEF RowInv, TableInv, RowOk, OrderLive
<1>6. RowOk(t)'
    BY <1>1, <1>3, <1>5 DEF RowOk, Outstanding
<1>7. ASSUME NEW d \in Clients
      PROVE  SubmitRecord(d)'
  <2>1. CASE d = c
    BY <1>3, <1>4, <2>1 DEF SubmitRecord
  <2>2. CASE d # c
    <3>1. sub[d].pc \in AtVenue => /\ orders'[sub[d].trace] = orders[sub[d].trace]
                                   /\ rec'[sub[d].trace] = rec[sub[d].trace]
      BY <1>2, <1>3, <2>2, RowTypes
    <3>2. QED
      BY <1>4, <2>2, <3>1, SubmitRecordFrame DEF RowInv
  <2>3. QED
    BY <2>1, <2>2
<1>8. QED
    BY <1>1, <1>3, <1>6, <1>7, RowSubmits

\* The order enters openOrders, with its record and row open.
LEMMA RowRegister ==
    ASSUME Below, RowInv, NoCancelAll', NEW c \in Clients, SubmitRegister(c)
    PROVE  RowInv'
<1> DEFINE t == sub[c].trace
<1>1. /\ sub[c].pc = "register" /\ t \in Traces /\ ~Held(t)
      /\ UNCHANGED <<intents, orders, rec, canc, poll, tr, exOrders, exFills, filler>>
      /\ openOrders' = openOrders \cup {t}
    BY RowTypes DEF SubmitRegister, AtVenue, ledgerVars, venueVars, dbVars
<1>2. orders[t] = rec[t] /\ orders[t].status = "open"
    BY <1>1 DEF RowInv, SubmitRecord
<1>3. \A a \in Shared : tr[a].pc # "idle" => tr[a].trace # t
    BY <1>1 DEF Held
<1>4. \A d \in Clients : SubmitRecord(d)'
  <2>1. ASSUME NEW d \in Clients
        PROVE  sub'[d].pc \notin AtVenue \/ sub'[d] = sub[d]
    BY RowTypes DEF SubmitRegister, SubReturn, IdleSub, AtVenue
  <2>2. QED
    BY <1>1, <2>1, SubmitRecordFrame DEF RowInv
<1>5. \A u \in openOrders' : OpenRecord(u)'
  <2>1. ASSUME NEW u \in openOrders'
        PROVE  OpenRecord(u)'
    <3>1. CASE u = t
      BY <1>1, <1>2, <1>3, <3>1 DEF OpenRecord, Moving, Writing, Written
    <3>2. CASE u \in openOrders
      BY <1>1, <3>2 DEF RowInv, OpenRecord, Moving, Writing, Written
    <3>3. QED
      BY <1>1, <2>1, <3>1, <3>2
  <2>2. QED
    BY <2>1
<1>6. Whole'
    BY <1>1, WholeFrame DEF RowInv
<1>7. SettleInv' /\ ApartInv'
    BY <1>1 DEF RowInv, SettleInv, ApartInv, FilledAt, CancelledAt
<1>8. TableInv'
    BY <1>1 DEF RowInv, TableInv, RowOk, Outstanding
<1>9. QED
    BY <1>4, <1>5, <1>6, <1>7, <1>8 DEF RowInv

\* The steps of SubmitOrder.
LEMMA SubmitRows ==
    ASSUME UnitEngine, Below, RowInv, NoCancelAll', Whole', Settles, NEW c \in Clients, SubmitOrder(c)
    PROVE  RowInv'
<1> DEFINE t == sub[c].trace
<1>1. CASE (\E u \in Traces : SubmitGate(c, u)) \/ SubmitAppend(c) \/ SubmitAppended(c)
  <2>1. UNCHANGED <<orders, rec, openOrders, tr, canc, poll>>
    BY <1>1 DEF SubmitGate, SubmitAppend, SubmitAppended, dbVars, memVars, procVars
  <2>2. Outstanding \subseteq Outstanding'
    <3>1. CASE UNCHANGED intents
      BY <3>1 DEF Outstanding
    <3>2. QED
      BY <1>1, <3>1, LedgerAppends DEF Below, SubmitGate, AppendBegin, SubmitAppended,
         AppendReturn
  <2>3. ASSUME NEW d \in Clients
        PROVE  sub'[d].pc \notin AtVenue \/ sub'[d] = sub[d]
    BY <1>1, RowTypes DEF SubmitGate, SubmitAppend, SubmitAppended, SubGoto, SubAcked, SubReturn,
       IdleSub, AtVenue, procVars
  <2>4. \A d \in Clients : SubmitRecord(d)'
    BY <2>1, <2>3, SubmitRecordFrame DEF RowInv
  <2>5. QED
    BY <2>1, <2>2, <2>4, RowKeeps DEF CancKept, PollKept
<1>2. CASE SubmitVenue(c)
  <2>1. /\ UNCHANGED <<orders, rec, openOrders, tr, canc, poll, intents>>
        /\ sub[c].pc = "venue" /\ sub'[c].pc = "transition" /\ sub'[c].trace = t
        /\ \A d \in Clients : d # c => sub'[d] = sub[d]
    BY <1>2, RowTypes DEF SubmitVenue, SubAcked, memVars, ledgerVars
  <2>2. ASSUME NEW d \in Clients
        PROVE  SubmitRecord(d)'
    <3>1. CASE d = c
      BY <2>1, <3>1 DEF RowInv, SubmitRecord
    <3>2. CASE d # c
      BY <2>1, <3>2, SubmitRecordFrame DEF RowInv
    <3>3. QED
      BY <3>1, <3>2
  <2>3. QED
    BY <2>1, <2>2, RowKeeps DEF CancKept, PollKept, Outstanding
<1>3. CASE SubmitIntent(c)
  <2>1. /\ UNCHANGED <<orders, rec, openOrders, tr, canc, poll>>
        /\ sub[c].pc = "intent" /\ t \in Traces
        /\ \A d \in Clients : d # c => sub'[d] = sub[d]
        /\ \/ /\ sub[c].ack = "open" /\ WriteIntent(t, "open")
              /\ sub'[c].pc = "register" /\ sub'[c].trace = t /\ sub'[c].ack = sub[c].ack
           \/ /\ sub[c].ack # "open" /\ WriteIntent(t, "rejected")
              /\ sub'[c].pc = "idle"
    BY <1>3, RowTypes DEF SubmitIntent, SubGoto, SubAcked, SubReturn, IdleSub, memVars, dbVars, AtVenue
  <2>2. orders[t].status = sub[c].ack /\ orders[t] = rec[t]
    BY <2>1 DEF RowInv, SubmitRecord
  <2>3. sub[c].ack \in {"none", "open", "rejected", "failed"}
    BY RowTypes DEF SubType
  <2>4. ASSUME NEW u \in Traces, u \in Outstanding, orders[u].status \in OrderLive
        PROVE  u \in Outstanding'
    <3>1. intents \in [Traces -> [status : IntentStatus, version : Nat]]
      BY DEF Below, ExecInv, LedgerInv, LedgerTypeOK
    <3>2. CASE u # t
      BY <2>1, <2>4, <3>1, <3>2 DEF WriteIntent, UpdatedIntents, Outstanding
    <3>3. CASE u = t
      <4>1. sub[c].ack = "open"
        BY <2>2, <2>3, <2>4, <3>3 DEF OrderLive
      <4>2. QED
        BY <2>1, <2>4, <3>1, <3>3, <4>1 DEF WriteIntent, UpdatedIntents, Outstanding, IntentOutstanding
    <3>4. QED
      BY <3>2, <3>3
  <2>5. ASSUME NEW d \in Clients
        PROVE  SubmitRecord(d)'
    <3>1. CASE d = c
      BY <2>1, <2>2, <3>1 DEF SubmitRecord
    <3>2. CASE d # c
      BY <2>1, <3>2, SubmitRecordFrame DEF RowInv
    <3>3. QED
      BY <3>1, <3>2
  <2>6. QED
    BY <2>1, <2>4, <2>5, RowKeeps DEF CancKept, PollKept
<1>4. QED
    BY <1>1, <1>2, <1>3, RowPersist, RowTransition, RowRegister DEF SubmitOrder

\* transitionOrder: the test passes, as nobody else has an order of its record,
\* and the UPDATE writes the status that the record has got.
LEMMA TransRows ==
    ASSUME UnitEngine, Below, RowInv, NoCancelAll', NEW a \in Shared, transitionOrder(a)
    PROVE  RowInv'
<1>0. tr[a].pc # "idle" /\ tr[a].trace \in openOrders /\ tr[a].trace \in Traces
      /\ tr[a].to \in {"cancelled", "filled"}
    BY OneWriter, RowTypes DEF RowInv, transitionOrder, TransCheck, TransSet, TransWrite
<1> SUFFICES ASSUME NEW t \in Traces, t = tr[a].trace PROVE RowInv'
    BY <1>0
<1>1. /\ OpenRecord(t) /\ t \in openOrders
      /\ UNCHANGED <<intents, openOrders, canc, poll, sub, exOrders, exFills, filler>>
    BY <1>0 DEF RowInv, transitionOrder, TransCheck, TransSet, TransWrite, ledgerVars, venueVars,
       dbVars, memVars
<1>2. \A b \in Shared : b # a /\ tr[b].pc # "idle" => tr[b].trace # t
    BY <1>0, OneWriter DEF RowInv
<1>3. /\ tr'[a].pc \in {"set", "write", "done"} /\ tr'[a].trace = t /\ tr'[a].to = tr[a].to
      /\ \A b \in Shared : b # a => tr'[b] = tr[b]
    BY RowTypes DEF transitionOrder, TransCheck, TransSet, TransWrite, TransGoto
<1>4. /\ \A u \in Traces : u # t => orders'[u] = orders[u] /\ rec'[u] = rec[u]
      /\ \A u \in Traces : rec'[u].exch = rec[u].exch
    BY <1>1, RowTypes DEF transitionOrder, TransCheck, TransSet, TransWrite, WriteRow, dbVars,
       memVars, UnitEngine
<1>31. \A b \in Shared : /\ tr'[b].pc # "idle" <=> tr[b].pc # "idle"
                         /\ tr'[b].trace = tr[b].trace /\ tr'[b].to = tr[b].to
  BY <1>0, <1>3
<1>32. "cancel" \in Shared /\ "poll" \in Shared
  BY RowTypes
<1>5. CASE TransCheck(a)
  <2>1. UNCHANGED <<orders, rec>> /\ tr[a].pc = "check"
    BY <1>5 DEF TransCheck, dbVars, memVars
  <2>2. rec[t].status = "open"
    BY <1>1, <1>2, <2>1 DEF OpenRecord, Writing, Written
  <2>3. ValidateTransition(rec[t].status, tr[a].to)
    BY <1>0, <2>2 DEF ValidateTransition, validTransitions
  <2>4. tr'[a].pc = "set"
    BY <1>5, <2>3, RowTypes DEF TransCheck, TransGoto
  <2>5. SettleInv'
    <3>1. \A b \in Shared : tr'[b].pc = "write" => tr'[b].row = rec'[tr'[b].trace]
      BY <1>3, <2>1, <2>4 DEF RowInv, SettleInv
    <3>2. QED
      BY <1>1, <1>31, <1>32, <3>1 DEF RowInv, SettleInv
  <2>6. \A u \in openOrders' : OpenRecord(u)'
    BY <1>0, <1>1, <1>3, <2>1, <2>4 DEF RowInv, OpenRecord, Moving, Writing, Written
  <2>7. \A c \in Clients : SubmitRecord(c)'
    BY <1>1, <2>1 DEF RowInv, SubmitRecord
  <2>8. ApartInv' /\ TableInv'
    BY <1>1, <2>1 DEF RowInv, ApartInv, TableInv, RowOk, Outstanding, FilledAt, CancelledAt
  <2>9. Whole'
    BY <1>1, WholeFrame DEF RowInv
  <2>10. QED
    BY <2>5, <2>6, <2>7, <2>8, <2>9 DEF RowInv
<1>6. CASE TransSet(a) \/ TransWrite(a)
  <2>1. \/ /\ tr[a].pc = "set" /\ tr'[a].pc = "write" /\ UNCHANGED orders
           /\ rec'[t] = tr'[a].row /\ rec'[t].status = tr[a].to
        \/ /\ tr[a].pc = "write" /\ tr'[a].pc = "done" /\ UNCHANGED rec
           /\ orders'[t] = tr[a].row
    <3>1. CASE TransSet(a)
      BY <1>6, <3>1, RowTypes DEF TransSet, TransGoto, dbVars
    <3>2. CASE TransWrite(a)
      BY <1>6, <3>2, RowTypes DEF TransWrite, TransGoto, WriteRow, memVars, UnitEngine
    <3>3. QED
      BY <1>6, <3>1, <3>2
  <2>2. orders[t].status = "open"
    BY <1>1, <1>2, <2>1 DEF OpenRecord, Writing, Written
  <2>3. tr[a].pc = "write" => tr[a].row = rec[t] /\ rec[t].status = tr[a].to
    BY <1>1 DEF RowInv, SettleInv, OpenRecord, Writing
  <2>4. SettleInv'
    <3>1. ASSUME NEW b \in Shared, tr'[b].pc = "write"
          PROVE  tr'[b].row = rec'[tr'[b].trace]
      <4>1. CASE b = a
        BY <1>3, <2>1, <3>1, <4>1
      <4>2. CASE b # a
        <5>1. tr[b].trace # t /\ tr[b].trace \in Traces /\ tr'[b] = tr[b]
          BY <1>2, <1>3, <3>1, <4>2, OneWriter, RowTypes DEF RowInv
        <5>2. QED
          BY <1>4, <3>1, <5>1 DEF RowInv, SettleInv
      <4>3. QED
        BY <4>1, <4>2
    <3>2. QED
      BY <1>1, <1>31, <1>32, <3>1 DEF RowInv, SettleInv
  <2>5. ApartInv'
    BY <1>1, <1>4 DEF RowInv, ApartInv, FilledAt, CancelledAt, Below, EngineType, ProcType, PollInv,
       Processing
  <2>6. ASSUME NEW u \in openOrders'
        PROVE  OpenRecord(u)'
    <3>1. CASE u = t
      BY <1>1, <1>2, <1>3, <2>1, <2>2, <2>3, <3>1 DEF OpenRecord, Moving, Writing, Written
    <3>2. CASE u # t
      <4>1. u \in openOrders /\ u \in Traces /\ OpenRecord(u)
        BY <1>1, <2>6, RowTypes DEF RowInv
      <4>2. orders'[u] = orders[u] /\ rec'[u] = rec[u]
        BY <1>4, <3>2, <4>1
      <4>3. \A b \in Shared : /\ Moving(b, u)' <=> Moving(b, u)
                              /\ Writing(b, u)' <=> Writing(b, u)
                              /\ Written(b, u)' <=> Written(b, u)
                              /\ tr'[b].to = tr[b].to
        BY <1>3, <3>2 DEF Moving, Writing, Written
      <4>4. QED
        BY <4>1, <4>2, <4>3 DEF OpenRecord
    <3>3. QED
      BY <3>1, <3>2
  <2>7. ASSUME NEW c \in Clients
        PROVE  SubmitRecord(c)'
    <3>1. sub[c].pc \in AtVenue => sub[c].trace \in Traces /\ sub[c].trace # t
      BY <1>1, RowTypes DEF Held
    <3>2. QED
      BY <1>1, <1>4, <3>1, SubmitRecordFrame DEF RowInv
  <2>8. orders'[t].status \in {"open", "cancelled", "filled"} /\ (orders'[t].status = "open" => UNCHANGED orders)
    BY <1>0, <2>1, <2>2, <2>3
  <2>9. ASSUME NEW u \in Traces
        PROVE  RowOk(u)'
    BY <1>1, <1>4, <2>8 DEF RowInv, TableInv, RowOk, Outstanding, OrderLive
  <2>10. /\ canc.pc = "intent" => canc.trace \in Traces /\ canc.trace # t
         /\ poll.pc = "intent" => poll.trace \in Traces /\ poll.trace # t
    BY <2>2 DEF RowInv, TableInv, Below, EngineType, ProcType, PollInv, Processing
  <2>11. TableInv'
    BY <1>1, <1>4, <2>9, <2>10 DEF RowInv, TableInv
  <2>12. Whole'
    BY <1>1, WholeFrame DEF RowInv
  <2>13. QED
    BY <2>4, <2>5, <2>6, <2>7, <2>11, <2>12 DEF RowInv
<1>7. QED
    BY <1>5, <1>6 DEF transitionOrder

\* What the venue has settled stays so.
LEMMA SettledStays ==
    ASSUME Settles
    PROVE  /\ \A e : FilledAt(e) => e \in 1..Len(exOrders') /\ exOrders'[e].status = "filled"
           /\ \A e : CancelledAt(e) => e \in 1..Len(exOrders') /\ exOrders'[e].status = "cancelled"
    BY DEF Settles, FilledAt, CancelledAt

\* CancelOrder: the venue has cancelled the order before anything is recorded, and
\* the row says so before the order leaves openOrders.
LEMMA CancelRows ==
    ASSUME Below, RowInv, NoCancelAll', Whole', Settles, CancelOrder
    PROVE  RowInv'
<1>0. /\ UNCHANGED <<orders, rec, sub, poll>>
      /\ "cancel" \in Shared /\ "poll" \in Shared /\ "cancelall" \in Shared
      /\ tr \in [Shared -> TrType]
    BY RowTypes DEF CancelOrder, CancelLookup, CancelVenue, CancelUnregister, CancelIntent, dbVars,
       memVars
<1>1. \A c \in Clients : SubmitRecord(c)'
    BY <1>0 DEF RowInv, SubmitRecord
<1>2. PollKept
    BY <1>0 DEF PollKept
<1>3. CASE \E t \in Traces : CancelLookup(t)
  <2>1. /\ UNCHANGED <<intents, openOrders, tr, exOrders>>
        /\ canc.pc = "idle" /\ canc'.pc = "venue" /\ canc'.trace \in openOrders
    BY <1>3 DEF CancelLookup, ledgerVars, memVars, venueVars
  <2>2. SettleInv'
    BY <1>0, <2>1 DEF RowInv, SettleInv
  <2>3. ApartInv'
    BY <1>0, <2>1 DEF RowInv, ApartInv, FilledAt
  <2>4. \A t \in openOrders' : OpenRecord(t)'
    BY <1>0, <2>1 DEF RowInv, OpenRecord, Moving, Writing, Written
  <2>5. TableInv'
    BY <1>0, <2>1 DEF RowInv, TableInv, RowOk, Outstanding
  <2>6. QED
    BY <1>1, <2>2, <2>3, <2>4, <2>5 DEF RowInv
<1>4. CASE CancelVenue /\ canc' = IdleCanc /\ UNCHANGED <<tr, venueVars>>
  <2>1. UNCHANGED <<intents, openOrders>> /\ canc.pc = "venue" /\ canc'.pc = "idle"
    BY <1>4 DEF CancelVenue, IdleCanc, ledgerVars, memVars
  <2>2. QED
    BY <1>0, <1>1, <1>2, <1>4, <2>1, RowKeeps DEF CancKept, Outstanding
<1>5. CASE /\ CancelVenue /\ Venue!ExCancel(rec[canc.trace].exch)
           /\ Transition("cancel", canc.trace, "cancelled")
           /\ canc' = [pc |-> "unregister", trace |-> canc.trace]
  <2>1. /\ UNCHANGED <<intents, openOrders>> /\ canc.pc = "venue" /\ canc.trace \in Traces
        /\ tr["cancel"].pc = "idle"
    BY <1>5 DEF CancelVenue, ledgerVars, memVars, RowInv, SettleInv, Below, EngineType, ProcType
  <2>2. canc.trace \in openOrders
    BY <1>5, <2>1 DEF Venue!ExCancel, Venue!Cancellable, RowInv, ApartInv, FilledAt
  <2>3. /\ rec[canc.trace].exch \in 1..Len(exOrders')
        /\ exOrders'[rec[canc.trace].exch].status = "cancelled"
    <3>1. rec[canc.trace].exch \in 1..Len(exOrders)
          /\ exOrders' = [exOrders EXCEPT ![rec[canc.trace].exch].status = "cancelled"]
      BY <1>5 DEF Venue!ExCancel, Venue!Cancellable, Venue!ExIds
    <3>2. exOrders[rec[canc.trace].exch] \in VenueOrder /\ exOrders \in Seq(VenueOrder)
      BY <3>1 DEF Below, EngineType, VenueType
    <3>3. QED
      BY <3>1, <3>2 DEF VenueOrder
  <2>4. /\ tr'["cancel"].pc = "check" /\ tr'["cancel"].trace = canc.trace
        /\ tr'["cancel"].to = "cancelled"
        /\ \A b \in Shared : b # "cancel" => tr'[b] = tr[b]
    BY <1>0, <1>5 DEF Transition
  <2>5. SettleInv'
    <3>1. \A b \in Shared : tr'[b].pc = "write" => tr'[b].row = rec'[tr'[b].trace]
      BY <1>0, <2>4 DEF RowInv, SettleInv
    <3>2. QED
      BY <1>0, <1>5, <2>1, <2>4, <3>1 DEF RowInv, SettleInv
  <2>6. ApartInv'
    BY <1>0, <1>5, <2>1, <2>2, <2>3, SettledStays DEF RowInv, ApartInv, CancelledAt, FilledAt
  <2>7. ASSUME NEW t \in openOrders'
        PROVE  OpenRecord(t)'
    <3>1. \A b \in Shared : /\ Moving(b, t) => Moving(b, t)'
                            /\ Writing(b, t)' <=> Writing(b, t)
                            /\ Written(b, t)' <=> Written(b, t)
      BY <2>1, <2>4 DEF Moving, Writing, Written
    <3>2. \A b \in Shared : Writing(b, t) \/ Written(b, t) => tr'[b].to = tr[b].to
      BY <2>1, <2>4 DEF Writing, Written
    <3>3. QED
      BY <1>0, <2>1, <2>7, <3>1, <3>2 DEF RowInv, OpenRecord
  <2>8. TableInv'
    BY <1>0, <1>5, <2>1 DEF RowInv, TableInv, RowOk, Outstanding
  <2>9. QED
    BY <1>1, <2>5, <2>6, <2>7, <2>8 DEF RowInv
<1>6. CASE CancelUnregister
  <2>1. /\ UNCHANGED <<intents, exOrders>> /\ canc.pc = "unregister"
        /\ tr["cancel"].pc = "done" /\ tr'["cancel"].pc = "idle"
        /\ \A b \in Shared : b # "cancel" => tr'[b] = tr[b]
        /\ openOrders' = openOrders \ {canc.trace}
        /\ canc'.pc # "idle" => canc'.pc = "intent" /\ canc'.trace = canc.trace
        /\ canc'.pc \in {"idle", "intent"}
    BY <1>0, <1>6 DEF CancelUnregister, Transitioned, IdleTr, Unregister, IdleCanc, ledgerVars, venueVars
  <2>2. /\ canc.trace \in openOrders /\ tr["cancel"].trace = canc.trace
        /\ tr["cancel"].to = "cancelled"
    BY <2>1 DEF RowInv, ApartInv, SettleInv
  <2>3. orders[canc.trace].status = "cancelled"
    BY <1>0, <2>1, <2>2 DEF RowInv, OpenRecord, Written
  <2>4. poll.pc \in {"persist", "apply", "unregister"} => poll.trace # canc.trace
    BY <2>1, OneWriter DEF RowInv
  <2>5. SettleInv'
    <3>1. \A b \in Shared : tr'[b].pc = "write" => tr'[b].row = rec'[tr'[b].trace]
      BY <1>0, <2>1 DEF RowInv, SettleInv
    <3>2. QED
      BY <1>0, <2>1, <3>1 DEF RowInv, SettleInv
  <2>6. ApartInv'
    BY <1>0, <2>1, <2>4 DEF RowInv, ApartInv, FilledAt
  <2>7. ASSUME NEW t \in openOrders'
        PROVE  OpenRecord(t)'
    <3>1. t \in openOrders /\ t # canc.trace
      BY <2>1, <2>7
    <3>2. \A b \in Shared : /\ Moving(b, t)' <=> Moving(b, t)
                            /\ Writing(b, t)' <=> Writing(b, t)
                            /\ Written(b, t)' <=> Written(b, t)
      BY <2>1, <2>2, <3>1 DEF Moving, Writing, Written
    <3>3. \A b \in Shared : Writing(b, t) \/ Written(b, t) => tr'[b].to = tr[b].to
      BY <2>1, <2>2, <3>1 DEF Writing, Written
    <3>4. QED
      BY <1>0, <3>1, <3>2, <3>3 DEF RowInv, OpenRecord
  <2>8. TableInv'
    BY <1>0, <2>1, <2>3 DEF RowInv, TableInv, RowOk, Outstanding
  <2>9. QED
    BY <1>1, <2>5, <2>6, <2>7, <2>8 DEF RowInv
<1>7. CASE CancelIntent
  <2>1. /\ UNCHANGED <<openOrders, tr>> /\ canc.pc = "intent" /\ canc'.pc = "idle"
        /\ WriteIntent(canc.trace, "cancelled")
        /\ orders[canc.trace].status = "cancelled"
    BY <1>7 DEF CancelIntent, IdleCanc, memVars, RowInv, TableInv
  <2>2. intents \in [Traces -> [status : IntentStatus, version : Nat]]
    BY DEF Below, ExecInv, LedgerInv, LedgerTypeOK
  <2>3. \A t \in Traces : t # canc.trace => intents'[t] = intents[t]
    BY <2>1, <2>2 DEF WriteIntent, UpdatedIntents
  <2>4. \A t \in Traces : t \in Outstanding /\ orders[t].status \in OrderLive => t \in Outstanding'
    BY <2>1, <2>3 DEF Outstanding, OrderLive
  <2>5. QED
    BY <1>0, <1>1, <1>2, <2>1, <2>4, RowKeeps DEF CancKept
<1>8. QED
    BY <1>3, <1>4, <1>5, <1>6, <1>7 DEF CancelOrder, CancelVenue

\* The poller: a fill of one contract fills its order, and the row says so before
\* the order leaves openOrders.
LEMMA PollRows ==
    ASSUME UnitEngine, Below, RowInv, NoCancelAll', Whole', Settles, Poll
    PROVE  RowInv'
<1>0. /\ UNCHANGED <<orders, sub, canc, exOrders, exFills>>
      /\ "cancel" \in Shared /\ "poll" \in Shared /\ "cancelall" \in Shared
      /\ tr \in [Shared -> TrType]
    BY RowTypes DEF Poll, PollStart, PollFetch, PollError, PollDone, PollLookup, PollPersist,
       PollApply, PollUnregister, PollIntent, PollReport, dbVars, venueVars
<1>1. CancKept
    BY <1>0 DEF CancKept
<1>2. CASE \/ PollStart \/ PollFetch \/ PollError \/ PollDone \/ PollPersist \/ PollReport
           \/ PollLookup /\ NextFill
  <2>1. UNCHANGED <<intents, openOrders, rec, tr>>
    BY <1>2 DEF PollStart, PollFetch, PollError, PollDone, PollPersist, PollReport, PollLookup,
       ledgerVars, memVars
  <2>2. \A c \in Clients : SubmitRecord(c)'
    BY <1>0, <2>1 DEF RowInv, SubmitRecord
  <2>3. PollKept
    BY <1>2 DEF PollStart, PollFetch, PollError, PollDone, PollPersist, PollReport, PollLookup,
       PollGoto, NextFill, IdlePoll, PollKept
  <2>4. QED
    BY <1>0, <1>1, <2>1, <2>2, <2>3, RowKeeps DEF Outstanding
<1>3. ASSUME PollLookup, NEW t \in openOrders, Owns(t, PollFill), PollGoto("persist", t)
      PROVE  RowInv'
  <2>1. /\ UNCHANGED <<intents, openOrders, rec, tr>> /\ poll.pc = "fill"
        /\ poll'.pc = "persist" /\ poll'.trace = t
    BY <1>3 DEF PollLookup, PollGoto, ledgerVars, memVars
  <2>2. poll.next \in 1..Len(exFills)
    BY <1>3, <2>1 DEF PollLookup, Below, EngineType, PollInv, PollType, VenueType
  <2>3. FilledAt(rec[t].exch)
    BY <1>3, <2>2 DEF Owns, PollFill, RowInv, Whole
  <2>4. SettleInv'
    BY <1>0, <2>1 DEF RowInv, SettleInv
  <2>5. ApartInv'
    BY <1>0, <1>3, <2>1, <2>3 DEF RowInv, ApartInv, FilledAt, CancelledAt
  <2>6. \A u \in openOrders' : OpenRecord(u)'
    BY <1>0, <2>1 DEF RowInv, OpenRecord, Moving, Writing, Written
  <2>7. TableInv'
    BY <1>0, <2>1 DEF RowInv, TableInv, RowOk, Outstanding
  <2>8. \A c \in Clients : SubmitRecord(c)'
    BY <1>0, <2>1 DEF RowInv, SubmitRecord
  <2>9. QED
    BY <2>4, <2>5, <2>6, <2>7, <2>8 DEF RowInv
<1>4. CASE PollApply
  <2>0. poll.trace \in openOrders /\ poll.trace \in Traces /\ FilledAt(rec[poll.trace].exch)
    BY <1>4, RowTypes DEF PollApply, RowInv, ApartInv
  <2> SUFFICES ASSUME NEW t \in Traces, t = poll.trace PROVE RowInv'
    BY <2>0
  <2>1. /\ UNCHANGED <<intents, openOrders>> /\ poll.pc = "apply"
        /\ poll'.pc = "unregister" /\ poll'.trace = t
        /\ tr["poll"].pc = "idle"
    BY <1>4 DEF PollApply, PollGoto, ledgerVars, RowInv, SettleInv
  <2>2. poll.next \in 1..Len(exFills) /\ PollFill.qty = 1
    BY <2>1 DEF Below, EngineType, PollInv, PollType, VenueType, RowInv, Whole, Processing, PollFill
  <2>3. rec \in [Traces -> Record] /\ rec[t].filled \in Nat /\ Quantity[t] = 1
    BY RowTypes DEF Record, UnitEngine
  <2>4. rec[t].filled + PollFill.qty >= Quantity[t]
    BY <2>2, <2>3
  <2>5. /\ rec'[t].status = rec[t].status
        /\ \A u \in Traces : u # t => rec'[u] = rec[u]
        /\ \A u \in Traces : rec'[u].exch = rec[u].exch
    BY <1>4, <2>3 DEF PollApply, Record
  <2>6. Transition("poll", t, "filled")
    BY <1>4, <2>4 DEF PollApply
  <2>7. /\ tr'["poll"].pc = "check" /\ tr'["poll"].trace = t /\ tr'["poll"].to = "filled"
        /\ \A b \in Shared : b # "poll" => tr'[b] = tr[b]
    BY <1>0, <2>6 DEF Transition
  <2>8. \A b \in Shared : tr[b].pc # "idle" => tr[b].trace # t /\ tr[b].trace \in Traces
    <3>1. ASSUME NEW b \in Shared, tr[b].pc # "idle"
          PROVE  b = "cancel" /\ tr[b].trace \in Traces
      BY <2>1, <3>1, OneWriter, RowTypes DEF RowInv
    <3>2. canc.pc = "unregister" => canc.trace # t
      BY <2>1, OneWriter DEF RowInv
    <3>3. QED
      BY <3>1, <3>2 DEF RowInv, SettleInv
  <2>9. SettleInv'
    <3>1. \A b \in Shared : tr'[b].pc = "write" => tr'[b].row = rec'[tr'[b].trace]
      BY <1>0, <2>5, <2>7, <2>8 DEF RowInv, SettleInv
    <3>2. QED
      BY <1>0, <2>1, <2>7, <3>1 DEF RowInv, SettleInv
  <2>10. ApartInv'
    <3>1. canc.pc # "idle" => canc.trace \in Traces
      BY DEF Below, EngineType, ProcType
    <3>2. QED
      BY <1>0, <2>0, <2>1, <2>5, <3>1 DEF RowInv, ApartInv, FilledAt, CancelledAt
  <2>11. ASSUME NEW u \in openOrders'
         PROVE  OpenRecord(u)'
    <3>1. u \in openOrders /\ u \in Traces /\ OpenRecord(u)
      BY <2>1, <2>11, RowTypes DEF RowInv
    <3>2. \A b \in Shared : /\ Writing(b, u)' <=> Writing(b, u)
                            /\ Written(b, u)' <=> Written(b, u)
                            /\ Moving(b, u) => Moving(b, u)'
                            /\ Writing(b, u) \/ Written(b, u) => tr'[b].to = tr[b].to
      BY <2>1, <2>7 DEF Moving, Writing, Written
    <3>3. CASE u = t
      <4>1. \A b \in Shared : ~Writing(b, t) /\ ~Written(b, t)
        BY <2>8 DEF Writing, Written
      <4>2. Moving("poll", t)'
        BY <2>7 DEF Moving
      <4>3. QED
        BY <1>0, <2>5, <3>1, <3>2, <3>3, <4>1, <4>2 DEF OpenRecord
    <3>4. CASE u # t
      BY <1>0, <2>5, <3>1, <3>2, <3>4 DEF OpenRecord
    <3>5. QED
      BY <3>3, <3>4
  <2>12. ASSUME NEW c \in Clients
         PROVE  SubmitRecord(c)'
    <3>1. sub[c].pc \in AtVenue => sub[c].trace \in Traces /\ sub[c].trace # t
      BY <2>0, RowTypes DEF Held
    <3>2. QED
      BY <1>0, <2>5, <3>1, SubmitRecordFrame DEF RowInv
  <2>13. TableInv'
    BY <1>0, <2>1 DEF RowInv, TableInv, RowOk, Outstanding
  <2>14. QED
    BY <2>9, <2>10, <2>11, <2>12, <2>13 DEF RowInv
<1>5. CASE PollUnregister
  <2>0. /\ poll.pc = "unregister" /\ tr["poll"].pc = "done" /\ tr["poll"].to = "filled"
        /\ tr["poll"].trace = poll.trace /\ poll.trace \in openOrders
        /\ FilledAt(rec[poll.trace].exch)
    BY <1>5 DEF PollUnregister, Transitioned, RowInv, SettleInv, ApartInv
  <2>1. /\ UNCHANGED <<intents, rec>> /\ tr'["poll"].pc = "idle"
        /\ \A b \in Shared : b # "poll" => tr'[b] = tr[b]
        /\ openOrders' = openOrders \ {poll.trace}
        /\ poll'.pc \in {"intent", "report"} /\ poll'.trace = poll.trace
    BY <1>0, <1>5, <2>0 DEF PollUnregister, Transitioned, IdleTr, Unregister, PollGoto, ledgerVars
  <2>2. orders[poll.trace].status = "filled"
    BY <1>0, <2>0 DEF RowInv, OpenRecord, Written
  <2>3. canc.pc = "unregister" => canc.trace # poll.trace
    BY <2>0, OneWriter DEF RowInv
  <2>4. SettleInv'
    <3>1. \A b \in Shared : tr'[b].pc = "write" => tr'[b].row = rec'[tr'[b].trace]
      BY <1>0, <2>1 DEF RowInv, SettleInv
    <3>2. QED
      BY <1>0, <2>1, <3>1 DEF RowInv, SettleInv
  <2>5. ApartInv'
    BY <1>0, <2>0, <2>1, <2>3 DEF RowInv, ApartInv, FilledAt, CancelledAt
  <2>6. ASSUME NEW t \in openOrders'
        PROVE  OpenRecord(t)'
    <3>1. t \in openOrders /\ t # poll.trace
      BY <2>1, <2>6
    <3>2. \A b \in Shared : /\ Moving(b, t)' <=> Moving(b, t)
                            /\ Writing(b, t)' <=> Writing(b, t)
                            /\ Written(b, t)' <=> Written(b, t)
                            /\ Writing(b, t) \/ Written(b, t) => tr'[b].to = tr[b].to
      BY <2>0, <2>1, <3>1 DEF Moving, Writing, Written
    <3>3. QED
      BY <1>0, <2>1, <3>1, <3>2 DEF RowInv, OpenRecord
  <2>7. TableInv'
    BY <1>0, <2>1, <2>2 DEF RowInv, TableInv, RowOk, Outstanding
  <2>8. \A c \in Clients : SubmitRecord(c)'
    BY <1>0, <2>1 DEF RowInv, SubmitRecord
  <2>9. QED
    BY <2>4, <2>5, <2>6, <2>7, <2>8 DEF RowInv
<1>6. CASE PollIntent
  <2>1. /\ UNCHANGED <<openOrders, rec, tr>> /\ poll.pc = "intent" /\ poll'.pc = "report"
        /\ WriteIntent(poll.trace, "filled")
        /\ orders[poll.trace].status = "filled"
    BY <1>6 DEF PollIntent, PollGoto, memVars, RowInv, TableInv
  <2>2. intents \in [Traces -> [status : IntentStatus, version : Nat]]
    BY DEF Below, ExecInv, LedgerInv, LedgerTypeOK
  <2>3. \A t \in Traces : t # poll.trace => intents'[t] = intents[t]
    BY <2>1, <2>2 DEF WriteIntent, UpdatedIntents
  <2>4. \A t \in Traces : t \in Outstanding /\ orders[t].status \in OrderLive => t \in Outstanding'
    BY <2>1, <2>3 DEF Outstanding, OrderLive
  <2>5. \A c \in Clients : SubmitRecord(c)'
    BY <1>0, <2>1 DEF RowInv, SubmitRecord
  <2>6. PollKept
    BY <2>1 DEF PollKept
  <2>7. QED
    BY <1>0, <1>1, <2>1, <2>4, <2>5, <2>6, RowKeeps
<1>7. PollLookup => NextFill \/ \E t \in openOrders : Owns(t, PollFill) /\ PollGoto("persist", t)
    BY DEF PollLookup
<1>8. QED
    BY <1>2, <1>3, <1>4, <1>5, <1>6, <1>7 DEF Poll

\* The heartbeat, the exchange, a crash and a restart: what recovery loads is open
\* in the table, so the new records are open.
LEMMA ProcessRows ==
    ASSUME Below, RowInv, NoCancelAll', Whole', ~Crash => Settles,
           (\E m \in Modes : SetSystemMode(m)) \/ ExchangeStep \/ Crash \/ RecoverFull
    PROVE  RowInv'
<1>0. UNCHANGED <<orders, intents>>
    BY DEF SetSystemMode, ExchangeStep, Crash, RecoverFull, dbVars, ledgerVars
<1>1. CASE (\E m \in Modes : SetSystemMode(m)) \/ ExchangeStep
  <2>1. UNCHANGED <<rec, openOrders, tr, sub, canc, poll>>
    BY <1>1 DEF SetSystemMode, ExchangeStep, memVars, procVars
  <2>2. ~Crash
    BY <1>1, RunsOnlyUp DEF Crash, SetSystemMode, ExchangeStep, sysVars, Below, EngineType, ProcType
  <2>3. \A c \in Clients : SubmitRecord(c)'
    BY <1>0, <2>1 DEF RowInv, SubmitRecord
  <2>4. QED
    BY <1>0, <2>1, <2>2, <2>3, RowKeeps DEF CancKept, PollKept, Outstanding
<1>2. CASE Crash
  <2>1. /\ openOrders' = {} /\ canc'.pc = "idle" /\ poll'.pc = "idle"
        /\ \A c \in Clients : sub'[c].pc = "idle"
        /\ \A a \in Shared : tr'[a].pc = "idle"
    BY <1>2 DEF Crash, IdleCanc, IdlePoll, IdleSub, IdleTr
  <2>2. SettleInv'
    BY <2>1, RowTypes DEF SettleInv
  <2>3. ApartInv' /\ TableInv' /\ \A c \in Clients : SubmitRecord(c)'
    BY <1>0, <2>1 DEF ApartInv, RowInv, TableInv, RowOk, Outstanding, SubmitRecord
  <2>4. QED
    BY <2>1, <2>2, <2>3 DEF RowInv
<1>3. CASE RecoverFull
  <2>1. /\ UNCHANGED <<tr, sub, canc, poll>>
        /\ openOrders' = LoadedOrders
        /\ \A t \in LoadedOrders : rec'[t] = orders[t] /\ orders[t].exch # NullId
    BY <1>3 DEF RecoverFull, ScanSucceeds, procVars, LoadedOrders
  <2>2. /\ canc.pc = "idle" /\ poll.pc = "idle"
        /\ \A c \in Clients : sub[c].pc = "idle"
        /\ \A a \in Shared : tr[a].pc = "idle"
    BY <1>3 DEF RecoverFull, Below, LinkInv, Stopped
  <2>3. \A t \in LoadedOrders : orders[t].status = "open"
    BY <2>1 DEF LoadedOrders, OrderLive, RowInv, TableInv, RowOk
  <2>4. \A t \in openOrders' : OpenRecord(t)'
    BY <1>0, <2>1, <2>2, <2>3 DEF OpenRecord, Moving, Writing, Written
  <2>5. SettleInv'
    BY <2>1, <2>2, RowTypes DEF SettleInv
  <2>6. ApartInv' /\ TableInv' /\ \A c \in Clients : SubmitRecord(c)'
    BY <1>0, <2>1, <2>2 DEF ApartInv, RowInv, TableInv, RowOk, Outstanding, SubmitRecord
  <2>7. QED
    BY <2>4, <2>5, <2>6 DEF RowInv
<1>4. QED
    BY <1>1, <1>2, <1>3

\* At the start there is no order.
LEMMA RowInvInit == Init => RowInv
<1> SUFFICES ASSUME Init PROVE RowInv
    OBVIOUS
<1>1. "cancel" \in Shared /\ "poll" \in Shared /\ "cancelall" \in Shared
    BY DEF Shared, Cancellers
<1>2. Whole
    BY DEF Init, Venue!ExInit, Whole
<1>3. SettleInv /\ ApartInv
    BY <1>1 DEF Init, SettleInv, NoCancelAll, ApartInv, IdleTr, IdleCa, IdleCanc, IdlePoll
<1>4. TableInv
    BY DEF Init, TableInv, RowOk, NoRecord, OrderLive, IdleCanc, IdlePoll
<1>5. \A c \in Clients : SubmitRecord(c)
    BY DEF Init, SubmitRecord, IdleSub
<1>6. QED
    BY <1>2, <1>3, <1>4, <1>5 DEF RowInv, Init

\* Every step keeps the records of an order in agreement.
LEMMA RowInvStep ==
    ASSUME UnitEngine
    PROVE  Below /\ RowInv /\ [Next]_vars => RowInv'
<1> SUFFICES ASSUME Below, RowInv, [Next]_vars PROVE RowInv'
    OBVIOUS
<1>1. NoCancelAll' /\ ~CancelAll
    BY NoCancelAllStep DEF UnitEngine, Below, OpenInv
<1>2. Whole' /\ (~Crash => Settles)
    BY WholeStep DEF UnitEngine, Below, OpenInv, RowInv
<1>3. CASE UNCHANGED vars
  <2>1. UNCHANGED <<orders, rec, openOrders, tr, sub, canc, poll, intents, exOrders, exFills, filler>>
    BY <1>3 DEF vars, dbVars, memVars, procVars, ledgerVars, venueVars
  <2>2. Settles
    BY <2>1, WholeFrame DEF RowInv
  <2>3. \A c \in Clients : SubmitRecord(c)'
    BY <2>1 DEF RowInv, SubmitRecord
  <2>4. QED
    BY <1>1, <1>2, <2>1, <2>2, <2>3, RowKeeps DEF CancKept, PollKept, Outstanding
<1>4. up' = up => Settles
    BY <1>2 DEF Crash, Below, EngineType, ProcType
<1>5. ASSUME NEW c \in Clients, SubmitOrder(c)
      PROVE  RowInv'
  <2>1. up' = up
    BY <1>5 DEF SubmitOrder, SubmitGate, SubmitAppend, SubmitAppended, SubmitPersist, SubmitVenue,
       SubmitTransition, SubmitIntent, SubmitRegister, sysVars
  <2>2. QED
    BY <1>1, <1>2, <1>4, <1>5, <2>1, SubmitRows
<1>6. ASSUME NEW a \in Shared, transitionOrder(a)
      PROVE  RowInv'
    BY <1>1, <1>6, TransRows
<1>7. CASE CancelOrder
  <2>1. up' = up
    BY <1>7 DEF CancelOrder, CancelLookup, CancelVenue, CancelUnregister, CancelIntent, sysVars
  <2>2. QED
    BY <1>1, <1>2, <1>4, <1>7, <2>1, CancelRows
<1>8. CASE Poll
  <2>1. up' = up
    BY <1>8 DEF Poll, PollStart, PollFetch, PollError, PollDone, PollLookup, PollPersist,
       PollApply, PollUnregister, PollIntent, PollReport, sysVars
  <2>2. QED
    BY <1>1, <1>2, <1>4, <1>8, <2>1, PollRows
<1>9. CASE (\E m \in Modes : SetSystemMode(m)) \/ ExchangeStep \/ Crash \/ RecoverFull
    BY <1>1, <1>2, <1>9, ProcessRows
<1>10. QED
    BY <1>1, <1>3, <1>5, <1>6, <1>7, <1>8, <1>9 DEF Next

\* A row that is written with a legal status makes a move of its lifecycle.
LEMMA RowMoves ==
    ASSUME orders \in [Traces -> Record], NEW t \in Traces, NEW row,
           orders' = [orders EXCEPT ![t] = row],
           <<orders[t].status, row.status>> \in {<<"none", "pending">>} \cup validTransitions
    PROVE  Orders!Next
<1> DEFINE table == [u \in Traces |-> orders[u].status]
<1>1. table' = [table EXCEPT ![t] = row.status]
    OBVIOUS
<1>2. <<table[t], row.status>> \in {<<"none", "pending">>} \cup validTransitions
    OBVIOUS
<1>3. Orders!Move(t, row.status)
    BY <1>1, <1>2 DEF Orders!Move
<1>4. row.status = <<orders[t].status, row.status>>[2]
    OBVIOUS
<1>5. QED
    BY <1>3, <1>4 DEF Orders!Next

\* Only three steps write execution.orders: the INSERT, the transition of a new
\* order, and the UPDATE of transitionOrder, which finds the row open.
LEMMA RowStepIsMove ==
    ASSUME UnitEngine
    PROVE  Below /\ RowInv /\ [Next]_vars => [Orders!Next]_[t \in Traces |-> orders[t].status]
<1> SUFFICES ASSUME Below, RowInv, [Next]_vars, orders' # orders PROVE Orders!Next
    OBVIOUS
<1>0. orders \in [Traces -> Record] /\ NoRecord.status = "none"
    BY RowTypes DEF NoRecord
<1>1. ASSUME NEW c \in Clients, SubmitPersist(c)
      PROVE  Orders!Next
  <2>1. /\ sub[c].trace \in Traces /\ orders[sub[c].trace].status = "none"
        /\ orders' = [orders EXCEPT ![sub[c].trace] = NewRecord]
    BY <1>1 DEF SubmitPersist, KeyUnused, PersistedRows, UnitEngine, Below, ExecInv, SubInv,
       Appended, Rows
  <2>2. QED
    BY <1>0, <2>1, RowMoves DEF NewRecord
<1>2. ASSUME NEW c \in Clients, SubmitTransition(c)
      PROVE  Orders!Next
  <2> DEFINE row == [status |-> sub[c].ack, filled |-> 0, exch |-> sub[c].exch]
  <2>1. /\ sub[c].trace \in Traces /\ orders[sub[c].trace].status = "pending"
        /\ row.status \in {"open", "rejected", "failed"}
    BY <1>2, RowTypes DEF SubmitTransition, AtVenue, RowInv, SubmitRecord, Below, ExecInv, SubInv,
       SubType
  <2>2. orders' = [orders EXCEPT ![sub[c].trace] = row]
    BY <1>2 DEF SubmitTransition, WriteRow, UnitEngine
  <2>3. <<orders[sub[c].trace].status, row.status>> \in validTransitions
    BY <2>1 DEF validTransitions
  <2> HIDE DEF row
  <2>4. QED
    BY <1>0, <2>1, <2>2, <2>3, RowMoves
<1>3. ASSUME NEW a \in Shared, TransWrite(a)
      PROVE  Orders!Next
  <2>1. /\ tr[a].pc = "write" /\ tr[a].trace \in openOrders /\ tr[a].trace \in Traces
        /\ tr[a].to \in {"cancelled", "filled"}
    BY <1>3, OneWriter, RowTypes DEF RowInv, TransWrite
  <2>2. orders[tr[a].trace].status = "open" /\ tr[a].row.status = tr[a].to
    BY <2>1 DEF RowInv, SettleInv, OpenRecord, Writing
  <2>3. <<orders[tr[a].trace].status, tr[a].row.status>> \in validTransitions
    BY <2>1, <2>2 DEF validTransitions
  <2>4. orders' = [orders EXCEPT ![tr[a].trace] = tr[a].row]
    BY <1>3 DEF TransWrite, WriteRow, UnitEngine
  <2>5. QED
    BY <1>0, <2>1, <2>3, <2>4, RowMoves
<1>4. ~CancelAll
    BY NoCancelAllStep DEF UnitEngine, Below, OpenInv
<1>5. ASSUME NEW c \in Clients, SubmitOrder(c)
      PROVE  Orders!Next
    BY <1>1, <1>2, <1>5 DEF SubmitOrder, SubmitGate, SubmitAppend, SubmitAppended, SubmitVenue,
       SubmitIntent, SubmitRegister, dbVars
<1>6. ASSUME NEW a \in Shared, transitionOrder(a)
      PROVE  Orders!Next
    BY <1>3, <1>6 DEF transitionOrder, TransCheck, TransSet, dbVars
<1>7. ~CancelOrder /\ ~Poll
    BY DEF CancelOrder, CancelLookup, CancelVenue, CancelUnregister, CancelIntent, Poll, PollStart,
       PollFetch, PollError, PollDone, PollLookup, PollPersist, PollApply, PollUnregister,
       PollIntent, PollReport, dbVars
<1>8. ~ExchangeStep /\ ~Crash /\ ~RecoverFull /\ ~\E m \in Modes : SetSystemMode(m)
    BY DEF ExchangeStep, Crash, RecoverFull, SetSystemMode, dbVars
<1>9. QED
    BY <1>4, <1>5, <1>6, <1>7, <1>8 DEF Next, vars, dbVars

\* RowsFollowLifecycle: for orders of one contract every status that the engine
\* writes to execution.orders is a legal successor of the one that is there,
\* although the test and the UPDATE of transitionOrder are separate steps and the
\* poller and CancelOrder run at once; with any number of submitters and crashes.
\* The reason is the venue: it has either filled or cancelled a contract, so the
\* two never have the same order in hand.
THEOREM UnitRowsFollowLifecycle ==
    ASSUME UnitEngine
    PROVE  Spec => RowsFollowLifecycle
<1>1. Init => Orders!Init
    BY DEF Init, Orders!Init, NoRecord
<1>2. Init => Below
    BY ExecInvInit, EngineTypeInit, LinkInvInit, OpenInvInit DEF Below
<1>3. Below /\ [Next]_vars => Below'
    BY ExecInvStep, EngineTypeStep, LinkInvStep, OpenInvStep DEF Below, UnitEngine
<1>4. Below /\ RowInv /\ [Next]_vars => RowInv'
    BY RowInvStep
<1>5. Below /\ RowInv /\ [Next]_vars => [Orders!Next]_[t \in Traces |-> orders[t].status]
    BY RowStepIsMove
<1>6. QED
    BY <1>1, <1>2, <1>3, <1>4, <1>5, RowInvInit, PTL DEF Spec, RowsFollowLifecycle, Orders!Spec

\* LoadedImpliesOutstanding for the same engine: wherever a crash interrupts it, a
\* restart finds an outstanding intent for every row it loads.
THEOREM UnitOrdersLoadedWithIntent ==
    ASSUME UnitEngine
    PROVE  Spec => []LoadedImpliesOutstanding
<1>1. Init => Below
    BY ExecInvInit, EngineTypeInit, LinkInvInit, OpenInvInit DEF Below
<1>2. Below /\ [Next]_vars => Below'
    BY ExecInvStep, EngineTypeStep, LinkInvStep, OpenInvStep DEF Below, UnitEngine
<1>3. Below /\ RowInv /\ [Next]_vars => RowInv'
    BY RowInvStep
<1>4. RowInv => LoadedImpliesOutstanding
    BY DEF RowInv, TableInv, RowOk, LoadedImpliesOutstanding, LoadedOrders
<1>5. QED
    BY <1>1, <1>2, <1>3, <1>4, RowInvInit, PTL DEF Spec

-----------------------------------------------------------------------------
\* When no call is in progress

\* The engine works on an order, or keeps it.
InHand(t) == t \in openOrders \/ \E c \in Clients : sub[c].pc \in AtVenue /\ sub[c].trace = t

\* Who has still to end the intent of an order whose row is terminal.
Ending(t) ==
    \/ \E c \in Clients : sub[c].pc = "intent" /\ sub[c].trace = t
    \/ canc.pc \in {"unregister", "intent"} /\ canc.trace = t
    \/ poll.pc \in {"unregister", "intent"} /\ poll.trace = t

\* A live row is in hand, and an intent outlives its row only while a call is about
\* to end it.
Agreed(t) ==
    /\ orders[t].status \in OrderLive => InHand(t)
    /\ orders[t].status \notin OrderLive /\ orders[t].status # "none" /\ t \in Outstanding
          => Ending(t)

\* What no crash has disturbed.
CallInv ==
    /\ up /\ crashes = 0
    /\ intentMap = openOrders
    /\ \A t \in Traces : Agreed(t)

\* A trace whose row a step does not write.
LEMMA AgreedStays ==
    ASSUME NEW t \in Traces, Agreed(t), orders'[t] = orders[t],
           InHand(t) => InHand(t)', Ending(t) => Ending(t)',
           orders[t].status # "none" /\ t \in Outstanding' => t \in Outstanding
    PROVE  Agreed(t)'
    BY DEF Agreed

\* A terminal status ends the intent of its trace and of no other.
LEMMA IntentEnds ==
    ASSUME UnitEngine, Below, NEW t \in Traces, NEW s \in {"rejected", "cancelled", "filled"},
           WriteIntent(t, s)
    PROVE  t \notin Outstanding' /\ \A u \in Traces : u # t /\ u \in Outstanding' => u \in Outstanding
<1>1. intents \in [Traces -> [status : IntentStatus, version : Nat]]
    BY DEF Below, ExecInv, LedgerInv, LedgerTypeOK
<1>2. intents' = UpdatedIntents(t, s)
    BY DEF WriteIntent, UnitEngine
<1>3. intents'[t].status \notin IntentOutstanding /\ \A u \in Traces : u # t => intents'[u] = intents[u]
    BY <1>1, <1>2 DEF UpdatedIntents, IntentOutstanding
<1>4. QED
    BY <1>3 DEF Outstanding

\* SubmitOrder takes a row in hand when it inserts it, and lets go of it in
\* openOrders or with its intent ended.
LEMMA SubmitCalls ==
    ASSUME UnitEngine, Below, RowInv, CallInv, NEW c \in Clients, SubmitOrder(c)
    PROVE  CallInv'
<1>0. /\ UNCHANGED <<up, crashes, canc, poll>> /\ intentMap' = openOrders'
      /\ openOrders \subseteq openOrders'
      /\ \A d \in Clients : d # c => sub'[d] = sub[d]
  <2>1. UNCHANGED <<up, crashes, canc, poll>>
    BY DEF SubmitOrder, SubmitGate, SubmitAppend, SubmitAppended, SubmitPersist, SubmitVenue,
       SubmitTransition, SubmitIntent, SubmitRegister, sysVars, procVars
  <2>2. intentMap' = openOrders' /\ openOrders \subseteq openOrders'
    BY DEF SubmitOrder, SubmitGate, SubmitAppend, SubmitAppended, SubmitPersist, SubmitVenue,
       SubmitTransition, SubmitIntent, SubmitRegister, memVars, CallInv
  <2>3. \A d \in Clients : d # c => sub'[d] = sub[d]
    BY RowTypes DEF SubmitOrder, SubmitGate, SubmitAppend, SubmitAppended, SubmitPersist,
       SubmitVenue, SubmitTransition, SubmitIntent, SubmitRegister, SubGoto, SubAcked, SubReturn,
       procVars
  <2>4. QED
    BY <2>1, <2>2, <2>3
<1>1. ASSUME NEW t \in Traces, orders'[t] = orders[t],
             orders[t].status # "none" /\ t \in Outstanding' => t \in Outstanding,
             sub[c].pc \in AtVenue /\ sub[c].trace = t
                => t \in openOrders' \/ (sub'[c].pc \in AtVenue /\ sub'[c].trace = t),
             sub[c].pc = "intent" => sub[c].trace # t
      PROVE  Agreed(t)'
  <2>1. InHand(t) => InHand(t)'
    BY <1>0, <1>1 DEF InHand
  <2>2. Ending(t) => Ending(t)'
    BY <1>0, <1>1 DEF Ending
  <2>3. QED
    BY <1>1, <2>1, <2>2, AgreedStays DEF CallInv
<1>2. CASE \/ (\E t \in Traces : SubmitGate(c, t)) \/ SubmitAppend(c) \/ SubmitAppended(c)
           \/ SubmitVenue(c) \/ SubmitRegister(c)
  <2>1. UNCHANGED orders
    BY <1>2 DEF SubmitGate, SubmitAppend, SubmitAppended, SubmitVenue, SubmitRegister, dbVars
  <2>2. ASSUME NEW t \in Traces, orders[t].status # "none", t \in Outstanding'
        PROVE  t \in Outstanding
    <3>1. t \in Rows
      BY <2>2 DEF Below, ExecInv, PlaceInv, PersistedRows
    <3>2. intents' = intents \/ (intents' = [intents EXCEPT ![app[c].trace] = NewRow(c)]
                                 /\ app[c].trace \notin Rows)
      BY <1>2 DEF SubmitGate, AppendBegin, SubmitAppend, AppendLookup, AppendCompute, AppendDraw,
         AppendInsert, AppendDbError, SubmitAppended, AppendReturn, SubmitVenue, SubmitRegister,
         ledgerVars
    <3>3. intents \in [Traces -> [status : IntentStatus, version : Nat]]
      BY DEF Below, ExecInv, LedgerInv, LedgerTypeOK
    <3>4. QED
      BY <2>2, <3>1, <3>2, <3>3 DEF Outstanding
  <2>3. /\ sub[c].pc # "intent"
        /\ sub[c].pc \in AtVenue => sub[c].trace \in openOrders'
                                    \/ (sub'[c].pc \in AtVenue /\ sub'[c].trace = sub[c].trace)
    <3>1. CASE (\E t \in Traces : SubmitGate(c, t)) \/ SubmitAppend(c) \/ SubmitAppended(c)
      BY <3>1 DEF SubmitGate, SubmitAppend, AppendLookup, AppendCompute, AppendDraw, AppendInsert,
         AppendDbError, SubmitAppended, AtVenue, Below, ExecInv, SubInv
    <3>2. CASE SubmitVenue(c)
      BY <3>2, RowTypes DEF SubmitVenue, SubAcked, AtVenue
    <3>3. CASE SubmitRegister(c)
      BY <3>3 DEF SubmitRegister
    <3>4. QED
      BY <1>2, <3>1, <3>2, <3>3
  <2>4. QED
    BY <1>0, <1>1, <2>1, <2>2, <2>3 DEF CallInv
<1>3. CASE SubmitPersist(c)
  <2>1. UNCHANGED intents /\ sub[c].pc = "persist" /\ sub[c].trace \in Traces
    BY <1>3 DEF SubmitPersist, ledgerVars, Below, ExecInv, SubInv, Appended, Rows
  <2>2. ASSUME NEW t \in Traces, orders'[t] = orders[t]
        PROVE  Agreed(t)'
    BY <1>1, <2>1, <2>2 DEF AtVenue, Outstanding
  <2>3. CASE UNCHANGED orders
    BY <1>0, <2>2, <2>3 DEF CallInv
  <2>4. CASE orders' = [orders EXCEPT ![sub[c].trace] = NewRecord] /\ SubGoto(c, "venue")
    <3> SUFFICES ASSUME NEW t \in Traces, t = sub[c].trace PROVE CallInv'
      BY <2>1
    <3>1. sub'[c].pc = "venue" /\ sub'[c].trace = t
      BY <2>4, RowTypes DEF SubGoto, SubAcked
    <3>2. orders'[t].status = "pending" /\ \A u \in Traces : u # t => orders'[u] = orders[u]
      BY <2>4, RowTypes DEF NewRecord
    <3>3. Agreed(t)'
      BY <3>1, <3>2 DEF Agreed, InHand, AtVenue, OrderLive
    <3>4. QED
      BY <1>0, <2>2, <3>2, <3>3 DEF CallInv
  <2>5. QED
    BY <1>3, <2>3, <2>4 DEF SubmitPersist, UnitEngine
<1>4. CASE SubmitTransition(c)
  <2>1. /\ UNCHANGED intents /\ sub[c].pc = "transition" /\ sub[c].trace \in Traces
        /\ sub'[c].pc = "intent" /\ sub'[c].trace = sub[c].trace
        /\ \A u \in Traces : u # sub[c].trace => orders'[u] = orders[u]
    BY <1>4, RowTypes DEF SubmitTransition, SubGoto, SubAcked, ledgerVars, WriteRow, UnitEngine, AtVenue
  <2>2. ASSUME NEW t \in Traces, t # sub[c].trace
        PROVE  Agreed(t)'
    BY <1>1, <2>1, <2>2 DEF Outstanding
  <2>3. ASSUME NEW t \in Traces, t = sub[c].trace
        PROVE  Agreed(t)'
    <3>1. InHand(t)' /\ Ending(t)'
      BY <2>1, <2>3 DEF InHand, Ending, AtVenue
    <3>2. QED
      BY <3>1 DEF Agreed
  <2>4. QED
    BY <1>0, <2>2, <2>3 DEF CallInv
<1>5. CASE SubmitIntent(c)
  <2>1. /\ UNCHANGED orders /\ sub[c].pc = "intent" /\ sub[c].trace \in Traces
        /\ orders[sub[c].trace].status = sub[c].ack
        /\ \/ /\ sub[c].ack = "open" /\ WriteIntent(sub[c].trace, "open")
              /\ sub'[c].pc = "register" /\ sub'[c].trace = sub[c].trace
           \/ /\ sub[c].ack # "open" /\ WriteIntent(sub[c].trace, "rejected")
        /\ sub[c].ack \in {"none", "open", "rejected", "failed"}
    BY <1>5, RowTypes DEF SubmitIntent, SubGoto, SubAcked, dbVars, AtVenue, RowInv, SubmitRecord, SubType
  <2>2. ASSUME NEW t \in Traces, t # sub[c].trace
        PROVE  Agreed(t)'
    <3>1. intents \in [Traces -> [status : IntentStatus, version : Nat]]
      BY DEF Below, ExecInv, LedgerInv, LedgerTypeOK
    <3>2. t \in Outstanding' => t \in Outstanding
      BY <2>1, <2>2, <3>1 DEF WriteIntent, UpdatedIntents, Outstanding
    <3>3. QED
      BY <1>1, <2>1, <2>2, <3>2
  <2>3. ASSUME NEW t \in Traces, t = sub[c].trace
        PROVE  Agreed(t)'
    <3>1. CASE sub[c].ack = "open"
      <4>1. InHand(t)'
        BY <2>1, <2>3, <3>1 DEF InHand, AtVenue
      <4>2. QED
        BY <2>1, <2>3, <3>1, <4>1 DEF Agreed, OrderLive
    <3>2. CASE sub[c].ack # "open"
      <4>1. t \notin Outstanding'
        BY <2>1, <2>3, <3>2, IntentEnds
      <4>2. orders'[t].status \notin OrderLive
        BY <2>1, <2>3, <3>2 DEF OrderLive
      <4>3. QED
        BY <4>1, <4>2 DEF Agreed
    <3>3. QED
      BY <3>1, <3>2
  <2>4. QED
    BY <1>0, <2>2, <2>3 DEF CallInv
<1>6. QED
    BY <1>2, <1>3, <1>4, <1>5 DEF SubmitOrder

\* transitionOrder, CancelOrder and the poller: they end the intent after the row.
LEMMA SettleCalls ==
    ASSUME UnitEngine, Below, RowInv, CallInv,
           (\E a \in Shared : transitionOrder(a)) \/ CancelOrder \/ Poll
    PROVE  CallInv'
<1>0. UNCHANGED <<up, crashes, sub>> /\ intentMap' = openOrders'
  <2>1. CASE \E a \in Shared : transitionOrder(a)
    BY <2>1 DEF transitionOrder, TransCheck, TransSet, TransWrite, sysVars, memVars, CallInv
  <2>2. CASE CancelOrder
    BY <2>2 DEF CancelOrder, CancelLookup, CancelVenue, CancelUnregister, CancelIntent, Unregister,
       sysVars, memVars, CallInv
  <2>3. CASE Poll
    BY <2>3 DEF Poll, PollStart, PollFetch, PollError, PollDone, PollLookup, PollPersist,
       PollApply, PollUnregister, PollIntent, PollReport, Unregister, sysVars, memVars, CallInv
  <2>4. QED
    BY <2>1, <2>2, <2>3
<1>1. ASSUME NEW t \in Traces, orders'[t] = orders[t], t \in openOrders => t \in openOrders',
             t \in Outstanding' => t \in Outstanding, Ending(t) => Ending(t)'
      PROVE  Agreed(t)'
  <2>1. InHand(t) => InHand(t)'
    BY <1>0, <1>1 DEF InHand
  <2>2. QED
    BY <1>1, <2>1, AgreedStays DEF CallInv
<1>2. ASSUME NEW a \in Shared, transitionOrder(a)
      PROVE  CallInv'
  <2>1. UNCHANGED <<openOrders, intents, canc, poll>>
    BY <1>2 DEF transitionOrder, TransCheck, TransSet, TransWrite, ledgerVars, memVars
  <2>2. \A t \in Traces : Ending(t) => Ending(t)'
    BY <1>0, <2>1 DEF Ending
  <2>3. ASSUME NEW t \in Traces, orders'[t] = orders[t]
        PROVE  Agreed(t)'
    BY <1>1, <2>1, <2>2, <2>3 DEF Outstanding
  <2>4. CASE UNCHANGED orders
    BY <1>0, <2>3, <2>4 DEF CallInv
  <2>5. CASE TransWrite(a)
    <3>1. /\ tr[a].pc = "write" /\ tr[a].trace \in openOrders /\ tr[a].trace \in Traces
          /\ a \in {"cancel", "poll"}
      BY <2>5, OneWriter, RowTypes DEF RowInv, TransWrite
    <3>2. Ending(tr[a].trace)
      BY <3>1 DEF RowInv, SettleInv, Ending
    <3>3. \A u \in Traces : u # tr[a].trace => orders'[u] = orders[u]
      BY <2>5, RowTypes DEF TransWrite, WriteRow, UnitEngine
    <3>4. ASSUME NEW t \in Traces, t = tr[a].trace
          PROVE  Agreed(t)'
      BY <2>1, <2>2, <3>1, <3>2, <3>4 DEF Agreed, InHand
    <3>5. QED
      BY <1>0, <2>3, <3>3, <3>4 DEF CallInv
  <2>6. QED
    BY <1>2, <2>4, <2>5 DEF transitionOrder, TransCheck, TransSet, dbVars
<1>3. CASE CancelOrder
  <2>1. UNCHANGED <<orders, poll>>
    BY <1>3 DEF CancelOrder, CancelLookup, CancelVenue, CancelUnregister, CancelIntent, dbVars
  <2>2. CASE (\E t \in Traces : CancelLookup(t)) \/ CancelVenue
    <3>1. UNCHANGED <<openOrders, intents>> /\ canc.pc \in {"idle", "venue"}
      BY <2>2 DEF CancelLookup, CancelVenue, ledgerVars, memVars
    <3>2. \A t \in Traces : Ending(t) => Ending(t)'
      BY <1>0, <2>1, <3>1 DEF Ending
    <3>3. QED
      BY <1>0, <1>1, <2>1, <3>1, <3>2 DEF CallInv, Outstanding
  <2>3. CASE CancelUnregister
    <3>1. /\ UNCHANGED intents /\ canc.pc = "unregister" /\ tr["cancel"].pc = "done"
          /\ openOrders' = openOrders \ {canc.trace}
          /\ canc.trace \in openOrders /\ canc.trace \in Traces
      BY <2>3, RowTypes DEF CancelUnregister, Transitioned, Unregister, ledgerVars, RowInv, ApartInv
    <3>2. canc'.pc = "intent" /\ canc'.trace = canc.trace
      BY <2>3, <3>1 DEF CancelUnregister, CallInv
    <3>3. \A t \in Traces : Ending(t) => Ending(t)'
      BY <1>0, <2>1, <3>1, <3>2 DEF Ending
    <3>4. orders[canc.trace].status = "cancelled"
      BY <3>1, RowTypes DEF RowInv, SettleInv, OpenRecord, Written
    <3>5. ASSUME NEW t \in Traces, t = canc.trace
          PROVE  Agreed(t)'
      BY <2>1, <3>2, <3>4, <3>5 DEF Agreed, Ending, OrderLive
    <3>6. ASSUME NEW t \in Traces, t # canc.trace
          PROVE  Agreed(t)'
      BY <1>1, <2>1, <3>1, <3>3, <3>6 DEF Outstanding
    <3>7. QED
      BY <1>0, <3>5, <3>6 DEF CallInv
  <2>4. CASE CancelIntent
    <3>1. /\ UNCHANGED openOrders /\ canc.pc = "intent" /\ canc.trace \in Traces
          /\ WriteIntent(canc.trace, "cancelled") /\ orders[canc.trace].status = "cancelled"
      BY <2>4 DEF CancelIntent, memVars, RowInv, TableInv, Below, EngineType, ProcType
    <3>2. canc.trace \notin Outstanding'
          /\ \A u \in Traces : u # canc.trace /\ u \in Outstanding' => u \in Outstanding
      BY <3>1, IntentEnds
    <3>3. ASSUME NEW t \in Traces, t = canc.trace
          PROVE  Agreed(t)'
      BY <2>1, <3>1, <3>2, <3>3 DEF Agreed, OrderLive
    <3>4. ASSUME NEW t \in Traces, t # canc.trace
          PROVE  Agreed(t)'
      <4>1. Ending(t) => Ending(t)'
        BY <1>0, <2>1, <3>4 DEF Ending
      <4>2. QED
        BY <1>1, <2>1, <3>1, <3>2, <3>4, <4>1
    <3>5. QED
      BY <1>0, <3>3, <3>4 DEF CallInv
  <2>5. QED
    BY <1>3, <2>2, <2>3, <2>4 DEF CancelOrder
<1>4. CASE Poll
  <2>1. UNCHANGED <<orders, canc>>
    BY <1>4 DEF Poll, PollStart, PollFetch, PollError, PollDone, PollLookup, PollPersist,
       PollApply, PollUnregister, PollIntent, PollReport, dbVars
  <2>2. CASE \/ PollStart \/ PollFetch \/ PollError \/ PollDone \/ PollLookup \/ PollPersist
             \/ PollApply \/ PollReport
    <3>1. UNCHANGED <<openOrders, intents>> /\ poll.pc \notin {"unregister", "intent"}
      BY <2>2 DEF PollStart, PollFetch, PollError, PollDone, PollLookup, PollPersist, PollApply,
         PollReport, ledgerVars, memVars
    <3>2. \A t \in Traces : Ending(t) => Ending(t)'
      BY <1>0, <2>1, <3>1 DEF Ending
    <3>3. QED
      BY <1>0, <1>1, <2>1, <3>1, <3>2 DEF CallInv, Outstanding
  <2>3. CASE PollUnregister
    <3>1. /\ UNCHANGED intents /\ poll.pc = "unregister" /\ tr["poll"].pc = "done"
          /\ tr["poll"].to = "filled"
          /\ poll.trace \in openOrders /\ poll.trace \in Traces
      BY <2>3, RowTypes DEF PollUnregister, Transitioned, ledgerVars, RowInv, ApartInv, SettleInv
    <3>2. /\ openOrders' = openOrders \ {poll.trace}
          /\ poll'.pc = "intent" /\ poll'.trace = poll.trace
      BY <2>3, <3>1 DEF PollUnregister, Unregister, PollGoto, CallInv
    <3>3. \A t \in Traces : Ending(t) => Ending(t)'
      BY <1>0, <2>1, <3>1, <3>2 DEF Ending
    <3>4. orders[poll.trace].status = "filled"
      BY <3>1, RowTypes DEF RowInv, SettleInv, OpenRecord, Written
    <3>5. ASSUME NEW t \in Traces, t = poll.trace
          PROVE  Agreed(t)'
      BY <2>1, <3>2, <3>4, <3>5 DEF Agreed, Ending, OrderLive
    <3>6. ASSUME NEW t \in Traces, t # poll.trace
          PROVE  Agreed(t)'
      BY <1>1, <2>1, <3>1, <3>2, <3>3, <3>6 DEF Outstanding
    <3>7. QED
      BY <1>0, <3>5, <3>6 DEF CallInv
  <2>4. CASE PollIntent
    <3>1. /\ UNCHANGED openOrders /\ poll.pc = "intent" /\ poll.trace \in Traces
          /\ WriteIntent(poll.trace, "filled") /\ orders[poll.trace].status = "filled"
      BY <2>4 DEF PollIntent, memVars, RowInv, TableInv, Below, EngineType, PollInv, Processing
    <3>2. poll.trace \notin Outstanding'
          /\ \A u \in Traces : u # poll.trace /\ u \in Outstanding' => u \in Outstanding
      BY <3>1, IntentEnds
    <3>3. ASSUME NEW t \in Traces, t = poll.trace
          PROVE  Agreed(t)'
      BY <2>1, <3>1, <3>2, <3>3 DEF Agreed, OrderLive
    <3>4. ASSUME NEW t \in Traces, t # poll.trace
          PROVE  Agreed(t)'
      <4>1. Ending(t) => Ending(t)'
        BY <1>0, <2>1, <3>4 DEF Ending
      <4>2. QED
        BY <1>1, <2>1, <3>1, <3>2, <3>4, <4>1
    <3>5. QED
      BY <1>0, <3>3, <3>4 DEF CallInv
  <2>5. QED
    BY <1>4, <2>2, <2>3, <2>4 DEF Poll
<1>5. QED
    BY <1>2, <1>3, <1>4

\* Every step of an engine that does not crash keeps its calls in order.
LEMMA CallInvStep ==
    ASSUME UnitEngine, MaxCrashes = 0
    PROVE  Below /\ RowInv /\ CallInv /\ [Next]_vars => CallInv'
<1> SUFFICES ASSUME Below, RowInv, CallInv, [Next]_vars PROVE CallInv'
    OBVIOUS
<1>1. ~CancelAll
    BY NoCancelAllStep DEF UnitEngine, Below, OpenInv
<1>2. ~Crash /\ ~RecoverFull
    BY DEF Crash, RecoverFull, CallInv
<1>3. CASE UNCHANGED vars \/ ExchangeStep \/ \E m \in Modes : SetSystemMode(m)
  <2>1. UNCHANGED <<up, crashes, openOrders, intentMap, orders, intents, sub, canc, poll>>
    BY <1>3 DEF vars, ExchangeStep, SetSystemMode, ledgerVars, dbVars, memVars, procVars, sysVars
  <2>2. ASSUME NEW t \in Traces
        PROVE  Agreed(t)'
    BY <2>1, AgreedStays DEF CallInv, InHand, Ending, Outstanding
  <2>3. QED
    BY <2>1, <2>2 DEF CallInv
<1>4. QED
    BY <1>1, <1>2, <1>3, SubmitCalls, SettleCalls DEF Next

\* QuiescentAgreement for orders of one contract, in an engine that has not crashed:
\* once no call is in progress, the row, the record and the intent of every order
\* agree, for every number of submitters and orders, and also when venue calls fail.
\* (After a crash an order may stay pending, in the table and the ledger and in no
\* memory: its NULL exchange id stops the restart.)
THEOREM UnitRecordsAgree ==
    ASSUME UnitEngine, MaxCrashes = 0
    PROVE  Spec => []QuiescentAgreement
<1>1. Init => Below
    BY ExecInvInit, EngineTypeInit, LinkInvInit, OpenInvInit DEF Below
<1>2. Below /\ [Next]_vars => Below'
    BY ExecInvStep, EngineTypeStep, LinkInvStep, OpenInvStep DEF Below, UnitEngine
<1>3. Below /\ RowInv /\ [Next]_vars => RowInv'
    BY RowInvStep
<1>4. Init => CallInv
    BY DEF Init, CallInv, Agreed, NoRecord, OrderLive
<1>5. Below /\ RowInv /\ CallInv /\ [Next]_vars => CallInv'
    BY CallInvStep
<1>6. Below /\ RowInv /\ CallInv => QuiescentAgreement
  <2> SUFFICES ASSUME Below, RowInv, CallInv, Quiet, NEW t \in PersistedRows
               PROVE  /\ t \in openOrders <=> orders[t].status \in OrderLive
                      /\ t \in openOrders <=> t \in Outstanding
                      /\ t \in openOrders => orders[t] = rec[t] /\ t \in intentMap
    BY DEF QuiescentAgreement
  <2>1. \A a \in Shared : tr[a].pc = "idle"
    BY RowTypes DEF Quiet, RowInv, SettleInv, NoCancelAll
  <2>2. t \in openOrders => orders[t] = rec[t] /\ orders[t].status = "open"
    BY <2>1 DEF RowInv, OpenRecord, Moving, Writing, Written
  <2>3. ~Ending(t) /\ (InHand(t) => t \in openOrders)
    BY DEF Quiet, Ending, InHand, AtVenue
  <2>4. Agreed(t) /\ RowOk(t) /\ orders[t].status # "none"
    BY DEF CallInv, RowInv, TableInv, PersistedRows
  <2>5. QED
    BY <2>2, <2>3, <2>4 DEF Agreed, RowOk, CallInv, OrderLive
<1>7. QED
    BY <1>1, <1>2, <1>3, <1>4, <1>5, <1>6, RowInvInit, PTL DEF Spec

-----------------------------------------------------------------------------
\* Fills are booked once

\* Every row is for a fill of its own order.
RowsNamed ==
    \A i \in 1..Len(fillRows) :
        /\ fillRows[i].fill \in 1..Len(exFills)
        /\ Names(fillRows[i].trace, exFills[fillRows[i].fill].order)

\* An order of one contract has one fill, and its row in execution.fills is
\* written while the order is open; from then on the order is on its way out of
\* openOrders, and nobody brings it back.
RowsLeaving ==
    /\ \A i \in 1..Len(fillRows) :
          /\ fillRows[i].trace \in openOrders
                => poll.trace = fillRows[i].trace /\ poll.pc \in {"apply", "unregister"}
          /\ \A c \in Clients : sub[c].pc \in AtVenue => sub[c].trace # fillRows[i].trace
          /\ poll.pc = "persist" => poll.trace # fillRows[i].trace
    /\ \A i, j \in 1..Len(fillRows) : fillRows[i].trace = fillRows[j].trace => i = j

Reported == \A t \in Traces : reported[t] + Unreported(t) = BookedContracts(t)

BookInv == RowsNamed /\ RowsLeaving /\ Reported

\* What the layers below say of a step without a crash.
BookBase == Below /\ RowInv /\ AddressInv

\* Rows of fills that stay where they are are worth what they were worth.
LEMMA BookedStays ==
    ASSUME RowsNamed, FillsGrow, UNCHANGED fillRows, NEW t
    PROVE  BookedContracts(t)' = BookedContracts(t)
<1>1. PICK S : S = {j \in 1..Len(fillRows) : fillRows[j].trace = t}
    OBVIOUS
<1>2. S = {j \in 1..Len(fillRows') : fillRows'[j].trace = t}
    BY <1>1
<1>3. \A i \in S : exFills'[fillRows'[i].fill].qty = exFills[fillRows[i].fill].qty
    BY <1>1 DEF RowsNamed, FillsGrow
<1>4. [i \in S |-> exFills'[fillRows'[i].fill].qty] = [i \in S |-> exFills[fillRows[i].fill].qty]
    BY <1>3
<1>5. /\ BookedContracts(t) = SumFunction([i \in S |-> exFills[fillRows[i].fill].qty])
      /\ BookedContracts(t)' = SumFunction([i \in S |-> exFills'[fillRows'[i].fill].qty])
    BY <1>1, <1>2 DEF BookedContracts
<1>6. QED
    BY <1>4, <1>5

LEMMA NamedStays ==
    ASSUME RowsNamed, AddressInv, EngineType, EngineType', FillsGrow, VenueKeeps, UNCHANGED fillRows
    PROVE  RowsNamed'
<1> SUFFICES ASSUME NEW i \in 1..Len(fillRows')
             PROVE  /\ fillRows'[i].fill \in 1..Len(exFills')
                    /\ Names(fillRows[i].trace, exFills[fillRows[i].fill].order)'
    BY DEF RowsNamed
<1>1. i \in 1..Len(fillRows) /\ fillRows'[i] = fillRows[i]
    OBVIOUS
<1>2. /\ fillRows[i].fill \in 1..Len(exFills)
      /\ Names(fillRows[i].trace, exFills[fillRows[i].fill].order)
    BY <1>1 DEF RowsNamed
<1>3. Len(exFills) \in Nat /\ Len(exFills') \in Nat /\ Len(exFills) <= Len(exFills')
      /\ exFills'[fillRows[i].fill] = exFills[fillRows[i].fill]
    BY <1>2 DEF EngineType, VenueType, FillsGrow
<1>4. fillRows'[i].fill \in 1..Len(exFills')
    BY <1>1, <1>2, <1>3
<1>5. Names(fillRows[i].trace, exFills[fillRows[i].fill].order)'
  <2>1. PICK e : e = exFills[fillRows[i].fill].order
      OBVIOUS
  <2>2. exFills'[fillRows'[i].fill].order = e /\ fillRows'[i].trace = fillRows[i].trace
      BY <1>1, <1>3, <2>1
  <2>3. e \in 1..Len(exOrders) /\ exOrders[e].req = fillRows[i].trace
      BY <1>2, <2>1 DEF Names
  <2>4. e \in 1..Len(exOrders') /\ exOrders'[e].req = fillRows[i].trace
      BY <2>3 DEF VenueKeeps
  <2>5. QED
      BY <2>2, <2>4 DEF Names
<1>6. QED
    BY <1>4, <1>5

\* The poller has the same fill in hand.
LEMMA UnreportedStays ==
    ASSUME EngineType, FillsGrow, UNCHANGED poll, NEW t
    PROVE  Unreported(t)' = Unreported(t)
<1>1. CASE poll.pc \in {"apply", "unregister", "intent", "report"}
  <2>1. poll.next \in 1..Len(exFills)
      BY <1>1 DEF EngineType, PollInv, PollType, VenueType, Processing
  <2>2. exFills'[poll.next] = exFills[poll.next]
      BY <2>1 DEF FillsGrow
  <2>3. QED
      BY <2>2 DEF Unreported, PollFill
<1>2. CASE poll.pc \notin {"apply", "unregister", "intent", "report"}
    BY <1>2 DEF Unreported
<1>3. QED
    BY <1>1, <1>2

\* A step that neither books nor reports, brings nothing back and nobody to the venue.
LEMMA BookKeeps ==
    ASSUME BookInv, AddressInv, EngineType, EngineType', FillsGrow, VenueKeeps,
           UNCHANGED <<fillRows, reported, poll>>, openOrders' \subseteq openOrders,
           \A c \in Clients : sub'[c].pc \in AtVenue
              => sub[c].pc \in AtVenue /\ sub'[c].trace = sub[c].trace
    PROVE  BookInv'
<1>1. RowsNamed'
    BY NamedStays DEF BookInv
<1>2. RowsLeaving'
    BY DEF BookInv, RowsLeaving
<1>3. Reported'
  <2>1. ASSUME NEW t \in Traces
        PROVE  reported'[t] + Unreported(t)' = BookedContracts(t)'
      BY BookedStays, UnreportedStays DEF BookInv, Reported
  <2>2. QED
      BY <2>1 DEF Reported
<1>4. QED
    BY <1>1, <1>2, <1>3 DEF BookInv

\* SubmitOrder comes to the venue with a trace that has no row yet, and registers
\* one that has no fill yet.
LEMMA SubmitBooks ==
    ASSUME BookInv, BookBase, EngineType', FillsGrow, VenueKeeps, NEW c \in Clients, SubmitOrder(c)
    PROVE  BookInv'
<1>0. /\ UNCHANGED <<fillRows, reported, poll>>
      /\ sub \in [Clients -> SubType]
    BY DEF SubmitOrder, SubmitGate, SubmitAppend, SubmitAppended, SubmitPersist, SubmitVenue,
           SubmitTransition, SubmitIntent, SubmitRegister, procVars, dbVars, BookBase, Below, ExecInv,
           SubInv
<1>b. EngineType /\ AddressInv /\ RowsNamed /\ RowsLeaving
    BY DEF BookBase, Below, BookInv
<1>1. CASE SubmitPersist(c) /\ SubGoto(c, "venue")
  <2>1. UNCHANGED openOrders /\ sub[c].trace \notin PersistedRows
        /\ sub'[c].trace = sub[c].trace /\ \A d \in Clients : d # c => sub'[d] = sub[d]
    <3>1. UNCHANGED openOrders
        BY <1>1 DEF SubmitPersist
    <3>2. sub'[c].pc = "venue" /\ sub'[c].trace = sub[c].trace
          /\ \A d \in Clients : d # c => sub'[d] = sub[d]
        BY <1>0, <1>1 DEF SubGoto, SubAcked
    <3>3. KeyUnused(sub[c].trace)
        BY <1>0, <1>1, <3>2 DEF SubmitPersist, SubReturn, IdleSub
    <3>4. QED
        BY <3>1, <3>2, <3>3 DEF KeyUnused
  <2>2. \A i \in 1..Len(fillRows) : fillRows[i].trace \in PersistedRows
      BY <1>b DEF RowsNamed, Names, BookBase, Below, ExecInv, VenInv
  <2>3. RowsLeaving'
      BY <1>0, <1>b, <2>1, <2>2 DEF RowsLeaving
  <2>4. RowsNamed'
      BY <1>0, <1>b, NamedStays
  <2>5. Reported'
    <3>1. ASSUME NEW t \in Traces
          PROVE  reported'[t] + Unreported(t)' = BookedContracts(t)'
        BY <1>0, <1>b, BookedStays, UnreportedStays DEF BookInv, Reported
    <3>2. QED
        BY <3>1 DEF Reported
  <2>6. QED
      BY <2>3, <2>4, <2>5 DEF BookInv
<1>2. CASE SubmitRegister(c)
  <2>1. /\ sub[c].pc = "register" /\ openOrders' = openOrders \cup {sub[c].trace}
        /\ sub'[c].pc = "idle" /\ \A d \in Clients : d # c => sub'[d] = sub[d]
      BY <1>0, <1>2 DEF SubmitRegister, SubReturn, IdleSub
  <2>2. \A i \in 1..Len(fillRows) : fillRows[i].trace # sub[c].trace
      BY <1>b, <2>1 DEF RowsLeaving, AtVenue
  <2>3. RowsLeaving'
      BY <1>0, <1>b, <2>1, <2>2 DEF RowsLeaving, AtVenue
  <2>4. RowsNamed'
      BY <1>0, <1>b, NamedStays
  <2>5. Reported'
    <3>1. ASSUME NEW t \in Traces
          PROVE  reported'[t] + Unreported(t)' = BookedContracts(t)'
        BY <1>0, <1>b, BookedStays, UnreportedStays DEF BookInv, Reported
    <3>2. QED
        BY <3>1 DEF Reported
  <2>6. QED
      BY <2>3, <2>4, <2>5 DEF BookInv
<1>3. CASE \/ \E t \in Traces : SubmitGate(c, t)
           \/ SubmitAppend(c) \/ SubmitAppended(c) \/ (SubmitPersist(c) /\ SubReturn(c))
           \/ SubmitVenue(c) \/ SubmitTransition(c) \/ SubmitIntent(c)
  <2>1. UNCHANGED openOrders
      BY <1>3 DEF SubmitGate, SubmitAppend, SubmitAppended, SubmitPersist, SubmitVenue,
                  SubmitTransition, SubmitIntent, memVars
  <2>2. \A d \in Clients : sub'[d].pc \in AtVenue
           => sub[d].pc \in AtVenue /\ sub'[d].trace = sub[d].trace
    <3>1. \A d \in Clients : d # c => sub'[d] = sub[d]
        BY <1>0, <1>3 DEF SubmitGate, SubmitAppend, SubmitAppended, SubmitPersist, SubmitVenue,
           SubmitTransition, SubmitIntent, SubGoto, SubAcked, SubReturn, procVars
    <3>2. CASE (\E t \in Traces : SubmitGate(c, t)) \/ SubmitAppend(c) \/ SubmitAppended(c)
               \/ (SubmitPersist(c) /\ SubReturn(c))
      <4>1. sub'[c].pc \notin AtVenue \/ sub' = sub
          BY <1>0, <3>2 DEF SubmitGate, SubmitAppend, SubmitAppended, SubGoto, SubAcked, SubReturn,
             IdleSub, procVars, AtVenue
      <4>2. QED
          BY <3>1, <4>1
    <3>3. CASE SubmitVenue(c) \/ SubmitTransition(c) \/ SubmitIntent(c)
      <4>1. sub[c].pc \in AtVenue /\ (sub'[c].trace = sub[c].trace \/ sub'[c].pc = "idle")
          BY <1>0, <3>3 DEF SubmitVenue, SubmitTransition, SubmitIntent, SubGoto, SubAcked,
             SubReturn, IdleSub, AtVenue
      <4>2. QED
          BY <3>1, <4>1 DEF AtVenue
    <3>4. QED
        BY <1>3, <3>2, <3>3
  <2>3. QED
      BY <1>0, <1>b, <2>1, <2>2, BookKeeps
<1>4. QED
  <2>1. SubmitPersist(c) => SubGoto(c, "venue") \/ SubReturn(c)
      BY DEF SubmitPersist
  <2>2. QED
      BY <1>1, <1>2, <1>3, <2>1 DEF SubmitOrder

\* A poll step that books nothing and reports nothing.
LEMMA PollKeepsBooks ==
    ASSUME BookInv, BookBase, EngineType', FillsGrow, VenueKeeps,
           UNCHANGED <<fillRows, reported, sub, exFills>>, openOrders' \subseteq openOrders,
           \A t \in Traces : Unreported(t)' = Unreported(t),
           poll.pc \in {"apply", "unregister"} /\ poll.trace \in openOrders'
              => poll'.pc \in {"apply", "unregister"} /\ poll'.trace = poll.trace,
           poll'.pc = "persist" => \A i \in 1..Len(fillRows) : fillRows[i].trace # poll'.trace
    PROVE  BookInv'
<1>b. EngineType /\ AddressInv /\ RowsNamed /\ RowsLeaving
    BY DEF BookBase, Below, BookInv
<1>1. RowsNamed'
    BY <1>b, NamedStays
<1>2. RowsLeaving'
    BY <1>b DEF RowsLeaving
<1>3. Reported'
  <2>1. ASSUME NEW t \in Traces
        PROVE  reported'[t] + Unreported(t)' = BookedContracts(t)'
      BY <1>b, BookedStays DEF BookInv, Reported
  <2>2. QED
      BY <2>1 DEF Reported
<1>4. QED
    BY <1>1, <1>2, <1>3 DEF BookInv

\* The fill that is booked is one that no row has: its order has no row.
LEMMA PersistBooks ==
    ASSUME ~DbFaults, BookInv, BookBase, EngineType', AddressInv', PollPersist
    PROVE  BookInv'
<1>b. EngineType /\ AddressInv /\ RowsNamed /\ RowsLeaving /\ Reported
    BY DEF BookBase, Below, BookInv
<1>1. PICK n : n = Len(fillRows)
    OBVIOUS
<1>2. PICK row : row = [trace |-> poll.trace, fill |-> poll.next]
    OBVIOUS
<1>3. /\ poll.pc = "persist" /\ fillRows' = Append(fillRows, row)
      /\ poll'.pc = "apply" /\ poll'.trace = poll.trace /\ poll'.next = poll.next
      /\ UNCHANGED <<reported, openOrders, sub, exOrders, exFills>>
    BY <1>2 DEF PollPersist, PollGoto, memVars, venueVars
<1>4. /\ poll.next \in 1..Len(exFills) /\ poll.trace \in Traces /\ poll.next \in Nat
      /\ Names(poll.trace, exFills[poll.next].order)
  <2>1. poll.next \in 1..Len(exFills) /\ poll.trace \in Traces
      BY <1>b, <1>3 DEF EngineType, PollInv, PollType, VenueType, Processing
  <2>2. QED
      BY <1>b, <1>3, <2>1 DEF AddressInv, PollNamed
<1>5. row \in [trace : Traces, fill : Nat] /\ row.trace = poll.trace /\ row.fill = poll.next
    BY <1>2, <1>4
<1>6. fillRows \in Seq([trace : Traces, fill : Nat])
    BY <1>b DEF AddressInv
<1>7. /\ n \in Nat /\ Len(fillRows') = n + 1 /\ fillRows'[n + 1] = row
      /\ \A i \in 1..n : fillRows'[i] = fillRows[i]
    BY <1>1, <1>3, <1>5, <1>6
<1>8. \A i \in 1..(n + 1) : i = n + 1 \/ i \in 1..n
    BY <1>7
<1>9. \A i \in 1..n : fillRows[i].trace # poll.trace
    BY <1>b, <1>1, <1>3 DEF RowsLeaving
<1>10. RowsNamed'
  <2>1. ASSUME NEW i \in 1..(n + 1)
        PROVE  /\ fillRows'[i].fill \in 1..Len(exFills)
               /\ Names(fillRows'[i].trace, exFills[fillRows'[i].fill].order)
    <3>1. CASE i = n + 1
        BY <1>4, <1>5, <1>7, <3>1
    <3>2. CASE i \in 1..n
        BY <1>b, <1>1, <1>7, <3>2 DEF RowsNamed
    <3>3. QED
        BY <1>8, <3>1, <3>2
  <2>2. QED
      BY <1>3, <1>7, <2>1 DEF RowsNamed, Names
<1>11. RowsLeaving'
  <2>1. \A c \in Clients : sub[c].pc \in AtVenue => sub[c].trace # poll.trace
      BY <1>3 DEF BookBase, Below, LinkInv, AloneAtVenue, Held, Processing
  <2>2. ASSUME NEW i \in 1..(n + 1)
        PROVE  /\ fillRows'[i].trace \in openOrders => poll.trace = fillRows'[i].trace
               /\ \A c \in Clients : sub[c].pc \in AtVenue => sub[c].trace # fillRows'[i].trace
    <3>1. CASE i = n + 1
        BY <1>5, <1>7, <2>1, <3>1
    <3>2. CASE i \in 1..n
        BY <1>b, <1>1, <1>3, <1>7, <3>2 DEF RowsLeaving
    <3>3. QED
        BY <1>8, <3>1, <3>2
  <2>3. ASSUME NEW i \in 1..(n + 1), NEW j \in 1..(n + 1), fillRows'[i].trace = fillRows'[j].trace
        PROVE  i = j
      BY <1>b, <1>1, <1>5, <1>7, <1>8, <1>9, <2>3 DEF RowsLeaving
  <2>4. QED
      BY <1>3, <1>7, <2>2, <2>3 DEF RowsLeaving
<1>12. Reported'
  <2>1. ASSUME NEW t \in Traces
        PROVE  reported'[t] + Unreported(t)' = BookedContracts(t)'
    <3>1. PICK S : S = {j \in 1..n : fillRows[j].trace = t}
        OBVIOUS
    <3>2. PICK f : f = [i \in S |-> exFills[fillRows[i].fill].qty]
        OBVIOUS
    <3>3. BookedContracts(t) = SumFunction(f)
        BY <1>1, <3>1, <3>2 DEF BookedContracts
    <3>4. reported[t] + Unreported(t) = SumFunction(f) /\ Unreported(t) = 0 /\ reported[t] \in Nat
      <4>1. reported[t] + Unreported(t) = BookedContracts(t)
          BY <1>b DEF Reported
      <4>2. Unreported(t) = 0
          BY <1>3 DEF Unreported
      <4>3. reported[t] \in Nat
          BY <1>b DEF EngineType, MemType
      <4>4. QED
          BY <3>3, <4>1, <4>2, <4>3
    <3>5. \A i \in S : exFills'[fillRows'[i].fill].qty = f[i]
        BY <1>3, <1>7, <3>1, <3>2
    <3>6. CASE t # poll.trace
      <4>1. {j \in 1..Len(fillRows') : fillRows'[j].trace = t} = S
          BY <1>5, <1>7, <1>8, <3>1, <3>6
      <4>2. [i \in S |-> exFills'[fillRows'[i].fill].qty] = f
          BY <3>2, <3>5
      <4>3. BookedContracts(t)' = SumFunction(f)
          BY <4>1, <4>2 DEF BookedContracts
      <4>4. Unreported(t)' = 0
          BY <1>3, <3>6 DEF Unreported
      <4>5. QED
          BY <1>3, <3>4, <4>3, <4>4
    <3>7. CASE t = poll.trace
      <4>1. {j \in 1..Len(fillRows') : fillRows'[j].trace = t} = S \cup {n + 1} /\ n + 1 \notin S
          BY <1>5, <1>7, <1>8, <3>1, <3>7
      <4>2. PICK h : h = [i \in S \cup {n + 1} |-> exFills'[fillRows'[i].fill].qty]
          OBVIOUS
      <4>3. BookedContracts(t)' = SumFunction(h)
          BY <4>1, <4>2 DEF BookedContracts
      <4>4. PICK x : x = n + 1
          OBVIOUS
      <4>5. OneMore(f, h, S, x)
        <5>1. IsFiniteSet(S)
          <6>1. IsFiniteSet(1..n)
              BY <1>7, FS_Interval
          <6>2. S \subseteq 1..n
              BY <3>1
          <6>3. QED
              BY <6>1, <6>2, FS_Subset
        <5>2. \A i \in 1..Len(exFills) : exFills[i].qty \in Int
          <6>1. \A i \in 1..Len(exFills) : exFills[i] \in VenueFill
              BY <1>b DEF EngineType, VenueType
          <6>2. QED
              BY <6>1 DEF VenueFill
        <5>3. \A i \in S \cup {x} : h[i] \in Int /\ (i \in S => h[i] = f[i])
          <6>1. \A i \in S \cup {x} : i \in 1..(n + 1) /\ h[i] = exFills[fillRows'[i].fill].qty
              BY <1>3, <1>7, <3>1, <4>2, <4>4
          <6>2. \A i \in 1..(n + 1) : fillRows'[i].fill \in 1..Len(exFills)
              BY <1>3, <1>7, <1>10 DEF RowsNamed
          <6>3. \A i \in S : h[i] = f[i]
              BY <3>5, <4>2
          <6>4. QED
              BY <5>2, <6>1, <6>2, <6>3
        <5>4. h \in [S \cup {x} -> Int]
            BY <4>2, <4>4, <5>3
        <5>5. f \in [S -> Int]
            BY <3>2, <5>3
        <5>6. QED
            BY <4>1, <4>4, <5>1, <5>3, <5>4, <5>5 DEF OneMore
      <4>6. SumFunction(h) = SumFunction(f) + h[x]
          BY <4>5, SumOneMore
      <4>7. h[x] = exFills[poll.next].qty
          BY <1>3, <1>5, <1>7, <4>2, <4>4
      <4>8. Unreported(t)' = exFills[poll.next].qty
          BY <1>3, <3>7 DEF Unreported, PollFill
      <4>9. QED
          BY <1>3, <3>4, <4>3, <4>6, <4>7, <4>8
    <3>8. QED
        BY <3>6, <3>7
  <2>2. QED
      BY <2>1 DEF Reported
<1>13. QED
    BY <1>10, <1>11, <1>12 DEF BookInv

\* riskCallback is told of the fill in hand.
LEMMA ReportBooks ==
    ASSUME ~RemoteFaults, BookInv, BookBase, EngineType', FillsGrow, VenueKeeps, PollReport
    PROVE  BookInv'
<1>b. EngineType /\ AddressInv /\ RowsNamed /\ RowsLeaving /\ Reported
    BY DEF BookBase, Below, BookInv
<1>1. /\ poll.pc = "report" /\ reported' = [reported EXCEPT ![poll.trace] = @ + PollFill.qty]
      /\ poll'.pc = "fill" /\ UNCHANGED <<fillRows, openOrders, sub, exFills>>
    BY DEF PollReport, NextFill, memVars, venueVars
<1>2. RowsNamed'
    BY <1>b, <1>1, NamedStays
<1>3. RowsLeaving'
    BY <1>b, <1>1 DEF RowsLeaving
<1>4. poll.trace \in Traces /\ reported \in [Traces -> Nat] /\ PollFill.qty \in Nat
  <2>1. poll.trace \in Traces /\ poll.next \in 1..Len(exFills)
      BY <1>b, <1>1 DEF EngineType, PollInv, PollType, VenueType, Processing
  <2>2. PollFill \in VenueFill
      BY <1>b, <2>1 DEF EngineType, VenueType, PollFill
  <2>3. PollFill.qty \in Nat
      BY <2>2 DEF VenueFill
  <2>4. QED
      BY <1>b, <2>1, <2>3 DEF EngineType, MemType
<1>5. ASSUME NEW t \in Traces
      PROVE  reported'[t] + Unreported(t)' = BookedContracts(t)'
  <2>1. BookedContracts(t)' = BookedContracts(t)
      BY <1>b, <1>1, BookedStays
  <2>2. reported[t] + Unreported(t) = BookedContracts(t)
      BY <1>b DEF Reported
  <2>3. Unreported(t)' = 0
      BY <1>1 DEF Unreported
  <2>4. reported'[t] = reported[t] + Unreported(t)
    <3>1. CASE t = poll.trace
        BY <1>1, <1>4, <3>1 DEF Unreported
    <3>2. CASE t # poll.trace
        BY <1>1, <1>4, <3>2 DEF Unreported
    <3>3. QED
        BY <3>1, <3>2
  <2>5. reported'[t] \in Nat
    <3>1. Unreported(t) \in Nat
        BY <1>4 DEF Unreported
    <3>2. QED
        BY <1>4, <2>4, <3>1
  <2>6. QED
      BY <2>1, <2>2, <2>3, <2>4, <2>5
<1>6. QED
    BY <1>2, <1>3, <1>5 DEF BookInv, Reported

\* The poller goes on.
LEMMA PollBooks ==
    ASSUME UnitEngine, ~RemoteFaults, BookInv, BookBase, EngineType', AddressInv', FillsGrow,
           VenueKeeps, Poll
    PROVE  BookInv'
<1>b. EngineType /\ AddressInv /\ RowsNamed /\ RowsLeaving /\ SettleInv
    BY DEF BookBase, Below, BookInv, RowInv
<1>1. CASE PollPersist
    BY <1>1, PersistBooks DEF UnitEngine
<1>2. CASE PollReport
    BY <1>2, ReportBooks
<1>3. CASE PollStart \/ PollFetch \/ PollError \/ PollDone
  <2>1. /\ UNCHANGED <<fillRows, reported, sub, exFills, openOrders>>
        /\ poll.pc \in {"idle", "fetch", "fill"} /\ poll'.pc \in {"idle", "fetch", "fill"}
      BY <1>3 DEF PollStart, PollFetch, PollError, PollDone, IdlePoll, dbVars, memVars, venueVars
  <2>2. \A t \in Traces : Unreported(t)' = Unreported(t)
      BY <2>1 DEF Unreported
  <2>3. QED
      BY <2>1, <2>2, PollKeepsBooks
<1>4. CASE PollLookup
  <2>1. /\ UNCHANGED <<fillRows, reported, sub, exFills, openOrders>> /\ poll.pc = "fill"
        /\ \/ poll'.pc = "fill"
           \/ poll'.pc = "persist" /\ poll'.trace \in openOrders
      BY <1>4 DEF PollLookup, PollGoto, NextFill, dbVars, memVars, venueVars
  <2>2. \A t \in Traces : Unreported(t)' = Unreported(t)
      BY <2>1 DEF Unreported
  <2>3. poll'.pc = "persist" => \A i \in 1..Len(fillRows) : fillRows[i].trace # poll'.trace
      BY <1>b, <2>1 DEF RowsLeaving
  <2>4. QED
      BY <2>1, <2>2, <2>3, PollKeepsBooks
<1>5. CASE PollApply
  <2>1. /\ UNCHANGED <<fillRows, reported, sub, exFills, openOrders>> /\ poll.pc = "apply"
        /\ poll'.pc = "unregister" /\ poll'.trace = poll.trace /\ poll'.next = poll.next
      BY <1>5 DEF PollApply, PollGoto, dbVars, venueVars
  <2>2. \A t \in Traces : Unreported(t)' = Unreported(t)
      BY <2>1 DEF Unreported, PollFill
  <2>3. QED
      BY <2>1, <2>2, PollKeepsBooks
<1>6. CASE PollUnregister
  <2>1. tr["poll"].to = "filled"
      BY <1>b, <1>6 DEF PollUnregister, SettleInv
  <2>2. /\ UNCHANGED <<fillRows, reported, sub, exFills>> /\ poll.pc = "unregister"
        /\ openOrders' = openOrders \ {poll.trace}
        /\ poll'.pc \in {"intent", "report"} /\ poll'.trace = poll.trace /\ poll'.next = poll.next
      BY <1>6, <2>1 DEF PollUnregister, Unregister, PollGoto, dbVars, venueVars
  <2>3. \A t \in Traces : Unreported(t)' = Unreported(t)
      BY <2>2 DEF Unreported, PollFill
  <2>4. QED
      BY <2>2, <2>3, PollKeepsBooks
<1>7. CASE PollIntent
  <2>1. /\ UNCHANGED <<fillRows, reported, sub, exFills, openOrders>> /\ poll.pc = "intent"
        /\ poll'.pc = "report" /\ poll'.trace = poll.trace /\ poll'.next = poll.next
      BY <1>7 DEF PollIntent, PollGoto, dbVars, memVars, venueVars
  <2>2. \A t \in Traces : Unreported(t)' = Unreported(t)
      BY <2>1 DEF Unreported, PollFill
  <2>3. QED
      BY <2>1, <2>2, PollKeepsBooks
<1>8. QED
    BY <1>1, <1>2, <1>3, <1>4, <1>5, <1>6, <1>7 DEF Poll

LEMMA BookInvStep ==
    ASSUME UnitEngine, ~RemoteFaults, MaxCrashes = 0
    PROVE  BookBase /\ BookInv /\ [Next]_vars => BookInv'
<1> SUFFICES ASSUME BookBase, BookInv, [Next]_vars PROVE BookInv'
    OBVIOUS
<1>b. ExecInv /\ EngineType /\ LinkInv /\ AddressInv
    BY DEF BookBase, Below
<1>0. ~Crash /\ ~RecoverFull /\ EngineType' /\ AddressInv'
    BY <1>b, EngineTypeStep, AddressInvStep DEF Crash, RecoverFull, AddressInv
<1>1. VenueKeeps /\ FillsGrow
    BY <1>b, <1>0, VenueRemembers
<1>2. ASSUME NEW c \in Clients, SubmitOrder(c)
      PROVE  BookInv'
    BY <1>0, <1>1, <1>2, SubmitBooks
<1>3. CASE \/ UNCHANGED vars \/ CancelOrder \/ CancelAll \/ ExchangeStep
           \/ \E a \in Shared : transitionOrder(a)
           \/ \E m \in Modes : SetSystemMode(m)
  <2>1. UNCHANGED <<fillRows, reported, poll, sub>>
      BY <1>3 DEF vars, CancelOrder, CancelLookup, CancelVenue, CancelUnregister, CancelIntent,
         CancelAll, CaVenue, CaLock, CaLoop, CaIntent, CaUnlock, ExchangeStep, transitionOrder,
         TransCheck, TransSet, TransWrite, SetSystemMode, dbVars, procVars
  <2>2. openOrders' \subseteq openOrders
      BY <1>3 DEF vars, CancelOrder, CancelLookup, CancelVenue, CancelUnregister, CancelIntent,
         CancelAll, CaVenue, CaLock, CaLoop, CaIntent, CaUnlock, ExchangeStep, transitionOrder,
         TransCheck, TransSet, TransWrite, SetSystemMode, Unregister, memVars
  <2>3. QED
      BY <1>b, <1>0, <1>1, <2>1, <2>2, BookKeeps
<1>4. CASE Poll
    BY <1>0, <1>1, <1>4, PollBooks
<1>5. QED
    BY <1>0, <1>2, <1>3, <1>4 DEF Next

LEMMA BookInvInit == Init => BookInv
<1> SUFFICES ASSUME Init PROVE BookInv
    OBVIOUS
<1>1. fillRows = << >> /\ reported = [t \in Traces |-> 0] /\ poll.pc = "idle"
    BY DEF Init, IdlePoll
<1>2. ASSUME NEW t \in Traces
      PROVE  reported[t] + Unreported(t) = BookedContracts(t)
  <2>1. {j \in 1..Len(fillRows) : fillRows[j].trace = t} = {}
      BY <1>1
  <2>2. PICK f : f = [i \in {} |-> exFills[fillRows[i].fill].qty]
      OBVIOUS
  <2>3. DOMAIN f = {}
      BY <2>2
  <2>4. BookedContracts(t) = SumFunction(f)
      BY <2>1, <2>2 DEF BookedContracts
  <2>5. SumFunction(f) = 0
      BY <2>3, SumEmpty
  <2>6. QED
      BY <1>1, <2>4, <2>5 DEF Unreported
<1>3. QED
    BY <1>1, <1>2 DEF BookInv, RowsNamed, RowsLeaving, Reported

\* FillsBookedOnce for orders of one contract, in an engine whose statements and
\* calls succeed and that does not crash: although the windows of two polls
\* overlap and the venue returns the same fills again, no fill gets two rows in
\* execution.fills, and what is booked for an order is what the risk engine was
\* told, but for the fill in the poller's hands (processFill, runFillPoller).
\* (A call of the risk engine that fails is not repeated, and a crash takes the
\* fill in hand with it.)
THEOREM UnitFillsBookedOnce ==
    ASSUME UnitEngine, ~RemoteFaults, MaxCrashes = 0
    PROVE  Spec => []FillsBookedOnce
<1>1. Init => Below
    BY ExecInvInit, EngineTypeInit, LinkInvInit, OpenInvInit DEF Below
<1>2. Below /\ [Next]_vars => Below'
    BY ExecInvStep, EngineTypeStep, LinkInvStep, OpenInvStep DEF Below, UnitEngine
<1>3. Below /\ RowInv /\ [Next]_vars => RowInv'
    BY RowInvStep
<1>4. Init => AddressInv
    BY AddressInvInit
<1>5. Below /\ AddressInv /\ [Next]_vars => AddressInv'
    BY AddressInvStep DEF Below
<1>6. Below /\ RowInv /\ AddressInv /\ BookInv /\ [Next]_vars => BookInv'
    BY BookInvStep DEF BookBase
<1>7. BookInv => FillsBookedOnce
  <2> SUFFICES ASSUME BookInv PROVE FillsBookedOnce
    OBVIOUS
  <2>1. ASSUME NEW i \in 1..Len(fillRows), NEW j \in 1..Len(fillRows),
               fillRows[i].fill = fillRows[j].fill
        PROVE  i = j
    <3>1. fillRows[i].trace = fillRows[j].trace
      BY <2>1 DEF BookInv, RowsNamed, Names
    <3>2. QED
      BY <3>1 DEF BookInv, RowsLeaving
  <2>2. QED
    BY <2>1 DEF BookInv, Reported, FillsBookedOnce
<1>8. QED
    BY <1>1, <1>2, <1>3, <1>4, <1>5, <1>6, <1>7, BookInvInit, RowInvInit, PTL DEF Spec
=============================================================================
