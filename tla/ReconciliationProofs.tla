------------------------ MODULE ReconciliationProofs ------------------------
(***************************************************************************)
(* The theorems about reconciliation beside the execution engine.          *)
(*                                                                         *)
(* It only reads, so what is proved of the engine holds beside it.         *)
(*                                                                         *)
(* Its alarms: the argument has three parts.  VenueBooks says that the     *)
(* venue's positions are what it has filled, trace by trace, and OpenRows  *)
(* that an open row names its order and has no fill in it.  From both and  *)
(* the invariants of the engine, the two sides of each comparison agree    *)
(* whenever every fill is settled (SettledPositions, SettledOrders).       *)
(* CycleInv carries that over the steps of a cycle: as long as none of     *)
(* them met an unsettled fill, what was read before is still true, because *)
(* only a fill changes positions and filled quantities, and a new fill is  *)
(* unsettled (FillUnsettles).                                              *)
(***************************************************************************)
EXTENDS Reconciliation, ExecutionVenueProofs

\* The traces of a market, and what the venue has filled of an order of one contract.
InMarket(k) == {t \in Traces : Key[t] = k}

Filled(t) ==
    IF \E e \in 1..Len(exOrders) : exOrders[e].req = t /\ exOrders[e].status = "filled"
    THEN 1 ELSE 0

\* The venue's positions are the sum of what it has filled, order by order, and a
\* filled order has its fill in the list.
VenueBooks ==
    /\ positions = [k \in Keys |-> SumFunction([t \in InMarket(k) |-> Filled(t)])]
    /\ \A e \in 1..Len(exOrders) :
          /\ exOrders[e].filled = IF exOrders[e].status = "filled" THEN 1 ELSE 0
          /\ exOrders[e].status = "filled" => \E f \in 1..Len(exFills) : exFills[f].order = e

\* An open row names the order of its record, and has no fill yet.
OpenRows ==
    \A t \in Traces :
        orders[t].status = "open" => orders[t].filled = 0 /\ orders[t].exch = rec[t].exch

\* A cycle during which everything was settled has found nothing critical, and
\* what it has read still agrees with the venue.
CycleInv ==
    /\ cyc = [pc |-> cyc.pc, internal |-> cyc.internal, rows |-> cyc.rows,
              critical |-> cyc.critical]
    /\ cyc.critical => gap
    /\ cyc.pc # "idle" /\ ~gap => ~Unsettled
    /\ cyc.pc = "positions" /\ ~gap => cyc.internal = positions
    /\ cyc.pc = "compare" /\ ~gap => \A e \in DOMAIN cyc.rows : ~CriticalOrder(cyc.rows[e])

-----------------------------------------------------------------------------
\* Reconciliation only reads

\* Every step of the composition is a step of the engine or leaves it alone.
LEMMA ReconStep == [ReconNext]_rvars => [Next]_vars
BY DEF ReconNext, Trading, EngineStep, RunOnce, ProcessCrash, Start, Next, rvars

\* Reconciliation reads the engine's tables and the venue and writes neither, so
\* the engine beside it does what it does alone, and what is proved of the engine
\* holds with reconciliation running (services/recon; for any orders, faults and
\* crashes).
THEOREM ReconciliationOnlyReads == ReconSpec => Spec
<1>1. ReconInit => Init
    BY DEF ReconInit
<1>2. QED
    BY <1>1, ReconStep, PTL DEF ReconSpec, Spec

-----------------------------------------------------------------------------
\* The venue's books

\* What a step that comes from no crash does to the venue.
LEMMA VenueCases ==
    ASSUME UnitEngine, BookBase, [Next]_vars, ~Crash
    PROVE  \/ UNCHANGED venueVars
           \/ \E t \in Traces : \E s \in {"open", "rejected"} : Venue!ExSubmit(t, s)
           \/ \E e : Venue!ExCancel(e)
           \/ \E e \in Venue!ExIds : Venue!ExNoFill(e)
           \/ UNCHANGED fillRows /\ \E e \in Venue!ExIds : Venue!ExFill(e)
<1>1. ~CancelAll
    BY NoCancelAllStep DEF UnitEngine, BookBase, Below, OpenInv
<1>2. ASSUME NEW c \in Clients, SubmitOrder(c)
      PROVE  UNCHANGED venueVars \/ \E t \in Traces : \E s \in {"open", "rejected"} : Venue!ExSubmit(t, s)
  <2>1. CASE SubmitVenue(c)
    <3>1. sub[c].trace \in Traces
        BY <2>1 DEF SubmitVenue, BookBase, Below, ExecInv, SubInv, AtVenue, PersistedRows
    <3>2. QED
        BY <2>1, <3>1 DEF SubmitVenue
  <2>2. QED
      BY <1>2, <2>1 DEF SubmitOrder, SubmitGate, SubmitAppend, SubmitAppended, SubmitPersist,
         SubmitTransition, SubmitIntent, SubmitRegister
<1>3. CASE CancelOrder
    BY <1>3 DEF CancelOrder, CancelLookup, CancelVenue, CancelUnregister, CancelIntent
<1>4. CASE ExchangeStep
    BY <1>4 DEF ExchangeStep, dbVars
<1>5. CASE Poll
    BY <1>5 DEF Poll, PollStart, PollFetch, PollError, PollDone, PollLookup, PollPersist,
       PollApply, PollUnregister, PollIntent, PollReport
<1>6. QED
    BY <1>1, <1>2, <1>3, <1>4, <1>5 DEF Next, vars, transitionOrder, TransCheck, TransSet,
       TransWrite, SetSystemMode, RecoverFull

\* A trace has one order at the venue.
LEMMA OneOrder ==
    ASSUME LinkInv, NEW d \in 1..Len(exOrders), NEW e \in 1..Len(exOrders),
           exOrders[d].req = exOrders[e].req
    PROVE  d = e
BY DEF LinkInv, Linked

\* The traces of a market are finitely many.
LEMMA MarketFinite ==
    ASSUME NEW k
    PROVE  IsFiniteSet(InMarket(k)) /\ InMarket(k) \subseteq Traces
BY LedgerAssumption, FS_Subset DEF InMarket

\* Positions stay what the orders say when no order comes to be filled.
LEMMA PositionsStay ==
    ASSUME VenueBooks, UNCHANGED positions, \A t \in Traces : Filled(t)' = Filled(t)
    PROVE  positions' = [k \in Keys |-> SumFunction([t \in InMarket(k) |-> Filled(t)'])]
<1>1. ASSUME NEW k \in Keys
      PROVE  SumFunction([t \in InMarket(k) |-> Filled(t)']) = SumFunction([t \in InMarket(k) |-> Filled(t)])
  <2>1. [t \in InMarket(k) |-> Filled(t)'] = [t \in InMarket(k) |-> Filled(t)]
      BY DEF InMarket
  <2>2. QED
      BY <2>1
<1>2. QED
    BY <1>1 DEF VenueBooks

\* A new order is not filled.
LEMMA SubmitKeepsBooks ==
    ASSUME VenueBooks, VenueType, NEW t \in Traces, NEW s \in {"open", "rejected"},
           Venue!ExSubmit(t, s)
    PROVE  VenueBooks'
<1>1. /\ Len(exOrders') = Len(exOrders) + 1 /\ Len(exOrders) \in Nat /\ UNCHANGED <<exFills, positions>>
      /\ \A e \in 1..Len(exOrders) : exOrders'[e] = exOrders[e]
      /\ exOrders'[Len(exOrders) + 1].status = s
    BY VenueAdds DEF VenueType, Venue!ExSubmit
<1>2. exOrders'[Len(exOrders) + 1].filled = 0
    BY <1>1 DEF Venue!ExSubmit, VenueType
<1>3. \A u \in Traces : Filled(u)' = Filled(u)
    BY <1>1 DEF Filled
<1>4. positions' = [k \in Keys |-> SumFunction([u \in InMarket(k) |-> Filled(u)'])]
    BY <1>1, <1>3, PositionsStay
<1>5. ASSUME NEW e \in 1..Len(exOrders')
      PROVE  /\ exOrders'[e].filled = IF exOrders'[e].status = "filled" THEN 1 ELSE 0
             /\ exOrders'[e].status = "filled" => \E f \in 1..Len(exFills') : exFills'[f].order = e
  <2>1. CASE e \in 1..Len(exOrders)
      BY <1>1, <2>1 DEF VenueBooks
  <2>2. CASE e = Len(exOrders) + 1
      BY <1>1, <1>2, <2>2
  <2>3. QED
      BY <1>1, <1>5, <2>1, <2>2
<1>6. QED
    BY <1>4, <1>5 DEF VenueBooks, InMarket

\* A cancelled order was not filled.
LEMMA CancelKeepsBooks ==
    ASSUME VenueBooks, VenueType, NEW d, Venue!ExCancel(d)
    PROVE  VenueBooks'
<1>1. /\ d \in 1..Len(exOrders) /\ exOrders[d].status # "filled"
      /\ exOrders' = [exOrders EXCEPT ![d].status = "cancelled"] /\ UNCHANGED <<exFills, positions>>
    BY DEF Venue!ExCancel, Venue!Cancellable, Venue!ExIds
<1>2. /\ Len(exOrders') = Len(exOrders)
      /\ \A e \in 1..Len(exOrders) : e # d => exOrders'[e] = exOrders[e]
      /\ exOrders'[d].req = exOrders[d].req /\ exOrders'[d].filled = exOrders[d].filled
      /\ exOrders'[d].status = "cancelled"
  <2>1. exOrders \in Seq(VenueOrder) /\ exOrders[d] \in VenueOrder
      BY <1>1 DEF VenueType
  <2>2. QED
      BY <1>1, <2>1 DEF VenueOrder
<1>3. \A u \in Traces : Filled(u)' = Filled(u)
    BY <1>1, <1>2 DEF Filled
<1>4. positions' = [k \in Keys |-> SumFunction([u \in InMarket(k) |-> Filled(u)'])]
    BY <1>1, <1>3, PositionsStay
<1>5. \A e \in 1..Len(exOrders') :
         /\ exOrders'[e].filled = IF exOrders'[e].status = "filled" THEN 1 ELSE 0
         /\ exOrders'[e].status = "filled" => \E f \in 1..Len(exFills') : exFills'[f].order = e
    BY <1>1, <1>2 DEF VenueBooks
<1>6. QED
    BY <1>4, <1>5 DEF VenueBooks, InMarket

\* A fill adds one contract to the order and to the position in its market.
LEMMA FillKeepsBooks ==
    ASSUME UnitEngine, VenueBooks, VenueType, VenueType', LinkInv, Whole, Whole',
           NEW d \in Venue!ExIds, Venue!ExFill(d)
    PROVE  VenueBooks'
<1>0. /\ d \in 1..Len(exOrders) /\ Len(exOrders) \in Nat /\ Len(exFills) \in Nat
      /\ exOrders[d] \in VenueOrder /\ exOrders \in Seq(VenueOrder) /\ exFills \in Seq(VenueFill)
    BY DEF Venue!ExIds, VenueType
<1>1. exOrders[d].status = "open" /\ exOrders[d].filled = 0
    BY <1>0 DEF Whole, Venue!ExFill, Venue!Fillable
<1>2. PICK t \in Traces : t = exOrders[d].req
    BY <1>0 DEF VenueOrder
<1>3. PICK r : r = Quantity[exOrders[d].req] - exOrders[d].filled
    OBVIOUS
<1>4. r = 1 /\ Venue!PartialSizes(r) = {}
    BY <1>1, <1>2, <1>3 DEF UnitEngine, Venue!PartialSizes
<1>q. /\ exFills' = Append(exFills, [order |-> d, qty |-> 1])
      /\ exOrders' = [exOrders EXCEPT ![d] = [req |-> t, filled |-> 1, status |-> "filled"]]
      /\ Venue!Book(t, 1)
  <2>1. PICK q \in {r} \cup Venue!PartialSizes(r) :
            /\ exFills' = Append(exFills, [order |-> d, qty |-> q])
            /\ exOrders' = [exOrders EXCEPT ![d] =
                               [req    |-> exOrders[d].req,
                                filled |-> exOrders[d].filled + q,
                                status |-> IF r - q <= 0 THEN "filled" ELSE "partially_filled"]]
            /\ Venue!Book(exOrders[d].req, q)
      BY <1>3 DEF Venue!ExFill
  <2>2. q = 1 /\ exOrders[d].filled + q = 1 /\ r - q <= 0
      BY <1>1, <1>4, <2>1
  <2>3. QED
      BY <1>2, <2>1, <2>2
<1>5. /\ Len(exFills') = Len(exFills) + 1 /\ exFills'[Len(exFills) + 1].order = d
      /\ \A f \in 1..Len(exFills) : exFills'[f] = exFills[f]
  <2>1. [order |-> d, qty |-> 1] \in VenueFill
      BY <1>0 DEF VenueFill
  <2>2. QED
      BY <1>0, <1>q, <2>1
<1>6. /\ Len(exOrders') = Len(exOrders)
      /\ \A e \in 1..Len(exOrders) : e # d => exOrders'[e] = exOrders[e]
      /\ exOrders'[d].req = t /\ exOrders'[d].filled = 1 /\ exOrders'[d].status = "filled"
    BY <1>0, <1>q
<1>7. Filled(t) = 0 /\ Filled(t)' = 1 /\ \A u \in Traces : u # t => Filled(u)' = Filled(u)
  <2>1. \A e \in 1..Len(exOrders) : exOrders[e].req = t => e = d
      BY <1>0, <1>2, OneOrder
  <2>2. Filled(t) = 0
      BY <1>1, <2>1 DEF Filled
  <2>3. Filled(t)' = 1
      BY <1>0, <1>6 DEF Filled
  <2>4. ASSUME NEW u \in Traces, u # t
        PROVE  Filled(u)' = Filled(u)
    <3>1. \A e \in 1..Len(exOrders) : exOrders[e].req = u => exOrders'[e] = exOrders[e]
        BY <1>2, <1>6, <2>4
    <3>2. \A e \in 1..Len(exOrders) : exOrders'[e].req = u => exOrders'[e] = exOrders[e]
        BY <1>6, <2>4
    <3>3. QED
        BY <1>6, <3>1, <3>2 DEF Filled
  <2>5. QED
      BY <2>2, <2>3, <2>4
<1>8. positions' = [positions EXCEPT ![Key[t]] = @ + 1 * 1]
    BY <1>q DEF Venue!Book
<1>9. positions' = [k \in Keys |-> SumFunction([u \in InMarket(k) |-> Filled(u)'])]
  <2>1. ASSUME NEW k \in Keys, k # Key[t]
        PROVE  SumFunction([u \in InMarket(k) |-> Filled(u)']) = positions[k]
    <3>1. \A u \in InMarket(k) : u \in Traces /\ u # t
        BY <2>1 DEF InMarket
    <3>2. [u \in InMarket(k) |-> Filled(u)'] = [u \in InMarket(k) |-> Filled(u)]
        BY <1>7, <3>1
    <3>3. QED
        BY <2>1, <3>2 DEF VenueBooks
  <2>2. PICK S : S = InMarket(Key[t])
      OBVIOUS
  <2>3. IsFiniteSet(S) /\ t \in S /\ S \subseteq Traces
      BY <2>2, MarketFinite DEF InMarket
  <2>4. PICK a : a = [u \in S |-> Filled(u)]
      OBVIOUS
  <2>5. PICK b : b = [u \in S |-> Filled(u)']
      OBVIOUS
  <2>6. a \in [S -> Int] /\ b \in [S -> Int]
      BY <2>4, <2>5 DEF Filled
  <2>7. a[t] = 0 /\ b[t] = 1 /\ \A u \in S \ {t} : b[u] = a[u]
      BY <1>7, <2>3, <2>4, <2>5
  <2>8. SumFunction(b) = SumFunction(a) - a[t] + b[t]
      BY <2>3, <2>6, <2>7, SumChange
  <2>9. SumFunction(a) \in Int
      BY <2>3, <2>6, SumInt
  <2>10. SumFunction(b) = SumFunction(a) + 1
      BY <2>7, <2>8, <2>9
  <2>11. Key[t] \in Keys
      BY LedgerAssumption
  <2>12. positions[Key[t]] = SumFunction(a)
      BY <2>2, <2>4, <2>11 DEF VenueBooks
  <2>13. SumFunction([u \in InMarket(Key[t]) |-> Filled(u)']) = positions[Key[t]] + 1
      BY <2>2, <2>5, <2>10, <2>12
  <2>14. DOMAIN positions = Keys /\ positions = [k \in Keys |-> positions[k]]
      BY DEF VenueBooks
  <2>15. \A k \in Keys : positions'[k] = IF k = Key[t] THEN positions[Key[t]] + 1 ELSE positions[k]
      BY <1>8, <2>11, <2>14
  <2>16. positions' = [k \in Keys |-> positions'[k]]
      BY <1>8, <2>14
  <2>17. \A k \in Keys : positions'[k] = SumFunction([u \in InMarket(k) |-> Filled(u)'])
      BY <2>1, <2>13, <2>15
  <2>18. QED
      BY <2>16, <2>17
<1>10. ASSUME NEW e \in 1..Len(exOrders')
       PROVE  /\ exOrders'[e].filled = IF exOrders'[e].status = "filled" THEN 1 ELSE 0
              /\ exOrders'[e].status = "filled" => \E f \in 1..Len(exFills') : exFills'[f].order = e
  <2>1. CASE e = d
    <3>1. Len(exFills) + 1 \in 1..Len(exFills')
        BY <1>0, <1>5
    <3>2. QED
        BY <1>5, <1>6, <2>1, <3>1
  <2>2. CASE e # d
    <3>1. e \in 1..Len(exOrders) /\ exOrders'[e] = exOrders[e]
        BY <1>6, <1>10, <2>2
    <3>2. \A f \in 1..Len(exFills) : f \in 1..Len(exFills') /\ exFills'[f] = exFills[f]
        BY <1>0, <1>5
    <3>3. QED
        BY <3>1, <3>2 DEF VenueBooks
  <2>3. QED
      BY <2>1, <2>2
<1>11. QED
    BY <1>9, <1>10 DEF VenueBooks, InMarket

\* The venue's books are in order after every step.
LEMMA VenueBooksStep ==
    ASSUME UnitEngine
    PROVE  BookBase /\ BookBase' /\ VenueBooks /\ [Next]_vars /\ ~Crash => VenueBooks'
<1> SUFFICES ASSUME BookBase, BookBase', VenueBooks, [Next]_vars, ~Crash PROVE VenueBooks'
    OBVIOUS
<1>1. VenueType /\ LinkInv /\ Whole /\ VenueType' /\ Whole'
    BY DEF BookBase, Below, EngineType, RowInv
<1>2. CASE UNCHANGED venueVars \/ \E e \in Venue!ExIds : Venue!ExNoFill(e)
  <2>1. UNCHANGED <<exOrders, exFills, positions>>
      BY <1>2 DEF venueVars, Venue!ExNoFill
  <2>2. \A u \in Traces : Filled(u)' = Filled(u)
      BY <2>1 DEF Filled
  <2>3. positions' = [k \in Keys |-> SumFunction([u \in InMarket(k) |-> Filled(u)'])]
      BY <2>1, <2>2, PositionsStay
  <2>4. QED
      BY <2>1, <2>3 DEF VenueBooks, InMarket
<1>3. CASE \E t \in Traces : \E s \in {"open", "rejected"} : Venue!ExSubmit(t, s)
    BY <1>1, <1>3, SubmitKeepsBooks
<1>4. CASE \E e : Venue!ExCancel(e)
    BY <1>1, <1>4, CancelKeepsBooks
<1>5. CASE \E e \in Venue!ExIds : Venue!ExFill(e)
    BY <1>1, <1>5, FillKeepsBooks
<1>6. QED
    BY <1>2, <1>3, <1>4, <1>5, VenueCases

LEMMA VenueBooksInit == Init => VenueBooks
<1> SUFFICES ASSUME Init PROVE VenueBooks
    OBVIOUS
<1>1. exOrders = << >> /\ positions = [k \in Keys |-> 0]
    BY DEF Init, Venue!ExInit
<1>2. \A t : Filled(t) = 0
    BY <1>1 DEF Filled
<1>3. ASSUME NEW k \in Keys
      PROVE  SumFunction([t \in InMarket(k) |-> Filled(t)]) = 0
  <2>1. PICK S : S = InMarket(k)
      OBVIOUS
  <2>2. PICK a : a = [t \in S |-> Filled(t)]
      OBVIOUS
  <2>3. a \in [S -> Int] /\ \A t \in S : a[t] = 0
      BY <1>2, <2>2
  <2>4. SumFunction(a) = 0
      BY <2>1, <2>3, MarketFinite, SumZero
  <2>5. QED
      BY <2>1, <2>2, <2>4
<1>4. QED
    BY <1>1, <1>3 DEF VenueBooks

-----------------------------------------------------------------------------
\* The rows of open orders

\* A row comes to be open by SubmitOrder alone, which writes row and record from
\* one value; the record's exchange id is never written again, and a row that
\* transitionOrder writes is terminal.
LEMMA OpenRowsStep ==
    ASSUME UnitEngine
    PROVE  BookBase /\ OpenRows /\ [Next]_vars /\ ~Crash /\ ~RecoverFull => OpenRows'
<1> SUFFICES ASSUME BookBase, OpenRows, [Next]_vars, ~Crash, ~RecoverFull,
                    NEW t \in Traces, orders'[t].status = "open"
             PROVE  orders'[t].filled = 0 /\ orders'[t].exch = rec'[t].exch
    BY DEF OpenRows
<1>0. /\ orders \in [Traces -> Record] /\ rec \in [Traces -> Record] /\ tr \in [Shared -> TrType]
      /\ ~CancelAll
    BY RowTypes, NoCancelAllStep DEF BookBase, Below, UnitEngine, OpenInv
<1>1. CASE UNCHANGED <<orders, rec>>
    BY <1>1 DEF OpenRows
<1>2. ASSUME NEW c \in Clients, SubmitPersist(c)
      PROVE  orders'[t].filled = 0 /\ orders'[t].exch = rec'[t].exch
  <2>1. CASE /\ orders' = [orders EXCEPT ![sub[c].trace] = NewRecord]
             /\ rec' = [rec EXCEPT ![sub[c].trace] = NewRecord]
      BY <1>0, <2>1 DEF NewRecord, OpenRows
  <2>2. QED
      BY <1>1, <1>2, <2>1 DEF SubmitPersist, UnitEngine
<1>3. ASSUME NEW c \in Clients, SubmitTransition(c)
      PROVE  orders'[t].filled = 0 /\ orders'[t].exch = rec'[t].exch
  <2>1. PICK row : row = [status |-> sub[c].ack, filled |-> 0, exch |-> sub[c].exch]
      OBVIOUS
  <2>2. /\ orders' = [orders EXCEPT ![sub[c].trace] = row]
        /\ rec' = [rec EXCEPT ![sub[c].trace] = row]
      BY <1>3, <2>1 DEF SubmitTransition, WriteRow, UnitEngine
  <2>3. QED
      BY <1>0, <2>1, <2>2 DEF OpenRows
<1>4. ASSUME NEW c \in Clients, SubmitOrder(c)
      PROVE  orders'[t].filled = 0 /\ orders'[t].exch = rec'[t].exch
    BY <1>1, <1>2, <1>3, <1>4 DEF SubmitOrder, SubmitGate, SubmitAppend, SubmitAppended, SubmitVenue,
       SubmitIntent, SubmitRegister, dbVars, memVars
<1>5. ASSUME NEW a \in Shared, transitionOrder(a)
      PROVE  orders'[t].filled = 0 /\ orders'[t].exch = rec'[t].exch
  <2>1. CASE TransSet(a)
    <3>1. PICK r : r = rec[tr[a].trace]
        OBVIOUS
    <3>2. PICK row : row = [status |-> tr[a].to, filled |-> r.filled, exch |-> r.exch]
        OBVIOUS
    <3>3. UNCHANGED orders /\ rec' = [rec EXCEPT ![tr[a].trace] = row]
        BY <2>1, <3>1, <3>2 DEF TransSet, dbVars
    <3>4. rec'[t].exch = rec[t].exch
        BY <1>0, <3>1, <3>2, <3>3
    <3>5. QED
        BY <3>3, <3>4 DEF OpenRows
  <2>2. CASE TransWrite(a)
    <3>1. /\ orders' = [orders EXCEPT ![tr[a].trace] = tr[a].row] /\ UNCHANGED rec
          /\ tr[a].pc = "write"
        BY <2>2 DEF TransWrite, WriteRow, UnitEngine, memVars
    <3>2. tr[a].trace \in openOrders /\ tr[a].to \in {"cancelled", "filled"}
        BY <1>5, <3>1, OneWriter DEF BookBase, RowInv
    <3>3. tr[a].row.status = tr[a].to
        BY <1>5, <3>1, <3>2 DEF BookBase, RowInv, OpenRecord, Writing, SettleInv
    <3>4. tr[a].trace # t
        BY <1>0, <3>1, <3>2, <3>3
    <3>5. orders'[t] = orders[t]
        BY <1>0, <3>1, <3>4
    <3>6. QED
        BY <3>1, <3>5 DEF OpenRows
  <2>3. QED
      BY <1>1, <1>5, <2>1, <2>2 DEF transitionOrder, TransCheck, dbVars, memVars
<1>6. CASE PollApply
  <2>1. PICK n : rec' = [rec EXCEPT ![poll.trace].filled = n]
      BY <1>6 DEF PollApply
  <2>2. rec'[t].exch = rec[t].exch
      BY <1>0, <2>1 DEF Record
  <2>3. UNCHANGED orders
      BY <1>6 DEF PollApply, dbVars
  <2>4. QED
      BY <2>2, <2>3 DEF OpenRows
<1>7. CASE Poll
    BY <1>1, <1>6, <1>7 DEF Poll, PollStart, PollFetch, PollError, PollDone, PollLookup, PollPersist,
       PollUnregister, PollIntent, PollReport, dbVars, memVars
<1>8. CASE CancelOrder \/ ExchangeStep \/ (\E m \in Modes : SetSystemMode(m)) \/ UNCHANGED vars
    BY <1>1, <1>8 DEF CancelOrder, CancelLookup, CancelVenue, CancelUnregister, CancelIntent,
       ExchangeStep, SetSystemMode, vars, dbVars, memVars
<1>9. QED
    BY <1>0, <1>4, <1>5, <1>7, <1>8 DEF Next

-----------------------------------------------------------------------------
\* What settled means

\* The row of a fill in the list, by the trace that the venue filled.
LEMMA FilledIsBooked ==
    ASSUME BookBase, BookInv, VenueBooks, ~Unsettled, NEW e \in 1..Len(exOrders),
           exOrders[e].status = "filled"
    PROVE  \E i \in 1..Len(fillRows) : fillRows[i].trace = exOrders[e].req
<1>1. PICK f \in 1..Len(exFills) : exFills[f].order = e
    BY DEF VenueBooks
<1>2. f \in DOMAIN exFills /\ fillRows \in Seq([trace : Traces, fill : Nat])
    BY <1>1 DEF BookBase, Below, EngineType, VenueType, AddressInv
<1>3. Booked(f) /\ DOMAIN fillRows = 1..Len(fillRows)
    BY <1>2 DEF Unsettled
<1>4. PICK i \in 1..Len(fillRows) : fillRows[i].trace = exOrders[exFills[f].order].req
    BY <1>3 DEF Booked
<1>5. QED
    BY <1>1, <1>4

\* An order of one contract is reported as far as the venue has filled it.
LEMMA SettledReported ==
    ASSUME UnitEngine, BookBase, BookInv, VenueBooks, ~Unsettled, NEW t \in Traces
    PROVE  reported[t] = Filled(t)
<1>1. /\ poll.pc \notin {"apply", "unregister", "intent", "report"}
      /\ reported[t] \in Nat /\ fillRows \in Seq([trace : Traces, fill : Nat])
    BY DEF Unsettled, BookBase, Below, EngineType, MemType, AddressInv
<1>2. reported[t] = BookedContracts(t)
    BY <1>1 DEF BookInv, Reported, Unreported
<1>3. PICK S : S = {j \in 1..Len(fillRows) : fillRows[j].trace = t}
    OBVIOUS
<1>4. PICK b : b = [i \in S |-> exFills[fillRows[i].fill].qty]
    OBVIOUS
<1>5. BookedContracts(t) = SumFunction(b)
    BY <1>3, <1>4 DEF BookedContracts
<1>6. \A i \in S : b[i] = 1
    BY <1>3, <1>4 DEF BookBase, RowInv, Whole, BookInv, RowsNamed
<1>7. CASE \E e \in 1..Len(exOrders) : exOrders[e].req = t /\ exOrders[e].status = "filled"
  <2>1. PICK i \in 1..Len(fillRows) : fillRows[i].trace = t
      BY <1>7, FilledIsBooked
  <2>2. S = {i}
      BY <1>3, <2>1 DEF BookInv, RowsLeaving
  <2>3. IsFiniteSet(S) /\ b \in [S -> Int] /\ i \in S
    <3>1. IsFiniteSet(S)
        BY <2>2, FS_Singleton
    <3>2. b \in [S -> Int]
        BY <1>4, <1>6
    <3>3. QED
        BY <2>2, <3>1, <3>2
  <2>4. SumFunction(b) = b[i] + SumFunction(Restrict(b, S \ {i}))
      BY <2>3, SumRemove
  <2>5. DOMAIN Restrict(b, S \ {i}) = {}
      BY <2>2 DEF Restrict
  <2>6. SumFunction(b) = 1
      BY <1>6, <2>3, <2>4, <2>5, SumEmpty
  <2>7. QED
      BY <1>2, <1>5, <1>7, <2>6 DEF Filled
<1>8. CASE ~ \E e \in 1..Len(exOrders) : exOrders[e].req = t /\ exOrders[e].status = "filled"
  <2>1. ASSUME NEW i \in S
        PROVE  FALSE
    <3>1. i \in 1..Len(fillRows) /\ fillRows[i].trace = t
        BY <1>3, <2>1
    <3>2. PICK f : f = fillRows[i].fill
        OBVIOUS
    <3>3. f \in 1..Len(exFills) /\ Names(t, exFills[f].order)
        BY <3>1, <3>2 DEF BookInv, RowsNamed
    <3>4. FilledAt(exFills[f].order)
        BY <3>3 DEF BookBase, RowInv, Whole
    <3>5. QED
        BY <1>8, <3>3, <3>4 DEF Names, FilledAt
  <2>2. DOMAIN b = {}
      BY <1>4, <2>1
  <2>3. QED
      BY <1>2, <1>5, <1>8, <2>2, SumEmpty DEF Filled
<1>9. QED
    BY <1>7, <1>8

\* So the two sides of ComparePositions agree.
LEMMA SettledPositions ==
    ASSUME UnitEngine, BookBase, BookInv, VenueBooks, ~Unsettled
    PROVE  InternalPositions = positions
<1>1. ASSUME NEW k \in Keys
      PROVE  SumFunction([t \in {t \in Traces : Key[t] = k} |-> reported[t]]) = positions[k]
  <2>1. \A t \in InMarket(k) : reported[t] = Filled(t)
      BY SettledReported DEF InMarket
  <2>2. [t \in InMarket(k) |-> reported[t]] = [t \in InMarket(k) |-> Filled(t)]
      BY <2>1
  <2>3. SumFunction([t \in InMarket(k) |-> reported[t]]) = positions[k]
      BY <2>2 DEF VenueBooks
  <2>4. QED
      BY <2>3 DEF InMarket
<1>2. QED
    BY <1>1 DEF InternalPositions, VenueBooks

\* And so do the two sides of CompareOrders.
LEMMA SettledOrders ==
    ASSUME UnitEngine, BookBase, BookInv, VenueBooks, OpenRows, CallInv, ~Unsettled,
           NEW t \in LoadedOrders, orders[t].exch # NullId
    PROVE  ~CriticalOrder(orders[t])
<1>1. t \in Traces /\ orders[t].status = "open"
    BY DEF LoadedOrders, OrderLive, BookBase, RowInv, TableInv, RowOk
<1>2. orders[t].filled = 0 /\ orders[t].exch = rec[t].exch
    BY <1>1 DEF OpenRows
<1>3. InHand(t)
    BY <1>1 DEF CallInv, Agreed, OrderLive
<1>4. Names(t, rec[t].exch)
  <2>1. CASE t \in openOrders
      BY <2>1 DEF BookBase, AddressInv, OpenNamed
  <2>2. ASSUME NEW c \in Clients, sub[c].pc \in AtVenue, sub[c].trace = t
        PROVE  Names(t, rec[t].exch)
    <3>1. SubmitRecord(c)
        BY DEF BookBase, RowInv
    <3>2. sub[c].pc \in {"intent", "register"} /\ sub[c].ack = "open"
        BY <1>1, <2>2, <3>1 DEF SubmitRecord, AtVenue
    <3>3. QED
        BY <2>2, <3>2 DEF BookBase, AddressInv, SubNamed
  <2>3. QED
      BY <1>3, <2>1, <2>2 DEF InHand
<1>5. \A i \in 1..Len(fillRows) : fillRows[i].trace # t
    BY <1>3 DEF InHand, BookInv, RowsLeaving, Unsettled
<1>6. PICK e : e = rec[t].exch
    OBVIOUS
<1>7. e \in 1..Len(exOrders) /\ exOrders[e].req = t
    BY <1>4, <1>6 DEF Names
<1>8. exOrders[e].status # "filled"
    BY <1>5, <1>7, FilledIsBooked
<1>9. exOrders[e].filled = 0
    BY <1>7, <1>8 DEF VenueBooks
<1>10. QED
    BY <1>2, <1>6, <1>7, <1>9 DEF CriticalOrder, Venue!ExIds

\* A fill that the venue has just made is not booked.
LEMMA FillUnsettles ==
    ASSUME BookInv, AddressInv, VenueType, UNCHANGED fillRows, NEW d, Venue!ExFill(d)
    PROVE  Unsettled'
<1>1. PICK r : exFills' = Append(exFills, r)
    BY DEF Venue!ExFill
<1>2. exFills \in Seq(VenueFill) /\ Len(exFills) \in Nat
    BY DEF VenueType
<1>3. PICK n : n = Len(exFills) + 1
    OBVIOUS
<1>4. n \in DOMAIN exFills'
    BY <1>1, <1>2, <1>3
<1>5. \A i \in 1..Len(fillRows) : fillRows[i].fill # n
    BY <1>2, <1>3 DEF BookInv, RowsNamed
<1>6. fillRows' = fillRows /\ DOMAIN fillRows = 1..Len(fillRows)
    BY DEF AddressInv
<1>7. ~Booked(n)'
    BY <1>5, <1>6 DEF Booked
<1>8. QED
    BY <1>4, <1>7 DEF Unsettled

-----------------------------------------------------------------------------
\* A cycle of RunOnce

\* What the engine, its records and the venue contribute.
ReconBase == BookBase /\ CallInv /\ BookInv /\ VenueBooks /\ OpenRows

\* Trading under a cycle: either a fill arrives, and the cycle has a gap, or what
\* the cycle has read stays true.
LEMMA TradingKeepsCycle ==
    ASSUME UnitEngine, ReconBase, CycleInv, [Next]_vars, ~Crash, UNCHANGED cyc,
           gap' = (gap \/ (cyc.pc # "idle" /\ Unsettled'))
    PROVE  CycleInv'
<1>1. CASE gap'
    BY <1>1 DEF CycleInv
<1>2. CASE cyc.pc = "idle"
    BY <1>2 DEF CycleInv
<1>3. CASE ~gap' /\ cyc.pc # "idle"
  <2>1. ~gap /\ ~Unsettled' /\ ~cyc.critical
      BY <1>3 DEF CycleInv
  <2>2. AddressInv /\ VenueType /\ BookInv
      BY DEF ReconBase, BookBase, Below, EngineType
  <2>3. \/ UNCHANGED <<exOrders, positions>>
        \/ \E t \in Traces : \E s \in {"open", "rejected"} : Venue!ExSubmit(t, s)
        \/ \E e : Venue!ExCancel(e)
    <3>1. ~(UNCHANGED fillRows /\ \E e \in Venue!ExIds : Venue!ExFill(e))
        BY <2>1, <2>2, FillUnsettles
    <3>2. QED
        BY <3>1, VenueCases DEF ReconBase, venueVars, Venue!ExNoFill
  <2>4. UNCHANGED positions
      BY <2>3 DEF Venue!ExSubmit, Venue!ExCancel
  <2>5. \A e \in 1..Len(exOrders) : e \in 1..Len(exOrders') /\ exOrders'[e].filled = exOrders[e].filled
    <3>1. exOrders \in Seq(VenueOrder) /\ Len(exOrders) \in Nat
        BY <2>2 DEF VenueType
    <3>2. CASE \E t \in Traces : \E s \in {"open", "rejected"} : Venue!ExSubmit(t, s)
        BY <2>2, <3>1, <3>2, VenueAdds
    <3>3. ASSUME NEW d, Venue!ExCancel(d)
          PROVE  \A e \in 1..Len(exOrders) : e \in 1..Len(exOrders') /\ exOrders'[e].filled = exOrders[e].filled
      <4>1. exOrders' = [exOrders EXCEPT ![d].status = "cancelled"] /\ d \in 1..Len(exOrders)
          BY <3>3 DEF Venue!ExCancel, Venue!Cancellable, Venue!ExIds
      <4>2. exOrders[d] \in VenueOrder
          BY <3>1, <4>1
      <4>3. QED
          BY <3>1, <4>1, <4>2 DEF VenueOrder
    <3>4. QED
        BY <2>3, <3>2, <3>3
  <2>6. \A row : ~CriticalOrder(row) => ~CriticalOrder(row)'
      BY <2>5 DEF CriticalOrder, Venue!ExIds
  <2>7. cyc.pc = "compare" => \A e \in DOMAIN cyc.rows : ~CriticalOrder(cyc.rows[e])'
      BY <2>1, <2>6 DEF CycleInv
  <2>8. QED
      BY <1>3, <2>1, <2>4, <2>7 DEF CycleInv
<1>4. QED
    BY <1>1, <1>2, <1>3

\* A step of the cycle itself.
LEMMA CycleSteps ==
    ASSUME UnitEngine, ReconBase, CycleInv, RunOnce
    PROVE  CycleInv'
<1>0. /\ UNCHANGED <<positions, exOrders>> /\ (Unsettled' <=> Unsettled)
      /\ \A row : CriticalOrder(row)' <=> CriticalOrder(row)
    BY DEF RunOnce, vars, venueVars, dbVars, procVars, CriticalOrder, Venue!ExIds, Unsettled, Booked
<1>1. gap' = (cyc'.pc # "idle" /\ (gap \/ Unsettled))
    BY DEF RunOnce
<1>2. cyc = [pc |-> cyc.pc, internal |-> cyc.internal, rows |-> cyc.rows, critical |-> cyc.critical]
    BY DEF CycleInv
<1>3. CASE Verdict
    BY <1>1, <1>3 DEF Verdict, IdleCycle, CycleInv
<1>4. CASE ReadPositions
  <2>1. cyc' = [pc |-> "positions", internal |-> InternalPositions, rows |-> << >>, critical |-> FALSE]
      BY <1>4 DEF ReadPositions, IdleCycle
  <2>2. ~gap' => ~Unsettled /\ cyc'.internal = positions
      BY <1>1, <2>1, SettledPositions DEF ReconBase
  <2>3. QED
      BY <1>0, <2>1, <2>2 DEF CycleInv
<1>5. CASE PositionsError
  <2>1. cyc' = [pc |-> "orders", internal |-> [k \in Keys |-> 0], rows |-> << >>, critical |-> FALSE]
      BY <1>5 DEF PositionsError, IdleCycle
  <2>2. QED
      BY <1>0, <1>1, <2>1 DEF CycleInv
<1>6. CASE ComparePositions
  <2>1. PICK b : b = (comparePositionMaps(cyc.internal, positions) # {})
      OBVIOUS
  <2>2. /\ cyc.pc = "positions"
        /\ cyc' = [pc |-> "orders", internal |-> cyc.internal, rows |-> cyc.rows, critical |-> b]
      BY <1>2, <1>6, <2>1 DEF ComparePositions
  <2>3. ~gap' => ~gap /\ ~Unsettled
      BY <1>1, <2>2
  <2>4. ~gap' => ~b
      BY <2>1, <2>2, <2>3 DEF CycleInv, comparePositionMaps
  <2>5. QED
      BY <1>0, <2>2, <2>3, <2>4 DEF CycleInv
<1>7. CASE ReadOrders
  <2>1. PICK m \in OrderMaps :
            cyc' = [cyc EXCEPT !.pc = "compare", !.rows = [e \in DOMAIN m |-> orders[m[e]]]]
      BY <1>7 DEF ReadOrders
  <2>2. cyc.pc = "orders" /\ ScanSucceeds
      BY <1>7 DEF ReadOrders
  <2>3. /\ cyc'.pc = "compare" /\ cyc'.critical = cyc.critical /\ cyc'.rows = [e \in DOMAIN m |-> orders[m[e]]]
        /\ cyc' = [pc |-> cyc'.pc, internal |-> cyc'.internal, rows |-> cyc'.rows,
                   critical |-> cyc'.critical]
      BY <1>2, <2>1
  <2>4. ~gap' => ~gap /\ ~Unsettled
      BY <1>1, <2>3
  <2>5. ASSUME ~Unsettled, NEW e \in DOMAIN cyc'.rows
        PROVE  ~CriticalOrder(cyc'.rows[e])
    <3>1. m[e] \in LoadedOrders /\ cyc'.rows[e] = orders[m[e]]
        BY <2>3, <2>5 DEF OrderMaps
    <3>2. ~CriticalOrder(orders[m[e]])
        BY <2>2, <2>5, <3>1, SettledOrders DEF ScanSucceeds, ReconBase
    <3>3. QED
        BY <3>1, <3>2
  <2>6. QED
      BY <1>0, <2>2, <2>3, <2>4, <2>5 DEF CycleInv
<1>8. ASSUME CycleGoto("verdict")
      PROVE  CycleInv'
  <2>1. cyc' = [pc |-> "verdict", internal |-> cyc.internal, rows |-> cyc.rows, critical |-> cyc.critical]
      BY <1>2, <1>8 DEF CycleGoto
  <2>2. QED
      BY <1>0, <1>1, <2>1 DEF CycleInv
<1>9. ASSUME NEW d, CompareOrder(d)
      PROVE  CycleInv'
  <2>1. PICK b : b = (cyc.critical \/ CriticalOrder(cyc.rows[d]))
      OBVIOUS
  <2>2. PICK rows : rows = [e \in DOMAIN cyc.rows \ {d} |-> cyc.rows[e]]
      OBVIOUS
  <2>3. /\ cyc.pc = "compare" /\ d \in DOMAIN cyc.rows
        /\ cyc' = [pc |-> "compare", internal |-> cyc.internal, rows |-> rows, critical |-> b]
      BY <1>2, <1>9, <2>1, <2>2 DEF CompareOrder
  <2>4. ~gap' => ~gap /\ ~Unsettled
      BY <1>1, <2>3
  <2>5. ~gap' => ~b
      BY <2>1, <2>3, <2>4 DEF CycleInv
  <2>6. ~gap' => \A e \in DOMAIN rows : ~CriticalOrder(rows[e])
      BY <2>2, <2>3, <2>4 DEF CycleInv
  <2>7. QED
      BY <1>0, <2>3, <2>4, <2>5, <2>6 DEF CycleInv
<1>10. QED
    BY <1>3, <1>4, <1>5, <1>6, <1>7, <1>8, <1>9 DEF RunOnce, Reading, OrdersError, CompareOrders

\* Every step of the composition, without a crash.
LEMMA CycleInvStep ==
    ASSUME UnitEngine, ~RemoteFaults, MaxCrashes = 0
    PROVE  ReconBase /\ CycleInv /\ [ReconNext]_rvars => CycleInv'
<1> SUFFICES ASSUME ReconBase, CycleInv, [ReconNext]_rvars PROVE CycleInv'
    OBVIOUS
<1>1. [Next]_vars /\ ~Crash /\ ~RecoverFull
    BY ReconStep DEF Crash, RecoverFull, ReconBase, CallInv
<1>2. CASE Trading
  <2>1. UNCHANGED cyc /\ gap' = (gap \/ (cyc.pc # "idle" /\ Unsettled'))
      BY <1>2 DEF Trading, CycleWaits
  <2>2. QED
      BY <1>1, <2>1, TradingKeepsCycle
<1>3. CASE RunOnce
    BY <1>3, CycleSteps
<1>4. CASE UNCHANGED rvars
  <2>1. /\ UNCHANGED <<positions, exOrders, cyc, gap>> /\ (Unsettled' <=> Unsettled)
        /\ \A row : CriticalOrder(row)' <=> CriticalOrder(row)
      BY <1>4 DEF rvars, reconVars, vars, venueVars, dbVars, procVars, CriticalOrder, Venue!ExIds,
         Unsettled, Booked
  <2>2. QED
      BY <2>1 DEF CycleInv
<1>5. QED
    BY <1>1, <1>2, <1>3, <1>4 DEF ReconNext, ProcessCrash, Start

\* AlarmMeansUnsettledFill for orders of one contract and any number of them, of
\* markets and of submitters, in an engine whose statements and calls succeed and
\* that does not crash: although a cycle of RunOnce reads the table of positions,
\* the venue's positions, the open orders and each order at the venue at different
\* moments, it finds a critical mismatch only if some fill was unsettled meanwhile.
\* (A report to the risk engine that fails is not repeated: the difference stays.)
THEOREM AlarmsHaveACause ==
    ASSUME UnitEngine, ~RemoteFaults, MaxCrashes = 0
    PROVE  ReconSpec => []AlarmMeansUnsettledFill
<1>1. ReconInit => Below /\ RowInv /\ AddressInv /\ CallInv /\ BookInv /\ VenueBooks
    BY ExecInvInit, EngineTypeInit, LinkInvInit, OpenInvInit, RowInvInit, AddressInvInit,
       BookInvInit, VenueBooksInit DEF ReconInit, Below, Init, CallInv, Agreed, NoRecord, OrderLive
<1>2. ReconInit => OpenRows /\ CycleInv
    BY DEF ReconInit, Init, OpenRows, NoRecord, CycleInv, IdleCycle
<1>3. Below /\ [Next]_vars => Below'
    BY ExecInvStep, EngineTypeStep, LinkInvStep, OpenInvStep DEF Below, UnitEngine
<1>4. Below /\ RowInv /\ [Next]_vars => RowInv'
    BY RowInvStep
<1>5. Below /\ AddressInv /\ [Next]_vars => AddressInv'
    BY AddressInvStep DEF Below
<1>6. Below /\ RowInv /\ CallInv /\ [Next]_vars => CallInv'
    BY CallInvStep
<1>7. Below /\ RowInv /\ AddressInv /\ BookInv /\ [Next]_vars => BookInv'
    BY BookInvStep DEF BookBase
<1>8. CallInv => ~Crash /\ ~RecoverFull
    BY DEF CallInv, Crash, RecoverFull
<1>9. /\ Below /\ RowInv /\ AddressInv /\ CallInv /\ VenueBooks /\ [Next]_vars
      /\ Below' /\ RowInv' /\ AddressInv'
      => VenueBooks'
    BY <1>8, VenueBooksStep DEF BookBase
<1>10. Below /\ RowInv /\ AddressInv /\ CallInv /\ OpenRows /\ [Next]_vars => OpenRows'
    BY <1>8, OpenRowsStep DEF BookBase
<1>11. /\ Below /\ RowInv /\ AddressInv /\ CallInv /\ BookInv /\ VenueBooks /\ OpenRows
       /\ CycleInv /\ [ReconNext]_rvars
       => CycleInv'
    BY CycleInvStep DEF ReconBase, BookBase
<1>12. CycleInv => AlarmMeansUnsettledFill
    BY DEF CycleInv, AlarmMeansUnsettledFill
<1>13. QED
    BY <1>1, <1>2, <1>3, <1>4, <1>5, <1>6, <1>7, <1>9, <1>10, <1>11, <1>12, ReconStep, PTL
       DEF ReconSpec

\* With reconciliation beside the engine, and through crashes and failing venue
\* calls, every row that a restart would load has an outstanding intent.
COROLLARY LoadedWithIntentBesideRecon ==
    ASSUME UnitEngine
    PROVE  ReconSpec => []LoadedImpliesOutstanding
BY ReconciliationOnlyReads, UnitOrdersLoadedWithIntent, PTL

=============================================================================
