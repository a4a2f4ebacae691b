---------------------------- MODULE MockExchange ----------------------------
(***************************************************************************)
(* services/mockexchange: the simulated exchange behind the paper venue    *)
(* adapter.  Every method runs under Server.mu and is one atomic step; the *)
(* concurrency is the fill goroutine (simulateFillProcess) that            *)
(* SubmitOrder starts for each accepted order and that a partial fill      *)
(* starts again.                                                           *)
(*                                                                         *)
(* An order's exchange id is its index in exOrders.  FilledAt times are    *)
(* taken under the lock, so fills are in the order of exFills, and the     *)
(* fills after a given time are the ones after an index.                   *)
(***************************************************************************)
EXTENDS Integers, FiniteSets, FiniteSetsExt, SequencesExt

CONSTANTS Requests,        \* what clients submit
          Markets,
          ReqMarket,       \* request -> market
          ReqSide,         \* request -> "buy" or "sell"
          ReqQty,          \* request -> contracts
          ReqPrice,        \* request -> limit price
          InitialBalance,
          Rejects,         \* whether RejectionRate is positive
          MaxOrders        \* bound: orders per life of the exchange

ASSUME ExchangeAssumption ==
    /\ ReqMarket \in [Requests -> Markets]
    /\ ReqSide \in [Requests -> {"buy", "sell"}]
    /\ ReqQty \in [Requests -> Nat \ {0}]
    /\ ReqPrice \in [Requests -> Nat]
    /\ InitialBalance \in Int
    /\ Rejects \in BOOLEAN
    /\ MaxOrders \in Nat

VARIABLES exOrders,   \* exchange id -> [req, filled, status]
          exFills,    \* the fills, oldest first: [order, qty]
          positions,  \* market -> net contracts
          balance,
          filler      \* orders with a fill attempt scheduled

exVars == <<exOrders, exFills, positions, balance, filler>>

ExIds == 1..Len(exOrders)
ExLive == {"open", "partially_filled"}
ExStatus == ExLive \cup {"filled", "cancelled", "rejected"}

-----------------------------------------------------------------------------
\* SubmitOrder: accepted, with a fill attempt scheduled, or rejected.
ExSubmit(r, status) ==
    /\ Len(exOrders) < MaxOrders
    /\ exOrders' = Append(exOrders, [req |-> r, filled |-> 0, status |-> status])
    /\ \/ status = "open" /\ filler' = filler \cup {Len(exOrders) + 1}
       \/ status = "rejected" /\ Rejects /\ UNCHANGED filler
    /\ UNCHANGED <<exFills, positions, balance>>

\* The 10% to 90% of the remaining quantity a partial fill may take.
PartialSizes(r) == IF r > 1 THEN Max({1, r \div 10})..((9 * r) \div 10) ELSE {}

\* The attempt finds the order cancelled or draws no fill: the goroutine ends.
ExNoFill(e) ==
    /\ e \in filler
    /\ filler' = filler \ {e}
    /\ UNCHANGED <<exOrders, exFills, positions, balance>>

\* Mutant: a fill attempt does not look at the status.
FillAnyway(e) == TRUE

Fillable(e) == exOrders[e].status # "cancelled"

\* Mutant: a sale is booked like a purchase.
BookAsBuy(r, q) ==
    /\ positions' = [positions EXCEPT ![ReqMarket[r]] = @ + q]
    /\ balance' = balance - q * ReqPrice[r]

Book(r, q) ==
    LET sign == IF ReqSide[r] = "buy" THEN 1 ELSE -1
    IN /\ positions' = [positions EXCEPT ![ReqMarket[r]] = @ + sign * q]
       /\ balance' = balance - sign * q * ReqPrice[r]

\* A partial fill leaves another attempt scheduled.
Reschedule(e, left) == IF left = 0 THEN filler \ {e} ELSE filler

ExFill(e) ==
    LET o == exOrders[e]
        remaining == ReqQty[o.req] - o.filled
    IN /\ e \in filler
       /\ Fillable(e)
       /\ \E q \in {remaining} \cup PartialSizes(remaining) :
             LET left == remaining - q
             IN /\ exFills' = Append(exFills, [order |-> e, qty |-> q])
                /\ exOrders' = [exOrders EXCEPT ![e] =
                                   [req    |-> o.req,
                                    filled |-> o.filled + q,
                                    status |-> IF left <= 0 THEN "filled"
                                               ELSE "partially_filled"]]
                /\ filler' = Reschedule(e, left)
                /\ Book(o.req, q)

\* CancelOrder answers an error for an unknown or a filled order.
Cancellable(e) == e \in ExIds /\ exOrders[e].status # "filled"

ExCancel(e) ==
    /\ Cancellable(e)
    /\ exOrders' = [exOrders EXCEPT ![e].status = "cancelled"]
    /\ UNCHANGED <<exFills, positions, balance, filler>>

ExCancelAll ==
    /\ exOrders' = [e \in ExIds |-> IF exOrders[e].status \in ExLive
                                    THEN [exOrders[e] EXCEPT !.status = "cancelled"]
                                    ELSE exOrders[e]]
    /\ UNCHANGED <<exFills, positions, balance, filler>>

\* PollFills(since): the indices of the fills later than since.
ExPoll(since) == (since + 1)..Len(exFills)

ExInit ==
    /\ exOrders = << >>
    /\ exFills = << >>
    /\ positions = [m \in Markets |-> 0]
    /\ balance = InitialBalance
    /\ filler = {}

ExNext ==
    \/ \E r \in Requests : \E s \in {"open", "rejected"} : ExSubmit(r, s)
    \/ \E e \in ExIds : ExNoFill(e) \/ ExFill(e) \/ ExCancel(e)
    \/ ExCancelAll

ExSpec == ExInit /\ [][ExNext]_exVars

-----------------------------------------------------------------------------
\* Properties

\* The part of FillAccounting that speaks of one order or one fill at a time.
NoOverfill ==
    /\ \A e \in ExIds :
          /\ exOrders[e].filled <= ReqQty[exOrders[e].req]
          /\ exOrders[e].status = "filled" <=> exOrders[e].filled = ReqQty[exOrders[e].req]
          /\ e \in filler => exOrders[e].filled < ReqQty[exOrders[e].req]
    /\ \A f \in 1..Len(exFills) : exFills[f].qty > 0

\* The fills of an order with their quantities, those in a market with what they
\* add to its position, and all of them with what they cost.
Fills == 1..Len(exFills)
FillReq(f) == exOrders[exFills[f].order].req
Signed(f) == IF ReqSide[FillReq(f)] = "buy" THEN exFills[f].qty ELSE -exFills[f].qty
FillsOf(e) == [f \in {f \in Fills : exFills[f].order = e} |-> exFills[f].qty]
FillsIn(m) == [f \in {f \in Fills : ReqMarket[FillReq(f)] = m} |-> Signed(f)]
Costs == [f \in Fills |-> Signed(f) * ReqPrice[FillReq(f)]]

\* The exchange never fills an order beyond its quantity, says "filled" of
\* exactly the complete ones, and its position and cash are the sum of its
\* fills (the POSITIONS and BALANCE paragraphs of the package comment).  No fill
\* is empty, and an attempt is only ever scheduled where something is left to
\* fill: simulateFillProcess has no test for a filled order and relies on it.
FillAccounting ==
    /\ NoOverfill
    /\ \A e \in ExIds : exOrders[e].filled = SumFunction(FillsOf(e))
    /\ \A m \in Markets : positions[m] = SumFunction(FillsIn(m))
    /\ balance = InitialBalance - SumFunction(Costs)

\* A fill goroutine still asleep when its order is cancelled must not fill it:
\* what a cancelled order has filled never changes again.
CancelIsFinal ==
    [][\A e \in ExIds : exOrders[e].status = "cancelled"
                           => exOrders'[e] = exOrders[e]]_exVars
=============================================================================
