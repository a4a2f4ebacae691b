------------------------- MODULE MockExchangeProofs -------------------------
(***************************************************************************)
(* The theorems about the exchange, for every set of requests and any      *)
(* quantities.  NoOverfill is inductive once the types are known: a fill   *)
(* attempt runs only where it was scheduled, it is scheduled only where    *)
(* something is left, and it takes at most what is left.  The sums follow  *)
(* from it by the lemmas of SumProofs: a step either adds one fill, of an  *)
(* order that is there, or leaves the fills and what their orders asked    *)
(* for alone.                                                              *)
(***************************************************************************)
EXTENDS MockExchange, SumProofs

ExOrder == [req : Requests, filled : Nat, status : ExStatus]

ExTypeOK ==
    /\ exOrders \in Seq(ExOrder)
    /\ exFills \in Seq([order : Nat, qty : Nat])
    /\ filler \in SUBSET ExIds

ExInv == ExTypeOK /\ NoOverfill

\* A fill takes something and at most what is left, when something is left.
LEMMA FillSize ==
    ASSUME NEW r \in Nat \ {0}, NEW q \in {r} \cup PartialSizes(r)
    PROVE  q \in 1..r
<1>1. CASE q = r
    BY <1>1
<1>2. CASE q \in PartialSizes(r)
  <2>1. r > 1 /\ q \in Max({1, r \div 10})..((9 * r) \div 10)
    BY <1>2 DEF PartialSizes
  <2>2. Max({1, r \div 10}) >= 1 /\ Max({1, r \div 10}) \in Int
    <3>1. r \div 10 \in Int /\ 1 \in Int
      OBVIOUS
    <3>2. QED
      BY <3>1, MaxOfTwo
  <2>3. (9 * r) \div 10 <= r /\ (9 * r) \div 10 \in Int
    OBVIOUS
  <2>4. QED
    BY <2>1, <2>2, <2>3
<1>3. QED
    BY <1>1, <1>2

\* A step that replaces one order, adds no fill and schedules nothing.
LEMMA OrderReplaced ==
    ASSUME ExInv, NEW e \in ExIds, NEW o \in ExOrder, o.req = exOrders[e].req,
           exOrders' = [exOrders EXCEPT ![e] = o],
           o.filled <= ReqQty[o.req],
           o.status = "filled" <=> o.filled = ReqQty[o.req],
           filler' \in SUBSET filler,
           e \in filler' => o.filled < ReqQty[o.req],
           exFills' \in Seq([order : Nat, qty : Nat]),
           \A f \in 1..Len(exFills') : exFills'[f].qty > 0
    PROVE  ExInv'
<1> USE DEF ExInv
<1>1. exOrders \in Seq(ExOrder)
    BY DEF ExTypeOK
<1>2. /\ exOrders' \in Seq(ExOrder) /\ Len(exOrders') = Len(exOrders)
      /\ exOrders'[e] = o
      /\ \A d \in 1..Len(exOrders) : d # e => exOrders'[d] = exOrders[d]
    BY <1>1 DEF ExIds
<1>3. ExTypeOK'
    BY <1>2 DEF ExTypeOK, ExIds
<1>4. NoOverfill'
    BY <1>2 DEF NoOverfill, ExIds
<1>5. QED
    BY <1>3, <1>4

\* The invariant holds of an empty exchange.
LEMMA ExInvInit == ExInit => ExInv
BY DEF ExInit, ExInv, ExTypeOK, NoOverfill, ExIds

\* Every step of the exchange keeps it.
LEMMA ExInvStep == ExInv /\ [ExNext]_exVars => ExInv'
<1> SUFFICES ASSUME ExInv, [ExNext]_exVars PROVE ExInv'
    OBVIOUS
<1> USE DEF ExInv
<1>0. /\ exOrders \in Seq(ExOrder) /\ exFills \in Seq([order : Nat, qty : Nat])
      /\ filler \in SUBSET ExIds
      /\ \A e \in ExIds : exOrders[e] \in ExOrder
      /\ Len(exOrders) \in Nat
    BY DEF ExTypeOK, ExIds
<1>1. ASSUME NEW r \in Requests, NEW s \in {"open", "rejected"}, ExSubmit(r, s)
      PROVE  ExInv'
  <2> DEFINE new == [req |-> r, filled |-> 0, status |-> s]
             n   == Len(exOrders) + 1
  <2>1. /\ new \in ExOrder /\ ReqQty[r] \in Nat \ {0}
        /\ exOrders' = Append(exOrders, new)
        /\ filler' \in SUBSET (filler \cup {n})
        /\ UNCHANGED exFills
    BY <1>1, ExchangeAssumption DEF ExSubmit, ExOrder, ExStatus, ExLive
  <2>2. /\ exOrders' \in Seq(ExOrder) /\ Len(exOrders') = n
        /\ exOrders'[n] = new
        /\ \A d \in 1..Len(exOrders) : exOrders'[d] = exOrders[d]
    BY <1>0, <2>1
  <2>3. ExTypeOK'
    <3>1. Len(exOrders) \in Nat
      BY <1>0
    <3>2. ExIds \subseteq 1..n /\ n \in 1..n
      BY <3>1 DEF ExIds
    <3>3. filler \in SUBSET ExIds /\ filler' \in SUBSET (filler \cup {n})
      BY <1>0, <2>1
    <3> HIDE DEF n
    <3>4. filler' \in SUBSET (1..n)
      BY <3>2, <3>3
    <3>5. QED
      BY <1>0, <2>1, <2>2, <3>4 DEF ExTypeOK, ExIds
  <2>4. /\ new.req = r /\ new.filled = 0 /\ new.status # "filled"
        /\ 0 < ReqQty[r]
    BY <2>1
  <2>5. ExIds' = ExIds \cup {n} /\ n \notin ExIds
    BY <1>0, <2>2 DEF ExIds
  <2> HIDE DEF new
  <2>6. NoOverfill'
    <3>1. ASSUME NEW e \in ExIds'
          PROVE  /\ exOrders'[e].filled <= ReqQty[exOrders'[e].req]
                 /\ exOrders'[e].status = "filled" <=> exOrders'[e].filled = ReqQty[exOrders'[e].req]
                 /\ e \in filler' => exOrders'[e].filled < ReqQty[exOrders'[e].req]
      <4>1. CASE e = n
        BY <2>1, <2>2, <2>4, <4>1
      <4>2. CASE e \in ExIds
        BY <2>1, <2>2, <2>5, <4>2 DEF NoOverfill, ExIds
      <4>3. QED
        BY <2>5, <4>1, <4>2
    <3>2. QED
      BY <2>1, <3>1 DEF NoOverfill
  <2>7. QED
    BY <2>3, <2>6
<1>2. ASSUME NEW e \in ExIds, ExNoFill(e)
      PROVE  ExInv'
    BY <1>2 DEF ExNoFill, ExTypeOK, NoOverfill, ExIds
<1>3. ASSUME NEW e \in ExIds, ExFill(e)
      PROVE  ExInv'
  <2> DEFINE o == exOrders[e]
             r == ReqQty[o.req] - o.filled
  <2>1. o \in ExOrder /\ ReqQty[o.req] \in Nat \ {0} /\ o.filled \in Nat /\ o.req \in Requests
    BY <1>0, ExchangeAssumption DEF ExOrder
  <2>2. e \in filler /\ r \in Nat \ {0}
    BY <1>3, <2>1 DEF ExFill, NoOverfill
  <2>3. PICK q \in {r} \cup PartialSizes(r) :
           /\ exFills' = Append(exFills, [order |-> e, qty |-> q])
           /\ exOrders' = [exOrders EXCEPT ![e] =
                              [req |-> o.req, filled |-> o.filled + q,
                               status |-> IF r - q <= 0 THEN "filled" ELSE "partially_filled"]]
           /\ filler' = Reschedule(e, r - q)
    BY <1>3 DEF ExFill
  <2>4. q \in 1..r
    BY <2>2, FillSize
  <2> DEFINE new == [req |-> o.req, filled |-> o.filled + q,
                     status |-> IF r - q <= 0 THEN "filled" ELSE "partially_filled"]
  <2>5. /\ new \in ExOrder /\ new.req = o.req
        /\ new.filled <= ReqQty[new.req]
        /\ new.status = "filled" <=> new.filled = ReqQty[new.req]
        /\ e \in filler' => new.filled < ReqQty[new.req]
        /\ filler' \in SUBSET filler
    <3>1. new.req = o.req /\ new.filled = o.filled + q
      OBVIOUS
    <3>2. new.status = IF r - q <= 0 THEN "filled" ELSE "partially_filled"
      OBVIOUS
    <3>3. new \in ExOrder
      BY <2>1, <2>2, <2>4 DEF ExOrder, ExStatus, ExLive
    <3>4. /\ filler' \in SUBSET filler
          /\ e \in filler' => r - q > 0
      BY <2>2, <2>3, <2>4 DEF Reschedule
    <3> HIDE DEF new
    <3>5. QED
      BY <2>1, <2>2, <2>4, <3>1, <3>2, <3>3, <3>4
  <2>6. /\ exFills' \in Seq([order : Nat, qty : Nat])
        /\ \A f \in 1..Len(exFills') : exFills'[f].qty > 0
    <3>1. [order |-> e, qty |-> q] \in [order : Nat, qty : Nat] /\ q > 0
      BY <1>0, <2>2, <2>4 DEF ExIds
    <3>2. QED
      BY <1>0, <2>3, <3>1 DEF NoOverfill
  <2>7. exOrders' = [exOrders EXCEPT ![e] = new]
    BY <2>3
  <2> HIDE DEF new
  <2>8. QED
    BY <2>5, <2>6, <2>7, OrderReplaced
<1>4. ASSUME NEW e \in ExIds, ExCancel(e)
      PROVE  ExInv'
  <2> DEFINE new == [exOrders[e] EXCEPT !.status = "cancelled"]
  <2>1. exOrders[e].status # "filled" /\ UNCHANGED <<exFills, filler>> /\ exOrders[e] \in ExOrder
    BY <1>0, <1>4 DEF ExCancel, Cancellable
  <2>2. exOrders' = [exOrders EXCEPT ![e] = new]
    BY <1>4 DEF ExCancel
  <2>3. /\ new \in ExOrder /\ new.req = exOrders[e].req /\ new.filled = exOrders[e].filled
        /\ new.status = "cancelled"
    BY <2>1 DEF ExOrder, ExStatus
  <2> HIDE DEF new
  <2>4. QED
    BY <1>0, <2>1, <2>2, <2>3, OrderReplaced DEF NoOverfill
<1>5. CASE ExCancelAll
  <2>1. /\ exOrders' = [e \in 1..Len(exOrders) |->
                          IF exOrders[e].status \in ExLive
                          THEN [exOrders[e] EXCEPT !.status = "cancelled"] ELSE exOrders[e]]
        /\ UNCHANGED <<exFills, filler>>
    BY <1>5 DEF ExCancelAll, ExIds
  <2>2. \A e \in 1..Len(exOrders) :
           /\ exOrders'[e] \in ExOrder
           /\ exOrders'[e].req = exOrders[e].req /\ exOrders'[e].filled = exOrders[e].filled
           /\ exOrders'[e].status = "filled" <=> exOrders[e].status = "filled"
    BY <1>0, <2>1 DEF ExOrder, ExStatus, ExLive, ExIds
  <2>3. exOrders' \in Seq(ExOrder) /\ Len(exOrders') = Len(exOrders)
    <3>1. Len(exOrders) \in Nat /\ DOMAIN exOrders' = 1..Len(exOrders)
      BY <1>0, <2>1
    <3>2. exOrders' = [e \in 1..Len(exOrders) |-> exOrders'[e]]
      BY <2>1
    <3>3. QED
      BY <2>2, <3>1, <3>2
  <2>4. QED
    BY <2>1, <2>2, <2>3 DEF ExTypeOK, NoOverfill, ExIds
<1>6. CASE UNCHANGED exVars
    BY <1>6 DEF exVars, ExTypeOK, NoOverfill, ExIds
<1>7. QED
    BY <1>1, <1>2, <1>3, <1>4, <1>5, <1>6 DEF ExNext

\* However fills, cancels and rejections interleave, the exchange never fills an
\* order beyond its quantity, says "filled" of exactly the complete ones, makes no
\* empty fill, and has a fill attempt scheduled only where something is left to
\* fill (simulateFillProcess relies on it).
THEOREM ExchangeNeverOverfills == ExSpec => []NoOverfill
<1>1. ExInv => NoOverfill
    BY DEF ExInv
<1>2. QED
    BY <1>1, ExInvInit, ExInvStep, PTL DEF ExSpec

\* The sums, over fills that belong to orders.
Accounts ==
    /\ positions \in [Markets -> Int]
    /\ balance \in Int
    /\ \A f \in Fills : exFills[f].order \in ExIds
    /\ \A e \in ExIds : exOrders[e].filled = SumFunction(FillsOf(e))
    /\ \A m \in Markets : positions[m] = SumFunction(FillsIn(m))
    /\ balance = InitialBalance - SumFunction(Costs)

\* The fills are finitely many and what is summed is integers.
LEMMA SummandTypes ==
    ASSUME ExInv, Accounts
    PROVE  /\ IsFiniteSet(Fills)
           /\ \A f \in Fills : /\ exFills[f].qty \in Int /\ Signed(f) \in Int
                               /\ FillReq(f) \in Requests
           /\ \A e \in ExIds : /\ IsFiniteSet({f \in Fills : exFills[f].order = e})
                               /\ FillsOf(e) \in [{f \in Fills : exFills[f].order = e} -> Int]
           /\ \A m \in Markets : /\ IsFiniteSet({f \in Fills : ReqMarket[FillReq(f)] = m})
                                 /\ FillsIn(m) \in [{f \in Fills : ReqMarket[FillReq(f)] = m} -> Int]
           /\ Costs \in [Fills -> Int]
<1>1. Len(exFills) \in Nat /\ exFills \in Seq([order : Nat, qty : Nat])
    BY DEF ExInv, ExTypeOK
<1>2. IsFiniteSet(Fills)
    BY <1>1, FS_Interval DEF Fills
<1>3. ASSUME NEW f \in Fills
      PROVE  exFills[f].qty \in Int /\ Signed(f) \in Int /\ FillReq(f) \in Requests
  <2> DEFINE R == [order : Nat, qty : Nat]
  <2>0. exFills \in Seq(R) /\ f \in 1..Len(exFills)
    BY <1>1 DEF Fills
  <2> HIDE DEF R
  <2>1a. exFills[f] \in R
    BY <2>0
  <2>1. exFills[f] \in [order : Nat, qty : Nat]
    BY <2>1a DEF R
  <2>1b. exFills[f].order \in ExIds
    BY DEF Accounts
  <2>2. exOrders[exFills[f].order] \in ExOrder
    BY <2>1b DEF ExInv, ExTypeOK, ExIds
  <2>3. QED
    BY <2>1, <2>2 DEF FillReq, Signed, ExOrder
<1>4. \A P \in SUBSET Fills : IsFiniteSet(P)
    BY <1>2, FS_Subset
<1>5. \A e \in ExIds : FillsOf(e) \in [{f \in Fills : exFills[f].order = e} -> Int]
    BY <1>3 DEF FillsOf
<1>6. \A m \in Markets : FillsIn(m) \in [{f \in Fills : ReqMarket[FillReq(f)] = m} -> Int]
    BY <1>3 DEF FillsIn
<1>7. Costs \in [Fills -> Int]
  <2>1. \A f \in Fills : Signed(f) * ReqPrice[FillReq(f)] \in Int
    BY <1>3, ExchangeAssumption
  <2>2. QED
    BY <2>1 DEF Costs
<1>8. QED
    BY <1>2, <1>3, <1>4, <1>5, <1>6, <1>7

\* A step without a fill that keeps what each order asked for and has filled.
LEMMA AccountsKept ==
    ASSUME ExInv, Accounts, UNCHANGED <<exFills, positions, balance>>, ExIds \subseteq ExIds',
           \A e \in ExIds : /\ exOrders'[e].req = exOrders[e].req
                            /\ exOrders'[e].filled = exOrders[e].filled,
           \A e \in ExIds' \ ExIds : exOrders'[e].filled = 0
    PROVE  Accounts'
<1>1. Fills' = Fills /\ \A f \in Fills : exFills'[f] = exFills[f] /\ FillReq(f)' = FillReq(f)
    BY DEF Fills, FillReq, Accounts
<1>2. \A f \in Fills : Signed(f)' = Signed(f)
    BY <1>1 DEF Signed
<1>3. \A m \in Markets : FillsIn(m)' = FillsIn(m)
    BY <1>1, <1>2 DEF FillsIn
<1>4. Costs' = Costs
    BY <1>1, <1>2 DEF Costs
<1>5. \A e : FillsOf(e)' = FillsOf(e)
    BY <1>1 DEF FillsOf
<1>6. ASSUME NEW e \in ExIds' \ ExIds
      PROVE  exOrders'[e].filled = SumFunction(FillsOf(e)')
  <2>1. DOMAIN FillsOf(e) = {}
    BY DEF FillsOf, Accounts
  <2>2. QED
    BY <1>5, <2>1, SumEmpty
<1>7. \A e \in ExIds' : exOrders'[e].filled = SumFunction(FillsOf(e)')
    BY <1>5, <1>6 DEF Accounts
<1>8. \A f \in Fills' : exFills'[f].order \in ExIds'
    BY <1>1 DEF Accounts
<1>9. QED
    BY <1>3, <1>4, <1>7, <1>8 DEF Accounts

\* A fill adds its quantity to its order, its signed quantity to the position and
\* its cost to what was spent.
LEMMA AccountsFilled ==
    ASSUME ExInv, ExInv', Accounts, NEW e \in ExIds, ExFill(e)
    PROVE  Accounts'
<1> DEFINE req == exOrders[e].req
<1>0. PICK n : n = Len(exFills) + 1
    OBVIOUS
<1>1. PICK q : /\ exFills' = Append(exFills, [order |-> e, qty |-> q])
               /\ \E s : exOrders' = [exOrders EXCEPT ![e] =
                            [req |-> req, filled |-> exOrders[e].filled + q, status |-> s]]
               /\ Book(req, q)
    BY DEF ExFill
<1>2. /\ exFills \in Seq([order : Nat, qty : Nat]) /\ exOrders \in Seq(ExOrder)
      /\ exFills' \in Seq([order : Nat, qty : Nat])
      /\ Len(exFills) \in Nat /\ exOrders[e] \in ExOrder /\ req \in Requests
  <2>1. /\ exFills \in Seq([order : Nat, qty : Nat]) /\ exOrders \in Seq(ExOrder)
        /\ exFills' \in Seq([order : Nat, qty : Nat])
    BY DEF ExInv, ExTypeOK
  <2>2. exOrders[e] \in ExOrder
    BY <2>1 DEF ExIds
  <2>3. QED
    BY <2>1, <2>2 DEF ExOrder
<1>3. /\ Fills' = Fills \cup {n} /\ n \notin Fills
      /\ exFills'[n] = [order |-> e, qty |-> q]
      /\ \A f \in Fills : exFills'[f] = exFills[f]
    BY <1>0, <1>1, <1>2 DEF Fills
<1>4. q \in Int
  <2>1. exFills'[n] \in [order : Nat, qty : Nat]
    BY <1>2, <1>3 DEF Fills
  <2>2. QED
    BY <1>3, <2>1
<1>5. /\ ExIds' = ExIds
      /\ exOrders'[e].req = req /\ exOrders'[e].filled = exOrders[e].filled + q
      /\ \A d \in ExIds : exOrders'[d].req = exOrders[d].req
      /\ \A d \in ExIds : d # e => exOrders'[d].filled = exOrders[d].filled
    BY <1>1, <1>2 DEF ExIds
<1> DEFINE sgn == IF ReqSide[req] = "buy" THEN q ELSE -q
<1>6. /\ FillReq(n)' = req /\ \A f \in Fills : FillReq(f)' = FillReq(f)
      /\ Signed(n)' = sgn /\ \A f \in Fills : Signed(f)' = Signed(f)
  <2>1. FillReq(n)' = req
    BY <1>3, <1>5 DEF FillReq
  <2>2. ASSUME NEW f \in Fills PROVE FillReq(f)' = FillReq(f)
    BY <1>3, <1>5 DEF FillReq, Accounts
  <2>3. exFills'[n].qty = q
    BY <1>3
  <2>4. QED
    BY <1>3, <2>1, <2>2, <2>3 DEF Signed
<1>7. sgn \in Int
    BY <1>4
<1> HIDE DEF sgn
<1>8. /\ positions' = [positions EXCEPT ![ReqMarket[req]] = @ + sgn]
      /\ balance' = balance - sgn * ReqPrice[req]
  <2>1. ReqPrice[req] \in Nat /\ positions \in [Markets -> Int] /\ balance \in Int
        /\ ReqMarket[req] \in Markets
    BY <1>2, ExchangeAssumption DEF Accounts
  <2>2. CASE ReqSide[req] = "buy"
    <3>1. positions' = [positions EXCEPT ![ReqMarket[req]] = @ + 1 * q]
      BY <1>1, <2>2 DEF Book
    <3>2. balance' = balance - 1 * q * ReqPrice[req]
      BY <1>1, <2>2 DEF Book
    <3>3. sgn = q /\ 1 * q = q
      BY <1>4, <2>2 DEF sgn
    <3>4. QED
      BY <3>1, <3>2, <3>3
  <2>3. CASE ReqSide[req] # "buy"
    <3>1. positions' = [positions EXCEPT ![ReqMarket[req]] = @ + (-1) * q]
      BY <1>1, <2>3 DEF Book
    <3>2. balance' = balance - (-1) * q * ReqPrice[req]
      BY <1>1, <2>3 DEF Book
    <3>3. sgn = -q /\ (-1) * q = -q
      BY <1>4, <2>3 DEF sgn
    <3>4. QED
      BY <3>1, <3>2, <3>3
  <2>4. QED
    BY <2>2, <2>3
<1>9. \A d \in ExIds : exOrders'[d].filled = SumFunction(FillsOf(d)')
  <2>1. ASSUME NEW d \in ExIds, d # e
        PROVE  FillsOf(d)' = FillsOf(d)
    BY <1>3, <2>1 DEF FillsOf
  <2>2. SumFunction(FillsOf(e)') = SumFunction(FillsOf(e)) + q
    <3> DEFINE S == {f \in Fills : exFills[f].order = e}
               f0 == FillsOf(e)
               f1 == FillsOf(e)'
    <3>1. IsFiniteSet(S) /\ n \notin S /\ f0 \in [S -> Int]
      BY <1>3, SummandTypes
    <3>2. f1 \in [S \cup {n} -> Int] /\ f1[n] = q /\ \A y \in S : f1[y] = f0[y]
      <4>1. {f \in Fills' : exFills'[f].order = e} = S \cup {n}
        BY <1>3
      <4>2. f1 = [f \in S \cup {n} |-> exFills'[f].qty]
        BY <4>1 DEF FillsOf
      <4>3. \A y \in S : exFills'[y].qty = f0[y] /\ f0[y] \in Int
        BY <1>3, <3>1 DEF FillsOf
      <4>4. exFills'[n].qty = q
        BY <1>3
      <4>5. QED
        BY <1>4, <4>2, <4>3, <4>4
    <3> HIDE DEF S, f0, f1
    <3>3. SumFunction(f1) = SumFunction(f0) + f1[n]
      <4>1. IsFiniteSet(S)
        BY <3>1
      <4>2. n \notin S
        BY <3>1
      <4>3. f0 \in [S -> Int]
        BY <3>1
      <4>4. f1 \in [S \cup {n} -> Int]
        BY <3>2
      <4>5. \A y \in S : f1[y] = f0[y]
        BY <3>2
      <4>6. QED
        BY ONLY <4>1, <4>2, <4>3, <4>4, <4>5, SumExtend
    <3>4. QED
      BY <3>2, <3>3 DEF f0, f1
  <2>3. QED
    BY <1>5, <2>1, <2>2 DEF Accounts
<1>10. \A m \in Markets : positions'[m] = SumFunction(FillsIn(m)')
  <2>0. positions \in [Markets -> Int] /\ ReqMarket[req] \in Markets
    BY <1>2, ExchangeAssumption DEF Accounts
  <2>1. ASSUME NEW m \in Markets, m # ReqMarket[req]
        PROVE  FillsIn(m)' = FillsIn(m)
    BY <1>3, <1>6, <2>1 DEF FillsIn
  <2>2. ASSUME NEW m \in Markets, m = ReqMarket[req]
        PROVE  SumFunction(FillsIn(m)') = SumFunction(FillsIn(m)) + sgn
    <3> DEFINE S == {f \in Fills : ReqMarket[FillReq(f)] = m}
               f0 == FillsIn(m)
               f1 == FillsIn(m)'
    <3>1. IsFiniteSet(S) /\ n \notin S /\ f0 \in [S -> Int]
      BY <1>3, SummandTypes
    <3>2. f1 \in [S \cup {n} -> Int] /\ f1[n] = sgn /\ \A y \in S : f1[y] = f0[y]
      <4>1. {f \in Fills' : ReqMarket[FillReq(f)'] = m} = S \cup {n}
        BY <1>3, <1>6, <2>2
      <4>2. f1 = [f \in S \cup {n} |-> Signed(f)']
        BY <4>1 DEF FillsIn
      <4>3. \A y \in S : Signed(y)' = f0[y] /\ f0[y] \in Int
        BY <1>6, <3>1 DEF FillsIn
      <4>4. QED
        BY <1>6, <1>7, <4>2, <4>3
    <3> HIDE DEF S, f0, f1
    <3>3. SumFunction(f1) = SumFunction(f0) + f1[n]
      <4>1. IsFiniteSet(S)
        BY <3>1
      <4>2. n \notin S
        BY <3>1
      <4>3. f0 \in [S -> Int]
        BY <3>1
      <4>4. f1 \in [S \cup {n} -> Int]
        BY <3>2
      <4>5. \A y \in S : f1[y] = f0[y]
        BY <3>2
      <4>6. QED
        BY ONLY <4>1, <4>2, <4>3, <4>4, <4>5, SumExtend
    <3>4. QED
      BY <3>2, <3>3 DEF f0, f1
  <2>3. QED
    BY <1>8, <2>0, <2>1, <2>2 DEF Accounts
<1>11. balance' = InitialBalance - SumFunction(Costs')
  <2> DEFINE f0 == Costs
             f1 == Costs'
             c  == sgn * ReqPrice[req]
  <2>0. c \in Int
    BY <1>2, <1>7, ExchangeAssumption
  <2>1. IsFiniteSet(Fills) /\ f0 \in [Fills -> Int]
    BY SummandTypes
  <2>2. f1 \in [Fills \cup {n} -> Int] /\ f1[n] = c /\ \A y \in Fills : f1[y] = f0[y]
    <3>1. f1 = [f \in Fills \cup {n} |-> Signed(f)' * ReqPrice[FillReq(f)']]
      BY <1>3 DEF Costs
    <3>2. \A y \in Fills : Signed(y)' * ReqPrice[FillReq(y)'] = f0[y] /\ f0[y] \in Int
      BY <1>6, <2>1 DEF Costs
    <3>3. Signed(n)' * ReqPrice[FillReq(n)'] = c
      BY <1>6
    <3> HIDE DEF f0, c
    <3>4. QED
      BY <2>0, <3>1, <3>2, <3>3
  <2> HIDE DEF f0, f1, c
  <2>3. SumFunction(f1) = SumFunction(f0) + f1[n]
    <3>1. n \notin Fills
      BY <1>3
    <3>2. QED
      BY <2>1, <2>2, <3>1, SumExtend
  <2>3b. SumFunction(f0) \in Int
    BY <2>1, SumInt
  <2>4. balance' = balance - c /\ balance = InitialBalance - SumFunction(f0)
        /\ InitialBalance \in Int /\ balance \in Int
    BY <1>8, ExchangeAssumption DEF Accounts, f0, c
  <2>5. balance' = InitialBalance - SumFunction(f1)
    BY <2>0, <2>2, <2>3, <2>3b, <2>4
  <2>6. QED
    BY <2>5 DEF f1
<1>12. positions' \in [Markets -> Int] /\ balance' \in Int
  <2>1. positions \in [Markets -> Int] /\ ReqMarket[req] \in Markets /\ balance \in Int
        /\ sgn * ReqPrice[req] \in Int
    BY <1>2, <1>7, ExchangeAssumption DEF Accounts
  <2>2. QED
    BY <1>7, <1>8, <2>1
<1>13. \A f \in Fills' : exFills'[f].order \in ExIds'
    BY <1>3, <1>5 DEF Accounts
<1>14. QED
    BY <1>5, <1>9, <1>10, <1>11, <1>12, <1>13 DEF Accounts

\* The sums hold of an empty exchange.
LEMMA AccountsInit == ExInit => Accounts
<1> SUFFICES ASSUME ExInit PROVE Accounts
    OBVIOUS
<1>1. Fills = {} /\ ExIds = {}
    BY DEF ExInit, Fills, ExIds
<1>2. DOMAIN Costs = {} /\ \A m \in Markets : DOMAIN FillsIn(m) = {}
    BY <1>1 DEF Costs, FillsIn
<1>3. SumFunction(Costs) = 0
    BY <1>2, SumEmpty
<1>4. \A m \in Markets : SumFunction(FillsIn(m)) = 0
    BY <1>2, SumEmpty
<1>5. QED
    BY <1>1, <1>3, <1>4, ExchangeAssumption DEF ExInit, Accounts

\* Every step keeps them.
LEMMA AccountsStep == ExInv /\ ExInv' /\ Accounts /\ [ExNext]_exVars => Accounts'
<1> SUFFICES ASSUME ExInv, ExInv', Accounts, [ExNext]_exVars PROVE Accounts'
    OBVIOUS
<1>0. exOrders \in Seq(ExOrder) /\ Len(exOrders) \in Nat /\ \A e \in ExIds : exOrders[e] \in ExOrder
    BY DEF ExInv, ExTypeOK, ExIds
<1>1. ASSUME NEW r \in Requests, NEW s \in {"open", "rejected"}, ExSubmit(r, s)
      PROVE  Accounts'
  <2> DEFINE new == [req |-> r, filled |-> 0, status |-> s]
  <2>1. exOrders' = Append(exOrders, new) /\ UNCHANGED <<exFills, positions, balance>>
    BY <1>1 DEF ExSubmit
  <2>2. /\ ExIds' = ExIds \cup {Len(exOrders) + 1}
        /\ exOrders'[Len(exOrders) + 1] = new
        /\ \A d \in ExIds : exOrders'[d] = exOrders[d]
    BY <1>0, <2>1 DEF ExIds
  <2>3. /\ \A d \in ExIds' \ ExIds : exOrders'[d].filled = 0
        /\ \A d \in ExIds : /\ exOrders'[d].req = exOrders[d].req
                            /\ exOrders'[d].filled = exOrders[d].filled
    BY <2>2
  <2>4. ExIds \subseteq ExIds'
    BY <2>2
  <2>5. QED
    BY <2>1, <2>3, <2>4, AccountsKept
<1>2. ASSUME NEW e \in ExIds, ExNoFill(e)
      PROVE  Accounts'
    BY <1>2, AccountsKept DEF ExNoFill, ExIds
<1>3. ASSUME NEW e \in ExIds, ExFill(e)
      PROVE  Accounts'
    BY <1>3, AccountsFilled
<1>4. ASSUME NEW e \in ExIds, ExCancel(e)
      PROVE  Accounts'
  <2>1. exOrders' = [exOrders EXCEPT ![e] = [exOrders[e] EXCEPT !.status = "cancelled"]]
        /\ UNCHANGED <<exFills, positions, balance>>
    BY <1>4 DEF ExCancel
  <2>2. ExIds' = ExIds
    BY <1>0, <2>1 DEF ExIds
  <2>3. \A d \in ExIds : exOrders'[d].req = exOrders[d].req /\ exOrders'[d].filled = exOrders[d].filled
    BY <1>0, <2>1 DEF ExIds, ExOrder
  <2>4. QED
    BY <2>1, <2>2, <2>3, AccountsKept
<1>5. CASE ExCancelAll
  <2>1. exOrders' = [e \in 1..Len(exOrders) |->
                       IF exOrders[e].status \in ExLive
                       THEN [exOrders[e] EXCEPT !.status = "cancelled"] ELSE exOrders[e]]
        /\ UNCHANGED <<exFills, positions, balance>>
    BY <1>5 DEF ExCancelAll, ExIds
  <2>2. \A d \in ExIds : exOrders'[d].req = exOrders[d].req /\ exOrders'[d].filled = exOrders[d].filled
    BY <1>0, <2>1 DEF ExIds, ExOrder
  <2>3. ExIds' = ExIds
    <3>1. exOrders' \in Seq(ExOrder) /\ DOMAIN exOrders' = 1..Len(exOrders)
      BY <2>1 DEF ExInv, ExTypeOK
    <3>2. Len(exOrders') = Len(exOrders)
      BY <1>0, <3>1
    <3>3. QED
      BY <3>2 DEF ExIds
  <2>4. QED
    BY <2>1, <2>2, <2>3, AccountsKept
<1>6. CASE UNCHANGED exVars
    BY <1>6, AccountsKept DEF exVars, ExIds
<1>7. QED
    BY <1>1, <1>2, <1>3, <1>4, <1>5, <1>6 DEF ExNext

\* What an order has filled, each market's position and the cash are the sums of
\* the exchange's fills, however many fills, partial or complete, there are.
THEOREM ExchangeAccountsForFills == ExSpec => []FillAccounting
<1>1. ExInv /\ Accounts => FillAccounting
    BY DEF ExInv, Accounts, FillAccounting
<1>2. QED
    BY <1>1, ExInvInit, ExInvStep, AccountsInit, AccountsStep, PTL DEF ExSpec

\* A fill goroutine that wakes after its order was cancelled does not fill it.
THEOREM ExchangeCancelIsFinal == ExSpec => CancelIsFinal
<1>1. ExInv /\ [ExNext]_exVars =>
         [\A e \in ExIds : exOrders[e].status = "cancelled" => exOrders'[e] = exOrders[e]]_exVars
  <2> SUFFICES ASSUME ExInv, ExNext, NEW e \in ExIds, exOrders[e].status = "cancelled"
               PROVE  exOrders'[e] = exOrders[e]
    OBVIOUS
  <2>0. exOrders \in Seq(ExOrder) /\ exOrders[e] \in ExOrder
    BY DEF ExInv, ExTypeOK, ExIds
  <2>1. ASSUME NEW r \in Requests, NEW s \in {"open", "rejected"}, ExSubmit(r, s)
        PROVE  exOrders'[e] = exOrders[e]
    BY <2>0, <2>1 DEF ExSubmit, ExIds
  <2>2. ASSUME NEW d \in ExIds, ExNoFill(d)
        PROVE  exOrders'[e] = exOrders[e]
    BY <2>2 DEF ExNoFill
  <2>3. ASSUME NEW d \in ExIds, ExFill(d)
        PROVE  exOrders'[e] = exOrders[e]
    <3>1. d # e
      BY <2>3 DEF ExFill, Fillable
    <3>2. \E new : exOrders' = [exOrders EXCEPT ![d] = new]
      BY <2>3 DEF ExFill
    <3>3. QED
      BY <2>0, <3>1, <3>2 DEF ExIds
  <2>4. ASSUME NEW d \in ExIds, ExCancel(d)
        PROVE  exOrders'[e] = exOrders[e]
    <3>1. [exOrders[e] EXCEPT !.status = "cancelled"] = exOrders[e]
      BY <2>0 DEF ExOrder
    <3>2. exOrders' = [exOrders EXCEPT ![d] = [exOrders[d] EXCEPT !.status = "cancelled"]]
      BY <2>4 DEF ExCancel
    <3>3. QED
      BY <2>0, <3>1, <3>2 DEF ExIds
  <2>5. CASE ExCancelAll
    BY <2>5 DEF ExCancelAll, ExLive
  <2>6. QED
    BY <2>1, <2>2, <2>3, <2>4, <2>5 DEF ExNext
<1>2. QED
    BY <1>1, ExInvInit, ExInvStep, PTL DEF ExSpec, CancelIsFinal
=============================================================================
