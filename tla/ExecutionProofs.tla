--------------------------- MODULE ExecutionProofs ---------------------------
(***************************************************************************)
(* The theorems about the intent ledger and the execution engine, for      *)
(* every set of traces and of concurrent submitters, any limits, any       *)
(* number of crashes, and failing statements and venue calls.              *)
(*                                                                         *)
(* The ledger: the inductive invariant is LedgerTypeOK /\ VersionOrder.    *)
(* That versions are unique across the rows is not inductive by itself,    *)
(* because a version leaves the sequence one step before its row appears,  *)
(* so VersionOrder speaks of the versions held by unfinished INSERTs too.  *)
(* OvershootBound is inductive over it because it counts the callers that  *)
(* passed the check: an INSERT only moves an amount from them to the rows. *)
(*                                                                         *)
(* The engine: WriteAhead and AtMostOnePlacement are not inductive: the    *)
(* invariant follows a submission from the ledger to the venue (SubInv),   *)
(* says that whoever stands before the venue stands there alone and for    *)
(* the first time (PlaceInv), and that every other goroutine holds an      *)
(* order that has its row already (RegInv), so that no late UPDATE can     *)
(* create one.                                                             *)
(***************************************************************************)
EXTENDS Execution, SumProofs

-----------------------------------------------------------------------------
\* The ledger

LedgerInv == LedgerTypeOK /\ VersionOrder

\* A call that moves on without holding a version keeps the invariant.
LEMMA CallMoves ==
    ASSUME LedgerInv, NEW c \in Clients, app[c].pc # "idle",
           NEW pc \in {"compute", "draw", "ok", "err"},
           app' = Goto(c, pc, 0), UNCHANGED <<intents, nextVersion>>
    PROVE  LedgerInv'
<1> USE DEF LedgerInv, LedgerTypeOK, Goto, Rows
<1>1. LedgerTypeOK'
    OBVIOUS
<1>2. VersionOrder'
    BY <1>1 DEF VersionOrder
<1>3. QED
    BY <1>1, <1>2

\* A call that writes the row for the version it holds keeps the invariant.
LEMMA RowWritten ==
    ASSUME LedgerInv, NEW c \in Clients, NEW pc \in {"ok", "err"},
           app[c].pc = "insert", app[c].trace \notin Rows,
           intents' = [intents EXCEPT ![app[c].trace] = NewRow(c)],
           app' = Goto(c, pc, 0), UNCHANGED nextVersion
    PROVE  LedgerInv'
<1> DEFINE t == app[c].trace
<1> USE DEF LedgerInv
<1>1. /\ t \in Traces
      /\ app[c].version \in 1..(nextVersion - 1)
      /\ nextVersion \in Nat
    BY DEF LedgerTypeOK, VersionOrder
<1>2. /\ intents'[t] = [status |-> "pending", version |-> app[c].version]
      /\ \A u \in Traces \ {t} : intents'[u] = intents[u]
    BY <1>1 DEF LedgerTypeOK, NewRow
<1>3. /\ app'[c] = [pc |-> pc, trace |-> t, version |-> 0]
      /\ \A d \in Clients \ {c} : app'[d] = app[d]
    BY DEF LedgerTypeOK, Goto
<1>4. LedgerTypeOK'
  <2>1. intents' \in [Traces -> [status : IntentStatus, version : Nat]]
      BY <1>1 DEF LedgerTypeOK, NewRow, IntentStatus, IntentOutstanding
  <2>2. app' \in [Clients -> [pc : {"idle", "lookup", "compute", "draw", "insert", "ok", "err"},
                              trace : Traces \cup {NoTrace}, version : Nat]]
      BY <1>1 DEF LedgerTypeOK, Goto
  <2>3. \A d \in Clients : app'[d].pc = "idle" \/ app'[d].trace \in Traces
      BY <1>1, <1>3 DEF LedgerTypeOK
  <2>4. \A u \in Traces : intents'[u].status = "none" <=> intents'[u].version = 0
      BY <1>1, <1>2 DEF LedgerTypeOK
  <2>5. QED
      BY <2>1, <2>2, <2>3, <2>4 DEF LedgerTypeOK
<1>5. Rows' = Rows \cup {t}
    BY <1>1, <1>2 DEF Rows
<1>6. VersionOrder'
    BY <1>1, <1>2, <1>3, <1>5 DEF VersionOrder, LedgerTypeOK, Rows
<1>7. QED
    BY <1>4, <1>6

\* Every step of the ledger keeps the type invariant and the order of the
\* versions.
LEMMA LedgerInvStep == LedgerInv /\ [LedgerNext]_ledgerVars => LedgerInv'
<1> SUFFICES ASSUME LedgerInv, [LedgerNext]_ledgerVars
             PROVE  LedgerInv'
    OBVIOUS
<1>1. ASSUME NEW c \in Clients, NEW t \in Traces, AppendBegin(c, t)
      PROVE  LedgerInv'
    BY <1>1 DEF AppendBegin, LedgerInv, LedgerTypeOK, VersionOrder, Rows
<1>2. ASSUME NEW c \in Clients, AppendLookup(c)
      PROVE  LedgerInv'
    BY <1>2, CallMoves DEF AppendLookup
<1>3. ASSUME NEW c \in Clients, AppendCompute(c)
      PROVE  LedgerInv'
    BY <1>3, CallMoves DEF AppendCompute
<1>4. ASSUME NEW c \in Clients, AppendDraw(c)
      PROVE  LedgerInv'
  <2>1. LedgerTypeOK'
      BY <1>4 DEF AppendDraw, DrawVersion, Goto, LedgerInv, LedgerTypeOK
  <2>2. VersionOrder'
      BY <1>4 DEF AppendDraw, DrawVersion, Goto, LedgerInv, LedgerTypeOK, VersionOrder, Rows
  <2>3. QED
      BY <2>1, <2>2 DEF LedgerInv
<1>5. ASSUME NEW c \in Clients, AppendInsert(c)
      PROVE  LedgerInv'
  <2>1. CASE app[c].trace \notin Rows
      BY <1>5, <2>1, RowWritten DEF AppendInsert
  <2>2. CASE app[c].trace \in Rows
      BY <1>5, <2>2, CallMoves DEF AppendInsert
  <2>3. QED
      BY <2>1, <2>2
<1>6. ASSUME NEW c \in Clients, AppendDbError(c)
      PROVE  LedgerInv'
  <2>1. CASE UNCHANGED intents
      BY <1>6, <2>1, CallMoves DEF AppendDbError
  <2>2. CASE /\ app[c].pc = "insert"
             /\ app[c].trace \notin Rows
             /\ intents' = [intents EXCEPT ![app[c].trace] = NewRow(c)]
      BY <1>6, <2>2, RowWritten DEF AppendDbError
  <2>3. QED
      BY <1>6, <2>1, <2>2 DEF AppendDbError
<1>7. ASSUME NEW c \in Clients, AppendReturn(c)
      PROVE  LedgerInv'
    BY <1>7 DEF AppendReturn, Idle, LedgerInv, LedgerTypeOK, VersionOrder, Rows
<1>8. ASSUME NEW t \in Traces, NEW s \in UpdateStatuses, UpdateStatus(t, s)
      PROVE  LedgerInv'
  <2>1. s # "none" /\ s \in IntentStatus
      BY DEF UpdateStatuses, IntentStatus, IntentOutstanding, IntentTerminal
  <2>2. CASE intents' = intents
      BY <1>8, <2>2 DEF UpdateStatus, LedgerInv, LedgerTypeOK, VersionOrder, Rows
  <2>3. CASE intents' = [intents EXCEPT ![t].status = s]
    <3>1. LedgerTypeOK'
        BY <1>8, <2>1, <2>3 DEF UpdateStatus, LedgerInv, LedgerTypeOK, Rows
    <3>2. Rows' = Rows /\ \A u \in Traces : intents'[u].version = intents[u].version
        BY <1>8, <2>1, <2>3 DEF UpdateStatus, LedgerInv, LedgerTypeOK, Rows
    <3>3. VersionOrder'
        BY <1>8, <3>2 DEF UpdateStatus, LedgerInv, VersionOrder, Rows
    <3>4. QED
        BY <3>1, <3>3 DEF LedgerInv
  <2>4. QED
      BY <1>8, <2>2, <2>3 DEF UpdateStatus, UpdatedIntents
<1>9. CASE UNCHANGED ledgerVars
    BY <1>9 DEF ledgerVars, LedgerInv, LedgerTypeOK, VersionOrder, Rows
<1>10. QED
    BY <1>1, <1>2, <1>3, <1>4, <1>5, <1>6, <1>7, <1>8, <1>9 DEF LedgerNext

\* The ledger starts inside the invariant.
LEMMA LedgerInvInit == LedgerInit => LedgerInv
BY LedgerAssumption
DEF LedgerInit, LedgerInv, LedgerTypeOK, VersionOrder, Rows, Idle,
    IntentStatus, IntentOutstanding, IntentTerminal

\* Type correctness of the ledger: a row exists exactly when it has a version.
THEOREM LedgerTypeCorrect == LedgerSpec => []LedgerTypeOK
<1>1. LedgerInv => LedgerTypeOK
    BY DEF LedgerInv
<1>2. QED
    BY <1>1, LedgerInvInit, LedgerInvStep, PTL DEF LedgerSpec

\* Versions are unique however many callers append at once: ReplayAll's
\* ORDER BY version is a total order.
THEOREM VersionsUnique == LedgerSpec => []VersionOrder
<1>1. LedgerInv => VersionOrder
    BY DEF LedgerInv
<1>2. QED
    BY <1>1, LedgerInvInit, LedgerInvStep, PTL DEF LedgerSpec

\* A step of the ledger neither deletes a row nor changes its version.
LEMMA LedgerRowsStay ==
    ASSUME LedgerInv, [LedgerNext]_ledgerVars, NEW t \in Rows
    PROVE  intents'[t].version = intents[t].version /\ intents'[t].status # "none"
<1> USE DEF LedgerInv, LedgerTypeOK, Rows
<1>1. CASE intents' = intents
    BY <1>1
<1>2. ASSUME NEW c \in Clients, AppendInsert(c) \/ AppendDbError(c)
      PROVE  intents'[t].version = intents[t].version /\ intents'[t].status # "none"
    BY <1>2 DEF AppendInsert, AppendDbError
<1>3. ASSUME NEW u \in Traces, NEW s \in UpdateStatuses, UpdateStatus(u, s)
      PROVE  intents'[t].version = intents[t].version /\ intents'[t].status # "none"
    BY <1>3 DEF UpdateStatus, UpdatedIntents, UpdateStatuses
<1>4. QED
    BY <1>1, <1>2, <1>3
    DEF LedgerNext, ledgerVars, AppendBegin, AppendLookup, AppendCompute, AppendDraw, AppendReturn

\* A row keeps its version and is never deleted, whatever fails around it.
THEOREM LedgerAppendOnly == LedgerSpec => RowsPermanent
<1>1. ASSUME LedgerInv, [LedgerNext]_ledgerVars
      PROVE  [\A t \in Rows : /\ intents'[t].version = intents[t].version
                              /\ intents'[t].status # "none"]_ledgerVars
    BY <1>1, LedgerRowsStay
<1>2. QED
    BY <1>1, LedgerInvInit, LedgerInvStep, PTL DEF LedgerSpec, RowsPermanent

\* Every step of the ledger is a move of one intent along the edges of its
\* lifecycle, or leaves every status alone.
LEMMA LedgerStepIsMove ==
    LedgerInv /\ [LedgerNext]_ledgerVars
        => [Log!Next]_[t \in Traces |-> intents[t].status]
<1> SUFFICES ASSUME LedgerInv, [LedgerNext]_ledgerVars
             PROVE  [Log!Next]_[t \in Traces |-> intents[t].status]
    OBVIOUS
<1> USE DEF LedgerInv, LedgerTypeOK, Rows
<1>1. CASE intents' = intents
    BY <1>1
<1>2. ASSUME NEW u \in Traces, NEW s,
             <<intents[u].status, s>> \in IntentEdges,
             intents'[u].status = s,
             \A t \in Traces \ {u} : intents'[t] = intents[t]
      PROVE  Log!Next
  <2>1. [t \in Traces |-> intents'[t].status]
           = [[t \in Traces |-> intents[t].status] EXCEPT ![u] = s]
      BY <1>2
  <2>2. Log!Move(u, s)
      BY <1>2, <2>1 DEF Log!Move
  <2>3. <<intents[u].status, s>>[2] = s
      OBVIOUS
  <2>4. \E e \in IntentEdges : Log!Move(u, e[2])
      BY <1>2, <2>2, <2>3
  <2>5. QED
      BY <2>4 DEF Log!Next
<1>3. ASSUME NEW c \in Clients, AppendInsert(c) \/ AppendDbError(c), intents' # intents
      PROVE  Log!Next
  <2>1. /\ app[c].trace \in Traces
        /\ intents[app[c].trace].status = "none"
        /\ intents' = [intents EXCEPT ![app[c].trace] = NewRow(c)]
      BY <1>3 DEF AppendInsert, AppendDbError
  <2>2. <<intents[app[c].trace].status, "pending">> \in IntentEdges
      BY <2>1 DEF IntentEdges
  <2>3. /\ intents'[app[c].trace].status = "pending"
        /\ \A t \in Traces \ {app[c].trace} : intents'[t] = intents[t]
      BY <2>1 DEF NewRow
  <2>4. QED
      BY <1>2, <2>1, <2>2, <2>3
<1>4. ASSUME NEW u \in Traces, NEW s \in UpdateStatuses, UpdateStatus(u, s), intents' # intents
      PROVE  [Log!Next]_[t \in Traces |-> intents[t].status]
  <2>1. /\ intents[u].status \in IntentOutstanding
        /\ intents' = [intents EXCEPT ![u].status = s]
      BY <1>4 DEF UpdateStatus, UpdatedIntents
  <2>2. intents'[u].status = s /\ \A t \in Traces \ {u} : intents'[t] = intents[t]
      BY <2>1
  <2>3. CASE intents[u].status = s
      BY <2>2, <2>3
  <2>4. CASE intents[u].status # s
    <3>1. <<intents[u].status, s>> \in IntentEdges
        BY <2>1, <2>4 DEF UpdateStatuses, IntentEdges, IntentOutstanding, IntentTerminal
    <3>2. QED
        BY <1>2, <2>2, <3>1 DEF UpdateStatuses
  <2>5. QED
      BY <2>3, <2>4
<1>5. QED
    BY <1>1, <1>3, <1>4
    DEF LedgerNext, ledgerVars, AppendBegin, AppendLookup, AppendCompute, AppendDraw, AppendReturn

\* The ledger implements the append-only lifecycle: an intent is born once,
\* moves forward only, and a terminal status is final.
THEOREM LedgerImplementsLifecycle == LedgerSpec => ImplementsLifecycle
<1>1. LedgerInit => Log!Init
    BY DEF LedgerInit, Log!Init
<1>2. QED
    BY <1>1, LedgerInvInit, LedgerInvStep, LedgerStepIsMove, PTL
    DEF LedgerSpec, ImplementsLifecycle, Log!Spec

\* The outstanding notional of the keys in K; a caller's share of what is in
\* flight, and the other callers' share.
OutAt(K) == {t \in Outstanding : Key[t] \in K}
OutNotional(K) == SumFunction(Restrict(Notional, OutAt(K)))
InFlightNotionals(K) == [c \in InFlight(K) |-> Notional[app[c].trace]]
Share(K, c) == IF c \in InFlight(K) THEN Notional[app[c].trace] ELSE 0
Others(K, c) == Restrict(InFlightNotionals(K), InFlight(K) \ {c})
Most == Max({Notional[t] : t \in Traces})

\* No intent is larger than the largest.
LEMMA MostIsMost == Most \in Nat /\ \A t \in Traces : Notional[t] <= Most
<1> DEFINE N == {Notional[t] : t \in Traces}
<1>1. PICK u \in Traces : \A t \in Traces : Notional[u] >= Notional[t]
  <2>1. Notional \in [Traces -> Int] /\ IsFiniteSet(Traces) /\ Traces # {}
    BY LedgerAssumption
  <2>2. QED
    BY <2>1, LargestValue
<1>2. N \in SUBSET Nat
    BY LedgerAssumption
<1>3. \E x \in N : \A y \in N : x >= y
    BY <1>1
<1> HIDE DEF N
<1>4. Max(N) \in N /\ \A y \in N : Max(N) >= y
    BY <1>3 DEF Max
<1>5. QED
    BY <1>2, <1>4 DEF N, Most

\* What is in flight is one caller's share and the others'.
Shares ==
    \A K \in SUBSET Keys : \A c \in Clients :
        /\ SumFunction(Others(K, c)) \in Int
        /\ Share(K, c) \in Nat
        /\ InFlightNotional(K) = SumFunction(Others(K, c)) + Share(K, c)
        /\ SumFunction(Others(K, c)) <= Slack

LEMMA SharesAddUp == LedgerInv => Shares
<1> SUFFICES ASSUME LedgerInv, NEW K \in SUBSET Keys, NEW c \in Clients
             PROVE  /\ SumFunction(Others(K, c)) \in Int
                    /\ Share(K, c) \in Nat
                    /\ InFlightNotional(K) = SumFunction(Others(K, c)) + Share(K, c)
                    /\ SumFunction(Others(K, c)) <= Slack
    BY DEF Shares
<1> DEFINE S == InFlight(K)
           T == S \ {c}
           f == InFlightNotionals(K)
<1>1. /\ IsFiniteSet(S) /\ IsFiniteSet(T) /\ T \in SUBSET S
      /\ T \in SUBSET (Clients \ {c})
  <2>1. S \in SUBSET Clients
    BY DEF InFlight
  <2>2. QED
    BY <2>1, LedgerAssumption, FS_Subset, FS_RemoveElement
<1>2. \A d \in S : Notional[app[d].trace] \in Nat /\ Notional[app[d].trace] <= Most
  <2>1. \A d \in S : app[d].trace \in Traces
    BY DEF InFlight, LedgerInv, LedgerTypeOK
  <2>2. QED
    BY <2>1, LedgerAssumption, MostIsMost
<1>3. f \in [S -> Int] /\ \A d \in S : f[d] = Notional[app[d].trace]
    BY <1>2 DEF InFlightNotionals
<1>4. InFlightNotional(K) = SumFunction(f)
    BY DEF InFlightNotional, InFlightNotionals
<1>5. /\ Others(K, c) = Restrict(f, T) /\ Restrict(f, T) \in [T -> Int]
      /\ \A d \in T : Restrict(f, T)[d] = f[d]
  <2>1. Others(K, c) = Restrict(f, T)
    BY DEF Others
  <2> HIDE DEF S, T, f
  <2>2. Restrict(f, T) \in [T -> Int] /\ \A d \in T : Restrict(f, T)[d] = f[d]
    BY <1>1, <1>3 DEF Restrict
  <2>3. QED
    BY <2>1, <2>2
<1> HIDE DEF S, T, f
<1>6. SumFunction(Restrict(f, T)) \in Int
    BY <1>1, <1>5, SumInt
<1>7. Share(K, c) \in Nat
    BY <1>2 DEF Share, S
<1>8. SumFunction(f) = SumFunction(Restrict(f, T)) + Share(K, c)
  <2>1. CASE c \in S
    <3>1. SumFunction(f) = f[c] + SumFunction(Restrict(f, S \ {c}))
      BY <1>1, <1>3, <2>1, SumRemove
    <3>2. Share(K, c) = f[c]
      BY <1>3, <2>1 DEF Share, S
    <3>3. QED
      BY <1>6, <1>7, <3>1, <3>2 DEF T
  <2>2. CASE c \notin S
    <3>1. T = S
      BY <2>2 DEF T
    <3>2. Restrict(f, T) = f
      BY <1>3, <3>1 DEF Restrict
    <3>3. Share(K, c) = 0
      BY <2>2 DEF Share, S
    <3>4. QED
      BY <1>6, <3>2, <3>3
  <2>3. QED
    BY <2>1, <2>2
<1>9. SumFunction(Restrict(f, T)) <= (Cardinality(Clients) - 1) * Most
  <2>1. \A d \in T : Restrict(f, T)[d] <= Most
    BY <1>1, <1>2, <1>3, <1>5
  <2>2. IsFiniteSet(Clients) /\ Most \in Nat
    BY LedgerAssumption, MostIsMost
  <2>3. QED
    BY <1>1, <1>5, <2>1, <2>2, SumBelowButOne
<1>10. Slack = (Cardinality(Clients) - 1) * Most
    BY DEF Slack, Most
<1>11. QED
    BY <1>4, <1>5, <1>6, <1>7, <1>8, <1>9, <1>10

\* A step of one caller leaves the others' share alone.
LEMMA OthersStay ==
    ASSUME LedgerInv, NEW K \in SUBSET Keys, NEW c \in Clients,
           \A d \in Clients \ {c} : app'[d] = app[d]
    PROVE  Others(K, c)' = Others(K, c)
<1>1. (InFlight(K) \ {c})' = InFlight(K) \ {c}
    BY DEF InFlight
<1>2. \A d \in InFlight(K) \ {c} : app'[d] = app[d] /\ d \in InFlight(K)'
    BY <1>1 DEF InFlight
<1>3. QED
    BY <1>1, <1>2 DEF Others, Restrict, InFlightNotionals

\* The outstanding notional is a natural.
LEMMA OutNotionalType ==
    ASSUME NEW K \in SUBSET Keys
    PROVE  /\ IsFiniteSet(OutAt(K)) /\ OutAt(K) \in SUBSET Traces
           /\ Restrict(Notional, OutAt(K)) \in [OutAt(K) -> Int]
           /\ OutNotional(K) \in Nat
<1>1. OutAt(K) \in SUBSET Traces /\ IsFiniteSet(Traces)
    BY LedgerAssumption DEF OutAt, Outstanding
<1>2. IsFiniteSet(OutAt(K))
    BY <1>1, FS_Subset
<1>3. Notional \in [Traces -> Nat]
    BY LedgerAssumption
<1>4. Restrict(Notional, OutAt(K)) \in [OutAt(K) -> Nat]
    BY <1>1, <1>3, Restricted
<1>5. OutNotional(K) \in Nat
    BY <1>2, <1>4, SumNat DEF OutNotional
<1>6. Restrict(Notional, OutAt(K)) \in [OutAt(K) -> Int]
    BY <1>4
<1>7. QED
    BY <1>1, <1>2, <1>5, <1>6

\* An intent of a key in K adds its notional to the sum over a set without it.
LEMMA NotionalAdds ==
    ASSUME NEW S \in SUBSET Traces, NEW t \in Traces \ S
    PROVE  SumFunction(Restrict(Notional, S \cup {t})) = SumFunction(Restrict(Notional, S)) + Notional[t]
<1> DEFINE f == Restrict(Notional, S)
           g == Restrict(Notional, S \cup {t})
<1>1. IsFiniteSet(S) /\ t \notin S
    BY LedgerAssumption, FS_Subset
<1>2. f \in [S -> Int] /\ g \in [S \cup {t} -> Int] /\ g[t] = Notional[t]
      /\ \A u \in S : g[u] = f[u]
    BY LedgerAssumption DEF Restrict
<1> HIDE DEF f, g
<1>3. SumFunction(g) = SumFunction(f) + g[t]
    BY <1>1, <1>2, SumExtend
<1>4. QED
    BY <1>2, <1>3 DEF f, g

\* A new outstanding intent.
LEMMA OutGrows ==
    ASSUME NEW K \in SUBSET Keys, NEW t \in Traces, t \notin Outstanding,
           Outstanding' = Outstanding \cup {t}
    PROVE  OutNotional(K)' = OutNotional(K) + (IF Key[t] \in K THEN Notional[t] ELSE 0)
<1>1. OutAt(K) \in SUBSET Traces /\ t \notin OutAt(K)
    BY DEF OutAt, Outstanding
<1>2. CASE Key[t] \in K
  <2>1. OutAt(K)' = OutAt(K) \cup {t}
    BY <1>2 DEF OutAt
  <2>2. SumFunction(Restrict(Notional, OutAt(K) \cup {t}))
           = SumFunction(Restrict(Notional, OutAt(K))) + Notional[t]
    BY <1>1, NotionalAdds
  <2>3. QED
    BY <1>2, <2>1, <2>2 DEF OutNotional
<1>3. CASE Key[t] \notin K
  <2>1. OutAt(K)' = OutAt(K)
    BY <1>3 DEF OutAt
  <2>2. OutNotional(K) \in Nat
    BY OutNotionalType
  <2>3. OutNotional(K)' = OutNotional(K)
    BY <2>1 DEF OutNotional
  <2>4. QED
    BY <1>3, <2>2, <2>3
<1>4. QED
    BY <1>2, <1>3

\* An intent that is outstanding no longer.
LEMMA OutShrinks ==
    ASSUME NEW K \in SUBSET Keys, NEW t \in Outstanding, Outstanding' = Outstanding \ {t}
    PROVE  OutNotional(K)' <= OutNotional(K)
<1>1. OutAt(K)' = OutAt(K) \ {t} /\ OutAt(K) \in SUBSET Traces /\ t \in Traces
    BY DEF OutAt, Outstanding
<1>2. OutNotional(K) \in Nat /\ Notional[t] \in Nat
    BY <1>1, OutNotionalType, LedgerAssumption
<1>2b. OutNotional(K)' \in Nat
  <2>1. OutAt(K)' \in SUBSET Traces /\ IsFiniteSet(OutAt(K)')
    BY <1>1, FS_Subset, OutNotionalType
  <2>2. Restrict(Notional, OutAt(K)') \in [OutAt(K)' -> Nat]
    BY <2>1, LedgerAssumption, Restricted
  <2>3. QED
    BY <2>1, <2>2, SumNat DEF OutNotional
<1>3. CASE t \in OutAt(K)
  <2> DEFINE S == OutAt(K) \ {t}
  <2>1. S \in SUBSET Traces /\ t \in Traces \ S /\ OutAt(K) = S \cup {t}
    BY <1>1, <1>3
  <2> HIDE DEF S
  <2>2. SumFunction(Restrict(Notional, OutAt(K))) = SumFunction(Restrict(Notional, S)) + Notional[t]
    BY <2>1, NotionalAdds
  <2>3. OutNotional(K) = OutNotional(K)' + Notional[t]
    BY <1>1, <2>2 DEF OutNotional, S
  <2>4. QED
    BY <1>2, <1>2b, <2>3
<1>4. CASE t \notin OutAt(K)
  <2>1. OutAt(K)' = OutAt(K)
    BY <1>1, <1>4
  <2>2. QED
    BY <1>2, <2>1 DEF OutNotional
<1>5. QED
    BY <1>3, <1>4

\* The bound for the keys in K and the limit M, given that the check of a caller
\* that goes on kept to it.
Within(K, M) == OutNotional(K) + InFlightNotional(K) <= M + Slack

LEMMA WithinStep ==
    ASSUME LedgerInv, LedgerInv', [LedgerNext]_ledgerVars, NEW K \in SUBSET Keys, NEW M \in Nat,
           Within(K, M),
           \A c \in Clients : AppendCompute(c) /\ app'[c].pc = "draw" /\ Key[app[c].trace] \in K
                                 => OutNotional(K) + Notional[app[c].trace] <= M
    PROVE  Within(K, M)'
<1> DEFINE o(c) == SumFunction(Others(K, c))
<1>0. Slack' = Slack /\ Slack \in Int
  <2>1. Slack = (Cardinality(Clients) - 1) * Most /\ Cardinality(Clients) \in Nat
    BY LedgerAssumption, FS_CardinalityType DEF Slack, Most
  <2>2. QED
    BY <2>1, MostIsMost DEF Slack
<1>1. OutNotional(K) \in Nat
    BY OutNotionalType
<1>2. ASSUME NEW c \in Clients
      PROVE  /\ o(c) \in Int /\ o(c) <= Slack
             /\ Share(K, c) \in Nat
             /\ InFlightNotional(K) = o(c) + Share(K, c)
    BY <1>2, SharesAddUp DEF Shares
<1>3. ASSUME NEW c \in Clients, \A d \in Clients \ {c} : app'[d] = app[d]
      PROVE  Share(K, c)' \in Nat /\ InFlightNotional(K)' = o(c) + Share(K, c)'
  <2>1. Others(K, c)' = Others(K, c)
    BY <1>3, OthersStay
  <2>2. Shares'
    BY SharesAddUp, PTL
  <2>3. QED
    BY <2>1, <2>2 DEF Shares
<1> HIDE DEF o
<1>4. UNCHANGED intents => OutNotional(K)' = OutNotional(K)
    BY DEF OutNotional, OutAt, Outstanding
<1>5. ASSUME NEW c \in Clients, \A d \in Clients \ {c} : app'[d] = app[d],
             UNCHANGED intents, Share(K, c)' <= Share(K, c)
      PROVE  Within(K, M)'
    BY <1>0, <1>1, <1>2, <1>3, <1>4, <1>5 DEF Within
<1>6. ASSUME NEW c \in Clients, NEW pc, NEW v, app' = Goto(c, pc, v)
      PROVE  /\ app'[c].pc = pc /\ app'[c].trace = app[c].trace
             /\ \A d \in Clients \ {c} : app'[d] = app[d]
    BY <1>6 DEF Goto, LedgerInv, LedgerTypeOK
<1>7. ASSUME NEW c \in Clients, app'[c].pc \notin {"draw", "insert"}
      PROVE  Share(K, c)' = 0
    BY <1>7 DEF Share, InFlight
<1>8. ASSUME NEW c \in Clients, app[c].pc \notin {"draw", "insert"}
      PROVE  Share(K, c) = 0
    BY <1>8 DEF Share, InFlight
<1>9. ASSUME NEW c \in Clients, NEW t \in Traces, AppendBegin(c, t)
      PROVE  Within(K, M)'
  <2>1. /\ \A d \in Clients \ {c} : app'[d] = app[d]
        /\ app'[c].pc \notin {"draw", "insert"} /\ UNCHANGED intents
    BY <1>9 DEF AppendBegin, LedgerInv, LedgerTypeOK
  <2>2. Share(K, c)' <= Share(K, c)
    BY <1>2, <1>7, <2>1
  <2>3. QED
    BY <1>5, <2>1, <2>2
<1>10. ASSUME NEW c \in Clients, AppendLookup(c) \/ AppendReturn(c)
       PROVE  Within(K, M)'
  <2>1. /\ \A d \in Clients \ {c} : app'[d] = app[d]
        /\ app'[c].pc \notin {"draw", "insert"} /\ UNCHANGED intents
    BY <1>10 DEF AppendLookup, AppendReturn, Goto, Idle, LedgerInv, LedgerTypeOK
  <2>2. Share(K, c)' <= Share(K, c)
    BY <1>2, <1>7, <2>1
  <2>3. QED
    BY <1>5, <2>1, <2>2
<1>11. ASSUME NEW c \in Clients, AppendCompute(c)
       PROVE  Within(K, M)'
  <2>1. /\ app[c].pc = "compute" /\ UNCHANGED intents
        /\ app'[c].pc \in {"draw", "err"} /\ app'[c].trace = app[c].trace
        /\ \A d \in Clients \ {c} : app'[d] = app[d]
    BY <1>6, <1>11 DEF AppendCompute
  <2>2. CASE app'[c].pc = "draw" /\ Key[app[c].trace] \in K
    <3>1. OutNotional(K) + Notional[app[c].trace] <= M
      BY <1>11, <2>2
    <3>2. Share(K, c)' = Notional[app[c].trace]
      BY <2>1, <2>2 DEF Share, InFlight
    <3>3. QED
      BY <1>0, <1>1, <1>2, <1>3, <1>4, <2>1, <3>1, <3>2 DEF Within
  <2>3. CASE ~(app'[c].pc = "draw" /\ Key[app[c].trace] \in K)
    <3>1. Share(K, c)' = 0
      BY <2>1, <2>3 DEF Share, InFlight
    <3>2. QED
      BY <1>2, <1>5, <2>1, <3>1
  <2>4. QED
    BY <2>2, <2>3
<1>12. ASSUME NEW c \in Clients, AppendDraw(c)
       PROVE  Within(K, M)'
  <2>1. /\ app[c].pc = "draw" /\ UNCHANGED intents
        /\ app'[c].pc = "insert" /\ app'[c].trace = app[c].trace
        /\ \A d \in Clients \ {c} : app'[d] = app[d]
    BY <1>6, <1>12 DEF AppendDraw
  <2>2. Share(K, c)' = Share(K, c)
    BY <2>1 DEF Share, InFlight
  <2>3. QED
    BY <1>2, <1>5, <2>1, <2>2
<1>13. ASSUME NEW c \in Clients, AppendInsert(c) \/ AppendDbError(c)
       PROVE  Within(K, M)'
  <2>1. /\ app'[c].pc \notin {"draw", "insert"}
        /\ \A d \in Clients \ {c} : app'[d] = app[d]
    <3>1. app' = Goto(c, "ok", 0) \/ app' = Goto(c, "err", 0)
      BY <1>13 DEF AppendInsert, AppendDbError
    <3>2. QED
      BY <1>6, <3>1
  <2>2. Share(K, c)' = 0
    BY <1>7, <2>1
  <2>3. CASE UNCHANGED intents
    BY <1>2, <1>5, <2>1, <2>2, <2>3
  <2>4. CASE /\ app[c].pc = "insert" /\ app[c].trace \notin Rows
             /\ intents' = [intents EXCEPT ![app[c].trace] = NewRow(c)]
    <3> DEFINE t == app[c].trace
    <3>1. t \in Traces /\ t \notin Outstanding /\ Outstanding' = Outstanding \cup {t}
      BY <2>4 DEF LedgerInv, LedgerTypeOK, Rows, Outstanding, NewRow, IntentOutstanding
    <3>2. Share(K, c) = IF Key[t] \in K THEN Notional[t] ELSE 0
      BY <2>4 DEF Share, InFlight
    <3>3. OutNotional(K)' = OutNotional(K) + Share(K, c)
      BY <3>1, <3>2, OutGrows
    <3>4. QED
      BY <1>0, <1>1, <1>2, <1>3, <2>1, <2>2, <3>3 DEF Within
  <2>5. QED
    BY <1>13, <2>3, <2>4 DEF AppendInsert, AppendDbError
<1>14. ASSUME UNCHANGED app, OutNotional(K)' <= OutNotional(K), OutNotional(K)' \in Int
       PROVE  Within(K, M)'
  <2>1. PICK c : c \in Clients
    BY LedgerAssumption
  <2>2. InFlightNotional(K)' = InFlightNotional(K)
    BY <1>14 DEF InFlightNotional, InFlight
  <2>3. InFlightNotional(K) \in Int
    BY <1>2, <2>1
  <2>4. QED
    BY <1>0, <1>1, <1>14, <2>2, <2>3 DEF Within
<1>15. ASSUME NEW t \in Traces, NEW s \in UpdateStatuses, UpdateStatus(t, s)
       PROVE  Within(K, M)'
  <2>1. CASE Outstanding' = Outstanding
    <3>1. OutNotional(K)' = OutNotional(K)
      BY <2>1 DEF OutNotional, OutAt
    <3>2. QED
      BY <1>1, <1>14, <1>15, <3>1 DEF UpdateStatus
  <2>2. CASE t \in Outstanding /\ Outstanding' = Outstanding \ {t}
    <3>1. OutNotional(K)' <= OutNotional(K)
      BY <2>2, OutShrinks
    <3>2. OutNotional(K)' \in Nat
      <4>1. OutAt(K)' \in SUBSET OutAt(K)
        BY <2>2 DEF OutAt
      <4>2. OutAt(K)' \in SUBSET Traces /\ IsFiniteSet(OutAt(K)')
        BY <4>1, OutNotionalType, FS_Subset
      <4>3. Restrict(Notional, OutAt(K)') \in [OutAt(K)' -> Nat]
        BY <4>2, LedgerAssumption, Restricted
      <4>4. QED
        BY <4>2, <4>3, SumNat DEF OutNotional
    <3>3. QED
      BY <1>14, <1>15, <3>1, <3>2 DEF UpdateStatus
  <2>3. \/ Outstanding' = Outstanding
        \/ t \in Outstanding /\ Outstanding' = Outstanding \ {t}
    <3>1. CASE intents' = intents
      BY <3>1 DEF Outstanding
    <3>2. CASE intents[t].status \in IntentOutstanding /\ intents' = [intents EXCEPT ![t].status = s]
      BY <3>2 DEF Outstanding, LedgerInv, LedgerTypeOK
    <3>3. QED
      BY <1>15, <3>1, <3>2 DEF UpdateStatus, UpdatedIntents
  <2>4. QED
    BY <2>1, <2>2, <2>3
<1>16. CASE UNCHANGED ledgerVars
    BY <1>1, <1>4, <1>14, <1>16 DEF ledgerVars
<1>17. QED
    BY <1>9, <1>10, <1>11, <1>12, <1>13, <1>15, <1>16 DEF LedgerNext

\* The query's sums are the outstanding notionals.
LEMMA QueryIsSum ==
    /\ ComputeExposure.total = OutNotional(Keys)
    /\ \A k \in Keys : Entry(ComputeExposure, k).notional = OutNotional({k})
<1>1. OutAt(Keys) = Outstanding
    BY LedgerAssumption DEF OutAt, Outstanding
<1>2. ComputeExposure.total = OutNotional(Keys)
    BY <1>1 DEF ComputeExposure, OutNotional
<1>3. ASSUME NEW k \in Keys
      PROVE  Entry(ComputeExposure, k).notional = OutNotional({k})
  <2>1. OutAt({k}) = {t \in Outstanding : Key[t] = k}
    BY DEF OutAt
  <2>2. CASE k \in {Key[t] : t \in Outstanding}
    <3>1. k \in DOMAIN ComputeExposure.out
      BY <2>2 DEF ComputeExposure
    <3>2. ComputeExposure.out[k].notional
             = SumFunction(Restrict(Notional, {t \in Outstanding : Key[t] = k}))
      BY <2>2 DEF ComputeExposure
    <3>3. QED
      BY <2>1, <3>1, <3>2 DEF Entry, OutNotional
  <2>3. CASE k \notin {Key[t] : t \in Outstanding}
    <3>1. k \notin DOMAIN ComputeExposure.out
      BY <2>3 DEF ComputeExposure
    <3>2. OutAt({k}) = {}
      BY <2>1, <2>3
    <3>3. DOMAIN Restrict(Notional, OutAt({k})) = {}
      BY <3>2 DEF Restrict
    <3>4. OutNotional({k}) = 0
      BY <3>3, SumEmpty DEF OutNotional
    <3>5. QED
      BY <3>1, <3>4 DEF Entry
  <2>4. QED
    BY <2>2, <2>3
<1>4. QED
    BY <1>2, <1>3

\* The bound is that of the sums.
BoundOfSums ==
    OvershootBound <=> /\ MaxTotal > 0 => Within(Keys, MaxTotal)
                       /\ MaxPosition > 0 => \A k \in Keys : Within({k}, MaxPosition)

LEMMA BoundIsWithin == BoundOfSums
BY QueryIsSum DEF OvershootBound, Within, BoundOfSums

\* An empty ledger is within every limit.
LEMMA BoundInit == LedgerInit => OvershootBound
<1> SUFFICES ASSUME LedgerInit PROVE OvershootBound
    OBVIOUS
<1>1. ASSUME NEW K \in SUBSET Keys, NEW M \in Nat
      PROVE  Within(K, M)
  <2>1. OutAt(K) = {} /\ InFlight(K) = {}
    BY DEF LedgerInit, OutAt, Outstanding, IntentOutstanding, InFlight, Idle
  <2>2. DOMAIN Restrict(Notional, OutAt(K)) = {} /\ DOMAIN InFlightNotionals(K) = {}
    BY <2>1 DEF Restrict, InFlightNotionals
  <2>3. OutNotional(K) = 0
    BY <2>2, SumEmpty DEF OutNotional
  <2>4. SumFunction(InFlightNotionals(K)) = 0
    BY <2>2, SumEmpty
  <2>5. InFlightNotional(K) = 0
    BY <2>4 DEF InFlightNotional, InFlightNotionals
  <2>6. Slack \in Nat
    <3>1. Cardinality(Clients) - 1 \in Nat
      <4>1. PICK c : c \in Clients
        BY LedgerAssumption
      <4>2. IsFiniteSet(Clients \ {c}) /\ Cardinality(Clients \ {c}) = Cardinality(Clients) - 1
        BY <4>1, LedgerAssumption, FS_RemoveElement
      <4>3. QED
        BY <4>2, FS_CardinalityType
    <3>2. Slack = (Cardinality(Clients) - 1) * Most
      BY DEF Slack, Most
    <3>3. QED
      BY <3>1, <3>2, MostIsMost
  <2>7. QED
    BY <2>3, <2>5, <2>6 DEF Within
<1>2. QED
    BY <1>1, BoundIsWithin, LedgerAssumption DEF BoundOfSums

\* Every step keeps to the bound.
LEMMA BoundStep ==
    LedgerInv /\ LedgerInv' /\ OvershootBound /\ [LedgerNext]_ledgerVars => OvershootBound'
<1> SUFFICES ASSUME LedgerInv, LedgerInv', OvershootBound, [LedgerNext]_ledgerVars
             PROVE  OvershootBound'
    OBVIOUS
<1>1. ASSUME NEW c \in Clients, AppendCompute(c), app'[c].pc = "draw"
      PROVE  CheckInvariant(ComputeExposure, app[c].trace) /\ app[c].trace \in Traces
    BY <1>1 DEF AppendCompute, Goto, LedgerInv, LedgerTypeOK
<1>2. ASSUME MaxTotal > 0
      PROVE  Within(Keys, MaxTotal)'
  <2>1. Within(Keys, MaxTotal) /\ MaxTotal \in Nat
    BY <1>2, BoundIsWithin, LedgerAssumption DEF BoundOfSums
  <2>2. ASSUME NEW c \in Clients, AppendCompute(c), app'[c].pc = "draw"
        PROVE  OutNotional(Keys) + Notional[app[c].trace] <= MaxTotal
    BY <1>1, <1>2, <2>2, QueryIsSum DEF CheckInvariant
  <2>3. QED
    BY <2>1, <2>2, WithinStep
<1>3. ASSUME MaxPosition > 0, NEW k \in Keys
      PROVE  Within({k}, MaxPosition)'
  <2>1. Within({k}, MaxPosition) /\ MaxPosition \in Nat
    BY <1>3, BoundIsWithin, LedgerAssumption DEF BoundOfSums
  <2>2. ASSUME NEW c \in Clients, AppendCompute(c), app'[c].pc = "draw", Key[app[c].trace] \in {k}
        PROVE  OutNotional({k}) + Notional[app[c].trace] <= MaxPosition
    BY <1>1, <1>3, <2>2, QueryIsSum DEF CheckInvariant
  <2>3. QED
    BY <2>1, <2>2, WithinStep
<1>4. BoundOfSums'
    BY BoundIsWithin, PTL
<1>5. QED
    BY <1>2, <1>3, <1>4 DEF BoundOfSums

\* However many callers run Append at once, and whatever statements fail, the
\* outstanding exposure passes a limit by at most one intent of every other caller.
THEOREM LedgerOvershootBounded == LedgerSpec => []OvershootBound
BY BoundInit, BoundStep, LedgerInvInit, LedgerInvStep, PTL DEF LedgerSpec

-----------------------------------------------------------------------------
\* Replay: applying intents one by one, in whatever order, gives the sums over
\* the outstanding ones (ReplayIsSum), and removing one gives those over the rest.

\* The exposure of a set of outstanding intents.
At(T, k) == {t \in T : Key[t] = k}
EntryOf(T, k) ==
    [quantity |-> SumFunction(Restrict(Quantity, At(T, k))),
     notional |-> SumFunction(Restrict(Notional, At(T, k)))]
OutOf(T) == [k \in {Key[t] : t \in T} |-> EntryOf(T, k)]
ExposureOf(T) == [out |-> OutOf(T), total |-> SumFunction(Restrict(Notional, T))]

\* The query computes it for the outstanding rows.
LEMMA QueryIsExposure == ComputeExposure = ExposureOf(Outstanding)
BY DEF ComputeExposure, ExposureOf, OutOf, EntryOf, At

\* The sum of f over S, for an attribute f of the intents.
SumOver(f, S) == SumFunction(Restrict(f, S))

\* It starts at zero, grows by the value of a new intent, and is a natural.
LEMMA SumOverTraces ==
    ASSUME NEW f \in [Traces -> Nat], NEW S \in SUBSET Traces
    PROVE  /\ SumOver(f, {}) = 0
           /\ SumOver(f, S) \in Nat
           /\ \A t \in Traces \ S : SumOver(f, S \cup {t}) = SumOver(f, S) + f[t]
           /\ (\A t \in S : f[t] > 0) /\ S # {} => SumOver(f, S) > 0
<1>1. IsFiniteSet(S)
    BY LedgerAssumption, FS_Subset
<1>2. SumOver(f, {}) = 0
  <2>1. DOMAIN Restrict(f, {}) = {}
    BY DEF Restrict
  <2>2. QED
    BY <2>1, SumEmpty DEF SumOver
<1>3. Restrict(f, S) \in [S -> Nat] /\ \A t \in S : Restrict(f, S)[t] = f[t]
    BY DEF Restrict
<1>4. SumOver(f, S) \in Nat
    BY <1>1, <1>3, SumNat DEF SumOver
<1>5. ASSUME NEW t \in Traces \ S
      PROVE  SumOver(f, S \cup {t}) = SumOver(f, S) + f[t]
  <2> DEFINE d == Restrict(f, S)
             g == Restrict(f, S \cup {t})
  <2>1. d \in [S -> Int] /\ g \in [S \cup {t} -> Int] /\ g[t] = f[t]
        /\ (\A u \in S : g[u] = d[u])
    BY DEF Restrict
  <2> HIDE DEF d, g
  <2>2. SumFunction(g) = SumFunction(d) + g[t]
    <3>1. t \notin S
      OBVIOUS
    <3>2. d \in [S -> Int]
      BY <2>1
    <3>3. g \in [S \cup {t} -> Int]
      BY <2>1
    <3>4. \A u \in S : g[u] = d[u]
      BY <2>1
    <3>5. QED
      BY ONLY <1>1, <3>1, <3>2, <3>3, <3>4, SumExtend
  <2>3. QED
    BY <2>1, <2>2 DEF d, g, SumOver
<1>6. (\A t \in S : f[t] > 0) /\ S # {} => SumOver(f, S) > 0
    BY <1>1, <1>3, SumPositive DEF SumOver
<1>7. QED
    BY <1>2, <1>4, <1>5, <1>6

\* One more intent, key by key.
LEMMA EntryGrows ==
    ASSUME NEW T \in SUBSET Traces, NEW t \in Traces \ T, NEW k
    PROVE  EntryOf(T \cup {t}, k) =
              IF Key[t] = k THEN [quantity |-> EntryOf(T, k).quantity + Quantity[t],
                                  notional |-> EntryOf(T, k).notional + Notional[t]]
              ELSE EntryOf(T, k)
<1> DEFINE S == At(T, k)
<1>1. S \in SUBSET Traces /\ t \in Traces \ S
    BY DEF At
<1>2. At(T \cup {t}, k) = IF Key[t] = k THEN S \cup {t} ELSE S
    BY DEF At
<1>3. EntryOf(T, k) = [quantity |-> SumOver(Quantity, S), notional |-> SumOver(Notional, S)]
    BY DEF EntryOf, SumOver
<1>4. Key[t] = k => EntryOf(T \cup {t}, k) = [quantity |-> SumOver(Quantity, S \cup {t}),
                                              notional |-> SumOver(Notional, S \cup {t})]
    BY <1>2 DEF EntryOf, SumOver
<1>5. Key[t] # k => EntryOf(T \cup {t}, k) = EntryOf(T, k)
    BY <1>2 DEF EntryOf
<1> HIDE DEF S
<1>6. /\ SumOver(Quantity, S \cup {t}) = SumOver(Quantity, S) + Quantity[t]
      /\ SumOver(Notional, S \cup {t}) = SumOver(Notional, S) + Notional[t]
    BY <1>1, SumOverTraces, LedgerAssumption
<1>7. QED
    BY <1>3, <1>4, <1>5, <1>6

\* A key without intents.
LEMMA EntryEmpty ==
    ASSUME NEW T \in SUBSET Traces, NEW k, k \notin {Key[t] : t \in T}
    PROVE  EntryOf(T, k) = [quantity |-> 0, notional |-> 0]
<1>1. At(T, k) = {}
    BY DEF At
<1>2. SumOver(Quantity, {}) = 0 /\ SumOver(Notional, {}) = 0
    BY SumOverTraces, LedgerAssumption
<1>3. QED
    BY <1>1, <1>2 DEF EntryOf, SumOver

\* A map read gives the sums, the zero entry included.
LEMMA EntryRead ==
    ASSUME NEW T \in SUBSET Traces, NEW k
    PROVE  Entry(ExposureOf(T), k) = EntryOf(T, k)
<1>1. ExposureOf(T).out = OutOf(T) /\ DOMAIN OutOf(T) = {Key[t] : t \in T}
    BY DEF ExposureOf, OutOf
<1>2. CASE k \in {Key[t] : t \in T}
  <2>1. OutOf(T)[k] = EntryOf(T, k)
    BY <1>2 DEF OutOf
  <2>2. QED
    BY <1>1, <1>2, <2>1 DEF Entry
<1>3. CASE k \notin {Key[t] : t \in T}
    BY <1>1, <1>3, EntryEmpty DEF Entry
<1>4. QED
    BY <1>2, <1>3

\* ApplyIntent adds an outstanding intent and skips any other.
LEMMA ApplyAdds ==
    ASSUME NEW T \in SUBSET Traces, NEW t \in Traces \ T
    PROVE  ApplyIntent(ExposureOf(T), t) =
              IF t \in Outstanding THEN ExposureOf(T \cup {t}) ELSE ExposureOf(T)
<1>1. CASE t \notin Outstanding
    BY <1>1 DEF ApplyIntent, Outstanding
<1>2. CASE t \in Outstanding
  <2> DEFINE old == Entry(ExposureOf(T), Key[t])
             new == [quantity |-> old.quantity + Quantity[t], notional |-> old.notional + Notional[t]]
             fun == [j \in DOMAIN OutOf(T) \cup {Key[t]} |->
                        IF j = Key[t] THEN new ELSE OutOf(T)[j]]
  <2>1. new = EntryOf(T \cup {t}, Key[t])
    BY EntryRead, EntryGrows
  <2> HIDE DEF new
  <2>2. fun = OutOf(T \cup {t})
    <3>1. DOMAIN OutOf(T) \cup {Key[t]} = {Key[u] : u \in T \cup {t}}
      BY DEF OutOf
    <3>2. ASSUME NEW j \in {Key[u] : u \in T \cup {t}}, j # Key[t]
          PROVE  j \in {Key[u] : u \in T} /\ EntryOf(T \cup {t}, j) = EntryOf(T, j)
      <4>1. EntryOf(T \cup {t}, j) =
               IF Key[t] = j THEN [quantity |-> EntryOf(T, j).quantity + Quantity[t],
                                   notional |-> EntryOf(T, j).notional + Notional[t]]
               ELSE EntryOf(T, j)
        BY EntryGrows
      <4>2. EntryOf(T \cup {t}, j) = EntryOf(T, j)
        BY <3>2, <4>1
      <4>3. j \in {Key[u] : u \in T}
        BY <3>2
      <4>4. QED
        BY <4>2, <4>3
    <3>3. \A j \in {Key[u] : u \in T} : OutOf(T)[j] = EntryOf(T, j)
      BY DEF OutOf
    <3>4. QED
      BY <2>1, <3>1, <3>2, <3>3 DEF OutOf
  <2>3. SumFunction(Restrict(Notional, T \cup {t})) = SumFunction(Restrict(Notional, T)) + Notional[t]
    BY SumOverTraces, LedgerAssumption DEF SumOver
  <2>4. ApplyIntent(ExposureOf(T), t)
           = [SetEntry(ExposureOf(T), Key[t], new) EXCEPT !.total = @ + Notional[t]]
    BY <1>2 DEF ApplyIntent, Outstanding, new
  <2>5. SetEntry(ExposureOf(T), Key[t], new)
           = [out |-> fun, total |-> SumFunction(Restrict(Notional, T))]
    BY DEF SetEntry, ExposureOf
  <2> HIDE DEF fun
  <2>6. ApplyIntent(ExposureOf(T), t)
           = [out |-> fun, total |-> SumFunction(Restrict(Notional, T)) + Notional[t]]
    BY <2>4, <2>5
  <2>7. QED
    BY <1>2, <2>2, <2>3, <2>6 DEF ExposureOf
<1>3. QED
    BY <1>1, <1>2

\* What the fold over the rows s recurs on: a set of positions, the last first.
Replays(g, s) ==
    g = [X \in SUBSET DOMAIN s |->
            IF X = {} THEN NewExposureState ELSE ApplyIntent(g[X \ {Max(X)}], s[Max(X)])]

LEMMA ReplayChooses ==
    ASSUME NEW s, NEW h, Replays(h, s)
    PROVE  \E g : Replays(g, s) /\ ReplayFromIntents(s) = g[DOMAIN s]
<1> DEFINE g == CHOOSE k : Replays(k, s)
<1>1. Replays(g, s)
    OBVIOUS
<1>2. ReplayFromIntents(s) = g[DOMAIN s]
    BY DEF ReplayFromIntents, FoldLeft, MapThenFoldSet, Replays
<1>3. QED
    BY <1>1, <1>2

\* The intents at a set of positions that are outstanding.
Seen(s, X) == {s[i] : i \in X} \cap Outstanding

\* The last position is one of them.
LEMMA LastPosition ==
    ASSUME NEW n \in Nat, NEW X \in SUBSET (1..n), X # {}
    PROVE  Max(X) \in X /\ IsFiniteSet(X) /\ Cardinality(X \ {Max(X)}) < Cardinality(X)
<1>0. IsFiniteSet(1..n)
    BY FS_Interval
<1>1. IsFiniteSet(X)
    BY <1>0, FS_Subset
<1> DEFINE id == [i \in X |-> i]
<1>2. id \in [X -> Int] /\ \A i \in X : id[i] = i
    OBVIOUS
<1> HIDE DEF id
<1>3. PICK x \in X : \A y \in X : id[x] >= id[y]
    BY <1>1, <1>2, LargestValue
<1>4. Max(X) \in X
    BY <1>2, <1>3 DEF Max
<1>5. Cardinality(X) \in Nat
    BY <1>1, FS_CardinalityType
<1>6. Cardinality(X \ {Max(X)}) = Cardinality(X) - 1
    BY <1>1, <1>4, FS_RemoveElement
<1>7. QED
    BY <1>1, <1>4, <1>5, <1>6

\* The closed form satisfies the recursion at X.
LEMMA ReplayStep ==
    ASSUME NEW n \in Nat, NEW s \in [1..n -> Traces], \A i, j \in 1..n : i # j => s[i] # s[j],
           NEW X \in SUBSET (1..n), X # {}
    PROVE  ApplyIntent(ExposureOf(Seen(s, X \ {Max(X)})), s[Max(X)]) = ExposureOf(Seen(s, X))
<1> DEFINE m == Max(X)
           T == Seen(s, X \ {m})
<1>1. m \in X /\ m \in 1..n
    BY LastPosition
<1> HIDE DEF m
<1>2. T \in SUBSET Traces /\ s[m] \in Traces \ T
    BY <1>1 DEF Seen
<1>3. Seen(s, X) = IF s[m] \in Outstanding THEN T \cup {s[m]} ELSE T
    BY <1>1 DEF Seen
<1> HIDE DEF T
<1>4. ApplyIntent(ExposureOf(T), s[m]) = ExposureOf(Seen(s, X))
  <2>1. ApplyIntent(ExposureOf(T), s[m]) =
           IF s[m] \in Outstanding THEN ExposureOf(T \cup {s[m]}) ELSE ExposureOf(T)
    BY <1>2, ApplyAdds
  <2>2. QED
    BY <1>3, <2>1
<1>5. QED
    BY <1>4 DEF T, m

\* Replaying distinct intents gives the exposure of the outstanding ones.
LEMMA ReplayIsSum ==
    ASSUME NEW n \in Nat, NEW s \in [1..n -> Traces], \A i, j \in 1..n : i # j => s[i] # s[j]
    PROVE  ReplayFromIntents(s) = ExposureOf(Seen(s, 1..n))
<1> DEFINE h == [X \in SUBSET (1..n) |-> ExposureOf(Seen(s, X))]
<1>0. DOMAIN s = 1..n /\ IsFiniteSet(1..n)
    BY FS_Interval
<1>1. ExposureOf(Seen(s, {})) = NewExposureState
  <2>1. Seen(s, {}) = {}
    BY DEF Seen
  <2>2. OutOf({}) = [k \in {} |-> 0]
    BY DEF OutOf
  <2>3. SumFunction(Restrict(Notional, {})) = 0
    BY SumOverTraces, LedgerAssumption DEF SumOver
  <2>4. QED
    BY <2>1, <2>2, <2>3 DEF ExposureOf, NewExposureState
<1>2. Replays(h, s)
  <2>1. ASSUME NEW X \in SUBSET (1..n)
        PROVE  h[X] = IF X = {} THEN NewExposureState ELSE ApplyIntent(h[X \ {Max(X)}], s[Max(X)])
    <3>1. CASE X = {}
      BY <1>1, <3>1
    <3>2. CASE X # {}
      <4>1. X \ {Max(X)} \in SUBSET (1..n)
        OBVIOUS
      <4>2. QED
        BY <3>2, <4>1, ReplayStep
    <3>3. QED
      BY <3>1, <3>2
  <2>2. h = [X \in SUBSET (1..n) |-> h[X]]
    OBVIOUS
  <2> HIDE DEF h
  <2>3. QED
    BY <1>0, <2>1, <2>2 DEF Replays
<1> HIDE DEF h
<1>3. PICK g : Replays(g, s) /\ ReplayFromIntents(s) = g[1..n]
    BY <1>0, <1>2, ReplayChooses
<1> DEFINE F == {X \in SUBSET (1..n) : g[X] = ExposureOf(Seen(s, X))}
<1>4. ASSUME NEW X \in SUBSET (1..n),
             \A Y \in SUBSET (1..n) : Cardinality(Y) < Cardinality(X) => Y \in F
      PROVE  X \in F
  <2>1. g[X] = IF X = {} THEN NewExposureState ELSE ApplyIntent(g[X \ {Max(X)}], s[Max(X)])
    BY <1>0, <1>3 DEF Replays
  <2>2. CASE X = {}
    BY <1>1, <2>1, <2>2
  <2>3. CASE X # {}
    <3> DEFINE Y == X \ {Max(X)}
    <3>1. Y \in SUBSET (1..n) /\ Cardinality(Y) < Cardinality(X)
      BY <2>3, LastPosition
    <3>2. g[Y] = ExposureOf(Seen(s, Y))
      BY <1>4, <3>1
    <3>3. ApplyIntent(ExposureOf(Seen(s, Y)), s[Max(X)]) = ExposureOf(Seen(s, X))
      BY <2>3, ReplayStep
    <3>4. QED
      BY <2>1, <2>3, <3>2, <3>3
  <2>4. QED
    BY <2>2, <2>3
<1>5. F \in SUBSET SUBSET (1..n) /\ 1..n \in SUBSET (1..n)
    OBVIOUS
<1>6. 1..n \in F
  <2> HIDE DEF F
  <2>1. \A X \in SUBSET (1..n) : X \in F
    BY <1>0, <1>4, <1>5, SizeInduction
  <2>2. QED
    BY <1>5, <2>1
<1>7. QED
    BY <1>3, <1>6

\* The rows of R in version order are a sequence that holds each of them once.
LEMMA VersionOrdered ==
    ASSUME LedgerInv, NEW R \in SUBSET Rows
    PROVE  LET s == InVersionOrder(R)
           IN /\ Cardinality(R) \in Nat
              /\ s \in [1..Cardinality(R) -> R]
              /\ \A i, j \in 1..Cardinality(R) : i # j => s[i] # s[j]
              /\ {s[i] : i \in 1..Cardinality(R)} = R
<1> DEFINE n == Cardinality(R)
           D == 1..n
           v == [t \in R |-> intents[t].version]
           Ordered(s) == \A i, j \in DOMAIN s : i < j => intents[s[i]].version < intents[s[j]].version
<1>1. IsFiniteSet(R) /\ n \in Nat /\ R \in SUBSET Traces
    BY LedgerAssumption, FS_Subset, FS_CardinalityType DEF Rows
<1>2. v \in [R -> Int] /\ (\A x, y \in R : v[x] = v[y] => x = y)
      /\ \A x \in R : v[x] = intents[x].version
    BY <1>1 DEF LedgerInv, LedgerTypeOK, VersionOrder
<1> HIDE DEF v, n
<1>3. PICK s \in [D -> R] : \A i, j \in D : i < j => v[s[i]] < v[s[j]]
    BY <1>1, <1>2, SortedExists DEF n
<1>4. ASSUME NEW i \in D, NEW j \in D, i # j
      PROVE  s[i] # s[j]
  <2>1. v[s[i]] \in Int /\ v[s[j]] \in Int /\ (i < j \/ j < i)
    BY <1>1, <1>2, <1>3, <1>4
  <2>2. QED
    BY <1>3, <2>1
<1>5. s \in SetToSeqs(R)
    BY <1>3, <1>4 DEF SetToSeqs, n
<1>6. Ordered(s)
    BY <1>2, <1>3
<1> DEFINE r == InVersionOrder(R)
<1>7. r \in SetToSeqs(R)
  <2> HIDE DEF Ordered
  <2>1. \E q \in SetToSeqs(R) : Ordered(q)
    BY <1>5, <1>6
  <2>2. r = CHOOSE q \in SetToSeqs(R) : Ordered(q)
    BY DEF InVersionOrder, Ordered
  <2> HIDE DEF r
  <2>3. QED
    BY <2>1, <2>2
<1> HIDE DEF r
<1>8. r \in [D -> R] /\ \A i, j \in D : i # j => r[i] # r[j]
    BY <1>7 DEF SetToSeqs, n
<1>9. {r[i] : i \in D} = R
  <2>1. r \in Injection(D, R)
    BY <1>8 DEF Injection, IsInjective
  <2>2. Cardinality(D) = n
    BY <1>1, FS_Interval
  <2>3. r \in Surjection(D, R)
    BY <1>1, <2>1, <2>2, FS_Injection DEF n
  <2>4. QED
    BY <1>8, <2>3 DEF Surjection
<1>10. QED
    BY <1>1, <1>8, <1>9 DEF r, n

\* Replaying any of the rows gives the exposure of those that are outstanding.
LEMMA ReplayOfRows ==
    ASSUME LedgerInv, NEW R \in SUBSET Rows
    PROVE  ReplayFromIntents(InVersionOrder(R)) = ExposureOf(R \cap Outstanding)
<1> DEFINE s == InVersionOrder(R)
           n == Cardinality(R)
<1>1. /\ n \in Nat /\ s \in [1..n -> R] /\ {s[i] : i \in 1..n} = R
      /\ \A i, j \in 1..n : i # j => s[i] # s[j]
    BY VersionOrdered
<1> HIDE DEF s, n
<1>2. s \in [1..n -> Traces]
    BY <1>1 DEF Rows
<1>3. ReplayFromIntents(s) = ExposureOf(Seen(s, 1..n))
    BY <1>1, <1>2, ReplayIsSum
<1>4. Seen(s, 1..n) = R \cap Outstanding
    BY <1>1 DEF Seen
<1>5. QED
    BY <1>3, <1>4 DEF s

\* Recovery by replay and the query of every Append agree, however the versions
\* were handed out and whatever happened to the intents since.
THEOREM ReplayGivesQuery == LedgerSpec => []ReplayMatchesQuery
<1>1. LedgerInv => ReplayMatchesQuery
  <2> SUFFICES ASSUME LedgerInv PROVE ReplayMatchesQuery
    OBVIOUS
  <2>1. Rows \cap Outstanding = Outstanding
    BY DEF Rows, Outstanding, IntentOutstanding
  <2>2. ReplayFromIntents(InVersionOrder(Rows)) = ExposureOf(Rows \cap Outstanding)
    BY ReplayOfRows
  <2>3. QED
    BY <2>1, <2>2, QueryIsExposure DEF ReplayMatchesQuery, ReplayAll
<1>2. QED
    BY <1>1, LedgerInvInit, LedgerInvStep, PTL DEF LedgerSpec

\* Only intents that Validate accepted are looked up, checked or stored.
ValidInv ==
    /\ \A t \in Rows : Validate(t)
    /\ \A c \in Clients : app[c].pc \in {"lookup", "compute", "draw", "insert"}
                             => Validate(app[c].trace)

LEMMA ValidInit == LedgerInit => ValidInv
BY DEF LedgerInit, ValidInv, Rows, Idle

LEMMA ValidStep == LedgerInv /\ ValidInv /\ [LedgerNext]_ledgerVars => ValidInv'
<1> SUFFICES ASSUME LedgerInv, ValidInv, [LedgerNext]_ledgerVars PROVE ValidInv'
    OBVIOUS
<1> USE DEF LedgerInv, LedgerTypeOK, ValidInv, Rows
<1>1. ASSUME NEW c \in Clients, NEW t \in Traces, AppendBegin(c, t)
      PROVE  ValidInv'
    BY <1>1 DEF AppendBegin, Validate
<1>2. ASSUME NEW c \in Clients, AppendLookup(c) \/ AppendCompute(c) \/ AppendDraw(c)
      PROVE  ValidInv'
    BY <1>2 DEF AppendLookup, AppendCompute, AppendDraw, Goto, Validate
<1>3. ASSUME NEW c \in Clients, AppendReturn(c)
      PROVE  ValidInv'
    BY <1>3 DEF AppendReturn, Idle, Validate
<1>4. ASSUME NEW c \in Clients, AppendInsert(c) \/ AppendDbError(c)
      PROVE  ValidInv'
  <2>1. \A d \in Clients : app'[d].pc \in {"lookup", "compute", "draw", "insert"} => app'[d] = app[d]
    BY <1>4 DEF AppendInsert, AppendDbError, Goto
  <2>2. \A t \in Rows' : t \in Rows \/ (app[c].pc = "insert" /\ t = app[c].trace)
    BY <1>4 DEF AppendInsert, AppendDbError
  <2>3. QED
    BY <2>1, <2>2 DEF Validate
<1>5. ASSUME NEW t \in Traces, NEW s \in UpdateStatuses, UpdateStatus(t, s)
      PROVE  ValidInv'
    BY <1>5 DEF UpdateStatus, UpdatedIntents, Validate
<1>6. CASE UNCHANGED ledgerVars
    BY <1>6 DEF ledgerVars, Validate
<1>7. QED
    BY <1>1, <1>2, <1>3, <1>4, <1>5, <1>6 DEF LedgerNext

\* RemoveIntent takes an intent out of the exposure of a set it belongs to; an
\* entry disappears exactly with its last intent, whose quantity was positive.
LEMMA RemoveTakesOut ==
    ASSUME NEW T \in SUBSET Traces, NEW t \in Traces \ T, Quantity[t] > 0,
           \A u \in T : Quantity[u] > 0
    PROVE  RemoveIntent(ExposureOf(T \cup {t}), t) = ExposureOf(T)
<1> DEFINE e == ExposureOf(T \cup {t})
           k == Key[t]
           left == [quantity |-> e.out[k].quantity - Quantity[t],
                    notional |-> e.out[k].notional - Notional[t]]
<1>1. e.out = OutOf(T \cup {t}) /\ e.total = SumFunction(Restrict(Notional, T \cup {t}))
    BY DEF ExposureOf
<1>2. DOMAIN OutOf(T \cup {t}) = {Key[u] : u \in T} \cup {k} /\ DOMAIN OutOf(T) = {Key[u] : u \in T}
    BY DEF OutOf
<1>3. e.out[k] = EntryOf(T \cup {t}, k)
    BY <1>1 DEF OutOf
<1>4. /\ EntryOf(T, k).quantity \in Nat /\ EntryOf(T, k).notional \in Nat
      /\ EntryOf(T, k) = [quantity |-> EntryOf(T, k).quantity, notional |-> EntryOf(T, k).notional]
      /\ Quantity[t] \in Nat /\ Notional[t] \in Nat
  <2>1. At(T, k) \in SUBSET Traces
    BY DEF At
  <2>2. SumOver(Quantity, At(T, k)) \in Nat /\ SumOver(Notional, At(T, k)) \in Nat
    BY <2>1, SumOverTraces, LedgerAssumption
  <2>3. QED
    BY <2>2, LedgerAssumption DEF EntryOf, SumOver
<1>5. left = EntryOf(T, k)
  <2>1. EntryOf(T \cup {t}, k) = [quantity |-> EntryOf(T, k).quantity + Quantity[t],
                                  notional |-> EntryOf(T, k).notional + Notional[t]]
    BY EntryGrows
  <2>2. left = [quantity |-> EntryOf(T, k).quantity, notional |-> EntryOf(T, k).notional]
    BY <1>3, <1>4, <2>1
  <2>3. QED
    BY <1>4, <2>2
<1>6. EntryOf(T, k).quantity > 0 <=> k \in {Key[u] : u \in T}
  <2>1. CASE k \in {Key[u] : u \in T}
    <3>1. At(T, k) # {} /\ At(T, k) \in SUBSET Traces /\ \A u \in At(T, k) : Quantity[u] > 0
      BY <2>1 DEF At
    <3>2. SumOver(Quantity, At(T, k)) > 0
      BY <3>1, SumOverTraces, LedgerAssumption
    <3>3. QED
      BY <2>1, <3>2 DEF EntryOf, SumOver
  <2>2. CASE k \notin {Key[u] : u \in T}
    BY <2>2, EntryEmpty
  <2>3. QED
    BY <2>1, <2>2
<1>7. \A j \in {Key[u] : u \in T} : j # k => OutOf(T \cup {t})[j] = OutOf(T)[j]
  <2>1. ASSUME NEW j \in {Key[u] : u \in T}, j # k
        PROVE  OutOf(T \cup {t})[j] = EntryOf(T \cup {t}, j) /\ OutOf(T)[j] = EntryOf(T, j)
    BY <1>2 DEF OutOf
  <2>2. ASSUME NEW j, j # k
        PROVE  EntryOf(T \cup {t}, j) = EntryOf(T, j)
    BY <2>2, EntryGrows
  <2>3. QED
    BY <2>1, <2>2
<1>8. SumFunction(Restrict(Notional, T \cup {t})) - Notional[t] = SumFunction(Restrict(Notional, T))
  <2>1. /\ SumOver(Notional, T \cup {t}) = SumOver(Notional, T) + Notional[t]
        /\ SumOver(Notional, T) \in Nat /\ Notional[t] \in Nat
    BY SumOverTraces, LedgerAssumption
  <2>2. QED
    BY <2>1 DEF SumOver
<1> DEFINE rest == IF left.quantity <= 0
                   THEN [e EXCEPT !.out = [j \in DOMAIN e.out \ {k} |-> e.out[j]]]
                   ELSE SetEntry(e, k, left)
<1>9. RemoveIntent(e, t) = [rest EXCEPT !.total = @ - Notional[t]]
    BY <1>1, <1>2 DEF RemoveIntent
<1>10. rest.out = OutOf(T) /\ rest = [out |-> rest.out, total |-> e.total]
  <2>1. e = [out |-> e.out, total |-> e.total]
    BY DEF ExposureOf
  <2>2. CASE k \in {Key[u] : u \in T}
    <3>1. left.quantity > 0 /\ left.quantity \in Nat
      BY <1>4, <1>5, <1>6, <2>2
    <3>2. rest = SetEntry(e, k, left)
      BY <3>1
    <3>3. OutOf(T)[k] = left
      BY <1>5, <2>2 DEF OutOf
    <3> HIDE DEF left, rest, e
    <3>4. rest = [out |-> [j \in DOMAIN e.out \cup {k} |-> IF j = k THEN left ELSE e.out[j]],
                  total |-> e.total]
      BY <2>1, <3>2 DEF SetEntry
    <3>5. [j \in DOMAIN e.out \cup {k} |-> IF j = k THEN left ELSE e.out[j]] = OutOf(T)
      <4>1. DOMAIN e.out \cup {k} = {Key[u] : u \in T}
        BY <1>1, <1>2, <2>2
      <4>2. OutOf(T) = [j \in {Key[u] : u \in T} |-> OutOf(T)[j]]
        BY DEF OutOf
      <4>3. \A j \in {Key[u] : u \in T} : (IF j = k THEN left ELSE e.out[j]) = OutOf(T)[j]
        BY <1>1, <1>7, <3>3
      <4>4. QED
        BY <4>1, <4>2, <4>3
    <3>6. QED
      BY <3>4, <3>5
  <2>3. CASE k \notin {Key[u] : u \in T}
    <3>1. left.quantity <= 0
      <4>1. EntryOf(T, k).quantity = 0
        BY <2>3, EntryEmpty
      <4> HIDE DEF left
      <4>2. QED
        BY <1>5, <4>1
    <3>2. rest = [e EXCEPT !.out = [j \in DOMAIN e.out \ {k} |-> e.out[j]]]
      BY <3>1
    <3> HIDE DEF left, rest, e
    <3>3. rest = [out |-> [j \in DOMAIN e.out \ {k} |-> e.out[j]], total |-> e.total]
      BY <2>1, <3>2
    <3>4. [j \in DOMAIN e.out \ {k} |-> e.out[j]] = OutOf(T)
      <4>1. DOMAIN e.out \ {k} = {Key[u] : u \in T}
        BY <1>1, <1>2, <2>3
      <4>2. OutOf(T) = [j \in {Key[u] : u \in T} |-> OutOf(T)[j]]
        BY DEF OutOf
      <4>3. \A j \in {Key[u] : u \in T} : e.out[j] = OutOf(T)[j]
        BY <1>1, <1>7, <2>3
      <4>4. QED
        BY <4>1, <4>2, <4>3
    <3>5. QED
      BY <3>3, <3>4
  <2>4. QED
    BY <2>2, <2>3
<1> HIDE DEF rest
<1>11. RemoveIntent(e, t) = [out |-> OutOf(T), total |-> e.total - Notional[t]]
    BY <1>9, <1>10
<1>12. QED
    BY <1>1, <1>8, <1>11 DEF ExposureOf

\* Taking an intent out of the exposure leaves what replaying the other rows gives.
THEOREM RemovalGivesReplay == LedgerSpec => []RemovalMatchesReplay
<1>1. LedgerInv /\ ValidInv => RemovalMatchesReplay
  <2> SUFFICES ASSUME LedgerInv, ValidInv, NEW t \in Outstanding
               PROVE  /\ Validate(t)
                      /\ RemoveIntent(ComputeExposure, t)
                            = ReplayFromIntents(InVersionOrder(Rows \ {t}))
    BY DEF RemovalMatchesReplay
  <2> DEFINE T == Outstanding \ {t}
  <2>1. /\ T \in SUBSET Traces /\ t \in Traces \ T /\ Outstanding = T \cup {t}
        /\ Outstanding \subseteq Rows
    BY DEF Outstanding, Rows, IntentOutstanding
  <2>2. Validate(t) /\ Quantity[t] > 0 /\ \A u \in T : Quantity[u] > 0
    BY <2>1 DEF ValidInv, Validate
  <2>3. (Rows \ {t}) \cap Outstanding = T
    BY <2>1
  <2>4. ReplayFromIntents(InVersionOrder(Rows \ {t})) = ExposureOf((Rows \ {t}) \cap Outstanding)
    <3>1. Rows \ {t} \in SUBSET Rows
      OBVIOUS
    <3>2. QED
      BY <3>1, ReplayOfRows
  <2> HIDE DEF T
  <2>5. RemoveIntent(ExposureOf(T \cup {t}), t) = ExposureOf(T)
    BY <2>1, <2>2, RemoveTakesOut
  <2>6. QED
    BY <2>1, <2>2, <2>3, <2>4, <2>5, QueryIsExposure
<1>2. QED
    BY <1>1, LedgerInvInit, LedgerInvStep, ValidInit, ValidStep, PTL DEF LedgerSpec

-----------------------------------------------------------------------------
\* The engine

Appended == {"persist", "venue", "transition", "intent", "register"}
AtVenue == {"venue", "transition", "intent", "register"}

SubType == [pc : SubPc, trace : Traces \cup {NoTrace}, exch : Nat,
            ack : {"none", "open", "rejected", "failed"}]

SubInv ==
    /\ sub \in [Clients -> SubType]
    /\ \A c \in Clients :
          /\ sub[c].pc = "append" <=> app[c].pc # "idle"
          /\ sub[c].pc = "append" => sub[c].trace = app[c].trace
          /\ app[c].pc = "ok" => app[c].trace \in Rows
          /\ sub[c].pc \in Appended => sub[c].trace \in Rows
          /\ sub[c].pc \in AtVenue => sub[c].trace \in PersistedRows
          /\ sub[c].pc = "transition" => sub[c].ack # "none"

OrdersTable == orders = [t \in Traces |-> orders[t]]

PlaceInv ==
    /\ OrdersTable
    /\ placed \in [Traces -> Nat]
    /\ PersistedRows \subseteq Rows
    /\ \A t \in Traces : placed[t] > 0 => t \in PersistedRows
    /\ \A t \in Traces : placed[t] <= 1
    /\ \A c \in Clients : sub[c].pc = "venue" => placed[sub[c].trace] = 0
    /\ \A c, d \in Clients :
          sub[c].pc = "venue" /\ sub[d].pc = "venue" /\ sub[c].trace = sub[d].trace => c = d

TrInv ==
    /\ tr = [a \in Shared |-> tr[a]]
    /\ \A a \in Shared :
          /\ tr[a].pc \in {"check", "set", "write"} => tr[a].trace \in PersistedRows /\ tr[a].to # "none"
          /\ tr[a].pc = "write" => tr[a].row.status # "none"

RegInv ==
    /\ openOrders \subseteq PersistedRows
    /\ canc.pc # "idle" => canc.trace \in PersistedRows
    /\ poll.pc \in {"persist", "apply"} => poll.trace \in PersistedRows
    /\ TrInv

ExOrder == [req : Traces, filled : Int, status : Venue!ExStatus]

VenInv ==
    /\ exOrders \in Seq(ExOrder)
    /\ \A e \in 1..Len(exOrders) : exOrders[e].req \in PersistedRows

ExecInv == LedgerInv /\ SubInv /\ PlaceInv /\ RegInv /\ VenInv

-----------------------------------------------------------------------------
\* The ledger inside the engine

\* The calls of UpdateStatus, and a failed one, are steps of the ledger.
LEMMA IntentWritten ==
    ASSUME LedgerInv, NEW t, NEW s \in UpdateStatuses,
           WriteIntent(t, s) \/ UNCHANGED intents, UNCHANGED <<nextVersion, app>>
    PROVE  [LedgerNext]_ledgerVars
<1>1. CASE t \in Rows /\ intents' = UpdatedIntents(t, s)
    BY <1>1 DEF LedgerNext, UpdateStatus, Rows
<1>2. CASE t \notin Rows /\ intents' = UpdatedIntents(t, s)
  <2>1. intents' = intents
      BY <1>2 DEF UpdatedIntents, Rows, LedgerInv, LedgerTypeOK, IntentOutstanding
  <2>2. QED
      BY <2>1 DEF ledgerVars
<1>3. CASE UNCHANGED intents
    BY <1>3 DEF ledgerVars
<1>4. QED
    BY <1>1, <1>2, <1>3 DEF WriteIntent

\* Rows of the ledger stay, so what is known of a row stays known.
LEMMA RowsGrow ==
    ASSUME LedgerInv, [LedgerNext]_ledgerVars
    PROVE  LedgerInv' /\ Rows \subseteq Rows'
<1>1. LedgerInv'
    BY LedgerInvStep
<1>2. ASSUME NEW t \in Rows PROVE t \in Rows'
    BY <1>2, LedgerRowsStay DEF Rows
<1>3. QED
    BY <1>1, <1>2

-----------------------------------------------------------------------------
\* Frames: what a step that leaves some of the state alone keeps

\* No submission moves, and rows are only added: submissions stay consistent.
LEMMA SubFrame ==
    ASSUME SubInv, UNCHANGED <<sub, app>>, Rows \subseteq Rows',
           PersistedRows \subseteq PersistedRows'
    PROVE  SubInv'
    BY DEF SubInv

\* No submission moves and execution.orders keeps its rows: placements stay unique.
LEMMA PlaceFrame ==
    ASSUME PlaceInv, UNCHANGED <<placed, sub>>, OrdersTable', PersistedRows' = PersistedRows,
           Rows \subseteq Rows'
    PROVE  PlaceInv'
    BY DEF PlaceInv

\* Orders leave openOrders and rows are added: every goroutine's order has its row.
LEMMA RegFrame ==
    ASSUME RegInv, UNCHANGED <<canc, poll, tr>>, openOrders' \subseteq openOrders,
           PersistedRows \subseteq PersistedRows'
    PROVE  RegInv'
    BY DEF RegInv, TrInv

\* The venue does not move and rows are added: every venue order has its row.
LEMMA VenFrame ==
    ASSUME VenInv, UNCHANGED exOrders, PersistedRows \subseteq PersistedRows'
    PROVE  VenInv'
    BY DEF VenInv

\* An UPDATE of a row that exists, or one that fails, leaves the set of rows.
LEMMA RowWrite ==
    ASSUME OrdersTable, NEW t \in PersistedRows, NEW row, row.status # "none", WriteRow(t, row)
    PROVE  OrdersTable' /\ PersistedRows' = PersistedRows
<1>1. CASE orders' = [orders EXCEPT ![t] = row]
    BY <1>1 DEF OrdersTable, PersistedRows
<1>2. CASE UNCHANGED orders
    BY <1>2 DEF OrdersTable, PersistedRows
<1>3. QED
    BY <1>1, <1>2 DEF WriteRow

\* Fills and cancels at the venue add no order.
LEMMA VenueStep ==
    ASSUME VenInv, PersistedRows' = PersistedRows,
           \/ \E e \in Venue!ExIds : Venue!ExFill(e) \/ Venue!ExNoFill(e)
           \/ \E e : Venue!ExCancel(e)
           \/ Venue!ExCancelAll
    PROVE  VenInv'
<1>1. ASSUME NEW e \in Venue!ExIds, NEW o \in ExOrder, o.req = exOrders[e].req,
             exOrders' = [exOrders EXCEPT ![e] = o]
      PROVE  VenInv'
    BY <1>1 DEF VenInv, Venue!ExIds
<1>2. ASSUME NEW e \in Venue!ExIds, Venue!ExFill(e)
      PROVE  VenInv'
  <2>1. PICK q \in {Quantity[exOrders[e].req] - exOrders[e].filled}
                     \cup Venue!PartialSizes(Quantity[exOrders[e].req] - exOrders[e].filled) :
          exOrders' = [exOrders EXCEPT ![e] =
                         [req    |-> exOrders[e].req,
                          filled |-> exOrders[e].filled + q,
                          status |-> IF Quantity[exOrders[e].req] - exOrders[e].filled - q <= 0
                                     THEN "filled" ELSE "partially_filled"]]
      BY <1>2 DEF Venue!ExFill
  <2>2. exOrders[e] \in ExOrder
      BY DEF VenInv, Venue!ExIds
  <2>3. Quantity[exOrders[e].req] \in Nat
      BY <2>2, LedgerAssumption DEF ExOrder
  <2>4. q \in Int
      BY <2>1, <2>2, <2>3 DEF Venue!PartialSizes, ExOrder
  <2>5. [req    |-> exOrders[e].req,
         filled |-> exOrders[e].filled + q,
         status |-> IF Quantity[exOrders[e].req] - exOrders[e].filled - q <= 0
                    THEN "filled" ELSE "partially_filled"] \in ExOrder
      BY <2>2, <2>4 DEF ExOrder, Venue!ExStatus, Venue!ExLive
  <2>6. QED
      BY <1>1, <2>1, <2>5
<1>3. ASSUME NEW e, Venue!ExCancel(e)
      PROVE  VenInv'
  <2>1. e \in Venue!ExIds /\ exOrders[e] \in ExOrder
      BY <1>3 DEF Venue!ExCancel, Venue!Cancellable, VenInv, Venue!ExIds
  <2>2. [exOrders[e] EXCEPT !.status = "cancelled"] \in ExOrder
      BY <2>1 DEF ExOrder, Venue!ExStatus
  <2>3. exOrders' = [exOrders EXCEPT ![e] = [exOrders[e] EXCEPT !.status = "cancelled"]]
      BY <1>3 DEF Venue!ExCancel
  <2>4. QED
      BY <1>1, <2>1, <2>2, <2>3 DEF ExOrder
<1>4. CASE Venue!ExCancelAll
  <2>1. exOrders' = [e \in 1..Len(exOrders) |->
                        IF exOrders[e].status \in Venue!ExLive
                        THEN [exOrders[e] EXCEPT !.status = "cancelled"]
                        ELSE exOrders[e]]
      BY <1>4 DEF Venue!ExCancelAll, Venue!ExIds
  <2>2. \A e \in 1..Len(exOrders) : exOrders[e] \in ExOrder
      BY DEF VenInv
  <2>3. \A e \in 1..Len(exOrders) : exOrders'[e] \in ExOrder /\ exOrders'[e].req = exOrders[e].req
      BY <2>1, <2>2 DEF ExOrder, Venue!ExStatus
  <2>4. Len(exOrders) \in Nat
      BY DEF VenInv
  <2>5. exOrders' \in Seq(ExOrder) /\ Len(exOrders') = Len(exOrders)
      BY <2>1, <2>3, <2>4
  <2>6. QED
      BY <2>3, <2>5 DEF VenInv
<1>5. CASE \E e \in Venue!ExIds : Venue!ExNoFill(e)
    BY <1>5 DEF Venue!ExNoFill, VenInv
<1>6. QED
    BY <1>2, <1>3, <1>4, <1>5

-----------------------------------------------------------------------------
\* Every step of a SubmitOrder call keeps the invariant.  The INSERT under the
\* unique idempotency_key is the step that lets at most one submitter of a
\* trace go on to the venue.
LEMMA SubmitStep ==
    ASSUME ExecInv, NEW c \in Clients, SubmitOrder(c)
    PROVE  ExecInv'
<1> USE DEF ExecInv
<1>0. OrdersTable /\ (UNCHANGED orders => OrdersTable' /\ PersistedRows' = PersistedRows)
    BY DEF PlaceInv, OrdersTable, PersistedRows
<1>1. ASSUME NEW t \in Traces, SubmitGate(c, t)
      PROVE  ExecInv'
  <2>1. LedgerInv' /\ Rows \subseteq Rows'
      BY <1>1, RowsGrow DEF SubmitGate, LedgerNext
  <2>2. PersistedRows' = PersistedRows /\ OrdersTable'
      BY <1>0, <1>1 DEF SubmitGate, dbVars
  <2>3. SubInv'
      BY <1>1, <2>1, <2>2
      DEF SubmitGate, SubInv, SubType, SubPc, AppendBegin, LedgerInv, LedgerTypeOK, NullId, Appended, AtVenue
  <2>4. PlaceInv'
    <3>1. \A d \in Clients : sub'[d].pc = "venue" => sub[d].pc = "venue" /\ sub'[d].trace = sub[d].trace
        BY <1>1 DEF SubmitGate, SubInv
    <3>2. QED
        BY <1>1, <2>1, <2>2, <3>1 DEF SubmitGate, PlaceInv, dbVars
  <2>5. RegInv' /\ VenInv'
      BY <1>1, <2>2, RegFrame, VenFrame DEF SubmitGate, memVars, venueVars
  <2>6. QED
      BY <2>1, <2>3, <2>4, <2>5
<1>2. CASE SubmitAppend(c)
  <2>1. LedgerInv' /\ Rows \subseteq Rows'
      BY <1>2, RowsGrow DEF SubmitAppend, LedgerNext
  <2>2. PersistedRows' = PersistedRows /\ OrdersTable' /\ UNCHANGED <<sub, placed>>
      BY <1>0, <1>2 DEF SubmitAppend, dbVars, procVars
  <2>3. \A d \in Clients : /\ app'[d].pc # "idle" <=> app[d].pc # "idle"
                           /\ app'[d].trace = app[d].trace
                           /\ app'[d].pc = "ok" => app'[d].trace \in Rows'
    <3>1. \E pc \in {"compute", "draw", "insert", "ok", "err"} : \E v : app' = Goto(c, pc, v)
        BY <1>2 DEF SubmitAppend, AppendLookup, AppendCompute, AppendDraw, AppendInsert, AppendDbError
    <3>2. app[c].pc # "idle" /\ app[c].trace \in Traces
        BY <1>2 DEF SubmitAppend, AppendLookup, AppendCompute, AppendDraw, AppendInsert, AppendDbError,
                    LedgerInv, LedgerTypeOK
    <3>3. app'[c].trace = app[c].trace /\ app'[c].pc # "idle"
        BY <3>1 DEF Goto, LedgerInv, LedgerTypeOK
    <3>4. \A d \in Clients \ {c} : app'[d] = app[d]
        BY <3>1 DEF Goto, LedgerInv, LedgerTypeOK
    <3>5. app'[c].pc = "ok" => app'[c].trace \in Rows'
      <4>1. CASE AppendLookup(c)
          BY <2>1, <3>3, <4>1 DEF AppendLookup, Goto, LedgerInv, LedgerTypeOK
      <4>2. CASE AppendInsert(c)
        <5>1. CASE app[c].trace \notin Rows
          <6>1. intents' = [intents EXCEPT ![app[c].trace] = NewRow(c)]
              BY <4>2, <5>1 DEF AppendInsert
          <6>2. intents'[app[c].trace].status = "pending"
              BY <3>2, <6>1 DEF NewRow, LedgerInv, LedgerTypeOK
          <6>3. QED
              BY <3>2, <3>3, <6>2 DEF Rows
        <5>2. CASE app[c].trace \in Rows
            BY <2>1, <3>3, <5>2
        <5>3. QED
            BY <5>1, <5>2
      <4>3. CASE AppendCompute(c) \/ AppendDraw(c) \/ AppendDbError(c)
          BY <4>3 DEF AppendCompute, AppendDraw, AppendDbError, Goto, LedgerInv, LedgerTypeOK
      <4>4. QED
          BY <1>2, <4>1, <4>2, <4>3 DEF SubmitAppend
    <3>6. QED
        BY <2>1, <3>2, <3>3, <3>4, <3>5 DEF SubInv
  <2>4. SubInv'
      BY <2>1, <2>2, <2>3 DEF SubInv
  <2>5. PlaceInv'
      BY <2>1, <2>2, PlaceFrame
  <2>6. RegInv' /\ VenInv'
      BY <1>2, <2>2, RegFrame, VenFrame DEF SubmitAppend, memVars, venueVars, procVars
  <2>7. QED
      BY <2>1, <2>4, <2>5, <2>6
<1>3. CASE SubmitAppended(c)
  <2>1. LedgerInv' /\ Rows' = Rows
    <3>1. LedgerInv'
        BY <1>3, RowsGrow DEF SubmitAppended, LedgerNext
    <3>2. QED
        BY <1>3, <3>1 DEF SubmitAppended, AppendReturn, Rows
  <2>2. PersistedRows' = PersistedRows /\ OrdersTable'
      BY <1>0, <1>3 DEF SubmitAppended, dbVars
  <2>3. app' = [app EXCEPT ![c] = Idle]
      BY <1>3 DEF SubmitAppended, AppendReturn
  <2>4. CASE app[c].pc = "ok" /\ SubGoto(c, "persist")
    <3>1. SubInv'
        BY <1>3, <2>1, <2>2, <2>3, <2>4
        DEF SubmitAppended, SubInv, SubType, SubPc, SubGoto, SubAcked, Idle, LedgerInv, LedgerTypeOK,
            Appended, AtVenue
    <3>2. \A d \in Clients : sub'[d].pc = "venue" => sub[d].pc = "venue" /\ sub'[d].trace = sub[d].trace
        BY <2>4 DEF SubGoto, SubAcked, SubInv
    <3>3. QED
        BY <1>3, <2>1, <2>2, <3>1, <3>2, RegFrame, VenFrame
        DEF SubmitAppended, PlaceInv, dbVars, memVars, venueVars
  <2>5. CASE SubReturn(c)
    <3>1. SubInv'
        BY <1>3, <2>1, <2>2, <2>3, <2>5
        DEF SubmitAppended, SubInv, SubType, SubPc, SubReturn, IdleSub, NullId, Idle, LedgerInv,
            LedgerTypeOK, Appended, AtVenue
    <3>2. \A d \in Clients : sub'[d].pc = "venue" => sub[d].pc = "venue" /\ sub'[d].trace = sub[d].trace
        BY <2>5 DEF SubReturn, IdleSub, SubInv
    <3>3. QED
        BY <1>3, <2>1, <2>2, <3>1, <3>2, RegFrame, VenFrame
        DEF SubmitAppended, PlaceInv, dbVars, memVars, venueVars
  <2>6. QED
      BY <1>3, <2>4, <2>5 DEF SubmitAppended
<1>4. CASE SubmitPersist(c)
  <2>1. LedgerInv' /\ Rows' = Rows
    <3>1. LedgerInv'
        BY <1>4, RowsGrow DEF SubmitPersist
    <3>2. QED
        BY <1>4, <3>1 DEF SubmitPersist, ledgerVars, Rows
  <2>2. sub[c].trace \in Rows /\ sub[c].pc = "persist" /\ UNCHANGED <<app, placed>>
      BY <1>4 DEF SubmitPersist, SubInv, Appended, ledgerVars
  <2>3. sub[c].trace \in Traces
      BY <2>2 DEF Rows
  <2>4. ASSUME KeyUnused(sub[c].trace), orders' = [orders EXCEPT ![sub[c].trace] = NewRecord]
        PROVE  OrdersTable' /\ PersistedRows' = PersistedRows \cup {sub[c].trace}
      BY <1>0, <2>3, <2>4 DEF OrdersTable, PersistedRows, NewRecord
  <2>5. OrdersTable' /\ PersistedRows \subseteq PersistedRows' /\ PersistedRows' \subseteq Rows'
    <3>1. PersistedRows \subseteq Rows
        BY DEF PlaceInv
    <3>2. QED
        BY <1>0, <1>4, <2>1, <2>2, <2>4, <3>1 DEF SubmitPersist
  <2>6. RegInv' /\ VenInv'
      BY <1>4, <2>5, RegFrame, VenFrame DEF SubmitPersist, venueVars
  <2>7. CASE SubReturn(c)
    <3>1. SubInv'
        BY <2>1, <2>2, <2>5, <2>7
        DEF SubInv, SubType, SubPc, SubReturn, IdleSub, NullId, Appended, AtVenue
    <3>2. \A d \in Clients : sub'[d].pc = "venue" => sub[d].pc = "venue" /\ sub'[d].trace = sub[d].trace
        BY <2>7 DEF SubReturn, IdleSub, SubInv
    <3>3. PlaceInv'
        BY <2>2, <2>5, <3>2 DEF PlaceInv
    <3>4. QED
        BY <2>1, <2>6, <3>1, <3>3
  <2>8. CASE /\ KeyUnused(sub[c].trace)
             /\ orders' = [orders EXCEPT ![sub[c].trace] = NewRecord]
             /\ SubGoto(c, "venue")
    <3>1. SubInv'
        BY <2>1, <2>2, <2>4, <2>5, <2>8
        DEF SubInv, SubType, SubPc, SubGoto, SubAcked, Appended, AtVenue
    <3>2. \A d \in Clients : d # c => sub'[d] = sub[d]
        BY <2>8 DEF SubGoto, SubAcked, SubInv
    <3>3. sub'[c].trace = sub[c].trace
        BY <2>8 DEF SubGoto, SubAcked, SubInv
    <3>4. placed[sub[c].trace] = 0
        BY <2>3, <2>8 DEF KeyUnused, PlaceInv
    <3>5. \A d \in Clients : d # c /\ sub[d].pc = "venue" => sub[d].trace # sub[c].trace
        BY <2>8 DEF KeyUnused, SubInv, AtVenue
    <3>6. PlaceInv'
        BY <2>2, <2>5, <3>2, <3>3, <3>4, <3>5 DEF PlaceInv
    <3>7. QED
        BY <2>1, <2>6, <3>1, <3>6
  <2>9. QED
      BY <1>4, <2>7, <2>8 DEF SubmitPersist
<1>5. CASE SubmitVenue(c)
  <2>1. LedgerInv' /\ Rows' = Rows /\ UNCHANGED app
    <3>1. LedgerInv'
        BY <1>5, RowsGrow DEF SubmitVenue
    <3>2. QED
        BY <1>5, <3>1 DEF SubmitVenue, ledgerVars, Rows
  <2>2. PersistedRows' = PersistedRows /\ OrdersTable'
      BY <1>0, <1>5 DEF SubmitVenue
  <2>3. RegInv'
      BY <1>5, <2>2, RegFrame DEF SubmitVenue, memVars
  <2>4. /\ sub[c].pc = "venue"
        /\ sub[c].trace \in PersistedRows
        /\ sub[c].trace \in Traces
        /\ placed[sub[c].trace] = 0
      BY <1>5 DEF SubmitVenue, SubInv, AtVenue, PlaceInv, PersistedRows
  <2>5. VenInv'
    <3>1. ASSUME NEW s \in Venue!ExStatus, exOrders' = Append(exOrders, [req |-> sub[c].trace, filled |-> 0, status |-> s])
          PROVE  VenInv'
      <4>1. [req |-> sub[c].trace, filled |-> 0, status |-> s] \in ExOrder
          BY <2>4 DEF ExOrder
      <4>2. QED
          BY <2>2, <2>4, <3>1, <4>1 DEF VenInv
    <3>2. CASE UNCHANGED venueVars
        BY <2>2, <3>2, VenFrame DEF venueVars
    <3>3. QED
        BY <1>5, <3>1, <3>2 DEF SubmitVenue, Venue!ExSubmit, Venue!ExStatus, Venue!ExLive
  <2>6. PICK ack \in {"open", "rejected", "failed"} : \E id \in Nat : SubAcked(c, "transition", ack, id)
    <3>1. Len(exOrders) \in Nat
        BY DEF VenInv
    <3>2. QED
        BY <1>5, <3>1 DEF SubmitVenue, NullId
  <2>7. SubInv'
      BY <2>1, <2>2, <2>4, <2>6
      DEF SubInv, SubType, SubPc, SubAcked, Appended, AtVenue
  <2>8. \A d \in Clients : sub'[d].pc = "venue" => d # c /\ sub'[d] = sub[d]
      BY <2>6 DEF SubAcked, SubInv
  <2>9. CASE placed' = [placed EXCEPT ![sub[c].trace] = @ + 1]
    <3>1. placed' \in [Traces -> Nat]
        BY <2>9, <2>4 DEF PlaceInv
    <3>2. \A t \in Traces : placed'[t] <= 1 /\ (placed'[t] > 0 => t \in PersistedRows)
        BY <2>4, <2>9 DEF PlaceInv
    <3>3. \A d \in Clients : sub'[d].pc = "venue" => placed'[sub'[d].trace] = 0
      <4>1. \A d \in Clients : d # c /\ sub[d].pc = "venue" => sub[d].trace # sub[c].trace
          BY <2>4 DEF PlaceInv
      <4>2. \A d \in Clients : sub[d].pc = "venue" => placed[sub[d].trace] = 0 /\ sub[d].trace \in Traces
          BY DEF PlaceInv, SubInv, AtVenue, PersistedRows
      <4>3. QED
          BY <2>8, <2>9, <4>1, <4>2 DEF PlaceInv
    <3>4. PlaceInv'
        BY <2>1, <2>2, <2>8, <3>1, <3>2, <3>3 DEF PlaceInv
    <3>5. QED
        BY <2>1, <2>3, <2>5, <2>7, <3>4
  <2>10. CASE UNCHANGED placed
    <3>1. PlaceInv'
        BY <2>1, <2>2, <2>8, <2>10 DEF PlaceInv
    <3>2. QED
        BY <2>1, <2>3, <2>5, <2>7, <3>1
  <2>11. QED
      BY <1>5, <2>9, <2>10 DEF SubmitVenue
<1>6. CASE SubmitTransition(c)
  <2>1. LedgerInv' /\ Rows' = Rows /\ UNCHANGED app
    <3>1. LedgerInv'
        BY <1>6, RowsGrow DEF SubmitTransition
    <3>2. QED
        BY <1>6, <3>1 DEF SubmitTransition, ledgerVars, Rows
  <2>2. PersistedRows' = PersistedRows /\ OrdersTable'
    <3>1. sub[c].trace \in PersistedRows /\ sub[c].ack # "none"
        BY <1>6 DEF SubmitTransition, SubInv, AtVenue
    <3>2. QED
        BY <1>0, <1>6, <3>1, RowWrite DEF SubmitTransition
  <2>3. SubGoto(c, "intent") /\ sub[c].pc = "transition"
      BY <1>6 DEF SubmitTransition
  <2>4. SubInv'
      BY <2>1, <2>2, <2>3
      DEF SubInv, SubType, SubPc, SubGoto, SubAcked, Appended, AtVenue
  <2>5. \A d \in Clients : sub'[d].pc = "venue" => d # c /\ sub'[d] = sub[d]
      BY <2>3 DEF SubGoto, SubAcked, SubInv
  <2>6. PlaceInv'
      BY <1>6, <2>1, <2>2, <2>5 DEF PlaceInv, SubmitTransition
  <2>7. RegInv' /\ VenInv'
      BY <1>6, <2>2, RegFrame, VenFrame DEF SubmitTransition, venueVars
  <2>8. QED
      BY <2>1, <2>4, <2>6, <2>7
<1>7. CASE SubmitIntent(c)
  <2>1. LedgerInv' /\ Rows \subseteq Rows' /\ UNCHANGED app
    <3>1. [LedgerNext]_ledgerVars
        BY <1>7, IntentWritten DEF SubmitIntent, UpdateStatuses
    <3>2. QED
        BY <1>7, <3>1, RowsGrow DEF SubmitIntent
  <2>2. PersistedRows' = PersistedRows /\ OrdersTable'
      BY <1>0, <1>7 DEF SubmitIntent, dbVars
  <2>3. (SubReturn(c) \/ SubGoto(c, "register")) /\ sub[c].pc = "intent"
      BY <1>7 DEF SubmitIntent
  <2>4. SubInv'
      BY <2>1, <2>2, <2>3
      DEF SubInv, SubType, SubPc, SubGoto, SubAcked, SubReturn, IdleSub, NullId, Appended, AtVenue
  <2>5. \A d \in Clients : sub'[d].pc = "venue" => d # c /\ sub'[d] = sub[d]
      BY <2>3 DEF SubGoto, SubAcked, SubReturn, IdleSub, SubInv
  <2>6. PlaceInv'
      BY <1>7, <2>1, <2>2, <2>5 DEF PlaceInv, SubmitIntent, dbVars
  <2>7. RegInv' /\ VenInv'
      BY <1>7, <2>2, RegFrame, VenFrame DEF SubmitIntent, venueVars, memVars
  <2>8. QED
      BY <2>1, <2>4, <2>6, <2>7
<1>8. CASE SubmitRegister(c)
  <2>1. LedgerInv' /\ Rows' = Rows /\ UNCHANGED app
    <3>1. LedgerInv'
        BY <1>8, RowsGrow DEF SubmitRegister
    <3>2. QED
        BY <1>8, <3>1 DEF SubmitRegister, ledgerVars, Rows
  <2>2. PersistedRows' = PersistedRows /\ OrdersTable'
      BY <1>0, <1>8 DEF SubmitRegister, dbVars
  <2>3. SubReturn(c) /\ sub[c].pc = "register"
      BY <1>8 DEF SubmitRegister
  <2>4. SubInv'
      BY <2>1, <2>2, <2>3
      DEF SubInv, SubType, SubPc, SubReturn, IdleSub, NullId, Appended, AtVenue
  <2>5. \A d \in Clients : sub'[d].pc = "venue" => d # c /\ sub'[d] = sub[d]
      BY <2>3 DEF SubReturn, IdleSub, SubInv
  <2>6. PlaceInv'
      BY <1>8, <2>1, <2>2, <2>5 DEF PlaceInv, SubmitRegister, dbVars
  <2>7. RegInv'
    <3>1. openOrders' \subseteq PersistedRows'
        BY <1>8, <2>2, <2>3 DEF SubmitRegister, RegInv, SubInv, AtVenue
    <3>2. QED
        BY <1>8, <2>2, <3>1 DEF SubmitRegister, RegInv, TrInv
  <2>8. QED
      BY <1>8, <2>1, <2>2, <2>4, <2>6, <2>7, VenFrame DEF SubmitRegister, venueVars
<1>9. QED
    BY <1>1, <1>2, <1>3, <1>4, <1>5, <1>6, <1>7, <1>8 DEF SubmitOrder

-----------------------------------------------------------------------------
\* The other goroutines

\* A step that moves no submission and adds no row to execution.orders.
LEMMA BackgroundStep ==
    ASSUME ExecInv, UNCHANGED <<sub, app, placed>>, LedgerInv', Rows \subseteq Rows',
           OrdersTable', PersistedRows' = PersistedRows, RegInv', VenInv'
    PROVE  ExecInv'
<1>1. SubInv' /\ PlaceInv'
    BY SubFrame, PlaceFrame DEF ExecInv
<1>2. QED
    BY <1>1 DEF ExecInv

\* A step that moves no submission and leaves both tables alone.
LEMMA QuietStep ==
    ASSUME ExecInv, UNCHANGED <<sub, ledgerVars, orders, placed>>,
           RegInv', VenInv'
    PROVE  ExecInv'
<1>1. LedgerInv'
    BY RowsGrow DEF ExecInv
<1>2. UNCHANGED app /\ Rows' = Rows /\ PersistedRows' = PersistedRows /\ OrdersTable'
    BY DEF ledgerVars, Rows, PersistedRows, ExecInv, PlaceInv, OrdersTable
<1>3. QED
    BY <1>1, <1>2, BackgroundStep

\* A step that may update the status of an intent and leaves execution.orders.
LEMMA IntentStep ==
    ASSUME ExecInv, UNCHANGED <<sub, app, nextVersion, orders, placed>>,
           NEW t, NEW s \in UpdateStatuses, WriteIntent(t, s) \/ UNCHANGED intents,
           RegInv', VenInv'
    PROVE  ExecInv'
<1>1. LedgerInv' /\ Rows \subseteq Rows'
    BY IntentWritten, RowsGrow DEF ExecInv
<1>2. PersistedRows' = PersistedRows /\ OrdersTable'
    BY DEF PersistedRows, ExecInv, PlaceInv, OrdersTable
<1>3. QED
    BY <1>1, <1>2, BackgroundStep

\* A transition of an order that has its row may be started.
LEMMA TransitionStarts ==
    ASSUME TrInv, NEW a \in Shared, NEW t \in PersistedRows, NEW s, s # "none",
           Transition(a, t, s), PersistedRows' = PersistedRows
    PROVE  TrInv'
    BY DEF TrInv, Transition

\* A transition that is over leaves its goroutine without one.
LEMMA TransitionEnds ==
    ASSUME TrInv, NEW a \in Shared, Transitioned(a), PersistedRows' = PersistedRows
    PROVE  TrInv'
    BY DEF TrInv, Transitioned, IdleTr

\* transitionOrder writes only rows that exist, whatever has happened to the
\* record since its caller looked.
LEMMA TransStep ==
    ASSUME ExecInv, NEW a \in Shared, transitionOrder(a)
    PROVE  ExecInv'
<1> USE DEF ExecInv
<1>1. CASE TransCheck(a)
  <2>1. PersistedRows' = PersistedRows
      BY <1>1 DEF TransCheck, dbVars, PersistedRows
  <2>2. TrInv'
      BY <1>1, <2>1 DEF TransCheck, TransGoto, RegInv, TrInv
  <2>3. RegInv' /\ VenInv'
      BY <1>1, <2>1, <2>2, VenFrame DEF TransCheck, RegInv, memVars, venueVars
  <2>4. QED
      BY <1>1, <2>3, QuietStep DEF TransCheck, dbVars
<1>2. CASE TransSet(a)
  <2>1. PersistedRows' = PersistedRows
      BY <1>2 DEF TransSet, dbVars, PersistedRows
  <2>2. TrInv'
      BY <1>2, <2>1 DEF TransSet, TransGoto, RegInv, TrInv
  <2>3. RegInv' /\ VenInv'
      BY <1>2, <2>1, <2>2, VenFrame DEF TransSet, RegInv, venueVars
  <2>4. QED
      BY <1>2, <2>3, QuietStep DEF TransSet, dbVars
<1>3. CASE TransWrite(a)
  <2>1. OrdersTable' /\ PersistedRows' = PersistedRows
    <3>1. tr[a].trace \in PersistedRows /\ tr[a].row.status # "none"
        BY <1>3 DEF TransWrite, RegInv, TrInv
    <3>2. QED
        BY <1>3, <3>1, RowWrite DEF TransWrite, PlaceInv
  <2>2. TrInv'
      BY <1>3, <2>1 DEF TransWrite, TransGoto, RegInv, TrInv
  <2>3. RegInv' /\ VenInv'
      BY <1>3, <2>1, <2>2, VenFrame DEF TransWrite, RegInv, memVars, venueVars
  <2>4. LedgerInv' /\ Rows' = Rows /\ UNCHANGED app
    <3>1. LedgerInv'
        BY <1>3, RowsGrow DEF TransWrite
    <3>2. QED
        BY <1>3, <3>1 DEF TransWrite, ledgerVars, Rows
  <2>5. QED
      BY <1>3, <2>1, <2>3, <2>4, BackgroundStep DEF TransWrite
<1>4. QED
    BY <1>1, <1>2, <1>3 DEF transitionOrder

\* CancelOrder works on an order that was open when it looked.
LEMMA CancelStep ==
    ASSUME ExecInv, CancelOrder
    PROVE  ExecInv'
<1> USE DEF ExecInv
<1>1. ASSUME NEW t \in Traces, CancelLookup(t)
      PROVE  ExecInv'
  <2>1. PersistedRows' = PersistedRows
      BY <1>1 DEF CancelLookup, dbVars, PersistedRows
  <2>2. RegInv' /\ VenInv'
      BY <1>1, <2>1, VenFrame DEF CancelLookup, RegInv, TrInv, memVars, venueVars
  <2>3. QED
      BY <1>1, <2>2, QuietStep DEF CancelLookup, dbVars
<1>2. CASE CancelVenue
  <2>1. PersistedRows' = PersistedRows
      BY <1>2 DEF CancelVenue, dbVars, PersistedRows
  <2>2. canc.trace \in PersistedRows
      BY <1>2 DEF CancelVenue, RegInv
  <2>3. TrInv'
    <3>1. CASE Transition("cancel", canc.trace, "cancelled")
        BY <2>1, <2>2, <3>1, TransitionStarts DEF RegInv, Shared, Cancellers
    <3>2. CASE UNCHANGED tr
        BY <2>1, <3>2 DEF RegInv, TrInv
    <3>3. QED
        BY <1>2, <3>1, <3>2 DEF CancelVenue
  <2>4. RegInv'
      BY <1>2, <2>1, <2>2, <2>3 DEF CancelVenue, IdleCanc, RegInv, memVars
  <2>5. VenInv'
      BY <1>2, <2>1, VenFrame, VenueStep DEF CancelVenue, venueVars
  <2>6. QED
      BY <1>2, <2>4, <2>5, QuietStep DEF CancelVenue, dbVars
<1>3. CASE CancelUnregister
  <2>1. PersistedRows' = PersistedRows
      BY <1>3 DEF CancelUnregister, dbVars, PersistedRows
  <2>2. TrInv'
      BY <1>3, <2>1, TransitionEnds DEF CancelUnregister, RegInv, Shared, Cancellers
  <2>3. RegInv' /\ VenInv'
      BY <1>3, <2>1, <2>2, VenFrame DEF CancelUnregister, Unregister, IdleCanc, RegInv, venueVars
  <2>4. QED
      BY <1>3, <2>3, QuietStep DEF CancelUnregister, dbVars
<1>4. CASE CancelIntent
  <2>1. PersistedRows' = PersistedRows
      BY <1>4 DEF CancelIntent, dbVars, PersistedRows
  <2>2. RegInv' /\ VenInv'
      BY <1>4, <2>1, VenFrame DEF CancelIntent, IdleCanc, RegInv, TrInv, memVars, venueVars
  <2>3. QED
      BY <1>4, <2>2, IntentStep DEF CancelIntent, UpdateStatuses, dbVars
<1>5. QED
    BY <1>1, <1>2, <1>3, <1>4 DEF CancelOrder

\* CancelAll works on the orders that are open under the lock.
LEMMA CancelAllStep ==
    ASSUME ExecInv, CancelAll
    PROVE  ExecInv'
<1> USE DEF ExecInv
<1>1. CASE CaVenue
  <2>1. PersistedRows' = PersistedRows
      BY <1>1 DEF CaVenue, dbVars, PersistedRows
  <2>2. RegInv'
      BY <1>1, <2>1, RegFrame DEF CaVenue, memVars
  <2>3. VenInv'
      BY <1>1, <2>1, VenFrame, VenueStep DEF CaVenue, venueVars
  <2>4. QED
      BY <1>1, <2>2, <2>3, QuietStep DEF CaVenue, dbVars
<1>2. CASE CaLock \/ CaUnlock
  <2>1. PersistedRows' = PersistedRows
      BY <1>2 DEF CaLock, CaUnlock, dbVars, PersistedRows
  <2>2. RegInv' /\ VenInv'
      BY <1>2, <2>1, RegFrame, VenFrame DEF CaLock, CaUnlock, memVars, venueVars
  <2>3. QED
      BY <1>2, <2>2, QuietStep DEF CaLock, CaUnlock, dbVars
<1>3. ASSUME NEW t \in Traces, CaLoop(t)
      PROVE  ExecInv'
  <2>1. PersistedRows' = PersistedRows
      BY <1>3 DEF CaLoop, dbVars, PersistedRows
  <2>2. TrInv'
      BY <1>3, <2>1, TransitionStarts DEF CaLoop, RegInv, Shared, Cancellers
  <2>3. RegInv' /\ VenInv'
      BY <1>3, <2>1, <2>2, VenFrame DEF CaLoop, RegInv, memVars, venueVars
  <2>4. QED
      BY <1>3, <2>3, QuietStep DEF CaLoop, dbVars
<1>4. CASE CaIntent
  <2>1. PersistedRows' = PersistedRows
      BY <1>4 DEF CaIntent, dbVars, PersistedRows
  <2>2. TrInv'
      BY <1>4, <2>1, TransitionEnds DEF CaIntent, RegInv, Shared, Cancellers
  <2>3. RegInv' /\ VenInv'
      BY <1>4, <2>1, <2>2, VenFrame DEF CaIntent, Unregister, RegInv, venueVars
  <2>4. WriteIntent(ca.trace, "cancelled") \/ UNCHANGED intents
      BY <1>4 DEF CaIntent, CaWriteIntent
  <2>5. QED
      BY <1>4, <2>3, <2>4, IntentStep DEF CaIntent, UpdateStatuses, dbVars
<1>5. QED
    BY <1>1, <1>2, <1>3, <1>4 DEF CancelAll

\* The fill poller works on the open order it finds, and moves no row of its own.
LEMMA PollStep ==
    ASSUME ExecInv, Poll
    PROVE  ExecInv'
<1> USE DEF ExecInv
<1>1. CASE PollStart \/ PollFetch \/ PollError \/ PollDone
  <2>1. PersistedRows' = PersistedRows
      BY <1>1 DEF PollStart, PollFetch, PollError, PollDone, dbVars, PersistedRows
  <2>2. RegInv'
      BY <1>1, <2>1
      DEF PollStart, PollFetch, PollError, PollDone, IdlePoll, RegInv, TrInv, memVars
  <2>3. VenInv'
      BY <1>1, <2>1, VenFrame DEF PollStart, PollFetch, PollError, PollDone, venueVars
  <2>4. QED
      BY <1>1, <2>2, <2>3, QuietStep DEF PollStart, PollFetch, PollError, PollDone, dbVars
<1>2. CASE PollLookup
  <2>1. PersistedRows' = PersistedRows
      BY <1>2 DEF PollLookup, dbVars, PersistedRows
  <2>2. RegInv' /\ VenInv'
      BY <1>2, <2>1, VenFrame
      DEF PollLookup, PollGoto, NextFill, RegInv, TrInv, memVars, venueVars
  <2>3. QED
      BY <1>2, <2>2, QuietStep DEF PollLookup, dbVars
<1>3. CASE PollPersist
  <2>1. PersistedRows' = PersistedRows
      BY <1>3 DEF PollPersist, PersistedRows
  <2>2. poll.trace \in PersistedRows
      BY <1>3 DEF PollPersist, RegInv
  <2>3. RegInv' /\ VenInv'
      BY <1>3, <2>1, <2>2, VenFrame
      DEF PollPersist, PollGoto, NextFill, RegInv, TrInv, memVars, venueVars
  <2>4. QED
      BY <1>3, <2>3, QuietStep DEF PollPersist
<1>4. CASE PollApply
  <2>1. PersistedRows' = PersistedRows
      BY <1>4 DEF PollApply, dbVars, PersistedRows
  <2>2. TrInv'
    <3>1. poll.trace \in PersistedRows
        BY <1>4 DEF PollApply, RegInv
    <3>2. PICK s \in {"filled", "partially_filled"} : Transition("poll", poll.trace, s)
        BY <1>4 DEF PollApply
    <3>3. QED
        BY <2>1, <3>1, <3>2, TransitionStarts DEF RegInv, Shared
  <2>3. RegInv' /\ VenInv'
      BY <1>4, <2>1, <2>2, VenFrame DEF PollApply, PollGoto, RegInv, venueVars
  <2>4. QED
      BY <1>4, <2>3, QuietStep DEF PollApply, dbVars
<1>5. CASE PollUnregister
  <2>1. PersistedRows' = PersistedRows
      BY <1>5 DEF PollUnregister, dbVars, PersistedRows
  <2>2. TrInv'
      BY <1>5, <2>1, TransitionEnds DEF PollUnregister, RegInv, Shared
  <2>3. RegInv' /\ VenInv'
      BY <1>5, <2>1, <2>2, VenFrame DEF PollUnregister, Unregister, PollGoto, RegInv, venueVars
  <2>4. QED
      BY <1>5, <2>3, QuietStep DEF PollUnregister, dbVars
<1>6. CASE PollIntent
  <2>1. PersistedRows' = PersistedRows
      BY <1>6 DEF PollIntent, dbVars, PersistedRows
  <2>2. RegInv' /\ VenInv'
      BY <1>6, <2>1, VenFrame DEF PollIntent, PollGoto, RegInv, TrInv, memVars, venueVars
  <2>3. QED
      BY <1>6, <2>2, IntentStep DEF PollIntent, UpdateStatuses, dbVars
<1>7. CASE PollReport
  <2>1. PersistedRows' = PersistedRows
      BY <1>7 DEF PollReport, PersistedRows
  <2>2. RegInv' /\ VenInv'
      BY <1>7, <2>1, VenFrame DEF PollReport, NextFill, RegInv, TrInv, memVars, venueVars
  <2>3. QED
      BY <1>7, <2>2, QuietStep DEF PollReport
<1>8. QED
    BY <1>1, <1>2, <1>3, <1>4, <1>5, <1>6, <1>7 DEF Poll

\* The mode, the venue's fills, a crash and a recovery.  A crash forgets every
\* call in progress but no row, so a recovered engine is no closer to placing a
\* persisted order a second time.
LEMMA ProcessStep ==
    ASSUME ExecInv,
           (\E m \in Modes : SetSystemMode(m)) \/ ExchangeStep \/ Crash \/ RecoverFull
    PROVE  ExecInv'
<1> USE DEF ExecInv
<1>1. CASE \E m \in Modes : SetSystemMode(m)
  <2>1. PersistedRows' = PersistedRows
      BY <1>1 DEF SetSystemMode, dbVars, PersistedRows
  <2>2. RegInv' /\ VenInv'
      BY <1>1, <2>1, RegFrame, VenFrame DEF SetSystemMode, procVars, memVars, venueVars
  <2>3. QED
      BY <1>1, <2>2, QuietStep DEF SetSystemMode, procVars, dbVars
<1>2. CASE ExchangeStep
  <2>1. PersistedRows' = PersistedRows
      BY <1>2 DEF ExchangeStep, dbVars, PersistedRows
  <2>2. RegInv'
      BY <1>2, <2>1, RegFrame DEF ExchangeStep, procVars, memVars
  <2>3. VenInv'
      BY <1>2, <2>1, VenueStep DEF ExchangeStep
  <2>4. QED
      BY <1>2, <2>2, <2>3, QuietStep DEF ExchangeStep, procVars, dbVars
<1>3. CASE Crash
  <2>1. /\ PersistedRows' = PersistedRows
        /\ Rows' = Rows
        /\ OrdersTable'
        /\ UNCHANGED <<placed, intents, nextVersion>>
      BY <1>3 DEF Crash, dbVars, PersistedRows, Rows, PlaceInv, OrdersTable
  <2>2. /\ app' = [c \in Clients |-> Idle]
        /\ sub' = [c \in Clients |-> IdleSub]
        /\ tr' = [a \in Shared |-> IdleTr]
      BY <1>3 DEF Crash
  <2>3. LedgerInv'
    <3>1. LedgerTypeOK'
        BY <2>1, <2>2 DEF LedgerInv, LedgerTypeOK, Idle
    <3>2. VersionOrder'
        BY <2>1, <2>2 DEF LedgerInv, VersionOrder, Idle
    <3>3. QED
        BY <3>1, <3>2 DEF LedgerInv
  <2>4. SubInv'
      BY <2>2 DEF SubInv, SubType, SubPc, IdleSub, Idle, NullId, Appended, AtVenue
  <2>5. PlaceInv'
      BY <2>1, <2>2 DEF PlaceInv, IdleSub
  <2>6. RegInv' /\ VenInv'
    <3>1. TrInv'
        BY <2>2 DEF TrInv, IdleTr
    <3>2. openOrders' = {} /\ canc'.pc = "idle" /\ poll'.pc = "idle" /\ exOrders' = << >>
        BY <1>3 DEF Crash, IdleCanc, IdlePoll
    <3>3. QED
        BY <3>1, <3>2 DEF RegInv, VenInv
  <2>7. QED
      BY <2>3, <2>4, <2>5, <2>6
<1>4. CASE RecoverFull
  <2>1. PersistedRows' = PersistedRows
      BY <1>4 DEF RecoverFull, dbVars, PersistedRows
  <2>2. LoadedOrders \subseteq PersistedRows
      BY DEF LoadedOrders, PersistedRows, OrderLive
  <2>3. RegInv' /\ VenInv'
      BY <1>4, <2>1, <2>2, VenFrame DEF RecoverFull, RegInv, TrInv, procVars, venueVars
  <2>4. QED
      BY <1>4, <2>3, QuietStep DEF RecoverFull, procVars, dbVars
<1>5. QED
    BY <1>1, <1>2, <1>3, <1>4

\* The invariant holds when the engine starts on empty tables.
LEMMA ExecInvInit == Init => ExecInv
<1> SUFFICES ASSUME Init PROVE ExecInv
    OBVIOUS
<1>1. LedgerInv
    BY LedgerInvInit DEF Init
<1>2. PersistedRows = {} /\ OrdersTable
    BY DEF Init, PersistedRows, OrdersTable, NoRecord
<1>3. SubInv
    BY DEF Init, LedgerInit, SubInv, SubType, SubPc, IdleSub, Idle, NullId, Appended, AtVenue
<1>4. PlaceInv
    BY <1>2 DEF Init, PlaceInv, IdleSub
<1>5. RegInv
  <2>1. TrInv
      BY DEF Init, TrInv, IdleTr
  <2>2. QED
      BY <2>1 DEF Init, RegInv, IdleCanc, IdlePoll
<1>6. VenInv
    BY DEF Init, Venue!ExInit, VenInv
<1>7. QED
    BY <1>1, <1>3, <1>4, <1>5, <1>6 DEF ExecInv

\* Every step of the engine keeps the invariant.
LEMMA ExecInvStep == ExecInv /\ [Next]_vars => ExecInv'
<1> SUFFICES ASSUME ExecInv, [Next]_vars PROVE ExecInv'
    OBVIOUS
<1>1. CASE UNCHANGED vars
  <2>1. UNCHANGED <<sub, ledgerVars, orders, placed, canc, poll, tr, openOrders, exOrders>>
      BY <1>1 DEF vars, procVars, dbVars, memVars, venueVars
  <2>2. PersistedRows' = PersistedRows
      BY <2>1 DEF PersistedRows
  <2>3. QED
      BY <2>1, <2>2, RegFrame, VenFrame, QuietStep DEF ExecInv
<1>2. QED
    BY <1>1, SubmitStep, TransStep, CancelStep, CancelAllStep, PollStep, ProcessStep DEF Next

\* Write-ahead: whatever crashes, fails or runs concurrently, an order at the
\* venue has its row in execution.orders and that row its intent in the ledger.
THEOREM EngineWritesAhead == Spec => []WriteAhead
<1>1. ExecInv => WriteAhead
  <2>1. ASSUME ExecInv PROVE WriteAhead
      BY <2>1 DEF ExecInv, PlaceInv, VenInv, WriteAhead, Venue!ExIds
  <2>2. QED
      BY <2>1
<1>2. QED
    BY <1>1, ExecInvInit, ExecInvStep, PTL DEF Spec

\* An approval reaches the venue at most once, for any number of submitters,
\* repetitions and crashes (the unique idempotency_key of execution.orders).
THEOREM PlacedOnce == Spec => []AtMostOnePlacement
<1>1. ExecInv => AtMostOnePlacement
    BY DEF ExecInv, PlaceInv, AtMostOnePlacement
<1>2. QED
    BY <1>1, ExecInvInit, ExecInvStep, PTL DEF Spec

\* The ledger keeps its type and its unique versions inside the engine, where
\* crashes cut its calls short and UpdateStatus runs from every goroutine.
THEOREM EngineKeepsLedger == Spec => [](LedgerTypeOK /\ VersionOrder)
<1>1. ExecInv => LedgerTypeOK /\ VersionOrder
    BY DEF ExecInv, LedgerInv
<1>2. QED
    BY <1>1, ExecInvInit, ExecInvStep, PTL DEF Spec
==============================================================================
