---------------------------- MODULE IntentLedger ----------------------------
(***************************************************************************)
(* internal/ledger: the append-only order intent ledger, backed by the     *)
(* table execution.order_intents.                                          *)
(*                                                                         *)
(* Ledger.Append is a sequence of separate SQL statements (look the trace  *)
(* up, sum the outstanding exposure, insert), run without a transaction by *)
(* every goroutine that submits an order; each statement is one step here, *)
(* so the steps of several callers interleave.  The attributes of an       *)
(* intent (market and side, quantity, notional) never change after it is   *)
(* written and are functions of its trace id.                              *)
(***************************************************************************)
EXTENDS Integers, FiniteSets, FiniteSetsExt, SequencesExt

CONSTANTS Traces,       \* trace ids of the approved orders
          NoTrace,      \* the trace of an idle caller
          Clients,      \* goroutines that call Append
          Keys,         \* MarketSideKeys
          Key,          \* trace -> its market and side
          Quantity,     \* trace -> contracts
          Notional,     \* trace -> notional
          MaxPosition,  \* ExposureLimits.MaxPositionNotionalMicros (0: none)
          MaxTotal,     \* ExposureLimits.MaxTotalExposureMicros (0: none)
          DbFaults,     \* whether a SQL statement may fail
          MaxVersion    \* bound: versions the sequence hands out

ASSUME LedgerAssumption ==
    /\ IsFiniteSet(Traces) /\ Traces # {}
    /\ IsFiniteSet(Clients) /\ Clients # {}
    /\ Key \in [Traces -> Keys]
    /\ Quantity \in [Traces -> Nat]
    /\ Notional \in [Traces -> Nat]
    /\ MaxPosition \in Nat
    /\ MaxTotal \in Nat
    /\ DbFaults \in BOOLEAN
    /\ MaxVersion \in Nat
    /\ NoTrace \notin Traces

VARIABLES intents,      \* execution.order_intents: trace -> status, version
          nextVersion,  \* the BIGSERIAL sequence behind the version column
          app           \* client -> its Append call and the version it has drawn

ledgerVars == <<intents, nextVersion, app>>

-----------------------------------------------------------------------------
\* Statuses

IntentTerminal == {"filled", "cancelled", "rejected", "expired"}
IntentOutstanding == {"pending", "open"}
IntentStatus == {"none"} \cup IntentOutstanding \cup IntentTerminal

Rows == {t \in Traces : intents[t].status # "none"}
Outstanding == {t \in Traces : intents[t].status \in IntentOutstanding}

-----------------------------------------------------------------------------
\* Exposure (internal/ledger/exposure.go)

NewExposureState == [out |-> [k \in {} |-> 0], total |-> 0]

\* A Go map read: the zero entry when the key is missing.
Entry(e, k) ==
    IF k \in DOMAIN e.out THEN e.out[k] ELSE [quantity |-> 0, notional |-> 0]

\* Mutant: the check forgets to add the new intent.
CheckCurrentOnly(e, t) ==
    /\ MaxPosition > 0 => Entry(e, Key[t]).notional <= MaxPosition
    /\ MaxTotal > 0 => e.total <= MaxTotal

CheckInvariant(e, t) ==
    /\ MaxPosition > 0 => Entry(e, Key[t]).notional + Notional[t] <= MaxPosition
    /\ MaxTotal > 0 => e.total + Notional[t] <= MaxTotal

SetEntry(e, k, entry) ==
    [e EXCEPT !.out = [j \in DOMAIN e.out \cup {k} |->
                          IF j = k THEN entry ELSE e.out[j]]]

\* Mutant: only pending intents count on replay.
ApplyPendingOnly(e, t) ==
    IF intents[t].status # "pending" THEN e
    ELSE LET old == Entry(e, Key[t])
         IN [SetEntry(e, Key[t], [quantity |-> old.quantity + Quantity[t],
                                  notional |-> old.notional + Notional[t]])
                EXCEPT !.total = @ + Notional[t]]

ApplyIntent(e, t) ==
    IF intents[t].status \notin IntentOutstanding THEN e
    ELSE LET old == Entry(e, Key[t])
         IN [SetEntry(e, Key[t], [quantity |-> old.quantity + Quantity[t],
                                  notional |-> old.notional + Notional[t]])
                EXCEPT !.total = @ + Notional[t]]

\* Mutant: the whole entry is dropped with its first intent.
RemoveWholeEntry(e, t) ==
    IF Key[t] \notin DOMAIN e.out THEN e
    ELSE [out   |-> [k \in DOMAIN e.out \ {Key[t]} |-> e.out[k]],
          total |-> e.total - Notional[t]]

RemoveIntent(e, t) ==
    IF Key[t] \notin DOMAIN e.out THEN e
    ELSE LET left == [quantity |-> e.out[Key[t]].quantity - Quantity[t],
                      notional |-> e.out[Key[t]].notional - Notional[t]]
             rest == IF left.quantity <= 0
                     THEN [e EXCEPT !.out = [k \in DOMAIN e.out \ {Key[t]} |-> e.out[k]]]
                     ELSE SetEntry(e, Key[t], left)
         IN [rest EXCEPT !.total = @ - Notional[t]]

\* The GROUP BY query over the outstanding rows.
ComputeExposure ==
    LET At(k) == {t \in Outstanding : Key[t] = k}
    IN [out   |-> [k \in {Key[t] : t \in Outstanding} |->
                      [quantity |-> SumFunction(Restrict(Quantity, At(k))),
                       notional |-> SumFunction(Restrict(Notional, At(k)))]],
        total |-> SumFunction(Restrict(Notional, Outstanding))]

\* ORDER BY version.
InVersionOrder(rows) ==
    CHOOSE s \in SetToSeqs(rows) :
        \A i, j \in DOMAIN s : i < j => intents[s[i]].version < intents[s[j]].version

ReplayAll == InVersionOrder(Rows)

ReplayFromIntents(rows) == FoldLeft(ApplyIntent, NewExposureState, rows)

-----------------------------------------------------------------------------
\* Append

Idle == [pc |-> "idle", trace |-> NoTrace, version |-> 0]

\* The call of c moves to pc, holding version v.
Goto(c, pc, v) == [app EXCEPT ![c] = [pc |-> pc, trace |-> app[c].trace, version |-> v]]

Validate(t) == Quantity[t] > 0 /\ Notional[t] > 0

AppendBegin(c, t) ==
    /\ app[c].pc = "idle"
    /\ app' = [app EXCEPT ![c] = [pc      |-> IF Validate(t) THEN "lookup" ELSE "err",
                                  trace   |-> t,
                                  version |-> 0]]
    /\ UNCHANGED <<intents, nextVersion>>

\* GetByTraceID: an existing record is returned as it is.
AppendLookup(c) ==
    /\ app[c].pc = "lookup"
    /\ app' = Goto(c, IF app[c].trace \in Rows THEN "ok" ELSE "compute", 0)
    /\ UNCHANGED <<intents, nextVersion>>

AppendCompute(c) ==
    /\ app[c].pc = "compute"
    /\ app' = Goto(c, IF CheckInvariant(ComputeExposure, app[c].trace)
                       THEN "draw" ELSE "err", 0)
    /\ UNCHANGED <<intents, nextVersion>>

\* Mutant: the version is read from the table (SELECT MAX(version) + 1).
DrawMaxPlusOne == Max({0} \cup {intents[t].version : t \in Rows}) + 1

\* The INSERT, first half: nextval() on the sequence behind the version column,
\* which PostgreSQL takes at once and never gives back.
DrawVersion == nextVersion

AppendDraw(c) ==
    /\ app[c].pc = "draw"
    /\ nextVersion <= MaxVersion
    /\ app' = Goto(c, "insert", DrawVersion)
    /\ nextVersion' = nextVersion + 1
    /\ UNCHANGED intents

NewRow(c) == [status |-> "pending", version |-> app[c].version]

\* Mutant: ON CONFLICT (trace_id) DO UPDATE.
UpsertRow(c) ==
    /\ app[c].pc = "insert"
    /\ intents' = [intents EXCEPT ![app[c].trace] = NewRow(c)]
    /\ app' = Goto(c, "ok", 0)
    /\ UNCHANGED nextVersion

\* The INSERT, second half: the row becomes visible, or the unique index on
\* trace_id refuses it.
AppendInsert(c) ==
    /\ app[c].pc = "insert"
    /\ \/ /\ app[c].trace \notin Rows
          /\ intents' = [intents EXCEPT ![app[c].trace] = NewRow(c)]
          /\ app' = Goto(c, "ok", 0)
       \/ /\ app[c].trace \in Rows
          /\ app' = Goto(c, "err", 0)
          /\ UNCHANGED intents
    /\ UNCHANGED nextVersion

\* A statement fails, or takes effect but its answer is lost.
AppendDbError(c) ==
    /\ DbFaults
    /\ app[c].pc \in {"lookup", "compute", "draw", "insert"}
    /\ app' = Goto(c, "err", 0)
    /\ \/ UNCHANGED intents
       \/ /\ app[c].pc = "insert"
          /\ app[c].trace \notin Rows
          /\ intents' = [intents EXCEPT ![app[c].trace] = NewRow(c)]
    /\ UNCHANGED nextVersion

\* The caller takes Append's result.
AppendReturn(c) ==
    /\ app[c].pc \in {"ok", "err"}
    /\ app' = [app EXCEPT ![c] = Idle]
    /\ UNCHANGED <<intents, nextVersion>>

-----------------------------------------------------------------------------
\* UpdateStatus

\* Mutant: the WHERE clause loses its guard on terminal rows.
UpdateAnyRow(t, s) == [intents EXCEPT ![t].status = s]

\* UPDATE ... WHERE NOT (status is terminal): the row, or nothing.
UpdatedIntents(t, s) ==
    IF intents[t].status \in IntentOutstanding
    THEN [intents EXCEPT ![t].status = s]
    ELSE intents

\* The statuses the execution engine passes.
UpdateStatuses == {"open", "filled", "cancelled", "rejected"}

UpdateStatus(t, s) ==
    /\ t \in Rows
    /\ intents' = UpdatedIntents(t, s)
    /\ UNCHANGED <<nextVersion, app>>

-----------------------------------------------------------------------------
LedgerInit ==
    /\ intents = [t \in Traces |-> [status |-> "none", version |-> 0]]
    /\ nextVersion = 1
    /\ app = [c \in Clients |-> Idle]

LedgerNext ==
    \/ \E c \in Clients :
          \/ \E t \in Traces : AppendBegin(c, t)
          \/ AppendLookup(c)
          \/ AppendCompute(c)
          \/ AppendDraw(c)
          \/ AppendInsert(c)
          \/ AppendDbError(c)
          \/ AppendReturn(c)
    \/ \E t \in Traces : \E s \in UpdateStatuses : UpdateStatus(t, s)

LedgerSpec == LedgerInit /\ [][LedgerNext]_ledgerVars

-----------------------------------------------------------------------------
\* Properties

\* Type invariant: a row exists exactly when it carries a version of the
\* sequence (the version column is NOT NULL and never set by hand).
LedgerTypeOK ==
    /\ intents \in [Traces -> [status : IntentStatus, version : Nat]]
    /\ nextVersion \in Nat \ {0}
    /\ app \in [Clients -> [pc : {"idle", "lookup", "compute", "draw", "insert", "ok", "err"},
                            trace : Traces \cup {NoTrace},
                            version : Nat]]
    /\ \A c \in Clients : app[c].pc = "idle" \/ app[c].trace \in Traces
    /\ \A t \in Traces : intents[t].status = "none" <=> intents[t].version = 0

\* ORDER BY version is a total order of the ledger: no two rows, and no row
\* and a version still held by an unfinished INSERT, share a version
\* (Ledger.ReplayAll depends on it).
VersionOrder ==
    LET held == {c \in Clients : app[c].pc = "insert"}
    IN /\ \A t \in Rows : intents[t].version < nextVersion
       /\ \A t, u \in Rows : intents[t].version = intents[u].version => t = u
       /\ \A c \in held : app[c].version \in 1..(nextVersion - 1)
       /\ \A c, d \in held : app[c].version = app[d].version => c = d
       /\ \A c \in held : \A t \in Rows : app[c].version # intents[t].version

\* The ledger is append-only: an intent is written once, as pending, moves
\* only forward, and a terminal status is final whatever the engine passes to
\* UpdateStatus afterwards (Ledger.UpdateStatus's comment).
IntentEdges ==
    {<<"none", "pending">>, <<"pending", "open">>}
        \cup (IntentOutstanding \X IntentTerminal)

Log == INSTANCE Lifecycle WITH Ids <- Traces, Absent <- "none", Edges <- IntentEdges,
                               st <- [t \in Traces |-> intents[t].status]

ImplementsLifecycle == Log!Spec

\* A row's version never changes and no row is ever deleted.
RowsPermanent ==
    [][\A t \in Rows : /\ intents'[t].version = intents[t].version
                       /\ intents'[t].status # "none"]_ledgerVars

\* Replaying the whole ledger in version order (ReplayFromIntents, the
\* recovery path) gives the exposure the GROUP BY query gives (ComputeExposure,
\* the path of every Append).
ReplayMatchesQuery == ReplayFromIntents(ReplayAll) = ComputeExposure

\* Removing an outstanding intent from the exposure (RemoveIntent) leaves what
\* replaying the other rows gives.
RemovalMatchesReplay ==
    \A t \in Outstanding :
        /\ Validate(t)
        /\ RemoveIntent(ComputeExposure, t) = ReplayFromIntents(InVersionOrder(Rows \ {t}))

\* What the callers that passed the check and have not inserted yet will add to
\* the exposure of the keys in K, and what all callers but one may add unseen.
InFlight(K) == {c \in Clients : app[c].pc \in {"draw", "insert"} /\ Key[app[c].trace] \in K}
InFlightNotional(K) == SumFunction([c \in InFlight(K) |-> Notional[app[c].trace]])
Slack == (Cardinality(Clients) - 1) * Max({Notional[t] : t \in Traces})

\* Nobody serialises the check with the insert, but every inserter checked
\* first: the limits are overshot by at most one intent of every other caller.
\* With one caller this is the envelope itself.
OvershootBound ==
    /\ MaxTotal > 0 => ComputeExposure.total + InFlightNotional(Keys) <= MaxTotal + Slack
    /\ MaxPosition > 0 =>
          \A k \in Keys : Entry(ComputeExposure, k).notional + InFlightNotional({k}) <= MaxPosition + Slack
=============================================================================
