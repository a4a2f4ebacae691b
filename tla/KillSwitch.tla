----------------------------- MODULE KillSwitch -----------------------------
(***************************************************************************)
(* services/watchdog/killswitch.go: the kill switch manager, and the       *)
(* operator commands of cmd/trade-ctl that edit its table directly.        *)
(*                                                                         *)
(* Trigger, Acknowledge and Resume change the halts in memory under k.mu   *)
(* and then, with the lock released, the table watchdog.kill_switch_events *)
(* and the other services; the memory change, each SQL statement and each  *)
(* call to another service is one step, so calls of several goroutines     *)
(* interleave.  A restart keeps the table only.                            *)
(***************************************************************************)
EXTENDS Integers, Sequences, FiniteSets

CONSTANTS Scopes,
          Callers,      \* goroutines inside the manager: gRPC handlers, Monitor
          KsDbFaults,   \* whether a SQL statement or a publication may fail
          Cli,          \* whether operators use trade-ctl kill, ack and resume
          MaxTriggers,  \* bound: events published by Trigger
          MaxRows,      \* bound: rows of kill_switch_events
          MaxRestarts   \* bound: restarts of the watchdog

ASSUME KillSwitchAssumption ==
    /\ KsDbFaults \in BOOLEAN
    /\ Cli \in BOOLEAN
    /\ MaxTriggers \in Nat
    /\ MaxRows \in Nat
    /\ MaxRestarts \in Nat

VARIABLES halts,        \* activeHalts: scope -> [level, acked]
          currentMode,
          ksRows,       \* kill_switch_events: [scope, level, acked, resumed]
          call,         \* caller -> its Trigger, Acknowledge or Resume call
          published,    \* levels of the kill.activated events, oldest first
          cli,          \* a trade-ctl resume between its SELECT and its UPDATE
          wdUp, wdRestarts,
          clean         \* history: since the halts were loaded, every statement
                        \* worked, trade-ctl left the table alone, and no call
                        \* began with another's statement on its scope still due

ksVars == <<halts, currentMode, ksRows, call, published, cli, wdUp, wdRestarts, clean>>

-----------------------------------------------------------------------------
Levels == {"soft_pause", "cancel_only", "full_stop"}
Modes == {"normal"} \cup Levels

severityRank(level) ==
    CASE level = "soft_pause" -> 1
      [] level = "cancel_only" -> 2
      [] level = "full_stop" -> 3
      [] OTHER -> 0

NoHalt == [level |-> "none", acked |-> FALSE]
Halted(h, s) == h[s].level # "none"

recalcMode(h) ==
    LET present(l) == \E s \in Scopes : h[s].level = l
    IN IF present("full_stop") THEN "full_stop"
       ELSE IF present("cancel_only") THEN "cancel_only"
       ELSE IF present("soft_pause") THEN "soft_pause"
       ELSE "normal"

IdleCall == [pc |-> "idle", scope |-> "none", level |-> "none"]

SetHalts(h) == halts' = h /\ currentMode' = recalcMode(h)
Calls(c, pc, s, l) == call' = [call EXCEPT ![c] = [pc |-> pc, scope |-> s, level |-> l]]
Goes(c, pc) == Calls(c, pc, call[c].scope, call[c].level)
Alone(s) == \A d \in Callers : call[d].scope = s => call[d].pc \notin {"persist", "ack", "resume"}
Returns(c) == call' = [call EXCEPT ![c] = IdleCall]

-----------------------------------------------------------------------------
\* Trigger

\* Mutant: a weaker level replaces a stronger one.
AlwaysRaises(s, l) == TRUE

Raises(s, l) == severityRank(halts[s].level) < severityRank(l)

\* Bound: events published, or still to be, and rows written, or still to be.
MayTrigger ==
    /\ Len(published) + Cardinality({c \in Callers : call[c].pc \in {"persist", "act", "publish"}})
          < MaxTriggers
    /\ Len(ksRows) + Cardinality({c \in Callers : call[c].pc = "persist"}) < MaxRows

\* A halt at the same or a higher level makes Trigger return at once.
TriggerHalt(c, s, l) ==
    /\ wdUp
    /\ call[c].pc = "idle"
    /\ Raises(s, l)
    /\ MayTrigger
    /\ SetHalts([halts EXCEPT ![s] = [level |-> l, acked |-> FALSE]])
    /\ Calls(c, "persist", s, l)
    /\ clean' = (clean /\ Alone(s))
    /\ UNCHANGED <<ksRows, published, cli, wdUp, wdRestarts>>

\* An error of a SQL statement is logged.
Fails == KsDbFaults /\ clean' = FALSE /\ UNCHANGED ksRows

NewEvent(s, l) == [scope |-> s, level |-> l, acked |-> FALSE, resumed |-> FALSE]

\* Mutant: the event row is never written.
ForgetRow(c) ==
    /\ call[c].pc = "persist"
    /\ Goes(c, "act")
    /\ UNCHANGED <<halts, currentMode, ksRows, published, cli, wdUp, wdRestarts, clean>>

\* "Persist to DB first"; an error is logged and Trigger goes on.
TriggerPersist(c) ==
    /\ call[c].pc = "persist"
    /\ \/ ksRows' = Append(ksRows, NewEvent(call[c].scope, call[c].level)) /\ UNCHANGED clean
       \/ Fails
    /\ Goes(c, "act")
    /\ UNCHANGED <<halts, currentMode, published, cli, wdUp, wdRestarts>>

\* CancelAll at the execution engine for the two stronger levels, nothing for
\* soft_pause; SetSystemMode on both engines only logs (grpc_clients.go).
CancelsOrders(c) == call[c].level \in {"cancel_only", "full_stop"}

TriggerAct(c) ==
    /\ call[c].pc = "act"
    /\ Goes(c, "publish")
    /\ UNCHANGED <<halts, currentMode, ksRows, published, cli, wdUp, wdRestarts, clean>>

\* The result of Publish is dropped.
TriggerPublish(c) ==
    /\ call[c].pc = "publish"
    /\ published' = Append(published, call[c].level) \/ (KsDbFaults /\ UNCHANGED published)
    /\ Returns(c)
    /\ UNCHANGED <<halts, currentMode, ksRows, cli, wdUp, wdRestarts, clean>>

-----------------------------------------------------------------------------
\* Acknowledge and Resume

\* The UPDATEs, over every open row of the scope.
AckedRows(s) ==
    [i \in DOMAIN ksRows |->
        IF ksRows[i].scope = s /\ ~ksRows[i].resumed
        THEN [ksRows[i] EXCEPT !.acked = TRUE] ELSE ksRows[i]]
ResumedRows(s) ==
    [i \in DOMAIN ksRows |->
        IF ksRows[i].scope = s
        THEN [ksRows[i] EXCEPT !.resumed = TRUE] ELSE ksRows[i]]

AckHalt(c, s) ==
    /\ wdUp
    /\ call[c].pc = "idle"
    /\ Halted(halts, s)
    /\ ~halts[s].acked
    /\ halts' = [halts EXCEPT ![s] = [level |-> halts[s].level, acked |-> TRUE]]
    /\ Calls(c, "ack", s, "none")
    /\ clean' = (clean /\ Alone(s))
    /\ UNCHANGED <<currentMode, ksRows, published, cli, wdUp, wdRestarts>>

AckPersist(c) ==
    /\ call[c].pc = "ack"
    /\ \/ ksRows' = AckedRows(call[c].scope) /\ UNCHANGED clean
       \/ Fails
    /\ Returns(c)
    /\ UNCHANGED <<halts, currentMode, published, cli, wdUp, wdRestarts>>

\* Mutant: Resume does not ask for the acknowledgement.
MayAlwaysResume(s) == Halted(halts, s)

MayResume(s) == Halted(halts, s) /\ halts[s].acked

ResumeHalt(c, s) ==
    /\ wdUp
    /\ call[c].pc = "idle"
    /\ MayResume(s)
    /\ SetHalts([halts EXCEPT ![s] = NoHalt])
    /\ Calls(c, "resume", s, "none")
    /\ clean' = (clean /\ Alone(s))
    /\ UNCHANGED <<ksRows, published, cli, wdUp, wdRestarts>>

ResumePersist(c) ==
    /\ call[c].pc = "resume"
    /\ \/ ksRows' = ResumedRows(call[c].scope) /\ UNCHANGED clean
       \/ Fails
    /\ Returns(c)
    /\ UNCHANGED <<halts, currentMode, published, cli, wdUp, wdRestarts>>

-----------------------------------------------------------------------------
\* Restart

WatchdogCrash ==
    /\ wdUp
    /\ wdRestarts < MaxRestarts
    /\ wdUp' = FALSE
    /\ wdRestarts' = wdRestarts + 1
    /\ halts' = [s \in Scopes |-> NoHalt]
    /\ currentMode' = "normal"
    /\ call' = [c \in Callers |-> IdleCall]
    /\ UNCHANGED <<ksRows, published, cli, clean>>

OpenRows(s) == {i \in DOMAIN ksRows : ksRows[i].scope = s /\ ~ksRows[i].resumed}

\* Mutant: the halts are loaded and the mode is not recomputed.
LoadWithoutRecalc ==
    /\ ~wdUp
    /\ wdUp' = TRUE
    /\ halts' \in [Scopes -> {NoHalt} \cup [level : Levels, acked : BOOLEAN]]
    /\ \A s \in Scopes : Halted(halts', s) <=> OpenRows(s) # {}
    /\ clean' = TRUE
    /\ UNCHANGED <<currentMode, ksRows, call, published, cli, wdRestarts>>

\* The query has no ORDER BY, so any open row of a scope may come last and win.
LoadActiveHalts ==
    /\ ~wdUp
    /\ wdUp' = TRUE
    /\ halts' \in [Scopes -> {NoHalt} \cup [level : Levels, acked : BOOLEAN]]
    /\ \A s \in Scopes :
          IF OpenRows(s) = {} THEN halts'[s] = NoHalt
          ELSE \E i \in OpenRows(s) : halts'[s] = [level |-> ksRows[i].level,
                                                   acked |-> ksRows[i].acked]
    /\ currentMode' = recalcMode(halts')
    /\ clean' = TRUE
    /\ UNCHANGED <<ksRows, call, published, cli, wdRestarts>>

-----------------------------------------------------------------------------
\* cmd/trade-ctl: kill, ack and resume as SQL on the watchdog's table

CliKill(s, l) ==
    /\ Cli
    /\ Len(ksRows) < MaxRows
    /\ ksRows' = Append(ksRows, NewEvent(s, l))
    /\ clean' = FALSE
    /\ UNCHANGED <<halts, currentMode, call, published, cli, wdUp, wdRestarts>>

CliAck(s) ==
    /\ Cli
    /\ \E i \in OpenRows(s) : ~ksRows[i].acked
    /\ ksRows' = AckedRows(s)
    /\ clean' = FALSE
    /\ UNCHANGED <<halts, currentMode, call, published, cli, wdUp, wdRestarts>>

\* SELECT acknowledged ... LIMIT 1: any open row answers for all.
CliResumeCheck(s) ==
    /\ Cli
    /\ cli = "none"
    /\ \E i \in OpenRows(s) : ksRows[i].acked
    /\ cli' = s
    /\ UNCHANGED <<halts, currentMode, ksRows, call, published, wdUp, wdRestarts, clean>>

CliResumeUpdate ==
    /\ cli # "none"
    /\ ksRows' = ResumedRows(cli)
    /\ clean' = FALSE
    /\ cli' = "none"
    /\ UNCHANGED <<halts, currentMode, call, published, wdUp, wdRestarts>>

-----------------------------------------------------------------------------
KsInit ==
    /\ halts = [s \in Scopes |-> NoHalt]
    /\ currentMode = "normal"
    /\ ksRows = << >>
    /\ call = [c \in Callers |-> IdleCall]
    /\ published = << >>
    /\ cli = "none"
    /\ wdUp = TRUE
    /\ wdRestarts = 0
    /\ clean = TRUE

ManagerStep(c) ==
    TriggerPersist(c) \/ TriggerAct(c) \/ TriggerPublish(c) \/ AckPersist(c) \/ ResumePersist(c)

CliStep ==
    \/ \E s \in Scopes : (\E l \in Levels : CliKill(s, l)) \/ CliAck(s) \/ CliResumeCheck(s)
    \/ CliResumeUpdate

KsNext ==
    \/ \E c \in Callers :
          \/ \E s \in Scopes :
                (\E l \in Levels : TriggerHalt(c, s, l)) \/ AckHalt(c, s) \/ ResumeHalt(c, s)
          \/ ManagerStep(c)
    \/ WatchdogCrash
    \/ LoadActiveHalts
    \/ CliStep

KsSpec == KsInit /\ [][KsNext]_ksVars

-----------------------------------------------------------------------------
\* Properties

\* Type invariant; a call past its first step works on a scope.
KsTypeOK ==
    /\ halts \in [Scopes -> {NoHalt} \cup [level : Levels, acked : BOOLEAN]]
    /\ currentMode \in Modes
    /\ call \in [Callers -> [pc : {"idle", "persist", "act", "publish", "ack", "resume"},
                             scope : Scopes \cup {"none"}, level : Levels \cup {"none"}]]
    /\ \A c \in Callers :
          /\ call[c].pc # "idle" => call[c].scope \in Scopes
          /\ call[c].pc \in {"persist", "act", "publish"} => call[c].level \in Levels
    /\ cli \in Scopes \cup {"none"}
    /\ wdUp \in BOOLEAN

\* The mode told to the services is the severest active halt, through upgrades,
\* partial resumes and restarts (recalcMode).
ModeIsSeverestHalt ==
    /\ \A s \in Scopes : severityRank(halts[s].level) <= severityRank(currentMode)
    /\ currentMode # "normal" => \E s \in Scopes : halts[s].level = currentMode

\* "Severity hierarchy prevents downgrading a halt" and "Cannot resume without
\* acknowledging": while the watchdog runs, a halt only gets severer, and only
\* an acknowledged one goes away.
HaltDiscipline ==
    [][wdUp /\ wdUp' =>
          \A s \in Scopes : Halted(halts, s) =>
              IF Halted(halts', s)
              THEN severityRank(halts'[s].level) >= severityRank(halts[s].level)
              ELSE halts[s].acked]_ksVars

KsQuiet == wdUp /\ cli = "none" /\ \A c \in Callers : call[c].pc = "idle"

\* "Kill switch activates and persists across process restarts": when no call is
\* in progress, a scope is halted exactly when the table would halt it after a
\* restart, as long as the life has been clean.  (Trigger and Resume change memory
\* and table in two steps: two overlapping calls on one scope may leave an active
\* halt without an open row.)
HaltsDurable ==
    KsQuiet /\ clean => \A s \in Scopes : Halted(halts, s) <=> OpenRows(s) # {}

\* "Mandatory acknowledge-before-resume": no event row is resumed that nobody
\* acknowledged, in the life of one watchdog (a restart may load the acknowledged
\* one of two open rows, and Resume then resumes both).
ResumedRowsWereAcked ==
    wdRestarts = 0 /\ clean => \A i \in DOMAIN ksRows : ksRows[i].resumed => ksRows[i].acked

-----------------------------------------------------------------------------
\* The inductive strengthening of the two invariants on the table: what a call
\* that still owes its statement guarantees about its scope.

EventRow == [scope : Scopes, level : Levels, acked : BOOLEAN, resumed : BOOLEAN]

Due(c, s) == call[c].scope = s /\ call[c].pc \in {"persist", "ack", "resume"}

AllAcked(s) == \A i \in OpenRows(s) : ksRows[i].acked

\* A scope whose statements are all done, and one with a statement due.
ScopeSettled(s) ==
    (\A c \in Callers : ~Due(c, s)) =>
        /\ Halted(halts, s) <=> OpenRows(s) # {}
        /\ wdRestarts = 0 /\ halts[s].acked => AllAcked(s)

ScopeDue(c, s) ==
    Due(c, s) =>
        /\ \A d \in Callers : Due(d, s) => d = c
        /\ call[c].pc = "persist" => Halted(halts, s) /\ ~halts[s].acked
        /\ call[c].pc = "ack" => (Halted(halts, s) <=> OpenRows(s) # {})
        /\ call[c].pc = "resume" => ~Halted(halts, s) /\ (wdRestarts = 0 => AllAcked(s))

TableInv ==
    /\ ksRows \in Seq(EventRow)
    /\ wdRestarts \in Nat
    /\ ~wdUp => wdRestarts # 0 /\ \A c \in Callers : call[c].pc = "idle"
    /\ clean /\ wdUp => \A s \in Scopes : ScopeSettled(s) /\ \A c \in Callers : ScopeDue(c, s)
    /\ ResumedRowsWereAcked
=============================================================================
