--------------------------- MODULE HaltPropagation ---------------------------
(***************************************************************************)
(* How a halt reaches the engines that must obey it.  The watchdog never   *)
(* sets their modes itself (GRPCExecControl.SetSystemMode and              *)
(* GRPCRiskControl.SetSystemMode only log): Trigger calls CancelAll at the *)
(* execution engine and publishes kill.activated; the execution engine     *)
(* copies the mode from the answers to its own heartbeats; the risk engine *)
(* sets its mode from each kill.activated event, and from the table when   *)
(* it starts.  The dead man's switch of the watchdog calls Trigger.        *)
(*                                                                         *)
(* An order is approved by the risk engine, passes the mode test of the    *)
(* execution engine and is placed, in three steps.                         *)
(***************************************************************************)
EXTENDS KillSwitch, CallerCheck

CONSTANTS Approvals,
          Monitor,           \* the goroutine of DeadMansSwitch.Monitor
          MaxExecRestarts,   \* bound: restarts of the execution engine
          MaxRiskRestarts    \* bound: restarts of the risk engine

ASSUME PropagationAssumption ==
    /\ Monitor \in Callers
    /\ "global" \in Scopes
    /\ MaxExecRestarts \in Nat
    /\ MaxRiskRestarts \in Nat

VARIABLES execMode, execUp, execRestarts,
          heartbeat,    \* the answer to a heartbeat, on its way
          riskMode, riskRestarts,
          unacked,      \* kill.activated events the durable consumer has yet to ack
          order,        \* approval -> where the order is
          lastBeat,     \* critical service -> "never", "fresh" or "late"
          watching      \* the service Monitor looks at next

engineVars == <<execMode, execUp, execRestarts, heartbeat, riskMode, riskRestarts>>
hpVars == <<ksVars, engineVars, unacked, order, lastBeat, watching>>

CriticalServices == {"execution-engine", "risk-engine"}

-----------------------------------------------------------------------------
\* The watchdog

\* CancelAll at the execution engine; an engine that is down answers an error.
CancelAllOrders ==
    order' = [a \in Approvals |->
                 IF execUp /\ order[a] = "live" THEN "cancelled" ELSE order[a]]

\* A step of a Trigger, Acknowledge or Resume call past its lock.
WatchdogCall(c) ==
    /\ ManagerStep(c)
    /\ IF TriggerAct(c) /\ CancelsOrders(c) THEN CancelAllOrders ELSE UNCHANGED order
    /\ unacked' = unacked \cup (DOMAIN published' \ DOMAIN published)
    /\ UNCHANGED <<engineVars, lastBeat, watching>>

\* A permitted caller of the gRPC service.
WatchdogRequest(c) ==
    /\ c # Monitor
    /\ \E s \in Scopes : (\E l \in Levels : TriggerHalt(c, s, l)) \/ AckHalt(c, s) \/ ResumeHalt(c, s)
    /\ UNCHANGED <<engineVars, unacked, order, lastBeat, watching>>

Missed(svc) == lastBeat[svc] # "fresh"

\* Monitor looks at the critical services in turn, and waits for Trigger.
MonitorCheck ==
    /\ wdUp
    /\ call[Monitor].pc = "idle"
    /\ watching' \in CriticalServices \ {watching}
    /\ IF Missed(watching) /\ Raises("global", "cancel_only")
       THEN TriggerHalt(Monitor, "global", "cancel_only")
       ELSE UNCHANGED ksVars
    /\ UNCHANGED <<engineVars, unacked, order, lastBeat>>

\* graceMultiple intervals pass without a heartbeat: the engine is down or its
\* heartbeats are late.
BeatTimesOut ==
    /\ wdUp
    /\ lastBeat["execution-engine"] = "fresh"
    /\ lastBeat' = [lastBeat EXCEPT !["execution-engine"] = "late"]
    /\ UNCHANGED <<ksVars, engineVars, unacked, order, watching>>

\* lastBeat is memory only: LoadActiveHalts restores the halts and nothing else.
WatchdogStops ==
    /\ WatchdogCrash
    /\ lastBeat' = [svc \in CriticalServices |-> "never"]
    /\ UNCHANGED <<engineVars, unacked, order, watching>>

WatchdogStarts ==
    /\ LoadActiveHalts
    /\ UNCHANGED <<engineVars, unacked, order, lastBeat, watching>>

-----------------------------------------------------------------------------
\* The execution engine

\* RecordHeartbeat, past the caller check, and the mode as the answer.
HeartbeatSent ==
    /\ execUp
    /\ wdUp
    /\ WatchdogAdmits("execution-engine", "Heartbeat")
    /\ heartbeat = "none"
    /\ lastBeat' = [lastBeat EXCEPT !["execution-engine"] = "fresh"]
    /\ heartbeat' = currentMode
    /\ UNCHANGED <<ksVars, execMode, execUp, execRestarts, riskMode, riskRestarts, unacked, order,
                   watching>>

\* Mutant: the mode in the answer is not looked at.
AnswerIgnored == execMode

TakenMode == heartbeat

HeartbeatAnswered ==
    /\ execUp
    /\ heartbeat # "none"
    /\ execMode' = TakenMode
    /\ heartbeat' = "none"
    /\ UNCHANGED <<ksVars, execUp, execRestarts, riskMode, riskRestarts, unacked, order, lastBeat,
                   watching>>

SubmitGate(a) ==
    /\ execUp
    /\ order[a] = "approved"
    /\ order' = [order EXCEPT ![a] = IF execMode = "normal" THEN "gated" ELSE "refused"]
    /\ UNCHANGED <<ksVars, engineVars, unacked, lastBeat, watching>>

SubmitVenue(a) ==
    /\ execUp
    /\ order[a] = "gated"
    /\ order' = [order EXCEPT ![a] = "live"]
    /\ UNCHANGED <<ksVars, engineVars, unacked, lastBeat, watching>>

\* A submission that has not reached the venue dies with the process.
ExecStops ==
    /\ execUp
    /\ execRestarts < MaxExecRestarts
    /\ execUp' = FALSE
    /\ execRestarts' = execRestarts + 1
    /\ heartbeat' = "none"
    /\ order' = [a \in Approvals |-> IF order[a] = "gated" THEN "refused" ELSE order[a]]
    /\ UNCHANGED <<ksVars, execMode, riskMode, riskRestarts, unacked, lastBeat, watching>>

\* NewEngine: systemMode "normal".
ExecStarts ==
    /\ ~execUp
    /\ execUp' = TRUE
    /\ execMode' = "normal"
    /\ UNCHANGED <<ksVars, execRestarts, heartbeat, riskMode, riskRestarts, unacked, order,
                   lastBeat, watching>>

-----------------------------------------------------------------------------
\* The risk engine

Approve(a) ==
    /\ order[a] = "none"
    /\ riskMode = "normal"
    /\ order' = [order EXCEPT ![a] = "approved"]
    /\ UNCHANGED <<ksVars, engineVars, unacked, lastBeat, watching>>

\* Mutant: the consumer acknowledges before it looks at the event.
EventDropped(i) == riskMode

EventMode(i) == published[i]

\* SetSystemMode(kse.Level), then Ack; a lost Ack has the event delivered again.
RiskDelivery(i) ==
    /\ i \in unacked
    /\ riskMode' = EventMode(i)
    /\ unacked' \in {unacked, unacked \ {i}}
    /\ UNCHANGED <<ksVars, execMode, execUp, execRestarts, heartbeat, riskRestarts, order, lastBeat,
                   watching>>

\* LoadState: the severest open row of the table.
TableMode ==
    recalcMode([s \in Scopes |->
        IF OpenRows(s) = {} THEN NoHalt
        ELSE [level |-> CHOOSE l \in Levels :
                            /\ \E i \in OpenRows(s) : ksRows[i].level = l
                            /\ \A i \in OpenRows(s) : severityRank(ksRows[i].level) <= severityRank(l),
              acked |-> FALSE]])

RiskRestart ==
    /\ riskRestarts < MaxRiskRestarts
    /\ riskRestarts' = riskRestarts + 1
    /\ riskMode' = TableMode
    /\ UNCHANGED <<ksVars, execMode, execUp, execRestarts, heartbeat, unacked, order, lastBeat,
                   watching>>

-----------------------------------------------------------------------------
HpInit ==
    /\ KsInit
    /\ execMode = "normal"
    /\ execUp = TRUE
    /\ execRestarts = 0
    /\ heartbeat = "none"
    /\ riskMode = "normal"
    /\ riskRestarts = 0
    /\ unacked = {}
    /\ order = [a \in Approvals |-> "none"]
    /\ lastBeat = [svc \in CriticalServices |-> "never"]
    /\ watching = "execution-engine"

HpNext ==
    \/ \E c \in Callers : WatchdogCall(c) \/ WatchdogRequest(c)
    \/ MonitorCheck \/ BeatTimesOut \/ WatchdogStops \/ WatchdogStarts
    \/ HeartbeatSent \/ HeartbeatAnswered \/ ExecStops \/ ExecStarts
    \/ \E a \in Approvals : Approve(a) \/ SubmitGate(a) \/ SubmitVenue(a)
    \/ \E i \in 1..MaxTriggers : RiskDelivery(i)
    \/ RiskRestart

HpSpec == HpInit /\ [][HpNext]_hpVars

\* Both tickers run, calls in progress go on, messages are delivered, stopped
\* processes are started again and a submission is carried through; nobody owes
\* a halt, an acknowledgement, a resume, an order, a timeout or a crash.
HpFairness ==
    /\ \A c \in Callers : WF_hpVars(WatchdogCall(c))
    /\ WF_hpVars(MonitorCheck)
    /\ WF_hpVars(WatchdogStarts)
    /\ WF_hpVars(ExecStarts)
    /\ WF_hpVars(HeartbeatSent)
    /\ WF_hpVars(HeartbeatAnswered)
    /\ \A a \in Approvals : WF_hpVars(SubmitVenue(a))
    /\ \A i \in 1..MaxTriggers : WF_hpVars(RiskDelivery(i))

HpFairSpec == HpSpec /\ HpFairness

-----------------------------------------------------------------------------
\* Properties

\* Whatever restarts in between, an active halt reaches the execution engine: the
\* mode test of SubmitOrder closes, or the halt is lifted first.
HaltReachesExec == (currentMode # "normal") ~> (execMode # "normal" \/ currentMode = "normal")

\* A published halt reaches the risk engine, which stops approving, although the
\* engine restarts and acknowledgements are lost.
HaltReachesRisk == (unacked # {}) ~> (riskMode # "normal")
=============================================================================
