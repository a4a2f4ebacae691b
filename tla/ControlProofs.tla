---------------------------- MODULE ControlProofs ----------------------------
(***************************************************************************)
(* The theorems about the two services that keep orders from going out,    *)
(* the risk engine and the kill switch of the watchdog; their modules      *)
(* share nothing (HaltPropagation has what passes between them).           *)
(*                                                                         *)
(* The risk engine, for every set of strategies and signals, every policy  *)
(* and any number of crashes.                                              *)
(*                                                                         *)
(* The rate limits: the checks run unlocked, the decision time is read     *)
(* after them, and the entry in the tracking is made later still.  The     *)
(* invariant says what carries over those gaps: the tracking holds at      *)
(* least the approvals of this life of the engine (Tracked, Keyed), and    *)
(* what an evaluation in flight concluded from it stays true until it      *)
(* records (RatesHold, KeysHold), because only the strategy's own single   *)
(* call writes the entries it read.                                        *)
(*                                                                         *)
(* The fills: memory and table each hold the acknowledged fills and some   *)
(* of the others, not always the same ones (FillsInv).                     *)
(*                                                                         *)
(* The kill switch, for every set of scopes and of concurrent callers,     *)
(* with and without failing statements, restarts and operators at          *)
(* trade-ctl.  The mode is a cache of the halts: that it names the         *)
(* severest one is kept only because every step that changes the halts     *)
(* recomputes it, so the invariant fixes currentMode as a function of      *)
(* halts.                                                                  *)
(***************************************************************************)
EXTENDS RiskEngine, KillSwitch, SumProofs

Approval == [signal : Signals, at : Nat, left : Nat, life : Nat]
EvalCall == [pc : {"idle", "gates", "exposure", "rates", "decide", "record"},
             signal : Signals \cup {"none"}, passed : BOOLEAN, at : Nat]
TrackedKey == [key : {IdempotencyKey(o) : o \in Signals}, at : Nat]

RateTypeOK ==
    /\ clock \in Nat
    /\ crashes \in Nat
    /\ approvals \in Seq(Approval)
    /\ orderTimes \in [Strategies -> Seq(Nat)]
    /\ orderKeys \in SUBSET TrackedKey
    /\ eval \in [Strategies -> EvalCall]
    /\ \A s \in Strategies : eval[s].pc # "idle" =>
          eval[s].signal \in Signals /\ Strategy[eval[s].signal] = s

\* Nothing recorded is later than now, or of a later life.
Past ==
    /\ \A i \in DOMAIN approvals : approvals[i].at <= clock /\ approvals[i].life <= crashes
    /\ \A k \in orderKeys : k.at <= clock
    /\ \A s \in Strategies : eval[s].pc = "record" => eval[s].at <= clock

\* The approvals of this life of the engine are in the duplicate tracking.
Keyed ==
    \A i \in DOMAIN approvals : approvals[i].life = crashes =>
        \E k \in orderKeys : /\ k.key = IdempotencyKey(approvals[i].signal)
                             /\ k.at >= approvals[i].at

\* No order of this key is tracked within the window before t.
NoDuplicate(o, t) == \A k \in orderKeys : k.key = IdempotencyKey(o) => t - k.at >= DupWindow

\* The duplicate check of a call that passed holds until the call records.
KeysHold ==
    \A s \in Strategies :
        /\ eval[s].pc = "decide" /\ eval[s].passed => NoDuplicate(eval[s].signal, clock)
        /\ eval[s].pc = "record" => NoDuplicate(eval[s].signal, eval[s].at)

DuplicateInv == RateTypeOK /\ Past /\ Keyed /\ KeysHold /\ DuplicatesApart

-----------------------------------------------------------------------------
\* Types

\* The domain and the elements of a sequence.
LEMMA SequenceTyped ==
    ASSUME NEW S, NEW q \in Seq(S)
    PROVE  /\ Len(q) \in Nat
           /\ DOMAIN q = 1..Len(q)
           /\ \A i \in DOMAIN q : q[i] \in S
OBVIOUS

\* The times and lives the proofs compute with are numbers.
LEMMA RateNumbers ==
    ASSUME RateTypeOK
    PROVE  /\ clock \in Nat /\ crashes \in Nat /\ DupWindow \in Nat /\ Minute \in Nat
           /\ \A i \in DOMAIN approvals : /\ approvals[i].signal \in Signals
                                          /\ approvals[i].at \in Nat
                                          /\ approvals[i].life \in Nat
           /\ \A k \in orderKeys : k.at \in Nat
           /\ \A s \in Strategies : eval[s].at \in Nat
<1>1. clock \in Nat /\ crashes \in Nat /\ DupWindow \in Nat /\ Minute \in Nat
    BY RiskAssumption DEF RateTypeOK
<1>2. \A i \in DOMAIN approvals : approvals[i] \in Approval
    BY SequenceTyped DEF RateTypeOK
<1>3. \A i \in DOMAIN approvals : /\ approvals[i].signal \in Signals
                                  /\ approvals[i].at \in Nat
                                  /\ approvals[i].life \in Nat
    BY <1>2 DEF Approval
<1>4. \A k \in orderKeys : k \in TrackedKey
    BY DEF RateTypeOK
<1>5. \A k \in orderKeys : k.at \in Nat
    BY <1>4 DEF TrackedKey
<1>6. \A s \in Strategies : eval[s] \in EvalCall
    BY DEF RateTypeOK
<1>7. \A s \in Strategies : eval[s].at \in Nat
    BY <1>6 DEF EvalCall
<1>8. QED
    BY <1>1, <1>3, <1>5, <1>7

\* The rate tracking is well typed initially.
LEMMA RateTypeInit == RiskInit => RateTypeOK
BY DEF RiskInit, RateTypeOK, IdleEval, EvalCall, Approval, TrackedKey

\* What EvalGoto does to eval.
LEMMA EvalMoves ==
    ASSUME RateTypeOK, NEW s \in Strategies, NEW pc, NEW passed, NEW at,
           EvalGoto(s, pc, passed, at)
    PROVE  /\ eval'[s] = [pc |-> pc, signal |-> eval[s].signal, passed |-> passed, at |-> at]
           /\ \A u \in Strategies \ {s} : eval'[u] = eval[u]
           /\ DOMAIN eval' = Strategies
           /\ eval' = [u \in Strategies |-> eval'[u]]
BY DEF RateTypeOK, EvalGoto

\* The checks of one group move the call on and keep what is tracked.
LEMMA CheckTyped ==
    ASSUME RateTypeOK, NEW s \in Strategies, NEW pc \in {"gates", "exposure", "rates"},
           NEW result \in BOOLEAN, NEW next \in {"exposure", "rates", "decide"},
           EvalCheck(s, pc, result, next)
    PROVE  /\ RateTypeOK'
           /\ UNCHANGED <<clock, crashes, approvals, orderTimes, orderKeys>>
           /\ \A u \in Strategies \ {s} : eval'[u] = eval[u]
           /\ eval'[s].pc = next
           /\ eval'[s].signal = eval[s].signal
           /\ eval'[s].passed = (eval[s].passed /\ result)
<1>1. UNCHANGED <<clock, crashes, approvals, orderTimes, orderKeys>>
    BY DEF EvalCheck, memory, history
<1>2. EvalGoto(s, next, eval[s].passed /\ result, 0) /\ eval[s].pc = pc
    BY DEF EvalCheck
<1>3. /\ eval'[s] = [pc |-> next, signal |-> eval[s].signal,
                     passed |-> eval[s].passed /\ result, at |-> 0]
      /\ \A u \in Strategies \ {s} : eval'[u] = eval[u]
      /\ eval' = [u \in Strategies |-> eval'[u]]
    BY <1>2, EvalMoves
<1>4. eval[s] \in EvalCall /\ eval[s].signal \in Signals
    BY <1>2 DEF RateTypeOK
<1>5. eval'[s] \in EvalCall
  <2>1. (eval[s].passed /\ result) \in BOOLEAN
    OBVIOUS
  <2>2. QED
    BY <1>3, <1>4, <2>1 DEF EvalCall
<1>6. \A u \in Strategies : eval'[u] \in EvalCall
    BY <1>3, <1>5 DEF RateTypeOK
<1>7. eval' \in [Strategies -> EvalCall]
    BY <1>3, <1>6
<1>8. \A u \in Strategies : eval'[u].pc # "idle" =>
          eval'[u].signal \in Signals /\ Strategy[eval'[u].signal] = u
  <2>1. eval[s].pc # "idle"
    BY <1>2
  <2>2. Strategy[eval[s].signal] = s /\ eval'[s].signal = eval[s].signal
    BY <2>1, <1>3 DEF RateTypeOK
  <2>3. QED
    BY <1>3, <1>4, <2>2 DEF RateTypeOK
<1>9. QED
    BY <1>1, <1>3, <1>7, <1>8 DEF RateTypeOK

\* A new call and the outcome of the decision keep the types too.
LEMMA BeginTyped ==
    ASSUME RateTypeOK, NEW o \in Signals, EvalBegin(o)
    PROVE  /\ RateTypeOK'
           /\ UNCHANGED <<clock, crashes, approvals, orderTimes, orderKeys>>
           /\ \A u \in Strategies : eval'[u] = eval[u] \/ eval'[u].pc = "gates"
<1>1. UNCHANGED <<clock, crashes, approvals, orderTimes, orderKeys>>
    BY DEF EvalBegin, memory, history
<1>2. Strategy[o] \in Strategies
    BY RiskAssumption
<1>3. /\ eval'[Strategy[o]] = [pc |-> "gates", signal |-> o, passed |-> TRUE, at |-> 0]
      /\ \A u \in Strategies \ {Strategy[o]} : eval'[u] = eval[u]
      /\ eval' = [u \in Strategies |-> eval'[u]]
    BY <1>2 DEF EvalBegin, RateTypeOK
<1>4. eval'[Strategy[o]] \in EvalCall
    BY <1>3 DEF EvalCall
<1>5. \A u \in Strategies : eval'[u] \in EvalCall
    BY <1>3, <1>4 DEF RateTypeOK
<1>6. eval' \in [Strategies -> EvalCall]
    BY <1>3, <1>5
<1>7. \A u \in Strategies : eval'[u].pc # "idle" =>
          eval'[u].signal \in Signals /\ Strategy[eval'[u].signal] = u
  <2> TAKE u \in Strategies
  <2>1. CASE u = Strategy[o]
    BY <1>3, <2>1
  <2>2. CASE u # Strategy[o]
    BY <1>3, <2>2 DEF RateTypeOK
  <2>3. QED
    BY <2>1, <2>2
<1>8. \A u \in Strategies : eval'[u] = eval[u] \/ eval'[u].pc = "gates"
    BY <1>3
<1>9. QED
    BY <1>1, <1>6, <1>7, <1>8 DEF RateTypeOK

\* EvalDecide ends the call or gives it, its checks passed, a decision time.
LEMMA DecideTyped ==
    ASSUME RateTypeOK, NEW s \in Strategies, EvalDecide(s)
    PROVE  /\ RateTypeOK'
           /\ UNCHANGED <<clock, crashes, approvals, orderTimes, orderKeys>>
           /\ \A u \in Strategies \ {s} : eval'[u] = eval[u]
           /\ eval[s].pc = "decide"
           /\ \/ eval'[s].pc = "idle"
              \/ /\ eval[s].passed
                 /\ eval'[s].pc = "record"
                 /\ eval'[s].signal = eval[s].signal
                 /\ eval'[s].at = clock
<1>1. UNCHANGED <<clock, crashes, approvals, orderTimes, orderKeys>> /\ eval[s].pc = "decide"
    BY DEF EvalDecide, memory, history
<1>2. /\ \A u \in Strategies \ {s} : eval'[u] = eval[u]
      /\ eval' = [u \in Strategies |-> eval'[u]]
      /\ \/ eval'[s] = IdleEval
         \/ /\ eval[s].passed
            /\ eval'[s] = [pc |-> "record", signal |-> eval[s].signal, passed |-> TRUE,
                           at |-> clock]
    BY DEF EvalDecide, EvalGoto, RateTypeOK
<1>3. eval[s].signal \in Signals /\ Strategy[eval[s].signal] = s /\ clock \in Nat
    BY <1>1 DEF RateTypeOK
<1>4. eval'[s] \in EvalCall
  <2>1. IdleEval \in EvalCall
    BY DEF EvalCall, IdleEval
  <2>2. [pc |-> "record", signal |-> eval[s].signal, passed |-> TRUE, at |-> clock] \in EvalCall
    BY <1>3 DEF EvalCall
  <2>3. QED
    BY <1>2, <2>1, <2>2
<1>5. \A u \in Strategies : eval'[u] \in EvalCall
    BY <1>2, <1>4 DEF RateTypeOK
<1>6. eval' \in [Strategies -> EvalCall]
    BY <1>2, <1>5
<1>7. \A u \in Strategies : eval'[u].pc # "idle" =>
          eval'[u].signal \in Signals /\ Strategy[eval'[u].signal] = u
  <2> TAKE u \in Strategies
  <2>1. CASE u = s
    BY <1>2, <1>3, <2>1 DEF IdleEval
  <2>2. CASE u # s
    BY <1>2, <2>2 DEF RateTypeOK
  <2>3. QED
    BY <2>1, <2>2
<1>8. RateTypeOK'
    BY <1>1, <1>6, <1>7 DEF RateTypeOK
<1>9. QED
    BY <1>1, <1>2, <1>8 DEF IdleEval

\* What recording an approval does.
LEMMA RecordTyped ==
    ASSUME RateTypeOK, NEW s \in Strategies, EvalRecord(s)
    PROVE  LET o  == eval[s].signal
               at == eval[s].at
           IN /\ RateTypeOK'
              /\ UNCHANGED <<clock, crashes>>
              /\ eval[s].pc = "record" /\ o \in Signals /\ Strategy[o] = s /\ at \in Nat
              /\ \A u \in Strategies \ {s} : eval'[u] = eval[u]
              /\ eval'[s].pc = "idle"
              /\ Len(approvals') = Len(approvals) + 1
              /\ \A i \in DOMAIN approvals : approvals'[i] = approvals[i]
              /\ approvals'[Len(approvals) + 1].signal = o
              /\ approvals'[Len(approvals) + 1].at = at
              /\ approvals'[Len(approvals) + 1].life = crashes
              /\ orderKeys' = KeysWith(IdempotencyKey(o), at)
              /\ orderTimes'[s] = Append(orderTimes[s], at)
              /\ \A u \in Strategies \ {s} : orderTimes'[u] = orderTimes[u]
<1> DEFINE o  == eval[s].signal
           at == eval[s].at
           new == [signal |-> o, at |-> at, left |-> Quantity[o], life |-> crashes]
<1>1. /\ UNCHANGED <<clock, crashes>>
      /\ eval[s].pc = "record"
      /\ orderTimes' = [orderTimes EXCEPT ![s] = Append(@, at)]
      /\ orderKeys' = KeysWith(IdempotencyKey(o), at)
      /\ approvals' = Append(approvals, new)
      /\ eval' = [eval EXCEPT ![s] = IdleEval]
    BY DEF EvalRecord
<1>2. o \in Signals /\ Strategy[o] = s /\ at \in Nat
    BY <1>1 DEF RateTypeOK, EvalCall
<1>3. new \in Approval
    BY <1>2, RiskAssumption DEF RateTypeOK, Approval
<1>4. approvals \in Seq(Approval)
    BY DEF RateTypeOK
<1>5. /\ approvals' \in Seq(Approval)
      /\ Len(approvals') = Len(approvals) + 1
      /\ \A i \in DOMAIN approvals : approvals'[i] = approvals[i]
      /\ approvals'[Len(approvals) + 1] = new
    BY <1>1, <1>3, <1>4
<1>6. /\ orderTimes' \in [Strategies -> Seq(Nat)]
      /\ orderTimes'[s] = Append(orderTimes[s], at)
      /\ \A u \in Strategies \ {s} : orderTimes'[u] = orderTimes[u]
  <2>1. orderTimes \in [Strategies -> Seq(Nat)]
    BY DEF RateTypeOK
  <2>2. Append(orderTimes[s], at) \in Seq(Nat)
    BY <1>2, <2>1
  <2>3. QED
    BY <1>1, <2>1, <2>2
<1>7. orderKeys' \in SUBSET TrackedKey
    BY <1>1, <1>2 DEF KeysWith, TrackedKey, RateTypeOK
<1>8. /\ \A u \in Strategies \ {s} : eval'[u] = eval[u]
      /\ eval'[s] = IdleEval
      /\ eval' \in [Strategies -> EvalCall]
    BY <1>1 DEF RateTypeOK, IdleEval, EvalCall
<1>9. RateTypeOK'
    BY <1>1, <1>5, <1>6, <1>7, <1>8 DEF RateTypeOK, IdleEval
<1>10. QED
    BY <1>1, <1>2, <1>5, <1>6, <1>8, <1>9 DEF IdleEval

\* Reporting a fill changes nothing of an approval that the rate tracking knows.
LEMMA ReportTyped ==
    ASSUME RateTypeOK, NEW i \in DOMAIN approvals, NEW q \in 1..approvals[i].left,
           ReportLock(i, q)
    PROVE  /\ RateTypeOK'
           /\ UNCHANGED <<clock, crashes, eval, orderTimes, orderKeys>>
           /\ DOMAIN approvals' = DOMAIN approvals
           /\ \A j \in DOMAIN approvals : /\ approvals'[j].signal = approvals[j].signal
                                          /\ approvals'[j].at = approvals[j].at
                                          /\ approvals'[j].life = approvals[j].life
<1>1. /\ UNCHANGED <<clock, crashes, eval, orderTimes, orderKeys>>
      /\ approvals' = [approvals EXCEPT ![i].left = @ - q]
    BY DEF ReportLock
<1>2. approvals \in Seq(Approval) /\ approvals[i] \in Approval
    BY DEF RateTypeOK
<1>3. [approvals[i] EXCEPT !.left = @ - q] \in Approval
  <2>1. approvals[i].left \in Nat
    BY <1>2 DEF Approval
  <2>2. approvals[i].left - q \in Nat
    BY <2>1
  <2>3. QED
    BY <1>2, <2>2 DEF Approval
<1>4. approvals' \in Seq(Approval)
    BY <1>1, <1>2, <1>3
<1>5. /\ DOMAIN approvals' = DOMAIN approvals
      /\ \A j \in DOMAIN approvals : /\ approvals'[j].signal = approvals[j].signal
                                     /\ approvals'[j].at = approvals[j].at
                                     /\ approvals'[j].life = approvals[j].life
    BY <1>1, <1>2 DEF Approval
<1>6. QED
    BY <1>1, <1>4, <1>5 DEF RateTypeOK

\* A crash empties the tracking and starts a new life.
LEMMA CrashTyped ==
    ASSUME RateTypeOK, RiskCrash
    PROVE  /\ RateTypeOK'
           /\ UNCHANGED <<clock, approvals>>
           /\ crashes' = crashes + 1
           /\ orderKeys' = {}
           /\ \A s \in Strategies : orderTimes'[s] = << >> /\ eval'[s].pc = "idle"
<1> USE DEF RiskCrash, NewEmptyState, IdleEval
<1>1. RateTypeOK'
    BY DEF RateTypeOK, EvalCall
<1>2. QED
    BY <1>1 DEF RateTypeOK

-----------------------------------------------------------------------------
\* What a step of the risk engine can do to the rate tracking

SameApprovals ==
    /\ DOMAIN approvals' = DOMAIN approvals
    /\ \A j \in DOMAIN approvals : /\ approvals'[j].signal = approvals[j].signal
                                   /\ approvals'[j].at = approvals[j].at
                                   /\ approvals'[j].life = approvals[j].life

\* Time may pass and calls may be at work before their rate checks.
Quiet ==
    /\ UNCHANGED <<crashes, orderTimes, orderKeys>>
    /\ SameApprovals
    /\ clock' \in Nat /\ clock <= clock'
    /\ \A u \in Strategies : \/ eval'[u] = eval[u]
                              \/ eval'[u].pc \in {"idle", "gates", "exposure", "rates"}

\* The call of s and nothing else moves.
OnlyCall(s) ==
    /\ UNCHANGED <<clock, crashes, orderTimes, orderKeys, approvals>>
    /\ \A u \in Strategies \ {s} : eval'[u] = eval[u]
    /\ eval'[s].signal = eval[s].signal

Checked(s) ==
    /\ OnlyCall(s)
    /\ eval'[s].pc = "decide"
    /\ eval'[s].passed => RateChecks(eval[s].signal)

Decided(s) ==
    /\ OnlyCall(s)
    /\ eval[s].pc = "decide" /\ eval[s].passed
    /\ eval'[s].pc = "record" /\ eval'[s].at = clock

\* Every step keeps the types and is one of five kinds.
LEMMA StepEffect ==
    ASSUME RateTypeOK, [RiskNext]_riskVars
    PROVE  /\ RateTypeOK'
           /\ \/ Quiet
              \/ \E s \in Strategies : Checked(s) \/ Decided(s) \/ EvalRecord(s)
              \/ RiskCrash
<1>1. ASSUME NEW o \in Signals, EvalBegin(o)
      PROVE  RateTypeOK' /\ Quiet
    BY <1>1, BeginTyped DEF Quiet, SameApprovals, RateTypeOK
<1>2. ASSUME NEW s \in Strategies, EvalGates(s)
      PROVE  RateTypeOK' /\ Quiet
  <2>1. GateChecks(eval[s].signal) \in BOOLEAN
    BY DEF GateChecks
  <2>2. QED
    BY <1>2, <2>1, CheckTyped DEF EvalGates, Quiet, SameApprovals, RateTypeOK
<1>3. ASSUME NEW s \in Strategies, EvalExposure(s)
      PROVE  RateTypeOK' /\ Quiet
  <2>1. ExposureChecks(eval[s].signal) \in BOOLEAN
    BY DEF ExposureChecks
  <2>2. QED
    BY <1>3, <2>1, CheckTyped DEF EvalExposure, Quiet, SameApprovals, RateTypeOK
<1>4. ASSUME NEW s \in Strategies, EvalRates(s)
      PROVE  RateTypeOK' /\ Checked(s)
  <2>1. RateChecks(eval[s].signal) \in BOOLEAN
    BY DEF RateChecks
  <2>2. EvalCheck(s, "rates", RateChecks(eval[s].signal), "decide")
    BY <1>4 DEF EvalRates
  <2>3. /\ RateTypeOK'
        /\ OnlyCall(s)
        /\ eval'[s].pc = "decide"
        /\ eval'[s].passed = (eval[s].passed /\ RateChecks(eval[s].signal))
    BY <2>1, <2>2, CheckTyped DEF OnlyCall
  <2>4. QED
    BY <2>3 DEF Checked
<1>5. ASSUME NEW s \in Strategies, EvalDecide(s)
      PROVE  RateTypeOK' /\ (Quiet \/ Decided(s))
  <2>1. RateTypeOK'
    BY <1>5, DecideTyped
  <2>2. CASE eval'[s].pc = "idle"
    BY <1>5, <2>2, DecideTyped DEF Quiet, SameApprovals, RateTypeOK
  <2>3. CASE eval'[s].pc # "idle"
    BY <1>5, <2>3, DecideTyped DEF Decided, OnlyCall
  <2>4. QED
    BY <2>1, <2>2, <2>3
<1>6. ASSUME NEW s \in Strategies, EvalRecord(s)
      PROVE  RateTypeOK'
    BY <1>6, RecordTyped
<1>7. ASSUME NEW i \in DOMAIN approvals, NEW q \in 1..approvals[i].left, ReportLock(i, q)
      PROVE  RateTypeOK' /\ Quiet
    BY <1>7, ReportTyped DEF Quiet, SameApprovals, RateTypeOK
<1>8. ASSUME UNCHANGED <<crashes, orderTimes, orderKeys, approvals, eval>>,
             clock' \in {clock, clock + 1}
      PROVE  RateTypeOK' /\ Quiet
    BY <1>8 DEF Quiet, SameApprovals, RateTypeOK
<1>9. CASE ReportSave \/ ReportReturn
    BY <1>8, <1>9 DEF ReportSave, ReportReturn, memory, history
<1>10. ASSUME NEW m, SetSystemMode(m)
       PROVE  RateTypeOK' /\ Quiet
    BY <1>8, <1>10 DEF SetSystemMode, process, history
<1>11. ASSUME NEW m, NEW at, NEW wide, UpdateMarketData(m, at, wide)
       PROVE  RateTypeOK' /\ Quiet
    BY <1>8, <1>11 DEF UpdateMarketData, memory, process, history
<1>12. CASE Tick
    BY <1>8, <1>12 DEF Tick, memory, process, history
<1>13. CASE RiskCrash
    BY <1>13, CrashTyped
<1>14. CASE LoadState
    BY <1>8, <1>14 DEF LoadState, history
<1>15. CASE UNCHANGED riskVars
    BY <1>8, <1>15 DEF riskVars, memory, process, history
<1>16. QED
    BY <1>1, <1>2, <1>3, <1>4, <1>5, <1>6, <1>7, <1>9, <1>10, <1>11, <1>12, <1>13, <1>14,
       <1>15 DEF RiskNext, EvaluateOrder, ReportFill

-----------------------------------------------------------------------------
\* Duplicates

\* Waiting, checking before the rates and reporting keep the invariant: what was
\* a window ago stays a window ago.
LEMMA DuplicateQuiet ==
    ASSUME DuplicateInv, RateTypeOK', Quiet
    PROVE  DuplicateInv'
<1> USE DEF DuplicateInv, Quiet, SameApprovals
<1>1. Past'
  <2>1. \A u \in Strategies : eval'[u].pc = "record" => eval'[u].at <= clock /\ eval'[u].at \in Nat
    BY RateNumbers DEF Past
  <2>2. QED
    BY <2>1, RateNumbers DEF Past
<1>2. Keyed'
    BY DEF Keyed
<1>3. KeysHold'
  <2> SUFFICES ASSUME NEW u \in Strategies, eval'[u] = eval[u], eval[u].pc \in {"decide", "record"}
               PROVE  /\ eval[u].pc = "decide" /\ eval[u].passed =>
                             NoDuplicate(eval[u].signal, clock)'
                      /\ eval[u].pc = "record" => NoDuplicate(eval[u].signal, eval[u].at)'
    BY DEF KeysHold, NoDuplicate, IdempotencyKey
  <2>1. NoDuplicate(eval[u].signal, clock) => NoDuplicate(eval[u].signal, clock)'
    BY RateNumbers DEF NoDuplicate, IdempotencyKey
  <2>2. NoDuplicate(eval[u].signal, eval[u].at) => NoDuplicate(eval[u].signal, eval[u].at)'
    BY DEF NoDuplicate, IdempotencyKey
  <2>3. QED
    BY <2>1, <2>2 DEF KeysHold
<1>4. DuplicatesApart'
    BY DEF DuplicatesApart
<1>5. QED
    BY <1>1, <1>2, <1>3, <1>4

\* The keys of two strategies differ.
LEMMA KeysApart ==
    ASSUME NEW o \in Signals, NEW p \in Signals, Strategy[o] # Strategy[p]
    PROVE  IdempotencyKey(o) # IdempotencyKey(p)
BY DEF IdempotencyKey

\* The rate checks and the decision establish what the call relies on.
LEMMA DuplicateCall ==
    ASSUME DuplicateInv, RateTypeOK', NEW s \in Strategies, Checked(s) \/ Decided(s)
    PROVE  DuplicateInv'
<1> USE DEF DuplicateInv
<1>1. OnlyCall(s)
    BY DEF Checked, Decided
<1>2. Past'
    BY <1>1, RateNumbers DEF OnlyCall, Past, Checked, Decided
<1>3. Keyed' /\ DuplicatesApart'
    BY <1>1 DEF OnlyCall, Keyed, DuplicatesApart
<1>4. KeysHold'
  <2>1. \A u \in Strategies \ {s} : /\ eval'[u] = eval[u]
                                     /\ orderKeys' = orderKeys /\ clock' = clock
    BY <1>1 DEF OnlyCall
  <2>2. CASE Checked(s)
    BY <2>1, <2>2 DEF KeysHold, NoDuplicate, Checked, OnlyCall, RateChecks, checkDuplicateOrder
  <2>3. CASE Decided(s)
    BY <2>1, <2>3 DEF KeysHold, NoDuplicate, Decided, OnlyCall
  <2>4. QED
    BY <2>2, <2>3
<1>5. QED
    BY <1>2, <1>3, <1>4

\* The entry a call makes is a window after every entry of its key, and takes
\* the place of the latest of them.
LEMMA DuplicateRecord ==
    ASSUME DuplicateInv, NEW s \in Strategies, EvalRecord(s)
    PROVE  DuplicateInv'
<1> DEFINE o  == eval[s].signal
           at == eval[s].at
           n  == Len(approvals) + 1
           key == IdempotencyKey(o)
<1> USE DEF DuplicateInv
<1>1. /\ RateTypeOK'
      /\ UNCHANGED <<clock, crashes>>
      /\ eval[s].pc = "record" /\ o \in Signals /\ Strategy[o] = s /\ at \in Nat
      /\ \A u \in Strategies \ {s} : eval'[u] = eval[u]
      /\ eval'[s].pc = "idle"
      /\ Len(approvals') = n
      /\ \A i \in DOMAIN approvals : approvals'[i] = approvals[i]
      /\ approvals'[n].signal = o
      /\ approvals'[n].at = at
      /\ approvals'[n].life = crashes
      /\ orderKeys' = KeysWith(key, at)
    BY RecordTyped
<1>2. DOMAIN approvals = 1..(n - 1) /\ DOMAIN approvals' = 1..n /\ n \in Nat \ {0}
    BY <1>1, SequenceTyped DEF RateTypeOK
<1>3. /\ \A k \in orderKeys : k.key = key => at - k.at >= DupWindow
      /\ at <= clock
    BY <1>1 DEF KeysHold, NoDuplicate, Past
<1>4. /\ \A i \in DOMAIN approvals : approvals[i] \in Approval
      /\ \A k \in orderKeys : k \in TrackedKey
      /\ clock \in Nat /\ crashes \in Nat
    BY SequenceTyped DEF RateTypeOK
<1>5. \A k \in orderKeys' : k = [key |-> key, at |-> at] \/ (k \in orderKeys /\ k.key # key)
    BY <1>1 DEF KeysWith
<1>6. [key |-> key, at |-> at] \in orderKeys' /\ \A k \in orderKeys : k.key # key => k \in orderKeys'
    BY <1>1 DEF KeysWith
<1>7. \A i \in DOMAIN approvals :
         approvals[i].life = crashes /\ IdempotencyKey(approvals[i].signal) = key =>
             at - approvals[i].at >= DupWindow
  <2> SUFFICES ASSUME NEW i \in DOMAIN approvals, approvals[i].life = crashes,
                      IdempotencyKey(approvals[i].signal) = key
               PROVE  at - approvals[i].at >= DupWindow
    OBVIOUS
  <2>1. PICK k \in orderKeys : k.key = key /\ k.at >= approvals[i].at
    BY DEF Keyed
  <2>2. QED
    BY <1>1, <1>3, <2>1, RateNumbers
<1>8. Past'
  <2>1. \A i \in DOMAIN approvals' : approvals'[i].at <= clock /\ approvals'[i].life <= crashes
    BY <1>1, <1>2, <1>3, <1>4 DEF Past
  <2>2. \A k \in orderKeys' : k.at <= clock
    BY <1>3, <1>5 DEF Past
  <2>3. QED
    BY <1>1, <2>1, <2>2 DEF Past
<1>9. Keyed'
  <2> SUFFICES ASSUME NEW i \in DOMAIN approvals', approvals'[i].life = crashes
               PROVE  \E k \in orderKeys' : /\ k.key = IdempotencyKey(approvals'[i].signal)
                                            /\ k.at >= approvals'[i].at
    BY <1>1 DEF Keyed, IdempotencyKey
  <2>1. CASE i = n
    BY <1>1, <1>6, <2>1
  <2>2. CASE i # n /\ IdempotencyKey(approvals[i].signal) = key
    <3>1. i \in DOMAIN approvals /\ approvals'[i] = approvals[i]
      BY <1>1, <1>2, <2>2
    <3>2. at >= approvals[i].at
      BY <1>1, <1>7, <2>2, <3>1, RateNumbers
    <3>3. QED
      BY <1>6, <2>2, <3>1, <3>2
  <2>3. CASE i # n /\ IdempotencyKey(approvals[i].signal) # key
    <3>1. i \in DOMAIN approvals /\ approvals'[i] = approvals[i]
      BY <1>1, <1>2, <2>3
    <3>2. PICK k \in orderKeys : k.key = IdempotencyKey(approvals[i].signal) /\ k.at >= approvals[i].at
      BY <3>1 DEF Keyed
    <3>3. QED
      BY <1>6, <2>3, <3>1, <3>2
  <2>4. QED
    BY <2>1, <2>2, <2>3
<1>10. KeysHold'
  <2> SUFFICES ASSUME NEW u \in Strategies
               PROVE  /\ eval'[u].pc = "decide" /\ eval'[u].passed =>
                             NoDuplicate(eval[u].signal, clock)' /\ eval'[u] = eval[u]
                      /\ eval'[u].pc = "record" =>
                             NoDuplicate(eval[u].signal, eval[u].at)' /\ eval'[u] = eval[u]
    BY DEF KeysHold, NoDuplicate, IdempotencyKey
  <2>1. CASE u = s
    BY <1>1, <2>1
  <2>2. CASE u # s /\ eval[u].pc # "idle"
    <3>1. eval'[u] = eval[u]
      BY <1>1, <2>2
    <3>2. eval[u].signal \in Signals /\ Strategy[eval[u].signal] # Strategy[o]
      BY <1>1, <2>2 DEF RateTypeOK
    <3>3. IdempotencyKey(eval[u].signal) # key
      BY <1>1, <3>2, KeysApart
    <3>4. \A t : NoDuplicate(eval[u].signal, t) =>
             \A k \in orderKeys' : k.key = IdempotencyKey(eval[u].signal) => t - k.at >= DupWindow
      BY <1>5, <3>3 DEF NoDuplicate
    <3>5. /\ eval[u].pc = "decide" /\ eval[u].passed => NoDuplicate(eval[u].signal, clock)
          /\ eval[u].pc = "record" => NoDuplicate(eval[u].signal, eval[u].at)
      BY DEF KeysHold
    <3>6. clock' = clock /\ \A t : NoDuplicate(eval[u].signal, t) =>
             \A k \in orderKeys' : k.key = IdempotencyKey(eval[u].signal) => t - k.at >= DupWindow
      BY <1>1, <3>4
    <3>7. QED
      BY <3>1, <3>5, <3>6 DEF NoDuplicate, IdempotencyKey
  <2>3. CASE u # s /\ eval[u].pc = "idle"
    BY <1>1, <2>3
  <2>4. QED
    BY <2>1, <2>2, <2>3
<1>11. DuplicatesApart'
  <2> SUFFICES ASSUME NEW i \in DOMAIN approvals', NEW j \in DOMAIN approvals', i < j,
                      approvals'[i].life = approvals'[j].life,
                      IdempotencyKey(approvals'[i].signal) = IdempotencyKey(approvals'[j].signal)
               PROVE  approvals'[j].at - approvals'[i].at >= DupWindow
    BY DEF DuplicatesApart, IdempotencyKey
  <2>1. i \in DOMAIN approvals /\ approvals'[i] = approvals[i]
    BY <1>1, <1>2
  <2>2. CASE j = n
    BY <1>1, <1>7, <2>1, <2>2
  <2>3. CASE j # n
    <3>1. j \in DOMAIN approvals /\ approvals'[j] = approvals[j]
      BY <1>1, <1>2, <2>3
    <3>2. QED
      BY <2>1, <3>1 DEF DuplicatesApart
  <2>4. QED
    BY <2>2, <2>3
<1>12. QED
    BY <1>1, <1>8, <1>9, <1>10, <1>11

\* After a crash no approval is of the new life, and no call is in flight.
LEMMA DuplicateCrash ==
    ASSUME DuplicateInv, RiskCrash
    PROVE  DuplicateInv'
<1> USE DEF DuplicateInv
<1>1. /\ RateTypeOK'
      /\ UNCHANGED <<clock, approvals>>
      /\ crashes' = crashes + 1
      /\ orderKeys' = {}
      /\ \A s \in Strategies : eval'[s].pc = "idle"
    BY CrashTyped
<1>2. /\ \A i \in DOMAIN approvals : approvals[i].life \in Nat
      /\ crashes \in Nat
    BY RateNumbers
<1>3. Past' /\ Keyed'
    BY <1>1, <1>2 DEF Past, Keyed
<1>4. KeysHold' /\ DuplicatesApart'
    BY <1>1 DEF KeysHold, DuplicatesApart
<1>5. QED
    BY <1>1, <1>3, <1>4

\* While the risk engine runs, two approvals of the same order (same strategy,
\* market, side and price) are at least the duplicate window apart, although
\* checkDuplicateOrder reads the tracking unlocked and before the decision time.
THEOREM RiskDuplicatesApart == RiskSpec => []DuplicatesApart
<1>1. RiskInit => DuplicateInv
  <2> SUFFICES ASSUME RiskInit PROVE DuplicateInv
    OBVIOUS
  <2>1. RateTypeOK
    BY RateTypeInit
  <2>2. Past /\ Keyed /\ KeysHold /\ DuplicatesApart
    BY DEF RiskInit, Past, Keyed, KeysHold, DuplicatesApart, IdleEval
  <2>3. QED
    BY <2>1, <2>2 DEF DuplicateInv
<1>2. DuplicateInv /\ [RiskNext]_riskVars => DuplicateInv'
  <2> SUFFICES ASSUME DuplicateInv, [RiskNext]_riskVars PROVE DuplicateInv'
    OBVIOUS
  <2>1. /\ RateTypeOK'
        /\ \/ Quiet
           \/ \E s \in Strategies : Checked(s) \/ Decided(s) \/ EvalRecord(s)
           \/ RiskCrash
    BY StepEffect DEF DuplicateInv
  <2>2. QED
    BY <2>1, DuplicateQuiet, DuplicateCall, DuplicateRecord, DuplicateCrash
<1>3. DuplicateInv => DuplicatesApart
    BY DEF DuplicateInv
<1>4. QED
    BY <1>1, <1>2, <1>3, PTL DEF RiskSpec

-----------------------------------------------------------------------------
\* Orders per minute

\* The approvals of s in this life of the engine.
Mine(s) == {j \in DOMAIN approvals : /\ Strategy[approvals[j].signal] = s
                                     /\ approvals[j].life = crashes}

\* They are all in the rate tracking, each with an entry of its own.
Tracked ==
    \A s \in Strategies : \E f \in [Mine(s) -> DOMAIN orderTimes[s]] :
        /\ \A j \in Mine(s) : orderTimes[s][f[j]] = approvals[j].at
        /\ \A i, j \in Mine(s) : f[i] = f[j] => i = j

\* The entries of s that count for an order at t.
Recent(s, t) == {i \in DOMAIN orderTimes[s] : orderTimes[s][i] > t - Minute}

\* The rate check of a call that passed holds until the call records, and no
\* approval of its strategy comes in between.
RatesHold ==
    \A s \in Strategies :
        /\ eval[s].pc = "decide" /\ eval[s].passed =>
              Cardinality(Recent(s, clock)) < Policy.maxPerMinute
        /\ eval[s].pc = "record" =>
              /\ Cardinality(Recent(s, eval[s].at)) < Policy.maxPerMinute
              /\ \A j \in Mine(s) : approvals[j].at <= eval[s].at

\* The approvals of s in one life within the minute up to t.
Window(s, life, t) == {j \in DOMAIN approvals : /\ Strategy[approvals[j].signal] = s
                                                /\ approvals[j].life = life
                                                /\ approvals[j].at <= t
                                                /\ approvals[j].at > t - Minute}

\* OrdersPerMinute in terms of windows.
WindowsBounded ==
    \A i \in DOMAIN approvals :
        Cardinality(Window(Strategy[approvals[i].signal], approvals[i].life, approvals[i].at))
            <= Policy.maxPerMinute

RateInv == RateTypeOK /\ Past /\ Tracked /\ RatesHold /\ WindowsBounded

\* The two forms say the same.
LEMMA WindowsForm == WindowsBounded => OrdersPerMinute
<1> SUFFICES ASSUME WindowsBounded, NEW i \in DOMAIN approvals
             PROVE  Cardinality({j \in WithinMinute(i) : approvals[j].life = approvals[i].life})
                        <= Policy.maxPerMinute
    BY DEF OrdersPerMinute
<1>1. {j \in WithinMinute(i) : approvals[j].life = approvals[i].life}
         = Window(Strategy[approvals[i].signal], approvals[i].life, approvals[i].at)
    BY DEF WithinMinute, SameStrategy, Window
<1>2. QED
    BY <1>1 DEF WindowsBounded

\* The entries that count at one time are finitely many, and fewer count later.
LEMMA RecentShrinks ==
    ASSUME RateTypeOK, NEW s \in Strategies, NEW t \in Nat, NEW u \in Nat, t <= u
    PROVE  /\ IsFiniteSet(Recent(s, t))
           /\ Cardinality(Recent(s, t)) \in Nat
           /\ Cardinality(Recent(s, u)) \in Nat
           /\ Cardinality(Recent(s, u)) <= Cardinality(Recent(s, t))
<1>1. orderTimes[s] \in Seq(Nat)
    BY DEF RateTypeOK
<1>2. /\ Len(orderTimes[s]) \in Nat
      /\ DOMAIN orderTimes[s] = 1..Len(orderTimes[s])
      /\ \A i \in DOMAIN orderTimes[s] : orderTimes[s][i] \in Nat
    BY <1>1, SequenceTyped
<1>3. IsFiniteSet(DOMAIN orderTimes[s])
    BY <1>2, FS_Interval
<1>4. Recent(s, t) \in SUBSET DOMAIN orderTimes[s]
    BY DEF Recent
<1>5. IsFiniteSet(Recent(s, t))
    BY <1>3, <1>4, FS_Subset
<1>6. Recent(s, u) \in SUBSET Recent(s, t)
  <2>1. Minute \in Nat
    BY RiskAssumption
  <2>2. ASSUME NEW i \in DOMAIN orderTimes[s], orderTimes[s][i] > u - Minute
        PROVE  orderTimes[s][i] > t - Minute
    <3>1. orderTimes[s][i] \in Nat
      BY <1>2
    <3>2. QED
      BY <2>1, <2>2, <3>1
  <2>3. QED
    BY <2>2 DEF Recent
<1>7. IsFiniteSet(Recent(s, u)) /\ Cardinality(Recent(s, u)) <= Cardinality(Recent(s, t))
    BY <1>5, <1>6, FS_Subset
<1>8. QED
    BY <1>5, <1>7, FS_CardinalityType

\* Approvals that only lose contracts are in the same sets.
LEMMA SameSets ==
    ASSUME SameApprovals, crashes' = crashes
    PROVE  /\ \A s : Mine(s)' = Mine(s)
           /\ \A s, life, t : Window(s, life, t)' = Window(s, life, t)
BY DEF SameApprovals, Mine, Window

\* The window of an approval holds fewer than the limit before it is recorded:
\* its other members have entries that the rate check counted.
LEMMA WindowCounted ==
    ASSUME RateInv, NEW s \in Strategies, eval[s].pc = "record"
    PROVE  /\ IsFiniteSet(Window(s, crashes, eval[s].at))
           /\ Cardinality(Window(s, crashes, eval[s].at)) + 1 <= Policy.maxPerMinute
<1> DEFINE at == eval[s].at
           W  == Window(s, crashes, at)
           R  == Recent(s, at)
<1> USE DEF RateInv
<1>1. PICK f \in [Mine(s) -> DOMAIN orderTimes[s]] :
         /\ \A j \in Mine(s) : orderTimes[s][f[j]] = approvals[j].at
         /\ \A i, j \in Mine(s) : f[i] = f[j] => i = j
    BY DEF Tracked
<1>2. W \subseteq Mine(s)
    BY DEF Window, Mine
<1>3. \A j \in W : f[j] \in R
    BY <1>1, <1>2 DEF Window, Recent
<1> DEFINE g == [j \in W |-> f[j]]
<1>4. g \in [W -> R] /\ \A i, j \in W : g[i] = g[j] => i = j
    BY <1>1, <1>2, <1>3
<1>5. g \in Injection(W, R)
    BY <1>4 DEF Injection, IsInjective
<1>6. at \in Nat
    BY RateNumbers
<1>7. IsFiniteSet(R) /\ Cardinality(R) \in Nat
    BY <1>6, RecentShrinks
<1>8. IsFiniteSet(W) /\ Cardinality(W) <= Cardinality(R)
    BY <1>5, <1>7, FS_Injection
<1>9. Cardinality(W) \in Nat
    BY <1>8, FS_CardinalityType
<1>10. Cardinality(R) < Policy.maxPerMinute /\ Policy.maxPerMinute \in Nat
    BY RiskAssumption DEF RatesHold
<1>11. QED
    BY <1>7, <1>8, <1>9, <1>10

\* Waiting, checking before the rates and reporting keep the invariant: an entry
\* that does not count does not count later.
LEMMA RateQuiet ==
    ASSUME RateInv, RateTypeOK', Quiet
    PROVE  RateInv'
<1> USE DEF RateInv, Quiet
<1>1. Past'
  <2>1. \A u \in Strategies : eval'[u].pc = "record" => eval'[u].at <= clock /\ eval'[u].at \in Nat
    BY RateNumbers DEF Past
  <2>2. QED
    BY <2>1, RateNumbers DEF Past, SameApprovals
<1>2. /\ \A s : Mine(s)' = Mine(s)
      /\ \A s, life, t : Window(s, life, t)' = Window(s, life, t)
      /\ \A s, t : Recent(s, t)' = Recent(s, t)
    BY SameSets DEF Recent
<1>3. Tracked'
  <2> SUFFICES ASSUME NEW s \in Strategies
               PROVE  \E f \in [Mine(s) -> DOMAIN orderTimes[s]] :
                          /\ \A j \in Mine(s) : orderTimes[s][f[j]] = approvals'[j].at
                          /\ \A i, j \in Mine(s) : f[i] = f[j] => i = j
    BY <1>2 DEF Tracked
  <2>1. \A j \in Mine(s) : approvals'[j].at = approvals[j].at
    BY DEF SameApprovals, Mine
  <2>2. QED
    BY <2>1 DEF Tracked
<1>4. RatesHold'
  <2> SUFFICES ASSUME NEW s \in Strategies, eval'[s] = eval[s]
               PROVE  /\ eval[s].pc = "decide" /\ eval[s].passed =>
                            Cardinality(Recent(s, clock')) < Policy.maxPerMinute
                      /\ eval[s].pc = "record" =>
                            /\ Cardinality(Recent(s, eval[s].at)) < Policy.maxPerMinute
                            /\ \A j \in Mine(s) : approvals'[j].at <= eval[s].at
    BY <1>2 DEF RatesHold
  <2>1. \A j \in Mine(s) : approvals'[j].at = approvals[j].at
    BY DEF SameApprovals, Mine
  <2>2. /\ Cardinality(Recent(s, clock)) \in Nat
        /\ Cardinality(Recent(s, clock')) \in Nat
        /\ Cardinality(Recent(s, clock')) <= Cardinality(Recent(s, clock))
    BY RecentShrinks, RateNumbers
  <2>3. Policy.maxPerMinute \in Nat
    BY RiskAssumption
  <2>4. QED
    BY <2>1, <2>2, <2>3 DEF RatesHold
<1>5. WindowsBounded'
    BY <1>2 DEF WindowsBounded, SameApprovals
<1>6. QED
    BY <1>1, <1>3, <1>4, <1>5

\* The rate check and the decision establish what the call relies on.
LEMMA RateCall ==
    ASSUME RateInv, RateTypeOK', NEW s \in Strategies, Checked(s) \/ Decided(s)
    PROVE  RateInv'
<1> USE DEF RateInv
<1>1. OnlyCall(s)
    BY DEF Checked, Decided
<1>2. Past'
    BY <1>1, RateNumbers DEF OnlyCall, Past, Checked, Decided
<1>3. /\ \A u : Mine(u)' = Mine(u)
      /\ \A u, life, t : Window(u, life, t)' = Window(u, life, t)
      /\ \A u, t : Recent(u, t)' = Recent(u, t)
    BY <1>1 DEF OnlyCall, Mine, Window, Recent
<1>4. Tracked' /\ WindowsBounded'
    BY <1>1, <1>3 DEF OnlyCall, Tracked, WindowsBounded
<1>5. ASSUME NEW u \in Strategies \ {s}
      PROVE  /\ eval'[u].pc = "decide" /\ eval'[u].passed =>
                    Cardinality(Recent(u, clock)) < Policy.maxPerMinute
             /\ eval'[u].pc = "record" =>
                    /\ Cardinality(Recent(u, eval'[u].at)) < Policy.maxPerMinute
                    /\ \A j \in Mine(u) : approvals[j].at <= eval'[u].at
    BY <1>1 DEF OnlyCall, RatesHold
<1>6. CASE Checked(s)
  <2>1. eval'[s].pc = "decide" /\ (eval'[s].passed => RateChecks(eval[s].signal))
    BY <1>6 DEF Checked
  <2>2. eval'[s].signal \in Signals /\ Strategy[eval'[s].signal] = s /\ eval'[s].signal = eval[s].signal
    BY <1>1, <2>1 DEF RateTypeOK, OnlyCall
  <2>3. checkStrategyOrderFrequency(eval[s].signal) =>
            Cardinality(Recent(s, clock)) < Policy.maxPerMinute
    BY <2>2 DEF checkStrategyOrderFrequency, Recent
  <2>4. eval'[s].passed => Cardinality(Recent(s, clock)) < Policy.maxPerMinute
    BY <2>1, <2>3 DEF RateChecks
  <2>5. RatesHold'
    BY <1>1, <1>3, <1>5, <2>1, <2>4 DEF RatesHold, OnlyCall
  <2>6. QED
    BY <1>2, <1>4, <2>5
<1>7. CASE Decided(s)
  <2>1. /\ eval'[s].pc = "record" /\ eval'[s].at = clock
        /\ Cardinality(Recent(s, clock)) < Policy.maxPerMinute
    BY <1>7 DEF Decided, RatesHold
  <2>2. \A j \in Mine(s) : approvals[j].at <= clock
    BY DEF Past, Mine
  <2>3. RatesHold'
    BY <1>1, <1>3, <1>5, <2>1, <2>2 DEF RatesHold, OnlyCall
  <2>4. QED
    BY <1>2, <1>4, <2>3
<1>8. QED
    BY <1>6, <1>7

\* After a crash no approval is of the new life, and no call is in flight.
LEMMA RateCrash ==
    ASSUME RateInv, RiskCrash
    PROVE  RateInv'
<1> USE DEF RateInv
<1>1. /\ RateTypeOK'
      /\ UNCHANGED <<clock, approvals>>
      /\ crashes' = crashes + 1
      /\ orderKeys' = {}
      /\ \A s \in Strategies : eval'[s].pc = "idle"
    BY CrashTyped
<1>2. \A s : Mine(s)' = {}
    BY <1>1, RateNumbers DEF Mine, Past
<1>3. Past'
    BY <1>1, RateNumbers DEF Past
<1>4. Tracked'
  <2> SUFFICES ASSUME NEW s \in Strategies
               PROVE  \E f \in [{} -> DOMAIN orderTimes'[s]] : TRUE
    BY <1>2 DEF Tracked
  <2>1. [x \in {} |-> 1] \in [{} -> DOMAIN orderTimes'[s]]
    OBVIOUS
  <2>2. QED
    BY <2>1
<1>5. RatesHold'
    BY <1>1 DEF RatesHold
<1>6. WindowsBounded'
    BY <1>1 DEF WindowsBounded, Window
<1>7. QED
    BY <1>1, <1>3, <1>4, <1>5, <1>6

\* Recording adds one approval to the window of its minute, which had room, and
\* one entry for it.
LEMMA RateRecord ==
    ASSUME RateInv, NEW s \in Strategies, EvalRecord(s)
    PROVE  RateInv'
<1> DEFINE at == eval[s].at
           n  == Len(approvals) + 1
<1> USE DEF RateInv
<1>1. /\ RateTypeOK'
      /\ UNCHANGED <<clock, crashes>>
      /\ eval[s].pc = "record" /\ eval[s].signal \in Signals
      /\ Strategy[eval[s].signal] = s /\ at \in Nat
      /\ \A u \in Strategies \ {s} : eval'[u] = eval[u]
      /\ eval'[s].pc = "idle"
      /\ Len(approvals') = n
      /\ \A i \in DOMAIN approvals : approvals'[i] = approvals[i]
      /\ approvals'[n].signal = eval[s].signal
      /\ approvals'[n].at = at
      /\ approvals'[n].life = crashes
      /\ orderKeys' = KeysWith(IdempotencyKey(eval[s].signal), at)
      /\ orderTimes'[s] = Append(orderTimes[s], at)
      /\ \A u \in Strategies \ {s} : orderTimes'[u] = orderTimes[u]
    BY RecordTyped
<1>2. /\ DOMAIN approvals' = DOMAIN approvals \cup {n}
      /\ n \notin DOMAIN approvals
      /\ \A i \in DOMAIN approvals : i # n
    BY <1>1, SequenceTyped DEF RateTypeOK
<1>3. at <= clock
    BY <1>1 DEF Past
<1>4. Past'
  <2>1. \A i \in DOMAIN approvals' : approvals'[i].at <= clock /\ approvals'[i].life <= crashes
    BY <1>1, <1>2, <1>3, RateNumbers DEF Past
  <2>2. \A k \in orderKeys' : k.at <= clock
    BY <1>1, <1>3 DEF Past, KeysWith
  <2>3. QED
    BY <1>1, <2>1, <2>2 DEF Past
<1>5. \A u \in Strategies : Mine(u)' = IF u = s THEN Mine(s) \cup {n} ELSE Mine(u)
    BY <1>1, <1>2 DEF Mine
<1>6. Tracked'
  <2> SUFFICES ASSUME NEW u \in Strategies
               PROVE  \E f \in [Mine(u)' -> DOMAIN orderTimes'[u]] :
                          /\ \A j \in Mine(u)' : orderTimes'[u][f[j]] = approvals'[j].at
                          /\ \A i, j \in Mine(u)' : f[i] = f[j] => i = j
    BY DEF Tracked
  <2>1. PICK f \in [Mine(u) -> DOMAIN orderTimes[u]] :
           /\ \A j \in Mine(u) : orderTimes[u][f[j]] = approvals[j].at
           /\ \A i, j \in Mine(u) : f[i] = f[j] => i = j
    BY DEF Tracked
  <2>2. \A j \in Mine(u) : j \in DOMAIN approvals /\ approvals'[j] = approvals[j] /\ j # n
    BY <1>1, <1>2 DEF Mine
  <2>3. CASE u # s
    BY <1>1, <1>5, <2>1, <2>2, <2>3
  <2>4. CASE u = s
    <3> DEFINE m == Len(orderTimes[s]) + 1
               g == [j \in Mine(s) \cup {n} |-> IF j = n THEN m ELSE f[j]]
    <3>1. orderTimes[s] \in Seq(Nat)
      BY DEF RateTypeOK
    <3>2. /\ DOMAIN orderTimes'[s] = DOMAIN orderTimes[s] \cup {m}
          /\ m \notin DOMAIN orderTimes[s]
          /\ orderTimes'[s][m] = at
          /\ \A i \in DOMAIN orderTimes[s] : orderTimes'[s][i] = orderTimes[s][i]
      BY <1>1, <3>1
    <3>3. /\ g \in [Mine(s) \cup {n} -> DOMAIN orderTimes'[s]]
          /\ g[n] = m
          /\ \A j \in Mine(s) : g[j] = f[j] /\ f[j] \in DOMAIN orderTimes[s]
      BY <2>1, <2>2, <2>4, <3>2
    <3>4. \A j \in Mine(s) \cup {n} : orderTimes'[s][g[j]] = approvals'[j].at
      BY <1>1, <2>1, <2>2, <2>4, <3>2, <3>3
    <3>5. \A i, j \in Mine(s) \cup {n} : g[i] = g[j] => i = j
      BY <2>1, <2>2, <2>4, <3>2, <3>3
    <3> HIDE DEF g
    <3>6. \E h \in [Mine(s) \cup {n} -> DOMAIN orderTimes'[s]] :
             /\ \A j \in Mine(s) \cup {n} : orderTimes'[s][h[j]] = approvals'[j].at
             /\ \A i, j \in Mine(s) \cup {n} : h[i] = h[j] => i = j
      BY <3>3, <3>4, <3>5
    <3>7. Mine(u)' = Mine(s) \cup {n} /\ orderTimes'[u] = orderTimes'[s]
      BY <1>5, <2>4
    <3>8. QED
      BY <3>6, <3>7
  <2>5. QED
    BY <2>3, <2>4
<1>7. RatesHold'
  <2> SUFFICES ASSUME NEW u \in Strategies
               PROVE  /\ eval'[u].pc = "decide" /\ eval'[u].passed =>
                            Cardinality(Recent(u, clock)') < Policy.maxPerMinute
                      /\ eval'[u].pc = "record" =>
                            /\ Cardinality(Recent(u, eval[u].at)') < Policy.maxPerMinute
                            /\ \A j \in Mine(u)' : approvals'[j].at <= eval'[u].at
    BY DEF RatesHold
  <2>1. CASE u = s
    BY <1>1, <2>1
  <2>2. CASE u # s
    <3>1. /\ eval'[u] = eval[u] /\ Mine(u)' = Mine(u)
          /\ Recent(u, clock)' = Recent(u, clock)
          /\ Recent(u, eval[u].at)' = Recent(u, eval[u].at)
      BY <1>1, <1>5, <2>2 DEF Recent
    <3>2. \A j \in Mine(u) : approvals'[j] = approvals[j]
      BY <1>1 DEF Mine
    <3>3. QED
      BY <3>1, <3>2 DEF RatesHold
  <2>3. QED
    BY <2>1, <2>2
<1>8. WindowsBounded'
  <2> DEFINE W == Window(s, crashes, at)
             V(u, life, t) == {j \in DOMAIN approvals' : /\ Strategy[approvals'[j].signal] = u
                                                         /\ approvals'[j].life = life
                                                         /\ approvals'[j].at <= t
                                                         /\ approvals'[j].at > t - Minute}
  <2>1. IsFiniteSet(W) /\ Cardinality(W) + 1 <= Policy.maxPerMinute
    BY <1>1, WindowCounted
  <2>2. IsFiniteSet(W \cup {n}) /\ Cardinality(W \cup {n}) <= Policy.maxPerMinute
    <3>1. n \notin W
      BY <1>2 DEF Window
    <3>2. QED
      BY <2>1, <3>1, FS_AddElement
  <2>3. V(s, crashes, at) \in SUBSET (W \cup {n})
    BY <1>1, <1>2 DEF Window
  <2>4. Cardinality(V(s, crashes, at)) <= Policy.maxPerMinute
    <3>1. /\ IsFiniteSet(V(s, crashes, at))
          /\ Cardinality(V(s, crashes, at)) <= Cardinality(W \cup {n})
      BY <2>2, <2>3, FS_Subset
    <3>2. /\ Cardinality(V(s, crashes, at)) \in Nat
          /\ Cardinality(W \cup {n}) \in Nat
          /\ Policy.maxPerMinute \in Nat
      BY <2>2, <3>1, FS_CardinalityType, RiskAssumption
    <3> HIDE DEF V, W
    <3>3. QED
      BY <2>2, <3>1, <3>2
  <2> SUFFICES ASSUME NEW i \in DOMAIN approvals'
               PROVE  Cardinality(V(Strategy[approvals'[i].signal], approvals'[i].life,
                                    approvals'[i].at)) <= Policy.maxPerMinute
    BY DEF WindowsBounded, Window
  <2>5. CASE i = n
    <3>1. /\ Strategy[approvals'[i].signal] = s
          /\ approvals'[i].life = crashes /\ approvals'[i].at = at
      BY <1>1, <2>5
    <3> HIDE DEF V
    <3>2. QED
      BY <2>4, <3>1
  <2>6. CASE i # n
    <3> DEFINE u == Strategy[approvals[i].signal]
               life == approvals[i].life
               t == approvals[i].at
    <3>1. i \in DOMAIN approvals /\ approvals'[i] = approvals[i] /\ t \in Nat
      BY <1>1, <1>2, <2>6, RateNumbers
    <3>2. CASE u = s /\ life = crashes /\ at <= t
      <4>1. i \in Mine(s)
        BY <3>1, <3>2 DEF Mine
      <4>2. t = at
        BY <1>1, <3>1, <3>2, <4>1 DEF RatesHold
      <4>3. QED
        BY <2>4, <3>1, <3>2, <4>2
    <3>3. CASE ~(u = s /\ life = crashes /\ at <= t)
      <4>1. V(u, life, t) = Window(u, life, t)
        BY <1>1, <1>2, <3>3 DEF Window
      <4>2. QED
        BY <3>1, <4>1 DEF WindowsBounded
    <3>4. QED
      BY <3>2, <3>3
  <2>7. QED
    BY <2>5, <2>6
<1>9. QED
    BY <1>1, <1>4, <1>6, <1>7, <1>8

\* While the risk engine runs, no minute holds more approvals of a strategy than
\* max_orders_per_minute, although time passes between the rate check, the decision
\* and the entry in the tracking.
THEOREM RiskOrdersPerMinute == RiskSpec => []OrdersPerMinute
<1>1. RiskInit => RateInv
  <2> SUFFICES ASSUME RiskInit PROVE RateInv
    OBVIOUS
  <2>1. RateTypeOK
    BY RateTypeInit
  <2>2. Past /\ RatesHold /\ WindowsBounded
    BY DEF RiskInit, Past, RatesHold, WindowsBounded, IdleEval
  <2>3. \A s : Mine(s) = {}
    BY DEF RiskInit, Mine
  <2>4. Tracked
    <3> SUFFICES ASSUME NEW s \in Strategies
                 PROVE  \E f \in [{} -> DOMAIN orderTimes[s]] : TRUE
      BY <2>3 DEF Tracked
    <3>1. [x \in {} |-> 1] \in [{} -> DOMAIN orderTimes[s]]
      OBVIOUS
    <3>2. QED
      BY <3>1
  <2>5. QED
    BY <2>1, <2>2, <2>4 DEF RateInv
<1>2. RateInv /\ [RiskNext]_riskVars => RateInv'
  <2> SUFFICES ASSUME RateInv, [RiskNext]_riskVars PROVE RateInv'
    OBVIOUS
  <2>1. /\ RateTypeOK'
        /\ \/ Quiet
           \/ \E s \in Strategies : Checked(s) \/ Decided(s) \/ EvalRecord(s)
           \/ RiskCrash
    BY StepEffect DEF RateInv
  <2>2. QED
    BY <2>1, RateQuiet, RateCall, RateRecord, RateCrash
<1>3. RateInv => OrdersPerMinute
    BY WindowsForm DEF RateInv
<1>4. QED
    BY <1>1, <1>2, <1>3, PTL DEF RiskSpec

-----------------------------------------------------------------------------
\* Fills

Fill == [signal : Signals, qty : Nat]
Pos == [contracts : Int, notional : Int]
Report == [pc : {"idle", "save", "return"}, signal : Signals \cup {"none"}, qty : Nat,
           saved : BOOLEAN]

FillTypeOK ==
    /\ book \in [PositionKeys -> Pos]
    /\ positions \in [PositionKeys -> Pos]
    /\ acked \in Seq(Fill)
    /\ cut \in Seq(Fill)
    /\ report \in Report
    /\ report.pc # "idle" => report.signal \in Signals /\ lock = "fill" /\ up
    /\ report.pc = "save" => ~report.saved

\* What a fill brings to a position, and the fills of a sequence that do.
Brings(f, k) == IF PositionKey(f.signal) = k THEN Bought(f) ELSE 0
Amounts(fills, part, k) == [i \in FillsOf(fills, part, k) |-> Bought(fills[i])]

\* The acknowledged fills and some of the others.
Total(kept, k) == Contracts(acked, DOMAIN acked, k) + Contracts(cut, kept, k)

\* The fill of the report in progress is in memory at once, and in the table once
\* it is saved.
InMemory(k) == IF report.pc # "idle" THEN Brings(TheFill, k) ELSE 0
InTable(k) == IF report.pc = "return" /\ report.saved THEN Brings(TheFill, k) ELSE 0

BookHolds(kept) == \A k \in PositionKeys : book[k].contracts = Total(kept, k) + InMemory(k)
TableHolds(kept) == \A k \in PositionKeys : positions[k].contracts = Total(kept, k) + InTable(k)

\* Memory and table may hold different ones of the fills that failed: a later fill
\* of the same position saves those before it too.
FillsInv ==
    /\ FillTypeOK
    /\ up => \E kept \in SUBSET DOMAIN cut : BookHolds(kept)
    /\ \E kept \in SUBSET DOMAIN cut : TableHolds(kept)

\* A part of a sequence of fills is a finite set of numbers.
LEMMA AmountsType ==
    ASSUME NEW fills \in Seq(Fill), NEW part \in SUBSET DOMAIN fills, NEW k
    PROVE  /\ IsFiniteSet(FillsOf(fills, part, k))
           /\ Amounts(fills, part, k) \in [FillsOf(fills, part, k) -> Int]
           /\ Contracts(fills, part, k) = SumFunction(Amounts(fills, part, k))
           /\ Contracts(fills, part, k) \in Int
<1>1. Len(fills) \in Nat /\ DOMAIN fills = 1..Len(fills) /\ \A i \in DOMAIN fills : fills[i] \in Fill
    BY SequenceTyped
<1>2. IsFiniteSet(1..Len(fills))
    BY <1>1, FS_Interval
<1>3. FillsOf(fills, part, k) \in SUBSET (1..Len(fills))
    BY <1>1 DEF FillsOf
<1>4. IsFiniteSet(FillsOf(fills, part, k))
    BY <1>2, <1>3, FS_Subset
<1>5. \A i \in FillsOf(fills, part, k) : Bought(fills[i]) \in Int
  <2>1. \A i \in FillsOf(fills, part, k) : fills[i] \in Fill
    BY <1>1, <1>3
  <2>2. \A i \in FillsOf(fills, part, k) : fills[i].qty \in Nat
    BY <2>1 DEF Fill
  <2>3. QED
    BY <2>2 DEF Bought
<1>6. Amounts(fills, part, k) \in [FillsOf(fills, part, k) -> Int]
    BY <1>5 DEF Amounts
<1>7. Contracts(fills, part, k) = SumFunction(Amounts(fills, part, k))
    BY DEF Contracts, Amounts
<1>8. SumFunction(Amounts(fills, part, k)) \in Int
    BY <1>4, <1>6, SumInt
<1>9. QED
    BY <1>4, <1>6, <1>7, <1>8

\* One more fill leaves the sums over the others and adds its own part.
Extends(r, fills, f, part, k) ==
    /\ r \in Seq(Fill)
    /\ DOMAIN r = DOMAIN fills \cup {Len(fills) + 1}
    /\ Contracts(r, part, k) = Contracts(fills, part, k)
    /\ Contracts(r, part \cup {Len(fills) + 1}, k) = Contracts(fills, part, k) + Brings(f, k)

LEMMA FillAppended ==
    ASSUME NEW fills \in Seq(Fill), NEW f \in Fill,
           NEW part \in SUBSET DOMAIN fills, NEW k
    PROVE  Extends(Append(fills, f), fills, f, part, k)
<1>0. PICK r : r = Append(fills, f)
    OBVIOUS
<1> DEFINE n == Len(fills) + 1
<1>1. Len(fills) \in Nat /\ DOMAIN fills = 1..Len(fills)
    BY SequenceTyped
<1>2. /\ r \in Seq(Fill) /\ DOMAIN r = 1..n /\ r[n] = f
      /\ \A i \in DOMAIN fills : r[i] = fills[i]
    BY <1>0, <1>1
<1>3. DOMAIN r = DOMAIN fills \cup {n} /\ n \notin DOMAIN fills
    BY <1>1, <1>2
<1> HIDE DEF n
<1>4. \A i \in part : r[i] = fills[i]
    BY <1>2
<1>5. FillsOf(r, part, k) = FillsOf(fills, part, k)
    BY <1>4 DEF FillsOf
<1>6. Amounts(r, part, k) = Amounts(fills, part, k)
    BY <1>4, <1>5 DEF Amounts, FillsOf
<1>7. Contracts(r, part, k) = Contracts(fills, part, k)
    BY <1>6 DEF Contracts, Amounts
<1> DEFINE all == part \cup {n}
<1>8. all \in SUBSET DOMAIN r
    BY <1>3
<1>9. Contracts(r, all, k) = Contracts(fills, part, k) + Brings(f, k)
  <2>1. CASE PositionKey(f.signal) # k
    <3>1. FillsOf(r, all, k) = FillsOf(r, part, k)
      BY <1>2, <2>1 DEF FillsOf
    <3>2. Contracts(r, all, k) = Contracts(r, part, k)
      BY <3>1 DEF Contracts
    <3>3. Brings(f, k) = 0 /\ Contracts(fills, part, k) \in Int
      BY <2>1, AmountsType DEF Brings
    <3>4. QED
      BY <1>7, <3>2, <3>3
  <2>2. CASE PositionKey(f.signal) = k
    <3>1. PICK S : S = FillsOf(fills, part, k)
      OBVIOUS
    <3>2. PICK a : a = Amounts(fills, part, k)
      OBVIOUS
    <3>3. PICK b : b = Amounts(r, all, k)
      OBVIOUS
    <3>4. FillsOf(r, all, k) = S \cup {n}
      BY <1>2, <1>5, <2>2, <3>1 DEF FillsOf
    <3>5. n \notin S
      BY <1>3, <3>1 DEF FillsOf
    <3>6. IsFiniteSet(S)
      BY <3>1, AmountsType
    <3>7. a \in [S -> Int]
      BY <3>1, <3>2, AmountsType
    <3>8. b \in [S \cup {n} -> Int]
      BY <1>2, <1>8, <3>3, <3>4, AmountsType
    <3>9. \A i \in S : b[i] = a[i]
      BY <1>4, <3>1, <3>2, <3>3, <3>4 DEF Amounts, FillsOf
    <3>10. SumFunction(b) = SumFunction(a) + b[n]
      <4>1. OneMore(a, b, S, n)
        BY <3>5, <3>6, <3>7, <3>8, <3>9 DEF OneMore
      <4>2. QED
        BY <4>1, SumOneMore
    <3>11. b[n] = Brings(f, k)
      BY <1>2, <2>2, <3>3, <3>4 DEF Amounts, Brings
    <3>12. Contracts(r, all, k) = SumFunction(b) /\ Contracts(fills, part, k) = SumFunction(a)
      BY <3>2, <3>3 DEF Contracts, Amounts
    <3>13. QED
      BY <3>10, <3>11, <3>12
  <2>3. QED
    BY <2>1, <2>2
<1>10. Extends(r, fills, f, part, k)
    BY <1>2, <1>3, <1>7, <1>9 DEF n, Extends
<1>11. QED
    BY <1>0, <1>10


\* The numbers of the invariant.
LEMMA FillNumbers ==
    ASSUME FillTypeOK, NEW k, NEW kept \in SUBSET DOMAIN cut
    PROVE  /\ Contracts(acked, DOMAIN acked, k) \in Int
           /\ Contracts(cut, kept, k) \in Int
           /\ report.pc # "idle" => TheFill \in Fill /\ Brings(TheFill, k) \in Int
<1>1. Contracts(acked, DOMAIN acked, k) \in Int /\ Contracts(cut, kept, k) \in Int
    BY AmountsType DEF FillTypeOK
<1>2. ASSUME report.pc # "idle"
      PROVE  TheFill \in Fill /\ Brings(TheFill, k) \in Int
  <2>1. report.signal \in Signals /\ report.qty \in Nat
    BY <1>2 DEF FillTypeOK, Report
  <2>2. TheFill \in Fill /\ TheFill.qty \in Nat
    BY <2>1 DEF TheFill, Fill
  <2>3. QED
    BY <2>2 DEF Brings, Bought
<1>3. QED
    BY <1>1, <1>2

\* Steps that touch none of it.
LEMMA FillsKept ==
    ASSUME FillsInv, UNCHANGED <<book, positions, acked, cut, report, lock, up>>
    PROVE  FillsInv'
<1>1. \A kept, k : Total(kept, k)' = Total(kept, k) /\ InMemory(k)' = InMemory(k)
                  /\ InTable(k)' = InTable(k)
    BY DEF Total, Contracts, FillsOf, InMemory, InTable, Brings, TheFill
<1>2. \A kept : (BookHolds(kept)' <=> BookHolds(kept)) /\ (TableHolds(kept)' <=> TableHolds(kept))
  <2> HIDE DEF Total, InMemory, InTable
  <2>1. QED
    BY <1>1 DEF BookHolds, TableHolds
<1>3. FillTypeOK'
    BY DEF FillsInv, FillTypeOK
<1>4. QED
    BY <1>2, <1>3 DEF FillsInv

\* A fill is added to its position in memory.
LEMMA FillsLock ==
    ASSUME RateTypeOK, FillsInv, NEW i \in DOMAIN approvals, NEW q \in 1..approvals[i].left,
           ReportLock(i, q)
    PROVE  FillsInv'
<1>1. PICK o : o = approvals[i].signal
    OBVIOUS
<1>2. PICK p : p = PositionKey(o)
    OBVIOUS
<1>3. /\ up /\ lock = "free" /\ lock' = "fill"
      /\ book' = [book EXCEPT ![p] = Filled(@, o, q)]
      /\ report' = [pc |-> "save", signal |-> o, qty |-> q, saved |-> FALSE]
      /\ UNCHANGED <<up, positions, acked, cut>>
    BY <1>1, <1>2 DEF ReportLock
<1>4. report.pc = "idle" /\ FillTypeOK
    BY <1>3 DEF FillsInv, FillTypeOK, Report
<1>5. o \in Signals /\ q \in Nat
  <2>1. approvals[i] \in Approval
    BY SequenceTyped DEF RateTypeOK
  <2>2. approvals[i].left \in Nat /\ approvals[i].signal \in Signals
    BY <2>1 DEF Approval
  <2>3. QED
    BY <1>1, <2>2
<1>6. p \in PositionKeys
    BY <1>2, <1>5 DEF PositionKeys, PositionKey
<1>7. TheFill' = [signal |-> o, qty |-> q]
    BY <1>3 DEF TheFill
<1>8. PICK d : d = Bought([signal |-> o, qty |-> q])
    OBVIOUS
<1>9. d \in Int /\ \A k : Brings(TheFill, k)' = IF p = k THEN d ELSE 0
    BY <1>2, <1>5, <1>7, <1>8 DEF Brings, Bought
<1>10. book[p] \in Pos /\ book[p].contracts \in Int /\ book[p].notional \in Int
    BY <1>4, <1>6 DEF FillTypeOK, Pos
<1>11. Filled(book[p], o, q) \in Pos /\ Filled(book[p], o, q).contracts = book[p].contracts + d
  <2>1. Side[o] \in {"buy", "sell"} /\ Price[o] \in Nat
    BY <1>5, RiskAssumption
  <2>2. CASE Side[o] = "buy"
    <3>1. Filled(book[p], o, q) = [contracts |-> book[p].contracts + 1 * q,
                                   notional |-> book[p].notional + 1 * q * Price[o]]
      BY <2>2 DEF Filled
    <3>2. 1 * q = q /\ 1 * q * Price[o] \in Int /\ d = q
      BY <1>5, <1>8, <2>1, <2>2 DEF Bought
    <3>3. book[p].notional + 1 * q * Price[o] \in Int /\ book[p].contracts + q \in Int
      BY <1>5, <1>10, <3>2
    <3>4. QED
      BY <3>1, <3>2, <3>3 DEF Pos
  <2>3. CASE Side[o] = "sell"
    <3>1. Filled(book[p], o, q) = [contracts |-> book[p].contracts + (-1) * q,
                                   notional |-> book[p].notional + (-1) * q * Price[o]]
      BY <2>3 DEF Filled
    <3>2. (-1) * q = -q /\ (-1) * q * Price[o] \in Int /\ d = -q
      BY <1>5, <1>8, <2>1, <2>3 DEF Bought
    <3>3. book[p].notional + (-1) * q * Price[o] \in Int /\ book[p].contracts + (-q) \in Int
      BY <1>5, <1>10, <3>2
    <3>4. QED
      BY <3>1, <3>2, <3>3 DEF Pos
  <2>4. QED
    BY <2>1, <2>2, <2>3
<1>12. /\ book' \in [PositionKeys -> Pos]
       /\ book'[p].contracts = book[p].contracts + d
       /\ \A k \in PositionKeys : k # p => book'[k] = book[k]
  <2>1. book \in [PositionKeys -> Pos] /\ book' = [book EXCEPT ![p] = Filled(book[p], o, q)]
    BY <1>3, <1>4 DEF FillTypeOK
  <2>2. QED
    BY <1>6, <1>11, <2>1
<1>13. FillTypeOK'
  <2>1. report' \in Report /\ report'.signal \in Signals /\ ~report'.saved
    BY <1>3, <1>5 DEF Report
  <2>2. QED
    BY <1>3, <1>4, <1>12, <2>1 DEF FillTypeOK
<1>14. \A kept, k : Total(kept, k)' = Total(kept, k)
    BY <1>3 DEF Total, Contracts, FillsOf
<1>15. \A k : InMemory(k) = 0 /\ InTable(k) = 0 /\ InTable(k)' = 0
               /\ InMemory(k)' = IF p = k THEN d ELSE 0
  <2>1. \A k : InMemory(k) = 0 /\ InTable(k) = 0
    BY <1>4 DEF InMemory, InTable
  <2>2. \A k : InTable(k)' = 0
    BY <1>3 DEF InTable
  <2>3. \A k : InMemory(k)' = Brings(TheFill, k)'
    BY <1>3 DEF InMemory
  <2>4. QED
    BY <1>9, <2>1, <2>2, <2>3
<1>16. \A kept : TableHolds(kept) => TableHolds(kept)'
  <2> HIDE DEF Total, InTable
  <2>1. QED
    BY <1>3, <1>14, <1>15 DEF TableHolds
<1>17. ASSUME NEW kept \in SUBSET DOMAIN cut, BookHolds(kept)
       PROVE  BookHolds(kept)'
  <2>1. ASSUME NEW k \in PositionKeys
        PROVE  book'[k].contracts = Total(kept, k)' + InMemory(k)'
    <3>1. book[k].contracts = Total(kept, k) + 0
      BY <1>15, <1>17 DEF BookHolds
    <3>2. Total(kept, k) \in Int
      BY <1>4, FillNumbers DEF Total
    <3>3. CASE k = p
      BY <1>9, <1>12, <1>14, <1>15, <3>1, <3>2, <3>3
    <3>4. CASE k # p
      BY <1>12, <1>14, <1>15, <3>1, <3>2, <3>4
    <3>5. QED
      BY <3>3, <3>4
  <2>2. QED
    BY <2>1 DEF BookHolds
<1>18. QED
    BY <1>3, <1>13, <1>16, <1>17 DEF FillsInv


\* The position is saved as it is in memory, with the fills that failed before.
LEMMA FillsSave ==
    ASSUME FillsInv, ReportSave
    PROVE  FillsInv'
<1>1. PICK p : p = PositionKey(report.signal)
    OBVIOUS
<1>2. report.pc = "save" /\ UNCHANGED <<book, acked, cut, lock, up>>
    BY DEF ReportSave, memory, history
<1>3. FillTypeOK /\ report.signal \in Signals /\ up /\ lock = "fill" /\ ~report.saved
    BY <1>2 DEF FillsInv, FillTypeOK
<1>4. \A kept, k : Total(kept, k)' = Total(kept, k)
    BY <1>2 DEF Total, Contracts, FillsOf
<1>5. \A k : InTable(k) = 0 /\ InMemory(k) = Brings(TheFill, k)
    BY <1>2 DEF InTable, InMemory
<1>6. ASSUME report'.pc = "return", TheFill' = TheFill
      PROVE  \A kept : BookHolds(kept) => BookHolds(kept)'
  <2>1. \A k : InMemory(k)' = InMemory(k)
    BY <1>2, <1>6 DEF InMemory, Brings
  <2> HIDE DEF Total, InMemory
  <2>2. QED
    BY <1>2, <1>4, <2>1 DEF BookHolds
<1>7. CASE positions' = positions /\ report' = [report EXCEPT !.pc = "return"]
  <2>1. /\ report' \in Report /\ report'.pc = "return" /\ report'.signal = report.signal
        /\ report'.qty = report.qty /\ ~report'.saved
    BY <1>3, <1>7 DEF FillTypeOK, Report
  <2>2. FillTypeOK'
    BY <1>2, <1>3, <1>7, <2>1 DEF FillTypeOK
  <2>3. TheFill' = TheFill
    BY <2>1 DEF TheFill
  <2>4. \A k : InTable(k)' = 0
    BY <2>1 DEF InTable
  <2>5. \A kept : TableHolds(kept) => TableHolds(kept)'
    <3> HIDE DEF Total, InTable
    <3>1. QED
      BY <1>4, <1>5, <1>7, <2>4 DEF TableHolds
  <2>6. QED
    BY <1>2, <1>6, <2>1, <2>2, <2>3, <2>5 DEF FillsInv
<1>8. CASE /\ positions' = [positions EXCEPT ![p] = book[p]]
           /\ report' = [report EXCEPT !.pc = "return", !.saved = TRUE]
  <2>1. /\ report' \in Report /\ report'.pc = "return" /\ report'.signal = report.signal
        /\ report'.qty = report.qty /\ report'.saved
    BY <1>3, <1>8 DEF FillTypeOK, Report
  <2>2. p \in PositionKeys
    BY <1>1, <1>3 DEF PositionKeys, PositionKey
  <2>3. /\ positions' \in [PositionKeys -> Pos]
        /\ positions'[p] = book[p]
        /\ \A k \in PositionKeys : k # p => positions'[k] = positions[k]
    <3>1. positions \in [PositionKeys -> Pos] /\ book[p] \in Pos
      BY <1>3, <2>2 DEF FillTypeOK
    <3>2. QED
      BY <1>8, <2>2, <3>1
  <2>4. FillTypeOK'
    BY <1>2, <1>3, <2>1, <2>3 DEF FillTypeOK
  <2>5. TheFill' = TheFill
    BY <2>1 DEF TheFill
  <2>6. \A k : InTable(k)' = Brings(TheFill, k)
    BY <2>1, <2>5 DEF InTable, Brings
  <2>7. PICK mem \in SUBSET DOMAIN cut : BookHolds(mem)
    BY <1>3 DEF FillsInv
  <2>8. PICK tab \in SUBSET DOMAIN cut : TableHolds(tab)
    BY DEF FillsInv
  <2>9. PICK kept : kept = {i \in mem : PositionKey(cut[i].signal) = p}
                               \cup {i \in tab : PositionKey(cut[i].signal) # p}
    OBVIOUS
  <2>10. kept \in SUBSET DOMAIN cut
    BY <2>9
  <2>11. Total(kept, p) = Total(mem, p)
    <3>1. FillsOf(cut, kept, p) = FillsOf(cut, mem, p)
      BY <2>9 DEF FillsOf
    <3>2. QED
      BY <3>1 DEF Total, Contracts
  <2>12. \A k : k # p => Total(kept, k) = Total(tab, k)
    <3>1. ASSUME NEW k, k # p
          PROVE  Total(kept, k) = Total(tab, k)
      <4>1. FillsOf(cut, kept, k) = FillsOf(cut, tab, k)
        BY <2>9, <3>1 DEF FillsOf
      <4>2. QED
        BY <4>1 DEF Total, Contracts
    <3>2. QED
      BY <3>1
  <2>13. TableHolds(kept)'
    <3>1. ASSUME NEW k \in PositionKeys
          PROVE  positions'[k].contracts = Total(kept, k)' + InTable(k)'
      <4>1. CASE k = p
        <5>1. book[p].contracts = Total(mem, p) + Brings(TheFill, p)
          BY <1>5, <2>2, <2>7 DEF BookHolds
        <5>2. QED
          BY <1>4, <2>3, <2>6, <2>11, <4>1, <5>1
      <4>2. CASE k # p
        <5>1. positions[k].contracts = Total(tab, k) + 0
          BY <1>5, <2>8 DEF TableHolds
        <5>2. Brings(TheFill, k) = 0
          BY <1>1, <4>2 DEF Brings, TheFill
        <5>3. QED
          BY <1>4, <2>3, <2>6, <2>12, <4>2, <5>1, <5>2
      <4>3. QED
        BY <4>1, <4>2
    <3>2. QED
      BY <3>1 DEF TableHolds
  <2>14. BookHolds(mem)'
    BY <1>6, <2>1, <2>5, <2>7
  <2>15. QED
    BY <1>2, <2>4, <2>10, <2>13, <2>14 DEF FillsInv
<1>9. QED
    BY <1>1, <1>7, <1>8 DEF ReportSave

\* The fill of the report joins the acknowledged ones, or the others.
LEMMA Joins ==
    ASSUME FillTypeOK, report.pc # "idle", NEW k, NEW kept \in SUBSET DOMAIN cut
    PROVE  /\ acked' = Append(acked, TheFill) /\ cut' = cut =>
                 /\ acked' \in Seq(Fill)
                 /\ Total(kept, k)' = Total(kept, k) + Brings(TheFill, k)
           /\ cut' = Append(cut, TheFill) /\ acked' = acked =>
                 /\ cut' \in Seq(Fill)
                 /\ DOMAIN cut' = DOMAIN cut \cup {Len(cut) + 1}
                 /\ Total(kept, k)' = Total(kept, k)
                 /\ \A n \in {Len(cut) + 1} :
                       Total(kept \cup {n}, k)' = Total(kept, k) + Brings(TheFill, k)
<1>1. PICK f : f = TheFill
    OBVIOUS
<1>2. /\ Contracts(acked, DOMAIN acked, k) \in Int /\ Contracts(cut, kept, k) \in Int
      /\ f \in Fill /\ Brings(f, k) \in Int
    BY <1>1, FillNumbers
<1>3. acked \in Seq(Fill) /\ cut \in Seq(Fill)
    BY DEF FillTypeOK
<1>4. \A K : Total(K, k)' = Contracts(acked', DOMAIN acked', k) + Contracts(cut', K, k)
    BY DEF Total, Contracts, FillsOf
<1>5. Total(kept, k) = Contracts(acked, DOMAIN acked, k) + Contracts(cut, kept, k)
    BY DEF Total
<1>6. ASSUME acked' = Append(acked, f), cut' = cut
      PROVE  /\ acked' \in Seq(Fill)
             /\ Total(kept, k)' = Total(kept, k) + Brings(f, k)
  <2>1. /\ acked' \in Seq(Fill)
        /\ DOMAIN acked' = DOMAIN acked \cup {Len(acked) + 1}
        /\ Contracts(acked', DOMAIN acked \cup {Len(acked) + 1}, k)
               = Contracts(acked, DOMAIN acked, k) + Brings(f, k)
    <3>1. DOMAIN acked \in SUBSET DOMAIN acked
      OBVIOUS
    <3>2. Extends(Append(acked, f), acked, f, DOMAIN acked, k)
      BY <1>2, <1>3, <3>1, FillAppended
    <3>3. QED
      BY <1>6, <3>2 DEF Extends
  <2>2. Total(kept, k)' = (Contracts(acked, DOMAIN acked, k) + Brings(f, k)) + Contracts(cut, kept, k)
    BY <1>4, <1>6, <2>1
  <2>3. QED
    BY <1>2, <1>5, <2>1, <2>2
<1>7. ASSUME cut' = Append(cut, f), acked' = acked
      PROVE  /\ cut' \in Seq(Fill)
             /\ DOMAIN cut' = DOMAIN cut \cup {Len(cut) + 1}
             /\ Total(kept, k)' = Total(kept, k)
             /\ \A n \in {Len(cut) + 1} :
                       Total(kept \cup {n}, k)' = Total(kept, k) + Brings(f, k)
  <2>1. /\ cut' \in Seq(Fill)
        /\ DOMAIN cut' = DOMAIN cut \cup {Len(cut) + 1}
        /\ Contracts(cut', kept, k) = Contracts(cut, kept, k)
        /\ Contracts(cut', kept \cup {Len(cut) + 1}, k) = Contracts(cut, kept, k) + Brings(f, k)
    <3>1. Extends(Append(cut, f), cut, f, kept, k)
      BY <1>2, <1>3, FillAppended
    <3>2. QED
      BY <1>7, <3>1 DEF Extends
  <2>2. Total(kept, k)' = Total(kept, k)
    BY <1>4, <1>5, <1>7, <2>1
  <2>3. ASSUME NEW n \in {Len(cut) + 1}
        PROVE  Total(kept \cup {n}, k)' = Total(kept, k) + Brings(f, k)
    <3>1. Total(kept \cup {n}, k)'
             = Contracts(acked, DOMAIN acked, k) + (Contracts(cut, kept, k) + Brings(f, k))
      BY <1>4, <1>7, <2>1
    <3>2. QED
      BY <1>2, <1>5, <3>1
  <2>4. QED
    BY <2>1, <2>2, <2>3
<1>8. QED
    BY <1>1, <1>6, <1>7


LEMMA FillsReturn ==
    ASSUME FillsInv, ReportReturn
    PROVE  FillsInv'
<1>1. /\ report.pc = "return" /\ report'.pc = "idle" /\ report' \in Report
      /\ UNCHANGED <<book, positions, up>>
    BY DEF ReportReturn, memory, IdleReport, Report
<1>2. FillTypeOK /\ up /\ report.pc # "idle"
    BY <1>1 DEF FillsInv, FillTypeOK
<1>3. \A k : InMemory(k) = Brings(TheFill, k) /\ InMemory(k)' = 0 /\ InTable(k)' = 0
    BY <1>1 DEF InMemory, InTable
<1>4. PICK mem \in SUBSET DOMAIN cut : BookHolds(mem)
    BY <1>2 DEF FillsInv
<1>5. PICK tab \in SUBSET DOMAIN cut : TableHolds(tab)
    BY DEF FillsInv
<1>6. \A k : /\ Total(mem, k) \in Int /\ Total(tab, k) \in Int
              /\ Brings(TheFill, k) \in Int
    BY <1>2, FillNumbers DEF Total
<1>7. CASE report.saved
  <2>1. acked' = Append(acked, TheFill) /\ cut' = cut
    BY <1>7 DEF ReportReturn, Acknowledged
  <2>2. \A k : /\ acked' \in Seq(Fill)
                /\ Total(mem, k)' = Total(mem, k) + Brings(TheFill, k)
                /\ Total(tab, k)' = Total(tab, k) + Brings(TheFill, k)
    BY <1>2, <2>1, Joins
  <2>3. \A k : InTable(k) = Brings(TheFill, k)
    BY <1>1, <1>7 DEF InTable
  <2>4. FillTypeOK'
    BY <1>1, <1>2, <2>1, <2>2 DEF FillTypeOK
  <2> HIDE DEF Total, InMemory, InTable
  <2>5. BookHolds(mem)'
    <3>1. ASSUME NEW k \in PositionKeys
          PROVE  book'[k].contracts = Total(mem, k)' + InMemory(k)'
      <4>1. book[k].contracts = Total(mem, k) + Brings(TheFill, k)
        BY <1>3, <1>4 DEF BookHolds
      <4>2. QED
        BY <1>1, <1>3, <1>6, <2>2, <4>1
    <3>2. QED
      BY <3>1 DEF BookHolds
  <2>6. TableHolds(tab)'
    <3>1. ASSUME NEW k \in PositionKeys
          PROVE  positions'[k].contracts = Total(tab, k)' + InTable(k)'
      <4>1. positions[k].contracts = Total(tab, k) + Brings(TheFill, k)
        BY <1>5, <2>3 DEF TableHolds
      <4>2. QED
        BY <1>1, <1>3, <1>6, <2>2, <4>1
    <3>2. QED
      BY <3>1 DEF TableHolds
  <2>7. QED
    BY <2>1, <2>4, <2>5, <2>6 DEF FillsInv
<1>8. CASE ~report.saved
  <2>1. cut' = Append(cut, TheFill) /\ acked' = acked
    BY <1>8 DEF ReportReturn, Acknowledged
  <2>2. PICK n : n = Len(cut) + 1
    OBVIOUS
  <2>3. \A k : /\ cut' \in Seq(Fill)
                /\ DOMAIN cut' = DOMAIN cut \cup {n}
                /\ Total(mem \cup {n}, k)' = Total(mem, k) + Brings(TheFill, k)
                /\ Total(tab, k)' = Total(tab, k)
    BY <1>2, <2>1, <2>2, Joins
  <2>4. \A k : InTable(k) = 0
    BY <1>8 DEF InTable
  <2>5. FillTypeOK'
    BY <1>1, <1>2, <2>1, <2>3 DEF FillTypeOK
  <2> HIDE DEF Total, InMemory, InTable
  <2>6. BookHolds(mem \cup {n})'
    <3>1. ASSUME NEW k \in PositionKeys
          PROVE  book'[k].contracts = Total(mem \cup {n}, k)' + InMemory(k)'
      <4>1. book[k].contracts = Total(mem, k) + Brings(TheFill, k)
        BY <1>3, <1>4 DEF BookHolds
      <4>2. Total(mem \cup {n}, k)' = Total(mem, k) + Brings(TheFill, k) /\ InMemory(k)' = 0
        BY <1>3, <2>3
      <4>3. Total(mem, k) + Brings(TheFill, k) \in Int
        BY <1>6
      <4>4. QED
        BY <1>1, <4>1, <4>2, <4>3
    <3>2. QED
      BY <3>1 DEF BookHolds
  <2>7. TableHolds(tab)'
    <3>1. ASSUME NEW k \in PositionKeys
          PROVE  positions'[k].contracts = Total(tab, k)' + InTable(k)'
      BY <1>1, <1>3, <1>5, <2>3, <2>4 DEF TableHolds
    <3>2. QED
      BY <3>1 DEF TableHolds
  <2>8. mem \cup {n} \in SUBSET DOMAIN cut' /\ tab \in SUBSET DOMAIN cut'
    BY <2>3
  <2>9. QED
    BY <2>5, <2>6, <2>7, <2>8 DEF FillsInv
<1>9. QED
    BY <1>7, <1>8

\* A crash leaves the table; the fill whose report it cuts short is in it or not.
LEMMA FillsCrash ==
    ASSUME FillsInv, RiskCrash
    PROVE  FillsInv'
<1>1. /\ ~up' /\ report'.pc = "idle" /\ report' \in Report
      /\ book' = [k \in PositionKeys |-> Flat]
      /\ UNCHANGED <<positions, acked>>
    BY DEF RiskCrash, NewEmptyState, IdleReport, Report
<1>2. FillTypeOK
    BY DEF FillsInv
<1>3. book' \in [PositionKeys -> Pos]
    BY <1>1 DEF Flat, Pos
<1>4. \A k : InTable(k)' = 0
    BY <1>1 DEF InTable
<1>5. PICK tab \in SUBSET DOMAIN cut : TableHolds(tab)
    BY DEF FillsInv
<1>6. CASE report.pc = "idle"
  <2>1. cut' = cut
    BY <1>6 DEF RiskCrash
  <2>2. FillTypeOK'
    BY <1>1, <1>2, <1>3, <2>1 DEF FillTypeOK
  <2>3. \A k : InTable(k) = 0 /\ Total(tab, k)' = Total(tab, k)
    BY <1>1, <1>6, <2>1 DEF InTable, Total, Contracts, FillsOf
  <2>4. TableHolds(tab)'
    <3> HIDE DEF Total, InTable
    <3>1. QED
      BY <1>1, <1>4, <1>5, <2>3 DEF TableHolds
  <2>5. QED
    BY <1>1, <2>1, <2>2, <2>4 DEF FillsInv
<1>7. CASE report.pc # "idle"
  <2>1. cut' = Append(cut, TheFill)
    BY <1>7 DEF RiskCrash
  <2>2. PICK n : n = Len(cut) + 1
    OBVIOUS
  <2>3. \A k : /\ cut' \in Seq(Fill)
                /\ DOMAIN cut' = DOMAIN cut \cup {n}
                /\ Total(tab \cup {n}, k)' = Total(tab, k) + Brings(TheFill, k)
                /\ Total(tab, k)' = Total(tab, k)
    BY <1>1, <1>2, <1>7, <2>1, <2>2, Joins
  <2>4. \A k : Total(tab, k) \in Int /\ Brings(TheFill, k) \in Int
    BY <1>2, <1>7, FillNumbers DEF Total
  <2>5. FillTypeOK'
    BY <1>1, <1>2, <1>3, <2>3 DEF FillTypeOK
  <2>6. CASE report.pc = "return" /\ report.saved
    <3>1. \A k : InTable(k) = Brings(TheFill, k)
      BY <2>6 DEF InTable
    <3> HIDE DEF Total, InTable
    <3>2. ASSUME NEW k \in PositionKeys
          PROVE  positions'[k].contracts = Total(tab \cup {n}, k)' + InTable(k)'
      <4>1. positions[k].contracts = Total(tab, k) + Brings(TheFill, k)
        BY <1>5, <3>1 DEF TableHolds
      <4>2. Total(tab \cup {n}, k)' = Total(tab, k) + Brings(TheFill, k) /\ InTable(k)' = 0
        BY <1>4, <2>3
      <4>3. Total(tab, k) + Brings(TheFill, k) \in Int
        BY <2>4
      <4>4. QED
        BY <1>1, <4>1, <4>2, <4>3
    <3>3. TableHolds(tab \cup {n})'
      BY <3>2 DEF TableHolds
    <3>4. tab \cup {n} \in SUBSET DOMAIN cut'
      BY <2>3
    <3>5. QED
      BY <1>1, <2>5, <3>3, <3>4 DEF FillsInv
  <2>7. CASE ~(report.pc = "return" /\ report.saved)
    <3>1. \A k : InTable(k) = 0
      BY <2>7 DEF InTable
    <3> HIDE DEF Total, InTable
    <3>2. TableHolds(tab)'
      BY <1>1, <1>4, <1>5, <2>3, <3>1 DEF TableHolds
    <3>3. tab \in SUBSET DOMAIN cut'
      BY <2>3
    <3>4. QED
      BY <1>1, <2>5, <3>2, <3>3 DEF FillsInv
  <2>8. QED
    BY <2>6, <2>7
<1>8. QED
    BY <1>6, <1>7

\* What LoadState reads back is what the table holds: a position it leaves out
\* has no contracts.
LEMMA FillsLoad ==
    ASSUME FillsInv, LoadState
    PROVE  FillsInv'
<1>1. /\ ~up /\ up' /\ UNCHANGED <<positions, acked, cut, report, lock>>
      /\ book' = [k \in PositionKeys |-> IF k \in LoadedPositions THEN positions[k] ELSE Flat]
    BY DEF LoadState, history
<1>2. FillTypeOK /\ report.pc = "idle"
    BY <1>1 DEF FillsInv, FillTypeOK
<1>3. PICK tab \in SUBSET DOMAIN cut : TableHolds(tab)
    BY DEF FillsInv
<1>4. book' \in [PositionKeys -> Pos] /\ \A k \in PositionKeys : book'[k].contracts = positions[k].contracts
  <2>1. \A k \in PositionKeys : positions[k] \in Pos /\ Flat \in Pos /\ Flat.contracts = 0
    BY <1>2 DEF FillTypeOK, Flat, Pos
  <2>2. \A k \in PositionKeys : k \notin LoadedPositions => positions[k].contracts = 0
    BY DEF LoadedPositions
  <2>3. QED
    BY <1>1, <2>1, <2>2
<1>5. FillTypeOK'
    BY <1>1, <1>2, <1>4 DEF FillTypeOK
<1>6. \A k : Total(tab, k)' = Total(tab, k)
    BY <1>1 DEF Total, Contracts, FillsOf
<1>7. \A k : InTable(k) = 0 /\ InTable(k)' = 0 /\ InMemory(k)' = 0
    BY <1>1, <1>2 DEF InTable, InMemory
<1> HIDE DEF Total, InTable, InMemory
<1>8. TableHolds(tab)' /\ BookHolds(tab)'
    BY <1>1, <1>3, <1>4, <1>6, <1>7 DEF TableHolds, BookHolds
<1>9. QED
    BY <1>1, <1>5, <1>8 DEF FillsInv

LEMMA FillsInit == RiskInit => FillsInv
<1>1. ASSUME RiskInit PROVE FillsInv
  <2>1. FillTypeOK /\ report.pc = "idle"
    BY <1>1 DEF RiskInit, FillTypeOK, Flat, Pos, IdleReport, Report
  <2>2. acked = << >> /\ cut = << >> /\ DOMAIN acked = {} /\ {} \in SUBSET DOMAIN cut
    BY <1>1 DEF RiskInit
  <2>3. \A fills, k : Contracts(fills, {}, k) = 0
    <3>1. ASSUME NEW fills, NEW k
          PROVE  Contracts(fills, {}, k) = 0
      <4>1. PICK a : a = Amounts(fills, {}, k)
        OBVIOUS
      <4>2. DOMAIN a = {}
        BY <4>1 DEF Amounts, FillsOf
      <4>3. SumFunction(a) = 0
        BY <4>2, SumEmpty
      <4>4. QED
        BY <4>1, <4>3 DEF Contracts, Amounts
    <3>2. QED
      BY <3>1
  <2>4. \A k : Total({}, k) = 0
    BY <2>2, <2>3 DEF Total
  <2>5. \A k : InMemory(k) = 0 /\ InTable(k) = 0
    BY <2>1 DEF InMemory, InTable
  <2>6. \A k \in PositionKeys : book[k].contracts = 0 /\ positions[k].contracts = 0
    BY <1>1 DEF RiskInit, Flat
  <2>7. BookHolds({}) /\ TableHolds({})
    BY <2>4, <2>5, <2>6 DEF BookHolds, TableHolds
  <2>8. QED
    BY <2>1, <2>2, <2>7 DEF FillsInv
<1>2. QED
    BY <1>1

LEMMA FillsStep ==
    ASSUME RateTypeOK, FillsInv, [RiskNext]_riskVars
    PROVE  FillsInv'
<1>1. ASSUME NEW o \in Signals, EvalBegin(o) PROVE FillsInv'
    BY <1>1, FillsKept DEF EvalBegin, memory, history
<1>2. ASSUME NEW s \in Strategies, EvaluateOrder(s) PROVE FillsInv'
    BY <1>2, FillsKept
    DEF EvaluateOrder, EvalGates, EvalExposure, EvalRates, EvalCheck, EvalDecide, EvalRecord,
        memory, history
<1>3. ASSUME NEW i \in DOMAIN approvals, NEW q \in 1..approvals[i].left, ReportLock(i, q)
      PROVE  FillsInv'
    BY <1>3, FillsLock
<1>4. CASE ReportSave
    BY <1>4, FillsSave
<1>5. CASE ReportReturn
    BY <1>5, FillsReturn
<1>6. ASSUME NEW m, SetSystemMode(m) PROVE FillsInv'
    BY <1>6, FillsKept DEF SetSystemMode, process, history
<1>7. ASSUME NEW m, NEW at, NEW wide, UpdateMarketData(m, at, wide) PROVE FillsInv'
    BY <1>7, FillsKept DEF UpdateMarketData, memory, process, history
<1>8. CASE Tick
    BY <1>8, FillsKept DEF Tick, memory, process, history
<1>9. CASE RiskCrash
    BY <1>9, FillsCrash
<1>10. CASE LoadState
    BY <1>10, FillsLoad
<1>11. CASE UNCHANGED riskVars
    BY <1>11, FillsKept DEF riskVars, memory, process, history
<1>12. QED
    BY <1>1, <1>2, <1>3, <1>4, <1>5, <1>6, <1>7, <1>8, <1>9, <1>10, <1>11
    DEF RiskNext, ReportFill

\* ReportFill books every fill it acknowledges once and for good: through any
\* crashes, failing statements and restarts the position in memory is the sum of
\* the fills saved and acknowledged and of some of the others.
THEOREM RiskKeepsAckedFills == RiskSpec => []AckedFillsCounted
<1>1. RiskInit => RateTypeOK /\ FillsInv
    BY RateTypeInit, FillsInit
<1>2. RateTypeOK /\ FillsInv /\ [RiskNext]_riskVars => RateTypeOK' /\ FillsInv'
    BY StepEffect, FillsStep
<1>3. FillsInv => AckedFillsCounted
  <2>1. SUFFICES ASSUME FillsInv, up, report.pc = "idle"
                 PROVE  \E kept \in SUBSET DOMAIN cut : \A k \in PositionKeys :
                            book[k].contracts
                                = Contracts(acked, DOMAIN acked, k) + Contracts(cut, kept, k)
    BY DEF AckedFillsCounted
  <2>2. PICK kept \in SUBSET DOMAIN cut : BookHolds(kept)
    BY <2>1 DEF FillsInv
  <2>3. ASSUME NEW k \in PositionKeys
        PROVE  book[k].contracts = Contracts(acked, DOMAIN acked, k) + Contracts(cut, kept, k)
    <3>1. book[k].contracts = Total(kept, k) + 0
      BY <2>1, <2>2 DEF BookHolds, InMemory
    <3>2. Contracts(acked, DOMAIN acked, k) \in Int /\ Contracts(cut, kept, k) \in Int
      BY <2>1, FillNumbers DEF FillsInv
    <3>3. QED
      BY <3>1, <3>2 DEF Total
  <2>4. QED
    BY <2>3
<1>4. QED
    BY <1>1, <1>2, <1>3, PTL DEF RiskSpec

-----------------------------------------------------------------------------
\* The kill switch

Halt == {NoHalt} \cup [level : Levels, acked : BOOLEAN]

KsInv == KsTypeOK /\ currentMode = recalcMode(halts)

\* The mode is always one of the four the services know.
LEMMA RecalcType == ASSUME NEW h PROVE recalcMode(h) \in Modes
    BY DEF recalcMode, Modes, Levels

\* recalcMode picks a level that is present and that no present level exceeds.
LEMMA RecalcSeverest ==
    ASSUME NEW h \in [Scopes -> Halt]
    PROVE  /\ \A s \in Scopes : severityRank(h[s].level) <= severityRank(recalcMode(h))
           /\ recalcMode(h) # "normal" => \E s \in Scopes : h[s].level = recalcMode(h)
<1>1. /\ severityRank("none") = 0
      /\ severityRank("normal") = 0
      /\ severityRank("soft_pause") = 1
      /\ severityRank("cancel_only") = 2
      /\ severityRank("full_stop") = 3
    BY DEF severityRank
<1>2. \A s \in Scopes : h[s].level \in {"none", "soft_pause", "cancel_only", "full_stop"}
    BY DEF Halt, NoHalt, Levels
<1>3. CASE \E s \in Scopes : h[s].level = "full_stop"
    BY <1>1, <1>2, <1>3 DEF recalcMode
<1>4. CASE /\ ~ \E s \in Scopes : h[s].level = "full_stop"
           /\ \E s \in Scopes : h[s].level = "cancel_only"
    BY <1>1, <1>2, <1>4 DEF recalcMode
<1>5. CASE /\ ~ \E s \in Scopes : h[s].level \in {"full_stop", "cancel_only"}
           /\ \E s \in Scopes : h[s].level = "soft_pause"
    BY <1>1, <1>2, <1>5 DEF recalcMode
<1>6. CASE ~ \E s \in Scopes : h[s].level \in {"full_stop", "cancel_only", "soft_pause"}
    BY <1>1, <1>2, <1>6 DEF recalcMode
<1>7. QED
    BY <1>3, <1>4, <1>5, <1>6

\* A caller that moves on to its next step keeps the type of the calls.
LEMMA CallGoes ==
    ASSUME KsTypeOK, NEW c \in Callers, call[c].pc # "idle",
           call[c].pc \in {"persist", "act", "publish"},
           NEW pc \in {"act", "publish"}, Goes(c, pc),
           UNCHANGED <<halts, currentMode, cli, wdUp>>
    PROVE  KsTypeOK'
    BY DEF KsTypeOK, Goes, Calls

\* A caller that returns keeps the type of the calls.
LEMMA CallReturns ==
    ASSUME KsTypeOK, NEW c \in Callers, Returns(c),
           UNCHANGED <<halts, currentMode, cli, wdUp>>
    PROVE  KsTypeOK'
    BY DEF KsTypeOK, Returns, IdleCall

\* A caller that changes the halts, recomputes the mode and starts its call
\* keeps the invariant.
LEMMA HaltsSet ==
    ASSUME KsTypeOK, NEW c \in Callers, NEW s \in Scopes,
           NEW l \in Levels \cup {"none"},
           NEW pc \in {"persist", "ack", "resume"}, pc = "persist" => l \in Levels,
           NEW h \in [Scopes -> Halt], SetHalts(h), Calls(c, pc, s, l),
           UNCHANGED <<cli, wdUp>>
    PROVE  KsInv'
<1>1. halts' = h /\ currentMode' = recalcMode(h)
    BY DEF SetHalts
<1>2. currentMode' \in Modes
    BY <1>1, RecalcType
<1>3. /\ call' \in [Callers -> [pc : {"idle", "persist", "act", "publish", "ack", "resume"},
                              scope : Scopes \cup {"none"}, level : Levels \cup {"none"}]]
      /\ \A d \in Callers :
            /\ call'[d].pc # "idle" => call'[d].scope \in Scopes
            /\ call'[d].pc \in {"persist", "act", "publish"} => call'[d].level \in Levels
    BY DEF KsTypeOK, Calls
<1>4. KsTypeOK'
    BY <1>1, <1>2, <1>3 DEF KsTypeOK, Halt
<1>5. QED
    BY <1>1, <1>4 DEF KsInv

\* Init establishes the invariant.
LEMMA KsInvInit == KsInit => KsInv
<1> SUFFICES ASSUME KsInit PROVE KsInv
    OBVIOUS
<1>1. KsTypeOK
    BY DEF KsInit, KsTypeOK, IdleCall, Modes
<1>2. recalcMode(halts) = "normal"
    BY DEF KsInit, recalcMode, NoHalt
<1>3. QED
    BY <1>1, <1>2 DEF KsInv, KsInit

\* Every step keeps the invariant.
LEMMA KsInvStep == KsInv /\ [KsNext]_ksVars => KsInv'
<1> SUFFICES ASSUME KsInv, [KsNext]_ksVars PROVE KsInv'
    OBVIOUS
<1> USE DEF KsInv
<1>1. ASSUME NEW c \in Callers, NEW s \in Scopes, NEW l \in Levels, TriggerHalt(c, s, l)
      PROVE  KsInv'
  <2>1. [halts EXCEPT ![s] = [level |-> l, acked |-> FALSE]] \in [Scopes -> Halt]
      BY DEF KsTypeOK, Halt
  <2>2. QED
      BY <1>1, <2>1, HaltsSet DEF TriggerHalt
<1>2. ASSUME NEW c \in Callers, NEW s \in Scopes, AckHalt(c, s)
      PROVE  KsInv'
  <2>1. halts' = [halts EXCEPT ![s] = [level |-> halts[s].level, acked |-> TRUE]]
      BY <1>2 DEF AckHalt
  <2>2. halts[s].level \in Levels
      BY <1>2 DEF AckHalt, Halted, KsTypeOK, NoHalt
  <2>3. halts' \in [Scopes -> Halt]
      BY <2>1, <2>2 DEF KsTypeOK, Halt
  <2>4. \A u \in Scopes : halts'[u].level = halts[u].level
      BY <2>1 DEF KsTypeOK
  <2>5. recalcMode(halts') = recalcMode(halts)
      BY <2>4 DEF recalcMode
  <2>6. SetHalts(halts')
      BY <1>2, <2>5 DEF SetHalts, AckHalt
  <2>7. QED
      BY <1>2, <2>3, <2>6, HaltsSet DEF AckHalt
<1>3. ASSUME NEW c \in Callers, NEW s \in Scopes, ResumeHalt(c, s)
      PROVE  KsInv'
  <2>1. [halts EXCEPT ![s] = NoHalt] \in [Scopes -> Halt]
      BY DEF KsTypeOK, Halt
  <2>2. QED
      BY <1>3, <2>1, HaltsSet DEF ResumeHalt
<1>4. ASSUME NEW c \in Callers, ManagerStep(c)
      PROVE  KsInv'
  <2>1. CASE TriggerPersist(c)
      BY <2>1, CallGoes DEF TriggerPersist
  <2>2. CASE TriggerAct(c)
      BY <2>2, CallGoes DEF TriggerAct
  <2>3. CASE TriggerPublish(c)
      BY <2>3, CallReturns DEF TriggerPublish
  <2>4. CASE AckPersist(c)
      BY <2>4, CallReturns DEF AckPersist
  <2>5. CASE ResumePersist(c)
      BY <2>5, CallReturns DEF ResumePersist
  <2>6. QED
      BY <1>4, <2>1, <2>2, <2>3, <2>4, <2>5 DEF ManagerStep
<1>5. CASE WatchdogCrash
  <2>1. recalcMode(halts') = "normal"
      BY <1>5 DEF WatchdogCrash, recalcMode, NoHalt
  <2>2. KsTypeOK'
      BY <1>5 DEF WatchdogCrash, KsTypeOK, IdleCall, Modes
  <2>3. QED
      BY <1>5, <2>1, <2>2 DEF WatchdogCrash
<1>6. CASE LoadActiveHalts
  <2>1. currentMode' \in Modes
      BY <1>6, RecalcType DEF LoadActiveHalts
  <2>2. KsTypeOK'
      BY <1>6, <2>1 DEF LoadActiveHalts, KsTypeOK
  <2>3. QED
      BY <1>6, <2>2 DEF LoadActiveHalts
<1>7. CASE CliStep
    BY <1>7 DEF CliStep, CliKill, CliAck, CliResumeCheck, CliResumeUpdate, KsTypeOK
<1>8. CASE UNCHANGED ksVars
    BY <1>8 DEF ksVars, KsTypeOK
<1>9. QED
    BY <1>1, <1>2, <1>3, <1>4, <1>5, <1>6, <1>7, <1>8 DEF KsNext

\* A halt that is raised, acknowledged or resumed in the running watchdog obeys
\* the discipline; no other step touches the halts.
LEMMA KsStepDiscipline ==
    ASSUME KsInv, [KsNext]_ksVars, wdUp, wdUp', NEW s \in Scopes, Halted(halts, s)
    PROVE  IF Halted(halts', s)
           THEN severityRank(halts'[s].level) >= severityRank(halts[s].level)
           ELSE halts[s].acked
<1> USE DEF KsInv
<1>1. \A l : severityRank(l) \in Nat
    BY DEF severityRank
<1>2. ASSUME NEW c \in Callers, NEW u \in Scopes, NEW l \in Levels, TriggerHalt(c, u, l)
      PROVE  halts'[s].level # "none" /\ severityRank(halts'[s].level) >= severityRank(halts[s].level)
  <2>1. CASE u = s
      BY <1>1, <1>2, <2>1 DEF TriggerHalt, SetHalts, Raises, KsTypeOK, Levels
  <2>2. CASE u # s
      BY <1>1, <1>2, <2>2 DEF TriggerHalt, SetHalts, KsTypeOK, Halted
  <2>3. QED
      BY <2>1, <2>2
<1>3. ASSUME NEW c \in Callers, NEW u \in Scopes, AckHalt(c, u)
      PROVE  halts'[s].level = halts[s].level
    BY <1>3 DEF AckHalt, KsTypeOK, NoHalt
<1>4. ASSUME NEW c \in Callers, NEW u \in Scopes, ResumeHalt(c, u)
      PROVE  halts'[s] = halts[s] \/ halts[s].acked
    BY <1>4 DEF ResumeHalt, MayResume, SetHalts, KsTypeOK
<1>5. CASE \E c \in Callers : ManagerStep(c)
    BY <1>1, <1>5 DEF ManagerStep, TriggerPersist, TriggerAct, TriggerPublish, AckPersist,
                 ResumePersist, Halted
<1>6. CASE CliStep \/ UNCHANGED ksVars
    BY <1>1, <1>6 DEF CliStep, CliKill, CliAck, CliResumeCheck, CliResumeUpdate, ksVars, Halted
<1>7. ~WatchdogCrash /\ ~LoadActiveHalts
    BY DEF WatchdogCrash, LoadActiveHalts
<1>8. CASE \E c \in Callers, u \in Scopes : AckHalt(c, u) \/ ResumeHalt(c, u)
  <2>1. CASE halts'[s].level = halts[s].level
      BY <1>1, <2>1 DEF Halted
  <2>2. CASE halts'[s].level # halts[s].level
    <3>1. halts'[s] # halts[s]
        BY <2>2
    <3>2. \E c \in Callers, u \in Scopes : ResumeHalt(c, u)
        BY <1>3, <1>8, <2>2
    <3>3. halts[s].acked
        BY <1>4, <3>1, <3>2
    <3>4. ~Halted(halts', s)
        BY <2>2, <3>2 DEF ResumeHalt, SetHalts, KsTypeOK, Halted, NoHalt
    <3>5. QED
        BY <3>3, <3>4
  <2>3. QED
      BY <2>1, <2>2
<1>9. CASE \E c \in Callers, u \in Scopes, l \in Levels : TriggerHalt(c, u, l)
    BY <1>2, <1>9 DEF Halted
<1>10. QED
    BY <1>5, <1>6, <1>7, <1>8, <1>9 DEF KsNext

\* The invariant holds throughout.
LEMMA KsInvariant == KsSpec => []KsInv
    BY KsInvInit, KsInvStep, PTL DEF KsSpec

\* killswitch.go: the halts, the mode and every call in progress keep their type.
THEOREM KsTypeCorrect == KsSpec => []KsTypeOK
<1>1. KsInv => KsTypeOK
    BY DEF KsInv
<1>2. QED
    BY <1>1, KsInvariant, PTL

\* recalcMode: the mode the watchdog reports is the severest active halt, in any
\* number of scopes, through upgrades, partial resumes and restarts.
THEOREM ModeFollowsHalts == KsSpec => []ModeIsSeverestHalt
<1>1. KsInv => ModeIsSeverestHalt
    BY RecalcSeverest DEF KsInv, KsTypeOK, Halt, ModeIsSeverestHalt
<1>2. QED
    BY <1>1, KsInvariant, PTL

\* Trigger and Resume: a halt is never downgraded while the watchdog runs, and
\* never lifted without its acknowledgement.
THEOREM HaltsDisciplined == KsSpec => HaltDiscipline
<1>1. KsInv /\ [KsNext]_ksVars =>
        [wdUp /\ wdUp' =>
            \A s \in Scopes : Halted(halts, s) =>
              IF Halted(halts', s)
              THEN severityRank(halts'[s].level) >= severityRank(halts[s].level)
              ELSE halts[s].acked]_ksVars
    BY KsStepDiscipline
<1>2. QED
    BY <1>1, KsInvariant, PTL DEF KsSpec, HaltDiscipline

-----------------------------------------------------------------------------
(***************************************************************************)
(* The table.  A call changes memory first and owes the table a statement; *)
(* while the life is clean at most one call owes one per scope, so         *)
(* TableInv can say for each scope what is true with nothing due and with  *)
(* each statement due.                                                     *)
(***************************************************************************)

\* The INSERT of Trigger.
LEMMA InsertedRow ==
    ASSUME ksRows \in Seq(EventRow), NEW s \in Scopes, NEW l \in Levels,
           ksRows' = Append(ksRows, NewEvent(s, l))
    PROVE  /\ ksRows' \in Seq(EventRow)
           /\ OpenRows(s)' # {}
           /\ \A u \in Scopes : u # s => OpenRows(u)' = OpenRows(u) /\ (AllAcked(u) => AllAcked(u)')
           /\ (\A i \in DOMAIN ksRows : ksRows[i].resumed => ksRows[i].acked)
                  => \A i \in DOMAIN ksRows' : ksRows'[i].resumed => ksRows'[i].acked
<1>1. /\ NewEvent(s, l) \in EventRow
      /\ NewEvent(s, l).scope = s
      /\ NewEvent(s, l).resumed = FALSE
    BY DEF NewEvent, EventRow
<1>2. /\ ksRows' \in Seq(EventRow)
      /\ DOMAIN ksRows' = DOMAIN ksRows \cup {Len(ksRows) + 1}
      /\ ksRows'[Len(ksRows) + 1] = NewEvent(s, l)
      /\ \A i \in DOMAIN ksRows : ksRows'[i] = ksRows[i]
    BY <1>1
<1>3. OpenRows(s)' # {}
    BY <1>1, <1>2 DEF OpenRows
<1>4. ASSUME NEW u \in Scopes, u # s
      PROVE  OpenRows(u)' = OpenRows(u) /\ (AllAcked(u) => AllAcked(u)')
  <2>1. OpenRows(u)' = OpenRows(u)
      BY <1>1, <1>2, <1>4 DEF OpenRows
  <2>2. QED
      BY <1>2, <2>1 DEF AllAcked, OpenRows
<1>5. QED
    BY <1>1, <1>2, <1>3, <1>4

\* The UPDATE of Acknowledge.
LEMMA AckedTable ==
    ASSUME ksRows \in Seq(EventRow), NEW s \in Scopes, ksRows' = AckedRows(s)
    PROVE  /\ ksRows' \in Seq(EventRow)
           /\ AllAcked(s)'
           /\ \A u \in Scopes : OpenRows(u)' = OpenRows(u) /\ (AllAcked(u) => AllAcked(u)')
           /\ (\A i \in DOMAIN ksRows : ksRows[i].resumed => ksRows[i].acked)
                  => \A i \in DOMAIN ksRows' : ksRows'[i].resumed => ksRows'[i].acked
<1>1. DOMAIN ksRows' = DOMAIN ksRows /\ DOMAIN ksRows = 1..Len(ksRows) /\ Len(ksRows) \in Nat
    BY DEF AckedRows
<1>2. ASSUME NEW i \in DOMAIN ksRows
      PROVE  /\ ksRows[i] \in EventRow
             /\ ksRows'[i] \in EventRow
             /\ ksRows'[i].scope = ksRows[i].scope
             /\ ksRows'[i].resumed = ksRows[i].resumed
             /\ ksRows[i].acked => ksRows'[i].acked
             /\ ksRows[i].scope = s /\ ~ksRows[i].resumed => ksRows'[i].acked
  <2>1. ksRows[i] \in EventRow
      BY <1>1, <1>2
  <2>2. ksRows'[i] = IF ksRows[i].scope = s /\ ~ksRows[i].resumed
                     THEN [ksRows[i] EXCEPT !.acked = TRUE] ELSE ksRows[i]
      BY <1>2 DEF AckedRows
  <2>3. QED
      BY <2>1, <2>2 DEF EventRow
<1>3. ksRows' \in Seq(EventRow)
  <2>1. \A i \in 1..Len(ksRows) : ksRows'[i] \in EventRow
      BY <1>1, <1>2
  <2>2. ksRows' = [i \in 1..Len(ksRows) |-> ksRows'[i]]
      BY <1>1 DEF AckedRows
  <2>3. ksRows' \in [1..Len(ksRows) -> EventRow]
      BY <2>1, <2>2
  <2>4. QED
      BY <1>1, <2>3
<1>4. \A u \in Scopes : OpenRows(u)' = OpenRows(u)
    BY <1>1, <1>2 DEF OpenRows
<1>5. QED
    BY <1>1, <1>2, <1>3, <1>4 DEF AllAcked, OpenRows

\* The UPDATE of Resume.
LEMMA ResumedTable ==
    ASSUME ksRows \in Seq(EventRow), NEW s \in Scopes, ksRows' = ResumedRows(s)
    PROVE  /\ ksRows' \in Seq(EventRow)
           /\ OpenRows(s)' = {}
           /\ \A u \in Scopes : u # s => OpenRows(u)' = OpenRows(u) /\ (AllAcked(u) => AllAcked(u)')
           /\ (\A i \in DOMAIN ksRows : ksRows[i].resumed => ksRows[i].acked) /\ AllAcked(s)
                  => \A i \in DOMAIN ksRows' : ksRows'[i].resumed => ksRows'[i].acked
<1>1. DOMAIN ksRows' = DOMAIN ksRows /\ DOMAIN ksRows = 1..Len(ksRows) /\ Len(ksRows) \in Nat
    BY DEF ResumedRows
<1>2. ASSUME NEW i \in DOMAIN ksRows
      PROVE  /\ ksRows[i] \in EventRow
             /\ ksRows'[i] \in EventRow
             /\ ksRows'[i].scope = ksRows[i].scope
             /\ ksRows'[i].acked = ksRows[i].acked
             /\ ksRows[i].scope # s => ksRows'[i].resumed = ksRows[i].resumed
             /\ ksRows[i].scope = s => ksRows'[i].resumed
  <2>1. ksRows[i] \in EventRow
      BY <1>1, <1>2
  <2>2. ksRows'[i] = IF ksRows[i].scope = s
                     THEN [ksRows[i] EXCEPT !.resumed = TRUE] ELSE ksRows[i]
      BY <1>2 DEF ResumedRows
  <2>3. QED
      BY <2>1, <2>2 DEF EventRow
<1>3. ksRows' \in Seq(EventRow)
  <2>1. \A i \in 1..Len(ksRows) : ksRows'[i] \in EventRow
      BY <1>1, <1>2
  <2>2. ksRows' = [i \in 1..Len(ksRows) |-> ksRows'[i]]
      BY <1>1 DEF ResumedRows
  <2>3. ksRows' \in [1..Len(ksRows) -> EventRow]
      BY <2>1, <2>2
  <2>4. QED
      BY <1>1, <2>3
<1>4. OpenRows(s)' = {}
    BY <1>1, <1>2 DEF OpenRows
<1>5. \A u \in Scopes : u # s => OpenRows(u)' = OpenRows(u)
    BY <1>1, <1>2 DEF OpenRows
<1>6. \A u \in Scopes : u # s => (AllAcked(u) => AllAcked(u)')
    BY <1>1, <1>2, <1>5 DEF AllAcked, OpenRows
<1>7. (\A i \in DOMAIN ksRows : ksRows[i].resumed => ksRows[i].acked) /\ AllAcked(s)
          => \A i \in DOMAIN ksRows' : ksRows'[i].resumed => ksRows'[i].acked
    BY <1>1, <1>2 DEF AllAcked, OpenRows
<1>8. QED
    BY <1>3, <1>4, <1>5, <1>6, <1>7

\* A step that leaves a scope's halt, rows and due statements alone keeps what
\* TableInv says of it.
LEMMA ScopeFrame ==
    ASSUME NEW u \in Scopes, halts'[u] = halts[u], wdRestarts' = wdRestarts,
           OpenRows(u)' = OpenRows(u), AllAcked(u) => AllAcked(u)',
           \A c \in Callers : Due(c, u)' <=> Due(c, u),
           \A c \in Callers : Due(c, u) => call'[c].pc = call[c].pc,
           ScopeSettled(u), \A c \in Callers : ScopeDue(c, u)
    PROVE  ScopeSettled(u)' /\ \A c \in Callers : ScopeDue(c, u)'
    BY DEF ScopeSettled, ScopeDue, Halted

\* The rows stay as they are, and so do the open ones.
LEMMA RowsKept ==
    ASSUME ksRows' = ksRows
    PROVE  \A u \in Scopes : OpenRows(u)' = OpenRows(u) /\ AllAcked(u)' = AllAcked(u)
    BY DEF OpenRows, AllAcked

\* A call of c to another scope does not change what is due on u.
LEMMA DueElsewhere ==
    ASSUME KsTypeOK, NEW c \in Callers, NEW r, call' = [call EXCEPT ![c] = r],
           NEW u \in Scopes, call[c].scope = u => call[c].pc \notin {"persist", "ack", "resume"},
           r.scope = u => r.pc \notin {"persist", "ack", "resume"}
    PROVE  /\ \A d \in Callers : Due(d, u)' <=> Due(d, u)
           /\ \A d \in Callers : Due(d, u) => call'[d].pc = call[d].pc
<1>1. \A d \in Callers : call'[d] = IF d = c THEN r ELSE call[d]
    BY DEF KsTypeOK
<1>2. QED
    BY <1>1 DEF Due

\* The first step of a call, in memory.
LEMMA CallBegins ==
    ASSUME KsTypeOK, TableInv, wdUp, wdUp', NEW c \in Callers, call[c].pc = "idle",
           NEW s \in Scopes, NEW l,
           NEW pc \in {"persist", "ack", "resume"}, Calls(c, pc, s, l),
           clean' = (clean /\ Alone(s)), UNCHANGED <<ksRows, wdRestarts>>,
           \A u \in Scopes : u # s => halts'[u] = halts[u],
           pc = "persist" => Halted(halts', s) /\ ~halts'[s].acked,
           pc = "ack" => Halted(halts', s) /\ Halted(halts, s),
           pc = "resume" => ~Halted(halts', s) /\ halts[s].acked
    PROVE  TableInv'
<1>1. SUFFICES ASSUME clean' 
               PROVE  \A u \in Scopes : ScopeSettled(u)' /\ \A d \in Callers : ScopeDue(d, u)'
    BY DEF TableInv, ResumedRowsWereAcked
<1>2. clean /\ Alone(s)
    BY <1>1
<1>3. \A d \in Callers : call'[d] = IF d = c THEN [pc |-> pc, scope |-> s, level |-> l] ELSE call[d]
    BY DEF Calls, KsTypeOK
<1>4. \A d \in Callers : ~Due(d, s)
    BY <1>2 DEF Alone, Due
<1>5. \A d \in Callers : Due(d, s)' <=> d = c
    BY <1>3, <1>4 DEF Due
<1>6. /\ Halted(halts, s) <=> OpenRows(s) # {}
      /\ wdRestarts = 0 /\ halts[s].acked => AllAcked(s)
    BY <1>2, <1>4 DEF TableInv, ScopeSettled
<1>7. ScopeSettled(s)'
    BY <1>5 DEF ScopeSettled
<1>8. ASSUME NEW d \in Callers PROVE ScopeDue(d, s)'
  <2>1. OpenRows(s)' = OpenRows(s) /\ AllAcked(s)' = AllAcked(s)
      BY RowsKept
  <2>2. call'[c].pc = pc
      BY <1>3
  <2>3. QED
      BY <1>5, <1>6, <2>1, <2>2 DEF ScopeDue, Halted
<1>9. ASSUME NEW u \in Scopes, u # s
      PROVE  ScopeSettled(u)' /\ \A d \in Callers : ScopeDue(d, u)'
  <2>1. ScopeSettled(u) /\ \A d \in Callers : ScopeDue(d, u)
      BY <1>2 DEF TableInv
  <2>2. /\ \A d \in Callers : Due(d, u)' <=> Due(d, u)
        /\ \A d \in Callers : Due(d, u) => call'[d].pc = call[d].pc
      BY <1>3, <1>9 DEF Due
  <2>3. QED
      BY <1>9, <2>1, <2>2, RowsKept, ScopeFrame
<1>10. QED
    BY <1>7, <1>8, <1>9

\* The statement of a call, which settles its scope.
LEMMA StatementDone ==
    ASSUME KsTypeOK, TableInv, wdUp, wdUp', clean, clean', NEW c \in Callers,
           NEW s \in Scopes, Due(c, s),
           NEW r, call' = [call EXCEPT ![c] = r], r.pc \notin {"persist", "ack", "resume"},
           UNCHANGED <<halts, wdRestarts>>, ksRows' \in Seq(EventRow), ResumedRowsWereAcked',
           Halted(halts, s) <=> OpenRows(s)' # {},
           wdRestarts = 0 /\ halts[s].acked => AllAcked(s)',
           \A u \in Scopes : u # s => OpenRows(u)' = OpenRows(u) /\ (AllAcked(u) => AllAcked(u)')
    PROVE  TableInv'
<1>1. \A d \in Callers : call'[d] = IF d = c THEN r ELSE call[d]
    BY DEF KsTypeOK
<1>2. \A d \in Callers : Due(d, s) => d = c
    BY DEF TableInv, ScopeDue
<1>3. \A d \in Callers : ~Due(d, s)'
    BY <1>1, <1>2 DEF Due
<1>4. ScopeSettled(s)' /\ \A d \in Callers : ScopeDue(d, s)'
    BY <1>3 DEF ScopeSettled, ScopeDue, Halted
<1>5. ASSUME NEW u \in Scopes, u # s
      PROVE  ScopeSettled(u)' /\ \A d \in Callers : ScopeDue(d, u)'
  <2>1. ScopeSettled(u) /\ \A d \in Callers : ScopeDue(d, u)
      BY DEF TableInv
  <2>2. /\ \A d \in Callers : Due(d, u)' <=> Due(d, u)
        /\ \A d \in Callers : Due(d, u) => call'[d].pc = call[d].pc
      BY <1>1, <1>5 DEF Due
  <2>3. QED
      BY <1>5, <2>1, <2>2, ScopeFrame
<1>6. QED
    BY <1>4, <1>5 DEF TableInv

\* Every step keeps TableInv.
LEMMA TableStep == KsInv /\ TableInv /\ [KsNext]_ksVars => TableInv'
<1> SUFFICES ASSUME KsInv, TableInv, [KsNext]_ksVars PROVE TableInv'
    OBVIOUS
<1>0. KsTypeOK
    BY DEF KsInv
<1>1. ASSUME NEW c \in Callers, NEW s \in Scopes, NEW l \in Levels, TriggerHalt(c, s, l)
      PROVE  TableInv'
  <2>1. halts' = [halts EXCEPT ![s] = [level |-> l, acked |-> FALSE]]
      BY <1>1 DEF TriggerHalt, SetHalts
  <2>2. Halted(halts', s) /\ ~halts'[s].acked /\ \A u \in Scopes : u # s => halts'[u] = halts[u]
      BY <1>0, <2>1 DEF KsTypeOK, Halted, Levels
  <2>3. QED
      BY <1>0, <1>1, <2>2, CallBegins DEF TriggerHalt
<1>2. ASSUME NEW c \in Callers, NEW s \in Scopes, AckHalt(c, s)
      PROVE  TableInv'
  <2>1. halts' = [halts EXCEPT ![s] = [level |-> halts[s].level, acked |-> TRUE]]
      BY <1>2 DEF AckHalt
  <2>2. /\ Halted(halts', s) /\ Halted(halts, s)
        /\ \A u \in Scopes : u # s => halts'[u] = halts[u]
      BY <1>0, <1>2, <2>1 DEF AckHalt, KsTypeOK, Halted
  <2>3. QED
      BY <1>0, <1>2, <2>2, CallBegins DEF AckHalt
<1>3. ASSUME NEW c \in Callers, NEW s \in Scopes, ResumeHalt(c, s)
      PROVE  TableInv'
  <2>1. halts' = [halts EXCEPT ![s] = NoHalt]
      BY <1>3 DEF ResumeHalt, SetHalts
  <2>2. ~Halted(halts', s) /\ halts[s].acked /\ \A u \in Scopes : u # s => halts'[u] = halts[u]
      BY <1>0, <1>3, <2>1 DEF ResumeHalt, MayResume, KsTypeOK, Halted, NoHalt
  <2>3. QED
      BY <1>0, <1>3, <2>2, CallBegins DEF ResumeHalt
<1>4. ASSUME NEW c \in Callers, ManagerStep(c)
      PROVE  TableInv'
  <2>0. wdUp /\ wdUp' /\ UNCHANGED <<halts, wdRestarts>>
      BY <1>4 DEF ManagerStep, TriggerPersist, TriggerAct, TriggerPublish, AckPersist,
                  ResumePersist, TableInv
  <2>1. CASE TriggerAct(c) \/ TriggerPublish(c)
    <3>1. PICK r : call' = [call EXCEPT ![c] = r] /\ r.pc \in {"idle", "publish"}
      <4> DEFINE next == [pc |-> "publish", scope |-> call[c].scope, level |-> call[c].level]
      <4>1. call' = [call EXCEPT ![c] = next] \/ call' = [call EXCEPT ![c] = IdleCall]
          BY <2>1 DEF TriggerAct, TriggerPublish, Goes, Calls, Returns
      <4>2. next.pc = "publish" /\ IdleCall.pc = "idle"
          BY DEF IdleCall
      <4> HIDE DEF next
      <4>3. QED
          BY <4>1, <4>2
    <3>2. ksRows' = ksRows /\ clean' = clean /\ call[c].pc \in {"act", "publish"}
        BY <2>1 DEF TriggerAct, TriggerPublish
    <3>3. ASSUME NEW u \in Scopes, clean
          PROVE  ScopeSettled(u)' /\ \A d \in Callers : ScopeDue(d, u)'
      <4>1. ScopeSettled(u) /\ \A d \in Callers : ScopeDue(d, u)
          BY <2>0, <3>3 DEF TableInv
      <4>2. /\ \A d \in Callers : Due(d, u)' <=> Due(d, u)
            /\ \A d \in Callers : Due(d, u) => call'[d].pc = call[d].pc
          BY <1>0, <3>1, <3>2, DueElsewhere
      <4>3. QED
          BY <2>0, <3>2, <4>1, <4>2, RowsKept, ScopeFrame
    <3>4. QED
        BY <2>0, <3>2, <3>3 DEF TableInv, ResumedRowsWereAcked
  <2>2. CASE TriggerPersist(c) \/ AckPersist(c) \/ ResumePersist(c)
    <3>1. PICK s \in Scopes : call[c].scope = s
        BY <1>0, <2>2 DEF KsTypeOK, TriggerPersist, AckPersist, ResumePersist
    <3>2. PICK r : call' = [call EXCEPT ![c] = r] /\ r.pc \in {"idle", "act"}
      <4> DEFINE next == [pc |-> "act", scope |-> call[c].scope, level |-> call[c].level]
      <4>1. call' = [call EXCEPT ![c] = next] \/ call' = [call EXCEPT ![c] = IdleCall]
          BY <2>2 DEF TriggerPersist, AckPersist, ResumePersist, Goes, Calls, Returns
      <4>2. next.pc = "act" /\ IdleCall.pc = "idle"
          BY DEF IdleCall
      <4> HIDE DEF next
      <4>3. QED
          BY <4>1, <4>2
    <3>3. Due(c, s)
        BY <2>2, <3>1 DEF Due, TriggerPersist, AckPersist, ResumePersist
    <3>4. CASE Fails
        BY <2>0, <3>4 DEF Fails, TableInv, ResumedRowsWereAcked
    <3>5. CASE ~Fails /\ ~clean
      <4>1. ~clean' /\ ksRows' \in Seq(EventRow)
        <5>1. ~clean'
            BY <2>2, <3>5 DEF TriggerPersist, AckPersist, ResumePersist
        <5>2. CASE TriggerPersist(c)
            BY <1>0, <3>1, <3>5, <5>2, InsertedRow DEF TriggerPersist, TableInv, KsTypeOK
        <5>3. CASE AckPersist(c)
            BY <3>1, <3>5, <5>3, AckedTable DEF AckPersist, TableInv
        <5>4. CASE ResumePersist(c)
            BY <3>1, <3>5, <5>4, ResumedTable DEF ResumePersist, TableInv
        <5>5. QED
            BY <2>2, <5>1, <5>2, <5>3, <5>4
      <4>2. QED
          BY <2>0, <4>1 DEF TableInv, ResumedRowsWereAcked
    <3>6. CASE ~Fails /\ clean
      <4>1. clean' = clean /\ ScopeDue(c, s)
          BY <2>0, <2>2, <3>6 DEF TriggerPersist, AckPersist, ResumePersist, TableInv
      <4>2. CASE TriggerPersist(c)
        <5>1. ksRows' = Append(ksRows, NewEvent(s, call[c].level)) /\ call[c].level \in Levels
            BY <1>0, <3>1, <3>6, <4>2 DEF TriggerPersist, KsTypeOK
        <5>2. Halted(halts, s) /\ ~halts[s].acked
            BY <3>3, <4>1, <4>2 DEF ScopeDue, TriggerPersist
        <5>3. /\ ksRows' \in Seq(EventRow)
              /\ OpenRows(s)' # {}
              /\ \A u \in Scopes : u # s => OpenRows(u)' = OpenRows(u) /\ (AllAcked(u) => AllAcked(u)')
              /\ ResumedRowsWereAcked'
            BY <2>0, <4>1, <5>1, InsertedRow DEF TableInv, ResumedRowsWereAcked
        <5>4. QED
            BY <1>0, <2>0, <3>2, <3>3, <3>6, <4>1, <5>2, <5>3, StatementDone
      <4>3. CASE AckPersist(c)
        <5>1. ksRows' = AckedRows(s)
            BY <3>1, <3>6, <4>3 DEF AckPersist
        <5>2. Halted(halts, s) <=> OpenRows(s) # {}
            BY <3>3, <4>1, <4>3 DEF ScopeDue, AckPersist
        <5>3. /\ ksRows' \in Seq(EventRow)
              /\ AllAcked(s)'
              /\ \A u \in Scopes : OpenRows(u)' = OpenRows(u) /\ (AllAcked(u) => AllAcked(u)')
              /\ ResumedRowsWereAcked'
            BY <2>0, <4>1, <5>1, AckedTable DEF TableInv, ResumedRowsWereAcked
        <5>4. QED
            BY <1>0, <2>0, <3>2, <3>3, <3>6, <4>1, <5>2, <5>3, StatementDone
      <4>4. CASE ResumePersist(c)
        <5>1. ksRows' = ResumedRows(s)
            BY <3>1, <3>6, <4>4 DEF ResumePersist
        <5>2. ~Halted(halts, s) /\ (wdRestarts = 0 => AllAcked(s))
            BY <3>3, <4>1, <4>4 DEF ScopeDue, ResumePersist
        <5>3. ~halts[s].acked
            BY <1>0, <5>2 DEF KsTypeOK, Halted, NoHalt, Levels
        <5>4. /\ ksRows' \in Seq(EventRow)
              /\ OpenRows(s)' = {}
              /\ \A u \in Scopes : u # s => OpenRows(u)' = OpenRows(u) /\ (AllAcked(u) => AllAcked(u)')
            BY <5>1, ResumedTable DEF TableInv
        <5>5. ResumedRowsWereAcked'
            BY <2>0, <3>6, <4>1, <5>1, <5>2, ResumedTable DEF TableInv, ResumedRowsWereAcked
        <5>6. QED
            BY <1>0, <2>0, <3>2, <3>3, <3>6, <4>1, <5>2, <5>3, <5>4, <5>5, StatementDone
      <4>5. QED
          BY <2>2, <4>2, <4>3, <4>4
    <3>7. QED
        BY <3>4, <3>5, <3>6
  <2>3. QED
      BY <1>4, <2>1, <2>2 DEF ManagerStep
<1>5. CASE WatchdogCrash
    BY <1>5 DEF WatchdogCrash, TableInv, ResumedRowsWereAcked, IdleCall
<1>6. CASE LoadActiveHalts
  <2>1. \A c \in Callers : call'[c].pc = "idle"
      BY <1>6 DEF LoadActiveHalts, TableInv
  <2>2. wdRestarts' # 0 /\ wdRestarts' = wdRestarts /\ ksRows' = ksRows
      BY <1>6 DEF LoadActiveHalts, TableInv
  <2>3. ASSUME NEW s \in Scopes PROVE Halted(halts', s) <=> OpenRows(s)' # {}
    <3>1. OpenRows(s)' = OpenRows(s)
        BY <2>2, RowsKept
    <3>2. CASE OpenRows(s) = {}
        BY <1>6, <3>1, <3>2 DEF LoadActiveHalts, Halted, NoHalt
    <3>3. CASE OpenRows(s) # {}
      <4>1. PICK i \in OpenRows(s) : halts'[s] = [level |-> ksRows[i].level, acked |-> ksRows[i].acked]
          BY <1>6, <3>3 DEF LoadActiveHalts
      <4>2. ksRows[i] \in EventRow
          BY DEF TableInv, OpenRows
      <4>3. QED
          BY <3>1, <3>3, <4>1, <4>2 DEF Halted, EventRow, Levels
    <3>4. QED
        BY <3>2, <3>3
  <2>4. \A s \in Scopes : ScopeSettled(s)' /\ \A c \in Callers : ScopeDue(c, s)'
      BY <2>1, <2>2, <2>3 DEF ScopeSettled, ScopeDue, Due, Halted
  <2>5. QED
      BY <1>6, <2>1, <2>2, <2>4 DEF LoadActiveHalts, TableInv, ResumedRowsWereAcked
<1>7. CASE CliStep
  <2>1. CASE \E s \in Scopes, l \in Levels : CliKill(s, l)
      BY <2>1, InsertedRow DEF CliKill, TableInv, ResumedRowsWereAcked
  <2>2. CASE \E s \in Scopes : CliAck(s)
      BY <2>2, AckedTable DEF CliAck, TableInv, ResumedRowsWereAcked
  <2>3. CASE \E s \in Scopes : CliResumeCheck(s)
      BY <2>3 DEF CliResumeCheck, TableInv, ScopeSettled, ScopeDue, Due, AllAcked, OpenRows,
                  Halted, ResumedRowsWereAcked
  <2>4. CASE CliResumeUpdate
    <3>1. cli \in Scopes
        BY <1>0, <2>4 DEF CliResumeUpdate, KsTypeOK
    <3>2. QED
        BY <2>4, <3>1, ResumedTable DEF CliResumeUpdate, TableInv, ResumedRowsWereAcked
  <2>5. QED
      BY <1>7, <2>1, <2>2, <2>3, <2>4 DEF CliStep
<1>8. CASE UNCHANGED ksVars
    BY <1>8 DEF ksVars, TableInv, ScopeSettled, ScopeDue, Due, AllAcked, OpenRows, Halted,
                ResumedRowsWereAcked
<1>9. QED
    BY <1>1, <1>2, <1>3, <1>4, <1>5, <1>6, <1>7, <1>8 DEF KsNext

\* KsInv and TableInv hold throughout.
LEMMA TableInvariant == KsSpec => [](KsInv /\ TableInv)
<1>1. KsInit => TableInv
  <2> SUFFICES ASSUME KsInit PROVE TableInv
      OBVIOUS
  <2>1. \A s \in Scopes : OpenRows(s) = {}
      BY DEF KsInit, OpenRows
  <2>2. \A s \in Scopes : ScopeSettled(s) /\ \A c \in Callers : ScopeDue(c, s)
      BY <2>1 DEF KsInit, ScopeSettled, ScopeDue, Due, Halted, NoHalt, IdleCall, AllAcked
  <2>3. QED
      BY <2>2 DEF KsInit, TableInv, ResumedRowsWereAcked
<1>2. QED
    BY <1>1, KsInvInit, KsInvStep, TableStep, PTL DEF KsSpec

\* Trigger, Acknowledge, Resume and LoadActiveHalts: for any number of scopes and
\* of concurrent callers, the table halts after a restart exactly the scopes that
\* are halted now, as long as no statement failed, trade-ctl left the table alone
\* and no two calls overlapped on a scope.
THEOREM HaltsSurviveRestart == KsSpec => []HaltsDurable
<1>1. KsInv /\ TableInv => HaltsDurable
  <2> SUFFICES ASSUME TableInv, KsQuiet, clean, NEW s \in Scopes
               PROVE  Halted(halts, s) <=> OpenRows(s) # {}
      BY DEF HaltsDurable
  <2>1. \A c \in Callers : ~Due(c, s)
      BY DEF KsQuiet, Due
  <2>2. QED
      BY <2>1 DEF TableInv, ScopeSettled, KsQuiet
<1>2. QED
    BY <1>1, TableInvariant, PTL

\* Acknowledge and Resume: under the same conditions no event row is resumed that
\* nobody acknowledged.
THEOREM ResumedOnlyAcked == KsSpec => []ResumedRowsWereAcked
<1>1. TableInv => ResumedRowsWereAcked
    BY DEF TableInv
<1>2. QED
    BY <1>1, TableInvariant, PTL
=============================================================================
