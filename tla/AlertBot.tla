------------------------------ MODULE AlertBot ------------------------------
(***************************************************************************)
(* services/alertbot: the process that turns events of the bus into        *)
(* Telegram messages and Telegram commands into calls of the watchdog.     *)
(*                                                                         *)
(* The notifier has one goroutine for each subscription, which runs its    *)
(* handler for one message at a time, and the ticker's; handlers and       *)
(* ticker share the two batches under n.mu and send with the lock          *)
(* released.  The bot runs each command in a goroutine of its own; they    *)
(* share the limiters and pendingKills.                                    *)
(***************************************************************************)
EXTENDS Integers, Sequences, SequencesExt

CONSTANTS Chats,          \* chats that send commands
          AllowedChats,   \* TELEGRAM_ALLOWED_CHAT_IDS
          Trades, Alerts, \* ChatGroups, as sequences
          BatchSize,      \* batchSize (500)
          Burst,          \* burst of a chat's limiter (10); a token comes back each tick
          ConfirmWindow,  \* ticks between /kill and its deadline (30 s)
          MaxEvents,      \* bound: kind -> events published
          MaxLostAcks,    \* bound: acknowledgements lost on the way to the bus
          MaxCrashes,     \* bound: restarts of the process
          MaxCommands,    \* bound: commands sent to the bot
          MaxClock        \* bound: ticks of the clock

ASSUME AlertAssumption ==
    /\ AllowedChats \subseteq Chats
    /\ Trades \in Seq(Range(Trades)) \ {<< >>} /\ Alerts \in Seq(Range(Alerts)) \ {<< >>}
    /\ BatchSize \in Nat \ {0}
    /\ {Burst, ConfirmWindow, MaxLostAcks, MaxCrashes, MaxCommands, MaxClock} \subseteq Nat

VARIABLES next,     \* kind -> events the bus has delivered at least once
          unacked,  \* kind -> delivered events without an acknowledgement
          batch,    \* kind -> n.proposed or n.denied
          proc,     \* goroutine -> what it is doing
          lostAcks, crashes,
          dlv,      \* history: event -> how often it was delivered
          tries     \* history: chat -> event -> how often it was sent there

VARIABLES cmds,     \* command -> its goroutine
          tokens,   \* chat -> tokens of its limiter
          pending,  \* pendingKills: chat -> deadline, and the /kill that set it
          clock,
          calls     \* history: the calls of TriggerKillSwitch, by their /kill

\* Bound: notifier and bot share no state, so a behaviour uses one of them.
NotifierAlone == \A i \in DOMAIN cmds : cmds[i].pc = "none"
BotAlone == \A k \in DOMAIN next : next[k] = 0

noteVars == <<next, unacked, batch, proc, lostAcks, dlv, tries>>
botVars == <<cmds, tokens, pending, clock, calls>>
alertVars == <<noteVars, crashes, botVars>>

-----------------------------------------------------------------------------
\* The notifier

Batched == {"proposed", "denied"}
Immediate == {"submitted", "filled", "kill"}
Kinds == Batched \cup Immediate  \* handleApproved only acknowledges
Events == UNION {{<<k, e>> : e \in 1..MaxEvents[k]} : k \in Kinds}
Procs == Kinds \cup {"ticker"}

\* broadcastTrades or broadcastAlerts.
Group(k) == IF k \in {"denied", "kill"} THEN Alerts ELSE Trades

\* How often e is in the sequence.
Times(e, s) == Cardinality({i \in DOMAIN s : s[i] = e})

Idle == [pc |-> "idle", kind |-> "none", out |-> << >>, left |-> << >>]
Does(p, pc, k, out, left) ==
    proc' = [proc EXCEPT ![p] = [pc |-> pc, kind |-> k, out |-> out, left |-> left]]

\* broadcastTo: the goroutine sends out to the chats, one after the other.
Broadcasts(p, k, out) == Does(p, "send", k, out, Group(k))

\* After flushProposed the ticker goes on to flushDenied; anything else is done.
Done(p) ==
    IF p = "ticker" /\ proc[p].kind = "proposed"
    THEN Does(p, "flush", "denied", << >>, << >>)
    ELSE proc' = [proc EXCEPT ![p] = Idle]

\* The handler of k takes a message, a new one or one whose acknowledgement did not
\* arrive, and acknowledges it before anything else.
Receive(k, e) ==
    /\ NotifierAlone
    /\ proc[k].pc = "idle"
    /\ \/ e = next[k] + 1 /\ e <= MaxEvents[k]
       \/ e \in unacked[k]
    /\ next' = [next EXCEPT ![k] = IF e > @ THEN e ELSE @]
    /\ \/ /\ unacked' = [unacked EXCEPT ![k] = @ \ {e}]
          /\ UNCHANGED lostAcks
       \/ /\ lostAcks < MaxLostAcks
          /\ lostAcks' = lostAcks + 1
          /\ unacked' = [unacked EXCEPT ![k] = @ \cup {e}]
    /\ dlv' = [dlv EXCEPT ![<<k, e>>] = @ + 1]
    /\ \/ k \in Batched /\ Does(k, "append", k, <<e>>, Group(k))
       \/ k \in Immediate /\ Broadcasts(k, k, <<e>>)
    /\ UNCHANGED <<batch, tries, crashes, botVars>>

ShouldFlush(b) == Len(b) >= BatchSize

\* handleProposed, handleDenied: append and test under the lock.
AppendEvent(k) ==
    /\ proc[k].pc = "append"
    /\ batch' = [batch EXCEPT ![k] = @ \o proc[k].out]
    /\ IF ShouldFlush(batch'[k]) THEN Does(k, "flush", k, << >>, << >>) ELSE Done(k)
    /\ UNCHANGED <<next, unacked, lostAcks, dlv, tries, crashes, botVars>>

\* Mutant: the batch is copied out and not reset.
CopyBatch(k) == UNCHANGED batch

SwapBatch(k) == batch' = [batch EXCEPT ![k] = << >>]

\* flushProposed, flushDenied: swap under the lock, and broadcast unless empty.
Flush(p) ==
    /\ proc[p].pc = "flush"
    /\ LET k == proc[p].kind
       IN /\ SwapBatch(k)
          /\ IF batch[k] = << >> THEN Done(p) ELSE Broadcasts(p, k, batch[k])
    /\ UNCHANGED <<next, unacked, lostAcks, dlv, tries, crashes, botVars>>

\* One bot.Send; its error is logged and the loop goes on.
Send(p) ==
    /\ proc[p].pc = "send"
    /\ LET r == proc[p]
       IN /\ tries' = [tries EXCEPT ![Head(r.left)] =
                          [x \in Events |->
                              IF x[1] = r.kind
                              THEN @[x] + Times(x[2], r.out)
                              ELSE @[x]]]
          /\ IF Len(r.left) > 1 THEN Does(p, "send", r.kind, r.out, Tail(r.left)) ELSE Done(p)
    /\ UNCHANGED <<next, unacked, batch, lostAcks, dlv, crashes, botVars>>

\* Mutant: the ticker only flushes the denied orders.
TickDenied ==
    /\ proc["ticker"].pc = "idle"
    /\ \E k \in Batched : batch[k] # << >>
    /\ Does("ticker", "flush", "denied", << >>, << >>)
    /\ UNCHANGED <<next, unacked, batch, lostAcks, dlv, tries, crashes, botVars>>

\* The ticker of batchFlusher fires (a tick with nothing to flush changes nothing).
Tick ==
    /\ proc["ticker"].pc = "idle"
    /\ \E k \in Batched : batch[k] # << >>
    /\ Does("ticker", "flush", "proposed", << >>, << >>)
    /\ UNCHANGED <<next, unacked, batch, lostAcks, dlv, tries, crashes, botVars>>

-----------------------------------------------------------------------------
\* The bot

NoCommand == [pc |-> "none", chat |-> "none", cmd |-> "none", kill |-> 0, deadline |-> 0]
NoKill == [kill |-> 0, deadline |-> 0]
CommandIds == 1..MaxCommands
CommandNames == {"kill", "confirm_kill", "resume", "status"}

\* Run takes an update and starts a goroutine for it.
Command(i, chat, cmd) ==
    /\ BotAlone
    /\ cmds[i].pc = "none"
    /\ \A j \in CommandIds : j < i => cmds[j].pc # "none"
    /\ cmds' = [cmds EXCEPT ![i] = [pc |-> "start", chat |-> chat, cmd |-> cmd, kill |-> 0,
                                    deadline |-> 0]]
    /\ UNCHANGED <<noteVars, crashes, tokens, pending, clock, calls>>

Ends(i) == cmds' = [cmds EXCEPT ![i].pc = "done"]

\* handleCommand: an unknown chat is ignored, an allowed one asks its limiter.
Admit(i) ==
    /\ cmds[i].pc = "start"
    /\ LET c == cmds[i].chat
       IN IF c \in AllowedChats /\ tokens[c] > 0
          THEN /\ tokens' = [tokens EXCEPT ![c] = @ - 1]
               /\ cmds' = [cmds EXCEPT ![i].pc = cmds[i].cmd]
          ELSE Ends(i) /\ UNCHANGED tokens
    /\ UNCHANGED <<noteVars, crashes, pending, clock, calls>>

\* cmdKill, under b.mu.
cmdKill(i) ==
    /\ cmds[i].pc = "kill"
    /\ pending' = [pending EXCEPT ![cmds[i].chat] = [kill |-> i, deadline |-> clock + ConfirmWindow]]
    /\ Ends(i)
    /\ UNCHANGED <<noteVars, crashes, tokens, clock, calls>>

\* Mutant: the confirmation stays until the watchdog has answered.
PeekPending(i) == UNCHANGED pending

TakePending(i) == pending' = [pending EXCEPT ![cmds[i].chat] = NoKill]

\* cmdConfirmKill, under b.mu: read and delete.
cmdConfirmKill(i) ==
    /\ cmds[i].pc = "confirm_kill"
    /\ TakePending(i)
    /\ LET p == pending[cmds[i].chat]
       IN cmds' = [cmds EXCEPT ![i] = [pc |-> "check", chat |-> @.chat, cmd |-> @.cmd,
                                       kill |-> p.kill, deadline |-> p.deadline]]
    /\ UNCHANGED <<noteVars, crashes, tokens, clock, calls>>

\* The rest of it: nothing pending or too late, or the call.
ConfirmCheck(i) ==
    /\ cmds[i].pc = "check"
    /\ Ends(i)
    /\ calls' = IF cmds[i].kill = 0 \/ clock > cmds[i].deadline THEN calls
                ELSE Append(calls, cmds[i].kill)
    /\ UNCHANGED <<noteVars, crashes, tokens, pending, clock>>

\* cmdResume (which the watchdog refuses), and the commands that only read.
OtherCommand(i) ==
    /\ cmds[i].pc \in {"resume", "status"}
    /\ Ends(i)
    /\ UNCHANGED <<noteVars, crashes, tokens, pending, clock, calls>>

ClockTick ==
    /\ clock < MaxClock
    /\ ~NotifierAlone
    /\ clock' = clock + 1
    /\ tokens' = [c \in Chats |-> IF tokens[c] < Burst THEN tokens[c] + 1 ELSE Burst]
    /\ UNCHANGED <<noteVars, crashes, cmds, pending, calls>>

-----------------------------------------------------------------------------
AlertInit ==
    /\ next = [k \in Kinds |-> 0]
    /\ unacked = [k \in Kinds |-> {}]
    /\ batch = [k \in Batched |-> << >>]
    /\ proc = [p \in Procs |-> Idle]
    /\ lostAcks = 0
    /\ crashes = 0
    /\ dlv = [x \in Events |-> 0]
    /\ tries = [g \in Range(Trades) \cup Range(Alerts) |-> [x \in Events |-> 0]]
    /\ cmds = [i \in CommandIds |-> NoCommand]
    /\ tokens = [c \in Chats |-> Burst]
    /\ pending = [c \in Chats |-> NoKill]
    /\ clock = 0
    /\ calls = << >>

\* The process ends and is started again: its memory is lost, the durable
\* consumers go on after the last acknowledgement.
Restart ==
    /\ crashes < MaxCrashes
    /\ crashes' = crashes + 1
    /\ batch' = [k \in Batched |-> << >>]
    /\ proc' = [p \in Procs |-> Idle]
    /\ cmds' = [i \in CommandIds |-> IF cmds[i].pc = "none" THEN NoCommand
                                     ELSE [cmds[i] EXCEPT !.pc = "done"]]
    /\ tokens' = [c \in Chats |-> Burst]
    /\ pending' = [c \in Chats |-> NoKill]
    /\ UNCHANGED <<next, unacked, lostAcks, dlv, tries, clock, calls>>

NotifierStep ==
    \/ \E x \in Events : Receive(x[1], x[2])
    \/ \E k \in Batched : AppendEvent(k)
    \/ \E p \in Procs : Flush(p) \/ Send(p)
    \/ Tick

CommandStep(i) ==
    Admit(i) \/ cmdKill(i) \/ cmdConfirmKill(i) \/ ConfirmCheck(i) \/ OtherCommand(i)

AlertNext ==
    \/ NotifierStep
    \/ \E i \in CommandIds :
          (\E c \in Chats, n \in CommandNames : Command(i, c, n)) \/ CommandStep(i)
    \/ ClockTick
    \/ Restart

AlertSpec == AlertInit /\ [][AlertNext]_alertVars

\* The goroutines are scheduled, bot.Send returns, and the ticker ticks.
AlertFairSpec ==
    /\ AlertSpec
    /\ WF_alertVars(Tick)
    /\ \A k \in Batched : WF_alertVars(AppendEvent(k))
    /\ \A p \in Procs : WF_alertVars(Flush(p) \/ Send(p))

-----------------------------------------------------------------------------
\* Properties

\* Copies of the event that goroutine p has still to bring to chat g, or has in
\* hand to put into the batch.
Owed(p, g, k, e) ==
    IF proc[p].kind = k THEN Times(e, proc[p].out) * Times(g, proc[p].left) ELSE 0

\* Copies of the event that chat g was sent or is still to be sent.
Copies(g, k, e) ==
    tries[g][<<k, e>>]
    + (IF k \in Batched THEN Times(e, batch[k]) * Times(g, Group(k)) ELSE 0)
    + SumFunction([p \in Procs |-> Owed(p, g, k, e)])

\* Every delivery of an event goes to every chat of its group exactly once for each
\* time the group lists the chat, and until then is in one place only: its handler,
\* the batch, or one goroutine's broadcast.  Only a restart loses some, and nothing
\* sends one twice.
DeliveriesConserved ==
    \A x \in Events :
        \A g \in Range(Group(x[1])) :
            LET due == dlv[x] * Times(g, Group(x[1]))
            IN IF crashes = 0 THEN Copies(g, x[1], x[2]) = due ELSE Copies(g, x[1], x[2]) <= due

\* One /kill is good for at most one call of the watchdog, however many
\* confirmations run at the same time.
OneCallPerKill == \A i, j \in DOMAIN calls : calls[i] = calls[j] => i = j

\* An event in a batch is sent to every chat of its group, however few events
\* follow it, unless the process ends first.
BatchAnnounced ==
    \A k \in Batched : \A e \in 1..MaxEvents[k] :
        (Contains(batch[k], e) /\ crashes = 0)
            ~> (crashes > 0 \/ \A g \in Range(Group(k)) : tries[g][<<k, e>>] > 0)
=============================================================================
