---------------------------- MODULE DashboardHub ----------------------------
(***************************************************************************)
(* services/dashboard: the hub that fans the events of the bus out to the  *)
(* WebSocket clients, and the bridge that feeds it.                        *)
(*                                                                         *)
(* Goroutines: the hub's loop; the bridge's subscriptions, which call      *)
(* Broadcast; for each client the reader loop of ServeClient and its       *)
(* writer; and the goroutine that each overflow of a client's buffer       *)
(* starts to unregister it.  register and unregister are unbuffered, so a  *)
(* sender waits until the loop takes it; the loop is one goroutine, and    *)
(* each turn of its select is one step.                                    *)
(***************************************************************************)
EXTENDS Integers, Sequences

CONSTANTS Clients,
          BroadcastCap,  \* capacity of the hub's broadcast channel (256)
          SendCap,       \* capacity of a client's send channel (64)
          MaxMsgs        \* bound: events the bus delivers

ASSUME HubAssumption ==
    /\ BroadcastCap \in Nat \ {0}
    /\ SendCap \in Nat \ {0}
    /\ MaxMsgs \in Nat

VARIABLES hub,         \* the loop: "loop" or "done"
          clients,     \* h.clients
          broadcast,   \* h.broadcast, oldest first
          send,        \* client -> its send channel
          closes,      \* client -> how often its send channel has been closed
          droppers,    \* client -> goroutines waiting to unregister it
          reader,      \* client -> where ServeClient is
          writer,      \* client -> the writer goroutine
          conn,        \* client -> whether its connection is up
          delivered,   \* events the bus has delivered
          handled,     \* history: what the loop has taken from broadcast
          since,       \* history: client -> length of handled when it registered
          got          \* history: client -> what was written to its connection

chanVars == <<clients, broadcast, send, closes, droppers>>
histVars == <<delivered, handled, since, got>>
hubVars == <<hub, chanVars, reader, writer, conn, histVars>>

-----------------------------------------------------------------------------
\* The bridge

\* forward, then Ack: Broadcast drops the event when the channel is full.
Broadcast ==
    /\ delivered < MaxMsgs
    /\ delivered' = delivered + 1
    /\ broadcast' = IF Len(broadcast) < BroadcastCap THEN Append(broadcast, delivered + 1)
                    ELSE broadcast
    /\ UNCHANGED <<hub, clients, send, closes, droppers, reader, writer, conn, handled, since, got>>

-----------------------------------------------------------------------------
\* The hub's loop

\* h.register meets the sender in ServeClient, which goes on to start the writer
\* and to read.
Register(c) ==
    /\ hub = "loop"
    /\ reader[c] = "register"
    /\ clients' = clients \cup {c}
    /\ reader' = [reader EXCEPT ![c] = "read"]
    /\ writer' = [writer EXCEPT ![c] = "wait"]
    /\ since' = [since EXCEPT ![c] = Len(handled)]
    /\ UNCHANGED <<hub, broadcast, send, closes, droppers, conn, delivered, handled, got>>

\* Mutant: the test whether the client is still there is left out.
CloseAlways(c) ==
    /\ clients' = clients \ {c}
    /\ closes' = [closes EXCEPT ![c] = @ + 1]

\* Mutant: the channel is left open.
DeleteOnly(c) ==
    /\ clients' = clients \ {c}
    /\ UNCHANGED closes

\* close(client.send) and delete, if the client is still registered.
RemoveClient(c) ==
    /\ clients' = clients \ {c}
    /\ closes' = IF c \in clients THEN [closes EXCEPT ![c] = @ + 1] ELSE closes

\* h.unregister meets a sender: the deferred call of ServeClient, which returns,
\* or a goroutine started by an overflow.
Unregister(c) ==
    /\ hub = "loop"
    /\ \/ /\ reader[c] = "leave"
          /\ reader' = [reader EXCEPT ![c] = "gone"]
          /\ UNCHANGED droppers
       \/ /\ droppers[c] > 0
          /\ droppers' = [droppers EXCEPT ![c] = @ - 1]
          /\ UNCHANGED reader
    /\ RemoveClient(c)
    /\ UNCHANGED <<hub, broadcast, send, writer, conn, histVars>>

Full(c) == Len(send[c]) >= SendCap

\* Mutant: a full buffer keeps its client, which misses the event.
KeepSlow == UNCHANGED <<hub, droppers>>

\* Mutant: the loop itself sends to h.unregister, and waits for ever.
DropInline ==
    /\ hub' = IF \E c \in clients : Full(c) THEN "blocked" ELSE hub
    /\ droppers' = [c \in Clients |->
                       IF c \in clients /\ Full(c) THEN droppers[c] + 1 ELSE droppers[c]]

\* go func(c *Client) { h.unregister <- c }(client), for each full buffer.
DropSlow ==
    /\ droppers' = [c \in Clients |->
                       IF c \in clients /\ Full(c) THEN droppers[c] + 1 ELSE droppers[c]]
    /\ UNCHANGED hub

\* A message goes into every buffer with room.
Fanout ==
    /\ hub = "loop"
    /\ broadcast # << >>
    /\ broadcast' = Tail(broadcast)
    /\ handled' = Append(handled, Head(broadcast))
    /\ send' = [c \in Clients |->
                   IF c \in clients /\ ~Full(c) THEN Append(send[c], Head(broadcast))
                   ELSE send[c]]
    /\ DropSlow
    /\ UNCHANGED <<clients, closes, reader, writer, conn, delivered, since, got>>

\* ctx.Done: every registered client's channel is closed.
Shutdown ==
    /\ hub = "loop"
    /\ hub' = "done"
    /\ closes' = [c \in Clients |-> IF c \in clients THEN closes[c] + 1 ELSE closes[c]]
    /\ clients' = {}
    /\ UNCHANGED <<broadcast, send, droppers, reader, writer, conn, histVars>>

-----------------------------------------------------------------------------
\* A client: handleWS and ServeClient

\* The upgrade succeeds; ServeClient waits in h.register <- client.
Connect(c) ==
    /\ reader[c] = "none"
    /\ reader' = [reader EXCEPT ![c] = "register"]
    /\ conn' = [conn EXCEPT ![c] = TRUE]
    /\ UNCHANGED <<hub, chanVars, writer, histVars>>

\* The peer goes away.
Disconnect(c) ==
    /\ conn[c]
    /\ conn' = [conn EXCEPT ![c] = FALSE]
    /\ UNCHANGED <<hub, chanVars, reader, writer, histVars>>

\* conn.Read fails, and the deferred unregister waits for the loop.
ReadFails(c) ==
    /\ reader[c] = "read"
    /\ ~conn[c]
    /\ reader' = [reader EXCEPT ![c] = "leave"]
    /\ UNCHANGED <<hub, chanVars, writer, conn, histVars>>

\* The writer takes a message and writes it within its five seconds, or the write
\* fails, which ends the writer (and closes the connection: a library property).
Write(c) ==
    /\ writer[c] = "wait"
    /\ send[c] # << >>
    /\ send' = [send EXCEPT ![c] = Tail(@)]
    /\ \/ /\ conn[c]
          /\ got' = [got EXCEPT ![c] = Append(@, Head(send[c]))]
          /\ UNCHANGED <<writer, conn>>
       \/ /\ writer' = [writer EXCEPT ![c] = "ended"]
          /\ conn' = [conn EXCEPT ![c] = FALSE]
          /\ UNCHANGED got
    /\ UNCHANGED <<hub, clients, broadcast, closes, droppers, reader, delivered, handled, since>>

\* The range over the closed, empty channel ends.
WriterEnds(c) ==
    /\ writer[c] = "wait"
    /\ send[c] = << >>
    /\ closes[c] > 0
    /\ writer' = [writer EXCEPT ![c] = "ended"]
    /\ UNCHANGED <<hub, chanVars, reader, conn, histVars>>

-----------------------------------------------------------------------------
HubInit ==
    /\ hub = "loop"
    /\ clients = {}
    /\ broadcast = << >>
    /\ send = [c \in Clients |-> << >>]
    /\ closes = [c \in Clients |-> 0]
    /\ droppers = [c \in Clients |-> 0]
    /\ reader = [c \in Clients |-> "none"]
    /\ writer = [c \in Clients |-> "none"]
    /\ conn = [c \in Clients |-> FALSE]
    /\ delivered = 0
    /\ handled = << >>
    /\ since = [c \in Clients |-> 0]
    /\ got = [c \in Clients |-> << >>]

ClientStep(c) == ReadFails(c) \/ Write(c) \/ WriterEnds(c)

HubNext ==
    \/ Broadcast
    \/ Fanout
    \/ Shutdown
    \/ \E c \in Clients : \/ Register(c) \/ Unregister(c)
                          \/ Connect(c) \/ Disconnect(c) \/ ClientStep(c)

HubSpec == HubInit /\ [][HubNext]_hubVars

\* The loop and the clients' goroutines are scheduled; a select with several ready
\* cases picks one at random, so each sender is taken in the end.
HubFairSpec ==
    /\ HubSpec
    /\ WF_hubVars(Fanout)
    /\ \A c \in Clients : /\ SF_hubVars(Register(c))
                          /\ SF_hubVars(Unregister(c))
                          /\ WF_hubVars(ReadFails(c))
                          /\ WF_hubVars(Write(c))
                          /\ WF_hubVars(WriterEnds(c))

-----------------------------------------------------------------------------
\* Properties

\* What a client was sent, and what the loop took since it registered.
Feed(c) == got[c] \o send[c]
Taken(c) == SubSeq(handled, since[c] + 1, Len(handled))

\* No panic: the hub never sends on a closed channel and never closes one twice,
\* however overflows, disconnects and the shutdown meet.
ChannelDiscipline ==
    \A c \in Clients : closes[c] <= 1 /\ (c \in clients => closes[c] = 0)

\* A client's messages come in the order the loop took them; and as long as its
\* buffer has not overflowed and its connection is up, it misses nothing of what
\* the loop took since it registered.
FeedComplete ==
    \A c \in Clients :
        /\ \A i, j \in DOMAIN Feed(c) : i < j => Feed(c)[i] < Feed(c)[j]
        /\ c \in clients /\ droppers[c] = 0 /\ conn[c] => Feed(c) = Taken(c)

\* A client that has missed a message leaves the hub: it is not shown a feed with
\* holes for ever, and the loop does not stall on it.
GapEndsFeed ==
    \A c \in Clients : (c \in clients /\ Feed(c) # Taken(c)) ~> (c \notin clients)

\* The goroutines of a client that disconnects end: ServeClient returns and the
\* writer stops, unless the hub is shut down.
GoroutinesEnd ==
    \A c \in Clients :
        (reader[c] = "read" /\ ~conn[c])
            ~> (reader[c] = "gone" /\ writer[c] = "ended") \/ hub = "done"
=============================================================================
