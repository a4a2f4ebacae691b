--------------------------- MODULE OperatorProofs ---------------------------
(***************************************************************************)
(* The theorems about the two interfaces to the operators, the dashboard's *)
(* hub and the Telegram bot, which share nothing.                          *)
(*                                                                         *)
(* The hub, for any set of clients, any capacities and any number of       *)
(* events: ChannelDiscipline is not inductive, as a client that registers  *)
(* must not have been closed before.  HubInv adds that a client whose      *)
(* ServeClient has not passed h.register was never in the hub, and so      *)
(* never closed.  FeedComplete needs, on top of HubInv, that the channels  *)
(* hold events in the order of their arrival, that a client was sent only  *)
(* events older than the ones still in the broadcast channel, and that     *)
(* nothing was put into the channel of a client that has not registered:   *)
(* FeedInv.                                                                *)
(*                                                                         *)
(* The bot: a /kill command is good for one call of the watchdog, for any  *)
(* number of chats, commands and restarts.  A /kill that has run is in one *)
(* place at most: it is pending, or a confirmation has taken it, or the    *)
(* call has been made.  KillInv says so, and that a command that has not   *)
(* ended is in none of them.                                               *)
(*                                                                         *)
(* The notifier: what is delivered is conserved.  NoteInv adds what each   *)
(* goroutine holds at each of its steps; every action then takes copies    *)
(* from one place (handler, batch, broadcast, chat) and adds as many to    *)
(* another (StepBalances), which needs how often an element is in a        *)
(* concatenation (TimesConcat) and how a sum changes with one of its       *)
(* values (SumChange).                                                     *)
(***************************************************************************)
EXTENDS DashboardHub, AlertBot, SumProofs, SequenceTheorems

-----------------------------------------------------------------------------
\* The dashboard's hub

\* The clients whose send channel nobody has touched yet.
Unseen(c) == reader[c] \in {"none", "register"}

HubInv ==
    /\ clients \subseteq Clients
    /\ closes \in [Clients -> Nat]
    /\ reader \in [Clients -> {"none", "register", "read", "leave", "gone"}]
    /\ ChannelDiscipline
    /\ \A c \in Clients : Unseen(c) => closes[c] = 0 /\ c \notin clients

\* The steps that leave the hub's map, the closings and the readers alone.
LEMMA HubKeeps ==
    ASSUME HubInv, UNCHANGED <<clients, closes, reader>>
    PROVE  HubInv'
    BY DEF HubInv, ChannelDiscipline, Unseen

\* A reader that moves past its first two places, or from the first to the second.
LEMMA ReaderMoves ==
    ASSUME HubInv, UNCHANGED <<clients, closes>>, NEW c \in Clients,
           NEW w \in {"register", "leave", "gone"}, w = "register" => Unseen(c),
           reader' = [reader EXCEPT ![c] = w]
    PROVE  HubInv'
    BY DEF HubInv, ChannelDiscipline, Unseen

\* Removing a client closes its channel exactly if it was still registered.
LEMMA RemoveSafe ==
    ASSUME HubInv, NEW c \in Clients, ~Unseen(c) \/ c \notin clients, RemoveClient(c), UNCHANGED reader
    PROVE  HubInv'
<1>1. CASE c \in clients
  <2>1. closes[c] = 0
      BY <1>1 DEF HubInv, ChannelDiscipline
  <2>2. closes' = [closes EXCEPT ![c] = 1] /\ clients' = clients \ {c}
      BY <1>1, <2>1 DEF RemoveClient
  <2>3. QED
      BY <1>1, <2>2 DEF HubInv, ChannelDiscipline, Unseen
<1>2. CASE c \notin clients
  <2>1. closes' = closes /\ clients' = clients
      BY <1>2 DEF RemoveClient, HubInv
  <2>2. QED
      BY <2>1, HubKeeps
<1>3. QED
    BY <1>1, <1>2

\* No client is in the hub at first, and no channel is closed.
LEMMA HubInitInv == HubInit => HubInv
    BY DEF HubInit, HubInv, ChannelDiscipline, Unseen

\* Each turn of the loop and each step of a client keeps HubInv.
LEMMA HubStep == HubInv /\ [HubNext]_hubVars => HubInv'
<1> SUFFICES ASSUME HubInv, [HubNext]_hubVars
             PROVE  HubInv'
    OBVIOUS
<1>1. CASE Broadcast
    BY <1>1, HubKeeps DEF Broadcast
<1>2. CASE Fanout
    BY <1>2, HubKeeps DEF Fanout
<1>3. CASE Shutdown
  <2>1. \A c \in Clients : closes'[c] = IF c \in clients THEN 1 ELSE closes[c]
      BY <1>3 DEF Shutdown, HubInv, ChannelDiscipline
  <2>2. closes' \in [Clients -> Nat] /\ clients' = {} /\ reader' = reader
      BY <1>3 DEF Shutdown, HubInv
  <2>3. QED
      BY <2>1, <2>2 DEF HubInv, ChannelDiscipline, Unseen
<1>4. ASSUME NEW c \in Clients, Register(c)
      PROVE  HubInv'
  <2>1. closes[c] = 0
      BY <1>4 DEF Register, HubInv, Unseen
  <2>2. QED
      BY <1>4, <2>1 DEF Register, HubInv, ChannelDiscipline, Unseen
<1>5. ASSUME NEW c \in Clients, Unregister(c)
      PROVE  HubInv'
  <2>1. CASE reader[c] = "leave" /\ reader' = [reader EXCEPT ![c] = "gone"]
    <3>1. CASE c \in clients
      <4>1. closes[c] = 0
          BY <3>1 DEF HubInv, ChannelDiscipline
      <4>2. closes' = [closes EXCEPT ![c] = 1] /\ clients' = clients \ {c}
          BY <1>5, <3>1, <4>1 DEF Unregister, RemoveClient
      <4>3. QED
          BY <2>1, <3>1, <4>2 DEF HubInv, ChannelDiscipline, Unseen
    <3>2. CASE c \notin clients
      <4>1. UNCHANGED <<clients, closes>>
          BY <1>5, <3>2 DEF Unregister, RemoveClient, HubInv
      <4>2. QED
          BY <2>1, <4>1, ReaderMoves
    <3>3. QED
        BY <3>1, <3>2
  <2>2. CASE UNCHANGED reader
    <3>1. ~Unseen(c) \/ c \notin clients
        BY DEF HubInv
    <3>2. QED
        BY <1>5, <2>2, <3>1, RemoveSafe DEF Unregister
  <2>3. QED
      BY <1>5, <2>1, <2>2 DEF Unregister
<1>6. ASSUME NEW c \in Clients, Connect(c)
      PROVE  HubInv'
    BY <1>6, ReaderMoves DEF Connect, chanVars, Unseen
<1>7. ASSUME NEW c \in Clients, ReadFails(c)
      PROVE  HubInv'
    BY <1>7, ReaderMoves DEF ReadFails, chanVars
<1>8. ASSUME NEW c \in Clients, Disconnect(c) \/ Write(c) \/ WriterEnds(c)
      PROVE  HubInv'
    BY <1>8, HubKeeps DEF Disconnect, Write, WriterEnds, chanVars
<1>9. CASE UNCHANGED hubVars
    BY <1>9, HubKeeps DEF hubVars, chanVars
<1>10. QED
    BY <1>1, <1>2, <1>3, <1>4, <1>5, <1>6, <1>7, <1>8, <1>9 DEF HubNext, ClientStep

\* The hub never sends on a closed channel and never closes one twice (either
\* would end the dashboard's process), whatever overflows, disconnects and the
\* shutdown do at the same time.
THEOREM HubNeverPanics == HubSpec => []ChannelDiscipline
<1>1. HubInv => ChannelDiscipline
    BY DEF HubInv
<1>2. QED
    BY <1>1, HubInitInv, HubStep, PTL DEF HubSpec

-----------------------------------------------------------------------------
\* Sequences of events in the order of their arrival

Increasing(s) == \A i, j \in DOMAIN s : i < j => s[i] < s[j]

\* Appending a later event keeps the order.
LEMMA AppendIncreasing ==
    ASSUME NEW s \in Seq(Nat), NEW m \in Nat, Increasing(s), \A i \in DOMAIN s : s[i] < m
    PROVE  Increasing(Append(s, m))
<1> DEFINE a == Append(s, m)
<1>1. /\ Len(s) \in Nat
      /\ DOMAIN s = 1 .. Len(s)
      /\ DOMAIN a = 1 .. (Len(s) + 1)
      /\ \A i \in 1 .. Len(s) : a[i] = s[i] /\ s[i] \in Nat
      /\ a[Len(s) + 1] = m
    BY AppendProperties, LenProperties, ElementOfSeq
<1> HIDE DEF a
<1>2. ASSUME NEW i \in DOMAIN a, NEW j \in DOMAIN a, i < j
      PROVE  a[i] < a[j]
  <2>1. i \in 1 .. Len(s)
      BY <1>1, <1>2
  <2>2. CASE j \in 1 .. Len(s)
      BY <1>1, <1>2, <2>1, <2>2 DEF Increasing
  <2>3. CASE j = Len(s) + 1
      BY <1>1, <2>1, <2>3
  <2>4. QED
      BY <1>1, <2>2, <2>3
<1>3. QED
    BY <1>2 DEF Increasing, a

\* What is left of the queue is in order, and later than what was taken from it.
LEMMA TailIncreasing ==
    ASSUME NEW s \in Seq(Nat), s # << >>, Increasing(s)
    PROVE  /\ Head(s) \in Nat
           /\ 1 \in DOMAIN s /\ Head(s) = s[1]
           /\ Tail(s) \in Seq(Nat)
           /\ Increasing(Tail(s))
           /\ \A i \in DOMAIN Tail(s) : i + 1 \in DOMAIN s /\ Tail(s)[i] = s[i + 1] /\ Head(s) < Tail(s)[i]
<1>1. /\ Len(s) \in Nat \ {0}
      /\ DOMAIN s = 1 .. Len(s)
      /\ Head(s) \in Nat
      /\ Tail(s) \in Seq(Nat)
      /\ Len(Tail(s)) = Len(s) - 1
      /\ \A i \in 1 .. Len(Tail(s)) : Tail(s)[i] = s[i + 1]
    BY HeadTailProperties, LenProperties, EmptySeq
<1>2. Head(s) = s[1]
    BY <1>1
<1>3. DOMAIN Tail(s) = 1 .. (Len(s) - 1)
    BY <1>1, LenProperties
<1>4. \A i \in 1 .. (Len(s) - 1) : i \in Int /\ i + 1 \in DOMAIN s /\ 1 \in DOMAIN s /\ 1 < i + 1
    BY <1>1
<1>5. \A i \in DOMAIN Tail(s) : i + 1 \in DOMAIN s /\ Tail(s)[i] = s[i + 1] /\ Head(s) < Tail(s)[i]
    BY <1>1, <1>2, <1>3, <1>4 DEF Increasing
<1>6. ASSUME NEW i \in DOMAIN Tail(s), NEW j \in DOMAIN Tail(s), i < j
      PROVE  Tail(s)[i] < Tail(s)[j]
  <2>1. i \in Int /\ j \in Int /\ i + 1 < j + 1
      BY <1>3, <1>6
  <2>2. s[i + 1] < s[j + 1]
      BY <1>5, <2>1 DEF Increasing
  <2>3. QED
      BY <1>5, <2>2
<1>7. QED
    BY <1>1, <1>2, <1>5, <1>6 DEF Increasing

\* Concatenation of sequences of events is associative.
LEMMA FeedAssociative ==
    ASSUME NEW p \in Seq(Nat), NEW q \in Seq(Nat), NEW r \in Seq(Nat)
    PROVE  (p \o q) \o r = p \o (q \o r)
<1> DEFINE pq == p \o q
           qr == q \o r
           left == pq \o r
           right == p \o qr
<1>1. Len(p) \in Nat /\ Len(q) \in Nat /\ Len(r) \in Nat
    BY LenProperties
<1>2. pq \in Seq(Nat) /\ qr \in Seq(Nat)
    BY ConcatProperties
<1>3. /\ Len(pq) = Len(p) + Len(q)
      /\ \A i \in 1 .. Len(p) + Len(q) : pq[i] = IF i <= Len(p) THEN p[i] ELSE q[i - Len(p)]
    BY ConcatProperties
<1>4. /\ Len(qr) = Len(q) + Len(r)
      /\ \A i \in 1 .. Len(q) + Len(r) : qr[i] = IF i <= Len(q) THEN q[i] ELSE r[i - Len(q)]
    BY ConcatProperties
<1> HIDE DEF pq, qr
<1>5. left \in Seq(Nat) /\ right \in Seq(Nat)
    BY <1>2, ConcatProperties
<1>6. /\ Len(left) = Len(pq) + Len(r)
      /\ \A i \in 1 .. Len(pq) + Len(r) : left[i] = IF i <= Len(pq) THEN pq[i] ELSE r[i - Len(pq)]
    BY <1>2, ConcatProperties
<1>7. /\ Len(right) = Len(p) + Len(qr)
      /\ \A i \in 1 .. Len(p) + Len(qr) : right[i] = IF i <= Len(p) THEN p[i] ELSE qr[i - Len(p)]
    BY <1>2, ConcatProperties
<1> HIDE DEF left, right
<1>8. Len(left) = Len(right)
    BY <1>1, <1>3, <1>4, <1>6, <1>7
<1>9. ASSUME NEW i \in 1 .. Len(left)
      PROVE  left[i] = right[i]
  <2> DEFINE a == Len(p)
             b == Len(q)
             c == Len(r)
             k == i - a
  <2>1. /\ a \in Nat /\ b \in Nat /\ c \in Nat /\ i \in 1 .. a + b + c
        /\ Len(pq) = a + b /\ Len(qr) = b + c
      BY <1>1, <1>3, <1>4, <1>6
  <2>2. /\ left[i] = IF i <= a + b THEN pq[i] ELSE r[i - (a + b)]
        /\ right[i] = IF i <= a THEN p[i] ELSE qr[k]
    <3>1. i \in 1 .. Len(pq) + Len(r) /\ i \in 1 .. Len(p) + Len(qr)
        BY <1>6, <1>7, <1>8
    <3>2. QED
        BY <1>6, <1>7, <2>1, <3>1
  <2>3. i <= a + b => pq[i] = IF i <= a THEN p[i] ELSE q[k]
    <3>1. i <= a + b => i \in 1 .. a + b
        BY <2>1
    <3>2. QED
        BY <1>3, <3>1
  <2>4. ~(i <= a) => qr[k] = IF k <= b THEN q[k] ELSE r[k - b]
    <3>1. ~(i <= a) => k \in 1 .. b + c
        BY <2>1
    <3>2. QED
        BY <1>4, <3>1
  <2>5. /\ i - (a + b) = k - b
        /\ k <= b <=> i <= a + b
        /\ i <= a => i <= a + b
      BY <2>1
  <2> HIDE DEF a, b, c, k
  <2>6. QED
      BY <2>2, <2>3, <2>4, <2>5
<1>10. left = right
    BY <1>5, <1>8, <1>9, SeqEqual
<1>11. QED
    BY <1>10 DEF left, right, pq, qr

\* An event put into the send channel is the last of the client's feed.
LEMMA ConcatAppend ==
    ASSUME NEW g \in Seq(Nat), NEW s \in Seq(Nat), NEW m \in Nat
    PROVE  g \o Append(s, m) = Append(g \o s, m)
<1>1. <<m>> \in Seq(Nat)
    OBVIOUS
<1>2. Append(s, m) = s \o <<m>>
    BY AppendIsConcat
<1>3. g \o s \in Seq(Nat) /\ Append(g \o s, m) = (g \o s) \o <<m>>
    BY ConcatProperties, AppendIsConcat
<1>4. QED
    BY <1>1, <1>2, <1>3, FeedAssociative

\* Writing the oldest event of the channel does not change the feed.
LEMMA ConcatMove ==
    ASSUME NEW g \in Seq(Nat), NEW s \in Seq(Nat), s # << >>
    PROVE  Append(g, Head(s)) \o Tail(s) = g \o s
<1> DEFINE h == Head(s)
           t == Tail(s)
<1>1. h \in Nat /\ t \in Seq(Nat) /\ <<h>> \in Seq(Nat)
    BY HeadTailProperties
<1>2. Append(g, h) = g \o <<h>>
    BY <1>1, AppendIsConcat
<1>3. (g \o <<h>>) \o t = g \o (<<h>> \o t)
    BY <1>1, FeedAssociative
<1>4. <<h>> \o t = s
  <2>1. /\ <<h>> \o t \in Seq(Nat)
        /\ Len(<<h>> \o t) = 1 + Len(t)
        /\ \A i \in 1 .. 1 + Len(t) : (<<h>> \o t)[i] = IF i <= 1 THEN h ELSE t[i - 1]
      BY <1>1, ConcatProperties
  <2>2. Len(s) \in Nat /\ Len(t) = Len(s) - 1 /\ h = s[1] /\ \A i \in 1 .. Len(t) : t[i] = s[i + 1]
      BY HeadTailProperties, LenProperties
  <2>3. Len(<<h>> \o t) = Len(s)
      BY <2>1, <2>2
  <2>4. ASSUME NEW i \in 1 .. Len(<<h>> \o t)
        PROVE  (<<h>> \o t)[i] = s[i]
    <3>1. CASE i = 1
        BY <2>1, <2>2, <3>1
    <3>2. CASE i # 1
      <4>1. i - 1 \in 1 .. Len(t) /\ (i - 1) + 1 = i
          BY <2>1, <2>2, <3>2
      <4>2. QED
          BY <2>1, <2>2, <3>2, <4>1
    <3>3. QED
        BY <3>1, <3>2
  <2>5. QED
      BY <2>1, <2>3, <2>4, SeqEqual
<1>5. QED
    BY <1>2, <1>3, <1>4

\* A failed write loses one event of the feed and keeps the others in order.
LEMMA ConcatDrop ==
    ASSUME NEW g \in Seq(Nat), NEW s \in Seq(Nat), s # << >>, Increasing(g \o s)
    PROVE  /\ Increasing(g \o Tail(s))
           /\ \A i \in DOMAIN (g \o Tail(s)) :
                \E k \in DOMAIN (g \o s) : (g \o Tail(s))[i] = (g \o s)[k]
<1> DEFINE f == g \o s
           d == g \o Tail(s)
           at(i) == IF i <= Len(g) THEN i ELSE i + 1
<1>1. /\ Tail(s) \in Seq(Nat)
      /\ Len(g) \in Nat /\ Len(s) \in Nat
      /\ Len(Tail(s)) = Len(s) - 1
      /\ \A i \in 1 .. Len(s) - 1 : Tail(s)[i] = s[i + 1]
    BY HeadTailProperties, LenProperties
<1>2. /\ DOMAIN f = 1 .. (Len(g) + Len(s))
      /\ \A i \in 1 .. (Len(g) + Len(s)) : f[i] = IF i <= Len(g) THEN g[i] ELSE s[i - Len(g)]
    BY ConcatProperties, LenProperties
<1>3. /\ DOMAIN d = 1 .. (Len(g) + Len(s) - 1)
      /\ \A i \in 1 .. (Len(g) + Len(s) - 1) :
             d[i] = IF i <= Len(g) THEN g[i] ELSE Tail(s)[i - Len(g)]
  <2>1. /\ d \in Seq(Nat)
        /\ Len(d) = Len(g) + Len(Tail(s))
        /\ \A i \in 1 .. Len(g) + Len(Tail(s)) :
               d[i] = IF i <= Len(g) THEN g[i] ELSE Tail(s)[i - Len(g)]
      BY <1>1, ConcatProperties
  <2>2. DOMAIN d = 1 .. Len(d)
      BY <2>1, LenProperties
  <2>3. Len(g) + Len(Tail(s)) = Len(g) + Len(s) - 1
      BY <1>1
  <2>4. QED
      BY <2>1, <2>2, <2>3
<1> HIDE DEF f, d
<1>4. ASSUME NEW i \in DOMAIN d
      PROVE  i \in Int /\ at(i) \in DOMAIN f /\ d[i] = f[at(i)]
  <2>1. i \in Int /\ at(i) \in 1 .. (Len(g) + Len(s))
      BY <1>1, <1>3
  <2>2. CASE i <= Len(g)
      BY <1>2, <1>3, <2>1, <2>2
  <2>3. CASE i > Len(g)
    <3>1. i - Len(g) \in 1 .. Len(s) - 1 /\ (i - Len(g)) + 1 = (i + 1) - Len(g) /\ ~(i + 1 <= Len(g))
        BY <1>1, <1>3, <2>3
    <3>2. at(i) = i + 1 /\ ~(i <= Len(g))
        BY <1>1, <2>1, <2>3
    <3>3. QED
        BY <1>1, <1>2, <1>3, <2>1, <3>1, <3>2
  <2>4. QED
      BY <1>1, <2>1, <2>2, <2>3
<1>5. ASSUME NEW i \in DOMAIN d, NEW j \in DOMAIN d, i < j
      PROVE  d[i] < d[j]
  <2>1. at(i) < at(j)
      BY <1>1, <1>4, <1>5
  <2>2. f[at(i)] < f[at(j)]
      BY <1>4, <2>1 DEF Increasing, f
  <2>3. QED
      BY <1>4, <2>2
<1>6. QED
    BY <1>4, <1>5 DEF Increasing, f, d

\* What the loop took since a client registered grows with what it takes.
LEMMA TakenGrows ==
    ASSUME NEW h \in Seq(Nat), NEW m \in Nat, NEW k \in Nat, k <= Len(h)
    PROVE  SubSeq(Append(h, m), k + 1, Len(Append(h, m))) = Append(SubSeq(h, k + 1, Len(h)), m)
<1> DEFINE a == Append(h, m)
           b == SubSeq(h, k + 1, Len(h))
           l == SubSeq(a, k + 1, Len(h) + 1)
           r == Append(b, m)
<1>1. /\ Len(h) \in Nat
      /\ Len(a) = Len(h) + 1
      /\ a \in Seq(Nat)
      /\ \A i \in 1 .. Len(h) : a[i] = h[i] /\ h[i] \in Nat
      /\ a[Len(h) + 1] = m
    BY AppendProperties, LenProperties, ElementOfSeq
<1> HIDE DEF a
<1>2. /\ b \in Seq(Nat)
      /\ Len(b) = Len(h) - k
      /\ \A i \in 1 .. Len(h) - k : b[i] = h[k + i]
  <2>1. \A i \in (k + 1) .. Len(h) : h[i] \in Nat
      BY <1>1
  <2>2. /\ b \in Seq(Nat)
        /\ Len(b) = IF k + 1 <= Len(h) THEN Len(h) - (k + 1) + 1 ELSE 0
        /\ \A i \in 1 .. Len(h) - (k + 1) + 1 : b[i] = h[(k + 1) + i - 1]
      BY <1>1, <2>1, SubSeqProperties
  <2> HIDE DEF b
  <2>3. Len(h) - (k + 1) + 1 = Len(h) - k /\ \A i \in Int : (k + 1) + i - 1 = k + i
      BY <1>1
  <2>4. Len(b) = Len(h) - k
      BY <1>1, <2>2
  <2>5. ASSUME NEW i \in 1 .. Len(h) - k
        PROVE  b[i] = h[k + i]
    <3>1. i \in Int /\ i \in 1 .. Len(h) - (k + 1) + 1
        BY <1>1, <2>3
    <3>2. b[i] = h[(k + 1) + i - 1]
        BY <2>2, <3>1
    <3>3. QED
        BY <2>3, <3>1, <3>2
  <2>6. QED
      BY <2>2, <2>4, <2>5
<1>3. /\ l \in Seq(Nat)
      /\ Len(l) = Len(h) - k + 1
      /\ \A i \in 1 .. Len(h) - k + 1 : l[i] = a[k + i]
  <2>1. \A i \in (k + 1) .. Len(h) + 1 : a[i] \in Nat
      BY <1>1
  <2>2. /\ l \in Seq(Nat)
        /\ Len(l) = IF k + 1 <= Len(h) + 1 THEN Len(h) + 1 - (k + 1) + 1 ELSE 0
        /\ \A i \in 1 .. Len(h) + 1 - (k + 1) + 1 : l[i] = a[(k + 1) + i - 1]
      BY <1>1, <2>1, SubSeqProperties
  <2> HIDE DEF l
  <2>3. Len(h) + 1 - (k + 1) + 1 = Len(h) - k + 1 /\ \A i \in Int : (k + 1) + i - 1 = k + i
      BY <1>1
  <2>4. QED
      BY <1>1, <2>2, <2>3
<1> HIDE DEF b, l
<1>4. /\ r \in Seq(Nat)
      /\ Len(r) = Len(h) - k + 1
      /\ \A i \in 1 .. Len(h) - k : r[i] = b[i]
      /\ r[Len(h) - k + 1] = m
    BY <1>2, AppendProperties
<1> HIDE DEF r
<1>5. ASSUME NEW i \in 1 .. Len(l)
      PROVE  l[i] = r[i]
  <2>1. CASE i = Len(h) - k + 1
    <3>1. k + i = Len(h) + 1
        BY <1>1, <2>1
    <3>2. QED
        BY <1>1, <1>3, <1>4, <2>1, <3>1
  <2>2. CASE i # Len(h) - k + 1
    <3>1. i \in 1 .. Len(h) - k /\ k + i \in 1 .. Len(h)
        BY <1>1, <1>3, <2>2
    <3>2. QED
        BY <1>1, <1>2, <1>3, <1>4, <3>1
  <2>3. QED
      BY <2>1, <2>2
<1>6. l = r
    BY <1>3, <1>4, <1>5, SeqEqual
<1>7. QED
    BY <1>1, <1>6 DEF l, r, a, b
-----------------------------------------------------------------------------
\* The feeds

\* The types of the channels and of the histories.
FeedType ==
    /\ delivered \in Nat
    /\ broadcast \in Seq(Nat)
    /\ handled \in Seq(Nat)
    /\ send \in [Clients -> Seq(Nat)]
    /\ got \in [Clients -> Seq(Nat)]
    /\ droppers \in [Clients -> Nat]
    /\ since \in [Clients -> Nat]
    /\ conn \in [Clients -> BOOLEAN]

\* The broadcast channel holds events in the order of their arrival.
QueueOrdered ==
    /\ Increasing(broadcast)
    /\ \A i \in DOMAIN broadcast : broadcast[i] <= delivered

\* What is true of one client: its feed is in order and older than the events
\* still to come, empty before it registers, and complete unless it overflowed or
\* lost its connection.
FeedOk(c) ==
    /\ since[c] <= Len(handled)
    /\ Unseen(c) => got[c] = << >> /\ send[c] = << >>
    /\ Increasing(Feed(c))
    /\ \A i \in DOMAIN Feed(c) :
         /\ Feed(c)[i] <= delivered
         /\ \A j \in DOMAIN broadcast : Feed(c)[i] < broadcast[j]
    /\ c \in clients /\ droppers[c] = 0 /\ conn[c] => Feed(c) = Taken(c)

FeedInv ==
    /\ HubInv
    /\ FeedType
    /\ QueueOrdered
    /\ \A c \in Clients : FeedOk(c)

\* FeedComplete follows.
LEMMA FeedInvComplete == FeedInv => FeedComplete
    BY DEF FeedInv, FeedOk, FeedComplete, Increasing

\* No client and no event at first.
LEMMA FeedInitInv == HubInit => FeedInv
<1> SUFFICES ASSUME HubInit
             PROVE  FeedInv
    OBVIOUS
<1>1. << >> \in Seq(Nat) /\ Len(<< >>) = 0 /\ DOMAIN << >> = {} /\ << >> \o << >> = << >>
    BY EmptySeq, ConcatEmptySeq
<1>2. FeedType
    BY <1>1 DEF HubInit, FeedType
<1>3. QueueOrdered
    BY <1>1 DEF HubInit, QueueOrdered, Increasing
<1>4. ASSUME NEW c \in Clients
      PROVE  FeedOk(c)
  <2>1. Feed(c) = << >> /\ since[c] = 0 /\ handled = << >> /\ c \notin clients
      BY <1>1 DEF HubInit, Feed
  <2>2. QED
      BY <1>1, <2>1 DEF FeedOk, HubInit, Increasing
<1>5. QED
    BY <1>2, <1>3, <1>4, HubInitInv DEF FeedInv

\* A client whose channel and history a step leaves alone, and that the step does
\* not bring into the hub, connect or forgive an overflow.
LEMMA FeedKeeps ==
    ASSUME NEW c \in Clients, FeedOk(c),
           UNCHANGED <<broadcast, delivered, handled>>,
           got'[c] = got[c], send'[c] = send[c], since'[c] = since[c],
           Unseen(c)' => Unseen(c),
           c \in clients' /\ droppers'[c] = 0 /\ conn'[c] =>
               c \in clients /\ droppers[c] = 0 /\ conn[c]
    PROVE  FeedOk(c)'
<1>1. Feed(c)' = Feed(c) /\ Taken(c)' = Taken(c)
    BY DEF Feed, Taken
<1>2. QED
    BY <1>1 DEF FeedOk

\* The bus delivers an event: it is later than all before it.
LEMMA FeedBroadcast ==
    ASSUME FeedInv, Broadcast
    PROVE  FeedType' /\ QueueOrdered' /\ \A c \in Clients : FeedOk(c)'
<1>1. /\ delivered \in Nat /\ delivered' = delivered + 1
      /\ broadcast \in Seq(Nat)
      /\ \A i \in DOMAIN broadcast : broadcast[i] \in Nat /\ broadcast[i] <= delivered
    BY LenProperties, ElementOfSeq DEF FeedInv, FeedType, QueueOrdered, Broadcast
<1>2. CASE broadcast' = broadcast
  <2>1. FeedType' /\ QueueOrdered'
      BY <1>1, <1>2 DEF FeedInv, FeedType, QueueOrdered, Increasing, Broadcast
  <2>2. ASSUME NEW c \in Clients
        PROVE  FeedOk(c)'
    <3>1. Feed(c)' = Feed(c) /\ Taken(c)' = Taken(c)
        BY DEF Feed, Taken, Broadcast
    <3>2. Feed(c) \in Seq(Nat)
        BY ConcatProperties DEF FeedInv, FeedType, Feed
    <3>3. \A i \in DOMAIN Feed(c) : Feed(c)[i] \in Nat /\ Feed(c)[i] <= delivered + 1
        BY <1>1, <3>2, LenProperties, ElementOfSeq DEF FeedInv, FeedOk
    <3>4. QED
        BY <1>1, <1>2, <3>1, <3>3 DEF FeedInv, FeedOk, Broadcast, Unseen
  <2>3. QED
      BY <2>1, <2>2
<1>3. CASE broadcast' = Append(broadcast, delivered + 1)
  <2>1. /\ broadcast' \in Seq(Nat)
        /\ \A i \in DOMAIN broadcast' :
              \/ broadcast'[i] = delivered + 1
              \/ i \in DOMAIN broadcast /\ broadcast'[i] = broadcast[i]
    <3>1. /\ broadcast' \in Seq(Nat)
          /\ Len(broadcast) \in Nat
          /\ Len(broadcast') = Len(broadcast) + 1
          /\ DOMAIN broadcast = 1 .. Len(broadcast)
          /\ \A i \in 1 .. Len(broadcast) : broadcast'[i] = broadcast[i]
          /\ broadcast'[Len(broadcast) + 1] = delivered + 1
        BY <1>1, <1>3, AppendProperties, LenProperties
    <3>2. DOMAIN broadcast' = 1 .. Len(broadcast')
        BY <3>1, LenProperties
    <3>3. QED
        BY <3>1, <3>2
  <2>2. Increasing(Append(broadcast, delivered + 1))
      BY <1>1, AppendIncreasing DEF FeedInv, QueueOrdered
  <2>3. FeedType'
      BY <1>1, <2>1 DEF FeedInv, FeedType, Broadcast
  <2>4. ASSUME NEW i \in DOMAIN broadcast'
        PROVE  broadcast'[i] <= delivered'
    <3>1. CASE broadcast'[i] = delivered + 1
        BY <1>1, <3>1
    <3>2. CASE i \in DOMAIN broadcast /\ broadcast'[i] = broadcast[i]
        BY <1>1, <3>2
    <3>3. QED
        BY <2>1, <3>1, <3>2
  <2>5. QueueOrdered'
      BY <1>3, <2>2, <2>4 DEF QueueOrdered, Increasing
  <2>6. ASSUME NEW c \in Clients
        PROVE  FeedOk(c)'
    <3>1. Feed(c)' = Feed(c) /\ Taken(c)' = Taken(c)
        BY DEF Feed, Taken, Broadcast
    <3>2. Feed(c) \in Seq(Nat)
        BY ConcatProperties DEF FeedInv, FeedType, Feed
    <3>3. \A i \in DOMAIN Feed(c) : Feed(c)[i] \in Nat /\ Feed(c)[i] <= delivered
        BY <3>2, LenProperties, ElementOfSeq DEF FeedInv, FeedOk
    <3>4. \A i \in DOMAIN Feed(c) : \A j \in DOMAIN broadcast : Feed(c)[i] < broadcast[j]
        BY DEF FeedInv, FeedOk
    <3>5. ASSUME NEW i \in DOMAIN Feed(c)
          PROVE  /\ Feed(c)[i] <= delivered'
                 /\ \A j \in DOMAIN broadcast' : Feed(c)[i] < broadcast'[j]
      <4>1. Feed(c)[i] \in Nat /\ Feed(c)[i] <= delivered
          BY <3>3
      <4>2. Feed(c)[i] <= delivered' /\ Feed(c)[i] < delivered + 1
          BY <1>1, <4>1
      <4>3. QED
          BY <2>1, <3>4, <4>2
    <3>6. QED
        BY <3>1, <3>5 DEF FeedInv, FeedOk, Broadcast, Unseen
  <2>7. QED
      BY <2>3, <2>5, <2>6
<1>4. QED
    BY <1>2, <1>3 DEF Broadcast

\* The loop takes an event: every client with room has it, and one without room
\* has a goroutine waiting to take it out of the hub.
LEMMA FeedFanout ==
    ASSUME FeedInv, Fanout
    PROVE  FeedType' /\ QueueOrdered' /\ \A c \in Clients : FeedOk(c)'
<1> DEFINE m == Head(broadcast)
<1>1. broadcast \in Seq(Nat) /\ broadcast # << >> /\ broadcast' = Tail(broadcast)
    BY DEF FeedInv, FeedType, Fanout
<1>2. /\ m \in Nat
      /\ 1 \in DOMAIN broadcast /\ m = broadcast[1]
      /\ broadcast' \in Seq(Nat)
      /\ Increasing(Tail(broadcast))
      /\ \A i \in DOMAIN broadcast' :
            i + 1 \in DOMAIN broadcast /\ broadcast'[i] = broadcast[i + 1] /\ m < broadcast'[i]
    BY <1>1, TailIncreasing DEF FeedInv, QueueOrdered
<1>3. handled' = Append(handled, m) /\ handled \in Seq(Nat) /\ handled' \in Seq(Nat)
    BY <1>2, AppendProperties DEF FeedInv, FeedType, Fanout
<1>4. ASSUME NEW c \in Clients
      PROVE  /\ send[c] \in Seq(Nat)
             /\ send'[c] = IF c \in clients /\ ~Full(c) THEN Append(send[c], m) ELSE send[c]
             /\ send'[c] \in Seq(Nat)
             /\ droppers[c] \in Nat
             /\ droppers'[c] = IF c \in clients /\ Full(c) THEN droppers[c] + 1 ELSE droppers[c]
             /\ droppers'[c] \in Nat
    BY <1>2, AppendProperties DEF FeedInv, FeedType, Fanout, DropSlow
<1> HIDE DEF m
<1>5. send' \in [Clients -> Seq(Nat)] /\ droppers' \in [Clients -> Nat]
  <2>1. send' = [c \in Clients |-> send'[c]] /\ droppers' = [c \in Clients |-> droppers'[c]]
      BY DEF Fanout, DropSlow
  <2>2. QED
      BY <1>4, <2>1
<1>6. FeedType'
    BY <1>2, <1>3, <1>5 DEF FeedInv, FeedType, Fanout
<1>7. QueueOrdered'
    BY <1>1, <1>2 DEF FeedInv, QueueOrdered, Increasing, Fanout
<1>8. ASSUME NEW c \in Clients
      PROVE  FeedOk(c)'
  <2>1. /\ got[c] \in Seq(Nat) /\ got' = got
        /\ since[c] \in Nat /\ since' = since
        /\ since[c] <= Len(handled) /\ Len(handled) \in Nat /\ Len(handled') = Len(handled) + 1
        /\ conn' = conn /\ reader' = reader /\ clients' = clients /\ delivered' = delivered
      BY <1>2, <1>3, AppendProperties, LenProperties DEF FeedInv, FeedType, FeedOk, Fanout
  <2>2. since'[c] <= Len(handled')
      BY <2>1
  <2>3. /\ Feed(c) \in Seq(Nat)
        /\ Increasing(Feed(c))
        /\ \A i \in DOMAIN Feed(c) : Feed(c)[i] <= delivered /\ Feed(c)[i] < m
        /\ \A i \in DOMAIN Feed(c) : \A j \in DOMAIN broadcast' : Feed(c)[i] < broadcast'[j]
        /\ c \in clients /\ droppers[c] = 0 /\ conn[c] => Feed(c) = Taken(c)
        /\ Unseen(c) => c \notin clients /\ got[c] = << >> /\ send[c] = << >>
    <3>1. Feed(c) \in Seq(Nat)
        BY <1>4, <2>1, ConcatProperties DEF Feed
    <3>2. FeedOk(c)
        BY DEF FeedInv
    <3>3. Increasing(Feed(c)) /\ (c \in clients /\ droppers[c] = 0 /\ conn[c] => Feed(c) = Taken(c))
        BY <3>2 DEF FeedOk
    <3>4. \A i \in DOMAIN Feed(c) : Feed(c)[i] <= delivered /\ Feed(c)[i] < m
        BY <1>2, <3>2 DEF FeedOk
    <3>5. \A i \in DOMAIN Feed(c) : \A j \in DOMAIN broadcast' : Feed(c)[i] < broadcast'[j]
        BY <1>2, <3>2 DEF FeedOk
    <3>6. Unseen(c) => c \notin clients /\ got[c] = << >> /\ send[c] = << >>
        BY <3>2 DEF FeedOk, FeedInv, HubInv
    <3>7. QED
        BY <3>1, <3>3, <3>4, <3>5, <3>6
  <2>4. m <= delivered
      BY <1>2 DEF FeedInv, QueueOrdered
  <2>5. CASE c \in clients /\ ~Full(c)
    <3>1. Feed(c)' = Append(Feed(c), m)
      <4>1. send'[c] = Append(send[c], m) /\ got'[c] = got[c]
          BY <1>4, <2>1, <2>5
      <4>2. got[c] \o Append(send[c], m) = Append(got[c] \o send[c], m)
        <5>1. got[c] \in Seq(Nat) /\ send[c] \in Seq(Nat) /\ m \in Nat
            BY <1>2, <1>4, <2>1
        <5>2. QED
            BY <5>1, ConcatAppend
      <4>3. QED
          BY <4>1, <4>2 DEF Feed
    <3>2. Increasing(Append(Feed(c), m))
        BY <1>2, <2>3, AppendIncreasing
    <3>3. \A i \in DOMAIN Append(Feed(c), m) :
             \/ Append(Feed(c), m)[i] = m
             \/ i \in DOMAIN Feed(c) /\ Append(Feed(c), m)[i] = Feed(c)[i]
      <4>1. /\ Append(Feed(c), m) \in Seq(Nat)
            /\ Len(Feed(c)) \in Nat
            /\ Len(Append(Feed(c), m)) = Len(Feed(c)) + 1
            /\ DOMAIN Feed(c) = 1 .. Len(Feed(c))
            /\ \A i \in 1 .. Len(Feed(c)) : Append(Feed(c), m)[i] = Feed(c)[i]
            /\ Append(Feed(c), m)[Len(Feed(c)) + 1] = m
          BY <1>2, <2>3, AppendProperties, LenProperties
      <4>2. DOMAIN Append(Feed(c), m) = 1 .. Len(Append(Feed(c), m))
          BY <4>1, LenProperties
      <4>3. QED
          BY <4>1, <4>2
    <3>4. \A i \in DOMAIN Feed(c)' :
             /\ Feed(c)'[i] <= delivered'
             /\ \A j \in DOMAIN broadcast' : Feed(c)'[i] < broadcast'[j]
      <4> DEFINE new == Append(Feed(c), m)
      <4>1. ASSUME NEW i \in DOMAIN new
            PROVE  /\ new[i] <= delivered
                   /\ \A j \in DOMAIN broadcast' : new[i] < broadcast'[j]
        <5>1. CASE new[i] = m
            BY <1>2, <2>4, <5>1
        <5>2. CASE i \in DOMAIN Feed(c) /\ new[i] = Feed(c)[i]
            BY <2>3, <5>2
        <5>3. QED
            BY <3>3, <5>1, <5>2
      <4> HIDE DEF new
      <4>2. Feed(c)' = new /\ delivered' = delivered
          BY <2>1, <3>1 DEF new
      <4>3. QED
          BY <4>1, <4>2
    <3>5. Taken(c)' = Append(Taken(c), m)
        BY <1>2, <1>3, <2>1, TakenGrows DEF Taken
    <3>6. droppers'[c] = droppers[c] /\ ~Unseen(c)'
        BY <1>4, <2>1, <2>3, <2>5 DEF Unseen
    <3>7. QED
        BY <2>1, <2>2, <2>3, <3>1, <3>2, <3>4, <3>5, <3>6 DEF FeedOk
  <2>6. CASE ~(c \in clients /\ ~Full(c))
    <3>1. Feed(c)' = Feed(c) /\ send'[c] = send[c]
        BY <1>4, <2>1, <2>6 DEF Feed
    <3>2. ~(c \in clients' /\ droppers'[c] = 0)
        BY <1>4, <2>1, <2>6
    <3>3. QED
        BY <2>1, <2>2, <2>3, <3>1, <3>2 DEF FeedOk, Unseen
  <2>7. QED
      BY <2>5, <2>6
<1>9. QED
    BY <1>6, <1>7, <1>8

\* A client that registers starts with an empty feed, and at the event the loop
\* takes next.
LEMMA FeedRegister ==
    ASSUME FeedInv, NEW c \in Clients, Register(c)
    PROVE  FeedType' /\ QueueOrdered' /\ \A u \in Clients : FeedOk(u)'
<1>1. Len(handled) \in Nat /\ since' = [since EXCEPT ![c] = Len(handled)]
    BY LenProperties DEF FeedInv, FeedType, Register
<1>2. FeedType'
    BY <1>1 DEF FeedInv, FeedType, Register
<1>3. QueueOrdered'
    BY DEF FeedInv, QueueOrdered, Register
<1>4. ASSUME NEW u \in Clients, u # c
      PROVE  FeedOk(u)'
  <2>1. since'[u] = since[u] /\ reader'[u] = reader[u] /\ (u \in clients' => u \in clients)
      BY <1>1, <1>4 DEF FeedInv, FeedType, HubInv, Register
  <2>2. QED
      BY <2>1, FeedKeeps DEF FeedInv, Register, Unseen
<1>5. FeedOk(c)'
  <2>1. Unseen(c) /\ got[c] = << >> /\ send[c] = << >>
      BY DEF FeedInv, FeedOk, Register, Unseen
  <2>2. Feed(c)' = << >>
      BY <2>1, ConcatEmptySeq, EmptySeq DEF Feed, Register
  <2>3. since'[c] = Len(handled) /\ handled' = handled
      BY <1>1 DEF FeedInv, FeedType, Register
  <2>4. Taken(c)' = << >>
      BY <1>1, <2>3, SubSeqEmpty DEF Taken
  <2>5. reader'[c] = "read"
      BY DEF FeedInv, HubInv, Register
  <2>6. DOMAIN << >> = {}
      OBVIOUS
  <2>7. QED
      BY <1>1, <2>2, <2>3, <2>4, <2>5, <2>6 DEF FeedOk, Unseen, Increasing
<1>6. QED
    BY <1>2, <1>3, <1>4, <1>5

\* Whoever unregisters a client, it is out of the hub.
LEMMA FeedUnregister ==
    ASSUME FeedInv, NEW c \in Clients, Unregister(c)
    PROVE  FeedType' /\ QueueOrdered' /\ \A u \in Clients : FeedOk(u)'
<1>1. /\ UNCHANGED <<broadcast, send, conn, delivered, handled, since, got>>
      /\ clients' = clients \ {c}
    BY DEF Unregister, RemoveClient, histVars
<1>2. droppers' \in [Clients -> Nat] /\ \A u \in Clients : u # c => droppers'[u] = droppers[u]
  <2>1. droppers \in [Clients -> Nat]
      BY DEF FeedInv, FeedType
  <2>2. CASE droppers' = droppers
      BY <2>1, <2>2
  <2>3. CASE droppers[c] > 0 /\ droppers' = [droppers EXCEPT ![c] = @ - 1]
    <3>1. droppers[c] - 1 \in Nat
        BY <2>1, <2>3
    <3>2. QED
        BY <2>1, <2>3, <3>1
  <2>4. QED
      BY <2>2, <2>3 DEF Unregister
<1>3. FeedType'
    BY <1>1, <1>2 DEF FeedInv, FeedType
<1>4. QueueOrdered'
    BY <1>1 DEF FeedInv, QueueOrdered
<1>5. ASSUME NEW u \in Clients
      PROVE  FeedOk(u)'
  <2>1. Unseen(u)' => Unseen(u)
    <3>1. CASE reader' = [reader EXCEPT ![c] = "gone"]
        BY <3>1 DEF FeedInv, HubInv, Unseen
    <3>2. CASE reader' = reader
        BY <3>2 DEF Unseen
    <3>3. QED
        BY <3>1, <3>2 DEF Unregister
  <2>2. u \in clients' => u \in clients /\ droppers'[u] = droppers[u]
      BY <1>1, <1>2
  <2>3. QED
      BY <1>1, <2>1, <2>2, FeedKeeps DEF FeedInv
<1>6. QED
    BY <1>3, <1>4, <1>5

\* A write keeps the client's feed; a failed one loses an event, and with it the
\* connection.
LEMMA FeedWrite ==
    ASSUME FeedInv, NEW c \in Clients, Write(c)
    PROVE  FeedType' /\ QueueOrdered' /\ \A u \in Clients : FeedOk(u)'
<1>1. /\ UNCHANGED <<clients, broadcast, droppers, reader, delivered, handled, since>>
      /\ send \in [Clients -> Seq(Nat)] /\ got \in [Clients -> Seq(Nat)]
      /\ send[c] \in Seq(Nat) /\ got[c] \in Seq(Nat) /\ send[c] # << >>
      /\ send' = [send EXCEPT ![c] = Tail(send[c])]
    BY DEF FeedInv, FeedType, Write
<1>2. Head(send[c]) \in Nat /\ Tail(send[c]) \in Seq(Nat)
    BY <1>1, HeadTailProperties
<1>3. send' \in [Clients -> Seq(Nat)] /\ send'[c] = Tail(send[c])
    BY <1>1, <1>2
<1>4. Append(got[c], Head(send[c])) \in Seq(Nat)
    BY <1>1, <1>2, AppendProperties
<1>5. got' \in [Clients -> Seq(Nat)]
    BY <1>1, <1>4 DEF Write
<1>6. conn' \in [Clients -> BOOLEAN] /\ \A u \in Clients : conn'[u] => conn[u]
    BY DEF FeedInv, FeedType, Write
<1>7. FeedType'
    BY <1>1, <1>3, <1>5, <1>6 DEF FeedInv, FeedType
<1>8. QueueOrdered'
    BY <1>1 DEF FeedInv, QueueOrdered
<1>9. ASSUME NEW u \in Clients, u # c
      PROVE  FeedOk(u)'
  <2>1. send'[u] = send[u] /\ got'[u] = got[u]
      BY <1>1, <1>9 DEF Write
  <2>2. QED
      BY <1>1, <1>6, <2>1, FeedKeeps DEF FeedInv, Unseen
<1>10. ~Unseen(c)
    BY <1>1 DEF FeedInv, FeedOk
<1>11. CASE got' = [got EXCEPT ![c] = Append(@, Head(send[c]))]
  <2>1. got'[c] = Append(got[c], Head(send[c]))
      BY <1>1, <1>11
  <2>2. Feed(c)' = Feed(c) /\ Taken(c)' = Taken(c)
      BY <1>1, <1>3, <2>1, ConcatMove DEF Feed, Taken
  <2>3. FeedOk(c)'
      BY <1>1, <1>6, <1>10, <2>2 DEF FeedInv, FeedOk, Unseen
  <2>4. QED
      BY <1>7, <1>8, <1>9, <2>3
<1>12. CASE got' = got /\ conn' = [conn EXCEPT ![c] = FALSE]
  <2>1. conn'[c] = FALSE
      BY <1>12 DEF FeedInv, FeedType
  <2>2. Feed(c)' = got[c] \o Tail(send[c]) /\ Feed(c) = got[c] \o send[c]
      BY <1>3, <1>12 DEF Feed
  <2>3. Increasing(got[c] \o send[c])
      BY <2>2 DEF FeedInv, FeedOk
  <2>4. /\ Increasing(got[c] \o Tail(send[c]))
        /\ \A i \in DOMAIN (got[c] \o Tail(send[c])) :
             \E k \in DOMAIN (got[c] \o send[c]) :
                 (got[c] \o Tail(send[c]))[i] = (got[c] \o send[c])[k]
      BY <1>1, <2>3, ConcatDrop
  <2>5. \A k \in DOMAIN Feed(c) :
           /\ Feed(c)[k] <= delivered
           /\ \A j \in DOMAIN broadcast : Feed(c)[k] < broadcast[j]
      BY DEF FeedInv, FeedOk
  <2>6. \A i \in DOMAIN Feed(c)' :
           /\ Feed(c)'[i] <= delivered
           /\ \A j \in DOMAIN broadcast : Feed(c)'[i] < broadcast[j]
      BY <2>2, <2>4, <2>5
  <2>7. Increasing(Feed(c)')
      BY <2>2, <2>4
  <2>8. FeedOk(c)'
      BY <1>1, <1>10, <2>1, <2>6, <2>7 DEF FeedInv, FeedOk, Unseen, Increasing
  <2>9. QED
      BY <1>7, <1>8, <1>9, <2>8
<1>13. QED
    BY <1>11, <1>12 DEF Write

\* The steps that touch neither channels nor histories: a client that connects is
\* not in the hub yet, and no other step brings a connection up.
LEMMA FeedRest ==
    ASSUME FeedInv,
           UNCHANGED <<broadcast, send, droppers, delivered, handled, since, got>>,
           clients' \subseteq clients,
           conn' \in [Clients -> BOOLEAN],
           \A u \in Clients : u \in clients /\ conn'[u] => conn[u],
           \A u \in Clients : Unseen(u)' => Unseen(u)
    PROVE  FeedType' /\ QueueOrdered' /\ \A u \in Clients : FeedOk(u)'
<1>1. FeedType' /\ QueueOrdered'
    BY DEF FeedInv, FeedType, QueueOrdered
<1>2. ASSUME NEW u \in Clients
      PROVE  FeedOk(u)'
    BY <1>2, FeedKeeps DEF FeedInv
<1>3. QED
    BY <1>1, <1>2

\* Each turn of the loop and each step of a client keeps FeedInv.
LEMMA FeedStep == FeedInv /\ [HubNext]_hubVars => FeedInv'
<1> SUFFICES ASSUME FeedInv, [HubNext]_hubVars
             PROVE  FeedInv'
    OBVIOUS
<1> USE DEF FeedInv
<1>1. HubInv'
    BY HubStep
<1>2. conn \in [Clients -> BOOLEAN] /\ reader \in [Clients -> {"none", "register", "read", "leave", "gone"}]
    BY DEF FeedType, HubInv
<1>3. CASE Broadcast
    BY <1>1, <1>3, FeedBroadcast
<1>4. CASE Fanout
    BY <1>1, <1>4, FeedFanout
<1>5. CASE Shutdown
    BY <1>1, <1>2, <1>5, FeedRest DEF Shutdown, histVars, Unseen
<1>6. ASSUME NEW c \in Clients, Register(c)
      PROVE  FeedInv'
    BY <1>1, <1>6, FeedRegister
<1>7. ASSUME NEW c \in Clients, Unregister(c)
      PROVE  FeedInv'
    BY <1>1, <1>7, FeedUnregister
<1>8. ASSUME NEW c \in Clients, Connect(c)
      PROVE  FeedInv'
  <2>1. Unseen(c) /\ c \notin clients
      BY <1>8 DEF Connect, Unseen, HubInv
  <2>2. conn' \in [Clients -> BOOLEAN] /\ \A u \in Clients : u # c => conn'[u] = conn[u]
      BY <1>2, <1>8 DEF Connect
  <2>3. \A u \in Clients : Unseen(u)' => Unseen(u)
      BY <1>2, <1>8, <2>1 DEF Connect, Unseen
  <2>4. QED
      BY <1>1, <1>8, <2>1, <2>2, <2>3, FeedRest DEF Connect, chanVars, histVars
<1>9. ASSUME NEW c \in Clients, Disconnect(c)
      PROVE  FeedInv'
  <2>1. conn' \in [Clients -> BOOLEAN] /\ \A u \in Clients : conn'[u] => conn[u]
      BY <1>2, <1>9 DEF Disconnect
  <2>2. QED
      BY <1>1, <1>9, <2>1, FeedRest DEF Disconnect, chanVars, histVars, Unseen
<1>10. ASSUME NEW c \in Clients, ReadFails(c)
       PROVE  FeedInv'
  <2>1. \A u \in Clients : Unseen(u)' => Unseen(u)
      BY <1>2, <1>10 DEF ReadFails, Unseen
  <2>2. QED
      BY <1>1, <1>2, <1>10, <2>1, FeedRest DEF ReadFails, chanVars, histVars
<1>11. ASSUME NEW c \in Clients, Write(c)
       PROVE  FeedInv'
    BY <1>1, <1>11, FeedWrite
<1>12. ASSUME NEW c \in Clients, WriterEnds(c)
       PROVE  FeedInv'
    BY <1>1, <1>2, <1>12, FeedRest DEF WriterEnds, chanVars, histVars, Unseen
<1>13. CASE UNCHANGED hubVars
    BY <1>1, <1>2, <1>13, FeedRest DEF hubVars, chanVars, histVars, Unseen
<1>14. QED
    BY <1>3, <1>4, <1>5, <1>6, <1>7, <1>8, <1>9, <1>10, <1>11, <1>12, <1>13
       DEF HubNext, ClientStep

\* A dashboard client sees the events in the order the hub took them, and misses
\* none of them while its buffer has not overflowed and its connection is up,
\* whatever the other clients, the overflows and the shutdown do.
THEOREM ClientFeedsComplete == HubSpec => []FeedComplete
    BY FeedInitInv, FeedStep, FeedInvComplete, PTL DEF HubSpec

-----------------------------------------------------------------------------
\* The Telegram bot

Confirming == {i \in CommandIds : cmds[i].pc = "check"}

CommandPcs == {"none", "start", "check", "done"} \cup CommandNames

CommandRecords == [pc : CommandPcs, chat : Chats \cup {"none"}, cmd : CommandNames \cup {"none"},
                   kill : {0} \cup CommandIds, deadline : Int]

BotType ==
    /\ cmds \in [CommandIds -> CommandRecords]
    /\ \A i \in CommandIds : cmds[i].pc \notin {"none", "done"}
                                => cmds[i].chat \in Chats /\ cmds[i].cmd \in CommandNames
    /\ pending \in [Chats -> [kill : {0} \cup CommandIds, deadline : Int]]
    /\ clock \in Int
    /\ calls \in Seq(CommandIds)

\* The kills of commands that have ended.
Fresh ==
    \A i \in CommandIds :
        cmds[i].pc # "done" =>
            /\ \A c \in Chats : pending[c].kill # i
            /\ \A j \in Confirming : cmds[j].kill # i
            /\ \A n \in DOMAIN calls : calls[n] # i

\* No kill is in two places.
OnePlace ==
    /\ \A c, d \in Chats : pending[c].kill = pending[d].kill /\ pending[c].kill # 0 => c = d
    /\ \A i, j \in Confirming : cmds[i].kill = cmds[j].kill /\ cmds[i].kill # 0 => i = j
    /\ \A c \in Chats : \A j \in Confirming : pending[c].kill # 0 => pending[c].kill # cmds[j].kill
    /\ \A n \in DOMAIN calls : /\ \A c \in Chats : calls[n] # pending[c].kill
                               /\ \A j \in Confirming : calls[n] # cmds[j].kill
    /\ OneCallPerKill

KillInv == BotType /\ Fresh /\ OnePlace

LEMMA ZeroIsNoCommand == 0 \notin CommandIds /\ CommandIds \subseteq Int /\ ConfirmWindow \in Int
    BY AlertAssumption DEF CommandIds

\* The steps that touch neither the commands nor what they share.
LEMMA BotKeeps ==
    ASSUME KillInv, UNCHANGED <<cmds, pending, clock, calls>>
    PROVE  KillInv'
    BY DEF KillInv, BotType, Fresh, OnePlace, Confirming, OneCallPerKill

\* A command goes to a place other than "check", and comes from one other than
\* "done" or goes to "done".
LEMMA CommandMoves ==
    ASSUME KillInv, UNCHANGED <<pending, calls>>, clock' \in Int, NEW i \in CommandIds,
           cmds[i].pc # "done",
           cmds' \in [CommandIds -> CommandRecords],
           \A j \in CommandIds : j # i => cmds'[j] = cmds[j],
           cmds'[i].pc # "check",
           cmds'[i].pc \notin {"none", "done"}
              => cmds'[i].chat \in Chats /\ cmds'[i].cmd \in CommandNames
    PROVE  KillInv'
<1>1. BotType'
    BY DEF KillInv, BotType
<1>2. Confirming' \subseteq Confirming /\ \A j \in Confirming' : cmds'[j] = cmds[j]
    BY DEF Confirming
<1>3. Fresh'
    BY <1>2 DEF KillInv, Fresh
<1>4. OnePlace'
    BY <1>2 DEF KillInv, OnePlace, OneCallPerKill
<1>5. QED
    BY <1>1, <1>3, <1>4 DEF KillInv

LEMMA RecordMoves ==
    ASSUME NEW r \in CommandRecords, NEW p \in CommandPcs
    PROVE  [r EXCEPT !.pc = p] \in CommandRecords
<1>1. r = [pc |-> r.pc, chat |-> r.chat, cmd |-> r.cmd, kill |-> r.kill, deadline |-> r.deadline]
    BY DEF CommandRecords
<1>2. [r EXCEPT !.pc = p]
        = [pc |-> p, chat |-> r.chat, cmd |-> r.cmd, kill |-> r.kill, deadline |-> r.deadline]
    BY <1>1
<1>3. QED
    BY <1>2 DEF CommandRecords

\* A goroutine that only goes on, or ends.
LEMMA PcMoves ==
    ASSUME BotType, NEW i \in CommandIds, NEW p \in CommandPcs,
           cmds' = [cmds EXCEPT ![i].pc = p]
    PROVE  /\ cmds' \in [CommandIds -> CommandRecords]
           /\ \A j \in CommandIds : j # i => cmds'[j] = cmds[j]
           /\ cmds'[i].pc = p /\ cmds'[i].chat = cmds[i].chat /\ cmds'[i].cmd = cmds[i].cmd
           /\ cmds'[i].kill = cmds[i].kill
<1>1. [cmds[i] EXCEPT !.pc = p] \in CommandRecords
    BY RecordMoves DEF BotType
<1>2. QED
    BY <1>1 DEF BotType, CommandRecords

LEMMA KillInit == AlertInit => KillInv
    BY ZeroIsNoCommand
    DEF AlertInit, KillInv, BotType, Fresh, OnePlace, OneCallPerKill, Confirming, NoCommand,
        NoKill, CommandPcs, CommandRecords

LEMMA KillStep == KillInv /\ [AlertNext]_alertVars => KillInv'
<1> SUFFICES ASSUME KillInv, [AlertNext]_alertVars
             PROVE  KillInv'
    OBVIOUS
<1>t. BotType /\ Fresh /\ OnePlace
    BY DEF KillInv
<1>1. CASE NotifierStep
    BY <1>1, BotKeeps DEF NotifierStep, Receive, AppendEvent, Flush, Send, Tick, botVars
<1>2. ASSUME NEW i \in CommandIds, NEW c \in Chats, NEW n \in CommandNames, Command(i, c, n)
      PROVE  KillInv'
  <2> DEFINE r == [pc |-> "start", chat |-> c, cmd |-> n, kill |-> 0, deadline |-> 0]
  <2>0. "start" \in CommandPcs
      BY DEF CommandPcs
  <2>1. r \in CommandRecords /\ r.pc = "start" /\ r.chat = c /\ r.cmd = n
      BY <2>0 DEF CommandRecords
  <2>2. cmds' = [cmds EXCEPT ![i] = r] /\ UNCHANGED <<pending, clock, calls>> /\ cmds[i].pc = "none"
      BY <1>2 DEF Command
  <2> HIDE DEF r
  <2>3. /\ cmds' \in [CommandIds -> CommandRecords]
        /\ cmds'[i] = r /\ \A j \in CommandIds : j # i => cmds'[j] = cmds[j]
      BY <1>t, <2>1, <2>2 DEF BotType
  <2>4. clock' \in Int
      BY <1>t, <2>2 DEF BotType
  <2>5. QED
      BY <2>1, <2>2, <2>3, <2>4, CommandMoves
<1>3. ASSUME NEW i \in CommandIds, Admit(i)
      PROVE  KillInv'
  <2>1. cmds[i].pc = "start" /\ UNCHANGED <<pending, clock, calls>>
      BY <1>3 DEF Admit
  <2>2. cmds' = [cmds EXCEPT ![i].pc = cmds[i].cmd] \/ cmds' = [cmds EXCEPT ![i].pc = "done"]
      BY <1>3 DEF Admit, Ends
  <2>3. cmds[i].cmd \in CommandNames /\ cmds[i].chat \in Chats
      BY <1>t, <2>1 DEF BotType
  <2>4. QED
    <3>1. PICK p \in CommandNames \cup {"done"} : cmds' = [cmds EXCEPT ![i].pc = p]
        BY <2>2, <2>3
    <3>2. p \in CommandPcs /\ p # "check"
        BY DEF CommandPcs, CommandNames
    <3>3. /\ cmds' \in [CommandIds -> CommandRecords]
          /\ \A j \in CommandIds : j # i => cmds'[j] = cmds[j]
          /\ cmds'[i].pc = p /\ cmds'[i].chat = cmds[i].chat /\ cmds'[i].cmd = cmds[i].cmd
        BY <1>t, <3>1, <3>2, PcMoves
    <3>4. clock' \in Int
        BY <1>t, <2>1 DEF BotType
    <3>5. QED
        BY <2>1, <2>3, <3>2, <3>3, <3>4, CommandMoves
<1>4. ASSUME NEW i \in CommandIds, cmdKill(i)
      PROVE  KillInv'
  <2> DEFINE c == cmds[i].chat
  <2>1. /\ cmds[i].pc = "kill"
        /\ cmds' = [cmds EXCEPT ![i].pc = "done"]
        /\ pending' = [pending EXCEPT ![c] = [kill |-> i, deadline |-> clock + ConfirmWindow]]
        /\ UNCHANGED <<clock, calls>>
      BY <1>4 DEF cmdKill, Ends
  <2>2. c \in Chats
      BY <1>t, <2>1 DEF BotType
  <2>3. BotType'
    <3>1. "done" \in CommandPcs
        BY DEF CommandPcs
    <3>2. /\ cmds' \in [CommandIds -> CommandRecords]
          /\ \A j \in CommandIds : j # i => cmds'[j] = cmds[j]
          /\ cmds'[i].pc = "done"
        BY <1>t, <2>1, <3>1, PcMoves
    <3>3. clock + ConfirmWindow \in Int
        BY <1>t, ZeroIsNoCommand DEF BotType
    <3>4. pending' \in [Chats -> [kill : {0} \cup CommandIds, deadline : Int]]
        BY <1>t, <2>1, <2>2, <3>3 DEF BotType
    <3>5. QED
        BY <1>t, <2>1, <3>2, <3>4 DEF BotType
  <2>4. Confirming' = Confirming /\ \A j \in Confirming : cmds'[j] = cmds[j]
      BY <1>t, <2>1 DEF Confirming, BotType
  <2>5. \A d \in Chats : pending'[d].kill = IF d = c THEN i ELSE pending[d].kill
      BY <1>t, <2>1, <2>2 DEF BotType
  <2>6. \A j \in CommandIds : cmds'[j].pc # "done" => j # i /\ cmds[j].pc # "done"
      BY <1>t, <2>1 DEF BotType
  <2>7. Fresh'
      BY <1>t, <2>1, <2>4, <2>5, <2>6 DEF Fresh
  <2>8. OnePlace'
    <3>1. /\ \A d \in Chats : pending[d].kill # i
          /\ \A j \in Confirming : cmds[j].kill # i
          /\ \A n \in DOMAIN calls : calls[n] # i
        BY <1>t, <2>1 DEF Fresh
    <3>2. QED
        BY <1>t, <2>1, <2>4, <2>5, <3>1 DEF OnePlace, OneCallPerKill
  <2>9. QED
      BY <2>3, <2>7, <2>8 DEF KillInv
<1>5. ASSUME NEW i \in CommandIds, cmdConfirmKill(i)
      PROVE  KillInv'
  <2> DEFINE c == cmds[i].chat
             p == pending[c]
             r == [pc |-> "check", chat |-> c, cmd |-> cmds[i].cmd, kill |-> p.kill,
                   deadline |-> p.deadline]
  <2>1. /\ cmds[i].pc = "confirm_kill"
        /\ cmds' = [cmds EXCEPT ![i] = r]
        /\ pending' = [pending EXCEPT ![c] = [kill |-> 0, deadline |-> 0]]
        /\ UNCHANGED <<clock, calls>>
      BY <1>5 DEF cmdConfirmKill, TakePending, NoKill
  <2>2. c \in Chats
      BY <1>t, <2>1 DEF BotType
  <2>3. p \in [kill : {0} \cup CommandIds, deadline : Int]
      BY <1>t, <2>2 DEF BotType
  <2>4. BotType'
    <3>1. "check" \in CommandPcs
        BY DEF CommandPcs
    <3>2. r \in CommandRecords
        BY <1>t, <2>3, <3>1 DEF BotType, CommandRecords
    <3>3. cmds' \in [CommandIds -> CommandRecords]
        BY <1>t, <2>1, <3>2 DEF BotType
    <3>4. /\ \A j \in CommandIds : j # i => cmds'[j] = cmds[j]
          /\ cmds'[i].chat = cmds[i].chat /\ cmds'[i].cmd = cmds[i].cmd
        BY <1>t, <2>1 DEF BotType, CommandRecords
    <3>5. pending' \in [Chats -> [kill : {0} \cup CommandIds, deadline : Int]]
        BY <1>t, <2>1, <2>2 DEF BotType
    <3>6. QED
        BY <1>t, <2>1, <3>3, <3>4, <3>5 DEF BotType
  <2>5. /\ Confirming' = Confirming \cup {i} /\ i \notin Confirming
        /\ \A j \in Confirming : cmds'[j].kill = cmds[j].kill
        /\ cmds'[i].kill = p.kill
      BY <1>t, <2>1 DEF Confirming, BotType
  <2>6. \A d \in Chats : pending'[d].kill = IF d = c THEN 0 ELSE pending[d].kill
      BY <1>t, <2>1, <2>2 DEF BotType
  <2>7. \A j \in CommandIds : cmds'[j].pc # "done" => cmds[j].pc # "done"
      BY <1>t, <2>1 DEF BotType
  <2>8. Fresh'
    <3>1. ASSUME NEW j \in CommandIds, cmds'[j].pc # "done"
          PROVE  /\ \A d \in Chats : pending'[d].kill # j
                 /\ \A k \in Confirming' : cmds'[k].kill # j
                 /\ \A n \in DOMAIN calls' : calls'[n] # j
      <4>1. /\ \A d \in Chats : pending[d].kill # j
            /\ \A k \in Confirming : cmds[k].kill # j
            /\ \A n \in DOMAIN calls : calls[n] # j
          BY <1>t, <2>7, <3>1 DEF Fresh
      <4>2. QED
        <5>1. \A d \in Chats : pending'[d].kill # j
            BY <2>6, <4>1, ZeroIsNoCommand
        <5>2. p.kill # j
            BY <2>2, <4>1
        <5>3. \A k \in Confirming' : cmds'[k].kill # j
            BY <2>5, <4>1, <5>2
        <5>4. QED
            BY <2>1, <4>1, <5>1, <5>3
    <3>2. QED
        BY <3>1 DEF Fresh
  <2>9. OnePlace'
    <3>1. \A n \in DOMAIN calls : calls[n] # 0
        BY <1>t, ZeroIsNoCommand DEF BotType
    <3>2. \A d, e \in Chats : pending'[d].kill = pending'[e].kill /\ pending'[d].kill # 0 => d = e
        BY <1>t, <2>6 DEF OnePlace
    <3>3. \A j, k \in Confirming' : cmds'[j].kill = cmds'[k].kill /\ cmds'[j].kill # 0 => j = k
        BY <1>t, <2>2, <2>5 DEF OnePlace
    <3>4. \A d \in Chats : \A j \in Confirming' :
             pending'[d].kill # 0 => pending'[d].kill # cmds'[j].kill
        BY <1>t, <2>2, <2>5, <2>6 DEF OnePlace
    <3>5. \A n \in DOMAIN calls' : /\ \A d \in Chats : calls'[n] # pending'[d].kill
                                   /\ \A j \in Confirming' : calls'[n] # cmds'[j].kill
      <4>1. \A n \in DOMAIN calls : /\ \A d \in Chats : calls[n] # pending[d].kill
                                    /\ \A j \in Confirming : calls[n] # cmds[j].kill
          BY <1>t DEF OnePlace
      <4>2. \A n \in DOMAIN calls : \A d \in Chats : calls[n] # pending'[d].kill
          BY <2>6, <3>1, <4>1
      <4>3. \A n \in DOMAIN calls : calls[n] # p.kill
          BY <2>2, <4>1
      <4>4. \A n \in DOMAIN calls : \A j \in Confirming' : calls[n] # cmds'[j].kill
          BY <2>5, <4>1, <4>3
      <4>5. QED
          BY <2>1, <4>2, <4>4
    <3>6. OneCallPerKill'
        BY <1>t, <2>1 DEF OnePlace, OneCallPerKill
    <3>7. QED
        BY <3>2, <3>3, <3>4, <3>5, <3>6 DEF OnePlace
  <2>10. QED
      BY <2>4, <2>8, <2>9 DEF KillInv
<1>6. ASSUME NEW i \in CommandIds, ConfirmCheck(i)
      PROVE  KillInv'
  <2>1. /\ cmds[i].pc = "check"
        /\ cmds' = [cmds EXCEPT ![i].pc = "done"]
        /\ UNCHANGED <<pending, clock>>
      BY <1>6 DEF ConfirmCheck, Ends
  <2>d. /\ cmds' \in [CommandIds -> CommandRecords] /\ cmds'[i].pc = "done"
        /\ \A j \in CommandIds : j # i => cmds'[j] = cmds[j]
    <3>1. "done" \in CommandPcs
        BY DEF CommandPcs
    <3>2. QED
        BY <1>t, <2>1, <3>1, PcMoves
  <2>2. CASE UNCHANGED calls
    <3>1. clock' \in Int
        BY <1>t, <2>1 DEF BotType
    <3>2. QED
        BY <2>1, <2>2, <2>d, <3>1, CommandMoves
  <2>3. CASE cmds[i].kill # 0 /\ calls' = Append(calls, cmds[i].kill)
    <3> DEFINE k == cmds[i].kill
    <3>1. k \in CommandIds
        BY <1>t, <2>3 DEF BotType, CommandRecords
    <3>2. BotType'
        BY <1>t, <2>1, <2>3, <2>d, <3>1 DEF BotType
    <3>3. /\ Confirming' = Confirming \ {i} /\ i \in Confirming
          /\ \A j \in Confirming' : cmds'[j].kill = cmds[j].kill
        BY <1>t, <2>1 DEF Confirming, BotType
    <3>4. \A j \in CommandIds : cmds'[j].pc # "done" => cmds[j].pc # "done"
        BY <1>t, <2>1 DEF BotType
    <3>5. \A n \in DOMAIN calls' : /\ n = Len(calls) + 1 => calls'[n] = k
                                   /\ n # Len(calls) + 1 => n \in DOMAIN calls /\ calls'[n] = calls[n]
        BY <1>t, <2>3, <3>1 DEF BotType
    <3>6. Fresh'
        BY <1>t, <2>1, <3>3, <3>4, <3>5 DEF Fresh
    <3>7. OnePlace'
      <4>1. \A n \in DOMAIN calls : calls[n] # k
          BY <1>t, <3>3 DEF OnePlace
      <4>2. OneCallPerKill'
          BY <1>t, <3>5, <4>1 DEF OnePlace, OneCallPerKill
      <4>3. \A n \in DOMAIN calls' : /\ \A d \in Chats : calls'[n] # pending'[d].kill
                                     /\ \A j \in Confirming' : calls'[n] # cmds'[j].kill
          BY <1>t, <2>1, <2>3, <3>3, <3>5 DEF OnePlace
      <4>4. QED
          BY <1>t, <2>1, <3>3, <4>2, <4>3 DEF OnePlace
    <3>8. QED
        BY <3>2, <3>6, <3>7 DEF KillInv
  <2>4. QED
      BY <1>6, <2>2, <2>3 DEF ConfirmCheck
<1>7. ASSUME NEW i \in CommandIds, OtherCommand(i)
      PROVE  KillInv'
  <2>1. cmds[i].pc # "done" /\ cmds' = [cmds EXCEPT ![i].pc = "done"]
        /\ UNCHANGED <<pending, clock, calls>>
      BY <1>7 DEF OtherCommand, Ends
  <2>2. "done" \in CommandPcs
      BY DEF CommandPcs
  <2>3. /\ cmds' \in [CommandIds -> CommandRecords] /\ cmds'[i].pc = "done"
        /\ \A j \in CommandIds : j # i => cmds'[j] = cmds[j]
      BY <1>t, <2>1, <2>2, PcMoves
  <2>4. clock' \in Int
      BY <1>t, <2>1 DEF BotType
  <2>5. QED
      BY <2>1, <2>3, <2>4, CommandMoves
<1>8. CASE ClockTick
    BY <1>8, <1>t DEF ClockTick, KillInv, BotType, Fresh, OnePlace, Confirming, OneCallPerKill
<1>9. CASE Restart
  <2>1. /\ \A i \in CommandIds : /\ cmds'[i].pc \in {"none", "done"}
                                 /\ cmds'[i].pc = "none" => cmds[i].pc = "none"
        /\ \A c \in Chats : pending'[c].kill = 0
        /\ UNCHANGED <<clock, calls>>
      BY <1>9, <1>t DEF Restart, NoCommand, NoKill, BotType
  <2>2. BotType'
    <3>1. NoCommand \in CommandRecords /\ "done" \in CommandPcs
        BY DEF NoCommand, CommandRecords, CommandPcs
    <3>2. \A i \in CommandIds : [cmds[i] EXCEPT !.pc = "done"] \in CommandRecords
        BY <1>t, <3>1 DEF BotType, CommandRecords
    <3>3. cmds' \in [CommandIds -> CommandRecords]
        BY <1>9, <3>1, <3>2 DEF Restart
    <3>4. pending' \in [Chats -> [kill : {0} \cup CommandIds, deadline : Int]]
        BY <1>9 DEF Restart, NoKill
    <3>5. QED
        BY <1>t, <2>1, <3>3, <3>4 DEF BotType
  <2>3. Confirming' = {}
      BY <2>1 DEF Confirming
  <2>4. Fresh'
      BY <1>t, <2>1, <2>3, ZeroIsNoCommand DEF Fresh
  <2>5. OnePlace'
    <3>1. \A n \in DOMAIN calls : calls[n] # 0
        BY <1>t, ZeroIsNoCommand DEF BotType
    <3>2. QED
        BY <1>t, <2>1, <2>3, <3>1 DEF OnePlace, OneCallPerKill
  <2>6. QED
      BY <2>2, <2>4, <2>5 DEF KillInv
<1>10. CASE UNCHANGED alertVars
    BY <1>10, BotKeeps DEF alertVars, botVars
<1>11. QED
    BY <1>1, <1>2, <1>3, <1>4, <1>5, <1>6, <1>7, <1>8, <1>9, <1>10 DEF AlertNext, CommandStep

\* However many confirmations of one chat or of several run at the same time, a
\* /kill leads to at most one TriggerKillSwitch (cmdConfirmKill reads and deletes
\* the pending entry under one lock).
THEOREM KillConfirmedOnce == AlertSpec => []OneCallPerKill
<1>1. KillInv => OneCallPerKill
    BY DEF KillInv, OnePlace
<1>2. QED
    BY <1>1, KillInit, KillStep, PTL DEF AlertSpec

-----------------------------------------------------------------------------
\* How often an element is in a sequence

\* The places where it is.
Places(e, s) == {i \in DOMAIN s : s[i] = e}

LEMMA PlacesFinite ==
    ASSUME NEW S, NEW s \in Seq(S), NEW e
    PROVE  IsFiniteSet(Places(e, s)) /\ Times(e, s) = Cardinality(Places(e, s)) /\ Times(e, s) \in Nat
<1>1. DOMAIN s = 1..Len(s) /\ Len(s) \in Nat
    OBVIOUS
<1>2. IsFiniteSet(1..Len(s))
    BY <1>1, FS_Interval
<1>3. Places(e, s) \subseteq 1..Len(s)
    BY <1>1 DEF Places
<1>4. IsFiniteSet(Places(e, s))
    BY <1>2, <1>3, FS_Subset
<1>5. Times(e, s) = Cardinality(Places(e, s))
    BY DEF Times, Places
<1>6. QED
    BY <1>4, <1>5, FS_CardinalityType

LEMMA TimesEmpty == \A e : Times(e, << >>) = 0
<1>1. \A e : {i \in DOMAIN << >> : << >>[i] = e} = {}
    OBVIOUS
<1>2. QED
    BY <1>1, FS_EmptySet DEF Times

LEMMA TimesOne ==
    ASSUME NEW d, NEW e
    PROVE  Times(e, <<d>>) = IF e = d THEN 1 ELSE 0
<1>1. CASE e = d
  <2>1. {i \in DOMAIN <<d>> : <<d>>[i] = e} = {1}
      BY <1>1
  <2>2. QED
      BY <1>1, <2>1, FS_Singleton DEF Times
<1>2. CASE e # d
  <2>1. {i \in DOMAIN <<d>> : <<d>>[i] = e} = {}
      BY <1>2
  <2>2. QED
      BY <1>2, <2>1, FS_EmptySet DEF Times
<1>3. QED
    BY <1>1, <1>2

\* The places in the second of two sequences move by the length of the first.
LEMMA TimesConcat ==
    ASSUME NEW S, NEW s \in Seq(S), NEW t \in Seq(S), NEW e
    PROVE  Times(e, s \o t) = Times(e, s) + Times(e, t)
<1>1. s \o t \in Seq(S)
    OBVIOUS
<1>2. PICK A : A = Places(e, s)
    OBVIOUS
<1>3. PICK B : B = Places(e, t)
    OBVIOUS
<1>4. PICK C : C = {Len(s) + i : i \in B}
    OBVIOUS
<1>5. A \subseteq 1..Len(s) /\ B \subseteq 1..Len(t) /\ Len(s) \in Nat /\ Len(t) \in Nat
    BY <1>2, <1>3 DEF Places
<1>6. Places(e, s \o t) = A \cup C
  <2>1. /\ DOMAIN (s \o t) = 1..(Len(s) + Len(t))
        /\ \A i \in 1..Len(s) : (s \o t)[i] = s[i]
        /\ \A i \in 1..Len(t) : (s \o t)[Len(s) + i] = t[i]
      OBVIOUS
  <2>2. ASSUME NEW i \in Places(e, s \o t) PROVE i \in A \cup C
    <3>1. i \in 1..(Len(s) + Len(t)) /\ (s \o t)[i] = e
        BY <2>1 DEF Places
    <3>2. CASE i <= Len(s)
        BY <1>2, <2>1, <3>1, <3>2 DEF Places
    <3>3. CASE i > Len(s)
      <4>1. PICK j : j = i - Len(s)
          OBVIOUS
      <4>2. j \in 1..Len(t) /\ i = Len(s) + j
          BY <1>5, <3>1, <3>3, <4>1
      <4>3. j \in B
          BY <1>3, <2>1, <3>1, <4>2 DEF Places
      <4>4. QED
          BY <1>4, <4>2, <4>3
    <3>4. QED
        BY <1>5, <3>1, <3>2, <3>3
  <2>3. ASSUME NEW i \in A PROVE i \in Places(e, s \o t)
    <3>1. i \in 1..Len(s) /\ s[i] = e
        BY <1>2 DEF Places
    <3>2. i \in 1..(Len(s) + Len(t)) /\ (s \o t)[i] = e
        BY <1>5, <2>1, <3>1
    <3>3. QED
        BY <2>1, <3>2 DEF Places
  <2>4. ASSUME NEW i \in C PROVE i \in Places(e, s \o t)
    <3>1. PICK j \in B : i = Len(s) + j
        BY <1>4
    <3>2. j \in 1..Len(t) /\ t[j] = e
        BY <1>3 DEF Places
    <3>3. i \in 1..(Len(s) + Len(t)) /\ (s \o t)[i] = e
        BY <1>5, <2>1, <3>1, <3>2
    <3>4. QED
        BY <2>1, <3>3 DEF Places
  <2>5. QED
      BY <2>2, <2>3, <2>4
<1>7. IsFiniteSet(A) /\ IsFiniteSet(B)
    BY <1>2, <1>3, PlacesFinite
<1>8. IsFiniteSet(C) /\ Cardinality(C) = Cardinality(B)
  <2>1. PICK f : f = [i \in B |-> Len(s) + i]
      OBVIOUS
  <2>2. f \in Bijection(B, C)
    <3>1. f \in [B -> C]
        BY <1>4, <2>1
    <3>2. \A i, j \in B : f[i] = f[j] => i = j
        BY <1>5, <2>1
    <3>3. \A c \in C : \E i \in B : f[i] = c
        BY <1>4, <2>1
    <3>4. QED
        BY <3>1, <3>2, <3>3 DEF Bijection, Injection, Surjection, IsInjective
  <2>3. QED
      BY <1>7, <2>2, FS_Bijection DEF ExistsBijection
<1>9. A \cap C = {}
    BY <1>4, <1>5
<1>10. Cardinality(A \cup C) = Cardinality(A) + Cardinality(C)
  <2>1. Cardinality(A \cup C) = Cardinality(A) + Cardinality(C) - Cardinality(A \cap C)
      BY <1>7, <1>8, FS_Union
  <2>2. Cardinality(A \cap C) = 0
      BY <1>9, FS_EmptySet
  <2>3. Cardinality(A) \in Nat /\ Cardinality(C) \in Nat
      BY <1>7, <1>8, FS_CardinalityType
  <2>4. QED
      BY <2>1, <2>2, <2>3
<1>11. /\ Times(e, s \o t) = Cardinality(A \cup C)
       /\ Times(e, s) = Cardinality(A)
       /\ Times(e, t) = Cardinality(B)
    BY <1>2, <1>3, <1>6 DEF Times, Places
<1>12. QED
    BY <1>8, <1>10, <1>11

\* The first of a sequence, and the rest.
LEMMA TimesHead ==
    ASSUME NEW S, NEW s \in Seq(S), s # << >>, NEW e
    PROVE  Times(e, s) = (IF e = Head(s) THEN 1 ELSE 0) + Times(e, Tail(s))
<1>1. <<Head(s)>> \in Seq(S) /\ Tail(s) \in Seq(S) /\ s = <<Head(s)>> \o Tail(s)
    OBVIOUS
<1>2. Times(e, <<Head(s)>> \o Tail(s)) = Times(e, <<Head(s)>>) + Times(e, Tail(s))
    BY <1>1, TimesConcat
<1>3. QED
    BY <1>1, <1>2, TimesOne

-----------------------------------------------------------------------------
\* The notifier

Members == Range(Trades) \cup Range(Alerts)
ProcPcs == {"idle", "append", "flush", "send"}
ProcRecords == [pc : ProcPcs, kind : Kinds \cup {"none"}, out : Seq(Int), left : Seq(Members)]

\* What a goroutine holds at each of its steps.
Holds(p, r) ==
    /\ r.pc \in {"idle", "flush"} => r.out = << >>
    /\ r.pc = "append" => p \in Batched /\ r.kind = p /\ r.left = Group(p)
    /\ r.pc = "flush" => r.kind \in Batched
    /\ r.pc = "send" => r.kind \in Kinds /\ r.left # << >>

NoteType ==
    /\ proc \in [Procs -> ProcRecords]
    /\ \A p \in Procs : Holds(p, proc[p])
    /\ batch \in [Batched -> Seq(Int)]
    /\ dlv \in [Events -> Nat]
    /\ tries \in [Members -> [Events -> Nat]]
    /\ crashes \in Nat

InBatch(g, k, e) == IF k \in Batched THEN Times(e, batch[k]) * Times(g, Group(k)) ELSE 0
AllOwed(g, k, e) == SumFunction([p \in Procs |-> Owed(p, g, k, e)])
Due(g, x) == dlv[x] * Times(g, Group(x[1]))

Conserved ==
    \A x \in Events : \A g \in Members :
        /\ Copies(g, x[1], x[2]) <= Due(g, x)
        /\ crashes = 0 => Copies(g, x[1], x[2]) = Due(g, x)

NoteInv == NoteType /\ Conserved

LEMMA NoteConstants ==
    /\ \A k : Group(k) \in Seq(Members) /\ Group(k) # << >>
    /\ \A g, k : Times(g, Group(k)) \in Nat
    /\ IsFiniteSet(Procs)
    /\ Batched \subseteq Kinds /\ Kinds \subseteq Procs /\ "ticker" \in Procs
    /\ \A x \in Events : x = <<x[1], x[2]>> /\ x[1] \in Kinds /\ x[2] \in Int
    /\ "proposed" \in Batched /\ "denied" \in Batched
<1>1. \A k : Group(k) \in Seq(Members) /\ Group(k) # << >>
  <2>1. Trades \in Seq(Members) /\ Alerts \in Seq(Members)
    <3>1. Trades \in Seq(Range(Trades)) /\ Alerts \in Seq(Range(Alerts))
        BY AlertAssumption
    <3>2. Range(Trades) \subseteq Members /\ Range(Alerts) \subseteq Members
        BY DEF Members
    <3>3. QED
        BY <3>1, <3>2
  <2>2. QED
      BY <2>1, AlertAssumption DEF Group
<1>2. \A g, k : Times(g, Group(k)) \in Nat
    BY <1>1, PlacesFinite
<1>3. IsFiniteSet(Procs)
  <2>1. Procs = {"proposed", "denied", "submitted", "filled", "kill", "ticker"}
      BY DEF Procs, Kinds, Batched, Immediate
  <2>2. IsFiniteSet({"proposed"} \cup {"denied"})
      BY FS_Singleton, FS_Union
  <2>3. IsFiniteSet({"proposed"} \cup {"denied"} \cup {"submitted"})
      BY <2>2, FS_Singleton, FS_Union
  <2>4. IsFiniteSet({"proposed"} \cup {"denied"} \cup {"submitted"} \cup {"filled"})
      BY <2>3, FS_Singleton, FS_Union
  <2>5. IsFiniteSet({"proposed"} \cup {"denied"} \cup {"submitted"} \cup {"filled"} \cup {"kill"})
      BY <2>4, FS_Singleton, FS_Union
  <2>6. IsFiniteSet({"proposed"} \cup {"denied"} \cup {"submitted"} \cup {"filled"} \cup {"kill"}
                      \cup {"ticker"})
      BY <2>5, FS_Singleton, FS_Union
  <2>7. Procs = {"proposed"} \cup {"denied"} \cup {"submitted"} \cup {"filled"} \cup {"kill"}
                  \cup {"ticker"}
      BY <2>1
  <2>8. QED
      BY <2>6, <2>7
<1>4. Batched \subseteq Kinds /\ Kinds \subseteq Procs /\ "ticker" \in Procs
    BY DEF Kinds, Procs
<1>5. \A x \in Events : x = <<x[1], x[2]>> /\ x[1] \in Kinds /\ x[2] \in Int
    BY DEF Events
<1>6. QED
    BY <1>1, <1>2, <1>3, <1>4, <1>5 DEF Batched

LEMMA OwedNat ==
    ASSUME NoteType, NEW g, NEW k, NEW e
    PROVE  /\ [p \in Procs |-> Owed(p, g, k, e)] \in [Procs -> Nat]
           /\ AllOwed(g, k, e) \in Nat
           /\ InBatch(g, k, e) \in Nat
<1>1. ASSUME NEW p \in Procs PROVE Owed(p, g, k, e) \in Nat
  <2>1. proc[p].out \in Seq(Int) /\ proc[p].left \in Seq(Members)
      BY DEF NoteType, ProcRecords
  <2>2. Times(e, proc[p].out) \in Nat /\ Times(g, proc[p].left) \in Nat
      BY <2>1, PlacesFinite
  <2>3. Times(e, proc[p].out) * Times(g, proc[p].left) \in Nat
      BY <2>2
  <2>4. QED
      BY <2>3 DEF Owed
<1>2. [p \in Procs |-> Owed(p, g, k, e)] \in [Procs -> Nat]
    BY <1>1
<1>3. AllOwed(g, k, e) \in Nat
    BY <1>2, NoteConstants, SumNat DEF AllOwed
<1>4. InBatch(g, k, e) \in Nat
  <2>1. CASE k \in Batched
    <3>1. batch[k] \in Seq(Int)
        BY <2>1 DEF NoteType
    <3>2. Times(e, batch[k]) \in Nat /\ Times(g, Group(k)) \in Nat
        BY <3>1, PlacesFinite, NoteConstants
    <3>3. QED
        BY <2>1, <3>2 DEF InBatch
  <2>2. CASE k \notin Batched
      BY <2>2 DEF InBatch
  <2>3. QED
      BY <2>1, <2>2
<1>5. QED
    BY <1>2, <1>3, <1>4

OwedFine == \A g, k, e : [p \in Procs |-> Owed(p, g, k, e)] \in [Procs -> Nat]

LEMMA OwedIsFine == NoteType => OwedFine
    BY OwedNat DEF OwedFine

\* The parts of the equation are numbers.
LEMMA CopiesNat ==
    ASSUME NoteType, NEW x \in Events, NEW g \in Members
    PROVE  /\ tries[g][x] \in Nat /\ Due(g, x) \in Nat
           /\ Copies(g, x[1], x[2]) = tries[g][x] + InBatch(g, x[1], x[2]) + AllOwed(g, x[1], x[2])
           /\ Copies(g, x[1], x[2]) \in Nat
<1>1. x = <<x[1], x[2]>>
    BY NoteConstants
<1>2. tries[g][x] \in Nat /\ dlv[x] \in Nat
    BY DEF NoteType
<1>3. Due(g, x) \in Nat
  <2>1. Times(g, Group(x[1])) \in Nat
      BY NoteConstants
  <2>2. QED
      BY <1>2, <2>1 DEF Due
<1>4. Copies(g, x[1], x[2]) = tries[g][x] + InBatch(g, x[1], x[2]) + AllOwed(g, x[1], x[2])
    BY <1>1 DEF Copies, InBatch, AllOwed
<1>5. QED
    BY <1>2, <1>3, <1>4, OwedNat

\* One goroutine goes on.
LEMMA OwedMoves ==
    ASSUME NoteType, NoteType', NEW p \in Procs, \A q \in Procs \ {p} : proc'[q] = proc[q],
           NEW g, NEW k, NEW e
    PROVE  AllOwed(g, k, e)' = AllOwed(g, k, e) - Owed(p, g, k, e) + Owed(p, g, k, e)'
<1>1. PICK f : f = [q \in Procs |-> Owed(q, g, k, e)]
    OBVIOUS
<1>2. PICK h : h = [q \in Procs |-> Owed(q, g, k, e)']
    OBVIOUS
<1>3. f \in [Procs -> Int]
    BY <1>1, OwedNat
<1>4. h \in [Procs -> Int]
  <2>1. OwedFine'
      BY OwedIsFine, PTL
  <2>2. QED
      BY <1>2, <2>1 DEF OwedFine
<1>5. \A q \in Procs \ {p} : h[q] = f[q]
    BY <1>1, <1>2 DEF Owed
<1>6. IsFiniteSet(Procs)
    BY NoteConstants
<1>7. SumFunction(h) = SumFunction(f) - f[p] + h[p]
    BY <1>3, <1>4, <1>5, <1>6, SumChange
<1>8. QED
    BY <1>1, <1>2, <1>7 DEF AllOwed

CopiesFine ==
    \A x \in Events : \A g \in Members :
        /\ tries[g][x] \in Nat /\ Due(g, x) \in Nat
        /\ InBatch(g, x[1], x[2]) \in Nat /\ AllOwed(g, x[1], x[2]) \in Nat
        /\ Copies(g, x[1], x[2]) = tries[g][x] + InBatch(g, x[1], x[2]) + AllOwed(g, x[1], x[2])

LEMMA CopiesAreFine == NoteType => CopiesFine
    BY CopiesNat, OwedNat DEF CopiesFine

\* What a step of one goroutine takes from one place it adds to another.
LEMMA StepBalances ==
    ASSUME NoteInv, NoteType', crashes' = crashes, NEW p \in Procs,
           \A q \in Procs \ {p} : proc'[q] = proc[q],
           \A x \in Events : \A g \in Members :
              tries'[g][x] + InBatch(g, x[1], x[2])' + Owed(p, g, x[1], x[2])' + Due(g, x)
                 = tries[g][x] + InBatch(g, x[1], x[2]) + Owed(p, g, x[1], x[2]) + Due(g, x)'
    PROVE  NoteInv'
<1>1. NoteType /\ Conserved
    BY DEF NoteInv
<1>2. CopiesFine /\ OwedFine
    BY <1>1, CopiesAreFine, OwedIsFine
<1>3. CopiesFine' /\ OwedFine'
    BY CopiesAreFine, OwedIsFine, PTL
<1>4. ASSUME NEW x \in Events, NEW g \in Members
      PROVE  /\ Copies(g, x[1], x[2])' <= Due(g, x)'
             /\ crashes' = 0 => Copies(g, x[1], x[2])' = Due(g, x)'
  <2>1. PICK t : t = tries[g][x]
      OBVIOUS
  <2>2. PICK u : u = tries'[g][x]
      OBVIOUS
  <2>3. PICK b : b = InBatch(g, x[1], x[2])
      OBVIOUS
  <2>4. PICK c : c = InBatch(g, x[1], x[2])'
      OBVIOUS
  <2>5. PICK o : o = Owed(p, g, x[1], x[2])
      OBVIOUS
  <2>6. PICK q : q = Owed(p, g, x[1], x[2])'
      OBVIOUS
  <2>7. PICK d : d = Due(g, x)
      OBVIOUS
  <2>8. PICK h : h = Due(g, x)'
      OBVIOUS
  <2>9. PICK s : s = AllOwed(g, x[1], x[2])
      OBVIOUS
  <2>10. PICK w : w = AllOwed(g, x[1], x[2])'
      OBVIOUS
  <2>11. w = s - o + q
      BY <1>1, <2>5, <2>6, <2>9, <2>10, OwedMoves
  <2>12. /\ t \in Nat /\ b \in Nat /\ o \in Nat /\ d \in Nat /\ s \in Nat
         /\ Copies(g, x[1], x[2]) = t + b + s
      BY <1>2, <2>1, <2>3, <2>5, <2>7, <2>9 DEF CopiesFine, OwedFine
  <2>13. /\ u \in Nat /\ c \in Nat /\ q \in Nat /\ h \in Nat /\ w \in Nat
         /\ Copies(g, x[1], x[2])' = u + c + w
    <3>1. u \in Nat /\ c \in Nat /\ h \in Nat /\ w \in Nat
          /\ Copies(g, x[1], x[2])' = u + c + w
        BY <1>3, <2>2, <2>4, <2>8, <2>10 DEF CopiesFine
    <3>2. q \in Nat
        BY <1>3, <2>6 DEF OwedFine
    <3>3. QED
        BY <3>1, <3>2
  <2>14. u + c + q + d = t + b + o + h
      BY <2>1, <2>2, <2>3, <2>4, <2>5, <2>6, <2>7, <2>8
  <2>15. t + b + s <= d /\ (crashes = 0 => t + b + s = d)
      BY <1>1, <2>7, <2>12 DEF Conserved
  <2>16. QED
    <3>1. u + c + w <= h /\ (crashes = 0 => u + c + w = h)
        BY <2>11, <2>12, <2>13, <2>14, <2>15
    <3>2. QED
        BY <2>8, <2>13, <3>1
<1>5. QED
    BY <1>4 DEF NoteInv, Conserved

LEMMA ProcBecomes ==
    ASSUME NoteType, NEW p \in Procs, NEW r \in ProcRecords, Holds(p, r),
           proc' = [proc EXCEPT ![p] = r]
    PROVE  /\ proc' \in [Procs -> ProcRecords]
           /\ \A q \in Procs : Holds(q, proc'[q])
           /\ proc'[p] = r
           /\ \A q \in Procs \ {p} : proc'[q] = proc[q]
<1>1. proc \in [Procs -> ProcRecords] /\ \A q \in Procs : Holds(q, proc[q])
    BY DEF NoteType
<1>2. proc' \in [Procs -> ProcRecords] /\ proc'[p] = r /\ \A q \in Procs \ {p} : proc'[q] = proc[q]
    BY <1>1
<1>3. \A q \in Procs : Holds(q, proc'[q])
  <2>1. ASSUME NEW q \in Procs PROVE Holds(q, proc'[q])
    <3>1. CASE q = p
        BY <1>2, <3>1
    <3>2. CASE q # p
      <4>1. proc'[q] = proc[q]
          BY <1>2, <3>2
      <4>2. QED
          BY <1>1, <4>1
    <3>3. QED
        BY <3>1, <3>2
  <2>2. QED
      BY <2>1
<1>4. QED
    BY <1>2, <1>3

\* A goroutine with nothing in its hands.
LEMMA EmptyHands ==
    ASSUME NEW p \in Procs, NEW pc \in {"idle", "flush"}, NEW k \in Kinds \cup {"none"},
           pc = "flush" => k \in Batched
    PROVE  LET r == [pc |-> pc, kind |-> k, out |-> << >>, left |-> << >>]
           IN r \in ProcRecords /\ Holds(p, r) /\ r.out = << >>
    BY DEF ProcRecords, ProcPcs, Holds

LEMMA DoneBecomes ==
    ASSUME NEW p \in Procs, Done(p)
    PROVE  \E r \in ProcRecords : Holds(p, r) /\ r.out = << >> /\ proc' = [proc EXCEPT ![p] = r]
<1>1. CASE p = "ticker" /\ proc[p].kind = "proposed"
  <2>1. PICK r : r = [pc |-> "flush", kind |-> "denied", out |-> << >>, left |-> << >>]
      OBVIOUS
  <2>2. r \in ProcRecords /\ Holds(p, r) /\ r.out = << >>
    <3>1. "denied" \in Kinds \cup {"none"} /\ "denied" \in Batched
        BY NoteConstants
    <3>2. QED
        BY <2>1, <3>1, EmptyHands
  <2>3. proc' = [proc EXCEPT ![p] = r]
      BY <1>1, <2>1 DEF Done, Does
  <2>4. QED
      BY <2>2, <2>3
<1>2. CASE ~(p = "ticker" /\ proc[p].kind = "proposed")
  <2>1. Idle \in ProcRecords /\ Holds(p, Idle) /\ Idle.out = << >>
      BY EmptyHands DEF Idle
  <2>2. proc' = [proc EXCEPT ![p] = Idle]
      BY <1>2 DEF Done
  <2>3. QED
      BY <2>1, <2>2
<1>3. QED
    BY <1>1, <1>2

\* Nothing in its hands, nothing owed.
LEMMA NothingOwed ==
    ASSUME NoteType, NEW p \in Procs, NEW g, NEW k, NEW e
    PROVE  proc[p].out = << >> => Owed(p, g, k, e) = 0
<1>1. proc[p].left \in Seq(Members)
    BY DEF NoteType, ProcRecords
<1>2. Times(g, proc[p].left) \in Nat
    BY <1>1, PlacesFinite
<1>3. QED
    BY <1>2, TimesEmpty DEF Owed

NothingFine == \A p \in Procs : \A g, k, e : proc[p].out = << >> => Owed(p, g, k, e) = 0

LEMMA NothingIsFine == NoteType => NothingFine
    BY NothingOwed DEF NothingFine

\* A delivery is in its handler's hands for every chat of the group.
LEMMA ReceiveStep ==
    ASSUME NoteInv, NEW y \in Events, Receive(y[1], y[2])
    PROVE  NoteInv'
<1> DEFINE k == y[1]
           e == y[2]
<1>0. NoteType /\ NothingFine
    BY NothingIsFine DEF NoteInv
<1>1. k \in Kinds /\ k \in Procs /\ e \in Int /\ y = <<k, e>>
    BY NoteConstants
<1>2. PICK r : /\ r.kind = k /\ r.out = <<e>> /\ r.left = Group(k)
               /\ r \in ProcRecords /\ Holds(k, r)
               /\ proc' = [proc EXCEPT ![k] = r]
  <2>1. PICK pc \in {"append", "send"} :
           /\ pc = "append" => k \in Batched
           /\ proc' = [proc EXCEPT ![k] = [pc |-> pc, kind |-> k, out |-> <<e>>, left |-> Group(k)]]
      BY DEF Receive, Does, Broadcasts
  <2>2. PICK r : r = [pc |-> pc, kind |-> k, out |-> <<e>>, left |-> Group(k)]
      OBVIOUS
  <2>3. Group(k) \in Seq(Members) /\ Group(k) # << >> /\ <<e>> \in Seq(Int)
      BY <1>1, NoteConstants
  <2>4. r \in ProcRecords /\ Holds(k, r)
      BY <1>1, <2>1, <2>2, <2>3 DEF ProcRecords, ProcPcs, Holds
  <2>5. QED
      BY <2>1, <2>2, <2>4
<1>3. /\ proc[k].pc = "idle" /\ dlv' = [dlv EXCEPT ![<<k, e>>] = @ + 1]
      /\ UNCHANGED <<batch, tries, crashes>>
    BY DEF Receive
<1>4. /\ proc' \in [Procs -> ProcRecords] /\ \A q \in Procs : Holds(q, proc'[q])
      /\ proc'[k] = r /\ \A q \in Procs \ {k} : proc'[q] = proc[q]
    BY <1>0, <1>1, <1>2, ProcBecomes
<1>5. NoteType'
  <2>1. dlv' \in [Events -> Nat]
    <3>1. dlv' = [dlv EXCEPT ![y] = dlv[y] + 1] /\ dlv \in [Events -> Nat]
        BY <1>0, <1>1, <1>3 DEF NoteType
    <3>2. QED
        BY ONLY <3>1, y \in Events
  <2>2. QED
      BY <1>0, <1>3, <1>4, <2>1 DEF NoteType
<1>6. ASSUME NEW x \in Events, NEW g \in Members
      PROVE  tries'[g][x] + InBatch(g, x[1], x[2])' + Owed(k, g, x[1], x[2])' + Due(g, x)
                = tries[g][x] + InBatch(g, x[1], x[2]) + Owed(k, g, x[1], x[2]) + Due(g, x)'
  <2>1. PICK n : n = Times(g, Group(k))
      OBVIOUS
  <2>2. n \in Nat
      BY <2>1, NoteConstants
  <2>3. Owed(k, g, x[1], x[2]) = 0
    <3>1. proc[k].out = << >>
        BY <1>0, <1>1, <1>3 DEF NoteType, Holds
    <3>2. QED
        BY <1>0, <1>1, <3>1 DEF NothingFine
  <2>4. Owed(k, g, x[1], x[2])' = IF x[1] = k THEN Times(x[2], <<e>>) * n ELSE 0
      BY <1>2, <1>4, <2>1 DEF Owed
  <2>5. tries'[g][x] = tries[g][x] /\ InBatch(g, x[1], x[2])' = InBatch(g, x[1], x[2])
      BY <1>3 DEF InBatch
  <2>6. dlv[x] \in Nat /\ tries[g][x] \in Nat /\ InBatch(g, x[1], x[2]) \in Nat
      BY <1>0, OwedNat DEF NoteType
  <2>7. CASE x = y
    <3>1. Times(x[2], <<e>>) = 1
        BY <2>7, TimesOne
    <3>2. Owed(k, g, x[1], x[2])' = n
        BY <2>2, <2>4, <2>7, <3>1
    <3>3. dlv'[x] = dlv[x] + 1
      <4>1. dlv' = [dlv EXCEPT ![y] = dlv[y] + 1] /\ dlv \in [Events -> Nat]
          BY <1>0, <1>1, <1>3 DEF NoteType
      <4>2. QED
          BY ONLY <2>7, <4>1, y \in Events
    <3>4. Due(g, x) = dlv[x] * n /\ Due(g, x)' = (dlv[x] + 1) * n
        BY <2>1, <2>7, <3>3 DEF Due
    <3>5. (dlv[x] + 1) * n = dlv[x] * n + n /\ dlv[x] * n \in Nat
        BY <2>2, <2>6
    <3>6. QED
        BY <2>2, <2>3, <2>5, <2>6, <3>2, <3>4, <3>5
  <2>8. CASE x # y
    <3>1. x[1] = k => x[2] # e
        BY <1>1, <2>8, NoteConstants
    <3>2. Owed(k, g, x[1], x[2])' = 0
      <4>1. CASE x[1] = k
        <5>1. Times(x[2], <<e>>) = 0
            BY <3>1, <4>1, TimesOne
        <5>2. QED
            BY <2>2, <2>4, <4>1, <5>1
      <4>2. CASE x[1] # k
          BY <2>4, <4>2
      <4>3. QED
          BY <4>1, <4>2
    <3>3. dlv'[x] = dlv[x]
      <4>1. dlv' = [dlv EXCEPT ![y] = dlv[y] + 1] /\ dlv \in [Events -> Nat]
          BY <1>0, <1>1, <1>3 DEF NoteType
      <4>2. QED
          BY ONLY <2>8, <4>1, y \in Events, x \in Events
    <3>4. Due(g, x)' = Due(g, x)
        BY <3>3 DEF Due
    <3>5. QED
        BY <2>3, <2>5, <3>2, <3>4
  <2>9. QED
      BY <2>7, <2>8
<1>7. crashes' = crashes
    BY <1>3
<1> HIDE DEF k, e
<1>8. QED
    BY <1>1, <1>4, <1>5, <1>6, <1>7, StepBalances

\* What was in the handler's hands is in the batch.
LEMMA AppendStep ==
    ASSUME NoteInv, NEW k \in Batched, AppendEvent(k)
    PROVE  NoteInv'
<1>0. NoteType /\ NothingFine
    BY NothingIsFine DEF NoteInv
<1>1. k \in Procs /\ k \in Kinds
    BY NoteConstants
<1>2. PICK r \in ProcRecords : Holds(k, r) /\ r.out = << >> /\ proc' = [proc EXCEPT ![k] = r]
  <2>1. CASE Done(k)
      BY <1>1, <2>1, DoneBecomes
  <2>2. CASE Does(k, "flush", k, << >>, << >>)
    <3>1. PICK r : r = [pc |-> "flush", kind |-> k, out |-> << >>, left |-> << >>]
        OBVIOUS
    <3>2. r \in ProcRecords /\ Holds(k, r) /\ r.out = << >>
        BY <1>1, <3>1, EmptyHands
    <3>3. QED
        BY <2>2, <3>1, <3>2 DEF Does
  <2>3. QED
      BY <2>1, <2>2 DEF AppendEvent
<1>3. /\ proc[k].pc = "append" /\ batch' = [batch EXCEPT ![k] = @ \o proc[k].out]
      /\ UNCHANGED <<dlv, tries, crashes>>
    BY DEF AppendEvent
<1>4. /\ proc' \in [Procs -> ProcRecords] /\ \A q \in Procs : Holds(q, proc'[q])
      /\ proc'[k] = r /\ \A q \in Procs \ {k} : proc'[q] = proc[q]
    BY <1>0, <1>1, <1>2, ProcBecomes
<1>5. batch[k] \in Seq(Int) /\ proc[k].out \in Seq(Int)
    BY <1>0, <1>1 DEF NoteType, ProcRecords
<1>6. NoteType'
  <2>1. batch' \in [Batched -> Seq(Int)]
    <3>1. batch[k] \o proc[k].out \in Seq(Int)
        BY <1>5
    <3>2. QED
        BY <1>0, <1>3, <3>1 DEF NoteType
  <2>2. QED
      BY <1>0, <1>3, <1>4, <2>1 DEF NoteType
<1>7. proc[k].kind = k /\ proc[k].left = Group(k)
    BY <1>0, <1>1, <1>3 DEF NoteType, Holds
<1>8. ASSUME NEW x \in Events, NEW g \in Members
      PROVE  tries'[g][x] + InBatch(g, x[1], x[2])' + Owed(k, g, x[1], x[2])' + Due(g, x)
                = tries[g][x] + InBatch(g, x[1], x[2]) + Owed(k, g, x[1], x[2]) + Due(g, x)'
  <2>1. tries'[g][x] = tries[g][x] /\ Due(g, x)' = Due(g, x)
      BY <1>3 DEF Due
  <2>2. Owed(k, g, x[1], x[2])' = 0
    <3>1. NothingFine'
        BY <1>6, NothingIsFine, PTL
    <3>2. QED
        BY <1>1, <1>2, <1>4, <3>1 DEF NothingFine
  <2>3. InBatch(g, x[1], x[2])' = InBatch(g, x[1], x[2]) + Owed(k, g, x[1], x[2])
    <3>1. CASE x[1] = k
      <4>1. PICK n : n = Times(g, Group(k))
          OBVIOUS
      <4>2. PICK a : a = Times(x[2], batch[k])
          OBVIOUS
      <4>3. PICK b : b = Times(x[2], proc[k].out)
          OBVIOUS
      <4>4. n \in Nat /\ a \in Nat /\ b \in Nat
          BY <1>5, <4>1, <4>2, <4>3, PlacesFinite, NoteConstants
      <4>5. Times(x[2], batch'[k]) = a + b
        <5>1. batch'[k] = batch[k] \o proc[k].out
            BY <1>0, <1>3 DEF NoteType
        <5>2. QED
            BY <1>5, <4>2, <4>3, <5>1, TimesConcat
      <4>6. InBatch(g, x[1], x[2])' = (a + b) * n /\ InBatch(g, x[1], x[2]) = a * n
          BY <3>1, <4>1, <4>2, <4>5 DEF InBatch
      <4>7. Owed(k, g, x[1], x[2]) = b * n
          BY <1>7, <3>1, <4>1, <4>3 DEF Owed
      <4>8. (a + b) * n = a * n + b * n
          BY <4>4
      <4>9. QED
          BY <4>6, <4>7, <4>8
    <3>2. CASE x[1] # k
      <4>1. Owed(k, g, x[1], x[2]) = 0
          BY <1>7, <3>2 DEF Owed
      <4>2. InBatch(g, x[1], x[2])' = InBatch(g, x[1], x[2])
          BY <1>0, <1>3, <3>2 DEF InBatch, NoteType
      <4>3. InBatch(g, x[1], x[2]) \in Nat
          BY <1>0, OwedNat
      <4>4. QED
          BY <4>1, <4>2, <4>3
    <3>3. QED
        BY <3>1, <3>2
  <2>4. /\ InBatch(g, x[1], x[2]) \in Nat /\ Owed(k, g, x[1], x[2]) \in Nat
        /\ tries[g][x] \in Nat /\ Due(g, x) \in Nat
      BY <1>0, <1>1, OwedNat, OwedIsFine, CopiesNat DEF OwedFine
  <2>5. QED
      BY <2>1, <2>2, <2>3, <2>4
<1>9. crashes' = crashes
    BY <1>3
<1>10. QED
    BY <1>1, <1>4, <1>6, <1>8, <1>9, StepBalances

\* What was in the batch is in the hands of the goroutine that swapped it.
LEMMA FlushStep ==
    ASSUME NoteInv, NEW p \in Procs, Flush(p)
    PROVE  NoteInv'
<1>0. NoteType /\ NothingFine
    BY NothingIsFine DEF NoteInv
<1>1. PICK k : k = proc[p].kind
    OBVIOUS
<1>2. /\ proc[p].pc = "flush" /\ batch' = [batch EXCEPT ![k] = << >>]
      /\ UNCHANGED <<dlv, tries, crashes>>
    BY <1>1 DEF Flush, SwapBatch
<1>3. k \in Batched /\ k \in Kinds /\ proc[p].out = << >>
    BY <1>0, <1>1, <1>2, NoteConstants DEF NoteType, Holds
<1>4. batch[k] \in Seq(Int) /\ Group(k) \in Seq(Members) /\ Group(k) # << >>
    BY <1>0, <1>3, NoteConstants DEF NoteType
<1>5. PICK r \in ProcRecords : /\ Holds(p, r) /\ proc' = [proc EXCEPT ![p] = r]
                               /\ \/ r.out = << >> /\ batch[k] = << >>
                                  \/ r.kind = k /\ r.out = batch[k] /\ r.left = Group(k)
  <2>1. CASE batch[k] = << >> /\ Done(p)
      BY <2>1, DoneBecomes
  <2>2. CASE Broadcasts(p, k, batch[k])
    <3>1. PICK r : r = [pc |-> "send", kind |-> k, out |-> batch[k], left |-> Group(k)]
        OBVIOUS
    <3>2. r \in ProcRecords /\ Holds(p, r)
        BY <1>3, <1>4, <3>1 DEF ProcRecords, ProcPcs, Holds
    <3>3. proc' = [proc EXCEPT ![p] = r]
        BY <2>2, <3>1 DEF Broadcasts, Does
    <3>4. QED
        BY <3>1, <3>2, <3>3
  <2>3. QED
      BY <1>1, <2>1, <2>2 DEF Flush
<1>6. /\ proc' \in [Procs -> ProcRecords] /\ \A q \in Procs : Holds(q, proc'[q])
      /\ proc'[p] = r /\ \A q \in Procs \ {p} : proc'[q] = proc[q]
    BY <1>0, <1>5, ProcBecomes
<1>7. NoteType'
  <2>1. batch' \in [Batched -> Seq(Int)]
    <3>1. << >> \in Seq(Int)
        OBVIOUS
    <3>2. QED
        BY <1>0, <1>2, <3>1 DEF NoteType
  <2>2. QED
      BY <1>0, <1>2, <1>6, <2>1 DEF NoteType
<1>8. NothingFine'
    BY <1>7, NothingIsFine, PTL
<1>9. ASSUME NEW x \in Events, NEW g \in Members
      PROVE  tries'[g][x] + InBatch(g, x[1], x[2])' + Owed(p, g, x[1], x[2])' + Due(g, x)
                = tries[g][x] + InBatch(g, x[1], x[2]) + Owed(p, g, x[1], x[2]) + Due(g, x)'
  <2>1. tries'[g][x] = tries[g][x] /\ Due(g, x)' = Due(g, x)
      BY <1>2 DEF Due
  <2>2. Owed(p, g, x[1], x[2]) = 0
      BY <1>0, <1>3 DEF NothingFine
  <2>3. PICK n : n = Times(g, Group(k))
      OBVIOUS
  <2>4. PICK b : b = Times(x[2], batch[k])
      OBVIOUS
  <2>5. n \in Nat /\ b \in Nat
      BY <1>4, <2>3, <2>4, PlacesFinite, NoteConstants
  <2>6. Owed(p, g, x[1], x[2])' = IF x[1] = k THEN b * n ELSE 0
    <3>1. CASE r.out = << >> /\ batch[k] = << >>
      <4>1. Owed(p, g, x[1], x[2])' = 0
          BY <1>6, <1>8, <3>1 DEF NothingFine
      <4>2. b * n = 0
        <5>1. b = 0
            BY <2>4, <3>1, TimesEmpty
        <5>2. QED
            BY <2>5, <5>1
      <4>3. QED
          BY <4>1, <4>2
    <3>2. CASE r.kind = k /\ r.out = batch[k] /\ r.left = Group(k)
        BY <1>6, <2>3, <2>4, <3>2 DEF Owed
    <3>3. QED
        BY <1>5, <3>1, <3>2
  <2>7. CASE x[1] = k
    <3>1. InBatch(g, x[1], x[2]) = b * n
        BY <1>3, <2>3, <2>4, <2>7 DEF InBatch
    <3>2. InBatch(g, x[1], x[2])' = 0
      <4>1. batch'[k] = << >>
          BY <1>0, <1>2, <1>3 DEF NoteType
      <4>2. InBatch(g, x[1], x[2])' = 0 * n
          BY <1>3, <2>3, <2>7, <4>1, TimesEmpty DEF InBatch
      <4>3. QED
          BY <2>5, <4>2
    <3>3. QED
      <4>1. b * n \in Nat /\ tries[g][x] \in Nat /\ Due(g, x) \in Nat
          BY <1>0, <2>5, CopiesNat
      <4>2. QED
          BY <2>1, <2>2, <2>6, <2>7, <3>1, <3>2, <4>1
  <2>8. CASE x[1] # k
    <3>1. InBatch(g, x[1], x[2])' = InBatch(g, x[1], x[2])
        BY <1>0, <1>2, <2>8 DEF InBatch, NoteType
    <3>2. QED
        BY <2>1, <2>2, <2>6, <2>8, <3>1
  <2>9. QED
      BY <2>7, <2>8
<1>10. crashes' = crashes
    BY <1>2
<1>11. QED
    BY <1>6, <1>7, <1>9, <1>10, StepBalances

\* A message that is sent is owed to the rest of the chats.
LEMMA SendStep ==
    ASSUME NoteInv, NEW p \in Procs, Send(p)
    PROVE  NoteInv'
<1>0. NoteType /\ NothingFine
    BY NothingIsFine DEF NoteInv
<1>1. PICK o : o = proc[p]
    OBVIOUS
<1>2. PICK h : h = Head(o.left)
    OBVIOUS
<1>3. /\ o.pc = "send" /\ UNCHANGED <<batch, dlv, crashes>>
      /\ tries' = [tries EXCEPT ![h] = [x \in Events |-> IF x[1] = o.kind
                                                        THEN tries[h][x] + Times(x[2], o.out)
                                                        ELSE tries[h][x]]]
    BY <1>1, <1>2 DEF Send
<1>4. /\ o.kind \in Kinds /\ o.left \in Seq(Members) /\ o.left # << >> /\ o.out \in Seq(Int)
      /\ o \in ProcRecords
    BY <1>0, <1>1, <1>3 DEF NoteType, Holds, ProcRecords
<1>5. h \in Members /\ Tail(o.left) \in Seq(Members)
    BY <1>2, <1>4
<1>6. PICK r \in ProcRecords : /\ Holds(p, r) /\ proc' = [proc EXCEPT ![p] = r]
                               /\ \/ r.out = << >> /\ Tail(o.left) = << >>
                                  \/ r.kind = o.kind /\ r.out = o.out /\ r.left = Tail(o.left)
  <2>1. CASE Len(o.left) > 1
    <3>1. PICK r : r = [pc |-> "send", kind |-> o.kind, out |-> o.out, left |-> Tail(o.left)]
        OBVIOUS
    <3>2. Tail(o.left) # << >>
      <4>1. PICK w : w = o.left
          OBVIOUS
      <4>2. Len(Tail(w)) = Len(w) - 1 /\ Len(w) > 1 /\ Len(w) \in Nat
          BY <1>4, <2>1, <4>1
      <4>3. Tail(w) # << >>
          BY <4>2
      <4>4. QED
          BY <4>1, <4>3
    <3>3. r \in ProcRecords /\ Holds(p, r)
        BY <1>4, <1>5, <3>1, <3>2 DEF ProcRecords, ProcPcs, Holds
    <3>4. proc' = [proc EXCEPT ![p] = r]
        BY <1>1, <2>1, <3>1 DEF Send, Does
    <3>5. QED
        BY <3>1, <3>3, <3>4
  <2>2. CASE ~(Len(o.left) > 1)
    <3>1. Tail(o.left) = << >>
        BY <1>4, <2>2
    <3>2. Done(p)
        BY <1>1, <2>2 DEF Send
    <3>3. QED
        BY <3>1, <3>2, DoneBecomes
  <2>3. QED
      BY <2>1, <2>2
<1>7. /\ proc' \in [Procs -> ProcRecords] /\ \A q \in Procs : Holds(q, proc'[q])
      /\ proc'[p] = r /\ \A q \in Procs \ {p} : proc'[q] = proc[q]
    BY <1>0, <1>6, ProcBecomes
<1>8. \A x \in Events : Times(x[2], o.out) \in Nat
    BY <1>4, PlacesFinite
<1>9. NoteType'
  <2>1. PICK f : f = [x \in Events |-> IF x[1] = o.kind THEN tries[h][x] + Times(x[2], o.out)
                                       ELSE tries[h][x]]
      OBVIOUS
  <2>2. f \in [Events -> Nat]
      BY <1>0, <1>5, <1>8, <2>1 DEF NoteType
  <2>3. tries' \in [Members -> [Events -> Nat]]
      BY <1>0, <1>3, <2>1, <2>2 DEF NoteType
  <2>4. QED
      BY <1>0, <1>3, <1>7, <2>3 DEF NoteType
<1>10. NothingFine'
    BY <1>9, NothingIsFine, PTL
<1>11. ASSUME NEW x \in Events, NEW g \in Members
       PROVE  tries'[g][x] + InBatch(g, x[1], x[2])' + Owed(p, g, x[1], x[2])' + Due(g, x)
                 = tries[g][x] + InBatch(g, x[1], x[2]) + Owed(p, g, x[1], x[2]) + Due(g, x)'
  <2>1. InBatch(g, x[1], x[2])' = InBatch(g, x[1], x[2]) /\ Due(g, x)' = Due(g, x)
      BY <1>3 DEF Due, InBatch
  <2>2. PICK a : a = Times(x[2], o.out)
      OBVIOUS
  <2>3. PICK m : m = Times(g, Tail(o.left))
      OBVIOUS
  <2>4. PICK b : b = IF g = h THEN 1 ELSE 0
      OBVIOUS
  <2>5. a \in Nat /\ m \in Nat /\ b \in Nat
      BY <1>5, <1>8, <2>2, <2>3, <2>4, PlacesFinite
  <2>6. Times(g, o.left) = b + m
      BY <1>2, <1>4, <2>3, <2>4, TimesHead
  <2>7. /\ tries[g][x] \in Nat /\ Due(g, x) \in Nat /\ InBatch(g, x[1], x[2]) \in Nat
      BY <1>0, CopiesNat, OwedNat
  <2>8. CASE x[1] = o.kind
    <3>1. Owed(p, g, x[1], x[2]) = a * (b + m)
        BY <1>1, <2>2, <2>6, <2>8 DEF Owed
    <3>2. Owed(p, g, x[1], x[2])' = a * m
      <4>1. CASE r.out = << >> /\ Tail(o.left) = << >>
        <5>1. Owed(p, g, x[1], x[2])' = 0
            BY <1>7, <1>10, <4>1 DEF NothingFine
        <5>2. m = 0
            BY <2>3, <4>1, TimesEmpty
        <5>3. QED
            BY <2>5, <5>1, <5>2
      <4>2. CASE r.kind = o.kind /\ r.out = o.out /\ r.left = Tail(o.left)
          BY <1>7, <2>2, <2>3, <2>8, <4>2 DEF Owed
      <4>3. QED
          BY <1>6, <4>1, <4>2
    <3>3. tries'[g][x] = tries[g][x] + a * b
      <4>1. CASE g = h
        <5>1. tries'[g][x] = tries[g][x] + a
            BY <1>0, <1>3, <1>5, <2>2, <2>8, <4>1 DEF NoteType
        <5>2. QED
            BY <2>4, <2>5, <4>1, <5>1
      <4>2. CASE g # h
        <5>1. tries'[g][x] = tries[g][x]
            BY <1>0, <1>3, <4>2 DEF NoteType
        <5>2. QED
            BY <2>4, <2>5, <2>7, <4>2, <5>1
      <4>3. QED
          BY <4>1, <4>2
    <3>4. a * (b + m) = a * b + a * m /\ a * b \in Nat /\ a * m \in Nat
        BY <2>5
    <3>5. QED
        BY <2>1, <2>7, <3>1, <3>2, <3>3, <3>4
  <2>9. CASE x[1] # o.kind
    <3>1. Owed(p, g, x[1], x[2]) = 0
        BY <1>1, <2>9 DEF Owed
    <3>2. Owed(p, g, x[1], x[2])' = 0
      <4>1. CASE r.out = << >>
          BY <1>7, <1>10, <4>1 DEF NothingFine
      <4>2. CASE r.kind = o.kind
          BY <1>7, <2>9, <4>2 DEF Owed
      <4>3. QED
          BY <1>6, <4>1, <4>2
    <3>3. tries'[g][x] = tries[g][x]
        BY <1>0, <1>3, <1>5, <2>9 DEF NoteType
    <3>4. QED
        BY <2>1, <3>1, <3>2, <3>3
  <2>10. QED
      BY <2>8, <2>9
<1>12. crashes' = crashes
    BY <1>3
<1>13. QED
    BY <1>7, <1>9, <1>11, <1>12, StepBalances

\* The ticker goes to work with empty hands.
LEMMA TickStep ==
    ASSUME NoteInv, Tick
    PROVE  NoteInv'
<1>0. NoteType /\ NothingFine
    BY NothingIsFine DEF NoteInv
<1>1. PICK r : r = [pc |-> "flush", kind |-> "proposed", out |-> << >>, left |-> << >>]
    OBVIOUS
<1>2. PICK p : p = "ticker"
    OBVIOUS
<1>3. p \in Procs /\ "proposed" \in Batched /\ "proposed" \in Kinds \cup {"none"}
    BY <1>2, NoteConstants
<1>4. r \in ProcRecords /\ Holds(p, r) /\ r.out = << >>
    BY <1>1, <1>3, EmptyHands
<1>5. /\ proc' = [proc EXCEPT ![p] = r] /\ proc[p].pc = "idle"
      /\ UNCHANGED <<batch, dlv, tries, crashes>>
    BY <1>1, <1>2 DEF Tick, Does
<1>6. /\ proc' \in [Procs -> ProcRecords] /\ \A q \in Procs : Holds(q, proc'[q])
      /\ proc'[p] = r /\ \A q \in Procs \ {p} : proc'[q] = proc[q]
    BY <1>0, <1>3, <1>4, <1>5, ProcBecomes
<1>7. NoteType'
    BY <1>0, <1>5, <1>6 DEF NoteType
<1>8. NothingFine'
    BY <1>7, NothingIsFine, PTL
<1>9. proc[p].out = << >>
    BY <1>0, <1>3, <1>5 DEF NoteType, Holds
<1>10. ASSUME NEW x \in Events, NEW g \in Members
       PROVE  tries'[g][x] + InBatch(g, x[1], x[2])' + Owed(p, g, x[1], x[2])' + Due(g, x)
                 = tries[g][x] + InBatch(g, x[1], x[2]) + Owed(p, g, x[1], x[2]) + Due(g, x)'
  <2>1. /\ tries'[g][x] = tries[g][x] /\ InBatch(g, x[1], x[2])' = InBatch(g, x[1], x[2])
        /\ Due(g, x)' = Due(g, x)
      BY <1>5 DEF Due, InBatch
  <2>2. Owed(p, g, x[1], x[2]) = 0 /\ Owed(p, g, x[1], x[2])' = 0
      BY <1>0, <1>3, <1>4, <1>6, <1>8, <1>9 DEF NothingFine
  <2>3. QED
      BY <2>1, <2>2
<1>11. crashes' = crashes
    BY <1>5
<1>12. QED
    BY <1>3, <1>6, <1>7, <1>10, <1>11, StepBalances

\* The steps of the bot.
LEMMA NoteKeeps ==
    ASSUME NoteInv, UNCHANGED <<batch, proc, dlv, tries, crashes>>
    PROVE  NoteInv'
    BY DEF NoteInv, NoteType, Conserved, Copies, Owed, Due

\* A restart empties the hands and the batches.
LEMMA RestartStep ==
    ASSUME NoteInv, Restart
    PROVE  NoteInv'
<1>0. NoteType /\ Conserved /\ CopiesFine
    BY CopiesAreFine DEF NoteInv
<1>1. /\ batch' = [k \in Batched |-> << >>] /\ proc' = [p \in Procs |-> Idle]
      /\ crashes' = crashes + 1 /\ UNCHANGED <<dlv, tries>>
    BY DEF Restart
<1>2. NoteType'
  <2>1. \A p \in Procs : Idle \in ProcRecords /\ Holds(p, Idle)
      BY EmptyHands DEF Idle
  <2>2. proc' \in [Procs -> ProcRecords] /\ \A p \in Procs : Holds(p, proc'[p])
      BY <1>1, <2>1
  <2>3. batch' \in [Batched -> Seq(Int)]
      BY <1>1
  <2>4. QED
      BY <1>0, <1>1, <2>2, <2>3 DEF NoteType
<1>3. CopiesFine' /\ NothingFine'
    BY <1>2, CopiesAreFine, NothingIsFine, PTL
<1>4. ASSUME NEW x \in Events, NEW g \in Members
      PROVE  /\ Copies(g, x[1], x[2])' <= Due(g, x)'
             /\ crashes' = 0 => Copies(g, x[1], x[2])' = Due(g, x)'
  <2>1. InBatch(g, x[1], x[2])' = 0
    <3>1. CASE x[1] \in Batched
      <4>1. batch'[x[1]] = << >>
          BY <1>1, <3>1
      <4>2. InBatch(g, x[1], x[2])' = 0 * Times(g, Group(x[1]))
          BY <3>1, <4>1, TimesEmpty DEF InBatch
      <4>3. Times(g, Group(x[1])) \in Nat
          BY NoteConstants
      <4>4. QED
          BY <4>2, <4>3
    <3>2. CASE x[1] \notin Batched
        BY <3>2 DEF InBatch
    <3>3. QED
        BY <3>1, <3>2
  <2>2. AllOwed(g, x[1], x[2])' = 0
    <3>1. PICK f : f = [p \in Procs |-> Owed(p, g, x[1], x[2])']
        OBVIOUS
    <3>2. \A p \in Procs : f[p] = 0
      <4>1. \A p \in Procs : proc'[p].out = << >>
          BY <1>1 DEF Idle
      <4>2. QED
          BY <1>3, <3>1, <4>1 DEF NothingFine
    <3>3. f \in [Procs -> Int] /\ \A p \in Procs : f[p] <= 0
        BY <3>1, <3>2
    <3>4. SumFunction(f) <= Cardinality(Procs) * 0
        BY <3>3, NoteConstants, SumBelow
    <3>5. Cardinality(Procs) * 0 = 0
      <4>1. Cardinality(Procs) \in Nat
          BY NoteConstants, FS_CardinalityType
      <4>2. QED
          BY <4>1
    <3>6. AllOwed(g, x[1], x[2])' = SumFunction(f)
        BY <3>1 DEF AllOwed
    <3>7. AllOwed(g, x[1], x[2])' \in Nat
        BY <1>3 DEF CopiesFine
    <3>8. QED
        BY <3>4, <3>5, <3>6, <3>7
  <2>3. /\ tries[g][x] \in Nat /\ Due(g, x) \in Nat
        /\ InBatch(g, x[1], x[2]) \in Nat /\ AllOwed(g, x[1], x[2]) \in Nat
        /\ Copies(g, x[1], x[2]) = tries[g][x] + InBatch(g, x[1], x[2]) + AllOwed(g, x[1], x[2])
        /\ Copies(g, x[1], x[2]) <= Due(g, x)
      BY <1>0 DEF CopiesFine, Conserved
  <2>4. Copies(g, x[1], x[2])'
           = tries'[g][x] + InBatch(g, x[1], x[2])' + AllOwed(g, x[1], x[2])'
      BY <1>3 DEF CopiesFine
  <2>5. Due(g, x)' = Due(g, x) /\ tries'[g][x] = tries[g][x]
      BY <1>1 DEF Due
  <2>6. crashes' # 0
      BY <1>0, <1>1 DEF NoteType
  <2>7. QED
      BY <2>1, <2>2, <2>3, <2>4, <2>5, <2>6
<1>5. QED
    BY <1>2, <1>4 DEF NoteInv, Conserved

LEMMA NoteInit == AlertInit => NoteInv
<1> SUFFICES ASSUME AlertInit
             PROVE  NoteInv
    OBVIOUS
<1>1. /\ batch = [k \in Batched |-> << >>] /\ proc = [p \in Procs |-> Idle] /\ crashes = 0
      /\ dlv = [x \in Events |-> 0] /\ tries = [g \in Members |-> [x \in Events |-> 0]]
    BY DEF AlertInit, Members
<1>2. NoteType
  <2>1. \A p \in Procs : Idle \in ProcRecords /\ Holds(p, Idle)
      BY EmptyHands DEF Idle
  <2>2. proc \in [Procs -> ProcRecords] /\ \A p \in Procs : Holds(p, proc[p])
      BY <1>1, <2>1
  <2>3. QED
      BY <1>1, <2>2 DEF NoteType
<1>3. CopiesFine /\ NothingFine
    BY <1>2, CopiesAreFine, NothingIsFine
<1>4. ASSUME NEW x \in Events, NEW g \in Members
      PROVE  Copies(g, x[1], x[2]) = 0 /\ Due(g, x) = 0
  <2>1. Times(g, Group(x[1])) \in Nat
      BY NoteConstants
  <2>2. Due(g, x) = 0
      BY <1>1, <2>1 DEF Due
  <2>3. InBatch(g, x[1], x[2]) = 0
    <3>1. x[1] \in Batched => batch[x[1]] = << >>
        BY <1>1
    <3>2. QED
        BY <2>1, <3>1, TimesEmpty DEF InBatch
  <2>4. AllOwed(g, x[1], x[2]) = 0
    <3>1. PICK f : f = [p \in Procs |-> Owed(p, g, x[1], x[2])]
        OBVIOUS
    <3>2. \A p \in Procs : f[p] = 0
      <4>1. \A p \in Procs : proc[p].out = << >>
          BY <1>1 DEF Idle
      <4>2. QED
          BY <1>3, <3>1, <4>1 DEF NothingFine
    <3>3. f \in [Procs -> Int] /\ \A p \in Procs : f[p] <= 0
        BY <3>1, <3>2
    <3>4. SumFunction(f) <= Cardinality(Procs) * 0
        BY <3>3, NoteConstants, SumBelow
    <3>5. Cardinality(Procs) * 0 = 0
      <4>1. Cardinality(Procs) \in Nat
          BY NoteConstants, FS_CardinalityType
      <4>2. QED
          BY <4>1
    <3>6. AllOwed(g, x[1], x[2]) \in Nat
        BY <1>3 DEF CopiesFine
    <3>7. QED
        BY <3>1, <3>4, <3>5, <3>6 DEF AllOwed
  <2>5. tries[g][x] = 0
      BY <1>1
  <2>6. QED
      BY <1>3, <2>2, <2>3, <2>4, <2>5 DEF CopiesFine
<1>5. QED
    BY <1>2, <1>4 DEF NoteInv, Conserved

LEMMA NoteStep == NoteInv /\ [AlertNext]_alertVars => NoteInv'
<1> SUFFICES ASSUME NoteInv, [AlertNext]_alertVars
             PROVE  NoteInv'
    OBVIOUS
<1>1. CASE NotifierStep
    BY <1>1, ReceiveStep, AppendStep, FlushStep, SendStep, TickStep DEF NotifierStep
<1>2. CASE \E i \in CommandIds :
              (\E c \in Chats, n \in CommandNames : Command(i, c, n)) \/ CommandStep(i)
  <2>1. UNCHANGED <<batch, proc, dlv, tries, crashes>>
      BY <1>2 DEF Command, CommandStep, Admit, cmdKill, cmdConfirmKill, ConfirmCheck, OtherCommand,
                  noteVars
  <2>2. QED
      BY <2>1, NoteKeeps
<1>3. CASE ClockTick
    BY <1>3, NoteKeeps DEF ClockTick, noteVars
<1>4. CASE Restart
    BY <1>4, RestartStep
<1>5. CASE UNCHANGED alertVars
    BY <1>5, NoteKeeps DEF alertVars, noteVars
<1>6. QED
    BY <1>1, <1>2, <1>3, <1>4, <1>5 DEF AlertNext

\* Whatever handlers, flushes of a full batch and the ticker do at the same time,
\* and however often the bus delivers an event again, every delivery is brought to
\* each chat of its group once for each time the group lists it, and only a restart
\* loses some (handleProposed, handleDenied, flushProposed, flushDenied, broadcastTo).
THEOREM DeliveriesAnnounced == AlertSpec => []DeliveriesConserved
<1>1. NoteInv => DeliveriesConserved
  <2> SUFFICES ASSUME NoteInv, NEW x \in Events, NEW g \in Range(Group(x[1]))
               PROVE  /\ Copies(g, x[1], x[2]) <= dlv[x] * Times(g, Group(x[1]))
                      /\ crashes = 0 => Copies(g, x[1], x[2]) = dlv[x] * Times(g, Group(x[1]))
      BY DEF DeliveriesConserved
  <2>1. g \in Members
      BY DEF Group, Members
  <2>2. QED
      BY <2>1 DEF NoteInv, Conserved, Due
<1>2. QED
    BY <1>1, NoteInit, NoteStep, PTL DEF AlertSpec
=============================================================================
