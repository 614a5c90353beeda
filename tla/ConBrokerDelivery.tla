------------------------- MODULE ConBrokerDelivery -------------------------
(***************************************************************************)
(* The messages on their way, proved for every instance of ConBroker: what *)
(* of their order a connection can rely on, and that a session keeps what  *)
(* it has taken until it is written.                                       *)
(*                                                                         *)
(* OrderInv says why the order holds: a publisher is at its latest packet  *)
(* while it delivers, and nobody delivers to a connection before its hook  *)
(* is set, which is after the replay.  KeepInv says where a message that a *)
(* session owes can be, in the session's offline queue or with a           *)
(* connection that owns the session, and why a queue that is closed while  *)
(* a session still has it is that of a clean session (CleanInv).           *)
(***************************************************************************)
EXTENDS ConBrokerClosing

(* Two messages that may follow each other. *)
Fits(x, y) ==
  /\ x.kind = "live" => y.kind # "replay"
  /\ x.kind = "live" /\ y.kind = "live" /\ x.src = y.src => x.n <= y.n
Ordered(q) == \A i, j \in DOMAIN q : i < j => Fits(q[i], q[j])
Elements(q) == {q[i] : i \in DOMAIN q}

(* A reader that has a message to publish. *)
Speaking(p) ==
  \/ pc[p] \in {"retain", "match", "deliver", "write", "send"}
  \/ pc[p] = "flush" /\ loc[p].then \in {"retain", "match"}
Spoken(p, m) == m.kind = "will" \/ (m.kind = "live" /\ m.src = p /\ m.n = sent[p])

(* A connection that no session writes to yet. *)
Unheard(c) == ~conn[c].connected /\ pc[c] # "finish"

LatestInv == \A p \in Conns : Speaking(p) => Spoken(p, loc[p].msg)
SentInv == \A c \in Conns : \A m \in Elements(Trail(c)) : m.kind = "live" => m.n <= sent[m.src]
UnheardInv == \A c \in Conns : Unheard(c) =>
  /\ \A s \in Conns : sess[s].onWrite # c
  /\ \A m \in Elements(Trail(c)) : m.kind # "live"
OutInv == \A c \in Conns :
  /\ loc[c].out # <<>> => pc[c] = "flush"
  /\ \A m \in Elements(loc[c].out) : m.kind # "live" /\ (m.kind = "replay" => loc[c].then = "hookDisconnect")
HandInv == \A c \in Conns : wpc[c] \notin {"handle", "offline"} => hand[c] = None

OrderInv ==
  /\ LatestInv /\ SentInv /\ UnheardInv /\ OutInv /\ HandInv
  /\ \A c \in Conns : Ordered(Trail(c))

(* A message that bears a number is a publication. *)
Sound(m) == m.n > 0 => IsPublish(m)
SoundInv ==
  /\ \A c \in Conns : /\ \A m \in Elements(queue[c]) : Sound(m)
                      /\ \A m \in Elements(loc[c].out) : Sound(m)
                      /\ hand[c] # None => Sound(hand[c])
                      /\ loc[c].msg # None => Sound(loc[c].msg)
  /\ \A s \in Conns : \A m \in Elements(sess[s].offlineQueue) : Sound(m)
  /\ \A t \in Topics : retained[t] # None => Sound(retained[t])

(* A session that is written to has been created, and is not created again; it
   keeps its hook while a message waits for the connection's queue. *)
SettledInv ==
  /\ \A s \in Conns : sess[s].offlineQueue # <<>> => Born(s)
  /\ \A c \in Conns : pc[c] \in {"write", "send"} => Born(loc[c].cur)
  /\ \A c \in Conns : pc[c] = "send" => sess[loc[c].cur].onWrite # None

(* On the way from the end of the cleanup to the close of the queue only a clean
   session is still with its connection: the range over the queue of another
   one does not end before. *)
Ending(c) == pc[c] \in {"mark", "signal", "wait", "unsubscribe", "closeQueue"}
Lets(o) == Session(o) = None \/ conn[o].cleanSession \/ ~open[o]
CleanInv ==
  /\ \A c \in Conns : conn[c].cleanSession => conn[c].connected
  /\ \A c \in Conns : Ending(c) => Lets(at[c])

(* Where the message of a receipt is. *)
Has(q, a) == \E m \in Elements(q) : m.src = a.src /\ m.n = a.n
With(c, a) ==
  \/ open[c] /\ Has(queue[c], a)
  \/ Has(loc[c].out, a)
  \/ hand[c] # None /\ hand[c].src = a.src /\ hand[c].n = a.n
Held(a) ==
  \/ Has(sess[a.session].offlineQueue, a)
  \/ \E c \in Conns : Session(c) = a.session /\ With(c, a)
  \/ \E c \in Conns : pc[c] = "push" /\ Session(at[c]) = a.session
                      /\ loc[c].msg.src = a.src /\ loc[c].msg.n = a.n
HeldInv == \A a \in accepted : a.session \in Conns /\ (a.n > 0 => Held(a))

KeepInv == SoundInv /\ SettledInv /\ CleanInv /\ HeldInv

-----------------------------------------------------------------------------
(* Sequences of messages. *)

(* The messages of a sequence that grows or is read. *)
LEMMA ElementsOf ==
  /\ Elements(<<>>) = {}
  /\ \A m : Elements(<<m>>) = {m}
  /\ \A q \in Seq(Item) : Elements(q) \subseteq Item
  /\ \A q \in Seq(Item), m \in Item : Elements(Append(q, m)) = Elements(q) \cup {m}
  /\ \A q \in Seq(Item) : q # <<>> =>
       Head(q) \in Item /\ Tail(q) \in Seq(Item) /\ Elements(q) = {Head(q)} \cup Elements(Tail(q))
<1>1. Elements(<<>>) = {} /\ \A m : Elements(<<m>>) = {m}
  BY DEF Elements
<1>2. \A q \in Seq(Item) : Elements(q) \subseteq Item
  BY DEF Elements
<1>3. ASSUME NEW q \in Seq(Item), NEW m \in Item
      PROVE  Elements(Append(q, m)) = Elements(q) \cup {m}
  <2>1. /\ DOMAIN Append(q, m) = 1 .. Len(q) + 1 /\ DOMAIN q = 1 .. Len(q) /\ Len(q) \in Nat
        /\ Append(q, m)[Len(q) + 1] = m
        /\ \A i \in DOMAIN q : Append(q, m)[i] = q[i]
    OBVIOUS
  <2>2. \A i \in DOMAIN Append(q, m) : i \in DOMAIN q \/ i = Len(q) + 1
    BY <2>1
  <2>3. \A x \in Elements(Append(q, m)) : x \in Elements(q) \/ x = m
    BY <2>1, <2>2 DEF Elements
  <2>4. \A x \in Elements(q) : x \in Elements(Append(q, m))
    BY <2>1 DEF Elements
  <2>5. m \in Elements(Append(q, m))
    BY <2>1 DEF Elements
  <2> QED BY <2>3, <2>4, <2>5
<1>4. ASSUME NEW q \in Seq(Item), q # <<>>
      PROVE  /\ Head(q) \in Item /\ Tail(q) \in Seq(Item)
             /\ Elements(q) = {Head(q)} \cup Elements(Tail(q))
  <2>1. Head(q) \in Item /\ Tail(q) \in Seq(Item)
    BY <1>4
  <2>2. /\ Head(q) = q[1] /\ DOMAIN q = 1 .. Len(q) /\ Len(q) \in Nat \ {0}
        /\ DOMAIN Tail(q) = 1 .. Len(q) - 1
        /\ \A i \in 1 .. Len(q) - 1 : Tail(q)[i] = q[i + 1]
    BY <1>4
  <2>3. ASSUME NEW i \in DOMAIN q PROVE q[i] \in {Head(q)} \cup Elements(Tail(q))
    <3>1. CASE i = 1
      BY <2>2, <3>1
    <3>2. CASE i # 1
      <4>1. i - 1 \in DOMAIN Tail(q) /\ Tail(q)[i - 1] = q[i]
        BY <2>2, <3>2
      <4> QED BY <4>1 DEF Elements
    <3> QED BY <3>1, <3>2
  <2>4. ASSUME NEW i \in DOMAIN Tail(q) PROVE Tail(q)[i] \in Elements(q)
    <3>1. i + 1 \in DOMAIN q /\ Tail(q)[i] = q[i + 1]
      BY <2>2
    <3> QED BY <3>1 DEF Elements
  <2>5. Head(q) \in Elements(q)
    BY <2>2 DEF Elements
  <2>6. Elements(q) \subseteq {Head(q)} \cup Elements(Tail(q))
    BY <2>3 DEF Elements
  <2>7. Elements(Tail(q)) \subseteq Elements(q)
    BY <2>4 DEF Elements
  <2> QED BY <2>1, <2>5, <2>6, <2>7
<1> QED BY <1>1, <1>2, <1>3, <1>4

(* Two sequences in order, one after the other. *)
LEMMA OrderedConcat ==
  ASSUME NEW s \in Seq(Item), NEW t \in Seq(Item)
  PROVE  /\ s \o t \in Seq(Item)
         /\ Elements(s \o t) = Elements(s) \cup Elements(t)
         /\ Ordered(s \o t) <=> /\ Ordered(s) /\ Ordered(t)
                                /\ \A x \in Elements(s), y \in Elements(t) : Fits(x, y)
<1> DEFINE q == s \o t
<1>1. /\ q \in Seq(Item) /\ Len(q) = Len(s) + Len(t) /\ Len(s) \in Nat /\ Len(t) \in Nat
      /\ DOMAIN q = 1 .. Len(s) + Len(t) /\ DOMAIN s = 1 .. Len(s) /\ DOMAIN t = 1 .. Len(t)
      /\ \A i \in 1 .. Len(s) + Len(t) : q[i] = IF i <= Len(s) THEN s[i] ELSE t[i - Len(s)]
  OBVIOUS
<1> HIDE DEF q
<1>2. \A i \in DOMAIN s : i \in DOMAIN q /\ q[i] = s[i]
  BY <1>1
<1>3. \A i \in DOMAIN t : i + Len(s) \in DOMAIN q /\ q[i + Len(s)] = t[i]
  BY <1>1
<1>4. \A i \in DOMAIN q : \/ i \in DOMAIN s /\ q[i] = s[i]
                          \/ i - Len(s) \in DOMAIN t /\ q[i] = t[i - Len(s)]
  BY <1>1
<1>5. Elements(q) = Elements(s) \cup Elements(t)
  <2>1. Elements(q) \subseteq Elements(s) \cup Elements(t)
    BY <1>4 DEF Elements
  <2>2. Elements(s) \subseteq Elements(q)
    BY <1>2 DEF Elements
  <2>3. Elements(t) \subseteq Elements(q)
    BY <1>3 DEF Elements
  <2> QED BY <2>1, <2>2, <2>3
<1>6. ASSUME Ordered(q)
      PROVE  /\ Ordered(s) /\ Ordered(t)
             /\ \A x \in Elements(s), y \in Elements(t) : Fits(x, y)
  <2>1. \A i, j \in DOMAIN q : i < j => Fits(q[i], q[j])
    BY <1>6 DEF Ordered
  <2>2. \A i, j \in DOMAIN s : i < j => Fits(s[i], s[j])
    BY <1>2, <2>1
  <2>3. ASSUME NEW i \in DOMAIN t, NEW j \in DOMAIN t, i < j
        PROVE  Fits(t[i], t[j])
    <3>1. i + Len(s) < j + Len(s)
      BY <1>1, <2>3
    <3> QED BY <1>3, <2>1, <3>1
  <2>4. ASSUME NEW i \in DOMAIN s, NEW j \in DOMAIN t
        PROVE  Fits(s[i], t[j])
    <3>1. i < j + Len(s)
      BY <1>1
    <3> QED BY <1>2, <1>3, <2>1, <3>1
  <2> QED BY <2>2, <2>3, <2>4 DEF Ordered, Elements
<1>7. ASSUME Ordered(s), Ordered(t), \A x \in Elements(s), y \in Elements(t) : Fits(x, y)
      PROVE  Ordered(q)
  <2> SUFFICES ASSUME NEW i \in DOMAIN q, NEW j \in DOMAIN q, i < j
               PROVE  Fits(q[i], q[j])
    BY DEF Ordered
  <2>1. CASE i \in DOMAIN s /\ j \in DOMAIN s
    BY <1>2, <1>7, <2>1 DEF Ordered
  <2>2. CASE i \in DOMAIN s /\ j \notin DOMAIN s
    <3>1. q[i] \in Elements(s) /\ q[j] \in Elements(t)
      BY <1>2, <1>4, <2>2 DEF Elements
    <3> QED BY <1>7, <3>1
  <2>3. CASE i \notin DOMAIN s
    <3>1. j \notin DOMAIN s
      BY <1>1, <2>3
    <3>2. /\ i - Len(s) \in DOMAIN t /\ q[i] = t[i - Len(s)]
          /\ j - Len(s) \in DOMAIN t /\ q[j] = t[j - Len(s)]
      BY <1>4, <2>3, <3>1
    <3>3. i - Len(s) < j - Len(s)
      BY <1>1
    <3> QED BY <1>7, <3>2, <3>3 DEF Ordered
  <2> QED BY <2>1, <2>2, <2>3
<1> QED BY <1>1, <1>5, <1>6, <1>7 DEF q

(* Changing the kind of the publications among some messages. *)
LEMMA ElementsAs ==
  ASSUME NEW kind, NEW q, NEW m \in Elements(As(kind, q))
  PROVE  \E x \in Elements(q) : m = IF IsPublish(x) THEN [x EXCEPT !.kind = kind] ELSE x
<1>1. DOMAIN As(kind, q) = DOMAIN q
  BY DEF As
<1>2. PICK i \in DOMAIN q : m = As(kind, q)[i]
  BY <1>1 DEF Elements
<1>3. q[i] \in Elements(q)
  BY DEF Elements
<1> QED BY <1>2, <1>3 DEF As

-----------------------------------------------------------------------------
(* What each action leaves alone. *)
HandlesPublish(c) == \E p \in Publishes[c] : Publish(c, p)
OfflineKept == \A s \in Conns : sess'[s].offlineQueue = sess[s].offlineQueue
StoreFrame(c) ==
  /\ queue' = queue \/ Take(c) \/ Drain(c) \/ Flush(c) \/ Send(c) \/ Ping(c)
  /\ UNCHANGED <<wpc, hand, wire>> \/ Signal(c) \/ Writer(c) \/ Kick(c)
  /\ open' = open \/ CloseQueue(c)
  /\ \/ accepted' = accepted \/ Write(c) \/ Send(c) \/ Push(c) \/ Offline(c)
     \/ Handle(c) \/ CloseQueue(c)
  /\ retained' = retained \/ Retain(c)
OfflineFrame(c) == OfflineKept \/ Write(c) \/ Push(c) \/ Offline(c) \/ Replay(c) \/ Create(c)
SentFrame(c) ==
  \/ sent' = sent
  \/ pc[c] = "read" /\ sent' = [sent EXCEPT ![c] = @ + 1]

(* Which steps move messages. *)
LEMMA StoreStep ==
  ASSUME NEW c \in Conns, Moves(c)
  PROVE  StoreFrame(c)
<1> USE DEF StoreFrame, queueVars, writerVars, ghostVars, topicVars
<1>1. CASE Packet(c)
  BY <1>1 DEF Packet, Connect, Publish, Subscribe, UnSubscribe, Acknowledge, Disconnect, Drop
<1>2. CASE Flush(c) \/ Check(c)
  BY <1>2 DEF Flush, Check
<1>3. CASE Connecting(c)
  BY <1>3 DEF Connecting, DoDisconnect, Create, Replay, HookDisconnect, HookWrite, Finish
<1>4. CASE Subscribing(c) \/ Publishing(c)
  <2>1. CASE Insert(c) \/ AddTopic(c) \/ FetchRetained(c) \/ RemoveTopic(c) \/ Match(c) \/ Deliver(c)
    BY <2>1 DEF Insert, AddTopic, FetchRetained, RemoveTopic, Match, Deliver
  <2>2. CASE Retain(c)
    BY <2>2 DEF Retain
  <2>3. CASE Write(c)
    BY <2>3 DEF Write
  <2>4. CASE Send(c)
    BY <2>4 DEF Send
  <2> QED BY <1>4, <2>1, <2>2, <2>3, <2>4 DEF Subscribing, Publishing
<1>5. CASE Closing(c)
  <2>1. CASE Unhook(c) \/ Forget(c) \/ Close(c) \/ Closed(c) \/ Cleanup(c) \/ Mark(c)
    BY <2>1 DEF Unhook, Forget, Close, Closed, Cleanup, Mark
  <2>2. CASE Wait(c) \/ Unsubscribe(c) \/ CloseQueue(c) \/ OffDisconnect(c) \/ OffWrite(c)
    BY <2>2 DEF Wait, Unsubscribe, CloseQueue, OffDisconnect, OffWrite
  <2>3. CASE Signal(c)
    BY <2>3 DEF Signal
  <2>4. CASE Drain(c) \/ Push(c)
    BY <2>4 DEF Drain, Push
  <2> QED BY <1>5, <2>1, <2>2, <2>3, <2>4 DEF Closing
<1>6. CASE Writer(c) \/ Kick(c)
  BY <1>6 DEF Writer, Take, Handle, Offline, Ping, Gone, Kick
<1> QED
  BY <1>1, <1>2, <1>3, <1>4, <1>5, <1>6 DEF Moves, Reader

(* The operations of sessions that leave the offline queues alone. *)
LEMMA OfflineOps ==
  ASSUME SessionType(Item), NEW s
  PROVE  /\ \A c : WithOnDisconnect(s, c) \/ WithOnWrite(s, c) \/ Acquire(s, c) => OfflineKept
         /\ \A i : WithClientID(s, i) \/ Remove(i) => OfflineKept
         /\ \A t : AddTopics(s, t) \/ RemoveTopics(s, t) => OfflineKept
         /\ Release(s) => OfflineKept
         /\ UNCHANGED sessionVars => OfflineKept
<1> USE DEF SessionType, SessionRecord, OfflineKept
<1>1. \A c : WithOnDisconnect(s, c) => OfflineKept
  BY DEF WithOnDisconnect
<1>2. \A c : WithOnWrite(s, c) => OfflineKept
  BY DEF WithOnWrite
<1>3. \A i : WithClientID(s, i) => OfflineKept
  BY DEF WithClientID
<1>4. \A t : AddTopics(s, t) => OfflineKept
  BY DEF AddTopics
<1>5. \A t : RemoveTopics(s, t) => OfflineKept
  BY DEF RemoveTopics
<1>6. /\ \A c : Acquire(s, c) => OfflineKept
      /\ \A i : Remove(i) => OfflineKept
      /\ Release(s) => OfflineKept
      /\ UNCHANGED sessionVars => OfflineKept
  BY DEF Acquire, Remove, Release, sessionVars
<1> QED BY <1>1, <1>2, <1>3, <1>4, <1>5, <1>6

(* Which steps change an offline queue. *)
LEMMA OfflineStep ==
  ASSUME TypeOK, LocalInv, SharedInv, NEW c \in Conns, Moves(c)
  PROVE  OfflineFrame(c)
<1> SUFFICES ASSUME SessionType(Item) PROVE OfflineFrame(c)
  BY DEF TypeOK
<1> USE DEF OfflineFrame
<1>1. CASE Packet(c)
  BY <1>1, OfflineOps DEF Packet, Connect, Publish, Subscribe, UnSubscribe, Acknowledge, Disconnect, Drop
<1>2. CASE Flush(c) \/ Check(c)
  BY <1>2, OfflineOps DEF Flush, Check
<1>3. CASE Connecting(c)
  BY <1>3, OfflineOps DEF Connecting, DoDisconnect, HookDisconnect, HookWrite, Finish
<1>4. CASE Subscribing(c)
  BY <1>4, OfflineOps DEF Subscribing, Insert, AddTopic, FetchRetained, RemoveTopic
<1>5. CASE Publishing(c)
  BY <1>5, OfflineOps DEF Publishing, Retain, Match, Deliver, Send
<1>6. CASE Closing(c)
  BY <1>6, OfflineOps, OwnClose DEF Closing, Unhook, Forget, Close, Closed, Cleanup, Drain,
              Mark, Signal, Wait, Unsubscribe, CloseQueue, OffDisconnect, OffWrite
<1>7. CASE Writer(c) \/ Kick(c)
  BY <1>7, OfflineOps DEF Writer, Take, Handle, Ping, Gone, Kick
<1> QED
  BY <1>1, <1>2, <1>3, <1>4, <1>5, <1>6, <1>7 DEF Moves, Reader

(* Only a packet's arrival counts. *)
LEMMA SentStep ==
  ASSUME HistoryType, NEW c \in Conns, Moves(c)
  PROVE  SentFrame(c)
<1> USE DEF SentFrame, HistoryType
<1>1. CASE Packet(c)
  BY <1>1 DEF Packet, Connect, Publish, Subscribe, UnSubscribe, Acknowledge, Disconnect, Drop, Reading
<1>2. CASE Flush(c) \/ Check(c) \/ Connecting(c)
  BY <1>2 DEF Flush, Check, Connecting, DoDisconnect, Create, Replay, HookDisconnect, HookWrite, Finish
<1>3. CASE Subscribing(c) \/ Publishing(c)
  BY <1>3 DEF Subscribing, Insert, AddTopic, FetchRetained, RemoveTopic,
              Publishing, Retain, Match, Deliver, Write, Send
<1>4. CASE Closing(c)
  BY <1>4 DEF Closing, Unhook, Forget, Close, Closed, Cleanup, Drain, Push, Mark, Signal, Wait,
              Unsubscribe, CloseQueue, OffDisconnect, OffWrite
<1>5. CASE Writer(c) \/ Kick(c)
  BY <1>5 DEF Writer, Take, Handle, Offline, Ping, Gone, Kick
<1> QED
  BY <1>1, <1>2, <1>3, <1>4, <1>5 DEF Moves, Reader

-----------------------------------------------------------------------------
(* What a handler has yet to write, and what it publishes. *)
OutFrame(c) ==
  \/ loc'[c].out = <<>>
  \/ pc'[c] = pc[c] /\ loc'[c] = loc[c]
  \/ Flush(c) \/ Replay(c) \/ FetchRetained(c)
  \/ pc'[c] = "flush" /\ \E kind \in {"ack", "connack", "suback"} : loc'[c].out = <<Own(kind, c)>>
SpeakFrame(c) ==
  Speaking(c)' => \/ HandlesPublish(c) \/ Close(c)
                  \/ Speaking(c) /\ loc'[c].msg = loc[c].msg /\ sent'[c] = sent[c]

(* OutFrame, for every step: what goes out behind the reader's back is its
   own, or retained or queued messages. *)
LEMMA OutStep ==
  ASSUME ReaderType, OutInv, NEW c \in Conns, Moves(c)
  PROVE  OutFrame(c)
<1> DEFINE Replied == \E kind \in {"ack", "connack", "suback"} : loc'[c].out = <<Own(kind, c)>>
<1> USE DEF OutFrame, ReaderType, LocalType
<1>1. \A kind \in {"ack", "connack", "suback"} : Reply(c, <<Own(kind, c)>>, "check") => pc'[c] = "flush" /\ Replied
  <2> SUFFICES ASSUME NEW kind \in {"ack", "connack", "suback"}, Reply(c, <<Own(kind, c)>>, "check")
               PROVE  pc'[c] = "flush" /\ Replied
    OBVIOUS
  <2>1. <<Own(kind, c)>> # <<>>
    OBVIOUS
  <2> QED BY <2>1, ReplyAt, ZenonT(30)
<1>2. pc[c] # "flush" => loc[c].out = <<>>
  BY DEF OutInv
<1>3. CASE Packet(c)
  <2>1. pc[c] = "read"
    BY <1>3 DEF Packet, Connect, Publish, Subscribe, UnSubscribe, Acknowledge, Disconnect, Drop, Reading, Step
  <2>2. ASSUME NEW p \in Publishes[c], Publish(c, p)
        PROVE  loc'[c].out = <<>> \/ (pc'[c] = "flush" /\ Replied)
    <3>1. loc'[c].out = (IF p.qos > 0 THEN <<Own("ack", c)>> ELSE <<>>)
      BY <2>2 DEF Publish
    <3>2. p.qos > 0 => pc'[c] = "flush"
      <4>1. <<Own("ack", c)>> # <<>>
        OBVIOUS
      <4> QED BY <2>2, <4>1 DEF Publish, Go, Then
    <3> QED BY <3>1, <3>2
  <2>3. ASSUME NEW p \in Connects[c], NEW ok \in AuthResults, Connect(c, p, ok)
        PROVE  loc'[c].out = loc[c].out \/ (pc'[c] = "flush" /\ Replied)
    BY <1>1, <2>3, ZenonT(30) DEF Connect
  <2>4. CASE \E t \in Subscribes[c] : Subscribe(c, t)
    BY <1>2, <2>1, <2>4 DEF Subscribe
  <2>5. ASSUME NEW t \in Unsubscribes[c], UnSubscribe(c, t)
        PROVE  loc'[c].out = loc[c].out \/ (pc'[c] = "flush" /\ Replied)
    BY <1>1, <2>5 DEF UnSubscribe
  <2>6. CASE Acknowledge(c)
    BY <1>1, <2>6 DEF Acknowledge
  <2>7. CASE Disconnect(c) \/ Drop(c)
    BY <1>2, <2>1, <2>7 DEF Disconnect, Drop
  <2> QED BY <1>2, <1>3, <2>1, <2>2, <2>3, <2>4, <2>5, <2>6, <2>7 DEF Packet
<1>4. CASE Check(c)
  BY <1>4 DEF Check, Idle
<1>5. CASE Connecting(c) /\ ~Replay(c)
  <2>1. CASE Finish(c)
    BY <1>1, <2>1 DEF Finish, Welcome
  <2>2. CASE ~Finish(c)
    BY <1>2, <1>5, <2>2 DEF Connecting, DoDisconnect, Create, HookDisconnect, HookWrite, Step
  <2> QED BY <2>1, <2>2
<1>6. CASE Subscribing(c) /\ ~FetchRetained(c)
  <2>1. CASE Insert(c)
    <3>1. pc[c] = "insert"
      BY <2>1 DEF Insert
    <3>2. CASE Reply(c, <<Own("suback", c)>>, "check")
      BY <1>1, <3>2
    <3>3. CASE loc' = loc
      BY <1>2, <3>1, <3>3
    <3> QED BY <2>1, <3>2, <3>3 DEF Insert
  <2>2. CASE AddTopic(c) \/ RemoveTopic(c)
    BY <1>1, <1>2, <2>2 DEF AddTopic, RemoveTopic, Step
  <2> QED BY <1>6, <2>1, <2>2 DEF Subscribing
<1>7. CASE Publishing(c)
  BY <1>2, <1>7, ZenonT(30) DEF Publishing, Retain, Match, Deliver, Write, Send, Step
<1>8. CASE Closing(c)
  <2>1. pc[c] # "flush"
    BY <1>8 DEF Closing, Unhook, Forget, Close, Closed, Cleanup, Drain, Push, Mark, Signal, Wait,
                Unsubscribe, CloseQueue, OffDisconnect, OffWrite, Step
  <2>2. CASE Close(c)
    <3>1. loc' = loc \/ loc'[c] = [loc[c] EXCEPT !.msg = Own("will", at[c]), !.topic = conn[at[c]].will]
      BY <2>2 DEF Close
    <3> QED BY <1>2, <2>1, <3>1
  <2>3. CASE ~Close(c)
    BY <1>2, <1>8, <2>1, <2>3 DEF Closing, Unhook, Forget, Closed, Cleanup, Drain, Push, Mark, Signal,
                Wait, Unsubscribe, CloseQueue, OffDisconnect, OffWrite
  <2> QED BY <2>2, <2>3
<1>9. CASE Writer(c) \/ Kick(c)
  BY <1>9 DEF Writer, Take, Handle, Offline, Ping, Gone, Kick
<1> QED
  BY <1>3, <1>4, <1>5, <1>6, <1>7, <1>8, <1>9 DEF Moves, Reader, Connecting, Subscribing

(* SpeakFrame, for every step. *)
LEMMA SpeakStep ==
  ASSUME ReaderType, LocalInv, HistoryType, NEW c \in Conns, Moves(c)
  PROVE  SpeakFrame(c)
<1> USE DEF SpeakFrame, Speaking, ReaderType, LocalType
<1>1. \A out, then : Reply(c, out, then) => loc'[c].then = then /\ pc'[c] \in {then, "flush"}
  BY ReplyAt
<1>2. CASE Packet(c) /\ ~HandlesPublish(c)
  <2>1. CASE HandlesConnect(c)
    <3>1. \/ pc'[c] \in {"check", "create", "disconnect"}
          \/ pc'[c] = "flush" /\ loc'[c].then = "check"
      BY <1>1, <2>1 DEF HandlesConnect, Connect, Go
    <3> QED BY <3>1
  <2>2. CASE \E t \in Subscribes[c] : Subscribe(c, t)
    BY <2>2 DEF Subscribe, Go
  <2>3. CASE \E t \in Unsubscribes[c] : UnSubscribe(c, t)
    BY <1>1, <2>3 DEF UnSubscribe, Go
  <2>4. CASE Acknowledge(c)
    BY <1>1, <2>4 DEF Acknowledge
  <2>5. CASE Disconnect(c) \/ Drop(c)
    BY <2>5 DEF Disconnect, Drop, Step, Go
  <2> QED BY <1>2, <2>1, <2>2, <2>3, <2>4, <2>5 DEF Packet, HandlesPublish, HandlesConnect
<1>3. CASE Flush(c)
  <2>1. sent' = sent /\ pc[c] = "flush"
    BY <1>3 DEF Flush
  <2>2. CASE loc' = loc /\ pc' = pc
    BY <2>1, <2>2
  <2>3. CASE Reply(c, Tail(loc[c].out), loc[c].then)
    <3>1. loc'[c].msg = loc[c].msg /\ loc'[c].then = loc[c].then /\ pc'[c] \in {loc[c].then, "flush"}
      BY <2>3, ReplyAt
    <3>2. loc[c].then \in {"check", "hookDisconnect", "retain", "match"}
      BY <2>1 DEF LocalInv, ReaderAt
    <3> QED BY <2>1, <3>1, <3>2
  <2> QED BY <1>3, <2>2, <2>3 DEF Flush
<1>4. CASE Check(c)
  BY <1>4 DEF Check, Go
<1>5. CASE Connecting(c)
  <2>1. \/ pc'[c] \in {"create", "close", "hookDisconnect", "replay", "hookWrite", "finish", "check"}
        \/ pc'[c] = "flush" /\ loc'[c].then \in {"check", "hookDisconnect"}
    <3>1. CASE DoDisconnect(c)
      BY <3>1 DEF DoDisconnect, AfterDisconnect, Adopt, Go
    <3>2. CASE Create(c)
      BY <3>2 DEF Create, Adopt, Go
    <3>3. CASE Replay(c)
      BY <1>1, <3>3 DEF Replay
    <3>4. CASE Finish(c)
      BY <1>1, <3>4 DEF Finish
    <3>5. CASE HookDisconnect(c) \/ HookWrite(c)
      BY <3>5 DEF HookDisconnect, HookWrite, Step, Go
    <3> QED BY <1>5, <3>1, <3>2, <3>3, <3>4, <3>5 DEF Connecting
  <2> QED BY <2>1
<1>6. CASE Subscribing(c)
  <2>1. CASE Insert(c)
    <3>1. CASE Reply(c, <<Own("suback", c)>>, "check")
      BY <1>1, <3>1
    <3>2. CASE Go(c, "addTopics")
      BY <3>2 DEF Go
    <3> QED BY <2>1, <3>1, <3>2 DEF Insert
  <2>2. CASE AddTopic(c) \/ FetchRetained(c) \/ RemoveTopic(c)
    BY <1>1, <2>2 DEF AddTopic, FetchRetained, RemoveTopic, Step, Go
  <2> QED BY <1>6, <2>1, <2>2 DEF Subscribing
<1>7. CASE Publishing(c)
  BY <1>7, ZenonT(30) DEF Publishing, Retain, Match, Deliver, Write, Send, Step
<1>8. CASE Closing(c) /\ ~Close(c)
  <2>1. CASE Closed(c)
    BY <2>1 DEF Closed, AfterDisconnect, Adopt, Go
  <2>2. CASE Unhook(c) \/ Forget(c) \/ Cleanup(c) \/ Mark(c) \/ Signal(c) \/ Wait(c)
    BY <2>2 DEF Unhook, Forget, Cleanup, Mark, Signal, Wait, Step, Go
  <2>3. CASE Drain(c) \/ Push(c)
    BY <2>3 DEF Drain, Push, Step, Go
  <2>4. CASE Unsubscribe(c) \/ CloseQueue(c) \/ OffDisconnect(c) \/ OffWrite(c)
    BY <2>4 DEF Unsubscribe, CloseQueue, OffDisconnect, OffWrite, Step, Go
  <2> QED BY <1>8, <2>1, <2>2, <2>3, <2>4 DEF Closing
<1>9. CASE Writer(c) \/ Kick(c)
  BY <1>9 DEF Writer, Take, Handle, Offline, Ping, Gone, Kick
<1> QED
  BY <1>2, <1>3, <1>4, <1>5, <1>6, <1>7, <1>8, <1>9 DEF Moves, Reader

-----------------------------------------------------------------------------
(* The steps of the invariant's parts. *)
LEMMA LatestStep ==
  ASSUME TypeOK, Inv, LatestInv, NEW c \in Conns, Moves(c)
  PROVE  LatestInv'
<1>1. ReaderType /\ LocalInv /\ HistoryType
  BY DEF TypeOK, Inv
<1>2. OnlyReader(c) /\ SpeakFrame(c) /\ SentFrame(c)
  BY <1>1, StepIsLocal, SpeakStep, SentStep DEF Moves
<1>3. ASSUME NEW p \in Conns \ {c}, Speaking(p)'
      PROVE  Spoken(p, loc[p].msg)'
  BY <1>1, <1>2, <1>3 DEF OnlyReader, SentFrame, HistoryType, LatestInv, Speaking, Spoken
<1>4. ASSUME Speaking(c)'
      PROVE  Spoken(c, loc[c].msg)'
  <2>1. CASE HandlesPublish(c)
    <3>1. PICK p \in Publishes[c] : Publish(c, p)
      BY <2>1 DEF HandlesPublish
    <3>2. loc'[c].msg = [kind |-> "live", src |-> c, n |-> sent[c] + 1]
      BY <1>1, <3>1 DEF Publish, ReaderType, LocalType
    <3>3. sent'[c] = sent[c] + 1
      BY <1>1, <3>1 DEF Publish, Reading, HistoryType
    <3> QED BY <3>2, <3>3 DEF Spoken
  <2>2. CASE Close(c)
    <3>1. pc'[c] = "match"
      BY <1>1, <1>4, <2>2 DEF Speaking, Close, Go, ReaderType
    <3>2. loc' = [loc EXCEPT ![c] = [@ EXCEPT !.msg = Own("will", at[c]), !.topic = conn[at[c]].will]]
      BY <1>1, <2>2, <3>1 DEF Close, Go, ReaderType
    <3>3. loc'[c].msg = Own("will", at[c])
      BY <1>1, <3>2 DEF ReaderType, LocalType
    <3> QED BY <3>3 DEF Spoken, Own
  <2>3. CASE Speaking(c) /\ loc'[c].msg = loc[c].msg /\ sent'[c] = sent[c]
    BY <2>3 DEF LatestInv, Spoken
  <2> QED BY <1>2, <1>4, <2>1, <2>2, <2>3 DEF SpeakFrame
<1> QED BY <1>3, <1>4 DEF LatestInv

Recast(kind, x) == IF IsPublish(x) THEN [x EXCEPT !.kind = kind] ELSE x

(* A message recast is a message of the same origin. *)
LEMMA RecastOf ==
  ASSUME NEW x \in Item
  PROVE  /\ Recast("replay", x).src = x.src /\ Recast("replay", x).n = x.n
         /\ Recast("replay", x).kind # "live"
         /\ Sound(x) => Sound(Recast("replay", x))
  BY DEF Recast, IsPublish, Item, Sound

(* What a handler has yet to write, and where it comes from. *)
OutSource(c, m) ==
  \/ m \in Elements(loc[c].out) /\ loc'[c].then = loc[c].then
  \/ /\ Replay(c) /\ loc'[c].then = "hookDisconnect"
     /\ \E x \in Elements(sess[Session(c)].offlineQueue) : m = Recast("replay", x)
  \/ m.kind \notin {"live", "replay"} /\ m.n = 0

(* OutSource, for every message that goes out. *)
LEMMA OutContents ==
  ASSUME TypeOK, Inv, OutInv, NEW c \in Conns, Moves(c), loc'[c].out # <<>>
  PROVE  pc'[c] = "flush" /\ \A m \in Elements(loc'[c].out) : OutSource(c, m)
<1>1. ReaderType /\ ConnType /\ TopicType /\ SessionType(Item) /\ LocalInv /\ SharedInv
  BY DEF TypeOK, Inv
<1>2. OutFrame(c)
  BY <1>1, OutStep
<1>3. loc[c].out # <<>> => pc[c] = "flush"
  BY DEF OutInv
<1>4. CASE pc'[c] = pc[c] /\ loc'[c] = loc[c]
  BY <1>3, <1>4 DEF OutSource
<1>5. CASE Flush(c)
  <2>1. pc[c] = "flush" /\ loc[c].out # <<>> /\ loc[c].out \in Seq(Item)
    BY <1>1, <1>5 DEF Flush, LocalInv, ReaderAt, ReaderType, LocalType
  <2>2. CASE pc' = pc /\ loc' = loc
    BY <2>1, <2>2 DEF OutSource
  <2>3. CASE Reply(c, Tail(loc[c].out), loc[c].then)
    <3>1. /\ loc'[c].out = Tail(loc[c].out) /\ loc'[c].then = loc[c].then /\ pc'[c] = "flush"
      BY <1>1, <2>3, ReplyAt
    <3>2. Elements(Tail(loc[c].out)) \subseteq Elements(loc[c].out)
      BY <2>1, ElementsOf
    <3> QED BY <3>1, <3>2 DEF OutSource
  <2> QED BY <1>5, <2>2, <2>3 DEF Flush
<1>6. CASE Replay(c)
  <2> DEFINE q == sess[Session(c)].offlineQueue
  <2>1. Reply(c, As("replay", q), "hookDisconnect")
    BY <1>6 DEF Replay
  <2>2. loc'[c].out = As("replay", q) /\ loc'[c].then = "hookDisconnect" /\ pc'[c] = "flush"
    BY <1>1, <2>1, ReplyAt
  <2>3. ASSUME NEW m \in Elements(As("replay", q))
        PROVE  \E x \in Elements(q) : m = Recast("replay", x)
    BY <2>3, ElementsAs DEF Recast
  <2> QED BY <1>6, <2>2, <2>3 DEF OutSource
<1>7. CASE FetchRetained(c)
  <2> DEFINE t == loc[c].topic
             out == <<Own("suback", c)>> \o Retained(t)
  <2>1. t \in Topics /\ Reply(c, out, "check")
    BY <1>1, <1>7 DEF FetchRetained, LocalInv, ReaderAt, SubscribeLabels
  <2>2. loc'[c].out = out /\ pc'[c] = "flush"
    BY <1>1, <2>1, ReplyAt
  <2>3. <<Own("suback", c)>> \in Seq(Item) /\ Retained(t) \in Seq(Item)
    <3>1. retained[t] # None => [retained[t] EXCEPT !.kind = "retained", !.n = 0] \in Item
      BY <1>1, <2>1 DEF TopicType, Item
    <3>2. Own("suback", c) \in Item
      BY OwnType
    <3> QED BY <3>1, <3>2 DEF Retained
  <2>4. Elements(out) = {Own("suback", c)} \cup Elements(Retained(t))
    <3>1. Elements(out) = Elements(<<Own("suback", c)>>) \cup Elements(Retained(t))
      BY <2>3, OrderedConcat
    <3>2. Elements(<<Own("suback", c)>>) = {Own("suback", c)}
      BY ElementsOf
    <3> QED BY <3>1, <3>2
  <2>5. ASSUME NEW m \in Elements(Retained(t))
        PROVE  m.kind = "retained" /\ m.n = 0
    <3>1. retained[t] # None /\ retained[t] \in Item
      BY <1>1, <2>1, <2>5, ElementsOf DEF Retained, TopicType
    <3>2. m = [retained[t] EXCEPT !.kind = "retained", !.n = 0]
      BY <2>5, <3>1, ElementsOf DEF Retained
    <3> QED BY <3>1, <3>2 DEF Item
  <2> QED BY <2>1, <2>2, <2>4, <2>5 DEF OutSource, Own
<1>8. ASSUME NEW kind \in {"ack", "connack", "suback"}, pc'[c] = "flush", loc'[c].out = <<Own(kind, c)>>
      PROVE  pc'[c] = "flush" /\ \A m \in Elements(loc'[c].out) : OutSource(c, m)
  <2>1. Elements(loc'[c].out) = {Own(kind, c)}
    BY <1>8, ElementsOf
  <2> QED BY <1>8, <2>1 DEF OutSource, Own
<1> QED BY <1>2, <1>4, <1>5, <1>6, <1>7, <1>8 DEF OutFrame

(* Every step keeps what OutInv says of them. *)
LEMMA OutInvStep ==
  ASSUME TypeOK, Inv, OutInv, NEW c \in Conns, Moves(c)
  PROVE  OutInv'
<1>1. ReaderType /\ SessionType(Item) /\ TopicType /\ ConnType /\ LocalInv /\ SharedInv
  BY DEF TypeOK, Inv
<1>2. OnlyReader(c)
  BY <1>1, StepIsLocal DEF Moves
<1>3. \A d \in Conns \ {c} : /\ loc'[d].out # <<>> => pc'[d] = "flush"
                            /\ \A m \in Elements(loc'[d].out) :
                                 m.kind # "live" /\ (m.kind = "replay" => loc'[d].then = "hookDisconnect")
  BY <1>2 DEF OnlyReader, OutInv
<1>4. ASSUME loc'[c].out # <<>>, NEW m \in Elements(loc'[c].out)
      PROVE  m.kind # "live" /\ (m.kind = "replay" => loc'[c].then = "hookDisconnect")
  <2>1. OutSource(c, m)
    BY <1>4, OutContents
  <2>2. ASSUME Replay(c), NEW x \in Elements(sess[Session(c)].offlineQueue)
        PROVE  x \in Item
    <3>1. Session(c) \in Conns
      BY <1>1, <2>2, HasSession DEF SharedInv, Replay, Adopting
    <3>2. sess[Session(c)].offlineQueue \in Seq(Item)
      BY <1>1, <3>1 DEF SessionType, SessionRecord
    <3> QED BY <2>2, <3>2, ElementsOf
  <2> QED BY <2>1, <2>2, RecastOf DEF OutSource, OutInv
<1>5. loc'[c].out = <<>> => \A m \in Elements(loc'[c].out) : FALSE
  BY ElementsOf
<1>6. loc'[c].out # <<>> => pc'[c] = "flush"
  BY OutContents
<1> QED BY <1>3, <1>4, <1>5, <1>6 DEF OutInv

(* Every step keeps a writer's hand empty when it writes nothing. *)
LEMMA HandStep ==
  ASSUME TypeOK, HandInv, NEW c \in Conns, Moves(c)
  PROVE  HandInv'
<1>1. WriterType /\ StoreFrame(c)
  BY StoreStep DEF TypeOK
<1>2. CASE UNCHANGED <<wpc, hand, wire>>
  BY <1>2 DEF HandInv
<1> SUFFICES ASSUME WriterType, ~UNCHANGED <<wpc, hand, wire>>, NEW d \in Conns,
                    wpc'[d] \notin {"handle", "offline"}
             PROVE  hand'[d] = None
  BY <1>1, <1>2 DEF HandInv
<1> USE DEF WriterType, HandInv
<1>3. CASE Signal(c)
  BY <1>3 DEF Signal
<1>4. CASE Kick(c)
  <2>1. hand' = hand /\ (d = c => wpc[d] = "select") /\ (d # c => wpc'[d] = wpc[d])
    BY <1>4 DEF Kick, WStep
  <2> QED BY <2>1
<1>5. CASE Take(c)
  BY <1>5 DEF Take, WStep
<1>6. CASE Handle(c)
  <2>1. CASE wpc' = [wpc EXCEPT ![c] = "offline"]
    BY <1>6, <2>1 DEF Handle, WStep
  <2>2. CASE hand' = [hand EXCEPT ![c] = None] /\ wpc' = [wpc EXCEPT ![c] = "select"]
    BY <2>2
  <2> QED BY <1>6, <2>1, <2>2 DEF Handle, WStep
<1>7. CASE Offline(c)
  BY <1>7 DEF Offline, WStep
<1>8. CASE Ping(c) \/ Gone(c)
  BY <1>8 DEF Ping, Gone, WStep
<1> QED BY <1>1, <1>3, <1>4, <1>5, <1>6, <1>7, <1>8 DEF StoreFrame, Writer

-----------------------------------------------------------------------------
(* The trail of a connection. *)
InHand(c) == IF hand[c] = None \/ wpc[c] = "offline" THEN <<>> ELSE <<hand[c]>>
Before(s, t) == \A x \in Elements(s), y \in Elements(t) : Fits(x, y)

(* One message more at the end, or one less at the beginning. *)
LEMMA OrderedOne ==
  /\ Ordered(<<>>) /\ \A m : Ordered(<<m>>)
  /\ \A q \in Seq(Item), m \in Item :
       Ordered(Append(q, m)) <=> Ordered(q) /\ \A x \in Elements(q) : Fits(x, m)
  /\ \A q \in Seq(Item) : q # <<>> /\ Ordered(q) =>
       Ordered(Tail(q)) /\ \A y \in Elements(Tail(q)) : Fits(Head(q), y)
<1>1. Ordered(<<>>) /\ \A m : Ordered(<<m>>)
  BY DEF Ordered
<1>2. ASSUME NEW q \in Seq(Item), NEW m \in Item
      PROVE  Ordered(Append(q, m)) <=> Ordered(q) /\ \A x \in Elements(q) : Fits(x, m)
  <2>1. <<m>> \in Seq(Item) /\ Append(q, m) = q \o <<m>> /\ Elements(<<m>>) = {m} /\ Ordered(<<m>>)
    BY <1>1, ElementsOf
  <2>2. Ordered(q \o <<m>>) <=> /\ Ordered(q) /\ Ordered(<<m>>)
                                /\ \A x \in Elements(q), y \in Elements(<<m>>) : Fits(x, y)
    BY <2>1, OrderedConcat
  <2>3. (\A x \in Elements(q), y \in Elements(<<m>>) : Fits(x, y)) <=> \A x \in Elements(q) : Fits(x, m)
    BY <2>1
  <2> QED BY <2>1, <2>2, <2>3
<1>3. ASSUME NEW q \in Seq(Item), q # <<>>, Ordered(q)
      PROVE  Ordered(Tail(q)) /\ \A y \in Elements(Tail(q)) : Fits(Head(q), y)
  <2>1. Head(q) \in Item /\ Tail(q) \in Seq(Item)
    BY <1>3
  <2>2. <<Head(q)>> \in Seq(Item) /\ q = <<Head(q)>> \o Tail(q)
    BY <1>3
  <2>3. Elements(<<Head(q)>>) = {Head(q)}
    BY ElementsOf
  <2>4. /\ Ordered(Tail(q))
        /\ \A x \in Elements(<<Head(q)>>), y \in Elements(Tail(q)) : Fits(x, y)
    BY <1>3, <2>1, <2>2, OrderedConcat, ZenonT(30)
  <2> QED BY <2>3, <2>4
<1> QED BY <1>1, <1>2, <1>3

(* A trail is in order when its parts are, and follow each other in order. *)
LEMMA TrailParts ==
  ASSUME NEW w \in Seq(Item), NEW h \in Seq(Item), NEW q \in Seq(Item)
  PROVE  /\ Elements(w \o h \o q) = Elements(w) \cup Elements(h) \cup Elements(q)
         /\ Ordered(w \o h \o q) <=> /\ Ordered(w) /\ Ordered(h) /\ Ordered(q)
                                     /\ Before(w, h) /\ Before(w, q) /\ Before(h, q)
<1>1. /\ w \o h \in Seq(Item)
      /\ Elements(w \o h) = Elements(w) \cup Elements(h)
      /\ Ordered(w \o h) <=> Ordered(w) /\ Ordered(h) /\ Before(w, h)
  BY OrderedConcat DEF Before
<1>2. /\ Elements((w \o h) \o q) = Elements(w \o h) \cup Elements(q)
      /\ Ordered((w \o h) \o q) <=> Ordered(w \o h) /\ Ordered(q) /\ Before(w \o h, q)
  BY <1>1, OrderedConcat DEF Before
<1>3. Before(w \o h, q) <=> Before(w, q) /\ Before(h, q)
  BY <1>1 DEF Before
<1> QED BY <1>1, <1>2, <1>3

(* A trail is the wire, the writer's hand and the queue. *)
LEMMA TrailOf ==
  ASSUME TypeOK, NEW d \in Conns
  PROVE  /\ wire[d] \in Seq(Item) /\ InHand(d) \in Seq(Item) /\ queue[d] \in Seq(Item)
         /\ Elements(Trail(d)) = Elements(wire[d]) \cup Elements(InHand(d)) \cup Elements(queue[d])
         /\ Ordered(Trail(d)) <=> /\ Ordered(wire[d]) /\ Ordered(InHand(d)) /\ Ordered(queue[d])
                                  /\ Before(wire[d], InHand(d)) /\ Before(wire[d], queue[d])
                                  /\ Before(InHand(d), queue[d])
<1>1. wire[d] \in Seq(Item) /\ queue[d] \in Seq(Item) /\ hand[d] \in Item \cup {None}
  BY DEF TypeOK, WriterType, QueueType
<1>2. InHand(d) \in Seq(Item)
  BY <1>1 DEF InHand
<1>3. Trail(d) = wire[d] \o InHand(d) \o queue[d]
  BY DEF Trail, InHand
<1> QED BY <1>1, <1>2, <1>3, TrailParts

(* Which messages enter the trail of a connection. *)
Enters(c, d, m) ==
  \/ Flush(c) /\ d = c /\ loc[c].out # <<>> /\ m = Head(loc[c].out)
  \/ Send(c) /\ d = sess[loc[c].cur].onWrite /\ m = loc[c].msg
  \/ Ping(c) /\ m = Own("pingreq", c)

(* The trail of a connection loses a message, or one more comes last. *)
TrailFrame(c, d) ==
  \/ /\ Elements(Trail(d))' \subseteq Elements(Trail(d))
     /\ Ordered(Trail(d)) => Ordered(Trail(d))'
  \/ \E m \in Item :
       /\ Enters(c, d, m)
       /\ Elements(Trail(d))' = Elements(Trail(d)) \cup {m}
       /\ Ordered(Trail(d)) /\ (\A x \in Elements(Trail(d)) : Fits(x, m)) => Ordered(Trail(d))'

(* TrailFrame, for every step. *)
LEMMA TrailStep ==
  ASSUME TypeOK, Inv, HandInv, TypeOK', NEW c \in Conns, Moves(c), NEW d \in Conns
  PROVE  TrailFrame(c, d)
<1>1. WriterType /\ QueueType /\ ReaderType /\ LocalInv /\ StoreFrame(c) /\ SessionType(Item)
  BY StoreStep DEF TypeOK, Inv
<1> DEFINE w == wire[d]
           h == InHand(d)
           q == queue[d]
<1>2. /\ w \in Seq(Item) /\ h \in Seq(Item) /\ q \in Seq(Item)
      /\ w' \in Seq(Item) /\ h' \in Seq(Item) /\ q' \in Seq(Item)
      /\ Elements(Trail(d)) = Elements(w) \cup Elements(h) \cup Elements(q)
      /\ Elements(Trail(d))' = Elements(w') \cup Elements(h') \cup Elements(q')
      /\ Ordered(Trail(d)) <=> /\ Ordered(w) /\ Ordered(h) /\ Ordered(q)
                               /\ Before(w, h) /\ Before(w, q) /\ Before(h, q)
      /\ Ordered(Trail(d))' <=> /\ Ordered(w') /\ Ordered(h') /\ Ordered(q')
                                /\ Before(w', h') /\ Before(w', q') /\ Before(h', q')
  <2>1. TypeOK'
    OBVIOUS
  <2>2. /\ wire'[d] \in Seq(Item) /\ InHand(d)' \in Seq(Item) /\ queue'[d] \in Seq(Item)
        /\ Elements(Trail(d))' = Elements(wire'[d]) \cup Elements(InHand(d)') \cup Elements(queue'[d])
        /\ Ordered(Trail(d))' <=> /\ Ordered(wire'[d]) /\ Ordered(InHand(d)') /\ Ordered(queue'[d])
                                  /\ Before(wire'[d], InHand(d)') /\ Before(wire'[d], queue'[d])
                                  /\ Before(InHand(d)', queue'[d])
    <3>1. wire'[d] \in Seq(Item) /\ queue'[d] \in Seq(Item) /\ hand'[d] \in Item \cup {None}
      BY <2>1 DEF TypeOK, WriterType, QueueType
    <3>2. InHand(d)' \in Seq(Item)
      BY <3>1 DEF InHand
    <3>3. Trail(d)' = wire'[d] \o InHand(d)' \o queue'[d]
      BY DEF Trail, InHand
    <3>4. /\ Elements(wire'[d] \o InHand(d)' \o queue'[d]) = Elements(wire'[d]) \cup Elements(InHand(d)') \cup Elements(queue'[d])
          /\ Ordered(wire'[d] \o InHand(d)' \o queue'[d]) <=>
                                  /\ Ordered(wire'[d]) /\ Ordered(InHand(d)') /\ Ordered(queue'[d])
                                  /\ Before(wire'[d], InHand(d)') /\ Before(wire'[d], queue'[d])
                                  /\ Before(InHand(d)', queue'[d])
      BY <3>1, <3>2, TrailParts
    <3>5. Elements(Trail(d))' = Elements(Trail(d)') /\ (Ordered(Trail(d))' <=> Ordered(Trail(d)'))
      BY DEF Elements, Ordered, Fits
    <3> QED BY <3>1, <3>2, <3>3, <3>4, <3>5
  <2> QED BY <2>2, TrailOf
<1> SUFFICES ASSUME w \in Seq(Item), h \in Seq(Item), q \in Seq(Item),
                    w' \in Seq(Item), h' \in Seq(Item), q' \in Seq(Item)
             PROVE  \/ /\ Elements(w') \cup Elements(h') \cup Elements(q')
                            \subseteq Elements(w) \cup Elements(h) \cup Elements(q)
                       /\ /\ Ordered(w) /\ Ordered(h) /\ Ordered(q)
                          /\ Before(w, h) /\ Before(w, q) /\ Before(h, q)
                          => /\ Ordered(w') /\ Ordered(h') /\ Ordered(q')
                             /\ Before(w', h') /\ Before(w', q') /\ Before(h', q')
                    \/ \E m \in Item : Enters(c, d, m) /\ w' = w /\ h' = h /\ q' = Append(q, m)
  <2>1. ASSUME NEW m \in Item, w' = w, h' = h, q' = Append(q, m)
        PROVE  /\ Elements(Trail(d))' = Elements(Trail(d)) \cup {m}
               /\ Ordered(Trail(d)) /\ (\A x \in Elements(Trail(d)) : Fits(x, m)) => Ordered(Trail(d))'
    <3>1. /\ Elements(q') = Elements(q) \cup {m}
          /\ Ordered(q') <=> Ordered(q) /\ \A x \in Elements(q) : Fits(x, m)
      BY <1>2, <2>1, ElementsOf, OrderedOne
    <3> HIDE DEF w, h, q
    <3>2. /\ Before(w', q') <=> Before(w, q) /\ \A x \in Elements(w) : Fits(x, m)
          /\ Before(h', q') <=> Before(h, q) /\ \A x \in Elements(h) : Fits(x, m)
      BY <2>1, <3>1 DEF Before
    <3> QED BY <1>2, <2>1, <3>1, <3>2
  <2> HIDE DEF w, h, q
  <2> QED BY <1>2, <2>1 DEF TrailFrame
<1>3. q # <<>> => /\ Elements(q) = {Head(q)} \cup Elements(Tail(q))
                  /\ Ordered(q) => Ordered(Tail(q)) /\ \A y \in Elements(Tail(q)) : Fits(Head(q), y)
  BY ElementsOf, OrderedOne
<1>4. /\ Elements(<<>>) = {} /\ Ordered(<<>>)
      /\ \A m : Elements(<<m>>) = {m} /\ Ordered(<<m>>)
  BY ElementsOf, OrderedOne
<1>5. CASE Take(c)
  <2>1. CASE d # c
    <3>1. w' = w /\ h' = h /\ q' = q
      BY <1>1, <1>5, <2>1 DEF Take, WStep, InHand, WriterType, QueueType
    <3> QED BY <3>1
  <2>2. CASE d = c
    <3>1. w' = w /\ h = <<>> /\ h' \in {<<>>, <<Head(q)>>} /\ q # <<>> /\ q' = Tail(q)
      BY <1>1, <1>5, <2>2 DEF Take, WStep, InHand, WriterType, QueueType, HandInv
    <3> HIDE DEF w, h, q
    <3> QED BY <1>3, <1>4, <3>1 DEF Before
  <2> QED BY <2>1, <2>2
<1>6. CASE Handle(c)
  <2>1. CASE d # c
    <3>1. w' = w /\ h' = h /\ q' = q
      BY <1>1, <1>6, <2>1 DEF Handle, WStep, InHand, WriterType, queueVars
    <3> QED BY <3>1
  <2>2. CASE d = c
    <3>1. q' = q /\ h = <<hand[c]>> /\ h' = <<>> /\ hand[c] \in Item
      <4>1. wpc[c] = "handle" /\ hand[c] \in Item /\ hand[c] # None
        BY <1>6, ItemAssumption, <1>1 DEF Handle, WStep, LocalInv, WriterAt
      <4>2. h' = <<>>
        BY <1>1, <1>6, <2>2 DEF Handle, WStep, InHand, WriterType
      <4> QED BY <1>6, <2>2, <4>1, <4>2 DEF Handle, InHand, queueVars
    <3>2. w' = w \/ w' = Append(w, hand[c])
      <4>1. CASE wire' = wire
        BY <4>1
      <4>2. CASE wire' = [wire EXCEPT ![c] = Append(wire[c], hand[c])]
        BY <1>1, <2>2, <4>2 DEF WriterType
      <4> QED BY <1>6, <4>1, <4>2 DEF Handle
    <3>3. /\ Elements(Append(w, hand[c])) = Elements(w) \cup {hand[c]}
          /\ Ordered(Append(w, hand[c])) <=> Ordered(w) /\ \A x \in Elements(w) : Fits(x, hand[c])
      BY <3>1, ElementsOf, OrderedOne
    <3> HIDE DEF w, h, q
    <3> QED BY <1>4, <3>1, <3>2, <3>3 DEF Before
  <2> QED BY <2>1, <2>2
<1>7. CASE Offline(c)
  <2>1. w' = w /\ h' = h /\ q' = q
    BY <1>1, <1>7 DEF Offline, WStep, InHand, WriterType, queueVars
  <2> QED BY <2>1
<1>8. CASE Ping(c)
  <2>1. w' = w /\ h' = h /\ Own("pingreq", c) \in Item
    BY <1>1, <1>8, OwnType DEF Ping, WStep, InHand, WriterType
  <2>2. q' = IF d = c THEN Append(q, Own("pingreq", c)) ELSE q
    BY <1>1, <1>8 DEF Ping, Enqueue, QueueType
  <2> QED BY <1>8, <2>1, <2>2 DEF Enters
<1>9. CASE Gone(c) \/ Kick(c) \/ Signal(c)
  <2>1. w' = w /\ q' = q /\ hand' = hand
    BY <1>9 DEF Gone, Kick, Signal, queueVars
  <2>2. wpc'[d] = "offline" <=> wpc[d] = "offline"
    BY <1>1, <1>9 DEF Gone, Kick, Signal, WStep, WriterType
  <2> QED BY <2>1, <2>2 DEF InHand
<1>10. CASE UNCHANGED <<wpc, hand, wire>>
  <2>1. w' = w /\ h' = h
    BY <1>10 DEF InHand
  <2>2. CASE Drain(c)
    <3>1. q' = q \/ (q # <<>> /\ q' = Tail(q))
      BY <1>1, <2>2 DEF Drain, QueueType
    <3> HIDE DEF w, h, q
    <3> QED BY <1>3, <2>1, <3>1 DEF Before
  <2>3. CASE Flush(c)
    <3>1. loc[c].out # <<>> /\ loc[c].out \in Seq(Item)
      BY <1>1, <2>3 DEF Flush, LocalInv, ReaderAt, ReaderType, LocalType
    <3>2. q' = q \/ (d = c /\ q' = Append(q, Head(loc[c].out)))
      BY <1>1, <2>3 DEF Flush, Enqueue, QueueType
    <3>3. Head(loc[c].out) \in Item
      BY <3>1
    <3> QED BY <2>1, <2>3, <3>1, <3>2, <3>3 DEF Enters
  <2>4. CASE Send(c)
    <3>1. q' = q \/ (d = sess[loc[c].cur].onWrite /\ q' = Append(q, loc[c].msg))
      BY <1>1, <2>4 DEF Send, Enqueue, QueueType
    <3>2. loc[c].msg \in Item
      BY <1>1, <2>4 DEF Send, LocalInv, ReaderAt, PublishLabels
    <3> QED BY <2>1, <2>4, <3>1, <3>2 DEF Enters
  <2>5. CASE queue' = queue
    BY <2>1, <2>5
  <2> QED BY <1>1, <1>5, <1>8, <2>2, <2>3, <2>4, <2>5 DEF StoreFrame
<1> QED BY <1>1, <1>5, <1>6, <1>7, <1>8, <1>9, <1>10 DEF StoreFrame, Writer

(* What may enter a trail. *)
LEMMA EntersOf ==
  ASSUME TypeOK, Inv, LatestInv, OutInv, UnheardInv, NEW c \in Conns, NEW d \in Conns, NEW m \in Item,
         Enters(c, d, m)
  PROVE  \/ m.kind \notin {"live", "replay"}
         \/ m.kind = "replay" /\ Unheard(d)
         \/ m.kind = "live" /\ m.src = c /\ m.n = sent[c] /\ ~Unheard(d)
<1>1. ReaderType /\ LocalInv /\ ConnInv
  BY DEF TypeOK, Inv, SharedInv
<1>2. CASE Flush(c) /\ d = c /\ loc[c].out # <<>> /\ m = Head(loc[c].out)
  <2>1. pc[c] = "flush" /\ loc[c].out \in Seq(Item)
    BY <1>1, <1>2 DEF Flush, ReaderType, LocalType
  <2>2. m \in Elements(loc[c].out)
    BY <1>2, <2>1, ElementsOf
  <2>3. m.kind # "live" /\ (m.kind = "replay" => loc[c].then = "hookDisconnect")
    BY <2>2 DEF OutInv
  <2>4. loc[c].then = "hookDisconnect" => Unheard(c)
    BY <1>1, <2>1 DEF ConnInv, Adopting, Unheard
  <2> QED BY <1>2, <2>3, <2>4
<1>3. CASE Send(c) /\ d = sess[loc[c].cur].onWrite /\ m = loc[c].msg
  <2>1. Spoken(c, m)
    BY <1>3 DEF Send, LatestInv, Speaking
  <2>2. ~Unheard(d)
    BY <1>1, <1>3 DEF Send, LocalInv, ReaderAt, UnheardInv
  <2> QED BY <2>1, <2>2 DEF Spoken
<1>4. CASE Ping(c) /\ m = Own("pingreq", c)
  BY <1>4 DEF Own
<1> QED BY <1>2, <1>3, <1>4 DEF Enters

(* A connection leaves the end of its CONNECT connected. *)
LEMMA FinishesStep ==
  ASSUME TypeOK, NEW c \in Conns, Moves(c), pc[c] = "finish"
  PROVE  pc'[c] = "finish" \/ Finish(c)
<1>1. CASE Packet(c)
  BY <1>1 DEF Packet, Connect, Publish, Subscribe, UnSubscribe, Acknowledge, Disconnect, Drop, Reading, Step
<1>2. CASE Flush(c) \/ Check(c) \/ Connecting(c)
  BY <1>2 DEF Flush, Check, Connecting, DoDisconnect, Create, Replay, HookDisconnect, HookWrite, Step
<1>3. CASE Subscribing(c) \/ Publishing(c)
  BY <1>3 DEF Subscribing, Insert, AddTopic, FetchRetained, RemoveTopic,
              Publishing, Retain, Match, Deliver, Write, Send, Step
<1>4. CASE Closing(c)
  BY <1>4 DEF Closing, Unhook, Forget, Close, Closed, Cleanup, Drain, Push, Mark, Signal, Wait,
              Unsubscribe, CloseQueue, OffDisconnect, OffWrite, Step
<1>5. CASE Writer(c) \/ Kick(c)
  BY <1>5 DEF Writer, Take, Handle, Offline, Ping, Gone, Kick
<1> QED
  BY <1>1, <1>2, <1>3, <1>4, <1>5 DEF Moves, Reader

(* A connection that no session writes to has never been written to. *)
LEMMA UnheardStep ==
  ASSUME TypeOK, Inv, NEW c \in Conns, Moves(c), NEW d \in Conns, Unheard(d)'
  PROVE  Unheard(d) /\ ~(d = c /\ HookWrite(c))
<1>1. ReaderType /\ ConnType /\ LocalInv /\ SharedInv
  BY DEF TypeOK, Inv
<1>2. OnlyReader(c) /\ SessionFrame(c)
  BY <1>1, StepIsLocal, SessionStep DEF Moves
<1>3. ~conn[d].connected /\ ~(d = c /\ Finish(c))
  BY <1>1, <1>2 DEF SessionFrame, ConnectedKept, Finish, ConnType, Unheard
<1>4. pc[d] # "finish"
  BY <1>2, <1>3, FinishesStep DEF OnlyReader, Unheard
<1>5. ~(d = c /\ HookWrite(c))
  BY <1>1 DEF HookWrite, Step, Go, ReaderType, Unheard
<1> QED BY <1>3, <1>4, <1>5 DEF Unheard

(* Every step keeps such connections without a live publication. *)
LEMMA UnheardInvStep ==
  ASSUME TypeOK, Inv, TypeOK', LatestInv, OutInv, UnheardInv, HandInv, NEW c \in Conns, Moves(c)
  PROVE  UnheardInv'
<1>1. SessionType(Item) /\ LocalInv /\ SharedInv
  BY DEF TypeOK, Inv
<1>2. SessionFrame(c)
  BY <1>1, SessionStep
<1> SUFFICES ASSUME NEW d \in Conns, Unheard(d)'
             PROVE  /\ \A s \in Conns : sess'[s].onWrite # d
                    /\ \A m \in Elements(Trail(d))' : m.kind # "live"
  BY DEF UnheardInv
<1>3. Unheard(d) /\ ~(d = c /\ HookWrite(c))
  BY UnheardStep
<1>4. \A s \in Conns : sess[s].onWrite # d
  BY <1>3 DEF UnheardInv
<1>5. \A s \in Conns : sess'[s].onWrite # d
  <2>1. CASE HooksKept
    BY <1>4, <2>1 DEF HooksKept
  <2>2. CASE Create(c)
    BY <1>1, <1>4, <2>2, NoneApart DEF Create, New, NewSession, SessionType
  <2>3. CASE HookWrite(c)
    BY <1>1, <1>3, <1>4, <2>3 DEF HookWrite, WithOnWrite, SessionType, SessionRecord
  <2>4. CASE OffWrite(c)
    BY <1>1, <1>4, <2>4, NoneApart DEF OffWrite, WithOnWrite, SessionType, SessionRecord
  <2> QED BY <1>2, <2>1, <2>2, <2>3, <2>4 DEF SessionFrame
<1>6. \A m \in Elements(Trail(d)) : m.kind # "live"
  BY <1>3 DEF UnheardInv
<1>7. \A m \in Item : Enters(c, d, m) => m.kind # "live"
  BY <1>3, EntersOf
<1> QED BY <1>5, <1>6, <1>7, TrailStep DEF TrailFrame

(* A publication that enters a trail is later than those of its publisher in it. *)
LEMMA OrderStep ==
  ASSUME TypeOK, Inv, TypeOK', OrderInv, NEW c \in Conns, Moves(c)
  PROVE  OrderInv'
<1>1. HistoryType /\ LatestInv /\ SentInv /\ UnheardInv /\ OutInv /\ HandInv
  BY DEF TypeOK, OrderInv
<1>2. \A d \in Conns : TrailFrame(c, d)
  BY <1>1, TrailStep
<1>3. \A d \in Conns : Elements(Trail(d)) \subseteq Item
  BY TrailOf, ElementsOf
<1>4. SentFrame(c)
  BY <1>1, SentStep
<1>5. \A d \in Conns : sent[d] \in Nat /\ sent'[d] \in Nat /\ sent[d] <= sent'[d]
  BY <1>1, <1>4 DEF SentFrame, HistoryType
<1>6. SentInv'
  <2> SUFFICES ASSUME NEW d \in Conns, NEW m \in Elements(Trail(d))', m.kind = "live"
               PROVE  m.n <= sent'[m.src]
    BY DEF SentInv
  <2>1. CASE m \in Elements(Trail(d))
    <3>1. m.n <= sent[m.src] /\ m.src \in Conns /\ m.n \in Nat
      BY <1>1, <1>3, <2>1 DEF SentInv, Item
    <3> QED BY <1>5, <3>1
  <2>2. CASE m \in Item /\ Enters(c, d, m)
    <3>1. m.src = c /\ m.n = sent[c]
      BY <1>1, <2>2, EntersOf
    <3> QED BY <1>5, <3>1
  <2> QED BY <1>2, <2>1, <2>2 DEF TrailFrame
<1>7. ASSUME NEW d \in Conns
      PROVE  Ordered(Trail(d))'
  <2>1. Ordered(Trail(d))
    BY DEF OrderInv
  <2>2. ASSUME NEW m \in Item, Enters(c, d, m), NEW x \in Elements(Trail(d))
        PROVE  Fits(x, m)
    <3>1. x.kind = "live" => x.n <= sent[x.src] /\ ~Unheard(d)
      BY <1>1 DEF SentInv, UnheardInv
    <3>2. \/ m.kind \notin {"live", "replay"}
          \/ m.kind = "replay" /\ Unheard(d)
          \/ m.kind = "live" /\ m.src = c /\ m.n = sent[c]
      BY <1>1, <2>2, EntersOf
    <3> QED BY <3>1, <3>2 DEF Fits
  <2> QED BY <1>2, <2>1, <2>2 DEF TrailFrame
<1>8. LatestInv' /\ OutInv' /\ HandInv' /\ UnheardInv'
  BY <1>1, LatestStep, OutInvStep, HandStep, UnheardInvStep
<1> QED BY <1>6, <1>7, <1>8 DEF OrderInv

(* They are at the start. *)
LEMMA InitOrder == Init => OrderInv
<1> SUFFICES ASSUME Init PROVE OrderInv
  OBVIOUS
<1>1. ASSUME NEW c \in Conns
      PROVE  loc[c].out = <<>> /\ Trail(c) = <<>>
  <2>1. loc[c].out = <<>> /\ wire[c] = <<>> /\ hand[c] = None /\ queue[c] = <<>>
    BY DEF Init, Idle
  <2>2. <<>> \o <<>> \o <<>> = <<>>
    OBVIOUS
  <2> QED BY <2>1, <2>2 DEF Trail
<1>2. ASSUME NEW c \in Conns
      PROVE  Elements(Trail(c)) = {} /\ Elements(loc[c].out) = {} /\ Ordered(Trail(c))
  BY <1>1 DEF Elements, Ordered
<1>3. ASSUME NEW c \in Conns, NEW s \in Conns
      PROVE  sess[s].onWrite # c
  BY NoneApart DEF Init, SessionInit, NewSession
<1>4. LatestInv /\ HandInv
  BY DEF Init, LatestInv, Speaking, HandInv
<1>5. OutInv /\ SentInv /\ UnheardInv
  BY <1>1, <1>2, <1>3 DEF OutInv, SentInv, UnheardInv
<1> QED BY <1>2, <1>4, <1>5 DEF OrderInv

(* Every step keeps the inductive invariant of the order. *)
LEMMA OrderInvStep ==
  ASSUME TypeOK, Inv, OrderInv, [Next]_vars
  PROVE  OrderInv'
<1>1. TypeOK'
  BY InvStep
<1>2. CASE Next
  <2>1. PICK c \in Conns : Moves(c)
    BY <1>2 DEF Next, Moves
  <2> QED BY <1>1, <2>1, OrderStep
<1>3. CASE UNCHANGED vars
  <2> USE <1>3 DEF vars, topicVars, queueVars, writerVars, ghostVars, sessionVars
  <2>1. LatestInv' /\ OutInv' /\ HandInv'
    BY DEF OrderInv, LatestInv, Speaking, Spoken, OutInv, Elements, HandInv
  <2>2. \A c \in Conns : /\ Elements(Trail(c))' = Elements(Trail(c))
                         /\ Ordered(Trail(c))' <=> Ordered(Trail(c))
    <3>1. \A c \in Conns : Trail(c)' = Trail(c)
      BY DEF Trail
    <3> QED BY <3>1 DEF Elements, Ordered, Fits
  <2>3. SentInv' /\ UnheardInv' /\ \A c \in Conns : Ordered(Trail(c))'
    BY <2>2 DEF OrderInv, SentInv, UnheardInv, Unheard
  <2> QED BY <2>1, <2>2, <2>3 DEF OrderInv
<1> QED BY <1>2, <1>3

(* What was kept while a client was away comes before everything delivered
   live, and the live messages of one publisher reach a connection in the order
   it sent them, through the queue and the writer to the socket, whatever
   takeovers, replays and other publishers run meanwhile (onConnect,
   WriteMessage, ConBroker.write).  The order among the kept messages is not
   part of it: two closers that drain into one offline queue can swap them. *)
THEOREM DeliveryIsOrdered == Spec => []DeliveryOrder
<1>1. Init => TypeOK /\ Inv /\ OrderInv
  BY InitType, InitInv, InitOrder DEF Inv
<1>2. TypeOK /\ Inv /\ OrderInv /\ [Next]_vars => (TypeOK /\ Inv /\ OrderInv)'
  BY InvStep, OrderInvStep
<1>3. OrderInv => DeliveryOrder
  BY DEF OrderInv, Ordered, Fits, DeliveryOrder
<1> QED
  BY <1>1, <1>2, <1>3, PTL DEF Spec


-----------------------------------------------------------------------------
(* Where messages go. *)

(* A handler's message goes from its locals to the queue, or nowhere. *)
LEMMA FlushMoves ==
  ASSUME TypeOK, Inv, NEW c \in Conns, Flush(c)
  PROVE  \/ loc' = loc /\ queue' = queue
         \/ /\ loc[c].out # <<>> /\ loc[c].out \in Seq(Item) /\ Head(loc[c].out) \in Item
            /\ open'[c]
            /\ loc'[c].out = Tail(loc[c].out)
            /\ Elements(loc[c].out) = {Head(loc[c].out)} \cup Elements(Tail(loc[c].out))
            /\ Elements(queue'[c]) = Elements(queue[c]) \cup {Head(loc[c].out)}
            /\ \A d \in Conns \ {c} : queue'[d] = queue[d]
<1>1. ReaderType /\ QueueType /\ LocalInv
  BY DEF TypeOK, Inv
<1> DEFINE out == loc[c].out
<1>2. out # <<>> /\ out \in Seq(Item) /\ queue[c] \in Seq(Item)
  BY <1>1 DEF Flush, LocalInv, ReaderAt, ReaderType, LocalType, QueueType
<1>3. Head(out) \in Item /\ Elements(out) = {Head(out)} \cup Elements(Tail(out))
  BY <1>2, ElementsOf
<1>4. CASE loc' = loc /\ queue' = queue
  BY <1>4
<1>5. CASE /\ queue' = [queue EXCEPT ![c] = Enqueue(queue[c], Head(out))]
           /\ Reply(c, Tail(out), loc[c].then) /\ open[c] /\ open' = open
  <2>1. loc'[c].out = Tail(out)
    BY <1>1, <1>5, ReplyAt
  <2>2. queue'[c] = Append(queue[c], Head(out)) /\ \A d \in Conns \ {c} : queue'[d] = queue[d]
    BY <1>1, <1>5 DEF Enqueue, QueueType
  <2>3. Elements(queue'[c]) = Elements(queue[c]) \cup {Head(out)}
    BY <1>2, <1>3, <2>2, ElementsOf
  <2> QED BY <1>2, <1>3, <1>5, <2>1, <2>2, <2>3
<1> QED BY <1>4, <1>5 DEF Flush

(* A publication goes to the queue of the hooked connection, or nowhere. *)
LEMMA SendMoves ==
  ASSUME TypeOK, Inv, SettledInv, NEW c \in Conns, Send(c)
  PROVE  LET d == sess[loc[c].cur].onWrite IN
           /\ d \in Conns /\ loc[c].msg \in Item
           /\ \/ queue' = queue /\ accepted' = accepted
              \/ /\ open'[d] /\ Elements(queue'[d]) = Elements(queue[d]) \cup {loc[c].msg}
                 /\ \A e \in Conns \ {d} : queue'[e] = queue[e]
                 /\ accepted' = accepted \cup {Receipt(loc[c].cur, loc[c].msg)}
<1>1. ReaderType /\ QueueType /\ LocalInv /\ SessionType(Item)
  BY DEF TypeOK, Inv
<1> DEFINE d == sess[loc[c].cur].onWrite
<1>2. pc[c] = "send" /\ loc[c].cur \in Conns /\ loc[c].msg \in Item
  BY <1>1 DEF Send, LocalInv, ReaderAt, PublishLabels
<1>3. d \in Conns
  BY <1>1, <1>2 DEF SettledInv, SessionType, SessionRecord
<1> HIDE DEF d
<1>4. CASE queue' = queue /\ UNCHANGED ghostVars
  BY <1>2, <1>3, <1>4 DEF ghostVars, d
<1>5. CASE /\ queue' = [queue EXCEPT ![d] = Enqueue(queue[d], loc[c].msg)] /\ Accept(c)
           /\ open[d] /\ open' = open
  <2>1. queue[d] \in Seq(Item) /\ queue'[d] = Append(queue[d], loc[c].msg)
    BY <1>1, <1>3, <1>5 DEF Enqueue, QueueType
  <2>2. \A e \in Conns \ {d} : queue'[e] = queue[e]
    BY <1>1, <1>5 DEF QueueType
  <2>3. Elements(queue'[d]) = Elements(queue[d]) \cup {loc[c].msg}
    BY <1>2, <2>1, ElementsOf
  <2> QED BY <1>2, <1>3, <1>5, <2>2, <2>3 DEF Accept, d
<1> QED BY <1>4, <1>5 DEF Send, d

(* A message enters a queue as EntersOf says, and leaves it for the writer's
   hand or for the reader that closes the connection. *)
Passes(c, d, m) ==
  \/ Take(c) /\ d = c /\ hand'[c] = m
  \/ Drain(c) /\ d = at[c] /\ (m.kind = "pingreq" \/ (pc'[c] = "push" /\ loc'[c].msg = m))
QueueFrame(c) == \A d \in Conns :
  /\ \A m \in Elements(queue'[d]) : m \in Elements(queue[d]) \/ Enters(c, d, m)
  /\ \A m \in Elements(queue[d]) : m \in Elements(queue'[d]) \/ Passes(c, d, m)

(* QueueFrame, for every step. *)
LEMMA QueueStep ==
  ASSUME TypeOK, Inv, SettledInv, NEW c \in Conns, Moves(c)
  PROVE  QueueFrame(c)
<1>1. WriterType /\ QueueType /\ ReaderType /\ LocalInv /\ StoreFrame(c)
  BY StoreStep DEF TypeOK, Inv
<1>2. \A d \in Conns : queue[d] \in Seq(Item)
  BY <1>1 DEF QueueType
<1>3. \A d \in Conns : queue[d] # <<>> => Elements(queue[d]) = {Head(queue[d])} \cup Elements(Tail(queue[d]))
  BY <1>2, ElementsOf
<1>4. CASE queue' = queue
  BY <1>4 DEF QueueFrame
<1>5. CASE Take(c)
  <2>1. /\ queue[c] # <<>> /\ hand'[c] = Head(queue[c]) /\ queue'[c] = Tail(queue[c])
        /\ \A d \in Conns \ {c} : queue'[d] = queue[d]
    BY <1>1, <1>5 DEF Take, WriterType, QueueType
  <2> QED BY <1>3, <1>5, <2>1 DEF QueueFrame, Passes
<1>6. CASE Drain(c) /\ queue' # queue
  <2> DEFINE o == at[c]
  <2>1. o \in Conns
    BY <1>1, <1>6 DEF Drain, LocalInv, ReaderAt, CloseLabels, ReaderType
  <2>2. /\ queue[o] # <<>> /\ queue'[o] = Tail(queue[o])
        /\ \A d \in Conns \ {o} : queue'[d] = queue[d]
    BY <1>1, <1>6, <2>1 DEF Drain, QueueType
  <2>3. Head(queue[o]).kind # "pingreq" => pc'[c] = "push" /\ loc'[c].msg = Head(queue[o])
    BY <1>1, <1>6, <2>2 DEF Drain, Kept, Go, ReaderType, LocalType
  <2> QED BY <1>3, <1>6, <2>1, <2>2, <2>3 DEF QueueFrame, Passes
<1>7. CASE Flush(c)
  BY <1>4, <1>7, FlushMoves, SMTT(30) DEF QueueFrame, Enters
<1>8. CASE Send(c)
  BY <1>4, <1>8, SendMoves, SMTT(30) DEF QueueFrame, Enters
<1>9. CASE Ping(c)
  <2>1. /\ queue'[c] = Append(queue[c], Own("pingreq", c))
        /\ \A d \in Conns \ {c} : queue'[d] = queue[d]
    BY <1>1, <1>9 DEF Ping, Enqueue, QueueType
  <2>2. Elements(queue'[c]) = Elements(queue[c]) \cup {Own("pingreq", c)}
    <3>1. Own("pingreq", c) \in Item
      BY OwnType
    <3> QED BY <1>2, <2>1, <3>1, ElementsOf
  <2> QED BY <1>9, <2>1, <2>2 DEF QueueFrame, Enters
<1> QED BY <1>1, <1>4, <1>5, <1>6, <1>7, <1>8, <1>9 DEF StoreFrame


(* A message enters an offline queue from a publisher, a closer or a writer. *)
Stores(c, s, m) ==
  \/ Write(c) /\ sess[loc[c].cur].onWrite = None /\ s = loc[c].cur /\ m = loc[c].msg
  \/ Push(c) /\ s = Session(at[c]) /\ m = loc[c].msg
  \/ Offline(c) /\ s = Session(c) /\ m = hand[c]
StoredFrame(c) == \A s \in Conns :
  /\ \A m \in Elements(sess'[s].offlineQueue) : m \in Elements(sess[s].offlineQueue) \/ Stores(c, s, m)
  /\ \A m \in Elements(sess[s].offlineQueue) :
       \/ m \in Elements(sess'[s].offlineQueue)
       \/ Replay(c) /\ s = Session(c)
       \/ Create(c) /\ s = c
  /\ \A m \in Item : Stores(c, s, m) /\ ~Full(s) => m \in Elements(sess'[s].offlineQueue)

(* Pushing a message to an offline queue. *)
LEMMA PushMoves ==
  ASSUME SessionType(Item), NEW s, NEW m \in Item, PushOfflineMessage(s, m), NEW x \in Conns
  PROVE  /\ x # s \/ Full(x) => sess'[x].offlineQueue = sess[x].offlineQueue
         /\ x = s /\ ~Full(x) => Elements(sess'[x].offlineQueue) = Elements(sess[x].offlineQueue) \cup {m}
<1>1. sess[x].offlineQueue \in Seq(Item)
  BY DEF SessionType, SessionRecord
<1>2. sess'[x].offlineQueue = IF x = s THEN Pushed(sess[x].offlineQueue, m) ELSE sess[x].offlineQueue
  BY DEF PushOfflineMessage, SessionType, SessionRecord
<1>3. Pushed(sess[x].offlineQueue, m) = IF Full(x) THEN sess[x].offlineQueue ELSE Append(sess[x].offlineQueue, m)
  BY DEF Pushed, Full
<1>4. Elements(Append(sess[x].offlineQueue, m)) = Elements(sess[x].offlineQueue) \cup {m}
  BY <1>1, ElementsOf
<1> QED BY <1>2, <1>3, <1>4

(* No step is two of these. *)
LEMMA StoresApart ==
  ASSUME WriterType, NEW c \in Conns
  PROVE  /\ Write(c) => ~Push(c) /\ ~Offline(c)
         /\ Push(c) => ~Offline(c)
<1>1. Write(c) => pc[c] = "write" /\ wpc' = wpc
  BY DEF Write, writerVars
<1>2. Push(c) => pc[c] = "push" /\ wpc' = wpc
  BY DEF Push, Step, writerVars
<1>3. Offline(c) => wpc' # wpc
  BY DEF Offline, WStep, WriterType
<1> QED BY <1>1, <1>2, <1>3

(* StoredFrame, for every step. *)
LEMMA StoredStep ==
  ASSUME TypeOK, Inv, NEW c \in Conns, Moves(c)
  PROVE  StoredFrame(c)
<1>1. SessionType(Item) /\ LocalInv /\ SharedInv /\ OfflineFrame(c) /\ WriterType
  BY OfflineStep DEF TypeOK, Inv
<1>2. /\ Write(c) => ~Push(c) /\ ~Offline(c)
      /\ Push(c) => ~Offline(c)
  BY <1>1, StoresApart
<1>3. ASSUME NEW s, NEW m \in Item, PushOfflineMessage(s, m),
             \A x \in Conns : \A y : Stores(c, x, y) <=> x = s /\ y = m
      PROVE  StoredFrame(c)
  <2> SUFFICES ASSUME NEW x \in Conns
               PROVE  /\ \A y \in Elements(sess'[x].offlineQueue) : y \in Elements(sess[x].offlineQueue) \/ Stores(c, x, y)
                      /\ \A y \in Elements(sess[x].offlineQueue) : y \in Elements(sess'[x].offlineQueue)
                      /\ \A y \in Item : Stores(c, x, y) /\ ~Full(x) => y \in Elements(sess'[x].offlineQueue)
    BY DEF StoredFrame
  <2>1. /\ x # s \/ Full(x) => sess'[x].offlineQueue = sess[x].offlineQueue
        /\ x = s /\ ~Full(x) => Elements(sess'[x].offlineQueue) = Elements(sess[x].offlineQueue) \cup {m}
    BY <1>1, <1>3, PushMoves
  <2> QED BY <1>3, <2>1
<1>4. CASE Write(c)
  <2>1. loc[c].msg \in Item
    BY <1>1, <1>4 DEF Write, LocalInv, ReaderAt, PublishLabels
  <2>2. CASE sess[loc[c].cur].onWrite = None
    <3>1. PushOfflineMessage(loc[c].cur, loc[c].msg)
      BY <1>4, <2>2 DEF Write
    <3>2. \A x \in Conns : \A y : Stores(c, x, y) <=> x = loc[c].cur /\ y = loc[c].msg
      BY <1>2, <1>4, <2>2 DEF Stores
    <3> QED BY <1>3, <2>1, <3>1, <3>2
  <2>3. CASE sess[loc[c].cur].onWrite # None
    <3>1. OfflineKept
      BY <1>1, <1>4, <2>3, OfflineOps DEF Write
    <3>2. \A x, y : ~Stores(c, x, y)
      BY <1>2, <1>4, <2>3 DEF Stores
    <3> QED BY <3>1, <3>2 DEF StoredFrame, OfflineKept
  <2> QED BY <2>2, <2>3
<1>5. CASE Push(c)
  <2>1. loc[c].msg \in Item
    BY <1>1, <1>5 DEF Push, Step, LocalInv, ReaderAt, PublishLabels
  <2>2. PushOfflineMessage(Session(at[c]), loc[c].msg)
    BY <1>5 DEF Push
  <2>3. \A x \in Conns : \A y : Stores(c, x, y) <=> x = Session(at[c]) /\ y = loc[c].msg
    BY <1>2, <1>5 DEF Stores
  <2> QED BY <1>3, <2>1, <2>2, <2>3
<1>6. CASE Offline(c)
  <2>1. hand[c] \in Item
    BY <1>1, <1>6 DEF Offline, WStep, LocalInv, WriterAt
  <2>2. PushOfflineMessage(Session(c), hand[c])
    BY <1>6 DEF Offline
  <2>3. \A x \in Conns : \A y : Stores(c, x, y) <=> x = Session(c) /\ y = hand[c]
    BY <1>2, <1>6 DEF Stores
  <2> QED BY <1>3, <2>1, <2>2, <2>3
<1>7. CASE OfflineKept /\ ~Write(c) /\ ~Push(c) /\ ~Offline(c)
  BY <1>7 DEF StoredFrame, OfflineKept, Stores
<1>8. CASE (Replay(c) \/ Create(c)) /\ ~Write(c) /\ ~Push(c) /\ ~Offline(c)
  <2> DEFINE s == IF Replay(c) THEN Session(c) ELSE c
  <2>1. \A x \in Conns : sess'[x].offlineQueue = IF x = s THEN <<>> ELSE sess[x].offlineQueue
    <3>1. CASE Replay(c)
      BY <1>1, <3>1 DEF Replay, OfflineMessages, SessionType, SessionRecord
    <3>2. CASE ~Replay(c)
      BY <1>1, <1>8, <3>2 DEF Create, New, NewSession, SessionType
    <3> QED BY <3>1, <3>2
  <2>2. Elements(<<>>) = {}
    BY ElementsOf
  <2>3. \A x, y : ~Stores(c, x, y)
    BY <1>8 DEF Stores
  <2>4. (Replay(c) /\ s = Session(c)) \/ (Create(c) /\ s = c)
    BY <1>8
  <2> HIDE DEF s
  <2> QED BY <2>1, <2>2, <2>3, <2>4 DEF StoredFrame
<1> QED BY <1>1, <1>4, <1>5, <1>6, <1>7, <1>8 DEF OfflineFrame


(* A message enters the writer's hand from the queue, and leaves it for the
   offline queue, or for good: then it is owed no more, unless the connection
   has no session. *)
HandFrame(c) ==
  /\ \A d \in Conns \ {c} : hand'[d] = hand[d]
  /\ hand'[c] \in {hand[c], None} \/ hand'[c] \in Elements(queue[c])
  /\ hand[c] # None =>
       \/ hand'[c] = hand[c]
       \/ Receipt(Session(c), hand[c]) \notin accepted'
       \/ Session(c) = None
       \/ Offline(c)

(* HandFrame, for every step. *)
LEMMA HandMoves ==
  ASSUME TypeOK, Inv, HandInv, NEW c \in Conns, Moves(c)
  PROVE  HandFrame(c)
<1>1. WriterType /\ QueueType /\ LocalInv /\ StoreFrame(c) /\ ConnType
  BY StoreStep DEF TypeOK, Inv
<1>2. CASE hand' = hand
  BY <1>2 DEF HandFrame
<1>3. CASE Take(c)
  <2>1. hand[c] = None /\ queue[c] # <<>> /\ queue[c] \in Seq(Item)
    BY <1>1, <1>3 DEF Take, WStep, HandInv, QueueType
  <2>2. hand'[c] = Head(queue[c]) /\ \A d \in Conns \ {c} : hand'[d] = hand[d]
    BY <1>1, <1>3 DEF Take, WriterType
  <2>3. Head(queue[c]) \in Elements(queue[c])
    BY <2>1, ElementsOf
  <2> QED BY <2>1, <2>2, <2>3 DEF HandFrame
<1>4. CASE Handle(c)
  <2>1. \A d \in Conns \ {c} : hand'[d] = hand[d]
    BY <1>1, <1>4 DEF Handle, WriterType
  <2>2. hand'[c] \in {hand[c], None}
    BY <1>1, <1>4 DEF Handle, WriterType
  <2>3. CASE conn[c].state = "closed"
    <3>1. Session(c) # None => hand'[c] = hand[c]
      BY <1>4, <2>3 DEF Handle
    <3> QED BY <2>1, <2>2, <3>1 DEF HandFrame
  <2>4. CASE conn[c].state # "closed"
    <3>1. Receipt(Session(c), hand[c]) \notin accepted'
      BY <1>4, <2>4 DEF Handle
    <3> QED BY <2>1, <2>2, <3>1 DEF HandFrame
  <2> QED BY <2>3, <2>4
<1>5. CASE Offline(c)
  <2>1. hand'[c] = None /\ \A d \in Conns \ {c} : hand'[d] = hand[d]
    BY <1>1, <1>5 DEF Offline, WriterType
  <2> QED BY <1>5, <2>1 DEF HandFrame
<1>6. CASE Signal(c) \/ Kick(c) \/ Ping(c) \/ Gone(c)
  BY <1>2, <1>6 DEF Signal, Kick, Ping, Gone
<1> QED BY <1>1, <1>2, <1>3, <1>4, <1>5, <1>6 DEF StoreFrame, Writer

(* What a reader keeps in its locals. *)
MsgFrame(c) ==
  loc'[c].msg = loc[c].msg \/ HandlesPublish(c) \/ Check(c) \/ Close(c) \/ Drain(c)
OutKept(c) == loc[c].out # <<>> => loc'[c].out = loc[c].out \/ Flush(c)
PushKept(c) ==
  pc[c] = "push" => \/ pc'[c] = pc[c] /\ loc'[c].msg = loc[c].msg /\ at'[c] = at[c]
                    \/ Push(c)
CurKept(c) ==
  pc'[c] \in {"write", "send"} =>
    \/ Deliver(c)
    \/ pc[c] = "write" /\ Write(c) /\ loc'[c].cur = loc[c].cur
    \/ pc'[c] = pc[c] /\ loc'[c].cur = loc[c].cur

(* MsgFrame, for every step. *)
LEMMA MsgStep ==
  ASSUME ReaderType, NEW c \in Conns, Moves(c)
  PROVE  MsgFrame(c)
<1> USE DEF MsgFrame, ReaderType, LocalType
<1>1. \A out, then : Reply(c, out, then) => loc'[c].msg = loc[c].msg
  BY ReplyAt
<1>2. CASE Packet(c)
  <2>1. ASSUME NEW p \in Connects[c], NEW ok \in AuthResults, Connect(c, p, ok)
        PROVE  loc'[c].msg = loc[c].msg
    <3>1. CASE conn[c].connected \/ ~ok
      BY <1>1, <2>1, <3>1 DEF Connect
    <3>2. CASE ~conn[c].connected /\ ok
      BY <2>1, <3>2 DEF Connect
    <3> QED BY <3>1, <3>2
  <2>2. ASSUME NEW t, Subscribe(c, t)
        PROVE  loc'[c].msg = loc[c].msg
    BY <2>2 DEF Subscribe
  <2>3. ASSUME NEW t, UnSubscribe(c, t)
        PROVE  loc'[c].msg = loc[c].msg
    BY <1>1, <2>3 DEF UnSubscribe
  <2>4. CASE Acknowledge(c) \/ Disconnect(c) \/ Drop(c)
    BY <1>1, <2>4 DEF Acknowledge, Disconnect, Drop
  <2> QED BY <1>2, <2>1, <2>2, <2>3, <2>4 DEF Packet, HandlesPublish
<1>3. CASE Flush(c) \/ Check(c)
  BY <1>1, <1>3 DEF Flush
<1>4. CASE Connecting(c)
  BY <1>1, <1>4 DEF Connecting, DoDisconnect, Create, Replay, HookDisconnect, HookWrite, Finish
<1>5. CASE Subscribing(c)
  <2>1. CASE Insert(c)
    BY <1>1, <2>1 DEF Insert
  <2>2. CASE AddTopic(c) \/ FetchRetained(c) \/ RemoveTopic(c)
    BY <1>1, <2>2 DEF AddTopic, FetchRetained, RemoveTopic
  <2> QED BY <1>5, <2>1, <2>2 DEF Subscribing
<1>6. CASE Publishing(c)
  <2>1. CASE Match(c)
    BY <2>1 DEF Match
  <2>2. CASE Deliver(c)
    BY <2>2 DEF Deliver
  <2>3. CASE Retain(c) \/ Write(c) \/ Send(c)
    BY <2>3 DEF Retain, Write, Send
  <2> QED BY <1>6, <2>1, <2>2, <2>3 DEF Publishing
<1>7. CASE Closing(c)
  <2>1. loc' = loc \/ Close(c) \/ Drain(c)
    BY <1>7 DEF Closing, Unhook, Forget, Closed, Cleanup, Push, Mark, Signal, Wait, Unsubscribe,
                CloseQueue, OffDisconnect, OffWrite
  <2> QED BY <2>1
<1>8. CASE Writer(c) \/ Kick(c)
  BY <1>8 DEF Writer, Take, Handle, Offline, Ping, Gone, Kick
<1> QED
  BY <1>2, <1>3, <1>4, <1>5, <1>6, <1>7, <1>8 DEF Moves, Reader

(* A step of a connection moves its reader on, or leaves it where it is. *)
LEMMA KeptStep ==
  ASSUME ReaderType, OutInv, NEW c \in Conns, Moves(c)
  PROVE  OutKept(c) /\ PushKept(c)
<1>1. CASE Packet(c)
  <2>1. Reading(c) \/ Drop(c)
    <3>1. ASSUME NEW p, NEW ok, Connect(c, p, ok) PROVE Reading(c)
      BY <3>1 DEF Connect
    <3>2. ASSUME NEW p, Publish(c, p) PROVE Reading(c)
      BY <3>2 DEF Publish
    <3>3. ASSUME NEW t, Subscribe(c, t) \/ UnSubscribe(c, t) PROVE Reading(c)
      BY <3>3 DEF Subscribe, UnSubscribe
    <3>4. Acknowledge(c) \/ Disconnect(c) => Reading(c)
      BY DEF Acknowledge, Disconnect
    <3> QED BY <1>1, <3>1, <3>2, <3>3, <3>4 DEF Packet
  <2>2. pc[c] = "read"
    BY <2>1 DEF Reading, Drop, Step
  <2> QED BY <2>2 DEF OutKept, PushKept, OutInv
<1>2. CASE Flush(c)
  BY <1>2 DEF Flush, OutKept, PushKept
<1>3. CASE Check(c) \/ Connecting(c)
  <2>1. pc[c] \notin {"flush", "push"}
    BY <1>3 DEF Check, Connecting, DoDisconnect, Create, Replay, HookDisconnect, HookWrite, Finish, Step
  <2> QED BY <2>1 DEF OutKept, PushKept, OutInv
<1>4. CASE Subscribing(c)
  <2>1. pc[c] \in {"insert", "addTopics", "fetch", "removeTopics"}
    BY <1>4 DEF Subscribing, Insert, AddTopic, FetchRetained, RemoveTopic, Step
  <2> QED BY <2>1 DEF OutKept, PushKept, OutInv
<1>5. CASE Publishing(c)
  <2>1. pc[c] \notin {"flush", "push"}
    BY <1>5 DEF Publishing, Retain, Match, Deliver, Write, Send, Step
  <2> QED BY <2>1 DEF OutKept, PushKept, OutInv
<1>6. CASE Closing(c)
  <2>1. pc[c] # "flush" /\ (pc[c] = "push" => Push(c))
    BY <1>6 DEF Closing, Unhook, Forget, Close, Closed, Cleanup, Drain, Push, Mark, Signal, Wait,
                Unsubscribe, CloseQueue, OffDisconnect, OffWrite, Step
  <2> QED BY <2>1 DEF OutKept, PushKept, OutInv
<1>7. CASE Writer(c) \/ Kick(c)
  <2>1. pc' = pc /\ loc' = loc /\ at' = at
    BY <1>7 DEF Writer, Take, Handle, Offline, Ping, Gone, Kick
  <2> QED BY <2>1 DEF OutKept, PushKept
<1> QED BY <1>1, <1>2, <1>3, <1>4, <1>5, <1>6, <1>7 DEF Moves, Reader

(* CurKept, for every step. *)
LEMMA CurStep ==
  ASSUME ReaderType, LocalInv, NEW c \in Conns, Moves(c)
  PROVE  CurKept(c)
<1> SUFFICES ASSUME pc'[c] \in {"write", "send"}, ~Deliver(c), ~Write(c)
             PROVE  pc'[c] = pc[c] /\ loc'[c].cur = loc[c].cur
  <2>1. Write(c) => pc[c] = "write" /\ loc' = loc
    BY DEF Write
  <2> QED BY <2>1 DEF CurKept
<1> USE DEF ReaderType, LocalType
<1>1. \A out, then : Reply(c, out, then) => pc'[c] \in {then, "flush"}
  BY ReplyAt
<1>2. ~Packet(c)
  <2>1. ASSUME NEW p \in Connects[c], NEW ok \in AuthResults, Connect(c, p, ok)
        PROVE  pc'[c] \in {"check", "flush", "create", "disconnect"}
    BY <1>1, <2>1 DEF Connect, Go
  <2>2. ASSUME NEW p \in Publishes[c], Publish(c, p)
        PROVE  pc'[c] \in {"flush", "match", "retain"}
    BY <2>2 DEF Publish, Go, Then
  <2>3. ASSUME NEW t, Subscribe(c, t) \/ UnSubscribe(c, t)
        PROVE  pc'[c] \in {"insert", "check", "flush", "removeTopics"}
    BY <1>1, <2>3 DEF Subscribe, UnSubscribe, Go
  <2>4. ASSUME Acknowledge(c) \/ Disconnect(c) \/ Drop(c)
        PROVE  pc'[c] \in {"check", "flush", "close", "unhook"}
    BY <1>1, <2>4 DEF Acknowledge, Disconnect, Drop, Step, Go
  <2> QED BY <2>1, <2>2, <2>3, <2>4 DEF Packet
<1>3. ~Check(c)
  BY DEF Check, Go
<1>4. Flush(c) => pc' = pc /\ loc' = loc
  <2>1. Flush(c) => loc[c].then \in {"check", "hookDisconnect", "retain", "match"}
    BY DEF Flush, LocalInv, ReaderAt
  <2> QED BY <1>1, <2>1 DEF Flush
<1>5. ~Connecting(c)
  <2>1. ~DoDisconnect(c) /\ ~Create(c)
    BY DEF DoDisconnect, AfterDisconnect, Adopt, Create, Go
  <2>2. ~Replay(c) /\ ~Finish(c)
    BY <1>1 DEF Replay, Finish
  <2>3. ~HookDisconnect(c) /\ ~HookWrite(c)
    BY DEF HookDisconnect, HookWrite, Step, Go
  <2> QED BY <2>1, <2>2, <2>3 DEF Connecting
<1>6. ~Subscribing(c)
  <2>1. ~Insert(c) /\ ~AddTopic(c)
    <3>1. Reply(c, <<Own("suback", c)>>, "check") => pc'[c] \in {"check", "flush"}
      BY <1>1
    <3>2. ~Insert(c)
      BY <3>1 DEF Insert, Go
    <3> QED BY <3>2 DEF AddTopic, Step, Go
  <2>2. ~FetchRetained(c)
    BY <1>1, SMTT(20) DEF FetchRetained
  <2>3. ~RemoveTopic(c)
    BY <1>1 DEF RemoveTopic
  <2> QED BY <2>1, <2>2, <2>3 DEF Subscribing
<1>7. ~Retain(c) /\ ~Match(c)
  BY DEF Retain, Match, Step, Go, Rest
<1>8. Send(c) => pc' = pc /\ loc' = loc
  BY DEF Send, Go, Rest
<1>9. ~Closing(c)
  <2>1. ~Closed(c)
    BY DEF Closed, AfterDisconnect, Adopt, Go
  <2>2. ~Unhook(c) /\ ~Forget(c) /\ ~Close(c) /\ ~Cleanup(c) /\ ~Mark(c)
    BY DEF Unhook, Forget, Close, Cleanup, Mark, Step, Go
  <2>3. ~Drain(c) /\ ~Push(c) /\ ~Signal(c) /\ ~Wait(c)
    BY DEF Drain, Push, Signal, Wait, Step, Go
  <2>4. ~Unsubscribe(c) /\ ~CloseQueue(c) /\ ~OffDisconnect(c) /\ ~OffWrite(c)
    BY DEF Unsubscribe, CloseQueue, OffDisconnect, OffWrite, Step, Go
  <2> QED BY <2>1, <2>2, <2>3, <2>4 DEF Closing
<1>10. Writer(c) \/ Kick(c) => pc' = pc /\ loc' = loc
  BY DEF Writer, Take, Handle, Offline, Ping, Gone, Kick
<1> QED
  BY <1>2, <1>3, <1>4, <1>5, <1>6, <1>7, <1>8, <1>9, <1>10 DEF Moves, Reader, Publishing


(* A connection with a session keeps it until it has closed itself. *)
LEMMA OwnerKeeps ==
  ASSUME TypeOK, Inv, NEW c \in Conns, Moves(c), NEW d \in Conns, Session(d) # None
  PROVE  Session(d)' = Session(d) \/ (d = c /\ OffWrite(c) /\ conn[c].connected)
<1>1. LocalInv /\ SharedInv
  BY DEF Inv
<1>2. SessionFrame(c)
  BY <1>1, SessionStep
<1>3. DoDisconnect(c) \/ Create(c) => d # c
  BY Homeless
<1>4. OffWrite(c) => conn[c].connected \/ Session(c) = None
  <2>1. OffWrite(c) => pc[c] = "offWrite"
    BY DEF OffWrite, Step
  <2> QED BY <1>1, <2>1 DEF SharedInv, ConnInv, Adopting
<1> QED BY <1>2, <1>3, <1>4, AdoptedStep DEF SessionFrame, OwnersKept, Session

(* A session that may be known stays so. *)
LEMMA BornStays ==
  ASSUME TypeOK, Inv, NEW c \in Conns, Moves(c), NEW s \in Conns, Born(s)
  PROVE  Born(s)'
<1>1. LocalInv /\ SharedInv /\ ConnType
  BY DEF Inv, TypeOK
<1>2. SessionFrame(c)
  BY <1>1, SessionStep
<1>3. \A d \in Conns : conn[d].connected => conn'[d].connected
  BY <1>1, <1>2 DEF SessionFrame, ConnectedKept, Finish, ConnType
<1>4. CASE conn[s].connected
  BY <1>3, <1>4 DEF Born
<1>5. CASE Session(s) # None
  <2>1. Session(s)' = Session(s) \/ conn[s].connected
    BY <1>5, OwnerKeeps
  <2> QED BY <1>4, <1>5, <2>1 DEF Born
<1> QED BY <1>4, <1>5 DEF Born

(* A delivery goes to a session of the table. *)
LEMMA DeliverMoves ==
  ASSUME ReaderType, NEW c \in Conns, Deliver(c)
  PROVE  \/ pc'[c] \in {"deliver", "check", "cleanup"}
         \/ pc'[c] = "write" /\ \E i \in Clients : group[i] # None /\ loc'[c].cur = group[i]
<1>1. ASSUME NEW s, loc' = [loc EXCEPT ![c] = [loc[c] EXCEPT !.todo = loc[c].todo \ {s}, !.cur = Get(s.client)]],
             Go(c, IF Get(s.client) = None THEN Rest(c, loc[c].todo \ {s}) ELSE "write")
      PROVE  \/ pc'[c] \in {"deliver", "check", "cleanup"}
             \/ pc'[c] = "write" /\ \E i \in Clients : group[i] # None /\ loc'[c].cur = group[i]
  <2>1. loc'[c].cur = Get(s.client)
    BY <1>1 DEF ReaderType, LocalType
  <2>2. CASE Get(s.client) = None
    BY <1>1, <2>2 DEF Go, Rest, ReaderType
  <2>3. CASE Get(s.client) # None
    <3>1. pc'[c] = "write"
      BY <1>1, <2>3 DEF Go, ReaderType
    <3>2. s.client \in Clients /\ Get(s.client) = group[s.client]
      BY <2>3 DEF Get
    <3> QED BY <2>1, <2>3, <3>1, <3>2
  <2> QED BY <2>2, <2>3
<1> QED BY <1>1, Zenon DEF Deliver

(* Every step keeps what SettledInv says of sessions that are written to. *)
LEMMA SettledStep ==
  ASSUME TypeOK, Inv, SettledInv, TypeOK', NEW c \in Conns, Moves(c)
  PROVE  SettledInv'
<1>1. ReaderType /\ SessionType(Item) /\ LocalInv /\ SharedInv /\ SessionType(Item)'
  BY DEF TypeOK, Inv
<1>2. OnlyReader(c) /\ CurKept(c) /\ StoredFrame(c) /\ SessionFrame(c)
  BY <1>1, StepIsLocal, CurStep, StoredStep, SessionStep DEF Moves
<1>3. ASSUME NEW s \in Conns, sess'[s].offlineQueue # <<>>
      PROVE  Born(s)'
  <2>1. sess'[s].offlineQueue \in Seq(Item)
    BY <1>1 DEF SessionType, SessionRecord
  <2>2. PICK m : m \in Elements(sess'[s].offlineQueue)
    BY <1>3, <2>1, ElementsOf
  <2>3. CASE m \in Elements(sess[s].offlineQueue)
    <3>1. sess[s].offlineQueue # <<>>
      BY <2>3, ElementsOf
    <3> QED BY <3>1, BornStays DEF SettledInv
  <2>4. CASE Stores(c, s, m)
    <3>1. Born(s)
      <4>1. CASE Write(c) /\ s = loc[c].cur
        BY <4>1 DEF Write, SettledInv
      <4>2. CASE Push(c) /\ s = Session(at[c])
        <5>1. at[c] \in Conns
          BY <1>1, <4>2 DEF Push, Step, LocalInv, ReaderAt, CloseLabels, ReaderType
        <5> QED BY <1>1, <4>2, <5>1, NoneApart DEF SharedInv, BornInv
      <4>3. CASE Offline(c) /\ s = Session(c)
        BY <1>1, <4>3, NoneApart DEF SharedInv, BornInv
      <4> QED BY <2>4, <4>1, <4>2, <4>3 DEF Stores
    <3> QED BY <3>1, BornStays
  <2> QED BY <1>2, <2>2, <2>3, <2>4 DEF StoredFrame
<1>4. ASSUME NEW d \in Conns, pc'[d] \in {"write", "send"}
      PROVE  Born(loc[d].cur)'
  <2>1. CASE pc[d] \in {"write", "send"} /\ loc'[d].cur = loc[d].cur
    <3>1. loc[d].cur \in Conns /\ Born(loc[d].cur)
      BY <1>1, <2>1 DEF LocalInv, ReaderAt, SettledInv
    <3>2. Born(loc[d].cur)' <=> conn'[loc'[d].cur].connected \/ conn'[loc'[d].cur].session # None
      BY DEF Born, Session
    <3>3. conn'[loc[d].cur].connected \/ conn'[loc[d].cur].session # None
      <4> DEFINE x == loc[d].cur
      <4>1. ASSUME NEW y \in Conns, Born(y) PROVE conn'[y].connected \/ conn'[y].session # None
        BY <4>1, BornStays DEF Born, Session
      <4> QED BY <3>1, <4>1
    <3> QED BY <2>1, <3>2, <3>3
  <2>2. CASE d = c /\ Deliver(c)
    <3>1. PICK i \in Clients : group[i] # None /\ loc'[c].cur = group[i]
      BY <1>1, <1>4, <2>2, DeliverMoves
    <3>2. conn' = conn
      BY <2>2 DEF Deliver
    <3>3. Born(group[i])
      BY <1>1, <3>1 DEF SharedInv, BornInv
    <3> QED BY <2>2, <3>1, <3>2, <3>3 DEF Born, Session
  <2>3. d # c => pc'[d] = pc[d] /\ loc'[d] = loc[d]
    BY <1>2 DEF OnlyReader
  <2>4. Write(c) => pc[c] = "write"
    BY DEF Write
  <2> QED BY <1>2, <1>4, <2>1, <2>2, <2>3, <2>4 DEF CurKept
<1>5. ASSUME NEW d \in Conns, pc'[d] = "send"
      PROVE  sess'[loc'[d].cur].onWrite # None
  <2>1. CASE d = c /\ Write(c) /\ loc'[c].cur = loc[c].cur
    <3>1. sess' = sess /\ sess[loc[c].cur].onWrite # None
      BY <1>1, <1>5, <2>1 DEF Write, Go, Rest, Acquire, ReaderType
    <3> QED BY <2>1, <3>1
  <2>2. CASE pc[d] = "send" /\ loc'[d].cur = loc[d].cur
    <3> DEFINE x == loc[d].cur
    <3>1. x \in Conns /\ Born(x) /\ sess[x].onWrite # None /\ lock[x] = d
      BY <1>1, <2>2 DEF LocalInv, ReaderAt, SettledInv, SharedInv, LockInv
    <3> HIDE DEF x
    <3>2. CASE HooksKept
      BY <3>1, <3>2, <2>2 DEF HooksKept, x
    <3>3. CASE Create(c)
      <4>1. x # c
        BY <3>1, <3>3, Homeless DEF Born
      <4>2. sess'[x] = sess[x]
        BY <1>1, <3>1, <3>3, <4>1 DEF Create, New, SessionType
      <4> QED BY <2>2, <3>1, <4>2 DEF x
    <3>4. CASE HookWrite(c)
      <4>1. sess'[x].onWrite = IF x = Session(c) THEN c ELSE sess[x].onWrite
        BY <1>1, <3>1, <3>4 DEF HookWrite, WithOnWrite, SessionType, SessionRecord
      <4> QED BY <2>2, <3>1, <4>1, NoneApart DEF x
    <3>5. CASE OffWrite(c)
      <4>1. Free(Session(at[c]))
        BY <3>5 DEF OffWrite, WithOnWrite
      <4>2. x # Session(at[c])
        BY <3>1, <4>1, NoneApart DEF Free
      <4>3. sess'[x] = sess[x]
        BY <1>1, <3>1, <3>5, <4>2 DEF OffWrite, WithOnWrite, SessionType
      <4> QED BY <2>2, <3>1, <4>3 DEF x
    <3> QED BY <1>2, <3>2, <3>3, <3>4, <3>5 DEF SessionFrame
  <2>3. d # c => pc'[d] = pc[d] /\ loc'[d] = loc[d]
    BY <1>2 DEF OnlyReader
  <2>4. ~(d = c /\ Deliver(c))
    BY <1>1, <1>5, DeliverMoves
  <2> QED BY <1>2, <1>5, <2>1, <2>2, <2>3, <2>4 DEF CurKept
<1> QED BY <1>3, <1>4, <1>5 DEF SettledInv


(* Every step keeps the numbered messages publications. *)
LEMMA SoundStep ==
  ASSUME TypeOK, Inv, OutInv, HandInv, SettledInv, SoundInv, NEW c \in Conns, Moves(c)
  PROVE  SoundInv'
<1>1. ReaderType /\ WriterType /\ QueueType /\ TopicType /\ SessionType(Item) /\ LocalInv /\ SharedInv
  BY DEF TypeOK, Inv
<1>2. /\ OnlyReader(c) /\ QueueFrame(c) /\ StoredFrame(c) /\ HandFrame(c) /\ MsgFrame(c) /\ StoreFrame(c)
  BY <1>1, StepIsLocal, QueueStep, StoredStep, HandMoves, MsgStep, StoreStep DEF Moves
<1>3. \A e \in Conns : /\ \A m \in Elements(queue[e]) : Sound(m)
                       /\ \A m \in Elements(loc[e].out) : Sound(m)
                       /\ hand[e] # None => Sound(hand[e])
                       /\ loc[e].msg # None => Sound(loc[e].msg)
                       /\ \A m \in Elements(sess[e].offlineQueue) : Sound(m)
  BY DEF SoundInv
<1>4. \A e \in Conns, kind \in {"will", "connack", "suback", "ack", "pingreq"} : Sound(Own(kind, e))
  BY DEF Sound, Own
<1>5. ASSUME NEW d \in Conns, NEW m \in Elements(queue'[d])
      PROVE  Sound(m)
  <2>1. CASE Enters(c, d, m)
    <3>1. CASE Flush(c) /\ loc[c].out # <<>> /\ m = Head(loc[c].out)
      <4>1. loc[c].out \in Seq(Item)
        BY <1>1 DEF ReaderType, LocalType
      <4>2. m \in Elements(loc[c].out)
        BY <3>1, <4>1, ElementsOf
      <4> QED BY <1>3, <4>2
    <3>2. CASE Send(c) /\ m = loc[c].msg
      <4>1. loc[c].msg \in Item
        BY <1>1, <3>2 DEF Send, LocalInv, ReaderAt, PublishLabels
      <4> QED BY <1>3, <3>2, <4>1, ItemAssumption
    <3>3. CASE m = Own("pingreq", c)
      BY <1>4, <3>3
    <3> QED BY <2>1, <3>1, <3>2, <3>3 DEF Enters
  <2> QED BY <1>2, <1>3, <2>1 DEF QueueFrame
<1>6. ASSUME NEW d \in Conns, NEW m \in Elements(loc'[d].out)
      PROVE  Sound(m)
  <2>1. CASE d # c
    BY <1>2, <1>3, <2>1 DEF OnlyReader
  <2>2. CASE d = c
    <3>1. loc'[c].out # <<>>
      BY <2>2, ElementsOf
    <3>2. OutSource(c, m)
      BY <2>2, <3>1, OutContents
    <3>3. CASE Replay(c) /\ \E x \in Elements(sess[Session(c)].offlineQueue) : m = Recast("replay", x)
      <4>1. Session(c) \in Conns
        BY <1>1, <3>3, HasSession DEF TypeOK, SharedInv, Replay, Adopting
      <4>2. \A x \in Elements(sess[Session(c)].offlineQueue) : x \in Item
        <5>1. sess[Session(c)].offlineQueue \in Seq(Item)
          BY <1>1, <4>1 DEF SessionType, SessionRecord
        <5> QED BY <5>1, ElementsOf
      <4> QED BY <1>3, <3>3, <4>1, <4>2, RecastOf
    <3>4. CASE m \in Elements(loc[c].out)
      BY <1>3, <3>4
    <3>5. CASE m.n = 0
      BY <3>5 DEF Sound
    <3> QED BY <3>2, <3>3, <3>4, <3>5 DEF OutSource
  <2> QED BY <2>1, <2>2
<1>7. ASSUME NEW d \in Conns, hand'[d] # None
      PROVE  Sound(hand'[d])
  BY <1>2, <1>3, <1>7 DEF HandFrame
<1>8. ASSUME NEW d \in Conns, loc'[d].msg # None
      PROVE  Sound(loc'[d].msg)
  <2>1. CASE d # c
    BY <1>2, <1>3, <1>8, <2>1 DEF OnlyReader
  <2>2. CASE HandlesPublish(c)
    <3>1. PICK p \in Publishes[c] : Publish(c, p)
      BY <2>2 DEF HandlesPublish
    <3>2. loc'[c].msg = [kind |-> "live", src |-> c, n |-> sent[c] + 1]
      BY <1>1, <3>1 DEF Publish, ReaderType, LocalType
    <3> QED BY <2>1, <3>2 DEF Sound, IsPublish
  <2>3. CASE Check(c)
    BY <1>1, <1>8, <2>1, <2>3 DEF Check, Idle, ReaderType
  <2>4. CASE Close(c)
    <3>1. loc' = loc \/ loc' = [loc EXCEPT ![c] = [loc[c] EXCEPT !.msg = Own("will", at[c]), !.topic = conn[at[c]].will]]
      BY <2>4 DEF Close
    <3>2. at[c] \in Conns
      BY <1>1, <2>4 DEF Close, LocalInv, ReaderAt, ReaderType
    <3>3. loc'[c].msg = loc[c].msg \/ loc'[c].msg = Own("will", at[c])
      BY <1>1, <3>1 DEF ReaderType, LocalType
    <3> QED BY <1>3, <1>4, <1>8, <2>1, <3>2, <3>3
  <2>5. CASE Drain(c)
    <3>1. at[c] \in Conns
      BY <1>1, <2>5 DEF Drain, LocalInv, ReaderAt, CloseLabels, ReaderType
    <3>2. loc'[c].msg = loc[c].msg \/ (queue[at[c]] # <<>> /\ loc'[c].msg = Head(queue[at[c]]))
      BY <1>1, <2>5 DEF Drain, ReaderType, LocalType
    <3>3. queue[at[c]] # <<>> => Head(queue[at[c]]) \in Elements(queue[at[c]])
      BY <1>1, <3>1, ElementsOf DEF QueueType
    <3> QED BY <1>3, <1>8, <2>1, <3>1, <3>2, <3>3
  <2> QED BY <1>2, <1>3, <1>8, <2>1, <2>2, <2>3, <2>4, <2>5 DEF MsgFrame
<1>9. ASSUME NEW s \in Conns, NEW m \in Elements(sess'[s].offlineQueue)
      PROVE  Sound(m)
  <2>1. CASE Stores(c, s, m)
    <3>1. Write(c) \/ Push(c) => loc[c].msg \in Item
      BY <1>1 DEF Write, Push, Step, LocalInv, ReaderAt, PublishLabels
    <3>2. Offline(c) => hand[c] \in Item
      BY <1>1 DEF Offline, WStep, LocalInv, WriterAt
    <3> QED BY <1>3, <2>1, <3>1, <3>2, ItemAssumption DEF Stores
  <2> QED BY <1>2, <1>3, <2>1 DEF StoredFrame
<1>10. ASSUME NEW t \in Topics, retained'[t] # None
       PROVE  Sound(retained'[t])
  <2>1. CASE retained' = retained
    BY <1>10, <2>1 DEF SoundInv
  <2>2. CASE Retain(c)
    <3>1. retained'[t] \in {retained[t], loc[c].msg, None}
      BY <1>1, <2>2 DEF Retain, TopicType
    <3> QED BY <1>3, <1>10, <3>1 DEF SoundInv
  <2> QED BY <1>2, <2>1, <2>2 DEF StoreFrame
<1> QED BY <1>5, <1>6, <1>7, <1>8, <1>9, <1>10 DEF SoundInv


-----------------------------------------------------------------------------
(* A message is held as long as a session owes it. *)

(* Where a receipt's message may be after a step. *)
LEMMA HeldNext ==
  ASSUME NEW a
  PROVE  /\ Has(sess'[a.session].offlineQueue, a) => Held(a)'
         /\ \A e \in Conns : Session(e)' = a.session /\ open'[e] /\ Has(queue'[e], a) => Held(a)'
         /\ \A e \in Conns : Session(e)' = a.session /\ Has(loc'[e].out, a) => Held(a)'
         /\ \A e \in Conns : Session(e)' = a.session /\ hand'[e] # None
                             /\ hand'[e].src = a.src /\ hand'[e].n = a.n => Held(a)'
         /\ \A e \in Conns : pc'[e] = "push" /\ conn'[at'[e]].session = a.session
                             /\ loc'[e].msg.src = a.src /\ loc'[e].msg.n = a.n => Held(a)'
  BY DEF Held, Has, With, Elements, Session

(* A recast message is still there. *)
LEMMA RecastIn ==
  ASSUME NEW q \in Seq(Item), NEW x \in Elements(q)
  PROVE  Recast("replay", x) \in Elements(As("replay", q))
<1>1. PICK i \in DOMAIN q : x = q[i]
  BY DEF Elements
<1>2. DOMAIN As("replay", q) = DOMAIN q /\ As("replay", q)[i] = Recast("replay", x)
  BY <1>1 DEF As, Recast
<1> QED BY <1>2 DEF Elements

(* What a closer or a writer puts into an offline queue is there, or its
   receipt is gone. *)
LEMMA StoredIsKept ==
  ASSUME TypeOK, Inv, NEW c \in Conns, Moves(c), NEW a \in accepted, a \in accepted', a.session \in Conns,
         NEW m \in Item, m.src = a.src, m.n = a.n, Stores(c, a.session, m), ~Write(c)
  PROVE  Held(a)'
<1>1. a = [session |-> a.session, src |-> a.src, n |-> a.n]
  BY DEF TypeOK, HistoryType
<1>2. Pushing(a.session, m)
  BY DEF Stores, Push, Offline
<1>3. ~Full(a.session)
  BY <1>1, <1>2 DEF Pushing, Receipt
<1>4. m \in Elements(sess'[a.session].offlineQueue)
  BY <1>3, StoredStep DEF StoredFrame
<1>5. Has(sess'[a.session].offlineQueue, a)
  BY <1>4 DEF Has
<1> QED BY <1>5, HeldNext

(* A receipt is what it is made of. *)
LEMMA ReceiptOf ==
  ASSUME HistoryType, NEW a \in accepted, NEW m, m.src = a.src, m.n = a.n
  PROVE  a = Receipt(a.session, m)
  BY DEF HistoryType, Receipt

(* The queue of a session's connection is closed only when the session is
   clean, and what it holds is then owed no more. *)
LEMMA CloseDiscards ==
  ASSUME TypeOK, Inv, CleanInv, NEW c \in Conns, CloseQueue(c), NEW a \in accepted, a \in accepted',
         Session(at[c]) = a.session, a.session \in Conns, open[at[c]], Has(queue[at[c]], a)
  PROVE  FALSE
<1> DEFINE o == at[c]
<1>1. o \in Conns /\ queue[o] \in Seq(Item)
  BY DEF TypeOK, ReaderType, QueueType, Inv, LocalInv, ReaderAt, CloseLabels, CloseQueue
<1>2. conn[o].cleanSession
  <2>1. Lets(o)
    BY DEF CleanInv, Ending, CloseQueue
  <2> QED BY <2>1, NoneApart DEF Lets
<1>3. PICK i \in DOMAIN queue[o] : queue[o][i].src = a.src /\ queue[o][i].n = a.n
  BY DEF Has, Elements
<1>4. a = Receipt(a.session, queue[o][i])
  BY <1>3, ReceiptOf DEF TypeOK
<1>5. a \in Discarded(o)
  BY <1>2, <1>4 DEF Discarded
<1> QED BY <1>5 DEF CloseQueue

(* A message that a session's connection has in its open queue. *)
LEMMA QueuedIsKept ==
  ASSUME TypeOK, Inv, EndInv, OrderInv, SoundInv, SettledInv, CleanInv, NEW c \in Conns, Moves(c),
         NEW a \in accepted, a \in accepted', a.session \in Conns, a.n > 0, NEW e \in Conns,
         Session(e) = a.session, open[e], Has(queue[e], a)
  PROVE  Held(a)'
<1>1. ReaderType /\ QueueType /\ LocalInv /\ QueueFrame(c) /\ StoreFrame(c)
  BY QueueStep, StoreStep DEF TypeOK, Inv
<1>2. PICK m \in Elements(queue[e]) : m.src = a.src /\ m.n = a.n
  BY DEF Has
<1>3. m \in Item /\ Sound(m)
  BY <1>1, <1>2, ElementsOf DEF QueueType, SoundInv
<1>4. ~(OffWrite(c) /\ e = c)
  <2>1. OffWrite(c) => pc[c] = "offWrite" /\ at[c] = c
    BY OwnClose DEF Inv, OffWrite, Step
  <2> QED BY <2>1 DEF EndInv, CloseInv
<1>5. open'[e]
  <2>1. CASE CloseQueue(c)
    <3>1. at[c] # e
      BY <2>1, CloseDiscards
    <3> QED BY <1>1, <2>1, <3>1 DEF CloseQueue, QueueType
  <2> QED BY <1>1, <2>1 DEF StoreFrame
<1>6. Session(e)' = a.session
  BY <1>4, OwnerKeeps, NoneApart
<1>7. CASE m \in Elements(queue'[e])
  <2>1. Has(queue'[e], a)
    BY <1>2, <1>7 DEF Has
  <2> QED BY <1>5, <1>6, <2>1, HeldNext
<1>8. CASE Take(c) /\ e = c /\ hand'[c] = m
  BY <1>2, <1>3, <1>6, <1>8, ItemAssumption, HeldNext
<1>9. CASE Drain(c) /\ e = at[c] /\ pc'[c] = "push" /\ loc'[c].msg = m
  <2>1. at'[c] = e
    BY <1>9 DEF Drain
  <2>2. conn'[at'[c]].session = a.session
    BY <1>6, <2>1 DEF Session
  <2> QED BY <1>2, <1>9, <2>2, HeldNext
<1>10. m.kind # "pingreq"
  BY <1>2, <1>3 DEF Sound, IsPublish
<1> QED BY <1>1, <1>7, <1>8, <1>9, <1>10 DEF QueueFrame, Passes

(* A message in an offline queue stays there until it is replayed. *)
LEMMA OfflineIsKept ==
  ASSUME TypeOK, Inv, SettledInv, NEW c \in Conns, Moves(c), NEW a, a.session \in Conns,
         Has(sess[a.session].offlineQueue, a)
  PROVE  Held(a)'
<1>1. SessionType(Item) /\ ReaderType /\ StoredFrame(c)
  BY StoredStep DEF TypeOK
<1>2. PICK m \in Elements(sess[a.session].offlineQueue) : m.src = a.src /\ m.n = a.n
  BY DEF Has
<1>3. sess[a.session].offlineQueue # <<>> /\ sess[a.session].offlineQueue \in Seq(Item)
  BY <1>1, <1>2, ElementsOf DEF SessionType, SessionRecord
<1>4. CASE m \in Elements(sess'[a.session].offlineQueue)
  <2>1. Has(sess'[a.session].offlineQueue, a)
    BY <1>2, <1>4 DEF Has
  <2> QED BY <2>1, HeldNext
<1>5. CASE Create(c) /\ a.session = c
  <2>1. Session(c) = None /\ ~conn[c].connected
    BY <1>5, Homeless
  <2> QED BY <1>3, <1>5, <2>1 DEF SettledInv, Born
<1>6. CASE Replay(c) /\ a.session = Session(c)
  <2> DEFINE q == sess[Session(c)].offlineQueue
  <2>1. loc'[c].out = As("replay", q)
    BY <1>1, <1>6, ReplyAt DEF Replay
  <2>2. Recast("replay", m) \in Elements(loc'[c].out)
    BY <1>2, <1>3, <1>6, <2>1, RecastIn
  <2>3. Recast("replay", m).src = a.src /\ Recast("replay", m).n = a.n
    <3>1. m \in Item
      BY <1>2, <1>3, ElementsOf
    <3> QED BY <1>2, <3>1 DEF Recast, Item
  <2>4. Has(loc'[c].out, a)
    BY <2>2, <2>3 DEF Has
  <2>5. Session(c)' = a.session
    BY <1>6 DEF Replay, Session
  <2> QED BY <2>4, <2>5, HeldNext
<1> QED BY <1>1, <1>2, <1>4, <1>5, <1>6 DEF StoredFrame

(* What a handler has yet to write goes to the queue of its connection. *)
LEMMA OutIsKept ==
  ASSUME TypeOK, Inv, OrderInv, NEW c \in Conns, Moves(c), NEW a, a.session \in Conns,
         NEW e \in Conns, Session(e) = a.session, Has(loc[e].out, a)
  PROVE  Held(a)'
<1>1. ReaderType /\ LocalInv /\ SharedInv /\ OutInv
  BY DEF TypeOK, Inv, OrderInv
<1>2. OnlyReader(c) /\ OutKept(c)
  BY <1>1, StepIsLocal, KeptStep DEF Moves
<1>3. PICK m \in Elements(loc[e].out) : m.src = a.src /\ m.n = a.n
  BY DEF Has
<1>4. loc[e].out # <<>>
  BY <1>3, ElementsOf
<1>5. Session(e)' = a.session
  <2>1. pc[e] = "flush"
    BY <1>1, <1>4 DEF OutInv
  <2>2. ~(e = c /\ OffWrite(c))
    BY <2>1 DEF OffWrite, Step
  <2> QED BY <2>2, OwnerKeeps, NoneApart
<1>6. CASE loc'[e].out = loc[e].out
  BY <1>5, <1>6, HeldNext
<1>7. CASE Flush(c) /\ e = c
  <2>1. m \in Elements(loc'[e].out) \/ (open'[e] /\ m \in Elements(queue'[e]))
    BY <1>3, <1>7, FlushMoves
  <2>2. Has(loc'[e].out, a) \/ (open'[e] /\ Has(queue'[e], a))
    BY <1>3, <2>1 DEF Has
  <2> QED BY <1>5, <2>2, HeldNext
<1> QED BY <1>2, <1>4, <1>6, <1>7 DEF OnlyReader, OutKept

(* The writer puts what it has taken into the offline queue, or is done with it. *)
LEMMA HandIsKept ==
  ASSUME TypeOK, Inv, EndInv, OrderInv, SoundInv, NEW c \in Conns, Moves(c),
         NEW a \in accepted, a \in accepted', a.session \in Conns, a.n > 0,
         NEW e \in Conns, Session(e) = a.session, hand[e] # None, hand[e].src = a.src, hand[e].n = a.n
  PROVE  Held(a)'
<1>1. WriterType /\ LocalInv /\ HandInv /\ HandFrame(c)
  BY HandMoves DEF TypeOK, Inv, OrderInv
<1>2. hand[e] \in Item /\ IsPublish(hand[e])
  <2>1. hand[e] \in Item /\ Sound(hand[e])
    BY <1>1 DEF WriterType, SoundInv
  <2> QED BY <2>1 DEF Sound
<1>3. Session(e)' = a.session
  <2>1. ASSUME e = c, OffWrite(c)
        PROVE  FALSE
    <3>1. pc[c] = "offWrite" /\ at[c] = c
      BY <2>1, OwnClose DEF OffWrite, Step, Inv
    <3>2. wpc[c] = "gone"
      BY <3>1 DEF EndInv, CloseInv, Unsubscribed
    <3> QED BY <1>1, <2>1, <3>2 DEF HandInv
  <2> QED BY <2>1, OwnerKeeps, NoneApart
<1>4. CASE hand'[e] = hand[e]
  BY <1>3, <1>4, HeldNext
<1>5. ~(e = c /\ Receipt(Session(c), hand[c]) \notin accepted')
  <2>1. a = Receipt(a.session, hand[e])
    BY ReceiptOf DEF TypeOK
  <2> QED BY <2>1
<1>6. CASE e = c /\ Offline(c)
  <2>1. Stores(c, a.session, hand[c]) /\ ~Write(c)
    BY <1>1, <1>6, StoresApart DEF Stores
  <2> QED BY <1>2, <1>6, <2>1, StoredIsKept
<1>7. Session(e) # None
  BY NoneApart
<1> QED BY <1>1, <1>4, <1>5, <1>6, <1>7 DEF HandFrame

(* A closer puts the message it has taken into the offline queue. *)
LEMMA PushIsKept ==
  ASSUME TypeOK, Inv, EndInv, OrderInv, NEW c \in Conns, Moves(c),
         NEW a \in accepted, a \in accepted', a.session \in Conns,
         NEW e \in Conns, pc[e] = "push", Session(at[e]) = a.session,
         loc[e].msg.src = a.src, loc[e].msg.n = a.n
  PROVE  Held(a)'
<1>1. ReaderType /\ WriterType /\ LocalInv /\ OutInv
  BY DEF TypeOK, Inv, OrderInv
<1>2. OnlyReader(c) /\ PushKept(c)
  BY <1>1, StepIsLocal, KeptStep DEF Moves
<1>3. at[e] \in Conns /\ loc[e].msg \in Item
  BY <1>1 DEF LocalInv, ReaderAt, CloseLabels, PublishLabels, ReaderType
<1>4. CASE e = c /\ Push(c)
  <2>1. Stores(c, a.session, loc[c].msg) /\ ~Write(c)
    BY <1>1, <1>4, StoresApart DEF Stores
  <2> QED BY <1>3, <1>4, <2>1, StoredIsKept
<1>5. CASE pc'[e] = pc[e] /\ loc'[e].msg = loc[e].msg /\ at'[e] = at[e]
  <2>1. ASSUME at[e] = c, OffWrite(c)
        PROVE  FALSE
    <3>1. pc[c] = "offWrite" /\ at[c] = c
      BY <2>1, OwnClose DEF OffWrite, Step, Inv
    <3>2. InBody(c) /\ InBody(e)
      BY <1>3, <3>1, NoneApart DEF InBody
    <3>3. e = c
      BY <2>1, <3>1, <3>2 DEF EndInv, CloseInv
    <3> QED BY <3>1, <3>3
  <2>2. Session(at[e])' = Session(at[e]) \/ (at[e] = c /\ OffWrite(c))
    <3>1. Session(at[e]) # None
      BY NoneApart
    <3>2. \A d \in Conns : Session(d) # None => conn'[d].session = Session(d) \/ (d = c /\ OffWrite(c))
      BY OwnerKeeps DEF Session
    <3> QED BY <1>3, <1>5, <3>1, <3>2 DEF Session
  <2>3. conn'[at'[e]].session = a.session
    BY <2>1, <2>2 DEF Session
  <2> QED BY <1>5, <2>3, HeldNext
<1> QED BY <1>2, <1>4, <1>5 DEF OnlyReader, PushKept

(* A message stays in one of its places, whatever step is made. *)
LEMMA HeldStays ==
  ASSUME TypeOK, Inv, EndInv, OrderInv, SoundInv, SettledInv, CleanInv, NEW c \in Conns, Moves(c),
         NEW a \in accepted, a \in accepted', a.session \in Conns, a.n > 0, Held(a)
  PROVE  Held(a)'
<1>1. CASE Has(sess[a.session].offlineQueue, a)
  BY <1>1, OfflineIsKept
<1>2. ASSUME NEW e \in Conns, Session(e) = a.session, With(e, a)
      PROVE  Held(a)'
  <2>1. CASE open[e] /\ Has(queue[e], a)
    BY <1>2, <2>1, QueuedIsKept
  <2>2. CASE Has(loc[e].out, a)
    BY <1>2, <2>2, OutIsKept
  <2>3. CASE hand[e] # None /\ hand[e].src = a.src /\ hand[e].n = a.n
    BY <1>2, <2>3, HandIsKept
  <2> QED BY <1>2, <2>1, <2>2, <2>3 DEF With
<1>3. ASSUME NEW e \in Conns, pc[e] = "push", Session(at[e]) = a.session,
             loc[e].msg.src = a.src, loc[e].msg.n = a.n
      PROVE  Held(a)'
  BY <1>3, PushIsKept
<1> QED BY <1>1, <1>2, <1>3, Zenon DEF Held

(* A message is held from the moment its receipt is written. *)
LEMMA ReceiptStep ==
  ASSUME TypeOK, Inv, EndInv, SettledInv, NEW c \in Conns, Moves(c), NEW a \in accepted', a \notin accepted
  PROVE  a.session \in Conns /\ Held(a)'
<1>1. LocalInv /\ StoreFrame(c) /\ StoredFrame(c)
  BY StoreStep, StoredStep DEF Inv
<1>2. Write(c) \/ Send(c) => loc[c].cur \in Conns /\ loc[c].msg \in Item
  BY <1>1 DEF Write, Send, LocalInv, ReaderAt, PublishLabels
<1> DEFINE s == loc[c].cur
           m == loc[c].msg
<1>3. a = Receipt(s, m) => a.session = s /\ m.src = a.src /\ m.n = a.n
  BY DEF Receipt
<1>4. CASE Write(c)
  <2>1. accepted' = accepted \/ (sess[s].onWrite = None /\ ~Full(s) /\ accepted' = accepted \cup {Receipt(s, m)})
    BY <1>4 DEF Write, Accept, ghostVars
  <2>2. sess[s].onWrite = None /\ ~Full(s) /\ a = Receipt(s, m)
    BY <2>1
  <2>3. Stores(c, s, m)
    BY <1>4, <2>2 DEF Stores
  <2>4. m \in Elements(sess'[s].offlineQueue)
    BY <1>1, <1>2, <1>4, <2>2, <2>3 DEF StoredFrame
  <2>5. Has(sess'[a.session].offlineQueue, a)
    BY <1>3, <2>2, <2>4 DEF Has
  <2> QED BY <1>2, <1>3, <1>4, <2>2, <2>5, HeldNext
<1>5. CASE Send(c)
  <2>1. PICK d \in Conns : /\ d = sess[s].onWrite /\ open'[d]
                           /\ Elements(queue'[d]) = Elements(queue[d]) \cup {m}
    BY <1>5, SendMoves
  <2>2. a = Receipt(s, m)
    BY <1>5, SendMoves
  <2>3. Session(d) = s
    BY <1>2, <1>5, <2>1 DEF EndInv, WriteHookInv
  <2>4. conn' = conn
    BY <1>5 DEF Send
  <2>5. Session(d)' = a.session
    BY <1>3, <2>2, <2>3, <2>4 DEF Session
  <2>6. Has(queue'[d], a)
    BY <1>3, <2>1, <2>2 DEF Has
  <2> QED BY <1>2, <1>3, <1>5, <2>1, <2>2, <2>5, <2>6, HeldNext
<1>6. CASE Push(c) \/ Offline(c) \/ Handle(c) \/ CloseQueue(c)
  <2>1. accepted' \subseteq accepted
    BY <1>6 DEF Push, Offline, Pushing, Handle, CloseQueue
  <2> QED BY <2>1
<1> QED BY <1>1, <1>4, <1>5, <1>6 DEF StoreFrame

(* What a session owes is still held. *)
LEMMA HeldStep ==
  ASSUME TypeOK, Inv, EndInv, OrderInv, KeepInv, NEW c \in Conns, Moves(c)
  PROVE  HeldInv'
<1> SUFFICES ASSUME NEW a \in accepted' PROVE a.session \in Conns /\ (a.n > 0 => Held(a)')
  BY DEF HeldInv
<1>1. CASE a \in accepted
  <2>1. a.session \in Conns /\ (a.n > 0 => Held(a))
    BY <1>1 DEF KeepInv, HeldInv
  <2> QED BY <1>1, <2>1, HeldStays DEF KeepInv
<1>2. CASE a \notin accepted
  BY <1>2, ReceiptStep DEF KeepInv
<1> QED BY <1>1, <1>2

(* Who says that a session is clean, and who passes the end of the cleanup. *)
CleanFrame(c) ==
  /\ Finish(c) \/ \A d \in Conns : conn'[d].cleanSession = conn[d].cleanSession
  /\ Ending(c)' => \/ Ending(c) /\ at'[c] = at[c]
                   \/ UNCHANGED <<at, conn, open>> /\ Lets(at[c])

(* CleanFrame, for every step. *)
LEMMA CleanStep ==
  ASSUME ReaderType, LocalInv, ConnType, NEW c \in Conns, Moves(c)
  PROVE  CleanFrame(c)
<1> USE DEF CleanFrame, Ending, ReaderType
<1>1. \A out, then : Reply(c, out, then) => pc'[c] \in {then, "flush"}
  BY ReplyAt
<1>2. CASE Packet(c)
  <2>1. \A d \in Conns : conn'[d].cleanSession = conn[d].cleanSession
    <3>1. CASE \E t \in Subscribes[c] : Subscribe(c, t)
      BY <3>1 DEF Subscribe, ConnType
    <3>2. CASE ~\E t \in Subscribes[c] : Subscribe(c, t)
      BY <1>2, <3>2 DEF Packet, Connect, Publish, UnSubscribe, Acknowledge, Disconnect, Drop
    <3> QED BY <3>1, <3>2
  <2>2. ~Ending(c)'
    <3>1. ASSUME NEW p \in Connects[c], NEW ok \in AuthResults, Connect(c, p, ok)
          PROVE  ~Ending(c)'
      BY <1>1, <3>1 DEF Connect, Go
    <3>2. ASSUME NEW p \in Publishes[c], Publish(c, p)
          PROVE  ~Ending(c)'
      BY <3>2 DEF Publish, Go, Then
    <3>3. ASSUME NEW t, Subscribe(c, t) \/ UnSubscribe(c, t)
          PROVE  ~Ending(c)'
      BY <1>1, <3>3 DEF Subscribe, UnSubscribe, Go
    <3>4. CASE Acknowledge(c) \/ Disconnect(c) \/ Drop(c)
      BY <1>1, <3>4 DEF Acknowledge, Disconnect, Drop, Step, Go
    <3> QED BY <1>2, <3>1, <3>2, <3>3, <3>4 DEF Packet
  <2> QED BY <2>1, <2>2
<1>3. CASE Flush(c) \/ Check(c)
  <2>1. Flush(c) => loc[c].then \in {"check", "hookDisconnect", "retain", "match"}
    BY DEF Flush, LocalInv, ReaderAt
  <2>2. ~Ending(c)' /\ conn' = conn
    BY <1>1, <1>3, <2>1 DEF Flush, Check, Go
  <2> QED BY <2>2
<1>4. CASE Connecting(c)
  <2>1. CASE DoDisconnect(c)
    BY <2>1 DEF DoDisconnect, AfterDisconnect, Adopt, Go, ConnType
  <2>2. CASE Create(c)
    BY <2>2 DEF Create, Adopt, Go, ConnType
  <2>3. CASE Replay(c) \/ Finish(c)
    BY <1>1, <2>3 DEF Replay, Finish
  <2>4. CASE HookDisconnect(c) \/ HookWrite(c)
    BY <2>4 DEF HookDisconnect, HookWrite, Step, Go
  <2> QED BY <1>4, <2>1, <2>2, <2>3, <2>4 DEF Connecting
<1>5. CASE Subscribing(c)
  <2>1. CASE Insert(c)
    <3>1. pc'[c] \in {"check", "flush", "addTopics"}
      BY <1>1, <2>1 DEF Insert, Go
    <3>2. \A d \in Conns : conn'[d].cleanSession = conn[d].cleanSession
      BY <2>1 DEF Insert, ConnType
    <3> QED BY <3>1, <3>2
  <2>2. CASE RemoveTopic(c)
    <3>1. pc'[c] \in {"check", "flush"}
      BY <1>1, <2>2 DEF RemoveTopic
    <3>2. \A d \in Conns : conn'[d].cleanSession = conn[d].cleanSession
      BY <2>2 DEF RemoveTopic, ConnType
    <3> QED BY <3>1, <3>2
  <2>3. CASE AddTopic(c)
    BY <2>3 DEF AddTopic, Step, Go
  <2>4. CASE FetchRetained(c)
    BY <1>1, <2>4, SMTT(20) DEF FetchRetained
  <2> QED BY <1>5, <2>1, <2>2, <2>3, <2>4 DEF Subscribing
<1>6. CASE Publishing(c)
  <2>1. CASE Deliver(c)
    BY <2>1, DeliverMoves DEF Deliver
  <2>2. CASE Send(c)
    BY <2>2 DEF Send, Go, Rest
  <2>3. CASE Retain(c) \/ Match(c) \/ Write(c)
    BY <2>3 DEF Retain, Match, Write, Step, Go, Rest
  <2> QED BY <1>6, <2>1, <2>2, <2>3 DEF Publishing
<1>7. CASE Closing(c)
  <2>1. CASE Closed(c)
    BY <2>1 DEF Closed, AfterDisconnect, Adopt, Go, ConnType
  <2>2. CASE Unhook(c) \/ Forget(c) \/ Close(c)
    BY <2>2 DEF Unhook, Forget, Forgotten, Close, Step, Go, ConnType
  <2>3. CASE Cleanup(c)
    BY <2>3 DEF Cleanup, Go, Persists, Lets, queueVars
  <2>4. CASE Drain(c)
    BY <2>4 DEF Drain, Go, Lets
  <2>5. CASE Push(c)
    BY <2>5 DEF Push, Step, Go
  <2>6. CASE Mark(c)
    BY <2>6 DEF Mark, Step, Go, ConnType
  <2>7. CASE Signal(c) \/ Wait(c) \/ Unsubscribe(c)
    BY <2>7 DEF Signal, Wait, Unsubscribe, Step, Go
  <2>8. CASE CloseQueue(c) \/ OffDisconnect(c) \/ OffWrite(c)
    BY <2>8 DEF CloseQueue, OffDisconnect, OffWrite, Step, Go, ConnType
  <2> QED BY <1>7, <2>1, <2>2, <2>3, <2>4, <2>5, <2>6, <2>7, <2>8 DEF Closing
<1>8. CASE Writer(c) \/ Kick(c)
  <2>1. UNCHANGED <<pc, at, conn>>
    BY <1>8 DEF Writer, Take, Handle, Offline, Ping, Gone, Kick
  <2> QED BY <2>1
<1> QED BY <1>2, <1>3, <1>4, <1>5, <1>6, <1>7, <1>8 DEF Moves, Reader

(* A connection that lets its queue be closed goes on to do so. *)
LEMMA LetsStay ==
  ASSUME TypeOK, Inv, CleanInv, NEW c \in Conns, Moves(c), NEW d \in Conns, Ending(d)
  PROVE  conn'[at[d]].session = None \/ conn'[at[d]].cleanSession \/ ~open'[at[d]]
<1> DEFINE o == at[d]
<1>1. WriterType /\ QueueType /\ ReaderType /\ ConnType /\ LocalInv /\ SharedInv
  BY DEF TypeOK, Inv
<1>2. o \in Conns /\ Lets(o)
  BY <1>1 DEF CleanInv, Ending, LocalInv, ReaderAt, CloseLabels, ReaderType
<1>3. CASE ~open[o]
  BY <1>1, <1>2, <1>3, EndStep DEF EndFrame
<1>4. CASE conn[o].cleanSession
  <2>1. ~(Finish(c) /\ o = c)
    BY <1>1, <1>4 DEF Finish, SharedInv, ConnInv, Adopting, CleanInv
  <2>2. Finish(c) => conn'[o].cleanSession = conn[o].cleanSession
    BY <1>1, <1>2, <2>1 DEF Finish, ConnType
  <2> QED BY <1>1, <1>2, <1>4, <2>2, CleanStep DEF CleanFrame
<1>5. CASE Session(o) = None
  <2>1. d = o
    <3>1. ~TakingOver(d)
      BY <1>1, <1>5, OwnClose, NoneApart
    <3> QED BY <1>2, <3>1, NoneApart DEF TakingOver
  <2>2. CASE OwnersKept
    BY <1>2, <1>5, <2>2 DEF OwnersKept, Session
  <2>3. CASE DoDisconnect(c) \/ Create(c)
    <3>1. o # c
      BY <2>1, <2>3 DEF DoDisconnect, Create, Ending
    <3>2. \A x \in Conns \ {c} : conn'[x].session = conn[x].session
      BY <2>3, AdoptedStep DEF Session
    <3> QED BY <1>2, <1>5, <3>1, <3>2 DEF Session
  <2>4. CASE OffWrite(c)
    <3>1. conn' = [conn EXCEPT ![at[c]].session = None]
      BY <2>4 DEF OffWrite
    <3> QED BY <1>1, <1>2, <1>5, <3>1 DEF ConnType, Session
  <2> QED BY <1>1, <2>2, <2>3, <2>4, SessionStep DEF SessionFrame
<1> QED BY <1>2, <1>3, <1>4, <1>5 DEF Lets

(* Every step keeps what CleanInv says of them. *)
LEMMA CleanInvStep ==
  ASSUME TypeOK, Inv, CleanInv, NEW c \in Conns, Moves(c)
  PROVE  CleanInv'
<1>1. ReaderType /\ ConnType /\ LocalInv /\ SharedInv
  BY DEF TypeOK, Inv
<1>2. OnlyReader(c) /\ CleanFrame(c) /\ SessionFrame(c)
  BY <1>1, StepIsLocal, CleanStep, SessionStep DEF Moves
<1>3. ASSUME NEW d \in Conns, conn'[d].cleanSession
      PROVE  conn'[d].connected
  <2>1. CASE Finish(c)
    <3>1. conn'[c].connected /\ (d # c => conn'[d] = conn[d])
      BY <1>1, <2>1 DEF Finish, ConnType
    <3> QED BY <1>3, <3>1 DEF CleanInv
  <2>2. CASE ~Finish(c)
    BY <1>2, <1>3, <2>2 DEF CleanFrame, SessionFrame, ConnectedKept, CleanInv
  <2> QED BY <2>1, <2>2
<1>4. ASSUME NEW d \in Conns, Ending(d)'
      PROVE  conn'[at'[d]].session = None \/ conn'[at'[d]].cleanSession \/ ~open'[at'[d]]
  <2>1. CASE Ending(d) /\ at'[d] = at[d]
    BY <2>1, LetsStay
  <2>2. CASE d = c /\ UNCHANGED <<at, conn, open>> /\ Lets(at[c])
    BY <2>2 DEF Lets, Session
  <2>3. d # c => Ending(d) /\ at'[d] = at[d]
    BY <1>2, <1>4 DEF OnlyReader, Ending
  <2> QED BY <1>2, <1>4, <2>1, <2>2, <2>3 DEF CleanFrame
<1> QED BY <1>3, <1>4 DEF CleanInv, Lets, Session

(* Every step keeps the inductive invariant of what is accepted. *)
LEMMA KeepInvStep ==
  ASSUME TypeOK, Inv, EndInv, OrderInv, KeepInv, [Next]_vars
  PROVE  KeepInv'
<1>1. TypeOK'
  BY InvStep
<1>2. CASE Next
  <2>1. PICK c \in Conns : Moves(c)
    BY <1>2 DEF Next, Moves
  <2>2. SoundInv' /\ SettledInv' /\ CleanInv'
    BY <1>1, <2>1, SoundStep, SettledStep, CleanInvStep DEF OrderInv, KeepInv
  <2>3. HeldInv'
    BY <2>1, HeldStep
  <2> QED BY <2>2, <2>3 DEF KeepInv
<1>3. CASE UNCHANGED vars
  <2> USE <1>3 DEF vars, topicVars, queueVars, writerVars, ghostVars, sessionVars
  <2>1. SoundInv' /\ SettledInv' /\ CleanInv'
    BY DEF KeepInv, SoundInv, SettledInv, Sound, IsPublish, Elements, Born, Session,
           CleanInv, Ending, Lets
  <2>2. \A a : Held(a)' <=> Held(a)
    BY DEF Held, Has, With, Elements, Session
  <2>3. HeldInv'
    BY <2>2 DEF KeepInv, HeldInv
  <2> QED BY <2>1, <2>3 DEF KeepInv
<1> QED BY <1>2, <1>3

(* It holds at the start. *)
LEMMA InitKeep == Init => KeepInv
<1> SUFFICES ASSUME Init PROVE KeepInv
  OBVIOUS
<1>1. ASSUME NEW c \in Conns
      PROVE  /\ queue[c] = <<>> /\ loc[c].out = <<>> /\ hand[c] = None /\ loc[c].msg = None
             /\ sess[c].offlineQueue = <<>> /\ pc[c] = "read"
  BY DEF Init, Idle, SessionInit, NewSession
<1>2. \A m : m \notin Elements(<<>>)
  BY ElementsOf
<1>3. ASSUME NEW t \in Topics PROVE retained[t] = None
  BY DEF Init
<1>4. SoundInv
  BY <1>1, <1>2, <1>3 DEF SoundInv
<1>5. SettledInv
  BY <1>1 DEF SettledInv
<1>6. HeldInv
  BY DEF Init, HeldInv
<1>7. CleanInv
  BY DEF Init, CleanInv, Ending
<1> QED BY <1>4, <1>5, <1>6, <1>7 DEF KeepInv

(* Where it is held the session keeps it. *)
LEMMA HeldInPlaces ==
  ASSUME TypeOK, LocalInv, NEW a \in accepted, a.session \in Conns, Held(a)
  PROVE  \E m \in Keeps(a.session) : m # None /\ m.src = a.src /\ m.n = a.n
<1>1. ReaderType /\ QueueType /\ SessionType(Item) /\ HistoryType
  BY DEF TypeOK
<1>2. ASSUME NEW q \in Seq(Item), Has(q, a)
      PROVE  \E i \in DOMAIN q : q[i] # None /\ q[i].src = a.src /\ q[i].n = a.n
  <2>1. PICK i \in DOMAIN q : q[i].src = a.src /\ q[i].n = a.n
    BY <1>2 DEF Has, Elements
  <2>2. q[i] \in Item
    OBVIOUS
  <2> QED BY <2>1, <2>2, ItemAssumption
<1>3. CASE Has(sess[a.session].offlineQueue, a)
  <2>1. sess[a.session].offlineQueue \in Seq(Item)
    BY <1>1 DEF SessionType, SessionRecord
  <2>2. PICK i \in DOMAIN sess[a.session].offlineQueue :
          LET m == sess[a.session].offlineQueue[i] IN m # None /\ m.src = a.src /\ m.n = a.n
    BY <1>2, <1>3, <2>1
  <2>3. sess[a.session].offlineQueue[i] \in Keeps(a.session)
    BY DEF Keeps
  <2> QED BY <2>2, <2>3
<1>4. ASSUME NEW e \in Conns, Session(e) = a.session, NEW m \in Carried(e)
      PROVE  m \in Keeps(a.session)
  BY <1>4 DEF Keeps
<1>5. ASSUME NEW e \in Conns, Session(e) = a.session, With(e, a)
      PROVE  \E m \in Carried(e) : m # None /\ m.src = a.src /\ m.n = a.n
  <2>1. CASE open[e] /\ Has(queue[e], a)
    <3>1. queue[e] \in Seq(Item)
      BY <1>1 DEF QueueType
    <3>2. PICK i \in DOMAIN queue[e] : queue[e][i] # None /\ queue[e][i].src = a.src /\ queue[e][i].n = a.n
      BY <1>2, <2>1, <3>1
    <3>3. queue[e][i] \in Carried(e)
      BY <2>1 DEF Carried
    <3> QED BY <3>2, <3>3
  <2>2. CASE Has(loc[e].out, a)
    <3>1. loc[e].out \in Seq(Item)
      BY <1>1 DEF ReaderType, LocalType
    <3>2. PICK i \in DOMAIN loc[e].out :
            loc[e].out[i] # None /\ loc[e].out[i].src = a.src /\ loc[e].out[i].n = a.n
      BY <1>2, <2>2, <3>1
    <3>3. loc[e].out[i] \in Carried(e)
      BY DEF Carried
    <3> QED BY <3>2, <3>3
  <2>3. CASE hand[e] # None /\ hand[e].src = a.src /\ hand[e].n = a.n
    BY <2>3 DEF Carried
  <2> QED BY <1>5, <2>1, <2>2, <2>3 DEF With
<1>6. ASSUME NEW e \in Conns, pc[e] = "push", Session(at[e]) = a.session,
             loc[e].msg.src = a.src, loc[e].msg.n = a.n
      PROVE  \E m \in Keeps(a.session) : m # None /\ m.src = a.src /\ m.n = a.n
  <2>1. at[e] \in Conns /\ loc[e].msg \in Item
    BY <1>1, <1>6 DEF LocalInv, ReaderAt, CloseLabels, PublishLabels, ReaderType
  <2>2. loc[e].msg \in Carried(at[e])
    BY <1>6 DEF Carried
  <2> QED BY <1>4, <1>6, <2>1, <2>2, ItemAssumption
<1> QED BY <1>3, <1>4, <1>5, <1>6 DEF Held

(* What a session has taken (Session.WriteMessage) is in its own offline queue
   or with a connection that has it, through queues, writers, closers, takeovers
   and replays, until the connection's writer has written it or failed to: only
   a full offline queue and the end of a clean session give up on it. *)
THEOREM AcceptedStays == Spec => []AcceptedIsKept
<1> DEFINE AllInv == TypeOK /\ Inv /\ EndInv /\ OrderInv /\ KeepInv
<1>1. Init => AllInv
  BY InitType, InitInv, InitEnd, InitOrder, InitKeep DEF Inv
<1>2. AllInv /\ [Next]_vars => AllInv'
  BY InvStep, EndInvStep, OrderInvStep, KeepInvStep
<1>3. AllInv => AcceptedIsKept
  <2> SUFFICES ASSUME AllInv, NEW a \in accepted, a.n > 0
               PROVE  \E m \in Keeps(a.session) : m # None /\ m.src = a.src /\ m.n = a.n
    BY DEF AcceptedIsKept
  <2> QED BY HeldInPlaces DEF KeepInv, HeldInv, Inv
<1> QED
  BY <1>1, <1>2, <1>3, PTL DEF Spec
=============================================================================
