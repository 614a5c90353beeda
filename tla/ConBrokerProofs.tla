-------------------------- MODULE ConBrokerProofs --------------------------
(***************************************************************************)
(* Type correctness of the broker and the discipline of its wills, proved  *)
(* for every set of connections, clients and topics, every configuration   *)
(* and every set of packets.                                               *)
(*                                                                         *)
(* The will of a connection could be published twice, or after its         *)
(* DISCONNECT, only if a takeover (DoDisconnect) could close a connection  *)
(* that closes itself or has said goodbye.  The argument is that a         *)
(* takeover keeps the session's mutex with the hook in place, and that     *)
(* every way out of the connection needs that mutex to remove the hook.    *)
(* HookInv says so; it needs to know, for each place of a reader, what it  *)
(* holds (LocalInv) and whether its connection has a session (ConnInv).    *)
(***************************************************************************)
EXTENDS ConBroker, SequenceTheorems, TLAPS

CloseLabels == {"cleanup", "drain", "push", "mark", "signal", "wait", "unsubscribe",
                "closeQueue", "offDisconnect", "offWrite"}
BodyLabels == CloseLabels \cup {"close", "match", "deliver", "write", "send"}
SubscribeLabels == {"insert", "addTopics", "fetch", "removeTopics"}
PublishLabels == {"retain", "match", "deliver", "write", "send", "push"}

(* A reader that closes another connection than its own: a takeover. *)
TakingOver(c) == at[c] \notin {None, c}

(* Between the session's arrival and the end of onConnect. *)
Adopting(c) ==
  \/ pc[c] \in {"replay", "hookDisconnect", "hookWrite", "finish"}
  \/ pc[c] = "flush" /\ loc[c].then = "hookDisconnect"

(* What a goroutine has in its locals at each place. *)
ReaderAt(c) ==
  /\ pc[c] \in CloseLabels \cup {"close"} => at[c] # None
  /\ at[c] # None => pc[c] \in BodyLabels
  /\ pc[c] \in SubscribeLabels => loc[c].topic \in Topics
  /\ pc[c] \in PublishLabels => loc[c].msg \in Item
  /\ pc[c] = "flush" =>
       /\ loc[c].out # <<>>
       /\ loc[c].then \in {"check", "hookDisconnect", "retain", "match"}
       /\ loc[c].then \in {"retain", "match"} => loc[c].msg \in Item
  /\ pc[c] = "disconnect" \/ TakingOver(c) => loc[c].old \in Conns
  /\ pc[c] \in {"write", "send"} => loc[c].cur \in Conns
WriterAt(c) == wpc[c] \in {"handle", "offline"} => hand[c] \in Item
LocalInv == \A c \in Conns : ReaderAt(c) /\ WriterAt(c)

(* When a connection has a session. *)
ConnInv == \A c \in Conns :
  /\ pc[c] \in {"disconnect", "create"} \/ TakingOver(c) \/ Adopting(c) => ~conn[c].connected
  /\ Adopting(c) => Session(c) # None
  /\ ~conn[c].connected /\ Session(c) # None => Adopting(c)
  /\ conn[c].connected /\ at[c] = None /\ pc[c] # "exited" => Session(c) # None
  /\ pc[c] \in SubscribeLabels => conn[c].connected
  /\ conn[c].subscription # {} => conn[c].connected

(* A connection whose session others may know of has one, or had one. *)
Born(s) == conn[s].connected \/ Session(s) # None
BornInv ==
  /\ \A i \in Clients : group[i] # None => Born(group[i])
  /\ \A c \in Conns : loc[c].old # None => Born(loc[c].old)
  /\ \A c \in Conns : Session(c) # None => Born(Session(c))

(* A session that calls a connection is the connection's own. *)
HookInv == \A s, o \in Conns : sess[s].onDisconnect = o =>
  /\ Session(o) = s
  /\ once[o] # "done"
  /\ pc[o] # "forget"
  /\ \A c \in Conns : pc[c] = "offWrite" => at[c] # o

(* A takeover holds the session, whose hook stays; so does a delivery. *)
LockInv == \A c \in Conns :
  /\ TakingOver(c) => /\ lock[loc[c].old] = c
                      /\ sess[loc[c].old].onDisconnect = at[c]
  /\ pc[c] = "send" => lock[loc[c].cur] = c
  /\ pc[c] = "send" /\ TakingOver(c) => loc[c].cur # loc[c].old
  /\ pc[c] = "offWrite" => at[c] = c

(* Who has begun to close a connection, and what is left of its will. *)
OnceInv == \A o \in Conns :
  /\ once[o] = "done" => pc[o] = "exited" \/ at[o] = o
  /\ once[o] # "no" => pc[o] = "exited" \/ \E c \in Conns : at[c] = o
  /\ once[o] = "no" => willed[o] = 0
  /\ willed[o] <= 1
  /\ bye[o] => willed[o] = 0 /\ conn[o].will = None /\ (pc[o] = "exited" \/ at[o] = o)

SharedInv == ConnInv /\ BornInv /\ HookInv /\ LockInv /\ OnceInv
Inv == LocalInv /\ SharedInv

-----------------------------------------------------------------------------
(* Types. *)
LEMMA NoneApart == None \notin Conns /\ None \notin Clients /\ None \notin Topics
  BY SessionAssumption DEF SessionAssumption

(* A packet of the broker's own is an item. *)
LEMMA OwnType ==
  \A c \in Conns, kind \in {"will", "connack", "suback", "ack", "pingreq"} : Own(kind, c) \in Item
  BY DEF Own, Item

(* Changing the kind of its messages leaves a sequence of messages one. *)
LEMMA AsType ==
  ASSUME NEW kind \in {"replay", "retained"}, NEW s \in Seq(Item)
  PROVE  As(kind, s) \in Seq(Item)
<1>1. \A i \in DOMAIN s : s[i] \in Item
  OBVIOUS
<1>2. \A i \in DOMAIN s : As(kind, s)[i] \in Item
  BY <1>1 DEF As, Item
<1>3. DOMAIN s = 1 .. Len(s) /\ Len(s) \in Nat
  OBVIOUS
<1> QED
  BY <1>2, <1>3, SeqDef DEF As

(* A change of one reader's locals keeps the readers typed. *)
LEMMA LocStep ==
  ASSUME ReaderType, NEW c \in Conns, NEW r \in LocalType
  PROVE  [loc EXCEPT ![c] = r] \in [Conns -> LocalType]
  BY DEF ReaderType

(* What a handler leaves to write, and where it goes on. *)
LEMMA ReplyType ==
  ASSUME ReaderType, NEW c \in Conns, NEW out \in Seq(Item), NEW then \in Labels,
         Reply(c, out, then), UNCHANGED at
  PROVE  ReaderType'
<1>1. [loc[c] EXCEPT !.out = out, !.then = then] \in LocalType
  BY ZenonT(30) DEF ReaderType, LocalType
<1>2. loc' \in [Conns -> LocalType]
  BY <1>1, LocStep DEF Reply
<1>3. Then(out, then) \in Labels
  BY DEF Then, Labels
<1> QED
  BY <1>2, <1>3 DEF Reply, Go, ReaderType

(* A session whose record changes within its type, and its queue within its
   limit, keeps the type of them all. *)
LEMMA SessStep ==
  ASSUME SessionType(Item), NEW s, NEW r,
         s \in Conns => r \in SessionRecord(Item) /\ Len(r.offlineQueue) <= OfflineLimit,
         sess' = [sess EXCEPT ![s] = r], UNCHANGED <<lock, group>>
  PROVE  SessionType(Item)'
  BY DEF SessionType

(* The operations of sessions keep their types. *)
LEMMA HookType ==
  ASSUME SessionType(Item), NEW s, NEW c \in Conns \cup {None},
         WithOnDisconnect(s, c) \/ WithOnWrite(s, c)
  PROVE  SessionType(Item)'
<1>1. ASSUME s \in Conns
      PROVE  LET r == [sess[s] EXCEPT !.onDisconnect = c] IN
               r \in SessionRecord(Item) /\ Len(r.offlineQueue) <= OfflineLimit
  BY <1>1 DEF SessionType, SessionRecord
<1>2. ASSUME s \in Conns
      PROVE  LET r == [sess[s] EXCEPT !.onWrite = c] IN
               r \in SessionRecord(Item) /\ Len(r.offlineQueue) <= OfflineLimit
  BY <1>2 DEF SessionType, SessionRecord
<1> QED
  BY <1>1, <1>2, SessStep DEF WithOnDisconnect, WithOnWrite

(* AddTopics and RemoveTopics keep the sessions typed. *)
LEMMA TopicsType ==
  ASSUME SessionType(Item), NEW s, NEW t \in Topics,
         AddTopics(s, t) \/ RemoveTopics(s, t)
  PROVE  SessionType(Item)'
<1>1. ASSUME s \in Conns
      PROVE  LET r == [sess[s] EXCEPT !.topics = @ \cup {t}] IN
               r \in SessionRecord(Item) /\ Len(r.offlineQueue) <= OfflineLimit
  BY <1>1 DEF SessionType, SessionRecord
<1>2. ASSUME s \in Conns
      PROVE  LET r == [sess[s] EXCEPT !.topics = @ \ {t}] IN
               r \in SessionRecord(Item) /\ Len(r.offlineQueue) <= OfflineLimit
  BY <1>2 DEF SessionType, SessionRecord
<1> QED
  BY <1>1, <1>2, SessStep DEF AddTopics, RemoveTopics

(* WithClientID keeps the sessions typed. *)
LEMMA ClientIDType ==
  ASSUME SessionType(Item), NEW s, NEW i \in Clients \cup {None}, WithClientID(s, i)
  PROVE  SessionType(Item)'
<1>1. ASSUME s \in Conns
      PROVE  LET r == [sess[s] EXCEPT !.clientid = i] IN
               r \in SessionRecord(Item) /\ Len(r.offlineQueue) <= OfflineLimit
  BY <1>1 DEF SessionType, SessionRecord
<1> QED
  BY <1>1, SessStep DEF WithClientID

(* PushOfflineMessage keeps the sessions typed and the offline queue in
   its limit. *)
LEMMA PushType ==
  ASSUME SessionType(Item), NEW s, NEW m \in Item, PushOfflineMessage(s, m)
  PROVE  SessionType(Item)'
<1>1. \A q \in Seq(Item) : Len(q) <= OfflineLimit =>
        Pushed(q, m) \in Seq(Item) /\ Len(Pushed(q, m)) <= OfflineLimit
  BY SessionAssumption DEF Pushed, SessionAssumption
<1>2. ASSUME s \in Conns
      PROVE  LET r == [sess[s] EXCEPT !.offlineQueue = Pushed(@, m)] IN
               r \in SessionRecord(Item) /\ Len(r.offlineQueue) <= OfflineLimit
  <2>1. /\ sess[s] \in SessionRecord(Item)
        /\ Pushed(sess[s].offlineQueue, m) \in Seq(Item)
        /\ Len(Pushed(sess[s].offlineQueue, m)) <= OfflineLimit
    BY <1>1, <1>2 DEF SessionType, SessionRecord
  <2> QED
    BY <2>1 DEF SessionRecord
<1> QED
  BY <1>2, SessStep DEF PushOfflineMessage

(* OfflineMessages keeps the sessions typed. *)
LEMMA OfflineType ==
  ASSUME SessionType(Item), NEW s, OfflineMessages(s)
  PROVE  SessionType(Item)'
<1>1. ASSUME s \in Conns
      PROVE  LET r == [sess[s] EXCEPT !.offlineQueue = <<>>] IN
               r \in SessionRecord(Item) /\ Len(r.offlineQueue) <= OfflineLimit
  <2>1. sess[s] \in SessionRecord(Item) /\ <<>> \in Seq(Item) /\ Len(<<>>) <= OfflineLimit
    BY <1>1, SessionAssumption DEF SessionType, SessionAssumption
  <2> QED
    BY <2>1 DEF SessionRecord
<1> QED
  BY <1>1, SessStep DEF OfflineMessages

(* A new session has its type. *)
LEMMA NewSessionType ==
  NewSession \in SessionRecord(Item) /\ Len(NewSession.offlineQueue) <= OfflineLimit
  BY SessionAssumption DEF NewSession, SessionRecord, SessionAssumption

(* Creating and removing a session keep the table typed. *)
LEMMA TableType ==
  ASSUME SessionType(Item), NEW s \in Conns, NEW i
  PROVE  /\ New(s, i) => SessionType(Item)'
         /\ Remove(i) => SessionType(Item)'
<1>1. New(s, i) => SessionType(Item)'
  BY NewSessionType DEF New, SessionType
<1>2. Remove(i) => SessionType(Item)'
  BY DEF Remove, SessionType
<1> QED
  BY <1>1, <1>2

(* Taking and giving back a session's mutex keep the locks typed. *)
LEMMA MutexType ==
  ASSUME SessionType(Item), NEW s, NEW c \in Conns, Acquire(s, c) \/ Release(s)
  PROVE  SessionType(Item)'
  BY DEF SessionType, Acquire, Release

(* Get finds a session or nothing. *)
LEMMA GetType == SessionType(Item) => \A i : Get(i) \in Conns \cup {None}
  BY DEF SessionType, Get

(* What an action leaves alone keeps its type. *)
LEMMA TypeKept ==
  /\ ReaderType /\ UNCHANGED <<pc, at, loc>> => ReaderType'
  /\ WriterType /\ UNCHANGED <<wpc, hand, broken, wire>> => WriterType'
  /\ ConnType /\ UNCHANGED <<conn, once>> => ConnType'
  /\ QueueType /\ UNCHANGED <<queue, open>> => QueueType'
  /\ TopicType /\ UNCHANGED <<tree, retained>> => TopicType'
  /\ HistoryType /\ UNCHANGED <<willed, bye, accepted, sent, kicks>> => HistoryType'
  /\ SessionType(Item) /\ UNCHANGED <<sess, lock, group>> => SessionType(Item)'
  BY DEF ReaderType, WriterType, ConnType, QueueType, TopicType, HistoryType, SessionType

(* A refusal keeps the history typed. *)
LEMMA PushingType ==
  ASSUME HistoryType, NEW s, NEW m, Pushing(s, m), UNCHANGED <<sent, kicks>>
  PROVE  HistoryType'
  BY DEF HistoryType, Pushing

(* The initial state is typed. *)
LEMMA InitType == Init => TypeOK
<1> SUFFICES ASSUME Init PROVE TypeOK
  OBVIOUS
<1>1. ReaderType
  BY DEF Init, ReaderType, Labels, LocalType, Idle
<1>2. WriterType /\ ConnType
  BY DEF Init, WriterType, ConnType
<1>3. QueueType /\ TopicType /\ HistoryType
  BY ConBrokerAssumption DEF Init, QueueType, TopicType, HistoryType, ConBrokerAssumption
<1>4. SessionType(Item)
  BY NewSessionType DEF Init, SessionInit, SessionType
<1>5. panicked \in BOOLEAN
  BY DEF Init
<1> QED
  BY <1>1, <1>2, <1>3, <1>4, <1>5 DEF TypeOK

(* Where a handler relies on the connection's session, it has one. *)
LEMMA HasSession ==
  ASSUME ConnType, LocalInv, ConnInv, NEW c \in Conns,
         pc[c] \in SubscribeLabels \/ Adopting(c)
  PROVE  Session(c) \in Conns
<1>1. pc[c] \in SubscribeLabels => pc[c] \notin BodyLabels /\ pc[c] # "exited"
  BY DEF SubscribeLabels, BodyLabels, CloseLabels
<1>2. Session(c) # None
  BY <1>1 DEF ConnInv, LocalInv, ReaderAt
<1> QED
  BY <1>2 DEF ConnType, Session

(* What onConnect and onPublish take from their packets. *)
LEMMA ConnectLocals ==
  ASSUME ReaderType, NEW c \in Conns, NEW client \in Clients, NEW clean \in BOOLEAN,
         NEW will \in Topics \cup {None}, NEW old \in Conns \cup {None}
  PROVE  [loc[c] EXCEPT !.client = client, !.clean = clean, !.will = will, !.old = old]
           \in LocalType
  BY ZenonT(30) DEF ReaderType, LocalType

(* The topic of a handler is a topic of the packet. *)
LEMMA TopicLocal ==
  ASSUME ReaderType, NEW c \in Conns, NEW topic \in Topics
  PROVE  [loc[c] EXCEPT !.topic = topic] \in LocalType
  BY ZenonT(30) DEF ReaderType, LocalType

(* The locals onPublish starts with. *)
LEMMA PublishLocals ==
  ASSUME ReaderType, NEW c \in Conns, NEW msg \in Item, NEW topic \in Topics,
         NEW retain \in {"no", "keep", "clear"}, NEW out \in Seq(Item), NEW then \in Labels
  PROVE  [loc[c] EXCEPT !.msg = msg, !.topic = topic, !.retain = retain,
                        !.out = out, !.then = then] \in LocalType
  BY ZenonT(30) DEF ReaderType, LocalType

(* The steps of clients. *)
LEMMA PacketType ==
  ASSUME TypeOK, LocalInv, ConnInv, NEW c \in Conns, Packet(c)
  PROVE  TypeOK'
<1> SUFFICES ASSUME ReaderType, WriterType, ConnType, QueueType, TopicType, HistoryType,
                    SessionType(Item), panicked \in BOOLEAN
             PROVE  TypeOK'
  BY DEF TypeOK
<1> USE DEF topicVars, queueVars, writerVars, ghostVars, sessionVars
<1>1. ASSUME NEW p \in Connects[c], NEW ok \in AuthResults, Connect(c, p, ok)
      PROVE  TypeOK'
  <2>1. /\ p.client \in Clients /\ p.clean \in BOOLEAN /\ p.will \in Topics \cup {None}
        /\ Get(p.client) \in Conns \cup {None}
    BY GetType, ConBrokerAssumption DEF ConBrokerAssumption, ConnectPacket
  <2>2. ReaderType'
    <3>1. CASE conn[c].connected
      BY <1>1, <3>1 DEF Connect, ReaderType, Go, Labels
    <3>2. CASE ~conn[c].connected /\ ~ok
      <4>1. <<Own("connack", c)>> \in Seq(Item) /\ "check" \in Labels
        BY OwnType DEF Labels
      <4> QED
        BY <1>1, <3>2, <4>1, ReplyType DEF Connect
    <3>3. CASE ~conn[c].connected /\ ok
      <4>1. [loc[c] EXCEPT !.client = p.client, !.clean = p.clean, !.will = p.will,
                           !.old = Get(p.client)] \in LocalType
        BY <2>1, ConnectLocals, ZenonT(30)
      <4> QED
        BY <1>1, <3>3, <4>1, LocStep DEF Connect, ReaderType, Go, Labels
    <3> QED
      BY <3>1, <3>2, <3>3
  <2>3. HistoryType'
    BY <1>1 DEF Connect, Reading, HistoryType
  <2> QED
    BY <1>1, <2>2, <2>3, TypeKept DEF Connect, TypeOK
<1>2. ASSUME NEW p \in Publishes[c], Publish(c, p)
      PROVE  TypeOK'
  <2>1. p.topic \in Topics /\ p.retain \in {"no", "keep", "clear"}
    BY ConBrokerAssumption DEF ConBrokerAssumption, PublishPacket
  <2> DEFINE m == [kind |-> "live", src |-> c, n |-> sent[c] + 1]
             out == IF p.qos > 0 THEN <<Own("ack", c)>> ELSE <<>>
             then == IF p.retain = "no" THEN "match" ELSE "retain"
  <2>2. m \in Item /\ out \in Seq(Item) /\ then \in Labels
    <3>1. m \in Item /\ then \in Labels
      BY DEF HistoryType, Item, Labels
    <3>2. <<Own("ack", c)>> \in Seq(Item) /\ <<>> \in Seq(Item)
      BY OwnType
    <3> QED
      BY <3>1, <3>2
  <2>3. [loc[c] EXCEPT !.msg = m, !.topic = p.topic, !.retain = p.retain,
                       !.out = out, !.then = then] \in LocalType
    <3> HIDE DEF m, out, then
    <3> QED
      BY <2>1, <2>2, PublishLocals
  <2>4. ReaderType'
    BY <1>2, <2>3, LocStep DEF Publish, ReaderType, Go, Then, Labels
  <2>5. HistoryType'
    BY <1>2 DEF Publish, Reading, HistoryType
  <2> QED
    BY <1>2, <2>4, <2>5, TypeKept DEF Publish, TypeOK
<1>3. ASSUME NEW t \in Subscribes[c], Subscribe(c, t)
      PROVE  TypeOK'
  <2>1. t \in Topics
    BY ConBrokerAssumption DEF ConBrokerAssumption
  <2>2. ReaderType'
    <3>1. [loc[c] EXCEPT !.topic = t] \in LocalType
      BY <2>1, TopicLocal
    <3> QED
      BY <1>3, <3>1, LocStep DEF Subscribe, ReaderType, Go, Labels
  <2>3. ConnType'
    BY <1>3 DEF Subscribe, ConnType
  <2>4. TopicType'
    BY <1>3 DEF Subscribe, TopicType, Without
  <2>5. HistoryType'
    BY <1>3 DEF Subscribe, Reading, HistoryType
  <2> QED
    BY <1>3, <2>2, <2>3, <2>4, <2>5, TypeKept DEF Subscribe, TypeOK
<1>4. ASSUME NEW t \in Unsubscribes[c], UnSubscribe(c, t)
      PROVE  TypeOK'
  <2>1. t \in Topics
    BY ConBrokerAssumption DEF ConBrokerAssumption
  <2>2. ReaderType'
    <3>1. <<Own("suback", c)>> \in Seq(Item) /\ "check" \in Labels
      BY OwnType DEF Labels
    <3>2. CASE t \in conn[c].subscription
      <4>1. /\ loc' = [loc EXCEPT ![c] = [loc[c] EXCEPT !.topic = t]]
            /\ pc' = [pc EXCEPT ![c] = "removeTopics"] /\ at' = at
        BY <1>4, <3>2 DEF UnSubscribe, Go, ReaderType
      <4>2. [loc[c] EXCEPT !.topic = t] \in LocalType
        BY <1>4, <2>1, TopicLocal DEF UnSubscribe
      <4> QED
        BY <4>1, <4>2 DEF ReaderType, Labels
    <3>3. CASE t \notin conn[c].subscription
      BY <1>4, <3>1, <3>3, ReplyType DEF UnSubscribe
    <3> QED
      BY <3>2, <3>3
  <2>3. TopicType'
    BY <1>4 DEF UnSubscribe, TopicType, Without
  <2>4. HistoryType'
    BY <1>4 DEF UnSubscribe, Reading, HistoryType
  <2> QED
    BY <1>4, <2>2, <2>3, <2>4, TypeKept DEF UnSubscribe, TypeOK
<1>5. ASSUME Acknowledge(c)
      PROVE  TypeOK'
  <2>1. <<Own("ack", c)>> \in Seq(Item) /\ "check" \in Labels
    BY OwnType DEF Labels
  <2>2. ReaderType'
    BY <1>5, <2>1, ReplyType DEF Acknowledge
  <2>3. HistoryType'
    BY <1>5 DEF Acknowledge, Reading, HistoryType
  <2> QED
    BY <1>5, <2>2, <2>3, TypeKept DEF Acknowledge, TypeOK
<1>6. ASSUME Disconnect(c)
      PROVE  TypeOK'
  <2>1. ReaderType'
    BY <1>6 DEF Disconnect, ReaderType, Go, Labels
  <2>2. HistoryType'
    BY <1>6 DEF Disconnect, Reading, HistoryType
  <2> QED
    BY <1>6, <2>1, <2>2, TypeKept DEF Disconnect, TypeOK
<1>7. ASSUME Drop(c)
      PROVE  TypeOK'
  <2>1. ReaderType'
    BY <1>7 DEF Drop, Step, ReaderType, Go, Labels
  <2> QED
    BY <1>7, <2>1, TypeKept DEF Drop, TypeOK
<1> QED
  BY <1>1, <1>2, <1>3, <1>4, <1>5, <1>6, <1>7 DEF Packet

(* The steps of onConnect. *)
LEMMA ConnectingType ==
  ASSUME TypeOK, LocalInv, ConnInv, NEW c \in Conns, Connecting(c)
  PROVE  TypeOK'
<1> SUFFICES ASSUME ReaderType, WriterType, ConnType, QueueType, TopicType, HistoryType,
                    SessionType(Item), panicked \in BOOLEAN
             PROVE  TypeOK'
  BY DEF TypeOK
<1> USE DEF topicVars, queueVars, writerVars, ghostVars, sessionVars
<1>1. ASSUME DoDisconnect(c)
      PROVE  TypeOK'
  <2>1. loc[c].old \in Conns
    BY <1>1 DEF DoDisconnect, LocalInv, ReaderAt
  <2>2. sess[loc[c].old].onDisconnect \in Conns \cup {None}
    BY <2>1 DEF SessionType, SessionRecord
  <2>3. pc' \in [Conns -> Labels]
    BY <1>1 DEF DoDisconnect, AfterDisconnect, Adopt, Go, ReaderType, Labels
  <2>4. ReaderType'
    BY <1>1, <2>2, <2>3 DEF DoDisconnect, ReaderType
  <2>5. ConnType'
    BY <1>1, <2>1 DEF DoDisconnect, AfterDisconnect, Adopt, ConnType
  <2>6. SessionType(Item)'
    BY <1>1, MutexType, TypeKept DEF DoDisconnect
  <2> QED
    BY <1>1, <2>4, <2>5, <2>6, TypeKept DEF DoDisconnect, TypeOK
<1>2. ASSUME Create(c)
      PROVE  TypeOK'
  <2>1. ReaderType'
    BY <1>2 DEF Create, Adopt, Go, ReaderType, Labels
  <2>2. ConnType'
    BY <1>2 DEF Create, Adopt, ConnType
  <2> QED
    BY <1>2, <2>1, <2>2, TableType, TypeKept DEF Create, TypeOK
<1>3. ASSUME Replay(c)
      PROVE  TypeOK'
  <2>1. Session(c) \in Conns
    BY <1>3, HasSession DEF Replay, Adopting
  <2>2. sess[Session(c)].offlineQueue \in Seq(Item)
    BY <2>1 DEF SessionType, SessionRecord
  <2>3. As("replay", sess[Session(c)].offlineQueue) \in Seq(Item) /\ "hookDisconnect" \in Labels
    BY <2>2, AsType DEF Labels
  <2>4. ReaderType'
    BY <1>3, <2>3, ReplyType DEF Replay
  <2> QED
    BY <1>3, <2>4, OfflineType, TypeKept DEF Replay, TypeOK
<1>4. ASSUME HookDisconnect(c)
      PROVE  TypeOK'
  <2>1. ReaderType'
    BY <1>4 DEF HookDisconnect, Step, Go, ReaderType, Labels
  <2> QED
    BY <1>4, <2>1, HookType, TypeKept DEF HookDisconnect, TypeOK
<1>5. ASSUME HookWrite(c)
      PROVE  TypeOK'
  <2>1. ReaderType'
    BY <1>5 DEF HookWrite, Step, Go, ReaderType, Labels
  <2> QED
    BY <1>5, <2>1, HookType, TypeKept DEF HookWrite, TypeOK
<1>6. ASSUME Finish(c)
      PROVE  TypeOK'
  <2>1. loc[c].client \in Clients \cup {None} /\ loc[c].clean \in BOOLEAN
        /\ loc[c].will \in Topics \cup {None}
    BY DEF ReaderType, LocalType
  <2>2. Welcome(c) \in Seq(Item) /\ "check" \in Labels
    BY OwnType DEF Welcome, Labels
  <2>3. ReaderType'
    BY <1>6, <2>2, ReplyType DEF Finish
  <2>4. ConnType'
    BY <1>6, <2>1, ZenonT(30) DEF Finish, ConnType
  <2> QED
    BY <1>6, <2>1, <2>3, <2>4, ClientIDType, TypeKept DEF Finish, TypeOK
<1> QED
  BY <1>1, <1>2, <1>3, <1>4, <1>5, <1>6 DEF Connecting

(* The steps of onSubscribe and onUnSubscribe. *)
LEMMA SubscribingType ==
  ASSUME TypeOK, LocalInv, ConnInv, NEW c \in Conns, Subscribing(c)
  PROVE  TypeOK'
<1> SUFFICES ASSUME ReaderType, WriterType, ConnType, QueueType, TopicType, HistoryType,
                    SessionType(Item), panicked \in BOOLEAN
             PROVE  TypeOK'
  BY DEF TypeOK
<1> USE DEF topicVars, queueVars, writerVars, ghostVars, sessionVars
<1>0. pc[c] \in SubscribeLabels /\ loc[c].topic \in Topics /\ Session(c) \in Conns
  <2>1. pc[c] \in SubscribeLabels
    BY DEF Subscribing, Insert, AddTopic, FetchRetained, RemoveTopic, Step, SubscribeLabels
  <2> QED
    BY <2>1, HasSession DEF LocalInv, ReaderAt
<1>1. ASSUME Insert(c)
      PROVE  TypeOK'
  <2>1. Sub(c, loc[c].topic) \in Subscription
    BY <1>0 DEF SessionType, SessionRecord, Sub, Subscription
  <2>2. ReaderType'
    <3>1. CASE loc[c].topic \in Malformed
      <4>1. <<Own("suback", c)>> \in Seq(Item) /\ "check" \in Labels
        BY OwnType DEF Labels
      <4> QED
        BY <1>1, <3>1, <4>1, ReplyType DEF Insert
    <3>2. CASE loc[c].topic \notin Malformed
      BY <1>1, <3>2 DEF Insert, Go, ReaderType, Labels
    <3> QED
      BY <3>1, <3>2
  <2>3. ConnType'
    BY <1>0, <1>1 DEF Insert, ConnType
  <2>4. TopicType'
    BY <1>1, <2>1 DEF Insert, TopicType
  <2> QED
    BY <1>1, <2>2, <2>3, <2>4, TypeKept DEF Insert, TypeOK
<1>2. ASSUME AddTopic(c)
      PROVE  TypeOK'
  <2>1. ReaderType'
    BY <1>2 DEF AddTopic, Step, Go, ReaderType, Labels
  <2> QED
    BY <1>0, <1>2, <2>1, TopicsType, TypeKept DEF AddTopic, TypeOK
<1>3. ASSUME FetchRetained(c)
      PROVE  TypeOK'
  <2>1. Retained(loc[c].topic) \in Seq(Item)
    <3>1. CASE retained[loc[c].topic] = None
      BY <3>1 DEF Retained
    <3>2. CASE retained[loc[c].topic] # None
      <4>1. retained[loc[c].topic] \in Item
        BY <1>0, <3>2 DEF TopicType
      <4>2. [retained[loc[c].topic] EXCEPT !.kind = "retained", !.n = 0] \in Item
        BY <4>1 DEF Item
      <4> QED
        BY <3>2, <4>2 DEF Retained
    <3> QED
      BY <3>1, <3>2
  <2>2. <<Own("suback", c)>> \o Retained(loc[c].topic) \in Seq(Item) /\ "check" \in Labels
    BY <2>1, OwnType DEF Labels
  <2>3. ReaderType'
    BY <1>3, <2>2, ReplyType DEF FetchRetained
  <2> QED
    BY <1>3, <2>3, TypeKept DEF FetchRetained, TypeOK
<1>4. ASSUME RemoveTopic(c)
      PROVE  TypeOK'
  <2>1. <<Own("suback", c)>> \in Seq(Item) /\ "check" \in Labels
    BY OwnType DEF Labels
  <2>2. ReaderType'
    BY <1>4, <2>1, ReplyType DEF RemoveTopic
  <2>3. ConnType'
    BY <1>4 DEF RemoveTopic, ConnType
  <2> QED
    BY <1>0, <1>4, <2>2, <2>3, TopicsType, TypeKept DEF RemoveTopic, TypeOK
<1> QED
  BY <1>1, <1>2, <1>3, <1>4 DEF Subscribing

(* A message goes to a queue that has room. *)
LEMMA EnqueueType ==
  ASSUME QueueType, NEW d, NEW m \in Item, Room(d),
         queue' = [queue EXCEPT ![d] = Enqueue(@, m)], UNCHANGED open
  PROVE  QueueType'
<1>1. CASE d \in Conns
  <2>1. queue[d] \in Seq(Item) /\ Len(queue[d]) < QueueSize
    BY <1>1 DEF QueueType, Room
  <2>2. Enqueue(queue[d], m) \in Seq(Item) /\ Len(Enqueue(queue[d], m)) = Len(queue[d]) + 1
    BY <2>1 DEF Enqueue
  <2>3. Len(queue[d]) \in Nat /\ QueueSize \in Nat
    BY <2>1, ConBrokerAssumption DEF ConBrokerAssumption
  <2> QED
    BY <1>1, <2>1, <2>2, <2>3 DEF QueueType
<1>2. CASE d \notin Conns
  BY <1>2 DEF QueueType
<1> QED
  BY <1>1, <1>2

(* So does a message taken from one leave one. *)
LEMMA DequeueType ==
  ASSUME QueueType, NEW d \in Conns, queue[d] # <<>>,
         queue' = [queue EXCEPT ![d] = Tail(@)], UNCHANGED open
  PROVE  QueueType' /\ Head(queue[d]) \in Item
<1>1. queue[d] \in Seq(Item) /\ Len(queue[d]) <= QueueSize
  BY DEF QueueType
<1>2. /\ Head(queue[d]) \in Item /\ Tail(queue[d]) \in Seq(Item)
      /\ Len(Tail(queue[d])) = Len(queue[d]) - 1
  BY <1>1
<1>3. Len(queue[d]) \in Nat /\ QueueSize \in Nat
  BY <1>1, ConBrokerAssumption DEF ConBrokerAssumption
<1> QED
  BY <1>1, <1>2, <1>3 DEF QueueType

(* The steps of procPublish and SendPublishMessage. *)
LEMMA PublishingType ==
  ASSUME TypeOK, LocalInv, NEW c \in Conns, Publishing(c)
  PROVE  TypeOK'
<1> SUFFICES ASSUME ReaderType, WriterType, ConnType, QueueType, TopicType, HistoryType,
                    SessionType(Item), panicked \in BOOLEAN
             PROVE  TypeOK'
  BY DEF TypeOK
<1> USE DEF topicVars, queueVars, writerVars, ghostVars, sessionVars
<1>0. loc[c].msg \in Item /\ loc[c] \in LocalType
  BY DEF Publishing, Retain, Match, Deliver, Write, Send, Step, LocalInv, ReaderAt, PublishLabels, ReaderType
<1>1. \A todo : Rest(c, todo) \in Labels
  BY DEF Rest, Labels
<1>2. ASSUME Retain(c)
      PROVE  TypeOK'
  <2>1. ReaderType'
    BY <1>2 DEF Retain, Step, Go, ReaderType, Labels
  <2>2. TopicType'
    BY <1>0, <1>2 DEF Retain, TopicType
  <2> QED
    BY <1>2, <2>1, <2>2, TypeKept DEF Retain, TypeOK
<1>3. ASSUME Match(c)
      PROVE  TypeOK'
  <2> DEFINE todo == {s \in tree : s.topic = loc[c].topic}
  <2>1. [loc[c] EXCEPT !.todo = todo] \in LocalType
    BY <1>0 DEF TopicType, LocalType
  <2>2. ReaderType'
    BY <1>1, <1>3, <2>1, LocStep DEF Match, Go, ReaderType
  <2> QED
    BY <1>3, <2>2, TypeKept DEF Match, TypeOK
<1>4. ASSUME Deliver(c)
      PROVE  TypeOK'
  <2>1. PICK s \in loc[c].todo :
          /\ loc' = [loc EXCEPT ![c] = [loc[c] EXCEPT !.todo = loc[c].todo \ {s}, !.cur = Get(s.client)]]
          /\ Go(c, IF Get(s.client) = None THEN Rest(c, loc[c].todo \ {s}) ELSE "write")
    BY <1>4 DEF Deliver
  <2>2. Get(s.client) \in Conns \cup {None}
    BY GetType
  <2>3. [loc[c] EXCEPT !.todo = loc[c].todo \ {s}, !.cur = Get(s.client)] \in LocalType
    BY <1>0, <2>2 DEF LocalType
  <2>4. loc' \in [Conns -> LocalType]
    BY <2>1, <2>3, LocStep
  <2>5. ReaderType'
    BY <1>1, <1>4, <2>1, <2>4 DEF Deliver, Go, ReaderType, Labels
  <2> QED
    BY <1>4, <2>5, TypeKept DEF Deliver, TypeOK
<1>5. Accept(c) /\ UNCHANGED <<sent, kicks>> => HistoryType'
  <2>1. Receipt(loc[c].cur, loc[c].msg) \in [session : Conns \cup {None}, src : Conns, n : Nat]
    BY <1>0 DEF LocalType, Item, Receipt
  <2> QED
    BY <2>1 DEF Accept, HistoryType
<1>6. ASSUME Write(c)
      PROVE  TypeOK'
  <2>1. ReaderType'
    BY <1>1, <1>6 DEF Write, Go, ReaderType, Labels
  <2>2. SessionType(Item)'
    BY <1>0, <1>6, PushType, MutexType DEF Write
  <2>3. HistoryType'
    BY <1>5, <1>6, TypeKept DEF Write
  <2> QED
    BY <1>6, <2>1, <2>2, <2>3, TypeKept DEF Write, TypeOK
<1>7. ASSUME Send(c)
      PROVE  TypeOK'
  <2> DEFINE d == sess[loc[c].cur].onWrite
  <2>1. ReaderType'
    BY <1>1, <1>7 DEF Send, Go, ReaderType
  <2>2. SessionType(Item)'
    BY <1>7, MutexType, TypeKept DEF Send
  <2>3. HistoryType'
    BY <1>5, <1>7, TypeKept DEF Send
  <2>4. QueueType' /\ panicked' \in BOOLEAN
    <3>1. CASE ~open[d]
      BY <1>7, <3>1 DEF Send, QueueType
    <3>2. CASE open[d]
      <4>1. Room(d) /\ queue' = [queue EXCEPT ![d] = Enqueue(@, loc[c].msg)]
            /\ open' = open /\ panicked' = panicked
        BY <1>7, <3>2 DEF Send
      <4> HIDE DEF d
      <4> QED
        BY <1>0, <4>1, EnqueueType
    <3> QED
      BY <3>1, <3>2
  <2> QED
    BY <1>7, <2>1, <2>2, <2>3, <2>4, TypeKept DEF Send, TypeOK
<1> QED
  BY <1>2, <1>3, <1>4, <1>6, <1>7 DEF Publishing

(* The loop of the reader. *)
LEMMA LoopType ==
  ASSUME TypeOK, LocalInv, NEW c \in Conns, Flush(c) \/ Check(c)
  PROVE  TypeOK'
<1> SUFFICES ASSUME ReaderType, WriterType, ConnType, QueueType, TopicType, HistoryType,
                    SessionType(Item), panicked \in BOOLEAN
             PROVE  TypeOK'
  BY DEF TypeOK
<1> USE DEF topicVars, queueVars, writerVars, ghostVars, sessionVars
<1>1. ASSUME Flush(c)
      PROVE  TypeOK'
  <2>1. loc[c].out \in Seq(Item) /\ loc[c].then \in Labels /\ loc[c].out # <<>>
    BY <1>1 DEF Flush, LocalInv, ReaderAt, ReaderType, LocalType
  <2>2. Head(loc[c].out) \in Item /\ Tail(loc[c].out) \in Seq(Item)
    BY <2>1
  <2>3. CASE ~open[c]
    <3>1. ReaderType' /\ QueueType' /\ panicked' \in BOOLEAN
      BY <1>1, <2>3, TypeKept DEF Flush
    <3> QED
      BY <1>1, <3>1, TypeKept DEF Flush, TypeOK
  <2>4. CASE open[c]
    <3>1. ReaderType'
      BY <1>1, <2>1, <2>2, <2>4, ReplyType DEF Flush
    <3>2. QueueType'
      BY <1>1, <2>2, <2>4, EnqueueType DEF Flush
    <3> QED
      BY <1>1, <2>4, <3>1, <3>2, TypeKept DEF Flush, TypeOK
  <2> QED
    BY <2>3, <2>4
<1>2. ASSUME Check(c)
      PROVE  TypeOK'
  <2>1. Idle \in LocalType
    BY DEF Idle, LocalType, Labels
  <2>2. ReaderType'
    BY <1>2, <2>1, LocStep DEF Check, Go, ReaderType, Labels
  <2> QED
    BY <1>2, <2>2, TypeKept DEF Check, TypeOK
<1> QED
  BY <1>1, <1>2

(* The steps of onDisconnect and Close. *)
LEMMA ClosingType ==
  ASSUME TypeOK, LocalInv, NEW c \in Conns, Closing(c)
  PROVE  TypeOK'
<1> SUFFICES ASSUME ReaderType, WriterType, ConnType, QueueType, TopicType, HistoryType,
                    SessionType(Item), panicked \in BOOLEAN
             PROVE  TypeOK'
  BY DEF TypeOK
<1> USE DEF topicVars, queueVars, writerVars, ghostVars, sessionVars
<1>0. pc[c] \in CloseLabels \cup {"close"} => at[c] \in Conns
  BY DEF LocalInv, ReaderAt, ReaderType
<1>1. ASSUME NEW from, NEW to \in Labels, Step(c, from, to), UNCHANGED <<at, loc>>
      PROVE  ReaderType'
  BY <1>1 DEF Step, Go, ReaderType
<1>2. ASSUME NEW to \in Labels, Go(c, to), UNCHANGED <<at, loc>>
      PROVE  ReaderType'
  BY <1>2 DEF Go, ReaderType
<1>3. CASE Unhook(c)
  BY <1>1, <1>3, HookType, TypeKept DEF Unhook, Labels, TypeOK
<1>4. CASE Forget(c)
  <2>1. ReaderType'
    BY <1>4 DEF Forget, Step, Go, ReaderType, Labels
  <2>2. ConnType'
    BY <1>4 DEF Forget, Forgotten, ConnType
  <2>3. HistoryType'
    BY <1>4 DEF Forget, HistoryType
  <2> QED
    BY <1>4, <2>1, <2>2, <2>3, TypeKept DEF Forget, TypeOK
<1>5. CASE Close(c)
  <2>1. at[c] \in Conns
    BY <1>0, <1>5 DEF Close
  <2>2. ConnType'
    BY <1>5 DEF Close, ConnType
  <2>3. HistoryType'
    BY <1>5, <2>1 DEF Close, HistoryType
  <2>4. ReaderType'
    <3>1. CASE conn[at[c]].will = None
      BY <1>5, <3>1 DEF Close, Go, ReaderType, Labels
    <3>2. CASE conn[at[c]].will # None
      <4>1. conn[at[c]].will \in Topics
        BY <2>1, <3>2 DEF ConnType
      <4>2. Own("will", at[c]) \in Item
        BY <2>1, OwnType
      <4>3. [loc[c] EXCEPT !.msg = Own("will", at[c]), !.topic = conn[at[c]].will] \in LocalType
        BY <4>1, <4>2, ZenonT(30) DEF ReaderType, LocalType
      <4> QED
        BY <1>5, <3>2, <4>3, LocStep DEF Close, Go, ReaderType, Labels
    <3> QED
      BY <3>1, <3>2
  <2> QED
    BY <1>5, <2>2, <2>3, <2>4, TypeKept DEF Close, TypeOK
<1>6. CASE Closed(c)
  <2>1. at[c] \in Conns /\ (TakingOver(c) => loc[c].old \in Conns)
    BY <1>0, <1>6 DEF Closed, LocalInv, ReaderAt
  <2>2. pc' \in [Conns -> Labels]
    BY <1>6 DEF Closed, AfterDisconnect, Adopt, Go, ReaderType, Labels
  <2>3. ReaderType'
    BY <1>6, <2>2 DEF Closed, ReaderType
  <2>4. ConnType'
    BY <1>6, <2>1, NoneApart DEF Closed, AfterDisconnect, Adopt, TakingOver, ConnType
  <2>5. SessionType(Item)'
    BY <1>6, MutexType, TypeKept DEF Closed
  <2> QED
    BY <1>6, <2>3, <2>4, <2>5, TypeKept DEF Closed, TypeOK
<1>7. CASE Cleanup(c)
  <2>1. ReaderType'
    BY <1>7, <1>2 DEF Cleanup, Labels
  <2>2. SessionType(Item)'
    BY <1>7, TableType, TypeKept DEF Cleanup
  <2> QED
    BY <1>7, <2>1, <2>2, TypeKept DEF Cleanup, TypeOK
<1>8. CASE Drain(c)
  <2>1. at[c] \in Conns
    BY <1>0, <1>8 DEF Drain, CloseLabels
  <2>2. CASE queue[at[c]] = <<>>
    <3>1. ReaderType' /\ QueueType'
      BY <1>8, <1>2, <2>2, TypeKept DEF Drain, Labels
    <3> QED
      BY <1>8, <3>1, TypeKept DEF Drain, TypeOK
  <2>3. CASE queue[at[c]] # <<>>
    <3>1. QueueType' /\ Head(queue[at[c]]) \in Item
      BY <1>8, <2>1, <2>3, DequeueType DEF Drain
    <3>2. [loc[c] EXCEPT !.msg = Head(queue[at[c]])] \in LocalType
      BY <3>1, ZenonT(30) DEF ReaderType, LocalType
    <3>3. ReaderType'
      BY <1>8, <2>3, <3>2, LocStep DEF Drain, Go, ReaderType, Labels
    <3> QED
      BY <1>8, <3>1, <3>3, TypeKept DEF Drain, TypeOK
  <2> QED
    BY <2>2, <2>3
<1>9. CASE Push(c)
  <2>1. loc[c].msg \in Item
    BY <1>9 DEF Push, Step, LocalInv, ReaderAt, PublishLabels
  <2> QED
    BY <1>1, <1>9, <2>1, PushType, PushingType, TypeKept DEF Push, Labels, TypeOK
<1>10. CASE Mark(c)
  <2>1. ConnType'
    BY <1>10, ZenonT(30) DEF Mark, ConnType
  <2> QED
    BY <1>1, <1>10, <2>1, TypeKept DEF Mark, Labels, TypeOK
<1>11. CASE Signal(c)
  <2>1. WriterType'
    BY <1>11 DEF Signal, WriterType
  <2>2. ReaderType'
    BY <1>1, <1>11 DEF Signal, Labels
  <2> QED
    BY <1>11, <2>1, <2>2, TypeKept DEF Signal, TypeOK
<1>12. CASE Wait(c)
  BY <1>1, <1>12, TypeKept DEF Wait, Labels, TypeOK
<1>13. CASE Unsubscribe(c)
  <2>1. TopicType'
    BY <1>13 DEF Unsubscribe, Without, TopicType
  <2>2. ReaderType'
    BY <1>2, <1>13, TypeKept DEF Unsubscribe, Labels
  <2> QED
    BY <1>13, <2>1, <2>2, TypeKept DEF Unsubscribe, TypeOK
<1>14. CASE CloseQueue(c)
  <2>1. ReaderType'
    BY <1>2, <1>14 DEF CloseQueue, Labels
  <2>2. QueueType' /\ ConnType' /\ HistoryType'
    BY <1>14 DEF CloseQueue, QueueType, ConnType, HistoryType
  <2> QED
    BY <1>14, <2>1, <2>2, TypeKept DEF CloseQueue, TypeOK
<1>15. CASE OffDisconnect(c)
  BY <1>1, <1>15, HookType, TypeKept DEF OffDisconnect, Labels, TypeOK
<1>16. CASE OffWrite(c)
  <2>1. ConnType'
    BY <1>16, ZenonT(30) DEF OffWrite, ConnType
  <2> QED
    BY <1>1, <1>16, <2>1, HookType, TypeKept DEF OffWrite, Labels, TypeOK
<1> QED
  BY <1>3, <1>4, <1>5, <1>6, <1>7, <1>8, <1>9, <1>10, <1>11, <1>12, <1>13, <1>14, <1>15, <1>16
     DEF Closing

(* The steps of the writer and of the timer. *)
LEMMA WriterStepType ==
  ASSUME TypeOK, LocalInv, NEW c \in Conns, Writer(c) \/ Kick(c)
  PROVE  TypeOK'
<1> SUFFICES ASSUME ReaderType, WriterType, ConnType, QueueType, TopicType, HistoryType,
                    SessionType(Item), panicked \in BOOLEAN
             PROVE  TypeOK'
  BY DEF TypeOK
<1> USE DEF topicVars, queueVars, writerVars, ghostVars, sessionVars
<1>1. CASE Take(c)
  <2>1. QueueType' /\ Head(queue[c]) \in Item
    BY <1>1, DequeueType DEF Take
  <2>2. WriterType'
    BY <1>1, <2>1 DEF Take, WStep, WriterType
  <2> QED
    BY <1>1, <2>1, <2>2, TypeKept DEF Take, TypeOK
<1>2. CASE Handle(c)
  <2>1. hand[c] \in Item
    BY <1>2 DEF Handle, WStep, LocalInv, WriterAt
  <2>2. /\ wire' \in [Conns -> Seq(Item)] /\ broken' \in [Conns -> BOOLEAN]
        /\ accepted' \subseteq accepted
    <3>1. CASE conn[c].state = "closed"
      BY <1>2, <3>1 DEF Handle, WriterType
    <3>2. CASE conn[c].state # "closed"
      <4>1. PICK written \in Writes(c) :
              /\ broken' = [broken EXCEPT ![c] = ~written]
              /\ wire' = IF written /\ IsPublish(hand[c])
                           THEN [wire EXCEPT ![c] = Append(@, hand[c])] ELSE wire
              /\ accepted' = accepted \ {Receipt(Session(c), hand[c])}
        BY <1>2, <3>2 DEF Handle
      <4>2. wire' \in [Conns -> Seq(Item)]
        BY <2>1, <4>1 DEF WriterType
      <4>3. broken' \in [Conns -> BOOLEAN]
        BY <4>1, ZenonT(30) DEF WriterType
      <4> QED
        BY <4>1, <4>2, <4>3
    <3> QED
      BY <3>1, <3>2
  <2>3. WriterType'
    BY <1>2, <2>2 DEF Handle, WStep, WriterType
  <2>4. HistoryType'
    BY <1>2, <2>2 DEF Handle, HistoryType
  <2> QED
    BY <1>2, <2>3, <2>4, TypeKept DEF Handle, TypeOK
<1>3. CASE Offline(c)
  <2>1. hand[c] \in Item
    BY <1>3 DEF Offline, WStep, LocalInv, WriterAt
  <2>2. WriterType'
    BY <1>3 DEF Offline, WStep, WriterType
  <2> QED
    BY <1>3, <2>1, <2>2, PushType, PushingType, TypeKept DEF Offline, TypeOK
<1>4. CASE Ping(c)
  <2>1. QueueType'
    BY <1>4, OwnType, EnqueueType DEF Ping
  <2>2. WriterType'
    BY <1>4 DEF Ping, WStep, WriterType
  <2> QED
    BY <1>4, <2>1, <2>2, TypeKept DEF Ping, TypeOK
<1>5. CASE Gone(c)
  <2>1. WriterType'
    BY <1>5 DEF Gone, WStep, WriterType
  <2> QED
    BY <1>5, <2>1, TypeKept DEF Gone, TypeOK
<1>6. CASE Kick(c)
  <2>1. WriterType'
    BY <1>6 DEF Kick, WStep, WriterType
  <2>2. HistoryType'
    BY <1>6 DEF Kick, HistoryType
  <2> QED
    BY <1>6, <2>1, <2>2, TypeKept DEF Kick, TypeOK
<1> QED
  BY <1>1, <1>2, <1>3, <1>4, <1>5, <1>6 DEF Writer

-----------------------------------------------------------------------------
(* Where the goroutines are. *)
OnlyReader(c) == \A d \in Conns \ {c} : pc'[d] = pc[d] /\ at'[d] = at[d] /\ loc'[d] = loc[d]

(* A step of a connection moves no other connection's reader. *)
LEMMA StepIsLocal ==
  ASSUME ReaderType, NEW c \in Conns, Packet(c) \/ Reader(c) \/ Writer(c) \/ Kick(c)
  PROVE  OnlyReader(c)
<1> USE DEF OnlyReader, ReaderType, Go, Step, Reply
<1>1. CASE Packet(c)
  BY <1>1 DEF Packet, Connect, Publish, Subscribe, UnSubscribe, Acknowledge, Disconnect, Drop
<1>2. CASE Flush(c) \/ Check(c)
  BY <1>2 DEF Flush, Check
<1>3. CASE Connecting(c)
  BY <1>3 DEF Connecting, DoDisconnect, AfterDisconnect, Adopt, Create, Replay, HookDisconnect,
              HookWrite, Finish
<1>4. CASE Subscribing(c)
  BY <1>4 DEF Subscribing, Insert, AddTopic, FetchRetained, RemoveTopic
<1>5. CASE Publishing(c)
  BY <1>5 DEF Publishing, Retain, Match, Deliver, Write, Send
<1>6. CASE Closing(c)
  BY <1>6 DEF Closing, Unhook, Forget, Close, Closed, AfterDisconnect, Adopt, Cleanup, Drain, Push,
              Mark, Signal, Wait, Unsubscribe, CloseQueue, OffDisconnect, OffWrite
<1>7. CASE Writer(c) \/ Kick(c)
  BY <1>7 DEF Writer, Take, Handle, Offline, Ping, Gone, Kick
<1> QED
  BY <1>1, <1>2, <1>3, <1>4, <1>5, <1>6, <1>7 DEF Reader

(* The place a handler goes on to after its own messages. *)
LEMMA ReplyAt ==
  ASSUME ReaderType, NEW c \in Conns, NEW out, NEW then, Reply(c, out, then)
  PROVE  /\ loc'[c].out = out /\ loc'[c].then = then
         /\ out # <<>> => pc'[c] = "flush"
         /\ out = <<>> => pc'[c] = then
         /\ loc'[c].msg = loc[c].msg /\ loc'[c].old = loc[c].old /\ loc'[c].cur = loc[c].cur
<1>1. loc[c] \in LocalType /\ loc'[c] = [loc[c] EXCEPT !.out = out, !.then = then]
  BY DEF ReaderType, Reply
<1>2. pc'[c] = Then(out, then)
  BY DEF ReaderType, Reply, Go
<1> QED
  BY <1>1, <1>2 DEF LocalType, Then

(* The locals of a reader after its own steps. *)
LEMMA PacketLocal ==
  ASSUME TypeOK, NEW c \in Conns, ReaderAt(c), Packet(c)
  PROVE  ReaderAt(c)'
<1> SUFFICES ASSUME ReaderType PROVE ReaderAt(c)'
  BY DEF TypeOK
<1> USE DEF ReaderAt, TakingOver, CloseLabels, BodyLabels, SubscribeLabels, PublishLabels
<1>1. ASSUME NEW p \in Connects[c], NEW ok \in AuthResults, Connect(c, p, ok)
      PROVE  ReaderAt(c)'
  <2>1. at'[c] = None
    BY <1>1 DEF Connect, Reading
  <2>2. CASE conn[c].connected
    BY <1>1, <2>1, <2>2 DEF Connect, Go, ReaderType
  <2>3. CASE ~conn[c].connected /\ ~ok
    BY <1>1, <2>1, <2>3, ReplyAt DEF Connect
  <2>4. CASE ~conn[c].connected /\ ok
    <3>1. /\ pc'[c] = IF Get(p.client) = None THEN "create" ELSE "disconnect"
          /\ loc'[c] = [loc[c] EXCEPT !.client = p.client, !.clean = p.clean, !.will = p.will,
                                      !.old = Get(p.client)]
      BY <1>1, <2>4 DEF Connect, Go, ReaderType
    <3>2. Get(p.client) \in Conns \cup {None}
      BY GetType DEF TypeOK
    <3>3. loc'[c].old = Get(p.client)
      BY <3>1 DEF ReaderType, LocalType
    <3> QED
      BY <2>1, <3>1, <3>2, <3>3
  <2> QED
    BY <2>2, <2>3, <2>4
<1>2. ASSUME NEW p \in Publishes[c], Publish(c, p)
      PROVE  ReaderAt(c)'
  <2> DEFINE m == [kind |-> "live", src |-> c, n |-> sent[c] + 1]
             out == IF p.qos > 0 THEN <<Own("ack", c)>> ELSE <<>>
             then == IF p.retain = "no" THEN "match" ELSE "retain"
  <2>1. m \in Item
    BY DEF TypeOK, HistoryType, Item
  <2>2. /\ pc'[c] = Then(out, then) /\ at'[c] = None
        /\ loc'[c] = [loc[c] EXCEPT !.msg = m, !.topic = p.topic, !.retain = p.retain,
                                    !.out = out, !.then = then]
    BY <1>2 DEF Publish, Reading, Go, ReaderType
  <2>3. then \in {"match", "retain"}
    OBVIOUS
  <2>4. loc'[c].msg = m /\ loc'[c].out = out /\ loc'[c].then = then
    <3> HIDE DEF m, out, then
    <3> QED
      BY <2>2 DEF ReaderType, LocalType
  <2> HIDE DEF m, out, then
  <2> QED
    BY <2>1, <2>2, <2>3, <2>4 DEF Then
<1>3. ASSUME NEW t \in Subscribes[c], Subscribe(c, t)
      PROVE  ReaderAt(c)'
  <2>1. t \in Topics
    BY ConBrokerAssumption DEF ConBrokerAssumption
  <2>2. pc'[c] = "insert" /\ loc'[c].topic = t /\ at'[c] = None
    BY <1>3 DEF Subscribe, Reading, Go, ReaderType, LocalType
  <2> QED
    BY <2>1, <2>2
<1>4. ASSUME NEW t \in Unsubscribes[c], UnSubscribe(c, t)
      PROVE  ReaderAt(c)'
  <2>1. t \in Topics /\ at'[c] = None
    BY <1>4, ConBrokerAssumption DEF ConBrokerAssumption, UnSubscribe, Reading
  <2>2. CASE t \in conn[c].subscription
    <3>1. pc'[c] = "removeTopics" /\ loc'[c].topic = t
      BY <1>4, <2>2 DEF UnSubscribe, Go, ReaderType, LocalType
    <3> QED
      BY <2>1, <3>1
  <2>3. CASE t \notin conn[c].subscription
    BY <1>4, <2>1, <2>3, ReplyAt DEF UnSubscribe
  <2> QED
    BY <2>2, <2>3
<1>5. CASE Acknowledge(c)
  <2>1. at'[c] = None
    BY <1>5 DEF Acknowledge, Reading
  <2> QED
    BY <1>5, <2>1, ReplyAt DEF Acknowledge
<1>6. CASE Disconnect(c)
  BY <1>6, NoneApart DEF Disconnect, Reading, Go, ReaderType
<1>7. CASE Drop(c)
  BY <1>7, NoneApart DEF Drop, Step, Go, ReaderType
<1> QED
  BY <1>1, <1>2, <1>3, <1>4, <1>5, <1>6, <1>7 DEF Packet

(* The steps of onConnect, onSubscribe and onUnSubscribe, and the loop,
   leave the reader where ReaderAt says. *)
LEMMA HandlerLocal ==
  ASSUME TypeOK, ConnInv, NEW c \in Conns, ReaderAt(c),
         Flush(c) \/ Check(c) \/ Connecting(c) \/ Subscribing(c)
  PROVE  ReaderAt(c)'
<1> SUFFICES ASSUME ReaderType PROVE ReaderAt(c)'
  BY DEF TypeOK
<1> USE DEF ReaderAt, TakingOver, CloseLabels, BodyLabels, SubscribeLabels, PublishLabels
<1>1. CASE Flush(c)
  <2>1. at'[c] = None /\ pc[c] = "flush"
    BY <1>1 DEF Flush
  <2>2. CASE ~open[c]
    BY <1>1, <2>2 DEF Flush
  <2>3. CASE open[c]
    BY <1>1, <2>1, <2>3, ReplyAt DEF Flush
  <2> QED
    BY <2>2, <2>3
<1>2. CASE Check(c)
  BY <1>2, NoneApart DEF Check, Go, ReaderType
<1>3. CASE DoDisconnect(c)
  <2>1. at[c] = None /\ loc' = loc /\ loc[c].old \in Conns
    BY <1>3 DEF DoDisconnect
  <2>2. CASE sess[loc[c].old].onDisconnect = None
    BY <1>3, <2>1, <2>2 DEF DoDisconnect, AfterDisconnect, Adopt, Go, ReaderType
  <2>3. CASE sess[loc[c].old].onDisconnect # None
    BY <1>3, <2>1, <2>3 DEF DoDisconnect, Go, ReaderType
  <2> QED
    BY <2>2, <2>3
<1>4. CASE Create(c)
  BY <1>4 DEF Create, Adopt, Go, ReaderType
<1>5. CASE Replay(c)
  <2>1. at'[c] = None
    BY <1>5 DEF Replay
  <2> QED
    BY <1>5, <2>1, ReplyAt DEF Replay
<1>6. CASE HookDisconnect(c) \/ HookWrite(c)
  BY <1>6 DEF HookDisconnect, HookWrite, Step, Go, ReaderType
<1>7. CASE Finish(c)
  <2>1. at'[c] = None
    BY <1>7 DEF Finish
  <2> QED
    BY <1>7, <2>1, ReplyAt DEF Finish
<1>8. CASE Insert(c) \/ AddTopic(c)
  <2>1. CASE Insert(c) /\ loc[c].topic \in Malformed
    <3>1. at'[c] = None
      BY <2>1 DEF Insert
    <3> QED
      BY <2>1, <3>1, ReplyAt DEF Insert
  <2>2. CASE Insert(c) /\ loc[c].topic \notin Malformed
    BY <2>2 DEF Insert, Go, ReaderType
  <2>3. CASE AddTopic(c)
    BY <2>3 DEF AddTopic, Step, Go, ReaderType
  <2> QED
    BY <1>8, <2>1, <2>2, <2>3
<1>9. CASE FetchRetained(c)
  <2>1. at'[c] = None
    BY <1>9 DEF FetchRetained
  <2> QED
    BY <1>9, <2>1, ReplyAt DEF FetchRetained
<1>10. CASE RemoveTopic(c)
  <2>1. at'[c] = None
    BY <1>10 DEF RemoveTopic
  <2> QED
    BY <1>10, <2>1, ReplyAt DEF RemoveTopic
<1> QED
  BY <1>1, <1>2, <1>3, <1>4, <1>5, <1>6, <1>7, <1>8, <1>9, <1>10 DEF Connecting, Subscribing

(* So do those of a delivery. *)
LEMMA PublishingLocal ==
  ASSUME TypeOK, NEW c \in Conns, ReaderAt(c), Publishing(c)
  PROVE  ReaderAt(c)'
<1> SUFFICES ASSUME ReaderType PROVE ReaderAt(c)'
  BY DEF TypeOK
<1> USE DEF ReaderAt, TakingOver, CloseLabels, BodyLabels, SubscribeLabels, PublishLabels
<1>1. \A todo : Rest(c, todo) = "deliver" \/ (Rest(c, todo) = "check" /\ at[c] = None)
                 \/ (Rest(c, todo) = "cleanup" /\ at[c] # None)
  BY DEF Rest
<1>2. CASE Retain(c)
  BY <1>2 DEF Retain, Step, Go, ReaderType
<1>3. CASE Match(c)
  <2>1. loc'[c].msg = loc[c].msg /\ loc'[c].old = loc[c].old
        /\ \E todo : pc'[c] = Rest(c, todo)
    BY <1>3 DEF Match, Go, ReaderType, LocalType
  <2>2. at' = at /\ pc[c] = "match"
    BY <1>3 DEF Match
  <2> QED
    BY <1>1, <2>1, <2>2
<1>4. CASE Deliver(c)
  <2>1. PICK s \in loc[c].todo :
          /\ loc'[c] = [loc[c] EXCEPT !.todo = loc[c].todo \ {s}, !.cur = Get(s.client)]
          /\ pc'[c] = IF Get(s.client) = None THEN Rest(c, loc[c].todo \ {s}) ELSE "write"
    BY <1>4 DEF Deliver, Go, ReaderType
  <2>3. /\ loc'[c].msg = loc[c].msg /\ loc'[c].old = loc[c].old
        /\ loc'[c].cur = Get(s.client) /\ Get(s.client) \in Conns \cup {None}
    BY <2>1, GetType DEF TypeOK, ReaderType, LocalType
  <2>2. at' = at /\ pc[c] = "deliver"
    BY <1>4 DEF Deliver
  <2> QED
    BY <1>1, <2>1, <2>2, <2>3
<1>5. CASE Write(c)
  <2>1. pc'[c] = "send" \/ \E todo : pc'[c] = Rest(c, todo)
    BY <1>5 DEF Write, Go, ReaderType
  <2>2. at' = at /\ loc' = loc /\ pc[c] = "write"
    BY <1>5 DEF Write
  <2> QED
    BY <1>1, <2>1, <2>2
<1>6. CASE Send(c)
  <2>1. pc' = pc \/ \E todo : pc'[c] = Rest(c, todo)
    BY <1>6 DEF Send, Go, ReaderType
  <2>2. at' = at /\ loc' = loc /\ pc[c] = "send"
    BY <1>6 DEF Send
  <2> QED
    BY <1>1, <2>1, <2>2
<1> QED
  BY <1>2, <1>3, <1>4, <1>5, <1>6 DEF Publishing

(* So do those of onDisconnect and Close. *)
LEMMA ClosingLocal ==
  ASSUME TypeOK, NEW c \in Conns, ReaderAt(c), Closing(c)
  PROVE  ReaderAt(c)'
<1> SUFFICES ASSUME ReaderType PROVE ReaderAt(c)'
  BY DEF TypeOK
<1> USE DEF ReaderAt, TakingOver, CloseLabels, BodyLabels, SubscribeLabels, PublishLabels
<1>1. CASE Unhook(c) \/ Forget(c)
  BY <1>1, NoneApart DEF Unhook, Forget, Step, Go, ReaderType
<1>2. CASE Close(c)
  <2>1. at[c] \in Conns /\ at' = at
    BY <1>2 DEF Close, ReaderType
  <2>2. CASE conn[at[c]].will = None
    BY <1>2, <2>1, <2>2 DEF Close, Go, ReaderType
  <2>3. CASE conn[at[c]].will # None
    <3>1. /\ pc'[c] = "match"
          /\ loc'[c] = [loc[c] EXCEPT !.msg = Own("will", at[c]), !.topic = conn[at[c]].will]
      BY <1>2, <2>3 DEF Close, Go, ReaderType
    <3>2. loc'[c].msg = Own("will", at[c]) /\ loc'[c].old = loc[c].old
      BY <3>1 DEF ReaderType, LocalType
    <3> QED
      BY <2>1, <3>1, <3>2, OwnType
  <2> QED
    BY <2>2, <2>3
<1>3. CASE Closed(c)
  BY <1>3 DEF Closed, AfterDisconnect, Adopt, Go, ReaderType
<1>4. CASE Cleanup(c)
  BY <1>4 DEF Cleanup, Go, ReaderType
<1>5. CASE Drain(c)
  <2>1. at[c] \in Conns /\ at' = at
    BY <1>5 DEF Drain, ReaderType
  <2>2. CASE pc'[c] = "push"
    <3>1. queue[at[c]] # <<>> /\ queue' = [queue EXCEPT ![at[c]] = Tail(@)] /\ open' = open
          /\ loc' = [loc EXCEPT ![c].msg = Head(queue[at[c]])]
      BY <1>5, <2>2 DEF Drain, Go, ReaderType
    <3>2. Head(queue[at[c]]) \in Item
      BY <2>1, <3>1, DequeueType DEF TypeOK
    <3>3. loc'[c].msg = Head(queue[at[c]]) /\ loc'[c].old = loc[c].old
      BY <3>1 DEF ReaderType, LocalType
    <3> QED
      BY <2>1, <2>2, <3>2, <3>3, NoneApart
  <2>3. CASE pc'[c] # "push"
    <3>1. loc' = loc /\ pc'[c] \in {"mark", "drain"}
      BY <1>5, <2>3 DEF Drain, Go, ReaderType
    <3> QED
      BY <2>1, <2>3, <3>1, NoneApart
  <2> QED
    BY <2>2, <2>3
<1>6. CASE Push(c) \/ Mark(c) \/ Signal(c) \/ Wait(c)
  BY <1>6 DEF Push, Mark, Signal, Wait, Step, Go, ReaderType
<1>7. CASE Unsubscribe(c) \/ CloseQueue(c)
  BY <1>7 DEF Unsubscribe, CloseQueue, Go, ReaderType
<1>8. CASE OffDisconnect(c) \/ OffWrite(c)
  BY <1>8 DEF OffDisconnect, OffWrite, Step, Go, ReaderType
<1> QED
  BY <1>1, <1>2, <1>3, <1>4, <1>5, <1>6, <1>7, <1>8 DEF Closing

(* The writer holds a message wherever it handles one. *)
LEMMA WriterLocal ==
  ASSUME TypeOK, NEW c \in Conns, LocalInv, Packet(c) \/ Reader(c) \/ Writer(c) \/ Kick(c)
  PROVE  \A d \in Conns : WriterAt(d)'
<1> SUFFICES ASSUME WriterType, \A d \in Conns : WriterAt(d)
             PROVE  \A d \in Conns : WriterAt(d)'
  BY DEF TypeOK, LocalInv
<1> USE DEF WriterAt, writerVars
<1>1. CASE Packet(c)
  BY <1>1 DEF Packet, Connect, Publish, Subscribe, UnSubscribe, Acknowledge, Disconnect, Drop
<1>2. CASE Flush(c) \/ Check(c) \/ Connecting(c) \/ Subscribing(c) \/ Publishing(c)
  BY <1>2 DEF Flush, Check, Connecting, DoDisconnect, Create, Replay, HookDisconnect, HookWrite,
              Finish, Subscribing, Insert, AddTopic, FetchRetained, RemoveTopic,
              Publishing, Retain, Match, Deliver, Write, Send
<1>3. CASE Closing(c)
  <2>1. CASE Signal(c)
    BY <2>1 DEF Signal, WriterType
  <2>2. CASE ~Signal(c)
    BY <1>3, <2>2 DEF Closing, Unhook, Forget, Close, Closed, Cleanup, Drain, Push, Mark, Wait,
                      Unsubscribe, CloseQueue, OffDisconnect, OffWrite
  <2> QED
    BY <2>1, <2>2
<1>4. CASE Take(c)
  <2>1. Head(queue[c]) \in Item
    BY <1>4, DequeueType DEF Take, TypeOK
  <2> QED
    BY <1>4, <2>1 DEF Take, WStep, WriterType
<1>5. CASE Handle(c)
  <2>1. CASE conn[c].state = "closed" /\ Session(c) # None
    BY <1>5, <2>1 DEF Handle, WStep, WriterType
  <2>2. CASE ~(conn[c].state = "closed" /\ Session(c) # None)
    BY <1>5, <2>2 DEF Handle, WStep, WriterType
  <2> QED
    BY <2>1, <2>2
<1>6. CASE Offline(c) \/ Ping(c) \/ Gone(c) \/ Kick(c)
  BY <1>6 DEF Offline, Ping, Gone, Kick, WStep, WriterType
<1> QED
  BY <1>1, <1>2, <1>3, <1>4, <1>5, <1>6 DEF Reader, Writer

(* LocalInv is kept. *)
LEMMA LocalStepInv ==
  ASSUME TypeOK, LocalInv, ConnInv, NEW c \in Conns,
         Packet(c) \/ Reader(c) \/ Writer(c) \/ Kick(c)
  PROVE  LocalInv'
<1>1. \A d \in Conns : WriterAt(d)'
  BY WriterLocal
<1>2. OnlyReader(c)
  BY StepIsLocal DEF TypeOK
<1>3. ReaderAt(c)'
  <2>1. CASE Writer(c) \/ Kick(c)
    <3>1. UNCHANGED <<pc, at, loc>>
      BY <2>1 DEF Writer, Take, Handle, Offline, Ping, Gone, Kick
    <3> QED
      BY <3>1 DEF LocalInv, ReaderAt, TakingOver
  <2>2. CASE Packet(c) \/ Reader(c)
    BY <2>2, PacketLocal, HandlerLocal, PublishingLocal, ClosingLocal DEF Reader, LocalInv
  <2> QED
    BY <2>1, <2>2
<1>4. ASSUME NEW d \in Conns \ {c} PROVE ReaderAt(d)'
  BY <1>2 DEF OnlyReader, LocalInv, ReaderAt, TakingOver
<1> QED
  BY <1>1, <1>3, <1>4 DEF LocalInv

-----------------------------------------------------------------------------
(* Sessions, hooks and wills.  Most steps are quiet: they leave the sessions
   of the connections, their hooks, the mutexes and the histories alone. *)
ConnsKept ==
  /\ once' = once /\ willed' = willed /\ bye' = bye
  /\ \A o \in Conns : /\ conn'[o].session = conn[o].session
                      /\ conn'[o].connected = conn[o].connected
                      /\ conn'[o].will = conn[o].will
                      /\ conn'[o].subscription # {} =>
                           conn[o].subscription # {} \/ conn[o].connected
SessionsKept ==
  /\ lock' = lock
  /\ \A s \in Conns : sess'[s].onDisconnect = sess[s].onDisconnect
  /\ \A i \in Clients : group'[i] \in {group[i], None}

LoudLabels == {"disconnect", "create", "send", "unhook", "forget", "offWrite", "exited"}
Quiet(c) ==
  /\ OnlyReader(c) /\ at' = at
  /\ ConnsKept /\ SessionsKept
  /\ loc'[c].old \in {loc[c].old, None} \cup {group[i] : i \in Clients}
  /\ TakingOver(c) => loc'[c].old = loc[c].old
  /\ \/ pc'[c] = pc[c] /\ loc'[c] = loc[c]
     \/ /\ pc[c] # "exited"
        /\ pc'[c] \in {"disconnect", "create"} => at[c] = None /\ ~conn[c].connected
        /\ pc'[c] \notin {"send", "forget", "offWrite", "exited"}
        /\ pc'[c] \in SubscribeLabels => conn[c].connected
        /\ Adopting(c)' <=> Adopting(c)

(* A reader begins to close its own connection. *)
Begins(c) ==
  /\ OnlyReader(c) /\ at[c] = None /\ at' = [at EXCEPT ![c] = c]
  /\ ConnsKept /\ SessionsKept
  /\ pc[c] \in {"read", "check"} /\ pc'[c] = "close"
  /\ loc'[c].old \in {loc[c].old, None}


(* A quiet step keeps the invariant. *)
LEMMA QuietStep ==
  ASSUME TypeOK, LocalInv, SharedInv, NEW c \in Conns, Quiet(c)
  PROVE  SharedInv'
<1> SUFFICES ASSUME ConnInv, BornInv, HookInv, LockInv, OnceInv PROVE SharedInv'
  BY DEF SharedInv
<1> USE DEF Quiet, OnlyReader, ConnsKept
<1>1. ASSUME NEW d \in Conns
      PROVE  /\ Session(d)' = Session(d) /\ TakingOver(d)' = TakingOver(d)
             /\ Born(d)' <=> Born(d)
             /\ d # c => (Adopting(d)' <=> Adopting(d))
  BY DEF Session, TakingOver, Born, Adopting
<1>2. ConnInv'
  <2>1. ASSUME NEW d \in Conns \ {c}
        PROVE  /\ pc'[d] = pc[d] /\ at'[d] = at[d] /\ conn'[d].connected = conn[d].connected
               /\ Session(d)' = Session(d) /\ TakingOver(d)' = TakingOver(d)
               /\ Adopting(d)' <=> Adopting(d)
    BY <1>1
  <2>2. CASE pc'[c] = pc[c] /\ loc'[c] = loc[c]
    <3>1. Adopting(c)' <=> Adopting(c)
      BY <2>2 DEF Adopting
    <3> QED
      BY <1>1, <2>1, <2>2, <3>1 DEF ConnInv
  <2>3. CASE ~(pc'[c] = pc[c] /\ loc'[c] = loc[c])
    BY <1>1, <2>1, <2>3 DEF ConnInv
  <2> QED
    BY <2>2, <2>3
<1>3. BornInv'
  <2>1. \A i \in Clients : group[i] \in Conns \cup {None}
    BY DEF TypeOK, SessionType
  <2>2. \A d \in Conns : loc[d].old \in Conns \cup {None} /\ Session(d) \in Conns \cup {None}
    BY DEF TypeOK, ReaderType, LocalType, ConnType, Session
  <2> QED
    BY <1>1, <2>1, <2>2 DEF BornInv, SessionsKept
<1>4. HookInv'
  BY <1>1 DEF HookInv, SessionsKept
<1>5. LockInv'
  <2>1. ASSUME NEW d \in Conns, TakingOver(d)
        PROVE  loc'[d].old = loc[d].old /\ loc[d].old \in Conns
    BY <2>1 DEF LocalInv, ReaderAt
  <2>2. ASSUME NEW d \in Conns, pc'[d] \in {"send", "offWrite"}
        PROVE  pc[d] = pc'[d] /\ loc'[d] = loc[d]
    BY <2>2
  <2> QED
    BY <1>1, <2>1, <2>2 DEF LockInv, SessionsKept
<1>6. OnceInv'
  BY DEF OnceInv
<1> QED
  BY <1>2, <1>3, <1>4, <1>5, <1>6 DEF SharedInv

(* The beginning of a reader's own Close keeps it. *)
LEMMA BeginsStep ==
  ASSUME TypeOK, LocalInv, SharedInv, NEW c \in Conns, Begins(c)
  PROVE  SharedInv'
<1> SUFFICES ASSUME ConnInv, BornInv, HookInv, LockInv, OnceInv PROVE SharedInv'
  BY DEF SharedInv
<1> USE DEF Begins, OnlyReader, ConnsKept
<1>1. at'[c] = c /\ \A d \in Conns \ {c} : at'[d] = at[d]
  BY DEF TypeOK, ReaderType
<1>2. ASSUME NEW d \in Conns
      PROVE  /\ Session(d)' = Session(d) /\ TakingOver(d)' = TakingOver(d)
             /\ Born(d)' <=> Born(d)
             /\ Adopting(d)' <=> Adopting(d)
  BY <1>1 DEF Session, TakingOver, Born, Adopting
<1>3. ConnInv'
  BY <1>1, <1>2, NoneApart DEF ConnInv, SubscribeLabels
<1>4. BornInv'
  <2>1. \A i \in Clients : group[i] \in Conns \cup {None}
    BY DEF TypeOK, SessionType
  <2>2. \A d \in Conns : loc[d].old \in Conns \cup {None} /\ Session(d) \in Conns \cup {None}
    BY DEF TypeOK, ReaderType, LocalType, ConnType, Session
  <2> QED
    BY <1>2, <2>1, <2>2 DEF BornInv, SessionsKept
<1>5. HookInv'
  BY <1>1, <1>2 DEF HookInv, SessionsKept
<1>6. LockInv'
  <2>1. ASSUME NEW d \in Conns, TakingOver(d)
        PROVE  d # c /\ loc'[d] = loc[d] /\ loc[d].old \in Conns
    BY <2>1 DEF LocalInv, ReaderAt, TakingOver
  <2>2. ASSUME NEW d \in Conns, pc'[d] \in {"send", "offWrite"}
        PROVE  d # c
    BY <2>2
  <2> QED
    BY <1>1, <1>2, <2>1, <2>2 DEF LockInv, SessionsKept
<1>7. OnceInv'
  <2>1. ASSUME NEW o \in Conns
        PROVE  /\ at[o] = o \/ pc[o] = "exited" => at'[o] = o \/ pc'[o] = "exited"
               /\ (\E d \in Conns : at[d] = o) => \E d \in Conns : at'[d] = o
    BY <1>1, NoneApart
  <2> QED
    BY <2>1 DEF OnceInv
<1> QED
  BY <1>3, <1>4, <1>5, <1>6, <1>7 DEF SharedInv

(* Most operations on a session leave its hook alone. *)
LEMMA HooksStay ==
  ASSUME SessionType(Item), NEW s
  PROVE  /\ \A c : WithOnWrite(s, c) => SessionsKept
         /\ \A i : WithClientID(s, i) => SessionsKept
         /\ \A t : AddTopics(s, t) \/ RemoveTopics(s, t) => SessionsKept
         /\ \A m : PushOfflineMessage(s, m) => SessionsKept
         /\ OfflineMessages(s) => SessionsKept
         /\ \A i : Remove(i) => SessionsKept
         /\ UNCHANGED sessionVars => SessionsKept
<1> USE DEF SessionType, SessionRecord, SessionsKept
<1>1. \A c : WithOnWrite(s, c) => SessionsKept
  BY DEF WithOnWrite
<1>2. \A i : WithClientID(s, i) => SessionsKept
  BY DEF WithClientID
<1>3. \A t : AddTopics(s, t) \/ RemoveTopics(s, t) => SessionsKept
  <2>1. \A t : AddTopics(s, t) => SessionsKept
    BY DEF AddTopics
  <2>2. \A t : RemoveTopics(s, t) => SessionsKept
    BY DEF RemoveTopics
  <2> QED
    BY <2>1, <2>2
<1>4. \A m : PushOfflineMessage(s, m) => SessionsKept
  BY DEF PushOfflineMessage
<1>5. OfflineMessages(s) => SessionsKept
  BY DEF OfflineMessages
<1>6. \A i : Remove(i) => SessionsKept
  BY DEF Remove
<1>7. UNCHANGED sessionVars => SessionsKept
  BY DEF sessionVars
<1> QED
  BY <1>1, <1>2, <1>3, <1>4, <1>5, <1>6, <1>7

(* A packet's arrival is quiet, or begins the reader's own Close. *)
LEMMA PacketQuiet ==
  ASSUME TypeOK, LocalInv, SharedInv, NEW c \in Conns, Packet(c)
  PROVE  Quiet(c) \/ Begins(c)
<1> SUFFICES ASSUME ReaderType, ConnType, SessionType(Item)
             PROVE  Quiet(c) \/ Begins(c)
  BY DEF TypeOK
<1>1. OnlyReader(c)
  BY StepIsLocal
<1>2. SessionsKept
  BY HooksStay DEF Packet, Connect, Publish, Subscribe, UnSubscribe, Acknowledge, Disconnect, Drop
<1>3. ConnsKept
  <2> USE DEF ConnsKept, ConnType, ghostVars
  <2>1. CASE \E t \in Subscribes[c] : Subscribe(c, t)
    BY <2>1 DEF Subscribe
  <2>2. CASE ~\E t \in Subscribes[c] : Subscribe(c, t)
    BY <2>2 DEF Packet, Connect, Publish, UnSubscribe, Acknowledge, Disconnect, Drop
  <2> QED
    BY <2>1, <2>2
<1>4. pc[c] = "read" /\ at[c] = None /\ ~TakingOver(c)
  BY DEF Packet, Connect, Publish, Subscribe, UnSubscribe, Acknowledge, Disconnect, Drop,
         Reading, Step, LocalInv, ReaderAt, BodyLabels, CloseLabels, TakingOver
<1> USE DEF SubscribeLabels, Adopting
<1>5. ASSUME NEW p \in Connects[c], NEW ok \in AuthResults, Connect(c, p, ok)
      PROVE  Quiet(c)
  <2>1. at' = at
    BY <1>5 DEF Connect
  <2>2. CASE conn[c].connected
    <3>1. loc' = loc /\ pc'[c] = "check"
      BY <1>5, <2>2 DEF Connect, Go, ReaderType
    <3> QED
      BY <1>1, <1>2, <1>3, <1>4, <2>1, <3>1 DEF Quiet
  <2>3. CASE ~conn[c].connected /\ ~ok
    <3>1. loc'[c].old = loc[c].old /\ loc'[c].then = "check" /\ pc'[c] = "flush"
      BY <1>5, <2>3, ReplyAt DEF Connect
    <3> QED
      BY <1>1, <1>2, <1>3, <1>4, <2>1, <3>1 DEF Quiet
  <2>4. CASE ~conn[c].connected /\ ok
    <3>1. /\ pc'[c] \in {"create", "disconnect"}
          /\ loc'[c] = [loc[c] EXCEPT !.client = p.client, !.clean = p.clean, !.will = p.will,
                                      !.old = Get(p.client)]
      BY <1>5, <2>4 DEF Connect, Go, ReaderType
    <3>2. loc'[c].old \in {None} \cup {group[i] : i \in Clients}
      BY <3>1 DEF ReaderType, LocalType, Get
    <3> QED
      BY <1>1, <1>2, <1>3, <1>4, <2>1, <2>4, <3>1, <3>2 DEF Quiet
  <2> QED
    BY <2>2, <2>3, <2>4
<1>6. ASSUME NEW p \in Publishes[c], Publish(c, p)
      PROVE  Quiet(c)
  <2> DEFINE m == [kind |-> "live", src |-> c, n |-> sent[c] + 1]
             out == IF p.qos > 0 THEN <<Own("ack", c)>> ELSE <<>>
             then == IF p.retain = "no" THEN "match" ELSE "retain"
  <2>1. /\ pc'[c] = Then(out, then) /\ at' = at
        /\ loc'[c] = [loc[c] EXCEPT !.msg = m, !.topic = p.topic, !.retain = p.retain,
                                    !.out = out, !.then = then]
    BY <1>6 DEF Publish, Go, ReaderType
  <2>2. then \in {"match", "retain"}
    OBVIOUS
  <2> HIDE DEF m, out, then
  <2>3. loc'[c].old = loc[c].old /\ loc'[c].then = then
    BY <2>1 DEF ReaderType, LocalType
  <2> QED
    BY <1>1, <1>2, <1>3, <1>4, <2>1, <2>2, <2>3 DEF Quiet, Then
<1>7. ASSUME NEW t \in Subscribes[c], Subscribe(c, t)
      PROVE  Quiet(c)
  <2>1. /\ pc'[c] = "insert" /\ loc'[c].old = loc[c].old /\ at' = at
        /\ conn[c].connected
    BY <1>7 DEF Subscribe, Go, ReaderType, LocalType
  <2> QED
    BY <1>1, <1>2, <1>3, <1>4, <2>1 DEF Quiet
<1>8. ASSUME NEW t \in Unsubscribes[c], UnSubscribe(c, t)
      PROVE  Quiet(c)
  <2>1. at' = at
    BY <1>8 DEF UnSubscribe
  <2>2. CASE t \in conn[c].subscription
    <3>1. /\ pc'[c] = "removeTopics" /\ loc'[c].old = loc[c].old
          /\ conn[c].connected
      BY <1>8, <2>2 DEF UnSubscribe, Go, ReaderType, LocalType, SharedInv, ConnInv
    <3> QED
      BY <1>1, <1>2, <1>3, <1>4, <2>1, <3>1 DEF Quiet
  <2>3. CASE t \notin conn[c].subscription
    <3>1. loc'[c].old = loc[c].old /\ loc'[c].then = "check" /\ pc'[c] = "flush"
      BY <1>8, <2>3, ReplyAt DEF UnSubscribe
    <3> QED
      BY <1>1, <1>2, <1>3, <1>4, <2>1, <3>1 DEF Quiet
  <2> QED
    BY <2>2, <2>3
<1>9. CASE Acknowledge(c)
  <2>1. /\ loc'[c].old = loc[c].old /\ loc'[c].then = "check" /\ pc'[c] = "flush"
        /\ at' = at
    BY <1>9, ReplyAt DEF Acknowledge
  <2> QED
    BY <1>1, <1>2, <1>3, <1>4, <2>1 DEF Quiet
<1>10. CASE Disconnect(c)
  <2>1. CASE Session(c) = None
    BY <1>1, <1>2, <1>3, <1>4, <1>10, <2>1 DEF Disconnect, Begins, Go, ReaderType
  <2>2. CASE Session(c) # None
    BY <1>1, <1>2, <1>3, <1>4, <1>10, <2>2 DEF Disconnect, Quiet, Go, ReaderType
  <2> QED
    BY <2>1, <2>2
<1>11. CASE Drop(c)
  BY <1>1, <1>2, <1>3, <1>4, <1>11 DEF Drop, Step, Begins, Go, ReaderType
<1> QED
  BY <1>5, <1>6, <1>7, <1>8, <1>9, <1>10, <1>11 DEF Packet

(* The handlers' other steps are quiet, but for those with a lemma of
   their own below. *)
LEMMA HandlerQuiet ==
  ASSUME TypeOK, LocalInv, SharedInv, NEW c \in Conns,
         \/ Flush(c) \/ Check(c) \/ Replay(c) \/ HookWrite(c) \/ Subscribing(c)
         \/ Retain(c) \/ Match(c) \/ Deliver(c)
         \/ Write(c) /\ pc'[c] # "send"
  PROVE  Quiet(c) \/ Begins(c)
<1> SUFFICES ASSUME ReaderType, ConnType, SessionType(Item)
             PROVE  Quiet(c) \/ Begins(c)
  BY DEF TypeOK
<1>1. OnlyReader(c)
  BY StepIsLocal DEF Reader, Connecting, Publishing
<1>2. SessionsKept
  <2>1. CASE Write(c) /\ pc'[c] # "send"
    <3>1. PushOfflineMessage(loc[c].cur, loc[c].msg)
      BY <2>1 DEF Write, Go, ReaderType
    <3> QED
      BY <3>1, HooksStay
  <2>2. CASE Flush(c) \/ Check(c) \/ Replay(c) \/ HookWrite(c)
    BY <2>2, HooksStay DEF Flush, Check, Replay, HookWrite
  <2>3. CASE Subscribing(c)
    BY <2>3, HooksStay DEF Subscribing, Insert, AddTopic, FetchRetained, RemoveTopic
  <2>4. CASE Retain(c) \/ Match(c) \/ Deliver(c)
    BY <2>4, HooksStay DEF Retain, Match, Deliver
  <2> QED
    BY <2>1, <2>2, <2>3, <2>4
<1>3. ConnsKept
  <2> USE DEF ConnsKept, ConnType, ghostVars
  <2>1. CASE Flush(c) \/ Check(c) \/ Replay(c) \/ HookWrite(c)
    BY <2>1 DEF Flush, Check, Replay, HookWrite
  <2>2. CASE Subscribing(c)
    <3>1. CASE Insert(c)
      <4>1. conn[c].connected
        BY <3>1 DEF Insert, SharedInv, ConnInv, SubscribeLabels
      <4>2. \/ conn' = conn
            \/ conn' = [conn EXCEPT ![c].subscription = conn[c].subscription \cup {loc[c].topic}]
        BY <3>1 DEF Insert
      <4> QED
        BY <3>1, <4>1, <4>2 DEF Insert
    <3>2. CASE RemoveTopic(c)
      <4>1. conn' = [conn EXCEPT ![c].subscription = conn[c].subscription \ {loc[c].topic}]
        BY <3>2 DEF RemoveTopic
      <4> QED
        BY <3>2, <4>1 DEF RemoveTopic
    <3>3. CASE AddTopic(c) \/ FetchRetained(c)
      BY <3>3 DEF AddTopic, FetchRetained
    <3> QED
      BY <2>2, <3>1, <3>2, <3>3 DEF Subscribing
  <2>3. CASE Retain(c) \/ Match(c) \/ Deliver(c) \/ Write(c)
    BY <2>3 DEF Retain, Match, Deliver, Write, Accept
  <2> QED
    BY <2>1, <2>2, <2>3
<1> USE DEF SubscribeLabels, Adopting
<1>4. \A todo : Rest(c, todo) \in {"deliver", "check", "cleanup"}
  BY DEF Rest
<1>5. CASE Flush(c)
  <2>1. at' = at /\ pc[c] = "flush" /\ loc[c].then \in {"check", "hookDisconnect", "retain", "match"}
    BY <1>5 DEF Flush, LocalInv, ReaderAt
  <2>2. CASE ~open[c]
    BY <1>1, <1>2, <1>3, <1>5, <2>1, <2>2 DEF Flush, Quiet
  <2>3. CASE open[c]
    <3>1. /\ loc'[c].old = loc[c].old /\ loc'[c].then = loc[c].then
          /\ pc'[c] \in {"flush", loc[c].then}
      BY <1>5, <2>3, ReplyAt DEF Flush
    <3> QED
      BY <1>1, <1>2, <1>3, <2>1, <3>1 DEF Quiet
  <2> QED
    BY <2>2, <2>3
<1>6. CASE Check(c)
  <2>1. /\ pc[c] = "check" /\ at[c] = None /\ ~TakingOver(c)
        /\ loc'[c].old = None
    BY <1>6 DEF Check, LocalInv, ReaderAt, BodyLabels, CloseLabels, TakingOver, ReaderType, Idle
  <2>2. CASE conn[c].state = "closed"
    BY <1>1, <1>2, <1>3, <1>6, <2>1, <2>2 DEF Check, Begins, Go, ReaderType
  <2>3. CASE conn[c].state # "closed"
    BY <1>1, <1>2, <1>3, <1>6, <2>1, <2>3 DEF Check, Quiet, Go, ReaderType
  <2> QED
    BY <2>2, <2>3
<1>7. CASE Replay(c)
  <2>1. /\ loc'[c].old = loc[c].old /\ loc'[c].then = "hookDisconnect"
        /\ pc'[c] \in {"flush", "hookDisconnect"} /\ at' = at /\ pc[c] = "replay"
    BY <1>7, ReplyAt DEF Replay
  <2> QED
    BY <1>1, <1>2, <1>3, <2>1 DEF Quiet
<1>8. CASE HookWrite(c)
  BY <1>1, <1>2, <1>3, <1>8 DEF HookWrite, Quiet, Step, Go, ReaderType
<1>9. CASE Insert(c) \/ AddTopic(c)
  <2>1. conn[c].connected
    BY <1>9 DEF Insert, AddTopic, Step, SharedInv, ConnInv
  <2>2. CASE Insert(c) /\ loc[c].topic \in Malformed
    <3>1. /\ loc'[c].old = loc[c].old /\ loc'[c].then = "check"
          /\ pc'[c] \in {"flush", "check"} /\ at' = at /\ pc[c] = "insert"
      BY <2>2, ReplyAt DEF Insert
    <3> QED
      BY <1>1, <1>2, <1>3, <3>1 DEF Quiet
  <2>3. CASE Insert(c) /\ loc[c].topic \notin Malformed
    BY <1>1, <1>2, <1>3, <2>1, <2>3 DEF Insert, Quiet, Go, ReaderType
  <2>4. CASE AddTopic(c)
    BY <1>1, <1>2, <1>3, <2>1, <2>4 DEF AddTopic, Quiet, Step, Go, ReaderType
  <2> QED
    BY <1>9, <2>2, <2>3, <2>4
<1>10. CASE FetchRetained(c) \/ RemoveTopic(c)
  <2>1. /\ loc'[c].old = loc[c].old /\ loc'[c].then = "check"
        /\ pc'[c] \in {"flush", "check"} /\ at' = at /\ pc[c] \in {"fetch", "removeTopics"}
    BY <1>10, ReplyAt DEF FetchRetained, RemoveTopic
  <2> QED
    BY <1>1, <1>2, <1>3, <2>1 DEF Quiet
<1>11. CASE Retain(c)
  BY <1>1, <1>2, <1>3, <1>11 DEF Retain, Quiet, Step, Go, ReaderType
<1>12. CASE Match(c) \/ Deliver(c)
  <2>1. /\ loc'[c].old = loc[c].old
        /\ pc'[c] = "write" \/ \E todo : pc'[c] = Rest(c, todo)
    BY <1>12, ZenonT(30) DEF Match, Deliver, Go, ReaderType, LocalType
  <2>2. at' = at /\ pc[c] \in {"match", "deliver"}
    BY <1>12 DEF Match, Deliver
  <2> QED
    BY <1>1, <1>2, <1>3, <1>4, <2>1, <2>2 DEF Quiet
<1>13. CASE Write(c) /\ pc'[c] # "send"
  <2>1. /\ at' = at /\ loc' = loc /\ pc[c] = "write"
        /\ \E todo : pc'[c] = Rest(c, todo)
    BY <1>13 DEF Write, Go, ReaderType
  <2> QED
    BY <1>1, <1>2, <1>3, <1>4, <2>1 DEF Quiet
<1> QED
  BY <1>5, <1>6, <1>7, <1>8, <1>9, <1>10, <1>11, <1>12, <1>13 DEF Subscribing

(* So are those of Close, of the writer and of the timer. *)
LEMMA ClosingQuiet ==
  ASSUME TypeOK, LocalInv, NEW c \in Conns,
         \/ Cleanup(c) \/ Drain(c) \/ Push(c) \/ Mark(c) \/ Signal(c) \/ Wait(c) \/ Unsubscribe(c)
         \/ Writer(c) \/ Kick(c)
  PROVE  Quiet(c)
<1> SUFFICES ASSUME ReaderType, ConnType, SessionType(Item) PROVE Quiet(c)
  BY DEF TypeOK
<1>1. OnlyReader(c)
  BY StepIsLocal DEF Reader, Closing
<1>2. SessionsKept
  <2>1. CASE Writer(c) \/ Kick(c)
    BY <2>1, HooksStay DEF Writer, Take, Handle, Offline, Ping, Gone, Kick
  <2>2. CASE ~Writer(c)
    BY <2>2, HooksStay DEF Cleanup, Drain, Push, Mark, Signal, Wait, Unsubscribe, Kick
  <2> QED
    BY <2>1, <2>2
<1>3. ConnsKept
  <2>1. CASE Writer(c) \/ Kick(c)
    BY <2>1 DEF Writer, Take, Handle, Offline, Ping, Gone, Kick, Pushing, ConnType, ConnsKept, ghostVars
  <2>2. CASE ~Writer(c)
    BY <2>2 DEF Cleanup, Drain, Push, Mark, Signal, Wait, Unsubscribe, Kick, Pushing, ConnType, ConnsKept, ghostVars
  <2> QED
    BY <2>1, <2>2
<1> USE DEF SubscribeLabels, Adopting
<1>4. CASE Writer(c) \/ Kick(c)
  <2>1. UNCHANGED <<pc, at, loc>>
    BY <1>4 DEF Writer, Take, Handle, Offline, Ping, Gone, Kick
  <2> QED
    BY <1>1, <1>2, <1>3, <2>1 DEF Quiet
<1>5. CASE Cleanup(c)
  BY <1>1, <1>2, <1>3, <1>5 DEF Cleanup, Quiet, Go, ReaderType
<1>6. CASE Drain(c)
  <2>1. at' = at /\ pc[c] = "drain" /\ pc'[c] \in {"drain", "push", "mark"}
        /\ loc'[c].old = loc[c].old
    BY <1>6 DEF Drain, Go, ReaderType, LocalType
  <2> QED
    BY <1>1, <1>2, <1>3, <2>1 DEF Quiet
<1>7. CASE Push(c) \/ Mark(c) \/ Signal(c) \/ Wait(c)
  BY <1>1, <1>2, <1>3, <1>7 DEF Push, Mark, Signal, Wait, Quiet, Step, Go, ReaderType
<1>8. CASE Unsubscribe(c)
  BY <1>1, <1>2, <1>3, <1>8 DEF Unsubscribe, Quiet, Go, ReaderType
<1> QED
  BY <1>4, <1>5, <1>6, <1>7, <1>8

-----------------------------------------------------------------------------
(* The steps that are not quiet, one lemma for each. *)

(* A session goes to a connection that has none. *)
Adopts(c, s) ==
  /\ OnlyReader(c) /\ at' = at /\ at[c] = None
  /\ once' = once /\ willed' = willed /\ bye' = bye /\ lock' = lock
  /\ loc' = loc /\ pc'[c] \in {"replay", "hookDisconnect"}
  /\ conn' = [conn EXCEPT ![c].session = s]
  /\ \A d \in Conns : sess'[d].onDisconnect = sess[d].onDisconnect
  /\ \A i \in Clients : group'[i] \in {group[i], s}

(* A connection that receives its session keeps the invariant. *)
LEMMA AdoptStep ==
  ASSUME TypeOK, LocalInv, SharedInv, NEW c \in Conns, NEW s \in Conns,
         Adopts(c, s), pc[c] \in {"disconnect", "create"}, Born(s) \/ s = c
  PROVE  SharedInv'
<1> SUFFICES ASSUME ReaderType, ConnType, SessionType(Item),
                    ConnInv, BornInv, HookInv, LockInv, OnceInv
             PROVE  SharedInv'
  BY DEF TypeOK, SharedInv
<1> USE DEF OnlyReader, Adopts
<1>1. /\ ~conn[c].connected /\ Session(c) = None /\ ~TakingOver(c)
      /\ \A d \in Conns : sess[d].onDisconnect # c
  BY NoneApart DEF ConnInv, Adopting, HookInv, TakingOver
<1>2. /\ Session(c)' = s
      /\ \A d \in Conns \ {c} : Session(d)' = Session(d)
      /\ \A d \in Conns : /\ conn'[d].connected = conn[d].connected
                          /\ conn'[d].will = conn[d].will
  BY DEF Session, ConnType
<1>3. ASSUME NEW d \in Conns
      PROVE  /\ TakingOver(d)' = TakingOver(d)
             /\ Born(d) => Born(d)'
             /\ d # c => (Adopting(d)' <=> Adopting(d))
  BY <1>1, <1>2, NoneApart DEF TakingOver, Born, Adopting
<1>4. Adopting(c)' /\ Born(s)'
  BY <1>2, <1>3, NoneApart DEF Adopting, Born
<1>5. ConnInv'
  BY <1>1, <1>2, <1>3, <1>4, NoneApart DEF ConnInv, SubscribeLabels
<1>6. BornInv'
  <2>1. \A i \in Clients : group[i] \in Conns \cup {None}
    BY DEF SessionType
  <2>2. \A d \in Conns : loc[d].old \in Conns \cup {None} /\ Session(d) \in Conns \cup {None}
    BY DEF ReaderType, LocalType, ConnType, Session
  <2> QED
    BY <1>2, <1>3, <1>4, <2>1, <2>2 DEF BornInv
<1>7. HookInv'
  BY <1>1, <1>2 DEF HookInv
<1>8. LockInv'
  BY <1>1, <1>3 DEF LockInv, LocalInv, ReaderAt
<1>9. OnceInv'
  BY <1>2 DEF OnceInv
<1> QED
  BY <1>5, <1>6, <1>7, <1>8, <1>9 DEF SharedInv

(* DoDisconnect finds no hook and adopts the session, or takes over the
   connection that the hook names. *)
LEMMA DoDisconnectStep ==
  ASSUME TypeOK, LocalInv, SharedInv, NEW c \in Conns, DoDisconnect(c)
  PROVE  SharedInv'
<1> SUFFICES ASSUME ReaderType, ConnType, SessionType(Item),
                    ConnInv, BornInv, HookInv, LockInv, OnceInv
             PROVE  SharedInv'
  BY DEF TypeOK, SharedInv
<1> DEFINE s == loc[c].old
           o == sess[s].onDisconnect
<1>1. /\ pc[c] = "disconnect" /\ at[c] = None /\ s \in Conns
      /\ ~conn[c].connected /\ Session(c) = None
  BY DEF DoDisconnect, LocalInv, ReaderAt, BodyLabels, CloseLabels, ConnInv, Adopting
<1>2. OnlyReader(c)
  BY StepIsLocal DEF Reader, Connecting
<1>3. /\ loc' = loc /\ once' = once /\ willed' = willed /\ bye' = bye
  BY DEF DoDisconnect, ghostVars
<1>4. CASE o = None /\ loc[c].clean
  <2>1. ConnsKept /\ SessionsKept /\ at' = at /\ pc'[c] = "create"
    BY <1>4 DEF DoDisconnect, AfterDisconnect, Go, ConnsKept, SessionsKept, ghostVars,
                sessionVars, ReaderType
  <2>2. Quiet(c)
    BY <1>1, <1>2, <1>3, <2>1 DEF Quiet, SubscribeLabels, Adopting
  <2> QED
    BY <2>2, QuietStep
<1>5. CASE o = None /\ ~loc[c].clean
  <2>1. Adopts(c, s)
    BY <1>1, <1>2, <1>3, <1>5 DEF DoDisconnect, AfterDisconnect, Adopt, Go, Adopts, sessionVars, ReaderType
  <2>2. Born(s)
    BY <1>1, NoneApart DEF BornInv
  <2> QED
    BY <1>1, <2>1, <2>2, AdoptStep
<1>6. CASE o # None
  <2>1. /\ lock[s] = None /\ lock' = [lock EXCEPT ![s] = c] /\ sess' = sess /\ group' = group
        /\ at' = [at EXCEPT ![c] = o] /\ pc'[c] = "close" /\ conn' = conn
    BY <1>6 DEF DoDisconnect, Acquire, Free, Go, ReaderType
  <2>2. o \in Conns /\ o # c
    <3>1. o \in Conns
      BY <1>1, <1>6 DEF SessionType, SessionRecord
    <3> QED
      BY <1>1, <3>1, NoneApart DEF HookInv
  <2>3. /\ at'[c] = o /\ TakingOver(c)' /\ ~TakingOver(c)
        /\ \A d \in Conns \ {c} : at'[d] = at[d] /\ TakingOver(d)' = TakingOver(d)
    BY <1>1, <2>1, <2>2, NoneApart DEF TakingOver, ReaderType
  <2>4. \A d \in Conns : /\ Session(d)' = Session(d) /\ Born(d)' = Born(d)
                         /\ Adopting(d)' <=> Adopting(d)
    BY <1>1, <1>2, <1>3, <2>1 DEF Session, Born, Adopting, OnlyReader
  <2> HIDE DEF o, s
  <2>5. ConnInv'
    BY <1>1, <1>2, <2>1, <2>2, <2>3, <2>4, NoneApart DEF ConnInv, OnlyReader, SubscribeLabels
  <2>6. BornInv'
    <3>1. \A i \in Clients : group[i] \in Conns \cup {None}
      BY DEF SessionType
    <3>2. \A d \in Conns : loc[d].old \in Conns \cup {None} /\ Session(d) \in Conns \cup {None}
      BY DEF ReaderType, LocalType, ConnType, Session
    <3> QED
      BY <1>3, <2>1, <2>4, <3>1, <3>2 DEF BornInv
  <2>7. HookInv'
    BY <1>2, <1>3, <2>1, <2>4, <2>3 DEF HookInv, OnlyReader
  <2>8. LockInv'
    <3>1. lock' [s] = c /\ \A d \in Conns : d # s => lock'[d] = lock[d]
      BY <1>1, <2>1 DEF SessionType
    <3>2. TakingOver(c)' => lock'[loc'[c].old] = c /\ sess'[loc'[c].old].onDisconnect = at'[c]
      BY <1>3, <2>1, <2>3, <3>1 DEF o, s
    <3>3. ASSUME NEW d \in Conns \ {c}
          PROVE  /\ TakingOver(d) => loc[d].old \in Conns /\ loc[d].old # s
                 /\ pc[d] = "send" => loc[d].cur \in Conns /\ loc[d].cur # s
      BY <2>1, NoneApart DEF LockInv, LocalInv, ReaderAt
    <3> QED
      BY <1>2, <1>3, <2>1, <2>3, <3>1, <3>2, <3>3 DEF LockInv, OnlyReader
  <2>9. OnceInv'
    <3>1. ASSUME NEW d \in Conns, NEW e \in Conns, at[e] = d
          PROVE  at'[e] = d
      BY <1>1, <2>3, <3>1, NoneApart
    <3> QED
      BY <1>1, <1>2, <1>3, <2>1, <3>1 DEF OnceInv, OnlyReader
  <2> QED
    BY <2>5, <2>6, <2>7, <2>8, <2>9 DEF SharedInv
<1> QED
  BY <1>4, <1>5, <1>6

(* A new session is nobody's but its creator's. *)
LEMMA CreateStep ==
  ASSUME TypeOK, LocalInv, SharedInv, NEW c \in Conns, Create(c)
  PROVE  SharedInv'
<1> SUFFICES ASSUME ReaderType, ConnType, SessionType(Item), ConnInv, BornInv, HookInv
             PROVE  SharedInv'
  BY DEF TypeOK, SharedInv
<1>1. /\ pc[c] = "create" /\ at[c] = None /\ ~conn[c].connected /\ Session(c) = None
  BY DEF Create, LocalInv, ReaderAt, BodyLabels, CloseLabels, ConnInv, Adopting
<1>2. sess[c].onDisconnect = None
  <2>1. ASSUME NEW o \in Conns, sess[c].onDisconnect = o
        PROVE  FALSE
    <3>1. Session(o) = c
      BY <2>1 DEF HookInv
    <3>2. Born(c)
      BY <3>1, NoneApart DEF BornInv
    <3> QED
      BY <1>1, <3>2 DEF Born
  <2> QED
    BY <2>1 DEF SessionType, SessionRecord
<1>3. OnlyReader(c)
  BY StepIsLocal DEF Reader, Connecting
<1>4. \A d \in Conns : sess'[d].onDisconnect = sess[d].onDisconnect
  BY <1>2 DEF Create, New, NewSession, SessionType
<1>5. \A i \in Clients : group'[i] \in {group[i], c}
  BY DEF Create, New, SessionType
<1>6. Adopts(c, c)
  BY <1>1, <1>3, <1>4, <1>5 DEF Create, Adopt, New, Go, Adopts, ghostVars, ReaderType
<1> QED
  BY <1>1, <1>6, AdoptStep

(* The hook is set on the connection's own session, before it can close. *)
LEMMA HookDisconnectStep ==
  ASSUME TypeOK, LocalInv, SharedInv, NEW c \in Conns, HookDisconnect(c)
  PROVE  SharedInv'
<1> SUFFICES ASSUME ReaderType, ConnType, SessionType(Item),
                    ConnInv, BornInv, HookInv, LockInv, OnceInv
             PROVE  SharedInv'
  BY DEF TypeOK, SharedInv
<1> DEFINE s == Session(c)
<1>1. /\ pc[c] = "hookDisconnect" /\ pc'[c] = "hookWrite" /\ at[c] = None /\ s \in Conns
  BY HasSession DEF HookDisconnect, Step, Go, ReaderType, LocalInv, ReaderAt,
                    BodyLabels, CloseLabels, Adopting
<1>2. /\ lock[s] = None /\ lock' = lock /\ group' = group
      /\ sess'[s].onDisconnect = c
      /\ \A d \in Conns \ {s} : sess'[d].onDisconnect = sess[d].onDisconnect
  BY <1>1 DEF HookDisconnect, WithOnDisconnect, Free, SessionType, SessionRecord
<1>3. OnlyReader(c) /\ UNCHANGED <<at, loc, conn, once, willed, bye>>
  BY StepIsLocal DEF Reader, Connecting, HookDisconnect, ghostVars
<1> HIDE DEF s
<1> USE DEF OnlyReader
<1>4. \A d \in Conns : /\ Session(d)' = Session(d) /\ Born(d)' = Born(d)
                       /\ TakingOver(d)' = TakingOver(d) /\ Adopting(d)' = Adopting(d)
  BY <1>1, <1>3 DEF Session, Born, TakingOver, Adopting
<1>5. ConnInv'
  BY <1>1, <1>3, <1>4 DEF ConnInv, SubscribeLabels
<1>6. BornInv'
  <2>1. /\ \A i \in Clients : group[i] \in Conns \cup {None}
        /\ \A d \in Conns : loc[d].old \in Conns \cup {None} /\ Session(d) \in Conns \cup {None}
    BY DEF SessionType, ReaderType, LocalType, ConnType, Session
  <2> QED
    BY <1>2, <1>3, <1>4, <2>1 DEF BornInv
<1>7. HookInv'
  <2>1. once[c] # "done" /\ \A d \in Conns : pc[d] = "offWrite" => at[d] # c
    BY <1>1, NoneApart DEF OnceInv, LockInv
  <2> QED
    BY <1>1, <1>2, <1>3, <1>4, <2>1 DEF HookInv, s
<1>8. LockInv'
  <2>1. \A d \in Conns : TakingOver(d) => loc[d].old # s /\ loc[d].old \in Conns
    BY <1>2, NoneApart DEF LockInv, LocalInv, ReaderAt
  <2> QED
    BY <1>1, <1>2, <1>3, <1>4, <2>1 DEF LockInv
<1>9. OnceInv'
  BY <1>1, <1>3 DEF OnceInv
<1> QED
  BY <1>5, <1>6, <1>7, <1>8, <1>9 DEF SharedInv

(* The end of onConnect keeps the invariant: nobody has begun to close the
   connection, whose will is set here. *)
LEMMA FinishStep ==
  ASSUME TypeOK, LocalInv, SharedInv, NEW c \in Conns, Finish(c)
  PROVE  SharedInv'
<1> SUFFICES ASSUME ReaderType, ConnType, SessionType(Item),
                    ConnInv, BornInv, HookInv, LockInv, OnceInv
             PROVE  SharedInv'
  BY DEF TypeOK, SharedInv
<1>1. /\ pc[c] = "finish" /\ at[c] = None /\ Session(c) # None
  BY DEF Finish, LocalInv, ReaderAt, BodyLabels, CloseLabels, ConnInv, Adopting
<1>2. pc'[c] = "flush" /\ loc'[c].then = "check" /\ loc'[c].old = loc[c].old
  BY ReplyAt DEF Finish, Welcome
<1>3. /\ conn' = [conn EXCEPT ![c] = [conn[c] EXCEPT
                    !.cleanSession = loc[c].clean, !.will = loc[c].will, !.connected = TRUE]]
      /\ UNCHANGED <<at, once, willed, bye>>
  BY DEF Finish, ghostVars
<1>4. /\ conn'[c].connected = TRUE /\ conn'[c].session = conn[c].session
      /\ \A d \in Conns \ {c} : conn'[d] = conn[d]
  BY <1>3 DEF ConnType
<1>5. OnlyReader(c)
  BY StepIsLocal DEF Reader, Connecting
<1>6. SessionsKept
  BY HooksStay DEF Finish
<1> USE DEF OnlyReader
<1>7. \A d \in Conns : /\ Session(d)' = Session(d) /\ (Born(d) => Born(d)')
                       /\ TakingOver(d)' = TakingOver(d)
                       /\ d # c => Adopting(d)' = Adopting(d)
  BY <1>1, <1>3, <1>4, <1>5 DEF Session, Born, TakingOver, Adopting
<1>8. ~Adopting(c)' /\ ~TakingOver(c)
  BY <1>1, <1>2 DEF Adopting, TakingOver
<1>9. ConnInv'
  BY <1>1, <1>2, <1>3, <1>4, <1>5, <1>7, <1>8 DEF ConnInv, SubscribeLabels
<1>10. BornInv'
  <2>1. /\ \A i \in Clients : group[i] \in Conns \cup {None}
        /\ \A d \in Conns : loc[d].old \in Conns \cup {None} /\ Session(d) \in Conns \cup {None}
    BY DEF SessionType, ReaderType, LocalType, ConnType, Session
  <2> QED
    BY <1>2, <1>5, <1>6, <1>7, <2>1, NoneApart DEF BornInv, SessionsKept
<1>11. HookInv'
  BY <1>2, <1>3, <1>5, <1>6, <1>7 DEF HookInv, SessionsKept
<1>12. LockInv'
  <2>1. \A d \in Conns : TakingOver(d) => d # c /\ loc[d].old \in Conns
    BY <1>8 DEF LocalInv, ReaderAt
  <2> QED
    BY <1>2, <1>3, <1>5, <1>6, <1>7, <2>1 DEF LockInv, SessionsKept
<1>13. OnceInv'
  BY <1>1, <1>2, <1>3, <1>4, <1>5, NoneApart DEF OnceInv
<1> QED
  BY <1>9, <1>10, <1>11, <1>12, <1>13 DEF SharedInv

(* A delivery takes and gives back a session's mutex. *)
LEMMA DeliveryStep ==
  ASSUME TypeOK, LocalInv, SharedInv, NEW c \in Conns,
         (Write(c) /\ pc'[c] = "send") \/ Send(c)
  PROVE  SharedInv'
<1> SUFFICES ASSUME ReaderType, ConnType, SessionType(Item),
                    ConnInv, BornInv, HookInv, LockInv, OnceInv
             PROVE  SharedInv'
  BY DEF TypeOK, SharedInv
<1> DEFINE s == loc[c].cur
<1>1. OnlyReader(c) /\ pc[c] \in {"write", "send"} /\ s \in Conns
  BY StepIsLocal DEF Reader, Publishing, Write, Send, LocalInv, ReaderAt
<1>2. UNCHANGED <<at, loc, conn, once, willed, bye>>
  BY DEF Write, Send, Accept, ghostVars
<1>3. CASE Send(c) /\ ~open[sess[s].onWrite]
  <2>1. UNCHANGED <<pc, sess, lock, group>>
    BY <1>3 DEF Send, sessionVars
  <2>2. Quiet(c)
    BY <1>1, <1>2, <2>1 DEF Quiet, ConnsKept, SessionsKept
  <2> QED
    BY <2>2, QuietStep
<1>4. ASSUME sess' = sess, group' = group, pc'[c] \in {"send", "deliver", "check", "cleanup"}, LockInv'
      PROVE  SharedInv'
  <2> USE DEF OnlyReader
  <2>1. \A d \in Conns : /\ Session(d)' = Session(d) /\ Born(d)' = Born(d)
                         /\ TakingOver(d)' = TakingOver(d) /\ Adopting(d)' = Adopting(d)
    BY <1>1, <1>2, <1>4 DEF Session, Born, TakingOver, Adopting
  <2>2. ConnInv'
    BY <1>1, <1>2, <1>4, <2>1 DEF ConnInv, SubscribeLabels
  <2>3. BornInv'
    <3>1. /\ \A i \in Clients : group[i] \in Conns \cup {None}
          /\ \A d \in Conns : loc[d].old \in Conns \cup {None} /\ Session(d) \in Conns \cup {None}
      BY DEF SessionType, ReaderType, LocalType, ConnType, Session
    <3> QED
      BY <1>2, <1>4, <2>1, <3>1 DEF BornInv
  <2>4. HookInv'
    BY <1>1, <1>2, <1>4, <2>1 DEF HookInv
  <2>5. OnceInv'
    BY <1>1, <1>2, <1>4 DEF OnceInv
  <2> QED
    BY <1>4, <2>2, <2>3, <2>4, <2>5 DEF SharedInv
<1>5. CASE Write(c) /\ pc'[c] = "send"
  <2>1. lock[s] = None /\ lock' = [lock EXCEPT ![s] = c] /\ sess' = sess /\ group' = group
    <3>1. Acquire(s, c)
      BY <1>5 DEF Write, Go, Rest, ReaderType
    <3> QED
      BY <3>1 DEF Acquire, Free
  <2>2. LockInv'
    <3>1. lock'[s] = c /\ \A d \in Conns : d # s => lock'[d] = lock[d]
      BY <1>1, <2>1 DEF SessionType
    <3> HIDE DEF s
    <3>2. ASSUME NEW d \in Conns
          PROVE  /\ TakingOver(d) => loc[d].old \in Conns /\ loc[d].old # s
                 /\ pc[d] = "send" => loc[d].cur \in Conns /\ loc[d].cur # s
      BY <2>1, NoneApart DEF LockInv, LocalInv, ReaderAt
    <3>3. TakingOver(c) => loc[c].cur # loc[c].old
      BY <3>2 DEF s
    <3>4. lock'[loc[c].cur] = c
      BY <3>1 DEF s
    <3> QED
      BY <1>1, <1>2, <1>5, <2>1, <3>1, <3>2, <3>3, <3>4 DEF LockInv, OnlyReader, TakingOver
  <2> QED
    BY <1>4, <1>5, <2>1, <2>2
<1>6. CASE Send(c) /\ open[sess[s].onWrite]
  <2>1. lock' = [lock EXCEPT ![s] = None] /\ sess' = sess /\ group' = group
        /\ pc[c] = "send" /\ pc'[c] \in {"deliver", "check", "cleanup"}
    BY <1>6 DEF Send, Release, Go, Rest, ReaderType
  <2>2. LockInv'
    <3>1. lock[s] = c /\ \A d \in Conns : d # s => lock'[d] = lock[d]
      BY <1>1, <2>1 DEF SessionType, LockInv
    <3>2. TakingOver(c) => loc[c].old # s
      BY <2>1 DEF LockInv
    <3> HIDE DEF s
    <3>3. ASSUME NEW d \in Conns \ {c}
          PROVE  /\ TakingOver(d) => loc[d].old \in Conns /\ loc[d].old # s
                 /\ pc[d] = "send" => loc[d].cur \in Conns /\ loc[d].cur # s
      BY <3>1 DEF LockInv, LocalInv, ReaderAt
    <3>4. TakingOver(c) => loc[c].old \in Conns
      BY DEF LocalInv, ReaderAt
    <3> QED
      BY <1>1, <1>2, <2>1, <3>1, <3>2, <3>3, <3>4 DEF LockInv, OnlyReader, TakingOver
  <2> QED
    BY <1>4, <2>1, <2>2
<1> QED
  BY <1>3, <1>5, <1>6

(* The hook goes: from onDisconnect, or at the end of Close. *)
LEMMA UnhookStep ==
  ASSUME TypeOK, LocalInv, SharedInv, NEW c \in Conns, Unhook(c) \/ OffDisconnect(c)
  PROVE  SharedInv'
<1> SUFFICES ASSUME ReaderType, ConnType, SessionType(Item),
                    ConnInv, BornInv, HookInv, LockInv, OnceInv
             PROVE  SharedInv'
  BY DEF TypeOK, SharedInv
<1> DEFINE s == Session(c)
<1>1. OnlyReader(c) /\ UNCHANGED <<at, loc, conn, once, willed, bye>>
  BY StepIsLocal DEF Reader, Closing, Unhook, OffDisconnect, ghostVars
<1>2. \/ pc[c] = "unhook" /\ pc'[c] = "forget"
      \/ pc[c] = "offDisconnect" /\ pc'[c] = "offWrite" /\ at[c] # None
  BY DEF Unhook, OffDisconnect, Step, Go, ReaderType, LocalInv, ReaderAt, CloseLabels
<1>3. pc[c] = "offDisconnect" => at[c] = c
  <2> SUFFICES ASSUME pc[c] = "offDisconnect", at[c] # c
               PROVE  FALSE
    OBVIOUS
  <2>1. TakingOver(c) /\ at[c] \in Conns
    BY <1>2 DEF TakingOver, ReaderType
  <2>2. /\ loc[c].old \in Conns /\ lock[loc[c].old] = c
        /\ sess[loc[c].old].onDisconnect = at[c]
    BY <2>1 DEF LocalInv, ReaderAt, LockInv
  <2>3. Session(at[c]) = loc[c].old
    BY <2>1, <2>2 DEF HookInv
  <2>4. Free(Session(at[c]))
    BY DEF OffDisconnect, Unhook, Step, WithOnDisconnect
  <2> QED
    BY <2>2, <2>3, <2>4, NoneApart DEF Free
<1>4. WithOnDisconnect(s, None)
  BY <1>2, <1>3 DEF Unhook, OffDisconnect, Step
<1>5. /\ lock[s] = None /\ lock' = lock /\ group' = group
      /\ s \in Conns => sess'[s].onDisconnect = None
      /\ \A d \in Conns \ {s} : sess'[d].onDisconnect = sess[d].onDisconnect
  BY <1>4 DEF WithOnDisconnect, Free, SessionType, SessionRecord
<1> HIDE DEF s
<1> USE DEF OnlyReader
<1>6. \A d \in Conns : /\ Session(d)' = Session(d) /\ Born(d)' = Born(d)
                       /\ TakingOver(d)' = TakingOver(d) /\ Adopting(d)' = Adopting(d)
  BY <1>1, <1>2 DEF Session, Born, TakingOver, Adopting
<1>7. ConnInv'
  BY <1>1, <1>2, <1>6 DEF ConnInv, SubscribeLabels
<1>8. BornInv'
  <2>1. /\ \A i \in Clients : group[i] \in Conns \cup {None}
        /\ \A d \in Conns : loc[d].old \in Conns \cup {None} /\ Session(d) \in Conns \cup {None}
    BY DEF SessionType, ReaderType, LocalType, ConnType, Session
  <2> QED
    BY <1>1, <1>5, <1>6, <2>1 DEF BornInv
<1>9. HookInv'
  <2>1. \A d \in Conns : sess'[d].onDisconnect # c
    <3>1. ASSUME NEW d \in Conns, sess'[d].onDisconnect = c
          PROVE  FALSE
      <4>1. d # s
        BY <1>5, <3>1, NoneApart
      <4>2. sess[d].onDisconnect = c
        BY <1>5, <3>1, <4>1
      <4> QED
        BY <4>1, <4>2 DEF HookInv, s
    <3> QED
      BY <3>1
  <2>2. \A d, o \in Conns : sess'[d].onDisconnect = o => sess[d].onDisconnect = o
    BY <1>5, NoneApart
  <2> QED
    BY <1>1, <1>2, <1>3, <1>6, <2>1, <2>2 DEF HookInv
<1>10. LockInv'
  <2>1. \A d \in Conns : TakingOver(d) => loc[d].old # s /\ loc[d].old \in Conns
    BY <1>5, NoneApart DEF LockInv, LocalInv, ReaderAt
  <2> QED
    BY <1>1, <1>2, <1>3, <1>5, <1>6, <2>1 DEF LockInv
<1>11. OnceInv'
  BY <1>1, <1>2 DEF OnceInv
<1> QED
  BY <1>7, <1>8, <1>9, <1>10, <1>11 DEF SharedInv

(* DISCONNECT: nobody has begun to close the connection, because a takeover
   would hold its hook, which is gone. *)
LEMMA ForgetStep ==
  ASSUME TypeOK, LocalInv, SharedInv, NEW c \in Conns, Forget(c)
  PROVE  SharedInv'
<1> SUFFICES ASSUME ReaderType, ConnType, HistoryType, SessionType(Item),
                    ConnInv, BornInv, HookInv, LockInv, OnceInv
             PROVE  SharedInv'
  BY DEF TypeOK, SharedInv
<1>1. /\ OnlyReader(c) /\ pc[c] = "forget" /\ pc'[c] = "close" /\ at[c] = None /\ at'[c] = c
      /\ \A d \in Conns \ {c} : at'[d] = at[d]
  BY StepIsLocal DEF Reader, Closing, Forget, Step, Go, ReaderType, LocalInv, ReaderAt,
                     BodyLabels, CloseLabels
<1>2. /\ UNCHANGED <<loc, once, willed, sess, lock, group>>
      /\ bye'[c] = TRUE /\ \A d \in Conns \ {c} : bye'[d] = bye[d]
  BY DEF Forget, HistoryType, sessionVars
<1>3. \A d \in Conns : /\ conn'[d].session = conn[d].session
                       /\ conn'[d].connected = conn[d].connected
                       /\ conn'[d].subscription = conn[d].subscription
                       /\ conn'[d].will = IF d = c THEN None ELSE conn[d].will
  BY DEF Forget, Forgotten, ConnType
<1>4. once[c] = "no"
  <2>1. ASSUME NEW d \in Conns, at[d] = c
        PROVE  FALSE
    <3>1. TakingOver(d)
      BY <1>1, <2>1, NoneApart DEF TakingOver
    <3>2. loc[d].old \in Conns /\ sess[loc[d].old].onDisconnect = c
      BY <2>1, <3>1 DEF LockInv, LocalInv, ReaderAt
    <3> QED
      BY <1>1, <3>2 DEF HookInv
  <2> QED
    BY <1>1, <2>1 DEF OnceInv
<1> USE DEF OnlyReader
<1>5. \A d \in Conns : /\ Session(d)' = Session(d) /\ Born(d)' = Born(d)
                       /\ TakingOver(d)' = TakingOver(d) /\ Adopting(d)' = Adopting(d)
  BY <1>1, <1>2, <1>3 DEF Session, Born, TakingOver, Adopting
<1>6. ConnInv'
  BY <1>1, <1>3, <1>5, NoneApart DEF ConnInv, SubscribeLabels
<1>7. BornInv'
  <2>1. /\ \A i \in Clients : group[i] \in Conns \cup {None}
        /\ \A d \in Conns : loc[d].old \in Conns \cup {None} /\ Session(d) \in Conns \cup {None}
    BY DEF SessionType, ReaderType, LocalType, ConnType, Session
  <2> QED
    BY <1>2, <1>5, <2>1 DEF BornInv
<1>8. HookInv'
  BY <1>1, <1>2, <1>5 DEF HookInv
<1>9. LockInv'
  <2>1. \A d \in Conns : TakingOver(d) => d # c
    BY <1>1 DEF TakingOver
  <2> QED
    BY <1>1, <1>2, <1>5, <2>1 DEF LockInv
<1>10. OnceInv'
  BY <1>1, <1>2, <1>3, <1>4, NoneApart DEF OnceInv
<1> QED
  BY <1>6, <1>7, <1>8, <1>9, <1>10 DEF SharedInv

(* The first caller of Close runs its body and publishes the will. *)
LEMMA CloseStep ==
  ASSUME TypeOK, LocalInv, SharedInv, NEW c \in Conns, Close(c)
  PROVE  SharedInv'
<1> SUFFICES ASSUME ReaderType, ConnType, HistoryType, SessionType(Item),
                    ConnInv, BornInv, HookInv, LockInv, OnceInv
             PROVE  SharedInv'
  BY DEF TypeOK, SharedInv
<1> DEFINE o == at[c]
<1>1. /\ OnlyReader(c) /\ pc[c] = "close" /\ pc'[c] \in {"cleanup", "match"}
      /\ o \in Conns /\ UNCHANGED <<at, conn, bye, sess, lock, group>>
  BY StepIsLocal DEF Reader, Closing, Close, Go, ReaderType, LocalInv, ReaderAt, sessionVars
<1>2. loc'[c].old = loc[c].old
  <2>1. CASE conn[o].will = None
    BY <2>1 DEF Close, ReaderType
  <2>2. CASE conn[o].will # None
    <3>1. loc'[c] = [loc[c] EXCEPT !.msg = Own("will", o), !.topic = conn[o].will]
      BY <2>2 DEF Close, ReaderType
    <3> QED
      BY <3>1 DEF ReaderType, LocalType
  <2> QED
    BY <2>1, <2>2
<1>3. /\ once[o] = "no" /\ once'[o] = "busy"
      /\ \A d \in Conns \ {o} : once'[d] = once[d] /\ willed'[d] = willed[d]
  BY <1>1 DEF Close, Unclosed, ConnType, HistoryType
<1>4. willed[o] = 0 /\ willed'[o] = IF conn[o].will = None THEN 0 ELSE 1
  <2>1. willed[o] = 0
    BY <1>1, <1>3 DEF OnceInv
  <2> QED
    BY <1>1, <2>1 DEF Close, HistoryType
<1> HIDE DEF o
<1> USE DEF OnlyReader
<1>5. \A d \in Conns : /\ Session(d)' = Session(d) /\ Born(d)' = Born(d)
                       /\ TakingOver(d)' = TakingOver(d) /\ Adopting(d)' = Adopting(d)
  BY <1>1, <1>2 DEF Session, Born, TakingOver, Adopting
<1>6. ConnInv'
  BY <1>1, <1>5 DEF ConnInv, SubscribeLabels
<1>7. BornInv'
  <2>1. /\ \A i \in Clients : group[i] \in Conns \cup {None}
        /\ \A d \in Conns : loc[d].old \in Conns \cup {None} /\ Session(d) \in Conns \cup {None}
    BY DEF SessionType, ReaderType, LocalType, ConnType, Session
  <2> QED
    BY <1>1, <1>2, <1>5, <2>1 DEF BornInv
<1>8. HookInv'
  BY <1>1, <1>3, <1>5 DEF HookInv
<1>9. LockInv'
  BY <1>1, <1>2, <1>5 DEF LockInv
<1>10. OnceInv'
  <2>1. at[c] = o
    BY DEF o
  <2>2. ASSUME NEW d \in Conns \ {o}
        PROVE  /\ once'[d] = "done" => pc'[d] = "exited" \/ at'[d] = d
               /\ once'[d] # "no" => pc'[d] = "exited" \/ \E e \in Conns : at'[e] = d
               /\ once'[d] = "no" => willed'[d] = 0
               /\ willed'[d] <= 1
               /\ bye'[d] => /\ willed'[d] = 0 /\ conn'[d].will = None
                             /\ (pc'[d] = "exited" \/ at'[d] = d)
    BY <1>1, <1>3 DEF OnceInv
  <2>3. /\ once'[o] # "done" /\ once'[o] # "no" /\ at'[c] = o /\ willed'[o] <= 1
        /\ bye'[o] => /\ willed'[o] = 0 /\ conn'[o].will = None
                      /\ (pc'[o] = "exited" \/ at'[o] = o)
    BY <1>1, <1>3, <1>4, <2>1 DEF OnceInv
  <2> QED
    BY <1>1, <2>2, <2>3 DEF OnceInv
<1> QED
  BY <1>6, <1>7, <1>8, <1>9, <1>10 DEF SharedInv

(* A takeover never comes back from Close: the connection it closes would have
   to be done, and still be hooked. *)
LEMMA ClosedStep ==
  ASSUME TypeOK, LocalInv, SharedInv, NEW c \in Conns, Closed(c)
  PROVE  SharedInv'
<1> SUFFICES ASSUME ReaderType, ConnType, SessionType(Item),
                    ConnInv, BornInv, HookInv, LockInv, OnceInv
             PROVE  SharedInv'
  BY DEF TypeOK, SharedInv
<1>1. at[c] = c
  <2> SUFFICES ASSUME at[c] # c PROVE FALSE
    OBVIOUS
  <2>1. TakingOver(c) /\ at[c] \in Conns /\ once[at[c]] = "done"
    BY DEF Closed, TakingOver, ReaderType, LocalInv, ReaderAt
  <2>2. loc[c].old \in Conns /\ sess[loc[c].old].onDisconnect = at[c]
    BY <2>1 DEF LockInv, LocalInv, ReaderAt
  <2> QED
    BY <2>1, <2>2 DEF HookInv
<1>2. /\ OnlyReader(c) /\ pc[c] = "close" /\ pc'[c] = "exited" /\ at'[c] = None
      /\ \A d \in Conns \ {c} : at'[d] = at[d]
      /\ UNCHANGED <<loc, conn, once, willed, bye, sess, lock, group>>
  BY <1>1, StepIsLocal DEF Reader, Closing, Closed, Go, ReaderType, ghostVars, sessionVars
<1> USE DEF OnlyReader
<1>3. \A d \in Conns : /\ Session(d)' = Session(d) /\ Born(d)' = Born(d)
                       /\ TakingOver(d)' = TakingOver(d) /\ Adopting(d)' = Adopting(d)
  BY <1>1, <1>2 DEF Session, Born, TakingOver, Adopting
<1>4. ConnInv'
  BY <1>2, <1>3 DEF ConnInv, SubscribeLabels
<1>5. BornInv'
  <2>1. /\ \A i \in Clients : group[i] \in Conns \cup {None}
        /\ \A d \in Conns : loc[d].old \in Conns \cup {None} /\ Session(d) \in Conns \cup {None}
    BY DEF SessionType, ReaderType, LocalType, ConnType, Session
  <2> QED
    BY <1>2, <1>3, <2>1 DEF BornInv
<1>6. HookInv'
  BY <1>2, <1>3 DEF HookInv
<1>7. LockInv'
  <2>1. \A d \in Conns : TakingOver(d) => d # c
    BY <1>1 DEF TakingOver
  <2> QED
    BY <1>2, <1>3, <2>1 DEF LockInv
<1>8. OnceInv'
  BY <1>1, <1>2 DEF OnceInv
<1> QED
  BY <1>4, <1>5, <1>6, <1>7, <1>8 DEF SharedInv

(* A connection that is done being closed has lost its session. *)
LEMMA DoneStep ==
  ASSUME TypeOK, LocalInv, SharedInv, NEW c \in Conns, CloseQueue(c) \/ OffWrite(c)
  PROVE  SharedInv'
<1> SUFFICES ASSUME ReaderType, ConnType, SessionType(Item),
                    ConnInv, BornInv, HookInv, LockInv, OnceInv
             PROVE  SharedInv'
  BY DEF TypeOK, SharedInv
<1>1. /\ OnlyReader(c) /\ pc[c] \in {"closeQueue", "offWrite"} /\ at[c] \in Conns
      /\ UNCHANGED <<at, loc, willed, bye>>
  BY StepIsLocal DEF Reader, Closing, CloseQueue, OffWrite, Step, ReaderType, LocalInv, ReaderAt,
                     CloseLabels, ghostVars
<1>2. SessionsKept
  BY HooksStay DEF CloseQueue, OffWrite
<1>3. CASE CloseQueue(c) /\ Session(at[c]) # None
  <2>1. ConnsKept /\ pc'[c] = "offDisconnect" /\ pc[c] = "closeQueue"
    BY <1>3 DEF CloseQueue, ConnsKept, Go, ReaderType, ghostVars
  <2>2. Quiet(c)
    BY <1>1, <1>2, <2>1 DEF Quiet, Adopting, SubscribeLabels
  <2> QED
    BY <2>2, QuietStep
<1>4. CASE OffWrite(c) \/ (CloseQueue(c) /\ Session(at[c]) = None)
  <2>1. at[c] = c /\ pc'[c] = "close"
    <3>1. CASE OffWrite(c)
      BY <1>1, <3>1 DEF OffWrite, Step, Go, LockInv, ReaderType
    <3>2. CASE CloseQueue(c) /\ Session(at[c]) = None
      <4>1. at[c] = c
        <5> SUFFICES ASSUME at[c] # c PROVE FALSE
          OBVIOUS
        <5>1. TakingOver(c)
          BY <1>1, NoneApart DEF TakingOver
        <5>2. loc[c].old \in Conns /\ sess[loc[c].old].onDisconnect = at[c]
          BY <5>1 DEF LockInv, LocalInv, ReaderAt
        <5> QED
          BY <1>1, <3>2, <5>2, NoneApart DEF HookInv
      <4> QED
        BY <3>2, <4>1 DEF CloseQueue, Go, ReaderType
    <3> QED
      BY <1>4, <3>1, <3>2
  <2>2. \A d \in Conns : sess[d].onDisconnect # c
    <3>1. CASE OffWrite(c)
      BY <2>1, <3>1 DEF OffWrite, Step, HookInv
    <3>2. CASE CloseQueue(c) /\ Session(at[c]) = None
      BY <2>1, <3>2, NoneApart DEF HookInv
    <3> QED
      BY <1>4, <3>1, <3>2
  <2>3. /\ once'[c] = "done" /\ \A d \in Conns \ {c} : once'[d] = once[d]
        /\ conn'[c].session = None /\ \A d \in Conns \ {c} : conn'[d].session = conn[d].session
        /\ \A d \in Conns : /\ conn'[d].connected = conn[d].connected /\ conn'[d].will = conn[d].will
                           /\ conn'[d].subscription = conn[d].subscription
    <3>1. CASE OffWrite(c)
      BY <2>1, <3>1 DEF OffWrite, ConnType
    <3>2. CASE CloseQueue(c) /\ Session(at[c]) = None
      BY <2>1, <3>2 DEF CloseQueue, ConnType, Session
    <3> QED
      BY <1>4, <3>1, <3>2
  <2> USE DEF OnlyReader
  <2>4. \A d \in Conns : /\ d # c => Session(d)' = Session(d)
                         /\ TakingOver(d)' = TakingOver(d) /\ Adopting(d)' = Adopting(d)
    BY <1>1, <2>1, <2>3 DEF Session, TakingOver, Adopting
  <2>5. ~Adopting(c) /\ Session(c)' = None
    BY <1>1, <2>3 DEF Adopting, Session
  <2>6. \A d \in Conns : Born(d) => Born(d)'
    BY <2>3, <2>5 DEF Born, ConnInv, Session
  <2>7. ConnInv'
    BY <1>1, <2>1, <2>3, <2>4, <2>5, NoneApart DEF ConnInv, SubscribeLabels
  <2>8. BornInv'
    <3>1. /\ \A i \in Clients : group[i] \in Conns \cup {None}
          /\ \A d \in Conns : loc[d].old \in Conns \cup {None} /\ Session(d) \in Conns \cup {None}
      BY DEF SessionType, ReaderType, LocalType, ConnType, Session
    <3> QED
      BY <1>1, <1>2, <2>4, <2>5, <2>6, <3>1 DEF BornInv, SessionsKept
  <2>9. HookInv'
    BY <1>1, <1>2, <2>1, <2>2, <2>3, <2>4 DEF HookInv, SessionsKept
  <2>10. LockInv'
    <3>1. \A d \in Conns : TakingOver(d) => loc[d].old \in Conns
      BY DEF LocalInv, ReaderAt
    <3> QED
      BY <1>1, <1>2, <2>1, <2>4, <3>1 DEF LockInv, SessionsKept
  <2>11. OnceInv'
    <3>1. ASSUME NEW d \in Conns \ {c}
          PROVE  /\ once'[d] = "done" => pc'[d] = "exited" \/ at'[d] = d
                 /\ once'[d] # "no" => pc'[d] = "exited" \/ \E e \in Conns : at'[e] = d
                 /\ once'[d] = "no" => willed'[d] = 0
                 /\ willed'[d] <= 1
                 /\ bye'[d] => /\ willed'[d] = 0 /\ conn'[d].will = None
                               /\ (pc'[d] = "exited" \/ at'[d] = d)
      BY <1>1, <2>3 DEF OnceInv
    <3>2. /\ once'[c] = "done" /\ at'[c] = c /\ willed'[c] <= 1
          /\ bye'[c] => willed'[c] = 0 /\ conn'[c].will = None
      BY <1>1, <2>1, <2>3 DEF OnceInv
    <3> QED
      BY <3>1, <3>2 DEF OnceInv
  <2> QED
    BY <2>7, <2>8, <2>9, <2>10, <2>11 DEF SharedInv
<1> QED
  BY <1>1, <1>3, <1>4

-----------------------------------------------------------------------------
(* The invariant. *)
LEMMA InitInv == Init => LocalInv /\ SharedInv
<1> SUFFICES ASSUME Init PROVE LocalInv /\ SharedInv
  OBVIOUS
<1>1. LocalInv
  BY DEF Init, LocalInv, ReaderAt, WriterAt, TakingOver, CloseLabels, SubscribeLabels, PublishLabels
<1>2. ConnInv /\ BornInv
  BY DEF Init, SessionInit, Idle, ConnInv, BornInv, Adopting, TakingOver, Session, SubscribeLabels
<1>3. HookInv /\ LockInv /\ OnceInv
  BY NoneApart DEF Init, SessionInit, NewSession, HookInv, LockInv, OnceInv, TakingOver
<1> QED
  BY <1>1, <1>2, <1>3 DEF SharedInv

(* Every step keeps the types. *)
LEMMA TypeStep ==
  ASSUME TypeOK, LocalInv, ConnInv, NEW c \in Conns, Packet(c) \/ Reader(c) \/ Writer(c) \/ Kick(c)
  PROVE  TypeOK'
  BY PacketType, ConnectingType, SubscribingType, PublishingType, LoopType, ClosingType,
     WriterStepType DEF Reader

(* Every step keeps the shared invariant. *)
LEMMA SharedStep ==
  ASSUME TypeOK, LocalInv, SharedInv, NEW c \in Conns,
         Packet(c) \/ Reader(c) \/ Writer(c) \/ Kick(c)
  PROVE  SharedInv'
<1>1. CASE Packet(c)
  BY <1>1, PacketQuiet, QuietStep, BeginsStep
<1>2. CASE Flush(c) \/ Check(c) \/ Subscribing(c)
  BY <1>2, HandlerQuiet, QuietStep, BeginsStep
<1>3. CASE Connecting(c)
  BY <1>3, HandlerQuiet, QuietStep, BeginsStep, DoDisconnectStep, CreateStep,
     HookDisconnectStep, FinishStep DEF Connecting
<1>4. CASE Publishing(c)
  BY <1>4, HandlerQuiet, QuietStep, BeginsStep, DeliveryStep DEF Publishing
<1>5. CASE Closing(c)
  BY <1>5, ClosingQuiet, QuietStep, UnhookStep, ForgetStep, CloseStep, ClosedStep,
     DoneStep DEF Closing
<1>6. CASE Writer(c) \/ Kick(c)
  BY <1>6, ClosingQuiet, QuietStep
<1> QED
  BY <1>1, <1>2, <1>3, <1>4, <1>5, <1>6 DEF Reader

(* The invariant is inductive. *)
LEMMA InvStep == TypeOK /\ Inv /\ [Next]_vars => (TypeOK /\ Inv)'
<1> SUFFICES ASSUME TypeOK, LocalInv, SharedInv, [Next]_vars
             PROVE  TypeOK' /\ LocalInv' /\ SharedInv'
  BY DEF Inv
<1>1. CASE Next
  <2>1. PICK c \in Conns : Packet(c) \/ Reader(c) \/ Writer(c) \/ Kick(c)
    BY <1>1 DEF Next
  <2> QED
    BY <2>1, TypeStep, LocalStepInv, SharedStep DEF SharedInv
<1>2. CASE UNCHANGED vars
  <2> USE <1>2 DEF vars, topicVars, queueVars, writerVars, ghostVars, sessionVars
  <2>1. TypeOK'
    BY TypeKept DEF TypeOK
  <2>2. LocalInv'
    BY DEF LocalInv, ReaderAt, WriterAt, TakingOver
  <2>3. ConnInv' /\ BornInv'
    BY DEF SharedInv, ConnInv, BornInv, Born, Adopting, TakingOver, Session
  <2>4. HookInv' /\ LockInv' /\ OnceInv'
    BY DEF SharedInv, HookInv, LockInv, OnceInv, TakingOver, Session
  <2> QED
    BY <2>1, <2>2, <2>3, <2>4 DEF SharedInv
<1> QED
  BY <1>1, <1>2

(* The broker's inductive invariant: what each goroutine holds at each of its
   places; that a session calls only a connection that owns it and has not
   finished closing; that a takeover or a delivery keeps the session it works
   on; and who may have begun a Close (onConnect, Close, DoDisconnect,
   WriteMessage). *)
THEOREM BrokerInvariant == Spec => [](TypeOK /\ Inv)
<1>1. Init => TypeOK /\ Inv
  BY InitType, InitInv DEF Inv
<1> QED
  BY <1>1, InvStep, PTL DEF Spec

(* Every variable of the broker has its type, and no queue and no offline
   queue outgrows its configured size. *)
THEOREM BrokerTypeOK == Spec => []TypeOK
  BY BrokerInvariant, PTL

(* A connection's will is published at most once, whoever closes it, and never
   once its DISCONNECT has been handled. *)
THEOREM WillsAreDisciplined == Spec => []WillDiscipline
<1>1. Inv => WillDiscipline
  BY DEF Inv, SharedInv, OnceInv, WillDiscipline
<1> QED
  BY <1>1, BrokerInvariant, PTL

=============================================================================
