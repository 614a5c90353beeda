-------------------------- MODULE ConBrokerClosing --------------------------
(***************************************************************************)
(* What the end of a connection leaves behind, and what the tree says of a *)
(* connection while it lasts, proved for every instance of ConBroker.      *)
(*                                                                         *)
(* CloseInv says what the goroutine that closes a connection has reached   *)
(* at each place of Close, and that there is one such goroutine; TableInv  *)
(* that the tree and a connection's table differ only where a handler is   *)
(* between the two; NameInv that a session is known by one identifier, by  *)
(* whatever way it was found.                                              *)
(***************************************************************************)
EXTENDS ConBrokerProofs

Moves(c) == Packet(c) \/ Reader(c) \/ Writer(c) \/ Kick(c)

(* The body of Close, that the sync.Once lets one goroutine into. *)
InBody(c) == at[c] # None /\ pc[c] # "close"
Unsubscribed == {"closeQueue", "offDisconnect", "offWrite"}
CloseInv ==
  \A c \in Conns :
    /\ InBody(c) => /\ once[at[c]] = "busy"
                    /\ \A d \in Conns : InBody(d) /\ at[d] = at[c] => d = c
    /\ pc[c] = "wait" => wpc[at[c]] \in {"exit", "gone"}
    /\ pc[c] \in Unsubscribed \cup {"unsubscribe"} => wpc[at[c]] = "gone"
    /\ pc[c] \in Unsubscribed /\ at[c] = c => \A s \in tree : s.conn # c
    /\ pc[c] \in {"offDisconnect", "offWrite"} => ~open[at[c]]

(* A session's write hook calls a connection that owns the session. *)
WriteHookInv == \A s, o \in Conns : sess[s].onWrite = o => Session(o) = s

(* A connection keeps its session until it is done. *)
KeepsInv == \A c \in Conns : conn[c].connected /\ once[c] # "done" => Session(c) # None

(* Between the tree and the table of a connection. *)
TableInv ==
  /\ \A s \in tree : /\ s.topic \in conn[s.conn].subscription
                     /\ Session(s.conn) # None
                     /\ s.client = sess[Session(s.conn)].clientid
  /\ \A c \in Conns : pc[c] = "removeTopics" => \A s \in tree : ~(s.conn = c /\ s.topic = loc[c].topic)
  /\ \A c \in Conns : once[c] = "no" => \A t \in conn[c].subscription :
       Sub(c, t) \in tree \/ (pc[c] = "removeTopics" /\ t = loc[c].topic)

(* The identifiers a session is known by: its own, its entry of the table, and
   that of a CONNECT that has found or adopted it. *)
Claims(c, x) ==
  \/ (pc[c] = "disconnect" \/ TakingOver(c)) /\ loc[c].old = x
  \/ Adopting(c) /\ Session(c) = x
Known(x, i) ==
  \/ sess[x].clientid = i
  \/ group[i] = x
  \/ \E c \in Conns : Claims(c, x) /\ loc[c].client = i
NameInv ==
  /\ \A x \in Conns : \A i, j \in Clients : Known(x, i) /\ Known(x, j) => i = j
  /\ \A c \in Conns : pc[c] \in {"disconnect", "create"} \/ TakingOver(c) \/ Adopting(c)
                        => loc[c].client \in Clients
  /\ \A c \in Conns : conn[c].connected /\ Session(c) # None
                        => sess[Session(c)].clientid \in Clients

EndInv == CloseInv /\ WriteHookInv /\ KeepsInv /\ TableInv /\ NameInv /\ ClosedLeavesNothing

-----------------------------------------------------------------------------
(* What each action leaves alone. *)
PlaceFrame(c) ==
  /\ InBody(c)' => Close(c) \/ (InBody(c) /\ at'[c] = at[c])
  /\ pc'[c] = "wait" => Signal(c) \/ pc[c] = "wait"
  /\ pc'[c] = "unsubscribe" => Wait(c) \/ pc[c] = "unsubscribe"
  /\ pc'[c] \in Unsubscribed => Unsubscribe(c) \/ pc[c] \in Unsubscribed
  /\ pc'[c] \in {"offDisconnect", "offWrite"} => CloseQueue(c) \/ pc[c] \in {"offDisconnect", "offWrite"}
  /\ pc'[c] = "removeTopics" => pc[c] \in {"read", "removeTopics"} /\ (pc[c] = "removeTopics" => loc'[c] = loc[c])
  /\ pc'[c] = "offWrite" /\ pc[c] = "offWrite" => loc'[c] = loc[c]
OnceFrame(c) == once' = once \/ Close(c) \/ CloseQueue(c) \/ OffWrite(c)
EndFrame(c) ==
  \A d \in Conns : /\ wpc[d] = "gone" => wpc'[d] = "gone"
                   /\ wpc[d] = "exit" => wpc'[d] \in {"exit", "gone"}
                   /\ ~open[d] => ~open'[d]

(* How a step of a connection moves its reader through Close. *)
LEMMA PlaceStep ==
  ASSUME ReaderType, LocalInv, NEW c \in Conns, Moves(c)
  PROVE  PlaceFrame(c)
<1> USE DEF PlaceFrame, InBody, Unsubscribed
<1>1. CASE Packet(c)
  <2>1. pc[c] = "read" /\ at[c] = None
    BY <1>1 DEF Packet, Connect, Publish, Subscribe, UnSubscribe, Acknowledge, Disconnect, Drop,
                Reading, Step, LocalInv, ReaderAt, BodyLabels, CloseLabels
  <2>2. pc'[c] \in {"check", "flush", "create", "disconnect", "insert", "removeTopics", "match",
                    "retain", "close", "unhook"} /\ at'[c] \in {None, c}
    BY <1>1, <2>1 DEF Packet, Connect, Publish, Subscribe, UnSubscribe, Acknowledge, Disconnect, Drop,
                Reading, Step, Go, Reply, Then, ReaderType
  <2>3. pc'[c] # "close" => at'[c] = None
    BY <1>1, <2>1 DEF Packet, Connect, Publish, Subscribe, UnSubscribe, Acknowledge, Disconnect, Drop,
                Reading, Step, Go, Reply, Then, ReaderType
  <2> QED BY <2>1, <2>2, <2>3
<1>2. CASE Flush(c) \/ Check(c)
  <2>1. at[c] = None
    BY <1>2 DEF Flush, Check, LocalInv, ReaderAt, BodyLabels, CloseLabels
  <2> QED
    BY <1>2, <2>1 DEF Flush, Check, Go, Reply, Then, ReaderType, LocalInv, ReaderAt
<1>3. CASE Connecting(c)
  BY <1>3 DEF Connecting, DoDisconnect, AfterDisconnect, Adopt, Create, Replay, HookDisconnect,
              HookWrite, Finish, Go, Step, Reply, Then, ReaderType, LocalInv, ReaderAt, BodyLabels,
              CloseLabels
<1>4. CASE Subscribing(c)
  BY <1>4 DEF Subscribing, Insert, AddTopic, FetchRetained, RemoveTopic, Go, Step, Reply, Then,
              ReaderType, LocalInv, ReaderAt, BodyLabels, CloseLabels
<1>5. CASE Publishing(c)
  BY <1>5 DEF Publishing, Retain, Match, Deliver, Write, Send, Rest, Go, Step, ReaderType
<1>6. CASE Closing(c)
  <2>1. CASE Unhook(c) \/ Forget(c) \/ Close(c) \/ Closed(c)
    BY <1>6, <2>1 DEF Unhook, Forget, Close, Closed, AfterDisconnect, Adopt, Go, Step, ReaderType,
                      LocalInv, ReaderAt, BodyLabels, CloseLabels
  <2>2. CASE Cleanup(c) \/ Drain(c) \/ Push(c) \/ Mark(c) \/ Signal(c) \/ Wait(c)
    BY <1>6, <2>2 DEF Cleanup, Drain, Push, Mark, Signal, Wait, Go, Step, ReaderType
  <2>3. CASE Unsubscribe(c) \/ CloseQueue(c) \/ OffDisconnect(c) \/ OffWrite(c)
    BY <1>6, <2>3 DEF Unsubscribe, CloseQueue, OffDisconnect, OffWrite, Go, Step, ReaderType
  <2> QED BY <1>6, <2>1, <2>2, <2>3 DEF Closing
<1>7. CASE Writer(c) \/ Kick(c)
  BY <1>7 DEF Writer, Take, Handle, Offline, Ping, Gone, Kick
<1> QED
  BY <1>1, <1>2, <1>3, <1>4, <1>5, <1>6, <1>7 DEF Moves, Reader

(* Who changes the sync.Once of a connection. *)
LEMMA OnceStep ==
  ASSUME NEW c \in Conns, Moves(c)
  PROVE  OnceFrame(c)
<1> USE DEF OnceFrame
<1>1. CASE Packet(c)
  BY <1>1 DEF Packet, Connect, Publish, Subscribe, UnSubscribe, Acknowledge, Disconnect, Drop
<1>2. CASE Flush(c) \/ Check(c) \/ Connecting(c)
  BY <1>2 DEF Flush, Check, Connecting, DoDisconnect, Create, Replay, HookDisconnect, HookWrite, Finish
<1>3. CASE Subscribing(c) \/ Publishing(c)
  BY <1>3 DEF Subscribing, Insert, AddTopic, FetchRetained, RemoveTopic,
              Publishing, Retain, Match, Deliver, Write, Send
<1>4. CASE Closing(c)
  BY <1>4 DEF Closing, Unhook, Forget, Closed, Cleanup, Drain, Push, Mark, Signal, Wait, Unsubscribe,
              OffDisconnect
<1>5. CASE Writer(c) \/ Kick(c)
  BY <1>5 DEF Writer, Take, Handle, Offline, Ping, Gone, Kick
<1> QED
  BY <1>1, <1>2, <1>3, <1>4, <1>5 DEF Moves, Reader

(* A writer that has ended stays so, and a queue that is closed. *)
LEMMA EndStep ==
  ASSUME WriterType, QueueType, NEW c \in Conns, Moves(c)
  PROVE  EndFrame(c)
<1> USE DEF EndFrame, WriterType, QueueType, writerVars, queueVars
<1>1. CASE Packet(c)
  BY <1>1 DEF Packet, Connect, Publish, Subscribe, UnSubscribe, Acknowledge, Disconnect, Drop
<1>2. CASE Flush(c) \/ Check(c) \/ Connecting(c)
  BY <1>2 DEF Flush, Check, Connecting, DoDisconnect, Create, Replay, HookDisconnect, HookWrite, Finish
<1>3. CASE Subscribing(c) \/ Publishing(c)
  BY <1>3 DEF Subscribing, Insert, AddTopic, FetchRetained, RemoveTopic,
              Publishing, Retain, Match, Deliver, Write, Send
<1>4. CASE Closing(c)
  BY <1>4 DEF Closing, Unhook, Forget, Close, Closed, Cleanup, Drain, Push, Mark, Signal, Wait,
              Unsubscribe, CloseQueue, OffDisconnect, OffWrite, Step
<1>5. CASE Writer(c) \/ Kick(c)
  BY <1>5 DEF Writer, Take, Handle, Offline, Ping, Gone, Kick, WStep
<1> QED
  BY <1>1, <1>2, <1>3, <1>4, <1>5 DEF Moves, Reader

-----------------------------------------------------------------------------
(* What changes in the sessions, and in the tables of subscriptions. *)
HooksKept == \A s \in Conns : sess'[s].onWrite = sess[s].onWrite
NamesKept == \A s \in Conns : sess'[s].clientid = sess[s].clientid
GroupKept == \A i \in Clients : group'[i] \in {group[i], None}
OwnersKept == \A d \in Conns : conn'[d].session = conn[d].session
ConnectedKept == \A d \in Conns : conn'[d].connected = conn[d].connected
SessionFrame(c) ==
  /\ OwnersKept \/ DoDisconnect(c) \/ Create(c) \/ OffWrite(c)
  /\ ConnectedKept \/ Finish(c)
  /\ HooksKept \/ Create(c) \/ HookWrite(c) \/ OffWrite(c)
  /\ NamesKept \/ Create(c) \/ Finish(c)
  /\ GroupKept \/ Create(c)
TableFrame(c) ==
  \/ tree' = tree /\ \A d \in Conns : conn'[d].subscription = conn[d].subscription
  \/ (\E t \in Subscribes[c] : Subscribe(c, t)) \/ (\E t \in Unsubscribes[c] : UnSubscribe(c, t))
  \/ Insert(c) \/ RemoveTopic(c) \/ Unsubscribe(c)

(* Nobody comes back from another connection's Close, or ends it: the
   connection is still hooked then. *)
LEMMA OwnClose ==
  ASSUME TypeOK, LocalInv, SharedInv, NEW c \in Conns
  PROVE  /\ Closed(c) => at[c] = c
         /\ OffWrite(c) => at[c] = c
         /\ CloseQueue(c) /\ Session(at[c]) = None => at[c] = c
         /\ TakingOver(c) => /\ loc[c].old \in Conns /\ at[c] \in Conns
                             /\ Session(at[c]) = loc[c].old /\ once[at[c]] # "done"
<1>1. TakingOver(c) => /\ loc[c].old \in Conns /\ at[c] \in Conns
                       /\ Session(at[c]) = loc[c].old /\ once[at[c]] # "done"
  BY DEF TypeOK, ReaderType, LocalInv, ReaderAt, SharedInv, LockInv, HookInv, TakingOver
<1>2. pc[c] \in {"close", "closeQueue", "offWrite"} => at[c] # None
  BY DEF LocalInv, ReaderAt, CloseLabels
<1>3. Closed(c) => at[c] = c
  BY <1>1, <1>2 DEF Closed, TakingOver
<1>4. OffWrite(c) => at[c] = c
  BY DEF OffWrite, Step, SharedInv, LockInv
<1>5. CloseQueue(c) /\ Session(at[c]) = None => at[c] = c
  BY <1>1, <1>2, NoneApart DEF CloseQueue, TakingOver
<1> QED BY <1>1, <1>3, <1>4, <1>5

(* The operations of sessions, and what each leaves alone. *)
LEMMA SessionOps ==
  ASSUME SessionType(Item), NEW s
  PROVE  /\ \A c : WithOnDisconnect(s, c) => HooksKept /\ NamesKept /\ GroupKept
         /\ \A c : WithOnWrite(s, c) => NamesKept /\ GroupKept
         /\ \A i : WithClientID(s, i) => HooksKept /\ GroupKept
         /\ \A t : AddTopics(s, t) => HooksKept /\ NamesKept /\ GroupKept
         /\ \A t : RemoveTopics(s, t) => HooksKept /\ NamesKept /\ GroupKept
         /\ \A m : PushOfflineMessage(s, m) => HooksKept /\ NamesKept /\ GroupKept
         /\ OfflineMessages(s) => HooksKept /\ NamesKept /\ GroupKept
         /\ \A i : Remove(i) => HooksKept /\ NamesKept /\ GroupKept
         /\ \A c : Acquire(s, c) => HooksKept /\ NamesKept /\ GroupKept
         /\ Release(s) => HooksKept /\ NamesKept /\ GroupKept
         /\ UNCHANGED sessionVars => HooksKept /\ NamesKept /\ GroupKept
<1> USE DEF SessionType, SessionRecord, HooksKept, NamesKept, GroupKept
<1>1. \A c : WithOnDisconnect(s, c) => HooksKept /\ NamesKept /\ GroupKept
  BY DEF WithOnDisconnect
<1>2. \A c : WithOnWrite(s, c) => NamesKept /\ GroupKept
  BY DEF WithOnWrite
<1>3. \A i : WithClientID(s, i) => HooksKept /\ GroupKept
  BY DEF WithClientID
<1>4. \A t : AddTopics(s, t) => HooksKept /\ NamesKept /\ GroupKept
  BY DEF AddTopics
<1>5. \A t : RemoveTopics(s, t) => HooksKept /\ NamesKept /\ GroupKept
  BY DEF RemoveTopics
<1>6. \A m : PushOfflineMessage(s, m) => HooksKept /\ NamesKept /\ GroupKept
  BY DEF PushOfflineMessage
<1>7. OfflineMessages(s) => HooksKept /\ NamesKept /\ GroupKept
  BY DEF OfflineMessages
<1>8. \A i : Remove(i) => HooksKept /\ NamesKept /\ GroupKept
  BY DEF Remove
<1>9. /\ \A c : Acquire(s, c) => HooksKept /\ NamesKept /\ GroupKept
      /\ Release(s) => HooksKept /\ NamesKept /\ GroupKept
      /\ UNCHANGED sessionVars => HooksKept /\ NamesKept /\ GroupKept
  BY DEF Acquire, Release, sessionVars
<1> QED
  BY <1>1, <1>2, <1>3, <1>4, <1>5, <1>6, <1>7, <1>8, <1>9

(* Which steps change the session of a connection, and make it connected. *)
LEMMA OwnerStep ==
  ASSUME TypeOK, LocalInv, SharedInv, NEW c \in Conns, Moves(c)
  PROVE  /\ OwnersKept \/ DoDisconnect(c) \/ Create(c) \/ OffWrite(c)
         /\ ConnectedKept \/ Finish(c)
<1> SUFFICES ASSUME ConnType
             PROVE  /\ OwnersKept \/ DoDisconnect(c) \/ Create(c) \/ OffWrite(c)
                    /\ ConnectedKept \/ Finish(c)
  BY DEF TypeOK
<1> USE DEF OwnersKept, ConnectedKept, ConnType
<1>1. CASE Packet(c)
  <2>1. CASE \E t \in Subscribes[c] : Subscribe(c, t)
    BY <2>1 DEF Subscribe
  <2>2. CASE ~\E t \in Subscribes[c] : Subscribe(c, t)
    BY <1>1, <2>2 DEF Packet, Connect, Publish, UnSubscribe, Acknowledge, Disconnect, Drop
  <2> QED BY <2>1, <2>2
<1>2. CASE Flush(c) \/ Check(c)
  BY <1>2 DEF Flush, Check
<1>3. CASE Connecting(c)
  <2>1. CASE DoDisconnect(c)
    BY <2>1 DEF DoDisconnect, AfterDisconnect, Adopt
  <2>2. CASE Create(c)
    BY <2>2 DEF Create, Adopt
  <2>3. CASE Finish(c)
    BY <2>3 DEF Finish
  <2>4. CASE Replay(c) \/ HookDisconnect(c) \/ HookWrite(c)
    BY <2>4 DEF Replay, HookDisconnect, HookWrite
  <2> QED BY <1>3, <2>1, <2>2, <2>3, <2>4 DEF Connecting
<1>4. CASE Subscribing(c) \/ Publishing(c)
  <2>1. CASE Insert(c)
    BY <2>1 DEF Insert
  <2>2. CASE RemoveTopic(c)
    BY <2>2 DEF RemoveTopic
  <2>3. CASE ~Insert(c) /\ ~RemoveTopic(c)
    BY <1>4, <2>3 DEF Subscribing, AddTopic, FetchRetained, Publishing, Retain, Match, Deliver, Write, Send
  <2> QED BY <2>1, <2>2, <2>3
<1>5. CASE Closing(c)
  <2>1. CASE Closed(c)
    BY <2>1, OwnClose DEF Closed
  <2>2. CASE ~Closed(c)
    BY <1>5, <2>2 DEF Closing, Unhook, Forget, Forgotten, Close, Cleanup, Drain, Push, Mark, Signal,
                      Wait, Unsubscribe, CloseQueue, OffDisconnect, OffWrite
  <2> QED BY <2>1, <2>2
<1>6. CASE Writer(c) \/ Kick(c)
  BY <1>6 DEF Writer, Take, Handle, Offline, Ping, Gone, Kick
<1> QED
  BY <1>1, <1>2, <1>3, <1>4, <1>5, <1>6 DEF Moves, Reader

(* Which steps change a session's hook and identifier, and its table. *)
LEMMA SessionStep ==
  ASSUME TypeOK, LocalInv, SharedInv, NEW c \in Conns, Moves(c)
  PROVE  SessionFrame(c)
<1> SUFFICES ASSUME SessionType(Item)
             PROVE  /\ HooksKept \/ Create(c) \/ HookWrite(c) \/ OffWrite(c)
                    /\ NamesKept \/ Create(c) \/ Finish(c)
                    /\ GroupKept \/ Create(c)
  BY OwnerStep DEF TypeOK, SessionFrame
<1>1. CASE Packet(c)
  BY <1>1, SessionOps DEF Packet, Connect, Publish, Subscribe, UnSubscribe, Acknowledge, Disconnect, Drop
<1>2. CASE Flush(c) \/ Check(c)
  BY <1>2, SessionOps DEF Flush, Check
<1>3. CASE Connecting(c)
  BY <1>3, SessionOps DEF Connecting, DoDisconnect, Replay, HookDisconnect, HookWrite, Finish
<1>4. CASE Subscribing(c) \/ Publishing(c)
  BY <1>4, SessionOps DEF Subscribing, Insert, AddTopic, FetchRetained, RemoveTopic,
              Publishing, Retain, Match, Deliver, Write, Send
<1>5. CASE Closing(c)
  BY <1>5, SessionOps, OwnClose DEF Closing, Unhook, Forget, Close, Closed, Cleanup, Drain, Push,
              Mark, Signal, Wait, Unsubscribe, CloseQueue, OffDisconnect, OffWrite
<1>6. CASE Writer(c) \/ Kick(c)
  BY <1>6, SessionOps DEF Writer, Take, Handle, Offline, Ping, Gone, Kick
<1> QED
  BY <1>1, <1>2, <1>3, <1>4, <1>5, <1>6 DEF Moves, Reader

(* Which steps change the tree, or a connection's table. *)
LEMMA TableStep ==
  ASSUME TypeOK, NEW c \in Conns, Moves(c)
  PROVE  TableFrame(c)
<1> SUFFICES ASSUME ConnType PROVE TableFrame(c)
  BY DEF TypeOK
<1> USE DEF TableFrame, ConnType, topicVars
<1>1. CASE Packet(c)
  BY <1>1 DEF Packet, Connect, Publish, Acknowledge, Disconnect, Drop
<1>2. CASE Flush(c) \/ Check(c) \/ Connecting(c)
  <2>1. CASE DoDisconnect(c)
    BY <2>1 DEF DoDisconnect, AfterDisconnect, Adopt
  <2>2. CASE Create(c)
    BY <2>2 DEF Create, Adopt
  <2>3. CASE Finish(c)
    BY <2>3 DEF Finish
  <2>4. CASE Flush(c) \/ Check(c) \/ Replay(c) \/ HookDisconnect(c) \/ HookWrite(c)
    BY <2>4 DEF Flush, Check, Replay, HookDisconnect, HookWrite
  <2> QED BY <1>2, <2>1, <2>2, <2>3, <2>4 DEF Connecting
<1>3. CASE Subscribing(c) \/ Publishing(c)
  BY <1>3 DEF Subscribing, AddTopic, FetchRetained, Publishing, Retain, Match, Deliver, Write, Send
<1>4. CASE Closing(c)
  BY <1>4 DEF Closing, Unhook, Forget, Forgotten, Close, Closed, AfterDisconnect, Adopt, Cleanup,
              Drain, Push, Mark, Signal, Wait, CloseQueue, OffDisconnect, OffWrite
<1>5. CASE Writer(c) \/ Kick(c)
  BY <1>5 DEF Writer, Take, Handle, Offline, Ping, Gone, Kick
<1> QED
  BY <1>1, <1>2, <1>3, <1>4, <1>5 DEF Moves, Reader

(* Only a SUBSCRIBE adds to the tree, and only under its own connection. *)
LEMMA TreeGrows ==
  ASSUME TypeOK, NEW c \in Conns, Moves(c)
  PROVE  tree' \subseteq tree \/ (Insert(c) /\ tree' = tree \cup {Sub(c, loc[c].topic)})
  BY TableStep DEF TableFrame, Subscribe, UnSubscribe, Insert, RemoveTopic, Unsubscribe, Without, topicVars

-----------------------------------------------------------------------------
(* The steps of the invariant's parts. *)

(* One goroutine at a time is in the body of a connection's Close. *)
LEMMA BodyStep ==
  ASSUME TypeOK, Inv, CloseInv, NEW c \in Conns, Moves(c)
  PROVE  \A d \in Conns : InBody(d)' =>
           /\ (once[at[d]] = "busy")'
           /\ \A e \in Conns : InBody(e)' /\ at'[e] = at'[d] => e = d
<1>1. LocalInv /\ SharedInv /\ ReaderType /\ ConnType
  BY DEF Inv, TypeOK
<1>2. OnlyReader(c) /\ PlaceFrame(c) /\ OnceFrame(c)
  BY <1>1, StepIsLocal, PlaceStep, OnceStep DEF Moves
<1>3. \A d \in Conns \ {c} : (InBody(d)' <=> InBody(d)) /\ at'[d] = at[d]
  BY <1>2 DEF OnlyReader, InBody
<1>4. CASE Close(c)
  <2>1. /\ at[c] \in Conns /\ at'[c] = at[c] /\ once[at[c]] = "no" /\ once'[at[c]] = "busy"
        /\ \A o \in Conns \ {at[c]} : once'[o] = once[o]
    BY <1>1, <1>4 DEF Close, Unclosed, LocalInv, ReaderAt, ReaderType, ConnType
  <2>2. \A d \in Conns \ {c} : InBody(d) => at[d] # at[c] /\ at[d] \in Conns
    BY <1>1, <2>1 DEF CloseInv, InBody, ReaderType
  <2> QED BY <1>3, <2>1, <2>2 DEF CloseInv
<1>5. CASE ~Close(c) /\ once' = once
  BY <1>2, <1>3, <1>5 DEF PlaceFrame, CloseInv
<1>6. CASE once' # once /\ (CloseQueue(c) \/ OffWrite(c))
  <2>1. at[c] = c /\ pc'[c] = "close" /\ InBody(c) /\ \A o \in Conns \ {c} : once'[o] = once[o]
    <3>1. at[c] = c
      BY <1>1, <1>6, OwnClose DEF CloseQueue
    <3>2. CASE CloseQueue(c)
      BY <1>1, <1>6, <3>1, <3>2, NoneApart DEF CloseQueue, Go, ReaderType, ConnType, InBody
    <3>3. CASE OffWrite(c)
      BY <1>1, <1>6, <3>1, <3>3, NoneApart DEF OffWrite, Step, Go, ReaderType, ConnType, InBody
    <3> QED BY <1>6, <3>1, <3>2, <3>3
  <2>2. ~InBody(c)'
    BY <2>1 DEF InBody
  <2>3. \A d \in Conns \ {c} : InBody(d) => at[d] # c /\ at[d] \in Conns
    BY <1>1, <2>1 DEF CloseInv, InBody, ReaderType
  <2> QED BY <1>3, <2>1, <2>2, <2>3 DEF CloseInv
<1> QED BY <1>2, <1>4, <1>5, <1>6 DEF OnceFrame

(* What the closing goroutine has reached stays reached. *)
LEMMA ReachedStep ==
  ASSUME TypeOK, Inv, CloseInv, NEW c \in Conns, Moves(c), NEW d \in Conns
  PROVE  /\ pc'[d] = "wait" => wpc'[at'[d]] \in {"exit", "gone"}
         /\ pc'[d] \in Unsubscribed \cup {"unsubscribe"} => wpc'[at'[d]] = "gone"
         /\ pc'[d] \in {"offDisconnect", "offWrite"} => ~open'[at'[d]]
<1>1. LocalInv /\ SharedInv /\ ReaderType /\ ConnType /\ WriterType /\ QueueType /\ LocalInv'
  BY LocalStepInv DEF Inv, TypeOK, Moves, SharedInv
<1>2. OnlyReader(c) /\ PlaceFrame(c) /\ EndFrame(c)
  BY <1>1, StepIsLocal, PlaceStep, EndStep DEF Moves
<1>3. CASE d # c
  <2>1. pc'[d] = pc[d] /\ at'[d] = at[d]
    BY <1>2, <1>3 DEF OnlyReader
  <2>2. pc[d] \in CloseLabels => at[d] \in Conns
    BY <1>1 DEF ReaderType, LocalInv, ReaderAt
  <2> QED BY <1>2, <2>1, <2>2 DEF CloseInv, EndFrame, Unsubscribed, CloseLabels
<1>4. CASE d = c
  <2> SUFFICES ASSUME pc'[c] \in Unsubscribed \cup {"unsubscribe", "wait"}
               PROVE  /\ pc'[c] = "wait" => wpc'[at'[c]] \in {"exit", "gone"}
                      /\ pc'[c] \in Unsubscribed \cup {"unsubscribe"} => wpc'[at'[c]] = "gone"
                      /\ pc'[c] \in {"offDisconnect", "offWrite"} => ~open'[at'[c]]
    BY <1>4 DEF Unsubscribed
  <2>1. at'[c] # None /\ pc'[c] # "close"
    BY <1>1 DEF LocalInv, ReaderAt, CloseLabels, Unsubscribed
  <2>2. at'[c] = at[c] /\ at[c] \in Conns
    <3>1. CASE Close(c)
      BY <3>1, <1>1 DEF Close, LocalInv, ReaderAt, ReaderType
    <3>2. CASE ~Close(c)
      BY <1>1, <1>2, <2>1, <3>2 DEF PlaceFrame, InBody, ReaderType
    <3> QED BY <3>1, <3>2
  <2>3. Signal(c) => wpc'[at[c]] = "exit"
    BY <1>1, <2>2 DEF Signal, WriterType
  <2>4. Wait(c) => wpc'[at[c]] = "gone"
    BY DEF Wait, WriterGone, writerVars
  <2>5. Unsubscribe(c) => pc[c] = "unsubscribe"
    BY DEF Unsubscribe
  <2>6. CloseQueue(c) => ~open'[at[c]]
    BY <1>1, <2>2 DEF CloseQueue, QueueType
  <2>7. /\ pc'[c] = "wait" => wpc'[at[c]] \in {"exit", "gone"}
        /\ pc'[c] = "unsubscribe" => wpc'[at[c]] = "gone"
    BY <1>2, <2>2, <2>3, <2>4 DEF PlaceFrame, EndFrame, CloseInv
  <2>8. pc'[c] \in Unsubscribed => wpc'[at[c]] = "gone"
    BY <1>2, <2>2, <2>5 DEF PlaceFrame, EndFrame, CloseInv
  <2>9. pc'[c] \in {"offDisconnect", "offWrite"} => ~open'[at[c]]
    BY <1>2, <2>2, <2>6 DEF PlaceFrame, EndFrame, CloseInv
  <2> QED BY <2>2, <2>7, <2>8, <2>9
<1> QED BY <1>3, <1>4

(* A connection that has closed itself this far has nothing in the tree. *)
LEMMA EmptiedStep ==
  ASSUME TypeOK, Inv, CloseInv, TableInv, NEW c \in Conns, Moves(c), NEW d \in Conns
  PROVE  pc'[d] \in Unsubscribed /\ at'[d] = d => \A s \in tree' : s.conn # d
<1> SUFFICES ASSUME pc'[d] \in Unsubscribed, at'[d] = d PROVE \A s \in tree' : s.conn # d
  OBVIOUS
<1>1. LocalInv /\ SharedInv /\ ReaderType /\ TopicType
  BY DEF Inv, TypeOK
<1>2. OnlyReader(c) /\ PlaceFrame(c)
  BY <1>1, StepIsLocal, PlaceStep DEF Moves
<1>3. tree' \subseteq tree \/ (Insert(c) /\ tree' = tree \cup {Sub(c, loc[c].topic)})
  BY TreeGrows
<1>4. CASE d # c
  <2>1. pc[d] \in Unsubscribed /\ at[d] = d
    BY <1>2, <1>4 DEF OnlyReader
  <2>2. \A s \in tree : s.conn # d
    BY <2>1 DEF CloseInv
  <2> QED BY <1>3, <1>4, <2>2 DEF Sub
<1>5. CASE d = c
  <2>1. ~Insert(c)
    <3>1. pc'[c] \notin {"addTopics", "flush", "check"}
      BY <1>5 DEF Unsubscribed
    <3> QED BY <1>1, <3>1 DEF Insert, Reply, Then, Go, ReaderType
  <2>2. tree' \subseteq tree
    BY <1>3, <2>1
  <2>3. CASE Unsubscribe(c) /\ pc[c] \notin Unsubscribed
    <3>1. at[c] = c /\ tree' = tree /\ \A t \in conn[c].subscription : Without(c, t) = tree
      BY <1>1, <1>5, <2>3 DEF Unsubscribe, Go, ReaderType
    <3>2. ASSUME NEW s \in tree, s.conn = c PROVE FALSE
      <4>1. s.topic \in conn[c].subscription
        BY <3>2 DEF TableInv
      <4>2. s \notin Without(c, s.topic)
        BY <3>2 DEF Without
      <4> QED BY <3>1, <4>1, <4>2
    <3> QED BY <1>5, <3>1, <3>2
  <2>4. CASE pc[c] \in Unsubscribed
    <3>1. at[c] = c
      <4>1. InBody(c)' /\ ~Close(c)
        BY <1>5, <2>4, NoneApart DEF InBody, Unsubscribed, Close
      <4> QED BY <1>2, <1>5, <4>1 DEF PlaceFrame
    <3> QED BY <1>5, <2>2, <2>4, <3>1 DEF CloseInv
  <2> QED BY <1>2, <1>5, <2>3, <2>4 DEF PlaceFrame
<1> QED BY <1>4, <1>5

(* Every step keeps what CloseInv says of the closers' places. *)
LEMMA CloseInvStep ==
  ASSUME TypeOK, Inv, CloseInv, TableInv, NEW c \in Conns, Moves(c)
  PROVE  CloseInv'
<1>1. \A d \in Conns :
        /\ InBody(d)' => /\ (once[at[d]] = "busy")'
                         /\ \A e \in Conns : InBody(e)' /\ at'[e] = at'[d] => e = d
  BY BodyStep
<1>2. \A d \in Conns :
        /\ pc'[d] = "wait" => wpc'[at'[d]] \in {"exit", "gone"}
        /\ pc'[d] \in Unsubscribed \cup {"unsubscribe"} => wpc'[at'[d]] = "gone"
        /\ pc'[d] \in {"offDisconnect", "offWrite"} => ~open'[at'[d]]
  BY ReachedStep
<1>3. \A d \in Conns : pc'[d] \in Unsubscribed /\ at'[d] = d => \A s \in tree' : s.conn # d
  BY EmptiedStep
<1> QED BY <1>1, <1>2, <1>3 DEF CloseInv

(* A connection that looks for its session has none. *)
LEMMA Homeless ==
  ASSUME Inv, NEW c \in Conns
  PROVE  DoDisconnect(c) \/ Create(c) => Session(c) = None /\ ~conn[c].connected
  BY DEF Inv, SharedInv, ConnInv, Adopting, DoDisconnect, Create

(* What becomes of the sessions' owners. *)
LEMMA AdoptedStep ==
  ASSUME TypeOK, Inv, NEW c \in Conns
  PROVE  /\ DoDisconnect(c) \/ Create(c) => \A d \in Conns \ {c} : Session(d)' = Session(d)
         /\ Create(c) => Session(c)' = c
         /\ OffWrite(c) => Session(c)' = None /\ \A d \in Conns \ {c} : Session(d)' = Session(d)
         /\ DoDisconnect(c) => Session(c)' \in {None, loc[c].old}
<1>1. ConnType /\ LocalInv /\ SharedInv
  BY DEF TypeOK, Inv
<1>2. DoDisconnect(c) => Session(c) = None
  BY Homeless
<1>3. OffWrite(c) => at[c] = c
  BY <1>1, OwnClose
<1>4. DoDisconnect(c) => /\ Session(c)' \in {None, loc[c].old}
                         /\ \A d \in Conns \ {c} : Session(d)' = Session(d)
  BY <1>1, <1>2 DEF DoDisconnect, AfterDisconnect, Adopt, ConnType, Session
<1>5. Create(c) => Session(c)' = c /\ \A d \in Conns \ {c} : Session(d)' = Session(d)
  BY <1>1 DEF Create, Adopt, ConnType, Session
<1>6. OffWrite(c) => Session(c)' = None /\ \A d \in Conns \ {c} : Session(d)' = Session(d)
  BY <1>1, <1>3 DEF OffWrite, ConnType, Session
<1> QED BY <1>4, <1>5, <1>6

(* Every step leaves the write hooks with owners of their sessions. *)
LEMMA WriteHookStep ==
  ASSUME TypeOK, Inv, WriteHookInv, NEW c \in Conns, Moves(c)
  PROVE  WriteHookInv'
<1>1. ConnType /\ SessionType(Item) /\ LocalInv /\ SharedInv
  BY DEF TypeOK, Inv
<1>2. SessionFrame(c)
  BY <1>1, SessionStep
<1>3. CASE Create(c)
  <2>1. Session(c) = None /\ Session(c)' = c /\ \A d \in Conns \ {c} : Session(d)' = Session(d)
    BY <1>3, Homeless, AdoptedStep
  <2>2. /\ sess'[c].onWrite = None
        /\ \A s \in Conns \ {c} : sess'[s].onWrite = sess[s].onWrite
    BY <1>1, <1>3 DEF Create, New, NewSession, SessionType
  <2> QED BY <2>1, <2>2, NoneApart DEF WriteHookInv
<1>4. CASE HookWrite(c)
  <2>1. \A d \in Conns : Session(d)' = Session(d)
    BY <1>4 DEF HookWrite, Session
  <2>2. \A s \in Conns : sess'[s].onWrite = IF s = Session(c) THEN c ELSE sess[s].onWrite
    BY <1>1, <1>4 DEF HookWrite, WithOnWrite, SessionType, SessionRecord
  <2> QED BY <2>1, <2>2 DEF WriteHookInv
<1>5. CASE OffWrite(c)
  <2>1. at[c] = c /\ \A d \in Conns \ {c} : Session(d)' = Session(d)
    BY <1>1, <1>5, OwnClose, AdoptedStep
  <2>2. \A s \in Conns : sess'[s].onWrite = IF s = Session(c) THEN None ELSE sess[s].onWrite
    BY <1>1, <1>5, <2>1 DEF OffWrite, WithOnWrite, SessionType, SessionRecord
  <2> QED BY <2>1, <2>2, NoneApart DEF WriteHookInv
<1>6. CASE HooksKept /\ DoDisconnect(c)
  <2>1. Session(c) = None /\ \A d \in Conns \ {c} : Session(d)' = Session(d)
    BY <1>6, Homeless, AdoptedStep
  <2> QED BY <1>6, <2>1, NoneApart DEF HooksKept, WriteHookInv
<1>7. CASE HooksKept /\ OwnersKept
  BY <1>7 DEF HooksKept, OwnersKept, WriteHookInv, Session
<1> QED BY <1>2, <1>3, <1>4, <1>5, <1>6, <1>7 DEF SessionFrame, HookWrite, DoDisconnect, Create, OffWrite, OwnersKept

(* No step takes a session from a connection that is not done. *)
LEMMA KeepsStep ==
  ASSUME TypeOK, Inv, KeepsInv, NEW c \in Conns, Moves(c)
  PROVE  KeepsInv'
<1>1. ConnType /\ LocalInv /\ SharedInv
  BY DEF TypeOK, Inv
<1>2. SessionFrame(c) /\ OnceFrame(c)
  BY <1>1, SessionStep, OnceStep
<1>3. \A d \in Conns : once[d] = "done" => once'[d] = "done"
  <2>1. CASE once' = once
    BY <2>1
  <2>2. CASE Close(c) \/ OffWrite(c)
    BY <1>1, <2>2 DEF Close, Unclosed, OffWrite, ConnType
  <2>3. CASE CloseQueue(c)
    <3>1. once' = once \/ once' = [once EXCEPT ![at[c]] = "done"]
      BY <2>3 DEF CloseQueue
    <3> QED BY <1>1, <3>1 DEF ConnType
  <2> QED BY <1>2, <2>1, <2>2, <2>3 DEF OnceFrame
<1>4. \A d \in Conns : conn'[d].connected => conn[d].connected \/ (d = c /\ Finish(c))
  BY <1>1, <1>2 DEF SessionFrame, ConnectedKept, Finish, ConnType
<1>5. ASSUME NEW d \in Conns
      PROVE  Session(d) # None => Session(d)' # None \/ (d = c /\ OffWrite(c))
  <2>1. DoDisconnect(c) \/ Create(c) => d # c \/ Session(d) = None
    BY Homeless
  <2> QED BY <1>2, <2>1, AdoptedStep DEF SessionFrame, OwnersKept, Session
<1>6. Finish(c) => Session(c) # None
  BY <1>1 DEF SharedInv, ConnInv, Finish, Adopting
<1>7. OffWrite(c) => once'[c] = "done"
  BY <1>1, OwnClose DEF OffWrite, ConnType
<1> QED BY <1>3, <1>4, <1>5, <1>6, <1>7 DEF KeepsInv

(* Nothing grows back on a connection that is done. *)
LEMMA DoneStays ==
  ASSUME TypeOK, Inv, ClosedLeavesNothing, NEW c \in Conns, Moves(c), NEW d \in Conns, once[d] = "done"
  PROVE  /\ wpc'[d] = "gone" /\ ~open'[d] /\ Session(d)' = None
         /\ \A s \in tree' : s.conn # d
<1>1. LocalInv /\ SharedInv /\ ConnType
  BY DEF Inv, TypeOK
<1>2. SessionFrame(c) /\ EndFrame(c)
  BY <1>1, SessionStep, EndStep DEF TypeOK
<1>3. wpc[d] = "gone" /\ ~open[d] /\ Session(d) = None /\ \A s \in tree : s.conn # d
  BY DEF ClosedLeavesNothing
<1>4. pc[d] \notin {"disconnect", "create", "insert"}
  BY <1>1, NoneApart DEF SharedInv, OnceInv, LocalInv, ReaderAt, BodyLabels, CloseLabels
<1>5. Session(d)' = None
  <2>1. DoDisconnect(c) \/ Create(c) => d # c
    BY <1>4 DEF DoDisconnect, Create
  <2> QED BY <1>2, <1>3, <2>1, AdoptedStep DEF SessionFrame, OwnersKept, Session
<1>6. \A s \in tree' : s.conn # d
  <2>1. ~(d = c /\ Insert(c))
    BY <1>4 DEF Insert
  <2> QED BY <1>3, <2>1, TreeGrows DEF Sub
<1> QED BY <1>2, <1>3, <1>5, <1>6 DEF EndFrame

(* A closer has given everything back when it is done, and nobody gives it
   anything afterwards. *)
LEMMA ClosedStepNothing ==
  ASSUME TypeOK, Inv, CloseInv, WriteHookInv, ClosedLeavesNothing, NEW c \in Conns, Moves(c),
         Inv', WriteHookInv'
  PROVE  ClosedLeavesNothing'
<1> SUFFICES ASSUME NEW d \in Conns, once'[d] = "done"
             PROVE  /\ wpc'[d] = "gone" /\ ~open'[d] /\ Session(d)' = None
                    /\ \A s \in tree' : s.conn # d
                    /\ \A s \in Conns : sess'[s].onDisconnect # d /\ sess'[s].onWrite # d
  BY DEF ClosedLeavesNothing
<1>1. LocalInv /\ SharedInv /\ ConnType /\ QueueType
  BY DEF Inv, TypeOK
<1>2. OnceFrame(c) /\ EndFrame(c)
  BY OnceStep, EndStep DEF TypeOK
<1>3. ASSUME once[d] # "done"
      PROVE  /\ wpc'[d] = "gone" /\ ~open'[d] /\ Session(d)' = None
             /\ \A s \in tree' : s.conn # d
  <2>1. CloseQueue(c) \/ OffWrite(c)
    BY <1>1, <1>2, <1>3 DEF OnceFrame, Close, ConnType
  <2>2. at[c] = c /\ d = c /\ Session(c)' = None
    <3>1. CASE CloseQueue(c)
      BY <1>1, <1>3, <3>1, OwnClose DEF CloseQueue, ConnType, Session
    <3>2. CASE OffWrite(c)
      BY <1>1, <1>3, <3>2, OwnClose, AdoptedStep DEF OffWrite, ConnType
    <3> QED BY <2>1, <3>1, <3>2
  <2>3. wpc[c] = "gone" /\ (\A s \in tree : s.conn # c) /\ tree' = tree
    BY <2>1, <2>2 DEF CloseInv, CloseQueue, OffWrite, Step, Unsubscribed, topicVars
  <2>4. ~open'[c]
    BY <1>1, <1>2, <2>1, <2>2 DEF CloseInv, CloseQueue, OffWrite, Step, QueueType, EndFrame
  <2> QED BY <1>2, <2>2, <2>3, <2>4 DEF EndFrame
<1>4. /\ wpc'[d] = "gone" /\ ~open'[d] /\ Session(d)' = None
      /\ \A s \in tree' : s.conn # d
  BY <1>3, DoneStays
<1>5. \A s \in Conns : sess'[s].onDisconnect # d
  BY DEF Inv, SharedInv, HookInv
<1>6. \A s \in Conns : sess'[s].onWrite # d
  BY <1>4, NoneApart DEF WriteHookInv
<1> QED BY <1>4, <1>5, <1>6

-----------------------------------------------------------------------------
(* The identifiers. *)
HandlesConnect(c) == \E p \in Connects[c], ok \in AuthResults : Connect(c, p, ok)
NamedKept(c) == loc'[c].client = loc[c].client /\ loc'[c].old = loc[c].old
HoldsFrame(c) ==
  /\ NamedKept(c) \/ Check(c) \/ HandlesConnect(c)
  /\ TakingOver(c)' => TakingOver(c) \/ DoDisconnect(c)
  /\ pc'[c] = "disconnect" => pc[c] = "disconnect" \/ HandlesConnect(c)
  /\ pc'[c] = "create" => pc[c] = "create" \/ HandlesConnect(c) \/ DoDisconnect(c)
  /\ Adopting(c)' => Adopting(c) \/ DoDisconnect(c) \/ Create(c)

(* The locals of a handler other than those of CONNECT. *)
LEMMA NamedStep ==
  ASSUME ReaderType, NEW c \in Conns, Moves(c)
  PROVE  NamedKept(c) \/ Check(c) \/ HandlesConnect(c)
<1> USE DEF NamedKept, ReaderType, LocalType
<1>1. \A out, then : Reply(c, out, then) => NamedKept(c)
  BY DEF Reply
<1>2. CASE Packet(c) /\ ~HandlesConnect(c)
  <2>1. CASE \E p \in Publishes[c] : Publish(c, p)
    BY <2>1 DEF Publish
  <2>2. CASE \E t \in Subscribes[c] : Subscribe(c, t)
    BY <2>2 DEF Subscribe
  <2>3. CASE \E t \in Unsubscribes[c] : UnSubscribe(c, t)
    BY <1>1, <2>3 DEF UnSubscribe
  <2>4. CASE Acknowledge(c) \/ Disconnect(c) \/ Drop(c)
    BY <1>1, <2>4 DEF Acknowledge, Disconnect, Drop
  <2> QED BY <1>2, <2>1, <2>2, <2>3, <2>4 DEF Packet, HandlesConnect
<1>3. CASE Flush(c) \/ Connecting(c) \/ Subscribing(c)
  BY <1>1, <1>3 DEF Flush, Connecting, DoDisconnect, Create, Replay, HookDisconnect, HookWrite, Finish,
              Subscribing, Insert, AddTopic, FetchRetained, RemoveTopic
<1>4. CASE Publishing(c)
  <2>1. CASE Match(c)
    BY <2>1 DEF Match
  <2>2. CASE Deliver(c)
    BY <2>2 DEF Deliver
  <2>3. CASE Retain(c) \/ Write(c) \/ Send(c)
    BY <2>3 DEF Retain, Write, Send
  <2> QED BY <1>4, <2>1, <2>2, <2>3 DEF Publishing
<1>5. CASE Closing(c)
  <2>1. CASE Close(c)
    <3>1. loc' = loc \/ loc'[c] = [loc[c] EXCEPT !.msg = Own("will", at[c]), !.topic = conn[at[c]].will]
      BY <2>1 DEF Close
    <3> QED BY <3>1
  <2>2. CASE Drain(c)
    BY <2>2 DEF Drain
  <2>3. CASE ~Close(c) /\ ~Drain(c)
    BY <1>5, <2>3 DEF Closing, Unhook, Forget, Closed, Cleanup, Push, Mark, Signal, Wait, Unsubscribe,
                      CloseQueue, OffDisconnect, OffWrite
  <2> QED BY <2>1, <2>2, <2>3
<1>6. CASE Writer(c) \/ Kick(c)
  BY <1>6 DEF Writer, Take, Handle, Offline, Ping, Gone, Kick
<1> QED
  BY <1>2, <1>3, <1>4, <1>5, <1>6 DEF Moves, Reader

(* How a CONNECT comes to hold a session. *)
LEMMA HoldsStep ==
  ASSUME TypeOK, LocalInv, SharedInv, NEW c \in Conns, Moves(c)
  PROVE  HoldsFrame(c)
<1> SUFFICES ASSUME ReaderType
             PROVE  /\ TakingOver(c)' => TakingOver(c) \/ DoDisconnect(c)
                    /\ pc'[c] = "disconnect" => pc[c] = "disconnect" \/ HandlesConnect(c)
                    /\ pc'[c] = "create" => pc[c] = "create" \/ HandlesConnect(c) \/ DoDisconnect(c)
                    /\ Adopting(c)' => Adopting(c) \/ DoDisconnect(c) \/ Create(c)
  BY NamedStep DEF TypeOK, HoldsFrame
<1> USE DEF TakingOver, Adopting, ReaderType
<1>1. \A out, then : Reply(c, out, then) => /\ loc'[c].then = then
                                            /\ pc'[c] \in {then, "flush"}
  BY ReplyAt
<1>2. CASE Packet(c)
  <2>1. CASE \E p \in Publishes[c] : Publish(c, p)
    <3>1. PICK p \in Publishes[c] : Publish(c, p)
      BY <2>1
    <3>2. loc'[c].then \in {"match", "retain"} /\ pc'[c] \in {"match", "retain", "flush"} /\ at' = at
      BY <3>1 DEF Publish, Go, Then, LocalType
    <3> QED BY <3>2
  <2>2. CASE \E t \in Subscribes[c] : Subscribe(c, t)
    BY <2>2 DEF Subscribe, Go
  <2>3. CASE \E t \in Unsubscribes[c] : UnSubscribe(c, t)
    BY <1>1, <2>3 DEF UnSubscribe, Go
  <2>4. CASE Acknowledge(c)
    BY <1>1, <2>4 DEF Acknowledge
  <2>5. CASE Disconnect(c) \/ Drop(c)
    BY <2>5 DEF Disconnect, Drop, Step, Go
  <2>6. CASE HandlesConnect(c)
    <3>1. at' = at /\ pc'[c] \in {"check", "flush", "create", "disconnect"}
                  /\ (pc'[c] = "flush" => loc'[c].then = "check")
      BY <1>1, <2>6 DEF HandlesConnect, Connect, Go
    <3> QED BY <2>6, <3>1
  <2> QED BY <1>2, <2>1, <2>2, <2>3, <2>4, <2>5, <2>6 DEF Packet, HandlesConnect
<1>3. CASE Flush(c) \/ Check(c)
  BY <1>1, <1>3 DEF Flush, Check, Go, LocalInv, ReaderAt
<1>4. CASE Connecting(c)
  <2>1. CASE Finish(c)
    BY <1>1, <2>1 DEF Finish
  <2>2. CASE Replay(c)
    <3>1. pc[c] = "replay" /\ at' = at /\ pc'[c] \in {"hookDisconnect", "flush"}
      BY <1>1, <2>2 DEF Replay
    <3> QED BY <3>1
  <2>3. CASE DoDisconnect(c)
    <3>1. pc'[c] # "disconnect"
      BY <2>3 DEF DoDisconnect, AfterDisconnect, Adopt, Go
    <3> QED BY <2>3, <3>1
  <2>4. CASE Create(c)
    BY <2>4 DEF Create, Adopt, Go
  <2>5. CASE HookDisconnect(c) \/ HookWrite(c)
    BY <2>5 DEF HookDisconnect, HookWrite, Step, Go
  <2> QED BY <1>4, <2>1, <2>2, <2>3, <2>4, <2>5 DEF Connecting
<1>5. CASE Subscribing(c)
  BY <1>1, <1>5 DEF Subscribing, Insert, AddTopic, FetchRetained, RemoveTopic, Step, Go
<1>6. CASE Publishing(c)
  BY <1>6, ZenonT(30) DEF Publishing, Retain, Match, Deliver, Write, Send, Rest, Step, Go
<1>7. CASE Closing(c)
  <2>1. CASE Closed(c)
    BY <2>1, OwnClose DEF Closed, Go
  <2>2. CASE ~Closed(c)
    BY <1>7, <2>2 DEF Closing, Unhook, Forget, Close, Cleanup, Drain, Push, Mark, Signal, Wait,
                      Unsubscribe, CloseQueue, OffDisconnect, OffWrite, Step, Go
  <2> QED BY <2>1, <2>2
<1>8. CASE Writer(c) \/ Kick(c)
  BY <1>8 DEF Writer, Take, Handle, Offline, Ping, Gone, Kick
<1> QED
  BY <1>2, <1>3, <1>4, <1>5, <1>6, <1>7, <1>8 DEF Moves, Reader

(* A CONNECT holds what it held, or what the table gave it. *)
LEMMA ClaimStep ==
  ASSUME TypeOK, Inv, NEW c \in Conns, Moves(c), ~Create(c), NEW d \in Conns, NEW x \in Conns, Claims(d, x)'
  PROVE  \/ Claims(d, x) /\ loc'[d].client = loc[d].client
         \/ loc'[d].client \in Clients /\ group[loc'[d].client] = x
<1>1. ReaderType /\ LocalInv /\ SharedInv /\ ConnType
  BY DEF TypeOK, Inv
<1>2. OnlyReader(c) /\ HoldsFrame(c) /\ SessionFrame(c)
  BY <1>1, StepIsLocal, HoldsStep, SessionStep DEF Moves
<1>3. CASE d # c
  <2>1. pc'[d] = pc[d] /\ at'[d] = at[d] /\ loc'[d] = loc[d]
    BY <1>2, <1>3 DEF OnlyReader
  <2>2. Session(d)' = Session(d)
    BY <1>2, <1>3, AdoptedStep DEF SessionFrame, OwnersKept, Session
  <2> QED BY <2>1, <2>2 DEF Claims, TakingOver, Adopting
<1>4. CASE d = c
  <2>1. pc[c] \notin {"read", "check"} => NamedKept(c)
    BY <1>2 DEF HoldsFrame, Check, HandlesConnect, Connect, Reading
  <2>2. CASE HandlesConnect(c) /\ pc'[c] = "disconnect"
    <3>1. PICK p \in Connects[c], ok \in AuthResults : Connect(c, p, ok)
      BY <2>2 DEF HandlesConnect
    <3>2. /\ loc'[c].client = p.client /\ loc'[c].old = Get(p.client) /\ at'[c] = None
      <4>1. /\ at' = at /\ pc[c] = "read" /\ ~(conn[c].connected)
            /\ ok
        BY <1>1, <2>2, <3>1 DEF Connect, Reading, Go, Reply, Then, ReaderType
      <4>2. loc'[c] = [loc[c] EXCEPT !.client = p.client, !.clean = p.clean, !.will = p.will,
                                     !.old = Get(p.client)]
        BY <1>1, <3>1, <4>1 DEF Connect, ReaderType
      <4>3. loc[c] \in LocalType
        BY <1>1 DEF ReaderType
      <4> QED BY <1>1, <4>1, <4>2, <4>3 DEF LocalType, LocalInv, ReaderAt, BodyLabels, CloseLabels
    <3>3. p.client \in Clients
      BY ConBrokerAssumption DEF ConBrokerAssumption, ConnectPacket
    <3> QED BY <1>4, <2>2, <3>2, <3>3, NoneApart DEF Claims, TakingOver, Adopting, Get
  <2>3. CASE pc[c] = "disconnect" \/ TakingOver(c)
    <3>1. NamedKept(c)
      BY <1>1, <2>1, <2>3 DEF TakingOver, LocalInv, ReaderAt, BodyLabels, CloseLabels
    <3>2. loc[c].old = x
      <4>1. CASE (pc'[c] = "disconnect" \/ TakingOver(c)') /\ loc'[c].old = x
        BY <3>1, <4>1 DEF NamedKept
      <4>2. CASE Adopting(c)' /\ Session(c)' = x
        <5>1. ~Adopting(c) /\ DoDisconnect(c)
          BY <1>1, <1>2, <2>3, <4>2 DEF HoldsFrame, Adopting, TakingOver, LocalInv, ReaderAt,
                                        BodyLabels, CloseLabels
        <5> QED BY <4>2, <5>1, AdoptedStep, NoneApart
      <4> QED BY <1>4, <4>1, <4>2 DEF Claims
    <3> QED BY <1>4, <2>3, <3>1, <3>2 DEF Claims, NamedKept
  <2>4. CASE Adopting(c)
    <3>1. NamedKept(c) /\ ~DoDisconnect(c) /\ ~OffWrite(c)
      BY <2>1, <2>4 DEF Adopting, DoDisconnect, OffWrite, Step
    <3>2. Session(c)' = Session(c)
      BY <1>2, <3>1 DEF SessionFrame, OwnersKept, Session
    <3>3. pc'[c] # "disconnect" /\ ~TakingOver(c)'
      BY <1>1, <1>2, <2>4, <3>1 DEF HoldsFrame, Adopting, TakingOver, HandlesConnect, Connect, Reading,
                                    LocalInv, ReaderAt, BodyLabels, CloseLabels
    <3> QED BY <1>4, <2>4, <3>1, <3>2, <3>3 DEF Claims, NamedKept
  <2> QED BY <1>2, <1>4, <2>2, <2>3, <2>4 DEF Claims, HoldsFrame, DoDisconnect
<1> QED BY <1>3, <1>4

(* No step but the creation of a session gives a session another name. *)
LEMMA KnownStep ==
  ASSUME TypeOK, Inv, NEW c \in Conns, Moves(c), ~Create(c), NEW x \in Conns, NEW i \in Clients, Known(x, i)'
  PROVE  Known(x, i)
<1>1. ReaderType /\ LocalInv /\ SharedInv /\ ConnType /\ SessionType(Item)
  BY DEF TypeOK, Inv
<1>2. SessionFrame(c)
  BY <1>1, SessionStep
<1>3. CASE sess'[x].clientid = i
  <2>1. CASE NamesKept
    BY <1>3, <2>1 DEF NamesKept, Known
  <2>2. CASE Finish(c)
    <3>1. sess'[x].clientid = IF x = Session(c) THEN loc[c].client ELSE sess[x].clientid
      BY <1>1, <2>2 DEF Finish, WithClientID, SessionType, SessionRecord
    <3>2. Claims(c, Session(c))
      BY <2>2 DEF Claims, Finish, Adopting
    <3> QED BY <1>3, <3>1, <3>2 DEF Known
  <2> QED BY <1>2, <2>1, <2>2 DEF SessionFrame
<1>4. CASE group'[i] = x
  BY <1>2, <1>4, NoneApart DEF SessionFrame, GroupKept, Known
<1>5. CASE \E d \in Conns : Claims(d, x)' /\ loc'[d].client = i
  <2>1. PICK d \in Conns : Claims(d, x)' /\ loc'[d].client = i
    BY <1>5
  <2>2. \/ Claims(d, x) /\ loc'[d].client = loc[d].client
        \/ loc'[d].client \in Clients /\ group[loc'[d].client] = x
    BY <2>1, ClaimStep
  <2> QED BY <2>1, <2>2 DEF Known
<1> QED BY <1>3, <1>4, <1>5 DEF Known

(* Nobody knows a session before it is created. *)
LEMMA CreatedKnown ==
  ASSUME TypeOK, Inv, NEW c \in Conns, Create(c), NEW x \in Conns, NEW i \in Clients, Known(x, i)'
  PROVE  IF x = c THEN i = loc[c].client ELSE Known(x, i)
<1>1. ReaderType /\ LocalInv /\ SharedInv /\ ConnType /\ SessionType(Item)
  BY DEF TypeOK, Inv
<1>2. Session(c) = None /\ ~Born(c)
  BY Homeless DEF Born
<1>3. /\ sess'[c].clientid = None /\ \A y \in Conns \ {c} : sess'[y] = sess[y]
      /\ group' = [group EXCEPT ![loc[c].client] = c]
  BY <1>1 DEF Create, New, NewSession, SessionType
<1>4. \A y \in Conns \ {c} : /\ pc'[y] = pc[y] /\ at'[y] = at[y] /\ loc'[y] = loc[y]
                            /\ Session(y)' = Session(y)
  BY <1>1, StepIsLocal, AdoptedStep DEF OnlyReader, Reader, Connecting
<1>5. /\ Session(c)' = c /\ loc' = loc /\ pc'[c] # "disconnect" /\ ~TakingOver(c)'
  <2>1. loc' = loc /\ at' = at /\ pc[c] = "create" /\ pc'[c] # "disconnect"
    BY <1>1 DEF Create, Adopt, Go, ReaderType
  <2> QED BY <1>1, <2>1, AdoptedStep DEF LocalInv, ReaderAt, TakingOver, BodyLabels, CloseLabels
<1>6. CASE x = c
  <2>1. group[i] # c
    BY <1>1, <1>2, NoneApart DEF SharedInv, BornInv
  <2>2. \A d \in Conns \ {c} : loc[d].old # c /\ Session(d) # c
    BY <1>1, <1>2, NoneApart DEF SharedInv, BornInv
  <2>3. \A d \in Conns \ {c} : ~Claims(d, c)'
    BY <1>4, <2>2 DEF Claims
  <2>4. group'[i] = c => i = loc[c].client
    BY <1>1, <1>3, <2>1 DEF SessionType
  <2> QED BY <1>3, <1>5, <1>6, <2>3, <2>4, NoneApart DEF Known
<1>7. CASE x # c
  <2>1. group'[i] = x => group[i] = x
    BY <1>1, <1>3, <1>7 DEF SessionType
  <2>2. \A d \in Conns : Claims(d, x)' => d # c /\ Claims(d, x)
    BY <1>4, <1>5, <1>7 DEF Claims, TakingOver, Adopting
  <2> QED BY <1>3, <1>4, <1>7, <2>1, <2>2 DEF Known
<1> QED BY <1>6, <1>7

(* Every step leaves a session one name at most. *)
LEMMA NameStep ==
  ASSUME TypeOK, Inv, NameInv, NEW c \in Conns, Moves(c)
  PROVE  NameInv'
<1>1. ReaderType /\ LocalInv /\ SharedInv /\ ConnType /\ SessionType(Item)
  BY DEF TypeOK, Inv
<1>2. OnlyReader(c) /\ HoldsFrame(c) /\ SessionFrame(c)
  BY <1>1, StepIsLocal, HoldsStep, SessionStep DEF Moves
<1>3. ASSUME NEW x \in Conns, NEW i \in Clients, NEW j \in Clients, Known(x, i)', Known(x, j)'
      PROVE  i = j
  <2>1. CASE Create(c)
    <3>1. IF x = c THEN i = loc[c].client ELSE Known(x, i)
      BY <1>3, <2>1, CreatedKnown
    <3>2. IF x = c THEN j = loc[c].client ELSE Known(x, j)
      BY <1>3, <2>1, CreatedKnown
    <3> QED BY <3>1, <3>2 DEF NameInv
  <2>2. CASE ~Create(c)
    <3>1. Known(x, i)
      BY <1>3, <2>2, KnownStep
    <3>2. Known(x, j)
      BY <1>3, <2>2, KnownStep
    <3> QED BY <3>1, <3>2 DEF NameInv
  <2> QED BY <2>1, <2>2
<1>4. ASSUME NEW d \in Conns,
             pc'[d] \in {"disconnect", "create"} \/ TakingOver(d)' \/ Adopting(d)'
      PROVE  loc'[d].client \in Clients
  <2>1. CASE d # c
    BY <1>2, <1>4, <2>1 DEF OnlyReader, TakingOver, Adopting, NameInv
  <2>2. CASE d = c /\ HandlesConnect(c)
    <3>1. PICK p \in Connects[c], ok \in AuthResults : Connect(c, p, ok)
      BY <2>2 DEF HandlesConnect
    <3>2. pc'[c] \in {"disconnect", "create"}
      <4>1. at' = at /\ pc[c] = "read"
        BY <3>1 DEF Connect, Reading
      <4>2. ~TakingOver(c)'
        BY <1>1, <4>1 DEF TakingOver, LocalInv, ReaderAt, BodyLabels, CloseLabels
      <4>3. ~Adopting(c)'
        BY <1>2, <4>1 DEF HoldsFrame, Adopting, DoDisconnect, Create
      <4> QED BY <1>4, <2>2, <4>2, <4>3
    <3>3. loc'[c] = [loc[c] EXCEPT !.client = p.client, !.clean = p.clean, !.will = p.will,
                                   !.old = Get(p.client)]
      BY <1>1, <3>1, <3>2 DEF Connect, Go, Reply, Then, ReaderType
    <3>4. loc'[c].client = p.client
      BY <1>1, <3>3 DEF ReaderType, LocalType
    <3> QED BY <2>2, <3>4, ConBrokerAssumption DEF ConBrokerAssumption, ConnectPacket
  <2>3. CASE d = c /\ ~HandlesConnect(c)
    <3>1. pc[c] \in {"disconnect", "create"} \/ TakingOver(c) \/ Adopting(c)
      BY <1>2, <1>4, <2>3 DEF HoldsFrame, DoDisconnect, Create
    <3>2. NamedKept(c)
      BY <1>1, <1>2, <2>3, <3>1 DEF HoldsFrame, Check, TakingOver, Adopting, LocalInv, ReaderAt,
                                    BodyLabels, CloseLabels
    <3> QED BY <2>3, <3>1, <3>2 DEF NamedKept, NameInv
  <2> QED BY <2>1, <2>2, <2>3
<1>5. ASSUME NEW d \in Conns, conn'[d].connected, Session(d)' # None
      PROVE  sess'[Session(d)'].clientid \in Clients
  <2>1. CASE Finish(c)
    <3>1. Session(d)' = Session(d) /\ Session(d) \in Conns
      BY <1>1, <1>2, <1>5, <2>1 DEF Finish, ConnType, Session
    <3>2. \A s \in Conns : sess'[s].clientid = IF s = Session(c) THEN loc[c].client ELSE sess[s].clientid
      BY <1>1, <2>1 DEF Finish, WithClientID, SessionType, SessionRecord
    <3>3. loc[c].client \in Clients
      BY <2>1 DEF NameInv, Finish, Adopting
    <3>4. d # c => conn[d].connected
      BY <1>1, <1>5, <2>1 DEF Finish, ConnType
    <3> QED BY <1>5, <3>1, <3>2, <3>3, <3>4 DEF NameInv
  <2>2. CASE ~Finish(c)
    <3>1. conn[d].connected
      BY <1>2, <1>5, <2>2 DEF SessionFrame, ConnectedKept
    <3>2. Session(d)' = Session(d)
      <4>1. DoDisconnect(c) \/ Create(c) => d # c
        BY <3>1, Homeless
      <4> QED BY <1>2, <1>5, <4>1, AdoptedStep DEF SessionFrame, OwnersKept, Session
    <3>3. Session(d) \in Conns
      BY <1>1, <1>5, <3>2 DEF ConnType, Session
    <3>4. sess'[Session(d)].clientid = sess[Session(d)].clientid
      <4>1. CASE Create(c)
        <5>1. Session(d) # c
          BY <1>1, <3>3, <4>1, Homeless, NoneApart DEF SharedInv, BornInv, Born
        <5> QED BY <1>1, <3>3, <4>1, <5>1 DEF Create, New, SessionType
      <4>2. CASE NamesKept
        BY <3>3, <4>2 DEF NamesKept
      <4> QED BY <1>2, <2>2, <4>1, <4>2 DEF SessionFrame
    <3> QED BY <1>5, <3>1, <3>2, <3>4 DEF NameInv
  <2> QED BY <2>1, <2>2
<1> QED BY <1>3, <1>4, <1>5 DEF NameInv

-----------------------------------------------------------------------------
(* The tree and the tables. *)

(* A connection with a session keeps it, under its name, until the end of its
   Close. *)
LEMMA NameKeeps ==
  ASSUME TypeOK, Inv, NameInv, NEW c \in Conns, Moves(c), NEW d \in Conns, conn[d].connected,
         Session(d) # None
  PROVE  \/ Session(d)' = Session(d) /\ sess'[Session(d)].clientid = sess[Session(d)].clientid
         \/ d = c /\ OffWrite(c)
<1>1. LocalInv /\ SharedInv /\ ConnType /\ SessionType(Item) /\ Session(d) \in Conns
  BY DEF TypeOK, Inv, ConnType, Session
<1>2. SessionFrame(c)
  BY <1>1, SessionStep
<1>3. DoDisconnect(c) \/ Create(c) => d # c
  BY Homeless
<1>4. Session(d)' = Session(d) \/ (d = c /\ OffWrite(c))
  BY <1>2, <1>3, AdoptedStep DEF SessionFrame, OwnersKept, Session
<1>5. sess'[Session(d)].clientid = sess[Session(d)].clientid
  <2>1. CASE NamesKept
    BY <1>1, <2>1 DEF NamesKept
  <2>2. CASE Create(c)
    <3>1. Session(d) # c
      BY <1>1, <2>2, Homeless, NoneApart DEF SharedInv, BornInv, Born
    <3> QED BY <1>1, <2>2, <3>1 DEF Create, New, SessionType
  <2>3. CASE Finish(c)
    <3>1. sess'[Session(d)].clientid = IF Session(d) = Session(c) THEN loc[c].client
                                                                  ELSE sess[Session(d)].clientid
      BY <1>1, <2>3 DEF Finish, WithClientID, SessionType, SessionRecord
    <3>2. ASSUME Session(d) = Session(c)
          PROVE  loc[c].client = sess[Session(d)].clientid
      <4>1. loc[c].client \in Clients /\ sess[Session(d)].clientid \in Clients
        BY <2>3 DEF NameInv, Finish, Adopting
      <4>2. Known(Session(d), loc[c].client) /\ Known(Session(d), sess[Session(d)].clientid)
        BY <2>3, <3>2 DEF Known, Claims, Finish, Adopting
      <4> QED BY <1>1, <4>1, <4>2 DEF NameInv
    <3> QED BY <3>1, <3>2
  <2> QED BY <1>2, <2>1, <2>2, <2>3 DEF SessionFrame
<1> QED BY <1>4, <1>5

(* How a reader comes to take a filter off its table, and goes on. *)
RemovesFrame(c) ==
  /\ pc[c] = "read" /\ pc'[c] = "removeTopics" => \E t \in Unsubscribes[c] : UnSubscribe(c, t)
  /\ pc[c] = "removeTopics" => RemoveTopic(c) \/ (pc'[c] = "removeTopics" /\ loc'[c] = loc[c])

(* What a step does while a connection removes its topics. *)
LEMMA RemovesStep ==
  ASSUME TypeOK, NEW c \in Conns, Moves(c)
  PROVE  RemovesFrame(c)
<1> SUFFICES ASSUME ReaderType PROVE RemovesFrame(c)
  BY DEF TypeOK
<1> USE DEF RemovesFrame, ReaderType
<1>1. CASE Packet(c) /\ ~\E t \in Unsubscribes[c] : UnSubscribe(c, t)
  BY <1>1 DEF Packet, Connect, Publish, Subscribe, Acknowledge, Disconnect, Drop,
              Reading, Step, Go, Reply, Then
<1>2. CASE \E t \in Unsubscribes[c] : UnSubscribe(c, t)
  BY <1>2 DEF UnSubscribe, Reading
<1>3. CASE Flush(c) \/ Check(c) \/ Connecting(c)
  BY <1>3 DEF Flush, Check, Connecting, DoDisconnect, Create, Replay, HookDisconnect, HookWrite,
              Finish, Step
<1>4. CASE Subscribing(c) \/ Publishing(c)
  <2>1. CASE RemoveTopic(c)
    BY <2>1 DEF RemoveTopic
  <2>2. CASE Insert(c) \/ AddTopic(c) \/ FetchRetained(c)
    BY <2>2 DEF Insert, AddTopic, FetchRetained, Step
  <2>3. CASE Publishing(c)
    BY <2>3 DEF Publishing, Retain, Match, Deliver, Write, Send, Step
  <2> QED BY <1>4, <2>1, <2>2, <2>3 DEF Subscribing
<1>5. CASE Closing(c)
  BY <1>5 DEF Closing, Unhook, Forget, Close, Closed, Cleanup, Drain, Push, Mark, Signal, Wait,
              Unsubscribe, CloseQueue, OffDisconnect, OffWrite, Step
<1>6. CASE Writer(c) \/ Kick(c)
  BY <1>6 DEF Writer, Take, Handle, Offline, Ping, Gone, Kick
<1> QED
  BY <1>1, <1>2, <1>3, <1>4, <1>5, <1>6 DEF Moves, Reader

(* What is in the tree is in its connection's table, under the name of its
   session. *)
LEMMA ListedStep ==
  ASSUME TypeOK, Inv, CloseInv, TableInv, NameInv, NEW c \in Conns, Moves(c), NEW s \in tree'
  PROVE  /\ s.topic \in conn'[s.conn].subscription
         /\ Session(s.conn)' # None
         /\ s.client = sess'[Session(s.conn)'].clientid
<1>1. LocalInv /\ SharedInv /\ ConnType /\ TopicType
  BY DEF TypeOK, Inv
<1>2. TableFrame(c)
  BY TableStep
<1>3. CASE s \in tree
  <2>1. /\ s.conn \in Conns /\ s.topic \in conn[s.conn].subscription
        /\ Session(s.conn) # None /\ s.client = sess[Session(s.conn)].clientid
    BY <1>1, <1>3 DEF TopicType, Subscription, TableInv
  <2>2. conn[s.conn].connected
    BY <1>1, <2>1 DEF SharedInv, ConnInv
  <2>3. ~(s.conn = c /\ OffWrite(c))
    BY <1>1, <1>3, OwnClose DEF CloseInv, OffWrite, Step, Unsubscribed
  <2>4. Session(s.conn)' = Session(s.conn) /\ sess'[Session(s.conn)].clientid = s.client
    BY <2>1, <2>2, <2>3, NameKeeps
  <2>5. s.topic \in conn'[s.conn].subscription
    <3>1. CASE \A d \in Conns : conn'[d].subscription = conn[d].subscription
      BY <2>1, <3>1
    <3>2. CASE \E t \in Subscribes[c] : Subscribe(c, t)
      BY <1>1, <2>1, <3>2 DEF Subscribe, Without, ConnType
    <3>3. CASE Insert(c)
      BY <1>1, <2>1, <3>3 DEF Insert, ConnType
    <3>4. CASE RemoveTopic(c)
      BY <1>1, <1>3, <2>1, <3>4 DEF RemoveTopic, ConnType, TableInv
    <3>5. CASE (\E t \in Unsubscribes[c] : UnSubscribe(c, t)) \/ Unsubscribe(c)
      BY <2>1, <3>5 DEF UnSubscribe, Unsubscribe
    <3> QED BY <1>2, <3>1, <3>2, <3>3, <3>4, <3>5 DEF TableFrame
  <2> QED BY <2>1, <2>4, <2>5
<1>4. CASE s \notin tree
  <2>1. Insert(c) /\ s = Sub(c, loc[c].topic) /\ loc[c].topic \notin Malformed
    BY <1>4, TreeGrows DEF Insert
  <2>2. Session(c) # None
    <3>1. pc[c] = "insert"
      BY <2>1 DEF Insert
    <3> QED BY <1>1, <3>1, HasSession, NoneApart DEF SharedInv, SubscribeLabels
  <2>3. /\ conn'[c].subscription = conn[c].subscription \cup {loc[c].topic}
        /\ Session(c)' = Session(c) /\ sess' = sess
    BY <1>1, <2>1 DEF Insert, ConnType, Session, sessionVars
  <2> QED BY <2>1, <2>2, <2>3 DEF Sub
<1> QED BY <1>3, <1>4

(* What a reader takes off its table is out of the tree. *)
LEMMA RemovedStep ==
  ASSUME TypeOK, Inv, TableInv, NEW c \in Conns, Moves(c), NEW d \in Conns, pc'[d] = "removeTopics",
         NEW s \in tree'
  PROVE  ~(s.conn = d /\ s.topic = loc'[d].topic)
<1>1. LocalInv /\ ReaderType
  BY DEF TypeOK, Inv
<1>2. OnlyReader(c) /\ PlaceFrame(c) /\ RemovesFrame(c)
  BY <1>1, StepIsLocal, PlaceStep, RemovesStep DEF Moves
<1>3. CASE d # c
  BY <1>2, <1>3, TreeGrows DEF OnlyReader, TableInv, Sub
<1>4. CASE d = c /\ pc[c] = "removeTopics"
  <2>1. ~Insert(c)
    BY <1>4 DEF Insert
  <2> QED BY <1>2, <1>4, <2>1, TreeGrows DEF PlaceFrame, TableInv
<1>5. CASE d = c /\ pc[c] = "read"
  <2>1. PICK t \in Unsubscribes[c] : UnSubscribe(c, t)
    BY <1>2, <1>5 DEF RemovesFrame
  <2>2. t \in conn[c].subscription
    <3> SUFFICES ASSUME t \notin conn[c].subscription PROVE FALSE
      OBVIOUS
    <3>1. pc'[c] \in {"check", "flush"}
      BY <1>1, <2>1 DEF UnSubscribe, Reply, Then, Go, ReaderType
    <3> QED BY <1>5, <3>1
  <2>3. tree' = Without(c, t) /\ loc' = [loc EXCEPT ![c].topic = t]
    BY <2>1, <2>2 DEF UnSubscribe
  <2>4. loc'[c].topic = t
    BY <1>1, <2>3 DEF ReaderType, LocalType
  <2> QED BY <1>5, <2>3, <2>4 DEF Without
<1> QED BY <1>2, <1>3, <1>4, <1>5 DEF PlaceFrame

(* What is in a table is in the tree, unless a handler is taking it off or the
   connection is being closed. *)
LEMMA KeptInTree ==
  ASSUME TypeOK, Inv, CloseInv, KeepsInv, TableInv, NameInv, NEW c \in Conns, Moves(c),
         NEW d \in Conns, once'[d] = "no", NEW t \in conn'[d].subscription
  PROVE  Sub(d, t)' \in tree' \/ (pc'[d] = "removeTopics" /\ t = loc'[d].topic)
<1>1. LocalInv /\ SharedInv /\ ReaderType /\ ConnType
  BY DEF TypeOK, Inv
<1>2. OnlyReader(c) /\ TableFrame(c) /\ RemovesFrame(c) /\ OnceFrame(c)
  BY <1>1, StepIsLocal, TableStep, RemovesStep, OnceStep DEF Moves
<1>3. once[d] = "no"
  BY <1>1, <1>2 DEF OnceFrame, Close, CloseQueue, OffWrite, ConnType
<1>4. CASE Insert(c) /\ loc[c].topic \notin Malformed
  <2>1. Sub(d, t)' = Sub(d, t)
    BY <1>1, <1>4 DEF Insert, Sub, Session, ConnType, sessionVars
  <2>2. pc[c] = "insert" /\ tree' = tree \cup {Sub(c, loc[c].topic)}
    BY <1>4 DEF Insert
  <2>3. t \in conn[d].subscription \/ (d = c /\ t = loc[c].topic)
    BY <1>1, <1>4 DEF Insert, ConnType
  <2> QED BY <1>2, <1>3, <2>1, <2>2, <2>3 DEF TableInv, OnlyReader
<1>5. CASE ~(Insert(c) /\ loc[c].topic \notin Malformed)
  <2>0. Insert(c) => tree' = tree /\ conn' = conn
    BY <1>5 DEF Insert
  <2>1. t \in conn[d].subscription
    <3>1. CASE \E u \in Subscribes[c] : Subscribe(c, u)
      BY <1>1, <3>1 DEF Subscribe, ConnType
    <3>2. CASE RemoveTopic(c)
      BY <1>1, <3>2 DEF RemoveTopic, ConnType
    <3>3. CASE (\E u \in Unsubscribes[c] : UnSubscribe(c, u)) \/ Unsubscribe(c)
      BY <3>3 DEF UnSubscribe, Unsubscribe
    <3> QED BY <1>2, <2>0, <3>1, <3>2, <3>3 DEF TableFrame
  <2>2. Sub(d, t)' = Sub(d, t)
    <3>1. conn[d].connected
      BY <1>1, <2>1 DEF SharedInv, ConnInv
    <3>2. Session(d) # None
      BY <1>3, <3>1 DEF KeepsInv
    <3>3. ~(d = c /\ OffWrite(c))
      BY <1>1, <1>3, OwnClose, NoneApart DEF CloseInv, InBody, OffWrite, Step
    <3> QED BY <3>1, <3>2, <3>3, NameKeeps DEF Sub
  <2>3. CASE pc[d] = "removeTopics" /\ t = loc[d].topic
    <3>1. ~(d = c /\ RemoveTopic(c))
      BY <1>1, <2>3 DEF RemoveTopic, ConnType
    <3> QED BY <1>2, <2>3, <3>1 DEF OnlyReader, RemovesFrame
  <2>4. CASE Sub(d, t) \in tree
    <3>1. CASE tree' = tree
      BY <2>2, <2>4, <3>1
    <3>2. CASE \E u \in Subscribes[c] : Subscribe(c, u)
      BY <1>1, <2>2, <2>4, <3>2 DEF Subscribe, Without, Sub, ConnType
    <3>3. ASSUME NEW u \in Unsubscribes[c], UnSubscribe(c, u), u \in conn[c].subscription
          PROVE  Sub(d, t)' \in tree' \/ (pc'[d] = "removeTopics" /\ t = loc'[d].topic)
      <4>1. tree' = Without(c, u) /\ pc'[c] = "removeTopics" /\ loc' = [loc EXCEPT ![c].topic = u]
        BY <1>1, <3>3 DEF UnSubscribe, Go, ReaderType
      <4>2. loc'[c].topic = u
        BY <1>1, <4>1 DEF ReaderType, LocalType
      <4> QED BY <2>2, <2>4, <4>1, <4>2 DEF Without, Sub
    <3>4. ASSUME NEW u \in Unsubscribes[c], UnSubscribe(c, u), u \notin conn[c].subscription
          PROVE  tree' = tree
      BY <3>4 DEF UnSubscribe
    <3>5. CASE Unsubscribe(c)
      <4>1. once[at[c]] = "busy"
        BY <1>1, <3>5, NoneApart DEF Unsubscribe, CloseInv, InBody, LocalInv, ReaderAt, CloseLabels
      <4>2. d # at[c]
        BY <1>3, <4>1
      <4> QED BY <2>2, <2>4, <3>5, <4>2 DEF Unsubscribe, Without, Sub
    <3>6. RemoveTopic(c) => tree' = tree
      BY DEF RemoveTopic, topicVars
    <3> QED BY <1>2, <2>0, <3>1, <3>2, <3>3, <3>4, <3>5, <3>6 DEF TableFrame
  <2> QED BY <1>3, <2>1, <2>3, <2>4 DEF TableInv
<1> QED BY <1>4, <1>5

(* Every step keeps the tree and the tables of the connections together. *)
LEMMA TableInvStep ==
  ASSUME TypeOK, Inv, CloseInv, KeepsInv, TableInv, NameInv, NEW c \in Conns, Moves(c)
  PROVE  TableInv'
<1>1. \A s \in tree' : /\ s.topic \in conn'[s.conn].subscription
                       /\ Session(s.conn)' # None
                       /\ s.client = sess'[Session(s.conn)'].clientid
  BY ListedStep
<1>2. \A d \in Conns : pc'[d] = "removeTopics" =>
        \A s \in tree' : ~(s.conn = d /\ s.topic = loc'[d].topic)
  BY RemovedStep
<1>3. \A d \in Conns : once'[d] = "no" => \A t \in conn'[d].subscription :
        Sub(d, t)' \in tree' \/ (pc'[d] = "removeTopics" /\ t = loc'[d].topic)
  BY KeptInTree
<1> QED BY <1>1, <1>2, <1>3 DEF TableInv, Session

-----------------------------------------------------------------------------
(* The invariant. *)
LEMMA InitEnd == Init => EndInv
<1> SUFFICES ASSUME Init PROVE EndInv
  OBVIOUS
<1>1. CloseInv /\ KeepsInv
  BY DEF Init, CloseInv, InBody, Unsubscribed, KeepsInv
<1>2. WriteHookInv
  BY NoneApart DEF Init, SessionInit, NewSession, WriteHookInv
<1>3. TableInv /\ ClosedLeavesNothing
  BY DEF Init, TableInv, ClosedLeavesNothing
<1>4. \A c, x \in Conns : ~Claims(c, x)
  BY DEF Init, Claims, TakingOver, Adopting
<1>5. \A x \in Conns, i \in Clients : ~Known(x, i)
  BY <1>4, NoneApart DEF Init, SessionInit, NewSession, Known
<1>6. \A c \in Conns : /\ pc[c] \notin {"disconnect", "create"} /\ ~TakingOver(c) /\ ~Adopting(c)
                       /\ ~conn[c].connected
  BY DEF Init, TakingOver, Adopting
<1> QED BY <1>1, <1>2, <1>3, <1>5, <1>6 DEF EndInv, NameInv

(* Every step keeps the inductive invariant. *)
LEMMA EndInvStep ==
  ASSUME TypeOK, Inv, EndInv, [Next]_vars
  PROVE  EndInv'
<1>1. TypeOK' /\ Inv'
  BY InvStep
<1>2. CASE Next
  <2>1. PICK c \in Conns : Moves(c)
    BY <1>2 DEF Next, Moves
  <2>2. CloseInv' /\ TableInv' /\ KeepsInv' /\ NameInv'
    BY <2>1, CloseInvStep, TableInvStep, KeepsStep, NameStep DEF EndInv
  <2>3. WriteHookInv'
    BY <2>1, WriteHookStep DEF EndInv
  <2>4. ClosedLeavesNothing'
    BY <1>1, <2>1, <2>3, ClosedStepNothing DEF EndInv
  <2> QED BY <2>2, <2>3, <2>4 DEF EndInv
<1>3. CASE UNCHANGED vars
  <2> USE <1>3 DEF vars, topicVars, queueVars, writerVars, ghostVars, sessionVars
  <2>1. CloseInv' /\ WriteHookInv' /\ KeepsInv'
    BY DEF EndInv, CloseInv, InBody, WriteHookInv, KeepsInv, Session
  <2>2. TableInv'
    BY DEF EndInv, TableInv, Session, Sub
  <2>3. NameInv'
    BY DEF EndInv, NameInv, Known, Claims, TakingOver, Adopting, Session
  <2>4. ClosedLeavesNothing'
    BY DEF EndInv, ClosedLeavesNothing, Session
  <2> QED BY <2>1, <2>2, <2>3, <2>4 DEF EndInv
<1> QED BY <1>2, <1>3

(* The part of the inductive invariant that speaks of the end of a connection,
   of its table and of the names of sessions (onConnect, onSubscribe, Close). *)
THEOREM EndInvariant == Spec => [](TypeOK /\ Inv /\ EndInv)
<1>1. Init => TypeOK /\ Inv /\ EndInv
  BY InitType, InitInv, InitEnd DEF Inv
<1>2. TypeOK /\ Inv /\ EndInv /\ [Next]_vars => (TypeOK /\ Inv /\ EndInv)'
  BY InvStep, EndInvStep
<1> QED
  BY <1>1, <1>2, PTL DEF Spec

(* A connection whose Close is done has left nothing behind, whoever closed it:
   no goroutine, no subscription in the tree, no hook of a session, and a queue
   that is closed for good (Close). *)
THEOREM NothingIsLeft == Spec => []ClosedLeavesNothing
  BY EndInvariant, PTL DEF EndInv

(* Between two packets, while nobody closes the connection, the tree and its
   table say the same, under the name of its session, however often it has
   been subscribed and unsubscribed and whoever else shares the session. *)
THEOREM TreeAgrees == Spec => []SubscriptionsAgree
<1>1. TypeOK /\ EndInv => SubscriptionsAgree
  <2> SUFFICES ASSUME TopicType, TableInv, NEW c \in Conns, pc[c] \in {"read", "check"}, once[c] = "no"
               PROVE  {s \in tree : s.conn = c} = {Sub(c, t) : t \in conn[c].subscription}
    BY DEF TypeOK, EndInv, SubscriptionsAgree
  <2>1. \A t \in conn[c].subscription : Sub(c, t) \in tree
    BY DEF TableInv
  <2>2. ASSUME NEW s \in tree, s.conn = c
        PROVE  s.topic \in conn[c].subscription /\ s = Sub(c, s.topic)
    <3>1. s.topic \in conn[c].subscription /\ s.client = sess[Session(c)].clientid
      BY <2>2 DEF TableInv
    <3>2. s = [conn |-> s.conn, topic |-> s.topic, client |-> s.client]
      BY DEF TopicType, Subscription
    <3> QED BY <2>2, <3>1, <3>2 DEF Sub
  <2> QED BY <2>1, <2>2 DEF Sub
<1> QED
  BY <1>1, EndInvariant, PTL
=============================================================================
