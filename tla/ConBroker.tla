----------------------------- MODULE ConBroker -----------------------------
(***************************************************************************)
(* The connections of the broker (server/conBroker.go, server/handler.go)  *)
(* and what they share: the sessions (module Sessions), the subscriptions  *)
(* and the retained messages.                                              *)
(*                                                                         *)
(* A connection has two goroutines.  The reader parses packets, runs their *)
(* handlers and, in the end, Close; "pc" is where it is, and "at" is the   *)
(* connection whose Close it runs, which is another one's when DoDisconnect*)
(* calls its Terminate.  The writer takes messages from the connection's   *)
(* queue; "wpc" is where it is.  A step is the code between two points     *)
(* where another goroutine can see or change what it works on: a channel   *)
(* operation, a critical section, a wait.                                  *)
(*                                                                         *)
(* Abstracted: topics match exactly; SUBSCRIBE and UNSUBSCRIBE carry one   *)
(* filter; packet identifiers and acknowledgements change no state here.   *)
(* PUBACK, PUBCOMP and PINGRESP, whose handlers only count, are left out.  *)
(***************************************************************************)
EXTENDS Sessions, FiniteSets

CONSTANTS
  QueueSize,     \* Deploy.MessageQueueSize
  Connects,      \* the CONNECT packets each client may send
  Publishes,     \* the PUBLISH packets each client may send
  Subscribes,    \* the filters each client may subscribe to
  Unsubscribes,  \* the filters each client may unsubscribe from
  Malformed,     \* the filters that Topics.Subscribe refuses
  Leaves,        \* how each client may leave: "disconnect", "drop"
  AuthResults,   \* what Auth.Connect may answer: TRUE (accepted), FALSE
  Retransmits,   \* the clients that send PUBREC and PUBREL
  MaxPackets,    \* bound: packets from each client
  MaxKicks       \* bound: expiries of each connection's timer

ConnectPacket == [client : Clients, clean : BOOLEAN, will : Topics \cup {None}]
PublishPacket == [topic : Topics, qos : 0 .. 2, retain : {"no", "keep", "clear"}]

ASSUME ConBrokerAssumption ==
  /\ QueueSize \in Nat \ {0}
  /\ Connects \in [Conns -> SUBSET ConnectPacket]
  /\ Publishes \in [Conns -> SUBSET PublishPacket]
  /\ Subscribes \in [Conns -> SUBSET Topics]
  /\ Unsubscribes \in [Conns -> SUBSET Topics] /\ Malformed \subseteq Topics
  /\ Leaves \in [Conns -> SUBSET {"disconnect", "drop"}]
  /\ AuthResults \subseteq BOOLEAN
  /\ Retransmits \subseteq Conns
  /\ MaxPackets \in [Conns -> Nat] /\ MaxKicks \in [Conns -> Nat]

VARIABLES
  pc, at, loc,            \* readers: place, connection being closed, locals
  wpc, hand,              \* writers: place, message taken from the queue
  broken,                 \* _writer has failed: a bufio.Writer fails for good
  conn,                   \* fields of ConBroker
  once,                   \* _once: "no", "busy" or "done"
  queue, open,            \* _queue, and that it is not closed
  tree, retained,         \* Topics: subscriptions, retained messages
  panicked,               \* the process has died of a panic
  wire,                   \* history: the PUBLISH packets written to the socket
  willed, bye,            \* history: wills published; DISCONNECT honoured
  accepted,               \* history: messages a session took and still owes to its
                          \* client, [session, src, n]
  sent, kicks             \* packets received, timer expiries

topicVars == <<tree, retained>>
queueVars == <<queue, open>>
writerVars == <<wpc, hand, broken, wire, kicks>>
ghostVars == <<willed, bye, accepted>>
vars == <<pc, at, loc, sent, conn, once, panicked,
          topicVars, queueVars, writerVars, ghostVars, sessionVars>>

(* A message, by its origin: the n-th packet of a client, as a live delivery,
   an offline replay or a retained message; a will; or a packet of the
   broker's own. *)
Item == [kind : {"live", "replay", "retained", "will", "connack", "suback", "ack", "pingreq"},
         src : Conns, n : Nat]
ASSUME ItemAssumption == None \notin Item
Own(kind, c) == [kind |-> kind, src |-> c, n |-> 0]
IsPublish(m) == m.kind \in {"live", "replay", "retained", "will"}
As(kind, s) == [i \in DOMAIN s |-> IF IsPublish(s[i]) THEN [s[i] EXCEPT !.kind = kind] ELSE s[i]]

Subscription == [conn : Conns, topic : Topics, client : Clients \cup {None}]

(* The reader's locals: the packet's fields, the session found for a CONNECT
   (old), and for a delivery the subscriptions left (todo), the session being
   written (cur) and the message; then what the handler has yet to write to
   the connection's own queue (out) and where it goes on (then). *)
Idle == [client |-> None, clean |-> FALSE, will |-> None, old |-> None,
         topic |-> None, retain |-> "no", todo |-> {}, cur |-> None,
         msg |-> None, out |-> <<>>, then |-> "check"]

Init ==
  /\ pc = [c \in Conns |-> "read"]
  /\ at = [c \in Conns |-> None]
  /\ loc = [c \in Conns |-> Idle]
  /\ wpc = [c \in Conns |-> "select"]
  /\ hand = [c \in Conns |-> None]
  /\ broken = [c \in Conns |-> FALSE]
  /\ conn = [c \in Conns |-> [state |-> "connected", connected |-> FALSE,
                              cleanSession |-> FALSE, will |-> None,
                              session |-> None, subscription |-> {}]]
  /\ once = [c \in Conns |-> "no"]
  /\ queue = [c \in Conns |-> <<>>]
  /\ open = [c \in Conns |-> TRUE]
  /\ tree = {} /\ retained = [t \in Topics |-> None]
  /\ panicked = FALSE
  /\ wire = [c \in Conns |-> <<>>]
  /\ willed = [c \in Conns |-> 0] /\ bye = [c \in Conns |-> FALSE] /\ accepted = {}
  /\ sent = [c \in Conns |-> 0] /\ kicks = [c \in Conns |-> 0]
  /\ SessionInit

-----------------------------------------------------------------------------
(* Steps of a reader. *)
Go(c, label) == pc' = [pc EXCEPT ![c] = label]
Step(c, from, to) == ~panicked /\ pc[c] = from /\ Go(c, to)
Reading(c) ==
  /\ ~panicked /\ pc[c] = "read" /\ sent[c] < MaxPackets[c]
  /\ sent' = [sent EXCEPT ![c] = @ + 1]
Session(c) == conn[c].session

(* The queue of a connection is a buffered channel. *)
EnqueueFront(q, m) == <<m>> \o q
Enqueue(q, m) == Append(q, m)
Room(c) == Len(queue[c]) < QueueSize

(* A handler ends by writing "out" to its own connection, and goes on. *)
Then(out, then) == IF out = <<>> THEN then ELSE "flush"
Reply(c, out, then) ==
  Go(c, Then(out, then)) /\ loc' = [loc EXCEPT ![c] = [@ EXCEPT !.out = out, !.then = then]]

Flush(c) ==
  /\ ~panicked /\ pc[c] = "flush"
  /\ IF ~open[c]
       THEN panicked' = TRUE /\ UNCHANGED <<pc, loc, queue>>
       ELSE /\ Room(c)
            /\ queue' = [queue EXCEPT ![c] = Enqueue(@, Head(loc[c].out))]
            /\ Reply(c, Tail(loc[c].out), loc[c].then)
            /\ UNCHANGED panicked
  /\ UNCHANGED <<at, sent, conn, once, open, topicVars, writerVars, ghostVars, sessionVars>>

(* The loop of the reader: after a handler it closes a closed connection. *)
Check(c) ==
  /\ ~panicked /\ pc[c] = "check"
  /\ loc' = [loc EXCEPT ![c] = Idle]
  /\ IF conn[c].state = "closed"
       THEN Go(c, "close") /\ at' = [at EXCEPT ![c] = c]
       ELSE Go(c, "read") /\ UNCHANGED at
  /\ UNCHANGED <<sent, conn, once, panicked, topicVars, queueVars, writerVars, ghostVars, sessionVars>>

(* A read error, or the read deadline. *)
Drop(c) ==
  /\ "drop" \in Leaves[c]
  /\ Step(c, "read", "close")
  /\ at' = [at EXCEPT ![c] = c]
  /\ UNCHANGED <<loc, sent, conn, once, panicked, topicVars, queueVars, writerVars, ghostVars, sessionVars>>

(* PUBREC and PUBREL are answered with PUBREL and PUBCOMP. *)
Acknowledge(c) ==
  /\ c \in Retransmits /\ Reading(c)
  /\ Reply(c, <<Own("ack", c)>>, "check")
  /\ UNCHANGED <<at, conn, once, panicked, topicVars, queueVars, writerVars, ghostVars, sessionVars>>

-----------------------------------------------------------------------------
(* onConnect. *)
Connect(c, packet, ok) ==
  /\ Reading(c)
  /\ IF conn[c].connected THEN Go(c, "check") /\ UNCHANGED loc
     ELSE IF ~ok THEN Reply(c, <<Own("connack", c)>>, "check")
     ELSE /\ loc' = [loc EXCEPT ![c] = [@ EXCEPT
                    !.client = packet.client, !.clean = packet.clean,
                    !.will = packet.will, !.old = Get(packet.client)]]
          /\ Go(c, IF Get(packet.client) = None THEN "create" ELSE "disconnect")
  /\ UNCHANGED <<at, conn, once, panicked, topicVars, queueVars, writerVars, ghostVars, sessionVars>>

(* The session goes to the connection: a new one to its hooks at once, a
   persistent one by way of the offline messages. *)
Adopt(c, s) ==
  /\ conn' = [conn EXCEPT ![c].session = s]
  /\ Go(c, IF loc[c].clean THEN "hookDisconnect" ELSE "replay")
AfterDisconnect(c) ==
  IF loc[c].clean THEN Go(c, "create") /\ UNCHANGED conn ELSE Adopt(c, loc[c].old)

(* DoDisconnect keeps the session's mutex while the old connection closes. *)
DoDisconnect(c) ==
  /\ ~panicked /\ pc[c] = "disconnect" /\ Free(loc[c].old)
  /\ LET o == sess[loc[c].old].onDisconnect IN
       IF o = None
         THEN AfterDisconnect(c) /\ UNCHANGED <<at, sessionVars>>
         ELSE /\ Acquire(loc[c].old, c)
              /\ at' = [at EXCEPT ![c] = o]
              /\ Go(c, "close") /\ UNCHANGED conn
  /\ UNCHANGED <<loc, sent, once, panicked, topicVars, queueVars, writerVars, ghostVars>>

Create(c) ==
  /\ ~panicked /\ pc[c] = "create"
  /\ New(c, loc[c].client)
  /\ Adopt(c, c)
  /\ UNCHANGED <<at, loc, sent, once, panicked, topicVars, queueVars, writerVars, ghostVars>>

Replay(c) ==
  /\ ~panicked /\ pc[c] = "replay"
  /\ Reply(c, As("replay", sess[Session(c)].offlineQueue), "hookDisconnect")
  /\ OfflineMessages(Session(c))
  /\ UNCHANGED <<at, sent, conn, once, panicked, topicVars, queueVars, writerVars, ghostVars>>

HookDisconnect(c) ==
  /\ Step(c, "hookDisconnect", "hookWrite")
  /\ WithOnDisconnect(Session(c), c)
  /\ UNCHANGED <<at, loc, sent, conn, once, panicked, topicVars, queueVars, writerVars, ghostVars>>

HookWrite(c) ==
  /\ Step(c, "hookWrite", "finish")
  /\ WithOnWrite(Session(c), c)
  /\ UNCHANGED <<at, loc, sent, conn, once, panicked, topicVars, queueVars, writerVars, ghostVars>>

(* The rest of onConnect, and the CONNACK of its deferred function. *)
WelcomeReplaying(c) == <<Own("connack", c)>> \o As("replay", sess[Session(c)].offlineQueue)
Welcome(c) == <<Own("connack", c)>>
Finish(c) ==
  /\ ~panicked /\ pc[c] = "finish"
  /\ WithClientID(Session(c), loc[c].client)
  /\ conn' = [conn EXCEPT ![c] = [@ EXCEPT
                !.cleanSession = loc[c].clean, !.will = loc[c].will, !.connected = TRUE]]
  /\ Reply(c, Welcome(c), "check")
  /\ UNCHANGED <<at, sent, once, panicked, topicVars, queueVars, writerVars, ghostVars>>

-----------------------------------------------------------------------------
(* onSubscribe: an old subscription to the filter goes first, then the new one
   enters the tree, the connection's table and the session.  It takes the
   session for granted: clients here SUBSCRIBE after their CONNECT only. The
   other handlers ask for no CONNECT and need none. *)
Sub(c, t) == [conn |-> c, topic |-> t, client |-> sess[Session(c)].clientid]
WithoutNothing(c, t) == tree
Without(c, t) == {s \in tree : ~(s.conn = c /\ s.topic = t)}

Subscribe(c, t) ==
  /\ Reading(c) /\ conn[c].connected
  /\ loc' = [loc EXCEPT ![c].topic = t]
  /\ Go(c, "insert")
  /\ IF t \in conn[c].subscription
       THEN /\ tree' = Without(c, t)
            /\ conn' = [conn EXCEPT ![c].subscription = @ \ {t}]
       ELSE UNCHANGED <<tree, conn>>
  /\ UNCHANGED <<at, once, panicked, retained, queueVars, writerVars, ghostVars, sessionVars>>

(* A refused filter gets QosFailure, and neither table nor session learns of it. *)
Insert(c) ==
  /\ ~panicked /\ pc[c] = "insert"
  /\ \/ /\ loc[c].topic \in Malformed
        /\ Reply(c, <<Own("suback", c)>>, "check")
        /\ UNCHANGED <<tree, conn>>
     \/ /\ loc[c].topic \notin Malformed
        /\ Go(c, "addTopics") /\ UNCHANGED loc
        /\ tree' = tree \cup {Sub(c, loc[c].topic)}
        /\ conn' = [conn EXCEPT ![c].subscription = @ \cup {loc[c].topic}]
  /\ UNCHANGED <<at, sent, once, panicked, retained, queueVars, writerVars, ghostVars, sessionVars>>

AddTopic(c) ==
  /\ Step(c, "addTopics", "fetch")
  /\ AddTopics(Session(c), loc[c].topic)
  /\ UNCHANGED <<at, loc, sent, conn, once, panicked, topicVars, queueVars, writerVars, ghostVars>>

(* A retained copy bears no number: no session owes it. *)
Retained(t) ==
  IF retained[t] = None THEN <<>> ELSE <<[retained[t] EXCEPT !.kind = "retained", !.n = 0]>>
FetchRetained(c) ==
  /\ ~panicked /\ pc[c] = "fetch"
  /\ Reply(c, <<Own("suback", c)>> \o Retained(loc[c].topic), "check")
  /\ UNCHANGED <<at, sent, conn, once, panicked, topicVars, queueVars, writerVars, ghostVars, sessionVars>>

(* onUnSubscribe: a filter the connection does not have is only answered. *)
UnSubscribe(c, t) ==
  /\ Reading(c)
  /\ IF t \in conn[c].subscription
       THEN /\ tree' = Without(c, t)
            /\ loc' = [loc EXCEPT ![c].topic = t]
            /\ Go(c, "removeTopics")
       ELSE Reply(c, <<Own("suback", c)>>, "check") /\ UNCHANGED tree
  /\ UNCHANGED <<at, conn, once, panicked, retained, queueVars, writerVars, ghostVars, sessionVars>>

RemoveTopic(c) ==
  /\ ~panicked /\ pc[c] = "removeTopics"
  /\ RemoveTopics(Session(c), loc[c].topic)
  /\ conn' = [conn EXCEPT ![c].subscription = @ \ {loc[c].topic}]
  /\ Reply(c, <<Own("suback", c)>>, "check")
  /\ UNCHANGED <<at, sent, once, panicked, topicVars, queueVars, writerVars, ghostVars>>

-----------------------------------------------------------------------------
(* onPublish: the PUBACK or PUBREC first, then procPublish. *)
Publish(c, packet) ==
  /\ Reading(c)
  /\ LET out == IF packet.qos > 0 THEN <<Own("ack", c)>> ELSE <<>>
          then == IF packet.retain = "no" THEN "match" ELSE "retain" IN
       /\ loc' = [loc EXCEPT ![c] = [@ EXCEPT
                     !.msg = [kind |-> "live", src |-> c, n |-> sent[c] + 1],
                     !.topic = packet.topic, !.retain = packet.retain,
                     !.out = out, !.then = then]]
       /\ Go(c, Then(out, then))
  /\ UNCHANGED <<at, conn, once, panicked, topicVars, queueVars, writerVars, ghostVars, sessionVars>>

(* Topics.Retain: an empty payload clears the topic; a malformed topic is refused. *)
Retain(c) ==
  /\ Step(c, "retain", "match")
  /\ retained' = IF loc[c].topic \in Malformed THEN retained
                 ELSE [retained EXCEPT ![loc[c].topic] =
                         IF loc[c].retain = "keep" THEN loc[c].msg ELSE None]
  /\ UNCHANGED <<at, loc, sent, conn, once, panicked, tree, queueVars, writerVars, ghostVars, sessionVars>>

(* Topics.Subscribers takes a snapshot; procPublish and SendPublishMessage go
   through it one by one, in the order the tree lists it (any order here). *)
RestButOne(c, todo) ==
  IF Cardinality(todo) > 1 THEN "deliver" ELSE IF at[c] = None THEN "check" ELSE "cleanup"
Rest(c, todo) == IF todo # {} THEN "deliver" ELSE IF at[c] = None THEN "check" ELSE "cleanup"
Match(c) ==
  /\ ~panicked /\ pc[c] = "match"
  /\ LET todo == {s \in tree : s.topic = loc[c].topic} IN
       loc' = [loc EXCEPT ![c].todo = todo] /\ Go(c, Rest(c, todo))
  /\ UNCHANGED <<at, sent, conn, once, panicked, topicVars, queueVars, writerVars, ghostVars, sessionVars>>

(* Sessions.Get: a subscription whose client has no session is skipped. *)
Deliver(c) ==
  /\ ~panicked /\ pc[c] = "deliver"
  /\ \E s \in loc[c].todo :
       /\ loc' = [loc EXCEPT ![c] = [@ EXCEPT !.todo = loc[c].todo \ {s}, !.cur = Get(s.client)]]
       /\ Go(c, IF Get(s.client) = None THEN Rest(c, loc[c].todo \ {s}) ELSE "write")
  /\ UNCHANGED <<at, sent, conn, once, panicked, topicVars, queueVars, writerVars, ghostVars, sessionVars>>

(* What a session owes: what it has taken, until the connection that has the
   session has written it or failed to, or a full offline queue refuses it. *)
Receipt(s, m) == [session |-> s, src |-> m.src, n |-> m.n]
Accept(c) ==
  /\ accepted' = accepted \cup {Receipt(loc[c].cur, loc[c].msg)}
  /\ UNCHANGED <<willed, bye>>
Pushing(s, m) ==
  /\ accepted' = accepted \ (IF Full(s) THEN {Receipt(s, m)} ELSE {})
  /\ UNCHANGED <<willed, bye>>

(* Session.WriteMessage: to the offline queue when no connection is hooked,
   else to the connection's queue, waiting there with the session's mutex. *)
Write(c) ==
  /\ ~panicked /\ pc[c] = "write"
  /\ IF sess[loc[c].cur].onWrite = None
       THEN /\ PushOfflineMessage(loc[c].cur, loc[c].msg)
            /\ IF Full(loc[c].cur) THEN UNCHANGED ghostVars ELSE Accept(c)
            /\ Go(c, Rest(c, loc[c].todo))
       ELSE Acquire(loc[c].cur, c) /\ Go(c, "send") /\ UNCHANGED ghostVars
  /\ UNCHANGED <<at, loc, sent, conn, once, panicked, topicVars, queueVars, writerVars>>

(* A send on a closed channel, also one that was already waiting, panics. *)
Send(c) ==
  /\ ~panicked /\ pc[c] = "send"
  /\ LET d == sess[loc[c].cur].onWrite IN
       IF ~open[d]
         THEN panicked' = TRUE /\ UNCHANGED <<pc, queue, sessionVars, ghostVars>>
         ELSE /\ Room(d)
              /\ queue' = [queue EXCEPT ![d] = Enqueue(@, loc[c].msg)]
              /\ Release(loc[c].cur) /\ Accept(c)
              /\ Go(c, Rest(c, loc[c].todo)) /\ UNCHANGED panicked
  /\ UNCHANGED <<at, loc, sent, conn, once, open, topicVars, writerVars>>

-----------------------------------------------------------------------------
(* onDisconnect: the hook and the will go, then Close. *)
Disconnect(c) ==
  /\ "disconnect" \in Leaves[c] /\ Reading(c)
  /\ IF Session(c) = None
       THEN Go(c, "close") /\ at' = [at EXCEPT ![c] = c]
       ELSE Go(c, "unhook") /\ UNCHANGED at
  /\ UNCHANGED <<loc, conn, once, panicked, topicVars, queueVars, writerVars, ghostVars, sessionVars>>

Unhook(c) ==
  /\ Step(c, "unhook", "forget")
  /\ WithOnDisconnect(Session(c), None)
  /\ UNCHANGED <<at, loc, sent, conn, once, panicked, topicVars, queueVars, writerVars, ghostVars>>

ForgottenNothing(c) == conn
Forgotten(c) == [conn EXCEPT ![c].will = None]
Forget(c) ==
  /\ Step(c, "forget", "close")
  /\ conn' = Forgotten(c)
  /\ bye' = [bye EXCEPT ![c] = TRUE]
  /\ at' = [at EXCEPT ![c] = c]
  /\ UNCHANGED <<loc, sent, once, panicked, willed, accepted, topicVars, queueVars, writerVars, sessionVars>>

-----------------------------------------------------------------------------
(* Close of connection at[c].  _once: the first caller runs the body, a later
   one waits until it has been run. *)
NotDone(o) == once[o] # "done"
Unclosed(o) == once[o] = "no"
Close(c) ==
  /\ ~panicked /\ pc[c] = "close" /\ Unclosed(at[c])
  /\ once' = [once EXCEPT ![at[c]] = "busy"]
  /\ LET w == conn[at[c]].will IN
       IF w = None
         THEN Go(c, "cleanup") /\ UNCHANGED <<loc, willed>>
         ELSE /\ loc' = [loc EXCEPT ![c] = [@ EXCEPT !.msg = Own("will", at[c]), !.topic = w]]
              /\ willed' = [willed EXCEPT ![at[c]] = @ + 1]
              /\ Go(c, "match")
  /\ UNCHANGED <<at, sent, conn, panicked, bye, accepted, topicVars, queueVars, writerVars, sessionVars>>

(* Back from Close: to the end of the reader, or to the DoDisconnect that
   called it, which gives the session's mutex back. *)
Closed(c) ==
  /\ ~panicked /\ pc[c] = "close" /\ once[at[c]] = "done"
  /\ at' = [at EXCEPT ![c] = None]
  /\ IF at[c] = c
       THEN Go(c, "exited") /\ UNCHANGED <<conn, sessionVars>>
       ELSE AfterDisconnect(c) /\ Release(loc[c].old)
  /\ UNCHANGED <<loc, sent, once, panicked, topicVars, queueVars, writerVars, ghostVars>>

PersistsAll(o) == TRUE
Persists(o) == ~conn[o].cleanSession
(* A clean session leaves the table by its client identifier; a connection
   with a persistent one goes on to the queue. *)
Cleanup(c) ==
  /\ ~panicked /\ pc[c] = "cleanup"
  /\ LET s == Session(at[c]) IN
       IF s = None THEN Go(c, "mark") /\ UNCHANGED sessionVars
       ELSE IF Persists(at[c]) THEN Go(c, "drain") /\ UNCHANGED sessionVars
       ELSE Go(c, "mark") /\ Remove(sess[s].clientid)
  /\ UNCHANGED <<at, loc, sent, conn, once, panicked, topicVars, queueVars, writerVars, ghostVars>>

(* The range over the queue ends only when the channel is closed, which no
   step before "closeQueue" of this very Close does. *)
KeptNone(m) == FALSE
Kept(m) == m.kind # "pingreq"
Drain(c) ==
  /\ ~panicked /\ pc[c] = "drain"
  /\ LET o == at[c] IN
       IF queue[o] = <<>>
         THEN ~open[o] /\ Go(c, "mark") /\ UNCHANGED <<loc, queue>>
         ELSE /\ queue' = [queue EXCEPT ![o] = Tail(@)]
              /\ IF Kept(Head(queue[o]))
                   THEN Go(c, "push") /\ loc' = [loc EXCEPT ![c].msg = Head(queue[o])]
                   ELSE UNCHANGED <<pc, loc>>
  /\ UNCHANGED <<at, sent, conn, once, open, panicked, topicVars, writerVars, ghostVars, sessionVars>>

Push(c) ==
  /\ Step(c, "push", "drain")
  /\ PushOfflineMessage(Session(at[c]), loc[c].msg)
  /\ Pushing(Session(at[c]), loc[c].msg)
  /\ UNCHANGED <<at, loc, sent, conn, once, panicked, topicVars, queueVars, writerVars>>

Mark(c) ==
  /\ Step(c, "mark", "signal")
  /\ conn' = [conn EXCEPT ![at[c]].state = "closed"]
  /\ UNCHANGED <<at, loc, sent, once, panicked, topicVars, queueVars, writerVars, ghostVars, sessionVars>>

(* _closed has no buffer: the closer waits for the writer's select. *)
Signal(c) ==
  /\ Step(c, "signal", "wait")
  /\ wpc[at[c]] = "select" /\ wpc' = [wpc EXCEPT ![at[c]] = "exit"]
  /\ UNCHANGED <<at, loc, sent, conn, once, panicked, hand, broken, wire, kicks,
                 topicVars, queueVars, ghostVars, sessionVars>>

NoWait(o) == TRUE
WriterGone(o) == wpc[o] = "gone"
Wait(c) ==
  /\ Step(c, "wait", "unsubscribe")
  /\ WriterGone(at[c])
  /\ UNCHANGED <<at, loc, sent, conn, once, panicked, topicVars, queueVars, writerVars, ghostVars, sessionVars>>

(* One critical section of the tree for each subscription of the table. *)
Unsubscribe(c) ==
  /\ ~panicked /\ pc[c] = "unsubscribe"
  /\ LET left == {t \in conn[at[c]].subscription : Without(at[c], t) # tree} IN
       IF left = {} THEN Go(c, "closeQueue") /\ UNCHANGED tree
       ELSE UNCHANGED pc /\ \E t \in left : tree' = Without(at[c], t)
  /\ UNCHANGED <<at, loc, sent, conn, once, panicked, retained, queueVars, writerVars, ghostVars, sessionVars>>

(* What the queue of a clean session still holds is lost with the session. *)
Discarded(o) ==
  IF conn[o].cleanSession THEN {Receipt(Session(o), queue[o][i]) : i \in DOMAIN queue[o]} ELSE {}
CloseQueue(c) ==
  /\ ~panicked /\ pc[c] = "closeQueue"
  /\ open' = [open EXCEPT ![at[c]] = FALSE]
  /\ accepted' = accepted \ Discarded(at[c]) /\ UNCHANGED <<willed, bye>>
  /\ IF Session(at[c]) = None
       THEN Go(c, "close") /\ once' = [once EXCEPT ![at[c]] = "done"]
       ELSE Go(c, "offDisconnect") /\ UNCHANGED once
  /\ UNCHANGED <<at, loc, sent, conn, queue, panicked, topicVars, writerVars, sessionVars>>

OffDisconnect(c) ==
  /\ Step(c, "offDisconnect", "offWrite")
  /\ WithOnDisconnect(Session(at[c]), None)
  /\ UNCHANGED <<at, loc, sent, conn, once, panicked, topicVars, queueVars, writerVars, ghostVars>>

OffWrite(c) ==
  /\ Step(c, "offWrite", "close")
  /\ WithOnWrite(Session(at[c]), None)
  /\ conn' = [conn EXCEPT ![at[c]].session = None]
  /\ once' = [once EXCEPT ![at[c]] = "done"]
  /\ UNCHANGED <<at, loc, sent, panicked, topicVars, queueVars, writerVars, ghostVars>>

-----------------------------------------------------------------------------
(* Steps of a writer. *)
WStep(c, from, to) == ~panicked /\ wpc[c] = from /\ wpc' = [wpc EXCEPT ![c] = to]

Take(c) ==
  /\ WStep(c, "select", "handle") /\ queue[c] # <<>>
  /\ hand' = [hand EXCEPT ![c] = Head(queue[c])]
  /\ queue' = [queue EXCEPT ![c] = Tail(@)]
  /\ UNCHANGED <<pc, at, loc, sent, conn, once, panicked, open, broken, wire, kicks,
                 topicVars, ghostVars, sessionVars>>

(* The state is read after the message has been taken.  A write fails once the
   peer may have gone; the error is logged and the message lost. *)
Writes(c) == IF broken[c] THEN {FALSE} ELSE IF Leaves[c] = {} THEN {TRUE} ELSE BOOLEAN
Handle(c) ==
  /\ IF conn[c].state = "closed" /\ Session(c) # None
       THEN WStep(c, "handle", "offline") /\ UNCHANGED hand
       ELSE WStep(c, "handle", "select") /\ hand' = [hand EXCEPT ![c] = None]
  /\ IF conn[c].state = "closed" THEN UNCHANGED <<broken, wire, accepted>>
     ELSE \E written \in Writes(c) :
            /\ broken' = [broken EXCEPT ![c] = ~written]
            /\ wire' = IF written /\ IsPublish(hand[c])
                         THEN [wire EXCEPT ![c] = Append(@, hand[c])] ELSE wire
            /\ accepted' = accepted \ {Receipt(Session(c), hand[c])}
  /\ UNCHANGED <<pc, at, loc, sent, conn, once, panicked, kicks, willed, bye,
                 topicVars, queueVars, sessionVars>>

Offline(c) ==
  /\ WStep(c, "offline", "select")
  /\ PushOfflineMessage(Session(c), hand[c])
  /\ Pushing(Session(c), hand[c])
  /\ hand' = [hand EXCEPT ![c] = None]
  /\ UNCHANGED <<pc, at, loc, sent, conn, once, panicked, broken, wire, kicks,
                 topicVars, queueVars>>

(* Kicker and Ping: an open connection's PINGREQ goes to its own queue. *)
Kick(c) ==
  /\ WStep(c, "select", IF conn[c].state = "closed" THEN "select" ELSE "ping")
  /\ kicks[c] < MaxKicks[c] /\ kicks' = [kicks EXCEPT ![c] = @ + 1]
  /\ UNCHANGED <<pc, at, loc, sent, conn, once, panicked, hand, broken, wire,
                 topicVars, queueVars, ghostVars, sessionVars>>

Ping(c) ==
  /\ WStep(c, "ping", "select") /\ Room(c)
  /\ queue' = [queue EXCEPT ![c] = Enqueue(@, Own("pingreq", c))]
  /\ UNCHANGED <<pc, at, loc, sent, conn, once, panicked, open, hand, broken, wire, kicks,
                 topicVars, ghostVars, sessionVars>>

Gone(c) ==
  /\ WStep(c, "exit", "gone")
  /\ UNCHANGED <<pc, at, loc, sent, conn, once, panicked, hand, broken, wire, kicks,
                 topicVars, queueVars, ghostVars, sessionVars>>

-----------------------------------------------------------------------------
(* What a client does: send a packet, or go. *)
Packet(c) ==
  \/ \E p \in Connects[c], ok \in AuthResults : Connect(c, p, ok)
  \/ \E p \in Publishes[c] : Publish(c, p)
  \/ \E t \in Subscribes[c] : Subscribe(c, t)
  \/ \E t \in Unsubscribes[c] : UnSubscribe(c, t)
  \/ Acknowledge(c) \/ Disconnect(c) \/ Drop(c)

Connecting(c) ==
  DoDisconnect(c) \/ Create(c) \/ Replay(c) \/ HookDisconnect(c) \/ HookWrite(c) \/ Finish(c)
Subscribing(c) == Insert(c) \/ AddTopic(c) \/ FetchRetained(c) \/ RemoveTopic(c)
Publishing(c) ==
  Retain(c) \/ Match(c) \/ Deliver(c) \/ Write(c) \/ Send(c)
Closing(c) ==
  \/ Unhook(c) \/ Forget(c) \/ Close(c) \/ Closed(c) \/ Cleanup(c) \/ Drain(c) \/ Push(c)
  \/ Mark(c) \/ Signal(c) \/ Wait(c) \/ Unsubscribe(c) \/ CloseQueue(c)
  \/ OffDisconnect(c) \/ OffWrite(c)

Reader(c) ==
  Flush(c) \/ Check(c) \/ Connecting(c) \/ Subscribing(c) \/ Publishing(c) \/ Closing(c)
Writer(c) == Take(c) \/ Handle(c) \/ Offline(c) \/ Ping(c) \/ Gone(c)

Next == \E c \in Conns : Packet(c) \/ Reader(c) \/ Writer(c) \/ Kick(c)

Spec == Init /\ [][Next]_vars

(* The goroutines are scheduled.  Weak fairness is enough: with the packets
   bounded, a mutex or a channel that a goroutine waits for is in the end free
   for good, or never again.  Clients and timers are free. *)
Fairness == \A c \in Conns : WF_vars(Reader(c)) /\ WF_vars(Writer(c))
FairSpec == Spec /\ Fairness

-----------------------------------------------------------------------------
Labels ==
  {"read", "check", "flush", "disconnect", "create", "replay", "hookDisconnect", "hookWrite",
   "finish", "insert", "addTopics", "fetch", "removeTopics", "retain", "match", "deliver",
   "write", "send", "unhook", "forget", "close", "cleanup", "drain", "push", "mark", "signal",
   "wait", "unsubscribe", "closeQueue", "offDisconnect", "offWrite", "exited"}

LocalType ==
  [client : Clients \cup {None}, clean : BOOLEAN, will : Topics \cup {None},
   old : Conns \cup {None}, topic : Topics \cup {None}, retain : {"no", "keep", "clear"},
   todo : SUBSET Subscription, cur : Conns \cup {None}, msg : Item \cup {None},
   out : Seq(Item), then : Labels]

ReaderType ==
  /\ pc \in [Conns -> Labels]
  /\ at \in [Conns -> Conns \cup {None}]
  /\ loc \in [Conns -> LocalType]
WriterType ==
  /\ wpc \in [Conns -> {"select", "handle", "offline", "ping", "exit", "gone"}]
  /\ hand \in [Conns -> Item \cup {None}] /\ broken \in [Conns -> BOOLEAN]
  /\ wire \in [Conns -> Seq(Item)]
ConnType ==
  /\ conn \in [Conns -> [state : {"connected", "closed"}, connected : BOOLEAN,
                         cleanSession : BOOLEAN, will : Topics \cup {None},
                         session : Conns \cup {None}, subscription : SUBSET Topics]]
  /\ once \in [Conns -> {"no", "busy", "done"}]
QueueType ==
  /\ queue \in [Conns -> Seq(Item)] /\ open \in [Conns -> BOOLEAN]
  /\ \A c \in Conns : Len(queue[c]) <= QueueSize
TopicType == tree \subseteq Subscription /\ retained \in [Topics -> Item \cup {None}]
HistoryType ==
  /\ willed \in [Conns -> Nat] /\ bye \in [Conns -> BOOLEAN]
  /\ accepted \subseteq [session : Conns \cup {None}, src : Conns, n : Nat]
  /\ sent \in [Conns -> Nat] /\ kicks \in [Conns -> Nat]

(* Every variable has its type, and no queue outgrows its configured size. *)
TypeOK ==
  /\ ReaderType /\ WriterType /\ ConnType /\ QueueType /\ TopicType /\ HistoryType
  /\ SessionType(Item) /\ panicked \in BOOLEAN

(* A connection's will is published at most once, whoever closes it, and never
   once its DISCONNECT has been handled (onDisconnect, Close, DoDisconnect). *)
WillDiscipline ==
  \A c \in Conns : willed[c] <= 1 /\ (bye[c] => willed[c] = 0)

(* A connection that has been closed is gone: its writer has ended, no
   subscription of its own is left in the tree, no session still calls it, and
   its queue takes nothing more (Close). *)
ClosedLeavesNothing ==
  \A c \in Conns : once[c] = "done" =>
    /\ wpc[c] = "gone" /\ ~open[c] /\ Session(c) = None
    /\ \A s \in tree : s.conn # c
    /\ \A s \in Conns : sess[s].onDisconnect # c /\ sess[s].onWrite # c

(* The PUBLISH packets a connection gets, in order: written, in the writer's
   hand, queued. *)
Trail(c) ==
  wire[c] \o (IF hand[c] = None \/ wpc[c] = "offline" THEN <<>> ELSE <<hand[c]>>) \o queue[c]

(* What was kept while the client was away comes before everything delivered
   live, and the live messages of one publisher arrive in the order it sent
   them (onConnect's replay before its hooks; Session.WriteMessage).  Nothing is
   said of two messages that were both kept: connections of one client that
   drain into one offline queue can swap them. *)
DeliveryOrder ==
  \A c \in Conns : LET q == Trail(c) IN
    \A i, j \in DOMAIN q : i < j =>
      /\ q[i].kind = "live" => q[j].kind # "replay"
      /\ q[i].kind = "live" /\ q[j].kind = "live" /\ q[i].src = q[j].src => q[i].n <= q[j].n

(* Between two packets, while nobody closes it, the tree holds for a connection
   exactly the subscriptions of its table, under the identifier of its session. *)
SubscriptionsAgree ==
  \A c \in Conns : pc[c] \in {"read", "check"} /\ once[c] = "no" =>
    {s \in tree : s.conn = c} = {Sub(c, t) : t \in conn[c].subscription}

(* Where a session's own messages are: in its offline queue, or with a
   connection that has the session: in its open queue, in its writer's hand, in
   the reader that replays them, or in the one that drains the queue. *)
Carried(c) ==
  {m \in {queue[c][i] : i \in DOMAIN queue[c]} : open[c]}
    \cup {loc[c].out[i] : i \in DOMAIN loc[c].out} \cup {hand[c]}
    \cup {loc[d].msg : d \in {e \in Conns : pc[e] = "push" /\ at[e] = c}}
Keeps(s) ==
  {sess[s].offlineQueue[i] : i \in DOMAIN sess[s].offlineQueue}
    \cup UNION {Carried(c) : c \in {d \in Conns : Session(d) = s}}

(* What a session has taken it keeps, until it is written to its client's
   socket: neither closing, taking over nor replaying loses it (WriteMessage,
   Close, onConnect).  Lost are only what a failed write had in hand, what a
   full offline queue refuses and what is queued for a clean session that
   ends.  (A message the session owes twice counts once; wills, which have no
   number, are left aside.) *)
AcceptedIsKept ==
  \A a \in accepted : a.n > 0 =>
    \E m \in Keeps(a.session) : m # None /\ m.src = a.src /\ m.n = a.n

-----------------------------------------------------------------------------
(* A packet that has been read is handled to the end: publishers, full queues
   and subscribers never wait for each other in a circle. *)
Progress == \A c \in Conns : (pc[c] # "read") ~> (pc[c] \in {"read", "exited"})

(* A publication another subscriber was matched with reaches its socket (shown
   for the last packet of each client), and whatever the sessions have taken is in
   the end all written: no message stays behind in a queue. *)
Reaches(p, c) ==
  (pc[p] = "deliver" /\ loc[p].msg.n = MaxPackets[p] /\ \E s \in loc[p].todo : s.conn = c)
    ~> (\E i \in DOMAIN wire[c] : wire[c][i].src = p /\ wire[c][i].n = MaxPackets[p])
AllDelivered ==
  /\ \A p, c \in Conns : p # c => Reaches(p, c)
  /\ (accepted # {}) ~> (accepted = {})

(* Close comes to its end (conBroker.go:503, "close the connector"), unless a
   panic ends the process first. *)
CloseCompletes == \A c \in Conns : (pc[c] = "close") ~> (pc[c] = "exited" \/ panicked)

(* session.go:99, "carry out the disconnect": DoDisconnect returns. *)
DisconnectReturns ==
  \A c \in Conns : (pc[c] = "disconnect")
                    ~> (pc[c] \in {"create", "replay", "hookDisconnect"})

(* conBroker.go:445, "send a ping to the client": Ping returns to the writer. *)
PingReturns == \A c \in Conns : (wpc[c] = "ping") ~> (wpc[c] # "ping")

(* conBroker.go:160, "write a message": WriteMessage puts the message into the
   queue or reports an error; it does not end the process. *)
NoPanic == ~panicked

(* group.go:17, "delete the given session": the session Close removes from the
   table is its own. *)
RemovesItsOwn ==
  [][\A c \in Conns : pc[c] = "cleanup" /\ pc'[c] = "mark" =>
        \A i \in Clients : group'[i] # group[i] => group[i] = Session(at[c])]_vars
=============================================================================
