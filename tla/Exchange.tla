------------------------------ MODULE Exchange ------------------------------
(***************************************************************************)
(* The acknowledged exchanges of one session (server/handler.go, the       *)
(* handlers of conBroker.go from onPublish to onPubcomp): the session's    *)
(* table (MessageTable), the packets on its connections (Codec), and the   *)
(* clients at their other end.                                             *)
(*                                                                         *)
(* A connection's writer registers a publication of QoS 1 or 2 and writes  *)
(* it; its reader parses what the client sends and runs the handler.  Two  *)
(* connections share a session when the second connects before the first   *)
(* has set its hook.  A publication is one object, shared by all its       *)
(* subscribers: its PacketIdentifier belongs to no session.                *)
(*                                                                         *)
(* From the client the broker gets a stream of bytes; towards the client a *)
(* packet stays whole, which WrittenRight justifies.  Publications arrive  *)
(* from anywhere, so their place between the queue's other packets is      *)
(* free.  What else the handlers do is module ConBroker.                   *)
(***************************************************************************)
EXTENDS MessageTable, Codec, FiniteSets

CONSTANTS
  Messages,  \* the publications that may be delivered to the session
  Content,   \* each one's packet; its identifier is set when it is sent
  Carries,   \* the publications each connection may get
  Shared,    \* those of them that other sessions are sent too
  Says,      \* the packets each client may send at once, besides its answers
  Granted,   \* the filters that the topics take
  Fresh,     \* the connections whose CONNACK is still to be written
  Kicks,     \* those whose keepalive timer may expire
  Breaks,    \* those whose socket may break
  MaxSaid,   \* bound: how often each client does so
  MaxTaken,  \* bound: publications for each connection
  MaxLen     \* Deploy.MessageSize

(* What clients send unasked.  With so many filters, the one that an UNSUBSCRIBE
   leaves in the stream has a path of less than 4096 bytes. *)
Sayable ==
  {p \in Publications : p.topic # <<>> /\ Fits(p)}
  \cup {p \in Connects \cup Subscribes : Fits(p)}
  \cup {p \in Unsubscribes : Fits(p) /\ (Overruns(p) => Len(p.filters) <= 4098)}
  \cup [type : NoBody]
  \cup [type : {"puback", "pubrec", "pubrel", "pubcomp"}, id : Words]

ASSUME ExchangeAssumption ==
  /\ MaxID \in Words /\ 1 \in Counts /\ Shared \subseteq Messages
  /\ Content \in [Messages -> {p \in Publications : p.qos > 0 /\ Fits(p)}]
  /\ Carries \in [Senders -> SUBSET Messages] /\ Says \in [Senders -> SUBSET Seq(Sayable)]
  /\ Fresh \subseteq Senders /\ Kicks \subseteq Senders /\ Breaks \subseteq Senders
  /\ MaxLen \in Nat
  /\ MaxSaid \in [Senders -> Nat] /\ MaxTaken \in [Senders -> Nat]

VARIABLES
  place,     \* writers: "idle", "register", "assign" or "write"
  message,   \* the publication a writer works on
  got,       \* the identifier RegisterMessage has returned for it
  ident,     \* PacketIdentifier of each publication
  queue,     \* the packets a reader has enqueued for its writer
  owed,      \* the identifier a reader has yet to unreference
  down,      \* packets written, and not yet read by the client
  up,        \* bytes from the client
  live,      \* the connection has not ended
  said, taken,
  meant,     \* history: the packets that "up" stands for
  derailed,  \* history: an UNSUBSCRIBE has left filters in the stream
  excused    \* history: identifiers that are no longer tracked, see Tracked

tableVars == <<id, hash, used, held, wrapped>>
writerVars == <<place, message, got, ident, taken>>
clientVars == <<up, said, meant>>
ghosts == <<derailed, excused>>
exchangeVars == <<tableVars, writerVars, queue, owed, down, clientVars, live, ghosts>>

Connack == [type |-> "connack", code |-> 0]
ExchangeInit ==
  /\ Init
  /\ place = [w \in Senders |-> "idle"] /\ message = [w \in Senders |-> None]
  /\ got = [w \in Senders |-> None] /\ ident = [m \in Messages |-> 0]
  /\ queue = [w \in Senders |-> IF w \in Fresh THEN <<Connack>> ELSE <<>>]
  /\ owed = [w \in Senders |-> None]
  /\ down = [w \in Senders |-> <<>>] /\ up = [w \in Senders |-> <<>>]
  /\ live = [w \in Senders |-> TRUE]
  /\ said = [w \in Senders |-> 0] /\ taken = [w \in Senders |-> 0]
  /\ meant = [w \in Senders |-> <<>>]
  /\ derailed = [w \in Senders |-> FALSE] /\ excused = {}

-----------------------------------------------------------------------------
(* The writer. *)
Writing(w, from, to) == place[w] = from /\ place' = [place EXCEPT ![w] = to]

(* It goes on when the connection has ended: Close marks the state later, and
   that of a persistent session's connection never (module ConBroker). *)
Take(w, m) ==
  /\ taken[w] < MaxTaken[w]
  /\ Writing(w, "idle", "register")
  /\ NewID(w)
  /\ message' = [message EXCEPT ![w] = m]
  /\ taken' = [taken EXCEPT ![w] = @ + 1]
  /\ UNCHANGED <<got, ident, queue, owed, down, clientVars, live, ghosts>>

(* The rest of RegisterMessage: the publication gets the identifier, then the
   table its entry, with one reference. *)
References == 1
RegisterMessage(w) ==
  /\ Writing(w, "register", "assign")
  /\ got' = [got EXCEPT ![w] = held[w]]
  /\ ident' = [ident EXCEPT ![message[w]] = held[w]]
  /\ Register(w, References)
  /\ UNCHANGED <<message, taken, queue, owed, down, clientVars, live, ghosts>>

Assigned(w) == [ident EXCEPT ![message[w]] = got[w]]
Assign(w) ==
  /\ Writing(w, "assign", "write")
  /\ ident' = Assigned(w)
  /\ UNCHANGED <<tableVars, message, got, taken, queue, owed, down, clientVars, live, ghosts>>

(* A packet whose connection has ended goes nowhere. *)
Sent(w, p) == IF live[w] THEN [down EXCEPT ![w] = Append(@, p)] ELSE down

(* The identifier that is written is read from the publication: another writer
   may have changed it. *)
OnTheWire(w) == [Content[message[w]] EXCEPT !.id = ident[message[w]]]
WritePublish(w) ==
  /\ Writing(w, "write", "idle")
  /\ down' = Sent(w, OnTheWire(w))
  /\ message' = [message EXCEPT ![w] = None] /\ got' = [got EXCEPT ![w] = None]
  /\ excused' = excused \cup
       (IF ~live[w] THEN {got[w]}
        ELSE IF ident[message[w]] # got[w] THEN {got[w], ident[message[w]]} ELSE {})
  /\ UNCHANGED <<tableVars, ident, taken, queue, owed, clientVars, live, derailed>>

Enqueue(w, packets) == queue' = [queue EXCEPT ![w] = @ \o packets]
WriteOwn(w) ==
  /\ Writing(w, "idle", "idle") /\ queue[w] # <<>>
  /\ queue' = [queue EXCEPT ![w] = Tail(@)]
  /\ down' = Sent(w, Head(queue[w]))
  /\ UNCHANGED <<tableVars, message, got, ident, taken, owed, clientVars, live, ghosts>>

(* Kicker and Ping: the timer's PINGREQ goes to the writer's own queue.  The
   timer starts again with every packet that is read or written; bound: it
   expires on an idle connection that has not ended. *)
Ping(w) ==
  /\ w \in Kicks /\ live[w] /\ Writing(w, "idle", "idle")
  /\ queue[w] = <<>> /\ down[w] = <<>> /\ up[w] = <<>>
  /\ Enqueue(w, <<Bare("pingreq")>>)
  /\ UNCHANGED <<tableVars, message, got, ident, taken, owed, down, clientVars, live, ghosts>>

(* A writer of another session registers a publication there, under an
   identifier of that session's, which may be any.  Only while a writer here
   works on it does it make a difference. *)
Elsewhere(m) ==
  /\ \E w \in Senders : message[w] = m /\ place[w] \in {"assign", "write"}
  /\ \E i \in Ids \ {MaxID} : ident' = [ident EXCEPT ![m] = i]
  /\ UNCHANGED <<tableVars, place, message, got, taken, queue, owed, down, clientVars, live, ghosts>>

-----------------------------------------------------------------------------
(* The reader: ParseMessage and its handlers. *)
UnRefMessage(i) ==
  IF i \in Ids /\ hash[i] # None THEN Unref(i) ELSE UNCHANGED tableVars

(* A filter's code in the SUBACK: the QoS asked for, or QosFailure for one that
   the topics refuse. *)
Code(f) == IF f.qos \in 0 .. 2 /\ f.path \in Granted THEN f.qos ELSE 128

(* What a handler answers with; an UNSUBSCRIBE is answered with a SUBACK as well.
   The connections are connected: another CONNECT, like a PINGREQ, does nothing. *)
Answer(p) ==
  CASE p.type = "publish" /\ p.qos = 1 -> <<Ack("puback", p.id)>>
    [] p.type = "publish" /\ p.qos = 2 -> <<Ack("pubrec", p.id)>>
    [] p.type = "pubrec" -> <<Ack("pubrel", p.id)>>
    [] p.type = "pubrel" -> <<Ack("pubcomp", p.id)>>
    [] p.type = "subscribe" -> <<Suback(p.id, [i \in DOMAIN p.filters |-> Code(p.filters[i])])>>
    [] p.type = "unsubscribe" -> <<Suback(p.id, <<>>)>>
    [] OTHER -> <<>>
ToBroker == {"puback", "pubrec", "pubcomp"}
Completing == {"puback", "pubcomp"}
Ends(p) == p.type \in {"refused", "disconnect"}

(* Where identifiers of the broker's are under way on a connection: on the wire
   to the client, with a PUBREL that waits for the writer, on the wire back. *)
To(w) == {n \in DOMAIN down[w] : down[w][n].type \in {"publish", "pubrel"}}
Waiting(w) == {n \in DOMAIN queue[w] : queue[w][n].type = "pubrel"}
Back(w) == {n \in DOMAIN meant[w] : meant[w][n].type \in ToBroker}
UnderWay(w) ==
  {down[w][n].id : n \in To(w)} \cup {queue[w][n].id : n \in Waiting(w)}
    \cup {meant[w][n].id : n \in Back(w)}

(* The connection ends: what is under way on it is lost. *)
End(w) ==
  /\ live' = [live EXCEPT ![w] = FALSE]
  /\ up' = [up EXCEPT ![w] = <<>>] /\ meant' = [meant EXCEPT ![w] = <<>>]
  /\ down' = [down EXCEPT ![w] = <<>>] /\ queue' = [queue EXCEPT ![w] = <<>>]
  /\ excused' = excused \cup UnderWay(w)

Receive(w) ==
  /\ up[w] # <<>> /\ owed[w] = None
  /\ LET r == Parse(up[w], MaxLen)
         p == r.packet
     IN IF Ends(p) THEN End(w) /\ UNCHANGED <<tableVars, owed, derailed>>
        ELSE /\ Enqueue(w, Answer(p))
             /\ IF p.type \in Completing THEN UnRefMessage(p.id) ELSE UNCHANGED tableVars
             /\ owed' = [owed EXCEPT ![w] = IF p.type = "pubrel" THEN p.id ELSE None]
             /\ up' = [up EXCEPT ![w] = r.rest] /\ meant' = [meant EXCEPT ![w] = Tail(@)]
             /\ derailed' = [derailed EXCEPT ![w] = Overruns(Head(meant[w]))]
             /\ UNCHANGED <<down, live, excused>>
  /\ UNCHANGED <<writerVars, said>>

(* The second half of onPubrel.  The identifier is the client's own; the entry
   that is given back under it, if there is one, is of a publication to it. *)
Settle(w) ==
  /\ owed[w] # None
  /\ owed' = [owed EXCEPT ![w] = None]
  /\ UnRefMessage(owed[w])
  /\ excused' = excused \cup (IF owed[w] \in Ids /\ hash[owed[w]] # None THEN {owed[w]} ELSE {})
  /\ UNCHANGED <<writerVars, queue, down, clientVars, live, derailed>>

(* The socket breaks, or the client closes it because it cannot read the PINGREQ
   it has got: that has no length. *)
Unread(w) == down[w] # <<>> /\ Head(down[w]) = Bare("pingreq")
Break(w) ==
  /\ live[w] /\ (w \in Breaks \/ Unread(w)) /\ End(w)
  /\ UNCHANGED <<tableVars, writerVars, owed, said, derailed>>

-----------------------------------------------------------------------------
(* The client, by the standard. *)
Say(w, packets) ==
  /\ up' = [up EXCEPT ![w] = @ \o Stream(packets)]
  /\ meant' = [meant EXCEPT ![w] = @ \o packets]

Respond(w) ==
  /\ down[w] # <<>> /\ ~Unread(w)
  /\ down' = [down EXCEPT ![w] = Tail(@)]
  /\ LET p == Head(down[w]) IN Say(w,
       CASE p.type = "publish" -> <<Ack(IF p.qos = 1 THEN "puback" ELSE "pubrec", p.id)>>
         [] p.type = "pubrec" -> <<Ack("pubrel", p.id)>>
         [] p.type = "pubrel" -> <<Ack("pubcomp", p.id)>>
         [] OTHER -> <<>>)
  /\ UNCHANGED <<tableVars, writerVars, queue, owed, live, said, ghosts>>

(* An acknowledgement of what it has not been sent, or not yet, may take the
   entry of a publication under way. *)
Unasked(packets) ==
  {packets[n].id : n \in {k \in DOMAIN packets : packets[k].type \in ToBroker}}
ClientSays(w, packets) ==
  /\ live[w] /\ said[w] < MaxSaid[w]
  /\ said' = [said EXCEPT ![w] = @ + 1]
  /\ Say(w, packets)
  /\ excused' = excused \cup Unasked(packets)
  /\ UNCHANGED <<tableVars, writerVars, queue, owed, down, live, derailed>>

-----------------------------------------------------------------------------
Writer(w) == RegisterMessage(w) \/ Assign(w) \/ WritePublish(w) \/ WriteOwn(w) \/ Ping(w)
Reader(w) == Receive(w) \/ Settle(w)

ExchangeNext ==
  \/ \E w \in Senders :
       \/ Writer(w) \/ Reader(w) \/ Break(w) \/ Respond(w)
       \/ \E m \in Carries[w] : Take(w, m)
       \/ \E packets \in Says[w] : ClientSays(w, packets)
  \/ \E m \in Shared : Elsewhere(m)

ExchangeSpec == ExchangeInit /\ [][ExchangeNext]_exchangeVars

-----------------------------------------------------------------------------
(* The reader sees the packets the client has sent, each one whole and in
   order, a packet above the size limit or with a length of four digits as an
   error.  There are two exceptions: an UNSUBSCRIBE of many short filters, after
   which a filter it has left in the stream reads as an error, and the payload
   of a PUBLISH with an identifier and a topic of the greatest length (Parse and
   the decoders). *)
TooLong(p) == LET n == Len(Body(p, 16)) IN n >= 2097152 \/ (MaxLen > 0 /\ n > MaxLen)
InStep ==
  \A w \in Senders : up[w] # <<>> =>
    LET p == Parse(up[w], MaxLen).packet IN
      IF derailed[w] THEN p = Refused
      ELSE LET q == Head(meant[w]) IN
             IF TooLong(q) THEN p = Refused
             ELSE \/ p = q \/ Overruns(q)
                  \/ Wraps(q) /\ p = [q EXCEPT !.payload = p.payload]

(* What the broker writes is what the standard lets a server send, in the
   standard's bytes (WriteTo, the handlers).  Three packets are not: the timer's
   PINGREQ, a client's packet, which also lacks its length; the SUBACK without a
   code that answers an UNSUBSCRIBE; and a publication under the identifier 0,
   which is NewID's answer when the next one is taken.  That one takes a counter
   that has restarted: this session's or, for a shared publication, another's. *)
Lawful(p) ==
  CASE p.type = "publish" -> p.qos > 0 => p.id # 0
    [] p.type = "suback" -> p.codes # <<>> /\ Sq!ToSet(p.codes) \subseteq {0, 1, 2, 128}
    [] OTHER -> p.type \in {"connack", "puback", "pubrec", "pubrel", "pubcomp"}
UnderZero(p) == wrapped \/ \E m \in Shared : p = [Content[m] EXCEPT !.id = 0]
Excepted(p) ==
  CASE p.type = "publish" -> UnderZero(p)
    [] p.type = "suback" -> p.codes = <<>>
    [] OTHER -> p.type = "pingreq"
WrittenRight ==
  \A w \in Senders : \A i \in DOMAIN down[w] :
    LET p == down[w][i] IN
      /\ Lawful(p) \/ Excepted(p)
      /\ p.type # "pingreq" => WriteTo(p) = Standard(p)

(* An identifier is on its way once exactly as long as it has an entry: from the
   writer that has registered it, over the wire, to the client's last answer.
   So two publications the client has not completed never have the same
   identifier, an entry is given back only for the answer that completes it, and
   none stays behind.  Not tracked any more is an identifier that the client has
   used for a PUBLISH of its own and released (onPubrel), one it has acknowledged
   without having been asked, one of a publication whose PacketIdentifier another
   session's writer, or another connection's, has overwritten (HandleConnection),
   and one that a connection's end has cut off.  Nor is 0, NewID's answer when the next identifier is taken. *)
Flights(i) ==
  {<<"hand", w, 0>> : w \in {v \in Senders : got[v] = i}}
  \cup UNION {{<<"to", w, n>> : n \in {k \in To(w) : down[w][k].id = i}}
             \cup {<<"waiting", w, n>> : n \in {k \in Waiting(w) : queue[w][k].id = i}}
             \cup {<<"back", w, n>> : n \in {k \in Back(w) : meant[w][k].id = i}} : w \in Senders}
Tracked ==
  \A i \in Ids \ (excused \cup {0}) :
    Cardinality(Flights(i)) = (IF hash[i] = None THEN 0 ELSE 1)
=============================================================================
