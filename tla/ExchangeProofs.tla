--------------------------- MODULE ExchangeProofs ---------------------------
(***************************************************************************)
(* The exchanges of a session, for every set of connections, publications  *)
(* and packets.  Each step is one of the table of messages that wait for  *)
(* an acknowledgement, or leaves it alone, so what MessageTableProofs      *)
(* proves of the table holds of them.  The reader sees the packets the     *)
(* client has sent, because each is read whole (CodecProofs) and the       *)
(* stream stays the packets that are under way (WireOK).  A publication    *)
(* goes out under the identifier 0 only when a counter has restarted       *)
(* (ZeroOK).  And an identifier is under way once exactly as long as it    *)
(* has an entry, because it is at one of four spots (Followed).            *)
(***************************************************************************)
EXTENDS Exchange, MessageTableProofs, CodecProofs, FiniteSetTheorems

(* Giving a reference back is the table's step, or none. *)
LEMMA UnRefIsATableStep ==
  ASSUME NEW i, UnRefMessage(i)
  PROVE  [Next]_vars
<1>1. CASE i \in Ids /\ hash[i] # None
  <2>1. Unref(i)
    BY <1>1 DEF UnRefMessage
  <2> QED
    BY <1>1, <2>1 DEF Next
<1>2. CASE ~(i \in Ids /\ hash[i] # None)
  BY <1>2 DEF UnRefMessage, tableVars, vars
<1> QED
  BY <1>1, <1>2

(* Every step of a session's goroutines, of its clients and of the sockets is a
   step of the table, or leaves it alone. *)
LEMMA StepsOfTheTable ==
  ASSUME [ExchangeNext]_exchangeVars
  PROVE  [Next]_vars
<1>1. ASSUME NEW w \in Senders, NEW m \in Carries[w], Take(w, m)
      PROVE  Next
  BY <1>1 DEF Take, Next
<1>2. ASSUME NEW w \in Senders, RegisterMessage(w)
      PROVE  Next
  <2>1. Register(w, 1) /\ 1 \in Counts
    BY <1>2, ExchangeAssumption DEF RegisterMessage, References
  <2> QED
    BY <2>1 DEF Next
<1>3. ASSUME NEW w \in Senders, Receive(w)
      PROVE  [Next]_vars
  <2>1. CASE UNCHANGED tableVars
    BY <2>1 DEF tableVars, vars
  <2>2. CASE UnRefMessage(Parse(up[w], MaxLen).packet.id)
    BY <2>2, UnRefIsATableStep
  <2> QED
    BY <1>3, <2>1, <2>2 DEF Receive
<1>4. ASSUME NEW w \in Senders, Settle(w)
      PROVE  [Next]_vars
  <2>1. UnRefMessage(owed[w])
    BY <1>4 DEF Settle
  <2> QED
    BY <2>1, UnRefIsATableStep
<1>5. ASSUME NEW w \in Senders,
             Assign(w) \/ WritePublish(w) \/ WriteOwn(w) \/ Ping(w) \/ Break(w) \/ Respond(w)
               \/ \E packets \in Says[w] : ClientSays(w, packets)
      PROVE  UNCHANGED vars
  BY <1>5 DEF Assign, WritePublish, WriteOwn, Ping, Break, Respond, ClientSays, tableVars, vars
<1>6. ASSUME NEW m \in Shared, Elsewhere(m)
      PROVE  UNCHANGED vars
  BY <1>6 DEF Elsewhere, tableVars, vars
<1>7. CASE UNCHANGED exchangeVars
  BY <1>7 DEF exchangeVars, tableVars, vars
<1>8. CASE ExchangeNext
  BY <1>8, <1>1, <1>2, <1>3, <1>4, <1>5, <1>6 DEF ExchangeNext, Writer, Reader
<1> QED
  BY <1>7, <1>8

(* So the exchanges are a behaviour of the table. *)
LEMMA ExchangesUseTheTable == ExchangeSpec => Spec
<1>1. ExchangeInit => Init
  BY DEF ExchangeInit
<1>2. [ExchangeNext]_exchangeVars => [Next]_vars
  BY StepsOfTheTable
<1> QED
  BY <1>1, <1>2, PTL DEF ExchangeSpec, Spec

(* The identifiers of a session stay unique and none is lost, whatever its
   clients send. *)
THEOREM ExchangesKeepIdentifiers ==
  ExchangeSpec => [](TypeOK /\ NonZeroUnique /\ FirstLapFresh /\ NoLeak)
<1>1. [Next]_vars => [NextAll]_vars
  BY DEF NextAll
<1>2. Spec => SpecAll
  BY <1>1, PTL DEF Spec, SpecAll
<1> QED
  BY <1>2, ExchangesUseTheTable, TableTypeOK, NonZeroIsUnique, FirstLapIsFresh,
     SessionsLeakNothing, PTL

-----------------------------------------------------------------------------
(* What Parse makes of a packet at the start of a stream that goes on with
   "rest": InStep for one packet, and where the stream stands afterwards. *)
Packets == Sayable \cup [type : Acks, id : Words]
(* The kinds of packets that clients send. *)
Kinds(q) ==
  \/ q \in Publications /\ q.topic # <<>> /\ Fits(q)
  \/ q \in Connects \cup Subscribes /\ Fits(q)
  \/ q \in Unsubscribes /\ Fits(q) /\ (Overruns(q) => Len(q.filters) <= 4098)
  \/ q \in [type : NoBody] \/ q \in [type : Acks, id : Words]
SameBut(q, p) == p = q \/ (Wraps(q) /\ \E y : p = [q EXCEPT !.payload = y])
Got(q, rest, r) ==
  /\ TooLong(q) => r.packet = Refused
  /\ ~TooLong(q) /\ Overruns(q) =>
       r.packet.type = "unsubscribe" /\ r.packet.id = q.id /\ Derails(r.rest)
  /\ ~TooLong(q) /\ ~Overruns(q) => r.rest = rest /\ SameBut(q, r.packet)
Begins(q, rest) ==
  LET s == Standard(q) \o rest IN s \in Seq(Byte) /\ s # <<>> /\ Got(q, rest, Parse(s, MaxLen))
Understood(q) == Standard(q) \in Seq(Byte) /\ \A rest \in Seq(Byte) : Begins(q, rest)

(* There is no other. *)
LEMMA KindsOfPackets ==
  ASSUME NEW q \in Packets
  PROVE  Kinds(q)
<1> DEFINE A == [type : {"puback", "pubrec", "pubrel", "pubcomp"}, id : Words]   B == [type : Acks, id : Words]
<1>1. A \subseteq B
  BY DEF Acks
<1> HIDE DEF A, B
<1>2. q \in Sayable \/ q \in B
  BY Zenon DEF Packets, B
<1> DEFINE C == {p \in Publications : p.topic # <<>> /\ Fits(p)}
           D == {p \in Connects \cup Subscribes : Fits(p)}
           E == {p \in Unsubscribes : Fits(p) /\ (Overruns(p) => Len(p.filters) <= 4098)}
           F == [type : NoBody]
<1>3. Sayable = C \cup D \cup E \cup F \cup A
  BY Zenon DEF Sayable, A
<1>4. q \in C => q \in Publications /\ q.topic # <<>> /\ Fits(q)
  OBVIOUS
<1>5. q \in D => q \in Connects \cup Subscribes /\ Fits(q)
  OBVIOUS
<1>6. q \in E => q \in Unsubscribes /\ Fits(q) /\ (Overruns(q) => Len(q.filters) <= 4098)
  OBVIOUS
<1> HIDE DEF C, D, E, F
<1>7. q \in C \/ q \in D \/ q \in E \/ q \in F \/ q \in B
  BY <1>1, <1>2, <1>3
<1> QED BY <1>4, <1>5, <1>6, <1>7, Zenon DEF Kinds, B, F

(* HeaderIsRead, of the stream itself. *)
HeaderRead(first, body, rest, maxLen) ==
  LET stream == ((<<first>> \o StandardLength(Len(body))) \o body) \o rest
      d == Decode(first, Len(body), body \o rest)
  IN /\ stream \in Seq(Byte) /\ stream # <<>>
     /\ Readable(Len(body), maxLen) =>
          Parse(stream, maxLen) = [packet |-> d.packet, rest |-> From(body \o rest, d.used)]
     /\ ~Readable(Len(body), maxLen) => Parse(stream, maxLen).packet = Refused

(* HeaderIsRead, of the stream itself. *)
LEMMA StreamHeader ==
  ASSUME NEW first \in Byte, NEW body \in Seq(Byte), Len(body) \in BodyLengths,
         NEW rest \in Seq(Byte), NEW maxLen \in Nat
  PROVE  HeaderRead(first, body, rest, maxLen)
<1> DEFINE stream == ((<<first>> \o StandardLength(Len(body))) \o body) \o rest
           d == Decode(first, Len(body), body \o rest)
<1>1. stream = ((<<first>> \o StandardLength(Len(body))) \o body) \o rest
  OBVIOUS
<1> HIDE DEF stream
<1>2. stream \in Seq(Byte) /\ stream # <<>>
  BY <1>1, HeaderIsRead, Zenon
<1>3. Readable(Len(body), maxLen) =>
        Parse(stream, maxLen) = [packet |-> d.packet, rest |-> From(body \o rest, d.used)]
  BY <1>1, HeaderIsRead, ZenonT(30)
<1>4. ~Readable(Len(body), maxLen) => Parse(stream, maxLen).packet = Refused
  BY <1>1, HeaderIsRead, ZenonT(30)
<1> QED BY <1>2, <1>3, <1>4, Zenon DEF HeaderRead, stream

(* The header of a packet is read as the standard has it, and the decoder gets
   the body; a packet that is too long is refused. *)
Opens(q, rest) ==
  LET s == Standard(q) \o rest   b == Body(q, 16) \o rest
      d == Decode(FirstByte(q), Len(Body(q, 16)), b)
  IN /\ s \in Seq(Byte) /\ s # <<>>
     /\ TooLong(q) => Parse(s, MaxLen).packet = Refused
     /\ ~TooLong(q) => Parse(s, MaxLen) = [packet |-> d.packet, rest |-> From(b, d.used)]

(* So a packet of any type is opened, or refused for its length. *)
LEMMA HeaderOpens ==
  ASSUME NEW q, FirstByte(q) \in Byte, Body(q, 16) \in Seq(Byte), Fits(q),
         NEW rest \in Seq(Byte)
  PROVE  Opens(q, rest)
<1> DEFINE c == Body(q, 16)   n == Len(c)   h == <<FirstByte(q)>> \o StandardLength(n)
           s == Standard(q) \o rest
<1>1. n \in BodyLengths /\ n \in Nat
  BY SMT DEF Fits, BodyLengths
<1>2. s = (h \o c) \o rest
  BY Zenon DEF Standard
<1>3. MaxLen \in Nat
  BY ExchangeAssumption DEF ExchangeAssumption
<1>4. TooLong(q) <=> ~Readable(n, MaxLen)
  <2>1. TooLong(q) <=> n >= 2097152 \/ (MaxLen > 0 /\ n > MaxLen)
    BY SMT DEF TooLong
  <2> HIDE DEF n
  <2> QED BY <1>1, <1>3, <2>1, SMT DEF Readable, Lengths
<1> HIDE DEF c, s
<1> DEFINE d == Decode(FirstByte(q), n, c \o rest)
<1>5. c \in Seq(Byte) /\ Len(c) \in BodyLengths
  BY <1>1 DEF c
<1>6. HeaderRead(FirstByte(q), c, rest, MaxLen)
  BY <1>3, <1>5, StreamHeader, Zenon
<1>7. /\ s \in Seq(Byte) /\ s # <<>>
      /\ Readable(n, MaxLen) => Parse(s, MaxLen) = [packet |-> d.packet, rest |-> From(c \o rest, d.used)]
      /\ ~Readable(n, MaxLen) => Parse(s, MaxLen).packet = Refused
  BY <1>2, <1>6, Zenon DEF HeaderRead, h, n, d
<1> QED BY <1>4, <1>7, Zenon DEF Opens, c, n, s, d

(* A standard packet is bytes. *)
LEMMA StandardIsBytes ==
  ASSUME NEW q, FirstByte(q) \in Byte, Body(q, 16) \in Seq(Byte), Fits(q)
  PROVE  Standard(q) \in Seq(Byte)
<1>3. FirstByte(q) \in Byte /\ Body(q, 16) \in Seq(Byte) /\ Len(Body(q, 16)) \in BodyLengths
  BY SMT DEF Fits, BodyLengths
<1>4. StandardLength(Len(Body(q, 16))) \in Seq(Byte)
  BY <1>3, StandardDigits, SMT
<1> DEFINE v == StandardLength(Len(Body(q, 16)))   c == Body(q, 16)   h == <<FirstByte(q)>>
<1>5. h \in Seq(Byte) /\ v \in Seq(Byte) /\ c \in Seq(Byte)
  BY <1>3, <1>4
<1> HIDE DEF v, c, h
<1>6. (h \o v) \o c \in Seq(Byte)
  BY <1>5
<1> QED BY <1>6, Zenon DEF Standard, v, c, h

(* A packet whose body the decoder reads, all of it and nothing else, keeps the
   stream in step. *)
LEMMA ReadKeepsStep ==
  ASSUME NEW q, Reads(q), Fits(q), ~Overruns(q)
  PROVE  Understood(q)
<1>1. FirstByte(q) \in Byte /\ Body(q, 16) \in Seq(Byte)
  BY Zenon DEF Reads
<1>2. ASSUME NEW rest \in Seq(Byte)
      PROVE  Begins(q, rest)
  <2> DEFINE c == Body(q, 16)   b == c \o rest   d == Decode(FirstByte(q), Len(c), b)
             s == Standard(q) \o rest
  <2>1. d = Decoded(q, Len(c))
    BY Zenon DEF Reads
  <2>2. d.packet = q /\ d.used = Len(c)
    <3> HIDE DEF d
    <3> QED BY <2>1 DEF Decoded
  <2>3. From(b, Len(c)) = rest
    BY <1>1, Cut, Zenon
  <2>4. /\ s \in Seq(Byte) /\ s # <<>>
        /\ TooLong(q) => Parse(s, MaxLen).packet = Refused
        /\ ~TooLong(q) => Parse(s, MaxLen) = [packet |-> d.packet, rest |-> From(b, d.used)]
    <3>1. Opens(q, rest)
      BY <1>1, HeaderOpens, Zenon
    <3> QED BY <3>1, Zenon DEF Opens
  <2> HIDE DEF c, b, d, s
  <2>5. ~TooLong(q) => Parse(s, MaxLen) = [packet |-> q, rest |-> rest]
    BY <2>2, <2>3, <2>4, Zenon
  <2>6. Got(q, rest, Parse(s, MaxLen))
    BY <2>4, <2>5 DEF Got, SameBut
  <2> QED BY <2>4, <2>6, Zenon DEF Begins, s
<1> QED BY <1>1, <1>2, StandardIsBytes, Zenon DEF Understood

(* A PUBLISH: whatever it is, the stream stays in step. *)
LEMMA PublicationIsUnderstood ==
  ASSUME NEW q \in Publications, q.topic # <<>>, Fits(q)
  PROVE  Understood(q)
<1>1. q.type = "publish" /\ ~Overruns(q)
  BY DEF Publications, Overruns
<1>2. PublishSize(q) > 2
  <2>1. Len(q.topic) \in Nat /\ Len(q.payload) \in Nat /\ Len(q.topic) > 0
    BY DEF Publications, Strings
  <2> DEFINE a == Len(q.topic)   b == Len(q.payload)
  <2>2. PublishSize(q) = 2 + a + (IF q.qos > 0 THEN 2 ELSE 0) + b
    BY Zenon DEF PublishSize
  <2>3. a \in Nat /\ b \in Nat /\ a > 0
    BY <2>1
  <2> HIDE DEF a, b
  <2> QED BY <2>2, <2>3
<1>3. /\ FirstByte(q) \in Byte /\ Body(q, 16) \in Seq(Byte)
      /\ \A rest \in Seq(Byte) : \E y :
           /\ Decode(FirstByte(q), Len(Body(q, 16)), Body(q, 16) \o rest)
                = Decoded([q EXCEPT !.payload = y], Len(Body(q, 16)))
           /\ ~Wraps(q) => y = q.payload
  BY <1>2, PublishIsRead, Zenon
<1>4. ASSUME NEW rest \in Seq(Byte)
      PROVE  Begins(q, rest)
  <2> DEFINE c == Body(q, 16)   b == c \o rest   d == Decode(FirstByte(q), Len(c), b)
             s == Standard(q) \o rest
  <2>1. PICK y : d = Decoded([q EXCEPT !.payload = y], Len(c)) /\ (~Wraps(q) => y = q.payload)
    BY <1>3, Zenon
  <2>2. d.packet = [q EXCEPT !.payload = y] /\ d.used = Len(c)
    <3> HIDE DEF d
    <3> QED BY <2>1 DEF Decoded
  <2>3. From(b, Len(c)) = rest
    BY <1>3, Cut, Zenon
  <2>4. /\ s \in Seq(Byte) /\ s # <<>>
        /\ TooLong(q) => Parse(s, MaxLen).packet = Refused
        /\ ~TooLong(q) => Parse(s, MaxLen) = [packet |-> d.packet, rest |-> From(b, d.used)]
    <3>1. Opens(q, rest)
      BY <1>3, HeaderOpens, Zenon
    <3> QED BY <3>1, Zenon DEF Opens
  <2>5. SameBut(q, [q EXCEPT !.payload = y])
    <3>1. [q EXCEPT !.payload = q.payload] = q
      BY DEF Publications
    <3> QED BY <2>1, <3>1, Zenon DEF SameBut
  <2> HIDE DEF c, b, d, s
  <2>6. ~TooLong(q) => Parse(s, MaxLen) = [packet |-> [q EXCEPT !.payload = y], rest |-> rest]
    BY <2>2, <2>3, <2>4, Zenon
  <2> DEFINE x == [q EXCEPT !.payload = y]
  <2> HIDE DEF x
  <2>7. ~TooLong(q) => Parse(s, MaxLen).packet = x /\ Parse(s, MaxLen).rest = rest
    <3>1. ~TooLong(q) => Parse(s, MaxLen) = [packet |-> x, rest |-> rest]
      BY <2>6, Zenon DEF x
    <3> QED BY <3>1
  <2>8. SameBut(q, x)
    BY <2>5, Zenon DEF x
  <2>9. Got(q, rest, Parse(s, MaxLen))
    BY <1>1, <2>4, <2>7, <2>8, Zenon DEF Got
  <2> QED BY <2>4, <2>9, Zenon DEF Begins, s
<1> QED BY <1>3, <1>4, StandardIsBytes, Zenon DEF Understood

(* An UNSUBSCRIBE that leaves filters in the stream: what comes next is one of
   them, and reads as an error. *)
LEMMA OverrunIsUnderstood ==
  ASSUME NEW q \in Unsubscribes, Fits(q), Overruns(q), FewFilters(q)
  PROVE  Understood(q)
<1> DEFINE c == Body(q, 16)
           D(rest) == Decode(FirstByte(q), Len(c), c \o rest)
<1>1. \A rest \in Seq(Byte) :
        /\ FirstByte(q) \in Byte /\ c \in Seq(Byte)
        /\ D(rest).packet.type = "unsubscribe" /\ D(rest).packet.id = q.id
        /\ Derails(From(c \o rest, D(rest).used))
  BY UnsubscribeOverruns, Zenon
<1>2. FirstByte(q) \in Byte /\ c \in Seq(Byte)
  <2>1. <<>> \in Seq(Byte)
    OBVIOUS
  <2> QED BY <1>1, <2>1, Zenon
<1>3. ASSUME NEW rest \in Seq(Byte)
      PROVE  Begins(q, rest)
  <2> DEFINE b == c \o rest   d == D(rest)   s == Standard(q) \o rest
  <2>1. /\ d.packet.type = "unsubscribe" /\ d.packet.id = q.id
        /\ Derails(From(b, d.used))
    BY <1>1, Zenon
  <2>2. /\ s \in Seq(Byte) /\ s # <<>>
        /\ TooLong(q) => Parse(s, MaxLen).packet = Refused
        /\ ~TooLong(q) => Parse(s, MaxLen) = [packet |-> d.packet, rest |-> From(b, d.used)]
    <3>1. Opens(q, rest)
      BY <1>2, HeaderOpens, Zenon
    <3> QED BY <3>1, Zenon DEF Opens
  <2> HIDE DEF b, d, s
  <2>3. ~TooLong(q) => /\ Parse(s, MaxLen).packet = d.packet
                       /\ Parse(s, MaxLen).rest = From(b, d.used)
    BY <2>2
  <2>4. Got(q, rest, Parse(s, MaxLen))
    BY <2>1, <2>2, <2>3, Zenon DEF Got
  <2> QED BY <2>2, <2>4, Zenon DEF Begins, s
<1> QED BY <1>2, <1>3, StandardIsBytes, Zenon DEF Understood

(* Everything that a client sends is understood: Parse, at the start of any
   stream, reads the packet as the standard has it, and leaves the rest of the
   stream as it is; or it refuses the packet for its length; or the packet is one
   of the two that the decoders of UNSUBSCRIBE and PUBLISH lose. *)
THEOREM PacketsAreUnderstood ==
  ASSUME NEW q \in Packets
  PROVE  Understood(q)
<1>1. CASE q \in Publications /\ q.topic # <<>> /\ Fits(q)
  BY <1>1, PublicationIsUnderstood, Zenon
<1>2. CASE q \in Connects \cup Subscribes /\ Fits(q)
  <2>1. ~Overruns(q)
    BY <1>2 DEF Connects, Subscribes, Overruns
  <2>2. Reads(q)
    BY <1>2, ConnectIsRead, SubscribeIsRead, Zenon
  <2> QED BY <1>2, <2>1, <2>2, ReadKeepsStep, Zenon
<1>3. CASE q \in Unsubscribes /\ Fits(q) /\ (Overruns(q) => FewFilters(q))
  <2>1. CASE Overruns(q)
    BY <1>3, <2>1, OverrunIsUnderstood, Zenon
  <2>2. CASE ~Overruns(q)
    BY <1>3, <2>2, UnsubscribeIsRead, ReadKeepsStep, Zenon
  <2> QED BY <2>1, <2>2, Zenon
<1>4. CASE q \in [type : NoBody]
  <2>1. ~Overruns(q)
    BY <1>4 DEF NoBody, Overruns
  <2> DEFINE n == Len(Body(q, 16))
  <2>2. Reads(q) /\ n = 0
    BY <1>4, EmptyAreRead, Zenon
  <2>3. Fits(q)
    <3>1. Fits(q) <=> n < 268435456
      BY SMT DEF Fits
    <3> HIDE DEF n
    <3> QED BY <2>2, <3>1, SMT
  <2> QED BY <2>1, <2>2, <2>3, ReadKeepsStep, Zenon
<1>5. CASE q \in [type : Acks, id : Words]
  <2>1. ~Overruns(q)
    BY <1>5 DEF Acks, Overruns
  <2> DEFINE n == Len(Body(q, 16))
  <2>2. Reads(q) /\ n = 2
    BY <1>5, AcksAreRead, Zenon
  <2>3. Fits(q)
    <3>1. Fits(q) <=> n < 268435456
      BY SMT DEF Fits
    <3> HIDE DEF n
    <3> QED BY <2>2, <3>1, SMT
  <2> QED BY <2>1, <2>2, <2>3, ReadKeepsStep, Zenon
<1>6. q \in Unsubscribes /\ Fits(q) /\ (Overruns(q) => Len(q.filters) <= 4098)
        => q \in Unsubscribes /\ Fits(q) /\ (Overruns(q) => FewFilters(q))
  BY SMT DEF FewFilters
<1>7. \/ q \in Publications /\ q.topic # <<>> /\ Fits(q)
      \/ q \in Connects \cup Subscribes /\ Fits(q)
      \/ q \in Unsubscribes /\ Fits(q) /\ (Overruns(q) => Len(q.filters) <= 4098)
      \/ q \in [type : NoBody] \/ q \in [type : Acks, id : Words]
  BY KindsOfPackets, Zenon DEF Kinds
<1>8. CASE q \in Unsubscribes /\ Fits(q) /\ (Overruns(q) => Len(q.filters) <= 4098)
  <2>1. q \in Unsubscribes /\ Fits(q) /\ (Overruns(q) => FewFilters(q))
    BY <1>6, <1>8
  <2> QED BY <1>3, <2>1
<1> QED
  <2> HIDE DEF Understood, Fits, Overruns, Packets
  <2> QED BY <1>1, <1>2, <1>4, <1>5, <1>7, <1>8

-----------------------------------------------------------------------------
(* The bytes of several packets, one after the other. *)
Spelt(s) == [i \in DOMAIN s |-> Standard(s[i])]

(* Each packet is a piece of the stream. *)
LEMMA SpeltInPieces ==
  ASSUME NEW s \in Seq(Packets)
  PROVE  Spelt(s) \in Pieces /\ Stream(s) = Sq!FlattenSeq(Spelt(s)) /\ Stream(s) \in Seq(Byte)
<1>1. \A i \in DOMAIN s : Standard(s[i]) \in Seq(Byte)
  <2> SUFFICES ASSUME NEW i \in DOMAIN s PROVE Standard(s[i]) \in Seq(Byte)
    OBVIOUS
  <2>1. s[i] \in Packets
    OBVIOUS
  <2> QED BY <2>1, PacketsAreUnderstood, Zenon DEF Understood
<1>2. Spelt(s) \in Pieces
  <2>1. DOMAIN s = 1 .. Len(s) /\ Len(s) \in Nat
    OBVIOUS
  <2> DEFINE n == Len(s)   B == Seq(Byte)
  <2>2. Spelt(s) = [i \in 1 .. n |-> Standard(s[i])] /\ n \in Nat
    BY <2>1, Zenon DEF Spelt
  <2>3. \A i \in 1 .. n : Standard(s[i]) \in B
    BY <1>1, <2>1
  <2> HIDE DEF n, B
  <2>4. [i \in 1 .. n |-> Standard(s[i])] \in Seq(B)
    BY <2>2, <2>3
  <2> QED BY <2>2, <2>4, Zenon DEF Pieces, B
<1>3. Stream(s) = Sq!FlattenSeq(Spelt(s))
  BY Zenon DEF Stream, Spelt
<1> QED BY <1>2, <1>3, FlattenIsBytes, Zenon

(* Nothing makes no bytes. *)
LEMMA StreamOfNothing == Stream(<<>>) = <<>>
<1>1. Spelt(<<>>) = <<>>
  BY DEF Spelt
<1>2. Stream(<<>>) = Sq!FlattenSeq(Spelt(<<>>))
  BY Zenon DEF Stream, Spelt
<1> QED BY <1>1, <1>2, FlattenEmpty, Zenon

(* What a client says later comes behind what it has said. *)
LEMMA StreamGrows ==
  ASSUME NEW s \in Seq(Packets), NEW t \in Seq(Packets)
  PROVE  Stream(s \o t) = Stream(s) \o Stream(t) /\ s \o t \in Seq(Packets)
<1> DEFINE u == s \o t
<1>1. /\ u \in Seq(Packets) /\ Len(u) = Len(s) + Len(t) /\ Len(s) \in Nat /\ Len(t) \in Nat
      /\ \A i \in 1 .. Len(s) + Len(t) : u[i] = IF i <= Len(s) THEN s[i] ELSE t[i - Len(s)]
      /\ DOMAIN u = 1 .. Len(u) /\ DOMAIN s = 1 .. Len(s) /\ DOMAIN t = 1 .. Len(t)
  BY ConcatProperties, LenProperties
<1> DEFINE a == Spelt(s)   b == Spelt(t)   c == Spelt(u)
<1>2. a \in Pieces /\ b \in Pieces /\ c \in Pieces
  <2> HIDE DEF u
  <2> QED BY <1>1, SpeltInPieces, Zenon
<1>3. Len(a) = Len(s) /\ Len(b) = Len(t) /\ Len(c) = Len(s) + Len(t)
  <2>1. DOMAIN a = DOMAIN s /\ DOMAIN b = DOMAIN t /\ DOMAIN c = DOMAIN u
    BY Zenon DEF Spelt
  <2>2. \A x \in Pieces : DOMAIN x = 1 .. Len(x) /\ Len(x) \in Nat
    BY LenProperties DEF Pieces
  <2> HIDE DEF u, a, b, c
  <2>3. /\ DOMAIN a = 1 .. Len(a) /\ Len(a) \in Nat /\ DOMAIN b = 1 .. Len(b) /\ Len(b) \in Nat
        /\ DOMAIN c = 1 .. Len(c) /\ Len(c) \in Nat
    BY <1>2, <2>2, Zenon
  <2>4. \A m, n \in Nat : 1 .. m = 1 .. n => m = n
    BY SMT
  <2>5. Len(a) = Len(s) /\ Len(b) = Len(t) /\ Len(c) = Len(u)
    <3>1. Len(u) \in Nat
      BY <1>1
    <3> QED BY <1>1, <2>1, <2>3, <2>4, <3>1, Zenon
  <2> QED BY <1>1, <2>5
<1>4. ASSUME NEW i \in 1 .. Len(s) + Len(t)
      PROVE  c[i] = (a \o b)[i]
  <2>1. c[i] = Standard(u[i])
    <3>1. i \in DOMAIN u
      <4> HIDE DEF u
      <4> QED BY <1>1
    <3> HIDE DEF u
    <3> QED BY <3>1, Zenon DEF Spelt
  <2>2. CASE i <= Len(s)
    <3>1. i \in DOMAIN s /\ u[i] = s[i]
      <4> HIDE DEF u
      <4> QED BY <1>1, <2>2
    <3>2. a[i] = Standard(s[i])
      BY <3>1, Zenon DEF Spelt
    <3>3. (a \o b)[i] = a[i]
      <4> HIDE DEF u, a, b, c
      <4> QED BY <1>1, <1>2, <1>3, <2>2, ConcatProperties DEF Pieces
    <3> QED BY <2>1, <3>1, <3>2, <3>3
  <2>3. CASE ~(i <= Len(s))
    <3>1. i - Len(s) \in DOMAIN t /\ u[i] = t[i - Len(s)]
      <4> HIDE DEF u
      <4> QED BY <1>1, <2>3
    <3>2. b[i - Len(s)] = Standard(t[i - Len(s)])
      BY <3>1, Zenon DEF Spelt
    <3>3. (a \o b)[i] = b[i - Len(s)]
      <4>1. \A x, y \in Pieces : \A j \in 1 .. Len(x) + Len(y) :
              ~(j <= Len(x)) => (x \o y)[j] = y[j - Len(x)]
        BY ConcatProperties DEF Pieces
      <4> HIDE DEF u, a, b, c
      <4>2. i \in 1 .. Len(a) + Len(b) /\ ~(i <= Len(a))
        BY <1>3, <2>3
      <4>3. (a \o b)[i] = b[i - Len(a)]
        BY <1>2, <4>1, <4>2, ZenonT(30)
      <4> QED BY <1>3, <4>3, Zenon
    <3> QED BY <2>1, <3>1, <3>2, <3>3
  <2> QED BY <2>2, <2>3
<1>5. c = a \o b
  <2> HIDE DEF u, a, b, c
  <2> DEFINE ab == a \o b
  <2>1. ab \in Pieces /\ Len(ab) = Len(s) + Len(t)
    <3>1. \A x, y \in Pieces : x \o y \in Pieces /\ Len(x \o y) = Len(x) + Len(y)
      BY ConcatProperties DEF Pieces
    <3>2. a \o b \in Pieces /\ Len(a \o b) = Len(a) + Len(b)
      BY <1>2, <3>1, Zenon
    <3> QED BY <1>3, <3>2, Zenon
  <2> HIDE DEF ab
  <2>2. \A i \in 1 .. Len(c) : c[i] = ab[i]
    BY <1>3, <1>4 DEF ab
  <2> QED BY <1>2, <1>3, <2>1, <2>2, SeqEqual DEF Pieces, ab
<1>6. Stream(u) = Sq!FlattenSeq(c) /\ Stream(s) = Sq!FlattenSeq(a) /\ Stream(t) = Sq!FlattenSeq(b)
  <2> HIDE DEF u
  <2> QED BY <1>1, SpeltInPieces, Zenon
<1> HIDE DEF a, b, c
<1>7. Sq!FlattenSeq(a \o b) = Sq!FlattenSeq(a) \o Sq!FlattenSeq(b)
  BY <1>2, FlattenConcat, Zenon
<1> QED BY <1>1, <1>5, <1>6, <1>7, Zenon

(* A stream begins with its first packet. *)
LEMMA StreamBegins ==
  ASSUME NEW s \in Seq(Packets), s # <<>>
  PROVE  /\ Head(s) \in Packets /\ Tail(s) \in Seq(Packets)
         /\ Stream(s) = Standard(Head(s)) \o Stream(Tail(s))
<1> DEFINE h == Head(s)   t == Tail(s)   o == <<h>>
<1>1. h \in Packets /\ t \in Seq(Packets) /\ o \in Seq(Packets) /\ s = o \o t
  OBVIOUS
<1> HIDE DEF h, t
<1>2. Stream(s) = Stream(o) \o Stream(t)
  <2> HIDE DEF o
  <2> QED BY <1>1, StreamGrows, Zenon
<1>3. Stream(o) = Standard(h)
  <2> DEFINE x == Standard(h)
  <2>1. x \in Seq(Byte)
    BY <1>1, PacketsAreUnderstood, Zenon DEF Understood
  <2> HIDE DEF x
  <2>2. Spelt(o) = Append(<<>>, x)
    <3>1. Spelt(o) = <<Standard(h)>>
      BY DEF Spelt
    <3> QED BY <3>1 DEF x
  <2>3. <<>> \in Pieces
    BY DEF Pieces
  <2>4. Sq!FlattenSeq(Append(<<>>, x)) = Sq!FlattenSeq(<<>>) \o x
    BY <2>1, <2>3, FlattenAppend, Zenon
  <2>5. <<>> \o x = x
    BY <2>1
  <2>6. Stream(o) = Sq!FlattenSeq(Spelt(o))
    BY Zenon DEF Stream, Spelt
  <2> QED BY <2>2, <2>4, <2>5, <2>6, FlattenEmpty, Zenon DEF x
<1> QED BY <1>1, <1>2, <1>3, Zenon DEF h, t

-----------------------------------------------------------------------------
(* The writers: which identifiers they have in hand. *)
PlaceOK ==
  /\ place \in [Senders -> {"idle", "register", "assign", "write"}]
  /\ message \in [Senders -> Messages \cup {None}]
  /\ got \in [Senders -> Ids \cup {None}]
  /\ ident \in [Messages -> Ids]
  /\ \A w \in Senders : /\ place[w] # "idle" => message[w] \in Messages
                        /\ held[w] # None <=> place[w] = "register"
                        /\ got[w] # None <=> place[w] \in {"assign", "write"}

(* Giving a reference back leaves the senders alone. *)
LEMMA UnRefKeepsHeld ==
  ASSUME NEW i, UnRefMessage(i) \/ UNCHANGED tableVars
  PROVE  held' = held
BY DEF UnRefMessage, Unref, tableVars

(* The writers' program: an identifier is taken, registered, assigned and
   written, and then the writer is done with it. *)
LEMMA PlaceInit == ExchangeInit => PlaceOK
<1> SUFFICES ASSUME ExchangeInit PROVE PlaceOK
  OBVIOUS
<1>1. 0 \in Ids
  BY TableAssumption DEF TableAssumption, Ids
<1> QED BY <1>1, TableAssumption DEF ExchangeInit, Init, PlaceOK, TableAssumption

(* Each step keeps that. *)
LEMMA PlaceStep ==
  ASSUME TypeOK, TypeOK', PlaceOK, [ExchangeNext]_exchangeVars
  PROVE  PlaceOK'
<1>0. None \notin Ids /\ Ids \subseteq Nat
  BY TableAssumption DEF TableAssumption, Ids
<1>1. ASSUME NEW w \in Senders, NEW m \in Carries[w], Take(w, m)
      PROVE  PlaceOK'
  <2>1. m \in Messages
    BY ExchangeAssumption DEF ExchangeAssumption
  <2>2. held'[w] # None /\ \A v \in Senders \ {w} : held'[v] = held[v]
    <3>1. Start \in Ids /\ Start # None /\ 0 # None
      BY <1>0, TableAssumption DEF TypeOK, Start, Ids, TableAssumption
    <3>2. held' = [held EXCEPT ![w] = 0] \/ held' = [held EXCEPT ![w] = Start]
      BY <1>1 DEF Take, NewID
    <3> QED BY <3>1, <3>2 DEF TypeOK
  <2>3. /\ place[w] = "idle" /\ place' = [place EXCEPT ![w] = "register"]
        /\ message' = [message EXCEPT ![w] = m] /\ got' = got /\ ident' = ident
    BY <1>1 DEF Take, Writing
  <2> QED BY <2>1, <2>2, <2>3 DEF PlaceOK
<1>2. ASSUME NEW w \in Senders, RegisterMessage(w)
      PROVE  PlaceOK'
  <2>1. /\ place[w] = "register" /\ place' = [place EXCEPT ![w] = "assign"]
        /\ message' = message /\ got' = [got EXCEPT ![w] = held[w]]
        /\ ident' = [ident EXCEPT ![message[w]] = held[w]]
        /\ held' = [held EXCEPT ![w] = None]
    BY <1>2 DEF RegisterMessage, Writing, Register
  <2>2. held[w] \in Ids /\ held[w] # None
    BY <2>1 DEF TypeOK, PlaceOK
  <2> QED BY <2>1, <2>2 DEF PlaceOK, TypeOK
<1>3. ASSUME NEW w \in Senders, Assign(w)
      PROVE  PlaceOK'
  <2>1. /\ place[w] = "assign" /\ place' = [place EXCEPT ![w] = "write"]
        /\ message' = message /\ got' = got
        /\ ident' = [ident EXCEPT ![message[w]] = got[w]] /\ held' = held
    BY <1>3 DEF Assign, Writing, Assigned, tableVars
  <2>2. got[w] \in Ids
    BY <2>1 DEF PlaceOK
  <2> QED BY <2>1, <2>2 DEF PlaceOK
<1>4. ASSUME NEW w \in Senders, WritePublish(w)
      PROVE  PlaceOK'
  <2>1. /\ place[w] = "write" /\ place' = [place EXCEPT ![w] = "idle"]
        /\ message' = [message EXCEPT ![w] = None] /\ got' = [got EXCEPT ![w] = None]
        /\ ident' = ident /\ held' = held
    BY <1>4 DEF WritePublish, Writing, tableVars
  <2> QED BY <2>1 DEF PlaceOK
<1>5. ASSUME NEW w \in Senders, WriteOwn(w) \/ Ping(w)
      PROVE  PlaceOK'
  <2>1. /\ place' = [place EXCEPT ![w] = "idle"] /\ place[w] = "idle"
        /\ message' = message /\ got' = got /\ ident' = ident /\ held' = held
    BY <1>5 DEF WriteOwn, Ping, Writing, tableVars
  <2> QED BY <2>1 DEF PlaceOK
<1>6. ASSUME UNCHANGED writerVars, held' = held
      PROVE  PlaceOK'
  BY <1>6 DEF writerVars, PlaceOK
<1>7. ASSUME NEW w \in Senders, Reader(w) \/ Break(w) \/ Respond(w)
               \/ \E packets \in Says[w] : ClientSays(w, packets)
      PROVE  UNCHANGED writerVars /\ held' = held
  <2>1. CASE Receive(w)
    <3>1. UNCHANGED writerVars
      BY <2>1 DEF Receive
    <3>2. UNCHANGED tableVars \/ UnRefMessage(Parse(up[w], MaxLen).packet.id)
      BY <2>1 DEF Receive
    <3> QED BY <3>1, <3>2, UnRefKeepsHeld
  <2>2. CASE Settle(w)
    <3>1. UNCHANGED writerVars /\ UnRefMessage(owed[w])
      BY <2>2 DEF Settle
    <3> QED BY <3>1, UnRefKeepsHeld
  <2>3. CASE Break(w)
    BY <2>3 DEF Break, tableVars
  <2>4. CASE Respond(w)
    BY <2>4 DEF Respond, tableVars
  <2>5. CASE \E packets \in Says[w] : ClientSays(w, packets)
    BY <2>5 DEF ClientSays, tableVars
  <2> QED BY <1>7, <2>1, <2>2, <2>3, <2>4, <2>5 DEF Reader
<1>8. ASSUME NEW m \in Shared, Elsewhere(m)
      PROVE  PlaceOK'
  <2>1. PICK i \in Ids : ident' = [ident EXCEPT ![m] = i]
    BY <1>8 DEF Elsewhere
  <2>2. place' = place /\ message' = message /\ got' = got /\ held' = held
    BY <1>8 DEF Elsewhere, tableVars
  <2> QED BY <2>1, <2>2 DEF PlaceOK
<1>9. CASE UNCHANGED exchangeVars
  BY <1>9 DEF exchangeVars, writerVars, tableVars, PlaceOK
<1>10. CASE ExchangeNext
  BY <1>10, <1>1, <1>2, <1>3, <1>4, <1>5, <1>6, <1>7, <1>8 DEF ExchangeNext, Writer
<1> QED BY <1>9, <1>10

(* So the writers keep to it. *)
LEMMA PlacesAreOK == ExchangeSpec => [](TypeOK /\ PlaceOK)
<1>1. ExchangeSpec => []TypeOK
  BY ExchangesKeepIdentifiers, PTL
<1>2. ExchangeInit => PlaceOK
  BY PlaceInit
<1>3. TypeOK /\ TypeOK' /\ PlaceOK /\ [ExchangeNext]_exchangeVars => PlaceOK'
  BY PlaceStep
<1> QED BY <1>1, <1>2, <1>3, PTL DEF ExchangeSpec

-----------------------------------------------------------------------------
(* The wires: what stands on them.  "Posted" are publications with an
   identifier, "Answers" what the handlers and the timer enqueue. *)
Posted == {p \in Publications : p.qos > 0 /\ Fits(p)}
Codes == {0, 1, 2, 128}
Subacks == {p \in [type : {"suback"}, id : Words, codes : Seq(Codes)] : 2 + Len(p.codes) \in BodyLengths}
Replies == {"puback", "pubrec", "pubrel", "pubcomp"}
Answers == [type : Replies, id : Words] \cup Subacks \cup {Connack, Bare("pingreq")}
InOrder(w) ==
  /\ ~live[w] => up[w] = <<>> /\ down[w] = <<>> /\ meant[w] = <<>> /\ queue[w] = <<>>
  /\ ~derailed[w] => up[w] = Stream(meant[w])
  /\ derailed[w] /\ live[w] => Derails(up[w])
WireOK ==
  /\ live \in [Senders -> BOOLEAN] /\ derailed \in [Senders -> BOOLEAN]
  /\ up \in [Senders -> Seq(Byte)] /\ meant \in [Senders -> Seq(Packets)]
  /\ queue \in [Senders -> Seq(Answers)] /\ down \in [Senders -> Seq(Posted \cup Answers)]
  /\ owed \in [Senders -> Words \cup {None}]
  /\ \A w \in Senders : InOrder(w)

(* A publication keeps its size when its identifier is set. *)
LEMMA IdentifiedIsPosted ==
  ASSUME NEW p \in Posted, NEW i \in Words
  PROVE  [p EXCEPT !.id = i] \in Posted /\ [p EXCEPT !.id = i].id = i
         /\ [p EXCEPT !.id = i].type = "publish"
<1> DEFINE x == [p EXCEPT !.id = i]
<1>1. p \in Publications /\ p.qos > 0 /\ Fits(p)
  BY DEF Posted
<1>2. x \in Publications /\ x.qos = p.qos /\ x.topic = p.topic /\ x.payload = p.payload /\ x.id = i
      /\ x.type = "publish"
  BY <1>1 DEF Publications
<1>3. PublishSize(p) > 2 /\ PublishSize(x) = PublishSize(p)
  <2>1. Len(p.topic) \in Nat /\ Len(p.payload) \in Nat
    BY <1>1 DEF Publications, Strings
  <2> DEFINE a == Len(p.topic)   b == Len(p.payload)
  <2>2. PublishSize(p) = 2 + a + (IF p.qos > 0 THEN 2 ELSE 0) + b
    BY Zenon DEF PublishSize
  <2>3. PublishSize(x) = 2 + a + (IF p.qos > 0 THEN 2 ELSE 0) + b
    <3> HIDE DEF x
    <3> QED BY <1>2, Zenon DEF PublishSize
  <2>4. a \in Nat /\ b \in Nat
    BY <2>1
  <2> HIDE DEF a, b
  <2>5. PublishSize(p) > 2
    BY <1>1, <2>2, <2>4
  <2> DEFINE r == 2 + a + (IF p.qos > 0 THEN 2 ELSE 0) + b
  <2>6. PublishSize(p) = r /\ PublishSize(x) = r
    BY <2>2, <2>3, Zenon
  <2> HIDE DEF r, x
  <2> QED BY <2>5, <2>6, Zenon
<1> HIDE DEF x
<1>4. Len(Body(p, 16)) = PublishSize(p)
  BY <1>1, <1>3, PublishIsRead, Zenon
<1>5. Len(Body(x, 16)) = PublishSize(x)
  <2>1. PublishSize(x) > 2
    BY <1>3, Zenon
  <2> QED BY <1>2, <2>1, PublishIsRead, Zenon
<1>6. Fits(x)
  <2>1. Len(Body(x, 16)) = Len(Body(p, 16))
    BY <1>3, <1>4, <1>5, Zenon
  <2> QED BY <1>1, <2>1, SMT DEF Fits
<1> QED BY <1>1, <1>2, <1>6, Zenon DEF Posted, x

(* The identifiers of a session's table fit in a packet. *)
LEMMA IdsAreWords == Ids \subseteq Words
BY ExchangeAssumption, SMT DEF ExchangeAssumption, Ids, Words

(* Acknowledgements. *)
LEMMA AckIsAnAck ==
  ASSUME NEW i \in Words, NEW t \in Replies
  PROVE  /\ <<Ack(t, i)>> \in Seq(Answers) /\ <<Ack(t, i)>> \in Seq(Packets)
         /\ Ack(t, i).type = t /\ Ack(t, i).id = i
<1> DEFINE a == Ack(t, i)
<1>1. a \in [type : Replies, id : Words] /\ a \in [type : Acks, id : Words] /\ a.type = t /\ a.id = i
  BY DEF Ack, Acks, Replies
<1>2. a \in Answers /\ a \in Packets
  BY <1>1, Zenon DEF Answers, Packets
<1> HIDE DEF a
<1>3. <<a>> \in Seq(Answers) /\ <<a>> \in Seq(Packets)
  BY <1>2
<1> QED BY <1>1, <1>3, Zenon DEF a

(* What the handlers answer is a packet that the writer can write. *)
LEMMA AnswersAreAnswers ==
  ASSUME NEW q \in Packets, NEW p,
         SameBut(q, p) \/ (Overruns(q) /\ p.type = "unsubscribe" /\ p.id = q.id)
  PROVE  Answer(p) \in Seq(Answers) /\ (p.type = "pubrel" => p.id \in Words)
<1> DEFINE Good == Answer(p) \in Seq(Answers) /\ (p.type = "pubrel" => p.id \in Words)
<1>0. <<>> \in Seq(Answers)
  OBVIOUS
<1>1. CASE q \in [type : Acks, id : Words]
  <2>1. p = q
    BY <1>1 DEF SameBut, Wraps, Overruns, Acks
  <2>2. p.type \in Acks /\ p.id \in Words
    BY <1>1, <2>1
  <2>3. /\ p.type = "pubrec" => Answer(p) = <<Ack("pubrel", p.id)>>
        /\ p.type = "pubrel" => Answer(p) = <<Ack("pubcomp", p.id)>>
        /\ p.type \notin {"pubrec", "pubrel"} => Answer(p) = <<>>
    BY <2>2 DEF Answer, Acks
  <2>4. "pubrel" \in Replies /\ "pubcomp" \in Replies
    BY DEF Replies
  <2>5. <<Ack("pubrel", p.id)>> \in Seq(Answers) /\ <<Ack("pubcomp", p.id)>> \in Seq(Answers)
    BY <2>2, <2>4, AckIsAnAck, Zenon
  <2>6. Answer(p) \in Seq(Answers)
    BY <1>0, <2>3, <2>5
  <2> QED BY <2>2, <2>6, Zenon
<1>2. CASE q \in Publications
  <2>1. q.type = "publish" /\ q.qos \in 0 .. 2 /\ q.id \in Words /\ q \in Publications
    BY <1>2 DEF Publications
  <2>2. p.type = "publish" /\ p.qos = q.qos /\ p.id = q.id
    <3>1. p = q \/ \E y : p = [q EXCEPT !.payload = y]
      BY <2>1 DEF SameBut, Overruns
    <3>2. ASSUME NEW y, p = [q EXCEPT !.payload = y]
          PROVE  p.type = q.type /\ p.qos = q.qos /\ p.id = q.id
      BY <2>1, <3>2 DEF Publications
    <3> QED BY <2>1, <3>1, <3>2, Zenon
  <2>3. /\ p.qos = 1 => Answer(p) = <<Ack("puback", p.id)>>
        /\ p.qos = 2 => Answer(p) = <<Ack("pubrec", p.id)>>
        /\ p.qos \notin {1, 2} => Answer(p) = <<>>
    BY <2>2 DEF Answer
  <2>4. "puback" \in Replies /\ "pubrec" \in Replies /\ p.id \in Words /\ p.type # "pubrel"
    BY <2>1, <2>2 DEF Replies
  <2>5. Answer(p) \in Seq(Answers)
    <3>1. <<Ack("puback", p.id)>> \in Seq(Answers) /\ <<Ack("pubrec", p.id)>> \in Seq(Answers)
      BY <2>4, AckIsAnAck, Zenon
    <3> HIDE DEF Good
    <3> QED BY <1>0, <2>3, <3>1
  <2> QED BY <2>4, <2>5, Zenon
<1>3. CASE q \in Subscribes /\ Fits(q)
  <2>1. p = q /\ p.type = "subscribe" /\ p.id \in Words
        /\ p.filters \in Seq([path : Strings, qos : Byte])
    BY <1>3 DEF SameBut, Wraps, Overruns, Subscribes
  <2> DEFINE c == [i \in DOMAIN p.filters |-> Code(p.filters[i])]   n == Len(p.filters)
  <2>2. c \in Seq(Codes) /\ Len(c) = n
    <3> DEFINE F == [path : Strings, qos : Byte]
    <3>1. p.filters \in Seq(F)
      BY <2>1
    <3> HIDE DEF F
    <3>2. n \in Nat /\ DOMAIN p.filters = 1 .. n /\ \A i \in 1 .. n : p.filters[i] \in F
      BY <3>1
    <3>3. \A i \in 1 .. n : Code(p.filters[i]) \in Codes
      BY DEF Code, Codes
    <3>4. c = [i \in 1 .. n |-> Code(p.filters[i])]
      BY <3>2
    <3> HIDE DEF c, n
    <3> QED BY <3>2, <3>3, <3>4
  <2>3. 2 + Len(c) \in BodyLengths
    <3>1. n \in Nat /\ n + 2 <= Len(Body(p, 16))
      BY <1>3, <2>1, SubscribeIsLong, Zenon
    <3>2. FirstByte(p) \in Byte /\ Body(p, 16) \in Seq(Byte)
      BY <1>3, <2>1, SubscribeIsRead, Zenon DEF Reads
    <3>3. Len(Body(p, 16)) \in Nat /\ Len(Body(p, 16)) < 268435456
      BY <1>3, <2>1, <3>2, SMT DEF Fits
    <3> DEFINE l == Len(Body(p, 16))
    <3> HIDE DEF c, n, l
    <3>4. n \in Nat /\ n + 2 <= l /\ l \in Nat /\ l < 268435456
      BY <3>1, <3>3, SMT DEF l
    <3> QED BY <2>2, <3>4, SMT DEF BodyLengths
  <2>4. Suback(p.id, c) \in Answers
    <3> HIDE DEF c
    <3>1. Suback(p.id, c) \in [type : {"suback"}, id : Words, codes : Seq(Codes)]
          /\ Suback(p.id, c).codes = c
      BY <2>1, <2>2 DEF Suback
    <3> QED BY <2>3, <3>1, Zenon DEF Answers, Subacks
  <2>5. Answer(p) = <<Suback(p.id, c)>>
    BY <2>1 DEF Answer
  <2> DEFINE a == Suback(p.id, c)
  <2> HIDE DEF a
  <2>6. a \in Answers
    BY <2>4, Zenon DEF a
  <2>7. <<a>> \in Seq(Answers)
    BY <2>6
  <2> QED BY <2>1, <2>5, <2>7 DEF a
<1>4. CASE q \in Unsubscribes
  <2>1. p.type = "unsubscribe" /\ p.id \in Words
    BY <1>4 DEF SameBut, Wraps, Unsubscribes
  <2>2. Answer(p) = <<Suback(p.id, <<>>)>>
    BY <2>1 DEF Answer
  <2> DEFINE a == Suback(p.id, <<>>)
  <2>3. a \in [type : {"suback"}, id : Words, codes : Seq(Codes)] /\ a.codes = <<>>
    BY <2>1 DEF Suback
  <2> HIDE DEF a
  <2>4. 2 + Len(a.codes) \in BodyLengths
    <3>1. Len(a.codes) = 0
      BY <2>3
    <3> QED BY <3>1, SMT DEF BodyLengths
  <2>5. a \in Answers
    BY <2>3, <2>4, Zenon DEF Answers, Subacks
  <2>6. <<a>> \in Seq(Answers)
    BY <2>5
  <2> QED BY <2>1, <2>2, <2>6 DEF a
<1>5. CASE q \in Connects \cup [type : NoBody]
  <2>1. p = q /\ p.type \in {"connect", "pingreq", "pingresp", "disconnect"}
    BY <1>5 DEF SameBut, Wraps, Overruns, Connects, NoBody
  <2>2. Answer(p) = <<>> /\ p.type # "pubrel"
    BY <2>1 DEF Answer
  <2> QED BY <1>0, <2>2
<1>6. \/ q \in Publications
      \/ q \in Connects \cup [type : NoBody]
      \/ q \in Subscribes /\ Fits(q)
      \/ q \in Unsubscribes
      \/ q \in [type : Acks, id : Words]
  BY KindsOfPackets, Zenon DEF Kinds
<1> QED BY <1>1, <1>2, <1>3, <1>4, <1>5, <1>6, Zenon

-----------------------------------------------------------------------------
(* What the reader finds at the head of its stream. *)
AtHead(w) ==
  /\ live[w]
  /\ derailed[w] => Parse(up[w], MaxLen).packet = Refused
  /\ ~derailed[w] =>
       /\ meant[w] # <<>> /\ Head(meant[w]) \in Packets /\ Tail(meant[w]) \in Seq(Packets)
       /\ Stream(Tail(meant[w])) \in Seq(Byte)
       /\ Got(Head(meant[w]), Stream(Tail(meant[w])), Parse(up[w], MaxLen))

(* It is the packet that the client has sent, or an error. *)
LEMMA HeadIsGot ==
  ASSUME WireOK, NEW w \in Senders, up[w] # <<>>
  PROVE  AtHead(w)
<1> DEFINE u == up[w]   s == meant[w]
<1>1. InOrder(w) /\ u \in Seq(Byte) /\ s \in Seq(Packets) /\ u # <<>>
  BY DEF WireOK
<1> HIDE DEF u, s
<1>2. live[w]
  BY <1>1, Zenon DEF InOrder, u
<1>3. ASSUME derailed[w]
      PROVE  Parse(u, MaxLen).packet = Refused
  <2>1. Derails(u)
    BY <1>1, <1>2, <1>3, Zenon DEF InOrder, u
  <2> QED BY <2>1, DerailedIsRefused, Zenon
<1>4. ASSUME ~derailed[w]
      PROVE  /\ s # <<>> /\ Head(s) \in Packets /\ Tail(s) \in Seq(Packets)
             /\ Stream(Tail(s)) \in Seq(Byte)
             /\ Got(Head(s), Stream(Tail(s)), Parse(u, MaxLen))
  <2>1. u = Stream(s)
    BY <1>1, <1>4, Zenon DEF InOrder, u, s
  <2>2. s # <<>>
    BY <1>1, <2>1, StreamOfNothing, Zenon
  <2> DEFINE h == Head(s)   t == Tail(s)
  <2>3. h \in Packets /\ t \in Seq(Packets) /\ u = Standard(h) \o Stream(t)
    BY <1>1, <2>1, <2>2, StreamBegins, Zenon
  <2> HIDE DEF h, t
  <2>4. Stream(t) \in Seq(Byte)
    BY <2>3, SpeltInPieces, Zenon
  <2>5. Begins(h, Stream(t))
    BY <2>3, <2>4, PacketsAreUnderstood, Zenon DEF Understood
  <2>6. Got(h, Stream(t), Parse(u, MaxLen))
    BY <2>3, <2>5, Zenon DEF Begins
  <2> QED BY <2>2, <2>3, <2>4, <2>6, Zenon DEF h, t
<1> QED BY <1>2, <1>3, <1>4, Zenon DEF AtHead, u, s

(* At the start the wires are empty, but for a CONNACK. *)
LEMMA WireInit == ExchangeInit => WireOK
<1> SUFFICES ASSUME ExchangeInit PROVE WireOK
  OBVIOUS
<1>1. /\ live = [w \in Senders |-> TRUE] /\ derailed = [w \in Senders |-> FALSE]
      /\ up = [w \in Senders |-> <<>>] /\ meant = [w \in Senders |-> <<>>]
      /\ queue = [w \in Senders |-> IF w \in Fresh THEN <<Connack>> ELSE <<>>]
      /\ down = [w \in Senders |-> <<>>] /\ owed = [w \in Senders |-> None]
  BY DEF ExchangeInit
<1>2. \A w \in Senders : InOrder(w)
  BY <1>1, StreamOfNothing, Zenon DEF InOrder
<1>3. <<Connack>> \in Seq(Answers)
  <2>1. Connack \in Answers
    BY Zenon DEF Answers
  <2> QED BY <2>1
<1> QED BY <1>1, <1>2, <1>3 DEF WireOK

(* The end of a connection empties its wires. *)
LEMMA EndKeepsWires ==
  ASSUME WireOK, NEW w \in Senders, End(w), UNCHANGED <<owed, derailed>>
  PROVE  WireOK'
<1>1. /\ live' = [live EXCEPT ![w] = FALSE]
      /\ up' = [up EXCEPT ![w] = <<>>] /\ meant' = [meant EXCEPT ![w] = <<>>]
      /\ down' = [down EXCEPT ![w] = <<>>] /\ queue' = [queue EXCEPT ![w] = <<>>]
      /\ owed' = owed /\ derailed' = derailed
  BY DEF End
<1>2. /\ live' \in [Senders -> BOOLEAN] /\ derailed' \in [Senders -> BOOLEAN]
      /\ up' \in [Senders -> Seq(Byte)] /\ meant' \in [Senders -> Seq(Packets)]
      /\ queue' \in [Senders -> Seq(Answers)] /\ down' \in [Senders -> Seq(Posted \cup Answers)]
      /\ owed' \in [Senders -> Words \cup {None}]
  BY <1>1 DEF WireOK
<1>3. /\ ~live'[w] /\ up'[w] = <<>> /\ meant'[w] = <<>> /\ down'[w] = <<>> /\ queue'[w] = <<>>
      /\ \A v \in Senders \ {w} :
           /\ live'[v] = live[v] /\ up'[v] = up[v] /\ meant'[v] = meant[v] /\ down'[v] = down[v]
           /\ queue'[v] = queue[v]
      /\ \A v \in Senders : derailed'[v] = derailed[v]
  BY <1>1 DEF WireOK
<1>4. \A v \in Senders : InOrder(v)'
  BY <1>3, StreamOfNothing, ZenonT(30) DEF InOrder, WireOK
<1> QED BY <1>2, <1>4, Zenon DEF WireOK

(* What a client says goes behind what it has said. *)
LEMMA SayKeepsWires ==
  ASSUME WireOK, NEW w \in Senders, NEW packets \in Seq(Packets), Say(w, packets), live[w],
         UNCHANGED <<owed, derailed, queue, live>>,
         down' \in [Senders -> Seq(Posted \cup Answers)],
         \A v \in Senders \ {w} : down'[v] = down[v]
  PROVE  WireOK'
<1>1. /\ up' = [up EXCEPT ![w] = up[w] \o Stream(packets)]
      /\ meant' = [meant EXCEPT ![w] = meant[w] \o packets]
  BY DEF Say
<1> DEFINE s == Stream(packets)   u == up[w] \o s   m == meant[w] \o packets
<1>2. up[w] \in Seq(Byte) /\ meant[w] \in Seq(Packets) /\ InOrder(w)
  BY DEF WireOK
<1>3. s \in Seq(Byte)
  BY SpeltInPieces, Zenon
<1>4. Stream(m) = Stream(meant[w]) \o s /\ m \in Seq(Packets)
  BY <1>2, StreamGrows, Zenon
<1> HIDE DEF s
<1>5. u \in Seq(Byte)
  BY <1>2, <1>3
<1>6. ~derailed[w] => u = Stream(m)
  BY <1>2, <1>4, Zenon DEF InOrder
<1>7. derailed[w] => Derails(u)
  BY <1>2, <1>3, DerailedStays, Zenon DEF InOrder
<1> HIDE DEF u, m
<1>8. up' = [up EXCEPT ![w] = u] /\ meant' = [meant EXCEPT ![w] = m]
  BY <1>1, Zenon DEF u, m, s
<1>9. /\ live' \in [Senders -> BOOLEAN] /\ derailed' \in [Senders -> BOOLEAN]
      /\ up' \in [Senders -> Seq(Byte)] /\ meant' \in [Senders -> Seq(Packets)]
      /\ queue' \in [Senders -> Seq(Answers)] /\ down' \in [Senders -> Seq(Posted \cup Answers)]
      /\ owed' \in [Senders -> Words \cup {None}]
  BY <1>4, <1>5, <1>8 DEF WireOK
<1>10. /\ up'[w] = u /\ meant'[w] = m /\ live'[w]
       /\ \A v \in Senders \ {w} :
            /\ up'[v] = up[v] /\ meant'[v] = meant[v] /\ down'[v] = down[v]
       /\ live' = live /\ derailed' = derailed /\ queue' = queue
  BY <1>8 DEF WireOK
<1>11. ASSUME NEW v \in Senders
       PROVE  InOrder(v)'
  <2>1. CASE v = w
    BY <1>6, <1>7, <1>10, <2>1, Zenon DEF InOrder
  <2>2. CASE v # w
    <3>1. InOrder(v)
      BY DEF WireOK
    <3> QED BY <1>10, <2>2, <3>1, Zenon DEF InOrder
  <2> QED BY <2>1, <2>2, Zenon
<1> QED BY <1>9, <1>11, Zenon DEF WireOK

(* The reader takes one packet from the stream, and answers it, or its
   connection ends. *)
LEMMA ReceiveKeepsWires ==
  ASSUME WireOK, NEW w \in Senders, Receive(w)
  PROVE  WireOK'
<1> DEFINE r == Parse(up[w], MaxLen)   p == r.packet   q == Head(meant[w])   t == Tail(meant[w])
<1>1. up[w] # <<>> /\ AtHead(w)
  BY HeadIsGot DEF Receive
<1>2. CASE Ends(p)
  <2>1. End(w) /\ UNCHANGED <<owed, derailed>>
    BY <1>2 DEF Receive
  <2> QED BY <2>1, EndKeepsWires, Zenon
<1>3. CASE ~Ends(p)
  <2>1. /\ queue' = [queue EXCEPT ![w] = @ \o Answer(p)]
        /\ owed' = [owed EXCEPT ![w] = IF p.type = "pubrel" THEN p.id ELSE None]
        /\ up' = [up EXCEPT ![w] = r.rest] /\ meant' = [meant EXCEPT ![w] = t]
        /\ derailed' = [derailed EXCEPT ![w] = Overruns(q)]
        /\ down' = down /\ live' = live
    BY <1>3, Zenon DEF Receive, Enqueue
  <2>2. p # Refused
    BY <1>3 DEF Ends, Refused
  <2> HIDE DEF r, q, t
  <2>3. /\ live[w] /\ ~derailed[w] /\ q \in Packets /\ t \in Seq(Packets)
        /\ Stream(t) \in Seq(Byte) /\ Got(q, Stream(t), r)
    BY <1>1, <2>2, Zenon DEF AtHead, r, q, t
  <2>4. /\ Overruns(q) => p.type = "unsubscribe" /\ p.id = q.id /\ Derails(r.rest)
        /\ ~Overruns(q) => r.rest = Stream(t) /\ SameBut(q, p)
    BY <2>2, <2>3, Zenon DEF Got
  <2>5. r.rest \in Seq(Byte)
    BY <2>3, <2>4, Zenon DEF Derails
  <2>6. Answer(p) \in Seq(Answers) /\ (p.type = "pubrel" => p.id \in Words)
    BY <2>3, <2>4, AnswersAreAnswers, Zenon
  <2> DEFINE a == Answer(p)   i == IF p.type = "pubrel" THEN p.id ELSE None   x == r.rest
             o == Overruns(q)
  <2>7. i \in Words \cup {None} /\ o \in BOOLEAN
    BY <2>6 DEF Overruns
  <2> HIDE DEF a, i, x, o
  <2>8. /\ live' \in [Senders -> BOOLEAN] /\ derailed' \in [Senders -> BOOLEAN]
        /\ up' \in [Senders -> Seq(Byte)] /\ meant' \in [Senders -> Seq(Packets)]
        /\ queue' \in [Senders -> Seq(Answers)] /\ down' \in [Senders -> Seq(Posted \cup Answers)]
        /\ owed' \in [Senders -> Words \cup {None}]
    <3>1. /\ queue' = [queue EXCEPT ![w] = @ \o a] /\ owed' = [owed EXCEPT ![w] = i]
          /\ up' = [up EXCEPT ![w] = x] /\ meant' = [meant EXCEPT ![w] = t]
          /\ derailed' = [derailed EXCEPT ![w] = o] /\ down' = down /\ live' = live
      BY <2>1, Zenon DEF a, i, x, o
    <3>2. a \in Seq(Answers) /\ x \in Seq(Byte)
      BY <2>5, <2>6, Zenon DEF a, x
    <3> QED BY <2>3, <2>7, <3>1, <3>2 DEF WireOK
  <2>9. /\ up'[w] = x /\ meant'[w] = t /\ derailed'[w] = o /\ live'[w]
        /\ \A v \in Senders \ {w} :
             /\ up'[v] = up[v] /\ meant'[v] = meant[v] /\ derailed'[v] = derailed[v]
             /\ queue'[v] = queue[v]
        /\ live' = live /\ down' = down
    BY <2>1, <2>3 DEF WireOK, x, o
  <2>10. o => Derails(x)
    BY <2>4, Zenon DEF o, x
  <2>11. ~o => x = Stream(t)
    BY <2>4, Zenon DEF o, x
  <2>12. ASSUME NEW v \in Senders
         PROVE  InOrder(v)'
    <3>1. CASE v = w
      BY <2>9, <2>10, <2>11, <3>1, Zenon DEF InOrder
    <3>2. CASE v # w
      <4>1. InOrder(v)
        BY DEF WireOK
      <4> QED BY <2>9, <3>2, <4>1, Zenon DEF InOrder
    <3> QED BY <3>1, <3>2, Zenon
  <2> QED BY <2>8, <2>12, Zenon DEF WireOK
<1> QED BY <1>2, <1>3, Zenon

(* What is written goes behind what has been written. *)
LEMMA SentKeepsWires ==
  ASSUME WireOK, NEW w \in Senders, NEW p \in Posted \cup Answers, down' = Sent(w, p),
         UNCHANGED <<up, meant, owed, derailed, live>>,
         queue' \in [Senders -> Seq(Answers)], \A v \in Senders : queue[v] = <<>> => queue'[v] = <<>>
  PROVE  WireOK'
<1>1. down' = IF live[w] THEN [down EXCEPT ![w] = Append(@, p)] ELSE down
  BY DEF Sent
<1>2. down' \in [Senders -> Seq(Posted \cup Answers)]
  BY <1>1 DEF WireOK
<1>3. \A v \in Senders : ~live[v] => down'[v] = down[v]
  BY <1>1 DEF WireOK
<1>4. ASSUME NEW v \in Senders
      PROVE  InOrder(v)'
  <2>1. InOrder(v)
    BY DEF WireOK
  <2> QED BY <1>3, <2>1, Zenon DEF InOrder
<1> QED BY <1>2, <1>4, Zenon DEF WireOK

(* What a writer writes of a publication. *)
LEMMA OnTheWireIsPosted ==
  ASSUME PlaceOK, NEW w \in Senders, place[w] = "write"
  PROVE  /\ OnTheWire(w) \in Posted /\ OnTheWire(w).id = ident[message[w]]
         /\ OnTheWire(w).type = "publish"
<1>1. message[w] \in Messages /\ ident[message[w]] \in Words
  BY IdsAreWords DEF PlaceOK
<1>2. Content \in [Messages -> Posted]
  BY ExchangeAssumption, Zenon DEF ExchangeAssumption, Posted
<1>3. Content[message[w]] \in Posted
  BY <1>1, <1>2
<1> QED BY <1>1, <1>3, IdentifiedIsPosted, Zenon DEF OnTheWire

(* The client's answer is a packet. *)
Response(p) ==
  CASE p.type = "publish" -> <<Ack(IF p.qos = 1 THEN "puback" ELSE "pubrec", p.id)>>
    [] p.type = "pubrec" -> <<Ack("pubrel", p.id)>>
    [] p.type = "pubrel" -> <<Ack("pubcomp", p.id)>>
    [] OTHER -> <<>>

(* It is, for whatever the broker has written. *)
LEMMA ResponsesArePackets ==
  ASSUME NEW p \in Posted \cup Answers
  PROVE  Response(p) \in Seq(Packets)
<1>1. p.type \in {"publish", "pubrec", "pubrel"} => p.id \in Words
  BY DEF Posted, Publications, Answers, Subacks, Connack, Bare
<1>2. {"puback", "pubrec", "pubrel", "pubcomp"} = Replies
  BY DEF Replies
<1>3. p.type \in {"publish", "pubrec", "pubrel"} => \A t \in Replies : <<Ack(t, p.id)>> \in Seq(Packets)
  BY <1>1, AckIsAnAck, Zenon
<1>4. <<>> \in Seq(Packets)
  OBVIOUS
<1>5. \/ p.type = "publish" /\ Response(p) = <<Ack(IF p.qos = 1 THEN "puback" ELSE "pubrec", p.id)>>
      \/ p.type = "pubrec" /\ Response(p) = <<Ack("pubrel", p.id)>>
      \/ p.type = "pubrel" /\ Response(p) = <<Ack("pubcomp", p.id)>>
      \/ Response(p) = <<>>
  BY DEF Response
<1> QED BY <1>1, <1>2, <1>3, <1>4, <1>5

(* Each step keeps the wires in order. *)
LEMMA WireStep ==
  ASSUME PlaceOK, WireOK, [ExchangeNext]_exchangeVars
  PROVE  WireOK'
<1>1. ASSUME UNCHANGED <<up, meant, queue, down, live, derailed>>, owed' \in [Senders -> Words \cup {None}]
      PROVE  WireOK'
  <2>1. ASSUME NEW v \in Senders
        PROVE  InOrder(v)'
    <3>1. InOrder(v)
      BY DEF WireOK
    <3> QED BY <1>1, <3>1, Zenon DEF InOrder
  <2> QED BY <1>1, <2>1, Zenon DEF WireOK
<1>2. ASSUME UNCHANGED <<up, meant, queue, down, live, derailed, owed>>
      PROVE  WireOK'
  <2>1. owed' \in [Senders -> Words \cup {None}]
    BY <1>2 DEF WireOK
  <2> QED BY <1>1, <1>2, <2>1, Zenon
<1>3. ASSUME NEW w \in Senders, WritePublish(w)
      PROVE  WireOK'
  <2>1. place[w] = "write" /\ down' = Sent(w, OnTheWire(w))
        /\ UNCHANGED <<up, meant, owed, derailed, live, queue>>
    BY <1>3 DEF WritePublish, Writing, clientVars
  <2>2. OnTheWire(w) \in Posted \cup Answers
    BY <2>1, OnTheWireIsPosted, Zenon
  <2>3. queue' \in [Senders -> Seq(Answers)] /\ \A v \in Senders : queue[v] = <<>> => queue'[v] = <<>>
    BY <2>1 DEF WireOK
  <2> QED BY <2>1, <2>2, <2>3, SentKeepsWires, Zenon
<1>4. ASSUME NEW w \in Senders, WriteOwn(w)
      PROVE  WireOK'
  <2>1. /\ queue[w] # <<>> /\ queue' = [queue EXCEPT ![w] = Tail(@)] /\ down' = Sent(w, Head(queue[w]))
        /\ UNCHANGED <<up, meant, owed, derailed, live>>
    BY <1>4 DEF WriteOwn, clientVars, ghosts
  <2>2. queue[w] \in Seq(Answers)
    BY DEF WireOK
  <2>3. Head(queue[w]) \in Posted \cup Answers /\ Tail(queue[w]) \in Seq(Answers)
    BY <2>1, <2>2
  <2>4. queue' \in [Senders -> Seq(Answers)] /\ \A v \in Senders : queue[v] = <<>> => queue'[v] = <<>>
    BY <2>1, <2>3 DEF WireOK
  <2> QED BY <2>1, <2>3, <2>4, SentKeepsWires, Zenon
<1>13. ASSUME NEW w \in Senders, Ping(w)
       PROVE  WireOK'
  <2>1. /\ live[w] /\ queue' = [queue EXCEPT ![w] = @ \o <<Bare("pingreq")>>]
        /\ UNCHANGED <<up, meant, owed, derailed, live, down>>
    BY <1>13 DEF Ping, Enqueue, clientVars, ghosts
  <2>2. <<Bare("pingreq")>> \in Seq(Answers)
    <3>1. Bare("pingreq") \in Answers
      BY Zenon DEF Answers
    <3> QED BY <3>1
  <2>3. queue' \in [Senders -> Seq(Answers)] /\ \A v \in Senders \ {w} : queue'[v] = queue[v]
    BY <2>1, <2>2 DEF WireOK
  <2>4. ASSUME NEW v \in Senders
        PROVE  InOrder(v)'
    <3>1. InOrder(v)
      BY DEF WireOK
    <3> QED BY <2>1, <2>3, <3>1, Zenon DEF InOrder
  <2> QED BY <2>1, <2>3, <2>4, Zenon DEF WireOK
<1>5. ASSUME NEW w \in Senders, Settle(w)
      PROVE  WireOK'
  <2>1. owed' = [owed EXCEPT ![w] = None] /\ UNCHANGED <<up, meant, queue, down, live, derailed>>
    BY <1>5 DEF Settle, clientVars
  <2>2. owed' \in [Senders -> Words \cup {None}]
    BY <2>1 DEF WireOK
  <2> QED BY <1>1, <2>1, <2>2, Zenon
<1>6. ASSUME NEW w \in Senders, Break(w)
      PROVE  WireOK'
  <2>1. End(w) /\ UNCHANGED <<owed, derailed>>
    BY <1>6 DEF Break
  <2> QED BY <2>1, EndKeepsWires, Zenon
<1>7. ASSUME NEW w \in Senders, Respond(w)
      PROVE  WireOK'
  <2>1. /\ down[w] # <<>> /\ down' = [down EXCEPT ![w] = Tail(@)]
        /\ Say(w, Response(Head(down[w])))
        /\ UNCHANGED <<owed, derailed, queue, live>>
    BY <1>7, Zenon DEF Respond, Response, ghosts
  <2>2. down[w] \in Seq(Posted \cup Answers) /\ InOrder(w)
    BY DEF WireOK
  <2>3. Head(down[w]) \in Posted \cup Answers /\ Tail(down[w]) \in Seq(Posted \cup Answers)
    BY <2>1, <2>2
  <2>4. Response(Head(down[w])) \in Seq(Packets)
    BY <2>3, ResponsesArePackets, Zenon
  <2>5. live[w]
    BY <2>1, <2>2, Zenon DEF InOrder
  <2>6. down' \in [Senders -> Seq(Posted \cup Answers)] /\ \A v \in Senders \ {w} : down'[v] = down[v]
    BY <2>1, <2>3 DEF WireOK
  <2> QED BY <2>1, <2>4, <2>5, <2>6, SayKeepsWires, Zenon
<1>8. ASSUME NEW w \in Senders, NEW packets \in Says[w], ClientSays(w, packets)
      PROVE  WireOK'
  <2>1. /\ live[w] /\ Say(w, packets) /\ UNCHANGED <<owed, derailed, queue, live, down>>
    BY <1>8 DEF ClientSays
  <2>2. packets \in Seq(Packets)
    <3>1. Says[w] \subseteq Seq(Sayable)
      BY ExchangeAssumption DEF ExchangeAssumption
    <3>2. Sayable \subseteq Packets
      BY DEF Packets
    <3>3. packets \in Seq(Sayable)
      BY <3>1
    <3> QED BY <3>2, <3>3
  <2>3. down' \in [Senders -> Seq(Posted \cup Answers)] /\ \A v \in Senders \ {w} : down'[v] = down[v]
    BY <2>1 DEF WireOK
  <2> QED BY <2>1, <2>2, <2>3, SayKeepsWires, Zenon
<1>9. ASSUME NEW w \in Senders, \/ \E m \in Carries[w] : Take(w, m)
                                \/ RegisterMessage(w) \/ Assign(w)
      PROVE  UNCHANGED <<up, meant, queue, down, live, derailed, owed>>
  BY <1>9 DEF Take, RegisterMessage, Assign, clientVars, ghosts
<1>10. ASSUME NEW m \in Shared, Elsewhere(m)
       PROVE  UNCHANGED <<up, meant, queue, down, live, derailed, owed>>
  BY <1>10 DEF Elsewhere, clientVars, ghosts
<1>11. CASE UNCHANGED exchangeVars
  <2>1. UNCHANGED <<up, meant, queue, down, live, derailed, owed>>
    BY <1>11 DEF exchangeVars, clientVars, ghosts
  <2> QED BY <1>2, <2>1
<1>12. CASE ExchangeNext
  BY <1>12, <1>2, <1>3, <1>4, <1>5, <1>6, <1>7, <1>8, <1>9, <1>10, <1>13, ReceiveKeepsWires
     DEF ExchangeNext, Writer, Reader
<1> QED BY <1>11, <1>12

(* So the wires stay in order. *)
LEMMA WiresAreOK == ExchangeSpec => [](TypeOK /\ PlaceOK /\ WireOK)
<1>1. ExchangeInit => WireOK
  BY WireInit
<1>2. PlaceOK /\ WireOK /\ [ExchangeNext]_exchangeVars => WireOK'
  BY WireStep
<1> QED BY <1>1, <1>2, PlacesAreOK, PTL DEF ExchangeSpec

(* The reader sees the packets that the client has sent: each one whole and in
   order, whatever the clients send and however much of it is under way, with
   the exceptions that InStep names. *)
THEOREM ReaderStaysInStep == ExchangeSpec => []InStep
<1>1. WireOK => InStep
  <2> SUFFICES ASSUME WireOK, NEW w \in Senders, up[w] # <<>>
               PROVE  LET p == Parse(up[w], MaxLen).packet IN
                        IF derailed[w] THEN p = Refused
                        ELSE LET q == Head(meant[w]) IN
                               IF TooLong(q) THEN p = Refused
                               ELSE \/ p = q \/ Overruns(q)
                                    \/ Wraps(q) /\ p = [q EXCEPT !.payload = p.payload]
    BY Zenon DEF InStep
  <2> DEFINE p == Parse(up[w], MaxLen).packet   q == Head(meant[w])
  <2>1. AtHead(w)
    BY HeadIsGot, Zenon
  <2>2. CASE derailed[w]
    BY <2>1, <2>2, Zenon DEF AtHead
  <2>3. CASE ~derailed[w]
    <3>1. /\ q \in Packets
          /\ TooLong(q) => p = Refused
          /\ ~TooLong(q) /\ ~Overruns(q) => SameBut(q, p)
      BY <2>1, <2>3, Zenon DEF AtHead, Got
    <3> HIDE DEF p, q
    <3>2. ASSUME Wraps(q), NEW y, p = [q EXCEPT !.payload = y]
          PROVE  p = [q EXCEPT !.payload = p.payload]
      <4>1. q.type = "publish"
        BY <3>2, SMT DEF Wraps
      <4>2. q \in Publications
        <5>1. q \in Publications \/ q.type # "publish"
          BY <3>1, SMT DEF Packets, Sayable, Connects, Subscribes, Unsubscribes, Acks, NoBody
        <5> QED BY <4>1, <5>1
      <4>3. p.payload = y
        BY <3>2, <4>2 DEF Publications
      <4> QED BY <3>2, <4>3
    <3>3. SameBut(q, p) => p = q \/ (Wraps(q) /\ p = [q EXCEPT !.payload = p.payload])
      BY <3>2, Zenon DEF SameBut
    <3>4. IF TooLong(q) THEN p = Refused
          ELSE p = q \/ Overruns(q) \/ (Wraps(q) /\ p = [q EXCEPT !.payload = p.payload])
      BY <3>1, <3>3, Zenon
    <3> QED BY <2>3, <3>4, Zenon DEF p, q
  <2> QED BY <2>2, <2>3, Zenon
<1> QED BY <1>1, WiresAreOK, PTL

(* What is written, but for the PINGREQ, has the standard's bytes. *)
LEMMA OutgoingIsStandard ==
  ASSUME NEW p \in Posted \cup Answers, p.type # "pingreq"
  PROVE  WriteTo(p) = Standard(p)
<1>1. CASE p \in Posted
  <2>1. p \in Publications /\ p.qos > 0 /\ Fits(p) /\ p.type = "publish"
    BY <1>1 DEF Posted, Publications
  <2>2. PublishSize(p) > 2
    <3>1. Len(p.topic) \in Nat /\ Len(p.payload) \in Nat
      BY <2>1 DEF Publications, Strings
    <3> DEFINE a == Len(p.topic)   b == Len(p.payload)
    <3>2. PublishSize(p) = 2 + a + (IF p.qos > 0 THEN 2 ELSE 0) + b
      BY Zenon DEF PublishSize
    <3>3. a \in Nat /\ b \in Nat
      BY <3>1
    <3> HIDE DEF a, b
    <3> QED BY <2>1, <3>2, <3>3
  <2>3. Body(p, 16) \in Seq(Byte) /\ Body(p, 16) = Body(p, 24) /\ Len(Body(p, 16)) = PublishSize(p)
    BY <2>1, <2>2, PublishIsRead, Zenon
  <2>4. Size(p) = PublishSize(p)
    BY <2>1 DEF Size, NoBody
  <2>5. Size(p) \in BodyLengths /\ Size(p) # 0
    <3> DEFINE n == Len(Body(p, 16))
    <3>1. n \in Nat /\ n = PublishSize(p)
      BY <2>3
    <3>2. n < 268435456
      BY <2>1, SMT DEF Fits
    <3> HIDE DEF n
    <3> QED BY <2>2, <2>4, <3>1, <3>2, SMT DEF BodyLengths
  <2>6. Size(p) = Len(Body(p, 24))
    BY <2>3, <2>4, Zenon
  <2> QED BY <2>3, <2>5, <2>6, WriteIsStandard, Zenon
<1>2. CASE p \in [type : Replies, id : Words]
  <2>0. p \in [type : Acks, id : Words]
    BY <1>2 DEF Replies, Acks
  <2>1. Body(p, 16) = Body(p, 24) /\ Size(p) = 2
    BY <2>0 DEF Body, Size, Acks, NoBody
  <2>2. Len(Body(p, 16)) = 2
    BY <2>0, AcksAreRead, Zenon
  <2>3. 2 \in BodyLengths
    BY SMT DEF BodyLengths
  <2>4. Size(p) = Len(Body(p, 24)) /\ Size(p) \in BodyLengths /\ Size(p) # 0
    BY <2>1, <2>2, <2>3
  <2> QED BY <2>1, <2>4, WriteIsStandard, Zenon
<1>3. CASE p \in Subacks
  <2>1. p.type = "suback" /\ p.id \in Words /\ p.codes \in Seq(Byte) /\ 2 + Len(p.codes) \in BodyLengths
    <3>1. p.type = "suback" /\ p.id \in Words /\ p.codes \in Seq(Codes) /\ 2 + Len(p.codes) \in BodyLengths
      BY <1>3 DEF Subacks
    <3>2. Codes \subseteq Byte
      BY DEF Codes, Byte
    <3> QED BY <3>1, <3>2
  <2>2. Body(p, 16) = Word(p.id) \o p.codes /\ Body(p, 24) = Word(p.id) \o p.codes
        /\ Size(p) = 2 + Len(p.codes)
    BY <2>1 DEF Body, Size, Acks, NoBody
  <2>3. Identified(p.id, p.codes)
    BY <2>1, IdentifiedBody, Zenon
  <2>4. Len(Word(p.id) \o p.codes) = 2 + Len(p.codes) /\ Len(p.codes) \in Nat
    BY <2>3, Zenon DEF Identified
  <2>5. Size(p) = Len(Body(p, 24)) /\ Body(p, 16) = Body(p, 24) /\ Size(p) \in BodyLengths
    BY <2>1, <2>2, <2>4, Zenon
  <2>6. Size(p) # 0
    <3> DEFINE n == Len(p.codes)
    <3>1. Size(p) = 2 + n /\ n \in Nat
      BY <2>2, <2>4, Zenon
    <3> HIDE DEF n
    <3> QED BY <3>1
  <2> QED BY <2>5, <2>6, WriteIsStandard, Zenon
<1>4. CASE p = Connack
  <2>1. Body(p, 16) = <<0, 0>> /\ Body(p, 24) = <<0, 0>> /\ Size(p) = 2
    BY <1>4 DEF Connack, Body, Size, Acks, NoBody
  <2>2. 2 \in BodyLengths /\ Len(<<0, 0>>) = 2
    BY SMT DEF BodyLengths
  <2>3. Size(p) = Len(Body(p, 24)) /\ Size(p) \in BodyLengths /\ Size(p) # 0
    BY <2>1, <2>2
  <2> QED BY <2>1, <2>3, WriteIsStandard, Zenon
<1>5. Bare("pingreq").type = "pingreq"
  BY DEF Bare
<1> QED BY <1>1, <1>2, <1>3, <1>4, <1>5, Zenon DEF Answers

(* The identifier 0: a writer has it in hand, or finds it in its publication,
   only when a counter has restarted; and so it is with what has been written. *)
HandOK(w) ==
  place[w] \in {"assign", "write"} =>
    /\ got[w] = 0 => wrapped
    /\ ident[message[w]] = 0 => wrapped \/ message[w] \in Shared
OfShared(p) == \E m \in Shared : p = [Content[m] EXCEPT !.id = 0]
NamesZero(p) == p.type = "publish" /\ p.id = 0
DownOK(w) ==
  \A n \in DOMAIN down[w] : NamesZero(down[w][n]) => wrapped \/ OfShared(down[w][n])
ZeroOK == \A w \in Senders : HandOK(w) /\ DownOK(w)

(* A counter that has restarted has restarted for ever. *)
LEMMA WrappedStays ==
  ASSUME TypeOK, [ExchangeNext]_exchangeVars
  PROVE  wrapped => wrapped'
<1>1. [Next]_vars
  BY StepsOfTheTable
<1> QED BY <1>1 DEF TypeOK, Next, NewID, Register, Unref, vars

(* At the start no writer has anything in hand. *)
LEMMA ZeroInit == ExchangeInit => ZeroOK
<1> SUFFICES ASSUME ExchangeInit PROVE ZeroOK
  OBVIOUS
<1>1. place = [w \in Senders |-> "idle"] /\ down = [w \in Senders |-> <<>>]
  BY DEF ExchangeInit
<1>2. ASSUME NEW w \in Senders
      PROVE  place[w] = "idle" /\ DOMAIN down[w] = {}
  BY <1>1
<1> QED BY <1>2 DEF ZeroOK, HandOK, DownOK

(* In hand: NewID gives the table no 0 before its counter restarts, and another
   session only sets the identifiers of the publications it shares. *)
LEMMA HandStep ==
  ASSUME TypeOK, FirstLapFresh, PlaceOK, \A w \in Senders : HandOK(w), [ExchangeNext]_exchangeVars
  PROVE  \A w \in Senders : HandOK(w)'
<1>0. wrapped => wrapped'
  BY WrappedStays
<1>1. ASSUME NEW w \in Senders,
             place' = [place EXCEPT ![w] = "idle"] \/ place' = [place EXCEPT ![w] = "register"],
             ident' = ident, \A v \in Senders \ {w} : message'[v] = message[v] /\ got'[v] = got[v]
      PROVE  \A v \in Senders : HandOK(v)'
  <2> SUFFICES ASSUME NEW v \in Senders PROVE HandOK(v)'
    OBVIOUS
  <2>1. CASE v = w
    <3>1. place'[w] \in {"idle", "register"}
      BY <1>1 DEF PlaceOK
    <3> QED BY <2>1, <3>1 DEF HandOK
  <2>2. CASE v # w
    <3>1. place'[v] = place[v] /\ message'[v] = message[v] /\ got'[v] = got[v]
      BY <1>1, <2>2 DEF PlaceOK
    <3>2. HandOK(v)
      OBVIOUS
    <3> QED BY <1>0, <1>1, <3>1, <3>2 DEF HandOK
  <2> QED BY <2>1, <2>2
<1>2. ASSUME UNCHANGED <<place, message, got, ident>>
      PROVE  \A v \in Senders : HandOK(v)'
  BY <1>0, <1>2 DEF HandOK
<1>3. ASSUME NEW w \in Senders, NEW m \in Carries[w], Take(w, m)
      PROVE  \A v \in Senders : HandOK(v)'
  <2>1. /\ place' = [place EXCEPT ![w] = "register"] /\ message' = [message EXCEPT ![w] = m]
        /\ got' = got /\ ident' = ident
    BY <1>3 DEF Take, Writing
  <2>2. \A v \in Senders \ {w} : message'[v] = message[v] /\ got'[v] = got[v]
    BY <2>1 DEF PlaceOK
  <2> QED BY <1>1, <2>1, <2>2
<1>4. ASSUME NEW w \in Senders, RegisterMessage(w)
      PROVE  \A v \in Senders : HandOK(v)'
  <2>1. /\ place[w] = "register" /\ place' = [place EXCEPT ![w] = "assign"]
        /\ message' = message /\ got' = [got EXCEPT ![w] = held[w]]
        /\ ident' = [ident EXCEPT ![message[w]] = held[w]] /\ wrapped' = wrapped
    BY <1>4 DEF RegisterMessage, Writing, Register
  <2>2. message[w] \in Messages /\ held[w] \in Ids
    BY <2>1 DEF PlaceOK, TypeOK
  <2>3. held[w] = 0 => wrapped
    BY <2>2 DEF FirstLapFresh, Owned
  <2> SUFFICES ASSUME NEW v \in Senders PROVE HandOK(v)'
    OBVIOUS
  <2>4. /\ v = w => got'[v] = held[w]
        /\ v # w => place'[v] = place[v] /\ got'[v] = got[v]
    BY <2>1 DEF PlaceOK
  <2>5. CASE message[v] = message[w]
    <3>1. ident'[message'[v]] = held[w]
      BY <2>1, <2>2, <2>5 DEF PlaceOK
    <3>2. got'[v] = 0 /\ place'[v] \in {"assign", "write"} => wrapped
      BY <2>3, <2>4 DEF HandOK
    <3> QED BY <2>1, <2>3, <3>1, <3>2 DEF HandOK
  <2>6. CASE message[v] # message[w]
    <3>1. v # w /\ HandOK(v) /\ place'[v] = place[v] /\ got'[v] = got[v]
      BY <2>4, <2>6
    <3>2. place[v] \in {"assign", "write"} => ident'[message'[v]] = ident[message[v]]
      BY <2>1, <2>6 DEF PlaceOK
    <3> QED BY <2>1, <3>1, <3>2 DEF HandOK
  <2> QED BY <2>5, <2>6
<1>5. ASSUME NEW w \in Senders, Assign(w)
      PROVE  \A v \in Senders : HandOK(v)'
  <2>1. /\ place[w] = "assign" /\ place' = [place EXCEPT ![w] = "write"]
        /\ message' = message /\ got' = got
        /\ ident' = [ident EXCEPT ![message[w]] = got[w]] /\ wrapped' = wrapped
    BY <1>5 DEF Assign, Writing, Assigned, tableVars
  <2>2. message[w] \in Messages /\ (got[w] = 0 => wrapped)
    BY <2>1 DEF PlaceOK, HandOK
  <2> SUFFICES ASSUME NEW v \in Senders PROVE HandOK(v)'
    OBVIOUS
  <2>3. HandOK(v) /\ (place'[v] \in {"assign", "write"} => place[v] \in {"assign", "write"})
    BY <2>1 DEF PlaceOK
  <2>4. CASE message[v] = message[w]
    <3>1. ident'[message'[v]] = got[w]
      BY <2>1, <2>2, <2>4 DEF PlaceOK
    <3> QED BY <2>1, <2>2, <2>3, <3>1 DEF HandOK
  <2>5. CASE message[v] # message[w]
    <3>1. place[v] \in {"assign", "write"} => ident'[message'[v]] = ident[message[v]]
      BY <2>1, <2>5 DEF PlaceOK
    <3> QED BY <2>1, <2>3, <3>1 DEF HandOK
  <2> QED BY <2>4, <2>5
<1>6. ASSUME NEW w \in Senders, WritePublish(w) \/ WriteOwn(w) \/ Ping(w)
      PROVE  \A v \in Senders : HandOK(v)'
  <2>1. /\ place' = [place EXCEPT ![w] = "idle"] /\ ident' = ident
        /\ message' = [message EXCEPT ![w] = None] \/ message' = message
        /\ got' = [got EXCEPT ![w] = None] \/ got' = got
    BY <1>6 DEF WritePublish, WriteOwn, Ping, Writing
  <2>2. \A v \in Senders \ {w} : message'[v] = message[v] /\ got'[v] = got[v]
    BY <2>1 DEF PlaceOK
  <2> QED BY <1>1, <2>1, <2>2
<1>7. ASSUME NEW w \in Senders, Reader(w) \/ Break(w) \/ Respond(w)
               \/ \E packets \in Says[w] : ClientSays(w, packets)
      PROVE  \A v \in Senders : HandOK(v)'
  <2>1. UNCHANGED <<place, message, got, ident>>
    BY <1>7 DEF Reader, Receive, Settle, Break, Respond, ClientSays, writerVars
  <2> QED BY <1>2, <2>1
<1>8. ASSUME NEW m \in Shared, Elsewhere(m)
      PROVE  \A v \in Senders : HandOK(v)'
  <2>1. PICK i \in Ids : ident' = [ident EXCEPT ![m] = i]
    BY <1>8 DEF Elsewhere
  <2>2. place' = place /\ message' = message /\ got' = got /\ wrapped' = wrapped
    BY <1>8 DEF Elsewhere, tableVars
  <2> SUFFICES ASSUME NEW v \in Senders PROVE HandOK(v)'
    OBVIOUS
  <2>3. HandOK(v)
    OBVIOUS
  <2>4. CASE message[v] = m
    BY <2>2, <2>3, <2>4 DEF HandOK
  <2>5. CASE message[v] # m
    <3>1. place[v] \in {"assign", "write"} => ident'[message[v]] = ident[message[v]]
      BY <2>1, <2>5 DEF PlaceOK
    <3> QED BY <2>2, <2>3, <3>1 DEF HandOK
  <2> QED BY <2>4, <2>5
<1>9. CASE UNCHANGED exchangeVars
  BY <1>2, <1>9 DEF exchangeVars, writerVars
<1>10. CASE ExchangeNext
  BY <1>10, <1>3, <1>4, <1>5, <1>6, <1>7, <1>8 DEF ExchangeNext, Writer
<1> QED BY <1>9, <1>10

(* On the wire: a packet that was not there before is what a writer has written,
   a publication under its identifier, or an answer. *)
LEMMA DownStep ==
  ASSUME TypeOK, PlaceOK, WireOK, ZeroOK, [ExchangeNext]_exchangeVars
  PROVE  \A w \in Senders : DownOK(w)'
<1>0. wrapped => wrapped'
  BY WrappedStays
<1>1. ASSUME NEW v \in Senders, \A n \in DOMAIN down'[v] : \E k \in DOMAIN down[v] : down'[v][n] = down[v][k]
      PROVE  DownOK(v)'
  BY <1>0, <1>1 DEF ZeroOK, DownOK
<1>2. ASSUME UNCHANGED down
      PROVE  \A v \in Senders : DownOK(v)'
  BY <1>1, <1>2
<1>3. ASSUME NEW w \in Senders, NEW p \in Posted \cup Answers, down' = Sent(w, p),
             NamesZero(p) => wrapped \/ OfShared(p)
      PROVE  \A v \in Senders : DownOK(v)'
  <2> SUFFICES ASSUME NEW v \in Senders PROVE DownOK(v)'
    OBVIOUS
  <2>1. CASE v = w /\ live[w]
    <3> DEFINE s == down[w]
    <3>1. s \in Seq(Posted \cup Answers) /\ down'[v] = Append(s, p)
      BY <1>3, <2>1 DEF WireOK, Sent
    <3> HIDE DEF s
    <3>2. \A n \in DOMAIN Append(s, p) : Append(s, p)[n] = p \/ \E k \in DOMAIN s : Append(s, p)[n] = s[k]
      <4> DEFINE X == Posted \cup Answers
      <4>1. s \in Seq(X) /\ p \in X
        BY <3>1
      <4> HIDE DEF X
      <4>2. \A n \in DOMAIN Append(s, p) :
              n \in 1 .. Len(s) + 1 /\ Append(s, p)[n] = IF n <= Len(s) THEN s[n] ELSE p
        BY <4>1
      <4>3. \A n \in 1 .. Len(s) + 1 : n <= Len(s) => n \in DOMAIN s
        BY <4>1
      <4> DEFINE t == Append(s, p)
      <4>4. \A n \in DOMAIN t : n \in 1 .. Len(s) + 1 /\ t[n] = IF n <= Len(s) THEN s[n] ELSE p
        BY <4>2
      <4> HIDE DEF t
      <4>5. \A n \in DOMAIN t : t[n] = p \/ \E k \in DOMAIN s : t[n] = s[k]
        BY <4>3, <4>4, Zenon
      <4> QED BY <4>5 DEF t
    <3> DEFINE Good(x) == NamesZero(x) => wrapped' \/ OfShared(x)
    <3>3. \A k \in DOMAIN s : Good(s[k])
      BY <1>0, <2>1 DEF ZeroOK, DownOK, s
    <3>4. Good(p)
      BY <1>0, <1>3
    <3>5. \A n \in DOMAIN down'[v] : down'[v][n] = p \/ \E k \in DOMAIN s : down'[v][n] = s[k]
      BY <3>1, <3>2
    <3> HIDE DEF Good
    <3>6. \A n \in DOMAIN down'[v] : Good(down'[v][n])
      BY <3>3, <3>4, <3>5
    <3> QED BY <3>6, Zenon DEF DownOK, Good
  <2>2. CASE ~(v = w /\ live[w])
    <3>1. down'[v] = down[v]
      BY <1>3, <2>2 DEF WireOK, Sent
    <3> QED BY <1>1, <3>1
  <2> QED BY <2>1, <2>2
<1>4. ASSUME NEW w \in Senders, WritePublish(w)
      PROVE  \A v \in Senders : DownOK(v)'
  <2>1. place[w] = "write" /\ down' = Sent(w, OnTheWire(w)) /\ HandOK(w)
    BY <1>4 DEF WritePublish, Writing, ZeroOK
  <2>2. OnTheWire(w) \in Posted /\ OnTheWire(w).id = ident[message[w]]
    BY <2>1, OnTheWireIsPosted, Zenon
  <2>3. ident[message[w]] = 0 => wrapped \/ OfShared(OnTheWire(w))
    BY <2>1 DEF HandOK, OfShared, OnTheWire
  <2> DEFINE p == OnTheWire(w)
  <2>4. p \in Posted \cup Answers /\ down' = Sent(w, p) /\ (p.id = 0 => wrapped \/ OfShared(p))
    BY <2>1, <2>2, <2>3
  <2> HIDE DEF p
  <2> QED BY <1>3, <2>4 DEF NamesZero
<1>5. ASSUME NEW w \in Senders, WriteOwn(w)
      PROVE  \A v \in Senders : DownOK(v)'
  <2> DEFINE h == Head(queue[w])
  <2>1. down' = Sent(w, h) /\ queue[w] # <<>> /\ queue[w] \in Seq(Answers)
    BY <1>5 DEF WriteOwn, WireOK
  <2>2. h \in Answers
    BY <2>1
  <2> HIDE DEF h
  <2>3. h.type # "publish"
    BY <2>2 DEF Answers, Subacks, Replies, Connack, Bare
  <2> QED BY <1>3, <2>1, <2>2, <2>3 DEF NamesZero
<1>6. ASSUME NEW w \in Senders, NEW x, down' = [down EXCEPT ![w] = x], x = <<>> \/ (x = Tail(down[w]) /\ down[w] # <<>>)
      PROVE  \A v \in Senders : DownOK(v)'
  <2> SUFFICES ASSUME NEW v \in Senders PROVE DownOK(v)'
    OBVIOUS
  <2>1. CASE v = w
    <3> DEFINE s == down[w]
    <3>1. s \in Seq(Posted \cup Answers) /\ down'[v] = x
      BY <1>6, <2>1 DEF WireOK
    <3> HIDE DEF s
    <3>2. x = <<>> \/ (x = Tail(s) /\ s # <<>>)
      BY <1>6 DEF s
    <3>3. \A n \in DOMAIN x : \E k \in DOMAIN s : x[n] = s[k]
      <4>1. CASE x = <<>>
        BY <4>1
      <4>2. CASE x = Tail(s) /\ s # <<>>
        <5>1. \A n \in DOMAIN x : n + 1 \in DOMAIN s /\ x[n] = s[n + 1]
          BY <3>1, <4>2
        <5> QED BY <5>1
      <4> QED BY <3>2, <4>1, <4>2
    <3> QED BY <1>1, <2>1, <3>1, <3>3 DEF s
  <2>2. CASE v # w
    <3>1. down'[v] = down[v]
      BY <1>6, <2>2 DEF WireOK
    <3> QED BY <1>1, <3>1
  <2> QED BY <2>1, <2>2
<1>7. ASSUME NEW w \in Senders, End(w)
      PROVE  \A v \in Senders : DownOK(v)'
  <2>1. down' = [down EXCEPT ![w] = <<>>]
    BY <1>7 DEF End
  <2> QED BY <1>6, <2>1
<1>8. ASSUME NEW w \in Senders, Respond(w)
      PROVE  \A v \in Senders : DownOK(v)'
  <2>1. down' = [down EXCEPT ![w] = Tail(down[w])] /\ down[w] # <<>>
    BY <1>8 DEF Respond
  <2> QED BY <1>6, <2>1
<1>9. ASSUME NEW w \in Senders, Receive(w) \/ Break(w)
      PROVE  \A v \in Senders : DownOK(v)'
  <2>1. End(w) \/ UNCHANGED down
    BY <1>9 DEF Receive, Break
  <2> QED BY <1>2, <1>7, <2>1
<1>10. ASSUME NEW w \in Senders, \/ \E m \in Carries[w] : Take(w, m)
                                 \/ RegisterMessage(w) \/ Assign(w) \/ Ping(w) \/ Settle(w)
                                 \/ \E packets \in Says[w] : ClientSays(w, packets)
       PROVE  UNCHANGED down
  BY <1>10 DEF Take, RegisterMessage, Assign, Ping, Settle, ClientSays
<1>11. ASSUME NEW m \in Shared, Elsewhere(m)
       PROVE  UNCHANGED down
  BY <1>11 DEF Elsewhere
<1>12. CASE UNCHANGED exchangeVars
  BY <1>2, <1>12 DEF exchangeVars
<1>13. CASE ExchangeNext
  BY <1>13, <1>2, <1>4, <1>5, <1>8, <1>9, <1>10, <1>11 DEF ExchangeNext, Writer, Reader
<1> QED BY <1>12, <1>13

(* What the standard lets a server send, or one of the three exceptions. *)
LEMMA OutgoingIsLawful ==
  ASSUME NEW p \in Posted \cup Answers, NamesZero(p) => wrapped \/ OfShared(p)
  PROVE  Lawful(p) \/ Excepted(p)
<1>1. CASE p \in Posted
  <2>1. p.type = "publish"
    BY <1>1 DEF Posted, Publications
  <2> QED BY <2>1 DEF Lawful, Excepted, UnderZero, OfShared, NamesZero
<1>2. CASE p \in [type : Replies, id : Words] \/ p = Connack
  <2>1. p.type \in {"connack", "puback", "pubrec", "pubrel", "pubcomp"}
    BY <1>2 DEF Replies, Connack
  <2> QED BY <2>1 DEF Lawful
<1>3. CASE p \in Subacks
  <2>1. p.type = "suback" /\ p.codes \in Seq(Codes)
    BY <1>3 DEF Subacks
  <2>2. Sq!ToSet(p.codes) \subseteq Codes
    BY <2>1 DEF Sq!ToSet
  <2>3. CASE p.codes = <<>>
    BY <2>1, <2>3 DEF Excepted
  <2>4. CASE p.codes # <<>>
    BY <2>1, <2>2, <2>4 DEF Lawful, Codes
  <2> QED BY <2>3, <2>4
<1>4. CASE p = Bare("pingreq")
  <2>1. p.type = "pingreq"
    BY <1>4 DEF Bare
  <2> QED BY <2>1 DEF Excepted
<1> QED BY <1>1, <1>2, <1>3, <1>4 DEF Answers

(* What the broker writes in an exchange is a packet that the standard lets a
   server send, in the standard's bytes, for all identifiers, topics, payloads
   and codes; but for the timer's PINGREQ, the SUBACK that answers an
   UNSUBSCRIBE, and a publication under the identifier 0, which goes out only
   after a restart of the session's counter, or as a shared publication
   (WriteTo of each packet, handler.go, the handlers of conBroker.go). *)
THEOREM WritersWriteTheStandard == ExchangeSpec => []WrittenRight
<1>1. ExchangeInit => ZeroOK
  BY ZeroInit
<1>2. TypeOK /\ FirstLapFresh /\ PlaceOK /\ WireOK /\ ZeroOK /\ [ExchangeNext]_exchangeVars => ZeroOK'
  <2> SUFFICES ASSUME TypeOK, FirstLapFresh, PlaceOK, WireOK, ZeroOK, [ExchangeNext]_exchangeVars
               PROVE  ZeroOK'
    OBVIOUS
  <2>1. \A w \in Senders : HandOK(w)
    BY DEF ZeroOK
  <2>2. \A w \in Senders : HandOK(w)'
    BY <2>1, HandStep
  <2> QED BY <2>2, DownStep DEF ZeroOK
<1>3. WireOK /\ ZeroOK => WrittenRight
  <2> SUFFICES ASSUME WireOK, ZeroOK, NEW w \in Senders, NEW i \in DOMAIN down[w]
               PROVE  LET p == down[w][i] IN
                        /\ Lawful(p) \/ Excepted(p)
                        /\ p.type # "pingreq" => WriteTo(p) = Standard(p)
    BY Zenon DEF WrittenRight
  <2> DEFINE p == down[w][i]
  <2>1. down[w] \in Seq(Posted \cup Answers)
    BY DEF WireOK
  <2>2. p \in Posted \cup Answers
    BY <2>1
  <2>3. NamesZero(p) => wrapped \/ OfShared(p)
    BY Zenon DEF ZeroOK, DownOK
  <2> HIDE DEF p
  <2>4. Lawful(p) \/ Excepted(p)
    BY <2>2, <2>3, OutgoingIsLawful, Zenon
  <2>5. p.type # "pingreq" => WriteTo(p) = Standard(p)
    BY <2>2, OutgoingIsStandard, Zenon
  <2> QED BY <2>4, <2>5, Zenon DEF p
<1> QED BY <1>1, <1>2, <1>3, WiresAreOK, ExchangesKeepIdentifiers, PTL DEF ExchangeSpec

-----------------------------------------------------------------------------
(* Where an identifier is: in a writer's hand, on the wire to a client, in a
   queue, or on the wire back. *)
Spots == {"hand", "to", "waiting", "back"}
Hit(p, types, i) == p.type \in types /\ p.id = i
Hits(s, types, i) == {n \in DOMAIN s : Hit(s[n], types, i)}
ToClient == {"publish", "pubrel"}
ToWriter == {"pubrel"}
At(k, w, i) ==
  CASE k = "hand" -> {n \in {0} : got[w] = i}
    [] k = "to" -> Hits(down[w], ToClient, i)
    [] k = "waiting" -> Hits(queue[w], ToWriter, i)
    [] k = "back" -> Hits(meant[w], ToBroker, i)

(* It is at one spot, once, or at none. *)
Single(S) == \E x : S = {x}
Nowhere(i) == \A k \in Spots, w \in Senders : At(k, w, i) = {}
Only(k, w, i) ==
  Single(At(k, w, i)) /\ \A l \in Spots, v \in Senders : l # k \/ v # w => At(l, v, i) = {}
OneFlight(i) ==
  /\ hash[i] = None => Nowhere(i)
  /\ hash[i] # None => \E k \in Spots, w \in Senders : Only(k, w, i)

(* How often it is at a spot does not change: not at all, or once. *)
Keeps(S, T) == (S = {} => T = {}) /\ (Single(S) => Single(T))

(* Nothing changes. *)
LEMMA SameKeeps ==
  ASSUME NEW S, NEW T, T = S
  PROVE  Keeps(S, T)
BY DEF Keeps

(* A packet that is put behind the others. *)
AppendHits(s, x, types, i) ==
  /\ ~Hit(x, types, i) => Hits(Append(s, x), types, i) = Hits(s, types, i)
  /\ Hit(x, types, i) => (Hits(s, types, i) = {} => Single(Hits(Append(s, x), types, i)))

(* It is one more, if it counts. *)
LEMMA HitsAppend ==
  ASSUME NEW X, NEW s \in Seq(X), NEW x \in X, NEW types, NEW i
  PROVE  AppendHits(s, x, types, i)
<1> DEFINE t == Append(s, x)   n == Len(s)
<1>1. n \in Nat /\ DOMAIN s = 1 .. n /\ DOMAIN t = 1 .. n + 1 /\ t[n + 1] = x
      /\ \A j \in 1 .. n : t[j] = s[j]
  OBVIOUS
<1> HIDE DEF t, n
<1>2. 1 .. n + 1 = (1 .. n) \cup {n + 1} /\ n + 1 \notin 1 .. n
  BY <1>1
<1>3. ~Hit(x, types, i) => Hits(t, types, i) = Hits(s, types, i)
  BY <1>1, <1>2 DEF Hits
<1>4. Hit(x, types, i) /\ Hits(s, types, i) = {} => Hits(t, types, i) = {n + 1}
  BY <1>1, <1>2 DEF Hits
<1> QED BY <1>3, <1>4, Zenon DEF t, Single, AppendHits

(* The first packet is taken. *)
TailHits(s, types, i) ==
  /\ ~Hit(Head(s), types, i) => Keeps(Hits(s, types, i), Hits(Tail(s), types, i))
  /\ Hit(Head(s), types, i) =>
       /\ Hits(s, types, i) # {}
       /\ Single(Hits(s, types, i)) => Hits(Tail(s), types, i) = {}

(* It is one less, if it counts. *)
LEMMA HitsTail ==
  ASSUME NEW X, NEW s \in Seq(X), s # <<>>, NEW types, NEW i
  PROVE  TailHits(s, types, i)
<1> DEFINE t == Tail(s)   n == Len(s)   S == Hits(s, types, i)   T == Hits(t, types, i)
<1>1. n \in Nat \ {0} /\ DOMAIN s = 1 .. n /\ DOMAIN t = 1 .. n - 1 /\ Head(s) = s[1]
      /\ \A j \in 1 .. n - 1 : t[j] = s[j + 1]
  OBVIOUS
<1> HIDE DEF t, n
<1>2. \A j \in T : j \in Nat /\ j + 1 \in S /\ j # 0
  BY <1>1 DEF Hits
<1>3. \A j \in S : j \in Nat /\ (j = 1 \/ j - 1 \in T)
  BY <1>1 DEF Hits
<1>4. 1 \in S <=> Hit(Head(s), types, i)
  BY <1>1 DEF Hits
<1> HIDE DEF S, T
<1>5. S = {} => T = {}
  BY <1>2
<1>6. ASSUME ~Hit(Head(s), types, i), NEW x, S = {x}
      PROVE  T = {x - 1}
  <2>1. x \in Nat /\ x - 1 \in T
    BY <1>3, <1>4, <1>6
  <2>2. \A j \in T : j = x - 1
    BY <1>2, <1>6, <2>1
  <2> QED BY <2>1, <2>2
<1>7. ASSUME Hit(Head(s), types, i), NEW x, S = {x}
      PROVE  T = {}
  <2>1. x = 1
    BY <1>4, <1>7
  <2> QED BY <1>2, <1>7, <2>1
<1> QED BY <1>4, <1>5, <1>6, <1>7, Zenon DEF Keeps, Single, S, T, t, TailHits

(* Packets none of which counts are put behind the others. *)
LEMMA HitsConcat ==
  ASSUME NEW X, NEW s \in Seq(X), NEW u \in Seq(X), NEW types, NEW i,
         \A j \in DOMAIN u : ~Hit(u[j], types, i)
  PROVE  Hits(s \o u, types, i) = Hits(s, types, i)
<1> DEFINE t == s \o u   n == Len(s)   m == Len(u)
<1>1. n \in Nat /\ m \in Nat /\ DOMAIN s = 1 .. n /\ DOMAIN u = 1 .. m /\ DOMAIN t = 1 .. n + m
      /\ \A j \in 1 .. n : t[j] = s[j]
  OBVIOUS
<1> DEFINE Behind(j) == t[j] = u[j - n]
<1>2. \A j \in (n + 1) .. (n + m) : Behind(j)
  OBVIOUS
<1> HIDE DEF t, n, m, Behind
<1>3. \A j \in 1 .. n + m : j \in 1 .. n \/ (j \in (n + 1) .. (n + m) /\ j - n \in 1 .. m)
  BY <1>1
<1>4. \A j \in 1 .. n : j \in 1 .. n + m
  BY <1>1
<1>5. \A j \in 1 .. n + m : Hit(t[j], types, i) <=> j \in 1 .. n /\ Hit(s[j], types, i)
  <2> SUFFICES ASSUME NEW j \in 1 .. n + m
               PROVE  Hit(t[j], types, i) <=> j \in 1 .. n /\ Hit(s[j], types, i)
    OBVIOUS
  <2>1. CASE j \in 1 .. n
    BY <1>1, <2>1
  <2>2. CASE j \notin 1 .. n
    <3>1. j \in (n + 1) .. (n + m) /\ j - n \in 1 .. m
      BY <1>3, <2>2, Zenon
    <3>2. t[j] = u[j - n] /\ j - n \in 1 .. m
      BY <1>2, <3>1, Zenon DEF Behind
    <3> QED BY <1>1, <2>2, <3>2
  <2> QED BY <2>1, <2>2
<1> QED BY <1>1, <1>4, <1>5, Zenon DEF Hits, t

(* An identifier stays where it is. *)
LEMMA StayStep ==
  ASSUME NEW i, OneFlight(i), hash'[i] = hash[i],
         \A k \in Spots, w \in Senders : Keeps(At(k, w, i), At(k, w, i)')
  PROVE  OneFlight(i)'
<1>1. ASSUME hash[i] = None
      PROVE  Nowhere(i)'
  BY <1>1, Zenon DEF OneFlight, Nowhere, Keeps
<1>2. ASSUME hash[i] # None
      PROVE  (\E k \in Spots, w \in Senders : Only(k, w, i))'
  <2>1. PICK k \in Spots, w \in Senders : Only(k, w, i)
    BY <1>2, Zenon DEF OneFlight
  <2>2. Only(k, w, i)'
    BY <2>1, Zenon DEF Only, Keeps
  <2> QED BY <2>2, Zenon
<1> QED BY <1>1, <1>2, Zenon DEF OneFlight

(* It goes from one spot of a connection to another. *)
LEMMA MoveStep ==
  ASSUME NEW i, OneFlight(i), hash'[i] = hash[i],
         NEW w \in Senders, NEW k \in Spots, NEW l \in Spots, k # l,
         At(k, w, i) # {}, Single(At(k, w, i)) => At(k, w, i)' = {},
         At(l, w, i) = {} => Single(At(l, w, i)'),
         \A m \in Spots, v \in Senders : (m # k /\ m # l) \/ v # w => Keeps(At(m, v, i), At(m, v, i)')
  PROVE  OneFlight(i)'
<1>1. hash[i] # None /\ Only(k, w, i)
  <2>1. ~Nowhere(i)
    BY Zenon DEF Nowhere
  <2>2. PICK m \in Spots, v \in Senders : Only(m, v, i)
    BY <2>1, Zenon DEF OneFlight
  <2>3. m = k /\ v = w
    BY <2>2, Zenon DEF Only
  <2> QED BY <2>1, <2>2, <2>3, Zenon DEF OneFlight
<1>2. Only(l, w, i)'
  BY <1>1, Zenon DEF Only, Keeps
<1> QED BY <1>1, <1>2, Zenon DEF OneFlight

(* Its last answer arrives, and its entry is given back. *)
LEMMA LandStep ==
  ASSUME NEW i, OneFlight(i), hash[i] # None => hash'[i] = None, NEW w \in Senders, NEW k \in Spots,
         At(k, w, i) # {}, Single(At(k, w, i)) => At(k, w, i)' = {},
         \A m \in Spots, v \in Senders : m # k \/ v # w => Keeps(At(m, v, i), At(m, v, i)')
  PROVE  OneFlight(i)'
<1>1. hash[i] # None /\ Only(k, w, i)
  <2>1. ~Nowhere(i)
    BY Zenon DEF Nowhere
  <2>2. PICK m \in Spots, v \in Senders : Only(m, v, i)
    BY <2>1, Zenon DEF OneFlight
  <2>3. m = k /\ v = w
    BY <2>2, Zenon DEF Only
  <2> QED BY <2>1, <2>2, <2>3, Zenon DEF OneFlight
<1>2. Nowhere(i)'
  BY <1>1, Zenon DEF Only, Nowhere, Keeps
<1> QED BY <1>1, <1>2, Zenon DEF OneFlight

(* The spots, one by one. *)
Kept(k, w, i) == Keeps(At(k, w, i), At(k, w, i)')

(* What stands at each. *)
LEMMA AtIs ==
  ASSUME NEW w, NEW i
  PROVE  /\ At("hand", w, i) = {n \in {0} : got[w] = i}
         /\ At("to", w, i) = Hits(down[w], ToClient, i)
         /\ At("waiting", w, i) = Hits(queue[w], ToWriter, i)
         /\ At("back", w, i) = Hits(meant[w], ToBroker, i)
         /\ At("hand", w, i)' = {n \in {0} : got'[w] = i}
         /\ At("to", w, i)' = Hits(down'[w], ToClient, i)
         /\ At("waiting", w, i)' = Hits(queue'[w], ToWriter, i)
         /\ At("back", w, i)' = Hits(meant'[w], ToBroker, i)
BY DEF At, Hits

(* A spot that a step leaves alone. *)
LEMMA SpotsKeep ==
  ASSUME NEW w, NEW i
  PROVE  /\ got'[w] = got[w] => Kept("hand", w, i)
         /\ down'[w] = down[w] => Kept("to", w, i)
         /\ queue'[w] = queue[w] => Kept("waiting", w, i)
         /\ meant'[w] = meant[w] => Kept("back", w, i)
<1>1. got'[w] = got[w] => At("hand", w, i)' = At("hand", w, i)
  BY DEF At
<1>2. down'[w] = down[w] => At("to", w, i)' = At("to", w, i)
  BY DEF At
<1>3. queue'[w] = queue[w] => At("waiting", w, i)' = At("waiting", w, i)
  BY DEF At
<1>4. meant'[w] = meant[w] => At("back", w, i)' = At("back", w, i)
  BY DEF At
<1> QED BY <1>1, <1>2, <1>3, <1>4, SameKeeps, Zenon DEF Kept

(* A step that leaves all of them alone, and the entry. *)
LEMMA StillStep ==
  ASSUME NEW i, OneFlight(i), hash'[i] = hash[i],
         \A w \in Senders : /\ got'[w] = got[w] /\ down'[w] = down[w]
                            /\ queue'[w] = queue[w] /\ meant'[w] = meant[w]
  PROVE  OneFlight(i)'
<1>1. \A k \in Spots, w \in Senders : Kept(k, w, i)
  <2> SUFFICES ASSUME NEW k \in Spots, NEW w \in Senders PROVE Kept(k, w, i)
    OBVIOUS
  <2>1. k \in {"hand", "to", "waiting", "back"}
    BY DEF Spots
  <2> QED BY <2>1, SpotsKeep
<1> QED BY <1>1, StayStep, Zenon DEF Kept

(* Of one connection, the spots that a step changes; the entry stays. *)
Touches(w, spots, i) == \A k \in Spots, v \in Senders : k \notin spots \/ v # w => Kept(k, v, i)

(* A step that keeps those as well keeps the identifier where it is. *)
LEMMA TouchStep ==
  ASSUME NEW i, NEW w \in Senders, NEW spots, Touches(w, spots, i), OneFlight(i), hash'[i] = hash[i],
         \A k \in spots : Kept(k, w, i)
  PROVE  OneFlight(i)'
<1>1. \A k \in Spots, v \in Senders : Keeps(At(k, v, i), At(k, v, i)')
  BY Zenon DEF Touches, Kept
<1> QED BY <1>1, StayStep, Zenon

(* What the wires, or a writer's hand and the wire, leave alone. *)
LEMMA TouchesOne ==
  ASSUME NEW w \in Senders, NEW i,
         \A v \in Senders \ {w} : /\ got'[v] = got[v] /\ down'[v] = down[v]
                                  /\ queue'[v] = queue[v] /\ meant'[v] = meant[v]
  PROVE  /\ got'[w] = got[w] => Touches(w, {"to", "waiting", "back"}, i)
         /\ queue'[w] = queue[w] /\ meant'[w] = meant[w] => Touches(w, {"hand", "to"}, i)
         /\ got'[w] = got[w] /\ meant'[w] = meant[w] => Touches(w, {"to", "waiting"}, i)
         /\ got'[w] = got[w] /\ down'[w] = down[w] => Touches(w, {"waiting", "back"}, i)
         /\ got'[w] = got[w] /\ queue'[w] = queue[w] => Touches(w, {"to", "back"}, i)
<1>1. \A v \in Senders \ {w} : \A k \in {"hand", "to", "waiting", "back"} : Kept(k, v, i)
  <2> SUFFICES ASSUME NEW v \in Senders \ {w}, NEW k \in {"hand", "to", "waiting", "back"}
               PROVE  Kept(k, v, i)
    OBVIOUS
  <2>1. got'[v] = got[v] /\ down'[v] = down[v] /\ queue'[v] = queue[v] /\ meant'[v] = meant[v]
    OBVIOUS
  <2> QED BY <2>1, SpotsKeep
<1>2. /\ got'[w] = got[w] => Kept("hand", w, i)
      /\ down'[w] = down[w] => Kept("to", w, i)
      /\ queue'[w] = queue[w] => Kept("waiting", w, i)
      /\ meant'[w] = meant[w] => Kept("back", w, i)
  BY SpotsKeep, Zenon
<1> QED BY <1>1, <1>2 DEF Touches, Spots

-----------------------------------------------------------------------------
(* Every entry has one reference, and every identifier that is tracked is at one
   spot exactly as long as it has an entry. *)
HashOne == hash \in [Ids -> {None, 1}]
Followed == \A i \in Ids \ (excused \cup {0}) : OneFlight(i)

(* At the start there is none. *)
LEMMA FollowedInit == ExchangeInit => HashOne /\ Followed
<1> SUFFICES ASSUME ExchangeInit PROVE HashOne /\ Followed
  OBVIOUS
<1>1. /\ hash = [i \in Ids |-> None] /\ got = [w \in Senders |-> None]
      /\ down = [w \in Senders |-> <<>>] /\ meant = [w \in Senders |-> <<>>]
      /\ queue = [w \in Senders |-> IF w \in Fresh THEN <<Connack>> ELSE <<>>]
  BY DEF ExchangeInit, Init
<1>2. \A i \in Ids : i # None
  BY TableAssumption DEF TableAssumption, Ids
<1>3. ASSUME NEW i \in Ids, NEW w \in Senders, NEW k \in Spots
      PROVE  At(k, w, i) = {}
  <2>1. got[w] = None /\ down[w] = <<>> /\ queue[w] \in {<<>>, <<Connack>>} /\ meant[w] = <<>>
    BY <1>1
  <2>2. (\A types : Hits(<<>>, types, i) = {}) /\ Hits(<<Connack>>, ToWriter, i) = {}
    BY DEF Hits, Hit, Connack, ToWriter
  <2>3. {n \in {0} : got[w] = i} = {}
    BY <1>2, <2>1
  <2>4. k \in {"hand", "to", "waiting", "back"}
    BY DEF Spots
  <2> QED BY <2>1, <2>2, <2>3, <2>4, AtIs
<1>4. \A i \in Ids : OneFlight(i)
  BY <1>1, <1>3 DEF OneFlight, Nowhere
<1> QED BY <1>1, <1>4 DEF HashOne, Followed

(* Giving a reference back takes the entry away, and no other. *)
LEMMA UnRefTakes ==
  ASSUME HashOne, NEW j, UnRefMessage(j)
  PROVE  /\ HashOne'
         /\ j \in Ids => hash'[j] = None
         /\ \A i \in Ids : i # j => hash'[i] = hash[i]
<1>0. None # 1 /\ ~(1 > 1)
  BY TableAssumption DEF TableAssumption
<1>1. CASE j \in Ids /\ hash[j] # None
  <2>1. hash[j] = 1
    BY <1>1 DEF HashOne
  <2>2. hash' = [hash EXCEPT ![j] = None]
    BY <1>0, <1>1, <2>1 DEF UnRefMessage, Unref
  <2> QED BY <1>1, <2>2 DEF HashOne
<1>2. CASE ~(j \in Ids /\ hash[j] # None)
  <2>1. hash' = hash
    BY <1>2 DEF UnRefMessage, tableVars
  <2> QED BY <1>2, <2>1 DEF HashOne
<1> QED BY <1>1, <1>2

(* Every entry has one reference. *)
LEMMA HashOneStep ==
  ASSUME TypeOK, PlaceOK, HashOne, [ExchangeNext]_exchangeVars
  PROVE  HashOne'
<1>1. ASSUME hash' = hash
      PROVE  HashOne'
  BY <1>1 DEF HashOne
<1>2. ASSUME NEW w \in Senders, RegisterMessage(w)
      PROVE  HashOne'
  <2>1. hash' = [hash EXCEPT ![held[w]] = 1]
    BY <1>2 DEF RegisterMessage, Register, References
  <2> QED BY <2>1 DEF HashOne
<1>3. ASSUME NEW w \in Senders, Receive(w)
      PROVE  HashOne'
  <2>1. UNCHANGED tableVars \/ UnRefMessage(Parse(up[w], MaxLen).packet.id)
    BY <1>3 DEF Receive
  <2>2. CASE UNCHANGED tableVars
    BY <2>2, <1>1 DEF tableVars
  <2>3. CASE UnRefMessage(Parse(up[w], MaxLen).packet.id)
    BY <2>3, UnRefTakes, Zenon
  <2> QED BY <2>1, <2>2, <2>3
<1>4. ASSUME NEW w \in Senders, Settle(w)
      PROVE  HashOne'
  <2>1. UnRefMessage(owed[w])
    BY <1>4 DEF Settle
  <2> QED BY <2>1, UnRefTakes, Zenon
<1>5. ASSUME NEW w \in Senders, \/ \E m \in Carries[w] : Take(w, m)
                                \/ Assign(w) \/ WritePublish(w) \/ WriteOwn(w) \/ Ping(w)
                                \/ Break(w) \/ Respond(w)
                                \/ \E packets \in Says[w] : ClientSays(w, packets)
      PROVE  hash' = hash
  BY <1>5 DEF Take, NewID, Assign, WritePublish, WriteOwn, Ping, Break, Respond, ClientSays, tableVars
<1>6. ASSUME NEW m \in Shared, Elsewhere(m)
      PROVE  hash' = hash
  BY <1>6 DEF Elsewhere, tableVars
<1>7. CASE UNCHANGED exchangeVars
  BY <1>1, <1>7 DEF exchangeVars, tableVars
<1>8. CASE ExchangeNext
  BY <1>8, <1>1, <1>2, <1>3, <1>4, <1>5, <1>6 DEF ExchangeNext, Writer, Reader
<1> QED BY <1>7, <1>8

-----------------------------------------------------------------------------
(* A registered identifier is in the hand of its writer; nobody else has it,
   because no entry had it. *)
LEMMA RegisterFollowed ==
  ASSUME TypeOK, NonZeroUnique, PlaceOK, Followed, NEW w \in Senders, RegisterMessage(w),
         NEW i \in Ids \ (excused' \cup {0})
  PROVE  OneFlight(i)'
<1>1. /\ place[w] = "register" /\ got' = [got EXCEPT ![w] = held[w]]
      /\ hash' = [hash EXCEPT ![held[w]] = 1]
      /\ UNCHANGED <<queue, down, meant, excused>>
  BY DEF RegisterMessage, Writing, Register, References, clientVars, ghosts
<1>2. held[w] \in Ids /\ held[w] # None /\ got[w] = None
  BY <1>1 DEF TypeOK, PlaceOK
<1>3. OneFlight(i) /\ i \in Ids \ {0} /\ i # None
  BY <1>1, TableAssumption DEF Followed, TableAssumption, Ids
<1>4. /\ got'[w] = held[w]
      /\ \A v \in Senders \ {w} : got'[v] = got[v]
      /\ \A v \in Senders : down'[v] = down[v] /\ queue'[v] = queue[v] /\ meant'[v] = meant[v]
  BY <1>1 DEF PlaceOK
<1>5. CASE held[w] = i
  <2>1. hash[i] = None
    BY <1>2, <1>3, <1>5 DEF NonZeroUnique
  <2>2. Nowhere(i)
    BY <1>3, <2>1, Zenon DEF OneFlight
  <2>3. hash'[i] = 1 /\ 1 # None
    BY <1>1, <1>3, <1>5, TableAssumption DEF TypeOK, TableAssumption
  <2>4. At("hand", w, i)' = {0}
    BY <1>4, <1>5, AtIs
  <2>5. Touches(w, {"hand", "to"}, i)
    BY <1>4, TouchesOne, Zenon
  <2>6. Kept("to", w, i)
    BY <1>4, SpotsKeep, Zenon
  <2>7. "hand" \in Spots /\ "to" \in Spots
    BY DEF Spots
  <2>8. ASSUME NEW l \in Spots, NEW v \in Senders, l # "hand" \/ v # w
        PROVE  At(l, v, i)' = {}
    <3>1. Kept(l, v, i)
      BY <2>5, <2>6, <2>8 DEF Touches
    <3> QED BY <2>2, <3>1, Zenon DEF Nowhere, Kept, Keeps
  <2>9. Only("hand", w, i)'
    BY <2>4, <2>8, Zenon DEF Only, Single
  <2> QED BY <2>3, <2>7, <2>9, Zenon DEF OneFlight
<1>6. CASE held[w] # i
  <2>1. hash'[i] = hash[i]
    BY <1>1, <1>3, <1>6 DEF TypeOK
  <2>2. At("hand", w, i) = {} /\ At("hand", w, i)' = {}
    BY <1>2, <1>3, <1>4, <1>6, AtIs
  <2>3. Kept("hand", w, i) /\ Kept("to", w, i)
    BY <1>4, <2>2, SpotsKeep, SameKeeps, Zenon DEF Kept
  <2>4. Touches(w, {"hand", "to"}, i)
    BY <1>4, TouchesOne, Zenon
  <2> QED BY <1>3, <2>1, <2>3, <2>4, TouchStep
<1> QED BY <1>5, <1>6

(* Written, it goes from the writer's hand to the wire; if its connection has
   ended, or the publication has got another session's, it is not tracked any
   more. *)
LEMMA WriteFollowed ==
  ASSUME PlaceOK, WireOK, Followed, NEW w \in Senders, WritePublish(w),
         NEW i \in Ids \ (excused' \cup {0})
  PROVE  OneFlight(i)'
<1> DEFINE p == OnTheWire(w)   g == got[w]   j == ident[message[w]]
<1>1. /\ place[w] = "write" /\ down' = Sent(w, p) /\ got' = [got EXCEPT ![w] = None]
      /\ excused' = excused \cup (IF ~live[w] THEN {g} ELSE IF j # g THEN {g, j} ELSE {})
      /\ UNCHANGED <<queue, meant, hash>>
  BY DEF WritePublish, Writing, clientVars, tableVars
<1>2. p \in Posted /\ p.id = j /\ p.type = "publish"
  BY <1>1, OnTheWireIsPosted, Zenon
<1> HIDE DEF p, j
<1>3. OneFlight(i) /\ i # None /\ hash'[i] = hash[i]
  BY <1>1, TableAssumption DEF Followed, TableAssumption, Ids
<1>4. g # None
  BY <1>1 DEF PlaceOK
<1>5. /\ got'[w] = None /\ \A v \in Senders \ {w} : got'[v] = got[v] /\ down'[v] = down[v]
      /\ \A v \in Senders : queue'[v] = queue[v] /\ meant'[v] = meant[v]
      /\ down'[w] = IF live[w] THEN Append(down[w], p) ELSE down[w]
      /\ down[w] \in Seq(Posted \cup Answers)
  BY <1>1 DEF PlaceOK, WireOK, Sent
<1>6. Touches(w, {"hand", "to"}, i)
  BY <1>5, TouchesOne, Zenon
<1>7. p \in Posted \cup Answers
  BY <1>2
<1>8. "hand" \in Spots /\ "to" \in Spots /\ "hand" # "to"
  BY DEF Spots
<1>11. AppendHits(down[w], p, ToClient, i)
  <2>1. down[w] \in Seq(Posted \cup Answers)
    BY <1>5
  <2> QED BY <1>7, <2>1, HitsAppend, Zenon
<1>9. CASE g = i
  <2>1. live[w] /\ j = g
    BY <1>1, <1>9
  <2>2. Hit(p, ToClient, i)
    BY <1>2, <1>9, <2>1 DEF Hit, ToClient
  <2>3. At("hand", w, i) = {0} /\ At("hand", w, i)' = {}
    BY <1>3, <1>5, <1>9, AtIs
  <2>4. At("to", w, i) = {} => Single(At("to", w, i)')
    <3>1. At("to", w, i) = Hits(down[w], ToClient, i) /\ At("to", w, i)' = Hits(down'[w], ToClient, i)
      BY AtIs, Zenon
    <3>2. down'[w] = Append(down[w], p)
      BY <1>5, <2>1
    <3> QED BY <1>11, <2>2, <3>1, <3>2, Zenon DEF AppendHits
  <2>5. \A m \in Spots, v \in Senders : (m # "hand" /\ m # "to") \/ v # w => Keeps(At(m, v, i), At(m, v, i)')
    BY <1>6 DEF Touches, Kept
  <2>6. At("hand", w, i) # {}
    BY <2>3
  <2> QED BY <1>3, <1>8, <2>3, <2>4, <2>5, <2>6, MoveStep, Zenon
<1>10. CASE g # i
  <2>1. live[w] => ~Hit(p, ToClient, i)
    BY <1>1, <1>2, <1>10 DEF Hit
  <2>2. At("hand", w, i) = {} /\ At("hand", w, i)' = {}
    BY <1>3, <1>5, <1>10, AtIs
  <2>3. At("to", w, i)' = At("to", w, i)
    <3>1. At("to", w, i) = Hits(down[w], ToClient, i) /\ At("to", w, i)' = Hits(down'[w], ToClient, i)
      BY AtIs, Zenon
    <3>2. CASE live[w]
      <4>1. down'[w] = Append(down[w], p)
        BY <1>5, <3>2
      <4> QED BY <1>11, <2>1, <3>1, <3>2, <4>1, Zenon DEF AppendHits
    <3>3. CASE ~live[w]
      <4>1. down'[w] = down[w]
        BY <1>5, <3>3
      <4> QED BY <3>1, <4>1, Zenon
    <3> QED BY <3>2, <3>3
  <2>4. Kept("hand", w, i) /\ Kept("to", w, i)
    BY <2>2, <2>3, SameKeeps, Zenon DEF Kept
  <2> QED BY <1>3, <1>6, <2>4, TouchStep
<1> QED BY <1>9, <1>10

(* A PUBREL goes from the queue to the wire. *)
LEMMA OwnFollowed ==
  ASSUME PlaceOK, WireOK, Followed, NEW w \in Senders, WriteOwn(w),
         NEW i \in Ids \ (excused' \cup {0})
  PROVE  OneFlight(i)'
<1> DEFINE h == Head(queue[w])
<1>1. /\ queue[w] # <<>> /\ queue' = [queue EXCEPT ![w] = Tail(@)] /\ down' = Sent(w, h)
      /\ UNCHANGED <<got, meant, hash, excused>>
  BY DEF WriteOwn, clientVars, tableVars, ghosts
<1>2. /\ queue[w] \in Seq(Answers) /\ down[w] \in Seq(Posted \cup Answers) /\ InOrder(w)
  BY DEF WireOK
<1>3. h \in Answers
  BY <1>1, <1>2
<1> HIDE DEF h
<1>4. live[w]
  BY <1>1, <1>2, Zenon DEF InOrder
<1>5. OneFlight(i) /\ hash'[i] = hash[i]
  BY <1>1 DEF Followed
<1>6. /\ \A v \in Senders \ {w} : queue'[v] = queue[v] /\ down'[v] = down[v]
      /\ \A v \in Senders : got'[v] = got[v] /\ meant'[v] = meant[v]
      /\ down'[w] = Append(down[w], h) /\ queue'[w] = Tail(queue[w])
  BY <1>1, <1>4 DEF WireOK, Sent
<1>7. Touches(w, {"to", "waiting"}, i)
  BY <1>6, TouchesOne, Zenon
<1>8. Hit(h, ToClient, i) <=> Hit(h, ToWriter, i)
  <2>1. h.type # "publish"
    BY <1>3 DEF Answers, Subacks, Replies, Connack, Bare
  <2> QED BY <2>1 DEF Hit, ToClient, ToWriter
<1>9. /\ At("to", w, i) = Hits(down[w], ToClient, i) /\ At("to", w, i)' = Hits(down'[w], ToClient, i)
      /\ At("waiting", w, i) = Hits(queue[w], ToWriter, i)
      /\ At("waiting", w, i)' = Hits(queue'[w], ToWriter, i)
  BY AtIs, Zenon
<1>10. h \in Posted \cup Answers
  BY <1>3
<1>11. "to" \in Spots /\ "waiting" \in Spots /\ "waiting" # "to"
  BY DEF Spots
<1>14. AppendHits(down[w], h, ToClient, i)
  BY <1>2, <1>10, HitsAppend, Zenon
<1>15. TailHits(queue[w], ToWriter, i)
  BY <1>1, <1>2, HitsTail, Zenon
<1>16. down'[w] = Append(down[w], h) /\ queue'[w] = Tail(queue[w])
  BY <1>6
<1>12. CASE Hit(h, ToWriter, i)
  <2>1. At("to", w, i) = {} => Single(At("to", w, i)')
    BY <1>8, <1>9, <1>12, <1>14, <1>16, Zenon DEF AppendHits
  <2>2. At("waiting", w, i) # {} /\ (Single(At("waiting", w, i)) => At("waiting", w, i)' = {})
    BY <1>9, <1>12, <1>15, <1>16, Zenon DEF TailHits, h
  <2>3. \A m \in Spots, v \in Senders : (m # "waiting" /\ m # "to") \/ v # w => Keeps(At(m, v, i), At(m, v, i)')
    BY <1>7 DEF Touches, Kept
  <2> QED BY <1>5, <1>11, <2>1, <2>2, <2>3, MoveStep, Zenon
<1>13. CASE ~Hit(h, ToWriter, i)
  <2>1. At("to", w, i)' = At("to", w, i)
    BY <1>8, <1>9, <1>13, <1>14, <1>16, Zenon DEF AppendHits
  <2>2. Kept("waiting", w, i)
    BY <1>9, <1>13, <1>15, <1>16, Zenon DEF TailHits, h, Kept
  <2>3. Kept("to", w, i)
    BY <2>1, SameKeeps, Zenon DEF Kept
  <2> QED BY <1>5, <1>7, <2>2, <2>3, TouchStep
<1> QED BY <1>12, <1>13

(* What a connection's end cuts off is not tracked any more; what it does not
   has not been on its wires. *)
LEMMA EndFollowed ==
  ASSUME WireOK, Followed, NEW w \in Senders, End(w), UNCHANGED <<got, hash>>,
         NEW i \in Ids \ (excused' \cup {0})
  PROVE  OneFlight(i)'
<1>1. /\ meant' = [meant EXCEPT ![w] = <<>>] /\ down' = [down EXCEPT ![w] = <<>>]
      /\ queue' = [queue EXCEPT ![w] = <<>>] /\ excused' = excused \cup UnderWay(w)
  BY DEF End
<1>2. OneFlight(i) /\ hash'[i] = hash[i] /\ i \notin UnderWay(w)
  BY <1>1 DEF Followed
<1>3. /\ meant'[w] = <<>> /\ down'[w] = <<>> /\ queue'[w] = <<>>
      /\ \A v \in Senders \ {w} : down'[v] = down[v] /\ queue'[v] = queue[v] /\ meant'[v] = meant[v]
      /\ \A v \in Senders : got'[v] = got[v]
  BY <1>1 DEF WireOK
<1>4. /\ Hits(down[w], ToClient, i) = {} /\ Hits(queue[w], ToWriter, i) = {}
      /\ Hits(meant[w], ToBroker, i) = {}
  BY <1>2 DEF UnderWay, To, Waiting, Back, Hits, Hit, ToClient, ToWriter, ToBroker
<1>5. \A types : Hits(<<>>, types, i) = {}
  BY DEF Hits
<1>6. Kept("to", w, i) /\ Kept("waiting", w, i) /\ Kept("back", w, i)
  <2>1. /\ At("to", w, i) = Hits(down[w], ToClient, i) /\ At("to", w, i)' = Hits(down'[w], ToClient, i)
        /\ At("waiting", w, i) = Hits(queue[w], ToWriter, i)
        /\ At("waiting", w, i)' = Hits(queue'[w], ToWriter, i)
        /\ At("back", w, i) = Hits(meant[w], ToBroker, i) /\ At("back", w, i)' = Hits(meant'[w], ToBroker, i)
    BY AtIs, Zenon
  <2>2. /\ At("to", w, i)' = At("to", w, i) /\ At("waiting", w, i)' = At("waiting", w, i)
        /\ At("back", w, i)' = At("back", w, i)
    BY <1>3, <1>4, <1>5, <2>1
  <2> QED BY <2>2, SameKeeps, Zenon DEF Kept
<1>7. Touches(w, {"to", "waiting", "back"}, i)
  BY <1>3, TouchesOne, Zenon
<1> QED BY <1>2, <1>6, <1>7, TouchStep

-----------------------------------------------------------------------------
(* What the reader acts on: an answer of the client's is what the client has
   sent. *)
Seen(q, p) ==
  /\ Answer(p) \in Seq(Answers)
  /\ q.type \in ToBroker \/ p.type \in ToBroker => p = q

(* It is, because the reader is in step. *)
LEMMA ReaderSees ==
  ASSUME WireOK, NEW w \in Senders, Receive(w), ~Ends(Parse(up[w], MaxLen).packet)
  PROVE  /\ meant[w] # <<>> /\ meant[w] \in Seq(Packets)
         /\ Seen(Head(meant[w]), Parse(up[w], MaxLen).packet)
<1> DEFINE r == Parse(up[w], MaxLen)   p == r.packet   q == Head(meant[w])   t == Tail(meant[w])
<1>1. up[w] # <<>> /\ AtHead(w) /\ meant[w] \in Seq(Packets)
  BY HeadIsGot DEF Receive, WireOK
<1>2. p # Refused
  BY DEF Ends, Refused
<1> HIDE DEF r, q, t
<1>3. meant[w] # <<>> /\ q \in Packets /\ Got(q, Stream(t), r)
  BY <1>1, <1>2, Zenon DEF AtHead, r, q, t
<1>4. \/ SameBut(q, p)
      \/ Overruns(q) /\ p.type = "unsubscribe" /\ p.id = q.id
  BY <1>2, <1>3, Zenon DEF Got
<1> HIDE DEF p
<1>5. Answer(p) \in Seq(Answers)
  BY <1>3, <1>4, AnswersAreAnswers, Zenon
<1>6. q.type \in ToBroker \/ p.type \in ToBroker => p = q
  <2>1. CASE p = q
    BY <2>1
  <2>2. CASE Overruns(q) /\ p.type = "unsubscribe"
    <3>1. q.type = "unsubscribe"
      BY <2>2, SMT DEF Overruns
    <3> QED BY <2>2, <3>1 DEF ToBroker
  <2>3. ASSUME Wraps(q), NEW y, p = [q EXCEPT !.payload = y]
        PROVE  q.type = "publish" /\ p.type = "publish"
    <3>1. q.type = "publish"
      BY <2>3, SMT DEF Wraps
    <3>2. q \in Publications
      <4>1. q \in Publications \/ q.type # "publish"
        BY <1>3, SMT DEF Packets, Sayable, Connects, Subscribes, Unsubscribes, Acks, NoBody
      <4> QED BY <3>1, <4>1
    <3> QED BY <2>3, <3>1, <3>2 DEF Publications
  <2>4. Wraps(q) /\ (\E y : p = [q EXCEPT !.payload = y]) => q.type = "publish" /\ p.type = "publish"
    BY <2>3, Zenon
  <2>5. "publish" \notin ToBroker
    BY DEF ToBroker
  <2> QED BY <1>4, <2>1, <2>2, <2>4, <2>5, Zenon DEF SameBut
<1> QED BY <1>1, <1>3, <1>5, <1>6, Zenon DEF Seen, p, q, r

(* A PUBREL is enqueued for a PUBREC only. *)
LEMMA PubrelAnswersPubrec ==
  ASSUME NEW p, NEW i
  PROVE  /\ p.type = "pubrec" => Answer(p) = <<Ack("pubrel", p.id)>>
         /\ p.type # "pubrec" => \A j \in DOMAIN Answer(p) : ~Hit(Answer(p)[j], ToWriter, i)
<1>1. ASSUME p.type = "pubrec"
      PROVE  Answer(p) = <<Ack("pubrel", p.id)>>
  BY <1>1 DEF Answer
<1> DEFINE c == [n \in DOMAIN p.filters |-> Code(p.filters[n])]
<1>2. ASSUME p.type # "pubrec"
      PROVE  \/ Answer(p) = <<Ack("puback", p.id)>> \/ Answer(p) = <<Ack("pubrec", p.id)>>
             \/ Answer(p) = <<Ack("pubcomp", p.id)>> \/ Answer(p) = <<Suback(p.id, c)>>
             \/ Answer(p) = <<Suback(p.id, <<>>)>> \/ Answer(p) = <<>>
  BY <1>2 DEF Answer
<1> HIDE DEF c
<1>3. \A x \in {Ack("puback", p.id), Ack("pubrec", p.id), Ack("pubcomp", p.id), Suback(p.id, c),
                Suback(p.id, <<>>)} : ~Hit(x, ToWriter, i)
  BY DEF Hit, ToWriter, Ack, Suback
<1>4. \A x : DOMAIN <<x>> = {1} /\ <<x>>[1] = x
  OBVIOUS
<1>5. DOMAIN <<>> = {}
  OBVIOUS
<1>6. ASSUME p.type # "pubrec"
      PROVE  \A j \in DOMAIN Answer(p) : ~Hit(Answer(p)[j], ToWriter, i)
  BY <1>2, <1>3, <1>4, <1>5, <1>6
<1> QED BY <1>1, <1>6, Zenon

(* The client's answer is taken from the wire: its identifier is done with, or
   goes on in the PUBREL that is enqueued. *)
LEMMA ReceiveFollowed ==
  ASSUME PlaceOK, WireOK, HashOne, Followed, NEW w \in Senders, Receive(w),
         NEW i \in Ids \ (excused' \cup {0})
  PROVE  OneFlight(i)'
<1> DEFINE p == Parse(up[w], MaxLen).packet   q == Head(meant[w])   a == Answer(p)
<1>1. CASE Ends(p)
  <2>1. End(w) /\ UNCHANGED <<got, hash>>
    BY <1>1 DEF Receive, tableVars, writerVars
  <2> QED BY <2>1, EndFollowed
<1>2. CASE ~Ends(p)
  <2>1. /\ queue' = [queue EXCEPT ![w] = @ \o a] /\ meant' = [meant EXCEPT ![w] = Tail(@)]
        /\ IF p.type \in Completing THEN UnRefMessage(p.id) ELSE UNCHANGED tableVars
        /\ UNCHANGED <<down, got, excused>>
    BY <1>2, Zenon DEF Receive, Enqueue, writerVars
  <2>2. meant[w] # <<>> /\ meant[w] \in Seq(Packets) /\ Seen(q, p)
    BY <1>2, ReaderSees, Zenon
  <2> HIDE DEF p, q
  <2>3. a \in Seq(Answers) /\ (q.type \in ToBroker \/ p.type \in ToBroker => p = q)
    BY <2>2, Zenon DEF Seen
  <2>4. /\ p.type = "pubrec" => a = <<Ack("pubrel", p.id)>>
        /\ p.type # "pubrec" => \A j \in DOMAIN a : ~Hit(a[j], ToWriter, i)
    BY PubrelAnswersPubrec, Zenon
  <2> HIDE DEF a
  <2>5. OneFlight(i)
    BY <2>1 DEF Followed
  <2>6. queue[w] \in Seq(Answers)
    BY DEF WireOK
  <2>7. /\ \A v \in Senders \ {w} : queue'[v] = queue[v] /\ meant'[v] = meant[v]
        /\ \A v \in Senders : got'[v] = got[v] /\ down'[v] = down[v]
        /\ queue'[w] = queue[w] \o a /\ meant'[w] = Tail(meant[w])
    BY <2>1 DEF WireOK
  <2>8. Touches(w, {"waiting", "back"}, i)
    BY <2>7, TouchesOne, Zenon
  <2>9. /\ At("waiting", w, i) = Hits(queue[w], ToWriter, i)
        /\ At("waiting", w, i)' = Hits(queue[w] \o a, ToWriter, i)
        /\ At("back", w, i) = Hits(meant[w], ToBroker, i)
        /\ At("back", w, i)' = Hits(Tail(meant[w]), ToBroker, i)
    <3>1. /\ At("waiting", w, i) = Hits(queue[w], ToWriter, i)
          /\ At("waiting", w, i)' = Hits(queue'[w], ToWriter, i)
          /\ At("back", w, i) = Hits(meant[w], ToBroker, i)
          /\ At("back", w, i)' = Hits(meant'[w], ToBroker, i)
      BY AtIs, Zenon
    <3>2. queue'[w] = queue[w] \o a /\ meant'[w] = Tail(meant[w])
      BY <2>7
    <3> QED BY <3>1, <3>2
  <2>10. TailHits(meant[w], ToBroker, i)
    BY <2>2, HitsTail, Zenon
  <2>11. "waiting" \in Spots /\ "back" \in Spots /\ "back" # "waiting"
    BY DEF Spots
  <2>12. \A m \in Spots, v \in Senders : (m # "back" /\ m # "waiting") \/ v # w =>
           Keeps(At(m, v, i), At(m, v, i)')
    BY <2>8 DEF Touches, Kept
  <2>13. (\A j \in DOMAIN a : ~Hit(a[j], ToWriter, i)) => At("waiting", w, i)' = At("waiting", w, i)
    <3>1. a \in Seq(Answers)
      BY <2>3
    <3>2. (\A j \in DOMAIN a : ~Hit(a[j], ToWriter, i)) =>
            Hits(queue[w] \o a, ToWriter, i) = Hits(queue[w], ToWriter, i)
      <4> SUFFICES ASSUME \A j \in DOMAIN a : ~Hit(a[j], ToWriter, i)
                   PROVE  Hits(queue[w] \o a, ToWriter, i) = Hits(queue[w], ToWriter, i)
        OBVIOUS
      <4> DEFINE s == queue[w]
      <4>1. s \in Seq(Answers)
        BY <2>6
      <4> HIDE DEF s
      <4>2. Hits(s \o a, ToWriter, i) = Hits(s, ToWriter, i)
        BY <3>1, <4>1, HitsConcat
      <4> QED BY <4>2 DEF s
    <3> QED BY <2>9, <3>2
  <2>14. Hit(q, ToBroker, i) =>
           At("back", w, i) # {} /\ (Single(At("back", w, i)) => At("back", w, i)' = {})
    BY <2>9, <2>10, Zenon DEF TailHits, q
  <2>15. ~Hit(q, ToBroker, i) => Kept("back", w, i)
    BY <2>9, <2>10, Zenon DEF TailHits, q, Kept
  <2>16. CASE Hit(q, ToBroker, i) /\ q.type # "pubrec"
    <3>1. p = q /\ p.type \in Completing /\ p.id = i /\ i \in Ids
      BY <2>3, <2>16 DEF Hit, ToBroker, Completing
    <3>2. hash'[i] = None
      BY <2>1, <3>1, UnRefTakes, Zenon
    <3>3. Keeps(At("waiting", w, i), At("waiting", w, i)')
      BY <2>4, <2>13, <2>16, <3>1, SameKeeps, Zenon
    <3>4. \A m \in Spots, v \in Senders : m # "back" \/ v # w => Keeps(At(m, v, i), At(m, v, i)')
      BY <2>12, <3>3, Zenon
    <3> QED BY <2>5, <2>11, <2>14, <2>16, <3>2, <3>4, LandStep, Zenon
  <2>17. CASE Hit(q, ToBroker, i) /\ q.type = "pubrec"
    <3>1. p = q /\ p.type = "pubrec" /\ p.id = i /\ "pubrec" \notin Completing
      BY <2>3, <2>17 DEF Hit, Completing
    <3>2. hash'[i] = hash[i]
      BY <2>1, <3>1 DEF tableVars
    <3> DEFINE x == Ack("pubrel", i)
    <3>3. a = <<x>> /\ x \in Answers /\ Hit(x, ToWriter, i)
      <4>1. i \in Words /\ "pubrel" \in Replies
        BY IdsAreWords DEF Replies
      <4>2. x \in [type : Replies, id : Words] /\ x.type = "pubrel" /\ x.id = i
        BY <4>1 DEF Ack
      <4> HIDE DEF x
      <4>3. a = <<x>>
        BY <2>4, <3>1, Zenon DEF x
      <4> QED BY <4>2, <4>3 DEF Answers, Hit, ToWriter
    <3> HIDE DEF x
    <3>4. queue[w] \o a = Append(queue[w], x)
      BY <2>6, <3>3
    <3>5. AppendHits(queue[w], x, ToWriter, i)
      BY <2>6, <3>3, HitsAppend, Zenon
    <3>6. At("waiting", w, i) = {} => Single(At("waiting", w, i)')
      BY <2>9, <3>3, <3>4, <3>5, Zenon DEF AppendHits
    <3> QED BY <2>5, <2>11, <2>12, <2>14, <2>17, <3>2, <3>6, MoveStep, Zenon
  <2>18. CASE ~Hit(q, ToBroker, i)
    <3>1. hash'[i] = hash[i]
      <4>1. CASE p.type \in Completing
        <5>1. p = q /\ p.id # i
          BY <2>3, <2>18, <4>1 DEF Hit, ToBroker, Completing
        <5> QED BY <2>1, <4>1, <5>1, UnRefTakes, Zenon
      <4>2. CASE p.type \notin Completing
        BY <2>1, <4>2 DEF tableVars
      <4> QED BY <4>1, <4>2
    <3>2. Kept("waiting", w, i)
      <4>1. CASE p.type # "pubrec"
        BY <2>4, <2>13, <4>1, SameKeeps, Zenon DEF Kept
      <4>2. CASE p.type = "pubrec"
        <5>1. p = q /\ p.id # i
          BY <2>3, <2>18, <4>2 DEF Hit, ToBroker
        <5>2. ~Hit(Ack("pubrel", p.id), ToWriter, i)
          BY <5>1 DEF Hit, Ack
        <5>3. \A x : DOMAIN <<x>> = {1} /\ <<x>>[1] = x
          OBVIOUS
        <5>4. \A j \in DOMAIN a : ~Hit(a[j], ToWriter, i)
          BY <2>4, <4>2, <5>2, <5>3
        <5> QED BY <2>13, <5>4, SameKeeps, Zenon DEF Kept
      <4> QED BY <4>1, <4>2
    <3> QED BY <2>5, <2>8, <2>15, <2>18, <3>1, <3>2, TouchStep
  <2> QED BY <2>16, <2>17, <2>18, Zenon
<1> QED BY <1>1, <1>2, Zenon

-----------------------------------------------------------------------------
(* The entry that the client's PUBREL takes away is not tracked any more. *)
LEMMA SettleFollowed ==
  ASSUME HashOne, Followed, NEW w \in Senders, Settle(w),
         NEW i \in Ids \ (excused' \cup {0})
  PROVE  OneFlight(i)'
<1>1. /\ UnRefMessage(owed[w]) /\ UNCHANGED <<got, down, queue, meant>>
      /\ excused' = excused \cup (IF owed[w] \in Ids /\ hash[owed[w]] # None THEN {owed[w]} ELSE {})
  BY DEF Settle, writerVars, clientVars
<1>2. OneFlight(i)
  BY <1>1 DEF Followed
<1>3. hash'[i] = hash[i]
  <2>0. /\ owed[w] \in Ids => hash'[owed[w]] = None
        /\ \A k \in Ids : k # owed[w] => hash'[k] = hash[k]
    <3> DEFINE j == owed[w]
    <3>1. UnRefMessage(j)
      BY <1>1
    <3> HIDE DEF j
    <3>2. (j \in Ids => hash'[j] = None) /\ \A k \in Ids : k # j => hash'[k] = hash[k]
      BY <3>1, UnRefTakes, Zenon
    <3> QED BY <3>2 DEF j
  <2>1. CASE owed[w] = i
    BY <1>1, <2>0, <2>1
  <2>2. CASE owed[w] # i
    BY <2>0, <2>2
  <2> QED BY <2>1, <2>2
<1> QED BY <1>1, <1>2, <1>3, StillStep

(* The client answers a publication, or a PUBREL, with a packet under the same
   identifier, and nothing else that counts. *)
LEMMA ResponseAnswers ==
  ASSUME NEW p, NEW i
  PROVE  /\ p.type \in ToClient => \E x : Response(p) = <<x>> /\ x.type \in ToBroker /\ x.id = p.id
         /\ p.type \notin ToClient => \A j \in DOMAIN Response(p) : ~Hit(Response(p)[j], ToBroker, i)
<1> DEFINE t == IF p.qos = 1 THEN "puback" ELSE "pubrec"
<1>1. t \in ToBroker /\ "pubcomp" \in ToBroker
  BY DEF ToBroker
<1>2. \A s : Ack(s, p.id).type = s /\ Ack(s, p.id).id = p.id
  BY DEF Ack
<1>3. CASE p.type = "publish"
  <2>1. Response(p) = <<Ack(t, p.id)>>
    BY <1>3 DEF Response
  <2> HIDE DEF t
  <2> QED BY <1>1, <1>2, <1>3, <2>1, Zenon DEF ToClient
<1>4. CASE p.type = "pubrel"
  <2>1. Response(p) = <<Ack("pubcomp", p.id)>>
    BY <1>4 DEF Response
  <2> QED BY <1>1, <1>2, <1>4, <2>1, Zenon DEF ToClient
<1>5. CASE p.type \notin ToClient
  <2>1. Response(p) = <<>> \/ Response(p) = <<Ack("pubrel", p.id)>>
    BY <1>5 DEF Response, ToClient
  <2>2. ~Hit(Ack("pubrel", p.id), ToBroker, i)
    BY DEF Hit, ToBroker, Ack
  <2>3. DOMAIN <<>> = {} /\ \A x : DOMAIN <<x>> = {1} /\ <<x>>[1] = x
    OBVIOUS
  <2> QED BY <1>5, <2>1, <2>2, <2>3
<1>6. p.type \in ToClient => p.type = "publish" \/ p.type = "pubrel"
  BY DEF ToClient
<1> QED BY <1>3, <1>4, <1>5, <1>6, Zenon

(* The client answers: the identifier goes from the wire to it to the wire back. *)
LEMMA RespondFollowed ==
  ASSUME WireOK, Followed, NEW w \in Senders, Respond(w),
         NEW i \in Ids \ (excused' \cup {0})
  PROVE  OneFlight(i)'
<1> DEFINE h == Head(down[w])   a == Response(h)
<1>1. /\ down[w] # <<>> /\ down' = [down EXCEPT ![w] = Tail(@)] /\ Say(w, a)
      /\ UNCHANGED <<got, queue, hash, excused>>
  BY Zenon DEF Respond, Response, writerVars, tableVars, ghosts
<1>2. /\ down[w] \in Seq(Posted \cup Answers) /\ meant[w] \in Seq(Packets)
      /\ meant' = [meant EXCEPT ![w] = @ \o a]
  BY <1>1 DEF WireOK, Say
<1>3. h \in Posted \cup Answers
  BY <1>1, <1>2
<1>4. a \in Seq(Packets)
  BY <1>3, ResponsesArePackets, Zenon
<1>5. /\ h.type \in ToClient => \E x : a = <<x>> /\ x.type \in ToBroker /\ x.id = h.id
      /\ h.type \notin ToClient => \A j \in DOMAIN a : ~Hit(a[j], ToBroker, i)
  BY ResponseAnswers, Zenon
<1> HIDE DEF h, a
<1>6. OneFlight(i) /\ hash'[i] = hash[i]
  BY <1>1 DEF Followed
<1>7. /\ \A v \in Senders \ {w} : down'[v] = down[v] /\ meant'[v] = meant[v]
      /\ \A v \in Senders : got'[v] = got[v] /\ queue'[v] = queue[v]
      /\ down'[w] = Tail(down[w]) /\ meant'[w] = meant[w] \o a
  BY <1>1, <1>2 DEF WireOK
<1>8. Touches(w, {"to", "back"}, i)
  BY <1>7, TouchesOne, Zenon
<1>9. /\ At("to", w, i) = Hits(down[w], ToClient, i) /\ At("to", w, i)' = Hits(Tail(down[w]), ToClient, i)
      /\ At("back", w, i) = Hits(meant[w], ToBroker, i) /\ At("back", w, i)' = Hits(meant[w] \o a, ToBroker, i)
  <2>1. /\ At("to", w, i) = Hits(down[w], ToClient, i) /\ At("to", w, i)' = Hits(down'[w], ToClient, i)
        /\ At("back", w, i) = Hits(meant[w], ToBroker, i)
        /\ At("back", w, i)' = Hits(meant'[w], ToBroker, i)
    BY AtIs, Zenon
  <2>2. down'[w] = Tail(down[w]) /\ meant'[w] = meant[w] \o a
    BY <1>7
  <2> QED BY <2>1, <2>2
<1>10. "to" \in Spots /\ "back" \in Spots /\ "to" # "back"
  BY DEF Spots
<1>11. TailHits(down[w], ToClient, i)
  BY <1>1, <1>2, HitsTail, Zenon
<1>12. CASE Hit(h, ToClient, i)
  <2>1. PICK x : a = <<x>> /\ Hit(x, ToBroker, i)
    BY <1>5, <1>12, Zenon DEF Hit
  <2>2. x \in Packets
    BY <1>4, <2>1
  <2>3. AppendHits(meant[w], x, ToBroker, i)
    BY <1>2, <2>2, HitsAppend, Zenon
  <2>4. meant[w] \o a = Append(meant[w], x)
    BY <1>2, <2>1, <2>2
  <2>5. At("back", w, i) = {} => Single(At("back", w, i)')
    BY <1>9, <2>1, <2>3, <2>4, Zenon DEF AppendHits
  <2>6. At("to", w, i) # {} /\ (Single(At("to", w, i)) => At("to", w, i)' = {})
    BY <1>9, <1>11, <1>12, Zenon DEF TailHits, h
  <2>7. \A m \in Spots, v \in Senders : (m # "to" /\ m # "back") \/ v # w => Keeps(At(m, v, i), At(m, v, i)')
    BY <1>8 DEF Touches, Kept
  <2> QED BY <1>6, <1>10, <2>5, <2>6, <2>7, MoveStep, Zenon
<1>13. CASE ~Hit(h, ToClient, i)
  <2>1. Kept("to", w, i)
    BY <1>9, <1>11, <1>13, Zenon DEF TailHits, h, Kept
  <2>2. \A j \in DOMAIN a : ~Hit(a[j], ToBroker, i)
    <3>1. CASE h.type \in ToClient
      <4>1. PICK x : a = <<x>> /\ x.id = h.id
        BY <1>5, <3>1
      <4>2. x.id # i
        BY <1>13, <3>1, <4>1 DEF Hit
      <4>3. DOMAIN a = {1} /\ a[1] = x
        BY <4>1
      <4> QED BY <4>2, <4>3 DEF Hit
    <3> QED BY <1>5, <3>1
  <2>3. Hits(meant[w] \o a, ToBroker, i) = Hits(meant[w], ToBroker, i)
    <3> DEFINE s == meant[w]
    <3>1. s \in Seq(Packets)
      BY <1>2
    <3> HIDE DEF s
    <3>2. Hits(s \o a, ToBroker, i) = Hits(s, ToBroker, i)
      BY <1>4, <2>2, <3>1, HitsConcat
    <3> QED BY <3>2 DEF s
  <2>4. Kept("back", w, i)
    <3>1. At("back", w, i)' = At("back", w, i)
      BY <1>9, <2>3
    <3> QED BY <3>1, SameKeeps, Zenon DEF Kept
  <2> QED BY <1>6, <1>8, <2>1, <2>4, TouchStep
<1> QED BY <1>12, <1>13

(* What clients say unasked is no answer to what is tracked. *)
LEMMA SaysFollowed ==
  ASSUME WireOK, Followed, NEW w \in Senders, NEW packets \in Seq(Sayable), ClientSays(w, packets),
         NEW i \in Ids \ (excused' \cup {0})
  PROVE  OneFlight(i)'
<1>1. /\ meant' = [meant EXCEPT ![w] = @ \o packets] /\ meant[w] \in Seq(Packets)
      /\ excused' = excused \cup Unasked(packets)
      /\ UNCHANGED <<got, queue, down, hash>>
  BY DEF WireOK, ClientSays, Say, writerVars, tableVars
<1>2. OneFlight(i) /\ hash'[i] = hash[i] /\ i \notin Unasked(packets)
  BY <1>1 DEF Followed
<1>3. /\ \A v \in Senders \ {w} : meant'[v] = meant[v]
      /\ \A v \in Senders : got'[v] = got[v] /\ queue'[v] = queue[v] /\ down'[v] = down[v]
      /\ meant'[w] = meant[w] \o packets
  BY <1>1 DEF WireOK
<1>4. Touches(w, {"waiting", "back"}, i) /\ Kept("waiting", w, i)
  BY <1>3, TouchesOne, SpotsKeep, Zenon
<1>5. packets \in Seq(Packets)
  <2>1. Sayable \subseteq Packets
    BY Zenon DEF Packets
  <2> QED BY <2>1
<1>6. \A j \in DOMAIN packets : ~Hit(packets[j], ToBroker, i)
  BY <1>2, Zenon DEF Hit, Unasked
<1>7. Hits(meant[w] \o packets, ToBroker, i) = Hits(meant[w], ToBroker, i)
  <2> DEFINE s == meant[w]
  <2>1. s \in Seq(Packets)
    BY <1>1
  <2> HIDE DEF s
  <2>2. Hits(s \o packets, ToBroker, i) = Hits(s, ToBroker, i)
    BY <1>5, <1>6, <2>1, HitsConcat
  <2> QED BY <2>2 DEF s
<1>8. Kept("back", w, i)
  <2>1. At("back", w, i) = Hits(meant[w], ToBroker, i) /\ At("back", w, i)' = Hits(meant'[w], ToBroker, i)
    BY AtIs, Zenon
  <2>2. At("back", w, i)' = At("back", w, i)
    BY <1>3, <1>7, <2>1
  <2> QED BY <2>2, SameKeeps, Zenon DEF Kept
<1> QED BY <1>2, <1>4, <1>8, TouchStep

(* The timer's PINGREQ has no identifier. *)
LEMMA PingFollowed ==
  ASSUME WireOK, Followed, NEW w \in Senders, Ping(w),
         NEW i \in Ids \ (excused' \cup {0})
  PROVE  OneFlight(i)'
<1> DEFINE x == Bare("pingreq")
<1>1. /\ queue' = [queue EXCEPT ![w] = @ \o <<x>>] /\ queue[w] \in Seq(Answers)
      /\ UNCHANGED <<got, meant, down, hash, excused>>
  BY DEF WireOK, Ping, Enqueue, clientVars, tableVars, ghosts
<1>2. OneFlight(i) /\ hash'[i] = hash[i]
  BY <1>1 DEF Followed
<1>3. x \in Answers /\ ~Hit(x, ToWriter, i)
  BY DEF Answers, Hit, ToWriter, Bare
<1> HIDE DEF x
<1>4. /\ \A v \in Senders \ {w} : queue'[v] = queue[v]
      /\ \A v \in Senders : got'[v] = got[v] /\ meant'[v] = meant[v] /\ down'[v] = down[v]
      /\ queue'[w] = queue[w] \o <<x>>
  BY <1>1 DEF WireOK
<1>5. Touches(w, {"waiting", "back"}, i) /\ Kept("back", w, i)
  BY <1>4, TouchesOne, SpotsKeep, Zenon
<1>6. queue[w] \o <<x>> = Append(queue[w], x)
  BY <1>1, <1>3
<1>7. AppendHits(queue[w], x, ToWriter, i)
  BY <1>1, <1>3, HitsAppend, Zenon
<1>8. Kept("waiting", w, i)
  <2>1. /\ At("waiting", w, i) = Hits(queue[w], ToWriter, i)
        /\ At("waiting", w, i)' = Hits(queue'[w], ToWriter, i)
    BY AtIs, Zenon
  <2>2. At("waiting", w, i)' = At("waiting", w, i)
    BY <1>3, <1>4, <1>6, <1>7, <2>1, Zenon DEF AppendHits
  <2> QED BY <2>2, SameKeeps, Zenon DEF Kept
<1> QED BY <1>2, <1>5, <1>8, TouchStep

-----------------------------------------------------------------------------
(* Every step keeps each identifier that is tracked at one spot exactly as long
   as it has an entry. *)
LEMMA FollowedStep ==
  ASSUME TypeOK, NonZeroUnique, PlaceOK, WireOK, HashOne, Followed, [ExchangeNext]_exchangeVars
  PROVE  Followed'
<1> SUFFICES ASSUME NEW i \in Ids \ (excused' \cup {0}) PROVE OneFlight(i)'
  BY DEF Followed
<1>1. ASSUME UNCHANGED <<got, down, queue, meant, hash, excused>>
      PROVE  OneFlight(i)'
  <2>1. OneFlight(i) /\ hash'[i] = hash[i]
    BY <1>1 DEF Followed
  <2> QED BY <1>1, <2>1, StillStep
<1>2. ASSUME NEW w \in Senders, RegisterMessage(w)
      PROVE  OneFlight(i)'
  BY <1>2, RegisterFollowed, Zenon
<1>3. ASSUME NEW w \in Senders, WritePublish(w)
      PROVE  OneFlight(i)'
  BY <1>3, WriteFollowed, Zenon
<1>4. ASSUME NEW w \in Senders, WriteOwn(w)
      PROVE  OneFlight(i)'
  BY <1>4, OwnFollowed, Zenon
<1>5. ASSUME NEW w \in Senders, Receive(w)
      PROVE  OneFlight(i)'
  BY <1>5, ReceiveFollowed, Zenon
<1>6. ASSUME NEW w \in Senders, Settle(w)
      PROVE  OneFlight(i)'
  BY <1>6, SettleFollowed, Zenon
<1>7. ASSUME NEW w \in Senders, Break(w)
      PROVE  OneFlight(i)'
  <2>1. End(w) /\ UNCHANGED <<got, hash>>
    BY <1>7 DEF Break, tableVars, writerVars
  <2> QED BY <2>1, EndFollowed, Zenon
<1>8. ASSUME NEW w \in Senders, Respond(w)
      PROVE  OneFlight(i)'
  BY <1>8, RespondFollowed, Zenon
<1>9. ASSUME NEW w \in Senders, NEW packets \in Says[w], ClientSays(w, packets)
      PROVE  OneFlight(i)'
  <2>1. packets \in Seq(Sayable)
    BY ExchangeAssumption DEF ExchangeAssumption
  <2> QED BY <1>9, <2>1, SaysFollowed, Zenon
<1>10. ASSUME NEW w \in Senders, (\E m \in Carries[w] : Take(w, m)) \/ Assign(w)
       PROVE  OneFlight(i)'
  <2>1. UNCHANGED <<got, down, queue, meant, hash, excused>>
    BY <1>10 DEF Take, NewID, Assign, clientVars, tableVars, ghosts
  <2> QED BY <1>1, <2>1
<1>11. ASSUME NEW m \in Shared, Elsewhere(m)
       PROVE  OneFlight(i)'
  <2>1. UNCHANGED <<got, down, queue, meant, hash, excused>>
    BY <1>11 DEF Elsewhere, clientVars, tableVars, ghosts
  <2> QED BY <1>1, <2>1
<1>12. CASE UNCHANGED exchangeVars
  <2>1. UNCHANGED <<got, down, queue, meant, hash, excused>>
    BY <1>12 DEF exchangeVars, writerVars, clientVars, tableVars, ghosts
  <2> QED BY <1>1, <2>1
<1>14. ASSUME NEW w \in Senders, Ping(w)
       PROVE  OneFlight(i)'
  BY <1>14, PingFollowed, Zenon
<1>13. CASE ExchangeNext
  BY <1>13, <1>2, <1>3, <1>4, <1>5, <1>6, <1>7, <1>8, <1>9, <1>10, <1>11, <1>14 DEF ExchangeNext, Writer, Reader
<1> QED BY <1>12, <1>13

(* The flights of an identifier are its places at the spots. *)
LEMMA FlightsAreSpots ==
  ASSUME NEW i
  PROVE  \A x : x \in Flights(i) <=>
                \E k \in Spots, w \in Senders : \E n \in At(k, w, i) : x = <<k, w, n>>
<1> DEFINE F(k, w) == {<<k, w, n>> : n \in At(k, w, i)}
<1>1. \A w \in Senders :
        /\ At("to", w, i) = {k \in To(w) : down[w][k].id = i}
        /\ At("waiting", w, i) = {k \in Waiting(w) : queue[w][k].id = i}
        /\ At("back", w, i) = {k \in Back(w) : meant[w][k].id = i}
        /\ At("hand", w, i) = {n \in {0} : got[w] = i}
  BY DEF At, Hits, Hit, To, Waiting, Back, ToClient, ToWriter, ToBroker
<1>2. \A x : x \in Flights(i) <=> \E w \in Senders : x \in F("hand", w) \cup F("to", w)
                                                       \cup F("waiting", w) \cup F("back", w)
  BY <1>1 DEF Flights
<1>3. \A k, w, x : x \in F(k, w) <=> \E n \in At(k, w, i) : x = <<k, w, n>>
  OBVIOUS
<1> HIDE DEF F
<1>4. \A x : x \in Flights(i) <=> \E k \in Spots, w \in Senders : x \in F(k, w)
  BY <1>2 DEF Spots
<1>5. \A x : (\E k \in Spots, w \in Senders : x \in F(k, w)) <=>
              \E k \in Spots, w \in Senders : \E n \in At(k, w, i) : x = <<k, w, n>>
  BY <1>3
<1> QED BY <1>4, <1>5, Zenon

(* At no spot, or at one: no flight, or one. *)
LEMMA OneFlightCounts ==
  ASSUME NEW i, OneFlight(i)
  PROVE  Cardinality(Flights(i)) = (IF hash[i] = None THEN 0 ELSE 1)
<1> DEFINE Fs == Flights(i)
<1>1. \A x : x \in Fs <=> \E k \in Spots, w \in Senders : \E n \in At(k, w, i) : x = <<k, w, n>>
  BY FlightsAreSpots, ZenonT(30)
<1> HIDE DEF Fs
<1>2. CASE hash[i] = None
  <2>1. Nowhere(i)
    BY <1>2, Zenon DEF OneFlight
  <2>2. Fs = {}
    BY <1>1, <2>1 DEF Nowhere
  <2>3. Cardinality(Fs) = 0
    BY <2>2, FS_EmptySet
  <2> QED BY <1>2, <2>3 DEF Fs
<1>3. CASE hash[i] # None
  <2>1. PICK k \in Spots, w \in Senders : Only(k, w, i)
    BY <1>3, Zenon DEF OneFlight
  <2>2. PICK n : At(k, w, i) = {n}
    BY <2>1, Zenon DEF Only, Single
  <2>3. \A l \in Spots, v \in Senders : \A m \in At(l, v, i) : l = k /\ v = w /\ m = n
    BY <2>1, <2>2 DEF Only
  <2> DEFINE x == <<k, w, n>>
  <2>4. x \in Fs /\ \A y \in Fs : y = x
    BY <1>1, <2>2, <2>3
  <2> HIDE DEF x
  <2>5. Fs = {x}
    BY <2>4
  <2>6. Cardinality(Fs) = 1
    BY <2>5, FS_Singleton
  <2> QED BY <1>3, <2>6 DEF Fs
<1> QED BY <1>2, <1>3

(* An identifier that is tracked is on its way once exactly as long as it has an
   entry, however the connections' goroutines interleave: no two publications
   under way share one, only the answer that completes a publication gives its
   entry back, and none stays behind (session.go, handler.go, the handlers of
   conBroker.go).  Which identifiers are not tracked any more is said at
   Tracked: each has been cut off, overwritten, or answered by the client
   without having been asked. *)
THEOREM IdentifiersAreTracked == ExchangeSpec => []Tracked
<1>1. ExchangeInit => HashOne /\ Followed
  BY FollowedInit
<1>2. TypeOK /\ PlaceOK /\ HashOne /\ [ExchangeNext]_exchangeVars => HashOne'
  BY HashOneStep
<1>3. TypeOK /\ NonZeroUnique /\ PlaceOK /\ WireOK /\ HashOne /\ Followed /\ [ExchangeNext]_exchangeVars
        => Followed'
  BY FollowedStep
<1>4. Followed => Tracked
  BY OneFlightCounts DEF Followed, Tracked
<1> QED BY <1>1, <1>2, <1>3, <1>4, WiresAreOK, ExchangesKeepIdentifiers, PTL DEF ExchangeSpec
=============================================================================
