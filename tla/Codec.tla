------------------------------- MODULE Codec -------------------------------
(***************************************************************************)
(* Packets and bytes (encoding/helper.go, encoding/message): WriteTo makes *)
(* a packet's bytes, Parse reads the packet at the start of a stream.      *)
(*                                                                         *)
(* A string is the sequence of its bytes.  A packet has the fields that    *)
(* something in the broker reads: of the fixed header, those of PUBLISH    *)
(* only; of a will, all but its retain flag; of CONNECT, neither version   *)
(* nor keepalive.                                                          *)
(***************************************************************************)
EXTENDS Integers, Sequences

Sq == INSTANCE SequencesExt

(* The packet types, each at its number. *)
PTypes == <<"connect", "connack", "publish", "puback", "pubrec", "pubrel", "pubcomp",
            "subscribe", "suback", "unsubscribe", "unsuback", "pingreq", "pingresp", "disconnect">>
PType(type) == CHOOSE i \in DOMAIN PTypes : PTypes[i] = type

Acks == {"puback", "pubrec", "pubrel", "pubcomp", "unsuback"}
NoBody == {"pingreq", "pingresp", "disconnect"}
Bare(type) == [type |-> type]
Ack(type, id) == [type |-> type, id |-> id]
Suback(id, codes) == [type |-> "suback", id |-> id, codes |-> codes]

(* A byte, a number of two of them, and a string whose length fits those. *)
Byte == 0 .. 255
Words == {n \in Nat : n < 65536}
Strings == {s \in Seq(Byte) : Len(s) \in Words}

(* The packets that clients send, besides acknowledgements.  An identifier goes
   with QoS 1 and 2 only; a will is there or not, a user name and a password are
   unless they are empty; an UNSUBSCRIBE has a filter. *)
Publications ==
  {p \in [type : {"publish"}, dup : BOOLEAN, qos : 0 .. 2, retain : {0, 1}, topic : Strings,
          id : Words, payload : Seq(Byte)] : p.qos = 0 => p.id = 0}
Wills == [topic : Strings, message : Strings, qos : 0 .. 2]
Connects ==
  [type : {"connect"}, magic : Strings, client : Strings, clean : BOOLEAN,
   will : {w \in Seq(Wills) : Len(w) <= 1}, user : Strings, password : Strings]
Subscribes == [type : {"subscribe"}, id : Words, filters : Seq([path : Strings, qos : Byte])]
Unsubscribes ==
  {p \in [type : {"unsubscribe"}, id : Words, filters : Seq([path : Strings, qos : {0}])] :
     p.filters # <<>>}

Word(n) == <<n \div 256, n % 256>>
String(s) == Word(Len(s)) \o s
WordAt(b, o) == 256 * b[o + 1] + b[o + 2]
StringAt(b, o) == SubSeq(b, o + 3, o + 2 + WordAt(b, o))
From(b, o) == SubSeq(b, o + 1, Len(b))
Bit(n, weight) == (n \div weight) % 2 = 1

-----------------------------------------------------------------------------
(* The variable-length integer: seven bits in a byte, the lowest first.  The
   length 0 is written without any byte, and a fourth byte is refused. *)
VarintLen(n) ==
  IF n = 0 THEN 0 ELSE IF n < 128 THEN 1 ELSE IF n < 16384 THEN 2 ELSE IF n < 2097152 THEN 3 ELSE 4
Weight == <<1, 128, 16384, 2097152>>
WriteVarint(n) ==
  [i \in 1 .. VarintLen(n) |->
     LET x == n \div Weight[i] IN IF x \div 128 > 0 THEN (x % 128) + 128 ELSE x % 128]

Overflow == [value |-> -1, used |-> 4]
ReadVarint(b) ==
  IF b[1] < 128 THEN [value |-> b[1], used |-> 1]
  ELSE IF b[2] < 128 THEN [value |-> b[1] - 128 + 128 * b[2], used |-> 2]
  ELSE IF b[3] < 128 THEN [value |-> b[1] - 128 + 128 * (b[2] - 128) + 16384 * b[3], used |-> 3]
  ELSE Overflow

-----------------------------------------------------------------------------
(* The bytes of a packet. *)
QosBits(qos) == CASE qos = 1 -> 2 [] qos = 2 -> 4 [] OTHER -> 0
Flags(p) ==
  IF p.type = "publish"
    THEN p.retain + QosBits(p.qos) + (IF p.dup THEN 8 ELSE 0)
    ELSE IF p.type \in {"subscribe", "unsubscribe", "pubrel"} THEN 2 ELSE 0
FirstByte(p) == 16 * PType(p.type) + Flags(p)

(* CONNECT's flags: clean session, will and its QoS, password, user name.  "qos2"
   is what stands for a will of QoS 2: both QoS bits here, the upper one in
   the standard. *)
ConnectFlags(p, qos2) ==
  (IF p.clean THEN 2 ELSE 0)
  + (IF p.will = <<>> THEN 0
     ELSE 4 + (CASE p.will[1].qos = 1 -> 8 [] p.will[1].qos = 2 -> qos2 [] OTHER -> 0))
  + (IF p.user # <<>> THEN 128 ELSE 0) + (IF p.password # <<>> THEN 64 ELSE 0)
ConnectBody(p, qos2) ==
  String(p.magic) \o <<4, ConnectFlags(p, qos2)>> \o Word(0) \o String(p.client)
  \o (IF p.will = <<>> THEN <<>> ELSE String(p.will[1].topic) \o String(p.will[1].message))
  \o (IF p.user = <<>> THEN <<>> ELSE String(p.user))
  \o (IF p.password = <<>> THEN <<>> ELSE String(p.password))

Identifier(p) == IF p.qos > 0 THEN Word(p.id) ELSE <<>>
PublishBody(p) == String(p.topic) \o Identifier(p) \o p.payload
SubscribeBody(p) ==
  Word(p.id) \o Sq!FlattenSeq([i \in DOMAIN p.filters |->
                                 String(p.filters[i].path) \o <<p.filters[i].qos>>])
UnsubscribeBody(p) ==
  Word(p.id) \o Sq!FlattenSeq([i \in DOMAIN p.filters |-> String(p.filters[i].path)])
Body(p, qos2) ==
  CASE p.type = "connect" -> ConnectBody(p, qos2)
    [] p.type = "connack" -> <<0, p.code>>
    [] p.type = "publish" -> PublishBody(p)
    [] p.type \in Acks -> Word(p.id)
    [] p.type = "suback" -> Word(p.id) \o p.codes
    [] p.type = "subscribe" -> SubscribeBody(p)
    [] p.type = "unsubscribe" -> UnsubscribeBody(p)
    [] p.type \in NoBody -> <<>>

(* The remaining length is worked out apart from the body.  CONNECT leaves the
   two bytes of an empty identifier out. *)
Paths(filters, extra) == Sq!FoldLeft(LAMBDA n, f : n + 2 + Len(f.path) + extra, 0, filters)
Present(s) == IF s = <<>> THEN 0 ELSE 2 + Len(s)
ConnectSize(p) ==
  2 + Len(p.magic) + 4 + Present(p.client)
  + (IF p.will = <<>> THEN 0 ELSE 4 + Len(p.will[1].topic) + Len(p.will[1].message))
  + Present(p.user) + Present(p.password)
SizeWithoutId(p) == 2 + Len(p.topic) + Len(p.payload)
PublishSize(p) == 2 + Len(p.topic) + (IF p.qos > 0 THEN 2 ELSE 0) + Len(p.payload)
Size(p) ==
  CASE p.type = "connect" -> ConnectSize(p)
    [] p.type = "publish" -> PublishSize(p)
    [] p.type = "suback" -> 2 + Len(p.codes)
    [] p.type = "subscribe" -> 2 + Paths(p.filters, 1)
    [] p.type = "unsubscribe" -> 2 + Paths(p.filters, 0)
    [] p.type \in NoBody -> 0
    [] OTHER -> 2

WriteTo(p) == <<FirstByte(p)>> \o WriteVarint(Size(p)) \o Body(p, 24)

(* What MQTT 3.1.1 asks for: a length has up to four digits. *)
Low(n) == n % 128
More(n) == 128 + Low(n)
StandardLength(n) ==
  IF n < 128 THEN <<n>>
  ELSE IF n < 16384 THEN <<More(n), n \div 128>>
  ELSE IF n < 2097152 THEN <<More(n), More(n \div 128), n \div 16384>>
  ELSE <<More(n), More(n \div 128), More(n \div 16384), n \div 2097152>>
Standard(p) == LET b == Body(p, 16) IN <<FirstByte(p)>> \o StandardLength(Len(b)) \o b
Stream(packets) == Sq!FlattenSeq([i \in DOMAIN packets |-> Standard(packets[i])])

-----------------------------------------------------------------------------
(* Decoding: the packet, or "refused", and how many bytes of the body it has
   taken from the stream. *)
Refused == [type |-> "refused"]
Decoded(p, used) == [packet |-> p, used |-> used]

DecodeConnect(b, length) ==
  LET c == SubSeq(b, 1, length)
      magic == StringAt(c, 0)                o == 2 + Len(magic)
      flag == c[o + 2]
      client == StringAt(c, o + 4)           o1 == o + 6 + Len(client)
      topic == StringAt(c, o1)               message == StringAt(c, o1 + 2 + Len(topic))
      will == IF Bit(flag, 4)
                THEN <<[topic |-> topic, message |-> message,
                        qos |-> IF Bit(flag, 16) THEN 2 ELSE IF Bit(flag, 8) THEN 1 ELSE 0]>>
                ELSE <<>>
      o2 == IF will = <<>> THEN o1 ELSE o1 + 4 + Len(topic) + Len(message)
      user == IF Bit(flag, 128) THEN StringAt(c, o2) ELSE <<>>
      o3 == IF Bit(flag, 128) THEN o2 + 2 + Len(user) ELSE o2
      password == IF Bit(flag, 64) THEN StringAt(c, o3) ELSE <<>>
  IN Decoded(IF length < 2 + WordAt(c, 0) THEN Refused
             ELSE [type |-> "connect", magic |-> magic, client |-> client, clean |-> Bit(flag, 2),
                   will |-> will, user |-> user, password |-> password], length)

(* Where the payload begins, a number of two bytes: behind a topic of 65534
   bytes or more and an identifier, it has gone round. *)
NoIdentifier(n, qos) == n
PayloadAt(n, qos) == IF qos > 0 THEN (n + 2) % 65536 ELSE n
DecodePublish(b, length, flags) ==
  LET n == WordAt(b, 0)
      rest == SubSeq(b, 3, length)
      qos == IF Bit(flags, 4) THEN 2 ELSE IF Bit(flags, 2) THEN 1 ELSE 0
      id == IF qos > 0 THEN WordAt(rest, n) ELSE 0
  IN IF length - 2 < 1 THEN Decoded(Refused, 2)
     ELSE IF n > Len(rest) THEN Decoded(Refused, length)
     ELSE Decoded([type |-> "publish", dup |-> Bit(flags, 8), qos |-> qos, retain |-> flags % 2,
                   topic |-> SubSeq(rest, 1, n), id |-> id,
                   payload |-> From(rest, PayloadAt(n, qos))], length)

(* The loop over the filters, "read" after each round: it stops when what is left
   of the length, less "step" for each filter besides its path, is used up. *)
Filters(b, left0, qosByte, step) ==
  LET read[n \in Nat] ==
        IF n = 0 THEN [at |-> 2, left |-> left0, filters |-> <<>>]
        ELSE LET r == read[n - 1]
                 path == StringAt(b, r.at)
                 next == r.at + 2 + Len(path) + qosByte
                 qos == IF qosByte = 1 THEN b[next] ELSE 0
             IN IF r.left <= 0 THEN r
                ELSE [at |-> next, left |-> r.left - Len(path) - step,
                      filters |-> Append(r.filters, [path |-> path, qos |-> qos])]
  IN read[IF left0 > 0 THEN left0 ELSE 0]
StepOfSubscribe == 3
StepOfUnsubscribe == 3
DecodeSubscribe(b, length) ==
  LET f == Filters(b, length - 2, 1, StepOfSubscribe)
  IN Decoded([type |-> "subscribe", id |-> WordAt(b, 0), filters |-> f.filters], f.at)
DecodeUnsubscribe(b, length) ==
  LET f == Filters(b, length - 2, 0, StepOfUnsubscribe)
  IN Decoded([type |-> "unsubscribe", id |-> WordAt(b, 0), filters |-> f.filters], f.at)

(* The loop of SUBACK counts up and what is left, a byte, down: it reads half of
   the codes and one, of none 129. *)
DecodeSuback(b, length) ==
  LET n == (length + 254) % 256
      codes == IF n = 0 THEN 129 ELSE n \div 2 + 1
  IN Decoded(Suback(WordAt(b, 0), SubSeq(b, 3, 2 + codes)), 2 + codes)

(* "first" and "b" are the packet's first byte and the stream after its fixed
   header. *)
Decode(first, length, b) ==
  LET number == first \div 16
      type == IF number \in DOMAIN PTypes THEN PTypes[number] ELSE "reserved"
  IN CASE type = "connect" -> DecodeConnect(b, length)
       [] type = "connack" -> Decoded([type |-> "connack", code |-> b[2]], 2)
       [] type = "suback" -> DecodeSuback(b, length)
       [] type = "publish" -> DecodePublish(b, length, first % 16)
       [] type = "subscribe" -> DecodeSubscribe(b, length)
       [] type = "unsubscribe" -> DecodeUnsubscribe(b, length)
       [] type \in Acks -> Decoded(Ack(type, WordAt(b, 0)), 2)
       [] type \in NoBody -> Decoded(Bare(type), 0)
       [] OTHER -> Decoded(Refused, 0)

(* Parse reads one packet; a length that overflows or is above the configured
   size is refused.  "rest" is the stream after it. *)
Parse(stream, maxLen) ==
  LET v == ReadVarint(Tail(stream))
      b == From(stream, 1 + v.used)
      d == Decode(stream[1], v.value, b)
  IN IF v = Overflow \/ (maxLen > 0 /\ v.value > maxLen)
       THEN [packet |-> Refused, rest |-> b]
       ELSE [packet |-> d.packet, rest |-> From(b, d.used)]

(* A packet that MQTT 3.1.1 has a length for, an UNSUBSCRIBE whose loop ends
   before its last filter, and a PUBLISH whose payload the decoder looks for in
   its topic. *)
Fits(p) == Len(Body(p, 16)) < 268435456
Overruns(p) ==
  p.type = "unsubscribe" /\ Len(p.filters) >= Len(p.filters[Len(p.filters)].path) + 3
Wraps(p) == p.type = "publish" /\ p.qos > 0 /\ Len(p.topic) >= 65534
=============================================================================
