---------------------------- MODULE CodecProofs ----------------------------
(***************************************************************************)
(* What the broker reads is what was written, for every topic, payload,    *)
(* identifier, list of filters and will: first the variable-length         *)
(* integer and the fixed header, then the body of each type of packet, and *)
(* what is left in the stream when an UNSUBSCRIBE is not read to its end.  *)
(***************************************************************************)
EXTENDS Codec, SequenceTheorems, WellFoundedInduction, TLAPS

(* The lengths that WriteVarint and ReadVarint agree on. *)
Lengths == {n \in Nat : 0 < n /\ n < 2097152}

(* The seven-bit digits of a length, the lowest first. *)
LEMMA VarintDigits ==
  ASSUME NEW n \in Lengths
  PROVE  /\ WriteVarint(n) \in Seq(Byte) /\ Len(WriteVarint(n)) = VarintLen(n)
         /\ VarintLen(n) \in 1 .. 3
         /\ n < 128 => VarintLen(n) = 1 /\ WriteVarint(n)[1] = n
         /\ 128 <= n /\ n < 16384 =>
              /\ VarintLen(n) = 2
              /\ WriteVarint(n)[1] = (n % 128) + 128 /\ WriteVarint(n)[2] = n \div 128
         /\ 16384 <= n =>
              /\ VarintLen(n) = 3
              /\ WriteVarint(n)[1] = (n % 128) + 128
              /\ WriteVarint(n)[2] = ((n \div 128) % 128) + 128
              /\ WriteVarint(n)[3] = n \div 16384
<1> DEFINE Digit(i) == LET x == n \div Weight[i] IN IF x \div 128 > 0 THEN (x % 128) + 128 ELSE x % 128
<1>1. VarintLen(n) \in 1 .. 3
  BY DEF VarintLen, Lengths
<1>2. \A i \in 1 .. 3 : Digit(i) \in Byte
  BY DEF Byte, Weight, Lengths
<1>3. WriteVarint(n) = [i \in 1 .. VarintLen(n) |-> Digit(i)]
  BY DEF WriteVarint
<1>4. n < 128 => VarintLen(n) = 1 /\ Digit(1) = n
  BY DEF VarintLen, Weight, Lengths
<1>5. 128 <= n /\ n < 16384 =>
        VarintLen(n) = 2 /\ Digit(1) = (n % 128) + 128 /\ Digit(2) = n \div 128
  BY DEF VarintLen, Weight, Lengths
<1>6. 16384 <= n =>
        /\ VarintLen(n) = 3 /\ Digit(1) = (n % 128) + 128
        /\ Digit(2) = ((n \div 128) % 128) + 128 /\ Digit(3) = n \div 16384
  BY DEF VarintLen, Weight, Lengths
<1> HIDE DEF Digit
<1>7. WriteVarint(n) \in Seq(Byte) /\ Len(WriteVarint(n)) = VarintLen(n)
  BY <1>1, <1>2, <1>3
<1> QED
  BY <1>1, <1>3, <1>4, <1>5, <1>6, <1>7

(* ReadVarint reads the lengths that WriteVarint writes, and no byte more: all
   but 0, for which no byte is written, and those of four bytes. *)
THEOREM VarintRoundTrip ==
  ASSUME NEW n \in Lengths, NEW rest \in Seq(Byte)
  PROVE  ReadVarint(WriteVarint(n) \o rest) = [value |-> n, used |-> VarintLen(n)]
<1> DEFINE w == WriteVarint(n)
           b == w \o rest
<1>1. w \in Seq(Byte) /\ Len(w) = VarintLen(n) /\ VarintLen(n) \in 1 .. 3
  BY VarintDigits
<1>2. \A i \in 1 .. Len(w) : b[i] = w[i]
  BY <1>1
<1>3. n < 128 => VarintLen(n) = 1 /\ b[1] = n
  BY <1>1, <1>2, VarintDigits
<1>4. 128 <= n /\ n < 16384 =>
        VarintLen(n) = 2 /\ b[1] = (n % 128) + 128 /\ b[2] = n \div 128
  BY <1>1, <1>2, VarintDigits
<1>5. 16384 <= n =>
        /\ VarintLen(n) = 3 /\ b[1] = (n % 128) + 128
        /\ b[2] = ((n \div 128) % 128) + 128 /\ b[3] = n \div 16384
  BY <1>1, <1>2, VarintDigits
<1> SUFFICES ReadVarint(b) = [value |-> n, used |-> VarintLen(n)]
  OBVIOUS
<1> HIDE DEF b, w
<1>6. CASE n < 128
  BY <1>3, <1>6 DEF ReadVarint
<1>7. CASE 128 <= n /\ n < 16384
  <2> DEFINE x == n % 128   y == n \div 128
  <2>1. x \in 0 .. 127 /\ y \in 0 .. 127 /\ n = x + 128 * y
    BY <1>7 DEF Lengths
  <2>2. VarintLen(n) = 2 /\ b[1] = x + 128 /\ b[2] = y
    BY <1>4, <1>7
  <2> HIDE DEF x, y
  <2>3. ReadVarint(b) = [value |-> b[1] - 128 + 128 * b[2], used |-> 2]
    BY <2>1, <2>2 DEF ReadVarint
  <2>4. b[1] - 128 + 128 * b[2] = n
    BY <2>1, <2>2
  <2> QED
    BY <2>2, <2>3, <2>4
<1>8. CASE 16384 <= n
  <2> DEFINE x == n % 128   y == (n \div 128) % 128   z == n \div 16384
  <2>1. x \in 0 .. 127 /\ y \in 0 .. 127 /\ z \in 0 .. 127 /\ n = x + 128 * y + 16384 * z
    BY <1>8 DEF Lengths
  <2>2. VarintLen(n) = 3 /\ b[1] = x + 128 /\ b[2] = y + 128 /\ b[3] = z
    BY <1>5, <1>8
  <2> HIDE DEF x, y, z
  <2>3. ReadVarint(b) =
          [value |-> b[1] - 128 + 128 * (b[2] - 128) + 16384 * b[3], used |-> 3]
    BY <2>1, <2>2 DEF ReadVarint
  <2>4. b[1] - 128 + 128 * (b[2] - 128) + 16384 * b[3] = n
    BY <2>1, <2>2
  <2> QED
    BY <2>2, <2>3, <2>4
<1> QED
  BY <1>6, <1>7, <1>8 DEF Lengths

-----------------------------------------------------------------------------
(* A stream cut where its first part ends. *)
LEMMA Cut ==
  ASSUME NEW s \in Seq(Byte), NEW t \in Seq(Byte)
  PROVE  SubSeq(s \o t, 1, Len(s)) = s /\ From(s \o t, Len(s)) = t
<1>1. /\ s \o t \in Seq(Byte) /\ Len(s) \in Nat /\ Len(t) \in Nat /\ Len(s \o t) = Len(s) + Len(t)
      /\ \A i \in 1 .. Len(s) + Len(t) : (s \o t)[i] = IF i <= Len(s) THEN s[i] ELSE t[i - Len(s)]
  BY ConcatProperties, LenProperties
<1> DEFINE u == s \o t
<1>2. SubSeq(u, 1, Len(s)) \in Seq(Byte)
      /\ Len(SubSeq(u, 1, Len(s))) = Len(s)
      /\ \A i \in 1 .. Len(s) : SubSeq(u, 1, Len(s))[i] = u[i]
  BY <1>1
<1>3. /\ From(u, Len(s)) \in Seq(Byte) /\ Len(From(u, Len(s))) = Len(t)
      /\ \A i \in 1 .. Len(t) : From(u, Len(s))[i] = u[Len(s) + i]
  BY <1>1 DEF From
<1>4. \A i \in 1 .. Len(s) : SubSeq(u, 1, Len(s))[i] = s[i]
  BY <1>1, <1>2
<1>5. \A i \in 1 .. Len(t) : From(u, Len(s))[i] = t[i]
  BY <1>1, <1>3
<1> HIDE DEF u
<1>6. SubSeq(u, 1, Len(s)) = s
  BY <1>2, <1>4, SeqEqual
<1>7. From(u, Len(s)) = t
  BY <1>3, <1>5, SeqEqual
<1> QED
  BY <1>6, <1>7 DEF u

(* A two-byte number is read, wherever it stands, as it was written. *)
LEMMA WordRoundTrip ==
  ASSUME NEW n \in Words, NEW s \in Seq(Byte), NEW t \in Seq(Byte)
  PROVE  Word(n) \in Seq(Byte) /\ Len(Word(n)) = 2 /\ WordAt(s \o (Word(n) \o t), Len(s)) = n
<1> DEFINE w == Word(n)   h == n \div 256   l == n % 256
<1>1. h \in Byte /\ l \in Byte /\ 256 * h + l = n
  BY SMT DEF Byte, Words
<1> HIDE DEF h, l
<1>2. w \in Seq(Byte) /\ Len(w) = 2 /\ w[1] = h /\ w[2] = l
  BY <1>1 DEF Word, h, l
<1> HIDE DEF w
<1>3. /\ w \o t \in Seq(Byte) /\ Len(w \o t) = Len(w) + Len(t)
      /\ \A i \in 1 .. Len(w) + Len(t) : (w \o t)[i] = IF i <= Len(w) THEN w[i] ELSE t[i - Len(w)]
  <2>1. w \in Seq(Byte)
    BY <1>2
  <2>2. w \o t \in Seq(Byte) /\ Len(w \o t) = Len(w) + Len(t)
    BY <2>1
  <2>3. \A i \in 1 .. Len(w) + Len(t) : (w \o t)[i] = IF i <= Len(w) THEN w[i] ELSE t[i - Len(w)]
    BY <2>1, ConcatProperties
  <2> QED
    BY <2>2, <2>3
<1> DEFINE v == w \o t
<1> HIDE DEF v
<1>4. v \in Seq(Byte) /\ Len(v) = 2 + Len(t) /\ v[1] = h /\ v[2] = l
  <2>1. Len(t) \in Nat
    BY LenProperties
  <2>2. /\ v \in Seq(Byte) /\ Len(v) = 2 + Len(t)
        /\ \A i \in 1 .. 2 + Len(t) : v[i] = IF i <= 2 THEN w[i] ELSE t[i - 2]
    BY <1>2, <1>3 DEF v
  <2> QED
    BY <1>2, <2>1, <2>2
<1>5. (s \o v)[Len(s) + 1] = h /\ (s \o v)[Len(s) + 2] = l
  <2>1. \A i \in 1 .. Len(s) + Len(v) : (s \o v)[i] = IF i <= Len(s) THEN s[i] ELSE v[i - Len(s)]
    BY <1>4, ConcatProperties
  <2>2. (s \o v)[Len(s) + 1] = v[1] /\ (s \o v)[Len(s) + 2] = v[2]
    <3>1. Len(s) \in Nat /\ Len(t) \in Nat
      BY LenProperties
    <3> QED
      BY <3>1, <1>4, <2>1
  <2> QED
    BY <1>4, <2>2
<1>6. WordAt(s \o v, Len(s)) = n
  BY <1>1, <1>5 DEF WordAt
<1> QED
  BY <1>2, <1>6 DEF v, w

(* The first byte of a PUBLISH gives back its type and its flags. *)
LEMMA FlagsRoundTrip ==
  ASSUME NEW p \in Publications
  PROVE  LET f == Flags(p) IN
         /\ FirstByte(p) \in Byte /\ FirstByte(p) \div 16 = 3 /\ FirstByte(p) % 16 = f
         /\ p.dup = Bit(f, 8) /\ p.retain = f % 2
         /\ p.qos = IF Bit(f, 4) THEN 2 ELSE IF Bit(f, 2) THEN 1 ELSE 0
<1>1. p.type = "publish" /\ p.dup \in BOOLEAN /\ p.qos \in {0, 1, 2} /\ p.retain \in {0, 1}
  BY DEF Publications
<1>2. PType("publish") = 3
  <2>1. \A i \in DOMAIN PTypes : PTypes[i] = "publish" <=> i = 3
    BY DEF PTypes
  <2>2. 3 \in DOMAIN PTypes
    BY DEF PTypes
  <2> QED
    BY <2>1, <2>2 DEF PType
<1>3. QosBits(p.qos) = 2 * p.qos
  BY <1>1 DEF QosBits
<1>4. Flags(p) = p.retain + 2 * p.qos + (IF p.dup THEN 8 ELSE 0)
  BY <1>1, <1>3 DEF Flags
<1>5. FirstByte(p) = 48 + Flags(p)
  BY <1>1, <1>2 DEF FirstByte
<1>7. \A f \in 0 .. 15 : 48 + f \in Byte /\ (48 + f) \div 16 = 3 /\ (48 + f) % 16 = f
  BY DEF Byte
<1> DEFINE d == IF p.dup THEN 8 ELSE 0   f == Flags(p)
           q == p.qos                    r == p.retain
<1>8. d \in {0, 8} /\ (p.dup <=> d = 8) /\ f = p.retain + 2 * p.qos + d
  BY <1>1, <1>4
<1> HIDE DEF d, f
<1>9. /\ f \in 0 .. 15 /\ f % 2 = p.retain /\ (Bit(f, 8) <=> d = 8)
      /\ (Bit(f, 4) <=> p.qos = 2) /\ (Bit(f, 2) <=> p.qos = 1)
  <2>1. /\ f \in 0 .. 15 /\ f % 2 = p.retain /\ ((f \div 8) % 2 = 1 <=> d = 8)
        /\ ((f \div 4) % 2 = 1 <=> p.qos = 2) /\ ((f \div 2) % 2 = 1 <=> p.qos = 1)
    <3>1. q \in {0, 1, 2} /\ r \in {0, 1} /\ d \in {0, 8} /\ f = r + 2 * q + d
      BY <1>1, <1>8
    <3>2. (f \in 0 .. 15 /\ f % 2 = r /\ ((f \div 8) % 2 = 1 <=> d = 8)
            /\ ((f \div 4) % 2 = 1 <=> q = 2) /\ ((f \div 2) % 2 = 1 <=> q = 1))
      <4> HIDE DEF q, r
      <4> QED
        BY <3>1
    <3> QED
      BY <3>2
  <2> QED
    BY <2>1 DEF Bit
<1>10. FirstByte(p) \in Byte /\ FirstByte(p) \div 16 = 3 /\ FirstByte(p) % 16 = f
  BY <1>5, <1>7, <1>9 DEF f
<1>11. p.dup = Bit(f, 8)
  BY <1>1, <1>8, <1>9 DEF Bit
<1>12. p.qos = IF Bit(f, 4) THEN 2 ELSE IF Bit(f, 2) THEN 1 ELSE 0
  BY <1>1, <1>9
<1> QED
  BY <1>9, <1>10, <1>11, <1>12 DEF f

(* Concatenation keeps bytes bytes and adds lengths. *)
LEMMA Concat ==
  ASSUME NEW s \in Seq(Byte), NEW t \in Seq(Byte)
  PROVE  s \o t \in Seq(Byte) /\ Len(s \o t) = Len(s) + Len(t) /\ Len(s) \in Nat /\ Len(t) \in Nat
OBVIOUS

(* The middle one of three parts. *)
LEMMA Slice ==
  ASSUME NEW s \in Seq(Byte), NEW t \in Seq(Byte), NEW u \in Seq(Byte)
  PROVE  SubSeq((s \o t) \o u, Len(s) + 1, Len(s) + Len(t)) = t
<1> DEFINE v == s \o t   z == v \o u   x == SubSeq(z, Len(s) + 1, Len(s) + Len(t))
<1>1. v \in Seq(Byte) /\ Len(v) = Len(s) + Len(t) /\ Len(s) \in Nat /\ Len(t) \in Nat
  BY Concat
<1>2. \A i \in 1 .. Len(s) + Len(t) : v[i] = IF i <= Len(s) THEN s[i] ELSE t[i - Len(s)]
  BY ConcatProperties
<1> HIDE DEF v
<1>3. z \in Seq(Byte) /\ Len(z) = Len(v) + Len(u) /\ Len(u) \in Nat
  BY <1>1, Concat
<1>4. \A i \in 1 .. Len(v) + Len(u) : z[i] = IF i <= Len(v) THEN v[i] ELSE u[i - Len(v)]
  BY <1>1, ConcatProperties
<1> HIDE DEF z
<1>5. \A i \in 1 .. Len(t) : v[Len(s) + i] = t[i]
  BY <1>1, <1>2
<1>6. \A i \in 1 .. Len(t) : z[Len(s) + i] = v[Len(s) + i]
  BY <1>1, <1>3, <1>4
<1>7. /\ x \in Seq(Byte) /\ Len(x) = Len(t)
      /\ \A i \in 1 .. Len(t) : x[i] = z[Len(s) + i]
  BY <1>1, <1>3
<1> HIDE DEF x
<1>8. \A i \in 1 .. Len(t) : x[i] = t[i]
  BY <1>5, <1>6, <1>7
<1>9. x = t
  BY <1>7, <1>8, SeqEqual
<1> QED
  BY <1>9 DEF x, z, v

(* Concatenation is associative. *)
LEMMA Assoc == \A s, t, u \in Seq(Byte) : (s \o t) \o u = s \o (t \o u)
BY ConcatAssociative

(* The parts of the body of a PUBLISH. *)
LEMMA PublishParts ==
  ASSUME NEW p \in Publications
  PROVE  /\ p.topic \in Seq(Byte) /\ p.payload \in Seq(Byte) /\ Identifier(p) \in Seq(Byte)
         /\ Len(p.topic) \in Nat /\ Len(p.topic) \in Words /\ Len(p.payload) \in Nat
         /\ Word(Len(p.topic)) \in Seq(Byte) /\ Len(Word(Len(p.topic))) = 2
         /\ Len(Identifier(p)) = (IF p.qos > 0 THEN 2 ELSE 0)
         /\ PublishSize(p) = 2 + Len(p.topic) + Len(Identifier(p)) + Len(p.payload)
         /\ Body(p, 24) = ((Word(Len(p.topic)) \o p.topic) \o Identifier(p)) \o p.payload
<1>1. /\ p.topic \in Seq(Byte) /\ p.payload \in Seq(Byte) /\ p.id \in Words
      /\ Len(p.topic) \in Words /\ p.type = "publish" /\ p.qos \in {0, 1, 2}
  BY DEF Publications, Strings
<1>2. Len(p.topic) \in Nat /\ Len(p.payload) \in Nat
  BY <1>1, LenProperties
<1>3. Word(Len(p.topic)) \in Seq(Byte) /\ Len(Word(Len(p.topic))) = 2
  BY <1>1, <1>2, WordRoundTrip
<1>4. Word(p.id) \in Seq(Byte) /\ Len(Word(p.id)) = 2
  BY <1>1, WordRoundTrip
<1>5. Identifier(p) \in Seq(Byte) /\ Len(Identifier(p)) = (IF p.qos > 0 THEN 2 ELSE 0)
  <2>1. CASE p.qos > 0
    BY <1>4, <2>1 DEF Identifier
  <2>2. CASE ~(p.qos > 0)
    BY <2>2 DEF Identifier
  <2> QED
    BY <2>1, <2>2
<1>6. PublishSize(p) = 2 + Len(p.topic) + Len(Identifier(p)) + Len(p.payload)
  <2>1. CASE p.qos > 0
    BY <1>2, <1>5, <2>1 DEF PublishSize
  <2>2. CASE ~(p.qos > 0)
    BY <1>2, <1>5, <2>2 DEF PublishSize
  <2> QED
    BY <2>1, <2>2
<1>7. Body(p, 24) = PublishBody(p)
  BY <1>1 DEF Body, Acks, NoBody
<1>8. PublishBody(p) = ((Word(Len(p.topic)) \o p.topic) \o Identifier(p)) \o p.payload
  BY DEF PublishBody, String
<1>9. Body(p, 24) = ((Word(Len(p.topic)) \o p.topic) \o Identifier(p)) \o p.payload
  BY <1>7, <1>8, Zenon
<1> QED
  BY <1>1, <1>2, <1>3, <1>5, <1>6, <1>9, Zenon

(* DecodePublish takes the parts apart again, and leaves what follows; the
   payload, only where its place fits two bytes. *)
LEMMA PublishDecoded ==
  ASSUME NEW p \in Publications, PublishSize(p) > 2, NEW rest \in Seq(Byte)
  PROVE  /\ Body(p, 24) \in Seq(Byte) /\ Len(Body(p, 24)) = PublishSize(p)
         /\ \E y : /\ DecodePublish(Body(p, 24) \o rest, PublishSize(p), Flags(p))
                        = Decoded([p EXCEPT !.payload = y], PublishSize(p))
                   /\ ~Wraps(p) => y = p.payload
<1> DEFINE t == p.topic   k == Identifier(p)   y == p.payload   w == Word(Len(t))
           tk == t \o k   r == tk \o y         b == w \o r      size == PublishSize(p)
           f == Flags(p)
<1>1. /\ t \in Seq(Byte) /\ y \in Seq(Byte) /\ k \in Seq(Byte) /\ w \in Seq(Byte)
      /\ Len(t) \in Nat /\ Len(t) \in Words /\ Len(y) \in Nat /\ Len(w) = 2
      /\ Len(k) = (IF p.qos > 0 THEN 2 ELSE 0) /\ size = 2 + Len(t) + Len(k) + Len(y)
      /\ Body(p, 24) = ((w \o t) \o k) \o y
  BY PublishParts
<1>2. /\ p.id \in Words /\ p.qos \in {0, 1, 2} /\ (p.qos = 0 => p.id = 0)
      /\ p = [type |-> "publish", dup |-> p.dup, qos |-> p.qos, retain |-> p.retain, topic |-> t,
              id |-> p.id, payload |-> y]
  BY DEF Publications
<1>3. k = IF p.qos > 0 THEN Word(p.id) ELSE <<>>
  BY DEF Identifier
<1>4. /\ p.dup = Bit(f, 8) /\ p.retain = f % 2
      /\ p.qos = IF Bit(f, 4) THEN 2 ELSE IF Bit(f, 2) THEN 1 ELSE 0
  BY FlagsRoundTrip
<1>5. \A s \in Seq(Byte) : WordAt(w \o s, 0) = Len(t)
  <2> SUFFICES ASSUME NEW s \in Seq(Byte) PROVE WordAt(w \o s, 0) = Len(t)
    OBVIOUS
  <2>1. <<>> \in Seq(Byte) /\ Len(<<>>) = 0
    OBVIOUS
  <2>2. WordAt(<<>> \o (w \o s), Len(<<>>)) = Len(t)
    BY <1>1, <2>1, WordRoundTrip
  <2> HIDE DEF w, t
  <2>3. w \o s \in Seq(Byte)
    BY <1>1
  <2>4. <<>> \o (w \o s) = w \o s
    BY <2>3
  <2> QED
    BY <2>1, <2>2, <2>4, Zenon
<1> HIDE DEF t, k, y, w, f, size
<1>6. tk \in Seq(Byte) /\ Len(tk) = Len(t) + Len(k)
  BY <1>1, Concat
<1>7. /\ Body(p, 24) = b /\ b \in Seq(Byte) /\ Len(b) = size
      /\ r \in Seq(Byte) /\ Len(r) = Len(t) + Len(k) + Len(y)
  <2>1. (w \o t) \o k = w \o tk
    BY <1>1, Assoc, ZenonT(30)
  <2> HIDE DEF tk
  <2>2. (w \o tk) \o y = b
    BY <1>1, <1>6, Assoc, ZenonT(30)
  <2>3. r \in Seq(Byte) /\ Len(r) = Len(tk) + Len(y)
    BY <1>1, <1>6, Concat
  <2> HIDE DEF r
  <2>4. b \in Seq(Byte) /\ Len(b) = Len(w) + Len(r)
    BY <1>1, <2>3, Concat
  <2>5. Len(b) = size /\ Len(r) = Len(t) + Len(k) + Len(y)
    BY <1>1, <1>6, <2>3, <2>4, SMTT(20)
  <2> QED
    BY <1>1, <2>1, <2>2, <2>3, <2>4, <2>5, Zenon
<1>8. From(r, Len(tk)) = y
  BY <1>1, <1>6, Cut DEF From
<1>9. r = t \o (k \o y) /\ k \o y \in Seq(Byte)
  <2>1. r = t \o (k \o y)
    BY <1>1, Assoc, ZenonT(30)
  <2>2. k \o y \in Seq(Byte)
    BY <1>1, Concat, Zenon
  <2> QED
    BY <2>1, <2>2, Zenon
<1>10. SubSeq(r, 1, Len(t)) = t
  BY <1>1, <1>9, Cut
<1> HIDE DEF tk
<1>11. p.id = IF p.qos > 0 THEN WordAt(r, Len(t)) ELSE 0
  <2>1. CASE p.qos > 0
    <3>1. WordAt(t \o (Word(p.id) \o y), Len(t)) = p.id
      BY <1>1, <1>2, WordRoundTrip
    <3>2. k = Word(p.id)
      BY <1>3, <2>1
    <3> QED
      BY <1>9, <2>1, <3>1, <3>2, Zenon
  <2> QED
    BY <1>2, <2>1
<1> HIDE DEF r
<1>12. SubSeq(b \o rest, 3, size) = r
  <2>1. SubSeq(b \o rest, Len(w) + 1, Len(w) + Len(r)) = r
    BY <1>1, <1>7, Slice
  <2>2. Len(w) + 1 = 3 /\ Len(w) + Len(r) = size
    BY <1>1, <1>7
  <2> QED
    BY <2>1, <2>2, Zenon
<1>13. b \o rest = w \o (r \o rest) /\ r \o rest \in Seq(Byte)
  <2>1. (w \o r) \o rest = w \o (r \o rest)
    BY <1>1, <1>7, Assoc, ZenonT(30)
  <2>2. r \o rest \in Seq(Byte)
    BY <1>7, Concat, Zenon
  <2> QED
    BY <2>1, <2>2, Zenon
<1>14. WordAt(b \o rest, 0) = Len(t)
  BY <1>5, <1>13
<1> DEFINE all == b \o rest
<1> HIDE DEF b, all
<1> DEFINE place == PayloadAt(Len(t), p.qos)   found == From(r, place)
           q == [type |-> "publish", dup |-> p.dup, qos |-> p.qos, retain |-> p.retain, topic |-> t,
                 id |-> p.id, payload |-> found]
<1>15. ~Wraps(p) => found = y
  <2> SUFFICES ASSUME ~Wraps(p) PROVE place = Len(tk)
    BY <1>8
  <2>1. p.type = "publish" /\ t = p.topic
    BY DEF Publications, t
  <2>2. CASE p.qos > 0
    <3>1. Len(t) < 65534
      BY <1>1, <2>1, <2>2 DEF Wraps
    <3>2. (Len(t) + 2) % 65536 = Len(t) + 2
      BY <1>1, <3>1
    <3> QED BY <1>1, <1>6, <2>2, <3>2 DEF PayloadAt
  <2>3. CASE ~(p.qos > 0)
    BY <1>1, <1>2, <1>6, <2>3 DEF PayloadAt
  <2> QED BY <2>2, <2>3
<1>16. ~(size - 2 < 1) /\ ~(Len(t) > Len(r))
  BY <1>1, <1>2, <1>7 DEF size
<1>17. DecodePublish(all, size, f) = Decoded(q, size)
  <2>1. WordAt(all, 0) = Len(t) /\ SubSeq(all, 3, size) = r
    BY <1>12, <1>14 DEF all
  <2> QED
    BY <2>1, <1>4, <1>10, <1>11, <1>16, Zenon DEF DecodePublish
<1>18. q = [p EXCEPT !.payload = found]
  <2> HIDE DEF found
  <2> QED BY <1>2
<1> HIDE DEF found, q
<1>19. DecodePublish(all, size, f) = Decoded([p EXCEPT !.payload = found], size)
  BY <1>17, <1>18, Zenon
<1> QED
  BY <1>7, <1>15, <1>19, Zenon DEF all, size, f, y

-----------------------------------------------------------------------------
(* The lengths of bodies that MQTT 3.1.1 has room for. *)
BodyLengths == {n \in Nat : n < 268435456}

(* The digits of a length, the lowest first. *)
LEMMA DigitsAreBytes ==
  ASSUME NEW n \in BodyLengths
  PROVE  /\ n \in Nat
         /\ n < 128 => n \in Byte
         /\ (n % 128) + 128 \in Byte /\ ((n \div 128) % 128) + 128 \in Byte
         /\ ((n \div 16384) % 128) + 128 \in Byte
         /\ n < 16384 => n \div 128 \in Byte
         /\ n \in Lengths => n \div 16384 \in Byte
         /\ n \div Weight[4] \in Byte
<1>0. Weight[4] = 2097152
  BY SMT DEF Weight
<1>1. n \in Nat /\ (n < 128 => n \in Byte)
  BY SMT DEF BodyLengths, Byte
<1>2. /\ (n % 128) + 128 \in Byte /\ ((n \div 128) % 128) + 128 \in Byte
      /\ ((n \div 16384) % 128) + 128 \in Byte
  BY SMT DEF BodyLengths, Byte
<1>3. n < 16384 => n \div 128 \in Byte
  BY SMT DEF BodyLengths, Byte
<1>4. n \in Lengths => n \div 16384 \in Byte
  BY SMT DEF BodyLengths, Byte, Lengths
<1>5. n \div Weight[4] \in Byte
  BY <1>0, SMT DEF BodyLengths, Byte
<1> QED BY <1>1, <1>2, <1>3, <1>4, <1>5

(* The digits of a length as the standard has them: up to four. *)
LEMMA StandardDigits ==
  ASSUME NEW n \in BodyLengths
  PROVE  /\ StandardLength(n) \in Seq(Byte)
         /\ n < 128 => StandardLength(n) = <<n>>
         /\ 128 <= n /\ n < 16384 => StandardLength(n) = <<(n % 128) + 128, n \div 128>>
         /\ 16384 <= n /\ n \in Lengths =>
              StandardLength(n) = <<(n % 128) + 128, ((n \div 128) % 128) + 128, n \div 16384>>
         /\ 16384 <= n /\ n \notin Lengths =>
              StandardLength(n) = <<(n % 128) + 128, ((n \div 128) % 128) + 128,
                                    ((n \div 16384) % 128) + 128, n \div Weight[4]>>
<1> DEFINE a == (n % 128) + 128               b == ((n \div 128) % 128) + 128
           c == ((n \div 16384) % 128) + 128  x == n \div 128
           y == n \div 16384                z == n \div Weight[4]
<1>1. /\ n \in Nat /\ (n < 128 => n \in Byte)
      /\ a \in Byte /\ b \in Byte /\ c \in Byte /\ z \in Byte
      /\ n < 16384 => x \in Byte
      /\ n \in Lengths => y \in Byte
  BY DigitsAreBytes
<1>2. More(n) = a /\ More(x) = b /\ More(y) = c
  <2>1. More(n) = a
    BY <1>1, SMT DEF More, Low
  <2>2. More(x) = b /\ More(y) = c
    BY <1>1, SMT DEF More, Low
  <2> QED BY <2>1, <2>2
<1>3. StandardLength(n) = IF n < 128 THEN <<n>> ELSE IF n < 16384 THEN <<a, x>>
                          ELSE IF n \in Lengths THEN <<a, b, y>> ELSE <<a, b, c, z>>
  <2>1. n >= 128 => (n < 2097152 <=> n \in Lengths)
    BY <1>1, SMT DEF Lengths
  <2>2. z = n \div 2097152
    BY SMT DEF Weight
  <2> HIDE DEF z
  <2>3. CASE n < 128
    BY <1>2, <2>3, SMT DEF StandardLength
  <2>4. CASE ~(n < 128) /\ n < 16384
    BY <1>2, <2>4, SMT DEF StandardLength
  <2>5. CASE ~(n < 16384) /\ n \in Lengths
    BY <1>1, <1>2, <2>1, <2>5, SMT DEF StandardLength
  <2>6. CASE ~(n < 16384) /\ n \notin Lengths
    BY <1>1, <1>2, <2>1, <2>2, <2>6, SMT DEF StandardLength
  <2> QED BY <1>1, <2>3, <2>4, <2>5, <2>6
<1> HIDE DEF a, b, c, x, y, z
<1>4. StandardLength(n) \in Seq(Byte)
  BY <1>1, <1>3
<1>5. n \in Lengths /\ 16384 <= n => StandardLength(n) = <<a, b, y>>
  BY <1>1, <1>3
<1>6. n \notin Lengths /\ 16384 <= n => StandardLength(n) = <<a, b, c, z>>
  BY <1>1, <1>3
<1>7. 128 <= n /\ n < 16384 => StandardLength(n) = <<a, x>>
  BY <1>1, <1>3
<1>8. n < 128 => StandardLength(n) = <<n>>
  BY <1>3
<1> QED
  BY <1>4, <1>5, <1>6, <1>7, <1>8 DEF a, b, c, x, y, z

(* Every length but 0 is written as the standard has it. *)
LEMMA LengthIsStandard ==
  ASSUME NEW n \in BodyLengths, n # 0
  PROVE  WriteVarint(n) = StandardLength(n)
<1> DEFINE Digit(i) == LET x == n \div Weight[i] IN IF x \div 128 > 0 THEN (x % 128) + 128 ELSE x % 128
<1>1. WriteVarint(n) = [i \in 1 .. VarintLen(n) |-> Digit(i)]
  BY DEF WriteVarint
<1>2. n \in Nat /\ n > 0 /\ (n >= 16384 => (n \in Lengths <=> n < Weight[4]))
  BY SMT DEF BodyLengths, Lengths, Weight
<1>3. n < 128 => VarintLen(n) = 1 /\ Digit(1) = n
  BY <1>2, SMT DEF VarintLen, Weight
<1>4. 128 <= n /\ n < 16384 => VarintLen(n) = 2 /\ Digit(1) = (n % 128) + 128 /\ Digit(2) = n \div 128
  BY <1>2, SMT DEF VarintLen, Weight
<1>5. 16384 <= n /\ n \in Lengths =>
        /\ VarintLen(n) = 3 /\ Digit(1) = (n % 128) + 128
        /\ Digit(2) = ((n \div 128) % 128) + 128 /\ Digit(3) = n \div 16384
  BY <1>2, SMT DEF VarintLen, Weight, Lengths
<1>6. 16384 <= n /\ n \notin Lengths =>
        /\ VarintLen(n) = 4 /\ Digit(1) = (n % 128) + 128 /\ Digit(2) = ((n \div 128) % 128) + 128
        /\ Digit(3) = ((n \div 16384) % 128) + 128 /\ Digit(4) = n \div Weight[4]
  <2>1. 16384 <= n /\ n \notin Lengths => VarintLen(n) = 4 /\ n >= 2097152 /\ n < 268435456
    BY <1>2, SMT DEF VarintLen, Lengths, BodyLengths
  <2>2. 16384 <= n /\ n \notin Lengths =>
          Digit(1) = (n % 128) + 128 /\ Digit(2) = ((n \div 128) % 128) + 128
    BY <1>2, <2>1, SMT DEF Weight
  <2>3. 16384 <= n /\ n \notin Lengths =>
          Digit(3) = ((n \div 16384) % 128) + 128 /\ Digit(4) = n \div Weight[4]
    BY <1>2, <2>1, SMT DEF Weight
  <2> QED BY <2>1, <2>2, <2>3, SMT
<1> HIDE DEF Digit
<1>7. CASE n < 128
  BY <1>1, <1>3, <1>7, StandardDigits, SMT
<1>8. CASE 128 <= n /\ n < 16384
  BY <1>1, <1>4, <1>8, StandardDigits, SMT
<1>9. CASE 16384 <= n /\ n \in Lengths
  BY <1>1, <1>5, <1>9, StandardDigits, SMT
<1>10. CASE 16384 <= n /\ n \notin Lengths
  BY <1>1, <1>6, <1>10, StandardDigits, SMT
<1> QED
  BY <1>2, <1>7, <1>8, <1>9, <1>10, SMT

(* A length that the standard has room for is read as it is, or refused when it
   takes four digits. *)
LEMMA LengthIsRead ==
  ASSUME NEW n \in BodyLengths, NEW rest \in Seq(Byte)
  PROVE  /\ n \in Lengths \/ n = 0 =>
              ReadVarint(StandardLength(n) \o rest) = [value |-> n, used |-> Len(StandardLength(n))]
         /\ n \notin Lengths /\ n # 0 => ReadVarint(StandardLength(n) \o rest) = Overflow
<1> DEFINE w == StandardLength(n)   b == w \o rest
<1>0. n \in Nat /\ w \in Seq(Byte)
  BY StandardDigits, SMT DEF BodyLengths
<1>1. CASE n = 0
  <2>1. w = <<0>>
    BY <1>0, <1>1, StandardDigits, SMT
  <2> HIDE DEF w
  <2>2. b[1] = 0 /\ Len(w) = 1
    BY <2>1, SMT
  <2>3. n \notin Lengths
    BY <1>1, SMT DEF Lengths
  <2> HIDE DEF b
  <2>4. ReadVarint(b) = [value |-> 0, used |-> 1]
    BY <2>2, SMT DEF ReadVarint
  <2> QED BY <1>1, <2>2, <2>3, <2>4, Zenon DEF b, w
<1>2. CASE n \in Lengths
  <2>1. n # 0
    BY <1>2, SMT DEF Lengths
  <2>2. WriteVarint(n) = w
    BY <2>1, LengthIsStandard, Zenon
  <2>3. ReadVarint(WriteVarint(n) \o rest) = [value |-> n, used |-> VarintLen(n)]
    BY <1>2, VarintRoundTrip, SMT
  <2>4. Len(WriteVarint(n)) = VarintLen(n)
    BY <1>2, VarintDigits, SMT
  <2> QED BY <1>2, <2>2, <2>3, <2>4, Zenon
<1>3. CASE n \notin Lengths /\ n # 0
  <2>1. 16384 <= n
    BY <1>3, SMT DEF Lengths, BodyLengths
  <2>2. w = <<(n % 128) + 128, ((n \div 128) % 128) + 128, ((n \div 16384) % 128) + 128, n \div Weight[4]>>
    BY <1>3, <2>1, StandardDigits, SMT
  <2> HIDE DEF w
  <2>3. /\ n % 128 >= 0 /\ (n \div 128) % 128 >= 0 /\ (n \div 16384) % 128 >= 0
        /\ n % 128 \in Int /\ (n \div 128) % 128 \in Int /\ (n \div 16384) % 128 \in Int
    BY <1>0, SMT
  <2>4. /\ b[1] = (n % 128) + 128 /\ b[2] = ((n \div 128) % 128) + 128
        /\ b[3] = ((n \div 16384) % 128) + 128
    BY <1>0, <2>2, SMT
  <2> HIDE DEF b
  <2>5. ~(b[1] < 128) /\ ~(b[2] < 128) /\ ~(b[3] < 128)
    BY <2>3, <2>4, SMT
  <2>6. ReadVarint(b) = Overflow
    BY <2>5, SMT DEF ReadVarint
  <2> QED BY <1>3, <2>6, Zenon DEF b, w
<1> QED BY <1>1, <1>2, <1>3, Zenon

-----------------------------------------------------------------------------
(* Whether Parse takes a packet of n bytes, or refuses its length. *)
Readable(n, maxLen) == (n \in Lengths \/ n = 0) /\ ~(maxLen > 0 /\ n > maxLen)

(* What Parse makes of a packet as the standard has it is what Decode makes of
   its body. *)
LEMMA HeaderIsRead ==
  ASSUME NEW first \in Byte, NEW body \in Seq(Byte), Len(body) \in BodyLengths,
         NEW rest \in Seq(Byte), NEW maxLen \in Nat,
         NEW stream, stream = ((<<first>> \o StandardLength(Len(body))) \o body) \o rest
  PROVE  /\ stream \in Seq(Byte) /\ stream # <<>>
         /\ Readable(Len(body), maxLen) =>
              LET d == Decode(first, Len(body), body \o rest) IN
                Parse(stream, maxLen) = [packet |-> d.packet, rest |-> From(body \o rest, d.used)]
         /\ ~Readable(Len(body), maxLen) => Parse(stream, maxLen).packet = Refused
<1> DEFINE n == Len(body)   v == StandardLength(n)   h == <<first>>   b == body \o rest
           hv == h \o v     z == v \o b
           got == ReadVarint(Tail(stream))
           d == Decode(stream[1], got.value, From(stream, 1 + got.used))
<1>1. v \in Seq(Byte)
  BY StandardDigits, SMT
<1>2. h \in Seq(Byte) /\ Len(h) = 1 /\ h[1] = first
  OBVIOUS
<1>3. b \in Seq(Byte)
  BY Concat
<1>4. /\ n \in Lengths \/ n = 0 => ReadVarint(z) = [value |-> n, used |-> Len(v)]
      /\ n \notin Lengths /\ n # 0 => ReadVarint(z) = Overflow
  <2> HIDE DEF b
  <2> QED BY <1>3, LengthIsRead, Zenon
<1>5. n \in Nat /\ Len(v) \in Nat
  BY <1>1
<1> HIDE DEF v, h
<1>6. hv \in Seq(Byte) /\ Len(hv) = 1 + Len(v)
  BY <1>1, <1>2, Concat
<1>7. stream = hv \o b
  <2> HIDE DEF hv
  <2>1. (hv \o body) \o rest = hv \o (body \o rest)
    BY <1>6, Assoc, ZenonT(30)
  <2>2. stream = (hv \o body) \o rest
    BY DEF hv, h, v
  <2> QED BY <2>1, <2>2, Zenon
<1> HIDE DEF b
<1>8. hv \o b = h \o z
  BY <1>1, <1>2, <1>3, Assoc, ZenonT(30)
<1> HIDE DEF hv
<1>9. From(stream, 1 + Len(v)) = b
  <2>1. From(hv \o b, Len(hv)) = b
    BY <1>3, <1>6, Cut
  <2> QED BY <2>1, <1>6, <1>7, Zenon
<1>10. z \in Seq(Byte)
  BY <1>1, <1>3, Concat
<1> HIDE DEF z
<1>11. stream \in Seq(Byte) /\ stream # <<>> /\ stream[1] = first /\ Tail(stream) = z
  <2> DEFINE u == h \o z
  <2>1. From(u, 1) = z
    BY <1>2, <1>10, Cut
  <2>2. u \in Seq(Byte) /\ Len(u) = 1 + Len(z) /\ Len(z) \in Nat
    BY <1>2, <1>10, Concat
  <2>3. u[1] = first
    BY <2>2, <1>2, <1>10
  <2> HIDE DEF u
  <2>4. u # <<>>
    BY <2>2
  <2>5. Tail(u) = From(u, 1)
    <3>1. Tail(u) = SubSeq(u, 2, Len(u))
      BY <2>2, <2>4, TailIsSubSeq
    <3> QED BY <3>1 DEF From
  <2>6. stream = u
    BY <1>7, <1>8, Zenon DEF u
  <2> QED BY <2>1, <2>2, <2>3, <2>4, <2>5, <2>6, Zenon
<1>12. Parse(stream, maxLen) =
         IF got = Overflow \/ (maxLen > 0 /\ got.value > maxLen)
           THEN [packet |-> Refused, rest |-> From(stream, 1 + got.used)]
           ELSE [packet |-> d.packet, rest |-> From(From(stream, 1 + got.used), d.used)]
  BY Zenon DEF Parse
<1>13. ASSUME n \in Lengths \/ n = 0
       PROVE  got.value = n /\ From(stream, 1 + got.used) = b /\ got # Overflow
  <2>1. got = [value |-> n, used |-> Len(v)]
    BY <1>4, <1>11, <1>13, Zenon
  <2> HIDE DEF got
  <2>2. got.value = n /\ got.used = Len(v)
    BY <2>1
  <2>3. got # Overflow
    BY <2>1, <1>5 DEF Overflow
  <2> QED BY <1>9, <2>2, <2>3, Zenon
<1>14. CASE Readable(n, maxLen)
  <2>1. got.value = n /\ From(stream, 1 + got.used) = b /\ got # Overflow
        /\ ~(maxLen > 0 /\ n > maxLen)
    BY <1>13, <1>14, Zenon DEF Readable
  <2>2. d = Decode(first, n, b)
    BY <2>1, <1>11, Zenon
  <2> HIDE DEF got, d, n
  <2>3. Parse(stream, maxLen) = [packet |-> d.packet, rest |-> From(b, d.used)]
    BY <1>12, <2>1, Zenon
  <2> QED BY <1>11, <1>14, <2>2, <2>3, Zenon DEF b, n
<1>15. CASE ~Readable(n, maxLen)
  <2>1. got = Overflow \/ (maxLen > 0 /\ got.value > maxLen)
    <3>1. CASE n \in Lengths \/ n = 0
      BY <1>13, <1>15, <3>1, Zenon DEF Readable
    <3>2. CASE ~(n \in Lengths \/ n = 0)
      BY <1>4, <1>11, <3>2, Zenon
    <3> QED BY <3>1, <3>2
  <2> HIDE DEF got, d, n
  <2>2. Parse(stream, maxLen) = [packet |-> Refused, rest |-> From(stream, 1 + got.used)]
    BY <1>12, <2>1, Zenon
  <2>3. Parse(stream, maxLen).packet = Refused
    BY <2>2
  <2> QED BY <1>11, <1>15, <2>3, Zenon DEF n
<1> QED BY <1>14, <1>15, Zenon

-----------------------------------------------------------------------------
(* The types' numbers, and the first byte that has one. *)
Flagged(t) == t \in {"publish", "subscribe", "unsubscribe", "pubrel"}

(* Every type has its own number (message/types.go). *)
LEMMA NumberOfType ==
  ASSUME NEW k \in DOMAIN PTypes
  PROVE  PType(PTypes[k]) = k
<1>1. \A i \in DOMAIN PTypes : PTypes[i] = PTypes[k] => i = k
  BY DEF PTypes
<1> QED BY <1>1 DEF PType

(* The first byte gives back the type and the flags. *)
LEMMA FirstByteIsRead ==
  ASSUME NEW k \in DOMAIN PTypes, NEW p, p.type = PTypes[k], Flags(p) \in 0 .. 15
  PROVE  FirstByte(p) \in Byte /\ FirstByte(p) \div 16 = k /\ FirstByte(p) % 16 = Flags(p)
<1>1. FirstByte(p) = 16 * k + Flags(p)
  BY NumberOfType DEF FirstByte
<1>2. k \in 1 .. 14
  BY DEF PTypes
<1>3. \A f \in 0 .. 15, i \in 1 .. 14 :
        16 * i + f \in Byte /\ (16 * i + f) \div 16 = i /\ (16 * i + f) % 16 = f
  BY DEF Byte
<1> QED BY <1>1, <1>2, <1>3

(* Of a packet with a body of its own, all there is to read. *)
Reads(p) ==
  /\ FirstByte(p) \in Byte /\ Body(p, 16) \in Seq(Byte)
  /\ \A rest \in Seq(Byte) :
       Decode(FirstByte(p), Len(Body(p, 16)), Body(p, 16) \o rest) = Decoded(p, Len(Body(p, 16)))

(* A two-byte number at the start of a stream. *)
LEMMA WordFirst ==
  ASSUME NEW n \in Words, NEW t \in Seq(Byte)
  PROVE  Word(n) \in Seq(Byte) /\ Len(Word(n)) = 2 /\ WordAt(Word(n) \o t, 0) = n
<1> DEFINE w == Word(n)   e == <<>>
<1>1. e \in Seq(Byte) /\ Len(e) = 0
  OBVIOUS
<1>2. w \in Seq(Byte) /\ Len(w) = 2 /\ WordAt(e \o (w \o t), Len(e)) = n
  BY <1>1, WordRoundTrip, Zenon
<1> HIDE DEF w
<1>3. w \o t \in Seq(Byte)
  BY <1>2, Concat
<1>4. e \o (w \o t) = w \o t
  BY <1>3
<1> QED BY <1>1, <1>2, <1>4, Zenon DEF w

(* The acknowledgements. *)
LEMMA AcksAreRead ==
  ASSUME NEW p \in [type : Acks, id : Words]
  PROVE  Reads(p) /\ Len(Body(p, 16)) = 2
<1>1. p.type \in Acks /\ p.id \in Words /\ p = Ack(p.type, p.id)
  BY DEF Ack
<1>2. PICK k \in DOMAIN PTypes : PTypes[k] = p.type
  <2>1. /\ PTypes[4] = "puback" /\ PTypes[5] = "pubrec" /\ PTypes[6] = "pubrel"
        /\ PTypes[7] = "pubcomp" /\ PTypes[11] = "unsuback" /\ {4, 5, 6, 7, 11} \subseteq DOMAIN PTypes
    BY DEF PTypes
  <2> QED BY <1>1, <2>1 DEF Acks
<1>3. Flags(p) \in 0 .. 15
  BY <1>1 DEF Flags, Acks
<1>4. FirstByte(p) \in Byte /\ FirstByte(p) \div 16 = k
  BY <1>2, <1>3, FirstByteIsRead
<1>5. Body(p, 16) = Word(p.id)
  BY <1>1 DEF Body, Acks, NoBody
<1>6. Word(p.id) \in Seq(Byte) /\ Len(Word(p.id)) = 2
  <2>1. <<>> \in Seq(Byte)
    OBVIOUS
  <2> QED BY <1>1, <2>1, WordFirst, Zenon
<1>7. ASSUME NEW rest \in Seq(Byte)
      PROVE  Decode(FirstByte(p), 2, Word(p.id) \o rest) = Decoded(p, 2)
  <2> DEFINE b == Word(p.id) \o rest
  <2>1. WordAt(b, 0) = p.id
    BY <1>1, WordFirst
  <2> HIDE DEF b
  <2>2. Decode(FirstByte(p), 2, b) = Decoded(Ack(p.type, WordAt(b, 0)), 2)
    BY <1>1, <1>2, <1>4 DEF Decode, Acks, NoBody
  <2> QED BY <1>1, <2>1, <2>2, Zenon DEF b
<1> QED BY <1>4, <1>5, <1>6, <1>7, Zenon DEF Reads

(* The packets without a body. *)
LEMMA EmptyAreRead ==
  ASSUME NEW p \in [type : NoBody]
  PROVE  Reads(p) /\ Len(Body(p, 16)) = 0
<1>1. p.type \in NoBody /\ p = Bare(p.type)
  BY DEF Bare
<1>2. PICK k \in DOMAIN PTypes : PTypes[k] = p.type
  <2>1. /\ PTypes[12] = "pingreq" /\ PTypes[13] = "pingresp" /\ PTypes[14] = "disconnect"
        /\ {12, 13, 14} \subseteq DOMAIN PTypes
    BY DEF PTypes
  <2> QED BY <1>1, <2>1 DEF NoBody
<1>3. Flags(p) \in 0 .. 15
  BY <1>1 DEF Flags, NoBody
<1>4. FirstByte(p) \in Byte /\ FirstByte(p) \div 16 = k
  BY <1>2, <1>3, FirstByteIsRead
<1>5. Body(p, 16) = <<>>
  BY <1>1 DEF Body, Acks, NoBody
<1>6. \A b : Decode(FirstByte(p), 0, b) = Decoded(p, 0)
  BY <1>1, <1>2, <1>4 DEF Decode, Acks, NoBody
<1>7. <<>> \in Seq(Byte) /\ Len(<<>>) = 0
  OBVIOUS
<1> QED BY <1>4, <1>5, <1>6, <1>7, Zenon DEF Reads

(* PUBLISH, whose body is the same with either bits for a will. *)
LEMMA PublishIsRead ==
  ASSUME NEW p \in Publications, PublishSize(p) > 2
  PROVE  /\ FirstByte(p) \in Byte /\ Body(p, 16) \in Seq(Byte) /\ Body(p, 16) = Body(p, 24)
         /\ Len(Body(p, 16)) = PublishSize(p)
         /\ \A rest \in Seq(Byte) : \E y :
              /\ Decode(FirstByte(p), Len(Body(p, 16)), Body(p, 16) \o rest)
                   = Decoded([p EXCEPT !.payload = y], Len(Body(p, 16)))
              /\ ~Wraps(p) => y = p.payload
<1>1. p.type = "publish"
  BY DEF Publications
<1>2. Body(p, 16) = Body(p, 24)
  BY <1>1 DEF Body, Acks, NoBody
<1>3. FirstByte(p) \in Byte /\ FirstByte(p) \div 16 = 3 /\ FirstByte(p) % 16 = Flags(p)
  BY FlagsRoundTrip
<1>4. Body(p, 24) \in Seq(Byte) /\ Len(Body(p, 24)) = PublishSize(p)
  <2>1. <<>> \in Seq(Byte)
    OBVIOUS
  <2> QED BY <2>1, PublishDecoded, Zenon
<1>5. ASSUME NEW n, NEW b
      PROVE  Decode(FirstByte(p), n, b) = DecodePublish(b, n, Flags(p))
  <2>1. 3 \in DOMAIN PTypes /\ PTypes[3] = "publish"
    BY DEF PTypes
  <2> QED BY <2>1, <1>3 DEF Decode, Acks, NoBody
<1>6. ASSUME NEW rest \in Seq(Byte)
      PROVE  \E y : /\ Decode(FirstByte(p), Len(Body(p, 16)), Body(p, 16) \o rest)
                         = Decoded([p EXCEPT !.payload = y], Len(Body(p, 16)))
                    /\ ~Wraps(p) => y = p.payload
  <2> DEFINE b == Body(p, 24) \o rest   n == PublishSize(p)
  <2>1. PICK y : /\ DecodePublish(b, n, Flags(p)) = Decoded([p EXCEPT !.payload = y], n)
                 /\ ~Wraps(p) => y = p.payload
    BY PublishDecoded, Zenon
  <2>2. Decode(FirstByte(p), n, b) = DecodePublish(b, n, Flags(p))
    BY <1>5, Zenon
  <2>3. Decode(FirstByte(p), Len(Body(p, 16)), Body(p, 16) \o rest) = DecodePublish(b, n, Flags(p))
    BY <1>2, <1>4, <2>2, Zenon
  <2>4. Len(Body(p, 16)) = n
    BY <1>2, <1>4, Zenon
  <2> HIDE DEF b, n
  <2> QED BY <2>1, <2>3, <2>4, Zenon
<1> QED BY <1>2, <1>3, <1>4, <1>6, Zenon

(* WriteTo writes what the standard asks for, when it has worked the length of
   the body out right, and it is not 0. *)
LEMMA WriteIsStandard ==
  ASSUME NEW p, Body(p, 16) = Body(p, 24), Size(p) = Len(Body(p, 24)), Size(p) \in BodyLengths, Size(p) # 0
  PROVE  WriteTo(p) = Standard(p)
<1>1. WriteVarint(Size(p)) = StandardLength(Size(p))
  BY LengthIsStandard, Zenon
<1> QED BY <1>1, Zenon DEF WriteTo, Standard

(* What WriteTo makes of a PUBLISH, Parse reads as that PUBLISH, and no byte
   more, whatever follows it in the stream and whatever its topic, payload and
   flags: of every length but those of four bytes, within the size limit, and
   without an empty topic and an empty payload at QoS 0, which Parse refuses, or
   a topic of the greatest length and an identifier, where it misses the
   payload. *)
THEOREM PublishRoundTrip ==
  ASSUME NEW p \in Publications, PublishSize(p) \in Lengths, PublishSize(p) > 2, ~Wraps(p),
         NEW rest \in Seq(Byte),
         NEW maxLen \in Nat, maxLen > 0 => PublishSize(p) <= maxLen
  PROVE  Parse(WriteTo(p) \o rest, maxLen) = [packet |-> p, rest |-> rest]
<1> DEFINE body == Body(p, 16)   n == Len(body)   b == body \o rest
           d == Decode(FirstByte(p), n, b)
<1>1. /\ FirstByte(p) \in Byte /\ body \in Seq(Byte) /\ body = Body(p, 24) /\ n = PublishSize(p)
      /\ \E y : d = Decoded([p EXCEPT !.payload = y], n) /\ (~Wraps(p) => y = p.payload)
  BY PublishIsRead, Zenon
<1>2. p.type = "publish" /\ [p EXCEPT !.payload = p.payload] = p
  BY DEF Publications
<1>3. Size(p) = n
  BY <1>1, <1>2 DEF Size, NoBody
<1>4. n \in BodyLengths /\ n # 0 /\ n \in Nat
  BY <1>1, SMT DEF Lengths, BodyLengths
<1>5. WriteTo(p) = Standard(p)
  BY <1>1, <1>3, <1>4, WriteIsStandard, Zenon
<1>6. WriteTo(p) \o rest = ((<<FirstByte(p)>> \o StandardLength(n)) \o body) \o rest
  BY <1>5, Zenon DEF Standard
<1>7. Readable(n, maxLen)
  BY <1>1, <1>4, SMT DEF Readable
<1>8. d = Decoded(p, n)
  BY <1>1, <1>2, Zenon
<1>9. Parse(WriteTo(p) \o rest, maxLen) = [packet |-> d.packet, rest |-> From(b, d.used)]
  <2> DEFINE stream == WriteTo(p) \o rest
  <2>1. stream = ((<<FirstByte(p)>> \o StandardLength(n)) \o body) \o rest
    BY <1>6
  <2>2. FirstByte(p) \in Byte /\ body \in Seq(Byte)
    BY <1>1
  <2> HIDE DEF body, stream
  <2> QED BY <1>4, <1>7, <2>1, <2>2, HeaderIsRead, ZenonT(30) DEF stream
<1>10. From(b, n) = rest
  BY <1>1, Cut
<1> HIDE DEF d, b, n
<1>11. d.packet = p /\ d.used = n
  BY <1>8 DEF Decoded
<1> QED BY <1>9, <1>10, <1>11, Zenon

-----------------------------------------------------------------------------
(* The parts of a sequence of sequences, one after the other. *)

(* A set of numbers has a least one. *)
LEMMA LeastOf ==
  ASSUME NEW T, T \subseteq Nat, T # {}
  PROVE  \E x \in T : \A y \in T : x <= y
<1> DEFINE R == OpToRel(<, Nat)
<1>1. IsWellFoundedOn(R, Nat)
  BY NatLessThanWellFounded, Zenon
<1>2. \A x, y \in Nat : x < y => <<x, y>> \in R
  BY DEF OpToRel
<1> HIDE DEF R
<1>3. PICK x \in T : \A y \in T : ~ (<<y, x>> \in R)
  BY <1>1, WFMin
<1>4. \A y \in T : ~ (y < x)
  BY <1>2, <1>3
<1>5. \A y \in T : x <= y
  BY <1>4
<1> QED BY <1>5

Pieces == Seq(Seq(Byte))
Flattens(f, s) == f = [i \in 1 .. Len(s) |-> IF i = 1 THEN s[i] ELSE f[i - 1] \o s[i]]
Joins(f, s, k) ==
  /\ f \in [1 .. k -> Seq(Byte)]
  /\ \A i \in 1 .. k : f[i] = IF i = 1 THEN s[i] ELSE f[i - 1] \o s[i]

(* FlattenSeq is the last of the partial joins. *)
LEMMA FlattenUnfolds ==
  ASSUME NEW s, Len(s) # 0
  PROVE  Sq!FlattenSeq(s) = (CHOOSE f : Flattens(f, s))[Len(s)]
<1>1. Sq!FlattenSeq(s) =
        (CHOOSE f : f = [i \in 1 .. Len(s) |-> IF i = 1 THEN s[i] ELSE f[i - 1] \o s[i]])[Len(s)]
  BY Zenon DEF Sq!FlattenSeq
<1> QED BY <1>1, Zenon DEF Flattens

(* They can be joined, in one way. *)
LEMMA JoinsExtend ==
  ASSUME NEW s \in Pieces, NEW k \in Nat, k < Len(s), NEW f, Joins(f, s, k)
  PROVE  \E g : Joins(g, s, k + 1)
<1> DEFINE x == IF k = 0 THEN s[1] ELSE f[k] \o s[k + 1]
           g == [i \in 1 .. k + 1 |-> IF i <= k THEN f[i] ELSE x]
<1>1. s[k + 1] \in Seq(Byte) /\ s[1] \in Seq(Byte)
  BY DEF Pieces
<1>2. x \in Seq(Byte)
  <2>1. CASE k = 0
    BY <1>1, <2>1
  <2>2. CASE k # 0
    <3>1. f[k] \in Seq(Byte)
      BY <2>2 DEF Joins
    <3>2. f[k] \o s[k + 1] \in Seq(Byte)
      BY <1>1, <3>1, Concat
    <3> QED BY <2>2, <3>2
  <2> QED BY <2>1, <2>2
<1>3. x = IF k + 1 = 1 THEN s[k + 1] ELSE f[k] \o s[k + 1]
  OBVIOUS
<1> HIDE DEF x
<1>4. g \in [1 .. k + 1 -> Seq(Byte)]
  BY <1>2 DEF Joins
<1>5. ASSUME NEW i \in 1 .. k + 1
      PROVE  g[i] = IF i = 1 THEN s[i] ELSE g[i - 1] \o s[i]
  <2>1. CASE i = k + 1
    <3>1. g[i] = x
      BY <2>1
    <3>2. k # 0 => g[i - 1] = f[k]
      BY <2>1
    <3> HIDE DEF g
    <3> QED BY <1>3, <2>1, <3>1, <3>2
  <2>2. CASE i # k + 1
    <3>1. i \in 1 .. k /\ g[i] = f[i] /\ (i # 1 => g[i - 1] = f[i - 1])
      BY <2>2
    <3> HIDE DEF g
    <3> QED BY <3>1 DEF Joins
  <2> QED BY <2>1, <2>2
<1> HIDE DEF g
<1>6. Joins(g, s, k + 1)
  BY <1>4, <1>5 DEF Joins
<1> QED BY <1>6, Zenon

(* There are partial joins, *)
LEMMA JoinsExist ==
  ASSUME NEW s \in Pieces
  PROVE  \E f : Joins(f, s, Len(s))
<1>0. Len(s) \in Nat
  BY DEF Pieces
<1> DEFINE T == {k \in Nat : k <= Len(s) /\ ~ \E f : Joins(f, s, k)}
<1> SUFFICES T = {}
  BY <1>0
<1> SUFFICES ASSUME T # {} PROVE FALSE
  OBVIOUS
<1>1. T \subseteq Nat
  OBVIOUS
<1>2. PICK k \in T : \A y \in T : k <= y
  <2> HIDE DEF T
  <2> QED BY <1>1, LeastOf
<1>3. k # 0
  <2>1. Joins([i \in 1 .. 0 |-> <<>>], s, 0)
    BY DEF Joins
  <2> QED BY <2>1
<1>4. k - 1 \in Nat /\ k - 1 < Len(s) /\ (k - 1) + 1 = k /\ ~ (k <= k - 1)
  BY <1>0, <1>3
<1>5. \E f : Joins(f, s, k - 1)
  BY <1>2, <1>4
<1>6. \E g : Joins(g, s, (k - 1) + 1)
  BY <1>4, <1>5, JoinsExtend
<1> QED BY <1>4, <1>6

(* and the last of them is what FlattenSeq gives. *)
LEMMA FlattenIs ==
  ASSUME NEW s \in Pieces, Len(s) # 0, NEW f, Joins(f, s, Len(s))
  PROVE  Sq!FlattenSeq(s) = f[Len(s)]
<1>0. Len(s) \in Nat
  BY DEF Pieces
<1>1. Flattens(f, s)
  <2> DEFINE g == [i \in 1 .. Len(s) |-> IF i = 1 THEN s[i] ELSE f[i - 1] \o s[i]]
  <2>1. \A i \in 1 .. Len(s) : f[i] = g[i]
    BY DEF Joins
  <2>2. f = [i \in 1 .. Len(s) |-> f[i]]
    BY DEF Joins
  <2>3. f = g
    BY <2>1, <2>2
  <2> QED BY <2>3 DEF Flattens
<1> DEFINE h == CHOOSE x : Flattens(x, s)
<1>2. Flattens(h, s)
  BY <1>1, Zenon
<1> HIDE DEF h
<1>3. /\ DOMAIN h = 1 .. Len(s) /\ h = [i \in 1 .. Len(s) |-> h[i]]
      /\ \A i \in 1 .. Len(s) : h[i] = IF i = 1 THEN s[i] ELSE h[i - 1] \o s[i]
  BY <1>2 DEF Flattens
<1>4. \A i \in 1 .. Len(s) : h[i] = f[i]
  <2> DEFINE T == {i \in 1 .. Len(s) : h[i] # f[i]}
  <2> SUFFICES ASSUME T # {} PROVE FALSE
    OBVIOUS
  <2>1. PICK i \in T : \A y \in T : i <= y
    <3>1. T \subseteq Nat
      BY <1>0
    <3> HIDE DEF T
    <3> QED BY <3>1, LeastOf
  <2>2. i \in 1 .. Len(s) /\ h[i] # f[i]
    BY <2>1
  <2>3. i # 1
    BY <1>3, <2>2 DEF Joins
  <2>4. i - 1 \in 1 .. Len(s) /\ ~ (i <= i - 1)
    BY <1>0, <2>2, <2>3
  <2>5. f[i - 1] = h[i - 1]
    BY <2>1, <2>4
  <2>6. f[i] = f[i - 1] \o s[i]
    BY <2>2, <2>3 DEF Joins
  <2>7. h[i] = h[i - 1] \o s[i]
    BY <1>3, <2>2, <2>3
  <2> QED BY <2>2, <2>5, <2>6, <2>7
<1>5. Len(s) \in 1 .. Len(s)
  BY <1>0
<1> QED BY <1>4, <1>5, FlattenUnfolds, Zenon DEF h

(* Joining the parts of a longer sequence. *)
LEMMA FlattenEmpty ==
  Sq!FlattenSeq(<<>>) = <<>>
BY Zenon, EmptySeq DEF Sq!FlattenSeq

(* Bytes joined are bytes. *)
LEMMA FlattenIsBytes ==
  ASSUME NEW s \in Pieces
  PROVE  Sq!FlattenSeq(s) \in Seq(Byte)
<1>1. CASE Len(s) = 0
  <2>1. s = <<>>
    BY <1>1 DEF Pieces
  <2>2. <<>> \in Seq(Byte)
    OBVIOUS
  <2> QED BY <2>1, <2>2, FlattenEmpty, Zenon
<1>2. CASE Len(s) # 0
  <2>1. PICK f : Joins(f, s, Len(s))
    BY JoinsExist
  <2>2. Sq!FlattenSeq(s) = f[Len(s)]
    BY <1>2, <2>1, FlattenIs
  <2>3. Len(s) \in 1 .. Len(s)
    BY <1>2 DEF Pieces
  <2> QED BY <2>1, <2>2, <2>3 DEF Joins
<1> QED BY <1>1, <1>2

(* One more piece is joined at the end. *)
LEMMA FlattenAppend ==
  ASSUME NEW s \in Pieces, NEW x \in Seq(Byte)
  PROVE  /\ Append(s, x) \in Pieces
         /\ Sq!FlattenSeq(Append(s, x)) = Sq!FlattenSeq(s) \o x
<1> DEFINE t == Append(s, x)   n == Len(s)
<1>1. /\ t \in Pieces /\ n \in Nat /\ Len(t) = n + 1 /\ t[n + 1] = x
      /\ \A i \in 1 .. n : t[i] = s[i]
  BY DEF Pieces
<1> HIDE DEF t
<1>2. PICK f : Joins(f, t, n + 1)
  BY <1>1, JoinsExist
<1>3. Sq!FlattenSeq(t) = f[n + 1]
  BY <1>1, <1>2, FlattenIs
<1>4. n + 1 \in 1 .. n + 1
  BY <1>1
<1>5. CASE n = 0
  <2>1. s = <<>>
    BY <1>5 DEF Pieces
  <2>2. f[n + 1] = x
    BY <1>1, <1>2, <1>4, <1>5 DEF Joins
  <2>3. <<>> \o x = x
    OBVIOUS
  <2> QED BY <1>1, <1>3, <2>1, <2>2, <2>3, FlattenEmpty DEF t
<1>6. CASE n # 0
  <2> DEFINE g == [i \in 1 .. n |-> f[i]]
  <2>1. Joins(g, s, n)
    <3>1. g \in [1 .. n -> Seq(Byte)]
      BY <1>1, <1>2 DEF Joins
    <3>2. ASSUME NEW i \in 1 .. n
          PROVE  g[i] = IF i = 1 THEN s[i] ELSE g[i - 1] \o s[i]
      <4>1. i \in 1 .. n + 1 /\ (i # 1 => i - 1 \in 1 .. n)
        BY <1>1
      <4>2. f[i] = IF i = 1 THEN t[i] ELSE f[i - 1] \o t[i]
        BY <1>2, <4>1 DEF Joins
      <4>3. g[i] = f[i] /\ t[i] = s[i] /\ (i # 1 => g[i - 1] = f[i - 1])
        BY <1>1, <4>1
      <4> HIDE DEF g
      <4> QED BY <4>2, <4>3
    <3> HIDE DEF g
    <3> QED BY <3>1, <3>2 DEF Joins
  <2>2. g[n] = f[n]
    BY <1>1, <1>6
  <2> HIDE DEF g
  <2>3. Sq!FlattenSeq(s) = g[n]
    BY <1>6, <2>1, FlattenIs
  <2>4. f[n + 1] = f[n] \o x
    <3>1. n + 1 # 1 /\ (n + 1) - 1 = n
      BY <1>1, <1>6
    <3> QED BY <1>1, <1>2, <1>4, <3>1 DEF Joins
  <2> QED BY <1>1, <1>3, <2>2, <2>3, <2>4 DEF t
<1> QED BY <1>5, <1>6

(* Two lists of pieces are joined one behind the other. *)
LEMMA FlattenConcat ==
  ASSUME NEW s \in Pieces, NEW t \in Pieces
  PROVE  /\ s \o t \in Pieces
         /\ Sq!FlattenSeq(s \o t) = Sq!FlattenSeq(s) \o Sq!FlattenSeq(t)
<1> DEFINE Up(k) == SubSeq(t, 1, k)
           Good(k) == /\ s \o Up(k) \in Pieces
                      /\ Sq!FlattenSeq(s \o Up(k)) = Sq!FlattenSeq(s) \o Sq!FlattenSeq(Up(k))
           T == {k \in Nat : k <= Len(t) /\ ~Good(k)}
<1>0. Len(t) \in Nat /\ Up(Len(t)) = t /\ Up(0) = <<>>
  BY DEF Pieces
<1>1. Sq!FlattenSeq(s) \in Seq(Byte)
  BY FlattenIsBytes
<1>2. Good(0)
  <2>1. s \o <<>> = s
    BY DEF Pieces
  <2>2. Sq!FlattenSeq(s) \o <<>> = Sq!FlattenSeq(s)
    BY <1>1
  <2> HIDE DEF Up
  <2> QED BY <1>0, <2>1, <2>2, FlattenEmpty
<1>3. ASSUME NEW k \in Nat, k < Len(t), Good(k)
      PROVE  Good(k + 1)
  <2> DEFINE u == Up(k)   x == t[k + 1]
  <2>1. x \in Seq(Byte) /\ u \in Pieces /\ Up(k + 1) = Append(u, x)
    BY <1>0, <1>3 DEF Pieces
  <2> HIDE DEF x, Up
  <2>2. s \o Append(u, x) = Append(s \o u, x)
    <3>0. s \in Seq(Seq(Byte)) /\ u \in Seq(Seq(Byte))
      BY <2>1 DEF Pieces
    <3> HIDE DEF u
    <3> QED BY <2>1, <3>0
  <2>3. s \o u \in Pieces /\ Sq!FlattenSeq(s \o u) = Sq!FlattenSeq(s) \o Sq!FlattenSeq(u)
    BY <1>3
  <2>4. /\ Append(s \o u, x) \in Pieces
        /\ Sq!FlattenSeq(Append(s \o u, x)) = Sq!FlattenSeq(s \o u) \o x
    BY <2>1, <2>3, FlattenAppend, Zenon
  <2>5. Sq!FlattenSeq(Append(u, x)) = Sq!FlattenSeq(u) \o x /\ Sq!FlattenSeq(u) \in Seq(Byte)
    BY <2>1, FlattenAppend, FlattenIsBytes
  <2>6. (Sq!FlattenSeq(s) \o Sq!FlattenSeq(u)) \o x = Sq!FlattenSeq(s) \o (Sq!FlattenSeq(u) \o x)
    BY <1>1, <2>1, <2>5, Assoc, ZenonT(30)
  <2> HIDE DEF u
  <2>7. s \o Up(k + 1) = Append(s \o u, x)
    BY <2>1, <2>2, Zenon
  <2>8. Sq!FlattenSeq(Up(k + 1)) = Sq!FlattenSeq(u) \o x
    BY <2>1, <2>5, Zenon
  <2>9. Sq!FlattenSeq(Append(s \o u, x)) = Sq!FlattenSeq(s) \o (Sq!FlattenSeq(u) \o x)
    BY <2>3, <2>4, <2>6, Zenon
  <2> QED BY <2>4, <2>7, <2>8, <2>9, Zenon
<1> HIDE DEF Good
<1>4. T = {}
  <2> SUFFICES ASSUME T # {} PROVE FALSE
    OBVIOUS
  <2>1. PICK k \in T : \A y \in T : k <= y
    <3>1. T \subseteq Nat
      OBVIOUS
    <3> HIDE DEF T
    <3> QED BY <3>1, LeastOf
  <2>2. k # 0
    BY <1>2, <2>1
  <2>3. k - 1 \in Nat /\ k - 1 < Len(t) /\ (k - 1) + 1 = k /\ ~ (k <= k - 1)
    BY <1>0, <2>1, <2>2
  <2>4. Good(k - 1)
    BY <2>1, <2>3
  <2>5. Good(k)
    BY <1>3, <2>3, <2>4
  <2> QED BY <2>1, <2>5
<1>5. Good(Len(t))
  BY <1>0, <1>4
<1> HIDE DEF Up
<1> QED BY <1>0, <1>5, Zenon DEF Good

-----------------------------------------------------------------------------
(* A string is read, wherever it stands, as it was written. *)
LEMMA StringIsRead ==
  ASSUME NEW s \in Seq(Byte), NEW x \in Strings, NEW t \in Seq(Byte)
  PROVE  /\ String(x) \in Seq(Byte) /\ Len(String(x)) = 2 + Len(x) /\ Len(x) \in Nat
         /\ x \in Seq(Byte)
         /\ StringAt(s \o (String(x) \o t), Len(s)) = x
<1> DEFINE w == Word(Len(x))   sw == s \o w   n == Len(x)   xt == x \o t
           c == s \o (String(x) \o t)
<1>1. x \in Seq(Byte) /\ n \in Words /\ n \in Nat
  BY DEF Strings
<1>2. xt \in Seq(Byte)
  BY <1>1, Concat
<1>3. /\ w \in Seq(Byte) /\ Len(w) = 2
      /\ WordAt(s \o (w \o xt), Len(s)) = n
  <2> HIDE DEF n, xt
  <2> QED BY <1>1, <1>2, WordRoundTrip, Zenon DEF n
<1> HIDE DEF w
<1>4. String(x) = w \o x
  BY DEF String, w
<1>5. String(x) \in Seq(Byte) /\ Len(String(x)) = 2 + n
  BY <1>1, <1>3, <1>4, Concat
<1>6. sw \in Seq(Byte) /\ Len(sw) = Len(s) + 2
  BY <1>3, Concat, ZenonT(30)
<1>7. String(x) \o t = w \o xt
  <2>1. w \in Seq(Byte) /\ x \in Seq(Byte)
    BY <1>1, <1>3
  <2>2. (w \o x) \o t = w \o (x \o t)
    BY <2>1, Assoc, ZenonT(30)
  <2> QED BY <2>2, <1>4, Zenon
<1>8. c = s \o (w \o xt)
  BY <1>7, Zenon
<1>9. c = (sw \o x) \o t
  <2>1. s \o (w \o xt) = sw \o xt
    <3> HIDE DEF xt
    <3> QED BY <1>2, <1>3, Assoc, ZenonT(30)
  <2>2. sw \o xt = (sw \o x) \o t
    <3> HIDE DEF sw
    <3> QED BY <1>1, <1>6, Assoc, ZenonT(30)
  <2> HIDE DEF c
  <2> QED BY <1>8, <2>1, <2>2, Zenon
<1> HIDE DEF sw, xt
<1>10. SubSeq((sw \o x) \o t, Len(sw) + 1, Len(sw) + n) = x
  BY <1>1, <1>6, Slice
<1>11. WordAt(c, Len(s)) = n
  <2> HIDE DEF c
  <2> QED BY <1>3, <1>8, Zenon
<1>12. Len(s) + 3 = Len(sw) + 1 /\ Len(s) + 2 + n = Len(sw) + n /\ Len(s) \in Nat
  BY <1>1, <1>6
<1> HIDE DEF c
<1>13. StringAt(c, Len(s)) = SubSeq(c, Len(s) + 3, Len(s) + 2 + n)
  BY <1>11, Zenon DEF StringAt
<1>14. StringAt(c, Len(s)) = x
  BY <1>9, <1>10, <1>12, <1>13, Zenon
<1> QED BY <1>1, <1>5, <1>14, Zenon DEF c

(* The flags of a CONNECT. *)
LEMMA BitsOfConnect ==
  ASSUME NEW a \in {0, 2}, NEW b \in {0, 4, 12, 20}, NEW u \in {0, 128}, NEW w \in {0, 64}
  PROVE  LET f == a + b + u + w IN
         /\ f \in Byte
         /\ (Bit(f, 2) <=> a = 2) /\ (Bit(f, 4) <=> b # 0) /\ (Bit(f, 16) <=> b = 20)
         /\ (Bit(f, 8) <=> b = 12) /\ (Bit(f, 128) <=> u = 128) /\ (Bit(f, 64) <=> w = 64)
<1>1. CASE u = 0 /\ w = 0
  BY <1>1 DEF Bit, Byte
<1>2. CASE u = 128 /\ w = 0
  BY <1>2 DEF Bit, Byte
<1>3. CASE u = 0 /\ w = 64
  BY <1>3 DEF Bit, Byte
<1>4. CASE u = 128 /\ w = 64
  BY <1>4 DEF Bit, Byte
<1> QED BY <1>1, <1>2, <1>3, <1>4, Zenon

(* A string is read wherever it stands. *)
LEMMA StringInside ==
  ASSUME NEW s \in Seq(Byte), NEW x \in Strings, NEW t \in Seq(Byte), NEW c, c = (s \o String(x)) \o t
  PROVE  StringAt(c, Len(s)) = x
<1>1. String(x) \in Seq(Byte) /\ StringAt(s \o (String(x) \o t), Len(s)) = x
  BY StringIsRead, Zenon
<1>2. (s \o String(x)) \o t = s \o (String(x) \o t)
  BY <1>1, Assoc, ZenonT(30)
<1> QED BY <1>1, <1>2, Zenon

(* A string at the start. *)
LEMMA StringFirst ==
  ASSUME NEW x \in Strings, NEW t \in Seq(Byte)
  PROVE  StringAt(String(x) \o t, 0) = x /\ WordAt(String(x) \o t, 0) = Len(x)
<1> DEFINE e == <<>>   xt == x \o t   w == Word(Len(x))
<1>1. e \in Seq(Byte) /\ Len(e) = 0
  OBVIOUS
<1>2. String(x) \in Seq(Byte) /\ StringAt(e \o (String(x) \o t), Len(e)) = x
  BY <1>1, StringIsRead, Zenon
<1>3. String(x) \o t \in Seq(Byte)
  BY <1>2, Concat
<1>4. e \o (String(x) \o t) = String(x) \o t
  BY <1>3
<1>5. x \in Seq(Byte) /\ Len(x) \in Words
  BY DEF Strings
<1>6. xt \in Seq(Byte)
  BY <1>5, Concat
<1>7. w \in Seq(Byte) /\ WordAt(w \o xt, 0) = Len(x)
  <2> HIDE DEF xt
  <2> QED BY <1>5, <1>6, WordFirst, Zenon
<1>8. (w \o x) \o t = w \o (x \o t)
  <2>1. w \in Seq(Byte) /\ x \in Seq(Byte)
    BY <1>5, <1>7
  <2> HIDE DEF w
  <2> QED BY <2>1, Assoc, ZenonT(30)
<1>9. String(x) \o t = w \o xt
  BY <1>8, Zenon DEF String
<1> HIDE DEF e, w, xt
<1> QED BY <1>1, <1>2, <1>4, <1>7, <1>9, Zenon

(* The parts of a CONNECT's body that are there or not. *)
WillPart(p) == IF p.will = <<>> THEN <<>> ELSE String(p.will[1].topic) \o String(p.will[1].message)
Part(s) == IF s = <<>> THEN <<>> ELSE String(s)
HeadPart(p) == (String(p.magic) \o <<4, ConnectFlags(p, 16)>>) \o Word(0)

(* The size of a part of CONNECT. *)
LEMMA PartOf ==
  ASSUME NEW s \in Strings
  PROVE  Part(s) \in Seq(Byte) /\ Len(Part(s)) = Present(s) /\ s \in Seq(Byte) /\ Len(s) \in Nat
<1>1. <<>> \in Seq(Byte)
  OBVIOUS
<1>2. String(s) \in Seq(Byte) /\ Len(String(s)) = 2 + Len(s) /\ s \in Seq(Byte) /\ Len(s) \in Nat
  BY <1>1, StringIsRead, Zenon
<1>3. CASE s = <<>>
  BY <1>2, <1>3 DEF Part, Present
<1>4. CASE s # <<>>
  BY <1>2, <1>4 DEF Part, Present
<1> QED BY <1>3, <1>4

(* The size of its will. *)
LEMMA WillOf ==
  ASSUME NEW p \in Connects
  PROVE  /\ p.will # <<>> => /\ p.will[1] \in Wills /\ p.will = <<p.will[1]>>
                             /\ p.will[1].topic \in Strings /\ p.will[1].message \in Strings
                             /\ p.will[1].qos \in {0, 1, 2}
                             /\ p.will[1] = [topic |-> p.will[1].topic, message |-> p.will[1].message,
                                             qos |-> p.will[1].qos]
         /\ WillPart(p) \in Seq(Byte)
         /\ Len(WillPart(p)) = IF p.will = <<>> THEN 0
                               ELSE 4 + Len(p.will[1].topic) + Len(p.will[1].message)
<1>1. p.will \in Seq(Wills) /\ Len(p.will) <= 1
  BY DEF Connects
<1>2. ASSUME p.will # <<>>
      PROVE  /\ p.will[1] \in Wills /\ p.will = <<p.will[1]>>
  <2> DEFINE q == p.will
  <2>1. q \in Seq(Wills) /\ Len(q) <= 1 /\ q # <<>>
    BY <1>1, <1>2
  <2> HIDE DEF q
  <2>2. Len(q) = 1
    BY <2>1
  <2>3. q[1] \in Wills
    BY <2>1, <2>2
  <2>4. <<q[1]>> \in Seq(Wills) /\ Len(<<q[1]>>) = 1 /\ <<q[1]>>[1] = q[1]
    BY <2>3
  <2>5. q = <<q[1]>>
    BY <2>1, <2>2, <2>4, SeqEqual
  <2> QED BY <2>3, <2>5 DEF q
<1>3. ASSUME p.will # <<>>
      PROVE  /\ p.will[1].topic \in Strings /\ p.will[1].message \in Strings
             /\ p.will[1].qos \in {0, 1, 2}
             /\ p.will[1] = [topic |-> p.will[1].topic, message |-> p.will[1].message,
                             qos |-> p.will[1].qos]
  BY <1>2, <1>3 DEF Wills
<1>4. CASE p.will = <<>>
  BY <1>4 DEF WillPart
<1>5. CASE p.will # <<>>
  <2> DEFINE t == p.will[1].topic   m == p.will[1].message
  <2>1. t \in Strings /\ m \in Strings
    BY <1>3, <1>5
  <2> HIDE DEF t, m
  <2>2. <<>> \in Seq(Byte)
    OBVIOUS
  <2>3. /\ String(t) \in Seq(Byte) /\ Len(String(t)) = 2 + Len(t) /\ Len(t) \in Nat
        /\ String(m) \in Seq(Byte) /\ Len(String(m)) = 2 + Len(m) /\ Len(m) \in Nat
    BY <2>1, <2>2, StringIsRead, Zenon
  <2>4. /\ String(t) \o String(m) \in Seq(Byte)
        /\ Len(String(t) \o String(m)) = 4 + Len(t) + Len(m)
    BY <2>3, Concat
  <2>5. WillPart(p) = String(t) \o String(m)
    BY <1>5 DEF WillPart, t, m
  <2> QED BY <1>2, <1>3, <1>5, <2>4, <2>5 DEF t, m
<1> QED BY <1>2, <1>3, <1>4, <1>5, Zenon

(* The flags say which of the parts are there (connect.go). *)
LEMMA FlagsOfConnect ==
  ASSUME NEW p \in Connects
  PROVE  LET f == ConnectFlags(p, 16) IN
         /\ f \in Byte
         /\ Bit(f, 2) = p.clean /\ (Bit(f, 4) <=> p.will # <<>>)
         /\ p.will # <<>> =>
              p.will[1].qos = IF Bit(f, 16) THEN 2 ELSE IF Bit(f, 8) THEN 1 ELSE 0
         /\ (Bit(f, 128) <=> p.user # <<>>) /\ (Bit(f, 64) <=> p.password # <<>>)
<1> DEFINE a == IF p.clean THEN 2 ELSE 0
           b == IF p.will = <<>> THEN 0
                ELSE 4 + (CASE p.will[1].qos = 1 -> 8 [] p.will[1].qos = 2 -> 16 [] OTHER -> 0)
           u == IF p.user # <<>> THEN 128 ELSE 0
           w == IF p.password # <<>> THEN 64 ELSE 0
           f == a + b + u + w
<1>1. ConnectFlags(p, 16) = f
  BY Zenon DEF ConnectFlags
<1>2. p.clean \in BOOLEAN
  BY DEF Connects
<1>3. a \in {0, 2} /\ (p.clean <=> a = 2)
  BY <1>2
<1>4. u \in {0, 128} /\ (p.user # <<>> <=> u = 128)
  OBVIOUS
<1>5. w \in {0, 64} /\ (p.password # <<>> <=> w = 64)
  OBVIOUS
<1>6. /\ b \in {0, 4, 12, 20} /\ (p.will # <<>> <=> b # 0)
      /\ p.will # <<>> => p.will[1].qos = IF b = 20 THEN 2 ELSE IF b = 12 THEN 1 ELSE 0
  <2>1. CASE p.will = <<>>
    BY <2>1
  <2>2. CASE p.will # <<>>
    <3>1. p.will[1].qos \in {0, 1, 2}
      BY <2>2, WillOf
    <3>2. b = 4 + (CASE p.will[1].qos = 1 -> 8 [] p.will[1].qos = 2 -> 16 [] OTHER -> 0)
      BY <2>2
    <3> HIDE DEF b
    <3> QED BY <2>2, <3>1, <3>2
  <2> QED BY <2>1, <2>2
<1> HIDE DEF a, b, u, w
<1>7. /\ f \in Byte
      /\ (Bit(f, 2) <=> a = 2) /\ (Bit(f, 4) <=> b # 0) /\ (Bit(f, 16) <=> b = 20)
      /\ (Bit(f, 8) <=> b = 12) /\ (Bit(f, 128) <=> u = 128) /\ (Bit(f, 64) <=> w = 64)
  <2>1. a \in {0, 2} /\ b \in {0, 4, 12, 20} /\ u \in {0, 128} /\ w \in {0, 64}
    BY <1>3, <1>4, <1>5, <1>6
  <2> QED BY <2>1, BitsOfConnect
<1> HIDE DEF f
<1>8. Bit(f, 2) = p.clean
  <2>1. Bit(f, 2) \in BOOLEAN
    BY DEF Bit
  <2> QED BY <1>2, <1>3, <1>7, <2>1, Zenon
<1>9. p.will # <<>> => p.will[1].qos = IF Bit(f, 16) THEN 2 ELSE IF Bit(f, 8) THEN 1 ELSE 0
  BY <1>6, <1>7, Zenon
<1> QED BY <1>1, <1>4, <1>5, <1>6, <1>7, <1>8, <1>9, Zenon

(* The body of a CONNECT, and where each of its strings begins. *)
LEMMA ConnectParts ==
  ASSUME NEW p \in Connects
  PROVE  LET h == HeadPart(p)   k == h \o String(p.client)   kw == k \o WillPart(p)
             ku == kw \o Part(p.user)   c == ku \o Part(p.password)
         IN /\ Body(p, 16) = c /\ c \in Seq(Byte)
            /\ h \in Seq(Byte) /\ Len(h) = 6 + Len(p.magic)
            /\ k \in Seq(Byte) /\ Len(k) = Len(h) + 2 + Len(p.client)
            /\ kw \in Seq(Byte) /\ Len(kw) = Len(k) + Len(WillPart(p))
            /\ ku \in Seq(Byte) /\ Len(ku) = Len(kw) + Present(p.user)
            /\ Len(c) = Len(ku) + Present(p.password)
            /\ Len(p.magic) \in Nat /\ Len(p.client) \in Nat /\ Len(WillPart(p)) \in Nat
            /\ Present(p.user) \in Nat /\ Present(p.password) \in Nat
<1> DEFINE m == String(p.magic)   g == <<4, ConnectFlags(p, 16)>>   z == Word(0)
           mg == m \o g           h == HeadPart(p)                  x == String(p.client)
           k == h \o x            wp == WillPart(p)                 kw == k \o wp
           up == Part(p.user)     ku == kw \o up                    pp == Part(p.password)
           c == ku \o pp
<1>1. /\ p.type = "connect" /\ p.magic \in Strings /\ p.client \in Strings
      /\ p.user \in Strings /\ p.password \in Strings
  BY DEF Connects
<1>2. <<>> \in Seq(Byte)
  OBVIOUS
<1>3. /\ m \in Seq(Byte) /\ Len(m) = 2 + Len(p.magic) /\ Len(p.magic) \in Nat
      /\ x \in Seq(Byte) /\ Len(x) = 2 + Len(p.client) /\ Len(p.client) \in Nat
  BY <1>1, <1>2, StringIsRead, Zenon
<1>4. g \in Seq(Byte) /\ Len(g) = 2
  <2>1. ConnectFlags(p, 16) \in Byte /\ 4 \in Byte
    BY FlagsOfConnect DEF Byte
  <2> QED BY <2>1
<1>5. z \in Seq(Byte) /\ Len(z) = 2
  <2>1. 0 \in Words
    BY DEF Words
  <2> QED BY <1>2, <2>1, WordFirst, Zenon
<1>6. /\ up \in Seq(Byte) /\ Len(up) = Present(p.user)
      /\ pp \in Seq(Byte) /\ Len(pp) = Present(p.password)
      /\ wp \in Seq(Byte)
  BY <1>1, PartOf, WillOf, Zenon
<1>7. h = mg \o z
  BY DEF HeadPart
<1>8. Body(p, 16) = c
  <2>1. Body(p, 16) = ConnectBody(p, 16)
    BY <1>1 DEF Body, Acks, NoBody
  <2>2. ConnectBody(p, 16) = c
    <3>1. ConnectBody(p, 16) =
            (((((m \o g) \o z) \o x)
              \o (IF p.will = <<>> THEN <<>> ELSE String(p.will[1].topic) \o String(p.will[1].message)))
              \o (IF p.user = <<>> THEN <<>> ELSE String(p.user)))
              \o (IF p.password = <<>> THEN <<>> ELSE String(p.password))
      BY Zenon DEF ConnectBody
    <3> QED BY <3>1, Zenon DEF WillPart, Part, HeadPart
  <2> QED BY <2>1, <2>2, Zenon
<1> HIDE DEF m, g, z, x, wp, up, pp, h
<1>9. mg \in Seq(Byte) /\ Len(mg) = 4 + Len(p.magic)
  <2>1. m \in Seq(Byte) /\ Len(m) = 2 + Len(p.magic)
    BY <1>3
  <2>2. mg \in Seq(Byte) /\ Len(mg) = Len(m) + Len(g)
    BY <2>1, <1>4, Concat, Zenon
  <2> HIDE DEF mg
  <2> QED BY <1>3, <1>4, <2>1, <2>2
<1> HIDE DEF mg
<1>10. h \in Seq(Byte) /\ Len(h) = 6 + Len(p.magic)
  <2>1. h \in Seq(Byte) /\ Len(h) = Len(mg) + Len(z)
    BY <1>5, <1>7, <1>9, Concat, Zenon
  <2> QED BY <1>3, <1>5, <1>9, <2>1
<1>11. k \in Seq(Byte) /\ Len(k) = Len(h) + 2 + Len(p.client)
  <2>1. x \in Seq(Byte) /\ Len(x) = 2 + Len(p.client) /\ Len(p.client) \in Nat
    BY <1>3
  <2>2. k \in Seq(Byte) /\ Len(k) = Len(h) + Len(x)
    BY <2>1, <1>10, Concat, Zenon
  <2>3. Len(h) \in Nat
    BY <1>10
  <2> HIDE DEF k
  <2>4. \A a, n \in Nat : a + (2 + n) = a + 2 + n
    OBVIOUS
  <2> QED BY <2>1, <2>2, <2>3, <2>4, Zenon
<1> HIDE DEF k
<1>12. kw \in Seq(Byte) /\ Len(kw) = Len(k) + Len(wp) /\ Len(wp) \in Nat
  BY <1>6, <1>11, Concat
<1> HIDE DEF kw
<1>13. ku \in Seq(Byte) /\ Len(ku) = Len(kw) + Present(p.user) /\ Present(p.user) \in Nat
  <2>1. kw \in Seq(Byte) /\ up \in Seq(Byte) /\ Len(up) = Present(p.user)
    BY <1>6, <1>12
  <2>2. ku \in Seq(Byte) /\ Len(ku) = Len(kw) + Len(up) /\ Len(up) \in Nat
    BY <2>1, Concat, Zenon
  <2> QED BY <2>1, <2>2, Zenon
<1> HIDE DEF ku
<1>14. c \in Seq(Byte) /\ Len(c) = Len(ku) + Present(p.password) /\ Present(p.password) \in Nat
  <2>1. ku \in Seq(Byte) /\ pp \in Seq(Byte) /\ Len(pp) = Present(p.password)
    BY <1>6, <1>13
  <2>2. c \in Seq(Byte) /\ Len(c) = Len(ku) + Len(pp) /\ Len(pp) \in Nat
    BY <2>1, Concat, Zenon
  <2> QED BY <2>1, <2>2, Zenon
<1> HIDE DEF c
<1> QED
  BY <1>3, <1>8, <1>10, <1>11, <1>12, <1>13, <1>14, Zenon DEF c, ku, kw, k, wp, up, pp, x, h

(* What stands in it. *)
LEMMA ConnectFields ==
  ASSUME NEW p \in Connects, NEW c, c = Body(p, 16)
  PROVE  LET h == Len(HeadPart(p))   k == h + 2 + Len(p.client)   kw == k + Len(WillPart(p))
         IN /\ WordAt(c, 0) = Len(p.magic) /\ StringAt(c, 0) = p.magic
            /\ c[4 + Len(p.magic)] = ConnectFlags(p, 16)
            /\ StringAt(c, h) = p.client
            /\ p.will # <<>> => /\ StringAt(c, k) = p.will[1].topic
                                /\ StringAt(c, k + 2 + Len(p.will[1].topic)) = p.will[1].message
            /\ p.user # <<>> => StringAt(c, kw) = p.user
            /\ p.password # <<>> => StringAt(c, kw + Present(p.user)) = p.password
<1> DEFINE h == HeadPart(p)   x == String(p.client)   k == h \o x   wp == WillPart(p)
           kw == k \o wp   up == Part(p.user)   ku == kw \o up   pp == Part(p.password)
           t2 == up \o pp   t1 == wp \o t2   t0 == x \o t1
           m == String(p.magic)   g == <<4, ConnectFlags(p, 16)>>   z == Word(0)
<1>1. /\ c = ku \o pp /\ c \in Seq(Byte)
      /\ h \in Seq(Byte) /\ Len(h) = 6 + Len(p.magic)
      /\ k \in Seq(Byte) /\ Len(k) = Len(h) + 2 + Len(p.client)
      /\ kw \in Seq(Byte) /\ Len(kw) = Len(k) + Len(wp)
      /\ ku \in Seq(Byte) /\ Len(ku) = Len(kw) + Present(p.user)
  BY ConnectParts, Zenon
<1>2. /\ p.magic \in Strings /\ p.client \in Strings /\ p.user \in Strings /\ p.password \in Strings
  BY DEF Connects
<1>3. up \in Seq(Byte) /\ pp \in Seq(Byte) /\ wp \in Seq(Byte)
  BY <1>2, PartOf, WillOf, Zenon
<1>4. <<>> \in Seq(Byte)
  OBVIOUS
<1>5. m \in Seq(Byte) /\ Len(m) = 2 + Len(p.magic) /\ x \in Seq(Byte) /\ Len(p.magic) \in Nat
  BY <1>2, <1>4, StringIsRead, Zenon
<1>6. g \in Seq(Byte) /\ Len(g) = 2 /\ g[2] = ConnectFlags(p, 16)
  <2>1. ConnectFlags(p, 16) \in Byte /\ 4 \in Byte
    BY FlagsOfConnect DEF Byte
  <2> QED BY <2>1
<1>7. z \in Seq(Byte)
  <2>1. 0 \in Words
    BY DEF Words
  <2> QED BY <1>4, <2>1, WordFirst, Zenon
<1>8. h = (m \o g) \o z
  BY DEF HeadPart
<1>9. <<>> \o pp = pp
  BY <1>3
<1> HIDE DEF h, x, wp, up, pp, m, g, z
<1> HIDE DEF k, kw, ku
<1>10. t2 \in Seq(Byte) /\ c = kw \o t2
  <2>1. (kw \o up) \o pp = kw \o (up \o pp)
    BY <1>1, <1>3, Assoc, ZenonT(30)
  <2> QED BY <2>1, <1>1, <1>3, Concat, Zenon DEF ku
<1> HIDE DEF t2
<1>11. t1 \in Seq(Byte) /\ c = k \o t1
  <2>1. (k \o wp) \o t2 = k \o (wp \o t2)
    <3>1. k \in Seq(Byte) /\ wp \in Seq(Byte) /\ t2 \in Seq(Byte)
      BY <1>1, <1>3, <1>10
    <3> QED BY <3>1, Assoc, ZenonT(30)
  <2>2. wp \o t2 \in Seq(Byte)
    BY <1>3, <1>10, Concat, Zenon
  <2> QED BY <2>1, <2>2, <1>10, Zenon DEF kw
<1> HIDE DEF t1
<1>12. t0 \in Seq(Byte) /\ c = h \o t0 /\ c = (h \o x) \o t1
  <2>1. (h \o x) \o t1 = h \o (x \o t1)
    <3>1. h \in Seq(Byte) /\ x \in Seq(Byte) /\ t1 \in Seq(Byte)
      BY <1>1, <1>5, <1>11
    <3> QED BY <3>1, Assoc, ZenonT(30)
  <2>2. x \o t1 \in Seq(Byte)
    BY <1>5, <1>11, Concat, Zenon
  <2> QED BY <2>1, <2>2, <1>11, Zenon DEF k
<1> HIDE DEF t0
<1> DEFINE zt == z \o t0   gt == g \o zt
<1>13. zt \in Seq(Byte)
  BY <1>7, <1>12, Concat
<1>14. c = (m \o g) \o zt
  <2>1. m \o g \in Seq(Byte)
    BY <1>5, <1>6, Concat
  <2>2. ((m \o g) \o z) \o t0 = (m \o g) \o (z \o t0)
    BY <2>1, <1>7, <1>12, Assoc, ZenonT(30)
  <2> QED BY <2>2, <1>8, <1>12, Zenon
<1> HIDE DEF zt
<1>15. gt \in Seq(Byte) /\ c = m \o gt
  <2>1. (m \o g) \o zt = m \o (g \o zt)
    BY <1>5, <1>6, <1>13, Assoc, ZenonT(30)
  <2>2. gt \in Seq(Byte)
    BY <1>6, <1>13, Concat, Zenon
  <2> QED BY <2>1, <2>2, <1>14, Zenon
<1>16. WordAt(c, 0) = Len(p.magic) /\ StringAt(c, 0) = p.magic
  <2> HIDE DEF gt
  <2> QED BY <1>2, <1>15, StringFirst, Zenon DEF m
<1>17. c[4 + Len(p.magic)] = ConnectFlags(p, 16)
  <2> DEFINE mg == m \o g
  <2>1. mg \in Seq(Byte) /\ Len(mg) = 4 + Len(p.magic)
    <3>1. m \in Seq(Byte) /\ Len(m) = 2 + Len(p.magic) /\ g \in Seq(Byte) /\ Len(g) = 2
      BY <1>5, <1>6
    <3>2. mg \in Seq(Byte) /\ Len(mg) = Len(m) + Len(g)
      BY <3>1, Concat, Zenon
    <3> HIDE DEF mg
    <3> QED BY <1>5, <3>1, <3>2
  <2>2. mg[Len(m) + 2] = g[2]
    BY <1>5, <1>6, ConcatProperties
  <2> HIDE DEF mg
  <2>3. (mg \o zt)[4 + Len(p.magic)] = mg[4 + Len(p.magic)]
    BY <1>5, <1>13, <2>1, ConcatProperties
  <2>4. Len(m) + 2 = 4 + Len(p.magic)
    BY <1>5
  <2> QED BY <1>6, <1>14, <2>2, <2>3, <2>4, Zenon DEF mg
<1>18. StringAt(c, Len(h)) = p.client
  <2>1. c = (h \o String(p.client)) \o t1
    BY <1>12, Zenon DEF x
  <2>2. h \in Seq(Byte) /\ p.client \in Strings /\ t1 \in Seq(Byte)
    BY <1>1, <1>2, <1>11
  <2> QED BY <2>1, <2>2, StringInside, Zenon
<1>19. ASSUME p.will # <<>>
       PROVE  /\ StringAt(c, Len(k)) = p.will[1].topic
              /\ StringAt(c, Len(k) + 2 + Len(p.will[1].topic)) = p.will[1].message
  <2> DEFINE t == p.will[1].topic   y == p.will[1].message   st == String(t)   sy == String(y)
             kt == k \o st          rest == sy \o t2
  <2>1. t \in Strings /\ y \in Strings
    BY <1>19, WillOf
  <2>2. wp = st \o sy
    BY <1>19, Zenon DEF wp, WillPart
  <2> HIDE DEF t, y
  <2>3. /\ st \in Seq(Byte) /\ Len(st) = 2 + Len(t) /\ Len(t) \in Nat
        /\ sy \in Seq(Byte)
    BY <1>4, <2>1, StringIsRead, Zenon
  <2> HIDE DEF st, sy
  <2>4. rest \in Seq(Byte)
    BY <2>3, <1>10, Concat
  <2>5. kt \in Seq(Byte) /\ Len(kt) = Len(k) + 2 + Len(t)
    <3>1. k \in Seq(Byte) /\ st \in Seq(Byte)
      BY <1>1, <2>3
    <3>2. kt \in Seq(Byte) /\ Len(kt) = Len(k) + Len(st) /\ Len(k) \in Nat
      BY <3>1, Concat, Zenon
    <3>3. Len(st) = 2 + Len(t) /\ Len(t) \in Nat
      BY <2>3
    <3> HIDE DEF kt
    <3> QED BY <3>2, <3>3
  <2>6. c = (kt \o sy) \o t2
    <3>1. k \o (st \o sy) = (k \o st) \o sy
      <4>1. k \in Seq(Byte) /\ st \in Seq(Byte) /\ sy \in Seq(Byte)
        BY <1>1, <2>3, Zenon
      <4> QED BY <4>1, Assoc, ZenonT(30)
    <3> QED BY <3>1, <2>2, <1>10, Zenon DEF kw
  <2> HIDE DEF kt
  <2>7. c = kt \o rest
    <3>1. (kt \o sy) \o t2 = kt \o (sy \o t2)
      BY <2>3, <2>5, <1>10, Assoc, ZenonT(30)
    <3> QED BY <2>6, <3>1, Zenon
  <2>8. c = (k \o st) \o rest
    BY <2>7, Zenon DEF kt
  <2> HIDE DEF rest
  <2>9. StringAt(c, Len(k)) = t
    <3>1. k \in Seq(Byte)
      BY <1>1
    <3> QED BY <2>1, <2>4, <2>8, <3>1, StringInside, Zenon DEF st
  <2>10. StringAt(c, Len(kt)) = y
    BY <2>1, <2>5, <2>6, <1>10, StringInside, Zenon DEF sy
  <2> QED BY <2>5, <2>9, <2>10, Zenon DEF t, y
<1>20. ASSUME p.user # <<>>
       PROVE  StringAt(c, Len(kw)) = p.user
  <2>1. up = String(p.user)
    BY <1>20, Zenon DEF up, Part
  <2>2. c = (kw \o String(p.user)) \o pp
    BY <2>1, <1>1, Zenon DEF ku
  <2>3. kw \in Seq(Byte) /\ p.user \in Strings /\ pp \in Seq(Byte)
    BY <1>1, <1>2, <1>3
  <2> QED BY <2>2, <2>3, StringInside, Zenon
<1>21. ASSUME p.password # <<>>
       PROVE  StringAt(c, Len(ku)) = p.password
  <2> DEFINE e == <<>>   sp == String(p.password)
  <2>1. pp = sp
    BY <1>21, Zenon DEF pp, Part
  <2>2. c \o e = c
    BY <1>1
  <2>3. c = (ku \o sp) \o e
    BY <2>1, <2>2, <1>1, Zenon
  <2>4. e \in Seq(Byte)
    OBVIOUS
  <2> HIDE DEF e
  <2>5. ku \in Seq(Byte) /\ p.password \in Strings /\ Len(ku) = Len(kw) + Present(p.user)
    BY <1>1, <1>2
  <2> QED BY <2>3, <2>4, <2>5, StringInside, Zenon DEF sp
<1> QED
  BY <1>1, <1>16, <1>17, <1>18, <1>19, <1>20, <1>21, Zenon DEF h, wp

(* So CONNECT is read as it was sent. *)
LEMMA ConnectIsRead ==
  ASSUME NEW p \in Connects
  PROVE  Reads(p)
<1> DEFINE c == Body(p, 16)   n == Len(c)   a == Len(p.magic)   f == ConnectFlags(p, 16)
           d == Len(p.client)   u == Present(p.user)   v == Present(p.password)
           h == Len(HeadPart(p))   k == h + 2 + d   wl == Len(WillPart(p))   kw == k + wl
<1>1. /\ c \in Seq(Byte) /\ h = 6 + a /\ a \in Nat /\ Len(p.client) \in Nat /\ wl \in Nat
      /\ n = kw + Present(p.user) + Present(p.password)
      /\ Present(p.user) \in Nat /\ Present(p.password) \in Nat
  BY ConnectParts, Zenon
<1>2. /\ WordAt(c, 0) = a /\ StringAt(c, 0) = p.magic
      /\ c[4 + a] = f
      /\ StringAt(c, h) = p.client
      /\ p.will # <<>> => /\ StringAt(c, k) = p.will[1].topic
                          /\ StringAt(c, k + 2 + Len(p.will[1].topic)) = p.will[1].message
      /\ p.user # <<>> => StringAt(c, kw) = p.user
      /\ p.password # <<>> => StringAt(c, kw + Present(p.user)) = p.password
  BY ConnectFields, Zenon
<1>3. /\ Bit(f, 2) = p.clean /\ (Bit(f, 4) <=> p.will # <<>>)
      /\ p.will # <<>> =>
           p.will[1].qos = IF Bit(f, 16) THEN 2 ELSE IF Bit(f, 8) THEN 1 ELSE 0
      /\ (Bit(f, 128) <=> p.user # <<>>) /\ (Bit(f, 64) <=> p.password # <<>>)
  BY FlagsOfConnect, ZenonT(30)
<1>4. p = [type |-> "connect", magic |-> p.magic, client |-> p.client, clean |-> p.clean,
           will |-> p.will, user |-> p.user, password |-> p.password]
  BY DEF Connects
<1>5. p.type = "connect"
  BY DEF Connects
<1>6. n \in Nat /\ n >= 2 + a /\ k \in Nat /\ kw \in Nat
  <2>1. h = 6 + a /\ a \in Nat /\ d \in Nat /\ wl \in Nat /\ u \in Nat /\ v \in Nat /\ n = kw + u + v
    BY <1>1, Zenon
  <2> HIDE DEF n, a, d, u, v, h, wl
  <2> QED BY <2>1
<1> HIDE DEF c, f
<1>7. ASSUME NEW rest \in Seq(Byte)
      PROVE  DecodeConnect(c \o rest, n) = Decoded(p, n)
  <2> DEFINE b == c \o rest
             cc == SubSeq(b, 1, n)
             magic == StringAt(cc, 0)                o == 2 + Len(magic)
             flag == cc[o + 2]
             client == StringAt(cc, o + 4)           o1 == o + 6 + Len(client)
             topic == StringAt(cc, o1)               message == StringAt(cc, o1 + 2 + Len(topic))
             qos == IF Bit(flag, 16) THEN 2 ELSE IF Bit(flag, 8) THEN 1 ELSE 0
             will == IF Bit(flag, 4) THEN <<[topic |-> topic, message |-> message, qos |-> qos]>>
                     ELSE <<>>
             o2 == IF will = <<>> THEN o1 ELSE o1 + 4 + Len(topic) + Len(message)
             user == IF Bit(flag, 128) THEN StringAt(cc, o2) ELSE <<>>
             o3 == IF Bit(flag, 128) THEN o2 + 2 + Len(user) ELSE o2
             password == IF Bit(flag, 64) THEN StringAt(cc, o3) ELSE <<>>
             all == [type |-> "connect", magic |-> magic, client |-> client, clean |-> Bit(flag, 2),
                     will |-> will, user |-> user, password |-> password]
             result == IF n < 2 + WordAt(cc, 0) THEN Refused ELSE all
  <2>1. DecodeConnect(b, n) = Decoded(result, n)
    <3> HIDE DEF n, b
    <3> QED BY Zenon DEF DecodeConnect
  <2>2. cc = c
    BY <1>1, Cut, Zenon
  <2> HIDE DEF cc, b
  <2>3. magic = p.magic
    BY <1>2, <2>2, Zenon
  <2> HIDE DEF magic
  <2>4. flag = f /\ client = p.client
    <3>1. o + 2 = 4 + a /\ o + 4 = h
      BY <1>1, <2>3
    <3> HIDE DEF o
    <3> QED BY <3>1, <1>2, <2>2, Zenon
  <2> HIDE DEF flag, client
  <2>5. o1 = k
    BY <1>1, <2>3, <2>4
  <2> HIDE DEF o1, o
  <2>6. topic = StringAt(c, k) /\ message = StringAt(c, k + 2 + Len(topic))
    BY <2>2, <2>5, Zenon
  <2> HIDE DEF topic, message
  <2>7. will = p.will /\ o2 = kw
    <3>1. CASE p.will = <<>>
      <4>1. will = <<>>
        BY <1>3, <2>4, <3>1, Zenon
      <4> HIDE DEF will
      <4>2. wl = 0
        BY <3>1, WillOf
      <4> HIDE DEF wl
      <4> QED BY <1>1, <2>5, <3>1, <4>1, <4>2
    <3>2. CASE p.will # <<>>
      <4> DEFINE w == p.will[1]
      <4>0. /\ w.topic \in Strings /\ w.message \in Strings
            /\ w = [topic |-> w.topic, message |-> w.message, qos |-> w.qos]
            /\ p.will = <<w>> /\ wl = 4 + Len(w.topic) + Len(w.message)
        BY <3>2, WillOf, Zenon
      <4>1. topic = w.topic /\ message = w.message /\ qos = w.qos
        BY <1>2, <1>3, <2>4, <2>6, <3>2, Zenon
      <4> HIDE DEF w, wl, qos
      <4>2. will = <<[topic |-> topic, message |-> message, qos |-> qos]>>
        BY <1>3, <2>4, <3>2, Zenon
      <4>3. will = p.will
        BY <4>0, <4>1, <4>2, Zenon
      <4> HIDE DEF will
      <4>4. Len(topic) \in Nat /\ Len(message) \in Nat
        BY <4>0, <4>1 DEF Strings
      <4>5. o2 = o1 + 4 + Len(topic) + Len(message)
        BY <3>2, <4>3, Zenon
      <4> HIDE DEF o2
      <4> HIDE DEF k
      <4>7. o2 = kw
        BY <1>6, <2>5, <4>0, <4>1, <4>4, <4>5
      <4> QED BY <4>3, <4>7
    <3> QED BY <3>1, <3>2
  <2> HIDE DEF will, o2, kw
  <2>8. user = p.user
    BY <1>2, <1>3, <2>2, <2>4, <2>7, Zenon
  <2> HIDE DEF user
  <2>8a. o3 = kw + Present(p.user)
    <3>1. Bit(flag, 128) <=> p.user # <<>>
      BY <1>3, <2>4, Zenon
    <3>2. o3 = IF p.user = <<>> THEN kw ELSE kw + 2 + Len(p.user)
      BY <2>7, <2>8, <3>1, Zenon
    <3> HIDE DEF o3
    <3>3. kw \in Nat
      BY <1>6
    <3>4. /\ p.user = <<>> => Present(p.user) = 0
          /\ p.user # <<>> => Present(p.user) = 2 + Len(p.user)
      BY Zenon DEF Present
    <3>5. Len(p.user) \in Nat
      BY DEF Connects, Strings
    <3> DEFINE l == Len(p.user)   x == Present(p.user)
    <3> HIDE DEF l, x
    <3>6. o3 = kw + x
      <4>1. CASE p.user = <<>>
        BY <3>2, <3>3, <3>4, <4>1 DEF x
      <4>2. CASE p.user # <<>>
        <5>1. o3 = kw + 2 + l /\ x = 2 + l /\ l \in Nat
          BY <3>2, <3>4, <3>5, <4>2, Zenon DEF l, x
        <5> QED BY <3>3, <5>1
      <4> QED BY <4>1, <4>2
    <3> QED BY <3>6, Zenon DEF x
  <2> HIDE DEF o3
  <2>9. password = p.password
    BY <1>2, <1>3, <2>2, <2>4, <2>8a, ZenonT(30)
  <2> HIDE DEF password
  <2>10. all = p
    BY <1>3, <1>4, <2>3, <2>4, <2>7, <2>8, <2>9, Zenon
  <2> HIDE DEF all
  <2>11. ~(n < 2 + WordAt(cc, 0))
    <3>1. WordAt(cc, 0) = a
      BY <1>2, <2>2, Zenon
    <3>2. a \in Nat
      BY <1>1
    <3> HIDE DEF n, a
    <3> QED BY <1>6, <3>1, <3>2
  <2> HIDE DEF n
  <2> QED BY <2>1, <2>10, <2>11, Zenon DEF b
<1>8. 1 \in DOMAIN PTypes /\ PTypes[1] = "connect"
  BY DEF PTypes
<1>9. Flags(p) = 0
  BY <1>5 DEF Flags
<1>10. FirstByte(p) \in Byte /\ FirstByte(p) \div 16 = 1
  <2>1. Flags(p) \in 0 .. 15
    BY <1>9
  <2> QED BY <1>5, <1>8, <2>1, FirstByteIsRead, Zenon
<1>11. ASSUME NEW b PROVE Decode(FirstByte(p), n, b) = DecodeConnect(b, n)
  <2> HIDE DEF n
  <2> QED BY <1>8, <1>10 DEF Decode, Acks, NoBody
<1> QED BY <1>1, <1>7, <1>10, <1>11, Zenon DEF Reads, c

-----------------------------------------------------------------------------
(* Induction, of a set of numbers. *)
LEMMA InductiveSet ==
  ASSUME NEW T, 0 \in T, \A k \in Nat : k \in T => k + 1 \in T
  PROVE  Nat \subseteq T
<1> DEFINE U == Nat \ T
<1> SUFFICES ASSUME U # {} PROVE FALSE
  OBVIOUS
<1>1. PICK k \in U : \A y \in U : k <= y
  <2>1. U \subseteq Nat
    OBVIOUS
  <2> HIDE DEF U
  <2> QED BY <2>1, LeastOf
<1>2. k \in Nat /\ k \notin T /\ k # 0
  BY <1>1
<1>3. k - 1 \in Nat /\ (k - 1) + 1 = k /\ ~(k <= k - 1)
  BY <1>2
<1>4. k - 1 \in T
  BY <1>1, <1>3
<1> QED BY <1>2, <1>3, <1>4

(* The filters of a SUBSCRIBE or an UNSUBSCRIBE as they are written. *)
FilterList == Seq([path : Strings, qos : Byte])
QosPart(f, q) == IF q = 1 THEN <<f.qos>> ELSE <<>>
Written(fs, q) == [i \in 1 .. Len(fs) |-> String(fs[i].path) \o QosPart(fs[i], q)]
Upto(s, k) == Sq!FlattenSeq(SubSeq(s, 1, k))

(* One filter: its path and, in a SUBSCRIBE, its QoS. *)
LEMMA FilterIsWritten ==
  ASSUME NEW f \in [path : Strings, qos : Byte], NEW q \in {0, 1}
  PROVE  LET x == String(f.path) \o QosPart(f, q) IN
         /\ f.path \in Strings /\ Len(f.path) \in Nat
         /\ String(f.path) \in Seq(Byte) /\ QosPart(f, q) \in Seq(Byte)
         /\ x \in Seq(Byte) /\ Len(x) = 2 + Len(f.path) + q
         /\ q = 1 => x[Len(x)] = f.qos
<1> DEFINE y == String(f.path)   z == QosPart(f, q)   x == y \o z
<1>1. f.path \in Strings /\ f.qos \in Byte
  OBVIOUS
<1>2. <<>> \in Seq(Byte)
  OBVIOUS
<1>3. y \in Seq(Byte) /\ Len(y) = 2 + Len(f.path) /\ Len(f.path) \in Nat
  BY <1>1, <1>2, StringIsRead, Zenon
<1>4. z \in Seq(Byte) /\ Len(z) = q /\ (q = 1 => z[1] = f.qos)
  BY <1>1 DEF QosPart
<1> HIDE DEF y, z
<1>5. x \in Seq(Byte) /\ Len(x) = Len(y) + Len(z)
  BY <1>3, <1>4, Concat, Zenon
<1>6. q = 1 => x[Len(y) + 1] = z[1]
  BY <1>3, <1>4, ConcatProperties
<1> HIDE DEF x
<1>7. Len(x) = 2 + Len(f.path) + q
  BY <1>3, <1>4, <1>5
<1>8. q = 1 => Len(x) = Len(y) + 1
  BY <1>4, <1>5, Zenon
<1> QED BY <1>1, <1>3, <1>4, <1>5, <1>6, <1>7, <1>8, Zenon DEF x, y, z

(* All of them, one by one. *)
LEMMA FiltersAreWritten ==
  ASSUME NEW fs \in FilterList, NEW q \in {0, 1}
  PROVE  /\ Written(fs, q) \in Pieces /\ Len(Written(fs, q)) = Len(fs) /\ Len(fs) \in Nat
         /\ \A i \in 1 .. Len(fs) : /\ fs[i] \in [path : Strings, qos : Byte]
                                    /\ Written(fs, q)[i] = String(fs[i].path) \o QosPart(fs[i], q)
<1>1. Len(fs) \in Nat /\ \A i \in 1 .. Len(fs) : fs[i] \in [path : Strings, qos : Byte]
  <2> DEFINE F == [path : Strings, qos : Byte]
  <2>1. fs \in Seq(F)
    BY DEF FilterList
  <2> HIDE DEF F
  <2>2. Len(fs) \in Nat /\ \A i \in 1 .. Len(fs) : fs[i] \in F
    BY <2>1
  <2> QED BY <2>2, Zenon DEF F
<1>2. \A i \in 1 .. Len(fs) : String(fs[i].path) \o QosPart(fs[i], q) \in Seq(Byte)
  BY <1>1, FilterIsWritten, Zenon
<1>3. Written(fs, q) \in [1 .. Len(fs) -> Seq(Byte)]
  BY <1>2, Zenon DEF Written
<1>4. Written(fs, q) \in Pieces /\ Len(Written(fs, q)) = Len(fs)
  <2> DEFINE w == Written(fs, q)   n == Len(fs)
  <2>1. n \in Nat /\ w \in [1 .. n -> Seq(Byte)]
    BY <1>1, <1>3, Zenon
  <2> HIDE DEF w, n
  <2>2. w \in Pieces /\ Len(w) = n
    BY <2>1 DEF Pieces
  <2> QED BY <2>2, Zenon DEF w, n
<1>5. \A i \in 1 .. Len(fs) : Written(fs, q)[i] = String(fs[i].path) \o QosPart(fs[i], q)
  BY Zenon DEF Written
<1> QED BY <1>1, <1>4, <1>5, Zenon

(* The parts before and after one of the pieces. *)
LEMMA UptoNext ==
  ASSUME NEW s \in Pieces, NEW k \in Nat, k < Len(s)
  PROVE  /\ Upto(s, k) \in Seq(Byte) /\ s[k + 1] \in Seq(Byte)
         /\ Upto(s, k + 1) = Upto(s, k) \o s[k + 1]
<1> DEFINE u == SubSeq(s, 1, k)   x == s[k + 1]
<1>1. u \in Pieces /\ x \in Seq(Byte) /\ SubSeq(s, 1, k + 1) = Append(u, x)
  BY DEF Pieces
<1> HIDE DEF u, x
<1>2. Sq!FlattenSeq(Append(u, x)) = Sq!FlattenSeq(u) \o x /\ Sq!FlattenSeq(u) \in Seq(Byte)
  BY <1>1, FlattenAppend, FlattenIsBytes, Zenon
<1> QED BY <1>1, <1>2, Zenon DEF Upto, u, x

(* The first none of the pieces, and all of them. *)
LEMMA UptoEnds ==
  ASSUME NEW s \in Pieces
  PROVE  Upto(s, 0) = <<>> /\ Upto(s, Len(s)) = Sq!FlattenSeq(s)
<1>1. SubSeq(s, 1, 0) = <<>> /\ SubSeq(s, 1, Len(s)) = s
  BY DEF Pieces
<1> QED BY <1>1, FlattenEmpty, Zenon DEF Upto

(* A sequence is its first k elements and the others. *)
LEMMA SplitAt ==
  ASSUME NEW S, NEW s \in Seq(S), NEW k \in Nat, k <= Len(s)
  PROVE  SubSeq(s, 1, k) \o SubSeq(s, k + 1, Len(s)) = s
<1> DEFINE u == SubSeq(s, 1, k)   t == SubSeq(s, k + 1, Len(s))
<1>1. /\ u \in Seq(S) /\ t \in Seq(S) /\ Len(u) = k /\ Len(t) = Len(s) - k /\ Len(s) \in Nat
      /\ \A i \in 1 .. k : u[i] = s[i]
      /\ \A i \in 1 .. Len(s) - k : t[i] = s[k + i]
  OBVIOUS
<1> HIDE DEF u, t
<1> DEFINE v == u \o t
<1>2. v \in Seq(S) /\ Len(v) = Len(s)
  <2>1. u \in Seq(S) /\ t \in Seq(S)
    BY <1>1
  <2>2. v \in Seq(S) /\ Len(v) = Len(u) + Len(t)
    BY <2>1
  <2> HIDE DEF v
  <2> QED BY <1>1, <2>2
<1>3. \A i \in 1 .. Len(s) : v[i] = IF i <= k THEN u[i] ELSE t[i - k]
  BY <1>1
<1> HIDE DEF v
<1>4. \A i \in 1 .. Len(s) : v[i] = s[i]
  BY <1>1, <1>3
<1> QED BY <1>2, <1>4, SeqEqual DEF v, u, t

(* So what is written is what the first k filters and the others give. *)
LEMMA UptoRest ==
  ASSUME NEW s \in Pieces, NEW k \in Nat, k <= Len(s)
  PROVE  LET t == SubSeq(s, k + 1, Len(s)) IN
         /\ Upto(s, k) \in Seq(Byte) /\ Sq!FlattenSeq(t) \in Seq(Byte)
         /\ t \in Pieces /\ Len(t) = Len(s) - k
         /\ \A i \in 1 .. Len(s) - k : t[i] = s[k + i]
         /\ Sq!FlattenSeq(s) = Upto(s, k) \o Sq!FlattenSeq(t)
<1> DEFINE u == SubSeq(s, 1, k)   t == SubSeq(s, k + 1, Len(s))
<1>1. u \in Pieces /\ t \in Pieces
  BY DEF Pieces
<1>2. Len(t) = Len(s) - k /\ \A i \in 1 .. Len(s) - k : t[i] = s[k + i]
  BY DEF Pieces
<1>3. u \o t = s
  BY SplitAt, Zenon DEF Pieces
<1> HIDE DEF u, t
<1>4. Sq!FlattenSeq(u \o t) = Sq!FlattenSeq(u) \o Sq!FlattenSeq(t)
  BY <1>1, FlattenConcat, Zenon
<1> QED BY <1>1, <1>2, <1>3, <1>4, FlattenIsBytes, Zenon DEF Upto, u, t

(* Where a filter stands in the body, and in the stream. *)
Three(s, t, u) == s \in Seq(Byte) /\ t \in Seq(Byte) /\ u \in Seq(Byte)

Associates(s, t, u) == (s \o t) \o u = s \o (t \o u)

(* Sequences of bytes join in any order. *)
LEMMA AssocOf ==
  \A s, t, u : Three(s, t, u) => Associates(s, t, u)
BY Assoc, ZenonT(30) DEF Three, Associates

(* A filter is cut out of the stream it stands in. *)
LEMMA Regroup ==
  ASSUME NEW w \in Seq(Byte), NEW u \in Seq(Byte), NEW x \in Seq(Byte), NEW t \in Seq(Byte),
         NEW r \in Seq(Byte)
  PROVE  /\ (w \o ((u \o x) \o t)) \o r = (w \o u) \o (x \o (t \o r))
         /\ w \o u \in Seq(Byte) /\ Len(w \o u) = Len(w) + Len(u) /\ t \o r \in Seq(Byte)
<1> DEFINE wu == w \o u   xt == x \o t   tr == t \o r
<1>1. wu \in Seq(Byte) /\ xt \in Seq(Byte) /\ tr \in Seq(Byte)
  BY Concat, Zenon
<1>2. (u \o x) \o t = u \o xt
  <2>1. Three(u, x, t)
    BY DEF Three
  <2>9. Associates(u, x, t)
    BY <2>1, AssocOf, ZenonT(30)
  <2> QED BY <2>9, ZenonT(30) DEF Associates
<1>3. wu \o xt = w \o (u \o xt)
  <2>1. Three(w, u, xt)
    BY <1>1, Zenon DEF Three
  <2> HIDE DEF xt
  <2>9. Associates(w, u, xt)
    BY <2>1, AssocOf, ZenonT(30)
  <2> QED BY <2>9, ZenonT(30) DEF Associates
<1>4. xt \o r = x \o tr
  <2>1. Three(x, t, r)
    BY DEF Three
  <2>9. Associates(x, t, r)
    BY <2>1, AssocOf, ZenonT(30)
  <2> QED BY <2>9, ZenonT(30) DEF Associates
<1>5. (wu \o xt) \o r = wu \o (xt \o r)
  <2>1. Three(wu, xt, r)
    BY <1>1, Zenon DEF Three
  <2> HIDE DEF wu, xt
  <2>9. Associates(wu, xt, r)
    BY <2>1, AssocOf, ZenonT(30)
  <2> QED BY <2>9, ZenonT(30) DEF Associates
<1>6. Len(wu) = Len(w) + Len(u)
  BY Concat, Zenon
<1> HIDE DEF wu, xt, tr
<1>7. (w \o ((u \o x) \o t)) \o r = wu \o (x \o tr)
  BY <1>2, <1>3, <1>4, <1>5, Zenon
<1> QED BY <1>1, <1>6, <1>7, Zenon DEF wu, tr

Regroups(w, u, x, t, r) ==
  /\ (w \o ((u \o x) \o t)) \o r = (w \o u) \o (x \o (t \o r))
  /\ w \o u \in Seq(Byte) /\ Len(w \o u) = Len(w) + Len(u) /\ t \o r \in Seq(Byte)

(* The same, for all streams. *)
LEMMA RegroupOf ==
  \A w, u, x, t, r \in Seq(Byte) : Regroups(w, u, x, t, r)
BY Regroup, Zenon DEF Regroups

(* The last byte of the middle one of three sequences. *)
LEMMA LastOf ==
  ASSUME NEW s \in Seq(Byte), NEW x \in Seq(Byte), NEW t \in Seq(Byte), Len(x) # 0
  PROVE  (s \o (x \o t))[Len(s) + Len(x)] = x[Len(x)]
<1> DEFINE v == s \o x
<1>1. v \in Seq(Byte) /\ Len(v) = Len(s) + Len(x) /\ Len(s) \in Nat /\ Len(x) \in Nat
  BY Concat, Zenon
<1>2. Len(s) + Len(x) \in 1 .. Len(v)
  BY <1>1
<1>3. v[Len(s) + Len(x)] = x[Len(x)]
  BY ConcatProperties
<1>4. v \o t = s \o (x \o t)
  BY Assoc, ZenonT(30)
<1> HIDE DEF v
<1>5. (v \o t)[Len(s) + Len(x)] = v[Len(s) + Len(x)]
  BY <1>1, <1>2, ConcatProperties
<1> QED BY <1>3, <1>4, <1>5, Zenon

Sums(a, c, q) == 2 + (a + (2 + c + q)) = (2 + a) + 2 + c + q /\ a + (2 + c + q) = a + 2 + c + q

(* The sizes around a filter. *)
LEMMA SumsOf ==
  \A a, c, q \in Nat : Sums(a, c, q)
BY DEF Sums

Stands(fs, q, w, rest, k) ==
  LET s == Written(fs, q)   b == (w \o Sq!FlattenSeq(s)) \o rest
      at == 2 + Len(Upto(s, k))   path == fs[k + 1].path   next == at + 2 + Len(path) + q
  IN /\ at \in Nat /\ Len(path) \in Nat /\ fs[k + 1] \in [path : Strings, qos : Byte]
     /\ StringAt(b, at) = path
     /\ 2 + Len(Upto(s, k + 1)) = next
     /\ q = 1 => b[next] = fs[k + 1].qos
     /\ \E pre, r \in Seq(Byte) :
          b = pre \o ((String(path) \o QosPart(fs[k + 1], q)) \o r) /\ Len(pre) = at

(* A filter of the list is found at its place in the stream. *)
LEMMA FilterAt ==
  ASSUME NEW fs \in FilterList, NEW q \in {0, 1}, NEW w \in Seq(Byte), Len(w) = 2,
         NEW rest \in Seq(Byte), NEW k \in Nat, k < Len(fs)
  PROVE  Stands(fs, q, w, rest, k)
<1> DEFINE s == Written(fs, q)   n == Len(s)
           f == fs[k + 1]        y == String(f.path)   z == QosPart(f, q)   x == y \o z
           u == Upto(s, k)       t == Sq!FlattenSeq(SubSeq(s, (k + 1) + 1, n))   r == t \o rest
           pre == w \o u         b == (w \o Sq!FlattenSeq(s)) \o rest   at == 2 + Len(u)
           next == at + 2 + Len(f.path) + q
<1>1. /\ s \in Pieces /\ n = Len(fs) /\ n \in Nat
      /\ \A i \in 1 .. Len(fs) : /\ fs[i] \in [path : Strings, qos : Byte]
                                 /\ s[i] = String(fs[i].path) \o QosPart(fs[i], q)
  BY FiltersAreWritten
<1>2. k + 1 \in 1 .. Len(fs) /\ k < n /\ k + 1 <= n /\ k + 1 \in Nat
  BY <1>1
<1>3. f \in [path : Strings, qos : Byte] /\ s[k + 1] = x
  BY <1>1, <1>2, Zenon
<1>4. /\ f.path \in Strings /\ Len(f.path) \in Nat /\ y \in Seq(Byte) /\ z \in Seq(Byte)
      /\ x \in Seq(Byte) /\ Len(x) = 2 + Len(f.path) + q
      /\ q = 1 => x[Len(x)] = f.qos
  BY <1>3, FilterIsWritten, Zenon
<1>5. u \in Seq(Byte) /\ Upto(s, k + 1) = u \o x
  <2> HIDE DEF s, x
  <2> QED BY <1>1, <1>2, <1>3, UptoNext, Zenon
<1>6. t \in Seq(Byte) /\ Sq!FlattenSeq(s) = Upto(s, k + 1) \o t
  <2> HIDE DEF s
  <2> QED BY <1>1, <1>2, UptoRest, Zenon
<1>7. b = (w \o ((u \o x) \o t)) \o rest
  BY <1>5, <1>6, Zenon
<1> HIDE DEF s, f, y, z, u, t, b
<1>8. b = pre \o (x \o r) /\ pre \in Seq(Byte) /\ Len(pre) = Len(w) + Len(u) /\ r \in Seq(Byte)
  <2>1. x \in Seq(Byte)
    BY <1>4
  <2>2. /\ w \in Seq(Byte) /\ u \in Seq(Byte) /\ t \in Seq(Byte) /\ rest \in Seq(Byte)
    BY <1>5, <1>6
  <2> HIDE DEF x
  <2>3. Regroups(w, u, x, t, rest)
    BY <2>1, <2>2, RegroupOf, Zenon
  <2>4. /\ (w \o ((u \o x) \o t)) \o rest = (w \o u) \o (x \o (t \o rest))
        /\ w \o u \in Seq(Byte) /\ Len(w \o u) = Len(w) + Len(u) /\ t \o rest \in Seq(Byte)
    BY <2>3, Zenon DEF Regroups
  <2> QED BY <1>7, <2>4, Zenon
<1> HIDE DEF pre, r
<1>14. \E pr, rr \in Seq(Byte) : b = pr \o (x \o rr) /\ Len(pr) = at
  <2>1. Len(pre) = at
    BY <1>5, <1>8
  <2>2. b = pre \o (x \o r) /\ pre \in Seq(Byte) /\ r \in Seq(Byte)
    BY <1>8
  <2> HIDE DEF x, at
  <2> QED BY <2>1, <2>2, Zenon
<1>9. Len(u) \in Nat /\ Len(pre) = at
  BY <1>5, <1>8
<1>10. StringAt(b, at) = f.path
  <2> DEFINE zr == z \o r
  <2>1. x \o r = y \o zr
    <3>1. Three(y, z, r)
      BY <1>4, <1>8, Zenon DEF Three
    <3>9. Associates(y, z, r)
      BY <3>1, AssocOf, ZenonT(30)
    <3> QED BY <3>9, ZenonT(30) DEF Associates
  <2>2. zr \in Seq(Byte)
    BY <1>4, <1>8, Concat, Zenon
  <2> HIDE DEF zr
  <2>3. StringAt(pre \o (String(f.path) \o zr), Len(pre)) = f.path
    <3>1. f.path \in Strings /\ pre \in Seq(Byte)
      BY <1>4, <1>8
    <3> QED BY <2>2, <3>1, StringIsRead, Zenon
  <2> HIDE DEF x
  <2> QED BY <1>8, <1>9, <2>1, <2>3, Zenon DEF y
<1>11. 2 + Len(Upto(s, k + 1)) = next
  <2> DEFINE v == u \o x
  <2>1. x \in Seq(Byte) /\ Len(x) = 2 + Len(f.path) + q /\ Len(f.path) \in Nat
    BY <1>4
  <2> HIDE DEF x
  <2>2. Len(v) = Len(u) + Len(x) /\ Len(u) \in Nat
    BY <1>5, <2>1, Concat, Zenon
  <2> HIDE DEF v
  <2>3. 2 + Len(v) = next
    <3>1. q \in Nat
      OBVIOUS
    <3>2. Sums(Len(u), Len(f.path), q)
      BY <2>1, <2>2, <3>1, SumsOf, Zenon
    <3> QED BY <2>1, <2>2, <3>2, Zenon DEF Sums
  <2> QED BY <1>5, <2>3, Zenon DEF v
<1>12. q = 1 => b[next] = f.qos
  <2>1. x \in Seq(Byte) /\ Len(x) = 2 + Len(f.path) + q /\ Len(f.path) \in Nat
    BY <1>4
  <2> HIDE DEF x
  <2>2. Len(pre) + Len(x) = next
    <3>1. q \in Nat /\ at \in Nat
      BY <1>9
    <3> HIDE DEF at
    <3>2. Sums(at, Len(f.path), q)
      BY <2>1, <3>1, SumsOf, Zenon
    <3> QED BY <1>9, <2>1, <3>2, Zenon DEF Sums
  <2>3. Len(x) # 0
    <3> DEFINE c == Len(f.path)
    <3>1. Len(x) = 2 + c + q /\ c \in Nat
      BY <2>1
    <3> HIDE DEF c
    <3> QED BY <3>1
  <2> HIDE DEF next
  <2>4. pre \in Seq(Byte) /\ r \in Seq(Byte) /\ b = pre \o (x \o r)
    BY <1>8
  <2>5. b[Len(pre) + Len(x)] = x[Len(x)]
    BY <2>1, <2>3, <2>4, LastOf, Zenon
  <2> QED BY <1>4, <2>2, <2>5, Zenon
<1>13. at \in Nat
  BY <1>9
<1> HIDE DEF at, next
<1> QED BY <1>3, <1>4, <1>10, <1>11, <1>12, <1>13, <1>14, Zenon DEF y, z, at, next, s, f, u, b, Stands
-----------------------------------------------------------------------------
(* The loop over the filters.  A function that has the value after each round is
   the one the decoder computes. *)
AfterFilter(b, r, q, step) ==
  LET path == StringAt(b, r.at)
      next == r.at + 2 + Len(path) + q
      qos == IF q = 1 THEN b[next] ELSE 0
  IN IF r.left <= 0 THEN r
     ELSE [at |-> next, left |-> r.left - Len(path) - step,
           filters |-> Append(r.filters, [path |-> path, qos |-> qos])]
BeforeFilters(left0) == [at |-> 2, left |-> left0, filters |-> <<>>]
Loops(f, b, left0, q, step) ==
  f = [n \in Nat |-> IF n = 0 THEN BeforeFilters(left0) ELSE AfterFilter(b, f[n - 1], q, step)]

(* What the loop computes is one of those functions. *)
LEMMA FiltersUnfold ==
  ASSUME NEW b, NEW left0, NEW q, NEW step
  PROVE  Filters(b, left0, q, step) =
           (CHOOSE f : Loops(f, b, left0, q, step))[IF left0 > 0 THEN left0 ELSE 0]
BY Zenon DEF Filters, Loops, AfterFilter, BeforeFilters

IsLoop(g, b, left0, q, step) ==
  /\ (IF left0 > 0 THEN left0 ELSE 0) \in Nat
  /\ DOMAIN g = Nat /\ g = [n \in Nat |-> g[n]] /\ g[0] = BeforeFilters(left0)
  /\ \A n \in Nat : g[n + 1] = AfterFilter(b, g[n], q, step)
Computes(g, b, left0, q, step) ==
  Filters(b, left0, q, step) = g[IF left0 > 0 THEN left0 ELSE 0]

(* There is one only, so the loop computes any that is found. *)
LEMMA LoopIs ==
  ASSUME NEW g, NEW b, NEW left0, NEW q, NEW step, IsLoop(g, b, left0, q, step)
  PROVE  Computes(g, b, left0, q, step)
<1>0. /\ (IF left0 > 0 THEN left0 ELSE 0) \in Nat
      /\ DOMAIN g = Nat /\ g = [n \in Nat |-> g[n]] /\ g[0] = BeforeFilters(left0)
      /\ \A n \in Nat : g[n + 1] = AfterFilter(b, g[n], q, step)
  BY Zenon DEF IsLoop
<1> DEFINE G(f) == [n \in Nat |-> IF n = 0 THEN BeforeFilters(left0)
                                  ELSE AfterFilter(b, f[n - 1], q, step)]
           h == CHOOSE f : Loops(f, b, left0, q, step)
           T == {n \in Nat : h[n] = g[n]}
<1>1. Loops(g, b, left0, q, step)
  <2>1. ASSUME NEW n \in Nat
        PROVE  g[n] = IF n = 0 THEN BeforeFilters(left0) ELSE AfterFilter(b, g[n - 1], q, step)
    <3>1. CASE n = 0
      BY <1>0, <3>1, Zenon
    <3>2. CASE n # 0
      <4>1. n - 1 \in Nat /\ (n - 1) + 1 = n
        BY <3>2
      <4>2. g[(n - 1) + 1] = AfterFilter(b, g[n - 1], q, step)
        BY <1>0, <4>1, Zenon
      <4> QED BY <3>2, <4>1, <4>2, Zenon
    <3> QED BY <3>1, <3>2
  <2>2. [n \in Nat |-> g[n]] = G(g)
    BY <2>1, Zenon
  <2> QED BY <1>0, <2>2, Zenon DEF Loops
<1>2. Loops(h, b, left0, q, step)
  BY <1>1, Zenon
<1> HIDE DEF h
<1>3. h = G(h)
  BY <1>2, Zenon DEF Loops
<1>4. ASSUME NEW n \in Nat
      PROVE  h[n] = IF n = 0 THEN BeforeFilters(left0) ELSE AfterFilter(b, h[n - 1], q, step)
  <2>1. G(h)[n] = IF n = 0 THEN BeforeFilters(left0) ELSE AfterFilter(b, h[n - 1], q, step)
    BY Zenon
  <2> HIDE DEF G
  <2> QED BY <1>3, <2>1, Zenon
<1>5. 0 \in T
  <2>1. h[0] = BeforeFilters(left0)
    BY <1>4
  <2> QED BY <1>0, <2>1
<1>6. ASSUME NEW n \in Nat, n \in T
      PROVE  n + 1 \in T
  <2>1. n + 1 \in Nat /\ n + 1 # 0 /\ (n + 1) - 1 = n
    OBVIOUS
  <2>2. h[n + 1] = AfterFilter(b, h[(n + 1) - 1], q, step)
    BY <1>4, <2>1
  <2>3. h[n + 1] = AfterFilter(b, g[n], q, step)
    BY <1>6, <2>1, <2>2, Zenon
  <2>4. h[n + 1] = g[n + 1]
    BY <1>0, <2>3, Zenon
  <2> QED BY <2>1, <2>4
<1>7. Nat \subseteq T
  <2> HIDE DEF T
  <2> QED BY <1>5, <1>6, InductiveSet
<1> DEFINE m == IF left0 > 0 THEN left0 ELSE 0
<1>8. h[m] = g[m]
  <2>1. m \in Nat
    BY <1>0, Zenon
  <2> HIDE DEF m
  <2> QED BY <1>7, <2>1
<1> QED BY <1>8, FiltersUnfold, Zenon DEF h, Computes
(* What the loop finds in the filters as they are written: it has read the first
   "stop" of them, and that is where its count of what is left, which is a byte
   less than there is for each filter without a QoS, is used up. *)
Left(fs, q, k) ==
  Len(Sq!FlattenSeq(Written(fs, q))) - Len(Upto(Written(fs, q), k)) - (IF q = 1 THEN 0 ELSE k)
Round(fs, q, k) ==
  [at |-> 2 + Len(Upto(Written(fs, q), k)), left |-> Left(fs, q, k), filters |-> SubSeq(fs, 1, k)]

(* One more filter is longer by its path, its length and its QoS. *)
LEMMA UptoIsLonger ==
  ASSUME NEW fs \in FilterList, NEW q \in {0, 1}, NEW k \in Nat, k < Len(fs)
  PROVE  LET a == Len(Upto(Written(fs, q), k))   c == Len(fs[k + 1].path) IN
         /\ a \in Nat /\ c \in Nat /\ Len(Upto(Written(fs, q), k + 1)) = a + (2 + c + q)
         /\ Left(fs, q, k + 1) = Left(fs, q, k) - c - 3 /\ Left(fs, q, k) \in Int
<1> DEFINE s == Written(fs, q)   u == Upto(s, k)   x == s[k + 1]   c == Len(fs[k + 1].path)
           v == u \o x           z == Len(Sq!FlattenSeq(s))
<1>1. /\ s \in Pieces /\ Len(s) = Len(fs) /\ Len(fs) \in Nat
      /\ \A i \in 1 .. Len(fs) : /\ fs[i] \in [path : Strings, qos : Byte]
                                 /\ s[i] = String(fs[i].path) \o QosPart(fs[i], q)
  BY FiltersAreWritten
<1>2. k + 1 \in 1 .. Len(fs) /\ k < Len(s)
  BY <1>1
<1>3. x \in Seq(Byte) /\ Len(x) = 2 + c + q /\ c \in Nat
  <2>1. fs[k + 1] \in [path : Strings, qos : Byte] /\ x = String(fs[k + 1].path) \o QosPart(fs[k + 1], q)
    BY <1>1, <1>2, Zenon
  <2> HIDE DEF x
  <2> QED BY <2>1, FilterIsWritten, Zenon
<1>4. u \in Seq(Byte) /\ Upto(s, k + 1) = v
  <2> HIDE DEF s
  <2> QED BY <1>1, <1>2, UptoNext, Zenon
<1>5. z \in Nat
  <2>1. Sq!FlattenSeq(s) \in Seq(Byte)
    BY <1>1, FlattenIsBytes, Zenon
  <2> HIDE DEF s
  <2> QED BY <2>1
<1> HIDE DEF x, u
<1>6. Len(v) = Len(u) + Len(x) /\ Len(u) \in Nat
  BY <1>3, <1>4, Concat, Zenon
<1> HIDE DEF v
<1>7. Len(Upto(s, k + 1)) = Len(u) + (2 + c + q)
  BY <1>3, <1>4, <1>6, Zenon
<1>8. /\ Left(fs, q, k) = z - Len(u) - (IF q = 1 THEN 0 ELSE k)
      /\ Left(fs, q, k + 1) = z - (Len(u) + (2 + c + q)) - (IF q = 1 THEN 0 ELSE k + 1)
  BY <1>7, Zenon DEF Left, u
<1> HIDE DEF z, c
<1> DEFINE a == Len(u)
<1>9. a \in Nat
  BY <1>6
<1> HIDE DEF a
<1>10. /\ z - a - (IF q = 1 THEN 0 ELSE k) \in Int
       /\ z - (a + (2 + c + q)) - (IF q = 1 THEN 0 ELSE k + 1)
            = z - a - (IF q = 1 THEN 0 ELSE k) - c - 3
  <2>1. CASE q = 0
    BY <1>3, <1>5, <1>9, <2>1
  <2>2. CASE q = 1
    BY <1>3, <1>5, <1>9, <2>2
  <2> QED BY <2>1, <2>2
<1> QED BY <1>3, <1>6, <1>7, <1>8, <1>10, Zenon DEF a, c, u

(* The count at the start and at the end. *)
LEMMA LeftEnds ==
  ASSUME NEW fs \in FilterList, NEW q \in {0, 1}
  PROVE  LET z == Len(Sq!FlattenSeq(Written(fs, q)))   n == Len(fs) IN
         /\ z \in Nat /\ n \in Nat
         /\ Left(fs, q, 0) = z /\ Len(Upto(Written(fs, q), 0)) = 0
         /\ Left(fs, q, n) = IF q = 1 THEN 0 ELSE -n
         /\ Upto(Written(fs, q), n) = Sq!FlattenSeq(Written(fs, q))
<1> DEFINE s == Written(fs, q)   z == Len(Sq!FlattenSeq(s))   n == Len(fs)
<1>1. s \in Pieces /\ Len(s) = n /\ n \in Nat
  BY FiltersAreWritten
<1> HIDE DEF s
<1>2. Upto(s, 0) = <<>> /\ Upto(s, n) = Sq!FlattenSeq(s)
  BY <1>1, UptoEnds, Zenon
<1>3. z \in Nat
  <2>1. Sq!FlattenSeq(s) \in Seq(Byte)
    BY <1>1, FlattenIsBytes, Zenon
  <2> QED BY <2>1
<1>4. Len(Upto(s, 0)) = 0 /\ Len(Upto(s, n)) = z
  BY <1>2
<1>5. /\ Left(fs, q, 0) = z - 0 - (IF q = 1 THEN 0 ELSE 0)
      /\ Left(fs, q, n) = z - z - (IF q = 1 THEN 0 ELSE n)
  BY <1>4, Zenon DEF Left, s
<1> HIDE DEF z, n
<1>6. Left(fs, q, 0) = z /\ Left(fs, q, n) = IF q = 1 THEN 0 ELSE -n
  BY <1>1, <1>3, <1>5
<1> QED BY <1>1, <1>2, <1>3, <1>4, <1>6, Zenon DEF s, z, n
(* One round of the loop. *)
LEMMA RoundIsRead ==
  ASSUME NEW fs \in FilterList, NEW q \in {0, 1}, q = 0 => \A i \in 1 .. Len(fs) : fs[i].qos = 0,
         NEW w \in Seq(Byte), Len(w) = 2, NEW rest \in Seq(Byte),
         NEW k \in Nat, k < Len(fs), Left(fs, q, k) > 0
  PROVE  AfterFilter((w \o Sq!FlattenSeq(Written(fs, q))) \o rest, Round(fs, q, k), q, 3)
           = Round(fs, q, k + 1)
<1> DEFINE s == Written(fs, q)   b == (w \o Sq!FlattenSeq(s)) \o rest   f == fs[k + 1]
           at == 2 + Len(Upto(s, k))   next == at + 2 + Len(f.path) + q
           r == Round(fs, q, k)        l == Left(fs, q, k)
           qos == IF q = 1 THEN b[next] ELSE 0
           more == [at |-> next, left |-> l - Len(f.path) - 3,
                    filters |-> Append(SubSeq(fs, 1, k), [path |-> f.path, qos |-> qos])]
<1>1. /\ at \in Nat /\ f \in [path : Strings, qos : Byte]
      /\ StringAt(b, at) = f.path
      /\ 2 + Len(Upto(s, k + 1)) = next
      /\ q = 1 => b[next] = f.qos
  <2>1. Stands(fs, q, w, rest, k)
    BY FilterAt, Zenon
  <2> QED BY <2>1, Zenon DEF Stands
<1>2. Left(fs, q, k + 1) = l - Len(f.path) - 3 /\ l \in Int
  BY UptoIsLonger, Zenon
<1>3. k + 1 \in 1 .. Len(fs) /\ Len(fs) \in Nat
  BY DEF FilterList
<1>4. qos = f.qos
  <2>1. q = 0 => f.qos = 0
    BY <1>3
  <2> HIDE DEF f, b, next
  <2> QED BY <1>1, <2>1
<1>5. f = [path |-> f.path, qos |-> f.qos]
  <2> HIDE DEF f
  <2> QED BY <1>1
<1>6. SubSeq(fs, 1, k + 1) = Append(SubSeq(fs, 1, k), f)
  <2> DEFINE F == [path : Strings, qos : Byte]
  <2>1. fs \in Seq(F)
    BY DEF FilterList
  <2> HIDE DEF F
  <2> QED BY <1>3, <2>1
<1>7. r.at = at /\ r.left = l /\ r.filters = SubSeq(fs, 1, k)
  BY DEF Round
<1>8. ~(l <= 0)
  BY <1>2
<1>9. AfterFilter(b, r, q, 3) =
        IF l <= 0 THEN r
        ELSE [at |-> next, left |-> l - Len(f.path) - 3,
              filters |-> Append(SubSeq(fs, 1, k), [path |-> f.path, qos |-> qos])]
  <2> HIDE DEF b, r, at, l, f
  <2> QED BY <1>1, <1>7, Zenon DEF AfterFilter
<1>10. AfterFilter(b, r, q, 3) = more
  <2> HIDE DEF b, r, l, f, next, qos
  <2> QED BY <1>8, <1>9, Zenon
<1>11. more = Round(fs, q, k + 1)
  <2>1. Append(SubSeq(fs, 1, k), [path |-> f.path, qos |-> qos]) = SubSeq(fs, 1, k + 1)
    <3> HIDE DEF f, qos
    <3> QED BY <1>4, <1>5, <1>6, Zenon
  <2> HIDE DEF f, l, next, qos
  <2> QED BY <1>1, <1>2, <2>1, Zenon DEF Round, s
<1> HIDE DEF more, b, r
<1> QED BY <1>10, <1>11, Zenon DEF b, r

(* The loop stops at the first filter that finds its count used up. *)
LEMMA FiltersAreRead ==
  ASSUME NEW fs \in FilterList, NEW q \in {0, 1}, q = 0 => \A i \in 1 .. Len(fs) : fs[i].qos = 0,
         NEW w \in Seq(Byte), Len(w) = 2, NEW rest \in Seq(Byte)
  PROVE  LET z == Sq!FlattenSeq(Written(fs, q)) IN
         \E stop \in Nat :
           /\ stop <= Len(fs) /\ Left(fs, q, stop) <= 0
           /\ \A k \in Nat : k < stop => Left(fs, q, k) > 0
           /\ Filters((w \o z) \o rest, Len(z), q, 3) = Round(fs, q, stop)
<1> DEFINE z == Sq!FlattenSeq(Written(fs, q))   n == Len(fs)   b == (w \o z) \o rest
           lz == Len(z)   L(k) == Left(fs, q, k)
           T == {k \in Nat : k <= n /\ L(k) <= 0}
<1>1. /\ lz \in Nat /\ n \in Nat /\ L(0) = lz /\ L(n) = IF q = 1 THEN 0 ELSE -n
      /\ Len(Upto(Written(fs, q), 0)) = 0
  BY LeftEnds, Zenon
<1> HIDE DEF lz
<1>2. \A k \in Nat : k <= n => L(k) \in Int
  <2> SUFFICES ASSUME NEW k \in Nat, k <= n PROVE L(k) \in Int
    OBVIOUS
  <2>1. CASE k = n
    BY <1>1, <2>1
  <2>2. CASE k # n
    <3>1. k < n
      BY <1>1, <2>2
    <3> QED BY <3>1, UptoIsLonger, Zenon
  <2> QED BY <2>1, <2>2
<1> HIDE DEF L, n
<1>3. n \in T
  BY <1>1
<1>4. PICK stop \in T : \A k \in T : stop <= k
  <2>1. T \subseteq Nat
    OBVIOUS
  <2> HIDE DEF T
  <2> QED BY <1>3, <2>1, LeastOf
<1>5. stop \in Nat /\ stop <= n /\ L(stop) <= 0
  BY <1>4
<1>6. \A k \in Nat : k < stop => L(k) > 0
  BY <1>1, <1>2, <1>4, <1>5
<1> DEFINE R(k) == Round(fs, q, k)
           g == [k \in Nat |-> R(IF k <= stop THEN k ELSE stop)]
<1>7. g[0] = BeforeFilters(lz)
  <2>1. g[0] = R(0)
    BY <1>5
  <2>2. SubSeq(fs, 1, 0) = <<>>
    BY DEF FilterList
  <2>3. Left(fs, q, 0) = lz
    BY <1>1, Zenon DEF L
  <2>4. R(0) = [at |-> 2, left |-> lz, filters |-> <<>>]
    BY <1>1, <2>2, <2>3 DEF Round
  <2> HIDE DEF g, R
  <2> QED BY <2>1, <2>4, Zenon DEF BeforeFilters
<1>8. ASSUME NEW k \in Nat
      PROVE  g[k + 1] = AfterFilter(b, g[k], q, 3)
  <2>1. CASE k < stop
    <3>1. g[k] = R(k) /\ g[k + 1] = R(k + 1)
      BY <1>5, <2>1
    <3>2. k < Len(fs) /\ Left(fs, q, k) > 0
      BY <1>1, <1>5, <1>6, <2>1 DEF L, n
    <3>3. AfterFilter(b, R(k), q, 3) = R(k + 1)
      BY <3>2, RoundIsRead, Zenon
    <3> HIDE DEF g, R
    <3> QED BY <3>1, <3>3, Zenon
  <2>2. CASE ~(k < stop)
    <3>1. g[k] = R(stop) /\ g[k + 1] = R(stop)
      BY <1>5, <2>2
    <3>2. R(stop).left <= 0
      BY <1>5 DEF Round, L
    <3> HIDE DEF g, R
    <3>3. AfterFilter(b, R(stop), q, 3) = R(stop)
      BY <3>2, Zenon DEF AfterFilter
    <3> QED BY <3>1, <3>3, Zenon
  <2> QED BY <2>1, <2>2
<1>9. stop <= lz
  <2> DEFINE S == {k \in Nat : k <= n => k <= Len(Upto(Written(fs, q), k))}
  <2>1. 0 \in S
    BY <1>1
  <2>2. ASSUME NEW k \in Nat, k \in S
        PROVE  k + 1 \in S
    <3>1. CASE k + 1 <= n
      <4> DEFINE a == Len(Upto(Written(fs, q), k))   c == Len(fs[k + 1].path)
      <4>1. k < n
        BY <1>1, <3>1
      <4>2. a \in Nat /\ c \in Nat /\ Len(Upto(Written(fs, q), k + 1)) = a + (2 + c + q)
        <5>1. k < Len(fs)
          BY <4>1 DEF n
        <5> QED BY <5>1, UptoIsLonger, Zenon
      <4>3. k <= a
        BY <1>1, <2>2, <4>1
      <4> HIDE DEF a, c
      <4>4. k + 1 <= a + (2 + c + q)
        BY <4>2, <4>3
      <4> QED BY <4>2, <4>4
    <3>2. CASE ~(k + 1 <= n)
      BY <3>2
    <3> QED BY <3>1, <3>2
  <2>3. Nat \subseteq S
    <3> HIDE DEF S
    <3> QED BY <2>1, <2>2, InductiveSet
  <2>4. CASE stop = 0
    BY <1>1, <2>4
  <2>5. CASE stop # 0
    <3> DEFINE k == stop - 1   a == Len(Upto(Written(fs, q), k))
    <3>1. k \in Nat /\ k < stop /\ k <= n
      BY <1>1, <1>5, <2>5
    <3>2. L(k) > 0 /\ k <= a
      BY <1>6, <2>3, <3>1
    <3>3. a \in Nat
      <4>1. k < Len(fs)
        BY <1>1, <1>5, <2>5 DEF n
      <4> HIDE DEF k
      <4> QED BY <3>1, <4>1, UptoIsLonger, Zenon
    <3>4. L(k) = lz - a - (IF q = 1 THEN 0 ELSE k)
      BY Zenon DEF L, Left, lz
    <3> HIDE DEF a
    <3> QED BY <1>1, <1>5, <3>1, <3>2, <3>3, <3>4
  <2> QED BY <2>4, <2>5
<1>10. (IF lz > 0 THEN lz ELSE 0) = lz
  BY <1>1
<1>11. Filters(b, lz, q, 3) = g[lz]
  <2>1. DOMAIN g = Nat /\ g = [k \in Nat |-> g[k]]
    OBVIOUS
  <2>2. (IF lz > 0 THEN lz ELSE 0) \in Nat
    BY <1>1
  <2> HIDE DEF g, b
  <2>3. IsLoop(g, b, lz, q, 3)
    BY <1>7, <1>8, <2>1, <2>2, Zenon DEF IsLoop
  <2>4. Computes(g, b, lz, q, 3)
    BY <2>3, LoopIs, Zenon
  <2> QED BY <1>10, <2>4, Zenon DEF Computes
<1>12. g[lz] = R(stop)
  <2>1. (IF lz <= stop THEN lz ELSE stop) = stop
    BY <1>1, <1>5, <1>9
  <2>2. g[lz] = R(IF lz <= stop THEN lz ELSE stop)
    BY <1>1
  <2> HIDE DEF g, R
  <2> QED BY <2>1, <2>2, Zenon
<1>13. Filters(b, lz, q, 3) = R(stop)
  <2> HIDE DEF g, R, b
  <2> QED BY <1>11, <1>12, Zenon
<1> HIDE DEF b
<1> QED BY <1>5, <1>6, <1>13, Zenon DEF b, lz, L, n, R

(* What is left falls with each filter. *)
LEMMA LeftFalls ==
  ASSUME NEW fs \in FilterList, NEW q \in {0, 1}, NEW j \in Nat, NEW k \in Nat, j < k, k <= Len(fs)
  PROVE  Left(fs, q, k) <= Left(fs, q, j) - 3
<1> DEFINE L(i) == Left(fs, q, i)
           S == {i \in Nat : j < i /\ i <= Len(fs) => L(i) <= L(j) - 3}
<1>0. Len(fs) \in Nat
  BY DEF FilterList
<1>1. 0 \in S
  OBVIOUS
<1>2. ASSUME NEW i \in Nat, i \in S
      PROVE  i + 1 \in S
  <2>1. CASE j < i + 1 /\ i + 1 <= Len(fs)
    <3> DEFINE c == Len(fs[i + 1].path)
    <3>1. i < Len(fs) /\ j < Len(fs)
      BY <1>0, <2>1
    <3>2. c \in Nat /\ L(i + 1) = L(i) - c - 3 /\ L(i) \in Int
      BY <3>1, UptoIsLonger, Zenon
    <3>3. L(j) \in Int
      BY <3>1, UptoIsLonger, Zenon
    <3> HIDE DEF c, L
    <3>4. CASE i = j
      BY <3>2, <3>4
    <3>5. CASE i # j
      <4>1. j < i /\ i <= Len(fs)
        BY <1>0, <2>1, <3>5
      <4>2. L(i) <= L(j) - 3
        BY <1>2, <4>1
      <4> QED BY <3>2, <3>3, <4>2
    <3> QED BY <3>4, <3>5
  <2>2. CASE ~(j < i + 1 /\ i + 1 <= Len(fs))
    BY <2>2
  <2> QED BY <2>1, <2>2
<1>3. Nat \subseteq S
  <2> HIDE DEF S
  <2> QED BY <1>1, <1>2, InductiveSet
<1>4. k \in S
  <2> HIDE DEF S
  <2> QED BY <1>3
<1> HIDE DEF L
<1>5. L(k) <= L(j) - 3
  BY <1>4
<1> QED BY <1>5, Zenon DEF L

(* So the loop ends with the last filter of a SUBSCRIBE, and of an UNSUBSCRIBE
   that does not overrun. *)
LEMMA LoopEnds ==
  ASSUME NEW fs \in FilterList, NEW q \in {0, 1}, NEW stop \in Nat, stop <= Len(fs),
         Left(fs, q, stop) <= 0, \A k \in Nat : k < stop => Left(fs, q, k) > 0
  PROVE  /\ q = 1 => stop = Len(fs)
         /\ q = 0 /\ Len(fs) # 0 => LET c == Len(fs[Len(fs)].path) IN
              /\ c \in Nat
              /\ ~(Len(fs) >= c + 3) => stop = Len(fs)
              /\ Len(fs) >= c + 3 => stop < Len(fs) /\ Len(fs[stop + 1].path) <= Len(fs) - 3
<1> DEFINE L(i) == Left(fs, q, i)   n == Len(fs)
<1>1. n \in Nat /\ L(n) = IF q = 1 THEN 0 ELSE -n
  BY LeftEnds, Zenon
<1>2. \A k \in Nat : stop < k /\ k <= n => L(k) <= L(stop) - 3
  BY LeftFalls, Zenon
<1>3. \A k \in Nat : k < n => /\ Len(fs[k + 1].path) \in Nat /\ L(k) \in Int
                              /\ L(k + 1) = L(k) - Len(fs[k + 1].path) - 3
  BY UptoIsLonger, Zenon
<1>4. L(stop) <= 0 /\ \A k \in Nat : k < stop => L(k) > 0
  OBVIOUS
<1> HIDE DEF L
<1>5. L(stop) \in Int
  <2>1. CASE stop = n
    BY <1>1, <2>1
  <2>2. CASE stop # n
    <3>1. stop < n
      BY <1>1, <2>2
    <3> QED BY <1>3, <3>1, Zenon
  <2> QED BY <2>1, <2>2
<1>6. ASSUME q = 1
      PROVE  stop = n
  <2>1. CASE stop < n
    <3>1. L(n) <= L(stop) - 3
      BY <1>1, <1>2, <2>1
    <3> HIDE DEF n
    <3> QED BY <1>1, <1>4, <1>5, <1>6, <3>1
  <2> QED BY <1>1, <2>1
<1>7. ASSUME q = 0, n # 0
      PROVE  LET c == Len(fs[n].path) IN
             /\ c \in Nat
             /\ ~(n >= c + 3) => stop = n
             /\ n >= c + 3 => stop < n /\ Len(fs[stop + 1].path) <= n - 3
  <2> DEFINE k == n - 1   c == Len(fs[n].path)
  <2>1. k \in Nat /\ k < n /\ k + 1 = n
    BY <1>1, <1>7
  <2>2. Len(fs[k + 1].path) \in Nat /\ L(k) \in Int /\ L(k + 1) = L(k) - Len(fs[k + 1].path) - 3
    BY <1>3, <2>1, Zenon
  <2>3. c \in Nat /\ L(n) = L(k) - c - 3
    BY <2>1, <2>2, Zenon
  <2>4. L(k) = c + 3 - n
    <3>1. L(k) \in Int /\ L(n) = -n
      BY <1>1, <1>7, <2>2
    <3> HIDE DEF c, k, n
    <3> QED BY <1>1, <2>3, <3>1
  <2>5. ~(n >= c + 3) => stop = n
    <3> SUFFICES ASSUME ~(n >= c + 3), stop < n PROVE FALSE
      BY <1>1
    <3>1. L(k) > 0
      <4> HIDE DEF c, k, n
      <4> QED BY <1>1, <2>3, <2>4
    <3>2. stop = k \/ stop < k
      BY <1>1
    <3>3. stop # k
      BY <1>4, <1>5, <3>1
    <3>4. L(k) <= L(stop) - 3
      <4>1. k <= n
        BY <1>1
      <4> HIDE DEF k, n
      <4> QED BY <1>2, <2>1, <3>2, <3>3, <4>1
    <3> HIDE DEF k
    <3> QED BY <1>4, <1>5, <2>2, <3>1, <3>4
  <2>6. ASSUME n >= c + 3
        PROVE  stop < n /\ Len(fs[stop + 1].path) <= n - 3
    <3>1. L(k) <= 0
      <4> HIDE DEF c, k, n
      <4> QED BY <1>1, <2>3, <2>4, <2>6
    <3>2. stop < n
      <4>1. ~(k < stop)
        BY <1>4, <2>1, <2>2, <3>1
      <4> QED BY <1>1, <4>1
    <3> DEFINE d == Len(fs[stop + 1].path)
    <3>3. d \in Nat /\ L(stop + 1) = L(stop) - d - 3
      BY <1>3, <3>2, Zenon
    <3>4. L(n) <= L(stop + 1)
      <4>1. CASE stop + 1 = n
        BY <1>1, <4>1
      <4>2. CASE stop + 1 # n
        <5>1. stop + 1 < n /\ stop + 1 \in Nat /\ n <= Len(fs)
          BY <1>1, <3>2, <4>2
        <5>2. L(n) <= L(stop + 1) - 3
          BY <1>1, <5>1, LeftFalls, Zenon DEF L
        <5>3. L(stop + 1) \in Int
          BY <1>3, <5>1
        <5> HIDE DEF n
        <5> QED BY <1>1, <5>2, <5>3
      <4> QED BY <4>1, <4>2
    <3>5. L(n) = -n
      BY <1>1, <1>7
    <3> HIDE DEF d, n
    <3>6. d \in Nat /\ L(stop + 1) = L(stop) - d - 3
      BY <3>3, Zenon DEF d
    <3>7. d <= n - 3
      BY <1>1, <1>4, <1>5, <3>4, <3>5, <3>6
    <3> QED BY <3>2, <3>7, Zenon DEF d
  <2> QED BY <2>3, <2>5, <2>6
<1> QED BY <1>6, <1>7, Zenon

(* The start of a body that begins with an identifier. *)
Identified(id, z) ==
  LET w == Word(id)   c == w \o z IN
  /\ w \in Seq(Byte) /\ Len(w) = 2 /\ c \in Seq(Byte) /\ Len(c) = 2 + Len(z) /\ Len(z) \in Nat
  /\ \A rest \in Seq(Byte) : WordAt(c \o rest, 0) = id

(* That identifier is read back. *)
LEMMA IdentifiedBody ==
  ASSUME NEW id \in Words, NEW z \in Seq(Byte)
  PROVE  Identified(id, z)
<1> DEFINE w == Word(id)   c == w \o z
<1>1. w \in Seq(Byte) /\ Len(w) = 2
  BY WordFirst, Zenon
<1>2. c \in Seq(Byte) /\ Len(c) = 2 + Len(z) /\ Len(z) \in Nat
  <2>1. c \in Seq(Byte) /\ Len(c) = Len(w) + Len(z) /\ Len(z) \in Nat
    BY <1>1, Concat, Zenon
  <2> HIDE DEF c, w
  <2> QED BY <1>1, <2>1
<1>3. ASSUME NEW rest \in Seq(Byte)
      PROVE  WordAt(c \o rest, 0) = id
  <2> DEFINE zr == z \o rest
  <2>1. zr \in Seq(Byte)
    BY Concat, Zenon
  <2> HIDE DEF zr
  <2>2. WordAt(w \o zr, 0) = id
    BY <2>1, WordFirst, Zenon
  <2>3. Associates(w, z, rest)
    <3>1. Three(w, z, rest)
      BY <1>1, Zenon DEF Three
    <3> HIDE DEF w
    <3> QED BY <3>1, AssocOf, ZenonT(30)
  <2>4. c \o rest = w \o zr
    BY <2>3, ZenonT(30) DEF Associates, zr
  <2> QED BY <2>2, <2>4, Zenon
<1> HIDE DEF w, c
<1> QED BY <1>1, <1>2, <1>3, Zenon DEF w, c, Identified

(* The parts of a SUBSCRIBE. *)
LEMMA SubscribeParts ==
  ASSUME NEW p \in Subscribes
  PROVE  LET z == Sq!FlattenSeq(Written(p.filters, 1)) IN
         /\ p.type = "subscribe" /\ p.id \in Words /\ p.filters \in FilterList
         /\ z \in Seq(Byte) /\ Body(p, 16) = Word(p.id) \o z /\ Identified(p.id, z)
<1> DEFINE fs == p.filters   s == Written(fs, 1)   z == Sq!FlattenSeq(s)   w == Word(p.id)
           c == w \o z
<1>1. p.type = "subscribe" /\ p.id \in Words /\ fs \in FilterList
  BY DEF Subscribes, FilterList
<1>3. Body(p, 16) = c
  <2>1. Body(p, 16) = SubscribeBody(p)
    BY <1>1 DEF Body, Acks, NoBody
  <2>2. DOMAIN p.filters = 1 .. Len(p.filters)
    BY <1>1 DEF FilterList
  <2>3. [i \in DOMAIN p.filters |-> String(p.filters[i].path) \o <<p.filters[i].qos>>] = s
    BY <2>2, Zenon DEF Written, QosPart
  <2>4. SubscribeBody(p) = c
    <3> HIDE DEF s
    <3> QED BY <2>3, Zenon DEF SubscribeBody
  <2> QED BY <2>1, <2>4, Zenon
<1>4. z \in Seq(Byte)
  <2>1. s \in Pieces
    <3>1. 1 \in {0, 1}
      OBVIOUS
    <3> HIDE DEF fs
    <3> QED BY <1>1, <3>1, FiltersAreWritten, Zenon
  <2> HIDE DEF s
  <2> QED BY <2>1, FlattenIsBytes, Zenon
<1>5. Identified(p.id, z)
  <2> HIDE DEF z
  <2> QED BY <1>1, <1>4, IdentifiedBody, Zenon
<1> QED BY <1>1, <1>3, <1>4, <1>5, Zenon

(* SUBSCRIBE is read as it was sent. *)
LEMMA SubscribeIsRead ==
  ASSUME NEW p \in Subscribes
  PROVE  Reads(p)
<1> DEFINE fs == p.filters   s == Written(fs, 1)   z == Sq!FlattenSeq(s)   w == Word(p.id)
           c == w \o z       n == Len(c)
<1>1. p.type = "subscribe" /\ p.id \in Words /\ fs \in FilterList
  BY SubscribeParts, Zenon
<1>2. p = [type |-> "subscribe", id |-> p.id, filters |-> p.filters]
  BY DEF Subscribes
<1>3. Body(p, 16) = c
  BY SubscribeParts, Zenon
<1>4. z \in Seq(Byte) /\ Identified(p.id, z)
  BY SubscribeParts, Zenon
<1> HIDE DEF z
<1>5. /\ w \in Seq(Byte) /\ Len(w) = 2 /\ c \in Seq(Byte) /\ n = 2 + Len(z) /\ Len(z) \in Nat
      /\ \A rest \in Seq(Byte) : WordAt(c \o rest, 0) = p.id
  BY <1>4, Zenon DEF Identified
<1> HIDE DEF n, c, w
<1>6. n - 2 = Len(z)
  BY <1>5
<1>7. ASSUME NEW rest \in Seq(Byte)
      PROVE  DecodeSubscribe(c \o rest, n) = Decoded(p, n)
  <2> DEFINE b == c \o rest   f == Filters(b, n - 2, 1, StepOfSubscribe)
  <2>1. PICK stop \in Nat :
          /\ stop <= Len(fs) /\ Left(fs, 1, stop) <= 0
          /\ \A k \in Nat : k < stop => Left(fs, 1, k) > 0
          /\ Filters((w \o z) \o rest, Len(z), 1, 3) = Round(fs, 1, stop)
    <3>1. 1 \in {0, 1} /\ ~(1 = 0)
      OBVIOUS
    <3> HIDE DEF fs
    <3> QED BY <1>1, <1>5, <3>1, FiltersAreRead, Zenon DEF z, s
  <2>2. stop = Len(fs)
    <3>1. 1 \in {0, 1}
      OBVIOUS
    <3> HIDE DEF fs
    <3> QED BY <1>1, <2>1, <3>1, LoopEnds, Zenon
  <2>3. f = Round(fs, 1, Len(fs))
    <3> HIDE DEF fs
    <3> QED BY <1>6, <2>1, <2>2, Zenon DEF c, StepOfSubscribe
  <2>4. SubSeq(fs, 1, Len(fs)) = fs
    <3> DEFINE F == [path : Strings, qos : Byte]
    <3>1. fs \in Seq(F)
      BY <1>1 DEF FilterList
    <3> HIDE DEF fs, F
    <3> QED BY <3>1
  <2>5. Upto(s, Len(fs)) = z
    <3>1. 1 \in {0, 1}
      OBVIOUS
    <3> HIDE DEF fs
    <3> QED BY <1>1, <3>1, LeftEnds, Zenon DEF z, s
  <2>6. f.at = n /\ f.filters = fs
    <3>1. f.at = 2 + Len(Upto(s, Len(fs))) /\ f.filters = SubSeq(fs, 1, Len(fs))
      <4> HIDE DEF fs, f
      <4> QED BY <2>3 DEF Round, s
    <3> HIDE DEF fs, f, s
    <3> QED BY <1>5, <2>4, <2>5, <3>1, Zenon
  <2>7. WordAt(b, 0) = p.id
    BY <1>5, Zenon
  <2>8. DecodeSubscribe(b, n) = Decoded([type |-> "subscribe", id |-> WordAt(b, 0), filters |-> f.filters], f.at)
    <3> HIDE DEF b
    <3> QED BY Zenon DEF DecodeSubscribe
  <2> HIDE DEF b, f
  <2>9. DecodeSubscribe(b, n) = Decoded(p, n)
    BY <1>2, <2>6, <2>7, <2>8, Zenon
  <2> QED BY <2>9, Zenon DEF b
<1>8. 8 \in DOMAIN PTypes /\ PTypes[8] = "subscribe"
  BY DEF PTypes
<1>9. Flags(p) \in 0 .. 15
  BY <1>1 DEF Flags
<1>10. FirstByte(p) \in Byte /\ FirstByte(p) \div 16 = 8
  BY <1>1, <1>8, <1>9, FirstByteIsRead, Zenon
<1>11. ASSUME NEW b PROVE Decode(FirstByte(p), n, b) = DecodeSubscribe(b, n)
  BY <1>8, <1>10 DEF Decode, Acks, NoBody
<1> QED BY <1>3, <1>5, <1>7, <1>10, <1>11, Zenon DEF Reads, n

(* UNSUBSCRIBE is read up to the filter where the loop ends. *)
LEMMA UnsubscribeParts ==
  ASSUME NEW p \in Unsubscribes
  PROVE  LET fs == p.filters   z == Sq!FlattenSeq(Written(fs, 0))   w == Word(p.id) IN
         /\ p.type = "unsubscribe" /\ p.id \in Words /\ fs \in FilterList /\ Len(fs) # 0
         /\ \A i \in 1 .. Len(fs) : fs[i].qos = 0
         /\ p = [type |-> "unsubscribe", id |-> p.id, filters |-> p.filters]
         /\ z \in Seq(Byte) /\ Body(p, 16) = w \o z /\ Identified(p.id, z)
         /\ FirstByte(p) \in Byte
         /\ \A n, b : Decode(FirstByte(p), n, b) = DecodeUnsubscribe(b, n)
<1> DEFINE fs == p.filters   s == Written(fs, 0)   z == Sq!FlattenSeq(s)   w == Word(p.id)
<1>1. p.type = "unsubscribe" /\ p.id \in Words /\ fs \in Seq([path : Strings, qos : {0}]) /\ fs # <<>>
  BY DEF Unsubscribes
<1>2. p = [type |-> "unsubscribe", id |-> p.id, filters |-> p.filters]
  BY DEF Unsubscribes
<1>3. /\ Len(fs) \in Nat /\ Len(fs) # 0
      /\ \A i \in 1 .. Len(fs) : fs[i] \in [path : Strings, qos : {0}]
      /\ fs = [i \in 1 .. Len(fs) |-> fs[i]]
  <2> DEFINE F == [path : Strings, qos : {0}]
  <2>1. fs \in Seq(F) /\ fs # <<>>
    BY <1>1
  <2> HIDE DEF F, fs
  <2>2. Len(fs) \in Nat /\ Len(fs) # 0 /\ (\A i \in 1 .. Len(fs) : fs[i] \in F)
        /\ fs = [i \in 1 .. Len(fs) |-> fs[i]]
    BY <2>1
  <2> QED BY <2>2, Zenon DEF F, fs
<1>4. \A i \in 1 .. Len(fs) : fs[i] \in [path : Strings, qos : Byte] /\ fs[i].qos = 0
  <2>1. 0 \in Byte
    BY DEF Byte
  <2> HIDE DEF fs
  <2> QED BY <1>3, <2>1
<1>5. fs \in FilterList
  <2> DEFINE F == [path : Strings, qos : Byte]
  <2>1. Len(fs) \in Nat /\ (\A i \in 1 .. Len(fs) : fs[i] \in F) /\ fs = [i \in 1 .. Len(fs) |-> fs[i]]
    BY <1>3, <1>4
  <2> HIDE DEF F, fs
  <2>2. fs \in Seq(F)
    BY <2>1
  <2> QED BY <2>2, Zenon DEF F, FilterList
<1>6. Body(p, 16) = w \o z
  <2>1. Body(p, 16) = UnsubscribeBody(p)
    BY <1>1 DEF Body, Acks, NoBody
  <2>2. DOMAIN p.filters = 1 .. Len(p.filters)
    BY <1>3
  <2>3. ASSUME NEW i \in 1 .. Len(p.filters)
        PROVE  String(p.filters[i].path) \o QosPart(p.filters[i], 0) = String(p.filters[i].path)
    <3> DEFINE x == String(p.filters[i].path)
    <3>1. x \in Seq(Byte)
      <4>1. p.filters[i].path \in Strings
        BY <1>4
      <4>2. <<>> \in Seq(Byte)
        OBVIOUS
      <4> HIDE DEF fs
      <4> QED BY <4>1, <4>2, StringIsRead, Zenon
    <3> HIDE DEF x
    <3>2. x \o <<>> = x
      BY <3>1
    <3>3. QosPart(p.filters[i], 0) = <<>>
      BY DEF QosPart
    <3> QED BY <3>2, <3>3, Zenon DEF x
  <2>4. [i \in DOMAIN p.filters |-> String(p.filters[i].path)] = s
    <3>1. [i \in 1 .. Len(p.filters) |-> String(p.filters[i].path)]
          = [i \in 1 .. Len(p.filters) |-> String(p.filters[i].path) \o QosPart(p.filters[i], 0)]
      BY <2>3, Zenon
    <3> QED BY <2>2, <3>1, Zenon DEF Written
  <2>5. UnsubscribeBody(p) = w \o z
    <3> HIDE DEF s
    <3> QED BY <2>4, Zenon DEF UnsubscribeBody
  <2> QED BY <2>1, <2>5, Zenon
<1>7. z \in Seq(Byte)
  <2>1. s \in Pieces
    <3>1. 0 \in {0, 1}
      OBVIOUS
    <3> HIDE DEF fs
    <3> QED BY <1>5, <3>1, FiltersAreWritten, Zenon
  <2> HIDE DEF s
  <2> QED BY <2>1, FlattenIsBytes, Zenon
<1>8. Identified(p.id, z)
  <2> HIDE DEF z
  <2> QED BY <1>1, <1>7, IdentifiedBody, Zenon
<1>9. 10 \in DOMAIN PTypes /\ PTypes[10] = "unsubscribe"
  BY DEF PTypes
<1>10. Flags(p) \in 0 .. 15
  BY <1>1 DEF Flags
<1>11. FirstByte(p) \in Byte /\ FirstByte(p) \div 16 = 10
  BY <1>1, <1>9, <1>10, FirstByteIsRead, Zenon
<1>12. ASSUME NEW n, NEW b PROVE Decode(FirstByte(p), n, b) = DecodeUnsubscribe(b, n)
  BY <1>9, <1>11 DEF Decode, Acks, NoBody
<1> HIDE DEF fs, z, w
<1> QED BY <1>1, <1>2, <1>3, <1>4, <1>5, <1>6, <1>7, <1>8, <1>11, <1>12, Zenon DEF fs, z, w, s

(* The decoder of UNSUBSCRIBE reads all filters, or leaves some in the stream
   (unsubscribe.go). *)
LEMMA UnsubscribeDecoded ==
  ASSUME NEW p \in Unsubscribes, NEW rest \in Seq(Byte)
  PROVE  LET fs == p.filters   c == Body(p, 16)   n == Len(c) IN
         \E stop \in Nat :
           /\ stop <= Len(fs)
           /\ ~Overruns(p) => stop = Len(fs)
           /\ Overruns(p) => stop < Len(fs) /\ Len(fs[stop + 1].path) <= Len(fs) - 3
           /\ Decode(FirstByte(p), n, c \o rest)
                = Decoded([type |-> "unsubscribe", id |-> p.id, filters |-> SubSeq(fs, 1, stop)],
                          2 + Len(Upto(Written(fs, 0), stop)))
<1> DEFINE fs == p.filters   s == Written(fs, 0)   z == Sq!FlattenSeq(s)   w == Word(p.id)
           c == w \o z       n == Len(c)           b == c \o rest
           f == Filters(b, n - 2, 0, StepOfUnsubscribe)
<1>1. /\ p.type = "unsubscribe" /\ fs \in FilterList /\ Len(fs) # 0
      /\ \A i \in 1 .. Len(fs) : fs[i].qos = 0
      /\ z \in Seq(Byte) /\ Body(p, 16) = c /\ Identified(p.id, z)
      /\ \A m, x : Decode(FirstByte(p), m, x) = DecodeUnsubscribe(x, m)
  BY UnsubscribeParts, Zenon
<1> HIDE DEF fs, z
<1>2. /\ w \in Seq(Byte) /\ Len(w) = 2 /\ c \in Seq(Byte) /\ n = 2 + Len(z) /\ Len(z) \in Nat
      /\ WordAt(b, 0) = p.id
  BY <1>1, Zenon DEF Identified
<1> HIDE DEF n, c, w
<1>3. n - 2 = Len(z)
  BY <1>2
<1>4. PICK stop \in Nat :
        /\ stop <= Len(fs) /\ Left(fs, 0, stop) <= 0
        /\ \A k \in Nat : k < stop => Left(fs, 0, k) > 0
        /\ Filters((w \o z) \o rest, Len(z), 0, 3) = Round(fs, 0, stop)
  <2>1. 0 \in {0, 1}
    OBVIOUS
  <2> QED BY <1>1, <1>2, <2>1, FiltersAreRead, Zenon DEF z, s
<1>5. LET d == Len(fs[Len(fs)].path) IN
        /\ d \in Nat
        /\ ~(Len(fs) >= d + 3) => stop = Len(fs)
        /\ Len(fs) >= d + 3 => stop < Len(fs) /\ Len(fs[stop + 1].path) <= Len(fs) - 3
  <2>1. 0 \in {0, 1} /\ 0 = 0
    OBVIOUS
  <2> QED BY <1>1, <1>4, <2>1, LoopEnds, Zenon
<1>6. Overruns(p) <=> Len(fs) >= Len(fs[Len(fs)].path) + 3
  BY <1>1, Zenon DEF Overruns, fs
<1>7. f = Round(fs, 0, stop)
  BY <1>3, <1>4, Zenon DEF c, StepOfUnsubscribe
<1>8. DecodeUnsubscribe(b, n)
        = Decoded([type |-> "unsubscribe", id |-> WordAt(b, 0), filters |-> f.filters], f.at)
  <2> HIDE DEF b
  <2> QED BY Zenon DEF DecodeUnsubscribe
<1> HIDE DEF b, f
<1>9. f.filters = SubSeq(fs, 1, stop) /\ f.at = 2 + Len(Upto(s, stop))
  BY <1>7 DEF Round, s
<1>10. Decode(FirstByte(p), n, b)
         = Decoded([type |-> "unsubscribe", id |-> p.id, filters |-> SubSeq(fs, 1, stop)],
                   2 + Len(Upto(s, stop)))
  BY <1>1, <1>2, <1>8, <1>9, Zenon
<1> QED BY <1>1, <1>4, <1>5, <1>6, <1>10, Zenon DEF b, n, fs, s

(* When it leaves none, an UNSUBSCRIBE is read back. *)
LEMMA UnsubscribeIsRead ==
  ASSUME NEW p \in Unsubscribes, ~Overruns(p)
  PROVE  Reads(p)
<1> DEFINE fs == p.filters   s == Written(fs, 0)   z == Sq!FlattenSeq(s)   w == Word(p.id)
           c == Body(p, 16)
<1>1. /\ fs \in FilterList
      /\ p = [type |-> "unsubscribe", id |-> p.id, filters |-> p.filters]
      /\ z \in Seq(Byte) /\ c = w \o z /\ Identified(p.id, z) /\ FirstByte(p) \in Byte
  BY UnsubscribeParts, Zenon
<1>2. c \in Seq(Byte) /\ Len(c) = 2 + Len(z)
  BY <1>1, Zenon DEF Identified
<1>3. ASSUME NEW rest \in Seq(Byte)
      PROVE  Decode(FirstByte(p), Len(c), c \o rest) = Decoded(p, Len(c))
  <2>1. PICK stop \in Nat :
          /\ stop = Len(fs)
          /\ Decode(FirstByte(p), Len(c), c \o rest)
               = Decoded([type |-> "unsubscribe", id |-> p.id, filters |-> SubSeq(fs, 1, stop)],
                         2 + Len(Upto(s, stop)))
    BY UnsubscribeDecoded, Zenon
  <2>2. SubSeq(fs, 1, Len(fs)) = fs
    <3> DEFINE F == [path : Strings, qos : Byte]
    <3>1. fs \in Seq(F)
      BY <1>1 DEF FilterList
    <3> HIDE DEF fs, F
    <3> QED BY <3>1
  <2>3. Upto(s, Len(fs)) = z
    <3>1. 0 \in {0, 1}
      OBVIOUS
    <3> HIDE DEF fs
    <3> QED BY <1>1, <3>1, LeftEnds, Zenon
  <2> HIDE DEF s, z, c
  <2> QED BY <1>1, <1>2, <2>1, <2>2, <2>3, Zenon
<1> QED BY <1>1, <1>2, <1>3, Zenon DEF Reads

(* Behind a filter of less than 4096 bytes, what follows reads as an error. *)
Derails(stream) == stream \in Seq(Byte) /\ stream # <<>> /\ stream[1] \div 16 = 0

ShortStrings == {s \in Strings : Len(s) < 4096}
FewFilters(p) == Len(p.filters) <= 4098

(* Such a filter has the type 0. *)
LEMMA StringDerails ==
  ASSUME NEW s \in ShortStrings, NEW t \in Seq(Byte)
  PROVE  Derails(String(s) \o t)
<1> DEFINE n == Len(s)   w == Word(n)   x == String(s)   b == x \o t
<1>0. s \in Strings /\ s \in Seq(Byte) /\ n \in Nat /\ n \in Words
  BY SMT DEF Strings, ShortStrings
<1>1. n \in Words /\ n \in Nat /\ s \in Seq(Byte)
  BY <1>0
<1>2. w \in Seq(Byte) /\ Len(w) = 2
  BY <1>1, WordFirst, Zenon
<1>3. w[1] = n \div 256
  BY DEF Word
<1>4. w[1] \div 16 = 0
  <2>1. n < 4096 /\ n \in Nat
    BY SMT DEF ShortStrings, Strings
  <2> HIDE DEF n, w
  <2> QED BY <1>3, <2>1, SMT
<1> HIDE DEF w
<1>5. x = w \o s
  BY DEF String, w
<1>6. x \in Seq(Byte) /\ Len(x) = 2 + n
  <2>1. <<>> \in Seq(Byte)
    OBVIOUS
  <2> QED BY <1>0, <2>1, StringIsRead, Zenon
<1>7. x[1] = w[1]
  <2>1. (w \o s)[1] = w[1]
    BY <1>1, <1>2, ConcatProperties
  <2> QED BY <1>5, <2>1, Zenon
<1> HIDE DEF x
<1>8. b \in Seq(Byte) /\ Len(b) = Len(x) + Len(t) /\ Len(t) \in Nat
  BY <1>6, Concat, Zenon
<1>9. b[1] = x[1]
  BY <1>1, <1>6, ConcatProperties
<1>10. b # <<>>
  <2> HIDE DEF b, n
  <2> QED BY <1>1, <1>6, <1>8
<1> QED BY <1>4, <1>7, <1>8, <1>9, <1>10, Zenon DEF Derails, x

(* There is no packet of the type 0. *)
LEMMA DerailedIsRefused ==
  ASSUME NEW stream, Derails(stream), NEW maxLen
  PROVE  Parse(stream, maxLen).packet = Refused
<1>1. stream[1] \div 16 = 0 /\ 0 \notin DOMAIN PTypes
  BY DEF Derails, PTypes
<1>2. ASSUME NEW n, NEW b
      PROVE  Decode(stream[1], n, b).packet = Refused
  BY <1>1 DEF Decode, Decoded, Acks, NoBody
<1> DEFINE v == ReadVarint(Tail(stream))
           b == From(stream, 1 + v.used)
           d == Decode(stream[1], v.value, b)
<1>3. d.packet = Refused
  BY <1>2, Zenon
<1>4. Parse(stream, maxLen) = IF v = Overflow \/ (maxLen > 0 /\ v.value > maxLen)
                                THEN [packet |-> Refused, rest |-> b]
                                ELSE [packet |-> d.packet, rest |-> From(b, d.used)]
  BY Zenon DEF Parse
<1> HIDE DEF v, b, d
<1> QED BY <1>3, <1>4

(* More bytes behind it change nothing. *)
LEMMA DerailedStays ==
  ASSUME NEW s, Derails(s), NEW t \in Seq(Byte)
  PROVE  Derails(s \o t)
<1>1. s \in Seq(Byte) /\ s # <<>> /\ s[1] \div 16 = 0
  BY DEF Derails
<1> DEFINE b == s \o t
<1>2. b \in Seq(Byte) /\ Len(b) = Len(s) + Len(t) /\ Len(s) \in Nat /\ Len(t) \in Nat
  BY <1>1, Concat, Zenon
<1>3. b[1] = s[1]
  BY <1>1, ConcatProperties
<1>4. b # <<>>
  <2> HIDE DEF b
  <2> QED BY <1>1, <1>2
<1> QED BY <1>1, <1>2, <1>3, <1>4, Zenon DEF Derails

(* The filters that an UNSUBSCRIBE leaves are such a stream. *)
LEMMA UnsubscribeOverruns ==
  ASSUME NEW p \in Unsubscribes, Overruns(p), FewFilters(p), NEW rest \in Seq(Byte)
  PROVE  LET c == Body(p, 16)   d == Decode(FirstByte(p), Len(c), c \o rest) IN
         /\ FirstByte(p) \in Byte /\ c \in Seq(Byte)
         /\ d.packet.type = "unsubscribe" /\ d.packet.id = p.id
         /\ Derails(From(c \o rest, d.used))
<1> DEFINE fs == p.filters   s == Written(fs, 0)   z == Sq!FlattenSeq(s)   w == Word(p.id)
           c == Body(p, 16)  d == Decode(FirstByte(p), Len(c), c \o rest)
<1>1. /\ fs \in FilterList
      /\ z \in Seq(Byte) /\ c = w \o z /\ Identified(p.id, z) /\ FirstByte(p) \in Byte
  BY UnsubscribeParts, Zenon
<1>2. w \in Seq(Byte) /\ Len(w) = 2 /\ c \in Seq(Byte)
  BY <1>1, Zenon DEF Identified
<1>3. PICK k \in Nat :
        /\ k < Len(fs) /\ Len(fs[k + 1].path) <= Len(fs) - 3
        /\ d = Decoded([type |-> "unsubscribe", id |-> p.id, filters |-> SubSeq(fs, 1, k)],
                       2 + Len(Upto(s, k)))
  BY UnsubscribeDecoded, Zenon
<1> HIDE DEF d, c
<1> DEFINE at == 2 + Len(Upto(s, k))
<1>4. d.packet.type = "unsubscribe" /\ d.packet.id = p.id /\ d.used = at
  BY <1>3 DEF Decoded
<1> DEFINE f == fs[k + 1]   b == (w \o z) \o rest
<1>5. Stands(fs, 0, w, rest, k)
  <2>1. 0 \in {0, 1}
    OBVIOUS
  <2> HIDE DEF fs, w
  <2> QED BY <1>1, <1>2, <1>3, <2>1, FilterAt, Zenon
<1>6. /\ Len(f.path) \in Nat /\ f \in [path : Strings, qos : Byte]
      /\ \E pre, r \in Seq(Byte) : b = pre \o ((String(f.path) \o QosPart(f, 0)) \o r) /\ Len(pre) = at
  BY <1>5, Zenon DEF Stands
<1> HIDE DEF at, b
<1>7. PICK pre \in Seq(Byte), r \in Seq(Byte) :
        b = pre \o ((String(f.path) \o QosPart(f, 0)) \o r) /\ Len(pre) = at
  BY <1>6, Zenon
<1>8. f.path \in ShortStrings /\ f.path \in Strings
  <2> DEFINE l == Len(f.path)   n == Len(fs)
  <2>1. n \in Nat
    BY <1>1 DEF FilterList
  <2>2. n <= 4098
    BY SMT DEF FewFilters
  <2>3. l \in Nat /\ l <= n - 3
    BY <1>3, <1>6
  <2>4. l < 4096
    <3> HIDE DEF l, n
    <3> QED BY <2>1, <2>2, <2>3, SMT
  <2>5. f.path \in Strings
    BY <1>6
  <2> HIDE DEF f
  <2> QED BY <2>4, <2>5, SMT DEF ShortStrings
<1>9. String(f.path) \o QosPart(f, 0) = String(f.path) /\ String(f.path) \in Seq(Byte)
  <2> DEFINE x == String(f.path)
  <2>1. x \in Seq(Byte)
    <3>1. <<>> \in Seq(Byte)
      OBVIOUS
    <3> QED BY <1>8, <3>1, StringIsRead, Zenon
  <2> HIDE DEF x
  <2>2. x \o <<>> = x
    BY <2>1
  <2>3. QosPart(f, 0) = <<>>
    BY DEF QosPart
  <2> QED BY <2>1, <2>2, <2>3, Zenon DEF x
<1> DEFINE xr == String(f.path) \o r
<1>10. b = pre \o xr
  <2> HIDE DEF f
  <2> QED BY <1>7, <1>9, Zenon
<1>11. Derails(xr)
  <2> HIDE DEF f
  <2> QED BY <1>8, StringDerails, Zenon
<1>12. xr \in Seq(Byte)
  <2> HIDE DEF xr
  <2> QED BY <1>11, Zenon DEF Derails
<1> HIDE DEF xr
<1>13. From(pre \o xr, Len(pre)) = xr
  BY <1>12, Cut, Zenon
<1>14. c \o rest = b
  BY <1>1, Zenon DEF b
<1>15. Derails(From(c \o rest, d.used))
  BY <1>4, <1>7, <1>10, <1>11, <1>13, <1>14, Zenon
<1> QED BY <1>1, <1>2, <1>4, <1>15, Zenon DEF d, c

(* A SUBSCRIBE has a byte or more for each of its filters. *)
LEMMA SubscribeIsLong ==
  ASSUME NEW p \in Subscribes
  PROVE  Len(p.filters) \in Nat /\ Len(p.filters) + 2 <= Len(Body(p, 16))
<1> DEFINE fs == p.filters   n == Len(fs)   U(k) == Len(Upto(Written(fs, 1), k))
           T == {k \in Nat : k <= n => U(k) \in Nat /\ U(k) >= k}
           z == Sq!FlattenSeq(Written(fs, 1))   c == Body(p, 16)
<1>1. fs \in FilterList /\ z \in Seq(Byte) /\ c = Word(p.id) \o z /\ Identified(p.id, z)
  BY SubscribeParts, Zenon
<1>2. 1 \in {0, 1}
  OBVIOUS
<1> HIDE DEF fs
<1>3. n \in Nat /\ U(0) = 0 /\ U(n) = Len(z)
  <2>1. Len(fs) \in Nat /\ Len(Upto(Written(fs, 1), 0)) = 0
        /\ Upto(Written(fs, 1), Len(fs)) = Sq!FlattenSeq(Written(fs, 1))
    BY <1>1, <1>2, LeftEnds, Zenon
  <2> QED BY <2>1, Zenon
<1>4. \A k \in Nat : k < n => /\ U(k) \in Nat /\ Len(fs[k + 1].path) \in Nat
                              /\ U(k + 1) = U(k) + (2 + Len(fs[k + 1].path) + 1)
  BY <1>1, <1>2, UptoIsLonger, Zenon
<1> HIDE DEF n, U
<1>5. 0 \in T
  BY <1>3
<1>6. ASSUME NEW k \in Nat, k \in T
      PROVE  k + 1 \in T
  <2> DEFINE l == Len(fs[k + 1].path)
  <2>1. k < n => U(k) \in Nat /\ l \in Nat /\ U(k + 1) = U(k) + (2 + l + 1)
    BY <1>4
  <2> HIDE DEF l
  <2> QED BY <1>3, <1>6, <2>1
<1>7. Nat \subseteq T
  <2> HIDE DEF T
  <2> QED BY <1>5, <1>6, InductiveSet, Zenon
<1>8. U(n) >= n
  BY <1>3, <1>7
<1>9. Len(c) = 2 + Len(z) /\ Len(z) \in Nat
  BY <1>1, Zenon DEF Identified
<1> DEFINE m == Len(z)   l == Len(c)
<1> HIDE DEF m, l
<1>10. n + 2 <= l
  <2>1. m \in Nat /\ m >= n /\ l = 2 + m
    BY <1>3, <1>8, <1>9 DEF m, l
  <2> QED BY <1>3, <2>1
<1> QED BY <1>3, <1>10, Zenon DEF n, fs, l, c
=============================================================================
