---------------------------- MODULE PacketsProofs ----------------------------
(***************************************************************************)
(* A packet that is written is read back, whatever follows it; reading a   *)
(* stream does not depend on how much of it has come in; and the messages  *)
(* that are handed out are those that were sent, in order, as long as no   *)
(* packet is cut short.  The inductive invariant says what is in flight:   *)
(* the first bytes of the packets that are not delivered yet, of which the *)
(* holder of the lock has the others to write while the link is up.        *)
(***************************************************************************)
EXTENDS Packets, CodecProofs

----------------------------------------------------------------------------
(* The constants.                                                          *)

\* The bytes that are written as such.
LEMMA Fixed ==
  /\ Magic \in Seq(Byte) /\ Magic # <<>> /\ Len(Magic) = 4
  /\ \A c \in DOMAIN Name : Name[c] \in Seq(Byte) /\ Len(Name[c]) \in 1..7 /\ Utf8(Name[c])
<1>1. Byte = 0..255
  BY PacketsAssumption DEF Byte
<1>2. Magic \in Seq(Byte) /\ Magic # <<>> /\ Len(Magic) = 4
  BY <1>1 DEF Magic
<1>3. DOMAIN Name = {"ping", "pong", "addr", "getaddr", "version", "verack"}
  BY DEF Name
<1>4. ASSUME NEW c \in DOMAIN Name PROVE Name[c] \in Seq(Byte) /\ Len(Name[c]) \in 1..7 /\ Utf8(Name[c])
  <2>1. CASE c = "ping"
    BY <1>1, <2>1, PacketsAssumption DEF Name, Utf8
  <2>2. CASE c = "pong"
    BY <1>1, <2>2, PacketsAssumption DEF Name, Utf8
  <2>3. CASE c = "addr"
    BY <1>1, <2>3, PacketsAssumption DEF Name, Utf8
  <2>4. CASE c = "getaddr"
    BY <1>1, <2>4, PacketsAssumption DEF Name, Utf8
  <2>5. CASE c = "version"
    BY <1>1, <2>5, PacketsAssumption DEF Name, Utf8
  <2>6. CASE c = "verack"
    BY <1>1, <2>6, PacketsAssumption DEF Name, Utf8
  <2> QED BY <1>3, <2>1, <2>2, <2>3, <2>4, <2>5, <2>6
<1> QED BY <1>2, <1>4

\* No two messages have the same name.
LEMMA Names ==
  ASSUME NEW c \in DOMAIN Name, NEW d \in DOMAIN Name, Name[c] = Name[d]
  PROVE  c = d
<1>1. DOMAIN Name = {"ping", "pong", "addr", "getaddr", "version", "verack"}
  BY DEF Name
<1>2. /\ Len(Name["ping"]) = 4 /\ Name["ping"][1] = 112 /\ Name["ping"][2] = 105
      /\ Len(Name["pong"]) = 4 /\ Name["pong"][1] = 112 /\ Name["pong"][2] = 111
      /\ Len(Name["addr"]) = 4 /\ Name["addr"][1] = 97
      /\ Len(Name["getaddr"]) = 7 /\ Name["getaddr"][1] = 103
      /\ Len(Name["version"]) = 7 /\ Name["version"][1] = 118
      /\ Len(Name["verack"]) = 6
  BY DEF Name
<1> QED BY <1>1, <1>2

\* A length is below the bound of numbers of eight bytes.
LEMMA Lengths ==
  ASSUME NEW n \in Nat, IsLength(n)
  PROVE  n \in 0..(Base8 - 1) /\ n < Base8
<1>1. Base2 \in Nat \ {0} /\ Base4 \in Nat \ {0} /\ Base8 \in Nat \ {0}
      /\ Base4 = Base2 * Base2 /\ Base8 = Base4 * Base4
  BY Bases
<1>2. ASSUME NEW v \in Nat, NEW b \in Nat \ {0}, NEW c \in Nat \ {0}, Quo(v, b) < c PROVE v < b * c
  <2> DEFINE q == Quo(v, b)
  <2>1. q \in Nat /\ Rem(v, b) \in 0..(b - 1) /\ v = (b * q) + Rem(v, b)
    BY Division
  <2>2. q < c
    BY <1>2
  <2> HIDE DEF q
  <2>3. b * (q + 1) <= b * c
    BY <2>1, <2>2, SMT
  <2>4. b * (q + 1) = (b * q) + b /\ b * q \in Nat /\ b * c \in Nat
    BY <2>1, SMT
  <2> QED BY <2>1, <2>3, <2>4
<1>3. PICK x, y, z : x = Quo(n, Base2) /\ y = Quo(x, Base2) /\ z = Quo(y, Base2)
  OBVIOUS
<1>4. x \in Nat /\ y \in Nat /\ y = Quo(n, Base4)
  BY <1>1, <1>3, Division, Split
<1>5. z < Base2
  BY <1>3 DEF IsLength, Quo
<1>6. y < Base4
  BY <1>1, <1>2, <1>3, <1>4, <1>5
<1>7. n < Base8
  BY <1>1, <1>2, <1>4, <1>6
<1> QED BY <1>1, <1>7

----------------------------------------------------------------------------
(* Messages.                                                               *)

\* The kinds of messages.
LEMMA Kinds ==
  ASSUME NEW m \in Message
  PROVE  /\ m.cmd \in DOMAIN Name /\ m = [cmd |-> m.cmd, body |-> m.body]
         /\ \/ m.cmd \in {"ping", "pong"} /\ m.body \in Half \X Half
            \/ m.cmd = "addr" /\ m.body \in Seq(Address)
            \/ m.cmd \in {"getaddr", "version", "verack"} /\ m.body = Nothing
BY DEF Message, Name

\* The two halves of a nonce.
LEMMA NonceRoundTrip ==
  ASSUME NEW a \in Half, NEW b \in Half
  PROVE  /\ Le2(a) \o Le2(b) \in Seq(Byte)
         /\ ReadNonce(Le2(a) \o Le2(b)) = Got(<<a, b>>, <<>>)
<1>1. Base2 \in Nat \ {0} /\ a \in Nat /\ b \in Nat /\ a < Base2 /\ b < Base2
  BY Bases DEF Half
<1>2. PICK x, y, s : x = Le2(a) /\ y = Le2(b) /\ s = x \o y
  OBVIOUS
<1>3. x \in Seq(Byte) /\ Len(x) = 2 /\ y \in Seq(Byte) /\ Len(y) = 2
  BY <1>1, <1>2, LeTypes
<1>4. From2(x) = a /\ From2(y) = b
  BY <1>1, <1>2, ReadWritten, Ranges
<1>5. /\ s \in Seq(Byte) /\ Len(s) = 4
      /\ s[1] = x[1] /\ s[2] = x[2] /\ s[3] = y[1] /\ s[4] = y[2]
  <2>1. /\ s \in Seq(Byte) /\ Len(s) = Len(x) + Len(y)
        /\ \A i \in 1..Len(x) : s[i] = x[i]
        /\ \A i \in 1..Len(y) : s[Len(x) + i] = y[i]
    <3>1. /\ x \o y \in Seq(Byte) /\ Len(x \o y) = Len(x) + Len(y)
          /\ \A i \in 1..Len(x) : (x \o y)[i] = x[i]
          /\ \A i \in 1..Len(y) : (x \o y)[Len(x) + i] = y[i]
      BY <1>3, Concat
    <3> QED BY <1>2, <3>1
  <2> QED BY <1>3, <2>1
<1>6. ReadExact(s, 4) = Got(s, <<>>)
  <2>1. <<>> \in Seq(Byte) /\ s \o <<>> = s
    BY <1>5, ConcatEmptySeq
  <2> QED BY <1>5, <2>1, ReadFront
<1>7. From2(s) = a /\ From2(<<s[3], s[4]>>) = b
  BY <1>4, <1>5 DEF From2
<1>8. PICK r : r = Got(s, <<>>)
  OBVIOUS
<1>9. r.ok /\ r.val = s /\ r.rest = <<>> /\ ReadExact(s, 4) = r
  BY <1>6, <1>8, Parts, Zenon
<1>10. ReadNonce(s) = Got(<<From2(s), From2(<<s[3], s[4]>>)>>, <<>>)
  BY <1>9 DEF ReadNonce
<1> QED BY <1>2, <1>5, <1>7, <1>10, Zenon

(* A payload is bytes, and the message comes back from it (messages.rs:    *)
(* 77-160).                                                                *)
LEMMA MessageRoundTrip ==
  ASSUME NEW m \in Sendable
  PROVE  /\ EncodeMessage(m) \in Seq(Byte) /\ Len(EncodeMessage(m)) < Base8
         /\ DecodeMessage(m.cmd, EncodeMessage(m)) = Got(m.body, <<>>)
<1>1. m \in Message /\ IsLength(Len(m.body)) /\ IsLength(Len(EncodeMessage(m)))
  BY DEF Sendable
<1>2. EncodeMessage(m) \in Seq(Byte) /\ DecodeMessage(m.cmd, EncodeMessage(m)) = Got(m.body, <<>>)
  <2>1. CASE m.cmd \in {"ping", "pong"} /\ m.body \in Half \X Half
    <3>1. PICK a \in Half, b \in Half : m.body = <<a, b>>
      BY <2>1
    <3>2. EncodeMessage(m) = Le2(a) \o Le2(b)
      BY <2>1, <3>1 DEF EncodeMessage
    <3>3. \A s : DecodeMessage(m.cmd, s) = ReadNonce(s)
      BY <2>1 DEF DecodeMessage
    <3> QED BY <3>1, <3>2, <3>3, NonceRoundTrip
  <2>2. CASE m.cmd = "addr" /\ m.body \in Seq(Address)
    <3>1. EncodeMessage(m) = EncodeAddrs(m.body)
      BY <2>2 DEF EncodeMessage
    <3>2. \A s : DecodeMessage(m.cmd, s) = DecodeAddrs(s)
      BY <2>2 DEF DecodeMessage
    <3>3. Len(m.body) < Base8
      BY <1>1, <2>2, Lengths
    <3>4. Base > 6 /\ <<>> \in Seq(Byte)
      BY PacketsAssumption
    <3>5. EncodeAddrs(m.body) \in Seq(Byte)
          /\ DecodeAddrs(EncodeAddrs(m.body) \o <<>>) = Got(m.body, <<>>)
      BY <2>2, <3>3, <3>4, AddrsRoundTrip
    <3>6. EncodeAddrs(m.body) \o <<>> = EncodeAddrs(m.body)
      BY <3>5, ConcatEmptySeq
    <3> QED BY <3>1, <3>2, <3>5, <3>6, Zenon
  <2>3. CASE m.cmd \in {"getaddr", "version", "verack"} /\ m.body = Nothing
    <3>1. EncodeMessage(m) = <<>> /\ \A s : DecodeMessage(m.cmd, s) = Got(Nothing, s)
      BY <2>3 DEF EncodeMessage, DecodeMessage
    <3> QED BY <2>3, <3>1
  <2> QED BY <1>1, <2>1, <2>2, <2>3, Kinds
<1>3. Len(EncodeMessage(m)) < Base8
  BY <1>1, <1>2, Lengths
<1> QED BY <1>2, <1>3

\* The only element of a set.
LEMMA OneElement == ASSUME NEW x PROVE SetToSeq({x}) = <<x>>
<1>1. Cardinality({x}) = 1
  BY FS_Singleton
<1>2. PICK D : D = [1..1 -> {x}]
  OBVIOUS
<1>3. <<x>> \in D /\ \A f \in D : f = <<x>>
  BY <1>2
<1>4. \A f \in D : IsInjective(f)
  BY <1>2 DEF IsInjective
<1>5. SetToSeq({x}) = (CHOOSE f \in D : IsInjective(f))
  BY <1>1, <1>2 DEF SetToSeq
<1> QED BY <1>3, <1>4, <1>5

\* The message that was sent is the one that is handed out.
LEMMA Dispatched ==
  ASSUME NEW m \in Sendable
  PROVE  SetToSeq(Dispatch(Name[m.cmd], EncodeMessage(m))) = <<m>>
<1>1. m.cmd \in DOMAIN Name /\ m = [cmd |-> m.cmd, body |-> m.body]
  BY Kinds DEF Sendable
<1>2. PICK x, c, d : x = EncodeMessage(m) /\ c = m.cmd /\ d = DecodeMessage(c, x)
  OBVIOUS
<1>3. d.ok /\ d.val = m.body
  BY <1>2, MessageRoundTrip, Parts
<1>4. {e \in DOMAIN Name : Name[e] = Name[c]} = {c}
  BY <1>1, <1>2, Names
<1>5. Dispatch(Name[c], x) = {[cmd |-> c, body |-> DecodeMessage(c, x).val]}
  BY <1>2, <1>3, <1>4 DEF Dispatch
<1>6. Dispatch(Name[c], x) = {m}
  BY <1>1, <1>2, <1>3, <1>5
<1> QED BY <1>2, <1>6, OneElement

----------------------------------------------------------------------------
(* Packets.                                                                *)

\* A length and as many bytes, as read_packet reads them.
LEMMA Sized == \A s : ReadSized(s) = DecodeBytes(s)
<1>1. \A s : DecodeVarIntAsync(s) = DecodeVarInt(s)
  BY DEF DecodeVarIntAsync, DecodeVarInt
<1> QED BY <1>1 DEF ReadSized, DecodeBytes

\* The bytes of a packet.
Bytes(m) == Magic \o (EncodeBytes(Name[m.cmd]) \o EncodeBytes(EncodeMessage(m)))

\* The parts of a packet.
LEMMA PacketParts ==
  ASSUME NEW m \in Sendable
  PROVE  /\ Name[m.cmd] \in Seq(Byte) /\ Name[m.cmd] # <<>> /\ Len(Name[m.cmd]) < Base8 /\ Utf8(Name[m.cmd])
         /\ EncodeMessage(m) \in Seq(Byte) /\ Len(EncodeMessage(m)) < Base8
         /\ EncodeBytes(Name[m.cmd]) \in Seq(Byte) /\ EncodeBytes(EncodeMessage(m)) \in Seq(Byte)
         /\ Bytes(m) \in Seq(Byte) /\ Bytes(m) # <<>>
<1>1. m.cmd \in DOMAIN Name
  BY Kinds DEF Sendable
<1>2. PICK n : n = Name[m.cmd]
  OBVIOUS
<1>3. n \in Seq(Byte) /\ Len(n) \in 1..7 /\ Utf8(n)
  BY <1>1, <1>2, Fixed
<1>4. n # <<>> /\ Len(n) < Base8
  <2>1. 7 < Base8
    <3>1. Base2 > 3 /\ Base4 = Base2 * Base2 /\ Base8 = Base4 * Base4 /\ Base2 \in Nat
      BY Bases
    <3>2. Base4 \in Nat /\ Base4 > 3
      BY <3>1, SMT
    <3> QED BY <3>1, <3>2, SMT
  <2>2. Base8 \in Nat
    BY Bases
  <2>3. n # <<>>
    BY <1>3
  <2>4. Len(n) \in Nat /\ Len(n) <= 7
    <3>1. PICK k : k = Len(n)
      OBVIOUS
    <3>2. k \in 1..7
      BY <1>3, <3>1, Zenon
    <3>3. k \in Nat /\ k <= 7
      BY <3>2
    <3> QED BY <3>1, <3>3
  <2> QED BY <2>1, <2>2, <2>3, <2>4
<1>5. EncodeMessage(m) \in Seq(Byte) /\ Len(EncodeMessage(m)) < Base8
  BY MessageRoundTrip
<1>6. <<>> \in Seq(Byte)
  OBVIOUS
<1>7. EncodeBytes(n) \in Seq(Byte) /\ EncodeBytes(EncodeMessage(m)) \in Seq(Byte)
  BY <1>3, <1>4, <1>5, <1>6, BytesRoundTrip
<1>8. PICK a, b : a = EncodeBytes(n) /\ b = EncodeBytes(EncodeMessage(m))
  OBVIOUS
<1>9. a \o b \in Seq(Byte)
  BY <1>7, <1>8, Concat
<1>10. Magic \o (a \o b) \in Seq(Byte) /\ Len(Magic \o (a \o b)) = 4 + Len(a \o b)
  <2>1. PICK ab : ab = a \o b
    OBVIOUS
  <2>2. Magic \in Seq(Byte) /\ Len(Magic) = 4
    BY Fixed
  <2>3. Magic \o ab \in Seq(Byte) /\ Len(Magic \o ab) = Len(Magic) + Len(ab)
    BY <1>9, <2>1, <2>2, Concat
  <2> QED BY <2>1, <2>2, <2>3
<1>11. Bytes(m) = Magic \o (a \o b)
  BY <1>2, <1>8 DEF Bytes
<1>12. Bytes(m) \in Seq(Byte) /\ Bytes(m) # <<>>
  <2>1. Len(a \o b) \in Nat
    BY <1>9
  <2> QED BY <1>10, <1>11, <2>1
<1> QED BY <1>2, <1>3, <1>4, <1>5, <1>7, <1>8, <1>12

(* The writes of send_packet, none of which is empty, make up the bytes of *)
(* the packet (messages.rs:206-229).                                       *)
LEMMA PacketWritten ==
  ASSUME NEW m \in Sendable
  PROVE  /\ WritesOf(m) \in Seq(Chunk) /\ WritesOf(m) # <<>>
         /\ FlattenSeq(WritesOf(m)) = Bytes(m)
<1>1. PICK n, p : n = Name[m.cmd] /\ p = EncodeMessage(m)
  OBVIOUS
<1>2. n \in Seq(Byte) /\ n # <<>> /\ Len(n) \in Nat /\ p \in Seq(Byte) /\ Len(p) \in Nat
  BY <1>1, PacketParts
<1>3. PICK a, b, c, d, e : /\ a = <<Magic>> /\ b = VarIntWrites(Len(n)) /\ c = <<n>>
                           /\ d = VarIntWrites(Len(p)) /\ e = IF p = <<>> THEN <<>> ELSE <<p>>
  OBVIOUS
<1>4. ASSUME NEW x \in Seq(Byte), x # <<>>
      PROVE  <<x>> \in Seq(Chunk) /\ FlattenSeq(<<x>>) = x
  <2>1. x \in Chunk
    BY <1>4 DEF Chunk
  <2>2. FlattenSeq(<<x>>) = x
    BY FlattenFew
  <2>3. <<x>> \in Seq(Chunk)
    BY <2>1
  <2> QED BY <2>2, <2>3
<1>5. a \in Seq(Chunk) /\ FlattenSeq(a) = Magic
  BY <1>3, <1>4, Fixed
<1>6. b \in Seq(Chunk) /\ FlattenSeq(b) = EncodeVarInt(Len(n))
  BY <1>2, <1>3, VarIntWritten
<1>7. c \in Seq(Chunk) /\ FlattenSeq(c) = n
  BY <1>2, <1>3, <1>4
<1>8. d \in Seq(Chunk) /\ FlattenSeq(d) = EncodeVarInt(Len(p))
  BY <1>2, <1>3, VarIntWritten
<1>9. e \in Seq(Chunk) /\ FlattenSeq(e) = p
  <2>1. CASE p = <<>>
    BY <1>3, <2>1 DEF FlattenSeq
  <2>2. CASE p # <<>>
    BY <1>2, <1>3, <1>4, <2>2
  <2> QED BY <2>1, <2>2
<1>10. ASSUME NEW x \in Seq(Chunk), NEW y \in Seq(Chunk)
       PROVE  /\ x \o y \in Seq(Chunk) /\ Len(x \o y) = Len(x) + Len(y)
              /\ FlattenSeq(x \o y) = FlattenSeq(x) \o FlattenSeq(y)
              /\ FlattenSeq(x) \in Seq(Byte) /\ FlattenSeq(y) \in Seq(Byte)
  <2>1. x \o y \in Seq(Chunk) /\ Len(x \o y) = Len(x) + Len(y)
    BY ConcatProperties
  <2>2. x \in Seq(Seq(Byte)) /\ y \in Seq(Seq(Byte))
    BY DEF Chunk
  <2>3. FlattenSeq(x) \in Seq(Byte) /\ FlattenSeq(y) \in Seq(Byte)
    BY <2>2, FlattenType
  <2>4. FlattenSeq(x \o y) = FlattenSeq(x) \o FlattenSeq(y)
    BY <2>2, FlattenConcat
  <2> QED BY <2>1, <2>3, <2>4
<1>11. PICK ab, abc, abcd : ab = a \o b /\ abc = ab \o c /\ abcd = abc \o d
  OBVIOUS
<1>12. WritesOf(m) = abcd \o e
  BY <1>1, <1>3, <1>11, Zenon DEF WritesOf
<1>13. ab \in Seq(Chunk) /\ FlattenSeq(ab) = Magic \o EncodeVarInt(Len(n)) /\ Len(ab) = Len(a) + Len(b)
  BY <1>5, <1>6, <1>10, <1>11
<1>14. /\ abc \in Seq(Chunk) /\ FlattenSeq(abc) = (Magic \o EncodeVarInt(Len(n))) \o n
       /\ Len(abc) = Len(ab) + Len(c)
  BY <1>7, <1>10, <1>11, <1>13
<1>15. /\ abcd \in Seq(Chunk) /\ Len(abcd) = Len(abc) + Len(d)
       /\ FlattenSeq(abcd) = ((Magic \o EncodeVarInt(Len(n))) \o n) \o EncodeVarInt(Len(p))
  BY <1>8, <1>10, <1>11, <1>14
<1>16. /\ abcd \o e \in Seq(Chunk) /\ Len(abcd \o e) = Len(abcd) + Len(e)
       /\ FlattenSeq(abcd \o e) = (((Magic \o EncodeVarInt(Len(n))) \o n) \o EncodeVarInt(Len(p))) \o p
  BY <1>9, <1>10, <1>15
<1>17. WritesOf(m) # <<>>
  <2>1. Len(a) = 1 /\ Len(b) \in Nat /\ Len(c) \in Nat /\ Len(d) \in Nat /\ Len(e) \in Nat
    BY <1>3, <1>6, <1>7, <1>8, <1>9
  <2>2. Len(abcd \o e) >= 1
    BY <1>13, <1>14, <1>15, <1>16, <2>1
  <2> QED BY <1>12, <2>2
<1>18. PICK u, v : u = EncodeVarInt(Len(n)) /\ v = EncodeVarInt(Len(p))
  OBVIOUS
<1>19. (((Magic \o u) \o n) \o v) \o p = Magic \o ((u \o n) \o (v \o p))
  <2>1. u \in Seq(Byte) /\ v \in Seq(Byte) /\ Magic \in Seq(Byte)
    BY <1>2, <1>18, VarIntBytes, Fixed
  <2>2. u \o n \in Seq(Byte) /\ v \o p \in Seq(Byte) /\ (Magic \o u) \o n = Magic \o (u \o n)
    BY <1>2, <2>1, Concat, Assoc
  <2>3. PICK x : x = u \o n
    OBVIOUS
  <2>4. Magic \o x \in Seq(Byte) /\ x \in Seq(Byte)
    BY <2>1, <2>2, <2>3, Concat
  <2>5. ((Magic \o x) \o v) \o p = (Magic \o x) \o (v \o p)
    <3>1. PICK w : w = Magic \o x
      OBVIOUS
    <3>2. w \in Seq(Byte)
      BY <2>4, <3>1
    <3>3. (w \o v) \o p = w \o (v \o p)
      BY ONLY <1>2, <2>1, <3>2, Assoc
    <3> QED BY <3>1, <3>3
  <2>6. (Magic \o x) \o (v \o p) = Magic \o (x \o (v \o p))
    BY <2>1, <2>2, <2>4, Assoc
  <2> QED BY <2>2, <2>3, <2>5, <2>6, Zenon
<1>20. Bytes(m) = Magic \o ((u \o n) \o (v \o p))
  BY <1>1, <1>18, Zenon DEF Bytes, EncodeBytes
<1> QED BY <1>12, <1>16, <1>17, <1>18, <1>19, <1>20, Zenon

(* The packet is read back, and what follows it is left (messages.rs:      *)
(* 170-229).                                                               *)
THEOREM PacketRoundTrip ==
  ASSUME NEW m \in Sendable, NEW rest \in Seq(Byte)
  PROVE  ReadPacket(Bytes(m) \o rest)
           = Got([command |-> Name[m.cmd], payload |-> EncodeMessage(m)], rest)
<1>1. PICK n, p, a, b : n = Name[m.cmd] /\ p = EncodeMessage(m) /\ a = EncodeBytes(n) /\ b = EncodeBytes(p)
  OBVIOUS
<1>2. /\ n \in Seq(Byte) /\ Len(n) < Base8 /\ Utf8(n) /\ p \in Seq(Byte) /\ Len(p) < Base8
      /\ a \in Seq(Byte) /\ b \in Seq(Byte) /\ Bytes(m) = Magic \o (a \o b)
  BY <1>1, PacketParts DEF Bytes
<1>3. PICK y, x : y = b \o rest /\ x = a \o y
  OBVIOUS
<1>4. y \in Seq(Byte) /\ x \in Seq(Byte)
  BY <1>2, <1>3, Concat
<1>5. Bytes(m) \o rest = Magic \o x
  <2>1. a \o b \in Seq(Byte) /\ (a \o b) \o rest = x
    BY <1>2, <1>3, Concat, Assoc
  <2>2. PICK ab : ab = a \o b
    OBVIOUS
  <2>3. (Magic \o ab) \o rest = Magic \o (ab \o rest)
    BY <2>1, <2>2, Fixed, Assoc
  <2> QED BY <1>2, <2>1, <2>2, <2>3, Zenon
<1>6. PICK r1, r2, r3 : r1 = Got(Magic, x) /\ r2 = Got(n, y) /\ r3 = Got(p, rest)
  OBVIOUS
<1>7. ReadExact(Magic \o x, 4) = r1
  BY <1>4, <1>6, Fixed, ReadFront
<1>8. ReadSized(x) = r2 /\ ReadSized(y) = r3
  BY <1>1, <1>2, <1>3, <1>4, <1>6, Sized, BytesRoundTrip
<1>9. /\ r1.ok /\ r1.val = Magic /\ r1.rest = x
      /\ r2.ok /\ r2.val = n /\ r2.rest = y
      /\ r3.ok /\ r3.val = p /\ r3.rest = rest
  BY <1>6, Parts, Zenon
<1>10. ReadPacket(Magic \o x) = Got([command |-> n, payload |-> p], rest)
  BY <1>2, <1>7, <1>8, <1>9 DEF ReadPacket
<1> QED BY <1>1, <1>5, <1>10, Zenon

\* Bytes with their length.
LEMMA SizedStreams ==
  ASSUME NEW s \in Seq(Byte), NEW y \in Seq(Byte)
  PROVE  Streams(Seq(Byte), ReadSized(s), ReadSized(s \o y), y)
<1>1. PICK a, b : a = DecodeVarInt(s) /\ b = DecodeVarInt(s \o y)
  OBVIOUS
<1>2. Streams(Nat, a, b, y)
  BY <1>1, VarIntStreams
<1>3. /\ ReadSized(s) = IF a.ok THEN ReadExact(a.rest, a.val) ELSE a
      /\ ReadSized(s \o y) = IF b.ok THEN ReadExact(b.rest, b.val) ELSE b
  BY <1>1, Sized DEF DecodeBytes
<1>4. CASE \E n \in Nat, u \in Seq(Byte) : a = Got(n, u) /\ b = Got(n, u \o y)
  <2>1. PICK n \in Nat, u \in Seq(Byte) : a = Got(n, u) /\ b = Got(n, u \o y)
    BY <1>4
  <2>2. a.ok /\ a.val = n /\ a.rest = u /\ b.ok /\ b.val = n /\ b.rest = u \o y
    BY <2>1, Parts, Zenon
  <2>3. PICK c, d : c = ReadExact(u, n) /\ d = ReadExact(u \o y, n)
    OBVIOUS
  <2>4. ReadSized(s) = c /\ ReadSized(s \o y) = d
    BY <1>3, <2>2, <2>3, Zenon
  <2>5. Streams({x \in Seq(Byte) : Len(x) = n}, c, d, y)
    BY <2>3, ReadExactStreams
  <2>6. Streams(Seq(Byte), c, d, y)
    BY <2>5 DEF Streams
  <2> QED BY <2>4, <2>6
<1>5. CASE a = Fail("eof")
  <2>1. ReadSized(s) = Fail("eof")
    BY <1>3, <1>5, Parts, Zenon
  <2> QED BY <2>1 DEF Streams
<1>6. CASE \E w : w # "eof" /\ a = Fail(w) /\ b = Fail(w)
  <2>1. PICK w : w # "eof" /\ a = Fail(w) /\ b = Fail(w)
    BY <1>6
  <2>2. ReadSized(s) = Fail(w) /\ ReadSized(s \o y) = Fail(w)
    BY <1>3, <2>1, Parts, Zenon
  <2> QED BY <2>1, <2>2 DEF Streams
<1> QED BY <1>2, <1>4, <1>5, <1>6 DEF Streams

\* Packets: what is read does not depend on how much of the stream after it has
\* come in.
Contents == [command : Seq(Byte), payload : Seq(Byte)]
LEMMA PacketStreams ==
  ASSUME NEW s \in Seq(Byte), NEW y \in Seq(Byte)
  PROVE  Streams(Contents, ReadPacket(s), ReadPacket(s \o y), y)
<1> DEFINE Read(t, magic, command, payload) ==
             IF ~magic.ok THEN magic
             ELSE IF magic.val # Magic THEN Fail("MalformedPacket")
             ELSE IF ~command.ok THEN command
             ELSE IF ~Utf8(command.val) THEN Fail("Utf8Error")
             ELSE IF ~payload.ok THEN payload
             ELSE Got([command |-> command.val, payload |-> payload.val], payload.rest)
<1>1. PICK a1, a2, a3, b1, b2, b3 :
        /\ a1 = ReadExact(s, 4) /\ a2 = ReadSized(a1.rest) /\ a3 = ReadSized(a2.rest)
        /\ b1 = ReadExact(s \o y, 4) /\ b2 = ReadSized(b1.rest) /\ b3 = ReadSized(b2.rest)
  OBVIOUS
<1>2. PICK a, b : a = ReadPacket(s) /\ b = ReadPacket(s \o y)
  OBVIOUS
<1>3. a = Read(s, a1, a2, a3) /\ b = Read(s, b1, b2, b3)
  BY <1>1, <1>2 DEF ReadPacket
<1>4. Streams({x \in Seq(Byte) : Len(x) = 4}, a1, b1, y)
  BY <1>1, ReadExactStreams
<1>5. CASE a1 = Fail("eof")
  <2>1. a = Fail("eof")
    BY <1>3, <1>5, Parts
  <2> QED BY <1>2, <2>1 DEF Streams
<1>6. CASE \E w : w # "eof" /\ a1 = Fail(w) /\ b1 = Fail(w)
  <2>1. PICK w : w # "eof" /\ a1 = Fail(w) /\ b1 = Fail(w)
    BY <1>6
  <2>2. a = Fail(w) /\ b = Fail(w)
    BY <1>3, <2>1, Parts
  <2> QED BY <1>2, <2>1, <2>2 DEF Streams
<1>7. ASSUME NEW v, NEW u1 \in Seq(Byte), a1 = Got(v, u1), b1 = Got(v, u1 \o y)
      PROVE  Streams(Contents, a, b, y)
  <2>1. a1.ok /\ a1.val = v /\ a1.rest = u1 /\ b1.ok /\ b1.val = v /\ b1.rest = u1 \o y
    BY <1>7, Parts
  <2>2. CASE v # Magic
    <3>1. a = Fail("MalformedPacket") /\ b = Fail("MalformedPacket")
      BY <1>3, <2>1, <2>2
    <3> QED BY <3>1 DEF Streams
  <2>3. ASSUME v = Magic, a2 = Fail("eof") PROVE Streams(Contents, a, b, y)
    <3>1. a = Fail("eof")
      BY <1>3, <2>1, <2>3, Parts
    <3> QED BY <3>1 DEF Streams
  <2>4. ASSUME v = Magic, NEW w, w # "eof", a2 = Fail(w), b2 = Fail(w)
        PROVE  Streams(Contents, a, b, y)
    <3>1. a = Fail(w) /\ b = Fail(w)
      BY <1>3, <2>1, <2>4, Parts
    <3> QED BY <2>4, <3>1 DEF Streams
  <2>5. ASSUME v = Magic, NEW c \in Seq(Byte), NEW u2 \in Seq(Byte), a2 = Got(c, u2), b2 = Got(c, u2 \o y)
        PROVE  Streams(Contents, a, b, y)
    <3>1. a2.ok /\ a2.val = c /\ a2.rest = u2 /\ b2.ok /\ b2.val = c /\ b2.rest = u2 \o y
      BY <2>5, Parts
    <3>2. CASE ~Utf8(c)
      <4>1. a = Fail("Utf8Error") /\ b = Fail("Utf8Error")
        BY <1>3, <2>1, <2>5, <3>1, <3>2
      <4> QED BY <4>1 DEF Streams
    <3>3. ASSUME Utf8(c), a3 = Fail("eof") PROVE Streams(Contents, a, b, y)
      <4>1. a = Fail("eof")
        BY <1>3, <2>1, <2>5, <3>1, <3>3, Parts
      <4> QED BY <4>1 DEF Streams
    <3>4. ASSUME Utf8(c), NEW w, w # "eof", a3 = Fail(w), b3 = Fail(w)
          PROVE  Streams(Contents, a, b, y)
      <4>1. a = Fail(w) /\ b = Fail(w)
        BY <1>3, <2>1, <2>5, <3>1, <3>4, Parts
      <4> QED BY <3>4, <4>1 DEF Streams
    <3>5. ASSUME Utf8(c), NEW p \in Seq(Byte), NEW u3 \in Seq(Byte), a3 = Got(p, u3), b3 = Got(p, u3 \o y)
          PROVE  Streams(Contents, a, b, y)
      <4>1. a3.ok /\ a3.val = p /\ a3.rest = u3 /\ b3.ok /\ b3.val = p /\ b3.rest = u3 \o y
        BY <3>5, Parts
      <4>2. PICK x : x = [command |-> c, payload |-> p]
        OBVIOUS
      <4>3. a = Got(x, u3) /\ b = Got(x, u3 \o y)
        BY <1>3, <2>1, <2>5, <3>1, <3>5, <4>1, <4>2
      <4>4. x \in Contents
        BY <4>2 DEF Contents
      <4> QED BY <4>3, <4>4 DEF Streams
    <3>6. Streams(Seq(Byte), a3, b3, y)
      BY <1>1, <3>1, SizedStreams
    <3> QED BY <3>2, <3>3, <3>4, <3>5, <3>6 DEF Streams
  <2>6. Streams(Seq(Byte), a2, b2, y)
    BY <1>1, <2>1, SizedStreams
  <2> QED BY <2>2, <2>3, <2>4, <2>5, <2>6 DEF Streams
<1> QED BY <1>2, <1>4, <1>5, <1>6, <1>7 DEF Streams

----------------------------------------------------------------------------
(* Streams of packets.                                                     *)

\* The packets of some messages, and their bytes.
Packed(ms) == [i \in DOMAIN ms |-> Bytes(ms[i])]
Stream(ms) == FlattenSeq(Packed(ms))

\* How the packets follow each other.
LEMMA PackedIs ==
  ASSUME NEW ms \in Seq(Sendable)
  PROVE  /\ Packed(ms) \in Seq(Seq(Byte)) /\ Len(Packed(ms)) = Len(ms)
         /\ \A i \in 1..Len(ms) : Packed(ms)[i] = Bytes(ms[i])
         /\ Stream(ms) \in Seq(Byte)
<1>1. Packed(ms) = [i \in 1..Len(ms) |-> Bytes(ms[i])] /\ Len(ms) \in Nat
  BY DEF Packed
<1>2. ASSUME NEW i \in 1..Len(ms) PROVE Bytes(ms[i]) \in Seq(Byte)
  <2>1. ms[i] \in Sendable
    OBVIOUS
  <2> QED BY <2>1, PacketParts
<1>3. PICK n, p : n = Len(ms) /\ p = Packed(ms)
  OBVIOUS
<1>4. n \in Nat /\ p \in [1..n -> Seq(Byte)]
  BY <1>1, <1>2, <1>3
<1>5. p \in Seq(Seq(Byte)) /\ Len(p) = n
  BY <1>4, FunctionIsSeq
<1>6. Stream(ms) \in Seq(Byte)
  BY <1>3, <1>5, FlattenType DEF Stream
<1> QED BY <1>1, <1>3, <1>5, <1>6

\* No packet.
LEMMA StreamEmpty == Stream(<<>>) = <<>>
<1>1. <<>> \in Seq(Sendable) /\ Len(<<>>) = 0
  OBVIOUS
<1>2. Packed(<<>>) \in Seq(Seq(Byte)) /\ Len(Packed(<<>>)) = 0
  BY <1>1, PackedIs
<1>3. Packed(<<>>) = <<>>
  BY <1>2
<1> QED BY <1>3 DEF Stream, FlattenSeq

\* A message at the end.
LEMMA StreamAppend ==
  ASSUME NEW ms \in Seq(Sendable), NEW m \in Sendable
  PROVE  Stream(Append(ms, m)) = Stream(ms) \o Bytes(m)
<1>2. PICK ns, p, q, b : ns = Append(ms, m) /\ p = Packed(ms) /\ q = Packed(ns) /\ b = Bytes(m)
  OBVIOUS
<1>3. /\ ns \in Seq(Sendable) /\ Len(ns) = Len(ms) + 1 /\ ns[Len(ms) + 1] = m
      /\ \A i \in 1..Len(ms) : ns[i] = ms[i]
  BY <1>2
<1>4. /\ p \in Seq(Seq(Byte)) /\ Len(p) = Len(ms) /\ \A i \in 1..Len(ms) : p[i] = Bytes(ms[i])
      /\ q \in Seq(Seq(Byte)) /\ Len(q) = Len(ns) /\ \A i \in 1..Len(ns) : q[i] = Bytes(ns[i])
  BY <1>2, <1>3, PackedIs
<1>5. b \in Seq(Byte)
  BY <1>2, PacketParts
<1>6. q = Append(p, b)
  <2>1. /\ Append(p, b) \in Seq(Seq(Byte)) /\ Len(Append(p, b)) = Len(ms) + 1
        /\ Append(p, b)[Len(ms) + 1] = b /\ \A i \in 1..Len(ms) : Append(p, b)[i] = p[i]
    BY <1>4, <1>5, AppendProperties
  <2>2. Len(ms) \in Nat
    OBVIOUS
  <2>3. ASSUME NEW i \in 1..(Len(ms) + 1) PROVE q[i] = Append(p, b)[i]
    <3>1. q[i] = Bytes(ns[i])
      BY <1>3, <1>4
    <3>2. CASE i \in 1..Len(ms)
      <4>1. ns[i] = ms[i]
        BY <1>3, <3>2
      <4>2. p[i] = Bytes(ms[i]) /\ Append(p, b)[i] = p[i]
        BY <1>4, <2>1, <3>2
      <4> QED BY <3>1, <4>1, <4>2, Zenon
    <3>3. CASE i = Len(ms) + 1
      <4>1. i \in 1..Len(ns) /\ ns[i] = m /\ Append(p, b)[i] = b
        BY <1>3, <2>1, <2>2, <3>3
      <4>2. q[i] = Bytes(m)
        BY <3>1, <4>1
      <4> QED BY <1>2, <4>1, <4>2
    <3>4. i \in 1..Len(ms) \/ i = Len(ms) + 1
      BY <2>2
    <3> QED BY <3>2, <3>3, <3>4, Zenon
  <2> QED BY <1>3, <1>4, <2>1, <2>3, SeqEqual
<1>7. FlattenSeq(q) = FlattenSeq(p) \o b
  BY <1>4, <1>5, <1>6, FlattenAppend
<1> QED BY <1>2, <1>7, Zenon DEF Stream

\* A message in front.
LEMMA StreamHead ==
  ASSUME NEW ms \in Seq(Sendable), ms # <<>>
  PROVE  Stream(ms) = Bytes(Head(ms)) \o Stream(Tail(ms))
<1>1. PICK ns, p, q : ns = Tail(ms) /\ p = Packed(ms) /\ q = Packed(ns)
  OBVIOUS
<1>2. /\ ns \in Seq(Sendable) /\ Len(ns) = Len(ms) - 1 /\ Len(ms) \in Nat \ {0}
      /\ \A i \in 1..Len(ns) : ns[i] = ms[i + 1]
  BY <1>1
<1>3. /\ p \in Seq(Seq(Byte)) /\ Len(p) = Len(ms) /\ \A i \in 1..Len(ms) : p[i] = Bytes(ms[i])
      /\ q \in Seq(Seq(Byte)) /\ Len(q) = Len(ns) /\ \A i \in 1..Len(ns) : q[i] = Bytes(ns[i])
  BY <1>1, <1>2, PackedIs
<1>4. p # <<>>
  BY <1>2, <1>3
<1>5. /\ Tail(p) \in Seq(Seq(Byte)) /\ Len(Tail(p)) = Len(ns)
      /\ \A i \in 1..Len(ns) : Tail(p)[i] = p[i + 1]
  BY <1>2, <1>3, <1>4
<1>6. ASSUME NEW i \in 1..Len(ns) PROVE q[i] = Tail(p)[i]
  <2>1. i + 1 \in 1..Len(ms)
    BY <1>2
  <2>2. q[i] = Bytes(ns[i]) /\ ns[i] = ms[i + 1] /\ Tail(p)[i] = p[i + 1] /\ p[i + 1] = Bytes(ms[i + 1])
    BY <1>2, <1>3, <1>5, <2>1
  <2> QED BY <2>2
<1>7. q = Tail(p)
  BY <1>3, <1>5, <1>6, SeqEqual
<1>8. p[1] = Bytes(Head(ms))
  <2>1. 1 \in 1..Len(ms) /\ Head(ms) = ms[1]
    BY <1>2
  <2> QED BY <1>3, <2>1
<1>9. FlattenSeq(p) = p[1] \o FlattenSeq(Tail(p))
  BY <1>3, <1>4, FlattenHead
<1> QED BY <1>1, <1>7, <1>8, <1>9, Zenon DEF Stream

(* What the reader finds in front of a stream of packets of which it has   *)
(* only the first bytes: too little, or the next packet, and then it has   *)
(* the first bytes of the others.                                          *)
LEMMA NextPacket ==
  ASSUME NEW ms \in Seq(Sendable), NEW w \in Seq(Byte), NEW r \in Seq(Byte), w \o r = Stream(ms)
  PROVE  \/ ReadPacket(w) = Fail("eof")
         \/ /\ ms # <<>>
            /\ \E u \in Seq(Byte) :
                 /\ ReadPacket(w)
                      = Got([command |-> Name[Head(ms).cmd], payload |-> EncodeMessage(Head(ms))], u)
                 /\ u \o r = Stream(Tail(ms))
<1>1. CASE ms = <<>>
  <2>1. w = <<>>
    <3>2. w \o r = <<>>
      BY <1>1, StreamEmpty
    <3>3. Len(w \o r) = Len(w) + Len(r) /\ Len(w) \in Nat /\ Len(r) \in Nat
      BY Concat
    <3> QED BY <3>2, <3>3
  <2>2. ReadExact(w, 4) = Fail("eof")
    BY <2>1 DEF ReadExact
  <2>3. ReadPacket(w) = Fail("eof")
    BY <2>2, Parts DEF ReadPacket
  <2> QED BY <2>3
<1>2. CASE ms # <<>>
  <2>1. PICK m, ns, x, rest : /\ m = Head(ms) /\ ns = Tail(ms) /\ rest = Stream(ns)
                              /\ x = [command |-> Name[m.cmd], payload |-> EncodeMessage(m)]
    OBVIOUS
  <2>2. m \in Sendable /\ ns \in Seq(Sendable)
    BY <1>2, <2>1
  <2>3. rest \in Seq(Byte) /\ w \o r = Bytes(m) \o rest
    BY <1>2, <2>1, <2>2, PackedIs, StreamHead
  <2>4. ReadPacket(w \o r) = Got(x, rest)
    BY <2>1, <2>2, <2>3, PacketRoundTrip
  <2>5. PICK a, b : a = ReadPacket(w) /\ b = Got(x, rest)
    OBVIOUS
  <2>6. Streams(Contents, a, b, r)
    BY <2>4, <2>5, PacketStreams
  <2>7. b.ok /\ b.val = x /\ b.rest = rest
    BY <2>5, Parts
  <2>8. CASE \E v \in Contents, u \in Seq(Byte) : a = Got(v, u) /\ b = Got(v, u \o r)
    <3>1. PICK v \in Contents, u \in Seq(Byte) : a = Got(v, u) /\ b = Got(v, u \o r)
      BY <2>8
    <3>2. b.val = v /\ b.rest = u \o r
      BY <3>1, Parts
    <3>3. a = Got(x, u) /\ u \o r = rest
      BY <2>7, <3>1, <3>2
    <3> QED BY <1>2, <2>1, <2>5, <3>3, Zenon
  <2>9. CASE a = Fail("eof")
    BY <2>5, <2>9
  <2>10. CASE \E z : z # "eof" /\ a = Fail(z) /\ b = Fail(z)
    BY <2>7, <2>10, Parts
  <2> QED BY <2>6, <2>8, <2>9, <2>10 DEF Streams
<1> QED BY <1>1, <1>2

----------------------------------------------------------------------------
(* The inductive invariant.                                                *)

TypeOK ==
  /\ todo \in [Tasks -> Seq(Sendable)] /\ sent \in Seq(Sendable)
  /\ holder \in Tasks \cup {Free} /\ writes \in Seq(Chunk)
  /\ wire \in Seq(Byte) /\ link \in {"up", "down"} /\ cuts \in Nat

\* Whoever holds the lock has begun a packet and not ended it.
Held == (holder = Free <=> writes = <<>>) /\ (holder # Free => sent # <<>>)

\* The messages that are not delivered yet are those whose packets the bytes in
\* flight, and some bytes that will follow or are lost, make up; while the link
\* is up those are the bytes that the holder of the lock has yet to write.
Aligned ==
  \E unread \in Seq(Sendable), r \in Seq(Byte) :
    /\ sent = delivered \o unread
    /\ wire \o r = Stream(unread)
    /\ link = "up" => r = FlattenSeq(writes)
Undamaged == delivered \in Seq(Sendable) /\ reader \in {"reading", "eof"} /\ Aligned

IInv == TypeOK /\ Held /\ (cuts = 0 => Undamaged)

\* Nothing is written yet.
LEMMA IInvInit == Init => IInv
<1> SUFFICES ASSUME Init PROVE IInv
  OBVIOUS
<1>1. TypeOK
  <2>1. <<>> \in Seq(Byte) /\ <<>> \in Seq(Chunk) /\ <<>> \in Seq(Sendable)
    OBVIOUS
  <2> QED BY <2>1, PacketsAssumption DEF Init, TypeOK
<1>2. Held
  BY PacketsAssumption DEF Init, Held
<1>3. Undamaged
  <2>1. <<>> \in Seq(Sendable) /\ <<>> \in Seq(Byte) /\ <<>> \o <<>> = <<>>
    OBVIOUS
  <2>2. FlattenSeq(<<>>) = <<>>
    BY DEF FlattenSeq
  <2>4. Aligned
    BY <2>1, <2>2, StreamEmpty DEF Aligned, Init
  <2> QED BY <2>1, <2>4 DEF Undamaged, Init
<1> QED BY <1>1, <1>2, <1>3 DEF IInv

----------------------------------------------------------------------------
(* The steps.                                                              *)

\* The lock is taken for a message, whose packet is now the last to come.
LEMMA TakeLockKeeps == ASSUME IInv, NEW t \in Tasks, TakeLock(t) PROVE IInv'
<1>1. PICK m : m = Head(todo[t])
  OBVIOUS
<1>2. holder = Free /\ todo[t] # <<>> /\ todo' = [todo EXCEPT ![t] = Tail(@)] /\ holder' = t
      /\ writes' = WritesOf(m) /\ sent' = Append(sent, m)
  BY <1>1 DEF TakeLock, Begin
<1>3. wire' = wire /\ link' = link /\ cuts' = cuts /\ reader' = reader /\ delivered' = delivered
  BY DEF TakeLock, Begin
<1>4. TypeOK /\ Held /\ (cuts = 0 => Undamaged)
  BY DEF IInv
<1>5. m \in Sendable /\ Tail(todo[t]) \in Seq(Sendable)
  <2>1. todo[t] \in Seq(Sendable)
    BY <1>4 DEF TypeOK
  <2> QED BY <1>1, <1>2, <2>1
<1>6. WritesOf(m) \in Seq(Chunk) /\ WritesOf(m) # <<>> /\ FlattenSeq(WritesOf(m)) = Bytes(m)
  BY <1>5, PacketWritten
<1>7. TypeOK'
  <2>1. todo' \in [Tasks -> Seq(Sendable)]
    BY <1>2, <1>4, <1>5 DEF TypeOK
  <2>2. sent' \in Seq(Sendable)
    BY <1>2, <1>4, <1>5 DEF TypeOK
  <2>3. writes' \in Seq(Chunk) /\ holder' \in Tasks \cup {Free}
    BY <1>2, <1>6
  <2> QED BY <1>3, <1>4, <2>1, <2>2, <2>3 DEF TypeOK
<1>8. Held'
  <2>1. writes' # <<>>
    BY <1>2, <1>6, Zenon
  <2>2. sent' # <<>>
    <3>1. sent \in Seq(Sendable)
      BY <1>4 DEF TypeOK
    <3>2. Append(sent, m) # <<>>
      BY ONLY <3>1, <1>5
    <3> QED BY ONLY <1>2, <3>2
  <2>3. holder' # Free
    BY <1>2, PacketsAssumption
  <2> QED BY <2>1, <2>2, <2>3 DEF Held
<1>9. ASSUME cuts = 0 PROVE Undamaged'
  <2>1. delivered \in Seq(Sendable) /\ reader \in {"reading", "eof"} /\ Aligned
    BY <1>4, <1>9 DEF Undamaged
  <2>2. PICK unread \in Seq(Sendable), r \in Seq(Byte) :
          /\ sent = delivered \o unread
          /\ wire \o r = Stream(unread)
          /\ link = "up" => r = FlattenSeq(writes)
    BY <2>1 DEF Aligned
  <2>3. Append(unread, m) \in Seq(Sendable) /\ sent' = delivered \o Append(unread, m)
    <3>1. Append(unread, m) \in Seq(Sendable)
      BY <1>5
    <3>2. Append(delivered \o unread, m) = delivered \o Append(unread, m)
      <4>1. PICK d, e : d = Append(delivered \o unread, m) /\ e = delivered \o Append(unread, m)
        OBVIOUS
      <4>2. /\ d \in Seq(Sendable) /\ Len(d) = Len(delivered) + Len(unread) + 1
            /\ \A i \in 1..Len(d) : d[i] = IF i <= Len(delivered) THEN delivered[i]
                                          ELSE IF i <= Len(delivered) + Len(unread) THEN unread[i - Len(delivered)]
                                          ELSE m
        BY <1>5, <2>1, <4>1
      <4>3. /\ e \in Seq(Sendable) /\ Len(e) = Len(delivered) + Len(unread) + 1
            /\ \A i \in 1..Len(e) : e[i] = IF i <= Len(delivered) THEN delivered[i]
                                          ELSE IF i <= Len(delivered) + Len(unread) THEN unread[i - Len(delivered)]
                                          ELSE m
        BY <1>5, <2>1, <4>1
      <4>4. d = e
        BY <4>2, <4>3, SeqEqual
      <4> QED BY <4>1, <4>4
    <3> QED BY <1>2, <2>2, <3>1, <3>2, Zenon
  <2>4. PICK b, q : b = Bytes(m) /\ q = r \o b
    OBVIOUS
  <2>5. b \in Seq(Byte) /\ q \in Seq(Byte)
    BY <1>5, <2>4, PacketParts, Concat
  <2>6. wire \o q = Stream(Append(unread, m))
    <3>1. wire \in Seq(Byte)
      BY <1>4 DEF TypeOK
    <3>2. wire \o (r \o b) = (wire \o r) \o b
      BY <2>5, <3>1, Assoc
    <3>3. Stream(Append(unread, m)) = Stream(unread) \o b
      BY <1>5, <2>4, StreamAppend
    <3> QED BY <2>2, <2>4, <3>2, <3>3, Zenon
  <2>7. ASSUME link = "up" PROVE q = FlattenSeq(writes')
    <3>1. writes = <<>>
      BY <1>2, <1>4 DEF Held
    <3>2. r = <<>>
      BY <2>2, <2>7, <3>1 DEF FlattenSeq
    <3>3. q = b
      BY <2>4, <2>5, <3>2, ConcatEmptySeq
    <3> QED BY <1>2, <1>6, <2>4, <3>3
  <2>8. Aligned'
    <3>1. wire' \o q = Stream(Append(unread, m)) /\ sent' = delivered' \o Append(unread, m)
          /\ (link' = "up" => q = FlattenSeq(writes'))
      BY <1>3, <2>3, <2>6, <2>7
    <3> QED BY <2>3, <2>5, <3>1 DEF Aligned
  <2> QED BY <1>3, <2>1, <2>8 DEF Undamaged
<1> QED BY <1>3, <1>7, <1>8, <1>9 DEF IInv

\* The next write: its bytes go from the ones to come to those in flight.
LEMMA WriteKeeps == ASSUME IInv, NEW t \in Tasks, Write(t) PROVE IInv'
<1>1. PICK h, q : h = Head(writes) /\ q = Tail(writes)
  OBVIOUS
<1>2. holder = t /\ link = "up" /\ wire' = wire \o h /\ writes' = q
      /\ holder' = IF q = <<>> THEN Free ELSE t
  BY <1>1 DEF Write
<1>3. todo' = todo /\ sent' = sent /\ link' = link /\ cuts' = cuts /\ reader' = reader /\ delivered' = delivered
  BY DEF Write
<1>4. TypeOK /\ Held /\ (cuts = 0 => Undamaged)
  BY DEF IInv
<1>5. writes \in Seq(Chunk) /\ writes # <<>> /\ t # Free
  BY <1>2, <1>4, PacketsAssumption DEF TypeOK, Held
<1>6. h \in Chunk /\ h \in Seq(Byte) /\ q \in Seq(Chunk)
  BY <1>1, <1>5 DEF Chunk
<1>7. TypeOK'
  <2>1. wire' \in Seq(Byte)
    BY <1>2, <1>4, <1>6, Concat DEF TypeOK
  <2>2. holder' \in Tasks \cup {Free}
    BY <1>2
  <2> QED BY <1>2, <1>3, <1>4, <1>6, <2>1, <2>2 DEF TypeOK
<1>8. Held'
  <2>1. holder # Free
    BY <1>2, <1>5
  <2> QED BY <1>2, <1>3, <1>4, <1>5, <2>1 DEF Held
<1>9. ASSUME cuts = 0 PROVE Undamaged'
  <2>1. delivered \in Seq(Sendable) /\ reader \in {"reading", "eof"} /\ Aligned
    BY <1>4, <1>9 DEF Undamaged
  <2>2. PICK unread \in Seq(Sendable), r \in Seq(Byte) :
          /\ sent = delivered \o unread
          /\ wire \o r = Stream(unread)
          /\ link = "up" => r = FlattenSeq(writes)
    BY <2>1 DEF Aligned
  <2>3. PICK f : f = FlattenSeq(q)
    OBVIOUS
  <2>4. r = h \o f /\ f \in Seq(Byte)
    <3>1. writes \in Seq(Seq(Byte)) /\ q \in Seq(Seq(Byte)) /\ writes[1] = h
      BY <1>1, <1>5, <1>6 DEF Chunk
    <3>2. FlattenSeq(writes) = h \o f /\ f \in Seq(Byte)
      BY <1>1, <1>5, <2>3, <3>1, FlattenHead, FlattenType
    <3> QED BY <1>2, <2>2, <3>2
  <2>5. (wire \o h) \o f = wire \o (h \o f)
    <3>1. wire \in Seq(Byte)
      BY <1>4 DEF TypeOK
    <3> QED BY <1>6, <2>4, <3>1, Assoc
  <2>6. wire' \o f = Stream(unread)
    BY <1>2, <2>2, <2>4, <2>5, Zenon
  <2>7. Aligned'
    <3>1. sent' = delivered' \o unread /\ f = FlattenSeq(writes')
      BY <1>2, <1>3, <2>2, <2>3
    <3> QED BY <2>4, <2>6, <3>1 DEF Aligned
  <2> QED BY <1>3, <2>1, <2>7 DEF Undamaged
<1> QED BY <1>3, <1>7, <1>8, <1>9 DEF IInv

\* A write on a broken link.
LEMMA WriteFailsKeeps == ASSUME IInv, NEW t \in Tasks, WriteFails(t) PROVE IInv'
<1>1. link = "down" /\ holder' = Free /\ writes' = <<>> /\ todo' = [todo EXCEPT ![t] = <<>>]
  BY DEF WriteFails
<1>2. sent' = sent /\ wire' = wire /\ link' = link /\ cuts' = cuts /\ reader' = reader /\ delivered' = delivered
  BY DEF WriteFails
<1>3. TypeOK /\ Held /\ (cuts = 0 => Undamaged)
  BY DEF IInv
<1>4. TypeOK'
  <2>1. <<>> \in Seq(Sendable) /\ <<>> \in Seq(Chunk)
    OBVIOUS
  <2>2. todo' \in [Tasks -> Seq(Sendable)]
    BY <1>1, <1>3, <2>1 DEF TypeOK
  <2> QED BY <1>1, <1>2, <1>3, <2>1, <2>2 DEF TypeOK
<1>5. Held'
  BY <1>1 DEF Held
<1>6. ASSUME cuts = 0 PROVE Undamaged'
  <2>1. Aligned => Aligned'
    BY <1>1, <1>2 DEF Aligned
  <2> QED BY <1>2, <1>3, <1>6, <2>1 DEF Undamaged
<1> QED BY <1>2, <1>4, <1>5, <1>6 DEF IInv

\* A task that waits is dropped.
LEMMA DropWaitingKeeps == ASSUME IInv, NEW t \in Tasks, DropWaiting(t) PROVE IInv'
<1>1. todo' = [todo EXCEPT ![t] = <<>>]
  BY DEF DropWaiting
<1>2. holder' = holder /\ writes' = writes /\ sent' = sent /\ wire' = wire /\ link' = link
      /\ cuts' = cuts /\ reader' = reader /\ delivered' = delivered
  BY DEF DropWaiting
<1>3. TypeOK /\ Held /\ (cuts = 0 => Undamaged)
  BY DEF IInv
<1>4. TypeOK'
  <2>1. <<>> \in Seq(Sendable)
    OBVIOUS
  <2>2. todo' \in [Tasks -> Seq(Sendable)]
    BY <1>1, <1>3, <2>1 DEF TypeOK
  <2> QED BY <1>2, <1>3, <2>2 DEF TypeOK
<1>5. Held'
  BY <1>2, <1>3 DEF Held
<1>6. ASSUME cuts = 0 PROVE Undamaged'
  <2>1. Aligned => Aligned'
    BY <1>2 DEF Aligned
  <2> QED BY <1>2, <1>3, <1>6, <2>1 DEF Undamaged
<1> QED BY <1>2, <1>4, <1>5, <1>6 DEF IInv

\* A task that writes is dropped.  If none of its packet is written, that packet
\* is the last to come, and without it the rest is still aligned.
LEMMA DropWritingKeeps == ASSUME IInv, NEW t \in Tasks, DropWriting(t) PROVE IInv'
<1>1. PICK n \in 0..(Len(Head(writes)) - 1) :
        LET untouched == n = 0 /\ writes = WritesOf(Last(sent))
        IN  /\ wire' = wire \o SubSeq(Head(writes), 1, n)
            /\ sent' = IF untouched THEN Front(sent) ELSE sent
            /\ cuts' = IF untouched THEN cuts ELSE cuts + 1
  BY DEF DropWriting
<1>2. holder = t /\ link = "up" /\ holder' = Free /\ writes' = <<>> /\ todo' = [todo EXCEPT ![t] = <<>>]
      /\ link' = link /\ reader' = reader /\ delivered' = delivered
  BY DEF DropWriting
<1>3. TypeOK /\ Held /\ (cuts = 0 => Undamaged)
  BY DEF IInv
<1>4. writes \in Seq(Chunk) /\ writes # <<>> /\ sent \in Seq(Sendable) /\ sent # <<>>
      /\ wire \in Seq(Byte) /\ cuts \in Nat
  BY <1>2, <1>3, PacketsAssumption DEF TypeOK, Held
<1>5. PICK a : a = SubSeq(Head(writes), 1, n)
  OBVIOUS
<1>6. a \in Seq(Byte) /\ (n = 0 => a = <<>>)
  <2>1. Head(writes) \in Seq(Byte)
    BY <1>4 DEF Chunk
  <2> QED BY <1>5, <2>1
<1>7. Front(sent) \in Seq(Sendable)
  BY <1>4 DEF Front
<1>8. TypeOK'
  <2>1. <<>> \in Seq(Sendable) /\ <<>> \in Seq(Chunk)
    OBVIOUS
  <2>2. todo' \in [Tasks -> Seq(Sendable)]
    BY <1>2, <1>3, <2>1 DEF TypeOK
  <2>3. wire' \in Seq(Byte)
    BY <1>1, <1>4, <1>5, <1>6, Concat
  <2>4. sent' \in Seq(Sendable) /\ cuts' \in Nat
    BY <1>1, <1>4, <1>7
  <2> QED BY <1>2, <1>3, <2>1, <2>2, <2>3, <2>4 DEF TypeOK
<1>9. Held'
  BY <1>2 DEF Held
<1>10. ASSUME cuts' = 0 PROVE Undamaged'
  <2>1. n = 0 /\ writes = WritesOf(Last(sent)) /\ cuts = 0 /\ sent' = Front(sent) /\ wire' = wire \o a
    BY <1>1, <1>4, <1>5, <1>10
  <2>2. wire' = wire
    BY <1>4, <1>6, <2>1, ConcatEmptySeq
  <2>3. delivered \in Seq(Sendable) /\ reader \in {"reading", "eof"} /\ Aligned
    BY <1>3, <2>1 DEF Undamaged
  <2>4. PICK unread \in Seq(Sendable), r \in Seq(Byte) :
          /\ sent = delivered \o unread
          /\ wire \o r = Stream(unread)
          /\ link = "up" => r = FlattenSeq(writes)
    BY <2>3 DEF Aligned
  <2>5. PICK m, b : m = Last(sent) /\ b = Bytes(m)
    OBVIOUS
  <2>6. m \in Sendable
    BY <1>4, <2>5 DEF Last
  <2>7. r = b /\ b \in Seq(Byte) /\ b # <<>>
    BY <1>2, <2>1, <2>4, <2>5, <2>6, PacketWritten, PacketParts
  <2>8. unread # <<>>
    <3>1. ASSUME unread = <<>> PROVE FALSE
      <4>1. wire \o b = <<>>
        BY <2>4, <2>7, <3>1, StreamEmpty
      <4>2. Len(wire \o b) = Len(wire) + Len(b) /\ Len(wire) \in Nat /\ Len(b) \in Nat
        BY <1>4, <2>7, Concat
      <4> QED BY <2>7, <4>1, <4>2
    <3> QED BY <3>1
  <2>9. PICK u \in Seq(Sendable), l \in Sendable : unread = Append(u, l)
    BY <2>8, SequenceEmptyOrAppend
  <2>10. l = m /\ Front(sent) = delivered \o u
    <3>1. sent = Append(delivered \o u, l) /\ delivered \o u \in Seq(Sendable)
      BY <2>3, <2>4, <2>9
    <3>2. PICK d : d = delivered \o u
      OBVIOUS
    <3>3. sent = Append(d, l) /\ d \in Seq(Sendable)
      BY <3>1, <3>2
    <3>4. Last(sent) = l /\ Front(sent) = d
      BY <3>3 DEF Last, Front
    <3> QED BY <2>5, <3>2, <3>4
  <2>11. wire = Stream(u)
    <3>1. Stream(unread) = Stream(u) \o b /\ Stream(u) \in Seq(Byte)
      BY <2>5, <2>6, <2>9, <2>10, StreamAppend, PackedIs
    <3>2. PICK s : s = Stream(u)
      OBVIOUS
    <3>3. s \in Seq(Byte) /\ wire \o b = s \o b
      BY <2>4, <2>7, <3>1, <3>2
    <3>4. wire = s
      BY <1>4, <2>7, <3>3, ConcatSimplifications
    <3> QED BY <3>2, <3>4
  <2>12. Aligned'
    <3>1. PICK e : e = <<>>
      OBVIOUS
    <3>2. e \in Seq(Byte) /\ e = FlattenSeq(writes') /\ wire' \o e = Stream(u)
      BY <1>2, <1>4, <2>2, <2>11, <3>1, ConcatEmptySeq DEF FlattenSeq
    <3>3. sent' = delivered' \o u
      BY <1>2, <2>1, <2>10
    <3> QED BY <3>2, <3>3 DEF Aligned
  <2> QED BY <1>2, <2>3, <2>12 DEF Undamaged
<1> QED BY <1>8, <1>9, <1>10 DEF IInv

\* What the link loses is added to what does not come.
LEMMA LinkBreaksKeeps == ASSUME IInv, LinkBreaks PROVE IInv'
<1>1. PICK n \in Kept \cup {Len(wire)} : n <= Len(wire) /\ wire' = SubSeq(wire, 1, n)
  BY DEF LinkBreaks
<1>2. link' = "down" /\ todo' = todo /\ holder' = holder /\ writes' = writes /\ sent' = sent
      /\ cuts' = cuts /\ reader' = reader /\ delivered' = delivered
  BY DEF LinkBreaks
<1>3. TypeOK /\ Held /\ (cuts = 0 => Undamaged)
  BY DEF IInv
<1>4. wire \in Seq(Byte)
  BY <1>3 DEF TypeOK
<1>5. n \in 0..Len(wire)
  <2>1. Len(wire) \in Nat
    BY <1>4
  <2> QED BY <1>1, <2>1, LossAssumption
<1>6. PICK lost : lost = SubSeq(wire, n + 1, Len(wire))
  OBVIOUS
<1>7. wire' \in Seq(Byte) /\ lost \in Seq(Byte) /\ wire' \o lost = wire
  <2>1. SubSeq(wire, 1, n) \in Seq(Byte) /\ lost \in Seq(Byte)
    BY <1>4, <1>5, <1>6
  <2>2. SubSeq(wire, 1, n) \o lost = SubSeq(wire, 1, Len(wire))
    <3>1. 1 \in 1..(Len(wire) + 1) /\ n \in (1 - 1)..Len(wire) /\ Len(wire) \in n..Len(wire)
      BY <1>4, <1>5
    <3> QED BY <1>4, <1>6, <3>1, ConcatAdjacentSubSeq
  <2>3. SubSeq(wire, 1, Len(wire)) = wire
    BY <1>4, SubSeqFull
  <2> QED BY <1>1, <2>1, <2>2, <2>3
<1>8. TypeOK'
  BY <1>2, <1>3, <1>7 DEF TypeOK
<1>9. Held'
  BY <1>2, <1>3 DEF Held
<1>10. ASSUME cuts = 0 PROVE Undamaged'
  <2>1. PICK unread \in Seq(Sendable), r \in Seq(Byte) : sent = delivered \o unread /\ wire \o r = Stream(unread)
    BY <1>3, <1>10 DEF Undamaged, Aligned
  <2>2. PICK w : w = wire'
    OBVIOUS
  <2>3. lost \o r \in Seq(Byte) /\ w \o (lost \o r) = (w \o lost) \o r
    BY <1>7, <2>2, Concat, Assoc
  <2>4. wire' \o (lost \o r) = Stream(unread)
    BY <1>7, <2>1, <2>2, <2>3, Zenon
  <2>5. Aligned'
    BY <1>2, <2>1, <2>3, <2>4 DEF Aligned
  <2> QED BY <1>2, <1>3, <1>10, <2>5 DEF Undamaged
<1> QED BY <1>2, <1>8, <1>9, <1>10 DEF IInv

\* The next packet is read, and its message handed out.
LEMMA ReceiveKeeps == ASSUME IInv, Receive PROVE IInv'
<1>1. PICK p : p = ReadPacket(wire)
  OBVIOUS
<1>2. p.ok /\ wire' = p.rest
      /\ delivered' = delivered \o SetToSeq(Dispatch(p.val.command, p.val.payload))
  BY <1>1 DEF Receive
<1>3. todo' = todo /\ holder' = holder /\ writes' = writes /\ sent' = sent /\ link' = link
      /\ cuts' = cuts /\ reader' = reader
  BY DEF Receive
<1>4. TypeOK /\ Held /\ (cuts = 0 => Undamaged)
  BY DEF IInv
<1>5. wire \in Seq(Byte)
  BY <1>4 DEF TypeOK
<1>6. wire' \in Seq(Byte)
  <2>1. <<>> \in Seq(Byte)
    OBVIOUS
  <2>2. Streams(Contents, p, ReadPacket(wire \o <<>>), <<>>)
    BY <1>1, <1>5, <2>1, PacketStreams
  <2>3. \E v \in Contents, u \in Seq(Byte) : p = Got(v, u)
    BY <1>2, <2>2, Parts DEF Streams
  <2> QED BY <1>2, <2>3, Parts
<1>7. TypeOK'
  BY <1>3, <1>4, <1>6 DEF TypeOK
<1>8. Held'
  BY <1>3, <1>4 DEF Held
<1>9. ASSUME cuts = 0 PROVE Undamaged'
  <2>1. delivered \in Seq(Sendable) /\ reader \in {"reading", "eof"} /\ Aligned
    BY <1>4, <1>9 DEF Undamaged
  <2>2. PICK unread \in Seq(Sendable), r \in Seq(Byte) :
          /\ sent = delivered \o unread
          /\ wire \o r = Stream(unread)
          /\ link = "up" => r = FlattenSeq(writes)
    BY <2>1 DEF Aligned
  <2>3. p # Fail("eof")
    BY <1>2, Parts
  <2>4. PICK m, ms : m = Head(unread) /\ ms = Tail(unread)
    OBVIOUS
  <2>5. PICK u \in Seq(Byte) :
          /\ unread # <<>>
          /\ p = Got([command |-> Name[m.cmd], payload |-> EncodeMessage(m)], u)
          /\ u \o r = Stream(ms)
    BY <1>1, <1>5, <2>2, <2>3, <2>4, NextPacket
  <2>6. p.rest = u /\ p.val.command = Name[m.cmd] /\ p.val.payload = EncodeMessage(m)
    BY <2>5, Parts
  <2>7. m \in Sendable /\ ms \in Seq(Sendable) /\ unread = <<m>> \o ms
    BY <2>4, <2>5
  <2>8. delivered' = delivered \o <<m>>
    BY <1>2, <2>6, <2>7, Dispatched, Zenon
  <2>9. delivered' \in Seq(Sendable) /\ sent' = delivered' \o ms
    <3>1. delivered \o <<m>> \in Seq(Sendable)
      BY <2>1, <2>7
    <3>2. delivered \o (<<m>> \o ms) = (delivered \o <<m>>) \o ms
      <4>1. PICK x : x = <<m>>
        OBVIOUS
      <4>2. x \in Seq(Sendable)
        BY <2>7, <4>1
      <4>3. (delivered \o x) \o ms = delivered \o (x \o ms)
        BY <2>1, <2>7, <4>2, ConcatAssociative
      <4> QED BY <4>1, <4>3
    <3> QED BY <1>3, <2>2, <2>7, <2>8, <3>1, <3>2, Zenon
  <2>10. Aligned'
    <3>1. wire' \o r = Stream(ms) /\ (link' = "up" => r = FlattenSeq(writes'))
      BY <1>2, <1>3, <2>2, <2>5, <2>6
    <3> QED BY <2>7, <2>9, <3>1 DEF Aligned
  <2> QED BY <1>3, <2>1, <2>9, <2>10 DEF Undamaged
<1> QED BY <1>3, <1>7, <1>8, <1>9 DEF IInv

\* The receive loop ends.
LEMMA ReceiveFailsKeeps == ASSUME IInv, ReceiveFails PROVE IInv'
<1>1. PICK p : p = ReadPacket(wire)
  OBVIOUS
<1>2. ~p.ok /\ reader' = p.why
  BY <1>1 DEF ReceiveFails
<1>3. todo' = todo /\ holder' = holder /\ writes' = writes /\ sent' = sent /\ wire' = wire
      /\ link' = link /\ cuts' = cuts /\ delivered' = delivered
  BY DEF ReceiveFails
<1>4. TypeOK /\ Held /\ (cuts = 0 => Undamaged)
  BY DEF IInv
<1>5. TypeOK'
  BY <1>3, <1>4 DEF TypeOK
<1>6. Held'
  BY <1>3, <1>4 DEF Held
<1>7. ASSUME cuts = 0 PROVE Undamaged'
  <2>1. PICK unread \in Seq(Sendable), r \in Seq(Byte) : wire \o r = Stream(unread)
    BY <1>4, <1>7 DEF Undamaged, Aligned
  <2>2. wire \in Seq(Byte)
    BY <1>4 DEF TypeOK
  <2>3. p = Fail("eof")
    <3>1. ASSUME NEW x, NEW u, p = Got(x, u) PROVE FALSE
      BY <1>2, <3>1, Parts
    <3>2. \/ ReadPacket(wire) = Fail("eof")
          \/ \E u \in Seq(Byte) :
               ReadPacket(wire) = Got([command |-> Name[Head(unread).cmd],
                                       payload |-> EncodeMessage(Head(unread))], u)
      BY <2>1, <2>2, NextPacket
    <3> QED BY <1>1, <3>1, <3>2
  <2>4. reader' = "eof"
    BY <1>2, <2>3, Parts
  <2>5. Aligned => Aligned'
    BY <1>3 DEF Aligned
  <2> QED BY <1>3, <1>4, <1>7, <2>4, <2>5 DEF Undamaged
<1> QED BY <1>3, <1>5, <1>6, <1>7 DEF IInv

(* What the reader hands out are the messages that were sent, in the order *)
(* in which the lock was taken, as long as no task is dropped inside a     *)
(* packet: for every set of tasks, all their messages and any broken link  *)
(* (messages.rs:170-229, channel.rs:136-145, 206-237).                     *)
THEOREM InOrderSafety == Spec => []InOrder
<1>1. IInv /\ [Next]_vars => IInv'
  <2> SUFFICES ASSUME IInv, [Next]_vars PROVE IInv'
    OBVIOUS
  <2>1. CASE \E t \in Tasks : TaskStep(t) \/ DropWaiting(t) \/ DropWriting(t)
    BY <2>1, TakeLockKeeps, WriteKeeps, WriteFailsKeeps, DropWaitingKeeps, DropWritingKeeps DEF TaskStep
  <2>2. CASE LinkBreaks
    BY <2>2, LinkBreaksKeeps
  <2>3. CASE Receive
    BY <2>3, ReceiveKeeps
  <2>4. CASE ReceiveFails
    BY <2>4, ReceiveFailsKeeps
  <2>5. CASE UNCHANGED vars
    <3>1. todo' = todo /\ holder' = holder /\ writes' = writes /\ sent' = sent /\ wire' = wire
          /\ link' = link /\ cuts' = cuts /\ reader' = reader /\ delivered' = delivered
      BY <2>5 DEF vars
    <3>2. TypeOK' = TypeOK /\ Held' = Held /\ Undamaged' = Undamaged
      BY <3>1 DEF TypeOK, Held, Undamaged, Aligned
    <3> QED BY <3>1, <3>2 DEF IInv
  <2> QED BY <2>1, <2>2, <2>3, <2>4, <2>5 DEF Next
<1>2. IInv => InOrder
  <2> SUFFICES ASSUME IInv, cuts = 0 PROVE IsPrefix(delivered, sent) /\ reader \in {"reading", "eof"}
    BY DEF InOrder
  <2>1. delivered \in Seq(Sendable) /\ reader \in {"reading", "eof"} /\ Aligned
    BY DEF IInv, Undamaged
  <2>2. PICK unread \in Seq(Sendable) : sent = delivered \o unread
    BY <2>1 DEF Aligned
  <2>3. /\ sent \in Seq(Sendable) /\ Len(sent) = Len(delivered) + Len(unread)
        /\ \A i \in 1..Len(delivered) : sent[i] = delivered[i]
    BY <2>1, <2>2
  <2>4. SubSeq(delivered, 1, Len(delivered)) = SubSeq(sent, 1, Len(delivered))
    <3>1. PICK a, b : a = SubSeq(delivered, 1, Len(delivered)) /\ b = SubSeq(sent, 1, Len(delivered))
      OBVIOUS
    <3>2. /\ a \in Seq(Sendable) /\ Len(a) = Len(delivered) /\ \A i \in 1..Len(a) : a[i] = delivered[i]
          /\ b \in Seq(Sendable) /\ Len(b) = Len(delivered) /\ \A i \in 1..Len(b) : b[i] = sent[i]
      BY <2>1, <2>3, <3>1
    <3>3. a = b
      BY <2>3, <3>2, SeqEqual
    <3> QED BY <3>1, <3>3
  <2> QED BY <2>1, <2>3, <2>4 DEF IsPrefix
<1> QED BY IInvInit, <1>1, <1>2, PTL DEF Spec
=============================================================================
