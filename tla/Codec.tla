-------------------------------- MODULE Codec --------------------------------
(***************************************************************************)
(* The binary encoding (src/serial.rs, src/async_serial.rs, src/endian.rs).*)
(* A byte is a digit of base Base, which is 256 in the code; a small base  *)
(* makes all numbers of eight bytes few enough to enumerate.               *)
(*                                                                         *)
(* A decoder takes the bytes in front of it and returns the value and the  *)
(* bytes it left, or the reason why it failed; "eof" is a read_exact that  *)
(* finds too little.  An encoder returns the bytes it writes.              *)
(***************************************************************************)
EXTENDS Integers, Sequences, SequencesExt

CONSTANT Base

ASSUME BaseAssumption == Base \in Nat /\ Base > 3

Byte == 0..(Base - 1)
Base2 == Base * Base

Got(v, rest) == [ok |-> TRUE, val |-> v, rest |-> rest]
Fail(why) == [ok |-> FALSE, why |-> why]

----------------------------------------------------------------------------
(* endian.rs: byte i of a number is the number shifted by i bytes; reading *)
(* ors the shifted bytes together.                                         *)

Le2(v) == <<v % Base, (v \div Base) % Base>>
Le4(v) == Le2(v) \o Le2(v \div Base2)
Le8(v) == Le4(v) \o Le4((v \div Base2) \div Base2)

From2(s) == s[1] + Base * s[2]
From4(s) == From2(s) + Base2 * From2(<<s[3], s[4]>>)
From8(s) == From4(s) + Base2 * (Base2 * From4(<<s[5], s[6], s[7], s[8]>>))

----------------------------------------------------------------------------
(* Numbers of a fixed width.                                               *)

ReadExact(s, n) ==
  IF Len(s) < n THEN Fail("eof") ELSE Got(SubSeq(s, 1, n), SubSeq(s, n + 1, Len(s)))

ReadU8(s)  == IF s = <<>> THEN Fail("eof") ELSE Got(s[1], Tail(s))
ReadU16(s) == LET r == ReadExact(s, 2) IN IF r.ok THEN Got(From2(r.val), r.rest) ELSE r
ReadU32(s) == LET r == ReadExact(s, 4) IN IF r.ok THEN Got(From4(r.val), r.rest) ELSE r
ReadU64(s) == LET r == ReadExact(s, 8) IN IF r.ok THEN Got(From8(r.val), r.rest) ELSE r

\* A signed number goes through the unsigned one of its width (size is the
\* number of values of that width).
AsUnsigned(v, size) == v % size
AsSigned(x, size) == IF 2 * x < size THEN x ELSE x - size

WriteI16(v) == Le2(AsUnsigned(v, Base2))
ReadI16(s) == LET r == ReadU16(s) IN IF r.ok THEN Got(AsSigned(r.val, Base2), r.rest) ELSE r

\* Every byte but 0 is true.
WriteBool(b) == IF b THEN <<1>> ELSE <<0>>
ReadBool(s) == LET r == ReadU8(s) IN IF r.ok THEN Got(r.val # 0, r.rest) ELSE r

----------------------------------------------------------------------------
(* VarInt: one byte, or a marker and two, four or eight bytes.  The bound  *)
(* of four bytes is tested on v \div Base2, which is the same.             *)

Mark2 == Base - 3                          \* 0xFD
Mark4 == Base - 2                          \* 0xFE
Mark8 == Base - 1                          \* 0xFF

VarIntLen(v) ==
  IF v < Mark2 THEN 1 ELSE IF v < Base2 THEN 3 ELSE IF v \div Base2 < Base2 THEN 5 ELSE 9

\* Mutant: the range of one byte ends one later.
EncodeWideByte(v) ==
  CASE v <= Mark2                           -> <<v>>
    [] v > Mark2 /\ v < Base2               -> <<Mark2>> \o Le2(v)
    [] v >= Base2 /\ v \div Base2 < Base2   -> <<Mark4>> \o Le4(v)
    [] v \div Base2 >= Base2                -> <<Mark8>> \o Le8(v)
EncodeVarInt(v) ==
  CASE v < Mark2                            -> <<v>>
    [] v >= Mark2 /\ v < Base2              -> <<Mark2>> \o Le2(v)
    [] v >= Base2 /\ v \div Base2 < Base2   -> <<Mark4>> \o Le4(v)
    [] v \div Base2 >= Base2                -> <<Mark8>> \o Le8(v)

\* A number that a shorter form could hold is refused.
Minimal(r, tooSmall) == IF ~r.ok THEN r ELSE IF tooSmall THEN Fail("NonMinimalVarInt") ELSE r

DecodeVarInt(s) ==
  LET n == ReadU8(s)
      r2 == ReadU16(n.rest)
      r4 == ReadU32(n.rest)
      r8 == ReadU64(n.rest)
  IN  IF ~n.ok THEN n
      ELSE CASE n.val = Mark8 -> Minimal(r8, r8.val \div Base2 < Base2)
             [] n.val = Mark4 -> Minimal(r4, r4.val < Base2)
             [] n.val = Mark2 -> Minimal(r2, r2.val < Mark2)
             [] n.val < Mark2 -> n

\* async_serial.rs: a write for the marker and a write for the number, with an
\* await at each.
VarIntWrites(v) ==
  CASE v < Mark2                            -> <<<<v>>>>
    [] v >= Mark2 /\ v < Base2              -> <<<<Mark2>>, Le2(v)>>
    [] v >= Base2 /\ v \div Base2 < Base2   -> <<<<Mark4>>, Le4(v)>>
    [] v \div Base2 >= Base2                -> <<<<Mark8>>, Le8(v)>>

DecodeVarIntAsync(s) ==
  LET n == ReadU8(s) IN
  IF ~n.ok THEN n
  ELSE CASE n.val = Mark8 -> LET r == ReadU64(n.rest) IN Minimal(r, r.val \div Base2 < Base2)
         [] n.val = Mark4 -> LET r == ReadU32(n.rest) IN Minimal(r, r.val < Base2)
         [] n.val = Mark2 -> LET r == ReadU16(n.rest) IN Minimal(r, r.val < Mark2)
         [] n.val < Mark2 -> n

----------------------------------------------------------------------------
(* Bytes, strings and addresses.                                           *)

\* Vec<u8>, Box<[u8]>, and with the check of from_utf8 strings.  The code takes
\* the memory for the length it reads before the bytes and ends the program if
\* it cannot have it (serial.rs:487); here there are too few bytes then.  Nobody
\* encodes such a length, which only a cut packet brings about.
EncodeBytes(b) == EncodeVarInt(Len(b)) \o b
DecodeBytes(s) == LET n == DecodeVarInt(s) IN IF n.ok THEN ReadExact(n.rest, n.val) ELSE n

\* A byte of 0x80 or more is part of a longer character; of those there are
\* none in the strings written here, and none is well-formed in what is read.
Utf8(b) == \A i \in DOMAIN b : 2 * b[i] < Base
\* An address is [ip |-> bytes of the version, port |-> u16].
Address == [ip : [1..4 -> Byte] \cup [1..16 -> Byte], port : 0..(Base2 - 1)]
OctetsOf == [v \in {4, 6} |-> IF v = 4 THEN 4 ELSE 16]
EncodeIpAddr(ip) == <<IF Len(ip) = 4 THEN 4 ELSE 6>> \o ip
DecodeIpAddr(s) ==
  LET v == ReadU8(s) IN
  IF ~v.ok THEN v
  ELSE IF v.val \in {4, 6} THEN ReadExact(v.rest, OctetsOf[v.val]) ELSE Fail("ParseFailed")

EncodeSocketAddr(a) == EncodeIpAddr(a.ip) \o Le2(a.port)
DecodeSocketAddr(s) ==
  LET i == DecodeIpAddr(s)
      p == ReadU16(i.rest)
  IN  IF ~i.ok THEN i ELSE IF ~p.ok THEN p ELSE Got([ip |-> i.val, port |-> p.val], p.rest)

\* Vec<SocketAddr>: the elements one after the other; the first failure ends it.
\* Of a length for which there is no memory (serial.rs:404) as above.
EncodeAddrs(list) == EncodeVarInt(Len(list)) \o FlattenSeq([i \in DOMAIN list |-> EncodeSocketAddr(list[i])])
DecodeAddrs(s) ==
  LET n == DecodeVarInt(s)
      More(r, i) == LET a == DecodeSocketAddr(r.rest) IN
                    IF ~r.ok THEN r ELSE IF a.ok THEN Got(Append(r.val, a.val), a.rest) ELSE a
  IN  IF n.ok THEN FoldLeft(More, Got(<<>>, n.rest), [i \in 1..n.val |-> i]) ELSE n

----------------------------------------------------------------------------
(* deserialize: what is left over is an error; decode alone does not mind. *)

Whole(r) == IF r.ok /\ r.rest # <<>> THEN Fail("ParseFailed") ELSE r

----------------------------------------------------------------------------
(* What is checked of the numbers in MCPackets over a small base; the first*)
(* two are proved for every base in CodecProofs.                           *)

\* Decoding takes back what encoding wrote and not a byte more, and the
\* announced length is that of the bytes (serial.rs:228-298).
RoundTrip(v, rest) ==
  /\ DecodeVarInt(EncodeVarInt(v) \o rest) = Got(v, rest)
  /\ Len(EncodeVarInt(v)) = VarIntLen(v)

\* A number has one encoding: whatever decodes is what encoding would write.
OneForm(s) == DecodeVarInt(s).ok => s = EncodeVarInt(DecodeVarInt(s).val) \o DecodeVarInt(s).rest

\* The two hand-written copies of the code agree (async_serial.rs:8-61).
CopiesAgree(v, s) ==
  /\ FlattenSeq(VarIntWrites(v)) = EncodeVarInt(v)
  /\ DecodeVarIntAsync(s) = DecodeVarInt(s)
=============================================================================
