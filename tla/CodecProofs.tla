----------------------------- MODULE CodecProofs -----------------------------
(***************************************************************************)
(* Numbers of eight bytes and VarInts survive the round trip, for every    *)
(* base, and a number has one VarInt.  The quotient and the remainder have *)
(* names, Quo and Rem, behind which the arithmetic is kept; two lemmas,    *)
(* Split and Joined, say how the digits of a number come apart and go      *)
(* together, and the rest is about sequences and the three markers.        *)
(***************************************************************************)
EXTENDS Codec, SequenceTheorems, FiniteSetTheorems, WellFoundedInduction, TLAPS

----------------------------------------------------------------------------
(* Arithmetic.                                                             *)

\* Named so that the arithmetic stays out of sight where it is not needed.
Quo(v, b) == v \div b
Rem(v, b) == v % b

\* Division with remainder.
LEMMA Division ==
  ASSUME NEW v \in Nat, NEW b \in Nat \ {0}
  PROVE  /\ Quo(v, b) \in Nat /\ Rem(v, b) \in 0..(b - 1)
         /\ v = (b * Quo(v, b)) + Rem(v, b)
BY SMT DEF Quo, Rem

\* Quotient and remainder are determined by the number.
LEMMA Unique ==
  ASSUME NEW b \in Nat \ {0}, NEW q \in Nat, NEW r \in 0..(b - 1), NEW v, v = (b * q) + r
  PROVE  Quo(v, b) = q /\ Rem(v, b) = r
BY SMT DEF Quo, Rem

\* Splitting by b and then by c is splitting by b * c.
LEMMA Split ==
  ASSUME NEW v \in Nat, NEW b \in Nat \ {0}, NEW c \in Nat \ {0}, NEW p, p = b * c
  PROVE  /\ Quo(v, p) = Quo(Quo(v, b), c)
         /\ Rem(v, p) = Rem(v, b) + (b * Rem(Quo(v, b), c))
<1> DEFINE q == Quo(v, b)  r == Rem(v, b)  qq == Quo(q, c)  rr == Rem(q, c)
<1>1. q \in Nat /\ r \in 0..(b - 1) /\ v = (b * q) + r
  BY Division
<1>2. qq \in Nat /\ rr \in 0..(c - 1) /\ q = (c * qq) + rr
  BY <1>1, Division
<1> HIDE DEF q, r, qq, rr
<1>3. p \in Nat \ {0}
  BY SMT
<1>4. r + (b * rr) \in 0..(p - 1)
  <2>1. b * rr <= b * (c - 1)
    BY <1>2, SMT
  <2>2. b * (c - 1) = (b * c) - b
    BY SMT
  <2>3. b * rr \in Nat /\ b * c \in Nat
    BY <1>2, SMT
  <2> QED BY <1>1, <2>1, <2>2, <2>3, SMT
<1>5. v = (p * qq) + (r + (b * rr))
  BY <1>1, <1>2, SMT
<1>6. Quo(v, p) = qq /\ Rem(v, p) = r + (b * rr)
  BY <1>2, <1>3, <1>4, <1>5, Unique
<1> QED BY <1>6 DEF q, r, qq, rr

\* A number below b * c has a quotient below c.
LEMMA Small ==
  ASSUME NEW v \in Nat, NEW b \in Nat \ {0}, NEW c \in Nat \ {0}, v < b * c
  PROVE  Quo(v, b) < c
<1> DEFINE q == Quo(v, b)
<1>1. q \in Nat /\ Rem(v, b) \in Nat /\ v = (b * q) + Rem(v, b)
  BY Division
<1> HIDE DEF q
<1>2. b * q \in Nat /\ b * c \in Nat
  BY <1>1, SMT
<1>3. b * q <= v
  BY <1>1, <1>2, SMT
<1>4. ASSUME q >= c PROVE FALSE
  <2>1. b * q >= b * c
    BY <1>1, <1>4, SMT
  <2> QED BY <1>2, <1>3, <2>1, SMT
<1> QED BY <1>1, <1>4, SMT DEF q

\* A number below b is its own remainder.
LEMMA SmallRem ==
  ASSUME NEW b \in Nat \ {0}, NEW v \in 0..(b - 1)
  PROVE  Rem(v, b) = v
BY SMT DEF Rem

Base4 == Base2 * Base2
Base8 == Base4 * Base4

\* Orders and products of the bases.
LEMMA Bases ==
  /\ Base \in Nat \ {0} /\ Base > 3
  /\ Base2 \in Nat \ {0} /\ Base2 > Base
  /\ Base4 \in Nat \ {0} /\ Base8 \in Nat \ {0}
  /\ Base2 = Base * Base /\ Base4 = Base2 * Base2 /\ Base8 = Base4 * Base4
<1>1. Base \in Nat \ {0} /\ Base > 3
  BY BaseAssumption
<1>2. Base2 \in Nat \ {0} /\ Base2 > Base
  BY <1>1, SMT DEF Base2
<1>3. Base4 \in Nat \ {0}
  BY <1>2, SMT DEF Base4
<1>4. Base8 \in Nat \ {0}
  BY <1>3, SMT DEF Base8
<1> QED BY <1>1, <1>2, <1>3, <1>4 DEF Base2, Base4, Base8

\* The encodings of endian.rs in terms of quotient and remainder.
LEMMA Le2Bytes == \A v : Le2(v) = <<Rem(v, Base), Rem(Quo(v, Base), Base)>>
BY DEF Le2, Quo, Rem

\* Four bytes are two and two.
LEMMA Le4Halves == \A v : Le4(v) = Le2(v) \o Le2(Quo(v, Base2))
BY DEF Le4, Quo

\* Eight bytes are four and four.
LEMMA Le8Halves == \A v : Le8(v) = Le4(v) \o Le4(Quo(Quo(v, Base2), Base2))
BY DEF Le8, Quo

----------------------------------------------------------------------------
(* Fixed widths.                                                           *)

\* The elements of a concatenation.
LEMMA Concat ==
  ASSUME NEW S, NEW a \in Seq(S), NEW b \in Seq(S)
  PROVE  /\ a \o b \in Seq(S) /\ Len(a \o b) = Len(a) + Len(b)
         /\ \A i \in 1..Len(a) : (a \o b)[i] = a[i]
         /\ \A i \in 1..Len(b) : (a \o b)[Len(a) + i] = b[i]
<1>1. a \o b \in Seq(S) /\ Len(a \o b) = Len(a) + Len(b)
  BY ConcatProperties
<1>2. \A i \in 1..Len(a) + Len(b) : (a \o b)[i] = IF i <= Len(a) THEN a[i] ELSE b[i - Len(a)]
  BY ConcatProperties
<1>3. Len(a) \in Nat /\ Len(b) \in Nat
  OBVIOUS
<1>4. \A i \in 1..Len(a) : (a \o b)[i] = a[i]
  BY <1>2, <1>3
<1>5. \A i \in 1..Len(b) : (a \o b)[Len(a) + i] = b[i]
  BY <1>2, <1>3
<1> QED BY <1>1, <1>4, <1>5

\* A number is written with as many bytes as its width.
LEMMA LeTypes ==
  ASSUME NEW v \in Nat
  PROVE  /\ Le2(v) \in Seq(Byte) /\ Len(Le2(v)) = 2
         /\ Le4(v) \in Seq(Byte) /\ Len(Le4(v)) = 4
         /\ Le8(v) \in Seq(Byte) /\ Len(Le8(v)) = 8
<1>1. \A w \in Nat : Le2(w) \in Seq(Byte) /\ Len(Le2(w)) = 2
  <2> SUFFICES ASSUME NEW w \in Nat PROVE Le2(w) \in Seq(Byte) /\ Len(Le2(w)) = 2
    OBVIOUS
  <2>1. Quo(w, Base) \in Nat /\ Rem(w, Base) \in Byte
    BY Division, Bases DEF Byte
  <2>2. Rem(Quo(w, Base), Base) \in Byte
    BY <2>1, Division, Bases DEF Byte
  <2> DEFINE x == Rem(w, Base)  y == Rem(Quo(w, Base), Base)
  <2>3. x \in Byte /\ y \in Byte
    BY <2>1, <2>2
  <2> HIDE DEF x, y
  <2>4. <<x, y>> \in Seq(Byte) /\ Len(<<x, y>>) = 2
    BY <2>3
  <2> QED BY <2>4, Le2Bytes DEF x, y
<1>2. \A w \in Nat : Le4(w) \in Seq(Byte) /\ Len(Le4(w)) = 4
  <2> SUFFICES ASSUME NEW w \in Nat PROVE Le4(w) \in Seq(Byte) /\ Len(Le4(w)) = 4
    OBVIOUS
  <2> DEFINE a == Le2(w)  b == Le2(Quo(w, Base2))
  <2>1. Quo(w, Base2) \in Nat
    BY Division, Bases
  <2>2. a \in Seq(Byte) /\ b \in Seq(Byte) /\ Len(a) = 2 /\ Len(b) = 2
    BY <1>1, <2>1
  <2> HIDE DEF a, b
  <2>3. a \o b \in Seq(Byte) /\ Len(a \o b) = 4
    BY <2>2, Concat
  <2> QED BY <2>3, Le4Halves DEF a, b
<1>3. Le8(v) \in Seq(Byte) /\ Len(Le8(v)) = 8
  <2> DEFINE a == Le4(v)  b == Le4(Quo(Quo(v, Base2), Base2))
  <2>1. Quo(Quo(v, Base2), Base2) \in Nat
    BY Division, Bases
  <2>2. a \in Seq(Byte) /\ b \in Seq(Byte) /\ Len(a) = 4 /\ Len(b) = 4
    BY <1>2, <2>1
  <2> HIDE DEF a, b
  <2>3. a \o b \in Seq(Byte) /\ Len(a \o b) = Len(a) + Len(b)
    BY <2>2, Concat
  <2>4. Len(a \o b) = 8
    BY <2>2, <2>3
  <2> QED BY <2>3, <2>4, Le8Halves DEF a, b
<1> QED BY <1>1, <1>2, <1>3

\* What reading a concatenation of halves amounts to.
LEMMA Halves ==
  ASSUME NEW a \in Seq(Byte), NEW b \in Seq(Byte)
  PROVE  /\ Len(a) = 2 /\ Len(b) = 2 => From4(a \o b) = From2(a) + (Base2 * From2(b))
         /\ Len(a) = 4 /\ Len(b) = 4 => From8(a \o b) = From4(a) + (Base2 * (Base2 * From4(b)))
<1>1. /\ \A i \in 1..Len(a) : (a \o b)[i] = a[i]
      /\ \A i \in 1..Len(b) : (a \o b)[Len(a) + i] = b[i]
  BY Concat
<1> DEFINE c == a \o b
<1>2. /\ \A i \in 1..Len(a) : c[i] = a[i]
      /\ \A i \in 1..Len(b) : c[Len(a) + i] = b[i]
  BY <1>1
<1> HIDE DEF c
<1>3. ASSUME Len(a) = 2, Len(b) = 2 PROVE From4(c) = From2(a) + (Base2 * From2(b))
  <2>1. c[1] = a[1] /\ c[2] = a[2] /\ c[3] = b[1] /\ c[4] = b[2]
    BY <1>2, <1>3
  <2>2. From2(c) = From2(a) /\ From2(<<c[3], c[4]>>) = From2(b)
    BY <2>1 DEF From2
  <2> QED BY <2>2 DEF From4
<1>4. ASSUME Len(a) = 4, Len(b) = 4 PROVE From8(c) = From4(a) + (Base2 * (Base2 * From4(b)))
  <2>1. /\ c[1] = a[1] /\ c[2] = a[2] /\ c[3] = a[3] /\ c[4] = a[4]
        /\ c[5] = b[1] /\ c[6] = b[2] /\ c[7] = b[3] /\ c[8] = b[4]
    BY <1>2, <1>4
  <2>2. From4(c) = From4(a)
    BY <2>1 DEF From4, From2
  <2>3. From4(<<c[5], c[6], c[7], c[8]>>) = From4(b)
    BY <2>1 DEF From4, From2
  <2> QED BY <2>2, <2>3 DEF From8
<1> QED BY <1>3, <1>4 DEF c

(* Reading what was written gives the number modulo the width.             *)
LEMMA ReadWritten ==
  ASSUME NEW v \in Nat
  PROVE  /\ From2(Le2(v)) = Rem(v, Base2)
         /\ From4(Le4(v)) = Rem(v, Base4)
         /\ From8(Le8(v)) = Rem(v, Base8)
<1>1. \A w \in Nat : From2(Le2(w)) = Rem(w, Base2)
  <2> SUFFICES ASSUME NEW w \in Nat PROVE From2(Le2(w)) = Rem(w, Base2)
    OBVIOUS
  <2>1. Rem(w, Base2) = Rem(w, Base) + (Base * Rem(Quo(w, Base), Base))
    BY Split, Bases
  <2>2. Le2(w)[1] = Rem(w, Base) /\ Le2(w)[2] = Rem(Quo(w, Base), Base)
    BY Le2Bytes
  <2> QED BY <2>1, <2>2 DEF From2
<1>2. \A w \in Nat : From4(Le4(w)) = Rem(w, Base4)
  <2> SUFFICES ASSUME NEW w \in Nat PROVE From4(Le4(w)) = Rem(w, Base4)
    OBVIOUS
  <2>1. Quo(w, Base2) \in Nat
    BY Division, Bases
  <2>2. From4(Le4(w)) = From2(Le2(w)) + (Base2 * From2(Le2(Quo(w, Base2))))
    BY <2>1, LeTypes, Halves, Le4Halves
  <2>3. Rem(w, Base4) = Rem(w, Base2) + (Base2 * Rem(Quo(w, Base2), Base2))
    BY Split, Bases
  <2> QED BY <1>1, <2>1, <2>2, <2>3
<1>3. From8(Le8(v)) = Rem(v, Base8)
  <2> DEFINE h == Quo(Quo(v, Base2), Base2)
  <2>1. Quo(v, Base2) \in Nat /\ h \in Nat /\ h = Quo(v, Base4)
    BY Division, Split, Bases
  <2>2. From8(Le8(v)) = From4(Le4(v)) + (Base2 * (Base2 * From4(Le4(h))))
    BY <2>1, LeTypes, Halves, Le8Halves
  <2>3. Rem(v, Base8) = Rem(v, Base4) + (Base4 * Rem(h, Base4))
    BY <2>1, Split, Bases
  <2>4. Rem(h, Base4) \in Nat /\ Rem(v, Base4) \in Nat
    BY <2>1, Division, Bases
  <2>5. Base4 * Rem(h, Base4) = Base2 * (Base2 * Rem(h, Base4))
    BY <2>4, Bases, SMT DEF Base4
  <2> HIDE DEF h
  <2> QED BY <1>2, <2>1, <2>2, <2>3, <2>5
<1> QED BY <1>1, <1>2, <1>3

----------------------------------------------------------------------------
(* VarInts.                                                                *)

\* A decoder that takes the bytes in front of it leaves the others.
LEMMA ReadFront ==
  ASSUME NEW a \in Seq(Byte), NEW b \in Seq(Byte)
  PROVE  ReadExact(a \o b, Len(a)) = Got(a, b)
<1> DEFINE c == a \o b
<1>1. c \in Seq(Byte) /\ Len(c) = Len(a) + Len(b) /\ Len(a) \in Nat /\ Len(b) \in Nat
  BY Concat
<1>2. /\ \A i \in 1..Len(a) : c[i] = a[i]
      /\ \A i \in 1..Len(b) : c[Len(a) + i] = b[i]
  BY Concat
<1> HIDE DEF c
<1>3. SubSeq(c, 1, Len(a)) = a
  <2>1. \A i \in 1..Len(a) : c[i] \in Byte
    BY <1>1
  <2>2. /\ SubSeq(c, 1, Len(a)) \in Seq(Byte) /\ Len(SubSeq(c, 1, Len(a))) = Len(a)
        /\ \A i \in 1..Len(a) : SubSeq(c, 1, Len(a))[i] = a[i]
    BY <1>1, <1>2, <2>1
  <2> QED BY <2>2, SeqEqual
<1>4. SubSeq(c, Len(a) + 1, Len(c)) = b
  <2>1. \A i \in (Len(a) + 1)..Len(c) : c[i] \in Byte
    BY <1>1
  <2>2. /\ SubSeq(c, Len(a) + 1, Len(c)) \in Seq(Byte) /\ Len(SubSeq(c, Len(a) + 1, Len(c))) = Len(b)
        /\ \A i \in 1..Len(b) : SubSeq(c, Len(a) + 1, Len(c))[i] = b[i]
    BY <1>1, <1>2, <2>1
  <2> QED BY <2>2, SeqEqual
<1>5. ~(Len(c) < Len(a))
  BY <1>1
<1>6. ReadExact(c, Len(a)) = Got(a, b)
  BY <1>3, <1>4, <1>5 DEF ReadExact
<1> QED BY <1>6 DEF c

\* A number of a fixed width is read back, and the rest is left.
LEMMA ReadNumbers ==
  ASSUME NEW v \in Nat, NEW rest \in Seq(Byte)
  PROVE  /\ ReadU16(Le2(v) \o rest) = Got(Rem(v, Base2), rest)
         /\ ReadU32(Le4(v) \o rest) = Got(Rem(v, Base4), rest)
         /\ ReadU64(Le8(v) \o rest) = Got(Rem(v, Base8), rest)
<1>1. /\ ReadExact(Le2(v) \o rest, 2) = Got(Le2(v), rest)
      /\ ReadExact(Le4(v) \o rest, 4) = Got(Le4(v), rest)
      /\ ReadExact(Le8(v) \o rest, 8) = Got(Le8(v), rest)
  BY LeTypes, ReadFront
<1>2. \A x : Got(x, rest).ok /\ Got(x, rest).val = x /\ Got(x, rest).rest = rest
  BY DEF Got
<1>3. ReadU16(Le2(v) \o rest) = Got(Rem(v, Base2), rest)
  <2> DEFINE s == Le2(v) \o rest  x == Le2(v)  r == Got(x, rest)
  <2>1. ReadExact(s, 2) = r /\ r.ok /\ r.val = x /\ r.rest = rest /\ From2(x) = Rem(v, Base2)
    BY <1>1, <1>2, ReadWritten
  <2> HIDE DEF s, x, r
  <2>2. ReadU16(s) = Got(From2(r.val), r.rest)
    BY <2>1, Zenon DEF ReadU16
  <2> QED BY <2>1, <2>2, Zenon DEF s
<1>4. ReadU32(Le4(v) \o rest) = Got(Rem(v, Base4), rest)
  <2> DEFINE s == Le4(v) \o rest  x == Le4(v)  r == Got(x, rest)
  <2>1. ReadExact(s, 4) = r /\ r.ok /\ r.val = x /\ r.rest = rest /\ From4(x) = Rem(v, Base4)
    BY <1>1, <1>2, ReadWritten
  <2> HIDE DEF s, x, r
  <2>2. ReadU32(s) = Got(From4(r.val), r.rest)
    BY <2>1, Zenon DEF ReadU32
  <2> QED BY <2>1, <2>2, Zenon DEF s
<1>5. ReadU64(Le8(v) \o rest) = Got(Rem(v, Base8), rest)
  <2> DEFINE s == Le8(v) \o rest  x == Le8(v)  r == Got(x, rest)
  <2>1. ReadExact(s, 8) = r /\ r.ok /\ r.val = x /\ r.rest = rest /\ From8(x) = Rem(v, Base8)
    BY <1>1, <1>2, ReadWritten
  <2> HIDE DEF s, x, r
  <2>2. ReadU64(s) = Got(From8(r.val), r.rest)
    BY <2>1, Zenon DEF ReadU64
  <2> QED BY <2>1, <2>2, Zenon DEF s
<1> QED BY <1>3, <1>4, <1>5

\* The first byte is read, and the rest is left.
LEMMA ReadMarker ==
  ASSUME NEW m \in Byte, NEW a \in Seq(Byte), NEW rest \in Seq(Byte)
  PROVE  ReadU8((<<m>> \o a) \o rest) = Got(m, a \o rest)
<1>1. <<m>> \in Seq(Byte) /\ Len(<<m>>) = 1 /\ <<m>>[1] = m
  OBVIOUS
<1> DEFINE c == a \o rest
<1>2. c \in Seq(Byte)
  BY Concat
<1>3. (<<m>> \o a) \o rest = <<m>> \o c
  BY <1>1, ConcatAssociative
<1> HIDE DEF c
<1>4. ReadExact(<<m>> \o c, 1) = Got(<<m>>, c)
  BY <1>1, <1>2, ReadFront
<1> DEFINE s == <<m>> \o c
<1>5. s \in Seq(Byte) /\ Len(s) = 1 + Len(c) /\ s[1] = m
  <2>1. \A i \in 1..Len(<<m>>) : s[i] = <<m>>[i]
    BY <1>1, <1>2, Concat
  <2>2. s \in Seq(Byte) /\ Len(s) = Len(<<m>>) + Len(c)
    BY <1>1, <1>2, Concat
  <2> QED BY <1>1, <2>1, <2>2
<1> HIDE DEF s
<1>6. Len(c) \in Nat
  BY <1>2
<1>7. s # <<>>
  BY <1>5, <1>6
<1>8. Tail(s) = SubSeq(s, 2, Len(s))
  BY <1>5, <1>7, TailIsSubSeq
<1>9. SubSeq(s, 2, Len(s)) = c
  BY <1>4, <1>5, <1>6 DEF ReadExact, Got, Fail, s
<1> QED BY <1>3, <1>5, <1>7, <1>8, <1>9 DEF ReadU8, s, c

\* The forms of a VarInt, by the range the number is in.
LEMMA Forms ==
  ASSUME NEW v
  PROVE  /\ EncodeVarInt(v) =
              CASE v < Mark2                           -> <<v>>
                [] v >= Mark2 /\ v < Base2             -> <<Mark2>> \o Le2(v)
                [] v >= Base2 /\ Quo(v, Base2) < Base2 -> <<Mark4>> \o Le4(v)
                [] Quo(v, Base2) >= Base2              -> <<Mark8>> \o Le8(v)
         /\ VarIntLen(v) =
              IF v < Mark2 THEN 1 ELSE IF v < Base2 THEN 3 ELSE IF Quo(v, Base2) < Base2 THEN 5 ELSE 9
BY DEF EncodeVarInt, VarIntLen, Quo

\* The form of a VarInt and its announced length agree.
LEMMA Encoded ==
  ASSUME NEW v \in Nat
  PROVE  /\ v < Mark2 => EncodeVarInt(v) = <<v>> /\ VarIntLen(v) = 1
         /\ v >= Mark2 /\ v < Base2 => EncodeVarInt(v) = <<Mark2>> \o Le2(v) /\ VarIntLen(v) = 3
         /\ v >= Base2 /\ Quo(v, Base2) < Base2 =>
              EncodeVarInt(v) = <<Mark4>> \o Le4(v) /\ VarIntLen(v) = 5
         /\ Quo(v, Base2) >= Base2 => EncodeVarInt(v) = <<Mark8>> \o Le8(v) /\ VarIntLen(v) = 9
<1> DEFINE q == Quo(v, Base2)
<1>1. Mark2 \in Nat /\ Mark2 < Base2 /\ Base2 \in Nat \ {0}
  BY Bases DEF Mark2
<1>2. q \in Nat
  BY Division, <1>1
<1>3. v < Base2 => q = 0
  BY <1>1, SMT DEF Quo
<1> HIDE DEF q
<1>4. ASSUME v < Mark2 PROVE EncodeVarInt(v) = <<v>> /\ VarIntLen(v) = 1
  <2>1. v < Mark2 /\ ~(v >= Mark2) /\ ~(v >= Base2) /\ ~(q >= Base2)
    BY <1>1, <1>2, <1>3, <1>4
  <2> QED BY <2>1, Forms, Zenon DEF q
<1>5. ASSUME v >= Mark2, v < Base2 PROVE EncodeVarInt(v) = <<Mark2>> \o Le2(v) /\ VarIntLen(v) = 3
  <2>1. ~(v < Mark2) /\ v >= Mark2 /\ v < Base2 /\ ~(v >= Base2) /\ ~(q >= Base2)
    BY <1>1, <1>2, <1>3, <1>5
  <2> QED BY <2>1, Forms, Zenon DEF q
<1>6. ASSUME v >= Base2, q < Base2 PROVE EncodeVarInt(v) = <<Mark4>> \o Le4(v) /\ VarIntLen(v) = 5
  <2>1. ~(v < Mark2) /\ ~(v < Base2) /\ v >= Base2 /\ q < Base2 /\ ~(q >= Base2)
    BY <1>1, <1>2, <1>3, <1>6
  <2> QED BY <2>1, Forms, Zenon DEF q
<1>7. ASSUME q >= Base2 PROVE EncodeVarInt(v) = <<Mark8>> \o Le8(v) /\ VarIntLen(v) = 9
  <2>1. ~(v < Mark2) /\ ~(v < Base2) /\ ~(q < Base2) /\ q >= Base2
    BY <1>1, <1>2, <1>3, <1>7
  <2> QED BY <2>1, Forms, Zenon DEF q
<1> QED BY <1>4, <1>5, <1>6, <1>7, Zenon DEF q

\* A number below the bound of a width survives it.
LEMMA Ranges ==
  ASSUME NEW v \in Nat
  PROVE  /\ v < Base2 => Rem(v, Base2) = v
         /\ Quo(v, Base2) < Base2 => v < Base4
         /\ v < Base4 => Rem(v, Base4) = v /\ Quo(v, Base2) < Base2
         /\ v < Base8 => Rem(v, Base8) = v
<1>1. ASSUME Quo(v, Base2) < Base2 PROVE v < Base4
  <2> DEFINE q == Quo(v, Base2)  r == Rem(v, Base2)
  <2>1. q \in Nat /\ r \in 0..(Base2 - 1) /\ v = (Base2 * q) + r /\ q <= Base2 - 1
    BY <1>1, Division, Bases
  <2> HIDE DEF q, r
  <2>2. Base2 * q <= Base2 * (Base2 - 1)
    BY <2>1, Bases, SMT
  <2>3. Base2 * (Base2 - 1) = (Base2 * Base2) - Base2 /\ Base2 * q \in Nat /\ Base2 * Base2 \in Nat
    BY <2>1, Bases, SMT
  <2>4. v < Base2 * Base2
    BY <2>1, <2>2, <2>3, Bases
  <2> QED BY <2>4, Bases
<1>2. v < Base4 => Quo(v, Base2) < Base2
  BY Small, Bases
<1>3. /\ v < Base2 => v \in 0..(Base2 - 1)
      /\ v < Base4 => v \in 0..(Base4 - 1)
      /\ v < Base8 => v \in 0..(Base8 - 1)
  BY Bases
<1> QED BY <1>1, <1>2, <1>3, SmallRem, Bases

\* The three markers are bytes, distinct, and above every number of one byte.
LEMMA Markers ==
  /\ Mark2 \in Byte /\ Mark4 \in Byte /\ Mark8 \in Byte
  /\ Mark2 # Mark4 /\ Mark2 # Mark8 /\ Mark4 # Mark8
  /\ \A v \in Nat : v < Mark2 => v \in Byte /\ v # Mark2 /\ v # Mark4 /\ v # Mark8
  /\ \A b \in Byte : b = Mark8 \/ b = Mark4 \/ b = Mark2 \/ b < Mark2
  /\ ~(Mark2 < Mark2) /\ ~(Mark4 < Mark2) /\ ~(Mark8 < Mark2)
BY BaseAssumption DEF Mark2, Mark4, Mark8, Byte

\* Decoding by the marker.
LEMMA Decoded ==
  ASSUME NEW s, NEW m \in Byte, NEW t, ReadU8(s) = Got(m, t)
  PROVE  /\ m < Mark2 => DecodeVarInt(s) = Got(m, t)
         /\ m = Mark2 => DecodeVarInt(s) = Minimal(ReadU16(t), ReadU16(t).val < Mark2)
         /\ m = Mark4 => DecodeVarInt(s) = Minimal(ReadU32(t), ReadU32(t).val < Base2)
         /\ m = Mark8 => DecodeVarInt(s) = Minimal(ReadU64(t), Quo(ReadU64(t).val, Base2) < Base2)
<1>1. ReadU8(s).ok /\ ReadU8(s).val = m /\ ReadU8(s).rest = t
  BY DEF Got
<1>2. DecodeVarInt(s) =
        CASE m = Mark8 -> Minimal(ReadU64(t), Quo(ReadU64(t).val, Base2) < Base2)
          [] m = Mark4 -> Minimal(ReadU32(t), ReadU32(t).val < Base2)
          [] m = Mark2 -> Minimal(ReadU16(t), ReadU16(t).val < Mark2)
          [] m < Mark2 -> ReadU8(s)
  BY <1>1 DEF DecodeVarInt, Quo
<1>3. m < Mark2 => m # Mark2 /\ m # Mark4 /\ m # Mark8
  BY Markers, Zenon
<1>4. Mark2 # Mark4 /\ Mark2 # Mark8 /\ Mark4 # Mark8
      /\ ~(Mark2 < Mark2) /\ ~(Mark4 < Mark2) /\ ~(Mark8 < Mark2)
  BY Markers
<1> QED BY <1>2, <1>3, <1>4, Zenon

\* What is read after the marker is the number, if it needs that form.
LEMMA DecodedAs ==
  ASSUME NEW s, NEW m \in Byte, NEW t, ReadU8(s) = Got(m, t), NEW v, NEW rest
  PROVE  /\ m = Mark2 /\ ReadU16(t) = Got(v, rest) /\ ~(v < Mark2) => DecodeVarInt(s) = Got(v, rest)
         /\ m = Mark4 /\ ReadU32(t) = Got(v, rest) /\ ~(v < Base2) => DecodeVarInt(s) = Got(v, rest)
         /\ m = Mark8 /\ ReadU64(t) = Got(v, rest) /\ ~(Quo(v, Base2) < Base2)
              => DecodeVarInt(s) = Got(v, rest)
<1>1. Got(v, rest).val = v
  BY DEF Got
<1>2. /\ ~(v < Mark2) => Minimal(Got(v, rest), v < Mark2) = Got(v, rest)
      /\ ~(v < Base2) => Minimal(Got(v, rest), v < Base2) = Got(v, rest)
      /\ ~(Quo(v, Base2) < Base2) => Minimal(Got(v, rest), Quo(v, Base2) < Base2) = Got(v, rest)
  BY DEF Minimal, Got
<1>3. ASSUME m = Mark2, ReadU16(t) = Got(v, rest), ~(v < Mark2) PROVE DecodeVarInt(s) = Got(v, rest)
  <2>1. DecodeVarInt(s) = Minimal(ReadU16(t), ReadU16(t).val < Mark2)
    BY <1>3, Decoded
  <2> QED BY <1>1, <1>2, <1>3, <2>1, Zenon
<1>4. ASSUME m = Mark4, ReadU32(t) = Got(v, rest), ~(v < Base2) PROVE DecodeVarInt(s) = Got(v, rest)
  <2>1. DecodeVarInt(s) = Minimal(ReadU32(t), ReadU32(t).val < Base2)
    BY <1>4, Decoded
  <2> QED BY <1>1, <1>2, <1>4, <2>1, Zenon
<1>5. ASSUME m = Mark8, ReadU64(t) = Got(v, rest), ~(Quo(v, Base2) < Base2)
      PROVE  DecodeVarInt(s) = Got(v, rest)
  <2>1. DecodeVarInt(s) = Minimal(ReadU64(t), Quo(ReadU64(t).val, Base2) < Base2)
    BY <1>5, Decoded
  <2> QED BY <1>1, <1>2, <1>5, <2>1, Zenon
<1> QED BY <1>3, <1>4, <1>5, Zenon

\* A marker in front.
LEMMA Marked ==
  ASSUME NEW m \in Byte, NEW a \in Seq(Byte)
  PROVE  <<m>> \o a \in Seq(Byte) /\ Len(<<m>> \o a) = 1 + Len(a)
<1> DEFINE s == <<m>>
<1>1. s \in Seq(Byte) /\ Len(s) = 1
  OBVIOUS
<1> HIDE DEF s
<1>2. s \o a \in Seq(Byte) /\ Len(s \o a) = Len(s) + Len(a)
  BY <1>1, Concat
<1> QED BY <1>1, <1>2 DEF s

(* Every number of eight bytes comes back from its VarInt, with the bytes  *)
(* that follow untouched, and is as long as VarInt::len announces          *)
(* (serial.rs:228-298), for every base.                                    *)
THEOREM VarIntRoundTrip ==
  \A v \in 0..(Base8 - 1), rest \in Seq(Byte) : RoundTrip(v, rest)
<1> SUFFICES ASSUME NEW v \in Nat, v < Base8, NEW rest \in Seq(Byte)
             PROVE  /\ DecodeVarInt(EncodeVarInt(v) \o rest) = Got(v, rest)
                    /\ Len(EncodeVarInt(v)) = VarIntLen(v)
  BY Bases DEF RoundTrip
<1>1. Quo(v, Base2) \in Nat /\ Base2 \in Nat /\ Mark2 \in Nat
  <2>1. Quo(v, Base2) \in Nat
    BY Division, Bases
  <2> QED BY <2>1, Bases DEF Mark2
<1>2. CASE v < Mark2
  <2>1. EncodeVarInt(v) = <<v>> /\ VarIntLen(v) = 1 /\ v \in Byte
    BY <1>2, Encoded, Markers
  <2>2. <<v>> \o <<>> = <<v>> /\ <<>> \o rest = rest /\ <<>> \in Seq(Byte)
    OBVIOUS
  <2>3. ReadU8(<<v>> \o rest) = Got(v, rest)
    BY <2>1, <2>2, ReadMarker
  <2>4. DecodeVarInt(<<v>> \o rest) = Got(v, rest)
    BY <1>2, <2>1, <2>3, Decoded
  <2> QED BY <2>1, <2>4
<1>3. CASE v >= Mark2 /\ v < Base2
  <2>1. EncodeVarInt(v) = <<Mark2>> \o Le2(v) /\ VarIntLen(v) = 3
    BY <1>3, Encoded
  <2>2. ReadU8((<<Mark2>> \o Le2(v)) \o rest) = Got(Mark2, Le2(v) \o rest)
    BY ReadMarker, LeTypes, Markers
  <2>3. ReadU16(Le2(v) \o rest) = Got(v, rest)
    BY <1>3, ReadNumbers, Ranges
  <2>4. ~(v < Mark2)
    BY <1>1, <1>3
  <2>5. DecodeVarInt((<<Mark2>> \o Le2(v)) \o rest) = Got(v, rest)
    <3> DEFINE s == (<<Mark2>> \o Le2(v)) \o rest  t == Le2(v) \o rest
    <3>1. Mark2 \in Byte
      BY Markers
    <3>2. ReadU8(s) = Got(Mark2, t) /\ ReadU16(t) = Got(v, rest)
      BY <2>2, <2>3
    <3> HIDE DEF s, t
    <3>3. DecodeVarInt(s) = Got(v, rest)
      BY <2>4, <3>1, <3>2, DecodedAs
    <3> QED BY <3>3 DEF s
  <2>6. Len(<<Mark2>> \o Le2(v)) = 3
    <3>1. Le2(v) \in Seq(Byte) /\ Len(Le2(v)) = 2
      BY LeTypes
    <3> DEFINE a == Le2(v)
    <3>2. Mark2 \in Byte
      BY Markers
    <3> HIDE DEF a
    <3>3. a \in Seq(Byte) /\ Len(a) = 2 => Len(<<Mark2>> \o a) = 1 + 2
      BY <3>2, Marked
    <3> QED BY <3>1, <3>3 DEF a
  <2> QED BY <2>1, <2>5, <2>6
<1>4. CASE v >= Base2 /\ Quo(v, Base2) < Base2
  <2>1. EncodeVarInt(v) = <<Mark4>> \o Le4(v) /\ VarIntLen(v) = 5
    BY <1>4, Encoded
  <2>2. ReadU8((<<Mark4>> \o Le4(v)) \o rest) = Got(Mark4, Le4(v) \o rest)
    BY ReadMarker, LeTypes, Markers
  <2>3. ReadU32(Le4(v) \o rest) = Got(v, rest)
    BY <1>4, ReadNumbers, Ranges
  <2>4. ~(v < Base2)
    BY <1>1, <1>4
  <2>5. DecodeVarInt((<<Mark4>> \o Le4(v)) \o rest) = Got(v, rest)
    <3> DEFINE s == (<<Mark4>> \o Le4(v)) \o rest  t == Le4(v) \o rest
    <3>1. Mark4 \in Byte
      BY Markers
    <3>2. ReadU8(s) = Got(Mark4, t) /\ ReadU32(t) = Got(v, rest)
      BY <2>2, <2>3
    <3> HIDE DEF s, t
    <3>3. DecodeVarInt(s) = Got(v, rest)
      BY <2>4, <3>1, <3>2, DecodedAs
    <3> QED BY <3>3 DEF s
  <2>6. Len(<<Mark4>> \o Le4(v)) = 5
    <3>1. Le4(v) \in Seq(Byte) /\ Len(Le4(v)) = 4
      BY LeTypes
    <3> DEFINE a == Le4(v)
    <3>2. Mark4 \in Byte
      BY Markers
    <3> HIDE DEF a
    <3>3. a \in Seq(Byte) /\ Len(a) = 4 => Len(<<Mark4>> \o a) = 1 + 4
      BY <3>2, Marked
    <3> QED BY <3>1, <3>3 DEF a
  <2> QED BY <2>1, <2>5, <2>6
<1>5. CASE Quo(v, Base2) >= Base2
  <2>1. EncodeVarInt(v) = <<Mark8>> \o Le8(v) /\ VarIntLen(v) = 9
    BY <1>5, Encoded
  <2>2. ReadU8((<<Mark8>> \o Le8(v)) \o rest) = Got(Mark8, Le8(v) \o rest)
    BY ReadMarker, LeTypes, Markers
  <2>3. ReadU64(Le8(v) \o rest) = Got(v, rest)
    BY ReadNumbers, Ranges
  <2>4. ~(Quo(v, Base2) < Base2)
    BY <1>1, <1>5
  <2>5. DecodeVarInt((<<Mark8>> \o Le8(v)) \o rest) = Got(v, rest)
    <3> DEFINE s == (<<Mark8>> \o Le8(v)) \o rest  t == Le8(v) \o rest
    <3>1. Mark8 \in Byte
      BY Markers
    <3>2. ReadU8(s) = Got(Mark8, t) /\ ReadU64(t) = Got(v, rest)
      BY <2>2, <2>3
    <3> HIDE DEF s, t
    <3>3. DecodeVarInt(s) = Got(v, rest)
      BY <2>4, <3>1, <3>2, DecodedAs
    <3> QED BY <3>3 DEF s
  <2>6. Len(<<Mark8>> \o Le8(v)) = 9
    <3>1. Le8(v) \in Seq(Byte) /\ Len(Le8(v)) = 8
      BY LeTypes
    <3> DEFINE a == Le8(v)
    <3>2. Mark8 \in Byte
      BY Markers
    <3> HIDE DEF a
    <3>3. a \in Seq(Byte) /\ Len(a) = 8 => Len(<<Mark8>> \o a) = 1 + 8
      BY <3>2, Marked
    <3> QED BY <3>1, <3>3 DEF a
  <2> QED BY <2>1, <2>5, <2>6
<1> QED BY <1>1, <1>2, <1>3, <1>4, <1>5

----------------------------------------------------------------------------
(* The other way round: what is read was written by the encoder.           *)

\* Two halves that are below b make a number with these halves.
LEMMA Joined ==
  ASSUME NEW b \in Nat \ {0}, NEW x \in 0..(b - 1), NEW y \in 0..(b - 1)
  PROVE  /\ x + (b * y) \in 0..((b * b) - 1)
         /\ Quo(x + (b * y), b) = y /\ Rem(x + (b * y), b) = x
<1> DEFINE v == x + (b * y)
<1>1. b * y \in Nat /\ b * b \in Nat /\ b * y <= b * (b - 1) /\ b * (b - 1) = (b * b) - b
  <2>1. b * y \in Nat /\ b * b \in Nat /\ b * (b - 1) = (b * b) - b
    BY SMT
  <2>2. b * y <= b * (b - 1)
    BY SMT
  <2> QED BY <2>1, <2>2
<1>2. v \in 0..((b * b) - 1)
  BY <1>1
<1>3. v = (b * y) + x
  BY <1>1
<1> HIDE DEF v
<1>4. Quo(v, b) = y /\ Rem(v, b) = x
  <2>1. y \in Nat /\ x \in 0..(b - 1)
    OBVIOUS
  <2> QED BY <1>3, <2>1, Unique
<1> QED BY <1>2, <1>4 DEF v

\* The last digits of a number do not depend on the others.
LEMMA LowDigits ==
  ASSUME NEW v \in Nat
  PROVE  /\ Le2(v) = Le2(Rem(v, Base2))
         /\ Le4(v) = Le4(Rem(v, Base4))
<1>1. \A w \in Nat : Le2(w) = Le2(Rem(w, Base2))
  <2> SUFFICES ASSUME NEW w \in Nat PROVE Le2(w) = Le2(Rem(w, Base2))
    OBVIOUS
  <2> DEFINE x == Rem(w, Base)  y == Rem(Quo(w, Base), Base)  u == x + (Base * y)
  <2>1. Rem(w, Base2) = u
    BY Split, Bases
  <2>2. x \in 0..(Base - 1) /\ y \in 0..(Base - 1) /\ Le2(w) = <<x, y>>
    <3>1. Quo(w, Base) \in Nat
      BY Division, Bases
    <3> QED BY <3>1, Division, Bases, Le2Bytes
  <2> HIDE DEF x, y
  <2>3. Quo(u, Base) = y /\ Rem(u, Base) = x /\ Rem(y, Base) = y
    BY <2>2, Joined, SmallRem, Bases
  <2> HIDE DEF u
  <2>4. Le2(u) = <<x, y>>
    BY <2>3, Le2Bytes
  <2> QED BY <2>1, <2>2, <2>4
<1>2. Le4(v) = Le4(Rem(v, Base4))
  <2> DEFINE x == Rem(v, Base2)  h == Quo(v, Base2)  y == Rem(h, Base2)  u == x + (Base2 * y)
  <2>1. h \in Nat /\ x \in 0..(Base2 - 1) /\ x \in Nat
    BY Division, Bases
  <2>2. Rem(v, Base4) = u /\ y \in 0..(Base2 - 1)
    BY <2>1, Split, Division, Bases
  <2>3. Le2(v) = Le2(x) /\ Le2(h) = Le2(y)
    BY <1>1, <2>1
  <2>4. Le4(v) = Le2(v) \o Le2(h)
    BY Le4Halves
  <2> HIDE DEF x, h, y
  <2>5. Quo(u, Base2) = y /\ Rem(u, Base2) = x /\ u \in Nat
    <3>1. u \in 0..((Base2 * Base2) - 1) /\ Quo(u, Base2) = y /\ Rem(u, Base2) = x
      <4>1. Base2 \in Nat \ {0} /\ x \in 0..(Base2 - 1) /\ y \in 0..(Base2 - 1)
        BY <2>1, <2>2, Bases
      <4> QED BY <4>1, Joined, Zenon DEF u
    <3>2. Base2 \in Nat /\ Base2 * Base2 \in Nat
      BY Bases
    <3> HIDE DEF u
    <3> QED BY <3>1, <3>2
  <2> HIDE DEF u
  <2>6. Le2(u) = Le2(x)
    BY <1>1, <2>5
  <2>7. Le4(u) = Le2(x) \o Le2(y)
    BY <2>5, <2>6, Le4Halves
  <2> QED BY <2>2, <2>3, <2>4, <2>7
<1> QED BY <1>1, <1>2

\* A sequence of an even length is its two halves.
LEMMA InHalves ==
  ASSUME NEW c \in Seq(Byte), NEW n \in Nat, Len(c) = n + n
  PROVE  \E a, b \in Seq(Byte) : Len(a) = n /\ Len(b) = n /\ c = a \o b
<1> DEFINE a == SubSeq(c, 1, n)  b == SubSeq(c, n + 1, n + n)
<1>1. \A i \in 1..(n + n) : c[i] \in Byte
  OBVIOUS
<1>2. a \in Seq(Byte) /\ Len(a) = n /\ \A i \in 1..n : a[i] = c[i]
  BY <1>1
<1>3. b \in Seq(Byte) /\ Len(b) = n /\ \A i \in 1..n : b[i] = c[n + i]
  BY <1>1
<1> HIDE DEF a, b
<1>4. a \o b \in Seq(Byte) /\ Len(a \o b) = n + n
  BY <1>2, <1>3, Concat
<1>5. /\ \A i \in 1..n : (a \o b)[i] = c[i]
      /\ \A i \in 1..n : (a \o b)[n + i] = c[n + i]
  <2>1. /\ \A i \in 1..Len(a) : (a \o b)[i] = a[i]
        /\ \A i \in 1..Len(b) : (a \o b)[Len(a) + i] = b[i]
    BY <1>2, <1>3, Concat
  <2> QED BY <1>2, <1>3, <2>1
<1>6. c = a \o b
  <2>1. ASSUME NEW i \in 1..(n + n) PROVE c[i] = (a \o b)[i]
    <3>1. CASE i <= n
      <4>1. i \in 1..n
        BY <3>1
      <4> QED BY <1>5, <4>1
    <3>2. CASE i > n
      <4>1. i - n \in 1..n /\ n + (i - n) = i
        BY <3>2
      <4> QED BY <1>5, <4>1
    <3>3. i <= n \/ i > n
      OBVIOUS
    <3> QED BY <3>1, <3>2, <3>3
  <2> QED BY <1>4, <2>1, SeqEqual
<1> QED BY <1>2, <1>3, <1>6

\* Writing what was read from as many bytes gives these bytes.
LEMMA WrittenRead ==
  ASSUME NEW c \in Seq(Byte)
  PROVE  /\ Len(c) = 2 => From2(c) \in 0..(Base2 - 1) /\ Le2(From2(c)) = c
         /\ Len(c) = 4 => From4(c) \in 0..(Base4 - 1) /\ Le4(From4(c)) = c
         /\ Len(c) = 8 => From8(c) \in 0..(Base8 - 1) /\ Le8(From8(c)) = c
<1>1. \A s \in Seq(Byte) : Len(s) = 2 => From2(s) \in 0..(Base2 - 1) /\ Le2(From2(s)) = s
  <2> SUFFICES ASSUME NEW s \in Seq(Byte), Len(s) = 2
               PROVE  From2(s) \in 0..(Base2 - 1) /\ Le2(From2(s)) = s
    OBVIOUS
  <2> DEFINE x == s[1]  y == s[2]  v == x + (Base * y)
  <2>1. x \in 0..(Base - 1) /\ y \in 0..(Base - 1) /\ s = <<x, y>> /\ From2(s) = v
    <3>1. s[1] \in Byte /\ s[2] \in Byte
      OBVIOUS
    <3>2. s = <<s[1], s[2]>>
      OBVIOUS
    <3> QED BY <3>1, <3>2 DEF Byte, From2
  <2> HIDE DEF x, y
  <2>2. v \in 0..((Base * Base) - 1) /\ Quo(v, Base) = y /\ Rem(v, Base) = x
    BY <2>1, Joined, Bases
  <2> HIDE DEF v
  <2>3. Le2(v) = <<x, Rem(y, Base)>> /\ Rem(y, Base) = y
    BY <2>1, <2>2, Le2Bytes, SmallRem, Bases
  <2>4. v \in 0..(Base2 - 1)
    BY <2>2, Bases
  <2> QED BY <2>1, <2>3, <2>4, Zenon
<1>2. \A s \in Seq(Byte) : Len(s) = 4 => From4(s) \in 0..(Base4 - 1) /\ Le4(From4(s)) = s
  <2> SUFFICES ASSUME NEW s \in Seq(Byte), Len(s) = 4
               PROVE  From4(s) \in 0..(Base4 - 1) /\ Le4(From4(s)) = s
    OBVIOUS
  <2>1. PICK a \in Seq(Byte), b \in Seq(Byte) : Len(a) = 2 /\ Len(b) = 2 /\ s = a \o b
    <3>1. 2 \in Nat /\ Len(s) = 2 + 2
      OBVIOUS
    <3> QED BY <3>1, InHalves
  <2> DEFINE x == From2(a)  y == From2(b)  v == x + (Base2 * y)
  <2>2. x \in 0..(Base2 - 1) /\ y \in 0..(Base2 - 1) /\ Le2(x) = a /\ Le2(y) = b /\ From4(s) = v
    BY <1>1, <2>1, Halves
  <2> HIDE DEF x, y
  <2>3. v \in 0..((Base2 * Base2) - 1) /\ Quo(v, Base2) = y /\ Rem(v, Base2) = x
    BY <2>2, Joined, Bases
  <2> HIDE DEF v
  <2>4. v \in Nat /\ v \in 0..(Base4 - 1)
    BY <2>3, Bases
  <2>5. Le2(v) = a
    <3>1. Le2(v) = Le2(Rem(v, Base2))
      BY <2>3, <2>4, LowDigits
    <3> QED BY <2>2, <2>3, <3>1
  <2>6. Le4(v) = a \o b
    BY <2>2, <2>3, <2>5, Le4Halves
  <2> QED BY <2>1, <2>2, <2>4, <2>6, Zenon
<1>3. Len(c) = 8 => From8(c) \in 0..(Base8 - 1) /\ Le8(From8(c)) = c
  <2> SUFFICES ASSUME Len(c) = 8 PROVE From8(c) \in 0..(Base8 - 1) /\ Le8(From8(c)) = c
    OBVIOUS
  <2>1. PICK a \in Seq(Byte), b \in Seq(Byte) : Len(a) = 4 /\ Len(b) = 4 /\ c = a \o b
    <3>1. 4 \in Nat /\ Len(c) = 4 + 4
      OBVIOUS
    <3> QED BY <3>1, InHalves
  <2> DEFINE x == From4(a)  y == From4(b)  v == x + (Base4 * y)
  <2>2. x \in 0..(Base4 - 1) /\ y \in 0..(Base4 - 1) /\ Le4(x) = a /\ Le4(y) = b
        /\ From8(c) = x + (Base2 * (Base2 * y))
    BY <1>2, <2>1, Halves
  <2> HIDE DEF x, y
  <2>3. Base2 * (Base2 * y) = Base4 * y
    BY <2>2, Bases, SMT DEF Base4
  <2>4. v \in 0..((Base4 * Base4) - 1) /\ Quo(v, Base4) = y /\ Rem(v, Base4) = x
    BY <2>2, Joined, Bases
  <2>5. From8(c) = v
    BY <2>2, <2>3
  <2> HIDE DEF v
  <2>6. v \in Nat /\ v \in 0..(Base8 - 1)
    BY <2>4, Bases
  <2>7. Quo(Quo(v, Base2), Base2) = y
    BY <2>4, <2>6, Split, Bases
  <2>8. Le4(v) = Le4(Rem(v, Base4))
    BY <2>6, LowDigits
  <2>9. Le8(v) = a \o b
    BY <2>2, <2>4, <2>7, <2>8, Le8Halves
  <2> QED BY <2>1, <2>5, <2>6, <2>9, Zenon
<1> QED BY <1>1, <1>2, <1>3

\* What a read of n bytes returns are the bytes in front and the others.
LEMMA ReadParts ==
  ASSUME NEW s \in Seq(Byte), NEW n \in Nat, ReadExact(s, n).ok
  PROVE  \E a, rest \in Seq(Byte) : Len(a) = n /\ s = a \o rest /\ ReadExact(s, n) = Got(a, rest)
<1>1. n <= Len(s)
  BY DEF ReadExact, Fail
<1> DEFINE a == SubSeq(s, 1, n)  rest == SubSeq(s, n + 1, Len(s))
<1>2. \A i \in 1..Len(s) : s[i] \in Byte
  OBVIOUS
<1>3. a \in Seq(Byte) /\ Len(a) = n /\ \A i \in 1..n : a[i] = s[i]
  BY <1>1, <1>2
<1>4. rest \in Seq(Byte) /\ Len(rest) = Len(s) - n /\ \A i \in 1..(Len(s) - n) : rest[i] = s[n + i]
  BY <1>1, <1>2
<1>5. ReadExact(s, n) = Got(a, rest)
  BY <1>1 DEF ReadExact
<1> HIDE DEF a, rest
<1>6. /\ a \o rest \in Seq(Byte) /\ Len(a \o rest) = Len(s)
      /\ \A i \in 1..Len(a) : (a \o rest)[i] = a[i]
      /\ \A i \in 1..Len(rest) : (a \o rest)[Len(a) + i] = rest[i]
  <2>1. Len(a \o rest) = Len(a) + Len(rest)
    BY <1>3, <1>4, Concat
  <2>2. Len(a \o rest) = Len(s)
    BY <1>3, <1>4, <2>1
  <2> QED BY <1>3, <1>4, <2>2, Concat
<1>7. ASSUME NEW i \in 1..Len(s) PROVE s[i] = (a \o rest)[i]
  <2>1. CASE i <= n
    <3>1. i \in 1..n
      BY <2>1
    <3> QED BY <1>3, <1>6, <3>1
  <2>2. CASE i > n
    <3>1. i - n \in 1..(Len(s) - n) /\ n + (i - n) = i
      BY <1>1, <2>2
    <3>2. (a \o rest)[Len(a) + (i - n)] = rest[i - n]
      <4>1. i - n \in 1..Len(rest)
        BY <1>4, <3>1
      <4> QED BY <1>6, <4>1
    <3>3. Len(a) + (i - n) = i
      BY <1>3, <3>1
    <3>4. rest[i - n] = s[n + (i - n)]
      BY <1>4, <3>1
    <3>5. rest[i - n] = s[i]
      BY <3>1, <3>4
    <3> QED BY <3>2, <3>3, <3>5
  <2>3. i <= n \/ i > n
    OBVIOUS
  <2> QED BY <2>1, <2>2, <2>3
<1>8. s = a \o rest
  BY <1>6, <1>7, SeqEqual
<1> QED BY <1>3, <1>4, <1>5, <1>8

\* Concatenation of bytes is associative.
LEMMA Assoc ==
  ASSUME NEW a \in Seq(Byte), NEW b \in Seq(Byte), NEW c \in Seq(Byte)
  PROVE  a \o (b \o c) = (a \o b) \o c
BY ConcatAssociative

\* A number that is read is in front of the input as the encoder writes it.
LEMMA NumbersRead ==
  ASSUME NEW t \in Seq(Byte)
  PROVE  /\ ReadU16(t).ok => \E v \in 0..(Base2 - 1), rest \in Seq(Byte) :
                               ReadU16(t) = Got(v, rest) /\ t = Le2(v) \o rest
         /\ ReadU32(t).ok => \E v \in 0..(Base4 - 1), rest \in Seq(Byte) :
                               ReadU32(t) = Got(v, rest) /\ t = Le4(v) \o rest
         /\ ReadU64(t).ok => \E v \in 0..(Base8 - 1), rest \in Seq(Byte) :
                               ReadU64(t) = Got(v, rest) /\ t = Le8(v) \o rest
<1>1. \A x, rest : Got(x, rest).ok /\ Got(x, rest).val = x /\ Got(x, rest).rest = rest
  BY DEF Got
<1>2. ASSUME ReadU16(t).ok
      PROVE  \E v \in 0..(Base2 - 1), rest \in Seq(Byte) :
               ReadU16(t) = Got(v, rest) /\ t = Le2(v) \o rest
  <2>1. ReadExact(t, 2).ok
    BY <1>2, Zenon DEF ReadU16
  <2>2. PICK a \in Seq(Byte), rest \in Seq(Byte) :
               Len(a) = 2 /\ t = a \o rest /\ ReadExact(t, 2) = Got(a, rest)
    <3>1. 2 \in Nat
      OBVIOUS
    <3> QED BY <2>1, <3>1, ReadParts
  <2>3. ReadU16(t) = Got(From2(a), rest)
    <3> DEFINE r == Got(a, rest)
    <3>1. r.ok /\ r.val = a /\ r.rest = rest /\ ReadExact(t, 2) = r
      BY <1>1, <2>2
    <3> HIDE DEF r
    <3>2. ReadU16(t) = Got(From2(r.val), r.rest)
      BY <3>1, Zenon DEF ReadU16
    <3> QED BY <3>1, <3>2, Zenon
  <2>4. From2(a) \in 0..(Base2 - 1) /\ Le2(From2(a)) = a
    BY <2>2, WrittenRead
  <2> QED BY <2>2, <2>3, <2>4, Zenon
<1>3. ASSUME ReadU32(t).ok
      PROVE  \E v \in 0..(Base4 - 1), rest \in Seq(Byte) :
               ReadU32(t) = Got(v, rest) /\ t = Le4(v) \o rest
  <2>1. ReadExact(t, 4).ok
    BY <1>3, Zenon DEF ReadU32
  <2>2. PICK a \in Seq(Byte), rest \in Seq(Byte) :
               Len(a) = 4 /\ t = a \o rest /\ ReadExact(t, 4) = Got(a, rest)
    <3>1. 4 \in Nat
      OBVIOUS
    <3> QED BY <2>1, <3>1, ReadParts
  <2>3. ReadU32(t) = Got(From4(a), rest)
    <3> DEFINE r == Got(a, rest)
    <3>1. r.ok /\ r.val = a /\ r.rest = rest /\ ReadExact(t, 4) = r
      BY <1>1, <2>2
    <3> HIDE DEF r
    <3>2. ReadU32(t) = Got(From4(r.val), r.rest)
      BY <3>1, Zenon DEF ReadU32
    <3> QED BY <3>1, <3>2, Zenon
  <2>4. From4(a) \in 0..(Base4 - 1) /\ Le4(From4(a)) = a
    BY <2>2, WrittenRead
  <2> QED BY <2>2, <2>3, <2>4, Zenon
<1>4. ASSUME ReadU64(t).ok
      PROVE  \E v \in 0..(Base8 - 1), rest \in Seq(Byte) :
               ReadU64(t) = Got(v, rest) /\ t = Le8(v) \o rest
  <2>1. ReadExact(t, 8).ok
    BY <1>4, Zenon DEF ReadU64
  <2>2. PICK a \in Seq(Byte), rest \in Seq(Byte) :
               Len(a) = 8 /\ t = a \o rest /\ ReadExact(t, 8) = Got(a, rest)
    <3>1. 8 \in Nat
      OBVIOUS
    <3> QED BY <2>1, <3>1, ReadParts
  <2>3. ReadU64(t) = Got(From8(a), rest)
    <3> DEFINE r == Got(a, rest)
    <3>1. r.ok /\ r.val = a /\ r.rest = rest /\ ReadExact(t, 8) = r
      BY <1>1, <2>2
    <3> HIDE DEF r
    <3>2. ReadU64(t) = Got(From8(r.val), r.rest)
      BY <3>1, Zenon DEF ReadU64
    <3> QED BY <3>1, <3>2, Zenon
  <2>4. From8(a) \in 0..(Base8 - 1) /\ Le8(From8(a)) = a
    BY <2>2, WrittenRead
  <2> QED BY <2>2, <2>3, <2>4, Zenon
<1> QED BY <1>2, <1>3, <1>4

\* The first byte and the others.
LEMMA FirstByte ==
  ASSUME NEW s \in Seq(Byte), s # <<>>
  PROVE  s[1] \in Byte /\ Tail(s) \in Seq(Byte) /\ s = <<s[1]>> \o Tail(s)
<1>1. s[1] \in Byte /\ Tail(s) \in Seq(Byte) /\ Len(Tail(s)) = Len(s) - 1 /\ Len(s) >= 1
  OBVIOUS
<1>2. \A i \in 1..(Len(s) - 1) : Tail(s)[i] = s[i + 1]
  OBVIOUS
<1> DEFINE m == <<s[1]>>  t == Tail(s)
<1>3. m \in Seq(Byte) /\ Len(m) = 1 /\ m[1] = s[1]
  BY <1>1
<1>4. t \in Seq(Byte) /\ Len(t) = Len(s) - 1 /\ \A i \in 1..(Len(s) - 1) : t[i] = s[i + 1]
  BY <1>1, <1>2
<1> HIDE DEF m, t
<1>5. m \o t \in Seq(Byte) /\ Len(m \o t) = Len(s)
  <2>1. m \o t \in Seq(Byte) /\ Len(m \o t) = Len(m) + Len(t)
    BY <1>3, <1>4, Concat
  <2> QED BY <1>1, <1>3, <1>4, <2>1
<1>6. /\ \A i \in 1..Len(m) : (m \o t)[i] = m[i]
      /\ \A i \in 1..Len(t) : (m \o t)[Len(m) + i] = t[i]
  <2>1. m \in Seq(Byte) /\ t \in Seq(Byte)
    BY <1>3, <1>4
  <2> QED BY <2>1, Concat
<1>7. ASSUME NEW i \in 1..Len(s) PROVE s[i] = (m \o t)[i]
  <2>1. CASE i = 1
    <3>1. 1 \in 1..Len(m)
      BY <1>3
    <3> QED BY <1>3, <1>6, <2>1, <3>1
  <2>2. CASE i > 1
    <3>1. i - 1 \in 1..Len(t) /\ 1 + (i - 1) = i /\ (i - 1) + 1 = i
      BY <1>4, <2>2
    <3>2. (m \o t)[Len(m) + (i - 1)] = t[i - 1]
      BY <1>6, <3>1
    <3>3. (m \o t)[i] = t[i - 1]
      BY <1>3, <3>1, <3>2
    <3>4. t[i - 1] = s[(i - 1) + 1]
      BY <1>4, <3>1
    <3> QED BY <3>1, <3>3, <3>4
  <2>3. i = 1 \/ i > 1
    OBVIOUS
  <2> QED BY <2>1, <2>2, <2>3
<1>8. s = m \o t
  BY <1>5, <1>7, SeqEqual
<1> QED BY <1>1, <1>8 DEF m, t

(* A number has one VarInt: bytes that decode are what encoding the        *)
(* decoded number writes (the NonMinimalVarInt errors of                   *)
(* serial.rs:266-298), for every base.                                     *)
THEOREM VarIntOneForm == \A s \in Seq(Byte) : OneForm(s)
<1> SUFFICES ASSUME NEW s \in Seq(Byte), DecodeVarInt(s).ok
             PROVE  s = EncodeVarInt(DecodeVarInt(s).val) \o DecodeVarInt(s).rest
  BY DEF OneForm
<1> DEFINE m == s[1]  t == Tail(s)  d == DecodeVarInt(s)
<1>1. s # <<>>
  BY DEF DecodeVarInt, ReadU8, Fail
<1>0. d.ok
  OBVIOUS
<1>2. m \in Byte /\ t \in Seq(Byte) /\ s = <<m>> \o t /\ ReadU8(s) = Got(m, t)
  BY <1>1, FirstByte DEF ReadU8
<1>3. \A x, rest : Got(x, rest).ok /\ Got(x, rest).val = x /\ Got(x, rest).rest = rest
  BY DEF Got
<1>4. \A r, c : Minimal(r, c).ok => r.ok /\ ~c /\ Minimal(r, c) = r
  BY DEF Minimal, Fail
<1> HIDE DEF m, t
<1> SUFFICES s = EncodeVarInt(d.val) \o d.rest
  OBVIOUS
<1>5. CASE m < Mark2
  <2>1. d = Got(m, t)
    BY <1>2, <1>5, Decoded
  <2>2. EncodeVarInt(m) = <<m>>
    <3>1. m \in Nat
      BY <1>2, Bases DEF Byte
    <3> QED BY <1>5, <3>1, Encoded
  <2>3. d.val = m /\ d.rest = t
    BY <1>3, <2>1
  <2> QED BY <1>2, <2>2, <2>3, Zenon
<1>6. CASE m = Mark2
  <2>1. d = Minimal(ReadU16(t), ReadU16(t).val < Mark2)
    BY <1>2, <1>6, Decoded
  <2>2. ReadU16(t).ok /\ ~(ReadU16(t).val < Mark2) /\ d = ReadU16(t)
    <3> DEFINE c == ReadU16(t).val < Mark2  r == ReadU16(t)
    <3>1. d = Minimal(r, c) /\ d.ok
      BY <1>0, <2>1
    <3> HIDE DEF c, r, d
    <3>2. Minimal(r, c).ok
      BY <3>1, Zenon
    <3>3. r.ok /\ ~c /\ Minimal(r, c) = r
      BY <1>4, <3>2, Zenon
    <3> QED BY <3>1, <3>3, Zenon DEF c, r
  <2>3. PICK v \in 0..(Base2 - 1), rest \in Seq(Byte) :
               ReadU16(t) = Got(v, rest) /\ t = Le2(v) \o rest
    BY <1>2, <2>2, NumbersRead
  <2>4. d = Got(v, rest) /\ ~(v < Mark2)
    BY <1>3, <2>2, <2>3, Zenon
  <2>5. EncodeVarInt(v) = <<Mark2>> \o Le2(v)
    <3>1. v \in Nat /\ v < Base2
      BY <2>3, Bases
    <3>2. v >= Mark2 /\ v < Base2
      BY <2>4, <3>1, Bases, Ranges, Division DEF Mark2
    <3> QED BY <3>1, <3>2, Encoded
  <2>6. <<Mark2>> \o (Le2(v) \o rest) = (<<Mark2>> \o Le2(v)) \o rest
    <3>1. Le2(v) \in Seq(Byte)
      <4>1. v \in Nat
        BY <2>3
      <4> QED BY <4>1, LeTypes
    <3>2. Mark2 \in Byte
      BY Markers
    <3> DEFINE f == <<Mark2>>  a == Le2(v)
    <3>3. f \in Seq(Byte)
      BY <3>2
    <3> HIDE DEF f, a
    <3>4. a \in Seq(Byte) => f \o (a \o rest) = (f \o a) \o rest
      BY <2>3, <3>3, Assoc
    <3> QED BY <3>1, <3>4 DEF f, a
  <2>7. d.val = v /\ d.rest = rest
    BY <1>3, <2>4
  <2>8. s = <<Mark2>> \o (Le2(v) \o rest)
    BY <1>2, <1>6, <2>3, Zenon
  <2>9. EncodeVarInt(v) \o rest = <<Mark2>> \o (Le2(v) \o rest)
    BY <2>5, <2>6, Zenon
  <2> QED BY <2>7, <2>8, <2>9, Zenon
<1>7. CASE m = Mark4
  <2>1. d = Minimal(ReadU32(t), ReadU32(t).val < Base2)
    BY <1>2, <1>7, Decoded
  <2>2. ReadU32(t).ok /\ ~(ReadU32(t).val < Base2) /\ d = ReadU32(t)
    <3> DEFINE c == ReadU32(t).val < Base2  r == ReadU32(t)
    <3>1. d = Minimal(r, c) /\ d.ok
      BY <1>0, <2>1
    <3> HIDE DEF c, r, d
    <3>2. Minimal(r, c).ok
      BY <3>1, Zenon
    <3>3. r.ok /\ ~c /\ Minimal(r, c) = r
      BY <1>4, <3>2, Zenon
    <3> QED BY <3>1, <3>3, Zenon DEF c, r
  <2>3. PICK v \in 0..(Base4 - 1), rest \in Seq(Byte) :
               ReadU32(t) = Got(v, rest) /\ t = Le4(v) \o rest
    BY <1>2, <2>2, NumbersRead
  <2>4. d = Got(v, rest) /\ ~(v < Base2)
    BY <1>3, <2>2, <2>3, Zenon
  <2>5. EncodeVarInt(v) = <<Mark4>> \o Le4(v)
    <3>1. v \in Nat /\ v < Base4
      BY <2>3, Bases
    <3>2. v >= Base2 /\ Quo(v, Base2) < Base2
      BY <2>4, <3>1, Bases, Ranges, Division DEF Mark2
    <3> QED BY <3>1, <3>2, Encoded
  <2>6. <<Mark4>> \o (Le4(v) \o rest) = (<<Mark4>> \o Le4(v)) \o rest
    <3>1. Le4(v) \in Seq(Byte)
      <4>1. v \in Nat
        BY <2>3
      <4> QED BY <4>1, LeTypes
    <3>2. Mark4 \in Byte
      BY Markers
    <3> DEFINE f == <<Mark4>>  a == Le4(v)
    <3>3. f \in Seq(Byte)
      BY <3>2
    <3> HIDE DEF f, a
    <3>4. a \in Seq(Byte) => f \o (a \o rest) = (f \o a) \o rest
      BY <2>3, <3>3, Assoc
    <3> QED BY <3>1, <3>4 DEF f, a
  <2>7. d.val = v /\ d.rest = rest
    BY <1>3, <2>4
  <2>8. s = <<Mark4>> \o (Le4(v) \o rest)
    BY <1>2, <1>7, <2>3, Zenon
  <2>9. EncodeVarInt(v) \o rest = <<Mark4>> \o (Le4(v) \o rest)
    BY <2>5, <2>6, Zenon
  <2> QED BY <2>7, <2>8, <2>9, Zenon
<1>8. CASE m = Mark8
  <2>1. d = Minimal(ReadU64(t), Quo(ReadU64(t).val, Base2) < Base2)
    BY <1>2, <1>8, Decoded
  <2>2. ReadU64(t).ok /\ ~(Quo(ReadU64(t).val, Base2) < Base2) /\ d = ReadU64(t)
    <3> DEFINE c == Quo(ReadU64(t).val, Base2) < Base2  r == ReadU64(t)
    <3>1. d = Minimal(r, c) /\ d.ok
      BY <1>0, <2>1
    <3> HIDE DEF c, r, d
    <3>2. Minimal(r, c).ok
      BY <3>1, Zenon
    <3>3. r.ok /\ ~c /\ Minimal(r, c) = r
      BY <1>4, <3>2, Zenon
    <3> QED BY <3>1, <3>3, Zenon DEF c, r
  <2>3. PICK v \in 0..(Base8 - 1), rest \in Seq(Byte) :
               ReadU64(t) = Got(v, rest) /\ t = Le8(v) \o rest
    BY <1>2, <2>2, NumbersRead
  <2>4. d = Got(v, rest) /\ ~(Quo(v, Base2) < Base2)
    BY <1>3, <2>2, <2>3, Zenon
  <2>5. EncodeVarInt(v) = <<Mark8>> \o Le8(v)
    <3>1. v \in Nat /\ v < Base8
      BY <2>3, Bases
    <3>2. Quo(v, Base2) >= Base2
      <4>1. Quo(v, Base2) \in Nat /\ Base2 \in Nat
        BY <3>1, Division, Bases
      <4> DEFINE q == Quo(v, Base2)
      <4> HIDE DEF q
      <4>2. q \in Nat /\ ~(q < Base2)
        BY <2>4, <4>1 DEF q
      <4>3. q >= Base2
        BY <4>1, <4>2
      <4> QED BY <4>3 DEF q
    <3> QED BY <3>1, <3>2, Encoded
  <2>6. <<Mark8>> \o (Le8(v) \o rest) = (<<Mark8>> \o Le8(v)) \o rest
    <3>1. Le8(v) \in Seq(Byte)
      <4>1. v \in Nat
        BY <2>3
      <4> QED BY <4>1, LeTypes
    <3>2. Mark8 \in Byte
      BY Markers
    <3> DEFINE f == <<Mark8>>  a == Le8(v)
    <3>3. f \in Seq(Byte)
      BY <3>2
    <3> HIDE DEF f, a
    <3>4. a \in Seq(Byte) => f \o (a \o rest) = (f \o a) \o rest
      BY <2>3, <3>3, Assoc
    <3> QED BY <3>1, <3>4 DEF f, a
  <2>7. d.val = v /\ d.rest = rest
    BY <1>3, <2>4
  <2>8. s = <<Mark8>> \o (Le8(v) \o rest)
    BY <1>2, <1>8, <2>3, Zenon
  <2>9. EncodeVarInt(v) \o rest = <<Mark8>> \o (Le8(v) \o rest)
    BY <2>5, <2>6, Zenon
  <2> QED BY <2>7, <2>8, <2>9, Zenon
<1>9. m = Mark8 \/ m = Mark4 \/ m = Mark2 \/ m < Mark2
  BY <1>2, Markers
<1> QED BY <1>5, <1>6, <1>7, <1>8, <1>9

----------------------------------------------------------------------------
(* Bytes with their length.                                                *)

\* A VarInt is bytes.
LEMMA VarIntBytes ==
  ASSUME NEW v \in Nat
  PROVE  EncodeVarInt(v) \in Seq(Byte)
<1>1. Quo(v, Base2) \in Nat /\ Base2 \in Nat /\ Mark2 \in Nat /\ Mark2 < Base2
  <2>1. Quo(v, Base2) \in Nat
    BY Division, Bases
  <2> QED BY <2>1, Bases DEF Mark2
<1>2. Mark2 \in Byte /\ Mark4 \in Byte /\ Mark8 \in Byte
  BY Markers
<1>3. Le2(v) \in Seq(Byte) /\ Le4(v) \in Seq(Byte) /\ Le8(v) \in Seq(Byte)
  BY LeTypes
<1>4. /\ <<Mark2>> \o Le2(v) \in Seq(Byte)
      /\ <<Mark4>> \o Le4(v) \in Seq(Byte)
      /\ <<Mark8>> \o Le8(v) \in Seq(Byte)
  BY <1>2, <1>3, Marked
<1>5. CASE v < Mark2
  <2>1. v \in Byte /\ EncodeVarInt(v) = <<v>>
    BY <1>5, Markers, Encoded
  <2> QED BY <2>1
<1>6. CASE v >= Mark2 /\ v < Base2
  BY <1>4, <1>6, Encoded
<1>7. CASE v >= Base2 /\ Quo(v, Base2) < Base2
  BY <1>4, <1>7, Encoded
<1>8. CASE Quo(v, Base2) >= Base2
  BY <1>4, <1>8, Encoded
<1> QED BY <1>1, <1>5, <1>6, <1>7, <1>8

(* Bytes with their length in front come back, with what follows them      *)
(* untouched (Vec<u8> and Box<[u8]>, serial.rs:470-505).                   *)
THEOREM BytesRoundTrip ==
  ASSUME NEW b \in Seq(Byte), Len(b) < Base8, NEW rest \in Seq(Byte)
  PROVE  EncodeBytes(b) \in Seq(Byte) /\ DecodeBytes(EncodeBytes(b) \o rest) = Got(b, rest)
<1>1. Len(b) \in Nat /\ Len(b) \in 0..(Base8 - 1)
  BY Bases
<1> DEFINE n == EncodeVarInt(Len(b))  s == EncodeBytes(b) \o rest
<1>2. n \in Seq(Byte)
  BY <1>1, VarIntBytes
<1>3. b \o rest \in Seq(Byte) /\ n \o b \in Seq(Byte)
  BY <1>2, Concat
<1>4. s = n \o (b \o rest)
  BY <1>2, Assoc DEF EncodeBytes
<1>5. DecodeVarInt(n \o (b \o rest)) = Got(Len(b), b \o rest)
  BY <1>1, <1>3, VarIntRoundTrip DEF RoundTrip
<1>6. ReadExact(b \o rest, Len(b)) = Got(b, rest)
  BY ReadFront
<1> DEFINE r == Got(Len(b), b \o rest)
<1>7. r.ok /\ r.val = Len(b) /\ r.rest = b \o rest
  BY DEF Got
<1>8. DecodeVarInt(s) = r
  BY <1>4, <1>5, Zenon
<1> HIDE DEF r, s, n
<1>9. DecodeBytes(s) = ReadExact(r.rest, r.val)
  BY <1>7, <1>8, Zenon DEF DecodeBytes
<1>10. EncodeBytes(b) = n \o b
  BY DEF EncodeBytes, n
<1>11. EncodeBytes(b) \in Seq(Byte)
  BY <1>3, <1>10, Zenon
<1>12. DecodeBytes(s) = Got(b, rest)
  BY <1>6, <1>7, <1>9, Zenon
<1> QED BY <1>11, <1>12, Zenon DEF s

----------------------------------------------------------------------------
(* Induction and repetition.  The induction is over a set of numbers.      *)

\* A set of numbers has a least element, and contains all if it contains 0 and
\* the successors of its members.
LEMMA Least ==
  ASSUME NEW T \in SUBSET Nat, T # {}
  PROVE  \E x \in T : \A y \in T : x <= y
<1> DEFINE R == OpToRel(<, Nat)
<1>1. IsWellFoundedOn(R, Nat)
  BY NatLessThanWellFounded
<1>2. \A x, y \in Nat : (<<y, x>> \in R) <=> y < x
  BY DEF OpToRel
<1> HIDE DEF R
<1>3. PICK x \in T : \A y \in T : ~ (<<y, x>> \in R)
  BY <1>1, WFMin
<1>4. ASSUME NEW y \in T PROVE x <= y
  <2>1. ~ (<<y, x>> \in R)
    BY <1>3
  <2>2. ~ (y < x)
    BY <1>2, <2>1, Zenon
  <2> QED BY <2>2
<1> QED BY <1>4

LEMMA Induct ==
  ASSUME NEW T, 0 \in T, \A n \in Nat : n \in T => n + 1 \in T
  PROVE  \A n \in Nat : n \in T
<1> SUFFICES ASSUME Nat \ T # {} PROVE FALSE
  OBVIOUS
<1>1. PICK x \in Nat \ T : \A y \in Nat \ T : x <= y
  BY Least
<1>2. x # 0 /\ x - 1 \in Nat
  BY <1>1
<1>3. x - 1 \in T
  BY <1>1, <1>2
<1> QED BY <1>1, <1>2, <1>3

----------------------------------------------------------------------------
(* Repetition.                                                             *)

\* f holds what the first steps make of b.
Iter(step, b, n, f) == f[0] = b /\ \A i \in 1..n : f[i] = step[i][f[i - 1]]

\* There is such an f.
LEMMA IterExists ==
  ASSUME NEW S, NEW b \in S, NEW m \in Nat, NEW step \in [1..m -> [S -> S]]
  PROVE  \E f \in [0..m -> S] : Iter(step, b, m, f)
<1> DEFINE Some(n) == \E f \in [0..n -> S] : Iter(step, b, n, f)
           T == {n \in Nat : n <= m => Some(n)}
<1>1. Some(0)
  <2>1. PICK f : f = [i \in 0..0 |-> b]
    OBVIOUS
  <2>2. f \in [0..0 -> S] /\ f[0] = b
    BY <2>1
  <2> QED BY <2>2 DEF Iter
<1>2. ASSUME NEW n \in Nat, n + 1 <= m, Some(n) PROVE Some(n + 1)
  <2>1. PICK f \in [0..n -> S] : Iter(step, b, n, f)
    BY <1>2
  <2>2. n \in 0..n /\ f[n] \in S /\ n + 1 \in 1..m
    BY <1>2, <2>1
  <2>3. PICK x : x = step[n + 1][f[n]]
    OBVIOUS
  <2>4. x \in S
    BY <2>2, <2>3
  <2>5. PICK g : g = [i \in 0..(n + 1) |-> IF i <= n THEN f[i] ELSE x]
    OBVIOUS
  <2>6. g \in [0..(n + 1) -> S] /\ g[n + 1] = x /\ \A i \in 0..n : g[i] = f[i]
    BY <2>1, <2>4, <2>5
  <2>7. g[0] = b
    <3>1. 0 \in 0..n
      OBVIOUS
    <3> QED BY <2>1, <2>6, <3>1, Zenon DEF Iter
  <2>8. ASSUME NEW i \in 1..(n + 1) PROVE g[i] = step[i][g[i - 1]]
    <3>1. CASE i <= n
      <4>1. i \in 0..n /\ i - 1 \in 0..n /\ i \in 1..n
        BY <3>1
      <4>2. g[i] = f[i] /\ g[i - 1] = f[i - 1]
        BY <2>6, <4>1
      <4>3. f[i] = step[i][f[i - 1]]
        BY <2>1, <4>1 DEF Iter
      <4> QED BY <4>2, <4>3, Zenon
    <3>2. CASE i = n + 1
      <4>1. i - 1 = n /\ n \in 0..n
        BY <3>2
      <4>2. g[n] = f[n]
        BY <2>6, <4>1
      <4> QED BY <2>3, <2>6, <3>2, <4>1, <4>2, Zenon
    <3> QED BY <3>1, <3>2
  <2>9. Iter(step, b, n + 1, g)
    BY <2>7, <2>8, Zenon DEF Iter
  <2> QED BY <2>6, <2>9
<1> HIDE DEF Some
<1>3. 0 \in T
  BY <1>1
<1>4. ASSUME NEW n \in Nat, n \in T PROVE n + 1 \in T
  BY <1>2, <1>4
<1>5. m \in T
  <2> HIDE DEF T
  <2>1. \A n \in Nat : n \in T
    BY <1>3, <1>4, Induct
  <2> QED BY <2>1
<1>6. Some(m)
  BY <1>5
<1> QED BY <1>6 DEF Some

----------------------------------------------------------------------------
(* Concatenation of the elements of a sequence.                            *)

\* The i-th step appends the i-th element.
Appending(S, p) == [i \in 1..Len(p) |-> [x \in Seq(S) |-> x \o p[i]]]

\* Its type, for IterExists.
LEMMA AppendingType ==
  ASSUME NEW S, NEW p \in Seq(Seq(S))
  PROVE  /\ Len(p) \in Nat /\ <<>> \in Seq(S)
         /\ Appending(S, p) \in [1..Len(p) -> [Seq(S) -> Seq(S)]]
<1>1. \A i \in 1..Len(p) : p[i] \in Seq(S)
  OBVIOUS
<1>2. ASSUME NEW i \in 1..Len(p), NEW x \in Seq(S) PROVE x \o p[i] \in Seq(S)
  BY <1>1, ConcatProperties
<1> QED BY <1>2 DEF Appending

\* f holds the concatenations of the first n elements of p.
Partial(p, n, f) == f[0] = <<>> /\ \A i \in 1..n : f[i] = f[i - 1] \o p[i]

\* There is only one such f, and FlattenSeq is its last value.
LEMMA PartialUnique ==
  ASSUME NEW p, NEW n \in Nat, NEW f, NEW g, Partial(p, n, f), Partial(p, n, g)
  PROVE  f[n] = g[n]
<1> DEFINE T == {i \in Nat : i <= n => f[i] = g[i]}
<1>1. 0 \in T
  BY DEF Partial
<1>2. ASSUME NEW i \in Nat, i \in T PROVE i + 1 \in T
  <2> SUFFICES ASSUME i + 1 <= n PROVE f[i + 1] = g[i + 1]
    OBVIOUS
  <2>1. i + 1 \in 1..n /\ (i + 1) - 1 = i /\ i <= n
    OBVIOUS
  <2>2. f[i] = g[i]
    BY <1>2, <2>1
  <2>3. f[i + 1] = f[i] \o p[i + 1] /\ g[i + 1] = g[i] \o p[i + 1]
    BY <2>1 DEF Partial
  <2> QED BY <2>2, <2>3, Zenon
<1>3. n \in T
  <2> HIDE DEF T
  <2>1. \A i \in Nat : i \in T
    BY <1>1, <1>2, Induct
  <2> QED BY <2>1
<1> QED BY <1>3

LEMMA FlattenIs ==
  ASSUME NEW S, NEW p \in Seq(Seq(S))
  PROVE  \E f \in [0..Len(p) -> Seq(S)] : Partial(p, Len(p), f) /\ FlattenSeq(p) = f[Len(p)]
<1>1. PICK f \in [0..Len(p) -> Seq(S)] : Iter(Appending(S, p), <<>>, Len(p), f)
  BY AppendingType, IterExists
<1>2. ASSUME p # <<>> PROVE FlattenSeq(p) = f[Len(p)]
  <2> DEFINE Eqn(g) == g = [i \in 1..Len(p) |-> IF i = 1 THEN p[i] ELSE g[i - 1] \o p[i]]
  <2>1. FlattenSeq(p) = (CHOOSE g : Eqn(g))[Len(p)]
    BY <1>2 DEF FlattenSeq
  <2>2. \A i \in 1..Len(p) : f[i] \in Seq(S) /\ p[i] \in Seq(S) /\ f[i - 1] \in Seq(S)
    OBVIOUS
  <2>3. ASSUME NEW i \in 1..Len(p) PROVE f[i] = f[i - 1] \o p[i]
    BY <1>1, <2>2 DEF Iter, Appending
  <2>4. f[0] = <<>> /\ f[1] = p[1]
    <3>1. f[0] = <<>>
      BY <1>1 DEF Iter
    <3>2. 1 \in 1..Len(p) /\ 1 - 1 = 0
      BY <1>2
    <3>3. p[1] \in Seq(S) /\ f[1] = <<>> \o p[1]
      BY <2>2, <2>3, <3>1, <3>2
    <3>4. <<>> \o p[1] = p[1]
      BY <3>3, ConcatEmptySeq
    <3> QED BY <3>1, <3>3, <3>4
  <2>5. PICK e : e = [i \in 1..Len(p) |-> f[i]]
    OBVIOUS
  <2>12. Eqn(e)
    <3>1. ASSUME NEW i \in 1..Len(p) PROVE e[i] = IF i = 1 THEN p[i] ELSE e[i - 1] \o p[i]
      <4>1. CASE i = 1
        BY <2>4, <2>5, <4>1
      <4>2. CASE i # 1
        <5>1. i - 1 \in 1..Len(p)
          BY <4>2
        <5>2. e[i - 1] = f[i - 1] /\ e[i] = f[i]
          BY <2>5, <5>1
        <5> QED BY <2>3, <4>2, <5>2, Zenon
      <4> QED BY <4>1, <4>2
    <3> QED BY <2>5, <3>1
  <2>6. PICK g : g = (CHOOSE h : Eqn(h))
    OBVIOUS
  <2>7. Eqn(g)
    BY <2>12, <2>6, Zenon
  <2> DEFINE T == {i \in Nat : i + 1 <= Len(p) => g[i + 1] = f[i + 1]}
  <2>8. 0 \in T
    BY <2>4, <2>7
  <2>9. ASSUME NEW i \in Nat, i \in T PROVE i + 1 \in T
    <3> SUFFICES ASSUME (i + 1) + 1 <= Len(p) PROVE g[(i + 1) + 1] = f[(i + 1) + 1]
      OBVIOUS
    <3>1. (i + 1) + 1 \in 1..Len(p) /\ (i + 1) + 1 # 1 /\ ((i + 1) + 1) - 1 = i + 1 /\ i + 1 <= Len(p)
      OBVIOUS
    <3>2. g[i + 1] = f[i + 1]
      BY <2>9, <3>1
    <3>3. g[(i + 1) + 1] = g[i + 1] \o p[(i + 1) + 1]
      BY <2>7, <3>1
    <3>4. f[(i + 1) + 1] = f[i + 1] \o p[(i + 1) + 1]
      BY <2>3, <3>1
    <3> QED BY <3>2, <3>3, <3>4, Zenon
  <2>10. Len(p) - 1 \in T /\ (Len(p) - 1) + 1 = Len(p)
    <3> HIDE DEF T
    <3>1. \A i \in Nat : i \in T
      BY <2>8, <2>9, Induct
    <3>2. Len(p) - 1 \in Nat /\ (Len(p) - 1) + 1 = Len(p)
      BY <1>2
    <3> QED BY <3>1, <3>2
  <2>11. g[Len(p)] = f[Len(p)]
    BY <2>10
  <2> QED BY <2>1, <2>6, <2>11, Zenon
<1>3. ASSUME p = <<>> PROVE FlattenSeq(p) = f[Len(p)]
  BY <1>1, <1>3 DEF FlattenSeq, Iter
<1>4. Partial(p, Len(p), f)
  <2>1. ASSUME NEW i \in 1..Len(p) PROVE f[i] = f[i - 1] \o p[i]
    <3>1. f[i - 1] \in Seq(S)
      OBVIOUS
    <3> QED BY <1>1, <3>1 DEF Iter, Appending
  <2> QED BY <1>1, <2>1 DEF Iter, Partial
<1> QED BY <1>2, <1>3, <1>4

\* A concatenation of strings is a string; it may be extended at the end and
\* taken apart at the front.
LEMMA FlattenType ==
  ASSUME NEW S, NEW p \in Seq(Seq(S))
  PROVE  FlattenSeq(p) \in Seq(S) /\ FlattenSeq(<<>>) = <<>>
<1>1. PICK f \in [0..Len(p) -> Seq(S)] : FlattenSeq(p) = f[Len(p)]
  BY FlattenIs
<1>2. FlattenSeq(<<>>) = <<>>
  BY DEF FlattenSeq
<1>3. Len(p) \in 0..Len(p)
  OBVIOUS
<1> QED BY <1>1, <1>2, <1>3

LEMMA FlattenAppend ==
  ASSUME NEW S, NEW p \in Seq(Seq(S)), NEW x \in Seq(S)
  PROVE  FlattenSeq(Append(p, x)) = FlattenSeq(p) \o x
<1>1. PICK q, n : q = Append(p, x) /\ n = Len(p)
  OBVIOUS
<1>2. /\ q \in Seq(Seq(S)) /\ Len(q) = n + 1 /\ q[n + 1] = x /\ n \in Nat
      /\ \A i \in 1..n : q[i] = p[i]
  BY <1>1, AppendProperties
<1>3. PICK f \in [0..n -> Seq(S)] : Partial(p, n, f) /\ FlattenSeq(p) = f[n]
  BY <1>1, FlattenIs
<1>4. PICK g \in [0..(n + 1) -> Seq(S)] : Partial(q, n + 1, g) /\ FlattenSeq(q) = g[n + 1]
  BY <1>2, FlattenIs
<1>5. ASSUME NEW i \in 1..n PROVE g[i] = g[i - 1] \o p[i]
  <2>1. i \in 1..(n + 1) /\ q[i] = p[i]
    BY <1>2
  <2>2. g[i] = g[i - 1] \o q[i]
    BY <1>4, <2>1 DEF Partial
  <2> QED BY <2>1, <2>2, Zenon
<1>6. g[n] = f[n]
  <2>1. Partial(p, n, g)
    BY <1>4, <1>5 DEF Partial
  <2> QED BY <1>2, <1>3, <2>1, PartialUnique
<1>7. g[n + 1] = g[n] \o x
  <2>1. n + 1 \in 1..(n + 1) /\ (n + 1) - 1 = n
    BY <1>2
  <2>2. g[n + 1] = g[(n + 1) - 1] \o q[n + 1]
    BY <1>4, <2>1 DEF Partial
  <2> QED BY <1>2, <2>1, <2>2, Zenon
<1> QED BY <1>1, <1>3, <1>4, <1>6, <1>7, Zenon

LEMMA FlattenHead ==
  ASSUME NEW S, NEW p \in Seq(Seq(S)), p # <<>>
  PROVE  FlattenSeq(p) = p[1] \o FlattenSeq(Tail(p))
<1>1. PICK q, n, h : q = Tail(p) /\ n = Len(p) - 1 /\ h = p[1]
  OBVIOUS
<1>2. /\ q \in Seq(Seq(S)) /\ Len(q) = n /\ n \in Nat /\ Len(p) = n + 1 /\ h \in Seq(S)
      /\ \A i \in 1..n : q[i] = p[i + 1] /\ q[i] \in Seq(S)
  BY <1>1
<1>3. PICK f \in [0..n -> Seq(S)] : Partial(q, n, f) /\ FlattenSeq(q) = f[n]
  BY <1>2, FlattenIs
<1>4. PICK g \in [0..(n + 1) -> Seq(S)] : Partial(p, n + 1, g) /\ FlattenSeq(p) = g[n + 1]
  <2>1. \E g \in [0..Len(p) -> Seq(S)] : Partial(p, Len(p), g) /\ FlattenSeq(p) = g[Len(p)]
    BY FlattenIs
  <2> QED BY <1>2, <2>1, Zenon
<1>5. ASSUME NEW i \in 1..n PROVE f[i] = f[i - 1] \o q[i]
  BY <1>3 DEF Partial
<1>6. ASSUME NEW i \in 1..(n + 1) PROVE g[i] = g[i - 1] \o p[i]
  BY <1>4 DEF Partial
<1> DEFINE E(i) == g[i + 1] = h \o f[i]
           T == {i \in Nat : i <= n => E(i)}
<1>7. E(0)
  <2>1. g[0] = <<>> /\ f[0] = <<>>
    BY <1>3, <1>4 DEF Partial
  <2>2. g[1] = g[0] \o h
    <3>1. 1 \in 1..(n + 1) /\ 1 - 1 = 0
      BY <1>2
    <3> QED BY <1>1, <1>6, <3>1
  <2>3. <<>> \o h = h /\ h \o <<>> = h
    BY <1>2, ConcatEmptySeq
  <2>4. 0 + 1 = 1
    OBVIOUS
  <2> QED BY <2>1, <2>2, <2>3, <2>4, Zenon
<1>8. ASSUME NEW i \in Nat, i + 1 <= n, E(i) PROVE E(i + 1)
  <2>1. i + 1 \in 1..n /\ (i + 1) - 1 = i /\ (i + 1) + 1 \in 1..(n + 1) /\ ((i + 1) + 1) - 1 = i + 1
    BY <1>2, <1>8
  <2>2. g[i + 1] = h \o f[i]
    BY <1>8
  <2>3. g[(i + 1) + 1] = g[i + 1] \o p[(i + 1) + 1]
    BY <1>6, <2>1
  <2>4. f[i + 1] = f[i] \o q[i + 1]
    BY <1>5, <2>1
  <2>5. q[i + 1] = p[(i + 1) + 1] /\ q[i + 1] \in Seq(S)
    BY <1>2, <2>1
  <2>6. f[i] \in Seq(S)
    BY <1>2, <1>3, <1>8
  <2>7. (h \o f[i]) \o q[i + 1] = h \o (f[i] \o q[i + 1])
    <3>1. ASSUME NEW x \in Seq(S), NEW y \in Seq(S), NEW z \in Seq(S)
          PROVE  (x \o y) \o z = x \o (y \o z)
      BY ONLY ConcatAssociative
    <3>2. f[i] \in Seq(S) /\ q[i + 1] \in Seq(S) /\ h \in Seq(S)
      BY <1>2, <2>5, <2>6
    <3> QED BY <3>1, <3>2
  <2> QED BY <2>2, <2>3, <2>4, <2>5, <2>7, Zenon
<1> HIDE DEF E
<1>9. 0 \in T /\ \A i \in Nat : i \in T => i + 1 \in T
  BY <1>2, <1>7, <1>8
<1>10. n \in T
  <2> HIDE DEF T
  <2> QED BY <1>2, <1>9, Induct
<1>11. g[n + 1] = h \o f[n]
  BY <1>2, <1>10 DEF E
<1> QED BY <1>1, <1>3, <1>4, <1>11, Zenon

----------------------------------------------------------------------------
(* Addresses.                                                              *)

\* A function on the first numbers is a sequence.
LEMMA FunctionIsSeq ==
  ASSUME NEW S, NEW n \in Nat, NEW f \in [1..n -> S]
  PROVE  f \in Seq(S) /\ Len(f) = n
<1>1. f \in Seq(S)
  BY SeqDef
<1> QED BY <1>1

\* An element in front is read first.
LEMMA ReadOne ==
  ASSUME NEW m \in Byte, NEW rest \in Seq(Byte)
  PROVE  <<m>> \o rest \in Seq(Byte) /\ ReadU8(<<m>> \o rest) = Got(m, rest)
<1>1. PICK e : e = <<>>
  OBVIOUS
<1>2. e \in Seq(Byte) /\ <<m>> \in Seq(Byte)
  BY <1>1
<1>3. ReadU8((<<m>> \o e) \o rest) = Got(m, e \o rest)
  BY <1>2, ReadMarker
<1>4. <<m>> \o e = <<m>> /\ e \o rest = rest
  BY <1>1, <1>2, ConcatEmptySeq
<1>5. <<m>> \o rest \in Seq(Byte)
  BY <1>2, ConcatProperties
<1> QED BY <1>3, <1>4, <1>5, Zenon

\* An address comes back from its encoding.
LEMMA AddressRoundTrip ==
  ASSUME Base > 6, NEW a \in Address, NEW rest \in Seq(Byte)
  PROVE  EncodeSocketAddr(a) \in Seq(Byte) /\ DecodeSocketAddr(EncodeSocketAddr(a) \o rest) = Got(a, rest)
<1>1. PICK ip, p, v : ip = a.ip /\ p = Le2(a.port) /\ v = IF Len(ip) = 4 THEN 4 ELSE 6
  OBVIOUS
<1>2. ip \in Seq(Byte) /\ v \in {4, 6} /\ Len(ip) = OctetsOf[v]
  <2>1. ip \in [1..4 -> Byte] \/ ip \in [1..16 -> Byte]
    BY <1>1 DEF Address
  <2>2. CASE ip \in [1..4 -> Byte]
    <3>1. ip \in Seq(Byte) /\ Len(ip) = 4
      BY <2>2, FunctionIsSeq
    <3> QED BY <1>1, <3>1 DEF OctetsOf
  <2>3. CASE ip \in [1..16 -> Byte]
    <3>1. ip \in Seq(Byte) /\ Len(ip) = 16
      BY <2>3, FunctionIsSeq
    <3> QED BY <1>1, <3>1 DEF OctetsOf
  <2> QED BY <2>1, <2>2, <2>3
<1>3. a.port \in Nat /\ a.port < Base2 /\ a = [ip |-> ip, port |-> a.port]
  <2>1. a.port \in 0..(Base2 - 1) /\ a = [ip |-> a.ip, port |-> a.port]
    BY DEF Address
  <2> QED BY <1>1, <2>1, Bases
<1>4. p \in Seq(Byte) /\ ReadU16(p \o rest) = Got(a.port, rest)
  <2>1. Rem(a.port, Base2) = a.port
    BY <1>3, Ranges
  <2> QED BY <1>1, <1>3, <2>1, LeTypes, ReadNumbers
<1>5. v \in Byte
  BY <1>2, BaseAssumption DEF Byte
<1>6. PICK s, t : s = p \o rest /\ t = ip \o s
  OBVIOUS
<1>7. s \in Seq(Byte) /\ t \in Seq(Byte)
  BY <1>2, <1>4, <1>6, Concat
<1>8. EncodeIpAddr(ip) = <<v>> \o ip /\ EncodeIpAddr(ip) \in Seq(Byte)
  <2>1. EncodeIpAddr(ip) = <<v>> \o ip
    BY <1>1 DEF EncodeIpAddr
  <2> QED BY <1>2, <1>5, <2>1, ReadOne
<1>9. EncodeSocketAddr(a) = (<<v>> \o ip) \o p /\ EncodeSocketAddr(a) \in Seq(Byte)
  <2>1. EncodeSocketAddr(a) = EncodeIpAddr(ip) \o p
    BY <1>1 DEF EncodeSocketAddr
  <2>2. EncodeIpAddr(ip) \o p \in Seq(Byte)
    BY <1>4, <1>8, Concat
  <2> QED BY <1>8, <2>1, <2>2, Zenon
<1>10. EncodeSocketAddr(a) \o rest = <<v>> \o t
  <2>1. <<v>> \in Seq(Byte)
    BY <1>5
  <2>2. ((<<v>> \o ip) \o p) \o rest = (<<v>> \o ip) \o (p \o rest)
    <3>1. <<v>> \o ip \in Seq(Byte)
      BY <1>2, <2>1, Concat
    <3> QED BY <1>4, <3>1, Assoc
  <2>3. (<<v>> \o ip) \o s = <<v>> \o (ip \o s)
    BY <1>2, <1>7, <2>1, Assoc
  <2> QED BY <1>6, <1>9, <2>2, <2>3, Zenon
<1>11. DecodeIpAddr(<<v>> \o t) = Got(ip, s)
  <2>1. ReadU8(<<v>> \o t) = Got(v, t)
    BY <1>5, <1>7, ReadOne
  <2>2. ReadExact(t, OctetsOf[v]) = Got(ip, s)
    BY <1>2, <1>6, <1>7, ReadFront
  <2>3. /\ Got(v, t).ok /\ Got(v, t).val = v /\ Got(v, t).rest = t
    BY DEF Got
  <2> QED BY <1>2, <2>1, <2>2, <2>3, Zenon DEF DecodeIpAddr
<1>12. DecodeSocketAddr(<<v>> \o t) = Got([ip |-> ip, port |-> a.port], rest)
  <2>1. ReadU16(s) = Got(a.port, rest)
    BY <1>4, <1>6, Zenon
  <2>2. \A x, y : Got(x, y).ok /\ Got(x, y).val = x /\ Got(x, y).rest = y
    BY DEF Got
  <2>3. PICK i, u : i = Got(ip, s) /\ u = Got(a.port, rest)
    OBVIOUS
  <2>4. i.ok /\ i.val = ip /\ i.rest = s /\ u.ok /\ u.val = a.port /\ u.rest = rest
    BY <2>2, <2>3, Zenon
  <2>5. DecodeIpAddr(<<v>> \o t) = i /\ ReadU16(i.rest) = u
    BY <1>11, <2>1, <2>3, <2>4, Zenon
  <2> QED BY <2>4, <2>5 DEF DecodeSocketAddr
<1> QED BY <1>3, <1>9, <1>10, <1>12, Zenon

----------------------------------------------------------------------------
(* Lists of addresses.  The fold of DecodeAddrs goes through the sets of   *)
(* the first numbers, each from the one without its greatest element.      *)

\* What one more address makes of a result.
OneMore(r) ==
  LET a == DecodeSocketAddr(r.rest)
  IN  IF ~r.ok THEN r ELSE IF a.ok THEN Got(Append(r.val, a.val), a.rest) ELSE a

\* The fold of DecodeAddrs.
Loop(base, D, g) ==
  g = [t \in SUBSET D |-> IF t = {} THEN base ELSE OneMore(g[t \ {Max(t)}])]

LEMMA DecodeLoop ==
  ASSUME NEW s, NEW n, n = DecodeVarInt(s), n.ok, n.val \in Nat
  PROVE  DecodeAddrs(s) = (CHOOSE g : Loop(Got(<<>>, n.rest), 1..n.val, g))[1..n.val]
BY DEF DecodeAddrs, FoldLeft, MapThenFoldSet, Loop, OneMore

\* A set of small numbers has a greatest element.
LEMMA Greatest ==
  ASSUME NEW n \in Nat, NEW t \in SUBSET (1..n), t # {}
  PROVE  Max(t) \in t /\ \A y \in t : Max(t) >= y
<1>1. PICK u : u = {n - y : y \in t}
  OBVIOUS
<1>2. u \in SUBSET Nat /\ u # {}
  <2>1. ASSUME NEW y \in t PROVE n - y \in Nat
    OBVIOUS
  <2>2. PICK y \in t : TRUE
    OBVIOUS
  <2>3. n - y \in u
    BY <1>1
  <2> QED BY <1>1, <2>1, <2>3
<1>3. PICK x \in u : \A y \in u : x <= y
  BY <1>2, Least
<1>4. PICK z \in t : x = n - z
  BY <1>1, <1>3
<1>5. ASSUME NEW y \in t PROVE z >= y
  <2>1. n - y \in u
    BY <1>1
  <2>2. n - z <= n - y
    BY <1>3, <1>4, <2>1
  <2> QED BY <2>2
<1> QED BY <1>5 DEF Max

LEMMA LoopResult ==
  ASSUME NEW n \in Nat, NEW r, NEW base, r[0] = base, \A i \in 1..n : r[i] = OneMore(r[i - 1])
  PROVE  (CHOOSE g : Loop(base, 1..n, g))[1..n] = r[n]
<1>1. PICK e : e = [t \in SUBSET (1..n) |-> r[Cardinality(t)]]
  OBVIOUS
<1>2. ASSUME NEW t \in SUBSET (1..n)
      PROVE  e[t] = IF t = {} THEN base ELSE OneMore(e[t \ {Max(t)}])
  <2>1. CASE t = {}
    <3>1. Cardinality(t) = 0
      BY <2>1, FS_EmptySet
    <3> QED BY <1>1, <2>1, <3>1
  <2>2. CASE t # {}
    <3>1. IsFiniteSet(t) /\ Cardinality(t) \in Nat /\ Cardinality(t) <= n
      <4>1. IsFiniteSet(1..n) /\ Cardinality(1..n) = n
        BY FS_Interval
      <4> QED BY <4>1, FS_Subset, FS_CardinalityType
    <3>2. Max(t) \in t
      BY <2>2, Greatest
    <3>3. Cardinality(t \ {Max(t)}) = Cardinality(t) - 1
      BY <3>1, <3>2, FS_RemoveElement
    <3>4. Cardinality(t) # 0
      BY <2>2, <3>1, FS_EmptySet
    <3>5. PICK c : c = Cardinality(t)
      OBVIOUS
    <3>6. c \in 1..n
      BY <3>1, <3>4, <3>5
    <3>7. r[c] = OneMore(r[c - 1])
      BY <3>6
    <3>8. e[t] = r[c] /\ e[t \ {Max(t)}] = r[c - 1]
      BY <1>1, <3>3, <3>5
    <3> QED BY <2>2, <3>7, <3>8
  <2> QED BY <2>1, <2>2
<1>3. Loop(base, 1..n, e)
  BY <1>1, <1>2 DEF Loop
<1>4. PICK g : g = (CHOOSE h : Loop(base, 1..n, h))
  OBVIOUS
<1>5. Loop(base, 1..n, g)
  BY <1>3, <1>4, Zenon
<1> DEFINE E(i) == g[1..i] = r[i]
           T == {i \in Nat : i <= n => E(i)}
<1>6. E(0)
  <2>1. {} \in SUBSET (1..n) /\ 1..0 = {}
    OBVIOUS
  <2>2. g[{}] = base
    BY <1>5, <2>1 DEF Loop
  <2> QED BY <2>1, <2>2
<1>7. ASSUME NEW i \in Nat, i + 1 <= n, E(i) PROVE E(i + 1)
  <2>1. PICK t : t = 1..(i + 1)
    OBVIOUS
  <2>2. t \in SUBSET (1..n) /\ t # {} /\ i + 1 \in t
    <3>1. i + 1 \in Nat /\ 1 <= i + 1
      OBVIOUS
    <3>2. ASSUME NEW y \in 1..(i + 1) PROVE y \in 1..n
      BY <1>7
    <3>3. i + 1 \in t
      BY <2>1, <3>1
    <3> QED BY <2>1, <3>2, <3>3
  <2>3. Max(t) \in t /\ Max(t) >= i + 1
    BY <2>2, Greatest
  <2>4. Max(t) = i + 1
    BY <2>1, <2>3
  <2>5. t \ {Max(t)} = 1..i
    BY <2>1, <2>4
  <2>6. g[t] = OneMore(g[t \ {Max(t)}])
    BY <1>5, <2>2 DEF Loop
  <2>7. r[i + 1] = OneMore(r[i])
    <3>1. i + 1 \in 1..n /\ (i + 1) - 1 = i
      BY <1>7
    <3>2. r[i + 1] = OneMore(r[(i + 1) - 1])
      BY <3>1
    <3> QED BY <3>1, <3>2
  <2> QED BY <1>7, <2>1, <2>5, <2>6, <2>7, Zenon
<1> HIDE DEF E
<1>8. 0 \in T /\ \A i \in Nat : i \in T => i + 1 \in T
  BY <1>6, <1>7
<1>9. n \in T
  <2> HIDE DEF T
  <2> QED BY <1>8, Induct
<1>10. g[1..n] = r[n]
  BY <1>9 DEF E
<1> QED BY <1>4, <1>10, Zenon

\* The encodings of the addresses of a list.
Each(list) == [i \in DOMAIN list |-> EncodeSocketAddr(list[i])]

(* A list of addresses comes back, with what follows it untouched          *)
(* (Vec<SocketAddr>, serial.rs:417-468).                                   *)
THEOREM AddrsRoundTrip ==
  ASSUME Base > 6, NEW list \in Seq(Address), Len(list) < Base8, NEW rest \in Seq(Byte)
  PROVE  EncodeAddrs(list) \in Seq(Byte) /\ DecodeAddrs(EncodeAddrs(list) \o rest) = Got(list, rest)
<1>1. PICK n, p : n = Len(list) /\ p = Each(list)
  OBVIOUS
<1>2. n \in Nat /\ n \in 0..(Base8 - 1) /\ \A i \in 1..n : list[i] \in Address
  BY <1>1, Bases
<1>3. /\ p \in Seq(Seq(Byte)) /\ Len(p) = n
      /\ \A i \in 1..n : p[i] = EncodeSocketAddr(list[i]) /\ p[i] \in Seq(Byte)
  <2>1. ASSUME NEW i \in 1..n PROVE EncodeSocketAddr(list[i]) \in Seq(Byte)
    <3>1. <<>> \in Seq(Byte)
      OBVIOUS
    <3> QED BY <1>2, <3>1, AddressRoundTrip
  <2>2. p = [i \in 1..n |-> EncodeSocketAddr(list[i])]
    BY <1>1 DEF Each
  <2>3. p \in [1..n -> Seq(Byte)]
    BY <2>1, <2>2
  <2>4. p \in Seq(Seq(Byte)) /\ Len(p) = n
    BY <1>2, <2>3, FunctionIsSeq
  <2> QED BY <2>1, <2>2, <2>4
<1> DEFINE Left(i) == FlattenSeq(SubSeq(p, i + 1, n)) \o rest
<1>4. ASSUME NEW i \in 0..n PROVE SubSeq(p, i + 1, n) \in Seq(Seq(Byte)) /\ Left(i) \in Seq(Byte)
  <2>1. SubSeq(p, i + 1, n) \in Seq(Seq(Byte))
    BY <1>2, <1>3
  <2> QED BY <2>1, FlattenType, Concat
<1>5. Left(0) = FlattenSeq(p) \o rest /\ Left(n) = rest
  <2>1. SubSeq(p, 0 + 1, n) = p /\ SubSeq(p, n + 1, n) = <<>>
    BY <1>2, <1>3
  <2>2. FlattenSeq(<<>>) = <<>> /\ <<>> \o rest = rest
    BY ConcatEmptySeq DEF FlattenSeq
  <2> QED BY <2>1, <2>2
<1>6. ASSUME NEW i \in 1..n PROVE Left(i - 1) = p[i] \o Left(i)
  <2>1. PICK q : q = SubSeq(p, (i - 1) + 1, n)
    OBVIOUS
  <2>2. q \in Seq(Seq(Byte)) /\ q # <<>> /\ q[1] = p[i] /\ Tail(q) = SubSeq(p, i + 1, n)
    <3>1. (i - 1) + 1 = i /\ i \in Nat
      OBVIOUS
    <3>2. q \in Seq(Seq(Byte)) /\ Len(q) = (n - i) + 1 /\ \A j \in 1..Len(q) : q[j] = p[(i + j) - 1]
      BY <1>2, <1>3, <2>1, <3>1
    <3>3. 1 \in 1..Len(q) /\ q # <<>>
      BY <1>2, <3>2
    <3>4. q[1] = p[i]
      BY <3>1, <3>2, <3>3
    <3>5. PICK u, w : u = Tail(q) /\ w = SubSeq(p, i + 1, n)
      OBVIOUS
    <3>6. /\ u \in Seq(Seq(Byte)) /\ Len(u) = n - i
          /\ \A j \in 1..(n - i) : u[j] = p[i + j]
      BY <1>2, <3>2, <3>3, <3>5
    <3>7. /\ w \in Seq(Seq(Byte)) /\ Len(w) = n - i
          /\ \A j \in 1..(n - i) : w[j] = p[i + j]
      BY <1>2, <1>3, <3>5
    <3>8. u = w
      BY <3>6, <3>7, SeqEqual
    <3> QED BY <3>2, <3>3, <3>4, <3>5, <3>8
  <2>3. FlattenSeq(q) = q[1] \o FlattenSeq(Tail(q))
    BY <2>2, FlattenHead
  <2>4. FlattenSeq(SubSeq(p, i + 1, n)) \in Seq(Byte) /\ p[i] \in Seq(Byte)
    <3>1. i \in 0..n
      BY <1>2
    <3>2. SubSeq(p, i + 1, n) \in Seq(Seq(Byte))
      BY <1>4, <3>1
    <3> QED BY <1>3, <3>2, FlattenType
  <2>5. (p[i] \o FlattenSeq(SubSeq(p, i + 1, n))) \o rest = p[i] \o Left(i)
    BY <2>4, Assoc
  <2> QED BY <2>1, <2>2, <2>3, <2>5, Zenon
<1>7. PICK r : r = [i \in 0..n |-> Got(SubSeq(list, 1, i), Left(i))]
  OBVIOUS
<1>8. r[0] = Got(<<>>, Left(0)) /\ r[n] = Got(list, rest)
  <2>1. SubSeq(list, 1, 0) = <<>> /\ SubSeq(list, 1, n) = list /\ 0 \in 0..n /\ n \in 0..n
    BY <1>1, <1>2
  <2> HIDE DEF Left
  <2> QED BY <1>5, <1>7, <2>1
<1> HIDE DEF Left
<1>9. ASSUME NEW i \in 1..n PROVE r[i] = OneMore(r[i - 1])
  <2>1. i \in 0..n /\ i - 1 \in 0..n
    BY <1>2
  <2>2. PICK a, b : a = r[i - 1] /\ b = Got(list[i], Left(i))
    OBVIOUS
  <2>3. a.ok /\ a.val = SubSeq(list, 1, i - 1) /\ a.rest = Left(i - 1)
    BY <1>7, <2>1, <2>2 DEF Got
  <2>4. b.ok /\ b.val = list[i] /\ b.rest = Left(i)
    BY <2>2 DEF Got
  <2>5. DecodeSocketAddr(a.rest) = b
    <3>1. a.rest = EncodeSocketAddr(list[i]) \o Left(i)
      BY <1>3, <1>6, <2>3
    <3> QED BY <1>2, <1>4, <2>1, <2>2, <3>1, AddressRoundTrip
  <2>6. Append(SubSeq(list, 1, i - 1), list[i]) = SubSeq(list, 1, i)
    BY <1>1, <1>2
  <2>7. OneMore(a) = Got(Append(a.val, b.val), b.rest)
    BY <2>3, <2>4, <2>5, Zenon DEF OneMore
  <2>8. r[i] = Got(SubSeq(list, 1, i), Left(i))
    BY <1>7, <2>1
  <2> QED BY <2>2, <2>3, <2>4, <2>6, <2>7, <2>8, Zenon
<1>10. PICK s, v : s = EncodeAddrs(list) \o rest /\ v = Got(n, Left(0))
  OBVIOUS
<1>11. EncodeAddrs(list) = EncodeVarInt(n) \o FlattenSeq(p) /\ EncodeAddrs(list) \in Seq(Byte)
  <2>1. EncodeAddrs(list) = EncodeVarInt(n) \o FlattenSeq(p)
    BY <1>1 DEF EncodeAddrs, Each
  <2> QED BY <1>2, <1>3, <2>1, VarIntBytes, FlattenType, Concat
<1>12. s = EncodeVarInt(n) \o Left(0)
  <2>1. (EncodeVarInt(n) \o FlattenSeq(p)) \o rest = EncodeVarInt(n) \o (FlattenSeq(p) \o rest)
    <3>1. EncodeVarInt(n) \in Seq(Byte) /\ FlattenSeq(p) \in Seq(Byte)
      BY <1>2, <1>3, VarIntBytes, FlattenType
    <3> QED BY <3>1, Assoc
  <2> QED BY <1>5, <1>10, <1>11, <2>1, Zenon
<1>13. DecodeVarInt(s) = v
  <2>1. Left(0) \in Seq(Byte)
    BY <1>2, <1>4
  <2> QED BY <1>2, <1>10, <1>12, <2>1, VarIntRoundTrip DEF RoundTrip
<1>14. v.ok /\ v.val = n /\ v.rest = Left(0)
  BY <1>10 DEF Got
<1>15. DecodeAddrs(s) = (CHOOSE g : Loop(Got(<<>>, v.rest), 1..v.val, g))[1..v.val]
  BY <1>2, <1>13, <1>14, DecodeLoop
<1>16. (CHOOSE g : Loop(r[0], 1..n, g))[1..n] = r[n]
  BY <1>2, <1>9, LoopResult
<1>17. DecodeAddrs(s) = Got(list, rest)
  BY <1>8, <1>14, <1>15, <1>16, Zenon
<1> QED BY <1>10, <1>11, <1>17, Zenon

----------------------------------------------------------------------------
(* Decoders of a stream.                                                   *)

\* What b is, if a is read of some bytes and b of these bytes and y after them:
\* the same value, the same failure, or anything if there was too little to read.
Streams(V, a, b, y) ==
  \/ \E v \in V, u \in Seq(Byte) : a = Got(v, u) /\ b = Got(v, u \o y)
  \/ a = Fail("eof")
  \/ \E w : w # "eof" /\ a = Fail(w) /\ b = Fail(w)

\* The parts of a result.
LEMMA Parts ==
  /\ \A v, u : Got(v, u).ok /\ Got(v, u).val = v /\ Got(v, u).rest = u
  /\ \A w : ~Fail(w).ok /\ Fail(w).why = w
BY DEF Got, Fail

\* A read of n bytes.
LEMMA ReadExactStreams ==
  ASSUME NEW s \in Seq(Byte), NEW n \in Nat, NEW y \in Seq(Byte)
  PROVE  Streams({c \in Seq(Byte) : Len(c) = n}, ReadExact(s, n), ReadExact(s \o y, n), y)
<1>1. CASE ReadExact(s, n).ok
  <2>1. PICK a \in Seq(Byte), u \in Seq(Byte) :
          Len(a) = n /\ s = a \o u /\ ReadExact(s, n) = Got(a, u)
    BY <1>1, ReadParts
  <2>2. s \o y = a \o (u \o y) /\ u \o y \in Seq(Byte)
    BY <2>1, Assoc, Concat
  <2>3. ReadExact(s \o y, n) = Got(a, u \o y)
    BY <2>1, <2>2, ReadFront
  <2> QED BY <2>1, <2>3 DEF Streams
<1>2. CASE ~ReadExact(s, n).ok
  <2>1. ReadExact(s, n) = Fail("eof")
    BY <1>2 DEF ReadExact, Got
  <2> QED BY <2>1 DEF Streams
<1> QED BY <1>1, <1>2

\* A number of a fixed width.
LEMMA NumbersStream ==
  ASSUME NEW s \in Seq(Byte), NEW y \in Seq(Byte)
  PROVE  /\ Streams(Nat, ReadU16(s), ReadU16(s \o y), y)
         /\ Streams(Nat, ReadU32(s), ReadU32(s \o y), y)
         /\ Streams(Nat, ReadU64(s), ReadU64(s \o y), y)
<1>1. Base2 \in Nat \ {0} /\ Base4 \in Nat \ {0} /\ Base8 \in Nat \ {0}
  BY Bases
<1>2. Streams(Nat, ReadU16(s), ReadU16(s \o y), y)
  <2>1. CASE ReadU16(s).ok
    <3>1. PICK v \in 0..(Base2 - 1), u \in Seq(Byte) : ReadU16(s) = Got(v, u) /\ s = Le2(v) \o u
      BY <2>1, NumbersRead
    <3>2. v \in Nat /\ Rem(v, Base2) = v
      BY <1>1, SmallRem
    <3>3. Le2(v) \in Seq(Byte) /\ u \o y \in Seq(Byte)
      BY <3>2, LeTypes, Concat
    <3>4. s \o y = Le2(v) \o (u \o y)
      <4>1. PICK x : x = Le2(v)
        OBVIOUS
      <4>2. x \o (u \o y) = (x \o u) \o y
        BY <3>3, <4>1, Assoc
      <4> QED BY <3>1, <4>1, <4>2, Zenon
    <3>5. ReadU16(s \o y) = Got(v, u \o y)
      BY <3>2, <3>3, <3>4, ReadNumbers
    <3> QED BY <3>1, <3>2, <3>5 DEF Streams
  <2>2. CASE ~ReadU16(s).ok
    <3>1. ReadU16(s) = Fail("eof")
      BY <2>2 DEF ReadU16, ReadExact, Got
    <3> QED BY <3>1 DEF Streams
  <2> QED BY <2>1, <2>2
<1>3. Streams(Nat, ReadU32(s), ReadU32(s \o y), y)
  <2>1. CASE ReadU32(s).ok
    <3>1. PICK v \in 0..(Base4 - 1), u \in Seq(Byte) : ReadU32(s) = Got(v, u) /\ s = Le4(v) \o u
      BY <2>1, NumbersRead
    <3>2. v \in Nat /\ Rem(v, Base4) = v
      BY <1>1, SmallRem
    <3>3. Le4(v) \in Seq(Byte) /\ u \o y \in Seq(Byte)
      BY <3>2, LeTypes, Concat
    <3>4. s \o y = Le4(v) \o (u \o y)
      BY <3>1, <3>3, Assoc
    <3>5. ReadU32(s \o y) = Got(v, u \o y)
      BY <3>2, <3>3, <3>4, ReadNumbers
    <3> QED BY <3>1, <3>2, <3>5 DEF Streams
  <2>2. CASE ~ReadU32(s).ok
    <3>1. ReadU32(s) = Fail("eof")
      BY <2>2 DEF ReadU32, ReadExact, Got
    <3> QED BY <3>1 DEF Streams
  <2> QED BY <2>1, <2>2
<1>4. Streams(Nat, ReadU64(s), ReadU64(s \o y), y)
  <2>1. CASE ReadU64(s).ok
    <3>1. PICK v \in 0..(Base8 - 1), u \in Seq(Byte) : ReadU64(s) = Got(v, u) /\ s = Le8(v) \o u
      BY <2>1, NumbersRead
    <3>2. v \in Nat /\ Rem(v, Base8) = v
      BY <1>1, SmallRem
    <3>3. Le8(v) \in Seq(Byte) /\ u \o y \in Seq(Byte)
      BY <3>2, LeTypes, Concat
    <3>4. s \o y = Le8(v) \o (u \o y)
      BY <3>1, <3>3, Assoc
    <3>5. ReadU64(s \o y) = Got(v, u \o y)
      BY <3>2, <3>3, <3>4, ReadNumbers
    <3> QED BY <3>1, <3>2, <3>5 DEF Streams
  <2>2. CASE ~ReadU64(s).ok
    <3>1. ReadU64(s) = Fail("eof")
      BY <2>2 DEF ReadU64, ReadExact, Got
    <3> QED BY <3>1 DEF Streams
  <2> QED BY <2>1, <2>2
<1> QED BY <1>2, <1>3, <1>4

\* The test for the shortest form looks at the value alone.
LEMMA MinimalStreams ==
  ASSUME NEW V, NEW a, NEW b, NEW y, Streams(V, a, b, y), NEW c, NEW d, a.val = b.val => c = d
  PROVE  Streams(V, Minimal(a, c), Minimal(b, d), y)
<1>1. CASE \E v \in V, u \in Seq(Byte) : a = Got(v, u) /\ b = Got(v, u \o y)
  <2>1. PICK v \in V, u \in Seq(Byte) : a = Got(v, u) /\ b = Got(v, u \o y)
    BY <1>1
  <2>2. a.ok /\ b.ok /\ c = d
    BY <2>1, Parts
  <2>3. CASE c
    <3>1. Minimal(a, c) = Fail("NonMinimalVarInt") /\ Minimal(b, d) = Fail("NonMinimalVarInt")
      BY <2>2, <2>3 DEF Minimal
    <3> QED BY <3>1 DEF Streams
  <2>4. CASE ~c
    <3>1. Minimal(a, c) = a /\ Minimal(b, d) = b
      BY <2>2, <2>4 DEF Minimal
    <3> QED BY <2>1, <3>1 DEF Streams
  <2> QED BY <2>3, <2>4
<1>2. CASE a = Fail("eof")
  <2>1. Minimal(a, c) = a
    BY <1>2, Parts DEF Minimal
  <2> QED BY <1>2, <2>1 DEF Streams
<1>3. CASE \E w : w # "eof" /\ a = Fail(w) /\ b = Fail(w)
  <2>1. Minimal(a, c) = a /\ Minimal(b, d) = b
    BY <1>3, Parts DEF Minimal
  <2> QED BY <1>3, <2>1 DEF Streams
<1> QED BY <1>1, <1>2, <1>3 DEF Streams

(* What VarInt::decode makes of bytes is not changed by bytes that come    *)
(* after them, except that it may have had too few (serial.rs:266-298).    *)
LEMMA VarIntStreams ==
  ASSUME NEW s \in Seq(Byte), NEW y \in Seq(Byte)
  PROVE  Streams(Nat, DecodeVarInt(s), DecodeVarInt(s \o y), y)
<1>1. CASE s = <<>>
  <2>1. ReadU8(s) = Fail("eof")
    BY <1>1 DEF ReadU8
  <2>2. DecodeVarInt(s) = Fail("eof")
    BY <2>1, Parts DEF DecodeVarInt
  <2> QED BY <2>2 DEF Streams
<1>2. CASE s # <<>>
  <2>1. PICK m, t : m = s[1] /\ t = Tail(s)
    OBVIOUS
  <2>2. m \in Byte /\ t \in Seq(Byte) /\ s = <<m>> \o t
    BY <1>2, <2>1, FirstByte
  <2>3. t \o y \in Seq(Byte) /\ s \o y = <<m>> \o (t \o y)
    <3>1. <<m>> \in Seq(Byte)
      BY <2>2
    <3> QED BY <2>2, <3>1, Assoc, Concat
  <2>4. ReadU8(s) = Got(m, t) /\ ReadU8(s \o y) = Got(m, t \o y)
    BY <2>2, <2>3, ReadOne
  <2>5. CASE m < Mark2
    <3>1. DecodeVarInt(s) = Got(m, t) /\ DecodeVarInt(s \o y) = Got(m, t \o y)
      BY <2>2, <2>4, <2>5, Decoded
    <3>2. m \in Nat
      BY <2>2, BaseAssumption DEF Byte
    <3> QED BY <2>2, <3>1, <3>2 DEF Streams
  <2>6. CASE m = Mark2
    <3>1. /\ DecodeVarInt(s) = Minimal(ReadU16(t), ReadU16(t).val < Mark2)
          /\ DecodeVarInt(s \o y) = Minimal(ReadU16(t \o y), ReadU16(t \o y).val < Mark2)
      BY <2>2, <2>4, <2>6, Decoded
    <3>2. Streams(Nat, ReadU16(t), ReadU16(t \o y), y)
      BY <2>2, NumbersStream
    <3>3. PICK a, b : a = ReadU16(t) /\ b = ReadU16(t \o y)
      OBVIOUS
    <3>4. Streams(Nat, Minimal(a, a.val < Mark2), Minimal(b, b.val < Mark2), y)
      BY <3>2, <3>3, MinimalStreams
    <3> QED BY <3>1, <3>3, <3>4
  <2>7. CASE m = Mark4
    <3>1. /\ DecodeVarInt(s) = Minimal(ReadU32(t), ReadU32(t).val < Base2)
          /\ DecodeVarInt(s \o y) = Minimal(ReadU32(t \o y), ReadU32(t \o y).val < Base2)
      BY <2>2, <2>4, <2>7, Decoded
    <3>2. Streams(Nat, ReadU32(t), ReadU32(t \o y), y)
      BY <2>2, NumbersStream
    <3>3. PICK a, b : a = ReadU32(t) /\ b = ReadU32(t \o y)
      OBVIOUS
    <3>4. Streams(Nat, Minimal(a, a.val < Base2), Minimal(b, b.val < Base2), y)
      BY <3>2, <3>3, MinimalStreams
    <3> QED BY <3>1, <3>3, <3>4
  <2>8. CASE m = Mark8
    <3>1. /\ DecodeVarInt(s) = Minimal(ReadU64(t), Quo(ReadU64(t).val, Base2) < Base2)
          /\ DecodeVarInt(s \o y) = Minimal(ReadU64(t \o y), Quo(ReadU64(t \o y).val, Base2) < Base2)
      BY <2>2, <2>4, <2>8, Decoded
    <3>2. Streams(Nat, ReadU64(t), ReadU64(t \o y), y)
      BY <2>2, NumbersStream
    <3>3. PICK a, b : a = ReadU64(t) /\ b = ReadU64(t \o y)
      OBVIOUS
    <3>4. Streams(Nat, Minimal(a, Quo(a.val, Base2) < Base2), Minimal(b, Quo(b.val, Base2) < Base2), y)
      BY <3>2, <3>3, MinimalStreams
    <3> QED BY <3>1, <3>3, <3>4
  <2> QED BY <2>2, <2>5, <2>6, <2>7, <2>8, Markers
<1> QED BY <1>1, <1>2

----------------------------------------------------------------------------
(* The asynchronous copy.                                                  *)

\* Concatenations of lists of strings.
LEMMA FlattenConcat ==
  ASSUME NEW p \in Seq(Seq(Byte)), NEW q \in Seq(Seq(Byte))
  PROVE  FlattenSeq(p \o q) = FlattenSeq(p) \o FlattenSeq(q)
<1>1. PICK n : n = Len(q)
  OBVIOUS
<1> DEFINE E(i) == FlattenSeq(p \o SubSeq(q, 1, i)) = FlattenSeq(p) \o FlattenSeq(SubSeq(q, 1, i))
           T == {i \in Nat : i <= n => E(i)}
<1>2. n \in Nat /\ SubSeq(q, 1, n) = q /\ SubSeq(q, 1, 0) = <<>>
  BY <1>1
<1>3. FlattenSeq(p) \in Seq(Byte)
  BY FlattenType
<1>4. E(0)
  <2>1. p \o <<>> = p /\ FlattenSeq(<<>>) = <<>> /\ FlattenSeq(p) \o <<>> = FlattenSeq(p)
    BY <1>3, ConcatEmptySeq DEF FlattenSeq
  <2> QED BY <1>2, <2>1
<1>5. ASSUME NEW i \in Nat, i + 1 <= n, E(i) PROVE E(i + 1)
  <2>1. PICK u, x : u = SubSeq(q, 1, i) /\ x = q[i + 1]
    OBVIOUS
  <2>2. u \in Seq(Seq(Byte)) /\ x \in Seq(Byte) /\ SubSeq(q, 1, i + 1) = Append(u, x)
    <3>1. i + 1 \in 1..Len(q)
      BY <1>1, <1>2, <1>5
    <3> QED BY <2>1, <3>1
  <2>3. p \o u \in Seq(Seq(Byte)) /\ p \o Append(u, x) = Append(p \o u, x)
    BY <2>2
  <2>4. FlattenSeq(Append(p \o u, x)) = FlattenSeq(p \o u) \o x
    BY <2>2, <2>3, FlattenAppend
  <2>5. FlattenSeq(Append(u, x)) = FlattenSeq(u) \o x /\ FlattenSeq(u) \in Seq(Byte)
    BY <2>2, FlattenAppend, FlattenType
  <2>6. FlattenSeq(p \o u) = FlattenSeq(p) \o FlattenSeq(u)
    BY <1>5, <2>1
  <2>7. PICK a, b : a = FlattenSeq(p) /\ b = FlattenSeq(u)
    OBVIOUS
  <2>8. (a \o b) \o x = a \o (b \o x)
    <3>1. a \in Seq(Byte) /\ b \in Seq(Byte)
      BY <1>3, <2>5, <2>7
    <3> QED BY <2>2, <3>1, Assoc
  <2> QED BY <2>2, <2>3, <2>4, <2>5, <2>6, <2>7, <2>8, Zenon
<1> HIDE DEF E
<1>6. 0 \in T /\ \A i \in Nat : i \in T => i + 1 \in T
  BY <1>2, <1>4, <1>5
<1>7. n \in T
  <2> HIDE DEF T
  <2> QED BY <1>2, <1>6, Induct
<1>8. E(n)
  BY <1>2, <1>7
<1>9. FlattenSeq(p \o SubSeq(q, 1, n)) = FlattenSeq(p) \o FlattenSeq(SubSeq(q, 1, n))
  BY <1>8 DEF E
<1> QED BY <1>2, <1>9, Zenon

\* One string, two strings.
LEMMA FlattenFew ==
  ASSUME NEW a \in Seq(Byte), NEW b \in Seq(Byte)
  PROVE  FlattenSeq(<<a>>) = a /\ FlattenSeq(<<a, b>>) = a \o b
<1>1. <<>> \in Seq(Seq(Byte)) /\ <<a>> \in Seq(Seq(Byte))
  OBVIOUS
<1>5. Append(<<>>, a) = <<a>> /\ Append(<<a>>, b) = <<a, b>>
  <2>1. Append(<<>>, a) = <<a>>
    OBVIOUS
  <2>2. Append(<<a>>, b) = <<a, b>>
    <3>1. PICK u, w : u = Append(<<a>>, b) /\ w = <<a, b>>
      OBVIOUS
    <3>2. u \in Seq(Seq(Byte)) /\ Len(u) = 2 /\ u[1] = a /\ u[2] = b
      BY <1>1, <3>1
    <3>3. w \in Seq(Seq(Byte)) /\ Len(w) = 2 /\ w[1] = a /\ w[2] = b
      BY <3>1
    <3>4. Len(u) = Len(w) /\ \A i \in 1..Len(u) : u[i] = w[i]
      BY <3>2, <3>3
    <3>5. u = w
      BY <3>2, <3>3, <3>4, SeqEqual
    <3> QED BY <3>1, <3>5
  <2> QED BY <2>1, <2>2
<1>2. FlattenSeq(<<>>) = <<>> /\ <<>> \o a = a
  BY ConcatEmptySeq DEF FlattenSeq
<1>3. FlattenSeq(<<a>>) = a
  BY <1>1, <1>2, <1>5, FlattenAppend
<1>4. FlattenSeq(<<a, b>>) = a \o b
  BY <1>1, <1>3, <1>5, FlattenAppend
<1> QED BY <1>3, <1>4

\* The strings that a write passes on, none of which is empty.
Chunk == Seq(Byte) \ {<<>>}

\* The writes of a VarInt, in the range the number is in.
LEMMA Writes ==
  ASSUME NEW v \in Nat
  PROVE  /\ v < Mark2 => VarIntWrites(v) = <<<<v>>>>
         /\ v >= Mark2 /\ v < Base2 => VarIntWrites(v) = <<<<Mark2>>, Le2(v)>>
         /\ v >= Base2 /\ Quo(v, Base2) < Base2 => VarIntWrites(v) = <<<<Mark4>>, Le4(v)>>
         /\ Quo(v, Base2) >= Base2 => VarIntWrites(v) = <<<<Mark8>>, Le8(v)>>
<1> DEFINE q == Quo(v, Base2)
<1>1. Mark2 \in Nat /\ Mark2 < Base2 /\ Base2 \in Nat \ {0}
  BY Bases DEF Mark2
<1>2. q \in Nat
  BY Division, <1>1
<1>3. v < Base2 => q = 0
  BY <1>1, SMT DEF Quo
<1>4. VarIntWrites(v) =
        CASE v < Mark2                 -> <<<<v>>>>
          [] v >= Mark2 /\ v < Base2   -> <<<<Mark2>>, Le2(v)>>
          [] v >= Base2 /\ q < Base2   -> <<<<Mark4>>, Le4(v)>>
          [] q >= Base2                -> <<<<Mark8>>, Le8(v)>>
  BY DEF VarIntWrites, Quo
<1> HIDE DEF q
<1>5. PICK x1, x2, x4, x8 : /\ x1 = <<<<v>>>> /\ x2 = <<<<Mark2>>, Le2(v)>>
                            /\ x4 = <<<<Mark4>>, Le4(v)>> /\ x8 = <<<<Mark8>>, Le8(v)>>
  OBVIOUS
<1>6. VarIntWrites(v) =
        CASE v < Mark2                 -> x1
          [] v >= Mark2 /\ v < Base2   -> x2
          [] v >= Base2 /\ q < Base2   -> x4
          [] q >= Base2                -> x8
  BY <1>4, <1>5, Zenon
<1>7. /\ v < Mark2 => VarIntWrites(v) = x1
      /\ v >= Mark2 /\ v < Base2 => VarIntWrites(v) = x2
      /\ v >= Base2 /\ q < Base2 => VarIntWrites(v) = x4
      /\ q >= Base2 => VarIntWrites(v) = x8
  BY <1>1, <1>2, <1>3, <1>6
<1> QED BY <1>5, <1>7, Zenon DEF q

\* Their bytes are those of the VarInt.
LEMMA VarIntWritten ==
  ASSUME NEW v \in Nat
  PROVE  VarIntWrites(v) \in Seq(Chunk) /\ FlattenSeq(VarIntWrites(v)) = EncodeVarInt(v)
<1>1. Quo(v, Base2) \in Nat /\ Base2 \in Nat /\ Mark2 \in Nat /\ Mark2 < Base2
  <2>1. Quo(v, Base2) \in Nat
    BY Division, Bases
  <2> QED BY <2>1, Bases DEF Mark2
<1>2. ASSUME NEW m \in Byte PROVE <<m>> \in Chunk
  BY DEF Chunk
<1>3. Le2(v) \in Chunk /\ Le4(v) \in Chunk /\ Le8(v) \in Chunk
  <2>1. ASSUME NEW a \in Seq(Byte), Len(a) # 0 PROVE a \in Chunk
    BY <2>1 DEF Chunk
  <2> QED BY <2>1, LeTypes
<1>4. ASSUME NEW a \in Chunk, NEW b \in Chunk
      PROVE  /\ <<a>> \in Seq(Chunk) /\ FlattenSeq(<<a>>) = a
             /\ <<a, b>> \in Seq(Chunk) /\ FlattenSeq(<<a, b>>) = a \o b
  <2>1. a \in Seq(Byte) /\ b \in Seq(Byte)
    BY DEF Chunk
  <2>2. FlattenSeq(<<a>>) = a /\ FlattenSeq(<<a, b>>) = a \o b
    BY <2>1, FlattenFew
  <2>3. <<a>> \in Seq(Chunk) /\ <<a, b>> \in Seq(Chunk)
    OBVIOUS
  <2> QED BY <2>2, <2>3
<1>5. <<Mark2>> \in Chunk /\ <<Mark4>> \in Chunk /\ <<Mark8>> \in Chunk
  BY <1>2, Markers
<1>6. CASE v < Mark2
  <2>1. <<v>> \in Chunk
    BY <1>2, <1>6, Markers
  <2>2. VarIntWrites(v) = <<<<v>>>> /\ EncodeVarInt(v) = <<v>>
    BY <1>6, Writes, Encoded
  <2> QED BY <1>4, <2>1, <2>2
<1>7. CASE v >= Mark2 /\ v < Base2
  <2>1. VarIntWrites(v) = <<<<Mark2>>, Le2(v)>> /\ EncodeVarInt(v) = <<Mark2>> \o Le2(v)
    BY <1>7, Writes, Encoded
  <2>2. PICK a, b : a = <<Mark2>> /\ b = Le2(v)
    OBVIOUS
  <2>3. <<a, b>> \in Seq(Chunk) /\ FlattenSeq(<<a, b>>) = a \o b
    BY <1>3, <1>4, <1>5, <2>2
  <2> QED BY <2>1, <2>2, <2>3, Zenon
<1>8. CASE v >= Base2 /\ Quo(v, Base2) < Base2
  <2>1. VarIntWrites(v) = <<<<Mark4>>, Le4(v)>> /\ EncodeVarInt(v) = <<Mark4>> \o Le4(v)
    BY <1>8, Writes, Encoded
  <2>2. PICK a, b : a = <<Mark4>> /\ b = Le4(v)
    OBVIOUS
  <2>3. <<a, b>> \in Seq(Chunk) /\ FlattenSeq(<<a, b>>) = a \o b
    BY <1>3, <1>4, <1>5, <2>2
  <2> QED BY <2>1, <2>2, <2>3, Zenon
<1>9. CASE Quo(v, Base2) >= Base2
  <2>1. VarIntWrites(v) = <<<<Mark8>>, Le8(v)>> /\ EncodeVarInt(v) = <<Mark8>> \o Le8(v)
    BY <1>9, Writes, Encoded
  <2>2. PICK a, b : a = <<Mark8>> /\ b = Le8(v)
    OBVIOUS
  <2>3. <<a, b>> \in Seq(Chunk) /\ FlattenSeq(<<a, b>>) = a \o b
    BY <1>3, <1>4, <1>5, <2>2
  <2> QED BY <2>1, <2>2, <2>3, Zenon
<1> QED BY <1>1, <1>6, <1>7, <1>8, <1>9

(* The two hand-written copies of the VarInt code agree, for every number  *)
(* and every string (serial.rs:239-298, async_serial.rs:8-61).             *)
THEOREM AsyncAgrees == \A v \in Nat : \A s : CopiesAgree(v, s)
<1> SUFFICES ASSUME NEW v \in Nat, NEW s PROVE CopiesAgree(v, s)
  OBVIOUS
<1>1. FlattenSeq(VarIntWrites(v)) = EncodeVarInt(v)
  BY VarIntWritten
<1>2. DecodeVarIntAsync(s) = DecodeVarInt(s)
  BY DEF DecodeVarIntAsync, DecodeVarInt
<1> QED BY <1>1, <1>2 DEF CopiesAgree

(* A signed number comes back through the unsigned one of its width, down  *)
(* to the least, and a boolean through a byte (serial.rs:124-190), with    *)
(* the bytes that follow untouched, for every base.                        *)
THEOREM SignedAndBooleanRoundTrip ==
  ASSUME NEW rest \in Seq(Byte)
  PROVE  /\ \A v \in Int : -Base2 <= 2 * v /\ 2 * v < Base2 =>
                             ReadI16(WriteI16(v) \o rest) = Got(v, rest)
         /\ \A b \in BOOLEAN : ReadBool(WriteBool(b) \o rest) = Got(b, rest)
<1>1. \A x : Got(x, rest).ok /\ Got(x, rest).val = x /\ Got(x, rest).rest = rest
  BY DEF Got
<1>2. ASSUME NEW v \in Int, -Base2 <= 2 * v, 2 * v < Base2
      PROVE  ReadI16(WriteI16(v) \o rest) = Got(v, rest)
  <2>1. PICK w : w = IF v < 0 THEN v + Base2 ELSE v
    OBVIOUS
  <2>2. PICK n : n = Base2
    OBVIOUS
  <2>3. n \in Nat \ {0} /\ -n <= 2 * v /\ 2 * v < n
    BY <1>2, <2>2, Bases
  <2>4. w \in 0..(n - 1) /\ (2 * w < n => w = v) /\ (2 * w >= n => w - n = v)
    BY <2>1, <2>2, <2>3
  <2>5. v % n = w
    <3>1. v % n \in 0..(n - 1) /\ v = n * (v \div n) + (v % n) /\ v \div n \in Int
      BY <2>3, SMT
    <3>2. PICK q, r : q = v \div n /\ r = v % n
      OBVIOUS
    <3>3. q \in Int /\ r \in 0..(n - 1) /\ v = n * q + r
      BY <3>1, <3>2
    <3>4. v < 0 => q = -1
      BY <2>3, <3>3, SMT
    <3>5. v >= 0 => q = 0
      BY <2>3, <3>3, SMT
    <3> QED BY <2>1, <2>2, <2>3, <3>2, <3>3, <3>4, <3>5
  <2>6. WriteI16(v) = Le2(w)
    BY <2>2, <2>5 DEF WriteI16, AsUnsigned
  <2>7. Rem(w, Base2) = w
    BY <2>2, <2>3, <2>4, SMT DEF Rem
  <2>8. ReadU16(Le2(w) \o rest) = Got(w, rest)
    BY <2>4, <2>7, ReadNumbers
  <2>9. ReadI16(Le2(w) \o rest) = Got(AsSigned(w, Base2), rest)
    BY <1>1, <2>8, Zenon DEF ReadI16
  <2>10. AsSigned(w, Base2) = v
    BY <2>2, <2>3, <2>4 DEF AsSigned
  <2> QED BY <2>6, <2>9, <2>10
<1>3. ASSUME NEW b \in BOOLEAN PROVE ReadBool(WriteBool(b) \o rest) = Got(b, rest)
  <2>1. PICK m, z : m = (IF b THEN 1 ELSE 0) /\ z = <<>>
    OBVIOUS
  <2>2. m \in Byte /\ (m # 0 <=> b) /\ z \in Seq(Byte)
    BY <2>1, BaseAssumption DEF Byte
  <2>3. WriteBool(b) = <<m>> \o z
    BY <2>1 DEF WriteBool
  <2>4. z \o rest = rest
    BY <2>1
  <2>5. ReadU8((<<m>> \o z) \o rest) = Got(m, rest)
    BY <2>2, <2>4, ReadMarker
  <2>6. ReadBool((<<m>> \o z) \o rest) = Got(m # 0, rest)
    BY <1>1, <2>5, Zenon DEF ReadBool
  <2>7. (m # 0) = b
    BY <2>2
  <2> QED BY <2>3, <2>6, <2>7
<1> QED BY <1>2, <1>3

----------------------------------------------------------------------------
(* Folds.  A fold goes through the sets of the first places, each from the *)
(* one without its greatest element.                                       *)

\* A table of what a fold makes of the places of each set.
Table(step, b, n, e) ==
  /\ e[{}] = b
  /\ \A t \in SUBSET (1..n) : t # {} => e[t] = step[Max(t)][e[t \ {Max(t)}]]

\* The greatest of a set that has n in it, and nothing above n.
LEMMA MaxIs ==
  ASSUME NEW n \in Nat, NEW t \in SUBSET (1..n), n \in t
  PROVE  Max(t) = n
<1>1. PICK x : x = Max(t)
  OBVIOUS
<1>2. x \in t /\ \A y \in t : x >= y
  BY <1>1, Greatest
<1>3. x \in 1..n /\ x >= n
  BY <1>2
<1> QED BY <1>1, <1>3

LEMMA TableExists ==
  ASSUME NEW S, NEW b \in S, NEW n \in Nat, NEW step \in [1..n -> [S -> S]]
  PROVE  \E e \in [SUBSET (1..n) -> S] : Table(step, b, n, e)
<1> DEFINE Some(k) == \E e \in [SUBSET (1..k) -> S] : Table(step, b, k, e)
           T == {k \in Nat : k <= n => Some(k)}
<1>1. Some(0)
  <2>1. PICK e : e = [t \in SUBSET (1..0) |-> b]
    OBVIOUS
  <2>2. 1..0 = {} /\ \A t \in SUBSET (1..0) : t = {}
    OBVIOUS
  <2>3. e \in [SUBSET (1..0) -> S] /\ e[{}] = b
    BY <2>1, <2>2
  <2>4. Table(step, b, 0, e)
    BY <2>2, <2>3 DEF Table
  <2> QED BY <2>3, <2>4
<1>2. ASSUME NEW k \in Nat, k + 1 <= n, Some(k) PROVE Some(k + 1)
  <2>1. PICK e \in [SUBSET (1..k) -> S] : Table(step, b, k, e)
    BY <1>2
  <2>2. PICK m : m = k + 1
    OBVIOUS
  <2>3. m \in 1..n /\ step[m] \in [S -> S] /\ m \in Nat
    BY <1>2, <2>2
  <2>4. \A t \in SUBSET (1..m) : m \notin t => t \in SUBSET (1..k)
    BY <2>2
  <2>5. PICK d : d = [t \in SUBSET (1..m) |-> IF m \in t THEN step[m][e[t \ {m}]] ELSE e[t]]
    OBVIOUS
  <2>6. d \in [SUBSET (1..m) -> S]
    <3>1. ASSUME NEW t \in SUBSET (1..m) PROVE d[t] \in S
      <4>1. CASE m \in t
        <5>1. t \ {m} \in SUBSET (1..k)
          BY <2>4
        <5>2. e[t \ {m}] \in S
          BY <2>1, <5>1
        <5> QED BY <2>3, <2>5, <4>1, <5>2
      <4>2. CASE m \notin t
        BY <2>1, <2>4, <2>5, <4>2
      <4> QED BY <4>1, <4>2
    <3> QED BY <2>5, <3>1
  <2>7. ASSUME NEW t \in SUBSET (1..m), t # {}
        PROVE  d[t] = step[Max(t)][d[t \ {Max(t)}]]
    <3>1. CASE m \in t
      <4>1. Max(t) = m
        BY <2>3, <3>1, MaxIs
      <4>2. t \ {m} \in SUBSET (1..m) /\ m \notin t \ {m}
        OBVIOUS
      <4>3. d[t \ {m}] = e[t \ {m}]
        BY <2>5, <4>2
      <4> QED BY <2>5, <3>1, <4>1, <4>3
    <3>2. CASE m \notin t
      <4>1. t \in SUBSET (1..k)
        BY <2>4, <3>2
      <4>2. PICK x : x = Max(t)
        OBVIOUS
      <4>3. t \ {x} \in SUBSET (1..m) /\ m \notin t \ {x}
        BY <3>2
      <4>4. d[t \ {x}] = e[t \ {x}] /\ d[t] = e[t]
        BY <2>5, <3>2, <4>3
      <4>5. e[t] = step[x][e[t \ {x}]]
        BY <2>1, <2>7, <4>1, <4>2 DEF Table
      <4> QED BY <4>2, <4>4, <4>5
    <3> QED BY <3>1, <3>2
  <2>8. d[{}] = b
    <3>1. {} \in SUBSET (1..m) /\ m \notin {}
      OBVIOUS
    <3> QED BY <2>1, <2>5, <3>1 DEF Table
  <2>9. Table(step, b, m, d)
    BY <2>7, <2>8 DEF Table
  <2> QED BY <2>2, <2>6, <2>9
<1> HIDE DEF Some
<1>3. 0 \in T /\ \A k \in Nat : k \in T => k + 1 \in T
  BY <1>1, <1>2
<1>4. n \in T
  <2> HIDE DEF T
  <2> QED BY <1>3, Induct
<1>5. Some(n)
  BY <1>4
<1> QED BY <1>5 DEF Some

\* The places before the i-th.
LEMMA FirstPlaces ==
  ASSUME NEW n \in Nat, NEW i \in 1..n
  PROVE  /\ 1..i \in SUBSET (1..n) /\ 1..i # {} /\ Max(1..i) = i
         /\ (1..i) \ {i} = 1..(i - 1) /\ 1..0 = {}
<1>1. 1..i \in SUBSET (1..n) /\ i \in 1..i /\ i \in Nat
  OBVIOUS
<1>2. Max(1..i) = i
  BY <1>1, MaxIs
<1> QED BY <1>1, <1>2

\* g makes the steps on the sets of the first places.
Follows(S, step, b, n, g) ==
  /\ g[{}] = b
  /\ \A i \in 1..n : g[1..(i - 1)] \in S => g[1..i] = step[i][g[1..(i - 1)]]

\* The value of a fold, if its table does.
LEMMA FoldResult ==
  ASSUME NEW S, NEW b \in S, NEW n \in Nat, NEW step \in [1..n -> [S -> S]], NEW g,
         Follows(S, step, b, n, g)
  PROVE  \E f \in [0..n -> S] : Iter(step, b, n, f) /\ g[1..n] = f[n]
<1>1. PICK f \in [0..n -> S] : Iter(step, b, n, f)
  BY IterExists
<1> DEFINE E(i) == g[1..i] = f[i]
           T == {i \in Nat : i <= n => E(i)}
<1>2. E(0)
  <2>1. 1..0 = {}
    OBVIOUS
  <2> QED BY <1>1, <2>1 DEF Iter, Follows
<1>3. ASSUME NEW i \in Nat, i + 1 <= n, E(i) PROVE E(i + 1)
  <2>1. i + 1 \in 1..n /\ (i + 1) - 1 = i /\ i \in 0..n
    BY <1>3
  <2>2. g[1..i] \in S
    BY <1>1, <1>3, <2>1
  <2>3. g[1..(i + 1)] = step[i + 1][g[1..i]]
    BY <2>1, <2>2 DEF Follows
  <2>4. f[i + 1] = step[i + 1][f[i]]
    BY <1>1, <2>1 DEF Iter
  <2> QED BY <1>3, <2>3, <2>4
<1> HIDE DEF E
<1>4. 0 \in T /\ \A i \in Nat : i \in T => i + 1 \in T
  BY <1>2, <1>3
<1>5. n \in T
  <2> HIDE DEF T
  <2> QED BY <1>4, Induct
<1>6. E(n)
  BY <1>5
<1> QED BY <1>1, <1>6 DEF E

----------------------------------------------------------------------------
(* Powers of two: the subsets of a set.                                    *)

LEMMA Powers ==
  /\ 2 ^ 0 = 1
  /\ \A n \in Nat : 2 ^ n \in Nat /\ 2 ^ (n + 1) = 2 * (2 ^ n)
<1>1. 2 ^ 0 = 1
  OBVIOUS
<1>2. ASSUME NEW n \in Nat PROVE 2 ^ n \in Nat /\ 2 ^ (n + 1) = 2 * (2 ^ n)
  <2>1. PICK m, S, T : m = n + 1 /\ S = 1..n /\ T = 1..m
    OBVIOUS
  <2>2. m \in Nat /\ m \in T /\ m \notin S /\ T = S \cup {m}
    BY <2>1
  <2>3. IsFiniteSet(S) /\ IsFiniteSet(T) /\ Cardinality(S) = n /\ Cardinality(T) = m
    <3>1. 1 \in Int /\ n \in Int /\ m \in Int
      BY <2>1
    <3>2. IsFiniteSet(S) /\ Cardinality(S) = IF 1 > n THEN 0 ELSE n - 1 + 1
      BY <2>1, <3>1, FS_Interval
    <3>3. IsFiniteSet(T) /\ Cardinality(T) = IF 1 > m THEN 0 ELSE m - 1 + 1
      BY <2>1, <3>1, FS_Interval
    <3> QED BY <2>1, <3>2, <3>3
  <2>4. PICK A, B, f : A = SUBSET S /\ f = [t \in A |-> t \cup {m}] /\ B = {t \cup {m} : t \in A}
    OBVIOUS
  <2>5. IsFiniteSet(A) /\ Cardinality(A) = 2 ^ n
    BY <2>3, <2>4, FS_SUBSET
  <2>6. Cardinality(SUBSET T) = 2 ^ m
    BY <2>3, FS_SUBSET
  <2>7. f \in Bijection(A, B)
    <3>1. f \in [A -> B]
      BY <2>4
    <3>2. ASSUME NEW t \in A, NEW u \in A, f[t] = f[u] PROVE t = u
      <4>1. m \notin t /\ m \notin u
        BY <2>2, <2>4
      <4>2. t \cup {m} = u \cup {m}
        BY <2>4, <3>2
      <4> QED BY <4>1, <4>2
    <3>3. ASSUME NEW x \in B PROVE \E t \in A : f[t] = x
      BY <2>4
    <3> QED BY <3>1, <3>2, <3>3 DEF Bijection, Injection, Surjection, IsInjective
  <2>8. IsFiniteSet(B) /\ Cardinality(B) = Cardinality(A)
    BY <2>5, <2>7, FS_Bijection DEF ExistsBijection
  <2>9. A \cap B = {} /\ A \cup B = SUBSET T
    <3>1. A \cap B = {}
      BY <2>2, <2>4
    <3>2. ASSUME NEW u \in SUBSET T PROVE u \in A \cup B
      <4>1. CASE m \in u
        <5>1. u \ {m} \in A /\ u = (u \ {m}) \cup {m}
          BY <2>2, <2>4, <4>1
        <5> QED BY <2>4, <5>1
      <4>2. CASE m \notin u
        BY <2>2, <2>4, <4>2
      <4> QED BY <4>1, <4>2
    <3>3. ASSUME NEW u \in A \cup B PROVE u \in SUBSET T
      BY <2>2, <2>4
    <3> QED BY <3>1, <3>2, <3>3
  <2>10. Cardinality(A \cup B) = Cardinality(A) + Cardinality(B) - Cardinality(A \cap B)
    BY <2>5, <2>8, FS_Union
  <2>11. Cardinality(A \cap B) = 0
    BY <2>9, FS_EmptySet
  <2>12. 2 ^ n \in Nat
    BY <2>5, FS_CardinalityType
  <2>13. PICK x, y : x = 2 ^ n /\ y = 2 ^ m
    OBVIOUS
  <2>14. y = x + x - 0 /\ x \in Nat
    BY <2>5, <2>6, <2>8, <2>9, <2>10, <2>11, <2>12, <2>13
  <2>15. y = 2 * x
    BY ONLY <2>14
  <2> QED BY <2>1, <2>12, <2>13, <2>15
<1> QED BY <1>1, <1>2

=============================================================================
