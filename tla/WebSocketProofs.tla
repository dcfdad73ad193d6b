-------------------------- MODULE WebSocketProofs --------------------------
(***************************************************************************)
(* Proofs about WebSocket, for frames of every length and reads of every   *)
(* size.                                                                   *)
(***************************************************************************)
EXTENDS WebSocket, TLAPS

\* The values that the loop of parseFrame computes, as a function.
Value(bytes) ==
  CHOOSE v : v = [i \in 0 .. Len(bytes) |-> IF i = 0 THEN 0 ELSE v[i - 1] * 256 + bytes[i]]

\* The lengths that InLens and OutLens may hold.
Lengths == 0 .. 2 ^ 30

\* How many bytes of length follow the first two of a header.
Ext(len) == IF len <= Short THEN 0 ELSE IF len <= Medium THEN 2 ELSE 8

\* The second byte, without the mask bit.
Form(len) == IF len <= Short THEN len ELSE IF len <= Medium THEN 126 ELSE 127

\* The header of a frame: FIN and the opcode, the mask bit (m is 0 or 1) and the
\* length in one of three forms, and perhaps a mask.
HeaderOf(hdr, len, opcode, m) ==
  /\ hdr[1] = 128 + opcode /\ hdr[2] = 128 * m + Form(len)
  /\ Len(hdr) = 2 + Ext(len) + 4 * m
  /\ Ext(len) = 2 => SubSeq(hdr, 3, 4) = BigEndian(len, 2)
  /\ Ext(len) = 8 => SubSeq(hdr, 3, 10) = BigEndian(len, 8)

\* parseFrame finds f, with the opcode and the length it was made of, as soon as
\* all its bytes are there and not before.
Readable(f) ==
  /\ Size(f) \in Nat /\ Size(f) > 0
  /\ \A n \in Nat :
       parseFrame(f, n) =
         IF n < Size(f) THEN NeedMore
         ELSE [total |-> Size(f), opcode |-> f.hdr[1] % 16, len |-> f.len]

-----------------------------------------------------------------------------
(* The bytes of a length.                                                  *)

\* Division by 256, as the provers need it: a quotient and a remainder.
LEMMA Quotient ==
  ASSUME NEW x \in Nat
  PROVE  \E q, r \in Nat : x \div 256 = q /\ x % 256 = r /\ r < 256 /\ x = 256 * q + r
BY SMT

\* The powers of 256 that Octet divides by.
LEMMA Powers ==
  256 ^ 0 = 1 /\ 256 ^ 1 = 256 /\ 256 ^ 2 = 65536 /\ 256 ^ 3 = 16777216
BY SMT

\* The four low bytes of a length that fits in 31 bits; the higher ones are zero.
LEMMA Octets ==
  ASSUME NEW x \in Lengths
  PROVE  \E a, b, c, d \in Nat :
           /\ Octet(x, 3) = a /\ Octet(x, 2) = b /\ Octet(x, 1) = c /\ Octet(x, 0) = d
           /\ Octet(x, 4) = 0 /\ Octet(x, 5) = 0 /\ Octet(x, 6) = 0 /\ Octet(x, 7) = 0
           /\ x = ((a * 256 + b) * 256 + c) * 256 + d
           /\ x <= 65535 => a = 0 /\ b = 0
<1>0. x \in Nat /\ x <= 1073741824
  BY SMT DEF Lengths
<1>1. PICK q1, d \in Nat : x \div 256 = q1 /\ x % 256 = d /\ d < 256 /\ x = 256 * q1 + d
  BY <1>0, Quotient, SMT
<1>2. PICK q2, c \in Nat : q1 \div 256 = q2 /\ q1 % 256 = c /\ c < 256 /\ q1 = 256 * q2 + c
  BY Quotient, SMT
<1>3. PICK a, b \in Nat : q2 \div 256 = a /\ q2 % 256 = b /\ b < 256 /\ q2 = 256 * a + b
  BY Quotient, SMT
<1>4. a < 256
  BY <1>0, <1>1, <1>2, <1>3, SMT
<1>5. x \div 1 = x /\ x \div 65536 = q2 /\ x \div 16777216 = a /\ a % 256 = a
  <2>1. x \div 65536 = q2
    BY <1>1, <1>2, SMT
  <2>2. x \div 16777216 = a
    BY <1>1, <1>2, <1>3, SMT
  <2> QED
    BY <1>0, <1>4, <2>1, <2>2, SMT
<1>6. Octet(x, 3) = a /\ Octet(x, 2) = b /\ Octet(x, 1) = c /\ Octet(x, 0) = d
  BY <1>1, <1>2, <1>3, <1>5, Powers, SMT DEF Octet
<1>7. Octet(x, 4) = 0 /\ Octet(x, 5) = 0 /\ Octet(x, 6) = 0 /\ Octet(x, 7) = 0
  BY SMT DEF Octet
<1>8. x = ((a * 256 + b) * 256 + c) * 256 + d
  BY <1>1, <1>2, <1>3, SMT
<1>9. x <= 65535 => a = 0 /\ b = 0
  BY <1>8, SMT
<1> QED
  BY <1>6, <1>7, <1>8, <1>9, SMT

\* parseFrame's loop over two bytes.
LEMMA NumberOfTwo ==
  ASSUME NEW b, Len(b) = 2, b[1] \in Nat, b[2] \in Nat
  PROVE  Number(b) = b[1] * 256 + b[2]
<1> DEFINE w == [i \in 0 .. 2 |-> IF i = 0 THEN 0 ELSE IF i = 1 THEN b[1] ELSE b[1] * 256 + b[2]]
<1>1. w = [i \in 0 .. Len(b) |-> IF i = 0 THEN 0 ELSE w[i - 1] * 256 + b[i]]
  BY SMT
<1> HIDE DEF w
<1>2. Value(b) = [i \in 0 .. Len(b) |-> IF i = 0 THEN 0 ELSE Value(b)[i - 1] * 256 + b[i]]
  BY <1>1, ZenonT(40) DEF Value
<1>3. Value(b)[0] = 0 /\ Value(b)[1] = Value(b)[0] * 256 + b[1] /\ Value(b)[2] = Value(b)[1] * 256 + b[2]
  BY <1>2, SMT
<1>4. Number(b) = Value(b)[Len(b)]
  BY Zenon DEF Number, Value
<1> QED
  BY <1>3, <1>4, SMT

\* The loop over eight bytes, the first four of which are zero.
LEMMA NumberOfEight ==
  ASSUME NEW b, Len(b) = 8, b[1] = 0, b[2] = 0, b[3] = 0, b[4] = 0,
         b[5] \in Nat, b[6] \in Nat, b[7] \in Nat, b[8] \in Nat
  PROVE  Number(b) = ((b[5] * 256 + b[6]) * 256 + b[7]) * 256 + b[8]
<1>1. PICK s \in Nat : s = b[5] * 256 + b[6]
  BY SMT
<1>2. PICK t \in Nat : t = s * 256 + b[7]
  BY SMT
<1>3. PICK u \in Nat : u = t * 256 + b[8]
  BY SMT
<1> DEFINE w == [i \in 0 .. 8 |-> IF i <= 4 THEN 0 ELSE IF i = 5 THEN b[5] ELSE IF i = 6 THEN s
                                 ELSE IF i = 7 THEN t ELSE u]
<1>4. w = [i \in 0 .. Len(b) |-> IF i = 0 THEN 0 ELSE w[i - 1] * 256 + b[i]]
  <2>1. ASSUME NEW i \in 0 .. 8 PROVE w[i] = IF i = 0 THEN 0 ELSE w[i - 1] * 256 + b[i]
    <3>1. i \in {0, 1, 2, 3, 4, 5, 6, 7, 8}
      BY SMT
    <3> QED
      BY <1>1, <1>2, <1>3, <3>1, SMT
  <2> QED
    BY <2>1, SMT
<1> HIDE DEF w
<1>5. Value(b) = [i \in 0 .. Len(b) |-> IF i = 0 THEN 0 ELSE Value(b)[i - 1] * 256 + b[i]]
  BY <1>4, ZenonT(40) DEF Value
<1>6. \A i \in 0 .. 8 : Value(b)[i] = IF i = 0 THEN 0 ELSE Value(b)[i - 1] * 256 + b[i]
  BY <1>5, SMT
<1>7. Value(b)[0] = 0 /\ Value(b)[1] = 0 /\ Value(b)[2] = 0 /\ Value(b)[3] = 0 /\ Value(b)[4] = 0
  BY <1>6, SMT
<1>8. Value(b)[5] = b[5] /\ Value(b)[6] = s
  BY <1>1, <1>6, <1>7, SMT
<1>9. Value(b)[7] = t /\ Value(b)[8] = u
  BY <1>2, <1>3, <1>6, <1>8, SMT
<1>10. Number(b) = Value(b)[Len(b)]
  BY Zenon DEF Number, Value
<1> QED
  BY <1>1, <1>2, <1>3, <1>9, <1>10, SMT

\* What sendFrame writes high byte first, parseFrame's loop reads back.
LEMMA ReadBack ==
  ASSUME NEW x \in Lengths
  PROVE  /\ Ext(x) = 2 => Number(BigEndian(x, 2)) = x
         /\ Number(BigEndian(x, 8)) = x
<1>1. PICK a, b, c, d \in Nat :
           /\ Octet(x, 3) = a /\ Octet(x, 2) = b /\ Octet(x, 1) = c /\ Octet(x, 0) = d
           /\ Octet(x, 4) = 0 /\ Octet(x, 5) = 0 /\ Octet(x, 6) = 0 /\ Octet(x, 7) = 0
           /\ x = ((a * 256 + b) * 256 + c) * 256 + d
           /\ x <= 65535 => a = 0 /\ b = 0
  BY Octets, SMT
<1>2. ASSUME Ext(x) = 2 PROVE Number(BigEndian(x, 2)) = x
  <2>1. PICK s : s = BigEndian(x, 2)
    BY SMT
  <2>2. Len(s) = 2 /\ s[1] = c /\ s[2] = d
    BY <1>1, <2>1, SMT DEF BigEndian
  <2>3. Number(s) = c * 256 + d
    BY <2>2, NumberOfTwo, SMT
  <2>4. x \in Nat /\ x <= 65535
    BY <1>2, SMT DEF Lengths, Ext, Short, Medium
  <2> QED
    BY <1>1, <2>1, <2>3, <2>4, SMT
<1>3. Number(BigEndian(x, 8)) = x
  <2>1. PICK s : s = BigEndian(x, 8)
    BY Zenon
  <2>2. Len(s) = 8 /\ \A i \in 1 .. 8 : s[i] = Octet(x, 8 - i)
    BY <2>1, SMT DEF BigEndian
  <2>3. s[1] = 0 /\ s[2] = 0 /\ s[3] = 0 /\ s[4] = 0 /\ s[5] = a /\ s[6] = b /\ s[7] = c /\ s[8] = d
    BY <1>1, <2>2, SMT
  <2>4. Number(s) = ((a * 256 + b) * 256 + c) * 256 + d
    BY <2>2, <2>3, NumberOfEight, SMT
  <2> QED
    BY <1>1, <2>1, <2>4, SMT
<1> QED
  BY <1>2, <1>3, SMT

-----------------------------------------------------------------------------
(* Whole frames.                                                           *)

\* A frame with such a header is read as it was made.
LEMMA HeaderReadable ==
  ASSUME NEW f, NEW len \in Lengths, NEW opcode \in 0 .. 15, NEW m \in {0, 1},
         HeaderOf(f.hdr, len, opcode, m), f.len = len
  PROVE  Readable(f) /\ f.hdr[1] % 16 = opcode
<1>1. PICK h : h = f.hdr
  BY Zenon
<1>0. len \in Nat
  BY SMT DEF Lengths
<1>2. PICK e \in {0, 2, 8} : e = Ext(len)
  BY SMT DEF Ext
<1>3. PICK p \in 0 .. 127 : p = Form(len) /\ e = (IF p = 126 THEN 2 ELSE IF p = 127 THEN 8 ELSE 0)
                            /\ (e = 0 => p = len)
  BY <1>0, <1>2, SMT DEF Form, Ext, Short, Medium
<1>4. h[1] = 128 + opcode /\ h[2] = 128 * m + p /\ Len(h) = 2 + e + 4 * m
  BY <1>1, <1>2, <1>3, Zenon DEF HeaderOf
<1>5. h[1] % 16 = opcode
  BY <1>4, SMT
<1>6. h[2] % 128 = p /\ (h[2] >= 128 <=> m = 1)
  BY <1>4, SMT
<1>7. e # 0 => Number(SubSeq(h, 3, 2 + e)) = len
  <2>1. CASE e = 2
    <3>1. SubSeq(h, 3, 2 + e) = BigEndian(len, 2)
      <4>1. 2 + e = 4
        BY <2>1, SMT
      <4> QED
        BY <1>1, <1>2, <2>1, <4>1, Zenon DEF HeaderOf
    <3> QED
      BY <1>2, <2>1, <3>1, ReadBack, Zenon
  <2>2. CASE e = 8
    <3>1. SubSeq(h, 3, 2 + e) = BigEndian(len, 8)
      <4>1. 2 + e = 10
        BY <2>2, SMT
      <4> QED
        BY <1>1, <1>2, <2>2, <4>1, Zenon DEF HeaderOf
    <3> QED
      BY <3>1, ReadBack, Zenon
  <2> QED
    BY <1>2, <2>1, <2>2, SMT
<1>8. PICK t \in Nat : t = 2 + e + 4 * m + len
  BY <1>0, <1>2, SMT
<1>9. Size(f) = t /\ t > 0 /\ 2 + e <= t /\ 2 <= t
  <2>1. Size(f) = 2 + e + 4 * m + len
    BY <1>1, <1>4, Zenon DEF Size
  <2> QED
    BY <1>0, <1>2, <1>8, <2>1, SMT
<1>10. ASSUME NEW n \in Nat
       PROVE  parseFrame(f, n) = IF n < t THEN NeedMore
                                 ELSE [total |-> t, opcode |-> opcode, len |-> len]
  <2>1. (IF e = 0 THEN p ELSE Number(SubSeq(h, 3, 2 + e))) = len
    BY <1>3, <1>7, Zenon
  <2>2. Wrap(2 + e + (IF h[2] >= 128 THEN 4 ELSE 0) + len) = t
    <3>1. 2 + e + (IF h[2] >= 128 THEN 4 ELSE 0) + len = t
      BY <1>2, <1>6, <1>8, SMT
    <3>2. t < SizeMod
      <4>1. SizeMod \in Nat /\ SizeMod > 2 ^ 30 + 14
        BY Frames, Zenon
      <4>2. len <= 2 ^ 30 /\ 2 ^ 30 \in Nat
        BY Powers, SMT DEF Lengths
      <4>3. PICK b \in Nat : b = 2 ^ 30 /\ len <= b /\ SizeMod > b + 14
        BY <4>1, <4>2, Zenon
      <4> QED
        BY <1>0, <1>2, <1>8, <4>1, <4>3, SMT
    <3> QED
      BY <3>1, <3>2, Zenon DEF Wrap
  <2>3. parseFrame(f, n) =
          IF n < 2 \/ n < 2 + e \/ n < t THEN NeedMore
          ELSE [total |-> t, opcode |-> opcode, len |-> len]
    BY <1>1, <1>3, <1>5, <1>6, <2>1, <2>2, SMT DEF parseFrame
  <2>4. n < 2 \/ n < 2 + e \/ n < t <=> n < t
    BY <1>2, <1>9, SMT
  <2> QED
    BY <2>3, <2>4, Zenon
<1> QED
  BY <1>1, <1>5, <1>9, <1>10, Zenon DEF Readable

\* A header that begins with a and b, and goes on with the bytes x, l of them.
Begins(h, a, b, x, l) ==
  /\ h \in Seq(Nat) /\ h[1] = a /\ h[2] = b /\ 2 + l <= Len(h)
  /\ SubSeq(h, 3, 2 + l) = x

\* A header of two bytes: a short length, no mask.
LEMMA TwoBytes ==
  ASSUME NEW a \in Nat, NEW b \in Nat
  PROVE  Begins(<<a>> \o <<b>>, a, b, <<>>, 0) /\ Len(<<a>> \o <<b>>) = 2
<1>1. PICK h \in Seq(Nat) : h = <<a>> \o <<b>> /\ h[1] = a /\ h[2] = b /\ Len(h) = 2
  <2>1. /\ <<a>> \o <<b>> \in Seq(Nat) /\ Len(<<a>> \o <<b>>) = 2
        /\ (<<a>> \o <<b>>)[1] = a /\ (<<a>> \o <<b>>)[2] = b
    BY SMT
  <2> QED
    BY <2>1, Zenon
<1>2. SubSeq(h, 3, 2 + 0) = <<>>
  BY <1>1, SMT
<1>3. 2 + 0 <= Len(h)
  BY <1>1, SMT
<1> QED
  BY <1>1, <1>2, <1>3, Zenon DEF Begins

\* What a concatenation is, element by element.
LEMMA Concat ==
  ASSUME NEW S, NEW s \in Seq(S), NEW t \in Seq(S)
  PROVE  /\ s \o t \in Seq(S) /\ Len(s) \in Nat /\ Len(t) \in Nat
         /\ Len(s \o t) = Len(s) + Len(t)
         /\ \A i \in 1 .. Len(s) + Len(t) :
              (s \o t)[i] = IF i <= Len(s) THEN s[i] ELSE t[i - Len(s)]
BY SMT

\* t is x with a in front of it.
Joined(t, a, x) ==
  /\ Len(x) \in Nat /\ Len(t) = Len(x) + 1 /\ t[1] = a
  /\ \A i \in 1 .. Len(x) : t[i + 1] = x[i]

\* An element in front of a sequence.
LEMMA Prefixed ==
  ASSUME NEW S, NEW a \in S, NEW x \in Seq(S)
  PROVE  <<a>> \o x \in Seq(S) /\ Joined(<<a>> \o x, a, x)
<1>1. <<a>> \in Seq(S) /\ Len(<<a>>) = 1 /\ <<a>>[1] = a
  BY SMT
<1>2. PICK o \in Seq(S) : o = <<a>>
  BY <1>1, Zenon
<1>3. Len(o) = 1 /\ o[1] = a
  BY <1>1, <1>2, Zenon
<1>4. /\ o \o x \in Seq(S) /\ Len(x) \in Nat /\ Len(o \o x) = Len(o) + Len(x)
      /\ \A i \in 1 .. Len(o) + Len(x) :
           (o \o x)[i] = IF i <= Len(o) THEN o[i] ELSE x[i - Len(o)]
  BY Concat, SMT
<1>5. PICK t \in Seq(S) : /\ t = o \o x /\ Len(t) = 1 + Len(x)
                          /\ \A i \in 1 .. 1 + Len(x) : t[i] = IF i <= 1 THEN o[i] ELSE x[i - 1]
  BY <1>3, <1>4, Zenon
<1>6. Joined(t, a, x)
  BY <1>3, <1>4, <1>5, SMT DEF Joined
<1> QED
  BY <1>2, <1>5, <1>6, Zenon

\* A header of two bytes and those of the length.
LEMMA LongerBytes ==
  ASSUME NEW a \in Nat, NEW b \in Nat, NEW x \in Seq(Nat)
  PROVE  /\ Begins(<<a>> \o (<<b>> \o x), a, b, x, Len(x))
         /\ Len(<<a>> \o (<<b>> \o x)) = 2 + Len(x)
<1>1. PICK l \in Nat : Len(x) = l /\ DOMAIN x = 1 .. l
  BY SMT
<1>2. PICK t \in Seq(Nat) : t = <<b>> \o x /\ Joined(t, b, x)
  BY Prefixed, Zenon
<1>3. PICK h \in Seq(Nat) : h = <<a>> \o t /\ Joined(h, a, t)
  BY Prefixed, Zenon
<1>4. h[1] = a /\ h[2] = b /\ Len(h) = 2 + l
  BY <1>1, <1>2, <1>3, SMT DEF Joined
<1>5. SubSeq(h, 3, 2 + l) = x
  <2>1. \A i \in 1 .. l : h[i + 2] = x[i]
    BY <1>1, <1>2, <1>3, SMT DEF Joined
  <2>2. PICK z : z = SubSeq(h, 3, 2 + l)
    BY Zenon
  <2>3. z \in Seq(Nat) /\ Len(z) = l
    BY <1>4, <2>2, SMTT(40)
  <2>4. \A i \in 1 .. l : z[i] = h[i + 2]
    BY <1>4, <2>2, SMT
  <2>5. z = x
    <3>1. \A i \in 1 .. l : z[i] = x[i]
      BY <2>1, <2>4, Zenon
    <3>2. z = [i \in 1 .. l |-> z[i]] /\ x = [i \in 1 .. l |-> x[i]]
      BY <1>1, <2>3, SMT
    <3>3. [i \in 1 .. l |-> z[i]] = [i \in 1 .. l |-> x[i]]
      BY <3>1, Zenon
    <3> QED
      BY <3>2, <3>3, Zenon
  <2> QED
    BY <2>2, <2>5, Zenon
<1>6. 2 + l <= Len(h)
  BY <1>4, SMT
<1> QED
  BY <1>1, <1>2, <1>3, <1>4, <1>5, <1>6, Zenon DEF Begins

\* The mask comes after a header.
LEMMA MaskedBytes ==
  ASSUME NEW h, NEW a, NEW b, NEW x, NEW l \in Nat, Begins(h, a, b, x, l), NEW y \in Seq(Nat)
  PROVE  Begins(h \o y, a, b, x, l) /\ Len(h \o y) = Len(h) + Len(y)
<1>1. h \in Seq(Nat) /\ 2 + l <= Len(h)
  BY Zenon DEF Begins
<1>2. /\ h \o y \in Seq(Nat) /\ Len(h) \in Nat /\ Len(y) \in Nat /\ Len(h \o y) = Len(h) + Len(y)
      /\ \A i \in 1 .. Len(h) + Len(y) :
           (h \o y)[i] = IF i <= Len(h) THEN h[i] ELSE y[i - Len(h)]
  BY <1>1, Concat, SMT
<1>3. PICK g \in Seq(Nat) : /\ g = h \o y /\ Len(g) = Len(h) + Len(y)
                            /\ \A i \in 1 .. Len(h) + Len(y) :
                                 g[i] = IF i <= Len(h) THEN h[i] ELSE y[i - Len(h)]
  BY <1>2, Zenon
<1>4. (\A i \in 1 .. 2 + l : g[i] = h[i]) /\ 2 + l <= Len(g)
  BY <1>1, <1>2, <1>3, SMT
<1>5. g[1] = h[1] /\ g[2] = h[2]
  BY <1>4, SMT
<1>6. SubSeq(g, 3, 2 + l) = SubSeq(h, 3, 2 + l)
  <2>1. SubSeq(g, 3, 2 + l) = [i \in 1 .. l |-> g[i + 2]]
    BY SMT
  <2>2. SubSeq(h, 3, 2 + l) = [i \in 1 .. l |-> h[i + 2]]
    BY <1>1, SMT
  <2>3. [i \in 1 .. l |-> g[i + 2]] = [i \in 1 .. l |-> h[i + 2]]
    BY <1>4, SMT
  <2> QED
    BY <2>1, <2>2, <2>3, Zenon
<1>7. Begins(g, a, b, x, l)
  BY <1>4, <1>5, <1>6, Zenon DEF Begins
<1> QED
  BY <1>3, <1>7, Zenon

\* The bytes of a length are numbers, as many as were asked for.
LEMMA BigEndianType ==
  ASSUME NEW x \in Lengths
  PROVE  /\ BigEndian(x, 2) \in Seq(Nat) /\ Len(BigEndian(x, 2)) = 2
         /\ BigEndian(x, 8) \in Seq(Nat) /\ Len(BigEndian(x, 8)) = 8
<1>1. \A i \in 0 .. 7 : Octet(x, i) \in Nat
  <2>1. PICK a, b, c, d \in Nat :
           /\ Octet(x, 3) = a /\ Octet(x, 2) = b /\ Octet(x, 1) = c /\ Octet(x, 0) = d
           /\ Octet(x, 4) = 0 /\ Octet(x, 5) = 0 /\ Octet(x, 6) = 0 /\ Octet(x, 7) = 0
    BY Octets, SMT
  <2> QED
    BY <2>1, SMT
<1>2. ASSUME NEW n \in {2, 8} PROVE BigEndian(x, n) \in Seq(Nat) /\ Len(BigEndian(x, n)) = n
  <2>1. \A i \in 1 .. n : n - i \in 0 .. 7
    BY SMT
  <2>2. BigEndian(x, n) \in [1 .. n -> Nat]
    BY <1>1, <2>1, SMT DEF BigEndian
  <2> QED
    BY <2>2, SMT
<1> QED
  BY <1>2, SMT

\* The header of a length in one of the three forms, and perhaps a mask after it.
Written(h, y, a, b, len, l) ==
  \E x : /\ Begins(h, a, b, x, l) /\ Begins(h \o y, a, b, x, l)
         /\ Len(h) = 2 + l /\ Len(h \o y) = (2 + l) + Len(y)
         /\ l # 0 => x = BigEndian(len, l)

\* All three forms are headers of that kind.
LEMMA HeaderForms ==
  ASSUME NEW len \in Lengths, NEW a \in Nat, NEW b \in Nat, NEW l \in {0, 2, 8}, NEW y \in Seq(Nat)
  PROVE  Written(<<a>> \o (IF l = 0 THEN <<b>> ELSE <<b>> \o BigEndian(len, l)), y, a, b, len, l)
<1>1. PICK h : h = <<a>> \o (IF l = 0 THEN <<b>> ELSE <<b>> \o BigEndian(len, l))
  BY Zenon
<1>2. l \in Nat
  BY SMT
<1>3. \E x : Begins(h, a, b, x, l) /\ Len(h) = 2 + l /\ (l # 0 => x = BigEndian(len, l))
  <2>1. CASE l = 0
    <3>1. h = <<a>> \o <<b>>
      BY <1>1, <2>1, Zenon
    <3>2. 2 = 2 + l
      BY <2>1, SMT
    <3>3. Begins(h, a, b, <<>>, 0) /\ Len(h) = 2
      BY <3>1, TwoBytes, Zenon
    <3>4. Begins(h, a, b, <<>>, l)
      BY <2>1, <3>3, Zenon
    <3>5. Len(h) = 2 + l
      BY <3>2, <3>3, Zenon
    <3> QED
      BY <2>1, <3>4, <3>5, Zenon
  <2>2. CASE l # 0
    <3>1. PICK x \in Seq(Nat) : x = BigEndian(len, l) /\ l = Len(x)
      <4>1. BigEndian(len, l) \in Seq(Nat) /\ Len(BigEndian(len, l)) = l
        BY <2>2, BigEndianType, Zenon
      <4> QED
        BY <4>1, Zenon
    <3>2. h = <<a>> \o (<<b>> \o x)
      BY <1>1, <2>2, <3>1, Zenon
    <3>3. /\ Begins(<<a>> \o (<<b>> \o x), a, b, x, Len(x))
          /\ Len(<<a>> \o (<<b>> \o x)) = 2 + Len(x)
      BY LongerBytes, Zenon
    <3>4. Begins(h, a, b, x, l) /\ Len(h) = 2 + l
      BY <3>1, <3>2, <3>3, Zenon
    <3> QED
      BY <3>1, <3>4, Zenon
  <2> QED
    BY <2>1, <2>2, Zenon
<1>4. PICK x : Begins(h, a, b, x, l) /\ Len(h) = 2 + l /\ (l # 0 => x = BigEndian(len, l))
  BY <1>3, Zenon
<1>5. Begins(h \o y, a, b, x, l) /\ Len(h \o y) = Len(h) + Len(y)
  BY <1>2, <1>4, MaskedBytes, Zenon
<1> QED
  BY <1>1, <1>4, <1>5, Zenon DEF Written

\* The first byte of a header, the second, and the bytes of the mask.
First(opcode) == 128 + opcode

Second(len, m) == 128 * m + Form(len)

Mask(m) == 4 * m

\* Such a header is one that parseFrame reads.
LEMMA BeginsHeader ==
  ASSUME NEW len \in Lengths, NEW opcode, NEW m, NEW x, NEW h,
         Begins(h, First(opcode), Second(len, m), x, Ext(len)),
         Ext(len) # 0 => x = BigEndian(len, Ext(len)), Len(h) = 2 + Ext(len) + Mask(m)
  PROVE  HeaderOf(h, len, opcode, m)
<1>1. PICK l : l = Ext(len)
  BY Zenon
<1>2. SubSeq(h, 3, 2 + l) = x /\ (l # 0 => x = BigEndian(len, l))
  BY <1>1, Zenon DEF Begins
<1>3. l = 2 => SubSeq(h, 3, 4) = BigEndian(len, 2)
  <2>1. 2 + 2 = 4 /\ 2 # 0
    BY SMT
  <2> QED
    BY <1>2, <2>1, SMT
<1>4. l = 8 => SubSeq(h, 3, 10) = BigEndian(len, 8)
  <2>1. 2 + 8 = 10 /\ 8 # 0
    BY SMT
  <2> QED
    BY <1>2, <2>1, SMT
<1>5. h[1] = 128 + opcode /\ h[2] = 128 * m + Form(len)
  BY Zenon DEF Begins, First, Second
<1>6. Len(h) = 2 + Ext(len) + 4 * m
  BY Zenon DEF Mask
<1> QED
  BY <1>1, <1>3, <1>4, <1>5, <1>6, Zenon DEF HeaderOf

\* The three forms of a length.
LEMMA Forms ==
  ASSUME NEW len \in Lengths
  PROVE  /\ len \in Nat /\ Form(len) \in Nat /\ Ext(len) \in {0, 2, 8}
         /\ Ext(len) = 0 => len <= Short /\ Form(len) = len
         /\ Ext(len) = 2 => ~ (len <= Short) /\ len <= Medium /\ Form(len) = 126
         /\ Ext(len) = 8 => ~ (len <= Short) /\ ~ (len <= Medium) /\ Form(len) = 127
<1>1. len \in Nat
  BY SMT DEF Lengths
<1> QED
  BY <1>1, SMT DEF Ext, Form, Short, Medium

\* What follows the first byte of a header, up to the mask.
Following(len, m) ==
  IF len <= Short THEN <<128 * m + len>>
  ELSE IF len <= Medium THEN <<128 * m + 126>> \o BigEndian(len, 2)
  ELSE <<128 * m + 127>> \o BigEndian(len, 8)

\* The three forms of it in one.
LEMMA FollowingForms ==
  ASSUME NEW len \in Lengths, NEW m \in {0, 1}
  PROVE  \E l \in {0, 2, 8} :
           /\ l = Ext(len)
           /\ Following(len, m) = IF l = 0 THEN <<Second(len, m)>>
                                  ELSE <<Second(len, m)>> \o BigEndian(len, l)
<1>1. len \in Nat
  BY SMT DEF Lengths
<1>2. CASE len <= Short
  <2>1. Ext(len) = 0 /\ Second(len, m) = 128 * m + len
    BY <1>1, <1>2, SMT DEF Ext, Form, Second, Short
  <2> QED
    BY <1>2, <2>1, Zenon DEF Following
<1>3. CASE ~ (len <= Short) /\ len <= Medium
  <2>1. Ext(len) = 2 /\ Second(len, m) = 128 * m + 126
    BY <1>1, <1>3, SMT DEF Ext, Form, Second, Short, Medium
  <2>2. Following(len, m) = <<Second(len, m)>> \o BigEndian(len, 2)
    BY <1>3, <2>1, Zenon DEF Following
  <2>3. 2 # 0
    BY SMT
  <2> QED
    BY <2>1, <2>2, <2>3, Zenon
<1>4. CASE ~ (len <= Short) /\ ~ (len <= Medium)
  <2>1. Ext(len) = 8 /\ Second(len, m) = 128 * m + 127
    BY <1>1, <1>4, SMT DEF Ext, Form, Second, Short, Medium
  <2>2. Following(len, m) = <<Second(len, m)>> \o BigEndian(len, 8)
    BY <1>4, <2>1, Zenon DEF Following
  <2>3. 8 # 0
    BY SMT
  <2> QED
    BY <2>1, <2>2, <2>3, Zenon
<1> QED
  BY <1>2, <1>3, <1>4, Zenon

\* A header written in those forms, with the mask bit and the mask or without.
LEMMA WrittenHeader ==
  ASSUME NEW len \in Lengths, NEW opcode \in 0 .. 15, NEW m \in {0, 1},
         NEW y \in Seq(Nat), Len(y) = Mask(m),
         NEW h, h = <<First(opcode)>> \o Following(len, m)
  PROVE  HeaderOf(h \o y, len, opcode, m) /\ h \in Seq(Nat) /\ h \o y \in Seq(Nat)
<1>1. PICK a \in Nat : a = First(opcode)
  BY SMT DEF First
<1>2. PICK b \in Nat : b = Second(len, m)
  BY Forms, SMT DEF Second
<1>3. PICK l \in {0, 2, 8} :
        /\ l = Ext(len)
        /\ Following(len, m) = IF l = 0 THEN <<b>> ELSE <<b>> \o BigEndian(len, l)
  BY <1>2, FollowingForms, Zenon
<1>6. Written(h, y, a, b, len, l)
  BY <1>1, <1>3, HeaderForms, Zenon
<1>7. PICK x : /\ Begins(h, a, b, x, l) /\ Begins(h \o y, a, b, x, l)
               /\ Len(h \o y) = (2 + l) + Len(y) /\ (l # 0 => x = BigEndian(len, l))
  BY <1>6, Zenon DEF Written
<1>8. h \in Seq(Nat) /\ h \o y \in Seq(Nat)
  BY <1>7, Zenon DEF Begins
<1>9. Len(h \o y) = 2 + Ext(len) + Mask(m)
  BY <1>3, <1>7, Zenon
<1>10. HeaderOf(h \o y, len, opcode, m)
  BY <1>1, <1>2, <1>3, <1>7, <1>9, BeginsHeader, Zenon
<1> QED
  BY <1>8, <1>10, Zenon

\* What sendFrame writes is read back.
LEMMA SendReadable ==
  ASSUME NEW len \in Lengths, NEW opcode \in 0 .. 15
  PROVE  Readable(sendFrame(len, opcode)) /\ sendFrame(len, opcode).hdr[1] % 16 = opcode
<1>1. 128 * 0 + len = len /\ 128 * 0 + 126 = 126 /\ 128 * 0 + 127 = 127
  BY Forms, SMT
<1>2. PICK h : h = <<First(opcode)>> \o Following(len, 0)
  BY Zenon
<1>3. sendFrame(len, opcode).hdr = h /\ sendFrame(len, opcode).len = len
  BY <1>1, <1>2, ZenonT(40) DEF sendFrame, Following, First
<1>4. <<>> \in Seq(Nat) /\ Len(<<>>) = Mask(0)
  BY SMT DEF Mask
<1>5. HeaderOf(h \o <<>>, len, opcode, 0) /\ h \in Seq(Nat)
  BY <1>2, <1>4, WrittenHeader, Zenon
<1>6. h \o <<>> = h
  BY <1>5, SMT
<1> QED
  BY <1>3, <1>5, <1>6, HeaderReadable, Zenon

\* What a client sends is read as it was sent.
LEMMA ClientReadable ==
  ASSUME NEW len \in Lengths, NEW opcode \in 0 .. 15,
         NEW f, f.hdr = ClientFrame(len, opcode).hdr, f.len = len
  PROVE  Readable(f) /\ f.hdr[1] % 16 = opcode /\ f.hdr \in Seq(Nat)
<1>1. PICK t : t = Following(len, 1)
  BY Zenon
<1>2. 128 * 1 = 128
  BY SMT
<1>3. t = IF len <= Short THEN <<128 + len>>
          ELSE IF len <= Medium THEN <<128 + 126>> \o BigEndian(len, 2)
          ELSE <<128 + 127>> \o BigEndian(len, 8)
  BY <1>1, <1>2, ZenonT(40) DEF Following
<1>4. PICK y : y = <<0, 0, 0, 0>>
  BY Zenon
<1>5. PICK h : h = <<First(opcode)>> \o t
  BY Zenon
<1>6. f.hdr = h \o y
  BY <1>3, <1>4, <1>5, ZenonT(40) DEF ClientFrame, First
<1>7. y \in Seq(Nat) /\ Len(y) = Mask(1)
  BY <1>4, SMT DEF Mask
<1>8. HeaderOf(h \o y, len, opcode, 1) /\ h \o y \in Seq(Nat)
  BY <1>1, <1>5, <1>7, WrittenHeader, Zenon
<1> QED
  BY <1>6, <1>8, HeaderReadable, Zenon

-----------------------------------------------------------------------------
(* The frames in the stream of bytes: End, Sent and IsText of WebSocket,   *)
(* for any sequence of frames.                                             *)

Frame == [hdr : Seq(Nat), len : Nat, at : Nat]
EndOf(s, k) == s[k].at + Size(s[k])
SentOf(s) == IF s = <<>> THEN 0 ELSE EndOf(s, Len(s))

\* Each frame begins where the one before it ends.
Laid(s) ==
  /\ s \in Seq(Frame)
  /\ \A k \in DOMAIN s : Readable(s[k]) /\ s[k].at = IF k = 1 THEN 0 ELSE EndOf(s, k - 1)
  /\ \A i, k \in DOMAIN s : i < k => EndOf(s, i) <= s[k].at

\* The chain of read buffers begins where a frame does, and holds less than it.
Aligned(s, b, r) ==
  \/ b = SentOf(s) /\ r = 0
  \/ \E k \in DOMAIN s : s[k].at = b /\ r < Size(s[k])

TextOf(s, k) == s[k].hdr[1] % 16 = Text

\* d are texts that end no later than b, in their order ...
Heard(s, d, b) ==
  /\ d \in Seq(Nat)
  /\ \A i, j \in DOMAIN d : i < j => d[i] < d[j]
  /\ \A i \in DOMAIN d : d[i] \in DOMAIN s /\ EndOf(s, d[i]) <= b /\ TextOf(s, d[i])

\* ... and all of those.
AllHeard(s, d, b) ==
  \A k \in DOMAIN s : EndOf(s, k) <= b /\ TextOf(s, k) => \E i \in DOMAIN d : d[i] = k

\* A frame is not empty, and ends no later than the stream.
LEMMA Places ==
  ASSUME NEW s, Laid(s), NEW k \in DOMAIN s
  PROVE  /\ k \in Nat /\ k > 0 /\ k <= Len(s) /\ Len(s) \in Nat /\ Len(s) \in DOMAIN s
         /\ s[k].at \in Nat /\ EndOf(s, k) \in Nat /\ s[k].at < EndOf(s, k)
         /\ Size(s[k]) \in Nat /\ EndOf(s, k) = s[k].at + Size(s[k])
         /\ SentOf(s) \in Nat /\ EndOf(s, k) <= SentOf(s)
<1>1. s \in Seq(Frame)
  BY Zenon DEF Laid
<1>2. k \in Nat /\ k > 0 /\ k <= Len(s) /\ Len(s) \in Nat /\ Len(s) \in DOMAIN s /\ s # <<>>
  BY <1>1, SMT
<1>3. ASSUME NEW i \in DOMAIN s
      PROVE  s[i].at \in Nat /\ EndOf(s, i) \in Nat /\ s[i].at < EndOf(s, i)
             /\ Size(s[i]) \in Nat /\ EndOf(s, i) = s[i].at + Size(s[i])
  <2>1. s[i] \in Frame
    BY <1>1, SMT
  <2>2. s[i].at \in Nat
    BY <2>1, SMT DEF Frame
  <2>3. Size(s[i]) \in Nat /\ Size(s[i]) > 0
    BY Zenon DEF Laid, Readable
  <2>4. EndOf(s, i) = s[i].at + Size(s[i])
    BY Zenon DEF EndOf
  <2> QED
    BY <2>2, <2>3, <2>4, SMT
<1>4. SentOf(s) = EndOf(s, Len(s))
  BY <1>2, Zenon DEF SentOf
<1>5. k # Len(s) => EndOf(s, k) <= s[Len(s)].at
  <2>1. k # Len(s) => k < Len(s)
    BY <1>2, SMT
  <2> QED
    BY <1>2, <2>1, Zenon DEF Laid
<1>6. EndOf(s, k) <= EndOf(s, Len(s))
  <2>1. s[Len(s)].at \in Nat /\ EndOf(s, Len(s)) \in Nat /\ s[Len(s)].at < EndOf(s, Len(s))
    BY <1>2, <1>3, Zenon
  <2>2. EndOf(s, k) \in Nat
    BY <1>3, Zenon
  <2>3. CASE k = Len(s)
    BY <2>2, <2>3, SMT
  <2>4. CASE k # Len(s)
    <3>1. PICK x, y, z \in Nat :
            x = EndOf(s, k) /\ y = s[Len(s)].at /\ z = EndOf(s, Len(s)) /\ x <= y /\ y < z
      BY <1>5, <2>1, <2>2, <2>4, Zenon
    <3>2. x <= z
      BY <3>1, SMT
    <3> QED
      BY <3>1, <3>2, Zenon
  <2> QED
    BY <2>3, <2>4, Zenon
<1> QED
  BY <1>2, <1>3, <1>4, <1>6, Zenon

\* Which of two frames comes first can be told from where they begin and end.
LEMMA Order ==
  ASSUME NEW s, Laid(s), NEW i \in DOMAIN s, NEW k \in DOMAIN s
  PROVE  /\ i < k => EndOf(s, i) <= s[k].at
         /\ EndOf(s, i) <= s[k].at => i < k
         /\ EndOf(s, i) < EndOf(s, k) => i < k
         /\ EndOf(s, i) <= EndOf(s, k) => i < k \/ i = k
         /\ s[i].at = s[k].at => i = k
<1>1. (i < k => EndOf(s, i) <= s[k].at) /\ (k < i => EndOf(s, k) <= s[i].at)
  BY Zenon DEF Laid
<1>2. i \in Nat /\ k \in Nat
  BY Places, Zenon
<1>3. PICK a, b, c, d \in Nat :
        a = s[i].at /\ b = EndOf(s, i) /\ c = s[k].at /\ d = EndOf(s, k) /\ a < b /\ c < d
  <2>1. s[i].at \in Nat /\ EndOf(s, i) \in Nat /\ s[i].at < EndOf(s, i)
    BY Places, Zenon
  <2>2. s[k].at \in Nat /\ EndOf(s, k) \in Nat /\ s[k].at < EndOf(s, k)
    BY Places, Zenon
  <2> QED
    BY <2>1, <2>2, Zenon
<1>4. (i < k => b <= c) /\ (k < i => d <= a)
  BY <1>1, <1>3, Zenon
<1>5. i = k => a = c /\ b = d
  BY <1>3, Zenon
<1>6. /\ b <= c => i < k
      /\ b < d => i < k
      /\ b <= d => i < k \/ i = k
      /\ a = c => i = k
  BY <1>2, <1>3, <1>4, <1>5, SMT
<1> QED
  BY <1>1, <1>3, <1>6, Zenon

\* One more frame, at the end of the stream.
Grown(s, f, t) ==
  /\ Laid(t) /\ SentOf(s) \in Nat /\ SentOf(t) = SentOf(s) + Size(f)
  /\ \A k \in DOMAIN s : k \in DOMAIN t /\ t[k] = s[k] /\ EndOf(t, k) = EndOf(s, k)
  /\ \A k \in DOMAIN t : k \notin DOMAIN s => t[k] = f
  /\ \E k \in DOMAIN t : t[k] = f

\* The frames stay end to end when one is sent, and the others stay where they are.
LEMMA Appended ==
  ASSUME NEW s, Laid(s), NEW f \in Frame, Readable(f), f.at = SentOf(s),
         NEW t, t = Append(s, f)
  PROVE  Grown(s, f, t)
<1>1. s \in Seq(Frame)
  BY Zenon DEF Laid
<1>2. PICK n \in Nat : n = Len(s) /\ DOMAIN s = 1 .. n
  BY <1>1, SMT
<1>3. /\ t \in Seq(Frame) /\ Len(t) = n + 1 /\ DOMAIN t = 1 .. (n + 1)
      /\ t[n + 1] = f /\ t # <<>>
      /\ \A k \in 1 .. n : t[k] = s[k]
  BY <1>1, <1>2, SMT
<1>4. \A k \in 1 .. n : EndOf(t, k) = EndOf(s, k)
  BY <1>3, Zenon DEF EndOf
<1>5. SentOf(s) \in Nat /\ \A k \in 1 .. n : EndOf(s, k) <= SentOf(s) /\ EndOf(s, k) \in Nat
  <2>1. \A k \in 1 .. n : EndOf(s, k) <= SentOf(s) /\ EndOf(s, k) \in Nat
    BY <1>2, Places, Zenon
  <2>2. f.at \in Nat
    BY SMT DEF Frame
  <2> QED
    BY <2>1, <2>2, Zenon
<1>6. EndOf(t, n + 1) = SentOf(s) + Size(f)
  BY <1>3, Zenon DEF EndOf
<1>7. SentOf(t) = SentOf(s) + Size(f)
  BY <1>3, <1>6, Zenon DEF SentOf
<1>8. \A k \in 1 .. (n + 1) : k \in 1 .. n \/ k = n + 1
  BY SMT
<1>9. \A k \in 1 .. n : k \in 1 .. (n + 1) /\ k \in Nat
  BY SMT
<1>10. n + 1 \in 1 .. (n + 1)
  BY SMT
<1>11. ASSUME NEW k \in DOMAIN t
       PROVE  Readable(t[k]) /\ t[k].at = IF k = 1 THEN 0 ELSE EndOf(t, k - 1)
  <2>1. CASE k \in 1 .. n
    <3>1. Readable(s[k]) /\ s[k].at = IF k = 1 THEN 0 ELSE EndOf(s, k - 1)
      BY <1>2, <2>1, Zenon DEF Laid
    <3>2. k # 1 => k - 1 \in 1 .. n
      BY <2>1, SMT
    <3> QED
      BY <1>3, <1>4, <2>1, <3>1, <3>2, Zenon
  <2>2. CASE k = n + 1
    <3>1. k = 1 <=> n = 0
      BY <2>2, SMT
    <3>2. n = 0 <=> s = <<>>
      BY <1>1, <1>2, SMT
    <3>3. SentOf(s) = IF k = 1 THEN 0 ELSE EndOf(s, n)
      BY <1>2, <3>1, <3>2, Zenon DEF SentOf
    <3>4. k # 1 => n \in 1 .. n /\ k - 1 = n
      BY <2>2, <3>1, SMT
    <3>5. t[k].at = IF k = 1 THEN 0 ELSE EndOf(t, k - 1)
      BY <1>3, <1>4, <2>2, <3>3, <3>4, Zenon
    <3> QED
      BY <1>3, <2>2, <3>5, Zenon
  <2> QED
    BY <1>3, <1>8, <2>1, <2>2, Zenon
<1>12. ASSUME NEW i \in DOMAIN t, NEW k \in DOMAIN t, i < k
       PROVE  EndOf(t, i) <= t[k].at
  <2>1. i \in 1 .. n
    BY <1>3, <1>12, SMT
  <2>2. CASE k \in 1 .. n
    <3>1. EndOf(s, i) <= s[k].at
      BY <1>2, <1>12, <2>1, <2>2, Zenon DEF Laid
    <3> QED
      BY <1>3, <1>4, <2>1, <2>2, <3>1, Zenon
  <2>3. CASE k = n + 1
    BY <1>3, <1>4, <1>5, <2>1, <2>3, Zenon
  <2> QED
    BY <1>3, <1>8, <2>2, <2>3, Zenon
<1>13. Laid(t)
  BY <1>3, <1>11, <1>12, Zenon DEF Laid
<1>14. \A k \in DOMAIN s : k \in DOMAIN t /\ t[k] = s[k] /\ EndOf(t, k) = EndOf(s, k)
  BY <1>2, <1>3, <1>4, <1>9, Zenon
<1>15. \A k \in DOMAIN t : k \notin DOMAIN s => t[k] = f
  BY <1>2, <1>3, <1>8, Zenon
<1>16. \E k \in DOMAIN t : t[k] = f
  BY <1>3, <1>10, Zenon
<1> QED
  BY <1>5, <1>7, <1>13, <1>14, <1>15, <1>16, Zenon DEF Grown

\* It leaves the chain where it is ...
LEMMA AppendAligned ==
  ASSUME NEW s, Laid(s), NEW f \in Frame, Readable(f), f.at = SentOf(s),
         NEW b, NEW r, Aligned(s, b, r)
  PROVE  Aligned(Append(s, f), b, r)
<1>1. PICK t : t = Append(s, f) /\ Grown(s, f, t)
  BY Appended, Zenon
<1>2. CASE b = SentOf(s) /\ r = 0
  <2>1. PICK k \in DOMAIN t : t[k] = f
    BY <1>1, Zenon DEF Grown
  <2>2. 0 < Size(f)
    BY SMT DEF Readable
  <2> QED
    BY <1>1, <1>2, <2>1, <2>2, Zenon DEF Aligned
<1>3. CASE \E k \in DOMAIN s : s[k].at = b /\ r < Size(s[k])
  <2>1. PICK k \in DOMAIN s : s[k].at = b /\ r < Size(s[k])
    BY <1>3, Zenon
  <2>2. k \in DOMAIN t /\ t[k] = s[k]
    BY <1>1, Zenon DEF Grown
  <2> QED
    BY <1>1, <2>1, <2>2, Zenon DEF Aligned
<1> QED
  BY <1>2, <1>3, Zenon DEF Aligned

\* ... and says nothing new of the frames that have been read.
LEMMA AppendHeard ==
  ASSUME NEW s, Laid(s), NEW f \in Frame, Readable(f), f.at = SentOf(s),
         NEW d, NEW b \in Nat, b <= SentOf(s), Heard(s, d, b)
  PROVE  /\ Heard(Append(s, f), d, b)
         /\ AllHeard(s, d, b) => AllHeard(Append(s, f), d, b)
<1>1. PICK t : t = Append(s, f) /\ Grown(s, f, t)
  BY Appended, Zenon
<1>2. \A k \in DOMAIN s : k \in DOMAIN t /\ t[k] = s[k] /\ EndOf(t, k) = EndOf(s, k)
  BY <1>1, Zenon DEF Grown
<1>3. \A k \in DOMAIN s : TextOf(t, k) <=> TextOf(s, k)
  BY <1>2, Zenon DEF TextOf
<1>4. Heard(t, d, b)
  BY <1>2, <1>3, Zenon DEF Heard
<1>5. ASSUME AllHeard(s, d, b), NEW k \in DOMAIN t, EndOf(t, k) <= b, TextOf(t, k)
      PROVE  \E i \in DOMAIN d : d[i] = k
  <2>1. k \in DOMAIN s
    <3>1. SUFFICES ASSUME k \notin DOMAIN s
                   PROVE  FALSE
      BY Zenon
    <3>2. t[k] = f
      BY <1>1, <3>1, Zenon DEF Grown
    <3>3. EndOf(t, k) = SentOf(s) + Size(f)
      BY <3>2, Zenon DEF EndOf
    <3>4. SentOf(s) \in Nat
      BY <1>1, Zenon DEF Grown
    <3>5. Size(f) \in Nat /\ Size(f) > 0
      BY Zenon DEF Readable
    <3> QED
      BY <1>5, <3>3, <3>4, <3>5, SMT
  <2> QED
    BY <1>2, <1>3, <1>5, <2>1, Zenon DEF AllHeard
<1> QED
  BY <1>1, <1>4, <1>5, Zenon DEF AllHeard

\* The frame at which a chain begins.
FrameAt(s, b) == CHOOSE i \in DOMAIN s : s[i].at = b

\* When there are bytes to read, there is one such frame, and it is not whole yet.
LEMMA AtStart ==
  ASSUME NEW s, Laid(s), NEW b \in Nat, NEW r \in Nat, Aligned(s, b, r),
         b + r < SentOf(s), NEW k, k = FrameAt(s, b)
  PROVE  k \in DOMAIN s /\ s[k].at = b /\ r < Size(s[k])
<1>1. ~ (b = SentOf(s) /\ r = 0)
  BY SMT
<1>2. PICK j \in DOMAIN s : s[j].at = b /\ r < Size(s[j])
  BY <1>1, Zenon DEF Aligned
<1>3. k \in DOMAIN s /\ s[k].at = b
  BY <1>2, Zenon DEF FrameAt
<1>4. k = j
  BY <1>2, <1>3, Order, Zenon
<1> QED
  BY <1>2, <1>3, <1>4, Zenon

\* Where a frame ends, the next one begins.
LEMMA Realigned ==
  ASSUME NEW s, Laid(s), NEW k \in DOMAIN s
  PROVE  Aligned(s, EndOf(s, k), 0)
<1>1. s \in Seq(Frame) /\ k \in Nat /\ k <= Len(s) /\ Len(s) \in Nat
  <2>1. s \in Seq(Frame)
    BY Zenon DEF Laid
  <2> QED
    BY <2>1, SMT
<1>2. CASE k = Len(s)
  <2>1. s # <<>>
    BY <1>1, SMT
  <2> QED
    BY <1>2, <2>1, Zenon DEF Aligned, SentOf
<1>3. CASE k # Len(s)
  <2>1. k + 1 \in DOMAIN s /\ k + 1 # 1 /\ (k + 1) - 1 = k
    BY <1>1, <1>3, SMT
  <2>2. s[k + 1].at = EndOf(s, k)
    BY <2>1, Zenon DEF Laid
  <2>3. Size(s[k + 1]) > 0
    BY <2>1, Zenon DEF Laid, Readable
  <2>4. 0 < Size(s[k + 1])
    <3>1. PICK z : z = Size(s[k + 1]) /\ z \in Nat /\ z > 0
      BY <2>1, <2>3, Zenon DEF Laid, Readable
    <3>2. 0 < z
      BY <3>1, SMT
    <3> QED
      BY <3>1, <3>2, Zenon
  <2> QED
    BY <2>1, <2>2, <2>4, Zenon DEF Aligned
<1> QED
  BY <1>2, <1>3, Zenon

\* A text is heard after those that have been.
LEMMA HeardNext ==
  ASSUME NEW s, Laid(s), NEW k \in DOMAIN s, TextOf(s, k), NEW d, Heard(s, d, s[k].at),
         NEW p \in Nat, EndOf(s, k) <= p
  PROVE  Heard(s, d, p) /\ Heard(s, Append(d, k), p)
<1>1. d \in Seq(Nat) /\ k \in Nat
  BY Places, Zenon DEF Heard
<1>2. ASSUME NEW i \in DOMAIN d
      PROVE  d[i] \in DOMAIN s /\ TextOf(s, d[i]) /\ d[i] < k /\ EndOf(s, d[i]) <= p
  <2>1. PICK j : j = d[i] /\ j \in DOMAIN s /\ TextOf(s, j) /\ EndOf(s, j) <= s[k].at
    BY Zenon DEF Heard
  <2>2. j < k
    BY <2>1, Order, Zenon
  <2>3. EndOf(s, j) \in Nat
    BY <2>1, Places, Zenon
  <2>4. s[k].at \in Nat /\ EndOf(s, k) \in Nat /\ s[k].at < EndOf(s, k)
    BY Places, Zenon
  <2>5. EndOf(s, j) <= p
    BY <2>1, <2>3, <2>4, SMT
  <2> QED
    BY <2>1, <2>2, <2>5, Zenon
<1>3. Heard(s, d, p)
  BY <1>2, Zenon DEF Heard
<1>4. PICK e : e = Append(d, k)
  BY Zenon
<1>5. PICK n \in Nat : n = Len(d) /\ DOMAIN d = 1 .. n
  BY <1>1, SMT
<1>6. /\ e \in Seq(Nat) /\ DOMAIN e = 1 .. (n + 1) /\ e[n + 1] = k
      /\ \A i \in 1 .. n : e[i] = d[i]
  BY <1>1, <1>4, <1>5, SMT
<1>7. \A i \in 1 .. (n + 1) : i \in 1 .. n \/ i = n + 1
  BY SMT
<1>8. ASSUME NEW i \in DOMAIN e, NEW j \in DOMAIN e, i < j
      PROVE  e[i] < e[j]
  <2>1. i \in 1 .. n
    BY <1>6, <1>8, SMT
  <2>2. CASE j \in 1 .. n
    <3>1. d[i] < d[j]
      BY <1>5, <1>8, <2>1, <2>2, Zenon DEF Heard
    <3> QED
      BY <1>6, <2>1, <2>2, <3>1, Zenon
  <2>3. CASE j = n + 1
    BY <1>2, <1>5, <1>6, <2>1, <2>3, Zenon
  <2> QED
    BY <1>6, <1>7, <2>2, <2>3, Zenon
<1>9. ASSUME NEW i \in DOMAIN e
      PROVE  e[i] \in DOMAIN s /\ EndOf(s, e[i]) <= p /\ TextOf(s, e[i])
  <2>1. CASE i \in 1 .. n
    BY <1>2, <1>5, <1>6, <2>1, Zenon
  <2>2. CASE i = n + 1
    BY <1>6, <2>2, Zenon
  <2> QED
    BY <1>6, <1>7, <2>1, <2>2, Zenon
<1>10. Heard(s, e, p)
  BY <1>6, <1>8, <1>9, Zenon DEF Heard
<1> QED
  BY <1>3, <1>4, <1>10, Zenon

\* What has been heard of the frames up to one place has been heard of more.
LEMMA HeardLater ==
  ASSUME NEW s, Laid(s), NEW d, NEW b \in Nat, NEW p \in Nat, b <= p, Heard(s, d, b)
  PROVE  Heard(s, d, p)
<1>1. ASSUME NEW i \in DOMAIN d
      PROVE  EndOf(s, d[i]) <= p
  <2>1. d[i] \in DOMAIN s /\ EndOf(s, d[i]) <= b
    BY Zenon DEF Heard
  <2>2. EndOf(s, d[i]) \in Nat
    BY <2>1, Places, Zenon
  <2> QED
    BY <2>1, <2>2, SMT
<1> QED
  BY <1>1, Zenon DEF Heard

\* When the read ends where the frame does, all texts have been heard.
LEMMA AllHeardNext ==
  ASSUME NEW s, Laid(s), NEW k \in DOMAIN s, NEW d, d \in Seq(Nat), AllHeard(s, d, s[k].at)
  PROVE  /\ TextOf(s, k) => AllHeard(s, Append(d, k), EndOf(s, k))
         /\ ~ TextOf(s, k) => AllHeard(s, d, EndOf(s, k))
<1>1. k \in Nat
  BY Places, Zenon
<1>2. PICK e : e = Append(d, k)
  BY Zenon
<1>3. \A i \in DOMAIN d : i \in DOMAIN e /\ e[i] = d[i]
  BY <1>1, <1>2, SMT
<1>4. \E i \in DOMAIN e : e[i] = k
  <2>1. Len(d) + 1 \in DOMAIN e /\ e[Len(d) + 1] = k
    BY <1>1, <1>2, SMT
  <2> QED
    BY <2>1, Zenon
<1>5. ASSUME NEW j \in DOMAIN s, EndOf(s, j) <= EndOf(s, k), TextOf(s, j), j # k
      PROVE  \E i \in DOMAIN d : d[i] = j
  <2>1. j < k
    BY <1>5, Order, Zenon
  <2>2. EndOf(s, j) <= s[k].at
    BY <2>1, Order, Zenon
  <2> QED
    BY <1>5, <2>2, Zenon DEF AllHeard
<1>6. TextOf(s, k) => AllHeard(s, e, EndOf(s, k))
  BY <1>3, <1>4, <1>5, Zenon DEF AllHeard
<1>7. ~ TextOf(s, k) => AllHeard(s, d, EndOf(s, k))
  BY <1>5, Zenon DEF AllHeard
<1> QED
  BY <1>2, <1>6, <1>7, Zenon

\* The least of three numbers.
LEMMA LeastOfThree ==
  ASSUME NEW a \in Nat, NEW b \in Nat, NEW c \in Nat, NEW n, n = Min({a, b, c})
  PROVE  n \in Nat /\ n <= c
<1>1. \E x \in {a, b, c} : \A y \in {a, b, c} : x <= y
  BY SMT
<1>2. n \in {a, b, c} /\ \A y \in {a, b, c} : n <= y
  BY <1>1, Zenon DEF Min
<1> QED
  BY <1>2, SMT

-----------------------------------------------------------------------------
(* The connection.                                                         *)

\* What is written is the handshake or a text that can be read back.
OutOK(f) == f \in {Nothing, Handshake} \/ (Readable(f) /\ f.hdr[1] % 16 = Text)

\* The inductive invariant.  A chain that begins where a frame does is what makes
\* parseFrame find that frame; it is lost only with bytes that are cleared unread.
\* The frames heard end before the chain begins, wherever that is.
IInv ==
  /\ Laid(sent)
  /\ phase \in {"http", "setup"} => sent = <<>>
  /\ start \in Nat /\ recv_len \in Nat /\ start + recv_len <= SentOf(sent)
  /\ ~ dropped => Aligned(sent, start, recv_len) /\ ~ stray
  /\ phase = "crashed" /\ ~ dropped => sock_js = "uninitialised"
  /\ Heard(sent, delivered, start)
  /\ onMessage_ /\ ~ dropped => AllHeard(sent, delivered, start)
  /\ OutOK(out)

\* IInv holds before the upgrade.
LEMMA InvInit == Init => IInv
<1>1. SUFFICES ASSUME Init
               PROVE  IInv
  BY Zenon
<1>2. /\ sent = <<>> /\ start = 0 /\ recv_len = 0 /\ delivered = <<>> /\ out = Nothing
      /\ stray = FALSE /\ sock_js = "uninitialised"
  BY <1>1, Zenon DEF Init
<1>3. <<>> \in Seq(Frame) /\ <<>> \in Seq(Nat) /\ \A k : k \notin DOMAIN <<>>
  BY SMT
<1>4. Laid(sent)
  BY <1>2, <1>3, Zenon DEF Laid
<1>5. SentOf(sent) = 0
  BY <1>2, Zenon DEF SentOf
<1>6. start \in Nat /\ recv_len \in Nat /\ start + recv_len <= SentOf(sent)
  BY <1>2, <1>5, SMT
<1>7. Aligned(sent, start, recv_len)
  BY <1>2, <1>5, Zenon DEF Aligned
<1>8. Heard(sent, delivered, start)
  BY <1>2, <1>3, Zenon DEF Heard
<1>9. AllHeard(sent, delivered, start)
  BY <1>2, <1>3, Zenon DEF AllHeard
<1> QED
  BY <1>2, <1>4, <1>6, <1>7, <1>8, <1>9, Zenon DEF IInv, OutOK

\* Nothing is heard, and the chain is empty, before the client has sent a frame.
LEMMA Before ==
  ASSUME IInv, sent = <<>>
  PROVE  Aligned(sent, start, recv_len) /\ AllHeard(sent, delivered, start)
<1>1. SentOf(sent) = 0
  BY Zenon DEF SentOf
<1>2. start \in Nat /\ recv_len \in Nat /\ start + recv_len <= SentOf(sent)
  BY Zenon DEF IInv
<1>3. start = 0 /\ recv_len = 0
  BY <1>1, <1>2, SMT
<1>4. \A k : k \notin DOMAIN <<>>
  BY SMT
<1> QED
  BY <1>1, <1>3, <1>4, Zenon DEF Aligned, AllHeard

\* IInv is preserved when the function of the route is called or there is none ...
LEMMA InvUpgrade ==
  ASSUME IInv, invoke_no_route \/ \E sets \in BOOLEAN : invoke_ws_function(sets)
  PROVE  IInv'
<1>1. /\ phase = "http" /\ phase' = "setup"
      /\ sent' = sent /\ start' = start /\ recv_len' = recv_len
      /\ delivered' = delivered /\ stray' = stray /\ dropped' = dropped /\ out' = out
  BY Zenon DEF invoke_ws_function, invoke_no_route, stream
<1>2. sent = <<>>
  BY <1>1, Zenon DEF IInv
<1>3. Aligned(sent, start, recv_len) /\ AllHeard(sent, delivered, start)
  BY <1>2, Before, Zenon
<1>4. phase' # "crashed"
  BY <1>1, SMT
<1> QED
  BY <1>1, <1>2, <1>3, <1>4, Zenon DEF IInv

\* ... when the handshake is written ...
LEMMA InvHandshake ==
  ASSUME IInv, complete_protocol_upgrade_handshake
  PROVE  IInv'
<1>1. /\ phase = "setup" /\ phase' = "ws" /\ onMessage_' = onMessage_
      /\ sent' = sent /\ start' = start /\ recv_len' = recv_len
      /\ delivered' = delivered /\ stray' = stray /\ dropped' = dropped
      /\ out' = Handshake
  BY Zenon DEF complete_protocol_upgrade_handshake, stream, socket
<1>2. phase' \notin {"http", "setup"} /\ phase' # "crashed"
  BY <1>1, SMT
<1> QED
  BY <1>1, <1>2, Zenon DEF IInv, OutOK

\* The lengths and the opcodes are ones that a header can hold.
LEMMA Sizes ==
  /\ \A len \in InLens : len \in Lengths
  /\ \A len \in OutLens : len \in Lengths
  /\ \A opcode \in Opcodes : opcode \in 0 .. 15
  /\ Text \in 0 .. 15
<1>1. Text \in 0 .. 15
  BY SMT DEF Text
<1>2. InLens \cup OutLens \subseteq Lengths /\ Opcodes \subseteq 0 .. 15
  BY Frames, Zenon DEF Lengths
<1> QED
  BY <1>1, <1>2, Zenon

\* ... when the script sends, because sendFrame writes what is read back ...
LEMMA InvSend ==
  ASSUME IInv, NEW len \in OutLens, send_frame(len)
  PROVE  IInv'
<1>1. /\ phase' = phase /\ sock_js' = sock_js /\ onMessage_' = onMessage_
      /\ sent' = sent /\ start' = start /\ recv_len' = recv_len
      /\ delivered' = delivered /\ stray' = stray /\ dropped' = dropped
      /\ out' = sendFrame(len, Text)
  BY Zenon DEF send_frame, stream, socket
<1>2. len \in Lengths /\ Text \in 0 .. 15
  BY Sizes, Zenon
<1>3. OutOK(sendFrame(len, Text))
  BY <1>2, SendReadable, Zenon DEF OutOK
<1> QED
  BY <1>1, <1>3, Zenon DEF IInv

\* ... when the client sends one more frame ...
LEMMA InvClient ==
  ASSUME IInv, NEW len \in InLens, NEW opcode \in Opcodes, ClientSends(len, opcode)
  PROVE  IInv'
<1>1. PICK f : f = [hdr |-> ClientFrame(len, opcode).hdr, len |-> len, at |-> Sent]
  BY Zenon
<1>2. /\ phase = "ws" /\ phase' = "ws" /\ onMessage_' = onMessage_
      /\ sent' = Append(sent, f) /\ start' = start /\ recv_len' = recv_len
      /\ delivered' = delivered /\ stray' = stray /\ dropped' = dropped /\ out' = out
  BY <1>1, Zenon DEF ClientSends, stream, socket
<1>3. len \in Lengths /\ opcode \in 0 .. 15
  BY Sizes, Zenon
<1>4. f.hdr = ClientFrame(len, opcode).hdr /\ f.len = len /\ f.at = Sent
  BY <1>1, Zenon
<1>5. Readable(f) /\ f.hdr \in Seq(Nat)
  BY <1>3, <1>4, ClientReadable, Zenon
<1>6. Laid(sent)
  BY Zenon DEF IInv
<1>7. Sent = SentOf(sent)
  BY Zenon DEF Sent, SentOf, End, EndOf
<1>8. SentOf(sent) \in Nat
  <2>1. start \in Nat /\ recv_len \in Nat /\ start + recv_len <= SentOf(sent)
    BY Zenon DEF IInv
  <2>2. sent # <<>> => Len(sent) \in DOMAIN sent
    <3>1. sent \in Seq(Frame)
      BY <1>6, Zenon DEF Laid
    <3> QED
      BY <3>1, SMT
  <2>3. CASE sent = <<>>
    <3>1. 0 \in Nat
      BY SMT
    <3> QED
      BY <2>3, <3>1, Zenon DEF SentOf
  <2>4. CASE sent # <<>>
    BY <1>6, <2>2, <2>4, Places, Zenon
  <2> QED
    BY <2>3, <2>4, Zenon
<1>9. f \in Frame
  <2>1. len \in Nat
    BY <1>3, Forms, Zenon
  <2> QED
    BY <1>1, <1>4, <1>5, <1>7, <1>8, <2>1, Zenon DEF Frame
<1>10. Grown(sent, f, sent')
  BY <1>2, <1>4, <1>5, <1>6, <1>7, <1>9, Appended, Zenon
<1>11. start \in Nat /\ recv_len \in Nat /\ start + recv_len <= SentOf(sent)
  BY Zenon DEF IInv
<1>12. start + recv_len <= SentOf(sent')
  <2>1. SentOf(sent') = SentOf(sent) + Size(f)
    BY <1>10, Zenon DEF Grown
  <2>2. Size(f) \in Nat
    BY <1>5, Zenon DEF Readable
  <2> QED
    BY <1>8, <1>11, <2>1, <2>2, SMT
<1>13. ~ dropped => Aligned(sent', start, recv_len)
  <2>1. ~ dropped => Aligned(sent, start, recv_len)
    BY <1>2, Zenon DEF IInv
  <2> QED
    BY <1>2, <1>4, <1>5, <1>6, <1>7, <1>9, <2>1, AppendAligned, Zenon
<1>14. start <= SentOf(sent)
  BY <1>8, <1>11, SMT
<1>15. /\ Heard(sent', delivered, start)
       /\ AllHeard(sent, delivered, start) => AllHeard(sent', delivered, start)
  <2>1. Heard(sent, delivered, start)
    BY Zenon DEF IInv
  <2> QED
    BY <1>2, <1>4, <1>5, <1>6, <1>7, <1>9, <1>11, <1>14, <2>1, AppendHeard, Zenon
<1>16. phase' \notin {"http", "setup"} /\ phase' # "crashed"
  BY <1>2, SMT
<1>17. Laid(sent')
  BY <1>10, Zenon DEF Grown
<1> QED
  BY <1>2, <1>11, <1>12, <1>13, <1>15, <1>16, <1>17, Zenon DEF IInv

\* A read of n bytes of what has been sent.
Arrives(n) ==
  /\ n \in Nat /\ n > 0 /\ start + recv_len < SentOf(sent)
  /\ start + recv_len + n <= SentOf(sent)

\* What it leaves when no frame is found at the chain's start, when frame k of the
\* client is, and when bytes inside a frame are taken for one.
ReadMore(n) ==
  /\ recv_len' = recv_len + n /\ phase' = phase /\ start' = start
  /\ delivered' = delivered /\ stray' = stray /\ dropped' = dropped
  /\ ~ dropped => \E k \in DOMAIN sent : sent[k].at = start /\ recv_len + n < Size(sent[k])

ReadFrame(n, k) ==
  /\ ~ (recv_len + n < Size(sent[k]))
  /\ delivered' = IF onMessage_ /\ TextOf(sent, k) THEN Append(delivered, k) ELSE delivered
  /\ start' = start + (recv_len + n) /\ recv_len' = 0
  /\ ~ stray => ~ stray'
  /\ dropped' = (dropped \/ recv_len + n > Size(sent[k]))
  /\ phase' = "ws" \/ (phase' = "crashed" /\ sock_js = "uninitialised")

ReadStray(n) ==
  /\ delivered' = delivered
  /\ start' = start + (recv_len + n) /\ recv_len' = 0
  /\ dropped'
  /\ phase' \in {"ws", "crashed"}

\* The frame that process_web_socket_request finds the chain to begin with.
Found == IF \E i \in DOMAIN sent : sent[i].at = start THEN FrameAt(sent, start) ELSE NoFrame

\* What it does with f, which parseFrame has made of the bytes.
Taken(f, have, k) ==
  IF f.total = 0
  THEN recv_len' = have /\ UNCHANGED <<phase, start, delivered, stray, dropped>>
  ELSE /\ onMessage(f, have, k)
       /\ start' = start + have /\ recv_len' = 0
       /\ dropped' = (dropped \/ have > f.total)

\* A read joins to the chain bytes that have been sent.
LEMMA ReadArrives ==
  ASSUME IInv, NEW c \in Chunks, process_web_socket_request(c)
  PROVE  \E n : /\ Arrives(n)
                /\ \E f \in IF Found = NoFrame THEN NotAFrame(recv_len + n)
                            ELSE {parseFrame(sent[Found], recv_len + n)} :
                     Taken(f, recv_len + n, Found)
<1>1. Laid(sent) /\ start \in Nat /\ recv_len \in Nat /\ start + recv_len <= SentOf(sent)
  BY Zenon DEF IInv
<1>2. Sent = SentOf(sent)
  BY Zenon DEF Sent, SentOf, End, EndOf
<1>3. PICK n : n = Min({c, BufferSize, Sent - (start + recv_len)})
  BY Zenon
<1>4. PICK k : /\ k = IF \E i \in DOMAIN sent : sent[i].at = start
                      THEN CHOOSE i \in DOMAIN sent : sent[i].at = start ELSE NoFrame
               /\ k = Found
  BY Zenon DEF Found, FrameAt
<1>5. /\ n > 0
      /\ \E f \in IF k = NoFrame THEN NotAFrame(recv_len + n)
                  ELSE {parseFrame(sent[k], recv_len + n)} : Taken(f, recv_len + n, k)
  BY <1>3, <1>4, Zenon DEF process_web_socket_request, Taken
<1>6. SentOf(sent) \in Nat
  <2>1. sent \in Seq(Frame)
    BY <1>1, Zenon DEF Laid
  <2>2. CASE sent = <<>>
    <3>1. 0 \in Nat
      BY SMT
    <3> QED
      BY <2>2, <3>1, Zenon DEF SentOf
  <2>3. CASE sent # <<>>
    <3>1. Len(sent) \in DOMAIN sent
      BY <2>1, <2>3, SMT
    <3> QED
      BY <1>1, <3>1, Places, Zenon
  <2> QED
    BY <2>2, <2>3, Zenon
<1>7. PICK r \in Nat : r = SentOf(sent) - (start + recv_len)
  BY <1>1, <1>6, SMT
<1>8. n \in Nat /\ n <= r
  <2>1. c \in Nat /\ BufferSize \in Nat
    BY Reads, Zenon
  <2>2. n = Min({c, BufferSize, r})
    BY <1>2, <1>3, <1>7, Zenon
  <2> QED
    BY <2>1, <2>2, LeastOfThree, Zenon
<1>9. start + recv_len < SentOf(sent) /\ start + recv_len + n <= SentOf(sent)
  BY <1>1, <1>5, <1>6, <1>7, <1>8, SMT
<1>10. Arrives(n)
  BY <1>5, <1>8, <1>9, Zenon DEF Arrives
<1> QED
  BY <1>4, <1>5, <1>10, Zenon

\* Where a frame begins, that frame is read or more bytes are awaited.
LEMMA ReadAtFrame ==
  ASSUME IInv, NEW n, Arrives(n), NEW k \in DOMAIN sent, sent[k].at = start,
         NEW f, f = parseFrame(sent[k], recv_len + n), Taken(f, recv_len + n, k), phase = "ws"
  PROVE  ReadMore(n) \/ ReadFrame(n, k)
<1>1. Laid(sent) /\ start \in Nat /\ recv_len \in Nat /\ n \in Nat
  BY Zenon DEF IInv, Arrives
<1>2. PICK have \in Nat : have = recv_len + n
  BY <1>1, SMT
<1>3. k # NoFrame
  BY <1>1, SMT DEF Laid, NoFrame
<1>4. PICK z, y \in Nat : z = Size(sent[k]) /\ z > 0 /\ z # 0 /\ y = sent[k].len /\ y <= z
  <2>1. PICK g : g = sent[k] /\ g \in Frame
    <3>1. sent \in Seq(Frame)
      BY <1>1, Zenon DEF Laid
    <3> QED
      BY <3>1, SMT
  <2>2. PICK l, m \in Nat : l = Len(g.hdr) /\ m = g.len
    BY <2>1, SMT DEF Frame
  <2>3. Size(g) = l + m
    BY <2>2, Zenon DEF Size
  <2>4. l + m \in Nat /\ m <= l + m
    BY <2>2, SMT
  <2>5. Size(sent[k]) \in Nat /\ Size(sent[k]) > 0
    BY <1>1, Zenon DEF Laid, Readable
  <2>6. l + m > 0
    BY <2>1, <2>3, <2>5, Zenon
  <2>7. l + m # 0
    BY <2>4, <2>6, SMT
  <2> QED
    BY <2>1, <2>2, <2>3, <2>4, <2>6, <2>7, Zenon
<1>5. f = IF have < z THEN NeedMore
          ELSE [total |-> z, opcode |-> sent[k].hdr[1] % 16, len |-> sent[k].len]
  BY <1>1, <1>2, <1>4, Zenon DEF Laid, Readable
<1>6. CASE have < z
  <2>0. f = NeedMore
    BY <1>5, <1>6, Zenon
  <2>1. f.total = 0
    BY <2>0, SMT DEF NeedMore
  <2>2. ReadMore(n)
    BY <1>2, <1>4, <1>6, <2>1, Zenon DEF ReadMore, Taken
  <2> QED
    BY <2>2, Zenon
<1>7. CASE ~ (have < z)
  <2>0. f = [total |-> z, opcode |-> sent[k].hdr[1] % 16, len |-> sent[k].len]
    BY <1>5, <1>7, Zenon
  <2>1. f.total = z /\ f.opcode = sent[k].hdr[1] % 16 /\ f.len = sent[k].len
    BY <2>0, SMT
  <2>2. /\ onMessage(f, have, k)
        /\ start' = start + have /\ recv_len' = 0
        /\ dropped' = (dropped \/ have > z)
    BY <1>2, <1>4, <2>1, Zenon DEF Taken
  <2>3. ~ (f.len > have)
    <3>1. ~ (y > have)
      BY <1>2, <1>4, <1>7, SMT
    <3> QED
      BY <1>4, <2>1, <3>1, Zenon
  <2>4. /\ delivered' = IF onMessage_ /\ TextOf(sent, k) THEN Append(delivered, k)
                        ELSE delivered
        /\ ~ stray => ~ stray'
        /\ phase' = "ws" \/ (phase' = "crashed" /\ sock_js = "uninitialised")
    BY <1>3, <2>1, <2>2, <2>3, Zenon DEF onMessage, TextOf
  <2>5. ReadFrame(n, k)
    BY <1>2, <1>4, <1>7, <2>2, <2>4, Zenon DEF ReadFrame
  <2> QED
    BY <2>5, Zenon
<1> QED
  BY <1>6, <1>7, Zenon

\* Inside a frame nothing that the client sent is read.  This happens only after
\* bytes have been dropped: this is what Aligned is for.
LEMMA ReadInside ==
  ASSUME IInv, NEW n, Arrives(n), Found = NoFrame, ~ \E i \in DOMAIN sent : sent[i].at = start,
         NEW f, Taken(f, recv_len + n, Found), phase = "ws"
  PROVE  ReadMore(n) \/ ReadStray(n)
<1>1. start \in Nat /\ recv_len \in Nat /\ start + recv_len < SentOf(sent)
  BY Zenon DEF IInv, Arrives
<1>2. ~ (start = SentOf(sent) /\ recv_len = 0)
  BY <1>1, SMT
<1>3. dropped
  BY <1>2, Zenon DEF IInv, Aligned
<1>4. CASE f.total = 0
  BY <1>3, <1>4, Zenon DEF ReadMore, Taken
<1>5. CASE f.total # 0
  <2>1. /\ onMessage(f, recv_len + n, NoFrame)
        /\ start' = start + (recv_len + n) /\ recv_len' = 0
        /\ dropped' = (dropped \/ recv_len + n > f.total)
    BY <1>5, Zenon DEF Taken
  <2>2. delivered' = delivered /\ phase' \in {"ws", "crashed"}
    BY <2>1, Zenon DEF onMessage
  <2> QED
    BY <1>3, <2>1, <2>2, Zenon DEF ReadStray
<1> QED
  BY <1>4, <1>5, Zenon

\* IInv is preserved by a read that finds no frame ...
LEMMA InvReadMore ==
  ASSUME IInv, NEW n, Arrives(n), ReadMore(n),
         phase = "ws", sock_js' = sock_js, onMessage_' = onMessage_, sent' = sent, out' = out
  PROVE  IInv'
<1>1. start \in Nat /\ recv_len \in Nat /\ n \in Nat /\ start + recv_len + n <= SentOf(sent)
  BY Zenon DEF IInv, Arrives
<1>2. /\ recv_len' = recv_len + n /\ phase' = phase /\ start' = start
      /\ delivered' = delivered /\ stray' = stray /\ dropped' = dropped
  BY Zenon DEF ReadMore
<1>3. recv_len + n \in Nat /\ start + (recv_len + n) = start + recv_len + n
  BY <1>1, SMT
<1>4. ~ dropped => Aligned(sent, start, recv_len + n)
  BY Zenon DEF ReadMore, Aligned
<1>5. recv_len' \in Nat /\ start' \in Nat /\ start' + recv_len' <= SentOf(sent')
  BY <1>1, <1>2, <1>3, Zenon
<1>6. ~ dropped' => Aligned(sent', start', recv_len')
  BY <1>2, <1>4, Zenon
<1> QED
  BY <1>2, <1>5, <1>6, Zenon DEF IInv

\* ... by one that finds a frame, whether or not it reaches past the end ...
LEMMA InvReadFrame ==
  ASSUME IInv, NEW n, Arrives(n), NEW k \in DOMAIN sent, sent[k].at = start, ReadFrame(n, k),
         phase = "ws", sock_js' = sock_js, onMessage_' = onMessage_, sent' = sent, out' = out
  PROVE  IInv'
<1>1. /\ start \in Nat /\ recv_len \in Nat /\ n \in Nat /\ Laid(sent)
      /\ start + recv_len + n <= SentOf(sent)
      /\ Heard(sent, delivered, start)
      /\ onMessage_ /\ ~ dropped => AllHeard(sent, delivered, start)
  BY Zenon DEF IInv, Arrives
<1>2. /\ ~ (recv_len + n < Size(sent[k]))
      /\ delivered' = IF onMessage_ /\ TextOf(sent, k) THEN Append(delivered, k) ELSE delivered
      /\ start' = start + (recv_len + n) /\ recv_len' = 0
      /\ ~ stray => ~ stray'
      /\ dropped' = (dropped \/ recv_len + n > Size(sent[k]))
      /\ phase' = "ws" \/ (phase' = "crashed" /\ sock_js = "uninitialised")
  BY Zenon DEF ReadFrame
<1>3. PICK z, e \in Nat : z = Size(sent[k]) /\ e = EndOf(sent, k) /\ e = start + z
  <2>1. Size(sent[k]) \in Nat /\ EndOf(sent, k) \in Nat /\ EndOf(sent, k) = sent[k].at + Size(sent[k])
    BY <1>1, Places, Zenon
  <2> QED
    BY <2>1, Zenon
<1>4. PICK p \in Nat : p = start' /\ p = start + recv_len + n
  BY <1>1, <1>2, SMT
<1>5. e <= p /\ start <= p /\ (~ (recv_len + n > z) => p = e) /\ p + 0 = p
  <2>1. ~ (recv_len + n < z)
    BY <1>2, <1>3, Zenon
  <2> QED
    BY <1>1, <1>3, <1>4, <2>1, SMT
<1>6. ~ dropped' => ~ dropped /\ p = e
  BY <1>2, <1>3, <1>5, Zenon
<1>7. start' \in Nat /\ recv_len' \in Nat /\ start' + recv_len' <= SentOf(sent')
  <2>1. 0 \in Nat
    BY SMT
  <2> QED
    BY <1>1, <1>2, <1>4, <1>5, <2>1, Zenon
<1>8. Heard(sent', delivered', start')
  <2>1. Heard(sent, delivered, p)
    BY <1>1, <1>5, HeardLater, Zenon
  <2>2. TextOf(sent, k) => Heard(sent, Append(delivered, k), p)
    BY <1>1, <1>3, <1>5, HeardNext, Zenon
  <2> QED
    BY <1>2, <1>4, <2>1, <2>2, Zenon
<1>9. onMessage_' /\ ~ dropped' => AllHeard(sent', delivered', start')
  <2>1. SUFFICES ASSUME onMessage_', ~ dropped'
                 PROVE  AllHeard(sent', delivered', start')
    BY Zenon
  <2>2. AllHeard(sent, delivered, sent[k].at) /\ start' = EndOf(sent, k) /\ onMessage_
    BY <1>1, <1>3, <1>4, <1>6, <2>1, Zenon
  <2>3. delivered \in Seq(Nat)
    BY <1>1, Zenon DEF Heard
  <2>4. /\ TextOf(sent, k) => AllHeard(sent, Append(delivered, k), EndOf(sent, k))
        /\ ~ TextOf(sent, k) => AllHeard(sent, delivered, EndOf(sent, k))
    BY <1>1, <2>2, <2>3, AllHeardNext, Zenon
  <2> QED
    BY <1>2, <2>2, <2>4, Zenon
<1>10. ~ dropped' => Aligned(sent', start', recv_len') /\ ~ stray'
  <2>1. Aligned(sent, EndOf(sent, k), 0)
    BY <1>1, Realigned, Zenon
  <2>2. ~ dropped' => start' = EndOf(sent, k) /\ ~ dropped
    BY <1>3, <1>4, <1>6, Zenon
  <2>3. ~ dropped => ~ stray
    BY Zenon DEF IInv
  <2> QED
    BY <1>2, <2>1, <2>2, <2>3, Zenon
<1>11. phase' \notin {"http", "setup"} /\ (phase' = "crashed" => sock_js = "uninitialised")
  BY <1>2, SMT
<1>12. Laid(sent') /\ OutOK(out')
  BY Zenon DEF IInv
<1> QED
  BY <1>7, <1>8, <1>9, <1>10, <1>11, <1>12, Zenon DEF IInv

\* ... and by one that takes bytes inside a frame for one.
LEMMA InvReadStray ==
  ASSUME IInv, NEW n, Arrives(n), ReadStray(n),
         phase = "ws", sock_js' = sock_js, onMessage_' = onMessage_, sent' = sent, out' = out
  PROVE  IInv'
<1>1. /\ start \in Nat /\ recv_len \in Nat /\ n \in Nat /\ Laid(sent)
      /\ start + recv_len + n <= SentOf(sent) /\ Heard(sent, delivered, start)
  BY Zenon DEF IInv, Arrives
<1>2. /\ delivered' = delivered /\ start' = start + (recv_len + n) /\ recv_len' = 0
      /\ dropped' /\ phase' \in {"ws", "crashed"}
  BY Zenon DEF ReadStray
<1>3. PICK p \in Nat : p = start' /\ p = start + recv_len + n /\ start <= p /\ p + 0 = p
  BY <1>1, <1>2, SMT
<1>4. start' \in Nat /\ recv_len' \in Nat /\ start' + recv_len' <= SentOf(sent')
  <2>1. 0 \in Nat
    BY SMT
  <2> QED
    BY <1>1, <1>2, <1>3, <2>1, Zenon
<1>5. Heard(sent', delivered', start')
  <2>1. Heard(sent, delivered, p)
    BY <1>1, <1>3, HeardLater, Zenon
  <2> QED
    BY <1>2, <1>3, <2>1, Zenon
<1>6. phase' \notin {"http", "setup"}
  BY <1>2, SMT
<1>7. Laid(sent') /\ OutOK(out')
  BY Zenon DEF IInv
<1> QED
  BY <1>2, <1>4, <1>5, <1>6, <1>7, Zenon DEF IInv

\* IInv is preserved by process_web_socket_request.
LEMMA InvRead ==
  ASSUME IInv, NEW c \in Chunks, process_web_socket_request(c)
  PROVE  IInv'
<1>1. /\ phase = "ws" /\ sock_js' = sock_js /\ onMessage_' = onMessage_
      /\ sent' = sent /\ out' = out
  BY Zenon DEF process_web_socket_request, socket
<1>2. PICK n : /\ Arrives(n)
               /\ \E f \in IF Found = NoFrame THEN NotAFrame(recv_len + n)
                           ELSE {parseFrame(sent[Found], recv_len + n)} :
                    Taken(f, recv_len + n, Found)
  BY ReadArrives, Zenon
<1>3. CASE \E i \in DOMAIN sent : sent[i].at = start
  <2>1. PICK k \in DOMAIN sent : k = Found /\ sent[k].at = start
    BY <1>3, Zenon DEF Found, FrameAt
  <2>2. k # NoFrame
    <3>1. sent \in Seq(Frame)
      BY Zenon DEF IInv, Laid
    <3> QED
      BY <3>1, SMT DEF NoFrame
  <2>3. PICK f : f = parseFrame(sent[k], recv_len + n) /\ Taken(f, recv_len + n, k)
    BY <1>2, <2>1, <2>2, Zenon
  <2>4. ReadMore(n) \/ ReadFrame(n, k)
    BY <1>1, <1>2, <2>1, <2>3, ReadAtFrame, Zenon
  <2> QED
    BY <1>1, <1>2, <2>1, <2>4, InvReadMore, InvReadFrame, Zenon
<1>4. CASE ~ \E i \in DOMAIN sent : sent[i].at = start
  <2>1. Found = NoFrame
    BY <1>4, Zenon DEF Found
  <2>2. PICK f : Taken(f, recv_len + n, Found)
    BY <1>2, Zenon
  <2>3. ReadMore(n) \/ ReadStray(n)
    BY <1>1, <1>2, <1>4, <2>1, <2>2, ReadInside, Zenon
  <2> QED
    BY <1>1, <1>2, <2>3, InvReadMore, InvReadStray, Zenon
<1> QED
  BY <1>3, <1>4, Zenon

\* IInv is preserved by every step.
LEMMA InvNext == IInv /\ [Next]_vars => IInv'
<1>1. SUFFICES ASSUME IInv, [Next]_vars
               PROVE  IInv'
  BY Zenon
<1>2. ASSUME UNCHANGED vars
      PROVE  IInv'
  <2>1. /\ phase' = phase /\ sock_js' = sock_js /\ onMessage_' = onMessage_
        /\ sent' = sent /\ start' = start /\ recv_len' = recv_len
        /\ delivered' = delivered /\ stray' = stray /\ dropped' = dropped /\ out' = out
    BY <1>2, Zenon DEF vars, stream, socket
  <2> QED
    BY <1>1, <2>1, Zenon DEF IInv
<1>3. ASSUME invoke_no_route \/ \E sets \in BOOLEAN : invoke_ws_function(sets)
      PROVE  IInv'
  BY <1>1, <1>3, InvUpgrade, Zenon
<1>4. ASSUME NEW len \in OutLens, send_frame(len)
      PROVE  IInv'
  BY <1>1, <1>4, InvSend, Zenon
<1>5. ASSUME NEW len \in InLens, NEW opcode \in Opcodes, ClientSends(len, opcode)
      PROVE  IInv'
  BY <1>1, <1>5, InvClient, Zenon
<1>6. ASSUME complete_protocol_upgrade_handshake
      PROVE  IInv'
  BY <1>1, <1>6, InvHandshake, Zenon
<1>7. ASSUME NEW c \in Chunks, process_web_socket_request(c)
      PROVE  IInv'
  BY <1>1, <1>7, InvRead, Zenon
<1>8. ASSUME on_client_closed_cb
      PROVE  IInv'
  <2>1. /\ phase = "ws" /\ phase' \in {"closed", "crashed"} /\ onMessage_' = onMessage_
        /\ phase' = "closed" \/ sock_js = "uninitialised"
        /\ sock_js' = sock_js /\ sent' = sent /\ start' = start /\ recv_len' = recv_len
        /\ delivered' = delivered /\ stray' = stray /\ dropped' = dropped /\ out' = out
    BY <1>8, Zenon DEF on_client_closed_cb, stream, socket
  <2>2. phase' \notin {"http", "setup"} /\ "closed" # "crashed"
    BY <2>1, SMT
  <2> QED
    BY <1>1, <2>1, <2>2, Zenon DEF IInv
<1>9. ASSUME Idle
      PROVE  IInv'
  BY <1>2, <1>9, Zenon DEF Idle
<1> QED
  BY <1>1, <1>2, <1>3, <1>4, <1>5, <1>6, <1>7, <1>8, <1>9, Zenon DEF Next

\* IInv is an invariant.
LEMMA Invariance == Spec => []IInv
BY InvInit, InvNext, PTL DEF Spec

\* onMessage is called with the texts that have arrived, each once, in order and
\* as soon as the last byte is there, for frames of every length and however
\* process_web_socket_request is given their bytes, as long as no read reaches
\* past the end of a frame.  When one does and the chain goes on inside a frame,
\* the frames that are still found are not repeated or out of order, whatever
\* parseFrame makes of the bytes in between.
THEOREM DeliveryOfTexts == Spec => []TextsDelivered
<1>1. ASSUME IInv
      PROVE  TextsDelivered
  <2>1. /\ Laid(sent) /\ start \in Nat /\ recv_len \in Nat
        /\ Heard(sent, delivered, start)
        /\ ~ dropped => Aligned(sent, start, recv_len) /\ ~ stray
        /\ phase = "crashed" /\ ~ dropped => sock_js = "uninitialised"
        /\ onMessage_ /\ ~ dropped => AllHeard(sent, delivered, start)
    BY <1>1, Zenon DEF IInv
  <2>2. \A k : End(k) = EndOf(sent, k) /\ (IsText(k) <=> TextOf(sent, k))
    BY Zenon DEF End, EndOf, IsText, TextOf
  <2>3. \A k \in DOMAIN sent : EndOf(sent, k) \in Nat /\ k \in Nat
    BY <2>1, Places, Zenon
  <2>4. ASSUME NEW i \in DOMAIN delivered
        PROVE  delivered[i] \in Arrived /\ IsText(delivered[i])
    <3>1. PICK k : /\ k = delivered[i] /\ k \in DOMAIN sent /\ EndOf(sent, k) <= start
                   /\ TextOf(sent, k)
      BY <2>1, Zenon DEF Heard
    <3>2. EndOf(sent, k) \in Nat
      BY <2>3, <3>1, Zenon
    <3>3. EndOf(sent, k) <= start + recv_len
      BY <2>1, <3>1, <3>2, SMT
    <3> QED
      BY <2>2, <3>1, <3>3, Zenon DEF Arrived
  <2>5. ASSUME onMessage_, ~ dropped, NEW k \in Arrived, IsText(k)
        PROVE  \E i \in DOMAIN delivered : delivered[i] = k
    <3>1. k \in DOMAIN sent /\ EndOf(sent, k) <= start + recv_len /\ TextOf(sent, k)
      BY <2>2, <2>5, Zenon DEF Arrived
    <3>2. EndOf(sent, k) \in Nat
      BY <2>3, <3>1, Zenon
    <3>3. EndOf(sent, k) <= start
      <4>1. CASE recv_len = 0
        BY <2>1, <3>1, <3>2, <4>1, SMT
      <4>2. CASE \E j \in DOMAIN sent : sent[j].at = start /\ recv_len < Size(sent[j])
        <5>1. PICK j \in DOMAIN sent : sent[j].at = start /\ recv_len < Size(sent[j])
          BY <4>2, Zenon
        <5>2. PICK z, e \in Nat : z = Size(sent[j]) /\ e = EndOf(sent, j) /\ e = start + z
          <6>1. /\ Size(sent[j]) \in Nat /\ EndOf(sent, j) \in Nat
                /\ EndOf(sent, j) = sent[j].at + Size(sent[j])
            BY <2>1, Places, Zenon
          <6> QED
            BY <5>1, <6>1, Zenon
        <5>3. recv_len < z
          BY <5>1, <5>2, Zenon
        <5>4. EndOf(sent, k) < e
          BY <2>1, <3>1, <3>2, <5>2, <5>3, SMT
        <5>5. k < j
          BY <2>1, <3>1, <5>2, <5>4, Order, ZenonT(40)
        <5>6. EndOf(sent, k) <= sent[j].at
          BY <2>1, <3>1, <5>5, Order, Zenon
        <5> QED
          BY <5>1, <5>6, Zenon
      <4> QED
        BY <2>1, <2>5, <4>1, <4>2, Zenon DEF Aligned
    <3> QED
      BY <2>1, <2>5, <3>1, <3>3, Zenon DEF AllHeard
  <2> QED
    BY <2>1, <2>4, <2>5, Zenon DEF TextsDelivered, Heard
<1> QED
  BY <1>1, Invariance, PTL

\* What ws.send writes, of every length, is read by parseFrame as it was sent:
\* its opcode and length, as soon as all its bytes are there and not before.
THEOREM FramesReadAsSent == Spec => []FramesReadBack
<1>1. ASSUME IInv
      PROVE  FramesReadBack
  <2>1. SUFFICES ASSUME out \notin {Nothing, Handshake}
                 PROVE  /\ parseFrame(out, Size(out)) =
                             [total |-> Size(out), opcode |-> Text, len |-> out.len]
                        /\ \A n \in (0 .. Len(out.hdr)) \cup {Size(out) - 1} :
                             n < Size(out) => parseFrame(out, n) = NeedMore
    BY Zenon DEF FramesReadBack
  <2>2. Readable(out) /\ out.hdr[1] % 16 = Text
    BY <1>1, <2>1, Zenon DEF IInv, OutOK
  <2>3. PICK z \in Nat : z = Size(out) /\ z > 0
    BY <2>2, Zenon DEF Readable
  <2>4. ~ (z < z) /\ z - 1 \in Nat
    BY <2>3, SMT
  <2>5. \A n \in 0 .. Len(out.hdr) : n \in Nat
    BY SMT
  <2>6. \A n \in Nat : parseFrame(out, n) =
          IF n < z THEN NeedMore
          ELSE [total |-> z, opcode |-> Text, len |-> out.len]
    BY <2>2, <2>3, Zenon DEF Readable
  <2>7. parseFrame(out, z) = [total |-> z, opcode |-> Text, len |-> out.len]
    BY <2>3, <2>4, <2>6, Zenon
  <2>8. \A n \in (0 .. Len(out.hdr)) \cup {z - 1} : n < z => parseFrame(out, n) = NeedMore
    BY <2>4, <2>5, <2>6, Zenon
  <2> QED
    BY <2>3, <2>7, <2>8, Zenon
<1> QED
  BY <1>1, Invariance, PTL
=============================================================================
