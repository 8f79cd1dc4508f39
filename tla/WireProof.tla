------------------------------ MODULE WireProof ------------------------------
(***************************************************************************)
(* Proofs about packets on the wire, for any packets, any limit on their   *)
(* size and any sizes of the pieces they are read in.  The parsers invert  *)
(* the writers: a field that is written at a position of a buffer is read  *)
(* there, field by field up to the packet.  The reader stays in step with  *)
(* the packets: its buffer and the unread bytes together are the packets   *)
(* that wait, and its loop, by induction over them, cuts out those that    *)
(* are complete.                                                           *)
(***************************************************************************)
EXTENDS Wire, TLAPS, SequenceTheorems, FiniteSetTheorems, WellFoundedInduction

\* What is written, read and kept in a buffer.
Bytes == Seq(Byte)

-----------------------------------------------------------------------------
(***************************************************************************)
(* Numbers                                                                 *)
(***************************************************************************)

\* What BigEndian takes its bytes from, by shifts of eight bits, as its recursion states it.
Shifted(g, v, k) == IF k = 0 THEN v ELSE g[k - 1] \div 256

\* The shifts are defined for the two widths in use, and obey their definition.
LEMMA BigEndianDef ==
    ASSUME NEW v \in Nat, NEW w \in {4, 8}
    PROVE  \E g : /\ g = [k \in 0 .. w - 1 |-> Shifted(g, v, k)]
                  /\ BigEndian(v, w) = [i \in 1 .. w |-> g[w - i] % 256]
<1> DEFINE v1 == v \div 256
           v2 == v1 \div 256
           v3 == v2 \div 256
           v4 == v3 \div 256
           v5 == v4 \div 256
           v6 == v5 \div 256
           v7 == v6 \div 256
           h == [k \in 0 .. w - 1 |->
                    IF k = 0 THEN v ELSE IF k = 1 THEN v1 ELSE IF k = 2 THEN v2 ELSE IF k = 3 THEN v3
                    ELSE IF k = 4 THEN v4 ELSE IF k = 5 THEN v5 ELSE IF k = 6 THEN v6 ELSE v7]
           shifted == CHOOSE f : f = [k \in 0 .. w - 1 |-> Shifted(f, v, k)]
<1>1. h = [k \in 0 .. w - 1 |-> Shifted(h, v, k)]
  <2>1. ASSUME NEW k \in 0 .. w - 1 PROVE h[k] = Shifted(h, v, k)
    <3>1. /\ k \in Nat /\ k - 1 \in Int
          /\ k = 0 \/ k = 1 \/ k = 2 \/ k = 3 \/ k = 4 \/ k = 5 \/ k = 6 \/ k = 7
      OBVIOUS
    <3>2. CASE k = 0
      BY <3>2 DEF Shifted
    <3>3. CASE k # 0
      <4>1. k - 1 \in 0 .. w - 1
        BY <3>1, <3>3
      <4> HIDE DEF v1, v2, v3, v4, v5, v6, v7
      <4>2. h[k - 1] \div 256 = h[k]
        BY <3>1, <3>3, <4>1 DEF v1, v2, v3, v4, v5, v6, v7
      <4> QED
        BY <3>3, <4>2 DEF Shifted
    <3> QED
      BY <3>2, <3>3
  <2>2. h = [k \in 0 .. w - 1 |-> h[k]]
    OBVIOUS
  <2> HIDE DEF h
  <2> QED
    BY <2>1, <2>2
<1> HIDE DEF h
<1>2. BigEndian(v, w) = [i \in 1 .. w |-> shifted[w - i] % 256]
  BY DEF BigEndian, Shifted
<1>3. shifted = [k \in 0 .. w - 1 |-> Shifted(shifted, v, k)]
  BY <1>1
<1> QED
  BY <1>2, <1>3

\* One step of Number, as its recursion states it.
Summed(g, b, k) == IF k = 0 THEN 0 ELSE 256 * g[k - 1] + b[k]

\* The sums are defined for the two widths in use, and obey their definition.
LEMMA NumberDef ==
    ASSUME NEW b, NEW n \in {4, 8}, Len(b) = n
    PROVE  \E g : /\ g = [k \in 0 .. n |-> Summed(g, b, k)]
                  /\ Number(b) = g[n]
<1> DEFINE s1 == 256 * 0 + b[1]
           s2 == 256 * s1 + b[2]
           s3 == 256 * s2 + b[3]
           s4 == 256 * s3 + b[4]
           s5 == 256 * s4 + b[5]
           s6 == 256 * s5 + b[6]
           s7 == 256 * s6 + b[7]
           s8 == 256 * s7 + b[8]
           h == [k \in 0 .. n |->
                    IF k = 0 THEN 0 ELSE IF k = 1 THEN s1 ELSE IF k = 2 THEN s2 ELSE IF k = 3 THEN s3
                    ELSE IF k = 4 THEN s4 ELSE IF k = 5 THEN s5 ELSE IF k = 6 THEN s6
                    ELSE IF k = 7 THEN s7 ELSE s8]
           upTo == CHOOSE f : f = [k \in 0 .. n |-> Summed(f, b, k)]
<1>1. h = [k \in 0 .. n |-> Summed(h, b, k)]
  <2>1. ASSUME NEW k \in 0 .. n PROVE h[k] = Summed(h, b, k)
    <3> HIDE DEF h
    <3>1. /\ k \in Nat /\ k - 1 \in Int
          /\ k = 0 \/ k = 1 \/ k = 2 \/ k = 3 \/ k = 4 \/ k = 5 \/ k = 6 \/ k = 7 \/ k = 8
      OBVIOUS
    <3>2. CASE k = 0
      BY <3>2 DEF h, Summed
    <3>3. CASE k # 0
      <4>1. k - 1 \in 0 .. n
        BY <3>1, <3>3
      <4> HIDE DEF s1, s2, s3, s4, s5, s6, s7, s8
      <4>2. h[k] = 256 * h[k - 1] + b[k]
        BY <3>1, <3>3, <4>1 DEF h, s1, s2, s3, s4, s5, s6, s7, s8
      <4> QED
        BY <3>3, <4>2 DEF Summed
    <3> QED
      BY <3>2, <3>3
  <2>2. h = [k \in 0 .. n |-> h[k]]
    OBVIOUS
  <2> HIDE DEF h
  <2> QED
    BY <2>1, <2>2
<1> HIDE DEF h
<1>2. Number(b) = upTo[n]
  BY DEF Number, Summed
<1>3. upTo = [k \in 0 .. n |-> Summed(upTo, b, k)]
  BY <1>1
<1> QED
  BY <1>2, <1>3

\* The numbers that fit in w bytes.
Fits(v, w) == v \in Uint64 /\ (w = 4 => v \in Uint32)

\* Reading a number gives what was written (frame.go, writeVarInt and readVarInt).
LEMMA NumberOfBigEndian ==
    ASSUME NEW v, NEW w \in {4, 8}, Fits(v, w)
    PROVE  /\ BigEndian(v, w) \in Bytes /\ Len(BigEndian(v, w)) = w
           /\ Number(BigEndian(v, w)) = v
<1>1. v \in Nat
  BY DEF Fits, Uint64
<1>2. PICK g : /\ g = [k \in 0 .. w - 1 |-> Shifted(g, v, k)]
               /\ BigEndian(v, w) = [i \in 1 .. w |-> g[w - i] % 256]
  BY <1>1, BigEndianDef
<1>3. g[0] = v /\ \A k \in 1 .. w - 1 : g[k] = g[k - 1] \div 256
  BY <1>2 DEF Shifted
<1>4. \A k \in 1 .. w - 1 : g[k - 1] \in Nat => g[k] \in Nat
  BY <1>3
<1>5. \A k \in 0 .. w - 1 : g[k] \in Nat
  <2>1. g[0] \in Nat /\ g[1] \in Nat /\ g[2] \in Nat /\ g[3] \in Nat
    BY <1>1, <1>3, <1>4
  <2>2. w = 8 => g[4] \in Nat /\ g[5] \in Nat /\ g[6] \in Nat /\ g[7] \in Nat
    BY <2>1, <1>4
  <2> QED
    BY <2>1, <2>2
<1>6. g[w - 1] \in 0 .. 255
  <2>1. CASE w = 4
    <3>1. (v \div 65536) \div 65536 = 0
      BY <2>1 DEF Fits, Uint32
    <3>2. g[2] = v \div 65536
      BY <1>1, <1>3, <1>5, <2>1
    <3>3. g[3] = g[2] \div 256 /\ g[2] \div 65536 = 0 /\ g[2] \in Nat
      BY <1>3, <1>5, <2>1, <3>1, <3>2
    <3> QED
      BY <1>5, <2>1, <3>3
  <2>2. CASE w = 8
    <3>1. (((v \div 65536) \div 65536) \div 65536) \div 65536 = 0
      BY <2>2 DEF Fits, Uint64
    <3>2. g[2] = v \div 65536
      BY <1>1, <1>3, <1>5, <2>2
    <3>3. g[4] = g[2] \div 65536
      BY <1>3, <1>5, <2>2
    <3>4. g[6] = g[4] \div 65536
      BY <1>3, <1>5, <2>2
    <3>5. g[7] = g[6] \div 256 /\ g[6] \div 65536 = 0 /\ g[6] \in Nat
      BY <1>3, <1>5, <2>2, <3>1, <3>2, <3>3, <3>4
    <3> QED
      BY <1>5, <2>2, <3>5
  <2> QED
    BY <2>1, <2>2
<1> DEFINE b == BigEndian(v, w)
<1>7. b \in Bytes /\ Len(b) = w /\ \A i \in 1 .. w : b[i] = g[w - i] % 256
  <2>1. \A i \in 1 .. w : g[w - i] % 256 \in Byte
    BY <1>5 DEF Byte
  <2>2. b \in [1 .. w -> Byte]
    BY <1>2, <2>1
  <2> QED
    BY <1>2, <2>2 DEF Bytes
<1> HIDE DEF b
<1>8. PICK u : u = [k \in 0 .. w |-> Summed(u, b, k)] /\ Number(b) = u[w]
  BY <1>7, NumberDef
<1>9. u[0] = 0 /\ \A k \in 1 .. w : u[k] = 256 * u[k - 1] + (g[w - k] % 256)
  BY <1>7, <1>8 DEF Summed
<1>10. u[1] = g[w - 1]
  BY <1>6, <1>9
<1>11. ASSUME NEW k \in 2 .. w, u[k - 1] = g[w - (k - 1)] PROVE u[k] = g[w - k]
  <2>1. w - k \in 0 .. w - 1 /\ w - (k - 1) \in 1 .. w - 1 /\ (w - (k - 1)) - 1 = w - k /\ k \in 1 .. w
    OBVIOUS
  <2>2. g[w - (k - 1)] = g[w - k] \div 256 /\ g[w - k] \in Nat
    BY <1>3, <1>5, <2>1
  <2>3. u[k] = 256 * (g[w - k] \div 256) + (g[w - k] % 256)
    BY <1>9, <1>11, <2>1, <2>2
  <2> QED
    BY <2>2, <2>3
<1>12. u[w] = g[0]
  <2>1. u[2] = g[w - 2]
    BY <1>10, <1>11
  <2>2. u[3] = g[w - 3]
    BY <2>1, <1>11
  <2>3. u[4] = g[w - 4]
    BY <2>2, <1>11
  <2>4. CASE w = 4
    BY <2>3, <2>4
  <2>5. CASE w = 8
    <3>1. u[5] = g[3]
      BY <2>3, <2>5, <1>11
    <3>2. u[6] = g[2]
      BY <3>1, <2>5, <1>11
    <3>3. u[7] = g[1]
      BY <3>2, <2>5, <1>11
    <3> QED
      BY <3>3, <2>5, <1>11
  <2> QED
    BY <2>4, <2>5
<1> QED
  BY <1>3, <1>7, <1>8, <1>12 DEF b

-----------------------------------------------------------------------------
(***************************************************************************)
(* Fields in a buffer                                                      *)
(***************************************************************************)

\* The bytes of s are in r from position i on.
At(r, i, s) == i + Len(s) - 1 <= Len(r) /\ \A j \in 1 .. Len(s) : r[i + j - 1] = s[j]

\* Every sequence is in itself.
LEMMA AtItself == ASSUME NEW s \in Bytes PROVE At(s, 1, s)
<1>1. Len(s) \in Nat
  BY LenProperties DEF Bytes
<1>2. \A j \in 1 .. Len(s) : 1 + j - 1 = j
  BY <1>1
<1> QED
  BY <1>1, <1>2 DEF At

\* Of two fields in a row the second follows the first.
LEMMA AtConcat ==
    ASSUME NEW r \in Bytes, NEW i \in Nat, NEW s \in Bytes, NEW t \in Bytes, At(r, i, s \o t)
    PROVE  At(r, i, s) /\ At(r, i + Len(s), t)
<1>1. Len(s) \in Nat /\ Len(t) \in Nat /\ Len(r) \in Nat
  BY LenProperties DEF Bytes
<1>2. /\ Len(s \o t) = Len(s) + Len(t)
      /\ \A j \in 1 .. Len(s) + Len(t) : (s \o t)[j] = IF j <= Len(s) THEN s[j] ELSE t[j - Len(s)]
  BY ConcatProperties DEF Bytes
<1>3. /\ i + (Len(s) + Len(t)) - 1 <= Len(r)
      /\ \A j \in 1 .. Len(s) + Len(t) : r[i + j - 1] = (s \o t)[j]
  BY <1>2 DEF At
<1>4. \A j \in 1 .. Len(s) : r[i + j - 1] = s[j]
  BY <1>1, <1>2, <1>3
<1>5. ASSUME NEW j \in 1 .. Len(t) PROVE r[i + Len(s) + j - 1] = t[j]
  <2>1. /\ Len(s) + j \in 1 .. Len(s) + Len(t) /\ ~(Len(s) + j <= Len(s)) /\ (Len(s) + j) - Len(s) = j
        /\ i + (Len(s) + j) - 1 = i + Len(s) + j - 1
    BY <1>1
  <2>2. r[i + (Len(s) + j) - 1] = t[(Len(s) + j) - Len(s)]
    BY <1>2, <1>3, <2>1
  <2> QED
    BY <2>1, <2>2
<1> QED
  BY <1>1, <1>3, <1>4, <1>5 DEF At

\* A field is cut out by its position and length.
LEMMA AtSubSeq ==
    ASSUME NEW r \in Bytes, NEW i \in Nat \ {0}, NEW s \in Bytes, At(r, i, s)
    PROVE  SubSeq(r, i, i + Len(s) - 1) = s
<1> DEFINE c == SubSeq(r, i, i + Len(s) - 1)
<1>1. Len(s) \in Nat /\ Len(r) \in Nat /\ \A j \in 1 .. Len(r) : r[j] \in Byte
  BY LenProperties, ElementOfSeq DEF Bytes
<1>2. i + Len(s) - 1 <= Len(r) /\ i \in Int /\ i + Len(s) - 1 \in Int
  BY <1>1 DEF At
<1>3. \A j \in i .. i + Len(s) - 1 : r[j] \in Byte
  BY <1>1, <1>2
<1>4. /\ c \in Seq(Byte)
      /\ Len(c) = IF i <= i + Len(s) - 1 THEN (i + Len(s) - 1) - i + 1 ELSE 0
      /\ \A j \in 1 .. (i + Len(s) - 1) - i + 1 : c[j] = r[i + j - 1]
  BY <1>2, <1>3, SubSeqProperties
<1> HIDE DEF c
<1>5. Len(c) = Len(s) /\ (i + Len(s) - 1) - i + 1 = Len(s)
  BY <1>1, <1>4
<1>6. \A j \in 1 .. Len(c) : c[j] = s[j]
  BY <1>4, <1>5 DEF At
<1>7. c = s
  BY <1>4, <1>5, <1>6, SeqEqual DEF Bytes
<1> QED
  BY <1>7 DEF c

\* What is at position i of a buffer is at the start of the rest from i on.
LEMMA AtRest ==
    ASSUME NEW r \in Bytes, NEW i \in 1 .. Len(r) + 1, NEW s \in Bytes, At(r, i, s)
    PROVE  SubSeq(r, i, Len(r)) \in Bytes /\ At(SubSeq(r, i, Len(r)), 1, s)
<1> DEFINE c == SubSeq(r, i, Len(r))
<1>1. Len(s) \in Nat /\ Len(r) \in Nat /\ \A j \in 1 .. Len(r) : r[j] \in Byte
  BY LenProperties, ElementOfSeq DEF Bytes
<1>2. \A j \in i .. Len(r) : r[j] \in Byte
  BY <1>1
<1>3. /\ c \in Seq(Byte)
      /\ Len(c) = IF i <= Len(r) THEN Len(r) - i + 1 ELSE 0
      /\ \A j \in 1 .. Len(r) - i + 1 : c[j] = r[i + j - 1]
  BY <1>1, <1>2, SubSeqProperties
<1> HIDE DEF c
<1>4. Len(c) = Len(r) - i + 1
  BY <1>1, <1>3
<1>5. i + Len(s) - 1 <= Len(r) /\ \A j \in 1 .. Len(s) : r[i + j - 1] = s[j]
  BY DEF At
<1>6. \A j \in 1 .. Len(s) : j \in 1 .. Len(r) - i + 1 /\ c[1 + j - 1] = c[j]
  BY <1>1, <1>5
<1>7. \A j \in 1 .. Len(s) : c[1 + j - 1] = s[j]
  BY <1>3, <1>5, <1>6
<1>8. At(c, 1, s)
  BY <1>1, <1>4, <1>5, <1>7 DEF At
<1> QED
  BY <1>3, <1>8 DEF c, Bytes

\* What follows the first byte is at the start of the tail.
LEMMA AtTail ==
    ASSUME NEW r \in Bytes, NEW x \in Byte, NEW s \in Bytes, At(r, 1, <<x>> \o s)
    PROVE  r # <<>> /\ r[1] = x /\ Tail(r) \in Bytes /\ At(Tail(r), 1, s)
<1>1. <<x>> \in Bytes /\ Len(<<x>>) = 1 /\ <<x>>[1] = x
  BY DEF Bytes
<1> DEFINE b == <<x>>
<1> HIDE DEF b
<1>2. At(r, 1, <<x>>) /\ At(r, 2, s)
  <2>1. b \in Bytes /\ 1 + Len(b) = 2 /\ At(r, 1, b \o s)
    BY <1>1 DEF b
  <2>2. At(r, 1, b) /\ At(r, 1 + Len(b), s)
    BY <2>1, AtConcat
  <2> QED
    BY <2>1, <2>2 DEF b
<1>3. 1 <= Len(r) /\ r[1] = x /\ Len(r) \in Nat
  BY <1>1, <1>2, LenProperties DEF At, Bytes
<1>4. r # <<>> /\ 2 \in 1 .. Len(r) + 1
  BY <1>3, EmptySeq
<1>5. Tail(r) = SubSeq(r, 2, Len(r))
  BY <1>4, TailIsSubSeq DEF Bytes
<1> QED
  BY <1>2, <1>3, <1>4, <1>5, AtRest

\* writeVarInt makes eight bytes, from which readVarInt gets the number.
LEMMA VarIntBytes ==
    ASSUME NEW v \in Uint64
    PROVE  VarInt(v) \in Bytes /\ Len(VarInt(v)) = 8 /\ Number(VarInt(v)) = v
<1>1. Fits(v, 8)
  BY DEF Fits
<1> QED
  BY <1>1, NumberOfBigEndian DEF VarInt

\* A number in the buffer is read as it was written.
LEMMA VarIntHere ==
    ASSUME NEW r \in Bytes, NEW i \in Nat \ {0}, NEW v \in Uint64, At(r, i, VarInt(v))
    PROVE  VarIntAt(r, i) = v /\ Len(r) >= i + 7
<1>1. VarInt(v) \in Bytes /\ Len(VarInt(v)) = 8 /\ Number(VarInt(v)) = v
  BY VarIntBytes
<1>2. SubSeq(r, i, i + 8 - 1) = VarInt(v)
  BY <1>1, AtSubSeq
<1>3. i + 8 - 1 = i + 7 /\ i + 8 - 1 <= Len(r)
  BY <1>1 DEF At
<1> QED
  BY <1>1, <1>2, <1>3, LenProperties DEF VarIntAt, Bytes

\* ... and so are bytes with their length in front.
LEMMA CountedHere ==
    ASSUME NEW r \in Bytes, NEW i \in Nat \ {0}, NEW d \in Slice(Byte), At(r, i, Counted(d))
    PROVE  HasCounted(r, i) /\ CountedAt(r, i) = d
<1>1. d \in Bytes /\ Len(d) \in Uint64 /\ Len(d) \in Nat
  BY LenProperties DEF Slice, Bytes
<1>2. VarInt(Len(d)) \in Bytes /\ Len(VarInt(Len(d))) = 8
  BY <1>1, VarIntBytes
<1>3. At(r, i, VarInt(Len(d))) /\ At(r, i + 8, d)
  BY <1>1, <1>2, AtConcat DEF Counted
<1>4. VarIntAt(r, i) = Len(d) /\ Len(r) >= i + 7
  BY <1>1, <1>3, VarIntHere
<1>5. i + 8 + Len(d) - 1 <= Len(r) /\ i + 8 + Len(d) - 1 = i + 7 + Len(d)
  BY <1>1, <1>3 DEF At
<1>6. SubSeq(r, i + 8, i + 8 + Len(d) - 1) = d
  BY <1>1, <1>3, AtSubSeq
<1>7. Len(r) \in Nat
  BY LenProperties DEF Bytes
<1> QED
  BY <1>1, <1>4, <1>5, <1>6, <1>7 DEF HasCounted, CountedAt

-----------------------------------------------------------------------------
(***************************************************************************)
(* Frames                                                                  *)
(***************************************************************************)

\* Fields are bytes, and have their lengths.
LEMMA CountedBytes ==
    ASSUME NEW d \in Slice(Byte)
    PROVE  Counted(d) \in Bytes /\ Len(Counted(d)) = 8 + Len(d)
<1>1. d \in Bytes /\ Len(d) \in Uint64
  BY DEF Slice, Bytes
<1>2. VarInt(Len(d)) \in Bytes /\ Len(VarInt(Len(d))) = 8
  BY <1>1, VarIntBytes
<1>3. VarInt(Len(d)) \o d \in Bytes /\ Len(VarInt(Len(d)) \o d) = Len(VarInt(Len(d))) + Len(d)
  BY <1>1, <1>2, ConcatProperties DEF Bytes
<1> QED
  BY <1>2, <1>3 DEF Counted

\* A flag is a byte, one if and only if it is set.
LEMMA FlagByte ==
    ASSUME NEW b \in BOOLEAN
    PROVE  Flag(b) \in Bytes /\ Len(Flag(b)) = 1 /\ (Flag(b)[1] = 1 <=> b)
BY DEF Flag, Bytes, Byte

\* Two sequences of bytes in a row.
LEMMA ConcatBytes ==
    ASSUME NEW s \in Bytes, NEW t \in Bytes
    PROVE  s \o t \in Bytes /\ Len(s \o t) = Len(s) + Len(t)
BY ConcatProperties DEF Bytes

\* Two fields in a row: the second has its position.
LEMMA TwoFieldsAt ==
    ASSUME NEW r \in Bytes, NEW s \in Bytes, NEW t \in Bytes, Len(s) = 8, At(r, 1, s \o t)
    PROVE  At(r, 1, s) /\ At(r, 9, t)
<1>1. At(r, 1, s) /\ At(r, 1 + Len(s), t)
  BY AtConcat
<1>2. 1 + Len(s) = 9
  OBVIOUS
<1> QED
  BY <1>1, <1>2

\* Two numbers in front of a field.
LEMMA ThreeFieldsAt ==
    ASSUME NEW r \in Bytes, NEW s \in Bytes, NEW t \in Bytes, NEW u \in Bytes,
           Len(s) = 8, Len(t) = 8, At(r, 1, (s \o t) \o u)
    PROVE  At(r, 1, s) /\ At(r, 9, t) /\ At(r, 17, u)
<1>1. s \o t \in Bytes /\ Len(s \o t) = Len(s) + Len(t)
  BY ConcatBytes
<1>2. At(r, 1, s \o t) /\ At(r, 1 + Len(s \o t), u)
  BY <1>1, AtConcat
<1>3. 1 + Len(s \o t) = 17
  BY <1>1
<1> QED
  BY <1>2, <1>3, TwoFieldsAt

\* Two numbers, a third field of n bytes, and a fourth.
LEMMA FourFieldsAt ==
    ASSUME NEW r \in Bytes, NEW s \in Bytes, NEW t \in Bytes, NEW u \in Bytes, NEW v \in Bytes,
           Len(s) = 8, Len(t) = 8, At(r, 1, ((s \o t) \o u) \o v)
    PROVE  At(r, 1, s) /\ At(r, 9, t) /\ At(r, 17, u) /\ At(r, 17 + Len(u), v)
<1>1. s \o t \in Bytes /\ Len(s \o t) = Len(s) + Len(t)
  BY ConcatBytes
<1>2. (s \o t) \o u \in Bytes /\ Len((s \o t) \o u) = Len(s \o t) + Len(u) /\ Len(u) \in Nat
  BY <1>1, ConcatProperties, LenProperties DEF Bytes
<1>3. At(r, 1, (s \o t) \o u) /\ At(r, 1 + Len((s \o t) \o u), v)
  BY <1>2, AtConcat
<1>4. 1 + Len((s \o t) \o u) = 17 + Len(u)
  BY <1>1, <1>2
<1> QED
  BY <1>3, <1>4, ThreeFieldsAt

\* What a frame other than an AckFrame writes after its type is what its parser reads: StreamFrame ...
LEMMA StreamParsed ==
    ASSUME NEW f \in [type : {"Stream"}, sid : Uint64, offset : Uint64, fin : BOOLEAN, data : Slice(Byte)],
           NEW r \in Bytes, At(r, 1, StreamFields(f))
    PROVE  parseStreamFrame(r) = f
<1> DEFINE a == VarInt(f.sid)
           b == VarInt(f.offset)
           c == Flag(f.fin)
           d == Counted(f.data)
<1>0. f.sid \in Uint64 /\ f.offset \in Uint64 /\ f.fin \in BOOLEAN /\ f.data \in Slice(Byte)
  OBVIOUS
<1>1. /\ a \in Bytes /\ Len(a) = 8 /\ b \in Bytes /\ Len(b) = 8
      /\ c \in Bytes /\ Len(c) = 1 /\ (c[1] = 1 <=> f.fin) /\ d \in Bytes
  BY <1>0, VarIntBytes, FlagByte, CountedBytes
<1>2. At(r, 1, ((a \o b) \o c) \o d)
  BY DEF StreamFields
<1>3. At(r, 1, a) /\ At(r, 9, b) /\ At(r, 17, c) /\ At(r, 18, d)
  <2> HIDE DEF a, b, c, d
  <2>1. At(r, 1, a) /\ At(r, 9, b) /\ At(r, 17, c) /\ At(r, 17 + Len(c), d)
    BY <1>1, <1>2, FourFieldsAt
  <2>2. 17 + Len(c) = 18
    BY <1>1
  <2> QED
    BY <2>1, <2>2
<1>4. VarIntAt(r, 1) = f.sid /\ VarIntAt(r, 9) = f.offset
  BY <1>0, <1>3, VarIntHere
<1>5. r[17] = 1 <=> f.fin
  <2> HIDE DEF c
  <2>1. r[17 + 1 - 1] = c[1]
    BY <1>1, <1>3 DEF At
  <2> QED
    BY <1>1, <2>1
<1>6. HasCounted(r, 18) /\ CountedAt(r, 18) = f.data
  BY <1>0, <1>3, CountedHere
<1>7. (r[17] = 1) = f.fin
  BY <1>0, <1>5
<1> HIDE DEF a, b, c, d
<1>8. f = [type |-> "Stream", sid |-> f.sid, offset |-> f.offset, fin |-> f.fin, data |-> f.data]
  OBVIOUS
<1> QED
  BY <1>4, <1>6, <1>7, <1>8 DEF parseStreamFrame

\* ... AddPathFrame ...
LEMMA AddPathParsed ==
    ASSUME NEW f \in [type : {"AddPath"}, address : Slice(Byte)],
           NEW r \in Bytes, At(r, 1, AddPathFields(f))
    PROVE  parseAddPathFrame(r) = f
<1>1. f.address \in Slice(Byte) /\ f = [type |-> "AddPath", address |-> f.address]
  OBVIOUS
<1>2. HasCounted(r, 1) /\ CountedAt(r, 1) = f.address
  BY <1>1, CountedHere DEF AddPathFields
<1> QED
  BY <1>1, <1>2 DEF parseAddPathFrame

\* ... AddPathRespFrame ...
LEMMA AddPathRespParsed ==
    ASSUME NEW f \in [type : {"AddPathResp"}, pathID : Uint64, address : Slice(Byte)],
           NEW r \in Bytes, At(r, 1, AddPathRespFields(f))
    PROVE  parseAddPathRespFrame(r) = f
<1>1. /\ f.pathID \in Uint64 /\ f.address \in Slice(Byte)
      /\ f = [type |-> "AddPathResp", pathID |-> f.pathID, address |-> f.address]
  OBVIOUS
<1> DEFINE a == VarInt(f.pathID)
           d == Counted(f.address)
<1>2. a \in Bytes /\ Len(a) = 8 /\ d \in Bytes /\ At(r, 1, a \o d)
  BY <1>1, VarIntBytes, CountedBytes DEF AddPathRespFields
<1>3. At(r, 1, a) /\ At(r, 9, d)
  <2> HIDE DEF a, d
  <2> QED
    BY <1>2, TwoFieldsAt
<1>4. VarIntAt(r, 1) = f.pathID
  BY <1>1, <1>3, VarIntHere
<1>5. HasCounted(r, 9) /\ CountedAt(r, 9) = f.address
  BY <1>1, <1>3, CountedHere
<1> QED
  BY <1>1, <1>4, <1>5 DEF parseAddPathRespFrame

\* ... RelayDataFrame ...
LEMMA RelayDataParsed ==
    ASSUME NEW f \in [type : {"RelayData"}, pathID : Uint64, sid : Uint64, data : Slice(Byte)],
           NEW r \in Bytes, At(r, 1, RelayDataFields(f))
    PROVE  parseRelayDataFrame(r) = f
<1>1. /\ f.pathID \in Uint64 /\ f.sid \in Uint64 /\ f.data \in Slice(Byte)
      /\ f = [type |-> "RelayData", pathID |-> f.pathID, sid |-> f.sid, data |-> f.data]
  OBVIOUS
<1> DEFINE a == VarInt(f.pathID)
           b == VarInt(f.sid)
           d == Counted(f.data)
<1>2. /\ a \in Bytes /\ Len(a) = 8 /\ b \in Bytes /\ Len(b) = 8 /\ d \in Bytes
      /\ At(r, 1, (a \o b) \o d)
  BY <1>1, VarIntBytes, CountedBytes DEF RelayDataFields
<1>3. At(r, 1, a) /\ At(r, 9, b) /\ At(r, 17, d)
  <2> HIDE DEF a, b, d
  <2> QED
    BY <1>2, ThreeFieldsAt
<1>4. VarIntAt(r, 1) = f.pathID /\ VarIntAt(r, 9) = f.sid
  BY <1>1, <1>3, VarIntHere
<1>5. HasCounted(r, 17) /\ CountedAt(r, 17) = f.data
  BY <1>1, <1>3, CountedHere
<1> QED
  BY <1>1, <1>4, <1>5 DEF parseRelayDataFrame

\* ... OpenStreamFrame ...
LEMMA OpenStreamParsed ==
    ASSUME NEW f \in [type : {"OpenStream"}, sid : Uint64],
           NEW r \in Bytes, At(r, 1, OpenStreamFields(f))
    PROVE  parseOpenStreamFrame(r) = f
<1>1. f.sid \in Uint64 /\ f = [type |-> "OpenStream", sid |-> f.sid]
  OBVIOUS
<1>2. VarIntAt(r, 1) = f.sid /\ Len(r) >= 1 + 7
  BY <1>1, VarIntHere DEF OpenStreamFields
<1>3. Len(r) >= 8
  BY <1>2
<1> QED
  BY <1>1, <1>2, <1>3 DEF parseOpenStreamFrame

\* ... and OpenStreamRespFrame.
LEMMA OpenStreamRespParsed ==
    ASSUME NEW f \in [type : {"OpenStreamResp"}, sid : Uint64, success : BOOLEAN],
           NEW r \in Bytes, At(r, 1, OpenStreamRespFields(f))
    PROVE  parseOpenStreamRespFrame(r) = f
<1>1. /\ f.sid \in Uint64 /\ f.success \in BOOLEAN
      /\ f = [type |-> "OpenStreamResp", sid |-> f.sid, success |-> f.success]
  OBVIOUS
<1> DEFINE a == VarInt(f.sid)
           c == Flag(f.success)
<1>2. /\ a \in Bytes /\ Len(a) = 8 /\ c \in Bytes /\ Len(c) = 1 /\ (c[1] = 1 <=> f.success)
      /\ At(r, 1, a \o c)
  BY <1>1, VarIntBytes, FlagByte DEF OpenStreamRespFields
<1>3. At(r, 1, a) /\ At(r, 9, c)
  <2> HIDE DEF a, c
  <2> QED
    BY <1>2, TwoFieldsAt
<1>4. VarIntAt(r, 1) = f.sid
  BY <1>1, <1>3, VarIntHere
<1>5. Len(r) >= 9 /\ (r[9] = 1 <=> f.success)
  <2>1. Len(r) \in Nat
    BY LenProperties DEF Bytes
  <2> HIDE DEF c
  <2> QED
    BY <1>2, <1>3, <2>1 DEF At
<1>6. (r[9] = 1) = f.success
  BY <1>1, <1>5
<1> HIDE DEF a, c
<1> QED
  BY <1>1, <1>4, <1>5, <1>6 DEF parseOpenStreamRespFrame

-----------------------------------------------------------------------------
(***************************************************************************)
(* Induction over numbers, with a set in the place of the claim            *)
(***************************************************************************)

\* A set of natural numbers that is not empty has a least element.
LEMMA LeastNatural ==
    ASSUME NEW T \in SUBSET Nat, T # {}
    PROVE  \E m \in T : \A k \in T : m <= k
<1> DEFINE Segments == {0 .. n : n \in T}
<1>1. Segments \subseteq FiniteSubsetsOf(Nat) /\ Segments # {}
  <2>1. \A n \in T : 0 .. n \in SUBSET Nat /\ IsFiniteSet(0 .. n)
    BY FS_Interval
  <2> QED
    BY <2>1 DEF FiniteSubsetsOf
<1>2. \E x \in Segments : \A y \in Segments : <<y, x>> \notin StrictSubsetOrdering(Nat)
  <2> HIDE DEF Segments
  <2> QED
    BY <1>1, FS_StrictSubsetOrderingWellFounded, WFMin
<1>3. PICK m \in T : \A k \in T : <<0 .. k, 0 .. m>> \notin StrictSubsetOrdering(Nat)
  BY <1>2
<1>4. ASSUME NEW k \in T, k < m PROVE FALSE
  <2>1. m \in 0 .. m /\ m \notin 0 .. k
    BY <1>4
  <2>2. /\ 0 .. k \subseteq 0 .. m /\ 0 .. k # 0 .. m
        /\ 0 .. k \in SUBSET Nat /\ 0 .. m \in SUBSET Nat
    BY <1>4, <2>1
  <2> QED
    BY <1>3, <2>2 DEF StrictSubsetOrdering
<1> QED
  BY <1>3, <1>4

\* A set that holds a, and with every number the next one, holds all numbers from a to n.
LEMMA Induction ==
    ASSUME NEW G, NEW a \in Nat, NEW n \in Nat, a \in G,
           \A k \in a .. n - 1 : k \in G => k + 1 \in G
    PROVE  \A k \in a .. n : k \in G
<1> DEFINE Bad == {k \in a .. n : k \notin G}
<1> SUFFICES ASSUME Bad # {} PROVE FALSE
  OBVIOUS
<1>1. Bad \in SUBSET Nat
  OBVIOUS
<1>2. PICK m \in Bad : \A k \in Bad : m <= k
  <2> HIDE DEF Bad
  <2> QED
    BY <1>1, LeastNatural
<1>3. m \in a .. n /\ m \notin G /\ m # a
  BY <1>2
<1>4. m - 1 \in a .. n - 1 /\ m - 1 \in a .. n /\ ~(m <= m - 1) /\ (m - 1) + 1 = m
  BY <1>3
<1>5. m - 1 \in G
  BY <1>2, <1>4
<1> QED
  BY <1>3, <1>4, <1>5

-----------------------------------------------------------------------------
(***************************************************************************)
(* Sequences joined to one                                                 *)
(***************************************************************************)

\* One step of FlattenSeq, as its recursion states it.
Joined(g, seqs, i) == IF i = 1 THEN seqs[i] ELSE g[i - 1] \o seqs[i]

\* F[i] is what the first i sequences join to.
Joins(F, seqs) ==
    /\ F \in [0 .. Len(seqs) -> Bytes] /\ F[0] = <<>>
    /\ \A i \in 1 .. Len(seqs) : F[i] = F[i - 1] \o seqs[i]

\* The recursion of FlattenSeq has a solution up to every n.
LEMMA JoinedDef ==
    ASSUME NEW seqs, NEW n \in Nat \ {0}
    PROVE  \E g : g = [i \in 1 .. n |-> Joined(g, seqs, i)]
<1> DEFINE Upto(k, g) == g = [i \in 1 .. k |-> Joined(g, seqs, i)]
           G == {k \in 1 .. n : \E g : Upto(k, g)}
<1>1. 1 \in G
  <2> DEFINE h == [i \in 1 .. 1 |-> seqs[i]]
  <2>1. h = [i \in 1 .. 1 |-> Joined(h, seqs, i)]
    BY DEF Joined
  <2>2. Upto(1, h)
    BY <2>1
  <2> HIDE DEF Upto, h
  <2> QED
    BY <2>2
<1>2. ASSUME NEW k \in 1 .. n - 1, k \in G PROVE k + 1 \in G
  <2>1. PICK g : Upto(k, g)
    <3> HIDE DEF Upto
    <3> QED
      BY <1>2
  <2> DEFINE h == [i \in 1 .. k + 1 |-> IF i = k + 1 THEN Joined(g, seqs, k + 1) ELSE g[i]]
  <2>2. ASSUME NEW i \in 1 .. k + 1 PROVE h[i] = Joined(h, seqs, i)
    <3>1. \A j \in 1 .. k : h[j] = g[j]
      OBVIOUS
    <3>2. i # 1 => i - 1 \in 1 .. k
      OBVIOUS
    <3>3. Joined(h, seqs, i) = Joined(g, seqs, i)
      <4> HIDE DEF h, Upto
      <4> QED
        BY <3>1, <3>2 DEF Joined
    <3>4. CASE i = k + 1
      BY <3>3, <3>4
    <3>5. CASE i # k + 1
      <4>1. i \in 1 .. k
        BY <3>5
      <4>2. g[i] = Joined(g, seqs, i)
        BY <2>1, <4>1
      <4> QED
        BY <3>1, <3>3, <4>1, <4>2
    <3> QED
      BY <3>4, <3>5
  <2>3. Upto(k + 1, h)
    <3>1. h = [i \in 1 .. k + 1 |-> h[i]]
      OBVIOUS
    <3> HIDE DEF h
    <3> QED
      BY <2>2, <3>1
  <2>4. k + 1 \in 1 .. n
    OBVIOUS
  <2> HIDE DEF Upto, h
  <2> QED
    BY <2>3, <2>4
<1>3. n \in G
  <2>1. \A k \in 1 .. n - 1 : k \in G => k + 1 \in G
    BY <1>2
  <2> HIDE DEF G
  <2>2. \A k \in 1 .. n : k \in G
    BY <1>1, <2>1, Induction
  <2> QED
    BY <2>2
<1> QED
  BY <1>3

\* FlattenSeq joins all.
LEMMA FlattenJoins ==
    ASSUME NEW seqs \in Seq(Bytes)
    PROVE  \E F : Joins(F, seqs) /\ FlattenSeq(seqs) = F[Len(seqs)]
<1> DEFINE n == Len(seqs)
           flatten == CHOOSE g : g = [i \in 1 .. n |-> Joined(g, seqs, i)]
           F == [i \in 0 .. n |-> IF i = 0 THEN <<>> ELSE flatten[i]]
<1>1. n \in Nat /\ \A i \in 1 .. n : seqs[i] \in Bytes
  BY LenProperties, ElementOfSeq
<1>2. CASE n = 0
  <2>1. seqs = <<>>
    BY <1>2, EmptySeq
  <2>2. FlattenSeq(seqs) = <<>>
    BY <1>2, <2>1 DEF FlattenSeq
  <2>3. F[0] = <<>> /\ F \in [0 .. 0 -> Bytes]
    BY <1>2, EmptySeq DEF Bytes
  <2>4. Joins(F, seqs)
    <3> HIDE DEF F
    <3> QED
      BY <1>2, <2>3 DEF Joins
  <2> HIDE DEF F
  <2> QED
    BY <1>2, <2>2, <2>3, <2>4
<1>3. CASE n # 0
  <2>1. flatten = [i \in 1 .. n |-> Joined(flatten, seqs, i)]
    BY <1>1, <1>3, JoinedDef
  <2>2. FlattenSeq(seqs) = flatten[n]
    BY <1>3 DEF FlattenSeq, Joined
  <2> HIDE DEF flatten
  <2>3. flatten[1] = seqs[1] /\ \A i \in 2 .. n : flatten[i] = flatten[i - 1] \o seqs[i]
    <3> HIDE DEF n
    <3>1. \A i \in 1 .. n : flatten[i] = Joined(flatten, seqs, i)
      BY <2>1
    <3>2. 1 \in 1 .. n /\ \A i \in 2 .. n : i \in 1 .. n /\ i # 1
      BY <1>1, <1>3
    <3> QED
      BY <3>1, <3>2 DEF Joined
  <2> DEFINE G == {i \in 1 .. n : flatten[i] \in Bytes}
  <2>4. \A i \in 1 .. n : i \in G
    <3>1. 1 \in G
      BY <1>1, <1>3, <2>3
    <3>2. ASSUME NEW k \in 1 .. n - 1, flatten[k] \in Bytes PROVE flatten[k + 1] \in Bytes
      <4>1. k + 1 \in 2 .. n /\ (k + 1) - 1 = k /\ k + 1 \in 1 .. n
        BY <1>1
      <4> HIDE DEF n
      <4>2. flatten[k + 1] = flatten[k] \o seqs[k + 1] /\ seqs[k + 1] \in Bytes
        BY <1>1, <2>3, <4>1
      <4> QED
        BY <3>2, <4>2, ConcatProperties DEF Bytes
    <3>3. \A k \in 1 .. n - 1 : k \in G => k + 1 \in G
      BY <1>1, <3>2
    <3> HIDE DEF G, n
    <3> QED
      BY <1>1, <1>3, <3>1, <3>3, Induction
  <2>5. F \in [0 .. n -> Bytes] /\ F[0] = <<>>
    <3>1. <<>> \in Bytes
      BY EmptySeq DEF Bytes
    <3> QED
      BY <1>1, <2>4, <3>1
  <2>6. ASSUME NEW i \in 1 .. n PROVE F[i] = F[i - 1] \o seqs[i]
    <3>1. i \in Nat /\ F[i] = flatten[i] /\ seqs[i] \in Bytes
      BY <1>1
    <3>2. CASE i = 1
      <4>1. <<>> \o seqs[1] = seqs[1]
        BY <3>1, <3>2, ConcatEmptySeq DEF Bytes
      <4>2. i - 1 = 0 /\ F[0] = <<>>
        BY <2>5, <3>2
      <4> HIDE DEF F
      <4> QED
        BY <2>3, <3>1, <3>2, <4>1, <4>2
    <3>3. CASE i # 1
      <4>1. i \in 2 .. n /\ F[i - 1] = flatten[i - 1]
        BY <1>1, <3>1, <3>3
      <4> HIDE DEF F
      <4> QED
        BY <2>3, <3>1, <4>1
    <3> QED
      BY <3>2, <3>3
  <2>7. F[n] = flatten[n]
    BY <1>1, <1>3
  <2> HIDE DEF F
  <2> QED
    BY <2>2, <2>5, <2>6, <2>7 DEF Joins
<1> QED
  BY <1>2, <1>3

\* Bytes may be joined in any order.
LEMMA Associative ==
    ASSUME NEW s \in Bytes, NEW t \in Bytes, NEW u \in Bytes
    PROVE  (s \o t) \o u = s \o (t \o u)
BY ConcatAssociative DEF Bytes

\* Nothing joins to nothing.
LEMMA FlattenEmpty == FlattenSeq(<<>>) = <<>>
<1>1. Len(<<>>) = 0
  BY EmptySeq
<1> QED
  BY <1>1 DEF FlattenSeq

\* Sequences of bytes join to bytes.
LEMMA FlattenBytes ==
    ASSUME NEW seqs \in Seq(Bytes)
    PROVE  FlattenSeq(seqs) \in Bytes
<1>1. PICK F : Joins(F, seqs) /\ FlattenSeq(seqs) = F[Len(seqs)]
  BY FlattenJoins
<1>2. Len(seqs) \in 0 .. Len(seqs)
  BY LenProperties
<1> QED
  BY <1>1, <1>2 DEF Joins

\* The first sequence comes first, and the others are joined after it.
LEMMA FlattenFirst ==
    ASSUME NEW seqs \in Seq(Bytes), seqs # <<>>
    PROVE  /\ seqs[1] \in Bytes /\ Tail(seqs) \in Seq(Bytes)
           /\ FlattenSeq(seqs) = seqs[1] \o FlattenSeq(Tail(seqs))
<1> DEFINE rest == Tail(seqs)
           n == Len(rest)
<1>1. /\ rest \in Seq(Bytes) /\ Len(rest) = Len(seqs) - 1
      /\ \A i \in 1 .. Len(rest) : rest[i] = seqs[i + 1]
      /\ Len(seqs) \in Nat /\ Len(seqs) # 0
  BY HeadTailProperties, LenProperties, EmptySeq
<1>2. \A i \in 1 .. Len(seqs) : seqs[i] \in Bytes
  BY ElementOfSeq
<1>3. n \in Nat /\ Len(seqs) = n + 1 /\ seqs[1] \in Bytes
  BY <1>1, <1>2
<1>4. PICK F : Joins(F, seqs) /\ FlattenSeq(seqs) = F[Len(seqs)]
  BY FlattenJoins
<1>5. PICK H : Joins(H, rest) /\ FlattenSeq(rest) = H[n]
  BY <1>1, FlattenJoins
<1> DEFINE G == {i \in 0 .. n : F[i + 1] = seqs[1] \o H[i]}
<1> HIDE DEF rest, n
<1>6. 0 \in G
  <2>1. F[1] = F[0] \o seqs[1] /\ F[0] = <<>> /\ H[0] = <<>>
    <3>1. 1 \in 1 .. Len(seqs) /\ 1 - 1 = 0
      BY <1>3
    <3> QED
      BY <1>4, <1>5, <3>1 DEF Joins
  <2>2. F[1] = seqs[1] \o H[0]
    BY <1>3, <2>1, ConcatEmptySeq DEF Bytes
  <2>3. 0 \in 0 .. n /\ 0 + 1 = 1
    BY <1>3
  <2> QED
    BY <2>2, <2>3
<1>7. ASSUME NEW k \in 0 .. n - 1, F[k + 1] = seqs[1] \o H[k] PROVE F[k + 2] = seqs[1] \o H[k + 1]
  <2>1. /\ k + 2 \in 1 .. Len(seqs) /\ (k + 2) - 1 = k + 1 /\ k + 1 \in 1 .. n /\ (k + 1) - 1 = k
        /\ k \in 0 .. n /\ (k + 1) + 1 = k + 2
    BY <1>3
  <2>2. F[k + 2] = F[k + 1] \o seqs[k + 2]
    BY <1>4, <2>1 DEF Joins
  <2>3. H[k + 1] = H[k] \o rest[k + 1] /\ H[k] \in Bytes
    BY <1>5, <2>1 DEF Joins, n
  <2>4. rest[k + 1] = seqs[k + 2] /\ seqs[k + 2] \in Bytes
    BY <1>1, <1>2, <2>1 DEF n
  <2>5. (seqs[1] \o H[k]) \o seqs[k + 2] = seqs[1] \o (H[k] \o seqs[k + 2])
    BY <1>3, <2>3, <2>4, Associative
  <2> QED
    BY <1>7, <2>2, <2>3, <2>4, <2>5
<1>8. \A k \in 0 .. n - 1 : k \in G => k + 1 \in G
  <2> SUFFICES ASSUME NEW k \in 0 .. n - 1, k \in G PROVE k + 1 \in G
    OBVIOUS
  <2>1. k + 1 \in 0 .. n /\ (k + 1) + 1 = k + 2
    BY <1>3
  <2> QED
    BY <1>7, <2>1
<1>9. n \in G
  <2>1. n \in 0 .. n
    BY <1>3
  <2> HIDE DEF G
  <2> QED
    BY <1>3, <1>6, <1>8, <2>1, Induction
<1> QED
  BY <1>1, <1>3, <1>4, <1>5, <1>9 DEF rest

\* A sequence appended is joined at the end.
LEMMA FlattenAppend ==
    ASSUME NEW seqs \in Seq(Bytes), NEW s \in Bytes
    PROVE  FlattenSeq(Append(seqs, s)) = FlattenSeq(seqs) \o s
<1> DEFINE longer == Append(seqs, s)
           n == Len(seqs)
<1>1. /\ longer \in Seq(Bytes) /\ Len(longer) = n + 1 /\ longer[n + 1] = s /\ n \in Nat
      /\ \A i \in 1 .. n : longer[i] = seqs[i]
  BY AppendProperties, LenProperties
<1>2. PICK F : Joins(F, seqs) /\ FlattenSeq(seqs) = F[n]
  BY FlattenJoins
<1> HIDE DEF longer
<1>3. PICK H : Joins(H, longer) /\ FlattenSeq(longer) = H[n + 1]
  BY <1>1, FlattenJoins
<1> DEFINE G == {i \in 0 .. n : H[i] = F[i]}
<1> HIDE DEF n
<1>4. 0 \in G
  BY <1>1, <1>2, <1>3 DEF Joins
<1>5. \A k \in 0 .. n - 1 : k \in G => k + 1 \in G
  <2> SUFFICES ASSUME NEW k \in 0 .. n - 1, H[k] = F[k] PROVE k + 1 \in 0 .. n /\ H[k + 1] = F[k + 1]
    OBVIOUS
  <2>1. k + 1 \in 1 .. n + 1 /\ k + 1 \in 1 .. n /\ k + 1 \in 0 .. n /\ (k + 1) - 1 = k
    BY <1>1
  <2>2. H[k + 1] = H[k] \o longer[k + 1]
    BY <1>1, <1>3, <2>1 DEF Joins
  <2>3. F[k + 1] = F[k] \o seqs[k + 1]
    BY <1>2, <2>1 DEF Joins, n
  <2> QED
    BY <1>1, <2>1, <2>2, <2>3
<1>6. n \in G
  <2>1. n \in 0 .. n
    BY <1>1
  <2> HIDE DEF G
  <2> QED
    BY <1>1, <1>4, <1>5, <2>1, Induction
<1>7. H[n + 1] = H[n] \o longer[n + 1]
  <2>1. n + 1 \in 1 .. n + 1 /\ (n + 1) - 1 = n
    BY <1>1
  <2> QED
    BY <1>1, <1>3, <2>1 DEF Joins
<1> QED
  BY <1>1, <1>2, <1>3, <1>6, <1>7 DEF longer

\* Where the whole is, each of its parts is behind those before it.
LEMMA PartAt ==
    ASSUME NEW seqs \in Seq(Bytes), NEW F, Joins(F, seqs),
           NEW r \in Bytes, NEW i \in Nat, At(r, i, F[Len(seqs)])
    PROVE  \A k \in 1 .. Len(seqs) : At(r, i + Len(F[k - 1]), seqs[k])
<1> DEFINE n == Len(seqs)
           G == {j \in 0 .. n : At(r, i, F[n - j])}
<1>1. n \in Nat /\ \A k \in 1 .. n : seqs[k] \in Bytes
  BY LenProperties, ElementOfSeq
<1>2. \A k \in 0 .. n : F[k] \in Bytes
  BY DEF Joins
<1>3. \A k \in 1 .. n : F[k] = F[k - 1] \o seqs[k] /\ F[k - 1] \in Bytes
  <2>1. \A k \in 1 .. n : k - 1 \in 0 .. n
    BY <1>1
  <2> QED
    BY <1>2, <2>1 DEF Joins
<1>4. At(r, i, F[n])
  OBVIOUS
<1> HIDE DEF n
<1>5. \A k \in 1 .. n : At(r, i, F[k]) => At(r, i, F[k - 1]) /\ At(r, i + Len(F[k - 1]), seqs[k])
  BY <1>1, <1>3, AtConcat
<1>6. 0 \in G
  BY <1>1, <1>4
<1>7. \A j \in 0 .. n - 1 : j \in G => j + 1 \in G
  <2> SUFFICES ASSUME NEW j \in 0 .. n - 1, At(r, i, F[n - j]) PROVE j + 1 \in 0 .. n /\ At(r, i, F[n - (j + 1)])
    OBVIOUS
  <2>1. n - j \in 1 .. n /\ (n - j) - 1 = n - (j + 1) /\ j + 1 \in 0 .. n
    BY <1>1
  <2> QED
    BY <1>5, <2>1
<1>8. ASSUME NEW k \in 0 .. n PROVE At(r, i, F[k])
  <2>1. n - k \in 0 .. n /\ n - (n - k) = k
    BY <1>1
  <2>2. n - k \in G
    <3> HIDE DEF G
    <3> QED
      BY <1>1, <1>6, <1>7, <2>1, Induction
  <2> QED
    BY <2>1, <2>2
<1>9. \A k \in 1 .. n : k \in 0 .. n
  BY <1>1
<1> QED
  BY <1>5, <1>8, <1>9 DEF n

\* In particular the first.
LEMMA FirstPartAt ==
    ASSUME NEW seqs \in Seq(Bytes), seqs # <<>>, NEW r \in Bytes, NEW i \in Nat, At(r, i, FlattenSeq(seqs))
    PROVE  At(r, i, seqs[1])
<1>1. seqs[1] \in Bytes /\ Tail(seqs) \in Seq(Bytes) /\ At(r, i, seqs[1] \o FlattenSeq(Tail(seqs)))
  BY FlattenFirst
<1>2. FlattenSeq(Tail(seqs)) \in Bytes
  BY <1>1, FlattenBytes
<1> QED
  BY <1>1, <1>2, AtConcat

\* The ranges of an AckFrame take 16 bytes each.
LEMMA RangesBytes ==
    ASSUME NEW ranges \in Slice(AckRange), NEW ps,
           ps = [i \in DOMAIN ranges |-> VarInt(ranges[i].smallest) \o VarInt(ranges[i].largest)]
    PROVE  /\ ps \in Seq(Bytes) /\ Len(ps) = Len(ranges) /\ Len(ranges) \in Nat /\ Len(ranges) \in Uint64
           /\ \A i \in 1 .. Len(ranges) :
                 /\ ranges[i] \in AckRange /\ Len(ps[i]) = 16
                 /\ ps[i] = VarInt(ranges[i].smallest) \o VarInt(ranges[i].largest)
<1> DEFINE n == Len(ranges)
<1>1. ranges \in Seq(AckRange) /\ n \in Uint64
  BY DEF Slice
<1>2. n \in Nat /\ DOMAIN ranges = 1 .. n /\ \A i \in 1 .. n : ranges[i] \in AckRange
  BY <1>1, LenProperties, ElementOfSeq
<1> HIDE DEF n
<1>3. ASSUME NEW i \in 1 .. n
      PROVE  /\ VarInt(ranges[i].smallest) \o VarInt(ranges[i].largest) \in Bytes
             /\ Len(VarInt(ranges[i].smallest) \o VarInt(ranges[i].largest)) = 16
  <2> DEFINE a == VarInt(ranges[i].smallest)
             b == VarInt(ranges[i].largest)
  <2>1. ranges[i].smallest \in Uint64 /\ ranges[i].largest \in Uint64
    BY <1>2 DEF AckRange
  <2>2. a \in Bytes /\ Len(a) = 8 /\ b \in Bytes /\ Len(b) = 8
    BY <2>1, VarIntBytes
  <2> HIDE DEF a, b
  <2>3. a \o b \in Bytes /\ Len(a \o b) = Len(a) + Len(b)
    BY <2>2, ConcatProperties DEF Bytes
  <2>4. Len(a) + Len(b) = 16
    BY <2>2
  <2> QED
    BY <2>3, <2>4 DEF a, b
<1>4. /\ ps \in [1 .. n -> Bytes]
      /\ \A i \in 1 .. n : ps[i] = VarInt(ranges[i].smallest) \o VarInt(ranges[i].largest)
  BY <1>2, <1>3
<1>5. ps \in Seq(Bytes) /\ Len(ps) = n
  BY <1>2, <1>4
<1> QED
  BY <1>1, <1>2, <1>3, <1>4, <1>5 DEF n

\* What an AckFrame writes is what its parser reads, however many ranges it has.
LEMMA AckParsed ==
    ASSUME NEW f \in [type : {"Ack"}, largest : Uint64, delay : Uint64, ranges : Slice(AckRange)],
           NEW r \in Bytes, At(r, 1, AckFields(f))
    PROVE  parseAckFrame(r) = f
<1> DEFINE a == VarInt(f.largest)
           b == VarInt(f.delay)
           c == VarInt(Len(f.ranges))
           ps == [i \in DOMAIN f.ranges |->
                     VarInt(f.ranges[i].smallest) \o VarInt(f.ranges[i].largest)]
           n == Len(f.ranges)
<1>1. /\ f.largest \in Uint64 /\ f.delay \in Uint64 /\ f.ranges \in Slice(AckRange)
      /\ f = [type |-> "Ack", largest |-> f.largest, delay |-> f.delay, ranges |-> f.ranges]
  OBVIOUS
<1>2. /\ ps \in Seq(Bytes) /\ Len(ps) = n /\ n \in Nat /\ n \in Uint64
      /\ \A i \in 1 .. n : /\ f.ranges[i] \in AckRange /\ Len(ps[i]) = 16
                           /\ ps[i] = VarInt(f.ranges[i].smallest) \o VarInt(f.ranges[i].largest)
  <2> HIDE DEF ps
  <2> QED
    BY <1>1, RangesBytes DEF ps
<1>3. /\ a \in Bytes /\ Len(a) = 8 /\ b \in Bytes /\ Len(b) = 8 /\ c \in Bytes /\ Len(c) = 8
      /\ At(r, 1, ((a \o b) \o c) \o FlattenSeq(ps))
  BY <1>1, <1>2, VarIntBytes DEF AckFields
<1> HIDE DEF ps
<1>4. FlattenSeq(ps) \in Bytes
  BY <1>2, FlattenBytes
<1>5. At(r, 1, a) /\ At(r, 9, b) /\ At(r, 17, c) /\ At(r, 25, FlattenSeq(ps))
  <2> HIDE DEF a, b, c
  <2>1. At(r, 1, a) /\ At(r, 9, b) /\ At(r, 17, c) /\ At(r, 17 + Len(c), FlattenSeq(ps))
    BY <1>3, <1>4, FourFieldsAt
  <2>2. 17 + Len(c) = 25
    BY <1>3
  <2> QED
    BY <2>1, <2>2
<1>6. VarIntAt(r, 1) = f.largest /\ VarIntAt(r, 9) = f.delay /\ VarIntAt(r, 17) = n /\ Len(r) >= 24
  <2>1. 17 + 7 = 24
    OBVIOUS
  <2> QED
    BY <1>1, <1>2, <1>5, <2>1, VarIntHere
<1>7. PICK F : Joins(F, ps) /\ FlattenSeq(ps) = F[n]
  BY <1>2, FlattenJoins
<1> HIDE DEF n
<1>8. \A k \in 0 .. n : F[k] \in Bytes /\ Len(F[k]) = 16 * k
  <2> DEFINE G == {k \in 0 .. n : Len(F[k]) = 16 * k}
  <2>1. \A k \in 0 .. n : F[k] \in Bytes
    BY <1>2, <1>7 DEF Joins
  <2>2. 0 \in G
    BY <1>2, <1>7, EmptySeq DEF Joins
  <2>3. ASSUME NEW k \in 0 .. n - 1, Len(F[k]) = 16 * k PROVE Len(F[k + 1]) = 16 * (k + 1)
    <3>1. k + 1 \in 1 .. n /\ (k + 1) - 1 = k /\ k \in 0 .. n /\ k \in Nat
      BY <1>2
    <3>2. F[k + 1] = F[k] \o ps[k + 1] /\ ps[k + 1] \in Bytes /\ Len(ps[k + 1]) = 16
      BY <1>2, <1>7, <3>1, ElementOfSeq DEF Joins
    <3>3. Len(F[k] \o ps[k + 1]) = Len(F[k]) + Len(ps[k + 1])
      BY <2>1, <3>1, <3>2, ConcatBytes
    <3>4. Len(F[k]) + Len(ps[k + 1]) = 16 * (k + 1)
      BY <2>3, <3>1, <3>2
    <3> QED
      BY <3>2, <3>3, <3>4
  <2>4. \A k \in 0 .. n - 1 : k \in G => k + 1 \in G
    <3>1. \A k \in 0 .. n - 1 : k + 1 \in 0 .. n
      BY <1>2
    <3> QED
      BY <2>3, <3>1
  <2> HIDE DEF G
  <2>5. \A k \in 0 .. n : k \in G
    BY <1>2, <2>2, <2>4, Induction
  <2> QED
    BY <2>1, <2>5 DEF G
<1>9. Len(r) >= 24 + 16 * n
  <2>1. 25 + Len(F[n]) - 1 <= Len(r)
    BY <1>5, <1>7 DEF At
  <2>2. n \in 0 .. n /\ Len(r) \in Nat
    BY <1>2, LenProperties DEF Bytes
  <2>3. Len(F[n]) = 16 * n
    BY <1>8, <2>2
  <2>4. 25 + 16 * n - 1 <= Len(r)
    BY <2>1, <2>3
  <2> QED
    BY <1>2, <2>2, <2>4
<1>10. ASSUME NEW i \in 1 .. n
       PROVE  f.ranges[i] = [smallest |-> VarIntAt(r, 16 * i + 9), largest |-> VarIntAt(r, 16 * i + 17)]
  <2>1. At(r, 25 + Len(F[i - 1]), ps[i])
    BY <1>2, <1>5, <1>7, PartAt
  <2>2. i - 1 \in 0 .. n /\ i \in Nat
    BY <1>2
  <2>3. Len(F[i - 1]) = 16 * (i - 1)
    BY <1>8, <2>2
  <2>4. 25 + 16 * (i - 1) = 16 * i + 9
    BY <2>2
  <2> DEFINE s == VarInt(f.ranges[i].smallest)
             t == VarInt(f.ranges[i].largest)
  <2>5. At(r, 16 * i + 9, s \o t)
    BY <1>2, <2>1, <2>3, <2>4
  <2>6. /\ f.ranges[i] = [smallest |-> f.ranges[i].smallest, largest |-> f.ranges[i].largest]
        /\ f.ranges[i].smallest \in Uint64 /\ f.ranges[i].largest \in Uint64
    BY <1>2 DEF AckRange
  <2>7. s \in Bytes /\ Len(s) = 8 /\ t \in Bytes
    BY <2>6, VarIntBytes
  <2>8. At(r, 16 * i + 9, s) /\ At(r, 16 * i + 17, t)
    <3> HIDE DEF s, t
    <3>1. 16 * i + 9 \in Nat /\ (16 * i + 9) + Len(s) = 16 * i + 17
      BY <2>2, <2>7
    <3>2. At(r, 16 * i + 9, s) /\ At(r, (16 * i + 9) + Len(s), t)
      BY <2>5, <2>7, <3>1, AtConcat
    <3> QED
      BY <3>1, <3>2
  <2>9. 16 * i + 9 \in Nat \ {0} /\ 16 * i + 17 \in Nat \ {0}
    BY <2>2
  <2>10. VarIntAt(r, 16 * i + 9) = f.ranges[i].smallest /\ VarIntAt(r, 16 * i + 17) = f.ranges[i].largest
    BY <2>6, <2>8, <2>9, VarIntHere
  <2> QED
    BY <2>6, <2>10
<1>11. f.ranges = [i \in 1 .. n |->
                     [smallest |-> VarIntAt(r, 16 * i + 9), largest |-> VarIntAt(r, 16 * i + 17)]]
  <2>1. f.ranges = [i \in 1 .. n |-> f.ranges[i]]
    BY <1>1, LenProperties DEF Slice, n
  <2> QED
    BY <1>10, <2>1
<1> QED
  BY <1>1, <1>6, <1>9, <1>11 DEF parseAckFrame

\* The bytes of a frame are its type and its fields.
LEMMA SerializeBytes ==
    ASSUME NEW f \in Frame
    PROVE  /\ Serialize(f) \in Bytes /\ f # NoFrame
           /\ f.type = "Stream" => StreamFields(f) \in Bytes /\ Serialize(f) = <<1>> \o StreamFields(f)
           /\ f.type = "Ack" => AckFields(f) \in Bytes /\ Serialize(f) = <<2>> \o AckFields(f)
           /\ f.type = "Ping" => Serialize(f) = <<5>> \o <<>>
           /\ f.type = "AddPath" => AddPathFields(f) \in Bytes /\ Serialize(f) = <<6>> \o AddPathFields(f)
           /\ f.type = "AddPathResp" =>
                AddPathRespFields(f) \in Bytes /\ Serialize(f) = <<7>> \o AddPathRespFields(f)
           /\ f.type = "RelayData" => RelayDataFields(f) \in Bytes /\ Serialize(f) = <<8>> \o RelayDataFields(f)
           /\ f.type = "OpenStream" =>
                OpenStreamFields(f) \in Bytes /\ Serialize(f) = <<9>> \o OpenStreamFields(f)
           /\ f.type = "OpenStreamResp" =>
                OpenStreamRespFields(f) \in Bytes /\ Serialize(f) = <<10>> \o OpenStreamRespFields(f)
<1>0. /\ \A s, t \in Bytes : s \o t \in Bytes
      /\ \A v \in Uint64 : VarInt(v) \in Bytes
      /\ \A d \in Slice(Byte) : Counted(d) \in Bytes
      /\ \A b \in BOOLEAN : Flag(b) \in Bytes
  BY ConcatBytes, VarIntBytes, CountedBytes, FlagByte
<1>1. \A x \in {1, 2, 5, 6, 7, 8, 9, 10}, t \in Bytes : <<x>> \o t \in Bytes
  <2>1. \A x \in {1, 2, 5, 6, 7, 8, 9, 10} : <<x>> \in Bytes
    BY DEF Bytes, Byte
  <2> QED
    BY <1>0, <2>1
<1>2. CASE f \in [type : {"Stream"}, sid : Uint64, offset : Uint64, fin : BOOLEAN, data : Slice(Byte)]
  <2>1. f.type = "Stream" /\ f # NoFrame
    BY <1>2 DEF NoFrame
  <2>2. f.sid \in Uint64 /\ f.offset \in Uint64 /\ f.fin \in BOOLEAN /\ f.data \in Slice(Byte)
    BY <1>2
  <2>3. StreamFields(f) \in Bytes
    BY <1>0, <2>2 DEF StreamFields
  <2>4. Serialize(f) = <<1>> \o StreamFields(f)
    BY <2>1 DEF Serialize, TypeByte
  <2>5. Serialize(f) \in Bytes
    BY <1>1, <2>3, <2>4
  <2> QED
    BY <2>1, <2>3, <2>4, <2>5
<1>3. CASE f \in [type : {"Ack"}, largest : Uint64, delay : Uint64, ranges : Slice(AckRange)]
  <2>1. f.type = "Ack" /\ f # NoFrame
    BY <1>3 DEF NoFrame
  <2>2. f.largest \in Uint64 /\ f.delay \in Uint64 /\ f.ranges \in Slice(AckRange)
    BY <1>3
  <2> DEFINE ps == [i \in DOMAIN f.ranges |->
                       VarInt(f.ranges[i].smallest) \o VarInt(f.ranges[i].largest)]
  <2>3. ps \in Seq(Bytes) /\ Len(f.ranges) \in Uint64
    <3>1. \A q : q = ps => q \in Seq(Bytes) /\ Len(f.ranges) \in Uint64
      BY <2>2, RangesBytes
    <3> QED
      BY <3>1
  <2>4. FlattenSeq(ps) \in Bytes
    BY <2>3, FlattenBytes
  <2>5. AckFields(f) = VarInt(f.largest) \o VarInt(f.delay) \o VarInt(Len(f.ranges)) \o FlattenSeq(ps)
    BY DEF AckFields
  <2>6. AckFields(f) \in Bytes
    BY <1>0, <2>2, <2>3, <2>4, <2>5
  <2>7. Serialize(f) = <<2>> \o AckFields(f)
    BY <2>1 DEF Serialize, TypeByte
  <2>8. Serialize(f) \in Bytes
    BY <1>1, <2>6, <2>7
  <2> QED
    BY <2>1, <2>6, <2>7, <2>8
<1>4. CASE f \in [type : {"Ping"}]
  <2>1. f.type = "Ping" /\ f # NoFrame
    BY <1>4 DEF NoFrame
  <2>2. Serialize(f) = <<5>> \o <<>>
    BY <2>1 DEF Serialize, TypeByte
  <2>3. <<>> \in Bytes
    BY EmptySeq DEF Bytes
  <2>4. Serialize(f) \in Bytes
    BY <1>1, <2>2, <2>3
  <2> QED
    BY <2>1, <2>2, <2>3, <2>4
<1>5. CASE f \in [type : {"AddPath"}, address : Slice(Byte)]
  <2>1. f.type = "AddPath" /\ f # NoFrame /\ f.address \in Slice(Byte)
    BY <1>5 DEF NoFrame
  <2>2. AddPathFields(f) \in Bytes
    BY <1>0, <2>1 DEF AddPathFields
  <2>3. Serialize(f) = <<6>> \o AddPathFields(f)
    BY <2>1 DEF Serialize, TypeByte
  <2>4. Serialize(f) \in Bytes
    BY <1>1, <2>2, <2>3
  <2> QED
    BY <2>1, <2>2, <2>3, <2>4
<1>6. CASE f \in [type : {"AddPathResp"}, pathID : Uint64, address : Slice(Byte)]
  <2>1. f.type = "AddPathResp" /\ f # NoFrame /\ f.pathID \in Uint64 /\ f.address \in Slice(Byte)
    BY <1>6 DEF NoFrame
  <2>2. AddPathRespFields(f) \in Bytes
    BY <1>0, <2>1 DEF AddPathRespFields
  <2>3. Serialize(f) = <<7>> \o AddPathRespFields(f)
    BY <2>1 DEF Serialize, TypeByte
  <2>4. Serialize(f) \in Bytes
    BY <1>1, <2>2, <2>3
  <2> QED
    BY <2>1, <2>2, <2>3, <2>4
<1>7. CASE f \in [type : {"RelayData"}, pathID : Uint64, sid : Uint64, data : Slice(Byte)]
  <2>1. /\ f.type = "RelayData" /\ f # NoFrame
        /\ f.pathID \in Uint64 /\ f.sid \in Uint64 /\ f.data \in Slice(Byte)
    BY <1>7 DEF NoFrame
  <2>2. RelayDataFields(f) \in Bytes
    BY <1>0, <2>1 DEF RelayDataFields
  <2>3. Serialize(f) = <<8>> \o RelayDataFields(f)
    BY <2>1 DEF Serialize, TypeByte
  <2>4. Serialize(f) \in Bytes
    BY <1>1, <2>2, <2>3
  <2> QED
    BY <2>1, <2>2, <2>3, <2>4
<1>8. CASE f \in [type : {"OpenStream"}, sid : Uint64]
  <2>1. f.type = "OpenStream" /\ f # NoFrame /\ f.sid \in Uint64
    BY <1>8 DEF NoFrame
  <2>2. OpenStreamFields(f) \in Bytes
    BY <1>0, <2>1 DEF OpenStreamFields
  <2>3. Serialize(f) = <<9>> \o OpenStreamFields(f)
    BY <2>1 DEF Serialize, TypeByte
  <2>4. Serialize(f) \in Bytes
    BY <1>1, <2>2, <2>3
  <2> QED
    BY <2>1, <2>2, <2>3, <2>4
<1>9. CASE f \in [type : {"OpenStreamResp"}, sid : Uint64, success : BOOLEAN]
  <2>1. f.type = "OpenStreamResp" /\ f # NoFrame /\ f.sid \in Uint64 /\ f.success \in BOOLEAN
    BY <1>9 DEF NoFrame
  <2>2. OpenStreamRespFields(f) \in Bytes
    BY <1>0, <2>1 DEF OpenStreamRespFields
  <2>3. Serialize(f) = <<10>> \o OpenStreamRespFields(f)
    BY <2>1 DEF Serialize, TypeByte
  <2>4. Serialize(f) \in Bytes
    BY <1>1, <2>2, <2>3
  <2> QED
    BY <2>1, <2>2, <2>3, <2>4
<1> QED
  BY <1>2, <1>3, <1>4, <1>5, <1>6, <1>7, <1>8, <1>9 DEF Frame

\* ParseFrame gives the frame that was written, whatever follows it in the buffer.
THEOREM FrameParsed ==
    ASSUME NEW f \in Frame, NEW data \in Bytes, At(data, 1, Serialize(f))
    PROVE  ParseFrame(data) = f
<1> DEFINE r == Tail(data)
<1>1. /\ 1 \in Byte /\ 2 \in Byte /\ 5 \in Byte /\ 6 \in Byte /\ 7 \in Byte /\ 8 \in Byte
      /\ 9 \in Byte /\ 10 \in Byte
  BY DEF Byte
<1>2. CASE f \in [type : {"Stream"}, sid : Uint64, offset : Uint64, fin : BOOLEAN, data : Slice(Byte)]
  <2>1. f.type = "Stream"
    BY <1>2
  <2>2. StreamFields(f) \in Bytes /\ At(data, 1, <<1>> \o StreamFields(f))
    BY <2>1, SerializeBytes
  <2>3. data # <<>> /\ data[1] = 1 /\ r \in Bytes /\ At(r, 1, StreamFields(f))
    BY <1>1, <2>2, AtTail
  <2>4. ParseFrame(data) = parseStreamFrame(r)
    BY <2>3 DEF ParseFrame
  <2> QED
    BY <1>2, <2>3, <2>4, StreamParsed
<1>3. CASE f \in [type : {"Ack"}, largest : Uint64, delay : Uint64, ranges : Slice(AckRange)]
  <2>1. f.type = "Ack"
    BY <1>3
  <2>2. AckFields(f) \in Bytes /\ At(data, 1, <<2>> \o AckFields(f))
    BY <2>1, SerializeBytes
  <2>3. data # <<>> /\ data[1] = 2 /\ r \in Bytes /\ At(r, 1, AckFields(f))
    BY <1>1, <2>2, AtTail
  <2>4. ParseFrame(data) = parseAckFrame(r)
    BY <2>3 DEF ParseFrame
  <2> QED
    BY <1>3, <2>3, <2>4, AckParsed
<1>4. CASE f \in [type : {"Ping"}]
  <2>1. f.type = "Ping" /\ f = [type |-> "Ping"]
    BY <1>4
  <2>2. <<>> \in Bytes /\ At(data, 1, <<5>> \o <<>>)
    BY <2>1, SerializeBytes, EmptySeq DEF Bytes
  <2>3. data # <<>> /\ data[1] = 5
    BY <1>1, <2>2, AtTail
  <2> QED
    BY <2>1, <2>3 DEF ParseFrame
<1>5. CASE f \in [type : {"AddPath"}, address : Slice(Byte)]
  <2>1. f.type = "AddPath"
    BY <1>5
  <2>2. AddPathFields(f) \in Bytes /\ At(data, 1, <<6>> \o AddPathFields(f))
    BY <2>1, SerializeBytes
  <2>3. data # <<>> /\ data[1] = 6 /\ r \in Bytes /\ At(r, 1, AddPathFields(f))
    BY <1>1, <2>2, AtTail
  <2>4. ParseFrame(data) = parseAddPathFrame(r)
    BY <2>3 DEF ParseFrame
  <2> QED
    BY <1>5, <2>3, <2>4, AddPathParsed
<1>6. CASE f \in [type : {"AddPathResp"}, pathID : Uint64, address : Slice(Byte)]
  <2>1. f.type = "AddPathResp"
    BY <1>6
  <2>2. AddPathRespFields(f) \in Bytes /\ At(data, 1, <<7>> \o AddPathRespFields(f))
    BY <2>1, SerializeBytes
  <2>3. data # <<>> /\ data[1] = 7 /\ r \in Bytes /\ At(r, 1, AddPathRespFields(f))
    BY <1>1, <2>2, AtTail
  <2>4. ParseFrame(data) = parseAddPathRespFrame(r)
    BY <2>3 DEF ParseFrame
  <2> QED
    BY <1>6, <2>3, <2>4, AddPathRespParsed
<1>7. CASE f \in [type : {"RelayData"}, pathID : Uint64, sid : Uint64, data : Slice(Byte)]
  <2>1. f.type = "RelayData"
    BY <1>7
  <2>2. RelayDataFields(f) \in Bytes /\ At(data, 1, <<8>> \o RelayDataFields(f))
    BY <2>1, SerializeBytes
  <2>3. data # <<>> /\ data[1] = 8 /\ r \in Bytes /\ At(r, 1, RelayDataFields(f))
    BY <1>1, <2>2, AtTail
  <2>4. ParseFrame(data) = parseRelayDataFrame(r)
    BY <2>3 DEF ParseFrame
  <2> QED
    BY <1>7, <2>3, <2>4, RelayDataParsed
<1>8. CASE f \in [type : {"OpenStream"}, sid : Uint64]
  <2>1. f.type = "OpenStream"
    BY <1>8
  <2>2. OpenStreamFields(f) \in Bytes /\ At(data, 1, <<9>> \o OpenStreamFields(f))
    BY <2>1, SerializeBytes
  <2>3. data # <<>> /\ data[1] = 9 /\ r \in Bytes /\ At(r, 1, OpenStreamFields(f))
    BY <1>1, <2>2, AtTail
  <2>4. ParseFrame(data) = parseOpenStreamFrame(r)
    BY <2>3 DEF ParseFrame
  <2> QED
    BY <1>8, <2>3, <2>4, OpenStreamParsed
<1>9. CASE f \in [type : {"OpenStreamResp"}, sid : Uint64, success : BOOLEAN]
  <2>1. f.type = "OpenStreamResp"
    BY <1>9
  <2>2. OpenStreamRespFields(f) \in Bytes /\ At(data, 1, <<10>> \o OpenStreamRespFields(f))
    BY <2>1, SerializeBytes
  <2>3. data # <<>> /\ data[1] = 10 /\ r \in Bytes /\ At(r, 1, OpenStreamRespFields(f))
    BY <1>1, <2>2, AtTail
  <2>4. ParseFrame(data) = parseOpenStreamRespFrame(r)
    BY <2>3 DEF ParseFrame
  <2> QED
    BY <1>9, <2>3, <2>4, OpenStreamRespParsed
<1> QED
  BY <1>2, <1>3, <1>4, <1>5, <1>6, <1>7, <1>8, <1>9 DEF Frame

-----------------------------------------------------------------------------
(***************************************************************************)
(* Packets                                                                 *)
(***************************************************************************)

\* A length in front of bytes takes four bytes, and is read as it was written.
LEMMA LengthInFront ==
    ASSUME NEW s \in Bytes, NEW n \in Nat, Len(s) = n, n \in Uint32
    PROVE  /\ BigEndian(n, 4) \in Bytes /\ Len(BigEndian(n, 4)) = 4 /\ Number(BigEndian(n, 4)) = n
           /\ WithLength(s) = BigEndian(n, 4) \o s /\ WithLength(s) \in Bytes /\ Len(WithLength(s)) = n + 4
<1>1. (n \div 65536) \div 65536 = 0
  BY DEF Uint32
<1>2. (((n \div 65536) \div 65536) \div 65536) \div 65536 = 0
  BY <1>1
<1>3. Fits(n, 4)
  BY <1>1, <1>2 DEF Fits, Uint64
<1>4. BigEndian(n, 4) \in Bytes /\ Len(BigEndian(n, 4)) = 4 /\ Number(BigEndian(n, 4)) = n
  BY <1>3, NumberOfBigEndian
<1> DEFINE b == BigEndian(n, 4)
<1>5. WithLength(s) = b \o s
  BY DEF WithLength
<1> HIDE DEF b
<1>6. b \o s \in Bytes /\ Len(b \o s) = Len(b) + Len(s)
  BY <1>4, ConcatBytes DEF b
<1>7. Len(b) + Len(s) = n + 4
  <2>1. Len(b) = 4
    BY <1>4 DEF b
  <2> QED
    BY <2>1
<1> QED
  BY <1>4, <1>5, <1>6, <1>7 DEF b

\* The reader of a packet finds the length that the packer put in front, and takes it off
\* (packet.go, DeserializePacket).
LEMMA LengthRemoved ==
    ASSUME NEW s \in Bytes, NEW n \in Nat, Len(s) = n, n \in Uint32
    PROVE  WithoutPrefix(WithLength(s)) = s
<1> DEFINE b == BigEndian(n, 4)
           w == WithLength(s)
<1>1. /\ b \in Bytes /\ Len(b) = 4 /\ Number(b) = n
      /\ w = b \o s /\ w \in Bytes /\ Len(w) = n + 4
  BY LengthInFront
<1> HIDE DEF b, w
<1>2. At(w, 1, b \o s)
  BY <1>1, AtItself
<1>3. At(w, 1, b) /\ At(w, 1 + Len(b), s)
  BY <1>1, <1>2, AtConcat
<1>4. 1 + Len(b) = 5 /\ 1 + Len(b) - 1 = 4 /\ 5 + Len(s) - 1 = Len(w)
  BY <1>1
<1>5. SubSeq(w, 1, 1 + Len(b) - 1) = b
  BY <1>1, <1>3, AtSubSeq
<1>6. SubSeq(w, 5, 5 + Len(s) - 1) = s
  BY <1>3, <1>4, <1>1, AtSubSeq
<1>7. Len(w) >= 4 /\ Len(w) - 4 = n
  BY <1>1
<1> QED
  BY <1>1, <1>4, <1>5, <1>6, <1>7 DEF WithoutPrefix, w

\* The frames of a packet as bytes.
LEMMA FramesBytes ==
    ASSUME NEW frames \in Seq(Frame), NEW ps, ps = [i \in DOMAIN frames |-> Serialize(frames[i])]
    PROVE  /\ ps \in Seq(Bytes) /\ Len(ps) = Len(frames)
           /\ \A i \in 1 .. Len(frames) : frames[i] \in Frame /\ ps[i] = Serialize(frames[i])
<1>1. DOMAIN frames = 1 .. Len(frames) /\ Len(frames) \in Nat /\ \A i \in 1 .. Len(frames) : frames[i] \in Frame
  BY LenProperties, ElementOfSeq
<1>2. \A i \in 1 .. Len(frames) : Serialize(frames[i]) \in Bytes
  BY <1>1, SerializeBytes
<1>3. ps \in [1 .. Len(frames) -> Bytes]
  BY <1>1, <1>2
<1>4. ps \in Seq(Bytes) /\ Len(ps) = Len(frames)
  BY <1>1, <1>3
<1> QED
  BY <1>1, <1>4

\* The fields of a packet in its bytes: the number, the count of frames, the frames.
LEMMA PacketFields ==
    ASSUME NEW p \in Packet, NEW s, s = SerializePacket(p)
    PROVE  /\ s \in Bytes /\ Len(s) >= 17
           /\ VarIntAt(s, 2) = p.num /\ VarIntAt(s, 10) = Len(p.frames)
           /\ p.frames # <<>> =>
                LET rest == SubSeq(s, 18, Len(s)) IN rest \in Bytes /\ At(rest, 1, Serialize(p.frames[1]))
<1> DEFINE ps == [i \in DOMAIN p.frames |-> Serialize(p.frames[i])]
           z == <<0>>
           a == VarInt(p.num)
           b == VarInt(Len(p.frames))
           t == FlattenSeq(ps)
<1>1. p.num \in Uint64 /\ p.frames \in Seq(Frame) /\ Len(p.frames) \in Uint64 /\ Len(p.frames) \in Nat
  BY LenProperties DEF Packet, Slice
<1>2. /\ ps \in Seq(Bytes) /\ Len(ps) = Len(p.frames)
      /\ \A i \in 1 .. Len(p.frames) : p.frames[i] \in Frame /\ ps[i] = Serialize(p.frames[i])
  <2> HIDE DEF ps
  <2> QED
    BY <1>1, FramesBytes DEF ps
<1>3. s = ((z \o a) \o b) \o t
  BY DEF SerializePacket
<1>4. z \in Bytes /\ Len(z) = 1
  BY DEF Bytes, Byte
<1>5. a \in Bytes /\ Len(a) = 8 /\ b \in Bytes /\ Len(b) = 8
  BY <1>1, VarIntBytes
<1> HIDE DEF ps, z, a, b
<1>6. t \in Bytes
  BY <1>2, FlattenBytes
<1>7. /\ z \o a \in Bytes /\ Len(z \o a) = Len(z) + Len(a) /\ Len(z) + Len(a) = 9
      /\ (z \o a) \o b \in Bytes /\ Len((z \o a) \o b) = Len(z \o a) + Len(b)
  <2>1. z \o a \in Bytes /\ Len(z \o a) = Len(z) + Len(a)
    BY <1>4, <1>5, ConcatBytes
  <2>2. (z \o a) \o b \in Bytes /\ Len((z \o a) \o b) = Len(z \o a) + Len(b)
    BY <1>5, <2>1, ConcatBytes
  <2>3. Len(z) + Len(a) = 9
    BY <1>4, <1>5
  <2> QED
    BY <2>1, <2>2, <2>3
<1> HIDE DEF t
<1>8. Len(z \o a) + Len(b) = 17
  BY <1>5, <1>7
<1>9. ((z \o a) \o b) \o t \in Bytes /\ Len(((z \o a) \o b) \o t) = Len((z \o a) \o b) + Len(t) /\ Len(t) \in Nat
  BY <1>6, <1>7, ConcatBytes, LenProperties DEF Bytes
<1>10. s \in Bytes /\ Len(s) = 17 + Len(t)
  BY <1>3, <1>7, <1>8, <1>9
<1>11. At(s, 1, (z \o a) \o b) /\ At(s, 18, t)
  <2>1. At(s, 1, ((z \o a) \o b) \o t)
    BY <1>3, <1>10, AtItself
  <2>2. At(s, 1, (z \o a) \o b) /\ At(s, 1 + Len((z \o a) \o b), t)
    BY <1>6, <1>7, <1>10, <2>1, AtConcat
  <2>3. 1 + Len((z \o a) \o b) = 18
    BY <1>7, <1>8
  <2> QED
    BY <2>2, <2>3
<1>12. At(s, 2, a) /\ At(s, 10, b)
  <2>1. At(s, 1, z \o a) /\ At(s, 1 + Len(z \o a), b)
    BY <1>5, <1>7, <1>10, <1>11, AtConcat
  <2>2. At(s, 1, z) /\ At(s, 1 + Len(z), a)
    BY <1>4, <1>5, <1>10, <2>1, AtConcat
  <2>3. 1 + Len(z \o a) = 10 /\ 1 + Len(z) = 2
    BY <1>4, <1>7
  <2> QED
    BY <2>1, <2>2, <2>3
<1>13. VarIntAt(s, 2) = p.num /\ VarIntAt(s, 10) = Len(p.frames)
  BY <1>1, <1>10, <1>12, VarIntHere DEF a, b
<1>14. ASSUME p.frames # <<>>
       PROVE  SubSeq(s, 18, Len(s)) \in Bytes /\ At(SubSeq(s, 18, Len(s)), 1, Serialize(p.frames[1]))
  <2>1. Len(p.frames) # 0 /\ 1 \in 1 .. Len(p.frames)
    BY <1>1, <1>14, EmptySeq
  <2>2. ps # <<>> /\ ps[1] = Serialize(p.frames[1]) /\ ps[1] \in Bytes
    BY <1>2, <2>1, EmptySeq, ElementOfSeq
  <2>3. At(s, 18, ps[1])
    BY <1>2, <1>10, <1>11, <2>2, FirstPartAt DEF t
  <2>4. 18 \in 1 .. Len(s) + 1
    BY <1>9, <1>10
  <2> QED
    BY <1>10, <2>2, <2>3, <2>4, AtRest
<1>15. Len(s) >= 17
  BY <1>9, <1>10
<1> QED
  BY <1>10, <1>13, <1>14, <1>15

\* What comes out of a packet with a length in front: its number, its count of frames, and
\* the packet itself when it has one frame (packet.go:163 parses the first frame only).
THEOREM PacketRead ==
    ASSUME NEW p \in Packet, Len(p.frames) <= MaxFrames,
           NEW n \in Nat, Len(SerializePacket(p)) = n, n \in Uint32,
           NEW q, q = DeserializePacket(WithLength(SerializePacket(p)))
    PROVE  /\ q.num = p.num /\ Len(q.frames) = Len(p.frames)
           /\ Len(p.frames) = 1 => q = p
<1> DEFINE s == SerializePacket(p)
           count == Len(p.frames)
           rest == SubSeq(s, 18, Len(s))
           frame == ParseFrame(rest)
<1>1. /\ s \in Bytes /\ Len(s) >= 17 /\ VarIntAt(s, 2) = p.num /\ VarIntAt(s, 10) = count
      /\ p.frames # <<>> => rest \in Bytes /\ At(rest, 1, Serialize(p.frames[1]))
  <2> HIDE DEF s
  <2> QED
    BY PacketFields DEF s
<1>2. /\ p = [num |-> p.num, frames |-> p.frames] /\ p.frames \in Seq(Frame) /\ count \in Nat
      /\ p.frames = [i \in 1 .. count |-> p.frames[i]] /\ \A i \in 1 .. count : p.frames[i] \in Frame
  BY LenProperties DEF Packet, Slice
<1>3. WithoutPrefix(WithLength(s)) = s
  <2> HIDE DEF s
  <2> QED
    BY <1>1, LengthRemoved DEF s
<1>4. count > 0 => frame = p.frames[1] /\ frame # NoFrame
  <2> HAVE count > 0
  <2>1. p.frames # <<>> /\ 1 \in 1 .. count
    BY <1>2, EmptySeq
  <2>2. p.frames[1] \in Frame
    BY <1>2, <2>1
  <2>3. frame = p.frames[1]
    BY <1>1, <2>1, <2>2, FrameParsed
  <2> QED
    BY <2>2, <2>3, SerializeBytes
<1> HIDE DEF s, rest, frame
<1>5. DeserializePacket(WithLength(s)) =
        IF Len(s) < 17 \/ VarIntAt(s, 10) > MaxFrames \/ (VarIntAt(s, 10) > 0 /\ frame = NoFrame)
        THEN NoPacket
        ELSE [num |-> VarIntAt(s, 2), frames |-> [i \in 1 .. VarIntAt(s, 10) |-> frame]]
  BY <1>3 DEF DeserializePacket, frame, rest
<1>6. Len(s) \in Nat /\ ~(Len(s) < 17)
  BY <1>1, LenProperties DEF Bytes
<1>7. ~(count > MaxFrames) /\ ~(count > 0 /\ frame = NoFrame)
  BY <1>2, <1>4 DEF MaxFrames
<1>8. q = [num |-> p.num, frames |-> [i \in 1 .. count |-> frame]]
  BY <1>1, <1>5, <1>6, <1>7 DEF s
<1>9. Len([i \in 1 .. count |-> frame]) = count
  BY <1>2
<1>10. ASSUME count = 1 PROVE q = p
  <2>1. frame = p.frames[1]
    BY <1>4, <1>10
  <2>2. [i \in 1 .. count |-> frame] = [i \in 1 .. count |-> p.frames[i]]
    BY <1>10, <2>1
  <2> QED
    BY <1>2, <1>8, <2>2
<1> QED
  BY <1>8, <1>9, <1>10

-----------------------------------------------------------------------------
(***************************************************************************)
(* The reader's loop                                                       *)
(***************************************************************************)

\* Four bytes are a natural number.
LEMMA NumberNat ==
    ASSUME NEW b \in Bytes, Len(b) = 4
    PROVE  Number(b) \in Nat
<1>1. PICK g : g = [k \in 0 .. 4 |-> Summed(g, b, k)] /\ Number(b) = g[4]
  BY NumberDef
<1>2. \A k \in 1 .. 4 : b[k] \in Nat
  <2>1. \A k \in 1 .. 4 : b[k] \in Byte
    BY ElementOfSeq DEF Bytes
  <2> QED
    BY <2>1 DEF Byte
<1>3. g[0] = 0 /\ \A k \in 1 .. 4 : g[k] = 256 * g[k - 1] + b[k]
  BY <1>1 DEF Summed
<1>4. g[1] \in Nat
  BY <1>2, <1>3
<1>5. g[2] \in Nat
  BY <1>2, <1>3, <1>4
<1>6. g[3] \in Nat
  BY <1>2, <1>3, <1>5
<1>7. g[4] \in Nat
  BY <1>2, <1>3, <1>6
<1> QED
  BY <1>1, <1>7

\* The loop at position i, as the recursion of CutFrom states it.
Cut(g, buf, i) ==
    LET n    == Number(SubSeq(buf, i, i + 3))
        left == Len(buf) + 1 - i
        rest == SubSeq(buf, i, Len(buf))
    IN  CASE left < 4 -> [packets |-> <<>>, rest |-> rest, stop |-> FALSE]
          [] left >= 4 /\ n = 0 -> g[i + 4]
          [] left >= 4 /\ n > MaxPacketSize -> [packets |-> <<>>, rest |-> rest, stop |-> TRUE]
          [] left >= 4 /\ n \in 1 .. MaxPacketSize /\ left < 4 + n ->
                [packets |-> <<>>, rest |-> rest, stop |-> FALSE]
          [] OTHER -> [g[i + 4 + n] EXCEPT !.packets = <<SubSeq(buf, i + 4, i + 3 + n)>> \o @]

\* Where four bytes are left, they are a natural number.
LEMMA LengthAt ==
    ASSUME NEW buf \in Bytes, NEW m \in Nat, Len(buf) = m, NEW i \in 1 .. m + 1, m + 1 - i >= 4
    PROVE  Number(SubSeq(buf, i, i + 3)) \in Nat
<1>1. \A j \in i .. i + 3 : buf[j] \in Byte
  <2>1. \A j \in i .. i + 3 : j \in 1 .. m
    OBVIOUS
  <2> QED
    BY <2>1, ElementOfSeq DEF Bytes
<1>2. i \in Int /\ i + 3 \in Int /\ i <= i + 3 /\ (i + 3) - i + 1 = 4
  OBVIOUS
<1>3. SubSeq(buf, i, i + 3) \in Seq(Byte)
      /\ Len(SubSeq(buf, i, i + 3)) = IF i <= i + 3 THEN (i + 3) - i + 1 ELSE 0
  BY <1>1, <1>2, SubSeqProperties
<1> QED
  BY <1>2, <1>3, NumberNat DEF Bytes

\* The loop only moves forwards: what it does at a position depends on later ones only.
LEMMA CutLocal ==
    ASSUME NEW buf \in Bytes, NEW m \in Nat, Len(buf) = m, NEW i \in 1 .. m + 1, NEW g, NEW h,
           \A j \in i + 1 .. m + 1 : g[j] = h[j], MaxPacketSize \in Nat
    PROVE  Cut(g, buf, i) = Cut(h, buf, i)
<1> DEFINE n == Number(SubSeq(buf, i, i + 3))
           left == m + 1 - i
<1>1. CASE left < 4
  BY <1>1 DEF Cut
<1>2. CASE left >= 4
  <2>1. n \in Nat
    BY <1>2, LengthAt
  <2> HIDE DEF n
  <2>2. CASE n = 0
    <3>1. i + 4 \in i + 1 .. m + 1
      BY <1>2
    <3>2. g[i + 4] = h[i + 4]
      BY <3>1
    <3>3. ~(left < 4)
      BY <1>2
    <3> HIDE DEF left
    <3> QED
      BY <1>2, <2>2, <3>2, <3>3 DEF Cut, n, left
  <2>3. CASE n > MaxPacketSize
    BY <1>2, <2>1, <2>3 DEF Cut, n
  <2>4. CASE n \in 1 .. MaxPacketSize /\ left < 4 + n
    BY <1>2, <2>1, <2>4 DEF Cut, n
  <2>5. CASE n \in 1 .. MaxPacketSize /\ left >= 4 + n
    <3>1. i + 4 + n \in i + 1 .. m + 1
      BY <1>2, <2>5
    <3>2. g[i + 4 + n] = h[i + 4 + n]
      BY <3>1
    <3>3. ~(left < 4) /\ n # 0 /\ ~(n > MaxPacketSize) /\ ~(left < 4 + n)
      BY <1>2, <2>5
    <3> HIDE DEF left
    <3> QED
      BY <3>2, <3>3 DEF Cut, n, left
  <2> QED
    BY <2>1, <2>2, <2>3, <2>4, <2>5
<1> QED
  BY <1>1, <1>2

\* So its recursion has a solution.
LEMMA CutDef ==
    ASSUME NEW buf \in Bytes, NEW m \in Nat, Len(buf) = m, MaxPacketSize \in Nat
    PROVE  CutFrom(buf) = [i \in 1 .. m + 1 |-> Cut(CutFrom(buf), buf, i)]
<1> DEFINE Solves(g, k) == /\ g = [i \in 1 .. m + 1 |-> g[i]]
                           /\ \A i \in m + 1 - k .. m + 1 : g[i] = Cut(g, buf, i)
           G == {k \in 0 .. m : \E g : Solves(g, k)}
           cut == CHOOSE g : g = [i \in 1 .. m + 1 |-> Cut(g, buf, i)]
<1>1. 0 \in G
  <2> DEFINE h == [i \in 1 .. m + 1 |-> Cut(<<>>, buf, i)]
  <2>1. h = [i \in 1 .. m + 1 |-> h[i]]
    OBVIOUS
  <2>2. m + 1 \in 1 .. m + 1 /\ h[m + 1] = Cut(<<>>, buf, m + 1)
    OBVIOUS
  <2> HIDE DEF h
  <2>3. Cut(<<>>, buf, m + 1) = Cut(h, buf, m + 1)
    <3>1. \A j \in (m + 1) + 1 .. m + 1 : <<>>[j] = h[j]
      OBVIOUS
    <3> QED
      BY <2>2, <3>1, CutLocal
  <2>4. \A i \in m + 1 - 0 .. m + 1 : i = m + 1
    OBVIOUS
  <2>5. Solves(h, 0)
    BY <2>1, <2>2, <2>3, <2>4
  <2> HIDE DEF Solves
  <2> QED
    BY <2>5
<1>2. ASSUME NEW k \in 0 .. m - 1, k \in G PROVE k + 1 \in G
  <2>1. PICK g : Solves(g, k)
    <3> HIDE DEF Solves
    <3> QED
      BY <1>2
  <2> DEFINE at == m - k
             h == [i \in 1 .. m + 1 |-> IF i = at THEN Cut(g, buf, i) ELSE g[i]]
  <2>2. h = [i \in 1 .. m + 1 |-> h[i]]
    OBVIOUS
  <2>3. at \in 1 .. m + 1 /\ at = m + 1 - (k + 1) /\ at + 1 = m + 1 - k /\ k + 1 \in 0 .. m
    OBVIOUS
  <2> HIDE DEF at
  <2>4. \A j \in at + 1 .. m + 1 : g[j] = h[j]
    BY <2>3
  <2>5. ASSUME NEW i \in at .. m + 1 PROVE h[i] = Cut(h, buf, i)
    <3>1. i \in 1 .. m + 1 /\ \A j \in i + 1 .. m + 1 : j \in at + 1 .. m + 1
      BY <2>3
    <3>2. \A j \in i + 1 .. m + 1 : g[j] = h[j]
      <4> HIDE DEF h
      <4> QED
        BY <2>4, <3>1
    <3>3. Cut(g, buf, i) = Cut(h, buf, i)
      <4> HIDE DEF h
      <4> QED
        BY <3>1, <3>2, CutLocal
    <3>4. h[i] = Cut(g, buf, i)
      <4>1. CASE i = at
        BY <3>1, <4>1
      <4>2. CASE i # at
        <5>1. i \in m + 1 - k .. m + 1
          BY <2>3, <4>2
        <5>2. g[i] = Cut(g, buf, i)
          BY <2>1, <5>1
        <5> QED
          BY <3>1, <4>2, <5>2
      <4> QED
        BY <4>1, <4>2
    <3> HIDE DEF h
    <3> QED
      BY <3>3, <3>4
  <2> HIDE DEF h
  <2>6. Solves(h, k + 1)
    BY <2>2, <2>3, <2>5
  <2> HIDE DEF Solves
  <2> QED
    BY <2>3, <2>6
<1> HIDE DEF G
<1>3. m \in G
  <2>1. \A k \in 0 .. m : k \in G
    BY <1>1, <1>2, Induction
  <2> QED
    BY <2>1
<1>4. PICK g : Solves(g, m)
  <2> HIDE DEF Solves
  <2> QED
    BY <1>3 DEF G
<1>5. g = [i \in 1 .. m + 1 |-> Cut(g, buf, i)]
  <2>1. \A i \in 1 .. m + 1 : i \in m + 1 - m .. m + 1
    OBVIOUS
  <2> QED
    BY <1>4, <2>1
<1>6. cut = [i \in 1 .. m + 1 |-> Cut(cut, buf, i)]
  BY <1>5
<1>7. CutFrom(buf) = cut
  BY DEF CutFrom, Cut
<1> HIDE DEF cut
<1> QED
  BY <1>6, <1>7

-----------------------------------------------------------------------------
(***************************************************************************)
(* Packets in the stream                                                   *)
(***************************************************************************)

\* A packet with the length that the packer puts in front: what the reader pushes.
Inner(p) == WithLength(SerializePacket(p))

\* What is shorter than a number of four bytes is one.
LEMMA Uint32Below ==
    ASSUME NEW n \in Nat, NEW m \in Uint32, n <= m
    PROVE  n \in Uint32
<1>1. m \in Nat /\ (m \div 65536) \div 65536 = 0
  BY DEF Uint32
<1>2. (n \div 65536) \div 65536 = 0
  BY <1>1
<1> QED
  BY <1>2 DEF Uint32

\* The bytes of a packet that may be sent, with one length in front and with two.
LEMMA SendableBytes ==
    ASSUME NEW p \in Sendable
    PROVE  /\ p \in Packet /\ Len(p.frames) <= MaxFrames
           /\ SerializePacket(p) \in Bytes /\ Len(SerializePacket(p)) \in Uint32
           /\ Len(SerializePacket(p)) <= MaxPacketSize
           /\ Inner(p) \in Bytes /\ Len(Inner(p)) = Len(SerializePacket(p)) + 4
           /\ BigEndian(Len(Inner(p)), 4) \in Bytes /\ Len(BigEndian(Len(Inner(p)), 4)) = 4
           /\ Number(BigEndian(Len(Inner(p)), 4)) = Len(Inner(p))
           /\ Encoded[p] = BigEndian(Len(Inner(p)), 4) \o Inner(p)
           /\ Encoded[p] \in Bytes /\ Len(Encoded[p]) = Len(Inner(p)) + 4
<1> DEFINE s == SerializePacket(p)
           n == Len(s)
<1>1. /\ p \in Packets /\ p \in Packet /\ Len(p.frames) <= MaxFrames
      /\ n <= MaxPacketSize /\ MaxPacketSize \in Nat /\ MaxPacketSize + 4 \in Uint32
  BY WireConstants DEF Sendable, SizeAllowed
<1>2. s \in Bytes
  <2>1. \A t : t = SerializePacket(p) => t \in Bytes
    BY <1>1, PacketFields
  <2> QED
    BY <2>1
<1>3. n \in Nat
  BY <1>2, LenProperties DEF Bytes
<1> HIDE DEF n
<1>4. n \in Uint32 /\ n + 4 \in Uint32 /\ n + 4 \in Nat
  BY <1>1, <1>3, Uint32Below
<1>5. Inner(p) = WithLength(s) /\ Encoded[p] = WithLength(Inner(p))
  BY <1>1 DEF Inner, Encoded, OnTheWire
<1>6. Inner(p) \in Bytes /\ Len(Inner(p)) = n + 4
  <2> HIDE DEF s
  <2>1. Len(s) = n
    BY DEF n
  <2> QED
    BY <1>2, <1>3, <1>4, <1>5, <2>1, LengthInFront
<1>7. /\ BigEndian(n + 4, 4) \in Bytes /\ Len(BigEndian(n + 4, 4)) = 4 /\ Number(BigEndian(n + 4, 4)) = n + 4
      /\ Encoded[p] = BigEndian(n + 4, 4) \o Inner(p)
      /\ Encoded[p] \in Bytes /\ Len(Encoded[p]) = n + 4 + 4
  BY <1>4, <1>5, <1>6, LengthInFront
<1> QED
  BY <1>1, <1>2, <1>4, <1>6, <1>7 DEF n

\* Packets as they are in the stream, one after another.
EncodedSeq(ws) == [i \in DOMAIN ws |-> Encoded[ws[i]]]

\* ... joined, as the reader gets them.
Stream(ws) == FlattenSeq(EncodedSeq(ws))

\* They are bytes, packet by packet and together.
LEMMA EncodedSeqBytes ==
    ASSUME NEW ws \in Seq(Sendable)
    PROVE  /\ EncodedSeq(ws) \in Seq(Bytes) /\ Len(EncodedSeq(ws)) = Len(ws)
           /\ \A i \in 1 .. Len(ws) : ws[i] \in Sendable /\ EncodedSeq(ws)[i] = Encoded[ws[i]]
           /\ Stream(ws) \in Bytes
<1>1. DOMAIN ws = 1 .. Len(ws) /\ Len(ws) \in Nat /\ \A i \in 1 .. Len(ws) : ws[i] \in Sendable
  BY LenProperties, ElementOfSeq
<1>2. \A i \in 1 .. Len(ws) : Encoded[ws[i]] \in Bytes
  BY <1>1, SendableBytes
<1>3. /\ EncodedSeq(ws) \in [1 .. Len(ws) -> Bytes]
      /\ \A i \in 1 .. Len(ws) : EncodedSeq(ws)[i] = Encoded[ws[i]]
  BY <1>1, <1>2 DEF EncodedSeq
<1>4. EncodedSeq(ws) \in Seq(Bytes) /\ Len(EncodedSeq(ws)) = Len(ws)
  BY <1>1, <1>3
<1> QED
  BY <1>1, <1>3, <1>4, FlattenBytes DEF Stream

\* No packets are no bytes.
LEMMA StreamEmpty == Stream(<<>>) = <<>>
<1>1. EncodedSeq(<<>>) = <<>>
  BY DEF EncodedSeq
<1> QED
  BY <1>1, FlattenEmpty DEF Stream

\* The first packet comes first.
LEMMA StreamFirst ==
    ASSUME NEW ws \in Seq(Sendable), ws # <<>>
    PROVE  Tail(ws) \in Seq(Sendable) /\ Stream(ws) = Encoded[ws[1]] \o Stream(Tail(ws))
<1> DEFINE es == EncodedSeq(ws)
           rest == Tail(ws)
           n == Len(rest)
<1>1. /\ rest \in Seq(Sendable) /\ n = Len(ws) - 1 /\ n \in Nat /\ Len(ws) \in Nat
      /\ \A i \in 1 .. n : rest[i] = ws[i + 1]
  BY HeadTailProperties, LenProperties
<1>2. /\ es \in Seq(Bytes) /\ Len(es) = Len(ws)
      /\ \A i \in 1 .. Len(ws) : es[i] = Encoded[ws[i]]
  BY EncodedSeqBytes
<1>3. /\ EncodedSeq(rest) \in Seq(Bytes) /\ Len(EncodedSeq(rest)) = n
      /\ \A i \in 1 .. n : EncodedSeq(rest)[i] = Encoded[rest[i]]
  BY <1>1, EncodedSeqBytes
<1> HIDE DEF es, rest, n
<1>4. es # <<>>
  <2>1. Len(ws) # 0
    BY <1>1
  <2> QED
    BY <1>2, <2>1, EmptySeq
<1>5. /\ Tail(es) \in Seq(Bytes) /\ Len(Tail(es)) = Len(es) - 1
      /\ \A i \in 1 .. Len(Tail(es)) : Tail(es)[i] = es[i + 1]
  BY <1>2, <1>4, HeadTailProperties
<1>6. Len(Tail(es)) = n
  BY <1>1, <1>2, <1>5
<1>7. \A i \in 1 .. n : EncodedSeq(rest)[i] = Tail(es)[i]
  <2>1. \A i \in 1 .. n : i + 1 \in 1 .. Len(ws)
    BY <1>1
  <2> QED
    BY <1>1, <1>2, <1>3, <1>5, <1>6, <2>1
<1>8. EncodedSeq(rest) = Tail(es)
  BY <1>3, <1>5, <1>6, <1>7, SeqEqual
<1>9. 1 \in 1 .. Len(ws)
  BY <1>1
<1> QED
  BY <1>1, <1>2, <1>4, <1>8, <1>9, FlattenFirst DEF Stream, es, rest

\* A packet that is written comes last.
LEMMA StreamAppend ==
    ASSUME NEW ws \in Seq(Sendable), NEW p \in Sendable
    PROVE  Append(ws, p) \in Seq(Sendable) /\ Stream(Append(ws, p)) = Stream(ws) \o Encoded[p]
<1> DEFINE es == EncodedSeq(ws)
           longer == Append(ws, p)
           n == Len(ws)
<1>1. /\ longer \in Seq(Sendable) /\ Len(longer) = n + 1 /\ n \in Nat
      /\ \A i \in 1 .. n : longer[i] = ws[i]
      /\ longer[n + 1] = p
  BY AppendProperties, LenProperties
<1>2. /\ es \in Seq(Bytes) /\ Len(es) = n
      /\ \A i \in 1 .. n : es[i] = Encoded[ws[i]]
  BY EncodedSeqBytes
<1>3. /\ EncodedSeq(longer) \in Seq(Bytes) /\ Len(EncodedSeq(longer)) = Len(longer)
      /\ \A i \in 1 .. Len(longer) : EncodedSeq(longer)[i] = Encoded[longer[i]]
  BY <1>1, EncodedSeqBytes
<1>4. Encoded[p] \in Bytes
  BY SendableBytes
<1> HIDE DEF es, longer, n
<1>5. /\ Append(es, Encoded[p]) \in Seq(Bytes) /\ Len(Append(es, Encoded[p])) = n + 1
      /\ \A i \in 1 .. n : Append(es, Encoded[p])[i] = es[i]
      /\ Append(es, Encoded[p])[n + 1] = Encoded[p]
  BY <1>2, <1>4, AppendProperties
<1>6. \A i \in 1 .. n + 1 : EncodedSeq(longer)[i] = Append(es, Encoded[p])[i]
  <2> TAKE i \in 1 .. n + 1
  <2>1. EncodedSeq(longer)[i] = Encoded[longer[i]]
    BY <1>1, <1>3
  <2>2. i \in 1 .. n \/ i = n + 1
    BY <1>1
  <2> QED
    BY <1>1, <1>2, <1>5, <2>1, <2>2
<1>7. EncodedSeq(longer) = Append(es, Encoded[p])
  BY <1>1, <1>3, <1>5, <1>6, SeqEqual
<1> QED
  BY <1>1, <1>2, <1>4, <1>7, FlattenAppend DEF Stream, es, longer

\* The packets after the first k.
Suffix(ws, k) == SubSeq(ws, k + 1, Len(ws))

\* After all of them there are none, and no bytes.
LEMMA SuffixLast ==
    ASSUME NEW ws \in Seq(Sendable)
    PROVE  Suffix(ws, Len(ws)) = <<>> /\ Stream(Suffix(ws, Len(ws))) = <<>>
<1>1. Len(ws) \in Nat
  BY LenProperties
<1>2. Len(ws) + 1 \in Int /\ Len(ws) \in Int /\ Len(ws) < Len(ws) + 1
  BY <1>1
<1>3. Suffix(ws, Len(ws)) = <<>>
  BY <1>2, SubSeqEmpty DEF Suffix
<1> QED
  BY <1>3, StreamEmpty

\* The packets after the first k, as a sequence.
LEMMA SuffixSeq ==
    ASSUME NEW ws \in Seq(Sendable), NEW k \in 0 .. Len(ws)
    PROVE  /\ Suffix(ws, k) \in Seq(Sendable) /\ Len(Suffix(ws, k)) = Len(ws) - k
           /\ \A i \in 1 .. Len(ws) - k : Suffix(ws, k)[i] = ws[k + i]
           /\ Stream(Suffix(ws, k)) \in Bytes
<1>1. Len(ws) \in Nat
  BY LenProperties
<1>2. \A i \in k + 1 .. Len(ws) : ws[i] \in Sendable
  <2>1. \A i \in k + 1 .. Len(ws) : i \in 1 .. Len(ws)
    BY <1>1
  <2> QED
    BY <2>1, ElementOfSeq
<1>3. k + 1 \in Int /\ Len(ws) \in Int
  BY <1>1
<1>4. /\ Suffix(ws, k) \in Seq(Sendable)
      /\ Len(Suffix(ws, k)) = IF k + 1 <= Len(ws) THEN Len(ws) - (k + 1) + 1 ELSE 0
      /\ \A i \in 1 .. Len(ws) - (k + 1) + 1 : Suffix(ws, k)[i] = ws[(k + 1) + i - 1]
  BY <1>2, <1>3, SubSeqProperties DEF Suffix
<1>5. /\ (IF k + 1 <= Len(ws) THEN Len(ws) - (k + 1) + 1 ELSE 0) = Len(ws) - k
      /\ Len(ws) - (k + 1) + 1 = Len(ws) - k /\ \A i \in 1 .. Len(ws) - k : (k + 1) + i - 1 = k + i
  BY <1>1
<1>6. \A i \in 1 .. Len(ws) - k : Suffix(ws, k)[i] = ws[k + i]
  BY <1>4, <1>5
<1> QED
  BY <1>4, <1>5, <1>6, EncodedSeqBytes

\* A packet that is written is the last of those after the first k.
LEMMA SuffixAppend ==
    ASSUME NEW ws \in Seq(Sendable), NEW k \in 0 .. Len(ws), NEW p \in Sendable
    PROVE  Suffix(Append(ws, p), k) = Append(Suffix(ws, k), p)
<1> DEFINE longer == Append(ws, p)
           n == Len(ws)
           s == Suffix(ws, k)
           t == Suffix(longer, k)
<1>1. /\ longer \in Seq(Sendable) /\ Len(longer) = n + 1 /\ n \in Nat
      /\ \A i \in 1 .. n : longer[i] = ws[i]
      /\ longer[n + 1] = p
  BY AppendProperties, LenProperties
<1>2. s \in Seq(Sendable) /\ Len(s) = n - k /\ \A i \in 1 .. n - k : s[i] = ws[k + i]
  BY SuffixSeq
<1>3. k \in Nat /\ k <= n
  BY <1>1
<1> HIDE DEF n, longer
<1>4. t \in Seq(Sendable) /\ Len(t) = n + 1 - k /\ \A i \in 1 .. n + 1 - k : t[i] = longer[k + i]
  <2>1. k \in 0 .. Len(longer) /\ Len(longer) - k = n + 1 - k
    BY <1>1, <1>3
  <2> HIDE DEF t
  <2>2. /\ t \in Seq(Sendable) /\ Len(t) = Len(longer) - k
        /\ \A i \in 1 .. Len(longer) - k : t[i] = longer[k + i]
    BY <1>1, <2>1, SuffixSeq DEF t
  <2> QED
    BY <2>1, <2>2
<1> HIDE DEF s, t
<1>5. /\ Append(s, p) \in Seq(Sendable) /\ Len(Append(s, p)) = Len(s) + 1
      /\ \A i \in 1 .. Len(s) : Append(s, p)[i] = s[i]
      /\ Append(s, p)[Len(s) + 1] = p
  BY <1>2, AppendProperties
<1>6. Len(Append(s, p)) = Len(t)
  BY <1>1, <1>2, <1>3, <1>4, <1>5
<1>7. ASSUME NEW i \in 1 .. Len(t) PROVE t[i] = Append(s, p)[i]
  <2>1. i \in 1 .. n + 1 - k /\ t[i] = longer[k + i]
    BY <1>4
  <2>2. CASE i \in 1 .. n - k
    <3>1. k + i \in 1 .. n
      BY <1>1, <1>3, <2>2
    <3>2. longer[k + i] = s[i]
      BY <1>1, <1>2, <2>2, <3>1
    <3>3. Append(s, p)[i] = s[i]
      BY <1>2, <1>5, <2>2
    <3> QED
      BY <2>1, <3>2, <3>3
  <2>3. CASE i = n + 1 - k
    <3>1. k + i = n + 1 /\ i = Len(s) + 1
      BY <1>1, <1>2, <1>3, <2>3
    <3> QED
      BY <1>1, <1>5, <2>1, <3>1
  <2>4. i \in 1 .. n - k \/ i = n + 1 - k
    <3>1. n \in Nat /\ i \in 1 .. n + 1 - k
      BY <1>1, <2>1
    <3> QED
      BY <1>3, <3>1
  <2> QED
    BY <2>2, <2>3, <2>4
<1>8. t = Append(s, p)
  BY <1>4, <1>5, <1>6, <1>7, SeqEqual
<1> QED
  BY <1>8 DEF s, t, longer

\* The first of them is the next packet.
LEMMA SuffixFirst ==
    ASSUME NEW ws \in Seq(Sendable), NEW k \in Nat, k < Len(ws)
    PROVE  /\ ws[k + 1] \in Sendable
           /\ Suffix(ws, k) \in Seq(Sendable) /\ Suffix(ws, k) # <<>> /\ Suffix(ws, k)[1] = ws[k + 1]
           /\ Stream(Suffix(ws, k)) = Encoded[ws[k + 1]] \o Stream(Suffix(ws, k + 1))
<1>1. /\ Len(ws) \in Nat /\ k \in 0 .. Len(ws) /\ k + 1 \in 1 .. Len(ws) /\ Len(ws) \in k + 1 .. Len(ws)
      /\ Len(ws) - k # 0 /\ k + 1 \in Int /\ Len(ws) \in Int /\ (k + 1) + 1 - 1 = k + 1
      /\ 1 \in 1 .. Len(ws) - (k + 1) + 1
  BY LenProperties
<1>2. ws[k + 1] \in Sendable
  BY <1>1, ElementOfSeq
<1>3. Suffix(ws, k) \in Seq(Sendable) /\ Len(Suffix(ws, k)) = Len(ws) - k
  BY <1>1, SuffixSeq
<1>4. Suffix(ws, k) # <<>>
  BY <1>1, <1>3, EmptySeq
<1>5. \A i \in k + 1 .. Len(ws) : ws[i] \in Sendable
  <2>1. \A i \in k + 1 .. Len(ws) : i \in 1 .. Len(ws)
    BY <1>1
  <2> QED
    BY <2>1, ElementOfSeq
<1>6. Suffix(ws, k)[1] = ws[(k + 1) + 1 - 1]
  BY <1>1, <1>5, SubSeqProperties DEF Suffix
<1>7. Tail(Suffix(ws, k)) = Suffix(ws, k + 1)
  BY <1>1, HeadTailOfSubSeq DEF Suffix
<1> QED
  BY <1>1, <1>2, <1>3, <1>4, <1>6, <1>7, StreamFirst

\* Two stretches of a sequence in a row.
LEMMA Consecutive ==
    ASSUME NEW e, NEW k \in Nat, NEW a \in 0 .. k
    PROVE  [i \in 1 .. a |-> e[i]] \o [x \in 1 .. k - a |-> e[a + x]] = [i \in 1 .. k |-> e[i]]
<1> DEFINE S == {e[i] : i \in 1 .. k}
           s == [i \in 1 .. a |-> e[i]]
           t == [x \in 1 .. k - a |-> e[a + x]]
           w == [i \in 1 .. k |-> e[i]]
<1>1. \A i \in 1 .. k : e[i] \in S
  OBVIOUS
<1> HIDE DEF S
<1>2. a \in Nat /\ k - a \in Nat /\ a + (k - a) = k
  OBVIOUS
<1>3. s \in Seq(S) /\ Len(s) = a
  <2>1. \A i \in 1 .. a : i \in 1 .. k
    OBVIOUS
  <2>2. s \in [1 .. a -> S]
    BY <1>1, <2>1
  <2> QED
    BY <1>2, <2>2
<1>4. t \in Seq(S) /\ Len(t) = k - a
  <2>1. \A x \in 1 .. k - a : a + x \in 1 .. k
    OBVIOUS
  <2>2. t \in [1 .. k - a -> S]
    BY <1>1, <2>1
  <2> QED
    BY <1>2, <2>2
<1>5. w \in Seq(S) /\ Len(w) = k
  <2>1. w \in [1 .. k -> S]
    BY <1>1
  <2> QED
    BY <2>1
<1>6. \A i \in 1 .. a : s[i] = e[i]
  OBVIOUS
<1>7. \A x \in 1 .. k - a : t[x] = e[a + x]
  OBVIOUS
<1>8. \A i \in 1 .. k : w[i] = e[i]
  OBVIOUS
<1> HIDE DEF s, t, w
<1>9. /\ s \o t \in Seq(S) /\ Len(s \o t) = Len(s) + Len(t)
      /\ \A i \in 1 .. Len(s) + Len(t) : (s \o t)[i] = IF i <= Len(s) THEN s[i] ELSE t[i - Len(s)]
  BY <1>3, <1>4, ConcatProperties
<1>10. Len(s) + Len(t) = k
  BY <1>2, <1>3, <1>4
<1>11. ASSUME NEW i \in 1 .. k PROVE (s \o t)[i] = w[i]
  <2>1. (s \o t)[i] = IF i <= a THEN s[i] ELSE t[i - a]
    BY <1>3, <1>9, <1>10
  <2>2. CASE i <= a
    BY <1>6, <1>8, <2>1, <2>2
  <2>3. CASE ~(i <= a)
    <3>1. i - a \in 1 .. k - a /\ a + (i - a) = i
      BY <2>3
    <3> QED
      BY <1>7, <1>8, <2>1, <2>3, <3>1
  <2> QED
    BY <2>2, <2>3
<1>12. s \o t = w
  BY <1>5, <1>9, <1>10, <1>11, SeqEqual
<1> QED
  BY <1>12 DEF s, t, w

\* r is s and then t.
IsConcat(r, s, t) == r = s \o t

\* What is in a buffer at i is what the rest from i on starts with.
LEMMA AtSplit ==
    ASSUME NEW buf \in Bytes, NEW m \in Nat, Len(buf) = m, NEW i \in 1 .. m + 1,
           NEW s \in Bytes, NEW n \in Nat, Len(s) = n, At(buf, i, s)
    PROVE  /\ i + n \in 1 .. m + 1 /\ SubSeq(buf, i + n, m) \in Bytes
           /\ IsConcat(SubSeq(buf, i, m), s, SubSeq(buf, i + n, m))
<1>1. i + n - 1 <= m
  BY DEF At
<1>2. i + n \in 1 .. m + 1 /\ i + n - 1 \in i - 1 .. m /\ m \in i + n - 1 .. m /\ (i + n - 1) + 1 = i + n
      /\ i \in Nat \ {0}
  BY <1>1
<1>3. SubSeq(buf, i, i + n - 1) = s
  BY <1>2, AtSubSeq
<1>4. SubSeq(buf, i, i + n - 1) \o SubSeq(buf, (i + n - 1) + 1, m) = SubSeq(buf, i, m)
  BY <1>2, ConcatAdjacentSubSeq DEF Bytes
<1>5. SubSeq(buf, i + n, m) \in Bytes
  <2>1. \A j \in i + n .. m : j \in 1 .. m
    BY <1>2
  <2>2. \A j \in i + n .. m : buf[j] \in Byte
    BY <2>1, ElementOfSeq DEF Bytes
  <2>3. i + n \in Int /\ m \in Int
    BY <1>2
  <2> QED
    BY <2>2, <2>3, SubSeqProperties DEF Bytes
<1> QED
  BY <1>2, <1>3, <1>4, <1>5 DEF IsConcat

\* What the rest of a buffer and the bytes to come begin with is in the buffer as far as that goes.
LEMMA AtBuffer ==
    ASSUME NEW buf \in Bytes, NEW m \in Nat, Len(buf) = m, NEW i \in 1 .. m + 1, NEW u \in Bytes,
           NEW j \in Nat \ {0}, NEW s \in Bytes, NEW n \in Nat, Len(s) = n,
           At(SubSeq(buf, i, m) \o u, j, s), j + n - 1 <= m + 1 - i
    PROVE  At(buf, i + j - 1, s)
<1> DEFINE rest == SubSeq(buf, i, m)
<1>1. \A x \in i .. m : buf[x] \in Byte
  <2>1. \A x \in i .. m : x \in 1 .. m
    OBVIOUS
  <2> QED
    BY <2>1, ElementOfSeq DEF Bytes
<1>2. i \in Int /\ m \in Int
  OBVIOUS
<1>3. /\ rest \in Seq(Byte) /\ Len(rest) = IF i <= m THEN m - i + 1 ELSE 0
      /\ \A x \in 1 .. m - i + 1 : rest[x] = buf[i + x - 1]
  BY <1>1, <1>2, SubSeqProperties
<1> HIDE DEF rest
<1>4. Len(rest) = m + 1 - i /\ Len(u) \in Nat
  BY <1>3, LenProperties DEF Bytes
<1>5. \A x \in 1 .. Len(rest) + Len(u) : (rest \o u)[x] = IF x <= Len(rest) THEN rest[x] ELSE u[x - Len(rest)]
  BY <1>3, ConcatProperties DEF Bytes
<1>6. \A x \in 1 .. m + 1 - i : (rest \o u)[x] = buf[i + x - 1]
  <2> TAKE x \in 1 .. m + 1 - i
  <2>1. x \in 1 .. Len(rest) + Len(u) /\ x <= Len(rest) /\ x \in 1 .. m - i + 1
    BY <1>4
  <2> QED
    BY <1>3, <1>5, <2>1
<1>7. \A x \in 1 .. n : (rest \o u)[j + x - 1] = s[x]
  BY DEF At, rest
<1>8. \A x \in 1 .. n : buf[i + j - 1 + x - 1] = s[x]
  <2> TAKE x \in 1 .. n
  <2>1. j + x - 1 \in 1 .. m + 1 - i /\ i + (j + x - 1) - 1 = i + j - 1 + x - 1
    OBVIOUS
  <2> QED
    BY <1>6, <1>7, <2>1
<1>9. i + j - 1 + n - 1 <= m
  OBVIOUS
<1> QED
  BY <1>8, <1>9 DEF At

\* What the loop makes of the bytes after the first j packets: it cuts out the packets up to the
\* k-th, and what it leaves, with the bytes u to come, starts with the next packet, which is over
\* the limit or not there as a whole.
Cuts(c, ws, j, k, u) ==
    /\ k \in j .. Len(ws)
    /\ c = [packets |-> [x \in 1 .. k - j |-> Inner(ws[j + x])], rest |-> c.rest, stop |-> c.stop]
    /\ c.rest \in Bytes /\ IsConcat(Stream(Suffix(ws, k)), c.rest, u) /\ c.stop \in BOOLEAN
    /\ c.stop => k < Len(ws) /\ Len(Inner(ws[k + 1])) > MaxPacketSize
    /\ ~c.stop /\ k < Len(ws) => Len(c.rest) < Len(Encoded[ws[k + 1]])

\* Where it leaves everything.
LEMMA CutsNothing ==
    ASSUME NEW ws, NEW l \in Nat, Len(ws) = l, NEW j \in 0 .. l, NEW u, NEW rest \in Bytes, NEW b \in BOOLEAN,
           IsConcat(Stream(Suffix(ws, j)), rest, u),
           b => j < l /\ Len(Inner(ws[j + 1])) > MaxPacketSize,
           ~b /\ j < l => Len(rest) < Len(Encoded[ws[j + 1]])
    PROVE  \E k \in j .. l : Cuts([packets |-> <<>>, rest |-> rest, stop |-> b], ws, j, k, u)
<1> DEFINE c == [packets |-> <<>>, rest |-> rest, stop |-> b]
<1>1. j \in j .. l /\ 1 .. j - j = {}
  OBVIOUS
<1>2. [x \in 1 .. j - j |-> Inner(ws[j + x])] = <<>>
  BY <1>1
<1>3. c.rest = rest /\ c.stop = b /\ c = [packets |-> <<>>, rest |-> c.rest, stop |-> c.stop]
  OBVIOUS
<1> HIDE DEF c
<1>4. Cuts(c, ws, j, j, u)
  BY <1>1, <1>2, <1>3 DEF Cuts
<1> QED
  BY <1>1, <1>4 DEF c

\* At position i of the buffer is the next packet, of n bytes, as far as it is there.
NextAt(buf, m, i, u, ws, j, n) ==
    /\ n \in Nat /\ n >= 4 /\ Len(Encoded[ws[j + 1]]) = n + 4 /\ Inner(ws[j + 1]) \in Bytes
    /\ SubSeq(buf, i, m) \in Bytes /\ Len(SubSeq(buf, i, m)) = m + 1 - i
    /\ m + 1 - i >= 4 => Number(SubSeq(buf, i, i + 3)) = n
    /\ m + 1 - i >= 4 + n =>
         /\ At(buf, i + 4, Inner(ws[j + 1]))
         /\ i + 4 + n \in 1 .. m + 1
         /\ IsConcat(Stream(Suffix(ws, j + 1)), SubSeq(buf, i + 4 + n, m), u)

\* It is there where the buffer and the bytes to come are the packets after the first j.
LEMMA NextPacket ==
    ASSUME NEW buf \in Bytes, NEW m \in Nat, Len(buf) = m, NEW i \in 1 .. m + 1, NEW u \in Bytes,
           NEW ws \in Seq(Sendable), NEW j \in Nat, j < Len(ws),
           IsConcat(Stream(Suffix(ws, j)), SubSeq(buf, i, m), u),
           NEW n, n = Len(Inner(ws[j + 1]))
    PROVE  NextAt(buf, m, i, u, ws, j, n)
<1> DEFINE p == ws[j + 1]
           e == Encoded[p]
           b == BigEndian(n, 4)
           t == Stream(Suffix(ws, j + 1))
           rest == SubSeq(buf, i, m)
<1>1. p \in Sendable /\ rest \o u = e \o t
  BY SuffixFirst DEF IsConcat
<1>2. /\ Inner(p) \in Bytes /\ Len(Inner(p)) = Len(SerializePacket(p)) + 4 /\ SerializePacket(p) \in Bytes
      /\ b \in Bytes /\ Len(b) = 4 /\ Number(b) = n
      /\ e = b \o Inner(p) /\ e \in Bytes /\ Len(e) = n + 4
  <2> HIDE DEF p
  <2>1. n = Len(Inner(p))
    BY DEF p
  <2> QED
    BY <1>1, <2>1, SendableBytes
<1>3. n \in Nat /\ n >= 4
  <2>1. Len(SerializePacket(p)) \in Nat
    BY <1>2, LenProperties DEF Bytes
  <2> HIDE DEF p
  <2>2. n = Len(SerializePacket(p)) + 4
    BY <1>2 DEF p
  <2> QED
    BY <2>1, <2>2
<1>4. t \in Bytes
  <2>1. j + 1 \in 0 .. Len(ws)
    BY LenProperties
  <2> QED
    BY <2>1, SuffixSeq
<1>5. rest \in Bytes /\ Len(rest) = m + 1 - i
  <2>1. \A x \in i .. m : buf[x] \in Byte
    <3>1. \A x \in i .. m : x \in 1 .. m
      OBVIOUS
    <3> QED
      BY <3>1, ElementOfSeq DEF Bytes
  <2>2. i \in Int /\ m \in Int
    OBVIOUS
  <2>3. rest \in Seq(Byte) /\ Len(rest) = IF i <= m THEN m - i + 1 ELSE 0
    BY <2>1, <2>2, SubSeqProperties
  <2> HIDE DEF rest
  <2>4. Len(rest) = m + 1 - i
    BY <2>3
  <2> QED
    BY <2>3, <2>4 DEF Bytes
<1>6. /\ \A q \in Nat \ {0}, s \in Bytes, x \in Nat :
            Len(s) = x /\ At(rest \o u, q, s) /\ q + x - 1 <= m + 1 - i => At(buf, i + q - 1, s)
      /\ \A s \in Bytes, x \in Nat :
            Len(s) = x /\ At(buf, i, s) =>
                /\ i + x \in 1 .. m + 1 /\ SubSeq(buf, i + x, m) \in Bytes
                /\ IsConcat(rest, s, SubSeq(buf, i + x, m))
  <2>1. \A q \in Nat \ {0}, s \in Bytes, x \in Nat :
           Len(s) = x /\ At(rest \o u, q, s) /\ q + x - 1 <= m + 1 - i => At(buf, i + q - 1, s)
    BY AtBuffer
  <2>2. ASSUME NEW s \in Bytes, NEW x \in Nat, Len(s) = x, At(buf, i, s)
        PROVE  /\ i + x \in 1 .. m + 1 /\ SubSeq(buf, i + x, m) \in Bytes
               /\ IsConcat(rest, s, SubSeq(buf, i + x, m))
    BY <2>2, AtSplit
  <2> HIDE DEF rest
  <2> QED
    BY <2>1, <2>2
<1> HIDE DEF b, t, rest, e, p
<1>7. At(rest \o u, 1, e) /\ At(rest \o u, 1, b) /\ At(rest \o u, 5, Inner(p))
  <2>1. rest \o u \in Bytes
    BY <1>5, ConcatBytes
  <2>2. At(rest \o u, 1, e \o t)
    BY <1>1, <2>1, AtItself
  <2>3. At(rest \o u, 1, e)
    BY <1>2, <1>4, <2>1, <2>2, AtConcat
  <2>4. At(rest \o u, 1, b) /\ At(rest \o u, 1 + Len(b), Inner(p))
    BY <1>2, <2>1, <2>3, AtConcat
  <2>5. 1 + Len(b) = 5
    BY <1>2
  <2> QED
    BY <2>3, <2>4, <2>5
<1>8. ASSUME m + 1 - i >= 4 PROVE Number(SubSeq(buf, i, i + 3)) = n
  <2>1. 1 + 4 - 1 <= m + 1 - i /\ i + 1 - 1 = i /\ i + 4 - 1 = i + 3 /\ i \in Nat \ {0}
    BY <1>8
  <2>2. At(buf, i + 1 - 1, b)
    <3>1. 1 + Len(b) - 1 <= m + 1 - i /\ Len(b) \in Nat /\ 1 \in Nat \ {0}
      BY <1>2, <1>8
    <3> QED
      BY <1>2, <1>6, <1>7, <3>1
  <2>3. SubSeq(buf, i, i + 4 - 1) = b
    BY <1>2, <2>1, <2>2, AtSubSeq
  <2> QED
    BY <1>2, <2>1, <2>3
<1>9. ASSUME m + 1 - i >= 4 + n
      PROVE  /\ At(buf, i + 4, Inner(p))
             /\ i + 4 + n \in 1 .. m + 1 /\ SubSeq(buf, i + 4 + n, m) \o u = t
  <2>1. /\ 5 + n - 1 <= m + 1 - i /\ 1 + (n + 4) - 1 <= m + 1 - i
        /\ i + 5 - 1 = i + 4 /\ i + 1 - 1 = i /\ i + 4 + n - 1 = i + 3 + n /\ i + (n + 4) = i + 4 + n
        /\ i + 4 \in Nat \ {0} /\ n + 4 \in Nat
    BY <1>3, <1>9
  <2>2. At(buf, i + 5 - 1, Inner(p))
    <3>1. Len(Inner(p)) = n
      BY DEF p
    <3> QED
      BY <1>2, <1>3, <1>6, <1>7, <2>1, <3>1
  <2>3. At(buf, i + 4, Inner(p))
    BY <2>1, <2>2
  <2>4. At(buf, i + 1 - 1, e)
    <3>1. 1 + Len(e) - 1 <= m + 1 - i /\ Len(e) \in Nat /\ 1 \in Nat \ {0}
      BY <1>2, <1>3, <1>9
    <3> QED
      BY <1>2, <1>6, <1>7, <3>1
  <2>5. At(buf, i, e)
    BY <2>1, <2>4
  <2> DEFINE later == SubSeq(buf, i + (n + 4), m)
  <2>6. i + (n + 4) \in 1 .. m + 1 /\ later \in Bytes /\ rest = e \o later
    <3>1. e \in Bytes /\ n + 4 \in Nat /\ Len(e) = n + 4
      BY <1>2, <2>1
    <3>2. i + (n + 4) \in 1 .. m + 1 /\ later \in Bytes /\ IsConcat(rest, e, later)
      BY <1>6, <2>5, <3>1
    <3> QED
      BY <3>2 DEF IsConcat
  <2> HIDE DEF later
  <2>7. (e \o later) \o u = e \o (later \o u) /\ later \o u \in Bytes
    <3>1. e \in Bytes /\ later \in Bytes
      BY <1>2, <2>6
    <3>2. (e \o later) \o u = e \o (later \o u)
      BY <3>1, Associative
    <3> QED
      BY <3>1, <3>2, ConcatBytes
  <2>8. e \o (later \o u) = e \o t
    BY <1>1, <2>6, <2>7
  <2>9. later \o u = t
    BY <1>2, <1>4, <2>7, <2>8, ConcatSimplifications DEF Bytes
  <2> QED
    BY <2>1, <2>3, <2>6, <2>9 DEF later
<1> QED
  BY <1>2, <1>3, <1>5, <1>8, <1>9 DEF NextAt, IsConcat, e, p, t, rest

\* One round of the loop, where there are packets to come: it leaves the next packet or cuts
\* it out and goes on behind it.
LEMMA LoopStep ==
    ASSUME NEW buf \in Bytes, NEW m \in Nat, Len(buf) = m, NEW i \in 1 .. m + 1, NEW u \in Bytes,
           NEW ws \in Seq(Sendable), NEW l \in Nat, Len(ws) = l, NEW j \in Nat, j < l,
           NEW g, g[i] = Cut(g, buf, i), MaxPacketSize \in Nat,
           NEW n, n = Len(Inner(ws[j + 1])),
           IsConcat(Stream(Suffix(ws, j)), SubSeq(buf, i, m), u),
           \A x \in 1 .. m + 1 :
              IsConcat(Stream(Suffix(ws, j + 1)), SubSeq(buf, x, m), u) => \E k \in j + 1 .. l : Cuts(g[x], ws, j + 1, k, u)
    PROVE  \E k \in j .. l : Cuts(g[i], ws, j, k, u)
<1> DEFINE inner == Inner(ws[j + 1])
           rest == SubSeq(buf, i, m)
           left == m + 1 - i
           len == Number(SubSeq(buf, i, i + 3))
<1>1. /\ n \in Nat /\ n >= 4 /\ Len(Encoded[ws[j + 1]]) = n + 4
      /\ rest \in Bytes /\ Len(rest) = left
      /\ left >= 4 => len = n
      /\ left >= 4 + n => /\ SubSeq(buf, i + 4, i + 3 + n) = inner
                          /\ i + 4 + n \in 1 .. m + 1
                          /\ IsConcat(Stream(Suffix(ws, j + 1)), SubSeq(buf, i + 4 + n, m), u)
  <2>1. j < Len(ws)
    OBVIOUS
  <2>2. NextAt(buf, m, i, u, ws, j, n)
    BY <2>1, NextPacket
  <2>3. /\ n \in Nat /\ n >= 4 /\ Len(Encoded[ws[j + 1]]) = n + 4 /\ rest \in Bytes /\ Len(rest) = left
        /\ left >= 4 => len = n
    BY <2>2 DEF NextAt
  <2>4. ASSUME left >= 4 + n
        PROVE  /\ SubSeq(buf, i + 4, i + 3 + n) = inner
               /\ i + 4 + n \in 1 .. m + 1
               /\ IsConcat(Stream(Suffix(ws, j + 1)), SubSeq(buf, i + 4 + n, m), u)
    <3>1. /\ At(buf, i + 4, inner) /\ inner \in Bytes /\ i + 4 + n \in 1 .. m + 1
          /\ IsConcat(Stream(Suffix(ws, j + 1)), SubSeq(buf, i + 4 + n, m), u)
      BY <2>2, <2>4 DEF NextAt
    <3>2. Len(inner) = n /\ i + 4 + n - 1 = i + 3 + n /\ i + 4 \in Nat \ {0}
      BY <2>3
    <3> HIDE DEF inner
    <3>3. SubSeq(buf, i + 4, i + 4 + Len(inner) - 1) = inner
      BY <3>1, <3>2, AtSubSeq
    <3> QED
      BY <3>1, <3>2, <3>3
  <2> HIDE DEF rest, left, len, inner
  <2> QED
    BY <2>3, <2>4
<1>2. IsConcat(Stream(Suffix(ws, j)), rest, u) /\ j \in 0 .. l
  OBVIOUS
<1>3. left \in Int
  OBVIOUS
<1>4. g[i] = CASE left < 4 -> [packets |-> <<>>, rest |-> rest, stop |-> FALSE]
               [] left >= 4 /\ len = 0 -> g[i + 4]
               [] left >= 4 /\ len > MaxPacketSize -> [packets |-> <<>>, rest |-> rest, stop |-> TRUE]
               [] left >= 4 /\ len \in 1 .. MaxPacketSize /\ left < 4 + len ->
                     [packets |-> <<>>, rest |-> rest, stop |-> FALSE]
               [] OTHER -> [g[i + 4 + len] EXCEPT !.packets = <<SubSeq(buf, i + 4, i + 3 + len)>> \o @]
  BY DEF Cut
<1> HIDE DEF len, left, rest
<1>5. CASE left < 4 \/ (left >= 4 /\ n <= MaxPacketSize /\ left < 4 + n)
  <2>1. g[i] = [packets |-> <<>>, rest |-> rest, stop |-> FALSE]
    <3>1. CASE left < 4
      <4>1. ~(left >= 4)
        BY <1>3, <3>1
      <4> QED
        BY <1>4, <3>1, <4>1
    <3>2. CASE left >= 4
      <4>1. len = n /\ len # 0 /\ ~(len > MaxPacketSize) /\ len \in 1 .. MaxPacketSize /\ left < 4 + len /\ ~(left < 4)
        BY <1>1, <1>3, <1>5, <3>2
      <4> QED
        BY <1>4, <3>2, <4>1
    <3> QED
      BY <1>3, <3>1, <3>2
  <2>2. left < n + 4
    BY <1>1, <1>3, <1>5
  <2>3. Len(rest) < Len(Encoded[ws[j + 1]])
    BY <1>1, <2>2
  <2>4. \E k \in j .. l : Cuts([packets |-> <<>>, rest |-> rest, stop |-> FALSE], ws, j, k, u)
    BY <1>1, <1>2, <2>3, CutsNothing
  <2> QED
    BY <2>1, <2>4
<1>6. CASE left >= 4 /\ n > MaxPacketSize
  <2>1. g[i] = [packets |-> <<>>, rest |-> rest, stop |-> TRUE]
    BY <1>1, <1>3, <1>4, <1>6
  <2>2. Len(Inner(ws[j + 1])) > MaxPacketSize
    BY <1>6
  <2>3. \E k \in j .. l : Cuts([packets |-> <<>>, rest |-> rest, stop |-> TRUE], ws, j, k, u)
    BY <1>1, <1>2, <2>2, CutsNothing
  <2> QED
    BY <2>1, <2>3
<1>7. CASE left >= 4 + n /\ n <= MaxPacketSize
  <2> DEFINE c == g[i + 4 + n]
  <2>1. left >= 4 /\ len = n /\ SubSeq(buf, i + 4, i + 3 + n) = inner
    BY <1>1, <1>3, <1>7
  <2> HIDE DEF inner
  <2>2. g[i] = [c EXCEPT !.packets = <<inner>> \o @]
    <3>1. ~(left < 4) /\ len # 0 /\ ~(len > MaxPacketSize) /\ ~(left < 4 + len)
      <4>1. n \in Nat /\ n >= 4
        BY <1>1
      <4>2. ~(left < 4) /\ n # 0 /\ ~(n > MaxPacketSize) /\ ~(left < 4 + n)
        BY <1>3, <1>7, <4>1
      <4> QED
        BY <2>1, <4>2
    <3>2. g[i] = [g[i + 4 + len] EXCEPT !.packets = <<SubSeq(buf, i + 4, i + 3 + len)>> \o @]
      BY <1>4, <3>1
    <3> QED
      BY <2>1, <3>2
  <2>3. PICK k \in j + 1 .. l : Cuts(c, ws, j + 1, k, u)
    BY <1>1, <1>7
  <2> HIDE DEF c
  <2> DEFINE e == [x \in 1 .. k - j |-> Inner(ws[j + x])]
             later == [x \in 1 .. k - (j + 1) |-> Inner(ws[(j + 1) + x])]
  <2>4. /\ c = [packets |-> later, rest |-> c.rest, stop |-> c.stop] /\ k \in j + 1 .. Len(ws)
        /\ c.rest \in Bytes /\ IsConcat(Stream(Suffix(ws, k)), c.rest, u) /\ c.stop \in BOOLEAN
        /\ c.stop => k < Len(ws) /\ Len(Inner(ws[k + 1])) > MaxPacketSize
        /\ ~c.stop /\ k < Len(ws) => Len(c.rest) < Len(Encoded[ws[k + 1]])
    BY <2>3 DEF Cuts
  <2>5. <<inner>> \o later = e
    <3>1. k - j \in Nat /\ 1 \in 0 .. k - j /\ (k - j) - 1 = k - (j + 1)
      OBVIOUS
    <3>2. \A x \in 1 .. k - (j + 1) : 1 + x \in 1 .. k - j /\ j + (1 + x) = (j + 1) + x
      OBVIOUS
    <3>3. later = [x \in 1 .. (k - j) - 1 |-> e[1 + x]]
      <4>1. \A x \in 1 .. k - (j + 1) : e[1 + x] = Inner(ws[(j + 1) + x])
        BY <3>2
      <4> HIDE DEF e
      <4> QED
        BY <3>1, <4>1
    <3>4. <<inner>> = [x \in 1 .. 1 |-> e[x]]
      <4>1. e[1] = inner
        BY <3>1 DEF inner
      <4> HIDE DEF e
      <4> QED
        BY <4>1
    <3>5. e = [x \in 1 .. k - j |-> e[x]]
      OBVIOUS
    <3> HIDE DEF e, later
    <3>6. [x \in 1 .. 1 |-> e[x]] \o [x \in 1 .. (k - j) - 1 |-> e[1 + x]] = [x \in 1 .. k - j |-> e[x]]
      BY <3>1, Consecutive
    <3> QED
      BY <3>3, <3>4, <3>5, <3>6
  <2> HIDE DEF e, later
  <2>6. /\ g[i] = [packets |-> e, rest |-> c.rest, stop |-> c.stop]
        /\ g[i].rest = c.rest /\ g[i].stop = c.stop
    <3> DEFINE front == <<inner>>
    <3> HIDE DEF front
    <3>1. \A d, a, r, b, z : d = [packets |-> a, rest |-> r, stop |-> b] =>
             d.packets = a /\ [d EXCEPT !.packets = z] = [packets |-> z, rest |-> r, stop |-> b]
      OBVIOUS
    <3>2. c.packets = later
      BY <2>4, <3>1
    <3> DEFINE new == front \o c.packets
    <3> HIDE DEF new
    <3>3. [c EXCEPT !.packets = new] = [packets |-> new, rest |-> c.rest, stop |-> c.stop]
      BY <2>4, <3>1
    <3>4. g[i] = [packets |-> e, rest |-> c.rest, stop |-> c.stop]
      BY <2>2, <2>5, <3>2, <3>3 DEF front, new
    <3> QED
      BY <3>4
  <2>7. k \in j .. l /\ k \in j .. Len(ws)
    OBVIOUS
  <2>8. Cuts(g[i], ws, j, k, u)
    BY <2>4, <2>6, <2>7 DEF Cuts, e
  <2> QED
    BY <2>7, <2>8
<1>8. left < 4 \/ (left >= 4 /\ n <= MaxPacketSize /\ left < 4 + n) \/ (left >= 4 /\ n > MaxPacketSize)
        \/ (left >= 4 + n /\ n <= MaxPacketSize)
  BY <1>1, <1>3
<1> QED
  BY <1>5, <1>6, <1>7, <1>8

\* After the last packet nothing is left, and the loop ends.
LEMMA LoopEnd ==
    ASSUME NEW buf \in Bytes, NEW m \in Nat, Len(buf) = m, NEW i \in 1 .. m + 1, NEW u \in Bytes,
           NEW ws \in Seq(Sendable), NEW l \in Nat, Len(ws) = l, NEW g, g[i] = Cut(g, buf, i),
           IsConcat(Stream(Suffix(ws, l)), SubSeq(buf, i, m), u)
    PROVE  \E k \in l .. l : Cuts(g[i], ws, l, k, u)
<1> DEFINE rest == SubSeq(buf, i, m)
           left == m + 1 - i
<1>1. \A x \in i .. m : buf[x] \in Byte
  <2>1. \A x \in i .. m : x \in 1 .. m
    OBVIOUS
  <2> QED
    BY <2>1, ElementOfSeq DEF Bytes
<1>2. i \in Int /\ m \in Int /\ (IF i <= m THEN m - i + 1 ELSE 0) = left /\ left \in Int
  OBVIOUS
<1>3. rest \in Bytes /\ Len(rest) = left
  BY <1>1, <1>2, SubSeqProperties DEF Bytes
<1>4. Stream(Suffix(ws, l)) = <<>>
  BY SuffixLast
<1>5. rest = <<>>
  <2>1. rest \o u = <<>>
    BY <1>4 DEF IsConcat
  <2> HIDE DEF rest
  <2> QED
    BY <1>3, <2>1, ConcatSimplifications DEF Bytes
<1>6. left < 4 /\ ~(left >= 4)
  <2>1. Len(rest) = 0
    BY <1>5, EmptySeq
  <2> HIDE DEF left, rest
  <2> QED
    BY <1>2, <1>3, <2>1
<1>7. g[i] = [packets |-> <<>>, rest |-> rest, stop |-> FALSE]
  BY <1>6 DEF Cut
<1> HIDE DEF rest, left
<1>8. IsConcat(Stream(Suffix(ws, l)), rest, u) /\ l \in 0 .. l /\ ~(l < l)
  BY DEF rest
<1>9. \E k \in l .. l : Cuts([packets |-> <<>>, rest |-> rest, stop |-> FALSE], ws, l, k, u)
  BY <1>3, <1>8, CutsNothing
<1> QED
  BY <1>7, <1>9

\* The whole loop, over a buffer that starts after the first j packets.
LEMMA LoopInStep ==
    ASSUME NEW buf \in Bytes, NEW u \in Bytes, NEW ws \in Seq(Sendable), NEW j \in 0 .. Len(ws),
           IsConcat(Stream(Suffix(ws, j)), buf, u)
    PROVE  \E k \in j .. Len(ws) : Cuts(CutPackets(buf), ws, j, k, u)
<1> DEFINE m == Len(buf)
           l == Len(ws)
           g == CutFrom(buf)
           Good(d) == \A i \in 1 .. m + 1 :
                         IsConcat(Stream(Suffix(ws, l - d)), SubSeq(buf, i, m), u) =>
                             \E k \in l - d .. l : Cuts(g[i], ws, l - d, k, u)
           G == {d \in 0 .. l : Good(d)}
<1>1. m \in Nat /\ l \in Nat /\ m = Len(buf) /\ l = Len(ws)
  BY LenProperties DEF Bytes
<1>2. MaxPacketSize \in Nat
  BY WireConstants
<1>3. \A i \in 1 .. m + 1 : g[i] = Cut(g, buf, i)
  BY <1>1, <1>2, CutDef
<1> HIDE DEF m, l, g
<1>4. 0 \in G
  <2>1. l - 0 = l /\ 0 \in 0 .. l
    BY <1>1
  <2>2. ASSUME NEW i \in 1 .. m + 1, IsConcat(Stream(Suffix(ws, l)), SubSeq(buf, i, m), u)
        PROVE  \E k \in l .. l : Cuts(g[i], ws, l, k, u)
    BY <1>1, <1>3, <2>2, LoopEnd
  <2>3. Good(0)
    BY <2>1, <2>2
  <2> QED
    BY <2>1, <2>3
<1>5. ASSUME NEW d \in 0 .. l - 1, Good(d) PROVE Good(d + 1)
  <2> DEFINE a == l - (d + 1)
  <2>1. a \in Nat /\ a < l /\ a + 1 = l - d
    BY <1>1
  <2>2. \A x \in 1 .. m + 1 :
           IsConcat(Stream(Suffix(ws, a + 1)), SubSeq(buf, x, m), u) =>
               \E k \in a + 1 .. l : Cuts(g[x], ws, a + 1, k, u)
    BY <1>5, <2>1
  <2> HIDE DEF a
  <2>3. ASSUME NEW i \in 1 .. m + 1, IsConcat(Stream(Suffix(ws, a)), SubSeq(buf, i, m), u)
        PROVE  \E k \in a .. l : Cuts(g[i], ws, a, k, u)
    <3>1. g[i] = Cut(g, buf, i)
      BY <1>3
    <3> QED
      BY <1>1, <1>2, <2>1, <2>2, <2>3, <3>1, LoopStep
  <2> QED
    BY <2>3 DEF a
<1>6. \A d \in 0 .. l - 1 : d \in G => d + 1 \in G
  <2>1. \A d \in 0 .. l - 1 : d + 1 \in 0 .. l
    BY <1>1
  <2> HIDE DEF Good
  <2> QED
    BY <1>5, <2>1
<1> HIDE DEF G
<1>7. \A d \in 0 .. l : d \in G
  BY <1>1, <1>4, <1>6, Induction
<1>8. Good(l - j)
  <2>1. l - j \in 0 .. l
    BY <1>1
  <2> HIDE DEF Good
  <2> QED
    BY <1>7, <2>1 DEF G
<1>9. l - (l - j) = j /\ 1 \in 1 .. m + 1
  BY <1>1
<1>10. SubSeq(buf, 1, m) = buf
  BY <1>1, SubSeqFull DEF Bytes
<1>11. IsConcat(Stream(Suffix(ws, l - (l - j))), SubSeq(buf, 1, m), u)
  BY <1>9, <1>10
<1>12. \E k \in j .. l : Cuts(g[1], ws, j, k, u)
  BY <1>8, <1>9, <1>11
<1> QED
  BY <1>12 DEF g, l, CutPackets

-----------------------------------------------------------------------------
(***************************************************************************)
(* The invariant                                                           *)
(***************************************************************************)

\* What is pushed of a packet.
Received(p) == DeserializePacket(Inner(p))

\* The running reader stands after the packets it has pushed, before one it has not as a whole.
RunningInStep ==
    reader = "running" =>
        /\ IsConcat(Stream(Suffix(written, Len(pushed))), readBuffer, unread)
        /\ Len(pushed) < Len(written) => Len(readBuffer) < Len(Encoded[written[Len(pushed) + 1]])

\* It has stopped before a packet over the limit.
StoppedBefore ==
    reader = "stopped" =>
        Len(pushed) < Len(written) /\ Len(Inner(written[Len(pushed) + 1])) > MaxPacketSize

\* The types, what was pushed, and where the reader stands.
WireInv ==
    /\ written \in Seq(Sendable) /\ Len(pushed) \in 0 .. Len(written)
    /\ pushed = [i \in 1 .. Len(pushed) |-> Received(written[i])]
    /\ unread \in Bytes /\ readBuffer \in Bytes
    /\ reader \in {"running", "stopped"} /\ streams \in 1 .. MaxStreams
    /\ RunningInStep /\ StoppedBefore

\* A stream without packets satisfies it.
LEMMA EmptyStream ==
    IsConcat(Stream(Suffix(<<>>, 0)), <<>>, <<>>) /\ <<>> \in Bytes /\ <<>> \in Seq(Sendable)
<1>1. <<>> \in Bytes /\ <<>> \in Seq(Sendable) /\ Len(<<>>) = 0
  BY EmptySeq DEF Bytes
<1>2. Stream(Suffix(<<>>, 0)) = <<>>
  BY <1>1, SuffixLast
<1>3. <<>> \o <<>> = <<>>
  BY <1>1, ConcatEmptySeq DEF Bytes
<1> QED
  BY <1>1, <1>2, <1>3 DEF IsConcat

\* The first stream.
LEMMA WireInit == Init => WireInv
<1> SUFFICES ASSUME Init PROVE WireInv
  OBVIOUS
<1>1. /\ written = <<>> /\ pushed = <<>> /\ unread = <<>> /\ readBuffer = <<>>
      /\ reader = "running" /\ streams = 1
  BY DEF Init
<1>2. Len(pushed) = 0 /\ Len(written) = 0
  BY <1>1, EmptySeq
<1>3. pushed = [i \in 1 .. Len(pushed) |-> Received(written[i])]
  BY <1>1, <1>2
<1>4. MaxStreams \in Nat /\ MaxStreams >= 1
  BY WireConstants
<1>5. streams \in 1 .. MaxStreams /\ Len(pushed) \in 0 .. Len(written) /\ ~(Len(pushed) < Len(written))
  BY <1>1, <1>2, <1>4
<1>6. RunningInStep
  BY <1>1, <1>2, <1>5, EmptyStream DEF RunningInStep
<1>7. StoppedBefore
  BY <1>1 DEF StoppedBefore
<1> QED
  BY <1>1, <1>3, <1>5, <1>6, <1>7, EmptyStream DEF WireInv

\* Writing a packet: it comes after those that wait.
LEMMA WritePacketInv ==
    ASSUME WireInv, NEW p \in Packets, WritePacket(p)
    PROVE  WireInv'
<1> DEFINE n == Len(written)
           j == Len(pushed)
<1>1. /\ p \in Sendable /\ written' = Append(written, p) /\ unread' = unread \o Encoded[p]
      /\ pushed' = pushed /\ readBuffer' = readBuffer /\ reader' = reader /\ streams' = streams
  BY DEF WritePacket
<1>2. /\ written \in Seq(Sendable) /\ n \in Nat /\ j \in 0 .. n
      /\ unread \in Bytes /\ readBuffer \in Bytes
  BY LenProperties DEF WireInv
<1>3. /\ written' \in Seq(Sendable) /\ Len(written') = n + 1
      /\ \A i \in 1 .. n : written'[i] = written[i]
      /\ written'[n + 1] = p
  BY <1>1, <1>2, AppendProperties
<1>4. Encoded[p] \in Bytes /\ Len(Encoded[p]) \in Nat /\ Len(Encoded[p]) > 0
  <2>1. Encoded[p] \in Bytes /\ Len(Encoded[p]) = Len(Inner(p)) + 4 /\ Inner(p) \in Bytes
    BY <1>1, SendableBytes
  <2>2. Len(Inner(p)) \in Nat
    BY <2>1, LenProperties DEF Bytes
  <2> QED
    BY <2>1, <2>2
<1>5. unread' \in Bytes
  BY <1>1, <1>2, <1>4, ConcatBytes
<1> HIDE DEF n
<1>6. Suffix(written', j) = Append(Suffix(written, j), p)
  BY <1>1, <1>2, SuffixAppend DEF n
<1> HIDE DEF j
<1>7. RunningInStep'
  <2> SUFFICES ASSUME reader = "running"
               PROVE  /\ IsConcat(Stream(Suffix(written', j)), readBuffer, unread')
                      /\ j < n + 1 => Len(readBuffer) < Len(Encoded[written'[j + 1]])
    BY <1>1, <1>3 DEF RunningInStep, j
  <2> DEFINE s == Suffix(written, j)
  <2>1. IsConcat(Stream(s), readBuffer, unread) /\ (j < n => Len(readBuffer) < Len(Encoded[written[j + 1]]))
    BY DEF WireInv, RunningInStep, j, n
  <2>2. s \in Seq(Sendable) /\ Stream(s) \in Bytes
    BY <1>2, SuffixSeq DEF n
  <2> HIDE DEF s
  <2>3. Stream(Append(s, p)) = Stream(s) \o Encoded[p]
    BY <1>1, <2>2, StreamAppend
  <2>4. (readBuffer \o unread) \o Encoded[p] = readBuffer \o (unread \o Encoded[p])
    BY <1>2, <1>4, Associative
  <2>5. IsConcat(Stream(Append(s, p)), readBuffer, unread')
    BY <1>1, <2>1, <2>3, <2>4 DEF IsConcat
  <2>6. CASE j < n
    <3>1. j + 1 \in 1 .. n
      BY <1>2, <2>6
    <3> QED
      BY <1>3, <1>6, <2>1, <2>5, <2>6, <3>1 DEF s
  <2>7. CASE j = n
    <3>1. Stream(s) = <<>>
      BY <1>2, <2>7, SuffixLast DEF s, n
    <3>2. readBuffer \o unread = <<>>
      BY <2>1, <3>1 DEF IsConcat
    <3>3. readBuffer = <<>>
      BY <1>2, <3>2, ConcatSimplifications DEF Bytes
    <3>4. Len(readBuffer) = 0
      BY <3>3, EmptySeq
    <3>5. Len(readBuffer) < Len(Encoded[p])
      BY <1>4, <3>4
    <3> QED
      BY <1>3, <1>6, <2>5, <2>7, <3>5 DEF s
  <2> QED
    BY <1>2, <2>6, <2>7
<1>8. StoppedBefore'
  <2> SUFFICES ASSUME reader = "stopped"
               PROVE  j < n + 1 /\ Len(Inner(written'[j + 1])) > MaxPacketSize
    BY <1>1, <1>3 DEF StoppedBefore, j
  <2>1. j < n /\ Len(Inner(written[j + 1])) > MaxPacketSize
    BY DEF WireInv, StoppedBefore, j, n
  <2>2. j + 1 \in 1 .. n /\ j < n + 1
    BY <1>2, <2>1
  <2> QED
    BY <1>3, <2>1, <2>2
<1>9. pushed' = [i \in 1 .. Len(pushed') |-> Received(written'[i])]
  <2>1. pushed = [i \in 1 .. j |-> Received(written[i])]
    BY DEF WireInv, j
  <2>2. \A i \in 1 .. j : i \in 1 .. n
    BY <1>2
  <2>3. \A i \in 1 .. j : Received(written'[i]) = Received(written[i])
    BY <1>3, <2>2
  <2>4. [i \in 1 .. j |-> Received(written'[i])] = [i \in 1 .. j |-> Received(written[i])]
    BY <2>3
  <2> QED
    BY <1>1, <2>1, <2>4 DEF j
<1>10. Len(pushed') \in 0 .. Len(written')
  <2>1. j \in 0 .. n + 1
    BY <1>2
  <2> QED
    BY <1>1, <1>3, <2>1 DEF j
<1>11. reader' \in {"running", "stopped"} /\ streams' \in 1 .. MaxStreams
  BY <1>1 DEF WireInv
<1> QED
  BY <1>1, <1>2, <1>3, <1>5, <1>7, <1>8, <1>9, <1>10, <1>11 DEF WireInv

\* A sequence of bytes, cut in two.
LEMMA Halves ==
    ASSUME NEW b \in Bytes, NEW k \in 0 .. Len(b)
    PROVE  /\ SubSeq(b, 1, k) \in Bytes /\ SubSeq(b, k + 1, Len(b)) \in Bytes
           /\ SubSeq(b, 1, k) \o SubSeq(b, k + 1, Len(b)) = b
<1>1. Len(b) \in Nat
  BY LenProperties DEF Bytes
<1>2. 1 \in 1 .. Len(b) + 1 /\ k \in 1 - 1 .. Len(b) /\ Len(b) \in k .. Len(b) /\ k \in Int /\ k + 1 \in Int /\ 1 \in Int
  BY <1>1
<1>3. SubSeq(b, 1, k) \o SubSeq(b, k + 1, Len(b)) = SubSeq(b, 1, Len(b))
  BY <1>2, ConcatAdjacentSubSeq DEF Bytes
<1>4. (\A i \in 1 .. k : i \in 1 .. Len(b)) /\ (\A i \in k + 1 .. Len(b) : i \in 1 .. Len(b))
  BY <1>1
<1>5. (\A i \in 1 .. k : b[i] \in Byte) /\ (\A i \in k + 1 .. Len(b) : b[i] \in Byte)
  BY <1>4, ElementOfSeq DEF Bytes
<1>6. SubSeq(b, 1, k) \in Bytes
  BY <1>2, <1>5, SubSeqProperties DEF Bytes
<1>7. SubSeq(b, k + 1, Len(b)) \in Bytes
  BY <1>1, <1>2, <1>5, SubSeqProperties DEF Bytes
<1>8. SubSeq(b, 1, Len(b)) = b
  BY SubSeqFull DEF Bytes
<1> QED
  BY <1>3, <1>6, <1>7, <1>8

\* Reading: the packets that the loop cuts out are the next ones.
LEMMA ReadAndPushInv ==
    ASSUME WireInv, NEW k \in ReadSizes, ReadAndPush(k)
    PROVE  WireInv'
<1> DEFINE size == IF k < Len(unread) THEN k ELSE Len(unread)
           first == SubSeq(unread, 1, size)
           u == SubSeq(unread, size + 1, Len(unread))
           buf == readBuffer \o first
           loop == CutPackets(buf)
           j == Len(pushed)
<1>1. /\ reader = "running" /\ unread' = u /\ readBuffer' = loop.rest
      /\ pushed' = pushed \o [x \in DOMAIN loop.packets |-> DeserializePacket(loop.packets[x])]
      /\ reader' = IF loop.stop THEN "stopped" ELSE "running"
      /\ written' = written /\ streams' = streams
  BY DEF ReadAndPush
<1>2. /\ written \in Seq(Sendable) /\ j \in 0 .. Len(written)
      /\ unread \in Bytes /\ readBuffer \in Bytes
      /\ pushed = [i \in 1 .. j |-> Received(written[i])]
  BY DEF WireInv
<1>3. Len(unread) \in Nat /\ k \in Nat /\ Len(written) \in Nat
  BY <1>2, LenProperties, WireConstants DEF Bytes
<1>4. size \in 0 .. Len(unread)
  BY <1>3
<1> HIDE DEF size
<1>5. first \in Bytes /\ u \in Bytes /\ first \o u = unread
  BY <1>2, <1>4, Halves
<1> HIDE DEF first, u
<1>6. buf \in Bytes /\ buf \o u = readBuffer \o (first \o u)
  BY <1>2, <1>5, ConcatBytes, Associative
<1>7. IsConcat(Stream(Suffix(written, j)), buf, u)
  <2>1. IsConcat(Stream(Suffix(written, j)), readBuffer, unread)
    BY <1>1 DEF WireInv, RunningInStep
  <2> HIDE DEF buf
  <2> QED
    BY <1>5, <1>6, <2>1 DEF IsConcat
<1> HIDE DEF buf, j
<1>8. PICK n \in j .. Len(written) : Cuts(loop, written, j, n, u)
  BY <1>2, <1>5, <1>6, <1>7, LoopInStep
<1> HIDE DEF loop
<1> DEFINE cut == [x \in 1 .. n - j |-> Inner(written[j + x])]
<1>9. /\ loop = [packets |-> cut, rest |-> loop.rest, stop |-> loop.stop]
      /\ loop.rest \in Bytes /\ IsConcat(Stream(Suffix(written, n)), loop.rest, u) /\ loop.stop \in BOOLEAN
      /\ loop.stop => n < Len(written) /\ Len(Inner(written[n + 1])) > MaxPacketSize
      /\ ~loop.stop /\ n < Len(written) => Len(loop.rest) < Len(Encoded[written[n + 1]])
  BY <1>8 DEF Cuts
<1>10. n \in Nat /\ j \in 0 .. n /\ n \in 0 .. Len(written)
  BY <1>2, <1>3
<1>11. pushed' = [i \in 1 .. n |-> Received(written[i])]
  <2> DEFINE e == [i \in 1 .. n |-> Received(written[i])]
  <2>1. loop.packets = cut
    <3> HIDE DEF cut
    <3> QED
      BY <1>9
  <2>2. [x \in DOMAIN cut |-> DeserializePacket(cut[x])] = [x \in 1 .. n - j |-> Received(written[j + x])]
    BY DEF Received
  <2>3. \A x \in 1 .. n - j : j + x \in 1 .. n
    BY <1>10
  <2>4. \A i \in 1 .. j : i \in 1 .. n
    BY <1>10
  <2>5. \A x \in 1 .. n - j : e[j + x] = Received(written[j + x])
    BY <2>3
  <2>6. \A i \in 1 .. j : e[i] = Received(written[i])
    BY <2>4
  <2>7. e = [i \in 1 .. n |-> e[i]]
    OBVIOUS
  <2> HIDE DEF cut, e
  <2>8. pushed = [i \in 1 .. j |-> e[i]]
    BY <1>2, <2>6
  <2>9. [x \in DOMAIN cut |-> DeserializePacket(cut[x])] = [x \in 1 .. n - j |-> e[j + x]]
    BY <2>2, <2>5
  <2>10. [i \in 1 .. j |-> e[i]] \o [x \in 1 .. n - j |-> e[j + x]] = [i \in 1 .. n |-> e[i]]
    BY <1>10, Consecutive
  <2> QED
    BY <1>1, <2>1, <2>7, <2>8, <2>9, <2>10 DEF e
<1>12. Len(pushed') = n
  BY <1>10, <1>11
<1> HIDE DEF cut
<1>13. pushed' = [i \in 1 .. Len(pushed') |-> Received(written'[i])]
  BY <1>1, <1>11, <1>12
<1>14. RunningInStep'
  BY <1>1, <1>9, <1>12 DEF RunningInStep
<1>15. StoppedBefore'
  <2>1. reader' = "stopped" => loop.stop
    BY <1>1, <1>9
  <2> QED
    BY <1>1, <1>9, <1>12, <2>1 DEF StoppedBefore
<1>16. reader' \in {"running", "stopped"} /\ streams' \in 1 .. MaxStreams
  BY <1>1 DEF WireInv
<1> QED
  BY <1>1, <1>2, <1>5, <1>9, <1>10, <1>12, <1>13, <1>14, <1>15, <1>16 DEF WireInv

\* A new stream starts with nothing.
LEMMA RecoverInv == WireInv /\ Recover => WireInv'
<1> SUFFICES ASSUME WireInv, Recover PROVE WireInv'
  OBVIOUS
<1>1. /\ written' = <<>> /\ pushed' = <<>> /\ unread' = <<>> /\ readBuffer' = <<>>
      /\ reader = "running" /\ reader' = reader /\ streams' = streams + 1 /\ streams < MaxStreams
  BY DEF Recover
<1>2. Len(pushed') = 0 /\ Len(written') = 0
  BY <1>1, EmptySeq
<1>3. pushed' = [i \in 1 .. Len(pushed') |-> Received(written'[i])]
  BY <1>1, <1>2
<1>4. streams' \in 1 .. MaxStreams
  <2>1. streams \in 1 .. MaxStreams /\ MaxStreams \in Nat
    BY WireConstants DEF WireInv
  <2> QED
    BY <1>1, <2>1
<1>5. Len(pushed') \in 0 .. Len(written') /\ ~(Len(pushed') < Len(written'))
  BY <1>2
<1>6. RunningInStep'
  BY <1>1, <1>2, <1>5, EmptyStream DEF RunningInStep
<1>7. StoppedBefore'
  BY <1>1 DEF StoppedBefore
<1> QED
  BY <1>1, <1>3, <1>4, <1>5, <1>6, <1>7, EmptyStream DEF WireInv

\* Every step keeps the invariant.
LEMMA WireStep == WireInv /\ [Next]_vars => WireInv'
<1> SUFFICES ASSUME WireInv, [Next]_vars PROVE WireInv'
  OBVIOUS
<1>1. CASE \E p \in Packets : WritePacket(p)
  BY <1>1, WritePacketInv
<1>2. CASE Read
  BY <1>2, ReadAndPushInv DEF Read
<1>3. CASE Recover
  BY <1>3, RecoverInv
<1>4. CASE UNCHANGED vars
  BY <1>4 DEF vars, WireInv, RunningInStep, StoppedBefore
<1> QED
  BY <1>1, <1>2, <1>3, <1>4 DEF Next

\* The invariant holds in every state.
THEOREM WireInvHolds == Spec => []WireInv
<1> QED
  BY WireInit, WireStep, PTL DEF Spec

\* Types of the variables: packets, bytes, two states of the reader.
THEOREM TypeCorrect == Spec => []TypeOK
<1>1. WireInv => TypeOK
  <2> SUFFICES ASSUME WireInv PROVE TypeOK
    OBVIOUS
  <2>1. written \in Seq(Sendable) /\ Sendable \subseteq Packets
    BY DEF WireInv, Sendable
  <2>2. written \in Seq(Packets)
    BY <2>1, SeqMonotonic
  <2>3. Len(pushed) <= Len(written)
    <3>1. Len(pushed) \in 0 .. Len(written)
      BY DEF WireInv
    <3> QED
      BY <3>1
  <2> QED
    BY <2>2, <2>3 DEF WireInv, TypeOK, Bytes
<1> QED
  BY <1>1, WireInvHolds, PTL

\* The reader that runs is always at the start of a packet, and has pushed every packet it has
\* read completely, whatever the pieces it got the bytes in (reader.go:104-166).
THEOREM InStepHolds == Spec => []InStep
<1>1. WireInv => InStep
  <2> SUFFICES ASSUME WireInv, reader = "running"
               PROVE  /\ readBuffer \o unread = FlattenSeq([i \in DOMAIN Waiting |-> Encoded[Waiting[i]]])
                      /\ Waiting # <<>> => Len(readBuffer) < Len(Encoded[Waiting[1]])
    BY DEF InStep
  <2> DEFINE j == Len(pushed)
  <2>1. /\ written \in Seq(Sendable) /\ Len(pushed) \in 0 .. Len(written)
        /\ IsConcat(Stream(Suffix(written, j)), readBuffer, unread)
        /\ j < Len(written) => Len(readBuffer) < Len(Encoded[written[j + 1]])
    BY DEF WireInv, RunningInStep
  <2>2. Waiting = Suffix(written, j)
    BY DEF Waiting, Suffix
  <2>3. readBuffer \o unread = FlattenSeq([i \in DOMAIN Waiting |-> Encoded[Waiting[i]]])
    BY <2>1, <2>2 DEF IsConcat, Stream, EncodedSeq
  <2>4. ASSUME Waiting # <<>> PROVE Len(readBuffer) < Len(Encoded[Waiting[1]])
    <3>1. Len(written) \in Nat /\ j \in Nat /\ j <= Len(written)
      BY <2>1, LenProperties
    <3>2. j # Len(written)
      BY <2>1, <2>2, <2>4, SuffixLast
    <3> HIDE DEF j
    <3>3. j < Len(written)
      BY <3>1, <3>2
    <3>4. Waiting[1] = written[j + 1]
      BY <2>1, <2>2, <3>1, <3>3, SuffixFirst
    <3> QED
      BY <2>1, <3>3, <3>4
  <2> QED
    BY <2>3, <2>4
<1> QED
  BY <1>1, WireInvHolds, PTL

\* The reader gives up only on a packet that with its two lengths in front is over the limit
\* that the packer has kept without them (packer.go:162, reader.go:122).
THEOREM StopsOnlyAtTheLimitHolds == Spec => []StopsOnlyAtTheLimit
<1>1. WireInv => StopsOnlyAtTheLimit
  <2> SUFFICES ASSUME WireInv, reader = "stopped"
               PROVE  Len(SerializePacket(Waiting[1])) \in MaxPacketSize - 3 .. MaxPacketSize
    BY DEF StopsOnlyAtTheLimit
  <2> DEFINE j == Len(pushed)
             p == written[j + 1]
  <2>1. /\ written \in Seq(Sendable) /\ j \in 0 .. Len(written)
        /\ j < Len(written) /\ Len(Inner(p)) > MaxPacketSize
    BY DEF WireInv, StoppedBefore
  <2>2. j \in Nat
    BY <2>1, LenProperties
  <2>3. Waiting[1] = p /\ p \in Sendable
    <3>1. Waiting = Suffix(written, j)
      BY DEF Waiting, Suffix
    <3> QED
      BY <2>1, <2>2, <3>1, SuffixFirst
  <2> HIDE DEF j, p
  <2>4. /\ SerializePacket(p) \in Bytes /\ Len(SerializePacket(p)) <= MaxPacketSize
        /\ Len(Inner(p)) = Len(SerializePacket(p)) + 4
    BY <2>3, SendableBytes
  <2>5. Len(SerializePacket(p)) \in Nat /\ MaxPacketSize \in Nat
    BY <2>4, LenProperties, WireConstants DEF Bytes
  <2>6. Len(SerializePacket(p)) + 4 > MaxPacketSize
    BY <2>1, <2>4
  <2>7. Len(SerializePacket(p)) \in MaxPacketSize - 3 .. MaxPacketSize
    BY <2>4, <2>5, <2>6
  <2> QED
    BY <2>3, <2>7
<1> QED
  BY <1>1, WireInvHolds, PTL

\* Packets arrive in the order in which they were written, each with its number and its count
\* of frames, and unchanged when it has one frame (packer.go:162, reader.go, packet.go:123).
THEOREM PacketsIntactHolds == Spec => []PacketsIntact
<1>1. WireInv => PacketsIntact
  <2> SUFFICES ASSUME WireInv, NEW i \in DOMAIN pushed
               PROVE  /\ pushed[i].num = written[i].num
                      /\ Len(pushed[i].frames) = Len(written[i].frames)
                      /\ Len(written[i].frames) = 1 => pushed[i] = written[i]
    BY DEF PacketsIntact
  <2> DEFINE j == Len(pushed)
             p == written[i]
  <2>1. /\ written \in Seq(Sendable) /\ j \in 0 .. Len(written)
        /\ pushed = [x \in 1 .. j |-> Received(written[x])]
    BY DEF WireInv
  <2>2. Len(written) \in Nat
    BY <2>1, LenProperties
  <2> HIDE DEF j
  <2>3. i \in 1 .. j /\ pushed[i] = Received(p)
    BY <2>1
  <2>4. i \in 1 .. Len(written)
    BY <2>1, <2>2, <2>3
  <2>5. p \in Sendable
    BY <2>1, <2>4, ElementOfSeq
  <2> HIDE DEF p
  <2>6. /\ p \in Packet /\ Len(p.frames) <= MaxFrames
        /\ SerializePacket(p) \in Bytes /\ Len(SerializePacket(p)) \in Uint32
    BY <2>5, SendableBytes
  <2>7. Len(SerializePacket(p)) \in Nat /\ pushed[i] = DeserializePacket(WithLength(SerializePacket(p)))
    BY <2>3, <2>6, LenProperties DEF Received, Inner, Bytes
  <2>8. /\ pushed[i].num = p.num /\ Len(pushed[i].frames) = Len(p.frames)
        /\ Len(p.frames) = 1 => pushed[i] = p
    BY <2>6, <2>7, PacketRead
  <2> QED
    BY <2>8 DEF p
<1> QED
  BY <1>1, WireInvHolds, PTL

=============================================================================
