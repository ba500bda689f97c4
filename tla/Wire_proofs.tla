------------------------------ MODULE Wire_proofs ------------------------------
(***************************************************************************)
(* Theorems about the packets as bytes, for every size and width of        *)
(* tokens, numbers and fragments: what is taken is what was sent, what is  *)
(* read is what was written, and what arrives whole is taken.              *)
(***************************************************************************)
EXTENDS Wire, DataTheorems

(***************************************************************************)
(* Bytes at a position.                                                    *)
(***************************************************************************)
Holds(bytes, p, x) ==
    /\ p + Len(x) <= Len(bytes)
    /\ \A i \in 1 .. Len(x) : bytes[p + i] = x[i]

\* What a field appended to bytes does to what can be read from them.
Extends(s, x, u) ==
    /\ u \in Seq(Nat) /\ Len(u) = Len(s) + Len(x)
    /\ Holds(u, Len(s), x)
    /\ \A p \in Nat : \A y \in Seq(Nat) : Holds(s, p, y) => Holds(u, p, y)

LEMMA Extended ==
    ASSUME NEW s \in Seq(Nat), NEW x \in Seq(Nat)
    PROVE  Extends(s, x, s \o x)
<1> DEFINE u == s \o x
<1>1. /\ u \in Seq(Nat) /\ Len(u) = Len(s) + Len(x)
      /\ \A i \in 1 .. Len(s) + Len(x) : u[i] = IF i <= Len(s) THEN s[i] ELSE x[i - Len(s)]
  BY ConcatProperties
<1>2. Len(s) \in Nat /\ Len(x) \in Nat
  BY LenProperties
<1> HIDE DEF u
<1>3. Holds(u, Len(s), x)
  <2>2. Len(s) + Len(x) <= Len(u)
    BY <1>1, <1>2
  <2> SUFFICES ASSUME NEW i \in 1 .. Len(x) PROVE u[Len(s) + i] = x[i]
    BY <2>2 DEF Holds
  <2>1. Len(s) + i \in 1 .. Len(s) + Len(x) /\ ~ (Len(s) + i <= Len(s)) /\ Len(s) + i - Len(s) = i
    BY <1>2
  <2> QED BY <1>1, <2>1
<1>4. ASSUME NEW p \in Nat, NEW y \in Seq(Nat), Holds(s, p, y) PROVE Holds(u, p, y)
  <2>1. Len(y) \in Nat /\ p + Len(y) <= Len(s)
    BY <1>4, LenProperties DEF Holds
  <2>4. p + Len(y) <= Len(u)
    BY <1>1, <1>2, <2>1
  <2> SUFFICES ASSUME NEW i \in 1 .. Len(y) PROVE u[p + i] = y[i]
    BY <2>4 DEF Holds
  <2>2. p + i \in 1 .. Len(s) + Len(x) /\ p + i <= Len(s)
    BY <1>2, <2>1
  <2>3. s[p + i] = y[i]
    BY <1>4 DEF Holds
  <2> QED BY <1>1, <2>2, <2>3
<1> QED BY <1>1, <1>3, <1>4 DEF Extends, u

LEMMA FieldBytes ==
    ASSUME NEW n \in Nat, NEW x \in Field(n)
    PROVE  x \in Seq(Nat) /\ Len(x) = n /\ DOMAIN x = 1 .. n /\ \A i \in 1 .. n : x[i] \in Byte
<1>1. x \in [1 .. n -> Nat] /\ \A i \in 1 .. n : x[i] \in Byte
  <2>1. x \in [1 .. n -> Byte]
    BY DEF Field
  <2>2. \A b \in Byte : b \in Nat
    BY DEF Byte
  <2> QED BY <2>1, <2>2
<1>2. x \in Seq(Nat)
  <2>1. Seq(Nat) = UNION {[1 .. k -> Nat] : k \in Nat}
    BY SeqDef, Zenon
  <2>2. [1 .. n -> Nat] \in {[1 .. k -> Nat] : k \in Nat}
    OBVIOUS
  <2> QED BY <1>1, <2>1, <2>2, Zenon
<1>3. Len(x) \in Nat /\ 1 .. Len(x) = 1 .. n
  BY <1>1, <1>2, LenProperties
<1>4. Len(x) = n
  BY <1>3
<1> QED BY <1>1, <1>2, <1>4

LEMMA SeqOfBytes == ASSUME NEW s \in Seq(Byte) PROVE s \in Seq(Nat)
<1>1. Byte \subseteq Nat
  BY DEF Byte
<1> QED BY <1>1, SeqMonotonic

\* The parts of what is at a position are at theirs.
LEMMA HoldsParts ==
    ASSUME NEW s \in Seq(Nat), NEW x \in Seq(Nat), NEW y \in Seq(Nat), NEW p \in Nat, Holds(s, p, x \o y)
    PROVE  Holds(s, p, x) /\ Holds(s, p + Len(x), y)
<1> DEFINE u == x \o y
<1>1. /\ Len(u) = Len(x) + Len(y)
      /\ \A i \in 1 .. Len(x) + Len(y) : u[i] = IF i <= Len(x) THEN x[i] ELSE y[i - Len(x)]
  BY ConcatProperties
<1>2. Len(s) \in Nat /\ Len(x) \in Nat /\ Len(y) \in Nat
  BY LenProperties
<1>3. p + Len(u) <= Len(s) /\ \A i \in 1 .. Len(u) : s[p + i] = u[i]
  BY DEF Holds
<1> HIDE DEF u
<1>4. Holds(s, p, x)
  <2>3. p + Len(x) <= Len(s)
    BY <1>1, <1>2, <1>3
  <2> SUFFICES ASSUME NEW i \in 1 .. Len(x) PROVE s[p + i] = x[i]
    BY <2>3 DEF Holds
  <2>1. i \in 1 .. Len(x) + Len(y) /\ i <= Len(x)
    BY <1>2
  <2> QED BY <1>1, <1>3, <2>1
<1>5. Holds(s, p + Len(x), y)
  <2>3. p + Len(x) + Len(y) <= Len(s)
    BY <1>1, <1>2, <1>3
  <2> SUFFICES ASSUME NEW i \in 1 .. Len(y) PROVE s[p + Len(x) + i] = y[i]
    BY <2>3 DEF Holds
  <2> DEFINE j == Len(x) + i
  <2>1. j \in 1 .. Len(x) + Len(y) /\ ~ (j <= Len(x)) /\ j - Len(x) = i /\ p + Len(x) + i = p + j
    BY <1>2
  <2> HIDE DEF j
  <2>2. u[j] = y[i]
    BY <1>1, <2>1
  <2>4. s[p + j] = u[j]
    BY <1>1, <1>3, <2>1
  <2> QED BY <2>1, <2>2, <2>4
<1> QED BY <1>4, <1>5

LEMMA ReadHeld ==
    ASSUME NEW s \in Seq(Nat), NEW x \in Seq(Nat), NEW p \in Nat, Holds(s, p, x)
    PROVE  Read(s, p, Len(x)) = x
<1> DEFINE n == Len(x)
           r == [i \in 1 .. n |-> IF p + i <= Len(s) THEN s[p + i] ELSE Beyond]
<1>1. n \in Nat /\ Len(s) \in Nat /\ p + n <= Len(s) /\ x \in [1 .. n -> Nat]
  BY LenProperties DEF Holds
<1>2. \A i \in 1 .. n : s[p + i] = x[i]
  BY DEF Holds
<1> HIDE DEF n
<1>3. r = x
  BY <1>1, <1>2
<1> QED BY <1>3 DEF Read, n

LEMMA HeldAtFront ==
    ASSUME NEW s \in Seq(Nat), NEW x \in Seq(Nat), Holds(s, 0, x)
    PROVE  SubSeq(s, 1, Len(x)) = x
<1> DEFINE n == Len(x)
           f == SubSeq(s, 1, n)
<1>1. n \in Nat /\ Len(s) \in Nat /\ n <= Len(s)
  BY LenProperties DEF Holds
<1>2. \A i \in 1 .. n : s[i] = x[i]
  BY <1>1 DEF Holds
<1>3. /\ \A i \in 1 .. n : s[i] \in Nat
      /\ x \in Seq(Nat)
  BY <1>1, ElementOfSeq
<1> HIDE DEF n
<1>4. f \in Seq(Nat) /\ Len(f) = (IF 1 <= n THEN n - 1 + 1 ELSE 0) /\ \A i \in 1 .. n - 1 + 1 : f[i] = s[1 + i - 1]
  BY <1>1, <1>3, SubSeqProperties
<1> HIDE DEF f
<1>5. Len(f) = n /\ \A i \in 1 .. n : f[i] = x[i]
  BY <1>1, <1>2, <1>4
<1>6. Len(f) = Len(x) /\ \A i \in 1 .. Len(f) : f[i] = x[i]
  BY <1>5 DEF n
<1>7. f = x
  BY <1>3, <1>4, <1>6, SeqEqual
<1> QED BY <1>7 DEF f, n

LEMMA HoldsCut ==
    ASSUME NEW s \in Seq(Nat), NEW x \in Seq(Nat), NEW p \in Nat, NEW n \in Nat,
           p + Len(x) <= n, n <= Len(s), Holds(s, p, x)
    PROVE  /\ SubSeq(s, 1, n) \in Seq(Nat) /\ Len(SubSeq(s, 1, n)) = n
           /\ Holds(SubSeq(s, 1, n), p, x)
<1> DEFINE f == SubSeq(s, 1, n)
<1>1. Len(x) \in Nat /\ Len(s) \in Nat
  BY LenProperties
<1>2. \A i \in 1 .. n : s[i] \in Nat
  BY <1>1, ElementOfSeq
<1>3. f \in Seq(Nat) /\ Len(f) = (IF 1 <= n THEN n - 1 + 1 ELSE 0) /\ \A i \in 1 .. n - 1 + 1 : f[i] = s[1 + i - 1]
  BY <1>2, SubSeqProperties
<1> HIDE DEF f
<1>4. Len(f) = n /\ \A i \in 1 .. n : f[i] = s[i]
  BY <1>3
<1>5. \A i \in 1 .. Len(x) : p + i \in 1 .. n
  BY <1>1
<1> QED BY <1>3, <1>4, <1>5 DEF Holds, f

(***************************************************************************)
(* Numbers.                                                                *)
(***************************************************************************)
LEMMA BytesNeeded ==
    ASSUME NEW n
    PROVE  BytesOf(n) \in 1 .. 8 /\ \A i \in 1 .. 8 : i > BytesOf(n) => n[i] = 0
<1>1. \A i \in 1 .. 8 : i = 1 \/ i = 2 \/ i = 3 \/ i = 4 \/ i = 5 \/ i = 6 \/ i = 7 \/ i = 8
  OBVIOUS
<1>2. BytesOf(n) = IF n[8] # 0 THEN 8 ELSE IF n[7] # 0 THEN 7 ELSE IF n[6] # 0 THEN 6
                   ELSE IF n[5] # 0 THEN 5 ELSE IF n[4] # 0 THEN 4 ELSE IF n[3] # 0 THEN 3
                   ELSE IF n[2] # 0 THEN 2 ELSE 1
  <2>1. /\ (\E i \in 5 .. 8 : n[i] # 0) <=> (n[5] # 0 \/ n[6] # 0 \/ n[7] # 0 \/ n[8] # 0)
        /\ (\E i \in 7 .. 8 : n[i] # 0) <=> (n[7] # 0 \/ n[8] # 0)
        /\ (\E i \in 8 .. 8 : n[i] # 0) <=> n[8] # 0
        /\ (\E i \in 6 .. 6 : n[i] # 0) <=> n[6] # 0
        /\ (\E i \in 3 .. 4 : n[i] # 0) <=> (n[3] # 0 \/ n[4] # 0)
        /\ (\E i \in 4 .. 4 : n[i] # 0) <=> n[4] # 0
        /\ (\E i \in 2 .. 2 : n[i] # 0) <=> n[2] # 0
    <3>1. /\ 5 .. 8 = {5, 6, 7, 8} /\ 7 .. 8 = {7, 8} /\ 8 .. 8 = {8} /\ 6 .. 6 = {6}
          /\ 3 .. 4 = {3, 4} /\ 4 .. 4 = {4} /\ 2 .. 2 = {2}
      OBVIOUS
    <3> QED BY <3>1, Zenon
  <2> QED BY <2>1 DEF BytesOf
<1> QED BY <1>1, <1>2

LEMMA PackedBytes ==
    ASSUME NEW n \in Field(8)
    PROVE  /\ Packed(n, BytesOf(n)) \in Seq(Nat) /\ Len(Packed(n, BytesOf(n))) = BytesOf(n)
           /\ Unpacked(Packed(n, BytesOf(n))) = n
<1> DEFINE b == BytesOf(n)
           t == SubSeq(n, 1, b)
<1>1. b \in 1 .. 8 /\ \A i \in 1 .. 8 : i > b => n[i] = 0
  BY BytesNeeded
<1>2. n \in Seq(Nat) /\ DOMAIN n = 1 .. 8 /\ \A i \in 1 .. 8 : n[i] \in Byte
  BY FieldBytes
<1> HIDE DEF b
<1>3. /\ t \in Seq(Nat) /\ Len(t) = (IF 1 <= b THEN b - 1 + 1 ELSE 0)
      /\ \A i \in 1 .. b - 1 + 1 : t[i] = n[1 + i - 1]
  <2>1. \A i \in 1 .. b : n[i] \in Nat
    <3>1. \A i \in 1 .. b : i \in 1 .. 8
      BY <1>1
    <3>2. \A x \in Byte : x \in Nat
      BY DEF Byte
    <3> QED BY <1>2, <3>1, <3>2, Zenon
  <2>2. 1 \in Int /\ b \in Int
    BY <1>1
  <2> QED BY <2>1, <2>2, SubSeqProperties
<1> HIDE DEF t
<1>4. Len(t) = b /\ \A i \in 1 .. b : t[i] = n[i]
  <2>1. b - 1 + 1 = b /\ 1 <= b /\ \A i \in 1 .. b : 1 + i - 1 = i
    BY <1>1
  <2>2. \A i \in 1 .. b : t[i] = n[1 + i - 1]
    BY <1>3, <2>1
  <2> QED BY <1>3, <2>1, <2>2
<1>5. n = [i \in 1 .. 8 |-> n[i]]
  BY DEF Field
<1>6. \A i \in 1 .. 8 : n[i] = IF i <= Len(t) THEN t[i] ELSE 0
  BY <1>1, <1>4
<1>7. Unpacked(t) = n
  BY <1>5, <1>6 DEF Unpacked
<1> QED BY <1>3, <1>4, <1>7 DEF Packed, t, b

LEMMA NumberRead ==
    ASSUME NEW s \in Seq(Nat), NEW n \in Field(8), NEW p \in Nat, Holds(s, p, Packed(n, BytesOf(n)))
    PROVE  Unpacked(Read(s, p, BytesOf(n))) = n
<1>1. Read(s, p, Len(Packed(n, BytesOf(n)))) = Packed(n, BytesOf(n))
  BY PackedBytes, ReadHeld
<1> QED BY <1>1, PackedBytes

LEMMA ReadWithin ==
    ASSUME NEW s \in Seq(Nat), NEW p \in Nat, NEW n \in Nat, p + n <= Len(s)
    PROVE  /\ Read(s, p, n) \in Seq(Nat) /\ Len(Read(s, p, n)) = n
           /\ \A i \in 1 .. n : Read(s, p, n)[i] = s[p + i]
           /\ Unpacked(Read(s, p, n)) \in [1 .. 8 -> Nat]
<1> DEFINE r == [i \in 1 .. n |-> IF p + i <= Len(s) THEN s[p + i] ELSE Beyond]
<1>1. Len(s) \in Nat /\ \A i \in 1 .. n : p + i \in 1 .. Len(s) /\ p + i <= Len(s)
  BY LenProperties
<1>2. r \in [1 .. n -> Nat] /\ \A i \in 1 .. n : r[i] = s[p + i]
  BY <1>1, ElementOfSeq
<1> HIDE DEF r
<1>3. r \in Seq(Nat)
  <2>1. Seq(Nat) = UNION {[1 .. k -> Nat] : k \in Nat}
    BY SeqDef, Zenon
  <2>2. [1 .. n -> Nat] \in {[1 .. k -> Nat] : k \in Nat}
    OBVIOUS
  <2> QED BY <1>2, <2>1, <2>2, Zenon
<1>4. Len(r) = n
  <2>1. Len(r) \in Nat /\ 1 .. Len(r) = 1 .. n
    BY <1>2, <1>3, LenProperties
  <2> QED BY <2>1
<1>5. Unpacked(r) \in [1 .. 8 -> Nat]
  <2>1. \A i \in 1 .. 8 : (IF i <= Len(r) THEN r[i] ELSE 0) \in Nat
    BY <1>2, <1>4
  <2> QED BY <2>1 DEF Unpacked
<1> QED BY <1>2, <1>3, <1>4, <1>5 DEF Read, r

LEMMA HeldAtEnd ==
    ASSUME NEW s \in Seq(Nat), NEW x \in Seq(Nat)
    PROVE  /\ SubSeq(s \o x, 1, Len(s)) = s
           /\ SubSeq(s \o x, Len(s) + 1, Len(s \o x)) = x
<1>1. Len(s \o x) = Len(s) + Len(x)
  BY ConcatProperties
<1>2. /\ SubSeq(s \o x, 1, Len(s)) = s
      /\ SubSeq(s \o x, Len(s) + 1, Len(s) + Len(x)) = x
  BY FrontOfConcat
<1> QED BY <1>1, <1>2

LEMMA OneByte ==
    ASSUME NEW m \in Nat
    PROVE  <<m>> \in Seq(Nat) /\ Len(<<m>>) = 1 /\ Holds(<<m>>, 0, <<m>>)
<1>1. <<m>> \in Seq(Nat) /\ Len(<<m>>) = 1
  OBVIOUS
<1> QED BY <1>1 DEF Holds

(***************************************************************************)
(* Fragments.                                                              *)
(***************************************************************************)
MetaByte(type, b, i, l, q) == type * 64 + (b - 1) * 32 + (i - 1) * 16 + (l - 1) * 8 + (q - 1)

IsMeta(m, type, b, i, l, q) ==
    /\ type \in 0 .. 3 /\ b \in 1 .. 2 /\ i \in 1 .. 2 /\ l \in 1 .. 2 /\ q \in 1 .. 8
    /\ m = MetaByte(type, b, i, l, q)

LEMMA MetaByteIsRead ==
    ASSUME NEW type, NEW b, NEW i, NEW l, NEW q, NEW m, IsMeta(m, type, b, i, l, q)
    PROVE  /\ m \in Nat /\ m \div 64 = type
           /\ ((m \div 32) % 2) + 1 = b /\ ((m \div 16) % 2) + 1 = i
           /\ ((m \div 8) % 2) + 1 = l /\ (m % 8) + 1 = q
<1> DEFINE h == type * 2 + (b - 1)
           j == h * 2 + (i - 1)
           k == j * 2 + (l - 1)
<1>0. /\ type \in 0 .. 3 /\ b \in 1 .. 2 /\ i \in 1 .. 2 /\ l \in 1 .. 2 /\ q \in 1 .. 8
      /\ m = MetaByte(type, b, i, l, q)
  BY DEF IsMeta
<1>1. m = k * 8 + (q - 1) /\ h \in Nat /\ j \in Nat /\ k \in Nat /\ m \in Nat
  BY <1>0 DEF MetaByte
<1>2. m \div 8 = k /\ m % 8 = q - 1
  <2> HIDE DEF k
  <2> QED BY <1>0, <1>1
<1>3. m \div 16 = j /\ k % 2 = l - 1
  <2>1. k % 2 = l - 1
    <3> HIDE DEF j
    <3> QED BY <1>0, <1>1
  <2>2. m = 16 * j + ((l - 1) * 8 + (q - 1))
    <3> HIDE DEF j
    <3> QED BY <1>0, <1>1
  <2> HIDE DEF j
  <2> QED BY <1>0, <1>1, <2>1, <2>2
<1>4. m \div 32 = h /\ j % 2 = i - 1
  <2>1. j % 2 = i - 1
    <3> HIDE DEF h
    <3> QED BY <1>0, <1>1
  <2>2. m = 32 * h + ((i - 1) * 16 + (l - 1) * 8 + (q - 1))
    <3> HIDE DEF h
    <3> QED BY <1>0, <1>1
  <2> HIDE DEF h
  <2> QED BY <1>0, <1>1, <2>1, <2>2
<1>5. m \div 64 = type /\ h % 2 = b - 1
  <2>2. m = 64 * type + ((b - 1) * 32 + (i - 1) * 16 + (l - 1) * 8 + (q - 1))
    BY <1>0 DEF MetaByte
  <2> QED BY <1>0, <1>1, <2>2
<1> HIDE DEF h, j, k
<1> QED BY <1>0, <1>1, <1>2, <1>3, <1>4, <1>5

LEMMA FragmentIsRead ==
    ASSUME NEW f \in Contents
    PROVE  /\ PayloadBody(f) \in Seq(Nat) /\ Len(PayloadBody(f)) >= 1
           /\ FragmentOf(PayloadBody(f)) = f /\ f # NoFragment
<1> DEFINE b == BytesOf(f.bus_id)
           i == BytesOf(f.fragment_index)
           l == BytesOf(f.last_index)
           q == BytesOf(f.sequence)
           m == MetaByte(f.type, b, i, l, q)
           s0 == <<m>>
           s1 == s0 \o Packed(f.bus_id, b)
           s2 == s1 \o Packed(f.fragment_index, i)
           s3 == s2 \o Packed(f.last_index, l)
           s4 == s3 \o Packed(f.sequence, q)
           s == s4 \o f.content
<1>1. /\ f \in Fragment
      /\ b \in 1 .. 2 /\ i \in 1 .. 2 /\ l \in 1 .. 2
  BY WireAssumption
<1>2. /\ f.type \in 0 .. 3 /\ f.bus_id \in Field(8) /\ f.fragment_index \in Field(8)
      /\ f.last_index \in Field(8) /\ f.sequence \in Field(8) /\ f.content \in Seq(Nat)
      /\ f = [type |-> f.type, bus_id |-> f.bus_id, fragment_index |-> f.fragment_index,
              last_index |-> f.last_index, sequence |-> f.sequence, content |-> f.content]
  BY <1>1, SeqOfBytes DEF Fragment
<1>3. q \in 1 .. 8
  BY <1>2, BytesNeeded
<1>4. /\ Packed(f.bus_id, b) \in Seq(Nat) /\ Len(Packed(f.bus_id, b)) = b
      /\ Packed(f.fragment_index, i) \in Seq(Nat) /\ Len(Packed(f.fragment_index, i)) = i
      /\ Packed(f.last_index, l) \in Seq(Nat) /\ Len(Packed(f.last_index, l)) = l
      /\ Packed(f.sequence, q) \in Seq(Nat) /\ Len(Packed(f.sequence, q)) = q
  BY <1>2, PackedBytes
<1>5. PayloadBody(f) = s
  BY DEF PayloadBody, MetaBytes, MetaByte
<1>6. /\ m \in Nat /\ m \div 64 = f.type
      /\ ((m \div 32) % 2) + 1 = b /\ ((m \div 16) % 2) + 1 = i
      /\ ((m \div 8) % 2) + 1 = l /\ (m % 8) + 1 = q
  <2> HIDE DEF b, i, l, q, m
  <2>1. m = MetaByte(f.type, b, i, l, q)
    BY DEF m
  <2>2. IsMeta(m, f.type, b, i, l, q)
    BY <1>1, <1>2, <1>3, <2>1 DEF IsMeta
  <2> QED BY <2>1, <2>2, MetaByteIsRead
<1> HIDE DEF b, i, l, q, m
<1>7. s0 \in Seq(Nat) /\ Len(s0) = 1 /\ Holds(s0, 0, s0)
  BY <1>6, OneByte
<1> HIDE DEF s0
<1>8. Extends(s0, Packed(f.bus_id, b), s1)
  BY <1>4, <1>7, Extended
<1>9. s1 \in Seq(Nat) /\ Len(s1) = 1 + b
  BY <1>4, <1>7, <1>8 DEF Extends
<1>nat. 1 \in Nat /\ 0 \in Nat
  OBVIOUS
<1> HIDE DEF s1
<1>10. Extends(s1, Packed(f.fragment_index, i), s2)
  BY <1>4, <1>9, Extended
<1>11. s2 \in Seq(Nat) /\ Len(s2) = 1 + b + i
  BY <1>4, <1>9, <1>10 DEF Extends
<1> HIDE DEF s2
<1>12. Extends(s2, Packed(f.last_index, l), s3)
  BY <1>4, <1>11, Extended
<1>13. s3 \in Seq(Nat) /\ Len(s3) = 1 + b + i + l
  BY <1>4, <1>11, <1>12 DEF Extends
<1> HIDE DEF s3
<1>14. Extends(s3, Packed(f.sequence, q), s4)
  BY <1>4, <1>13, Extended
<1>15. s4 \in Seq(Nat) /\ Len(s4) = 1 + b + i + l + q
  BY <1>4, <1>13, <1>14 DEF Extends
<1> HIDE DEF s4
<1>16. Extends(s4, f.content, s) /\ SubSeq(s, Len(s4) + 1, Len(s)) = f.content
  BY <1>2, <1>15, Extended, HeldAtEnd
<1>17. s \in Seq(Nat) /\ Len(s) = 1 + b + i + l + q + Len(f.content) /\ Len(f.content) \in Nat
  BY <1>2, <1>15, <1>16, LenProperties DEF Extends
<1> HIDE DEF s
<1>18. Holds(s, 0, s0) /\ Holds(s, 1, Packed(f.bus_id, b))
  <2>1. Holds(s1, 0, s0) /\ Holds(s1, 1, Packed(f.bus_id, b))
    BY <1>7, <1>8, <1>nat DEF Extends
  <2>2. \A p \in Nat : \A y \in Seq(Nat) : Holds(s1, p, y) => Holds(s, p, y)
    BY <1>10, <1>12, <1>14, <1>16 DEF Extends
  <2> QED BY <1>4, <1>7, <1>nat, <2>1, <2>2
<1>19. Holds(s, 1 + b, Packed(f.fragment_index, i))
  <2>1. 1 + b \in Nat
    BY <1>1
  <2> QED BY <1>4, <1>9, <1>10, <1>12, <1>14, <1>16, <2>1 DEF Extends
<1>20. Holds(s, 1 + b + i, Packed(f.last_index, l))
  <2>1. 1 + b + i \in Nat
    BY <1>1
  <2> QED BY <1>4, <1>11, <1>12, <1>14, <1>16, <2>1 DEF Extends
<1>21. Holds(s, 1 + b + i + l, Packed(f.sequence, q))
  <2>1. 1 + b + i + l \in Nat
    BY <1>1
  <2> QED BY <1>4, <1>13, <1>14, <1>16, <2>1 DEF Extends
<1>22. Read(s, 0, 1)[1] = m
  <2>1. Read(s, 0, Len(s0)) = s0
    BY <1>7, <1>17, <1>18, ReadHeld
  <2>2. s0[1] = m
    BY DEF s0
  <2> QED BY <1>7, <2>1, <2>2
<1>23. /\ Unpacked(Read(s, 1, b)) = f.bus_id
       /\ Unpacked(Read(s, 1 + b, i)) = f.fragment_index
       /\ Unpacked(Read(s, 1 + b + i, l)) = f.last_index
       /\ Unpacked(Read(s, 1 + b + i + l, q)) = f.sequence
  <2>1. 1 \in Nat /\ 1 + b \in Nat /\ 1 + b + i \in Nat /\ 1 + b + i + l \in Nat
    BY <1>1
  <2> QED BY <1>2, <1>17, <1>18, <1>19, <1>20, <1>21, <2>1, NumberRead DEF b, i, l, q
<1>24. SubSeq(s, 1 + b + i + l + q + 1, Len(s)) = f.content
  BY <1>15, <1>16
<1>25. MetaFits(s, 1 + b + i + l + q) /\ Len(s) >= 1
  <2> DEFINE c == Len(f.content)
             n == Len(s)
  <2>1. n = 1 + b + i + l + q + c /\ c \in Nat
    BY <1>17
  <2> HIDE DEF c, n
  <2>2. n >= 1 + b + i + l + q /\ n >= 5 /\ n >= 1
    BY <1>1, <1>3, <2>1
  <2> QED BY <2>2 DEF MetaFits, n
<1>26. FragmentOf(s) = [type |-> f.type, bus_id |-> f.bus_id, fragment_index |-> f.fragment_index,
                        last_index |-> f.last_index, sequence |-> f.sequence, content |-> f.content]
  BY <1>6, <1>22, <1>23, <1>24, <1>25 DEF FragmentOf
<1>27. f # NoFragment
  <2>1. NoFragment.type = - 1 /\ f.type # - 1
    BY <1>2 DEF NoFragment
  <2> QED BY <2>1
<1> QED BY <1>2, <1>5, <1>17, <1>25, <1>26, <1>27

(***************************************************************************)
(* Addresses.                                                              *)
(***************************************************************************)
LEMMA TurnedTwice ==
    ASSUME NEW k \in Nat, NEW x \in Field(2 * k)
    PROVE  Turned(x) \in Field(2 * k) /\ Turned(Turned(x)) = x
<1> DEFINE n == 2 * k
           other(i) == IF i % 2 = 1 THEN i + 1 ELSE i - 1
           t == [i \in 1 .. n |-> x[other(i)]]
<1>1. n \in Nat /\ Len(x) = n /\ x \in [1 .. n -> Byte] /\ x = [i \in 1 .. n |-> x[i]]
  BY FieldBytes DEF Field
<1>2. \A i \in 1 .. n : other(i) \in 1 .. n /\ other(other(i)) = i
  <2> SUFFICES ASSUME NEW i \in 1 .. n PROVE other(i) \in 1 .. n /\ other(other(i)) = i
    OBVIOUS
  <2> QED OBVIOUS
<1> HIDE DEF other, n
<1>3. t \in [1 .. n -> Byte] /\ \A i \in 1 .. n : t[i] = x[other(i)]
  BY <1>1, <1>2
<1>4. Turned(x) = t
  BY <1>1 DEF Turned, other
<1> HIDE DEF t
<1>5. t \in Field(n) /\ Len(t) = n
  BY <1>1, <1>3, FieldBytes DEF Field
<1>6. \A i \in 1 .. n : t[other(i)] = x[i]
  BY <1>2, <1>3
<1>7. Turned(t) = [i \in 1 .. n |-> t[other(i)]]
  BY <1>5 DEF Turned, other
<1>8. Turned(t) = x
  BY <1>1, <1>6, <1>7
<1> QED BY <1>4, <1>5, <1>8 DEF n

LEMMA AddressFields ==
    ASSUME NEW a \in Address
    PROVE  /\ a = [type |-> a.type, ip |-> a.ip, port |-> a.port]
           /\ a.type \in {0, 1}
           /\ Turned(a.port) \in Seq(Nat) /\ Len(Turned(a.port)) = 2 /\ Turned(Turned(a.port)) = a.port
           /\ OnWire(a) \in Seq(Nat) /\ Len(OnWire(a)) = IF a.type = 0 THEN 4 ELSE 16
           /\ a.ip = IF a.type = 0 THEN OnWire(a) ELSE Turned(OnWire(a))
<1>1. /\ a = [type |-> a.type, ip |-> a.ip, port |-> a.port] /\ a.port \in Field(2)
      /\ (a.type = 0 /\ a.ip \in Field(4)) \/ (a.type = 1 /\ a.ip \in Field(16))
  BY DEF Address
<1>2. Turned(a.port) \in Field(2) /\ Turned(Turned(a.port)) = a.port
  <2>1. a.port \in Field(2 * 1) /\ 2 * 1 = 2
    BY <1>1
  <2>2. Turned(a.port) \in Field(2 * 1) /\ Turned(Turned(a.port)) = a.port
    BY <2>1, TurnedTwice
  <2> QED BY <2>1, <2>2
<1>3. CASE a.type = 0
  <2>1. OnWire(a) = a.ip /\ a.ip \in Field(4)
    BY <1>1, <1>3 DEF OnWire
  <2> QED BY <1>1, <1>2, <1>3, <2>1, FieldBytes
<1>4. CASE a.type = 1
  <2>1. OnWire(a) = Turned(a.ip) /\ a.ip \in Field(2 * 8) /\ 2 * 8 = 16
    BY <1>1, <1>4 DEF OnWire
  <2>2. Turned(a.ip) \in Field(2 * 8) /\ Turned(Turned(a.ip)) = a.ip
    BY <2>1, TurnedTwice
  <2>3. Turned(a.ip) \in Field(16)
    BY <2>1, <2>2
  <2>4. Turned(a.ip) \in Seq(Nat) /\ Len(Turned(a.ip)) = 16
    BY <2>3, FieldBytes
  <2>5. Turned(a.port) \in Seq(Nat) /\ Len(Turned(a.port)) = 2
    BY <1>2, FieldBytes
  <2>6. a.ip = Turned(OnWire(a))
    BY <2>1, <2>2
  <2> QED BY <1>1, <1>2, <1>4, <2>1, <2>4, <2>5, <2>6
<1> QED BY <1>1, <1>3, <1>4

LEMMA AddressWidth ==
    ASSUME NEW a \in Address
    PROVE  /\ AddressBytes(a) \in Seq(Nat)
           /\ Len(AddressBytes(a)) = 3 + IF a.type = 0 THEN 4 ELSE 16
<1> DEFINE size == IF a.type = 0 THEN 4 ELSE 16
           s0 == <<a.type>>
           w == OnWire(a)
           s1 == s0 \o w
           port == Turned(a.port)
           s2 == s1 \o port
<1>1. s0 \in Seq(Nat) /\ Len(s0) = 1
  BY AddressFields, OneByte
<1>2. w \in Seq(Nat) /\ Len(w) = size /\ port \in Seq(Nat) /\ Len(port) = 2 /\ size \in Nat
  BY AddressFields
<1>3. AddressBytes(a) = s2
  BY DEF AddressBytes
<1> HIDE DEF s0, w, port, size
<1>4. s1 \in Seq(Nat) /\ Len(s1) = Len(s0) + Len(w)
  BY <1>1, <1>2, ConcatProperties
<1> HIDE DEF s1
<1>5. s2 \in Seq(Nat) /\ Len(s2) = Len(s1) + Len(port)
  BY <1>2, <1>4, ConcatProperties
<1> HIDE DEF s2
<1>6. Len(s2) = 3 + size
  BY <1>1, <1>2, <1>4, <1>5
<1> QED BY <1>3, <1>5, <1>6 DEF size

LEMMA AddressIsRead ==
    ASSUME NEW a \in Address, NEW s \in Seq(Nat), NEW p \in Nat, NEW as, Holds(s, p, AddressBytes(a))
    PROVE  NextAddress(s, [position |-> p, addresses |-> as]) =
               [position |-> p + Len(AddressBytes(a)), addresses |-> Append(as, a)]
<1> DEFINE size == IF a.type = 0 THEN 4 ELSE 16
           s0 == <<a.type>>
           s1 == s0 \o OnWire(a)
           port == Turned(a.port)
<1>1. /\ a = [type |-> a.type, ip |-> a.ip, port |-> a.port]
      /\ a.type \in {0, 1} /\ size \in Nat
      /\ port \in Seq(Nat) /\ Len(port) = 2 /\ Turned(port) = a.port
      /\ OnWire(a) \in Seq(Nat) /\ Len(OnWire(a)) = size
      /\ a.ip = IF a.type = 0 THEN OnWire(a) ELSE Turned(OnWire(a))
  BY AddressFields
<1>2. s0 \in Seq(Nat) /\ Len(s0) = 1 /\ s0[1] = a.type
  BY <1>1, OneByte
<1>3. AddressBytes(a) = s1 \o port
  BY DEF AddressBytes
<1> HIDE DEF size, s0, port
<1>4. s1 \in Seq(Nat) /\ Len(s1) = 1 + size
  <2> DEFINE w == OnWire(a)
  <2>1. w \in Seq(Nat) /\ Len(w) = size
    BY <1>1
  <2> HIDE DEF w
  <2>2. s0 \o w \in Seq(Nat) /\ Len(s0 \o w) = Len(s0) + Len(w)
    BY <1>2, <2>1, ConcatProperties
  <2> QED BY <1>2, <2>1, <2>2 DEF w
<1>5. Holds(s, p, s1) /\ Holds(s, p + Len(s1), port)
  <2>1. Holds(s, p, s1 \o port)
    BY <1>3
  <2> HIDE DEF s1
  <2> QED BY <1>1, <1>4, <2>1, HoldsParts
<1>6. Holds(s, p, s0) /\ Holds(s, p + 1, OnWire(a))
  <2>1. Holds(s, p, s0) /\ Holds(s, p + Len(s0), OnWire(a))
    BY <1>1, <1>2, <1>5, HoldsParts
  <2> QED BY <1>2, <2>1
<1> HIDE DEF s1
<1>7. Read(s, p, 1)[1] = a.type
  BY <1>2, <1>6, ReadHeld
<1>8. Read(s, p + 1, size) = OnWire(a)
  <2>1. p + 1 \in Nat
    OBVIOUS
  <2>2. Read(s, p + 1, Len(OnWire(a))) = OnWire(a)
    BY <1>1, <1>6, <2>1, ReadHeld
  <2> QED BY <1>1, <2>2
<1>9. Read(s, p + 1 + size, 2) = port
  <2>1. p + Len(s1) = p + 1 + size /\ p + 1 + size \in Nat
    <3> DEFINE n == Len(s1)
    <3>1. n = 1 + size /\ size \in Nat
      BY <1>1, <1>4
    <3> HIDE DEF n
    <3> QED BY <3>1 DEF n
  <2>2. Read(s, p + 1 + size, Len(port)) = port
    BY <1>1, <1>5, <2>1, ReadHeld
  <2> QED BY <1>1, <2>2
<1>10. p + Len(AddressBytes(a)) = p + 3 + size
  <2>1. Len(AddressBytes(a)) = 3 + size
    BY AddressWidth DEF size
  <2> QED BY <1>1, <2>1
<1>11. [type |-> a.type, ip |-> IF a.type = 0 THEN OnWire(a) ELSE Turned(OnWire(a)), port |-> Turned(port)] = a
  BY <1>1
<1> DEFINE read == [position |-> p, addresses |-> as]
<1>12. read.position = p /\ read.addresses = as
  OBVIOUS
<1> HIDE DEF read
<1>13. NextAddress(s, read) =
           [position |-> p + 3 + size,
            addresses |-> Append(as, [type |-> a.type,
                                      ip |-> IF a.type = 0 THEN OnWire(a) ELSE Turned(OnWire(a)),
                                      port |-> Turned(port)])]
  BY <1>7, <1>8, <1>9, <1>12 DEF NextAddress, size
<1> QED BY <1>10, <1>11, <1>13 DEF read

\* What the first i of some sequences are together.
FlatTo(s, i) == FlattenSeq(SubSeq(s, 1, i))

LEMMA FlattenSteps ==
    ASSUME NEW S, NEW s \in Seq(Seq(S))
    PROVE  /\ FlatTo(s, 0) = <<>> /\ FlatTo(s, Len(s)) = FlattenSeq(s)
           /\ \A i \in 0 .. Len(s) : FlatTo(s, i) \in Seq(S)
           /\ \A i \in 1 .. Len(s) :
                 /\ FlatTo(s, i) = FlatTo(s, i - 1) \o s[i]
                 /\ \E r \in Seq(S) : FlattenSeq(s) = FlatTo(s, i) \o r
<1>1. Len(s) \in Nat /\ \A i \in 1 .. Len(s) : s[i] \in Seq(S)
  BY LenProperties, ElementOfSeq
<1>2. FlatTo(s, 0) = <<>>
  <2>1. SubSeq(s, 1, 0) = <<>>
    BY SubSeqEmpty
  <2>2. FlattenSeq(<<>>) = <<>>
    <3>1. <<>> \in Seq({})
      BY EmptySeq
    <3> QED BY <3>1, FlattenOne
  <2> QED BY <2>1, <2>2 DEF FlatTo
<1>3. FlatTo(s, Len(s)) = FlattenSeq(s)
  BY SubSeqFull DEF FlatTo
<1>4. ASSUME NEW i \in 0 .. Len(s)
      PROVE  FlatTo(s, i) \in Seq(S) /\ \E r \in Seq(S) : FlattenSeq(s) = FlatTo(s, i) \o r
  <2>1. /\ FlattenSeq(SubSeq(s, 0 + 1, i)) \in Seq(S) /\ FlattenSeq(SubSeq(s, i + 1, Len(s))) \in Seq(S)
        /\ FlattenSeq(SubSeq(s, 0 + 1, Len(s))) =
              FlattenSeq(SubSeq(s, 0 + 1, i)) \o FlattenSeq(SubSeq(s, i + 1, Len(s)))
    <3>1. 0 \in 0 .. Len(s) /\ i \in 0 .. Len(s)
      BY <1>1
    <3> QED BY <3>1, FlattenCut
  <2>2. 0 + 1 = 1
    OBVIOUS
  <2> QED BY <1>3, <2>1, <2>2 DEF FlatTo
<1>5. ASSUME NEW i \in 1 .. Len(s) PROVE FlatTo(s, i) = FlatTo(s, i - 1) \o s[i]
  <2> DEFINE b == SubSeq(s, 1, i - 1)
  <2>1. /\ i \in 1 .. Len(s) /\ 1 \in 1 .. Len(s) /\ i \in 1 .. Len(s) /\ i - 1 \in 0 .. Len(s) /\ s[i] \in Seq(S)
    BY <1>1
  <2>2. b \in Seq(Seq(S))
    BY <2>1, CutInTwo
  <2>3. SubSeq(s, 1, i) = b \o <<s[i]>>
    BY <2>1, SubSeqRecursiveSecond
  <2> HIDE DEF b
  <2>4. SubSeq(s, 1, i) = Append(b, s[i])
    BY <2>1, <2>2, <2>3, AppendIsConcat
  <2>5. FlattenSeq(Append(b, s[i])) = FlattenSeq(b) \o s[i]
    BY <2>1, <2>2, FlattenAppend
  <2> QED BY <2>4, <2>5 DEF FlatTo, b
<1>6. \A i \in 1 .. Len(s) : i \in 0 .. Len(s)
  BY <1>1
<1> QED BY <1>2, <1>3, <1>4, <1>5, <1>6

AddressParts(t) == [i \in 1 .. Len(t.addresses) |-> AddressBytes(t.addresses[i])]

\* What is assumed of the sizes.
LEMMA Limits ==
    /\ HmacBytes \in Nat \ {0} /\ MaxAddresses \in 1 .. 255 /\ PrivateBytes \in Nat /\ ChallengeBytes \in Nat
    /\ KeyBytes \in Nat \ {0} /\ UserBytes \in Nat /\ NonceBytes \in Nat /\ BodyCapacity \in Nat
    /\ PrivateBytes - HmacBytes >= 16 + 19 * MaxAddresses + 2 * KeyBytes + UserBytes
    /\ ChallengeBytes - HmacBytes >= 8 + UserBytes
<1>1. /\ HmacBytes \in Nat \ {0} /\ MaxAddresses \in 1 .. 255 /\ PrivateBytes \in Nat /\ ChallengeBytes \in Nat
      /\ KeyBytes \in Nat \ {0} /\ UserBytes \in Nat /\ NonceBytes \in Nat /\ BodyCapacity \in Nat
  BY WireAssumption, Zenon
<1>2. /\ PrivateBytes - HmacBytes >= 8 + 4 + 4 + 19 * MaxAddresses + 2 * KeyBytes + UserBytes
      /\ ChallengeBytes - HmacBytes >= 8 + UserBytes
  BY WireAssumption, Zenon
<1> QED BY <1>1, <1>2

LEMMA Sizes == NonceBytes \in Nat /\ KeyBytes \in Nat \ {0} /\ UserBytes \in Nat /\ 2 * KeyBytes \in Nat
BY Limits

LEMMA TokenFields ==
    ASSUME NEW t \in Tokens
    PROVE  /\ t.addresses \in Seq(Address) /\ Len(t.addresses) \in 1 .. MaxAddresses
           /\ \A i \in 1 .. Len(t.addresses) : t.addresses[i] \in Address
           /\ t.protocol_id \in Field(8) /\ t.create_timestamp \in Field(8) /\ t.expire_timestamp \in Field(8)
           /\ t.connect_token_nonce \in Field(NonceBytes) /\ t.timeout \in Field(4)
           /\ t.client_to_server_key \in Field(KeyBytes) /\ t.server_to_client_key \in Field(KeyBytes)
           /\ t.client_id \in Field(8) /\ t.user_data \in Field(UserBytes)
<1>1. t \in Token /\ Len(t.addresses) \in 1 .. MaxAddresses
  BY WireAssumption
<1>2. t.addresses \in Seq(Address)
  BY <1>1 DEF Token
<1> QED BY <1>1, <1>2, ElementOfSeq DEF Token

LEMMA PartsType ==
    ASSUME NEW t \in Tokens
    PROVE  /\ AddressParts(t) \in Seq(Seq(Nat)) /\ Len(AddressParts(t)) = Len(t.addresses)
           /\ \A i \in 1 .. Len(t.addresses) : AddressParts(t)[i] = AddressBytes(t.addresses[i])
<1> DEFINE n == Len(t.addresses)
           e == AddressParts(t)
<1>1. n \in Nat /\ \A i \in 1 .. n : AddressBytes(t.addresses[i]) \in Seq(Nat)
  <2>1. n \in 1 .. MaxAddresses /\ \A i \in 1 .. n : t.addresses[i] \in Address
    BY TokenFields
  <2>2. n \in Nat
    BY <2>1, Limits
  <2> QED BY <2>1, <2>2, AddressWidth
<1>2. e \in [1 .. n -> Seq(Nat)] /\ \A i \in 1 .. n : e[i] = AddressBytes(t.addresses[i])
  BY <1>1 DEF AddressParts
<1> HIDE DEF n, e
<1>3. e \in Seq(Seq(Nat))
  <2>1. Seq(Seq(Nat)) = UNION {[1 .. k -> Seq(Nat)] : k \in Nat}
    BY SeqDef, Zenon
  <2>2. [1 .. n -> Seq(Nat)] \in {[1 .. k -> Seq(Nat)] : k \in Nat}
    BY <1>1
  <2> QED BY <1>2, <2>1, <2>2, Zenon
<1>4. Len(e) = n
  <2>1. Len(e) \in Nat /\ 1 .. Len(e) = 1 .. n
    BY <1>2, <1>3, LenProperties
  <2> QED BY <1>1, <2>1
<1> QED BY <1>2, <1>3, <1>4 DEF e, n

LEMMA FourBytes ==
    ASSUME NEW n \in Nat
    PROVE  <<n, 0, 0, 0>> \in Seq(Nat) /\ Len(<<n, 0, 0, 0>>) = 4
OBVIOUS

LEMMA AddressesWidth ==
    ASSUME NEW t \in Tokens
    PROVE  /\ AddressesBytes(t) \in Seq(Nat)
           /\ Len(AddressesBytes(t)) = 4 + Len(FlattenSeq(AddressParts(t)))
           /\ Len(AddressesBytes(t)) <= 4 + 19 * MaxAddresses
<1> DEFINE n == Len(t.addresses)
           e == AddressParts(t)
           F(i) == FlatTo(e, i)
           T == {i \in 0 .. n : ~ (Len(F(i)) <= 19 * i)}
<1>1. n \in 1 .. MaxAddresses /\ MaxAddresses \in Nat
  <2>1. n \in 1 .. MaxAddresses
    BY TokenFields
  <2>2. MaxAddresses \in Nat
    BY Limits
  <2> QED BY <2>1, <2>2
<1>2. e \in Seq(Seq(Nat)) /\ Len(e) = n
  BY PartsType
<1>3. \A i \in 1 .. n : e[i] \in Seq(Nat) /\ Len(e[i]) <= 19
  <2>1. ASSUME NEW a \in Address PROVE AddressBytes(a) \in Seq(Nat) /\ Len(AddressBytes(a)) <= 19
    <3> DEFINE w == AddressBytes(a)
               size == IF a.type = 0 THEN 4 ELSE 16
    <3>1. w \in Seq(Nat) /\ Len(w) = 3 + size
      BY AddressWidth
    <3>2. size \in {4, 16}
      OBVIOUS
    <3> HIDE DEF size, w
    <3>3. Len(w) <= 19
      BY <3>1, <3>2
    <3> QED BY <3>1, <3>3 DEF w
  <2> QED BY <2>1, PartsType, TokenFields
<1> HIDE DEF e, n
<1>4. /\ F(0) = <<>> /\ F(n) = FlattenSeq(e)
      /\ \A i \in 0 .. n : F(i) \in Seq(Nat)
      /\ \A i \in 1 .. n : F(i) = F(i - 1) \o e[i]
  BY <1>2, FlattenSteps
<1> HIDE DEF F
<1>5. ASSUME NEW m \in T, \A k \in T : m <= k PROVE FALSE
  <2>1. m \in 0 .. n /\ ~ (Len(F(m)) <= 19 * m)
    OBVIOUS
  <2>2. CASE m = 0
    <3>1. Len(F(m)) = 0
      BY <1>4, <2>2, EmptySeq
    <3> QED BY <2>1, <2>2, <3>1
  <2>3. CASE m # 0
    <3>1. m \in 1 .. n /\ m - 1 \in 0 .. n /\ m - 1 < m
      BY <1>1, <2>1, <2>3
    <3>2. Len(F(m - 1)) <= 19 * (m - 1)
      BY <1>5, <3>1
    <3>3. F(m - 1) \in Seq(Nat) /\ e[m] \in Seq(Nat) /\ Len(e[m]) <= 19 /\ F(m) = F(m - 1) \o e[m]
      BY <1>3, <1>4, <3>1
    <3>4. Len(F(m)) = Len(F(m - 1)) + Len(e[m]) /\ Len(F(m - 1)) \in Nat /\ Len(e[m]) \in Nat
      BY <3>3, ConcatProperties, LenProperties
    <3> DEFINE x == Len(F(m))
               y == Len(F(m - 1))
               z == Len(e[m])
    <3>5. x = y + z /\ y \in Nat /\ z \in Nat /\ z <= 19 /\ y <= 19 * (m - 1) /\ ~ (x <= 19 * m)
      BY <2>1, <3>2, <3>3, <3>4
    <3> HIDE DEF x, y, z
    <3> QED BY <3>1, <3>5
  <2> QED BY <2>2, <2>3
<1>6. T = {}
  <2>1. T \in SUBSET Nat
    BY <1>1
  <2> HIDE DEF T
  <2> QED BY <1>5, <2>1, Least
<1>7. n \in 0 .. n /\ n \notin T
  BY <1>1, <1>6
<1>8. Len(F(n)) <= 19 * n /\ F(n) \in Seq(Nat)
  BY <1>4, <1>7
<1>9. AddressesBytes(t) = <<n, 0, 0, 0>> \o F(n)
  BY <1>4 DEF AddressesBytes, AddressParts, e, n
<1>10. <<n, 0, 0, 0>> \in Seq(Nat) /\ Len(<<n, 0, 0, 0>>) = 4
  BY <1>1, FourBytes
<1> DEFINE h == <<n, 0, 0, 0>>
           f == F(n)
<1> HIDE DEF h
<1>11. h \in Seq(Nat) /\ Len(h) = 4 /\ f \in Seq(Nat)
  BY <1>8, <1>10 DEF h
<1> HIDE DEF f
<1>12. h \o f \in Seq(Nat) /\ Len(h \o f) = Len(h) + Len(f)
  BY <1>11, ConcatProperties
<1>13. AddressesBytes(t) \in Seq(Nat) /\ Len(AddressesBytes(t)) = 4 + Len(F(n))
  BY <1>9, <1>11, <1>12 DEF h, f
<1>14. Len(F(n)) \in Nat
  BY <1>8, LenProperties
<1>15. 4 + Len(F(n)) <= 4 + 19 * MaxAddresses
  BY <1>1, <1>8, <1>14
<1> QED BY <1>4, <1>13, <1>15 DEF e

LEMMA OneMore ==
    ASSUME NEW S, NEW s \in Seq(S), NEW i \in 1 .. Len(s)
    PROVE  SubSeq(s, 1, i - 1) \in Seq(S) /\ SubSeq(s, 1, i) = Append(SubSeq(s, 1, i - 1), s[i])
<1> DEFINE b == SubSeq(s, 1, i - 1)
<1>1. Len(s) \in Nat
  BY LenProperties
<1>2. i \in 1 .. Len(s) /\ 1 \in 1 .. Len(s) /\ i - 1 \in 0 .. Len(s)
  BY <1>1
<1>3. s[i] \in S /\ b \in Seq(S)
  BY <1>2, ElementOfSeq, CutInTwo
<1>4. SubSeq(s, 1, i) = b \o <<s[i]>>
  BY <1>2, SubSeqRecursiveSecond
<1> HIDE DEF b
<1>5. SubSeq(s, 1, i) = Append(b, s[i])
  BY <1>3, <1>4, AppendIsConcat
<1> QED BY <1>3, <1>5 DEF b

LEMMA AddressesAreRead ==
    ASSUME NEW t \in Tokens, NEW s \in Seq(Nat), NEW p \in Nat, Holds(s, p, AddressesBytes(t))
    PROVE  AddressesAt(s, p) = [position |-> p + Len(AddressesBytes(t)), addresses |-> t.addresses]
<1> DEFINE as == t.addresses
           n == Len(as)
           e == AddressParts(t)
           F(i) == FlatTo(e, i)
           h == <<n, 0, 0, 0>>
           start == [position |-> p + 4, addresses |-> <<>>]
           f == [i \in 0 .. n |-> [position |-> p + 4 + Len(F(i)), addresses |-> SubSeq(as, 1, i)]]
           Steps(g) == g = [i \in 0 .. n |-> IF i = 0 THEN start ELSE NextAddress(s, g[i - 1])]
<1>1. /\ n \in 1 .. MaxAddresses /\ MaxAddresses \in Nat /\ as \in Seq(Address)
      /\ \A i \in 1 .. n : as[i] \in Address
  BY TokenFields, Limits
<1>2. e \in Seq(Seq(Nat)) /\ Len(e) = n /\ \A i \in 1 .. n : e[i] = AddressBytes(as[i])
  BY PartsType
<1>3. /\ Holds(s, p, h \o FlattenSeq(e))
      /\ Len(AddressesBytes(t)) = 4 + Len(FlattenSeq(e))
  BY AddressesWidth DEF AddressesBytes, AddressParts
<1>4. h \in Seq(Nat) /\ Len(h) = 4 /\ h[1] = n
  BY <1>1, FourBytes
<1> HIDE DEF e, h, F
<1>5. /\ F(0) = <<>> /\ F(n) = FlattenSeq(e)
      /\ \A i \in 0 .. n : F(i) \in Seq(Nat)
      /\ \A i \in 1 .. n : F(i) = F(i - 1) \o e[i] /\ \E r \in Seq(Nat) : FlattenSeq(e) = F(i) \o r
  BY <1>2, FlattenSteps DEF F
<1>6. Holds(s, p, h) /\ Holds(s, p + 4, FlattenSeq(e))
  <2>1. FlattenSeq(e) \in Seq(Nat)
    BY <1>1, <1>5
  <2>2. Holds(s, p, h) /\ Holds(s, p + Len(h), FlattenSeq(e))
    BY <1>3, <1>4, <2>1, HoldsParts
  <2> QED BY <1>4, <2>2
<1>7. s[p + 1] = n
  <2>1. \A i \in 1 .. Len(h) : s[p + i] = h[i]
    BY <1>6 DEF Holds
  <2>2. 1 \in 1 .. Len(h)
    BY <1>4
  <2> QED BY <1>4, <2>1, <2>2
<1>8. \A i \in 0 .. n : Len(F(i)) \in Nat
  BY <1>5, LenProperties
<1>9. f[0] = start
  <2>1. SubSeq(as, 1, 0) = <<>>
    BY SubSeqEmpty
  <2>2. Len(F(0)) = 0
    BY <1>5, EmptySeq
  <2>3. 0 \in 0 .. n /\ p + 4 + 0 = p + 4
    BY <1>1
  <2> HIDE DEF as
  <2> QED BY <2>1, <2>2, <2>3
<1>10. ASSUME NEW i \in 1 .. n PROVE NextAddress(s, f[i - 1]) = f[i]
  <2> DEFINE q == p + 4 + Len(F(i - 1))
             a == as[i]
             before == SubSeq(as, 1, i - 1)
  <2>1. i - 1 \in 0 .. n /\ i \in 0 .. n /\ q \in Nat /\ a \in Address /\ e[i] = AddressBytes(a)
    <3>1. i - 1 \in 0 .. n /\ i \in 0 .. n
      BY <1>1
    <3>2. q \in Nat
      <4> HIDE DEF F, n
      <4> QED BY <1>8, <3>1
    <3>3. a \in Address /\ e[i] = AddressBytes(a)
      BY <1>1, <1>2
    <3> QED BY <3>1, <3>2, <3>3
  <2>2. PICK r \in Seq(Nat) : FlattenSeq(e) = F(i) \o r
    BY <1>5
  <2>3. F(i) \in Seq(Nat) /\ F(i - 1) \in Seq(Nat) /\ e[i] \in Seq(Nat) /\ F(i) = F(i - 1) \o e[i]
    BY <1>2, <1>5, <2>1, AddressWidth
  <2>4. Holds(s, p + 4, F(i))
    <3>1. p + 4 \in Nat /\ Holds(s, p + 4, F(i) \o r)
      BY <1>6, <2>2
    <3> QED BY <2>3, <3>1, HoldsParts
  <2>5. Holds(s, q, e[i])
    <3>1. p + 4 \in Nat /\ Holds(s, p + 4, F(i - 1) \o e[i])
      BY <2>3, <2>4
    <3> QED BY <2>3, <3>1, HoldsParts
  <2>6. NextAddress(s, [position |-> q, addresses |-> before]) =
            [position |-> q + Len(AddressBytes(a)), addresses |-> Append(before, a)]
    <3> HIDE DEF q, a, before
    <3> QED BY <2>1, <2>5, AddressIsRead
  <2>7. f[i - 1] = [position |-> q, addresses |-> before]
    BY <2>1
  <2>8. Append(before, a) = SubSeq(as, 1, i)
    BY <1>1, OneMore
  <2>9. q + Len(AddressBytes(a)) = p + 4 + Len(F(i))
    <3>1. Len(F(i)) = Len(F(i - 1)) + Len(e[i])
      BY <2>3, ConcatProperties
    <3>2. Len(F(i - 1)) \in Nat /\ Len(e[i]) \in Nat /\ e[i] = AddressBytes(a)
      BY <2>1, <2>3, LenProperties
    <3> QED BY <3>1, <3>2
  <2>10. f[i] = [position |-> p + 4 + Len(F(i)), addresses |-> SubSeq(as, 1, i)]
    BY <2>1
  <2> QED BY <2>6, <2>7, <2>8, <2>9, <2>10
<1>11. f[n] = [position |-> p + Len(AddressesBytes(t)), addresses |-> as]
  <2>1. SubSeq(as, 1, n) = as
    BY <1>1, SubSeqFull
  <2>2. n \in 0 .. n /\ Len(F(n)) \in Nat
    BY <1>1, <1>8
  <2>3. p + 4 + Len(F(n)) = p + Len(AddressesBytes(t))
    BY <1>3, <1>5, <2>2
  <2>4. f[n] = [position |-> p + 4 + Len(F(n)), addresses |-> SubSeq(as, 1, n)]
    BY <2>2
  <2> QED BY <2>1, <2>3, <2>4
<1> HIDE DEF n, as
<1>12. Steps(f)
  <2>1. \A i \in 0 .. n : f[i] = IF i = 0 THEN start ELSE NextAddress(s, f[i - 1])
    <3> SUFFICES ASSUME NEW i \in 0 .. n PROVE f[i] = IF i = 0 THEN start ELSE NextAddress(s, f[i - 1])
      OBVIOUS
    <3>1. CASE i = 0
      BY <1>9, <3>1
    <3>2. CASE i # 0
      <4>1. i \in 1 .. n
        BY <1>1, <3>2
      <4> HIDE DEF f
      <4> QED BY <1>10, <3>2, <4>1
    <3> QED BY <3>1, <3>2
  <2>2. f = [i \in 0 .. n |-> f[i]]
    OBVIOUS
  <2> HIDE DEF f
  <2> QED BY <2>1, <2>2
<1> HIDE DEF f
<1>13. PICK g : Steps(g) /\ AddressesAt(s, p) = g[n]
  <2>1. \E g : g = [i \in 0 .. n |-> IF i = 0 THEN start ELSE NextAddress(s, g[i - 1])]
    BY <1>12
  <2> QED BY <1>7, <2>1 DEF AddressesAt
<1>14. g[n] = f[n]
  <2>1. g[0] = start /\ \A i \in 1 .. n : g[i] = NextAddress(s, g[i - 1])
    <3>1. \A i \in 0 .. n : g[i] = IF i = 0 THEN start ELSE NextAddress(s, g[i - 1])
      BY <1>13
    <3> HIDE DEF start
    <3> QED BY <1>1, <3>1
  <2>2. Follows(g, f, n)
    <3> HIDE DEF start
    <3> QED BY <1>9, <1>10, <2>1 DEF Follows
  <2>3. \A i \in 0 .. n : f[i] = g[i]
    BY <1>1, <2>2, Agreement
  <2> QED BY <1>1, <2>3
<1> QED BY <1>11, <1>13, <1>14 DEF as

(***************************************************************************)
(* Tokens.                                                                 *)
(***************************************************************************)
\* What the client reads from a token of its own build.
ClientOf(t, private) ==
    [version |-> TRUE, protocol_id |-> t.protocol_id, expire_timestamp |-> t.expire_timestamp,
     connect_token_nonce |-> t.connect_token_nonce, private |-> private, timeout |-> t.timeout,
     addresses |-> t.addresses, keys |-> KeysOf(t)]

\* What the server reads from the private part.
PrivateFields(t) ==
    [client_id |-> t.client_id, timeout |-> t.timeout, addresses |-> t.addresses,
     keys |-> KeysOf(t), user_data |-> t.user_data]

LEMMA TokenSequences ==
    ASSUME NEW t \in Tokens
    PROVE  /\ t.protocol_id \in Seq(Nat) /\ Len(t.protocol_id) = 8
           /\ t.create_timestamp \in Seq(Nat) /\ Len(t.create_timestamp) = 8
           /\ t.expire_timestamp \in Seq(Nat) /\ Len(t.expire_timestamp) = 8
           /\ t.connect_token_nonce \in Seq(Nat) /\ Len(t.connect_token_nonce) = NonceBytes
           /\ t.timeout \in Seq(Nat) /\ Len(t.timeout) = 4
           /\ t.client_id \in Seq(Nat) /\ Len(t.client_id) = 8
           /\ t.user_data \in Seq(Nat) /\ Len(t.user_data) = UserBytes
           /\ KeysOf(t) \in Seq(Nat) /\ Len(KeysOf(t)) = 2 * KeyBytes /\ KeysOf(t) # <<>>
<1>1. 8 \in Nat /\ 4 \in Nat
  OBVIOUS
<1> DEFINE c == t.client_to_server_key
           d == t.server_to_client_key
<1>2. c \in Seq(Nat) /\ Len(c) = KeyBytes /\ d \in Seq(Nat) /\ Len(d) = KeyBytes
  BY Sizes, TokenFields, FieldBytes
<1> HIDE DEF c, d
<1>3. c \o d \in Seq(Nat) /\ Len(c \o d) = 2 * KeyBytes
  <2>1. c \o d \in Seq(Nat) /\ Len(c \o d) = Len(c) + Len(d)
    BY <1>2, ConcatProperties
  <2> QED BY <1>2, <2>1, Sizes
<1>4. c \o d # <<>>
  <2>1. 2 * KeyBytes # 0
    BY Sizes
  <2> QED BY <1>3, <2>1, EmptySeq
<1>5. KeysOf(t) = c \o d
  BY DEF KeysOf, c, d
<1>6. /\ t.connect_token_nonce \in Seq(Nat) /\ Len(t.connect_token_nonce) = NonceBytes
      /\ t.user_data \in Seq(Nat) /\ Len(t.user_data) = UserBytes
  BY Sizes, TokenFields, FieldBytes
<1>7. /\ t.protocol_id \in Seq(Nat) /\ Len(t.protocol_id) = 8
      /\ t.create_timestamp \in Seq(Nat) /\ Len(t.create_timestamp) = 8
      /\ t.expire_timestamp \in Seq(Nat) /\ Len(t.expire_timestamp) = 8
      /\ t.client_id \in Seq(Nat) /\ Len(t.client_id) = 8
      /\ t.timeout \in Seq(Nat) /\ Len(t.timeout) = 4
  BY <1>1, TokenFields, FieldBytes
<1> QED BY <1>3, <1>4, <1>5, <1>6, <1>7

LEMMA VersionSequences ==
    /\ VersionInfo \in Seq(Nat) /\ OtherVersion \in Seq(Nat)
    /\ Len(OtherVersion) = Len(VersionInfo) /\ Len(VersionInfo) \in Nat
BY WireAssumption, SeqOfBytes, LenProperties

LEMMA PublicIsRead ==
    ASSUME NEW t \in Tokens, NEW version \in {VersionInfo, OtherVersion},
           NEW private \in Seq(Nat), Len(private) = PrivateBytes
    PROVE  PublicOf(TokenBytes(version, t, private)) =
               IF version = VersionInfo THEN ClientOf(t, private) ELSE Unread
<1> DEFINE v == Len(VersionInfo)
           x2 == t.protocol_id
           x3 == t.create_timestamp
           x4 == t.expire_timestamp
           x5 == t.connect_token_nonce
           x7 == t.timeout
           x8 == AddressesBytes(t)
           x9 == KeysOf(t)
           N8 == Len(x8)
           p == v + 24 + NonceBytes
           s2 == version \o x2
           s3 == s2 \o x3
           s4 == s3 \o x4
           s5 == s4 \o x5
           s6 == s5 \o private
           s7 == s6 \o x7
           s8 == s7 \o x8
           s == s8 \o x9
<1>1. /\ version \in Seq(Nat) /\ Len(version) = v /\ v \in Nat
      /\ x2 \in Seq(Nat) /\ Len(x2) = 8 /\ x3 \in Seq(Nat) /\ Len(x3) = 8
      /\ x4 \in Seq(Nat) /\ Len(x4) = 8 /\ x5 \in Seq(Nat) /\ Len(x5) = NonceBytes
      /\ x7 \in Seq(Nat) /\ Len(x7) = 4 /\ x8 \in Seq(Nat) /\ N8 \in Nat
      /\ x9 \in Seq(Nat) /\ Len(x9) = 2 * KeyBytes
      /\ PrivateBytes \in Nat /\ NonceBytes \in Nat
  <2>1. version \in Seq(Nat) /\ Len(version) = v /\ v \in Nat
    BY VersionSequences
  <2>2. x8 \in Seq(Nat) /\ N8 \in Nat
    BY AddressesWidth, LenProperties
  <2>3. /\ x2 \in Seq(Nat) /\ Len(x2) = 8 /\ x3 \in Seq(Nat) /\ Len(x3) = 8
        /\ x4 \in Seq(Nat) /\ Len(x4) = 8 /\ x5 \in Seq(Nat) /\ Len(x5) = NonceBytes
        /\ x7 \in Seq(Nat) /\ Len(x7) = 4 /\ x9 \in Seq(Nat) /\ Len(x9) = 2 * KeyBytes
    BY TokenSequences
  <2>4. PrivateBytes \in Nat /\ NonceBytes \in Nat
    BY Sizes, Limits
  <2> QED BY <2>1, <2>2, <2>3, <2>4
<1>2. TokenBytes(version, t, private) = s
  BY DEF TokenBytes
<1>3. x8 = AddressesBytes(t) /\ x9 = KeysOf(t) /\ N8 = Len(x8)
  OBVIOUS
<1> HIDE DEF v, x2, x3, x4, x5, x7, x8, x9, N8
<1>4. Extends(version, x2, s2)
  BY <1>1, Extended
<1>5. s2 \in Seq(Nat) /\ Len(s2) = v + 8
  BY <1>1, <1>4 DEF Extends
<1> HIDE DEF s2
<1>6. Extends(s2, x3, s3)
  BY <1>1, <1>5, Extended
<1>7. s3 \in Seq(Nat) /\ Len(s3) = v + 16
  BY <1>1, <1>5, <1>6 DEF Extends
<1> HIDE DEF s3
<1>8. Extends(s3, x4, s4)
  BY <1>1, <1>7, Extended
<1>9. s4 \in Seq(Nat) /\ Len(s4) = v + 24
  BY <1>1, <1>7, <1>8 DEF Extends
<1> HIDE DEF s4
<1>10. Extends(s4, x5, s5)
  BY <1>1, <1>9, Extended
<1>11. s5 \in Seq(Nat) /\ Len(s5) = p
  BY <1>1, <1>9, <1>10 DEF Extends
<1> HIDE DEF s5
<1>12. Extends(s5, private, s6)
  BY <1>11, Extended
<1>13. s6 \in Seq(Nat) /\ Len(s6) = p + PrivateBytes
  BY <1>1, <1>11, <1>12 DEF Extends
<1> HIDE DEF s6
<1>14. Extends(s6, x7, s7)
  BY <1>1, <1>13, Extended
<1>15. s7 \in Seq(Nat) /\ Len(s7) = p + PrivateBytes + 4
  BY <1>1, <1>13, <1>14 DEF Extends
<1> HIDE DEF s7
<1>16. Extends(s7, x8, s8)
  BY <1>1, <1>15, Extended
<1>17. s8 \in Seq(Nat) /\ Len(s8) = p + PrivateBytes + 4 + N8
  BY <1>1, <1>3, <1>15, <1>16 DEF Extends
<1> HIDE DEF s8
<1>18. Extends(s8, x9, s)
  BY <1>1, <1>17, Extended
<1>19. s \in Seq(Nat)
  BY <1>18 DEF Extends
<1> HIDE DEF s
<1>20. Holds(s, p + PrivateBytes + 4, x8) /\ Holds(s, p + PrivateBytes + 4 + N8, x9)
  <2>1. p + PrivateBytes + 4 \in Nat
    BY <1>1
  <2> HIDE DEF p
  <2> QED BY <1>1, <1>15, <1>16, <1>17, <1>18, <2>1 DEF Extends
<1>21. \A q \in Nat : \A y \in Seq(Nat) : Holds(s6, q, y) => Holds(s, q, y)
  BY <1>14, <1>16, <1>18 DEF Extends
<1>22. Holds(s, p, private) /\ Holds(s, p + PrivateBytes, x7)
  <2>1. p \in Nat /\ p + PrivateBytes \in Nat
    BY <1>1
  <2> HIDE DEF p
  <2>2. Holds(s6, p, private) /\ Holds(s7, p + PrivateBytes, x7)
    BY <1>11, <1>12, <1>13, <1>14 DEF Extends
  <2>3. \A q \in Nat : \A y \in Seq(Nat) : Holds(s7, q, y) => Holds(s, q, y)
    BY <1>16, <1>18 DEF Extends
  <2> QED BY <1>1, <1>21, <2>1, <2>2, <2>3
<1>23. \A q \in Nat : \A y \in Seq(Nat) : Holds(s5, q, y) => Holds(s, q, y)
  BY <1>12, <1>21 DEF Extends
<1>24. Holds(s, v + 16, x4) /\ Holds(s, v + 24, x5)
  <2>1. v + 16 \in Nat /\ v + 24 \in Nat
    BY <1>1
  <2>2. Holds(s4, v + 16, x4) /\ Holds(s5, v + 24, x5)
    BY <1>7, <1>8, <1>9, <1>10 DEF Extends
  <2>3. \A q \in Nat : \A y \in Seq(Nat) : Holds(s4, q, y) => Holds(s, q, y)
    BY <1>10, <1>23 DEF Extends
  <2> QED BY <1>1, <1>23, <2>1, <2>2, <2>3
<1>25. Holds(s, v, x2) /\ SubSeq(s, 1, v) = version
  <2>1. \A q \in Nat : \A y \in Seq(Nat) : Holds(s2, q, y) => Holds(s, q, y)
    BY <1>6, <1>8, <1>10, <1>23 DEF Extends
  <2>2. Holds(s2, v, x2)
    BY <1>1, <1>4 DEF Extends
  <2>3. Holds(version, 0, version)
    BY <1>1 DEF Holds
  <2>4. Holds(s, 0, version) /\ Holds(s, v, x2)
    <3>1. 0 \in Nat
      OBVIOUS
    <3> QED BY <1>1, <1>4, <2>1, <2>2, <2>3, <3>1 DEF Extends
  <2>5. SubSeq(s, 1, Len(version)) = version
    BY <1>1, <1>19, <2>4, HeldAtFront
  <2> QED BY <1>1, <2>4, <2>5
<1>26. CASE version # VersionInfo
  BY <1>2, <1>25, <1>26 DEF PublicOf, v
<1>27. CASE version = VersionInfo
  <2>1. Read(s, v, 8) = x2
    BY <1>1, <1>19, <1>25, ReadHeld
  <2>2. Read(s, v + 16, 8) = x4 /\ Read(s, v + 24, NonceBytes) = x5
    <3>1. v + 16 \in Nat /\ v + 24 \in Nat
      BY <1>1
    <3> QED BY <1>1, <1>19, <1>24, <3>1, ReadHeld
  <2>3. Read(s, p, PrivateBytes) = private /\ Read(s, p + PrivateBytes, 4) = x7
    <3>1. p \in Nat /\ p + PrivateBytes \in Nat
      BY <1>1
    <3> HIDE DEF p
    <3> QED BY <1>1, <1>19, <1>22, <3>1, ReadHeld
  <2>4. AddressesAt(s, p + PrivateBytes + 4) =
            [position |-> p + PrivateBytes + 4 + N8, addresses |-> t.addresses]
    <3>1. p + PrivateBytes + 4 \in Nat
      BY <1>1
    <3> HIDE DEF p
    <3> QED BY <1>3, <1>19, <1>20, <3>1, AddressesAreRead
  <2>5. Read(s, p + PrivateBytes + 4 + N8, 2 * KeyBytes) = x9
    <3>1. p + PrivateBytes + 4 + N8 \in Nat
      BY <1>1
    <3> HIDE DEF p
    <3> QED BY <1>1, <1>19, <1>20, <3>1, ReadHeld
  <2>6. PublicOf(s) =
            [version |-> TRUE, protocol_id |-> x2, expire_timestamp |-> x4,
             connect_token_nonce |-> x5, private |-> private, timeout |-> x7,
             addresses |-> t.addresses, keys |-> x9]
    <3> DEFINE a == AddressesAt(s, p + PrivateBytes + 4)
    <3>1. a.addresses = t.addresses /\ Read(s, a.position, 2 * KeyBytes) = x9
      <4> DEFINE P == p + PrivateBytes + 4 + N8
      <4> HIDE DEF P
      <4>1. a = [position |-> P, addresses |-> t.addresses]
        BY <2>4 DEF P
      <4>2. a.position = P /\ a.addresses = t.addresses
        <5> HIDE DEF a
        <5> QED BY <4>1
      <4>3. Read(s, P, 2 * KeyBytes) = x9
        BY <2>5 DEF P
      <4> HIDE DEF a
      <4> QED BY <4>2, <4>3
    <3>2. PublicOf(s) =
            [version |-> TRUE, protocol_id |-> Read(s, v, 8), expire_timestamp |-> Read(s, v + 16, 8),
             connect_token_nonce |-> Read(s, v + 24, NonceBytes), private |-> Read(s, p, PrivateBytes),
             timeout |-> Read(s, p + PrivateBytes, 4),
             addresses |-> a.addresses, keys |-> Read(s, a.position, 2 * KeyBytes)]
      <4>1. SubSeq(s, 1, Len(VersionInfo)) = VersionInfo
        BY <1>25, <1>27 DEF v
      <4> QED BY <4>1, Zenon DEF PublicOf, v
    <3> HIDE DEF a, p
    <3> QED BY <2>1, <2>2, <2>3, <3>1, <3>2
  <2>7. PublicOf(s) = ClientOf(t, private)
    BY <2>6 DEF ClientOf, x2, x4, x5, x7, x9
  <2> QED BY <1>2, <1>27, <2>7
<1> QED BY <1>26, <1>27

LEMMA ItFits ==
    ASSUME NEW s \in Seq(Nat), NEW x \in Seq(Nat), NEW capacity \in Nat, Len(s) + Len(x) <= capacity
    PROVE  Written(s, x, capacity) = s \o x
<1>1. ~ (Len(s) + Len(x) > capacity)
  BY LenProperties
<1> QED BY <1>1 DEF Written

LEMMA Padded ==
    ASSUME NEW s \in Seq(Nat), NEW n \in Nat, Len(s) <= n
    PROVE  /\ ZeroPad(s, n) \in Seq(Nat) /\ Len(ZeroPad(s, n)) = n
           /\ \A p \in Nat : \A y \in Seq(Nat) : Holds(s, p, y) => Holds(ZeroPad(s, n), p, y)
<1> DEFINE k == n - Len(s)
           z == [i \in 1 .. k |-> 0]
<1>1. k \in Nat /\ Len(s) \in Nat /\ Len(s) + k = n
  BY LenProperties
<1>2. ZeroPad(s, n) = s \o z
  BY DEF ZeroPad
<1> HIDE DEF k
<1>3. z \in Field(k)
  <2>1. 0 \in Byte
    BY DEF Byte
  <2> QED BY <2>1 DEF Field
<1> HIDE DEF z
<1>4. z \in Seq(Nat) /\ Len(z) = k
  BY <1>1, <1>3, FieldBytes
<1>5. Extends(s, z, s \o z)
  BY <1>4, Extended
<1> QED BY <1>1, <1>2, <1>4, <1>5 DEF Extends

LEMMA PrivateIsRead ==
    ASSUME NEW t \in Tokens
    PROVE  /\ PrivateText(t) \in Seq(Nat) /\ Len(PrivateText(t)) = PrivateBytes - HmacBytes
           /\ PrivateOf(PrivateText(t)) = PrivateFields(t)
<1> DEFINE x1 == t.client_id
           x2 == t.timeout
           x3 == AddressesBytes(t)
           x4 == KeysOf(t)
           x5 == t.user_data
           n3 == Len(x3)
           M == PrivateBytes - HmacBytes
           s2 == x1 \o x2
           s3 == s2 \o x3
           s4 == s3 \o x4
           s5 == s4 \o x5
           z == ZeroPad(s5, PrivateBytes)
           f == SubSeq(z, 1, M)
<1>1. /\ x1 \in Seq(Nat) /\ Len(x1) = 8 /\ x2 \in Seq(Nat) /\ Len(x2) = 4
      /\ x3 \in Seq(Nat) /\ n3 \in Nat /\ x4 \in Seq(Nat) /\ Len(x4) = 2 * KeyBytes
      /\ x5 \in Seq(Nat) /\ Len(x5) = UserBytes
  <2>1. x3 \in Seq(Nat) /\ n3 \in Nat
    BY AddressesWidth, LenProperties
  <2> QED BY <2>1, TokenSequences
<1>2. /\ M \in Nat /\ PrivateBytes \in Nat /\ M <= PrivateBytes
      /\ 12 + n3 + 2 * KeyBytes + UserBytes <= M
  <2>1. n3 <= 4 + 19 * MaxAddresses /\ n3 \in Nat
    BY <1>1, AddressesWidth
  <2> HIDE DEF n3
  <2> QED BY <2>1, Limits
<1>3. n3 = Len(x3) /\ x3 = AddressesBytes(t) /\ 2 * KeyBytes \in Nat /\ UserBytes \in Nat
  BY Sizes
<1>4. PrivateText(t) = f
  <2> DEFINE N == PrivateBytes
  <2>1. <<>> \in Seq(Nat) /\ Len(<<>>) = 0
    BY EmptySeq
  <2> DEFINE y == 2 * KeyBytes
             u == UserBytes
  <2>3. y \in Nat /\ u \in Nat /\ 12 + n3 + y + u <= N /\ N \in Nat
    BY <1>2, <1>3
  <2>2. Written(<<>>, x1, N) = x1
    <3> HIDE DEF x1, y, u, n3, N
    <3> DEFINE o == <<>>
    <3>1. o \in Seq(Nat) /\ Len(o) + Len(x1) <= N
      BY <1>1, <2>1, <2>3
    <3> HIDE DEF o
    <3>2. Written(o, x1, N) = o \o x1
      BY <1>1, <2>3, <3>1, ItFits
    <3> QED BY <1>1, <3>2, ConcatEmptySeq DEF o
  <2>4. Written(x1, x2, N) = s2 /\ s2 \in Seq(Nat) /\ Len(s2) = 12
    <3> HIDE DEF x1, x2, y, u, n3, N
    <3>1. Len(x1) + Len(x2) <= N
      BY <1>1, <2>3
    <3>2. Written(x1, x2, N) = s2
      BY <1>1, <2>3, <3>1, ItFits
    <3>3. s2 \in Seq(Nat) /\ Len(s2) = Len(x1) + Len(x2)
      BY <1>1, ConcatProperties
    <3> QED BY <1>1, <3>2, <3>3
  <2> HIDE DEF s2
  <2>5. Written(s2, x3, N) = s3 /\ s3 \in Seq(Nat) /\ Len(s3) = 12 + n3
    <3> HIDE DEF x3, y, u, n3, N
    <3>1. Len(s2) + Len(x3) <= N
      BY <1>1, <1>3, <2>3, <2>4
    <3>2. Written(s2, x3, N) = s3
      BY <1>1, <2>3, <2>4, <3>1, ItFits
    <3>3. s3 \in Seq(Nat) /\ Len(s3) = Len(s2) + Len(x3)
      BY <1>1, <2>4, ConcatProperties
    <3> QED BY <1>1, <1>3, <2>4, <3>2, <3>3
  <2> HIDE DEF s3
  <2>6. Written(s3, x4, N) = s4 /\ s4 \in Seq(Nat) /\ Len(s4) = 12 + n3 + y
    <3>0. Len(x4) = y
      BY <1>1
    <3> HIDE DEF x4, y, u, n3, N
    <3>1. Len(s3) + Len(x4) <= N
      BY <1>1, <2>3, <2>5, <3>0
    <3>2. Written(s3, x4, N) = s4
      BY <1>1, <2>3, <2>5, <3>1, ItFits
    <3>3. s4 \in Seq(Nat) /\ Len(s4) = Len(s3) + Len(x4)
      BY <1>1, <2>5, ConcatProperties
    <3> QED BY <1>1, <2>3, <2>5, <3>0, <3>2, <3>3
  <2> HIDE DEF s4
  <2>7. Written(s4, x5, N) = s5
    <3>0. Len(x5) = u
      BY <1>1
    <3> HIDE DEF x5, y, u, n3, N
    <3>1. Len(s4) + Len(x5) <= N
      BY <1>1, <2>3, <2>6, <3>0
    <3> QED BY <1>1, <2>3, <2>6, <3>1, ItFits
  <2>8. PrivateText(t) = SubSeq(ZeroPad(Written(Written(Written(Written(Written(<<>>, x1, N), x2, N),
                                                x3, N), x4, N), x5, N), N), 1, M)
    BY DEF PrivateText
  <2> HIDE DEF x1, x2, x3, x4, x5, M, N
  <2>9. PrivateText(t) = SubSeq(ZeroPad(s5, N), 1, M)
    BY <2>2, <2>4, <2>5, <2>6, <2>7, <2>8
  <2> QED BY <2>9 DEF N
<1> HIDE DEF x1, x2, x3, x4, x5, n3
<1>5. Extends(x1, x2, s2)
  BY <1>1, Extended
<1>6. s2 \in Seq(Nat) /\ Len(s2) = 12
  BY <1>1, <1>5 DEF Extends
<1> HIDE DEF s2
<1>7. Extends(s2, x3, s3)
  BY <1>1, <1>6, Extended
<1>8. s3 \in Seq(Nat) /\ Len(s3) = 12 + n3
  BY <1>3, <1>6, <1>7 DEF Extends
<1> HIDE DEF s3
<1>9. Extends(s3, x4, s4)
  BY <1>1, <1>8, Extended
<1>10. s4 \in Seq(Nat) /\ Len(s4) = 12 + n3 + 2 * KeyBytes
  BY <1>1, <1>8, <1>9 DEF Extends
<1> HIDE DEF s4
<1>11. Extends(s4, x5, s5)
  BY <1>1, <1>10, Extended
<1>12. s5 \in Seq(Nat) /\ Len(s5) = 12 + n3 + 2 * KeyBytes + UserBytes
  BY <1>1, <1>10, <1>11 DEF Extends
<1> HIDE DEF s5
<1>13. /\ z \in Seq(Nat) /\ Len(z) = PrivateBytes
       /\ \A p \in Nat : \A y \in Seq(Nat) : Holds(s5, p, y) => Holds(z, p, y)
  <2>1. Len(s5) <= PrivateBytes
    <3> DEFINE y == 2 * KeyBytes
    <3>1. y \in Nat
      BY <1>3
    <3> HIDE DEF y, M
    <3>2. Len(s5) = 12 + n3 + y + UserBytes /\ 12 + n3 + y + UserBytes <= M
      BY <1>2, <1>12 DEF y
    <3> QED BY <1>1, <1>2, <1>3, <3>1, <3>2
  <2> QED BY <1>2, <1>12, <2>1, Padded
<1> HIDE DEF z
<1>14. f \in Seq(Nat) /\ Len(f) = M
  <2>1. <<>> \in Seq(Nat) /\ 0 \in Nat /\ Len(<<>>) = 0 /\ Holds(z, 0, <<>>)
    <3>1. <<>> \in Seq(Nat) /\ Len(<<>>) = 0
      BY EmptySeq
    <3> QED BY <1>2, <1>13, <3>1 DEF Holds
  <2>2. 0 + Len(<<>>) <= M /\ M <= Len(z)
    BY <1>2, <1>13, <2>1
  <2> HIDE DEF M
  <2> QED BY <1>2, <1>13, <2>1, <2>2, HoldsCut
<1>15. ASSUME NEW p \in Nat, NEW y \in Seq(Nat), Holds(s5, p, y), p + Len(y) <= M PROVE Holds(f, p, y)
  <2>1. Holds(z, p, y) /\ M <= Len(z)
    BY <1>2, <1>13, <1>15
  <2> HIDE DEF M
  <2> QED BY <1>2, <1>13, <1>15, <2>1, HoldsCut
<1>16. Holds(s5, 0, x1) /\ Holds(s5, 8, x2)
  <2>1. 0 \in Nat /\ 8 \in Nat
    OBVIOUS
  <2>2. Holds(x1, 0, x1)
    BY <1>1 DEF Holds
  <2>3. \A q \in Nat : \A y \in Seq(Nat) : Holds(s2, q, y) => Holds(s5, q, y)
    BY <1>7, <1>9, <1>11 DEF Extends
  <2>4. Holds(s2, 0, x1) /\ Holds(s2, 8, x2)
    BY <1>1, <1>5, <2>1, <2>2 DEF Extends
  <2> QED BY <1>1, <2>1, <2>3, <2>4
<1>17. Holds(s5, 12, x3)
  <2>1. 12 \in Nat
    OBVIOUS
  <2> QED BY <1>1, <1>6, <1>7, <1>9, <1>11, <2>1 DEF Extends
<1>18. Holds(s5, 12 + n3, x4)
  <2>1. 12 + n3 \in Nat
    BY <1>1
  <2> QED BY <1>1, <1>8, <1>9, <1>11, <2>1 DEF Extends
<1>19. Holds(s5, 12 + n3 + 2 * KeyBytes, x5)
  BY <1>10, <1>11 DEF Extends
<1> DEFINE y == 2 * KeyBytes
<1>20. y \in Nat /\ 12 + n3 + y + UserBytes <= M /\ Len(x4) = y /\ Holds(s5, 12 + n3 + y, x5)
  BY <1>1, <1>2, <1>3, <1>19
<1> HIDE DEF y, M, f
<1>21. Read(f, 0, 8) = x1 /\ Read(f, 8, 4) = x2
  <2>1. 0 \in Nat /\ 8 \in Nat /\ 0 + Len(x1) <= M /\ 8 + Len(x2) <= M
    BY <1>1, <1>2, <1>3, <1>20
  <2>2. Holds(f, 0, x1) /\ Holds(f, 8, x2)
    BY <1>1, <1>15, <1>16, <2>1
  <2>3. Read(f, 0, Len(x1)) = x1 /\ Read(f, 8, Len(x2)) = x2
    BY <1>1, <1>14, <2>1, <2>2, ReadHeld
  <2> QED BY <1>1, <2>3
<1>22. AddressesAt(f, 12) = [position |-> 12 + n3, addresses |-> t.addresses]
  <2>1. 12 \in Nat /\ 12 + Len(x3) <= M
    BY <1>1, <1>2, <1>3, <1>20
  <2>2. Holds(f, 12, x3)
    BY <1>1, <1>15, <1>17, <2>1
  <2> QED BY <1>3, <1>14, <2>1, <2>2, AddressesAreRead
<1>23. Read(f, 12 + n3, y) = x4
  <2>1. 12 + n3 \in Nat /\ 12 + n3 + Len(x4) <= M
    BY <1>1, <1>2, <1>3, <1>20
  <2> QED BY <1>1, <1>14, <1>15, <1>18, <1>20, <2>1, ReadHeld
<1>24. Read(f, 12 + n3 + y, UserBytes) = x5
  <2>1. 12 + n3 + y \in Nat /\ 12 + n3 + y + Len(x5) <= M
    BY <1>1, <1>2, <1>3, <1>20
  <2> QED BY <1>1, <1>14, <1>15, <1>20, <2>1, ReadHeld
<1>25. PrivateOf(f) = [client_id |-> x1, timeout |-> x2, addresses |-> t.addresses, keys |-> x4, user_data |-> x5]
  <2> DEFINE a == AddressesAt(f, 12)
             P == 12 + n3
  <2>1. Read(f, P, y) = x4 /\ Read(f, P + y, UserBytes) = x5
    BY <1>23, <1>24
  <2>2. a = [position |-> P, addresses |-> t.addresses]
    BY <1>22
  <2>3. PrivateOf(f) = [client_id |-> Read(f, 0, 8), timeout |-> Read(f, 8, 4), addresses |-> a.addresses,
                        keys |-> Read(f, a.position, y), user_data |-> Read(f, a.position + y, UserBytes)]
    BY DEF PrivateOf, y
  <2> HIDE DEF a, P
  <2>4. a.position = P /\ a.addresses = t.addresses
    BY <2>2
  <2> QED BY <1>21, <2>1, <2>3, <2>4
<1>26. PrivateOf(f) = PrivateFields(t)
  BY <1>25 DEF PrivateFields, x1, x2, x4, x5
<1> QED BY <1>4, <1>14, <1>26 DEF M

(***************************************************************************)
(* The invariant.                                                          *)
(***************************************************************************)
\* What the server makes of a request with the private part of t.
ServerOf(t) ==
    [keys |-> KeysOf(t), private |-> PrivateFields(t), protocol_id |-> t.protocol_id,
     expire_timestamp |-> t.expire_timestamp]

\* The client has read its token if it is of its own build.
Build == IF client.version THEN VersionInfo ELSE OtherVersion
Private == PrivateSeal(Build, token, PrivateKey)

EndsAgree ==
    /\ token \in Tokens /\ encrypted \in BOOLEAN
    /\ client \in {ClientOf(token, Private.bytes), Unread}
    /\ server = NoPeer \/ (client.version /\ server = ServerOf(token))

\* The bytes of a seal are its text and a tag.
HasTag(s) ==
    /\ s.text \in Seq(Nat) /\ s.bytes \in Seq(Nat)
    /\ Len(s.bytes) = Len(s.text) + HmacBytes /\ SubSeq(s.bytes, 1, Len(s.text)) = s.text

OfChallenge(s) ==
    s.key = ChallengeKey /\ s.data = <<>> /\ Len(s.text) = ChallengeBytes - HmacBytes

\* A denied packet is sealed before its peer has the keys and the id of the token.
KeysFor(t, type) == IF type = DENIED THEN ZeroKeys ELSE KeysOf(t)
IdFor(t, type) == IF type = DENIED THEN Word(0) ELSE t.protocol_id

OfPacket(s, t, p) ==
    /\ s.text = p.body /\ s.key = KeyOf(p.from, KeysFor(t, p.type)) /\ s.nonce = p.sequence
    /\ s.data = PacketData(IdFor(t, p.type), p.type, p.sequence)

\* Everything that was sealed is the token's private part, a challenge or a packet.
SealsAreKnown ==
    /\ IsFiniteSet(seals) /\ Private \in seals
    /\ \A s \in seals : HasTag(s)
    /\ \A s \in seals : s = Private \/ OfChallenge(s) \/ (\E p \in sent : OfPacket(s, token, p))

IsPacket(p) ==
    /\ p \in [from : {"client", "server"}, type : 1 .. 6, sequence : Field(8),
              body : Seq(Nat), bytes : Seq(Nat)]
       \/ p \in [from : {"client"}, type : {0}, sequence : {Word(0)}, body : {RequestBody},
                 bytes : Seq(Nat)]
    /\ p.type \in (IF p.from = "client" THEN FromClient ELSE FromServer)
    /\ ValidLength(p.type, Len(p.body), FALSE)
    /\ p.type = PAYLOAD => \E f \in Contents : p.body = PayloadBody(f)
    /\ p.type = CHALLENGE => \E s \in seals : OfChallenge(s) /\ s.nonce = p.sequence
                                              /\ p.body = p.sequence \o s.bytes

\* The packet under way has the bytes of its body, or of what seals it.
BytesAreItsOwn(p) ==
    IF encrypted /\ p.type # REQUEST
    THEN \E s \in seals : OfPacket(s, token, p) /\ p.bytes = HeaderBytes(p.type, p.sequence) \o s.bytes
    ELSE p.bytes = HeaderBytes(p.type, p.sequence) \o p.body

PacketsAreKnown ==
    /\ \A p \in sent : IsPacket(p)
    /\ packet = NoPacket \/ (packet \in sent /\ BytesAreItsOwn(packet))
    /\ packet # NoPacket => client.version
    /\ arrived \in Seq(Nat)
    /\ challenge \in Seq(Nat) /\ (challenge # <<>> => Len(challenge) = 8 + ChallengeBytes)
    /\ client_id \in Seq(Nat) /\ (client_id # <<>> => Len(client_id) = 8)

\* Only a request is denied, and only clients of the token's build send one.
DenyingIsHeard == denying => client.version

TakenIsRead ==
    taken.type = PAYLOAD => taken.body \in Seq(Nat) /\ FragmentOf(taken.body) # NoFragment

WireInv == /\ EndsAgree /\ SealsAreKnown /\ PacketsAreKnown /\ DenyingIsHeard
           /\ TakenIsRead /\ OnlyWhatWasSent

(***************************************************************************)
(* Seals and headers.                                                      *)
(***************************************************************************)
LEMMA SealMade ==
    ASSUME NEW others, IsFiniteSet(others), NEW text \in Seq(Nat), NEW key, NEW nonce, NEW data, NEW s,
           s = Sealing(others, text, key, nonce, data)
    PROVE  s.text = text /\ s.key = key /\ s.nonce = nonce /\ s.data = data /\ HasTag(s)
<1> DEFINE n == Cardinality(others)
           tag == [i \in 1 .. HmacBytes |-> n]
<1>1. n \in Nat
  BY FS_CardinalityType
<1>2. s = [bytes |-> text \o tag, text |-> text, key |-> key, nonce |-> nonce, data |-> data]
  BY DEF Sealing
<1>3. HmacBytes \in Nat
  BY Limits
<1> HIDE DEF n
<1>4. tag \in Seq(Nat) /\ Len(tag) = HmacBytes
  <2>1. tag \in [1 .. HmacBytes -> Nat]
    BY <1>1
  <2> HIDE DEF tag
  <2>2. tag \in Seq(Nat)
    <3>1. Seq(Nat) = UNION {[1 .. k -> Nat] : k \in Nat}
      BY SeqDef, Zenon
    <3>2. [1 .. HmacBytes -> Nat] \in {[1 .. k -> Nat] : k \in Nat}
      BY <1>3
    <3> QED BY <2>1, <3>1, <3>2, Zenon
  <2>3. Len(tag) \in Nat /\ 1 .. Len(tag) = 1 .. HmacBytes
    BY <2>1, <2>2, LenProperties
  <2> QED BY <1>3, <2>2, <2>3
<1> HIDE DEF tag
<1>5. text \o tag \in Seq(Nat) /\ Len(text \o tag) = Len(text) + HmacBytes
  BY <1>4, ConcatProperties
<1>6. SubSeq(text \o tag, 1, Len(text)) = text
  BY <1>4, HeldAtEnd
<1>7. s.bytes = text \o tag /\ s.text = text /\ s.key = key /\ s.nonce = nonce /\ s.data = data
  BY <1>2
<1> QED BY <1>5, <1>6, <1>7 DEF HasTag

LEMMA HeaderIsBytes ==
    ASSUME NEW type \in Nat, NEW n \in Field(8)
    PROVE  HeaderBytes(type, n) \in Seq(Nat) /\ Len(HeaderBytes(type, n)) \in Nat
<1>1. HeaderBytes(type, n) \in Seq(Nat)
  <2>1. CASE type = REQUEST
    <3>1. HeaderBytes(type, n) = <<0>>
      BY <2>1 DEF HeaderBytes
    <3> QED BY <3>1
  <2>2. CASE type # REQUEST
    <3> DEFINE b == BytesOf(n)
               m == PrefixOf(type, b)
    <3>1. b \in 1 .. 8
      BY BytesNeeded
    <3>2. m \in Nat
      BY <3>1 DEF PrefixOf
    <3>3. Packed(n, b) \in Seq(Nat)
      BY PackedBytes
    <3>4. HeaderBytes(type, n) = <<m>> \o Packed(n, b)
      BY <2>2 DEF HeaderBytes
    <3> HIDE DEF b, m
    <3>5. <<m>> \in Seq(Nat)
      BY <3>2
    <3> QED BY <3>3, <3>4, <3>5, ConcatProperties
  <2> QED BY <2>1, <2>2
<1> QED BY <1>1, LenProperties

LEMMA WordIsField == Word(0) \in Field(8) /\ Word(0) \in Seq(Nat) /\ Len(Word(0)) = 8
<1>1. Word(0) \in Field(8)
  <2>1. 0 \in Byte
    BY DEF Byte
  <2> QED BY <2>1 DEF Field, Word
<1>2. 8 \in Nat
  OBVIOUS
<1> QED BY <1>1, <1>2, FieldBytes

LEMMA DataLength ==
    ASSUME NEW id \in Seq(Nat), Len(id) = 8, NEW type \in Nat, NEW n
    PROVE  PacketData(id, type, n) \in Seq(Nat) /\ Len(PacketData(id, type, n)) = Len(VersionInfo) + 9
<1> DEFINE m == PrefixOf(type, BytesOf(n))
           x == VersionInfo \o id
           v == Len(VersionInfo)
<1>1. m \in Nat
  <2>1. BytesOf(n) \in 1 .. 8
    BY BytesNeeded
  <2> QED BY <2>1 DEF PrefixOf
<1>2. v \in Nat /\ VersionInfo \in Seq(Nat)
  BY VersionSequences
<1>3. x \in Seq(Nat) /\ Len(x) = v + 8
  <2>1. x \in Seq(Nat) /\ Len(x) = Len(VersionInfo) + Len(id)
    BY <1>2, ConcatProperties
  <2> QED BY <2>1
<1>4. PacketData(id, type, n) = x \o <<m>>
  BY DEF PacketData
<1> HIDE DEF m, x, v
<1>5. <<m>> \in Seq(Nat) /\ Len(<<m>>) = 1
  BY <1>1
<1>6. x \o <<m>> \in Seq(Nat) /\ Len(x \o <<m>>) = Len(x) + Len(<<m>>)
  BY <1>3, <1>5, ConcatProperties
<1>7. Len(x \o <<m>>) = v + 9
  BY <1>2, <1>3, <1>5, <1>6
<1> QED BY <1>4, <1>6, <1>7 DEF v

\* The associated data of a packet tells its type.
LEMMA DataTellsType ==
    ASSUME NEW id \in Seq(Nat), Len(id) = 8, NEW other \in Seq(Nat), Len(other) = 8,
           NEW type \in Nat, NEW type2 \in Nat, NEW n,
           PacketData(id, type, n) = PacketData(other, type2, n)
    PROVE  type = type2
<1> DEFINE b == BytesOf(n)
           m == PrefixOf(type, b)
           m2 == PrefixOf(type2, b)
           x == VersionInfo \o id
           y == VersionInfo \o other
<1>1. b \in 1 .. 8
  BY BytesNeeded
<1>2. VersionInfo \in Seq(Nat)
  BY VersionSequences
<1>3. x \in Seq(Nat) /\ y \in Seq(Nat) /\ Len(x) = Len(y)
  <2>1. /\ x \in Seq(Nat) /\ Len(x) = Len(VersionInfo) + Len(id)
        /\ y \in Seq(Nat) /\ Len(y) = Len(VersionInfo) + Len(other)
    BY <1>2, ConcatProperties
  <2> QED BY <2>1
<1>4. m \in Nat /\ m2 \in Nat
  <2> HIDE DEF b
  <2> QED BY <1>1 DEF PrefixOf
<1>5. x \o <<m>> = y \o <<m2>>
  BY DEF PacketData
<1>6. <<m>> = <<m2>>
  <2> HIDE DEF x, y, m, m2
  <2>1. <<m>> \in Seq(Nat) /\ <<m2>> \in Seq(Nat)
    BY <1>4
  <2> QED BY <1>3, <1>5, <2>1, ConcatSplit
<1>7. m = m2
  <2> HIDE DEF m, m2
  <2>1. <<m>>[1] = m /\ <<m2>>[1] = m2
    OBVIOUS
  <2> QED BY <1>6, <2>1
<1> HIDE DEF b
<1> QED BY <1>1, <1>7 DEF PrefixOf

LEMMA AssociatedLength ==
    ASSUME NEW version \in Seq(Nat), Len(version) = Len(VersionInfo), NEW id \in Seq(Nat), Len(id) = 8,
           NEW expire \in Seq(Nat), Len(expire) = 8
    PROVE  /\ AssociatedData(version, id, expire) \in Seq(Nat)
           /\ Len(AssociatedData(version, id, expire)) = Len(VersionInfo) + 16
<1> DEFINE x == version \o id
           v == Len(VersionInfo)
<1>1. v \in Nat
  BY VersionSequences
<1>2. x \in Seq(Nat) /\ Len(x) = v + 8
  <2>1. x \in Seq(Nat) /\ Len(x) = Len(version) + Len(id)
    BY ConcatProperties
  <2> QED BY <2>1
<1> HIDE DEF x, v
<1>3. x \o expire \in Seq(Nat) /\ Len(x \o expire) = v + 16
  <2>1. x \o expire \in Seq(Nat) /\ Len(x \o expire) = Len(x) + Len(expire)
    BY <1>2, ConcatProperties
  <2> QED BY <1>1, <1>2, <2>1
<1> QED BY <1>3 DEF AssociatedData, x, v

LEMMA AssociatedTells ==
    ASSUME NEW version \in Seq(Nat), Len(version) = Len(VersionInfo),
           NEW id \in Seq(Nat), Len(id) = 8, NEW expire \in Seq(Nat), Len(expire) = 8,
           NEW id2 \in Seq(Nat), Len(id2) = 8, NEW expire2 \in Seq(Nat), Len(expire2) = 8,
           AssociatedData(VersionInfo, id, expire) = AssociatedData(version, id2, expire2)
    PROVE  version = VersionInfo /\ id2 = id /\ expire2 = expire
<1> DEFINE x == VersionInfo \o id
           y == version \o id2
<1>1. VersionInfo \in Seq(Nat)
  BY VersionSequences
<1>2. x \in Seq(Nat) /\ y \in Seq(Nat) /\ Len(x) = Len(y)
  <2>1. /\ x \in Seq(Nat) /\ Len(x) = Len(VersionInfo) + Len(id)
        /\ y \in Seq(Nat) /\ Len(y) = Len(version) + Len(id2)
    BY <1>1, ConcatProperties
  <2> QED BY <2>1
<1>3. x \o expire = y \o expire2
  BY DEF AssociatedData
<1>4. x = y /\ expire = expire2
  <2> HIDE DEF x, y
  <2> QED BY <1>2, <1>3, ConcatSplit
<1>5. VersionInfo = version /\ id = id2
  BY <1>1, <1>4, ConcatSplit
<1> QED BY <1>4, <1>5

LEMMA HeaderWithin ==
    ASSUME NEW s \in Seq(Nat), HeaderOf(s) # NoHeader
    PROVE  /\ HeaderOf(s).type \in 0 .. 6 /\ HeaderOf(s).size \in 1 .. Len(s)
           /\ SubSeq(s, HeaderOf(s).size + 1, Len(s)) \in Seq(Nat)
<1> DEFINE h == HeaderOf(s)
           m == s[1]
           n == m % 16
           k == m \div 16
<1>1. s # <<>>
  BY DEF HeaderOf
<1>2. Len(s) \in Nat /\ Len(s) # 0
  BY <1>1, EmptySeq, LenProperties
<1>3. m \in Nat
  <2>1. 1 \in 1 .. Len(s)
    BY <1>2
  <2> QED BY <2>1, ElementOfSeq
<1>4. h.type \in 0 .. 6 /\ h.size \in 1 .. Len(s)
  <2>1. CASE m = 0
    <3>1. h = [type |-> REQUEST, sequence |-> Word(0), size |-> 1]
      BY <1>1, <2>1 DEF HeaderOf
    <3> HIDE DEF h
    <3> QED BY <1>2, <3>1 DEF REQUEST
  <2>2. CASE m # 0
    <3>1. CASE k > DISCONNECT \/ n \notin 1 .. 8 \/ Len(s) < 1 + n
      <4>1. HeaderOf(s) = NoHeader
        BY <1>1, <2>2, <3>1 DEF HeaderOf
      <4> QED BY <4>1
    <3>2. CASE ~ (k > DISCONNECT \/ n \notin 1 .. 8 \/ Len(s) < 1 + n)
      <4>1. h = [type |-> k, sequence |-> Unpacked(Read(s, 1, n)), size |-> 1 + n]
        BY <1>1, <2>2, <3>2 DEF HeaderOf
      <4>2. k \in Nat
        <5> HIDE DEF m
        <5> QED BY <1>3
      <4> HIDE DEF h, k, n
      <4>3. h.type = k /\ h.size = 1 + n
        BY <4>1
      <4>4. k \in 0 .. 6 /\ 1 + n \in 1 .. Len(s)
        BY <1>2, <3>2, <4>2 DEF DISCONNECT
      <4> QED BY <4>3, <4>4
    <3> QED BY <3>1, <3>2
  <2> QED BY <2>1, <2>2
<1> HIDE DEF h
<1>5. h.size \in 0 .. Len(s)
  BY <1>2, <1>4
<1>6. SubSeq(s, h.size + 1, Len(s)) \in Seq(Nat)
  BY <1>5, CutInTwo
<1> QED BY <1>4, <1>6 DEF h

\* What can be read as a fragment has nothing of what is beyond it in its meta.
LEMMA NothingBeyond ==
    ASSUME NEW s \in Seq(Nat), FragmentOf(s) # NoFragment, NEW f, f = FragmentOf(s)
    PROVE  /\ f.bus_id \in [1 .. 8 -> Nat] /\ f.fragment_index \in [1 .. 8 -> Nat]
           /\ f.last_index \in [1 .. 8 -> Nat] /\ f.sequence \in [1 .. 8 -> Nat]
<1> DEFINE meta == Read(s, 0, 1)[1]
           b == ((meta \div 32) % 2) + 1
           i == ((meta \div 16) % 2) + 1
           l == ((meta \div 8) % 2) + 1
           q == (meta % 8) + 1
           length == 1 + b + i + l + q
<1>1. MetaFits(s, length)
  BY DEF FragmentOf
<1>2. f = [type |-> meta \div 64,
           bus_id |-> Unpacked(Read(s, 1, b)),
           fragment_index |-> Unpacked(Read(s, 1 + b, i)),
           last_index |-> Unpacked(Read(s, 1 + b + i, l)),
           sequence |-> Unpacked(Read(s, 1 + b + i + l, q)),
           content |-> SubSeq(s, length + 1, Len(s))]
  BY <1>1 DEF FragmentOf
<1>3. Len(s) \in Nat /\ Len(s) >= 5
  BY <1>1, LenProperties DEF MetaFits
<1>4. meta \in Nat
  <2>1. 0 \in Nat /\ 1 \in Nat /\ 0 + 1 <= Len(s)
    BY <1>3
  <2>2. Read(s, 0, 1)[1] = s[0 + 1]
    <3>1. \A j \in 1 .. 1 : Read(s, 0, 1)[j] = s[0 + j]
      BY <2>1, ReadWithin
    <3>2. 1 \in 1 .. 1
      OBVIOUS
    <3> QED BY <3>1, <3>2
  <2>3. 0 + 1 = 1 /\ 1 \in 1 .. Len(s)
    BY <1>3
  <2> QED BY <2>2, <2>3, ElementOfSeq
<1> HIDE DEF meta
<1>5. b \in Nat /\ i \in Nat /\ l \in Nat /\ q \in Nat
  BY <1>4
<1>6. length <= Len(s)
  BY <1>1, <1>3, <1>5 DEF MetaFits
<1>7. length = 1 + b + i + l + q
  OBVIOUS
<1> HIDE DEF b, i, l, q, length
<1>8. /\ 1 \in Nat /\ 1 + b <= Len(s) /\ 1 + b \in Nat /\ 1 + b + i <= Len(s)
      /\ 1 + b + i \in Nat /\ 1 + b + i + l <= Len(s)
      /\ 1 + b + i + l \in Nat /\ 1 + b + i + l + q <= Len(s)
  BY <1>3, <1>5, <1>6, <1>7
<1>9. /\ Unpacked(Read(s, 1, b)) \in [1 .. 8 -> Nat] /\ Unpacked(Read(s, 1 + b, i)) \in [1 .. 8 -> Nat]
      /\ Unpacked(Read(s, 1 + b + i, l)) \in [1 .. 8 -> Nat]
      /\ Unpacked(Read(s, 1 + b + i + l, q)) \in [1 .. 8 -> Nat]
  BY <1>5, <1>8, ReadWithin
<1> QED BY <1>2, <1>9

(***************************************************************************)
(* What can be opened.                                                     *)
(***************************************************************************)
LEMMA BuildIsVersion ==
    /\ Build \in {VersionInfo, OtherVersion} /\ Build \in Seq(Nat) /\ Len(Build) = Len(VersionInfo)
    /\ (Build = VersionInfo => client.version)
<1>1. VersionInfo # OtherVersion
  BY WireAssumption
<1> QED BY <1>1, VersionSequences DEF Build

LEMMA PrivateIsSeal ==
    ASSUME token \in Tokens
    PROVE  /\ HasTag(Private) /\ Private.text = PrivateText(token) /\ Private.key = PrivateKey
           /\ Private.nonce = token.connect_token_nonce
           /\ Private.data = AssociatedData(Build, token.protocol_id, token.expire_timestamp)
           /\ Private.bytes \in Seq(Nat) /\ Len(Private.bytes) = PrivateBytes
<1>1. IsFiniteSet({})
  BY FS_EmptySet
<1>2. PrivateText(token) \in Seq(Nat) /\ Len(PrivateText(token)) = PrivateBytes - HmacBytes
  BY PrivateIsRead
<1>3. Private = Sealing({}, PrivateText(token), PrivateKey, token.connect_token_nonce,
                        AssociatedData(Build, token.protocol_id, token.expire_timestamp))
  BY DEF Private, PrivateSeal
<1> DEFINE s == Private
<1> HIDE DEF s
<1>4. /\ s.text = PrivateText(token) /\ s.key = PrivateKey /\ s.nonce = token.connect_token_nonce
      /\ s.data = AssociatedData(Build, token.protocol_id, token.expire_timestamp) /\ HasTag(s)
  BY <1>1, <1>2, <1>3, SealMade DEF s
<1>5. s.bytes \in Seq(Nat) /\ Len(s.bytes) = PrivateBytes - HmacBytes + HmacBytes
  BY <1>2, <1>4 DEF HasTag
<1>6. PrivateBytes - HmacBytes + HmacBytes = PrivateBytes
  BY Limits
<1> QED BY <1>4, <1>5, <1>6 DEF s

LEMMA BodySizes ==
    /\ BodySize(REQUEST) = Len(VersionInfo) + 16 + NonceBytes + PrivateBytes
    /\ BodySize(CHALLENGE) = 8 + ChallengeBytes /\ BodySize(RESPONSE) = 8 + ChallengeBytes
    /\ BodySize(KEEP_ALIVE) = 8 /\ BodySize(DENIED) = 0 /\ BodySize(DISCONNECT) = 0
BY DEF BodySize, REQUEST, DENIED, CHALLENGE, RESPONSE, KEEP_ALIVE, DISCONNECT

KnownSoFar == EndsAgree /\ SealsAreKnown /\ PacketsAreKnown

LEMMA TypeIsNumber == ASSUME NEW p, IsPacket(p) PROVE p.type \in 0 .. 6 /\ p.type \in Nat
<1>1. p.type \in 1 .. 6 \/ p.type \in {0}
  BY DEF IsPacket
<1> QED BY <1>1

LEMMA IdForIsWord ==
    ASSUME token \in Tokens, NEW type
    PROVE  IdFor(token, type) \in Seq(Nat) /\ Len(IdFor(token, type)) = 8
<1>1. token.protocol_id \in Seq(Nat) /\ Len(token.protocol_id) = 8
  BY TokenSequences
<1> QED BY <1>1, WordIsField DEF IdFor

\* A seal with a token's associated data is the private part.
LEMMA OnlyPrivate ==
    ASSUME KnownSoFar, NEW s \in seals, NEW id \in Seq(Nat), Len(id) = 8, NEW expire \in Seq(Nat), Len(expire) = 8,
           s.data = AssociatedData(VersionInfo, id, expire)
    PROVE  s = Private /\ client.version /\ id = token.protocol_id /\ expire = token.expire_timestamp
<1> DEFINE v == Len(VersionInfo)
           n == Len(s.data)
<1>1. token \in Tokens
  BY DEF KnownSoFar, EndsAgree
<1>2. v \in Nat /\ VersionInfo \in Seq(Nat)
  BY VersionSequences
<1>3. n = v + 16
  BY <1>2, AssociatedLength
<1>4. token.protocol_id \in Seq(Nat) /\ Len(token.protocol_id) = 8
      /\ token.expire_timestamp \in Seq(Nat) /\ Len(token.expire_timestamp) = 8
  BY <1>1, TokenSequences
<1>5. CASE OfChallenge(s)
  <2>1. n = 0
    BY <1>5, EmptySeq DEF OfChallenge
  <2> HIDE DEF n, v
  <2> QED BY <1>2, <1>3, <2>1
<1>6. CASE \E p \in sent : OfPacket(s, token, p)
  <2>1. PICK p \in sent : OfPacket(s, token, p)
    BY <1>6
  <2>2. p.type \in Nat
    BY TypeIsNumber DEF KnownSoFar, PacketsAreKnown
  <2> DEFINE i2 == IdFor(token, p.type)
  <2>3. n = v + 9
    <3>1. i2 \in Seq(Nat) /\ Len(i2) = 8
      BY <1>1, IdForIsWord
    <3>2. s.data = PacketData(i2, p.type, p.sequence)
      BY <2>1 DEF OfPacket
    <3> HIDE DEF i2
    <3> QED BY <2>2, <3>1, <3>2, DataLength
  <2> HIDE DEF n, v
  <2> QED BY <1>2, <1>3, <2>3
<1>7. CASE s = Private
  <2>1. AssociatedData(VersionInfo, id, expire) =
            AssociatedData(Build, token.protocol_id, token.expire_timestamp)
    BY <1>1, <1>7, PrivateIsSeal
  <2>2. Build \in Seq(Nat) /\ Len(Build) = Len(VersionInfo)
    BY BuildIsVersion
  <2> DEFINE b == Build
             i2 == token.protocol_id
             e2 == token.expire_timestamp
  <2> HIDE DEF b, i2, e2
  <2>3. b = VersionInfo /\ i2 = id /\ e2 = expire
    BY <1>4, <2>1, <2>2, AssociatedTells DEF b, i2, e2
  <2> QED BY <1>7, <2>3, BuildIsVersion DEF b, i2, e2
<1> QED BY <1>5, <1>6, <1>7 DEF KnownSoFar, SealsAreKnown

\* What the server takes for the private part of a request.
PrivateIn(body) ==
    Opened(Read(body, Len(VersionInfo) + 16 + NonceBytes, PrivateBytes), PrivateKey,
           Read(body, Len(VersionInfo) + 16, NonceBytes),
           AssociatedData(VersionInfo, Read(body, Len(VersionInfo), 8), Read(body, Len(VersionInfo) + 8, 8)))

LEMMA RequestFound ==
    ASSUME KnownSoFar, NEW body \in Seq(Nat), Len(body) = BodySize(REQUEST)
    PROVE  /\ RequestOf(body) = NoPeer \/ (client.version /\ RequestOf(body) = ServerOf(token))
           /\ Read(body, 0, Len(VersionInfo)) = VersionInfo /\ PrivateIn(body) # {}
              => RequestOf(body) = ServerOf(token)
<1> DEFINE v == Len(VersionInfo)
           id == Read(body, v, 8)
           expire == Read(body, v + 8, 8)
           nonce == Read(body, v + 16, NonceBytes)
           open == Opened(Read(body, v + 16 + NonceBytes, PrivateBytes), PrivateKey, nonce,
                          AssociatedData(VersionInfo, id, expire))
           s == CHOOSE x \in open : TRUE
<1>1. CASE Read(body, 0, v) # VersionInfo \/ open = {}
  BY <1>1 DEF RequestOf, PrivateIn
<1>2. CASE ~ (Read(body, 0, v) # VersionInfo \/ open = {})
  <2>1. s \in open
    BY <1>2
  <2>2. /\ id \in Seq(Nat) /\ Len(id) = 8 /\ expire \in Seq(Nat) /\ Len(expire) = 8
    <3>1. v \in Nat /\ v + 8 \in Nat /\ 8 \in Nat /\ v + 8 <= Len(body) /\ v + 8 + 8 <= Len(body)
      <4> DEFINE m == Len(body)
      <4>1. m = v + 16 + NonceBytes + PrivateBytes /\ v \in Nat
        BY VersionSequences, BodySizes
      <4>2. NonceBytes \in Nat /\ PrivateBytes \in Nat
        BY Sizes, Limits
      <4> HIDE DEF v, m
      <4>3. v \in Nat /\ v + 8 \in Nat /\ 8 \in Nat /\ v + 8 <= m /\ v + 8 + 8 <= m
        BY <4>1, <4>2
      <4> QED BY <4>3 DEF m
    <3> HIDE DEF v
    <3> QED BY <3>1, ReadWithin
  <2>3. s \in seals /\ s.data = AssociatedData(VersionInfo, id, expire)
    BY <2>1 DEF Opened
  <2>4. RequestOf(body) = [keys |-> PrivateOf(s.text).keys, private |-> PrivateOf(s.text),
                           protocol_id |-> id, expire_timestamp |-> expire]
    BY <1>2 DEF RequestOf
  <2> HIDE DEF id, expire, s
  <2>5. s = Private /\ client.version /\ id = token.protocol_id /\ expire = token.expire_timestamp
    BY <2>2, <2>3, OnlyPrivate
  <2>6. token \in Tokens
    BY DEF KnownSoFar, EndsAgree
  <2>7. PrivateOf(s.text) = PrivateFields(token)
    BY <2>5, <2>6, PrivateIsSeal, PrivateIsRead
  <2>8. PrivateFields(token).keys = KeysOf(token)
    BY DEF PrivateFields
  <2>9. RequestOf(body) = ServerOf(token)
    BY <2>4, <2>5, <2>7, <2>8 DEF ServerOf
  <2> QED BY <2>5, <2>9
<1> QED BY <1>1, <1>2

\* A seal with a packet's associated data is that packet's.
LEMMA PacketFound ==
    ASSUME KnownSoFar, NEW s \in seals, NEW id \in Seq(Nat), Len(id) = 8, NEW type \in Nat,
           s.data = PacketData(id, type, s.nonce)
    PROVE  \E p \in sent : p.type = type /\ p.sequence = s.nonce /\ p.body = s.text /\ OfPacket(s, token, p)
<1> DEFINE v == Len(VersionInfo)
           n == Len(s.data)
<1>1. token \in Tokens
  BY DEF KnownSoFar, EndsAgree
<1>2. v \in Nat /\ n = v + 9
  BY VersionSequences, DataLength
<1>3. token.protocol_id \in Seq(Nat) /\ Len(token.protocol_id) = 8
      /\ token.expire_timestamp \in Seq(Nat) /\ Len(token.expire_timestamp) = 8
  BY <1>1, TokenSequences
<1>4. ~ OfChallenge(s)
  <2> SUFFICES ASSUME OfChallenge(s) PROVE FALSE
    OBVIOUS
  <2>1. n = 0
    BY EmptySeq DEF OfChallenge
  <2> HIDE DEF n, v
  <2> QED BY <1>2, <2>1
<1>5. s # Private
  <2> SUFFICES ASSUME s = Private PROVE FALSE
    OBVIOUS
  <2>1. n = v + 16
    BY <1>1, <1>3, PrivateIsSeal, BuildIsVersion, AssociatedLength
  <2> HIDE DEF n, v
  <2> QED BY <1>2, <2>1
<1>6. PICK p \in sent : OfPacket(s, token, p)
  BY <1>4, <1>5 DEF KnownSoFar, SealsAreKnown
<1>7. p.type \in Nat
  BY TypeIsNumber DEF KnownSoFar, PacketsAreKnown
<1>8. p.sequence = s.nonce /\ p.body = s.text /\ s.data = PacketData(IdFor(token, p.type), p.type, s.nonce)
  BY <1>6 DEF OfPacket
<1>10. IdFor(token, p.type) \in Seq(Nat) /\ Len(IdFor(token, p.type)) = 8
  BY <1>1, IdForIsWord
<1> DEFINE i2 == IdFor(token, p.type)
           t2 == p.type
           q == s.nonce
<1> HIDE DEF i2, t2, q
<1>9. type = t2
  <2>1. PacketData(id, type, q) = PacketData(i2, t2, q) /\ i2 \in Seq(Nat) /\ Len(i2) = 8 /\ t2 \in Nat
    BY <1>7, <1>8, <1>10 DEF i2, t2, q
  <2> QED BY <2>1, DataTellsType
<1> QED BY <1>6, <1>8, <1>9 DEF t2

(***************************************************************************)
(* The steps keep the invariant.                                           *)
(***************************************************************************)
LEMMA IdsAreWords ==
    ASSUME EndsAgree
    PROVE  /\ client.protocol_id \in Seq(Nat) /\ Len(client.protocol_id) = 8
           /\ server.protocol_id \in Seq(Nat) /\ Len(server.protocol_id) = 8
<1>1. token.protocol_id \in Seq(Nat) /\ Len(token.protocol_id) = 8
  BY TokenSequences DEF EndsAgree
<1>2. client.protocol_id \in {token.protocol_id, Word(0)}
  BY DEF EndsAgree, ClientOf, Unread
<1>3. server.protocol_id \in {token.protocol_id, Word(0)}
  BY DEF EndsAgree, NoPeer, ServerOf
<1> QED BY <1>1, <1>2, <1>3, WordIsField

\* Nothing that the packets' invariant speaks of is lost.
LEMMA PacketStays ==
    ASSUME NEW p, IsPacket(p), client' = client, seals \subseteq seals'
    PROVE  IsPacket(p)'
BY DEF IsPacket, RequestBody

LEMMA EndsStay ==
    ASSUME EndsAgree, UNCHANGED <<token, encrypted, client, server>>
    PROVE  EndsAgree' /\ Private' = Private
BY DEF EndsAgree, Private, Build

LEMMA WireInvInit == ASSUME WireInit PROVE WireInv
<1>1. PICK version \in {VersionInfo, OtherVersion} :
          /\ seals = {PrivateSeal(version, token, PrivateKey)}
          /\ client = PublicOf(TokenBytes(version, token, PrivateSeal(version, token, PrivateKey).bytes))
  BY DEF WireInit
<1>2. /\ token \in Tokens /\ encrypted \in BOOLEAN /\ challenge = <<>> /\ server = NoPeer
      /\ client_id = <<>> /\ denying = FALSE
      /\ packet = NoPacket /\ arrived = <<>> /\ taken = Failed /\ sent = {}
  BY DEF WireInit
<1> DEFINE private == PrivateSeal(version, token, PrivateKey)
<1>3. /\ private.bytes \in Seq(Nat) /\ Len(private.bytes) = PrivateBytes
  <2>1. IsFiniteSet({})
    BY FS_EmptySet
  <2>2. PrivateText(token) \in Seq(Nat) /\ Len(PrivateText(token)) = PrivateBytes - HmacBytes
    BY <1>2, PrivateIsRead
  <2>3. private = Sealing({}, PrivateText(token), PrivateKey, token.connect_token_nonce,
                          AssociatedData(version, token.protocol_id, token.expire_timestamp))
    BY DEF PrivateSeal
  <2> HIDE DEF private
  <2>4. private.text = PrivateText(token) /\ HasTag(private)
    BY <2>1, <2>2, <2>3, SealMade
  <2>5. private.bytes \in Seq(Nat) /\ Len(private.bytes) = PrivateBytes - HmacBytes + HmacBytes
    BY <2>2, <2>4 DEF HasTag
  <2>6. PrivateBytes - HmacBytes + HmacBytes = PrivateBytes
    BY Limits
  <2> QED BY <2>5, <2>6
<1> DEFINE b == private.bytes
<1>4. client = IF version = VersionInfo THEN ClientOf(token, b) ELSE Unread
  <2> HIDE DEF private
  <2> QED BY <1>1, <1>2, <1>3, PublicIsRead DEF private
<1>5. version = Build
  <2>1. ClientOf(token, b).version = TRUE /\ Unread.version = FALSE
    BY DEF ClientOf, Unread
  <2> HIDE DEF b
  <2> QED BY <1>4, <2>1 DEF Build
<1>6. private = Private
  BY <1>5 DEF Private
<1>7. EndsAgree
  BY <1>2, <1>4, <1>6 DEF EndsAgree
<1>8. SealsAreKnown
  <2>1. seals = {Private} /\ IsFiniteSet(seals)
    BY <1>1, <1>6, FS_Singleton
  <2> QED BY <1>2, <2>1, PrivateIsSeal DEF SealsAreKnown
<1>9. PacketsAreKnown
  BY <1>2 DEF PacketsAreKnown
<1>10. TakenIsRead /\ OnlyWhatWasSent /\ DenyingIsHeard
  BY <1>2 DEF TakenIsRead, OnlyWhatWasSent, DenyingIsHeard, Failed, PAYLOAD
<1> QED BY <1>7, <1>8, <1>9, <1>10 DEF WireInv

LEMMA ArriveKeeps == ASSUME WireInv, NEW bytes \in Seq(Nat), Arrive(bytes) PROVE WireInv'
<1>1. /\ UNCHANGED <<seals, token, encrypted, client, challenge, client_id, server, denying>>
      /\ UNCHANGED <<packet, taken, sent>> /\ arrived' = bytes
  BY DEF Arrive
<1>2. EndsAgree' /\ Private' = Private
  BY <1>1, EndsStay DEF WireInv
<1>3. SealsAreKnown'
  BY <1>1, <1>2 DEF WireInv, SealsAreKnown
<1>4. PacketsAreKnown'
  <2>1. \A p \in sent' : IsPacket(p)'
    BY <1>1, PacketStays DEF WireInv, PacketsAreKnown
  <2>2. packet' = NoPacket \/ (packet' \in sent' /\ BytesAreItsOwn(packet)')
    BY <1>1 DEF WireInv, PacketsAreKnown, BytesAreItsOwn
  <2> QED BY <1>1, <2>1, <2>2 DEF WireInv, PacketsAreKnown
<1>5. TakenIsRead' /\ OnlyWhatWasSent' /\ DenyingIsHeard'
  BY <1>1 DEF WireInv, TakenIsRead, OnlyWhatWasSent, DenyingIsHeard
<1> QED BY <1>2, <1>3, <1>4, <1>5 DEF WireInv

\* What its callers give to Send.
MayBeSent(from, type, sequence, body, inner) ==
    /\ body \in Seq(Nat)
    /\ \/ from \in {"client", "server"} /\ type \in 1 .. 6 /\ sequence \in Field(8)
       \/ from = "client" /\ type = 0 /\ sequence = Word(0) /\ body = RequestBody
    /\ type \in (IF from = "client" THEN FromClient ELSE FromServer)
    /\ Len(body) <= BodyCapacity => ValidLength(type, Len(body), FALSE)
    /\ type = PAYLOAD => \E f \in Contents : body = PayloadBody(f)
    /\ type = CHALLENGE => \E s \in inner : s.nonce = sequence /\ body = sequence \o s.bytes
    /\ IsFiniteSet(inner) /\ \A s \in inner : HasTag(s) /\ OfChallenge(s)

LEMMA SendKeeps ==
    ASSUME WireInv, client.version, NEW from, NEW type, NEW sequence, NEW body, NEW inner,
           MayBeSent(from, type, sequence, body, inner),
           Send(from, type, sequence, body, inner, KeysFor(token, type), IdFor(token, type))
    PROVE  WireInv'
<1> DEFINE others == seals \union inner
           data == PacketData(IdFor(token, type), type, sequence)
           key == KeyOf(from, KeysFor(token, type))
           made == Sealing(others, body, key, sequence, data)
           sealed == encrypted /\ type # REQUEST
           outer == IF sealed THEN {made} ELSE {}
           bytes == HeaderBytes(type, sequence) \o IF outer = {} THEN body ELSE made.bytes
           rec == [from |-> from, type |-> type, sequence |-> sequence, body |-> body, bytes |-> bytes]
<1>1. /\ packet = NoPacket /\ Len(body) <= BodyCapacity
      /\ packet' = rec /\ sent' = sent \union {packet'}
      /\ seals' = seals \union inner \union outer /\ taken' = Failed
      /\ UNCHANGED <<token, encrypted, client, challenge, client_id, server, arrived, damaged>>
  BY DEF Send
<1>2. /\ body \in Seq(Nat) /\ sequence \in Field(8) /\ type \in Nat /\ type \in 0 .. 6
      /\ ValidLength(type, Len(body), FALSE) /\ IsFiniteSet(inner)
  <2>1. body \in Seq(Nat) /\ IsFiniteSet(inner) /\ ValidLength(type, Len(body), FALSE)
    BY <1>1 DEF MayBeSent
  <2>2. CASE from \in {"client", "server"} /\ type \in 1 .. 6 /\ sequence \in Field(8)
    <3>1. type \in Nat /\ type \in 0 .. 6
      BY <2>2
    <3> QED BY <2>1, <2>2, <3>1
  <2>3. CASE from = "client" /\ type = 0 /\ sequence = Word(0) /\ body = RequestBody
    <3>1. type \in Nat /\ type \in 0 .. 6
      BY <2>3
    <3> QED BY <2>1, <2>3, <3>1, WordIsField
  <2> QED BY <2>2, <2>3 DEF MayBeSent
<1>3. IsFiniteSet(others)
  BY <1>2, FS_Union DEF WireInv, SealsAreKnown
<1>4. PICK s : s = made
  OBVIOUS
<1>5. outer = IF sealed THEN {s} ELSE {}
  BY <1>4
<1>6. bytes = HeaderBytes(type, sequence) \o IF sealed THEN s.bytes ELSE body
  BY <1>4
<1>7. /\ s.text = body /\ s.key = key /\ s.nonce = sequence /\ s.data = data /\ HasTag(s)
  <2> HIDE DEF key, data, others
  <2> QED BY <1>2, <1>3, <1>4, SealMade
<1> HIDE DEF made, outer, bytes
<1>8. bytes \in Seq(Nat)
  <2> DEFINE h == HeaderBytes(type, sequence)
             w == IF sealed THEN s.bytes ELSE body
  <2>1. h \in Seq(Nat)
    BY <1>2, HeaderIsBytes
  <2>2. w \in Seq(Nat)
    BY <1>2, <1>7 DEF HasTag
  <2> HIDE DEF h, w
  <2>3. h \o w \in Seq(Nat)
    BY <2>1, <2>2, ConcatProperties
  <2> QED BY <1>6, <2>3 DEF h, w
<1>9. PICK r : r = rec
  OBVIOUS
<1>10. /\ r.from = from /\ r.type = type /\ r.sequence = sequence /\ r.body = body /\ r.bytes = bytes
       /\ r = [from |-> from, type |-> type, sequence |-> sequence, body |-> body, bytes |-> bytes]
  BY <1>9
<1> HIDE DEF rec
<1>11. /\ packet' = r /\ sent' = sent \union {r} /\ seals' = seals \union inner \union outer
       /\ seals \subseteq seals' /\ outer \subseteq seals' /\ inner \subseteq seals'
  BY <1>1, <1>9
<1>12. OfPacket(s, token, r)
  BY <1>7, <1>10 DEF OfPacket
<1>13. EndsAgree' /\ Private' = Private
  BY <1>1, EndsStay DEF WireInv
<1>14. SealsAreKnown'
  <2>1. IsFiniteSet(seals')
    <3>1. IsFiniteSet(outer)
      BY <1>5, FS_Singleton, FS_EmptySet
    <3>2. IsFiniteSet(others \union outer)
      BY <1>3, <3>1, FS_Union
    <3> QED BY <1>11, <3>2
  <2>2. Private' \in seals'
    BY <1>11, <1>13 DEF WireInv, SealsAreKnown
  <2>3. \A x \in seals' : HasTag(x)
    BY <1>5, <1>7, <1>11 DEF WireInv, SealsAreKnown, MayBeSent
  <2>4. ASSUME NEW x \in seals' PROVE x = Private' \/ OfChallenge(x) \/ (\E p \in sent' : OfPacket(x, token', p))
    <3>1. CASE x \in seals
      BY <1>1, <1>11, <1>13, <3>1 DEF WireInv, SealsAreKnown
    <3>2. CASE x \in inner
      BY <3>2 DEF MayBeSent
    <3>3. CASE x \in outer
      <4>1. x = s
        BY <1>5, <3>3
      <4> QED BY <1>1, <1>11, <1>12, <4>1
    <3> QED BY <1>11, <3>1, <3>2, <3>3
  <2> QED BY <2>1, <2>2, <2>3, <2>4 DEF SealsAreKnown
<1>15. IsPacket(r)'
  <2>1. \/ r \in [from : {"client", "server"}, type : 1 .. 6, sequence : Field(8),
                  body : Seq(Nat), bytes : Seq(Nat)]
        \/ r \in [from : {"client"}, type : {0}, sequence : {Word(0)}, body : {RequestBody'},
                  bytes : Seq(Nat)]
    <3>1. RequestBody' = RequestBody
      BY <1>1 DEF RequestBody
    <3>2. CASE from \in {"client", "server"} /\ type \in 1 .. 6 /\ sequence \in Field(8)
      BY <1>2, <1>8, <1>10, <3>2
    <3>3. CASE from = "client" /\ type = 0 /\ sequence = Word(0) /\ body = RequestBody
      BY <1>8, <1>10, <3>1, <3>3
    <3> QED BY <3>2, <3>3 DEF MayBeSent
  <2>2. r.type \in (IF r.from = "client" THEN FromClient ELSE FromServer)
    BY <1>10 DEF MayBeSent
  <2>3. ValidLength(r.type, Len(r.body), FALSE)
    BY <1>2, <1>10
  <2>4. r.type = PAYLOAD => \E f \in Contents : r.body = PayloadBody(f)
    BY <1>10 DEF MayBeSent
  <2>5. r.type = CHALLENGE => \E x \in seals' : OfChallenge(x) /\ x.nonce = r.sequence
                                              /\ r.body = r.sequence \o x.bytes
    BY <1>10, <1>11 DEF MayBeSent
  <2> QED BY <2>1, <2>2, <2>3, <2>4, <2>5 DEF IsPacket
<1>16. BytesAreItsOwn(packet)'
  <2>1. CASE sealed
    <3>1. s \in seals' /\ r.bytes = HeaderBytes(r.type, r.sequence) \o s.bytes
      BY <1>5, <1>6, <1>10, <1>11, <2>1
    <3> QED BY <1>1, <1>10, <1>11, <1>12, <2>1, <3>1 DEF BytesAreItsOwn
  <2>2. CASE ~ sealed
    <3>1. r.bytes = HeaderBytes(r.type, r.sequence) \o r.body
      BY <1>6, <1>10, <2>2
    <3> QED BY <1>1, <1>10, <1>11, <2>2, <3>1 DEF BytesAreItsOwn
  <2> QED BY <2>1, <2>2
<1>17. PacketsAreKnown'
  <2>1. \A p \in sent' : IsPacket(p)'
    <3> SUFFICES ASSUME NEW p \in sent' PROVE IsPacket(p)'
      OBVIOUS
    <3>1. CASE p \in sent
      BY <1>1, <1>11, <3>1, PacketStays DEF WireInv, PacketsAreKnown
    <3>2. CASE p = r
      BY <1>15, <3>2
    <3> QED BY <1>11, <3>1, <3>2
  <2> QED BY <1>1, <1>11, <1>16, <2>1 DEF WireInv, PacketsAreKnown
<1>18. TakenIsRead' /\ OnlyWhatWasSent' /\ DenyingIsHeard'
  BY <1>1 DEF TakenIsRead, OnlyWhatWasSent, DenyingIsHeard, Failed, PAYLOAD
<1> QED BY <1>13, <1>14, <1>17, <1>18 DEF WireInv

LEMMA TypeFacts ==
    /\ RESPONSE \in 1 .. 6 /\ RESPONSE \notin {PAYLOAD, CHALLENGE} /\ RESPONSE \in FromClient
    /\ DISCONNECT \in 1 .. 6 /\ DISCONNECT \notin {PAYLOAD, CHALLENGE} /\ DISCONNECT \in FromClient
    /\ DISCONNECT \in FromServer /\ KEEP_ALIVE \in FromClient /\ PAYLOAD \in FromServer
    /\ KEEP_ALIVE \in 1 .. 6 /\ KEEP_ALIVE \notin {PAYLOAD, CHALLENGE} /\ KEEP_ALIVE \in FromServer
    /\ DENIED \in 1 .. 6 /\ DENIED \notin {PAYLOAD, CHALLENGE} /\ DENIED \in FromServer
    /\ PAYLOAD \in 1 .. 6 /\ PAYLOAD # CHALLENGE /\ PAYLOAD \in FromClient
    /\ CHALLENGE \in 1 .. 6 /\ CHALLENGE # PAYLOAD /\ CHALLENGE \in FromServer
    /\ REQUEST = 0 /\ REQUEST \notin {PAYLOAD, CHALLENGE} /\ REQUEST \in FromClient
    /\ REQUEST \notin FromServer
    /\ DENIED \notin {REQUEST, CHALLENGE, RESPONSE, KEEP_ALIVE, PAYLOAD, DISCONNECT}
BY DEF REQUEST, DENIED, CHALLENGE, RESPONSE, KEEP_ALIVE, PAYLOAD, DISCONNECT, FromClient, FromServer

LEMMA RightSize ==
    ASSUME NEW type, type # PAYLOAD, NEW n, n = BodySize(type)
    PROVE  ValidLength(type, n, FALSE)
BY DEF ValidLength

LEMMA PlainMayBeSent ==
    ASSUME NEW from \in {"client", "server"}, NEW type \in 1 .. 6, type \notin {PAYLOAD, CHALLENGE},
           type \in (IF from = "client" THEN FromClient ELSE FromServer),
           NEW sequence \in Numbers, NEW body \in Seq(Nat), Len(body) = BodySize(type)
    PROVE  MayBeSent(from, type, sequence, body, {})
<1>1. ValidLength(type, Len(body), FALSE)
  BY RightSize
<1>2. sequence \in Field(8)
  BY WireAssumption
<1>3. IsFiniteSet({}) /\ \A s \in {} : HasTag(s) /\ OfChallenge(s)
  BY FS_EmptySet
<1>4. type # PAYLOAD /\ type # CHALLENGE
  OBVIOUS
<1> QED BY <1>1, <1>2, <1>3, <1>4, Zenon DEF MayBeSent

LEMMA EmptyMayBeSent ==
    ASSUME NEW from \in {"client", "server"}, NEW type \in {DENIED, DISCONNECT},
           type \in (IF from = "client" THEN FromClient ELSE FromServer), NEW sequence \in Numbers
    PROVE  MayBeSent(from, type, sequence, <<>>, {})
<1> DEFINE b == <<>>
<1>1. b \in Seq(Nat) /\ Len(b) = BodySize(type)
  <2>1. <<>> \in Seq(Nat) /\ Len(<<>>) = 0 /\ BodySize(type) = 0
    BY BodySizes, EmptySeq
  <2> QED BY <2>1
<1>2. type \in 1 .. 6 /\ type \notin {PAYLOAD, CHALLENGE}
  BY TypeFacts
<1> HIDE DEF b
<1>3. MayBeSent(from, type, sequence, b, {})
  BY <1>1, <1>2, PlainMayBeSent
<1> QED BY <1>3 DEF b

LEMMA PayloadMayBeSent ==
    ASSUME NEW from \in {"client", "server"}, NEW sequence \in Numbers, NEW f \in Contents
    PROVE  MayBeSent(from, PAYLOAD, sequence, PayloadBody(f), {})
<1> DEFINE b == PayloadBody(f)
<1>1. b \in Seq(Nat) /\ Len(b) >= 1 /\ b = PayloadBody(f)
  BY FragmentIsRead
<1>2. sequence \in Field(8)
  BY WireAssumption
<1> HIDE DEF b
<1>3. Len(b) <= BodyCapacity => ValidLength(PAYLOAD, Len(b), FALSE)
  <2>1. Len(b) \in Nat /\ BodyCapacity \in Nat
    BY <1>1, LenProperties, Limits
  <2> DEFINE n == Len(b)
  <2> HIDE DEF n
  <2>2. n \in Nat /\ n >= 1 /\ BodyCapacity \in Nat
    BY <1>1, <2>1 DEF n
  <2>3. n <= BodyCapacity => n \in 1 .. BodyCapacity
    BY <2>2
  <2>4. n <= BodyCapacity => ValidLength(PAYLOAD, n, FALSE)
    BY <2>3 DEF ValidLength
  <2> QED BY <2>4 DEF n
<1>4. MayBeSent(from, PAYLOAD, sequence, b, {})
  <2>1. IsFiniteSet({}) /\ \A s \in {} : HasTag(s) /\ OfChallenge(s)
    BY FS_EmptySet
  <2>2. PAYLOAD \in 1 .. 6 /\ PAYLOAD # CHALLENGE /\ PAYLOAD \in FromClient /\ PAYLOAD \in FromServer
    BY TypeFacts
  <2>3. PAYLOAD \in (IF from = "client" THEN FromClient ELSE FromServer)
    BY <2>2
  <2>4. \E g \in Contents : b = PayloadBody(g)
    BY <1>1
  <2> QED BY <1>1, <1>2, <1>3, <2>1, <2>2, <2>3, <2>4, Zenon DEF MayBeSent
<1> QED BY <1>4 DEF b

\* Every packet but a denied one is sealed with what the token gives.
LEMMA ForOthers ==
    ASSUME NEW type, type # DENIED
    PROVE  KeysFor(token, type) = KeysOf(token) /\ IdFor(token, type) = token.protocol_id
BY DEF KeysFor, IdFor

LEMMA RequestIsBytes ==
    ASSUME EndsAgree, client.version
    PROVE  RequestBody \in Seq(Nat) /\ Len(RequestBody) = BodySize(REQUEST)
<1>1. token \in Tokens
  BY DEF EndsAgree
<1>2. client = ClientOf(token, Private.bytes)
  BY DEF EndsAgree, Unread
<1> DEFINE b == Private.bytes
<1> HIDE DEF b
<1>3. client = ClientOf(token, b)
  BY <1>2 DEF b
<1>4. /\ client.protocol_id = token.protocol_id
      /\ client.expire_timestamp = token.expire_timestamp
      /\ client.connect_token_nonce = token.connect_token_nonce /\ client.private = b
  BY <1>3 DEF ClientOf
<1>5. PICK x0, x1, x2, x3, x4 :
        /\ x0 = VersionInfo /\ x1 = token.protocol_id /\ x2 = token.expire_timestamp
        /\ x3 = token.connect_token_nonce /\ x4 = b
  OBVIOUS
<1>6. /\ x1 \in Seq(Nat) /\ Len(x1) = 8 /\ x2 \in Seq(Nat) /\ Len(x2) = 8
      /\ x3 \in Seq(Nat) /\ Len(x3) = NonceBytes
  BY <1>1, <1>5, TokenSequences
<1>7. x0 \in Seq(Nat) /\ Len(x0) = Len(VersionInfo) /\ Len(VersionInfo) \in Nat
  BY <1>5, VersionSequences, LenProperties
<1>8. x4 \in Seq(Nat) /\ Len(x4) = PrivateBytes
  BY <1>1, <1>5, PrivateIsSeal DEF b
<1>9. RequestBody = x0 \o x1 \o x2 \o x3 \o x4
  BY <1>4, <1>5 DEF RequestBody
<1>10. /\ x0 \o x1 \o x2 \o x3 \o x4 \in Seq(Nat)
       /\ Len(x0 \o x1 \o x2 \o x3 \o x4) = Len(x0) + Len(x1) + Len(x2) + Len(x3) + Len(x4)
  <2> DEFINE s1 == x0 \o x1
             s2 == s1 \o x2
             s3 == s2 \o x3
             s4 == s3 \o x4
  <2>1. x0 \in Seq(Nat) /\ x1 \in Seq(Nat) /\ x2 \in Seq(Nat) /\ x3 \in Seq(Nat) /\ x4 \in Seq(Nat)
    BY <1>6, <1>7, <1>8
  <2>2. s1 \in Seq(Nat) /\ Len(s1) = Len(x0) + Len(x1)
    BY <2>1, ConcatProperties
  <2>3. s2 = s1 \o x2 /\ s3 = s2 \o x3 /\ s4 = s3 \o x4 /\ s4 = x0 \o x1 \o x2 \o x3 \o x4
    OBVIOUS
  <2> HIDE DEF s1, s2, s3, s4
  <2>4. s2 \in Seq(Nat) /\ Len(s2) = Len(s1) + Len(x2)
    BY <2>1, <2>2, <2>3, ConcatProperties
  <2>5. s3 \in Seq(Nat) /\ Len(s3) = Len(s2) + Len(x3)
    BY <2>1, <2>3, <2>4, ConcatProperties
  <2>6. s4 \in Seq(Nat) /\ Len(s4) = Len(s3) + Len(x4)
    <3>1. s3 \in Seq(Nat) /\ x4 \in Seq(Nat) /\ s4 = s3 \o x4
      BY <2>1, <2>3, <2>5
    <3>2. s3 \o x4 \in Seq(Nat) /\ Len(s3 \o x4) = Len(s3) + Len(x4)
      BY <3>1, ConcatProperties
    <3> QED BY <3>1, <3>2
  <2>7. Len(s4) = Len(x0) + Len(x1) + Len(x2) + Len(x3) + Len(x4)
    BY <2>2, <2>4, <2>5, <2>6
  <2> QED BY <2>3, <2>6, <2>7
<1>11. NonceBytes \in Nat /\ PrivateBytes \in Nat
  BY Sizes, Limits
<1>12. Len(x0) + Len(x1) + Len(x2) + Len(x3) + Len(x4) = BodySize(REQUEST)
  <2> DEFINE v == Len(VersionInfo)
  <2>1. BodySize(REQUEST) = v + 16 + NonceBytes + PrivateBytes
    BY BodySizes
  <2>2. Len(x0) = v /\ v \in Nat
    BY <1>7
  <2> HIDE DEF v
  <2> QED BY <1>6, <1>8, <1>11, <2>1, <2>2
<1> QED BY <1>9, <1>10, <1>12

LEMMA ClientSendsKeeps == ASSUME WireInv, ClientSends PROVE WireInv'
<1>1. /\ client.version /\ token \in Tokens /\ challenge \in Seq(Nat)
      /\ challenge # <<>> => Len(challenge) = 8 + ChallengeBytes
  BY DEF WireInv, ClientSends, EndsAgree, PacketsAreKnown
<1>2. client = ClientOf(token, Private.bytes)
  BY <1>1 DEF WireInv, EndsAgree, Unread
<1>3. /\ client.keys = KeysOf(token) /\ client.protocol_id = token.protocol_id
      /\ client.expire_timestamp = token.expire_timestamp
      /\ client.connect_token_nonce = token.connect_token_nonce /\ client.private = Private.bytes
  <2> DEFINE b == Private.bytes
  <2> HIDE DEF b
  <2>1. client = ClientOf(token, b)
    BY <1>2 DEF b
  <2>2. /\ client.keys = KeysOf(token) /\ client.protocol_id = token.protocol_id
        /\ client.expire_timestamp = token.expire_timestamp
        /\ client.connect_token_nonce = token.connect_token_nonce /\ client.private = b
    BY <2>1 DEF ClientOf
  <2> QED BY <2>2 DEF b
<1>4. IsFiniteSet({})
  BY FS_EmptySet
<1>5. RequestBody \in Seq(Nat) /\ Len(RequestBody) = BodySize(REQUEST)
  BY <1>1, RequestIsBytes DEF WireInv
<1>6. ASSUME ClientSendsWith(Word(0), REQUEST, RequestBody) PROVE WireInv'
  <2>1. MayBeSent("client", REQUEST, Word(0), RequestBody, {})
    <3>1. ValidLength(REQUEST, Len(RequestBody), FALSE)
      BY <1>5, RightSize, TypeFacts
    <3>2. \A s \in {} : HasTag(s) /\ OfChallenge(s)
      OBVIOUS
    <3>3. REQUEST = 0 /\ REQUEST # PAYLOAD /\ REQUEST # CHALLENGE /\ REQUEST \in FromClient
      BY TypeFacts
    <3> QED BY <1>4, <1>5, <3>1, <3>2, <3>3, Zenon DEF MayBeSent
  <2> QED BY <1>1, <1>3, <1>6, <2>1, TypeFacts, ForOthers, SendKeeps DEF ClientSendsWith
<1>7. ASSUME NEW sequence \in Numbers, challenge # <<>>, ClientSendsWith(sequence, RESPONSE, challenge)
      PROVE  WireInv'
  <2>1. MayBeSent("client", RESPONSE, sequence, challenge, {})
    <3>1. Len(challenge) = BodySize(RESPONSE)
      BY <1>1, <1>7, BodySizes
    <3> QED BY <1>1, <3>1, TypeFacts, PlainMayBeSent
  <2> QED BY <1>1, <1>3, <1>7, <2>1, TypeFacts, ForOthers, SendKeeps DEF ClientSendsWith
<1>8. ASSUME NEW sequence \in Numbers, NEW f \in Contents, ClientSendsWith(sequence, PAYLOAD, PayloadBody(f))
      PROVE  WireInv'
  <2>1. MayBeSent("client", PAYLOAD, sequence, PayloadBody(f), {})
    BY PayloadMayBeSent
  <2> QED BY <1>1, <1>3, <1>8, <2>1, TypeFacts, ForOthers, SendKeeps DEF ClientSendsWith
<1>9. ASSUME NEW sequence \in Numbers, ClientSendsWith(sequence, DISCONNECT, <<>>) PROVE WireInv'
  <2>1. MayBeSent("client", DISCONNECT, sequence, <<>>, {})
    BY TypeFacts, EmptyMayBeSent
  <2> QED BY <1>1, <1>3, <1>9, <2>1, TypeFacts, ForOthers, SendKeeps DEF ClientSendsWith
<1>10. ASSUME NEW sequence \in Numbers, client_id # <<>>, ClientSendsWith(sequence, KEEP_ALIVE, client_id)
       PROVE  WireInv'
  <2>1. MayBeSent("client", KEEP_ALIVE, sequence, client_id, {})
    <3>1. client_id \in Seq(Nat) /\ Len(client_id) = BodySize(KEEP_ALIVE)
      BY <1>10, BodySizes DEF WireInv, PacketsAreKnown
    <3> QED BY <3>1, TypeFacts, PlainMayBeSent
  <2> QED BY <1>1, <1>3, <1>10, <2>1, TypeFacts, ForOthers, SendKeeps DEF ClientSendsWith
<1> QED BY <1>6, <1>7, <1>8, <1>9, <1>10 DEF ClientSends

LEMMA ServerSendsKeeps == ASSUME WireInv, ServerSends PROVE WireInv'
<1>1. client.version /\ token \in Tokens /\ server = ServerOf(token)
  BY DEF WireInv, ServerSends, EndsAgree, Known, NoPeer
<1>2. /\ server.keys = KeysOf(token) /\ server.protocol_id = token.protocol_id
      /\ server.private.client_id = token.client_id /\ server.private.user_data = token.user_data
  BY <1>1 DEF ServerOf, PrivateFields
<1>3. IsFiniteSet({}) /\ <<>> \in Seq(Nat) /\ Len(<<>>) = 0
  BY FS_EmptySet, EmptySeq
<1>4. /\ token.client_id \in Seq(Nat) /\ Len(token.client_id) = 8
      /\ token.user_data \in Seq(Nat) /\ Len(token.user_data) = UserBytes
  BY <1>1, TokenSequences
<1>5. ASSUME NEW sequence \in Numbers,
             ServerSendsWith(sequence, CHALLENGE, sequence \o ChallengeSeal(sequence).bytes,
                             {ChallengeSeal(sequence)})
      PROVE  WireInv'
  <2> DEFINE M == ChallengeBytes - HmacBytes
             x == server.private.client_id \o server.private.user_data
             z == ZeroPad(x, ChallengeBytes)
             text == SubSeq(z, 1, M)
  <2>1. x \in Seq(Nat) /\ Len(x) = 8 + UserBytes
    <3> DEFINE c == token.client_id
               d == token.user_data
    <3>1. c \in Seq(Nat) /\ Len(c) = 8 /\ d \in Seq(Nat) /\ Len(d) = UserBytes /\ x = c \o d
      BY <1>2, <1>4
    <3> HIDE DEF c, d, x
    <3>2. c \o d \in Seq(Nat) /\ Len(c \o d) = Len(c) + Len(d)
      BY <3>1, ConcatProperties
    <3> QED BY <3>1, <3>2
  <2>2. /\ M \in Nat /\ ChallengeBytes \in Nat /\ M <= ChallengeBytes /\ 8 + UserBytes <= ChallengeBytes
        /\ M + HmacBytes = ChallengeBytes
    BY Limits
  <2> HIDE DEF x
  <2>3. z \in Seq(Nat) /\ Len(z) = ChallengeBytes
    BY <2>1, <2>2, Padded
  <2> HIDE DEF z
  <2>4. text \in Seq(Nat) /\ Len(text) = M
    <3>1. M \in 0 .. Len(z)
      BY <2>2, <2>3
    <3> HIDE DEF M
    <3> QED BY <2>3, <3>1, CutInTwo
  <2>5. PICK c : c = ChallengeSeal(sequence)
    OBVIOUS
  <2>6. c.text = text /\ c.key = ChallengeKey /\ c.nonce = sequence /\ c.data = <<>> /\ HasTag(c)
    <3>1. c = Sealing(seals, text, ChallengeKey, sequence, <<>>)
      BY <2>5 DEF ChallengeSeal, x, z
    <3>2. IsFiniteSet(seals)
      BY DEF WireInv, SealsAreKnown
    <3> HIDE DEF text
    <3> QED BY <2>4, <3>1, <3>2, SealMade
  <2>7. OfChallenge(c) /\ c.bytes \in Seq(Nat) /\ Len(c.bytes) = ChallengeBytes
    <3>1. Len(c.text) = M
      BY <2>4, <2>6
    <3> HIDE DEF text
    <3> QED BY <2>2, <2>6, <3>1 DEF OfChallenge, HasTag
  <2>8. sequence \in Field(8) /\ sequence \in Seq(Nat) /\ Len(sequence) = 8
    <3>1. 8 \in Nat /\ sequence \in Field(8)
      BY WireAssumption
    <3> QED BY <3>1, FieldBytes
  <2> DEFINE b == sequence \o c.bytes
  <2>9. b \in Seq(Nat) /\ Len(b) = 8 + ChallengeBytes
    <3> DEFINE d == c.bytes
    <3> HIDE DEF d
    <3>1. d \in Seq(Nat) /\ Len(d) = ChallengeBytes
      BY <2>7 DEF d
    <3>2. sequence \o d \in Seq(Nat) /\ Len(sequence \o d) = Len(sequence) + Len(d)
      BY <2>8, <3>1, ConcatProperties
    <3> QED BY <2>8, <3>1, <3>2 DEF d
  <2>10. MayBeSent("server", CHALLENGE, sequence, b, {c})
    <3>1. ValidLength(CHALLENGE, Len(b), FALSE)
      <4>1. Len(b) = BodySize(CHALLENGE)
        BY <2>9, BodySizes
      <4> HIDE DEF b
      <4> QED BY <4>1, RightSize, TypeFacts
    <3>2. IsFiniteSet({c}) /\ b = sequence \o c.bytes
      BY FS_Singleton
    <3> HIDE DEF b
    <3>3. CHALLENGE \in 1 .. 6 /\ CHALLENGE # PAYLOAD /\ CHALLENGE \in FromServer
      BY TypeFacts
    <3>4. \E s \in {c} : s.nonce = sequence /\ b = sequence \o s.bytes
      BY <2>6, <3>2
    <3>5. "server" # "client" /\ \A s \in {c} : HasTag(s) /\ OfChallenge(s)
      BY <2>6, <2>7
    <3> QED BY <2>8, <2>9, <3>1, <3>2, <3>3, <3>4, <3>5, Zenon DEF MayBeSent
  <2>11. Send("server", CHALLENGE, sequence, b, {c}, KeysFor(token, CHALLENGE), IdFor(token, CHALLENGE))
    BY <1>2, <1>5, <2>5, TypeFacts, ForOthers DEF ServerSendsWith
  <2> HIDE DEF b
  <2> QED BY <1>1, <2>10, <2>11, SendKeeps
<1>6. ASSUME NEW sequence \in Numbers, ServerSendsWith(sequence, DISCONNECT, <<>>, {}) PROVE WireInv'
  <2>1. MayBeSent("server", DISCONNECT, sequence, <<>>, {})
    BY TypeFacts, EmptyMayBeSent
  <2> QED BY <1>1, <1>2, <1>6, <2>1, TypeFacts, ForOthers, SendKeeps DEF ServerSendsWith
<1>7. ASSUME NEW sequence \in Numbers, ServerSendsWith(sequence, KEEP_ALIVE, KeepAliveBody, {}) PROVE WireInv'
  <2>0. KeepAliveBody = token.client_id
    BY <1>2 DEF KeepAliveBody
  <2>1. MayBeSent("server", KEEP_ALIVE, sequence, KeepAliveBody, {})
    <3>1. Len(KeepAliveBody) = BodySize(KEEP_ALIVE) /\ KeepAliveBody \in Seq(Nat)
      BY <1>4, <2>0, BodySizes
    <3> QED BY <3>1, TypeFacts, PlainMayBeSent
  <2> QED BY <1>1, <1>2, <1>7, <2>1, TypeFacts, ForOthers, SendKeeps DEF ServerSendsWith
<1>8. ASSUME NEW sequence \in Numbers, NEW f \in Contents,
             ServerSendsWith(sequence, PAYLOAD, PayloadBody(f), {})
      PROVE  WireInv'
  <2>1. MayBeSent("server", PAYLOAD, sequence, PayloadBody(f), {})
    BY PayloadMayBeSent
  <2> QED BY <1>1, <1>2, <1>8, <2>1, TypeFacts, ForOthers, SendKeeps DEF ServerSendsWith
<1> QED BY <1>5, <1>6, <1>7, <1>8 DEF ServerSends

LEMMA ServerDeniesKeeps == ASSUME WireInv, ServerDenies PROVE WireInv'
<1>1. client.version
  BY DEF WireInv, DenyingIsHeard, ServerDenies
<1>2. PICK sequence \in Numbers : Send("server", DENIED, sequence, <<>>, {}, ZeroKeys, Word(0))
  BY DEF ServerDenies
<1>3. MayBeSent("server", DENIED, sequence, <<>>, {})
  BY TypeFacts, EmptyMayBeSent
<1>4. KeysFor(token, DENIED) = ZeroKeys /\ IdFor(token, DENIED) = Word(0)
  BY DEF KeysFor, IdFor
<1> QED BY <1>1, <1>2, <1>3, <1>4, SendKeeps

\* What a text that Receive takes is known to be.
IsText(header, body, keys, id, text) ==
    /\ header = HeaderOf(arrived) /\ header # NoHeader
    /\ body = SubSeq(arrived, header.size + 1, Len(arrived))
    /\ ValidLength(header.type, Len(body), encrypted)
    /\ id \in Seq(Nat) /\ Len(id) = 8
    /\ text \in Decrypted(header, body, keys, id)

SentAs(header, text) ==
    \E p \in sent : p.type = header.type /\ p.sequence = header.sequence /\ p.body = text

LEMMA TextIsKnown ==
    ASSUME WireInv, NEW header, NEW body, NEW keys, NEW id, NEW text, IsText(header, body, keys, id, text)
    PROVE  /\ text \in Seq(Nat) /\ header.type \in 0 .. 6
           /\ ValidLength(header.type, Len(text), FALSE)
           /\ header.type = REQUEST => text = body
           /\ ~ encrypted \/ header.type = REQUEST \/ SentAs(header, text)
<1>1. arrived \in Seq(Nat) /\ encrypted \in BOOLEAN
  BY DEF WireInv, PacketsAreKnown, EndsAgree
<1>0. /\ header = HeaderOf(arrived) /\ header # NoHeader
      /\ body = SubSeq(arrived, header.size + 1, Len(arrived))
      /\ ValidLength(header.type, Len(body), encrypted)
      /\ id \in Seq(Nat) /\ Len(id) = 8
      /\ text \in Decrypted(header, body, keys, id)
  BY DEF IsText
<1>2. header.type \in 0 .. 6 /\ header.type \in Nat /\ body \in Seq(Nat)
  <2>1. header.type \in 0 .. 6 /\ body \in Seq(Nat)
    BY <1>0, <1>1, HeaderWithin
  <2> QED BY <2>1
<1>3. CASE ~ encrypted \/ header.type = REQUEST
  <2>1. text = body
    BY <1>0, <1>3 DEF Decrypted
  <2>2. ValidLength(header.type, Len(body), FALSE)
    BY <1>0, <1>3 DEF ValidLength, REQUEST, PAYLOAD
  <2> QED BY <1>2, <1>3, <2>1, <2>2
<1>4. CASE ~ (~ encrypted \/ header.type = REQUEST)
  <2>1. PICK s \in Opened(body, KeyOf(packet.from, keys), header.sequence,
                          PacketData(id, header.type, header.sequence)) : text = s.text
    BY <1>0, <1>4 DEF Decrypted
  <2>2. s \in seals /\ s.nonce = header.sequence /\ s.data = PacketData(id, header.type, s.nonce)
    BY <2>1 DEF Opened
  <2>3. KnownSoFar
    BY DEF WireInv, KnownSoFar
  <2>4. PICK p \in sent : p.type = header.type /\ p.sequence = s.nonce /\ p.body = s.text
    BY <1>0, <1>2, <2>2, <2>3, PacketFound
  <2>5. IsPacket(p) /\ HasTag(s)
    BY <2>2 DEF WireInv, PacketsAreKnown, SealsAreKnown
  <2>6. ValidLength(header.type, Len(text), FALSE) /\ text \in Seq(Nat)
    BY <2>1, <2>4, <2>5 DEF IsPacket, HasTag
  <2>7. SentAs(header, text)
    BY <2>1, <2>2, <2>4 DEF SentAs
  <2> QED BY <1>2, <1>4, <2>6, <2>7
<1> QED BY <1>3, <1>4

LEMMA ReceiveKeeps == ASSUME WireInv, Receive PROVE WireInv'
<1>1. PICK header : header = HeaderOf(arrived)
  OBVIOUS
<1>2. PICK body : body = SubSeq(arrived, header.size + 1, Len(arrived))
  OBVIOUS
<1>3. PICK peer : peer = IF packet.from = "client" THEN server ELSE client
  OBVIOUS
<1>4. /\ packet' = NoPacket /\ arrived' = <<>>
      /\ UNCHANGED <<seals, token, encrypted, client, sent, damaged>>
  BY DEF Receive
<1>5. \/ Drop
      \/ /\ header # NoHeader /\ ValidLength(header.type, Len(body), encrypted)
         /\ header.type \in (IF packet.from = "client" THEN FromClient ELSE FromServer)
         /\ \/ Fails(header)
            \/ \E text \in Decrypted(header, body, peer.keys, peer.protocol_id) :
                  Understood(header, text) /\ Take(header, text)
  BY <1>1, <1>2, <1>3 DEF Receive
<1>13. header.type = REQUEST /\ ~ Drop => client.version
  <2> SUFFICES ASSUME header.type = REQUEST, ~ Drop PROVE client.version
    OBVIOUS
  <2>1. packet.from = "client"
    BY <1>5, TypeFacts
  <2>2. packet # NoPacket
    BY <2>1 DEF NoPacket
  <2> QED BY <2>2 DEF WireInv, PacketsAreKnown
<1>6. peer.protocol_id \in Seq(Nat) /\ Len(peer.protocol_id) = 8
  BY <1>3, IdsAreWords DEF WireInv
<1>7. Private' = Private
  BY <1>4 DEF Private, Build
<1>8. SealsAreKnown'
  BY <1>4, <1>7 DEF WireInv, SealsAreKnown
<1>9. \A p \in sent' : IsPacket(p)'
  BY <1>4, PacketStays DEF WireInv, PacketsAreKnown
<1>10. <<>> \in Seq(Nat)
  BY EmptySeq
<1>11. CASE Drop \/ Fails(header)
  <2>1. taken' = Failed /\ challenge' = challenge /\ client_id' = client_id /\ server' = server
    BY <1>11 DEF Drop, Fails
  <2>5. DenyingIsHeard'
    <3>1. CASE Drop
      BY <1>4, <3>1 DEF Drop, WireInv, DenyingIsHeard
    <3>2. CASE Fails(header) /\ ~ Drop
      BY <1>4, <1>13, <3>2 DEF Fails, WireInv, DenyingIsHeard
    <3> QED BY <1>11, <3>1, <3>2
  <2>2. EndsAgree'
    BY <1>4, <2>1, EndsStay DEF WireInv
  <2>3. PacketsAreKnown'
    BY <1>4, <1>9, <1>10, <2>1 DEF WireInv, PacketsAreKnown
  <2>4. TakenIsRead' /\ OnlyWhatWasSent'
    BY <2>1 DEF TakenIsRead, OnlyWhatWasSent, Failed, PAYLOAD
  <2> QED BY <1>8, <2>2, <2>3, <2>4, <2>5 DEF WireInv
<1>12. ASSUME header # NoHeader, ValidLength(header.type, Len(body), encrypted), ~ Drop,
              NEW text \in Decrypted(header, body, peer.keys, peer.protocol_id),
              Understood(header, text), Take(header, text)
       PROVE  WireInv'
  <2> DEFINE id == peer.protocol_id
             keys == peer.keys
  <2>1. /\ text \in Seq(Nat) /\ header.type \in 0 .. 6
        /\ ValidLength(header.type, Len(text), FALSE)
        /\ ~ encrypted \/ header.type = REQUEST \/ SentAs(header, text)
    <3>1. id \in Seq(Nat) /\ Len(id) = 8 /\ text \in Decrypted(header, body, keys, id)
      BY <1>6
    <3> HIDE DEF id, keys
    <3>2. IsText(header, body, keys, id, text)
      <4>1. header # NoHeader /\ ValidLength(header.type, Len(body), encrypted)
        BY <1>12
      <4> QED BY <1>1, <1>2, <3>1, <4>1, Zenon DEF IsText
    <3>3. text \in Seq(Nat) /\ header.type \in 0 .. 6 /\ ValidLength(header.type, Len(text), FALSE)
      BY <3>2, TextIsKnown
    <3>4. ~ encrypted \/ header.type = REQUEST \/ SentAs(header, text)
      BY <3>2, TextIsKnown, Zenon
    <3> QED BY <3>3, <3>4
  <2> HIDE DEF id, keys
  <2>2. /\ taken' = [type |-> header.type, sequence |-> header.sequence, body |-> text]
        /\ challenge' = IF packet.from = "server" /\ header.type = CHALLENGE THEN text ELSE challenge
        /\ client_id' = IF packet.from = "server" /\ header.type = KEEP_ALIVE /\ client_id = <<>>
                        THEN text ELSE client_id
        /\ (header.type = REQUEST /\ server' = RequestOf(text)) \/ server' = server
        /\ denying' = denying \/ header.type = REQUEST
    BY <1>12 DEF Take
  <2>3. server' = NoPeer \/ (client.version /\ server' = ServerOf(token))
    <3>1. CASE header.type = REQUEST /\ server' = RequestOf(text)
      <4>1. Len(text) = BodySize(REQUEST)
        BY <2>1, <3>1 DEF ValidLength, REQUEST, PAYLOAD
      <4>2. KnownSoFar
        BY DEF WireInv, KnownSoFar
      <4> QED BY <2>1, <2>2, <3>1, <4>1, <4>2, RequestFound
    <3>2. CASE server' = server
      BY <3>2 DEF WireInv, EndsAgree
    <3> QED BY <2>2, <3>1, <3>2
  <2>4. EndsAgree'
    BY <1>4, <1>7, <2>3 DEF WireInv, EndsAgree
  <2>5. challenge' \in Seq(Nat) /\ (challenge' # <<>> => Len(challenge') = 8 + ChallengeBytes)
    <3>1. CASE packet.from = "server" /\ header.type = CHALLENGE
      <4>1. Len(text) = BodySize(CHALLENGE)
        BY <2>1, <3>1 DEF ValidLength, CHALLENGE, PAYLOAD
      <4> QED BY <2>1, <2>2, <3>1, <4>1, BodySizes
    <3>2. CASE ~ (packet.from = "server" /\ header.type = CHALLENGE)
      BY <2>2, <3>2 DEF WireInv, PacketsAreKnown
    <3> QED BY <3>1, <3>2
  <2>10. client_id' \in Seq(Nat) /\ (client_id' # <<>> => Len(client_id') = 8)
    <3>1. CASE packet.from = "server" /\ header.type = KEEP_ALIVE /\ client_id = <<>>
      <4>1. Len(text) = BodySize(KEEP_ALIVE)
        BY <2>1, <3>1 DEF ValidLength, KEEP_ALIVE, PAYLOAD
      <4> QED BY <2>1, <2>2, <3>1, <4>1, BodySizes
    <3>2. CASE ~ (packet.from = "server" /\ header.type = KEEP_ALIVE /\ client_id = <<>>)
      BY <2>2, <3>2 DEF WireInv, PacketsAreKnown
    <3> QED BY <3>1, <3>2
  <2>11. DenyingIsHeard'
    BY <1>4, <1>12, <1>13, <2>2 DEF WireInv, DenyingIsHeard
  <2>6. PacketsAreKnown'
    BY <1>4, <1>9, <1>10, <2>5, <2>10 DEF PacketsAreKnown
  <2>7. taken'.type = header.type /\ taken'.sequence = header.sequence /\ taken'.body = text
    BY <2>2
  <2>8. TakenIsRead'
    <3>1. ASSUME header.type = PAYLOAD PROVE FragmentOf(text) # NoFragment
      BY <1>12, <3>1 DEF Understood, REQUEST, RESPONSE, PAYLOAD
    <3> QED BY <2>1, <2>7, <3>1 DEF TakenIsRead
  <2>9. OnlyWhatWasSent'
    <3> SUFFICES ASSUME encrypted', taken' # Failed, taken'.type # REQUEST
                 PROVE  \E p \in sent' : [type |-> p.type, sequence |-> p.sequence, body |-> p.body] = taken'
      BY DEF OnlyWhatWasSent
    <3>1. PICK p \in sent : p.type = header.type /\ p.sequence = header.sequence /\ p.body = text
      BY <1>4, <2>1, <2>7 DEF SentAs
    <3> QED BY <1>4, <2>2, <3>1
  <2> QED BY <1>8, <2>4, <2>6, <2>8, <2>9, <2>11 DEF WireInv
<1> QED BY <1>5, <1>11, <1>12

\* A cut packet and a changed one are bytes too.
LEMMA WireInvStep == ASSUME WireInv, WireNext PROVE WireInv'
<1> DEFINE b == packet.bytes
<1>1. ASSUME packet # NoPacket PROVE b \in Seq(Nat)
  <2>1. IsPacket(packet)
    BY <1>1 DEF WireInv, PacketsAreKnown
  <2> QED BY <2>1 DEF IsPacket
<1>2. CASE ClientSends
  BY <1>2, ClientSendsKeeps
<1>3. CASE ServerSends
  BY <1>3, ServerSendsKeeps
<1>8. CASE ServerDenies
  BY <1>8, ServerDeniesKeeps
<1>4. CASE Whole
  <2>1. packet # NoPacket
    BY <1>4 DEF Whole, Arrive
  <2> QED BY <1>1, <1>4, <2>1, ArriveKeeps DEF Whole
<1>5. CASE Cut
  <2>1. PICK n \in 1 .. Len(packet.bytes) - 1 : Arrive(SubSeq(packet.bytes, 1, n))
    BY <1>5 DEF Cut
  <2>2. packet # NoPacket
    BY <2>1 DEF Arrive
  <2>3. b \in Seq(Nat) /\ n \in 1 .. Len(b) - 1 /\ Arrive(SubSeq(b, 1, n))
    BY <1>1, <2>1, <2>2
  <2> HIDE DEF b
  <2>4. Len(b) \in Nat
    BY <2>3, LenProperties
  <2>5. n \in 0 .. Len(b)
    BY <2>3, <2>4
  <2>6. SubSeq(b, 1, n) \in Seq(Nat)
    BY <2>3, <2>5, CutInTwo
  <2> QED BY <2>3, <2>6, ArriveKeeps
<1>6. CASE Change
  <2>1. PICK i \in 1 .. Len(packet.bytes), x \in Bytes : Arrive([packet.bytes EXCEPT ![i] = x])
    BY <1>6 DEF Change
  <2>2. packet # NoPacket
    BY <2>1 DEF Arrive
  <2>3. b \in Seq(Nat) /\ i \in 1 .. Len(b) /\ Arrive([b EXCEPT ![i] = x])
    BY <1>1, <2>1, <2>2
  <2>4. x \in Nat
    BY WireAssumption DEF Byte
  <2> HIDE DEF b
  <2>5. [b EXCEPT ![i] = x] \in Seq(Nat)
    BY <2>3, <2>4, ExceptSeq
  <2> QED BY <2>3, <2>5, ArriveKeeps
<1>7. CASE Receive
  BY <1>7, ReceiveKeeps
<1> QED BY <1>2, <1>3, <1>4, <1>5, <1>6, <1>7, <1>8 DEF WireNext

LEMMA WireInvStutter == ASSUME WireInv, UNCHANGED wireVars PROVE WireInv'
<1>1. /\ UNCHANGED <<token, encrypted, client, server>>
      /\ UNCHANGED <<seals, challenge, client_id, denying, packet, arrived, taken, sent>>
  BY DEF wireVars
<1>2. EndsAgree' /\ Private' = Private
  BY <1>1, EndsStay DEF WireInv
<1>3. SealsAreKnown'
  BY <1>1, <1>2 DEF WireInv, SealsAreKnown
<1>4. \A p \in sent' : IsPacket(p)'
  BY <1>1, PacketStays DEF WireInv, PacketsAreKnown
<1>5. BytesAreItsOwn(packet)' <=> BytesAreItsOwn(packet)
  BY <1>1 DEF BytesAreItsOwn
<1>6. PacketsAreKnown'
  BY <1>1, <1>4, <1>5 DEF WireInv, PacketsAreKnown
<1>7. TakenIsRead' /\ OnlyWhatWasSent' /\ DenyingIsHeard'
  BY <1>1 DEF WireInv, TakenIsRead, OnlyWhatWasSent, DenyingIsHeard
<1> QED BY <1>2, <1>3, <1>6, <1>7 DEF WireInv

(***************************************************************************)
(* The theorems.                                                           *)
(***************************************************************************)
LEMMA InvIsSafe == ASSUME WireInv PROVE NothingElseIsTaken /\ FragmentsComeThrough
<1>1. token \in Tokens
  BY DEF WireInv, EndsAgree
<1>2. SessionIsTheTokens
  BY DEF WireInv, EndsAgree, SessionIsTheTokens, ServerOf, PrivateFields, Known, NoPeer
<1>3. ClientHasTheTokens
  <2> SUFFICES ASSUME client.version
               PROVE  /\ client.keys = KeysOf(token) /\ client.addresses = token.addresses
                      /\ Known(server) => server.keys = client.keys
    BY DEF ClientHasTheTokens
  <2>1. client = ClientOf(token, Private.bytes)
    BY DEF WireInv, EndsAgree, Unread
  <2> DEFINE b == Private.bytes
  <2> HIDE DEF b
  <2>2. client = ClientOf(token, b)
    BY <2>1 DEF b
  <2>3. client.keys = KeysOf(token) /\ client.addresses = token.addresses
    BY <2>2 DEF ClientOf
  <2>4. Known(server) => server.keys = KeysOf(token)
    BY DEF WireInv, EndsAgree, Known, NoPeer, ServerOf
  <2> QED BY <2>3, <2>4
<1>4. FragmentSurvives
  <2> SUFFICES ASSUME encrypted, taken.type = PAYLOAD PROVE FragmentOf(taken.body) \in Contents
    BY DEF FragmentSurvives
  <2>1. taken # Failed /\ taken.type # REQUEST
    BY DEF Failed, PAYLOAD, REQUEST
  <2>2. PICK p \in sent : [type |-> p.type, sequence |-> p.sequence, body |-> p.body] = taken
    BY <2>1 DEF WireInv, OnlyWhatWasSent
  <2>3. taken.type = p.type /\ taken.body = p.body
    <3>1. /\ [type |-> p.type, sequence |-> p.sequence, body |-> p.body].type = p.type
          /\ [type |-> p.type, sequence |-> p.sequence, body |-> p.body].body = p.body
      OBVIOUS
    <3> QED BY <2>2, <3>1
  <2>4. PICK f \in Contents : p.body = PayloadBody(f)
    BY <2>3 DEF WireInv, PacketsAreKnown, IsPacket
  <2> QED BY <2>3, <2>4, FragmentIsRead
<1>5. MetaWithinPacket
  <2> SUFFICES ASSUME taken.type = PAYLOAD, NEW f, f = FragmentOf(taken.body)
               PROVE  Beyond \notin UNION {Range(n) : n \in {f.bus_id, f.fragment_index, f.last_index, f.sequence}}
    BY DEF MetaWithinPacket
  <2>1. taken.body \in Seq(Nat) /\ f # NoFragment
    BY DEF WireInv, TakenIsRead
  <2>2. \A n \in {f.bus_id, f.fragment_index, f.last_index, f.sequence} : n \in [1 .. 8 -> Nat]
    <3> DEFINE s == taken.body
    <3>1. s \in Seq(Nat) /\ FragmentOf(s) # NoFragment /\ f = FragmentOf(s)
      BY <2>1
    <3> HIDE DEF s
    <3>2. /\ f.bus_id \in [1 .. 8 -> Nat] /\ f.fragment_index \in [1 .. 8 -> Nat]
          /\ f.last_index \in [1 .. 8 -> Nat] /\ f.sequence \in [1 .. 8 -> Nat]
      BY <3>1, NothingBeyond
    <3> QED BY <3>2
  <2>3. ASSUME NEW n \in [1 .. 8 -> Nat] PROVE Beyond \notin Range(n)
    BY DEF Range, Beyond
  <2> QED BY <2>2, <2>3
<1> QED BY <1>2, <1>3, <1>4, <1>5 DEF WireInv, NothingElseIsTaken, FragmentsComeThrough

\* Whatever is cut or changed under way, an end takes what the other has sent, the
\* session is the token's and so is what its client reads of it.
THEOREM NothingElse == WireSpec => []NothingElseIsTaken
<1>1. WireInv /\ [WireNext]_wireVars => WireInv'
  BY WireInvStep, WireInvStutter
<1> QED BY <1>1, WireInvInit, InvIsSafe, PTL DEF WireSpec

\* The fragment of a payload that is taken is one that was given to its sender, and
\* reading it stays within the packet.
THEOREM FragmentsSurvive == WireSpec => []FragmentsComeThrough
<1>1. WireInv /\ [WireNext]_wireVars => WireInv'
  BY WireInvStep, WireInvStutter
<1> QED BY <1>1, WireInvInit, InvIsSafe, PTL DEF WireSpec

LEMMA ZeroIsRequest ==
    ASSUME NEW s, s # <<>>, s[1] = 0
    PROVE  HeaderOf(s) = [type |-> REQUEST, sequence |-> Word(0), size |-> 1]
BY DEF HeaderOf

(***************************************************************************)
(* What arrives whole.                                                     *)
(***************************************************************************)
Headed(s, h, w, type, n) ==
    /\ type \in 0 .. 6 /\ n \in Field(8) /\ (type = 0 => n = Word(0)) /\ w \in Seq(Nat)
    /\ h = HeaderBytes(type, n) /\ s = h \o w

LEMMA HeaderIsRead ==
    ASSUME NEW s, NEW h, NEW w, NEW type, NEW n, Headed(s, h, w, type, n)
    PROVE  /\ HeaderOf(s) = [type |-> type, sequence |-> n, size |-> Len(h)]
           /\ SubSeq(s, Len(h) + 1, Len(s)) = w /\ Len(s) = Len(h) + Len(w)
           /\ Len(h) \in Nat \ {0} /\ (type # 0 => Len(h) >= 2)
<1>0. /\ type \in 0 .. 6 /\ n \in Field(8) /\ (type = 0 => n = Word(0)) /\ w \in Seq(Nat)
      /\ h = HeaderBytes(type, n) /\ s = h \o w
  BY DEF Headed
<1> USE <1>0
<1>1. h \in Seq(Nat) /\ Len(h) \in Nat
  <2>1. type \in Nat
    OBVIOUS
  <2> QED BY <2>1, HeaderIsBytes
<1>2. s \in Seq(Nat) /\ Len(s) = Len(h) + Len(w) /\ SubSeq(s, Len(h) + 1, Len(s)) = w /\ Len(w) \in Nat
  BY <1>1, ConcatProperties, HeldAtEnd, LenProperties
<1>3. Extends(h, w, s)
  BY <1>1, Extended
<1>4. CASE type = 0
  <2>1. h = <<0>>
    BY <1>4 DEF HeaderBytes, REQUEST
  <2>2. h \in Seq(Nat) /\ Len(h) = 1 /\ Holds(h, 0, h) /\ h[1] = 0
    <3>1. 0 \in Nat
      OBVIOUS
    <3>2. <<0>>[1] = 0
      OBVIOUS
    <3> QED BY <2>1, <3>1, <3>2, OneByte
  <2>3. Holds(s, 0, h)
    <3>1. 0 \in Nat
      OBVIOUS
    <3> QED BY <1>3, <2>2, <3>1 DEF Extends
  <2>4. s[1] = 0
    <3>1. \A i \in 1 .. Len(h) : s[0 + i] = h[i]
      BY <2>3 DEF Holds
    <3>2. 1 \in 1 .. Len(h) /\ 0 + 1 = 1
      BY <2>2
    <3>3. s[0 + 1] = h[1]
      BY <3>1, <3>2
    <3> QED BY <2>2, <3>2, <3>3
  <2>5. s # <<>>
    <3>1. Len(s) # 0
      BY <1>2, <2>2
    <3> QED BY <3>1, EmptySeq
  <2>6. HeaderOf(s) = [type |-> REQUEST, sequence |-> Word(0), size |-> 1]
    BY <2>4, <2>5, ZeroIsRequest
  <2>7. n = Word(0) /\ type = REQUEST /\ Len(h) = 1
    BY <1>4, <2>2 DEF REQUEST
  <2>8. HeaderOf(s) = [type |-> type, sequence |-> n, size |-> Len(h)]
    BY <2>6, <2>7
  <2>9. Len(h) \in Nat \ {0} /\ (type # 0 => Len(h) >= 2)
    <3> HIDE <1>0
    <3> QED BY <1>4, <2>7
  <2> QED BY <1>2, <2>8, <2>9
<1>5. CASE type # 0
  <2> DEFINE b == BytesOf(n)
             m == PrefixOf(type, b)
             x == Packed(n, b)
  <2>1. b \in 1 .. 8 /\ x \in Seq(Nat) /\ Len(x) = b
    BY BytesNeeded, PackedBytes
  <2>2. h = <<m>> \o x
    BY <1>5 DEF HeaderBytes, REQUEST
  <2>3. m \in Nat /\ m # 0 /\ m % 16 = b /\ m \div 16 = type
    <3> HIDE DEF b
    <3>1. m = 16 * type + b /\ b \in 0 .. 15
      BY <2>1 DEF PrefixOf
    <3>2. type \in Int /\ b \in 0 .. 16 - 1 /\ 16 \in Nat \ {0}
      BY <3>1
    <3>3. (16 * type + b) \div 16 = type /\ (16 * type + b) % 16 = b
      BY <3>2, Division
    <3>4. m \in Nat /\ m # 0
      BY <2>1, <3>1
    <3> QED BY <3>1, <3>3, <3>4
  <2> HIDE DEF b, m
  <2>4. <<m>> \in Seq(Nat) /\ Len(<<m>>) = 1 /\ Holds(<<m>>, 0, <<m>>)
    BY <2>3, OneByte
  <2> DEFINE o == <<m>>
  <2>5. o[1] = m /\ o \in Seq(Nat) /\ Len(o) = 1 /\ Holds(o, 0, o) /\ h = o \o x
    BY <2>2, <2>4
  <2> HIDE DEF o, x
  <2>6. Extends(o, x, h)
    BY <2>1, <2>5, Extended
  <2>7. 0 \in Nat /\ 1 \in Nat
    OBVIOUS
  <2>8. Holds(h, 0, o) /\ Holds(h, 1, x) /\ Len(h) = 1 + b
    BY <2>1, <2>5, <2>6, <2>7 DEF Extends
  <2>9. Holds(s, 0, o) /\ Holds(s, 1, x)
    BY <1>3, <2>1, <2>5, <2>7, <2>8 DEF Extends
  <2>10. s[1] = m
    <3>1. \A i \in 1 .. Len(o) : s[0 + i] = o[i]
      BY <2>9 DEF Holds
    <3>2. 1 \in 1 .. Len(o) /\ 0 + 1 = 1
      BY <2>5
    <3>3. s[0 + 1] = o[1]
      BY <3>1, <3>2
    <3> QED BY <2>5, <3>2, <3>3
  <2>11. Unpacked(Read(s, 1, b)) = n
    BY <1>2, <2>7, <2>9, NumberRead DEF x, b
  <2>12. s # <<>> /\ ~ (Len(s) < 1 + b)
    <3>1. ~ (Len(s) < 1 + b) /\ Len(s) # 0
      <4> DEFINE l == Len(s)
                 j == Len(w)
      <4>1. l = 1 + b + j /\ j \in Nat /\ b \in 1 .. 8
        BY <1>2, <2>1, <2>8
      <4> HIDE DEF l, j
      <4>2. ~ (l < 1 + b) /\ l # 0
        BY <4>1
      <4> QED BY <4>2 DEF l
    <3> QED BY <3>1, EmptySeq
  <2>13. ~ (type > DISCONNECT)
    BY DEF DISCONNECT
  <2>14. HeaderOf(s) = [type |-> type, sequence |-> n, size |-> 1 + b]
    <3> DEFINE prefix == s[1]
               k == prefix % 16
    <3>1. k = b /\ prefix \div 16 = type /\ prefix # 0
      BY <2>3, <2>10
    <3>2. ~ (prefix \div 16 > DISCONNECT \/ k \notin 1 .. 8 \/ Len(s) < 1 + k)
      BY <2>1, <2>12, <2>13, <3>1
    <3>3. HeaderOf(s) = [type |-> prefix \div 16, sequence |-> Unpacked(Read(s, 1, k)), size |-> 1 + k]
      BY <2>12, <3>1, <3>2 DEF HeaderOf
    <3> HIDE DEF prefix, k
    <3> QED BY <2>11, <3>1, <3>3
  <2>15. Len(h) \in Nat \ {0} /\ Len(h) >= 2
    BY <2>1, <2>8
  <2> QED BY <1>2, <2>8, <2>14, <2>15
<1> QED BY <1>4, <1>5

\* The other end knows the connection by the token.
LEMMA PeersAgree ==
    ASSUME EndsAgree
    PROVE  /\ client.version => client.keys = KeysOf(token) /\ client.protocol_id = token.protocol_id
           /\ Known(server) => server.keys = KeysOf(token) /\ server.protocol_id = token.protocol_id
<1>1. ASSUME client.version PROVE client.keys = KeysOf(token) /\ client.protocol_id = token.protocol_id
  <2> DEFINE b == Private.bytes
  <2>1. client = ClientOf(token, b)
    BY <1>1 DEF EndsAgree, Unread
  <2> HIDE DEF b
  <2> QED BY <2>1 DEF ClientOf
<1>2. ASSUME Known(server) PROVE server.keys = KeysOf(token) /\ server.protocol_id = token.protocol_id
  <2>1. server = ServerOf(token)
    BY <1>2 DEF EndsAgree, Known, NoPeer
  <2> QED BY <2>1 DEF ServerOf
<1> QED BY <1>1, <1>2

LEMMA RequestUnderstood ==
    ASSUME WireInv, client.version
    PROVE  Known(RequestOf(RequestBody)) /\ Read(RequestBody, Len(VersionInfo), 8) = token.protocol_id
<1>1. token \in Tokens /\ Private \in seals
  BY DEF WireInv, EndsAgree, SealsAreKnown
<1> DEFINE v == Len(VersionInfo)
           x1 == client.protocol_id
           x2 == client.expire_timestamp
           x3 == client.connect_token_nonce
           x4 == client.private
           s1 == VersionInfo \o x1
           s2 == s1 \o x2
           s3 == s2 \o x3
           s == s3 \o x4
<1>2. /\ x1 = token.protocol_id /\ x2 = token.expire_timestamp
      /\ x3 = token.connect_token_nonce /\ x4 = Private.bytes
  <2> DEFINE b == Private.bytes
  <2>1. client = ClientOf(token, b)
    BY DEF WireInv, EndsAgree, Unread
  <2> HIDE DEF b
  <2>2. /\ x1 = token.protocol_id /\ x2 = token.expire_timestamp
        /\ x3 = token.connect_token_nonce /\ x4 = b
    BY <2>1 DEF ClientOf
  <2> QED BY <2>2 DEF b
<1>3. /\ x1 \in Seq(Nat) /\ Len(x1) = 8 /\ x2 \in Seq(Nat) /\ Len(x2) = 8
      /\ x3 \in Seq(Nat) /\ Len(x3) = NonceBytes
      /\ x4 \in Seq(Nat) /\ Len(x4) = PrivateBytes /\ VersionInfo \in Seq(Nat) /\ v \in Nat
      /\ v = Len(VersionInfo)
  BY <1>1, <1>2, TokenSequences, PrivateIsSeal, VersionSequences
<1>4. RequestBody = s
  BY DEF RequestBody
<1>5. NonceBytes \in Nat /\ PrivateBytes \in Nat
  BY Sizes, Limits
<1> HIDE DEF v, x1, x2, x3, x4
<1>6. Extends(VersionInfo, x1, s1)
  BY <1>3, Extended
<1>7. s1 \in Seq(Nat) /\ Len(s1) = v + 8
  BY <1>3, <1>6 DEF Extends
<1> HIDE DEF s1
<1>8. Extends(s1, x2, s2)
  BY <1>3, <1>7, Extended
<1>9. s2 \in Seq(Nat) /\ Len(s2) = v + 16
  BY <1>3, <1>7, <1>8 DEF Extends
<1> HIDE DEF s2
<1>10. Extends(s2, x3, s3)
  BY <1>3, <1>9, Extended
<1>11. s3 \in Seq(Nat) /\ Len(s3) = v + 16 + NonceBytes
  BY <1>3, <1>9, <1>10 DEF Extends
<1> HIDE DEF s3
<1>12. Extends(s3, x4, s)
  BY <1>3, <1>11, Extended
<1>13. s \in Seq(Nat) /\ Len(s) = v + 16 + NonceBytes + PrivateBytes
  BY <1>3, <1>11, <1>12 DEF Extends
<1> HIDE DEF s
<1>14. Holds(s, v + 16, x3) /\ Holds(s, v + 16 + NonceBytes, x4)
  <2>1. v + 16 \in Nat /\ v + 16 + NonceBytes \in Nat
    BY <1>3, <1>5
  <2> QED BY <1>3, <1>9, <1>10, <1>11, <1>12, <2>1 DEF Extends
<1>15. Holds(s, 0, VersionInfo) /\ Holds(s, v, x1) /\ Holds(s, v + 8, x2)
  <2>1. 0 \in Nat /\ v + 8 \in Nat
    BY <1>3
  <2>2. Holds(VersionInfo, 0, VersionInfo)
    BY <1>3 DEF Holds
  <2>3. Holds(s1, 0, VersionInfo) /\ Holds(s1, v, x1)
    BY <1>3, <1>6, <2>1, <2>2 DEF Extends
  <2>4. \A q \in Nat : \A y \in Seq(Nat) : Holds(s2, q, y) => Holds(s, q, y)
    BY <1>10, <1>12 DEF Extends
  <2>5. Holds(s2, 0, VersionInfo) /\ Holds(s2, v, x1) /\ Holds(s2, v + 8, x2)
    BY <1>3, <1>7, <1>8, <2>1, <2>3 DEF Extends
  <2> QED BY <1>3, <2>1, <2>4, <2>5
<1>16. /\ Read(s, 0, v) = VersionInfo /\ Read(s, v, 8) = x1 /\ Read(s, v + 8, 8) = x2
       /\ Read(s, v + 16, NonceBytes) = x3 /\ Read(s, v + 16 + NonceBytes, PrivateBytes) = x4
  <2>1. 0 \in Nat /\ v + 8 \in Nat /\ v + 16 \in Nat /\ v + 16 + NonceBytes \in Nat
    BY <1>3, <1>5
  <2>2. Read(s, 0, Len(VersionInfo)) = VersionInfo
    BY <1>3, <1>13, <1>15, <2>1, ReadHeld
  <2>3. Read(s, v, Len(x1)) = x1 /\ Read(s, v + 8, Len(x2)) = x2
    BY <1>3, <1>13, <1>15, <2>1, ReadHeld
  <2>4. Read(s, v + 16, Len(x3)) = x3 /\ Read(s, v + 16 + NonceBytes, Len(x4)) = x4
    BY <1>3, <1>13, <1>14, <2>1, ReadHeld
  <2> QED BY <1>3, <2>2, <2>3, <2>4
<1>17. Private \in PrivateIn(s)
  <2> DEFINE w == Private
  <2>1. /\ w \in seals /\ w.bytes = x4 /\ w.key = PrivateKey /\ w.nonce = x3
        /\ w.data = AssociatedData(Build, x1, x2)
    BY <1>1, <1>2, PrivateIsSeal
  <2>2. Build = VersionInfo
    BY DEF Build
  <2> HIDE DEF w
  <2>3. w \in Opened(x4, PrivateKey, x3, AssociatedData(VersionInfo, x1, x2))
    BY <2>1, <2>2 DEF Opened
  <2>4. PrivateIn(s) = Opened(x4, PrivateKey, x3, AssociatedData(VersionInfo, x1, x2))
    BY <1>16 DEF PrivateIn, v
  <2> QED BY <2>3, <2>4 DEF w
<1>18. RequestOf(s) = ServerOf(token)
  <2>1. KnownSoFar /\ Len(s) = BodySize(REQUEST) /\ Read(s, 0, Len(VersionInfo)) = VersionInfo
    BY <1>13, <1>16, BodySizes DEF WireInv, KnownSoFar, v
  <2> QED BY <1>13, <1>17, <2>1, RequestFound
<1>19. KeysOf(token) # <<>>
  BY <1>1, TokenSequences
<1>20. Read(s, Len(VersionInfo), 8) = token.protocol_id
  BY <1>2, <1>3, <1>16
<1> QED BY <1>4, <1>18, <1>19, <1>20 DEF Known, ServerOf

LEMMA ResponseUnderstood ==
    ASSUME WireInv, NEW p \in sent, p.type = CHALLENGE PROVE ResponseOf(p.body) # <<>>
<1>1. PICK c \in seals : OfChallenge(c) /\ c.nonce = p.sequence /\ p.body = p.sequence \o c.bytes
  BY DEF WireInv, PacketsAreKnown, IsPacket
<1>2. c.bytes \in Seq(Nat) /\ Len(c.bytes) = ChallengeBytes
  <2>1. /\ c.bytes \in Seq(Nat) /\ Len(c.bytes) = Len(c.text) + HmacBytes
        /\ Len(c.text) = ChallengeBytes - HmacBytes
    BY <1>1 DEF WireInv, SealsAreKnown, HasTag, OfChallenge
  <2>2. ChallengeBytes - HmacBytes + HmacBytes = ChallengeBytes
    BY WireAssumption
  <2> QED BY <2>1, <2>2
<1>3. p.sequence \in Seq(Nat) /\ Len(p.sequence) = 8
  <2>1. p.sequence \in Field(8)
    BY WordIsField DEF WireInv, PacketsAreKnown, IsPacket
  <2>2. 8 \in Nat
    OBVIOUS
  <2> QED BY <2>1, <2>2, FieldBytes
<1> DEFINE n == p.sequence
           x == c.bytes
           b == n \o x
<1> HIDE DEF n, x
<1>4. Extends(n, x, b) /\ n \in Seq(Nat) /\ Len(n) = 8 /\ x \in Seq(Nat) /\ Len(x) = ChallengeBytes
  BY <1>2, <1>3, Extended DEF n, x
<1>5. p.body = b
  BY <1>1 DEF n, x
<1> HIDE DEF b
<1>6. b \in Seq(Nat) /\ Holds(b, 0, n) /\ Holds(b, 8, x)
  <2>1. 0 \in Nat /\ Holds(n, 0, n)
    BY <1>4 DEF Holds
  <2> QED BY <1>4, <2>1 DEF Extends
<1>7. Read(b, 0, 8) = n /\ Read(b, 8, ChallengeBytes) = x
  <2>1. 0 \in Nat /\ 8 \in Nat
    OBVIOUS
  <2>2. Read(b, 0, Len(n)) = n /\ Read(b, 8, Len(x)) = x
    BY <1>4, <1>6, <2>1, ReadHeld
  <2> QED BY <1>4, <2>2
<1>8. c \in OpenedChallenge(x, n)
  BY <1>1 DEF OpenedChallenge, Opened, OfChallenge, n, x
<1> DEFINE open == OpenedChallenge(x, n)
           t == (CHOOSE s \in open : TRUE).text
<1>9. ResponseOf(b) = Read(t, 0, 8 + UserBytes)
  <2>1. OpenedChallenge(Read(b, 8, ChallengeBytes), Read(b, 0, 8)) = open
    BY <1>7
  <2>2. open # {}
    BY <1>8
  <2> QED BY <2>1, <2>2 DEF ResponseOf
<1> HIDE DEF t
<1>10. 1 \in DOMAIN Read(t, 0, 8 + UserBytes)
  <2>1. 1 \in 1 .. 8 + UserBytes
    BY Sizes
  <2> QED BY <2>1 DEF Read
<1>11. 1 \notin DOMAIN <<>>
  <2>1. <<>> \in Seq(Nat) /\ Len(<<>>) = 0
    BY EmptySeq
  <2>2. DOMAIN <<>> = 1 .. 0
    BY <2>1, LenProperties
  <2> QED BY <2>2
<1> QED BY <1>5, <1>9, <1>10, <1>11

LEMMA BodyUnderstood ==
    ASSUME WireInv, client.version, NEW p \in sent, NEW header, header.type = p.type,
           p.type = RESPONSE => \E q \in sent : q.type = CHALLENGE /\ q.body = p.body
    PROVE  Understood(header, p.body)
<1>1. IsPacket(p)
  BY DEF WireInv, PacketsAreKnown
<1>2. CASE p.type = REQUEST
  <2>1. p.body = RequestBody
    BY <1>1, <1>2 DEF IsPacket, REQUEST
  <2>2. Known(RequestOf(p.body))
    BY <2>1, RequestUnderstood
  <2> QED BY <1>2, <2>2 DEF Understood, REQUEST, RESPONSE, PAYLOAD
<1>3. CASE p.type = RESPONSE
  <2>1. ResponseOf(p.body) # <<>>
    BY <1>3, ResponseUnderstood
  <2> QED BY <1>3, <2>1 DEF Understood, REQUEST, RESPONSE, PAYLOAD
<1>4. CASE p.type = PAYLOAD
  <2>1. FragmentOf(p.body) # NoFragment
    BY <1>1, <1>4, FragmentIsRead DEF IsPacket
  <2> QED BY <1>4, <2>1 DEF Understood, REQUEST, RESPONSE, PAYLOAD
<1>5. CASE p.type # REQUEST /\ p.type # RESPONSE /\ p.type # PAYLOAD
  BY <1>5 DEF Understood
<1> QED BY <1>2, <1>3, <1>4, <1>5

LEMMA BodyIsBytes ==
    ASSUME EndsAgree, client.version, NEW p, IsPacket(p)
    PROVE  p.body \in Seq(Nat) /\ Len(p.body) \in Nat
<1>1. p.body \in Seq(Nat)
  <2>1. CASE p.type # 0
    BY <2>1 DEF IsPacket
  <2>2. CASE p.type = 0
    <3>1. p.body = RequestBody
      BY <2>2 DEF IsPacket
    <3> QED BY <3>1, RequestIsBytes
  <2> QED BY <2>1, <2>2
<1> QED BY <1>1, LenProperties

\* The only text that the bytes of the packet decrypt to is its own.
LEMMA OwnText ==
    ASSUME WireInv, client.version, packet # NoPacket, ~ (encrypted /\ packet.type = DENIED),
           packet.from = "client" => (packet.type = REQUEST \/ Known(server)),
           NEW header, header.type = packet.type, header.sequence = packet.sequence,
           NEW peer, peer = (IF packet.from = "client" THEN server ELSE client),
           NEW body, packet.bytes = HeaderBytes(packet.type, packet.sequence) \o body, body \in Seq(Nat)
    PROVE  /\ Decrypted(header, body, peer.keys, peer.protocol_id) = {packet.body}
           /\ encrypted /\ packet.type # REQUEST => Len(body) = Len(packet.body) + HmacBytes
           /\ ~ (encrypted /\ packet.type # REQUEST) => Len(body) = Len(packet.body)
<1> DEFINE p == packet
           h == HeaderBytes(p.type, p.sequence)
<1>1. p \in sent /\ BytesAreItsOwn(p) /\ IsPacket(p) /\ token \in Tokens /\ EndsAgree
  BY DEF WireInv, PacketsAreKnown, EndsAgree
<1>2. h \in Seq(Nat) /\ p.body \in Seq(Nat)
  <2>1. p.type \in Nat /\ p.sequence \in Field(8)
    BY <1>1, WordIsField, TypeIsNumber DEF IsPacket
  <2>2. p.body \in Seq(Nat)
    BY <1>1, BodyIsBytes
  <2> QED BY <2>1, <2>2, HeaderIsBytes
<1>3. CASE ~ (encrypted /\ p.type # REQUEST)
  <2>1. h \o body = h \o p.body
    BY <1>1, <1>3 DEF BytesAreItsOwn
  <2> HIDE DEF h, p
  <2>2. body = p.body
    BY <1>2, <2>1, ConcatSplit
  <2>3. Decrypted(header, body, peer.keys, peer.protocol_id) = {body}
    BY <1>3 DEF Decrypted, p
  <2>5. Len(body) = Len(p.body)
    BY <2>2
  <2> QED BY <1>3, <2>2, <2>3, <2>5 DEF p
<1>4. CASE encrypted /\ p.type # REQUEST
  <2>1. PICK s \in seals : OfPacket(s, token, p) /\ p.bytes = h \o s.bytes
    BY <1>1, <1>4 DEF BytesAreItsOwn
  <2>2. HasTag(s) /\ \A x \in seals : HasTag(x)
    BY DEF WireInv, SealsAreKnown
  <2>3. body = s.bytes
    <3>1. h \o body = h \o s.bytes /\ s.bytes \in Seq(Nat)
      BY <2>1, <2>2 DEF HasTag
    <3> HIDE DEF h
    <3> QED BY <1>2, <3>1, ConcatSplit
  <2>4. peer.keys = KeysOf(token) /\ peer.protocol_id = token.protocol_id
    BY <1>1, <1>4, PeersAgree
  <2>10. KeysFor(token, p.type) = KeysOf(token) /\ IdFor(token, p.type) = token.protocol_id
    BY <1>4, ForOthers
  <2> DEFINE open == Opened(body, KeyOf(p.from, KeysOf(token)), p.sequence,
                            PacketData(token.protocol_id, p.type, p.sequence))
  <2>5. Decrypted(header, body, peer.keys, peer.protocol_id) = {x.text : x \in open}
    BY <1>4, <2>4 DEF Decrypted
  <2>6. s \in open /\ s.text = p.body
    BY <2>1, <2>3, <2>10 DEF Opened, OfPacket
  <2>7. ASSUME NEW x \in open PROVE x.text = s.text
    <3>1. HasTag(x) /\ x.bytes = s.bytes
      BY <2>2, <2>3 DEF Opened
    <3> DEFINE m == Len(x.text)
               n == Len(s.text)
               k == Len(s.bytes)
    <3>2. k = m + HmacBytes /\ k = n + HmacBytes /\ m \in Nat /\ n \in Nat
      BY <2>2, <3>1, LenProperties DEF HasTag
    <3> HIDE DEF m, n, k
    <3>3. m = n
      BY <3>2, WireAssumption
    <3>4. x.text = SubSeq(s.bytes, 1, m) /\ s.text = SubSeq(s.bytes, 1, n)
      BY <2>2, <3>1 DEF HasTag, m, n
    <3> QED BY <3>3, <3>4
  <2>8. {x.text : x \in open} = {p.body}
    <3> HIDE DEF open
    <3> QED BY <2>6, <2>7
  <2>9. Len(body) = Len(p.body) + HmacBytes
    BY <2>2, <2>3, <2>6 DEF HasTag
  <2> QED BY <1>4, <2>5, <2>8, <2>9
<1> QED BY <1>3, <1>4

\* The packet under way, and an end that can make something of it.
ArrivesWhole ==
    /\ arrived = packet.bytes /\ packet # NoPacket
    /\ packet.from = "client" => ServerAwaits(packet.type)
    /\ ~ (encrypted /\ packet.type = DENIED)
    /\ packet.type = RESPONSE => \E p \in sent : p.type = CHALLENGE /\ p.body = packet.body

TakesIt == taken' = [type |-> packet.type, sequence |-> packet.sequence, body |-> packet.body]

LEMMA ReceiveTakes == ASSUME WireInv, ArrivesWhole, Receive PROVE TakesIt
<1> DEFINE p == packet
           h == HeaderBytes(p.type, p.sequence)
<1>1. /\ p \in sent /\ BytesAreItsOwn(p) /\ IsPacket(p) /\ client.version /\ arrived = p.bytes
      /\ packet # NoPacket /\ (packet.from = "client" => ServerAwaits(packet.type))
      /\ ~ (encrypted /\ packet.type = DENIED)
      /\ encrypted \in BOOLEAN
  BY DEF WireInv, PacketsAreKnown, ArrivesWhole, EndsAgree
<1>2. PICK body : p.bytes = h \o body /\ body \in Seq(Nat)
  <2>1. CASE encrypted /\ p.type # REQUEST
    <3>1. PICK s \in seals : p.bytes = h \o s.bytes
      BY <1>1, <2>1 DEF BytesAreItsOwn
    <3>2. s.bytes \in Seq(Nat)
      BY DEF WireInv, SealsAreKnown, HasTag
    <3> QED BY <3>1, <3>2
  <2>2. CASE ~ (encrypted /\ p.type # REQUEST)
    <3>1. p.bytes = h \o p.body
      BY <1>1, <2>2 DEF BytesAreItsOwn
    <3>2. p.body \in Seq(Nat)
      BY <1>1, BodyIsBytes DEF WireInv
    <3> QED BY <3>1, <3>2
  <2> QED BY <2>1, <2>2
<1>3. PICK header : header = HeaderOf(arrived)
  OBVIOUS
<1>4. /\ header = [type |-> p.type, sequence |-> p.sequence, size |-> Len(h)]
      /\ SubSeq(arrived, Len(h) + 1, Len(arrived)) = body /\ Len(arrived) = Len(h) + Len(body)
      /\ Len(h) \in Nat \ {0} /\ (p.type # 0 => Len(h) >= 2)
  <2> DEFINE type == p.type
             n == p.sequence
  <2>1. type \in 0 .. 6 /\ n \in Field(8) /\ (type = 0 => n = Word(0))
    BY <1>1, WordIsField, TypeIsNumber DEF IsPacket
  <2>2. h = HeaderBytes(type, n) /\ arrived = h \o body
    BY <1>1, <1>2
  <2> HIDE DEF type, n, h
  <2>3. /\ HeaderOf(arrived) = [type |-> type, sequence |-> n, size |-> Len(h)]
        /\ SubSeq(arrived, Len(h) + 1, Len(arrived)) = body /\ Len(arrived) = Len(h) + Len(body)
        /\ Len(h) \in Nat \ {0} /\ (type # 0 => Len(h) >= 2)
    <3>1. Headed(arrived, h, body, type, n)
      BY <1>2, <2>1, <2>2 DEF Headed
    <3> QED BY <3>1, HeaderIsRead
  <2> QED BY <1>3, <2>3 DEF type, n
<1>5. header.type = p.type /\ header.sequence = p.sequence /\ header.size = Len(h)
  <2> HIDE DEF h, p
  <2> QED BY <1>4
<1>6. PICK peer : peer = IF packet.from = "client" THEN server ELSE client
  OBVIOUS
<1>7. /\ Decrypted(header, body, peer.keys, peer.protocol_id) = {p.body}
      /\ encrypted /\ p.type # REQUEST => Len(body) = Len(p.body) + HmacBytes
      /\ ~ (encrypted /\ p.type # REQUEST) => Len(body) = Len(p.body)
  <2>1. packet.from = "client" => (packet.type = REQUEST \/ Known(server))
    BY <1>1 DEF ServerAwaits
  <2> QED BY <1>1, <1>2, <1>5, <1>6, <2>1, OwnText
<1>8. Len(body) \in Nat /\ Len(p.body) \in Nat /\ HmacBytes \in Nat
  <2>1. Len(p.body) \in Nat
    BY <1>1, BodyIsBytes DEF WireInv
  <2> QED BY <1>2, <2>1, WireAssumption, LenProperties
<1>9. ValidLength(header.type, Len(body), encrypted)
  <2>1. ValidLength(p.type, Len(p.body), FALSE)
    BY <1>1 DEF IsPacket
  <2> DEFINE l == Len(body)
             k == Len(p.body)
             type == p.type
  <2> HIDE DEF l, k, type
  <2>2. ValidLength(type, k, FALSE) /\ k \in Nat /\ l \in Nat
    BY <1>8, <2>1 DEF l, k, type
  <2>3. ValidLength(type, l, encrypted)
    <3>1. CASE encrypted /\ type # REQUEST
      <4>1. l = k + HmacBytes
        BY <1>7, <3>1 DEF l, k, type
      <4>2. l - HmacBytes = k
        BY <1>8, <2>2, <4>1
      <4> QED BY <2>2, <3>1, <4>2 DEF ValidLength
    <3>2. CASE ~ (encrypted /\ type # REQUEST)
      <4>1. l = k
        BY <1>7, <3>2 DEF l, k, type
      <4> QED BY <2>2, <3>2, <4>1 DEF ValidLength
    <3> QED BY <3>1, <3>2
  <2> QED BY <1>5, <2>3 DEF l, type
<1>10. ~ (Len(arrived) < 2 + (IF encrypted THEN HmacBytes ELSE 0))
  <2> DEFINE l == Len(body)
             k == Len(p.body)
             j == Len(h)
             v == Len(VersionInfo)
  <2>1. v \in Nat /\ NonceBytes \in Nat /\ PrivateBytes \in Nat
    BY VersionSequences, Sizes, Limits
  <2>2. PrivateBytes >= HmacBytes
    BY Sizes, Limits
  <2>3. Len(arrived) = j + l /\ j \in Nat \ {0} /\ l \in Nat /\ k \in Nat
    BY <1>4, <1>8
  <2>4. CASE p.type = 0
    <3>1. k = v + 16 + NonceBytes + PrivateBytes
      <4>1. ValidLength(REQUEST, k, FALSE)
        BY <1>1, <2>4 DEF IsPacket, REQUEST
      <4> HIDE DEF k
      <4>2. k = BodySize(REQUEST)
        BY <4>1, TypeFacts DEF ValidLength
      <4> QED BY <4>2, BodySizes
    <3>2. l = k
      <4>1. ~ (encrypted /\ p.type # REQUEST)
        BY <2>4 DEF REQUEST
      <4> QED BY <1>7, <4>1
    <3> HIDE DEF l, k, j, v
    <3>3. j + l >= 2 + HmacBytes /\ j + l >= 2
      BY <1>8, <2>1, <2>2, <2>3, <3>1, <3>2
    <3> QED BY <1>8, <2>3, <3>3
  <2>5. CASE p.type # 0
    <3>1. j >= 2
      BY <1>4, <2>5
    <3>2. encrypted => l = k + HmacBytes
      BY <1>7, <2>5 DEF REQUEST
    <3> HIDE DEF l, k, j, v
    <3> QED BY <1>8, <2>3, <3>1, <3>2
  <2> QED BY <2>4, <2>5
<1>11. header # NoHeader
  <2>1. header.type \in 0 .. 6
    BY <1>1, <1>5, TypeIsNumber
  <2> QED BY <2>1 DEF NoHeader
<1>12. header.type \in (IF packet.from = "client" THEN FromClient ELSE FromServer)
  BY <1>1, <1>5 DEF IsPacket
<1>13. /\ ~ (packet.from = "client" /\ ~ ServerAwaits(header.type))
       /\ ~ (header.type = REQUEST /\ Read(body, Len(VersionInfo), 8) # token.protocol_id)
  <2>1. ASSUME header.type = REQUEST PROVE Read(body, Len(VersionInfo), 8) = token.protocol_id
    <3>1. body = p.body
      BY <1>7, <2>1 DEF Decrypted
    <3>2. p.body = RequestBody
      <4>1. IsPacket(p) /\ p.type = 0
        BY <1>1, <1>5, <2>1 DEF REQUEST
      <4> HIDE DEF p
      <4> QED BY <4>1 DEF IsPacket
    <3>3. Read(RequestBody, Len(VersionInfo), 8) = token.protocol_id
      BY <1>1, RequestUnderstood
    <3> QED BY <3>1, <3>2, <3>3
  <2> QED BY <1>1, <1>5, <2>1
<1>14. Understood(header, p.body)
  BY <1>1, <1>5, BodyUnderstood DEF ArrivesWhole
<1>15. \/ \E text \in {p.body} : Understood(header, text) /\ Take(header, text)
       \/ (\A text \in {p.body} : ~ Understood(header, text)) /\ Fails(header)
  <2>1. SubSeq(arrived, header.size + 1, Len(arrived)) = body
    BY <1>4, <1>5
  <2> HIDE DEF p, h
  <2> QED BY <1>3, <1>6, <1>7, <1>9, <1>10, <1>11, <1>12, <1>13, <2>1 DEF Receive
<1>16. Take(header, p.body)
  BY <1>14, <1>15
<1> QED BY <1>5, <1>16 DEF Take, TakesIt

LEMMA StepTakes ==
    ASSUME WireInv, [WireNext]_wireVars
    PROVE  [ArrivesWhole => TakesIt]_<<taken, packet>>
<1>1. SUFFICES ASSUME ArrivesWhole, <<taken, packet>>' # <<taken, packet>> PROVE TakesIt
  OBVIOUS
<1>2. WireNext
  BY <1>1 DEF wireVars
<1>3. ~ ClientSends /\ ~ ServerSends /\ ~ ServerDenies
  BY <1>1 DEF ArrivesWhole, ClientSends, ClientSendsWith, ServerSends, ServerSendsWith, ServerDenies, Send
<1>4. ~ Whole /\ ~ Cut /\ ~ Change
  BY <1>1 DEF Whole, Cut, Change, Arrive
<1> QED BY <1>1, <1>2, <1>3, <1>4, ReceiveTakes DEF WireNext

\* A packet that arrives whole, at an end that knows the connection, is taken as what
\* was sent: its header and body read, its length accepted, its seal opened.
THEOREM WholeComesThrough == WireSpec => WholeIsTaken
<1>1. WireInv /\ [WireNext]_wireVars => WireInv'
  BY WireInvStep, WireInvStutter
<1>2. WireInv /\ [WireNext]_wireVars => [ArrivesWhole => TakesIt]_<<taken, packet>>
  BY StepTakes
<1> QED BY <1>1, <1>2, WireInvInit, PTL DEF WireSpec, WholeIsTaken, ArrivesWhole, TakesIt
=============================================================================
