------------------------------ MODULE DataTheorems ------------------------------
(***************************************************************************)
(* What the proofs about several modules need of natural numbers, functions *)
(* defined by recursion, powers, and sequences of sequences.               *)
(***************************************************************************)
EXTENDS Powers, SequencesExt, SequenceTheorems, FiniteSetTheorems, WellFoundedInduction, TLAPS

(***************************************************************************)
(* Numbers.  What is true of all of them is proved by the least of which   *)
(* it is not.                                                              *)
(***************************************************************************)
LEMMA Least ==
    ASSUME NEW T \in SUBSET Nat, T # {}
    PROVE  \E m \in T : \A k \in T : m <= k
<1> DEFINE D == {0 .. k : k \in T}
<1> DEFINE R == StrictSubsetOrdering(Nat)
<1>1. IsWellFoundedOn(R, FiniteSubsetsOf(Nat))
  BY FS_StrictSubsetOrderingWellFounded
<1>2. \A k \in T : 0 .. k \in FiniteSubsetsOf(Nat)
  BY FS_Interval DEF FiniteSubsetsOf
<1>3. D \subseteq FiniteSubsetsOf(Nat) /\ D # {}
  BY <1>2
<1> HIDE DEF D, R
<1>4. PICK x \in D : \A y \in D : ~ (<<y, x>> \in R)
  BY <1>1, <1>3, WFMin, Zenon
<1>5. PICK m \in T : x = 0 .. m
  BY DEF D
<1>6. ASSUME NEW k \in T, k < m PROVE FALSE
  <2>1. 0 .. k \in D
    BY DEF D
  <2>2. 0 .. k \in SUBSET Nat /\ 0 .. m \in SUBSET Nat /\ 0 .. k \subseteq 0 .. m /\ m \in 0 .. m /\ m \notin 0 .. k
    BY <1>6
  <2>3. <<0 .. k, 0 .. m>> \in R
    BY <2>2 DEF R, StrictSubsetOrdering
  <2> QED BY <1>4, <1>5, <2>1, <2>3
<1> QED BY <1>6

\* What a division gives, from one way to write the number.
LEMMA Division ==
    ASSUME NEW d \in Nat \ {0}, NEW q \in Int, NEW r \in 0 .. d - 1
    PROVE  (d * q + r) \div d = q /\ (d * q + r) % d = r
<1> DEFINE n == d * q + r
           p == n \div d
           s == n % d
<1>1. n \in Int /\ p \in Int /\ s \in 0 .. d - 1 /\ n = d * p + s
  OBVIOUS
<1>2. d * q + r = d * p + s
  BY <1>1
<1> HIDE DEF n, p, s
<1>3. ASSUME p < q PROVE FALSE
  <2>1. d * (p + 1) <= d * q
    BY <1>1, <1>3
  <2>2. d * (p + 1) = d * p + d
    BY <1>1
  <2> QED BY <1>1, <1>2, <2>1, <2>2
<1>4. ASSUME q < p PROVE FALSE
  <2>1. d * (q + 1) <= d * p
    BY <1>1, <1>4
  <2>2. d * (q + 1) = d * q + d
    BY <1>1
  <2> QED BY <1>1, <1>2, <2>1, <2>2
<1>5. p = q /\ s = r
  <2>1. p = q
    BY <1>1, <1>3, <1>4
  <2> QED BY <1>1, <1>2, <2>1
<1> QED BY <1>5 DEF n, p, s

\* One more digit of a number.
LEMMA Digit ==
    ASSUME NEW v \in Int, NEW P \in Nat \ {0}, NEW B \in Nat \ {0}
    PROVE  v % (B * P) = (v % P) + ((v \div P) % B) * P
<1> DEFINE q == v \div P
           r == v % P
           h == q \div B
           d == q % B
<1>1. q \in Int /\ r \in 0 .. P - 1 /\ v = P * q + r
  OBVIOUS
<1>2. h \in Int /\ d \in 0 .. B - 1 /\ q = B * h + d
  <2> HIDE DEF q
  <2> QED BY <1>1
<1> HIDE DEF q, r, h, d
<1>3. B * P \in Nat \ {0}
  OBVIOUS
<1>4. v = (B * P) * h + (P * d + r)
  <2>1. P * (B * h + d) = P * (B * h) + P * d
    BY <1>2
  <2>2. P * (B * h) = (B * P) * h
    BY <1>2
  <2>3. P * q = (B * P) * h + P * d
    BY <1>2, <2>1, <2>2
  <2> QED BY <1>1, <1>2, <1>3, <2>3
<1>5. P * d + r \in 0 .. B * P - 1
  <2>1. P * d <= P * (B - 1)
    BY <1>2
  <2>2. P * (B - 1) = B * P - P
    OBVIOUS
  <2>3. P * d \in Nat
    BY <1>2
  <2> QED BY <1>1, <1>3, <2>1, <2>2, <2>3
<1>6. v % (B * P) = P * d + r
  BY <1>2, <1>3, <1>4, <1>5, Division
<1>7. P * d = d * P
  BY <1>2
<1> QED BY <1>6, <1>7, <1>1, <1>2 DEF q, r, d

\* A function defined by recursion on the numbers up to n.
LEMMA Recursion ==
    ASSUME NEW V, NEW a \in V, NEW n \in Nat, NEW G \in [1 .. n -> [V -> V]]
    PROVE  \E f \in [0 .. n -> V] : f[0] = a /\ \A i \in 1 .. n : f[i] = G[i][f[i - 1]]
<1> DEFINE Upto(m, f) == f \in [0 .. m -> V] /\ f[0] = a /\ \A i \in 1 .. m : f[i] = G[i][f[i - 1]]
           T == {m \in 0 .. n : ~ \E f : Upto(m, f)}
<1>1. ASSUME NEW m \in T, \A k \in T : m <= k PROVE FALSE
  <2>1. m \in 0 .. n /\ ~ \E f : Upto(m, f)
    OBVIOUS
  <2>2. CASE m = 0
    <3> DEFINE f == [i \in 0 .. 0 |-> a]
    <3>1. f \in [0 .. 0 -> V] /\ f[0] = a
      OBVIOUS
    <3> HIDE DEF f
    <3>2. Upto(0, f)
      BY <3>1
    <3> QED BY <2>1, <2>2, <3>2
  <2>3. CASE m # 0
    <3>1. m - 1 \in 0 .. n /\ m - 1 < m /\ m - 1 \notin T
      <4>1. m - 1 \in 0 .. n /\ m - 1 < m /\ m \in Nat
        <5> HIDE DEF T
        <5> QED BY <2>1, <2>3
      <4> HIDE DEF T
      <4> QED BY <1>1, <4>1
    <3>2. PICK f : Upto(m - 1, f)
      <4> HIDE DEF Upto
      <4> QED BY <3>1
    <3> HIDE DEF T
    <3> DEFINE g == [i \in 0 .. m |-> IF i = m THEN G[m][f[m - 1]] ELSE f[i]]
    <3>3. m \in 1 .. n /\ f[m - 1] \in V /\ G[m][f[m - 1]] \in V
      BY <2>1, <2>3, <3>2
    <3>4. g \in [0 .. m -> V] /\ g[m] = G[m][f[m - 1]] /\ \A i \in 0 .. m - 1 : g[i] = f[i]
      BY <2>1, <3>2, <3>3
    <3> HIDE DEF g
    <3>5. \A i \in 1 .. m : g[i] = G[i][g[i - 1]]
      <4> SUFFICES ASSUME NEW i \in 1 .. m PROVE g[i] = G[i][g[i - 1]]
        OBVIOUS
      <4>1. CASE i = m
        <5>1. g[m - 1] = f[m - 1]
          BY <2>1, <2>3, <3>4
        <5> QED BY <3>4, <4>1, <5>1
      <4>2. CASE i # m
        <5>1. i \in 1 .. m - 1 /\ i \in 0 .. m - 1 /\ i - 1 \in 0 .. m - 1
          BY <2>1, <4>2
        <5>2. g[i] = f[i] /\ g[i - 1] = f[i - 1] /\ f[i] = G[i][f[i - 1]]
          BY <3>2, <3>4, <5>1
        <5> QED BY <5>2
      <4> QED BY <4>1, <4>2
    <3>6. g[0] = a
      BY <2>1, <2>3, <3>2, <3>4
    <3>7. Upto(m, g)
      BY <3>4, <3>5, <3>6
    <3> QED BY <2>1, <3>7
  <2> QED BY <2>2, <2>3
<1>2. T \in SUBSET Nat
  OBVIOUS
<1>3. T = {}
  <2> HIDE DEF T
  <2> QED BY <1>1, <1>2, Least
<1>4. \E f : Upto(n, f)
  <2> HIDE DEF Upto
  <2> QED BY <1>3
<1> QED BY <1>4

\* Two functions that agree at 0, and wherever they agreed one before, agree.
Follows(g, f, n) == f[0] = g[0] /\ \A i \in 1 .. n : f[i - 1] = g[i - 1] => f[i] = g[i]

LEMMA Agreement ==
    ASSUME NEW n \in Nat, NEW f, NEW g, Follows(g, f, n)
    PROVE  \A i \in 0 .. n : f[i] = g[i]
<1> DEFINE T == {i \in 0 .. n : f[i] # g[i]}
<1>1. ASSUME NEW m \in T, \A k \in T : m <= k PROVE FALSE
  <2>1. m \in 1 .. n /\ f[m] # g[m]
    BY DEF Follows
  <2>2. m - 1 \in 0 .. n /\ m - 1 < m /\ m - 1 \notin T
    BY <1>1, <2>1
  <2>3. f[m - 1] = g[m - 1]
    BY <2>2
  <2> QED BY <2>1, <2>3 DEF Follows
<1>2. T \in SUBSET Nat
  OBVIOUS
<1>3. T = {}
  <2> HIDE DEF T
  <2> QED BY <1>1, <1>2, Least
<1> QED BY <1>3

Powers(f, base, n) == f = [i \in 0 .. n |-> IF i = 0 THEN 1 ELSE base * f[i - 1]]

LEMMA PowersExist ==
    ASSUME NEW base \in Nat \ {0}, NEW n \in Nat
    PROVE  /\ \E f : Powers(f, base, n)
           /\ \A f : Powers(f, base, n) =>
                  f[0] = 1 /\ (\A i \in 1 .. n : f[i] = base * f[i - 1]) /\ \A i \in 0 .. n : f[i] \in Nat \ {0}
<1> DEFINE G == [i \in 1 .. n |-> [x \in Nat \ {0} |-> base * x]]
           V == Nat \ {0}
<1>1. G \in [1 .. n -> [V -> V]] /\ 1 \in V /\ \A i \in 1 .. n : \A x \in V : G[i][x] = base * x
  OBVIOUS
<1> HIDE DEF G
<1>2. PICK f \in [0 .. n -> V] : f[0] = 1 /\ \A i \in 1 .. n : f[i] = G[i][f[i - 1]]
  <2> HIDE DEF V
  <2> QED BY <1>1, Recursion
<1>3. \A i \in 1 .. n : f[i] = base * f[i - 1]
  <2> SUFFICES ASSUME NEW i \in 1 .. n PROVE f[i] = base * f[i - 1]
    OBVIOUS
  <2>1. i - 1 \in 0 .. n
    OBVIOUS
  <2> QED BY <1>1, <1>2, <2>1
<1>4. Powers(f, base, n)
  <2>1. \A i \in 0 .. n : f[i] = IF i = 0 THEN 1 ELSE base * f[i - 1]
    BY <1>2, <1>3
  <2> QED BY <1>2, <2>1 DEF Powers
<1>5. ASSUME NEW g, Powers(g, base, n)
      PROVE  g[0] = 1 /\ (\A i \in 1 .. n : g[i] = base * g[i - 1]) /\ \A i \in 0 .. n : g[i] \in Nat \ {0}
  <2>1. g[0] = 1 /\ \A i \in 1 .. n : g[i] = base * g[i - 1]
    <3>1. \A i \in 0 .. n : g[i] = IF i = 0 THEN 1 ELSE base * g[i - 1]
      BY <1>5 DEF Powers
    <3> QED BY <3>1
  <2>2. Follows(g, f, n)
    BY <1>2, <1>3, <2>1 DEF Follows
  <2>3. \A i \in 0 .. n : f[i] = g[i]
    BY <2>2, Agreement
  <2> QED BY <1>2, <2>1, <2>3
<1> QED BY <1>4, <1>5

LEMMA PowerIsLast ==
    ASSUME NEW base \in Nat \ {0}, NEW n \in Nat
    PROVE  \E f : Powers(f, base, n) /\ Power(base, n) = f[n]
<1>1. \E f : f = [i \in 0 .. n |-> IF i = 0 THEN 1 ELSE base * f[i - 1]]
  BY PowersExist DEF Powers
<1> QED BY <1>1 DEF Power, Powers

LEMMA PowerNext ==
    ASSUME NEW base \in Nat \ {0}, NEW n \in Nat
    PROVE  Power(base, 0) = 1 /\ Power(base, n) \in Nat \ {0} /\ Power(base, n + 1) = base * Power(base, n)
<1>1. PICK f : Powers(f, base, n) /\ Power(base, n) = f[n]
  BY PowerIsLast
<1>2. PICK g : Powers(g, base, n + 1) /\ Power(base, n + 1) = g[n + 1]
  BY PowerIsLast
<1>3. PICK h : Powers(h, base, 0) /\ Power(base, 0) = h[0]
  BY PowerIsLast
<1>4. f[0] = 1 /\ (\A i \in 1 .. n : f[i] = base * f[i - 1]) /\ \A i \in 0 .. n : f[i] \in Nat \ {0}
  BY <1>1, PowersExist
<1>5. g[0] = 1 /\ \A i \in 1 .. n + 1 : g[i] = base * g[i - 1]
  BY <1>2, PowersExist
<1>6. h[0] = 1
  BY <1>3, PowersExist
<1>7. g[n] = f[n]
  <2>1. Follows(g, f, n)
    BY <1>4, <1>5 DEF Follows
  <2>2. \A i \in 0 .. n : f[i] = g[i]
    BY <2>1, Agreement
  <2> QED BY <2>2
<1>8. n + 1 \in 1 .. n + 1 /\ (n + 1) - 1 = n /\ n \in 0 .. n
  OBVIOUS
<1> QED BY <1>1, <1>2, <1>3, <1>4, <1>5, <1>6, <1>7, <1>8

-------------------------------------------------------------------------------
(***************************************************************************)
(* Sequences of sequences.                                                 *)
(***************************************************************************)
\* The joins of the first elements of s, up to the n-th.
Joins(f, s, n) == f = [i \in 1 .. n |-> IF i = 1 THEN s[i] ELSE f[i-1] \o s[i]]

LEMMA JoinsExist == ASSUME NEW s, NEW n \in Nat \ {0} PROVE \E f : Joins(f, s, n)
<1> DEFINE T == {m \in Nat \ {0} : ~ \E f : Joins(f, s, m)}
<1>1. ASSUME NEW m \in T, \A k \in T : m <= k PROVE FALSE
  <2>0. m \in Nat \ {0} /\ ~ \E f : Joins(f, s, m)
    OBVIOUS
  <2>1. CASE m = 1
    <3> DEFINE f == [i \in 1 .. 1 |-> s[1]]
    <3>1. \A i \in 1 .. 1 : f[i] = IF i = 1 THEN s[i] ELSE f[i-1] \o s[i]
      OBVIOUS
    <3>2. f = [i \in 1 .. 1 |-> f[i]]
      OBVIOUS
    <3> HIDE DEF f
    <3>3. Joins(f, s, 1)
      BY <3>1, <3>2 DEF Joins
    <3> QED BY <2>0, <2>1, <3>3
  <2>2. CASE m # 1
    <3>1. m - 1 \in Nat \ {0} /\ m - 1 < m /\ m - 1 \notin T
      BY <1>1, <2>2
    <3>2. PICK f : Joins(f, s, m - 1)
      BY <3>1
    <3> HIDE DEF T
    <3> DEFINE g == [i \in 1 .. m |-> IF i = m THEN f[m-1] \o s[m] ELSE f[i]]
    <3>3. ASSUME NEW i \in 1 .. m PROVE g[i] = IF i = 1 THEN s[i] ELSE g[i-1] \o s[i]
      <4>1. CASE i = m
        <5>1. m \in 1 .. m /\ m - 1 \in 1 .. m /\ m - 1 # m /\ m # 1
          BY <2>0, <2>2
        <5>2. g[m] = f[m-1] \o s[m] /\ g[m-1] = f[m-1]
          BY <5>1
        <5> HIDE DEF g
        <5> QED BY <4>1, <5>1, <5>2
      <4>2. CASE i # m
        <5>1. i \in 1 .. m - 1 /\ (i # 1 => i - 1 \in 1 .. m - 1 /\ i - 1 \in 1 .. m /\ i - 1 # m)
          BY <2>0, <3>1, <4>2
        <5>2. g[i] = f[i] /\ (i # 1 => g[i-1] = f[i-1])
          BY <4>2, <5>1
        <5>3. f[i] = IF i = 1 THEN s[i] ELSE f[i-1] \o s[i]
          BY <3>2, <5>1 DEF Joins
        <5> HIDE DEF g
        <5> QED BY <5>1, <5>2, <5>3
      <4> QED BY <4>1, <4>2
    <3>4. Joins(g, s, m)
      <4>1. g = [i \in 1 .. m |-> g[i]]
        OBVIOUS
      <4> HIDE DEF g
      <4> QED BY <3>3, <4>1 DEF Joins
    <3> QED BY <2>0, <3>4
  <2> QED BY <2>1, <2>2
<1>2. T \in SUBSET Nat
  OBVIOUS
<1>3. T = {}
  <2> HIDE DEF T
  <2> QED BY <1>1, <1>2, Least
<1> QED BY <1>3

LEMMA JoinsAgree ==
    ASSUME NEW S, NEW s \in Seq(Seq(S)), NEW t, NEW n \in Nat \ {0}, NEW m \in Nat, n <= m,
           \A i \in 1 .. n : s[i] = t[i], n = Len(s),
           NEW f, Joins(f, s, n), NEW g, Joins(g, t, m)
    PROVE  \A i \in 1 .. n : f[i] = g[i] /\ f[i] \in Seq(S)
<1> DEFINE T == {i \in 1 .. n : ~ (f[i] = g[i] /\ f[i] \in Seq(S))}
<1>1. ASSUME NEW i \in T, \A k \in T : i <= k PROVE FALSE
  <2>1. /\ f[i] = IF i = 1 THEN s[i] ELSE f[i-1] \o s[i]
        /\ g[i] = IF i = 1 THEN t[i] ELSE g[i-1] \o t[i]
    <3>1. i \in 1 .. n /\ i \in 1 .. m
      OBVIOUS
    <3> HIDE DEF T
    <3> QED BY <3>1 DEF Joins
  <2>2. s[i] \in Seq(S) /\ s[i] = t[i]
    BY ElementOfSeq
  <2>3. CASE i = 1
    BY <2>1, <2>2, <2>3
  <2>4. CASE i # 1
    <3>0. i \in 1 .. n
      OBVIOUS
    <3>1. i - 1 \in 1 .. n /\ i - 1 < i /\ i - 1 \notin T
      <4> HIDE DEF T
      <4> QED BY <1>1, <2>4, <3>0
    <3>2. f[i-1] = g[i-1] /\ f[i-1] \in Seq(S)
      BY <3>1
    <3>3. f[i-1] \o s[i] \in Seq(S)
      BY <2>2, <3>2, ConcatProperties
    <3>4. f[i] = f[i-1] \o s[i] /\ g[i] = f[i-1] \o s[i]
      BY <2>1, <2>2, <2>4, <3>2
    <3> QED BY <3>3, <3>4
  <2> QED BY <2>3, <2>4
<1>2. T \in SUBSET Nat
  OBVIOUS
<1>3. T = {}
  <2> HIDE DEF T
  <2> QED BY <1>1, <1>2, Least
<1> QED BY <1>3

LEMMA FlattenIsJoins ==
    ASSUME NEW S, NEW s \in Seq(Seq(S)), s # <<>>
    PROVE  \E f : Joins(f, s, Len(s)) /\ FlattenSeq(s) = f[Len(s)]
<1> DEFINE n == Len(s)
<1>1. n \in Nat \ {0}
  BY EmptySeq
<1>2. \E f : Joins(f, s, n)
  BY <1>1, JoinsExist
<1>3. \E f : f = [i \in 1 .. n |-> IF i = 1 THEN s[i] ELSE f[i-1] \o s[i]]
  BY <1>2 DEF Joins
<1> HIDE DEF n
<1> QED BY <1>1, <1>3 DEF FlattenSeq, n, Joins

\* FlattenSeq, one sequence at a time.
LEMMA FlattenAppend ==
    ASSUME NEW S, NEW s \in Seq(Seq(S)), NEW x \in Seq(S)
    PROVE  /\ FlattenSeq(s) \in Seq(S)
           /\ FlattenSeq(Append(s, x)) = FlattenSeq(s) \o x
<1> DEFINE t == Append(s, x)
<1> DEFINE n == Len(s)
<1>1. /\ t \in Seq(Seq(S)) /\ Len(t) = n + 1 /\ t # <<>> /\ t[n + 1] = x
      /\ \A i \in 1 .. n : t[i] = s[i]
      /\ n \in Nat
  BY AppendProperties
<1> HIDE DEF t
<1>2. PICK g : Joins(g, t, n + 1) /\ FlattenSeq(t) = g[n + 1]
  BY <1>1, FlattenIsJoins
<1>3. g[n + 1] = IF n + 1 = 1 THEN t[n + 1] ELSE g[n] \o x
  <2>1. n + 1 \in 1 .. n + 1 /\ (n + 1) - 1 = n
    BY <1>1
  <2> QED BY <1>1, <1>2, <2>1 DEF Joins
<1>4. CASE s = <<>>
  <2>1. n = 0 /\ FlattenSeq(s) = <<>>
    BY <1>4, EmptySeq DEF FlattenSeq
  <2> QED BY <1>1, <1>2, <1>3, <2>1, ConcatEmptySeq DEF t
<1>5. CASE s # <<>>
  <2>1. n \in Nat \ {0}
    BY <1>5, EmptySeq
  <2>2. PICK f : Joins(f, s, n) /\ FlattenSeq(s) = f[n]
    BY <1>5, FlattenIsJoins
  <2>3. f[n] = g[n] /\ f[n] \in Seq(S)
    <3> HIDE DEF n
    <3>1. n = Len(s) /\ n + 1 \in Nat /\ n <= n + 1 /\ \A i \in 1 .. n : s[i] = t[i]
      BY <1>1, <2>1 DEF n
    <3>2. \A i \in 1 .. n : f[i] = g[i] /\ f[i] \in Seq(S)
      BY <1>2, <2>1, <2>2, <3>1, JoinsAgree
    <3> QED BY <2>1, <3>2
  <2> QED BY <1>1, <1>2, <1>3, <2>1, <2>2, <2>3 DEF t
<1> QED BY <1>4, <1>5

\* Where the elements of FlattenSeq(s) come from, and in which order.
Places(row, column, s) ==
    /\ \A k \in DOMAIN FlattenSeq(s) :
          /\ row[k] \in DOMAIN s /\ column[k] \in DOMAIN s[row[k]]
          /\ FlattenSeq(s)[k] = s[row[k]][column[k]]
    /\ \A k, l \in DOMAIN FlattenSeq(s) :
          k < l => row[k] < row[l] \/ (row[k] = row[l] /\ column[k] < column[l])

LEMMA PlacesOfAppend ==
    ASSUME NEW S, NEW s \in Seq(Seq(S)), NEW x \in Seq(S), NEW row, NEW column, Places(row, column, s)
    PROVE  \E r, c : Places(r, c, Append(s, x))
<1> DEFINE F == FlattenSeq(s)
           n == Len(F)
           t == Append(s, x)
           G == FlattenSeq(t)
           r == [k \in 1 .. n + Len(x) |-> IF k <= n THEN row[k] ELSE Len(s) + 1]
           c == [k \in 1 .. n + Len(x) |-> IF k <= n THEN column[k] ELSE k - n]
<1>1. F \in Seq(S) /\ G = F \o x /\ n \in Nat /\ Len(x) \in Nat /\ DOMAIN F = 1 .. n
  BY FlattenAppend
<1>2. /\ DOMAIN G = 1 .. n + Len(x)
      /\ \A k \in 1 .. n : G[k] = F[k]
      /\ \A k \in n + 1 .. n + Len(x) : G[k] = x[k - n]
  BY <1>1, ConcatProperties
<1>3. /\ t \in Seq(Seq(S)) /\ DOMAIN t = 1 .. Len(s) + 1 /\ DOMAIN s = 1 .. Len(s) /\ Len(s) \in Nat
      /\ t[Len(s) + 1] = x /\ \A i \in DOMAIN s : t[i] = s[i]
      /\ DOMAIN x = 1 .. Len(x)
  BY AppendProperties
<1>4. /\ \A k \in 1 .. n : row[k] \in DOMAIN s /\ column[k] \in DOMAIN s[row[k]] /\ F[k] = s[row[k]][column[k]]
      /\ \A k, l \in 1 .. n : k < l => row[k] < row[l] \/ (row[k] = row[l] /\ column[k] < column[l])
  BY <1>1 DEF Places
<1>5. /\ \A k \in 1 .. n : r[k] = row[k] /\ c[k] = column[k]
      /\ \A k \in n + 1 .. n + Len(x) : r[k] = Len(s) + 1 /\ c[k] = k - n
  BY <1>1
<1> HIDE DEF F, n, G, t, r, c
<1>6. ASSUME NEW k \in DOMAIN G
      PROVE  r[k] \in DOMAIN t /\ c[k] \in DOMAIN t[r[k]] /\ G[k] = t[r[k]][c[k]]
  <2>1. CASE k \in 1 .. n
    <3>1. row[k] \in DOMAIN s /\ t[row[k]] = s[row[k]] /\ row[k] \in DOMAIN t
      BY <1>3, <1>4, <2>1
    <3> QED BY <1>2, <1>4, <1>5, <2>1, <3>1
  <2>2. CASE k \in n + 1 .. n + Len(x)
    <3>1. k - n \in 1 .. Len(x) /\ Len(s) + 1 \in DOMAIN t
      BY <1>1, <1>3, <2>2
    <3> QED BY <1>2, <1>3, <1>5, <2>2, <3>1
  <2> QED BY <1>1, <1>2, <2>1, <2>2
<1>7. ASSUME NEW k \in DOMAIN G, NEW l \in DOMAIN G, k < l
      PROVE  r[k] < r[l] \/ (r[k] = r[l] /\ c[k] < c[l])
  <2>1. CASE l \in 1 .. n
    <3>1. k \in 1 .. n
      BY <1>1, <1>2, <1>7, <2>1
    <3> QED BY <1>4, <1>5, <1>7, <2>1, <3>1
  <2>2. CASE l \notin 1 .. n /\ k \in 1 .. n
    <3>1. l \in n + 1 .. n + Len(x)
      BY <1>1, <1>2, <2>2
    <3>2. r[k] \in 1 .. Len(s) /\ r[l] = Len(s) + 1
      BY <1>3, <1>4, <1>5, <2>2, <3>1
    <3> QED BY <1>3, <3>2
  <2>3. CASE l \notin 1 .. n /\ k \notin 1 .. n
    <3>1. l \in n + 1 .. n + Len(x) /\ k \in n + 1 .. n + Len(x)
      BY <1>1, <1>2, <2>3
    <3> QED BY <1>1, <1>5, <1>7, <3>1
  <2> QED BY <2>1, <2>2, <2>3
<1>8. Places(r, c, t)
  BY <1>6, <1>7 DEF Places, G
<1> QED BY <1>8 DEF t

LEMMA FlattenPlaces == ASSUME NEW S, NEW s \in Seq(Seq(S)) PROVE \E row, column : Places(row, column, s)
<1> DEFINE Q(t) == \E row, column : Places(row, column, t)
<1> DEFINE T == {n \in Nat : \E t \in Seq(Seq(S)) : Len(t) = n /\ ~ Q(t)}
<1>1. ASSUME NEW n \in T, \A k \in T : n <= k PROVE FALSE
  <2>1. PICK t \in Seq(Seq(S)) : Len(t) = n /\ ~ Q(t)
    OBVIOUS
  <2> HIDE DEF Q
  <2>2. CASE t = <<>>
    <3>1. FlattenSeq(t) = <<>>
      BY <2>2, EmptySeq DEF FlattenSeq
    <3>2. DOMAIN FlattenSeq(t) = {}
      BY <3>1
    <3>3. Places(0, 0, t)
      BY <3>2 DEF Places
    <3> QED BY <2>1, <3>3 DEF Q
  <2>3. CASE t # <<>>
    <3>1. PICK r \in Seq(Seq(S)), x \in Seq(S) : t = Append(r, x)
      BY <2>3, SequenceEmptyOrAppend
    <3>2. Len(r) \in Nat /\ Len(r) + 1 = n
      BY <2>1, <3>1, AppendProperties
    <3>3. Len(r) \notin T
      <4> HIDE DEF T
      <4> QED BY <1>1, <3>2
    <3>4. Q(r)
      BY <3>2, <3>3
    <3>5. Q(t)
      BY <3>1, <3>4, PlacesOfAppend DEF Q
    <3> QED BY <2>1, <3>5
  <2> QED BY <2>2, <2>3
<1>2. T \in SUBSET Nat
  OBVIOUS
<1>3. T = {}
  <2> HIDE DEF T
  <2> QED BY <1>1, <1>2, Least
<1>4. Len(s) \in Nat /\ Len(s) \notin T
  BY <1>3, LenProperties
<1> HIDE DEF Q
<1>5. Q(s)
  BY <1>4
<1> QED BY <1>5 DEF Q

\* What is true of the empty sequence, and of a longer one when it is of the shorter.
LEMMA SequencesBuild ==
    ASSUME NEW S, NEW T, <<>> \in T,
           \A s \in Seq(S) : s \in T => \A e \in S : Append(s, e) \in T
    PROVE  Seq(S) \subseteq T
<1> DEFINE D == {Len(s) : s \in Seq(S) \ T}
<1>1. ASSUME NEW n \in D, \A k \in D : n <= k PROVE FALSE
  <2>1. PICK s \in Seq(S) : s \notin T /\ Len(s) = n
    OBVIOUS
  <2>2. s # <<>>
    BY <2>1
  <2>3. PICK t \in Seq(S), e \in S : s = Append(t, e)
    BY <2>2, SequenceEmptyOrAppend
  <2>4. Len(t) \in Nat /\ Len(s) = Len(t) + 1
    BY <2>3
  <2>5. t \notin T
    BY <2>1, <2>3
  <2>6. Len(t) \in D
    BY <2>5
  <2> QED BY <1>1, <2>1, <2>4, <2>6
<1>2. D \in SUBSET Nat
  OBVIOUS
<1>3. D = {}
  <2> HIDE DEF D
  <2> QED BY <1>1, <1>2, Least
<1> QED BY <1>3

\* The associativity of \o, for the places where its equation is better not unfolded.
Regroups(s, t, u) == (s \o t) \o u = s \o (t \o u)

LEMMA Regrouping ==
    ASSUME NEW S, NEW s \in Seq(S), NEW t \in Seq(S), NEW u \in Seq(S)
    PROVE  Regroups(s, t, u)
BY ConcatAssociative DEF Regroups

LEMMA FlattenConcat ==
    ASSUME NEW S, NEW s \in Seq(Seq(S)), NEW t \in Seq(Seq(S))
    PROVE  FlattenSeq(s \o t) = FlattenSeq(s) \o FlattenSeq(t)
<1> DEFINE E == Seq(S)
           T == {u \in Seq(E) : FlattenSeq(s \o u) = FlattenSeq(s) \o FlattenSeq(u)}
<1>1. FlattenSeq(s) \in Seq(S)
  BY FlattenAppend, EmptySeq
<1>2. <<>> \in T
  <2>1. FlattenSeq(<<>>) = <<>>
    BY DEF FlattenSeq
  <2>2. s \o <<>> = s /\ FlattenSeq(s) \o <<>> = FlattenSeq(s)
    BY <1>1, ConcatEmptySeq
  <2> QED BY <2>1, <2>2, EmptySeq
<1>3. ASSUME NEW u \in Seq(E), u \in T, NEW e \in E PROVE Append(u, e) \in T
  <2>1. s \o Append(u, e) = Append(s \o u, e) /\ s \o u \in Seq(E) /\ Append(u, e) \in Seq(E)
    BY SMTT(20)
  <2>2. /\ FlattenSeq(u) \in Seq(S) /\ FlattenSeq(Append(u, e)) = FlattenSeq(u) \o e
        /\ FlattenSeq(Append(s \o u, e)) = FlattenSeq(s \o u) \o e
    BY <2>1, FlattenAppend
  <2>3. (FlattenSeq(s) \o FlattenSeq(u)) \o e = FlattenSeq(s) \o (FlattenSeq(u) \o e)
    <3> DEFINE a == FlattenSeq(s)
               b == FlattenSeq(u)
    <3>1. a \in Seq(S) /\ b \in Seq(S) /\ e \in Seq(S)
      BY <1>1, <2>2
    <3> HIDE DEF a, b
    <3>2. Regroups(a, b, e)
      BY <3>1, Regrouping
    <3> QED BY <3>2, Zenon DEF a, b, Regroups
  <2>4. FlattenSeq(s \o u) = FlattenSeq(s) \o FlattenSeq(u)
    BY <1>3
  <2>5. FlattenSeq(s \o Append(u, e)) = FlattenSeq(s) \o FlattenSeq(Append(u, e))
    BY <2>1, <2>2, <2>3, <2>4, Zenon
  <2> QED BY <2>1, <2>5
<1>4. Seq(E) \subseteq T
  <2> HIDE DEF T, E
  <2> QED BY <1>2, <1>3, SequencesBuild
<1> QED BY <1>4

LEMMA FlattenOne ==
    ASSUME NEW S, NEW x \in Seq(S)
    PROVE  FlattenSeq(<<>>) = <<>> /\ FlattenSeq(<<x>>) = x
<1>1. FlattenSeq(<<>>) = <<>>
  BY DEF FlattenSeq
<1>2. <<x>> = Append(<<>>, x) /\ <<>> \in Seq(Seq(S)) /\ <<>> \o x = x
  BY EmptySeq, ConcatEmptySeq
<1>3. FlattenSeq(Append(<<>>, x)) = FlattenSeq(<<>>) \o x
  BY <1>2, FlattenAppend
<1> QED BY <1>1, <1>2, <1>3

\* Two ways to cut a sequence at the same place are one.
LEMMA ConcatSplit ==
    ASSUME NEW S, NEW s \in Seq(S), NEW t \in Seq(S), NEW u \in Seq(S), NEW v \in Seq(S),
           s \o t = u \o v, Len(s) = Len(u)
    PROVE  s = u /\ t = v
<1>1. s = SubSeq(s \o t, 1, Len(s)) /\ u = SubSeq(u \o v, 1, Len(u))
  <2>1. ASSUME NEW a \in Seq(S), NEW b \in Seq(S) PROVE a = SubSeq(a \o b, 1, Len(a))
    <3> DEFINE c == SubSeq(a \o b, 1, Len(a))
    <3>1. \A i \in 1 .. Len(a) : (a \o b)[i] = a[i] /\ a[i] \in S
      BY ConcatProperties, ElementOfSeq
    <3>2. c \in Seq(S) /\ Len(c) = Len(a) /\ \A i \in 1 .. Len(a) : c[i] = a[i]
      BY <3>1, SubSeqProperties
    <3> QED BY <3>2, SeqEqual
  <2> QED BY <2>1
<1>2. s = u
  BY <1>1
<1>3. Len(t) = Len(v)
  <2>1. Len(s \o t) = Len(s) + Len(t) /\ Len(u \o v) = Len(u) + Len(v)
    BY ConcatProperties
  <2> QED BY <2>1, LenProperties
<1>4. \A i \in 1 .. Len(t) : t[i] = v[i]
  <2> SUFFICES ASSUME NEW i \in 1 .. Len(t) PROVE t[i] = v[i]
    OBVIOUS
  <2>1. (s \o t)[Len(s) + i] = t[i] /\ (u \o v)[Len(s) + i] = v[i]
    BY <1>3, SMTT(30)
  <2> QED BY <2>1
<1> QED BY <1>2, <1>3, <1>4, SeqEqual

\* Where a sequence is cut in two.
LEMMA CutInTwo ==
    ASSUME NEW S, NEW s \in Seq(S), NEW n \in 0 .. Len(s)
    PROVE  /\ SubSeq(s, 1, n) \in Seq(S) /\ Len(SubSeq(s, 1, n)) = n
           /\ SubSeq(s, n + 1, Len(s)) \in Seq(S) /\ Len(SubSeq(s, n + 1, Len(s))) = Len(s) - n
           /\ SubSeq(s, 1, n) \o SubSeq(s, n + 1, Len(s)) = s
           /\ \A k \in 0 .. n : SubSeq(s, 1, k) \o SubSeq(s, k + 1, n) = SubSeq(s, 1, n)
<1>1. Len(s) \in Nat /\ \A i \in 1 .. Len(s) : s[i] \in S
  BY ElementOfSeq, LenProperties
<1>2. ASSUME NEW p \in 0 .. Len(s), NEW q \in 0 .. Len(s), p <= q
      PROVE  /\ SubSeq(s, p + 1, q) \in Seq(S) /\ Len(SubSeq(s, p + 1, q)) = q - p
             /\ \A i \in 1 .. q - p : SubSeq(s, p + 1, q)[i] = s[p + i]
  <2> DEFINE m == p + 1
  <2>1. m \in Int /\ q \in Int /\ \A i \in m .. q : s[i] \in S
    BY <1>1
  <2> HIDE DEF m
  <2>2. /\ SubSeq(s, m, q) \in Seq(S) /\ Len(SubSeq(s, m, q)) = IF m <= q THEN q - m + 1 ELSE 0
        /\ \A i \in 1 .. q - m + 1 : SubSeq(s, m, q)[i] = s[m + i - 1]
    BY <2>1, SubSeqProperties
  <2>3. q - m + 1 = q - p /\ (m <= q <=> p < q) /\ \A i \in 1 .. q - p : m + i - 1 = p + i
    BY <1>1, <1>2 DEF m
  <2>4. Len(SubSeq(s, m, q)) = q - p
    BY <1>1, <1>2, <2>1, <2>2, <2>3
  <2> QED BY <2>2, <2>3, <2>4 DEF m
<1>3. ASSUME NEW p \in 0 .. Len(s), NEW q \in 0 .. Len(s), p <= q
      PROVE  SubSeq(s, 1, p) \o SubSeq(s, p + 1, q) = SubSeq(s, 1, q)
  <2> DEFINE a == SubSeq(s, 1, p)
             b == SubSeq(s, p + 1, q)
             c == SubSeq(s, 1, q)
  <2>1. /\ a \in Seq(S) /\ Len(a) = p /\ (\A i \in 1 .. p : a[i] = s[i])
        /\ b \in Seq(S) /\ Len(b) = q - p /\ (\A i \in 1 .. q - p : b[i] = s[p + i])
        /\ c \in Seq(S) /\ Len(c) = q /\ (\A i \in 1 .. q : c[i] = s[i])
    <3>1. 0 \in 0 .. Len(s) /\ 0 <= p /\ 0 <= q /\ 0 + 1 = 1 /\ p - 0 = p /\ q - 0 = q
      BY <1>1
    <3>2. \A i \in 1 .. Len(s) : 0 + i = i
      OBVIOUS
    <3>3. /\ a \in Seq(S) /\ Len(a) = p /\ \A i \in 1 .. p : a[i] = s[0 + i]
      BY <1>2, <3>1
    <3>4. /\ c \in Seq(S) /\ Len(c) = q /\ \A i \in 1 .. q : c[i] = s[0 + i]
      BY <1>2, <3>1
    <3>5. b \in Seq(S) /\ Len(b) = q - p /\ (\A i \in 1 .. q - p : b[i] = s[p + i])
      BY <1>2, <1>3
    <3> HIDE DEF a, b, c
    <3> QED BY <1>1, <1>3, <3>3, <3>4, <3>5
  <2> HIDE DEF a, b, c
  <2>2. a \o b \in Seq(S) /\ Len(a \o b) = Len(a) + Len(b)
        /\ \A i \in 1 .. Len(a) + Len(b) : (a \o b)[i] = IF i <= Len(a) THEN a[i] ELSE b[i - Len(a)]
    BY <2>1, ConcatProperties
  <2>3. Len(a \o b) = Len(c)
    BY <1>1, <2>1, <2>2
  <2>4. ASSUME NEW i \in 1 .. Len(c) PROVE c[i] = (a \o b)[i]
    <3>1. i \in 1 .. Len(a) + Len(b)
      BY <1>1, <2>1
    <3>2. (a \o b)[i] = IF i <= p THEN a[i] ELSE b[i - p]
      BY <2>1, <2>2, <3>1
    <3>3. i <= p => (a \o b)[i] = s[i]
      BY <1>1, <2>1, <3>2
    <3>4. ~ (i <= p) => (a \o b)[i] = s[i]
      <4>1. ~ (i <= p) => i - p \in 1 .. q - p /\ p + (i - p) = i
        BY <1>1, <2>1
      <4> QED BY <2>1, <3>2, <4>1
    <3> QED BY <1>1, <2>1, <3>3, <3>4
  <2>5. c = a \o b
    <3> DEFINE d == a \o b
    <3>1. d \in Seq(S) /\ Len(c) = Len(d) /\ \A i \in 1 .. Len(c) : c[i] = d[i]
      BY <2>2, <2>3, <2>4
    <3> HIDE DEF d
    <3>2. c = d
      BY <2>1, <3>1, SeqEqual
    <3> QED BY <3>2 DEF d
  <2> QED BY <2>5 DEF a, b, c
<1>4. n \in 0 .. Len(s) /\ Len(s) \in 0 .. Len(s) /\ n <= Len(s) /\ 0 \in 0 .. Len(s) /\ 0 <= n
      /\ 0 + 1 = 1 /\ n - 0 = n
  BY <1>1
<1>5. SubSeq(s, 1, n) \in Seq(S) /\ Len(SubSeq(s, 1, n)) = n
  BY <1>2, <1>4
<1>6. SubSeq(s, n + 1, Len(s)) \in Seq(S) /\ Len(SubSeq(s, n + 1, Len(s))) = Len(s) - n
  BY <1>2, <1>4
<1>7. SubSeq(s, 1, n) \o SubSeq(s, n + 1, Len(s)) = SubSeq(s, 1, Len(s))
  BY <1>3, <1>4
<1>8. ASSUME NEW k \in 0 .. n PROVE SubSeq(s, 1, k) \o SubSeq(s, k + 1, n) = SubSeq(s, 1, n)
  <2>1. k \in 0 .. Len(s) /\ k <= n
    BY <1>1
  <2> QED BY <1>3, <1>4, <2>1
<1>9. SubSeq(s, 1, Len(s)) = s
  BY SubSeqFull
<1> QED BY <1>5, <1>6, <1>7, <1>8, <1>9

\* What two ways to split a sequence have to do with each other.
TakesFront(s, g, a, b) ==
    s \o g = a \o b /\ Len(s) >= Len(a) =>
        SubSeq(s, 1, Len(a)) = a /\ SubSeq(s, Len(a) + 1, Len(s)) \o g = b

LEMMA TakeFront ==
    ASSUME NEW S, NEW s \in Seq(S), NEW g \in Seq(S), NEW a \in Seq(S), NEW b \in Seq(S)
    PROVE  /\ TakesFront(s, g, a, b)
           /\ Len(s) >= Len(a) => SubSeq(s, Len(a) + 1, Len(s)) \in Seq(S)
<1> DEFINE n == Len(a)
           p == SubSeq(s, 1, n)
           q == SubSeq(s, n + 1, Len(s))
           r == q \o g
<1>1. Len(s) >= n => p \in Seq(S) /\ Len(p) = n /\ q \in Seq(S) /\ p \o q = s
  <2>1. Len(s) >= n => n \in 0 .. Len(s)
    BY LenProperties
  <2> HIDE DEF n
  <2> QED BY <2>1, CutInTwo
<1> HIDE DEF p, q
<1>2. p \in Seq(S) /\ q \in Seq(S) => r \in Seq(S) /\ (p \o q) \o g = p \o (q \o g)
  <2> SUFFICES ASSUME p \in Seq(S), q \in Seq(S) PROVE r \in Seq(S) /\ (p \o q) \o g = p \o (q \o g)
    OBVIOUS
  <2>1. q \o g \in Seq(S)
    BY ConcatProperties
  <2>2. Regroups(p, q, g)
    BY Regrouping
  <2> QED BY <2>1, <2>2 DEF Regroups
<1>3. p \in Seq(S) /\ r \in Seq(S) /\ p \o r = a \o b /\ Len(p) = Len(a) => p = a /\ r = b
  <2> HIDE DEF r
  <2> QED BY ConcatSplit
<1>4. ASSUME s \o g = a \o b, Len(s) >= n PROVE p = a /\ r = b
  <2>1. p \in Seq(S) /\ Len(p) = n /\ q \in Seq(S) /\ p \o q = s
    BY <1>1, <1>4
  <2>2. r \in Seq(S) /\ p \o r = a \o b
    BY <1>2, <1>4, <2>1, Zenon
  <2> QED BY <1>3, <2>1, <2>2, Zenon
<1> QED BY <1>1, <1>4 DEF p, q, r, TakesFront

LEMMA FlattenCut ==
    ASSUME NEW S, NEW s \in Seq(Seq(S)), NEW j \in 0 .. Len(s), NEW i \in j .. Len(s)
    PROVE  /\ FlattenSeq(SubSeq(s, j + 1, i)) \in Seq(S) /\ FlattenSeq(SubSeq(s, i + 1, Len(s))) \in Seq(S)
           /\ FlattenSeq(SubSeq(s, j + 1, Len(s))) =
                 FlattenSeq(SubSeq(s, j + 1, i)) \o FlattenSeq(SubSeq(s, i + 1, Len(s)))
<1> DEFINE V == Seq(S)
           mid == SubSeq(s, j + 1, i)
           tail == SubSeq(s, i + 1, Len(s))
<1>1. Len(s) \in Nat
  OBVIOUS
<1>2. mid \in Seq(V) /\ tail \in Seq(V)
  BY <1>1
<1>3. mid \o tail = SubSeq(s, j + 1, Len(s))
  <2> DEFINE m == j + 1
             n == Len(s)
  <2>1. m \in 1 .. Len(s) + 1 /\ i \in m - 1 .. Len(s) /\ n \in i .. Len(s) /\ s \in Seq(V)
    BY <1>1
  <2> HIDE DEF m, V
  <2>2. SubSeq(s, m, i) \o SubSeq(s, i + 1, n) = SubSeq(s, m, n)
    BY <2>1, ConcatAdjacentSubSeq
  <2> QED BY <2>2 DEF m
<1> HIDE DEF mid, tail
<1>4. <<>> \in Seq(S)
  OBVIOUS
<1>5. FlattenSeq(mid) \in Seq(S) /\ FlattenSeq(tail) \in Seq(S)
      /\ FlattenSeq(mid \o tail) = FlattenSeq(mid) \o FlattenSeq(tail)
  BY <1>2, <1>4, FlattenAppend, FlattenConcat
<1> QED BY <1>3, <1>5 DEF mid, tail

\* A sequence cut in many pieces, which end at e[1], e[2] ...
Pieces(s, e, n) == [i \in 1 .. n |-> SubSeq(s, e[i - 1] + 1, e[i])]
Ends(e, n, length) == /\ e \in [0 .. n -> 0 .. length] /\ e[0] = 0
                      /\ \A i \in 1 .. n : e[i - 1] <= e[i]

LEMMA PiecesType ==
    ASSUME NEW S, NEW s \in Seq(S), NEW n \in Nat, NEW e, Ends(e, n, Len(s)), NEW k \in 0 .. n
    PROVE  /\ Pieces(s, e, k) \in Seq(Seq(S)) /\ Len(Pieces(s, e, k)) = k
           /\ \A i \in 1 .. k : /\ Pieces(s, e, k)[i] = SubSeq(s, e[i - 1] + 1, e[i])
                                /\ Len(Pieces(s, e, k)[i]) = e[i] - e[i - 1]
<1>1. Len(s) \in Nat
  OBVIOUS
<1>2. ASSUME NEW i \in 1 .. k
      PROVE  SubSeq(s, e[i - 1] + 1, e[i]) \in Seq(S) /\ Len(SubSeq(s, e[i - 1] + 1, e[i])) = e[i] - e[i - 1]
  <2> DEFINE a == e[i - 1]
             b == e[i]
  <2>1. a \in 0 .. Len(s) /\ b \in 0 .. Len(s) /\ a <= b
    BY DEF Ends
  <2> HIDE DEF a, b
  <2>3. SubSeq(s, a + 1, b) \in Seq(S) /\ Len(SubSeq(s, a + 1, b)) = b - a
    BY <1>1, <2>1
  <2> QED BY <2>3 DEF a, b
<1>3. Pieces(s, e, k) = [i \in 1 .. k |-> SubSeq(s, e[i - 1] + 1, e[i])]
  BY DEF Pieces
<1>4. Pieces(s, e, k) \in [1 .. k -> Seq(S)]
  BY <1>2, <1>3
<1>5. \A i \in 1 .. k : Pieces(s, e, k)[i] = SubSeq(s, e[i - 1] + 1, e[i])
  BY <1>3
<1>6. Pieces(s, e, k) \in Seq(Seq(S)) /\ Len(Pieces(s, e, k)) = k
  <2> DEFINE c == Pieces(s, e, k)
             V == Seq(S)
  <2>1. c \in [1 .. k -> V]
    BY <1>4
  <2> HIDE DEF c, V
  <2>2. c \in Seq(V) /\ Len(c) = k
    BY <2>1
  <2> QED BY <2>2 DEF c, V
<1> QED BY <1>2, <1>5, <1>6

LEMMA PiecesNext ==
    ASSUME NEW S, NEW s \in Seq(S), NEW n \in Nat, NEW e, Ends(e, n, Len(s)), NEW k \in 1 .. n
    PROVE  Pieces(s, e, k) = Append(Pieces(s, e, k - 1), SubSeq(s, e[k - 1] + 1, e[k]))
<1> DEFINE V == Seq(S)
           j == k - 1
           a == Pieces(s, e, k)
           b == Pieces(s, e, j)
           x == SubSeq(s, e[k - 1] + 1, e[k])
           c == Append(b, x)
<1>1. k \in 0 .. n /\ j \in 0 .. n /\ j + 1 = k
  OBVIOUS
<1>2. a \in Seq(V) /\ Len(a) = k /\ (\A i \in 1 .. k : a[i] = SubSeq(s, e[i - 1] + 1, e[i]))
  BY <1>1, PiecesType
<1>3. b \in Seq(V) /\ Len(b) = j /\ (\A i \in 1 .. j : b[i] = SubSeq(s, e[i - 1] + 1, e[i]))
  <2> HIDE DEF j
  <2> QED BY <1>1, PiecesType
<1>4. a[k] = x /\ x \in V
  <2>1. a[k] = x
    BY <1>2
  <2>2. a[k] \in V
    BY <1>2, ElementOfSeq
  <2> QED BY <2>1, <2>2
<1>5. \A i \in 1 .. j : a[i] = b[i]
  <2> SUFFICES ASSUME NEW i \in 1 .. j PROVE a[i] = b[i]
    OBVIOUS
  <2>1. i \in 1 .. k
    BY <1>1
  <2> HIDE DEF a, b, j, V
  <2> QED BY <1>2, <1>3, <2>1
<1> HIDE DEF V, j, a, b, x
<1>6. c \in Seq(V) /\ Len(c) = k /\ (\A i \in 1 .. j : c[i] = b[i]) /\ c[k] = x
  <2>1. c \in Seq(V) /\ Len(c) = Len(b) + 1 /\ (\A i \in 1 .. Len(b) : c[i] = b[i]) /\ c[Len(b) + 1] = x
    BY <1>3, <1>4, AppendProperties
  <2> HIDE DEF c
  <2> QED BY <1>1, <1>3, <2>1
<1>7. \A i \in 1 .. Len(a) : a[i] = c[i]
  <2> SUFFICES ASSUME NEW i \in 1 .. k PROVE a[i] = c[i]
    BY <1>2
  <2>1. i \in 1 .. j \/ i = k
    BY <1>1
  <2> QED BY <1>4, <1>5, <1>6, <2>1
<1>8. a = c
  <2> HIDE DEF c
  <2> QED BY <1>2, <1>6, <1>7, SeqEqual
<1> QED BY <1>8 DEF a, b, x, j

LEMMA FlattenPieces ==
    ASSUME NEW S, NEW s \in Seq(S), NEW n \in Nat, NEW e, Ends(e, n, Len(s))
    PROVE  FlattenSeq(Pieces(s, e, n)) = SubSeq(s, 1, e[n])
<1> DEFINE T == {k \in 0 .. n : FlattenSeq(Pieces(s, e, k)) # SubSeq(s, 1, e[k])}
<1>1. ASSUME NEW k \in T, \A l \in T : k <= l PROVE FALSE
  <2>0. k \in 0 .. n /\ FlattenSeq(Pieces(s, e, k)) # SubSeq(s, 1, e[k])
    OBVIOUS
  <2>1. CASE k = 0
    <3>1. Pieces(s, e, 0) = <<>>
      BY DEF Pieces
    <3>2. SubSeq(s, 1, e[0]) = <<>>
      <4>1. e[0] = 0
        BY DEF Ends
      <4> QED BY <4>1
    <3>3. FlattenSeq(<<>>) = <<>>
      BY DEF FlattenSeq
    <3> QED BY <2>0, <2>1, <3>1, <3>2, <3>3
  <2>2. CASE k # 0
    <3> DEFINE j == k - 1
               a == e[j]
               b == e[k]
               x == SubSeq(s, a + 1, b)
               q == Pieces(s, e, j)
    <3>1. j \in 0 .. n /\ k \in 1 .. n /\ j < k
      BY <2>0, <2>2
    <3>2. FlattenSeq(q) = SubSeq(s, 1, a)
      <4>1. j \notin T
        BY <1>1, <2>0, <3>1
      <4> QED BY <3>1, <4>1
    <3>3. a \in 0 .. Len(s) /\ b \in 0 .. Len(s) /\ a \in 0 .. b
      BY <3>1 DEF Ends
    <3>4. q \in Seq(Seq(S)) /\ Pieces(s, e, k) = Append(q, x)
      <4>1. Pieces(s, e, k) = Append(q, x)
        BY <3>1, PiecesNext
      <4>2. q \in Seq(Seq(S))
        <5> HIDE DEF j
        <5> QED BY <3>1, PiecesType
      <4> QED BY <4>1, <4>2
    <3> HIDE DEF T, j, a, b, q
    <3>5. x \in Seq(S)
      BY <3>3
    <3>6. SubSeq(s, 1, a) \o x = SubSeq(s, 1, b)
      BY <3>3, CutInTwo
    <3> HIDE DEF x
    <3>7. FlattenSeq(Append(q, x)) = FlattenSeq(q) \o x
      BY <3>4, <3>5, FlattenAppend
    <3> QED BY <2>0, <3>2, <3>4, <3>6, <3>7 DEF b
  <2> QED BY <2>1, <2>2
<1>2. T = {}
  <2>1. T \in SUBSET Nat
    OBVIOUS
  <2> HIDE DEF T
  <2> QED BY <1>1, <2>1, Least
<1> QED BY <1>2

LEMMA MinOfTwo ==
    ASSUME NEW a \in Int, NEW b \in Int
    PROVE  Min({a, b}) = IF a <= b THEN a ELSE b
<1>1. \E x \in {a, b} : \A y \in {a, b} : x <= y
  OBVIOUS
<1>2. Min({a, b}) \in {a, b} /\ \A y \in {a, b} : Min({a, b}) <= y
  BY <1>1 DEF Min
<1> QED BY <1>2

LEMMA FrontAndLast ==
    ASSUME NEW S, NEW s \in Seq(S), s # <<>>
    PROVE  /\ Front(s) \in Seq(S) /\ Len(Front(s)) = Len(s) - 1 /\ Last(s) \in S
           /\ \A i \in 1 .. Len(s) - 1 : Front(s)[i] = s[i]
           /\ s = Append(Front(s), Last(s))
<1>1. PICK t \in Seq(S), x \in S : s = Append(t, x)
  BY SequenceEmptyOrAppend
<1>2. Len(t) \in Nat /\ Len(s) = Len(t) + 1 /\ s[Len(t) + 1] = x /\ \A i \in 1 .. Len(t) : s[i] = t[i]
  BY <1>1, AppendProperties
<1>3. Last(s) = x
  BY <1>2 DEF Last
<1>4. Front(s) = t
  <2> DEFINE f == Front(s)
  <2>1. f = SubSeq(s, 1, Len(t))
    BY <1>2 DEF Front
  <2>2. Len(t) \in 0 .. Len(s)
    BY <1>2
  <2>3. f \in Seq(S) /\ Len(f) = Len(t)
    BY <2>1, <2>2, CutInTwo
  <2>4. \A i \in 1 .. Len(t) : f[i] = t[i]
    BY <1>2, <2>1
  <2> HIDE DEF f
  <2>5. f = t
    BY <2>3, <2>4, SeqEqual
  <2> QED BY <2>5 DEF f
<1> QED BY <1>1, <1>2, <1>3, <1>4

LEMMA AppendEnds ==
    ASSUME NEW S, NEW s \in Seq(S), NEW x \in S
    PROVE  Front(Append(s, x)) = s /\ Last(Append(s, x)) = x
<1> DEFINE u == Append(s, x)
<1>1. u \in Seq(S) /\ u # <<>>
  BY AppendProperties
<1> DEFINE f == Front(u)
           l == Last(u)
<1>2. f \in Seq(S) /\ l \in S /\ u = Append(f, l)
  <2> HIDE DEF u
  <2> QED BY <1>1, FrontAndLast
<1> HIDE DEF f, l
<1>3. s = f /\ x = l
  BY <1>2, AppendInjective
<1> QED BY <1>3 DEF f, l

\* A sequence in front of another.
LEMMA FrontOfConcat ==
    ASSUME NEW S, NEW s \in Seq(S), NEW t \in Seq(S)
    PROVE  /\ SubSeq(s \o t, 1, Len(s)) = s
           /\ SubSeq(s \o t, Len(s) + 1, Len(s) + Len(t)) = t
<1> DEFINE u == s \o t
           n == Len(s)
           p == SubSeq(u, 1, n)
           q == SubSeq(u, n + 1, Len(u))
<1>1. u \in Seq(S) /\ Len(u) = Len(s) + Len(t) /\ n \in Nat /\ Len(t) \in Nat
  BY ConcatProperties, LenProperties
<1>2. n \in 0 .. Len(u)
  BY <1>1
<1>3. p \in Seq(S) /\ Len(p) = n /\ q \in Seq(S) /\ p \o q = u
  <2> HIDE DEF u, n
  <2> QED BY <1>1, <1>2, CutInTwo
<1> HIDE DEF p, q
<1>4. p \o q = s \o t
  BY <1>3
<1> HIDE DEF u
<1>5. p = s /\ q = t
  BY <1>3, <1>4, ConcatSplit
<1> QED BY <1>1, <1>5 DEF p, q, u

-------------------------------------------------------------------------------
(***************************************************************************)
(* Sequences by what they contain, and in which order.                     *)
(***************************************************************************)
Precedes(s, x, y) == \E i, j \in DOMAIN s : i < j /\ s[i] = x /\ s[j] = y

\* A sequence holds nothing twice when nothing is before itself.
LEMMA InjectiveOrder ==
    ASSUME NEW S, NEW s \in Seq(S)
    PROVE  IsInjective(s) <=> \A x : ~ Precedes(s, x, x)
<1>1. DOMAIN s \subseteq Int
  OBVIOUS
<1>2. ASSUME IsInjective(s), NEW x, Precedes(s, x, x) PROVE FALSE
  BY <1>1, <1>2 DEF IsInjective, Precedes
<1>3. ASSUME \A x : ~ Precedes(s, x, x), NEW i \in DOMAIN s, NEW j \in DOMAIN s, s[i] = s[j] PROVE i = j
  <2>1. ~ (i < j) /\ ~ (j < i)
    BY <1>3 DEF Precedes
  <2> QED BY <1>1, <2>1
<1> QED BY <1>2, <1>3 DEF IsInjective

LEMMA EmptyOrder ==
    /\ ToSet(<<>>) = {} /\ \A x, y : ~ Precedes(<<>>, x, y)
    /\ IsInjective(<<>>)
    /\ \A S : \A s \in Seq(S) : ToSet(s) = {} => s = <<>>
<1>1. DOMAIN <<>> = {} /\ \A S : \A s \in Seq(S) : DOMAIN s = {} => s = <<>>
  OBVIOUS
<1>2. \A S : \A s \in Seq(S) : ToSet(s) = {} => s = <<>>
  BY <1>1 DEF ToSet
<1>3. ToSet(<<>>) = {}
  BY <1>1 DEF ToSet
<1>4. \A x, y : ~ Precedes(<<>>, x, y)
  BY <1>1 DEF Precedes
<1>5. IsInjective(<<>>)
  BY <1>1 DEF IsInjective
<1> QED BY <1>2, <1>3, <1>4, <1>5

LEMMA AppendOrder ==
    ASSUME NEW S, NEW s \in Seq(S), NEW e \in S
    PROVE  /\ Append(s, e) \in Seq(S) /\ ToSet(Append(s, e)) = ToSet(s) \union {e}
           /\ \A x, y : Precedes(Append(s, e), x, y) <=> Precedes(s, x, y) \/ (x \in ToSet(s) /\ y = e)
<1> DEFINE t == Append(s, e)
           n == Len(s)
<1>1. /\ n \in Nat /\ DOMAIN s = 1 .. n /\ DOMAIN t = 1 .. n + 1 /\ t[n + 1] = e
      /\ \A i \in 1 .. n : t[i] = s[i]
      /\ t \in Seq(S)
  OBVIOUS
<1> HIDE DEF t, n
<1>2. ToSet(t) = ToSet(s) \union {e}
  BY <1>1 DEF ToSet
<1>3. ASSUME NEW x, NEW y, Precedes(t, x, y) PROVE Precedes(s, x, y) \/ (x \in ToSet(s) /\ y = e)
  <2>1. PICK i \in 1 .. n + 1, j \in 1 .. n + 1 : i < j /\ t[i] = x /\ t[j] = y
    BY <1>1, <1>3 DEF Precedes
  <2>2. i \in 1 .. n /\ s[i] = x
    BY <1>1, <2>1
  <2>3. CASE j = n + 1
    BY <1>1, <2>1, <2>2, <2>3 DEF ToSet
  <2>4. CASE j \in 1 .. n
    BY <1>1, <2>1, <2>2, <2>4 DEF Precedes
  <2> QED BY <1>1, <2>3, <2>4
<1>4. ASSUME NEW x, NEW y, Precedes(s, x, y) PROVE Precedes(t, x, y)
  <2>1. PICK i \in 1 .. n, j \in 1 .. n : i < j /\ s[i] = x /\ s[j] = y
    BY <1>1, <1>4 DEF Precedes
  <2>2. i \in 1 .. n + 1 /\ j \in 1 .. n + 1 /\ t[i] = x /\ t[j] = y
    BY <1>1, <2>1
  <2> QED BY <1>1, <2>1, <2>2 DEF Precedes
<1>5. ASSUME NEW x \in ToSet(s) PROVE Precedes(t, x, e)
  <2>1. PICK i \in 1 .. n : s[i] = x
    BY <1>1 DEF ToSet
  <2>2. i \in 1 .. n + 1 /\ n + 1 \in 1 .. n + 1 /\ i < n + 1 /\ t[i] = x
    BY <1>1, <2>1
  <2> QED BY <1>1, <2>2 DEF Precedes
<1> QED BY <1>1, <1>2, <1>3, <1>4, <1>5 DEF t

LEMMA ConcatOrder ==
    ASSUME NEW S, NEW s \in Seq(S), NEW u \in Seq(S)
    PROVE  /\ s \o u \in Seq(S) /\ ToSet(s \o u) = ToSet(s) \union ToSet(u)
           /\ \A x, y : Precedes(s \o u, x, y) <=>
                  Precedes(s, x, y) \/ Precedes(u, x, y) \/ (x \in ToSet(s) /\ y \in ToSet(u))
<1> DEFINE t == s \o u
           n == Len(s)
           m == Len(u)
<1>1. /\ n \in Nat /\ m \in Nat /\ DOMAIN s = 1 .. n /\ DOMAIN u = 1 .. m /\ DOMAIN t = 1 .. n + m
      /\ \A i \in 1 .. n : t[i] = s[i]
      /\ \A i \in 1 .. m : t[n + i] = u[i]
      /\ t \in Seq(S)
  OBVIOUS
<1> HIDE DEF t, n, m
<1>a. \A i \in 1 .. n : i \in 1 .. n + m
  BY <1>1
<1>b. \A i \in 1 .. m : n + i \in 1 .. n + m
  BY <1>1
<1>c. ASSUME NEW i \in 1 .. n + m, i \notin 1 .. n PROVE \E k \in 1 .. m : i = n + k
  <2>1. i - n \in 1 .. m /\ i = n + (i - n)
    BY <1>1, <1>c
  <2> QED BY <2>1
<1>2. ToSet(t) = ToSet(s) \union ToSet(u)
  <2>1. ASSUME NEW x \in ToSet(t) PROVE x \in ToSet(s) \union ToSet(u)
    <3>1. PICK i \in 1 .. n + m : t[i] = x
      BY <1>1, <2>1 DEF ToSet
    <3>2. CASE i \in 1 .. n
      BY <1>1, <3>1, <3>2 DEF ToSet
    <3>3. CASE i \notin 1 .. n
      <4>1. PICK k \in 1 .. m : i = n + k
        BY <1>c, <3>3
      <4> QED BY <1>1, <3>1, <4>1 DEF ToSet
    <3> QED BY <3>2, <3>3
  <2>2. ToSet(s) \subseteq ToSet(t)
    BY <1>1, <1>a DEF ToSet
  <2>3. ASSUME NEW x \in ToSet(u) PROVE x \in ToSet(t)
    <3>1. PICK k \in 1 .. m : u[k] = x
      BY <1>1, <2>3 DEF ToSet
    <3>2. n + k \in DOMAIN t /\ t[n + k] = x
      BY <1>1, <1>b, <3>1
    <3> QED BY <3>2 DEF ToSet
  <2> QED BY <2>1, <2>2, <2>3
<1>3. ASSUME NEW x, NEW y, Precedes(t, x, y)
      PROVE  Precedes(s, x, y) \/ Precedes(u, x, y) \/ (x \in ToSet(s) /\ y \in ToSet(u))
  <2>1. PICK i \in 1 .. n + m, j \in 1 .. n + m : i < j /\ t[i] = x /\ t[j] = y
    BY <1>1, <1>3 DEF Precedes
  <2>2. CASE i \in 1 .. n /\ j \in 1 .. n
    BY <1>1, <2>1, <2>2 DEF Precedes
  <2>3. CASE i \in 1 .. n /\ j \notin 1 .. n
    <3>1. PICK k \in 1 .. m : j = n + k
      BY <1>c, <2>3
    <3> QED BY <1>1, <2>1, <2>3, <3>1 DEF ToSet
  <2>4. CASE i \notin 1 .. n
    <3>0. j \notin 1 .. n
      BY <1>1, <2>1, <2>4
    <3>1. PICK k \in 1 .. m : i = n + k
      BY <1>c, <2>4
    <3>2. PICK l \in 1 .. m : j = n + l
      BY <1>c, <3>0
    <3>3. k < l
      BY <1>1, <2>1, <3>1, <3>2
    <3> QED BY <1>1, <2>1, <3>1, <3>2, <3>3 DEF Precedes
  <2> QED BY <2>2, <2>3, <2>4
<1>4. ASSUME NEW x, NEW y, Precedes(s, x, y) PROVE Precedes(t, x, y)
  BY <1>1, <1>a, <1>4 DEF Precedes
<1>5. ASSUME NEW x, NEW y, Precedes(u, x, y) PROVE Precedes(t, x, y)
  <2>1. PICK k \in 1 .. m, l \in 1 .. m : k < l /\ u[k] = x /\ u[l] = y
    BY <1>1, <1>5 DEF Precedes
  <2>2. n + k \in DOMAIN t /\ n + l \in DOMAIN t /\ n + k < n + l /\ t[n + k] = x /\ t[n + l] = y
    BY <1>1, <1>b, <2>1
  <2> QED BY <2>2 DEF Precedes
<1>6. ASSUME NEW x \in ToSet(s), NEW y \in ToSet(u) PROVE Precedes(t, x, y)
  <2>1. PICK i \in 1 .. n, l \in 1 .. m : s[i] = x /\ u[l] = y
    BY <1>1 DEF ToSet
  <2>2. i \in DOMAIN t /\ n + l \in DOMAIN t /\ i < n + l /\ t[i] = x /\ t[n + l] = y
    BY <1>1, <1>a, <1>b, <2>1
  <2> QED BY <2>2 DEF Precedes
<1> QED BY <1>1, <1>2, <1>3, <1>4, <1>5, <1>6 DEF t

LEMMA TailOrder ==
    ASSUME NEW S, NEW s \in Seq(S), s # <<>>, IsInjective(s)
    PROVE  /\ Head(s) \in S /\ Head(s) \in ToSet(s)
           /\ Tail(s) \in Seq(S) /\ IsInjective(Tail(s)) /\ ToSet(Tail(s)) = ToSet(s) \ {Head(s)}
           /\ \A x, y : Precedes(Tail(s), x, y) <=> Precedes(s, x, y) /\ x # Head(s)
           /\ \A x : ~ Precedes(s, x, Head(s))
           /\ \A x \in ToSet(s) : x = Head(s) \/ Precedes(s, Head(s), x)
<1> DEFINE t == Tail(s)
           n == Len(s)
           h == Head(s)
<1>1. /\ n \in Nat \ {0} /\ DOMAIN s = 1 .. n /\ DOMAIN t = 1 .. n - 1 /\ t \in Seq(S) /\ h = s[1] /\ h \in S
      /\ \A i \in 1 .. n - 1 : t[i] = s[i + 1]
  OBVIOUS
<1>2. \A i, j \in 1 .. n : s[i] = s[j] => i = j
  BY <1>1 DEF IsInjective
<1> HIDE DEF t, n, h
<1>3. 1 \in 1 .. n /\ \A i \in 1 .. n - 1 : i + 1 \in 1 .. n /\ i + 1 # 1
  BY <1>1
<1>4. \A i \in 1 .. n : i # 1 => i - 1 \in 1 .. n - 1 /\ (i - 1) + 1 = i
  BY <1>1
<1>5. IsInjective(t)
  <2> SUFFICES ASSUME NEW i \in 1 .. n - 1, NEW j \in 1 .. n - 1, t[i] = t[j] PROVE i = j
    BY <1>1 DEF IsInjective
  <2>1. i + 1 = j + 1
    BY <1>1, <1>2, <1>3
  <2> QED BY <1>1, <2>1
<1>6. ToSet(t) = ToSet(s) \ {h}
  <2>1. ASSUME NEW x \in ToSet(t) PROVE x \in ToSet(s) /\ x # h
    <3>1. PICK i \in 1 .. n - 1 : t[i] = x
      BY <1>1 DEF ToSet
    <3> QED BY <1>1, <1>2, <1>3, <3>1 DEF ToSet
  <2>2. ASSUME NEW x \in ToSet(s), x # h PROVE x \in ToSet(t)
    <3>1. PICK i \in 1 .. n : s[i] = x
      BY <1>1 DEF ToSet
    <3>2. i # 1
      BY <1>1, <2>2, <3>1
    <3>3. i - 1 \in DOMAIN t /\ t[i - 1] = x
      BY <1>1, <1>4, <3>1, <3>2
    <3> QED BY <3>3 DEF ToSet
  <2> QED BY <2>1, <2>2
<1>7. ASSUME NEW x, NEW y, Precedes(t, x, y) PROVE Precedes(s, x, y) /\ x # h
  <2>1. PICK i \in 1 .. n - 1, j \in 1 .. n - 1 : i < j /\ t[i] = x /\ t[j] = y
    BY <1>1, <1>7 DEF Precedes
  <2>2. i + 1 \in 1 .. n /\ j + 1 \in 1 .. n /\ i + 1 < j + 1 /\ s[i + 1] = x /\ s[j + 1] = y /\ i + 1 # 1
    BY <1>1, <1>3, <2>1
  <2> QED BY <1>1, <1>2, <1>3, <2>2 DEF Precedes
<1>8. ASSUME NEW x, NEW y, Precedes(s, x, y), x # h PROVE Precedes(t, x, y)
  <2>1. PICK i \in 1 .. n, j \in 1 .. n : i < j /\ s[i] = x /\ s[j] = y
    BY <1>1, <1>8 DEF Precedes
  <2>2. i # 1 /\ j # 1
    BY <1>1, <1>8, <2>1
  <2>3. i - 1 \in DOMAIN t /\ j - 1 \in DOMAIN t /\ i - 1 < j - 1 /\ t[i - 1] = x /\ t[j - 1] = y
    BY <1>1, <1>4, <2>1, <2>2
  <2> QED BY <2>3 DEF Precedes
<1>9. ASSUME NEW x, Precedes(s, x, h) PROVE FALSE
  <2>1. PICK i \in 1 .. n, j \in 1 .. n : i < j /\ s[j] = h
    BY <1>1, <1>9 DEF Precedes
  <2>2. j = 1
    BY <1>1, <1>2, <1>3, <2>1
  <2> QED BY <1>1, <2>1, <2>2
<1>10. ASSUME NEW x \in ToSet(s), x # h PROVE Precedes(s, h, x)
  <2>1. PICK i \in 1 .. n : s[i] = x
    BY <1>1 DEF ToSet
  <2>2. 1 < i
    BY <1>1, <1>10, <2>1
  <2> QED BY <1>1, <1>3, <2>1, <2>2 DEF Precedes
<1>11. h \in ToSet(s)
  BY <1>1, <1>3 DEF ToSet
<1> QED BY <1>1, <1>5, <1>6, <1>7, <1>8, <1>9, <1>10, <1>11 DEF t, h

(***************************************************************************)
(* What selecting the elements of a list that are in a set, one after the  *)
(* other, does to their order.                                             *)
(***************************************************************************)
\* What Among keeps, and of a sequence's beginning.
Keeps(f, s, T) ==
    f = [i \in 0 .. Len(s) |-> IF i = 0 THEN <<>>
                               ELSE IF s[i] \in T THEN Append(f[i - 1], s[i]) ELSE f[i - 1]]

LEMMA KeptExists == ASSUME NEW S, NEW s \in Seq(S), NEW T PROVE \E f : Keeps(f, s, T)
<1> DEFINE n == Len(s)
           V == Seq(S)
           a == <<>>
           G == [i \in 1 .. n |-> [v \in V |-> IF s[i] \in T THEN Append(v, s[i]) ELSE v]]
<1>1. n \in Nat /\ a \in V /\ G \in [1 .. n -> [V -> V]]
  OBVIOUS
<1>a. \A i \in 1 .. n : \A v \in V : G[i][v] = IF s[i] \in T THEN Append(v, s[i]) ELSE v
  OBVIOUS
<1>2. PICK f \in [0 .. n -> V] : f[0] = a /\ \A i \in 1 .. n : f[i] = G[i][f[i - 1]]
  <2> HIDE DEF V, G, n, a
  <2> QED BY <1>1, Recursion
<1> HIDE DEF G
<1>3. \A i \in 1 .. n : f[i] = IF s[i] \in T THEN Append(f[i - 1], s[i]) ELSE f[i - 1]
  <2> SUFFICES ASSUME NEW i \in 1 .. n PROVE f[i] = IF s[i] \in T THEN Append(f[i - 1], s[i]) ELSE f[i - 1]
    OBVIOUS
  <2>1. i - 1 \in 0 .. n
    OBVIOUS
  <2> QED BY <1>1, <1>a, <1>2, <2>1
<1>4. Keeps(f, s, T)
  <2>1. \A i \in 0 .. n : f[i] = IF i = 0 THEN <<>>
                               ELSE IF s[i] \in T THEN Append(f[i - 1], s[i]) ELSE f[i - 1]
    <3> SUFFICES ASSUME NEW i \in 0 .. n
                 PROVE  f[i] = IF i = 0 THEN <<>>
                               ELSE IF s[i] \in T THEN Append(f[i - 1], s[i]) ELSE f[i - 1]
      OBVIOUS
    <3>1. i = 0 \/ i \in 1 .. n
      BY <1>1
    <3>2. ~ (0 \in 1 .. n)
      BY <1>1
    <3> HIDE DEF n, V
    <3>3. CASE i = 0
      BY <1>2, <3>3
    <3>4. CASE i \in 1 .. n
      BY <1>3, <3>2, <3>4
    <3> QED BY <3>1, <3>3, <3>4
  <2> QED BY <1>2, <2>1 DEF Keeps
<1> QED BY <1>4

LEMMA KeptOrder ==
    ASSUME NEW S, NEW s \in Seq(S), NEW T, NEW f, Keeps(f, s, T)
    PROVE  /\ f[Len(s)] \in Seq(S \intersect T) /\ ToSet(f[Len(s)]) = ToSet(s) \intersect T
           /\ \A x, y : Precedes(f[Len(s)], x, y) <=> Precedes(s, x, y) /\ x \in T /\ y \in T
<1> DEFINE n == Len(s)
           Upto(i, x) == \E k \in 1 .. i : s[k] = x
           Ordered(i, x, y) == \E k, l \in 1 .. i : k < l /\ s[k] = x /\ s[l] = y
           Good(i) == /\ f[i] \in Seq(S \intersect T)
                      /\ \A x : x \in ToSet(f[i]) <=> Upto(i, x) /\ x \in T
                      /\ \A x, y : Precedes(f[i], x, y) <=> Ordered(i, x, y) /\ x \in T /\ y \in T
           B == {i \in 0 .. n : ~ Good(i)}
<1>2. n \in Nat /\ DOMAIN s = 1 .. n /\ \A i \in 1 .. n : s[i] \in S
  OBVIOUS
<1>3. f[0] = <<>> /\ \A i \in 1 .. n : f[i] = IF s[i] \in T THEN Append(f[i - 1], s[i]) ELSE f[i - 1]
  <2>1. \A i \in 0 .. n : f[i] = IF i = 0 THEN <<>>
                               ELSE IF s[i] \in T THEN Append(f[i - 1], s[i]) ELSE f[i - 1]
    BY DEF Keeps
  <2> QED BY <1>2, <2>1
<1> HIDE DEF n
<1>4. ASSUME NEW i \in B, \A k \in B : i <= k PROVE FALSE
  <2>1. i \in 0 .. n /\ ~ Good(i)
    OBVIOUS
  <2>2. CASE i = 0
    <3>1. \A x, y : ~ Upto(0, x) /\ ~ Ordered(0, x, y)
      OBVIOUS
    <3>2. <<>> \in Seq(S \intersect T)
      OBVIOUS
    <3>3. Good(0)
      <4> HIDE DEF Upto, Ordered
      <4> QED BY <1>3, <3>1, <3>2, EmptyOrder
    <3> QED BY <2>1, <2>2, <3>3
  <2>3. CASE i # 0
    <3>1. i \in 1 .. n /\ i - 1 \in 0 .. n /\ i - 1 < i /\ i \in Nat
      BY <1>2, <2>1, <2>3
    <3>2. i - 1 \notin B
      <4> HIDE DEF B
      <4> QED BY <1>4, <3>1
    <3>3. Good(i - 1)
      <4> HIDE DEF Good
      <4> QED BY <3>1, <3>2
    <3> DEFINE e == s[i]
               v == f[i - 1]
    <3>4. \A x : Upto(i, x) <=> Upto(i - 1, x) \/ x = e
      <4>1. \A k \in 1 .. i : k \in 1 .. i - 1 \/ k = i
        BY <3>1
      <4>2. i \in 1 .. i /\ \A k \in 1 .. i - 1 : k \in 1 .. i
        BY <3>1
      <4> QED BY <4>1, <4>2
    <3>5. \A x, y : Ordered(i, x, y) <=> Ordered(i - 1, x, y) \/ (Upto(i - 1, x) /\ y = e)
      <4>1. ASSUME NEW x, NEW y, Ordered(i, x, y) PROVE Ordered(i - 1, x, y) \/ (Upto(i - 1, x) /\ y = e)
        <5>1. PICK k \in 1 .. i, l \in 1 .. i : k < l /\ s[k] = x /\ s[l] = y
          BY <4>1
        <5>2. k \in 1 .. i - 1 /\ (l = i \/ l \in 1 .. i - 1)
          BY <3>1, <5>1
        <5> QED BY <5>1, <5>2
      <4>2. ASSUME NEW x, NEW y, Ordered(i - 1, x, y) PROVE Ordered(i, x, y)
        <5>1. \A k \in 1 .. i - 1 : k \in 1 .. i
          BY <3>1
        <5> QED BY <4>2, <5>1
      <4>3. ASSUME NEW x, Upto(i - 1, x) PROVE Ordered(i, x, e)
        <5>1. PICK k \in 1 .. i - 1 : s[k] = x
          BY <4>3
        <5>2. k \in 1 .. i /\ i \in 1 .. i /\ k < i
          BY <3>1
        <5> QED BY <5>1, <5>2
      <4> QED BY <4>1, <4>2, <4>3
    <3>6. e \in S
      BY <1>2, <3>1
    <3>7. f[i] = IF e \in T THEN Append(v, e) ELSE v
      BY <1>3, <3>1
    <3> HIDE DEF Upto, Ordered, e, B
    <3>8. CASE e \in T
      <4>1. e \in S \intersect T /\ v \in Seq(S \intersect T) /\ f[i] = Append(v, e)
        BY <3>3, <3>6, <3>7, <3>8 DEF v
      <4>2. /\ f[i] \in Seq(S \intersect T) /\ ToSet(f[i]) = ToSet(v) \union {e}
            /\ \A x, y : Precedes(f[i], x, y) <=> Precedes(v, x, y) \/ (x \in ToSet(v) /\ y = e)
        BY <4>1, AppendOrder
      <4>3. Good(i)
        BY <3>3, <3>4, <3>5, <3>8, <4>2
      <4> QED BY <2>1, <4>3
    <3>9. CASE e \notin T
      <4>1. f[i] = v
        BY <3>7, <3>9
      <4>2. Good(i)
        BY <3>3, <3>4, <3>5, <3>9, <4>1
      <4> QED BY <2>1, <4>2
    <3> QED BY <3>8, <3>9
  <2> QED BY <2>2, <2>3
<1>5. B \in SUBSET Nat
  BY <1>2
<1>6. B = {}
  <2> HIDE DEF B
  <2> QED BY <1>4, <1>5, Least
<1>7. Good(n)
  <2>1. n \in 0 .. n
    BY <1>2
  <2> HIDE DEF Good
  <2> QED BY <1>6, <2>1
<1>8. \A x : Upto(n, x) <=> x \in ToSet(s)
  BY <1>2 DEF ToSet
<1>9. \A x, y : Ordered(n, x, y) <=> Precedes(s, x, y)
  BY <1>2 DEF Precedes
<1> HIDE DEF Upto, Ordered
<1> QED BY <1>7, <1>8, <1>9 DEF n

===============================================================================
