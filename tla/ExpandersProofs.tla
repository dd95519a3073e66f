--------------------------- MODULE ExpandersProofs ---------------------------
(****************************************************************************)
(* For every value of the constants: the contracts decode a number, a key   *)
(* or an address as the clients encoded it, whatever follows it in the      *)
(* stream and whatever is registered in between, and what is registered     *)
(* keeps its id.  CompressionProofs builds on these theorems.               *)
(*                                                                          *)
(* The encoders are recursive.  A function that calls itself with a smaller *)
(* number exists (RecursionExists), and what holds of it is proved by       *)
(* induction, stated for the set of the numbers that have a property: the   *)
(* library's theorems take a predicate, which no prover here instantiates.  *)
(****************************************************************************)
EXTENDS Expanders, SequenceTheorems, WellFoundedInduction, TLAPS

-----------------------------------------------------------------------------
(* Induction over numbers, for sets of them, and flattened sequences        *)

\* A set of numbers that has 0, and the successor of each of its numbers, has
\* every number.
LEMMA NatSetInduction ==
    ASSUME NEW T, 0 \in T, \A n \in Nat : n \in T => n + 1 \in T
    PROVE  \A n \in Nat : n \in T
<1> DEFINE U == {n \in Nat : n \notin T}
<1> SUFFICES ASSUME U # {} PROVE FALSE
  OBVIOUS
<1>1. PICK x \in U : \A y \in U : <<y, x>> \notin OpToRel(<, Nat)
  BY NatLessThanWellFounded, WFMin
<1>2. x - 1 \in Nat /\ x - 1 < x /\ (x - 1) + 1 = x
  OBVIOUS
<1>3. x - 1 \in U
  BY <1>2
<1>4. <<x - 1, x>> \in OpToRel(<, Nat)
  BY <1>2 DEF OpToRel
<1> QED
  BY <1>1, <1>3, <1>4

\* A set of numbers that has each number of which it has all the smaller ones
\* has every number.
LEMMA StrongInduction ==
    ASSUME NEW T,
           \A n \in Nat : (\A m \in Nat : m < n => m \in T) => n \in T
    PROVE  \A n \in Nat : n \in T
<1> DEFINE U == {n \in Nat : n \notin T}
<1> SUFFICES ASSUME U # {} PROVE FALSE
  OBVIOUS
<1>1. PICK x \in U : \A y \in U : <<y, x>> \notin OpToRel(<, Nat)
  BY NatLessThanWellFounded, WFMin
<1>2. \A m \in Nat : m < x => m \in T
  <2> SUFFICES ASSUME NEW m \in Nat, m < x, m \notin T PROVE FALSE
    OBVIOUS
  <2>1. <<m, x>> \in OpToRel(<, Nat) /\ m \in U
    BY DEF OpToRel
  <2> QED
    BY <1>1, <2>1
<1> QED
  BY <1>2

-----------------------------------------------------------------------------
(* Flattened sequences                                                      *)

\* f is what FlattenSeq computes of the first n sequences of s.
Flattens(f, s, n) ==
    f = [i \in 1..n |-> IF i = 1 THEN s[i] ELSE f[i-1] \o s[i]]

\* A function that FlattenSeq's recursive definition describes exists.
LEMMA FlattensExists ==
    ASSUME NEW s, NEW n \in Nat
    PROVE  \E f : Flattens(f, s, n)
<1> DEFINE T == {k \in Nat : \E f : Flattens(f, s, k)}
<1>1. 0 \in T
  <2>1. Flattens([i \in 1..0 |-> s[i]], s, 0)
    BY DEF Flattens
  <2> QED
    BY <2>1
<1>2. \A k \in Nat : k \in T => k + 1 \in T
  <2> SUFFICES ASSUME NEW k \in Nat, NEW f, Flattens(f, s, k)
               PROVE  \E g : Flattens(g, s, k + 1)
    OBVIOUS
  <2> DEFINE g == [i \in 1..(k+1) |->
                      IF i <= k THEN f[i]
                      ELSE IF i = 1 THEN s[i] ELSE f[i-1] \o s[i]]
  <2>1. \A i \in 1..k : f[i] = IF i = 1 THEN s[i] ELSE f[i-1] \o s[i]
    BY DEF Flattens
  <2>2. \A i \in 1..k : g[i] = f[i]
    OBVIOUS
  <2>3. \A i \in 1..(k+1) : i # 1 => i - 1 \in 1..k /\ g[i-1] = f[i-1]
    BY <2>2
  <2>4. \A i \in 1..(k+1) : g[i] = IF i = 1 THEN s[i] ELSE g[i-1] \o s[i]
    BY <2>1, <2>3
  <2>5. g = [i \in 1..(k+1) |-> IF i = 1 THEN s[i] ELSE g[i-1] \o s[i]]
    <3>1. g = [i \in 1..(k+1) |-> g[i]]
      OBVIOUS
    <3> HIDE DEF g
    <3> QED
      BY <2>4, <3>1
  <2> HIDE DEF g
  <2> QED
    BY <2>5 DEF Flattens
<1> HIDE DEF T
<1>3. n \in T
  BY <1>1, <1>2, NatSetInduction
<1> QED
  BY <1>3 DEF T

\* Such functions of two sequences agree as far as the sequences do.
LEMMA FlattensAgree ==
    ASSUME NEW s, NEW t, NEW n \in Nat, NEW m \in Nat, m <= n,
           NEW f, NEW g, Flattens(f, s, n), Flattens(g, t, m),
           \A i \in 1..m : s[i] = t[i]
    PROVE  \A i \in 1..m : f[i] = g[i]
<1> DEFINE T == {k \in Nat : k \in 1..m => f[k] = g[k]}
<1>1. /\ \A i \in 1..n : f[i] = IF i = 1 THEN s[i] ELSE f[i-1] \o s[i]
      /\ \A i \in 1..m : g[i] = IF i = 1 THEN t[i] ELSE g[i-1] \o t[i]
  BY DEF Flattens
<1>2. 0 \in T
  OBVIOUS
<1>3. \A k \in Nat : k \in T => k + 1 \in T
  <2> SUFFICES ASSUME NEW k \in Nat, k \in T, k + 1 \in 1..m
               PROVE  f[k + 1] = g[k + 1]
    OBVIOUS
  <2>1. k + 1 \in 1..n /\ s[k + 1] = t[k + 1]
    OBVIOUS
  <2>2. CASE k = 0
    BY <1>1, <2>1, <2>2
  <2>3. CASE k # 0
    <3>1. k \in 1..m /\ f[k] = g[k] /\ k + 1 # 1 /\ k + 1 - 1 = k
      BY <2>3
    <3> DEFINE j == k + 1
    <3>2. j \in 1..n /\ j \in 1..m /\ j # 1 /\ j - 1 = k
      BY <2>1, <3>1
    <3> HIDE DEF j
    <3>3. f[j] = f[k] \o s[j] /\ g[j] = g[k] \o t[j]
      BY <1>1, <3>2
    <3> QED
      BY <2>1, <3>1, <3>3 DEF j
  <2> QED
    BY <2>2, <2>3
<1> HIDE DEF T
<1>4. \A k \in Nat : k \in T
  BY <1>2, <1>3, NatSetInduction
<1> QED
  BY <1>4 DEF T

\* FlattenSeq is the last value of such a function.
LEMMA FlattenIsLast ==
    ASSUME NEW s, Len(s) \in Nat, Len(s) # 0,
           NEW f, Flattens(f, s, Len(s))
    PROVE  FlattenSeq(s) = f[Len(s)]
<1> DEFINE g == CHOOSE h : h = [i \in 1..Len(s) |->
                                   IF i = 1 THEN s[i] ELSE h[i-1] \o s[i]]
<1>1. FlattenSeq(s) = g[Len(s)]
  BY DEF FlattenSeq
<1>2. \E h : h = [i \in 1..Len(s) |-> IF i = 1 THEN s[i] ELSE h[i-1] \o s[i]]
  BY DEF Flattens
<1>3. Flattens(g, s, Len(s))
  BY <1>2 DEF Flattens
<1> HIDE DEF g
<1>4. Len(s) \in 1..Len(s)
  OBVIOUS
<1> QED
  BY <1>1, <1>3, <1>4, FlattensAgree

\* A flattened sequence is a sequence of the elements.
LEMMA FlattenType ==
    ASSUME NEW S, NEW s \in Seq(Seq(S))
    PROVE  FlattenSeq(s) \in Seq(S)
<1>1. CASE Len(s) = 0
  <2>1. FlattenSeq(s) = s /\ s = <<>>
    BY <1>1, EmptySeq DEF FlattenSeq
  <2> QED
    BY <2>1
<1>2. CASE Len(s) # 0
  <2>1. Len(s) \in Nat
    BY LenProperties
  <2>2. PICK f : Flattens(f, s, Len(s))
    BY <2>1, FlattensExists
  <2> DEFINE T == {k \in Nat : k \in 1..Len(s) => f[k] \in Seq(S)}
  <2>3. \A i \in 1..Len(s) : f[i] = IF i = 1 THEN s[i] ELSE f[i-1] \o s[i]
    BY <2>2 DEF Flattens
  <2>4. \A i \in 1..Len(s) : s[i] \in Seq(S)
    OBVIOUS
  <2>5. 0 \in T
    OBVIOUS
  <2>6. \A k \in Nat : k \in T => k + 1 \in T
    <3> SUFFICES ASSUME NEW k \in Nat, k \in 1..Len(s) => f[k] \in Seq(S),
                        k + 1 \in 1..Len(s)
                 PROVE  f[k + 1] \in Seq(S)
      <4>1. \A k \in Nat : k + 1 \in Nat
        OBVIOUS
      <4> QED
        BY <4>1, Zenon
    <3> DEFINE j == k + 1
    <3>1. j \in 1..Len(s) /\ (j # 1 => j - 1 = k /\ k \in 1..Len(s))
      BY <2>1
    <3> HIDE DEF j
    <3>2. CASE j = 1
      BY <2>3, <2>4, <3>1, <3>2 DEF j
    <3>3. CASE j # 1
      <4>1. f[j] = f[k] \o s[j] /\ s[j] \in Seq(S)
        BY <2>3, <2>4, <3>1, <3>3
      <4>2. f[k] \in Seq(S)
        BY <3>1, <3>3
      <4> QED
        BY <4>1, <4>2, ConcatProperties DEF j
    <3> QED
      BY <3>2, <3>3
  <2> HIDE DEF T
  <2>7. Len(s) \in T
    BY <2>1, <2>5, <2>6, NatSetInduction
  <2>8. f[Len(s)] \in Seq(S)
    BY <1>2, <2>1, <2>7 DEF T
  <2> QED
    BY <1>2, <2>2, <2>8, FlattenIsLast, LenProperties
<1> QED
  BY <1>1, <1>2

\* The sequences of an appended sequence come last when they are flattened.
LEMMA FlattenAppend ==
    ASSUME NEW S, NEW s \in Seq(Seq(S)), NEW e \in Seq(S)
    PROVE  FlattenSeq(Append(s, e)) = FlattenSeq(s) \o e
<1> DEFINE t == Append(s, e)
           n == Len(s)
<1>1. n \in Nat /\ t \in Seq(Seq(S)) /\ Len(t) = n + 1 /\ Len(t) # 0
  OBVIOUS
<1>2. t[n + 1] = e /\ \A i \in 1..n : t[i] = s[i]
  OBVIOUS
<1>3. PICK g : Flattens(g, t, n + 1)
  <2>1. n + 1 \in Nat
    BY <1>1
  <2> QED
    BY <2>1, FlattensExists
<1>4. \A i \in 1..(n+1) : g[i] = IF i = 1 THEN t[i] ELSE g[i-1] \o t[i]
  BY <1>3 DEF Flattens
<1> HIDE DEF t
<1>5. FlattenSeq(t) = g[n + 1]
  BY <1>1, <1>3, FlattenIsLast
<1>6. CASE n = 0
  <2>1. FlattenSeq(s) = <<>>
    BY <1>6, EmptySeq DEF FlattenSeq
  <2>2. g[n + 1] = e
    BY <1>2, <1>4, <1>6
  <2> QED
    BY <1>5, <2>1, <2>2 DEF t
<1>7. CASE n # 0
  <2>1. PICK f : Flattens(f, s, n)
    BY <1>1, FlattensExists
  <2>2. g[n] = f[n]
    <3> DEFINE m == n + 1
    <3> HIDE DEF n, m
    <3>1. n \in Nat /\ m \in Nat /\ n <= m
      BY <1>1 DEF m
    <3>2. Flattens(g, t, m)
      BY <1>3 DEF m
    <3>3. \A i \in 1..n : t[i] = s[i]
      BY <1>2
    <3>4. \A h : Flattens(h, s, n) => \A i \in 1..n : g[i] = h[i]
      <4> SUFFICES ASSUME NEW h, Flattens(h, s, n)
                   PROVE  \A i \in 1..n : g[i] = h[i]
        OBVIOUS
      <4> QED
        BY <3>1, <3>2, <3>3, FlattensAgree
    <3>5. n \in 1..n
      BY <1>1, <1>7
    <3> QED
      BY <2>1, <3>4, <3>5
  <2>3. FlattenSeq(s) = f[n]
    BY <1>1, <1>7, <2>1, FlattenIsLast
  <2> DEFINE j == n + 1
  <2>4. j \in 1..(n+1) /\ j # 1 /\ j - 1 = n
    BY <1>1, <1>7
  <2> HIDE DEF j
  <2>5. g[j] = g[n] \o t[j]
    BY <1>4, <2>4
  <2>6. g[n + 1] = g[n] \o t[n + 1]
    BY <2>5 DEF j
  <2> QED
    BY <1>2, <1>5, <2>2, <2>3, <2>6 DEF t
<1> QED
  BY <1>6, <1>7

\* One sequence is flattened to itself.
LEMMA FlattenOne ==
    ASSUME NEW S, NEW e \in Seq(S)
    PROVE  FlattenSeq(<<e>>) = e
<1>1. <<>> \in Seq(Seq(S)) /\ FlattenSeq(<<>>) = <<>> /\ Append(<<>>, e) = <<e>>
  BY EmptySeq DEF FlattenSeq
<1>2. FlattenSeq(<<e>>) = <<>> \o e
  BY <1>1, FlattenAppend
<1> QED
  BY <1>2, ConcatEmptySeq

Regroups(S) == \A a, b, c \in Seq(S) : (a \o b) \o c = a \o (b \o c)

\* Three sequences, one after the other.
LEMMA Regroup == \A S : Regroups(S)
<1> SUFFICES ASSUME NEW S, NEW a \in Seq(S), NEW b \in Seq(S), NEW c \in Seq(S)
             PROVE  (a \o b) \o c = a \o (b \o c)
  BY DEF Regroups
<1> QED
  BY ConcatAssociative

\* What is flattened in two parts is flattened as a whole.
LEMMA FlattenConcat ==
    ASSUME NEW S, NEW s \in Seq(Seq(S)), NEW t \in Seq(Seq(S))
    PROVE  FlattenSeq(s \o t) = FlattenSeq(s) \o FlattenSeq(t)
<1> DEFINE T == {n \in Nat : \A u \in Seq(Seq(S)) : Len(u) = n =>
                     FlattenSeq(s \o u) = FlattenSeq(s) \o FlattenSeq(u)}
<1>1. 0 \in T
  <2> SUFFICES ASSUME NEW u \in Seq(Seq(S)), Len(u) = 0
               PROVE  FlattenSeq(s \o u) = FlattenSeq(s) \o FlattenSeq(u)
    OBVIOUS
  <2>1. u = <<>> /\ FlattenSeq(u) = <<>>
    BY EmptySeq DEF FlattenSeq
  <2>2. s \o u = s
    BY <2>1, ConcatEmptySeq
  <2>3. FlattenSeq(s) \o <<>> = FlattenSeq(s)
    BY FlattenType, ConcatEmptySeq
  <2> QED
    BY <2>1, <2>2, <2>3
<1>2. \A n \in Nat : n \in T => n + 1 \in T
  <2> SUFFICES ASSUME NEW n \in Nat, n \in T,
                      NEW u \in Seq(Seq(S)), Len(u) = n + 1
               PROVE  FlattenSeq(s \o u) = FlattenSeq(s) \o FlattenSeq(u)
    <3>1. \A n \in Nat : n + 1 \in Nat
      OBVIOUS
    <3> QED
      BY <3>1, Zenon
  <2>1. u # <<>>
    BY EmptySeq
  <2>2. PICK v \in Seq(Seq(S)), e \in Seq(S) : u = Append(v, e)
    BY <2>1, SequenceEmptyOrAppend
  <2>3. Len(v) = n
    BY <2>2, LenProperties, AppendProperties
  <2>4. FlattenSeq(s \o v) = FlattenSeq(s) \o FlattenSeq(v)
    BY <2>3
  <2>5. s \o v \in Seq(Seq(S))
    BY ConcatProperties
  <2>6. s \o Append(v, e) = Append(s \o v, e)
    <3> DEFINE Q == Seq(S)
               one == <<e>>
    <3>1. e \in Q /\ v \in Seq(Q) /\ s \in Seq(Q) /\ s \o v \in Seq(Q) /\ one \in Seq(Q)
      BY <2>5
    <3> HIDE DEF Q
    <3>2. v \o one = Append(v, e) /\ (s \o v) \o one = Append(s \o v, e)
      BY <3>1, AppendIsConcat
    <3> HIDE DEF one
    <3>3. Regroups(Q)
      BY Regroup
    <3>4. (s \o v) \o one = s \o (v \o one)
      BY <3>1, <3>3 DEF Regroups
    <3> QED
      BY <3>2, <3>4
  <2>7. FlattenSeq(s \o u) = (FlattenSeq(s) \o FlattenSeq(v)) \o e
    <3>1. FlattenSeq(Append(s \o v, e)) = FlattenSeq(s \o v) \o e
      BY <2>2, <2>5, FlattenAppend
    <3> QED
      BY <2>2, <2>4, <2>6, <3>1
  <2>8. FlattenSeq(u) = FlattenSeq(v) \o e
    BY <2>2, FlattenAppend
  <2> DEFINE f == FlattenSeq(s)
             g == FlattenSeq(v)
  <2>9. f \in Seq(S) /\ g \in Seq(S)
    BY FlattenType
  <2> HIDE DEF f, g
  <2>10. (f \o g) \o e = f \o (g \o e)
    <3>1. Regroups(S) /\ e \in Seq(S)
      BY <2>2, Regroup
    <3> QED
      BY <2>9, <3>1 DEF Regroups
  <2> QED
    BY <2>7, <2>8, <2>10 DEF f, g
<1>3. Len(t) \in Nat
  BY LenProperties
<1> HIDE DEF T
<1>4. Len(t) \in T
  BY <1>1, <1>2, <1>3, NatSetInduction
<1> QED
  BY <1>4 DEF T

\* What comes before the a-th of some sequences when all are flattened.
Before(s, a) == FlattenSeq(SubSeq(s, 1, a - 1))

\* Where the a-th sequence is when all are flattened.
LEMMA FlattenPositions ==
    ASSUME NEW S, NEW s \in Seq(Seq(S)), NEW a \in 1..Len(s)
    PROVE  /\ Before(s, a) \in Seq(S)
           /\ Before(s, a + 1) = Before(s, a) \o s[a]
           /\ Len(Before(s, a)) + Len(s[a]) <= Len(FlattenSeq(s))
           /\ \A j \in 1..Len(s[a]) :
                  FlattenSeq(s)[Len(Before(s, a)) + j] = s[a][j]
<1> DEFINE before == Before(s, a)
           n == Len(s)
           b == SubSeq(s, 1, a - 1)
           u == SubSeq(s, 1, a)
           r == SubSeq(s, a + 1, n)
           rest == FlattenSeq(r)
<1>1. n \in Nat /\ s[a] \in Seq(S) /\ a \in Nat /\ a <= n /\ 1 <= a
  BY LenProperties, ElementOfSeq
<1>2. u = b \o <<s[a]>>
  <2>1. 1 \in 1..Len(s) /\ a \in 1..Len(s)
    BY <1>1
  <2> QED
    BY <2>1, SubSeqRecursiveSecond
<1>3. s = u \o r
  <2>1. 1 \in 1..Len(s)+1 /\ a \in 1-1..Len(s) /\ n \in a..Len(s)
    BY <1>1
  <2>2. u \o r = SubSeq(s, 1, n)
    BY <2>1, ConcatAdjacentSubSeq
  <2> QED
    BY <2>2, SubSeqFull
<1>4. b \in Seq(Seq(S)) /\ r \in Seq(Seq(S)) /\ u \in Seq(Seq(S))
  <2>1. \A i \in 1..n : s[i] \in Seq(S)
    BY ElementOfSeq
  <2>2. \A p, q \in Int : 1 <= p /\ q <= n => SubSeq(s, p, q) \in Seq(Seq(S))
    <3> SUFFICES ASSUME NEW p \in Int, NEW q \in Int, 1 <= p, q <= n
                 PROVE  SubSeq(s, p, q) \in Seq(Seq(S))
      OBVIOUS
    <3>1. \A i \in p..q : s[i] \in Seq(S)
      BY <1>1, <2>1
    <3> QED
      BY <3>1, SubSeqProperties
  <2> QED
    BY <1>1, <2>2
<1> HIDE DEF b, r, u, n, before
<1>5. FlattenSeq(u) = before \o s[a] /\ before \in Seq(S)
  <2> DEFINE e == s[a]
             one == <<e>>
  <2>1. e \in Seq(S) /\ one \in Seq(Seq(S)) /\ FlattenSeq(one) = e
    BY <1>1, FlattenOne
  <2>2. u = b \o one
    BY <1>2
  <2> HIDE DEF e, one
  <2>3. FlattenSeq(b \o one) = FlattenSeq(b) \o FlattenSeq(one)
    BY <1>4, <2>1, FlattenConcat
  <2>4. FlattenSeq(b) \in Seq(S) /\ before = FlattenSeq(b)
    BY <1>4, FlattenType DEF b, before, Before
  <2> QED
    BY <2>1, <2>2, <2>3, <2>4 DEF e
<1>6. FlattenSeq(s) = (before \o s[a]) \o rest /\ rest \in Seq(S)
  BY <1>3, <1>4, <1>5, FlattenConcat, FlattenType
<1> HIDE DEF rest
<1> DEFINE both == before \o s[a]
           x == Len(before)
           y == Len(s[a])
           z == Len(rest)
<1>7. /\ both \in Seq(S) /\ Len(both) = x + y /\ x \in Nat /\ y \in Nat /\ z \in Nat
      /\ \A i \in 1..(x + y) : both[i] = IF i <= x THEN before[i] ELSE s[a][i - x]
  <2> DEFINE e == s[a]
  <2>1. e \in Seq(S)
    BY <1>1
  <2> HIDE DEF e
  <2>2. before \o e \in Seq(S) /\ Len(before \o e) = Len(before) + Len(e)
        /\ \A i \in 1..(Len(before) + Len(e)) :
               (before \o e)[i] = IF i <= Len(before) THEN before[i] ELSE e[i - Len(before)]
    BY <1>5, <2>1, ConcatProperties
  <2>3. Len(before) \in Nat /\ Len(e) \in Nat /\ Len(rest) \in Nat
    BY <1>5, <1>6, <2>1, LenProperties
  <2> QED
    BY <2>2, <2>3 DEF e
<1>8. /\ Len(FlattenSeq(s)) = (x + y) + z
      /\ \A i \in 1..((x + y) + z) :
             FlattenSeq(s)[i] = IF i <= x + y THEN both[i] ELSE rest[i - (x + y)]
  <2>1. FlattenSeq(s) = both \o rest /\ both \in Seq(S) /\ rest \in Seq(S)
    BY <1>6, <1>7
  <2> HIDE DEF both
  <2>2. /\ Len(both \o rest) = Len(both) + Len(rest)
        /\ \A i \in 1..(Len(both) + Len(rest)) :
               (both \o rest)[i] = IF i <= Len(both) THEN both[i] ELSE rest[i - Len(both)]
    BY <2>1, ConcatProperties
  <2>3. Len(both) = x + y
    BY <1>7
  <2> HIDE DEF x, y
  <2> QED
    BY <2>1, <2>2, <2>3
<1> HIDE DEF both, x, y, z
<1>9. ASSUME NEW j \in 1..y PROVE FlattenSeq(s)[x + j] = s[a][j]
  <2> DEFINE k == x + j
  <2>1. k \in 1..(x + y) /\ k \in 1..((x + y) + z) /\ k <= x + y /\ ~(k <= x) /\ k - x = j
    BY <1>7
  <2> HIDE DEF k
  <2>2. FlattenSeq(s)[k] = s[a][k - x]
    BY <1>7, <1>8, <2>1
  <2> QED
    BY <2>1, <2>2 DEF k
<1>10. x + y <= Len(FlattenSeq(s))
  BY <1>7, <1>8
<1> QED
  <2>1. a + 1 - 1 = a
    BY <1>1
  <2>2. Before(s, a + 1) = FlattenSeq(u)
    BY <2>1 DEF Before, u
  <2> QED
    BY <1>5, <1>9, <1>10, <2>2 DEF x, y, before

\* What is left to read when a sequence has been read.
LEMMA FlattenRest ==
    ASSUME NEW S, NEW s \in Seq(Seq(S)), NEW k \in 1..Len(s)
    PROVE  /\ FlattenSeq(SubSeq(s, k + 1, Len(s))) \in Seq(S)
           /\ FlattenSeq(SubSeq(s, k, Len(s))) =
                  s[k] \o FlattenSeq(SubSeq(s, k + 1, Len(s)))
<1> DEFINE r == SubSeq(s, k + 1, Len(s))
<1>1. Len(s) \in Nat /\ s[k] \in Seq(S) /\ \A i \in 1..Len(s) : s[i] \in Seq(S)
  BY LenProperties, ElementOfSeq
<1>2. SubSeq(s, k, Len(s)) = <<s[k]>> \o r
  <2>1. k \in 1..Len(s) /\ Len(s) \in k..Len(s)
    BY <1>1
  <2> QED
    BY <2>1, SubSeqRecursiveFirst
<1>3. r \in Seq(Seq(S))
  <2>1. k + 1 \in Int /\ Len(s) \in Int /\ \A i \in (k + 1)..Len(s) : s[i] \in Seq(S)
    BY <1>1
  <2> QED
    BY <2>1, SubSeqProperties
<1> HIDE DEF r
<1>4. <<s[k]>> \in Seq(Seq(S))
  BY <1>1
<1>5. FlattenSeq(<<s[k]>> \o r) = s[k] \o FlattenSeq(r)
  <2> DEFINE e == s[k]
             one == <<e>>
  <2>1. e \in Seq(S) /\ one \in Seq(Seq(S)) /\ FlattenSeq(one) = e
    BY <1>1, FlattenOne
  <2> HIDE DEF e, one
  <2>2. FlattenSeq(one \o r) = FlattenSeq(one) \o FlattenSeq(r)
    BY <1>3, <2>1, FlattenConcat
  <2> QED
    BY <2>1, <2>2 DEF e, one
<1>6. FlattenSeq(r) \in Seq(S)
  BY <1>3, FlattenType
<1> QED
  BY <1>2, <1>5, <1>6 DEF r

\* Sequences of the same lengths are flattened to sequences of one length.
LEMMA FlattenLengths ==
    ASSUME NEW S, NEW s \in Seq(Seq(S)), NEW R, NEW t \in Seq(Seq(R)),
           Len(s) = Len(t), \A i \in 1..Len(s) : Len(s[i]) = Len(t[i])
    PROVE  Len(FlattenSeq(s)) = Len(FlattenSeq(t))
<1> DEFINE T == {n \in Nat : n <= Len(s) =>
                     Len(Before(s, n + 1)) = Len(Before(t, n + 1))}
<1>1. Len(s) \in Nat
  BY LenProperties
<1>2. 0 \in T
  <2>1. SubSeq(s, 1, 0) = <<>> /\ SubSeq(t, 1, 0) = <<>>
    BY SubSeqEmpty
  <2> DEFINE k == 0 + 1
  <2>2. k - 1 = 0
    OBVIOUS
  <2> HIDE DEF k
  <2>3. Before(s, k) = FlattenSeq(<<>>) /\ Before(t, k) = FlattenSeq(<<>>)
    BY <2>1, <2>2 DEF Before
  <2> QED
    BY <2>3 DEF k
<1>3. \A a \in 1..Len(s) :
          /\ Before(s, a) \in Seq(S) /\ s[a] \in Seq(S)
          /\ Before(s, a + 1) = Before(s, a) \o s[a]
  BY FlattenPositions, ElementOfSeq
<1>4. \A a \in 1..Len(t) :
          /\ Before(t, a) \in Seq(R) /\ t[a] \in Seq(R)
          /\ Before(t, a + 1) = Before(t, a) \o t[a]
  BY FlattenPositions, ElementOfSeq
<1>5. \A n \in Nat : n \in T => n + 1 \in T
  <2> SUFFICES ASSUME NEW n \in Nat, n \in T, n + 1 <= Len(s)
               PROVE  Len(Before(s, n + 1 + 1)) = Len(Before(t, n + 1 + 1))
    OBVIOUS
  <2> DEFINE a == n + 1
             x == Before(s, a)
             y == Before(t, a)
             d == s[a]
             e == t[a]
  <2>1. a \in 1..Len(s) /\ a \in 1..Len(t) /\ a - 1 = n
    BY <1>1
  <2>2. Len(x) = Len(y) /\ Len(d) = Len(e)
    BY <1>1, <2>1
  <2> HIDE DEF a
  <2>3. /\ x \in Seq(S) /\ d \in Seq(S) /\ Before(s, a + 1) = x \o d
        /\ y \in Seq(R) /\ e \in Seq(R) /\ Before(t, a + 1) = y \o e
    BY <1>3, <1>4, <2>1
  <2> HIDE DEF x, y, d, e
  <2>4. Len(x \o d) = Len(x) + Len(d) /\ Len(y \o e) = Len(y) + Len(e)
    BY <2>3, ConcatProperties
  <2>5. Len(Before(s, a + 1)) = Len(Before(t, a + 1))
    BY <2>2, <2>3, <2>4
  <2> QED
    BY <2>5 DEF a
<1> HIDE DEF T
<1>6. Len(s) \in T
  BY <1>1, <1>2, <1>5, NatSetInduction
<1>7. Len(Before(s, Len(s) + 1)) = Len(Before(t, Len(t) + 1))
  BY <1>1, <1>6 DEF T
<1>8. Len(s) + 1 - 1 = Len(s) /\ Len(t) + 1 - 1 = Len(t)
  BY <1>1
<1>9. /\ Before(s, Len(s) + 1) = FlattenSeq(SubSeq(s, 1, Len(s)))
      /\ Before(t, Len(t) + 1) = FlattenSeq(SubSeq(t, 1, Len(t)))
  BY <1>8 DEF Before
<1>10. SubSeq(s, 1, Len(s)) = s /\ SubSeq(t, 1, Len(t)) = t
  BY SubSeqFull
<1> QED
  BY <1>7, <1>9, <1>10

-----------------------------------------------------------------------------
(* Induction and recursion                                                  *)

\* f is defined up to n by recursion: b[x] for an x of B, and for another x by
\* the step g from the value for p[x].
Recursive(f, n, V, B, b, p, g) ==
    /\ f \in [0..n -> V]
    /\ \A x \in 0..n : f[x] = IF x \in B THEN b[x] ELSE g[<<x, f[p[x]]>>]

\* Two functions defined by the same recursion agree.
LEMMA RecursiveAgree ==
    ASSUME NEW V, NEW B, NEW b, NEW p, NEW g,
           \A x \in Nat \ B : p[x] \in Nat /\ p[x] < x,
           NEW m \in Nat, NEW n \in Nat, NEW f, NEW h,
           Recursive(f, m, V, B, b, p, g), Recursive(h, n, V, B, b, p, g)
    PROVE  \A x \in Nat : x <= m /\ x <= n => f[x] = h[x]
<1> DEFINE T == {x \in Nat : x <= m /\ x <= n => f[x] = h[x]}
<1>1. ASSUME NEW x \in Nat, \A y \in Nat : y < x => y \in T
      PROVE  x \in T
  <2> SUFFICES ASSUME x <= m, x <= n PROVE f[x] = h[x]
    OBVIOUS
  <2>1. x \in 0..m /\ x \in 0..n
    OBVIOUS
  <2>2. /\ f[x] = IF x \in B THEN b[x] ELSE g[<<x, f[p[x]]>>]
        /\ h[x] = IF x \in B THEN b[x] ELSE g[<<x, h[p[x]]>>]
    BY <2>1 DEF Recursive
  <2>3. CASE x \in B
    BY <2>2, <2>3
  <2>4. CASE x \notin B
    <3>1. p[x] \in Nat /\ p[x] < x
      BY <2>4
    <3>2. p[x] \in T /\ p[x] <= m /\ p[x] <= n
      BY <1>1, <3>1
    <3> QED
      BY <2>2, <2>4, <3>2
  <2> QED
    BY <2>3, <2>4
<1> HIDE DEF T
<1>2. \A x \in Nat : x \in T
  BY <1>1, StrongInduction
<1> QED
  BY <1>2 DEF T

\* Up to every number, there is a function defined by recursion.
LEMMA RecursiveUpTo ==
    ASSUME NEW V, NEW B, NEW b \in [Nat -> V], NEW p,
           NEW g \in [Nat \X V -> V],
           \A x \in Nat \ B : p[x] \in Nat /\ p[x] < x
    PROVE  \A n \in Nat : \E f : Recursive(f, n, V, B, b, p, g)
<1> DEFINE T == {n \in Nat : \E f : Recursive(f, n, V, B, b, p, g)}
<1>1. ASSUME NEW n \in Nat, \A m \in Nat : m < n => m \in T
      PROVE  n \in T
  <2>1. CASE n = 0
    <3> DEFINE f == [x \in 0..n |-> b[x]]
    <3>1. \A x \in 0..n : x \in B /\ b[x] \in V
      BY <2>1
    <3>2. Recursive(f, n, V, B, b, p, g)
      BY <3>1 DEF Recursive
    <3> QED
      BY <3>2
  <2>2. CASE n # 0
    <3>1. n - 1 \in Nat /\ n - 1 < n
      BY <2>2
    <3>2. PICK f : Recursive(f, n - 1, V, B, b, p, g)
      BY <1>1, <3>1
    <3> DEFINE h == [x \in 0..n |->
                        IF x < n THEN f[x]
                        ELSE IF x \in B THEN b[x] ELSE g[<<x, f[p[x]]>>]]
    <3>3. f \in [0..(n-1) -> V]
      BY <3>2 DEF Recursive
    <3>4. \A x \in 0..(n-1) : h[x] = f[x]
      OBVIOUS
    <3>5. \A x \in 0..n : x \notin B => p[x] \in 0..(n-1)
      OBVIOUS
    <3>6. ASSUME NEW x \in 0..n
          PROVE  /\ h[x] \in V
                 /\ h[x] = IF x \in B THEN b[x] ELSE g[<<x, h[p[x]]>>]
      <4>1. h[x] = IF x \in B THEN b[x] ELSE g[<<x, f[p[x]]>>]
        <5>1. CASE x < n
          <6>1. x \in 0..(n-1)
            BY <5>1
          <6> QED
            BY <3>2, <3>4, <6>1 DEF Recursive
        <5>2. CASE ~(x < n)
          BY <5>2
        <5> QED
          BY <5>1, <5>2
      <4> HIDE DEF h
      <4>2. CASE x \in B
        BY <4>1, <4>2
      <4>3. CASE x \notin B
        <5>1. p[x] \in 0..(n-1) /\ h[p[x]] = f[p[x]] /\ f[p[x]] \in V
          BY <3>3, <3>4, <3>5, <4>3
        <5>2. <<x, f[p[x]]>> \in Nat \X V
          BY <5>1
        <5> QED
          BY <4>1, <4>3, <5>1, <5>2
      <4> QED
        BY <4>2, <4>3
    <3>7. h \in [0..n -> V]
      <4>1. h = [x \in 0..n |-> h[x]]
        OBVIOUS
      <4> HIDE DEF h
      <4> QED
        BY <3>6, <4>1
    <3> HIDE DEF h
    <3>8. Recursive(h, n, V, B, b, p, g)
      BY <3>6, <3>7 DEF Recursive
    <3> QED
      BY <3>8
  <2> QED
    BY <2>1, <2>2
<1> HIDE DEF T
<1>2. \A n \in Nat : n \in T
  BY <1>1, StrongInduction
<1> QED
  BY <1>2 DEF T

\* A function f on all numbers, and what makes it exist.
RecursiveOnNat(f, V, B, b, p, g) ==
    /\ f \in [Nat -> V]
    /\ \A x \in Nat : f[x] = IF x \in B THEN b[x] ELSE g[<<x, f[p[x]]>>]

WellFounded(V, B, b, p, g) ==
    /\ b \in [Nat -> V]
    /\ g \in [Nat \X V -> V]
    /\ \A x \in Nat \ B : p[x] \in Nat /\ p[x] < x

\* A recursion from smaller numbers defines a function on all of them.
LEMMA RecursionExists ==
    ASSUME NEW V, NEW B, NEW b, NEW p, NEW g, WellFounded(V, B, b, p, g)
    PROVE  \E f : RecursiveOnNat(f, V, B, b, p, g)
<1> DEFINE To(n) == CHOOSE f : Recursive(f, n, V, B, b, p, g)
           F == [x \in Nat |-> To(x)[x]]
<1>1. \A n \in Nat : Recursive(To(n), n, V, B, b, p, g)
  <2>1. \A n \in Nat : \E f : Recursive(f, n, V, B, b, p, g)
    <3> USE DEF WellFounded
    <3> HIDE DEF To
    <3> QED
      BY RecursiveUpTo
  <2> QED
    BY <2>1
<1> HIDE DEF To
<1>2. \A x \in Nat : x \in 0..x
  OBVIOUS
<1>3. \A x \in Nat : To(x)[x] \in V
  BY <1>1, <1>2 DEF Recursive
<1>4. ASSUME NEW x \in Nat
      PROVE  F[x] = IF x \in B THEN b[x] ELSE g[<<x, F[p[x]]>>]
  <2>1. To(x)[x] = IF x \in B THEN b[x] ELSE g[<<x, To(x)[p[x]]>>]
    BY <1>1, <1>2 DEF Recursive
  <2>2. CASE x \in B
    BY <2>1, <2>2
  <2>3. CASE x \notin B
    <3>1. p[x] \in Nat /\ p[x] < x /\ p[x] <= x /\ p[x] <= p[x]
      BY <2>3 DEF WellFounded
    <3>2. /\ Recursive(To(x), x, V, B, b, p, g)
          /\ Recursive(To(p[x]), p[x], V, B, b, p, g)
      BY <1>1, <3>1
    <3>3. \A y \in Nat \ B : p[y] \in Nat /\ p[y] < y
      BY DEF WellFounded
    <3>4. \A y \in Nat : y <= x /\ y <= p[x] => To(x)[y] = To(p[x])[y]
      BY <3>1, <3>2, <3>3, RecursiveAgree
    <3> QED
      BY <2>1, <2>3, <3>1, <3>4
  <2> QED
    BY <2>2, <2>3
<1> QED
  BY <1>3, <1>4 DEF RecursiveOnNat

-----------------------------------------------------------------------------
(* The recursive definitions of Encodings                                   *)

\* Quotients and remainders of segments.
LEMMA SegmentsOfNumber ==
    ASSUME NEW x \in Nat
    PROVE  /\ x \div 128 \in Nat /\ x % 128 \in 0..127
           /\ x = 128 * (x \div 128) + (x % 128)
           /\ x >= 128 => x \div 128 < x
<1>1. x \div 128 \in Nat
  OBVIOUS
<1>2. x % 128 \in 0..127
  OBVIOUS
<1>3. x = 128 * (x \div 128) + (x % 128)
  OBVIOUS
<1> QED
  BY <1>1, <1>2, <1>3

\* A small number has no quotient.
LEMMA SmallRemainder ==
    ASSUME NEW n \in Nat, NEW m \in Nat, n < m
    PROVE  n % m = n
OBVIOUS

Segments == 0..127

\* The segments of a number, as VLQSegments defines them.
LEMMA VLQSegmentsDef ==
    /\ VLQSegments \in [Nat -> Seq(Segments)]
    /\ \A x \in Nat :
           VLQSegments[x] = IF x < 128 THEN <<x>>
                            ELSE Append(VLQSegments[x \div 128], x % 128)
<1> DEFINE V == Seq(Segments)
           B == Segments
           b == [x \in Nat |-> IF x < 128 THEN <<x>> ELSE <<>>]
           p == [x \in Nat |-> x \div 128]
           g == [xv \in Nat \X V |-> Append(xv[2], xv[1] % 128)]
<1>1. b \in [Nat -> V]
  <2>1. \A x \in Nat : x < 128 => x \in Segments
    BY DEF Segments
  <2> QED
    BY <2>1
<1>2. g \in [Nat \X V -> V]
  <2>1. \A x \in Nat : x % 128 \in Segments
    BY SegmentsOfNumber DEF Segments
  <2> QED
    BY <2>1
<1>3. \A x \in Nat \ B : p[x] \in Nat /\ p[x] < x
  <2> SUFFICES ASSUME NEW x \in Nat \ B PROVE x \div 128 \in Nat /\ x \div 128 < x
    OBVIOUS
  <2> QED
    BY SegmentsOfNumber DEF Segments
<1> HIDE DEF V, B, b, p, g
<1>4. PICK f : RecursiveOnNat(f, V, B, b, p, g)
  BY <1>1, <1>2, <1>3, RecursionExists DEF WellFounded
<1>5. ASSUME NEW x \in Nat
      PROVE  f[x] = IF x < 128 THEN <<x>> ELSE Append(f[x \div 128], x % 128)
  <2>1. CASE x < 128
    <3>1. x \in B /\ b[x] = <<x>>
      BY <2>1 DEF B, b, Segments
    <3> QED
      BY <1>4, <2>1, <3>1 DEF RecursiveOnNat
  <2>2. CASE ~(x < 128)
    <3>1. x \notin B /\ p[x] = x \div 128 /\ x \div 128 \in Nat
      BY <2>2, SegmentsOfNumber DEF B, p, Segments
    <3>2. <<x, f[x \div 128]>> \in Nat \X V
      BY <1>4, <3>1 DEF RecursiveOnNat
    <3>3. g[<<x, f[x \div 128]>>] = Append(f[x \div 128], x % 128)
      BY <3>2 DEF g
    <3> QED
      BY <1>4, <2>2, <3>1, <3>3 DEF RecursiveOnNat
  <2> QED
    BY <2>1, <2>2
<1> DEFINE Fits(h) == h = [x \in Nat |-> IF x < 128 THEN <<x>>
                                         ELSE Append(h[x \div 128], x % 128)]
<1>6. Fits(f)
  <2>1. f = [x \in Nat |-> f[x]]
    BY <1>4 DEF RecursiveOnNat
  <2> QED
    BY <1>5, <2>1
<1>7. VLQSegments = CHOOSE h : Fits(h)
  BY DEF VLQSegments
<1>8. Fits(VLQSegments)
  <2> HIDE DEF Fits
  <2> QED
    BY <1>6, <1>7
<1>9. \A x \in Nat :
          VLQSegments[x] = IF x < 128 THEN <<x>>
                           ELSE Append(VLQSegments[x \div 128], x % 128)
  BY <1>8
<1>10. DOMAIN VLQSegments = Nat
  BY <1>8
<1>11. \A x \in Nat : VLQSegments[x] \in V
  <2> DEFINE T == {x \in Nat : VLQSegments[x] \in V}
  <2>1. ASSUME NEW x \in Nat, \A m \in Nat : m < x => m \in T
        PROVE  x \in T
    <3>1. CASE x < 128
      <4>1. x \in Segments
        BY <3>1 DEF Segments
      <4>2. VLQSegments[x] = <<x>>
        BY <1>9, <3>1
      <4>3. <<x>> \in Seq(Segments)
        BY <4>1
      <4> QED
        BY <4>2, <4>3 DEF V
    <3>2. CASE ~(x < 128)
      <4>1. VLQSegments[x \div 128] \in V /\ x % 128 \in Segments
        BY <2>1, <3>2, SegmentsOfNumber DEF Segments
      <4>2. VLQSegments[x] = Append(VLQSegments[x \div 128], x % 128)
        <5> HIDE DEF Fits, T
        <5> QED
          BY <1>9, <3>2
      <4>3. Append(VLQSegments[x \div 128], x % 128) \in Seq(Segments)
        BY <4>1, AppendProperties DEF V
      <4> QED
        BY <4>2, <4>3 DEF V
    <3> QED
      BY <3>1, <3>2
  <2> HIDE DEF T
  <2>2. \A x \in Nat : x \in T
    BY <2>1, StrongInduction
  <2> QED
    BY <2>2 DEF T
<1>12. VLQSegments = [x \in Nat |-> VLQSegments[x]]
  <2>1. VLQSegments = [x \in Nat |-> IF x < 128 THEN <<x>>
                                     ELSE Append(VLQSegments[x \div 128], x % 128)]
    BY <1>8
  <2> QED
    BY <1>9, <2>1
<1> QED
  BY <1>9, <1>11, <1>12 DEF V

\* The powers of ten, as Power10 defines them.
LEMMA Power10Def ==
    \A e \in Nat : /\ Power10[e] \in Nat \ {0}
                   /\ Power10[e] = IF e = 0 THEN 1 ELSE 10 * Power10[e - 1]
<1> DEFINE V == Nat \ {0}
           B == {0}
           b == [x \in Nat |-> 1]
           p == [x \in Nat |-> x - 1]
           g == [xv \in Nat \X V |-> 10 * xv[2]]
<1>1. b \in [Nat -> V]
  OBVIOUS
<1>2. g \in [Nat \X V -> V]
  OBVIOUS
<1>3. \A x \in Nat \ B : p[x] \in Nat /\ p[x] < x
  OBVIOUS
<1> HIDE DEF V, B, b, p, g
<1>4. PICK f : RecursiveOnNat(f, V, B, b, p, g)
  BY <1>1, <1>2, <1>3, RecursionExists DEF WellFounded
<1>5. ASSUME NEW x \in Nat
      PROVE  f[x] = IF x = 0 THEN 1 ELSE 10 * f[x - 1]
  <2>1. CASE x = 0
    BY <1>4, <2>1 DEF B, b, RecursiveOnNat
  <2>2. CASE x # 0
    <3>1. x \notin B /\ p[x] = x - 1 /\ x - 1 \in Nat
      BY <2>2 DEF B, p
    <3>2. <<x, f[x - 1]>> \in Nat \X V
      BY <1>4, <3>1 DEF RecursiveOnNat
    <3>3. g[<<x, f[x - 1]>>] = 10 * f[x - 1]
      BY <3>2 DEF g
    <3> QED
      BY <1>4, <2>2, <3>1, <3>3 DEF RecursiveOnNat
  <2> QED
    BY <2>1, <2>2
<1> DEFINE Fits(h) == h = [x \in Nat |-> IF x = 0 THEN 1 ELSE 10 * h[x - 1]]
<1>6. Fits(f)
  <2>1. f = [x \in Nat |-> f[x]]
    BY <1>4 DEF RecursiveOnNat
  <2> QED
    BY <1>5, <2>1
<1>7. Power10 = CHOOSE h : Fits(h)
  BY DEF Power10
<1>8. Fits(Power10)
  <2> HIDE DEF Fits
  <2> QED
    BY <1>6, <1>7
<1>9. \A x \in Nat : Power10[x] = IF x = 0 THEN 1 ELSE 10 * Power10[x - 1]
  BY <1>8
<1> DEFINE T == {x \in Nat : Power10[x] \in Nat \ {0}}
<1>10. ASSUME NEW x \in Nat, \A m \in Nat : m < x => m \in T
       PROVE  x \in T
  <2>1. CASE x = 0
    BY <1>9, <2>1
  <2>2. CASE x # 0
    <3>1. x - 1 \in Nat /\ x - 1 < x
      BY <2>2
    <3>2. Power10[x - 1] \in Nat \ {0}
      BY <1>10, <3>1
    <3>3. Power10[x] = 10 * Power10[x - 1]
      BY <1>9, <2>2
    <3> QED
      BY <3>2, <3>3
  <2> QED
    BY <2>1, <2>2
<1> HIDE DEF T
<1>11. \A x \in Nat : x \in T
  BY <1>10, StrongInduction
<1> QED
  BY <1>9, <1>11 DEF T

-----------------------------------------------------------------------------
(* Variable-length numbers                                                  *)

Bytes == [kind : {"byte"}, value : 0..255]

\* All bytes of a number but the last say that another one follows.
LEMMA EncodedVLQ ==
    ASSUME NEW x \in Nat
    PROVE  /\ EncodeVLQ(x) \in Seq(Bytes)
           /\ Len(EncodeVLQ(x)) = Len(VLQSegments[x])
           /\ Len(EncodeVLQ(x)) \in Nat \ {0}
           /\ \A i \in 1..Len(EncodeVLQ(x)) :
                  /\ VLQSegments[x][i] \in Segments
                  /\ EncodeVLQ(x)[i].kind = "byte"
                  /\ EncodeVLQ(x)[i].value % 128 = VLQSegments[x][i]
                  /\ EncodeVLQ(x)[i].value < 128 <=> i = Len(EncodeVLQ(x))
<1> DEFINE s == VLQSegments[x]
           n == Len(s)
           e == EncodeVLQ(x)
<1>1. s \in Seq(Segments) /\ n \in Nat /\ DOMAIN s = 1..n
  BY VLQSegmentsDef
<1>2. n # 0
  <2>1. CASE x < 128
    <3>1. s = <<x>>
      BY <2>1, VLQSegmentsDef
    <3> QED
      BY <3>1
  <2>2. CASE ~(x < 128)
    <3> DEFINE high == VLQSegments[x \div 128]
    <3>1. s = Append(high, x % 128)
      BY <2>2, VLQSegmentsDef
    <3>2. high \in Seq(Segments) /\ x % 128 \in Segments
      BY VLQSegmentsDef, SegmentsOfNumber DEF Segments
    <3>3. Len(s) = Len(high) + 1 /\ Len(high) \in Nat
      BY <3>1, <3>2, AppendProperties
    <3> QED
      BY <3>3
  <2> QED
    BY <2>1, <2>2
<1>3. \A i \in 1..n : s[i] \in Segments
  BY <1>1
<1>4. e = [i \in 1..n |-> Byte(s[i] + IF i < n THEN 128 ELSE 0)]
  BY <1>1 DEF EncodeVLQ
<1> HIDE DEF s, n, e
<1>5. ASSUME NEW i \in 1..n
      PROVE  /\ e[i] \in Bytes
             /\ e[i].kind = "byte"
             /\ e[i].value % 128 = s[i]
             /\ e[i].value < 128 <=> i = n
  <2>1. e[i] = [kind |-> "byte", value |-> s[i] + IF i < n THEN 128 ELSE 0]
    BY <1>4 DEF Byte
  <2>2. s[i] \in 0..127
    BY <1>3 DEF Segments
  <2>3. CASE i < n
    <3>1. e[i].kind = "byte" /\ e[i].value = s[i] + 128
      BY <2>1, <2>3
    <3>2. (s[i] + 128) % 128 = s[i] /\ s[i] + 128 \in 0..255
      BY <2>2
    <3> QED
      <4>1. i # n
        BY <1>1, <2>3
      <4>2. e[i] \in Bytes
        BY <2>1, <2>3, <3>2 DEF Bytes
      <4>3. ~(e[i].value < 128)
        BY <2>2, <3>1
      <4> QED
        BY <3>1, <3>2, <4>1, <4>2, <4>3
  <2>4. CASE ~(i < n)
    <3>1. i = n
      BY <1>1, <2>4
    <3>2. e[i].kind = "byte" /\ e[i].value = s[i]
      BY <2>1, <2>2, <2>4
    <3>3. s[i] % 128 = s[i] /\ s[i] \in 0..255
      BY <2>2
    <3> QED
      BY <2>1, <2>2, <2>4, <3>1, <3>2, <3>3 DEF Bytes
  <2> QED
    BY <2>3, <2>4
<1>6. e \in [1..n -> Bytes]
  <2>1. e = [i \in 1..n |-> e[i]]
    BY <1>4
  <2> QED
    BY <1>5, <2>1
<1>7. e \in Seq(Bytes) /\ Len(e) = n
  BY <1>1, <1>6
<1> QED
  BY <1>1, <1>2, <1>3, <1>5, <1>7 DEF s, n, e

\* value is what VLQValue computes of the first i bytes, for every i.
AccumulatesVLQ(value, bytes) ==
    /\ value \in [0..Len(bytes) -> Nat]
    /\ value[0] = 0
    /\ \A i \in 1..Len(bytes) :
           value[i] = ((128 * value[i - 1]) % WordSize) + (bytes[i].value % 128)

\* What VLQ.decode adds up, byte by byte.
LEMMA VLQValueDef ==
    ASSUME NEW bytes \in Seq(Bytes)
    PROVE  \E value : /\ AccumulatesVLQ(value, bytes)
                      /\ VLQValue(bytes) = value[Len(bytes)]
<1> DEFINE n == Len(bytes)
           V == Nat
           B == {0}
           b == [i \in Nat |-> 0]
           p == [i \in Nat |-> i - 1]
           g == [iv \in Nat \X V |->
                    ((128 * iv[2]) % WordSize)
                        + (IF iv[1] \in 1..n THEN bytes[iv[1]].value % 128 ELSE 0)]
<1>1. n \in Nat /\ \A i \in 1..n : bytes[i].value \in 0..255
  <2>1. n \in Nat /\ \A i \in 1..n : bytes[i] \in Bytes
    BY ElementOfSeq, LenProperties
  <2> QED
    BY <2>1 DEF Bytes
<1>2. WordSize \in Nat \ {0}
  BY EncodingsAssumption
<1>3. \A i \in 1..n : bytes[i].value % 128 \in Nat
  <2> SUFFICES ASSUME NEW i \in 1..n PROVE bytes[i].value % 128 \in Nat
    OBVIOUS
  <2>1. \A v \in 0..255 : v % 128 \in Nat
    OBVIOUS
  <2>2. bytes[i].value \in 0..255
    BY <1>1
  <2> QED
    BY <2>1, <2>2
<1>4. \A v \in Nat : (128 * v) % WordSize \in Nat
  BY <1>2
<1>5. WellFounded(V, B, b, p, g)
  <2>1. b \in [Nat -> V]
    OBVIOUS
  <2>2. \A i \in Nat \ B : p[i] \in Nat /\ p[i] < i
    OBVIOUS
  <2>3. \A iv \in Nat \X V : g[iv] \in V
    BY <1>3, <1>4
  <2>4. g \in [Nat \X V -> V]
    <3>1. g = [iv \in Nat \X V |-> g[iv]]
      OBVIOUS
    <3> HIDE DEF g
    <3> QED
      BY <2>3, <3>1
  <2> HIDE DEF V, B, b, p, g
  <2> QED
    BY <2>1, <2>2, <2>4 DEF WellFounded
<1> HIDE DEF V, B, b, p, g
<1>6. PICK f : RecursiveOnNat(f, V, B, b, p, g)
  BY <1>5, RecursionExists
<1>7. \A i \in Nat : f[i] \in Nat
  BY <1>6 DEF RecursiveOnNat, V
<1>8. f[0] = 0
  <2>1. 0 \in B /\ b[0] = 0
    BY DEF B, b
  <2> QED
    BY <1>6, <2>1 DEF RecursiveOnNat
<1>9. ASSUME NEW i \in 1..n
      PROVE  f[i] = ((128 * f[i - 1]) % WordSize) + (bytes[i].value % 128)
  <2>1. i \in Nat /\ i - 1 \in Nat /\ i \notin B /\ p[i] = i - 1
    BY <1>1 DEF B, p
  <2>2. f[i] = g[<<i, f[i - 1]>>]
    BY <1>6, <2>1 DEF RecursiveOnNat
  <2>3. <<i, f[i - 1]>> \in Nat \X V
    BY <1>7, <2>1 DEF V
  <2> QED
    BY <2>2, <2>3 DEF g
<1> DEFINE Fits(h) == h = [i \in 0..n |->
                IF i = 0 THEN 0
                ELSE ((128 * h[i - 1]) % WordSize) + (bytes[i].value % 128)]
           h == [i \in 0..n |-> f[i]]
<1>10. Fits(h)
  <2>1. ASSUME NEW i \in 0..n
        PROVE  h[i] = IF i = 0 THEN 0
                      ELSE ((128 * h[i - 1]) % WordSize) + (bytes[i].value % 128)
    <3>1. CASE i = 0
      BY <1>8, <3>1
    <3>2. CASE i # 0
      <4>1. i \in 1..n /\ i - 1 \in 0..n
        BY <1>1, <3>2
      <4>2. h[i] = f[i] /\ h[i - 1] = f[i - 1]
        BY <4>1
      <4> HIDE DEF h
      <4> QED
        BY <1>9, <3>2, <4>1, <4>2
    <3> QED
      BY <3>1, <3>2
  <2>2. h = [i \in 0..n |-> h[i]]
    OBVIOUS
  <2> HIDE DEF h
  <2> QED
    BY <2>1, <2>2
<1> DEFINE value == CHOOSE u : Fits(u)
<1>11. VLQValue(bytes) = value[n]
  BY DEF VLQValue
<1>12. Fits(value)
  <2> HIDE DEF Fits, h
  <2> QED
    BY <1>10
<1> HIDE DEF value
<1>13. \A i \in 0..n :
          value[i] = IF i = 0 THEN 0
                     ELSE ((128 * value[i - 1]) % WordSize) + (bytes[i].value % 128)
  BY <1>12
<1>14. \A i \in 0..n : value[i] \in Nat
  <2> DEFINE T == {i \in Nat : i <= n => value[i] \in Nat}
  <2>1. ASSUME NEW i \in Nat, \A m \in Nat : m < i => m \in T
        PROVE  i \in T
    <3> SUFFICES ASSUME i <= n PROVE value[i] \in Nat
      OBVIOUS
    <3>1. CASE i = 0
      BY <1>1, <1>13, <3>1
    <3>2. CASE i # 0
      <4>1. i \in 0..n /\ i \in 1..n /\ i - 1 \in Nat /\ i - 1 < i /\ i - 1 <= n
        BY <1>1, <3>2
      <4>2. value[i - 1] \in Nat
        BY <2>1, <4>1
      <4>3. value[i] = ((128 * value[i - 1]) % WordSize) + (bytes[i].value % 128)
        BY <1>13, <3>2, <4>1
      <4> QED
        BY <1>3, <1>4, <4>1, <4>2, <4>3
    <3> QED
      BY <3>1, <3>2
  <2> HIDE DEF T
  <2>2. \A i \in Nat : i \in T
    BY <2>1, StrongInduction
  <2> QED
    BY <1>1, <2>2 DEF T
<1>15. value \in [0..n -> Nat]
  <2>1. value = [i \in 0..n |-> value[i]]
    <3>1. DOMAIN value = 0..n
      BY <1>12
    <3> QED
      BY <1>12, <1>13
  <2> QED
    BY <1>14, <2>1
<1>16. \A i \in 1..n :
          value[i] = ((128 * value[i - 1]) % WordSize) + (bytes[i].value % 128)
  BY <1>1, <1>13
<1>17. value[0] = 0
  BY <1>1, <1>13
<1> QED
  BY <1>11, <1>15, <1>16, <1>17 DEF AccumulatesVLQ

\* What accumulates the segments of a number of the word's size is the number.
LEMMA SegmentsAddUp ==
    ASSUME NEW x \in Words, NEW value, value[0] = 0,
           \A i \in 1..Len(VLQSegments[x]) :
               value[i] = ((128 * value[i - 1]) % WordSize) + VLQSegments[x][i]
    PROVE  value[Len(VLQSegments[x])] = x
<1> DEFINE AddsUp(y) ==
               (\A i \in 1..Len(VLQSegments[y]) :
                    value[i] = ((128 * value[i - 1]) % WordSize) + VLQSegments[y][i])
               => value[Len(VLQSegments[y])] = y
           T == {y \in Nat : y < WordSize => AddsUp(y)}
<1>1. WordSize \in Nat \ {0}
  BY EncodingsAssumption
<1>2. ASSUME NEW y \in Nat, \A m \in Nat : m < y => m \in T
      PROVE  y \in T
  <2> DEFINE s == VLQSegments[y]
  <2> SUFFICES ASSUME y < WordSize,
                      \A i \in 1..Len(s) :
                          value[i] = ((128 * value[i - 1]) % WordSize) + s[i]
               PROVE  value[Len(s)] = y
    OBVIOUS
  <2>1. CASE y < 128
    <3>1. s = <<y>>
      BY <2>1, VLQSegmentsDef
    <3>2. Len(s) = 1 /\ s[1] = y
      BY <3>1
    <3>3. value[1] = ((128 * value[0]) % WordSize) + y
      BY <3>2
    <3>4. (128 * 0) % WordSize = 0
      BY <1>1, SmallRemainder
    <3> QED
      BY <3>2, <3>3, <3>4
  <2>2. CASE ~(y < 128)
    <3> DEFINE high == y \div 128
               h == VLQSegments[high]
               n == Len(h)
    <3>1. /\ high \in Nat /\ high < y /\ y % 128 \in 0..127
          /\ y = 128 * high + (y % 128)
      BY <2>2, SegmentsOfNumber
    <3>2. s = Append(h, y % 128)
      BY <2>2, VLQSegmentsDef
    <3>3. h \in Seq(Segments) /\ y % 128 \in Segments
      BY <3>1, VLQSegmentsDef DEF Segments
    <3>4. /\ n \in Nat /\ Len(s) = n + 1
          /\ \A i \in 1..n : s[i] = h[i]
          /\ s[n + 1] = y % 128
      BY <3>2, <3>3, AppendProperties
    <3> HIDE DEF s, high, h, n
    <3>5. \A i \in 1..n :
              value[i] = ((128 * value[i - 1]) % WordSize) + h[i]
      <4>1. \A i \in 1..n : i \in 1..Len(s)
        BY <3>4
      <4> QED
        BY <3>4, <4>1
    <3>6. high \in T /\ high < WordSize
      BY <1>1, <1>2, <3>1
    <3>7. value[n] = high
      BY <3>5, <3>6 DEF h, n
    <3>8. n + 1 \in 1..Len(s) /\ n + 1 - 1 = n
      BY <3>4
    <3>9. value[n + 1] = ((128 * high) % WordSize) + (y % 128)
      BY <3>4, <3>7, <3>8
    <3>10. 128 * high \in Nat /\ 128 * high < WordSize
      BY <1>1, <3>1
    <3>11. (128 * high) % WordSize = 128 * high
      BY <1>1, <3>10, SmallRemainder
    <3> QED
      BY <3>1, <3>4, <3>9, <3>11
  <2> QED
    BY <2>1, <2>2
<1> HIDE DEF T
<1>3. \A y \in Nat : y \in T
  BY <1>2, StrongInduction
<1>4. x \in Nat /\ x < WordSize
  BY <1>1 DEF Words
<1> QED
  BY <1>3, <1>4 DEF T

\* Two sequences, joined, are found again.
LEMMA SplitConcat ==
    ASSUME NEW S, NEW start \in Seq(S), NEW T, NEW rest \in Seq(T)
    PROVE  /\ SubSeq(start \o rest, 1, Len(start)) = start
           /\ SubSeq(start \o rest, Len(start) + 1, Len(start \o rest)) = rest
<1> DEFINE U == S \union T
           both == start \o rest
           n == Len(start)
           m == Len(rest)
<1>1. start \in Seq(U) /\ rest \in Seq(U)
  BY SeqMonotonic
<1> HIDE DEF U
<1>2. n \in Nat /\ m \in Nat
  BY <1>1, LenProperties
<1>3. /\ both \in Seq(U) /\ Len(both) = n + m
      /\ \A i \in 1..(n + m) : both[i] = IF i <= n THEN start[i] ELSE rest[i - n]
  BY <1>1, ConcatProperties
<1> HIDE DEF both, n, m
<1>4. \A i \in 1..(n + m) : both[i] \in U
  BY <1>3
<1>5. SubSeq(both, 1, n) = start
  <2>1. \A i \in 1..n : i \in 1..(n + m) /\ i <= n
    BY <1>2
  <2>2. \A i \in 1..n : both[i] \in U /\ both[i] = start[i]
    BY <1>3, <1>4, <2>1
  <2>3. /\ SubSeq(both, 1, n) \in Seq(U)
        /\ Len(SubSeq(both, 1, n)) = IF 1 <= n THEN n - 1 + 1 ELSE 0
        /\ \A i \in 1..(n - 1 + 1) : SubSeq(both, 1, n)[i] = both[1 + i - 1]
    BY <1>2, <2>2, SubSeqProperties
  <2>4. Len(SubSeq(both, 1, n)) = n
    BY <1>2, <2>3
  <2>5. \A i \in 1..n : SubSeq(both, 1, n)[i] = start[i]
    <3> SUFFICES ASSUME NEW i \in 1..n PROVE SubSeq(both, 1, n)[i] = start[i]
      OBVIOUS
    <3>1. i \in 1..(n - 1 + 1) /\ 1 + i - 1 = i
      BY <1>2
    <3> QED
      BY <2>2, <2>3, <3>1
  <2> QED
    BY <1>1, <2>3, <2>4, <2>5, SeqEqual DEF n
<1>6. SubSeq(both, n + 1, n + m) = rest
  <2> DEFINE r == SubSeq(both, n + 1, n + m)
  <2>1. \A i \in (n + 1)..(n + m) : both[i] \in U
    BY <1>2, <1>4
  <2>2. /\ r \in Seq(U)
        /\ Len(r) = IF n + 1 <= n + m THEN n + m - (n + 1) + 1 ELSE 0
        /\ \A i \in 1..(n + m - (n + 1) + 1) : r[i] = both[n + 1 + i - 1]
    BY <1>2, <2>1, SubSeqProperties
  <2> HIDE DEF r
  <2>3. Len(r) = m
    BY <1>2, <2>2
  <2>4. ASSUME NEW i \in 1..m PROVE r[i] = rest[i]
    <3> DEFINE j == n + i
    <3>1. i \in 1..(n + m - (n + 1) + 1) /\ n + 1 + i - 1 = j
      BY <1>2
    <3>2. j \in 1..(n + m) /\ ~(j <= n) /\ j - n = i
      BY <1>2
    <3> HIDE DEF j
    <3>3. r[i] = both[j]
      BY <2>2, <3>1
    <3>4. both[j] = rest[j - n]
      BY <1>3, <3>2
    <3> QED
      BY <3>2, <3>3, <3>4
  <2> QED
    BY <1>1, <2>2, <2>3, <2>4, SeqEqual DEF m, r
<1> QED
  BY <1>3, <1>5, <1>6 DEF both, n

\* A cursor in a stream of tokens.
Cursors(T, V) == [stream : Seq(T), bits : Nat, values : Seq(V)]

\* A cursor of a stream that starts with this sequence, and the rest of it.
StartsWith(c, start, rest) == c.stream = start \o rest

\* The cursor after it, with one more value.
After(c, rest, value) ==
    [stream |-> rest, bits |-> c.bits, values |-> Append(c.values, value)]

\* The fields of a cursor after some tokens.
LEMMA SkipFields ==
    ASSUME NEW T, NEW V, NEW c \in Cursors(T, V), NEW n
    PROVE  Skip(c, n) = [ stream |-> SubSeq(c.stream, n + 1, Len(c.stream)),
                          bits |-> c.bits, values |-> c.values ]
<1> DEFINE s == SubSeq(c.stream, n + 1, Len(c.stream))
<1>1. Skip(c, n) = [c EXCEPT !.stream = s]
  BY DEF Skip
<1> HIDE DEF s
<1>2. [c EXCEPT !.stream = s] = [stream |-> s, bits |-> c.bits, values |-> c.values]
  BY DEF Cursors
<1> QED
  BY <1>1, <1>2 DEF s

\* The fields of a cursor with one more value.
LEMMA ResultFields ==
    ASSUME NEW T, NEW V, NEW d \in Cursors(T, V), NEW c, NEW value
    PROVE  Result(d, c, value) = [ stream |-> d.stream, bits |-> d.bits,
                                   values |-> Append(c.values, value) ]
<1> DEFINE v == Append(c.values, value)
<1>1. Result(d, c, value) = [d EXCEPT !.values = v]
  BY DEF Result
<1> HIDE DEF v
<1>2. [d EXCEPT !.values = v] = [stream |-> d.stream, bits |-> d.bits, values |-> v]
  BY DEF Cursors
<1> QED
  BY <1>1, <1>2 DEF v

\* A variable-length number, encoded by the clients, is decoded by the
\* contracts as it was, and what follows it is left: VLQ.decode after
\* encodeVLQ, for every number of the word's size.
THEOREM VLQRoundTrip ==
    ASSUME NEW T, NEW V, NEW c \in Cursors(T, V), NEW rest \in Seq(T),
           NEW x \in Words, StartsWith(c, EncodeVLQ(x), rest)
    PROVE  DecodeVLQ(c) = {After(c, rest, x)}
<1> DEFINE e == EncodeVLQ(x)
           n == Len(e)
<1>1. WordSize \in Nat \ {0} /\ x \in Nat
  BY EncodingsAssumption DEF Words
<1>2. /\ e \in Seq(Bytes) /\ n = Len(VLQSegments[x]) /\ n \in Nat \ {0}
      /\ \A i \in 1..n : /\ VLQSegments[x][i] \in Segments
                         /\ e[i].kind = "byte"
                         /\ e[i].value % 128 = VLQSegments[x][i]
                         /\ e[i].value < 128 <=> i = n
  BY <1>1, EncodedVLQ
<1> HIDE DEF e, n
<1>3. c.stream = e \o rest /\ c.stream \in Seq(T)
  BY DEF StartsWith, Cursors, e
<1>4. /\ Len(c.stream) = n + Len(rest) /\ Len(rest) \in Nat
      /\ \A i \in 1..n : c.stream[i] = e[i]
      /\ DOMAIN c.stream = 1..(n + Len(rest))
      /\ \A i \in 1..Len(rest) : c.stream[n + i] = rest[i]
  <2> DEFINE S == T \union Bytes
  <2>1. e \in Seq(S) /\ rest \in Seq(S)
    BY <1>2, SeqMonotonic
  <2> HIDE DEF S
  <2>2. /\ Len(e \o rest) = Len(e) + Len(rest)
        /\ \A i \in 1..(Len(e) + Len(rest)) :
               (e \o rest)[i] = IF i <= Len(e) THEN e[i] ELSE rest[i - Len(e)]
    BY <2>1, ConcatProperties
  <2>3. Len(rest) \in Nat /\ DOMAIN c.stream = 1..Len(c.stream) /\ n = Len(e)
    BY <1>3, LenProperties DEF n
  <2>4. Len(c.stream) = n + Len(rest)
    BY <1>3, <2>2, <2>3
  <2>5. \A i \in 1..n : i \in 1..(n + Len(rest)) /\ i <= n
    BY <1>2, <2>3
  <2>6. \A i \in 1..Len(rest) :
            n + i \in 1..(n + Len(rest)) /\ ~(n + i <= n) /\ n + i - n = i
    BY <1>2, <2>3
  <2>7. \A i \in 1..n : c.stream[i] = e[i]
    BY <1>3, <2>2, <2>3, <2>5
  <2>8. \A i \in 1..Len(rest) : c.stream[n + i] = rest[i]
    BY <1>3, <2>2, <2>3, <2>6
  <2> QED
    BY <2>3, <2>4, <2>7, <2>8
<1>5. VLQEnds(c.stream) = {n}
  <2>1. n \in VLQEnds(c.stream)
    <3>1. n \in DOMAIN c.stream /\ \A j \in 1..n : j \in 1..n
      BY <1>2, <1>4
    <3>2. \A j \in 1..n :
              c.stream[j].kind = "byte" /\ (c.stream[j].value < 128 <=> j = n)
      BY <1>2, <1>4
    <3> QED
      BY <3>1, <3>2 DEF VLQEnds
  <2>2. ASSUME NEW i \in VLQEnds(c.stream) PROVE i = n
    <3>1. /\ i \in 1..(n + Len(rest))
          /\ \A j \in 1..i : (c.stream[j].value < 128 <=> j = i)
      BY <1>4 DEF VLQEnds
    <3>2. CASE i < n
      <4>1. i \in 1..i /\ i \in 1..n /\ i # n
        BY <1>2, <3>1, <3>2
      <4> QED
        BY <1>2, <1>4, <3>1, <4>1
    <3>3. CASE n < i
      <4>1. n \in 1..i /\ n \in 1..n /\ i # n
        BY <1>2, <3>1, <3>3
      <4> QED
        BY <1>2, <1>4, <3>1, <4>1
    <3> QED
      BY <1>2, <3>1, <3>2, <3>3
  <2> QED
    BY <2>1, <2>2
<1>6. SubSeq(c.stream, 1, n) = e
  BY <1>2, <1>3, SplitConcat DEF n
<1>7. SubSeq(c.stream, n + 1, Len(c.stream)) = rest
  <2>1. SubSeq(e \o rest, Len(e) + 1, Len(e \o rest)) = rest
    BY <1>2, SplitConcat
  <2> QED
    BY <1>3, <2>1 DEF n
<1>8. VLQValue(e) = x
  <2>1. PICK value : AccumulatesVLQ(value, e) /\ VLQValue(e) = value[n]
    BY <1>2, VLQValueDef DEF n
  <2>2. /\ value[0] = 0
        /\ \A i \in 1..n :
               value[i] = ((128 * value[i - 1]) % WordSize) + (e[i].value % 128)
    BY <2>1 DEF AccumulatesVLQ, n
  <2>3. \A i \in 1..Len(VLQSegments[x]) :
            value[i] = ((128 * value[i - 1]) % WordSize) + VLQSegments[x][i]
    BY <1>2, <2>2
  <2>4. value[Len(VLQSegments[x])] = x
    BY <2>2, <2>3, SegmentsAddUp
  <2> QED
    BY <1>2, <2>1, <2>4
<1>9. DecodeVLQ(c) = {Result(Skip(c, n), c, x)}
  BY <1>5, <1>6, <1>8 DEF DecodeVLQ
<1>10. Result(Skip(c, n), c, x) = After(c, rest, x)
  <2>1. Skip(c, n) = [stream |-> rest, bits |-> c.bits, values |-> c.values]
    BY <1>7, SkipFields
  <2> DEFINE d == Skip(c, n)
  <2>2. d \in Cursors(T, V) /\ d.stream = rest /\ d.bits = c.bits
    BY <2>1 DEF Cursors
  <2> HIDE DEF d
  <2>3. Result(d, c, x) = [ stream |-> d.stream, bits |-> d.bits,
                            values |-> Append(c.values, x) ]
    BY <2>2, ResultFields
  <2> QED
    BY <2>2, <2>3 DEF After, d
<1> QED
  BY <1>9, <1>10

-----------------------------------------------------------------------------
(* Tokens, ids, pseudo-floats and bits                                      *)

\* The last value is the one that was appended.
LEMMA LastOfAppend ==
    ASSUME NEW V, NEW values \in Seq(V), NEW v
    PROVE  Last(Append(values, v)) = v
<1> DEFINE U == V \union {v}
<1>1. values \in Seq(U) /\ v \in U
  BY SeqMonotonic
<1> HIDE DEF U
<1>2. /\ Len(values) \in Nat
      /\ Len(Append(values, v)) = Len(values) + 1
      /\ Append(values, v)[Len(values) + 1] = v
  BY <1>1, AppendProperties, LenProperties
<1> QED
  BY <1>2 DEF Last

\* The fields of the cursor after a value, which is a cursor again.
LEMMA AfterFields ==
    ASSUME NEW T, NEW V, NEW c \in Cursors(T, V), NEW rest \in Seq(T), NEW v
    PROVE  /\ After(c, rest, v) \in Cursors(T, V \union {v})
           /\ After(c, rest, v).stream = rest
           /\ After(c, rest, v).bits = c.bits
           /\ After(c, rest, v).values = Append(c.values, v)
           /\ Last(After(c, rest, v).values) = v
<1> DEFINE U == V \union {v}
<1>1. c.values \in Seq(V) /\ c.bits \in Nat
  BY DEF Cursors
<1>2. c.values \in Seq(U) /\ v \in U
  BY <1>1, SeqMonotonic
<1> HIDE DEF U
<1>3. Append(c.values, v) \in Seq(U)
  BY <1>2, AppendProperties
<1>4. Last(Append(c.values, v)) = v
  BY <1>1, LastOfAppend
<1>5. After(c, rest, v) \in Cursors(T, U)
  BY <1>1, <1>3 DEF After, Cursors
<1> QED
  BY <1>4, <1>5 DEF After, U

\* The next token, of the kind that is read, gives its value.
LEMMA ReadsToken ==
    ASSUME NEW T, NEW V, NEW c \in Cursors(T, V), NEW rest \in Seq(T),
           NEW kind, NEW value, StartsWith(c, <<Word(kind, value)>>, rest)
    PROVE  Read(c, kind) = {After(c, rest, value)}
<1> DEFINE w == Word(kind, value)
<1>1. <<w>> \in Seq({w}) /\ Len(<<w>>) = 1
  OBVIOUS
<1>2. w.kind = kind /\ w.value = value
  BY DEF Word
<1> HIDE DEF w
<1>3. c.stream = <<w>> \o rest
  BY DEF StartsWith, w
<1>4. SubSeq(<<w>> \o rest, 1, Len(<<w>>)) = <<w>>
  BY <1>1, SplitConcat
<1>5. SubSeq(<<w>> \o rest, Len(<<w>>) + 1, Len(<<w>> \o rest)) = rest
  BY <1>1, SplitConcat
<1>6. Range(SubSeq(c.stream, 1, 1)) = {w}
  <2>1. SubSeq(c.stream, 1, 1) = <<w>>
    BY <1>1, <1>3, <1>4
  <2>2. Range(<<w>>) = {w}
    BY DEF Range
  <2> QED
    BY <2>1, <2>2
<1>7. Read(c, kind) = {Result(Skip(c, 1), c, value)}
  BY <1>2, <1>6 DEF Read
<1> DEFINE d == Skip(c, 1)
<1>8. d = [stream |-> rest, bits |-> c.bits, values |-> c.values]
  BY <1>1, <1>3, <1>5, SkipFields
<1>9. d \in Cursors(T, V) /\ d.stream = rest /\ d.bits = c.bits
  BY <1>8 DEF Cursors
<1> HIDE DEF d
<1>10. Result(d, c, value) = After(c, rest, value)
  BY <1>9, ResultFields DEF After
<1> QED
  BY <1>7, <1>10 DEF d

\* An id is its high part and its last two bytes.
LEMMA SplitId ==
    ASSUME NEW x \in Nat
    PROVE  /\ x \div 65536 \in Nat
           /\ x \div 256 \in Nat
           /\ (x \div 256) % 256 \in 0..255
           /\ x % 256 \in 0..255
           /\ x = (65536 * (x \div 65536) + 256 * ((x \div 256) % 256)) + (x % 256)
           /\ x \div 65536 <= x
<1>1. x \div 65536 \in Nat /\ x \div 256 \in Nat
  OBVIOUS
<1>2. (x \div 256) % 256 \in 0..255 /\ x % 256 \in 0..255
  BY <1>1
<1>3. x = 256 * (x \div 256) + (x % 256)
  OBVIOUS
<1>4. x \div 256 = 256 * ((x \div 256) \div 256) + ((x \div 256) % 256)
  BY <1>1
<1>5. (x \div 256) \div 256 = x \div 65536
  OBVIOUS
<1>6. x = (65536 * (x \div 65536) + 256 * ((x \div 256) % 256)) + (x % 256)
  BY <1>1, <1>2, <1>3, <1>4, <1>5
<1> QED
  BY <1>1, <1>2, <1>6

\* The id of a registered key or address, encoded by the clients, is decoded
\* by the contracts as it was: RegIndex.decode after encodeRegIndex, for every
\* id of the word's size.
THEOREM RegIndexRoundTrip ==
    ASSUME NEW T, NEW V, NEW c \in Cursors(T, V), NEW rest \in Seq(T),
           NEW x \in Words, StartsWith(c, EncodeRegIndex(x), rest)
    PROVE  DecodeRegIndex(c) = {After(c, rest, x)}
<1> DEFINE high == x \div 65536
           b1 == Byte((x \div 256) % 256)
           b2 == Byte(x % 256)
           two == <<b1, b2>>
           e == EncodeVLQ(high)
           S == T \union Bytes
<1>1. WordSize \in Nat \ {0} /\ x \in Nat /\ x < WordSize
  BY EncodingsAssumption DEF Words
<1>2. /\ high \in Nat /\ high \in Words /\ 65536 * high \in Nat
      /\ 65536 * high < WordSize
      /\ x = (65536 * high + 256 * ((x \div 256) % 256)) + (x % 256)
      /\ (x \div 256) % 256 \in 0..255 /\ x % 256 \in 0..255
  <2>1. /\ high \in Nat /\ high <= x
        /\ x = (65536 * high + 256 * ((x \div 256) % 256)) + (x % 256)
        /\ (x \div 256) % 256 \in 0..255 /\ x % 256 \in 0..255
    BY <1>1, SplitId
  <2> HIDE DEF high
  <2>2. high \in Words /\ 65536 * high \in Nat
    BY <1>1, <2>1 DEF Words
  <2>3. 65536 * high <= x
    BY <1>1, <2>1
  <2> QED
    BY <1>1, <2>1, <2>2, <2>3
<1>3. /\ b1 \in Bytes /\ b1.kind = "byte" /\ b1.value = (x \div 256) % 256
      /\ b2 \in Bytes /\ b2.kind = "byte" /\ b2.value = x % 256
  BY <1>2 DEF Byte, Bytes
<1>4. two \in Seq(Bytes) /\ Len(two) = 2 /\ two[1] = b1 /\ two[2] = b2
  BY <1>3
<1>5. e \in Seq(Bytes)
  BY <1>2, EncodedVLQ
<1>6. e \in Seq(S) /\ two \in Seq(S) /\ rest \in Seq(S) /\ c \in Cursors(S, V)
  <2>1. c.stream \in Seq(S)
    BY SeqMonotonic DEF Cursors
  <2>2. c = [stream |-> c.stream, bits |-> c.bits, values |-> c.values]
    BY DEF Cursors
  <2>3. c.bits \in Nat /\ c.values \in Seq(V)
    BY DEF Cursors
  <2>4. c \in Cursors(S, V)
    <3> HIDE DEF S
    <3> QED
      BY <2>1, <2>2, <2>3 DEF Cursors
  <2> QED
    BY <1>4, <1>5, <2>4, SeqMonotonic
<1> HIDE DEF S, high, b1, b2, e
<1> HIDE DEF two
<1>7. two \o rest \in Seq(S)
  BY <1>6, ConcatProperties
<1>8. StartsWith(c, e, two \o rest)
  <2>1. c.stream = (e \o two) \o rest
    BY DEF StartsWith, EncodeRegIndex, e, high, b1, b2, two
  <2>2. (e \o two) \o rest = e \o (two \o rest)
    BY <1>6, ConcatAssociative
  <2> QED
    BY <2>1, <2>2 DEF StartsWith
<1> DEFINE left == two \o rest
           h == After(c, left, high)
<1> HIDE DEF left
<1>9. DecodeVLQ(c) = {h}
  <2>1. left \in Seq(S) /\ StartsWith(c, EncodeVLQ(high), left)
    BY <1>7, <1>8 DEF left, e
  <2> QED
    BY <1>2, <1>6, <2>1, VLQRoundTrip
<1>10. /\ h \in Cursors(S, V \union {high}) /\ h.stream = two \o rest
       /\ h.bits = c.bits /\ Last(h.values) = high
  <2>1. left \in Seq(S)
    BY <1>7 DEF left
  <2>2. /\ h \in Cursors(S, V \union {high}) /\ h.stream = left
        /\ h.bits = c.bits /\ Last(h.values) = high
    BY <1>6, <2>1, AfterFields
  <2> QED
    BY <2>2 DEF left
<1> HIDE DEF h
<1>11. /\ Len(h.stream) >= 2
       /\ h.stream[1] = b1 /\ h.stream[2] = b2
  <2>1. /\ Len(two \o rest) = Len(two) + Len(rest)
        /\ \A i \in 1..(Len(two) + Len(rest)) :
               (two \o rest)[i] = IF i <= Len(two) THEN two[i] ELSE rest[i - Len(two)]
    BY <1>6, ConcatProperties
  <2>2. Len(rest) \in Nat
    BY LenProperties
  <2>3. 1 \in 1..(Len(two) + Len(rest)) /\ 2 \in 1..(Len(two) + Len(rest))
    BY <1>4, <2>2
  <2> QED
    BY <1>4, <1>10, <2>1, <2>2, <2>3
<1>12. TwoBytes(h.stream)
  BY <1>3, <1>11 DEF TwoBytes
<1>13. ((65536 * Last(h.values)) % WordSize)
           + 256 * h.stream[1].value + h.stream[2].value = x
  <2>1. (65536 * high) % WordSize = 65536 * high
    <3> DEFINE n == 65536 * high
    <3>1. n \in Nat /\ WordSize \in Nat /\ n < WordSize
      BY <1>1, <1>2
    <3> HIDE DEF n
    <3>2. n % WordSize = n
      BY <3>1, SmallRemainder
    <3> QED
      BY <3>2 DEF n
  <2>2. /\ h.stream[1].value = (x \div 256) % 256
        /\ h.stream[2].value = x % 256
    BY <1>3, <1>11
  <2> QED
    BY <1>2, <1>10, <2>1, <2>2
<1>14. DecodeRegIndex(c) = {Result(Skip(h, 2), c, x)}
  BY <1>9, <1>12, <1>13 DEF DecodeRegIndex
<1> DEFINE d == Skip(h, 2)
<1>15. d = [stream |-> rest, bits |-> c.bits, values |-> h.values]
  <2>1. SubSeq(two \o rest, Len(two) + 1, Len(two \o rest)) = rest
    BY <1>4, SplitConcat
  <2>2. SubSeq(h.stream, 2 + 1, Len(h.stream)) = rest
    BY <1>4, <1>10, <2>1
  <2> QED
    BY <1>10, <2>2, SkipFields
<1>16. d \in Cursors(S, V \union {high}) /\ d.stream = rest /\ d.bits = c.bits
  BY <1>6, <1>10, <1>15 DEF Cursors
<1> HIDE DEF d
<1>17. Result(d, c, x) = After(c, rest, x)
  BY <1>16, ResultFields DEF After
<1> QED
  BY <1>14, <1>17 DEF d

\* Of x > 0, some exponent is the one that PseudoFloatParts chooses.
LEMMA ExponentExists ==
    ASSUME NEW x \in Nat
    PROVE  \E e \in 0..MaxExponent :
               /\ x % Power10[e] = 0
               /\ e = MaxExponent \/ x % Power10[e + 1] # 0
<1> SUFFICES ASSUME \A e \in 0..MaxExponent :
                        x % Power10[e] = 0 =>
                            e # MaxExponent /\ x % Power10[e + 1] = 0
             PROVE  FALSE
  OBVIOUS
<1> DEFINE T == {e \in Nat : e <= MaxExponent => x % Power10[e] = 0}
<1>1. MaxExponent \in Nat
  BY EncodingsAssumption
<1>2. ASSUME NEW e \in Nat, \A m \in Nat : m < e => m \in T
      PROVE  e \in T
  <2> SUFFICES ASSUME e <= MaxExponent PROVE x % Power10[e] = 0
    OBVIOUS
  <2>1. CASE e = 0
    <3>1. Power10[e] = 1
      BY <2>1, Power10Def
    <3> QED
      BY <3>1
  <2>2. CASE e # 0
    <3> DEFINE d == e - 1
    <3>1. d \in Nat /\ d < e /\ d \in 0..MaxExponent /\ d <= MaxExponent /\ d + 1 = e
      BY <1>1, <2>2
    <3>2. d \in T
      BY <1>2, <3>1
    <3> HIDE DEF d
    <3> QED
      BY <3>1, <3>2
  <2> QED
    BY <2>1, <2>2
<1> HIDE DEF T
<1>3. MaxExponent \in T
  BY <1>1, <1>2, StrongInduction
<1> QED
  BY <1>1, <1>3 DEF T

\* The mantissa and the power of the exponent multiply to the number.
LEMMA PartsMultiply ==
    ASSUME NEW x \in Words, x # 0,
           NEW e, e = PseudoFloatParts(x)[1], NEW m, m = PseudoFloatParts(x)[2]
    PROVE  /\ e \in 0..MaxExponent /\ m \in Nat
           /\ m * Power10[e] = x
           /\ m <= x
           /\ ~(m > (WordSize - 1) \div Power10[e])
<1>1. x \in Nat /\ x < WordSize /\ WordSize \in Nat
  BY EncodingsAssumption DEF Words
<1>2. e \in 0..MaxExponent /\ x % Power10[e] = 0 /\ m = x \div Power10[e]
  <2> DEFINE Chosen(f) == /\ x % Power10[f] = 0
                          /\ f = MaxExponent \/ x % Power10[f + 1] # 0
             exponent == CHOOSE f \in 0..MaxExponent : Chosen(f)
  <2>1. exponent \in 0..MaxExponent /\ Chosen(exponent)
    <3>1. \E f \in 0..MaxExponent : Chosen(f)
      BY <1>1, ExponentExists
    <3> HIDE DEF Chosen
    <3> QED
      BY <3>1
  <2>2. PseudoFloatParts(x) = <<exponent, x \div Power10[exponent]>>
    BY DEF PseudoFloatParts
  <2> HIDE DEF exponent
  <2>3. e = exponent /\ m = x \div Power10[exponent]
    BY <2>2
  <2> QED
    BY <2>1, <2>3
<1> DEFINE p == Power10[e]
<1>3. p \in Nat \ {0}
  BY <1>2, EncodingsAssumption, Power10Def
<1> HIDE DEF p
<1>4. x % p = 0 /\ m = x \div p
  BY <1>2 DEF p
<1>5. x = m * p /\ m \in Nat
  BY <1>1, <1>3, <1>4
<1>6. m <= x
  BY <1>3, <1>5
<1>7. ~(m > (WordSize - 1) \div p)
  <2> DEFINE w == WordSize - 1
             q == w \div p
  <2>1. w \in Nat /\ x <= w
    BY <1>1
  <2> HIDE DEF w
  <2>2. q \in Nat /\ w < q * p + p
    BY <1>3, <2>1
  <2> HIDE DEF q
  <2>3. SUFFICES ASSUME m > q PROVE FALSE
    BY DEF q, w
  <2>4. m * p >= q * p + p
    BY <1>3, <1>5, <2>2, <2>3
  <2> QED
    BY <1>3, <1>5, <2>1, <2>2, <2>4
<1> QED
  BY <1>2, <1>5, <1>6, <1>7 DEF p

\* A number as an exponent and a mantissa, encoded by the clients, is decoded
\* by the contracts as it was: PseudoFloat.decode after encodePseudoFloat, for
\* every number of the word's size.
THEOREM PseudoFloatRoundTrip ==
    ASSUME NEW T, NEW V, NEW c \in Cursors(T, V), NEW rest \in Seq(T),
           NEW x \in Words, StartsWith(c, EncodePseudoFloat(x), rest)
    PROVE  DecodePseudoFloat(c) = {After(c, rest, x)}
<1>1. /\ WordSize \in Nat \ {0} /\ MaxExponent \in Nat /\ MaxExponent <= 30
      /\ x \in Nat /\ x < WordSize
  BY EncodingsAssumption DEF Words
<1>2. CASE x = 0
  <2>1. StartsWith(c, <<Word("byte", 0)>>, rest)
    BY <1>2 DEF StartsWith, EncodePseudoFloat, Byte, Word
  <2>2. Read(c, "byte") = {After(c, rest, 0)}
    BY <2>1, ReadsToken
  <2>3. Last(After(c, rest, 0).values) = 0
    <3>1. c.values \in Seq(V)
      BY DEF Cursors
    <3>2. Last(Append(c.values, 0)) = 0
      BY <3>1, LastOfAppend
    <3> QED
      BY <3>2 DEF After
  <2> QED
    BY <1>2, <2>2, <2>3 DEF DecodePseudoFloat
<1>3. CASE x # 0
  <2> DEFINE e == PseudoFloatParts(x)[1]
             m == PseudoFloatParts(x)[2]
             high == m \div 8
             byte == 8 * (e + 1) + (m % 8)
             code == EncodeVLQ(high)
             S == T \union Bytes
  <2>1. EncodePseudoFloat(x) = <<Byte(byte)>> \o code
    BY <1>3 DEF EncodePseudoFloat
  <2>2. /\ e \in 0..MaxExponent /\ m \in Nat /\ m * Power10[e] = x /\ m <= x
        /\ ~(m > (WordSize - 1) \div Power10[e])
    <3> HIDE DEF e, m
    <3> QED
      BY <1>3, PartsMultiply DEF e, m
  <2> HIDE DEF e, m
  <2>3. /\ high \in Nat /\ m % 8 \in 0..7 /\ m = 8 * high + (m % 8)
    BY <2>2
  <2> HIDE DEF high
  <2>4. high \in Words /\ 8 * high \in Nat /\ 8 * high < WordSize
    BY <1>1, <2>2, <2>3 DEF Words
  <2>5. byte \in 8..255 /\ byte \div 8 - 1 = e /\ byte % 8 = m % 8
    BY <1>1, <2>2, <2>3
  <2> HIDE DEF byte
  <2>6. code \in Seq(Bytes)
    BY <2>3, EncodedVLQ
  <2>7. Byte(byte) \in Bytes /\ Byte(byte) = Word("byte", byte)
    BY <2>5 DEF Byte, Bytes, Word
  <2>8. /\ code \in Seq(S) /\ rest \in Seq(S) /\ <<Byte(byte)>> \in Seq(S)
        /\ c \in Cursors(S, V)
    <3>1. c.stream \in Seq(S)
      BY SeqMonotonic DEF Cursors
    <3>2. /\ c = [stream |-> c.stream, bits |-> c.bits, values |-> c.values]
          /\ c.bits \in Nat /\ c.values \in Seq(V)
      BY DEF Cursors
    <3>3. c \in Cursors(S, V)
      <4> HIDE DEF S
      <4> QED
        BY <3>1, <3>2 DEF Cursors
    <3>4. Byte(byte) \in S
      BY <2>7
    <3> QED
      BY <2>6, <3>3, <3>4, SeqMonotonic
  <2> DEFINE left == code \o rest
             first == After(c, left, byte)
             value == After(first, rest, high)
  <2> HIDE DEF S, code
  <2>9. left \in Seq(S)
    BY <2>8, ConcatProperties
  <2>10. StartsWith(c, <<Word("byte", byte)>>, left)
    <3>1. (<<Byte(byte)>> \o code) \o rest = <<Byte(byte)>> \o left
      BY <2>8, ConcatAssociative
    <3> QED
      BY <2>1, <2>7, <3>1 DEF StartsWith
  <2>11. left = EncodeVLQ(high) \o rest
    BY DEF code
  <2> HIDE DEF left
  <2>12. Read(c, "byte") = {first}
    BY <2>8, <2>9, <2>10, ReadsToken
  <2>13. /\ first \in Cursors(S, V \union {byte}) /\ first.stream = left
         /\ first.bits = c.bits /\ Last(first.values) = byte
    BY <2>8, <2>9, AfterFields
  <2> HIDE DEF first
  <2>14. StartsWith(first, EncodeVLQ(high), rest)
    BY <2>11, <2>13 DEF StartsWith
  <2>15. DecodeVLQ(first) = {value}
    BY <2>4, <2>8, <2>13, <2>14, VLQRoundTrip
  <2>16. /\ value \in Cursors(S, (V \union {byte}) \union {high})
         /\ value.stream = rest /\ value.bits = c.bits /\ Last(value.values) = high
    BY <2>8, <2>13, AfterFields
  <2> HIDE DEF value
  <2>17. PseudoFloatValues(byte, high) = {x}
    <3>1. (8 * high) % WordSize = 8 * high
      <4> DEFINE n == 8 * high
      <4>1. n \in Nat /\ WordSize \in Nat /\ n < WordSize
        BY <1>1, <2>4
      <4> HIDE DEF n
      <4>2. n % WordSize = n
        BY <4>1, SmallRemainder
      <4> QED
        BY <4>2 DEF n
    <3>2. ((8 * high) % WordSize) + (byte % 8) = m
      BY <2>3, <2>5, <3>1
    <3>3. ~(byte < 8)
      BY <2>5
    <3> QED
      BY <2>2, <2>5, <3>2, <3>3 DEF PseudoFloatValues
  <2>18. Last(first.values) # 0
    BY <2>5, <2>13
  <2>19. DecodePseudoFloat(c) = {Result(value, c, x)}
    BY <2>12, <2>13, <2>15, <2>16, <2>17, <2>18 DEF DecodePseudoFloat
  <2>20. Result(value, c, x) = After(c, rest, x)
    BY <2>16, ResultFields DEF After
  <2> QED
    BY <2>19, <2>20
<1> QED
  BY <1>2, <1>3

\* last[k] is the number of the last k bits.
NumbersOfLast(last, bits) ==
    /\ last \in [0..Len(bits) -> Nat]
    /\ last[0] = 0
    /\ \A k \in 1..Len(bits) :
           last[k] = 2 * last[k - 1] + (IF bits[Len(bits) - k + 1] THEN 1 ELSE 0)

\* The number of some bits, from the last of them on.
LEMMA BitStreamNumberDef ==
    ASSUME NEW bits \in Seq(BOOLEAN)
    PROVE  \E last : NumbersOfLast(last, bits) /\ BitStreamNumber(bits) = last[Len(bits)]
<1> DEFINE n == Len(bits)
           bit == [k \in Nat |-> IF bits[n - k + 1] THEN 1 ELSE 0]
           V == Nat
           B == {0}
           b == [k \in Nat |-> 0]
           p == [k \in Nat |-> k - 1]
           g == [kv \in Nat \X V |-> 2 * kv[2] + bit[kv[1]]]
<1>1. n \in Nat
  BY LenProperties
<1>2. \A k \in Nat : bit[k] \in 0..1 /\ bit[k] \in Nat
  OBVIOUS
<1>3. \A k \in Nat : bit[k] = IF bits[n - k + 1] THEN 1 ELSE 0
  OBVIOUS
<1> HIDE DEF bit
<1>4. WellFounded(V, B, b, p, g)
  <2>1. b \in [Nat -> V]
    OBVIOUS
  <2>2. \A k \in Nat \ B : p[k] \in Nat /\ p[k] < k
    OBVIOUS
  <2>3. \A kv \in Nat \X V : g[kv] \in V
    BY <1>2
  <2>4. g \in [Nat \X V -> V]
    <3>1. g = [kv \in Nat \X V |-> g[kv]]
      OBVIOUS
    <3> HIDE DEF g
    <3> QED
      BY <2>3, <3>1
  <2> HIDE DEF V, B, b, p, g
  <2> QED
    BY <2>1, <2>2, <2>4 DEF WellFounded
<1> HIDE DEF V, B, b, p, g
<1>5. PICK f : RecursiveOnNat(f, V, B, b, p, g)
  BY <1>4, RecursionExists
<1>6. \A k \in Nat : f[k] \in Nat
  BY <1>5 DEF RecursiveOnNat, V
<1>7. f[0] = 0
  <2>1. 0 \in B /\ b[0] = 0
    BY DEF B, b
  <2> QED
    BY <1>5, <2>1 DEF RecursiveOnNat
<1>8. ASSUME NEW k \in 1..n
      PROVE  f[k] = 2 * f[k - 1] + bit[k]
  <2>1. k \in Nat /\ k - 1 \in Nat /\ k \notin B /\ p[k] = k - 1
    BY <1>1 DEF B, p
  <2>2. f[k] = g[<<k, f[k - 1]>>]
    BY <1>5, <2>1 DEF RecursiveOnNat
  <2>3. <<k, f[k - 1]>> \in Nat \X V
    BY <1>6, <2>1 DEF V
  <2> QED
    BY <2>2, <2>3 DEF g
<1> DEFINE Fits(h) == h = [k \in 0..n |->
                IF k = 0 THEN 0
                ELSE 2 * h[k - 1] + (IF bits[n - k + 1] THEN 1 ELSE 0)]
           h == [k \in 0..n |-> f[k]]
<1>9. Fits(h)
  <2>1. ASSUME NEW k \in 0..n
        PROVE  h[k] = IF k = 0 THEN 0
                      ELSE 2 * h[k - 1] + (IF bits[n - k + 1] THEN 1 ELSE 0)
    <3>1. CASE k = 0
      BY <1>7, <3>1
    <3>2. CASE k # 0
      <4>1. k \in 1..n /\ k - 1 \in 0..n /\ k \in Nat
        BY <1>1, <3>2
      <4>2. h[k] = f[k] /\ h[k - 1] = f[k - 1]
        BY <4>1
      <4> HIDE DEF h
      <4> QED
        BY <1>3, <1>8, <3>2, <4>1, <4>2
    <3> QED
      BY <3>1, <3>2
  <2>2. h = [k \in 0..n |-> h[k]]
    OBVIOUS
  <2> HIDE DEF h
  <2> QED
    BY <2>1, <2>2
<1> DEFINE last == CHOOSE u : Fits(u)
<1>10. BitStreamNumber(bits) = last[n]
  BY DEF BitStreamNumber
<1>11. Fits(last)
  <2> HIDE DEF Fits, h
  <2> QED
    BY <1>9
<1> HIDE DEF last
<1>12. \A k \in 0..n :
          last[k] = IF k = 0 THEN 0
                    ELSE 2 * last[k - 1] + (IF bits[n - k + 1] THEN 1 ELSE 0)
  BY <1>11
<1>13. \A k \in 0..n : last[k] \in Nat
  <2> DEFINE T == {k \in Nat : k <= n => last[k] \in Nat}
  <2>1. ASSUME NEW k \in Nat, \A m \in Nat : m < k => m \in T
        PROVE  k \in T
    <3> SUFFICES ASSUME k <= n PROVE last[k] \in Nat
      OBVIOUS
    <3>1. CASE k = 0
      BY <1>1, <1>12, <3>1
    <3>2. CASE k # 0
      <4>1. k \in 0..n /\ k - 1 \in Nat /\ k - 1 < k /\ k - 1 <= n
        BY <1>1, <3>2
      <4>2. last[k - 1] \in Nat
        BY <2>1, <4>1
      <4>3. last[k] = 2 * last[k - 1] + (IF bits[n - k + 1] THEN 1 ELSE 0)
        BY <1>12, <3>2, <4>1
      <4> QED
        BY <4>2, <4>3
    <3> QED
      BY <3>1, <3>2
  <2> HIDE DEF T
  <2>2. \A k \in Nat : k \in T
    BY <2>1, StrongInduction
  <2> QED
    BY <1>1, <2>2 DEF T
<1>14. last \in [0..n -> Nat]
  <2>1. last = [k \in 0..n |-> last[k]]
    <3>1. DOMAIN last = 0..n
      BY <1>11
    <3> QED
      BY <1>11, <1>12
  <2> QED
    BY <1>13, <2>1
<1>15. \A k \in 1..n : last[k] = 2 * last[k - 1] + (IF bits[n - k + 1] THEN 1 ELSE 0)
  BY <1>1, <1>12
<1>16. last[0] = 0
  BY <1>1, <1>12
<1> QED
  BY <1>10, <1>14, <1>15, <1>16 DEF NumbersOfLast

\* It is a natural number.
LEMMA BitStreamNumberType ==
    ASSUME NEW bits \in Seq(BOOLEAN)
    PROVE  BitStreamNumber(bits) \in Nat
<1>1. PICK last : NumbersOfLast(last, bits) /\ BitStreamNumber(bits) = last[Len(bits)]
  BY BitStreamNumberDef
<1>2. Len(bits) \in 0..Len(bits)
  BY LenProperties
<1> QED
  BY <1>1, <1>2 DEF NumbersOfLast

\* The lowest bit of the number is the first of the bits, and half of it is the
\* number of the others.
LEMMA FirstBitIsLowest ==
    ASSUME NEW bits \in Seq(BOOLEAN), NEW bit \in BOOLEAN
    PROVE  /\ BitStreamNumber(<<bit>> \o bits) % 2 = (IF bit THEN 1 ELSE 0)
           /\ BitStreamNumber(<<bit>> \o bits) \div 2 = BitStreamNumber(bits)
<1> DEFINE all == <<bit>> \o bits
           n == Len(bits)
<1>1. <<bit>> \in Seq(BOOLEAN) /\ Len(<<bit>>) = 1 /\ <<bit>>[1] = bit /\ n \in Nat
  BY LenProperties
<1>2. /\ all \in Seq(BOOLEAN) /\ Len(all) = 1 + n
      /\ \A i \in 1..(1 + n) : all[i] = IF i <= 1 THEN <<bit>>[i] ELSE bits[i - 1]
  BY <1>1, ConcatProperties
<1> HIDE DEF all, n
<1>3. all[1] = bit
  <2>1. 1 \in 1..(1 + n)
    BY <1>1
  <2> QED
    BY <1>1, <1>2, <2>1
<1>4. PICK f : NumbersOfLast(f, bits) /\ BitStreamNumber(bits) = f[n]
  BY BitStreamNumberDef DEF n
<1>5. PICK h : NumbersOfLast(h, all) /\ BitStreamNumber(all) = h[1 + n]
  BY <1>2, BitStreamNumberDef
<1>6. /\ f[0] = 0 /\ \A k \in 0..n : f[k] \in Nat
      /\ \A k \in 1..n : f[k] = 2 * f[k - 1] + (IF bits[n - k + 1] THEN 1 ELSE 0)
  BY <1>4 DEF NumbersOfLast, n
<1>7. /\ h[0] = 0 /\ \A k \in 0..(1 + n) : h[k] \in Nat
      /\ \A k \in 1..(1 + n) :
             h[k] = 2 * h[k - 1] + (IF all[1 + n - k + 1] THEN 1 ELSE 0)
  <2> DEFINE m == Len(all)
  <2>1. m = 1 + n
    BY <1>2
  <2>2. /\ h[0] = 0 /\ h \in [0..m -> Nat]
        /\ \A k \in 1..m :
               h[k] = 2 * h[k - 1] + (IF all[m - k + 1] THEN 1 ELSE 0)
    BY <1>5 DEF NumbersOfLast
  <2> HIDE DEF m
  <2>3. ASSUME NEW k \in 1..(1 + n)
        PROVE  h[k] = 2 * h[k - 1] + (IF all[1 + n - k + 1] THEN 1 ELSE 0)
    <3>1. k \in 1..m /\ m - k + 1 = 1 + n - k + 1
      BY <1>1, <2>1
    <3> QED
      BY <2>2, <3>1
  <2> QED
    BY <2>1, <2>2, <2>3
<1> DEFINE T == {k \in Nat : k <= n => h[k] = f[k]}
<1>8. ASSUME NEW k \in Nat, \A m \in Nat : m < k => m \in T
      PROVE  k \in T
  <2> SUFFICES ASSUME k <= n PROVE h[k] = f[k]
    OBVIOUS
  <2>1. CASE k = 0
    BY <1>6, <1>7, <2>1
  <2>2. CASE k # 0
    <3> DEFINE i == 1 + n - k + 1
               j == n - k + 1
    <3>1. /\ k \in 1..n /\ k \in 1..(1 + n) /\ k - 1 \in Nat /\ k - 1 < k /\ k - 1 <= n
          /\ i \in 1..(1 + n) /\ ~(i <= 1) /\ i - 1 = j
      BY <1>1, <2>2
    <3>2. h[k - 1] = f[k - 1]
      BY <1>8, <3>1
    <3>3. h[k] = 2 * h[k - 1] + (IF all[i] THEN 1 ELSE 0)
      BY <1>7, <3>1
    <3>4. f[k] = 2 * f[k - 1] + (IF bits[j] THEN 1 ELSE 0)
      BY <1>6, <3>1
    <3> HIDE DEF i, j
    <3>5. all[i] = bits[j]
      BY <1>2, <3>1
    <3> QED
      BY <3>2, <3>3, <3>4, <3>5
  <2> QED
    BY <2>1, <2>2
<1> HIDE DEF T
<1>9. h[n] = f[n] /\ f[n] \in Nat
  <2>1. n \in T
    BY <1>1, <1>8, StrongInduction
  <2> QED
    BY <1>1, <1>6, <2>1 DEF T
<1>10. h[1 + n] = 2 * f[n] + (IF bit THEN 1 ELSE 0)
  <2> DEFINE k == 1 + n
  <2>1. k \in 1..(1 + n) /\ k - 1 = n /\ 1 + n - k + 1 = 1
    BY <1>1
  <2> HIDE DEF k
  <2>2. h[k] = 2 * h[k - 1] + (IF all[1 + n - k + 1] THEN 1 ELSE 0)
    BY <1>7, <2>1
  <2>3. h[k] = 2 * f[n] + (IF bit THEN 1 ELSE 0)
    BY <1>3, <1>9, <2>1, <2>2
  <2> QED
    BY <2>3 DEF k
<1> DEFINE low == IF bit THEN 1 ELSE 0
           half == f[n]
<1>11. low \in 0..1 /\ half \in Nat
  BY <1>9
<1>12. h[1 + n] = 2 * half + low
  BY <1>10
<1> HIDE DEF low, half
<1>13. (2 * half + low) % 2 = low /\ (2 * half + low) \div 2 = half
  BY <1>11
<1> QED
  BY <1>4, <1>5, <1>12, <1>13 DEF all, low, half

\* The bits of an operation, encoded by the clients as one number, are decoded
\* by the contracts as that number.
LEMMA BitStreamDecoded ==
    ASSUME NEW T, NEW V, NEW c \in Cursors(T, V), NEW rest \in Seq(T),
           NEW bits \in Seq(BOOLEAN), BitStreamNumber(bits) \in Words,
           StartsWith(c, EncodeBitStream(bits), rest)
    PROVE  DecodeBits(c) = {[ stream |-> rest, bits |-> BitStreamNumber(bits),
                              values |-> c.values ]}
<1> DEFINE x == BitStreamNumber(bits)
           d == After(c, rest, x)
<1>1. x \in Words /\ StartsWith(c, EncodeVLQ(x), rest)
  BY DEF EncodeBitStream
<1> HIDE DEF x
<1>2. DecodeVLQ(c) = {d}
  BY <1>1, VLQRoundTrip
<1>3. /\ d \in Cursors(T, V \union {x}) /\ d.stream = rest
      /\ d.bits = c.bits /\ Last(d.values) = x
  BY AfterFields
<1> HIDE DEF d
<1>4. DecodeBits(c) = {[d EXCEPT !.bits = x, !.values = c.values]}
  BY <1>2, <1>3 DEF DecodeBits
<1>5. [d EXCEPT !.bits = x, !.values = c.values]
          = [stream |-> rest, bits |-> x, values |-> c.values]
  <2>1. d = [stream |-> rest, bits |-> c.bits, values |-> Append(c.values, x)]
    BY DEF d, After
  <2> DEFINE a == Append(c.values, x)
             b == c.bits
             v == c.values
  <2>2. d = [stream |-> rest, bits |-> b, values |-> a]
    BY <2>1
  <2> HIDE DEF a, b, v
  <2>3. [d EXCEPT !.bits = x, !.values = v]
            = [stream |-> rest, bits |-> x, values |-> v]
    <3> DEFINE fields == {"stream", "bits", "values"}
               e == [d EXCEPT !.bits = x, !.values = v]
    <3>1. e = [f \in fields |-> e[f]]
      BY <2>2
    <3>2. e["stream"] = rest /\ e["bits"] = x /\ e["values"] = v
      BY <2>2
    <3> HIDE DEF e
    <3>3. e = [stream |-> rest, bits |-> x, values |-> v]
      BY <3>1, <3>2
    <3> QED
      BY <3>3 DEF e
  <2> QED
    BY <2>3 DEF v
<1> QED
  BY <1>4, <1>5 DEF x

\* A bit that is read next, and the cursor after it.
LEMMA NextBitFields ==
    ASSUME NEW T, NEW V, NEW c \in Cursors(T, V), NEW bits \in Seq(BOOLEAN),
           NEW bit \in BOOLEAN, c.bits = BitStreamNumber(<<bit>> \o bits)
    PROVE  /\ c.bits % 2 = (IF bit THEN 1 ELSE 0)
           /\ NextBit(c) \in Cursors(T, V)
           /\ NextBit(c) = [ stream |-> c.stream, bits |-> BitStreamNumber(bits),
                             values |-> c.values ]
<1> DEFINE x == BitStreamNumber(bits)
<1>1. c.bits % 2 = (IF bit THEN 1 ELSE 0) /\ c.bits \div 2 = x
  BY FirstBitIsLowest
<1>2. x \in Nat
  BY BitStreamNumberType
<1> HIDE DEF x
<1>3. NextBit(c) = [c EXCEPT !.bits = x]
  BY <1>1 DEF NextBit
<1>4. [c EXCEPT !.bits = x] = [stream |-> c.stream, bits |-> x, values |-> c.values]
  BY DEF Cursors
<1>5. NextBit(c) \in Cursors(T, V)
  BY <1>2, <1>3, <1>4 DEF Cursors
<1> QED
  BY <1>1, <1>3, <1>4, <1>5 DEF x

BitValue(bit) == IF bit THEN 1 ELSE 0

\* The cursor c after the bit stream and its first n bits were read.
BitsRead(c, rest, bits, n) ==
    [ stream |-> rest, bits |-> BitStreamNumber(SubSeq(bits, n + 1, Len(bits))),
      values |-> c.values \o [i \in 1..n |-> BitValue(bits[i])] ]

\* The bits that are left are one bit and those left after it.
LEMMA BitsLeft ==
    ASSUME NEW bits \in Seq(BOOLEAN), NEW n \in 1..Len(bits)
    PROVE  /\ bits[n] \in BOOLEAN
           /\ SubSeq(bits, n + 1, Len(bits)) \in Seq(BOOLEAN)
           /\ SubSeq(bits, n, Len(bits)) = <<bits[n]>> \o SubSeq(bits, n + 1, Len(bits))
<1> DEFINE N == Len(bits)
<1>1. N \in Nat /\ \A i \in 1..N : bits[i] \in BOOLEAN
  BY LenProperties
<1>2. bits[n] \in BOOLEAN
  BY <1>1
<1>3. N \in n..N /\ n + 1 \in Int /\ N \in Int
  BY <1>1
<1> HIDE DEF N
<1>4. SubSeq(bits, n + 1, N) \in Seq(BOOLEAN)
  <2>1. \A i \in n + 1..N : bits[i] \in BOOLEAN
    BY <1>1
  <2> QED
    BY <1>3, <2>1, SubSeqProperties
<1>5. SubSeq(bits, n, N) = <<bits[n]>> \o SubSeq(bits, n + 1, N)
  BY <1>3, SubSeqRecursiveFirst DEF N
<1> QED
  BY <1>2, <1>4, <1>5 DEF N

\* The values of one more bit.
LEMMA BitValuesGrow ==
    ASSUME NEW V, NEW values \in Seq(V), NEW bits \in Seq(BOOLEAN), NEW n \in 1..Len(bits)
    PROVE  Append(values \o [i \in 1..n - 1 |-> BitValue(bits[i])], BitValue(bits[n])) =
               values \o [i \in 1..n |-> BitValue(bits[i])]
<1> DEFINE U == V \union {0, 1}
           s == [i \in 1..n - 1 |-> BitValue(bits[i])]
           t == [i \in 1..n |-> BitValue(bits[i])]
           e == BitValue(bits[n])
           x == Append(values \o s, e)
           y == values \o t
           m == Len(values)
<1>1. n \in Nat \ {0} /\ m \in Nat
  BY LenProperties
<1>2. values \in Seq(U)
  BY SeqMonotonic
<1>3. s \in Seq(U) /\ t \in Seq(U) /\ Len(s) = n - 1 /\ Len(t) = n /\ e \in U
  BY <1>1 DEF BitValue
<1>4. (\A i \in 1..n - 1 : s[i] = t[i]) /\ t[n] = e
  BY <1>1
<1> HIDE DEF U, s, t, e
<1>5. /\ values \o s \in Seq(U) /\ Len(values \o s) = m + (n - 1)
      /\ \A i \in 1..m + (n - 1) :
             (values \o s)[i] = IF i <= m THEN values[i] ELSE s[i - m]
  <2> DEFINE k == Len(s)
             z == values \o s
  <2>1. k = n - 1
    BY <1>3
  <2>2. /\ z \in Seq(U) /\ Len(z) = m + k
        /\ \A i \in 1..m + k : z[i] = IF i <= m THEN values[i] ELSE s[i - m]
    BY <1>2, <1>3, ConcatProperties
  <2> HIDE DEF k, z
  <2>3. /\ z \in Seq(U) /\ Len(z) = m + (n - 1)
        /\ \A i \in 1..m + (n - 1) : z[i] = IF i <= m THEN values[i] ELSE s[i - m]
    BY <2>1, <2>2
  <2> QED
    BY <2>3 DEF z
<1>6. /\ y \in Seq(U) /\ Len(y) = m + n
      /\ \A i \in 1..m + n : y[i] = IF i <= m THEN values[i] ELSE t[i - m]
  BY <1>2, <1>3, ConcatProperties
<1> DEFINE z == values \o s
<1> HIDE DEF z, y, m
<1>7. /\ x \in Seq(U) /\ Len(x) = Len(z) + 1 /\ x[Len(z) + 1] = e
      /\ \A i \in 1..Len(z) : x[i] = z[i]
  BY <1>3, <1>5, AppendProperties DEF z
<1>8. Len(z) = m + (n - 1) /\ Len(z) + 1 = m + n
  BY <1>1, <1>5 DEF z
<1> HIDE DEF x
<1>9. ASSUME NEW i \in 1..m + n PROVE x[i] = y[i]
  <2>1. CASE i = m + n
    BY <1>1, <1>4, <1>6, <1>7, <1>8, <2>1
  <2>2. CASE i # m + n
    <3>1. i \in 1..m + (n - 1) /\ (~(i <= m) => i - m \in 1..n - 1)
      BY <1>1, <2>2
    <3>2. x[i] = IF i <= m THEN values[i] ELSE s[i - m]
      BY <1>5, <1>7, <1>8, <3>1 DEF z
    <3> QED
      BY <1>4, <1>6, <3>1, <3>2
  <2> QED
    BY <2>1, <2>2
<1>10. x = y
  BY <1>6, <1>7, <1>8, <1>9, SeqEqual
<1> QED
  BY <1>10 DEF x, y, z, s, t, e

\* The bits of an operation are read by the contracts, one decodeBit after the
\* other, as the clients gave them to encodeBitStream: the first one first,
\* each one once.
THEOREM BitStreamRoundTrip ==
    ASSUME NEW T, NEW V, NEW c \in Cursors(T, V), NEW rest \in Seq(T),
           NEW bits \in Seq(BOOLEAN), BitStreamNumber(bits) \in Words,
           StartsWith(c, EncodeBitStream(bits), rest)
    PROVE  /\ DecodeBits(c) = {BitsRead(c, rest, bits, 0)}
           /\ \A n \in 1..Len(bits) :
                  Decode(BitsRead(c, rest, bits, n - 1), "bit") = {BitsRead(c, rest, bits, n)}
<1>1. c.values \in Seq(V) /\ Len(bits) \in Nat
  BY LenProperties DEF Cursors
<1>2. DecodeBits(c) = {BitsRead(c, rest, bits, 0)}
  <2>1. DecodeBits(c) = {[stream |-> rest, bits |-> BitStreamNumber(bits), values |-> c.values]}
    BY BitStreamDecoded
  <2>2. SubSeq(bits, 0 + 1, Len(bits)) = bits
    <3>1. 0 + 1 = 1
      OBVIOUS
    <3> QED
      BY <3>1, SubSeqFull
  <2>3. c.values \o [i \in 1..0 |-> BitValue(bits[i])] = c.values
    <3>1. [i \in 1..0 |-> BitValue(bits[i])] = <<>>
      OBVIOUS
    <3> QED
      BY <1>1, <3>1, ConcatEmptySeq
  <2> QED
    BY <2>1, <2>2, <2>3 DEF BitsRead
<1>3. ASSUME NEW n \in 1..Len(bits)
      PROVE  Decode(BitsRead(c, rest, bits, n - 1), "bit") = {BitsRead(c, rest, bits, n)}
  <2> DEFINE before == c.values \o [i \in 1..n - 1 |-> BitValue(bits[i])]
             left == SubSeq(bits, n + 1, Len(bits))
             d == BitsRead(c, rest, bits, n - 1)
             U == V \union {0, 1}
  <2>1. bits[n] \in BOOLEAN /\ left \in Seq(BOOLEAN)
        /\ SubSeq(bits, n, Len(bits)) = <<bits[n]>> \o left
    BY BitsLeft
  <2>2. before \in Seq(U)
    <3> DEFINE s == [i \in 1..n - 1 |-> BitValue(bits[i])]
    <3>1. s \in Seq(U)
      BY <1>1 DEF BitValue
    <3>2. c.values \in Seq(U)
      BY <1>1, SeqMonotonic
    <3> HIDE DEF s, U
    <3> QED
      BY <3>1, <3>2, ConcatProperties DEF s
  <2> HIDE DEF left, before
  <2>3. d = [ stream |-> rest, bits |-> BitStreamNumber(<<bits[n]>> \o left),
              values |-> before ]
    <3>1. n - 1 + 1 = n
      BY <1>1
    <3> QED
      BY <2>1, <3>1 DEF BitsRead, before
  <2>4. BitStreamNumber(<<bits[n]>> \o left) \in Nat
    <3>1. <<bits[n]>> \o left \in Seq(BOOLEAN)
      BY <2>1, ConcatProperties
    <3> QED
      BY <3>1, BitStreamNumberType
  <2> HIDE DEF d, U
  <2>5. d \in Cursors(T, U) /\ d.bits = BitStreamNumber(<<bits[n]>> \o left)
        /\ d.stream = rest /\ d.values = before
    BY <2>2, <2>3, <2>4 DEF Cursors
  <2> DEFINE e == [stream |-> rest, bits |-> BitStreamNumber(left), values |-> before]
  <2>6. /\ d.bits % 2 = BitValue(bits[n]) /\ NextBit(d) = e
        /\ NextBit(d) \in Cursors(T, U)
    <3> DEFINE bit == bits[n]
    <3>1. bit \in BOOLEAN /\ d.bits = BitStreamNumber(<<bit>> \o left)
      BY <2>1, <2>5
    <3> HIDE DEF bit
    <3>2. /\ d.bits % 2 = BitValue(bit) /\ NextBit(d) \in Cursors(T, U)
          /\ NextBit(d) = [ stream |-> d.stream, bits |-> BitStreamNumber(left),
                            values |-> d.values ]
      BY <2>1, <2>5, <3>1, NextBitFields DEF BitValue
    <3> QED
      BY <2>5, <3>2 DEF bit
  <2>7. Decode(d, "bit") = {Result(NextBit(d), d, BitValue(bits[n]))}
    BY <2>6 DEF Decode
  <2>8. Result(NextBit(d), d, BitValue(bits[n]))
            = [ stream |-> rest, bits |-> BitStreamNumber(left),
                values |-> Append(before, BitValue(bits[n])) ]
    <3>1. Result(NextBit(d), d, BitValue(bits[n]))
              = [ stream |-> NextBit(d).stream, bits |-> NextBit(d).bits,
                  values |-> Append(d.values, BitValue(bits[n])) ]
      BY <2>6, ResultFields
    <3> QED
      BY <2>5, <2>6, <3>1
  <2>9. Append(before, BitValue(bits[n])) = c.values \o [i \in 1..n |-> BitValue(bits[i])]
    BY <1>1, BitValuesGrow DEF before
  <2> QED
    BY <2>7, <2>8, <2>9 DEF BitsRead, d, left
<1> QED
  BY <1>2, <1>3

-----------------------------------------------------------------------------
(* Registered keys and addresses                                            *)

Registries(V) == [first : Nat, entries : Seq(V)]

RegistrableAddresses == Addresses \union {zero}

RegistrableKeys == Keys \union {zero}

\* What has been registered keeps its id.
Grown(earlier, later) ==
    /\ later.first = earlier.first
    /\ Len(later.entries) >= Len(earlier.entries)
    /\ \A i \in 1..Len(earlier.entries) : later.entries[i] = earlier.entries[i]

\* What has an id is found under it.
LEMMA LookupFindsId ==
    ASSUME NEW V, NEW r \in Registries(V), NEW v, HasId(r, v)
    PROVE  \E i \in 1..Len(r.entries) :
               /\ r.entries[i] = v
               /\ ReverseLookup(r, v) = r.first + i - 1
<1> DEFINE s == r.entries
           I == {i \in 1..Len(s) : s[i] = v}
<1>1. s \in Seq(V) /\ Len(s) \in Nat /\ DOMAIN s = 1..Len(s)
  BY LenProperties DEF Registries
<1>2. PICK i \in 1..Len(s) : s[i] = v
  BY <1>1 DEF HasId, Range
<1>3. I # {}
  BY <1>2
<1>4. \E j \in I : \A k \in I : j >= k
  <2> SUFFICES ASSUME \A j \in I : \E k \in I : k > j
               PROVE  FALSE
    BY <1>1
  <2> DEFINE T == {n \in Nat : \A k \in I : k # Len(s) - n}
  <2>1. ASSUME NEW n \in Nat, \A m \in Nat : m < n => m \in T
        PROVE  n \in T
    <3> SUFFICES ASSUME NEW j \in I, j = Len(s) - n PROVE FALSE
      OBVIOUS
    <3>1. PICK k \in I : k > j
      OBVIOUS
    <3>2. k \in 1..Len(s)
      OBVIOUS
    <3> DEFINE m == Len(s) - k
    <3>3. m \in Nat /\ m < n /\ k = Len(s) - m
      BY <1>1, <3>1, <3>2
    <3>4. m \in T
      BY <2>1, <3>3
    <3> QED
      BY <3>1, <3>3, <3>4
  <2> HIDE DEF T
  <2>2. \A n \in Nat : n \in T
    BY <2>1, StrongInduction
  <2> DEFINE n == Len(s) - i
  <2>3. n \in Nat /\ i = Len(s) - n
    BY <1>1, <1>2
  <2>4. i \in I
    BY <1>2
  <2>5. n \in T
    BY <2>2, <2>3
  <2> QED
    BY <2>3, <2>4, <2>5 DEF T
<1> HIDE DEF I
<1>5. Max(I) \in I
  BY <1>4 DEF Max
<1>6. SelectLastInSeq(s, LAMBDA e : e = v) = Max(I)
  BY <1>3 DEF SelectLastInSeq, I
<1>7. Max(I) \in 1..Len(s) /\ s[Max(I)] = v
  BY <1>5 DEF I
<1>8. ReverseLookup(r, v) = r.first + Max(I) - 1
  BY <1>6 DEF ReverseLookup
<1> QED
  BY <1>7, <1>8

\* An id is decoded to itself.
LEMMA DecodesId ==
    ASSUME NEW T, NEW V, NEW d \in Cursors(T, V), NEW rest \in Seq(T),
           NEW x \in Words, StartsWith(d, EncodeRegIndex(x), rest)
    PROVE  \E id : /\ DecodeRegIndex(d) = {id}
                   /\ id \in Cursors(T, V \union {x})
                   /\ id.stream = rest /\ id.bits = d.bits /\ Last(id.values) = x
<1> DEFINE id == After(d, rest, x)
<1>1. DecodeRegIndex(d) = {id}
  BY RegIndexRoundTrip
<1>2. /\ id \in Cursors(T, V \union {x}) /\ id.stream = rest
      /\ id.bits = d.bits /\ Last(id.values) = x
  BY AfterFields
<1> HIDE DEF id
<1> QED
  BY <1>1, <1>2

\* A key or an address is encoded as it was registered then, or before.
EncodedUnder(later, V, field, code) ==
    /\ later \in Registries(V)
    /\ \E earlier \in Registries(V) :
           /\ Grown(earlier, later)
           /\ earlier.first + Len(earlier.entries) < WordSize
           /\ code = EncodeRegistered(earlier, field)

\* A cursor before a code, and what follows it.
Reads(T, V, c, code, rest, bits) ==
    /\ c \in Cursors(T, V) /\ rest \in Seq(T) /\ bits \in Seq(BOOLEAN)
    /\ StartsWith(c, code.data, rest)
    /\ c.bits = BitStreamNumber(code.bits \o bits)

\* A cursor before this stream and these bits.
At(rest, bits, values) ==
    [stream |-> rest, bits |-> BitStreamNumber(bits), values |-> values]

\* A key or an address, compressed when the registry was smaller, is expanded
\* to itself: by its id if it had one, as a whole otherwise.  What anyone has
\* registered in between, the same key or address again, or zeros, changes
\* nothing (compressAddress and decodeAddress).  A zero is expanded only as a
\* whole: its id is refused.
THEOREM RegisteredRoundTrip ==
    ASSUME NEW T, NEW V, NEW c, NEW code, NEW rest, NEW bits,
           Reads(T, V, c, code, rest, bits),
           NEW U, NEW later, NEW field, EncodedUnder(later, U, field, code),
           field.value # zero
    PROVE  DecodeRegistered(later, c, field.type) =
               {At(rest, bits, Append(c.values, field.value))}
<1> SUFFICES ASSUME c \in Cursors(T, V), rest \in Seq(T), bits \in Seq(BOOLEAN),
                    NEW earlier \in Registries(U), later \in Registries(U),
                    Grown(earlier, later),
                    earlier.first + Len(earlier.entries) < WordSize,
                    code = EncodeRegistered(earlier, field),
                    c.bits = BitStreamNumber(code.bits \o bits),
                    StartsWith(c, code.data, rest)
             PROVE  DecodeRegistered(later, c, field.type) =
                        {[ stream |-> rest, bits |-> BitStreamNumber(bits),
                           values |-> Append(c.values, field.value) ]}
  BY DEF EncodedUnder, Reads, At
<1> DEFINE v == field.value
           d == NextBit(c)
           left == [ stream |-> rest, bits |-> BitStreamNumber(bits),
                     values |-> Append(c.values, v) ]
<1>1. CASE HasId(earlier, v)
  <2> DEFINE x == ReverseLookup(earlier, v)
  <2>1. code.data = EncodeRegIndex(x) /\ code.bits = <<TRUE>>
    BY <1>1 DEF EncodeRegistered
  <2>2. /\ c.bits % 2 = 1 /\ d \in Cursors(T, V) /\ d.stream = c.stream
        /\ d.bits = BitStreamNumber(bits) /\ d.values = c.values
    <3>1. c.bits = BitStreamNumber(<<TRUE>> \o bits)
      BY <2>1
    <3> HIDE DEF d
    <3>2. /\ c.bits % 2 = (IF TRUE THEN 1 ELSE 0) /\ NextBit(c) \in Cursors(T, V)
          /\ NextBit(c) = [ stream |-> c.stream, bits |-> BitStreamNumber(bits),
                            values |-> c.values ]
      BY <3>1, NextBitFields
    <3> QED
      BY <3>2 DEF d
  <2>3. PICK i \in 1..Len(earlier.entries) :
            earlier.entries[i] = v /\ x = earlier.first + i - 1
    BY <1>1, LookupFindsId
  <2> HIDE DEF x, v, d
  <2>4. /\ earlier.first \in Nat /\ Len(earlier.entries) \in Nat
        /\ Len(later.entries) \in Nat
        /\ DOMAIN later.entries = 1..Len(later.entries)
    BY LenProperties DEF Registries
  <2>5. x \in Words
    BY <2>3, <2>4, EncodingsAssumption DEF Words
  <2>6. StartsWith(d, EncodeRegIndex(x), rest)
    BY <2>1, <2>2 DEF StartsWith
  <2>7. d \in Cursors(T, V)
    BY <2>2
  <2>8. PICK id : /\ DecodeRegIndex(d) = {id}
                  /\ id \in Cursors(T, V \union {x})
                  /\ id.stream = rest /\ id.bits = d.bits /\ Last(id.values) = x
    BY <2>5, <2>6, <2>7, DecodesId
  <2>9. Last(id.values) - later.first + 1 = i
    BY <2>3, <2>4, <2>8 DEF Grown
  <2>10. i \in DOMAIN later.entries /\ later.entries[i] = v
    BY <2>3, <2>4 DEF Grown
  <2>11. Lookup(later, c, id) = {Result(id, c, v)}
    <3>1. v # zero
      BY DEF v
    <3> QED
      BY <2>9, <2>10, <3>1 DEF Lookup
  <2>12. Result(id, c, v) = left
    <3>1. Result(id, c, v) = [ stream |-> id.stream, bits |-> id.bits,
                               values |-> Append(c.values, v) ]
      BY <2>8, ResultFields
    <3> QED
      BY <2>2, <2>8, <3>1
  <2>13. DecodeRegistered(later, c, field.type) = Lookup(later, c, id)
    <3>1. DecodeRegIndex(NextBit(c)) = {id} /\ c.bits % 2 = 1
      BY <2>2, <2>8 DEF d
    <3> QED
      BY <3>1 DEF DecodeRegistered
  <2> QED
    BY <2>11, <2>12, <2>13 DEF v
<1>2. CASE ~HasId(earlier, v)
  <2>1. code.data = <<Word(field.type, v)>> /\ code.bits = <<FALSE>>
    BY <1>2 DEF EncodeRegistered
  <2>2. /\ c.bits % 2 = 0 /\ d \in Cursors(T, V) /\ d.stream = c.stream
        /\ d.bits = BitStreamNumber(bits) /\ d.values = c.values
    <3>1. c.bits = BitStreamNumber(<<FALSE>> \o bits)
      BY <2>1
    <3> HIDE DEF d
    <3>2. /\ c.bits % 2 = (IF FALSE THEN 1 ELSE 0) /\ NextBit(c) \in Cursors(T, V)
          /\ NextBit(c) = [ stream |-> c.stream, bits |-> BitStreamNumber(bits),
                            values |-> c.values ]
      BY <3>1, NextBitFields
    <3> QED
      BY <3>2 DEF d
  <2> HIDE DEF v, d
  <2>3. StartsWith(d, <<Word(field.type, v)>>, rest)
    BY <2>1, <2>2 DEF StartsWith
  <2>4. Read(d, field.type) = {After(d, rest, v)}
    BY <2>2, <2>3, ReadsToken
  <2>5. DecodeRegistered(later, c, field.type) = Read(d, field.type)
    BY <2>2 DEF DecodeRegistered, d
  <2> QED
    BY <2>2, <2>4, <2>5 DEF After, v
<1> QED
  BY <1>1, <1>2

\* The registries, the delegator's expanders, and the ids that are left.
RegistriesOK ==
    /\ addressRegistry \in Registries(RegistrableAddresses)
    /\ keyRegistry \in Registries(RegistrableKeys)
    /\ expanders \in Seq(Range(CompressorOrder))
    /\ addressRegistry.first = FirstAddressId
    /\ keyRegistry.first = FirstKeyId
    /\ Len(addressRegistry.entries) + Len(keyRegistry.entries) + Len(expanders)
           <= MaxRegistrations

\* What a step registers comes after what was registered before.
StepExtends ==
    /\ Grown(addressRegistry, addressRegistry')
    /\ Grown(keyRegistry, keyRegistry')
    /\ Len(expanders') >= Len(expanders)
    /\ \A i \in 1..Len(expanders) : expanders'[i] = expanders[i]

\* A registry with one more entry, which keeps the others.
LEMMA RegisteredFields ==
    ASSUME NEW V, NEW r \in Registries(V), NEW v \in V
    PROVE  /\ Registered(r, v) \in Registries(V)
           /\ Registered(r, v).first = r.first
           /\ Len(Registered(r, v).entries) = Len(r.entries) + 1
           /\ Grown(r, Registered(r, v))
<1> DEFINE s == r.entries
           t == Append(s, v)
<1>1. s \in Seq(V) /\ r.first \in Nat /\ r = [first |-> r.first, entries |-> s]
  BY DEF Registries
<1> HIDE DEF s
<1>2. /\ t \in Seq(V) /\ Len(t) = Len(s) + 1 /\ Len(s) \in Nat
      /\ \A i \in 1..Len(s) : t[i] = s[i]
  BY <1>1, AppendProperties, LenProperties
<1>3. Registered(r, v) = [r EXCEPT !.entries = t]
  BY DEF Registered, s
<1> HIDE DEF t
<1>4. Registered(r, v) = [first |-> r.first, entries |-> t]
  BY <1>1, <1>3
<1>5. Registered(r, v) \in Registries(V)
  BY <1>1, <1>2, <1>4 DEF Registries
<1>6. Registered(r, v).first = r.first /\ Registered(r, v).entries = t
  BY <1>4
<1>7. Len(Registered(r, v).entries) = Len(r.entries) + 1
  BY <1>2, <1>6 DEF s
<1>8. Grown(r, Registered(r, v))
  BY <1>2, <1>6 DEF Grown, s
<1> QED
  BY <1>5, <1>6, <1>7, <1>8

\* The registries begin with no entry.
LEMMA RegistriesInit == Init => RegistriesOK
<1> SUFFICES ASSUME Init PROVE RegistriesOK
  OBVIOUS
<1>1. /\ addressRegistry = [first |-> FirstAddressId, entries |-> <<>>]
      /\ keyRegistry = [first |-> FirstKeyId, entries |-> <<>>]
      /\ expanders = <<>>
  BY DEF Init
<1> QED
  BY <1>1, ExpandersAssumption DEF RegistriesOK, Registries

\* A step adds to them, within the bound, or leaves them.
LEMMA RegistriesStep ==
    RegistriesOK /\ [Next]_vars => RegistriesOK' /\ StepExtends
<1> SUFFICES ASSUME RegistriesOK, [Next]_vars
             PROVE  RegistriesOK' /\ StepExtends
  OBVIOUS
<1> DEFINE Kinds == Range(CompressorOrder)
<1>1. /\ addressRegistry \in Registries(RegistrableAddresses)
      /\ keyRegistry \in Registries(RegistrableKeys)
      /\ expanders \in Seq(Kinds)
      /\ addressRegistry.first = FirstAddressId
      /\ keyRegistry.first = FirstKeyId
      /\ Len(addressRegistry.entries) + Len(keyRegistry.entries) + Len(expanders)
             <= MaxRegistrations
  BY DEF RegistriesOK
<1>2. /\ Len(addressRegistry.entries) \in Nat
      /\ Len(keyRegistry.entries) \in Nat
      /\ Len(expanders) \in Nat
      /\ MaxRegistrations \in Nat
  BY <1>1, LenProperties, ExpandersAssumption DEF Registries
<1>3. Grown(addressRegistry, addressRegistry) /\ Grown(keyRegistry, keyRegistry)
  BY <1>2 DEF Grown
<1>4. ASSUME UNCHANGED <<addressRegistry, keyRegistry, expanders>>
      PROVE  RegistriesOK' /\ StepExtends
  <2>1. StepExtends
    BY <1>1, <1>2, <1>3, <1>4 DEF StepExtends
  <2>2. RegistriesOK'
    BY <1>1, <1>4 DEF RegistriesOK
  <2> QED
    BY <2>1, <2>2
<1> HIDE DEF Kinds
<1>5. ASSUME NEW address \in RegistrableAddresses, RegisterAddress(address)
      PROVE  RegistriesOK' /\ StepExtends
  <2>1. /\ Len(addressRegistry.entries) + Len(keyRegistry.entries) + Len(expanders)
            + 1 <= MaxRegistrations
        /\ addressRegistry' = Registered(addressRegistry, address)
        /\ keyRegistry' = keyRegistry /\ expanders' = expanders
    BY <1>5 DEF RegisterAddress, MayRegister
  <2>2. /\ addressRegistry' \in Registries(RegistrableAddresses)
        /\ addressRegistry'.first = addressRegistry.first
        /\ Len(addressRegistry'.entries) = Len(addressRegistry.entries) + 1
        /\ Grown(addressRegistry, addressRegistry')
    BY <1>1, <2>1, RegisteredFields
  <2>7. Len(addressRegistry'.entries) + Len(keyRegistry'.entries) + Len(expanders')
            <= MaxRegistrations
    <3>1. /\ Len(addressRegistry'.entries) = Len(addressRegistry.entries) + 1
          /\ Len(keyRegistry'.entries) = Len(keyRegistry.entries)
          /\ Len(expanders') = Len(expanders)
      BY <2>1, <2>2
    <3>2. Len(addressRegistry.entries) + Len(keyRegistry.entries) + Len(expanders)
              + 1 <= MaxRegistrations
      BY <2>1
    <3> DEFINE x == Len(addressRegistry.entries)
               y == Len(keyRegistry.entries)
               z == Len(expanders)
               u == Len(addressRegistry'.entries)
               v == Len(keyRegistry'.entries)
               w == Len(expanders')
    <3>3. /\ x \in Nat /\ y \in Nat /\ z \in Nat /\ MaxRegistrations \in Nat
          /\ u = x + 1 /\ v = y /\ w = z
          /\ x + y + z + 1 <= MaxRegistrations
      BY <1>2, <3>1, <3>2
    <3>4. u + v + w <= MaxRegistrations
      <4> HIDE DEF x, y, z, u, v, w
      <4> QED
        BY <3>3
    <3> QED
      BY <3>4
  <2>8. RegistriesOK'
    BY <1>1, <2>1, <2>2, <2>7 DEF RegistriesOK, Kinds
  <2>9. StepExtends
    BY <1>1, <1>2, <1>3, <2>1, <2>2 DEF StepExtends
  <2> QED
    BY <2>8, <2>9
<1>6. ASSUME NEW key \in RegistrableKeys, RegisterKey(key)
      PROVE  RegistriesOK' /\ StepExtends
  <2>1. /\ Len(addressRegistry.entries) + Len(keyRegistry.entries) + Len(expanders)
            + 1 <= MaxRegistrations
        /\ keyRegistry' = Registered(keyRegistry, key)
        /\ addressRegistry' = addressRegistry /\ expanders' = expanders
    BY <1>6 DEF RegisterKey, MayRegister
  <2>2. /\ keyRegistry' \in Registries(RegistrableKeys)
        /\ keyRegistry'.first = keyRegistry.first
        /\ Len(keyRegistry'.entries) = Len(keyRegistry.entries) + 1
        /\ Grown(keyRegistry, keyRegistry')
    BY <1>1, <2>1, RegisteredFields
  <2>7. Len(addressRegistry'.entries) + Len(keyRegistry'.entries) + Len(expanders')
            <= MaxRegistrations
    <3>1. /\ Len(addressRegistry'.entries) = Len(addressRegistry.entries)
          /\ Len(keyRegistry'.entries) = Len(keyRegistry.entries) + 1
          /\ Len(expanders') = Len(expanders)
      BY <2>1, <2>2
    <3>2. Len(addressRegistry.entries) + Len(keyRegistry.entries) + Len(expanders)
              + 1 <= MaxRegistrations
      BY <2>1
    <3> DEFINE x == Len(addressRegistry.entries)
               y == Len(keyRegistry.entries)
               z == Len(expanders)
               u == Len(addressRegistry'.entries)
               v == Len(keyRegistry'.entries)
               w == Len(expanders')
    <3>3. /\ x \in Nat /\ y \in Nat /\ z \in Nat /\ MaxRegistrations \in Nat
          /\ u = x /\ v = y + 1 /\ w = z
          /\ x + y + z + 1 <= MaxRegistrations
      BY <1>2, <3>1, <3>2
    <3>4. u + v + w <= MaxRegistrations
      <4> HIDE DEF x, y, z, u, v, w
      <4> QED
        BY <3>3
    <3> QED
      BY <3>4
  <2>8. RegistriesOK'
    BY <1>1, <2>1, <2>2, <2>7 DEF RegistriesOK, Kinds
  <2>9. StepExtends
    BY <1>1, <1>2, <1>3, <2>1, <2>2 DEF StepExtends
  <2> QED
    BY <2>8, <2>9
<1>7. ASSUME NEW key \in RegistrableKeys, NEW sender \in Addresses,
             RegisterBoth(key, sender)
      PROVE  RegistriesOK' /\ StepExtends
  <2> sender \in RegistrableAddresses
    BY DEF RegistrableAddresses
  <2>1. /\ Len(addressRegistry.entries) + Len(keyRegistry.entries) + Len(expanders)
            + 2 <= MaxRegistrations
        /\ keyRegistry' = Registered(keyRegistry, key)
        /\ addressRegistry' = Registered(addressRegistry, sender)
        /\ expanders' = expanders
    BY <1>7 DEF RegisterBoth, MayRegister
  <2>2. /\ keyRegistry' \in Registries(RegistrableKeys)
        /\ keyRegistry'.first = keyRegistry.first
        /\ Len(keyRegistry'.entries) = Len(keyRegistry.entries) + 1
        /\ Grown(keyRegistry, keyRegistry')
    BY <1>1, <2>1, RegisteredFields
  <2>3. /\ addressRegistry' \in Registries(RegistrableAddresses)
        /\ addressRegistry'.first = addressRegistry.first
        /\ Len(addressRegistry'.entries) = Len(addressRegistry.entries) + 1
        /\ Grown(addressRegistry, addressRegistry')
    BY <1>1, <2>1, RegisteredFields
  <2>7. Len(addressRegistry'.entries) + Len(keyRegistry'.entries) + Len(expanders')
            <= MaxRegistrations
    <3>1. /\ Len(addressRegistry'.entries) = Len(addressRegistry.entries) + 1
          /\ Len(keyRegistry'.entries) = Len(keyRegistry.entries) + 1
          /\ Len(expanders') = Len(expanders)
      BY <2>1, <2>2, <2>3
    <3>2. Len(addressRegistry.entries) + Len(keyRegistry.entries) + Len(expanders)
              + 2 <= MaxRegistrations
      BY <2>1
    <3> DEFINE x == Len(addressRegistry.entries)
               y == Len(keyRegistry.entries)
               z == Len(expanders)
               u == Len(addressRegistry'.entries)
               v == Len(keyRegistry'.entries)
               w == Len(expanders')
    <3>3. /\ x \in Nat /\ y \in Nat /\ z \in Nat /\ MaxRegistrations \in Nat
          /\ u = x + 1 /\ v = y + 1 /\ w = z
          /\ x + y + z + 2 <= MaxRegistrations
      BY <1>2, <3>1, <3>2
    <3>4. u + v + w <= MaxRegistrations
      <4> HIDE DEF x, y, z, u, v, w
      <4> QED
        BY <3>3
    <3> QED
      BY <3>4
  <2>8. RegistriesOK'
    BY <1>1, <2>1, <2>2, <2>3, <2>7 DEF RegistriesOK, Kinds
  <2>9. StepExtends
    BY <1>1, <1>2, <2>1, <2>2, <2>3 DEF StepExtends
  <2> QED
    BY <2>8, <2>9
<1>8. ASSUME NEW expander \in Kinds, RegisterExpander(expander)
      PROVE  RegistriesOK' /\ StepExtends
  <2>1. /\ Len(addressRegistry.entries) + Len(keyRegistry.entries) + Len(expanders)
            + 1 <= MaxRegistrations /\ expanders' = Append(expanders, expander)
        /\ addressRegistry' = addressRegistry /\ keyRegistry' = keyRegistry
    BY <1>8 DEF RegisterExpander, MayRegister
  <2>2. /\ expanders' \in Seq(Kinds) /\ Len(expanders') = Len(expanders) + 1
        /\ \A i \in 1..Len(expanders) : expanders'[i] = expanders[i]
    BY <1>1, <1>8, <2>1, AppendProperties
  <2>7. Len(addressRegistry'.entries) + Len(keyRegistry'.entries) + Len(expanders')
            <= MaxRegistrations
    <3>1. /\ Len(addressRegistry'.entries) = Len(addressRegistry.entries)
          /\ Len(keyRegistry'.entries) = Len(keyRegistry.entries)
          /\ Len(expanders') = Len(expanders) + 1
      BY <2>1, <2>2
    <3>2. Len(addressRegistry.entries) + Len(keyRegistry.entries) + Len(expanders)
              + 1 <= MaxRegistrations
      BY <2>1
    <3> DEFINE x == Len(addressRegistry.entries)
               y == Len(keyRegistry.entries)
               z == Len(expanders)
               u == Len(addressRegistry'.entries)
               v == Len(keyRegistry'.entries)
               w == Len(expanders')
    <3>3. /\ x \in Nat /\ y \in Nat /\ z \in Nat /\ MaxRegistrations \in Nat
          /\ u = x /\ v = y /\ w = z + 1
          /\ x + y + z + 1 <= MaxRegistrations
      BY <1>2, <3>1, <3>2
    <3>4. u + v + w <= MaxRegistrations
      <4> HIDE DEF x, y, z, u, v, w
      <4> QED
        BY <3>3
    <3> QED
      BY <3>4
  <2>8. RegistriesOK'
    BY <1>1, <2>1, <2>2, <2>7 DEF RegistriesOK, Kinds
  <2>9. StepExtends
    BY <1>1, <1>2, <1>3, <2>1, <2>2 DEF StepExtends
  <2> QED
    BY <2>8, <2>9
<1>9. CASE Registration
  <2>1. \/ \E address \in RegistrableAddresses : RegisterAddress(address)
        \/ \E key \in RegistrableKeys : RegisterKey(key)
        \/ \E key \in RegistrableKeys, sender \in Addresses : RegisterBoth(key, sender)
        \/ \E expander \in Kinds : RegisterExpander(expander)
    BY <1>9 DEF Registration, Kinds, RegistrableAddresses, RegistrableKeys
  <2> QED
    BY <1>5, <1>6, <1>7, <1>8, <2>1
<1>10. CASE AddCompressor
  BY <1>4, <1>10 DEF AddCompressor
<1>11. CASE \E b \in Bundles : StartCompress(b)
  BY <1>4, <1>11 DEF StartCompress
<1>12. CASE \E i \in DOMAIN progress : CompressOperation(i)
  BY <1>4, <1>12 DEF CompressOperation
<1>13. CASE Compress
  BY <1>4, <1>13 DEF Compress
<1>14. CASE UNCHANGED vars
  BY <1>4, <1>14 DEF vars
<1> QED
  BY <1>9, <1>10, <1>11, <1>12, <1>13, <1>14 DEF Next

\* What is registered, an address, a key or an expander, stays registered under
\* its id, whatever anyone registers after it.
THEOREM RegistrationsStay == Spec => [][StepExtends]_vars
<1>1. RegistriesOK /\ [Next]_vars => RegistriesOK' /\ [StepExtends]_vars
  BY RegistriesStep
<1>2. Init => RegistriesOK
  BY RegistriesInit
<1> QED
  BY <1>1, <1>2, PTL DEF Spec
=============================================================================
