---------------------- MODULE AggregationStrategyProofs ----------------------
(****************************************************************************)
(* For every value of the constants: the types of AggregationStrategy, that *)
(* no two rows of an aggregate conflict (NoConflicts), that some row passes *)
(* the filter (SomeRowStays), that an aggregate which reaches breakeven is  *)
(* paid for (PaysAtBreakeven), and that a run answers once, with a row in   *)
(* the aggregate once and not failed (the safety part of MeetsContract).    *)
(*                                                                          *)
(* The inductive invariant follows the rows through a run: a row is         *)
(* eligible, being checked, included or failed, one at most, and two rows   *)
(* that are not failed share no key that the filter is done with.           *)
(*                                                                          *)
(* What FlattenSeq computes is proved by induction over the length of a     *)
(* sequence.  NatInduction takes a predicate, which no prover here          *)
(* instantiates, so NatSetInduction states it for the set of the numbers    *)
(* that have a property.                                                    *)
(****************************************************************************)
EXTENDS AggregationStrategy, SequenceTheorems, FiniteSetTheorems,
        WellFoundedInduction, TLAPS

\* The rows that are, or may still be, in the aggregate.
Standing == eligible \union DOMAIN checks \union Range(included)

\* A row is in one place at most.
OnePlace ==
    /\ Standing \union failed \subseteq rows
    /\ eligible \intersect DOMAIN checks = {}
    /\ eligible \intersect Range(included) = {}
    /\ DOMAIN checks \intersect Range(included) = {}
    /\ failed \intersect Standing = {}
    /\ IsInjective(included)

\* Two rows only share what the filter still has to look at.
Apart ==
    \A q, r \in Standing : q # r => KeysOf(q) \intersect KeysOf(r) \subseteq keys

Stages ==
    /\ step # "filter" => keys = {}
    /\ step = "filter" =>
        DOMAIN checks = {} /\ included = <<>> /\ failed = {} /\ ~added
    /\ step = "filter" \/ (step = "augment" /\ ~added) =>
        (rows # {} => eligible # {})

\* What the included rows pay beyond their gas covers their share of the
\* overhead, whose denominators are multiplied out here.
SharesPaid ==
    requireFees /\ (step = "done" => included # <<>>) =>
        (expectedFee - aggregateGas + bundleOverheadGas) * breakeven.num
            >= (bundleOverheadGas * breakeven.den) * OperationCount(included)

IInv == TypeOK /\ OnePlace /\ Apart /\ Stages /\ SharesPaid

-----------------------------------------------------------------------------
(* Induction over sets of numbers, and extreme elements                     *)

\* A set of numbers that has 0, and the successor of each of its numbers, has
\* every number.
LEMMA NatSetInduction ==
    ASSUME NEW T, 0 \in T, \A n \in Nat : n \in T => n + 1 \in T
    PROVE  \A n \in Nat : n \in T
<1> DEFINE U == {n \in Nat : n \notin T}
<1> SUFFICES ASSUME U # {} PROVE FALSE
  OBVIOUS
<1>1. PICK x \in U : \A y \in U : <<y, x>> \notin OpToRel(<, Nat)
  BY NatLessThanWellFounded, WFMin
<1>2. x - 1 \in Nat /\ x - 1 < x /\ (x - 1) + 1 = x
  OBVIOUS
<1>3. x - 1 \in U
  BY <1>2
<1>4. <<x - 1, x>> \in OpToRel(<, Nat)
  BY <1>2 DEF OpToRel
<1> QED
  BY <1>1, <1>3, <1>4

\* A set of numbers that is not empty has a first one.
LEMMA FirstIsLeast ==
    ASSUME NEW s, s \subseteq Nat, s # {}
    PROVE  First(s) \in s /\ \A m \in s : First(s) <= m
<1>1. PICK n \in s : \A m \in s : <<m, n>> \notin OpToRel(<, Nat)
  BY NatLessThanWellFounded, WFMin
<1>2. \A m \in s : n <= m
  <2> SUFFICES ASSUME NEW m \in s, m < n PROVE FALSE
    OBVIOUS
  <2>1. <<m, n>> \in OpToRel(<, Nat)
    BY DEF OpToRel
  <2> QED
    BY <1>1, <2>1
<1> QED
  BY <1>1, <1>2 DEF First

\* Among finitely many rows one has the highest excess fee.
LEMMA BestExists ==
    ASSUME NEW group, IsFiniteSet(group), group # {},
           NEW excess \in [group -> Int]
    PROVE  \E r \in group : \A q \in group : excess[r] >= excess[q]
<1> DEFINE HasBest(g) == \E r \in g : \A q \in g : excess[r] >= excess[q]
           Sizes == {n \in Nat : \A g \in SUBSET group :
                         Cardinality(g) = n + 1 => HasBest(g)}
<1>1. \A g \in SUBSET group : IsFiniteSet(g) /\ Cardinality(g) \in Nat
  BY FS_Subset, FS_CardinalityType
<1>2. 0 \in Sizes
  <2> SUFFICES ASSUME NEW g \in SUBSET group, Cardinality(g) = 1
               PROVE  HasBest(g)
    OBVIOUS
  <2>1. PICK r : g = {r}
    BY <1>1, FS_Singleton
  <2> QED
    BY <2>1
<1>3. \A n \in Nat : n \in Sizes => n + 1 \in Sizes
  <2> SUFFICES ASSUME NEW n \in Nat, n \in Sizes,
                      NEW g \in SUBSET group, Cardinality(g) = n + 1 + 1
               PROVE  HasBest(g)
    OBVIOUS
  <2>1. g # {}
    BY <1>1, FS_EmptySet
  <2>2. PICK x \in g : TRUE
    BY <2>1
  <2>3. Cardinality(g \ {x}) = n + 1
    BY <1>1, <2>2, FS_RemoveElement
  <2>4. PICK r \in g \ {x} : \A q \in g \ {x} : excess[r] >= excess[q]
    BY <2>3
  <2>5. excess[r] \in Int /\ \A q \in g : excess[q] \in Int
    OBVIOUS
  <2>6. CASE excess[r] >= excess[x]
    BY <2>4, <2>6
  <2>7. CASE excess[x] > excess[r]
    BY <2>2, <2>4, <2>5, <2>7
  <2> QED
    BY <2>2, <2>5, <2>6, <2>7
<1>4. Cardinality(group) # 0
  BY <1>1, FS_EmptySet
<1>5. Cardinality(group) - 1 \in Nat
  BY <1>1, <1>4
<1>6. Cardinality(group) - 1 \in Sizes
  <2> HIDE DEF Sizes
  <2> QED
    BY <1>2, <1>3, <1>5, NatSetInduction
<1>7. Cardinality(group) - 1 + 1 = Cardinality(group)
  BY <1>1
<1> QED
  BY <1>6, <1>7

-----------------------------------------------------------------------------
(* Flattened sequences                                                      *)

\* f is what FlattenSeq computes of the first n sequences of s.
Flattens(f, s, n) ==
    f = [i \in 1..n |-> IF i = 1 THEN s[i] ELSE f[i-1] \o s[i]]

\* A function that FlattenSeq's recursive definition describes exists.
LEMMA FlattensExists ==
    ASSUME NEW s, NEW n \in Nat
    PROVE  \E f : Flattens(f, s, n)
<1> DEFINE T == {k \in Nat : \E f : Flattens(f, s, k)}
<1>1. 0 \in T
  <2>1. Flattens([i \in 1..0 |-> s[i]], s, 0)
    BY DEF Flattens
  <2> QED
    BY <2>1
<1>2. \A k \in Nat : k \in T => k + 1 \in T
  <2> SUFFICES ASSUME NEW k \in Nat, NEW f, Flattens(f, s, k)
               PROVE  \E g : Flattens(g, s, k + 1)
    OBVIOUS
  <2> DEFINE g == [i \in 1..(k+1) |->
                      IF i <= k THEN f[i]
                      ELSE IF i = 1 THEN s[i] ELSE f[i-1] \o s[i]]
  <2>1. \A i \in 1..k : f[i] = IF i = 1 THEN s[i] ELSE f[i-1] \o s[i]
    BY DEF Flattens
  <2>2. \A i \in 1..k : g[i] = f[i]
    OBVIOUS
  <2>3. \A i \in 1..(k+1) : i # 1 => i - 1 \in 1..k /\ g[i-1] = f[i-1]
    BY <2>2
  <2>4. \A i \in 1..(k+1) : g[i] = IF i = 1 THEN s[i] ELSE g[i-1] \o s[i]
    BY <2>1, <2>3
  <2>5. g = [i \in 1..(k+1) |-> IF i = 1 THEN s[i] ELSE g[i-1] \o s[i]]
    <3>1. g = [i \in 1..(k+1) |-> g[i]]
      OBVIOUS
    <3> HIDE DEF g
    <3> QED
      BY <2>4, <3>1
  <2> HIDE DEF g
  <2> QED
    BY <2>5 DEF Flattens
<1> HIDE DEF T
<1>3. n \in T
  BY <1>1, <1>2, NatSetInduction
<1> QED
  BY <1>3 DEF T

\* Such functions of two sequences agree as far as the sequences do.
LEMMA FlattensAgree ==
    ASSUME NEW s, NEW t, NEW n \in Nat, NEW m \in Nat, m <= n,
           NEW f, NEW g, Flattens(f, s, n), Flattens(g, t, m),
           \A i \in 1..m : s[i] = t[i]
    PROVE  \A i \in 1..m : f[i] = g[i]
<1> DEFINE T == {k \in Nat : k \in 1..m => f[k] = g[k]}
<1>1. /\ \A i \in 1..n : f[i] = IF i = 1 THEN s[i] ELSE f[i-1] \o s[i]
      /\ \A i \in 1..m : g[i] = IF i = 1 THEN t[i] ELSE g[i-1] \o t[i]
  BY DEF Flattens
<1>2. 0 \in T
  OBVIOUS
<1>3. \A k \in Nat : k \in T => k + 1 \in T
  <2> SUFFICES ASSUME NEW k \in Nat, k \in T, k + 1 \in 1..m
               PROVE  f[k + 1] = g[k + 1]
    OBVIOUS
  <2>1. k + 1 \in 1..n /\ s[k + 1] = t[k + 1]
    OBVIOUS
  <2>2. CASE k = 0
    BY <1>1, <2>1, <2>2
  <2>3. CASE k # 0
    <3>1. k \in 1..m /\ f[k] = g[k] /\ k + 1 # 1 /\ k + 1 - 1 = k
      BY <2>3
    <3> DEFINE j == k + 1
    <3>2. j \in 1..n /\ j \in 1..m /\ j # 1 /\ j - 1 = k
      BY <2>1, <3>1
    <3> HIDE DEF j
    <3>3. f[j] = f[k] \o s[j] /\ g[j] = g[k] \o t[j]
      BY <1>1, <3>2
    <3> QED
      BY <2>1, <3>1, <3>3 DEF j
  <2> QED
    BY <2>2, <2>3
<1> HIDE DEF T
<1>4. \A k \in Nat : k \in T
  BY <1>2, <1>3, NatSetInduction
<1> QED
  BY <1>4 DEF T

\* FlattenSeq is the last value of such a function.
LEMMA FlattenIsLast ==
    ASSUME NEW s, Len(s) \in Nat, Len(s) # 0,
           NEW f, Flattens(f, s, Len(s))
    PROVE  FlattenSeq(s) = f[Len(s)]
<1> DEFINE g == CHOOSE h : h = [i \in 1..Len(s) |->
                                   IF i = 1 THEN s[i] ELSE h[i-1] \o s[i]]
<1>1. FlattenSeq(s) = g[Len(s)]
  BY DEF FlattenSeq
<1>2. \E h : h = [i \in 1..Len(s) |-> IF i = 1 THEN s[i] ELSE h[i-1] \o s[i]]
  BY DEF Flattens
<1>3. Flattens(g, s, Len(s))
  BY <1>2 DEF Flattens
<1> HIDE DEF g
<1>4. Len(s) \in 1..Len(s)
  OBVIOUS
<1> QED
  BY <1>1, <1>3, <1>4, FlattensAgree

\* A flattened sequence is a sequence of the elements.
LEMMA FlattenType ==
    ASSUME NEW S, NEW s \in Seq(Seq(S))
    PROVE  FlattenSeq(s) \in Seq(S)
<1>1. CASE Len(s) = 0
  <2>1. FlattenSeq(s) = s /\ s = <<>>
    BY <1>1, EmptySeq DEF FlattenSeq
  <2> QED
    BY <2>1
<1>2. CASE Len(s) # 0
  <2>1. Len(s) \in Nat
    BY LenProperties
  <2>2. PICK f : Flattens(f, s, Len(s))
    BY <2>1, FlattensExists
  <2> DEFINE T == {k \in Nat : k \in 1..Len(s) => f[k] \in Seq(S)}
  <2>3. \A i \in 1..Len(s) : f[i] = IF i = 1 THEN s[i] ELSE f[i-1] \o s[i]
    BY <2>2 DEF Flattens
  <2>4. \A i \in 1..Len(s) : s[i] \in Seq(S)
    OBVIOUS
  <2>5. 0 \in T
    OBVIOUS
  <2>6. \A k \in Nat : k \in T => k + 1 \in T
    <3> SUFFICES ASSUME NEW k \in Nat, k \in 1..Len(s) => f[k] \in Seq(S),
                        k + 1 \in 1..Len(s)
                 PROVE  f[k + 1] \in Seq(S)
      <4>1. \A k \in Nat : k + 1 \in Nat
        OBVIOUS
      <4> QED
        BY <4>1, Zenon
    <3> DEFINE j == k + 1
    <3>1. j \in 1..Len(s) /\ (j # 1 => j - 1 = k /\ k \in 1..Len(s))
      BY <2>1
    <3> HIDE DEF j
    <3>2. CASE j = 1
      BY <2>3, <2>4, <3>1, <3>2 DEF j
    <3>3. CASE j # 1
      <4>1. f[j] = f[k] \o s[j] /\ s[j] \in Seq(S)
        BY <2>3, <2>4, <3>1, <3>3
      <4>2. f[k] \in Seq(S)
        BY <3>1, <3>3
      <4> QED
        BY <4>1, <4>2, ConcatProperties DEF j
    <3> QED
      BY <3>2, <3>3
  <2> HIDE DEF T
  <2>7. Len(s) \in T
    BY <2>1, <2>5, <2>6, NatSetInduction
  <2>8. f[Len(s)] \in Seq(S)
    BY <1>2, <2>1, <2>7 DEF T
  <2> QED
    BY <1>2, <2>2, <2>8, FlattenIsLast, LenProperties
<1> QED
  BY <1>1, <1>2

\* The sequences of an appended sequence come last when they are flattened.
LEMMA FlattenAppend ==
    ASSUME NEW S, NEW s \in Seq(Seq(S)), NEW e \in Seq(S)
    PROVE  FlattenSeq(Append(s, e)) = FlattenSeq(s) \o e
<1> DEFINE t == Append(s, e)
           n == Len(s)
<1>1. n \in Nat /\ t \in Seq(Seq(S)) /\ Len(t) = n + 1 /\ Len(t) # 0
  OBVIOUS
<1>2. t[n + 1] = e /\ \A i \in 1..n : t[i] = s[i]
  OBVIOUS
<1>3. PICK g : Flattens(g, t, n + 1)
  <2>1. n + 1 \in Nat
    BY <1>1
  <2> QED
    BY <2>1, FlattensExists
<1>4. \A i \in 1..(n+1) : g[i] = IF i = 1 THEN t[i] ELSE g[i-1] \o t[i]
  BY <1>3 DEF Flattens
<1> HIDE DEF t
<1>5. FlattenSeq(t) = g[n + 1]
  BY <1>1, <1>3, FlattenIsLast
<1>6. CASE n = 0
  <2>1. FlattenSeq(s) = <<>>
    BY <1>6, EmptySeq DEF FlattenSeq
  <2>2. g[n + 1] = e
    BY <1>2, <1>4, <1>6
  <2> QED
    BY <1>5, <2>1, <2>2 DEF t
<1>7. CASE n # 0
  <2>1. PICK f : Flattens(f, s, n)
    BY <1>1, FlattensExists
  <2>2. g[n] = f[n]
    <3> DEFINE m == n + 1
    <3> HIDE DEF n, m
    <3>1. n \in Nat /\ m \in Nat /\ n <= m
      BY <1>1 DEF m
    <3>2. Flattens(g, t, m)
      BY <1>3 DEF m
    <3>3. \A i \in 1..n : t[i] = s[i]
      BY <1>2
    <3>4. \A h : Flattens(h, s, n) => \A i \in 1..n : g[i] = h[i]
      <4> SUFFICES ASSUME NEW h, Flattens(h, s, n)
                   PROVE  \A i \in 1..n : g[i] = h[i]
        OBVIOUS
      <4> QED
        BY <3>1, <3>2, <3>3, FlattensAgree
    <3>5. n \in 1..n
      BY <1>1, <1>7
    <3> QED
      BY <2>1, <3>4, <3>5
  <2>3. FlattenSeq(s) = f[n]
    BY <1>1, <1>7, <2>1, FlattenIsLast
  <2> DEFINE j == n + 1
  <2>4. j \in 1..(n+1) /\ j # 1 /\ j - 1 = n
    BY <1>1, <1>7
  <2> HIDE DEF j
  <2>5. g[j] = g[n] \o t[j]
    BY <1>4, <2>4
  <2>6. g[n + 1] = g[n] \o t[n + 1]
    BY <2>5 DEF j
  <2> QED
    BY <1>2, <1>5, <2>2, <2>3, <2>6 DEF t
<1> QED
  BY <1>6, <1>7

-----------------------------------------------------------------------------
(* Fees                                                                     *)

\* The operations of a row are counted when it is included.
LEMMA OperationCountAppend ==
    ASSUME NEW s \in Seq(Rows), NEW r \in Rows
    PROVE  /\ OperationCount(s) \in Nat
           /\ Len(Operations[r]) \in Nat
           /\ OperationCount(Append(s, r)) =
                OperationCount(s) + Len(Operations[r])
<1> DEFINE ops == [i \in DOMAIN s |-> Operations[s[i]]]
           t == Append(s, r)
           all == [i \in DOMAIN t |-> Operations[t[i]]]
<1>1. \A q \in Rows : Operations[q] \in Seq(KeyNonces)
  BY StrategyAssumption
<1>2. DOMAIN s = 1..Len(s) /\ Len(s) \in Nat /\ \A i \in 1..Len(s) : s[i] \in Rows
  BY LenProperties, ElementOfSeq
<1>3. ops \in Seq(Seq(KeyNonces)) /\ Len(ops) = Len(s)
  BY <1>1, <1>2, IsASeq
<1>4. t \in Seq(Rows) /\ DOMAIN t = 1..(Len(s)+1) /\ t[Len(s)+1] = r
  OBVIOUS
<1>5. \A i \in 1..Len(s) : t[i] = s[i]
  OBVIOUS
<1>6. all = Append(ops, Operations[r])
  <2>1. \A i \in 1..(Len(s)+1) : all[i] = Append(ops, Operations[r])[i]
    BY <1>1, <1>2, <1>3, <1>4, <1>5
  <2>2. all \in Seq(Seq(KeyNonces)) /\ Len(all) = Len(s) + 1
    <3>1. \A i \in 1..(Len(s)+1) : t[i] \in Rows
      BY <1>4
    <3>2. \A i \in 1..(Len(s)+1) : Operations[t[i]] \in Seq(KeyNonces)
      BY <1>1, <3>1
    <3>3. Len(s) + 1 \in Nat
      BY <1>2
    <3> QED
      BY <1>4, <3>2, <3>3, IsASeq
  <2>3. /\ Append(ops, Operations[r]) \in Seq(Seq(KeyNonces))
        /\ Len(Append(ops, Operations[r])) = Len(s) + 1
    BY <1>1, <1>3
  <2> HIDE DEF all, ops, t
  <2> QED
    BY <2>1, <2>2, <2>3, SeqEqual
<1>7. FlattenSeq(ops) \in Seq(KeyNonces)
  BY <1>3, FlattenType
<1>8. FlattenSeq(all) = FlattenSeq(ops) \o Operations[r]
  BY <1>1, <1>3, <1>6, FlattenAppend
<1>9. Len(FlattenSeq(all)) = Len(FlattenSeq(ops)) + Len(Operations[r])
  <2> HIDE DEF all, ops
  <2> QED
    BY <1>1, <1>7, <1>8
<1>10. Len(FlattenSeq(ops)) \in Nat /\ Len(Operations[r]) \in Nat
  BY <1>1, <1>7, LenProperties
<1> QED
  BY <1>9, <1>10 DEF OperationCount

LEMMA NoOperations == OperationCount(<<>>) = 0
<1> DEFINE ops == [i \in DOMAIN <<>> |-> Operations[<<>>[i]]]
<1>1. ops = <<>>
  OBVIOUS
<1>2. Len(ops) = 0
  BY <1>1
<1>3. FlattenSeq(ops) = <<>>
  BY <1>1, <1>2 DEF FlattenSeq
<1> QED
  BY <1>3 DEF OperationCount

\* A share is rounded up.
LEMMA CeilingCovers ==
    ASSUME NEW a \in Nat, NEW b \in Nat \ {0}
    PROVE  Ceiling(a, b) \in Int /\ Ceiling(a, b) * b >= a
<1> DEFINE q == (a + b - 1) \div b
           r == (a + b - 1) % b
<1>1. q \in Int /\ r \in 0..(b-1) /\ a + b - 1 = b * q + r
  OBVIOUS
<1> HIDE DEF q, r
<1>2. q * b = b * q /\ b * q >= a
  BY <1>1
<1> QED
  BY <1>1, <1>2 DEF Ceiling, q

LEMMA Multiplied ==
    ASSUME NEW a \in Int, NEW b \in Int, NEW c \in Nat \ {0}
    PROVE  /\ a >= b => a * c >= b * c
           /\ a * c >= b * c => a >= b
<1>1. a >= b => (a - b) * c >= 0
  OBVIOUS
<1>2. a < b => (b - a) * c >= c
  <2> SUFFICES ASSUME a < b PROVE (b - a) * c >= c
    OBVIOUS
  <2>1. (b - a - 1) * c >= 0
    OBVIOUS
  <2> QED
    BY <2>1
<1>3. (a - b) * c = a * c - b * c /\ (b - a) * c = b * c - a * c
  OBVIOUS
<1> QED
  BY <1>1, <1>2, <1>3

\* The fee that is required of a row covers its gas and its share.
LEMMA RequiredFeeCovers ==
    ASSUME NEW r \in Rows, NEW sim \in Simulations
    PROVE  /\ RequiredFee(r, sim) \in Int
           /\ sim.gas \in Nat /\ sim.fee \in Int
           /\ requireFees =>
                (RequiredFee(r, sim) - sim.gas) * breakeven.num
                    >= (bundleOverheadGas * breakeven.den) * Len(Operations[r])
<1> DEFINE n == Len(Operations[r])
           o == bundleOverheadGas
           num == breakeven.num
           den == breakeven.den
           share == Ceiling(o * n * den, num)
<1>1. Operations[r] \in Seq(KeyNonces)
  BY StrategyAssumption
<1>2. n \in Nat
  BY <1>1, LenProperties
<1>3. o \in Nat /\ num \in Nat \ {0} /\ den \in Nat
  BY StrategyAssumption
<1>4. sim.gas \in Nat /\ sim.fee \in Int
  BY StrategyAssumption DEF Simulations
<1>5. RequiredFee(r, sim) = IF requireFees THEN sim.gas + share ELSE 0
  BY DEF RequiredFee, OverheadContribution
<1> HIDE DEF n, o, num, den, share
<1>6. o * n * den \in Nat /\ o * n * den = (o * den) * n
  BY <1>2, <1>3
<1>7. share \in Int /\ share * num >= o * n * den
  BY <1>3, <1>6, CeilingCovers DEF share
<1>8. RequiredFee(r, sim) \in Int
  BY <1>4, <1>5, <1>7
<1>9. requireFees => RequiredFee(r, sim) - sim.gas = share
  BY <1>4, <1>5, <1>7
<1>10. requireFees => (RequiredFee(r, sim) - sim.gas) * num >= (o * den) * n
  BY <1>6, <1>7, <1>9
<1> QED
  BY <1>4, <1>8, <1>10 DEF n, o, num, den

-----------------------------------------------------------------------------
(* The filter                                                               *)

\* One row of a group is picked.
LEMMA PickBestPicks ==
    ASSUME NEW group, group \subseteq Rows, group # {},
           NEW sims \in [group -> Simulations]
    PROVE  PickBest(group, sims) \in group
<1> DEFINE excess == [r \in group |-> ExcessFee(r, sims[r])]
           best == {r \in group : \A q \in group :
                       ExcessFee(r, sims[r]) >= ExcessFee(q, sims[q])}
<1>1. \A r \in group : excess[r] \in Int
  <2> TAKE r \in group
  <2>1. r \in Rows /\ sims[r] \in Simulations
    OBVIOUS
  <2>2. RequiredFee(r, sims[r]) \in Int /\ sims[r].fee \in Int
    BY <2>1, RequiredFeeCovers
  <2>3. ExcessFee(r, sims[r]) \in Int
    BY <2>2 DEF ExcessFee
  <2> QED
    BY <2>3
<1>2. IsFiniteSet(group)
  BY StrategyAssumption, FS_Subset
<1>3. excess \in [group -> Int]
  BY <1>1
<1>4. \E r \in group : \A q \in group : excess[r] >= excess[q]
  <2> HIDE DEF excess
  <2> QED
    BY <1>2, <1>3, BestExists
<1>5. best # {} /\ best \subseteq Nat
  BY <1>4, StrategyAssumption
<1>6. First(best) \in best
  <2> HIDE DEF best
  <2> QED
    BY <1>5, FirstIsLeast
<1> QED
  BY <1>6 DEF PickBest

\* The keys of a row are among those of the run.
LEMMA KeysOfRows ==
    ASSUME NEW r \in Rows PROVE KeysOf(r) \subseteq KeyNonces
<1>1. Operations[r] \in Seq(KeyNonces)
  BY StrategyAssumption
<1> QED
  BY <1>1, LenProperties DEF KeysOf, Range

-----------------------------------------------------------------------------
(* Included rows                                                            *)

LEMMA IncludedAppend ==
    ASSUME NEW s \in Seq(Rows), NEW r
    PROVE  /\ Range(Append(s, r)) = Range(s) \union {r}
           /\ IsInjective(s) /\ r \notin Range(s) => IsInjective(Append(s, r))
<1>1. Len(s) \in Nat /\ DOMAIN s = 1..Len(s)
  BY LenProperties
<1>2. /\ DOMAIN Append(s, r) = 1..(Len(s)+1)
      /\ Append(s, r)[Len(s)+1] = r
      /\ \A i \in 1..Len(s) : Append(s, r)[i] = s[i]
  OBVIOUS
<1>3. \A i : i \in 1..(Len(s)+1) <=> i \in 1..Len(s) \/ i = Len(s) + 1
  BY <1>1
<1>4. Range(Append(s, r)) = Range(s) \union {r}
  BY <1>1, <1>2, <1>3 DEF Range
<1>5. ASSUME IsInjective(s), r \notin Range(s)
      PROVE  IsInjective(Append(s, r))
  <2>1. \A i, j \in 1..Len(s) : s[i] = s[j] => i = j
    BY <1>1, <1>5 DEF IsInjective
  <2>2. \A i \in 1..Len(s) : s[i] # r
    BY <1>1, <1>5 DEF Range
  <2> QED
    BY <1>2, <1>3, <2>1, <2>2 DEF IsInjective
<1> QED
  BY <1>4, <1>5

LEMMA NothingIncluded == Range(<<>>) = {} /\ IsInjective(<<>>)
BY DEF Range, IsInjective

-----------------------------------------------------------------------------
(* The invariant is inductive                                               *)

LEMMA InitOK == Init => IInv
<1> SUFFICES ASSUME Init PROVE IInv
  OBVIOUS
<1>1. checks \in [{} -> Simulations] /\ DOMAIN checks = {}
  BY DEF Init
<1>2. included = <<>> /\ Range(included) = {} /\ IsInjective(included)
  BY NothingIncluded DEF Init
<1>3. TypeOK
  <2>1. keys \subseteq KeyNonces
    BY KeysOfRows DEF Init
  <2>2. \E checked \in SUBSET Rows : checks \in [checked -> Simulations]
    BY <1>1
  <2>3. included \in Seq(Rows)
    BY <1>2, EmptySeq
  <2>4. /\ step = "filter"
        /\ rows \subseteq Rows /\ eligible \subseteq Rows /\ failed \subseteq Rows
        /\ aggregateGas = bundleOverheadGas
    BY DEF Init
  <2>5. added \in BOOLEAN
    BY DEF Init
  <2>6. expectedFee \in Int
    BY DEF Init
  <2> QED
    BY <2>1, <2>2, <2>3, <2>4, <2>5, <2>6 DEF TypeOK
<1>4. Standing = rows
  BY <1>1, <1>2 DEF Standing, Init
<1>5. OnePlace
  BY <1>1, <1>2, <1>4 DEF Init, OnePlace
<1>6. Apart
  <2>1. \A r \in rows : KeysOf(r) \subseteq keys
    BY DEF Init
  <2> QED
    BY <1>4, <2>1 DEF Apart
<1>7. Stages
  BY <1>1 DEF Init, Stages
<1>8. SharesPaid
  <2>1. /\ bundleOverheadGas \in Int
        /\ breakeven.num \in Int /\ breakeven.den \in Int
    BY StrategyAssumption
  <2>2. expectedFee - aggregateGas + bundleOverheadGas = 0
    BY <2>1 DEF Init
  <2> QED
    BY <1>2, <2>1, <2>2, NoOperations DEF SharesPaid
<1> QED
  BY <1>3, <1>5, <1>6, <1>7, <1>8 DEF IInv

\* Types of what a round works on.
LEMMA TypesOfChecks ==
    ASSUME TypeOK
    PROVE  /\ DOMAIN checks \subseteq Rows
           /\ \A r \in DOMAIN checks : checks[r] \in Simulations
BY DEF TypeOK

\* The filter removes no row unless it leaves a better one, and leaves at most
\* one row with the key.
LEMMA FilterRowsOK == IInv /\ FilterRows => IInv'
<1> SUFFICES ASSUME IInv, FilterRows PROVE IInv'
  OBVIOUS
<1> DEFINE key == NextKey
           group == Having(eligible, key)
<1>1. /\ step = "filter" /\ step' = step
      /\ DOMAIN checks = {} /\ included = <<>> /\ failed = {} /\ ~added
  BY DEF FilterRows, IInv, Stages
<1>2. /\ rows' = rows /\ checks' = checks /\ added' = added
      /\ aggregateGas' = aggregateGas /\ included' = included
      /\ expectedFee' = expectedFee /\ failed' = failed
      /\ keys' = keys \ {key}
  BY DEF FilterRows
<1>3. Range(included) = {}
  BY <1>1, NothingIncluded
<1>4. group \subseteq eligible /\ \A r \in eligible : key \in KeysOf(r) <=> r \in group
  BY DEF Having
<1>5. eligible \subseteq Rows
  BY DEF IInv, TypeOK
<1>6. /\ eligible' \subseteq eligible
      /\ \A q, r \in eligible' : q \in group /\ r \in group => q = r
      /\ eligible # {} => eligible' # {}
  <2>1. CASE NoConflictIn(group)
    BY <1>4, <2>1 DEF FilterRows, NoConflictIn
  <2>2. CASE ~NoConflictIn(group)
    <3>1. PICK sims \in [group -> Simulations] :
              eligible' = eligible \ (group \ {PickBest(group, sims)})
      BY <2>2 DEF FilterRows
    <3>2. group # {} /\ group \subseteq Rows
      BY <1>4, <1>5, <2>2 DEF NoConflictIn
    <3> HIDE DEF group
    <3>3. PickBest(group, sims) \in group
      BY <3>2, PickBestPicks
    <3> QED
      BY <1>4, <3>1, <3>3
  <2> QED
    BY <2>1, <2>2
<1> HIDE DEF key, group
<1>7. TypeOK'
  <2>1. keys' \subseteq KeyNonces /\ eligible' \subseteq Rows
    BY <1>2, <1>6 DEF IInv, TypeOK
  <2> QED
    BY <1>1, <1>2, <2>1 DEF IInv, TypeOK
<1>8. Standing = eligible /\ Standing' = eligible'
  BY <1>1, <1>2, <1>3 DEF Standing
<1>9. OnePlace'
  BY <1>1, <1>2, <1>3, <1>6, <1>8 DEF IInv, OnePlace
<1>10. Apart'
  <2> SUFFICES ASSUME NEW q \in eligible', NEW r \in eligible', q # r,
                      NEW c \in KeysOf(q) \intersect KeysOf(r)
               PROVE  c \in keys \ {key}
    BY <1>2, <1>8 DEF Apart
  <2>1. c \in keys
    BY <1>6, <1>8 DEF IInv, Apart
  <2>2. c # key
    BY <1>4, <1>6
  <2> QED
    BY <2>1, <2>2
<1>11. Stages'
  BY <1>1, <1>2, <1>6 DEF IInv, Stages
<1>12. SharesPaid'
  BY <1>1, <1>2 DEF IInv, SharesPaid, OperationCount
<1> QED
  BY <1>7, <1>9, <1>10, <1>11, <1>12 DEF IInv

LEMMA FilterEndsOK == IInv /\ FilterEnds => IInv'
<1> SUFFICES ASSUME IInv, FilterEnds PROVE IInv'
  OBVIOUS
<1>1. /\ step = "filter" /\ step' = "augment" /\ keys = {}
      /\ UNCHANGED <<rows, keys, eligible, checks, added, aggregateGas,
                     included, expectedFee, failed>>
  BY DEF FilterEnds
<1>2. TypeOK'
  BY <1>1 DEF IInv, TypeOK
<1>3. Standing' = Standing
  BY <1>1 DEF Standing
<1>4. OnePlace' /\ Apart'
  BY <1>1, <1>3 DEF IInv, OnePlace, Apart
<1>5. Stages'
  BY <1>1 DEF IInv, Stages
<1>6. SharesPaid'
  BY <1>1 DEF IInv, SharesPaid, OperationCount
<1> QED
  BY <1>2, <1>4, <1>5, <1>6 DEF IInv

\* Candidates are no longer eligible.
LEMMA CheckCandidatesOK == IInv /\ CheckCandidates => IInv'
<1> SUFFICES ASSUME IInv, CheckCandidates PROVE IInv'
  OBVIOUS
<1>1. /\ step = "augment" /\ step' = "round" /\ added' = FALSE
      /\ eligible' = eligible \ Candidates
      /\ UNCHANGED <<rows, keys, aggregateGas, included, expectedFee, failed>>
  BY DEF CheckCandidates
<1>2. PICK sims \in [Candidates -> Simulations] : checks' = sims
  BY DEF CheckCandidates
<1>3. Candidates \subseteq eligible /\ DOMAIN checks' = Candidates
  BY <1>2 DEF Candidates
<1>4. TypeOK'
  <2>1. Candidates \in SUBSET Rows
    BY <1>3 DEF IInv, TypeOK
  <2>2. \E checked \in SUBSET Rows : checks' \in [checked -> Simulations]
    BY <1>2, <2>1
  <2> QED
    BY <1>1, <2>2 DEF IInv, TypeOK
<1>5. Standing' \subseteq Standing
  BY <1>1, <1>3 DEF Standing
<1>6. OnePlace'
  <2>1. /\ Standing' \union failed' \subseteq rows'
        /\ failed' \intersect Standing' = {}
    BY <1>1, <1>5 DEF IInv, OnePlace
  <2>2. /\ eligible' \intersect DOMAIN checks' = {}
        /\ eligible' \intersect Range(included') = {}
        /\ DOMAIN checks' \intersect Range(included') = {}
    BY <1>1, <1>3 DEF IInv, OnePlace
  <2>3. IsInjective(included')
    BY <1>1 DEF IInv, OnePlace
  <2> QED
    BY <2>1, <2>2, <2>3 DEF OnePlace
<1>7. Apart'
  BY <1>1, <1>5 DEF IInv, Apart
<1>8. Stages'
  BY <1>1 DEF IInv, Stages
<1>9. SharesPaid'
  BY <1>1 DEF IInv, SharesPaid, OperationCount
<1> QED
  BY <1>4, <1>6, <1>7, <1>8, <1>9 DEF IInv

\* What an included row pays covers its gas and its share, so what all of them
\* pay does.
LEMMA SharesAdd ==
    ASSUME NEW f \in Int, NEW g \in Int, NEW fee \in Int, NEW gas \in Int,
           NEW required \in Int, NEW o \in Int, NEW share \in Int,
           NEW count \in Int, NEW n \in Int, NEW num \in Nat \ {0},
           (f - g + o) * num >= share * count,
           (required - gas) * num >= share * n,
           fee >= required
    PROVE  ((f + fee) - (g + gas) + o) * num >= share * (count + n)
<1>1. (fee - gas) * num >= (required - gas) * num
  BY Multiplied
<1>2. ((f + fee) - (g + gas) + o) * num = (f - g + o) * num + (fee - gas) * num
  OBVIOUS
<1>3. share * (count + n) = share * count + share * n
  OBVIOUS
<1>4. /\ (f - g + o) * num \in Int /\ (fee - gas) * num \in Int
      /\ (required - gas) * num \in Int
      /\ share * count \in Int /\ share * n \in Int
  OBVIOUS
<1>5. \A a, b, c, d, e \in Int : a >= d /\ b >= c /\ c >= e => a + b >= d + e
  OBVIOUS
<1>6. (f - g + o) * num + (fee - gas) * num >= share * count + share * n
  BY <1>1, <1>4, <1>5
<1> QED
  BY <1>2, <1>3, <1>6

\* The row that is considered leaves the checks, for the included rows, the
\* failed ones, or neither.
LEMMA ConsiderRowOK == IInv /\ ConsiderRow => IInv'
<1> SUFFICES ASSUME IInv, ConsiderRow PROVE IInv'
  OBVIOUS
<1> DEFINE row == First(DOMAIN checks)
           sim == checks[row]
<1>1. /\ step = "round" /\ DOMAIN checks # {}
      /\ UNCHANGED <<step, rows, keys, eligible>>
  BY DEF ConsiderRow
<1>2. checks' = Restrict(checks, DOMAIN checks \ {row})
  BY DEF ConsiderRow
<1>3. /\ DOMAIN checks \subseteq Rows /\ DOMAIN checks \subseteq Nat
      /\ \A r \in DOMAIN checks : checks[r] \in Simulations
  BY TypesOfChecks, StrategyAssumption DEF IInv
<1>4. row \in DOMAIN checks
  BY <1>1, <1>3, FirstIsLeast
<1>5. row \in Rows /\ sim \in Simulations
  BY <1>3, <1>4
<1>6. DOMAIN checks' = DOMAIN checks \ {row}
  BY <1>2 DEF Restrict
<1>7. \/ /\ failed' = failed \union {row}
         /\ UNCHANGED <<added, aggregateGas, included, expectedFee>>
      \/ UNCHANGED <<added, aggregateGas, included, expectedFee, failed>>
      \/ /\ Success(row, sim) /\ aggregateGas + sim.gas <= maxGasPerBundle
         /\ added' = TRUE
         /\ aggregateGas' = aggregateGas + sim.gas
         /\ included' = Append(included, row)
         /\ expectedFee' = expectedFee + sim.fee
         /\ UNCHANGED failed
  BY DEF ConsiderRow
<1>8. \E checked \in SUBSET Rows : checks' \in [checked -> Simulations]
  <2>1. checks' \in [DOMAIN checks \ {row} -> Simulations]
    BY <1>2, <1>3 DEF Restrict
  <2> QED
    BY <1>3, <2>1
<1>9. /\ included \in Seq(Rows) /\ failed \subseteq Rows
      /\ aggregateGas \in Nat /\ expectedFee \in Int /\ added \in BOOLEAN
  <2>1. aggregateGas \in Nat
    BY StrategyAssumption DEF IInv, TypeOK
  <2> QED
    BY <2>1 DEF IInv, TypeOK
<1>10. sim.gas \in Nat /\ sim.fee \in Int
  BY <1>5, RequiredFeeCovers
<1>11. row \notin eligible /\ row \notin Range(included) /\ row \notin failed
  BY <1>4 DEF IInv, OnePlace, Standing
<1>12. /\ OnePlace /\ Apart /\ Stages /\ SharesPaid
       /\ DOMAIN checks \subseteq Standing
  BY DEF IInv, Standing
<1> HIDE DEF row, sim
<1>13. TypeOK'
  <2>1. included' \in Seq(Rows) /\ failed' \subseteq Rows
    BY <1>5, <1>7, <1>9
  <2>2. expectedFee' \in Int
    BY <1>7, <1>9, <1>10
  <2>3. aggregateGas' \in {bundleOverheadGas} \union (0..maxGasPerBundle)
    BY <1>7, <1>9, <1>10, StrategyAssumption DEF IInv, TypeOK
  <2>4. added' \in BOOLEAN
    BY <1>7, <1>9
  <2> QED
    BY <1>1, <1>8, <2>1, <2>2, <2>3, <2>4 DEF IInv, TypeOK
<1>14. /\ Range(included') \subseteq Range(included) \union {row}
       /\ IsInjective(included')
       /\ Range(included') \intersect failed' = {}
  <2>1. IsInjective(included) /\ Range(included) \intersect failed = {}
    BY DEF IInv, OnePlace, Standing
  <2>2. CASE included' = included
    BY <1>7, <1>11, <2>1, <2>2
  <2>3. CASE included' = Append(included, row) /\ failed' = failed
    BY <1>9, <1>11, <2>1, <2>3, IncludedAppend
  <2> QED
    BY <1>7, <2>2, <2>3
<1>15. failed' \subseteq failed \union {row}
  BY <1>7
<1>16. Standing' \subseteq Standing
  BY <1>1, <1>4, <1>6, <1>14 DEF Standing
<1>17. OnePlace'
  <2>1. Standing' \union failed' \subseteq rows'
    BY <1>1, <1>4, <1>12, <1>15, <1>16 DEF OnePlace
  <2>2. eligible' \intersect DOMAIN checks' = {}
    BY <1>1, <1>6, <1>12 DEF OnePlace
  <2>3. eligible' \intersect Range(included') = {}
    BY <1>1, <1>11, <1>12, <1>14 DEF OnePlace
  <2>4. DOMAIN checks' \intersect Range(included') = {}
    BY <1>6, <1>12, <1>14 DEF OnePlace
  <2>5. failed' \intersect Standing' = {}
    <3>1. failed' \intersect eligible' = {}
      BY <1>1, <1>11, <1>12, <1>15 DEF OnePlace, Standing
    <3>2. failed' \intersect DOMAIN checks' = {}
      BY <1>6, <1>12, <1>15 DEF OnePlace, Standing
    <3> QED
      BY <1>14, <3>1, <3>2 DEF Standing
  <2> QED
    BY <1>14, <2>1, <2>2, <2>3, <2>4, <2>5 DEF OnePlace
<1>18. Apart'
  BY <1>1, <1>12, <1>16 DEF Apart
<1>19. Stages'
  BY <1>1, <1>12 DEF Stages
<1>20. SharesPaid'
  <2> SUFFICES ASSUME requireFees
               PROVE  (expectedFee' - aggregateGas' + bundleOverheadGas) * breakeven.num
                        >= (bundleOverheadGas * breakeven.den) * OperationCount(included')
    BY DEF SharesPaid, OperationCount
  <2>1. (expectedFee - aggregateGas + bundleOverheadGas) * breakeven.num
            >= (bundleOverheadGas * breakeven.den) * OperationCount(included)
    BY <1>1, <1>12 DEF SharesPaid
  <2>2. CASE UNCHANGED <<aggregateGas, included, expectedFee>>
    BY <2>1, <2>2
  <2>3. CASE /\ Success(row, sim)
             /\ aggregateGas' = aggregateGas + sim.gas
             /\ included' = Append(included, row)
             /\ expectedFee' = expectedFee + sim.fee
    <3> DEFINE share == bundleOverheadGas * breakeven.den
               count == OperationCount(included)
               n == Len(Operations[row])
               num == breakeven.num
               required == RequiredFee(row, sim)
               fee == sim.fee
               gas == sim.gas
               o == bundleOverheadGas
    <3>1. count \in Nat /\ n \in Nat /\ OperationCount(included') = count + n
      BY <1>5, <1>9, <2>3, OperationCountAppend
    <3>2. /\ bundleOverheadGas \in Int /\ share \in Int
          /\ breakeven.num \in Nat \ {0}
      BY StrategyAssumption
    <3>3. RequiredFee(row, sim) \in Int /\ sim.fee >= RequiredFee(row, sim)
      BY <1>5, <2>3, RequiredFeeCovers DEF Success
    <3>4. (RequiredFee(row, sim) - sim.gas) * breakeven.num >= share * n
      BY <1>5, RequiredFeeCovers
    <3>5. (expectedFee - aggregateGas + bundleOverheadGas) * breakeven.num
              >= share * count
      BY <2>1
    <3> HIDE DEF share, count, n, num, required, fee, gas, o
    <3>6. /\ expectedFee \in Int /\ aggregateGas \in Int /\ fee \in Int
          /\ gas \in Int /\ required \in Int /\ o \in Int /\ share \in Int
          /\ count \in Int /\ n \in Int /\ num \in Nat \ {0}
      BY <1>9, <1>10, <3>1, <3>2, <3>3 DEF fee, gas, required, o, num
    <3>7. /\ (expectedFee - aggregateGas + o) * num >= share * count
          /\ (required - gas) * num >= share * n
          /\ fee >= required
      BY <3>3, <3>4, <3>5 DEF fee, gas, required, o, num
    <3>8. ((expectedFee + fee) - (aggregateGas + gas) + o) * num >= share * (count + n)
      BY <3>6, <3>7, SharesAdd
    <3> QED
      BY <2>3, <3>1, <3>8 DEF share, fee, gas, o, num
  <2> QED
    BY <1>7, <2>2, <2>3
<1> QED
  BY <1>13, <1>17, <1>18, <1>19, <1>20 DEF IInv

\* The run goes on after a round that added a row.
LEMMA RoundEndsOK == IInv /\ RoundEnds => IInv'
<1> SUFFICES ASSUME IInv, RoundEnds PROVE IInv'
  OBVIOUS
<1>1. /\ step = "round"
      /\ step' = IF added THEN "augment"
                 ELSE IF included = <<>> THEN "done" ELSE "check"
      /\ UNCHANGED <<rows, keys, eligible, checks, added, aggregateGas,
                     included, expectedFee, failed>>
  BY DEF RoundEnds
<1>2. TypeOK'
  BY <1>1 DEF IInv, TypeOK
<1>3. Standing' = Standing
  BY <1>1 DEF Standing
<1>4. OnePlace' /\ Apart'
  BY <1>1, <1>3 DEF IInv, OnePlace, Apart
<1>5. Stages'
  BY <1>1 DEF IInv, Stages
<1>6. SharesPaid'
  BY <1>1 DEF IInv, SharesPaid, OperationCount
<1> QED
  BY <1>2, <1>4, <1>5, <1>6 DEF IInv

\* The aggregate stays, or its rows are given up and some of them fail.
LEMMA CheckAggregateOK == IInv /\ CheckAggregate => IInv'
<1> SUFFICES ASSUME IInv, CheckAggregate PROVE IInv'
  OBVIOUS
<1>1. /\ step = "check" /\ step' = "done"
      /\ UNCHANGED <<rows, keys, eligible, checks, added, aggregateGas, expectedFee>>
  BY DEF CheckAggregate
<1>2. \/ UNCHANGED <<included, failed>>
      \/ /\ included' = <<>>
         /\ failed' \subseteq failed \union Range(included)
  BY DEF CheckAggregate, PreventLosses
<1>3. Range(included) \subseteq rows /\ rows \subseteq Rows
  BY DEF IInv, OnePlace, Standing, TypeOK
<1>4. TypeOK'
  <2>1. included' \in Seq(Rows)
    BY <1>2, EmptySeq DEF IInv, TypeOK
  <2>2. failed' \subseteq Rows
    BY <1>2, <1>3 DEF IInv, TypeOK
  <2> QED
    BY <1>1, <2>1, <2>2 DEF IInv, TypeOK
<1>5. /\ Range(included') \subseteq Range(included)
      /\ IsInjective(included')
      /\ failed' \subseteq rows
      /\ failed' \intersect Range(included') = {}
  BY <1>2, <1>3, NothingIncluded DEF IInv, OnePlace, Standing
<1>6. Standing' \subseteq Standing
  BY <1>1, <1>5 DEF Standing
<1>7. OnePlace'
  <2>1. failed' \intersect (eligible \union DOMAIN checks) = {}
    BY <1>2 DEF IInv, OnePlace, Standing
  <2> QED
    BY <1>1, <1>5, <1>6, <2>1 DEF IInv, OnePlace, Standing
<1>8. Apart'
  BY <1>1, <1>6 DEF IInv, Apart
<1>9. Stages'
  BY <1>1 DEF IInv, Stages
<1>10. SharesPaid'
  BY <1>1, <1>2 DEF IInv, SharesPaid, OperationCount
<1> QED
  BY <1>4, <1>7, <1>8, <1>9, <1>10 DEF IInv

LEMMA UnchangedOK == IInv /\ UNCHANGED vars => IInv'
BY DEF vars, IInv, TypeOK, OnePlace, Apart, Stages, SharesPaid, Standing,
       OperationCount

\* The inductive invariant holds in every state of a run.
THEOREM StrategyInvariance == Spec => []IInv
<1>1. IInv /\ [Next]_vars => IInv'
  BY FilterRowsOK, FilterEndsOK, CheckCandidatesOK, ConsiderRowOK, RoundEndsOK,
     CheckAggregateOK, UnchangedOK DEF Next
<1> QED
  BY InitOK, <1>1, PTL DEF Spec

-----------------------------------------------------------------------------
(* Theorems                                                                 *)

\* Types, among them that the gas of an aggregate stays within the limit once
\* it has a row (augmentAggregateBundle).
THEOREM StrategyTypeCorrect == Spec => []TypeOK
<1>1. IInv => TypeOK
  BY DEF IInv
<1> QED
  BY StrategyInvariance, <1>1, PTL

\* Whatever the rows, their operations and the simulations are, no two rows of
\* an aggregate have an operation of the same key and nonce (filterRows).
THEOREM AggregatesDoNotConflict == Spec => []NoConflicts
<1>1. IInv => NoConflicts
  <2> SUFFICES ASSUME IInv, NEW i \in DOMAIN included, NEW j \in DOMAIN included,
                      i # j
               PROVE  KeysOf(included[i]) \intersect KeysOf(included[j]) = {}
    BY DEF NoConflicts
  <2>1. included[i] \in Standing /\ included[j] \in Standing
    BY DEF Standing, Range
  <2>2. included[i] # included[j] /\ included # <<>>
    BY DEF IInv, OnePlace, IsInjective
  <2>3. keys = {}
    BY <2>2 DEF IInv, Stages
  <2> QED
    BY <2>1, <2>2, <2>3 DEF IInv, Apart
<1> QED
  BY StrategyInvariance, <1>1, PTL

\* However many rows conflict, some row passes the filter (filterRows,
\* pickBest).
THEOREM FilterLeavesARow == Spec => []SomeRowStays
<1>1. IInv => SomeRowStays
  BY DEF IInv, Stages, SomeRowStays
<1> QED
  BY StrategyInvariance, <1>1, PTL

\* Whatever the overhead and breakevenOperationCount are, an aggregate with
\* that many operations is paid for (measureFeeInfo, augmentAggregateBundle).
THEOREM AggregatesPay == Spec => []PaysAtBreakeven
<1>1. IInv => PaysAtBreakeven
  <2> SUFFICES ASSUME IInv, requireFees, included # <<>>, ReachesBreakeven(included)
               PROVE  expectedFee >= aggregateGas
    BY DEF PaysAtBreakeven
  <2> DEFINE o == bundleOverheadGas
             num == breakeven.num
             den == breakeven.den
             count == OperationCount(included)
             surplus == expectedFee - aggregateGas + o
  <2>1. /\ o \in Nat /\ num \in Nat \ {0} /\ den \in Nat \ {0}
        /\ aggregateGas \in Nat
    BY StrategyAssumption DEF IInv, TypeOK
  <2>2. expectedFee \in Int /\ surplus \in Int
    BY <2>1 DEF IInv, TypeOK
  <2>3. count \in Nat
    <3>1. included \in Seq(Rows)
      BY DEF IInv, TypeOK
    <3>2. included[1] \in Rows
      BY <3>1, EmptySeq, ElementOfSeq
    <3> QED
      BY <3>1, <3>2, OperationCountAppend
  <2>4. count * den >= num
    BY DEF ReachesBreakeven
  <2>5. surplus * num >= (o * den) * count
    BY DEF IInv, SharesPaid
  <2> HIDE DEF o, num, den, count, surplus
  <2>6. (o * den) * count = (count * den) * o /\ (count * den) * o >= num * o
    <3>1. count * den \in Int /\ num \in Int
      BY <2>1, <2>3
    <3>2. CASE o = 0
      BY <2>1, <2>3, <3>1, <3>2
    <3>3. CASE o # 0
      <4>1. (count * den) * o >= num * o
        BY <2>1, <2>4, <3>1, <3>3, Multiplied
      <4> QED
        BY <2>1, <2>3, <4>1
    <3> QED
      BY <3>2, <3>3
  <2>7. surplus * num >= o * num
    BY <2>1, <2>2, <2>3, <2>5, <2>6
  <2>8. surplus >= o
    BY <2>1, <2>2, <2>7, Multiplied
  <2> QED
    BY <2>1, <2>2, <2>8 DEF surplus
<1> QED
  BY StrategyInvariance, <1>1, PTL

\* A run answers once, about the rows it was given, with each row of the
\* aggregate in it once and not failed: what MeetsContract says, but for that
\* a run ends.
THEOREM AnswersAsAgreed == Spec => Contract!Answers
<1> DEFINE answer == IF step = "done"
                     THEN [over |-> TRUE, included |-> included, failed |-> failed]
                     ELSE [over |-> FALSE, included |-> <<>>, failed |-> {}]
<1>1. Init => Contract!Init
  BY DEF Init, Contract!Init, Contract!NoAnswer
<1>2. IInv' /\ [Next]_vars => [Contract!Answer]_<<rows, answer>>
  <2> SUFFICES ASSUME IInv', [Next]_vars
               PROVE  Contract!Answer \/ UNCHANGED <<rows, answer>>
    OBVIOUS
  <2>1. CASE UNCHANGED vars
    BY <2>1 DEF vars
  <2>2. CASE FilterRows \/ FilterEnds \/ CheckCandidates \/ ConsiderRow
    <3>1. step # "done" /\ step' # "done" /\ rows' = rows
      BY <2>2 DEF FilterRows, FilterEnds, CheckCandidates, ConsiderRow
    <3> QED
      BY <3>1
  <2>3. CASE RoundEnds \/ CheckAggregate
    <3>1. step # "done" /\ rows' = rows
      BY <2>3 DEF RoundEnds, CheckAggregate
    <3>2. CASE step' # "done"
      BY <3>1, <3>2
    <3>3. CASE step' = "done"
      <4>1. /\ Range(included') \union failed' \subseteq rows
            /\ Range(included') \intersect failed' = {}
            /\ IsInjective(included')
        BY <3>1 DEF IInv, OnePlace, Standing
      <4> QED
        BY <3>1, <3>3, <4>1
           DEF Contract!Answer, Contract!IsResult, Contract!Range,
               Contract!IsInjective, Range, IsInjective
    <3> QED
      BY <3>2, <3>3
  <2> QED
    BY <2>1, <2>2, <2>3 DEF Next
<1> QED
  BY <1>1, <1>2, StrategyInvariance, PTL DEF Spec, Contract!Answers
=============================================================================
