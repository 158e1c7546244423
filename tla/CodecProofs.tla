---------------------------- MODULE CodecProofs ----------------------------
(***************************************************************************)
(* Machine-checked proofs about the codecs: for every number of             *)
(* coefficients, every width of the low bits and every length of a buffer.  *)
(***************************************************************************)
EXTENDS Codec, FiniteSetTheorems, SequenceTheorems, WellFoundedInduction, TLAPS

(***************************************************************************)
(* Numbers                                                                  *)
(***************************************************************************)

(* Every set of numbers has a least one: what stands in for induction.      *)
Less == {w \in Nat \X Nat : w[1] < w[2]}

LEMMA Least ==
  ASSUME NEW T, T \subseteq Nat, T # {}
  PROVE  \E k \in T : \A l \in T : k <= l
<1>1. IsWellFoundedOn(Less, Nat)
  BY NatLessThanWellFounded DEF OpToRel, Less
<1>2. PICK k \in T : \A l \in T : ~ (<<l, k>> \in Less)
  BY <1>1, WFMin
<1>3. ASSUME NEW l \in T
      PROVE  k <= l
  <2>1. k \in Nat /\ l \in Nat /\ ~ (<<l, k>> \in Less)
    BY <1>2
  <2>2. ~ (l < k)
    BY <2>1 DEF Less
  <2>3. QED
    BY <2>1, <2>2
<1>4. QED
  BY <1>2, <1>3

(* A power of 2 counts subsets, of which there is always one.               *)
LEMMA PowerIs == ASSUME NEW k \in Nat PROVE 2^k \in Nat \ {0}
<1>1. IsFiniteSet(1 .. k) /\ Cardinality(1 .. k) = k
  <2>1. 1 \in Int /\ k \in Int
    OBVIOUS
  <2>2. IsFiniteSet(1 .. k) /\ Cardinality(1 .. k) = IF 1 > k THEN 0 ELSE (k - 1) + 1
    BY <2>1, FS_Interval
  <2>3. QED
    BY <2>2
<1>2. IsFiniteSet(SUBSET (1 .. k)) /\ Cardinality(SUBSET (1 .. k)) = 2^k
  <2>1. IsFiniteSet(SUBSET (1 .. k)) /\ Cardinality(SUBSET (1 .. k)) = 2^Cardinality(1 .. k)
    BY <1>1, FS_SUBSET, Zenon
  <2>2. QED
    BY <1>1, <2>1
<1>3. Cardinality(SUBSET (1 .. k)) \in Nat
  BY <1>2, FS_CardinalityType, Zenon
<1>4. Cardinality(SUBSET (1 .. k)) # 0
  <2>1. SUBSET (1 .. k) # {}
    OBVIOUS
  <2>2. QED
    BY <1>2, <2>1, FS_EmptySet, Zenon
<1>5. QED
  BY <1>2, <1>3, <1>4

(* Division by b leaves one rest. *)
LEMMA OneRest ==
  ASSUME NEW b \in Nat \ {0}, NEW d \in Int, NEW e \in Int,
         NEW r \in 0 .. b - 1, NEW s \in 0 .. b - 1, b * d + r = b * e + s
  PROVE  r = s
<1>1. b * (d - e) = s - r
  OBVIOUS
<1>2. CASE d = e
  BY <1>2
<1>3. CASE d > e
  <2>1. PICK f \in Nat : d - e = f + 1
    <3>1. d - e - 1 \in Nat /\ d - e = (d - e - 1) + 1
      BY <1>3
    <3>2. QED
      BY <3>1
  <2>2. b * (f + 1) = b * f + b /\ b * f \in Nat
    BY <2>1
  <2>3. QED
    BY <1>1, <2>1, <2>2
<1>4. CASE d < e
  <2>1. PICK f \in Nat : e - d = f + 1
    <3>1. e - d - 1 \in Nat /\ e - d = (e - d - 1) + 1
      BY <1>4
    <3>2. QED
      BY <3>1
  <2>2. b * (f + 1) = b * f + b /\ b * f \in Nat
    BY <2>1
  <2>3. b * (e - d) = r - s
    OBVIOUS
  <2>4. QED
    BY <2>1, <2>2, <2>3
<1>5. QED
  BY <1>2, <1>3, <1>4

(* What is missing to a multiple of b. *)
LEMMA Missing ==
  ASSUME NEW b \in Nat \ {0}, NEW a \in Nat
  PROVE  /\ (-a) % b \in 0 .. b - 1
         /\ \E m \in Int : a + ((-a) % b) = b * m
<1>1. (-a) % b \in 0 .. b - 1
  OBVIOUS
<1>2. PICK d \in Int, r \in Int : d = (-a) \div b /\ r = (-a) % b
  OBVIOUS
<1>3. -a = b * d + r
  BY <1>2
<1>4. a + r = b * (-d) /\ -d \in Int
  <2>1. b * (-d) = -(b * d)
    OBVIOUS
  <2>2. QED
    BY <1>3, <2>1
<1>5. QED
  BY <1>1, <1>2, <1>4

LEMMA MissingSame ==
  ASSUME NEW b \in Nat \ {0}, NEW a \in Nat, NEW k \in Nat
  PROVE  (-(b * k + a)) % b = (-a) % b
<1>1. b * k + a \in Nat
  OBVIOUS
<1>2. PICK m \in Int : a + ((-a) % b) = b * m
  BY Missing
<1>3. PICK l \in Int : (b * k + a) + ((-(b * k + a)) % b) = b * l
  BY <1>1, Missing
<1>4. (-a) % b \in 0 .. b - 1 /\ (-(b * k + a)) % b \in 0 .. b - 1
  BY <1>1, Missing
<1>5. PICK r \in 0 .. b - 1, s \in 0 .. b - 1 : r = (-a) % b /\ s = (-(b * k + a)) % b
  BY <1>4
<1>6. b * (-m) + r = b * (k - l) + s
  <2>1. a + r = b * m /\ b * k + a + s = b * l
    BY <1>2, <1>3, <1>5
  <2>2. b * (-m) = -(b * m) /\ b * (k - l) = b * k - b * l
    OBVIOUS
  <2>3. QED
    BY <2>1, <2>2
<1>7. -m \in Int /\ k - l \in Int
  OBVIOUS
<1>8. r = s
  BY <1>6, <1>7, OneRest
<1>9. QED
  BY <1>5, <1>8

(* A set of k + 1 elements has twice the subsets of one of k.               *)
LEMMA PowerNext == ASSUME NEW k \in Nat PROVE 2^(k + 1) = 2 * 2^k
<1> DEFINE A == SUBSET (1 .. k)
           B == SUBSET (1 .. k + 1)
           f == [T \in B |-> <<T \ {k + 1}, IF k + 1 \in T THEN 1 ELSE 0>>]
<1>1. IsFiniteSet(1 .. k) /\ Cardinality(1 .. k) = k
  <2>1. 1 \in Int /\ k \in Int
    OBVIOUS
  <2>2. IsFiniteSet(1 .. k) /\ Cardinality(1 .. k) = IF 1 > k THEN 0 ELSE (k - 1) + 1
    BY <2>1, FS_Interval
  <2>3. QED
    BY <2>2
<1>2. IsFiniteSet(1 .. k + 1) /\ Cardinality(1 .. k + 1) = k + 1
  <2>1. 1 \in Int /\ k + 1 \in Int
    OBVIOUS
  <2>2. /\ IsFiniteSet(1 .. k + 1)
        /\ Cardinality(1 .. k + 1) = IF 1 > k + 1 THEN 0 ELSE ((k + 1) - 1) + 1
    BY <2>1, FS_Interval
  <2>3. QED
    BY <2>2
<1>3. IsFiniteSet(A) /\ Cardinality(A) = 2^k
  BY <1>1, FS_SUBSET
<1>4. IsFiniteSet(B) /\ Cardinality(B) = 2^(k + 1)
  BY <1>2, FS_SUBSET
<1>5. IsFiniteSet(0 .. 1) /\ Cardinality(0 .. 1) = 2
  <2>1. 0 \in Int /\ 1 \in Int
    OBVIOUS
  <2>2. IsFiniteSet(0 .. 1) /\ Cardinality(0 .. 1) = IF 0 > 1 THEN 0 ELSE (1 - 0) + 1
    BY <2>1, FS_Interval
  <2>3. QED
    BY <2>2
<1>6. IsFiniteSet(A \X (0 .. 1)) /\ Cardinality(A \X (0 .. 1)) = 2^k * 2
  <2>1. PICK R, T : R = A /\ T = 0 .. 1
    OBVIOUS
  <2>2. IsFiniteSet(R) /\ IsFiniteSet(T)
    BY <1>3, <1>5, <2>1
  <2>3. IsFiniteSet(R \X T) /\ Cardinality(R \X T) = Cardinality(R) * Cardinality(T)
    BY ONLY <2>2, FS_Product
  <2>4. QED
    BY <1>3, <1>5, <2>1, <2>3, Zenon
<1>7. f \in Bijection(B, A \X (0 .. 1))
  <2>1. \A T \in B : T \ {k + 1} \in A
    OBVIOUS
  <2>2. f \in [B -> A \X (0 .. 1)]
    <3>1. ASSUME NEW T \in B
          PROVE  f[T] \in A \X (0 .. 1)
      <4>1. PICK R \in A : R = T \ {k + 1}
        BY <2>1
      <4>2. PICK b \in 0 .. 1 : b = IF k + 1 \in T THEN 1 ELSE 0
        OBVIOUS
      <4>3. f[T] = <<R, b>>
        BY <4>1, <4>2
      <4>4. QED
        BY <4>3
    <3>2. f = [T \in B |-> f[T]]
      OBVIOUS
    <3>3. QED
      BY <3>1, <3>2
  <2>3. ASSUME NEW T \in B, NEW U \in B, f[T] = f[U]
        PROVE  T = U
    <3>1. T \ {k + 1} = U \ {k + 1} /\ (k + 1 \in T <=> k + 1 \in U)
      BY <2>3
    <3>2. QED
      BY <3>1
  <2>4. ASSUME NEW p \in A \X (0 .. 1)
        PROVE  \E T \in B : f[T] = p
    <3>1. PICK R \in A, b \in 0 .. 1 : p = <<R, b>>
      OBVIOUS
    <3>2. k + 1 \notin R
      BY <3>1
    <3>3. CASE b = 1
      <4>1. R \cup {k + 1} \in B /\ (R \cup {k + 1}) \ {k + 1} = R /\ k + 1 \in R \cup {k + 1}
        BY <3>2, <3>3
      <4>2. PICK T \in B : T = R \cup {k + 1}
        BY <4>1
      <4>3. f[T] = <<R, 1>>
        BY <4>1, <4>2
      <4>4. QED
        BY <3>1, <3>3, <4>3
    <3>4. CASE b # 1
      <4>1. R \in B /\ R \ {k + 1} = R /\ b = 0
        BY <3>2, <3>4
      <4>2. QED
        BY <3>1, <4>1
    <3>5. QED
      BY <3>3, <3>4
  <2>5. QED
    BY <2>2, <2>3, <2>4 DEF Bijection, Injection, Surjection, IsInjective
<1>8. Cardinality(A \X (0 .. 1)) = Cardinality(B)
  BY <1>4, <1>7, FS_Bijection DEF ExistsBijection
<1>9. 2^k \in Int
  BY PowerIs
<1>10. QED
  BY <1>4, <1>6, <1>8, <1>9

(***************************************************************************)
(* Sequences put end to end                                                 *)
(***************************************************************************)

AllIn(T, a, b, c) == a \in Seq(T) /\ b \in Seq(T) /\ c \in Seq(T)

Grouping(a, b, c) == (a \o b) \o c = a \o (b \o c)

LEMMA Regrouping ==
  ASSUME NEW T, NEW a, NEW b, NEW c, AllIn(T, a, b, c)
  PROVE  Grouping(a, b, c)
<1>1. a \in Seq(T) /\ b \in Seq(T) /\ c \in Seq(T)
  BY DEF AllIn
<1>2. (a \o b) \o c = a \o (b \o c)
  BY <1>1
<1>3. QED
  BY <1>2, Zenon DEF Grouping

LEMMA Regroup ==
  ASSUME NEW T, NEW a, NEW b, NEW c, AllIn(T, a, b, c)
  PROVE  (a \o b) \o c = a \o (b \o c)
<1>1. Grouping(a, b, c)
  BY Regrouping
<1>2. QED
  BY <1>1, Zenon DEF Grouping

(* z is a and then b, element by element.                                   *)
Concatenated(T, z, a, b) ==
  /\ z \in Seq(T)
  /\ Len(z) = Len(a) + Len(b)
  /\ \A i \in 1 .. Len(a) + Len(b) : z[i] = IF i <= Len(a) THEN a[i] ELSE b[i - Len(a)]

LEMMA Concatenate ==
  ASSUME NEW T, NEW a, NEW b, NEW z, a \in Seq(T), b \in Seq(T), z = a \o b
  PROVE  Concatenated(T, z, a, b)
BY ConcatProperties DEF Concatenated

(* f is what FlattenSeq(s) goes through, up to the m-th sequence.           *)
Flattens(f, s, m) ==
  f = [i \in 1 .. m |-> IF i = 1 THEN s[i] ELSE f[i - 1] \o s[i]]

LEMMA FlattensExists ==
  ASSUME NEW s, NEW m \in Nat
  PROVE  \E f : Flattens(f, s, m)
<1> DEFINE Without == {l \in Nat : ~ \E f : Flattens(f, s, l)}
<1>1. SUFFICES ASSUME Without # {} PROVE FALSE
  OBVIOUS
<1>2. PICK l \in Without : \A j \in Without : l <= j
  <2>1. Without \subseteq Nat
    OBVIOUS
  <2>2. QED
    BY <1>1, <2>1, Least
<1>3. l \in Nat /\ ~ \E f : Flattens(f, s, l)
  BY <1>2
<1>4. l # 0
  <2>1. SUFFICES ASSUME l = 0 PROVE FALSE
    OBVIOUS
  <2>2. Flattens(<< >>, s, 0)
    BY DEF Flattens
  <2>3. QED
    BY <1>3, <2>1, <2>2
<1>5. PICK f : Flattens(f, s, l - 1)
  <2>1. l - 1 \in Nat /\ ~ (l <= l - 1)
    BY <1>3, <1>4
  <2>2. l - 1 \notin Without
    BY <1>2, <2>1
  <2>3. QED
    BY <2>1, <2>2
<1> DEFINE next == IF l = 1 THEN s[l] ELSE f[l - 1] \o s[l]
           g == [i \in 1 .. l |-> IF i = l THEN next ELSE f[i]]
<1>6. ASSUME NEW i \in 1 .. l
      PROVE  g[i] = IF i = 1 THEN s[i] ELSE g[i - 1] \o s[i]
  <2>1. CASE i = l
    <3>1. g[i] = next
      BY <2>1
    <3>2. i # 1 => g[i - 1] = f[l - 1]
      BY <1>3, <2>1
    <3>3. QED
      BY <2>1, <3>1, <3>2
  <2>2. CASE i # l
    <3>1. i \in 1 .. l - 1 /\ g[i] = f[i]
      BY <1>3, <2>2
    <3>2. f[i] = IF i = 1 THEN s[i] ELSE f[i - 1] \o s[i]
      BY <1>5, <3>1 DEF Flattens
    <3>3. i # 1 => g[i - 1] = f[i - 1]
      BY <1>3, <2>2, <3>1
    <3>4. QED
      BY <3>1, <3>2, <3>3
  <2>3. QED
    BY <2>1, <2>2
<1>7. g = [i \in 1 .. l |-> g[i]]
  OBVIOUS
<1> HIDE DEF g
<1>8. Flattens(g, s, l)
  BY <1>6, <1>7, Zenon DEF Flattens
<1>9. QED
  BY <1>3, <1>8

LEMMA FlattensAgree ==
  ASSUME NEW m \in Nat, NEW l \in Nat, NEW s, NEW t, NEW f, NEW g,
         m <= l, Flattens(f, s, m), Flattens(g, t, l), \A i \in 1 .. m : s[i] = t[i]
  PROVE  \A i \in 1 .. m : f[i] = g[i]
<1> DEFINE Differ == {i \in 1 .. m : f[i] # g[i]}
<1>1. SUFFICES ASSUME Differ # {} PROVE FALSE
  OBVIOUS
<1>2. PICK i \in Differ : \A j \in Differ : i <= j
  <2>1. Differ \subseteq Nat
    OBVIOUS
  <2>2. QED
    BY <1>1, <2>1, Least
<1>3. i \in 1 .. m /\ i \in 1 .. l /\ f[i] # g[i] /\ s[i] = t[i]
  BY <1>2
<1>4. /\ f[i] = IF i = 1 THEN s[i] ELSE f[i - 1] \o s[i]
      /\ g[i] = IF i = 1 THEN t[i] ELSE g[i - 1] \o t[i]
  BY <1>3 DEF Flattens
<1>5. i # 1
  BY <1>3, <1>4
<1>6. i - 1 \in 1 .. m /\ ~ (i <= i - 1)
  BY <1>3, <1>5
<1>7. f[i - 1] = g[i - 1]
  BY <1>2, <1>6
<1>8. QED
  BY <1>3, <1>4, <1>5, <1>7

LEMMA FlattensIn ==
  ASSUME NEW T, NEW s \in Seq(Seq(T)), NEW f, Flattens(f, s, Len(s))
  PROVE  \A i \in 1 .. Len(s) : f[i] \in Seq(T)
<1> DEFINE Not == {i \in 1 .. Len(s) : f[i] \notin Seq(T)}
<1>1. SUFFICES ASSUME Not # {} PROVE FALSE
  OBVIOUS
<1>2. PICK i \in Not : \A j \in Not : i <= j
  <2>1. Not \subseteq Nat
    OBVIOUS
  <2>2. QED
    BY <1>1, <2>1, Least
<1>3. i \in 1 .. Len(s) /\ f[i] \notin Seq(T) /\ s[i] \in Seq(T)
  BY <1>2
<1>4. f[i] = IF i = 1 THEN s[i] ELSE f[i - 1] \o s[i]
  BY <1>3 DEF Flattens
<1>5. i # 1
  BY <1>3, <1>4
<1>6. i - 1 \in 1 .. Len(s) /\ ~ (i <= i - 1)
  BY <1>3, <1>5
<1>7. f[i - 1] \in Seq(T)
  BY <1>2, <1>6
<1>8. f[i - 1] \o s[i] \in Seq(T)
  BY <1>3, <1>7, ConcatProperties
<1>9. QED
  BY <1>3, <1>4, <1>5, <1>8

LEMMA FlattenSeqIs ==
  ASSUME NEW s, Len(s) \in Nat, Len(s) # 0
  PROVE  \E f : Flattens(f, s, Len(s)) /\ FlattenSeq(s) = f[Len(s)]
<1> DEFINE f == CHOOSE f : Flattens(f, s, Len(s))
<1>1. Flattens(f, s, Len(s))
  BY FlattensExists
<1>2. FlattenSeq(s) = f[Len(s)]
  BY Zenon DEF FlattenSeq, Flattens
<1>3. QED
  BY <1>1, <1>2

LEMMA FlattenNone == FlattenSeq(<< >>) = << >>
BY DEF FlattenSeq

LEMMA FlattenAppend ==
  ASSUME NEW T, NEW s \in Seq(Seq(T)), NEW e \in Seq(T)
  PROVE  /\ FlattenSeq(s) \in Seq(T)
         /\ FlattenSeq(Append(s, e)) = FlattenSeq(s) \o e
         /\ Append(s, e) \in Seq(Seq(T))
<1> DEFINE t == Append(s, e)
<1>1. /\ t \in Seq(Seq(T)) /\ Len(t) = Len(s) + 1 /\ Len(s) \in Nat
      /\ \A i \in 1 .. Len(s) : t[i] = s[i]
      /\ t[Len(s) + 1] = e
  OBVIOUS
<1> HIDE DEF t
<1>2. PICK g : Flattens(g, t, Len(t)) /\ FlattenSeq(t) = g[Len(t)]
  BY <1>1, FlattenSeqIs
<1>3. CASE Len(s) = 0
  <2>1. s = << >>
    BY <1>3
  <2>2. g[1] = e
    BY <1>1, <1>2, <1>3 DEF Flattens
  <2>3. FlattenSeq(s) = << >> /\ << >> \in Seq(T) /\ << >> \o e = e
    BY <2>1, FlattenNone
  <2>4. QED
    BY <1>1, <1>2, <1>3, <2>2, <2>3 DEF t
<1>4. CASE Len(s) # 0
  <2>1. PICK f : Flattens(f, s, Len(s)) /\ FlattenSeq(s) = f[Len(s)]
    BY <1>1, <1>4, FlattenSeqIs
  <2>2. f[Len(s)] = g[Len(s)]
    <3>1. Len(s) <= Len(t) /\ Len(t) \in Nat /\ \A i \in 1 .. Len(s) : s[i] = t[i]
      BY <1>1
    <3>2. Len(s) \in Nat /\ Flattens(f, s, Len(s)) /\ Flattens(g, t, Len(t))
      BY <1>1, <1>2, <2>1
    <3>3. \A i \in 1 .. Len(s) : f[i] = g[i]
      <4>1. PICK m \in Nat, l \in Nat : m = Len(s) /\ l = Len(t)
        BY <3>1, <3>2
      <4>2. m <= l /\ (\A i \in 1 .. m : s[i] = t[i]) /\ Flattens(f, s, m) /\ Flattens(g, t, l)
        BY <3>1, <3>2, <4>1
      <4>3. \A i \in 1 .. m : f[i] = g[i]
        BY ONLY <4>2, m \in Nat, l \in Nat, FlattensAgree
      <4>4. QED
        BY <4>1, <4>3
    <3>4. QED
      BY <1>1, <1>4, <3>3
  <2>3. f[Len(s)] \in Seq(T)
    <3>1. \A i \in 1 .. Len(s) : f[i] \in Seq(T)
      BY ONLY <2>1, s \in Seq(Seq(T)), FlattensIn
    <3>2. Len(s) \in 1 .. Len(s)
      BY <1>1, <1>4
    <3>3. QED
      BY ONLY <3>1, <3>2
  <2>4. g[Len(t)] = g[Len(s)] \o e
    <3>1. Len(t) \in 1 .. Len(t) /\ Len(t) # 1 /\ Len(t) - 1 = Len(s)
      BY <1>1, <1>4
    <3>2. g[Len(t)] = g[Len(t) - 1] \o t[Len(t)]
      BY <1>2, <3>1 DEF Flattens
    <3>3. QED
      BY <1>1, <3>1, <3>2
  <2>5. QED
    BY <1>1, <1>2, <2>1, <2>2, <2>3, <2>4 DEF t
<1>5. QED
  BY <1>3, <1>4

LEMMA FlattenIs ==
  ASSUME NEW T, NEW s \in Seq(Seq(T))
  PROVE  FlattenSeq(s) \in Seq(T)
<1>1. << >> \in Seq(T)
  OBVIOUS
<1>2. QED
  BY <1>1, FlattenAppend

LEMMA FlattenConcat ==
  ASSUME NEW T, NEW s \in Seq(Seq(T)), NEW t \in Seq(Seq(T))
  PROVE  FlattenSeq(s \o t) = FlattenSeq(s) \o FlattenSeq(t)
<1> DEFINE Right(r) == FlattenSeq(s \o r) = FlattenSeq(s) \o FlattenSeq(r)
           Wrong == {l \in Nat : \E r \in Seq(Seq(T)) : Len(r) = l /\ ~Right(r)}
<1>1. SUFFICES ASSUME Wrong # {} PROVE FALSE
  <2>1. Len(t) \in Nat
    OBVIOUS
  <2>2. QED
    BY <2>1, Zenon
<1>2. PICK l \in Wrong : \A j \in Wrong : l <= j
  <2>1. Wrong \subseteq Nat
    OBVIOUS
  <2>2. QED
    BY <1>1, <2>1, Least
<1>3. PICK r \in Seq(Seq(T)) : Len(r) = l /\ ~Right(r)
  BY <1>2
<1>4. r # << >>
  <2>1. SUFFICES ASSUME r = << >> PROVE FALSE
    OBVIOUS
  <2>2. s \o << >> = s
    OBVIOUS
  <2>3. FlattenSeq(s) \o << >> = FlattenSeq(s)
    BY FlattenIs, ConcatEmptySeq
  <2>4. QED
    BY <1>3, <2>1, <2>2, <2>3, FlattenNone
<1>5. PICK h \in Seq(Seq(T)), e \in Seq(T) : r = Append(h, e)
  BY <1>4, SequenceEmptyOrAppend
<1>6. Right(h)
  <2>1. Len(h) \in Nat /\ l = Len(h) + 1
    BY <1>3, <1>5
  <2>2. ~ (l <= Len(h))
    BY <2>1
  <2>3. Len(h) \notin Wrong
    BY <1>2, <2>2
  <2>4. QED
    BY <2>1, <2>3
<1>7. s \o r = Append(s \o h, e) /\ s \o h \in Seq(Seq(T))
  <2>1. PICK U : U = Seq(T)
    OBVIOUS
  <2>2. s \in Seq(U) /\ h \in Seq(U) /\ <<e>> \in Seq(U) /\ s \o h \in Seq(U) /\ e \in U
    BY <1>5, <2>1
  <2>3. r = h \o <<e>> /\ Append(s \o h, e) = (s \o h) \o <<e>>
    BY <1>5, <2>2, AppendIsConcat
  <2>4. (s \o h) \o <<e>> = s \o (h \o <<e>>)
    <3>1. AllIn(U, s, h, <<e>>)
      BY <2>2 DEF AllIn
    <3>2. Grouping(s, h, <<e>>)
      BY ONLY <3>1, Regrouping
    <3>3. QED
      BY <3>2, Zenon DEF Grouping
  <2>5. QED
    BY <2>1, <2>2, <2>3, <2>4
<1>8. /\ FlattenSeq(Append(s \o h, e)) = FlattenSeq(s \o h) \o e
      /\ FlattenSeq(Append(h, e)) = FlattenSeq(h) \o e
  <2>1. FlattenSeq(Append(s \o h, e)) = FlattenSeq(s \o h) \o e
    <3>1. PICK y : y = s \o h
      OBVIOUS
    <3>2. y \in Seq(Seq(T))
      BY <1>7, <3>1
    <3>3. FlattenSeq(Append(y, e)) = FlattenSeq(y) \o e
      BY ONLY <3>2, e \in Seq(T), FlattenAppend
    <3>4. QED
      BY <3>1, <3>3, Zenon
  <2>2. FlattenSeq(Append(h, e)) = FlattenSeq(h) \o e
    BY FlattenAppend
  <2>3. QED
    BY <2>1, <2>2
<1>9. (FlattenSeq(s) \o FlattenSeq(h)) \o e = FlattenSeq(s) \o (FlattenSeq(h) \o e)
  <2>1. FlattenSeq(s) \in Seq(T) /\ FlattenSeq(h) \in Seq(T)
    BY FlattenIs
  <2>2. AllIn(T, FlattenSeq(s), FlattenSeq(h), e)
    BY <1>5, <2>1 DEF AllIn
  <2>3. PICK f, g : f = FlattenSeq(s) /\ g = FlattenSeq(h)
    OBVIOUS
  <2>4. AllIn(T, f, g, e)
    BY <2>2, <2>3
  <2>5. Grouping(f, g, e)
    BY ONLY <2>4, Regrouping
  <2>6. QED
    BY <2>3, <2>5, Zenon DEF Grouping
<1>10. QED
  BY <1>3, <1>5, <1>6, <1>7, <1>8, <1>9

LEMMA FlattenOne ==
  ASSUME NEW T, NEW e \in Seq(T)
  PROVE  FlattenSeq(<<e>>) = e
<1>1. << >> \in Seq(Seq(T)) /\ Append(<< >>, e) = <<e>>
  OBVIOUS
<1>2. FlattenSeq(<<e>>) = << >> \o e
  BY <1>1, FlattenAppend, FlattenNone
<1>3. QED
  BY <1>2, ConcatEmptySeq

(***************************************************************************)
(* Numbers in binary                                                        *)
(***************************************************************************)

(* f is what Number(s) goes through, up to the m-th bit.                    *)
Values(f, s, m) ==
  f = [i \in 0 .. m |-> IF i = 0 THEN 0 ELSE 2 * f[i - 1] + s[i]]

LEMMA ValuesExist ==
  ASSUME NEW s, NEW m \in Nat
  PROVE  \E f : Values(f, s, m)
<1> DEFINE Without == {l \in Nat : ~ \E f : Values(f, s, l)}
<1>1. SUFFICES ASSUME Without # {} PROVE FALSE
  OBVIOUS
<1>2. PICK l \in Without : \A j \in Without : l <= j
  <2>1. Without \subseteq Nat
    OBVIOUS
  <2>2. QED
    BY <1>1, <2>1, Least
<1>3. l \in Nat /\ ~ \E f : Values(f, s, l)
  BY <1>2
<1>4. l # 0
  <2>1. SUFFICES ASSUME l = 0 PROVE FALSE
    OBVIOUS
  <2>2. Values([i \in 0 .. 0 |-> 0], s, 0)
    BY DEF Values
  <2>3. QED
    BY <1>3, <2>1, <2>2
<1>5. PICK f : Values(f, s, l - 1)
  <2>1. l - 1 \in Nat /\ ~ (l <= l - 1)
    BY <1>3, <1>4
  <2>2. l - 1 \notin Without
    BY <1>2, <2>1
  <2>3. QED
    BY <2>1, <2>2
<1> DEFINE next == 2 * f[l - 1] + s[l]
           g == [i \in 0 .. l |-> IF i = l THEN next ELSE f[i]]
<1>6. ASSUME NEW i \in 0 .. l
      PROVE  g[i] = IF i = 0 THEN 0 ELSE 2 * g[i - 1] + s[i]
  <2>1. CASE i = l
    <3>1. g[i] = next
      BY <2>1
    <3>2. g[i - 1] = f[l - 1]
      BY <1>3, <1>4, <2>1
    <3>3. QED
      BY <1>4, <2>1, <3>1, <3>2
  <2>2. CASE i # l
    <3>1. i \in 0 .. l - 1 /\ g[i] = f[i]
      BY <1>3, <2>2
    <3>2. f[i] = IF i = 0 THEN 0 ELSE 2 * f[i - 1] + s[i]
      BY <1>5, <3>1 DEF Values
    <3>3. i # 0 => g[i - 1] = f[i - 1]
      BY <1>3, <2>2, <3>1
    <3>4. QED
      BY <3>1, <3>2, <3>3
  <2>3. QED
    BY <2>1, <2>2
<1>7. g = [i \in 0 .. l |-> g[i]]
  OBVIOUS
<1> HIDE DEF g
<1>8. Values(g, s, l)
  BY <1>6, <1>7, Zenon DEF Values
<1>9. QED
  BY <1>3, <1>8

LEMMA ValuesAgree ==
  ASSUME NEW m \in Nat, NEW l \in Nat, NEW s, NEW t, NEW f, NEW g,
         m <= l, Values(f, s, m), Values(g, t, l), \A i \in 1 .. m : s[i] = t[i]
  PROVE  \A i \in 0 .. m : f[i] = g[i]
<1> DEFINE Differ == {i \in 0 .. m : f[i] # g[i]}
<1>1. SUFFICES ASSUME Differ # {} PROVE FALSE
  OBVIOUS
<1>2. PICK i \in Differ : \A j \in Differ : i <= j
  <2>1. Differ \subseteq Nat
    OBVIOUS
  <2>2. QED
    BY <1>1, <2>1, Least
<1>3. i \in 0 .. m /\ i \in 0 .. l /\ f[i] # g[i]
  BY <1>2
<1>4. /\ f[i] = IF i = 0 THEN 0 ELSE 2 * f[i - 1] + s[i]
      /\ g[i] = IF i = 0 THEN 0 ELSE 2 * g[i - 1] + t[i]
  BY <1>3 DEF Values
<1>5. i # 0
  BY <1>3, <1>4
<1>6. i - 1 \in 0 .. m /\ ~ (i <= i - 1) /\ i \in 1 .. m
  BY <1>3, <1>5
<1>7. f[i - 1] = g[i - 1] /\ s[i] = t[i]
  BY <1>2, <1>6
<1>8. QED
  BY <1>3, <1>4, <1>5, <1>7

LEMMA NumberIs ==
  ASSUME NEW s, Len(s) \in Nat
  PROVE  \E f : Values(f, s, Len(s)) /\ Number(s) = f[Len(s)]
<1> DEFINE f == CHOOSE f : Values(f, s, Len(s))
<1>1. Values(f, s, Len(s))
  BY ValuesExist
<1>2. Number(s) = f[Len(s)]
  BY Zenon DEF Number, Values
<1>3. QED
  BY <1>1, <1>2

LEMMA NumberNone == Number(<< >>) = 0
<1>1. Len(<< >>) = 0
  OBVIOUS
<1>2. PICK f : Values(f, << >>, Len(<< >>)) /\ Number(<< >>) = f[Len(<< >>)]
  BY <1>1, NumberIs
<1>3. f[0] = 0
  BY <1>1, <1>2 DEF Values
<1>4. QED
  BY <1>1, <1>2, <1>3

LEMMA NumberAppend ==
  ASSUME NEW s \in Seq(Bit), NEW b \in Bit
  PROVE  Number(Append(s, b)) = 2 * Number(s) + b
<1> DEFINE t == Append(s, b)
<1>1. /\ t \in Seq(Bit) /\ Len(t) = Len(s) + 1 /\ Len(s) \in Nat
      /\ \A i \in 1 .. Len(s) : t[i] = s[i]
      /\ t[Len(s) + 1] = b
  OBVIOUS
<1> HIDE DEF t
<1>2. PICK g : Values(g, t, Len(t)) /\ Number(t) = g[Len(t)]
  BY <1>1, NumberIs
<1>3. PICK f : Values(f, s, Len(s)) /\ Number(s) = f[Len(s)]
  BY <1>1, NumberIs
<1>4. f[Len(s)] = g[Len(s)]
  <2>1. PICK m \in Nat, l \in Nat : m = Len(s) /\ l = Len(t)
    BY <1>1
  <2>2. m <= l /\ Values(f, s, m) /\ Values(g, t, l) /\ \A i \in 1 .. m : s[i] = t[i]
    BY <1>1, <1>2, <1>3, <2>1
  <2>3. \A i \in 0 .. m : f[i] = g[i]
    BY ONLY <2>2, m \in Nat, l \in Nat, ValuesAgree
  <2>4. QED
    BY <2>1, <2>3
<1>5. g[Len(t)] = 2 * g[Len(s)] + b
  <2>1. Len(t) \in 0 .. Len(t) /\ Len(t) # 0 /\ Len(t) - 1 = Len(s)
    BY <1>1
  <2>2. g[Len(t)] = 2 * g[Len(t) - 1] + t[Len(t)]
    BY <1>2, <2>1 DEF Values
  <2>3. QED
    BY <1>1, <2>1, <2>2
<1>6. QED
  BY <1>2, <1>3, <1>4, <1>5 DEF t

LEMMA BinaryIs ==
  ASSUME NEW k \in Nat, NEW w \in Nat
  PROVE  Binary(k, w) \in Seq(Bit) /\ Len(Binary(k, w)) = w
<1>1. ASSUME NEW b \in 1 .. w
      PROVE  (k \div 2^(w - b)) % 2 \in Bit
  <2>1. w - b \in Nat
    OBVIOUS
  <2>2. PICK p \in Nat \ {0} : p = 2^(w - b)
    BY <2>1, PowerIs
  <2>3. PICK d \in Int : d = k \div p
    OBVIOUS
  <2>4. d % 2 \in Bit
    BY DEF Bit
  <2>5. QED
    BY <2>2, <2>3, <2>4
<1>2. Binary(k, w) = [b \in 1 .. w |-> (k \div 2^(w - b)) % 2]
  BY DEF Binary
<1>3. Binary(k, w) \in [1 .. w -> Bit]
  BY <1>1, <1>2, Zenon
<1>4. QED
  BY <1>3

LEMMA OneQuotient ==
  ASSUME NEW b \in Nat \ {0}, NEW d \in Int, NEW r \in 0 .. b - 1
  PROVE  (b * d + r) \div b = d /\ (b * d + r) % b = r
<1>1. PICK x \in Int : x = b * d + r
  OBVIOUS
<1>2. PICK e \in Int, s \in 0 .. b - 1 : e = x \div b /\ s = x % b /\ x = b * e + s
  OBVIOUS
<1>3. r = s
  BY <1>1, <1>2, OneRest
<1>4. b * d = b * e
  BY <1>1, <1>2, <1>3
<1>5. d = e
  <2>1. b * (d - e) = 0
    BY <1>4
  <2>2. d - e # 0 => b * (d - e) # 0
    OBVIOUS
  <2>3. QED
    BY <2>1, <2>2
<1>6. QED
  BY <1>1, <1>2, <1>3, <1>5

(* Halving. *)
LEMMA Halves ==
  ASSUME NEW k \in Nat
  PROVE  k \div 2 \in Nat /\ k % 2 \in Bit /\ k = 2 * (k \div 2) + (k % 2)
BY DEF Bit

LEMMA HalvedFirst ==
  ASSUME NEW k \in Nat, NEW p \in Nat \ {0}
  PROVE  k \div (2 * p) = (k \div 2) \div p
<1>1. PICK d \in Nat, r \in 0 .. 1 : d = k \div 2 /\ k = 2 * d + r
  BY Halves DEF Bit
<1>2. PICK e \in Int, s \in 0 .. p - 1 : e = d \div p /\ d = p * e + s
  OBVIOUS
<1>3. PICK b \in Nat \ {0} : b = 2 * p
  OBVIOUS
<1>4. PICK t \in 0 .. b - 1 : t = 2 * s + r
  BY <1>3
<1>5. k = b * e + t
  <2>1. b * e = 2 * (p * e)
    BY <1>3
  <2>2. PICK x \in Int : x = p * e
    OBVIOUS
  <2>3. PICK y \in Int : y = b * e
    OBVIOUS
  <2>4. d = x + s /\ y = 2 * x
    BY <1>2, <2>1, <2>2, <2>3
  <2>5. k = y + t
    BY <1>1, <1>4, <2>4
  <2>6. QED
    BY <2>3, <2>5
<1>6. k \div b = e
  BY <1>5, OneQuotient
<1>7. QED
  BY <1>1, <1>2, <1>3, <1>6

LEMMA BinaryNext ==
  ASSUME NEW k \in Nat, NEW w \in Nat
  PROVE  Binary(k, w + 1) = Append(Binary(k \div 2, w), k % 2)
<1> DEFINE long == Binary(k, w + 1)
           short == Append(Binary(k \div 2, w), k % 2)
<1>1. k \div 2 \in Nat /\ k % 2 \in Bit
  BY Halves
<1>2. long \in Seq(Bit) /\ Len(long) = w + 1
  BY BinaryIs
<1>3. Binary(k \div 2, w) \in Seq(Bit) /\ Len(Binary(k \div 2, w)) = w
  BY <1>1, BinaryIs
<1>4. /\ short \in Seq(Bit) /\ Len(short) = w + 1
      /\ \A j \in 1 .. w : short[j] = Binary(k \div 2, w)[j]
      /\ short[w + 1] = k % 2
  BY <1>1, <1>3, AppendProperties
<1>5. ASSUME NEW j \in 1 .. w + 1
      PROVE  long[j] = short[j]
  <2>1. long[j] = (k \div 2^((w + 1) - j)) % 2
    BY DEF Binary
  <2>2. CASE j = w + 1
    <3>1. (w + 1) - j = 0 /\ 2^0 = 1
      BY <2>2
    <3>2. k \div 1 = k
      <4>1. 1 \in Nat \ {0} /\ 0 \in 0 .. 1 - 1 /\ 1 * k + 0 = k
        OBVIOUS
      <4>2. QED
        BY <4>1, OneQuotient
    <3>3. QED
      BY <1>4, <2>1, <2>2, <3>1, <3>2
  <2>3. CASE j # w + 1
    <3>1. j \in 1 .. w /\ w - j \in Nat /\ (w + 1) - j = (w - j) + 1
      BY <2>3
    <3>2. PICK p \in Nat \ {0} : p = 2^(w - j)
      BY <3>1, PowerIs
    <3>3. 2^((w + 1) - j) = 2 * p
      BY <3>1, <3>2, PowerNext
    <3>4. k \div (2 * p) = (k \div 2) \div p
      BY HalvedFirst
    <3>5. Binary(k \div 2, w)[j] = ((k \div 2) \div p) % 2
      BY <3>1, <3>2 DEF Binary
    <3>6. QED
      BY <1>4, <2>1, <3>1, <3>3, <3>4, <3>5
  <2>4. QED
    BY <2>2, <2>3
<1> HIDE DEF long, short
<1>6. long = short
  BY <1>2, <1>4, <1>5, SeqEqual
<1>7. QED
  BY <1>6 DEF long, short

LEMMA BinaryNone == ASSUME NEW k PROVE Binary(k, 0) = << >>
BY DEF Binary

(* A number of w bits is the number that its w bits say.                    *)
LEMMA NumberOfBinary ==
  \A w \in Nat : \A k \in 0 .. 2^w - 1 : Number(Binary(k, w)) = k
<1> DEFINE Wrong == {w \in Nat : \E k \in 0 .. 2^w - 1 : Number(Binary(k, w)) # k}
<1>1. SUFFICES ASSUME Wrong # {} PROVE FALSE
  OBVIOUS
<1>2. PICK w \in Wrong : \A j \in Wrong : w <= j
  <2>1. Wrong \subseteq Nat
    OBVIOUS
  <2>2. QED
    BY <1>1, <2>1, Least
<1>3. PICK k \in 0 .. 2^w - 1 : Number(Binary(k, w)) # k
  BY <1>2
<1>4. w \in Nat /\ 2^w \in Nat \ {0} /\ k \in Nat
  BY <1>2, PowerIs
<1>5. w # 0
  <2>1. SUFFICES ASSUME w = 0 PROVE FALSE
    OBVIOUS
  <2>2. 2^0 = 1
    OBVIOUS
  <2>3. k = 0
    BY <1>3, <1>4, <2>1, <2>2
  <2>4. QED
    BY <1>3, <2>1, <2>3, BinaryNone, NumberNone
<1>6. PICK v \in Nat : w = v + 1
  <2>1. w - 1 \in Nat /\ w = (w - 1) + 1
    BY <1>4, <1>5
  <2>2. QED
    BY <2>1
<1>7. PICK d \in Nat, b \in Bit : d = k \div 2 /\ b = k % 2 /\ k = 2 * d + b
  BY <1>4, Halves
<1>8. d \in 0 .. 2^v - 1
  <2>1. 2^v \in Nat \ {0} /\ 2^w = 2 * 2^v
    BY <1>6, PowerIs, PowerNext
  <2>2. PICK p \in Nat : p = 2^v
    BY <2>1
  <2>3. k <= 2 * p - 1
    BY <1>3, <1>4, <2>1, <2>2
  <2>4. b >= 0
    BY DEF Bit
  <2>5. QED
    BY <1>7, <2>2, <2>3, <2>4 DEF Bit
<1>9. Number(Binary(d, v)) = d
  <2>1. v \notin Wrong
    BY <1>2, <1>6
  <2>2. QED
    BY <1>8, <2>1
<1>10. Binary(k, w) = Append(Binary(d, v), b)
  BY <1>4, <1>6, <1>7, BinaryNext
<1>11. Binary(d, v) \in Seq(Bit)
  BY BinaryIs
<1>12. Number(Binary(k, w)) = 2 * d + b
  BY <1>9, <1>10, <1>11, NumberAppend
<1>13. QED
  BY <1>3, <1>7, <1>12

(* Bits are the bits of the number they say.                                *)
LEMMA BinaryOfNumber ==
  \A s \in Seq(Bit) : Number(s) \in 0 .. 2^Len(s) - 1 /\ Binary(Number(s), Len(s)) = s
<1> DEFINE Right(s) == Number(s) \in 0 .. 2^Len(s) - 1 /\ Binary(Number(s), Len(s)) = s
           Wrong == {w \in Nat : \E s \in Seq(Bit) : Len(s) = w /\ ~Right(s)}
<1>1. SUFFICES ASSUME Wrong # {} PROVE FALSE
  <2>1. \A s \in Seq(Bit) : Len(s) \in Nat
    OBVIOUS
  <2>2. QED
    BY <2>1, Zenon
<1>2. PICK w \in Wrong : \A j \in Wrong : w <= j
  <2>1. Wrong \subseteq Nat
    OBVIOUS
  <2>2. QED
    BY <1>1, <2>1, Least
<1>3. PICK s \in Seq(Bit) : Len(s) = w /\ ~Right(s)
  BY <1>2
<1>4. w # 0
  <2>1. SUFFICES ASSUME w = 0 PROVE FALSE
    OBVIOUS
  <2>2. s = << >>
    BY <1>3, <2>1
  <2>3. Number(s) = 0 /\ Binary(0, 0) = << >> /\ 2^0 = 1
    BY <2>2, NumberNone, BinaryNone
  <2>4. QED
    BY <1>3, <2>1, <2>2, <2>3
<1>5. PICK t \in Seq(Bit), b \in Bit : s = Append(t, b)
  <2>1. s # << >>
    BY <1>3, <1>4
  <2>2. QED
    BY <2>1, SequenceEmptyOrAppend
<1>6. PICK v \in Nat : v = Len(t) /\ w = v + 1
  <2>1. Len(t) \in Nat /\ Len(Append(t, b)) = Len(t) + 1
    OBVIOUS
  <2>2. QED
    BY <1>3, <1>5, <2>1
<1>7. Right(t)
  <2>1. v \notin Wrong
    BY <1>2, <1>6
  <2>2. QED
    BY <1>6, <2>1
<1>8. PICK d : d = Number(t)
  OBVIOUS
<1>9. d \in Nat /\ d \in 0 .. 2^v - 1 /\ Binary(d, v) = t
  <2>1. 2^v \in Nat \ {0}
    BY PowerIs
  <2>2. QED
    BY <1>6, <1>7, <1>8, <2>1
<1>10. Number(s) = 2 * d + b
  BY <1>5, <1>8, NumberAppend
<1>11. (2 * d + b) \div 2 = d /\ (2 * d + b) % 2 = b /\ 2 * d + b \in Nat
  <2>1. 2 \in Nat \ {0} /\ b \in 0 .. 2 - 1 /\ b \in Nat /\ d \in Int
    BY <1>9 DEF Bit
  <2>2. (2 * d + b) \div 2 = d /\ (2 * d + b) % 2 = b
    BY ONLY <2>1, OneQuotient
  <2>3. QED
    BY <1>9, <2>1, <2>2
<1>12. Binary(2 * d + b, v + 1) = Append(t, b)
  BY <1>9, <1>11, BinaryNext
<1>13. 2 * d + b \in 0 .. 2^(v + 1) - 1
  <2>1. PICK p \in Nat : p = 2^v /\ 2^(v + 1) = 2 * p
    BY PowerIs, PowerNext
  <2>2. QED
    BY <1>9, <1>11, <2>1 DEF Bit
<1>14. QED
  BY <1>3, <1>5, <1>6, <1>10, <1>12, <1>13

(***************************************************************************)
(* The code of a polynomial                                                 *)
(***************************************************************************)

LEMMA Sizes ==
  /\ n \in Nat \ {0} /\ LOW \in Nat \ {0} /\ BYTE \in Nat \ {0} /\ slen \in Nat /\ MAX \in Nat
  /\ 2^LOW \in Nat \ {0} /\ max_out_len \in Nat
<1>1. n \in Nat \ {0} /\ LOW \in Nat \ {0} /\ slen \in Nat /\ MAX \in Nat /\ max_out_len \in Nat
  BY CompressionAssumption, CodecAssumption
<1>2. 2^LOW \in Nat \ {0}
  BY <1>1, PowerIs
<1>3. QED
  BY <1>1, <1>2 DEF BYTE

LEMMA ZerosAre ==
  ASSUME NEW k \in Nat
  PROVE  Zeros(k) \in Seq(Bit) /\ Len(Zeros(k)) = k /\ \A b \in 1 .. k : Zeros(k)[b] = 0
BY DEF Zeros, Bit

LEMMA CodeIs ==
  ASSUME NEW c \in Int
  PROVE  Code(c) \in Seq(Bit) /\ Len(Code(c)) \in Nat
<1>1. PICK p \in Nat \ {0}, a \in Nat : p = 2^LOW /\ a = Abs(c)
  BY Sizes DEF Abs
<1>2. a % p \in Nat /\ a \div p \in Nat
  <2>1. a % p \in 0 .. p - 1
    OBVIOUS
  <2>2. PICK d \in Int, r \in 0 .. p - 1 : d = a \div p /\ r = a % p /\ a = p * d + r
    OBVIOUS
  <2>3. d >= 0
    <3>1. SUFFICES ASSUME d < 0 PROVE FALSE
      BY <2>2
    <3>2. PICK e \in Nat : d = -(e + 1)
      <4>1. -d - 1 \in Nat /\ d = -((-d - 1) + 1)
        BY <2>2, <3>1
      <4>2. QED
        BY <4>1
    <3>3. p * d = -(p * e) - p /\ p * e \in Nat
      BY <3>2
    <3>4. QED
      BY <2>2, <3>3
  <2>4. QED
    BY <2>1, <2>2, <2>3
<1>3. Binary(a % p, LOW) \in Seq(Bit)
  BY <1>2, Sizes, BinaryIs
<1>4. Zeros(a \div p) \in Seq(Bit)
  BY <1>2, ZerosAre
<1>5. <<IF c < 0 THEN 1 ELSE 0>> \in Seq(Bit) /\ <<1>> \in Seq(Bit)
  BY DEF Bit
<1>6. Code(c) \in Seq(Bit)
  BY <1>1, <1>3, <1>4, <1>5, ConcatProperties DEF Code
<1>7. QED
  BY <1>6

(* The code of the first k coefficients. *)
Coded(x, k) == FlattenSeq([j \in 1 .. k |-> Code(x[j])])

LEMMA CodedIs ==
  ASSUME NEW x \in [1 .. n -> Int], NEW k \in 0 .. n
  PROVE  /\ [j \in 1 .. k |-> Code(x[j])] \in Seq(Seq(Bit))
         /\ Coded(x, k) \in Seq(Bit)
         /\ Coded(x, 0) = << >>
         /\ Coded(x, n) = CodeOf(x)
         /\ k < n => Coded(x, k + 1) = Coded(x, k) \o Code(x[k + 1])
<1> DEFINE codes == [j \in 1 .. k |-> Code(x[j])]
<1>1. n \in Nat /\ k \in Nat
  BY Sizes
<1>2. \A j \in 1 .. n : x[j] \in Int /\ Code(x[j]) \in Seq(Bit)
  BY CodeIs
<1>3. codes \in Seq(Seq(Bit))
  <2>1. codes \in [1 .. k -> Seq(Bit)]
    BY <1>1, <1>2
  <2>2. QED
    BY <1>1, <2>1
<1>4. Coded(x, k) \in Seq(Bit)
  <2>1. << >> \in Seq(Bit)
    OBVIOUS
  <2>2. QED
    BY <1>3, <2>1, FlattenAppend DEF Coded
<1>5. Coded(x, 0) = << >>
  <2>1. [j \in 1 .. 0 |-> Code(x[j])] = << >>
    OBVIOUS
  <2>2. QED
    BY <2>1, FlattenNone DEF Coded
<1>6. Coded(x, n) = CodeOf(x)
  <2>1. DOMAIN x = 1 .. n
    OBVIOUS
  <2>2. QED
    BY <2>1 DEF Coded, CodeOf
<1>7. ASSUME k < n
      PROVE  Coded(x, k + 1) = Coded(x, k) \o Code(x[k + 1])
  <2>1. Code(x[k + 1]) \in Seq(Bit)
    BY <1>1, <1>2, <1>7
  <2>2. [j \in 1 .. k + 1 |-> Code(x[j])] = Append(codes, Code(x[k + 1]))
    BY <1>1
  <2>3. QED
    BY <1>3, <2>1, <2>2, FlattenAppend DEF Coded
<1>8. QED
  BY <1>3, <1>4, <1>5, <1>6, <1>7

LEMMA CodeOfAppend ==
  ASSUME NEW x \in Seq(Int), NEW c \in Int
  PROVE  /\ CodeOf(x) \in Seq(Bit)
         /\ CodeOf(Append(x, c)) = CodeOf(x) \o Code(c)
<1> DEFINE codes == [j \in DOMAIN x |-> Code(x[j])]
<1>1. \A d \in Int : Code(d) \in Seq(Bit)
  BY CodeIs
<1>2. codes \in Seq(Seq(Bit))
  <2>1. DOMAIN x = 1 .. Len(x) /\ Len(x) \in Nat
    OBVIOUS
  <2>2. codes \in [1 .. Len(x) -> Seq(Bit)]
    BY <1>1, <2>1
  <2>3. QED
    BY <2>1, <2>2
<1>3. [j \in DOMAIN Append(x, c) |-> Code(Append(x, c)[j])] = Append(codes, Code(c))
  OBVIOUS
<1>4. Code(c) \in Seq(Bit)
  BY <1>1
<1>5. QED
  BY <1>2, <1>3, <1>4, FlattenAppend DEF CodeOf

LEMMA CodeOfFirst ==
  ASSUME NEW x \in Seq(Int), NEW p \in [1 .. n -> Int], Len(x) <= n,
         \A j \in 1 .. Len(x) : x[j] = p[j]
  PROVE  CodeOf(x) = Coded(p, Len(x))
<1>1. DOMAIN x = 1 .. Len(x) /\ Len(x) \in Nat
  OBVIOUS
<1>2. [j \in DOMAIN x |-> Code(x[j])] = [j \in 1 .. Len(x) |-> Code(p[j])]
  BY <1>1
<1>3. QED
  BY <1>2 DEF CodeOf, Coded

LEMMA CodedBegins ==
  ASSUME NEW x \in [1 .. n -> Int], NEW k \in 0 .. n
  PROVE  \E r \in Seq(Bit) : CodeOf(x) = Coded(x, k) \o r
<1> DEFINE Begins(j) == \E r \in Seq(Bit) : Coded(x, j) = Coded(x, k) \o r
           Not == {j \in k .. n : ~Begins(j)}
<1>1. n \in Nat /\ k \in Nat
  BY Sizes
<1>2. Coded(x, k) \in Seq(Bit)
  BY CodedIs
<1>3. Not = {}
  <2>1. SUFFICES ASSUME Not # {} PROVE FALSE
    OBVIOUS
  <2>2. PICK j \in Not : \A l \in Not : j <= l
    <3>1. Not \subseteq Nat
      BY <1>1
    <3>2. QED
      BY <2>1, <3>1, Least
  <2>3. j # k
    <3>1. << >> \in Seq(Bit) /\ Coded(x, k) = Coded(x, k) \o << >>
      BY <1>2, ConcatEmptySeq
    <3>2. QED
      BY <2>2, <3>1
  <2>4. PICK i \in Nat : i = j - 1
    BY <1>1, <2>2, <2>3
  <2>5. i \in k .. n /\ ~ (j <= i) /\ i \in 0 .. n /\ i < n /\ i + 1 \in 1 .. n /\ i + 1 = j
    BY <1>1, <2>2, <2>3, <2>4
  <2>6. PICK r \in Seq(Bit) : Coded(x, i) = Coded(x, k) \o r
    BY <2>2, <2>5
  <2>7. Coded(x, j) = Coded(x, i) \o Code(x[j])
    BY <2>5, CodedIs
  <2>8. Code(x[j]) \in Seq(Bit)
    BY <2>5, CodeIs
  <2>9. (Coded(x, k) \o r) \o Code(x[j]) = Coded(x, k) \o (r \o Code(x[j]))
    <3>1. AllIn(Bit, Coded(x, k), r, Code(x[j]))
      BY <1>2, <2>6, <2>8 DEF AllIn
    <3>2. Grouping(Coded(x, k), r, Code(x[j]))
      BY ONLY <3>1, Regrouping
    <3>3. QED
      BY <3>2, Zenon DEF Grouping
  <2>10. r \o Code(x[j]) \in Seq(Bit)
    BY <2>6, <2>8, ConcatProperties
  <2>11. QED
    BY <2>2, <2>6, <2>7, <2>9, <2>10
<1>4. n \in k .. n
  BY <1>1
<1>5. Begins(n)
  BY <1>3, <1>4
<1>6. QED
  BY <1>5, CodedIs

(***************************************************************************)
(* Padding to the end of a byte                                             *)
(***************************************************************************)

LEMMA ToBytesIs ==
  ASSUME NEW c \in Seq(Bit)
  PROVE  /\ ToBytes(c) \in Seq(Bit)
         /\ Len(ToBytes(c)) \in Nat
         /\ Len(ToBytes(c)) - Len(c) \in 0 .. BYTE - 1
         /\ \E m \in Int : Len(ToBytes(c)) = BYTE * m
         /\ ToBytes(c) = c \o Zeros(Len(ToBytes(c)) - Len(c))
<1>1. BYTE \in Nat \ {0} /\ Len(c) \in Nat
  BY Sizes
<1>2. PICK z \in 0 .. BYTE - 1, m \in Int : z = (-Len(c)) % BYTE /\ Len(c) + z = BYTE * m
  BY <1>1, Missing
<1>3. Zeros(z) \in Seq(Bit) /\ Len(Zeros(z)) = z
  BY <1>1, <1>2, ZerosAre
<1>4. ToBytes(c) = c \o Zeros(z)
  BY <1>2 DEF ToBytes
<1>5. ToBytes(c) \in Seq(Bit) /\ Len(ToBytes(c)) = Len(c) + z
  BY <1>3, <1>4, ConcatProperties
<1>6. Len(ToBytes(c)) - Len(c) = z /\ Len(ToBytes(c)) \in Nat /\ Len(ToBytes(c)) = BYTE * m
  BY <1>1, <1>2, <1>5
<1>7. QED
  BY <1>4, <1>5, <1>6

(* What stands before whole bytes does not change the padding. *)
LEMMA ToBytesOfRest ==
  ASSUME NEW w \in Seq(Bit), NEW a \in Seq(Bit), NEW k \in Nat, Len(w) = BYTE * k
  PROVE  ToBytes(w \o a) = w \o ToBytes(a)
<1>1. BYTE \in Nat \ {0} /\ Len(a) \in Nat
  BY Sizes
<1>2. PICK z \in 0 .. BYTE - 1 : z = (-Len(a)) % BYTE
  BY <1>1, Missing
<1>3. (-(BYTE * k + Len(a))) % BYTE = z
  BY <1>1, <1>2, MissingSame
<1>4. w \o a \in Seq(Bit) /\ Len(w \o a) = BYTE * k + Len(a)
  BY ConcatProperties
<1>5. ToBytes(w \o a) = (w \o a) \o Zeros(z)
  BY <1>3, <1>4 DEF ToBytes
<1>6. ToBytes(a) = a \o Zeros(z)
  BY <1>2 DEF ToBytes
<1>7. Zeros(z) \in Seq(Bit)
  BY <1>1, <1>2, ZerosAre
<1>8. (w \o a) \o Zeros(z) = w \o (a \o Zeros(z))
  <2>1. AllIn(Bit, w, a, Zeros(z))
    BY <1>7 DEF AllIn
  <2>2. Grouping(w, a, Zeros(z))
    BY ONLY <2>1, Regrouping
  <2>3. QED
    BY <2>2, Zenon DEF Grouping
<1>9. QED
  BY <1>5, <1>6, <1>8

LEMMA ToBytesOfNone == ToBytes(<< >>) = << >>
<1> DEFINE c == ToBytes(<< >>)
<1>1. << >> \in Seq(Bit) /\ Len(<< >>) = 0
  OBVIOUS
<1>2. /\ c \in Seq(Bit) /\ Len(c) \in Nat /\ Len(c) - Len(<< >>) \in 0 .. BYTE - 1
      /\ \E m \in Int : Len(c) = BYTE * m
  BY <1>1, ToBytesIs
<1> HIDE DEF c
<1>3. PICK t \in Nat, m \in Int : t = Len(c) /\ t = BYTE * m
  BY <1>2
<1>4. t \in 0 .. BYTE - 1
  BY <1>1, <1>2, <1>3
<1>5. BYTE * 0 + t = BYTE * m + 0 /\ 0 \in 0 .. BYTE - 1 /\ BYTE \in Nat \ {0}
  BY <1>3, Sizes
<1>6. t = 0
  BY <1>4, <1>5, OneRest
<1>7. c = << >>
  BY <1>2, <1>3, <1>6, EmptySeq
<1>8. QED
  BY <1>7 DEF c

LEMMA ZerosAdd ==
  ASSUME NEW j \in Nat, NEW k \in Nat
  PROVE  Zeros(j) \o Zeros(k) = Zeros(j + k)
<1>1. /\ Zeros(j) \in Seq(Bit) /\ Len(Zeros(j)) = j /\ \A b \in 1 .. j : Zeros(j)[b] = 0
      /\ Zeros(k) \in Seq(Bit) /\ Len(Zeros(k)) = k /\ \A b \in 1 .. k : Zeros(k)[b] = 0
  BY ZerosAre
<1>2. /\ Zeros(j + k) \in Seq(Bit) /\ Len(Zeros(j + k)) = j + k
      /\ \A b \in 1 .. j + k : Zeros(j + k)[b] = 0
  BY ZerosAre
<1>3. Zeros(j) \o Zeros(k) \in Seq(Bit) /\ Len(Zeros(j) \o Zeros(k)) = j + k
  BY <1>1, ConcatProperties
<1>4. ASSUME NEW b \in 1 .. j + k
      PROVE  (Zeros(j) \o Zeros(k))[b] = 0
  <2>1. (Zeros(j) \o Zeros(k))[b] = IF b <= j THEN Zeros(j)[b] ELSE Zeros(k)[b - j]
    BY <1>1, ConcatProperties
  <2>2. QED
    BY <1>1, <2>1
<1>5. QED
  BY <1>2, <1>3, <1>4, SeqEqual

(* A code that fits is padded by way of whole bytes. *)
LEMMA PaddedByWayOfBytes ==
  ASSUME NEW c \in Seq(Bit), Len(c) <= BYTE * slen
  PROVE  c \o Zeros(BYTE * slen - Len(c)) = ToBytes(c) \o Zeros(BYTE * slen - Len(ToBytes(c)))
<1>1. BYTE \in Nat \ {0} /\ Len(c) \in Nat /\ slen \in Nat
  BY Sizes
<1>2. PICK t \in Nat, z \in 0 .. BYTE - 1, m \in Int :
        /\ t = Len(ToBytes(c)) /\ z = t - Len(c) /\ t = BYTE * m
        /\ ToBytes(c) = c \o Zeros(z)
  BY ToBytesIs
<1>3. t <= BYTE * slen
  <2>1. SUFFICES ASSUME BYTE * slen < t PROVE FALSE
    BY <1>1
  <2>2. m > slen
    <3>1. SUFFICES ASSUME m <= slen PROVE FALSE
      BY <1>1
    <3>2. PICK e \in Nat : slen = m + e
      <4>1. slen - m \in Nat /\ slen = m + (slen - m)
        BY <1>1, <3>1
      <4>2. QED
        BY <4>1
    <3>3. BYTE * slen = BYTE * m + BYTE * e /\ BYTE * e \in Nat
      BY <1>1, <3>2
    <3>4. QED
      BY <1>1, <1>2, <2>1, <3>3
  <2>3. PICK e \in Nat : m = slen + 1 + e
    <3>1. m - slen - 1 \in Nat /\ m = slen + 1 + (m - slen - 1)
      BY <1>1, <2>2
    <3>2. QED
      BY <3>1
  <2>4. BYTE * m = BYTE * slen + BYTE + BYTE * e
    BY <1>1, <2>3
  <2>5. PICK f \in Nat, g \in Nat : f = BYTE * slen /\ g = BYTE * e
    BY <1>1
  <2>6. t = f + BYTE + g /\ Len(c) <= f
    BY <1>2, <2>4, <2>5
  <2>7. QED
    BY <1>1, <1>2, <2>6
<1>4. PICK r \in Nat : r = BYTE * slen - t
  <2>1. BYTE * slen \in Nat
    BY <1>1
  <2>2. QED
    BY <1>3, <2>1
<1>5. Zeros(z) \o Zeros(r) = Zeros(z + r)
  <2>1. z \in Nat /\ r \in Nat
    BY <1>1
  <2>2. QED
    BY ONLY <2>1, ZerosAdd
<1>6. z + r = BYTE * slen - Len(c)
  BY <1>1, <1>2, <1>4
<1>7. (c \o Zeros(z)) \o Zeros(r) = c \o (Zeros(z) \o Zeros(r))
  <2>1. Zeros(z) \in Seq(Bit) /\ Zeros(r) \in Seq(Bit)
    BY <1>1, <1>2, ZerosAre
  <2>2. AllIn(Bit, c, Zeros(z), Zeros(r))
    BY <2>1 DEF AllIn
  <2>3. Grouping(c, Zeros(z), Zeros(r))
    BY ONLY <2>2, Regrouping
  <2>4. QED
    BY <2>3, Zenon DEF Grouping
<1>8. QED
  BY <1>2, <1>4, <1>5, <1>6, <1>7

(***************************************************************************)
(* The encoder of the C code                                                *)
(***************************************************************************)

(* The instances' operators are those of Compression. *)
LEMMA SameOfE ==
  /\ E!BYTE = BYTE
  /\ \A c : E!Abs(c) = Abs(c) /\ E!Code(c) = Code(c)
  /\ \A b : E!ToBytes(b) = ToBytes(b)
BY Zenon DEF E!BYTE, E!Abs, E!Code, E!Binary, E!Zeros, E!ToBytes,
             BYTE, Abs, Code, Binary, Zeros, ToBytes

(* What is written and what waits in the accumulator are the code so far.   *)
Writing ==
  /\ u \in 0 .. n
  /\ accE \in Seq(Bit)
  /\ buf \in Seq(Seq(Bit)) /\ Len(buf) <= max_out_len
  /\ Len(FlattenSeq(buf)) = BYTE * Len(buf)
  /\ FlattenSeq(buf) \o accE = Coded(xE, u)

Encoding ==
  /\ xE \in [1 .. n -> Int]
  /\ phase \in {"idle", "check"} => accE = << >> /\ buf = << >> /\ u = 0
  /\ phase = "write" => Writing
  /\ SameCode

LEMMA CheckRangeKeeps ==
  ASSUME Encoding, E!CheckRange
  PROVE  Encoding'
<1>1. xE' = xE /\ accE' = << >> /\ buf' = << >> /\ u' = 0
  BY DEF Encoding, E!CheckRange
<1>2. CASE \E k \in 1 .. n : Abs(xE[k]) > MAX
  <2>1. phase' = "failed"
    BY <1>2, SameOfE DEF E!CheckRange
  <2>2. SameCode'
    BY <1>1, <1>2, <2>1 DEF SameCode
  <2>3. QED
    BY <1>1, <2>1, <2>2 DEF Encoding
<1>3. CASE ~ \E k \in 1 .. n : Abs(xE[k]) > MAX
  <2>1. phase' = "write"
    BY <1>3, SameOfE DEF E!CheckRange
  <2>2. Writing'
    <3>1. 0 \in 0 .. n /\ 0 <= max_out_len /\ BYTE * 0 = 0
      BY Sizes
    <3>2. << >> \in Seq(Bit) /\ << >> \in Seq(Seq(Bit)) /\ Len(<< >>) = 0 /\ << >> \o << >> = << >>
      OBVIOUS
    <3>3. Coded(xE, 0) = << >>
      BY <3>1, CodedIs DEF Encoding
    <3>4. QED
      BY <1>1, <3>1, <3>2, <3>3, FlattenNone DEF Writing
  <2>3. SameCode'
    BY <2>1 DEF SameCode
  <2>4. QED
    BY <1>1, <2>1, <2>2, <2>3 DEF Encoding
<1>4. QED
  BY <1>2, <1>3

LEMMA PushKeeps ==
  ASSUME Encoding, E!Push
  PROVE  Encoding'
<1>1. /\ phase = "write" /\ phase' = "write" /\ u < n /\ u' = u + 1
      /\ xE' = xE /\ buf' = buf /\ accE' = accE \o Code(xE[u + 1])
  BY SameOfE DEF E!Push
<1>2. Writing /\ xE \in [1 .. n -> Int] /\ n \in Nat
  BY <1>1, Sizes DEF Encoding
<1>3. u \in 0 .. n /\ u + 1 \in 0 .. n /\ u + 1 \in 1 .. n /\ xE[u + 1] \in Int
  BY <1>1, <1>2 DEF Writing
<1>4. PICK w, a, c : w = FlattenSeq(buf) /\ a = accE /\ c = Code(xE[u + 1])
  OBVIOUS
<1>5. w \in Seq(Bit) /\ a \in Seq(Bit) /\ c \in Seq(Bit)
  <2>1. << >> \in Seq(Bit)
    OBVIOUS
  <2>2. w \in Seq(Bit)
    BY <1>2, <1>4, <2>1, FlattenAppend DEF Writing
  <2>3. QED
    BY <1>2, <1>3, <1>4, <2>2, CodeIs DEF Writing
<1>6. Coded(xE, u + 1) = Coded(xE, u) \o c
  BY <1>1, <1>2, <1>3, <1>4, CodedIs
<1>7. w \o (a \o c) = Coded(xE, u + 1)
  <2>1. w \o a = Coded(xE, u)
    BY <1>2, <1>4 DEF Writing
  <2>2. w \o (a \o c) = (w \o a) \o c
    <3>1. AllIn(Bit, w, a, c)
      BY <1>5 DEF AllIn
    <3>2. Grouping(w, a, c)
      BY ONLY <3>1, Regrouping
    <3>3. QED
      BY <3>2, Zenon DEF Grouping
  <2>3. QED
    BY <1>6, <2>1, <2>2
<1>8. a \o c \in Seq(Bit)
  BY <1>5, ConcatProperties
<1>9. Writing'
  BY <1>1, <1>2, <1>3, <1>4, <1>7, <1>8 DEF Writing
<1>10. QED
  BY <1>1, <1>2, <1>9 DEF Encoding, SameCode

(* A sequence is its first k elements and the rest. *)
LEMMA CutAt ==
  ASSUME NEW T, NEW a \in Seq(T), NEW k \in 0 .. Len(a)
  PROVE  /\ SubSeq(a, 1, k) \in Seq(T) /\ Len(SubSeq(a, 1, k)) = k
         /\ SubSeq(a, k + 1, Len(a)) \in Seq(T)
         /\ Len(SubSeq(a, k + 1, Len(a))) = Len(a) - k
         /\ SubSeq(a, 1, k) \o SubSeq(a, k + 1, Len(a)) = a
<1>1. Len(a) \in Nat /\ k \in Nat /\ \A i \in 1 .. Len(a) : a[i] \in T
  OBVIOUS
<1>2. SubSeq(a, 1, k) \in Seq(T) /\ Len(SubSeq(a, 1, k)) = k
  <2>1. 1 \in Int /\ k \in Int /\ \A i \in 1 .. k : a[i] \in T
    BY <1>1
  <2>2. QED
    BY <1>1, <2>1, SubSeqProperties
<1>3. SubSeq(a, k + 1, Len(a)) \in Seq(T) /\ Len(SubSeq(a, k + 1, Len(a))) = Len(a) - k
  <2>1. k + 1 \in Int /\ Len(a) \in Int /\ \A i \in k + 1 .. Len(a) : a[i] \in T
    BY <1>1
  <2>2. QED
    BY <1>1, <2>1, SubSeqProperties
<1>4. SubSeq(a, 1, k) \o SubSeq(a, k + 1, Len(a)) = SubSeq(a, 1, Len(a))
  <2>1. 1 \in 1 .. Len(a) + 1 /\ k \in 1 - 1 .. Len(a) /\ Len(a) \in k .. Len(a)
    BY <1>1
  <2>2. QED
    BY <2>1, ConcatAdjacentSubSeq
<1>5. SubSeq(a, 1, Len(a)) = a
  BY SubSeqFull
<1>6. QED
  BY <1>2, <1>3, <1>4, <1>5, Zenon

(* What is still in the accumulator with a full buffer does not fit.        *)
LEMMA TooLong ==
  ASSUME xE \in [1 .. n -> Int], Writing, Len(buf) >= max_out_len, accE # << >>
  PROVE  Len(ToBytes(CodeOf(xE))) > BYTE * max_out_len
<1>1. n \in Nat /\ BYTE \in Nat \ {0} /\ max_out_len \in Nat /\ u \in 0 .. n
  BY Sizes DEF Writing
<1>2. PICK w \in Seq(Bit), a \in Seq(Bit) : w = FlattenSeq(buf) /\ a = accE
  <2>1. << >> \in Seq(Bit)
    OBVIOUS
  <2>2. QED
    BY <2>1, FlattenAppend DEF Writing
<1>3. Len(w) = BYTE * max_out_len
  <2>1. Len(buf) \in Nat /\ Len(buf) <= max_out_len /\ Len(FlattenSeq(buf)) = BYTE * Len(buf)
    BY DEF Writing
  <2>2. Len(buf) = max_out_len
    BY <1>1, <2>1
  <2>3. QED
    BY <1>2, <2>1, <2>2
<1>4. Len(a) \in Nat \ {0}
  BY <1>2
<1>5. Len(Coded(xE, u)) = Len(w) + Len(a)
  BY <1>2, ConcatProperties DEF Writing
<1>6. Len(Coded(xE, u)) <= Len(CodeOf(xE))
  <2>1. PICK r \in Seq(Bit) : CodeOf(xE) = Coded(xE, u) \o r
    BY <1>1, CodedBegins
  <2>2. Coded(xE, u) \in Seq(Bit)
    BY <1>1, CodedIs
  <2>3. Len(CodeOf(xE)) = Len(Coded(xE, u)) + Len(r)
    BY <2>1, <2>2, ConcatProperties
  <2>4. Len(r) \in Nat /\ Len(Coded(xE, u)) \in Nat
    BY <2>2
  <2>5. QED
    BY <2>3, <2>4
<1>7. CodeOf(xE) \in Seq(Bit)
  <2>1. n \in 0 .. n
    BY <1>1
  <2>2. QED
    BY <2>1, CodedIs
<1>8. /\ Len(ToBytes(CodeOf(xE))) \in Nat /\ Len(CodeOf(xE)) \in Nat
      /\ Len(ToBytes(CodeOf(xE))) - Len(CodeOf(xE)) \in Nat
  BY <1>1, <1>7, ToBytesIs
<1>9. PICK p \in Nat : p = BYTE * max_out_len
  BY <1>1
<1>10. QED
  BY <1>3, <1>4, <1>5, <1>6, <1>8, <1>9

LEMMA EmitKeeps ==
  ASSUME Encoding, E!Emit
  PROVE  Encoding'
<1>1. phase = "write" /\ Len(accE) >= BYTE /\ xE' = xE /\ u' = u
  BY SameOfE DEF E!Emit
<1>2. Writing /\ xE \in [1 .. n -> Int] /\ BYTE \in Nat \ {0} /\ max_out_len \in Nat
  BY <1>1, Sizes DEF Encoding
<1>3. CASE Len(buf) >= max_out_len
  <2>1. phase' = "failed"
    BY <1>3 DEF E!Emit
  <2>2. accE # << >>
    BY <1>1, <1>2
  <2>3. Len(ToBytes(CodeOf(xE))) > BYTE * max_out_len
    BY <1>2, <1>3, <2>2, TooLong
  <2>4. SameCode'
    BY <1>1, <2>1, <2>3 DEF SameCode
  <2>5. QED
    BY <1>1, <1>2, <2>1, <2>4 DEF Encoding
<1>4. CASE ~ (Len(buf) >= max_out_len)
  <2>1. PICK w \in Seq(Bit), a \in Seq(Bit) : w = FlattenSeq(buf) /\ a = accE
    <3>1. << >> \in Seq(Bit)
      OBVIOUS
    <3>2. QED
      BY <1>2, <3>1, FlattenAppend DEF Writing
  <2>2. PICK h, t : h = SubSeq(a, 1, BYTE) /\ t = SubSeq(a, BYTE + 1, Len(a))
    OBVIOUS
  <2>3. phase' = "write" /\ buf' = Append(buf, h) /\ accE' = t
    BY <1>1, <1>4, <2>1, <2>2, SameOfE DEF E!Emit
  <2>4. h \in Seq(Bit) /\ Len(h) = BYTE /\ t \in Seq(Bit) /\ h \o t = a
    <3>1. BYTE \in 0 .. Len(a)
      BY <1>1, <1>2, <2>1
    <3>2. QED
      BY <2>2, <3>1, CutAt
  <2>5. buf' \in Seq(Seq(Bit)) /\ FlattenSeq(buf') = w \o h
    BY <1>2, <2>1, <2>3, <2>4, FlattenAppend DEF Writing
  <2>6. Len(buf') = Len(buf) + 1 /\ Len(buf) \in Nat
    BY <1>2, <2>3, <2>4 DEF Writing
  <2>7. Len(FlattenSeq(buf')) = BYTE * Len(buf')
    <3>1. Len(w \o h) = Len(w) + BYTE
      BY <2>1, <2>4, ConcatProperties
    <3>2. BYTE * (Len(buf) + 1) = BYTE * Len(buf) + BYTE
      BY <1>2, <2>6
    <3>3. Len(w) = BYTE * Len(buf)
      BY <1>2, <2>1 DEF Writing
    <3>4. QED
      BY <2>5, <2>6, <3>1, <3>2, <3>3
  <2>8. (w \o h) \o t = Coded(xE, u)
    <3>1. (w \o h) \o t = w \o (h \o t)
      <4>1. w \in Seq(Bit) /\ h \in Seq(Bit) /\ t \in Seq(Bit)
        BY <2>4
      <4>2. AllIn(Bit, w, h, t)
        BY <4>1 DEF AllIn
      <4>3. Grouping(w, h, t)
        BY ONLY <4>2, Regrouping
      <4>4. QED
        BY <4>3, Zenon DEF Grouping
    <3>2. QED
      BY <1>2, <2>1, <2>4, <3>1 DEF Writing
  <2>9. Len(buf') <= max_out_len
    BY <1>2, <1>4, <2>6
  <2>10. u \in 0 .. n
    BY <1>2 DEF Writing
  <2>11. Writing'
    BY <1>1, <2>3, <2>4, <2>5, <2>7, <2>8, <2>9, <2>10 DEF Writing
  <2>12. QED
    BY <1>1, <1>2, <2>3, <2>11 DEF Encoding, SameCode
<1>5. QED
  BY <1>3, <1>4

(* The bits that are written are the code, padded. *)
LEMMA WrittenIs ==
  ASSUME xE \in [1 .. n -> Int], NEW bits, bits = ToBytes(CodeOf(xE)), Fits(xE)
  PROVE  compress(xE) = bits \o Zeros(BYTE * slen - Len(bits))
<1>1. CodeOf(xE) \in Seq(Bit)
  <2>1. n \in 0 .. n
    BY Sizes
  <2>2. QED
    BY <2>1, CodedIs
<1>2. Len(CodeOf(xE)) <= BYTE * slen
  BY DEF Fits
<1>3. QED
  BY <1>1, <1>2, PaddedByWayOfBytes DEF compress

LEMMA FlushKeeps ==
  ASSUME Encoding, E!Flush
  PROVE  Encoding'
<1>1. phase = "write" /\ u = n /\ xE' = xE
  BY DEF E!Flush
<1>2. Writing /\ xE \in [1 .. n -> Int] /\ BYTE \in Nat \ {0} /\ max_out_len \in Nat /\ n \in Nat
  BY <1>1, Sizes DEF Encoding
<1>3. CASE accE # << >> /\ Len(buf) >= max_out_len
  <2>1. phase' = "failed"
    BY <1>3 DEF E!Flush
  <2>2. Len(ToBytes(CodeOf(xE))) > BYTE * max_out_len
    BY <1>2, <1>3, TooLong
  <2>3. SameCode'
    BY <1>1, <2>1, <2>2 DEF SameCode
  <2>4. QED
    BY <1>1, <1>2, <2>1, <2>3 DEF Encoding
<1>4. CASE ~ (accE # << >> /\ Len(buf) >= max_out_len)
  <2>1. phase' = "written" /\ buf' = IF accE = << >> THEN buf ELSE Append(buf, ToBytes(accE))
    BY <1>4, SameOfE DEF E!Flush
  <2>2. PICK w \in Seq(Bit), a \in Seq(Bit) : w = FlattenSeq(buf) /\ a = accE
    <3>1. << >> \in Seq(Bit)
      OBVIOUS
    <3>2. QED
      BY <1>2, <3>1, FlattenAppend DEF Writing
  <2>3. CodeOf(xE) = w \o a
    <3>1. n \in 0 .. n
      BY <1>2
    <3>2. QED
      BY <1>1, <1>2, <2>2, <3>1, CodedIs DEF Writing
  <2>4. ToBytes(w \o a) = w \o ToBytes(a)
    <3>1. PICK k \in Nat : k = Len(buf)
      BY <1>2 DEF Writing
    <3>2. Len(w) = BYTE * k
      BY <1>2, <2>2, <3>1 DEF Writing
    <3>3. QED
      BY <3>2, ToBytesOfRest
  <2>5. FlattenSeq(buf') = ToBytes(CodeOf(xE))
    <3>1. CASE a = << >>
      <4>1. ToBytes(a) = << >>
        BY <3>1, ToBytesOfNone
      <4>2. w \o << >> = w
        BY ConcatEmptySeq
      <4>3. QED
        BY <2>1, <2>2, <2>3, <2>4, <3>1, <4>1, <4>2
    <3>2. CASE a # << >>
      <4>1. ToBytes(a) \in Seq(Bit)
        BY ToBytesIs
      <4>2. FlattenSeq(Append(buf, ToBytes(a))) = FlattenSeq(buf) \o ToBytes(a)
        BY <1>2, <4>1, FlattenAppend DEF Writing
      <4>3. QED
        BY <2>1, <2>2, <2>3, <2>4, <3>2, <4>2
    <3>3. QED
      BY <3>1, <3>2
  <2>6. Fits(xE) => compress(xE) = FlattenSeq(buf') \o Zeros(BYTE * slen - Len(FlattenSeq(buf')))
    BY <1>2, <2>5, WrittenIs
  <2>7. SameCode'
    BY <1>1, <2>1, <2>5, <2>6 DEF SameCode
  <2>8. QED
    BY <1>1, <1>2, <2>1, <2>7 DEF Encoding
<1>5. QED
  BY <1>3, <1>4

LEMMA EncodeSignatureKeeps ==
  ASSUME Encoding, EncodeSignature
  PROVE  Encoding'
<1>1. PICK p \in [1 .. n -> Plain] : E!comp_encode(p)
  BY DEF EncodeSignature
<1>2. phase = "idle" /\ xE' = p /\ phase' = "check" /\ UNCHANGED <<accE, buf, u>>
  BY <1>1 DEF E!comp_encode
<1>3. p \in [1 .. n -> Int]
  BY CodecAssumption DEF Plain
<1>4. QED
  BY <1>2, <1>3 DEF Encoding, SameCode

(***************************************************************************)
(* The signers in C and in Python make the same code of every polynomial,   *)
(* but for the padding, and the C one fails only if a coefficient is too    *)
(* large or the code too long (comp_encode of codec.c, compress of          *)
(* encoding.py).                                                            *)
(***************************************************************************)
THEOREM SameCodeAlways == Spec => []SameCode
<1>1. Init => Encoding
  BY DEF Init, E!Init, Encoding, SameCode
<1>2. Encoding /\ [Next]_vars => Encoding'
  <2>1. SUFFICES ASSUME Encoding, [Next]_vars
                 PROVE  Encoding'
    OBVIOUS
  <2>2. CASE UNCHANGED encoderVars
    BY <2>1, <2>2 DEF encoderVars, Encoding, Writing, SameCode
  <2>3. CASE EncodeSignature
    BY <2>1, <2>3, EncodeSignatureKeeps
  <2>4. CASE EncoderPass
    BY <2>1, <2>4, CheckRangeKeeps, PushKeeps, EmitKeeps, FlushKeeps DEF EncoderPass, E!Pass
  <2>5. CASE UNCHANGED vars
    BY <2>2, <2>5 DEF vars
  <2>6. QED
    BY <2>1, <2>2, <2>3, <2>4, <2>5
       DEF Next, DecodeSignature, EncodeFixed, DecodeFixed, DecoderPass, ContractPass, FixedPass
<1>3. Encoding => SameCode
  BY DEF Encoding
<1>4. QED
  BY <1>1, <1>2, <1>3, PTL DEF Spec

(***************************************************************************)
(* The decoder of the C code                                                *)
(***************************************************************************)

LEMMA FlattenBytes ==
  ASSUME NEW s \in Seq(Byte)
  PROVE  /\ FlattenSeq(s) \in Seq(Bit)
         /\ Len(FlattenSeq(s)) = BYTE * Len(s)
<1> DEFINE Right(r) == Len(FlattenSeq(r)) = BYTE * Len(r)
           Wrong == {l \in Nat : \E r \in Seq(Byte) : Len(r) = l /\ ~Right(r)}
<1>1. BYTE \in Nat \ {0} /\ \A b \in Byte : b \in Seq(Bit) /\ Len(b) = BYTE
  <2>1. BYTE \in Nat \ {0}
    BY Sizes
  <2>2. QED
    BY <2>1 DEF Byte
<1>2. \A r \in Seq(Byte) : r \in Seq(Seq(Bit))
  <2>1. Byte \subseteq Seq(Bit)
    BY <1>1
  <2>2. QED
    BY <2>1, SeqMonotonic
<1>3. Wrong = {}
  <2>1. SUFFICES ASSUME Wrong # {} PROVE FALSE
    OBVIOUS
  <2>2. PICK l \in Wrong : \A j \in Wrong : l <= j
    <3>1. Wrong \subseteq Nat
      OBVIOUS
    <3>2. QED
      BY <2>1, <3>1, Least
  <2>3. PICK r \in Seq(Byte) : Len(r) = l /\ ~Right(r)
    BY <2>2
  <2>4. r # << >>
    <3>1. SUFFICES ASSUME r = << >> PROVE FALSE
      OBVIOUS
    <3>2. Len(<< >>) = 0 /\ BYTE * 0 = 0
      BY <1>1
    <3>3. QED
      BY <2>3, <3>1, <3>2, FlattenNone
  <2>5. PICK h \in Seq(Byte), e \in Byte : r = Append(h, e)
    BY <2>4, SequenceEmptyOrAppend
  <2>6. Len(h) \in Nat /\ l = Len(h) + 1
    BY <2>3, <2>5
  <2>7. Right(h)
    <3>1. ~ (l <= Len(h))
      BY <2>6
    <3>2. Len(h) \notin Wrong
      BY <2>2, <3>1
    <3>3. QED
      BY <2>6, <3>2
  <2>8. h \in Seq(Seq(Bit)) /\ e \in Seq(Bit) /\ Len(e) = BYTE
    BY <1>1, <1>2
  <2>9. FlattenSeq(r) = FlattenSeq(h) \o e /\ FlattenSeq(h) \in Seq(Bit)
    BY <2>5, <2>8, FlattenAppend
  <2>10. Len(FlattenSeq(r)) = BYTE * Len(h) + BYTE
    BY <2>7, <2>8, <2>9, ConcatProperties
  <2>11. BYTE * l = BYTE * Len(h) + BYTE
    BY <1>1, <2>6
  <2>12. QED
    BY <2>3, <2>10, <2>11
<1>4. Len(s) \in Nat
  OBVIOUS
<1>5. Right(s)
  BY <1>3, <1>4
<1>6. QED
  BY <1>2, <1>5, FlattenIs

(* The code of a coefficient, but for the one that ends it. *)
Begun(s, k) == <<s>> \o Binary(k % 2^LOW, LOW) \o Zeros(k \div 2^LOW)

(* A number is its high bits and its low ones. *)
LEMMA HighAndLow ==
  ASSUME NEW k \in Nat
  PROVE  /\ k \div 2^LOW \in Nat /\ k % 2^LOW \in 0 .. 2^LOW - 1
         /\ k = 2^LOW * (k \div 2^LOW) + (k % 2^LOW)
<1>1. PICK p \in Nat \ {0} : p = 2^LOW
  BY Sizes
<1>2. PICK d \in Int, r \in 0 .. p - 1 : d = k \div p /\ r = k % p /\ k = p * d + r
  OBVIOUS
<1>3. d >= 0
  <2>1. SUFFICES ASSUME d < 0 PROVE FALSE
    BY <1>2
  <2>2. PICK e \in Nat : d = -(e + 1)
    <3>1. -d - 1 \in Nat /\ d = -((-d - 1) + 1)
      BY <1>2, <2>1
    <3>2. QED
      BY <3>1
  <2>3. p * d = -(p * e) - p /\ p * e \in Nat
    BY <2>2
  <2>4. QED
    BY <1>2, <2>3
<1>4. QED
  BY <1>1, <1>2, <1>3

LEMMA BegunIs ==
  ASSUME NEW s \in Bit, NEW k, NEW h \in Nat, NEW c \in Nat, h = k \div 2^LOW, c = k % 2^LOW
  PROVE  /\ Begun(s, k) \in Seq(Bit)
         /\ Len(Begun(s, k)) = BYTE + h
         /\ Begun(s, k)[1] = s
         /\ \A i \in 1 .. LOW : Begun(s, k)[i + 1] = Binary(c, LOW)[i]
         /\ \A i \in 1 .. h : Begun(s, k)[BYTE + i] = 0
<1>1. LOW \in Nat /\ BYTE = LOW + 1
  BY Sizes DEF BYTE
<1>2. PICK b, z : b = Binary(c, LOW) /\ z = Zeros(h)
  OBVIOUS
<1>3. b \in Seq(Bit) /\ Len(b) = LOW
  BY <1>1, <1>2, BinaryIs
<1>4. z \in Seq(Bit) /\ Len(z) = h /\ \A i \in 1 .. h : z[i] = 0
  BY <1>2, ZerosAre
<1>5. <<s>> \in Seq(Bit) /\ Len(<<s>>) = 1 /\ <<s>>[1] = s
  OBVIOUS
<1>6. PICK a : a = <<s>> \o b
  OBVIOUS
<1>7. /\ a \in Seq(Bit) /\ Len(a) = 1 + LOW
      /\ \A i \in 1 .. 1 + LOW : a[i] = IF i <= 1 THEN <<s>>[i] ELSE b[i - 1]
  BY <1>3, <1>5, <1>6, ConcatProperties
<1>8. /\ a \o z \in Seq(Bit) /\ Len(a \o z) = (1 + LOW) + h
      /\ \A i \in 1 .. (1 + LOW) + h : (a \o z)[i] = IF i <= 1 + LOW THEN a[i] ELSE z[i - (1 + LOW)]
  <2>1. a \in Seq(Bit) /\ z \in Seq(Bit)
    BY <1>4, <1>7
  <2>2. /\ a \o z \in Seq(Bit) /\ Len(a \o z) = Len(a) + Len(z)
        /\ \A i \in 1 .. Len(a) + Len(z) : (a \o z)[i] = IF i <= Len(a) THEN a[i] ELSE z[i - Len(a)]
    BY ONLY <2>1, ConcatProperties
  <2>3. QED
    BY <1>4, <1>7, <2>2, Zenon
<1>9. Begun(s, k) = a \o z
  BY <1>2, <1>6 DEF Begun
<1>10. PICK y : y = a \o z
  OBVIOUS
<1>11. y[1] = s
  BY <1>1, <1>5, <1>7, <1>8, <1>10
<1>12. ASSUME NEW i \in 1 .. LOW
       PROVE  y[i + 1] = b[i]
  <2>1. i + 1 \in 1 .. 1 + LOW /\ ~ (i + 1 <= 1) /\ (i + 1) - 1 = i /\ i + 1 \in 1 .. (1 + LOW) + h
    BY <1>1
  <2>2. y[i + 1] = a[i + 1]
    BY <1>8, <1>10, <2>1
  <2>3. QED
    BY <1>7, <2>1, <2>2
<1>13. ASSUME NEW i \in 1 .. h
       PROVE  y[BYTE + i] = 0
  <2>1. /\ BYTE + i \in 1 .. (1 + LOW) + h /\ ~ (BYTE + i <= 1 + LOW)
        /\ (BYTE + i) - (1 + LOW) = i
    BY <1>1
  <2>2. QED
    BY <1>4, <1>8, <1>10, <2>1
<1>14. (1 + LOW) + h = BYTE + h
  BY <1>1
<1>15. QED
  BY <1>2, <1>8, <1>9, <1>10, <1>11, <1>12, <1>13, <1>14, Zenon

(* With a bit e after the zeros. *)
BegunBits(z, s, c, h, e) ==
  /\ z[1] = s
  /\ \A i \in 1 .. LOW : z[i + 1] = Binary(c, LOW)[i]
  /\ \A i \in 1 .. h : z[BYTE + i] = 0
  /\ z[BYTE + h + 1] = e

(* z begins as the code of k with the sign s does, and e is the next bit.    *)
AfterBegun(z, s, k, e, r) == z = Begun(s, k) \o (<<e>> \o r)

HighLow(k, h, c) == h = k \div 2^LOW /\ c = k % 2^LOW

LEMMA BegunAt ==
  ASSUME NEW s, NEW k, NEW e, NEW r, NEW h, NEW c, NEW z,
         AfterBegun(z, s, k, e, r), HighLow(k, h, c),
         s \in Bit, e \in Bit, r \in Seq(Bit), h \in Nat, c \in Nat
  PROVE  BegunBits(z, s, c, h, e)
<1>1. BYTE = LOW + 1 /\ LOW \in Nat
  BY Sizes DEF BYTE
<1>2. PICK b : b = Begun(s, k)
  OBVIOUS
<1>3. /\ b \in Seq(Bit) /\ Len(b) = BYTE + h /\ b[1] = s
      /\ \A i \in 1 .. LOW : b[i + 1] = Binary(c, LOW)[i]
      /\ \A i \in 1 .. h : b[BYTE + i] = 0
  BY <1>2, BegunIs DEF HighLow
<1>4. PICK t : t = <<e>> \o r
  OBVIOUS
<1>5. t \in Seq(Bit) /\ Len(t) = 1 + Len(r) /\ t[1] = e /\ Len(r) \in Nat
  BY <1>4
<1>6. Concatenated(Bit, z, b, t)
  <2>1. z = b \o t
    BY <1>2, <1>4, Zenon DEF AfterBegun
  <2>2. b \in Seq(Bit) /\ t \in Seq(Bit)
    BY <1>3, <1>5
  <2>3. QED
    BY ONLY <2>1, <2>2, Concatenate
<1>7. PICK l \in Nat, m \in Nat : l = BYTE + h /\ l = Len(b) /\ Len(t) = 1 + m
  BY <1>1, <1>3, <1>5
<1>8. \A i \in 1 .. l + (1 + m) : z[i] = IF i <= l THEN b[i] ELSE t[i - l]
  BY <1>6, <1>7, Zenon DEF Concatenated
<1>9. z[l + 1] = e
  <2>1. l + 1 \in 1 .. l + (1 + m) /\ ~ (l + 1 <= l) /\ l + 1 - l = 1
    OBVIOUS
  <2>2. z[l + 1] = t[1]
    BY ONLY <1>8, <2>1
  <2>3. QED
    BY <1>5, <2>2
<1>10. \A i \in 1 .. l : z[i] = b[i]
  <2>1. \A i \in 1 .. l : i \in 1 .. l + (1 + m) /\ i <= l
    OBVIOUS
  <2>2. QED
    BY ONLY <1>8, <2>1
<1>11. z[1] = s
  <2>1. 1 \in 1 .. l
    BY <1>1, <1>7
  <2>2. QED
    BY <1>3, <1>10, <2>1
<1>12. ASSUME NEW i \in 1 .. LOW
       PROVE  z[i + 1] = Binary(c, LOW)[i]
  <2>1. i + 1 \in 1 .. l
    BY <1>1, <1>7
  <2>2. QED
    BY <1>3, <1>10, <2>1
<1>13. ASSUME NEW i \in 1 .. h
       PROVE  z[BYTE + i] = 0
  <2>1. BYTE + i \in 1 .. l
    BY <1>1, <1>7
  <2>2. QED
    BY <1>3, <1>10, <2>1
<1>14. QED
  BY <1>7, <1>9, <1>11, <1>12, <1>13 DEF BegunBits

(* What has begun as the code of a coefficient is the beginning of that     *)
(* code: the next bit says if it is all of the high bits.                   *)
SameBits(s, k, e, r, t, l, b) ==
  Begun(s, k) \o (<<e>> \o r) = Begun(t, l) \o (<<1>> \o b)

LEMMA OneBegun ==
  ASSUME NEW s, NEW k, NEW e, NEW r, NEW t, NEW l, NEW b, SameBits(s, k, e, r, t, l, b),
         s \in Bit, k \in Nat, e \in Bit, r \in Seq(Bit), t \in Bit, l \in Nat, b \in Seq(Bit)
  PROVE  /\ s = t
         /\ e = 1 => k = l
         /\ e = 0 => k + 2^LOW <= l
<1>0. PICK z : AfterBegun(z, s, k, e, r) /\ AfterBegun(z, t, l, 1, b)
  BY Zenon DEF SameBits, AfterBegun
<1>1. PICK p \in Nat \ {0} : p = 2^LOW
  BY Sizes
<1>2. PICK h \in Nat, c \in 0 .. p - 1 : h = k \div p /\ c = k % p /\ k = p * h + c
  BY <1>1, HighAndLow
<1>3. PICK g \in Nat, d \in 0 .. p - 1 : g = l \div p /\ d = l % p /\ l = p * g + d
  BY <1>1, HighAndLow
<1>4. /\ z[1] = s
      /\ \A i \in 1 .. LOW : z[i + 1] = Binary(c, LOW)[i]
      /\ \A i \in 1 .. h : z[BYTE + i] = 0
      /\ z[BYTE + h + 1] = e
  <2>1. HighLow(k, h, c) /\ c \in Nat
    BY <1>1, <1>2 DEF HighLow
  <2>2. BegunBits(z, s, c, h, e)
    BY ONLY <1>0, <2>1, s \in Bit, e \in Bit, r \in Seq(Bit), h \in Nat, BegunAt
  <2>3. QED
    BY <2>2 DEF BegunBits
<1>5. 1 \in Bit
  BY DEF Bit
<1>6. /\ z[1] = t
      /\ \A i \in 1 .. LOW : z[i + 1] = Binary(d, LOW)[i]
      /\ \A i \in 1 .. g : z[BYTE + i] = 0
      /\ z[BYTE + g + 1] = 1
  <2>1. HighLow(l, g, d) /\ d \in Nat
    BY <1>1, <1>3 DEF HighLow
  <2>2. BegunBits(z, t, d, g, 1)
    BY ONLY <1>0, <1>5, <2>1, t \in Bit, b \in Seq(Bit), g \in Nat, BegunAt
  <2>3. QED
    BY <2>2 DEF BegunBits
<1>7. LOW \in Nat /\ BYTE \in Nat
  BY Sizes
<1>8. c = d
  <2>1. Binary(c, LOW) = Binary(d, LOW)
    <3>1. /\ Binary(c, LOW) \in Seq(Bit) /\ Len(Binary(c, LOW)) = LOW
          /\ Binary(d, LOW) \in Seq(Bit) /\ Len(Binary(d, LOW)) = LOW
      BY <1>7, BinaryIs
    <3>2. \A i \in 1 .. LOW : Binary(c, LOW)[i] = Binary(d, LOW)[i]
      BY <1>4, <1>6
    <3>3. QED
      BY <3>1, <3>2, SeqEqual
  <2>2. Number(Binary(c, LOW)) = c /\ Number(Binary(d, LOW)) = d
    BY <1>1, <1>7, NumberOfBinary
  <2>3. QED
    BY <2>1, <2>2
<1>9. h <= g
  <2>1. SUFFICES ASSUME g < h PROVE FALSE
    OBVIOUS
  <2>2. g + 1 \in 1 .. h /\ BYTE + (g + 1) = BYTE + g + 1
    BY <1>7, <2>1
  <2>3. QED
    BY <1>4, <1>6, <2>2
<1>10. h # g => z[BYTE + h + 1] = 0
  <2>1. SUFFICES ASSUME h # g PROVE z[BYTE + h + 1] = 0
    OBVIOUS
  <2>2. h + 1 \in 1 .. g /\ BYTE + (h + 1) = BYTE + h + 1
    BY <1>7, <1>9, <2>1
  <2>3. QED
    BY <1>6, <2>2
<1>11. ASSUME e = 1
       PROVE  k = l
  <2>1. h = g
    BY <1>4, <1>10, <1>11
  <2>2. QED
    BY <1>2, <1>3, <1>8, <2>1
<1>12. ASSUME e = 0
       PROVE  k + 2^LOW <= l
  <2>1. h # g
    BY <1>4, <1>6, <1>12
  <2>2. PICK f \in Nat : g = h + 1 + f
    <3>1. g - h - 1 \in Nat /\ g = h + 1 + (g - h - 1)
      BY <1>9, <2>1
    <3>2. QED
      BY <3>1
  <2>3. p * g = p * h + p + p * f /\ p * f \in Nat /\ p * h \in Nat
    BY <2>2
  <2>4. PICK x \in Nat, y \in Nat, w \in Nat : x = p * h /\ y = p * f /\ w = p * g
    BY <2>3
  <2>5. k = x + c /\ l = w + c /\ w = x + p + y
    BY <1>2, <1>3, <1>8, <2>3, <2>4
  <2>6. k + p <= l
    BY ONLY <2>5, x \in Nat, y \in Nat, c \in Int, d \in Int, p \in Nat
  <2>7. QED
    BY <1>1, <2>6, Zenon
<1>13. QED
  BY <1>4, <1>6, <1>11, <1>12

LEMMA SameOfC ==
  /\ C!BYTE = BYTE
  /\ \A b : C!Number(b) = Number(b)
BY Zenon DEF C!BYTE, C!Number, BYTE, Number

(* The bits of the memory behind k bytes, up to l bytes. *)
UpTo(k, l) == FlattenSeq(SubSeq(mem, k + 1, l))

LEMMA UpToIs ==
  ASSUME mem \in Memory, NEW l \in 0 .. MEMORY, NEW k \in 0 .. l
  PROVE  /\ UpTo(k, l) \in Seq(Bit)
         /\ Len(UpTo(k, l)) = BYTE * (l - k)
         /\ k = l => UpTo(k, l) = << >>
         /\ k < l => /\ mem[k + 1] \in Seq(Bit) /\ Len(mem[k + 1]) = BYTE
                     /\ UpTo(k, l) = mem[k + 1] \o UpTo(k + 1, l)
<1>1. /\ MEMORY \in Nat /\ l \in Nat /\ k \in Nat /\ l <= MEMORY /\ k <= l
      /\ BYTE \in Nat \ {0}
  BY CodecAssumption, Sizes
<1>2. \A i \in 1 .. MEMORY : mem[i] \in Byte
  BY DEF Memory
<1>3. ASSUME NEW i \in 1 .. l + 1
      PROVE  SubSeq(mem, i, l) \in Seq(Byte) /\ Len(SubSeq(mem, i, l)) = l + 1 - i
  <2>1. \A j \in i .. l : mem[j] \in Byte
    BY <1>1, <1>2
  <2>2. i \in Int /\ l \in Int
    BY <1>1
  <2>3. /\ SubSeq(mem, i, l) \in Seq(Byte)
        /\ Len(SubSeq(mem, i, l)) = IF i <= l THEN l - i + 1 ELSE 0
    BY <2>1, <2>2, SubSeqProperties
  <2>4. QED
    BY <1>1, <2>3
<1>4. k + 1 \in 1 .. l + 1
  BY <1>1
<1>5. UpTo(k, l) \in Seq(Bit) /\ Len(UpTo(k, l)) = BYTE * (l - k)
  <2>1. PICK t \in Seq(Byte) : t = SubSeq(mem, k + 1, l) /\ Len(t) = l - k
    <3>1. l + 1 - (k + 1) = l - k
      BY <1>1
    <3>2. QED
      BY <1>3, <1>4, <3>1
  <2>2. FlattenSeq(t) \in Seq(Bit) /\ Len(FlattenSeq(t)) = BYTE * Len(t)
    BY FlattenBytes
  <2>3. QED
    BY <2>1, <2>2 DEF UpTo
<1>6. ASSUME k = l
      PROVE  UpTo(k, l) = << >>
  <2>1. k + 1 \in Int /\ l \in Int /\ l < k + 1
    BY <1>1, <1>6
  <2>2. SubSeq(mem, k + 1, l) = << >>
    BY <2>1, SubSeqEmpty
  <2>3. QED
    BY <2>2, FlattenNone DEF UpTo
<1>7. ASSUME k < l
      PROVE  /\ mem[k + 1] \in Seq(Bit) /\ Len(mem[k + 1]) = BYTE
             /\ UpTo(k, l) = mem[k + 1] \o UpTo(k + 1, l)
  <2>1. PICK b \in Byte : b = mem[k + 1]
    BY <1>1, <1>2, <1>7
  <2>2. b \in Seq(Bit) /\ Len(b) = BYTE
    BY <1>1 DEF Byte
  <2>3. PICK s, t : s = SubSeq(mem, k + 1, l) /\ t = SubSeq(mem, (k + 1) + 1, l)
    OBVIOUS
  <2>4. t \in Seq(Byte) /\ Len(t) = l - k - 1 /\ s \in Seq(Byte) /\ Len(s) = l - k
    <3>1. /\ (k + 1) + 1 \in 1 .. l + 1 /\ l + 1 - (k + 1) = l - k
          /\ l + 1 - ((k + 1) + 1) = l - k - 1
      BY <1>1, <1>7
    <3>2. QED
      BY <1>3, <1>4, <2>3, <3>1
  <2>5. s = <<b>> \o t
    <3>1. mem \in Seq(Byte) /\ Len(mem) = MEMORY
      BY <1>1 DEF Memory
    <3>2. k + 1 \in 1 .. Len(mem) /\ l \in k + 1 .. Len(mem)
      BY <1>1, <1>7, <3>1
    <3>3. SubSeq(mem, k + 1, l) = <<mem[k + 1]>> \o SubSeq(mem, (k + 1) + 1, l)
      BY <3>1, <3>2, SubSeqRecursiveFirst
    <3>4. QED
      BY <2>1, <2>3, <3>3
  <2>6. <<b>> \in Seq(Seq(Bit)) /\ t \in Seq(Seq(Bit))
    <3>1. Byte \subseteq Seq(Bit)
      BY <1>1 DEF Byte
    <3>2. QED
      BY <2>2, <2>4, <3>1, SeqMonotonic
  <2>7. FlattenSeq(s) = FlattenSeq(<<b>>) \o FlattenSeq(t)
    BY <2>5, <2>6, FlattenConcat
  <2>8. FlattenSeq(<<b>>) = b
    BY <2>2, FlattenOne
  <2>9. QED
    BY <2>1, <2>2, <2>3, <2>7, <2>8 DEF UpTo
<1>8. QED
  BY <1>5, <1>6, <1>7

(* The bits of the signature that are not read yet. *)
Left(k) == FlattenSeq(SubSeq(mem, k + 1, len))

LEMMA LeftIs ==
  ASSUME mem \in Memory, len \in 0 .. MEMORY, NEW k \in 0 .. len
  PROVE  /\ Left(k) \in Seq(Bit)
         /\ Len(Left(k)) = BYTE * (len - k)
         /\ k = len => Left(k) = << >>
         /\ k < len => /\ mem[k + 1] \in Seq(Bit) /\ Len(mem[k + 1]) = BYTE
                       /\ Left(k) = mem[k + 1] \o Left(k + 1)
BY UpToIs DEF Left, UpTo

LEMMA ReceivedIs == Left(0) = Received
BY DEF Left, Received

LEMMA Joined ==
  ASSUME NEW a, NEW b, a \in Seq(Bit), b \in Seq(Bit)
  PROVE  a \o b \in Seq(Bit)
BY ConcatProperties

Grouped(w, b, o, r, z) ==
  ((w \o (b \o o)) \o r) \o z = w \o (b \o (o \o (r \o z)))

LEMMA Regrouped ==
  ASSUME NEW w, NEW b, NEW o, NEW r, NEW z, AllIn(Bit, w, b, o), AllIn(Bit, o, r, z)
  PROVE  Grouped(w, b, o, r, z)
<1>1. PICK e, y, f : e = b \o o /\ y = r \o z /\ f = w \o e
  OBVIOUS
<1>2. e \in Seq(Bit) /\ y \in Seq(Bit)
  BY <1>1, Joined DEF AllIn
<1>3. f \in Seq(Bit)
  BY <1>1, <1>2, Joined DEF AllIn
<1>4. AllIn(Bit, f, r, z) /\ AllIn(Bit, w, e, y) /\ AllIn(Bit, b, o, y)
  BY <1>2, <1>3 DEF AllIn
<1>5. (f \o r) \o z = f \o (r \o z)
  BY <1>4, Regroup
<1>6. (w \o e) \o y = w \o (e \o y)
  BY <1>4, Regroup
<1>7. (b \o o) \o y = b \o (o \o y)
  BY <1>4, Regroup
<1>8. QED
  BY <1>1, <1>5, <1>6, <1>7 DEF Grouped

LEMMA BegunTyped ==
  ASSUME NEW s \in Bit, NEW k \in Nat
  PROVE  Begun(s, k) \in Seq(Bit)
<1>1. PICK h \in Nat, c \in Nat : h = k \div 2^LOW /\ c = k % 2^LOW
  <2>1. k \div 2^LOW \in Nat /\ k % 2^LOW \in 0 .. 2^LOW - 1
    BY HighAndLow
  <2>2. 2^LOW \in Nat
    BY Sizes
  <2>3. k % 2^LOW \in Nat
    BY <2>1, <2>2
  <2>4. QED
    BY <2>1, <2>3
<1>2. QED
  BY <1>1, BegunIs

(* The polynomials of which a signature can be made. *)
Plains == [1 .. n -> -MAX .. MAX]

Sign(c) == IF c < 0 THEN 1 ELSE 0

LEMMA CodeBegins ==
  ASSUME NEW c \in Int
  PROVE  /\ Code(c) = Begun(Sign(c), Abs(c)) \o <<1>>
         /\ Sign(c) \in Bit /\ Abs(c) \in Nat
         /\ c = IF Sign(c) = 1 THEN -Abs(c) ELSE Abs(c)
         /\ Sign(c) = 1 => Abs(c) # 0
         /\ c \in -MAX .. MAX => Abs(c) <= MAX
<1>1. Code(c) = Begun(Sign(c), Abs(c)) \o <<1>>
  BY DEF Code, Begun, Sign
<1>2. MAX \in Nat
  BY Sizes
<1>3. QED
  BY <1>1, <1>2 DEF Sign, Abs, Bit

(* A signature that begins with the codes of the coefficients read goes on  *)
(* with the code of the next.                                               *)
LEMMA Foretold ==
  ASSUME NEW x \in Seq(-MAX .. MAX), Len(x) < n, NEW p \in Plains,
         \A j \in 1 .. Len(x) : x[j] = p[j]
  PROVE  \E d \in -MAX .. MAX : \E r \in Seq(Bit) :
           /\ d = p[Len(x) + 1]
           /\ ToBytes(CodeOf(p)) = CodeOf(x) \o (Begun(Sign(d), Abs(d)) \o (<<1>> \o r))
<1>1. n \in Nat /\ MAX \in Nat /\ Len(x) \in Nat
  BY Sizes
<1>2. p \in [1 .. n -> Int] /\ x \in Seq(Int)
  BY <1>1 DEF Plains
<1>3. PICK k \in Nat : k = Len(x) /\ k \in 0 .. n /\ k + 1 \in 0 .. n /\ k + 1 \in 1 .. n
  BY <1>1
<1>4. PICK d \in -MAX .. MAX : d = p[k + 1]
  BY <1>3 DEF Plains
<1>5. PICK b : b = Begun(Sign(d), Abs(d))
  OBVIOUS
<1>6. b \in Seq(Bit) /\ Code(d) = b \o <<1>> /\ <<1>> \in Seq(Bit)
  <2>1. d \in Int
    BY <1>1
  <2>2. Sign(d) \in Bit /\ Abs(d) \in Nat /\ Code(d) = Begun(Sign(d), Abs(d)) \o <<1>>
    BY <2>1, CodeBegins
  <2>3. Begun(Sign(d), Abs(d)) \in Seq(Bit)
    BY <2>2, BegunTyped
  <2>4. QED
    BY <1>5, <2>2, <2>3 DEF Bit
<1>7. PICK w \in Seq(Bit) : w = CodeOf(x) /\ Coded(p, k) = w
  <2>1. Coded(p, Len(x)) = CodeOf(x)
    BY <1>1, <1>2, CodeOfFirst
  <2>2. Coded(p, k) \in Seq(Bit)
    BY <1>2, <1>3, CodedIs
  <2>3. QED
    BY <1>3, <2>1, <2>2
<1>8. Coded(p, k + 1) = w \o (b \o <<1>>)
  <2>1. k < n /\ Coded(p, k + 1) = Coded(p, k) \o Code(p[k + 1])
    BY <1>1, <1>2, <1>3, CodedIs
  <2>2. QED
    BY <1>4, <1>6, <1>7, <2>1
<1>9. PICK r \in Seq(Bit) : CodeOf(p) = Coded(p, k + 1) \o r
  BY <1>2, <1>3, CodedBegins
<1>10. CodeOf(p) \in Seq(Bit)
  <2>1. n \in 0 .. n
    BY <1>1
  <2>2. QED
    BY <1>2, <2>1, CodedIs
<1>11. PICK z \in Seq(Bit) : ToBytes(CodeOf(p)) = CodeOf(p) \o z
  <2>1. PICK c \in Seq(Bit) : c = CodeOf(p)
    BY <1>10
  <2>2. PICK l : l = Len(ToBytes(c)) - Len(c)
    OBVIOUS
  <2>3. l \in Nat /\ ToBytes(c) = c \o Zeros(l)
    <3>1. l \in 0 .. BYTE - 1 /\ BYTE \in Nat
      BY <2>2, ToBytesIs, Sizes
    <3>2. l \in Nat
      BY <3>1
    <3>3. QED
      BY <2>2, <3>2, ToBytesIs
  <2>4. QED
    BY <2>1, <2>3, ZerosAre
<1>12. r \o z \in Seq(Bit)
  BY Joined
<1>13. ((w \o (b \o <<1>>)) \o r) \o z = w \o (b \o (<<1>> \o (r \o z)))
  <2>1. AllIn(Bit, w, b, <<1>>) /\ AllIn(Bit, <<1>>, r, z)
    BY <1>6 DEF AllIn
  <2>2. Grouped(w, b, <<1>>, r, z)
    BY ONLY <2>1, Regrouped
  <2>3. QED
    BY <2>2 DEF Grouped
<1>14. ToBytes(CodeOf(p)) = w \o (b \o (<<1>> \o (r \o z)))
  BY <1>8, <1>9, <1>11, <1>13
<1>15. QED
  BY <1>3, <1>4, <1>5, <1>7, <1>12, <1>14

Read ==
  /\ mem \in Memory /\ len \in 0 .. MEMORY /\ vC \in 0 .. len
  /\ accC \in Seq(Bit) /\ Len(accC) < BYTE
  /\ xC \in Seq(-MAX .. MAX) /\ Len(xC) <= n

(* The polynomial that was signed, if there is one, begins as what was read. *)
Foreseen ==
  \A p \in Plains : ToBytes(CodeOf(p)) = Received => \A j \in 1 .. Len(xC) : xC[j] = p[j]

Decoding ==
  /\ Read
  /\ pcC = "idle" => accC = << >> /\ vC = 0 /\ xC = << >>
  /\ pcC = "head" => Received = CodeOf(xC) \o (accC \o Left(vC)) /\ Foreseen
  /\ pcC = "high" => /\ Len(xC) < n /\ sC \in Bit /\ mC \in 0 .. MAX
                     /\ Received = CodeOf(xC) \o (Begun(sC, mC) \o (accC \o Left(vC)))
                     /\ Foreseen
  /\ OneEncoding

LEMMA ReadIs ==
  ASSUME Read
  PROVE  /\ CodeOf(xC) \in Seq(Bit) /\ Left(vC) \in Seq(Bit)
         /\ xC \in Seq(Int) /\ Len(xC) \in Nat
         /\ accC \o Left(vC) \in Seq(Bit)
<1>1. MAX \in Nat /\ 0 \in Int
  BY Sizes
<1>2. -MAX .. MAX \subseteq Int
  BY <1>1
<1>3. xC \in Seq(Int)
  BY <1>2, SeqMonotonic DEF Read
<1>4. CodeOf(xC) \in Seq(Bit)
  BY <1>1, <1>3, CodeOfAppend
<1>5. Left(vC) \in Seq(Bit)
  BY LeftIs DEF Read
<1>6. QED
  BY <1>3, <1>4, <1>5, Joined DEF Read

LEMMA OneMore ==
  ASSUME NEW e, NEW r, e \in Bit, r \in Seq(Bit)
  PROVE  <<e>> \o r \in Seq(Bit) /\ Len(<<e>> \o r) \in Nat /\ <<e>> \in Seq(Bit)
<1>1. <<e>> \in Seq(Bit)
  OBVIOUS
<1>2. PICK o : o = <<e>>
  OBVIOUS
<1>3. o \o r \in Seq(Bit)
  BY <1>1, <1>2, Joined
<1>4. Len(o \o r) \in Nat
  BY <1>3, LenProperties
<1>5. QED
  BY <1>1, <1>2, <1>3, <1>4

LEMMA Cancel ==
  ASSUME NEW w \in Seq(Bit), NEW a \in Seq(Bit), NEW b \in Seq(Bit), w \o a = w \o b
  PROVE  a = b
<1>1. \A s, t, v \in Seq(Bit) : s \o t = s \o v => t = v
  BY ConcatSimplifications
<1>2. QED
  BY <1>1

(* What follows what was read, if it is a signature.                        *)
LEMMA NextIs ==
  ASSUME Read, Foreseen, Len(xC) < n, NEW g \in Seq(Bit), Received = CodeOf(xC) \o g,
         NEW p \in Plains, ToBytes(CodeOf(p)) = Received
  PROVE  \E d \in -MAX .. MAX : \E r \in Seq(Bit) :
           d = p[Len(xC) + 1] /\ g = Begun(Sign(d), Abs(d)) \o (<<1>> \o r)
<1>1. \A j \in 1 .. Len(xC) : xC[j] = p[j]
  BY DEF Foreseen
<1>2. xC \in Seq(-MAX .. MAX)
  BY DEF Read
<1>3. PICK d \in -MAX .. MAX, r \in Seq(Bit) :
        /\ d = p[Len(xC) + 1]
        /\ ToBytes(CodeOf(p)) = CodeOf(xC) \o (Begun(Sign(d), Abs(d)) \o (<<1>> \o r))
  BY <1>1, <1>2, Foretold
<1>4. PICK w \in Seq(Bit) : w = CodeOf(xC)
  BY ReadIs
<1>5. PICK b \in Seq(Bit) : b = Begun(Sign(d), Abs(d))
  <2>1. d \in Int
    BY Sizes
  <2>2. QED
    BY <2>1, CodeBegins, BegunTyped
<1>6. <<1>> \in Seq(Bit)
  BY DEF Bit
<1>7. PICK f \in Seq(Bit) : f = <<1>> \o r
  BY <1>6, Joined
<1>8. PICK h \in Seq(Bit) : h = b \o f
  BY Joined
<1>9. w \o g = w \o h
  BY <1>3, <1>4, <1>5, <1>7, <1>8
<1>10. g = h
  BY <1>9, Cancel
<1>11. QED
  BY <1>3, <1>5, <1>7, <1>8, <1>10

(* Failing is right if the signature is none. *)
LEMMA Refuse ==
  ASSUME Decoding, UNCHANGED <<mem, len, accC, vC, xC>>, pcC' = "failed",
         \A p \in Plains : ToBytes(CodeOf(p)) # Received
  PROVE  Decoding'
<1>1. Read' /\ Received' = Received
  BY DEF Decoding, Read, Received
<1>2. Received \notin Codes
  BY DEF Codes, Plains
<1>3. Codes' = Codes
  OBVIOUS
<1>4. OneEncoding'
  BY <1>1, <1>2, <1>3 DEF OneEncoding
<1>5. QED
  BY <1>1, <1>4 DEF Decoding

LEMMA LowFails ==
  ASSUME Decoding, pcC = "head", Len(xC) < n, vC >= len, NEW p \in Plains
  PROVE  ToBytes(CodeOf(p)) # Received
<1>1. Read /\ Foreseen /\ Received = CodeOf(xC) \o (accC \o Left(vC))
  BY DEF Decoding
<1>2. PICK a \in Seq(Bit) : a = accC /\ Len(a) < BYTE
  BY <1>1 DEF Read
<1>3. accC \o Left(vC) = a
  <2>1. vC = len /\ mem \in Memory /\ len \in 0 .. MEMORY /\ vC \in 0 .. len
    BY <1>1, CodecAssumption DEF Read
  <2>2. Left(vC) = << >>
    BY <2>1, LeftIs
  <2>3. QED
    BY <1>2, <2>2, ConcatEmptySeq
<1>4. SUFFICES ASSUME ToBytes(CodeOf(p)) = Received
               PROVE  FALSE
  OBVIOUS
<1>5. PICK d \in -MAX .. MAX, r \in Seq(Bit) : a = Begun(Sign(d), Abs(d)) \o (<<1>> \o r)
  BY <1>1, <1>3, <1>4, NextIs
<1>6. Sign(d) \in Bit /\ Abs(d) \in Nat
  <2>1. d \in Int
    BY Sizes
  <2>2. QED
    BY <2>1, CodeBegins
<1>7. PICK h \in Nat, c \in Nat : h = Abs(d) \div 2^LOW /\ c = Abs(d) % 2^LOW
  <2>1. Abs(d) \div 2^LOW \in Nat /\ Abs(d) % 2^LOW \in 0 .. 2^LOW - 1 /\ 2^LOW \in Nat
    BY <1>6, HighAndLow, Sizes
  <2>2. Abs(d) % 2^LOW \in Nat
    BY <2>1
  <2>3. QED
    BY <2>1, <2>2
<1>8. PICK b \in Seq(Bit) : b = Begun(Sign(d), Abs(d)) /\ Len(b) = BYTE + h
  <2>1. PICK s, l : s \in Bit /\ s = Sign(d) /\ l = Abs(d)
    BY <1>6
  <2>2. h = l \div 2^LOW /\ c = l % 2^LOW
    BY <1>7, <2>1
  <2>3. Begun(s, l) \in Seq(Bit) /\ Len(Begun(s, l)) = BYTE + h
    BY ONLY <2>1, <2>2, h \in Nat, c \in Nat, BegunIs
  <2>4. QED
    BY <2>1, <2>3
<1>9. PICK f \in Seq(Bit) : f = <<1>> \o r /\ Len(f) \in Nat
  <2>1. 1 \in Bit
    BY DEF Bit
  <2>2. PICK f : f = <<1>> \o r
    OBVIOUS
  <2>3. f \in Seq(Bit) /\ Len(f) \in Nat
    BY <2>1, <2>2, OneMore
  <2>4. QED
    BY <2>2, <2>3, Zenon
<1>10. Len(a) = (BYTE + h) + Len(f)
  <2>1. a = b \o f
    BY <1>5, <1>8, <1>9, Zenon
  <2>2. Concatenated(Bit, a, b, f)
    BY ONLY <2>1, b \in Seq(Bit), f \in Seq(Bit), Concatenate
  <2>3. QED
    BY <1>8, <2>2, Zenon DEF Concatenated
<1>11. QED
  BY <1>2, <1>7, <1>9, <1>10, Sizes

(* The low bits do not go beyond MAX. *)
LEMMA LowFits == 2^LOW - 1 <= MAX
<1>1. PICK p \in Nat \ {0} : p = 2^LOW
  BY Sizes
<1>2. MAX \in Nat /\ (MAX + 1) % p = 0
  BY <1>1, CompressionAssumption
<1>3. PICK d \in Int : MAX + 1 = p * d
  <2>1. PICK y \in Nat : y = MAX + 1
    BY <1>2
  <2>2. PICK d \in Int, r \in 0 .. p - 1 : r = y % p /\ y = p * d + r
    OBVIOUS
  <2>3. QED
    BY <1>2, <2>1, <2>2
<1>4. d > 0
  <2>1. SUFFICES ASSUME d <= 0 PROVE FALSE
    OBVIOUS
  <2>2. PICK e \in Nat : d = -e
    <3>1. -d \in Nat /\ d = -(-d)
      BY <2>1
    <3>2. QED
      BY <3>1
  <2>3. p * d = -(p * e) /\ p * e \in Nat
    BY <2>2
  <2>4. QED
    BY <1>2, <1>3, <2>3
<1>5. PICK f \in Nat : d = f + 1
  <2>1. d - 1 \in Nat /\ d = (d - 1) + 1
    BY <1>4
  <2>2. QED
    BY <2>1
<1>6. p * d = p * f + p /\ p * f \in Nat
  BY <1>5
<1>7. QED
  BY <1>1, <1>2, <1>3, <1>6

(* What a coefficient begins with: its sign and its low bits. *)
LEMMA BegunLow ==
  ASSUME NEW s \in Bit, NEW low \in Seq(Bit), Len(low) = LOW
  PROVE  /\ Begun(s, Number(low)) = <<s>> \o low
         /\ Number(low) \in 0 .. MAX
<1>1. PICK p \in Nat \ {0} : p = 2^LOW
  BY Sizes
<1>2. PICK k \in 0 .. p - 1 : k = Number(low) /\ Binary(k, LOW) = low
  BY <1>1, BinaryOfNumber
<1>3. k \div p = 0 /\ k % p = k
  <2>1. 0 \in Int /\ k = p * 0 + k /\ p \in Nat \ {0} /\ k \in 0 .. p - 1
    OBVIOUS
  <2>2. (p * 0 + k) \div p = 0 /\ (p * 0 + k) % p = k
    BY ONLY <2>1, OneQuotient
  <2>3. QED
    BY <2>1, <2>2
<1>4. Zeros(0) = << >>
  BY DEF Zeros
<1>5. Begun(s, k) = (<<s>> \o low) \o << >>
  BY <1>1, <1>2, <1>3, <1>4 DEF Begun
<1>6. <<s>> \o low \in Seq(Bit)
  BY OneMore
<1>7. (<<s>> \o low) \o << >> = <<s>> \o low
  BY <1>6, ConcatEmptySeq
<1>8. k \in 0 .. MAX
  BY <1>1, LowFits, Sizes
<1>9. QED
  BY <1>2, <1>5, <1>7, <1>8

(* One more high bit. *)
LEMMA BegunNext ==
  ASSUME NEW s \in Bit, NEW k \in Nat
  PROVE  Begun(s, k + 2^LOW) = Begun(s, k) \o <<0>>
<1>1. PICK p \in Nat \ {0} : p = 2^LOW
  BY Sizes
<1>2. PICK h \in Nat, c \in 0 .. p - 1 : h = k \div p /\ c = k % p /\ k = p * h + c
  BY <1>1, HighAndLow
<1>3. PICK l \in Nat : l = k + p
  OBVIOUS
<1>4. PICK g \in Nat : g = h + 1
  OBVIOUS
<1>5. l = p * g + c
  <2>1. p * g = p * h + p
    BY <1>4
  <2>2. PICK y \in Nat, z \in Nat : y = p * g /\ z = p * h
    OBVIOUS
  <2>3. QED
    BY <1>2, <1>3, <2>1, <2>2
<1>6. l \div p = g /\ l % p = c
  <2>1. (p * g + c) \div p = g /\ (p * g + c) % p = c
    <3>1. g \in Int
      OBVIOUS
    <3>2. QED
      BY ONLY <3>1, p \in Nat \ {0}, c \in 0 .. p - 1, OneQuotient
  <2>2. QED
    BY <1>5, <2>1
<1>7. PICK a, z, o : a = <<s>> \o Binary(c, LOW) /\ z = Zeros(h) /\ o = Zeros(1)
  OBVIOUS
<1>8. a \in Seq(Bit) /\ z \in Seq(Bit) /\ o \in Seq(Bit)
  <2>1. c \in Nat /\ LOW \in Nat
    BY <1>1, Sizes
  <2>2. Binary(c, LOW) \in Seq(Bit)
    BY <2>1, BinaryIs
  <2>3. a \in Seq(Bit)
    BY <1>7, <2>2, OneMore
  <2>4. QED
    BY <1>7, <2>3, ZerosAre
<1>9. z \o o = Zeros(g)
  BY <1>4, <1>7, ZerosAdd
<1>10. Begun(s, l) = a \o (z \o o) /\ Begun(s, k) = a \o z
  BY <1>1, <1>2, <1>6, <1>7, <1>9, Zenon DEF Begun
<1>11. (a \o z) \o o = a \o (z \o o)
  <2>1. AllIn(Bit, a, z, o)
    BY <1>8 DEF AllIn
  <2>2. QED
    BY ONLY <2>1, Regroup
<1>12. o = <<0>>
  BY <1>7 DEF Zeros
<1>13. QED
  BY <1>1, <1>3, <1>10, <1>11, <1>12

(* A sign and the low bits, from the accumulator and the next byte. *)
NextByteOf(acc, v, l, bits, low, rest, t) ==
  /\ bits = acc \o mem[v + 1]
  /\ low = SubSeq(bits, 2, BYTE) /\ rest = SubSeq(bits, BYTE + 1, Len(bits))
  /\ t = UpTo(v + 1, l)

ByteTaken(acc, v, l, bits, low, rest, t) ==
  /\ bits[1] \in Bit /\ Number(low) \in 0 .. MAX
  /\ rest \in Seq(Bit) /\ Len(rest) < BYTE
  /\ v + 1 \in 0 .. l /\ t \in Seq(Bit)
  /\ acc \o UpTo(v, l) = Begun(bits[1], Number(low)) \o (rest \o t)

LEMMA TakesByte ==
  ASSUME NEW acc, NEW v, NEW l, NEW bits, NEW low, NEW rest, NEW t,
         NextByteOf(acc, v, l, bits, low, rest, t),
         mem \in Memory, l \in 0 .. MEMORY, v \in 0 .. l, v < l,
         acc \in Seq(Bit), Len(acc) < BYTE
  PROVE  ByteTaken(acc, v, l, bits, low, rest, t)
<1>1. /\ bits = acc \o mem[v + 1]
      /\ low = SubSeq(bits, 2, BYTE) /\ rest = SubSeq(bits, BYTE + 1, Len(bits))
      /\ t = UpTo(v + 1, l)
  BY DEF NextByteOf
<1>2. MEMORY \in Nat /\ BYTE \in Nat /\ BYTE = LOW + 1 /\ LOW \in Nat \ {0} /\ Len(acc) \in Nat
  BY CodecAssumption, Sizes DEF BYTE
<1>3. PICK b : b = mem[v + 1]
  OBVIOUS
<1>4. b \in Seq(Bit) /\ Len(b) = BYTE /\ UpTo(v, l) = b \o t
  BY <1>1, <1>3, UpToIs
<1>5. v + 1 \in 0 .. l
  BY <1>2
<1>6. t \in Seq(Bit)
  BY <1>1, <1>5, UpToIs
<1>7. bits \in Seq(Bit) /\ Len(bits) = Len(acc) + BYTE
  BY <1>1, <1>3, <1>4, ConcatProperties
<1>8. PICK first : first = SubSeq(bits, 1, BYTE)
  OBVIOUS
<1>9. /\ first \in Seq(Bit) /\ rest \in Seq(Bit) /\ Len(rest) = Len(acc)
      /\ first \o rest = bits
  <2>1. BYTE \in 0 .. Len(bits)
    BY ONLY <1>2, <1>7
  <2>2. rest = SubSeq(bits, BYTE + 1, Len(bits))
    BY <1>1
  <2>3. /\ first \in Seq(Bit) /\ rest \in Seq(Bit) /\ Len(rest) = Len(bits) - BYTE
        /\ first \o rest = bits
    BY ONLY <1>7, <1>8, <2>1, <2>2, CutAt
  <2>4. QED
    BY ONLY <1>2, <1>7, <2>3
<1>10. low \in Seq(Bit) /\ Len(low) = LOW
  <2>1. 2 \in Int /\ BYTE \in Int /\ \A i \in 2 .. BYTE : bits[i] \in Bit
    BY ONLY <1>2, <1>7
  <2>2. low = SubSeq(bits, 2, BYTE)
    BY <1>1
  <2>3. low \in Seq(Bit) /\ Len(low) = IF 2 <= BYTE THEN BYTE - 2 + 1 ELSE 0
    BY ONLY <2>1, <2>2, SubSeqProperties
  <2>4. QED
    BY ONLY <1>2, <2>3
<1>11. first = <<bits[1]>> \o low /\ bits[1] \in Bit
  <2>1. 1 \in 1 .. Len(bits) /\ BYTE \in 1 .. Len(bits)
    BY ONLY <1>2, <1>7
  <2>2. SubSeq(bits, 1, BYTE) = <<bits[1]>> \o SubSeq(bits, 1 + 1, BYTE)
    BY ONLY <1>7, <2>1, SubSeqRecursiveFirst
  <2>3. low = SubSeq(bits, 2, BYTE)
    BY <1>1
  <2>4. QED
    BY ONLY <1>7, <1>8, <2>1, <2>2, <2>3
<1>12. Begun(bits[1], Number(low)) = first /\ Number(low) \in 0 .. MAX
  BY <1>10, <1>11, BegunLow
<1>13. acc \o UpTo(v, l) = first \o (rest \o t)
  <2>1. AllIn(Bit, acc, b, t) /\ AllIn(Bit, first, rest, t)
    BY <1>4, <1>6, <1>9 DEF AllIn
  <2>2. (acc \o b) \o t = acc \o (b \o t)
    BY ONLY <2>1, Regroup
  <2>3. (first \o rest) \o t = first \o (rest \o t)
    BY ONLY <2>1, Regroup
  <2>4. QED
    BY <1>1, <1>3, <1>4, <1>9, <2>2, <2>3
<1>14. Len(rest) < BYTE
  BY <1>9
<1>15. QED
  BY <1>5, <1>6, <1>9, <1>11, <1>12, <1>13, <1>14, Zenon DEF ByteTaken

LEMMA LowKeeps ==
  ASSUME Decoding, C!Low
  PROVE  Decoding'
<1>1. pcC = "head" /\ Len(xC) < n /\ mem' = mem /\ len' = len
  BY DEF C!Low
<1>2. Read /\ Foreseen /\ Received = CodeOf(xC) \o (accC \o Left(vC))
  BY <1>1 DEF Decoding
<1>3. CASE vC >= len
  <2>1. pcC' = "failed" /\ UNCHANGED <<accC, vC, xC>>
    BY <1>3 DEF C!Low, C!Fail
  <2>2. \A p \in Plains : ToBytes(CodeOf(p)) # Received
    BY <1>1, <1>3, LowFails
  <2>3. QED
    BY <1>1, <2>1, <2>2, Refuse
<1>4. CASE ~ (vC >= len)
  <2>1. mem \in Memory /\ len \in 0 .. MEMORY /\ vC \in 0 .. len /\ vC < len /\ MEMORY \in Nat
    BY <1>2, <1>4, CodecAssumption DEF Read
  <2>2. PICK bits, low, rest, t : NextByteOf(accC, vC, len, bits, low, rest, t)
    BY DEF NextByteOf
  <2>3. /\ sC' = bits[1] /\ mC' = Number(low) /\ accC' = rest /\ vC' = vC + 1
        /\ pcC' = "high" /\ xC' = xC
    BY <1>4, <2>2, SameOfC DEF C!Low, NextByteOf
  <2>4. /\ bits[1] \in Bit /\ Number(low) \in 0 .. MAX
        /\ rest \in Seq(Bit) /\ Len(rest) < BYTE
        /\ vC + 1 \in 0 .. len /\ t \in Seq(Bit)
        /\ accC \o UpTo(vC, len) = Begun(bits[1], Number(low)) \o (rest \o t)
    <3>1. accC \in Seq(Bit) /\ Len(accC) < BYTE
      BY <1>2 DEF Read
    <3>2. ByteTaken(accC, vC, len, bits, low, rest, t)
      BY ONLY <2>1, <2>2, <3>1, TakesByte, Zenon
    <3>3. QED
      BY <3>2, Zenon DEF ByteTaken
  <2>5. Left(vC)' = t /\ Left(vC) = UpTo(vC, len)
    BY <1>1, <2>2, <2>3 DEF Left, UpTo, NextByteOf
  <2>6. Received' = Received /\ CodeOf(xC)' = CodeOf(xC)
    BY <1>1, <2>3 DEF Received
  <2>7. Received' = CodeOf(xC') \o (Begun(sC', mC') \o (accC' \o Left(vC)'))
    BY <1>2, <2>3, <2>4, <2>5, <2>6
  <2>8. Foreseen'
    BY <1>2, <2>3, <2>6 DEF Foreseen
  <2>9. Read'
    BY <1>1, <1>2, <2>3, <2>4 DEF Read
  <2>10. QED
    BY <1>1, <2>3, <2>4, <2>7, <2>8, <2>9 DEF Decoding, OneEncoding
<1>5. QED
  BY <1>3, <1>4

(* What the signature says of the coefficient that is being read, when the  *)
(* bits not read yet are g.                                                 *)
LEMMA HighTells ==
  ASSUME Decoding, pcC = "high", NEW p \in Plains, ToBytes(CodeOf(p)) = Received,
         NEW e \in Bit, NEW g \in Seq(Bit), accC \o Left(vC) = <<e>> \o g
  PROVE  /\ e = 0 => mC + 2^LOW <= MAX
         /\ e = 1 => p[Len(xC) + 1] = (IF sC = 1 THEN -mC ELSE mC) /\ ~ (sC = 1 /\ mC = 0)
<1>1. /\ Read /\ Foreseen /\ Len(xC) < n /\ sC \in Bit /\ mC \in 0 .. MAX
      /\ Received = CodeOf(xC) \o (Begun(sC, mC) \o (accC \o Left(vC)))
  BY DEF Decoding
<1>2. PICK h : h = Begun(sC, mC) \o (<<e>> \o g)
  OBVIOUS
<1>3. h \in Seq(Bit)
  <2>1. mC \in Nat
    BY <1>1
  <2>2. Begun(sC, mC) \in Seq(Bit)
    BY <1>1, <2>1, BegunTyped
  <2>3. <<e>> \o g \in Seq(Bit)
    BY OneMore
  <2>4. QED
    BY <1>2, <2>2, <2>3, Joined
<1>4. Received = CodeOf(xC) \o h
  BY <1>1, <1>2
<1>5. PICK d \in -MAX .. MAX, r \in Seq(Bit) :
        d = p[Len(xC) + 1] /\ h = Begun(Sign(d), Abs(d)) \o (<<1>> \o r)
  BY <1>1, <1>3, <1>4, NextIs
<1>6. /\ Sign(d) \in Bit /\ Abs(d) \in Nat
      /\ d = IF Sign(d) = 1 THEN -Abs(d) ELSE Abs(d)
      /\ Sign(d) = 1 => Abs(d) # 0
      /\ Abs(d) <= MAX
  <2>1. d \in Int
    BY Sizes
  <2>2. QED
    BY <2>1, CodeBegins
<1>7. PICK t \in Bit, l \in Nat : t = Sign(d) /\ l = Abs(d)
  BY <1>6
<1>8. /\ sC = t /\ (e = 1 => mC = l) /\ (e = 0 => mC + 2^LOW <= l)
  <2>1. PICK k \in Nat : k = mC
    BY <1>1
  <2>2. SameBits(sC, k, e, g, t, l, r)
    BY <1>2, <1>5, <1>7, <2>1 DEF SameBits
  <2>3. sC = t /\ (e = 1 => k = l) /\ (e = 0 => k + 2^LOW <= l)
    BY <1>1, <2>2, OneBegun
  <2>4. QED
    BY <2>1, <2>3
<1>9. ASSUME e = 0
      PROVE  mC + 2^LOW <= MAX
  <2>1. PICK y \in Nat : y = 2^LOW
    BY Sizes
  <2>2. QED
    BY <1>1, <1>6, <1>7, <1>8, <1>9, <2>1, Sizes
<1>10. ASSUME e = 1
       PROVE  p[Len(xC) + 1] = (IF sC = 1 THEN -mC ELSE mC) /\ ~ (sC = 1 /\ mC = 0)
  BY <1>5, <1>6, <1>7, <1>8, <1>10
<1>11. QED
  BY <1>9, <1>10

(* No signature ends within a coefficient. *)
LEMMA HighAtEnd ==
  ASSUME Decoding, pcC = "high", accC = << >>, vC >= len, NEW p \in Plains
  PROVE  ToBytes(CodeOf(p)) # Received
<1>1. /\ Read /\ Foreseen /\ Len(xC) < n /\ sC \in Bit /\ mC \in 0 .. MAX
      /\ Received = CodeOf(xC) \o (Begun(sC, mC) \o (accC \o Left(vC)))
  BY DEF Decoding
<1>2. PICK k \in Nat : k = mC
  BY <1>1
<1>3. PICK h \in Seq(Bit) : h = Begun(sC, k)
  BY <1>1, BegunTyped
<1>4. Received = CodeOf(xC) \o h
  <2>1. vC = len /\ mem \in Memory /\ len \in 0 .. MEMORY /\ vC \in 0 .. len
    BY <1>1, CodecAssumption DEF Read
  <2>2. Left(vC) = << >>
    BY <2>1, LeftIs
  <2>3. accC \o Left(vC) = << >>
    BY <2>2
  <2>4. h \o << >> = h
    BY ConcatEmptySeq
  <2>5. QED
    BY <1>1, <1>2, <1>3, <2>3, <2>4
<1>5. SUFFICES ASSUME ToBytes(CodeOf(p)) = Received
               PROVE  FALSE
  OBVIOUS
<1>6. PICK d \in -MAX .. MAX, r \in Seq(Bit) : h = Begun(Sign(d), Abs(d)) \o (<<1>> \o r)
  BY <1>1, <1>4, <1>5, NextIs
<1>7. PICK t \in Bit, l \in Nat : t = Sign(d) /\ l = Abs(d)
  <2>1. d \in Int
    BY Sizes
  <2>2. QED
    BY <2>1, CodeBegins
<1>8. ASSUME NEW e \in Bit
      PROVE  /\ e = 1 => k = l
             /\ e = 0 => k + 2^LOW <= l
  <2>1. PICK w, o, f : w = Begun(t, l) /\ o = <<1>> /\ f = <<e>>
    OBVIOUS
  <2>2. w \in Seq(Bit) /\ o \in Seq(Bit) /\ f \in Seq(Bit)
    <3>1. w \in Seq(Bit)
      BY <2>1, BegunTyped
    <3>2. 1 \in Bit
      BY DEF Bit
    <3>3. QED
      BY <2>1, <3>1, <3>2, OneMore
  <2>3. PICK y : y = o \o r
    OBVIOUS
  <2>4. y \in Seq(Bit)
    BY <2>2, <2>3, Joined
  <2>5. AllIn(Bit, w, y, f) /\ AllIn(Bit, o, r, f)
    BY <2>2, <2>4 DEF AllIn
  <2>6. (w \o y) \o f = w \o (y \o f)
    BY ONLY <2>5, Regroup
  <2>7. (o \o r) \o f = o \o (r \o f)
    BY ONLY <2>5, Regroup
  <2>8. h \o f = w \o (o \o (r \o f))
    BY <1>6, <1>7, <2>1, <2>3, <2>6, <2>7
  <2>9. f \o << >> = f /\ << >> \in Seq(Bit)
    BY <2>2, ConcatEmptySeq
  <2>10. PICK b : b = r \o f
    OBVIOUS
  <2>11. b \in Seq(Bit)
    BY <2>2, <2>10, Joined
  <2>12. SameBits(sC, k, e, << >>, t, l, b)
    BY <1>3, <2>1, <2>8, <2>9, <2>10 DEF SameBits
  <2>13. QED
    BY <1>1, <2>9, <2>11, <2>12, OneBegun
<1>9. k = l /\ k + 2^LOW <= l
  <2>1. 1 \in Bit /\ 0 \in Bit
    BY DEF Bit
  <2>2. QED
    BY <1>8, <2>1
<1>10. PICK y \in Nat \ {0} : y = 2^LOW
  BY Sizes
<1>11. QED
  BY <1>9, <1>10

(* The next bit, from the accumulator or from the next byte. *)
NextBitOf(acc, v, l, bits, w, t) ==
  /\ bits = IF acc = << >> THEN mem[v + 1] ELSE acc
  /\ w = IF acc = << >> THEN v + 1 ELSE v
  /\ t = UpTo(w, l)

LEMMA TakesBit ==
  ASSUME NEW acc, NEW v, NEW l, NEW bits, NEW w, NEW t, NextBitOf(acc, v, l, bits, w, t),
         mem \in Memory, l \in 0 .. MEMORY, v \in 0 .. l,
         acc \in Seq(Bit), Len(acc) < BYTE, ~ (acc = << >> /\ v >= l)
  PROVE  /\ bits[1] \in Bit /\ Tail(bits) \in Seq(Bit) /\ Len(Tail(bits)) < BYTE
         /\ w \in 0 .. l /\ t \in Seq(Bit)
         /\ acc \o UpTo(v, l) = <<bits[1]>> \o (Tail(bits) \o t)
         /\ Tail(bits) \o t \in Seq(Bit)
<1>1. /\ bits = IF acc = << >> THEN mem[v + 1] ELSE acc
      /\ w = IF acc = << >> THEN v + 1 ELSE v
      /\ t = UpTo(w, l)
  BY DEF NextBitOf
<1>2. MEMORY \in Nat /\ BYTE \in Nat \ {0}
  BY CodecAssumption, Sizes
<1>3. /\ bits \in Seq(Bit) /\ Len(bits) \in 1 .. BYTE
      /\ w \in 0 .. l /\ acc \o UpTo(v, l) = bits \o t
  <2>1. CASE acc = << >>
    <3>1. v < l /\ bits = mem[v + 1] /\ w = v + 1
      BY <1>1, <1>2, <2>1
    <3>2. bits \in Seq(Bit) /\ Len(bits) = BYTE /\ UpTo(v, l) = bits \o t
      BY <1>1, <1>2, <3>1, UpToIs
    <3>3. w \in 0 .. l
      BY <1>2, <3>1
    <3>4. UpTo(v, l) \in Seq(Bit)
      BY <1>2, UpToIs
    <3>5. << >> \o UpTo(v, l) = UpTo(v, l)
      BY <3>4, ConcatEmptySeq
    <3>6. BYTE \in 1 .. BYTE
      BY <1>2
    <3>7. QED
      BY <2>1, <3>2, <3>3, <3>5, <3>6
  <2>2. CASE acc # << >>
    <3>1. bits = acc /\ w = v /\ t = UpTo(v, l)
      BY <1>1, <2>2
    <3>2. Len(acc) \in Nat \ {0}
      BY <1>2, <2>2, EmptySeq
    <3>3. QED
      BY <1>2, <3>1, <3>2
  <2>3. QED
    BY <2>1, <2>2
<1>4. t \in Seq(Bit)
  BY <1>1, <1>2, <1>3, UpToIs
<1>5. bits # << >> /\ 1 \in 1 .. Len(bits)
  BY <1>3
<1>6. Tail(bits) \in Seq(Bit) /\ Len(Tail(bits)) = Len(bits) - 1 /\ bits[1] \in Bit
  BY <1>3, <1>5, HeadTailProperties
<1>7. bits = <<bits[1]>> \o Tail(bits)
  <2>1. Len(bits) \in 1 .. Len(bits)
    BY <1>3
  <2>2. SubSeq(bits, 1, Len(bits)) = <<bits[1]>> \o SubSeq(bits, 1 + 1, Len(bits))
    BY <1>3, <1>5, <2>1, SubSeqRecursiveFirst
  <2>3. SubSeq(bits, 1, Len(bits)) = bits
    BY <1>3, SubSeqFull
  <2>4. Tail(bits) = SubSeq(bits, 2, Len(bits))
    BY <1>3, <1>5, TailIsSubSeq
  <2>5. QED
    BY <2>2, <2>3, <2>4
<1>8. PICK o, r : o = <<bits[1]>> /\ r = Tail(bits)
  OBVIOUS
<1>9. AllIn(Bit, o, r, t)
  <2>1. o \in Seq(Bit)
    BY <1>6, <1>8
  <2>2. QED
    BY <1>4, <1>6, <1>8, <2>1 DEF AllIn
<1>10. (o \o r) \o t = o \o (r \o t)
  BY ONLY <1>9, Regroup
<1>11. r \o t \in Seq(Bit)
  BY <1>9, Joined DEF AllIn
<1>12. Len(Tail(bits)) < BYTE
  BY <1>2, <1>3, <1>6
<1>13. QED
  BY <1>3, <1>4, <1>6, <1>7, <1>8, <1>10, <1>11, <1>12

LEMMA NextBit ==
  ASSUME Read, ~ (accC = << >> /\ vC >= len), NEW bits, NEW w, NEW t,
         bits = IF accC = << >> THEN mem[vC + 1] ELSE accC,
         w = IF accC = << >> THEN vC + 1 ELSE vC, t = Left(w)
  PROVE  /\ bits[1] \in Bit /\ Tail(bits) \in Seq(Bit) /\ Len(Tail(bits)) < BYTE
         /\ w \in 0 .. len /\ t \in Seq(Bit)
         /\ accC \o Left(vC) = <<bits[1]>> \o (Tail(bits) \o t)
         /\ Tail(bits) \o t \in Seq(Bit)
<1>1. /\ mem \in Memory /\ len \in 0 .. MEMORY /\ vC \in 0 .. len
      /\ accC \in Seq(Bit) /\ Len(accC) < BYTE
  BY DEF Read
<1>2. NextBitOf(accC, vC, len, bits, w, t)
  BY Zenon DEF NextBitOf, Left, UpTo
<1>3. UpTo(vC, len) = Left(vC)
  BY DEF UpTo, Left
<1>4. ~ (accC = << >> /\ vC >= len)
  OBVIOUS
<1>5. /\ bits[1] \in Bit /\ Tail(bits) \in Seq(Bit) /\ Len(Tail(bits)) < BYTE
      /\ w \in 0 .. len /\ t \in Seq(Bit)
      /\ accC \o UpTo(vC, len) = <<bits[1]>> \o (Tail(bits) \o t)
      /\ Tail(bits) \o t \in Seq(Bit)
  BY ONLY <1>1, <1>2, <1>4, TakesBit, Zenon
<1>6. QED
  BY <1>3, <1>5, Zenon

LEMMA HighKeeps ==
  ASSUME Decoding, C!High
  PROVE  Decoding'
<1>1. pcC = "high" /\ mem' = mem /\ len' = len
  BY DEF C!High
<1>2. /\ Read /\ Foreseen /\ Len(xC) < n /\ sC \in Bit /\ mC \in 0 .. MAX
      /\ Received = CodeOf(xC) \o (Begun(sC, mC) \o (accC \o Left(vC)))
  BY <1>1 DEF Decoding
<1>3. PICK bits, w, t :
        /\ bits = IF accC = << >> THEN mem[vC + 1] ELSE accC
        /\ w = IF accC = << >> THEN vC + 1 ELSE vC
        /\ t = Left(w)
  OBVIOUS
<1>4. CASE accC = << >> /\ vC >= len
  <2>1. pcC' = "failed" /\ UNCHANGED <<accC, vC, xC>>
    BY <1>4 DEF C!High, C!Fail
  <2>2. \A p \in Plains : ToBytes(CodeOf(p)) # Received
    BY <1>1, <1>4, HighAtEnd
  <2>3. QED
    BY <1>1, <2>1, <2>2, Refuse
<1>5. CASE ~ (accC = << >> /\ vC >= len)
  <2>1. PICK e, a, g : e = bits[1] /\ a = Tail(bits) /\ g = a \o t
    OBVIOUS
  <2>2. /\ e \in Bit /\ a \in Seq(Bit) /\ Len(a) < BYTE /\ w \in 0 .. len /\ t \in Seq(Bit)
        /\ accC \o Left(vC) = <<e>> \o g /\ g \in Seq(Bit)
    BY <1>2, <1>3, <1>5, <2>1, NextBit
  <2>3. ASSUME NEW p \in Plains, ToBytes(CodeOf(p)) = Received
        PROVE  /\ e = 0 => mC + 2^LOW <= MAX
               /\ e = 1 => /\ p[Len(xC) + 1] = IF sC = 1 THEN -mC ELSE mC
                           /\ ~ (sC = 1 /\ mC = 0)
    BY <1>1, <2>2, <2>3, HighTells
  <2>4. CASE (e = 0 /\ mC + 2^LOW > MAX) \/ (e = 1 /\ sC = 1 /\ mC = 0)
    <3>1. pcC' = "failed" /\ UNCHANGED <<accC, vC, xC>>
      BY <1>3, <2>1, <2>4 DEF C!High, C!Fail
    <3>2. ~ (e = 0 /\ mC + 2^LOW <= MAX) /\ ~ (e = 1 /\ ~ (sC = 1 /\ mC = 0))
      <4>1. mC + 2^LOW \in Nat /\ MAX \in Nat
        BY <1>2, Sizes
      <4>2. QED
        BY <2>4, <4>1
    <3>3. \A p \in Plains : ToBytes(CodeOf(p)) # Received
      BY <2>2, <2>3, <3>2 DEF Bit
    <3>4. QED
      BY <1>1, <3>1, <3>3, Refuse
  <2>5. CASE ~ ((e = 0 /\ mC + 2^LOW > MAX) \/ (e = 1 /\ sC = 1 /\ mC = 0))
    <3>1. accC' = a /\ vC' = w /\ sC' = sC
      BY <1>3, <1>5, <2>1, <2>5 DEF C!High
    <3>2. Left(vC)' = t /\ Received' = Received
      BY <1>1, <1>3, <3>1 DEF Left, Received
    <3>3. PICK k \in Nat, b \in Seq(Bit), c \in Seq(Bit) :
            k = mC /\ b = Begun(sC, k) /\ c = CodeOf(xC)
      <4>1. PICK k \in Nat : k = mC
        BY <1>2, Sizes
      <4>2. Begun(sC, k) \in Seq(Bit) /\ CodeOf(xC) \in Seq(Bit)
        BY <1>2, ReadIs, BegunTyped
      <4>3. QED
        BY <4>1, <4>2
    <3>4. Received = c \o (b \o (<<e>> \o g))
      BY <1>2, <2>2, <3>3
    <3>5. PICK o : o = <<e>>
      OBVIOUS
    <3>6. o \in Seq(Bit)
      BY <2>2, <3>5
    <3>7. AllIn(Bit, b, o, g)
      BY <2>2, <3>3, <3>6 DEF AllIn
    <3>8. (b \o o) \o g = b \o (o \o g)
      BY ONLY <3>7, Regroup
    <3>9. Received = c \o ((b \o o) \o g)
      BY <3>4, <3>5, <3>8
    <3>10. CASE e = 0
      <4>1. mC' = mC + 2^LOW /\ pcC' = "high" /\ xC' = xC
        BY <1>3, <1>5, <2>1, <2>5, <3>10 DEF C!High
      <4>2. mC' \in 0 .. MAX
        <5>1. PICK y \in Nat : y = 2^LOW
          BY Sizes
        <5>2. MAX \in Nat /\ ~ (k + y > MAX)
          BY <2>5, <3>3, <3>10, <5>1, Sizes
        <5>3. QED
          BY <3>3, <4>1, <5>1, <5>2
      <4>3. Begun(sC', mC') = b \o o
        BY <1>2, <3>1, <3>3, <3>5, <3>10, <4>1, BegunNext
      <4>4. Received' = CodeOf(xC') \o (Begun(sC', mC') \o (accC' \o Left(vC)'))
        BY <2>1, <3>1, <3>2, <3>3, <3>9, <4>1, <4>3
      <4>5. Read' /\ Foreseen'
        BY <1>1, <1>2, <2>2, <3>1, <3>2, <4>1 DEF Read, Foreseen
      <4>6. QED
        BY <1>2, <3>1, <4>1, <4>2, <4>4, <4>5 DEF Decoding, OneEncoding
    <3>11. CASE e = 1
      <4>1. PICK d : d = IF sC = 1 THEN -mC ELSE mC
        OBVIOUS
      <4>2. xC' = Append(xC, d) /\ pcC' = "head" /\ mC' = mC
        BY <1>3, <1>5, <2>1, <2>5, <3>11, <4>1 DEF C!High
      <4>3. d \in -MAX .. MAX /\ d \in Int /\ Sign(d) = sC /\ Abs(d) = k
        <5>1. MAX \in Nat /\ ~ (sC = 1 /\ k = 0) /\ sC \in {0, 1} /\ k \in 0 .. MAX
          BY <1>2, <2>5, <3>3, <3>11, Sizes DEF Bit
        <5>2. d = IF sC = 1 THEN -k ELSE k
          BY <3>3, <4>1
        <5>3. QED
          BY <5>1, <5>2 DEF Sign, Abs
      <4>4. CodeOf(xC') = c \o (b \o o)
        <5>1. Code(d) = b \o o
          BY <3>3, <3>5, <3>11, <4>3, CodeBegins
        <5>2. xC \in Seq(Int)
          BY <1>2, ReadIs
        <5>3. QED
          BY <3>3, <4>2, <4>3, <5>1, <5>2, CodeOfAppend
      <4>5. Received' = CodeOf(xC') \o (accC' \o Left(vC)')
        <5>1. PICK f : f = b \o o
          OBVIOUS
        <5>2. f \in Seq(Bit)
          BY <3>6, <5>1, Joined
        <5>3. AllIn(Bit, c, f, g)
          BY <2>2, <3>3, <5>2 DEF AllIn
        <5>4. (c \o f) \o g = c \o (f \o g)
          BY ONLY <5>3, Regroup
        <5>5. QED
          BY <2>1, <3>1, <3>2, <3>9, <4>4, <5>1, <5>4
      <4>6. xC \in Seq(-MAX .. MAX) /\ Len(xC) \in Nat /\ n \in Nat
        BY <1>2, Sizes DEF Read
      <4>7. /\ xC' \in Seq(-MAX .. MAX) /\ Len(xC') = Len(xC) + 1
            /\ \A j \in 1 .. Len(xC) : xC'[j] = xC[j]
            /\ xC'[Len(xC) + 1] = d
        BY <4>2, <4>3, <4>6, AppendProperties
      <4>8. Read'
        <5>1. Len(xC') <= n
          BY <1>2, <4>6, <4>7
        <5>2. QED
          BY <1>1, <1>2, <2>2, <3>1, <4>7, <5>1 DEF Read
      <4>9. Foreseen'
        <5>1. ASSUME NEW p \in Plains, ToBytes(CodeOf(p)) = Received, NEW j \in 1 .. Len(xC')
              PROVE  xC'[j] = p[j]
          <6>1. CASE j = Len(xC) + 1
            BY <2>3, <3>11, <4>1, <4>7, <5>1, <6>1
          <6>2. CASE j # Len(xC) + 1
            <7>1. j \in 1 .. Len(xC)
              BY <4>6, <4>7, <6>2
            <7>2. QED
              BY <1>2, <4>7, <5>1, <7>1 DEF Foreseen
          <6>3. QED
            BY <6>1, <6>2
        <5>2. QED
          BY <3>2, <5>1 DEF Foreseen
      <4>10. QED
        BY <4>2, <4>5, <4>8, <4>9 DEF Decoding, OneEncoding
    <3>12. QED
      BY <2>2, <3>10, <3>11 DEF Bit
  <2>6. QED
    BY <2>4, <2>5
<1>6. QED
  BY <1>4, <1>5

(* Bits that are all zero. *)
LEMMA AllZero ==
  ASSUME NEW a \in Seq(Bit), \A b \in DOMAIN a : a[b] = 0
  PROVE  a = Zeros(Len(a))
<1>1. Len(a) \in Nat /\ DOMAIN a = 1 .. Len(a)
  BY LenProperties
<1>2. PICK z : z = Zeros(Len(a))
  OBVIOUS
<1>3. z \in Seq(Bit) /\ Len(z) = Len(a) /\ \A b \in 1 .. Len(a) : z[b] = 0
  BY <1>1, <1>2, ZerosAre
<1>4. \A i \in 1 .. Len(a) : a[i] = z[i]
  BY <1>1, <1>3
<1>5. QED
  BY <1>2, <1>3, <1>4, SeqEqual

(* Zeros up to the end of a byte are the padding. *)
LEMMA Padded ==
  ASSUME NEW c \in Seq(Bit), NEW z \in 0 .. BYTE - 1, NEW k \in Int, Len(c) + z = BYTE * k
  PROVE  ToBytes(c) = c \o Zeros(z)
<1>1. BYTE \in Nat \ {0} /\ Len(c) \in Nat /\ z \in Nat
  BY Sizes
<1>2. PICK d \in Int : d = -k
  OBVIOUS
<1>3. -Len(c) = BYTE * d + z
  <2>1. BYTE * d = -(BYTE * k)
    BY <1>1, <1>2
  <2>2. PICK y \in Int : y = BYTE * k
    BY <1>1
  <2>3. QED
    BY <1>1, <2>1, <2>2
<1>4. (BYTE * d + z) % BYTE = z
  <2>1. BYTE \in Nat \ {0} /\ d \in Int /\ z \in 0 .. BYTE - 1
    BY <1>1
  <2>2. QED
    BY ONLY <2>1, OneQuotient
<1>5. QED
  BY <1>3, <1>4 DEF ToBytes

LEMMA FinishKeeps ==
  ASSUME Decoding, C!Finish
  PROVE  Decoding'
<1>1. pcC = "head" /\ Len(xC) = n /\ UNCHANGED <<mem, len, accC, vC, xC>>
  BY DEF C!Finish
<1>2. Read /\ Foreseen /\ Received = CodeOf(xC) \o (accC \o Left(vC))
  BY <1>1 DEF Decoding
<1>3. Read' /\ Received' = Received
  BY <1>1, <1>2 DEF Read, Received
<1>4. PICK c \in Seq(Bit), a \in Seq(Bit), t \in Seq(Bit) :
        c = CodeOf(xC) /\ a = accC /\ t = Left(vC) /\ Len(a) < BYTE
  BY <1>2, ReadIs DEF Read
<1>5. /\ len \in Nat /\ vC \in 0 .. len /\ mem \in Memory /\ len \in 0 .. MEMORY
      /\ BYTE \in Nat \ {0} /\ Len(a) \in 0 .. BYTE - 1 /\ Len(c) \in Nat
  <2>1. BYTE \in Nat \ {0} /\ MEMORY \in Nat /\ Len(a) \in Nat
    BY Sizes, CodecAssumption
  <2>2. QED
    BY <1>2, <1>4, <2>1 DEF Read
<1>6. Len(t) = BYTE * (len - vC) /\ (vC = len => t = << >>)
  BY <1>4, <1>5, LeftIs
<1>7. CASE vC = len /\ \A b \in DOMAIN accC : accC[b] = 0
  <2>1. pcC' = "done"
    BY <1>7 DEF C!Finish
  <2>2. a = Zeros(Len(a)) /\ t = << >>
    BY <1>4, <1>6, <1>7, AllZero
  <2>3. Received = c \o a
    BY <1>2, <1>4, <2>2, ConcatEmptySeq
  <2>4. Len(c) + Len(a) = BYTE * len
    <3>1. Len(Received) = BYTE * len
      <4>1. 0 \in 0 .. len /\ len - 0 = len
        BY <1>5
      <4>2. Len(Left(0)) = BYTE * len
        BY <1>5, <4>1, LeftIs
      <4>3. QED
        BY <4>2, ReceivedIs
    <3>2. QED
      BY <2>3, <3>1, ConcatProperties
  <2>5. ToBytes(c) = c \o Zeros(Len(a))
    BY <1>5, <2>4, Padded
  <2>6. Received' = ToBytes(CodeOf(xC'))
    BY <1>1, <1>3, <1>4, <2>2, <2>3, <2>5
  <2>7. QED
    BY <1>3, <2>1, <2>6 DEF Decoding, OneEncoding
<1>8. CASE ~ (vC = len /\ \A b \in DOMAIN accC : accC[b] = 0)
  <2>1. pcC' = "failed"
    BY <1>8 DEF C!Finish
  <2>2. ASSUME NEW p \in Plains, ToBytes(CodeOf(p)) = Received
        PROVE  FALSE
    <3>1. CodeOf(p) = c
      <4>1. \A j \in 1 .. n : xC[j] = p[j]
        BY <1>1, <1>2, <2>2 DEF Foreseen
      <4>2. xC \in Seq(Int) /\ Len(xC) = n /\ n \in Nat
        BY <1>1, <1>2, ReadIs, Sizes
      <4>3. p \in [1 .. n -> Int]
        BY Sizes DEF Plains
      <4>4. CodeOf(xC) = Coded(p, n)
        <5>1. PICK y : y = xC
          OBVIOUS
        <5>2. y \in Seq(Int) /\ Len(y) <= n /\ \A j \in 1 .. Len(y) : y[j] = p[j]
          BY <4>1, <4>2, <5>1
        <5>3. CodeOf(y) = Coded(p, Len(y))
          BY ONLY <4>3, <5>2, CodeOfFirst
        <5>4. QED
          BY <4>2, <5>1, <5>3
      <4>5. n \in 0 .. n
        BY <4>2
      <4>6. CodeOf(p) = Coded(p, n)
        BY <4>3, <4>5, CodedIs
      <4>7. QED
        BY <1>4, <4>4, <4>6
    <3>2. PICK z \in 0 .. BYTE - 1 : ToBytes(c) = c \o Zeros(z)
      BY ToBytesIs
    <3>3. PICK y : y = Zeros(z)
      OBVIOUS
    <3>4. y \in Seq(Bit) /\ Len(y) = z /\ \A i \in 1 .. z : y[i] = 0
      <4>1. z \in Nat
        BY <1>5
      <4>2. QED
        BY <3>3, <4>1, ZerosAre
    <3>5. PICK g : g = a \o t
      OBVIOUS
    <3>6. g \in Seq(Bit)
      BY <3>5, Joined
    <3>7. c \o g = c \o y
      BY <1>2, <1>4, <2>2, <3>1, <3>2, <3>3, <3>5
    <3>8. g = y
      BY <3>4, <3>6, <3>7, Cancel
    <3>9. Len(a) + BYTE * (len - vC) = z
      <4>1. Len(a \o t) = Len(a) + Len(t)
        BY ConcatProperties
      <4>2. QED
        BY <1>6, <3>4, <3>5, <3>8, <4>1
    <3>10. PICK k \in Nat : k = len - vC
      BY <1>5
    <3>11. Len(a) = z
      <4>1. PICK l \in 0 .. BYTE - 1 : l = Len(a)
        BY <1>5
      <4>2. BYTE * k + l = BYTE * 0 + z
        <5>1. PICK x \in Nat : x = BYTE * k
          BY <1>5
        <5>2. l + x = z
          BY <3>9, <3>10, <4>1, <5>1
        <5>3. QED
          BY <1>5, <5>1, <5>2
      <4>3. /\ k \in Int /\ 0 \in Int /\ BYTE \in Nat \ {0}
            /\ l \in 0 .. BYTE - 1 /\ z \in 0 .. BYTE - 1
        BY <1>5
      <4>4. l = z
        BY ONLY <4>2, <4>3, OneRest
      <4>5. QED
        BY <4>1, <4>4
    <3>12. vC = len
      <4>1. BYTE * k = 0
        <5>1. PICK x \in Nat : x = BYTE * k
          BY <1>5
        <5>2. Len(a) + x = z
          BY <3>9, <3>10, <5>1
        <5>3. QED
          BY <1>5, <3>11, <5>1, <5>2
      <4>2. k # 0 => BYTE * k # 0
        BY <1>5
      <4>3. QED
        BY <1>5, <3>10, <4>1, <4>2
    <3>13. a = y
      BY <1>6, <3>5, <3>8, <3>12, ConcatEmptySeq
    <3>14. \A b \in DOMAIN a : a[b] = 0
      BY <3>4, <3>11, <3>13, LenProperties
    <3>15. QED
      BY <1>4, <1>8, <3>12, <3>14
  <2>3. QED
    BY <1>1, <2>1, <2>2, Refuse
<1>9. QED
  BY <1>7, <1>8

LEMMA LeftTyped == Read => Left(vC) \in Seq(Bit)
BY ReadIs

LEMMA DecodeSignatureKeeps ==
  ASSUME Decoding, DecodeSignature
  PROVE  Decoding'
<1>1. PICK b \in Memory, k \in 0 .. MEMORY : C!comp_decode(b, k)
  BY DEF DecodeSignature
<1>2. /\ pcC = "idle" /\ mem' = b /\ len' = k /\ pcC' = "head"
      /\ UNCHANGED <<accC, vC, sC, mC, xC>>
  BY <1>1 DEF C!comp_decode
<1>3. Read /\ accC = << >> /\ vC = 0 /\ xC = << >>
  BY <1>2 DEF Decoding
<1>4. Read'
  <2>1. 0 \in 0 .. k
    BY CodecAssumption
  <2>2. QED
    BY <1>2, <1>3, <2>1 DEF Read
<1>5. Left(vC)' = Received'
  BY <1>2, <1>3 DEF Left, Received
<1>6. CodeOf(xC)' = << >>
  <2>1. DOMAIN << >> = {} /\ [j \in {} |-> Code(<< >>[j])] = << >>
    OBVIOUS
  <2>2. CodeOf(<< >>) = << >>
    BY <2>1, FlattenNone DEF CodeOf
  <2>3. QED
    BY <1>2, <1>3, <2>2
<1>7. Received' = CodeOf(xC') \o (accC' \o Left(vC)')
  <2>1. Left(vC)' \in Seq(Bit)
    <3>1. (Read => Left(vC) \in Seq(Bit))'
      BY LeftTyped, PTL
    <3>2. QED
      BY <1>4, <3>1
  <2>2. << >> \o Left(vC)' = Left(vC)'
    BY <2>1, ConcatEmptySeq
  <2>3. QED
    BY <1>2, <1>3, <1>5, <1>6, <2>2
<1>8. Foreseen'
  <2>1. Len(xC') = 0
    BY <1>2, <1>3
  <2>2. QED
    BY <2>1 DEF Foreseen
<1>9. QED
  BY <1>2, <1>4, <1>7, <1>8 DEF Decoding, OneEncoding

LEMMA DecodingAlways == Spec => []Decoding
<1>1. Init => Decoding
  <2>1. SUFFICES ASSUME Init PROVE Decoding
    OBVIOUS
  <2>2. /\ mem = [k \in 1 .. MEMORY |-> Zeros(BYTE)] /\ len = 0 /\ pcC = "idle"
        /\ accC = << >> /\ vC = 0 /\ xC = << >>
    BY <2>1, SameOfC DEF Init, C!Init, C!Zeros, Zeros
  <2>3. Zeros(BYTE) \in Byte
    BY Sizes DEF Zeros, Byte, Bit
  <2>4. Read
    <3>1. mem \in Memory
      BY <2>2, <2>3 DEF Memory
    <3>2. 0 \in 0 .. MEMORY /\ 0 \in 0 .. 0 /\ n \in Nat /\ BYTE \in Nat \ {0}
      BY CodecAssumption, Sizes
    <3>3. << >> \in Seq(Bit) /\ << >> \in Seq(-MAX .. MAX) /\ Len(<< >>) = 0
      OBVIOUS
    <3>4. QED
      BY <2>2, <3>1, <3>2, <3>3 DEF Read
  <2>5. QED
    BY <2>2, <2>4 DEF Decoding, OneEncoding
<1>2. Decoding /\ [Next]_vars => Decoding'
  <2>1. SUFFICES ASSUME Decoding, [Next]_vars
                 PROVE  Decoding'
    OBVIOUS
  <2>2. CASE UNCHANGED decoderVars
    <3>1. UNCHANGED <<mem, len, pcC, accC, vC, sC, mC, xC>>
      BY <2>2 DEF decoderVars
    <3>2. Read' /\ Left(vC)' = Left(vC) /\ Received' = Received /\ (Foreseen => Foreseen')
      BY <2>1, <3>1 DEF Decoding, Read, Left, Received, Foreseen
    <3>3. OneEncoding'
      BY <2>1, <3>1, <3>2 DEF Decoding, OneEncoding
    <3>4. QED
      BY <2>1, <3>1, <3>2, <3>3 DEF Decoding
  <2>3. CASE DecodeSignature
    BY <2>1, <2>3, DecodeSignatureKeeps
  <2>4. CASE DecoderPass
    BY <2>1, <2>4, LowKeeps, HighKeeps, FinishKeeps DEF DecoderPass, C!Pass
  <2>5. CASE UNCHANGED vars
    BY <2>2, <2>5 DEF vars
  <2>6. QED
    BY <2>1, <2>2, <2>3, <2>4, <2>5
       DEF Next, EncodeSignature, EncodeFixed, DecodeFixed, EncoderPass, ContractPass, FixedPass
<1>3. QED
  BY <1>1, <1>2, PTL DEF Spec

(***************************************************************************)
(* What the verifier in C accepts is the one encoding of the polynomial it  *)
(* returns, and what it refuses encodes no polynomial (comp_decode of       *)
(* codec.c, called by crypto_sign_open).                                    *)
(***************************************************************************)
THEOREM OneEncodingAlways == Spec => []OneEncoding
<1>1. Decoding => OneEncoding
  BY DEF Decoding
<1>2. QED
  BY <1>1, DecodingAlways, PTL

(***************************************************************************)
(* What the contract reads                                                  *)
(***************************************************************************)

LEMMA SameOfS ==
  /\ S!BYTE = BYTE
  /\ \A b : S!Number(b) = Number(b)
BY Zenon DEF S!BYTE, S!Number, BYTE, Number

(* The coefficients it can store, q for "-0" among them. *)
Stored == (0 .. MAX) \cup (q - MAX .. q)

Says(c) == IF c > MAX THEN c - q ELSE c

StoredCode(c) == IF c = q THEN Begun(1, 0) \o <<1>> ELSE Code(Says(c))

SCoded(y) == FlattenSeq([j \in DOMAIN y |-> StoredCode(y[j])])

(* No code is longer. *)
Widest == BYTE + (MAX + 1) \div 2^LOW

LEMMA WidestIs ==
  /\ Widest \in Nat /\ BYTE < Widest /\ n * Widest <= MEMORY * BYTE
  /\ \A k \in 0 .. MAX : BYTE + (k \div 2^LOW) < Widest
<1>1. PICK p \in Nat \ {0} : p = 2^LOW
  BY Sizes
<1>2. MAX \in Nat /\ MAX + 1 \in Nat /\ (MAX + 1) % p = 0 /\ BYTE \in Nat
  BY <1>1, Sizes, CompressionAssumption
<1>3. PICK y \in Nat : y = MAX + 1
  BY <1>2
<1>4. PICK d \in Nat : d = y \div p /\ y = p * d
  <2>1. y \div p \in Nat /\ y = p * (y \div p) + (y % p)
    BY <1>1, <1>2, HighAndLow
  <2>2. y % p = 0
    BY <1>2, <1>3
  <2>3. PICK d \in Nat : d = y \div p
    BY <2>1
  <2>4. PICK z \in Nat : z = p * d
    OBVIOUS
  <2>5. y = z + 0
    BY <2>1, <2>2, <2>3, <2>4
  <2>6. QED
    BY <2>3, <2>4, <2>5
<1>5. Widest = BYTE + d
  BY <1>1, <1>3, <1>4 DEF Widest
<1>6. ASSUME NEW k \in 0 .. MAX
      PROVE  k \div p \in Nat /\ k \div p < d
  <2>1. k \in Nat
    BY <1>2
  <2>2. PICK h \in Nat, c \in Nat : h = k \div p /\ k = p * h + c
    <3>1. k \div p \in Nat /\ k % p \in 0 .. p - 1 /\ k = p * (k \div p) + (k % p)
      BY <1>1, <2>1, HighAndLow
    <3>2. k % p \in Nat
      BY <3>1
    <3>3. QED
      BY <3>1, <3>2
  <2>3. SUFFICES ASSUME ~ (h < d)
                 PROVE  FALSE
    BY <2>2
  <2>4. PICK e \in Nat : h = d + e
    <3>1. h - d \in Nat /\ h = d + (h - d)
      BY <2>3
    <3>2. QED
      BY <3>1
  <2>5. p * h = p * d + p * e /\ p * e \in Nat
    BY <2>4
  <2>6. PICK a \in Nat, b \in Nat, f \in Nat : a = p * h /\ b = p * d /\ f = p * e
    BY <2>5
  <2>7. QED
    BY <1>2, <1>3, <1>4, <2>2, <2>5, <2>6
<1>7. d > 0
  <2>1. 0 \in 0 .. MAX
    BY <1>2
  <2>2. 0 \div p \in Nat /\ 0 \div p < d
    BY <1>6, <2>1
  <2>3. QED
    BY <2>2
<1>8. \A k \in 0 .. MAX : BYTE + (k \div 2^LOW) < Widest
  <2>1. SUFFICES ASSUME NEW k \in 0 .. MAX
                 PROVE  BYTE + (k \div 2^LOW) < Widest
    OBVIOUS
  <2>2. PICK h \in Nat : h = k \div p /\ h < d
    BY <1>6
  <2>3. QED
    BY <1>1, <1>2, <1>5, <2>2
<1>9. n * Widest <= MEMORY * BYTE
  BY CodecAssumption DEF Widest
<1>10. QED
  BY <1>2, <1>5, <1>7, <1>8, <1>9

LEMMA BegunShort ==
  ASSUME NEW s \in Bit, NEW k \in 0 .. MAX
  PROVE  Begun(s, k) \in Seq(Bit) /\ Len(Begun(s, k)) < Widest
<1>1. k \in Nat
  BY Sizes
<1>2. PICK h \in Nat, c \in Nat : h = k \div 2^LOW /\ c = k % 2^LOW
  <2>1. k \div 2^LOW \in Nat /\ k % 2^LOW \in 0 .. 2^LOW - 1
    BY <1>1, HighAndLow
  <2>2. k % 2^LOW \in Nat
    BY <2>1, Sizes
  <2>3. QED
    BY <2>1, <2>2
<1>3. Begun(s, k) \in Seq(Bit) /\ Len(Begun(s, k)) = BYTE + h
  BY <1>2, BegunIs
<1>4. BYTE + h < Widest
  BY <1>2, WidestIs
<1>5. QED
  BY <1>3, <1>4

(* The coefficient that a sign and an absolute value are stored as. *)
Store(s, m) == IF s = 1 THEN q - m ELSE m

LEMMA StoreIs ==
  ASSUME NEW s \in Bit, NEW m \in 0 .. MAX
  PROVE  /\ Store(s, m) \in Stored
         /\ StoredCode(Store(s, m)) = Begun(s, m) \o <<1>>
<1>1. MAX \in Nat /\ q \in Nat /\ 2 * MAX < q
  BY Sizes, CodecAssumption
<1>2. CASE s = 1
  <2>1. Store(s, m) = q - m /\ q - m \in Stored
    BY <1>1, <1>2 DEF Store, Stored
  <2>2. CASE m = 0
    BY <1>1, <1>2, <2>1, <2>2 DEF StoredCode
  <2>3. CASE m # 0
    <3>1. q - m # q /\ Says(q - m) = -m
      BY <1>1, <2>3 DEF Says
    <3>2. StoredCode(q - m) = Code(-m)
      BY <3>1 DEF StoredCode
    <3>3. Code(-m) = Begun(Sign(-m), Abs(-m)) \o <<1>>
      <4>1. -m \in Int
        BY <1>1
      <4>2. QED
        BY <4>1, CodeBegins
    <3>4. Sign(-m) = 1 /\ Abs(-m) = m
      BY <1>1, <2>3 DEF Sign, Abs
    <3>5. QED
      BY <1>2, <2>1, <3>2, <3>3, <3>4
  <2>4. QED
    BY <2>2, <2>3
<1>3. CASE s = 0
  <2>1. Store(s, m) = m /\ m \in Stored
    BY <1>1, <1>3 DEF Store, Stored
  <2>2. m # q /\ Says(m) = m
    BY <1>1 DEF Says
  <2>3. Code(m) = Begun(Sign(m), Abs(m)) \o <<1>>
    <3>1. m \in Int
      BY <1>1
    <3>2. QED
      BY <3>1, CodeBegins
  <2>4. Sign(m) = 0 /\ Abs(m) = m
    BY <1>1 DEF Sign, Abs
  <2>5. QED
    BY <1>3, <2>1, <2>2, <2>3, <2>4 DEF StoredCode
<1>4. QED
  BY <1>2, <1>3 DEF Bit

LEMMA StoredIs ==
  ASSUME NEW c \in Stored
  PROVE  StoredCode(c) \in Seq(Bit) /\ Len(StoredCode(c)) \in Nat /\ Len(StoredCode(c)) <= Widest
<1>1. MAX \in Nat /\ q \in Nat /\ 2 * MAX < q
  BY Sizes, CodecAssumption
<1>2. PICK s \in Bit, m \in 0 .. MAX : c = Store(s, m)
  <2>1. CASE c \in 0 .. MAX
    BY <2>1 DEF Store, Bit
  <2>2. CASE c \in q - MAX .. q
    <3>1. q - c \in 0 .. MAX /\ c = q - (q - c)
      BY <1>1, <2>2
    <3>2. c = Store(1, q - c) /\ 1 \in Bit
      BY <3>1 DEF Store, Bit
    <3>3. QED
      BY <3>1, <3>2
  <2>3. QED
    BY <2>1, <2>2 DEF Stored
<1>3. StoredCode(c) = Begun(s, m) \o <<1>>
  BY <1>2, StoreIs
<1>4. PICK b, o : b = Begun(s, m) /\ o = <<1>>
  OBVIOUS
<1>5. b \in Seq(Bit) /\ Len(b) < Widest /\ o \in Seq(Bit) /\ Len(o) = 1
  BY <1>4, BegunShort DEF Bit
<1>6. b \o o \in Seq(Bit) /\ Len(b \o o) = Len(b) + 1 /\ Len(b) \in Nat
  <2>1. b \in Seq(Bit) /\ o \in Seq(Bit)
    BY <1>5
  <2>2. b \o o \in Seq(Bit) /\ Len(b \o o) = Len(b) + Len(o) /\ Len(b) \in Nat
    BY ONLY <2>1, ConcatProperties
  <2>3. QED
    BY <1>5, <2>2
<1>7. QED
  BY <1>3, <1>4, <1>5, <1>6, WidestIs

LEMMA SCodedNone == SCoded(<< >>) = << >>
<1>1. DOMAIN << >> = {} /\ [j \in {} |-> StoredCode(<< >>[j])] = << >>
  OBVIOUS
<1>2. QED
  BY <1>1, FlattenNone DEF SCoded

LEMMA SCodedAppend ==
  ASSUME NEW y \in Seq(Stored), NEW c \in Stored
  PROVE  /\ SCoded(y) \in Seq(Bit)
         /\ SCoded(Append(y, c)) = SCoded(y) \o StoredCode(c)
<1> DEFINE codes == [j \in DOMAIN y |-> StoredCode(y[j])]
<1>1. \A d \in Stored : StoredCode(d) \in Seq(Bit)
  BY StoredIs
<1>2. codes \in Seq(Seq(Bit))
  <2>1. DOMAIN y = 1 .. Len(y) /\ Len(y) \in Nat /\ \A j \in 1 .. Len(y) : y[j] \in Stored
    OBVIOUS
  <2>2. codes \in [1 .. Len(y) -> Seq(Bit)]
    BY <1>1, <2>1
  <2>3. QED
    BY <2>1, <2>2
<1>3. [j \in DOMAIN Append(y, c) |-> StoredCode(Append(y, c)[j])] = Append(codes, StoredCode(c))
  OBVIOUS
<1>4. StoredCode(c) \in Seq(Bit)
  BY <1>1
<1>5. QED
  BY <1>2, <1>3, <1>4, FlattenAppend DEF SCoded

LEMMA SCodedShort ==
  ASSUME NEW y \in Seq(Stored)
  PROVE  /\ SCoded(y) \in Seq(Bit)
         /\ Len(SCoded(y)) \in Nat /\ Len(SCoded(y)) <= Widest * Len(y)
<1> DEFINE Right(r) == Len(SCoded(r)) <= Widest * Len(r)
           Wrong == {l \in Nat : \E r \in Seq(Stored) : Len(r) = l /\ ~Right(r)}
<1>1. Wrong = {}
  <2>1. SUFFICES ASSUME Wrong # {} PROVE FALSE
    OBVIOUS
  <2>2. PICK l \in Wrong : \A j \in Wrong : l <= j
    <3>1. Wrong \subseteq Nat
      OBVIOUS
    <3>2. QED
      BY <2>1, <3>1, Least
  <2>3. PICK r \in Seq(Stored) : Len(r) = l /\ ~Right(r)
    BY <2>2
  <2>4. r # << >>
    <3>1. SUFFICES ASSUME r = << >> PROVE FALSE
      OBVIOUS
    <3>2. Len(<< >>) = 0 /\ Widest * 0 = 0
      BY WidestIs
    <3>3. QED
      BY <2>3, <3>1, <3>2, SCodedNone
  <2>5. PICK h \in Seq(Stored), e \in Stored : r = Append(h, e)
    BY <2>4, SequenceEmptyOrAppend
  <2>6. Len(h) \in Nat /\ l = Len(h) + 1
    BY <2>3, <2>5
  <2>7. Right(h)
    <3>1. ~ (l <= Len(h))
      BY <2>6
    <3>2. Len(h) \notin Wrong
      BY <2>2, <3>1
    <3>3. QED
      BY <2>6, <3>2
  <2>8. PICK f \in Seq(Bit), g \in Seq(Bit) : f = SCoded(h) /\ g = StoredCode(e)
    BY SCodedAppend, StoredIs
  <2>9. SCoded(r) = f \o g
    BY <2>5, <2>8, SCodedAppend
  <2>10. Len(f \o g) = Len(f) + Len(g) /\ Len(f) \in Nat /\ Len(g) \in Nat
    BY ConcatProperties
  <2>11. Len(g) <= Widest /\ Widest \in Nat
    BY <2>8, StoredIs, WidestIs
  <2>12. Widest * l = Widest * Len(h) + Widest /\ Widest * Len(h) \in Nat
    BY <2>6, <2>11
  <2>13. Len(f) <= Widest * Len(h)
    BY <2>7, <2>8
  <2>14. QED
    BY <2>3, <2>9, <2>10, <2>11, <2>12, <2>13
<1>2. Len(y) \in Nat
  OBVIOUS
<1>3. Right(y)
  BY <1>1, <1>2
<1>4. SCoded(y) \in Seq(Bit)
  <2>1. MAX \in Nat
    BY Sizes
  <2>2. 0 \in Stored
    BY <2>1 DEF Stored
  <2>3. QED
    BY <2>2, SCodedAppend
<1>5. Len(SCoded(y)) \in Nat
  BY <1>4, LenProperties
<1>6. QED
  BY <1>3, <1>4, <1>5

(* Without "-0" it is a polynomial's code. *)
LEMMA SCodedPlain ==
  ASSUME NEW y \in Seq(Stored), NEW l \in Nat, l = Len(y), q \notin {y[k] : k \in 1 .. l},
         NEW p, p = [k \in 1 .. l |-> Says(y[k])]
  PROVE  SCoded(y) = CodeOf(p)
<1>1. DOMAIN y = 1 .. l /\ DOMAIN p = 1 .. l
  OBVIOUS
<1>2. \A k \in 1 .. l : StoredCode(y[k]) = Code(p[k])
  BY DEF StoredCode
<1>3. [j \in DOMAIN y |-> StoredCode(y[j])] = [j \in DOMAIN p |-> Code(p[j])]
  BY <1>1, <1>2
<1>4. QED
  BY <1>3 DEF SCoded, CodeOf

Reads ==
  /\ mem \in Memory /\ vS \in 0 .. MEMORY
  /\ accS \in Seq(Bit) /\ Len(accS) < BYTE
  /\ xS \in Seq(Stored) /\ Len(xS) <= n

Storing ==
  /\ Reads
  /\ pcS = "idle" => accS = << >> /\ vS = 0 /\ xS = << >>
  /\ pcS \in {"head", "done"} => FlattenSeq(mem) = SCoded(xS) \o (accS \o UpTo(vS, MEMORY))
  /\ pcS = "done" => Len(xS) = n
  /\ pcS = "high" =>
       /\ Len(xS) < n /\ sS \in Bit /\ mS \in 0 .. MAX
       /\ FlattenSeq(mem) = SCoded(xS) \o (Begun(sS, mS) \o (accS \o UpTo(vS, MEMORY)))

LEMMA AllIs ==
  mem \in Memory => /\ FlattenSeq(mem) = UpTo(0, MEMORY)
                    /\ UpTo(0, MEMORY) \in Seq(Bit)
                    /\ Len(UpTo(0, MEMORY)) = BYTE * MEMORY
<1>1. SUFFICES ASSUME mem \in Memory
               PROVE  /\ FlattenSeq(mem) = UpTo(0, MEMORY)
                      /\ UpTo(0, MEMORY) \in Seq(Bit)
                      /\ Len(UpTo(0, MEMORY)) = BYTE * MEMORY
  OBVIOUS
<1>2. MEMORY \in Nat
  BY CodecAssumption
<1>3. 0 \in 0 .. MEMORY /\ MEMORY \in 0 .. MEMORY /\ MEMORY - 0 = MEMORY /\ 0 + 1 = 1
  BY <1>2
<1>4. mem \in Seq(Byte) /\ Len(mem) = MEMORY
  BY <1>1, <1>2 DEF Memory
<1>5. SubSeq(mem, 1, MEMORY) = mem
  BY <1>4, SubSeqFull
<1>6. UpTo(0, MEMORY) \in Seq(Bit) /\ Len(UpTo(0, MEMORY)) = BYTE * (MEMORY - 0)
  BY <1>1, <1>3, UpToIs
<1>7. QED
  BY <1>3, <1>5, <1>6 DEF UpTo

(* Before the last coefficient there is always a byte left.                 *)
LEMMA Room ==
  ASSUME Reads, Len(xS) < n, NEW b \in Seq(Bit), Len(b) < Widest,
         FlattenSeq(mem) = SCoded(xS) \o (b \o UpTo(vS, MEMORY))
  PROVE  vS < MEMORY
<1>1. SUFFICES ASSUME ~ (vS < MEMORY) PROVE FALSE
  OBVIOUS
<1>2. /\ MEMORY \in Nat /\ BYTE \in Nat /\ n \in Nat /\ Widest \in Nat
      /\ n * Widest <= MEMORY * BYTE
  BY CodecAssumption, Sizes, WidestIs
<1>3. vS = MEMORY /\ mem \in Memory /\ xS \in Seq(Stored) /\ Len(xS) \in Nat
  BY <1>1, <1>2 DEF Reads
<1>4. UpTo(vS, MEMORY) = << >>
  <2>1. MEMORY \in 0 .. MEMORY
    BY <1>2
  <2>2. UpTo(MEMORY, MEMORY) = << >>
    BY <1>3, <2>1, UpToIs
  <2>3. QED
    BY <1>3, <2>2
<1>5. b \o << >> = b
  BY ConcatEmptySeq
<1>6. PICK c \in Seq(Bit) : c = SCoded(xS) /\ Len(c) \in Nat /\ Len(c) <= Widest * Len(xS)
  BY <1>3, SCodedShort
<1>7. c \o b = UpTo(0, MEMORY)
  BY <1>3, <1>4, <1>5, <1>6, AllIs
<1>8. Len(c) + Len(b) = BYTE * MEMORY /\ Len(b) \in Nat
  <2>1. Len(c \o b) = Len(c) + Len(b) /\ Len(b) \in Nat
    BY ConcatProperties
  <2>2. QED
    BY <1>3, <1>7, <2>1, AllIs
<1>9. PICK l \in Nat, f \in Nat : l = Len(xS) /\ n = l + 1 + f
  <2>1. n - Len(xS) - 1 \in Nat /\ n = Len(xS) + 1 + (n - Len(xS) - 1)
    BY <1>2, <1>3
  <2>2. QED
    BY <1>3, <2>1
<1>10. n * Widest = Widest * l + Widest + Widest * f /\ Widest * f \in Nat /\ Widest * l \in Nat
  BY <1>2, <1>9
<1>11. PICK y \in Nat, z \in Nat, w \in Nat, a \in Nat :
         y = Widest * l /\ z = Widest * f /\ w = n * Widest /\ a = BYTE * MEMORY
  BY <1>2, <1>10
<1>12. MEMORY * BYTE = BYTE * MEMORY
  BY <1>2
<1>13. w = y + Widest + z /\ w <= a /\ Len(c) <= y /\ Len(c) + Len(b) = a
  BY <1>2, <1>6, <1>8, <1>9, <1>10, <1>11, <1>12
<1>14. QED
  BY <1>2, <1>6, <1>8, <1>13

LEMMA StoresLow ==
  ASSUME Storing, S!Low, mem' = mem
  PROVE  Storing'
<1>1. pcS = "head" /\ Len(xS) < n
  BY DEF S!Low
<1>2. Reads /\ FlattenSeq(mem) = SCoded(xS) \o (accS \o UpTo(vS, MEMORY))
  BY <1>1 DEF Storing
<1>3. /\ mem \in Memory /\ vS \in 0 .. MEMORY /\ accS \in Seq(Bit) /\ Len(accS) < BYTE
      /\ MEMORY \in 0 .. MEMORY /\ Len(accS) \in Nat
  <2>1. MEMORY \in 0 .. MEMORY
    BY CodecAssumption
  <2>2. QED
    BY <1>2, <2>1 DEF Reads
<1>4. vS < MEMORY
  <2>1. Len(accS) < Widest
    BY <1>3, WidestIs, Sizes
  <2>2. QED
    BY <1>1, <1>2, <1>3, <2>1, Room
<1>5. PICK bits, low, rest, t : NextByteOf(accS, vS, MEMORY, bits, low, rest, t)
  BY DEF NextByteOf
<1>6. /\ sS' = bits[1] /\ mS' = Number(low) /\ accS' = rest /\ vS' = vS + 1
      /\ pcS' = "high" /\ xS' = xS
  BY <1>5, SameOfS DEF S!Low, NextByteOf
<1>7. /\ bits[1] \in Bit /\ Number(low) \in 0 .. MAX
      /\ rest \in Seq(Bit) /\ Len(rest) < BYTE
      /\ vS + 1 \in 0 .. MEMORY /\ t \in Seq(Bit)
      /\ accS \o UpTo(vS, MEMORY) = Begun(bits[1], Number(low)) \o (rest \o t)
  <2>1. ByteTaken(accS, vS, MEMORY, bits, low, rest, t)
    BY ONLY <1>3, <1>4, <1>5, TakesByte, Zenon
  <2>2. QED
    BY <2>1, Zenon DEF ByteTaken
<1>8. UpTo(vS, MEMORY)' = t
  BY <1>5, <1>6 DEF UpTo, NextByteOf
<1>9. FlattenSeq(mem') = SCoded(xS') \o (Begun(sS', mS') \o (accS' \o UpTo(vS, MEMORY)'))
  BY <1>2, <1>6, <1>7, <1>8
<1>10. Reads'
  BY <1>2, <1>6, <1>7 DEF Reads
<1>11. QED
  BY <1>1, <1>6, <1>7, <1>9, <1>10 DEF Storing

(* The next bit that the contract reads.                                    *)
LEMMA StoresBit ==
  ASSUME Storing, pcS = "high",
         NEW bits, NEW w, NEW t, NextBitOf(accS, vS, MEMORY, bits, w, t)
  PROVE  /\ bits[1] \in Bit /\ Tail(bits) \in Seq(Bit) /\ Len(Tail(bits)) < BYTE
         /\ w \in 0 .. MEMORY /\ t \in Seq(Bit) /\ Tail(bits) \o t \in Seq(Bit)
         /\ FlattenSeq(mem) = SCoded(xS) \o (Begun(sS, mS) \o (<<bits[1]>> \o (Tail(bits) \o t)))
<1>1. /\ Reads /\ Len(xS) < n /\ sS \in Bit /\ mS \in 0 .. MAX
      /\ FlattenSeq(mem) = SCoded(xS) \o (Begun(sS, mS) \o (accS \o UpTo(vS, MEMORY)))
  BY DEF Storing
<1>2. /\ mem \in Memory /\ vS \in 0 .. MEMORY /\ accS \in Seq(Bit) /\ Len(accS) < BYTE
      /\ MEMORY \in 0 .. MEMORY
  <2>1. MEMORY \in 0 .. MEMORY
    BY CodecAssumption
  <2>2. QED
    BY <1>1, <2>1 DEF Reads
<1>3. ~ (accS = << >> /\ vS >= MEMORY)
  <2>1. SUFFICES ASSUME accS = << >>
                 PROVE  vS < MEMORY
    BY <1>2, CodecAssumption
  <2>2. PICK b, r : b = Begun(sS, mS) /\ r = UpTo(vS, MEMORY)
    OBVIOUS
  <2>3. b \in Seq(Bit) /\ Len(b) < Widest
    BY <1>1, <2>2, BegunShort
  <2>4. r \in Seq(Bit)
    BY <1>2, <2>2, UpToIs
  <2>5. << >> \o r = r
    BY <2>4, ConcatEmptySeq
  <2>6. FlattenSeq(mem) = SCoded(xS) \o (b \o UpTo(vS, MEMORY))
    BY <1>1, <2>1, <2>2, <2>5
  <2>7. QED
    BY <1>1, <2>3, <2>6, Room
<1>4. NextBitOf(accS, vS, MEMORY, bits, w, t)
  OBVIOUS
<1>5. /\ bits[1] \in Bit /\ Tail(bits) \in Seq(Bit) /\ Len(Tail(bits)) < BYTE
      /\ w \in 0 .. MEMORY /\ t \in Seq(Bit)
      /\ accS \o UpTo(vS, MEMORY) = <<bits[1]>> \o (Tail(bits) \o t)
      /\ Tail(bits) \o t \in Seq(Bit)
  BY ONLY <1>2, <1>3, <1>4, TakesBit
<1>6. FlattenSeq(mem) = SCoded(xS) \o (Begun(sS, mS) \o (<<bits[1]>> \o (Tail(bits) \o t)))
  BY ONLY <1>1, <1>5
<1>7. QED
  BY ONLY <1>5, <1>6

LEMMA StoresHigh ==
  ASSUME Storing, S!High, mem' = mem
  PROVE  Storing'
<1>1. pcS = "high"
  BY DEF S!High
<1>2. Reads /\ Len(xS) < n /\ sS \in Bit /\ mS \in 0 .. MAX
  BY <1>1 DEF Storing
<1>0. PICK bits, w, t : NextBitOf(accS, vS, MEMORY, bits, w, t)
  BY DEF NextBitOf
<1>3. /\ bits = IF accS = << >> THEN mem[vS + 1] ELSE accS
      /\ w = IF accS = << >> THEN vS + 1 ELSE vS
      /\ t = UpTo(w, MEMORY)
  BY <1>0 DEF NextBitOf
<1>4. PICK e \in Bit, a \in Seq(Bit) :
        /\ e = bits[1] /\ a = Tail(bits) /\ t \in Seq(Bit)
        /\ Len(a) < BYTE /\ w \in 0 .. MEMORY /\ a \o t \in Seq(Bit)
        /\ FlattenSeq(mem) = SCoded(xS) \o (Begun(sS, mS) \o (<<e>> \o (a \o t)))
  <2>1. /\ bits[1] \in Bit /\ Tail(bits) \in Seq(Bit) /\ Len(Tail(bits)) < BYTE
        /\ w \in 0 .. MEMORY /\ t \in Seq(Bit) /\ Tail(bits) \o t \in Seq(Bit)
        /\ FlattenSeq(mem) = SCoded(xS) \o (Begun(sS, mS) \o (<<bits[1]>> \o (Tail(bits) \o t)))
    BY ONLY Storing, <1>0, <1>1, StoresBit
  <2>2. QED
    BY ONLY <2>1
<1>5. accS' = a /\ vS' = w /\ sS' = sS
  BY <1>3, <1>4 DEF S!High
<1>6. UpTo(vS, MEMORY)' = t
  BY <1>3, <1>5 DEF UpTo
<1>7. PICK k \in Nat, b \in Seq(Bit), c \in Seq(Bit), g \in Seq(Bit), o \in Seq(Bit) :
        k = mS /\ b = Begun(sS, k) /\ c = SCoded(xS) /\ g = a \o t /\ o = <<e>>
  <2>1. PICK k \in Nat : k = mS
    BY <1>2, Sizes
  <2>2. Begun(sS, k) \in Seq(Bit)
    BY <1>2, BegunTyped
  <2>3. SCoded(xS) \in Seq(Bit)
    BY <1>2, SCodedShort DEF Reads
  <2>4. <<e>> \in Seq(Bit)
    OBVIOUS
  <2>5. QED
    BY <1>4, <2>1, <2>2, <2>3, <2>4
<1>8. FlattenSeq(mem) = c \o ((b \o o) \o g)
  <2>1. AllIn(Bit, b, o, g)
    BY <1>7 DEF AllIn
  <2>2. (b \o o) \o g = b \o (o \o g)
    BY ONLY <2>1, Regroup
  <2>3. QED
    BY <1>4, <1>7, <2>2
<1>9. CASE e = 0 /\ mS + 2^LOW > MAX
  <2>1. pcS' = "reverted" /\ xS' = xS
    BY <1>3, <1>4, <1>9 DEF S!High
  <2>2. Reads'
    BY <1>2, <1>4, <1>5, <2>1 DEF Reads
  <2>3. QED
    BY <2>1, <2>2 DEF Storing
<1>10. CASE e = 0 /\ ~ (mS + 2^LOW > MAX)
  <2>1. mS' = mS + 2^LOW /\ pcS' = "high" /\ xS' = xS
    BY <1>1, <1>3, <1>4, <1>10 DEF S!High
  <2>2. mS' \in 0 .. MAX
    <3>1. PICK y \in Nat : y = 2^LOW
      BY Sizes
    <3>2. MAX \in Nat /\ ~ (k + y > MAX)
      BY <1>7, <1>10, <3>1, Sizes
    <3>3. QED
      BY <1>7, <2>1, <3>1, <3>2
  <2>3. Begun(sS', mS') = b \o o
    BY <1>2, <1>5, <1>7, <1>10, <2>1, BegunNext
  <2>4. FlattenSeq(mem') = SCoded(xS') \o (Begun(sS', mS') \o (accS' \o UpTo(vS, MEMORY)'))
    BY <1>5, <1>6, <1>7, <1>8, <2>1, <2>3
  <2>5. Reads'
    BY <1>2, <1>4, <1>5, <2>1 DEF Reads
  <2>6. QED
    BY <1>2, <1>5, <2>1, <2>2, <2>4, <2>5 DEF Storing
<1>11. CASE e = 1
  <2>1. xS' = Append(xS, Store(sS, mS)) /\ pcS' = "head"
    BY <1>3, <1>4, <1>11 DEF S!High, Store
  <2>2. PICK d \in Stored : d = Store(sS, mS) /\ StoredCode(d) = b \o o
    BY <1>2, <1>7, <1>11, StoreIs
  <2>3. xS \in Seq(Stored) /\ Len(xS) \in Nat /\ n \in Nat
    BY <1>2, Sizes DEF Reads
  <2>4. SCoded(xS') = c \o (b \o o)
    BY <1>7, <2>1, <2>2, <2>3, SCodedAppend
  <2>5. FlattenSeq(mem') = SCoded(xS') \o (accS' \o UpTo(vS, MEMORY)')
    <3>1. PICK f : f = b \o o
      OBVIOUS
    <3>2. f \in Seq(Bit)
      BY <1>7, <3>1, Joined
    <3>3. AllIn(Bit, c, f, g)
      BY <1>7, <3>2 DEF AllIn
    <3>4. (c \o f) \o g = c \o (f \o g)
      BY ONLY <3>3, Regroup
    <3>5. QED
      BY <1>5, <1>6, <1>7, <1>8, <2>4, <3>1, <3>4
  <2>6. xS' \in Seq(Stored) /\ Len(xS') <= n
    BY <1>2, <2>1, <2>2, <2>3, AppendProperties
  <2>7. Reads'
    BY <1>2, <1>4, <1>5, <2>6 DEF Reads
  <2>8. QED
    BY <2>1, <2>5, <2>7 DEF Storing
<1>12. QED
  BY <1>9, <1>10, <1>11 DEF Bit

LEMMA StoresFinish ==
  ASSUME Storing, S!Finish, mem' = mem
  PROVE  Storing'
<1>1. /\ pcS = "head" /\ Len(xS) = n /\ UNCHANGED <<accS, vS, xS>>
      /\ pcS' \in {"reverted", "done"}
  BY DEF S!Finish
<1>2. Reads /\ FlattenSeq(mem) = SCoded(xS) \o (accS \o UpTo(vS, MEMORY))
  BY <1>1 DEF Storing
<1>3. Reads' /\ UpTo(vS, MEMORY)' = UpTo(vS, MEMORY)
  BY <1>1, <1>2 DEF Reads, UpTo
<1>4. QED
  BY <1>1, <1>2, <1>3 DEF Storing

LEMMA StoresFirst ==
  ASSUME Storing, DecodeSignature
  PROVE  Storing'
<1>1. PICK b \in Memory, k \in 0 .. MEMORY : C!comp_decode(b, k)
  BY DEF DecodeSignature
<1>2. mem' = b
  BY <1>1 DEF C!comp_decode
<1>3. pcS = "idle" /\ pcS' = "head" /\ UNCHANGED <<accS, vS, sS, mS, xS>>
  BY DEF DecodeSignature, S!_decompress_sig
<1>4. Reads /\ accS = << >> /\ vS = 0 /\ xS = << >>
  BY <1>3 DEF Storing
<1>5. Reads'
  BY <1>2, <1>3, <1>4 DEF Reads
<1>6. PICK a : a = UpTo(0, MEMORY)'
  OBVIOUS
<1>7. a \in Seq(Bit) /\ FlattenSeq(mem') = a
  <2>1. (mem \in Memory => /\ FlattenSeq(mem) = UpTo(0, MEMORY)
                           /\ UpTo(0, MEMORY) \in Seq(Bit)
                           /\ Len(UpTo(0, MEMORY)) = BYTE * MEMORY)'
    BY AllIs, PTL
  <2>2. QED
    BY <1>2, <1>6, <2>1
<1>8. UpTo(vS, MEMORY)' = a
  BY <1>3, <1>4, <1>6 DEF UpTo
<1>9. << >> \o a = a /\ << >> \o (<< >> \o a) = a
  BY <1>7, ConcatEmptySeq
<1>10. FlattenSeq(mem') = SCoded(xS') \o (accS' \o UpTo(vS, MEMORY)')
  BY <1>3, <1>4, <1>7, <1>8, <1>9, SCodedNone
<1>11. QED
  BY <1>3, <1>5, <1>10 DEF Storing

LEMMA StoringAlways == Spec => []Storing
<1>1. Init => Storing
  <2>1. SUFFICES ASSUME Init PROVE Storing
    OBVIOUS
  <2>2. /\ mem = [k \in 1 .. MEMORY |-> Zeros(BYTE)]
        /\ pcS = "idle" /\ accS = << >> /\ vS = 0 /\ xS = << >>
    BY <2>1, SameOfC DEF Init, C!Init, S!Init, C!Zeros, Zeros
  <2>3. Zeros(BYTE) \in Byte
    BY Sizes DEF Zeros, Byte, Bit
  <2>4. mem \in Memory
    BY <2>2, <2>3 DEF Memory
  <2>5. 0 \in 0 .. MEMORY /\ n \in Nat /\ BYTE \in Nat \ {0}
    BY CodecAssumption, Sizes
  <2>6. << >> \in Seq(Bit) /\ << >> \in Seq(Stored) /\ Len(<< >>) = 0
    OBVIOUS
  <2>7. Reads
    BY <2>2, <2>4, <2>5, <2>6 DEF Reads
  <2>8. QED
    BY <2>2, <2>7 DEF Storing
<1>2. Storing /\ [Next]_vars => Storing'
  <2>1. SUFFICES ASSUME Storing, [Next]_vars
                 PROVE  Storing'
    OBVIOUS
  <2>2. CASE mem' = mem /\ UNCHANGED contractVars
    <3>1. UNCHANGED <<mem, pcS, accS, vS, sS, mS, xS>>
      BY <2>2 DEF contractVars
    <3>2. Reads' /\ UpTo(vS, MEMORY)' = UpTo(vS, MEMORY)
      BY <2>1, <3>1 DEF Storing, Reads, UpTo
    <3>3. QED
      BY <2>1, <3>1, <3>2 DEF Storing
  <2>3. CASE DecodeSignature
    BY <2>1, <2>3, StoresFirst
  <2>4. CASE ContractPass
    <3>1. mem' = mem
      BY <2>4 DEF ContractPass, decoderVars
    <3>2. QED
      BY <2>1, <2>4, <3>1, StoresLow, StoresHigh, StoresFinish DEF ContractPass, S!Pass
  <2>5. CASE DecoderPass
    <3>1. mem' = mem
      BY <2>5 DEF DecoderPass, C!Pass, C!Low, C!High, C!Finish
    <3>2. QED
      BY <2>2, <2>5, <3>1 DEF DecoderPass
  <2>6. CASE UNCHANGED vars
    BY <2>2, <2>6 DEF vars, decoderVars
  <2>7. CASE EncodeSignature \/ EncodeFixed \/ DecodeFixed \/ EncoderPass \/ FixedPass
    BY <2>2, <2>7 DEF EncodeSignature, EncodeFixed, DecodeFixed, EncoderPass, FixedPass, decoderVars
  <2>8. QED
    BY <2>1, <2>3, <2>4, <2>5, <2>6, <2>7 DEF Next
<1>3. QED
  BY <1>1, <1>2, PTL DEF Spec

LEMMA Begins ==
  ASSUME NEW a \in Seq(Bit), NEW b \in Seq(Bit)
  PROVE  IsPrefix(a, a \o b)
<1>1. Len(a) \in Nat /\ Len(b) \in Nat /\ Len(a \o b) = Len(a) + Len(b) /\ a \o b \in Seq(Bit)
  BY ConcatProperties
<1>2. PICK c \in Seq(Bit), l \in Nat : c = a \o b /\ l = Len(a)
  BY <1>1
<1>3. \A i \in 1 .. l : c[i] = a[i]
  <2>1. \A i \in 1 .. Len(a) + Len(b) : (a \o b)[i] = IF i <= Len(a) THEN a[i] ELSE b[i - Len(a)]
    BY ConcatProperties
  <2>2. QED
    BY <1>1, <1>2, <2>1
<1>4. SubSeq(a, 1, l) = a
  BY <1>2, SubSeqFull
<1>5. l \in 0 .. Len(c)
  BY <1>1, <1>2
<1>6. PICK d : d = SubSeq(c, 1, l)
  OBVIOUS
<1>7. d \in Seq(Bit) /\ Len(d) = l
  BY <1>2, <1>5, <1>6, CutAt
<1>8. \A i \in 1 .. l : d[i] = a[i]
  <2>1. \A i \in 1 .. l : d[i] = c[i]
    BY <1>2, <1>6
  <2>2. QED
    BY <1>3, <2>1
<1>9. d = a
  BY <1>2, <1>7, <1>8, SeqEqual
<1>10. QED
  BY <1>1, <1>2, <1>4, <1>6, <1>9 DEF IsPrefix

(***************************************************************************)
(* What the contract returns is, but for "-0", what the bits in memory say: *)
(* the code of the polynomial is what memory begins with (_decompress_sig   *)
(* of ZKNOX_falcon_encodings.sol).                                          *)
(***************************************************************************)
THEOREM ContractReadsCodeAlways == Spec => []ContractReadsCode
<1>1. Storing => ContractReadsCode
  <2>1. SUFFICES ASSUME Storing, pcS = "done", q \notin {xS[k] : k \in 1 .. n},
                        NEW p, p = [k \in 1 .. n |-> IF xS[k] > MAX THEN xS[k] - q ELSE xS[k]]
                 PROVE  IsPrefix(CodeOf(p), FlattenSeq(mem))
    BY DEF ContractReadsCode
  <2>2. /\ Reads /\ Len(xS) = n
        /\ FlattenSeq(mem) = SCoded(xS) \o (accS \o UpTo(vS, MEMORY))
    BY <2>1 DEF Storing
  <2>3. xS \in Seq(Stored) /\ n \in Nat
    BY <2>2, Sizes DEF Reads
  <2>4. p = [k \in 1 .. n |-> Says(xS[k])]
    BY <2>1 DEF Says
  <2>5. SCoded(xS) = CodeOf(p)
    BY <2>1, <2>2, <2>3, <2>4, SCodedPlain
  <2>6. SCoded(xS) \in Seq(Bit)
    BY <2>3, SCodedShort
  <2>7. accS \o UpTo(vS, MEMORY) \in Seq(Bit)
    <3>1. MEMORY \in 0 .. MEMORY
      BY CodecAssumption
    <3>2. UpTo(vS, MEMORY) \in Seq(Bit)
      BY <2>2, <3>1, UpToIs DEF Reads
    <3>3. QED
      BY <2>2, <3>2, Joined DEF Reads
  <2>8. PICK c \in Seq(Bit), r \in Seq(Bit) : c = CodeOf(p) /\ FlattenSeq(mem) = c \o r
    BY <2>2, <2>5, <2>6, <2>7
  <2>9. QED
    BY <2>8, Begins
<1>2. QED
  BY <1>1, StoringAlways, PTL

(***************************************************************************)
(* The contract reads what the verifier in C accepted                       *)
(***************************************************************************)

(* A coefficient modulo q. *)
Residue(c) == IF c < 0 THEN q + c ELSE c

LEMMA ResidueIs ==
  ASSUME NEW c \in -MAX .. MAX
  PROVE  Residue(c) = Store(Sign(c), Abs(c)) /\ StoredCode(Residue(c)) = Code(c)
<1>1. MAX \in Nat /\ q \in Nat /\ c \in Int
  BY Sizes, CodecAssumption
<1>2. Residue(c) = Store(Sign(c), Abs(c))
  BY <1>1 DEF Residue, Store, Sign, Abs
<1>3. Sign(c) \in Bit /\ Abs(c) \in 0 .. MAX /\ Code(c) = Begun(Sign(c), Abs(c)) \o <<1>>
  <2>1. Sign(c) \in Bit /\ Abs(c) \in Nat /\ Abs(c) <= MAX
    BY <1>1, CodeBegins
  <2>2. Code(c) = Begun(Sign(c), Abs(c)) \o <<1>>
    BY <1>1, CodeBegins
  <2>3. QED
    BY <1>1, <2>1, <2>2
<1>4. StoredCode(Store(Sign(c), Abs(c))) = Begun(Sign(c), Abs(c)) \o <<1>>
  BY <1>3, StoreIs
<1>5. QED
  BY <1>2, <1>3, <1>4

(* The contract read the first coefficients as the verifier in C did. *)
AlikeSoFar == \A j \in 1 .. Len(xS) : xS[j] = Residue(xC[j])

Alike ==
  /\ pcC \notin {"done", "failed"} => pcS \in {"idle", "head"} /\ xS = << >>
  /\ pcC = "done" => Len(xC) = n /\ AlikeSoFar /\ (pcS = "reverted" => len >= max_in_len)

LEMMA AlikeCode ==
  ASSUME Reads, Read, Len(xC) = n, AlikeSoFar, NEW y, y = [j \in 1 .. Len(xS) |-> xC[j]]
  PROVE  /\ y \in Seq(-MAX .. MAX) /\ Len(y) = Len(xS)
         /\ \A j \in 1 .. Len(y) : y[j] = xC[j]
         /\ SCoded(xS) = CodeOf(y)
<1>1. /\ xS \in Seq(Stored) /\ xC \in Seq(-MAX .. MAX) /\ Len(xS) <= n
      /\ n \in Nat /\ Len(xS) \in Nat
  BY Sizes DEF Reads, Read
<1>2. \A j \in 1 .. Len(xS) : xC[j] \in -MAX .. MAX
  <2>1. PICK T : T = -MAX .. MAX
    OBVIOUS
  <2>2. xC \in Seq(T) /\ Len(xC) = n
    BY <1>1, <2>1
  <2>3. \A j \in 1 .. Len(xS) : xC[j] \in T
    BY ONLY <1>1, <2>2
  <2>4. QED
    BY <2>1, <2>3
<1>3. y \in Seq(-MAX .. MAX) /\ Len(y) = Len(xS)
  <2>1. y \in [1 .. Len(xS) -> -MAX .. MAX]
    BY <1>2
  <2>2. QED
    BY <1>1, <2>1
<1>4. DOMAIN xS = 1 .. Len(xS) /\ DOMAIN y = 1 .. Len(xS)
  BY <1>1
<1>5. \A j \in 1 .. Len(xS) : StoredCode(xS[j]) = Code(y[j])
  <2>1. SUFFICES ASSUME NEW j \in 1 .. Len(xS)
                 PROVE  StoredCode(xS[j]) = Code(y[j])
    OBVIOUS
  <2>2. PICK c \in -MAX .. MAX : c = xC[j]
    BY <1>2
  <2>3. xS[j] = Residue(c) /\ y[j] = c
    BY <2>2 DEF AlikeSoFar
  <2>4. QED
    BY <2>3, ResidueIs
<1>6. [j \in DOMAIN xS |-> StoredCode(xS[j])] = [j \in DOMAIN y |-> Code(y[j])]
  BY <1>4, <1>5
<1>7. QED
  BY <1>3, <1>6 DEF SCoded, CodeOf

(* The signature, and the memory behind it. *)
LEMMA MemoryIs ==
  ASSUME mem \in Memory, len \in 0 .. MEMORY
  PROVE  /\ Received \in Seq(Bit) /\ UpTo(len, MEMORY) \in Seq(Bit)
         /\ Len(Received) = BYTE * len
         /\ FlattenSeq(mem) = Received \o UpTo(len, MEMORY)
<1>1. MEMORY \in Nat /\ len \in Nat /\ MEMORY \in 0 .. MEMORY /\ BYTE \in Nat
  BY CodecAssumption, Sizes
<1>2. mem \in Seq(Byte) /\ Len(mem) = MEMORY
  BY <1>1 DEF Memory
<1>3. PICK a \in Seq(Byte), b \in Seq(Byte) :
        /\ a = SubSeq(mem, 1, len) /\ b = SubSeq(mem, len + 1, MEMORY)
        /\ Len(a) = len /\ a \o b = mem
  <2>1. len \in 0 .. Len(mem)
    BY <1>1, <1>2
  <2>2. /\ SubSeq(mem, 1, len) \in Seq(Byte) /\ Len(SubSeq(mem, 1, len)) = len
        /\ SubSeq(mem, len + 1, Len(mem)) \in Seq(Byte)
        /\ SubSeq(mem, 1, len) \o SubSeq(mem, len + 1, Len(mem)) = mem
    BY ONLY <1>2, <2>1, CutAt
  <2>3. QED
    BY <1>2, <2>2, Zenon
<1>4. a \in Seq(Seq(Bit)) /\ b \in Seq(Seq(Bit))
  <2>1. Byte \subseteq Seq(Bit)
    BY <1>1 DEF Byte
  <2>2. QED
    BY <2>1, SeqMonotonic
<1>5. FlattenSeq(a \o b) = FlattenSeq(a) \o FlattenSeq(b)
  BY <1>4, FlattenConcat
<1>6. FlattenSeq(a) \in Seq(Bit) /\ Len(FlattenSeq(a)) = BYTE * len
  BY <1>3, FlattenBytes
<1>7. FlattenSeq(b) \in Seq(Bit)
  BY FlattenBytes
<1>8. QED
  BY <1>3, <1>5, <1>6, <1>7 DEF Received, UpTo

(* What follows what the contract read is the code of the next coefficient. *)
LEMMA NextStored ==
  ASSUME Reads, Decoding, pcC = "done", Len(xC) = n, AlikeSoFar, Len(xS) < n,
         NEW g \in Seq(Bit), FlattenSeq(mem) = SCoded(xS) \o g
  PROVE  \E d \in -MAX .. MAX : \E r \in Seq(Bit) :
           d = xC[Len(xS) + 1] /\ g = Begun(Sign(d), Abs(d)) \o (<<1>> \o r)
<1>1. Read /\ Received = ToBytes(CodeOf(xC))
  BY DEF Decoding, OneEncoding
<1>2. PICK y : y = [j \in 1 .. Len(xS) |-> xC[j]]
  OBVIOUS
<1>3. /\ y \in Seq(-MAX .. MAX) /\ Len(y) = Len(xS) /\ \A j \in 1 .. Len(y) : y[j] = xC[j]
      /\ SCoded(xS) = CodeOf(y)
  BY <1>1, <1>2, AlikeCode
<1>4. xC \in Plains
  BY <1>1, Sizes DEF Read, Plains
<1>5. PICK d \in -MAX .. MAX, f \in Seq(Bit) :
        /\ d = xC[Len(xS) + 1]
        /\ ToBytes(CodeOf(xC)) = CodeOf(y) \o (Begun(Sign(d), Abs(d)) \o (<<1>> \o f))
  <2>1. \E e \in -MAX .. MAX : \E r \in Seq(Bit) :
          /\ e = xC[Len(y) + 1]
          /\ ToBytes(CodeOf(xC)) = CodeOf(y) \o (Begun(Sign(e), Abs(e)) \o (<<1>> \o r))
    BY <1>3, <1>4, Foretold
  <2>2. QED
    BY <1>3, <2>1
<1>6. PICK z \in Seq(Bit) : z = UpTo(len, MEMORY) /\ FlattenSeq(mem) = Received \o z
  BY <1>1, MemoryIs DEF Read
<1>7. PICK b \in Seq(Bit) : b = Begun(Sign(d), Abs(d))
  <2>1. d \in Int
    BY Sizes
  <2>2. QED
    BY <2>1, CodeBegins, BegunTyped
<1>8. PICK w \in Seq(Bit) : w = SCoded(xS)
  BY SCodedShort DEF Reads
<1>9. PICK o \in Seq(Bit) : o = <<1>>
  <2>1. 1 \in Bit
    BY DEF Bit
  <2>2. <<1>> \in Seq(Bit)
    BY ONLY <2>1
  <2>3. QED
    BY <2>2, Zenon
<1>10. PICK h \in Seq(Bit), r \in Seq(Bit) : h = o \o f /\ r = f \o z
  BY Joined
<1>11. PICK k \in Seq(Bit), m \in Seq(Bit) : k = b \o h /\ m = o \o r
  BY Joined
<1>12. PICK v \in Seq(Bit) : v = b \o m
  BY Joined
<1>13. /\ (w \o k) \o z = w \o (k \o z)
       /\ (b \o h) \o z = b \o (h \o z)
       /\ (o \o f) \o z = o \o (f \o z)
  <2>1. AllIn(Bit, w, k, z) /\ AllIn(Bit, b, h, z) /\ AllIn(Bit, o, f, z)
    BY DEF AllIn
  <2>2. Grouping(w, k, z) /\ Grouping(b, h, z) /\ Grouping(o, f, z)
    BY <2>1, Regrouping, Zenon
  <2>3. QED
    BY <2>2, Zenon DEF Grouping
<1>14. w \o g = w \o v
  <2>1. FlattenSeq(mem) = (w \o k) \o z
    BY <1>1, <1>3, <1>5, <1>6, <1>7, <1>8, <1>9, <1>10, <1>11
  <2>2. k \o z = v
    BY <1>10, <1>11, <1>12, <1>13
  <2>3. QED
    BY <1>8, <1>13, <2>1, <2>2
<1>15. g = v
  BY <1>14, Cancel
<1>16. QED
  BY <1>5, <1>7, <1>9, <1>11, <1>12, <1>15

(* It never reads beyond the signature. *)
LEMMA ReadsNoMore ==
  ASSUME Storing, Decoding, pcC = "done", Len(xC) = n, AlikeSoFar, pcS = "head", Len(xS) = n
  PROVE  vS <= len
<1>1. /\ Reads /\ FlattenSeq(mem) = SCoded(xS) \o (accS \o UpTo(vS, MEMORY))
      /\ Read /\ Received = ToBytes(CodeOf(xC))
  BY DEF Storing, Decoding, OneEncoding
<1>2. /\ mem \in Memory /\ len \in 0 .. MEMORY /\ vS \in 0 .. MEMORY /\ MEMORY \in 0 .. MEMORY
      /\ accS \in Seq(Bit) /\ Len(accS) < BYTE /\ MEMORY \in Nat /\ BYTE \in Nat \ {0}
      /\ xC \in Seq(-MAX .. MAX)
  <2>1. MEMORY \in 0 .. MEMORY /\ MEMORY \in Nat /\ BYTE \in Nat \ {0}
    BY CodecAssumption, Sizes
  <2>2. QED
    BY <1>1, <2>1 DEF Reads, Read
<1>3. SCoded(xS) = CodeOf(xC)
  <2>1. PICK y : y = [j \in 1 .. Len(xS) |-> xC[j]]
    OBVIOUS
  <2>2. y = xC
    BY <1>2, <2>1
  <2>3. SCoded(xS) = CodeOf(y)
    BY <1>1, <2>1, AlikeCode
  <2>4. QED
    BY <2>2, <2>3
<1>4. PICK c \in Seq(Bit) : c = CodeOf(xC)
  BY <1>1, ReadIs
<1>5. PICK t \in Seq(Bit) : t = UpTo(vS, MEMORY) /\ Len(t) = BYTE * (MEMORY - vS)
  BY <1>2, UpToIs
<1>6. Len(c) \in Nat /\ Len(c) <= BYTE * len
  <2>1. PICK z \in 0 .. BYTE - 1 : ToBytes(c) = c \o Zeros(z)
    BY ToBytesIs
  <2>2. PICK y \in Seq(Bit) : y = Zeros(z)
    <3>1. z \in Nat
      BY <1>2
    <3>2. QED
      BY <3>1, ZerosAre
  <2>3. Len(c \o y) = Len(c) + Len(y) /\ Len(c) \in Nat /\ Len(y) \in Nat
    BY ConcatProperties
  <2>4. Len(Received) = BYTE * len
    BY <1>2, MemoryIs
  <2>5. Len(c) + Len(y) = BYTE * len
    BY <1>1, <1>4, <2>1, <2>2, <2>3, <2>4
  <2>6. QED
    BY <2>3, <2>5
<1>7. Len(c) + (Len(accS) + Len(t)) = BYTE * MEMORY /\ Len(accS) \in Nat
  <2>1. PICK f \in Seq(Bit) : f = accS \o t /\ Len(f) = Len(accS) + Len(t) /\ Len(accS) \in Nat
    <3>1. accS \in Seq(Bit) /\ t \in Seq(Bit)
      BY <1>2
    <3>2. accS \o t \in Seq(Bit) /\ Len(accS \o t) = Len(accS) + Len(t) /\ Len(accS) \in Nat
      BY ONLY <3>1, ConcatProperties
    <3>3. QED
      BY <3>2, Zenon
  <2>2. Len(c \o f) = Len(c) + Len(f)
    BY ConcatProperties
  <2>3. c \o f = UpTo(0, MEMORY)
    BY <1>1, <1>2, <1>3, <1>4, <1>5, <2>1, AllIs
  <2>4. QED
    BY <1>2, <2>1, <2>2, <2>3, AllIs
<1>8. SUFFICES ASSUME ~ (vS <= len)
               PROVE  FALSE
  OBVIOUS
<1>9. PICK k \in Nat, l \in Nat, v \in Nat : l = len /\ v = vS /\ v = l + 1 + k
  <2>1. vS - len - 1 \in Nat /\ vS = len + 1 + (vS - len - 1) /\ len \in Nat /\ vS \in Nat
    BY <1>2, <1>8
  <2>2. QED
    BY <2>1
<1>10. PICK e \in Nat : MEMORY = v + e
  <2>1. MEMORY - v \in Nat /\ MEMORY = v + (MEMORY - v)
    BY <1>2, <1>9
  <2>2. QED
    BY <2>1
<1>11. /\ BYTE * MEMORY = BYTE * v + BYTE * e /\ MEMORY - vS = e
       /\ BYTE * v = BYTE * l + BYTE + BYTE * k
       /\ BYTE * v \in Nat /\ BYTE * e \in Nat /\ BYTE * l \in Nat /\ BYTE * k \in Nat
  BY <1>2, <1>9, <1>10
<1>12. PICK p \in Nat, r \in Nat, s \in Nat, w \in Nat :
         p = BYTE * v /\ r = BYTE * e /\ s = BYTE * l /\ w = BYTE * k
  BY <1>11
<1>13. /\ Len(c) + (Len(accS) + r) = p + r /\ p = s + BYTE + w /\ Len(c) <= s
  BY <1>5, <1>6, <1>7, <1>9, <1>11, <1>12
<1>14. QED
  BY <1>2, <1>6, <1>7, <1>13

LEMMA AlikeHigh ==
  ASSUME Storing, Decoding, Alike, S!High, pcC = "done", UNCHANGED <<mem, len, pcC, xC>>
  PROVE  Alike'
<1>1. pcS = "high"
  BY DEF S!High
<1>2. /\ Reads /\ Len(xS) < n /\ sS \in Bit /\ mS \in 0 .. MAX
      /\ Len(xC) = n /\ AlikeSoFar
  BY <1>1 DEF Storing, Alike
<1>3. PICK bits, w, t : NextBitOf(accS, vS, MEMORY, bits, w, t)
  BY DEF NextBitOf
<1>4. PICK e \in Bit, r \in Seq(Bit) :
        e = bits[1] /\ FlattenSeq(mem) = SCoded(xS) \o (Begun(sS, mS) \o (<<e>> \o r))
  <2>1. /\ bits[1] \in Bit /\ Tail(bits) \o t \in Seq(Bit)
        /\ FlattenSeq(mem) = SCoded(xS) \o (Begun(sS, mS) \o (<<bits[1]>> \o (Tail(bits) \o t)))
    BY ONLY Storing, <1>1, <1>3, StoresBit
  <2>2. QED
    BY ONLY <2>1
<1>5. PICK k \in Nat, g \in Seq(Bit) : k = mS /\ g = Begun(sS, k) \o (<<e>> \o r)
  <2>1. PICK k \in Nat : k = mS
    BY <1>2, Sizes
  <2>2. Begun(sS, k) \in Seq(Bit) /\ <<e>> \o r \in Seq(Bit)
    BY <1>2, BegunTyped, OneMore
  <2>3. Begun(sS, k) \o (<<e>> \o r) \in Seq(Bit)
    BY <2>2, Joined
  <2>4. QED
    BY <2>1, <2>3
<1>6. FlattenSeq(mem) = SCoded(xS) \o g
  BY <1>4, <1>5
<1>7. PICK d \in -MAX .. MAX, b \in Seq(Bit) :
        d = xC[Len(xS) + 1] /\ g = Begun(Sign(d), Abs(d)) \o (<<1>> \o b)
  BY <1>2, <1>6, NextStored
<1>8. /\ Sign(d) \in Bit /\ Abs(d) \in Nat /\ Abs(d) <= MAX /\ MAX \in Nat
  <2>1. d \in Int /\ MAX \in Nat
    BY Sizes
  <2>2. QED
    BY <2>1, CodeBegins
<1>9. PICK s \in Bit, l \in Nat : s = Sign(d) /\ l = Abs(d)
  BY <1>8
<1>10. sS = s /\ (e = 1 => k = l) /\ (e = 0 => k + 2^LOW <= l)
  <2>1. SameBits(sS, k, e, r, s, l, b)
    BY <1>5, <1>7, <1>9 DEF SameBits
  <2>2. QED
    BY ONLY <2>1, <1>2, <1>4, <1>7, <1>9, k \in Nat, e \in Bit, r \in Seq(Bit), b \in Seq(Bit),
            s \in Bit, l \in Nat, OneBegun
<1>11. CASE e = 0
  <2>1. ~ (mS + 2^LOW > MAX)
    <3>1. PICK y \in Nat : y = 2^LOW
      BY Sizes
    <3>2. QED
      BY <1>5, <1>8, <1>9, <1>10, <1>11, <3>1
  <2>2. pcS' = "high" /\ xS' = xS
    BY <1>1, <1>3, <1>4, <1>11, <2>1 DEF S!High, NextBitOf
  <2>3. QED
    BY <1>2, <2>2 DEF Alike, AlikeSoFar
<1>12. CASE e = 1
  <2>1. xS' = Append(xS, Store(sS, mS)) /\ pcS' = "head"
    BY <1>3, <1>4, <1>12 DEF S!High, NextBitOf, Store
  <2>2. Store(sS, mS) = Residue(d)
    BY <1>5, <1>9, <1>10, <1>12, ResidueIs
  <2>3. xS \in Seq(Stored) /\ Len(xS) \in Nat
    BY <1>2 DEF Reads
  <2>4. PICK a : a = Residue(d)
    OBVIOUS
  <2>5. a \in Stored
    BY <1>2, <2>2, <2>4, StoreIs
  <2>6. /\ Len(xS') = Len(xS) + 1 /\ xS'[Len(xS) + 1] = a
        /\ \A j \in 1 .. Len(xS) : xS'[j] = xS[j]
    BY <2>1, <2>2, <2>3, <2>4, <2>5, AppendProperties
  <2>7. AlikeSoFar'
    <3>1. ASSUME NEW j \in 1 .. Len(xS')
          PROVE  xS'[j] = Residue(xC[j])
      <4>1. CASE j = Len(xS) + 1
        BY <1>7, <2>4, <2>6, <4>1
      <4>2. CASE j # Len(xS) + 1
        <5>1. j \in 1 .. Len(xS)
          BY <2>3, <2>6, <4>2
        <5>2. QED
          BY <1>2, <2>6, <5>1 DEF AlikeSoFar
      <4>3. QED
        BY <4>1, <4>2
    <3>2. QED
      BY <3>1 DEF AlikeSoFar
  <2>8. QED
    BY <1>2, <2>1, <2>7 DEF Alike
<1>13. QED
  BY <1>11, <1>12 DEF Bit

LEMMA AlikeAlways == Spec => []Alike
<1>1. Init => Alike
  BY DEF Init, C!Init, S!Init, Alike
<1>2. Storing /\ Decoding /\ Alike /\ [Next]_vars => Alike'
  <2>1. SUFFICES ASSUME Storing, Decoding, Alike, [Next]_vars
                 PROVE  Alike'
    OBVIOUS
  <2>2. CASE UNCHANGED decoderVars /\ UNCHANGED contractVars
    <3>1. UNCHANGED <<len, pcC, xC, pcS, xS>>
      BY <2>2 DEF decoderVars, contractVars
    <3>2. QED
      BY <2>1, <3>1 DEF Alike, AlikeSoFar
  <2>3. CASE DecodeSignature
    <3>1. pcC = "idle" /\ pcC' = "head" /\ pcS' = "head" /\ xS' = xS
      BY <2>3 DEF DecodeSignature, Idle, C!comp_decode, S!_decompress_sig
    <3>2. QED
      BY <2>1, <3>1 DEF Alike
  <2>4. CASE DecoderPass
    <3>1. UNCHANGED <<pcS, xS>>
      BY <2>4 DEF DecoderPass, contractVars
    <3>2. CASE C!Low \/ C!High
      <4>1. pcC \in {"head", "high"} /\ pcC' \in {"head", "high", "failed"}
        BY <3>2 DEF C!Low, C!High, C!Fail
      <4>2. QED
        BY <2>1, <3>1, <4>1 DEF Alike
    <3>3. CASE C!Finish
      <4>1. pcC = "head" /\ pcC' \in {"done", "failed"} /\ Len(xC) = n /\ xC' = xC
        BY <3>3 DEF C!Finish
      <4>2. xS = << >> /\ pcS \in {"idle", "head"}
        BY <2>1, <4>1 DEF Alike
      <4>3. AlikeSoFar'
        BY <3>1, <4>2 DEF AlikeSoFar
      <4>4. QED
        BY <3>1, <4>1, <4>2, <4>3 DEF Alike
    <3>4. QED
      BY <2>4, <3>2, <3>3 DEF DecoderPass, C!Pass
  <2>5. CASE ContractPass
    <3>1. UNCHANGED <<mem, len, pcC, xC>> /\ pcC \in {"done", "failed"}
      BY <2>5 DEF ContractPass, decoderVars
    <3>2. CASE pcC = "failed"
      BY <3>1, <3>2 DEF Alike
    <3>3. CASE pcC = "done"
      <4>1. Len(xC) = n /\ AlikeSoFar
        BY <2>1, <3>3 DEF Alike
      <4>2. CASE S!Low
        <5>1. pcS' = "high" /\ xS' = xS
          BY <4>2 DEF S!Low
        <5>2. QED
          BY <3>1, <3>3, <4>1, <5>1 DEF Alike, AlikeSoFar
      <4>3. CASE S!High
        BY <2>1, <3>1, <3>3, <4>3, AlikeHigh
      <4>4. CASE S!Finish
        <5>1. /\ pcS = "head" /\ Len(xS) = n /\ xS' = xS
              /\ pcS' = "reverted" => vS >= max_in_len
          BY <4>4 DEF S!Finish
        <5>2. vS <= len
          BY <2>1, <3>3, <4>1, <5>1, ReadsNoMore
        <5>3. pcS' = "reverted" => len >= max_in_len
          <6>1. vS \in Int /\ len \in Int /\ max_in_len \in Int
            BY <2>1, CodecAssumption DEF Storing, Reads, Decoding, Read
          <6>2. QED
            BY <5>1, <5>2, <6>1
        <5>4. QED
          BY <3>1, <3>3, <4>1, <5>1, <5>3 DEF Alike, AlikeSoFar
      <4>5. QED
        BY <2>5, <4>2, <4>3, <4>4 DEF ContractPass, S!Pass
    <3>4. QED
      BY <3>1, <3>2, <3>3
  <2>6. CASE UNCHANGED vars
    BY <2>2, <2>6 DEF vars
  <2>7. CASE EncodeSignature \/ EncodeFixed \/ DecodeFixed \/ EncoderPass \/ FixedPass
    BY <2>2, <2>7 DEF EncodeSignature, EncodeFixed, DecodeFixed, EncoderPass, FixedPass
  <2>8. QED
    BY <2>1, <2>3, <2>4, <2>5, <2>6, <2>7 DEF Next
<1>3. QED
  BY <1>1, <1>2, StoringAlways, DecodingAlways, PTL DEF Spec

(***************************************************************************)
(* The verifier in Python reads it too                                      *)
(***************************************************************************)

(* What stands first in a sequence, and what stands behind it.              *)
LEMMA Parts ==
  ASSUME NEW a, NEW b, a \in Seq(Bit), b \in Seq(Bit)
  PROVE  /\ SubSeq(a \o b, 1, Len(a)) = a
         /\ SubSeq(a \o b, Len(a) + 1, Len(a \o b)) = b
<1>1. PICK z : z = a \o b
  OBVIOUS
<1>2. PICK k \in Nat : k = Len(a)
  OBVIOUS
<1>3. /\ z \in Seq(Bit) /\ Len(z) = k + Len(b) /\ Len(b) \in Nat
      /\ \A i \in 1 .. k + Len(b) : z[i] = IF i <= k THEN a[i] ELSE b[i - k]
  <2>1. Concatenated(Bit, z, a, b)
    BY ONLY <1>1, a \in Seq(Bit), b \in Seq(Bit), Concatenate
  <2>2. QED
    BY <1>2, <2>1 DEF Concatenated
<1>4. PICK f, g : f = SubSeq(z, 1, k) /\ g = SubSeq(z, k + 1, Len(z))
  OBVIOUS
<1>5. f \in Seq(Bit) /\ Len(f) = k /\ g \in Seq(Bit) /\ Len(g) = Len(b) /\ f \o g = z
  <2>1. k \in 0 .. Len(z)
    BY ONLY <1>2, <1>3
  <2>2. z \in Seq(Bit)
    BY <1>3
  <2>3. /\ f \in Seq(Bit) /\ Len(f) = k /\ g \in Seq(Bit) /\ Len(g) = Len(z) - k
        /\ f \o g = z
    BY ONLY <1>4, <2>1, <2>2, CutAt
  <2>4. QED
    BY ONLY <1>3, <2>3
<1>6. \A i \in 1 .. k : f[i] = a[i]
  <2>1. \A i \in 1 .. Len(f) + Len(g) : z[i] = IF i <= Len(f) THEN f[i] ELSE g[i - Len(f)]
    <3>1. Concatenated(Bit, z, f, g)
      <4>1. f \in Seq(Bit) /\ g \in Seq(Bit) /\ z = f \o g
        BY <1>5
      <4>2. QED
        BY ONLY <4>1, Concatenate
    <3>2. QED
      BY <3>1 DEF Concatenated
  <2>2. QED
    BY ONLY <1>2, <1>3, <1>5, <2>1
<1>7. f = a
  <2>1. a \in Seq(Bit) /\ f \in Seq(Bit) /\ Len(f) = Len(a)
    BY <1>2, <1>5
  <2>2. \A i \in 1 .. Len(a) : f[i] = a[i]
    BY <1>2, <1>6
  <2>3. QED
    BY ONLY <2>1, <2>2, SeqEqual
<1>8. g = b
  <2>1. a \in Seq(Bit) /\ b \in Seq(Bit) /\ g \in Seq(Bit) /\ a \o g = a \o b
    BY <1>1, <1>5, <1>7
  <2>2. QED
    BY ONLY <2>1, Cancel
<1>9. QED
  BY <1>1, <1>2, <1>4, <1>7, <1>8

(* Zeros at the end are stripped, up to the one that ends the code. *)
LEMMA StrippedIs ==
  ASSUME NEW g \in Seq(Bit), NEW c, c = Append(g, 1), NEW z \in Nat
  PROVE  Stripped(c \o Zeros(z)) = c /\ c \in Seq(Bit) /\ c # << >>
<1>1. PICK k \in Nat \ {0} : k = Len(g) + 1
  <2>1. Len(g) \in Nat
    OBVIOUS
  <2>2. QED
    BY <2>1
<1>2. c \in Seq(Bit) /\ Len(c) = k /\ c[k] = 1 /\ c # << >>
  <2>1. 1 \in Bit
    BY DEF Bit
  <2>2. QED
    BY <1>1, <2>1, AppendProperties
<1>3. PICK y \in Seq(Bit) : y = Zeros(z) /\ Len(y) = z /\ \A i \in 1 .. z : y[i] = 0
  BY ZerosAre
<1>4. PICK s : s = c \o y
  OBVIOUS
<1>5. /\ s \in Seq(Bit) /\ Len(s) = k + z
      /\ \A i \in 1 .. k + z : s[i] = IF i <= k THEN c[i] ELSE y[i - k]
  <2>1. y \in Seq(Bit)
    OBVIOUS
  <2>2. Concatenated(Bit, s, c, y)
    BY ONLY <1>2, <1>4, <2>1, Concatenate
  <2>3. QED
    BY <1>2, <1>3, <2>2 DEF Concatenated
<1>6. PICK ones : ones = {b \in DOMAIN s : s[b] = 1}
  OBVIOUS
<1>7. k \in ones /\ \A b \in ones : b \in Nat /\ b <= k
  <2>1. DOMAIN s = 1 .. k + z
    BY <1>5
  <2>2. k \in 1 .. k + z /\ s[k] = 1
    BY ONLY <1>2, <1>5, k \in Nat \ {0}, z \in Nat
  <2>3. ASSUME NEW b \in 1 .. k + z, s[b] = 1, ~ (b <= k)
        PROVE  FALSE
    <3>1. b - k \in 1 .. z
      BY <2>3
    <3>2. s[b] = y[b - k] /\ y[b - k] = 0
      BY <1>3, <1>5, <2>3, <3>1
    <3>3. QED
      BY <2>3, <3>2
  <2>4. QED
    BY <1>6, <2>1, <2>2, <2>3
<1>8. Max(ones) = k
  <2>1. PICK m : m = Max(ones)
    OBVIOUS
  <2>2. \E x \in ones : \A b \in ones : x >= b
    BY <1>7
  <2>3. m \in ones /\ \A b \in ones : m >= b
    BY <2>1, <2>2 DEF Max
  <2>4. m >= k /\ m <= k /\ m \in Nat
    BY <1>7, <2>3
  <2>5. QED
    BY <2>1, <2>4
<1>9. Stripped(s) = SubSeq(s, 1, k)
  <2>1. ones # {}
    BY <1>7
  <2>2. QED
    BY <1>6, <1>8, <2>1, Zenon DEF Stripped
<1>10. SubSeq(s, 1, k) = c
  <2>1. y \in Seq(Bit)
    OBVIOUS
  <2>2. SubSeq(c \o y, 1, Len(c)) = c
    BY ONLY <1>2, <2>1, Parts
  <2>3. QED
    BY <1>2, <1>4, <2>2
<1>11. QED
  BY <1>2, <1>3, <1>4, <1>9, <1>10

(* One pass of decompress takes the code of a coefficient off. *)
LEMMA ParseIs ==
  ASSUME NEW y, NEW d \in Int, NEW r \in Seq(Bit), NEW z, z = Code(d) \o r,
         NEW p, p = [v |-> y, u |-> z, verdict |-> "ok"]
  PROVE  Parse(p) = [v |-> Append(y, d), u |-> r, verdict |-> "ok"] /\ z # << >>
<1>1. PICK t \in Bit, l \in Nat : t = Sign(d) /\ l = Abs(d)
  BY CodeBegins
<1>2. d = (IF t = 1 THEN -l ELSE l) /\ (t = 1 => l # 0) /\ Code(d) = Begun(t, l) \o <<1>>
  BY <1>1, CodeBegins
<1>3. PICK e \in Nat \ {0} : e = 2^LOW
  BY Sizes
<1>4. PICK h \in Nat, c \in 0 .. e - 1 : h = l \div e /\ c = l % e /\ l = e * h + c
  BY <1>3, HighAndLow
<1>5. c \in Nat /\ LOW \in Nat \ {0} /\ BYTE = LOW + 1 /\ 1 \in Bit
  BY <1>3, Sizes DEF BYTE, Bit
<1>6. PICK b : b = Begun(t, l)
  OBVIOUS
<1>7. b \in Seq(Bit) /\ Len(b) = BYTE + h
  <2>1. h = l \div 2^LOW /\ c = l % 2^LOW /\ h \in Nat /\ c \in Nat /\ t \in Bit
    BY <1>3, <1>4, <1>5
  <2>2. QED
    BY ONLY <1>6, <2>1, BegunIs
<1>8. PICK o : o = <<1>>
  OBVIOUS
<1>9. o \in Seq(Bit) /\ Len(o) = 1
  BY <1>5, <1>8
<1>10. PICK a : a = b \o o
  OBVIOUS
<1>11. a \in Seq(Bit) /\ Len(a) = BYTE + h + 1 /\ z = a \o r
  <2>1. a \in Seq(Bit) /\ Len(a) = Len(b) + Len(o)
    BY ONLY <1>7, <1>9, <1>10, ConcatProperties
  <2>2. Len(a) = BYTE + h + 1
    BY ONLY <1>7, <1>9, <2>1
  <2>3. QED
    BY <1>2, <1>6, <1>8, <1>10, <2>1, <2>2
<1>12. PICK k \in Nat : k = Len(z) /\ k = BYTE + h + 1 + Len(r) /\ Len(r) \in Nat
  <2>1. PICK w : w = a \o r
    OBVIOUS
  <2>2. a \in Seq(Bit) /\ r \in Seq(Bit)
    BY <1>11
  <2>3. Len(w) = Len(a) + Len(r)
    BY ONLY <2>1, <2>2, ConcatProperties
  <2>4. Len(r) \in Nat
    BY ONLY <2>2, LenProperties
  <2>5. z = w
    BY <1>11, <2>1, Zenon
  <2>6. QED
    BY ONLY <1>5, <1>11, <2>3, <2>4, <2>5, h \in Nat
<1>13. z \in Seq(Bit)
  BY <1>11, Joined
<1>14. BegunBits(z, t, c, h, 1)
  <2>1. AllIn(Bit, b, o, r)
    BY <1>7, <1>9 DEF AllIn
  <2>2. Grouping(b, o, r)
    BY <2>1, Regrouping, Zenon
  <2>3. z = b \o (o \o r)
    BY <1>10, <1>11, <2>2, Zenon DEF Grouping
  <2>4. AfterBegun(z, t, l, 1, r) /\ HighLow(l, h, c)
    BY <1>3, <1>4, <1>6, <1>8, <2>3, Zenon DEF AfterBegun, HighLow
  <2>5. t \in Bit /\ r \in Seq(Bit) /\ h \in Nat
    OBVIOUS
  <2>6. QED
    BY ONLY <1>5, <2>4, <2>5, BegunAt
<1>15. Number(SubSeq(z, 2, BYTE)) = c
  <2>1. PICK x : x = SubSeq(z, 2, BYTE)
    OBVIOUS
  <2>2. \A i \in 2 .. BYTE : z[i] \in Bit
    <3>1. \A i \in 1 .. Len(z) : z[i] \in Bit
      BY ONLY <1>13, ElementOfSeq
    <3>2. \A i \in 2 .. BYTE : i \in 1 .. Len(z)
      BY ONLY <1>5, <1>12, h \in Nat
    <3>3. QED
      BY ONLY <3>1, <3>2
  <2>3. 2 \in Int /\ BYTE \in Int /\ 2 <= BYTE
    BY ONLY <1>5
  <2>4. /\ x \in Seq(Bit) /\ Len(x) = IF 2 <= BYTE THEN BYTE - 2 + 1 ELSE 0
        /\ \A i \in 1 .. BYTE - 2 + 1 : x[i] = z[2 + i - 1]
    BY ONLY <2>1, <2>2, <2>3, SubSeqProperties
  <2>5. x \in Seq(Bit) /\ Len(x) = LOW /\ \A i \in 1 .. LOW : x[i] = z[i + 1]
    <3>1. BYTE - 2 + 1 = LOW /\ \A i \in 1 .. LOW : 2 + i - 1 = i + 1
      BY ONLY <1>5
    <3>2. QED
      BY ONLY <2>3, <2>4, <3>1
  <2>6. PICK w : w = Binary(c, LOW)
    OBVIOUS
  <2>7. w \in Seq(Bit) /\ Len(w) = LOW /\ \A i \in 1 .. LOW : z[i + 1] = w[i]
    BY <1>5, <1>14, <2>6, BinaryIs DEF BegunBits
  <2>8. x = w
    BY ONLY <2>5, <2>7, SeqEqual
  <2>9. Number(w) = c
    BY <1>3, <1>5, <2>6, NumberOfBinary
  <2>10. QED
    BY <2>1, <2>8, <2>9
<1>16. PICK at : at = {j \in BYTE + 1 .. Len(z) : z[j] = 1}
  OBVIOUS
<1>17. PICK i \in Nat : i = BYTE + h + 1
  BY <1>5
<1>18. i \in at /\ \A j \in at : j \in Nat /\ i <= j
  <2>1. i \in BYTE + 1 .. Len(z)
    BY ONLY <1>5, <1>12, <1>17, h \in Nat
  <2>2. z[i] = 1
    BY <1>14, <1>17 DEF BegunBits
  <2>3. ASSUME NEW j \in BYTE + 1 .. Len(z), z[j] = 1, ~ (i <= j)
        PROVE  FALSE
    <3>1. j - BYTE \in 1 .. h /\ BYTE + (j - BYTE) = j
      BY <1>5, <1>12, <1>17, <2>3
    <3>2. z[BYTE + (j - BYTE)] = 0
      BY <1>14, <3>1 DEF BegunBits
    <3>3. z[BYTE + (j - BYTE)] = z[j]
      BY <3>1, Zenon
    <3>4. 0 = 1
      BY <2>3, <3>2, <3>3, Zenon
    <3>5. QED
      BY ONLY <3>4
  <2>4. \A j \in at : j \in BYTE + 1 .. Len(z) /\ z[j] = 1
    BY <1>16
  <2>5. \A j \in BYTE + 1 .. Len(z) : j \in Nat
    BY ONLY <1>5, <1>12
  <2>6. QED
    BY <1>16, <2>1, <2>2, <2>3, <2>4, <2>5
<1>19. Min(at) = i
  <2>1. PICK m : m = Min(at)
    OBVIOUS
  <2>2. \E x \in at : \A j \in at : x <= j
    BY <1>18
  <2>3. m \in at /\ \A j \in at : m <= j
    BY <2>1, <2>2 DEF Min
  <2>4. m <= i /\ i <= m /\ m \in Nat
    BY <1>18, <2>3
  <2>5. QED
    BY <2>1, <2>4
<1>20. HighBits(i) = h
  BY <1>5, <1>17 DEF HighBits
<1>21. c + e * h = l
  <2>1. PICK x \in Nat : x = e * h
    OBVIOUS
  <2>2. QED
    BY <1>4, <2>1
<1>22. SubSeq(z, i + 1, Len(z)) = r
  <2>1. SubSeq(a \o r, Len(a) + 1, Len(a \o r)) = r
    BY <1>11, Parts
  <2>2. QED
    BY <1>11, <1>17, <2>1
<1>23. p.u = z /\ p.v = y /\ z[1] = t
  BY <1>14 DEF BegunBits
<1>24. ~ (Len(z) = 1) /\ ~ (Len(z) <= BYTE) /\ ~ (l = 0 /\ t = 1)
  BY <1>2, <1>5, <1>12
<1>25. Parse(p) = [v |-> Append(y, IF t = 1 THEN -l ELSE l), u |-> r, verdict |-> "ok"]
  <2>1. Number(SubSeq(p.u, 2, BYTE)) = c /\ p.u[1] = t /\ Len(p.u) = Len(z)
    BY <1>15, <1>23, Zenon
  <2>2. Min({j \in BYTE + 1 .. Len(p.u) : p.u[j] = 1}) = i
    BY <1>16, <1>19, <1>23, Zenon
  <2>3. Number(SubSeq(p.u, 2, BYTE))
          + 2^LOW * HighBits(Min({j \in BYTE + 1 .. Len(p.u) : p.u[j] = 1})) = l
    BY <1>3, <1>20, <1>21, <2>1, <2>2, Zenon
  <2>4. SubSeq(p.u, Min({j \in BYTE + 1 .. Len(p.u) : p.u[j] = 1}) + 1, Len(p.u)) = r
    BY <1>22, <1>23, <2>2, Zenon
  <2>5. ~ (Len(p.u) = 1) /\ ~ (Len(p.u) <= BYTE) /\ ~ (l = 0 /\ t = 1)
    BY <1>24, <2>1, Zenon
  <2>6. QED
    BY <1>23, <2>1, <2>3, <2>4, <2>5, Zenon DEF Parse
<1>26. z # << >>
  <2>1. Len(z) # 0
    BY ONLY <1>5, <1>12, h \in Nat
  <2>2. Len(<< >>) = 0
    OBVIOUS
  <2>3. QED
    BY ONLY <2>1, <2>2
<1>27. QED
  BY <1>2, <1>25, <1>26, Zenon

(* The verdicts of decompress before its loop.                              *)
Start(bits) ==
  [v |-> << >>, u |-> Stripped(bits),
   verdict |-> CASE Len(bits) > BYTE * slen -> "False"
                 [] Len(bits) <= BYTE * slen /\ Stripped(bits) = << >> -> "error"
                 [] OTHER -> "ok"]

(* f is what the loop of decompress goes through, up to the m-th pass. *)
Passed(p) == IF p.verdict = "ok" /\ p.u # << >> THEN Parse(p) ELSE p

Passes(f, start, m) ==
  f = [k \in 0 .. m |-> IF k = 0 THEN start
                        ELSE IF f[k - 1].verdict = "ok" /\ f[k - 1].u # << >>
                             THEN Parse(f[k - 1]) ELSE f[k - 1]]

LEMMA PassesExist ==
  ASSUME NEW start, NEW m \in Nat
  PROVE  \E f : Passes(f, start, m)
<1> DEFINE Without == {l \in Nat : ~ \E f : Passes(f, start, l)}
<1>1. SUFFICES ASSUME Without # {} PROVE FALSE
  OBVIOUS
<1>2. PICK l \in Without : \A j \in Without : l <= j
  <2>1. Without \subseteq Nat
    OBVIOUS
  <2>2. QED
    BY <1>1, <2>1, Least
<1>3. l \in Nat /\ ~ \E f : Passes(f, start, l)
  BY <1>2
<1>4. l # 0
  <2>1. SUFFICES ASSUME l = 0 PROVE FALSE
    OBVIOUS
  <2>2. Passes([i \in 0 .. 0 |-> start], start, 0)
    BY DEF Passes
  <2>3. QED
    BY <1>3, <2>1, <2>2
<1>5. PICK f : Passes(f, start, l - 1)
  <2>1. l - 1 \in Nat /\ ~ (l <= l - 1)
    BY <1>3, <1>4
  <2>2. l - 1 \notin Without
    BY <1>2, <2>1
  <2>3. QED
    BY <2>1, <2>2
<1>6. PICK next : next = Passed(f[l - 1])
  OBVIOUS
<1>7. PICK g : g = [i \in 0 .. l |-> IF i = l THEN next ELSE f[i]]
  OBVIOUS
<1>8. ASSUME NEW i \in 0 .. l
      PROVE  g[i] = IF i = 0 THEN start ELSE Passed(g[i - 1])
  <2>1. CASE i = l
    <3>1. g[i] = next
      BY <1>7, <2>1
    <3>2. g[i - 1] = f[l - 1]
      BY <1>3, <1>4, <1>7, <2>1
    <3>3. QED
      BY <1>4, <1>6, <2>1, <3>1, <3>2
  <2>2. CASE i # l
    <3>1. i \in 0 .. l - 1 /\ g[i] = f[i]
      BY <1>3, <1>7, <2>2
    <3>2. f[i] = IF i = 0 THEN start ELSE Passed(f[i - 1])
      BY <1>5, <3>1 DEF Passes, Passed
    <3>3. i # 0 => g[i - 1] = f[i - 1]
      BY <1>3, <1>7, <2>2, <3>1
    <3>4. QED
      BY <3>1, <3>2, <3>3
  <2>3. QED
    BY <2>1, <2>2
<1>9. g = [i \in 0 .. l |-> IF i = 0 THEN start ELSE Passed(g[i - 1])]
  BY <1>7, <1>8
<1>10. Passes(g, start, l)
  BY <1>9 DEF Passes, Passed
<1>11. QED
  BY <1>3, <1>10

(* What decompress returns when the loop has ended with p. *)
Ended(p) == IF p.verdict = "ok" /\ Len(p.v) # n THEN [p EXCEPT !.verdict = "False"] ELSE p

LEMMA DecompressIs ==
  ASSUME NEW bits
  PROVE  \E f : Passes(f, Start(bits), n) /\ decompress(bits) = Ended(f[n])
<1> DEFINE f == CHOOSE f : Passes(f, Start(bits), n)
<1>1. Passes(f, Start(bits), n)
  BY PassesExist, Sizes
<1>2. decompress(bits) = Ended(f[n])
  BY Zenon DEF decompress, Passes, Start, Ended
<1>3. QED
  BY <1>1, <1>2

(* The first k coefficients of a polynomial. *)
First(p, k) == [j \in 1 .. k |-> p[j]]

LEMMA FirstNext ==
  ASSUME NEW p, p \in [1 .. n -> Int], NEW k \in Nat, k < n
  PROVE  Append(First(p, k), p[k + 1]) = First(p, k + 1)
<1>1. n \in Nat
  BY Sizes
<1>2. PICK y : y = First(p, k)
  OBVIOUS
<1>3. y \in Seq(Int) /\ Len(y) = k /\ \A j \in 1 .. k : y[j] = p[j]
  <2>1. y \in [1 .. k -> Int]
    BY <1>1, <1>2 DEF First
  <2>2. QED
    BY <1>2, <2>1 DEF First
<1>4. PICK z : z = First(p, k + 1)
  OBVIOUS
<1>5. z \in Seq(Int) /\ Len(z) = k + 1 /\ \A j \in 1 .. k + 1 : z[j] = p[j]
  <2>1. z \in [1 .. k + 1 -> Int]
    BY <1>1, <1>4 DEF First
  <2>2. QED
    BY <1>4, <2>1 DEF First
<1>6. PICK w : w = Append(y, p[k + 1])
  OBVIOUS
<1>7. w \in Seq(Int) /\ Len(w) = k + 1 /\ \A j \in 1 .. k + 1 : w[j] = z[j]
  <2>1. p[k + 1] \in Int
    BY <1>1
  <2>2. QED
    BY <1>3, <1>5, <1>6, <2>1, AppendProperties
<1>8. w = z
  BY ONLY <1>5, <1>7, SeqEqual
<1>9. QED
  BY <1>2, <1>4, <1>6, <1>8

(* After k passes, the first k coefficients are read and the code of the    *)
(* others is left.                                                          *)
After(f, p, k) ==
  \E r \in Seq(Bit) : /\ CodeOf(p) = Coded(p, k) \o r
                      /\ f[k] = [v |-> First(p, k), u |-> r, verdict |-> "ok"]

LEMMA PassReads ==
  ASSUME NEW p, p \in [1 .. n -> Int], NEW start, NEW f, Passes(f, start, n),
         NEW k \in Nat, k < n, After(f, p, k)
  PROVE  After(f, p, k + 1)
<1>1. n \in Nat /\ k \in 0 .. n /\ k + 1 \in 0 .. n /\ k + 1 \in 1 .. n /\ k + 1 # 0
  BY Sizes
<1>2. PICK r \in Seq(Bit) : /\ CodeOf(p) = Coded(p, k) \o r
                            /\ f[k] = [v |-> First(p, k), u |-> r, verdict |-> "ok"]
  BY DEF After
<1>3. PICK z \in Seq(Bit) : CodeOf(p) = Coded(p, k + 1) \o z
  BY <1>1, CodedBegins
<1>4. PICK d \in Int : d = p[k + 1]
  BY <1>1
<1>5. PICK a, b : a = Coded(p, k) /\ b = Code(d)
  OBVIOUS
<1>6. a \in Seq(Bit) /\ b \in Seq(Bit) /\ Coded(p, k + 1) = a \o b
  <2>1. Coded(p, k) \in Seq(Bit) /\ (k < n => Coded(p, k + 1) = Coded(p, k) \o Code(p[k + 1]))
    BY <1>1, CodedIs
  <2>2. Code(d) \in Seq(Bit)
    BY CodeIs
  <2>3. QED
    BY <1>4, <1>5, <2>1, <2>2
<1>7. r = b \o z
  <2>1. AllIn(Bit, a, b, z)
    BY <1>6 DEF AllIn
  <2>2. Grouping(a, b, z)
    BY <2>1, Regrouping, Zenon
  <2>3. a \o r = a \o (b \o z)
    BY <1>2, <1>3, <1>5, <1>6, <2>2, Zenon DEF Grouping
  <2>4. b \o z \in Seq(Bit) /\ z \in Seq(Bit) /\ r \in Seq(Bit)
    BY <1>6, Joined
  <2>5. PICK t : t = b \o z
    OBVIOUS
  <2>6. a \in Seq(Bit) /\ r \in Seq(Bit) /\ t \in Seq(Bit) /\ a \o r = a \o t
    BY <1>6, <2>3, <2>4, <2>5, Zenon
  <2>7. r = t
    BY ONLY <2>6, Cancel
  <2>8. QED
    BY <2>5, <2>7
<1>8. /\ Parse(f[k]) = [v |-> Append(First(p, k), d), u |-> z, verdict |-> "ok"]
      /\ r # << >>
  <2>1. r = Code(d) \o z
    BY <1>5, <1>7, Zenon
  <2>2. z \in Seq(Bit)
    OBVIOUS
  <2>3. PICK x, y : x = f[k] /\ y = First(p, k)
    OBVIOUS
  <2>4. x = [v |-> y, u |-> r, verdict |-> "ok"]
    BY <1>2, <2>3, Zenon
  <2>5. Parse(x) = [v |-> Append(y, d), u |-> z, verdict |-> "ok"] /\ r # << >>
    BY ONLY <2>1, <2>2, <2>4, d \in Int, ParseIs
  <2>6. QED
    BY <2>3, <2>5, Zenon
<1>9. f[k + 1] = Parse(f[k])
  <2>1. f[k + 1] = IF f[k].verdict = "ok" /\ f[k].u # << >> THEN Parse(f[k]) ELSE f[k]
    <3>1. \A i \in 0 .. n : i # 0 =>
            f[i] = IF f[i - 1].verdict = "ok" /\ f[i - 1].u # << >>
                   THEN Parse(f[i - 1]) ELSE f[i - 1]
      BY DEF Passes
    <3>2. PICK i \in 0 .. n : i = k + 1 /\ i - 1 = k /\ i # 0
      BY <1>1
    <3>3. f[i] = IF f[i - 1].verdict = "ok" /\ f[i - 1].u # << >>
                 THEN Parse(f[i - 1]) ELSE f[i - 1]
      BY <3>1, <3>2, Zenon
    <3>4. QED
      BY <3>2, <3>3, Zenon
  <2>2. f[k].verdict = "ok" /\ f[k].u = r
    BY <1>2
  <2>3. QED
    BY <1>8, <2>1, <2>2
<1>10. Append(First(p, k), d) = First(p, k + 1)
  BY <1>4, FirstNext
<1>11. QED
  BY <1>3, <1>8, <1>9, <1>10 DEF After

LEMMA PassesRead ==
  ASSUME NEW p, p \in [1 .. n -> Int], NEW f,
         Passes(f, [v |-> << >>, u |-> CodeOf(p), verdict |-> "ok"], n)
  PROVE  f[n].verdict = "ok" /\ f[n].v = p
<1>1. n \in Nat
  BY Sizes
<1>2. PICK start : start = [v |-> << >>, u |-> CodeOf(p), verdict |-> "ok"]
  OBVIOUS
<1>3. After(f, p, 0)
  <2>1. 0 \in 0 .. n
    BY <1>1
  <2>2. PICK r \in Seq(Bit) : CodeOf(p) = Coded(p, 0) \o r
    BY <2>1, CodedBegins
  <2>3. CodeOf(p) = r
    <3>1. Coded(p, 0) = << >>
      BY <2>1, CodedIs
    <3>2. << >> \o r = r
      OBVIOUS
    <3>3. QED
      BY <2>2, <3>1, <3>2
  <2>4. f[0] = start
    BY <1>2, <2>1 DEF Passes
  <2>5. First(p, 0) = << >>
    BY DEF First
  <2>6. QED
    BY <1>2, <2>2, <2>3, <2>4, <2>5 DEF After
<1> DEFINE Not == {k \in Nat : k <= n /\ ~ After(f, p, k)}
<1>4. Not = {}
  <2>1. SUFFICES ASSUME Not # {} PROVE FALSE
    OBVIOUS
  <2>2. PICK l \in Not : \A j \in Not : l <= j
    <3>1. Not \subseteq Nat
      OBVIOUS
    <3>2. QED
      BY <2>1, <3>1, Least
  <2>3. l \in Nat /\ l <= n /\ ~ After(f, p, l)
    BY <2>2
  <2>4. l # 0
    BY <1>3, <2>3
  <2>5. PICK k : k = l - 1
    OBVIOUS
  <2>6. k \in Nat /\ k < n /\ k + 1 = l /\ ~ (l <= k) /\ k <= n
    BY ONLY <1>1, <2>3, <2>4, <2>5
  <2>7. After(f, p, k)
    BY <2>2, <2>6
  <2>8. After(f, p, k + 1)
    BY <2>6, <2>7, PassReads
  <2>9. QED
    BY <2>3, <2>6, <2>8
<1>5. After(f, p, n)
  BY <1>1, <1>4
<1>6. First(p, n) = p
  BY DEF First
<1>7. QED
  BY <1>5, <1>6 DEF After

(* The code of a polynomial ends with a one. *)
LEMMA CodeEnds ==
  ASSUME NEW p, p \in [1 .. n -> Int]
  PROVE  \E g \in Seq(Bit) : CodeOf(p) = Append(g, 1)
<1>1. PICK k \in Nat : k = n - 1 /\ k + 1 = n /\ k < n /\ k \in 0 .. n /\ n \in 0 .. n /\ n \in 1 .. n
  BY Sizes
<1>2. PICK d \in Int : d = p[n]
  BY <1>1
<1>3. PICK a : a = Coded(p, k)
  OBVIOUS
<1>4. a \in Seq(Bit) /\ CodeOf(p) = a \o Code(d)
  <2>1. Coded(p, k) \in Seq(Bit) /\ (k < n => Coded(p, k + 1) = Coded(p, k) \o Code(p[k + 1]))
    BY <1>1, CodedIs
  <2>2. Coded(p, n) = CodeOf(p)
    BY <1>1, CodedIs
  <2>3. Coded(p, n) = Coded(p, k) \o Code(p[n])
    BY <1>1, <2>1
  <2>4. QED
    BY <1>2, <1>3, <2>1, <2>2, <2>3
<1>5. PICK b : b = Begun(Sign(d), Abs(d))
  OBVIOUS
<1>6. b \in Seq(Bit) /\ Code(d) = b \o <<1>>
  <2>1. Sign(d) \in Bit /\ Abs(d) \in Nat /\ Code(d) = Begun(Sign(d), Abs(d)) \o <<1>>
    BY CodeBegins
  <2>2. QED
    BY <1>5, <2>1, BegunTyped
<1>7. PICK o : o = <<1>>
  OBVIOUS
<1>8. o \in Seq(Bit)
  BY <1>7 DEF Bit
<1>9. CodeOf(p) = (a \o b) \o o
  <2>1. AllIn(Bit, a, b, o)
    BY <1>4, <1>6, <1>8 DEF AllIn
  <2>2. Grouping(a, b, o)
    BY <2>1, Regrouping, Zenon
  <2>3. QED
    BY <1>4, <1>6, <1>7, <2>2, Zenon DEF Grouping
<1>10. PICK g : g = a \o b
  OBVIOUS
<1>11. g \in Seq(Bit)
  BY <1>4, <1>6, <1>10, Joined
<1>12. g \o o = Append(g, 1)
  <2>1. 1 \in Bit
    BY DEF Bit
  <2>2. QED
    BY ONLY <1>7, <1>11, <2>1, AppendIsConcat
<1>13. QED
  BY <1>9, <1>10, <1>11, <1>12

(* decompress reads a code followed by zeros, if it is not too long.        *)
CodeWithZeros(bits, p, z) ==
  /\ p \in [1 .. n -> Int] /\ z \in Nat
  /\ bits = CodeOf(p) \o Zeros(z)
  /\ Len(bits) \in Nat /\ Len(bits) <= BYTE * slen

LEMMA DecompressReads ==
  ASSUME NEW p, NEW z, NEW bits, CodeWithZeros(bits, p, z)
  PROVE  decompress(bits).verdict = "ok" /\ decompress(bits).v = p
<1>1. /\ p \in [1 .. n -> Int] /\ z \in Nat
      /\ bits = CodeOf(p) \o Zeros(z)
      /\ Len(bits) \in Nat /\ Len(bits) <= BYTE * slen
  BY DEF CodeWithZeros
<1>2. PICK c, g : g \in Seq(Bit) /\ c = Append(g, 1) /\ CodeOf(p) = c
  BY <1>1, CodeEnds
<1>3. Stripped(bits) = c /\ c # << >>
  <2>1. Stripped(c \o Zeros(z)) = c /\ c # << >>
    BY ONLY <1>1, <1>2, StrippedIs
  <2>2. bits = c \o Zeros(z)
    BY <1>1, <1>2, Zenon
  <2>3. QED
    BY <2>1, <2>2, Zenon
<1>4. Start(bits) = [v |-> << >>, u |-> CodeOf(p), verdict |-> "ok"]
  <2>1. PICK m \in Nat : m = BYTE * slen
    BY Sizes
  <2>2. ~ (Len(bits) > m) /\ Len(bits) <= m
    BY <1>1, <2>1
  <2>3. QED
    BY <1>2, <1>3, <2>1, <2>2 DEF Start
<1>5. PICK f : Passes(f, Start(bits), n) /\ decompress(bits) = Ended(f[n])
  BY DecompressIs, Zenon
<1>6. f[n].verdict = "ok" /\ f[n].v = p
  <2>1. Passes(f, [v |-> << >>, u |-> CodeOf(p), verdict |-> "ok"], n)
    BY <1>4, <1>5, Zenon
  <2>2. QED
    BY <1>1, <2>1, PassesRead
<1>7. Len(p) = n
  <2>1. n \in Nat /\ p \in Seq(Int) /\ p \in [1 .. n -> Int]
    BY <1>1, Sizes
  <2>2. QED
    BY <2>1
<1>8. Ended(f[n]) = f[n]
  BY <1>6, <1>7, Zenon DEF Ended
<1>9. QED
  BY <1>5, <1>6, <1>8, Zenon

(***************************************************************************)
(* What the verifier in C accepts, the contract -- unless it reverts -- and *)
(* the verifier in Python read as the same polynomial (comp_decode of       *)
(* codec.c, _decompress_sig of ZKNOX_falcon_encodings.sol, decompress of    *)
(* encoding.py).                                                            *)
(***************************************************************************)
THEOREM SameReadingAlways == Spec => []SameReading
<1>1. Storing /\ Decoding /\ Alike => SameReading
  <2>1. SUFFICES ASSUME Storing, Decoding, Alike, pcC = "done"
                 PROVE  /\ pcS = "done" => xS = ModQ(xC)
                        /\ pcS = "reverted" => len >= max_in_len
                        /\ len <= slen => /\ decompress(Received).verdict = "ok"
                                          /\ decompress(Received).v = xC
    BY DEF SameReading
  <2>2. /\ Len(xC) = n /\ AlikeSoFar /\ (pcS = "reverted" => len >= max_in_len)
        /\ Read /\ Received = ToBytes(CodeOf(xC))
    BY <2>1 DEF Alike, Decoding, OneEncoding
  <2>3. /\ xC \in Seq(-MAX .. MAX) /\ mem \in Memory /\ len \in 0 .. MEMORY
        /\ n \in Nat /\ MAX \in Nat /\ BYTE \in Nat /\ slen \in Nat /\ MEMORY \in Nat
    BY <2>2, CodecAssumption, Sizes DEF Read
  <2>4. xC \in [1 .. n -> Int] /\ xC \in Seq(Int) /\ DOMAIN xC = 1 .. n
    <3>1. xC \in [1 .. n -> -MAX .. MAX]
      BY <2>2, <2>3
    <3>2. xC \in [1 .. n -> Int]
      BY <2>3, <3>1
    <3>3. QED
      BY <2>3, <3>2
  <2>5. ASSUME pcS = "done"
        PROVE  xS = ModQ(xC)
    <3>1. Len(xS) = n /\ xS \in Seq(Stored)
      BY <2>1, <2>5 DEF Storing, Reads
    <3>2. ModQ(xC) = [k \in 1 .. n |-> Residue(xC[k])]
      BY <2>4 DEF ModQ, Residue
    <3>3. xS = [k \in 1 .. n |-> xS[k]]
      <4>1. PICK T : T = Stored
        OBVIOUS
      <4>2. Len(xS) = n /\ xS \in Seq(T)
        BY <3>1, <4>1
      <4>3. xS \in [1 .. n -> T]
        BY ONLY <4>2
      <4>4. QED
        BY <4>3
    <3>4. \A k \in 1 .. n : xS[k] = Residue(xC[k])
      BY <2>2, <3>1 DEF AlikeSoFar
    <3>5. QED
      BY <3>2, <3>3, <3>4
  <2>6. ASSUME len <= slen
        PROVE  decompress(Received).verdict = "ok" /\ decompress(Received).v = xC
    <3>1. Received \in Seq(Bit) /\ Len(Received) = BYTE * len
      BY <2>3, MemoryIs
    <3>2. Len(Received) \in Nat /\ Len(Received) <= BYTE * slen
      <4>1. len \in Nat
        BY <2>3
      <4>2. QED
        BY ONLY <2>3, <2>6, <3>1, <4>1
    <3>3. CodeOf(xC) \in Seq(Bit)
      BY <2>2, ReadIs
    <3>4. PICK z \in Nat : Received = CodeOf(xC) \o Zeros(z)
      <4>1. PICK c \in Seq(Bit) : c = CodeOf(xC)
        BY <3>3
      <4>2. PICK z : z = Len(ToBytes(c)) - Len(c)
        OBVIOUS
      <4>3. z \in 0 .. BYTE - 1 /\ ToBytes(c) = c \o Zeros(z)
        BY ONLY <4>1, <4>2, ToBytesIs
      <4>4. z \in Nat
        BY <2>3, <4>3
      <4>5. QED
        BY <2>2, <4>1, <4>3, <4>4
    <3>5. PICK p, bits : p = xC /\ bits = Received
      OBVIOUS
    <3>6. p \in [1 .. n -> Int] /\ z \in Nat /\ bits = CodeOf(p) \o Zeros(z)
      BY <2>4, <3>4, <3>5, Zenon
    <3>7. Len(bits) \in Nat /\ Len(bits) <= BYTE * slen
      BY <3>2, <3>5, Zenon
    <3>8. CodeWithZeros(bits, p, z)
      BY <3>6, <3>7, Zenon DEF CodeWithZeros
    <3>9. decompress(bits).verdict = "ok" /\ decompress(bits).v = p
      BY <3>8, DecompressReads, Zenon
    <3>10. QED
      BY <3>5, <3>9, Zenon
  <2>7. QED
    BY <2>2, <2>5, <2>6
<1>2. QED
  BY <1>1, StoringAlways, DecodingAlways, AlikeAlways, PTL


(***************************************************************************)
(* The codecs of keys and of padded signatures                              *)
(***************************************************************************)

(* What of a sequence lies behind i elements, up to j of them.              *)
Part(s, i, j) == SubSeq(s, i + 1, j)

Within(T, s, i, j) == s \in Seq(T) /\ i \in Nat /\ j \in Nat /\ i <= j /\ j <= Len(s)

IsPart(T, t, s, i, j) ==
  t \in Seq(T) /\ Len(t) = j - i /\ \A l \in 1 .. j - i : t[l] = s[i + l]

LEMMA PartIs ==
  ASSUME NEW T, NEW s, NEW i, NEW j, Within(T, s, i, j)
  PROVE  IsPart(T, Part(s, i, j), s, i, j)
<1>0. s \in Seq(T) /\ i \in Nat /\ j \in Nat /\ i <= j /\ j <= Len(s)
  BY DEF Within
<1>1. Len(s) \in Nat /\ \A l \in 1 .. Len(s) : s[l] \in T
  BY <1>0
<1>2. PICK h \in Int : h = i + 1
  BY <1>0
<1>3. j \in Int /\ \A l \in h .. j : s[l] \in T
  BY <1>0, <1>1, <1>2
<1>4. /\ SubSeq(s, h, j) \in Seq(T)
      /\ Len(SubSeq(s, h, j)) = IF h <= j THEN j - h + 1 ELSE 0
      /\ \A l \in 1 .. j - h + 1 : SubSeq(s, h, j)[l] = s[h + l - 1]
  BY ONLY <1>3, h \in Int, SubSeqProperties
<1>5. j - h + 1 = j - i /\ \A l \in 1 .. j - i : h + l - 1 = i + l
  BY <1>0, <1>2
<1>6. (IF h <= j THEN j - h + 1 ELSE 0) = j - i
  BY <1>0, <1>2
<1>7. QED
  BY <1>2, <1>4, <1>5, <1>6 DEF Part, IsPart

(* Equal if as long, and equal at every place.                              *)
LEMMA Equal ==
  ASSUME NEW T, NEW s \in Seq(T), NEW t \in Seq(T), NEW l \in Nat, Len(s) = l, Len(t) = l,
         \A i \in 1 .. l : s[i] = t[i]
  PROVE  s = t
BY SeqEqual

LEMMA PartOfPart ==
  ASSUME NEW T, NEW s, NEW i, NEW j, NEW a, NEW b,
         Within(T, s, i, j), Within(T, Part(s, i, j), a, b)
  PROVE  Part(Part(s, i, j), a, b) = Part(s, i + a, i + b)
<1>1. PICK t : t = Part(s, i, j)
  OBVIOUS
<1>2. /\ s \in Seq(T) /\ i \in Nat /\ j \in Nat /\ i <= j /\ j <= Len(s)
      /\ a \in Nat /\ b \in Nat /\ a <= b /\ b <= Len(t)
  BY <1>1 DEF Within
<1>3. t \in Seq(T) /\ Len(t) = j - i /\ \A l \in 1 .. j - i : t[l] = s[i + l]
  <2>1. IsPart(T, t, s, i, j)
    BY <1>1, PartIs
  <2>2. QED
    BY <2>1 DEF IsPart
<1>4. PICK x : x = Part(t, a, b)
  OBVIOUS
<1>5. x \in Seq(T) /\ Len(x) = b - a /\ \A l \in 1 .. b - a : x[l] = t[a + l]
  <2>1. IsPart(T, x, t, a, b)
    BY <1>1, <1>4, PartIs
  <2>2. QED
    BY <2>1 DEF IsPart
<1>6. PICK e \in Nat, f \in Nat : e = i + a /\ f = i + b
  BY <1>2
<1>7. f - e = b - a /\ b - a \in Nat /\ Len(s) \in Nat
  BY <1>2, <1>6
<1>8. PICK y : y = Part(s, e, f)
  OBVIOUS
<1>9. y \in Seq(T) /\ Len(y) = b - a /\ \A l \in 1 .. b - a : y[l] = s[e + l]
  <2>1. e <= f /\ f <= Len(s)
    BY <1>2, <1>3, <1>6, <1>7
  <2>2. Within(T, s, e, f)
    BY <1>2, <1>6, <2>1 DEF Within
  <2>3. IsPart(T, y, s, e, f)
    BY <1>8, <2>2, PartIs
  <2>4. QED
    BY <1>7, <2>3 DEF IsPart
<1>10. \A l \in 1 .. b - a : x[l] = y[l]
  <2>1. ASSUME NEW l \in 1 .. b - a
        PROVE  x[l] = y[l]
    <3>1. a + l \in 1 .. j - i /\ i + (a + l) = e + l
      BY <1>2, <1>3, <1>6
    <3>2. t[a + l] = s[e + l]
      BY <1>3, <3>1
    <3>3. QED
      BY <1>5, <1>9, <3>2
  <2>2. QED
    BY <2>1
<1>11. x = y
  BY ONLY <1>5, <1>7, <1>9, <1>10, Equal
<1>12. QED
  BY <1>1, <1>4, <1>6, <1>8, <1>11

LEMMA PartsJoin ==
  ASSUME NEW T, NEW s, NEW i, NEW k, NEW j, Within(T, s, i, k), Within(T, s, k, j)
  PROVE  Part(s, i, k) \o Part(s, k, j) = Part(s, i, j)
<1>1. /\ s \in Seq(T) /\ Len(s) \in Nat /\ i \in Nat /\ k \in Nat /\ j \in Nat
      /\ i <= k /\ k <= j /\ j <= Len(s)
  BY DEF Within
<1>2. i + 1 \in 1 .. Len(s) + 1 /\ k \in (i + 1) - 1 .. Len(s) /\ j \in k .. Len(s)
  BY <1>1
<1>3. SubSeq(s, i + 1, k) \o SubSeq(s, k + 1, j) = SubSeq(s, i + 1, j)
  BY ONLY <1>1, <1>2, ConcatAdjacentSubSeq
<1>4. QED
  BY <1>3 DEF Part

LEMMA PartWhole ==
  ASSUME NEW T, NEW s \in Seq(T)
  PROVE  Part(s, 0, Len(s)) = s
<1>1. Part(s, 0, Len(s)) = SubSeq(s, 1, Len(s))
  BY DEF Part
<1>2. QED
  BY <1>1, SubSeqFull

LEMMA PartOfJoin ==
  ASSUME NEW T, NEW a \in Seq(T), NEW e \in Seq(T), NEW r \in Seq(T)
  PROVE  Part(a \o (e \o r), Len(a), Len(a) + Len(e)) = e
<1>1. PICK k \in Nat, l \in Nat, m \in Nat : k = Len(a) /\ l = Len(e) /\ m = Len(r)
  OBVIOUS
<1>2. PICK t : t = e \o r
  OBVIOUS
<1>3. t \in Seq(T) /\ Len(t) = l + m /\ \A i \in 1 .. l : t[i] = e[i]
  BY <1>1, <1>2, ConcatProperties
<1>4. PICK z : z = a \o t
  OBVIOUS
<1>5. /\ z \in Seq(T) /\ Len(z) = Len(a) + Len(t)
      /\ \A i \in 1 .. Len(a) + Len(t) : z[i] = IF i <= Len(a) THEN a[i] ELSE t[i - Len(a)]
  BY ONLY <1>3, <1>4, a \in Seq(T), ConcatProperties
<1>6. z \in Seq(T) /\ Len(z) = k + (l + m) /\ \A i \in 1 .. l : z[k + i] = t[i]
  <2>1. ASSUME NEW i \in 1 .. l
        PROVE  z[k + i] = t[i]
    <3>1. k + i \in 1 .. k + (l + m) /\ ~ (k + i <= k) /\ (k + i) - k = i
      OBVIOUS
    <3>2. QED
      BY <1>1, <1>3, <1>5, <3>1
  <2>2. QED
    BY <1>1, <1>3, <1>5, <2>1
<1>7. PICK j \in Nat : j = k + l
  OBVIOUS
<1>8. Within(T, z, k, j) /\ j - k = l
  BY <1>6, <1>7 DEF Within
<1>9. PICK x : x = Part(z, k, j)
  OBVIOUS
<1>10. x \in Seq(T) /\ Len(x) = l /\ \A i \in 1 .. l : x[i] = z[k + i]
  <2>1. IsPart(T, x, z, k, j)
    BY <1>8, <1>9, PartIs
  <2>2. QED
    BY <1>8, <2>1 DEF IsPart
<1>11. \A i \in 1 .. l : x[i] = e[i]
  BY <1>3, <1>6, <1>10
<1>12. x = e
  BY <1>1, <1>10, <1>11, Equal
<1>13. QED
  BY <1>1, <1>2, <1>4, <1>7, <1>9, <1>12

(* Pieces, each of w bits, and where they are when they are laid end to end. *)
Pieces(s, w) == s \in Seq(Seq(Bit)) /\ \A i \in 1 .. Len(s) : Len(s[i]) = w

LEMMA PiecesAppend ==
  ASSUME NEW w, NEW s \in Seq(Seq(Bit)), NEW e \in Seq(Bit)
  PROVE  Pieces(Append(s, e), w) <=> Pieces(s, w) /\ Len(e) = w
<1>0. PICK t : t = Append(s, e)
  OBVIOUS
<1>1. PICK k \in Nat : t = Append(s, e) /\ k = Len(s)
  BY <1>0
<1>2. /\ t \in Seq(Seq(Bit)) /\ Len(t) = k + 1
      /\ \A i \in 1 .. k : t[i] = s[i]
      /\ t[k + 1] = e
  BY <1>1, AppendProperties
<1>3. ASSUME Pieces(t, w)
      PROVE  Pieces(s, w) /\ Len(e) = w
  <2>1. \A i \in 1 .. k + 1 : Len(t[i]) = w
    BY <1>2, <1>3 DEF Pieces
  <2>2. \A i \in 1 .. k : i \in 1 .. k + 1
    OBVIOUS
  <2>3. k + 1 \in 1 .. k + 1
    OBVIOUS
  <2>4. QED
    BY <1>1, <1>2, <2>1, <2>2, <2>3 DEF Pieces
<1>4. ASSUME Pieces(s, w), Len(e) = w
      PROVE  Pieces(t, w)
  <2>1. \A i \in 1 .. k + 1 : i \in 1 .. k \/ i = k + 1
    OBVIOUS
  <2>2. QED
    BY <1>1, <1>2, <1>4, <2>1 DEF Pieces
<1>5. QED
  BY <1>1, <1>3, <1>4

LEMMA FlattenPieces ==
  ASSUME NEW w \in Nat, NEW s, Pieces(s, w)
  PROVE  Len(FlattenSeq(s)) = w * Len(s)
<1> DEFINE Right(r) == Len(FlattenSeq(r)) = w * Len(r)
           Wrong == {l \in Nat : \E r \in Seq(Seq(Bit)) : Pieces(r, w) /\ Len(r) = l /\ ~Right(r)}
<1>1. Wrong = {}
  <2>1. SUFFICES ASSUME Wrong # {} PROVE FALSE
    OBVIOUS
  <2>2. PICK l \in Wrong : \A j \in Wrong : l <= j
    <3>1. Wrong \subseteq Nat
      OBVIOUS
    <3>2. QED
      BY <2>1, <3>1, Least
  <2>3. PICK r \in Seq(Seq(Bit)) : Pieces(r, w) /\ Len(r) = l /\ ~Right(r)
    BY <2>2
  <2>4. r # << >>
    <3>1. SUFFICES ASSUME r = << >> PROVE FALSE
      OBVIOUS
    <3>2. Len(<< >>) = 0 /\ w * 0 = 0
      OBVIOUS
    <3>3. QED
      BY <2>3, <3>1, <3>2, FlattenNone
  <2>5. PICK h \in Seq(Seq(Bit)), e \in Seq(Bit) : r = Append(h, e)
    BY <2>4, SequenceEmptyOrAppend
  <2>6. Pieces(h, w) /\ Len(e) = w
    BY <2>3, <2>5, PiecesAppend
  <2>7. Len(h) \in Nat /\ l = Len(h) + 1
    BY <2>3, <2>5
  <2>8. Right(h)
    <3>1. ~ (l <= Len(h))
      BY <2>7
    <3>2. Len(h) \notin Wrong
      BY <2>2, <3>1
    <3>3. QED
      BY <2>6, <2>7, <3>2
  <2>9. FlattenSeq(r) = FlattenSeq(h) \o e /\ FlattenSeq(h) \in Seq(Bit)
    BY <2>5, FlattenAppend
  <2>10. Len(FlattenSeq(r)) = w * Len(h) + w
    BY <2>6, <2>8, <2>9, ConcatProperties
  <2>11. w * l = w * Len(h) + w
    BY <2>7
  <2>12. QED
    BY <2>3, <2>10, <2>11
<1>2. s \in Seq(Seq(Bit)) /\ Len(s) \in Nat
  BY DEF Pieces
<1>3. QED
  BY <1>1, <1>2

(* Where piece c lies.                                                      *)
Piece(b, w, c) == Part(b, w * (c - 1), w * c)

LEMMA PieceOf ==
  ASSUME NEW w \in Nat, NEW s, Pieces(s, w), NEW c \in 1 .. Len(s)
  PROVE  Piece(FlattenSeq(s), w, c) = s[c]
<1>1. s \in Seq(Seq(Bit)) /\ Len(s) \in Nat /\ c \in Nat /\ s[c] \in Seq(Bit) /\ Len(s[c]) = w
  BY DEF Pieces
<1>2. PICK k \in Nat : k = c - 1 /\ k + 1 = c /\ k <= Len(s) /\ c <= Len(s)
  BY <1>1
<1>3. PICK a, b, e, r : /\ a = Part(s, 0, k) /\ b = Part(s, k, Len(s))
                        /\ e = Part(s, k, c) /\ r = Part(s, c, Len(s))
  OBVIOUS
<1>4. Within(Seq(Bit), s, 0, k) /\ Within(Seq(Bit), s, k, c) /\ Within(Seq(Bit), s, c, Len(s))
      /\ Within(Seq(Bit), s, k, Len(s))
  BY <1>1, <1>2 DEF Within
<1>5. a \o b = s /\ e \o r = b
  <2>1. Part(s, 0, k) \o Part(s, k, Len(s)) = Part(s, 0, Len(s))
    BY ONLY <1>4, PartsJoin
  <2>2. Part(s, k, c) \o Part(s, c, Len(s)) = Part(s, k, Len(s))
    BY ONLY <1>4, PartsJoin
  <2>3. Part(s, 0, Len(s)) = s
    BY <1>1, PartWhole
  <2>4. QED
    BY <1>3, <2>1, <2>2, <2>3
<1>6. /\ a \in Seq(Seq(Bit)) /\ Len(a) = k /\ \A l \in 1 .. k : a[l] = s[l]
      /\ r \in Seq(Seq(Bit))
  <2>1. IsPart(Seq(Bit), a, s, 0, k) /\ IsPart(Seq(Bit), r, s, c, Len(s))
    BY <1>3, <1>4, PartIs
  <2>2. \A l \in 1 .. k : 0 + l = l
    OBVIOUS
  <2>3. k - 0 = k
    OBVIOUS
  <2>4. QED
    BY <2>1, <2>2, <2>3 DEF IsPart
<1>7. e = <<s[c]>>
  <2>1. IsPart(Seq(Bit), e, s, k, c)
    BY <1>3, <1>4, PartIs
  <2>2. c - k = 1
    BY <1>2
  <2>3. e \in Seq(Seq(Bit)) /\ Len(e) = 1 /\ e[1] = s[c]
    BY <1>2, <2>1, <2>2 DEF IsPart
  <2>4. QED
    BY <1>1, <2>3
<1>8. PICK x, y, z : x = FlattenSeq(a) /\ y = s[c] /\ z = FlattenSeq(r)
  OBVIOUS
<1>9. x \in Seq(Bit) /\ y \in Seq(Bit) /\ z \in Seq(Bit)
  BY <1>1, <1>6, <1>8, FlattenIs
<1>10. FlattenSeq(s) = x \o (y \o z)
  <2>1. e \in Seq(Seq(Bit))
    BY <1>1, <1>7
  <2>2. b \in Seq(Seq(Bit))
    BY <1>5, <1>6, <2>1, ConcatProperties
  <2>3. FlattenSeq(s) = x \o FlattenSeq(b)
    BY <1>5, <1>6, <1>8, <2>2, FlattenConcat
  <2>4. FlattenSeq(b) = FlattenSeq(e) \o z
    BY <1>5, <1>6, <1>8, <2>1, FlattenConcat
  <2>5. FlattenSeq(e) = y
    BY <1>7, <1>8, <1>9, FlattenOne
  <2>6. QED
    BY <2>3, <2>4, <2>5
<1>11. Len(x) = w * k /\ Len(y) = w
  <2>1. Pieces(a, w)
    <3>1. \A l \in 1 .. k : l \in 1 .. Len(s)
      BY <1>1, <1>2
    <3>2. QED
      BY <1>6, <3>1 DEF Pieces
  <2>2. QED
    BY <1>1, <1>6, <1>8, <2>1, FlattenPieces
<1>12. w * (c - 1) = Len(x) /\ w * c = Len(x) + Len(y)
  <2>1. w * (k + 1) = w * k + w
    OBVIOUS
  <2>2. QED
    BY <1>2, <1>11, <2>1
<1>13. QED
  BY <1>8, <1>9, <1>10, <1>12, PartOfJoin DEF Piece

(* Bits are their pieces laid end to end. *)
LEMMA OfPieces ==
  ASSUME NEW w \in Nat, NEW b \in Seq(Bit), NEW m \in Nat, w * m <= Len(b)
  PROVE  FlattenSeq([c \in 1 .. m |-> Piece(b, w, c)]) = Part(b, 0, w * m)
<1> DEFINE Cut(k) == [c \in 1 .. k |-> Piece(b, w, c)]
           Right(k) == FlattenSeq(Cut(k)) = Part(b, 0, w * k)
           Wrong == {k \in Nat : k <= m /\ ~Right(k)}
<1>1. ASSUME NEW k \in Nat, k <= m
      PROVE  /\ w * k \in Nat /\ Within(Bit, b, 0, w * k)
             /\ \A c \in 1 .. k : Piece(b, w, c) \in Seq(Bit)
  <2>1. \A i \in Nat : i <= m => w * i \in Nat /\ w * i <= w * m
    <3>1. ASSUME NEW i \in Nat, i <= m
          PROVE  w * i \in Nat /\ w * i <= w * m
      <4>1. PICK j \in Nat : m = i + j
        <5>1. m - i \in Nat /\ m = i + (m - i)
          BY <3>1
        <5>2. QED
          BY <5>1
      <4>2. w * m = w * i + w * j /\ w * j \in Nat /\ w * i \in Nat
        BY <4>1
      <4>3. QED
        BY <4>2
    <3>2. QED
      BY <3>1
  <2>2. Len(b) \in Nat /\ w * m \in Nat
    OBVIOUS
  <2>3. w * k \in Nat /\ w * k <= Len(b)
    BY <1>1, <2>1, <2>2
  <2>4. ASSUME NEW c \in 1 .. k
        PROVE  Piece(b, w, c) \in Seq(Bit)
    <3>1. PICK i \in Nat, j \in Nat : i = w * (c - 1) /\ j = w * c /\ i <= j /\ j <= Len(b)
      <4>1. PICK d \in Nat : d = c - 1 /\ c = d + 1 /\ c \in Nat /\ d <= m /\ c <= m
        BY <1>1
      <4>2. w * c = w * d + w
        BY <4>1
      <4>3. w * d \in Nat /\ w * c \in Nat /\ w * c <= w * m
        BY <2>1, <4>1
      <4>4. QED
        BY <2>2, <4>1, <4>2, <4>3
    <3>2. Within(Bit, b, i, j)
      BY <3>1 DEF Within
    <3>3. IsPart(Bit, Part(b, i, j), b, i, j)
      BY <3>2, PartIs
    <3>4. QED
      BY <3>1, <3>3 DEF IsPart, Piece
  <2>5. QED
    BY <2>3, <2>4 DEF Within
<1>2. Wrong = {}
  <2>1. SUFFICES ASSUME Wrong # {} PROVE FALSE
    OBVIOUS
  <2>2. PICK k \in Wrong : \A j \in Wrong : k <= j
    <3>1. Wrong \subseteq Nat
      OBVIOUS
    <3>2. QED
      BY <2>1, <3>1, Least
  <2>3. k \in Nat /\ k <= m /\ ~Right(k)
    BY <2>2
  <2>4. k # 0
    <3>1. SUFFICES ASSUME k = 0 PROVE FALSE
      OBVIOUS
    <3>2. Cut(0) = << >> /\ w * 0 = 0
      OBVIOUS
    <3>3. Part(b, 0, 0) = << >>
      BY SubSeqEmpty DEF Part
    <3>4. QED
      BY <2>3, <3>1, <3>2, <3>3, FlattenNone
  <2>5. PICK j \in Nat : k = j + 1
    <3>1. k - 1 \in Nat /\ k = (k - 1) + 1
      BY <2>3, <2>4
    <3>2. QED
      BY <3>1
  <2>6. Right(j)
    <3>1. ~ (k <= j) /\ j <= m
      BY <2>3, <2>5
    <3>2. j \notin Wrong
      BY <2>2, <3>1
    <3>3. QED
      BY <3>1, <3>2
  <2>7. PICK e : e = Piece(b, w, k)
    OBVIOUS
  <2>8. e \in Seq(Bit) /\ \A c \in 1 .. j : Piece(b, w, c) \in Seq(Bit)
    <3>1. k \in 1 .. k /\ \A c \in 1 .. j : c \in 1 .. k
      BY <2>5
    <3>2. QED
      BY <1>1, <2>3, <2>7, <3>1
  <2>9. Cut(j) \in Seq(Seq(Bit)) /\ Len(Cut(j)) = j
    BY <2>8
  <2>10. Cut(k) = Append(Cut(j), e)
    <3>1. PICK s : s = Cut(j)
      OBVIOUS
    <3>2. s \in Seq(Seq(Bit)) /\ Len(s) = j /\ \A c \in 1 .. j : s[c] = Piece(b, w, c)
      BY <2>9, <3>1
    <3>3. PICK t : t = Append(s, e)
      OBVIOUS
    <3>4. t \in Seq(Seq(Bit)) /\ Len(t) = j + 1 /\ (\A c \in 1 .. j : t[c] = s[c]) /\ t[j + 1] = e
      BY <2>8, <3>2, <3>3, AppendProperties
    <3>5. \A c \in 1 .. k : t[c] = Piece(b, w, c)
      <4>1. \A c \in 1 .. k : c \in 1 .. j \/ c = j + 1
        BY <2>5
      <4>2. QED
        BY <2>5, <2>7, <3>2, <3>4, <4>1
    <3>6. DOMAIN t = 1 .. k /\ t = [c \in DOMAIN t |-> t[c]]
      BY <2>5, <3>4
    <3>7. t = Cut(k)
      BY <3>5, <3>6
    <3>8. QED
      BY <3>1, <3>3, <3>7
  <2>11. FlattenSeq(Cut(k)) = FlattenSeq(Cut(j)) \o e
    <3>1. PICK s : s = Cut(j)
      OBVIOUS
    <3>2. s \in Seq(Seq(Bit))
      BY <2>9, <3>1
    <3>3. FlattenSeq(Append(s, e)) = FlattenSeq(s) \o e
      BY <2>8, <3>2, FlattenAppend
    <3>4. QED
      BY <2>10, <3>1, <3>3
  <2>12. e = Part(b, w * j, w * k)
    <3>1. k - 1 = j
      BY <2>5
    <3>2. QED
      BY <2>7, <3>1 DEF Piece
  <2>13. PICK x \in Nat, y \in Nat : x = w * j /\ y = w * k
    BY <2>3
  <2>14. Within(Bit, b, 0, x) /\ Within(Bit, b, x, y)
    <3>1. j <= m
      BY <2>3, <2>5
    <3>2. Within(Bit, b, 0, x) /\ Within(Bit, b, 0, y)
      BY <1>1, <2>3, <2>13, <3>1
    <3>3. y = x + w
      BY <2>5, <2>13
    <3>4. QED
      BY <3>2, <3>3 DEF Within
  <2>15. Part(b, 0, x) \o Part(b, x, y) = Part(b, 0, y)
    BY <2>14, PartsJoin
  <2>16. QED
    BY <2>3, <2>6, <2>11, <2>12, <2>13, <2>15
<1>3. Right(m)
  <2>1. m \in Nat /\ m <= m
    OBVIOUS
  <2>2. QED
    BY ONLY <1>2, <2>1
<1>4. QED
  BY ONLY <1>3

(* The numbers r in w bits each, end to end, up to the end of a byte.       *)
Laid(r, w) == [c \in 1 .. n |-> Binary(r[c], w)]

Numbers(w) == [1 .. n -> 0 .. 2^w - 1]

LEMMA LaidIs ==
  ASSUME NEW w \in Nat, NEW r \in Numbers(w)
  PROVE  /\ Pieces(Laid(r, w), w) /\ Len(Laid(r, w)) = n
         /\ FlattenSeq(Laid(r, w)) \in Seq(Bit)
         /\ Len(FlattenSeq(Laid(r, w))) = w * n
<1>1. n \in Nat
  BY Sizes
<1>2. ASSUME NEW c \in 1 .. n
      PROVE  Binary(r[c], w) \in Seq(Bit) /\ Len(Binary(r[c], w)) = w
  <2>1. r[c] \in Nat
    <3>1. 2^w \in Nat
      BY PowerIs
    <3>2. QED
      BY <3>1 DEF Numbers
  <2>2. QED
    BY <2>1, BinaryIs
<1>3. PICK s : s = Laid(r, w)
  OBVIOUS
<1>4. s \in Seq(Seq(Bit)) /\ Len(s) = n /\ \A c \in 1 .. n : s[c] = Binary(r[c], w)
  BY <1>1, <1>2, <1>3 DEF Laid
<1>5. Pieces(s, w)
  BY <1>2, <1>4 DEF Pieces
<1>6. FlattenSeq(s) \in Seq(Bit) /\ Len(FlattenSeq(s)) = w * n
  BY <1>4, <1>5, FlattenIs, FlattenPieces
<1>7. QED
  BY <1>3, <1>4, <1>5, <1>6

(* What is read of the bits b: the numbers, and zeros after them.            *)
LaidAs(b, r, w) ==
  /\ \A c \in 1 .. n : Number(Piece(b, w, c)) = r[c]
  /\ \A i \in w * n + 1 .. Len(b) : b[i] = 0

LEMMA LaidReads ==
  ASSUME NEW w \in Nat, NEW r \in Numbers(w)
  PROVE  LaidAs(ToBytes(FlattenSeq(Laid(r, w))), r, w)
<1>1. PICK s, f : s = Laid(r, w) /\ f = FlattenSeq(s)
  OBVIOUS
<1>2. Pieces(s, w) /\ Len(s) = n /\ f \in Seq(Bit) /\ Len(f) = w * n
  BY <1>1, LaidIs
<1>3. PICK b : b = ToBytes(f)
  OBVIOUS
<1>4. PICK z \in Nat : z = Len(b) - Len(f) /\ b = f \o Zeros(z)
  <2>1. Len(b) - Len(f) \in 0 .. BYTE - 1 /\ b = f \o Zeros(Len(b) - Len(f))
    BY <1>2, <1>3, ToBytesIs
  <2>2. BYTE \in Nat
    BY Sizes
  <2>3. Len(b) - Len(f) \in Nat
    BY <2>1, <2>2
  <2>4. QED
    BY <2>1, <2>3
<1>5. PICK t : t = Zeros(z)
  OBVIOUS
<1>6. t \in Seq(Bit) /\ Len(t) = z /\ \A i \in 1 .. z : t[i] = 0
  BY <1>5, ZerosAre
<1>7. PICK l \in Nat : l = w * n /\ l = Len(f)
  BY <1>2, Sizes
<1>8. /\ b \in Seq(Bit) /\ Len(b) = l + z
      /\ \A i \in 1 .. l + z : b[i] = IF i <= l THEN f[i] ELSE t[i - l]
  <2>1. Concatenated(Bit, b, f, t)
    BY <1>2, <1>4, <1>5, <1>6, Concatenate
  <2>2. QED
    BY <1>6, <1>7, <2>1 DEF Concatenated
<1>9. ASSUME NEW c \in 1 .. n
      PROVE  Number(Piece(b, w, c)) = r[c]
  <2>1. Piece(f, w, c) = s[c]
    BY <1>1, <1>2, PieceOf
  <2>2. s[c] = Binary(r[c], w)
    BY <1>1 DEF Laid
  <2>3. r[c] \in 0 .. 2^w - 1
    BY DEF Numbers
  <2>4. Number(s[c]) = r[c]
    BY <2>2, <2>3, NumberOfBinary
  <2>5. Piece(b, w, c) = Piece(f, w, c)
    <3>1. PICK d \in Nat : c = d + 1 /\ d + 1 <= n /\ c - 1 = d
      <4>1. n \in Nat /\ c - 1 \in Nat /\ c = (c - 1) + 1 /\ c <= n
        BY Sizes
      <4>2. QED
        BY <4>1
    <3>2. PICK i \in Nat, j \in Nat : i = w * d /\ j = w * c /\ j = i + w
      BY <3>1
    <3>3. j <= l
      <4>1. PICK e \in Nat : n = c + e
        <5>1. n - c \in Nat /\ n = c + (n - c)
          BY <3>1, Sizes
        <5>2. QED
          BY <5>1
      <4>2. w * n = w * c + w * e /\ w * e \in Nat
        BY <3>1, <4>1
      <4>3. PICK o \in Nat : o = w * e /\ l = j + o
        BY <1>7, <3>2, <4>2
      <4>4. QED
        BY ONLY <4>3, l \in Nat, j \in Nat, o \in Nat
    <3>4. Within(Bit, f, i, j) /\ Within(Bit, b, i, j)
      <4>1. j = i + w
        BY <3>2
      <4>2. l = Len(f) /\ Len(b) = l + z
        BY <1>7, <1>8
      <4>3. i <= j /\ j <= Len(f) /\ j <= Len(b)
        BY ONLY <3>3, <4>1, <4>2, i \in Nat, w \in Nat, l \in Nat, z \in Nat
      <4>4. QED
        BY <1>2, <1>8, <4>3 DEF Within
    <3>5. PICK x, y : x = Part(b, i, j) /\ y = Part(f, i, j)
      OBVIOUS
    <3>6. IsPart(Bit, x, b, i, j) /\ IsPart(Bit, y, f, i, j)
      BY <3>4, <3>5, PartIs
    <3>7. /\ x \in Seq(Bit) /\ y \in Seq(Bit) /\ Len(x) = w /\ Len(y) = w
          /\ \A p \in 1 .. w : x[p] = b[i + p] /\ y[p] = f[i + p]
      <4>1. j - i = w
        BY <3>2
      <4>2. QED
        BY <3>6, <4>1 DEF IsPart
    <3>8. \A p \in 1 .. w : b[i + p] = f[i + p]
      <4>1. \A p \in 1 .. w : i + p \in 1 .. l + z /\ i + p <= l
        BY <3>2, <3>3
      <4>2. QED
        BY <1>8, <4>1
    <3>9. x = y
      BY <3>7, <3>8, Equal
    <3>10. QED
      BY <3>1, <3>2, <3>5, <3>9 DEF Piece
  <2>6. QED
    BY <2>1, <2>4, <2>5
<1>10. ASSUME NEW i \in w * n + 1 .. Len(b)
       PROVE  b[i] = 0
  <2>1. i \in 1 .. l + z /\ ~ (i <= l) /\ i - l \in 1 .. z
    BY <1>7, <1>8
  <2>2. QED
    BY <1>6, <1>8, <2>1
<1>11. QED
  BY <1>1, <1>3, <1>9, <1>10 DEF LaidAs

LEMMA ReadsLaid ==
  ASSUME NEW w \in Nat, NEW r \in Numbers(w), NEW b \in Seq(Bit), NEW m \in Nat,
         NEW z \in 0 .. BYTE - 1, Len(b) = BYTE * m, BYTE * m = w * n + z, LaidAs(b, r, w)
  PROVE  b = ToBytes(FlattenSeq(Laid(r, w)))
<1>1. PICK l \in Nat, k \in Nat : l = w * n /\ k = BYTE * m
  BY Sizes
<1>2. BYTE \in Nat \ {0} /\ z \in Nat /\ n \in Nat /\ k = l + z /\ Len(b) = k
  BY <1>1, Sizes
<1>3. PICK f, t : f = Part(b, 0, l) /\ t = Part(b, l, k)
  OBVIOUS
<1>4. Within(Bit, b, 0, l) /\ Within(Bit, b, l, k)
  BY <1>2 DEF Within
<1>5. f \o t = b
  <2>1. Part(b, 0, l) \o Part(b, l, k) = Part(b, 0, k)
    BY ONLY <1>4, PartsJoin
  <2>2. QED
    BY <1>2, <1>3, <2>1, PartWhole
<1>6. f \in Seq(Bit) /\ Len(f) = l
  <2>1. IsPart(Bit, f, b, 0, l)
    BY <1>3, <1>4, PartIs
  <2>2. QED
    BY <2>1 DEF IsPart
<1>7. t = Zeros(z)
  <2>1. IsPart(Bit, t, b, l, k)
    BY <1>3, <1>4, PartIs
  <2>2. k - l = z
    BY <1>2
  <2>3. t \in Seq(Bit) /\ Len(t) = z /\ \A i \in 1 .. z : t[i] = b[l + i]
    BY <2>1, <2>2 DEF IsPart
  <2>4. \A i \in 1 .. z : b[l + i] = 0
    <3>1. \A i \in 1 .. z : l + i \in l + 1 .. Len(b)
      BY <1>2
    <3>2. QED
      BY <1>1, <3>1 DEF LaidAs
  <2>5. \A i \in DOMAIN t : t[i] = 0
    BY <1>2, <2>3, <2>4
  <2>6. QED
    BY <2>3, <2>5, AllZero
<1>8. f = FlattenSeq(Laid(r, w))
  <2>1. FlattenSeq([c \in 1 .. n |-> Piece(b, w, c)]) = Part(b, 0, w * n)
    <3>1. w * n <= Len(b)
      BY <1>1, <1>2
    <3>2. QED
      BY <1>2, <3>1, OfPieces
  <2>2. ASSUME NEW c \in 1 .. n
        PROVE  Piece(b, w, c) = Binary(r[c], w)
    <3>1. PICK d \in Nat : c = d + 1 /\ c - 1 = d /\ c <= n
      <4>1. c - 1 \in Nat /\ c = (c - 1) + 1 /\ c <= n
        BY <1>2
      <4>2. QED
        BY <4>1
    <3>2. PICK i \in Nat, j \in Nat : i = w * d /\ j = w * c /\ j = i + w
      BY <3>1
    <3>3. j <= l
      <4>1. PICK e \in Nat : n = c + e
        <5>1. n - c \in Nat /\ n = c + (n - c)
          BY <1>2, <3>1
        <5>2. QED
          BY <5>1
      <4>2. w * n = w * c + w * e /\ w * e \in Nat
        BY <3>1, <4>1
      <4>3. PICK o \in Nat : o = w * e /\ l = j + o
        BY <1>1, <3>2, <4>2
      <4>4. QED
        BY ONLY <4>3, l \in Nat, j \in Nat, o \in Nat
    <3>4. i <= j /\ j <= Len(b) /\ j - i = w
      <4>1. j = i + w
        BY <3>2
      <4>2. QED
        BY ONLY <1>2, <3>3, <4>1, i \in Nat, j \in Nat, w \in Nat, l \in Nat
    <3>5. Within(Bit, b, i, j)
      BY <3>4 DEF Within
    <3>6. PICK x : x = Piece(b, w, c)
      OBVIOUS
    <3>7. x \in Seq(Bit) /\ Len(x) = w
      <4>1. x = Part(b, i, j)
        BY <3>1, <3>2, <3>6 DEF Piece
      <4>2. IsPart(Bit, x, b, i, j)
        BY <3>5, <4>1, PartIs
      <4>3. QED
        BY <3>4, <4>2 DEF IsPart
    <3>8. Number(x) = r[c]
      BY <3>6 DEF LaidAs
    <3>9. Binary(Number(x), Len(x)) = x
      BY <3>7, BinaryOfNumber
    <3>10. QED
      BY <3>6, <3>7, <3>8, <3>9
  <2>3. [c \in 1 .. n |-> Piece(b, w, c)] = Laid(r, w)
    BY <2>2 DEF Laid
  <2>4. QED
    BY <1>1, <1>3, <2>1, <2>3
<1>9. ToBytes(f) = f \o Zeros(z)
  <2>1. Len(f) + z = BYTE * m
    BY ONLY <1>1, <1>2, <1>6
  <2>2. f \in Seq(Bit) /\ z \in 0 .. BYTE - 1 /\ m \in Int
    BY <1>6
  <2>3. QED
    BY ONLY <2>1, <2>2, Padded
<1>10. QED
  BY <1>5, <1>7, <1>8, <1>9

LEMMA SameOfF ==
  /\ F!BYTE = BYTE /\ F!Bit = Bit /\ F!Byte = Byte
  /\ \A c : F!Abs(c) = Abs(c)
  /\ \A k, w : F!Binary(k, w) = Binary(k, w)
  /\ \A b : F!ToBytes(b) = ToBytes(b) /\ F!Number(b) = Number(b)
  /\ \A s : F!FlattenSeq(s) = FlattenSeq(s)
BY Zenon DEF F!BYTE, F!Bit, F!Byte, F!Abs, F!Binary, F!Zeros, F!ToBytes, F!Number,
             F!FlattenSeq, BYTE, Bit, Byte, Abs, Binary, Zeros, ToBytes, Number, FlattenSeq

(* The bits w of a coefficient, and half of the numbers they hold.          *)
WidthOf(k, w, p) ==
  /\ w = width[k] /\ 2^(w - 1) = p /\ 2^w = 2 * p
  /\ k = "modq" => q <= 2 * p
  /\ k \in {"modq16", "comp16"} => q <= p
  /\ k # "trim" => BYTE <= w

LEMMA WidthIs ==
  ASSUME NEW k \in F!Kind
  PROVE  \E w \in Nat \ {0}, p \in Nat \ {0} : WidthOf(k, w, p)
<1>1. k \in {"modq", "trim", "modq16", "comp16"}
  BY DEF F!Kind
<1>2. LOW \in Nat \ {0} /\ BYTE = LOW + 1
  BY Sizes DEF BYTE
<1>3. /\ modq_bits \in Nat \ {0} /\ word_bits \in Nat \ {0} /\ trim_bits \in Nat \ {0}
      /\ BYTE <= modq_bits /\ BYTE <= word_bits
  BY <1>2, WidthAssumption
<1>4. PICK w \in Nat \ {0} : w = width[k]
  BY <1>1, <1>3 DEF width
<1>5. PICK v \in Nat : v = w - 1 /\ w = v + 1
  BY <1>4
<1>6. PICK p \in Nat \ {0} : p = 2^v
  BY <1>5, PowerIs
<1>7. 2^(w - 1) = p /\ 2^w = 2 * p
  BY <1>5, <1>6, PowerNext
<1>8. k = "modq" => q <= 2 * p
  <2>1. SUFFICES ASSUME k = "modq" PROVE q <= 2 * p
    OBVIOUS
  <2>2. w = modq_bits
    BY <1>4, <2>1 DEF width
  <2>3. q <= 2^modq_bits
    BY WidthAssumption
  <2>4. QED
    BY <1>7, <2>2, <2>3
<1>9. k \in {"modq16", "comp16"} => q <= p
  <2>1. SUFFICES ASSUME k \in {"modq16", "comp16"} PROVE q <= p
    OBVIOUS
  <2>2. w = word_bits
    BY <1>4, <2>1 DEF width
  <2>3. q <= 2^(word_bits - 1)
    BY WidthAssumption
  <2>4. QED
    BY <1>7, <2>2, <2>3
<1>10. k # "trim" => BYTE <= w
  BY <1>1, <1>3, <1>4 DEF width
<1>11. QED
  BY <1>4, <1>7, <1>8, <1>9, <1>10 DEF WidthOf

LEMMA QIs == q \in Nat /\ positive \in Nat /\ 2 * positive <= q + 1
BY CodecAssumption, WidthAssumption

(* A coefficient in range fits into its bits, and is not refused.           *)
LEMMA RawIs ==
  ASSUME NEW k \in F!Kind, NEW c \in Int, F!InRange(k, c)
  PROVE  /\ F!Raw(k, c) \in 0 .. 2^width[k] - 1
         /\ ~ F!Refused(k, F!Raw(k, c))
         /\ c \in F!Expected(k) \/ k # "comp16" => F!Value(k, F!Raw(k, c)) = c
<1>1. PICK w \in Nat \ {0}, p \in Nat \ {0} : WidthOf(k, w, p)
  BY WidthIs
<1>2. w = width[k] /\ 2^(w - 1) = p /\ 2^w = 2 * p
  BY <1>1 DEF WidthOf
<1>3. PICK r : r = F!Raw(k, c)
  OBVIOUS
<1>4. CASE k \in {"modq", "modq16"}
  <2>1. c \in 0 .. q - 1 /\ r = c /\ F!Refused(k, r) = (r >= q) /\ F!Value(k, r) = r
    BY <1>3, <1>4 DEF F!InRange, F!Raw, F!Refused, F!Value
  <2>2. q <= 2 * p
    BY <1>1, <1>4, QIs DEF WidthOf
  <2>3. r \in 0 .. 2 * p - 1 /\ ~ (r >= q)
    BY <2>1, <2>2, QIs
  <2>4. QED
    BY <1>2, <1>3, <1>4, <2>1, <2>3
<1>5. CASE k = "trim"
  <2>1. -p < c /\ c < p
    <3>1. Abs(c) < p
      BY <1>2, <1>5, SameOfF DEF F!InRange
    <3>2. QED
      BY <3>1 DEF Abs
  <2>2. r = c % (2 * p)
    BY <1>2, <1>3, <1>5 DEF F!Raw
  <2>3. r = IF c < 0 THEN c + 2 * p ELSE c
    <3>1. PICK b \in Nat \ {0} : b = 2 * p
      OBVIOUS
    <3>2. CASE c < 0
      <4>1. PICK d \in 0 .. b - 1 : d = c + b
        BY <2>1, <3>1, <3>2
      <4>2. c = b * (-1) + d /\ -1 \in Int
        BY <4>1
      <4>3. (b * (-1) + d) % b = d
        BY ONLY <4>1, <4>2, OneQuotient, b \in Nat \ {0}, d \in 0 .. b - 1
      <4>4. QED
        BY <2>2, <3>1, <3>2, <4>1, <4>2, <4>3
    <3>3. CASE ~ (c < 0)
      <4>1. c \in 0 .. b - 1 /\ c = b * 0 + c
        BY <2>1, <3>1, <3>3
      <4>2. (b * 0 + c) % b = c
        BY ONLY <4>1, OneQuotient, b \in Nat \ {0}
      <4>3. QED
        BY <2>2, <3>1, <3>3, <4>1, <4>2
    <3>4. QED
      BY <3>2, <3>3
  <2>4. r \in 0 .. 2 * p - 1 /\ r # p
    BY <2>1, <2>3
  <2>5. F!Refused(k, r) = (r = p) /\ F!Value(k, r) = IF r >= p THEN r - 2 * p ELSE r
    BY <1>2, <1>5 DEF F!Refused, F!Value, F!Signed
  <2>6. F!Value(k, r) = c
    BY <2>1, <2>3, <2>5
  <2>7. QED
    BY <1>2, <1>3, <2>4, <2>5, <2>6
<1>6. CASE k = "comp16"
  <2>1. -q < c /\ c < q
    <3>1. Abs(c) < q
      BY <1>6, SameOfF DEF F!InRange
    <3>2. QED
      BY <3>1, QIs DEF Abs
  <2>2. r = IF c < 0 THEN c + q ELSE c
    BY <1>3, <1>6 DEF F!Raw
  <2>3. q <= p
    BY <1>1, <1>6 DEF WidthOf
  <2>4. r \in 0 .. 2 * p - 1 /\ ~ (r >= p) /\ r < q
    BY <2>1, <2>2, <2>3, QIs
  <2>5. F!Signed(k, r) = r
    BY <1>2, <2>4 DEF F!Signed
  <2>6. /\ F!Refused(k, r) = (r >= q)
        /\ F!Value(k, r) = IF r >= positive THEN r - q ELSE r
    BY <1>6, <2>5 DEF F!Refused, F!Value
  <2>7. c \in F!Expected(k) => F!Value(k, r) = c
    <3>1. SUFFICES ASSUME c \in F!Expected(k) PROVE F!Value(k, r) = c
      OBVIOUS
    <3>2. c \in -(positive - 1) .. positive - 1
      BY <1>6, <3>1 DEF F!Expected
    <3>3. QED
      BY <2>2, <2>6, <3>2, QIs
  <2>8. ~ (r >= q)
    BY <2>4, QIs
  <2>9. QED
    BY <1>2, <1>3, <1>6, <2>4, <2>6, <2>7, <2>8
<1>7. QED
  BY <1>4, <1>5, <1>6 DEF F!Kind

(* What is taken from the bits of a key goes back into the same bits.       *)
LEMMA ValueIs ==
  ASSUME NEW k \in F!Kind, NEW r \in 0 .. 2^width[k] - 1, ~ F!Refused(k, r)
  PROVE  /\ F!Value(k, r) \in Int
         /\ k # "comp16" => /\ F!InRange(k, F!Value(k, r))
                            /\ F!Raw(k, F!Value(k, r)) = r
<1>1. PICK w \in Nat \ {0}, p \in Nat \ {0} : WidthOf(k, w, p)
  BY WidthIs
<1>2. w = width[k] /\ 2^(w - 1) = p /\ 2^w = 2 * p /\ r \in 0 .. 2 * p - 1
  BY <1>1 DEF WidthOf
<1>3. PICK c : c = F!Value(k, r)
  OBVIOUS
<1>4. CASE k \in {"modq", "modq16"}
  <2>1. c = r /\ F!Raw(k, r) = r
    BY <1>3, <1>4 DEF F!Raw, F!Value
  <2>2. ~ (r >= q)
    BY <1>4 DEF F!Refused
  <2>3. r \in 0 .. q - 1
    BY <1>2, <2>2, QIs
  <2>4. F!InRange(k, r)
    BY <1>4, <2>3 DEF F!InRange
  <2>5. r \in Int
    BY <2>3
  <2>6. QED
    BY <1>3, <2>1, <2>4, <2>5
<1>5. CASE k = "trim"
  <2>1. r # p /\ c = IF r >= p THEN r - 2 * p ELSE r
    BY <1>2, <1>3, <1>5 DEF F!Refused, F!Value, F!Signed
  <2>2. c \in Int /\ -p < c /\ c < p
    BY <1>2, <2>1
  <2>3. F!InRange(k, c)
    <3>1. Abs(c) < p
      BY <2>2 DEF Abs
    <3>2. QED
      BY <1>2, <1>5, <3>1, SameOfF DEF F!InRange
  <2>4. F!Raw(k, c) = c % (2 * p)
    BY <1>2, <1>5 DEF F!Raw
  <2>5. PICK b \in Nat \ {0} : b = 2 * p
    OBVIOUS
  <2>6. PICK d \in Int : c = b * d + r
    <3>1. c = b * 0 + r \/ c = b * (-1) + r
      BY <1>2, <2>1, <2>5
    <3>2. QED
      BY <3>1
  <2>7. r \in 0 .. b - 1
    BY <1>2, <2>5
  <2>8. (b * d + r) % b = r
    BY ONLY <2>7, OneQuotient, b \in Nat \ {0}, d \in Int
  <2>9. QED
    BY <1>3, <2>2, <2>3, <2>4, <2>5, <2>6, <2>8
<1>6. CASE k = "comp16"
  <2>1. F!Signed(k, r) \in Int
    BY <1>2 DEF F!Signed
  <2>2. c \in Int
    BY <1>3, <1>6, <2>1, QIs DEF F!Value
  <2>3. QED
    BY <1>3, <1>6, <2>2
<1>7. QED
  BY <1>4, <1>5, <1>6 DEF F!Kind

(* As many bytes as it takes.                                               *)
LengthOf(m, w) == m \in Nat /\ \E z \in 0 .. BYTE - 1 : BYTE * m = w * n + z

LEMMA ByteLengthIs ==
  ASSUME NEW k \in F!Kind
  PROVE  LengthOf(F!ByteLength(k), width[k])
<1>1. PICK w \in Nat : w = width[k]
  BY WidthIs DEF WidthOf
<1>2. PICK l \in Nat : l = w * n
  BY Sizes
<1>3. n * w = l
  BY <1>2, Sizes
<1>4. PICK b \in Nat \ {0} : b = BYTE
  BY Sizes
<1>5. PICK a \in Nat : a = l + b - 1
  BY <1>4
<1>6. PICK d \in Int, r \in 0 .. b - 1 : d = a \div b /\ a = b * d + r
  <2>1. a \div b \in Int /\ a % b \in 0 .. b - 1 /\ a = b * (a \div b) + (a % b)
    OBVIOUS
  <2>2. QED
    BY <2>1
<1>7. d >= 0
  <2>1. SUFFICES ASSUME d < 0 PROVE FALSE
    BY <1>6
  <2>2. PICK e \in Nat : d = -(e + 1)
    <3>1. -d - 1 \in Nat /\ d = -((-d - 1) + 1)
      BY <1>6, <2>1
    <3>2. QED
      BY <3>1
  <2>3. b * d = -(b * e) - b /\ b * e \in Nat
    BY <2>2
  <2>4. PICK x \in Nat : x = b * e
    BY <2>3
  <2>5. a = r - x - b
    BY <1>6, <2>3, <2>4
  <2>6. QED
    BY ONLY <2>5, a \in Nat, x \in Nat, b \in Nat, r \in 0 .. b - 1
<1>8. F!ByteLength(k) = d
  <2>1. F!ByteLength(k) = (n * width[k] + BYTE - 1) \div BYTE
    BY SameOfF, Zenon DEF F!ByteLength
  <2>2. QED
    BY <1>1, <1>3, <1>4, <1>5, <1>6, <2>1
<1>9. b * d = l + (b - 1 - r) /\ b - 1 - r \in 0 .. b - 1
  BY <1>5, <1>6
<1>10. QED
  BY <1>1, <1>2, <1>4, <1>7, <1>8, <1>9 DEF LengthOf

LEMMA OneLength ==
  ASSUME NEW w \in Nat, NEW i, NEW j, LengthOf(i, w), LengthOf(j, w)
  PROVE  i = j
<1>1. PICK l \in Nat : l = w * n
  BY Sizes
<1>2. PICK b \in Nat \ {0} : b = BYTE
  BY Sizes
<1>3. i \in Nat /\ j \in Nat
  BY DEF LengthOf
<1>4. PICK x \in 0 .. b - 1, y \in 0 .. b - 1 : b * i = l + x /\ b * j = l + y
  BY <1>1, <1>2 DEF LengthOf
<1>5. \A g \in Nat, h \in Nat : g < h => b * g + b <= b * h
  <2>1. ASSUME NEW g \in Nat, NEW h \in Nat, g < h
        PROVE  b * g + b <= b * h
    <3>1. PICK e \in Nat : h = g + 1 + e
      <4>1. h - g - 1 \in Nat /\ h = g + 1 + (h - g - 1)
        BY <2>1
      <4>2. QED
        BY <4>1
    <3>2. b * h = b * g + b + b * e /\ b * e \in Nat /\ b * g \in Nat
      BY <3>1
    <3>3. QED
      BY <3>2
  <2>2. QED
    BY <2>1
<1>6. PICK c \in Nat, d \in Nat : c = b * i /\ d = b * j
  BY <1>3
<1>7. ~ (i < j)
  <2>1. SUFFICES ASSUME i < j PROVE FALSE
    OBVIOUS
  <2>2. c + b <= d
    BY <1>3, <1>5, <1>6, <2>1
  <2>3. c = l + x /\ d = l + y
    BY <1>4, <1>6
  <2>4. QED
    BY ONLY <2>2, <2>3, l \in Nat, b \in Nat, x \in 0 .. b - 1, y \in 0 .. b - 1
<1>8. ~ (j < i)
  <2>1. SUFFICES ASSUME j < i PROVE FALSE
    OBVIOUS
  <2>2. d + b <= c
    BY <1>3, <1>5, <1>6, <2>1
  <2>3. c = l + x /\ d = l + y
    BY <1>4, <1>6
  <2>4. QED
    BY ONLY <2>2, <2>3, l \in Nat, b \in Nat, x \in 0 .. b - 1, y \in 0 .. b - 1
<1>9. QED
  BY <1>3, <1>7, <1>8

(* The codes of coefficients, as numbers.                                   *)
Raws(k, x) == [c \in 1 .. n |-> F!Raw(k, x[c])]

AllInRange(k, x) == \A c \in 1 .. n : x[c] \in Int /\ F!InRange(k, x[c])

LEMMA PackedIs ==
  ASSUME NEW k \in F!Kind, NEW x, NEW w \in Nat, w = width[k], AllInRange(k, x)
  PROVE  /\ Raws(k, x) \in Numbers(w)
         /\ F!Packed(k, x) = ToBytes(FlattenSeq(Laid(Raws(k, x), w)))
         /\ F!Packed(k, x) \in Seq(Bit)
         /\ Len(F!Packed(k, x)) = BYTE * F!ByteLength(k)
<1>1. Raws(k, x) \in Numbers(w)
  <2>1. \A c \in 1 .. n : F!Raw(k, x[c]) \in 0 .. 2^w - 1
    BY RawIs DEF AllInRange
  <2>2. QED
    BY <2>1 DEF Raws, Numbers
<1>2. F!Packed(k, x) = ToBytes(FlattenSeq(Laid(Raws(k, x), w)))
  <2>1. [c \in 1 .. n |-> F!Binary(F!Raw(k, x[c]), width[k])] = Laid(Raws(k, x), w)
    BY SameOfF DEF Laid, Raws
  <2>2. PICK s : s = [c \in 1 .. n |-> F!Binary(F!Raw(k, x[c]), width[k])]
    OBVIOUS
  <2>3. F!Packed(k, x) = F!ToBytes(FlattenSeq(s))
    BY <2>2, SameOfF DEF F!Packed
  <2>4. QED
    BY <2>1, <2>2, <2>3, SameOfF
<1>3. PICK f : f = FlattenSeq(Laid(Raws(k, x), w))
  OBVIOUS
<1>4. f \in Seq(Bit) /\ Len(f) = w * n
  BY <1>1, <1>3, LaidIs
<1>5. PICK t : t = ToBytes(f)
  OBVIOUS
<1>6. t \in Seq(Bit) /\ \E m \in Nat : LengthOf(m, w) /\ Len(t) = BYTE * m
  <2>1. /\ t \in Seq(Bit) /\ Len(t) \in Nat /\ Len(t) - Len(f) \in 0 .. BYTE - 1
        /\ \E m \in Int : Len(t) = BYTE * m
    BY <1>4, <1>5, ToBytesIs
  <2>2. PICK m \in Int : Len(t) = BYTE * m
    BY <2>1
  <2>3. m \in Nat
    <3>1. SUFFICES ASSUME m < 0 PROVE FALSE
      OBVIOUS
    <3>2. PICK e \in Nat : m = -(e + 1)
      <4>1. -m - 1 \in Nat /\ m = -((-m - 1) + 1)
        BY <3>1
      <4>2. QED
        BY <4>1
    <3>3. PICK b \in Nat \ {0} : b = BYTE
      BY Sizes
    <3>4. b * m = -(b * e) - b /\ b * e \in Nat
      BY <3>2
    <3>5. QED
      BY <2>1, <2>2, <3>3, <3>4
  <2>4. PICK z \in 0 .. BYTE - 1 : z = Len(t) - Len(f)
    BY <2>1
  <2>5. BYTE * m = w * n + z
    <3>1. PICK l \in Nat : l = Len(f)
      BY <1>4
    <3>2. PICK g \in Nat : g = Len(t)
      BY <2>1
    <3>3. BYTE \in Nat
      BY Sizes
    <3>4. g = l + z
      BY ONLY <2>4, <3>1, <3>2, <3>3, l \in Nat, g \in Nat, z \in 0 .. BYTE - 1
    <3>5. QED
      BY <1>4, <2>2, <3>1, <3>2, <3>4
  <2>6. QED
    BY <2>1, <2>2, <2>3, <2>5 DEF LengthOf
<1>7. Len(t) = BYTE * F!ByteLength(k)
  <2>1. LengthOf(F!ByteLength(k), w)
    BY ByteLengthIs
  <2>2. QED
    BY <1>6, <2>1, OneLength
<1>8. QED
  BY <1>1, <1>2, <1>3, <1>5, <1>6, <1>7

(* The codes of the first d coefficients.                                   *)
Pushed(k, x, d) == [c \in 1 .. d |-> Binary(F!Raw(k, x[c]), width[k])]

LEMMA PushedIs ==
  ASSUME NEW k \in F!Kind, NEW x, AllInRange(k, x)
  PROVE  /\ Pushed(k, x, 0) = << >>
         /\ \A d \in 0 .. n : Pushed(k, x, d) \in Seq(Seq(Bit))
         /\ \A d \in 0 .. n : d < n =>
              /\ Binary(F!Raw(k, x[d + 1]), width[k]) \in Seq(Bit)
              /\ Pushed(k, x, d + 1) = Append(Pushed(k, x, d), Binary(F!Raw(k, x[d + 1]), width[k]))
         /\ ToBytes(FlattenSeq(Pushed(k, x, n))) = F!Packed(k, x)
<1>1. n \in Nat
  BY Sizes
<1>2. PICK w \in Nat \ {0} : w = width[k]
  BY WidthIs DEF WidthOf
<1>3. ASSUME NEW c \in 1 .. n
      PROVE  Binary(F!Raw(k, x[c]), w) \in Seq(Bit)
  <2>1. F!Raw(k, x[c]) \in 0 .. 2^w - 1
    BY <1>2, RawIs DEF AllInRange
  <2>2. F!Raw(k, x[c]) \in Nat
    BY <2>1, PowerIs
  <2>3. QED
    BY <2>2, BinaryIs
<1>4. ASSUME NEW d \in 0 .. n
      PROVE  Pushed(k, x, d) \in Seq(Seq(Bit)) /\ Len(Pushed(k, x, d)) = d
  <2>1. \A c \in 1 .. d : c \in 1 .. n
    BY <1>1
  <2>2. QED
    BY <1>2, <1>3, <2>1 DEF Pushed
<1>5. ASSUME NEW d \in 0 .. n, d < n
      PROVE  /\ Binary(F!Raw(k, x[d + 1]), w) \in Seq(Bit)
             /\ Pushed(k, x, d + 1) = Append(Pushed(k, x, d), Binary(F!Raw(k, x[d + 1]), w))
  <2>1. d + 1 \in 1 .. n /\ d \in Nat
    BY <1>1, <1>5
  <2>2. PICK s, e : s = Pushed(k, x, d) /\ e = Binary(F!Raw(k, x[d + 1]), w)
    OBVIOUS
  <2>3. s \in Seq(Seq(Bit)) /\ Len(s) = d /\ e \in Seq(Bit)
    BY <1>3, <1>4, <2>1, <2>2
  <2>4. PICK t : t = Append(s, e)
    OBVIOUS
  <2>5. t \in Seq(Seq(Bit)) /\ Len(t) = d + 1 /\ (\A c \in 1 .. d : t[c] = s[c]) /\ t[d + 1] = e
    BY <2>3, <2>4, AppendProperties
  <2>6. \A c \in 1 .. d : s[c] = Binary(F!Raw(k, x[c]), w)
    BY <1>2, <2>2 DEF Pushed
  <2>7. \A c \in 1 .. d + 1 : c \in 1 .. d \/ c = d + 1
    BY <2>1
  <2>8. \A c \in 1 .. d + 1 : t[c] = Binary(F!Raw(k, x[c]), w)
    BY <2>2, <2>5, <2>6, <2>7
  <2>9. DOMAIN t = 1 .. d + 1 /\ t = [c \in DOMAIN t |-> t[c]]
    BY <2>1, <2>5
  <2>10. t = Pushed(k, x, d + 1)
    BY <1>2, <2>8, <2>9 DEF Pushed
  <2>11. QED
    BY <2>2, <2>3, <2>4, <2>10
<1>6. Pushed(k, x, 0) = << >>
  BY DEF Pushed
<1>7. Pushed(k, x, n) = Laid(Raws(k, x), w)
  BY <1>2 DEF Pushed, Laid, Raws
<1>8. ToBytes(FlattenSeq(Laid(Raws(k, x), w))) = F!Packed(k, x)
  <2>1. w \in Nat /\ w = width[k]
    BY <1>2
  <2>2. QED
    BY <2>1, PackedIs
<1>9. QED
  BY <1>2, <1>4, <1>5, <1>6, <1>7, <1>8

(* Encoding: what has been written, and the accumulator, are the codes of   *)
(* the coefficients so far.                                                 *)
Laying ==
  /\ kind \in F!Kind
  /\ AllInRange(kind, xF)
  /\ done \in 0 .. n
  /\ accF \in Seq(Bit) /\ bytes \in Seq(Byte)
  /\ pcF = "push" => Len(accF) < BYTE
  /\ pcF \in {"push", "emit"} =>
       FlattenSeq(bytes) \o accF = FlattenSeq(Pushed(kind, xF, done))
  /\ pcF = "encoded" =>
       FlattenSeq(bytes) = F!Packed(kind, xF) /\ Len(bytes) = F!ByteLength(kind)

(* Decoding: the accumulator is what has been read and not been taken; what *)
(* has been taken was not refused.                                          *)
Arrived == FlattenSeq(bytes)

Word(j) == Number(Piece(Arrived, width[kind], j))

Taken == \A j \in 1 .. Len(xF) : ~ F!Refused(kind, Word(j)) /\ xF[j] = F!Value(kind, Word(j))

(* A byte is read only if it is needed.                                     *)
Needed(w, l) ==
  /\ BYTE * done < w * n + BYTE
  /\ pcF = "load" => l = n \/ BYTE * done < w * l + w
  /\ pcF = "take" /\ kind # "trim" => l < n /\ BYTE * done < w * l + w + BYTE

Refusal ==
  \/ Len(xF) < n /\ F!Refused(kind, Word(Len(xF) + 1))
  \/ Len(xF) = n /\ done = Len(bytes) /\ \E b \in DOMAIN accF : accF[b] # 0

Counted ==
  /\ kind \in F!Kind
  /\ bytes \in Seq(Byte) /\ Len(bytes) = F!ByteLength(kind)
  /\ done \in 0 .. Len(bytes)
  /\ xF \in Seq(Int) /\ Len(xF) <= n

Held(i, j) == Within(Bit, Arrived, i, j) /\ accF = Part(Arrived, i, j)

WellEnded ==
  /\ pcF = "decoded" => Len(xF) = n /\ done = Len(bytes) /\ \A b \in DOMAIN accF : accF[b] = 0
  /\ pcF = "failed" => Refusal

Cutting ==
  /\ Counted
  /\ Held(width[kind] * Len(xF), BYTE * done)
  /\ Taken
  /\ Needed(width[kind], Len(xF))
  /\ WellEnded

Coding ==
  /\ pcF = "idle" => xF = << >> /\ bytes = << >> /\ accF = << >> /\ done = 0
  /\ pcF \in {"push", "emit", "encoded"} => Laying
  /\ pcF \in {"load", "take", "decoded"} => Cutting
  /\ pcF = "failed" => done = 0 \/ Cutting
  /\ pcF \in F!Control

LEMMA PushLays ==
  ASSUME Coding, F!Push
  PROVE  Coding'
<1>1. /\ pcF = "push" /\ pcF' = "emit" /\ done < n /\ done' = done + 1
      /\ accF' = accF \o Binary(F!Raw(kind, xF[done + 1]), width[kind])
      /\ kind' = kind /\ xF' = xF /\ bytes' = bytes
  BY SameOfF DEF F!Push
<1>2. Laying /\ n \in Nat
  BY <1>1, Sizes DEF Coding
<1>3. PICK c : c = Binary(F!Raw(kind, xF[done + 1]), width[kind])
  OBVIOUS
<1>4. /\ c \in Seq(Bit)
      /\ Pushed(kind, xF, done + 1) = Append(Pushed(kind, xF, done), c)
      /\ Pushed(kind, xF, done) \in Seq(Seq(Bit))
  BY <1>1, <1>2, <1>3, PushedIs DEF Laying
<1>5. PICK f, a : f = FlattenSeq(bytes) /\ a = accF
  OBVIOUS
<1>6. f \in Seq(Bit) /\ a \in Seq(Bit)
  BY <1>2, <1>5, FlattenBytes DEF Laying
<1>7. FlattenSeq(Pushed(kind, xF, done + 1)) = (f \o a) \o c
  <2>1. FlattenSeq(Append(Pushed(kind, xF, done), c)) = FlattenSeq(Pushed(kind, xF, done)) \o c
    BY <1>4, FlattenAppend
  <2>2. QED
    BY <1>1, <1>2, <1>4, <1>5, <2>1 DEF Laying
<1>8. (f \o a) \o c = f \o (a \o c)
  <2>1. AllIn(Bit, f, a, c)
    BY <1>4, <1>6 DEF AllIn
  <2>2. QED
    BY ONLY <2>1, Regroup
<1>9. FlattenSeq(bytes') \o accF' = FlattenSeq(Pushed(kind', xF', done'))
  BY <1>1, <1>3, <1>5, <1>7, <1>8
<1>10. accF' \in Seq(Bit)
  BY <1>1, <1>3, <1>4, <1>5, <1>6, ConcatProperties
<1>11. done' \in 0 .. n
  BY <1>1, <1>2 DEF Laying
<1>12. Laying'
  BY <1>1, <1>2, <1>9, <1>10, <1>11 DEF Laying, AllInRange
<1>13. QED
  BY <1>1, <1>12 DEF Coding, F!Control

LEMMA EmitLays ==
  ASSUME Coding, F!Emit
  PROVE  Coding'
<1>1. pcF = "emit" /\ kind' = kind /\ xF' = xF /\ done' = done
  BY DEF F!Emit
<1>2. Laying /\ BYTE \in Nat \ {0}
  BY <1>1, Sizes DEF Coding
<1>3. CASE Len(accF) >= BYTE
  <2>1. /\ bytes' = Append(bytes, SubSeq(accF, 1, BYTE))
        /\ accF' = SubSeq(accF, BYTE + 1, Len(accF))
        /\ pcF' = pcF
    BY <1>3, SameOfF DEF F!Emit
  <2>2. PICK a, h, r : a = accF /\ h = SubSeq(a, 1, BYTE) /\ r = SubSeq(a, BYTE + 1, Len(a))
    OBVIOUS
  <2>3. a \in Seq(Bit) /\ Len(a) \in Nat /\ BYTE \in 0 .. Len(a)
    BY <1>2, <1>3, <2>2 DEF Laying
  <2>4. h \in Seq(Bit) /\ Len(h) = BYTE /\ r \in Seq(Bit) /\ h \o r = a
    BY ONLY <2>2, <2>3, CutAt
  <2>5. h \in Byte
    BY <1>2, <2>4 DEF Byte
  <2>6. bytes' \in Seq(Byte)
    BY <1>2, <2>1, <2>2, <2>5, AppendProperties DEF Laying
  <2>7. PICK f : f = FlattenSeq(bytes)
    OBVIOUS
  <2>8. f \in Seq(Bit) /\ bytes \in Seq(Byte)
    BY <1>2, <2>7, FlattenBytes DEF Laying
  <2>9. FlattenSeq(Append(bytes, h)) = f \o h
    <3>1. Byte \subseteq Seq(Bit)
      BY <1>2 DEF Byte
    <3>2. bytes \in Seq(Seq(Bit))
      BY <2>8, <3>1, SeqMonotonic
    <3>3. QED
      BY <2>4, <2>7, <3>2, FlattenAppend
  <2>10. (f \o h) \o r = f \o (h \o r)
    <3>1. AllIn(Bit, f, h, r)
      BY <2>4, <2>8 DEF AllIn
    <3>2. QED
      BY ONLY <3>1, Regroup
  <2>11. FlattenSeq(bytes') \o accF' = FlattenSeq(Pushed(kind, xF, done))
    BY <1>1, <1>2, <2>1, <2>2, <2>4, <2>7, <2>9, <2>10 DEF Laying
  <2>12. Laying'
    BY <1>1, <1>2, <2>1, <2>2, <2>4, <2>6, <2>11 DEF Laying, AllInRange
  <2>13. QED
    BY <1>1, <2>1, <2>12 DEF Coding, F!Control
<1>4. CASE ~ (Len(accF) >= BYTE)
  <2>1. pcF' = "push" /\ bytes' = bytes /\ accF' = accF
    BY <1>4, SameOfF DEF F!Emit
  <2>2. Len(accF) < BYTE
    BY <1>2, <1>4 DEF Laying
  <2>3. Laying'
    BY <1>1, <1>2, <2>1, <2>2 DEF Laying, AllInRange
  <2>4. QED
    BY <2>1, <2>3 DEF Coding, F!Control
<1>5. QED
  BY <1>3, <1>4

LEMMA FlushLays ==
  ASSUME Coding, F!Flush
  PROVE  Coding'
<1>1. /\ pcF = "push" /\ pcF' = "encoded" /\ done = n
      /\ bytes' = IF accF = << >> THEN bytes ELSE Append(bytes, ToBytes(accF))
      /\ kind' = kind /\ xF' = xF /\ accF' = accF /\ done' = done
  BY SameOfF DEF F!Flush
<1>2. Laying /\ BYTE \in Nat \ {0}
  BY <1>1, Sizes DEF Coding
<1>3. PICK f, a : f = FlattenSeq(bytes) /\ a = accF
  OBVIOUS
<1>4. /\ f \in Seq(Bit) /\ a \in Seq(Bit) /\ bytes \in Seq(Byte) /\ Len(a) \in Nat /\ Len(a) < BYTE
      /\ Len(f) = BYTE * Len(bytes)
  BY <1>1, <1>2, <1>3, FlattenBytes DEF Laying
<1>5. ToBytes(f \o a) = F!Packed(kind, xF)
  BY <1>1, <1>2, <1>3, PushedIs DEF Laying
<1>6. ToBytes(f \o a) = f \o ToBytes(a)
  BY <1>4, ToBytesOfRest
<1>7. FlattenSeq(bytes') = f \o ToBytes(a) /\ bytes' \in Seq(Byte)
  <2>1. CASE a = << >>
    <3>1. ToBytes(a) = << >> /\ f \o << >> = f
      BY <1>4, <2>1, ToBytesOfNone, ConcatEmptySeq
    <3>2. QED
      BY <1>1, <1>3, <1>4, <2>1, <3>1
  <2>2. CASE a # << >>
    <3>1. PICK t : t = ToBytes(a)
      OBVIOUS
    <3>2. t \in Byte
      <4>1. /\ t \in Seq(Bit) /\ Len(t) - Len(a) \in 0 .. BYTE - 1
            /\ \E m \in Int : Len(t) = BYTE * m
        BY <1>4, <3>1, ToBytesIs
      <4>2. Len(a) > 0
        BY <1>4, <2>2
      <4>3. PICK b \in Nat \ {0} : b = BYTE
        BY <1>2
      <4>4. PICK m \in Int : Len(t) = b * m
        BY <4>1, <4>3
      <4>5. Len(t) \in Nat /\ Len(t) > 0 /\ Len(t) < 2 * b
        <5>1. Len(t) \in Nat /\ Len(t) - Len(a) \in 0 .. b - 1
          BY <1>4, <3>1, <4>3, ToBytesIs
        <5>2. Len(a) \in Nat /\ Len(a) < b
          BY <1>4, <4>3
        <5>3. PICK g \in Nat, l \in Nat : g = Len(t) /\ l = Len(a)
          BY <5>1, <5>2
        <5>4. g - l \in 0 .. b - 1 /\ l < b /\ l > 0
          BY <4>2, <5>1, <5>2, <5>3
        <5>5. g > 0 /\ g < 2 * b
          BY ONLY <5>4, g \in Nat, l \in Nat, b \in Nat
        <5>6. QED
          BY <5>3, <5>5
      <4>6. m = 1
        <5>1. m < 1 => b * m <= 0
          <6>1. SUFFICES ASSUME m < 1 PROVE b * m <= 0
            OBVIOUS
          <6>2. PICK e \in Nat : m = -e
            <7>1. -m \in Nat /\ m = -(-m)
              BY <6>1
            <7>2. QED
              BY <7>1
          <6>3. b * m = -(b * e) /\ b * e \in Nat
            BY <6>2
          <6>4. QED
            BY <6>3
        <5>2. m > 1 => b * m >= 2 * b
          <6>1. SUFFICES ASSUME m > 1 PROVE b * m >= 2 * b
            OBVIOUS
          <6>2. PICK e \in Nat : m = 2 + e
            <7>1. m - 2 \in Nat /\ m = 2 + (m - 2)
              BY <6>1
            <7>2. QED
              BY <7>1
          <6>3. b * m = 2 * b + b * e /\ b * e \in Nat
            BY <6>2
          <6>4. QED
            BY <6>3
        <5>3. PICK x \in Int : x = b * m
          OBVIOUS
        <5>4. QED
          BY <4>4, <4>5, <5>1, <5>2, <5>3
      <4>7. Len(t) = BYTE
        BY <4>3, <4>4, <4>6
      <4>8. QED
        BY <1>2, <4>1, <4>7 DEF Byte
    <3>3. bytes \in Seq(Seq(Bit)) /\ t \in Seq(Bit)
      <4>1. Byte \subseteq Seq(Bit)
        BY <1>2 DEF Byte
      <4>2. QED
        BY <1>4, <3>2, <4>1, SeqMonotonic
    <3>4. FlattenSeq(Append(bytes, t)) = f \o t
      BY <1>3, <3>3, FlattenAppend
    <3>5. Append(bytes, t) \in Seq(Byte)
      BY <1>4, <3>2, AppendProperties
    <3>6. QED
      BY <1>1, <1>3, <2>2, <3>1, <3>4, <3>5
  <2>3. QED
    BY <2>1, <2>2
<1>8. FlattenSeq(bytes') = F!Packed(kind, xF)
  BY <1>5, <1>6, <1>7
<1>9. Len(bytes') = F!ByteLength(kind)
  <2>1. Len(FlattenSeq(bytes')) = BYTE * Len(bytes') /\ Len(bytes') \in Nat
    <3>1. PICK y : y = bytes'
      OBVIOUS
    <3>2. y \in Seq(Byte)
      BY <1>7, <3>1
    <3>3. Len(FlattenSeq(y)) = BYTE * Len(y) /\ Len(y) \in Nat
      BY <3>2, FlattenBytes
    <3>4. QED
      BY <3>1, <3>3
  <2>2. Len(F!Packed(kind, xF)) = BYTE * F!ByteLength(kind)
    <3>1. PICK w \in Nat : w = width[kind]
      BY <1>2, WidthIs DEF Laying, WidthOf
    <3>2. QED
      BY <1>2, <3>1, PackedIs DEF Laying
  <2>3. F!ByteLength(kind) \in Nat
    BY <1>2, ByteLengthIs DEF Laying, LengthOf
  <2>4. \A i \in Nat, j \in Nat, b \in Nat \ {0} : b * i = b * j => i = j
    OBVIOUS
  <2>5. QED
    BY <1>2, <1>8, <2>1, <2>2, <2>3, <2>4
<1>10. Laying'
  BY <1>1, <1>2, <1>7, <1>8, <1>9 DEF Laying, AllInRange
<1>11. QED
  BY <1>1, <1>10 DEF Coding, F!Control

(* The bytes as pieces.                                                     *)
LEMMA BytesAre ==
  ASSUME NEW b \in Seq(Byte)
  PROVE  /\ FlattenSeq(b) \in Seq(Bit) /\ Len(FlattenSeq(b)) = BYTE * Len(b)
         /\ \A d \in 0 .. Len(b) - 1 :
              b[d + 1] = Part(FlattenSeq(b), BYTE * d, BYTE * (d + 1))
<1>1. BYTE \in Nat /\ Len(b) \in Nat
  BY Sizes
<1>2. Pieces(b, BYTE)
  <2>1. Byte \subseteq Seq(Bit) /\ \A e \in Byte : Len(e) = BYTE
    BY <1>1 DEF Byte
  <2>2. b \in Seq(Seq(Bit))
    BY <2>1, SeqMonotonic
  <2>3. \A i \in 1 .. Len(b) : b[i] \in Byte
    OBVIOUS
  <2>4. QED
    BY <2>1, <2>2, <2>3 DEF Pieces
<1>3. ASSUME NEW d \in 0 .. Len(b) - 1
      PROVE  b[d + 1] = Part(FlattenSeq(b), BYTE * d, BYTE * (d + 1))
  <2>1. PICK c : c = d + 1
    OBVIOUS
  <2>2. c \in 1 .. Len(b) /\ c - 1 = d
    BY <1>1, <2>1
  <2>3. Piece(FlattenSeq(b), BYTE, c) = b[c]
    BY <1>1, <1>2, <2>2, PieceOf
  <2>4. QED
    BY <2>1, <2>2, <2>3 DEF Piece
<1>4. QED
  BY <1>3, FlattenBytes

LEMMA Products ==
  ASSUME NEW w \in Nat, NEW i \in Nat, NEW j \in Nat, i < j
  PROVE  w * i + w <= w * j /\ w * (i + 1) = w * i + w
<1>1. PICK e \in Nat : j = i + 1 + e
  <2>1. j - i - 1 \in Nat /\ j = i + 1 + (j - i - 1)
    OBVIOUS
  <2>2. QED
    BY <2>1
<1>2. w * j = w * i + w + w * e /\ w * e \in Nat /\ w * i \in Nat
  BY <1>1
<1>3. QED
  BY <1>2

LEMMA LoadCuts ==
  ASSUME Coding, F!Load
  PROVE  Coding'
<1>1. /\ pcF = "load" /\ pcF' = "take" /\ Len(xF) < n
      /\ accF' = accF \o bytes[done + 1] /\ done' = done + 1
      /\ kind' = kind /\ xF' = xF /\ bytes' = bytes
  BY DEF F!Load
<1>2. Cutting /\ BYTE \in Nat \ {0} /\ n \in Nat
  BY <1>1, Sizes DEF Coding
<1>3. PICK w \in Nat \ {0}, p \in Nat \ {0} : WidthOf(kind, w, p)
  BY <1>2, WidthIs DEF Cutting, Counted
<1>4. w = width[kind] /\ (kind # "trim" => BYTE <= w)
  BY <1>3 DEF WidthOf
<1>5. PICK l \in Nat, m \in Nat, d \in Nat : l = Len(xF) /\ m = Len(bytes) /\ d = done /\ d <= m
  BY <1>2 DEF Cutting, Counted
<1>6. PICK x \in Nat, y \in Nat, o \in Nat : x = w * l /\ y = BYTE * d /\ o = w * n
  BY <1>2
<1>7. PICK b \in Nat \ {0} : b = BYTE
  BY <1>2
<1>8. y < x + w /\ x + w <= o /\ y < o + b
  <2>1. Needed(w, l)
    BY <1>2, <1>4, <1>5 DEF Cutting
  <2>2. l < n
    BY <1>1, <1>5
  <2>3. y < o + b /\ y < x + w
    BY <1>1, <1>5, <1>6, <1>7, <2>1, <2>2 DEF Needed
  <2>4. x + w <= o
    BY <1>2, <1>6, <2>2, Products
  <2>5. QED
    BY <2>3, <2>4
<1>9. d < m
  <2>1. LengthOf(m, w)
    BY <1>2, <1>4, <1>5, ByteLengthIs DEF Cutting, Counted
  <2>2. PICK z \in 0 .. b - 1 : BYTE * m = o + z
    BY <1>6, <1>7, <2>1 DEF LengthOf
  <2>3. d = m => BYTE * m = y
    BY <1>6
  <2>4. d # m
    <3>1. SUFFICES ASSUME d = m PROVE FALSE
      OBVIOUS
    <3>2. y = o + z
      BY <2>2, <2>3, <3>1
    <3>3. QED
      BY ONLY <1>8, <3>2, y \in Nat, o \in Nat, x \in Nat, w \in Nat, z \in 0 .. b - 1, b \in Nat
  <2>5. QED
    BY <1>5, <2>4
<1>10. PICK g \in Nat : g = y + b
  OBVIOUS
<1>11. BYTE * (d + 1) = g
  <2>1. BYTE * (d + 1) = BYTE * d + BYTE
    BY <1>2
  <2>2. QED
    BY <1>6, <1>7, <1>10, <2>1
<1>12. PICK s : s = Arrived
  OBVIOUS
<1>13. s \in Seq(Bit) /\ Len(s) = BYTE * m /\ bytes[d + 1] = Part(s, y, g)
  <2>1. d \in 0 .. m - 1
    BY <1>9
  <2>2. QED
    BY <1>2, <1>5, <1>6, <1>11, <1>12, <2>1, BytesAre DEF Cutting, Counted, Arrived
<1>14. g <= Len(s)
  <2>1. BYTE * d + BYTE <= BYTE * m
    BY <1>2, <1>9, Products
  <2>2. PICK v \in Nat : v = BYTE * m
    BY <1>2
  <2>3. QED
    BY <1>6, <1>7, <1>10, <1>13, <2>1, <2>2
<1>15. Within(Bit, s, x, y) /\ accF = Part(s, x, y)
  BY <1>2, <1>4, <1>5, <1>6, <1>12, Zenon DEF Cutting, Held
<1>16. Within(Bit, s, y, g) /\ Within(Bit, s, x, g)
  BY <1>10, <1>14, <1>15 DEF Within
<1>17. accF' = Part(s, x, g)
  <2>1. Within(Bit, s, x, y) /\ Within(Bit, s, y, g)
    BY <1>15, <1>16
  <2>2. Part(s, x, y) \o Part(s, y, g) = Part(s, x, g)
    BY ONLY <2>1, PartsJoin, SMT
  <2>3. accF' = accF \o bytes[d + 1]
    BY <1>1, <1>5, Zenon
  <2>4. accF = Part(s, x, y) /\ bytes[d + 1] = Part(s, y, g)
    BY <1>13, <1>15
  <2>5. QED
    BY ONLY <2>2, <2>3, <2>4, Zenon
<1>18. Needed(w, l)'
  <2>1. g < o + b /\ l < n /\ g < x + w + b
    BY <1>1, <1>5, <1>8, <1>10
  <2>2. BYTE * done' = g
    BY <1>1, <1>5, <1>11
  <2>3. QED
    BY <1>1, <1>6, <1>7, <2>1, <2>2 DEF Needed
<1>19. Cutting'
  <2>1. Counted'
    <3>1. done' \in 0 .. Len(bytes')
      BY <1>1, <1>5, <1>9
    <3>2. QED
      BY <1>1, <1>2, <3>1 DEF Cutting, Counted
  <2>2. Arrived' = s
    BY <1>1, <1>12 DEF Arrived
  <2>3. width[kind'] * Len(xF') = x /\ BYTE * done' = g
    BY <1>1, <1>4, <1>5, <1>6, <1>11
  <2>4. Held(width[kind] * Len(xF), BYTE * done)'
    BY <1>16, <1>17, <2>2, <2>3, Zenon DEF Held
  <2>5. Taken'
    <3>1. \A j : Word(j)' = Word(j)
      BY <1>1 DEF Word, Arrived
    <3>2. QED
      BY <1>1, <1>2, <3>1 DEF Cutting, Taken
  <2>6. Needed(width[kind], Len(xF))'
    BY <1>1, <1>4, <1>5, <1>18, Zenon DEF Needed
  <2>7. WellEnded'
    BY <1>1 DEF WellEnded
  <2>8. QED
    BY <2>1, <2>4, <2>5, <2>6, <2>7, Zenon DEF Cutting
<1>20. QED
  BY <1>1, <1>19 DEF Coding, F!Control

LEMMA TakeCuts ==
  ASSUME Coding, F!Take
  PROVE  Coding'
<1>1. /\ pcF = "take" /\ kind' = kind /\ bytes' = bytes /\ done' = done
  BY DEF F!Take
<1>2. Cutting /\ BYTE \in Nat \ {0} /\ n \in Nat
  BY <1>1, Sizes DEF Coding
<1>3. PICK w \in Nat \ {0}, p \in Nat \ {0} : WidthOf(kind, w, p)
  BY <1>2, WidthIs DEF Cutting, Counted
<1>4. w = width[kind] /\ (kind # "trim" => BYTE <= w)
  BY <1>3 DEF WidthOf
<1>5. PICK l \in Nat : l = Len(xF) /\ l <= n
  BY <1>2 DEF Cutting, Counted
<1>6. PICK x \in Nat, y \in Nat : x = w * l /\ y = BYTE * done
  BY <1>2 DEF Cutting, Counted
<1>7. PICK s : s = Arrived
  OBVIOUS
<1>8. Within(Bit, s, x, y) /\ accF = Part(s, x, y)
  BY <1>2, <1>4, <1>5, <1>6, <1>7, Zenon DEF Cutting, Held
<1>9. s \in Seq(Bit) /\ x <= y /\ y <= Len(s) /\ Len(s) \in Nat
  BY <1>8 DEF Within
<1>10. accF \in Seq(Bit) /\ Len(accF) = y - x
  <2>1. IsPart(Bit, accF, s, x, y)
    BY <1>8, PartIs
  <2>2. QED
    BY <2>1 DEF IsPart
<1>11. Arrived' = Arrived /\ \A j : Word(j)' = Word(j)
  BY <1>1 DEF Word, Arrived
<1>12. PICK v : v = Number(SubSeq(accF, 1, w))
  OBVIOUS
<1>13. CASE Len(accF) >= w /\ l < n
  <2>1. x + w <= y
    BY <1>9, <1>10, <1>13
  <2>2. PICK g \in Nat : g = x + w
    OBVIOUS
  <2>3. w * (l + 1) = g
    BY <1>6, <1>13, <2>2, Products
  <2>4. Within(Bit, s, x, g) /\ Within(Bit, s, g, y)
    BY <1>9, <2>1, <2>2 DEF Within
  <2>5. SubSeq(accF, 1, w) = Part(s, x, g) /\ SubSeq(accF, w + 1, Len(accF)) = Part(s, g, y)
    <3>1. PICK a \in Nat : a = Len(accF) /\ a = y - x
      BY <1>10
    <3>2. Within(Bit, accF, 0, w) /\ Within(Bit, accF, w, a)
      BY <1>10, <1>13, <3>1 DEF Within
    <3>3. Part(accF, 0, w) = Part(s, x + 0, x + w)
      BY <1>8, <3>2, PartOfPart
    <3>4. Part(accF, w, a) = Part(s, x + w, x + a)
      BY <1>8, <3>2, PartOfPart
    <3>5. x + 0 = x /\ x + a = y
      BY <3>1
    <3>6. SubSeq(accF, 1, w) = Part(accF, 0, w) /\ SubSeq(accF, w + 1, Len(accF)) = Part(accF, w, a)
      BY <3>1 DEF Part
    <3>7. QED
      BY <2>2, <3>3, <3>4, <3>5, <3>6
  <2>6. v = Word(l + 1)
    <3>1. (l + 1) - 1 = l
      OBVIOUS
    <3>2. Piece(s, w, l + 1) = Part(s, x, g)
      BY <1>6, <2>3, <3>1 DEF Piece
    <3>3. QED
      BY <1>4, <1>7, <1>12, <2>5, <3>2 DEF Word
  <2>7. v \in 0 .. 2^w - 1
    <3>1. IsPart(Bit, Part(s, x, g), s, x, g)
      BY <2>4, PartIs
    <3>2. PICK t : t = Part(s, x, g)
      OBVIOUS
    <3>3. t \in Seq(Bit) /\ Len(t) = w
      BY <2>2, <3>1, <3>2 DEF IsPart
    <3>4. QED
      BY <1>12, <2>5, <3>2, <3>3, BinaryOfNumber
  <2>8. CASE F!Refused(kind, v)
    <3>1. pcF' = "failed" /\ xF' = xF /\ accF' = accF
      BY <1>4, <1>5, <1>12, <1>13, <2>8, SameOfF DEF F!Take
    <3>2. WellEnded'
      BY <1>1, <1>5, <1>11, <1>13, <2>6, <2>8, <3>1 DEF Refusal, WellEnded
    <3>3. Needed(width[kind], Len(xF))'
      BY <1>1, <1>2, <3>1 DEF Cutting, Needed
    <3>4. Taken'
      BY <1>1, <1>2, <1>11, <3>1 DEF Cutting, Taken
    <3>5. Counted' /\ Held(width[kind] * Len(xF), BYTE * done)'
      BY <1>1, <1>2, <1>11, <3>1, Zenon DEF Cutting, Counted, Held
    <3>6. Cutting'
      BY <3>2, <3>3, <3>4, <3>5, Zenon DEF Cutting
    <3>7. QED
      BY <3>1, <3>6 DEF Coding, F!Control
  <2>9. CASE ~ F!Refused(kind, v)
    <3>1. /\ xF' = Append(xF, F!Value(kind, v))
          /\ accF' = SubSeq(accF, w + 1, Len(accF))
          /\ pcF' = IF kind = "trim" THEN "take" ELSE "load"
      BY <1>4, <1>5, <1>12, <1>13, <2>9, SameOfF DEF F!Take
    <3>2. PICK c : c = F!Value(kind, v)
      OBVIOUS
    <3>3. c \in Int
      BY <1>2, <1>4, <2>7, <2>9, <3>2, ValueIs DEF Cutting, Counted
    <3>4. /\ xF' \in Seq(Int) /\ Len(xF') = l + 1 /\ xF'[l + 1] = c
          /\ \A j \in 1 .. l : xF'[j] = xF[j]
      BY <1>2, <1>5, <3>1, <3>2, <3>3, AppendProperties DEF Cutting, Counted
    <3>5. Taken'
      <4>1. ASSUME NEW j \in 1 .. l + 1
            PROVE  ~ F!Refused(kind, Word(j)) /\ xF'[j] = F!Value(kind, Word(j))
        <5>1. CASE j = l + 1
          BY <2>6, <2>9, <3>2, <3>4, <5>1
        <5>2. CASE j # l + 1
          <6>1. j \in 1 .. l
            BY <5>2
          <6>2. QED
            BY <1>2, <1>5, <3>4, <6>1 DEF Cutting, Taken
        <5>3. QED
          BY <5>1, <5>2
      <4>2. QED
        BY <1>1, <1>11, <3>4, <4>1 DEF Taken
    <3>6. width[kind'] * Len(xF') = g /\ BYTE * done' = y /\ Arrived' = s
      BY <1>1, <1>4, <1>6, <1>7, <1>11, <2>3, <3>4
    <3>7. accF' = Part(s, g, y)
      BY <2>5, <3>1
    <3>8. Needed(w, l + 1)'
      <4>1. y < w * n + BYTE
        BY <1>2, <1>4, <1>6 DEF Cutting, Needed
      <4>2. pcF' = "load" => y < w * (l + 1) + w
        <5>1. SUFFICES ASSUME pcF' = "load" PROVE y < w * (l + 1) + w
          OBVIOUS
        <5>2. kind # "trim"
          BY <3>1, <5>1
        <5>3. Needed(w, l)
          BY <1>2, <1>4, <1>5, Zenon DEF Cutting
        <5>4. PICK b \in Nat : b = BYTE
          BY <1>2
        <5>5. y < x + w + b /\ b <= w
          BY <1>1, <1>4, <1>6, <5>2, <5>3, <5>4 DEF Needed
        <5>6. y < g + w
          BY ONLY <2>2, <5>5, x \in Nat, y \in Nat, g \in Nat, b \in Nat, w \in Nat
        <5>7. QED
          BY <2>3, <5>6
      <4>3. ~ (pcF' = "take" /\ kind' # "trim")
        BY <1>1, <3>1
      <4>4. BYTE * done' = y
        BY <1>1, <1>6
      <4>5. QED
        BY <4>1, <4>2, <4>3, <4>4, Zenon DEF Needed
    <3>9. Cutting'
      <4>1. Counted'
        BY <1>1, <1>2, <1>5, <1>13, <3>4 DEF Cutting, Counted
      <4>2. Needed(width[kind], Len(xF))'
        BY <1>1, <1>4, <3>4, <3>8, Zenon DEF Needed
      <4>3. WellEnded'
        BY <3>1 DEF WellEnded
      <4>4. Held(width[kind] * Len(xF), BYTE * done)'
        BY <2>4, <3>6, <3>7, Zenon DEF Held
      <4>5. QED
        BY <3>5, <4>1, <4>2, <4>3, <4>4, Zenon DEF Cutting
    <3>10. QED
      BY <3>1, <3>9 DEF Coding, F!Control
  <2>10. QED
    BY <2>8, <2>9
<1>14. CASE ~ (Len(accF) >= w /\ l < n)
  <2>1. pcF' = "load" /\ xF' = xF /\ accF' = accF
    BY <1>4, <1>5, <1>14, SameOfF DEF F!Take
  <2>2. l = n \/ y < x + w
    BY <1>2, <1>5, <1>9, <1>10, <1>14
  <2>3. Needed(width[kind], Len(xF))'
    <3>1. y < w * n + BYTE
      BY <1>2, <1>4, <1>6 DEF Cutting, Needed
    <3>2. l = n \/ y < w * l + w
      BY <1>6, <2>2
    <3>3. BYTE * done' = y /\ width[kind'] = w /\ Len(xF') = l /\ pcF' # "take"
      BY <1>1, <1>4, <1>5, <1>6, <2>1
    <3>4. QED
      BY <3>1, <3>2, <3>3, Zenon DEF Needed
  <2>4. Taken'
    BY <1>1, <1>2, <1>11, <2>1 DEF Cutting, Taken
  <2>5. Counted' /\ Held(width[kind] * Len(xF), BYTE * done)'
    BY <1>1, <1>2, <1>11, <2>1, Zenon DEF Cutting, Counted, Held
  <2>6. WellEnded'
    BY <2>1 DEF WellEnded
  <2>7. Cutting'
    BY <2>3, <2>4, <2>5, <2>6, Zenon DEF Cutting
  <2>8. QED
    BY <2>1, <2>7 DEF Coding, F!Control
<1>15. QED
  BY <1>13, <1>14

LEMMA FinishCuts ==
  ASSUME Coding, F!Finish
  PROVE  Coding'
<1>1. /\ pcF = "load" /\ Len(xF) = n /\ pcF' \in {"decoded", "failed"}
      /\ pcF' = "decoded" => \A b \in DOMAIN accF : accF[b] = 0
      /\ pcF' = "failed" => \E b \in DOMAIN accF : accF[b] # 0
      /\ kind' = kind /\ bytes' = bytes /\ done' = done /\ xF' = xF /\ accF' = accF
  BY DEF F!Finish
<1>2. Cutting /\ n \in Nat /\ BYTE \in Nat \ {0}
  BY <1>1, Sizes DEF Coding
<1>3. PICK w \in Nat : w = width[kind]
  BY <1>2, WidthIs DEF Cutting, Counted, WidthOf
<1>4. done = Len(bytes)
  <2>1. LengthOf(Len(bytes), w)
    BY <1>2, <1>3, ByteLengthIs DEF Cutting, Counted
  <2>2. PICK d \in Nat, o \in Nat, b \in Nat \ {0} : d = done /\ o = w * n /\ b = BYTE
    BY <1>2, <2>1 DEF Cutting, Counted, LengthOf
  <2>3. PICK y \in Nat : y = BYTE * d
    BY <1>2
  <2>4. o <= y
    <3>1. Held(w * n, BYTE * d)
      BY <1>1, <1>2, <1>3, <2>2, Zenon DEF Cutting
    <3>2. QED
      BY <2>2, <2>3, <3>1 DEF Held, Within
  <2>5. y < o + b
    BY <1>2, <1>3, <2>2, <2>3 DEF Cutting, Needed
  <2>6. PICK z \in 0 .. b - 1 : z = y - o
    BY <2>4, <2>5
  <2>7. y = o + z
    BY <2>6
  <2>8. LengthOf(d, w)
    BY <2>2, <2>3, <2>7 DEF LengthOf
  <2>9. QED
    BY <2>1, <2>2, <2>8, OneLength
<1>5. Arrived' = Arrived /\ \A j : Word(j)' = Word(j)
  BY <1>1 DEF Word, Arrived
<1>6. Taken'
  BY <1>1, <1>2, <1>5 DEF Cutting, Taken
<1>7. Counted' /\ Held(width[kind] * Len(xF), BYTE * done)'
  BY <1>1, <1>2, <1>5, Zenon DEF Cutting, Counted, Held
<1>8. Needed(width[kind], Len(xF))'
  <2>1. BYTE * done < width[kind] * n + BYTE
    BY <1>2 DEF Cutting, Needed
  <2>2. pcF' # "load" /\ pcF' # "take"
    BY <1>1
  <2>3. QED
    BY <1>1, <2>1, <2>2, Zenon DEF Needed
<1>9. WellEnded'
  BY <1>1, <1>4 DEF WellEnded, Refusal
<1>10. Cutting'
  BY <1>6, <1>7, <1>8, <1>9, Zenon DEF Cutting
<1>11. QED
  BY <1>1, <1>10 DEF Coding, F!Control

LEMMA EncodeFixedLays ==
  ASSUME Coding, EncodeFixed
  PROVE  Coding'
<1>1. PICK k \in F!Kind, p \in [1 .. n -> Plain], short \in {0, 1} :
        F!Encode(k, p, F!ByteLength(k) - short)
  BY DEF EncodeFixed
<1>2. /\ pcF = "idle" /\ kind' = k /\ xF' = p /\ pcF' \in {"push", "failed"}
      /\ pcF' = "push" => \A c \in 1 .. n : F!InRange(k, p[c])
      /\ bytes' = bytes /\ accF' = accF /\ done' = done
  BY <1>1 DEF F!Encode
<1>3. bytes = << >> /\ accF = << >> /\ done = 0 /\ n \in Nat /\ BYTE \in Nat \ {0}
  BY <1>2, Sizes DEF Coding
<1>4. ASSUME pcF' = "push"
      PROVE  Laying'
  <2>1. AllInRange(k, p)
    <3>1. \A c \in 1 .. n : p[c] \in Int
      BY CodecAssumption DEF Plain
    <3>2. QED
      BY <1>2, <1>4, <3>1 DEF AllInRange
  <2>2. << >> \in Seq(Bit) /\ << >> \in Seq(Byte) /\ Len(<< >>) < BYTE /\ 0 \in 0 .. n
    BY <1>3
  <2>3. FlattenSeq(<< >>) \o << >> = FlattenSeq(Pushed(k, p, 0))
    <3>1. << >> \o << >> = << >>
      BY <2>2, ConcatEmptySeq
    <3>2. QED
      BY <2>1, <3>1, PushedIs, FlattenNone
  <2>4. kind' \in F!Kind /\ AllInRange(kind', xF')
    BY <1>2, <2>1
  <2>5. AllInRange(kind, xF)'
    BY <2>4 DEF AllInRange
  <2>6. FlattenSeq(bytes') \o accF' = FlattenSeq(Pushed(kind', xF', done'))
    BY <1>2, <1>3, <2>3, Zenon
  <2>7. QED
    BY <1>2, <1>3, <1>4, <2>2, <2>4, <2>5, <2>6 DEF Laying
<1>5. pcF' = "failed" => done' = 0
  BY <1>2, <1>3
<1>6. QED
  BY <1>2, <1>4, <1>5 DEF Coding, F!Control

LEMMA DecodeFixedCuts ==
  ASSUME Coding, DecodeFixed
  PROVE  Coding'
<1>1. PICK k \in F!Kind : \E b \in [1 .. F!ByteLength(k) -> F!Byte], short \in {0, 1} :
        F!Decode(k, b, F!ByteLength(k) - short)
  BY SameOfF DEF DecodeFixed
<1>2. PICK b \in [1 .. F!ByteLength(k) -> Byte], short \in {0, 1} :
        F!Decode(k, b, F!ByteLength(k) - short)
  BY <1>1, SameOfF
<1>3. /\ pcF = "idle" /\ kind' = k /\ bytes' = b /\ pcF' \in {"load", "failed"}
      /\ xF' = xF /\ accF' = accF /\ done' = done
  BY <1>2 DEF F!Decode
<1>4. xF = << >> /\ accF = << >> /\ done = 0 /\ n \in Nat /\ BYTE \in Nat \ {0}
  BY <1>3, Sizes DEF Coding
<1>5. PICK w \in Nat \ {0} : w = width[k]
  BY WidthIs DEF WidthOf
<1>6. PICK m \in Nat : m = F!ByteLength(k)
  BY ByteLengthIs DEF LengthOf
<1>7. b \in Seq(Byte) /\ Len(b) = m
  BY <1>6
<1>8. Counted'
  <2>1. 0 \in 0 .. m /\ << >> \in Seq(Int) /\ Len(<< >>) = 0
    OBVIOUS
  <2>2. QED
    BY <1>3, <1>4, <1>6, <1>7, <2>1 DEF Counted
<1>9. Held(width[kind] * Len(xF), BYTE * done)'
  <2>1. width[kind'] * Len(xF') = 0 /\ BYTE * done' = 0
    <3>1. Len(xF') = 0 /\ done' = 0 /\ width[kind'] = w
      BY <1>3, <1>4, <1>5
    <3>2. w * 0 = 0 /\ BYTE * 0 = 0
      BY <1>4
    <3>3. QED
      BY <3>1, <3>2
  <2>2. PICK s : s = FlattenSeq(b)
    OBVIOUS
  <2>3. s \in Seq(Bit)
    BY <1>7, <2>2, FlattenBytes
  <2>4. Within(Bit, s, 0, 0)
    <3>1. Len(s) \in Nat
      BY <2>3
    <3>2. QED
      BY <2>3, <3>1 DEF Within
  <2>5. Part(s, 0, 0) = << >>
    BY SubSeqEmpty DEF Part
  <2>6. Arrived' = s
    BY <1>3, <2>2 DEF Arrived
  <2>7. accF' = << >>
    BY <1>3, <1>4
  <2>8. QED
    BY ONLY <2>1, <2>4, <2>5, <2>6, <2>7 DEF Held
<1>10. Taken'
  <2>1. Len(xF') = 0
    BY <1>3, <1>4
  <2>2. QED
    BY <2>1 DEF Taken
<1>11. Needed(width[kind], Len(xF))'
  <2>1. Needed(w, 0)'
    <3>1. BYTE * 0 = 0 /\ w * 0 = 0 /\ w * n \in Nat
      BY <1>4
    <3>2. PICK o \in Nat : o = w * n
      BY <3>1
    <3>3. 0 < o + BYTE /\ 0 < 0 + w
      BY <1>4, <3>2
    <3>4. BYTE * done' < w * n + BYTE /\ BYTE * done' < w * 0 + w
      BY <1>3, <1>4, <3>1, <3>2, <3>3
    <3>5. pcF' # "take"
      BY <1>3
    <3>6. QED
      BY ONLY <3>4, <3>5 DEF Needed
  <2>2. width[kind'] = w /\ Len(xF') = 0
    BY <1>3, <1>4, <1>5
  <2>3. QED
    BY <2>1, <2>2, Zenon DEF Needed
<1>12. pcF' = "load" => Cutting'
  <2>1. pcF' = "load" => WellEnded'
    BY DEF WellEnded
  <2>2. QED
    BY <1>8, <1>9, <1>10, <1>11, <2>1, Zenon DEF Cutting
<1>13. pcF' = "failed" => done' = 0
  BY <1>3, <1>4
<1>14. QED
  BY <1>3, <1>12, <1>13 DEF Coding, F!Control

(* The bits that arrived are read, to the last.                             *)
LEMMA ArrivedIs ==
  ASSUME Cutting, Len(xF) = n, done = Len(bytes), NEW w \in Nat, w = width[kind]
  PROVE  /\ Arrived \in Seq(Bit) /\ Len(Arrived) = BYTE * Len(bytes)
         /\ LengthOf(Len(bytes), w)
         /\ Len(accF) = Len(Arrived) - w * n
         /\ \A i \in 1 .. Len(Arrived) - w * n : accF[i] = Arrived[w * n + i]
<1>1. Arrived \in Seq(Bit) /\ Len(Arrived) = BYTE * Len(bytes)
  BY FlattenBytes DEF Cutting, Counted, Arrived
<1>2. LengthOf(Len(bytes), w)
  BY ByteLengthIs DEF Cutting, Counted
<1>3. Held(w * n, Len(Arrived))
  BY <1>1, Zenon DEF Cutting
<1>4. IsPart(Bit, accF, Arrived, w * n, Len(Arrived))
  BY <1>3, PartIs DEF Held
<1>5. QED
  BY <1>1, <1>2, <1>4 DEF IsPart

LEMMA WordsAre ==
  ASSUME Counted, NEW w \in Nat, w = width[kind], NEW r \in Numbers(w),
         Arrived = ToBytes(FlattenSeq(Laid(r, w)))
  PROVE  /\ \A j \in 1 .. n : Word(j) = r[j]
         /\ \A i \in w * n + 1 .. Len(Arrived) : Arrived[i] = 0
<1>1. LaidAs(Arrived, r, w)
  BY LaidReads
<1>2. QED
  BY <1>1 DEF LaidAs, Word

(* A key that has been decoded is what its encoder makes.                   *)
LEMMA KeysDecoded ==
  ASSUME Cutting, pcF = "decoded", kind # "comp16"
  PROVE  AllInRange(kind, xF) /\ Arrived = F!Packed(kind, xF)
<1>1. Len(xF) = n /\ done = Len(bytes) /\ \A b \in DOMAIN accF : accF[b] = 0
  BY DEF Cutting, WellEnded
<1>2. kind \in F!Kind /\ n \in Nat
  BY Sizes DEF Cutting, Counted
<1>3. PICK w \in Nat : w = width[kind]
  BY <1>2, WidthIs DEF WidthOf
<1>4. /\ Arrived \in Seq(Bit) /\ Len(Arrived) = BYTE * Len(bytes)
      /\ LengthOf(Len(bytes), w)
      /\ Len(accF) = Len(Arrived) - w * n
      /\ \A i \in 1 .. Len(Arrived) - w * n : accF[i] = Arrived[w * n + i]
  BY <1>1, <1>3, ArrivedIs
<1>5. PICK z \in 0 .. BYTE - 1, m \in Nat, o \in Nat :
        m = Len(bytes) /\ o = w * n /\ BYTE * m = o + z
  BY <1>2, <1>4 DEF LengthOf
<1>6. Len(Arrived) = o + z /\ z \in Nat
  BY <1>4, <1>5, Sizes
<1>7. ASSUME NEW j \in 1 .. n
      PROVE  /\ Word(j) \in 0 .. 2^w - 1 /\ xF[j] \in Int /\ F!InRange(kind, xF[j])
             /\ F!Raw(kind, xF[j]) = Word(j)
  <2>1. ~ F!Refused(kind, Word(j)) /\ xF[j] = F!Value(kind, Word(j))
    BY <1>1 DEF Cutting, Taken
  <2>2. Word(j) \in 0 .. 2^w - 1
    <3>1. PICK d \in Nat : j = d + 1 /\ j - 1 = d /\ d < n
      <4>1. j - 1 \in Nat /\ j = (j - 1) + 1 /\ j - 1 < n
        BY <1>2
      <4>2. QED
        BY <4>1
    <3>2. PICK x \in Nat, y \in Nat : x = w * d /\ y = x + w
      OBVIOUS
    <3>3. w * j = y /\ y <= o
      <4>1. w * d + w <= w * n /\ w * (d + 1) = w * d + w
        BY <1>2, <3>1, Products
      <4>2. QED
        BY <1>5, <3>1, <3>2, <4>1
    <3>4. Within(Bit, Arrived, x, y)
      <4>1. y <= Len(Arrived) /\ x <= y
        BY <1>6, <3>2, <3>3
      <4>2. QED
        BY <1>4, <4>1 DEF Within
    <3>5. PICK t : t = Part(Arrived, x, y)
      OBVIOUS
    <3>6. t \in Seq(Bit) /\ Len(t) = w
      <4>1. IsPart(Bit, t, Arrived, x, y)
        BY <3>4, <3>5, PartIs
      <4>2. y - x = w
        BY <3>2
      <4>3. QED
        BY <4>1, <4>2 DEF IsPart
    <3>7. Word(j) = Number(t)
      BY <1>3, <3>1, <3>2, <3>3, <3>5 DEF Word, Piece
    <3>8. QED
      BY <3>6, <3>7, BinaryOfNumber
  <2>3. QED
    BY <1>2, <1>3, <2>1, <2>2, ValueIs
<1>8. AllInRange(kind, xF)
  BY <1>7 DEF AllInRange
<1>9. PICK r : r = Raws(kind, xF)
  OBVIOUS
<1>10. r \in Numbers(w) /\ F!Packed(kind, xF) = ToBytes(FlattenSeq(Laid(r, w)))
  BY <1>2, <1>3, <1>8, <1>9, PackedIs
<1>11. LaidAs(Arrived, r, w)
  <2>1. \A c \in 1 .. n : Number(Piece(Arrived, w, c)) = r[c]
    BY <1>3, <1>7, <1>9 DEF Raws, Word
  <2>2. ASSUME NEW i \in w * n + 1 .. Len(Arrived)
        PROVE  Arrived[i] = 0
    <3>1. PICK l \in Nat : i = o + l /\ l \in 1 .. z
      <4>1. i - o \in 1 .. z /\ i = o + (i - o)
        BY <1>5, <1>6
      <4>2. QED
        BY <1>6, <4>1
    <3>2. Len(Arrived) - w * n = z /\ Len(accF) = z
      BY <1>4, <1>5, <1>6
    <3>3. l \in DOMAIN accF /\ accF[l] = Arrived[i]
      <4>1. accF \in Seq(Bit)
        <5>1. Held(width[kind] * Len(xF), BYTE * done)
          BY DEF Cutting
        <5>2. IsPart(Bit, accF, Arrived, width[kind] * Len(xF), BYTE * done)
          BY <5>1, PartIs DEF Held
        <5>3. QED
          BY <5>2 DEF IsPart
      <4>2. DOMAIN accF = 1 .. z
        BY <3>2, <4>1
      <4>3. accF[l] = Arrived[w * n + l]
        BY <1>4, <3>1, <3>2
      <4>4. QED
        BY <1>5, <3>1, <4>2, <4>3
    <3>4. QED
      BY <1>1, <3>3
  <2>3. QED
    BY <2>1, <2>2 DEF LaidAs
<1>12. Arrived = ToBytes(FlattenSeq(Laid(r, w)))
  <2>1. Len(Arrived) = BYTE * m /\ BYTE * m = w * n + z
    BY <1>4, <1>5
  <2>2. QED
    BY ONLY <1>4, <1>10, <1>11, <2>1, w \in Nat, m \in Nat, z \in 0 .. BYTE - 1, ReadsLaid
<1>13. QED
  BY <1>8, <1>10, <1>12

(* An encoding of p, in range: its words are the coefficients' codes.       *)
LEMMA EncodingRead ==
  ASSUME Counted, NEW p \in [1 .. n -> Int], \A c \in 1 .. n : p[c] \in F!Expected(kind),
         Arrived = F!Packed(kind, p)
  PROVE  /\ AllInRange(kind, p)
         /\ \A j \in 1 .. n : /\ ~ F!Refused(kind, Word(j))
                              /\ F!Value(kind, Word(j)) = p[j]
         /\ \A i \in width[kind] * n + 1 .. Len(Arrived) : Arrived[i] = 0
<1>1. kind \in F!Kind /\ n \in Nat
  BY Sizes DEF Counted
<1>2. PICK w \in Nat : w = width[kind]
  BY <1>1, WidthIs DEF WidthOf
<1>3. AllInRange(kind, p)
  <2>1. ASSUME NEW c \in 1 .. n
        PROVE  F!InRange(kind, p[c])
    <3>1. p[c] \in F!Expected(kind) /\ p[c] \in Int
      OBVIOUS
    <3>2. CASE kind = "comp16"
      <4>1. p[c] \in -(positive - 1) .. positive - 1
        BY <3>1, <3>2 DEF F!Expected
      <4>2. F!Abs(p[c]) < q
        BY <3>1, <4>1, QIs, SameOfF DEF Abs
      <4>3. QED
        BY <3>2, <4>2 DEF F!InRange
    <3>3. CASE kind # "comp16"
      BY <3>1, <3>3 DEF F!Expected
    <3>4. QED
      BY <3>2, <3>3
  <2>2. QED
    BY <2>1 DEF AllInRange
<1>4. PICK r : r = Raws(kind, p)
  OBVIOUS
<1>5. r \in Numbers(w) /\ F!Packed(kind, p) = ToBytes(FlattenSeq(Laid(r, w)))
  BY <1>1, <1>2, <1>3, <1>4, PackedIs
<1>6. /\ \A j \in 1 .. n : Word(j) = r[j]
      /\ \A i \in w * n + 1 .. Len(Arrived) : Arrived[i] = 0
  BY <1>2, <1>5, WordsAre
<1>7. ASSUME NEW j \in 1 .. n
      PROVE  ~ F!Refused(kind, Word(j)) /\ F!Value(kind, Word(j)) = p[j]
  <2>1. Word(j) = F!Raw(kind, p[j])
    BY <1>4, <1>6 DEF Raws
  <2>2. p[j] \in Int /\ F!InRange(kind, p[j]) /\ p[j] \in F!Expected(kind)
    BY <1>3 DEF AllInRange
  <2>3. QED
    BY <1>1, <2>1, <2>2, RawIs
<1>8. QED
  BY <1>2, <1>3, <1>6, <1>7

LEMMA CodingSays == Coding => FixedWidthCodes
<1>1. SUFFICES ASSUME Coding PROVE FixedWidthCodes
  OBVIOUS
<1>2. F!EncodesAll
  <2>1. pcF = "encoded" => FlattenSeq(bytes) = F!Packed(kind, xF) /\ Len(bytes) = F!ByteLength(kind)
    BY <1>1 DEF Coding, Laying
  <2>2. QED
    BY <2>1, SameOfF, Zenon DEF F!EncodesAll
<1>3. F!KeysHaveOneEncoding
  <2>1. ASSUME pcF = "decoded", kind # "comp16"
        PROVE  (\A c \in 1 .. n : F!InRange(kind, xF[c])) /\ F!FlattenSeq(bytes) = F!Packed(kind, xF)
    <3>1. Cutting
      BY <1>1, <2>1 DEF Coding
    <3>2. AllInRange(kind, xF) /\ Arrived = F!Packed(kind, xF)
      BY <2>1, <3>1, KeysDecoded
    <3>3. QED
      BY <3>2, SameOfF DEF AllInRange, Arrived
  <2>2. QED
    BY <2>1, SameOfF DEF F!KeysHaveOneEncoding
<1>4. ASSUME NEW p \in [1 .. n -> F!Expected(kind)], Cutting, Arrived = F!Packed(kind, p)
      PROVE  /\ pcF # "failed"
             /\ pcF = "decoded" => /\ \A c \in 1 .. n : xF[c] \in F!Expected(kind)
                                   /\ Arrived = F!Packed(kind, xF)
  <2>1. Counted /\ Taken /\ WellEnded
    BY <1>4 DEF Cutting
  <2>2. kind \in F!Kind /\ n \in Nat
    BY <2>1, Sizes DEF Counted
  <2>3. p \in [1 .. n -> Int] /\ \A c \in 1 .. n : p[c] \in F!Expected(kind)
    <3>1. F!Expected(kind) \subseteq Int
      BY CodecAssumption, QIs DEF F!Expected, Plain
    <3>2. QED
      BY <3>1
  <2>4. /\ \A j \in 1 .. n : ~ F!Refused(kind, Word(j)) /\ F!Value(kind, Word(j)) = p[j]
        /\ \A i \in width[kind] * n + 1 .. Len(Arrived) : Arrived[i] = 0
    BY <1>4, <2>1, <2>3, EncodingRead
  <2>5. ASSUME pcF = "failed" PROVE FALSE
    <3>1. Refusal
      BY <2>1, <2>5 DEF WellEnded
    <3>2. CASE Len(xF) < n /\ F!Refused(kind, Word(Len(xF) + 1))
      <4>1. Len(xF) + 1 \in 1 .. n
        BY <2>1, <2>2, <3>2 DEF Counted
      <4>2. QED
        BY <2>4, <3>2, <4>1
    <3>3. CASE Len(xF) = n /\ done = Len(bytes) /\ \E b \in DOMAIN accF : accF[b] # 0
      <4>1. PICK w \in Nat : w = width[kind]
        BY <2>2, WidthIs DEF WidthOf
      <4>2. /\ Len(accF) = Len(Arrived) - w * n
            /\ \A i \in 1 .. Len(Arrived) - w * n : accF[i] = Arrived[w * n + i]
            /\ Arrived \in Seq(Bit)
        BY <1>4, <3>3, <4>1, ArrivedIs
      <4>3. PICK o \in Nat, a \in Nat : o = w * n /\ a = Len(Arrived)
        BY <2>2, <4>2
      <4>4. accF \in Seq(Bit)
        <5>1. Held(width[kind] * Len(xF), BYTE * done)
          BY <1>4 DEF Cutting
        <5>2. IsPart(Bit, accF, Arrived, width[kind] * Len(xF), BYTE * done)
          BY <5>1, PartIs DEF Held
        <5>3. QED
          BY <5>2 DEF IsPart
      <4>5. PICK b \in DOMAIN accF : accF[b] # 0
        BY <3>3
      <4>6. b \in 1 .. a - o /\ o + b \in o + 1 .. a
        <5>1. DOMAIN accF = 1 .. Len(accF) /\ Len(accF) = a - o
          BY <4>2, <4>3, <4>4
        <5>2. b \in 1 .. a - o
          BY <4>5, <5>1
        <5>3. QED
          BY <5>2
      <4>7. accF[b] = Arrived[o + b] /\ Arrived[o + b] = 0
        BY <2>4, <4>1, <4>2, <4>3, <4>6
      <4>8. QED
        BY <4>5, <4>7
    <3>4. QED
      BY <3>1, <3>2, <3>3 DEF Refusal
  <2>6. ASSUME pcF = "decoded"
        PROVE  (\A c \in 1 .. n : xF[c] \in F!Expected(kind)) /\ Arrived = F!Packed(kind, xF)
    <3>1. Len(xF) = n /\ xF \in Seq(Int)
      BY <2>1, <2>6 DEF WellEnded, Counted
    <3>2. \A c \in 1 .. n : xF[c] = p[c]
      BY <2>1, <2>4, <3>1 DEF Taken
    <3>3. F!Packed(kind, xF) = F!Packed(kind, p)
      <4>1. [c \in 1 .. n |-> F!Binary(F!Raw(kind, xF[c]), width[kind])]
              = [c \in 1 .. n |-> F!Binary(F!Raw(kind, p[c]), width[kind])]
        BY <3>2
      <4>2. QED
        BY <4>1, Zenon DEF F!Packed
    <3>4. QED
      BY <1>4, <2>3, <3>2, <3>3
  <2>7. QED
    BY <2>5, <2>6
<1>5. F!ComesBack
  <2>1. ASSUME pcF \in {"decoded", "failed"}, pcF = "failed" => done > 0
        PROVE  Cutting
    BY <1>1, <2>1 DEF Coding
  <2>2. kind \in F!Kind => F!Codes[kind] = {F!Packed(kind, p) : p \in [1 .. n -> F!Expected(kind)]}
    BY DEF F!Codes
  <2>3. ASSUME pcF \in {"decoded", "failed"}, pcF = "failed" => done > 0,
               F!FlattenSeq(bytes) \in F!Codes[kind]
        PROVE  /\ pcF # "failed"
               /\ pcF = "decoded" => /\ \A c \in 1 .. n : xF[c] \in F!Expected(kind)
                                     /\ F!FlattenSeq(bytes) = F!Packed(kind, xF)
    <3>1. Cutting
      BY <2>1, <2>3
    <3>2. Arrived = F!FlattenSeq(bytes) /\ kind \in F!Kind
      BY <3>1, SameOfF DEF Arrived, Cutting, Counted
    <3>3. PICK p \in [1 .. n -> F!Expected(kind)] : Arrived = F!Packed(kind, p)
      BY <2>2, <2>3, <3>2
    <3>4. QED
      BY <1>4, <3>1, <3>2, <3>3
  <2>4. QED
    BY <2>3 DEF F!ComesBack
<1>6. QED
  BY <1>2, <1>3, <1>5 DEF FixedWidthCodes

(* The codecs of keys and padded signatures: what an encoder writes is the  *)
(* codes end to end in as many bytes as it said; a key has one encoding; a  *)
(* decoder gives back what its encoder was given -- whatever the widths, so *)
(* long as a number mod q fits in them and a byte never completes more than *)
(* one coefficient of a codec that takes one per byte.                      *)
THEOREM FixedWidthCodesAlways == Spec => []FixedWidthCodes
<1>1. Init => Coding
  BY DEF Init, F!Init, Coding, F!Control
<1>2. Coding /\ [Next]_vars => Coding'
  <2>1. SUFFICES ASSUME Coding, [Next]_vars
                 PROVE  Coding'
    OBVIOUS
  <2>2. CASE UNCHANGED fixedVars
    <3>1. /\ kind' = kind /\ pcF' = pcF /\ xF' = xF /\ bytes' = bytes
          /\ accF' = accF /\ done' = done
      BY <2>2 DEF fixedVars
    <3>2. Laying => Laying'
      BY <3>1 DEF Laying, AllInRange
    <3>3. Cutting => Cutting'
      BY <3>1, Zenon DEF Cutting, Counted, Held, Taken, Needed, WellEnded, Refusal, Word, Arrived
    <3>4. QED
      BY <2>1, <3>1, <3>2, <3>3 DEF Coding
  <2>3. CASE EncodeFixed
    BY <2>1, <2>3, EncodeFixedLays
  <2>4. CASE DecodeFixed
    BY <2>1, <2>4, DecodeFixedCuts
  <2>5. CASE FixedPass
    BY <2>1, <2>5, PushLays, EmitLays, FlushLays, LoadCuts, TakeCuts, FinishCuts
       DEF FixedPass, F!Pass
  <2>6. CASE UNCHANGED vars
    BY <2>2, <2>6 DEF vars
  <2>7. QED
    BY <2>1, <2>2, <2>3, <2>4, <2>5, <2>6
       DEF Next, EncodeSignature, DecodeSignature, EncoderPass, DecoderPass, ContractPass
<1>3. QED
  BY <1>1, <1>2, CodingSays, PTL DEF Spec
=============================================================================
