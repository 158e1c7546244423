----------------------------- MODULE NtruProofs -----------------------------
(***************************************************************************)
(* Machine-checked proofs about NtruGen: whatever the degree (a power of 2), *)
(* the modulus, the draws and the quotients that reduce() takes.            *)
(***************************************************************************)
EXTENDS NtruGen, FiniteSetTheorems, SequenceTheorems, WellFoundedInduction, TLAPS

(***************************************************************************)
(* Numbers                                                                  *)
(***************************************************************************)

(* Every set of numbers has a least one: what stands in for induction.      *)
Less == {w \in Nat \X Nat : w[1] < w[2]}

LEMMA Least ==
  ASSUME NEW T, T \subseteq Nat, T # {}
  PROVE  \E k \in T : \A l \in T : k <= l
<1>1. IsWellFoundedOn(Less, Nat)
  BY NatLessThanWellFounded DEF OpToRel, Less
<1>2. PICK k \in T : \A l \in T : ~ (<<l, k>> \in Less)
  BY <1>1, WFMin
<1>3. ASSUME NEW l \in T
      PROVE  k <= l
  <2>1. k \in Nat /\ l \in Nat /\ ~ (<<l, k>> \in Less)
    BY <1>2
  <2>2. ~ (l < k)
    BY <2>1 DEF Less
  <2>3. QED
    BY <2>1, <2>2
<1>4. QED
  BY <1>2, <1>3

(* A power of 2 counts subsets, of which there is always one.               *)
LEMMA PowerIs == ASSUME NEW k \in Nat PROVE 2^k \in Nat \ {0}
<1>1. IsFiniteSet(1 .. k) /\ Cardinality(1 .. k) = k
  <2>1. 1 \in Int /\ k \in Int
    OBVIOUS
  <2>2. IsFiniteSet(1 .. k) /\ Cardinality(1 .. k) = IF 1 > k THEN 0 ELSE (k - 1) + 1
    BY <2>1, FS_Interval
  <2>3. QED
    BY <2>2
<1>2. IsFiniteSet(SUBSET (1 .. k)) /\ Cardinality(SUBSET (1 .. k)) = 2^k
  <2>1. IsFiniteSet(SUBSET (1 .. k)) /\ Cardinality(SUBSET (1 .. k)) = 2^Cardinality(1 .. k)
    BY <1>1, FS_SUBSET, Zenon
  <2>2. QED
    BY <1>1, <2>1
<1>3. Cardinality(SUBSET (1 .. k)) \in Nat
  BY <1>2, FS_CardinalityType, Zenon
<1>4. Cardinality(SUBSET (1 .. k)) # 0
  <2>1. SUBSET (1 .. k) # {}
    OBVIOUS
  <2>2. QED
    BY <1>2, <2>1, FS_EmptySet, Zenon
<1>5. QED
  BY <1>2, <1>3, <1>4

(* A set of k + 1 elements has twice the subsets of one of k.               *)
LEMMA PowerNext == ASSUME NEW k \in Nat PROVE 2^(k + 1) = 2 * 2^k
<1> DEFINE A == SUBSET (1 .. k)
           B == SUBSET (1 .. k + 1)
           f == [T \in B |-> <<T \ {k + 1}, IF k + 1 \in T THEN 1 ELSE 0>>]
<1>1. IsFiniteSet(1 .. k) /\ Cardinality(1 .. k) = k
  <2>1. 1 \in Int /\ k \in Int
    OBVIOUS
  <2>2. IsFiniteSet(1 .. k) /\ Cardinality(1 .. k) = IF 1 > k THEN 0 ELSE (k - 1) + 1
    BY <2>1, FS_Interval
  <2>3. QED
    BY <2>2
<1>2. IsFiniteSet(1 .. k + 1) /\ Cardinality(1 .. k + 1) = k + 1
  <2>1. 1 \in Int /\ k + 1 \in Int
    OBVIOUS
  <2>2. /\ IsFiniteSet(1 .. k + 1)
        /\ Cardinality(1 .. k + 1) = IF 1 > k + 1 THEN 0 ELSE ((k + 1) - 1) + 1
    BY <2>1, FS_Interval
  <2>3. QED
    BY <2>2
<1>3. IsFiniteSet(A) /\ Cardinality(A) = 2^k
  BY <1>1, FS_SUBSET
<1>4. IsFiniteSet(B) /\ Cardinality(B) = 2^(k + 1)
  BY <1>2, FS_SUBSET
<1>5. IsFiniteSet(0 .. 1) /\ Cardinality(0 .. 1) = 2
  <2>1. 0 \in Int /\ 1 \in Int
    OBVIOUS
  <2>2. IsFiniteSet(0 .. 1) /\ Cardinality(0 .. 1) = IF 0 > 1 THEN 0 ELSE (1 - 0) + 1
    BY <2>1, FS_Interval
  <2>3. QED
    BY <2>2
<1>6. IsFiniteSet(A \X (0 .. 1)) /\ Cardinality(A \X (0 .. 1)) = 2^k * 2
  <2>1. PICK R, T : R = A /\ T = 0 .. 1
    OBVIOUS
  <2>2. IsFiniteSet(R) /\ IsFiniteSet(T)
    BY <1>3, <1>5, <2>1
  <2>3. IsFiniteSet(R \X T) /\ Cardinality(R \X T) = Cardinality(R) * Cardinality(T)
    BY ONLY <2>2, FS_Product
  <2>4. QED
    BY <1>3, <1>5, <2>1, <2>3, Zenon
<1>7. f \in Bijection(B, A \X (0 .. 1))
  <2>1. \A T \in B : T \ {k + 1} \in A
    OBVIOUS
  <2>2. f \in [B -> A \X (0 .. 1)]
    <3>1. ASSUME NEW T \in B
          PROVE  f[T] \in A \X (0 .. 1)
      <4>1. PICK R \in A : R = T \ {k + 1}
        BY <2>1
      <4>2. PICK b \in 0 .. 1 : b = IF k + 1 \in T THEN 1 ELSE 0
        OBVIOUS
      <4>3. f[T] = <<R, b>>
        BY <4>1, <4>2
      <4>4. QED
        BY <4>3
    <3>2. f = [T \in B |-> f[T]]
      OBVIOUS
    <3>3. QED
      BY <3>1, <3>2
  <2>3. ASSUME NEW T \in B, NEW U \in B, f[T] = f[U]
        PROVE  T = U
    <3>1. T \ {k + 1} = U \ {k + 1} /\ (k + 1 \in T <=> k + 1 \in U)
      BY <2>3
    <3>2. QED
      BY <3>1
  <2>4. ASSUME NEW p \in A \X (0 .. 1)
        PROVE  \E T \in B : f[T] = p
    <3>1. PICK R \in A, b \in 0 .. 1 : p = <<R, b>>
      OBVIOUS
    <3>2. k + 1 \notin R
      BY <3>1
    <3>3. CASE b = 1
      <4>1. R \cup {k + 1} \in B /\ (R \cup {k + 1}) \ {k + 1} = R /\ k + 1 \in R \cup {k + 1}
        BY <3>2, <3>3
      <4>2. PICK T \in B : T = R \cup {k + 1}
        BY <4>1
      <4>3. f[T] = <<R, 1>>
        BY <4>1, <4>2
      <4>4. QED
        BY <3>1, <3>3, <4>3
    <3>4. CASE b # 1
      <4>1. R \in B /\ R \ {k + 1} = R /\ b = 0
        BY <3>2, <3>4
      <4>2. QED
        BY <3>1, <4>1
    <3>5. QED
      BY <3>3, <3>4
  <2>5. QED
    BY <2>2, <2>3, <2>4 DEF Bijection, Injection, Surjection, IsInjective
<1>8. Cardinality(A \X (0 .. 1)) = Cardinality(B)
  BY <1>4, <1>7, FS_Bijection DEF ExistsBijection
<1>9. 2^k \in Int
  BY PowerIs
<1>10. QED
  BY <1>4, <1>6, <1>8, <1>9

LEMMA PowerOfNone == 2^0 = 1
<1>1. 1 .. 0 = {}
  OBVIOUS
<1>2. IsFiniteSet({}) /\ Cardinality({}) = 0
  BY FS_EmptySet
<1>3. Cardinality(SUBSET {}) = 2^0
  <2>1. Cardinality(SUBSET {}) = 2^Cardinality({})
    BY <1>2, FS_SUBSET, Zenon
  <2>2. QED
    BY <1>2, <2>1
<1>4. SUBSET {} = {{}}
  OBVIOUS
<1>5. Cardinality({{}}) = 1
  BY FS_Singleton
<1>6. QED
  BY <1>3, <1>4, <1>5

(* The degrees that ntru_solve meets.                                       *)
Power(m) == \E k \in Nat : m = 2^k
(***************************************************************************)
(* Sums                                                                     *)
(***************************************************************************)

(* The partial sums of t, up to k of its values.                            *)
Sums(s, t, k) == s = [j \in 0 .. k |-> IF j = 0 THEN 0 ELSE s[j - 1] + t[j - 1]]

LEMMA SumsExtend ==
  ASSUME NEW k \in Nat, NEW t, NEW s, Sums(s, t, k)
  PROVE  \E r : Sums(r, t, k + 1)
<1> DEFINE r == [j \in 0 .. k + 1 |-> IF j = k + 1 THEN s[k] + t[k] ELSE s[j]]
<1>1. ASSUME NEW j \in 0 .. k + 1
      PROVE  r[j] = IF j = 0 THEN 0 ELSE r[j - 1] + t[j - 1]
  <2>1. CASE j = k + 1
    <3>1. j # 0 /\ j - 1 = k /\ k \in 0 .. k + 1 /\ k # k + 1
      BY <2>1
    <3>2. QED
      BY <2>1, <3>1
  <2>2. CASE j # k + 1
    <3>1. j \in 0 .. k /\ r[j] = s[j]
      BY <2>2
    <3>2. j # 0 => j - 1 \in 0 .. k + 1 /\ j - 1 # k + 1
      BY <3>1
    <3>3. QED
      BY <3>1, <3>2 DEF Sums
  <2>3. QED
    BY <2>1, <2>2
<1>2. Sums(r, t, k + 1)
  BY <1>1, Zenon DEF Sums
<1>3. QED
  BY <1>2

LEMMA SumsExist == ASSUME NEW k \in Nat, NEW t PROVE \E s : Sums(s, t, k)
<1> DEFINE None == {j \in Nat : ~ \E s : Sums(s, t, j)}
<1>1. SUFFICES ASSUME None # {} PROVE FALSE
  OBVIOUS
<1>2. PICK j \in None : \A l \in None : j <= l
  <2>1. None \subseteq Nat
    OBVIOUS
  <2>2. QED
    BY <1>1, <2>1, Least
<1>3. j # 0
  <2>1. Sums([l \in 0 .. 0 |-> 0], t, 0)
    <3>1. \A l \in 0 .. 0 : l = 0
      OBVIOUS
    <3>2. QED
      BY <3>1 DEF Sums
  <2>2. QED
    BY <1>2, <2>1
<1>4. PICK l \in Nat : j = l + 1
  BY <1>2, <1>3
<1>5. PICK s : Sums(s, t, l)
  BY <1>2, <1>4
<1>6. \E r : Sums(r, t, l + 1)
  BY <1>5, SumsExtend
<1>7. QED
  BY <1>2, <1>4, <1>6

LEMMA TotalIs ==
  ASSUME NEW m \in Nat, NEW t
  PROVE  \E s : Sums(s, t, m) /\ Total(t, m) = s[m]
<1> DEFINE s == CHOOSE s : Sums(s, t, m)
<1>1. Sums(s, t, m)
  BY SumsExist
<1>2. Total(t, m) = s[m]
  BY Zenon DEF Total, Sums
<1>3. QED
  BY <1>1, <1>2

LEMMA SumsAreNumbers ==
  ASSUME NEW m \in Nat, NEW t \in [0 .. m - 1 -> Int], NEW s, Sums(s, t, m)
  PROVE  \A k \in 0 .. m : s[k] \in Int
<1> DEFINE Bad == {k \in 0 .. m : s[k] \notin Int}
<1>1. SUFFICES ASSUME Bad # {} PROVE FALSE
  OBVIOUS
<1>2. PICK k \in Bad : \A l \in Bad : k <= l
  <2>1. Bad \subseteq Nat
    OBVIOUS
  <2>2. QED
    BY <1>1, <2>1, Least
<1>3. k \in 0 .. m /\ s[k] \notin Int
  BY <1>2
<1>4. k # 0
  <2>1. s[0] = 0
    BY DEF Sums
  <2>2. QED
    BY <1>3, <2>1
<1>5. k - 1 \in 0 .. m - 1 /\ k - 1 \in 0 .. m /\ ~ (k <= k - 1)
  BY <1>3, <1>4
<1>6. s[k - 1] \in Int
  BY <1>2, <1>5
<1>7. s[k] = s[k - 1] + t[k - 1] /\ t[k - 1] \in Int
  BY <1>3, <1>4, <1>5 DEF Sums
<1>8. QED
  BY <1>3, <1>6, <1>7

LEMMA TotalIsNumber ==
  ASSUME NEW m \in Nat, NEW t \in [0 .. m - 1 -> Int]
  PROVE  Total(t, m) \in Int
<1>1. PICK s : Sums(s, t, m) /\ Total(t, m) = s[m]
  BY TotalIs
<1>2. s[m] \in Int
  <2>1. m \in 0 .. m
    OBVIOUS
  <2>2. QED
    BY <1>1, <2>1, SumsAreNumbers
<1>3. QED
  BY <1>1, <1>2

LEMMA TotalOfNone ==
  ASSUME NEW m \in Nat, NEW t, \A j \in 0 .. m - 1 : t[j] = 0
  PROVE  Total(t, m) = 0
<1>1. PICK s : Sums(s, t, m) /\ Total(t, m) = s[m]
  BY TotalIs
<1> DEFINE Bad == {k \in 0 .. m : s[k] # 0}
<1>2. SUFFICES ASSUME Bad # {} PROVE FALSE
  <2>1. m \in 0 .. m
    OBVIOUS
  <2>2. QED
    BY <1>1, <2>1
<1>3. PICK k \in Bad : \A l \in Bad : k <= l
  <2>1. Bad \subseteq Nat
    OBVIOUS
  <2>2. QED
    BY <1>2, <2>1, Least
<1>4. k # 0
  <2>1. s[0] = 0
    BY <1>1 DEF Sums
  <2>2. QED
    BY <1>3, <2>1
<1>5. k - 1 \in 0 .. m - 1 /\ k - 1 \in 0 .. m /\ ~ (k <= k - 1)
  BY <1>3, <1>4
<1>6. s[k - 1] = 0 /\ t[k - 1] = 0
  BY <1>3, <1>5
<1>7. s[k] = s[k - 1] + t[k - 1]
  BY <1>1, <1>3, <1>4 DEF Sums
<1>8. QED
  BY <1>3, <1>6, <1>7

(* The first term is x; the others are those of t, but for the last, which  *)
(* is 0, one place on.                                                      *)
LEMMA TotalMoved ==
  ASSUME NEW m \in Nat \ {0}, NEW t \in [0 .. m - 1 -> Int], NEW r \in [0 .. m - 1 -> Int],
         t[m - 1] = 0, \A j \in 1 .. m - 1 : r[j] = t[j - 1]
  PROVE  Total(r, m) = r[0] + Total(t, m)
<1>1. PICK s : Sums(s, t, m) /\ Total(t, m) = s[m]
  BY TotalIs
<1>2. PICK u : Sums(u, r, m) /\ Total(r, m) = u[m]
  BY TotalIs
<1>3. (\A k \in 0 .. m : s[k] \in Int) /\ \A k \in 0 .. m : u[k] \in Int
  BY <1>1, <1>2, SumsAreNumbers
<1> DEFINE Bad == {k \in 0 .. m - 1 : u[k + 1] # r[0] + s[k]}
<1>4. Bad = {}
  <2>1. SUFFICES ASSUME Bad # {} PROVE FALSE
    OBVIOUS
  <2>2. PICK k \in Bad : \A l \in Bad : k <= l
    <3>1. Bad \subseteq Nat
      OBVIOUS
    <3>2. QED
      BY <2>1, <3>1, Least
  <2>3. k \in 0 .. m - 1 /\ u[k + 1] # r[0] + s[k]
    BY <2>2
  <2>4. k # 0
    <3>1. s[0] = 0 /\ u[0] = 0 /\ u[0 + 1] = u[0] + r[0]
      BY <1>1, <1>2 DEF Sums
    <3>2. r[0] \in Int
      OBVIOUS
    <3>3. QED
      BY <2>3, <3>1, <3>2
  <2>5. k - 1 \in 0 .. m - 1 /\ ~ (k <= k - 1) /\ k \in 1 .. m - 1 /\ (k - 1) + 1 = k
    BY <2>3, <2>4
  <2>6. u[k] = r[0] + s[k - 1]
    BY <2>2, <2>5
  <2>7. u[k + 1] = u[k] + r[k]
    <3>1. k + 1 \in 0 .. m /\ k + 1 # 0 /\ (k + 1) - 1 = k
      BY <2>3
    <3>2. QED
      BY <1>2, <3>1 DEF Sums
  <2>8. s[k] = s[k - 1] + t[k - 1]
    <3>1. k \in 0 .. m /\ k # 0
      BY <2>5
    <3>2. QED
      BY <1>1, <3>1 DEF Sums
  <2>9. r[k] = t[k - 1] /\ t[k - 1] \in Int /\ r[0] \in Int /\ s[k - 1] \in Int
    <3>1. k - 1 \in 0 .. m
      BY <2>5
    <3>2. QED
      BY <1>3, <2>5, <3>1
  <2>10. QED
    BY <2>3, <2>6, <2>7, <2>8, <2>9
<1>5. u[m] = r[0] + s[m - 1]
  <2>1. m - 1 \in 0 .. m - 1 /\ (m - 1) + 1 = m
    OBVIOUS
  <2>2. QED
    BY <1>4, <2>1
<1>6. s[m] = s[m - 1] + t[m - 1]
  <2>1. m \in 0 .. m /\ m # 0
    OBVIOUS
  <2>2. QED
    BY <1>1, <2>1 DEF Sums
<1>7. s[m - 1] \in Int
  <2>1. m - 1 \in 0 .. m
    OBVIOUS
  <2>2. QED
    BY <1>3, <2>1
<1>8. QED
  BY <1>1, <1>2, <1>5, <1>6, <1>7

(* All terms with the other sign.                                           *)
LEMMA TotalNegated ==
  ASSUME NEW m \in Nat, NEW t \in [0 .. m - 1 -> Int], NEW r \in [0 .. m - 1 -> Int],
         \A j \in 0 .. m - 1 : r[j] = -t[j]
  PROVE  Total(r, m) = -Total(t, m)
<1>1. PICK s : Sums(s, t, m) /\ Total(t, m) = s[m]
  BY TotalIs
<1>2. PICK u : Sums(u, r, m) /\ Total(r, m) = u[m]
  BY TotalIs
<1>3. (\A k \in 0 .. m : s[k] \in Int) /\ \A k \in 0 .. m : u[k] \in Int
  BY <1>1, <1>2, SumsAreNumbers
<1> DEFINE Bad == {k \in 0 .. m : u[k] # -s[k]}
<1>4. SUFFICES ASSUME Bad # {} PROVE FALSE
  <2>1. m \in 0 .. m
    OBVIOUS
  <2>2. QED
    BY <1>1, <1>2, <2>1
<1>5. PICK k \in Bad : \A l \in Bad : k <= l
  <2>1. Bad \subseteq Nat
    OBVIOUS
  <2>2. QED
    BY <1>4, <2>1, Least
<1>6. k \in 0 .. m /\ u[k] # -s[k]
  BY <1>5
<1>7. k # 0
  <2>1. s[0] = 0 /\ u[0] = 0
    BY <1>1, <1>2 DEF Sums
  <2>2. QED
    BY <1>6, <2>1
<1>8. k - 1 \in 0 .. m - 1 /\ k - 1 \in 0 .. m /\ ~ (k <= k - 1)
  BY <1>6, <1>7
<1>9. u[k - 1] = -s[k - 1] /\ r[k - 1] = -t[k - 1]
  BY <1>5, <1>8
<1>10. u[k] = u[k - 1] + r[k - 1] /\ s[k] = s[k - 1] + t[k - 1]
  BY <1>1, <1>2, <1>6, <1>7 DEF Sums
<1>11. s[k - 1] \in Int /\ t[k - 1] \in Int
  BY <1>3, <1>8
<1>12. QED
  BY <1>6, <1>9, <1>10, <1>11

(***************************************************************************)
(* Polynomials with m coefficients, modulo x^m + 1                          *)
(***************************************************************************)
Zero(m) == [i \in 0 .. m - 1 |-> 0]

One(m) == [i \in 0 .. m - 1 |-> IF i = 0 THEN 1 ELSE 0]

Added(a, b, m) == [i \in 0 .. m - 1 |-> a[i] + b[i]]

Scaled(c, a, m) == [i \in 0 .. m - 1 |-> c * a[i]]

(* x * a *)
Shifted(a, m) == [i \in 0 .. m - 1 |-> IF i = 0 THEN -a[m - 1] ELSE a[i - 1]]

(* c + x * a, where the last coefficient of a is 0. *)
Step(c, a, m) == [i \in 0 .. m - 1 |-> IF i = 0 THEN c ELSE a[i - 1]]

Terms(a, b, m, i) ==
  [j \in 0 .. m - 1 |-> IF j <= i THEN a[j] * b[i - j] ELSE -a[j] * b[m + i - j]]

Times(a, b, m) == [i \in 0 .. m - 1 |-> Total(Terms(a, b, m, i), m)]

LEMMA Same ==
  ASSUME NEW m, NEW a \in Polynomial(m), NEW b \in Polynomial(m), \A i \in 0 .. m - 1 : a[i] = b[i]
  PROVE  a = b
<1>1. a = [i \in 0 .. m - 1 |-> a[i]] /\ b = [i \in 0 .. m - 1 |-> b[i]]
  BY Zenon DEF Polynomial
<1>2. [i \in 0 .. m - 1 |-> a[i]] = [i \in 0 .. m - 1 |-> b[i]]
  BY Zenon
<1>3. QED
  BY <1>1, <1>2, Zenon

LEMMA AddedIs ==
  ASSUME NEW m \in Nat \ {0}, NEW a \in Polynomial(m), NEW b \in Polynomial(m)
  PROVE  Added(a, b, m) \in Polynomial(m)
BY DEF Polynomial, Added

LEMMA ScaledIs ==
  ASSUME NEW m \in Nat \ {0}, NEW a \in Polynomial(m), NEW c \in Int
  PROVE  Scaled(c, a, m) \in Polynomial(m)
<1>1. ASSUME NEW i \in 0 .. m - 1 PROVE c * a[i] \in Int
  BY DEF Polynomial
<1>2. QED
  BY <1>1 DEF Polynomial, Scaled

LEMMA ShiftedIs ==
  ASSUME NEW m \in Nat \ {0}, NEW a \in Polynomial(m)
  PROVE  Shifted(a, m) \in Polynomial(m)
<1>1. ASSUME NEW i \in 0 .. m - 1 PROVE (IF i = 0 THEN -a[m - 1] ELSE a[i - 1]) \in Int
  <2>1. m - 1 \in 0 .. m - 1 /\ (i # 0 => i - 1 \in 0 .. m - 1)
    OBVIOUS
  <2>2. QED
    BY <2>1 DEF Polynomial
<1>2. QED
  BY <1>1 DEF Polynomial, Shifted

LEMMA StepIs ==
  ASSUME NEW m \in Nat \ {0}, NEW a \in Polynomial(m), NEW c \in Int
  PROVE  Step(c, a, m) \in Polynomial(m)
<1>1. ASSUME NEW i \in 0 .. m - 1 PROVE (IF i = 0 THEN c ELSE a[i - 1]) \in Int
  <2>1. i # 0 => i - 1 \in 0 .. m - 1
    OBVIOUS
  <2>2. QED
    BY <2>1 DEF Polynomial
<1>2. QED
  BY <1>1 DEF Polynomial, Step

LEMMA ConstantsAre ==
  ASSUME NEW m \in Nat \ {0}
  PROVE  Zero(m) \in Polynomial(m) /\ One(m) \in Polynomial(m)
BY DEF Polynomial, Zero, One

LEMMA TermIs ==
  ASSUME NEW m \in Nat \ {0}, NEW a \in Polynomial(m), NEW b \in Polynomial(m),
         NEW i \in 0 .. m - 1, NEW j \in 0 .. m - 1
  PROVE  /\ a[j] \in Int
         /\ j <= i => b[i - j] \in Int
         /\ ~ (j <= i) => b[m + i - j] \in Int
<1>1. j <= i => i - j \in 0 .. m - 1
  OBVIOUS
<1>2. ~ (j <= i) => m + i - j \in 0 .. m - 1
  OBVIOUS
<1>3. QED
  BY <1>1, <1>2 DEF Polynomial

LEMMA TermsAre ==
  ASSUME NEW m \in Nat \ {0}, NEW a \in Polynomial(m), NEW b \in Polynomial(m),
         NEW i \in 0 .. m - 1
  PROVE  Terms(a, b, m, i) \in [0 .. m - 1 -> Int]
<1>1. ASSUME NEW j \in 0 .. m - 1
      PROVE  (IF j <= i THEN a[j] * b[i - j] ELSE -a[j] * b[m + i - j]) \in Int
  <2>1. CASE j <= i
    <3>1. a[j] \in Int /\ b[i - j] \in Int
      BY <2>1, TermIs
    <3>2. QED
      BY <2>1, <3>1
  <2>2. CASE ~ (j <= i)
    <3>1. a[j] \in Int /\ b[m + i - j] \in Int
      BY <2>2, TermIs
    <3>2. QED
      BY <2>2, <3>1
  <2>3. QED
    BY <2>1, <2>2
<1>2. QED
  BY <1>1 DEF Terms

LEMMA TimesIs ==
  ASSUME NEW m \in Nat \ {0}, NEW a \in Polynomial(m), NEW b \in Polynomial(m)
  PROVE  Times(a, b, m) \in Polynomial(m)
<1>1. ASSUME NEW i \in 0 .. m - 1 PROVE Total(Terms(a, b, m, i), m) \in Int
  BY TermsAre, TotalIsNumber
<1>2. QED
  BY <1>1 DEF Times, Polynomial

(* A product begins with 0 if one factor does.                              *)
LEMMA TimesZero ==
  ASSUME NEW m \in Nat \ {0}, NEW b \in Polynomial(m)
  PROVE  Times(Zero(m), b, m) = Zero(m)
<1>1. ASSUME NEW i \in 0 .. m - 1 PROVE Total(Terms(Zero(m), b, m, i), m) = 0
  <2>1. ASSUME NEW j \in 0 .. m - 1 PROVE Terms(Zero(m), b, m, i)[j] = 0
    <3>1. /\ Terms(Zero(m), b, m, i)[j]
              = IF j <= i THEN Zero(m)[j] * b[i - j] ELSE -Zero(m)[j] * b[m + i - j]
          /\ Zero(m)[j] = 0
      BY DEF Terms, Zero
    <3>2. (j <= i => b[i - j] \in Int) /\ (~ (j <= i) => b[m + i - j] \in Int)
      BY ConstantsAre, TermIs
    <3>3. QED
      BY <3>1, <3>2
  <2>2. QED
    BY <2>1, TotalOfNone
<1>2. QED
  BY <1>1 DEF Times, Zero

(* (c + x * a) * b = c * b + x * (a * b) *)
LEMMA TimesStep ==
  ASSUME NEW m \in Nat \ {0}, NEW a \in Polynomial(m), NEW b \in Polynomial(m), NEW c \in Int,
         a[m - 1] = 0
  PROVE  Times(Step(c, a, m), b, m) = Added(Scaled(c, b, m), Shifted(Times(a, b, m), m), m)
<1>1. Step(c, a, m) \in Polynomial(m)
  BY StepIs
<1>2. ASSUME NEW i \in 0 .. m - 1
      PROVE  Total(Terms(Step(c, a, m), b, m, i), m)
               = c * b[i] + (IF i = 0 THEN -Times(a, b, m)[m - 1] ELSE Times(a, b, m)[i - 1])
  <2> DEFINE r == Terms(Step(c, a, m), b, m, i)
  <2>1. r \in [0 .. m - 1 -> Int]
    BY <1>1, TermsAre
  <2>2. r[0] = c * b[i]
    <3>1. 0 \in 0 .. m - 1 /\ 0 <= i /\ i - 0 = i
      OBVIOUS
    <3>2. Step(c, a, m)[0] = c
      BY <3>1 DEF Step
    <3>3. QED
      BY <3>1, <3>2 DEF Terms
  <2>3. ASSUME NEW j \in 1 .. m - 1
        PROVE  r[j] = IF j <= i THEN a[j - 1] * b[i - j] ELSE -a[j - 1] * b[m + i - j]
    <3>1. j \in 0 .. m - 1 /\ j # 0
      OBVIOUS
    <3>2. Step(c, a, m)[j] = a[j - 1]
      BY <3>1 DEF Step
    <3>3. QED
      BY <3>1, <3>2 DEF Terms
  <2>4. CASE i # 0
    <3> DEFINE t == Terms(a, b, m, i - 1)
    <3>1. i - 1 \in 0 .. m - 1
      BY <2>4
    <3>2. t \in [0 .. m - 1 -> Int]
      BY <3>1, TermsAre
    <3>3. t[m - 1] = 0
      <4>1. m - 1 \in 0 .. m - 1 /\ ~ (m - 1 <= i - 1) /\ m + (i - 1) - (m - 1) \in 0 .. m - 1
        BY <2>4
      <4>2. b[m + (i - 1) - (m - 1)] \in Int
        BY <4>1 DEF Polynomial
      <4>3. t[m - 1] = -a[m - 1] * b[m + (i - 1) - (m - 1)]
        BY <4>1 DEF Terms
      <4>4. QED
        BY <4>2, <4>3
    <3>4. ASSUME NEW j \in 1 .. m - 1 PROVE r[j] = t[j - 1]
      <4>1. j - 1 \in 0 .. m - 1 /\ (j <= i <=> j - 1 <= i - 1)
            /\ (i - 1) - (j - 1) = i - j /\ m + (i - 1) - (j - 1) = m + i - j
        BY <3>1
      <4>2. t[j - 1] = IF j - 1 <= i - 1 THEN a[j - 1] * b[(i - 1) - (j - 1)]
                       ELSE -a[j - 1] * b[m + (i - 1) - (j - 1)]
        BY <4>1 DEF Terms
      <4>3. QED
        BY <2>3, <4>1, <4>2
    <3> HIDE DEF r, t
    <3>5. Total(r, m) = r[0] + Total(t, m)
      BY <2>1, <3>2, <3>3, <3>4, TotalMoved
    <3>6. Times(a, b, m)[i - 1] = Total(t, m)
      BY <3>1 DEF Times, t
    <3>7. QED
      BY <2>2, <2>4, <3>5, <3>6 DEF r
  <2>5. CASE i = 0
    <3> DEFINE t == Terms(a, b, m, m - 1)
               v == [j \in 0 .. m - 1 |-> -t[j]]
    <3>1. m - 1 \in 0 .. m - 1
      OBVIOUS
    <3>2. t \in [0 .. m - 1 -> Int]
      BY <3>1, TermsAre
    <3>3. ASSUME NEW j \in 0 .. m - 1 PROVE t[j] = a[j] * b[m - 1 - j] /\ b[m - 1 - j] \in Int /\ a[j] \in Int
      <4>1. j <= m - 1 /\ m - 1 - j \in 0 .. m - 1
        OBVIOUS
      <4>2. QED
        BY <4>1, <3>1 DEF Terms, Polynomial
    <3>4. v \in [0 .. m - 1 -> Int] /\ v[m - 1] = 0
      <4>1. t[m - 1] = 0
        BY <3>1, <3>3
      <4>2. ASSUME NEW j \in 0 .. m - 1 PROVE -t[j] \in Int
        BY <3>2
      <4>3. QED
        BY <3>1, <4>1, <4>2
    <3>5. ASSUME NEW j \in 1 .. m - 1 PROVE r[j] = v[j - 1]
      <4>1. j - 1 \in 0 .. m - 1 /\ ~ (j <= i) /\ m + i - j = m - 1 - (j - 1)
        BY <2>5
      <4>2. r[j] = -a[j - 1] * b[m - 1 - (j - 1)]
        BY <2>3, <4>1
      <4>3. /\ t[j - 1] = a[j - 1] * b[m - 1 - (j - 1)]
            /\ a[j - 1] \in Int /\ b[m - 1 - (j - 1)] \in Int
        BY <3>3, <4>1
      <4>4. v[j - 1] = -t[j - 1]
        BY <4>1
      <4>5. QED
        BY <4>2, <4>3, <4>4
    <3>6. \A j \in 0 .. m - 1 : v[j] = -t[j]
      OBVIOUS
    <3> HIDE DEF r, t, v
    <3>7. Total(r, m) = r[0] + Total(v, m)
      BY <2>1, <3>4, <3>5, TotalMoved
    <3>8. Total(v, m) = -Total(t, m)
      BY <3>2, <3>4, <3>6, TotalNegated
    <3>9. Times(a, b, m)[m - 1] = Total(t, m)
      BY <3>1 DEF Times, t
    <3>10. QED
      BY <2>2, <2>5, <3>7, <3>8, <3>9 DEF r
  <2>6. QED
    BY <2>4, <2>5
<1>3. ASSUME NEW i \in 0 .. m - 1
      PROVE  Times(Step(c, a, m), b, m)[i]
               = Added(Scaled(c, b, m), Shifted(Times(a, b, m), m), m)[i]
  <2>1. Times(Step(c, a, m), b, m)[i] = Total(Terms(Step(c, a, m), b, m, i), m)
    BY DEF Times
  <2>2. Added(Scaled(c, b, m), Shifted(Times(a, b, m), m), m)[i]
          = c * b[i] + (IF i = 0 THEN -Times(a, b, m)[m - 1] ELSE Times(a, b, m)[i - 1])
    BY DEF Added, Scaled, Shifted
  <2>3. QED
    BY <1>2, <2>1, <2>2
<1>4. Times(Step(c, a, m), b, m) \in Polynomial(m)
  BY <1>1, TimesIs
<1>5. Added(Scaled(c, b, m), Shifted(Times(a, b, m), m), m) \in Polynomial(m)
  BY TimesIs, ScaledIs, ShiftedIs, AddedIs
<1>6. QED
  BY <1>3, <1>4, <1>5, Same

(***************************************************************************)
(* A function of polynomials that can be computed by Horner's rule, with e  *)
(* in place of the multiplication by x, is known by its value u for 1.      *)
(***************************************************************************)
Horner(f, e, u, m, k) ==
  /\ f[Zero(m)] = Zero(k)
  /\ \A c \in Int, a \in Polynomial(m) :
       a[m - 1] = 0 => f[Step(c, a, m)] = Added(Scaled(c, u, k), e[f[a]], k)

LEMMA Unique ==
  ASSUME NEW m \in Nat \ {0}, NEW k, NEW e, NEW u, NEW f, NEW g,
         Horner(f, e, u, m, k), Horner(g, e, u, m, k)
  PROVE  \A a \in Polynomial(m) : f[a] = g[a]
<1> DEFINE Of(l) == {a \in Polynomial(m) : \A i \in 0 .. m - 1 : i >= l => a[i] = 0}
           Bad == {l \in 0 .. m : \E a \in Of(l) : f[a] # g[a]}
<1>1. SUFFICES ASSUME Bad # {} PROVE FALSE
  <2>1. m \in 0 .. m
    OBVIOUS
  <2>2. \A a \in Polynomial(m) : a \in Of(m)
    OBVIOUS
  <2>3. QED
    BY <2>1, <2>2
<1>2. PICK l \in Bad : \A j \in Bad : l <= j
  <2>1. Bad \subseteq Nat
    OBVIOUS
  <2>2. QED
    BY <1>1, <2>1, Least
<1>3. PICK a \in Of(l) : f[a] # g[a]
  BY <1>2
<1>4. l # 0
  <2>1. ASSUME l = 0 PROVE FALSE
    <3>1. \A i \in 0 .. m - 1 : a[i] = Zero(m)[i]
      BY <2>1 DEF Zero
    <3>2. a = Zero(m)
      BY <3>1, ConstantsAre, Same
    <3>3. QED
      BY <1>3, <3>2 DEF Horner
  <2>2. QED
    BY <2>1
<1> DEFINE t == [i \in 0 .. m - 1 |-> IF i = m - 1 THEN 0 ELSE a[i + 1]]
<1>5. /\ l \in 1 .. m /\ l - 1 \in 0 .. m /\ ~ (l <= l - 1)
      /\ a \in Polynomial(m) /\ \A i \in 0 .. m - 1 : i >= l => a[i] = 0
  BY <1>2, <1>3, <1>4
<1>6. t \in Of(l - 1)
  <2>1. ASSUME NEW i \in 0 .. m - 1
        PROVE  t[i] \in Int /\ (i >= l - 1 => t[i] = 0)
    <3>1. CASE i = m - 1
      BY <3>1
    <3>2. CASE i # m - 1
      <4>1. i + 1 \in 0 .. m - 1 /\ t[i] = a[i + 1] /\ (i >= l - 1 => i + 1 >= l)
        BY <3>2, <1>5
      <4>2. QED
        BY <4>1, <1>5 DEF Polynomial
    <3>3. QED
      BY <3>1, <3>2
  <2>2. QED
    BY <2>1 DEF Polynomial
<1>7. a[0] \in Int /\ t \in Polynomial(m) /\ t[m - 1] = 0
  <2>1. 0 \in 0 .. m - 1 /\ m - 1 \in 0 .. m - 1
    OBVIOUS
  <2>2. QED
    BY <1>5, <1>6, <2>1 DEF Polynomial
<1>8. a = Step(a[0], t, m)
  <2>1. ASSUME NEW i \in 0 .. m - 1 PROVE a[i] = Step(a[0], t, m)[i]
    <3>1. CASE i = 0
      BY <3>1 DEF Step
    <3>2. CASE i # 0
      <4>1. i - 1 \in 0 .. m - 1 /\ i - 1 # m - 1 /\ (i - 1) + 1 = i
        BY <3>2
      <4>2. t[i - 1] = a[i]
        BY <4>1
      <4>3. QED
        BY <3>2, <4>2 DEF Step
    <3>3. QED
      BY <3>1, <3>2
  <2>2. Step(a[0], t, m) \in Polynomial(m)
    BY <1>7, StepIs
  <2> HIDE DEF t
  <2>3. QED
    BY <1>5, <2>1, <2>2, Same
<1>9. f[t] = g[t]
  BY <1>2, <1>5, <1>6
<1> HIDE DEF t
<1>10. /\ f[Step(a[0], t, m)] = Added(Scaled(a[0], u, k), e[f[t]], k)
       /\ g[Step(a[0], t, m)] = Added(Scaled(a[0], u, k), e[g[t]], k)
  BY <1>7 DEF Horner
<1>11. QED
  BY <1>3, <1>8, <1>9, <1>10

(***************************************************************************)
(* The laws of this ring                                                    *)
(***************************************************************************)

(* Coefficients of what is below. *)
LEMMA CoefficientIs ==
  ASSUME NEW m \in Nat \ {0}, NEW a \in Polynomial(m), NEW i \in 0 .. m - 1
  PROVE  a[i] \in Int /\ a[m - 1] \in Int /\ (i # 0 => a[i - 1] \in Int)
<1>1. m - 1 \in 0 .. m - 1 /\ (i # 0 => i - 1 \in 0 .. m - 1)
  OBVIOUS
<1>2. QED
  BY <1>1 DEF Polynomial

LEMMA AddedAt ==
  ASSUME NEW m \in Nat \ {0}, NEW a, NEW b, NEW i \in 0 .. m - 1
  PROVE  Added(a, b, m)[i] = a[i] + b[i]
BY DEF Added

LEMMA ScaledAt ==
  ASSUME NEW m \in Nat \ {0}, NEW a, NEW c, NEW i \in 0 .. m - 1
  PROVE  Scaled(c, a, m)[i] = c * a[i]
BY DEF Scaled

LEMMA ShiftedAt ==
  ASSUME NEW m \in Nat \ {0}, NEW a, NEW i \in 0 .. m - 1
  PROVE  Shifted(a, m)[i] = IF i = 0 THEN -a[m - 1] ELSE a[i - 1]
BY DEF Shifted

LEMMA Distribute == ASSUME NEW c \in Int, NEW x \in Int, NEW y \in Int PROVE c * (x + y) = c * x + c * y
OBVIOUS

LEMMA Reorder == ASSUME NEW c \in Int, NEW d \in Int, NEW x \in Int PROVE d * (c * x) = c * (d * x)
OBVIOUS

LEMMA ScaledIsAdditive ==
  ASSUME NEW m \in Nat \ {0}, NEW a \in Polynomial(m), NEW b \in Polynomial(m), NEW c \in Int
  PROVE  Scaled(c, Added(a, b, m), m) = Added(Scaled(c, a, m), Scaled(c, b, m), m)
<1>1. ASSUME NEW i \in 0 .. m - 1
      PROVE  Scaled(c, Added(a, b, m), m)[i] = Added(Scaled(c, a, m), Scaled(c, b, m), m)[i]
  <2>1. a[i] \in Int /\ b[i] \in Int
    BY CoefficientIs
  <2>2. c * (a[i] + b[i]) = c * a[i] + c * b[i]
    BY <2>1, Distribute
  <2>3. QED
    BY <2>2 DEF Scaled, Added
<1>2. QED
  BY <1>1, AddedIs, ScaledIs, Same

LEMMA ShiftedIsAdditive ==
  ASSUME NEW m \in Nat \ {0}, NEW a \in Polynomial(m), NEW b \in Polynomial(m)
  PROVE  Shifted(Added(a, b, m), m) = Added(Shifted(a, m), Shifted(b, m), m)
<1>1. ASSUME NEW i \in 0 .. m - 1
      PROVE  Shifted(Added(a, b, m), m)[i] = Added(Shifted(a, m), Shifted(b, m), m)[i]
  <2>1. /\ a[m - 1] \in Int /\ b[m - 1] \in Int
        /\ i # 0 => a[i - 1] \in Int /\ b[i - 1] \in Int
    BY CoefficientIs
  <2>2. m - 1 \in 0 .. m - 1 /\ (i # 0 => i - 1 \in 0 .. m - 1)
    OBVIOUS
  <2>3. QED
    BY <2>1, <2>2 DEF Shifted, Added
<1>2. QED
  BY <1>1, AddedIs, ShiftedIs, Same

LEMMA ShiftedScaled ==
  ASSUME NEW m \in Nat \ {0}, NEW a \in Polynomial(m), NEW c \in Int
  PROVE  Shifted(Scaled(c, a, m), m) = Scaled(c, Shifted(a, m), m)
<1>1. ASSUME NEW i \in 0 .. m - 1
      PROVE  Shifted(Scaled(c, a, m), m)[i] = Scaled(c, Shifted(a, m), m)[i]
  <2>1. a[m - 1] \in Int /\ m - 1 \in 0 .. m - 1 /\ (i # 0 => i - 1 \in 0 .. m - 1)
    BY CoefficientIs
  <2>2. c * (-a[m - 1]) = -(c * a[m - 1])
    BY <2>1
  <2>3. QED
    BY <2>1, <2>2 DEF Shifted, Scaled
<1>2. QED
  BY <1>1, ScaledIs, ShiftedIs, Same

LEMMA ScaledTwice ==
  ASSUME NEW m \in Nat \ {0}, NEW a \in Polynomial(m), NEW c \in Int, NEW d \in Int
  PROVE  Scaled(d, Scaled(c, a, m), m) = Scaled(c, Scaled(d, a, m), m)
<1>1. ASSUME NEW i \in 0 .. m - 1
      PROVE  Scaled(d, Scaled(c, a, m), m)[i] = Scaled(c, Scaled(d, a, m), m)[i]
  <2>1. a[i] \in Int
    BY CoefficientIs
  <2>2. d * (c * a[i]) = c * (d * a[i])
    BY <2>1, Reorder
  <2>3. QED
    BY <2>2 DEF Scaled
<1>2. QED
  BY <1>1, ScaledIs, Same

(* Sums in another order. *)
LEMMA AddedAcross ==
  ASSUME NEW m \in Nat \ {0}, NEW a \in Polynomial(m), NEW b \in Polynomial(m),
         NEW c \in Polynomial(m), NEW d \in Polynomial(m)
  PROVE  Added(Added(a, b, m), Added(c, d, m), m) = Added(Added(a, c, m), Added(b, d, m), m)
<1>1. ASSUME NEW i \in 0 .. m - 1
      PROVE  Added(Added(a, b, m), Added(c, d, m), m)[i] = Added(Added(a, c, m), Added(b, d, m), m)[i]
  <2>1. a[i] \in Int /\ b[i] \in Int /\ c[i] \in Int /\ d[i] \in Int
    BY CoefficientIs
  <2>2. QED
    BY <2>1 DEF Added
<1>2. /\ Added(a, b, m) \in Polynomial(m) /\ Added(c, d, m) \in Polynomial(m)
      /\ Added(a, c, m) \in Polynomial(m) /\ Added(b, d, m) \in Polynomial(m)
  BY AddedIs
<1>3. /\ Added(Added(a, b, m), Added(c, d, m), m) \in Polynomial(m)
      /\ Added(Added(a, c, m), Added(b, d, m), m) \in Polynomial(m)
  BY ONLY <1>2, AddedIs, m \in Nat \ {0}
<1>4. QED
  BY <1>1, <1>3, Same

LEMMA MinusNothing == ASSUME NEW x \in Int, x <= 0, x >= 0 PROVE -x = 0
OBVIOUS

LEMMA Nothing ==
  ASSUME NEW m \in Nat \ {0}
  PROVE  /\ Added(Zero(m), Zero(m), m) = Zero(m)
         /\ Shifted(Zero(m), m) = Zero(m)
         /\ \A a \in Polynomial(m) : Scaled(0, a, m) = Zero(m)
         /\ \A c \in Int : Scaled(c, Zero(m), m) = Zero(m)
<1>1. m - 1 \in 0 .. m - 1 /\ \A i \in 0 .. m - 1 : i # 0 => i - 1 \in 0 .. m - 1
  OBVIOUS
<1>2. Added(Zero(m), Zero(m), m) = Zero(m)
  BY DEF Added, Zero
<1>3. Shifted(Zero(m), m) = Zero(m)
  <2>1. ASSUME NEW i \in 0 .. m - 1 PROVE Shifted(Zero(m), m)[i] = Zero(m)[i]
    <3>1. Shifted(Zero(m), m)[i] = IF i = 0 THEN -Zero(m)[m - 1] ELSE Zero(m)[i - 1]
      BY ShiftedAt
    <3>2. \A j \in 0 .. m - 1 : Zero(m)[j] = 0
      BY DEF Zero
    <3>3. Zero(m)[m - 1] = 0 /\ (i # 0 => Zero(m)[i - 1] = 0) /\ Zero(m)[i] = 0
      <4>1. m - 1 \in 0 .. m - 1 /\ (i # 0 => i - 1 \in 0 .. m - 1) /\ i \in 0 .. m - 1
        BY <1>1
      <4>2. QED
        BY ONLY <3>2, <4>1
    <3>4. -Zero(m)[m - 1] = 0
      <4>1. Zero(m)[m - 1] \in Int /\ Zero(m)[m - 1] <= 0 /\ Zero(m)[m - 1] >= 0
        BY ONLY <3>3
      <4>2. QED
        BY ONLY <4>1, MinusNothing, Zenon
    <3>5. CASE i = 0
      BY ONLY <3>1, <3>3, <3>4, <3>5
    <3>6. CASE i # 0
      BY ONLY <3>1, <3>3, <3>6
    <3>7. QED
      BY ONLY <3>5, <3>6
  <2>2. QED
    BY <2>1, ConstantsAre, ShiftedIs, Same
<1>4. ASSUME NEW a \in Polynomial(m) PROVE Scaled(0, a, m) = Zero(m)
  <2>1. \A i \in 0 .. m - 1 : 0 * a[i] = 0
    BY DEF Polynomial
  <2>2. QED
    BY <2>1 DEF Scaled, Zero
<1>5. ASSUME NEW c \in Int PROVE Scaled(c, Zero(m), m) = Zero(m)
  <2>1. c * 0 = 0
    OBVIOUS
  <2>2. QED
    BY <2>1 DEF Scaled, Zero
<1>6. QED
  BY <1>2, <1>3, <1>4, <1>5

LEMMA StepSplits ==
  ASSUME NEW m \in Nat \ {0}, NEW a \in Polynomial(m), NEW c \in Int, a[m - 1] = 0
  PROVE  Step(c, a, m) = Added(Scaled(c, One(m), m), Shifted(a, m), m)
<1>1. ASSUME NEW i \in 0 .. m - 1
      PROVE  Step(c, a, m)[i] = Added(Scaled(c, One(m), m), Shifted(a, m), m)[i]
  <2>1. i # 0 => a[i - 1] \in Int
    BY CoefficientIs
  <2>2. Added(Scaled(c, One(m), m), Shifted(a, m), m)[i]
          = c * (IF i = 0 THEN 1 ELSE 0) + (IF i = 0 THEN -a[m - 1] ELSE a[i - 1])
    BY DEF Added, Scaled, Shifted, One
  <2>3. Step(c, a, m)[i] = IF i = 0 THEN c ELSE a[i - 1]
    BY DEF Step
  <2>4. QED
    BY <2>1, <2>2, <2>3
<1>2. Scaled(c, One(m), m) \in Polynomial(m) /\ Shifted(a, m) \in Polynomial(m)
  BY ConstantsAre, ScaledIs, ShiftedIs
<1>3. Added(Scaled(c, One(m), m), Shifted(a, m), m) \in Polynomial(m)
  BY <1>2, AddedIs
<1>4. Step(c, a, m) \in Polynomial(m)
  BY StepIs
<1>5. QED
  BY <1>1, <1>3, <1>4, Same

LEMMA TimesIsHorner ==
  ASSUME NEW m \in Nat \ {0}, NEW b \in Polynomial(m)
  PROVE  Horner([a \in Polynomial(m) |-> Times(a, b, m)],
                [a \in Polynomial(m) |-> Shifted(a, m)], b, m, m)
<1> DEFINE f == [a \in Polynomial(m) |-> Times(a, b, m)]
           e == [a \in Polynomial(m) |-> Shifted(a, m)]
<1>1. f[Zero(m)] = Zero(m)
  BY ConstantsAre, TimesZero
<1>2. ASSUME NEW c \in Int, NEW a \in Polynomial(m), a[m - 1] = 0
      PROVE  f[Step(c, a, m)] = Added(Scaled(c, b, m), e[f[a]], m)
  <2>1. Step(c, a, m) \in Polynomial(m) /\ Times(a, b, m) \in Polynomial(m)
    BY StepIs, TimesIs
  <2>2. Times(Step(c, a, m), b, m) = Added(Scaled(c, b, m), Shifted(Times(a, b, m), m), m)
    BY <1>2, TimesStep
  <2>3. f[Step(c, a, m)] = Times(Step(c, a, m), b, m) /\ e[f[a]] = Shifted(Times(a, b, m), m)
    BY <2>1
  <2>4. QED
    BY <2>2, <2>3
<1>3. QED
  BY <1>1, <1>2 DEF Horner

LEMMA TimesAdded ==
  ASSUME NEW m \in Nat \ {0}, NEW a \in Polynomial(m), NEW b \in Polynomial(m), NEW d \in Polynomial(m)
  PROVE  Times(a, Added(b, d, m), m) = Added(Times(a, b, m), Times(a, d, m), m)
<1> DEFINE f == [p \in Polynomial(m) |-> Times(p, Added(b, d, m), m)]
           g == [p \in Polynomial(m) |-> Added(Times(p, b, m), Times(p, d, m), m)]
           e == [p \in Polynomial(m) |-> Shifted(p, m)]
           u == Added(b, d, m)
<1>1. u \in Polynomial(m)
  BY AddedIs
<1>2. Horner(f, e, u, m, m)
  BY <1>1, TimesIsHorner
<1>3. g[Zero(m)] = Zero(m)
  BY ConstantsAre, TimesZero, Nothing
<1>4. ASSUME NEW c \in Int, NEW p \in Polynomial(m), p[m - 1] = 0
      PROVE  g[Step(c, p, m)] = Added(Scaled(c, u, m), e[g[p]], m)
  <2>1. PICK x \in Polynomial(m), y \in Polynomial(m) : x = Times(p, b, m) /\ y = Times(p, d, m)
    BY TimesIs
  <2>2. /\ Times(Step(c, p, m), b, m) = Added(Scaled(c, b, m), Shifted(x, m), m)
        /\ Times(Step(c, p, m), d, m) = Added(Scaled(c, d, m), Shifted(y, m), m)
    BY <1>4, <2>1, TimesStep
  <2>3. g[Step(c, p, m)] = Added(Times(Step(c, p, m), b, m), Times(Step(c, p, m), d, m), m)
    BY StepIs
  <2>4. g[p] = Added(x, y, m) /\ e[g[p]] = Shifted(Added(x, y, m), m)
    BY <2>1, AddedIs
  <2>5. /\ Scaled(c, b, m) \in Polynomial(m) /\ Scaled(c, d, m) \in Polynomial(m)
        /\ Shifted(x, m) \in Polynomial(m) /\ Shifted(y, m) \in Polynomial(m)
    BY ScaledIs, ShiftedIs
  <2>6. g[Step(c, p, m)] = Added(Added(Scaled(c, b, m), Scaled(c, d, m), m),
                                 Added(Shifted(x, m), Shifted(y, m), m), m)
    BY <2>2, <2>3, <2>5, AddedAcross
  <2>7. QED
    BY <2>4, <2>6, ScaledIsAdditive, ShiftedIsAdditive
<1>5. Horner(g, e, u, m, m)
  BY <1>3, <1>4 DEF Horner
<1>6. f[a] = g[a]
  BY <1>2, <1>5, Unique
<1>7. QED
  BY <1>6

LEMMA TimesShifted ==
  ASSUME NEW m \in Nat \ {0}, NEW a \in Polynomial(m), NEW b \in Polynomial(m)
  PROVE  Times(a, Shifted(b, m), m) = Shifted(Times(a, b, m), m)
<1> DEFINE f == [p \in Polynomial(m) |-> Times(p, Shifted(b, m), m)]
           g == [p \in Polynomial(m) |-> Shifted(Times(p, b, m), m)]
           e == [p \in Polynomial(m) |-> Shifted(p, m)]
           u == Shifted(b, m)
<1>1. u \in Polynomial(m)
  BY ShiftedIs
<1>2. Horner(f, e, u, m, m)
  BY <1>1, TimesIsHorner
<1>3. g[Zero(m)] = Zero(m)
  BY ConstantsAre, TimesZero, Nothing
<1>4. ASSUME NEW c \in Int, NEW p \in Polynomial(m), p[m - 1] = 0
      PROVE  g[Step(c, p, m)] = Added(Scaled(c, u, m), e[g[p]], m)
  <2>1. PICK x \in Polynomial(m) : x = Times(p, b, m)
    BY TimesIs
  <2>2. Times(Step(c, p, m), b, m) = Added(Scaled(c, b, m), Shifted(x, m), m)
    BY <1>4, <2>1, TimesStep
  <2>3. g[Step(c, p, m)] = Shifted(Times(Step(c, p, m), b, m), m)
    BY StepIs
  <2>4. g[p] = Shifted(x, m) /\ e[g[p]] = Shifted(Shifted(x, m), m)
    BY <2>1, ShiftedIs
  <2>5. Scaled(c, b, m) \in Polynomial(m) /\ Shifted(x, m) \in Polynomial(m)
    BY ScaledIs, ShiftedIs
  <2>6. g[Step(c, p, m)] = Added(Shifted(Scaled(c, b, m), m), Shifted(Shifted(x, m), m), m)
    BY <2>2, <2>3, <2>5, ShiftedIsAdditive
  <2>7. QED
    BY <2>4, <2>6, ShiftedScaled
<1>5. Horner(g, e, u, m, m)
  BY <1>3, <1>4 DEF Horner
<1>6. f[a] = g[a]
  BY <1>2, <1>5, Unique
<1>7. QED
  BY <1>6

LEMMA TimesScaled ==
  ASSUME NEW m \in Nat \ {0}, NEW a \in Polynomial(m), NEW b \in Polynomial(m), NEW d \in Int
  PROVE  Times(a, Scaled(d, b, m), m) = Scaled(d, Times(a, b, m), m)
<1> DEFINE f == [p \in Polynomial(m) |-> Times(p, Scaled(d, b, m), m)]
           g == [p \in Polynomial(m) |-> Scaled(d, Times(p, b, m), m)]
           e == [p \in Polynomial(m) |-> Shifted(p, m)]
           u == Scaled(d, b, m)
<1>1. u \in Polynomial(m)
  BY ScaledIs
<1>2. Horner(f, e, u, m, m)
  BY <1>1, TimesIsHorner
<1>3. g[Zero(m)] = Zero(m)
  BY ConstantsAre, TimesZero, Nothing
<1>4. ASSUME NEW c \in Int, NEW p \in Polynomial(m), p[m - 1] = 0
      PROVE  g[Step(c, p, m)] = Added(Scaled(c, u, m), e[g[p]], m)
  <2>1. PICK x \in Polynomial(m) : x = Times(p, b, m)
    BY TimesIs
  <2>2. Times(Step(c, p, m), b, m) = Added(Scaled(c, b, m), Shifted(x, m), m)
    BY <1>4, <2>1, TimesStep
  <2>3. g[Step(c, p, m)] = Scaled(d, Times(Step(c, p, m), b, m), m)
    BY StepIs
  <2>4. g[p] = Scaled(d, x, m) /\ e[g[p]] = Shifted(Scaled(d, x, m), m)
    BY <2>1, ScaledIs
  <2>5. Scaled(c, b, m) \in Polynomial(m) /\ Shifted(x, m) \in Polynomial(m)
    BY ScaledIs, ShiftedIs
  <2>6. g[Step(c, p, m)] = Added(Scaled(d, Scaled(c, b, m), m), Scaled(d, Shifted(x, m), m), m)
    BY <2>2, <2>3, <2>5, ScaledIsAdditive
  <2>7. Scaled(d, Scaled(c, b, m), m) = Scaled(c, u, m)
    BY ScaledTwice
  <2>8. QED
    BY <2>4, <2>6, <2>7, ShiftedScaled
<1>5. Horner(g, e, u, m, m)
  BY <1>3, <1>4 DEF Horner
<1>6. f[a] = g[a]
  BY <1>2, <1>5, Unique
<1>7. QED
  BY <1>6

LEMMA TimesOne ==
  ASSUME NEW m \in Nat \ {0}, NEW a \in Polynomial(m)
  PROVE  Times(a, One(m), m) = a
<1> DEFINE f == [p \in Polynomial(m) |-> Times(p, One(m), m)]
           g == [p \in Polynomial(m) |-> p]
           e == [p \in Polynomial(m) |-> Shifted(p, m)]
<1>1. Horner(f, e, One(m), m, m)
  BY ConstantsAre, TimesIsHorner
<1>2. g[Zero(m)] = Zero(m)
  BY ConstantsAre
<1>3. ASSUME NEW c \in Int, NEW p \in Polynomial(m), p[m - 1] = 0
      PROVE  g[Step(c, p, m)] = Added(Scaled(c, One(m), m), e[g[p]], m)
  <2>1. g[Step(c, p, m)] = Step(c, p, m) /\ e[g[p]] = Shifted(p, m)
    BY StepIs
  <2>2. QED
    BY <1>3, <2>1, StepSplits
<1>4. Horner(g, e, One(m), m, m)
  BY <1>2, <1>3 DEF Horner
<1>5. f[a] = g[a]
  BY <1>1, <1>4, Unique
<1>6. QED
  BY <1>5

LEMMA Commutes ==
  ASSUME NEW m \in Nat \ {0}, NEW a \in Polynomial(m), NEW b \in Polynomial(m)
  PROVE  Times(a, b, m) = Times(b, a, m)
<1> DEFINE f == [p \in Polynomial(m) |-> Times(p, b, m)]
           g == [p \in Polynomial(m) |-> Times(b, p, m)]
           e == [p \in Polynomial(m) |-> Shifted(p, m)]
<1>1. Horner(f, e, b, m, m)
  BY TimesIsHorner
<1>2. g[Zero(m)] = Zero(m)
  <2>1. Times(b, Zero(m), m) = Times(b, Scaled(0, Zero(m), m), m)
    BY ConstantsAre, Nothing
  <2>2. Times(b, Scaled(0, Zero(m), m), m) = Scaled(0, Times(b, Zero(m), m), m)
    BY ConstantsAre, TimesScaled
  <2>3. Scaled(0, Times(b, Zero(m), m), m) = Zero(m)
    BY ConstantsAre, TimesIs, Nothing
  <2>4. QED
    BY <2>1, <2>2, <2>3, ConstantsAre
<1>3. ASSUME NEW c \in Int, NEW p \in Polynomial(m), p[m - 1] = 0
      PROVE  g[Step(c, p, m)] = Added(Scaled(c, b, m), e[g[p]], m)
  <2>1. g[Step(c, p, m)] = Times(b, Step(c, p, m), m)
    BY StepIs
  <2>2. e[g[p]] = Shifted(Times(b, p, m), m)
    BY TimesIs
  <2>3. Step(c, p, m) = Added(Scaled(c, One(m), m), Shifted(p, m), m)
    BY <1>3, StepSplits
  <2>4. Scaled(c, One(m), m) \in Polynomial(m) /\ Shifted(p, m) \in Polynomial(m)
    BY ConstantsAre, ScaledIs, ShiftedIs
  <2>5. Times(b, Step(c, p, m), m)
          = Added(Times(b, Scaled(c, One(m), m), m), Times(b, Shifted(p, m), m), m)
    BY <2>3, <2>4, TimesAdded
  <2>6. Times(b, Scaled(c, One(m), m), m) = Scaled(c, b, m)
    BY ConstantsAre, TimesScaled, TimesOne
  <2>7. Times(b, Shifted(p, m), m) = Shifted(Times(b, p, m), m)
    BY TimesShifted
  <2>8. QED
    BY <2>1, <2>2, <2>5, <2>6, <2>7
<1>4. Horner(g, e, b, m, m)
  BY <1>2, <1>3 DEF Horner
<1>5. f[a] = g[a]
  BY <1>1, <1>4, Unique
<1>6. QED
  BY <1>5

LEMMA AddedTimes ==
  ASSUME NEW m \in Nat \ {0}, NEW a \in Polynomial(m), NEW b \in Polynomial(m), NEW d \in Polynomial(m)
  PROVE  Times(Added(a, b, m), d, m) = Added(Times(a, d, m), Times(b, d, m), m)
BY AddedIs, Commutes, TimesAdded

LEMMA ShiftedTimes ==
  ASSUME NEW m \in Nat \ {0}, NEW a \in Polynomial(m), NEW b \in Polynomial(m)
  PROVE  Times(Shifted(a, m), b, m) = Shifted(Times(a, b, m), m)
BY ShiftedIs, Commutes, TimesShifted

LEMMA ScaledTimes ==
  ASSUME NEW m \in Nat \ {0}, NEW a \in Polynomial(m), NEW b \in Polynomial(m), NEW c \in Int
  PROVE  Times(Scaled(c, a, m), b, m) = Scaled(c, Times(a, b, m), m)
BY ScaledIs, Commutes, TimesScaled

LEMMA Associates ==
  ASSUME NEW m \in Nat \ {0}, NEW a \in Polynomial(m), NEW b \in Polynomial(m), NEW d \in Polynomial(m)
  PROVE  Times(Times(a, b, m), d, m) = Times(a, Times(b, d, m), m)
<1> DEFINE f == [p \in Polynomial(m) |-> Times(Times(p, b, m), d, m)]
           g == [p \in Polynomial(m) |-> Times(p, Times(b, d, m), m)]
           e == [p \in Polynomial(m) |-> Shifted(p, m)]
           u == Times(b, d, m)
<1>1. u \in Polynomial(m)
  BY TimesIs
<1>2. Horner(g, e, u, m, m)
  BY <1>1, TimesIsHorner
<1>3. f[Zero(m)] = Zero(m)
  BY ConstantsAre, TimesZero
<1>4. ASSUME NEW c \in Int, NEW p \in Polynomial(m), p[m - 1] = 0
      PROVE  f[Step(c, p, m)] = Added(Scaled(c, u, m), e[f[p]], m)
  <2>1. PICK x \in Polynomial(m) : x = Times(p, b, m)
    BY TimesIs
  <2>2. Times(Step(c, p, m), b, m) = Added(Scaled(c, b, m), Shifted(x, m), m)
    BY <1>4, <2>1, TimesStep
  <2>3. f[Step(c, p, m)] = Times(Times(Step(c, p, m), b, m), d, m)
    BY StepIs
  <2>4. f[p] = Times(x, d, m) /\ e[f[p]] = Shifted(Times(x, d, m), m)
    BY <2>1, TimesIs
  <2>5. Scaled(c, b, m) \in Polynomial(m) /\ Shifted(x, m) \in Polynomial(m)
    BY ScaledIs, ShiftedIs
  <2>6. f[Step(c, p, m)] = Added(Times(Scaled(c, b, m), d, m), Times(Shifted(x, m), d, m), m)
    BY <2>2, <2>3, <2>5, AddedTimes
  <2>7. QED
    BY <2>4, <2>6, ScaledTimes, ShiftedTimes
<1>5. Horner(f, e, u, m, m)
  BY <1>3, <1>4 DEF Horner
<1>6. f[a] = g[a]
  BY <1>2, <1>5, Unique
<1>7. QED
  BY <1>6


(***************************************************************************)
(* karatsuba() and karamul()                                                *)
(***************************************************************************)

(* r is the l terms of t from k on.                                         *)
Piece(t, m, r, l, k) ==
  /\ m \in Nat /\ l \in Nat /\ k \in Nat /\ k + l <= m
  /\ t \in [0 .. m - 1 -> Int] /\ r \in [0 .. l - 1 -> Int]
  /\ \A j \in 0 .. l - 1 : r[j] = t[k + j]

LEMMA SumsFollow ==
  ASSUME NEW m, NEW t, NEW s, NEW l, NEW r, NEW u, NEW k,
         Piece(t, m, r, l, k), Sums(s, t, m), Sums(u, r, l)
  PROVE  s[k + l] = s[k] + u[l]
<1> m \in Nat /\ l \in Nat /\ k \in Nat /\ k + l <= m
  BY DEF Piece
<1> t \in [0 .. m - 1 -> Int] /\ r \in [0 .. l - 1 -> Int] /\ \A j \in 0 .. l - 1 : r[j] = t[k + j]
  BY DEF Piece
<1>1. (\A i \in 0 .. m : s[i] \in Int) /\ \A i \in 0 .. l : u[i] \in Int
  BY SumsAreNumbers
<1> DEFINE Bad == {j \in 0 .. l : s[k + j] # s[k] + u[j]}
<1>2. SUFFICES ASSUME Bad # {} PROVE FALSE
  <2>1. l \in 0 .. l
    OBVIOUS
  <2>2. QED
    BY <2>1
<1>3. PICK j \in Bad : \A i \in Bad : j <= i
  <2>1. Bad \subseteq Nat
    OBVIOUS
  <2>2. QED
    BY <1>2, <2>1, Least
<1>4. j \in 0 .. l /\ s[k + j] # s[k] + u[j]
  BY <1>3
<1>5. j # 0
  <2>1. u[0] = 0 /\ k \in 0 .. m /\ k + 0 = k
    BY DEF Sums
  <2>2. s[k] \in Int
    BY <1>1, <2>1
  <2>3. QED
    BY <1>4, <2>1, <2>2
<1>6. /\ j - 1 \in 0 .. l - 1 /\ j - 1 \in 0 .. l /\ ~ (j <= j - 1)
      /\ k + (j - 1) \in 0 .. m - 1 /\ k + (j - 1) \in 0 .. m
      /\ (k + j) - 1 = k + (j - 1) /\ k + j # 0 /\ k + j \in 0 .. m /\ k \in 0 .. m
  BY <1>4, <1>5
<1>7. s[k + (j - 1)] = s[k] + u[j - 1]
  BY <1>3, <1>6
<1>8. s[k + j] = s[k + (j - 1)] + t[k + (j - 1)]
  BY <1>6 DEF Sums
<1>9. u[j] = u[j - 1] + r[j - 1]
  BY <1>4, <1>5 DEF Sums
<1>10. r[j - 1] = t[k + (j - 1)] /\ t[k + (j - 1)] \in Int /\ s[k] \in Int /\ u[j - 1] \in Int
  BY <1>1, <1>6
<1>11. s[k + j] = s[k] + u[j]
  BY ONLY <1>7, <1>8, <1>9, <1>10
<1>12. QED
  BY <1>4, <1>11, Zenon

LEMMA TotalSplit ==
  ASSUME NEW k \in Nat, NEW l \in Nat, NEW m \in Nat, NEW t, NEW r, NEW w,
         m = k + l, Piece(t, m, r, k, 0), Piece(t, m, w, l, k)
  PROVE  Total(t, m) = Total(r, k) + Total(w, l)
<1> /\ k \in Nat /\ l \in Nat /\ m \in Nat
    /\ t \in [0 .. m - 1 -> Int] /\ r \in [0 .. k - 1 -> Int] /\ w \in [0 .. l - 1 -> Int]
  BY DEF Piece
<1>1. PICK s : Sums(s, t, m) /\ Total(t, m) = s[m]
  BY TotalIs
<1>2. PICK u : Sums(u, r, k) /\ Total(r, k) = u[k]
  BY TotalIs
<1>3. PICK v : Sums(v, w, l) /\ Total(w, l) = v[l]
  BY TotalIs
<1>4. s[k + l] = s[k] + v[l]
  BY <1>1, <1>3, SumsFollow
<1>5. s[k] = u[k]
  <2>1. s[0 + k] = s[0] + u[k]
    BY <1>1, <1>2, SumsFollow
  <2>2. s[0] = 0 /\ 0 + k = k
    BY <1>1 DEF Sums
  <2>3. u[k] \in Int
    <3>1. k \in 0 .. k
      OBVIOUS
    <3>2. QED
      BY <1>2, <3>1, SumsAreNumbers
  <2>4. QED
    BY <2>1, <2>2, <2>3
<1>6. QED
  BY <1>1, <1>2, <1>3, <1>4, <1>5

LEMMA TotalAdded ==
  ASSUME NEW m \in Nat, NEW t \in [0 .. m - 1 -> Int], NEW r \in [0 .. m - 1 -> Int],
         NEW w \in [0 .. m - 1 -> Int], \A j \in 0 .. m - 1 : w[j] = t[j] + r[j]
  PROVE  Total(w, m) = Total(t, m) + Total(r, m)
<1>1. PICK s : Sums(s, t, m) /\ Total(t, m) = s[m]
  BY TotalIs
<1>2. PICK u : Sums(u, r, m) /\ Total(r, m) = u[m]
  BY TotalIs
<1>3. PICK v : Sums(v, w, m) /\ Total(w, m) = v[m]
  BY TotalIs
<1>4. (\A k \in 0 .. m : s[k] \in Int) /\ \A k \in 0 .. m : u[k] \in Int
  BY <1>1, <1>2, SumsAreNumbers
<1> DEFINE Bad == {k \in 0 .. m : v[k] # s[k] + u[k]}
<1>5. SUFFICES ASSUME Bad # {} PROVE FALSE
  <2>1. m \in 0 .. m
    OBVIOUS
  <2>2. QED
    BY <1>1, <1>2, <1>3, <2>1
<1>6. PICK k \in Bad : \A l \in Bad : k <= l
  <2>1. Bad \subseteq Nat
    OBVIOUS
  <2>2. QED
    BY <1>5, <2>1, Least
<1>7. k \in 0 .. m /\ v[k] # s[k] + u[k]
  BY <1>6
<1>8. k # 0
  <2>1. s[0] = 0 /\ u[0] = 0 /\ v[0] = 0
    BY <1>1, <1>2, <1>3 DEF Sums
  <2>2. QED
    BY <1>7, <2>1
<1>9. k - 1 \in 0 .. m - 1 /\ k - 1 \in 0 .. m /\ ~ (k <= k - 1)
  BY <1>7, <1>8
<1>10. v[k - 1] = s[k - 1] + u[k - 1] /\ w[k - 1] = t[k - 1] + r[k - 1]
  BY <1>6, <1>9
<1>11. /\ v[k] = v[k - 1] + w[k - 1] /\ u[k] = u[k - 1] + r[k - 1]
       /\ s[k] = s[k - 1] + t[k - 1]
  BY <1>1, <1>2, <1>3, <1>7, <1>8 DEF Sums
<1>12. s[k - 1] \in Int /\ u[k - 1] \in Int /\ t[k - 1] \in Int /\ r[k - 1] \in Int
  BY <1>4, <1>9
<1>13. ASSUME NEW x \in Int, NEW y \in Int, NEW z \in Int, NEW o \in Int
       PROVE  (x + y) + (z + o) = (x + z) + (y + o)
  BY ONLY <1>13
<1>14. v[k] = (s[k - 1] + u[k - 1]) + (t[k - 1] + r[k - 1])
  BY <1>10, <1>11, Zenon
<1>15. s[k] + u[k] = (s[k - 1] + t[k - 1]) + (u[k - 1] + r[k - 1])
  BY <1>11, Zenon
<1>16. v[k] = s[k] + u[k]
  <2>1. PICK x \in Int, y \in Int, z \in Int, o \in Int :
          x = s[k - 1] /\ y = u[k - 1] /\ z = t[k - 1] /\ o = r[k - 1]
    BY <1>12
  <2>2. (x + y) + (z + o) = (x + z) + (y + o)
    BY ONLY <1>13
  <2>3. QED
    BY ONLY <1>14, <1>15, <2>1, <2>2, Zenon
<1>17. QED
  BY <1>7, <1>16

(* The terms of x^i in the product of a, of h coefficients, and b, of l.    *)
Pairs(a, b, h, l, i) ==
  [j \in 0 .. h - 1 |-> IF i - j \in 0 .. l - 1 THEN a[j] * b[i - j] ELSE 0]

Long(a, b, h, l, i) == Total(Pairs(a, b, h, l, i), h)

LEMMA ProductIsNumber == ASSUME NEW x \in Int, NEW y \in Int PROVE x * y \in Int
OBVIOUS

LEMMA PairsAre ==
  ASSUME NEW h \in Nat, NEW l \in Nat, NEW a \in Polynomial(h), NEW b \in Polynomial(l), NEW i \in Int
  PROVE  Pairs(a, b, h, l, i) \in [0 .. h - 1 -> Int]
<1>1. ASSUME NEW j \in 0 .. h - 1
      PROVE  (IF i - j \in 0 .. l - 1 THEN a[j] * b[i - j] ELSE 0) \in Int
  <2>1. a[j] \in Int
    BY DEF Polynomial
  <2>2. CASE i - j \in 0 .. l - 1
    <3>1. b[i - j] \in Int
      BY <2>2 DEF Polynomial
    <3>2. a[j] * b[i - j] \in Int
      BY ONLY <2>1, <3>1, ProductIsNumber
    <3>3. QED
      BY <2>2, <3>2
  <2>3. CASE ~ (i - j \in 0 .. l - 1)
    BY <2>3
  <2>4. QED
    BY <2>2, <2>3
<1>2. QED
  BY <1>1 DEF Pairs

LEMMA LongIsNumber ==
  ASSUME NEW h \in Nat, NEW l \in Nat, NEW a \in Polynomial(h), NEW b \in Polynomial(l), NEW i \in Int
  PROVE  Long(a, b, h, l, i) \in Int
<1>1. Pairs(a, b, h, l, i) \in [0 .. h - 1 -> Int]
  BY PairsAre
<1>2. QED
  BY <1>1, TotalIsNumber DEF Long

(* A product of h and l coefficients has less than h + l.                   *)
LEMMA LongEnds ==
  ASSUME NEW h \in Nat, NEW l \in Nat, NEW a \in Polynomial(h), NEW b \in Polynomial(l), NEW i \in Int,
         i < 0 \/ i >= h + l - 1
  PROVE  Long(a, b, h, l, i) = 0
<1>1. \A j \in 0 .. h - 1 : ~ (i - j \in 0 .. l - 1)
  OBVIOUS
<1>2. \A j \in 0 .. h - 1 : Pairs(a, b, h, l, i)[j] = 0
  BY ONLY <1>1 DEF Pairs
<1>3. QED
  BY <1>2, TotalOfNone DEF Long

LEMMA HalvesAre ==
  ASSUME NEW h \in Nat, NEW a \in Polynomial(2 * h)
  PROVE  /\ Low(a, h) \in Polynomial(h) /\ High(a, h) \in Polynomial(h) /\ Both(a, h) \in Polynomial(h)
         /\ \A i \in 0 .. h - 1 :
              /\ Low(a, h)[i] = a[i] /\ High(a, h)[i] = a[i + h]
              /\ Both(a, h)[i] = Low(a, h)[i] + High(a, h)[i]
              /\ Low(a, h)[i] \in Int /\ High(a, h)[i] \in Int
<1>1. \A i \in 0 .. h - 1 : i \in 0 .. 2 * h - 1 /\ i + h \in 0 .. 2 * h - 1
  OBVIOUS
<1>2. \A i \in 0 .. h - 1 : a[i] \in Int /\ a[i + h] \in Int /\ a[i] + a[i + h] \in Int
  BY <1>1 DEF Polynomial
<1>3. QED
  BY <1>2 DEF Polynomial, Low, High, Both

LEMMA LongOfHalves ==
  ASSUME NEW h \in Nat, NEW l \in Nat, NEW a \in Polynomial(2 * h), NEW b \in Polynomial(l), NEW i \in Int
  PROVE  Long(a, b, 2 * h, l, i) = Long(Low(a, h), b, h, l, i) + Long(High(a, h), b, h, l, i - h)
<1>1. PICK m \in Nat : m = 2 * h /\ m = h + h
  OBVIOUS
<1> DEFINE t == Pairs(a, b, m, l, i)
           r == Pairs(Low(a, h), b, h, l, i)
           w == Pairs(High(a, h), b, h, l, i - h)
<1>2. t \in [0 .. m - 1 -> Int] /\ r \in [0 .. h - 1 -> Int] /\ w \in [0 .. h - 1 -> Int]
  <2>1. i - h \in Int /\ a \in Polynomial(m)
    BY <1>1
  <2>2. QED
    BY <2>1, HalvesAre, PairsAre
<1>3. ASSUME NEW j \in 0 .. h - 1 PROVE r[j] = t[j] /\ w[j] = t[h + j]
  <2>1. j \in 0 .. m - 1 /\ h + j \in 0 .. m - 1 /\ i - (h + j) = (i - h) - j /\ j + h = h + j
    BY <1>1
  <2>2. Low(a, h)[j] = a[j] /\ High(a, h)[j] = a[h + j]
    BY <2>1, HalvesAre
  <2>3. /\ t[j] = IF i - j \in 0 .. l - 1 THEN a[j] * b[i - j] ELSE 0
        /\ t[h + j] = IF i - (h + j) \in 0 .. l - 1 THEN a[h + j] * b[i - (h + j)] ELSE 0
    BY ONLY <2>1 DEF Pairs
  <2>4. /\ r[j] = IF i - j \in 0 .. l - 1 THEN Low(a, h)[j] * b[i - j] ELSE 0
        /\ w[j] = IF (i - h) - j \in 0 .. l - 1 THEN High(a, h)[j] * b[(i - h) - j] ELSE 0
    BY ONLY j \in 0 .. h - 1 DEF Pairs
  <2>5. QED
    BY ONLY <2>1, <2>2, <2>3, <2>4
<1> HIDE DEF t, r, w
<1>4. Total(t, m) = Total(r, h) + Total(w, h)
  <2>1. \A j \in 0 .. h - 1 : r[j] = t[0 + j]
    BY <1>3
  <2>2. \A j \in 0 .. h - 1 : w[j] = t[h + j]
    BY <1>3
  <2>3. /\ m = h + h /\ h \in Nat /\ m \in Nat /\ 0 \in Nat
        /\ 0 + h <= m /\ h + h <= m
    BY ONLY <1>1, h \in Nat
  <2>4. Piece(t, m, r, h, 0) /\ Piece(t, m, w, h, h)
    BY ONLY <1>2, <2>1, <2>2, <2>3 DEF Piece
  <2>5. m = h + h
    BY <1>1
  <2>6. QED
    BY ONLY <2>4, <2>5, TotalSplit
<1>5. Long(a, b, m, l, i) = Long(Low(a, h), b, h, l, i) + Long(High(a, h), b, h, l, i - h)
  BY ONLY <1>4 DEF Long, t, r, w
<1>6. QED
  BY ONLY <1>1, <1>5

LEMMA LongByHalves ==
  ASSUME NEW h \in Nat, NEW l \in Nat, NEW a \in Polynomial(l), NEW b \in Polynomial(2 * h), NEW i \in Int
  PROVE  Long(a, b, l, 2 * h, i) = Long(a, Low(b, h), l, h, i) + Long(a, High(b, h), l, h, i - h)
<1> DEFINE w == Pairs(a, b, l, 2 * h, i)
           t == Pairs(a, Low(b, h), l, h, i)
           r == Pairs(a, High(b, h), l, h, i - h)
<1>1. w \in [0 .. l - 1 -> Int] /\ t \in [0 .. l - 1 -> Int] /\ r \in [0 .. l - 1 -> Int]
  <2>1. i - h \in Int /\ 2 * h \in Nat
    OBVIOUS
  <2>2. QED
    BY <2>1, HalvesAre, PairsAre
<1>2. ASSUME NEW j \in 0 .. l - 1 PROVE w[j] = t[j] + r[j]
  <2>1. /\ t[j] = IF i - j \in 0 .. h - 1 THEN a[j] * Low(b, h)[i - j] ELSE 0
        /\ r[j] = IF (i - h) - j \in 0 .. h - 1 THEN a[j] * High(b, h)[(i - h) - j] ELSE 0
        /\ w[j] = IF i - j \in 0 .. 2 * h - 1 THEN a[j] * b[i - j] ELSE 0
    BY ONLY j \in 0 .. l - 1 DEF Pairs
  <2>2. t[j] \in Int /\ r[j] \in Int
    BY <1>1
  <2>3. CASE i - j \in 0 .. h - 1
    <3>1. i - j \in 0 .. 2 * h - 1 /\ ~ ((i - h) - j \in 0 .. h - 1)
      BY <2>3
    <3>2. Low(b, h)[i - j] = b[i - j]
      BY <2>3, HalvesAre
    <3>3. QED
      BY ONLY <2>1, <2>2, <2>3, <3>1, <3>2
  <2>4. CASE (i - h) - j \in 0 .. h - 1
    <3>1. i - j \in 0 .. 2 * h - 1 /\ ~ (i - j \in 0 .. h - 1) /\ ((i - h) - j) + h = i - j
      BY <2>4
    <3>2. High(b, h)[(i - h) - j] = b[i - j]
      BY <2>4, <3>1, HalvesAre
    <3>3. QED
      BY ONLY <2>1, <2>2, <2>4, <3>1, <3>2
  <2>5. CASE ~ (i - j \in 0 .. h - 1) /\ ~ ((i - h) - j \in 0 .. h - 1)
    <3>1. ~ (i - j \in 0 .. 2 * h - 1)
      BY <2>5
    <3>2. QED
      BY ONLY <2>1, <2>5, <3>1
  <2>6. QED
    BY <2>3, <2>4, <2>5
<1> HIDE DEF t, r, w
<1>3. Total(w, l) = Total(t, l) + Total(r, l)
  BY <1>1, <1>2, TotalAdded
<1>4. QED
  BY <1>3 DEF Long, t, r, w

(* c is the sum of a and b.                                                 *)
IsSum(c, a, b, h) ==
  /\ a \in Polynomial(h) /\ b \in Polynomial(h) /\ c \in Polynomial(h)
  /\ \A j \in 0 .. h - 1 : c[j] = a[j] + b[j]

LEMMA LongOfSum ==
  ASSUME NEW h \in Nat, NEW l \in Nat, NEW a, NEW b, NEW c, IsSum(c, a, b, h),
         NEW d \in Polynomial(l), NEW i \in Int
  PROVE  Long(c, d, h, l, i) = Long(a, d, h, l, i) + Long(b, d, h, l, i)
<1>0. /\ a \in Polynomial(h) /\ b \in Polynomial(h) /\ c \in Polynomial(h)
      /\ \A j \in 0 .. h - 1 : c[j] = a[j] + b[j]
  BY DEF IsSum
<1> DEFINE w == Pairs(c, d, h, l, i)
           t == Pairs(a, d, h, l, i)
           r == Pairs(b, d, h, l, i)
<1>1. w \in [0 .. h - 1 -> Int] /\ t \in [0 .. h - 1 -> Int] /\ r \in [0 .. h - 1 -> Int]
  BY <1>0, PairsAre
<1>2. ASSUME NEW j \in 0 .. h - 1 PROVE w[j] = t[j] + r[j]
  <2>1. /\ t[j] = IF i - j \in 0 .. l - 1 THEN a[j] * d[i - j] ELSE 0
        /\ r[j] = IF i - j \in 0 .. l - 1 THEN b[j] * d[i - j] ELSE 0
        /\ w[j] = IF i - j \in 0 .. l - 1 THEN c[j] * d[i - j] ELSE 0
    BY ONLY j \in 0 .. h - 1 DEF Pairs
  <2>2. a[j] \in Int /\ b[j] \in Int /\ c[j] = a[j] + b[j]
    BY <1>0 DEF Polynomial
  <2>3. CASE i - j \in 0 .. l - 1
    <3>1. d[i - j] \in Int
      BY <2>3 DEF Polynomial
    <3>2. d[i - j] * (a[j] + b[j]) = d[i - j] * a[j] + d[i - j] * b[j]
      BY ONLY <2>2, <3>1, Distribute
    <3>3. QED
      BY ONLY <2>1, <2>2, <2>3, <3>1, <3>2
  <2>4. CASE ~ (i - j \in 0 .. l - 1)
    BY ONLY <2>1, <2>4
  <2>5. QED
    BY <2>3, <2>4
<1> HIDE DEF t, r, w
<1>3. Total(w, h) = Total(t, h) + Total(r, h)
  BY <1>1, <1>2, TotalAdded
<1>4. QED
  BY <1>3 DEF Long, t, r, w

LEMMA LongBySum ==
  ASSUME NEW h \in Nat, NEW l \in Nat, NEW a, NEW b, NEW c, IsSum(c, a, b, l),
         NEW d \in Polynomial(h), NEW i \in Int
  PROVE  Long(d, c, h, l, i) = Long(d, a, h, l, i) + Long(d, b, h, l, i)
<1>0. /\ a \in Polynomial(l) /\ b \in Polynomial(l) /\ c \in Polynomial(l)
      /\ \A j \in 0 .. l - 1 : c[j] = a[j] + b[j]
  BY DEF IsSum
<1> DEFINE w == Pairs(d, c, h, l, i)
           t == Pairs(d, a, h, l, i)
           r == Pairs(d, b, h, l, i)
<1>1. w \in [0 .. h - 1 -> Int] /\ t \in [0 .. h - 1 -> Int] /\ r \in [0 .. h - 1 -> Int]
  BY <1>0, PairsAre
<1>2. ASSUME NEW j \in 0 .. h - 1 PROVE w[j] = t[j] + r[j]
  <2>1. /\ t[j] = IF i - j \in 0 .. l - 1 THEN d[j] * a[i - j] ELSE 0
        /\ r[j] = IF i - j \in 0 .. l - 1 THEN d[j] * b[i - j] ELSE 0
        /\ w[j] = IF i - j \in 0 .. l - 1 THEN d[j] * c[i - j] ELSE 0
    BY ONLY j \in 0 .. h - 1 DEF Pairs
  <2>2. d[j] \in Int
    BY DEF Polynomial
  <2>3. CASE i - j \in 0 .. l - 1
    <3>1. a[i - j] \in Int /\ b[i - j] \in Int /\ c[i - j] = a[i - j] + b[i - j]
      BY <1>0, <2>3 DEF Polynomial
    <3>2. d[j] * (a[i - j] + b[i - j]) = d[j] * a[i - j] + d[j] * b[i - j]
      BY ONLY <2>2, <3>1, Distribute
    <3>3. QED
      BY ONLY <2>1, <2>3, <3>1, <3>2
  <2>4. CASE ~ (i - j \in 0 .. l - 1)
    BY ONLY <2>1, <2>4
  <2>5. QED
    BY <2>3, <2>4
<1> HIDE DEF t, r, w
<1>3. Total(w, h) = Total(t, h) + Total(r, h)
  BY <1>1, <1>2, TotalAdded
<1>4. QED
  BY <1>3 DEF Long, t, r, w

(* What karatsuba() puts together out of the three products of the halves.  *)
LEMMA TogetherIsLong ==
  ASSUME NEW h \in Nat \ {0}, NEW a \in Polynomial(2 * h), NEW b \in Polynomial(2 * h),
         NEW x, NEW y, NEW z,
         x = [i \in 0 .. 2 * h - 1 |-> Long(Low(a, h), Low(b, h), h, h, i)],
         y = [i \in 0 .. 2 * h - 1 |-> Long(High(a, h), High(b, h), h, h, i)],
         z = [i \in 0 .. 2 * h - 1 |-> Long(Both(a, h), Both(b, h), h, h, i)]
  PROVE  Together(h, x, y, z) = [i \in 0 .. 4 * h - 1 |-> Long(a, b, 2 * h, 2 * h, i)]
<1> DEFINE At(p, i) == IF i \in 0 .. 2 * h - 1 THEN p[i] ELSE 0
           x00(i) == Long(Low(a, h), Low(b, h), h, h, i)
           x01(i) == Long(Low(a, h), High(b, h), h, h, i)
           x10(i) == Long(High(a, h), Low(b, h), h, h, i)
           x11(i) == Long(High(a, h), High(b, h), h, h, i)
           xx(i) == Long(Both(a, h), Both(b, h), h, h, i)
<1>1. /\ Low(a, h) \in Polynomial(h) /\ High(a, h) \in Polynomial(h) /\ Both(a, h) \in Polynomial(h)
      /\ Low(b, h) \in Polynomial(h) /\ High(b, h) \in Polynomial(h) /\ Both(b, h) \in Polynomial(h)
  BY HalvesAre
<1>2. ASSUME NEW i \in Int
      PROVE  /\ x00(i) \in Int /\ x01(i) \in Int /\ x10(i) \in Int /\ x11(i) \in Int
             /\ At(x, i) = x00(i) /\ At(y, i) = x11(i) /\ At(z, i) = xx(i)
  <2>1. x00(i) \in Int /\ x01(i) \in Int /\ x10(i) \in Int /\ x11(i) \in Int
    BY <1>1, LongIsNumber
  <2>2. CASE i \in 0 .. 2 * h - 1
    BY <2>1, <2>2
  <2>3. CASE ~ (i \in 0 .. 2 * h - 1)
    <3>1. i < 0 \/ i >= h + h - 1
      BY <2>3
    <3>2. x00(i) = 0 /\ x11(i) = 0 /\ xx(i) = 0
      BY <1>1, <3>1, LongEnds
    <3>3. QED
      BY <2>1, <2>3, <3>2
  <2>4. QED
    BY <2>2, <2>3
<1>3. ASSUME NEW i \in Int
      PROVE  xx(i) = (x00(i) + x01(i)) + (x10(i) + x11(i))
  <2>1. IsSum(Both(a, h), Low(a, h), High(a, h), h) /\ IsSum(Both(b, h), Low(b, h), High(b, h), h)
    BY <1>1, HalvesAre DEF IsSum
  <2>2. xx(i) = Long(Low(a, h), Both(b, h), h, h, i) + Long(High(a, h), Both(b, h), h, h, i)
    BY <1>1, <2>1, LongOfSum
  <2>3. /\ Long(Low(a, h), Both(b, h), h, h, i) = x00(i) + x01(i)
        /\ Long(High(a, h), Both(b, h), h, h, i) = x10(i) + x11(i)
    BY <1>1, <2>1, LongBySum
  <2>4. QED
    BY <2>2, <2>3
<1>4. ASSUME NEW i \in Int
      PROVE  Long(a, b, 2 * h, 2 * h, i)
               = (x00(i) + x01(i - h)) + (x10(i - h) + x11(i - 2 * h))
  <2>1. i - h \in Int /\ (i - h) - h = i - 2 * h /\ 2 * h \in Nat
    OBVIOUS
  <2>2. Long(a, b, 2 * h, 2 * h, i)
          = Long(Low(a, h), b, h, 2 * h, i) + Long(High(a, h), b, h, 2 * h, i - h)
    BY <2>1, LongOfHalves
  <2>3. Long(Low(a, h), b, h, 2 * h, i) = x00(i) + x01(i - h)
    BY <1>1, LongByHalves
  <2>4. Long(High(a, h), b, h, 2 * h, i - h) = x10(i - h) + x11((i - h) - h)
    BY <1>1, <2>1, LongByHalves
  <2>5. QED
    BY ONLY <2>1, <2>2, <2>3, <2>4
<1>5. ASSUME NEW i \in 0 .. 4 * h - 1
      PROVE  Together(h, x, y, z)[i] = Long(a, b, 2 * h, 2 * h, i)
  <2>1. i \in Int /\ i - h \in Int /\ i - 2 * h \in Int
    OBVIOUS
  <2>2. Together(h, x, y, z)[i]
          = At(x, i) + At(y, i - 2 * h) + At(z, i - h) - At(x, i - h) - At(y, i - h)
    BY DEF Together
  <2> HIDE DEF At, x00, x01, x10, x11, xx
  <2>3. /\ At(x, i) = x00(i) /\ At(y, i - 2 * h) = x11(i - 2 * h) /\ At(z, i - h) = xx(i - h)
        /\ At(x, i - h) = x00(i - h) /\ At(y, i - h) = x11(i - h)
        /\ x00(i) \in Int /\ x11(i - 2 * h) \in Int
        /\ x00(i - h) \in Int /\ x01(i - h) \in Int /\ x10(i - h) \in Int /\ x11(i - h) \in Int
    BY <1>2, <2>1
  <2>4. xx(i - h) = (x00(i - h) + x01(i - h)) + (x10(i - h) + x11(i - h))
    BY <1>3, <2>1
  <2>5. Long(a, b, 2 * h, 2 * h, i) = (x00(i) + x01(i - h)) + (x10(i - h) + x11(i - 2 * h))
    BY <1>4, <2>1
  <2>6. QED
    BY ONLY <2>2, <2>3, <2>4, <2>5
<1>6. Together(h, x, y, z) = [i \in 0 .. 4 * h - 1 |-> Together(h, x, y, z)[i]]
  BY DEF Together
<1>7. QED
  BY <1>5, <1>6, Zenon

(* The products of karatsuba(), of every length up to m.                    *)
Levels(f, m) ==
  f = [l \in 1 .. m |->
         [ab \in Polynomial(l) \X Polynomial(l) |->
            LET h == l \div 2
                of(Part(_, _)) == f[h][<<Part(ab[1], h), Part(ab[2], h)>>]
            IN  IF l = 1 THEN [i \in 0 .. 1 |-> IF i = 0 THEN ab[1][0] * ab[2][0] ELSE 0]
                ELSE Together(h, of(Low), of(High), of(Both))]]

(* The same, without the local definitions.                                 *)
Level(p, l, h, ab) ==
  IF l = 1 THEN [i \in 0 .. 1 |-> IF i = 0 THEN ab[1][0] * ab[2][0] ELSE 0]
  ELSE Together(h, p[<<Low(ab[1], h), Low(ab[2], h)>>], p[<<High(ab[1], h), High(ab[2], h)>>],
                   p[<<Both(ab[1], h), Both(ab[2], h)>>])

LEMMA LevelsAre ==
  ASSUME NEW f, NEW m
  PROVE  Levels(f, m) <=>
           f = [l \in 1 .. m |-> [ab \in Polynomial(l) \X Polynomial(l) |->
                                    Level(f[l \div 2], l, l \div 2, ab)]]
BY Zenon DEF Levels, Level

LEMMA LevelsExtend ==
  ASSUME NEW k \in Nat, NEW f, Levels(f, k)
  PROVE  \E g : Levels(g, k + 1)
<1> DEFINE Of(p, l) == [ab \in Polynomial(l) \X Polynomial(l) |-> Level(p, l, l \div 2, ab)]
           g == [l \in 1 .. k + 1 |-> IF l = k + 1 THEN Of(f[l \div 2], l) ELSE f[l]]
<1>1. f = [l \in 1 .. k |-> Of(f[l \div 2], l)]
  BY LevelsAre, Zenon
<1>2. ASSUME NEW l \in 1 .. k + 1
      PROVE  g[l] = Of(g[l \div 2], l)
  <2>1. g[l] = Of(f[l \div 2], l)
    <3>1. CASE l = k + 1
      BY <3>1
    <3>2. CASE l # k + 1
      <4>1. l \in 1 .. k
        BY ONLY <3>2, k \in Nat, l \in 1 .. k + 1
      <4>2. f[l] = Of(f[l \div 2], l)
        BY <1>1, <4>1, Zenon
      <4>3. QED
        BY <3>2, <4>2, Zenon
    <3>3. QED
      BY <3>1, <3>2
  <2>2. CASE l = 1
    <3>1. \A p, ab : Level(p, 1, l \div 2, ab) = Level(0, 1, l \div 2, ab)
      BY Zenon DEF Level
    <3>2. \A p : Of(p, l) = Of(0, l)
      BY <2>2, <3>1, Zenon
    <3>3. Of(f[l \div 2], l) = Of(0, l) /\ Of(g[l \div 2], l) = Of(0, l)
      BY ONLY <3>2, Zenon
    <3>4. QED
      BY ONLY <2>1, <3>3, Zenon
  <2>3. CASE l # 1
    <3>1. l \div 2 \in 1 .. k + 1 /\ l \div 2 # k + 1
      BY <2>3
    <3>2. g[l \div 2] = f[l \div 2]
      BY <3>1, Zenon
    <3> HIDE DEF g, Of
    <3>3. QED
      BY ONLY <2>1, <3>2
  <2>4. QED
    BY <2>2, <2>3
<1>3. g = [l \in 1 .. k + 1 |-> Of(g[l \div 2], l)]
  BY <1>2, Zenon
<1> HIDE DEF g
<1>4. Levels(g, k + 1)
  BY <1>3, LevelsAre, Zenon
<1>5. QED
  BY <1>4

LEMMA LevelsExist == ASSUME NEW k \in Nat PROVE \E f : Levels(f, k)
<1> DEFINE None == {j \in Nat : ~ \E f : Levels(f, j)}
<1>1. SUFFICES ASSUME None # {} PROVE FALSE
  OBVIOUS
<1>2. PICK j \in None : \A l \in None : j <= l
  <2>1. None \subseteq Nat
    OBVIOUS
  <2>2. QED
    BY <1>1, <2>1, Least
<1>3. j # 0
  <2> DEFINE f == [l \in 1 .. 0 |-> 0]
             g == [l \in 1 .. 0 |-> [ab \in Polynomial(l) \X Polynomial(l) |->
                                       Level(f[l \div 2], l, l \div 2, ab)]]
  <2>1. 1 .. 0 = {}
    OBVIOUS
  <2>2. f = g
    BY <2>1, Zenon
  <2>3. Levels(f, 0)
    BY <2>2, LevelsAre, Zenon
  <2>4. QED
    BY <1>2, <2>3
<1>4. PICK l \in Nat : j = l + 1
  BY <1>2, <1>3
<1>5. PICK f : Levels(f, l)
  BY <1>2, <1>4
<1>6. \E g : Levels(g, l + 1)
  BY <1>5, LevelsExtend
<1>7. QED
  BY <1>2, <1>4, <1>6

LEMMA KaratsubaOf ==
  ASSUME NEW m \in Nat, NEW a, NEW b
  PROVE  \E f : Levels(f, m) /\ karatsuba(a, b, m) = f[m][<<a, b>>]
<1> DEFINE f == CHOOSE f : Levels(f, m)
<1>1. Levels(f, m)
  BY LevelsExist
<1>2. karatsuba(a, b, m) = f[m][<<a, b>>]
  BY Zenon DEF karatsuba, Levels
<1>3. QED
  BY <1>1, <1>2

(* What karatsuba() returns on two lists of m coefficients.                 *)
IsLong(f, M, m) ==
  m <= M => \A a \in Polynomial(m), b \in Polynomial(m) :
    f[m][<<a, b>>] = [i \in 0 .. 2 * m - 1 |-> Long(a, b, m, m, i)]

LEMMA LevelOf ==
  ASSUME NEW f, NEW M \in Nat, Levels(f, M),
         NEW l \in 1 .. M, NEW a \in Polynomial(l), NEW b \in Polynomial(l)
  PROVE  f[l][<<a, b>>] = Level(f[l \div 2], l, l \div 2, <<a, b>>)
<1>1. f[l] = [ab \in Polynomial(l) \X Polynomial(l) |-> Level(f[l \div 2], l, l \div 2, ab)]
  BY LevelsAre, Zenon
<1>2. <<a, b>> \in Polynomial(l) \X Polynomial(l)
  OBVIOUS
<1>3. QED
  BY <1>1, <1>2, Zenon

LEMMA LevelOne ==
  ASSUME NEW f, NEW M \in Nat, Levels(f, M)
  PROVE  IsLong(f, M, 1)
<1>1. ASSUME 1 <= M, NEW a \in Polynomial(1), NEW b \in Polynomial(1)
      PROVE  f[1][<<a, b>>] = [i \in 0 .. 2 * 1 - 1 |-> Long(a, b, 1, 1, i)]
  <2>1. f[1][<<a, b>>] = [i \in 0 .. 1 |-> IF i = 0 THEN a[0] * b[0] ELSE 0]
    <3>1. 1 \in 1 .. M
      BY <1>1
    <3>2. f[1][<<a, b>>] = Level(f[1 \div 2], 1, 1 \div 2, <<a, b>>)
      BY <3>1, LevelOf
    <3>3. QED
      BY <3>2 DEF Level
  <2>2. Long(a, b, 1, 1, 1) = 0
    BY LongEnds
  <2>3. Long(a, b, 1, 1, 0) = a[0] * b[0]
    <3> DEFINE t == Pairs(a, b, 1, 1, 0)
    <3>1. t \in [0 .. 1 - 1 -> Int]
      <4>1. 1 \in Nat /\ 0 \in Int
        OBVIOUS
      <4>2. QED
        BY <4>1, PairsAre, Zenon
    <3>2. t[0] = a[0] * b[0]
      <4>1. 0 \in 0 .. 1 - 1 /\ 0 - 0 \in 0 .. 1 - 1 /\ 0 - 0 = 0
        OBVIOUS
      <4>2. QED
        BY ONLY <4>1 DEF Pairs
    <3> HIDE DEF t
    <3>3. PICK s : Sums(s, t, 1) /\ Total(t, 1) = s[1]
      BY TotalIs
    <3>4. s[0] = 0 /\ s[1] = s[0] + t[0]
      BY <3>3 DEF Sums
    <3>5. t[0] \in Int
      BY <3>1
    <3>6. Total(t, 1) = a[0] * b[0]
      <4>1. 0 + t[0] = t[0]
        BY ONLY <3>5
      <4>2. QED
        BY ONLY <3>2, <3>3, <3>4, <4>1
    <3>7. QED
      BY ONLY <3>6 DEF Long, t
  <2>4. 0 .. 2 * 1 - 1 = 0 .. 1 /\ \A i \in 0 .. 1 : i = 0 \/ i = 1
    OBVIOUS
  <2>5. QED
    BY <2>1, <2>2, <2>3, <2>4
<1>2. QED
  BY <1>1 DEF IsLong

LEMMA TwiceHalf == ASSUME NEW h \in Nat PROVE (2 * h) \div 2 = h
OBVIOUS

LEMMA LevelTwice ==
  ASSUME NEW f, NEW M \in Nat, Levels(f, M), NEW h \in Nat \ {0}, IsLong(f, M, h)
  PROVE  IsLong(f, M, 2 * h)
<1>1. ASSUME 2 * h <= M, NEW a \in Polynomial(2 * h), NEW b \in Polynomial(2 * h)
      PROVE  f[2 * h][<<a, b>>] = [i \in 0 .. 2 * (2 * h) - 1 |-> Long(a, b, 2 * h, 2 * h, i)]
  <2> DEFINE x == f[h][<<Low(a, h), Low(b, h)>>]
             y == f[h][<<High(a, h), High(b, h)>>]
             z == f[h][<<Both(a, h), Both(b, h)>>]
  <2>1. 2 * h \in 1 .. M /\ (2 * h) \div 2 = h /\ 2 * h # 1 /\ h <= M /\ 2 * (2 * h) = 4 * h
    BY <1>1, TwiceHalf
  <2>2. f[2 * h][<<a, b>>] = Together(h, x, y, z)
    <3>1. f[2 * h][<<a, b>>] = Level(f[(2 * h) \div 2], 2 * h, (2 * h) \div 2, <<a, b>>)
      BY <1>1, <2>1, LevelOf
    <3>2. f[2 * h][<<a, b>>] = Level(f[h], 2 * h, h, <<a, b>>)
      BY ONLY <2>1, <3>1
    <3>3. QED
      BY <2>1, <3>2 DEF Level
  <2>3. \A c \in Polynomial(h), d \in Polynomial(h) :
          f[h][<<c, d>>] = [i \in 0 .. 2 * h - 1 |-> Long(c, d, h, h, i)]
    BY <2>1 DEF IsLong
  <2>4. /\ Low(a, h) \in Polynomial(h) /\ High(a, h) \in Polynomial(h) /\ Both(a, h) \in Polynomial(h)
        /\ Low(b, h) \in Polynomial(h) /\ High(b, h) \in Polynomial(h) /\ Both(b, h) \in Polynomial(h)
    BY <1>1, HalvesAre
  <2>5. /\ x = [i \in 0 .. 2 * h - 1 |-> Long(Low(a, h), Low(b, h), h, h, i)]
        /\ y = [i \in 0 .. 2 * h - 1 |-> Long(High(a, h), High(b, h), h, h, i)]
        /\ z = [i \in 0 .. 2 * h - 1 |-> Long(Both(a, h), Both(b, h), h, h, i)]
    BY ONLY <2>3, <2>4
  <2> HIDE DEF x, y, z
  <2>6. Together(h, x, y, z) = [i \in 0 .. 4 * h - 1 |-> Long(a, b, 2 * h, 2 * h, i)]
    BY <1>1, <2>5, TogetherIsLong
  <2>7. QED
    BY ONLY <2>1, <2>2, <2>6
<1>2. QED
  BY <1>1 DEF IsLong

LEMMA LevelIsLong ==
  ASSUME NEW f, NEW M \in Nat, Levels(f, M), NEW k \in Nat
  PROVE  IsLong(f, M, 2^k)
<1> DEFINE Bad == {j \in Nat : ~ IsLong(f, M, 2^j)}
<1>1. SUFFICES ASSUME Bad # {} PROVE FALSE
  OBVIOUS
<1>2. PICK j \in Bad : \A l \in Bad : j <= l
  <2>1. Bad \subseteq Nat
    OBVIOUS
  <2>2. QED
    BY <1>1, <2>1, Least
<1>3. j # 0
  <2>1. IsLong(f, M, 2^0)
    BY LevelOne, PowerOfNone
  <2>2. QED
    BY <1>2, <2>1
<1>4. PICK l \in Nat : j = l + 1
  BY <1>2, <1>3
<1>5. PICK h \in Nat \ {0} : h = 2^l
  BY PowerIs
<1>6. IsLong(f, M, h)
  BY <1>2, <1>4, <1>5
<1>7. IsLong(f, M, 2 * h)
  BY <1>6, LevelTwice
<1>8. 2^j = 2 * h
  BY <1>4, <1>5, PowerNext
<1>9. QED
  BY <1>2, <1>7, <1>8

LEMMA KaratsubaIsLong ==
  ASSUME NEW m, Power(m), NEW a \in Polynomial(m), NEW b \in Polynomial(m)
  PROVE  karatsuba(a, b, m) = [i \in 0 .. 2 * m - 1 |-> Long(a, b, m, m, i)]
<1>1. PICK k \in Nat : m = 2^k
  BY DEF Power
<1>2. m \in Nat /\ m <= m
  BY <1>1, PowerIs
<1>3. PICK f : Levels(f, m) /\ karatsuba(a, b, m) = f[m][<<a, b>>]
  BY <1>2, KaratsubaOf, Zenon
<1>4. IsLong(f, m, m)
  BY <1>1, <1>2, <1>3, LevelIsLong, Zenon
<1>5. QED
  BY <1>2, <1>3, <1>4, Zenon DEF IsLong

LEMMA SizeIs == ASSUME NEW m \in Nat, NEW a \in Polynomial(m) PROVE Size(a) = m /\ DOMAIN a = 0 .. m - 1
<1>1. DOMAIN a = 0 .. m - 1
  BY DEF Polynomial
<1>2. Cardinality(0 .. m - 1) = m
  <2>1. 0 \in Int /\ m - 1 \in Int
    OBVIOUS
  <2>2. Cardinality(0 .. m - 1) = IF 0 > m - 1 THEN 0 ELSE ((m - 1) - 0) + 1
    BY <2>1, FS_Interval
  <2>3. QED
    BY <2>2
<1>3. QED
  BY <1>1, <1>2 DEF Size

LEMMA ProductIsTimes ==
  ASSUME NEW m \in Nat, NEW a \in Polynomial(m), NEW b \in Polynomial(m)
  PROVE  Product(a, b) = Times(a, b, m)
<1>1. Size(a) = m
  BY SizeIs
<1>2. QED
  BY <1>1, Zenon DEF Product, Times, Terms

LEMMA Folded ==
  ASSUME NEW m \in Nat \ {0}, NEW a \in Polynomial(m), NEW b \in Polynomial(m), NEW i \in 0 .. m - 1
  PROVE  Long(a, b, m, m, i) - Long(a, b, m, m, i + m) = Times(a, b, m)[i]
<1> DEFINE w == Pairs(a, b, m, m, i)
           t == Terms(a, b, m, i)
           r == Pairs(a, b, m, m, i + m)
<1>1. i \in Int /\ i + m \in Int
  OBVIOUS
<1>2. w \in [0 .. m - 1 -> Int] /\ t \in [0 .. m - 1 -> Int] /\ r \in [0 .. m - 1 -> Int]
  BY <1>1, PairsAre, TermsAre
<1>3. ASSUME NEW j \in 0 .. m - 1 PROVE w[j] = t[j] + r[j]
  <2>1. /\ t[j] = IF j <= i THEN a[j] * b[i - j] ELSE -a[j] * b[m + i - j]
        /\ r[j] = IF (i + m) - j \in 0 .. m - 1 THEN a[j] * b[(i + m) - j] ELSE 0
        /\ w[j] = IF i - j \in 0 .. m - 1 THEN a[j] * b[i - j] ELSE 0
    BY ONLY j \in 0 .. m - 1 DEF Pairs, Terms
  <2>2. t[j] \in Int /\ r[j] \in Int
    BY <1>2
  <2>3. CASE j <= i
    <3>1. i - j \in 0 .. m - 1 /\ ~ ((i + m) - j \in 0 .. m - 1)
      BY <2>3
    <3>2. QED
      BY ONLY <2>1, <2>2, <2>3, <3>1
  <2>4. CASE ~ (j <= i)
    <3>1. ~ (i - j \in 0 .. m - 1) /\ (i + m) - j \in 0 .. m - 1 /\ m + i - j = (i + m) - j
      BY <2>4
    <3>2. w[j] = 0 /\ t[j] = -r[j]
      BY ONLY <2>1, <2>4, <3>1
    <3>3. QED
      BY ONLY <2>2, <3>2
  <2>5. QED
    BY <2>3, <2>4
<1> HIDE DEF t, r, w
<1>4. Total(w, m) = Total(t, m) + Total(r, m)
  BY <1>2, <1>3, TotalAdded
<1>5. Total(t, m) \in Int /\ Total(r, m) \in Int
  BY <1>2, TotalIsNumber
<1>6. Total(w, m) - Total(r, m) = Total(t, m)
  BY ONLY <1>4, <1>5
<1>7. QED
  BY <1>6 DEF Long, Times, t, r, w

(* karamul() is the product modulo x^m + 1.                                 *)
LEMMA KaramulIsTimes ==
  ASSUME NEW m, Power(m), NEW a \in Polynomial(m), NEW b \in Polynomial(m)
  PROVE  karamul(a, b) = Times(a, b, m)
<1>1. m \in Nat \ {0}
  BY PowerIs DEF Power
<1>2. Size(a) = m /\ DOMAIN a = 0 .. m - 1
  BY <1>1, SizeIs
<1> DEFINE ab == karatsuba(a, b, m)
<1>3. ab = [i \in 0 .. 2 * m - 1 |-> Long(a, b, m, m, i)]
  BY KaratsubaIsLong
<1>4. karamul(a, b) = [i \in 0 .. m - 1 |-> ab[i] - ab[i + m]]
  BY <1>2, Zenon DEF karamul
<1> HIDE DEF ab
<1>5. ASSUME NEW i \in 0 .. m - 1 PROVE ab[i] - ab[i + m] = Times(a, b, m)[i]
  <2>1. i \in 0 .. 2 * m - 1 /\ i + m \in 0 .. 2 * m - 1
    BY <1>1
  <2>2. ab[i] = Long(a, b, m, m, i) /\ ab[i + m] = Long(a, b, m, m, i + m)
    BY <1>3, <2>1
  <2>3. QED
    BY <1>1, <2>2, Folded
<1>6. Times(a, b, m) = [i \in 0 .. m - 1 |-> Times(a, b, m)[i]]
  BY DEF Times
<1>7. QED
  BY <1>4, <1>5, <1>6, Zenon

(***************************************************************************)
(* Lifts, conjugates and norms                                              *)
(***************************************************************************)

LEMMA EvenIs == ASSUME NEW j \in Nat PROVE (2 * j) % 2 = 0 /\ (2 * j) \div 2 = j
OBVIOUS

LEMMA OddIs == ASSUME NEW j \in Nat PROVE (2 * j + 1) % 2 = 1
OBVIOUS

LEMMA EvenOrOdd ==
  ASSUME NEW i \in Nat
  PROVE  \E j \in Nat : i = 2 * j \/ i = 2 * j + 1
<1>1. i \div 2 \in Nat /\ (i = 2 * (i \div 2) \/ i = 2 * (i \div 2) + 1)
  OBVIOUS
<1>2. QED
  BY <1>1

LEMMA PlacesAre ==
  ASSUME NEW h \in Nat, NEW j \in 0 .. h - 1
  PROVE  2 * j \in 0 .. 2 * h - 1 /\ 2 * j + 1 \in 0 .. 2 * h - 1
OBVIOUS

LEMMA SameByParity ==
  ASSUME NEW h \in Nat, NEW a \in Polynomial(2 * h), NEW b \in Polynomial(2 * h),
         \A j \in 0 .. h - 1 : a[2 * j] = b[2 * j] /\ a[2 * j + 1] = b[2 * j + 1]
  PROVE  a = b
<1>1. ASSUME NEW i \in 0 .. 2 * h - 1 PROVE a[i] = b[i]
  <2>1. PICK j \in Nat : i = 2 * j \/ i = 2 * j + 1
    <3>1. i \in Nat
      OBVIOUS
    <3>2. QED
      BY <3>1, EvenOrOdd, Zenon
  <2>2. j \in 0 .. h - 1
    BY <2>1
  <2>3. QED
    BY <2>1, <2>2
<1>2. QED
  BY <1>1, Same, Zenon

LEMMA LiftAt ==
  ASSUME NEW h \in Nat, NEW a \in Polynomial(h)
  PROVE  /\ lift(a) \in Polynomial(2 * h)
         /\ \A j \in 0 .. h - 1 : lift(a)[2 * j] = a[j] /\ lift(a)[2 * j + 1] = 0
<1>1. lift(a) = [i \in 0 .. 2 * h - 1 |-> IF i % 2 = 0 THEN a[i \div 2] ELSE 0]
  BY SizeIs DEF lift
<1>2. ASSUME NEW i \in 0 .. 2 * h - 1 PROVE (IF i % 2 = 0 THEN a[i \div 2] ELSE 0) \in Int
  <2>1. i \div 2 \in 0 .. h - 1
    OBVIOUS
  <2>2. QED
    BY <2>1 DEF Polynomial
<1>3. ASSUME NEW j \in 0 .. h - 1 PROVE lift(a)[2 * j] = a[j] /\ lift(a)[2 * j + 1] = 0
  <2>1. 2 * j \in 0 .. 2 * h - 1 /\ 2 * j + 1 \in 0 .. 2 * h - 1
    BY PlacesAre
  <2>2. (2 * j) % 2 = 0 /\ (2 * j) \div 2 = j /\ (2 * j + 1) % 2 = 1
    BY EvenIs, OddIs
  <2>3. QED
    BY ONLY <1>1, <2>1, <2>2
<1>4. QED
  BY <1>1, <1>2, <1>3 DEF Polynomial

LEMMA LiftAdded ==
  ASSUME NEW h \in Nat \ {0}, NEW a \in Polynomial(h), NEW b \in Polynomial(h)
  PROVE  lift(Added(a, b, h)) = Added(lift(a), lift(b), 2 * h)
<1>1. PICK m \in Nat \ {0} : m = 2 * h
  OBVIOUS
<1>2. lift(a) \in Polynomial(m) /\ lift(b) \in Polynomial(m) /\ Added(a, b, h) \in Polynomial(h)
  BY <1>1, LiftAt, AddedIs
<1>3. lift(Added(a, b, h)) \in Polynomial(m) /\ Added(lift(a), lift(b), m) \in Polynomial(m)
  BY <1>1, <1>2, LiftAt, AddedIs
<1>4. ASSUME NEW j \in 0 .. h - 1
      PROVE  /\ lift(Added(a, b, h))[2 * j] = Added(lift(a), lift(b), m)[2 * j]
             /\ lift(Added(a, b, h))[2 * j + 1] = Added(lift(a), lift(b), m)[2 * j + 1]
  <2>1. 2 * j \in 0 .. m - 1 /\ 2 * j + 1 \in 0 .. m - 1
    BY <1>1, PlacesAre
  <2>2. /\ lift(Added(a, b, h))[2 * j] = Added(a, b, h)[j] /\ lift(Added(a, b, h))[2 * j + 1] = 0
        /\ lift(a)[2 * j] = a[j] /\ lift(a)[2 * j + 1] = 0
        /\ lift(b)[2 * j] = b[j] /\ lift(b)[2 * j + 1] = 0
    BY <1>2, LiftAt
  <2>3. QED
    BY ONLY <2>1, <2>2, j \in 0 .. h - 1 DEF Added
<1>5. QED
  BY <1>1, <1>3, <1>4, SameByParity

LEMMA LiftScaled ==
  ASSUME NEW h \in Nat \ {0}, NEW a \in Polynomial(h), NEW c \in Int
  PROVE  lift(Scaled(c, a, h)) = Scaled(c, lift(a), 2 * h)
<1>1. PICK m \in Nat \ {0} : m = 2 * h
  OBVIOUS
<1>2. lift(a) \in Polynomial(m) /\ Scaled(c, a, h) \in Polynomial(h)
  BY <1>1, LiftAt, ScaledIs
<1>3. lift(Scaled(c, a, h)) \in Polynomial(m) /\ Scaled(c, lift(a), m) \in Polynomial(m)
  BY <1>1, <1>2, LiftAt, ScaledIs
<1>4. ASSUME NEW j \in 0 .. h - 1
      PROVE  /\ lift(Scaled(c, a, h))[2 * j] = Scaled(c, lift(a), m)[2 * j]
             /\ lift(Scaled(c, a, h))[2 * j + 1] = Scaled(c, lift(a), m)[2 * j + 1]
  <2>1. 2 * j \in 0 .. m - 1 /\ 2 * j + 1 \in 0 .. m - 1
    BY <1>1, PlacesAre
  <2>2. /\ lift(Scaled(c, a, h))[2 * j] = Scaled(c, a, h)[j] /\ lift(Scaled(c, a, h))[2 * j + 1] = 0
        /\ lift(a)[2 * j] = a[j] /\ lift(a)[2 * j + 1] = 0
    BY <1>2, LiftAt
  <2>3. QED
    BY ONLY <2>1, <2>2, j \in 0 .. h - 1, c \in Int DEF Scaled
<1>5. QED
  BY <1>1, <1>3, <1>4, SameByParity

(* What a lift holds around the places 2 * j and 2 * j + 1.                 *)
LEMMA LiftBefore ==
  ASSUME NEW h \in Nat \ {0}, NEW a \in Polynomial(h), NEW j \in 0 .. h - 1
  PROVE  /\ lift(a)[2 * h - 1] = 0 /\ lift(a)[2 * h - 2] = a[h - 1]
         /\ j # 0 => lift(a)[2 * j - 1] = 0 /\ lift(a)[2 * j - 2] = a[j - 1]
<1>1. h - 1 \in 0 .. h - 1 /\ 2 * (h - 1) = 2 * h - 2 /\ 2 * (h - 1) + 1 = 2 * h - 1
  OBVIOUS
<1>2. j # 0 => j - 1 \in 0 .. h - 1 /\ 2 * (j - 1) = 2 * j - 2 /\ 2 * (j - 1) + 1 = 2 * j - 1
  OBVIOUS
<1>3. \A k \in 0 .. h - 1 : lift(a)[2 * k] = a[k] /\ lift(a)[2 * k + 1] = 0
  BY LiftAt
<1>4. lift(a)[2 * (h - 1)] = a[h - 1] /\ lift(a)[2 * (h - 1) + 1] = 0
  BY <1>1, <1>3
<1>5. j # 0 => lift(a)[2 * (j - 1)] = a[j - 1] /\ lift(a)[2 * (j - 1) + 1] = 0
  BY <1>2, <1>3
<1>6. QED
  BY ONLY <1>1, <1>2, <1>4, <1>5

LEMMA LiftShifted ==
  ASSUME NEW h \in Nat \ {0}, NEW a \in Polynomial(h)
  PROVE  lift(Shifted(a, h)) = Shifted(Shifted(lift(a), 2 * h), 2 * h)
<1>1. PICK m \in Nat \ {0} : m = 2 * h
  OBVIOUS
<1>2. lift(a) \in Polynomial(m) /\ Shifted(a, h) \in Polynomial(h)
  BY <1>1, LiftAt, ShiftedIs
<1>3. lift(Shifted(a, h)) \in Polynomial(m) /\ Shifted(lift(a), m) \in Polynomial(m)
  BY <1>1, <1>2, LiftAt, ShiftedIs
<1>4. Shifted(Shifted(lift(a), m), m) \in Polynomial(m)
  BY <1>3, ShiftedIs
<1>5. ASSUME NEW j \in 0 .. h - 1
      PROVE  /\ lift(Shifted(a, h))[2 * j] = Shifted(Shifted(lift(a), m), m)[2 * j]
             /\ lift(Shifted(a, h))[2 * j + 1] = Shifted(Shifted(lift(a), m), m)[2 * j + 1]
  <2>1. /\ 2 * j \in 0 .. m - 1 /\ 2 * j + 1 \in 0 .. m - 1 /\ 2 * j + 1 # 0 /\ (2 * j + 1) - 1 = 2 * j
        /\ m - 1 \in 0 .. m - 1 /\ m - 1 # 0 /\ (m - 1) - 1 = m - 2
        /\ j = 0 => 2 * j = 0
        /\ j # 0 => 2 * j # 0 /\ 2 * j - 1 \in 0 .. m - 1 /\ 2 * j - 1 # 0 /\ (2 * j - 1) - 1 = 2 * j - 2
    BY <1>1
  <2>2. /\ lift(Shifted(a, h))[2 * j] = Shifted(a, h)[j] /\ lift(Shifted(a, h))[2 * j + 1] = 0
    BY <1>2, LiftAt
  <2>3. /\ lift(a)[m - 1] = 0 /\ lift(a)[m - 2] = a[h - 1]
        /\ j # 0 => lift(a)[2 * j - 1] = 0 /\ lift(a)[2 * j - 2] = a[j - 1]
    BY <1>1, LiftBefore
  <2>4. Shifted(a, h)[j] = IF j = 0 THEN -a[h - 1] ELSE a[j - 1]
    BY ShiftedAt
  <2> DEFINE s == Shifted(lift(a), m)
  <2>5. /\ s[m - 1] = a[h - 1]
        /\ j # 0 => s[2 * j - 1] = a[j - 1]
        /\ s[2 * j] = 0
    <3>1. s[m - 1] = a[h - 1]
      BY ONLY <2>1, <2>3 DEF Shifted
    <3>2. j # 0 => s[2 * j - 1] = a[j - 1]
      BY ONLY <2>1, <2>3 DEF Shifted
    <3>3. s[2 * j] = IF 2 * j = 0 THEN -lift(a)[m - 1] ELSE lift(a)[2 * j - 1]
      BY ONLY <2>1 DEF Shifted
    <3>4. s[2 * j] = 0
      <4>1. lift(a)[m - 1] \in Int /\ lift(a)[m - 1] <= 0 /\ lift(a)[m - 1] >= 0
        BY ONLY <2>3
      <4>2. -lift(a)[m - 1] = 0
        BY ONLY <4>1, MinusNothing, Zenon
      <4>3. QED
        BY ONLY <2>1, <2>3, <3>3, <4>2
    <3>5. QED
      BY <3>1, <3>2, <3>4
  <2> HIDE DEF s
  <2>6. /\ Shifted(s, m)[2 * j] = IF 2 * j = 0 THEN -s[m - 1] ELSE s[2 * j - 1]
        /\ Shifted(s, m)[2 * j + 1] = s[2 * j]
    BY ONLY <2>1 DEF Shifted
  <2>7. Shifted(s, m)[2 * j] = lift(Shifted(a, h))[2 * j]
    BY ONLY <2>1, <2>2, <2>4, <2>5, <2>6
  <2>8. QED
    BY <2>2, <2>5, <2>6, <2>7 DEF s
<1>6. QED
  BY <1>1, <1>3, <1>4, <1>5, SameByParity

LEMMA LiftConstants ==
  ASSUME NEW h \in Nat \ {0}
  PROVE  lift(Zero(h)) = Zero(2 * h) /\ lift(One(h)) = One(2 * h)
<1>1. PICK m \in Nat \ {0} : m = 2 * h
  OBVIOUS
<1>2. /\ Zero(h) \in Polynomial(h) /\ One(h) \in Polynomial(h)
      /\ Zero(m) \in Polynomial(m) /\ One(m) \in Polynomial(m)
  BY ConstantsAre
<1>3. lift(Zero(h)) \in Polynomial(m) /\ lift(One(h)) \in Polynomial(m)
  BY <1>1, <1>2, LiftAt
<1>4. ASSUME NEW j \in 0 .. h - 1
      PROVE  /\ lift(Zero(h))[2 * j] = Zero(m)[2 * j] /\ lift(Zero(h))[2 * j + 1] = Zero(m)[2 * j + 1]
             /\ lift(One(h))[2 * j] = One(m)[2 * j] /\ lift(One(h))[2 * j + 1] = One(m)[2 * j + 1]
  <2>1. /\ 2 * j \in 0 .. m - 1 /\ 2 * j + 1 \in 0 .. m - 1 /\ 2 * j + 1 # 0 /\ (2 * j = 0 <=> j = 0)
    BY <1>1
  <2>2. /\ lift(Zero(h))[2 * j] = Zero(h)[j] /\ lift(Zero(h))[2 * j + 1] = 0
        /\ lift(One(h))[2 * j] = One(h)[j] /\ lift(One(h))[2 * j + 1] = 0
    BY <1>2, LiftAt
  <2>3. QED
    BY ONLY <2>1, <2>2, j \in 0 .. h - 1 DEF Zero, One
<1>5. QED
  BY <1>1, <1>2, <1>3, <1>4, SameByParity

LEMMA LiftStep ==
  ASSUME NEW h \in Nat \ {0}, NEW a \in Polynomial(h), NEW c \in Int
  PROVE  lift(Step(c, a, h)) = Step(c, Step(0, lift(a), 2 * h), 2 * h)
<1>1. PICK m \in Nat \ {0} : m = 2 * h
  OBVIOUS
<1>2. lift(a) \in Polynomial(m) /\ Step(c, a, h) \in Polynomial(h)
  BY <1>1, LiftAt, StepIs
<1>3. lift(Step(c, a, h)) \in Polynomial(m) /\ Step(0, lift(a), m) \in Polynomial(m)
  BY <1>1, <1>2, LiftAt, StepIs
<1>4. Step(c, Step(0, lift(a), m), m) \in Polynomial(m)
  BY <1>3, StepIs
<1>5. ASSUME NEW j \in 0 .. h - 1
      PROVE  /\ lift(Step(c, a, h))[2 * j] = Step(c, Step(0, lift(a), m), m)[2 * j]
             /\ lift(Step(c, a, h))[2 * j + 1] = Step(c, Step(0, lift(a), m), m)[2 * j + 1]
  <2>1. /\ 2 * j \in 0 .. m - 1 /\ 2 * j + 1 \in 0 .. m - 1 /\ 2 * j + 1 # 0 /\ (2 * j + 1) - 1 = 2 * j
        /\ j = 0 => 2 * j = 0
        /\ j # 0 => 2 * j # 0 /\ 2 * j - 1 \in 0 .. m - 1 /\ 2 * j - 1 # 0 /\ (2 * j - 1) - 1 = 2 * j - 2
    BY <1>1
  <2>2. lift(Step(c, a, h))[2 * j] = Step(c, a, h)[j] /\ lift(Step(c, a, h))[2 * j + 1] = 0
    BY <1>2, LiftAt
  <2>3. j # 0 => lift(a)[2 * j - 1] = 0 /\ lift(a)[2 * j - 2] = a[j - 1]
    BY LiftBefore
  <2> DEFINE s == Step(0, lift(a), m)
  <2>4. /\ j # 0 => s[2 * j - 1] = a[j - 1]
        /\ s[2 * j] = 0
    BY ONLY <2>1, <2>3 DEF Step
  <2> HIDE DEF s
  <2>5. /\ Step(c, s, m)[2 * j] = IF 2 * j = 0 THEN c ELSE s[2 * j - 1]
        /\ Step(c, s, m)[2 * j + 1] = s[2 * j]
    BY ONLY <2>1 DEF Step
  <2>6. Step(c, a, h)[j] = IF j = 0 THEN c ELSE a[j - 1]
    BY DEF Step
  <2>7. Step(c, s, m)[2 * j] = lift(Step(c, a, h))[2 * j]
    BY ONLY <2>1, <2>2, <2>4, <2>5, <2>6
  <2>8. QED
    BY <2>2, <2>4, <2>5, <2>7 DEF s
<1>6. QED
  BY <1>1, <1>3, <1>4, <1>5, SameByParity

LEMMA ZeroAdded ==
  ASSUME NEW m \in Nat \ {0}, NEW a \in Polynomial(m)
  PROVE  Added(Zero(m), a, m) = a
<1>1. ASSUME NEW i \in 0 .. m - 1 PROVE Added(Zero(m), a, m)[i] = a[i]
  <2>1. a[i] \in Int
    BY DEF Polynomial
  <2>2. QED
    BY <2>1 DEF Added, Zero
<1>2. Added(Zero(m), a, m) \in Polynomial(m)
  BY ConstantsAre, AddedIs
<1>3. QED
  BY <1>1, <1>2, Same

(* Two steps of a product are one step of what is lifted.                   *)
LEMMA TimesTwoSteps ==
  ASSUME NEW m \in Nat \ {0}, NEW a \in Polynomial(m), NEW b \in Polynomial(m), NEW c \in Int,
         a[m - 1] = 0, Step(0, a, m)[m - 1] = 0
  PROVE  Times(Step(c, Step(0, a, m), m), b, m)
           = Added(Scaled(c, b, m), Shifted(Shifted(Times(a, b, m), m), m), m)
<1>1. Step(0, a, m) \in Polynomial(m)
  BY StepIs
<1>2. Shifted(Times(a, b, m), m) \in Polynomial(m)
  BY TimesIs, ShiftedIs
<1>3. Times(Step(0, a, m), b, m) = Shifted(Times(a, b, m), m)
  <2>1. Times(Step(0, a, m), b, m) = Added(Scaled(0, b, m), Shifted(Times(a, b, m), m), m)
    BY TimesStep
  <2>2. Scaled(0, b, m) = Zero(m)
    BY Nothing
  <2>3. QED
    BY <1>2, <2>1, <2>2, ZeroAdded
<1>4. QED
  BY <1>1, <1>3, TimesStep

LEMMA LiftTimes ==
  ASSUME NEW h \in Nat \ {0}, NEW a \in Polynomial(h), NEW b \in Polynomial(h)
  PROVE  lift(Times(a, b, h)) = Times(lift(a), lift(b), 2 * h)
<1>1. PICK m \in Nat \ {0} : m = 2 * h
  OBVIOUS
<1>2. \A p \in Polynomial(h) : lift(p) \in Polynomial(m)
  BY <1>1, LiftAt
<1> DEFINE f == [p \in Polynomial(h) |-> lift(Times(p, b, h))]
           g == [p \in Polynomial(h) |-> Times(lift(p), lift(b), m)]
           e == [p \in Polynomial(m) |-> Shifted(Shifted(p, m), m)]
           u == lift(b)
<1>3. f[Zero(h)] = Zero(m)
  <2>1. f[Zero(h)] = lift(Times(Zero(h), b, h))
    BY ConstantsAre
  <2>2. Times(Zero(h), b, h) = Zero(h)
    BY TimesZero
  <2>3. QED
    BY <1>1, <2>1, <2>2, LiftConstants
<1>4. ASSUME NEW c \in Int, NEW p \in Polynomial(h), p[h - 1] = 0
      PROVE  f[Step(c, p, h)] = Added(Scaled(c, u, m), e[f[p]], m)
  <2>1. PICK x \in Polynomial(h) : x = Times(p, b, h)
    BY TimesIs
  <2>2. Times(Step(c, p, h), b, h) = Added(Scaled(c, b, h), Shifted(x, h), h)
    BY <1>4, <2>1, TimesStep
  <2>3. f[Step(c, p, h)] = lift(Added(Scaled(c, b, h), Shifted(x, h), h))
    BY <2>2, StepIs
  <2>4. Scaled(c, b, h) \in Polynomial(h) /\ Shifted(x, h) \in Polynomial(h)
    BY ScaledIs, ShiftedIs
  <2>5. f[Step(c, p, h)] = Added(lift(Scaled(c, b, h)), lift(Shifted(x, h)), m)
    BY <1>1, <2>3, <2>4, LiftAdded
  <2>6. lift(Scaled(c, b, h)) = Scaled(c, u, m) /\ lift(Shifted(x, h)) = Shifted(Shifted(lift(x), m), m)
    BY <1>1, LiftScaled, LiftShifted
  <2>7. e[f[p]] = Shifted(Shifted(lift(x), m), m)
    BY <1>2, <2>1
  <2>8. QED
    BY <2>5, <2>6, <2>7
<1>5. g[Zero(h)] = Zero(m)
  <2>1. g[Zero(h)] = Times(lift(Zero(h)), lift(b), m)
    BY ConstantsAre
  <2>2. lift(Zero(h)) = Zero(m)
    BY <1>1, LiftConstants
  <2>3. QED
    BY <1>2, <2>1, <2>2, TimesZero
<1>6. ASSUME NEW c \in Int, NEW p \in Polynomial(h), p[h - 1] = 0
      PROVE  g[Step(c, p, h)] = Added(Scaled(c, u, m), e[g[p]], m)
  <2>1. PICK x \in Polynomial(m) : x = lift(p)
    BY <1>2
  <2>2. x[m - 1] = 0 /\ x[m - 2] = 0
    <3>1. h - 1 \in 0 .. h - 1
      OBVIOUS
    <3>2. QED
      BY <1>1, <1>6, <2>1, <3>1, LiftBefore
  <2>3. Step(0, x, m)[m - 1] = 0
    <3>1. m - 1 \in 0 .. m - 1 /\ m - 1 # 0 /\ (m - 1) - 1 = m - 2
      BY <1>1
    <3>2. QED
      BY ONLY <2>2, <3>1 DEF Step
  <2>4. lift(Step(c, p, h)) = Step(c, Step(0, x, m), m)
    BY <1>1, <2>1, LiftStep
  <2>5. g[Step(c, p, h)] = Times(Step(c, Step(0, x, m), m), u, m)
    BY <2>4, StepIs
  <2>6. u \in Polynomial(m) /\ Times(x, u, m) \in Polynomial(m)
    BY <1>2, TimesIs
  <2>7. e[g[p]] = Shifted(Shifted(Times(x, u, m), m), m)
    BY <2>1, <2>6
  <2>8. Times(Step(c, Step(0, x, m), m), u, m) = Added(Scaled(c, u, m), Shifted(Shifted(Times(x, u, m), m), m), m)
    BY <2>2, <2>3, <2>6, TimesTwoSteps
  <2>9. QED
    BY <2>5, <2>7, <2>8
<1>7. Horner(f, e, u, h, m) /\ Horner(g, e, u, h, m)
  BY <1>3, <1>4, <1>5, <1>6 DEF Horner
<1>8. f[a] = g[a]
  BY <1>7, Unique
<1>9. QED
  BY <1>1, <1>8

Evens(a, h) == [i \in 0 .. h - 1 |-> a[2 * i]]

Odds(a, h) == [i \in 0 .. h - 1 |-> a[2 * i + 1]]

LEMMA PartsAre ==
  ASSUME NEW h \in Nat, NEW a \in Polynomial(2 * h)
  PROVE  Evens(a, h) \in Polynomial(h) /\ Odds(a, h) \in Polynomial(h)
<1>1. \A i \in 0 .. h - 1 : a[2 * i] \in Int /\ a[2 * i + 1] \in Int
  BY PlacesAre DEF Polynomial
<1>2. QED
  BY <1>1 DEF Polynomial, Evens, Odds

(* a(x) out of its even and its odd coefficients, and so a(-x).             *)
LEMMA PartsMake ==
  ASSUME NEW h \in Nat \ {0}, NEW m \in Nat \ {0}, m = 2 * h, NEW a \in Polynomial(m)
  PROVE  /\ a = Added(lift(Evens(a, h)), Shifted(lift(Odds(a, h)), m), m)
         /\ galois_conjugate(a) = Added(lift(Evens(a, h)), Scaled(-1, Shifted(lift(Odds(a, h)), m), m), m)
         /\ galois_conjugate(a) \in Polynomial(m)
<1> DEFINE x == lift(Evens(a, h))
           y == lift(Odds(a, h))
           s == Shifted(y, m)
<1>1. Evens(a, h) \in Polynomial(h) /\ Odds(a, h) \in Polynomial(h)
  BY PartsAre
<1>2. x \in Polynomial(m) /\ y \in Polynomial(m)
  BY <1>1, LiftAt
<1>3. s \in Polynomial(m)
  BY <1>2, ShiftedIs
<1>4. -1 \in Int
  OBVIOUS
<1>5. Added(x, s, m) \in Polynomial(m) /\ Added(x, Scaled(-1, s, m), m) \in Polynomial(m)
  BY <1>2, <1>3, <1>4, AddedIs, ScaledIs
<1>6. galois_conjugate(a) = [i \in 0 .. m - 1 |-> IF i % 2 = 0 THEN a[i] ELSE -a[i]]
  BY SizeIs DEF galois_conjugate
<1>7. galois_conjugate(a) \in Polynomial(m)
  <2>1. \A i \in 0 .. m - 1 : a[i] \in Int
    BY DEF Polynomial
  <2>2. QED
    BY <1>6, <2>1 DEF Polynomial
<1>8. ASSUME NEW j \in 0 .. h - 1
      PROVE  /\ x[2 * j] = a[2 * j] /\ x[2 * j + 1] = 0
             /\ s[2 * j] = 0 /\ s[2 * j + 1] = a[2 * j + 1]
             /\ a[2 * j] \in Int /\ a[2 * j + 1] \in Int
             /\ galois_conjugate(a)[2 * j] = a[2 * j] /\ galois_conjugate(a)[2 * j + 1] = -a[2 * j + 1]
  <2>1. /\ 2 * j \in 0 .. m - 1 /\ 2 * j + 1 \in 0 .. m - 1 /\ 2 * j + 1 # 0 /\ (2 * j + 1) - 1 = 2 * j
        /\ 2 * h - 1 = m - 1 /\ (2 * j = 0 => j = 0)
    OBVIOUS
  <2>2. a[2 * j] \in Int /\ a[2 * j + 1] \in Int
    BY <2>1 DEF Polynomial
  <2>3. Evens(a, h)[j] = a[2 * j] /\ Odds(a, h)[j] = a[2 * j + 1]
    BY DEF Evens, Odds
  <2>4. x[2 * j] = a[2 * j] /\ x[2 * j + 1] = 0 /\ y[2 * j] = a[2 * j + 1]
    BY <1>1, <2>3, LiftAt
  <2>5. y[m - 1] = 0 /\ (j # 0 => y[2 * j - 1] = 0)
    BY <1>1, <2>1, LiftBefore
  <2>6. s[2 * j + 1] = a[2 * j + 1]
    BY ONLY <2>1, <2>4 DEF Shifted
  <2>7. s[2 * j] = 0
    <3>1. s[2 * j] = IF 2 * j = 0 THEN -y[m - 1] ELSE y[2 * j - 1]
      BY ONLY <2>1 DEF Shifted
    <3>2. y[m - 1] \in Int /\ y[m - 1] <= 0 /\ y[m - 1] >= 0
      BY ONLY <2>5
    <3>3. -y[m - 1] = 0
      BY ONLY <3>2, MinusNothing, Zenon
    <3>4. QED
      BY ONLY <2>1, <2>5, <3>1, <3>3
  <2>8. galois_conjugate(a)[2 * j] = a[2 * j] /\ galois_conjugate(a)[2 * j + 1] = -a[2 * j + 1]
    <3>1. (2 * j) % 2 = 0 /\ (2 * j + 1) % 2 = 1
      BY EvenIs, OddIs
    <3>2. QED
      BY ONLY <1>6, <2>1, <3>1
  <2>9. QED
    BY <2>2, <2>4, <2>6, <2>7, <2>8
<1> HIDE DEF x, y, s
<1>9. ASSUME NEW j \in 0 .. h - 1
      PROVE  /\ a[2 * j] = Added(x, s, m)[2 * j] /\ a[2 * j + 1] = Added(x, s, m)[2 * j + 1]
             /\ galois_conjugate(a)[2 * j] = Added(x, Scaled(-1, s, m), m)[2 * j]
             /\ galois_conjugate(a)[2 * j + 1] = Added(x, Scaled(-1, s, m), m)[2 * j + 1]
  <2>1. 2 * j \in 0 .. m - 1 /\ 2 * j + 1 \in 0 .. m - 1
    OBVIOUS
  <2>2. /\ Added(x, s, m)[2 * j] = x[2 * j] + s[2 * j]
        /\ Added(x, s, m)[2 * j + 1] = x[2 * j + 1] + s[2 * j + 1]
        /\ Added(x, Scaled(-1, s, m), m)[2 * j] = x[2 * j] + (-1) * s[2 * j]
        /\ Added(x, Scaled(-1, s, m), m)[2 * j + 1] = x[2 * j + 1] + (-1) * s[2 * j + 1]
    BY ONLY <2>1 DEF Added, Scaled
  <2>3. /\ x[2 * j] = a[2 * j] /\ x[2 * j + 1] = 0
        /\ s[2 * j] = 0 /\ s[2 * j + 1] = a[2 * j + 1]
        /\ a[2 * j] \in Int /\ a[2 * j + 1] \in Int
        /\ galois_conjugate(a)[2 * j] = a[2 * j] /\ galois_conjugate(a)[2 * j + 1] = -a[2 * j + 1]
    BY <1>8
  <2>4. QED
    BY ONLY <2>2, <2>3
<1>10. a = Added(x, s, m)
  BY <1>5, <1>9, SameByParity
<1>11. galois_conjugate(a) = Added(x, Scaled(-1, s, m), m)
  BY <1>5, <1>7, <1>9, SameByParity
<1>12. QED
  BY <1>7, <1>10, <1>11 DEF x, y, s

(* (x + y) * (x - y) = x^2 - y^2                                            *)
LEMMA SquaresDiffer ==
  ASSUME NEW m \in Nat \ {0}, NEW x \in Polynomial(m), NEW y \in Polynomial(m)
  PROVE  Times(Added(x, y, m), Added(x, Scaled(-1, y, m), m), m)
           = Added(Times(x, x, m), Scaled(-1, Times(y, y, m), m), m)
<1>1. PICK w \in Polynomial(m) : w = Scaled(-1, y, m)
  BY ScaledIs
<1>2. Added(x, w, m) \in Polynomial(m)
  BY AddedIs
<1>3. Times(Added(x, y, m), Added(x, w, m), m)
        = Added(Times(x, Added(x, w, m), m), Times(y, Added(x, w, m), m), m)
  BY <1>2, AddedTimes
<1>4. PICK xx \in Polynomial(m), xy \in Polynomial(m), yy \in Polynomial(m) :
        xx = Times(x, x, m) /\ xy = Times(x, y, m) /\ yy = Times(y, y, m)
  BY TimesIs
<1>5. Times(x, Added(x, w, m), m) = Added(xx, Scaled(-1, xy, m), m)
  <2>1. Times(x, w, m) = Scaled(-1, xy, m)
    BY <1>1, <1>4, TimesScaled
  <2>2. QED
    BY <1>4, <2>1, TimesAdded
<1>6. Times(y, Added(x, w, m), m) = Added(xy, Scaled(-1, yy, m), m)
  <2>1. Times(y, w, m) = Scaled(-1, yy, m)
    BY <1>1, <1>4, TimesScaled
  <2>2. Times(y, x, m) = xy
    BY <1>4, Commutes
  <2>3. QED
    BY <2>1, <2>2, TimesAdded
<1>7. ASSUME NEW i \in 0 .. m - 1
      PROVE  Added(Added(xx, Scaled(-1, xy, m), m), Added(xy, Scaled(-1, yy, m), m), m)[i]
               = Added(xx, Scaled(-1, yy, m), m)[i]
  <2>1. xx[i] \in Int /\ xy[i] \in Int /\ yy[i] \in Int
    BY DEF Polynomial
  <2>2. /\ Added(Added(xx, Scaled(-1, xy, m), m), Added(xy, Scaled(-1, yy, m), m), m)[i]
             = (xx[i] + (-1) * xy[i]) + (xy[i] + (-1) * yy[i])
        /\ Added(xx, Scaled(-1, yy, m), m)[i] = xx[i] + (-1) * yy[i]
    BY ONLY i \in 0 .. m - 1 DEF Added, Scaled
  <2>3. QED
    BY ONLY <2>1, <2>2
<1>8. Scaled(-1, xy, m) \in Polynomial(m) /\ Scaled(-1, yy, m) \in Polynomial(m)
  BY ScaledIs
<1>9. /\ Added(xx, Scaled(-1, xy, m), m) \in Polynomial(m)
      /\ Added(xy, Scaled(-1, yy, m), m) \in Polynomial(m)
      /\ Added(xx, Scaled(-1, yy, m), m) \in Polynomial(m)
  BY <1>8, AddedIs
<1>10. Added(Added(xx, Scaled(-1, xy, m), m), Added(xy, Scaled(-1, yy, m), m), m) \in Polynomial(m)
  BY <1>9, AddedIs
<1>11. Added(Added(xx, Scaled(-1, xy, m), m), Added(xy, Scaled(-1, yy, m), m), m)
         = Added(xx, Scaled(-1, yy, m), m)
  BY <1>7, <1>9, <1>10, Same
<1>12. QED
  BY <1>1, <1>3, <1>4, <1>5, <1>6, <1>11

LEMMA NormIs ==
  ASSUME NEW h, Power(h), NEW m, m = 2 * h, NEW a \in Polynomial(m)
  PROVE  /\ field_norm(a) = Added(Times(Evens(a, h), Evens(a, h), h),
                                  Scaled(-1, Shifted(Times(Odds(a, h), Odds(a, h), h), h), h), h)
         /\ field_norm(a) \in Polynomial(h)
<1>1. h \in Nat \ {0} /\ m \in Nat
  BY PowerIs DEF Power
<1>2. Size(a) \div 2 = h
  BY <1>1, SizeIs, TwiceHalf
<1> DEFINE x == Evens(a, h)
           y == Odds(a, h)
<1>3. x \in Polynomial(h) /\ y \in Polynomial(h)
  BY <1>1, PartsAre
<1>4. karamul(x, x) = Times(x, x, h) /\ karamul(y, y) = Times(y, y, h)
  BY <1>3, KaramulIsTimes
<1>5. field_norm(a) = [i \in 0 .. h - 1 |->
         karamul(x, x)[i] + (IF i = 0 THEN karamul(y, y)[h - 1] ELSE -karamul(y, y)[i - 1])]
  BY <1>2, Zenon DEF field_norm, Evens, Odds
<1> HIDE DEF x, y
<1>6. PICK p \in Polynomial(h), r \in Polynomial(h) : p = Times(x, x, h) /\ r = Times(y, y, h)
  BY <1>1, <1>3, TimesIs
<1>7. ASSUME NEW i \in 0 .. h - 1
      PROVE  Added(p, Scaled(-1, Shifted(r, h), h), h)[i]
               = p[i] + (IF i = 0 THEN r[h - 1] ELSE -r[i - 1])
  <2>1. r[h - 1] \in Int /\ (i # 0 => r[i - 1] \in Int) /\ p[i] \in Int
    BY <1>1, CoefficientIs
  <2>2. Added(p, Scaled(-1, Shifted(r, h), h), h)[i]
          = p[i] + (-1) * (IF i = 0 THEN -r[h - 1] ELSE r[i - 1])
    BY ONLY i \in 0 .. h - 1 DEF Added, Scaled, Shifted
  <2>3. QED
    BY ONLY <2>1, <2>2
<1>8. Added(p, Scaled(-1, Shifted(r, h), h), h) \in Polynomial(h)
  BY <1>1, ShiftedIs, ScaledIs, AddedIs
<1>9. Added(p, Scaled(-1, Shifted(r, h), h), h)
        = [i \in 0 .. h - 1 |-> Added(p, Scaled(-1, Shifted(r, h), h), h)[i]]
  BY DEF Added
<1>10. field_norm(a) = [i \in 0 .. h - 1 |-> p[i] + (IF i = 0 THEN r[h - 1] ELSE -r[i - 1])]
  BY ONLY <1>4, <1>5, <1>6
<1>11. field_norm(a) = Added(p, Scaled(-1, Shifted(r, h), h), h)
  BY <1>7, <1>9, <1>10, Zenon
<1>12. QED
  BY <1>6, <1>8, <1>11 DEF x, y

(* a(x) * a(-x) is the norm of a, at x^2.                                   *)
LEMMA NormLifts ==
  ASSUME NEW h, Power(h), NEW m, m = 2 * h, NEW a \in Polynomial(m)
  PROVE  Times(a, galois_conjugate(a), m) = lift(field_norm(a))
<1>1. h \in Nat \ {0} /\ m \in Nat \ {0}
  BY PowerIs DEF Power
<1>2. PICK e \in Polynomial(h), o \in Polynomial(h) : e = Evens(a, h) /\ o = Odds(a, h)
  BY <1>1, PartsAre
<1>3. PICK x \in Polynomial(m), y \in Polynomial(m) : x = lift(e) /\ y = lift(o)
  BY <1>1, LiftAt
<1>4. PICK s \in Polynomial(m) : s = Shifted(y, m)
  BY <1>1, ShiftedIs
<1>5. a = Added(x, s, m) /\ galois_conjugate(a) = Added(x, Scaled(-1, s, m), m)
  BY <1>1, <1>2, <1>3, <1>4, PartsMake
<1>6. Times(a, galois_conjugate(a), m)
        = Added(Times(x, x, m), Scaled(-1, Times(s, s, m), m), m)
  <2>1. Times(Added(x, s, m), Added(x, Scaled(-1, s, m), m), m)
          = Added(Times(x, x, m), Scaled(-1, Times(s, s, m), m), m)
    BY <1>1, SquaresDiffer
  <2>2. QED
    BY ONLY <1>5, <2>1
<1>7. PICK p \in Polynomial(h), r \in Polynomial(h) : p = Times(e, e, h) /\ r = Times(o, o, h)
  BY <1>1, TimesIs
<1>8. Times(x, x, m) = lift(p) /\ Times(y, y, m) = lift(r)
  BY <1>1, <1>3, <1>7, LiftTimes
<1>9. Times(s, s, m) = lift(Shifted(r, h))
  <2>1. Times(s, s, m) = Shifted(Times(y, s, m), m)
    BY <1>1, <1>4, ShiftedTimes
  <2>2. Times(y, s, m) = Shifted(Times(y, y, m), m)
    BY <1>1, <1>4, TimesShifted
  <2>3. lift(Shifted(r, h)) = Shifted(Shifted(lift(r), m), m)
    BY <1>1, LiftShifted
  <2>4. QED
    BY ONLY <1>8, <2>1, <2>2, <2>3
<1>10. PICK v \in Polynomial(h) : v = Shifted(r, h)
  BY <1>1, ShiftedIs
<1>11. PICK w \in Polynomial(h) : w = Scaled(-1, v, h)
  BY <1>1, ScaledIs
<1>12. lift(w) = Scaled(-1, lift(v), m)
  BY <1>1, <1>11, LiftScaled
<1>13. lift(Added(p, w, h)) = Added(lift(p), lift(w), m)
  BY <1>1, LiftAdded
<1>14. field_norm(a) = Added(p, w, h)
  <2>1. field_norm(a) = Added(Times(Evens(a, h), Evens(a, h), h),
                              Scaled(-1, Shifted(Times(Odds(a, h), Odds(a, h), h), h), h), h)
    BY NormIs
  <2>2. QED
    BY ONLY <1>2, <1>7, <1>10, <1>11, <2>1
<1>15. QED
  BY ONLY <1>6, <1>8, <1>9, <1>10, <1>12, <1>13, <1>14

(* f * G - g * F = q, modulo x^m + 1.                                       *)
Solves(f, g, F_, G_, m) ==
  Added(Times(f, G_, m), Scaled(-1, Times(g, F_, m), m), m) = Scaled(q, One(m), m)

(* x * (a(-x)) * a(x), where x is lifted, is a lift.                        *)
LEMMA LiftedProduct ==
  ASSUME NEW h, Power(h), NEW m, m = 2 * h, NEW a \in Polynomial(m), NEW b \in Polynomial(h)
  PROVE  Times(a, Times(lift(b), galois_conjugate(a), m), m) = lift(Times(field_norm(a), b, h))
<1>1. h \in Nat \ {0} /\ m \in Nat \ {0}
  BY PowerIs DEF Power
<1>2. PICK x \in Polynomial(m), c \in Polynomial(m) : x = lift(b) /\ c = galois_conjugate(a)
  BY <1>1, LiftAt, PartsMake
<1>3. Times(x, c, m) = Times(c, x, m)
  BY <1>1, Commutes
<1>4. Times(a, Times(c, x, m), m) = Times(Times(a, c, m), x, m)
  BY <1>1, Associates
<1>5. Times(a, c, m) = lift(field_norm(a))
  BY <1>2, NormLifts
<1>6. field_norm(a) \in Polynomial(h)
  BY NormIs
<1>7. lift(Times(field_norm(a), b, h)) = Times(lift(field_norm(a)), x, m)
  BY <1>1, <1>2, <1>6, LiftTimes
<1>8. QED
  BY ONLY <1>2, <1>3, <1>4, <1>5, <1>7

(* A solution for the norms gives one a level up.                           *)
LEMMA SolutionLifts ==
  ASSUME NtruAssumption,
         NEW h, Power(h), NEW m, m = 2 * h, NEW f \in Polynomial(m), NEW g \in Polynomial(m),
         NEW F_ \in Polynomial(h), NEW G_ \in Polynomial(h), Solves(field_norm(f), field_norm(g), F_, G_, h)
  PROVE  Solves(f, g, Times(lift(F_), galois_conjugate(g), m), Times(lift(G_), galois_conjugate(f), m), m)
<1>1. h \in Nat \ {0} /\ m \in Nat \ {0} /\ q \in Int /\ -1 \in Int
  BY PowerIs DEF Power, NtruAssumption
<1>2. field_norm(f) \in Polynomial(h) /\ field_norm(g) \in Polynomial(h)
  BY NormIs
<1>3. PICK x \in Polynomial(h), y \in Polynomial(h) :
        x = Times(field_norm(f), G_, h) /\ y = Times(field_norm(g), F_, h)
  BY <1>1, <1>2, TimesIs
<1>4. Added(x, Scaled(-1, y, h), h) = Scaled(q, One(h), h)
  BY <1>3 DEF Solves
<1>5. /\ Times(f, Times(lift(G_), galois_conjugate(f), m), m) = lift(x)
      /\ Times(g, Times(lift(F_), galois_conjugate(g), m), m) = lift(y)
  BY <1>3, LiftedProduct
<1>6. PICK w \in Polynomial(h) : w = Scaled(-1, y, h)
  BY <1>1, ScaledIs
<1>7. lift(Added(x, w, h)) = Added(lift(x), lift(w), m) /\ lift(w) = Scaled(-1, lift(y), m)
  BY <1>1, <1>6, LiftAdded, LiftScaled
<1>8. lift(Scaled(q, One(h), h)) = Scaled(q, One(m), m)
  <2>1. One(h) \in Polynomial(h) /\ lift(One(h)) = One(m)
    BY <1>1, ConstantsAre, LiftConstants
  <2>2. lift(Scaled(q, One(h), h)) = Scaled(q, lift(One(h)), m)
    BY <1>1, <2>1, LiftScaled
  <2>3. QED
    BY ONLY <2>1, <2>2
<1>9. Added(lift(x), Scaled(-1, lift(y), m), m) = Scaled(q, One(m), m)
  BY ONLY <1>4, <1>6, <1>7, <1>8
<1>10. QED
  BY ONLY <1>5, <1>9 DEF Solves

(* A multiple of f off F, and the same of g off G, leave a solution one.    *)
LEMMA SolutionReduces ==
  ASSUME NEW m \in Nat \ {0}, NEW f \in Polynomial(m), NEW g \in Polynomial(m),
         NEW F_ \in Polynomial(m), NEW G_ \in Polynomial(m), Solves(f, g, F_, G_, m),
         NEW k \in Polynomial(m), NEW c \in Int
  PROVE  Solves(f, g, Added(F_, Scaled(c, Times(f, k, m), m), m), Added(G_, Scaled(c, Times(g, k, m), m), m), m)
<1>1. PICK fk \in Polynomial(m), gk \in Polynomial(m) : fk = Times(f, k, m) /\ gk = Times(g, k, m)
  BY TimesIs
<1>2. PICK u \in Polynomial(m), v \in Polynomial(m) : u = Scaled(c, fk, m) /\ v = Scaled(c, gk, m)
  BY ScaledIs
<1>3. PICK x \in Polynomial(m), y \in Polynomial(m), z \in Polynomial(m) :
        x = Times(f, G_, m) /\ y = Times(g, F_, m) /\ z = Times(f, gk, m)
  BY TimesIs
<1>4. Times(g, fk, m) = z
  <2>1. Times(g, fk, m) = Times(Times(g, f, m), k, m)
    BY <1>1, Associates
  <2>2. Times(f, gk, m) = Times(Times(f, g, m), k, m)
    BY <1>1, Associates
  <2>3. Times(g, f, m) = Times(f, g, m)
    BY Commutes
  <2>4. QED
    BY ONLY <1>3, <2>1, <2>2, <2>3
<1>5. Times(f, Added(G_, v, m), m) = Added(x, Scaled(c, z, m), m)
  <2>1. Times(f, v, m) = Scaled(c, z, m)
    BY <1>2, <1>3, TimesScaled
  <2>2. QED
    BY <1>3, <2>1, TimesAdded
<1>6. Times(g, Added(F_, u, m), m) = Added(y, Scaled(c, z, m), m)
  <2>1. Times(g, u, m) = Scaled(c, z, m)
    BY <1>2, <1>4, TimesScaled
  <2>2. QED
    BY <1>3, <2>1, TimesAdded
<1>7. PICK w \in Polynomial(m) : w = Scaled(c, z, m)
  BY ScaledIs
<1>8. ASSUME NEW i \in 0 .. m - 1
      PROVE  Added(Added(x, w, m), Scaled(-1, Added(y, w, m), m), m)[i]
               = Added(x, Scaled(-1, y, m), m)[i]
  <2>1. x[i] \in Int /\ y[i] \in Int /\ w[i] \in Int
    BY DEF Polynomial
  <2>2. /\ Added(Added(x, w, m), Scaled(-1, Added(y, w, m), m), m)[i]
             = (x[i] + w[i]) + (-1) * (y[i] + w[i])
        /\ Added(x, Scaled(-1, y, m), m)[i] = x[i] + (-1) * y[i]
    BY ONLY i \in 0 .. m - 1 DEF Added, Scaled
  <2>3. QED
    BY ONLY <2>1, <2>2
<1>9. Added(x, w, m) \in Polynomial(m) /\ Added(y, w, m) \in Polynomial(m)
  BY AddedIs
<1>10. Scaled(-1, Added(y, w, m), m) \in Polynomial(m) /\ Scaled(-1, y, m) \in Polynomial(m)
  BY <1>9, ScaledIs
<1>11. /\ Added(Added(x, w, m), Scaled(-1, Added(y, w, m), m), m) \in Polynomial(m)
       /\ Added(x, Scaled(-1, y, m), m) \in Polynomial(m)
  BY <1>9, <1>10, AddedIs
<1>12. Added(Added(x, w, m), Scaled(-1, Added(y, w, m), m), m) = Added(x, Scaled(-1, y, m), m)
  BY <1>8, <1>11, Same
<1>13. Added(x, Scaled(-1, y, m), m) = Scaled(q, One(m), m)
  BY <1>3 DEF Solves
<1>14. QED
  BY ONLY <1>1, <1>2, <1>5, <1>6, <1>7, <1>12, <1>13 DEF Solves

(***************************************************************************)
(* xgcd()                                                                   *)
(***************************************************************************)

LEMMA Division ==
  ASSUME NEW a \in Int, NEW b \in Nat \ {0}
  PROVE  \E k \in Int, r \in 0 .. b - 1 : k = a \div b /\ r = a % b /\ a = b * k + r
OBVIOUS

LEMMA Bounds == ASSUME NEW a \in Nat, NEW z \in Int, z >= 1 PROVE a * z >= a
OBVIOUS

LEMMA BoundsBelow == ASSUME NEW a \in Nat, NEW z \in Int, z <= -1 PROVE a * z <= -a
OBVIOUS

LEMMA Subtract == ASSUME NEW a \in Int, NEW x \in Int, NEW y \in Int PROVE a * (x - y) = a * x - a * y
OBVIOUS

Divides(d, a) == \E z \in Int : a = d * z

LEMMA DividesRest ==
  ASSUME NEW d \in Nat \ {0}, NEW a \in Int, Divides(d, a)
  PROVE  a % d = 0
<1>1. PICK z \in Int : a = d * z
  BY DEF Divides
<1>2. PICK k \in Int, r \in 0 .. d - 1 : r = a % d /\ a = d * k + r
  BY Division
<1>3. PICK w \in Int : w = z - k
  OBVIOUS
<1>4. d * w = r
  <2>1. d * (z - k) = d * z - d * k
    BY Subtract
  <2>2. d * z \in Int /\ d * k \in Int
    OBVIOUS
  <2>3. QED
    BY ONLY <1>1, <1>2, <1>3, <2>1, <2>2
<1>5. ~ (w >= 1)
  <2>1. w >= 1 => d * w >= d
    BY Bounds
  <2>2. QED
    BY <1>2, <1>4, <2>1
<1>6. ~ (w <= -1)
  <2>1. w <= -1 => d * w <= -d
    BY BoundsBelow
  <2>2. QED
    BY <1>2, <1>4, <2>1
<1>7. w = 0
  BY <1>5, <1>6
<1>8. QED
  BY <1>2, <1>4, <1>7

(* What divides two numbers divides a sum of multiples of them.             *)
LEMMA DividesSum ==
  ASSUME NEW d \in Int, NEW a \in Int, NEW b \in Int, NEW k \in Int, Divides(d, a), Divides(d, b)
  PROVE  Divides(d, a * k + b)
<1>1. PICK x \in Int, y \in Int : a = d * x /\ b = d * y
  BY DEF Divides
<1>2. PICK z \in Int : z = x * k
  OBVIOUS
<1>3. a * k = d * z
  <2>1. (d * x) * k = d * (x * k)
    OBVIOUS
  <2>2. QED
    BY ONLY <1>1, <1>2, <2>1
<1>4. d * (z + y) = d * z + d * y
  BY Distribute
<1>5. a * k + b = d * (z + y) /\ z + y \in Int
  BY ONLY <1>1, <1>3, <1>4, <1>2
<1>6. QED
  BY <1>5 DEF Divides

(* The rounds of xgcd(), by the remainder they begin with.                  *)
Rounds(f, m) ==
  f = [r \in 0 .. m |->
         [t \in Remainders |->
            IF r = 0 THEN [d |-> t.c, u |-> t.x0, v |-> t.y0]
            ELSE LET k == t.c \div r
                 IN  f[t.c % r]
                       [[c |-> r, x0 |-> t.x1, x1 |-> t.x0 - k * t.x1,
                                  y0 |-> t.y1, y1 |-> t.y0 - k * t.y1]]]]

Next_(r, t) ==
  [c |-> r, x0 |-> t.x1, x1 |-> t.x0 - (t.c \div r) * t.x1,
            y0 |-> t.y1, y1 |-> t.y0 - (t.c \div r) * t.y1]

Round(f, r, t) ==
  IF r = 0 THEN [d |-> t.c, u |-> t.x0, v |-> t.y0] ELSE f[t.c % r][Next_(r, t)]

LEMMA RoundsAre ==
  ASSUME NEW f, NEW m
  PROVE  Rounds(f, m) <=> f = [r \in 0 .. m |-> [t \in Remainders |-> Round(f, r, t)]]
BY Zenon DEF Rounds, Round, Next_

LEMMA RestIsLess ==
  ASSUME NEW r \in Nat \ {0}, NEW t \in Remainders
  PROVE  t.c % r \in 0 .. r - 1
<1>1. t.c \in Int
  BY DEF Remainders
<1>2. \A c \in Int : c % r \in 0 .. r - 1
  OBVIOUS
<1>3. QED
  BY <1>1, <1>2

LEMMA RoundsExtend ==
  ASSUME NEW k \in Nat, NEW f, Rounds(f, k)
  PROVE  \E g : Rounds(g, k + 1)
<1> DEFINE Of(p, r) == [t \in Remainders |-> Round(p, r, t)]
           g == [r \in 0 .. k + 1 |-> IF r = k + 1 THEN Of(f, r) ELSE f[r]]
<1>1. f = [r \in 0 .. k |-> Of(f, r)]
  BY RoundsAre, Zenon
<1>2. ASSUME NEW r \in 0 .. k + 1
      PROVE  g[r] = Of(g, r)
  <2>1. g[r] = Of(f, r)
    <3>1. CASE r = k + 1
      BY <3>1
    <3>2. CASE r # k + 1
      <4>1. r \in 0 .. k
        BY <3>2
      <4>2. f[r] = Of(f, r)
        BY <1>1, <4>1, Zenon
      <4>3. QED
        BY <3>2, <4>2, Zenon
    <3>3. QED
      BY <3>1, <3>2
  <2>2. ASSUME NEW t \in Remainders PROVE Round(f, r, t) = Round(g, r, t)
    <3>1. CASE r = 0
      BY <3>1 DEF Round
    <3>2. CASE r # 0
      <4>1. t.c % r \in 0 .. r - 1
        <5>1. r \in Nat \ {0}
          BY <3>2
        <5>2. QED
          BY <5>1, RestIsLess, Zenon
      <4>2. t.c % r \in 0 .. k + 1 /\ t.c % r # k + 1
        <5>1. \A i \in 0 .. r - 1 : i \in 0 .. k + 1 /\ i # k + 1
          OBVIOUS
        <5>2. QED
          BY <4>1, <5>1, Zenon
      <4>3. g[t.c % r] = f[t.c % r]
        BY <4>2, Zenon
      <4> HIDE DEF g
      <4>4. QED
        BY <3>2, <4>3, Zenon DEF Round
    <3>3. QED
      BY <3>1, <3>2
  <2> HIDE DEF g
  <2>3. Of(f, r) = Of(g, r)
    BY <2>2, Zenon
  <2> HIDE DEF Of
  <2>4. QED
    BY ONLY <2>1, <2>3
<1>3. g = [r \in 0 .. k + 1 |-> Of(g, r)]
  BY <1>2, Zenon
<1> HIDE DEF g
<1>4. Rounds(g, k + 1)
  BY <1>3, RoundsAre, Zenon
<1>5. QED
  BY <1>4

LEMMA RoundsExist == ASSUME NEW k \in Nat PROVE \E f : Rounds(f, k)
<1> DEFINE None == {j \in Nat : ~ \E f : Rounds(f, j)}
<1>1. SUFFICES ASSUME None # {} PROVE FALSE
  OBVIOUS
<1>2. PICK j \in None : \A l \in None : j <= l
  <2>1. None \subseteq Nat
    OBVIOUS
  <2>2. QED
    BY <1>1, <2>1, Least
<1>3. j # 0
  <2> DEFINE f == [r \in 0 .. 0 |-> [t \in Remainders |-> [d |-> t.c, u |-> t.x0, v |-> t.y0]]]
             g == [r \in 0 .. 0 |-> [t \in Remainders |-> Round(f, r, t)]]
  <2>1. ASSUME NEW r \in 0 .. 0, NEW t \in Remainders
        PROVE  Round(f, r, t) = [d |-> t.c, u |-> t.x0, v |-> t.y0]
    <3>1. r = 0
      OBVIOUS
    <3>2. QED
      BY <3>1 DEF Round
  <2>2. f = g
    BY <2>1, Zenon
  <2>3. Rounds(f, 0)
    BY <2>2, RoundsAre, Zenon
  <2>4. QED
    BY <1>2, <2>3
<1>4. PICK l \in Nat : j = l + 1
  BY <1>2, <1>3
<1>5. PICK f : Rounds(f, l)
  BY <1>2, <1>4
<1>6. \E g : Rounds(g, l + 1)
  BY <1>5, RoundsExtend
<1>7. QED
  BY <1>2, <1>4, <1>6

(* t.c and r are made of b and m the way t tells.                           *)
Made(t, r, b, m) ==
  /\ t \in Remainders /\ t.c \in Nat
  /\ t.c = t.x0 * b + t.y0 * m
  /\ r = t.x1 * b + t.y1 * m

(* x.d divides the two that the round begins with, and is made of b and m.  *)
Gcd(x, c, r, b, m) ==
  /\ x.d \in Nat /\ x.u \in Int /\ x.v \in Int
  /\ x.d = x.u * b + x.v * m
  /\ Divides(x.d, c) /\ Divides(x.d, r)

LEMMA LessTimes ==
  ASSUME NEW x \in Int, NEW y \in Int, NEW k \in Int, NEW b \in Int
  PROVE  (x - k * y) * b = x * b - k * (y * b)
OBVIOUS

LEMMA Integers_ == ASSUME NEW x \in Int, NEW y \in Int PROVE x * y \in Int /\ x * y = y * x
OBVIOUS

LEMMA Combines ==
  ASSUME NEW b \in Int, NEW m \in Int, NEW r \in Int, NEW t, Made(t, r, b, m),
         NEW k \in Int, NEW s \in Int, t.c = r * k + s
  PROVE  s = (t.x0 - k * t.x1) * b + (t.y0 - k * t.y1) * m
<1>1. /\ t.x0 \in Int /\ t.x1 \in Int /\ t.y0 \in Int /\ t.y1 \in Int
      /\ t.c = t.x0 * b + t.y0 * m /\ r = t.x1 * b + t.y1 * m
  BY DEF Made, Remainders
<1>2. /\ (t.x0 - k * t.x1) * b = t.x0 * b - k * (t.x1 * b)
      /\ (t.y0 - k * t.y1) * m = t.y0 * m - k * (t.y1 * m)
  BY <1>1, LessTimes
<1>3. /\ t.x0 * b \in Int /\ t.y0 * m \in Int /\ t.x1 * b \in Int /\ t.y1 * m \in Int
  BY <1>1, Integers_
<1>4. k * r = k * (t.x1 * b) + k * (t.y1 * m)
  BY <1>1, <1>3, Distribute
<1>5. r * k = k * r /\ r * k \in Int /\ k * (t.x1 * b) \in Int /\ k * (t.y1 * m) \in Int
  BY <1>3, Integers_
<1>6. s = (t.x0 * b - k * (t.x1 * b)) + (t.y0 * m - k * (t.y1 * m))
  <2>1. PICK x \in Int, y \in Int, v \in Int, w \in Int, z \in Int :
          /\ x = t.x0 * b /\ y = t.y0 * m /\ z = r * k
          /\ v = k * (t.x1 * b) /\ w = k * (t.y1 * m)
    BY <1>3, <1>5
  <2>2. x + y = z + s /\ z = v + w
    BY ONLY <1>1, <1>4, <1>5, <2>1, t.c = r * k + s
  <2>3. s = (x - v) + (y - w)
    BY ONLY <2>2, s \in Int, x \in Int, y \in Int, v \in Int, w \in Int, z \in Int
  <2>4. QED
    BY ONLY <2>1, <2>3
<1>7. QED
  BY ONLY <1>2, <1>6

LEMMA NextIsMade ==
  ASSUME NEW b \in Int, NEW m \in Int, NEW r \in Nat \ {0}, NEW t, Made(t, r, b, m),
         NEW k \in Int, NEW s \in 0 .. r - 1, k = t.c \div r, t.c = r * k + s
  PROVE  Made(Next_(r, t), s, b, m)
<1>1. /\ t.c \in Nat /\ t.x0 \in Int /\ t.x1 \in Int /\ t.y0 \in Int /\ t.y1 \in Int
      /\ t.c = t.x0 * b + t.y0 * m /\ r = t.x1 * b + t.y1 * m
  BY DEF Made, Remainders
<1>2. t.x0 - k * t.x1 \in Int /\ t.y0 - k * t.y1 \in Int
  BY <1>1
<1>3. s = (t.x0 - k * t.x1) * b + (t.y0 - k * t.y1) * m
  <2>1. r \in Int /\ s \in Int /\ t.c = r * k + s
    OBVIOUS
  <2>2. s = (t.x0 - k * t.x1) * b + (t.y0 - k * t.y1) * m
    BY ONLY <2>1, Made(t, r, b, m), b \in Int, m \in Int, k \in Int, Combines
  <2>3. QED
    BY <2>2
<1>4. Next_(r, t) = [c |-> r, x0 |-> t.x1, x1 |-> t.x0 - k * t.x1, y0 |-> t.y1, y1 |-> t.y0 - k * t.y1]
  BY DEF Next_
<1>5. Next_(r, t) \in Remainders
  <2>1. r \in Int
    OBVIOUS
  <2>2. QED
    BY ONLY <1>1, <1>2, <1>4, <2>1 DEF Remainders
<1>6. r \in Nat
  OBVIOUS
<1>7. QED
  BY ONLY <1>1, <1>3, <1>4, <1>5, <1>6 DEF Made

(* What the rounds give from a remainder r on.                              *)
GcdFrom(f, r, b, m) ==
  \A t : Made(t, r, b, m) => Gcd(f[r][t], t.c, r, b, m)

LEMMA RoundOf ==
  ASSUME NEW M \in Nat, NEW f, Rounds(f, M), NEW r \in 0 .. M, NEW t \in Remainders
  PROVE  f[r][t] = Round(f, r, t)
<1>1. f = [i \in 0 .. M |-> [x \in Remainders |-> Round(f, i, x)]]
  BY RoundsAre, Zenon
<1>2. f[r] = [x \in Remainders |-> Round(f, r, x)]
  BY <1>1, Zenon
<1>3. QED
  BY <1>2, Zenon

LEMMA LastRound ==
  ASSUME NEW M \in Nat, NEW f, Rounds(f, M), NEW b \in Int, NEW m \in Int
  PROVE  GcdFrom(f, 0, b, m)
<1>1. ASSUME NEW t, Made(t, 0, b, m) PROVE Gcd(f[0][t], t.c, 0, b, m)
  <2>1. /\ t \in Remainders /\ t.c \in Nat /\ t.x0 \in Int /\ t.y0 \in Int
        /\ t.c = t.x0 * b + t.y0 * m
    BY <1>1 DEF Made, Remainders
  <2>2. f[0][t] = [d |-> t.c, u |-> t.x0, v |-> t.y0]
    <3>1. 0 \in 0 .. M
      OBVIOUS
    <3>2. f[0][t] = Round(f, 0, t)
      BY <2>1, <3>1, RoundOf
    <3>3. QED
      BY <3>2, Zenon DEF Round
  <2>3. Divides(t.c, t.c) /\ Divides(t.c, 0)
    <3>1. t.c = t.c * 1 /\ 0 = t.c * 0
      BY <2>1
    <3>2. 1 \in Int /\ 0 \in Int
      OBVIOUS
    <3>3. QED
      BY <3>1, <3>2, Zenon DEF Divides
  <2>4. QED
    BY ONLY <2>1, <2>2, <2>3 DEF Gcd
<1>2. QED
  BY <1>1 DEF GcdFrom

LEMMA EveryRound ==
  ASSUME NEW M \in Nat, NEW f, Rounds(f, M), NEW b \in Int, NEW m \in Int,
         NEW r \in 1 .. M, \A s \in 0 .. r - 1 : GcdFrom(f, s, b, m)
  PROVE  GcdFrom(f, r, b, m)
<1>1. ASSUME NEW t, Made(t, r, b, m) PROVE Gcd(f[r][t], t.c, r, b, m)
  <2>1. t \in Remainders /\ t.c \in Nat /\ t.c \in Int /\ r \in Nat \ {0} /\ r \in 0 .. M /\ r # 0 /\ r \in Int
    BY <1>1 DEF Made
  <2>2. PICK k \in Int, s \in 0 .. r - 1 : k = t.c \div r /\ s = t.c % r /\ t.c = r * k + s
    BY <2>1, Division
  <2>3. Made(Next_(r, t), s, b, m)
    BY <1>1, <2>1, <2>2, NextIsMade
  <2>4. Gcd(f[s][Next_(r, t)], Next_(r, t).c, s, b, m)
    BY <2>2, <2>3 DEF GcdFrom
  <2>5. f[r][t] = f[s][Next_(r, t)]
    <3>1. f[r][t] = Round(f, r, t)
      BY <2>1, RoundOf
    <3>2. QED
      BY <2>1, <2>2, <3>1, Zenon DEF Round
  <2>6. Next_(r, t).c = r
    BY DEF Next_
  <2>7. PICK x : x = f[r][t]
    OBVIOUS
  <2>8. Gcd(x, r, s, b, m)
    BY ONLY <2>4, <2>5, <2>6, <2>7
  <2>9. /\ x.d \in Nat /\ x.u \in Int /\ x.v \in Int
        /\ x.d = x.u * b + x.v * m /\ Divides(x.d, r) /\ Divides(x.d, s)
    BY <2>8 DEF Gcd
  <2>10. Divides(x.d, t.c)
    <3>1. x.d \in Int /\ s \in Int
      BY <2>9
    <3>2. Divides(x.d, r * k + s)
      BY <2>1, <2>9, <3>1, DividesSum
    <3>3. QED
      BY ONLY <2>2, <3>2
  <2>11. QED
    BY ONLY <2>7, <2>9, <2>10 DEF Gcd
<1>2. QED
  BY <1>1 DEF GcdFrom

LEMMA RoundsGive ==
  ASSUME NEW M \in Nat, NEW f, Rounds(f, M), NEW b \in Int, NEW m \in Int
  PROVE  GcdFrom(f, M, b, m)
<1> DEFINE Bad == {r \in 0 .. M : ~ GcdFrom(f, r, b, m)}
<1>1. SUFFICES ASSUME Bad # {} PROVE FALSE
  <2>1. M \in 0 .. M
    OBVIOUS
  <2>2. QED
    BY <2>1
<1>2. PICK r \in Bad : \A l \in Bad : r <= l
  <2>1. Bad \subseteq Nat
    OBVIOUS
  <2>2. QED
    BY <1>1, <2>1, Least
<1>3. r \in 0 .. M /\ ~ GcdFrom(f, r, b, m)
  BY <1>2
<1>4. r # 0
  BY <1>3, LastRound
<1>5. r \in 1 .. M
  BY <1>3, <1>4
<1>6. \A s \in 0 .. r - 1 : GcdFrom(f, s, b, m)
  <2>1. \A s \in 0 .. r - 1 : s \in 0 .. M /\ ~ (r <= s)
    BY <1>3
  <2>2. QED
    BY <1>2, <2>1
<1>7. QED
  BY <1>3, <1>5, <1>6, EveryRound

LEMMA XgcdIs ==
  ASSUME NEW b \in Nat, NEW m \in Nat
  PROVE  Gcd(xgcd(b, m), b, m, b, m)
<1> DEFINE f == CHOOSE f : Rounds(f, m)
           t == [c |-> b, x0 |-> 1, x1 |-> 0, y0 |-> 0, y1 |-> 1]
<1>1. Rounds(f, m)
  BY RoundsExist
<1>2. xgcd(b, m) = f[m][t]
  BY Zenon DEF xgcd, Rounds
<1>3. Made(t, m, b, m)
  <2>1. b = 1 * b + 0 * m /\ m = 0 * b + 1 * m
    OBVIOUS
  <2>2. t \in Remainders
    BY DEF Remainders
  <2>3. t.c = b /\ t.x0 = 1 /\ t.x1 = 0 /\ t.y0 = 0 /\ t.y1 = 1
    OBVIOUS
  <2> HIDE DEF t
  <2>4. QED
    BY ONLY <2>1, <2>2, <2>3, b \in Nat DEF Made
<1>4. t.c = b
  OBVIOUS
<1> HIDE DEF f, t
<1>5. b \in Int /\ m \in Int
  OBVIOUS
<1>6. GcdFrom(f, m, b, m)
  BY <1>1, <1>5, RoundsGive
<1>7. QED
  BY <1>2, <1>3, <1>4, <1>6, Zenon DEF GcdFrom

(***************************************************************************)
(* The shift of reduce()                                                    *)
(***************************************************************************)

LEMMA WordIs == ASSUME NtruAssumption PROVE 2^WORD \in Nat /\ 2^WORD >= 2
<1>1. PICK k \in Nat : WORD = k + 1
  <2>1. WORD \in Nat \ {0}
    BY DEF NtruAssumption
  <2>2. WORD - 1 \in Nat /\ WORD = (WORD - 1) + 1
    BY <2>1
  <2>3. QED
    BY <2>2
<1>2. PICK p \in Nat \ {0} : p = 2^k
  BY PowerIs
<1>3. 2^WORD = 2 * p
  BY <1>1, <1>2, PowerNext
<1>4. QED
  BY <1>3

LEMMA ShiftIsLess ==
  ASSUME NEW p \in Nat, p >= 2, NEW v \in Nat \ {0}
  PROVE  v \div p \in 0 .. v - 1
<1>1. p \in Nat \ {0} /\ v \in Int
  OBVIOUS
<1>2. PICK k \in Int, r \in 0 .. p - 1 : k = v \div p /\ v = p * k + r
  BY <1>1, Division
<1>3. ~ (k <= -1)
  <2>1. k <= -1 => p * k <= -p
    BY BoundsBelow
  <2>2. QED
    BY <1>2, <2>1
<1>4. k >= 1 => 2 * k <= p * k
  <2>1. k >= 1 => (p - 2) * k >= p - 2
    <3>1. p - 2 \in Nat
      OBVIOUS
    <3>2. QED
      BY <3>1, Bounds
  <2>2. (p - 2) * k = p * k - 2 * k
    OBVIOUS
  <2>3. p * k \in Int
    OBVIOUS
  <2>4. QED
    BY <2>1, <2>2, <2>3
<1>5. p * k \in Int
  OBVIOUS
<1>6. QED
  BY <1>2, <1>3, <1>4, <1>5

(* The sizes of the numbers up to m.                                        *)
Sizes(f, m) == f = [v \in 0 .. m |-> IF v = 0 THEN 0 ELSE WORD + f[v \div 2^WORD]]

LEMMA SizesExtend ==
  ASSUME NtruAssumption, NEW k \in Nat, NEW f, Sizes(f, k)
  PROVE  \E g : Sizes(g, k + 1)
<1> DEFINE g == [v \in 0 .. k + 1 |-> IF v = k + 1 THEN WORD + f[(k + 1) \div 2^WORD] ELSE f[v]]
<1>1. PICK p \in Nat : p = 2^WORD /\ p >= 2
  BY WordIs
<1>2. ASSUME NEW v \in 0 .. k + 1
      PROVE  g[v] = IF v = 0 THEN 0 ELSE WORD + g[v \div p]
  <2>1. v # 0 => v \div p \in 0 .. v - 1
    <3>1. v # 0 => v \in Nat \ {0}
      OBVIOUS
    <3>2. QED
      BY <1>1, <3>1, ShiftIsLess
  <2>2. v # 0 => v \div p \in 0 .. k + 1 /\ v \div p # k + 1
    BY <2>1
  <2>3. v # 0 => g[v \div p] = f[v \div p]
    BY <2>2
  <2>4. CASE v = k + 1
    <3>1. v # 0
      BY <2>4
    <3>2. g[v] = WORD + f[v \div p]
      BY <1>1, <2>4
    <3> HIDE DEF g
    <3>3. QED
      BY ONLY <2>3, <3>1, <3>2
  <2>5. CASE v # k + 1
    <3>1. v \in 0 .. k
      BY <2>5
    <3>2. f[v] = IF v = 0 THEN 0 ELSE WORD + f[v \div p]
      BY <1>1, <3>1 DEF Sizes
    <3>3. g[v] = f[v]
      BY <2>5
    <3> HIDE DEF g
    <3>4. QED
      BY ONLY <2>3, <3>2, <3>3
  <2>6. QED
    BY <2>4, <2>5
<1>3. g = [v \in 0 .. k + 1 |-> IF v = 0 THEN 0 ELSE WORD + g[v \div p]]
  BY <1>2, Zenon
<1> HIDE DEF g
<1>4. Sizes(g, k + 1)
  BY <1>1, <1>3, Zenon DEF Sizes
<1>5. QED
  BY <1>4

LEMMA SizesExist == ASSUME NtruAssumption, NEW k \in Nat PROVE \E f : Sizes(f, k)
<1> DEFINE None == {j \in Nat : ~ \E f : Sizes(f, j)}
<1>1. SUFFICES ASSUME None # {} PROVE FALSE
  OBVIOUS
<1>2. PICK j \in None : \A l \in None : j <= l
  <2>1. None \subseteq Nat
    OBVIOUS
  <2>2. QED
    BY <1>1, <2>1, Least
<1>3. j # 0
  <2>1. Sizes([l \in 0 .. 0 |-> 0], 0)
    <3>1. \A l \in 0 .. 0 : l = 0
      OBVIOUS
    <3>2. QED
      BY <3>1 DEF Sizes
  <2>2. QED
    BY <1>2, <2>1
<1>4. PICK l \in Nat : j = l + 1
  BY <1>2, <1>3
<1>5. PICK f : Sizes(f, l)
  BY <1>2, <1>4
<1>6. \E g : Sizes(g, l + 1)
  BY <1>5, SizesExtend
<1>7. QED
  BY <1>2, <1>4, <1>6

LEMMA SizesAreNumbers ==
  ASSUME NtruAssumption, NEW k \in Nat, NEW f, Sizes(f, k)
  PROVE  f[k] \in Nat
<1> DEFINE Bad == {v \in 0 .. k : ~ (f[v] \in Nat)}
<1>1. SUFFICES ASSUME Bad # {} PROVE FALSE
  <2>1. k \in 0 .. k
    OBVIOUS
  <2>2. QED
    BY <2>1
<1>2. PICK v \in Bad : \A l \in Bad : v <= l
  <2>1. Bad \subseteq Nat
    OBVIOUS
  <2>2. QED
    BY <1>1, <2>1, Least
<1>3. v \in 0 .. k /\ ~ (f[v] \in Nat)
  BY <1>2
<1>4. f[v] = IF v = 0 THEN 0 ELSE WORD + f[v \div 2^WORD]
  BY <1>3 DEF Sizes
<1>5. v # 0
  BY <1>3, <1>4
<1>6. PICK p \in Nat : p = 2^WORD /\ p >= 2
  BY WordIs
<1>7. v \div p \in 0 .. v - 1
  <2>1. v \in Nat \ {0}
    BY <1>3, <1>5
  <2>2. QED
    BY <1>6, <2>1, ShiftIsLess
<1>8. v \div p \in 0 .. k /\ ~ (v <= v \div p)
  BY <1>3, <1>7
<1>9. f[v \div p] \in Nat
  BY <1>2, <1>8
<1>10. WORD \in Nat
  BY DEF NtruAssumption
<1>11. QED
  BY <1>3, <1>4, <1>5, <1>6, <1>9, <1>10

LEMMA BitsizeIs == ASSUME NtruAssumption, NEW a \in Int PROVE bitsize(a) \in Nat
<1>1. PICK k \in Nat : k = Abs(a)
  BY DEF Abs
<1> DEFINE f == CHOOSE f : Sizes(f, k)
<1>2. Sizes(f, k)
  BY SizesExist
<1>3. bitsize(a) = f[k]
  BY <1>1, Zenon DEF bitsize, Sizes
<1> HIDE DEF f
<1>4. QED
  BY <1>2, <1>3, SizesAreNumbers

LEMMA CommonBound == ASSUME NEW x \in Nat, NEW y \in Nat PROVE \E z \in Nat : z >= x /\ z >= y
<1>1. x + y \in Nat /\ x + y >= x /\ x + y >= y
  OBVIOUS
<1>2. QED
  BY <1>1

(* Finitely many numbers have a bound,                                      *)
LEMMA HasBound ==
  ASSUME NEW m \in Nat, NEW t, \A i \in 0 .. m - 1 : t[i] \in Nat
  PROVE  \E B \in Nat : \A i \in 0 .. m - 1 : t[i] <= B
<1> DEFINE Bad == {k \in 0 .. m : ~ \E B \in Nat : \A i \in 0 .. k - 1 : t[i] <= B}
<1>1. SUFFICES ASSUME Bad # {} PROVE FALSE
  <2>1. m \in 0 .. m
    OBVIOUS
  <2>2. QED
    BY <2>1
<1>2. PICK k \in Bad : \A l \in Bad : k <= l
  <2>1. Bad \subseteq Nat
    OBVIOUS
  <2>2. QED
    BY <1>1, <2>1, Least
<1>3. k # 0
  <2>1. 0 \in Nat /\ \A i \in 0 .. 0 - 1 : t[i] <= 0
    OBVIOUS
  <2>2. QED
    BY <1>2, <2>1
<1>4. k - 1 \in 0 .. m /\ ~ (k <= k - 1) /\ k - 1 \in 0 .. m - 1
  BY <1>2, <1>3
<1>5. PICK B \in Nat : \A i \in 0 .. (k - 1) - 1 : t[i] <= B
  BY <1>2, <1>4
<1>6. t[k - 1] \in Nat
  BY <1>4
<1>7. PICK C \in Nat : C >= B /\ C >= t[k - 1]
  BY <1>6, CommonBound
<1>8. \A i \in 0 .. k - 1 : t[i] <= C
  <2>1. ASSUME NEW i \in 0 .. k - 1 PROVE t[i] <= C
    <3>1. CASE i = k - 1
      BY <1>7, <3>1
    <3>2. CASE i # k - 1
      <4>1. i \in 0 .. (k - 1) - 1 /\ i \in 0 .. m - 1
        BY <1>4, <3>2
      <4>2. t[i] <= B /\ t[i] \in Nat
        BY <1>5, <4>1
      <4>3. QED
        BY <1>7, <4>2
    <3>3. QED
      BY <3>1, <3>2
  <2>2. QED
    BY <2>1
<1>9. QED
  BY <1>2, <1>8

(* and a set of numbers with a bound has a largest.                         *)
LEMMA HasMax ==
  ASSUME NEW S, S \subseteq Nat, NEW x \in S, NEW B \in Nat, \A y \in S : y <= B
  PROVE  Max(S) \in S /\ \A y \in S : Max(S) >= y
<1> DEFINE T == {B - y : y \in S}
<1>1. T \subseteq Nat /\ T # {}
  OBVIOUS
<1>2. PICK k \in T : \A l \in T : k <= l
  BY <1>1, Least
<1>3. PICK y \in S : k = B - y
  BY <1>2
<1>4. \A z \in S : y >= z
  BY <1>2, <1>3
<1>5. QED
  BY <1>3, <1>4, Zenon DEF Max

LEMMA BitsIs ==
  ASSUME NtruAssumption, NEW m \in Nat, NEW a \in Polynomial(m), NEW b \in Polynomial(m)
  PROVE  Bits(a, b) \in Int
<1> DEFINE x == [i \in 0 .. m - 1 |-> bitsize(a[i])]
           y == [i \in 0 .. m - 1 |-> bitsize(b[i])]
           S == {PRECISION} \cup {bitsize(a[i]) : i \in DOMAIN a} \cup {bitsize(b[i]) : i \in DOMAIN b}
<1>1. DOMAIN a = 0 .. m - 1 /\ DOMAIN b = 0 .. m - 1
  BY DEF Polynomial
<1>2. \A i \in 0 .. m - 1 : bitsize(a[i]) \in Nat /\ bitsize(b[i]) \in Nat
  BY BitsizeIs DEF Polynomial
<1>3. PICK B \in Nat : \A i \in 0 .. m - 1 : x[i] <= B
  BY <1>2, HasBound
<1>4. PICK C \in Nat : \A i \in 0 .. m - 1 : y[i] <= C
  BY <1>2, HasBound
<1>5. PRECISION \in Nat
  BY DEF NtruAssumption
<1>6. PICK D \in Nat : D >= B /\ D >= C /\ D >= PRECISION
  <2>1. PICK d \in Nat : d >= B /\ d >= C
    BY CommonBound
  <2>2. PICK e \in Nat : e >= d /\ e >= PRECISION
    BY <1>5, CommonBound
  <2>3. e >= B /\ e >= C /\ e >= PRECISION
    BY <1>5, <2>1, <2>2
  <2>4. QED
    BY <2>3
<1>7. S \subseteq Nat
  BY <1>1, <1>2, <1>5
<1>8. \A z \in S : z <= D
  <2>1. \A i \in 0 .. m - 1 : bitsize(a[i]) <= D /\ bitsize(b[i]) <= D
    <3>1. \A i \in 0 .. m - 1 : bitsize(a[i]) <= B /\ bitsize(b[i]) <= C
      BY <1>3, <1>4
    <3>2. QED
      BY <1>2, <1>6, <3>1
  <2>2. QED
    BY <1>1, <1>6, <2>1
<1>9. PRECISION \in S
  OBVIOUS
<1>10. Bits(a, b) = Max(S)
  BY DEF Bits
<1> HIDE DEF S
<1>11. Max(S) \in S
  BY <1>7, <1>8, <1>9, HasMax
<1>12. QED
  <2>1. Bits(a, b) \in Nat
    BY ONLY <1>7, <1>10, <1>11
  <2>2. QED
    BY <2>1

LEMMA FrontIs ==
  ASSUME NEW S, NEW s \in Seq(S), Len(s) > 1
  PROVE  /\ Front(s) \in Seq(S) /\ Len(Front(s)) = Len(s) - 1
         /\ \A i \in 1 .. Len(s) - 1 : Front(s)[i] = s[i]
<1>1. Len(s) - 1 \in Nat /\ 1 \in Int /\ Len(s) - 1 \in Int /\ 1 <= Len(s) - 1
  OBVIOUS
<1>2. \A i \in 1 .. Len(s) - 1 : s[i] \in S
  OBVIOUS
<1>3. /\ SubSeq(s, 1, Len(s) - 1) \in Seq(S)
      /\ Len(SubSeq(s, 1, Len(s) - 1)) = IF 1 <= Len(s) - 1 THEN (Len(s) - 1) - 1 + 1 ELSE 0
  BY <1>1, <1>2, SubSeqProperties
<1>4. \A i \in 1 .. Len(s) - 1 : SubSeq(s, 1, Len(s) - 1)[i] = s[i]
  OBVIOUS
<1>5. QED
  BY <1>1, <1>3, <1>4 DEF Front

(***************************************************************************)
(* The tower of norms                                                       *)
(***************************************************************************)

Lists == UNION {Polynomial(m) : m \in Nat}

LEMMA PowerSplits ==
  ASSUME NEW m, Power(m)
  PROVE  /\ m \in Nat \ {0}
         /\ m # 1 => \E h : Power(h) /\ m = 2 * h
<1>1. PICK k \in Nat : m = 2^k
  BY DEF Power
<1>2. m \in Nat \ {0}
  BY <1>1, PowerIs
<1>3. ASSUME m # 1 PROVE \E h : Power(h) /\ m = 2 * h
  <2>1. k # 0
    BY <1>1, <1>3, PowerOfNone
  <2>2. k - 1 \in Nat /\ (k - 1) + 1 = k
    BY <2>1
  <2>3. 2^((k - 1) + 1) = 2 * 2^(k - 1)
    BY <2>2, PowerNext, Zenon
  <2>4. Power(2^(k - 1))
    BY <2>2, Zenon DEF Power
  <2>5. m = 2 * 2^(k - 1)
    BY ONLY <1>1, <2>2, <2>3
  <2>6. QED
    BY <2>4, <2>5, Zenon
<1>4. QED
  BY <1>2, <1>3

LEMMA PowerDoubles == ASSUME NEW h, Power(h) PROVE Power(2 * h)
<1>1. PICK k \in Nat : h = 2^k
  BY DEF Power
<1>2. k + 1 \in Nat
  OBVIOUS
<1>3. 2^(k + 1) = 2 * h
  BY <1>1, PowerNext
<1>4. QED
  BY <1>2, <1>3, Zenon DEF Power

(* One level above another.                                                 *)
Above(s, t, l) ==
  \E h : /\ Power(h)
         /\ s[l] \in Polynomial(2 * h) /\ t[l] \in Polynomial(2 * h)
         /\ s[l + 1] = field_norm(s[l]) /\ t[l + 1] = field_norm(t[l])

LEMMA AboveIs ==
  ASSUME NEW s, NEW t, NEW l \in Nat, NEW h \in Nat, Power(h),
         s[l] \in Polynomial(2 * h), t[l] \in Polynomial(2 * h),
         s[l + 1] = field_norm(s[l]), t[l + 1] = field_norm(t[l])
  PROVE  Above(s, t, l)
BY Zenon DEF Above

Tower(s, t) ==
  /\ s \in Seq(Lists) /\ t \in Seq(Lists)
  /\ Len(s) >= 1 /\ Len(t) = Len(s)
  /\ s[1] \in Polynomial(n) /\ t[1] \in Polynomial(n)
  /\ \E m : Power(m) /\ s[Len(s)] \in Polynomial(m) /\ t[Len(t)] \in Polynomial(m)
  /\ \A l \in 1 .. Len(s) - 1 : Above(s, t, l)

LEMMA DegreeIs == ASSUME NtruAssumption PROVE Power(n) /\ n \in Nat \ {0, 1}
<1>1. PICK k \in 1 .. 10 : n = 2^k
  BY DEF NtruAssumption
<1>2. k \in Nat /\ k - 1 \in Nat /\ (k - 1) + 1 = k
  OBVIOUS
<1>3. Power(n)
  BY <1>1, <1>2, Zenon DEF Power
<1>4. PICK h \in Nat \ {0} : h = 2^(k - 1)
  BY <1>2, PowerIs
<1>5. 2^((k - 1) + 1) = 2 * 2^(k - 1)
  BY <1>2, PowerNext, Zenon
<1>6. n = 2 * h
  BY ONLY <1>1, <1>2, <1>4, <1>5
<1>7. QED
  BY <1>3, <1>6

LEMMA TowerStarts ==
  ASSUME NtruAssumption, NEW f \in Polynomial(n), NEW g \in Polynomial(n)
  PROVE  Tower(<<f>>, <<g>>)
<1>1. Power(n) /\ n \in Nat
  BY DegreeIs
<1>2. f \in Lists /\ g \in Lists
  BY <1>1 DEF Lists
<1>3. <<f>> \in Seq(Lists) /\ <<g>> \in Seq(Lists) /\ Len(<<f>>) = 1 /\ Len(<<g>>) = 1
  BY <1>2
<1>4. <<f>>[1] = f /\ <<g>>[1] = g
  OBVIOUS
<1>5. 1 .. 1 - 1 = {}
  OBVIOUS
<1> DEFINE s == <<f>>
           t == <<g>>
<1> HIDE DEF s, t
<1>6. /\ s \in Seq(Lists) /\ t \in Seq(Lists) /\ Len(s) = 1 /\ Len(t) = 1
      /\ s[1] \in Polynomial(n) /\ t[1] \in Polynomial(n)
  BY <1>3, <1>4 DEF s, t
<1>7. Tower(s, t)
  BY <1>1, <1>5, <1>6 DEF Tower
<1>8. QED
  BY <1>7 DEF s, t

(* The two at the level reached have the same length, a power of 2.         *)
LEMMA LastLevel ==
  ASSUME NEW s, NEW t, Tower(s, t)
  PROVE  \E m \in Nat \ {0} : /\ Power(m) /\ Last(s) \in Polynomial(m) /\ Last(t) \in Polynomial(m)
                              /\ Size(Last(s)) = m
<1>1. PICK m : Power(m) /\ s[Len(s)] \in Polynomial(m) /\ t[Len(t)] \in Polynomial(m)
  BY DEF Tower
<1>2. m \in Nat \ {0}
  BY <1>1, PowerSplits
<1>3. Size(s[Len(s)]) = m
  BY <1>1, <1>2, SizeIs
<1>4. QED
  BY <1>1, <1>2, <1>3 DEF Last

LEMMA AppendIs ==
  ASSUME NEW S, NEW s \in Seq(S), NEW x \in S
  PROVE  /\ Append(s, x) \in Seq(S) /\ Len(Append(s, x)) = Len(s) + 1
         /\ Append(s, x)[Len(s) + 1] = x
         /\ \A i \in 1 .. Len(s) : Append(s, x)[i] = s[i]
OBVIOUS

LEMMA TowerGrows ==
  ASSUME NEW s, NEW t, Tower(s, t), Size(Last(s)) > 1
  PROVE  Tower(Append(s, field_norm(Last(s))), Append(t, field_norm(Last(t))))
<1>1. PICK m \in Nat \ {0} : /\ Power(m) /\ Last(s) \in Polynomial(m) /\ Last(t) \in Polynomial(m)
                             /\ Size(Last(s)) = m
  BY LastLevel
<1>2. PICK h : Power(h) /\ m = 2 * h
  <2>1. m # 1
    BY <1>1
  <2>2. QED
    BY <1>1, <2>1, PowerSplits
<1>3. PICK x, y : x = field_norm(Last(s)) /\ y = field_norm(Last(t))
  OBVIOUS
<1>4. x \in Polynomial(h) /\ y \in Polynomial(h)
  BY <1>1, <1>2, <1>3, NormIs
<1>5. x \in Lists /\ y \in Lists
  <2>1. h \in Nat
    BY <1>2, PowerSplits
  <2>2. QED
    BY <1>4, <2>1 DEF Lists
<1>6. /\ s \in Seq(Lists) /\ t \in Seq(Lists) /\ Len(s) >= 1 /\ Len(t) = Len(s)
      /\ s[1] \in Polynomial(n) /\ t[1] \in Polynomial(n)
      /\ \A l \in 1 .. Len(s) - 1 : Above(s, t, l)
  BY DEF Tower
<1> DEFINE a == Append(s, x)
           b == Append(t, y)
<1>7. /\ a \in Seq(Lists) /\ Len(a) = Len(s) + 1 /\ a[Len(s) + 1] = x
      /\ b \in Seq(Lists) /\ Len(b) = Len(s) + 1 /\ b[Len(s) + 1] = y
      /\ \A i \in 1 .. Len(s) : a[i] = s[i] /\ b[i] = t[i]
  BY <1>5, <1>6, AppendIs
<1> HIDE DEF a, b
<1>8. Len(s) \in Nat /\ (Len(s) + 1) - 1 = Len(s) /\ 1 \in 1 .. Len(s) /\ Len(s) \in 1 .. Len(s)
  BY <1>6
<1>9. a[1] = s[1] /\ b[1] = t[1]
  BY ONLY <1>7, <1>8
<1>10. ASSUME NEW l \in 1 .. Len(s) PROVE Above(a, b, l)
  <2>1. CASE l = Len(s)
    <3>1. a[l] = Last(s) /\ b[l] = Last(t)
      BY <1>6, <1>7, <1>8, <2>1 DEF Last
    <3>2. a[l + 1] = x /\ b[l + 1] = y
      BY <1>7, <2>1
    <3>3. a[l] \in Polynomial(2 * h) /\ b[l] \in Polynomial(2 * h)
      BY ONLY <1>1, <1>2, <3>1, Zenon
    <3>4. a[l + 1] = field_norm(a[l]) /\ b[l + 1] = field_norm(b[l])
      BY ONLY <1>3, <3>1, <3>2
    <3>5. Power(h) /\ h \in Nat /\ l \in Nat
      BY <1>2, <1>8, PowerSplits
    <3>6. QED
      BY <3>3, <3>4, <3>5, AboveIs, Zenon
  <2>2. CASE l # Len(s)
    <3>1. l \in 1 .. Len(s) - 1 /\ l + 1 \in 1 .. Len(s)
      <4>1. ASSUME NEW c \in Nat, NEW i \in 1 .. c, i # c PROVE i \in 1 .. c - 1 /\ i + 1 \in 1 .. c
        BY ONLY <4>1
      <4>2. QED
        BY ONLY <1>8, <2>2, <4>1, l \in 1 .. Len(s), Zenon
    <3>2. a[l] = s[l] /\ b[l] = t[l] /\ a[l + 1] = s[l + 1] /\ b[l + 1] = t[l + 1]
      BY <1>7, <3>1
    <3>3. Above(s, t, l)
      BY <1>6, <3>1
    <3>4. QED
      BY ONLY <3>2, <3>3 DEF Above
  <2>3. QED
    BY <2>1, <2>2
<1>11. Tower(a, b)
  <2>1. Len(a) >= 1 /\ Len(b) = Len(a) /\ Len(a) - 1 = Len(s) /\ a[Len(a)] = x /\ b[Len(b)] = y
    BY <1>7, <1>8
  <2>2. QED
    BY ONLY <1>2, <1>4, <1>6, <1>7, <1>9, <1>10, <2>1 DEF Tower
<1>12. QED
  BY <1>3, <1>11 DEF a, b

LEMMA TowerShrinks ==
  ASSUME NEW s, NEW t, Tower(s, t), Len(s) > 1
  PROVE  /\ Tower(Front(s), Front(t))
         /\ \E h : /\ Power(h)
                   /\ Last(Front(s)) \in Polynomial(2 * h) /\ Last(Front(t)) \in Polynomial(2 * h)
                   /\ Last(s) = field_norm(Last(Front(s))) /\ Last(t) = field_norm(Last(Front(t)))
<1>1. /\ s \in Seq(Lists) /\ t \in Seq(Lists) /\ Len(s) >= 1 /\ Len(t) = Len(s)
      /\ s[1] \in Polynomial(n) /\ t[1] \in Polynomial(n)
      /\ \A l \in 1 .. Len(s) - 1 : Above(s, t, l)
  BY DEF Tower
<1>2. PICK k \in Nat \ {0} : Len(s) = k + 1 /\ Len(s) - 1 = k
  <2>1. Len(s) \in Nat
    BY <1>1
  <2>2. ASSUME NEW c \in Nat, c > 1 PROVE c - 1 \in Nat \ {0} /\ c = (c - 1) + 1
    BY ONLY <2>2
  <2>3. Len(s) - 1 \in Nat \ {0} /\ Len(s) = (Len(s) - 1) + 1
    BY <2>1, <2>2
  <2>4. QED
    BY <2>3, Zenon
<1> DEFINE a == Front(s)
           b == Front(t)
<1>3. /\ a \in Seq(Lists) /\ Len(a) = k /\ b \in Seq(Lists) /\ Len(b) = k
      /\ \A i \in 1 .. k : a[i] = s[i] /\ b[i] = t[i]
  <2>0. Len(s) > 1 /\ Len(t) > 1
    BY <1>1
  <2>1. /\ a \in Seq(Lists) /\ Len(a) = Len(s) - 1
        /\ \A i \in 1 .. Len(s) - 1 : a[i] = s[i]
    BY ONLY <1>1, <2>0, FrontIs
  <2>2. /\ b \in Seq(Lists) /\ Len(b) = Len(t) - 1
        /\ \A i \in 1 .. Len(t) - 1 : b[i] = t[i]
    BY ONLY <1>1, <2>0, FrontIs
  <2> HIDE DEF a, b
  <2>3. QED
    BY ONLY <1>1, <1>2, <2>1, <2>2
<1> HIDE DEF a, b
<1>4. 1 \in 1 .. k /\ k \in 1 .. k /\ k >= 1
  OBVIOUS
<1>5. Above(s, t, k)
  BY <1>1, <1>2, <1>4
<1>6. PICK h : /\ Power(h)
               /\ s[k] \in Polynomial(2 * h) /\ t[k] \in Polynomial(2 * h)
               /\ s[k + 1] = field_norm(s[k]) /\ t[k + 1] = field_norm(t[k])
  BY <1>5 DEF Above
<1>7. /\ Last(a) = s[k] /\ Last(b) = t[k] /\ Last(s) = s[k + 1] /\ Last(t) = t[k + 1]
      /\ a[k] = s[k] /\ b[k] = t[k] /\ a[1] = s[1] /\ b[1] = t[1]
  BY ONLY <1>1, <1>2, <1>3, <1>4 DEF Last
<1>8. ASSUME NEW l \in 1 .. k - 1 PROVE Above(a, b, l)
  <2>1. l \in 1 .. k /\ l + 1 \in 1 .. k
    OBVIOUS
  <2>2. a[l] = s[l] /\ b[l] = t[l] /\ a[l + 1] = s[l + 1] /\ b[l + 1] = t[l + 1]
    BY <1>3, <2>1
  <2>3. Above(s, t, l)
    BY <1>1, <1>2, <2>1
  <2>4. QED
    BY ONLY <2>2, <2>3 DEF Above
<1>9. Power(2 * h)
  BY <1>6, PowerDoubles
<1>10. Tower(a, b)
  BY ONLY <1>1, <1>3, <1>4, <1>6, <1>7, <1>8, <1>9 DEF Tower
<1>11. QED
  BY <1>6, <1>7, <1>10 DEF a, b

(***************************************************************************)
(* The bottom                                                               *)
(***************************************************************************)

LEMMA TimesAtBottom ==
  ASSUME NEW x \in Polynomial(1), NEW y \in Polynomial(1)
  PROVE  x[0] \in Int /\ y[0] \in Int /\ Times(x, y, 1)[0] = x[0] * y[0]
<1>1. 1 \in Nat \ {0} /\ 0 \in 0 .. 1 - 1 /\ One(1) \in Polynomial(1)
  BY ConstantsAre
<1>2. PICK c \in Int : c = x[0]
  BY <1>1 DEF Polynomial
<1>3. Scaled(c, One(1), 1) \in Polynomial(1)
  BY <1>1, ScaledIs
<1>4. x = Scaled(c, One(1), 1)
  <2>1. ASSUME NEW i \in 0 .. 1 - 1 PROVE x[i] = Scaled(c, One(1), 1)[i]
    <3>1. i = 0
      OBVIOUS
    <3>2. One(1)[0] = 1
      BY <1>1 DEF One
    <3>3. Scaled(c, One(1), 1)[0] = c * 1
      BY <1>1, <3>2, ScaledAt
    <3>4. QED
      BY <1>2, <3>1, <3>3
  <2>2. QED
    BY <1>3, <2>1, Same
<1>5. Times(Scaled(c, One(1), 1), y, 1) = Scaled(c, Times(One(1), y, 1), 1)
  BY <1>1, ScaledTimes
<1>6. Times(One(1), y, 1) = y
  <2>1. Times(One(1), y, 1) = Times(y, One(1), 1)
    BY <1>1, Commutes
  <2>2. Times(y, One(1), 1) = y
    BY <1>1, TimesOne
  <2>3. QED
    BY <2>1, <2>2
<1>7. Times(x, y, 1) = Scaled(c, y, 1)
  BY ONLY <1>4, <1>5, <1>6, Zenon
<1>8. Scaled(c, y, 1)[0] = c * y[0]
  BY <1>1, ScaledAt
<1>9. y[0] \in Int
  BY <1>1 DEF Polynomial
<1>10. QED
  BY <1>2, <1>7, <1>8, <1>9

LEMMA SquareIs ==
  ASSUME NEW x \in Polynomial(1)
  PROVE  \E z \in Nat : Times(x, x, 1)[0] = z
<1>1. PICK c \in Int : c = x[0] /\ Times(x, x, 1)[0] = c * c
  BY TimesAtBottom
<1>2. c * c \in Nat
  OBVIOUS
<1>3. QED
  BY <1>1, <1>2

(* What is left of a norm at the bottom is a sum of two squares.            *)
LEMMA LastNormIs ==
  ASSUME NEW h, h = 1, NEW a \in Polynomial(2 * h)
  PROVE  field_norm(a)[0] \in Nat
<1>1. Power(1)
  BY PowerOfNone DEF Power
<1>2. a \in Polynomial(2) /\ 2 = 2 * 1
  <2>1. 2 * h = 2
    OBVIOUS
  <2>2. QED
    BY <2>1
<1>3. PICK x \in Polynomial(1), y \in Polynomial(1) : x = Evens(a, 1) /\ y = Odds(a, 1)
  <2>1. 1 \in Nat \ {0} /\ 2 \in Nat \ {0}
    OBVIOUS
  <2>2. QED
    BY <1>2, <2>1, PartsAre
<1>4. field_norm(a) = Added(Times(x, x, 1), Scaled(-1, Shifted(Times(y, y, 1), 1), 1), 1)
  <2>1. field_norm(a) = Added(Times(Evens(a, 1), Evens(a, 1), 1),
                              Scaled(-1, Shifted(Times(Odds(a, 1), Odds(a, 1), 1), 1), 1), 1)
    BY ONLY <1>1, <1>2, NormIs
  <2>2. QED
    BY ONLY <1>3, <2>1, Zenon
<1>5. PICK u \in Nat, v \in Nat : Times(x, x, 1)[0] = u /\ Times(y, y, 1)[0] = v
  BY SquareIs
<1>6. 0 \in 0 .. 1 - 1 /\ 1 \in Nat \ {0} /\ 1 - 1 = 0
  OBVIOUS
<1>7. Shifted(Times(y, y, 1), 1)[0] = -v
  BY <1>5, <1>6, ShiftedAt
<1>8. Scaled(-1, Shifted(Times(y, y, 1), 1), 1)[0] = -1 * (-v)
  BY <1>6, <1>7, ScaledAt
<1>9. field_norm(a)[0] = u + -1 * (-v)
  BY <1>4, <1>5, <1>6, <1>8, AddedAt
<1>10. QED
  BY <1>9

(* Two numbers without a common divisor give a solution,                    *)
LEMMA BottomSolves ==
  ASSUME NtruAssumption, NEW f \in Polynomial(1), NEW g \in Polynomial(1),
         NEW u \in Int, NEW v \in Int, u * f[0] + v * g[0] = 1
  PROVE  /\ [i \in {0} |-> -q * v] \in Polynomial(1) /\ [i \in {0} |-> q * u] \in Polynomial(1)
         /\ Solves(f, g, [i \in {0} |-> -q * v], [i \in {0} |-> q * u], 1)
<1>1. q \in Int /\ 1 \in Nat \ {0} /\ 0 .. 1 - 1 = {0} /\ -1 \in Int
  BY DEF NtruAssumption
<1>2. PICK r \in Int, s \in Int : r = -q * v /\ s = q * u
  BY <1>1
<1>3. PICK x, y : x = [i \in {0} |-> -q * v] /\ y = [i \in {0} |-> q * u]
  OBVIOUS
<1>4. x \in [{0} -> Int] /\ y \in [{0} -> Int] /\ x[0] = r /\ y[0] = s
  BY <1>2, <1>3
<1>5. x \in Polynomial(1) /\ y \in Polynomial(1)
  BY <1>1, <1>4 DEF Polynomial
<1>6. PICK a \in Int, b \in Int : a = f[0] /\ b = g[0]
  BY TimesAtBottom
<1>7. Times(f, y, 1)[0] = a * s /\ Times(g, x, 1)[0] = b * r
  BY <1>4, <1>5, <1>6, TimesAtBottom
<1>8. PICK A \in Polynomial(1), B \in Polynomial(1) : A = Times(f, y, 1) /\ B = Times(g, x, 1)
  BY <1>1, <1>5, TimesIs
<1>9. PICK D \in Polynomial(1) : D = Scaled(-1, B, 1)
  BY <1>1, ScaledIs
<1>10. D[0] = -1 * (b * r) /\ A[0] = a * s
  BY <1>1, <1>7, <1>8, <1>9, ScaledAt
<1>11. Added(A, D, 1)[0] = (a * s) + (-1 * (b * r))
  BY <1>1, <1>10, AddedAt
<1>12. (a * s) + (-1 * (b * r)) = q
  <2>1. u * a + v * b = 1
    BY <1>6
  <2>2. a * s = q * (u * a)
    BY <1>1, <1>2
  <2>3. -1 * (b * r) = q * (v * b)
    BY <1>1, <1>2
  <2>4. PICK c \in Int, d \in Int : c = u * a /\ d = v * b
    OBVIOUS
  <2>5. q * c + q * d = q * (c + d)
    BY <1>1, Distribute
  <2>6. QED
    BY <1>1, <2>1, <2>2, <2>3, <2>4, <2>5
<1>13. Added(A, D, 1) \in Polynomial(1) /\ Scaled(q, One(1), 1) \in Polynomial(1)
  BY <1>1, AddedIs, ScaledIs, ConstantsAre
<1>14. Scaled(q, One(1), 1)[0] = q
  <2>1. Scaled(q, One(1), 1)[0] = q * One(1)[0] /\ One(1)[0] = 1
    BY <1>1, ScaledAt DEF One
  <2>2. QED
    BY <1>1, <2>1
<1>15. Added(A, D, 1) = Scaled(q, One(1), 1)
  <2>1. \A i \in 0 .. 1 - 1 : Added(A, D, 1)[i] = Scaled(q, One(1), 1)[i]
    BY <1>1, <1>11, <1>12, <1>14
  <2>2. QED
    BY <1>13, <2>1, Same
<1>16. QED
  BY <1>3, <1>5, <1>8, <1>9, <1>15 DEF Solves

(* and two that have one are nothing to solve.                              *)
LEMMA BottomGivesUp ==
  ASSUME NEW b \in Nat, NEW m \in Nat, NEW x, Gcd(x, b, m, b, m), x.d # 1
  PROVE  \/ b = 0 /\ m # 1
         \/ \E p \in 2 .. Max({2, Abs(b), Abs(m)}) : b % p = 0 /\ m % p = 0
<1>1. PICK d \in Nat : d = x.d /\ Divides(d, b) /\ Divides(d, m) /\ d # 1
  BY DEF Gcd
<1>2. CASE b = 0
  <2>1. ASSUME m = 1 PROVE FALSE
    <3>1. PICK z \in Int : 1 = d * z
      BY <1>1, <2>1 DEF Divides
    <3>2. d # 0 /\ d >= 2
      <4>1. d # 0
        BY <3>1
      <4>2. QED
        BY <1>1, <4>1
    <3>3. z >= 1 \/ z <= -1 \/ z = 0
      OBVIOUS
    <3>4. z >= 1 => d * z >= d
      BY Bounds
    <3>5. z <= -1 => d * z <= -d
      BY BoundsBelow
    <3>6. QED
      BY <3>1, <3>2, <3>3, <3>4, <3>5
  <2>2. QED
    BY <1>2, <2>1
<1>3. CASE b # 0
  <2>1. PICK z \in Int : b = d * z
    BY <1>1 DEF Divides
  <2>2. d # 0 /\ d >= 2
    <3>1. d # 0
      BY <1>3, <2>1
    <3>2. QED
      BY <1>1, <3>1
  <2>3. d <= b
    <3>1. z >= 1 \/ z <= -1 \/ z = 0
      OBVIOUS
    <3>2. z >= 1 => d * z >= d
      BY Bounds
    <3>3. z <= -1 => d * z <= -d
      BY BoundsBelow
    <3>4. QED
      BY <1>3, <2>1, <2>2, <3>1, <3>2, <3>3
  <2>4. b % d = 0 /\ m % d = 0
    BY <1>1, <2>2, DividesRest
  <2>5. Abs(b) = b /\ Abs(m) = m
    BY DEF Abs
  <2>6. PICK S : S = {2, b, m}
    OBVIOUS
  <2>7. PICK B \in Nat : B >= b /\ B >= m
    BY CommonBound
  <2>8. /\ S \subseteq Nat /\ b \in S /\ B + 2 \in Nat
        /\ \A y \in S : y <= B + 2
    BY <2>6, <2>7
  <2>9. Max(S) \in S /\ Max(S) >= b
    BY <2>8, HasMax
  <2>10. d \in 2 .. Max(S)
    <3>1. Max(S) \in Nat
      BY <2>8, <2>9
    <3>2. QED
      BY <2>2, <2>3, <2>9, <3>1
  <2>11. QED
    BY <2>4, <2>5, <2>6, <2>10
<1>4. QED
  BY <1>2, <1>3

(***************************************************************************)
(* The invariant                                                            *)
(***************************************************************************)

(* F_ and G_ solve the equation at the level that s and t have reached.     *)
Solution(s, t, F_, G_) ==
  \E m : /\ Power(m)
         /\ Last(s) \in Polynomial(m) /\ Last(t) \in Polynomial(m)
         /\ F_ \in Polynomial(m) /\ G_ \in Polynomial(m)
         /\ Solves(Last(s), Last(t), F_, G_, m)

(* At the bottom there are the norms of the level above, not negative.      *)
LEMMA BottomIs ==
  ASSUME NtruAssumption, NEW s, NEW t, Tower(s, t), Size(Last(s)) = 1
  PROVE  /\ Last(s) \in Polynomial(1) /\ Last(t) \in Polynomial(1)
         /\ Last(s)[0] \in Nat /\ Last(t)[0] \in Nat
<1>1. PICK m \in Nat \ {0} : /\ Power(m) /\ Last(s) \in Polynomial(m) /\ Last(t) \in Polynomial(m)
                             /\ Size(Last(s)) = m
  BY LastLevel
<1>2. Last(s) \in Polynomial(1) /\ Last(t) \in Polynomial(1)
  BY <1>1
<1>3. Len(s) > 1
  <2>1. Len(s) \in Nat /\ Len(s) >= 1 /\ s[1] \in Polynomial(n)
    BY DEF Tower
  <2>2. ASSUME Len(s) = 1 PROVE FALSE
    <3>1. Last(s) \in Polynomial(n)
      BY <2>1, <2>2 DEF Last
    <3>2. n \in Nat \ {0, 1}
      BY DegreeIs
    <3>3. Size(Last(s)) = n
      BY <3>1, <3>2, SizeIs
    <3>4. QED
      BY <3>2, <3>3
  <2>3. Len(s) # 1
    BY <2>2
  <2>4. ASSUME NEW c \in Nat, c # 1, c >= 1 PROVE c > 1
    BY ONLY <2>4
  <2>5. QED
    BY <2>1, <2>3, <2>4, Zenon
<1>4. PICK h : /\ Power(h)
               /\ Last(Front(s)) \in Polynomial(2 * h) /\ Last(Front(t)) \in Polynomial(2 * h)
               /\ Last(s) = field_norm(Last(Front(s))) /\ Last(t) = field_norm(Last(Front(t)))
  BY <1>3, TowerShrinks
<1>5. h = 1
  <2>1. h \in Nat
    BY <1>4, PowerSplits
  <2>2. PICK a : a = Last(Front(s)) /\ a \in Polynomial(2 * h)
    BY <1>4
  <2>3. field_norm(a) \in Polynomial(h)
    BY <1>4, <2>2, NormIs
  <2>4. Last(s) \in Polynomial(h)
    BY <1>4, <2>2, <2>3
  <2>5. Size(Last(s)) = h
    BY <2>1, <2>4, SizeIs
  <2>6. QED
    BY <2>5
<1>6. Last(s)[0] \in Nat /\ Last(t)[0] \in Nat
  <2>1. PICK a, b : a = Last(Front(s)) /\ b = Last(Front(t))
    OBVIOUS
  <2>2. a \in Polynomial(2 * h) /\ b \in Polynomial(2 * h)
    BY ONLY <1>4, <2>1
  <2>3. field_norm(a)[0] \in Nat /\ field_norm(b)[0] \in Nat
    BY ONLY <1>5, <2>2, LastNormIs
  <2>4. QED
    BY <1>4, <2>1, <2>3
<1>7. QED
  BY <1>2, <1>6

LEMMA BottomStep ==
  ASSUME NtruAssumption, NEW s, NEW t, Tower(s, t), Size(Last(s)) = 1,
         NEW x, x = xgcd(Last(s)[0], Last(t)[0])
  PROVE  /\ x.d = 1 => Solution(s, t, [i \in {0} |-> -q * x.v], [i \in {0} |-> q * x.u])
         /\ x.d # 1 => \/ Last(s)[0] = 0 /\ Last(t)[0] # 1
                       \/ \E p \in 2 .. Max({2, Abs(Last(s)[0]), Abs(Last(t)[0])}) :
                            Last(s)[0] % p = 0 /\ Last(t)[0] % p = 0
<1>1. PICK f \in Polynomial(1), g \in Polynomial(1) : f = Last(s) /\ g = Last(t)
  BY BottomIs
<1>2. PICK b \in Nat, m \in Nat : b = f[0] /\ m = g[0]
  BY <1>1, BottomIs
<1>3. Gcd(x, b, m, b, m)
  BY <1>1, <1>2, XgcdIs
<1>4. ASSUME x.d = 1
      PROVE  Solution(s, t, [i \in {0} |-> -q * x.v], [i \in {0} |-> q * x.u])
  <2>1. PICK u \in Int, v \in Int : u = x.u /\ v = x.v
    BY <1>3 DEF Gcd
  <2>2. u * f[0] + v * g[0] = 1
    BY <1>2, <1>3, <1>4, <2>1 DEF Gcd
  <2>3. PICK F_ \in Polynomial(1), G_ \in Polynomial(1) :
          /\ F_ = [i \in {0} |-> -q * v] /\ G_ = [i \in {0} |-> q * u]
          /\ Solves(f, g, F_, G_, 1)
    BY <2>2, BottomSolves
  <2>4. Power(1)
    BY PowerOfNone DEF Power
  <2>5. Solution(s, t, F_, G_)
    BY ONLY <1>1, <2>3, <2>4 DEF Solution
  <2>6. QED
    BY <2>1, <2>3, <2>5
<1>5. ASSUME x.d # 1
      PROVE  \/ b = 0 /\ m # 1
             \/ \E p \in 2 .. Max({2, Abs(b), Abs(m)}) : b % p = 0 /\ m % p = 0
  BY <1>3, <1>5, BottomGivesUp
<1>6. QED
  BY <1>1, <1>2, <1>4, <1>5

LEMMA UpStep ==
  ASSUME NtruAssumption, NEW s, NEW t, Tower(s, t), Len(s) > 1,
         NEW F_, NEW G_, Solution(s, t, F_, G_)
  PROVE  Solution(Front(s), Front(t),
                  karamul(lift(F_), galois_conjugate(Last(Front(t)))),
                  karamul(lift(G_), galois_conjugate(Last(Front(s)))))
<1>1. PICK h : /\ Power(h)
               /\ Last(Front(s)) \in Polynomial(2 * h) /\ Last(Front(t)) \in Polynomial(2 * h)
               /\ Last(s) = field_norm(Last(Front(s))) /\ Last(t) = field_norm(Last(Front(t)))
  BY TowerShrinks
<1>2. h \in Nat \ {0}
  BY <1>1, PowerSplits
<1>3. PICK m \in Nat \ {0} : m = 2 * h
  BY <1>2
<1>4. Power(m)
  BY <1>1, <1>3, PowerDoubles
<1>5. PICK f \in Polynomial(m), g \in Polynomial(m) : f = Last(Front(s)) /\ g = Last(Front(t))
  BY ONLY <1>1, <1>3, Zenon
<1>6. field_norm(f) \in Polynomial(h) /\ field_norm(g) \in Polynomial(h)
  BY <1>1, <1>3, NormIs
<1>7. Last(s) = field_norm(f) /\ Last(t) = field_norm(g)
  BY <1>1, <1>5
<1>8. F_ \in Polynomial(h) /\ G_ \in Polynomial(h) /\ Solves(field_norm(f), field_norm(g), F_, G_, h)
  <2>1. PICK k : /\ Power(k)
                 /\ Last(s) \in Polynomial(k)
                 /\ F_ \in Polynomial(k) /\ G_ \in Polynomial(k)
                 /\ Solves(Last(s), Last(t), F_, G_, k)
    BY DEF Solution
  <2>2. k \in Nat
    BY <2>1, PowerSplits
  <2>3. Size(Last(s)) = k
    BY <2>1, <2>2, SizeIs
  <2>4. Size(Last(s)) = h
    BY <1>2, <1>6, <1>7, SizeIs
  <2>5. k = h
    BY <2>3, <2>4
  <2>6. QED
    BY ONLY <1>7, <2>1, <2>5
<1>9. Solves(f, g, Times(lift(F_), galois_conjugate(g), m), Times(lift(G_), galois_conjugate(f), m), m)
  BY ONLY NtruAssumption, <1>1, <1>3, <1>8, f \in Polynomial(m), g \in Polynomial(m), SolutionLifts
<1>10. PICK x \in Polynomial(m), y \in Polynomial(m) : x = lift(F_) /\ y = lift(G_)
  <2>1. lift(F_) \in Polynomial(2 * h) /\ lift(G_) \in Polynomial(2 * h)
    BY <1>2, <1>8, LiftAt
  <2>2. QED
    BY ONLY <1>3, <2>1, Zenon
<1>11. PICK c \in Polynomial(m), d \in Polynomial(m) : c = galois_conjugate(f) /\ d = galois_conjugate(g)
  BY <1>2, <1>3, PartsMake
<1>12. karamul(x, d) = Times(x, d, m) /\ karamul(y, c) = Times(y, c, m)
  BY <1>4, KaramulIsTimes
<1>13. Times(x, d, m) \in Polynomial(m) /\ Times(y, c, m) \in Polynomial(m)
  BY TimesIs
<1>14. Solves(f, g, karamul(x, d), karamul(y, c), m)
  BY ONLY <1>9, <1>10, <1>11, <1>12, Zenon
<1>15. karamul(x, d) \in Polynomial(m) /\ karamul(y, c) \in Polynomial(m)
  BY <1>12, <1>13
<1>16. Solution(Front(s), Front(t), karamul(x, d), karamul(y, c))
  BY ONLY <1>4, <1>5, <1>14, <1>15 DEF Solution
<1>17. QED
  BY ONLY <1>5, <1>10, <1>11, <1>16, Zenon

LEMMA LessScaled ==
  ASSUME NEW p \in Int, NEW c \in Int, c = -p, NEW a \in Int, NEW b \in Int
  PROVE  a - b * p = a + c * b
OBVIOUS

LEMMA ReduceStep ==
  ASSUME NtruAssumption, NEW s, NEW t, NEW F_, NEW G_, Solution(s, t, F_, G_),
         NEW shift, shift = Bits(F_, G_) - Bits(Last(s), Last(t)), shift >= 0,
         NEW k \in [DOMAIN Last(s) -> Quotients]
  PROVE  Solution(s, t, [i \in DOMAIN F_ |-> F_[i] - karamul(Last(s), k)[i] * 2^shift],
                        [i \in DOMAIN G_ |-> G_[i] - karamul(Last(t), k)[i] * 2^shift])
<1>1. PICK m : /\ Power(m)
               /\ Last(s) \in Polynomial(m) /\ Last(t) \in Polynomial(m)
               /\ F_ \in Polynomial(m) /\ G_ \in Polynomial(m)
               /\ Solves(Last(s), Last(t), F_, G_, m)
  BY DEF Solution
<1>2. m \in Nat \ {0}
  BY <1>1, PowerSplits
<1>3. PICK f \in Polynomial(m), g \in Polynomial(m) : f = Last(s) /\ g = Last(t)
  BY <1>1
<1>4. DOMAIN f = 0 .. m - 1 /\ DOMAIN F_ = 0 .. m - 1 /\ DOMAIN G_ = 0 .. m - 1
  BY <1>1 DEF Polynomial
<1>5. k \in Polynomial(m)
  BY <1>3, <1>4 DEF Polynomial, NtruAssumption
<1>6. shift \in Nat
  <2>1. Bits(F_, G_) \in Int /\ Bits(f, g) \in Int
    BY <1>1, <1>2, BitsIs
  <2>2. QED
    BY <1>3, <2>1
<1>7. PICK p \in Int : p = 2^shift
  BY <1>6, PowerIs
<1>8. PICK c \in Int : c = -p
  OBVIOUS
<1>9. PICK x \in Polynomial(m), y \in Polynomial(m) : x = Times(f, k, m) /\ y = Times(g, k, m)
  BY <1>2, <1>5, TimesIs
<1>10. karamul(f, k) = x /\ karamul(g, k) = y
  BY <1>1, <1>5, <1>9, KaramulIsTimes
<1>11. PICK u \in Polynomial(m), v \in Polynomial(m) :
         u = Added(F_, Scaled(c, x, m), m) /\ v = Added(G_, Scaled(c, y, m), m)
  <2>1. Scaled(c, x, m) \in Polynomial(m) /\ Scaled(c, y, m) \in Polynomial(m)
    BY <1>2, ScaledIs
  <2>2. QED
    BY <1>1, <1>2, <2>1, AddedIs
<1>12. Solves(f, g, u, v, m)
  <2>1. Solves(f, g, F_, G_, m)
    BY <1>1, <1>3
  <2>2. Solves(f, g, Added(F_, Scaled(c, Times(f, k, m), m), m), Added(G_, Scaled(c, Times(g, k, m), m), m), m)
    BY <1>1, <1>2, <1>5, <2>1, SolutionReduces
  <2>3. QED
    BY ONLY <1>9, <1>11, <2>2, Zenon
<1>13. [i \in DOMAIN F_ |-> F_[i] - karamul(f, k)[i] * 2^shift] = u
  <2>1. ASSUME NEW i \in 0 .. m - 1 PROVE F_[i] - x[i] * p = F_[i] + c * x[i]
    <3>1. F_[i] \in Int /\ x[i] \in Int
      BY <1>1 DEF Polynomial
    <3>2. QED
      BY ONLY <1>8, <3>1, LessScaled, p \in Int, c \in Int
  <2>2. [i \in 0 .. m - 1 |-> F_[i] - x[i] * p] = [i \in 0 .. m - 1 |-> F_[i] + c * x[i]]
    BY <2>1, Zenon
  <2>3. u = [i \in 0 .. m - 1 |-> F_[i] + c * x[i]]
    <3>1. \A i \in 0 .. m - 1 : Scaled(c, x, m)[i] = c * x[i]
      BY <1>2, ScaledAt
    <3>2. QED
      BY <1>11, <3>1, Zenon DEF Added
  <2>4. QED
    BY <1>4, <1>7, <1>10, <2>2, <2>3, Zenon
<1>14. [i \in DOMAIN G_ |-> G_[i] - karamul(g, k)[i] * 2^shift] = v
  <2>1. ASSUME NEW i \in 0 .. m - 1 PROVE G_[i] - y[i] * p = G_[i] + c * y[i]
    <3>1. G_[i] \in Int /\ y[i] \in Int
      BY <1>1 DEF Polynomial
    <3>2. QED
      BY ONLY <1>8, <3>1, LessScaled, p \in Int, c \in Int
  <2>2. [i \in 0 .. m - 1 |-> G_[i] - y[i] * p] = [i \in 0 .. m - 1 |-> G_[i] + c * y[i]]
    BY <2>1, Zenon
  <2>3. v = [i \in 0 .. m - 1 |-> G_[i] + c * y[i]]
    <3>1. \A i \in 0 .. m - 1 : Scaled(c, y, m)[i] = c * y[i]
      BY <1>2, ScaledAt
    <3>2. QED
      BY <1>11, <3>1, Zenon DEF Added
  <2>4. QED
    BY <1>4, <1>7, <1>10, <2>2, <2>3, Zenon
<1>15. Solution(s, t, u, v)
  BY ONLY <1>1, <1>3, <1>12, u \in Polynomial(m), v \in Polynomial(m) DEF Solution
<1>16. QED
  BY ONLY <1>3, <1>13, <1>14, <1>15, Zenon

(* A solution is one term by term, as the property has it.                  *)
LEMMA SolutionIs ==
  ASSUME NtruAssumption, NEW s, NEW t, NEW F_, NEW G_, Solution(s, t, F_, G_), NEW i \in DOMAIN F_
  PROVE  Product(Last(s), G_)[i] - Product(Last(t), F_)[i] = (IF i = 0 THEN q ELSE 0)
<1>1. PICK m : /\ Power(m)
               /\ Last(s) \in Polynomial(m) /\ Last(t) \in Polynomial(m)
               /\ F_ \in Polynomial(m) /\ G_ \in Polynomial(m)
               /\ Solves(Last(s), Last(t), F_, G_, m)
  BY DEF Solution
<1>2. m \in Nat \ {0} /\ q \in Int
  BY <1>1, PowerSplits DEF NtruAssumption
<1>3. PICK f \in Polynomial(m), g \in Polynomial(m) : f = Last(s) /\ g = Last(t)
  BY <1>1
<1>4. i \in 0 .. m - 1
  BY <1>1 DEF Polynomial
<1>5. PICK x \in Polynomial(m), y \in Polynomial(m) : x = Times(f, G_, m) /\ y = Times(g, F_, m)
  BY <1>1, <1>2, TimesIs
<1>6. Product(f, G_) = x /\ Product(g, F_) = y
  BY <1>1, <1>2, <1>5, ProductIsTimes
<1>7. Added(x, Scaled(-1, y, m), m) = Scaled(q, One(m), m)
  BY <1>1, <1>3, <1>5 DEF Solves
<1>8. PICK a \in Int, b \in Int : a = x[i] /\ b = y[i]
  BY <1>4 DEF Polynomial
<1>9. Added(x, Scaled(-1, y, m), m)[i] = a + -1 * b
  <2>1. Scaled(-1, y, m)[i] = -1 * b
    BY <1>2, <1>4, <1>8, ScaledAt
  <2>2. QED
    BY <1>2, <1>4, <1>8, <2>1, AddedAt
<1>10. Scaled(q, One(m), m)[i] = q * (IF i = 0 THEN 1 ELSE 0)
  <2>1. One(m)[i] = IF i = 0 THEN 1 ELSE 0
    BY <1>4, Zenon DEF One
  <2>2. QED
    BY <1>2, <1>4, <2>1, ScaledAt
<1>11. a - b = IF i = 0 THEN q ELSE 0
  <2>1. a + -1 * b = q * (IF i = 0 THEN 1 ELSE 0)
    BY <1>7, <1>9, <1>10
  <2>2. QED
    BY <1>2, <2>1
<1>12. QED
  BY <1>3, <1>6, <1>8, <1>11

(* The norms go down from f and g; F and G, from the bottom up, solve the   *)
(* equation at the level reached; and what is given up has no solution.     *)
IInv ==
  /\ pc # "gen" => Tower(fs, gs)
  /\ pc \in {"up", "reduce", "returned"} => Solution(fs, gs, F, G)
  /\ GivesUpRightly

LEMMA Started == ASSUME Init PROVE IInv
BY DEF Init, IInv, GivesUpRightly

LEMMA Restarts == ASSUME Again PROVE IInv'
BY DEF Again, IInv, GivesUpRightly

LEMMA Draws == ASSUME NtruAssumption, gen_poly PROVE IInv'
<1>1. PICK fg \in Short : fs' = <<fg[1]>> /\ gs' = <<fg[2]>>
  BY DEF gen_poly
<1>2. fg[1] \in Polynomial(n) /\ fg[2] \in Polynomial(n)
  BY <1>1 DEF NtruAssumption, Polynomial
<1>3. Tower(<<fg[1]>>, <<fg[2]>>)
  BY <1>2, TowerStarts
<1>4. Tower(fs, gs)'
  BY <1>1, <1>3
<1>5. pc' = "check"
  BY DEF gen_poly
<1>6. QED
  BY <1>4, <1>5 DEF IInv, GivesUpRightly

LEMMA GoesDown == ASSUME IInv, Down PROVE IInv'
<1>1. pc = "down" /\ pc' = "down" /\ Tower(fs, gs) /\ Size(Last(fs)) > 1
  BY DEF Down, IInv
<1>2. Tower(Append(fs, field_norm(Last(fs))), Append(gs, field_norm(Last(gs))))
  BY <1>1, TowerGrows
<1>3. Tower(fs, gs)'
  BY <1>2, Zenon DEF Down
<1>4. QED
  BY <1>1, <1>3 DEF IInv, GivesUpRightly

LEMMA Turns == ASSUME NtruAssumption, IInv, Bottom PROVE IInv'
<1>1. PICK x : x = xgcd(Last(fs)[0], Last(gs)[0])
  OBVIOUS
<1>2. pc = "down" /\ Tower(fs, gs) /\ Size(Last(fs)) = 1 /\ fs' = fs /\ gs' = gs
  BY Zenon DEF Bottom, IInv
<1>3. Tower(fs, gs)'
  BY <1>2, Zenon
<1>4. CASE x.d = 1
  <2>1. /\ pc' = "up"
        /\ F' = [i \in {0} |-> -q * x.v] /\ G' = [i \in {0} |-> q * x.u]
    BY <1>1, <1>4, Zenon DEF Bottom
  <2>2. Solution(fs, gs, [i \in {0} |-> -q * x.v], [i \in {0} |-> q * x.u])
    BY <1>1, <1>2, <1>4, BottomStep
  <2>3. Solution(fs, gs, F, G)'
    BY <1>2, <2>1, <2>2, Zenon
  <2>4. QED
    BY <1>3, <2>1, <2>3 DEF IInv, GivesUpRightly
<1>5. CASE x.d # 1
  <2>1. pc' = "ValueError"
    BY <1>1, <1>5, Zenon DEF Bottom
  <2>2. \/ Last(fs)[0] = 0 /\ Last(gs)[0] # 1
        \/ \E p \in 2 .. Max({2, Abs(Last(fs)[0]), Abs(Last(gs)[0])}) :
             Last(fs)[0] % p = 0 /\ Last(gs)[0] % p = 0
    BY <1>1, <1>2, <1>5, BottomStep
  <2>3. GivesUpRightly'
    BY <1>2, <2>2, Zenon DEF GivesUpRightly
  <2>4. QED
    BY <1>3, <2>1, <2>3 DEF IInv
<1>6. QED
  BY <1>4, <1>5

LEMMA GoesUp == ASSUME NtruAssumption, IInv, Up PROVE IInv'
<1>1. pc = "up" /\ pc' = "reduce" /\ Tower(fs, gs) /\ Len(fs) > 1 /\ Solution(fs, gs, F, G)
  BY DEF Up, IInv
<1>2. Tower(Front(fs), Front(gs))
  BY <1>1, TowerShrinks
<1>3. Solution(Front(fs), Front(gs),
               karamul(lift(F), galois_conjugate(Last(Front(gs)))),
               karamul(lift(G), galois_conjugate(Last(Front(fs)))))
  BY <1>1, UpStep
<1>4. Tower(fs, gs)' /\ Solution(fs, gs, F, G)'
  BY <1>2, <1>3, Zenon DEF Up
<1>5. QED
  BY <1>1, <1>4 DEF IInv, GivesUpRightly

LEMMA Reduces == ASSUME NtruAssumption, IInv, ReducePass PROVE IInv'
<1>1. pc = "reduce" /\ pc' = "reduce" /\ fs' = fs /\ gs' = gs /\ Tower(fs, gs) /\ Solution(fs, gs, F, G)
  BY DEF ReducePass, IInv
<1>2. PICK shift : shift = Bits(F, G) - Bits(Last(fs), Last(gs)) /\ shift >= 0
  BY Zenon DEF ReducePass
<1>3. PICK k \in [DOMAIN Last(fs) -> Quotients] : Subtracted(Last(fs), Last(gs), k, shift)
  BY <1>2, Zenon DEF ReducePass
<1>4. Solution(fs, gs, [i \in DOMAIN F |-> F[i] - karamul(Last(fs), k)[i] * 2^shift],
                       [i \in DOMAIN G |-> G[i] - karamul(Last(gs), k)[i] * 2^shift])
  BY <1>1, <1>2, ReduceStep
<1>5. Tower(fs, gs)' /\ Solution(fs, gs, F, G)'
  BY <1>1, <1>3, <1>4, Zenon DEF Subtracted
<1>6. QED
  BY <1>1, <1>5 DEF IInv, GivesUpRightly

LEMMA Kept ==
  ASSUME IInv, [ntru_gen]_ntruVars, NtruAssumption
  PROVE  IInv'
<1>1. CASE gen_poly
  BY <1>1, Draws
<1>2. CASE GsNormTooLarge \/ NotInvertible \/ Retry
  BY <1>2, Restarts DEF GsNormTooLarge, NotInvertible, Retry
<1>3. CASE Solve
  <2>1. pc = "check" /\ pc' = "down" /\ fs' = fs /\ gs' = gs
    BY <1>3 DEF Solve
  <2>2. Tower(fs, gs)'
    BY <2>1 DEF IInv
  <2>3. QED
    BY <2>1, <2>2 DEF IInv, GivesUpRightly
<1>4. CASE Down
  BY <1>4, GoesDown
<1>5. CASE Bottom
  BY <1>5, Turns
<1>6. CASE Up
  BY <1>6, GoesUp
<1>7. CASE ReducePass
  BY <1>7, Reduces
<1>8. CASE ReduceEnds \/ Return
  <2>1. pc \in {"up", "reduce"} /\ pc' \in {"up", "returned"} /\ fs' = fs /\ gs' = gs /\ F' = F /\ G' = G
    BY <1>8 DEF ReduceEnds, Return
  <2>2. Tower(fs, gs)' /\ Solution(fs, gs, F, G)'
    BY <2>1 DEF IInv
  <2>3. QED
    BY <2>1, <2>2 DEF IInv, GivesUpRightly
<1>9. CASE UNCHANGED ntruVars
  <2>1. pc' = pc /\ fs' = fs /\ gs' = gs /\ F' = F /\ G' = G
    BY <1>9 DEF ntruVars
  <2>2. QED
    BY <2>1 DEF IInv, GivesUpRightly
<1>10. QED
  BY <1>1, <1>2, <1>3, <1>4, <1>5, <1>6, <1>7, <1>8, <1>9 DEF ntru_gen

LEMMA Implied == ASSUME NtruAssumption, IInv PROVE SolvesRightly
<1>1. ASSUME pc \in {"up", "reduce", "returned"}, NEW i \in DOMAIN F
      PROVE  Product(Last(fs), G)[i] - Product(Last(gs), F)[i] = (IF i = 0 THEN q ELSE 0)
  BY <1>1, SolutionIs DEF IInv
<1>2. NtruEquation
  BY <1>1, Zenon DEF NtruEquation
<1>3. QED
  BY <1>2 DEF IInv, SolvesRightly

(* karamul, which cuts polynomials in halves and adds the halves up, gives  *)
(* the product modulo x^m + 1, for any coefficients and every m that is a   *)
(* power of 2 (ntrugen.py: karatsuba, karamul).                             *)
THEOREM KaramulMultiplies ==
  \A k \in Nat : \A a, b \in Polynomial(2^k) : karamul(a, b) = Product(a, b)
<1> TAKE k \in Nat
<1> TAKE a, b \in Polynomial(2^k)
<1>1. Power(2^k) /\ 2^k \in Nat
  BY PowerIs, Zenon DEF Power
<1>2. karamul(a, b) = Times(a, b, 2^k) /\ Product(a, b) = Times(a, b, 2^k)
  BY <1>1, KaramulIsTimes, ProductIsTimes
<1>3. QED
  BY <1>2

(* xgcd gives a common divisor of two norms, and what makes it of them; so  *)
(* every common divisor divides it (ntrugen.py: xgcd).                      *)
THEOREM XgcdDivides ==
  \A b, m \in Nat : LET x == xgcd(b, m) IN
    /\ x.d \in Nat /\ x.u \in Int /\ x.v \in Int
    /\ x.d = x.u * b + x.v * m
    /\ Divides(x.d, b) /\ Divides(x.d, m)
BY XgcdIs DEF Gcd

(* For every degree that is a power of 2, every modulus, whatever short f   *)
(* and g are drawn and whatever quotients the passes of reduce() take:      *)
(* ntru_solve has f*G - g*F = q modulo x^n + 1 at every level on the way    *)
(* up, so what ntru_gen returns solves the NTRU equation; and it gives up   *)
(* only on norms that a number divides, so that there is nothing to solve   *)
(* (ntrugen.py: karatsuba, karamul, field_norm, lift, xgcd, reduce,         *)
(* ntru_solve, ntru_gen).                                                   *)
THEOREM SolvesRightlyAlways == ntruSpec => []SolvesRightly
<1>1. NtruAssumption
  BY NtruAssumption
<1>2. Init => IInv
  BY Started
<1>3. IInv /\ [ntru_gen]_ntruVars => IInv'
  BY <1>1, Kept
<1>4. IInv => SolvesRightly
  BY <1>1, Implied
<1>5. QED
  BY <1>2, <1>3, <1>4, PTL DEF ntruSpec
=============================================================================
