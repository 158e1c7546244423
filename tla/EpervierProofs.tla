--------------------------- MODULE EpervierProofs ---------------------------
(***************************************************************************)
(* Machine-checked proofs about Epervier, for every number of coefficients, *)
(* every modulus and every hint.  Of the multiplication they use only       *)
(* MulAssumption: it is commutative, associative and has unit 1.            *)
(***************************************************************************)
EXTENDS MCOnChain, WellFoundedInduction, TLAPS

(***************************************************************************)
(* Two ways to move a factor across a product.                              *)
(***************************************************************************)
LEMMA MoveIn ==
  ASSUME NEW x \in Zq \cup Hint, NEW y \in Zq \cup Hint, NEW z \in Zq \cup Hint
  PROVE  Mul(x, Mul(y, z)) = Mul(Mul(y, x), z)
<1>1. Mul(Mul(x, y), z) = Mul(x, Mul(y, z))
  BY MulAssumption
<1>2. Mul(x, y) = Mul(y, x)
  BY MulAssumption
<1>3. QED
  BY <1>1, <1>2, Zenon

LEMMA MoveOut ==
  ASSUME NEW x \in Zq \cup Hint, NEW y \in Zq \cup Hint, NEW z \in Zq \cup Hint
  PROVE  Mul(Mul(x, y), z) = Mul(x, Mul(z, y))
<1>1. Mul(Mul(x, y), z) = Mul(x, Mul(y, z))
  BY MulAssumption
<1>2. Mul(y, z) = Mul(z, y)
  BY MulAssumption
<1>3. QED
  BY <1>1, <1>2, Zenon

(***************************************************************************)
(* The sum of equal terms, one term at a time; it vanishes only if the term *)
(* does.                                                                    *)
(***************************************************************************)
LEMMA TimesNone == ASSUME NEW c \in Int PROVE Times(0, c) = 0
BY DEF Times

LEMMA TimesNext ==
  ASSUME NEW k \in Nat, NEW c \in Int
  PROVE  Times(k + 1, c) = Times(k, c) + c
BY DEF Times

LEMMA TimesOfZero == ASSUME NEW k \in Nat PROVE Times(k, 0) = 0
BY DEF Times

LEMMA TimesVanishes ==
  ASSUME NEW k \in Nat \ {0}, NEW c \in Int, Times(k, c) = 0
  PROVE  c = 0
<1>1. c > 0 => k * c > 0
  OBVIOUS
<1>2. c < 0 => k * c < 0
  OBVIOUS
<1>3. QED
  BY <1>1, <1>2 DEF Times

(***************************************************************************)
(* What a place of each array is, and the constants.                        *)
(***************************************************************************)
LEMMA Places ==
  ASSUME TypeOK
  PROVE  /\ n \in Nat /\ n > 1 /\ i \in Nat /\ hint \in Zq \cup Hint
         /\ \A k \in 0 .. n - 1 : /\ s2[k] \in Zq \cup Hint
                                  /\ prefix[k] \in Zq \cup Hint
                                  /\ inv[k] \in Zq \cup Hint
BY EpervierAssumption DEF TypeOK, Poly, Index

LEMMA ProductIn ==
  ASSUME NEW x \in Zq \cup Hint, NEW y \in Zq \cup Hint
  PROVE  Mul(x, y) \in Zq
BY MulAssumption

LEMMA ZeroIsPoly == ZeroPoly \in Poly
BY EpervierAssumption DEF ZeroPoly, Poly, Zq

(***************************************************************************)
(* Initially.                                                               *)
(***************************************************************************)
LEMMA InitIInv == Init => IInv
<1> SUFFICES ASSUME Init PROVE IInv
  OBVIOUS
<1>1. ZeroPoly \in [Index -> Zq \cup Hint]
  BY ZeroIsPoly DEF Poly
<1>2. TypeOK
  BY <1>1, ZeroIsPoly, EpervierAssumption DEF Init, TypeOK, Control
<1>3. QED
  BY <1>2, EpervierAssumption DEF Init, IInv, InverseChecked, KeyFits, RefusedIsWrong

(***************************************************************************)
(* The loop over the norm.                                                  *)
(***************************************************************************)
LEMMA NormStep ==
  ASSUME IInv, SumNorm \/ NormTooLarge
  PROVE  IInv'
<1> USE EpervierAssumption
<1>1. TypeOK'
  <2>1. CASE SumNorm
    <3>1. i \in Index /\ given.s1 \in Poly /\ given.s2 \in Poly
      BY <2>1 DEF SumNorm, IInv, TypeOK, Index
    <3>2. Norm(given.s1[i]) \in Nat /\ Norm(given.s2[i]) \in Nat
      BY <3>1, NormAssumption DEF Poly
    <3>3. norm' \in Int /\ i' \in 0 .. n
      BY <2>1, <3>2 DEF SumNorm, IInv, TypeOK
    <3>4. QED
      BY <2>1, <3>3 DEF SumNorm, IInv, TypeOK
  <2>2. CASE NormTooLarge
    BY <2>2 DEF NormTooLarge, IInv, TypeOK, Control
  <2>3. QED
    BY <2>1, <2>2
<1>2. CASE SumNorm
  <2>1. i' < n /\ pc' = "norm"
    BY <1>2 DEF SumNorm, IInv, TypeOK
  <2>2. QED
    BY <1>1, <2>1 DEF IInv, InverseChecked, KeyFits, RefusedIsWrong
<1>3. CASE NormTooLarge
  <2>1. i' # n /\ pc' = "reverted"
    BY <1>3 DEF NormTooLarge
  <2>2. QED
    BY <1>1, <2>1 DEF IInv, InverseChecked, KeyFits, RefusedIsWrong
<1>4. QED
  BY <1>2, <1>3

LEMMA TransformStep ==
  ASSUME IInv, Transform
  PROVE  IInv'
<1> USE EpervierAssumption
<1>1. NTT(given.s2) \in Poly
  BY NTTAssumption DEF IInv, TypeOK
<1>2. 0 \in Index /\ n - 1 \in Index /\ 0 \in Zq
  BY DEF Index, Zq
<1>3. s2' \in Poly /\ prefix' \in Poly /\ inv' \in [Index -> Zq \cup Hint]
  BY <1>1, <1>2, ZeroIsPoly DEF Transform, Poly, IInv, TypeOK
<1>4. TypeOK'
  BY <1>3 DEF Transform, IInv, TypeOK, Control
<1>5. prefix'[0] = s2'[0] /\ inv'[n - 1] = hint'
  BY <1>2, ZeroIsPoly DEF Transform, Poly, ZeroPoly
<1>6. PrefixUpTo(i - 1)'
  BY <1>5 DEF Transform, PrefixUpTo
<1>7. QED
  BY <1>4, <1>5, <1>6
     DEF Transform, IInv, InverseChecked, KeyFits, RefusedIsWrong

(***************************************************************************)
(* The forward products.                                                    *)
(***************************************************************************)
LEMMA PrefixStep ==
  ASSUME IInv, Prefix
  PROVE  IInv'
<1> USE EpervierAssumption
<1>1. i \in 1 .. n - 1 /\ PrefixUpTo(i - 1) /\ inv[n - 1] = hint /\ TypeOK
  BY DEF Prefix, IInv
<1>2. Mul(prefix[i - 1], s2[i]) \in Zq
  <2>1. prefix[i - 1] \in Zq \cup Hint /\ s2[i] \in Zq \cup Hint
    BY <1>1, Places
  <2>2. QED
    BY <2>1, ProductIn
<1>3. prefix' \in Poly
  BY <1>1, <1>2 DEF Prefix, TypeOK, Poly
<1>4. TypeOK'
  BY <1>1, <1>3 DEF Prefix, TypeOK, Control
<1>5. /\ prefix'[i] = Mul(prefix[i - 1], s2[i])
      /\ \A k \in 0 .. i - 1 : prefix'[k] = prefix[k]
  BY <1>1 DEF Prefix, TypeOK, Poly, Index
<1>6. prefix'[0] = s2'[0]
  BY <1>1, <1>5 DEF PrefixUpTo, Prefix
<1>7. ASSUME NEW k \in 1 .. i
      PROVE  prefix'[k] = Mul(prefix'[k - 1], s2'[k])
  <2>1. CASE k = i
    BY <1>1, <1>5, <2>1 DEF Prefix
  <2>2. CASE k < i
    BY <1>1, <1>5, <2>2 DEF PrefixUpTo, Prefix
  <2>3. QED
    BY <1>1, <2>1, <2>2
<1>8. CASE i = n - 1
  <2>1. i' = n - 1 /\ pc' = "suffix"
    BY <1>8 DEF Prefix
  <2>2. PrefixUpTo(n - 1)'
    BY <1>6, <1>7, <1>8 DEF PrefixUpTo
  <2>3. SuffixFrom(i + 1)'
    BY <2>1 DEF SuffixFrom
  <2>4. inv'[n - 1] = hint'
    BY <1>1 DEF Prefix
  <2>5. QED
    BY <1>4, <2>1, <2>2, <2>3, <2>4
       DEF IInv, InverseChecked, KeyFits, RefusedIsWrong
<1>9. CASE i # n - 1
  <2>1. i' = i + 1 /\ i' \in 1 .. n - 1 /\ pc' = "prefix"
    BY <1>1, <1>9 DEF Prefix
  <2>2. PrefixUpTo(i - 1)'
    BY <1>1, <1>6, <1>7, <2>1 DEF PrefixUpTo
  <2>3. inv'[n - 1] = hint'
    BY <1>1 DEF Prefix
  <2>4. QED
    BY <1>4, <2>1, <2>2, <2>3 DEF IInv, InverseChecked, KeyFits, RefusedIsWrong
<1>10. QED
  BY <1>8, <1>9

(***************************************************************************)
(* The backward products; the last of them makes the whole.                 *)
(***************************************************************************)
LEMMA SuffixStep ==
  ASSUME IInv, Suffix
  PROVE  IInv'
<1> USE EpervierAssumption
<1>1. /\ i \in 1 .. n - 1 /\ PrefixUpTo(n - 1) /\ SuffixFrom(i + 1)
      /\ inv[n - 1] = hint /\ TypeOK
  BY DEF Suffix, IInv
<1>2. Mul(inv[i], s2[i]) \in Zq
  <2>1. inv[i] \in Zq \cup Hint /\ s2[i] \in Zq \cup Hint
    BY <1>1, Places
  <2>2. QED
    BY <2>1, ProductIn
<1>3. inv' \in [Index -> Zq \cup Hint]
  BY <1>1, <1>2 DEF Suffix, TypeOK
<1>4. TypeOK'
  BY <1>1, <1>3 DEF Suffix, TypeOK, Control
<1>5. /\ inv'[i - 1] = Mul(inv[i], s2[i])
      /\ \A k \in i .. n - 1 : inv'[k] = inv[k]
  BY <1>1 DEF Suffix, TypeOK, Index
<1>6. ASSUME NEW k \in i .. n - 1
      PROVE  inv'[k - 1] = Mul(inv'[k], s2'[k])
  <2>1. CASE k = i
    BY <1>1, <1>5, <2>1 DEF Suffix
  <2>2. CASE k > i
    BY <1>1, <1>5, <2>2 DEF SuffixFrom, Suffix
  <2>3. QED
    BY <1>1, <2>1, <2>2
<1>7. inv'[n - 1] = hint'
  BY <1>1, <1>5 DEF Suffix
<1>8. PrefixUpTo(n - 1)'
  BY <1>1 DEF PrefixUpTo, Suffix
<1>9. CASE i = 1
  <2>1. i' = 1 /\ pc' = "combine"
    BY <1>9 DEF Suffix
  <2>2. SuffixFrom(i + 1)'
    BY <1>6, <1>9, <2>1 DEF SuffixFrom
  <2>3. Mul(Mul(s2[0], s2[1]), inv[1]) = Mul(s2[0], Mul(inv[1], s2[1]))
    BY <1>1, Places, MoveOut
  <2>4. prefix[1] = Mul(s2[0], s2[1])
    BY <1>1 DEF PrefixUpTo
  <2>5. Mul(prefix[i], inv[i])' = Whole'
    BY <1>5, <1>9, <2>1, <2>3, <2>4 DEF Whole, Suffix
  <2>6. WholeUpTo(i - 1)'
    BY <2>1 DEF WholeUpTo, Whole
  <2>7. i' \in 1 .. n - 1
    BY <2>1
  <2>8. QED
    BY <1>4, <1>7, <1>8, <2>1, <2>2, <2>5, <2>6, <2>7
       DEF IInv, InverseChecked, KeyFits, RefusedIsWrong
<1>10. CASE i # 1
  <2>1. i' = i - 1 /\ i' \in 1 .. n - 1 /\ pc' = "suffix"
    BY <1>1, <1>10 DEF Suffix
  <2>2. SuffixFrom(i + 1)'
    BY <1>1, <1>6, <2>1 DEF SuffixFrom
  <2>3. QED
    BY <1>4, <1>7, <1>8, <2>1, <2>2
       DEF IInv, InverseChecked, KeyFits, RefusedIsWrong
<1>11. QED
  BY <1>9, <1>10

(***************************************************************************)
(* The two meet: place i now holds what, times s2[i], makes the whole.      *)
(***************************************************************************)
LEMMA CombineStep ==
  ASSUME IInv, Combine
  PROVE  IInv'
<1> USE EpervierAssumption
<1>1. /\ i \in 1 .. n - 1 /\ PrefixUpTo(n - 1) /\ SuffixFrom(i + 1)
      /\ WholeUpTo(i - 1) /\ Mul(prefix[i], inv[i]) = Whole
      /\ inv[n - 1] = hint /\ TypeOK
  BY DEF Combine, IInv
<1>2. Mul(prefix[i - 1], inv[i]) \in Zq
  <2>1. prefix[i - 1] \in Zq \cup Hint /\ inv[i] \in Zq \cup Hint
    BY <1>1, Places
  <2>2. QED
    BY <2>1, ProductIn
<1>3. inv' \in [Index -> Zq \cup Hint]
  BY <1>1, <1>2 DEF Combine, TypeOK
<1>4. TypeOK'
  BY <1>1, <1>3 DEF Combine, TypeOK, Control
<1>5. /\ inv'[i] = Mul(prefix[i - 1], inv[i])
      /\ \A k \in 0 .. n - 1 : k # i => inv'[k] = inv[k]
  BY <1>1 DEF Combine, TypeOK, Index
<1>6. Whole' = Whole
  BY <1>1, <1>5 DEF Whole, Combine
<1>7. PrefixUpTo(n - 1)'
  BY <1>1 DEF PrefixUpTo, Combine
<1>8. prefix[i] = Mul(prefix[i - 1], s2[i])
  BY <1>1 DEF PrefixUpTo
<1>9. Mul(s2[i], inv'[i]) = Whole
  <2>1. Mul(s2[i], Mul(prefix[i - 1], inv[i])) = Mul(Mul(prefix[i - 1], s2[i]), inv[i])
    BY <1>1, Places, MoveIn
  <2>2. QED
    BY <1>1, <1>5, <1>8, <2>1
<1>10. ASSUME NEW k \in 0 .. i
       PROVE  Mul(s2'[k], inv'[k]) = Whole'
  <2>1. CASE k = i
    BY <1>6, <1>9, <2>1 DEF Combine
  <2>2. CASE k # i
    BY <1>1, <1>5, <1>6, <2>2 DEF WholeUpTo, Combine
  <2>3. QED
    BY <2>1, <2>2
<1>11. CASE i = n - 1
  <2>1. pc' = "check" /\ i' = 0 /\ norm' = 0
    BY <1>11 DEF Combine
  <2>2. WholeUpTo(n - 1)'
    BY <1>10, <1>11 DEF WholeUpTo
  <2>3. Whole' \in Zq
    <3>1. Mul(s2[0], inv[0]) \in Zq
      <4>1. s2[0] \in Zq \cup Hint /\ inv[0] \in Zq \cup Hint
        BY <1>1, Places
      <4>2. QED
        BY <4>1, ProductIn
    <3>2. QED
      BY <1>6, <3>1 DEF Whole
  <2>4. norm' = Times(i', 1 - Whole')
    BY <2>1, <2>3, TimesNone DEF Zq
  <2>5. Whole' = Mul(prefix[n - 1], hint)'
    BY <1>1, <1>6, <1>11 DEF Combine
  <2>6. QED
    BY <1>4, <1>7, <2>1, <2>2, <2>4, <2>5
       DEF IInv, InverseChecked, KeyFits, RefusedIsWrong
<1>12. CASE i # n - 1
  <2>1. pc' = "combine" /\ i' = i + 1 /\ i' \in 1 .. n - 1
    BY <1>1, <1>12 DEF Combine
  <2>2. SuffixFrom(i + 1)'
    BY <1>1, <1>5, <2>1 DEF SuffixFrom, Combine
  <2>3. WholeUpTo(i - 1)'
    BY <1>1, <1>10, <2>1 DEF WholeUpTo
  <2>4. Mul(prefix[i], inv[i])' = Whole'
    <3>1. Mul(Mul(prefix[i], s2[i + 1]), inv[i + 1])
            = Mul(prefix[i], Mul(inv[i + 1], s2[i + 1]))
      BY <1>1, <1>12, Places, MoveOut
    <3>2. prefix[i + 1] = Mul(prefix[i], s2[i + 1])
      BY <1>1, <1>12 DEF PrefixUpTo
    <3>3. inv[i] = Mul(inv[i + 1], s2[i + 1])
      BY <1>1, <1>12 DEF SuffixFrom
    <3>4. inv'[i + 1] = inv[i + 1] /\ prefix' = prefix
      BY <1>1, <1>5, <1>12 DEF Combine
    <3>5. QED
      BY <1>1, <1>6, <2>1, <3>1, <3>2, <3>3, <3>4
  <2>5. inv'[n - 1] = hint'
    BY <1>1, <1>5, <1>12 DEF Combine
  <2>6. QED
    BY <1>4, <1>7, <2>1, <2>2, <2>3, <2>4, <2>5
       DEF IInv, InverseChecked, KeyFits, RefusedIsWrong
<1>13. QED
  BY <1>11, <1>12

(***************************************************************************)
(* The check adds the same term again.                                      *)
(***************************************************************************)
LEMMA CheckStep ==
  ASSUME IInv, Check
  PROVE  IInv'
<1> USE EpervierAssumption
<1>1. /\ PrefixUpTo(n - 1) /\ WholeUpTo(n - 1) /\ norm = Times(i, 1 - Whole)
      /\ Whole = Mul(prefix[n - 1], hint) /\ TypeOK /\ i < n /\ i \in Nat
  BY DEF Check, IInv, TypeOK
<1>2. Mul(s2[i], inv[i]) = Whole
  BY <1>1 DEF WholeUpTo
<1>3. Mul(s2[0], inv[0]) \in Zq
  <2>1. s2[0] \in Zq \cup Hint /\ inv[0] \in Zq \cup Hint
    BY <1>1, Places
  <2>2. QED
    BY <2>1, ProductIn
<1>4. 1 - Whole \in Int
  BY <1>3 DEF Whole, Zq
<1>5. norm' = Times(i', 1 - Whole')
  <2>1. Times(i + 1, 1 - Whole) = Times(i, 1 - Whole) + (1 - Whole)
    BY <1>1, <1>4, TimesNext
  <2>2. Whole' = Whole
    BY DEF Whole, Check
  <2>3. QED
    BY <1>1, <1>2, <2>1, <2>2 DEF Check
<1>6. norm' \in Int /\ i' \in 0 .. n
  BY <1>1, <1>2, <1>4 DEF Check, TypeOK
<1>7. TypeOK'
  BY <1>1, <1>6 DEF Check, TypeOK
<1>8. PrefixUpTo(n - 1)' /\ WholeUpTo(n - 1)' /\ Whole' = Mul(prefix[n - 1], hint)'
  BY <1>1 DEF PrefixUpTo, WholeUpTo, Whole, Check
<1>9. QED
  BY <1>5, <1>7, <1>8
     DEF Check, IInv, InverseChecked, KeyFits, RefusedIsWrong

(***************************************************************************)
(* The sum decides: it is 0 exactly if the one product they all are is 1.   *)
(***************************************************************************)
LEMMA WrongHintStep ==
  ASSUME IInv, WrongHint
  PROVE  IInv'
<1> USE EpervierAssumption
<1>1. /\ PrefixUpTo(n - 1) /\ norm = Times(n, 1 - Whole) /\ norm # 0
      /\ Whole = Mul(prefix[n - 1], hint) /\ TypeOK
  BY DEF WrongHint, IInv
<1>2. Whole # 1
  <2>1. SUFFICES ASSUME Whole = 1 PROVE FALSE
    OBVIOUS
  <2>2. norm = Times(n, 0)
    BY <1>1, <2>1
  <2>3. QED
    BY <1>1, <2>2, TimesOfZero
<1>3. TypeOK'
  BY <1>1 DEF WrongHint, TypeOK, Control
<1>4. PrefixUpTo(n - 1)' /\ (Mul(prefix[n - 1], hint) # 1)'
  BY <1>1, <1>2 DEF PrefixUpTo, WrongHint
<1>5. QED
  BY <1>3, <1>4 DEF WrongHint, IInv, InverseChecked, KeyFits, RefusedIsWrong

LEMMA RecoverStep ==
  ASSUME IInv, Recover
  PROVE  IInv'
<1> USE EpervierAssumption
<1> DEFINE d == NTT(Minus(given.hashed, given.s1))
<1>1. /\ WholeUpTo(n - 1) /\ Times(n, 1 - Whole) = 0 /\ TypeOK
  BY DEF Recover, IInv
<1>2. Mul(s2[0], inv[0]) \in Zq
  <2>1. s2[0] \in Zq \cup Hint /\ inv[0] \in Zq \cup Hint
    BY <1>1, Places
  <2>2. QED
    BY <2>1, ProductIn
<1>3. Whole = 1
  <2>1. Whole \in Int /\ 1 - Whole \in Int
    BY <1>2 DEF Whole, Zq
  <2>2. 1 - Whole = 0
    <3>1. n \in Nat \ {0}
      OBVIOUS
    <3>2. QED
      BY <1>1, <2>1, <3>1, TimesVanishes
  <2>3. QED
    BY <2>1, <2>2
<1>4. \A k \in Index : Mul(s2[k], inv[k]) = 1
  BY <1>1, <1>3 DEF WholeUpTo, Index
<1>5. d \in Poly
  BY <1>1, NTTAssumption DEF TypeOK
<1>6. key' = [k \in Index |-> Mul(d[k], inv[k])]
  BY DEF Recover
<1> HIDE DEF d
<1>7. ASSUME NEW k \in Index
      PROVE  /\ key'[k] \in Zq
             /\ Mul(key'[k], s2[k]) = d[k]
  <2>1. d[k] \in Zq /\ inv[k] \in Zq \cup Hint /\ s2[k] \in Zq \cup Hint
    BY <1>1, <1>5, <1>7, Places DEF Poly, Index
  <2>2. key'[k] = Mul(d[k], inv[k])
    BY <1>6, <1>7
  <2>3. Mul(d[k], inv[k]) \in Zq
    BY <2>1, MulAssumption
  <2>4. Mul(Mul(d[k], inv[k]), s2[k]) = Mul(d[k], Mul(s2[k], inv[k]))
    BY <2>1, MoveOut
  <2>5. Mul(d[k], 1) = d[k]
    BY <2>1, MulAssumption
  <2>6. QED
    BY <1>4, <1>7, <2>2, <2>3, <2>4, <2>5
<1>8. key' \in Poly
  BY <1>6, <1>7 DEF Poly
<1>9. TypeOK'
  BY <1>1, <1>8 DEF Recover, TypeOK, Control
<1>10. InverseChecked'
  BY <1>4 DEF InverseChecked, Recover
<1>11. KeyFits'
  BY <1>7 DEF KeyFits, Recover, d
<1>12. QED
  BY <1>9, <1>10, <1>11 DEF Recover, IInv, RefusedIsWrong

LEMMA Stutter == ASSUME IInv, UNCHANGED vars PROVE IInv'
BY DEF vars, IInv, TypeOK, PrefixUpTo, SuffixFrom, WholeUpTo, Whole,
       InverseChecked, KeyFits, RefusedIsWrong

(***************************************************************************)
(* The inductive invariant is one.                                          *)
(***************************************************************************)
THEOREM Invariance == Spec => []IInv
<1>1. IInv /\ [Next]_vars => IInv'
  BY NormStep, TransformStep, PrefixStep, SuffixStep, CombineStep, CheckStep,
     WrongHintStep, RecoverStep, Stutter DEF Next
<1>2. QED
  BY InitIInv, <1>1, PTL DEF Spec

(***************************************************************************)
(* The sum that ZKNOX_ethepervier.sol compares with 0 stands for n          *)
(* comparisons: when recover() returns, s2_inverse_ntt is the inverse of    *)
(* ntt(s2), coefficient by coefficient.                                     *)
(***************************************************************************)
THEOREM OneSumIsEnough == Spec => []InverseChecked
BY Invariance, PTL DEF IInv

(***************************************************************************)
(* The key recover() hashes to the address is one under which the signature *)
(* fits the message: key * s2 = hashed - s1 in the NTT domain.              *)
(***************************************************************************)
THEOREM RecoveredKeyFits == Spec => []KeyFits
BY Invariance, PTL DEF IInv

(***************************************************************************)
(* A hint is refused only if it is not the inverse of the product of the    *)
(* coefficients of ntt(s2), whatever else the signature is.                 *)
(***************************************************************************)
THEOREM OnlyWrongHintsRefused == Spec => []RefusedIsWrong
BY Invariance, PTL DEF IInv

(***************************************************************************)
(* The forward products are what Product stands for: they solve its         *)
(* recursion, so the function it chooses exists, and two solutions cannot   *)
(* first differ anywhere.                                                   *)
(***************************************************************************)
Solves(p, f) == p = [k \in 0 .. n |-> IF k = 0 THEN 1 ELSE Mul(p[k - 1], f[k - 1])]

(* Every set of numbers has a least one: what stands in for induction.      *)
Less == {w \in Nat \X Nat : w[1] < w[2]}

LEMMA Least ==
  ASSUME NEW T, T \subseteq Nat, T # {}
  PROVE  \E k \in T : \A l \in T : k <= l
<1>1. IsWellFoundedOn(Less, Nat)
  BY NatLessThanWellFounded DEF OpToRel, Less
<1>2. PICK k \in T : \A l \in T : ~ (<<l, k>> \in Less)
  BY <1>1, WFMin
<1>3. ASSUME NEW l \in T
      PROVE  k <= l
  <2>1. k \in Nat /\ l \in Nat /\ ~ (<<l, k>> \in Less)
    BY <1>2
  <2>2. ~ (l < k)
    BY <2>1 DEF Less
  <2>3. QED
    BY <2>1, <2>2
<1>4. QED
  BY <1>2, <1>3

LEMMA SolutionsAgree ==
  ASSUME NEW p, NEW r, NEW f, Solves(p, f), Solves(r, f)
  PROVE  \A k \in 0 .. n : p[k] = r[k]
<1> DEFINE Differ == {k \in 0 .. n : p[k] # r[k]}
<1>1. SUFFICES ASSUME Differ # {} PROVE FALSE
  OBVIOUS
<1>2. n \in Nat
  BY EpervierAssumption
<1>3. PICK k \in Differ : \A l \in Differ : k <= l
  <2>1. Differ \subseteq Nat
    BY <1>2
  <2>2. QED
    BY <1>1, <2>1, Least
<1>4. k \in 0 .. n /\ p[k] # r[k]
  BY <1>3
<1>5. k # 0
  BY <1>2, <1>4 DEF Solves
<1>6. k - 1 \in 0 .. n /\ ~ (k <= k - 1)
  BY <1>2, <1>4, <1>5
<1>7. p[k - 1] = r[k - 1]
  BY <1>3, <1>6
<1>8. p[k] = Mul(p[k - 1], f[k - 1]) /\ r[k] = Mul(r[k - 1], f[k - 1])
  BY <1>4, <1>5 DEF Solves
<1>9. QED
  BY <1>4, <1>7, <1>8

LEMMA ProductIsLastPrefix ==
  ASSUME TypeOK, PrefixUpTo(n - 1)
  PROVE  Product(s2) = prefix[n - 1]
<1> DEFINE chain == [k \in 0 .. n |-> IF k = 0 THEN 1 ELSE prefix[k - 1]]
           chosen == CHOOSE p : Solves(p, s2)
<1>1. n \in Nat /\ n > 1
  BY EpervierAssumption
<1>2. Solves(chain, s2)
  <2>1. ASSUME NEW k \in 0 .. n, k # 0
        PROVE  prefix[k - 1] = Mul(chain[k - 1], s2[k - 1])
    <3>1. CASE k = 1
      <4>1. chain[0] = 1 /\ prefix[0] = s2[0]
        BY <1>1 DEF PrefixUpTo
      <4>2. s2[0] \in Zq /\ 1 \in Zq \cup Hint
        BY <1>1, EpervierAssumption DEF TypeOK, Poly, Index, Zq
      <4>3. Mul(1, s2[0]) = s2[0]
        <5>1. Mul(1, s2[0]) = Mul(s2[0], 1)
          BY <4>2, MulAssumption
        <5>2. QED
          BY <4>2, <5>1, MulAssumption
      <4>4. QED
        BY <3>1, <4>1, <4>3
    <3>2. CASE k # 1
      <4>1. k - 1 \in 1 .. n - 1 /\ k - 1 \in 0 .. n /\ k - 1 # 0
        BY <1>1, <2>1, <3>2
      <4>2. chain[k - 1] = prefix[(k - 1) - 1]
        BY <4>1
      <4>3. QED
        BY <4>1, <4>2 DEF PrefixUpTo
    <3>3. QED
      BY <3>1, <3>2
  <2>2. QED
    BY <2>1, Zenon DEF Solves
<1>3. Solves(chosen, s2)
  BY <1>2
<1>4. chosen[n] = chain[n]
  BY <1>1, <1>2, <1>3, SolutionsAgree
<1>5. Product(s2) = chosen[n]
  BY Zenon DEF Product, Solves
<1>6. chain[n] = prefix[n - 1]
  BY <1>1
<1>7. QED
  BY <1>4, <1>5, <1>6

(***************************************************************************)
(* From the transform on, the array holds ntt(s2).                          *)
(***************************************************************************)
Transformed ==
  pc \in Control \ {"norm", "reverted"} \/ (pc = "reverted" /\ i = n) => s2 = NTT(given.s2)

LEMMA TransformedKept ==
  ASSUME TypeOK, Transformed, pc = "norm" => i < n, [Next]_vars
  PROVE  Transformed'
<1> USE EpervierAssumption DEF Transformed, Control
<1>1. CASE SumNorm
  BY <1>1 DEF SumNorm
<1>2. CASE NormTooLarge
  <2>1. i' # n /\ pc' = "reverted"
    BY <1>2 DEF NormTooLarge
  <2>2. QED
    BY <2>1
<1>3. CASE Transform
  BY <1>3 DEF Transform
<1>4. CASE Prefix
  BY <1>4 DEF Prefix
<1>5. CASE Suffix
  BY <1>5 DEF Suffix
<1>6. CASE Combine
  BY <1>6 DEF Combine
<1>7. CASE Check
  BY <1>7 DEF Check
<1>8. CASE WrongHint \/ Recover
  BY <1>8 DEF WrongHint, Recover
<1>9. CASE UNCHANGED vars
  BY <1>9 DEF vars
<1>10. QED
  BY <1>1, <1>2, <1>3, <1>4, <1>5, <1>6, <1>7, <1>8, <1>9 DEF Next

(***************************************************************************)
(* A hint that is the inverse of the product of all coefficients of ntt(s2) *)
(* is accepted, once the norm is: however many coefficients there are.      *)
(***************************************************************************)
THEOREM RightHintAlways == Spec => []RightHintRecovers
<1>1. Init => Transformed
  BY DEF Init, Transformed, Control
<1>2. IInv /\ Transformed /\ [Next]_vars => Transformed'
  BY TransformedKept DEF IInv
<1>3. IInv /\ Transformed => RightHintRecovers
  <2>1. SUFFICES ASSUME IInv, Transformed, pc = "reverted", i = n
                 PROVE  Mul(Product(NTT(given.s2)), hint) # 1
    BY DEF RightHintRecovers
  <2>2. TypeOK /\ PrefixUpTo(n - 1) /\ Mul(prefix[n - 1], hint) # 1
    BY <2>1 DEF IInv, RefusedIsWrong
  <2>3. s2 = NTT(given.s2)
    BY <2>1 DEF Transformed
  <2>4. Product(s2) = prefix[n - 1]
    BY <2>2, ProductIsLastPrefix
  <2>5. QED
    BY <2>2, <2>3, <2>4
<1>4. Spec => []Transformed
  BY Invariance, <1>1, <1>2, PTL DEF Spec
<1>5. QED
  BY Invariance, <1>3, <1>4, PTL


(***************************************************************************)
(* falcon_normalize over raw memory                                         *)
(***************************************************************************)

(* Where the arrays are; the words of compacted coefficients fill theirs.   *)
LEMMA Layout ==
  \E w \in Nat :
    /\ w = n \div PACK /\ w * PACK = n
    /\ Core!s2 = FREE /\ Core!hashed = FREE + 1 + w /\ Core!s1 = FREE + 2 + w + n
<1>1. n \in Nat /\ PACK \in Nat \ {0} /\ n % PACK = 0 /\ FREE \in Nat
  BY CoreAssumption DEF Core!NormalizeAssumption
<1>2. PICK w \in Int : w = n \div PACK
  BY <1>1
<1>3. n = PACK * w
  BY <1>1, <1>2
<1>4. w \in Nat
  <2>1. ASSUME w < 0 PROVE FALSE
    <3>1. PACK * w < 0
      BY <1>1, <1>2, <2>1
    <3>2. QED
      BY <1>1, <1>3, <3>1
  <2>2. QED
    BY <1>2, <2>1
<1>5. w * PACK = PACK * w
  BY <1>1, <1>4
<1>6. QED
  BY <1>1, <1>2, <1>3, <1>4, <1>5 DEF Core!s2, Core!hashed, Core!s1

(* What is left when a multiple is taken off.                               *)
LEMMA Remainder ==
  ASSUME NEW a \in Int, NEW k \in Int, NEW r \in 0 .. q - 1, NEW p \in Int, p = q * k, a = p + r
  PROVE  a % q = r
<1>1. q \in Nat /\ q > 0
  BY EpervierAssumption
<1>2. PICK d \in Int, m \in Int : d = a \div q /\ m = a % q
  BY <1>1
<1>3. a = q * d + m /\ 0 <= m /\ m < q
  BY <1>1, <1>2
<1>4. q * (d - k) = r - m
  <2>1. q * (d - k) = q * d - q * k
    BY <1>1
  <2>2. QED
    BY <1>1, <1>3, <2>1
<1>5. PICK e \in Int : e = d - k
  OBVIOUS
<1>6. q * e = r - m /\ r - m < q /\ - q < r - m
  BY <1>1, <1>3, <1>4, <1>5
<1>7. e = 0
  <2>1. ASSUME e >= 1 PROVE FALSE
    <3>1. q * e >= q
      BY <1>1, <2>1
    <3>2. QED
      BY <1>1, <1>2, <1>6, <3>1
  <2>2. ASSUME e <= -1 PROVE FALSE
    <3>1. q * e <= - q
      BY <1>1, <2>2
    <3>2. QED
      BY <1>1, <1>2, <1>6, <3>1
  <2>3. QED
    BY <2>1, <2>2
<1>8. q * e = 0
  BY <1>1, <1>7
<1>9. QED
  BY <1>2, <1>6, <1>8

LEMMA SameSquare == ASSUME NEW d \in Int PROVE (0 - d) * (0 - d) = d * d
OBVIOUS

(* The square the contract takes is that of the representative nearest to   *)
(* 0 of the difference.                                                     *)
LEMMA SquareIsNorm ==
  ASSUME NEW x \in 0 .. q - 1, NEW y \in 0 .. q - 1
  PROVE  Core!Square((x + (q - y)) % q) = Core!Norm2(x - y)
<1>1. q \in Nat /\ q > 1
  BY EpervierAssumption
<1>2. PICK c \in 0 .. q - 1 : c = (x - y) % q /\ c = (x + (q - y)) % q
  <2>1. CASE x >= y
    <3>1. q * 0 = 0 /\ q * 1 = q /\ x - y \in 0 .. q - 1
      BY <1>1, <2>1
    <3>2. (x - y) % q = x - y
      BY <3>1, Remainder
    <3>3. (x + (q - y)) % q = x - y
      BY <1>1, <3>1, Remainder
    <3>4. QED
      BY <3>1, <3>2, <3>3
  <2>2. CASE x < y
    <3>1. q * 0 = 0 /\ q * (-1) = - q /\ x - y + q \in 0 .. q - 1
      BY <1>1, <2>2
    <3>2. (x - y) % q = x - y + q
      BY <1>1, <3>1, Remainder
    <3>3. (x + (q - y)) % q = x - y + q
      BY <1>1, <3>1, Remainder
    <3>4. QED
      BY <3>1, <3>2, <3>3
  <2>3. QED
    BY <2>1, <2>2
<1>3. PICK h \in Int : h = q \div 2
  BY <1>1
<1>4. q = 2 * h \/ q = 2 * h + 1
  BY <1>1, <1>3
<1>5. PICK d \in Int : d = IF 2 * c < q THEN c ELSE c - q
  BY <1>1
<1>6. PICK e \in Int : e = IF c > h THEN q - c ELSE c
  <2>1. q - c \in Int /\ c \in Int
    BY <1>1
  <2>2. (IF c > h THEN q - c ELSE c) \in Int
    BY <2>1, Zenon
  <2>3. QED
    BY <2>2, Zenon
<1>7. Core!Norm2(x - y) = d * d
  <2>1. Core!Centered(x - y) = d
    BY <1>1, <1>2, <1>5 DEF Core!Centered
  <2>2. QED
    BY <2>1, Zenon DEF Core!Norm2
<1>8. Core!Square(c) = e * e
  <2>1. Core!Square(c) = (IF c > h THEN q - c ELSE c) * (IF c > h THEN q - c ELSE c)
    BY <1>3, Zenon DEF Core!Square
  <2>2. QED
    BY <1>6, <2>1, Zenon
<1>9. e = d \/ e = 0 - d
  BY <1>1, <1>3, <1>4, <1>5, <1>6
<1>10. (0 - d) * (0 - d) = d * d
  BY <1>5, SameSquare, Zenon
<1>11. e * e = d * d
  BY <1>9, <1>10, Zenon
<1>12. QED
  BY <1>2, <1>7, <1>8, <1>11, Zenon

LEMMA NormIsNat == ASSUME NEW c \in Int PROVE Core!Norm2(c) \in Nat
<1>1. q \in Nat /\ q > 1
  BY EpervierAssumption
<1>2. PICK d \in Int : d = Core!Centered(c)
  BY <1>1 DEF Core!Centered
<1>3. d * d \in Nat
  BY <1>2
<1>4. QED
  BY <1>2, <1>3 DEF Core!Norm2

LEMMA TimesOrdered ==
  ASSUME NEW o \in Nat, NEW w \in Nat, o + 1 <= w, PACK \in Nat \ {0}
  PROVE  /\ o * PACK \in Nat /\ (o + 1) * PACK = o * PACK + PACK
         /\ (o + 1) * PACK <= w * PACK
<1>1. PICK d \in Nat : w = (o + 1) + d
  OBVIOUS
<1>2. d * PACK \in Nat /\ o * PACK \in Nat
  OBVIOUS
<1>3. (o + 1) * PACK = o * PACK + PACK
  OBVIOUS
<1>4. w * PACK = (o + 1) * PACK + d * PACK
  BY <1>1
<1>5. QED
  BY <1>2, <1>3, <1>4

(* The partial sums of f, up to k of its values.                            *)
Sums(s, f, k) == s = [j \in 0 .. k |-> IF j = 0 THEN 0 ELSE s[j - 1] + f[j - 1]]

LEMMA SumsExtend ==
  ASSUME NEW k \in Nat, NEW f, NEW s, Sums(s, f, k)
  PROVE  \E t : Sums(t, f, k + 1) /\ t[k + 1] = s[k] + f[k]
<1> DEFINE t == [j \in 0 .. k + 1 |-> IF j = k + 1 THEN s[k] + f[k] ELSE s[j]]
<1>1. ASSUME NEW j \in 0 .. k + 1
      PROVE  t[j] = IF j = 0 THEN 0 ELSE t[j - 1] + f[j - 1]
  <2>1. CASE j = k + 1
    <3>1. j # 0 /\ j - 1 = k /\ k \in 0 .. k + 1 /\ k # k + 1
      BY <2>1
    <3>2. QED
      BY <2>1, <3>1
  <2>2. CASE j # k + 1
    <3>1. j \in 0 .. k /\ t[j] = s[j]
      BY <2>2
    <3>2. j # 0 => j - 1 \in 0 .. k + 1 /\ j - 1 # k + 1
      BY <3>1
    <3>3. QED
      BY <3>1, <3>2 DEF Sums
  <2>3. QED
    BY <2>1, <2>2
<1>2. Sums(t, f, k + 1)
  BY <1>1, Zenon DEF Sums
<1>3. t[k + 1] = s[k] + f[k]
  OBVIOUS
<1>4. QED
  BY <1>2, <1>3

LEMMA SumsExist == ASSUME NEW k \in Nat, NEW f PROVE \E s : Sums(s, f, k)
<1> DEFINE None == {j \in Nat : ~ \E s : Sums(s, f, j)}
<1>1. SUFFICES ASSUME None # {} PROVE FALSE
  OBVIOUS
<1>2. PICK j \in None : \A l \in None : j <= l
  <2>1. None \subseteq Nat
    OBVIOUS
  <2>2. QED
    BY <1>1, <2>1, Least
<1>3. j # 0
  <2>1. Sums([l \in 0 .. 0 |-> 0], f, 0)
    <3>1. \A l \in 0 .. 0 : l = 0
      OBVIOUS
    <3>2. QED
      BY <3>1 DEF Sums
  <2>2. QED
    BY <1>2, <2>1
<1>4. PICK l \in Nat : j = l + 1
  BY <1>2, <1>3
<1>5. PICK s : Sums(s, f, l)
  BY <1>2, <1>4
<1>6. \E t : Sums(t, f, l + 1)
  BY <1>5, SumsExtend
<1>7. QED
  BY <1>2, <1>4, <1>6

LEMMA SumOverIs ==
  ASSUME NEW k \in Nat, NEW f
  PROVE  \E s : Sums(s, f, k) /\ Core!SumOver(f, k) = s[k]
<1> DEFINE s == CHOOSE s : Sums(s, f, k)
<1>1. Sums(s, f, k)
  BY SumsExist
<1>2. Core!SumOver(f, k) = s[k]
  BY Zenon DEF Core!SumOver, Sums
<1>3. QED
  BY <1>1, <1>2

(* Of two functions, that with the larger values has the larger sums.       *)
LEMMA SumsOrdered ==
  ASSUME NEW k \in Nat, NEW m \in Nat, k <= m, NEW f, NEW g, NEW s, NEW t,
         Sums(s, f, k), Sums(t, g, m),
         \A j \in 0 .. k - 1 : f[j] \in Nat /\ g[j] \in Nat /\ f[j] <= g[j]
  PROVE  s[k] \in Nat /\ t[k] \in Nat /\ s[k] <= t[k]
<1> DEFINE Fits(j) == s[j] \in Nat /\ t[j] \in Nat /\ s[j] <= t[j]
           Bad == {j \in 0 .. k : ~ Fits(j)}
<1>1. SUFFICES ASSUME Bad # {} PROVE FALSE
  <2>1. Bad = {} => Fits(k)
    <3>1. k \in 0 .. k
      OBVIOUS
    <3>2. QED
      BY <3>1
  <2>2. QED
    BY <2>1
<1>2. PICK j \in Bad : \A l \in Bad : j <= l
  <2>1. Bad \subseteq Nat
    OBVIOUS
  <2>2. QED
    BY <1>1, <2>1, Least
<1>3. j \in 0 .. k /\ ~ Fits(j)
  BY <1>2
<1>4. j # 0
  <2>1. s[0] = 0 /\ t[0] = 0
    BY DEF Sums
  <2>2. QED
    BY <1>3, <2>1
<1>5. j - 1 \in 0 .. k - 1 /\ j - 1 \in 0 .. k /\ ~ (j <= j - 1)
  BY <1>3, <1>4
<1>6. Fits(j - 1)
  BY <1>2, <1>5
<1>7. s[j] = s[j - 1] + f[j - 1] /\ t[j] = t[j - 1] + g[j - 1]
  BY <1>3, <1>4 DEF Sums
<1>8. QED
  BY <1>3, <1>5, <1>6, <1>7

(* What each coefficient of s1 counts.                                      *)
Counts == [j \in 0 .. n - 1 |-> Core!Norm2(givenN.hashed[j] - givenN.s1[j])]

Begun == givenN \in [s1 : Core!Poly, s2 : Core!Poly, hashed : Core!Poly]

(* The sum over the first k coefficients of s1.                             *)
Summed(k) == \E s : Sums(s, Counts, k) /\ normN = s[k]

(* Memory is as it was loaded up to the length of s1, and the first k       *)
(* coefficients of s1 are those of s2.                                      *)
Kept == \A a \in Core!Address : a <= Core!s1 => mem[a] = Core!Loaded(givenN)[a]

Copied(k) == \A j \in 0 .. k - 1 : mem[Core!s1 + 1 + j] = givenN.s2[j]

(* The inductive invariant: the first loop leaves out the last coefficient, *)
(* the third begins behind its end.                                         *)
Normalizing ==
  /\ Begun
  /\ Kept
  /\ pcN \in {"hashed", "expand", "squares", "done"}
  /\ pcN = "hashed" =>
       offset \in 1 .. n /\ mem = Core!Loaded(givenN) /\ Summed(offset - 1)
  /\ pcN = "expand" =>
       offset \in 0 .. n \div PACK /\ Copied(offset * PACK) /\ Summed(n - 1)
  /\ pcN \in {"squares", "done"} => Copied(n) /\ Summed(n - 1)
  /\ pcN = "squares" => offset = Core!s1 + 1
  /\ pcN = "done" => result = (sigBound > normN)

LEMMA BegunTypes ==
  ASSUME Begun, NEW j \in 0 .. n - 1
  PROVE  /\ givenN.s1[j] \in 0 .. q - 1 /\ givenN.s2[j] \in 0 .. q - 1
         /\ givenN.hashed[j] \in 0 .. q - 1
<1>1. Coef \subseteq 0 .. q - 1
  BY CoreAssumption DEF Core!NormalizeAssumption
<1>2. QED
  BY <1>1 DEF Begun, Core!Poly

LEMMA NormalizeStarts == ASSUME Core!Init PROVE Normalizing
<1>1. n \in Nat /\ n > 1
  BY EpervierAssumption
<1>2. Begun /\ mem = Core!Loaded(givenN) /\ pcN = "hashed" /\ offset = 1 /\ normN = 0
  BY DEF Core!Init, Begun
<1>3. Summed(0)
  <2>1. PICK s : Sums(s, Counts, 0)
    BY SumsExist
  <2>2. s[0] = 0
    BY <2>1 DEF Sums
  <2>3. QED
    BY <1>2, <2>1, <2>2 DEF Summed
<1>4. offset - 1 = 0 /\ offset \in 1 .. n
  BY <1>1, <1>2
<1>5. Summed(offset - 1)
  BY <1>3, <1>4, Zenon
<1>6. QED
  BY <1>2, <1>4, <1>5 DEF Normalizing, Kept

LEMMA SumHashedSums ==
  ASSUME Normalizing, Core!SumHashed, n > offset
  PROVE  Normalizing'
<1>1. n \in Nat /\ n > 1 /\ q \in Nat
  BY EpervierAssumption
<1>2. /\ pcN = "hashed" /\ Begun /\ offset \in 1 .. n /\ mem = Core!Loaded(givenN)
      /\ Summed(offset - 1)
  BY DEF Normalizing, Core!SumHashed
<1>3. /\ offset' = offset + 1 /\ pcN' = pcN /\ mem' = mem /\ givenN' = givenN
      /\ normN' = normN + Core!Square((mem[Core!hashed + offset]
                                         + (q - mem[Core!s1 + offset])) % q)
  BY <1>2 DEF Core!SumHashed
<1>4. PICK k \in 0 .. n - 1 : k = offset - 1 /\ k + 1 = offset
  BY <1>1, <1>2
<1>5. /\ mem[Core!hashed + offset] = givenN.hashed[k]
      /\ mem[Core!s1 + offset] = givenN.s1[k]
  <2>1. PICK w \in Nat : /\ Core!s2 = FREE /\ Core!hashed = FREE + 1 + w
                         /\ Core!s1 = FREE + 2 + w + n
    BY Layout
  <2>2. FREE \in Nat
    BY CoreAssumption DEF Core!NormalizeAssumption
  <2>3. /\ Core!hashed + offset \in Core!Address /\ Core!s1 + offset \in Core!Address
    BY <1>1, <1>2, <2>1, <2>2 DEF Core!Address
  <2>4. mem[Core!hashed + offset] = givenN.hashed[Core!hashed + offset - Core!hashed - 1]
    BY <1>1, <1>2, <2>1, <2>2, <2>3 DEF Core!Loaded
  <2>5. mem[Core!s1 + offset] = givenN.s1[Core!s1 + offset - Core!s1 - 1]
    BY <1>1, <1>2, <2>1, <2>2, <2>3 DEF Core!Loaded
  <2>6. /\ Core!hashed + offset - Core!hashed - 1 = k
        /\ Core!s1 + offset - Core!s1 - 1 = k
    BY <1>1, <1>2, <1>4, <2>1, <2>2
  <2>7. QED
    BY <2>4, <2>5, <2>6
<1>6. normN' = normN + Counts[k]
  <2>1. PICK x \in 0 .. q - 1, y \in 0 .. q - 1 : x = givenN.hashed[k] /\ y = givenN.s1[k]
    BY <1>2, BegunTypes
  <2>2. Core!Square((x + (q - y)) % q) = Core!Norm2(x - y)
    BY SquareIsNorm
  <2>3. normN' = normN + Core!Norm2(x - y)
    BY <1>3, <1>5, <2>1, <2>2, Zenon
  <2>4. Counts[k] = Core!Norm2(x - y)
    BY <1>4, <2>1, Zenon DEF Counts
  <2>5. QED
    BY <2>3, <2>4, Zenon
<1>7. Counts' = Counts
  BY <1>3 DEF Counts
<1>8. Summed(offset - 1)'
  <2>1. PICK s : Sums(s, Counts, k) /\ normN = s[k]
    BY <1>2, <1>4 DEF Summed
  <2>2. PICK t : Sums(t, Counts, k + 1) /\ t[k + 1] = s[k] + Counts[k]
    BY <1>4, <2>1, SumsExtend
  <2>3. offset' - 1 = k + 1
    BY <1>3, <1>4
  <2>4. Sums(t, Counts', offset' - 1) /\ normN' = t[offset' - 1]
    BY <1>6, <1>7, <2>1, <2>2, <2>3, Zenon
  <2>5. QED
    BY <2>4, Zenon DEF Summed, Sums
<1>9. offset' \in 1 .. n
  BY <1>1, <1>2, <1>3
<1>10. QED
  BY <1>2, <1>3, <1>8, <1>9 DEF Normalizing, Begun, Kept

LEMMA SummedKept ==
  ASSUME Summed(n - 1), normN' = normN, givenN' = givenN
  PROVE  Summed(n - 1)'
<1>1. Counts' = Counts
  BY DEF Counts
<1>2. PICK s : Sums(s, Counts, n - 1) /\ normN = s[n - 1]
  BY DEF Summed
<1>3. Sums(s, Counts', n - 1) /\ normN' = s[n - 1]
  BY <1>1, <1>2, Zenon
<1>4. QED
  BY <1>3, Zenon DEF Summed, Sums

LEMMA CopiedKept ==
  ASSUME Copied(n), mem' = mem, givenN' = givenN
  PROVE  Copied(n)'
BY Zenon DEF Copied

LEMMA FirstLoopEnds ==
  ASSUME Normalizing, Core!SumHashed, ~ (n > offset)
  PROVE  Normalizing'
<1>1. n \in Nat /\ n > 1
  BY EpervierAssumption
<1>2. PICK w \in Nat : w = n \div PACK
  BY Layout
<1>3. /\ pcN = "hashed" /\ Begun /\ Kept /\ offset \in 1 .. n /\ Summed(offset - 1)
  BY DEF Normalizing, Core!SumHashed
<1>4. /\ offset' = 0 /\ pcN' = "expand" /\ normN' = normN
      /\ mem' = mem /\ givenN' = givenN
  BY <1>3 DEF Core!SumHashed
<1>5. offset - 1 = n - 1
  BY <1>1, <1>3
<1>6. Summed(n - 1)'
  BY <1>3, <1>4, <1>5, SummedKept
<1>7. 0 * PACK = 0
  BY CoreAssumption DEF Core!NormalizeAssumption
<1>8. Copied(offset * PACK)'
  <2>1. \A j \in Int : ~ (j \in 0 .. 0 - 1)
    OBVIOUS
  <2>2. QED
    BY <1>4, <1>7, <2>1 DEF Copied
<1>9. QED
  BY <1>2, <1>3, <1>4, <1>6, <1>8 DEF Normalizing, Begun, Kept

(* Word k of s2 fills the PACK cells from the first that is not yet filled. *)
LEMMA ExpandCopies ==
  ASSUME Normalizing, Core!Expand, offset < n \div PACK
  PROVE  Normalizing'
<1>1. n \in Nat /\ n > 1 /\ PACK \in Nat \ {0} /\ FREE \in Nat
  BY EpervierAssumption, CoreAssumption DEF Core!NormalizeAssumption
<1>2. PICK w \in Nat : /\ w = n \div PACK /\ w * PACK = n
                       /\ Core!s2 = FREE /\ Core!hashed = FREE + 1 + w
                       /\ Core!s1 = FREE + 2 + w + n
  BY Layout
<1>3. /\ pcN = "expand" /\ Begun /\ Kept /\ offset \in 0 .. w
      /\ Copied(offset * PACK) /\ Summed(n - 1)
  BY <1>2 DEF Normalizing, Core!Expand
<1>4. PICK p \in Nat, r \in Nat :
        /\ p = offset * PACK /\ r = (offset + 1) * PACK
        /\ r = p + PACK /\ r <= n
  <2>1. PICK o \in Nat : o = offset /\ o + 1 <= w
    BY <1>2, <1>3
  <2>2. /\ o * PACK \in Nat /\ (o + 1) * PACK = o * PACK + PACK
        /\ (o + 1) * PACK <= w * PACK
    BY ONLY <2>1, <1>1, o \in Nat, w \in Nat, TimesOrdered
  <2>3. QED
    BY <1>1, <1>2, <2>1, <2>2
<1>5. PICK from \in Nat : from = Core!s1 + 1 + p
  BY <1>1, <1>2
<1>6. /\ offset' = offset + 1 /\ pcN' = pcN /\ normN' = normN /\ givenN' = givenN
      /\ mem' = [a \in Core!Address |->
                   IF a \in from .. from + PACK - 1
                   THEN mem[Core!s2 + 1 + offset][a - from] ELSE mem[a]]
  BY <1>3, <1>4, <1>5, Zenon DEF Core!Expand
<1>7. mem[Core!s2 + 1 + offset] = Core!Compact(givenN.s2, offset)
  <2>1. PICK a \in Core!Address : /\ a = Core!s2 + 1 + offset /\ a <= Core!s1
                                  /\ a # Core!s2 /\ a < Core!hashed
                                  /\ a - Core!s2 - 1 = offset
    BY <1>1, <1>2, <1>3 DEF Core!Address
  <2>2. a # Core!hashed /\ a # Core!s1
    BY <1>1, <1>2, <2>1
  <2>3. Core!Loaded(givenN)[a] = Core!Compact(givenN.s2, offset)
    BY <2>1, <2>2 DEF Core!Loaded
  <2>4. QED
    BY <1>3, <2>1, <2>3 DEF Kept
<1>8. Kept'
  <2>1. ASSUME NEW a \in Core!Address, a <= Core!s1
        PROVE  mem'[a] = mem[a]
    <3>1. ~ (a \in from .. from + PACK - 1)
      BY <1>1, <1>2, <1>5, <2>1 DEF Core!Address
    <3>2. QED
      BY <1>6, <3>1
  <2>2. QED
    BY <1>3, <1>6, <2>1 DEF Kept
<1>9. ASSUME NEW j \in 0 .. r - 1
      PROVE  mem'[Core!s1 + 1 + j] = givenN.s2[j]
  <2>1. PICK a \in Core!Address : a = Core!s1 + 1 + j
    BY <1>1, <1>2, <1>4 DEF Core!Address
  <2>2. CASE j < p
    <3>1. j \in 0 .. p - 1 /\ ~ (a \in from .. from + PACK - 1)
      BY <1>1, <1>2, <1>4, <1>5, <2>1, <2>2
    <3>2. mem'[a] = mem[a]
      BY <1>6, <3>1
    <3>3. mem[a] = givenN.s2[j]
      BY <1>3, <1>4, <2>1, <3>1 DEF Copied
    <3>4. QED
      BY <2>1, <3>2, <3>3
  <2>3. CASE p <= j
    <3>1. PICK k \in 0 .. PACK - 1 : k = a - from /\ p + k = j /\ a \in from .. from + PACK - 1
      BY <1>1, <1>2, <1>4, <1>5, <2>1, <2>3
    <3>2. mem'[a] = mem[Core!s2 + 1 + offset][k]
      BY <1>6, <3>1
    <3>3. Core!Compact(givenN.s2, offset)[k] = givenN.s2[p + k]
      BY <1>4, Zenon DEF Core!Compact
    <3>4. QED
      BY <1>7, <2>1, <3>1, <3>2, <3>3, Zenon
  <2>4. QED
    BY <1>4, <2>2, <2>3
<1>10. Copied(offset * PACK)'
  <2>1. offset' * PACK = r
    BY <1>4, <1>6, Zenon
  <2>2. QED
    BY <1>6, <1>9, <2>1, Zenon DEF Copied, Core!s1, Core!hashed, Core!s2
<1>11. Summed(n - 1)'
  BY <1>3, <1>6, SummedKept
<1>12. offset' \in 0 .. n \div PACK
  BY <1>2, <1>3, <1>6
<1>13. QED
  BY <1>3, <1>6, <1>8, <1>10, <1>11, <1>12 DEF Normalizing, Begun

LEMMA ExpandEnds ==
  ASSUME Normalizing, Core!Expand, ~ (offset < n \div PACK)
  PROVE  Normalizing'
<1>1. PICK w \in Nat : w = n \div PACK /\ w * PACK = n
  BY Layout
<1>2. /\ pcN = "expand" /\ Begun /\ Kept /\ offset \in 0 .. w
      /\ Copied(offset * PACK) /\ Summed(n - 1)
  BY <1>1 DEF Normalizing, Core!Expand
<1>3. /\ offset' = Core!s1 + 1 /\ pcN' = "squares" /\ normN' = normN
      /\ mem' = mem /\ givenN' = givenN
  BY <1>2 DEF Core!Expand
<1>4. offset = w
  BY <1>1, <1>2
<1>5. Copied(n)
  BY <1>1, <1>2, <1>4, Zenon
<1>6. Copied(n)' /\ Summed(n - 1)'
  BY <1>2, <1>3, <1>5, CopiedKept, SummedKept
<1>7. offset' = Core!s1' + 1
  BY <1>3 DEF Core!s1, Core!hashed, Core!s2
<1>8. QED
  BY <1>2, <1>3, <1>6, <1>7 DEF Normalizing, Begun, Kept

(* The third loop compares an address behind s1 with n.                     *)
LEMMA ThirdLoopEnds ==
  ASSUME Normalizing, Core!SumExpanded
  PROVE  Normalizing'
<1>1. n \in Nat /\ FREE \in Nat
  BY EpervierAssumption, CoreAssumption DEF Core!NormalizeAssumption
<1>2. PICK w \in Nat : Core!s1 = FREE + 2 + w + n
  BY Layout
<1>3. pcN = "squares" /\ Begun /\ Kept /\ Copied(n) /\ Summed(n - 1) /\ offset = Core!s1 + 1
  BY DEF Normalizing, Core!SumExpanded
<1>4. ~ (n > offset)
  BY <1>1, <1>2, <1>3
<1>5. /\ result' = (sigBound > normN) /\ pcN' = "done" /\ normN' = normN
      /\ mem' = mem /\ givenN' = givenN
  BY <1>3, <1>4 DEF Core!SumExpanded
<1>6. Copied(n)' /\ Summed(n - 1)'
  BY <1>3, <1>5, CopiedKept, SummedKept
<1>7. QED
  BY <1>3, <1>5, <1>6 DEF Normalizing, Begun, Kept

LEMMA NormalizeSteps ==
  ASSUME Normalizing, Core!Next
  PROVE  Normalizing'
<1>1. CASE Core!SumHashed
  BY <1>1, SumHashedSums, FirstLoopEnds
<1>2. CASE Core!Expand
  BY <1>2, ExpandCopies, ExpandEnds
<1>3. CASE Core!SumExpanded
  BY <1>3, ThirdLoopEnds
<1>4. QED
  BY <1>1, <1>2, <1>3 DEF Core!Next

LEMMA NormalizeStutters ==
  ASSUME Normalizing, UNCHANGED coreVars
  PROVE  Normalizing'
<1>1. Normalizing' <=> Normalizing
  BY DEF Normalizing, Begun, Kept, Copied, Summed, Sums, Counts, coreVars
<1>2. QED
  BY <1>1

THEOREM NormalizeInvariance == OnChainSpec => [](which = "core" => Normalizing)
<1> DEFINE Holds == which = "core" => Normalizing
<1>1. OnChainInit => Holds
  BY NormalizeStarts DEF OnChainInit
<1>2. Holds /\ [OnChainNext]_<<which, vars, coreVars>> => Holds'
  <2> SUFFICES ASSUME Holds, [OnChainNext]_<<which, vars, coreVars>> PROVE Holds'
    OBVIOUS
  <2>1. CASE which = "epervier" /\ UNCHANGED which
    BY <2>1
  <2>2. CASE which = "core" /\ Core!Next /\ UNCHANGED which
    BY <2>2, NormalizeSteps
  <2>3. CASE UNCHANGED <<which, vars, coreVars>>
    BY <2>3, NormalizeStutters
  <2>4. QED
    BY <2>1, <2>2, <2>3 DEF OnChainNext
<1>3. QED
  BY <1>1, <1>2, PTL DEF OnChainSpec

(***************************************************************************)
(* falcon_normalize writes inside s1: the words of s2, the point, the       *)
(* lengths of all three arrays stay what they were, and s1 ends up as the   *)
(* expansion of s2, for any number of coefficients, to a word and in all,   *)
(* wherever the allocator puts the arrays.                                  *)
(***************************************************************************)
THEOREM WritesInS1Always == OnChainSpec => []WritesInS1
<1>1. (which = "core" => Normalizing) => WritesInS1
  <2> SUFFICES ASSUME Normalizing PROVE Core!WritesInS1
    BY DEF WritesInS1
  <2>1. pcN \in {"squares", "done"} => Copied(n)
    BY DEF Normalizing
  <2>2. QED
    BY <2>1 DEF Normalizing, Kept, Copied, Core!WritesInS1
<1>2. QED
  BY <1>1, NormalizeInvariance, PTL

(* What the contract sums is at most the squared norm.                      *)
LEMMA SumIsAtMostNorm ==
  ASSUME Begun, Summed(n - 1)
  PROVE  normN <= Core!SquaredNorm /\ normN \in Nat /\ Core!SquaredNorm \in Nat
<1> DEFINE total == [j \in 0 .. n - 1 |->
                       Core!Norm2(givenN.hashed[j] - givenN.s1[j]) + Core!Norm2(givenN.s2[j])]
<1>1. n \in Nat /\ n > 1 /\ q \in Nat
  BY EpervierAssumption
<1>2. PICK l \in Nat : l = n - 1 /\ l + 1 = n
  BY <1>1
<1>3. ASSUME NEW j \in 0 .. l
      PROVE  Counts[j] \in Nat /\ total[j] \in Nat /\ Counts[j] <= total[j]
  <2>1. givenN.s1[j] \in Int /\ givenN.s2[j] \in Int /\ givenN.hashed[j] \in Int
    BY <1>1, <1>2, BegunTypes
  <2>2. PICK a \in Int : a = givenN.hashed[j] - givenN.s1[j]
    BY <2>1
  <2>3. Core!Norm2(a) \in Nat /\ Core!Norm2(givenN.s2[j]) \in Nat
    BY <2>1, NormIsNat
  <2>4. Counts[j] = Core!Norm2(a) /\ total[j] = Core!Norm2(a) + Core!Norm2(givenN.s2[j])
    BY <1>2, <2>2, Zenon DEF Counts
  <2>5. QED
    BY <2>3, <2>4
<1>4. PICK s : Sums(s, Counts, l) /\ normN = s[l]
  BY <1>2, Zenon DEF Summed
<1>5. Core!SquaredNorm = Core!SumOver(total, n)
  BY Zenon DEF Core!SquaredNorm
<1> HIDE DEF total
<1>6. PICK t : Sums(t, total, n) /\ Core!SumOver(total, n) = t[n]
  BY <1>1, SumOverIs
<1>7. s[l] \in Nat /\ t[l] \in Nat /\ s[l] <= t[l]
  <2>1. l <= n /\ \A j \in 0 .. l - 1 : Counts[j] \in Nat /\ total[j] \in Nat /\ Counts[j] <= total[j]
    BY <1>1, <1>2, <1>3
  <2>2. QED
    BY ONLY <1>1, <1>4, <1>6, <2>1, l \in Nat, SumsOrdered
<1>8. t[n] = t[l] + total[l] /\ total[l] \in Nat
  BY <1>1, <1>2, <1>3, <1>6 DEF Sums
<1>9. QED
  BY <1>4, <1>5, <1>6, <1>7, <1>8

(***************************************************************************)
(* No signature that is short is turned away: whatever its coefficients,    *)
(* the sum that is compared with the bound is at most the squared norm.     *)
(***************************************************************************)
THEOREM AcceptsShortAlways == OnChainSpec => []AcceptsShort
<1>1. (which = "core" => Normalizing) => AcceptsShort
  <2> SUFFICES ASSUME Normalizing, pcN = "done", Core!SquaredNorm < sigBound PROVE result
    BY DEF AcceptsShort, Core!AcceptsShort
  <2>1. Begun /\ Summed(n - 1) /\ result = (sigBound > normN)
    BY DEF Normalizing
  <2>2. normN <= Core!SquaredNorm /\ normN \in Nat /\ Core!SquaredNorm \in Nat
    BY <2>1, SumIsAtMostNorm
  <2>3. sigBound > normN
    BY <2>2, EpervierAssumption
  <2>4. QED
    BY <2>1, <2>3
<1>2. QED
  BY <1>1, NormalizeInvariance, PTL
=============================================================================
