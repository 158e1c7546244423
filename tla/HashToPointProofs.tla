------------------------- MODULE HashToPointProofs -------------------------
(***************************************************************************)
(* That the three ways of hashing to a point find the same one, the first   *)
(* n samples below kq, for any size of a block and of a word, any number of *)
(* coefficients and any stream; and that the fourth, in constant time,      *)
(* squeezes the rejected samples out of any number of samples.              *)
(***************************************************************************)
EXTENDS HashToPoint, FiniteSetTheorems, WellFoundedInduction, TLAPS

(***************************************************************************)
(* One sample at a time                                                     *)
(***************************************************************************)

(* The accepted among the first k samples of the stream s. *)
AcceptedOf(s, k) == {p \in 0 .. k - 1 : s[p] < kq}

LEMMA AcceptedFinite ==
  ASSUME NEW s, NEW k \in Nat
  PROVE  /\ IsFiniteSet(AcceptedOf(s, k))
         /\ Cardinality(AcceptedOf(s, k)) \in Nat
<1>1. IsFiniteSet(0 .. k - 1)
  BY FS_Interval
<1>2. AcceptedOf(s, k) \subseteq 0 .. k - 1
  BY DEF AcceptedOf
<1>3. QED
  BY <1>1, <1>2, FS_Subset, FS_CardinalityType

(* One more sample. *)
LEMMA AcceptedGrows ==
  ASSUME NEW s, NEW k \in Nat
  PROVE  IF s[k] < kq
         THEN /\ AcceptedOf(s, k + 1) = AcceptedOf(s, k) \cup {k}
              /\ Cardinality(AcceptedOf(s, k + 1)) = Cardinality(AcceptedOf(s, k)) + 1
         ELSE AcceptedOf(s, k + 1) = AcceptedOf(s, k)
<1>1. 0 .. k + 1 - 1 = (0 .. k - 1) \cup {k} /\ k \notin 0 .. k - 1
  OBVIOUS
<1>2. CASE s[k] < kq
  <2>1. AcceptedOf(s, k + 1) = AcceptedOf(s, k) \cup {k} /\ k \notin AcceptedOf(s, k)
    BY <1>1, <1>2 DEF AcceptedOf
  <2>2. QED
    BY <1>2, <2>1, AcceptedFinite, FS_AddElement
<1>3. CASE ~(s[k] < kq)
  BY <1>1, <1>3 DEF AcceptedOf
<1>4. QED
  BY <1>2, <1>3

(* The place of an accepted sample is among those found. *)
LEMMA PlaceFound ==
  ASSUME NEW s, NEW k \in Nat, NEW p \in AcceptedOf(s, k)
  PROVE  Cardinality(AcceptedOf(s, p)) + 1 \in 1 .. Cardinality(AcceptedOf(s, k))
<1>1. p \in Nat /\ p < k /\ s[p] < kq
  BY DEF AcceptedOf
<1>2. /\ AcceptedOf(s, p + 1) = AcceptedOf(s, p) \cup {p}
      /\ Cardinality(AcceptedOf(s, p + 1)) = Cardinality(AcceptedOf(s, p)) + 1
  BY <1>1, AcceptedGrows
<1>3. AcceptedOf(s, p + 1) \subseteq AcceptedOf(s, k)
  BY <1>1 DEF AcceptedOf
<1>4. Cardinality(AcceptedOf(s, p + 1)) <= Cardinality(AcceptedOf(s, k))
  BY <1>1, <1>3, AcceptedFinite, FS_Subset
<1>5. /\ Cardinality(AcceptedOf(s, p)) \in Nat
      /\ Cardinality(AcceptedOf(s, k)) \in Nat
  BY <1>1, AcceptedFinite
<1>6. QED
  BY <1>2, <1>4, <1>5

LEMMA AppendIsSeq ==
  ASSUME NEW S, NEW s \in Seq(S), NEW e \in S
  PROVE  /\ Append(s, e) \in Seq(S)
         /\ Len(Append(s, e)) = Len(s) + 1
         /\ \A k \in 1 .. Len(s) : Append(s, e)[k] = s[k]
         /\ Append(s, e)[Len(s) + 1] = e
OBVIOUS

LEMMA SameSeq ==
  ASSUME NEW S, NEW s \in Seq(S), NEW t \in Seq(S), Len(s) = Len(t),
         \A k \in 1 .. Len(s) : s[k] = t[k]
  PROVE  s = t
OBVIOUS

LEMMA SampleIs ==
  ASSUME TypeOK, NEW k \in 0 .. Samples - 1
  PROVE  stream[k] \in Nat /\ stream[k] % q \in 0 .. q - 1
<1>1. stream[k] \in Nat /\ q \in Nat \ {0}
  BY SamplingAssumption DEF SamplingAssumption, TypeOK, Stream
<1>2. QED
  BY <1>1

(* What one pass does to the point. *)
LEMMA KeepIs ==
  ASSUME TypeOK, Step
  PROVE  /\ TypeOK'
         /\ IF stream[pos] < kq
            THEN /\ Len(hashed') = Len(hashed) + 1
                 /\ \A c \in 1 .. Len(hashed) : hashed'[c] = hashed[c]
                 /\ hashed'[Len(hashed) + 1] = stream[pos] % q
            ELSE hashed' = hashed
<1>1. pos \in 0 .. Samples - 1 /\ pos' = pos + 1 /\ pos' \in 0 .. Samples /\ stream' = stream
  BY SamplingAssumption DEF SamplingAssumption, TypeOK, Step
<1>2. hashed \in Seq(0 .. q - 1) /\ stream[pos] % q \in 0 .. q - 1
  BY <1>1, SampleIs DEF TypeOK
<1>3. hashed' = IF stream[pos] < kq THEN Append(hashed, stream[pos] % q) ELSE hashed
  BY DEF Step, Keep
<1>4. CASE stream[pos] < kq
  BY <1>1, <1>2, <1>3, <1>4, AppendIsSeq DEF TypeOK
<1>5. CASE ~(stream[pos] < kq)
  BY <1>1, <1>2, <1>3, <1>5 DEF TypeOK
<1>6. QED
  BY <1>4, <1>5

LEMMA StepKeepsFirst ==
  ASSUME TypeOK, FirstAccepted, Step
  PROVE  FirstAccepted'
<1> DEFINE A(k) == AcceptedOf(stream, k)
<1>1. /\ \A k : Accepted(k) = A(k)
      /\ stream' = stream /\ pos' = pos + 1 /\ pos \in Nat
  BY DEF Step, TypeOK, Accepted, AcceptedOf
<1>2. /\ Len(hashed) = Cardinality(A(pos))
      /\ \A p \in A(pos) : hashed[Cardinality(A(p)) + 1] = stream[p] % q
  BY <1>1 DEF FirstAccepted
<1>3. \A p \in A(pos) : Cardinality(A(p)) + 1 \in 1 .. Cardinality(A(pos))
  BY <1>1, PlaceFound
<1>4. IF stream[pos] < kq
      THEN /\ A(pos + 1) = A(pos) \cup {pos}
           /\ Cardinality(A(pos + 1)) = Cardinality(A(pos)) + 1
      ELSE A(pos + 1) = A(pos)
  BY <1>1, AcceptedGrows
<1>5. /\ Len(hashed') = Cardinality(A(pos + 1))
      /\ \A p \in A(pos + 1) : hashed'[Cardinality(A(p)) + 1] = stream[p] % q
  <2>1. CASE stream[pos] < kq
    <3>1. /\ Len(hashed') = Len(hashed) + 1
          /\ \A c \in 1 .. Len(hashed) : hashed'[c] = hashed[c]
          /\ hashed'[Len(hashed) + 1] = stream[pos] % q
      BY <2>1, KeepIs
    <3>2. ASSUME NEW p \in A(pos)
          PROVE  hashed'[Cardinality(A(p)) + 1] = stream[p] % q
      BY <3>1, <1>2, <1>3
    <3>3. hashed'[Cardinality(A(pos)) + 1] = stream[pos] % q
      BY <3>1, <1>2
    <3>4. QED
      BY <2>1, <3>1, <3>2, <3>3, <1>2, <1>4
  <2>2. CASE ~(stream[pos] < kq)
    BY <2>2, <1>2, <1>4, KeepIs
  <2>3. QED
    BY <2>1, <2>2
<1>6. \A k : Accepted(k)' = A(k)
  BY <1>1 DEF Accepted, AcceptedOf
<1>7. QED
  BY <1>1, <1>5, <1>6 DEF FirstAccepted, Accepted, AcceptedOf

LEMMA Started ==
  ASSUME Init
  PROVE  TypeOK /\ FirstAccepted
<1>1. TypeOK
  BY SamplingAssumption DEF SamplingAssumption, Init, TypeOK
<1>2. Accepted(pos) = {} /\ Len(hashed) = 0
  BY DEF Init, Accepted
<1>3. QED
  BY <1>1, <1>2, FS_EmptySet DEF FirstAccepted

(* The point is made of the first n samples below 61445, reduced, each in   *)
(* its place (hash_to_point in falcon.py, hash_to_point_vartime in          *)
(* common.c).                                                               *)
THEOREM FirstAcceptedAlways == Spec => [](TypeOK /\ FirstAccepted)
<1>1. Init => TypeOK /\ FirstAccepted
  BY Started
<1>2. TypeOK /\ FirstAccepted /\ [Next]_vars => (TypeOK /\ FirstAccepted)'
  <2>1. SUFFICES ASSUME TypeOK, FirstAccepted, [Next]_vars
                 PROVE  TypeOK' /\ FirstAccepted'
    OBVIOUS
  <2>2. CASE Step
    BY <2>1, <2>2, KeepIs, StepKeepsFirst
  <2>3. CASE UNCHANGED vars
    BY <2>1, <2>3 DEF vars, TypeOK, FirstAccepted, Accepted
  <2>4. QED
    BY <2>1, <2>2, <2>3 DEF Next
<1>3. QED
  BY <1>1, <1>2, PTL DEF Spec

(***************************************************************************)
(* Three at a time                                                          *)
(***************************************************************************)

LEMMA Sizes ==
  /\ n \in Nat \ {0} /\ Samples \in Nat
  /\ BLOCK \in Nat \ {0} /\ BLOCK <= Samples
  /\ WORD \in Nat \ {0}
<1>1. /\ n \in Nat \ {0} /\ Samples \in Nat /\ Samples > 0 /\ Samples % BLOCK = 0
      /\ BLOCK \in Nat \ {0} /\ WORD \in Nat \ {0}
  BY SamplingAssumption, BlockAssumption DEF SamplingAssumption, BlockAssumption
<1>2. BLOCK > Samples => Samples % BLOCK = Samples
  BY <1>1
<1>3. QED
  BY <1>1, <1>2

(* A point that is kept in an array, i of its coefficients found. *)
PointOf(a, i) == [c \in 1 .. i |-> a[c - 1]]

Array == [0 .. n - 1 -> 0 .. q - 1]

(* The sequence and the array grow alike. *)
LEMMA PointGrows ==
  ASSUME NEW a \in Array, NEW i \in 0 .. n - 1, NEW s \in Seq(0 .. q - 1), s = PointOf(a, i),
         NEW e \in 0 .. q - 1
  PROVE  /\ [a EXCEPT ![i] = e] \in Array
         /\ Append(s, e) = PointOf([a EXCEPT ![i] = e], i + 1)
<1> DEFINE b == [a EXCEPT ![i] = e]
           t == PointOf(b, i + 1)
<1>1. b \in Array /\ b[i] = e /\ \A c \in 0 .. i - 1 : b[c] = a[c]
  BY DEF Array
<1>2. n \in Nat /\ i \in Nat /\ i < n /\ Len(s) = i
  BY Sizes DEF PointOf
<1> HIDE DEF b
<1>3. \A c \in 1 .. i + 1 : b[c - 1] \in 0 .. q - 1
  <2>1. \A c \in 1 .. i + 1 : c - 1 \in 0 .. n - 1
    BY <1>2
  <2>2. QED
    BY <2>1, <1>1 DEF Array
<1>4. t \in Seq(0 .. q - 1) /\ Len(t) = i + 1 /\ \A c \in 1 .. i + 1 : t[c] = b[c - 1]
  BY <1>2, <1>3 DEF PointOf
<1>5. \A c \in 1 .. i : s[c] = a[c - 1]
  BY DEF PointOf
<1>6. /\ Append(s, e) \in Seq(0 .. q - 1)
      /\ Len(Append(s, e)) = i + 1
      /\ \A c \in 1 .. i : Append(s, e)[c] = s[c]
      /\ Append(s, e)[i + 1] = e
  BY <1>2, AppendIsSeq
<1> HIDE DEF t
<1>7. \A c \in 1 .. i + 1 : Append(s, e)[c] = t[c]
  <2>1. \A c \in 1 .. i + 1 : c = i + 1 \/ (c \in 1 .. i /\ c - 1 \in 0 .. i - 1)
    BY <1>2
  <2>2. i + 1 - 1 = i
    BY <1>2
  <2>3. QED
    BY <2>1, <2>2, <1>1, <1>4, <1>5, <1>6
<1>8. Append(s, e) = t
  BY <1>4, <1>6, <1>7, SameSeq
<1>9. QED
  BY <1>1, <1>8 DEF b, t

(* One sample, kept or not: the hypotheses are what each of the loops does. *)
LEMMA SameAfterSample ==
  ASSUME NEW a \in Array, NEW i \in 0 .. n - 1, NEW s \in Seq(0 .. q - 1), s = PointOf(a, i),
         NEW e \in Nat, NEW a1, NEW i1,
         a1 = IF e < kq THEN [a EXCEPT ![i] = e % q] ELSE a,
         i1 = IF e < kq THEN i + 1 ELSE i
  PROVE  a1 \in Array /\ i1 \in 0 .. n /\ Keep(s, e) = PointOf(a1, i1)
<1>1. n \in Nat /\ e % q \in 0 .. q - 1
  BY SamplingAssumption, Sizes DEF SamplingAssumption
<1>2. CASE e < kq
  <2>1. /\ [a EXCEPT ![i] = e % q] \in Array
        /\ Append(s, e % q) = PointOf([a EXCEPT ![i] = e % q], i + 1)
    BY <1>1, PointGrows
  <2>2. a1 = [a EXCEPT ![i] = e % q] /\ i1 = i + 1 /\ Keep(s, e) = Append(s, e % q)
    BY <1>2 DEF Keep
  <2>3. i + 1 \in 0 .. n
    BY <1>1
  <2>4. QED
    BY <2>1, <2>2, <2>3
<1>3. CASE ~(e < kq)
  BY <1>1, <1>3 DEF Keep
<1>4. QED
  BY <1>2, <1>3

(* Of the blocks. *)
NISTInStep ==
  /\ hashed = PointOf(hashedN, iN)
  /\ Len(hashed) < n => squeezed - BLOCK + j = pos

LEMMA NISTStep ==
  ASSUME TypeOK, NIST!IInv, NISTInStep, Step, NIST!Next, TypeOK'
  PROVE  NIST!IInv' /\ NISTInStep'
<1>1. /\ stream \in [0 .. Samples - 1 -> Sample] /\ stream' = stream
      /\ squeezed \in BLOCK .. Samples
      /\ tmp = [c \in 0 .. BLOCK - 1 |-> stream[squeezed - BLOCK + c]]
      /\ j \in 0 .. BLOCK /\ iN \in 0 .. n /\ hashedN \in Array
      /\ hashed \in Seq(0 .. q - 1) /\ pos \in Nat
  BY Sizes, SamplingAssumption DEF SamplingAssumption, TypeOK, Stream, NIST!IInv, NIST!TypeOK,
     NIST!BufferIsLastBlock, NIST!BlockAt, Step, Array
<1>2. squeezed - BLOCK + j = pos /\ pos' = pos + 1 /\ pos \in 0 .. Samples - 1
  BY Sizes DEF NISTInStep, Step, TypeOK
<1>3. iN \in 0 .. n - 1
  BY <1>1, Sizes DEF NIST!Next, NIST!FromBuffer, NIST!Refill
<1>4. stream[pos] \in Nat /\ hashed' = Keep(hashed, stream[pos])
  BY <1>2, SampleIs DEF Step
<1>5. /\ hashedN' = IF stream[pos] < kq THEN [hashedN EXCEPT ![iN] = stream[pos] % q] ELSE hashedN
      /\ iN' = IF stream[pos] < kq THEN iN + 1 ELSE iN
      /\ squeezed' \in BLOCK .. Samples
      /\ tmp' = [c \in 0 .. BLOCK - 1 |-> stream[squeezed' - BLOCK + c]]
      /\ j' \in 0 .. BLOCK /\ squeezed' - BLOCK + j' = pos + 1
  <2>1. CASE NIST!FromBuffer
    <3>1. /\ j # BLOCK /\ NIST!Take(tmp, j) /\ squeezed' = squeezed /\ tmp' = tmp
      BY <2>1 DEF NIST!FromBuffer
    <3>2. j \in 0 .. BLOCK - 1 /\ j + 1 \in 0 .. BLOCK /\ squeezed - BLOCK + (j + 1) = pos + 1
      BY <3>1, <1>1, <1>2, Sizes
    <3>3. tmp[j] = stream[pos]
      BY <3>2, <1>1, <1>2
    <3>4. QED
      BY <3>1, <3>2, <3>3, <1>1 DEF NIST!Take
  <2>2. CASE NIST!Refill
    <3>1. /\ j = BLOCK /\ squeezed + BLOCK <= Samples
          /\ tmp' = [c \in 0 .. BLOCK - 1 |-> stream[squeezed + c]]
          /\ squeezed' = squeezed + BLOCK
          /\ NIST!Take(tmp', 0)
      BY <2>2 DEF NIST!Refill, NIST!BlockAt
    <3>2. /\ squeezed = pos /\ squeezed' - BLOCK = squeezed /\ squeezed' \in BLOCK .. Samples
          /\ 0 \in 0 .. BLOCK - 1 /\ 1 \in 0 .. BLOCK /\ 0 + 1 = 1
          /\ squeezed + 0 = pos
      BY <3>1, <1>1, <1>2, Sizes
    <3>3. tmp'[0] = stream[pos]
      BY <3>1, <3>2
    <3>4. j' = 1 /\ squeezed' - BLOCK + j' = pos + 1
      BY <3>1, <3>2 DEF NIST!Take
    <3>5. QED
      BY <3>1, <3>2, <3>3, <3>4 DEF NIST!Take
  <2>3. QED
    BY <2>1, <2>2 DEF NIST!Next
<1>6. hashedN' \in Array /\ iN' \in 0 .. n /\ hashed' = PointOf(hashedN', iN')
  <2>1. hashed = PointOf(hashedN, iN) /\ hashed \in Seq(0 .. q - 1) /\ hashedN \in Array
    BY <1>1 DEF NISTInStep
  <2>2. PICK e \in Nat : e = stream[pos]
    BY <1>4
  <2>3. /\ hashedN' = IF e < kq THEN [hashedN EXCEPT ![iN] = e % q] ELSE hashedN
        /\ iN' = IF e < kq THEN iN + 1 ELSE iN
    BY <1>5, <2>2
  <2>4. hashedN' \in Array /\ iN' \in 0 .. n /\ Keep(hashed, e) = PointOf(hashedN', iN')
    BY ONLY <1>3, <2>1, <2>3, SameAfterSample
  <2>5. QED
    BY <1>4, <2>2, <2>4
<1>7. tmp' \in [0 .. BLOCK - 1 -> Sample]
  <2>1. squeezed' \in BLOCK .. Samples
    BY <1>5
  <2>2. ASSUME NEW c \in 0 .. BLOCK - 1
        PROVE  squeezed' - BLOCK + c \in 0 .. Samples - 1
    <3>1. PICK z \in BLOCK .. Samples : z = squeezed'
      BY <2>1
    <3>2. z - BLOCK + c \in 0 .. Samples - 1
      BY Sizes
    <3>3. QED
      BY <3>1, <3>2
  <2>3. QED
    BY <2>2, <1>1, <1>5
<1>8. squeezed' \in 0 .. Samples /\ squeezed' >= BLOCK
  BY <1>5, Sizes
<1>9. NIST!IInv'
  BY <1>1, <1>5, <1>6, <1>7, <1>8 DEF NIST!IInv, NIST!TypeOK, NIST!BufferIsLastBlock,
     NIST!BlockAt, Array
<1>10. QED
  BY <1>2, <1>5, <1>6, <1>9 DEF NISTInStep

(* Of the words. *)
RIPInStep ==
  /\ hashed = PointOf(output, iR)
  /\ Len(hashed) < n => RIP!Read = pos

(* The only multiplication of the loops. *)
LEMMA NextWord ==
  ASSUME NEW k \in Nat
  PROVE  /\ RIP!Words(k) \in Nat
         /\ RIP!Words(k + 1) = RIP!Words(k) + WORD
         /\ k <= RIP!Words(k)
<1>1. ASSUME NEW w \in Nat \ {0}
      PROVE  k * w \in Nat /\ (k + 1) * w = k * w + w /\ k <= k * w
  <2>1. k * w \in Nat /\ (k + 1) * w = k * w + w
    OBVIOUS
  <2>2. PICK v \in Nat : w = v + 1
    <3>1. w - 1 \in Nat /\ w = (w - 1) + 1
      OBVIOUS
    <3>2. QED
      BY <3>1
  <2>3. k * (v + 1) = k * v + k /\ k * v \in Nat
    OBVIOUS
  <2>4. QED
    BY <2>1, <2>2, <2>3
<1>2. QED
  BY <1>1, Sizes DEF RIP!Words

LEMMA RIPStep ==
  ASSUME TypeOK, RIP!IInv, RIPInStep, Step, RIP!Next, TypeOK'
  PROVE  RIP!IInv' /\ RIPInStep'
<1> DEFINE p == IF chunk < WORD THEN chunk ELSE 0
<1>1. /\ stream' = stream /\ pos' = pos + 1 /\ pos \in 0 .. Samples - 1
      /\ counter \in 0 .. Samples /\ chunk \in 0 .. WORD
      /\ iR \in 0 .. n /\ output \in Array
      /\ hashed \in Seq(0 .. q - 1) /\ Len(hashed) < n
      /\ hashed = PointOf(output, iR)
  BY Sizes DEF TypeOK, RIP!IInv, RIP!TypeOK, Step, Array, RIPInStep
<1>2. /\ RIP!Words(counter) \in Nat
      /\ RIP!Words(counter + 1) = RIP!Words(counter) + WORD
      /\ counter + 1 <= RIP!Words(counter + 1)
  <2>1. counter \in Nat /\ counter + 1 \in Nat
    BY <1>1
  <2>2. QED
    BY <2>1, NextWord
<1>3. RIP!Words(counter) + p = pos
  BY <1>1 DEF RIPInStep, RIP!Read
<1>4. RIP!Take(p) /\ iR < n /\ p \in 0 .. WORD - 1 /\ RIP!Words(counter + 1) <= Samples
  <2>1. CASE RIP!Hash
    BY <1>1, <2>1, Sizes DEF RIP!Hash
  <2>2. CASE RIP!Chunk
    BY <1>1, <2>2, Sizes DEF RIP!Chunk, RIP!IInv, RIP!LoopsNest
  <2>3. QED
    BY <2>1, <2>2 DEF RIP!Next
<1>5. PICK e \in Nat : e = stream[pos]
  BY <1>1, SampleIs
<1> HIDE DEF p
<1>6. /\ output' = IF e < kq THEN [output EXCEPT ![iR] = e % q] ELSE output
      /\ iR' = IF e < kq THEN iR + 1 ELSE iR
      /\ IF (e < kq /\ iR + 1 = n) \/ p + 1 = WORD
         THEN chunk' = WORD /\ counter' = counter + 1
         ELSE chunk' = p + 1 /\ counter' = counter
  BY <1>3, <1>4, <1>5 DEF RIP!Take, RIP!Leave
<1>7. output' \in Array /\ iR' \in 0 .. n /\ hashed' = PointOf(output', iR')
  <2>1. iR \in 0 .. n - 1 /\ hashed' = Keep(hashed, e)
    BY <1>1, <1>4, <1>5, Sizes DEF Step
  <2>2. /\ hashed = PointOf(output, iR) /\ hashed \in Seq(0 .. q - 1) /\ output \in Array
    BY <1>1
  <2>3. /\ output' = IF e < kq THEN [output EXCEPT ![iR] = e % q] ELSE output
        /\ iR' = IF e < kq THEN iR + 1 ELSE iR
    BY <1>6
  <2>4. output' \in Array /\ iR' \in 0 .. n /\ Keep(hashed, e) = PointOf(output', iR')
    BY ONLY <2>1, <2>2, <2>3, SameAfterSample
  <2>5. QED
    BY <2>1, <2>4
<1>8. Len(hashed') = iR'
  BY <1>7, Sizes DEF PointOf
(* The place after this sample. *)
<1>9. /\ counter' \in 0 .. Samples /\ chunk' \in 0 .. WORD
      /\ chunk' < WORD => iR' < n /\ counter' = counter
      /\ iR' < n => RIP!Read' = pos + 1
  <2>1. CASE e < kq /\ iR + 1 = n
    BY <2>1, <1>1, <1>2, <1>4, <1>6, Sizes
  <2>2. CASE ~(e < kq /\ iR + 1 = n) /\ p + 1 = WORD
    <3>1. chunk' = WORD /\ counter' = counter + 1
      BY <2>2, <1>6
    <3>2. RIP!Read' = RIP!Words(counter + 1)
      BY <3>1, Sizes DEF RIP!Read, RIP!Words
    <3>3. QED
      BY <2>2, <3>1, <3>2, <1>1, <1>2, <1>3, <1>4, Sizes
  <2>3. CASE ~(e < kq /\ iR + 1 = n) /\ p + 1 # WORD
    <3>1. chunk' = p + 1 /\ counter' = counter /\ p + 1 < WORD /\ p + 1 \in 0 .. WORD
      BY <2>3, <1>4, <1>6, Sizes
    <3>2. RIP!Read' = RIP!Words(counter) + (p + 1)
      BY <3>1 DEF RIP!Read, RIP!Words
    <3>3. iR' < n
      BY <2>3, <1>1, <1>4, <1>6, Sizes
    <3>4. QED
      BY <3>1, <3>2, <3>3, <1>1, <1>2, <1>3, <1>4, Sizes
  <2>4. QED
    BY <2>1, <2>2, <2>3
<1>10. RIP!IInv'
  <2>1. RIP!TypeOK'
    BY <1>1, <1>7, <1>9 DEF RIP!TypeOK, RIP!IInv, Array
  <2>2. RIP!LoopsNest'
    BY <1>4, <1>9 DEF RIP!LoopsNest, RIP!Words
  <2>3. QED
    BY <2>1, <2>2 DEF RIP!IInv
<1>11. QED
  BY <1>1, <1>7, <1>8, <1>9, <1>10 DEF RIPInStep

(* That the three start in step. *)
LEMMA StartedInStep ==
  ASSUME InStepInit
  PROVE  TypeOK /\ FirstAccepted /\ NIST!IInv /\ NISTInStep /\ RIP!IInv /\ RIPInStep
<1>1. TypeOK /\ FirstAccepted
  BY Started DEF InStepInit
<1>2. /\ hashed = << >> /\ pos = 0 /\ q \in Nat \ {0}
      /\ \A a : PointOf(a, 0) = << >>
  BY SamplingAssumption DEF SamplingAssumption, InStepInit, Init, PointOf
<1>3. [c \in 0 .. n - 1 |-> 0] \in Array
  BY <1>2 DEF Array
<1>4. NIST!IInv /\ NISTInStep
  <2>1. /\ stream \in [0 .. Samples - 1 -> Sample]
        /\ squeezed = BLOCK /\ tmp = NIST!BlockAt(0) /\ j = 0 /\ iN = 0
        /\ hashedN = [c \in 0 .. n - 1 |-> 0]
    BY DEF InStepInit, NIST!Init
  <2>2. /\ squeezed \in 0 .. Samples /\ squeezed >= BLOCK /\ squeezed - BLOCK = 0
        /\ squeezed - BLOCK + j = 0 /\ j \in 0 .. BLOCK /\ iN \in 0 .. n
    BY <2>1, Sizes
  <2>3. tmp \in [0 .. BLOCK - 1 -> Sample]
    <3>1. \A c \in 0 .. BLOCK - 1 : 0 + c \in 0 .. Samples - 1
      BY Sizes
    <3>2. QED
      BY <2>1, <3>1 DEF NIST!BlockAt
  <2>4. QED
    BY <1>2, <1>3, <2>1, <2>2, <2>3 DEF NIST!IInv, NIST!TypeOK, NIST!BufferIsLastBlock, NISTInStep, Array
<1>5. RIP!IInv /\ RIPInStep
  <2>1. /\ stream \in [0 .. Samples - 1 -> Sample]
        /\ counter = 0 /\ chunk = WORD /\ iR = 0
        /\ output = [c \in 0 .. n - 1 |-> 0]
    BY DEF InStepInit, RIP!Init
  <2>2. RIP!Read = 0
    BY <2>1, Sizes DEF RIP!Read, RIP!Words
  <2>3. counter \in 0 .. Samples /\ chunk \in 0 .. WORD /\ iR \in 0 .. n /\ ~(chunk < WORD)
    BY <2>1, Sizes
  <2>4. QED
    BY <1>2, <1>3, <2>1, <2>2, <2>3 DEF RIP!IInv, RIP!TypeOK, RIP!LoopsNest, RIPInStep, Array
<1>6. QED
  BY <1>1, <1>4, <1>5

InStep == TypeOK /\ FirstAccepted /\ NIST!IInv /\ NISTInStep /\ RIP!IInv /\ RIPInStep

LEMMA InStepKept ==
  ASSUME InStep, [InStepNext]_allVars
  PROVE  InStep'
<1>1. CASE InStepNext
  <2>1. TypeOK' /\ FirstAccepted'
    BY <1>1, KeepIs, StepKeepsFirst DEF InStep, InStepNext
  <2>2. NIST!IInv' /\ NISTInStep'
    BY <1>1, <2>1, NISTStep DEF InStep, InStepNext
  <2>3. RIP!IInv' /\ RIPInStep'
    BY <1>1, <2>1, RIPStep DEF InStep, InStepNext
  <2>4. QED
    BY <2>1, <2>2, <2>3 DEF InStep
<1>2. CASE UNCHANGED allVars
  BY <1>2 DEF InStep, allVars, TypeOK, FirstAccepted, Accepted, NISTInStep, RIPInStep,
     NIST!IInv, NIST!TypeOK, NIST!BufferIsLastBlock, NIST!BlockAt, PointOf,
     RIP!IInv, RIP!TypeOK, RIP!LoopsNest, RIP!Words, RIP!Read
<1>3. QED
  BY <1>1, <1>2

(***************************************************************************)
(* Squeezing out                                                            *)
(***************************************************************************)

(* Every set of numbers has a least one: what stands in for induction.      *)
Less == {w \in Nat \X Nat : w[1] < w[2]}

LEMMA Least ==
  ASSUME NEW T, T \subseteq Nat, T # {}
  PROVE  \E k \in T : \A l \in T : k <= l
<1>1. IsWellFoundedOn(Less, Nat)
  BY NatLessThanWellFounded DEF OpToRel, Less
<1>2. PICK k \in T : \A l \in T : ~ (<<l, k>> \in Less)
  BY <1>1, WFMin
<1>3. ASSUME NEW l \in T
      PROVE  k <= l
  <2>1. k \in Nat /\ l \in Nat /\ ~ (<<l, k>> \in Less)
    BY <1>2
  <2>2. ~ (l < k)
    BY <2>1 DEF Less
  <2>3. QED
    BY <2>1, <2>2
<1>4. QED
  BY <1>2, <1>3

(* How many of V are below s. *)
RankOf(V, s) == Cardinality({t \in V : t < s})

LEMMA RankIs ==
  ASSUME NEW V, V \subseteq Nat, NEW s \in Nat
  PROVE  RankOf(V, s) = Cardinality(V \cap (0 .. s - 1))
<1>1. \A t \in V : t < s <=> t \in 0 .. s - 1
  <2>1. ASSUME NEW t \in V
        PROVE  t < s <=> t \in 0 .. s - 1
    <3>1. t \in Nat
      OBVIOUS
    <3>2. QED
      BY <3>1
  <2>2. QED
    BY <2>1
<1>2. {t \in V : t < s} = V \cap (0 .. s - 1)
  BY <1>1
<1>3. QED
  BY <1>2 DEF RankOf

LEMMA RankType ==
  ASSUME NEW V, V \subseteq Nat, NEW s \in Nat
  PROVE  RankOf(V, s) \in Nat /\ RankOf(V, 0) = 0
<1>1. \A k \in Nat : RankOf(V, k) = Cardinality(V \cap (0 .. k - 1))
  BY RankIs
<1>2. IsFiniteSet(0 .. s - 1)
  BY FS_Interval
<1>3. IsFiniteSet(V \cap (0 .. s - 1))
  BY <1>2, FS_Subset
<1>4. 0 .. 0 - 1 = {}
  OBVIOUS
<1>5. V \cap (0 .. 0 - 1) = {}
  BY <1>4
<1>6. QED
  BY <1>1, <1>3, <1>5, FS_CardinalityType, FS_EmptySet

LEMMA RankStep ==
  ASSUME NEW V, V \subseteq Nat, NEW s \in Nat
  PROVE  RankOf(V, s + 1) = RankOf(V, s) + (IF s \in V THEN 1 ELSE 0)
<1> DEFINE below == V \cap (0 .. s - 1)
<1>1. /\ RankOf(V, s) = Cardinality(below) /\ RankOf(V, s) \in Nat
      /\ RankOf(V, s + 1) = Cardinality(V \cap (0 .. s + 1 - 1))
  <2>1. \A k \in Nat : RankOf(V, k) = Cardinality(V \cap (0 .. k - 1)) /\ RankOf(V, k) \in Nat
    BY RankIs, RankType
  <2>2. s \in Nat /\ s + 1 \in Nat
    OBVIOUS
  <2>3. QED
    BY <2>1, <2>2
<1>2. IsFiniteSet(below)
  <2>1. IsFiniteSet(0 .. s - 1) /\ below \subseteq 0 .. s - 1
    BY FS_Interval
  <2>2. QED
    BY <2>1, FS_Subset
<1>3. 0 .. s + 1 - 1 = (0 .. s - 1) \cup {s} /\ s \notin 0 .. s - 1
  OBVIOUS
<1>4. CASE s \in V
  <2>1. V \cap (0 .. s + 1 - 1) = below \cup {s} /\ s \notin below
    BY <1>3, <1>4
  <2>2. Cardinality(below \cup {s}) = Cardinality(below) + 1
    BY ONLY <1>2, <2>1, FS_AddElement
  <2>3. QED
    BY <1>1, <1>4, <2>1, <2>2
<1>5. CASE s \notin V
  <2>1. V \cap (0 .. s + 1 - 1) = below
    BY <1>3, <1>5
  <2>2. QED
    BY <1>1, <1>5, <2>1
<1>6. QED
  BY <1>4, <1>5

(* Between s and t there are at most t - s. *)
LEMMA RankGrows ==
  ASSUME NEW V, V \subseteq Nat, NEW s \in Nat, NEW t \in Nat, s <= t
  PROVE  RankOf(V, s) <= RankOf(V, t) /\ RankOf(V, t) - RankOf(V, s) <= t - s
<1> DEFINE Fails == {k \in Nat : s <= k /\ ~ (/\ RankOf(V, s) <= RankOf(V, k)
                                             /\ RankOf(V, k) - RankOf(V, s) <= k - s)}
<1>1. SUFFICES ASSUME Fails # {} PROVE FALSE
  OBVIOUS
<1>2. PICK k \in Fails : \A l \in Fails : k <= l
  BY <1>1, Least
<1>3. k # s
  <2>1. RankOf(V, s) \in Nat
    BY RankType
  <2>2. s \notin Fails
    BY <2>1
  <2>3. QED
    BY <1>2, <2>2
<1>4. PICK l \in Nat : k = l + 1 /\ s <= l
  <2>1. k - 1 \in Nat /\ k = (k - 1) + 1 /\ s <= k - 1
    BY <1>2, <1>3
  <2>2. QED
    BY <2>1
<1>5. l \notin Fails
  BY <1>2, <1>4
<1>6. /\ RankOf(V, s) \in Nat /\ RankOf(V, l) \in Nat
      /\ RankOf(V, k) = RankOf(V, l) + (IF l \in V THEN 1 ELSE 0)
  BY <1>4, RankType, RankStep
<1>7. QED
  BY <1>2, <1>4, <1>5, <1>6

LEMMA RankOrder ==
  ASSUME NEW V, V \subseteq Nat, NEW s \in V, NEW t \in Nat, s < t
  PROVE  RankOf(V, s) < RankOf(V, t)
<1>1. s \in Nat /\ s + 1 \in Nat /\ s + 1 <= t
  OBVIOUS
<1>2. RankOf(V, s + 1) = RankOf(V, s) + 1 /\ RankOf(V, s + 1) <= RankOf(V, t)
  BY <1>1, RankStep, RankGrows
<1>3. RankOf(V, s) \in Nat /\ RankOf(V, t) \in Nat
  BY <1>1, RankType
<1>4. QED
  BY <1>2, <1>3

(* No rank is left out. *)
LEMMA RankHit ==
  ASSUME NEW V, V \subseteq Nat, NEW s \in Nat, NEW r \in Nat, r < RankOf(V, s)
  PROVE  \E t \in V : t < s /\ RankOf(V, t) = r
<1> DEFINE Beyond == {k \in Nat : r < RankOf(V, k)}
<1>1. PICK k \in Beyond : \A l \in Beyond : k <= l
  <2>1. s \in Beyond
    OBVIOUS
  <2>2. QED
    BY <2>1, Least
<1>2. k # 0 /\ k <= s
  <2>1. RankOf(V, 0) = 0 /\ s \in Beyond
    BY RankType
  <2>2. QED
    BY <1>1, <2>1
<1>3. PICK l \in Nat : k = l + 1
  <2>1. k - 1 \in Nat /\ k = (k - 1) + 1
    BY <1>1, <1>2
  <2>2. QED
    BY <2>1
<1>4. l \notin Beyond /\ l < s
  BY <1>1, <1>2, <1>3
<1>5. /\ RankOf(V, l) \in Nat
      /\ RankOf(V, k) = RankOf(V, l) + (IF l \in V THEN 1 ELSE 0)
  BY <1>3, RankType, RankStep
<1>6. l \in V /\ RankOf(V, l) = r
  BY <1>1, <1>4, <1>5
<1>7. QED
  BY <1>4, <1>6

(* g to a multiple of b. *)
Down(g, b) == b * (g \div b)

LEMMA DownType ==
  ASSUME NEW b \in Nat \ {0}, NEW g \in Nat
  PROVE  Down(g, b) \in 0 .. g /\ (g < b => Down(g, b) = 0) /\ Down(g, 1) = g
<1>1. g = b * (g \div b) + (g % b) /\ g % b \in 0 .. b - 1 /\ g \div b \in Nat
  OBVIOUS
<1>2. b * (g \div b) \in Nat
  BY <1>1
<1>3. g < b => g \div b = 0
  OBVIOUS
<1>4. b * 0 = 0 /\ 1 * (g \div 1) = g
  OBVIOUS
<1>5. QED
  BY <1>1, <1>2, <1>3, <1>4 DEF Down

LEMMA DownOrder ==
  ASSUME NEW b \in Nat \ {0}, NEW g \in Nat, NEW h \in Nat, g <= h
  PROVE  Down(g, b) <= Down(h, b)
<1>1. PICK c \in Nat, r \in 0 .. b - 1 : c = g \div b /\ g = b * c + r
  OBVIOUS
<1>2. PICK d \in Nat, e \in 0 .. b - 1 : d = h \div b /\ h = b * d + e
  OBVIOUS
<1>3. c <= d
  <2>1. SUFFICES ASSUME d < c PROVE FALSE
    BY <1>1, <1>2
  <2>2. PICK f \in Nat : c = d + 1 + f
    <3>1. c - d - 1 \in Nat /\ c = d + 1 + (c - d - 1)
      BY <2>1
    <3>2. QED
      BY <3>1
  <2>3. b * (d + 1 + f) = b * d + b + b * f /\ b * f \in Nat
    OBVIOUS
  <2>4. g >= b * d + b
    BY <1>1, <2>2, <2>3
  <2>5. QED
    BY <1>1, <1>2, <2>4
<1>4. b * c <= b * d
  <2>1. PICK f \in Nat : d = c + f
    <3>1. d - c \in Nat /\ d = c + (d - c)
      BY <1>3
    <3>2. QED
      BY <3>1
  <2>2. b * (c + f) = b * c + b * f /\ b * f \in Nat /\ b * c \in Nat
    OBVIOUS
  <2>3. QED
    BY <2>1, <2>2
<1>5. QED
  BY <1>1, <1>2, <1>4 DEF Down

(* What a pass takes off. *)
LEMMA DownTwice ==
  ASSUME NEW b \in Nat \ {0}, NEW g \in Nat
  PROVE  IF (Down(g, b) \div b) % 2 = 1
         THEN Down(g, 2 * b) = Down(g, b) - b /\ Down(g, b) >= b
         ELSE Down(g, 2 * b) = Down(g, b)
<1>1. PICK d \in Nat, r \in 0 .. b - 1 : d = g \div b /\ g = b * d + r
  OBVIOUS
<1>2. PICK e \in Nat, y \in {0, 1} : d = 2 * e + y /\ y = d % 2
  <2>1. d = 2 * (d \div 2) + (d % 2) /\ d \div 2 \in Nat /\ d % 2 \in {0, 1}
    OBVIOUS
  <2>2. QED
    BY <2>1
<1>3. Down(g, b) = b * d /\ (b * d) \div b = d
  BY <1>1 DEF Down
<1>4. b * d = (2 * b) * e + b * y
  BY <1>2
<1>5. g \div (2 * b) = e
  <2>1. PICK c \in Nat \ {0} : c = 2 * b
    OBVIOUS
  <2>2. PICK o \in 0 .. c - 1 : o = b * y + r
    BY <2>1
  <2>3. g = c * e + o
    BY <1>1, <1>4, <2>1, <2>2
  <2>4. (c * e + o) \div c = e
    OBVIOUS
  <2>5. QED
    BY <2>1, <2>3, <2>4
<1>6. Down(g, 2 * b) = (2 * b) * e
  BY <1>5 DEF Down
<1>7. (2 * b) * e \in Nat /\ b * 1 = b /\ b * 0 = 0
  OBVIOUS
<1>8. (Down(g, b) \div b) % 2 = y
  BY <1>2, <1>3
<1>9. Down(g, b) = Down(g, 2 * b) + b * y
  BY <1>3, <1>4, <1>6
<1>10. CASE y = 1
  BY <1>6, <1>7, <1>8, <1>9, <1>10
<1>11. CASE y = 0
  BY <1>6, <1>7, <1>8, <1>9, <1>11
<1>12. QED
  BY <1>10, <1>11

(* Where s is: of the samples V, those of the first f ranks were looked at  *)
(* in this pass, in which samples move down by b slots.                     *)
WhereIn(V, f, b, s) ==
  LET rank == RankOf(V, s)
  IN  rank + (IF rank < f THEN Down(s - rank, 2 * b) ELSE Down(s - rank, b))

LEMMA WhereType ==
  ASSUME NEW V, V \subseteq Nat, NEW f \in Nat, NEW b \in Nat \ {0}, NEW s \in V
  PROVE  /\ RankOf(V, s) \in Nat /\ s - RankOf(V, s) \in Nat
         /\ WhereIn(V, f, b, s) \in 0 .. s
<1>1. s \in Nat /\ 0 \in Nat /\ 0 <= s
  OBVIOUS
<1>2. RankOf(V, 0) = 0 /\ RankOf(V, s) \in Nat /\ RankOf(V, s) - RankOf(V, 0) <= s - 0
  BY <1>1, RankType, RankGrows
<1>3. PICK g \in Nat : g = s - RankOf(V, s)
  BY <1>1, <1>2
<1>4. 2 * b \in Nat \ {0}
  OBVIOUS
<1>5. Down(g, b) \in 0 .. g /\ Down(g, 2 * b) \in 0 .. g
  BY <1>4, DownType
<1>6. QED
  BY <1>1, <1>2, <1>3, <1>5 DEF WhereIn

LEMMA WhereOrder ==
  ASSUME NEW V, V \subseteq Nat, NEW f \in Nat, NEW b \in Nat \ {0}, NEW s \in V, NEW t \in V, s < t
  PROVE  /\ RankOf(V, s) < RankOf(V, t)
         /\ WhereIn(V, f, b, s) < WhereIn(V, f, b, t)
<1>1. s \in Nat /\ t \in Nat /\ s <= t
  OBVIOUS
<1>2. RankOf(V, s) < RankOf(V, t) /\ RankOf(V, t) - RankOf(V, s) <= t - s
  BY <1>1, RankOrder, RankGrows
<1>3. PICK r \in Nat, w \in Nat : r = RankOf(V, s) /\ w = RankOf(V, t)
  BY <1>1, RankType
<1>4. PICK g \in Nat, h \in Nat : g = s - r /\ h = t - w
  BY <1>3, WhereType
<1>5. g <= h
  BY <1>1, <1>2, <1>3, <1>4
<1>6. 2 * b \in Nat \ {0}
  OBVIOUS
<1>7. Down(g, b) <= Down(h, b) /\ Down(g, 2 * b) <= Down(h, 2 * b)
  BY <1>5, <1>6, DownOrder
<1>8. Down(g, 2 * b) <= Down(g, b)
  <2>1. Down(g, b) \in Nat
    BY DownType
  <2>2. IF (Down(g, b) \div b) % 2 = 1
        THEN Down(g, 2 * b) = Down(g, b) - b /\ Down(g, b) >= b
        ELSE Down(g, 2 * b) = Down(g, b)
    BY DownTwice
  <2>3. QED
    BY <2>1, <2>2
<1>9. /\ Down(g, b) \in Nat /\ Down(g, 2 * b) \in Nat
      /\ Down(h, b) \in Nat /\ Down(h, 2 * b) \in Nat
  BY <1>6, DownType
<1>10. /\ WhereIn(V, f, b, s) = r + (IF r < f THEN Down(g, 2 * b) ELSE Down(g, b))
       /\ WhereIn(V, f, b, t) = w + (IF w < f THEN Down(h, 2 * b) ELSE Down(h, b))
  BY <1>3, <1>4 DEF WhereIn
<1>11. r < w
  BY <1>2, <1>3
<1>12. QED
  BY <1>2, <1>7, <1>8, <1>9, <1>10, <1>11

Where(s) == WhereIn(valid, found, power, s)

(* Every valid sample is where the passes so far bring it, and the array    *)
(* holds nothing else; the loop has come past those of the first ranks.     *)
Squeezing ==
  /\ Ct!TypeOK /\ found <= place
  /\ \A s \in valid : slots[Where(s)] = s
  /\ \A k \in Ct!Slot : slots[k] # Invalid => slots[k] \in valid /\ Where(slots[k]) = k
  /\ \A s \in valid : RankOf(valid, s) < found <=> Where(s) < place

LEMMA SqueezeTypes ==
  ASSUME Squeezing
  PROVE  /\ n \in Nat \ {0} /\ over \in Nat \ {0} /\ Invalid \notin Ct!Slot
         /\ Ct!m \in Nat /\ Ct!Slot = 0 .. Ct!m - 1
         /\ valid \subseteq Nat /\ valid \subseteq Ct!Slot
         /\ power \in Nat \ {0} /\ place \in Nat /\ found \in Nat
         /\ place <= Ct!m /\ found <= place
         /\ slots \in [Ct!Slot -> Ct!Slot \cup {Invalid}]
<1>1. n \in Nat \ {0} /\ over \in Nat \ {0} /\ Invalid \notin Ct!Slot
  BY SqueezeAssumption DEF Ct!CtAssumption
<1>2. Ct!m \in Nat /\ Ct!Slot = 0 .. Ct!m - 1
  BY <1>1 DEF Ct!m, Ct!Slot
<1>3. QED
  BY <1>1, <1>2 DEF Squeezing, Ct!TypeOK

LEMMA Places ==
  ASSUME Squeezing
  PROVE  /\ \A s \in valid : /\ Where(s) \in Ct!Slot /\ Where(s) <= s
                             /\ slots[Where(s)] # Invalid
         /\ \A s, t \in valid : s < t => RankOf(valid, s) < RankOf(valid, t) /\ Where(s) < Where(t)
<1>1. ASSUME NEW s \in valid
      PROVE  Where(s) \in Ct!Slot /\ Where(s) <= s /\ slots[Where(s)] # Invalid
  <2>1. Where(s) \in 0 .. s
    BY SqueezeTypes, WhereType DEF Where
  <2>2. s \in Ct!Slot /\ slots[Where(s)] = s /\ s # Invalid
    BY SqueezeTypes DEF Squeezing
  <2>3. QED
    BY <2>1, <2>2, SqueezeTypes
<1>2. ASSUME NEW s \in valid, NEW t \in valid, s < t
      PROVE  RankOf(valid, s) < RankOf(valid, t) /\ Where(s) < Where(t)
  BY <1>2, SqueezeTypes, WhereOrder DEF Where
<1>3. QED
  BY <1>1, <1>2

(* The sample that the loop looks at is the next one in rank. *)
LEMMA AtPlace ==
  ASSUME Squeezing, place < Ct!m, slots[place] # Invalid
  PROVE  /\ slots[place] \in valid /\ RankOf(valid, slots[place]) = found
         /\ place = found + Down(slots[place] - found, power)
<1> DEFINE s == slots[place]
<1>1. place \in Ct!Slot
  BY SqueezeTypes
<1>2. s \in valid /\ Where(s) = place
  BY <1>1 DEF Squeezing
<1> HIDE DEF s
<1>3. RankOf(valid, s) \in Nat /\ ~ (RankOf(valid, s) < found)
  <2>1. RankOf(valid, s) \in Nat
    BY <1>2, SqueezeTypes, WhereType
  <2>2. RankOf(valid, s) < found <=> place < place
    BY <1>2 DEF Squeezing
  <2>3. QED
    BY <2>1, <2>2, SqueezeTypes
<1>4. RankOf(valid, s) = found
  <2>1. SUFFICES ASSUME found < RankOf(valid, s) PROVE FALSE
    BY <1>3, SqueezeTypes
  <2>2. PICK t \in valid : t < s /\ RankOf(valid, t) = found
    BY <1>2, <2>1, SqueezeTypes, RankHit
  <2>3. Where(t) < place
    BY <1>2, <2>2, Places
  <2>4. RankOf(valid, t) < found
    BY <2>3 DEF Squeezing
  <2>5. QED
    BY <2>2, <2>4, SqueezeTypes
<1>5. Where(s) = found + Down(s - found, power)
  BY <1>4, SqueezeTypes DEF Where, WhereIn
<1>6. QED
  BY <1>2, <1>4, <1>5 DEF s

LEMMA JumpsDown ==
  ASSUME Squeezing, place < Ct!m, Ct!Jumps
  PROVE  /\ place - power = found + Down(slots[place] - found, 2 * power)
         /\ place - power \in Ct!Slot /\ power <= place
<1>1. /\ slots[place] # Invalid /\ power <= place
      /\ ((place - found) \div power) % 2 = 1
  BY SqueezeTypes DEF Ct!Jumps, Ct!HasBit
<1>2. /\ slots[place] \in valid /\ RankOf(valid, slots[place]) = found
      /\ place = found + Down(slots[place] - found, power)
  BY <1>1, AtPlace
<1>3. PICK g \in Nat : g = slots[place] - found
  <2>1. valid \subseteq Nat /\ found \in Nat /\ power \in Nat \ {0} /\ slots[place] \in valid
    BY <1>2, SqueezeTypes
  <2>2. slots[place] - RankOf(valid, slots[place]) \in Nat
    BY ONLY <2>1, WhereType
  <2>3. QED
    BY <1>2, <2>2
<1>4. Down(g, power) \in Nat /\ Down(g, power) = place - found
  <2>1. Down(g, power) \in Nat
    <3>1. power \in Nat \ {0}
      BY SqueezeTypes
    <3>2. QED
      BY <3>1, DownType
  <2>2. place = found + Down(g, power)
    BY <1>2, <1>3
  <2>3. QED
    BY <2>1, <2>2, SqueezeTypes
<1>5. Down(g, 2 * power) = Down(g, power) - power
  BY <1>1, <1>4, SqueezeTypes, DownTwice
<1>6. place - power = found + Down(g, 2 * power)
  BY <1>4, <1>5, SqueezeTypes
<1>7. place - power \in Ct!Slot
  BY <1>1, SqueezeTypes
<1>8. QED
  BY <1>1, <1>3, <1>6, <1>7

LEMMA StaysPut ==
  ASSUME Squeezing, place < Ct!m, slots[place] # Invalid, ~Ct!Jumps
  PROVE  place = found + Down(slots[place] - found, 2 * power)
<1>1. /\ slots[place] \in valid /\ RankOf(valid, slots[place]) = found
      /\ place = found + Down(slots[place] - found, power)
  BY AtPlace
<1>2. PICK g \in Nat : g = slots[place] - found
  <2>1. valid \subseteq Nat /\ found \in Nat /\ power \in Nat \ {0} /\ slots[place] \in valid
    BY <1>1, SqueezeTypes
  <2>2. slots[place] - RankOf(valid, slots[place]) \in Nat
    BY ONLY <2>1, WhereType
  <2>3. QED
    BY <1>1, <2>2
<1>3. Down(g, power) \in Nat /\ Down(g, power) = place - found
  <2>1. Down(g, power) \in Nat
    <3>1. power \in Nat \ {0}
      BY SqueezeTypes
    <3>2. QED
      BY <3>1, DownType
  <2>2. place = found + Down(g, power)
    BY <1>1, <1>2
  <2>3. QED
    BY <2>1, <2>2, SqueezeTypes
<1>4. (Down(g, power) \div power) % 2 # 1
  <2>1. SUFFICES ASSUME (Down(g, power) \div power) % 2 = 1 PROVE FALSE
    OBVIOUS
  <2>2. Down(g, power) >= power
    BY <2>1, SqueezeTypes, DownTwice
  <2>3. place >= power
    BY <1>3, <2>2, SqueezeTypes
  <2>4. QED
    BY <1>3, <2>1, <2>3 DEF Ct!Jumps, Ct!HasBit
<1>5. Down(g, 2 * power) = Down(g, power)
  BY <1>4, SqueezeTypes, DownTwice
<1>6. QED
  BY <1>2, <1>3, <1>5, SqueezeTypes

LEMMA Free ==
  ASSUME Squeezing, place < Ct!m, Ct!Jumps
  PROVE  slots[place - power] = Invalid
<1> DEFINE s == slots[place]
           k == place - power
           t == slots[k]
<1>1. SUFFICES ASSUME t # Invalid PROVE FALSE
  OBVIOUS
<1>2. /\ s \in valid /\ RankOf(valid, s) = found
      /\ place = found + Down(s - found, power)
      /\ k = found + Down(s - found, 2 * power) /\ k \in Ct!Slot /\ power <= place
  BY AtPlace, JumpsDown DEF Ct!Jumps
<1>3. t \in valid /\ Where(t) = k
  BY <1>1, <1>2 DEF Squeezing
<1>4. k < place
  BY <1>2, SqueezeTypes
<1> HIDE DEF s, t
<1>5. RankOf(valid, t) < found
  BY <1>3, <1>4 DEF Squeezing
<1>6. t < s
  <2>1. s \in Nat /\ t \in Nat /\ found \in Nat /\ RankOf(valid, t) \in Nat
    BY <1>2, <1>3, SqueezeTypes, WhereType
  <2>2. CASE s < t
    BY <1>2, <1>3, <1>5, <2>1, <2>2, Places
  <2>3. CASE s = t
    BY <1>2, <1>5, <2>1, <2>3
  <2>4. QED
    BY <2>1, <2>2, <2>3
<1>7. PICK g \in Nat, h \in Nat : g = t - RankOf(valid, t) /\ h = s - found
  BY <1>2, <1>3, SqueezeTypes, WhereType
<1>8. g <= h
  <2>1. t \in Nat /\ s \in Nat /\ t <= s
    BY <1>2, <1>3, <1>6, SqueezeTypes
  <2>2. RankOf(valid, s) - RankOf(valid, t) <= s - t
    BY <2>1, SqueezeTypes, RankGrows
  <2>3. RankOf(valid, t) \in Nat /\ found \in Nat
    BY <1>3, SqueezeTypes, WhereType
  <2>4. QED
    BY <1>2, <1>7, <2>1, <2>2, <2>3
<1>9. 2 * power \in Nat \ {0}
  BY SqueezeTypes
<1>10. /\ Down(g, 2 * power) <= Down(h, 2 * power)
       /\ Down(g, 2 * power) \in Nat /\ Down(h, 2 * power) \in Nat
  BY <1>8, <1>9, DownOrder, DownType
<1>11. Where(t) = RankOf(valid, t) + Down(g, 2 * power)
  BY <1>5, <1>7 DEF Where, WhereIn
<1>12. k = found + Down(h, 2 * power)
  BY <1>2, <1>7
<1>13. RankOf(valid, t) \in Nat /\ found \in Nat
  BY <1>3, SqueezeTypes, WhereType
<1>14. RankOf(valid, t) + Down(g, 2 * power) = found + Down(h, 2 * power)
  BY <1>3, <1>11, <1>12
<1> HIDE DEF k
<1>15. QED
  BY <1>5, <1>10, <1>13, <1>14

(* The sample that is looked at comes to slot k, where it was or below.     *)
LEMMA Moved ==
  ASSUME Squeezing, place < Ct!m, slots[place] # Invalid,
         NEW k \in Ct!Slot, k = found + Down(slots[place] - found, 2 * power), k <= place,
         k # place => slots[k] = Invalid,
         NEW a \in [Ct!Slot -> Ct!Slot \cup {Invalid}],
         a[k] = slots[place], k # place => a[place] = Invalid,
         \A l \in Ct!Slot : l # k /\ l # place => a[l] = slots[l]
  PROVE  /\ \A t \in valid : a[WhereIn(valid, found + 1, power, t)] = t
         /\ \A l \in Ct!Slot :
              a[l] # Invalid => a[l] \in valid /\ WhereIn(valid, found + 1, power, a[l]) = l
         /\ \A t \in valid :
              RankOf(valid, t) < found + 1 <=> WhereIn(valid, found + 1, power, t) < place + 1
<1> DEFINE s == slots[place]
           W(t) == WhereIn(valid, found + 1, power, t)
<1>1. s \in valid /\ RankOf(valid, s) = found /\ Where(s) = place /\ place \in Ct!Slot
  <2>1. place \in Ct!Slot
    BY SqueezeTypes
  <2>2. QED
    BY <2>1, AtPlace DEF Squeezing
<1> HIDE DEF s
<1>2. W(s) = k
  <2>1. found < found + 1
    BY SqueezeTypes
  <2>2. W(s) = found + Down(s - found, 2 * power)
    BY <1>1, <2>1 DEF WhereIn
  <2>3. QED
    BY <2>2 DEF s
<1> HIDE DEF W
<1>3. ASSUME NEW t \in valid, t # s
      PROVE  /\ W(t) = Where(t) /\ Where(t) # place /\ Where(t) # k
             /\ Where(t) \in Ct!Slot
             /\ RankOf(valid, t) < found + 1 <=> W(t) < place + 1
  <2>1. s \in Nat /\ t \in Nat /\ (s < t \/ t < s)
    BY <1>1, <1>3, SqueezeTypes
  <2>2. RankOf(valid, t) \in Nat /\ RankOf(valid, t) # found /\ Where(t) # place
    <3>1. RankOf(valid, t) \in Nat /\ RankOf(valid, s) \in Nat
      BY <1>1, SqueezeTypes, WhereType
    <3>2. Where(s) \in Nat /\ Where(t) \in Nat
      BY <1>1, Places, SqueezeTypes
    <3>3. CASE s < t
      BY <1>1, <3>1, <3>2, <3>3, Places
    <3>4. CASE t < s
      BY <1>1, <3>1, <3>2, <3>4, Places
    <3>5. QED
      BY <2>1, <3>1, <3>3, <3>4
  <2>3. RankOf(valid, t) < found + 1 <=> RankOf(valid, t) < found
    BY <2>2, SqueezeTypes
  <2>4. W(t) = Where(t)
    BY <2>3 DEF W, Where, WhereIn
  <2>5. Where(t) \in Ct!Slot /\ slots[Where(t)] # Invalid
    BY Places
  <2>6. RankOf(valid, t) < found <=> Where(t) < place
    BY DEF Squeezing
  <2>7. Where(t) < place <=> Where(t) < place + 1
    <3>1. Where(t) \in Nat /\ place \in Nat
      BY <2>5, SqueezeTypes
    <3>2. QED
      BY <2>2, <3>1
  <2>8. QED
    BY <2>2, <2>3, <2>4, <2>5, <2>6, <2>7
<1>4. ASSUME NEW t \in valid
      PROVE  a[W(t)] = t
  <2>1. CASE t = s
    BY <1>2, <2>1 DEF s
  <2>2. CASE t # s
    BY <1>3, <2>2 DEF Squeezing
  <2>3. QED
    BY <2>1, <2>2
<1>5. ASSUME NEW l \in Ct!Slot, a[l] # Invalid
      PROVE  a[l] \in valid /\ W(a[l]) = l
  <2>1. CASE l = k
    BY <1>1, <1>2, <2>1 DEF s
  <2>2. CASE l # k
    <3>1. l # place /\ a[l] = slots[l]
      BY <1>5, <2>2
    <3>2. slots[l] \in valid /\ Where(slots[l]) = l
      BY <1>5, <3>1 DEF Squeezing
    <3>3. slots[l] # s
      BY <1>1, <3>1, <3>2
    <3>4. QED
      BY <1>3, <3>1, <3>2, <3>3
  <2>3. QED
    BY <2>1, <2>2
<1>6. ASSUME NEW t \in valid
      PROVE  RankOf(valid, t) < found + 1 <=> W(t) < place + 1
  <2>1. CASE t = s
    <3>1. found < found + 1 /\ k < place + 1
      BY SqueezeTypes
    <3>2. QED
      BY <1>1, <1>2, <2>1, <3>1
  <2>2. CASE t # s
    BY <1>3, <2>2
  <2>3. QED
    BY <2>1, <2>2
<1>7. QED
  BY <1>4, <1>5, <1>6 DEF W

LEMMA ConsiderKeeps ==
  ASSUME Squeezing, Ct!Consider
  PROVE  Squeezing'
<1>1. /\ place < Ct!m /\ power <= over /\ place' = place + 1
      /\ valid' = valid /\ power' = power /\ place \in Ct!Slot
  BY SqueezeTypes DEF Ct!Consider
<1>2. CASE slots[place] = Invalid
  <2>1. slots' = slots /\ found' = found
    BY <1>2 DEF Ct!Consider, Ct!Jumps
  <2>2. Ct!TypeOK' /\ found' <= place'
    BY <1>1, <2>1, SqueezeTypes DEF Squeezing, Ct!TypeOK
  <2>3. \A s : Where(s)' = Where(s)
    BY <1>1, <2>1 DEF Where
  <2>4. ASSUME NEW s \in valid
        PROVE  RankOf(valid, s) < found <=> Where(s) < place + 1
    <3>1. Where(s) \in Ct!Slot /\ Where(s) # place
      BY <1>2, Places
    <3>2. Where(s) < place <=> Where(s) < place + 1
      BY <3>1, SqueezeTypes
    <3>3. QED
      BY <3>2 DEF Squeezing
  <2>5. QED
    BY <1>1, <2>1, <2>2, <2>3, <2>4 DEF Squeezing
<1>3. CASE slots[place] # Invalid
  <2>1. found' = found + 1
    BY <1>3 DEF Ct!Consider
  <2>2. PICK k \in Ct!Slot :
          /\ k = found + Down(slots[place] - found, 2 * power) /\ k <= place
          /\ k # place => slots[k] = Invalid
          /\ slots' = [slots EXCEPT ![place] = slots[k], ![k] = slots[place]]
    <3>1. CASE Ct!Jumps
      <4>1. slots' = Ct!Swap(place, place - power)
        BY <3>1 DEF Ct!Consider
      <4>2. /\ place - power \in Ct!Slot /\ place - power <= place
            /\ place - power = found + Down(slots[place] - found, 2 * power)
            /\ slots[place - power] = Invalid
        BY <1>1, <3>1, JumpsDown, Free, SqueezeTypes
      <4>3. QED
        BY <4>1, <4>2 DEF Ct!Swap
    <3>2. CASE ~Ct!Jumps
      <4>1. slots' = slots
        BY <3>2 DEF Ct!Consider
      <4>2. place = found + Down(slots[place] - found, 2 * power)
        BY <1>1, <1>3, <3>2, StaysPut
      <4>3. slots = [slots EXCEPT ![place] = slots[place], ![place] = slots[place]]
        BY SqueezeTypes
      <4>4. place <= place
        BY SqueezeTypes
      <4>5. QED
        BY <1>1, <4>1, <4>2, <4>3, <4>4
    <3>3. QED
      BY <3>1, <3>2
  <2>3. PICK a \in [Ct!Slot -> Ct!Slot \cup {Invalid}] :
          /\ a = slots'
          /\ a[k] = slots[place] /\ (k # place => a[place] = Invalid)
          /\ \A l \in Ct!Slot : l # k /\ l # place => a[l] = slots[l]
    BY <1>1, <2>2, SqueezeTypes
  <2>4. /\ \A t \in valid : a[WhereIn(valid, found + 1, power, t)] = t
        /\ \A l \in Ct!Slot :
             a[l] # Invalid => a[l] \in valid /\ WhereIn(valid, found + 1, power, a[l]) = l
        /\ \A t \in valid :
             RankOf(valid, t) < found + 1 <=> WhereIn(valid, found + 1, power, t) < place + 1
    <3>1. k = found + Down(slots[place] - found, 2 * power) /\ k <= place
      BY <2>2
    <3>2. k # place => slots[k] = Invalid
      BY <2>2
    <3>3. a[k] = slots[place] /\ (k # place => a[place] = Invalid)
      BY <2>3
    <3>4. \A l \in Ct!Slot : l # k /\ l # place => a[l] = slots[l]
      BY <2>3
    <3>5. Squeezing /\ place < Ct!m
      BY <1>1
    <3>6. QED
      BY ONLY <1>3, <3>1, <3>2, <3>3, <3>4, <3>5, Moved
  <2>5. Ct!TypeOK' /\ found' <= place'
    BY <1>1, <2>1, <2>3, SqueezeTypes DEF Squeezing, Ct!TypeOK
  <2>6. \A s : Where(s)' = WhereIn(valid, found + 1, power, s)
    BY <1>1, <2>1 DEF Where
  <2>7. QED
    BY <1>1, <2>1, <2>3, <2>4, <2>5, <2>6 DEF Squeezing
<1>4. QED
  BY <1>2, <1>3

LEMMA NextPowerKeeps ==
  ASSUME Squeezing, Ct!NextPower
  PROVE  Squeezing'
<1>1. /\ power <= over /\ place = Ct!m /\ power' = 2 * power /\ place' = 0 /\ found' = 0
      /\ valid' = valid /\ slots' = slots
  BY DEF Ct!NextPower
<1>2. ASSUME NEW s \in valid
      PROVE  Where(s)' = Where(s) /\ ~ (RankOf(valid, s) < 0) /\ ~ (Where(s) < 0)
  <2>1. Where(s) \in Ct!Slot /\ Where(s) < place
    BY <1>1, Places, SqueezeTypes
  <2>2. RankOf(valid, s) < found
    BY <2>1 DEF Squeezing
  <2>3. ~ (RankOf(valid, s) < 0)
    <3>1. valid \subseteq Nat /\ found \in Nat /\ power \in Nat \ {0}
      BY SqueezeTypes
    <3>2. RankOf(valid, s) \in Nat
      BY ONLY <3>1, WhereType
    <3>3. QED
      BY <3>2
  <2>4. QED
    BY <1>1, <2>1, <2>2, <2>3, SqueezeTypes DEF Where, WhereIn
<1>3. Ct!TypeOK' /\ found' <= place'
  BY <1>1, SqueezeTypes DEF Squeezing, Ct!TypeOK
<1>4. QED
  BY <1>1, <1>2, <1>3 DEF Squeezing

LEMMA SqueezeStarts ==
  ASSUME Ct!Init
  PROVE  Squeezing
<1>1. /\ n \in Nat \ {0} /\ over \in Nat \ {0} /\ Invalid \notin Ct!Slot
      /\ Ct!m \in Nat /\ Ct!Slot = 0 .. Ct!m - 1
  BY SqueezeAssumption DEF Ct!CtAssumption, Ct!m, Ct!Slot
<1>2. /\ valid \subseteq Ct!Slot /\ power = 1 /\ place = 0 /\ found = 0
      /\ slots = [s \in Ct!Slot |-> IF s \in valid THEN s ELSE Invalid]
  BY DEF Ct!Init
<1>3. Ct!TypeOK /\ found <= place
  BY <1>1, <1>2 DEF Ct!TypeOK
<1>4. ASSUME NEW s \in valid
      PROVE  Where(s) = s /\ ~ (RankOf(valid, s) < 0) /\ ~ (s < 0)
  <2>1. valid \subseteq Nat /\ 0 \in Nat /\ 1 \in Nat \ {0} /\ s \in Nat
    BY <1>1, <1>2
  <2>2. PICK r \in Nat, g \in Nat : r = RankOf(valid, s) /\ g = s - r
    BY <2>1, WhereType
  <2>3. Where(s) = r + Down(g, 1)
    BY <1>2, <2>2 DEF Where, WhereIn
  <2>4. Down(g, 1) = g
    BY <2>1, DownType
  <2>5. QED
    BY <2>1, <2>2, <2>3, <2>4
<1>5. QED
  BY <1>1, <1>2, <1>3, <1>4 DEF Squeezing

LEMMA SameCount ==
  ASSUME NEW S
  PROVE  Ct!Cardinality(S) = Cardinality(S)
BY DEF Ct!Cardinality, Cardinality, Ct!IsFiniteSet, IsFiniteSet

LEMMA SqueezingShows ==
  ASSUME Squeezing
  PROVE  Squeezed
<1>1. Ct!DestinationFree
  BY Free DEF Ct!DestinationFree
<1>2. Ct!OrderKept
  <2>1. ASSUME NEW s \in valid
        PROVE  s \in {slots[k] : k \in Ct!Slot} \ {Invalid}
    BY Places, SqueezeTypes DEF Squeezing
  <2>2. \A k \in Ct!Slot : slots[k] # Invalid => slots[k] \in valid
    BY DEF Squeezing
  <2>3. ASSUME NEW k \in Ct!Slot, NEW l \in Ct!Slot, k < l,
               slots[k] # Invalid, slots[l] # Invalid
        PROVE  slots[k] < slots[l]
    <3> DEFINE s == slots[k]
               t == slots[l]
    <3>1. s \in valid /\ t \in valid /\ Where(s) = k /\ Where(t) = l
      BY <2>3 DEF Squeezing
    <3>2. s \in Nat /\ t \in Nat /\ k \in Nat /\ l \in Nat
      BY <3>1, SqueezeTypes
    <3> HIDE DEF s, t
    <3>3. ~ (t < s)
      <4>1. t < s => Where(t) < Where(s)
        BY <3>1, Places
      <4>2. QED
        BY <2>3, <3>1, <3>2, <4>1
    <3>4. t # s
      BY <2>3, <3>1, <3>2
    <3>5. s < t
      BY <3>2, <3>3, <3>4
    <3>6. QED
      BY <3>5 DEF s, t
  <2>4. QED
    BY <2>1, <2>2, <2>3 DEF Ct!OrderKept
<1>3. Ct!SqueezedOut
  <2>1. SUFFICES ASSUME power > over, Cardinality(valid) >= n,
                        NEW s \in valid, RankOf(valid, s) < n
                 PROVE  slots[RankOf(valid, s)] = s
    BY SameCount DEF Ct!SqueezedOut, Ct!Rank, RankOf
  <2>3. s \in Nat /\ Ct!m \in Nat /\ s < Ct!m /\ s <= Ct!m
    BY SqueezeTypes
  <2>4. RankOf(valid, Ct!m) = Cardinality(valid)
    <3>1. valid \cap (0 .. Ct!m - 1) = valid
      BY SqueezeTypes
    <3>2. QED
      BY <3>1, SqueezeTypes, RankIs
  <2>5. RankOf(valid, Ct!m) - RankOf(valid, s) <= Ct!m - s
    BY <2>3, SqueezeTypes, RankGrows
  <2>6. PICK r \in Nat, g \in Nat : r = RankOf(valid, s) /\ g = s - r
    <3>1. valid \subseteq Nat /\ found \in Nat /\ power \in Nat \ {0}
      BY SqueezeTypes
    <3>2. RankOf(valid, s) \in Nat /\ s - RankOf(valid, s) \in Nat
      BY ONLY <3>1, WhereType
    <3>3. QED
      BY <3>2
  <2>7. PICK c \in Nat : c = Cardinality(valid)
    BY <2>3, <2>4, SqueezeTypes, RankType
  <2>8. g < power /\ g < 2 * power
    <3>1. Ct!m = n + over
      BY DEF Ct!m
    <3>2. n \in Nat /\ over \in Nat /\ power \in Nat /\ over < power
      BY <2>1, SqueezeTypes
    <3>3. c >= n /\ c - r <= n + over - s
      <4>1. c >= n
        BY <2>1, <2>7
      <4>2. RankOf(valid, Ct!m) = c /\ RankOf(valid, s) = r
        BY <2>4, <2>6, <2>7
      <4>3. c - r <= Ct!m - s
        BY <2>5, <4>2
      <4>4. QED
        BY <2>3, <3>1, <3>2, <4>1, <4>3
    <3>4. r \in Nat /\ g \in Nat /\ c \in Nat /\ s \in Nat /\ g = s - r
      BY <2>3, <2>6, <2>7
    <3>5. QED
      BY ONLY <3>2, <3>3, <3>4
  <2>9. power \in Nat \ {0} /\ 2 * power \in Nat \ {0}
    BY SqueezeTypes
  <2>10. Down(g, power) = 0 /\ Down(g, 2 * power) = 0
    BY <2>8, <2>9, DownType
  <2>11. Where(s) = r
    BY <2>6, <2>10 DEF Where, WhereIn
  <2>12. QED
    BY <2>6, <2>11 DEF Squeezing
<1>4. QED
  BY <1>1, <1>2, <1>3 DEF Squeezed
(***************************************************************************)
(* The theorem                                                              *)
(***************************************************************************)

LEMMA SqueezingKept ==
  ASSUME Squeezing, Ct!Next \/ UNCHANGED ctVars
  PROVE  Squeezing'
<1>1. CASE Ct!Next
  BY <1>1, ConsiderKeeps, NextPowerKeeps DEF Ct!Next
<1>2. CASE UNCHANGED ctVars
  BY <1>2 DEF ctVars, Squeezing, Ct!TypeOK, Where
<1>3. QED
  BY <1>1, <1>2

(* The inductive invariant of HashToPoint: the three ways in step, and each *)
(* valid sample where the passes of hash_to_point_ct have brought it.       *)
THEOREM Invariance == HashSpec => [](InStep /\ Squeezing)
<1>1. HashInit => InStep /\ Squeezing
  BY StartedInStep, SqueezeStarts DEF InStep, HashInit
<1>2. InStep /\ Squeezing /\ [HashNext]_<<which, allVars, ctVars>> => (InStep /\ Squeezing)'
  <2>1. SUFFICES ASSUME InStep, Squeezing, [HashNext]_<<which, allVars, ctVars>>
                 PROVE  InStep' /\ Squeezing'
    OBVIOUS
  <2>2. \/ InStepNext /\ UNCHANGED ctVars
        \/ Ct!Next /\ UNCHANGED allVars
        \/ UNCHANGED allVars /\ UNCHANGED ctVars
    BY <2>1 DEF HashNext
  <2>3. QED
    BY <2>1, <2>2, InStepKept, SqueezingKept
<1>3. QED
  BY <1>1, <1>2, PTL DEF HashSpec

(* One sample at a time, from squeezed blocks, and from hashed words: the   *)
(* same point, and the same place in the stream, after every sample         *)
(* (hash_to_point in falcon.py, hashToPointNIST and hashToPointRIP in       *)
(* ZKNOX_HashToPoint.sol).                                                  *)
THEOREM SamePointAlways == HashSpec => [](IInv /\ SamePoint /\ FirstAccepted)
<1>1. InStep /\ Squeezing => IInv /\ SamePoint /\ FirstAccepted
  <2>1. SUFFICES ASSUME InStep, Squeezing
                 PROVE  IInv /\ SamePoint /\ FirstAccepted
    OBVIOUS
  <2>2. SamePoint /\ FirstAccepted
    BY <2>1 DEF InStep, SamePoint, NISTInStep, RIPInStep, PointOf, NIST!Point, RIP!Point, NIST!Read
  <2>3. QED
    BY <2>1, <2>2 DEF InStep, Squeezing, IInv
<1>2. QED
  BY <1>1, Invariance, PTL

(* The passes of hash_to_point_ct (common.c) move samples down into free    *)
(* slots only, keep their order, and leave the first n valid ones in the    *)
(* first n slots.                                                           *)
THEOREM SqueezedAlways == HashSpec => []Squeezed
<1>1. InStep /\ Squeezing => Squeezed
  BY SqueezingShows
<1>2. QED
  BY <1>1, Invariance, PTL

=============================================================================
