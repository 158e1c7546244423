--------------------------- MODULE SamplerZProofs ---------------------------
(***************************************************************************)
(* That both generators of Rng read within their buffers, hand out no byte  *)
(* twice and, but for one case, the same bytes: for any size of a buffer    *)
(* and of a word.  Either generator takes consecutive bytes from the place  *)
(* where it is or from the beginning of the next buffer, and is then after  *)
(* them; the C one is never at the end of a buffer.                         *)
(*                                                                         *)
(* And that the sampler of SamplerZ draws in this way and calls berexp with *)
(* no negative exponent: for any centres, deviations and draws.             *)
(***************************************************************************)
EXTENDS SamplerZ, FiniteSetTheorems, TLAPS

Place == [block : Int, ptr : Nat]

Byte == [block : Int, off : Nat]

(* The byte lies before the place g. *)
Before(b, g) == b.block < g.block \/ (b.block = g.block /\ b.off < g.ptr)

(* No byte before g is also at h or behind it. *)
NotAfter(g, h) == g.block < h.block \/ (g.block = h.block /\ g.ptr <= h.ptr)

(* The bytes s were drawn, in their order, before the generator came to g.  *)
DrawnBefore(s, g) ==
  /\ s \in Seq(Byte)
  /\ Increasing(s)
  /\ \A k \in DOMAIN s : s[k].off < SIZE /\ Before(s[k], g)

(* The Python generator is where the C one is, or has yet to make the       *)
(* buffer at whose beginning the C one is.                                  *)
InStep == chacha = prng \/ (chacha.ptr = SIZE /\ prng = prng_refill(chacha))

IInv ==
  /\ prng \in Place /\ prng.ptr < SIZE
  /\ chacha \in Place /\ chacha.ptr <= SIZE
  /\ DrawnBefore(drawn, prng)
  /\ DrawnBefore(drawnPy, chacha)
  /\ exact \in BOOLEAN
  /\ exact \/ InStep
  /\ SameBytesUnlessExact

(***************************************************************************)
(* Consecutive bytes                                                        *)
(***************************************************************************)

LEMMA ConcatIsSeq ==
  ASSUME NEW S, NEW s \in Seq(S), NEW t \in Seq(S)
  PROVE  /\ s \o t \in Seq(S)
         /\ Len(s \o t) = Len(s) + Len(t)
         /\ \A i \in 1 .. Len(s) : (s \o t)[i] = s[i]
         /\ \A i \in 1 .. Len(t) : (s \o t)[Len(s) + i] = t[i]
OBVIOUS

LEMMA SameSeq ==
  ASSUME NEW S, NEW s \in Seq(S), NEW t \in Seq(S), Len(s) = Len(t),
         \A i \in 1 .. Len(s) : s[i] = t[i]
  PROVE  s = t
OBVIOUS

LEMMA TakeIs ==
  ASSUME NEW g \in Place, NEW k \in Nat
  PROVE  /\ Take(g, k) \in Seq(Byte)
         /\ Len(Take(g, k)) = k
         /\ \A j \in 1 .. k : Take(g, k)[j] = [block |-> g.block, off |-> g.ptr + j - 1]
<1>1. \A j \in 1 .. k : [block |-> g.block, off |-> g.ptr + j - 1] \in Byte
  BY DEF Place, Byte
<1>2. QED
  BY <1>1 DEF Take

(* A word and a byte behind it. *)
LEMMA TakeOneMore ==
  ASSUME NEW g \in Place, NEW h \in Place, NEW k \in Nat,
         h.block = g.block, h.ptr = g.ptr + k
  PROVE  Take(g, k) \o Take(h, 1) = Take(g, k + 1)
<1>1. PICK s \in Seq(Byte) :
        /\ s = Take(g, k) /\ Len(s) = k
        /\ \A j \in 1 .. k : s[j] = [block |-> g.block, off |-> g.ptr + j - 1]
  BY TakeIs
<1>2. PICK t \in Seq(Byte) :
        /\ t = Take(h, 1) /\ Len(t) = 1
        /\ \A j \in 1 .. 1 : t[j] = [block |-> h.block, off |-> h.ptr + j - 1]
  BY TakeIs, 1 \in Nat
<1>3. PICK u \in Seq(Byte) :
        /\ u = Take(g, k + 1) /\ Len(u) = k + 1
        /\ \A j \in 1 .. k + 1 : u[j] = [block |-> g.block, off |-> g.ptr + j - 1]
  BY TakeIs, k + 1 \in Nat
<1>4. PICK v \in Seq(Byte) :
        /\ v = s \o t /\ Len(v) = k + 1
        /\ \A j \in 1 .. k : v[j] = s[j]
        /\ v[k + 1] = t[1]
  <2>1. /\ s \o t \in Seq(Byte)
        /\ Len(s \o t) = Len(s) + Len(t)
        /\ \A i \in 1 .. Len(s) : (s \o t)[i] = s[i]
        /\ \A i \in 1 .. Len(t) : (s \o t)[Len(s) + i] = t[i]
    BY ConcatIsSeq
  <2>2. 1 \in 1 .. Len(t)
    BY <1>2
  <2>3. PICK v \in Seq(Byte) : v = s \o t
    BY <2>1
  <2>4. v[Len(s) + 1] = t[1]
    BY <2>1, <2>2, <2>3
  <2>5. QED
    BY <1>1, <1>2, <2>1, <2>3, <2>4
<1>5. t[1] = [block |-> g.block, off |-> g.ptr + k]
  <2>1. h.ptr + 1 - 1 = g.ptr + k
    BY DEF Place
  <2>2. QED
    BY <1>2, <2>1
<1>6. u[k + 1] = [block |-> g.block, off |-> g.ptr + k]
  <2>1. g.ptr + (k + 1) - 1 = g.ptr + k /\ k + 1 \in 1 .. k + 1
    BY DEF Place
  <2>2. QED
    BY <1>3, <2>1
<1>7. \A j \in 1 .. k + 1 : v[j] = u[j]
  <2>1. ASSUME NEW j \in 1 .. k
        PROVE  v[j] = u[j]
    <3>1. v[j] = s[j] /\ s[j] = [block |-> g.block, off |-> g.ptr + j - 1]
      BY <1>1, <1>4
    <3>2. j \in 1 .. k + 1
      OBVIOUS
    <3>3. QED
      BY <3>1, <3>2, <1>3
  <2>2. \A j \in 1 .. k + 1 : j \in 1 .. k \/ j = k + 1
    OBVIOUS
  <2>3. QED
    BY <2>1, <2>2, <1>4, <1>5, <1>6
<1>8. v = u
  BY <1>3, <1>4, <1>7, SameSeq
<1>9. QED
  BY <1>1, <1>2, <1>3, <1>4, <1>8

(* The next k bytes, and those before them. *)
LEMMA Drawn ==
  ASSUME NEW s, NEW g0 \in Place, DrawnBefore(s, g0),
         NEW g \in Place, NotAfter(g0, g), NEW k \in Nat, g.ptr + k <= SIZE,
         NEW h \in Place, \/ g.block < h.block
                          \/ g.block = h.block /\ g.ptr + k <= h.ptr
  PROVE  /\ DrawnBefore(Take(g, k), h)
         /\ Increasing(s \o Take(g, k))
<1>1. PICK t \in Seq(Byte) :
        /\ t = Take(g, k) /\ Len(t) = k
        /\ \A j \in 1 .. k : t[j] = [block |-> g.block, off |-> g.ptr + j - 1]
  BY TakeIs
<1>2. \A j \in 1 .. k : t[j].block = g.block /\ t[j].off = g.ptr + j - 1
  BY <1>1
<1>3. s \in Seq(Byte) /\ Increasing(s)
  BY DEF DrawnBefore
<1>4. DOMAIN t = 1 .. k /\ DOMAIN s = 1 .. Len(s) /\ Len(s) \in Nat
  BY <1>1, <1>3
<1>5. \A i \in 1 .. Len(s) : s[i] \in Byte
  BY <1>3, <1>4
<1>6. \A i, j \in 1 .. Len(s) : i < j => Later(s[i], s[j])
  BY <1>3, <1>4 DEF Increasing
<1>7. ASSUME NEW i \in 1 .. k, NEW j \in 1 .. k, i < j
      PROVE  Later(t[i], t[j])
  <2>1. /\ t[i].block = g.block /\ t[i].off = g.ptr + i - 1
        /\ t[j].block = g.block /\ t[j].off = g.ptr + j - 1
    BY <1>2
  <2>2. g.ptr + i - 1 < g.ptr + j - 1
    BY <1>7 DEF Place
  <2>3. QED
    BY <2>1, <2>2 DEF Later
<1>8. ASSUME NEW i \in 1 .. Len(s), NEW j \in 1 .. k
      PROVE  Later(s[i], t[j])
  <2>1. Before(s[i], g0)
    BY <1>4 DEF DrawnBefore
  <2>2. s[i].block \in Int /\ s[i].off \in Nat
    BY <1>5 DEF Byte
  <2>3. t[j].block = g.block /\ t[j].off = g.ptr + j - 1
    BY <1>2
  <2>4. /\ s[i].block < g0.block \/ (s[i].block = g0.block /\ s[i].off < g0.ptr)
        /\ g0.block < g.block \/ (g0.block = g.block /\ g0.ptr <= g.ptr)
    BY <2>1 DEF Before, NotAfter
  <2>5. /\ g0.block \in Int /\ g0.ptr \in Nat
        /\ g.block \in Int /\ g.ptr \in Nat
    BY DEF Place
  <2>6. s[i].block < g.block \/ (s[i].block = g.block /\ s[i].off < g.ptr + j - 1)
    <3>1. PICK a \in Int, x \in Nat : a = s[i].block /\ x = s[i].off
      BY <2>2
    <3>2. PICK b \in Int, y \in Nat : b = g0.block /\ y = g0.ptr
      BY <2>5
    <3>3. PICK c \in Int, w \in Nat : c = g.block /\ w = g.ptr
      BY <2>5
    <3>4. (a < b \/ (a = b /\ x < y)) /\ (b < c \/ (b = c /\ y <= w))
      BY <2>4, <3>1, <3>2, <3>3
    <3>5. a < c \/ (a = c /\ x < w + j - 1)
      BY <3>4
    <3>6. QED
      BY <3>1, <3>3, <3>5
  <2>7. QED
    BY <2>3, <2>6 DEF Later
<1>9. DrawnBefore(t, h)
  <2>1. Increasing(t)
    BY <1>4, <1>7 DEF Increasing
  <2>2. ASSUME NEW j \in 1 .. k
        PROVE  t[j].off < SIZE /\ Before(t[j], h)
    <3>1. /\ g.block \in Int /\ h.block \in Int
          /\ g.ptr \in Nat /\ h.ptr \in Nat /\ SIZE \in Nat
      BY RngAssumption DEF RngAssumption, Place
    <3>2. t[j].block = g.block /\ t[j].off = g.ptr + j - 1
      BY <1>2
    <3>3. g.ptr + j - 1 < SIZE
      BY <3>1
    <3>4. g.block < h.block \/ (g.block = h.block /\ g.ptr + j - 1 < h.ptr)
      BY <3>1
    <3>5. QED
      BY <3>2, <3>3, <3>4 DEF Before
  <2>3. QED
    BY <1>1, <1>4, <2>1, <2>2 DEF DrawnBefore
<1>10. Increasing(s \o t)
  <2>1. PICK v \in Seq(Byte) :
          /\ v = s \o t /\ Len(v) = Len(s) + k
          /\ \A i \in 1 .. Len(s) : v[i] = s[i]
          /\ \A i \in 1 .. k : v[Len(s) + i] = t[i]
    <3>1. /\ s \o t \in Seq(Byte)
          /\ Len(s \o t) = Len(s) + Len(t)
          /\ \A i \in 1 .. Len(s) : (s \o t)[i] = s[i]
          /\ \A i \in 1 .. Len(t) : (s \o t)[Len(s) + i] = t[i]
      BY <1>3, ConcatIsSeq
    <3>2. PICK v \in Seq(Byte) : v = s \o t
      BY <3>1
    <3>3. QED
      BY <1>1, <3>1, <3>2
  <2>2. DOMAIN v = 1 .. Len(s) + k
    BY <2>1
  <2>3. ASSUME NEW i \in 1 .. Len(s) + k, NEW j \in 1 .. Len(s) + k, i < j
        PROVE  Later(v[i], v[j])
    <3>1. CASE j <= Len(s)
      <4>1. i \in 1 .. Len(s) /\ j \in 1 .. Len(s)
        BY <3>1, <2>3, <1>4
      <4>2. QED
        BY <4>1, <2>1, <2>3, <1>6
    <3>2. CASE i > Len(s)
      <4>1. PICK a \in 1 .. k, b \in 1 .. k : i = Len(s) + a /\ j = Len(s) + b /\ a < b
        <5>1. /\ i - Len(s) \in 1 .. k /\ j - Len(s) \in 1 .. k
              /\ i = Len(s) + (i - Len(s)) /\ j = Len(s) + (j - Len(s))
              /\ i - Len(s) < j - Len(s)
          BY <3>2, <2>3, <1>4
        <5>2. QED
          BY <5>1
      <4>2. QED
        BY <4>1, <2>1, <1>7
    <3>3. CASE i <= Len(s) /\ j > Len(s)
      <4>1. PICK b \in 1 .. k : j = Len(s) + b
        <5>1. j - Len(s) \in 1 .. k /\ j = Len(s) + (j - Len(s))
          BY <3>3, <1>4
        <5>2. QED
          BY <5>1
      <4>2. i \in 1 .. Len(s)
        BY <3>3, <1>4
      <4>3. QED
        BY <4>1, <4>2, <2>1, <1>8
    <3>4. QED
      BY <3>1, <3>2, <3>3, <1>4
  <2>4. QED
    BY <2>1, <2>2, <2>3 DEF Increasing
<1>11. QED
  BY <1>1, <1>9, <1>10

LEMMA NothingDrawn == \A g : DrawnBefore(<< >>, g)
BY DEF DrawnBefore, Increasing

(***************************************************************************)
(* One draw of each generator, of k bytes from g on.                        *)
(***************************************************************************)

(* The C generator is then behind them, or at the beginning of a buffer.    *)
LEMMA DrawC ==
  ASSUME NEW s, NEW g0 \in Place, g0.ptr < SIZE, DrawnBefore(s, g0),
         NEW g \in Place, g = g0 \/ g = prng_refill(g0),
         NEW k \in Nat, g.ptr + k <= SIZE,
         NEW h, h = IF g.ptr + k = SIZE THEN [block |-> g.block + 1, ptr |-> 0]
                                        ELSE [block |-> g.block, ptr |-> g.ptr + k]
  PROVE  /\ h \in Place /\ h.ptr < SIZE
         /\ DrawnBefore(Take(g, k), h)
         /\ Increasing(s \o Take(g, k))
<1>1. SIZE \in Nat
  BY RngAssumption DEF RngAssumption
<1>2. NotAfter(g0, g)
  BY DEF NotAfter, prng_refill, Place
<1>3. h \in Place /\ h.ptr < SIZE
  BY <1>1 DEF Place
<1>4. g.block < h.block \/ (g.block = h.block /\ g.ptr + k <= h.ptr)
  BY <1>1 DEF Place
<1>5. QED
  BY <1>2, <1>3, <1>4, Drawn

(* The Python generator may be at the end of its buffer.                    *)
LEMMA DrawPy ==
  ASSUME NEW s, NEW g0 \in Place, DrawnBefore(s, g0),
         NEW g \in Place, g = g0 \/ g = prng_refill(g0),
         NEW k \in Nat, g.ptr + k <= SIZE,
         NEW h, h = [block |-> g.block, ptr |-> g.ptr + k]
  PROVE  /\ h \in Place /\ h.ptr <= SIZE
         /\ DrawnBefore(Take(g, k), h)
         /\ Increasing(s \o Take(g, k))
<1>1. NotAfter(g0, g)
  BY DEF NotAfter, prng_refill, Place
<1>2. h \in Place /\ h.ptr <= SIZE
  BY DEF Place
<1>3. g.block < h.block \/ (g.block = h.block /\ g.ptr + k <= h.ptr)
  BY DEF Place
<1>4. QED
  BY <1>1, <1>2, <1>3, Drawn

LEMMA SkipIs ==
  ASSUME NEW g \in Place, NEW k \in Nat
  PROVE  Skip(g, k) = [block |-> g.block, ptr |-> g.ptr + k] /\ Skip(g, k) \in Place
BY DEF Skip, Place

LEMMA AfterByteIs ==
  ASSUME NEW g \in Place
  PROVE  AfterByte(g) = IF g.ptr + 1 = SIZE THEN [block |-> g.block + 1, ptr |-> 0]
                                            ELSE [block |-> g.block, ptr |-> g.ptr + 1]
BY DEF AfterByte, Skip, prng_refill, Place

LEMMA RefillIs ==
  ASSUME NEW g \in Place
  PROVE  prng_refill(g) \in Place /\ prng_refill(g).ptr = 0
BY DEF prng_refill, Place

LEMMA ReadyForIs ==
  ASSUME NEW g \in Place, g.ptr <= SIZE, NEW k \in Nat, k < SIZE
  PROVE  \E p \in Place :
           /\ p = ReadyFor(g, k)
           /\ p = g \/ p = prng_refill(g)
           /\ p.ptr + k <= SIZE
           /\ Left(g) >= k => p = g
           /\ Left(g) < k => p = prng_refill(g)
<1>1. SIZE \in Nat /\ Left(g) \in Nat /\ Left(g) = SIZE - g.ptr /\ g.ptr \in Nat
  BY RngAssumption DEF RngAssumption, Left, Place
<1>2. CASE k > Left(g)
  <2>1. ReadyFor(g, k) = prng_refill(g)
    BY <1>2 DEF ReadyFor
  <2>2. prng_refill(g).ptr + k <= SIZE
    BY <1>1, RefillIs
  <2>3. QED
    BY <1>1, <1>2, <2>1, <2>2, RefillIs
<1>3. CASE ~(k > Left(g))
  <2>1. ReadyFor(g, k) = g
    BY <1>3 DEF ReadyFor
  <2>2. g.ptr + k <= SIZE
    BY <1>1, <1>3
  <2>3. QED
    BY <1>1, <1>3, <2>1, <2>2
<1>4. QED
  BY <1>2, <1>3

LEMMA ReadyForWordIs ==
  ASSUME NEW g \in Place, g.ptr < SIZE
  PROVE  \E p \in Place :
           /\ p = ReadyForWord(g)
           /\ p = g \/ p = prng_refill(g)
           /\ p.ptr + (WORD + 1) <= SIZE
           /\ Left(g) > WORD + 1 => p = g
           /\ Left(g) <= WORD + 1 => p = prng_refill(g)
<1>1. /\ SIZE \in Nat /\ WORD \in Nat /\ WORD + 1 < SIZE
      /\ Left(g) = SIZE - g.ptr /\ g.ptr \in Nat
  BY RngAssumption DEF RngAssumption, Left, Place
<1>2. CASE g.ptr >= SIZE - (WORD + 1)
  <2>1. ReadyForWord(g) = prng_refill(g)
    BY <1>2 DEF ReadyForWord
  <2>2. prng_refill(g).ptr + (WORD + 1) <= SIZE
    BY <1>1, RefillIs
  <2>3. Left(g) <= WORD + 1
    BY <1>1, <1>2
  <2>4. QED
    BY <1>1, <2>1, <2>2, <2>3, RefillIs
<1>3. CASE ~(g.ptr >= SIZE - (WORD + 1))
  <2>1. ReadyForWord(g) = g
    BY <1>3 DEF ReadyForWord
  <2>2. g.ptr + (WORD + 1) <= SIZE /\ Left(g) > WORD + 1
    BY <1>1, <1>3
  <2>3. QED
    BY <1>1, <2>1, <2>2
<1>4. QED
  BY <1>2, <1>3

(***************************************************************************)
(* The draws of the sampler                                                 *)
(***************************************************************************)

(* What a draw shows of the bytes it takes. *)
Goal == /\ IInv'
        /\ Increasing(drawn \o drawn')
        /\ Increasing(drawnPy \o drawnPy')

LEMMA ByteDrawn ==
  ASSUME IInv, DrawByte
  PROVE  Goal
<1>1. SIZE \in Nat /\ SIZE > 1
  BY RngAssumption DEF RngAssumption
<1>2. /\ prng \in Place /\ prng.ptr < SIZE /\ DrawnBefore(drawn, prng)
      /\ chacha \in Place /\ chacha.ptr <= SIZE /\ DrawnBefore(drawnPy, chacha)
  BY DEF IInv
<1>3. PICK p \in Place :
        /\ p = ReadyFor(chacha, 1)
        /\ p = chacha \/ p = prng_refill(chacha)
        /\ p.ptr + 1 <= SIZE
        /\ chacha.ptr < SIZE => p = chacha
        /\ chacha.ptr = SIZE => p = prng_refill(chacha)
  <2>1. /\ Left(chacha) = SIZE - chacha.ptr
        /\ chacha.ptr < SIZE => Left(chacha) >= 1
        /\ chacha.ptr = SIZE => Left(chacha) < 1
    BY <1>1, <1>2 DEF Left, Place
  <2>2. QED
    BY <1>1, <1>2, <2>1, ReadyForIs, 1 \in Nat
<1>4. /\ drawn' = Take(prng, 1) /\ prng' = AfterByte(prng)
      /\ drawnPy' = Take(p, 1) /\ chacha' = Skip(p, 1)
      /\ exact' = exact
  BY <1>3 DEF DrawByte
<1>5. /\ prng' = IF prng.ptr + 1 = SIZE THEN [block |-> prng.block + 1, ptr |-> 0]
                                        ELSE [block |-> prng.block, ptr |-> prng.ptr + 1]
      /\ chacha' = [block |-> p.block, ptr |-> p.ptr + 1]
  BY <1>2, <1>4, AfterByteIs, SkipIs, 1 \in Nat
<1>6. /\ prng' \in Place /\ prng'.ptr < SIZE
      /\ DrawnBefore(Take(prng, 1), prng')
      /\ Increasing(drawn \o Take(prng, 1))
  <2>1. prng.ptr + 1 <= SIZE
    BY <1>1, <1>2 DEF Place
  <2>2. QED
    BY <1>2, <1>5, <2>1, DrawC, 1 \in Nat
<1>7. /\ chacha' \in Place /\ chacha'.ptr <= SIZE
      /\ DrawnBefore(Take(p, 1), chacha')
      /\ Increasing(drawnPy \o Take(p, 1))
  BY <1>2, <1>3, <1>5, DrawPy, 1 \in Nat
<1>8. ~exact => p = prng
  BY <1>2, <1>3 DEF IInv, InStep
<1>9. ~exact => InStep'
  BY <1>2, <1>5, <1>8 DEF InStep, prng_refill, Place
<1>10. QED
  BY <1>4, <1>6, <1>7, <1>8, <1>9 DEF Goal, IInv, SameBytesUnlessExact, DrawnBefore

LEMMA WordDrawn ==
  ASSUME IInv, BaseSampler
  PROVE  Goal
<1> DEFINE k == WORD + 1
<1>1. SIZE \in Nat /\ WORD \in Nat /\ k \in Nat /\ k < SIZE
  BY RngAssumption DEF RngAssumption
<1>2. /\ prng \in Place /\ prng.ptr < SIZE /\ DrawnBefore(drawn, prng)
      /\ chacha \in Place /\ chacha.ptr <= SIZE /\ DrawnBefore(drawnPy, chacha)
      /\ exact \in BOOLEAN
  BY DEF IInv
<1>3. PICK g \in Place :
        /\ g = ReadyForWord(prng)
        /\ g = prng \/ g = prng_refill(prng)
        /\ g.ptr + k <= SIZE
        /\ Left(prng) > k => g = prng
        /\ Left(prng) <= k => g = prng_refill(prng)
  BY <1>2, ReadyForWordIs
<1>4. PICK p \in Place :
        /\ p = ReadyFor(chacha, k)
        /\ p = chacha \/ p = prng_refill(chacha)
        /\ p.ptr + k <= SIZE
        /\ Left(chacha) >= k => p = chacha
        /\ Left(chacha) < k => p = prng_refill(chacha)
  BY <1>1, <1>2, ReadyForIs
<1>5. PICK h \in Place :
        h = Skip(g, WORD) /\ h.block = g.block /\ h.ptr = g.ptr + WORD
  <2>1. Skip(g, WORD) = [block |-> g.block, ptr |-> g.ptr + WORD] /\ Skip(g, WORD) \in Place
    BY <1>1, SkipIs
  <2>2. QED
    BY <2>1
<1>6. /\ drawn' = Take(g, k)
      /\ drawnPy' = Take(p, k)
  <2>1. drawn' = Take(g, WORD) \o Take(h, 1) /\ drawnPy' = Take(p, k)
    BY <1>3, <1>4, <1>5 DEF BaseSampler
  <2>2. QED
    BY <2>1, <1>1, <1>5, TakeOneMore
<1>7. /\ prng' = IF g.ptr + k = SIZE THEN [block |-> g.block + 1, ptr |-> 0]
                                     ELSE [block |-> g.block, ptr |-> g.ptr + k]
      /\ chacha' = [block |-> p.block, ptr |-> p.ptr + k]
  <2>1. prng' = AfterByte(h) /\ chacha' = Skip(p, k)
    BY <1>3, <1>4, <1>5 DEF BaseSampler
  <2>2. h.ptr + 1 = g.ptr + k
    BY <1>1, <1>5 DEF Place
  <2>3. QED
    BY <2>1, <2>2, <1>1, <1>5, AfterByteIs, SkipIs
<1>8. exact' = (exact \/ Left(prng) = k \/ Left(chacha) = k)
  BY DEF BaseSampler
<1> HIDE DEF k
<1>9. /\ prng' \in Place /\ prng'.ptr < SIZE
      /\ DrawnBefore(Take(g, k), prng')
      /\ Increasing(drawn \o Take(g, k))
  BY <1>1, <1>2, <1>3, <1>7, DrawC
<1>10. /\ chacha' \in Place /\ chacha'.ptr <= SIZE
       /\ DrawnBefore(Take(p, k), chacha')
       /\ Increasing(drawnPy \o Take(p, k))
  BY <1>1, <1>2, <1>4, <1>7, DrawPy
<1>11. ~exact' => p = g
  <2>1. SUFFICES ASSUME ~exact, Left(prng) # k, Left(chacha) # k
                 PROVE  p = g
    BY <1>8
  <2>2. InStep
    BY <2>1 DEF IInv
  <2>3. Left(prng) \in Int /\ Left(chacha) \in Int
    BY <1>1, <1>2 DEF Left, Place
  <2>4. CASE chacha = prng
    BY <2>1, <2>3, <2>4, <1>1, <1>3, <1>4
  <2>5. CASE chacha.ptr = SIZE /\ prng = prng_refill(chacha)
    <3>1. Left(prng) = SIZE /\ Left(chacha) = 0
      BY <2>5, <1>1 DEF Left, prng_refill
    <3>2. g = prng
      BY <3>1, <1>1, <1>3
    <3>3. p = prng_refill(chacha)
      BY <3>1, <2>1, <1>1, <1>4
    <3>4. QED
      BY <2>5, <3>2, <3>3
  <2>6. QED
    BY <2>2, <2>4, <2>5 DEF InStep
<1>12. ~exact' => InStep'
  BY <1>7, <1>11 DEF InStep, prng_refill, Place
<1>13. exact' \in BOOLEAN
  BY <1>8
<1>14. QED
  BY <1>6, <1>9, <1>10, <1>11, <1>12, <1>13 DEF Goal, IInv, SameBytesUnlessExact, DrawnBefore

(***************************************************************************)
(* The theorems                                                             *)
(***************************************************************************)

LEMMA Started ==
  ASSUME prng = Filled, chacha = Unfilled, drawn = << >>, drawnPy = << >>, exact = FALSE
  PROVE  IInv
<1>1. SIZE \in Nat /\ SIZE > 0
  BY RngAssumption DEF RngAssumption
<1>2. prng \in Place /\ prng.ptr < SIZE /\ chacha \in Place /\ chacha.ptr <= SIZE
  BY <1>1 DEF Filled, Unfilled, Place
<1>3. InStep
  BY DEF Filled, Unfilled, InStep, prng_refill
<1>4. QED
  BY <1>2, <1>3, NothingDrawn DEF IInv, SameBytesUnlessExact

LEMMA Step ==
  ASSUME IInv, Next
  PROVE  /\ IInv'
         /\ drawn' # << >> => Increasing(drawn \o drawn') /\ Increasing(drawnPy \o drawnPy')
<1>1. CASE BaseSampler
  BY <1>1, WordDrawn DEF Goal
<1>2. CASE SignBit
  BY <1>2, ByteDrawn DEF Goal, SignBit
<1>3. CASE BerExp
  BY <1>3, ByteDrawn DEF Goal, BerExp
<1>4. CASE NewAttempt
  <2>1. /\ prng' = Filled /\ chacha' = Unfilled
        /\ drawn' = << >> /\ drawnPy' = << >> /\ exact' = FALSE
    BY <1>4 DEF NewAttempt
  <2>2. (prng = Filled /\ chacha = Unfilled /\ drawn = << >> /\ drawnPy = << >> /\ exact = FALSE)'
    BY <2>1 DEF Filled, Unfilled
  <2>3. (prng = Filled /\ chacha = Unfilled /\ drawn = << >> /\ drawnPy = << >> /\ exact = FALSE
           => IInv)'
    BY Started, PTL
  <2>4. IInv'
    BY <2>2, <2>3
  <2>5. QED
    BY <2>1, <2>4
<1>5. QED
  BY <1>1, <1>2, <1>3, <1>4 DEF Next

(* The invariant from which the rest follows: where the two generators are  *)
(* and what they have handed out (rng.c, inner.h, rng.py).                  *)
THEOREM Invariance == Spec => []IInv
<1>1. Init => IInv
  BY Started DEF Init
<1>2. IInv /\ [Next]_vars => IInv'
  <2>1. SUFFICES ASSUME IInv, [Next]_vars
                 PROVE  IInv'
    OBVIOUS
  <2>2. CASE Next
    BY <2>1, <2>2, Step
  <2>3. CASE UNCHANGED vars
    BY <2>1, <2>3 DEF vars, IInv, InStep, SameBytesUnlessExact
  <2>4. QED
    BY <2>1, <2>2, <2>3
<1>3. QED
  BY <1>1, <1>2, PTL DEF Spec

(* Neither generator is ever read beyond its buffer, whatever the sampler   *)
(* draws (prng_get_u64 and prng_get_u8 in inner.h).                         *)
THEOREM InBounds == Spec => []ReadsInBounds
<1>1. IInv => ReadsInBounds
  BY DEF IInv, DrawnBefore, ReadsInBounds
<1>2. QED
  BY <1>1, Invariance, PTL

(* The two generators hand out the same bytes until a sample begins with    *)
(* exactly a word and a byte left (rng.py and inner.h).                     *)
THEOREM SameUnlessExact == Spec => []SameBytesUnlessExact
<1>1. IInv => SameBytesUnlessExact
  BY DEF IInv
<1>2. QED
  BY <1>1, Invariance, PTL

(* No random byte is used for two draws of an attempt.                      *)
THEOREM BytesUsedOnce == Spec => EachByteOnce
<1> DEFINE A == drawn' # << >> => Increasing(drawn \o drawn') /\ Increasing(drawnPy \o drawnPy')
<1>1. IInv /\ [Next]_vars => [A]_vars
  BY Step
<1>2. QED
  BY <1>1, Invariance, PTL DEF Spec, EachByteOnce

(***************************************************************************)
(* The sampler                                                              *)
(***************************************************************************)

(* samplerz draws nothing but what Rng lets it draw: what holds of the      *)
(* generators there holds here.                                             *)
THEOREM SamplerDraws == SamplerSpec => Spec
<1>1. SamplerInit => Init
  BY DEF SamplerInit
<1>2. [SamplerNext]_<<vars, sampler>> => [Next]_vars
  BY DEF SamplerNext, Base, Sign, berexp, Again, Next
<1>3. QED
  BY <1>1, <1>2, PTL DEF SamplerSpec, Spec

(* How many entries of the table are above the draw. *)
LEMMA BaseSampleIsNat == \A u : basesampler(u) \in Nat
<1>1. IsFiniteSet(DOMAIN RCDT)
  <2>1. DOMAIN RCDT = 1 .. 18
    BY DEF RCDT
  <2>2. IsFiniteSet(1 .. 18)
    <3>1. 1 \in Int /\ 18 \in Int
      OBVIOUS
    <3>2. QED
      BY <3>1, FS_Interval, Zenon
  <2>3. QED
    BY <2>1, <2>2
<1>2. ASSUME NEW u
      PROVE  basesampler(u) \in Nat
  <2>1. IsFiniteSet({k \in DOMAIN RCDT : WideLess(u, RCDT[k])})
    BY <1>1, FS_Subset, Zenon
  <2>2. QED
    BY <2>1, FS_CardinalityType, Zenon DEF basesampler
<1>3. QED
  BY <1>2

(* A product grows with either factor. *)
LEMMA TimesMonotone ==
  ASSUME NEW a \in Nat, NEW b \in Nat, NEW c \in Nat, NEW d \in Nat, a <= b, c <= d
  PROVE  a * c <= b * d
<1>1. PICK e \in Nat, f \in Nat : b = a + e /\ d = c + f
  <2>1. b - a \in Nat /\ d - c \in Nat /\ b = a + (b - a) /\ d = c + (d - c)
    OBVIOUS
  <2>2. QED
    BY <2>1
<1>2. b * d = a * c + (a * f + e * c + e * f)
  BY <1>1
<1>3. a * f \in Nat /\ e * c \in Nat /\ e * f \in Nat /\ a * c \in Nat
  OBVIOUS
<1>4. QED
  BY <1>2, <1>3

(* The sample is z0 + 1 or -z0: at least z0 away from the centre, which     *)
(* lies between 0 and 1.                                                    *)
SamplerInv ==
  /\ mu \in Centres /\ sigma \in Deviations /\ z0 \in Nat
  /\ pc = "berexp" => z \in {z0 + 1, -z0}

LEMMA AwayFromCentre ==
  ASSUME SamplerInv, pc = "berexp"
  PROVE  ExponentNotNegative
<1>1. PICK m1 \in Nat, m2 \in Nat : mu = <<m1, m2>> /\ m1 < m2
  BY SamplerZAssumption DEF SamplerInv
<1>2. PICK s1 \in Nat, s2 \in Nat : sigma = <<s1, s2>> /\ s1 * 2000 < 3641 * s2
  BY SamplerZAssumption DEF SamplerInv, Below, MAX_SIGMA
<1>3. z0 \in Nat /\ z \in {z0 + 1, -z0}
  BY DEF SamplerInv
<1> DEFINE d == IF z * m2 > m1 THEN z * m2 - m1 ELSE m1 - z * m2
<1>4. d \in Nat /\ z0 * m2 <= d
  <2>1. z0 * m2 \in Nat
    BY <1>3
  <2>2. CASE z = z0 + 1
    <3>1. z * m2 = z0 * m2 + m2
      BY <1>3, <2>2
    <3>2. QED
      BY <1>1, <2>1, <3>1
  <2>3. CASE z = -z0
    <3>1. z * m2 = -(z0 * m2)
      BY <1>3, <2>3
    <3>2. QED
      BY <1>1, <2>1, <3>1
  <2>4. QED
    BY <1>3, <2>2, <2>3
<1> HIDE DEF d
<1>5. z0 * m2 \in Nat /\ s1 * 2000 \in Nat /\ 3641 * s2 \in Nat /\ s1 * 2000 <= 3641 * s2
  BY <1>2, <1>3
<1>6. (z0 * m2) * (s1 * 2000) <= d * (3641 * s2)
  BY <1>4, <1>5, TimesMonotone
<1>7. d * s2 * 3641 >= z0 * 2000 * m2 * s1
  <2>1. (z0 * m2) * (s1 * 2000) = z0 * 2000 * m2 * s1
    BY <1>3
  <2>2. d * (3641 * s2) = d * s2 * 3641
    BY <1>4
  <2>3. QED
    BY <1>6, <2>1, <2>2
<1>8. mu[1] = m1 /\ mu[2] = m2 /\ sigma[1] = s1 /\ sigma[2] = s2
  BY <1>1, <1>2
<1>9. QED
  BY <1>7, <1>8 DEF ExponentNotNegative, MAX_SIGMA, d

LEMMA SamplerStep ==
  ASSUME SamplerInv, [SamplerNext]_<<vars, sampler>>
  PROVE  SamplerInv'
<1>1. CASE Base
  <2>1. z0' \in Nat /\ pc' = "sign"
    BY <1>1, BaseSampleIsNat DEF Base, BaseSampler
  <2>2. mu' \in Centres /\ sigma' \in Deviations
    BY <1>1 DEF Base, SamplerInv
  <2>3. QED
    BY <2>1, <2>2 DEF SamplerInv
<1>2. CASE Sign
  <2>1. PICK b \in {0, 1} : z' = Sample(b)
    BY <1>2 DEF Sign
  <2>2. z' \in {z0 + 1, -z0}
    BY <2>1 DEF Sample, SamplerInv
  <2>3. UNCHANGED <<mu, sigma, z0>>
    BY <1>2 DEF Sign
  <2>4. QED
    BY <2>2, <2>3 DEF SamplerInv
<1>3. CASE berexp
  BY <1>3 DEF berexp, BerExp, SamplerInv
<1>4. CASE Again
  BY <1>4 DEF Again, NewAttempt, SamplerInv
<1>5. CASE UNCHANGED <<vars, sampler>>
  BY <1>5 DEF vars, sampler, SamplerInv
<1>6. QED
  BY <1>1, <1>2, <1>3, <1>4, <1>5 DEF SamplerNext

(* berexp is never called with a negative exponent, which its docstring     *)
(* requires, whatever the centre, the deviation and the draws are.          *)
THEOREM ExponentAlwaysNotNegative == SamplerSpec => []ExponentNotNegative
<1>1. SamplerInit => SamplerInv
  BY DEF SamplerInit, Init, SamplerInv
<1>2. SamplerInv /\ [SamplerNext]_<<vars, sampler>> => SamplerInv'
  BY SamplerStep
<1>3. SamplerInv => ExponentNotNegative
  <2>1. pc # "berexp" => ExponentNotNegative
    BY DEF ExponentNotNegative
  <2>2. QED
    BY <2>1, AwayFromCentre
<1>4. QED
  BY <1>1, <1>2, <1>3, PTL DEF SamplerSpec

=============================================================================
