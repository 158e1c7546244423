--------------------------- MODULE SpongesProofs ---------------------------
(***************************************************************************)
(* That the eager sponge is an extendable-output function and the lazy one  *)
(* the same: for any rate, any bytes, and calls of any lengths.  The blocks *)
(* that were permuted are the full blocks of the message, the buffer is the *)
(* rest of it; both sponges go through the same blocks, the lazy one at     *)
(* times one permutation behind.                                            *)
(***************************************************************************)
EXTENDS MCXofs, WellFoundedInduction, TLAPS

Assumption == SpongeAssumption /\ ShakeAssumption

(***************************************************************************)
(* Sequences and places                                                     *)
(***************************************************************************)

LEMMA ConcatIsSeq ==
  ASSUME NEW S, NEW s \in Seq(S), NEW t \in Seq(S)
  PROVE  /\ s \o t \in Seq(S)
         /\ Len(s \o t) = Len(s) + Len(t)
         /\ \A k \in 1 .. Len(s) : (s \o t)[k] = s[k]
         /\ \A k \in 1 .. Len(t) : (s \o t)[Len(s) + k] = t[k]
OBVIOUS

(* The same of a sequence with a name. *)
LEMMA Concat ==
  ASSUME NEW S, NEW s \in Seq(S), NEW t \in Seq(S), NEW n, Len(t) = n
  PROVE  /\ s \o t \in Seq(S)
         /\ Len(s \o t) = Len(s) + n
         /\ \A k \in 1 .. Len(s) : (s \o t)[k] = s[k]
         /\ \A k \in 1 .. n : (s \o t)[Len(s) + k] = t[k]
<1>1. /\ s \o t \in Seq(S)
      /\ Len(s \o t) = Len(s) + Len(t)
      /\ \A k \in 1 .. Len(s) : (s \o t)[k] = s[k]
      /\ \A k \in 1 .. Len(t) : (s \o t)[Len(s) + k] = t[k]
  BY ONLY s \in Seq(S), t \in Seq(S), ConcatIsSeq
<1>2. QED
  BY <1>1, Zenon

LEMMA SameSeq ==
  ASSUME NEW S, NEW s \in Seq(S), NEW t \in Seq(S), Len(s) = Len(t),
         \A k \in 1 .. Len(s) : s[k] = t[k]
  PROVE  s = t
OBVIOUS

LEMMA AppendIsSeq ==
  ASSUME NEW S, NEW s \in Seq(S), NEW e \in S
  PROVE  /\ Append(s, e) \in Seq(S)
         /\ Len(Append(s, e)) = Len(s) + 1
         /\ \A k \in 1 .. Len(s) : Append(s, e)[k] = s[k]
         /\ Append(s, e)[Len(s) + 1] = e
OBVIOUS

(* A sequence cut in two. *)
LEMMA Cut ==
  ASSUME NEW S, NEW s \in Seq(S), NEW w \in 0 .. Len(s)
  PROVE  /\ SubSeq(s, 1, w) \in Seq(S) /\ Len(SubSeq(s, 1, w)) = w
         /\ \A k \in 1 .. w : SubSeq(s, 1, w)[k] = s[k]
         /\ SubSeq(s, w + 1, Len(s)) \in Seq(S)
         /\ Len(SubSeq(s, w + 1, Len(s))) = Len(s) - w
OBVIOUS

LEMMA DivMod ==
  ASSUME NEW h \in Nat \ {0}, NEW b \in Nat, NEW o \in 0 .. h - 1
  PROVE  (b * h + o) \div h = b /\ (b * h + o) % h = o
OBVIOUS

(***************************************************************************)
(* All that the rest needs of multiplication: BlockStart stays folded.      *)
(***************************************************************************)
LEMMA Starts ==
  ASSUME Assumption, NEW b \in Nat
  PROVE  /\ BlockStart(1) = 0
         /\ BlockStart(b + 1) \in Nat
         /\ BlockStart(b + 2) = BlockStart(b + 1) + RATE
         /\ \A j \in 1 .. b : BlockStart(j) \in Nat /\ BlockStart(j) + RATE <= BlockStart(b + 1)
<1>1. RATE \in Nat \ {0}
  BY DEF Assumption, SpongeAssumption
<1>2. ASSUME NEW h \in Nat
      PROVE  /\ (1 - 1) * h = 0
             /\ (b + 1 - 1) * h \in Nat
             /\ (b + 2 - 1) * h = (b + 1 - 1) * h + h
  <2>1. (b + 2 - 1) * h = (b + 1) * h /\ (b + 1 - 1) * h = b * h /\ (1 - 1) * h = 0
    OBVIOUS
  <2>2. (b + 1) * h = b * h + h /\ b * h \in Nat
    OBVIOUS
  <2>3. QED
    BY <2>1, <2>2
<1>3. ASSUME NEW h \in Nat, NEW j \in 1 .. b
      PROVE  (j - 1) * h \in Nat /\ (j - 1) * h + h <= (b + 1 - 1) * h
  <2>1. PICK d \in Nat : b = j + d
    <3>1. b - j \in Nat /\ b = j + (b - j)
      OBVIOUS
    <3>2. QED
      BY <3>1
  <2>2. PICK c \in Nat : j = c + 1
    <3>1. j - 1 \in Nat /\ j = (j - 1) + 1
      OBVIOUS
    <3>2. QED
      BY <3>1
  <2>3. (b + 1 - 1) * h = (c + 1 + d) * h /\ (j - 1) * h = c * h
    BY <2>1, <2>2
  <2>4. (c + 1 + d) * h = c * h + h + d * h /\ d * h \in Nat /\ c * h \in Nat
    OBVIOUS
  <2>5. QED
    BY <2>3, <2>4
<1>4. QED
  BY <1>1, <1>2, <1>3 DEF BlockStart

(* Where a byte of the stream, or of the message, lies. *)
LEMMA PlaceOf ==
  ASSUME Assumption, NEW b \in Nat, NEW o \in Cell
  PROVE  /\ (BlockStart(b + 1) + o) \div RATE = b
         /\ (BlockStart(b + 1) + o) % RATE = o
<1>1. RATE \in Nat \ {0} /\ o \in 0 .. RATE - 1
  BY DEF Assumption, SpongeAssumption, Cell
<1>2. BlockStart(b + 1) = b * RATE
  BY <1>1 DEF BlockStart
<1>3. QED
  BY <1>1, <1>2, DivMod

LEMMA BlockTypes ==
  ASSUME Assumption
  PROVE  /\ ZeroBlock \in Block
         /\ \A b \in Block : \A c : Padded(b, c) \in Block
         /\ \A m \in Seq(Byte), j \in Nat \ {0} : MessageBlock(m, j) \in Block
<1>1. ZeroBlock \in Block
  BY DEF ZeroBlock, Block
<1>2. \A b \in Block : \A c : Padded(b, c) \in Block
  BY DEF Padded, Block, Xor, Symbol
<1>3. ASSUME NEW m \in Seq(Byte), NEW j \in Nat \ {0}
      PROVE  MessageBlock(m, j) \in Block
  <2>1. ASSUME NEW c \in Cell, BlockStart(j) + c < Len(m)
        PROVE  m[BlockStart(j) + c + 1] \in Byte
    <3>1. BlockStart(j) \in Nat /\ c \in Nat
      <4>1. PICK b \in Nat : j = b + 1
        <5>1. j - 1 \in Nat /\ j = (j - 1) + 1
          OBVIOUS
        <5>2. QED
          BY <5>1
      <4>2. QED
        BY <4>1, Starts DEF Cell
    <3>2. BlockStart(j) + c + 1 \in 1 .. Len(m)
      BY <3>1, <2>1
    <3>3. QED
      BY <3>2
  <2>2. QED
    BY <2>1 DEF MessageBlock, Block, Symbol
<1>4. QED
  BY <1>1, <1>2, <1>3

(***************************************************************************)
(* Absorbing                                                                *)
(***************************************************************************)

(* A piece that ends inside block b + 1 leaves the blocks before it alone.  *)
LEMMA BlocksBefore ==
  ASSUME Assumption, NEW m \in Seq(Byte), NEW piece \in Seq(Byte), NEW b \in Nat,
         BlockStart(b + 1) <= Len(m), NEW j \in 1 .. b
  PROVE  MessageBlock(m \o piece, j) = MessageBlock(m, j)
<1> DEFINE v == m \o piece
<1>1. /\ v \in Seq(Byte) /\ Len(v) = Len(m) + Len(piece)
      /\ \A k \in 1 .. Len(m) : v[k] = m[k]
  BY ConcatIsSeq
<1> HIDE DEF v
<1>2. BlockStart(j) \in Nat /\ BlockStart(j) + RATE <= BlockStart(b + 1)
  BY Starts
<1>3. RATE \in Nat /\ BlockStart(b + 1) \in Nat
  BY Starts DEF Assumption, SpongeAssumption
<1>4. ASSUME NEW c \in Cell
      PROVE  /\ BlockStart(j) + c < Len(m) /\ BlockStart(j) + c < Len(v)
             /\ v[BlockStart(j) + c + 1] = m[BlockStart(j) + c + 1]
  <2>1. c \in Nat /\ c < RATE
    BY <1>3 DEF Cell
  <2>2. BlockStart(j) + c < Len(m) /\ BlockStart(j) + c < Len(v)
    BY <2>1, <1>1, <1>2, <1>3
  <2>3. BlockStart(j) + c + 1 \in 1 .. Len(m)
    BY <2>1, <2>2, <1>2
  <2>4. QED
    BY <2>2, <2>3, <1>1
<1>5. MessageBlock(v, j) = MessageBlock(m, j)
  BY <1>4 DEF MessageBlock
<1>6. QED
  BY <1>5 DEF v

(* The block in progress, with a piece mixed in behind what it holds.       *)
LEMMA BlockInProgress ==
  ASSUME Assumption, NEW m \in Seq(Byte), NEW piece \in Seq(Byte), NEW b \in Nat,
         NEW k \in Cell, Len(m) = BlockStart(b + 1) + k, k + Len(piece) <= RATE
  PROVE  Mixed(MessageBlock(m, b + 1), k, piece) = MessageBlock(m \o piece, b + 1)
<1> DEFINE v == m \o piece
<1>1. /\ v \in Seq(Byte) /\ Len(v) = Len(m) + Len(piece)
      /\ \A e \in 1 .. Len(m) : v[e] = m[e]
      /\ \A e \in 1 .. Len(piece) : v[Len(m) + e] = piece[e]
  BY ONLY m \in Seq(Byte), piece \in Seq(Byte), ConcatIsSeq
<1> HIDE DEF v
<1>2. PICK a \in Nat : a = BlockStart(b + 1)
  BY Starts
<1>3. /\ RATE \in Nat /\ k \in Nat /\ Len(piece) \in Nat
      /\ Len(m) = a + k /\ Len(v) = a + k + Len(piece)
  BY <1>1, <1>2 DEF Assumption, SpongeAssumption, Cell
<1>4. ASSUME NEW c \in Cell
      PROVE  Mixed(MessageBlock(m, b + 1), k, piece)[c] = MessageBlock(v, b + 1)[c]
  <2>1. c \in Nat
    BY DEF Cell
  <2>2. Mixed(MessageBlock(m, b + 1), k, piece)[c]
          = IF c \in k .. k + Len(piece) - 1
            THEN Xor(MessageBlock(m, b + 1)[c], {piece[c - k + 1]})
            ELSE MessageBlock(m, b + 1)[c]
    BY DEF Mixed
  <2>3. /\ MessageBlock(m, b + 1)[c] = IF a + c < Len(m) THEN {m[a + c + 1]} ELSE {}
        /\ MessageBlock(v, b + 1)[c] = IF a + c < Len(v) THEN {v[a + c + 1]} ELSE {}
    BY <1>2 DEF MessageBlock
  <2>4. CASE c < k
    <3>1. a + c < Len(m) /\ a + c < Len(v) /\ a + c + 1 \in 1 .. Len(m)
      BY <2>1, <2>4, <1>3
    <3>2. v[a + c + 1] = m[a + c + 1]
      BY <3>1, <1>1
    <3>3. c \notin k .. k + Len(piece) - 1
      BY <2>1, <2>4, <1>3
    <3>4. /\ Mixed(MessageBlock(m, b + 1), k, piece)[c] = {m[a + c + 1]}
          /\ MessageBlock(v, b + 1)[c] = {v[a + c + 1]}
      BY <2>2, <2>3, <3>1, <3>3, Zenon
    <3>5. QED
      BY <3>2, <3>4
  <2>5. CASE c \in k .. k + Len(piece) - 1
    <3>1. ~(a + c < Len(m)) /\ a + c < Len(v)
      BY <2>1, <2>5, <1>3
    <3>2. c - k + 1 \in 1 .. Len(piece) /\ a + c + 1 = Len(m) + (c - k + 1)
      <4>1. PICK l \in Nat : l = Len(piece)
        BY <1>3
      <4>2. c - k + 1 \in 1 .. l /\ a + c + 1 = a + k + (c - k + 1)
        BY <2>1, <2>5, <4>1, <1>3
      <4>3. QED
        BY <4>1, <4>2, <1>3
    <3>3. v[a + c + 1] = piece[c - k + 1]
      BY <3>2, <1>1
    <3>4. \A e : Xor({}, {e}) = {e}
      BY DEF Xor
    <3>5. QED
      BY <2>2, <2>3, <2>5, <3>1, <3>3, <3>4
  <2>6. CASE c >= k + Len(piece)
    <3>1. ~(a + c < Len(m)) /\ ~(a + c < Len(v))
      BY <2>1, <2>6, <1>3
    <3>2. c \notin k .. k + Len(piece) - 1
      BY <2>1, <2>6, <1>3
    <3>3. QED
      BY <2>2, <2>3, <3>1, <3>2
  <2>7. c < k \/ c \in k .. k + Len(piece) - 1 \/ c >= k + Len(piece)
    BY <2>1, <1>3
  <2>8. QED
    BY <2>4, <2>5, <2>6, <2>7
<1>5. Mixed(MessageBlock(m, b + 1), k, piece) = MessageBlock(v, b + 1)
  BY <1>4 DEF Mixed, MessageBlock
<1>6. QED
  BY <1>5 DEF v

(* Beyond the message the blocks are empty. *)
LEMMA BlockBeyond ==
  ASSUME Assumption, NEW m \in Seq(Byte), NEW j \in Nat \ {0}, BlockStart(j) >= Len(m)
  PROVE  MessageBlock(m, j) = ZeroBlock
<1>1. ASSUME NEW c \in Cell
      PROVE  ~(BlockStart(j) + c < Len(m))
  <2>1. PICK b \in Nat : j = b + 1
    <3>1. j - 1 \in Nat /\ j = (j - 1) + 1
      OBVIOUS
    <3>2. QED
      BY <3>1
  <2>2. BlockStart(j) \in Nat /\ c \in Nat
    BY <2>1, Starts DEF Cell
  <2>3. QED
    BY <2>2
<1>2. QED
  BY <1>1 DEF MessageBlock, ZeroBlock

(***************************************************************************)
(* The stream                                                               *)
(***************************************************************************)

LEMMA Euclid ==
  ASSUME NEW h \in Nat \ {0}, NEW l \in Nat
  PROVE  /\ l \div h \in Nat /\ l % h \in 0 .. h - 1
         /\ l = (l \div h) * h + (l % h)
OBVIOUS

(* Where a message ends. *)
LEMMA MessageEnds ==
  ASSUME Assumption, NEW m \in Seq(Byte)
  PROVE  /\ FullBlocks(m) \in Nat /\ Len(m) % RATE \in Cell
         /\ Len(m) = BlockStart(FullBlocks(m) + 1) + (Len(m) % RATE)
<1>1. RATE \in Nat \ {0} /\ Len(m) \in Nat
  BY DEF Assumption, SpongeAssumption
<1>2. PICK b \in Nat, k \in 0 .. RATE - 1 :
        b = Len(m) \div RATE /\ k = Len(m) % RATE /\ Len(m) = b * RATE + k
  BY <1>1, Euclid
<1>3. BlockStart(b + 1) = b * RATE
  BY <1>1 DEF BlockStart
<1>4. QED
  BY <1>2, <1>3 DEF FullBlocks, Cell

LEMMA StreamIsSeq ==
  ASSUME Assumption, NEW m \in Seq(Byte), NEW extra \in Nat
  PROVE  /\ StreamState(m, extra) \in Seq(Block)
         /\ Len(StreamState(m, extra)) = FullBlocks(m) + 1 + extra
         /\ \A j \in 1 .. FullBlocks(m) + 1 + extra :
              StreamState(m, extra)[j]
                = IF j = FullBlocks(m) + 1
                  THEN Padded(MessageBlock(m, j), Len(m) % RATE)
                  ELSE MessageBlock(m, j)
<1>1. FullBlocks(m) + 1 + extra \in Nat
  BY MessageEnds
<1>2. \A j \in 1 .. FullBlocks(m) + 1 + extra :
         /\ MessageBlock(m, j) \in Block
         /\ Padded(MessageBlock(m, j), Len(m) % RATE) \in Block
  BY <1>1, BlockTypes
<1>3. \A j \in 1 .. FullBlocks(m) + 1 + extra :
         (IF j = FullBlocks(m) + 1
          THEN Padded(MessageBlock(m, j), Len(m) % RATE)
          ELSE MessageBlock(m, j)) \in Block
  BY <1>2
<1>4. QED
  BY <1>1, <1>3 DEF StreamState

(* One permutation further. *)
LEMMA StreamGoesOn ==
  ASSUME Assumption, NEW m \in Seq(Byte), NEW extra \in Nat
  PROVE  Permuted(StreamState(m, extra), ZeroBlock) = StreamState(m, extra + 1)
<1> DEFINE s == StreamState(m, extra)
           t == StreamState(m, extra + 1)
           e == FullBlocks(m) + 1 + extra
<1>1. FullBlocks(m) \in Nat
  BY MessageEnds
<1>2. /\ s \in Seq(Block) /\ Len(s) = e /\ e \in Nat
      /\ t \in Seq(Block) /\ Len(t) = e + 1
  <2>1. extra + 1 \in Nat /\ FullBlocks(m) + 1 + (extra + 1) = e + 1 /\ e \in Nat
    BY <1>1
  <2>2. QED
    BY <2>1, StreamIsSeq
<1>3. \A j \in 1 .. e : s[j] = t[j]
  BY <1>1 DEF StreamState
<1>4. t[e + 1] = ZeroBlock
  <2>1. e + 1 # FullBlocks(m) + 1 /\ e + 1 \in 1 .. FullBlocks(m) + 1 + (extra + 1)
    BY <1>1
  <2>2. t[e + 1] = MessageBlock(m, e + 1)
    BY <2>1 DEF StreamState
  <2>3. BlockStart(e + 1) >= Len(m)
    <3>1. FullBlocks(m) + 1 \in 1 .. e
      BY <1>1
    <3>2. BlockStart(FullBlocks(m) + 1) + RATE <= BlockStart(e + 1)
      BY <1>2, <3>1, Starts
    <3>3. /\ BlockStart(FullBlocks(m) + 1) \in Nat /\ BlockStart(e + 1) \in Nat
      BY <1>1, <1>2, Starts
    <3>4. PICK k \in Nat : k < RATE /\ Len(m) = BlockStart(FullBlocks(m) + 1) + k
      BY MessageEnds DEF Assumption, SpongeAssumption, Cell
    <3>5. RATE \in Nat
      BY DEF Assumption, SpongeAssumption
    <3>6. QED
      BY <3>2, <3>3, <3>4, <3>5
  <2>4. QED
    BY <1>2, <2>2, <2>3, BlockBeyond
<1>5. /\ Append(s, ZeroBlock) \in Seq(Block)
      /\ Len(Append(s, ZeroBlock)) = e + 1
      /\ \A j \in 1 .. e : Append(s, ZeroBlock)[j] = s[j]
      /\ Append(s, ZeroBlock)[e + 1] = ZeroBlock
  BY <1>2, BlockTypes, AppendIsSeq
<1> HIDE DEF s, t, e
<1>6. \A j \in 1 .. e + 1 : Append(s, ZeroBlock)[j] = t[j]
  <2>1. \A j \in 1 .. e + 1 : j \in 1 .. e \/ j = e + 1
    BY <1>2
  <2>2. QED
    BY <2>1, <1>3, <1>4, <1>5
<1>7. Append(s, ZeroBlock) = t
  BY <1>2, <1>5, <1>6, SameSeq
<1>8. QED
  BY <1>7 DEF Permuted, s, t

(* The blocks of a message, the last one padded, are where it begins.       *)
LEMMA StreamBegins ==
  ASSUME Assumption, NEW m \in Seq(Byte), NEW s \in Seq(Block), NEW k \in Cell,
         Len(m) = BlockStart(Len(s) + 1) + k,
         \A j \in 1 .. Len(s) : s[j] = MessageBlock(m, j)
  PROVE  /\ FullBlocks(m) = Len(s)
         /\ Permuted(s, Padded(MessageBlock(m, Len(s) + 1), k)) = StreamState(m, 0)
<1> DEFINE b == Padded(MessageBlock(m, Len(s) + 1), k)
           t == StreamState(m, 0)
<1>1. FullBlocks(m) = Len(s) /\ Len(m) % RATE = k
  BY PlaceOf DEF FullBlocks
<1>2. b \in Block
  BY BlockTypes
<1>3. t \in Seq(Block) /\ Len(t) = Len(s) + 1
  <2>1. t \in Seq(Block) /\ Len(t) = FullBlocks(m) + 1 + 0
    BY StreamIsSeq, 0 \in Nat
  <2>2. QED
    BY <2>1, <1>1
<1>4. t[Len(s) + 1] = b /\ \A j \in 1 .. Len(s) : t[j] = s[j]
  BY <1>1 DEF StreamState
<1>5. /\ Append(s, b) \in Seq(Block)
      /\ Len(Append(s, b)) = Len(s) + 1
      /\ \A j \in 1 .. Len(s) : Append(s, b)[j] = s[j]
      /\ Append(s, b)[Len(s) + 1] = b
  BY <1>2, AppendIsSeq
<1> HIDE DEF b, t
<1>6. \A j \in 1 .. Len(s) + 1 : Append(s, b)[j] = t[j]
  <2>1. \A j \in 1 .. Len(s) + 1 : j \in 1 .. Len(s) \/ j = Len(s) + 1
    OBVIOUS
  <2>2. QED
    BY <2>1, <1>4, <1>5
<1>7. Append(s, b) = t
  BY <1>3, <1>5, <1>6, SameSeq
<1>8. QED
  BY <1>1, <1>7 DEF Permuted, b, t

(***************************************************************************)
(* The steps of the eager sponge                                            *)
(***************************************************************************)

LEMMA Types ==
  ASSUME Assumption, TypeOK
  PROVE  /\ RATE \in Nat \ {0} /\ i \in Nat /\ i < RATE /\ 0 \in Cell
         /\ Len(state) \in Nat /\ Len(input) \in Nat /\ Len(out) \in Nat
         /\ Len(absorbed) \in Nat /\ todo \in Nat
BY DEF Assumption, SpongeAssumption, TypeOK, Cell

(* At the end of a block and within it. *)
LEMMA Advances ==
  ASSUME Assumption, TypeOK, NEW b \in Block, NEW w \in Nat, i + w <= RATE, Advance(b, w)
  PROVE  /\ state' \in Seq(Block) /\ buff' \in Block /\ i' \in Cell
         /\ i + w = RATE =>
              /\ state' = Append(state, b) /\ buff' = ZeroBlock /\ i' = 0
              /\ Len(state') = Len(state) + 1
              /\ \A j \in 1 .. Len(state) : state'[j] = state[j]
              /\ state'[Len(state) + 1] = b
         /\ i + w # RATE =>
              state' = state /\ buff' = b /\ i' = i + w
<1>1. state \in Seq(Block) /\ i \in Nat /\ RATE \in Nat
  BY Types DEF TypeOK
<1>2. CASE i + w = RATE
  <2>1. state' = Append(state, b) /\ buff' = ZeroBlock /\ i' = 0
    BY <1>2 DEF Advance, Permuted
  <2>2. QED
    BY <1>1, <1>2, <2>1, AppendIsSeq, BlockTypes, Types
<1>3. CASE i + w # RATE
  <2>1. state' = state /\ buff' = b /\ i' = i + w
    BY <1>3 DEF Advance
  <2>2. i + w \in Cell
    BY <1>1, <1>3 DEF Cell
  <2>3. QED
    BY <1>1, <1>3, <2>1, <2>2
<1>4. QED
  BY <1>2, <1>3

LEMMA AbsorbPassPreserves ==
  ASSUME Assumption, IInv, AbsorbPass
  PROVE  /\ IInv'
         /\ ~flipped /\ absorbed' \in Seq(Byte)
         /\ Len(absorbed) <= Len(absorbed')
         /\ \A k \in 1 .. Len(absorbed) : absorbed'[k] = absorbed[k]
<1> DEFINE w == Lesser(RATE - i, Len(input))
           piece == SubSeq(input, 1, w)
           J == Len(state)
<1>1. TypeOK /\ CallsInOrder /\ AbsorbedInBlocks
  BY DEF IInv
<1>2. ~flipped /\ flipped' = flipped /\ todo' = todo /\ out' = out /\ todo = 0
  BY <1>1 DEF AbsorbPass, CallsInOrder
<1>3. w \in 0 .. Len(input) /\ i + w <= RATE
  BY <1>1, Types DEF Lesser
<1>4. /\ input \in Seq(Byte) /\ absorbed \in Seq(Byte) /\ state \in Seq(Block)
      /\ i \in Cell /\ i \in Nat /\ J \in Nat /\ RATE \in Nat
  BY <1>1, Types DEF TypeOK
<1>5. /\ Len(absorbed) = BlockStart(J + 1) + i
      /\ \A j \in 1 .. J : state[j] = MessageBlock(absorbed, j)
      /\ buff = MessageBlock(absorbed, J + 1)
      /\ out = << >>
  BY <1>1, <1>2 DEF AbsorbedInBlocks
<1>6. /\ Advance(Mixed(buff, i, piece), w)
      /\ input' = SubSeq(input, w + 1, Len(input))
      /\ absorbed' = absorbed \o piece
  BY DEF AbsorbPass
<1> HIDE DEF w
<1>7. piece \in Seq(Byte) /\ Len(piece) = w /\ input' \in Seq(Byte)
  BY <1>3, <1>4, <1>6, Cut
<1> HIDE DEF piece, J
<1>8. /\ absorbed' \in Seq(Byte) /\ Len(absorbed') = Len(absorbed) + w
      /\ \A k \in 1 .. Len(absorbed) : absorbed'[k] = absorbed[k]
  <2>1. absorbed \in Seq(Byte) /\ piece \in Seq(Byte) /\ Len(piece) = w
    BY <1>4, <1>7
  <2>2. /\ absorbed \o piece \in Seq(Byte)
        /\ Len(absorbed \o piece) = Len(absorbed) + w
        /\ \A k \in 1 .. Len(absorbed) : (absorbed \o piece)[k] = absorbed[k]
    BY ONLY <2>1, Concat
  <2>3. QED
    BY <1>6, <2>2, Zenon
<1>9. Mixed(buff, i, piece) = MessageBlock(absorbed', J + 1)
  BY <1>3, <1>4, <1>5, <1>6, <1>7, BlockInProgress
<1>10. \A j \in 1 .. J : MessageBlock(absorbed', j) = MessageBlock(absorbed, j)
  <2>1. BlockStart(J + 1) <= Len(absorbed)
    BY <1>4, <1>5, Starts
  <2>2. QED
    BY <2>1, <1>4, <1>6, <1>7, BlocksBefore
<1>11. MessageBlock(absorbed', J + 1) \in Block
  BY <1>4, <1>8, BlockTypes
<1>12. Advance(MessageBlock(absorbed', J + 1), w)
  BY <1>6, <1>9
<1>13. BlockStart(J + 1) \in Nat /\ BlockStart(J + 2) = BlockStart(J + 1) + RATE
  BY <1>4, Starts
<1>14. TypeOK'
  <2>1. state' \in Seq(Block) /\ buff' \in Block /\ i' \in Cell
    BY <1>1, <1>3, <1>11, <1>12, Advances
  <2>2. QED
    BY <2>1, <1>1, <1>2, <1>7, <1>8 DEF TypeOK
<1>15. AbsorbedInBlocks'
  <2>1. CASE i + w = RATE
    <3>1. /\ i' = 0 /\ buff' = ZeroBlock /\ Len(state') = J + 1
          /\ \A j \in 1 .. J : state'[j] = state[j]
          /\ state'[J + 1] = MessageBlock(absorbed', J + 1)
      BY <2>1, <1>1, <1>3, <1>11, <1>12, Advances DEF J
    <3>2. Len(absorbed') = BlockStart(J + 2)
      <4>1. PICK c \in Nat : c = BlockStart(J + 1)
        BY <1>13
      <4>2. Len(absorbed') = c + i + w /\ BlockStart(J + 2) = c + RATE
        BY <4>1, <1>5, <1>8, <1>13
      <4>3. c + i + w = c + RATE
        BY <2>1, <1>3, <1>4
      <4>4. QED
        BY <4>2, <4>3
    <3>3. ZeroBlock = MessageBlock(absorbed', J + 2)
      BY <3>2, <1>4, <1>8, <1>13, BlockBeyond
    <3>4. J + 1 + 1 = J + 2 /\ Len(absorbed') + 0 = Len(absorbed') /\ J + 1 \in Nat
      BY <1>4, <1>8
    <3>5. \A j \in 1 .. J + 1 : state'[j] = MessageBlock(absorbed', j)
      <4>1. \A j \in 1 .. J + 1 : j \in 1 .. J \/ j = J + 1
        BY <1>4
      <4>2. QED
        BY <4>1, <3>1, <1>5, <1>10
    <3>6. BlockStart(J + 2) + 0 = BlockStart(J + 2)
      BY <1>4, <1>13
    <3>7. QED
      BY <3>1, <3>2, <3>3, <3>4, <3>5, <3>6, <1>2, <1>5 DEF AbsorbedInBlocks
  <2>2. CASE i + w # RATE
    <3>1. i' = i + w /\ buff' = MessageBlock(absorbed', J + 1) /\ state' = state
      BY <2>2, <1>1, <1>3, <1>11, <1>12, Advances
    <3>2. Len(absorbed') = BlockStart(J + 1) + i'
      <4>1. PICK c \in Nat : c = BlockStart(J + 1)
        BY <1>13
      <4>2. Len(absorbed') = c + i + w
        BY <4>1, <1>5, <1>8
      <4>3. c + i + w = c + (i + w)
        BY <1>3, <1>4
      <4>4. QED
        BY <4>1, <4>2, <4>3, <3>1
    <3>3. QED
      BY <3>1, <3>2, <1>2, <1>5, <1>10 DEF AbsorbedInBlocks, J
  <2>3. QED
    BY <2>1, <2>2
<1>16. CallsInOrder' /\ SqueezedInBlocks'
  BY <1>2 DEF CallsInOrder, SqueezedInBlocks
<1>17. QED
  BY <1>2, <1>3, <1>4, <1>8, <1>14, <1>15, <1>16 DEF IInv

LEMMA PadPreserves ==
  ASSUME Assumption, IInv, Idle, ~flipped, Pad, todo' \in Nat, UNCHANGED <<input, absorbed, out>>
  PROVE  IInv' /\ out' = << >> /\ flipped'
<1>1. TypeOK /\ AbsorbedInBlocks
  BY DEF IInv
<1>2. /\ Len(absorbed) = BlockStart(Len(state) + 1) + i
      /\ \A j \in 1 .. Len(state) : state[j] = MessageBlock(absorbed, j)
      /\ buff = MessageBlock(absorbed, Len(state) + 1)
      /\ out = << >>
  BY <1>1 DEF AbsorbedInBlocks
<1>3. /\ state' = Permuted(state, Padded(MessageBlock(absorbed, Len(state) + 1), i))
      /\ buff' = ZeroBlock /\ i' = 0 /\ flipped'
  BY <1>2 DEF Pad
<1>4. state \in Seq(Block) /\ absorbed \in Seq(Byte) /\ i \in Cell
  BY <1>1 DEF TypeOK
<1>5. FullBlocks(absorbed) = Len(state) /\ state' = StreamState(absorbed, 0)
  BY <1>2, <1>3, <1>4, StreamBegins
<1>6. state' \in Seq(Block) /\ Len(state') = FullBlocks(absorbed) + 1 + 0
  BY <1>4, <1>5, StreamIsSeq, 0 \in Nat
<1>7. Len(state') - FullBlocks(absorbed) - 1 = 0
  BY <1>4, <1>6, MessageEnds
<1>8. TypeOK'
  BY <1>1, <1>3, <1>6, Types, BlockTypes DEF TypeOK, Pad
<1>9. SqueezedInBlocks'
  <2>1. Len(out) = 0 /\ BlockStart(0 + 1) = 0
    BY <1>2, Starts, 0 \in Nat
  <2>2. QED
    BY <2>1, <1>3, <1>5, <1>7 DEF SqueezedInBlocks
<1>10. CallsInOrder' /\ AbsorbedInBlocks'
  BY <1>3 DEF CallsInOrder, AbsorbedInBlocks, Idle
<1>11. QED
  BY <1>2, <1>3, <1>8, <1>9, <1>10 DEF IInv

(* The bytes of a pass of squeeze, and where in the stream they are.        *)
LEMMA SqueezePassPreserves ==
  ASSUME Assumption, IInv, OutputIsStream, SqueezePass
  PROVE  /\ IInv' /\ OutputIsStream'
         /\ flipped /\ Len(out) <= Len(out')
         /\ \A k \in 1 .. Len(out) : out'[k] = out[k]
<1> DEFINE w == Lesser(RATE - i, todo)
           extra == Len(state) - FullBlocks(absorbed) - 1
           new == [k \in 1 .. w |-> StateByte(state, {}, i + k - 1)]
<1>1. TypeOK /\ CallsInOrder /\ SqueezedInBlocks
  BY DEF IInv
<1>2. /\ flipped /\ flipped' = flipped /\ absorbed' = absorbed /\ input' = input
      /\ input = << >>
  BY <1>1, Types DEF SqueezePass, CallsInOrder
<1>3. /\ extra \in Nat /\ state = StreamState(absorbed, extra)
      /\ FullBlocks(absorbed) \in Nat /\ Len(state) = FullBlocks(absorbed) + 1 + extra
      /\ Len(out) = BlockStart(extra + 1) + i
      /\ buff = ZeroBlock
  <2>1. FullBlocks(absorbed) \in Nat
    BY <1>1, MessageEnds DEF TypeOK
  <2>2. QED
    BY <1>1, <1>2, <2>1, Types DEF SqueezedInBlocks
<1>4. w \in Nat /\ i + w <= RATE /\ todo - w \in Nat
  BY <1>1, Types DEF Lesser
<1>5. /\ absorbed \in Seq(Byte) /\ state \in Seq(Block) /\ out \in Seq(OutByte)
      /\ i \in Cell /\ i \in Nat /\ RATE \in Nat
  BY <1>1, Types DEF TypeOK
<1>6. /\ out' = out \o new /\ Advance(ZeroBlock, w) /\ todo' = todo - w
  BY <1>3 DEF SqueezePass
<1> HIDE DEF w, extra
<1>7. new \in Seq(OutByte) /\ Len(new) = w
  <2>1. ASSUME NEW k \in 1 .. w
        PROVE  StateByte(state, {}, i + k - 1) \in OutByte
    <3>1. i + k - 1 \in Cell
      BY <1>4, <1>5 DEF Cell
    <3>2. QED
      BY <3>1, <1>5 DEF StateByte, OutByte
  <2>2. QED
    BY <2>1, <1>4
<1>8. \A k \in 1 .. w : new[k] = StateByte(state, {}, i + k - 1)
  OBVIOUS
<1> HIDE DEF new
<1>9. /\ out' \in Seq(OutByte) /\ Len(out') = Len(out) + w
      /\ \A k \in 1 .. Len(out) : out'[k] = out[k]
      /\ \A k \in 1 .. w : out'[Len(out) + k] = new[k]
  <2>1. out \in Seq(OutByte)
    BY <1>5
  <2>2. /\ out \o new \in Seq(OutByte)
        /\ Len(out \o new) = Len(out) + w
        /\ \A k \in 1 .. Len(out) : (out \o new)[k] = out[k]
        /\ \A k \in 1 .. w : (out \o new)[Len(out) + k] = new[k]
    BY ONLY <2>1, <1>7, Concat
  <2>3. QED
    BY <2>2, <1>6, Zenon
<1>10. OutputIsStream'
  <2>1. ASSUME NEW k \in 1 .. Len(out')
        PROVE  out'[k] = StreamByte(absorbed, k - 1)
    <3>1. CASE k \in 1 .. Len(out)
      BY <3>1, <1>9 DEF OutputIsStream
    <3>2. CASE k \notin 1 .. Len(out)
      <4>1. PICK j \in 1 .. w : k = Len(out) + j
        <5>1. Len(out) \in Nat
          BY <1>5
        <5>2. k - Len(out) \in 1 .. w /\ k = Len(out) + (k - Len(out))
          BY <3>2, <5>1, <1>4, <1>9
        <5>3. QED
          BY <5>2
      <4>2. PICK c \in Cell : c = i + j - 1
        BY <1>4, <1>5 DEF Cell
      <4>3. k - 1 = BlockStart(extra + 1) + c
        <5>1. BlockStart(extra + 1) \in Nat
          BY <1>3, Starts
        <5>2. PICK b \in Nat : b = BlockStart(extra + 1)
          BY <5>1
        <5>3. k = b + i + j
          BY <5>2, <4>1, <1>3
        <5>4. i \in Nat /\ j \in Nat
          BY <1>4, <1>5
        <5>5. k - 1 = b + c
          BY <5>3, <5>4, <4>2
        <5>6. QED
          BY <5>2, <5>5
      <4>4. (k - 1) \div RATE = extra /\ (k - 1) % RATE = c
        BY <4>3, <1>3, PlaceOf
      <4>5. StreamByte(absorbed, k - 1) = StateByte(state, {}, c)
        BY <4>4, <1>3 DEF StreamByte
      <4>6. QED
        BY <4>1, <4>2, <4>5, <1>8, <1>9
    <3>3. QED
      BY <3>1, <3>2
  <2>2. QED
    BY <2>1, <1>2 DEF OutputIsStream
<1>11. TypeOK'
  <2>1. state' \in Seq(Block) /\ buff' \in Block /\ i' \in Cell
    BY <1>1, <1>4, <1>6, BlockTypes, Advances
  <2>2. QED
    BY <2>1, <1>1, <1>2, <1>4, <1>6, <1>9 DEF TypeOK
<1>12. SqueezedInBlocks'
  <2>1. BlockStart(extra + 1) \in Nat /\ BlockStart(extra + 2) = BlockStart(extra + 1) + RATE
    BY <1>3, Starts
  <2>2. FullBlocks(absorbed) \in Nat
    BY <1>5, MessageEnds
  <2>3. CASE i + w = RATE
    <3>1. state' = Permuted(state, ZeroBlock) /\ buff' = ZeroBlock /\ i' = 0
          /\ Len(state') = Len(state) + 1
      BY <2>3, <1>1, <1>4, <1>6, BlockTypes, Advances DEF Permuted
    <3>2. state' = StreamState(absorbed, extra + 1)
      BY <3>1, <1>3, <1>5, StreamGoesOn
    <3>3. Len(state') - FullBlocks(absorbed) - 1 = extra + 1
      BY <3>1, <1>3
    <3>4. Len(out') = BlockStart(extra + 2) + 0 /\ extra + 1 + 1 = extra + 2
      <4>1. PICK c \in Nat : c = BlockStart(extra + 1)
        BY <2>1
      <4>2. Len(out') = c + i + w /\ BlockStart(extra + 2) = c + RATE
        BY <4>1, <2>1, <1>3, <1>9
      <4>3. extra \in Nat /\ i \in Nat /\ w \in Nat /\ RATE \in Nat
        BY <1>3, <1>4, <1>5
      <4>4. c + i + w = (c + RATE) + 0 /\ extra + 1 + 1 = extra + 2
        BY <4>3, <2>3
      <4>5. QED
        BY <4>2, <4>4, Zenon
    <3>5. extra + 1 >= 0
      BY <1>3
    <3>6. QED
      BY <3>1, <3>2, <3>3, <3>4, <3>5, <1>2 DEF SqueezedInBlocks
  <2>4. CASE i + w # RATE
    <3>1. state' = state /\ buff' = ZeroBlock /\ i' = i + w
      BY <2>4, <1>1, <1>4, <1>6, BlockTypes, Advances
    <3>2. Len(out') = BlockStart(extra + 1) + i'
      <4>1. PICK c \in Nat : c = BlockStart(extra + 1)
        BY <2>1
      <4>2. Len(out') = c + i + w
        BY <4>1, <1>3, <1>9
      <4>3. i \in Nat /\ w \in Nat
        BY <1>4, <1>5
      <4>4. c + i + w = c + (i + w)
        BY <4>3
      <4>5. QED
        BY <4>1, <4>2, <4>4, <3>1
    <3>3. Len(state') - FullBlocks(absorbed) - 1 = extra
      BY <3>1, <1>3
    <3>4. QED
      BY <3>1, <3>2, <3>3, <1>2, <1>3 DEF SqueezedInBlocks
  <2>5. QED
    BY <2>3, <2>4
<1>13. CallsInOrder' /\ AbsorbedInBlocks'
  BY <1>2 DEF CallsInOrder, AbsorbedInBlocks
<1>14. Len(out) <= Len(out')
  BY <1>4, <1>5, <1>9
<1>15. QED
  BY <1>2, <1>9, <1>10, <1>11, <1>12, <1>13, <1>14 DEF IInv

(* What a step of the eager sponge leaves true, and does to the output.     *)
Good == IInv /\ OutputIsStream

LEMMA Started ==
  ASSUME Assumption, Init
  PROVE  Good
<1>1. TypeOK
  <2>1. 0 \in Cell
    BY DEF Assumption, SpongeAssumption, Cell
  <2>2. ZeroBlock \in Block /\ 0 \in Nat /\ \A S : << >> \in Seq(S)
    BY BlockTypes
  <2>3. QED
    BY <2>1, <2>2, Zenon DEF Init, TypeOK
<1>2. BlockStart(0 + 1) = 0 /\ Len(state) = 0 /\ Len(absorbed) = 0
  BY Starts, 0 \in Nat DEF Init
<1>3. ZeroBlock = MessageBlock(absorbed, 0 + 1)
  <2>1. absorbed \in Seq(Byte) /\ BlockStart(0 + 1) >= Len(absorbed) /\ 0 + 1 \in Nat \ {0}
    BY <1>2 DEF Init
  <2>2. QED
    BY <2>1, BlockBeyond
<1>4. AbsorbedInBlocks
  <2>1. 0 = 0 + 0 /\ \A j \in 1 .. 0 : FALSE
    OBVIOUS
  <2>2. QED
    BY <1>2, <1>3, <2>1 DEF Init, AbsorbedInBlocks
<1>5. CallsInOrder /\ SqueezedInBlocks /\ OutputIsStream
  BY DEF Init, CallsInOrder, SqueezedInBlocks, OutputIsStream
<1>6. QED
  BY <1>1, <1>4, <1>5 DEF Good, IInv

LEMMA CallPreserves ==
  ASSUME Assumption, Good, \/ \E data \in Data : shake_update(data)
                          \/ \E n \in 0 .. MaxLength : shake_squeeze(n)
  PROVE  Good' /\ UNCHANGED <<absorbed, flipped, out>>
<1>1. UNCHANGED <<state, buff, i, absorbed, flipped, out>>
  BY DEF shake_update, shake_squeeze
<1>2. input' \in Seq(Byte) /\ todo' \in Nat /\ CallsInOrder'
  BY DEF Assumption, ShakeAssumption, Good, IInv, TypeOK, CallsInOrder, Idle,
         shake_update, shake_squeeze
<1>3. QED
  BY <1>1, <1>2 DEF Good, IInv, TypeOK, AbsorbedInBlocks, SqueezedInBlocks, OutputIsStream

LEMMA CloseIsPad ==
  ASSUME Assumption, Good, shake_pad \/ \E n \in 0 .. MaxLength : shake_digest(n)
  PROVE  Good' /\ ~flipped /\ flipped' /\ UNCHANGED <<absorbed, out>>
<1>1. /\ Idle /\ ~flipped /\ Pad /\ todo' \in Nat /\ UNCHANGED <<input, absorbed, out>>
  BY DEF shake_pad, shake_digest, Assumption, ShakeAssumption, Good, IInv, TypeOK
<1>2. IInv' /\ out' = << >> /\ flipped'
  BY <1>1, PadPreserves DEF Good
<1>3. OutputIsStream'
  BY <1>2 DEF OutputIsStream
<1>4. QED
  BY <1>1, <1>2, <1>3 DEF Good

LEMMA AbsorbPassIsGood ==
  ASSUME Assumption, Good, AbsorbPass
  PROVE  Good'
<1>1. IInv' /\ ~flipped /\ flipped' = flipped /\ out' = out
  BY AbsorbPassPreserves DEF Good, AbsorbPass
<1>2. out = << >>
  BY <1>1 DEF Good, IInv, AbsorbedInBlocks
<1>3. QED
  BY <1>1, <1>2 DEF Good, OutputIsStream

LEMMA Step ==
  ASSUME Assumption, Good, [Next]_vars
  PROVE  Good'
<1>1. CASE AbsorbPass
  BY <1>1, AbsorbPassIsGood
<1>2. CASE SqueezePass
  BY <1>2, SqueezePassPreserves DEF Good
<1>3. CASE shake_pad \/ \E n \in 0 .. MaxLength : shake_digest(n)
  BY <1>3, CloseIsPad
<1>4. CASE (\E data \in Data : shake_update(data)) \/ \E n \in 0 .. MaxLength : shake_squeeze(n)
  BY <1>4, CallPreserves
<1>5. CASE UNCHANGED vars
  BY <1>5 DEF vars, Good, IInv, TypeOK, CallsInOrder, AbsorbedInBlocks,
              SqueezedInBlocks, OutputIsStream
<1>6. QED
  BY <1>1, <1>2, <1>3, <1>4, <1>5 DEF Next

(***************************************************************************)
(* The theorems about the eager sponge                                      *)
(***************************************************************************)

(* What state, buffer and position hold, while absorbing and squeezing      *)
(* (ZKNOX_shake.sol, keccak.py), and that all bytes read are the stream of  *)
(* the bytes absorbed.                                                      *)
THEOREM Invariance ==
  ASSUME Assumption
  PROVE  Spec => [](IInv /\ OutputIsStream)
<1>1. Init => Good
  BY Started
<1>2. Good /\ [Next]_vars => Good'
  BY Step
<1>3. Good => IInv /\ OutputIsStream
  BY DEF Good
<1>4. QED
  BY <1>1, <1>2, <1>3, PTL DEF Spec

(* However updates and reads are cut, ZKNOX_shake.sol and keccak.py are one *)
(* extendable-output function of one message.                               *)
THEOREM Refinement ==
  ASSUME Assumption
  PROVE  Spec => ImplementsXof
<1>1. Init => XOF!Init
  BY DEF Init, XOF!Init
<1>2. ASSUME Good, Good', [Next]_vars
      PROVE  [XOF!Next]_<<absorbed, flipped, out>>
  <2>1. CASE AbsorbPass
    <3>1. /\ ~flipped /\ absorbed' \in Seq(Byte)
          /\ XOF!IsPrefixOf(absorbed, absorbed')
      BY <1>2, <2>1, AbsorbPassPreserves DEF Good, XOF!IsPrefixOf
    <3>2. QED
      BY <2>1, <3>1 DEF AbsorbPass, XOF!Next, XOF!Absorb
  <2>2. CASE SqueezePass
    <3>1. flipped /\ XOF!IsPrefixOf(out, out')
      BY <1>2, <2>2, SqueezePassPreserves DEF Good, XOF!IsPrefixOf
    <3>2. absorbed' = absorbed /\ flipped' = flipped
      BY <2>2 DEF SqueezePass
    <3>3. \A k \in Len(out) + 1 .. Len(out') : out'[k] = StreamByte(absorbed, k - 1)
      <4>1. \A k \in 1 .. Len(out') : out'[k] = StreamByte(absorbed', k - 1)
        BY <1>2 DEF Good, OutputIsStream
      <4>2. Len(out) \in Nat
        BY <1>2 DEF Good, IInv, TypeOK
      <4>3. Len(out') \in Nat
        BY <1>2 DEF Good, IInv, TypeOK
      <4>4. \A k \in Len(out) + 1 .. Len(out') : k \in 1 .. Len(out')
        BY <4>2, <4>3
      <4>5. QED
        BY <4>1, <4>4, <3>2
    <3>4. QED
      BY <3>1, <3>2, <3>3 DEF XOF!Next, XOF!Extract
  <2>3. CASE shake_pad \/ \E n \in 0 .. MaxLength : shake_digest(n)
    BY <1>2, <2>3, CloseIsPad DEF Good, IInv, TypeOK, XOF!Next, XOF!Flip
  <2>4. CASE (\E data \in Data : shake_update(data)) \/ \E n \in 0 .. MaxLength : shake_squeeze(n)
    BY <1>2, <2>4, CallPreserves
  <2>5. CASE UNCHANGED vars
    BY <2>5 DEF vars
  <2>6. QED
    BY <1>2, <2>1, <2>2, <2>3, <2>4, <2>5 DEF Next
<1>3. Spec => []Good
  BY Invariance, PTL DEF Good
<1>4. QED
  BY <1>1, <1>2, <1>3, PTL DEF Spec, ImplementsXof, XOF!Spec

(***************************************************************************)
(* The lazy sponge                                                          *)
(***************************************************************************)

(* The two instances of Sponge and of Lesser are the same. *)
LEMMA SameNames ==
  /\ Lazy!Block = Block /\ Lazy!OutByte = OutByte /\ Lazy!ZeroBlock = ZeroBlock
  /\ \A s, b : Lazy!Permuted(s, b) = Permuted(s, b)
  /\ \A b, k : Lazy!Padded(b, k) = Padded(b, k)
  /\ \A b, k, s : Lazy!Mixed(b, k, s) = Mixed(b, k, s)
  /\ \A a, b : Lazy!Lesser(a, b) = Lesser(a, b)
  /\ \A s, b, c : Lazy!StateByte(s, b, c) = StateByte(s, b, c)
<1>1. Lazy!Cell = Cell /\ Lazy!Symbol = Symbol
  BY DEF Lazy!Cell, Cell, Lazy!Symbol, Symbol
<1>2. \A s, t : Lazy!Xor(s, t) = Xor(s, t)
  BY DEF Lazy!Xor, Xor
<1>3. Lazy!Block = Block /\ Lazy!ZeroBlock = ZeroBlock
  BY <1>1 DEF Lazy!Block, Block, Lazy!ZeroBlock, ZeroBlock
<1>4. Lazy!OutByte = OutByte
  BY <1>1, <1>3 DEF Lazy!OutByte, OutByte
<1>5. \A b, k : Lazy!Padded(b, k) = Padded(b, k)
  BY <1>1, <1>2 DEF Lazy!Padded, Padded
<1>6. \A b, k, s : Lazy!Mixed(b, k, s) = Mixed(b, k, s)
  BY <1>1, <1>2 DEF Lazy!Mixed, Mixed
<1>7. QED
  BY <1>3, <1>4, <1>5, <1>6 DEF Lazy!Permuted, Permuted, Lazy!Lesser, Lesser,
     Lazy!StateByte, StateByte

(* The states of the two, given that they were called alike. *)
SameCalls ==
  inputC = input /\ todoC = todo /\ absorbedC = absorbed /\ flippedC = flipped /\ outC = out

SameBlocks == state = stateC /\ buff = top /\ i = dptr

Behind == state = Permuted(stateC, top) /\ buff = ZeroBlock /\ i = 0

(* Nothing else is to be shown of the lazy sponge: its types follow.        *)
LEMMA Alike ==
  ASSUME Assumption, TypeOK, SameCalls,
         \/ ~Owes /\ SameBlocks
         \/ Owes /\ Behind /\ stateC \in Seq(Block) /\ top \in Block
  PROVE  SameSponge
<1>1. RATE \in Nat
  BY DEF Assumption, SpongeAssumption
<1>2. CASE ~Owes /\ SameBlocks
  <2>1. dptr \in 0 .. RATE
    BY <1>1, <1>2 DEF SameBlocks, TypeOK, Cell
  <2>2. Lazy!TypeOK
    BY <1>2, <2>1, SameNames DEF SameCalls, SameBlocks, TypeOK, Lazy!TypeOK
  <2>3. QED
    BY <1>2, <2>2 DEF SameSponge, SameCalls, SameBlocks
<1>3. CASE Owes /\ Behind /\ stateC \in Seq(Block) /\ top \in Block
  <2>1. dptr \in 0 .. RATE
    BY <1>1, <1>3 DEF Owes
  <2>2. Lazy!TypeOK
    BY <1>3, <2>1, SameNames DEF SameCalls, TypeOK, Lazy!TypeOK
  <2>3. QED
    BY <1>3, <2>2 DEF SameSponge, SameCalls, Behind
<1>4. QED
  BY <1>2, <1>3

(* While absorbing the two hold the same. *)
LEMMA BothAbsorbs ==
  ASSUME Assumption, Good, SameSponge, BothAbsorb, Good'
  PROVE  SameSponge'
<1>1. ~flipped /\ AbsorbPass /\ Lazy!InjectPass
  BY AbsorbPassPreserves DEF BothAbsorb, Good
<1>2. SameCalls /\ SameBlocks
  BY <1>1 DEF SameSponge, SameCalls, SameBlocks, Owes
<1>3. SameCalls'
  BY <1>1, <1>2, SameNames DEF SameCalls, SameBlocks, AbsorbPass, Lazy!InjectPass
<1>4. SameBlocks'
  BY <1>1, <1>2, SameNames DEF SameCalls, SameBlocks, AbsorbPass, Lazy!InjectPass, Advance
<1>5. ~Owes'
  BY <1>1, <1>3 DEF AbsorbPass, SameCalls, Owes
<1>6. (Assumption /\ TypeOK /\ SameCalls /\ ~Owes /\ SameBlocks => SameSponge)'
  BY Alike, PTL
<1>7. QED
  BY <1>3, <1>4, <1>5, <1>6 DEF Good, IInv

(* Closing the message puts the lazy one behind. *)
LEMMA BothClose ==
  ASSUME Assumption, Good, SameSponge, BothPad \/ BothDigest, Good'
  PROVE  SameSponge'
<1>1. /\ ~flipped /\ Pad /\ Lazy!Flip
      /\ UNCHANGED <<input, absorbed, out>> /\ UNCHANGED <<inputC, absorbedC, outC>>
      /\ todoC' = todo'
  <2>1. CASE BothPad
    BY <2>1 DEF SameSponge, BothPad, shake_pad, Lazy!flip
  <2>2. CASE BothDigest
    BY <2>2 DEF BothDigest, shake_digest
  <2>3. QED
    BY <2>1, <2>2
<1>2. SameCalls /\ SameBlocks
  BY <1>1 DEF SameSponge, SameCalls, SameBlocks, Owes
<1>3. SameCalls'
  BY <1>1, <1>2 DEF SameCalls, Pad, Lazy!Flip
<1>4. top' = Padded(buff, i) /\ stateC' = state /\ dptr' = RATE /\ flippedC'
  BY <1>1, <1>2, SameNames DEF SameBlocks, Lazy!Flip
<1>5. Owes' /\ Behind'
  BY <1>1, <1>4 DEF Owes, Behind, Pad, Permuted
<1>6. stateC' \in Seq(Block) /\ top' \in Block
  BY <1>4, BlockTypes DEF Good, IInv, TypeOK
<1>7. (Assumption /\ TypeOK /\ SameCalls /\ Owes /\ Behind
        /\ stateC \in Seq(Block) /\ top \in Block => SameSponge)'
  BY Alike, PTL
<1>8. QED
  BY <1>3, <1>5, <1>6, <1>7 DEF Good, IInv

(* A pass of extract processes the block it owes, and then they are alike;  *)
(* it stays behind where the eager one permutes at the end of a block.      *)
LEMMA BothSqueezes ==
  ASSUME Assumption, Good, SameSponge, BothPass, Good'
  PROVE  SameSponge'
<1> DEFINE w == Lesser(RATE - i, todo)
<1>1. SqueezePass /\ Lazy!ExtractPass /\ flipped
  BY SqueezePassPreserves DEF BothPass, Good
<1>2. SameCalls /\ buff = ZeroBlock /\ TypeOK
  BY <1>1 DEF SameSponge, SameCalls, Good, IInv, SqueezedInBlocks
<1>3. /\ stateC' = state /\ top' = ZeroBlock /\ dptr' = i + w
      /\ outC' = outC \o Lazy!BytesRead(state, ZeroBlock, i, w)
      /\ todoC' = todoC - w
  <2>1. CASE Owes
    <3>1. dptr = RATE /\ state = Permuted(stateC, top) /\ i = 0
      BY <2>1 DEF SameSponge, Owes
    <3>2. QED
      BY <3>1, <1>1, <1>2, SameNames DEF Lazy!ExtractPass, SameCalls
  <2>2. CASE ~Owes
    <3>1. dptr # RATE /\ state = stateC /\ buff = top /\ i = dptr
      BY <2>2, <1>1, <1>2 DEF SameSponge, Owes, SameCalls
    <3>2. QED
      BY <3>1, <1>1, <1>2, SameNames DEF Lazy!ExtractPass, SameCalls
  <2>3. QED
    BY <2>1, <2>2
<1>4. w \in Nat /\ i + w <= RATE /\ i \in Nat /\ RATE \in Nat
  BY <1>2, Types DEF Lesser
<1>5. Lazy!BytesRead(state, ZeroBlock, i, w) = [k \in 1 .. w |-> StateByte(state, {}, i + k - 1)]
  <2>1. \A k \in 1 .. w : ZeroBlock[i + k - 1] = {}
    <3>1. \A k \in 1 .. w : i + k - 1 \in Cell
      BY <1>4 DEF Cell
    <3>2. QED
      BY <3>1 DEF ZeroBlock
  <2> HIDE DEF w
  <2>2. QED
    BY <2>1, SameNames DEF Lazy!BytesRead
<1>6. SameCalls'
  BY <1>1, <1>2, <1>3, <1>5 DEF SameCalls, SqueezePass, Lazy!ExtractPass
<1>7. Advance(ZeroBlock, w)
  BY <1>1, <1>2 DEF SqueezePass
<1> HIDE DEF w
<1>8. \/ ~Owes' /\ SameBlocks'
      \/ Owes' /\ Behind' /\ stateC' \in Seq(Block) /\ top' \in Block
  <2>1. CASE i + w = RATE
    <3>1. Owes' /\ Behind'
      BY <2>1, <1>1, <1>3, <1>6, <1>7 DEF Owes, Behind, Advance, SameCalls, SqueezePass, Permuted
    <3>2. QED
      BY <3>1, <1>2, <1>3, BlockTypes DEF TypeOK
  <2>2. CASE i + w # RATE
    BY <2>2, <1>3, <1>7 DEF Owes, SameBlocks, Advance
  <2>3. QED
    BY <2>1, <2>2
<1>9. (Assumption /\ TypeOK /\ SameCalls
        /\ (\/ ~Owes /\ SameBlocks
            \/ Owes /\ Behind /\ stateC \in Seq(Block) /\ top \in Block) => SameSponge)'
  BY Alike, PTL
<1>10. QED
  BY <1>6, <1>8, <1>9 DEF Good, IInv

(* A call has nothing to do with the state. *)
LEMMA BothCalled ==
  ASSUME Assumption, Good, SameSponge, BothUpdate \/ BothSqueeze \/ UNCHANGED allVars, Good'
  PROVE  SameSponge'
<1>1. /\ UNCHANGED <<state, buff, i, absorbed, flipped, out>>
      /\ UNCHANGED <<stateC, top, dptr, absorbedC, flippedC, outC>>
      /\ inputC' = input' /\ todoC' = todo'
  <2>1. CASE BothUpdate
    BY <2>1 DEF BothUpdate, shake_update, Lazy!inject, SameSponge
  <2>2. CASE BothSqueeze
    BY <2>2 DEF BothSqueeze, shake_squeeze, Lazy!extract, SameSponge
  <2>3. CASE UNCHANGED allVars
    BY <2>3 DEF allVars, SameSponge
  <2>4. QED
    BY <2>1, <2>2, <2>3
<1>2. SameCalls'
  BY <1>1 DEF SameSponge, SameCalls
<1>3. (\/ ~Owes /\ SameBlocks
       \/ Owes /\ Behind /\ stateC \in Seq(Block) /\ top \in Block)'
  BY <1>1, SameNames DEF SameSponge, SameBlocks, Owes, Behind, Permuted, Lazy!TypeOK
<1>4. (Assumption /\ TypeOK /\ SameCalls
        /\ (\/ ~Owes /\ SameBlocks
            \/ Owes /\ Behind /\ stateC \in Seq(Block) /\ top \in Block) => SameSponge)'
  BY Alike, PTL
<1>5. QED
  BY <1>2, <1>3, <1>4 DEF Good, IInv

(* A step of both is one of the eager sponge. *)
LEMMA BothStep ==
  ASSUME [BothNext]_allVars
  PROVE  [Next]_vars
BY DEF BothNext, BothUpdate, BothAbsorb, BothPad, BothDigest, BothSqueeze, BothPass,
       allVars, Next, vars

(***************************************************************************)
(* The theorems about both                                                  *)
(***************************************************************************)

(* Given the same calls, the eager sponge (ZKNOX_shake.sol, keccak.py) and  *)
(* the lazy one (shake.c) hand out the same bytes; the lazy one owes a      *)
(* permutation exactly when its position is at the end of a block.          *)
THEOREM SameSpongeAlways ==
  ASSUME Assumption
  PROVE  BothSpec => [](SameSponge /\ OutputIsStream)
<1>1. BothInit => Good /\ SameSponge
  <2>1. SUFFICES ASSUME BothInit
                 PROVE  Good /\ SameSponge
    OBVIOUS
  <2>2. Good
    BY <2>1, Started DEF BothInit
  <2>3. SameCalls /\ ~Owes /\ SameBlocks
    BY <2>1, SameNames DEF BothInit, Init, Lazy!Init, SameCalls, Owes, SameBlocks
  <2>4. QED
    BY <2>2, <2>3, Alike DEF Good, IInv
<1>2. Good /\ SameSponge /\ [BothNext]_allVars => (Good /\ SameSponge)'
  <2>1. SUFFICES ASSUME Good, SameSponge, [BothNext]_allVars
                 PROVE  Good' /\ SameSponge'
    OBVIOUS
  <2>2. Good'
    BY <2>1, BothStep, Step
  <2>3. QED
    BY <2>1, <2>2, BothAbsorbs, BothClose, BothSqueezes, BothCalled DEF BothNext
<1>3. Good => OutputIsStream
  BY DEF Good
<1>4. QED
  BY <1>1, <1>2, <1>3, PTL DEF BothSpec


(***************************************************************************)
(* The chain of digests                                                     *)
(***************************************************************************)

(* Every set of numbers has a least one: what stands in for induction.      *)
Less == {w \in Nat \X Nat : w[1] < w[2]}

LEMMA Least ==
  ASSUME NEW T, T \subseteq Nat, T # {}
  PROVE  \E k \in T : \A l \in T : k <= l
<1>1. IsWellFoundedOn(Less, Nat)
  BY NatLessThanWellFounded DEF OpToRel, Less
<1>2. PICK k \in T : \A l \in T : ~ (<<l, k>> \in Less)
  BY <1>1, WFMin
<1>3. ASSUME NEW l \in T
      PROVE  k <= l
  <2>1. k \in Nat /\ l \in Nat /\ ~ (<<l, k>> \in Less)
    BY <1>2
  <2>2. ~ (l < k)
    BY <2>1 DEF Less
  <2>3. QED
    BY <2>1, <2>2
<1>4. QED
  BY <1>2, <1>3

(* f is what FlattenSeq(s) goes through, up to the m-th piece.              *)
Flattens(f, s, m) ==
  f = [k \in 1 .. m |-> IF k = 1 THEN s[k] ELSE f[k - 1] \o s[k]]

LEMMA NoneIs == ASSUME NEW T, NEW s \in Seq(T), Len(s) = 0 PROVE s = << >>
OBVIOUS

LEMMA NoneBefore == ASSUME NEW T, NEW e \in Seq(T) PROVE << >> \o e = e
OBVIOUS

LEMMA FlattensAgree ==
  ASSUME NEW s, NEW m, NEW f, NEW g, Flattens(f, s, m), Flattens(g, s, m), m \in Nat
  PROVE  \A k \in 1 .. m : f[k] = g[k]
<1> DEFINE Differ == {k \in 1 .. m : f[k] # g[k]}
<1>1. SUFFICES ASSUME Differ # {} PROVE FALSE
  OBVIOUS
<1>2. PICK k \in Differ : \A l \in Differ : k <= l
  <2>1. Differ \subseteq Nat
    OBVIOUS
  <2>2. QED
    BY <1>1, <2>1, Least
<1>3. k \in 1 .. m /\ f[k] # g[k]
  BY <1>2
<1>4. /\ f[k] = IF k = 1 THEN s[k] ELSE f[k - 1] \o s[k]
      /\ g[k] = IF k = 1 THEN s[k] ELSE g[k - 1] \o s[k]
  BY <1>3 DEF Flattens
<1>5. k - 1 \in 1 .. m /\ ~ (k <= k - 1)
  BY <1>3, <1>4
<1>6. f[k - 1] = g[k - 1]
  BY <1>2, <1>5
<1>7. QED
  BY <1>3, <1>4, <1>6

LEMMA FlattenIs ==
  ASSUME NEW s, NEW m \in Nat, m = Len(s), NEW f, Flattens(f, s, m)
  PROVE  Chain!FlattenSeq(s) = IF m = 0 THEN s ELSE f[m]
<1> DEFINE g == CHOOSE g : Flattens(g, s, m)
<1>1. Flattens(g, s, m)
  OBVIOUS
<1>2. m # 0 => f[m] = g[m]
  <2>1. m # 0 => m \in 1 .. m
    OBVIOUS
  <2>2. QED
    BY <1>1, <2>1, FlattensAgree
<1>3. Chain!FlattenSeq(s) = IF m = 0 THEN s ELSE g[m]
  <2>1. Chain!FlattenSeq(s) =
          IF Len(s) = 0 THEN s ELSE (CHOOSE h : Flattens(h, s, Len(s)))[Len(s)]
    BY Zenon DEF Chain!FlattenSeq, Flattens
  <2>2. QED
    BY <2>1, Zenon
<1>4. QED
  BY <1>2, <1>3

(* One more piece.                                                          *)
LEMMA FlattenMore ==
  ASSUME NEW T, NEW s \in Seq(Seq(T)), NEW e \in Seq(T), NEW m \in Nat, m = Len(s),
         NEW f, Flattens(f, s, m), Chain!FlattenSeq(s) \in Seq(T)
  PROVE  /\ \E g : Flattens(g, Append(s, e), m + 1)
         /\ Chain!FlattenSeq(Append(s, e)) = Chain!FlattenSeq(s) \o e
<1> DEFINE t == Append(s, e)
           next == IF m = 0 THEN e ELSE f[m] \o e
           g == [k \in 1 .. m + 1 |-> IF k = m + 1 THEN next ELSE f[k]]
<1>1. Len(t) = m + 1 /\ t[m + 1] = e /\ \A k \in 1 .. m : t[k] = s[k]
  OBVIOUS
<1> HIDE DEF t
<1>2. ASSUME NEW k \in 1 .. m + 1
      PROVE  g[k] = IF k = 1 THEN t[k] ELSE g[k - 1] \o t[k]
  <2>1. CASE k = m + 1
    <3>1. k # 1 => k - 1 \in 1 .. m + 1 /\ k - 1 # m + 1 /\ k - 1 = m
      BY <2>1
    <3>2. k = 1 <=> m = 0
      BY <2>1
    <3>3. QED
      BY <1>1, <2>1, <3>1, <3>2
  <2>2. CASE k # m + 1
    <3>1. k \in 1 .. m
      BY <2>2
    <3>2. k # 1 => k - 1 \in 1 .. m + 1 /\ k - 1 # m + 1
      BY <3>1
    <3>3. f[k] = IF k = 1 THEN s[k] ELSE f[k - 1] \o s[k]
      BY <3>1 DEF Flattens
    <3>4. g[k] = f[k] /\ (k # 1 => g[k - 1] = f[k - 1])
      BY <2>2, <3>2
    <3>5. QED
      BY <1>1, <3>1, <3>3, <3>4
  <2>3. QED
    BY <2>1, <2>2
<1>3. g[m + 1] = next
  OBVIOUS
<1>4. g = [k \in 1 .. m + 1 |-> g[k]]
  OBVIOUS
<1> HIDE DEF g
<1>5. Flattens(g, t, m + 1)
  BY <1>2, <1>4, Zenon DEF Flattens
<1>6. Chain!FlattenSeq(t) = g[m + 1]
  <2>1. m + 1 \in Nat /\ m + 1 # 0
    OBVIOUS
  <2>2. QED
    BY <1>1, <1>5, <2>1, FlattenIs, Zenon
<1>7. Chain!FlattenSeq(s) = IF m = 0 THEN s ELSE f[m]
  BY FlattenIs
<1>8. m = 0 => s \o e = e
  <2>1. m = 0 => s = << >>
    BY ONLY s \in Seq(Seq(T)), m = Len(s), NoneIs
  <2>2. << >> \o e = e
    BY e \in Seq(T), NoneBefore, Zenon
  <2>3. QED
    BY <2>1, <2>2
<1>9. QED
  BY <1>3, <1>5, <1>6, <1>7, <1>8 DEF t

LEMMA TailIs ==
  ASSUME NEW S, NEW s \in Seq(S), NEW w \in 0 .. Len(s)
  PROVE  \A k \in 1 .. Len(s) - w : SubSeq(s, w + 1, Len(s))[k] = s[w + k]
OBVIOUS

(* A byte of the chain, of whatever message.                                *)
ChainByte == [of : Seq(Byte), times : Nat, off : Nat]

Packing ==
  /\ inputK \in Seq(Seq(Byte)) /\ Chain!Packed \in Seq(Byte)
  /\ \E f : Flattens(f, inputK, Len(inputK))

(* What was read, and then what is left of the digests, are the digests.    *)
Chaining ==
  /\ Packing
  /\ last \in Nat /\ todoK \in Nat
  /\ outK \in Seq(ChainByte) /\ tmp \in Seq(ChainByte)
  /\ last = 0 => outK = << >> /\ tmp = << >>
  /\ Len(outK) + Len(tmp) = last * DIGEST
  /\ \A k \in 1 .. Len(outK) : outK[k] = Chain!StreamByte(Chain!Packed, k - 1)
  /\ \A k \in 1 .. Len(tmp) : tmp[k] = Chain!StreamByte(Chain!Packed, Len(outK) + k - 1)

LEMMA ChainStarts == ASSUME Chain!Init PROVE Chaining
<1>1. inputK = << >> /\ last = 0 /\ tmp = << >> /\ todoK = 0 /\ outK = << >>
  BY DEF Chain!Init
<1>2. Chain!Packed = << >>
  BY <1>1 DEF Chain!Packed, Chain!FlattenSeq
<1>3. Flattens(<< >>, inputK, Len(inputK))
  BY <1>1 DEF Flattens
<1>4. 0 * DIGEST = 0
  BY XofsAssumption DEF Chain!ChainAssumption
<1>5. Packing
  BY <1>1, <1>2, <1>3 DEF Packing
<1>6. QED
  BY <1>1, <1>4, <1>5 DEF Chaining

LEMMA UpdateChains ==
  ASSUME Chaining, NEW data \in ChainPieces, Chain!update(data)
  PROVE  /\ Chaining' /\ last = 0
         /\ Chain!Packed' = Chain!Packed \o data /\ data \in Seq(Byte)
<1>1. /\ last = 0 /\ inputK' = Append(inputK, data)
      /\ last' = last /\ tmp' = tmp /\ todoK' = todoK /\ outK' = outK
  BY DEF Chain!update
<1>2. data \in Seq(Byte)
  BY XofsAssumption DEF Chain!ChainAssumption
<1>3. PICK f : Flattens(f, inputK, Len(inputK))
  BY DEF Chaining, Packing
<1>4. inputK \in Seq(Seq(Byte)) /\ Chain!FlattenSeq(inputK) \in Seq(Byte)
  BY Zenon DEF Chaining, Packing, Chain!Packed
<1>5. PICK m \in Nat : m = Len(inputK) /\ Len(Append(inputK, data)) = m + 1
  BY <1>2, <1>4
<1>6. /\ \E g : Flattens(g, Append(inputK, data), m + 1)
      /\ Chain!FlattenSeq(Append(inputK, data)) = Chain!FlattenSeq(inputK) \o data
  <2>1. Flattens(f, inputK, m)
    BY <1>3, <1>5, Zenon
  <2>2. QED
    BY ONLY <1>2, <1>4, <1>5, <2>1, m \in Nat, FlattenMore
<1>7. Chain!Packed' = Chain!Packed \o data
  BY <1>1, <1>6, Zenon DEF Chain!Packed
<1>8. Packing'
  <2>1. Append(inputK, data) \in Seq(Seq(Byte)) /\ Chain!Packed \o data \in Seq(Byte)
    BY <1>2, <1>4 DEF Chain!Packed
  <2>2. \E g : Flattens(g, inputK', Len(inputK'))
    BY <1>1, <1>5, <1>6, Zenon
  <2>3. QED
    BY <1>1, <1>7, <2>1, <2>2, Zenon DEF Packing, Flattens
<1>9. \A k : ~ (k \in 1 .. Len(<< >>))
  OBVIOUS
<1>10. QED
  BY <1>1, <1>2, <1>7, <1>8, <1>9 DEF Chaining

LEMMA SamePacking ==
  ASSUME Packing, inputK' = inputK
  PROVE  Packing' /\ Chain!Packed' = Chain!Packed
<1>1. Chain!Packed' = Chain!Packed
  BY Zenon DEF Chain!Packed
<1>2. QED
  BY <1>1, Zenon DEF Packing, Flattens

LEMMA HashChains ==
  ASSUME Chaining, Chain!HashAgain
  PROVE  Chaining'
<1>1. /\ todoK > 0 /\ last' = last + 1 /\ tmp' = tmp \o Chain!Digest(last + 1)
      /\ inputK' = inputK /\ todoK' = todoK /\ outK' = outK
  BY DEF Chain!HashAgain
<1>2. Packing /\ last \in Nat /\ outK \in Seq(ChainByte) /\ tmp \in Seq(ChainByte)
  BY DEF Chaining
<1>3. DIGEST \in Nat \ {0}
  BY XofsAssumption DEF Chain!ChainAssumption
<1>4. PICK p \in Nat : p = last * DIGEST /\ p + DIGEST = (last + 1) * DIGEST
  BY <1>2, <1>3
<1>5. PICK d : d = Chain!Digest(last + 1)
  OBVIOUS
<1>6. ASSUME NEW k \in 1 .. DIGEST
      PROVE  d[k] = Chain!StreamByte(Chain!Packed, p + k - 1) /\ d[k] \in ChainByte
  <2>1. k - 1 \in 0 .. DIGEST - 1 /\ k - 1 \in Nat
    BY <1>3
  <2>2. PICK j \in Nat : j = p + k - 1 /\ j = p + (k - 1)
    BY <1>4, <2>1
  <2>3. (last * DIGEST + (k - 1)) \div DIGEST = last /\ (last * DIGEST + (k - 1)) % DIGEST = k - 1
    BY ONLY <1>2, <1>3, <2>1, DivMod
  <2>4. j \div DIGEST = last /\ j % DIGEST = k - 1
    BY <1>4, <2>2, <2>3, Zenon
  <2>5. d[k] = [of |-> Chain!Packed, times |-> last + 1, off |-> k - 1]
    BY <1>5, Zenon DEF Chain!Digest
  <2>6. Chain!StreamByte(Chain!Packed, j) = [of |-> Chain!Packed, times |-> (j \div DIGEST) + 1, off |-> j % DIGEST]
    BY Zenon DEF Chain!StreamByte
  <2>7. [of |-> Chain!Packed, times |-> last + 1, off |-> k - 1] \in ChainByte
    BY <1>2, <2>1 DEF ChainByte, Packing
  <2>8. QED
    BY <2>2, <2>4, <2>5, <2>6, <2>7, Zenon
<1>7. d \in Seq(ChainByte) /\ Len(d) = DIGEST
  <2>1. d = [k \in 1 .. DIGEST |-> d[k]]
    BY <1>5, Zenon DEF Chain!Digest
  <2>2. [k \in 1 .. DIGEST |-> d[k]] \in [1 .. DIGEST -> ChainByte]
    BY <1>6, Zenon
  <2>3. d \in [1 .. DIGEST -> ChainByte]
    BY <2>1, <2>2, Zenon
  <2>4. QED
    BY ONLY <1>3, <2>3
<1>8. /\ tmp' \in Seq(ChainByte) /\ Len(tmp') = Len(tmp) + DIGEST
      /\ \A k \in 1 .. Len(tmp) : tmp'[k] = tmp[k]
      /\ \A k \in 1 .. DIGEST : tmp'[Len(tmp) + k] = d[k]
  <2>1. tmp' = tmp \o d
    BY <1>1, <1>5, Zenon
  <2>2. QED
    BY ONLY <1>2, <1>7, <2>1, Concat
<1>9. Packing' /\ Chain!Packed' = Chain!Packed
  BY <1>1, <1>2, SamePacking
<1>10. PICK a \in Nat, b \in Nat : a = Len(outK) /\ b = Len(tmp) /\ a + b = p
  BY <1>2, <1>4 DEF Chaining
<1>11. Len(outK') + Len(tmp') = last' * DIGEST
  <2>1. last' * DIGEST = p + DIGEST
    BY <1>1, <1>4, Zenon
  <2>2. Len(outK') + Len(tmp') = a + (b + DIGEST)
    BY <1>1, <1>8, <1>10, Zenon
  <2>3. a + (b + DIGEST) = p + DIGEST
    BY <1>3, <1>10
  <2>4. QED
    BY <2>1, <2>2, <2>3, Zenon
<1>12. ASSUME NEW k \in 1 .. Len(tmp')
       PROVE  tmp'[k] = Chain!StreamByte(Chain!Packed, Len(outK) + k - 1)
  <2>1. CASE k <= b
    <3>1. k \in 1 .. Len(tmp)
      BY <1>10, <2>1
    <3>2. QED
      BY <1>8, <3>1 DEF Chaining
  <2>2. CASE ~ (k <= b)
    <3>1. PICK j \in 1 .. DIGEST : j = k - b /\ b + j = k
      <4>1. k \in 1 .. b + DIGEST
        BY <1>8, <1>10, Zenon
      <4>2. QED
        BY ONLY <1>3, <2>2, <4>1, b \in Nat
    <3>2. tmp'[k] = d[j]
      BY <1>8, <1>10, <3>1, Zenon
    <3>3. p + j - 1 = a + k - 1
      BY <1>10, <3>1
    <3>4. QED
      BY <1>6, <1>10, <3>2, <3>3, Zenon
  <2>3. QED
    BY <2>1, <2>2
<1>13. \A k \in 1 .. Len(outK) : outK[k] = Chain!StreamByte(Chain!Packed, k - 1)
  BY DEF Chaining
<1>14. /\ \A k \in 1 .. Len(outK') : outK'[k] = Chain!StreamByte(Chain!Packed', k - 1)
       /\ \A k \in 1 .. Len(tmp') : tmp'[k] = Chain!StreamByte(Chain!Packed', Len(outK') + k - 1)
  BY <1>1, <1>9, <1>12, <1>13, Zenon
<1>15. last' \in Nat /\ last' # 0 /\ todoK' \in Nat
  BY <1>1, <1>2 DEF Chaining
<1>16. QED
  BY <1>1, <1>2, <1>8, <1>9, <1>11, <1>14, <1>15, Zenon DEF Chaining

LEMMA CutChains ==
  ASSUME Chaining, Chain!Cut
  PROVE  /\ Chaining' /\ last # 0 /\ Chain!Packed' = Chain!Packed
         /\ Len(outK) <= Len(outK') /\ \A k \in 1 .. Len(outK) : outK'[k] = outK[k]
<1>1. /\ todoK > 0 /\ last > 0 /\ Len(tmp) >= todoK
      /\ outK' = outK \o SubSeq(tmp, 1, todoK) /\ tmp' = SubSeq(tmp, todoK + 1, Len(tmp))
      /\ todoK' = 0 /\ inputK' = inputK /\ last' = last
  BY DEF Chain!Cut
<1>2. /\ Packing /\ last \in Nat /\ todoK \in Nat
      /\ outK \in Seq(ChainByte) /\ tmp \in Seq(ChainByte)
  BY DEF Chaining
<1>3. PICK a \in Nat, b \in Nat, w \in Nat :
        a = Len(outK) /\ b = Len(tmp) /\ w = todoK /\ w \in 0 .. b
  BY <1>1, <1>2
<1>4. PICK head, rest : head = SubSeq(tmp, 1, todoK) /\ rest = SubSeq(tmp, todoK + 1, Len(tmp))
  OBVIOUS
<1>5. /\ head \in Seq(ChainByte) /\ Len(head) = w /\ \A k \in 1 .. w : head[k] = tmp[k]
      /\ rest \in Seq(ChainByte) /\ Len(rest) = b - w
      /\ \A k \in 1 .. b - w : rest[k] = tmp[w + k]
  <2>1. todoK \in 0 .. Len(tmp)
    BY <1>3, Zenon
  <2>2. /\ head \in Seq(ChainByte) /\ Len(head) = todoK /\ \A k \in 1 .. todoK : head[k] = tmp[k]
        /\ rest \in Seq(ChainByte) /\ Len(rest) = Len(tmp) - todoK
    BY ONLY <1>2, <1>4, <2>1, Cut
  <2>3. \A k \in 1 .. Len(tmp) - todoK : rest[k] = tmp[todoK + k]
    BY ONLY <1>2, <1>4, <2>1, TailIs
  <2>4. QED
    BY <1>3, <2>2, <2>3, Zenon
<1>6. /\ outK' \in Seq(ChainByte) /\ Len(outK') = a + w
      /\ \A k \in 1 .. a : outK'[k] = outK[k]
      /\ \A k \in 1 .. w : outK'[a + k] = head[k]
  <2>1. outK' = outK \o head
    BY <1>1, <1>4, Zenon
  <2>2. outK \in Seq(ChainByte) /\ head \in Seq(ChainByte) /\ Len(head) = w
    BY <1>2, <1>5
  <2>3. /\ outK' \in Seq(ChainByte) /\ Len(outK') = Len(outK) + w
        /\ \A k \in 1 .. Len(outK) : outK'[k] = outK[k]
        /\ \A k \in 1 .. w : outK'[Len(outK) + k] = head[k]
    BY ONLY <2>1, <2>2, Concat
  <2>4. QED
    BY <1>3, <2>3, Zenon
<1>7. Packing' /\ Chain!Packed' = Chain!Packed
  BY <1>1, <1>2, SamePacking
<1>8. /\ a + b = last * DIGEST
      /\ \A k \in 1 .. a : outK[k] = Chain!StreamByte(Chain!Packed, k - 1)
      /\ \A k \in 1 .. b : tmp[k] = Chain!StreamByte(Chain!Packed, a + k - 1)
  BY <1>3, Zenon DEF Chaining
<1>9. Len(outK') + Len(tmp') = last' * DIGEST
  <2>1. (a + w) + (b - w) = a + b
    BY <1>3
  <2>2. QED
    BY <1>1, <1>4, <1>5, <1>6, <1>8, <2>1, Zenon
<1>10. ASSUME NEW k \in 1 .. Len(outK')
       PROVE  outK'[k] = Chain!StreamByte(Chain!Packed, k - 1)
  <2>1. CASE k <= a
    <3>1. k \in 1 .. a
      BY <1>3, <2>1
    <3>2. QED
      BY <1>6, <1>8, <3>1
  <2>2. CASE ~ (k <= a)
    <3>1. PICK j \in 1 .. w : a + j = k /\ j \in 1 .. b /\ a + j - 1 = k - 1
      BY <1>3, <1>6, <2>2
    <3>2. outK'[a + j] = head[j] /\ head[j] = tmp[j]
      BY <1>5, <1>6, Zenon
    <3>3. tmp[j] = Chain!StreamByte(Chain!Packed, a + j - 1)
      BY <1>8, <3>1, Zenon
    <3>4. QED
      BY <3>1, <3>2, <3>3, Zenon
  <2>3. QED
    BY <2>1, <2>2
<1>11. ASSUME NEW k \in 1 .. Len(tmp')
       PROVE  tmp'[k] = Chain!StreamByte(Chain!Packed, Len(outK') + k - 1)
  <2>1. k \in 1 .. b - w
    BY <1>1, <1>4, <1>5, Zenon
  <2>2. PICK j \in 1 .. b : j = w + k /\ a + j - 1 = (a + w) + k - 1
    BY <1>3, <2>1
  <2>3. tmp'[k] = tmp[j]
    BY <1>1, <1>4, <1>5, <2>1, <2>2, Zenon
  <2>4. tmp[j] = Chain!StreamByte(Chain!Packed, a + j - 1)
    BY <1>8, Zenon
  <2>5. QED
    BY <1>6, <2>2, <2>3, <2>4, Zenon
<1>12. /\ \A k \in 1 .. Len(outK') : outK'[k] = Chain!StreamByte(Chain!Packed', k - 1)
       /\ \A k \in 1 .. Len(tmp') : tmp'[k] = Chain!StreamByte(Chain!Packed', Len(outK') + k - 1)
  BY <1>7, <1>10, <1>11, Zenon
<1>13. last' \in Nat /\ last' # 0 /\ todoK' \in Nat /\ tmp' \in Seq(ChainByte)
  BY <1>1, <1>2, <1>4, <1>5
<1>14. Chaining'
  BY <1>6, <1>7, <1>9, <1>12, <1>13, Zenon DEF Chaining
<1>15. a <= a + w
  BY <1>3
<1>16. last # 0
  BY <1>1, <1>2
<1>17. QED
  BY <1>3, <1>6, <1>7, <1>14, <1>15, <1>16, Zenon

LEMMA ChainStep ==
  ASSUME Chaining, Chain!Next
  PROVE  Chaining' /\ [Chain!XOF!Next]_<<Chain!Packed, last > 0, outK>>
<1>1. CASE \E data \in ChainPieces : Chain!update(data)
  <2>1. PICK data \in ChainPieces : Chain!update(data)
    BY <1>1
  <2>2. /\ Chaining' /\ last = 0
        /\ Chain!Packed' = Chain!Packed \o data /\ data \in Seq(Byte)
    BY <2>1, UpdateChains
  <2>3. last' = last /\ outK' = outK
    BY <2>1 DEF Chain!update
  <2>4. Chain!Packed \in Seq(Byte)
    BY DEF Chaining, Packing
  <2>5. PICK a, b : a = Chain!Packed /\ b = Chain!Packed'
    OBVIOUS
  <2>6. b \in Seq(Byte) /\ Chain!XOF!IsPrefixOf(a, b)
    <3>1. a \in Seq(Byte) /\ b = a \o data
      BY <2>2, <2>4, <2>5, Zenon
    <3>2. b \in Seq(Byte) /\ Len(b) = Len(a) + Len(data) /\ \A k \in 1 .. Len(a) : b[k] = a[k]
      BY ONLY <2>2, <3>1, ConcatIsSeq
    <3>3. Len(a) \in Nat /\ Len(data) \in Nat
      BY <2>2, <3>1
    <3>4. QED
      BY <3>2, <3>3 DEF Chain!XOF!IsPrefixOf
  <2>7. ~ (last > 0) /\ (last' > 0) = (last > 0)
    BY <2>2, <2>3
  <2>8. Chain!XOF!Absorb
    BY <2>3, <2>5, <2>6, <2>7, Zenon DEF Chain!XOF!Absorb
  <2>9. QED
    BY <2>2, <2>8, Zenon DEF Chain!XOF!Next
<1>2. CASE Chain!read
  <2>1. inputK' = inputK /\ last' = last /\ tmp' = tmp /\ outK' = outK /\ todoK' = 2
    BY <1>2 DEF Chain!read
  <2>2. Packing' /\ Chain!Packed' = Chain!Packed
    BY <2>1, SamePacking DEF Chaining
  <2>3. Chaining'
    BY <2>1, <2>2 DEF Chaining
  <2>4. QED
    BY <2>1, <2>2, <2>3
<1>3. CASE Chain!HashAgain
  <2>1. Chaining'
    BY <1>3, HashChains
  <2>2. inputK' = inputK /\ last' = last + 1 /\ outK' = outK /\ last \in Nat
    BY <1>3 DEF Chain!HashAgain, Chaining
  <2>3. Chain!Packed' = Chain!Packed
    BY <2>2, SamePacking DEF Chaining
  <2>4. CASE last = 0
    <3>1. ~ (last > 0) /\ (last' > 0) = TRUE
      BY <2>2, <2>4
    <3>2. Chain!XOF!Flip
      BY <2>2, <2>3, <3>1, Zenon DEF Chain!XOF!Flip
    <3>3. QED
      BY <2>1, <3>2, Zenon DEF Chain!XOF!Next
  <2>5. CASE last # 0
    <3>1. (last' > 0) = (last > 0)
      BY <2>2, <2>5
    <3>2. QED
      BY <2>1, <2>2, <2>3, <3>1
  <2>6. QED
    BY <2>4, <2>5
<1>4. CASE Chain!Cut
  <2>1. /\ Chaining' /\ last # 0 /\ Chain!Packed' = Chain!Packed
        /\ Len(outK) <= Len(outK') /\ \A k \in 1 .. Len(outK) : outK'[k] = outK[k]
    BY <1>4, CutChains
  <2>2. last' = last /\ last \in Nat
    BY <1>4 DEF Chain!Cut, Chaining
  <2>3. (last > 0) /\ (last' > 0) = (last > 0)
    BY <2>1, <2>2
  <2>4. \A k \in 1 .. Len(outK') : outK'[k] = Chain!StreamByte(Chain!Packed', k - 1)
    BY <2>1, Zenon DEF Chaining
  <2>5. \A k \in Len(outK) + 1 .. Len(outK') : k \in 1 .. Len(outK')
    <3>1. Len(outK) \in Nat /\ Len(outK') \in Nat
      BY <2>1 DEF Chaining
    <3>2. QED
      BY ONLY <3>1
  <2>6. Chain!XOF!IsPrefixOf(outK, outK')
    BY <2>1, Zenon DEF Chain!XOF!IsPrefixOf
  <2>7. Chain!XOF!Extract
    BY <2>1, <2>3, <2>4, <2>5, <2>6, Zenon DEF Chain!XOF!Extract
  <2>8. QED
    BY <2>1, <2>7, Zenon DEF Chain!XOF!Next
<1>5. QED
  BY <1>1, <1>2, <1>3, <1>4 DEF Chain!Next

LEMMA ChainStutters ==
  ASSUME Chaining, UNCHANGED chainVars
  PROVE  Chaining' /\ UNCHANGED <<Chain!Packed, last > 0, outK>>
<1>1. inputK' = inputK /\ last' = last /\ tmp' = tmp /\ todoK' = todoK /\ outK' = outK
  BY DEF chainVars
<1>2. Packing' /\ Chain!Packed' = Chain!Packed
  BY <1>1, SamePacking DEF Chaining
<1>3. Chaining'
  BY <1>1, <1>2 DEF Chaining
<1>4. QED
  BY <1>1, <1>2, <1>3

(***************************************************************************)
(* The counter-mode PRNG                                                    *)
(***************************************************************************)

(***************************************************************************)
(* The only fact about multiplication the rest needs; everywhere else       *)
(* BlockStart stays folded.                                                 *)
(***************************************************************************)
LEMMA CtrStart ==
  ASSUME Ctr!CtrAssumption, NEW b \in Nat
  PROVE  Ctr!BlockStart(b) \in Nat /\ Ctr!BlockStart(b + 1) = Ctr!BlockStart(b) + HASH_OUTPUT
<1>1. HASH_OUTPUT \in Nat
  BY Ctr!CtrAssumption DEF Ctr!CtrAssumption
<1>2. \A h \in Nat : b * h \in Nat /\ (b + 1) * h = b * h + h
  OBVIOUS
<1>3. QED
  BY <1>1, <1>2 DEF Ctr!BlockStart

(***************************************************************************)
(* Appending n bytes of a block whose first byte is the next of the stream. *)
(***************************************************************************)
LEMMA CtrAppends ==
  ASSUME Ctr!CtrAssumption, Ctr!IInv, NEW block \in Nat, NEW off \in Nat, NEW n \in Nat,
         n > 0 => off + n <= HASH_OUTPUT,
         n > 0 => Len(outP) = Ctr!BlockStart(block) + off,
         outP' = outP \o Ctr!Bytes(block, off, n), buffer' = buffer
  PROVE  /\ outP' \in Seq(Ctr!OutByte)
         /\ Len(outP') = Len(outP) + n
         /\ Ctr!OutputIsStream'
         /\ \A k \in 1 .. Len(outP) : outP'[k] = outP[k]
<1>1. outP \in Seq(Ctr!OutByte) /\ buffer \in Seq(Byte) /\ HASH_OUTPUT \in Nat \ {0}
  BY Ctr!CtrAssumption DEF Ctr!IInv, Ctr!TypeOK, Ctr!CtrAssumption
<1>2. ASSUME NEW k \in 1 .. n
      PROVE  Ctr!BlockByte(buffer, block, off + k - 1) \in Ctr!OutByte
  <2>1. off + k - 1 \in 0 .. HASH_OUTPUT - 1
    BY <1>1
  <2>2. QED
    BY <2>1, <1>1 DEF Ctr!BlockByte, Ctr!OutByte
<1>3. PICK new \in Seq(Ctr!OutByte) : new = Ctr!Bytes(block, off, n) /\ Len(new) = n
  <2>1. Ctr!Bytes(block, off, n) \in Seq(Ctr!OutByte) /\ Len(Ctr!Bytes(block, off, n)) = n
    BY ONLY <1>2, n \in Nat DEF Ctr!Bytes
  <2>2. QED
    BY <2>1
<1>4. /\ outP' \in Seq(Ctr!OutByte)
      /\ Len(outP') = Len(outP) + n
      /\ \A k \in 1 .. Len(outP) : outP'[k] = outP[k]
      /\ \A k \in 1 .. n : outP'[Len(outP) + k] = new[k]
  <2>1. outP' = outP \o new
    BY <1>3
  <2>2. /\ outP \o new \in Seq(Ctr!OutByte)
        /\ Len(outP \o new) = Len(outP) + Len(new)
        /\ \A k \in 1 .. Len(outP) : (outP \o new)[k] = outP[k]
        /\ \A k \in 1 .. Len(new) : (outP \o new)[Len(outP) + k] = new[k]
    <3>1. PICK S, t : S = Ctr!OutByte /\ t = outP
      OBVIOUS
    <3>2. t \in Seq(S) /\ new \in Seq(S)
      BY <1>1, <3>1
    <3>3. /\ t \o new \in Seq(S)
          /\ Len(t \o new) = Len(t) + Len(new)
          /\ \A k \in 1 .. Len(t) : (t \o new)[k] = t[k]
          /\ \A k \in 1 .. Len(new) : (t \o new)[Len(t) + k] = new[k]
      BY ONLY <3>2, ConcatIsSeq
    <3>4. QED
      BY ONLY <3>1, <3>3, Zenon
  <2>3. QED
    BY <1>3, <2>1, <2>2, Zenon
<1>5. ASSUME NEW k \in 1 .. Len(outP')
      PROVE  outP'[k].state = buffer' /\ Ctr!Position(outP'[k]) = k - 1
  <2>1. CASE k \in 1 .. Len(outP)
    BY <2>1, <1>4 DEF Ctr!IInv, Ctr!OutputIsStream, Ctr!Position
  <2>2. CASE k \notin 1 .. Len(outP)
    <3>1. PICK j \in 1 .. n : k = Len(outP) + j
      <4>1. k - Len(outP) \in 1 .. n /\ k = Len(outP) + (k - Len(outP))
        BY <2>2, <1>1, <1>4
      <4>2. QED
        BY <4>1
    <3>2. outP'[k] = Ctr!BlockByte(buffer, block, off + j - 1)
      <4>1. outP'[k] = new[j]
        BY <3>1, <1>4, Zenon
      <4>2. Ctr!Bytes(block, off, n)[j] = Ctr!BlockByte(buffer, block, off + j - 1)
        BY <3>1, Zenon DEF Ctr!Bytes
      <4>3. QED
        BY <1>3, <4>1, <4>2, Zenon
    <3>3. Len(outP) = Ctr!BlockStart(block) + off /\ Ctr!BlockStart(block) \in Nat
      BY <3>1, <1>1, CtrStart
    <3>4. QED
      <4>1. PICK x, d : x = outP'[k] /\ d = off + j - 1
        OBVIOUS
      <4>2. x = [state |-> buffer, block |-> block, off |-> d]
        BY <3>2, <4>1, Zenon DEF Ctr!BlockByte
      <4>3. x.state = buffer /\ Ctr!Position(x) = Ctr!BlockStart(block) + d
        BY ONLY <4>2 DEF Ctr!Position
      <4>4. PICK p \in Nat, l \in Nat : p = Ctr!BlockStart(block) /\ l = Len(outP)
        BY <1>1, <3>3
      <4>5. p + d = k - 1
        <5>1. ASSUME NEW a \in Nat, NEW b \in Nat, NEW c \in Nat PROVE a + (b + c - 1) = ((a + b) + c) - 1
          BY ONLY <5>1
        <5>2. l = p + off /\ k = l + j
          BY <3>1, <3>3, <4>4, Zenon
        <5>3. off \in Nat /\ j \in Nat
          OBVIOUS
        <5>4. p + (off + j - 1) = ((p + off) + j) - 1
          BY ONLY <5>1, <5>3, p \in Nat
        <5>5. QED
          BY ONLY <4>1, <5>2, <5>4, Zenon
      <4>6. buffer' = buffer
        OBVIOUS
      <4>7. QED
        BY <4>1, <4>3, <4>4, <4>5, <4>6, Zenon
  <2>3. QED
    BY <2>1, <2>2
<1>6. Ctr!OutputIsStream'
  BY <1>5 DEF Ctr!OutputIsStream, Ctr!Position
<1>7. QED
  BY <1>4, <1>6

LEMMA CtrInjects ==
  ASSUME Ctr!CtrAssumption, Ctr!IInv, NEW data \in CtrPieces, Ctr!inject(data)
  PROVE  Ctr!IInv'
<1>1. buffer' \in Seq(Byte) /\ Len(buffer') = Len(buffer) + Len(data)
  BY Ctr!CtrAssumption DEF Ctr!IInv, Ctr!TypeOK, Ctr!inject, Ctr!CtrAssumption
<1>2. outP = << >> /\ Len(outP) = 0
  BY DEF Ctr!IInv, Ctr!SilentUntilFlip, Ctr!inject
<1>3. Ctr!TypeOK'
  BY <1>1 DEF Ctr!IInv, Ctr!TypeOK, Ctr!inject
<1>4. Ctr!OutputIsStream'
  BY <1>2 DEF Ctr!inject, Ctr!OutputIsStream, Ctr!Position
<1>5. QED
  BY <1>3, <1>4 DEF Ctr!IInv, Ctr!inject, Ctr!BufferFollows, Ctr!SilentUntilFlip

LEMMA CtrFlips ==
  ASSUME Ctr!CtrAssumption, Ctr!IInv, Ctr!flip
  PROVE  Ctr!IInv'
BY Ctr!CtrAssumption DEF Ctr!IInv, Ctr!TypeOK, Ctr!CtrAssumption, Ctr!flip, Ctr!OutputIsStream, Ctr!Position,
       Ctr!BufferFollows, Ctr!SilentUntilFlip

LEMMA CtrExtracts ==
  ASSUME Ctr!CtrAssumption, Ctr!IInv, NEW length \in 0 .. MaxLength, Ctr!extract(length)
  PROVE  Ctr!IInv'
<1> DEFINE available == out_buffer_len - out_buffer_pos
           to_copy == IF available > 0 THEN Ctr!Lesser(length, available) ELSE 0
<1>1. /\ out_buffer_pos \in 0 .. HASH_OUTPUT
      /\ out_buffer_len \in {0, HASH_OUTPUT}
      /\ HASH_OUTPUT \in Nat \ {0} /\ counter \in Nat /\ out_buffer \in Nat
      /\ length \in Nat /\ outP \in Seq(Ctr!OutByte)
  BY Ctr!CtrAssumption DEF Ctr!IInv, Ctr!TypeOK, Ctr!CtrAssumption
<1>2. /\ to_copy \in Nat /\ to_copy <= length
      /\ to_copy > 0 => /\ out_buffer_len = HASH_OUTPUT
                        /\ out_buffer_pos + to_copy <= HASH_OUTPUT
      /\ out_buffer_pos + to_copy \in 0 .. HASH_OUTPUT
      /\ to_copy < length => out_buffer_len - (out_buffer_pos + to_copy) <= 0
  BY <1>1 DEF Ctr!Lesser
<1>3. to_copy > 0 => Len(outP) = Ctr!BlockStart(out_buffer) + out_buffer_pos
  <2>1. HAVE to_copy > 0
  <2>2. counter = out_buffer + 1 /\ out_buffer_len = HASH_OUTPUT
    BY <2>1, <1>1, <1>2 DEF Ctr!IInv, Ctr!BufferFollows
  <2>3. Ctr!BlockStart(counter) = Ctr!BlockStart(out_buffer) + HASH_OUTPUT
    BY <2>2, <1>1, CtrStart
  <2>4. Ctr!BlockStart(out_buffer) \in Nat
    BY <1>1, CtrStart
  <2>5. QED
    BY <2>2, <2>3, <2>4, <1>1 DEF Ctr!IInv, Ctr!BufferFollows
<1>4. /\ outP' = outP \o Ctr!Bytes(out_buffer, out_buffer_pos, to_copy)
      /\ out_buffer_pos' = out_buffer_pos + to_copy
      /\ todoP' = IF to_copy = length THEN -1 ELSE length - to_copy
      /\ todoP = -1 /\ finalized
      /\ UNCHANGED <<buffer, finalized, counter, out_buffer, out_buffer_len>>
  BY DEF Ctr!extract
<1> HIDE DEF to_copy, available
<1>5. /\ outP' \in Seq(Ctr!OutByte) /\ Ctr!OutputIsStream'
      /\ Len(outP') = Len(outP) + to_copy
  <2>1. out_buffer \in Nat /\ out_buffer_pos \in Nat /\ to_copy \in Nat
    BY <1>1, <1>2
  <2>2. to_copy > 0 => out_buffer_pos + to_copy <= HASH_OUTPUT
    BY <1>1, <1>2
  <2>3. outP' = outP \o Ctr!Bytes(out_buffer, out_buffer_pos, to_copy) /\ buffer' = buffer
    BY <1>4
  <2>4. QED
    BY <2>1, <2>2, <2>3, <1>3, CtrAppends
<1>6. Ctr!TypeOK'
  BY <1>1, <1>2, <1>4, <1>5 DEF Ctr!IInv, Ctr!TypeOK
<1>7. /\ Len(outP') = Ctr!BlockStart(counter) - (out_buffer_len - out_buffer_pos')
      /\ out_buffer_pos' <= out_buffer_len
      /\ out_buffer_len # 0 => out_buffer + 1 = counter
  <2>1. Ctr!BlockStart(counter) \in Nat
    BY <1>1, CtrStart
  <2>2. /\ Len(outP) = Ctr!BlockStart(counter) - (out_buffer_len - out_buffer_pos)
        /\ out_buffer_len # 0 => out_buffer + 1 = counter
    BY DEF Ctr!IInv, Ctr!BufferFollows
  <2>3. out_buffer_pos' <= out_buffer_len
    BY <1>1, <1>2, <1>4 DEF Ctr!IInv, Ctr!BufferFollows
  <2>4. QED
    BY ONLY <2>1, <2>2, <2>3, <1>1, <1>2, <1>4, <1>5
<1>8. todoP' # -1 => out_buffer_pos' = out_buffer_len
  <2>1. HAVE todoP' # -1
  <2>2. to_copy < length /\ out_buffer_pos' >= out_buffer_len
    BY <2>1, <1>1, <1>2, <1>4
  <2>3. QED
    BY <2>2, <1>1, <1>2, <1>4, <1>7
<1>9. QED
  BY <1>4, <1>5, <1>6, <1>7, <1>8 DEF Ctr!IInv, Ctr!BufferFollows, Ctr!SilentUntilFlip

LEMMA CtrNextBlock ==
  ASSUME Ctr!CtrAssumption, Ctr!IInv, Ctr!NextBlock
  PROVE  Ctr!IInv'
<1> DEFINE to_copy == Ctr!Lesser(todoP, HASH_OUTPUT)
<1>1. /\ HASH_OUTPUT \in Nat \ {0} /\ counter \in Nat /\ outP \in Seq(Ctr!OutByte)
      /\ todoP \in Nat /\ todoP > 0
  BY Ctr!CtrAssumption DEF Ctr!IInv, Ctr!TypeOK, Ctr!CtrAssumption, Ctr!NextBlock
<1>2. to_copy \in 1 .. HASH_OUTPUT /\ to_copy <= todoP
  BY <1>1 DEF Ctr!Lesser
<1>3. /\ Ctr!BlockStart(counter) \in Nat
      /\ Ctr!BlockStart(counter + 1) = Ctr!BlockStart(counter) + HASH_OUTPUT
  BY <1>1, CtrStart
<1>4. Len(outP) = Ctr!BlockStart(counter) + 0 /\ finalized
  BY <1>1, <1>3 DEF Ctr!IInv, Ctr!TypeOK, Ctr!BufferFollows, Ctr!SilentUntilFlip
<1>5. /\ outP' = outP \o Ctr!Bytes(counter, 0, to_copy)
      /\ out_buffer' = counter /\ out_buffer_len' = HASH_OUTPUT
      /\ out_buffer_pos' = to_copy /\ counter' = counter + 1
      /\ todoP' = IF to_copy = todoP THEN -1 ELSE todoP - to_copy
      /\ buffer' = buffer /\ finalized' = finalized
  BY DEF Ctr!NextBlock
<1> HIDE DEF to_copy
<1>6. /\ outP' \in Seq(Ctr!OutByte) /\ Ctr!OutputIsStream'
      /\ Len(outP') = Len(outP) + to_copy
  <2>1. counter \in Nat /\ 0 \in Nat /\ to_copy \in Nat /\ 0 + to_copy <= HASH_OUTPUT
    BY <1>1, <1>2
  <2>2. outP' = outP \o Ctr!Bytes(counter, 0, to_copy) /\ buffer' = buffer
    BY <1>5
  <2>3. QED
    BY <2>1, <2>2, <1>4, CtrAppends
<1>7. Ctr!TypeOK'
  BY <1>1, <1>2, <1>5, <1>6 DEF Ctr!IInv, Ctr!TypeOK
<1>8. Len(outP') = Ctr!BlockStart(counter') - (out_buffer_len' - out_buffer_pos')
  <2>1. Len(outP') = Ctr!BlockStart(counter) + to_copy
    BY <1>3, <1>4, <1>6
  <2>2. Ctr!BlockStart(counter') = Ctr!BlockStart(counter) + HASH_OUTPUT
    BY <1>3, <1>5
  <2>3. \A p, h, t \in Nat : p + t = (p + h) - (h - t)
    OBVIOUS
  <2>4. QED
    BY <2>1, <2>2, <2>3, <1>1, <1>2, <1>3, <1>5
<1>9. /\ out_buffer_pos' <= out_buffer_len'
      /\ todoP' # -1 => out_buffer_pos' = out_buffer_len'
  BY <1>1, <1>2, <1>5 DEF to_copy, Ctr!Lesser
<1>10. QED
  BY <1>4, <1>5, <1>6, <1>7, <1>8, <1>9 DEF Ctr!IInv, Ctr!BufferFollows, Ctr!SilentUntilFlip

LEMMA CtrStarts ==
  ASSUME Ctr!CtrAssumption
  PROVE  Ctr!Init => Ctr!IInv
<1> SUFFICES ASSUME Ctr!Init PROVE Ctr!IInv
  OBVIOUS
<1>1. Len(<< >>) = 0
  OBVIOUS
<1>0. /\ finalized = FALSE /\ counter = 0 /\ out_buffer = 0 /\ todoP = -1
      /\ out_buffer_pos = 0 /\ out_buffer_len = 0
  BY Zenon DEF Ctr!Init
<1>2. Ctr!TypeOK
  <2>1. HASH_OUTPUT \in Nat /\ MAX_BUFFER_SIZE \in Nat
    BY Ctr!CtrAssumption DEF Ctr!CtrAssumption
  <2>2. buffer \in Seq(Byte) /\ Len(buffer) <= MAX_BUFFER_SIZE /\ outP \in Seq(Ctr!OutByte)
    BY <1>1, <2>1 DEF Ctr!Init
  <2>3. /\ counter \in Nat /\ out_buffer \in Nat
        /\ out_buffer_pos \in 0 .. HASH_OUTPUT
        /\ out_buffer_len \in {0, HASH_OUTPUT}
        /\ todoP \in Nat \cup {-1}
    <3>1. 0 \in Nat /\ 0 \in 0 .. HASH_OUTPUT /\ -1 \in Nat \cup {-1}
      BY <2>1
    <3>2. QED
      BY <1>0, <3>1, Zenon
  <2>4. finalized \in BOOLEAN
    BY <1>0, Zenon
  <2>5. QED
    BY <2>2, <2>3, <2>4, Zenon DEF Ctr!TypeOK
<1>3. Ctr!OutputIsStream
  <2>1. \A k : k \notin 1 .. 0
    OBVIOUS
  <2>2. 1 .. Len(outP) = 1 .. 0
    BY <1>1, Zenon DEF Ctr!Init
  <2>3. QED
    BY <2>1, <2>2, Zenon DEF Ctr!OutputIsStream
<1>4. Ctr!BufferFollows
  <2>1. Ctr!BlockStart(counter) = 0
    BY <1>0, Ctr!CtrAssumption DEF Ctr!BlockStart, Ctr!CtrAssumption
  <2>2. Len(outP) = 0
    BY <1>1, Zenon DEF Ctr!Init
  <2>3. QED
    BY <1>0, <2>1, <2>2 DEF Ctr!BufferFollows
<1>5. QED
  BY <1>2, <1>3, <1>4 DEF Ctr!Init, Ctr!IInv, Ctr!SilentUntilFlip

LEMMA CtrKept ==
  ASSUME Ctr!CtrAssumption
  PROVE  Ctr!IInv /\ [Ctr!Next]_(Ctr!vars) => Ctr!IInv'
<1> SUFFICES ASSUME Ctr!IInv, [Ctr!Next]_(Ctr!vars) PROVE Ctr!IInv'
  OBVIOUS
<1>1. CASE UNCHANGED Ctr!vars
  BY <1>1 DEF Ctr!vars, Ctr!IInv, Ctr!TypeOK, Ctr!OutByte, Ctr!OutputIsStream, Ctr!Position,
              Ctr!BufferFollows, Ctr!SilentUntilFlip
<1>2. QED
  BY <1>1, CtrInjects, CtrFlips, CtrExtracts,
     CtrNextBlock, Ctr!CtrAssumption DEF Ctr!Next

(* The invariant holds throughout, whatever the sizes are. *)
THEOREM CtrInvariance ==
  ASSUME Ctr!CtrAssumption
  PROVE  Ctr!Spec => []Ctr!IInv
BY CtrStarts, CtrKept, PTL DEF Ctr!Spec

(* What comes out is the counter-mode stream, in order, without gaps. *)
THEOREM CtrStreamCorrect ==
  ASSUME Ctr!CtrAssumption
  PROVE  Ctr!Spec => []Ctr!OutputIsStream
<1>1. Ctr!IInv => Ctr!OutputIsStream
  BY DEF Ctr!IInv
<1>2. QED
  BY <1>1, CtrInvariance, PTL

(***************************************************************************)
(* A byte is determined by its state and its position.                      *)
(***************************************************************************)
LEMMA CtrByte ==
  ASSUME Ctr!CtrAssumption, NEW b \in Ctr!OutByte
  PROVE  b = Ctr!StreamByte(b.state, Ctr!Position(b))
<1>1. /\ b.block \in Nat /\ b.off \in 0 .. HASH_OUTPUT - 1
      /\ b = [state |-> b.state, block |-> b.block, off |-> b.off]
      /\ HASH_OUTPUT \in Nat \ {0}
  BY Ctr!CtrAssumption DEF Ctr!OutByte, Ctr!CtrAssumption
<1>2. Ctr!Position(b) \div HASH_OUTPUT = b.block /\ Ctr!Position(b) % HASH_OUTPUT = b.off
  BY <1>1, DivMod DEF Ctr!Position, Ctr!BlockStart
<1>3. QED
  BY <1>1, <1>2 DEF Ctr!StreamByte, Ctr!BlockByte

(***************************************************************************)
(* Extraction never takes bytes back.                                       *)
(***************************************************************************)
LEMMA CtrGrows ==
  ASSUME Ctr!CtrAssumption, Ctr!IInv, Ctr!IInv', Ctr!NextBlock \/ \E length \in 0 .. MaxLength : Ctr!extract(length)
  PROVE  Len(outP) <= Len(outP')
<1>1. /\ HASH_OUTPUT \in Nat \ {0} /\ counter \in Nat
      /\ out_buffer_pos \in 0 .. HASH_OUTPUT /\ out_buffer_pos' \in 0 .. HASH_OUTPUT
      /\ out_buffer_len \in {0, HASH_OUTPUT}
      /\ Ctr!BlockStart(counter) \in Nat
      /\ Ctr!BlockStart(counter + 1) = Ctr!BlockStart(counter) + HASH_OUTPUT
  BY Ctr!CtrAssumption, CtrStart DEF Ctr!IInv, Ctr!TypeOK, Ctr!CtrAssumption
<1>2. /\ Len(outP) = Ctr!BlockStart(counter) - (out_buffer_len - out_buffer_pos)
      /\ Len(outP') = Ctr!BlockStart(counter') - (out_buffer_len' - out_buffer_pos')
      /\ out_buffer_pos <= out_buffer_len
  BY DEF Ctr!IInv, Ctr!BufferFollows
<1>3. CASE Ctr!NextBlock
  <2>1. counter' = counter + 1 /\ out_buffer_len' = HASH_OUTPUT
    BY <1>3 DEF Ctr!NextBlock
  <2>2. PICK p \in Nat : p = Ctr!BlockStart(counter)
    BY <1>1
  <2>3. Len(outP') = p + HASH_OUTPUT - (HASH_OUTPUT - out_buffer_pos')
    BY <2>1, <2>2, <1>1, <1>2
  <2>4. Len(outP) = p - (out_buffer_len - out_buffer_pos)
    BY <2>2, <1>2
  <2>5. /\ out_buffer_pos \in Nat /\ out_buffer_len \in Nat
        /\ out_buffer_pos' \in Nat /\ HASH_OUTPUT \in Nat
        /\ out_buffer_pos <= out_buffer_len
    BY <1>1, <1>2
  <2>6. \A q, a, h, b, c \in Nat :
           a <= h => q - (h - a) <= q + c - (c - b)
    OBVIOUS
  <2>7. QED
    BY ONLY <2>3, <2>4, <2>5, <2>6, p \in Nat
<1>4. ASSUME NEW length \in 0 .. MaxLength, Ctr!extract(length)
      PROVE  Len(outP) <= Len(outP')
  <2>1. /\ counter' = counter /\ out_buffer_len' = out_buffer_len
        /\ out_buffer_pos <= out_buffer_pos'
    BY <1>4, <1>1, Ctr!CtrAssumption DEF Ctr!extract, Ctr!Lesser, Ctr!CtrAssumption
  <2>2. PICK p \in Nat : p = Ctr!BlockStart(counter)
    BY <1>1
  <2>3. /\ Len(outP') = p - (out_buffer_len - out_buffer_pos')
        /\ Len(outP) = p - (out_buffer_len - out_buffer_pos)
    BY <2>1, <2>2, <1>2
  <2>4. /\ out_buffer_pos \in Nat /\ out_buffer_len \in Nat
        /\ out_buffer_pos' \in Nat
    BY <1>1
  <2>5. \A q, a, b, h \in Nat : a <= b => q - (h - a) <= q - (h - b)
    OBVIOUS
  <2>6. QED
    BY <2>1, <2>3, <2>4, <2>5
<1>5. QED
  BY <1>3, <1>4

(***************************************************************************)
(* The PRNG is an extendable-output function: every step is one, or none.   *)
(***************************************************************************)
LEMMA CtrStep ==
  ASSUME Ctr!CtrAssumption, Ctr!IInv, Ctr!IInv', Ctr!Next
  PROVE  Ctr!XOF!Next
<1>1. /\ outP \in Seq(Ctr!OutByte) /\ outP' \in Seq(Ctr!OutByte)
      /\ Len(outP) \in Nat /\ Len(outP') \in Nat
  BY DEF Ctr!IInv, Ctr!TypeOK
<1>2. \A k \in 1 .. Len(outP) : outP[k] = Ctr!StreamByte(buffer, k - 1)
  BY <1>1, CtrByte DEF Ctr!IInv, Ctr!OutputIsStream
<1>3. \A k \in 1 .. Len(outP') : outP'[k] = Ctr!StreamByte(buffer', k - 1)
  <2>1. \A k \in 1 .. Len(outP') :
           outP'[k].state = buffer' /\ Ctr!Position(outP'[k]) = k - 1
    BY DEF Ctr!IInv, Ctr!OutputIsStream, Ctr!Position
  <2>2. QED
    BY <1>1, <2>1, CtrByte
<1>4. ASSUME NEW data \in CtrPieces, Ctr!inject(data)
      PROVE  Ctr!XOF!Absorb
  <2>1. buffer \in Seq(Byte) /\ data \in Seq(Byte)
    BY Ctr!CtrAssumption DEF Ctr!IInv, Ctr!TypeOK, Ctr!CtrAssumption
  <2>2. /\ buffer \o data \in Seq(Byte)
        /\ Ctr!XOF!IsPrefixOf(buffer, buffer \o data)
    BY <2>1, ConcatIsSeq DEF Ctr!XOF!IsPrefixOf
  <2>3. QED
    BY <1>4, <2>2 DEF Ctr!inject, Ctr!XOF!Absorb
<1>5. CASE Ctr!flip
  BY <1>5 DEF Ctr!flip, Ctr!XOF!Flip, Ctr!XOF!Next
<1>6. ASSUME Ctr!NextBlock \/ \E length \in 0 .. MaxLength : Ctr!extract(length)
      PROVE  Ctr!XOF!Extract
  <2>1. Len(outP) <= Len(outP')
    BY <1>6, CtrGrows
  <2>2. finalized /\ finalized' = finalized /\ buffer' = buffer
    BY <1>6 DEF Ctr!extract, Ctr!NextBlock, Ctr!IInv, Ctr!SilentUntilFlip
  <2>3. Ctr!XOF!IsPrefixOf(outP, outP')
    BY <1>1, <1>2, <1>3, <2>1, <2>2 DEF Ctr!XOF!IsPrefixOf
  <2>4. QED
    BY <1>1, <1>3, <2>2, <2>3 DEF Ctr!XOF!Extract
<1>7. QED
  BY <1>4, <1>5, <1>6 DEF Ctr!Next, Ctr!XOF!Next

THEOREM CtrRefinement ==
  ASSUME Ctr!CtrAssumption
  PROVE  Ctr!Spec => Ctr!ImplementsXof
<1>1. Ctr!Init => Ctr!XOF!Init
  BY DEF Ctr!Init, Ctr!XOF!Init
<1>2. UNCHANGED Ctr!vars => UNCHANGED <<buffer, finalized, outP>>
  BY DEF Ctr!vars
<1>3. QED
  BY <1>1, <1>2, CtrStep, CtrInvariance, PTL DEF Ctr!Spec, Ctr!ImplementsXof, Ctr!XOF!Spec

(***************************************************************************)
(* The three side by side                                                   *)
(***************************************************************************)

(***************************************************************************)
(* However updates and reads are split, the counter-mode PRNG and the chain *)
(* of digests (keccaxof.py) each are one extendable-output function of one  *)
(* message: for blocks and digests of any size, and pieces of any bytes.    *)
(***************************************************************************)
THEOREM AreXofsAlways == XofSpec => AreXofs
<1> DEFINE Moves == [XofNext]_<<which, allVars, ctrVars, chainVars>>
<1>1. Ctr!CtrAssumption
  BY XofsAssumption
<1>2. XofInit => Ctr!IInv /\ Chaining /\ Ctr!XOF!Init /\ Chain!XOF!Init
  <2> SUFFICES ASSUME XofInit
               PROVE  Ctr!IInv /\ Chaining /\ Ctr!XOF!Init /\ Chain!XOF!Init
    OBVIOUS
  <2>1. Ctr!Init /\ Chain!Init
    BY DEF XofInit
  <2>2. Ctr!IInv
    BY <1>1, <2>1, CtrStarts
  <2>3. Chaining
    BY <2>1, ChainStarts
  <2>4. Ctr!XOF!Init
    BY <2>1 DEF Ctr!Init, Ctr!XOF!Init
  <2>5. Chain!XOF!Init
    <3>1. Chain!Packed = << >> /\ (last > 0) = FALSE /\ outK = << >>
      BY <2>1 DEF Chain!Init, Chain!Packed, Chain!FlattenSeq
    <3>2. QED
      BY <3>1 DEF Chain!XOF!Init
  <2>6. QED
    BY <2>2, <2>3, <2>4, <2>5
<1>3. Moves => Ctr!Next \/ UNCHANGED ctrVars
  BY DEF XofNext, Both, Counted, Chained
<1>4. Moves => Chain!Next \/ UNCHANGED chainVars
  BY DEF XofNext, Both, Counted, Chained
<1>5. Ctr!IInv /\ Moves => Ctr!IInv'
  <2>1. Moves => [Ctr!Next]_(Ctr!vars)
    <3>1. CASE Ctr!Next
      BY <3>1
    <3>2. CASE UNCHANGED ctrVars
      BY <3>2 DEF ctrVars, Ctr!vars
    <3>3. QED
      BY <1>3, <3>1, <3>2
  <2>2. QED
    BY <1>1, <2>1, CtrKept
<1>6. Ctr!IInv /\ Ctr!IInv' /\ Moves => [Ctr!XOF!Next]_<<buffer, finalized, outP>>
  <2>1. CASE Ctr!Next
    BY <1>1, <2>1, CtrStep
  <2>2. CASE UNCHANGED ctrVars
    BY <2>2 DEF ctrVars
  <2>3. QED
    BY <1>3, <2>1, <2>2
<1>7. Chaining /\ Moves => Chaining'
  BY <1>4, ChainStep, ChainStutters
<1>8. Chaining /\ Moves => [Chain!XOF!Next]_<<Chain!Packed, last > 0, outK>>
  BY <1>4, ChainStep, ChainStutters
<1>9. QED
  BY <1>2, <1>5, <1>6, <1>7, <1>8, PTL
     DEF XofSpec, AreXofs, Ctr!ImplementsXof, Chain!ImplementsXof, Ctr!XOF!Spec, Chain!XOF!Spec
=============================================================================
