-------------------------------- MODULE Rng --------------------------------
(***************************************************************************)
(* The buffered random bytes of the signer, twice: the prng of the C code   *)
(* (rng.c, inner.h) and ChaCha20.randombytes of the Python code (rng.py),   *)
(* driven in step by the same sampler.  Both fill a buffer of SIZE bytes    *)
(* from the same block function; what differs is when they throw the rest   *)
(* of a buffer away.                                                        *)
(*                                                                         *)
(* A random byte is named by the number of its buffer and its place there.  *)
(* The values are left out: where the sampler's course depends on them it   *)
(* takes either course, the same for both.                                  *)
(***************************************************************************)
EXTENDS Integers, Sequences

CONSTANTS
  SIZE,       (* bytes per buffer: 512                                     *)
  WORD,       (* bytes per word: 8                                         *)
  MaxBlocks   (* bound: buffers used per signing attempt                   *)

ASSUME RngAssumption ==
  /\ SIZE \in Nat /\ WORD \in Nat \ {0} /\ MaxBlocks \in Nat
  /\ WORD + 1 < SIZE

VARIABLES
  prng,    (* the C generator: buffer number and ptr                       *)
  chacha,  (* the Python generator: buffer number and bytes cut off        *)
  pc,      (* the next thing the sampler draws                             *)
  shift,   (* i of BerExp, in bytes                                        *)
  drawn,   (* the bytes the last draw took in the C code                   *)
  drawnPy, (* the bytes it took in the Python code                         *)
  exact    (* has a word been drawn with exactly WORD + 1 bytes left?      *)

vars == <<prng, chacha, pc, shift, drawn, drawnPy, exact>>

Generator == [block : -1 .. MaxBlocks + 1, ptr : 0 .. SIZE]

RandomByte == [block : Nat, off : Nat]

TypeOK ==
  /\ prng \in Generator
  /\ chacha \in Generator
  /\ pc \in {"base", "sign", "berexp"}
  /\ shift \in 0 .. WORD
  /\ drawn \in Seq(RandomByte)
  /\ drawnPy \in Seq(RandomByte)
  /\ exact \in BOOLEAN

Left(g) == SIZE - g.ptr

Take(g, k) == [j \in 1 .. k |-> [block |-> g.block, off |-> g.ptr + j - 1]]

Skip(g, k) == [g EXCEPT !.ptr = g.ptr + k]

(* A fault: the buffer is read again instead of filled anew. *)
prng_refillNothing(g) == [block |-> g.block, ptr |-> 0]

prng_refill(g) == [block |-> g.block + 1, ptr |-> 0]

(* A fault: only the word is provided for. *)
ReadyForWordOnly(g) == IF g.ptr > SIZE - WORD THEN prng_refill(g) ELSE g

(* prng_get_u64 makes sure a word and one more byte can be read. *)
ReadyForWord(g) == IF g.ptr >= SIZE - (WORD + 1) THEN prng_refill(g) ELSE g

(* prng_get_u8 refills after the last byte. *)
AfterByte(g) ==
  LET h == Skip(g, 1) IN IF h.ptr = SIZE THEN prng_refill(h) ELSE h

(* A fault: a buffer that would be used up exactly is thrown away. *)
ReadyForMore(g, k) == IF k >= Left(g) THEN prng_refill(g) ELSE g

(* randombytes(k) makes a new buffer unless k bytes are left. *)
ReadyFor(g, k) == IF k > Left(g) THEN prng_refill(g) ELSE g

(* A signing attempt seeds both: prng_init fills the buffer, ChaCha20(seed) *)
(* leaves it empty.                                                         *)
Filled == [block |-> 0, ptr |-> 0]

Unfilled == [block |-> -1, ptr |-> SIZE]

Init ==
  /\ prng = Filled
  /\ chacha = Unfilled
  /\ pc = "base"
  /\ shift = WORD
  /\ drawn = << >>
  /\ drawnPy = << >>
  /\ exact = FALSE

(* A draw of one byte. *)
DrawByte ==
  LET g == ReadyFor(chacha, 1) IN
  /\ drawn' = Take(prng, 1)
  /\ prng' = AfterByte(prng)
  /\ drawnPy' = Take(g, 1)
  /\ chacha' = Skip(g, 1)
  /\ UNCHANGED exact

(* gaussian0_sampler draws a word and a byte, basesampler both at once. *)
BaseSampler ==
  LET g == ReadyForWord(prng)
      h == Skip(g, WORD)
      p == ReadyFor(chacha, WORD + 1)
  IN
  /\ pc = "base"
  /\ prng.block < MaxBlocks /\ chacha.block < MaxBlocks
  /\ drawn' = Take(g, WORD) \o Take(h, 1)
  /\ prng' = AfterByte(h)
  /\ drawnPy' = Take(p, WORD + 1)
  /\ chacha' = Skip(p, WORD + 1)
  /\ exact' = (exact \/ Left(prng) = WORD + 1 \/ Left(chacha) = WORD + 1)
  /\ pc' = "sign"
  /\ UNCHANGED shift

(* The random sign b. *)
SignBit ==
  /\ pc = "sign"
  /\ DrawByte
  /\ pc' = "berexp"
  /\ shift' = WORD

(* BerExp compares byte by byte, until one differs or all were drawn; then  *)
(* the sample is accepted or drawn anew, and the next one is drawn.         *)
BerExp ==
  /\ pc = "berexp"
  /\ DrawByte
  /\ shift' = shift - 1
  /\ pc' \in IF shift > 1 THEN {"base", "berexp"} ELSE {"base"}

(* The signature was too long, or is done: the next attempt seeds anew. *)
NewAttempt ==
  /\ pc = "base"
  /\ prng' = Filled
  /\ chacha' = Unfilled
  /\ drawn' = << >>
  /\ drawnPy' = << >>
  /\ exact' = FALSE
  /\ UNCHANGED <<pc, shift>>

Next == BaseSampler \/ SignBit \/ BerExp \/ NewAttempt

Spec == Init /\ [][Next]_vars

(***************************************************************************)
(* Properties                                                               *)
(***************************************************************************)

Later(b, c) == b.block < c.block \/ (b.block = c.block /\ b.off < c.off)

Increasing(s) == \A i, j \in DOMAIN s : i < j => Later(s[i], s[j])

(* Every byte a draw takes exists, and the C buffer is never left empty     *)
(* (the comment in prng_get_u64): get_u8 reads before it looks.             *)
ReadsInBounds ==
  /\ \A k \in DOMAIN drawn : drawn[k].off < SIZE
  /\ \A k \in DOMAIN drawnPy : drawnPy[k].off < SIZE
  /\ prng.ptr < SIZE

(* Within an attempt no random byte is used twice, and none out of order,   *)
(* whatever the sampler draws and wherever a buffer ends.                   *)
EachByteOnce ==
  [][drawn' # << >> =>
       Increasing(drawn \o drawn') /\ Increasing(drawnPy \o drawnPy')]_vars

(* Where the two generators part: as long as no sample began with exactly   *)
(* WORD + 1 bytes left, they hand out the same bytes.                       *)
SameBytesUnlessExact == exact \/ drawn = drawnPy

=============================================================================
