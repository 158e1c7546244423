------------------------------- MODULE Shake -------------------------------
(***************************************************************************)
(* The eager sponge: ZKNOX_shake.sol, and KeccakHash (python-ref/keccak.py) *)
(* with its SHAKE wrapper (shake.py).  Input is collected in a buffer; the  *)
(* permutation mixes the buffer into the state as soon as a block is full,  *)
(* when absorbing and when squeezing.                                       *)
(*                                                                         *)
(* The loops of absorb and squeeze are one action per pass.  Nothing in the *)
(* code stops a caller from absorbing after the padding or from padding     *)
(* twice; the callers (hashToPointNIST, hash_to_point, the key hashes) do   *)
(* update, pad once, read, and so do the callers here.  The direction field *)
(* is left out: nothing ever sets it to SQUEEZING.                          *)
(***************************************************************************)
EXTENDS Sponge

CONSTANTS
  Data,        (* bound: the pieces callers absorb                         *)
  MaxMessage,  (* bound: on the bytes absorbed                             *)
  MaxLength,   (* bound: the longest read                                  *)
  MaxTotal     (* bound: on the bytes read                                 *)

ShakeAssumption ==
  /\ Data \subseteq Seq(Byte)
  /\ MaxMessage \in Nat
  /\ MaxLength \in Nat
  /\ MaxTotal \in Nat

VARIABLES
  state,     (* the permuted state                                         *)
  buff,      (* buff, buf: what the next permutation mixes in              *)
  i,         (* the position in the block                                  *)
  input,     (* what the update in progress still has to absorb            *)
  todo,      (* what the read in progress still has to squeeze             *)
  absorbed,  (* all bytes absorbed so far                                  *)
  flipped,   (* has the caller padded?                                     *)
  out        (* all bytes read so far                                      *)

vars == <<state, buff, i, input, todo, absorbed, flipped, out>>

TypeOK ==
  /\ state \in Seq(Block)
  /\ buff \in Block
  /\ i \in Cell
  /\ input \in Seq(Byte)
  /\ todo \in Nat
  /\ absorbed \in Seq(Byte)
  /\ flipped \in BOOLEAN
  /\ out \in Seq(OutByte)

Init ==
  /\ state = << >>
  /\ buff = ZeroBlock
  /\ i = 0
  /\ input = << >>
  /\ todo = 0
  /\ absorbed = << >>
  /\ flipped = FALSE
  /\ out = << >>

Idle == input = << >> /\ todo = 0

Lesser(a, b) == IF a <= b THEN a ELSE b

(* A fault: nothing happens at the end of a block. *)
AdvanceNever(b, n) ==
  /\ buff' = b
  /\ i' = i + n
  /\ UNCHANGED state

(* The block position advances by n; at the end of the block, b is mixed in *)
(* and the buffer is cleared.                                               *)
Advance(b, n) ==
  IF i + n = RATE
  THEN /\ state' = Permuted(state, b)
       /\ buff' = ZeroBlock
       /\ i' = 0
  ELSE /\ buff' = b
       /\ i' = i + n
       /\ UNCHANGED state

(* update(data) enters the loop of absorb. *)
shake_update(data) ==
  /\ Idle
  /\ ~flipped
  /\ Len(absorbed) + Len(data) <= MaxMessage
  /\ input' = data
  /\ UNCHANGED <<state, buff, i, todo, absorbed, flipped, out>>

(* One pass: XOR as much input into the buffer as the block has room for. *)
AbsorbPass ==
  LET willabsorb == Lesser(RATE - i, Len(input))
      piece == SubSeq(input, 1, willabsorb)
  IN
  /\ input # << >>
  /\ Advance(Mixed(buff, i, piece), willabsorb)
  /\ input' = SubSeq(input, willabsorb + 1, Len(input))
  /\ absorbed' = absorbed \o piece
  /\ UNCHANGED <<todo, flipped, out>>

(* A fault: the position is kept across the padding. *)
PadKeepsPosition ==
  /\ state' = Permuted(state, Padded(buff, i))
  /\ buff' = ZeroBlock
  /\ flipped' = TRUE
  /\ UNCHANGED i

(* pad(), flip(): close the message and permute. *)
Pad ==
  /\ state' = Permuted(state, Padded(buff, i))
  /\ buff' = ZeroBlock
  /\ i' = 0
  /\ flipped' = TRUE

shake_pad ==
  /\ Idle
  /\ ~flipped
  /\ Pad
  /\ UNCHANGED <<input, todo, absorbed, out>>

(* squeeze(n), read(n) enters the loop. *)
shake_squeeze(n) ==
  /\ Idle
  /\ flipped
  /\ Len(out) + n <= MaxTotal
  /\ todo' = n
  /\ UNCHANGED <<state, buff, i, input, absorbed, flipped, out>>

(* digest(n) pads, and then squeezes. *)
shake_digest(n) ==
  /\ Idle
  /\ ~flipped
  /\ Len(out) + n <= MaxTotal
  /\ Pad
  /\ todo' = n
  /\ UNCHANGED <<input, absorbed, out>>

(* One pass: read what the block still holds; at its end, permute. *)
SqueezePass ==
  LET willsqueeze == Lesser(RATE - i, todo) IN
  /\ todo > 0
  /\ out' = out \o [k \in 1 .. willsqueeze |-> StateByte(state, {}, i + k - 1)]
  /\ Advance(buff, willsqueeze)
  /\ todo' = todo - willsqueeze
  /\ UNCHANGED <<input, absorbed, flipped>>

Next ==
  \/ \E data \in Data : shake_update(data)
  \/ AbsorbPass
  \/ shake_pad
  \/ \E n \in 0 .. MaxLength : shake_squeeze(n) \/ shake_digest(n)
  \/ SqueezePass

(* The loops are not interrupted: they keep running. *)
Spec == Init /\ [][Next]_vars /\ WF_vars(AbsorbPass \/ SqueezePass)

(***************************************************************************)
(* Properties                                                               *)
(***************************************************************************)

(* While absorbing, the permuted blocks are the full blocks of the message  *)
(* and the buffer holds exactly the rest of it.                             *)
AbsorbedInBlocks ==
  ~flipped =>
    /\ Len(absorbed) = BlockStart(Len(state) + 1) + i
    /\ \A j \in 1 .. Len(state) : state[j] = MessageBlock(absorbed, j)
    /\ buff = MessageBlock(absorbed, Len(state) + 1)
    /\ out = << >>

(* While squeezing, the state is the stream's at the block being read, the  *)
(* position is that of the next byte, and the buffer is clear -- also when  *)
(* a read ended on the last byte of a block, or read nothing.               *)
SqueezedInBlocks ==
  flipped =>
    LET extra == Len(state) - FullBlocks(absorbed) - 1 IN
    /\ extra >= 0
    /\ state = StreamState(absorbed, extra)
    /\ Len(out) = BlockStart(extra + 1) + i
    /\ buff = ZeroBlock

(* A call ends before the next begins: nothing is left to absorb once the   *)
(* message is closed, and nothing is squeezed before.                       *)
CallsInOrder == IF flipped THEN input = << >> ELSE todo = 0

(* The inductive invariant. *)
IInv == TypeOK /\ CallsInOrder /\ AbsorbedInBlocks /\ SqueezedInBlocks

(* What was read is the stream of what was absorbed, however both were cut  *)
(* into calls (test_read_twice, test_absorb_twice, test_large_absorb).      *)
OutputIsStream ==
  \A k \in 1 .. Len(out) : out[k] = StreamByte(absorbed, k - 1)

XOF == INSTANCE Xof WITH Stream <- StreamByte

(* The sponge is an extendable-output function. *)
ImplementsXof == XOF!Spec

(* Every update and every read returns. *)
CallsReturn == ~Idle ~> Idle

=============================================================================
