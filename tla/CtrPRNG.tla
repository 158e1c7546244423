------------------------------ MODULE CtrPRNG ------------------------------
(***************************************************************************)
(* KeccakPRNG and Blake2sPRNG (python-ref/keccak_prng.py, blake2s_prng.py): *)
(* a hash function run in counter mode.  The two classes differ in the hash *)
(* only.  A byte of output is named by the state it was made from, the      *)
(* counter value of its block, and its place in the block; extract() is     *)
(* one action per pass through its loop.                                    *)
(***************************************************************************)
EXTENDS Integers, Sequences

CONSTANTS
  Byte,             (* the bytes callers inject                            *)
  Data,             (* bound: the pieces they inject                       *)
  HASH_OUTPUT,      (* KECCAK_OUTPUT, BLAKE2S_OUTPUT: bytes per block      *)
  MAX_BUFFER_SIZE,  (* what inject() can hold                              *)
  MaxLength,        (* bound: the longest extract()                        *)
  MaxTotal          (* bound: on the bytes extracted                       *)

CtrAssumption ==
  /\ Data \subseteq Seq(Byte)
  /\ HASH_OUTPUT \in Nat \ {0}
  /\ MAX_BUFFER_SIZE \in Nat
  /\ MaxLength \in Nat
  /\ MaxTotal \in Nat

VARIABLES
  buffer,          (* buffer[:buffer_len]                                  *)
  finalized,
  counter,         (* the next block                                       *)
  out_buffer,      (* counter value of the block in the output buffer      *)
  out_buffer_pos,
  out_buffer_len,
  todo,            (* length - offset of the extract() in progress, or -1  *)
  out              (* all bytes extracted so far                           *)

vars == <<buffer, finalized, counter, out_buffer, out_buffer_pos,
          out_buffer_len, todo, out>>

(* The output byte at place `off' of the hash of state || block. *)
BlockByte(state, block, off) == [state |-> state, block |-> block, off |-> off]

OutByte == [state : Seq(Byte), block : Nat, off : 0 .. HASH_OUTPUT - 1]

TypeOK ==
  /\ buffer \in Seq(Byte)
  /\ Len(buffer) <= MAX_BUFFER_SIZE
  /\ finalized \in BOOLEAN
  /\ counter \in Nat
  /\ out_buffer \in Nat
  /\ out_buffer_pos \in 0 .. HASH_OUTPUT
  /\ out_buffer_len \in {0, HASH_OUTPUT}
  /\ todo \in Nat \cup {-1}
  /\ out \in Seq(OutByte)

Lesser(a, b) == IF a <= b THEN a ELSE b

(* The n bytes of a block from place `off' on. *)
Bytes(block, off, n) == [i \in 1 .. n |-> BlockByte(buffer, block, off + i - 1)]

Init ==
  /\ buffer = << >>
  /\ finalized = FALSE
  /\ counter = 0
  /\ out_buffer = 0
  /\ out_buffer_pos = 0
  /\ out_buffer_len = 0
  /\ todo = -1
  /\ out = << >>

(* inject() raises when the PRNG is finalized or the buffer would overflow: *)
(* then nothing changes.                                                    *)
inject(data) ==
  /\ ~finalized
  /\ Len(data) + Len(buffer) <= MAX_BUFFER_SIZE
  /\ buffer' = buffer \o data
  /\ UNCHANGED <<finalized, counter, out_buffer, out_buffer_pos,
                 out_buffer_len, todo, out>>

(* flip(): the state is the hash of the buffer, which stays as it is. *)
flip ==
  /\ ~finalized
  /\ finalized' = TRUE
  /\ out_buffer_pos' = 0
  /\ out_buffer_len' = 0
  /\ UNCHANGED <<buffer, counter, out_buffer, todo, out>>

(* extract(length), up to its loop: what the output buffer still holds is   *)
(* used first.  When that is enough the call returns early.                 *)
extract(length) ==
  LET available == out_buffer_len - out_buffer_pos
      to_copy == IF available > 0 THEN Lesser(length, available) ELSE 0
  IN
  /\ finalized
  /\ todo = -1
  /\ Len(out) + length <= MaxTotal
  /\ out' = out \o Bytes(out_buffer, out_buffer_pos, to_copy)
  /\ out_buffer_pos' = out_buffer_pos + to_copy
  /\ todo' = IF to_copy = length THEN -1 ELSE length - to_copy
  /\ UNCHANGED <<buffer, finalized, counter, out_buffer, out_buffer_len>>

(* One pass of the loop: hash state || counter and take what is wanted. *)
NextBlock ==
  LET to_copy == Lesser(todo, HASH_OUTPUT) IN
  /\ todo > 0
  /\ out_buffer' = counter
  /\ out_buffer_len' = HASH_OUTPUT
  /\ out_buffer_pos' = to_copy
  /\ out' = out \o Bytes(counter, 0, to_copy)
  /\ counter' = counter + 1
  /\ todo' = IF to_copy = todo THEN -1 ELSE todo - to_copy
  /\ UNCHANGED <<buffer, finalized>>

Next ==
  \/ \E data \in Data : inject(data)
  \/ flip
  \/ \E length \in 0 .. MaxLength : extract(length)
  \/ NextBlock

(* extract() is a loop nothing interrupts: it keeps running. *)
Spec == Init /\ [][Next]_vars /\ WF_vars(NextBlock)

(***************************************************************************)
(* Properties                                                               *)
(***************************************************************************)

(* The output so far is an initial segment of one stream of blocks, and the *)
(* buffered bytes are the ones that follow: reading 2 and 2 bytes gives what *)
(* reading 4 gives (test_extract_2_2_vs_4), across block boundaries too.    *)
BlockStart(block) == block * HASH_OUTPUT

Position(b) == BlockStart(b.block) + b.off

OutputIsStream ==
  \A i \in 1 .. Len(out) : out[i].state = buffer /\ Position(out[i]) = i - 1

BufferFollows ==
  /\ Len(out) = BlockStart(counter) - (out_buffer_len - out_buffer_pos)
  /\ out_buffer_pos <= out_buffer_len
  /\ out_buffer_len # 0 => out_buffer + 1 = counter
  /\ todo # -1 => out_buffer_pos = out_buffer_len

(* Nothing is extracted, and no block made, before the flip. *)
SilentUntilFlip ==
  ~finalized => /\ out = << >> /\ counter = 0 /\ todo = -1
                /\ out_buffer_pos = 0 /\ out_buffer_len = 0

IInv == TypeOK /\ OutputIsStream /\ BufferFollows /\ SilentUntilFlip

StreamByte(m, k) == BlockByte(m, k \div HASH_OUTPUT, k % HASH_OUTPUT)

XOF == INSTANCE Xof
         WITH Stream <- StreamByte, absorbed <- buffer, flipped <- finalized

(* The class is an extendable-output function: the k-th byte extracted is a *)
(* function of what was injected and of k.                                  *)
ImplementsXof == XOF!Spec

(* Every extract() returns. *)
ExtractReturns == todo # -1 ~> todo = -1

=============================================================================
