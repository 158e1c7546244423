------------------------------- MODULE Sponge -------------------------------
(***************************************************************************)
(* What the SHAKE implementations of the repository have in common: cells,  *)
(* the permutation, and the stream that a padded message determines.        *)
(*                                                                         *)
(* The permutation F1600 is a free function: a permuted state is named by   *)
(* the sequence of blocks that were mixed into it, one before each          *)
(* permutation.  A cell of a block is the set of the symbols XORed into it, *)
(* so that XOR is symmetric difference.                                     *)
(***************************************************************************)
EXTENDS Integers, Sequences

CONSTANTS
  Byte,       (* the bytes of messages                                     *)
  PadStart,   (* dsbyte: 0x1f                                              *)
  PadEnd,     (* 0x80                                                      *)
  RATE        (* _RATE, 136: the bytes of a block that are exposed         *)

SpongeAssumption ==
  /\ RATE \in Nat \ {0}
  /\ PadStart # PadEnd
  /\ {PadStart, PadEnd} \cap Byte = {}

Cell == 0 .. RATE - 1

Symbol == Byte \cup {PadStart, PadEnd}

Block == [Cell -> SUBSET Symbol]

Xor(s, t) == (s \ t) \cup (t \ s)

ZeroBlock == [c \in Cell |-> {}]

(* The bytes s XORed into block b from cell i on. *)
Mixed(b, i, s) ==
  [c \in Cell |->
     IF c \in i .. i + Len(s) - 1 THEN Xor(b[c], {s[c - i + 1]}) ELSE b[c]]

(* The padding: 0x1f at the position reached, 0x80 in the last cell. *)
Padded(b, i) ==
  [c \in Cell |->
     Xor(Xor(b[c], IF c = i THEN {PadStart} ELSE {}),
         IF c = RATE - 1 THEN {PadEnd} ELSE {})]

(* What F1600 makes of a state with block b mixed into it. *)
Permuted(state, b) == Append(state, b)

(* The byte read from cell c: what was permuted, and what is XORed on top.  *)
StateByte(state, top, c) == [state |-> state, top |-> top, off |-> c]

OutByte == [state : Seq(Block), top : SUBSET Symbol, off : Cell]

(***************************************************************************)
(* The stream of SHAKE: message m is cut into blocks, the last of which is  *)
(* padded, and zero blocks follow for as long as output is wanted.          *)
(***************************************************************************)
BlockStart(j) == (j - 1) * RATE

FullBlocks(m) == Len(m) \div RATE

(* Block j of the message, short of its padding. *)
MessageBlock(m, j) ==
  [c \in Cell |->
     IF BlockStart(j) + c < Len(m) THEN {m[BlockStart(j) + c + 1]} ELSE {}]

StreamState(m, extra) ==
  [j \in 1 .. FullBlocks(m) + 1 + extra |->
     IF j = FullBlocks(m) + 1
     THEN Padded(MessageBlock(m, j), Len(m) % RATE)
     ELSE MessageBlock(m, j)]

StreamByte(m, k) == StateByte(StreamState(m, k \div RATE), {}, k % RATE)

=============================================================================
