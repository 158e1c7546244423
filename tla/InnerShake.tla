----------------------------- MODULE InnerShake -----------------------------
(***************************************************************************)
(* The lazy sponge: inner_shake256_* of the C code (shake.c).  Input is     *)
(* XORed into the state itself; a block is permuted as soon as it is full   *)
(* when injecting, but when extracting only once a byte of the next block   *)
(* is wanted, and flip only marks the block as used up.                     *)
(*                                                                         *)
(* The 200-byte state is the pair of what was permuted last and what was    *)
(* XORed on top of it since.  As for Shake, the protocol -- inject, flip    *)
(* once, extract -- is the callers' (nist.c, hash_to_point_vartime).        *)
(***************************************************************************)
EXTENDS Sponge

CONSTANTS
  Data,        (* bound: the pieces callers inject                         *)
  MaxMessage,  (* bound: on the bytes injected                             *)
  MaxLength,   (* bound: the longest extract                               *)
  MaxTotal     (* bound: on the bytes extracted                            *)

VARIABLES
  state,     (* st.A as the last permutation left it                       *)
  top,       (* what was XORed into it since                               *)
  dptr,
  input,     (* in, len of the inject in progress                          *)
  todo,      (* len of the extract in progress                             *)
  absorbed,  (* all bytes injected so far                                  *)
  flipped,   (* has the caller flipped?                                    *)
  out        (* all bytes extracted so far                                 *)

vars == <<state, top, dptr, input, todo, absorbed, flipped, out>>

TypeOK ==
  /\ state \in Seq(Block)
  /\ top \in Block
  /\ dptr \in 0 .. RATE
  /\ input \in Seq(Byte)
  /\ todo \in Nat
  /\ absorbed \in Seq(Byte)
  /\ flipped \in BOOLEAN
  /\ out \in Seq(OutByte)

Init ==
  /\ state = << >>
  /\ top = ZeroBlock
  /\ dptr = 0
  /\ input = << >>
  /\ todo = 0
  /\ absorbed = << >>
  /\ flipped = FALSE
  /\ out = << >>

Idle == input = << >> /\ todo = 0

Lesser(a, b) == IF a <= b THEN a ELSE b

(* inject(data) enters its loop. *)
inject(data) ==
  /\ Idle
  /\ ~flipped
  /\ Len(absorbed) + Len(data) <= MaxMessage
  /\ input' = data
  /\ UNCHANGED <<state, top, dptr, todo, absorbed, flipped, out>>

(* One pass: XOR what the block has room for; process a full block. *)
InjectPass ==
  LET clen == Lesser(RATE - dptr, Len(input))
      piece == SubSeq(input, 1, clen)
      mixed == Mixed(top, dptr, piece)
  IN
  /\ input # << >>
  /\ IF dptr + clen = RATE
     THEN state' = Permuted(state, mixed) /\ top' = ZeroBlock /\ dptr' = 0
     ELSE top' = mixed /\ dptr' = dptr + clen /\ UNCHANGED state
  /\ input' = SubSeq(input, clen + 1, Len(input))
  /\ absorbed' = absorbed \o piece
  /\ UNCHANGED <<todo, flipped, out>>

(* A fault: the block is not marked as used up. *)
FlipKeepsPosition ==
  /\ top' = Padded(top, dptr)
  /\ flipped' = TRUE
  /\ UNCHANGED <<state, dptr>>

(* The padding is XORed in; processing the block is left to extract. *)
Flip ==
  /\ top' = Padded(top, dptr)
  /\ dptr' = RATE
  /\ flipped' = TRUE
  /\ UNCHANGED state

flip ==
  /\ Idle
  /\ ~flipped
  /\ Flip
  /\ UNCHANGED <<input, todo, absorbed, out>>

(* extract(n) enters its loop. *)
extract(n) ==
  /\ Idle
  /\ flipped
  /\ Len(out) + n <= MaxTotal
  /\ todo' = n
  /\ UNCHANGED <<state, top, dptr, input, absorbed, flipped, out>>

(* The bytes read in a pass, from cell c of a state with b on top. *)
BytesRead(st, b, c, n) == [k \in 1 .. n |-> StateByte(st, b[c + k - 1], c + k - 1)]

(* One pass: a used-up block is processed first, then read from its start.  *)
ExtractPass ==
  LET full == dptr = RATE
      st == IF full THEN Permuted(state, top) ELSE state
      b == IF full THEN ZeroBlock ELSE top
      c == IF full THEN 0 ELSE dptr
      clen == Lesser(RATE - c, todo)
  IN
  /\ todo > 0
  /\ state' = st
  /\ top' = b
  /\ dptr' = c + clen
  /\ out' = out \o BytesRead(st, b, c, clen)
  /\ todo' = todo - clen
  /\ UNCHANGED <<input, absorbed, flipped>>

Next ==
  \/ \E data \in Data : inject(data)
  \/ InjectPass
  \/ flip
  \/ \E n \in 0 .. MaxLength : extract(n)
  \/ ExtractPass

(* The loops are not interrupted: they keep running. *)
Spec == Init /\ [][Next]_vars /\ WF_vars(InjectPass \/ ExtractPass)

=============================================================================
