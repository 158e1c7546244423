------------------------------ MODULE KeccaXOF ------------------------------
(***************************************************************************)
(* KeccaXOF (python-ref/keccaxof.py): a hash function that is applied to    *)
(* its own output for as long as output is wanted.  A byte of output is     *)
(* named by what was hashed, how often, and its place in the digest.        *)
(***************************************************************************)
EXTENDS Integers, SequencesExt

CONSTANTS
  Byte, Data,     (* the bytes of messages; bound: the pieces absorbed     *)
  DIGEST,         (* the bytes of a digest: 32                             *)
  MaxMessage,     (* bound: on the bytes absorbed                          *)
  MaxTotal        (* bound: on the bytes read                              *)

ChainAssumption == Data \subseteq Seq(Byte) /\ DIGEST \in Nat \ {0}

VARIABLES
  input,          (* the pieces absorbed                                   *)
  last,           (* how often they were hashed; 0 is None                 *)
  tmp,            (* what is left of the digests                           *)
  todo,           (* the read in progress                                  *)
  out             (* history: everything read                              *)

vars == <<input, last, tmp, todo, out>>

Init == input = << >> /\ last = 0 /\ tmp = << >> /\ todo = 0 /\ out = << >>

(* encode_packed puts the pieces one after the other. *)
Packed == FlattenSeq(input)

Digest(times) == [k \in 1 .. DIGEST |-> [of |-> Packed, times |-> times, off |-> k - 1]]

(* update() raises once output was read. *)
update(data) ==
  /\ todo = 0 /\ last = 0
  /\ Len(Packed) + Len(data) <= MaxMessage
  /\ input' = Append(input, data)
  /\ UNCHANGED <<last, tmp, todo, out>>

(* read(2), the only length that it converts; flip() does nothing.          *)
read ==
  /\ todo = 0 /\ Len(out) + 2 <= MaxTotal
  /\ todo' = 2
  /\ UNCHANGED <<input, last, tmp, out>>

(* A fault: what is left of a digest is dropped with the next.              *)
HashDropsRest ==
  /\ todo > 0 /\ (last = 0 \/ Len(tmp) < todo)
  /\ last' = last + 1
  /\ tmp' = Digest(last + 1)
  /\ UNCHANGED <<input, todo, out>>

(* The first hash, and the passes of the loop.                              *)
HashAgain ==
  /\ todo > 0 /\ (last = 0 \/ Len(tmp) < todo)
  /\ last' = last + 1
  /\ tmp' = tmp \o Digest(last + 1)
  /\ UNCHANGED <<input, todo, out>>

Cut ==
  /\ todo > 0 /\ last > 0 /\ Len(tmp) >= todo
  /\ out' = out \o SubSeq(tmp, 1, todo)
  /\ tmp' = SubSeq(tmp, todo + 1, Len(tmp))
  /\ todo' = 0
  /\ UNCHANGED <<input, last>>

Next == (\E data \in Data : update(data)) \/ read \/ HashAgain \/ Cut

(***************************************************************************)
(* Properties                                                               *)
(***************************************************************************)

StreamByte(m, k) == [of |-> m, times |-> (k \div DIGEST) + 1, off |-> k % DIGEST]

XOF == INSTANCE Xof WITH Stream <- StreamByte, absorbed <- Packed, flipped <- last > 0

(* The class is an extendable-output function, like the other two.          *)
ImplementsXof == XOF!Spec

=============================================================================
