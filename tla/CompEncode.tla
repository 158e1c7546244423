----------------------------- MODULE CompEncode -----------------------------
(***************************************************************************)
(* comp_encode (codec.c): a polynomial is written byte by byte, through an  *)
(* accumulator that holds the bits not yet written.                         *)
(***************************************************************************)
EXTENDS Compression

CONSTANTS
  max_out_len,  (* the room in the buffer: 647 in crypto_sign              *)
  Plain         (* bound: the coefficients                                 *)

VARIABLES
  x,      (* the polynomial                                                *)
  phase,
  acc,    (* the acc_len low bits of acc                                   *)
  buf,    (* what was written, byte by byte                                *)
  u       (* coefficients done                                             *)

vars == <<x, phase, acc, buf, u>>

TypeOK ==
  /\ x \in [1 .. n -> Plain]
  /\ phase \in {"idle", "check", "write", "written", "failed"}
  /\ acc \in Seq(Bit)
  /\ buf \in Seq(Byte) /\ Len(buf) <= max_out_len
  /\ u \in 0 .. n

Init ==
  /\ x = [k \in 1 .. n |-> 0]
  /\ phase = "idle"
  /\ acc = << >>
  /\ buf = << >>
  /\ u = 0

comp_encode(p) ==
  /\ phase = "idle"
  /\ x' = p
  /\ phase' = "check"
  /\ UNCHANGED <<acc, buf, u>>

(* All coefficients are looked at before the first is written. *)
CheckRange ==
  /\ phase = "check"
  /\ phase' = IF \E k \in 1 .. n : Abs(x[k]) > MAX THEN "failed" ELSE "write"
  /\ UNCHANGED <<x, acc, buf, u>>

(* A fault: the high bits lack the one that ends them if there are none. *)
PushNoStop ==
  /\ phase = "write" /\ Len(acc) < BYTE /\ u < n
  /\ acc' = acc \o (IF Abs(x[u + 1]) < 2^LOW
                    THEN SubSeq(Code(x[u + 1]), 1, BYTE) ELSE Code(x[u + 1]))
  /\ u' = u + 1
  /\ UNCHANGED <<x, phase, buf>>

Push ==
  /\ phase = "write" /\ Len(acc) < BYTE /\ u < n
  /\ acc' = acc \o Code(x[u + 1])
  /\ u' = u + 1
  /\ UNCHANGED <<x, phase, buf>>

(* A full byte is written, if there is room. *)
Emit ==
  /\ phase = "write" /\ Len(acc) >= BYTE
  /\ IF Len(buf) >= max_out_len
     THEN phase' = "failed" /\ UNCHANGED <<acc, buf>>
     ELSE /\ buf' = Append(buf, SubSeq(acc, 1, BYTE))
          /\ acc' = SubSeq(acc, BYTE + 1, Len(acc))
          /\ UNCHANGED phase
  /\ UNCHANGED <<x, u>>

(* The bits left over are written as the top of a last byte. *)
Flush ==
  /\ phase = "write" /\ Len(acc) < BYTE /\ u = n
  /\ IF acc # << >> /\ Len(buf) >= max_out_len
     THEN phase' = "failed" /\ UNCHANGED buf
     ELSE /\ phase' = "written"
          /\ buf' = IF acc = << >> THEN buf ELSE Append(buf, ToBytes(acc))
  /\ UNCHANGED <<x, acc, u>>

Pass == CheckRange \/ Push \/ Emit \/ Flush

=============================================================================
