-------------------------- MODULE HashToPointNIST --------------------------
(***************************************************************************)
(* hashToPointNIST (ZKNOX_HashToPoint.sol): the samples come from a buffer  *)
(* of one squeezed block, refilled when a pass of the loop finds it used    *)
(* up.  hashToPointTETRATION has the same loop over the 16 samples of a     *)
(* Keccak output, each output hashed again for the next.                    *)
(*                                                                         *)
(* _RATE is even, so that no sample straddles two blocks: j counts samples. *)
(***************************************************************************)
EXTENDS Integers, Sequences

CONSTANTS
  n, q, kq, Sample, Samples,  (* as in RejectionSampling                   *)
  PER                         (* samples per block: _RATE / 2, or 16       *)

VARIABLES
  stream,    (* the samples the sponge will yield                          *)
  squeezed,  (* how many of them were squeezed                             *)
  tmp,       (* the buffer: a block of samples                             *)
  j,         (* the place in the buffer                                    *)
  i,         (* coefficients found                                         *)
  hashed     (* the array of n coefficients                                *)

vars == <<stream, squeezed, tmp, j, i, hashed>>

TypeOK ==
  /\ stream \in [0 .. Samples - 1 -> Sample]
  /\ squeezed \in 0 .. Samples
  /\ tmp \in [0 .. PER - 1 -> Sample]
  /\ j \in 0 .. PER
  /\ i \in 0 .. n
  /\ hashed \in [0 .. n - 1 -> 0 .. q - 1]

(* The block of samples that follows the first k. *)
BlockAt(k) == [c \in 0 .. PER - 1 |-> stream[k + c]]

(* One block is squeezed before the loop. *)
Init ==
  /\ stream \in [0 .. Samples - 1 -> Sample]
  /\ squeezed = PER
  /\ tmp = BlockAt(0)
  /\ j = 0
  /\ i = 0
  /\ hashed = [c \in 0 .. n - 1 |-> 0]

(* The rest of a pass, with the buffer b and the place p in it. *)
Take(b, p) ==
  /\ IF b[p] < kq
     THEN hashed' = [hashed EXCEPT ![i] = b[p] % q] /\ i' = i + 1
     ELSE UNCHANGED <<hashed, i>>
  /\ j' = p + 1

(* A pass that finds samples in the buffer ... *)
FromBuffer ==
  /\ i < n
  /\ j # PER
  /\ Take(tmp, j)
  /\ UNCHANGED <<stream, squeezed, tmp>>

(* A fault: what is squeezed does not reach the buffer. *)
RefillStale ==
  /\ i < n
  /\ j = PER
  /\ squeezed + PER <= Samples
  /\ squeezed' = squeezed + PER
  /\ Take(tmp, 0)
  /\ UNCHANGED <<stream, tmp>>

(* ... and one that squeezes the next block first. *)
Refill ==
  /\ i < n
  /\ j = PER
  /\ squeezed + PER <= Samples
  /\ tmp' = BlockAt(squeezed)
  /\ squeezed' = squeezed + PER
  /\ Take(tmp', 0)
  /\ UNCHANGED stream

Next == FromBuffer \/ Refill

Spec == Init /\ [][Next]_vars /\ WF_vars(Next)

(***************************************************************************)
(* Properties                                                               *)
(***************************************************************************)

(* The buffer is the last block squeezed. *)
BufferIsLastBlock == squeezed >= PER /\ tmp = BlockAt(squeezed - PER)

IInv == TypeOK /\ BufferIsLastBlock

(* How many samples were read. *)
Read == squeezed - PER + j

Point == [c \in 1 .. i |-> hashed[c - 1]]

=============================================================================
