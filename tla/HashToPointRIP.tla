--------------------------- MODULE HashToPointRIP ---------------------------
(***************************************************************************)
(* hashToPointRIP (ZKNOX_HashToPoint.sol): Keccak in counter mode, inlined  *)
(* in assembly.  Each pass of the outer loop hashes the counter into a word *)
(* of 16 samples; the inner loop takes them from the high end down, and is  *)
(* left when the point is complete.                                         *)
(*                                                                         *)
(* The samples of a word stand in the order in which they are taken; the    *)
(* counter, kept in the high 8 bytes of a word, is the number of the block. *)
(***************************************************************************)
EXTENDS Integers, Sequences

CONSTANTS
  n, q, kq, Sample, Samples,  (* as in RejectionSampling                   *)
  PER                         (* 16 samples per word                       *)

VARIABLES
  stream,   (* the samples counter mode will yield                         *)
  counter,  (* the next block                                              *)
  chunk,    (* the place in the word being taken apart, PER when none is   *)
  i,        (* coefficients written                                        *)
  output    (* the array of n coefficients                                 *)

vars == <<stream, counter, chunk, i, output>>

TypeOK ==
  /\ stream \in [0 .. Samples - 1 -> Sample]
  /\ counter \in 0 .. Samples
  /\ chunk \in 0 .. PER
  /\ i \in 0 .. n
  /\ output \in [0 .. n - 1 -> 0 .. q - 1]

Init ==
  /\ stream \in [0 .. Samples - 1 -> Sample]
  /\ counter = 0
  /\ chunk = PER
  /\ i = 0
  /\ output = [c \in 0 .. n - 1 |-> 0]

(* The number of samples in k words. *)
Words(k) == k * PER

(* However the inner loop is left, the counter is incremented. *)
Leave == chunk' = PER /\ counter' = counter + 1

(* A pass of the inner loop, at place p of the word.  It breaks when the    *)
(* point is complete.                                                       *)
Take(p) ==
  LET sample == stream[Words(counter) + p]
      keep == sample < kq
  IN
  /\ output' = IF keep THEN [output EXCEPT ![i] = sample % q] ELSE output
  /\ i' = IF keep THEN i + 1 ELSE i
  /\ IF (keep /\ i + 1 = n) \/ p + 1 = PER
     THEN Leave
     ELSE chunk' = p + 1 /\ UNCHANGED counter
  /\ UNCHANGED stream

Chunk ==
  /\ chunk < PER
  /\ Take(chunk)

(* The outer loop hashes state || counter, and the inner loop starts.       *)
Hash ==
  /\ chunk = PER
  /\ i < n
  /\ Words(counter + 1) <= Samples
  /\ Take(0)

Next == Hash \/ Chunk

Spec == Init /\ [][Next]_vars /\ WF_vars(Next)

(***************************************************************************)
(* Properties                                                               *)
(***************************************************************************)

(* How many samples were taken while the point is incomplete. *)
Read == Words(counter) + (IF chunk < PER THEN chunk ELSE 0)

(* The inner loop runs only while the point is incomplete. *)
LoopsNest == chunk < PER => i < n /\ Words(counter + 1) <= Samples

IInv == TypeOK /\ LoopsNest

Point == [c \in 1 .. i |-> output[c - 1]]

=============================================================================
