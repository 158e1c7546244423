------------------------- MODULE RejectionSampling -------------------------
(***************************************************************************)
(* Hashing to a point, one sample at a time: the loop of hash_to_point      *)
(* (python-ref/falcon.py) and hash_to_point_vartime (common.c), and what    *)
(* the loops of the contracts are compared with.                            *)
(*                                                                         *)
(* stream[k] is the k-th 16-bit sample that the extendable-output function  *)
(* yields for the salt and the message.                                     *)
(***************************************************************************)
EXTENDS Integers, Sequences, FiniteSets

CONSTANTS
  n,        (* coefficients of the point                                   *)
  q,        (* modulus                                                     *)
  kq,       (* 61445, the largest multiple of q a sample can hold          *)
  Sample,   (* the 16-bit values                                           *)
  Samples   (* bound: samples per stream                                   *)

ASSUME SamplingAssumption ==
  /\ n \in Nat \ {0} /\ q \in Nat \ {0} /\ kq \in Nat /\ Samples \in Nat
  /\ Sample \subseteq Nat

VARIABLES
  stream,   (* the samples                                                 *)
  pos,      (* how many were read                                          *)
  hashed    (* the coefficients so far                                     *)

vars == <<stream, pos, hashed>>

Stream == [0 .. Samples - 1 -> Sample]

TypeOK ==
  /\ stream \in Stream
  /\ pos \in 0 .. Samples
  /\ hashed \in Seq(0 .. q - 1)

Init ==
  /\ stream \in Stream
  /\ pos = 0
  /\ hashed = << >>

(* A fault: the first multiple beyond the range is let in. *)
KeepLimit(s, elt) == IF elt <= kq THEN Append(s, elt % q) ELSE s

(* A sample is kept, reduced, unless it is kq or more. *)
Keep(s, elt) == IF elt < kq THEN Append(s, elt % q) ELSE s

Step ==
  /\ Len(hashed) < n
  /\ pos < Samples
  /\ hashed' = Keep(hashed, stream[pos])
  /\ pos' = pos + 1
  /\ UNCHANGED stream

Next == Step

Spec == Init /\ [][Next]_vars /\ WF_vars(Step)

(***************************************************************************)
(* Properties                                                               *)
(***************************************************************************)

(* The accepted ones among the first k samples. *)
Accepted(k) == {p \in 0 .. k - 1 : stream[p] < kq}

(* The point is made of the first n samples below kq, reduced, each in its  *)
(* place: none is skipped, repeated or moved.                               *)
FirstAccepted ==
  /\ Len(hashed) = Cardinality(Accepted(pos))
  /\ \A p \in Accepted(pos) :
       hashed[Cardinality(Accepted(p)) + 1] = stream[p] % q

=============================================================================
