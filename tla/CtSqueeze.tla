----------------------------- MODULE CtSqueeze -----------------------------
(***************************************************************************)
(* hash_to_point_ct (common.c): the constant-time variant of hashing to a   *)
(* point.  It draws n + over samples whatever their values, and then        *)
(* squeezes the rejected ones out in a logarithmic number of passes, pass p *)
(* moving samples down by p slots.                                          *)
(*                                                                         *)
(* A sample is named by the order in which it was drawn; Invalid stands for *)
(* 0xFFFF.  The array is one, though the code lays it over x, tt1 and tt2.  *)
(***************************************************************************)
EXTENDS Integers, FiniteSets

CONSTANTS
  n,        (* coefficients of the point                                   *)
  over,     (* overtab[logn]                                               *)
  Invalid

m == n + over

Slot == 0 .. m - 1

CtAssumption == n \in Nat \ {0} /\ over \in Nat \ {0} /\ Invalid \notin Slot

VARIABLES
  valid,  (* the samples below 61445                                       *)
  x,      (* the array                                                     *)
  p, u,   (* the loop variables                                            *)
  v       (* where the next valid value ultimately goes                    *)

vars == <<valid, x, p, u, v>>

TypeOK ==
  /\ valid \subseteq Slot
  /\ x \in [Slot -> Slot \cup {Invalid}]
  /\ p \in 1 .. 2 * over
  /\ u \in 0 .. m
  /\ v \in 0 .. m

(* The samples are drawn; those of 61445 and more become 0xFFFF. *)
Init ==
  /\ valid \in SUBSET Slot
  /\ x = [s \in Slot |-> IF s \in valid THEN s ELSE Invalid]
  /\ p = 1
  /\ u = 0
  /\ v = 0

HasBit(j, b) == (j \div b) % 2 = 1

Swap(s, d) == [x EXCEPT ![s] = x[d], ![d] = x[s]]

(* The value in slot u is to jump by p in this pass. *)
Jumps == x[u] # Invalid /\ u >= p /\ HasBit(u - v, p)

(* A pass of the inner loop ... *)
Consider ==
  /\ p <= over
  /\ u < m
  /\ x' = IF Jumps THEN Swap(u, u - p) ELSE x
  /\ v' = IF x[u] # Invalid THEN v + 1 ELSE v
  /\ u' = u + 1
  /\ UNCHANGED <<valid, p>>

(* A fault: the count is carried over to the next pass. *)
NextPowerCarries ==
  /\ p <= over
  /\ u = m
  /\ p' = 2 * p
  /\ u' = 0
  /\ UNCHANGED <<valid, x, v>>

(* ... and of the outer one. *)
NextPower ==
  /\ p <= over
  /\ u = m
  /\ p' = 2 * p
  /\ u' = 0
  /\ v' = 0
  /\ UNCHANGED <<valid, x>>

Next == Consider \/ NextPower

Spec == Init /\ [][Next]_vars

(***************************************************************************)
(* Properties                                                               *)
(***************************************************************************)

(* "in all cases where the loop decides that a value has to be moved down   *)
(* by p slots, the destination slot is 'free' (i.e. contains an invalid     *)
(* value)" (common.c): no sample is ever swapped back up.                   *)
DestinationFree == p <= over /\ u < m /\ Jumps => x[u - p] = Invalid

(* No pass loses, repeats or reorders a valid sample. *)
OrderKept ==
  /\ {x[s] : s \in Slot} \ {Invalid} = valid
  /\ \A s, t \in Slot :
       s < t /\ x[s] # Invalid /\ x[t] # Invalid => x[s] < x[t]

(* Unless more than `over' samples were rejected, the first n slots end up  *)
(* as the first n valid samples, in order: what hash_to_point_vartime makes *)
(* of the same stream.                                                      *)
Rank(s) == Cardinality({t \in valid : t < s})

SqueezedOut ==
  p > over /\ Cardinality(valid) >= n =>
    \A s \in valid : Rank(s) < n => x[Rank(s)] = s

=============================================================================
