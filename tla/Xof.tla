-------------------------------- MODULE Xof --------------------------------
(***************************************************************************)
(* What every extendable-output function of the repository promises its     *)
(* callers: data goes in, in pieces; after the flip, bytes come out, in     *)
(* pieces; and the k-th byte to come out is a function of the data and of   *)
(* k alone, however the input and the output were cut up.                   *)
(*                                                                         *)
(* Stream(m, k) is the k-th byte (from 0) of the function on message m.     *)
(***************************************************************************)
EXTENDS Integers, Sequences

CONSTANTS
  Byte,          (* the bytes that may be absorbed                         *)
  Stream(_, _)

VARIABLES
  absorbed,      (* everything injected so far                             *)
  flipped,       (* has the function been finalized?                       *)
  out            (* everything extracted so far                            *)

IsPrefixOf(s, t) ==
  Len(s) <= Len(t) /\ \A i \in 1 .. Len(s) : t[i] = s[i]

Init ==
  /\ absorbed = << >>
  /\ flipped = FALSE
  /\ out = << >>

Absorb ==
  /\ ~flipped
  /\ absorbed' \in Seq(Byte)
  /\ IsPrefixOf(absorbed, absorbed')
  /\ UNCHANGED <<flipped, out>>

Flip ==
  /\ ~flipped
  /\ flipped' = TRUE
  /\ UNCHANGED <<absorbed, out>>

Extract ==
  /\ flipped
  /\ IsPrefixOf(out, out')
  /\ \A i \in Len(out) + 1 .. Len(out') : out'[i] = Stream(absorbed, i - 1)
  /\ UNCHANGED <<absorbed, flipped>>

Next == Absorb \/ Flip \/ Extract

Spec == Init /\ [][Next]_<<absorbed, flipped, out>>

=============================================================================
