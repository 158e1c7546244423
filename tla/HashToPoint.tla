---------------------------- MODULE HashToPoint ----------------------------
(***************************************************************************)
(* The same stream of samples, hashed to a point three times, in step: one  *)
(* sample at a time (RejectionSampling: the Python and the C code), from    *)
(* squeezed blocks (HashToPointNIST), and from words hashed in counter mode *)
(* (HashToPointRIP).  Blocks and words end at different samples.            *)
(*                                                                         *)
(* Or else the constant-time variant squeezes the rejected samples out of   *)
(* those that it drew (CtSqueeze).                                          *)
(***************************************************************************)
EXTENDS RejectionSampling

CONSTANTS
  BLOCK,   (* samples per squeezed block: _RATE / 2 = 68                   *)
  WORD,    (* samples per Keccak word: 16                                  *)
  over,    (* samples drawn beyond n by the constant-time variant          *)
  Invalid  (* 0xFFFF                                                       *)

(* The streams are whole blocks and whole words. *)
ASSUME BlockAssumption ==
  /\ BLOCK \in Nat \ {0} /\ WORD \in Nat \ {0}
  /\ Samples > 0 /\ Samples % BLOCK = 0 /\ Samples % WORD = 0

VARIABLES
  squeezed, tmp, j, iN, hashedN,       (* of HashToPointNIST               *)
  counter, chunk, iR, output,          (* of HashToPointRIP                *)
  valid, slots, power, place, found,   (* of CtSqueeze                     *)
  which                                (* what runs                        *)

NIST == INSTANCE HashToPointNIST
          WITH PER <- BLOCK, i <- iN, hashed <- hashedN

RIP == INSTANCE HashToPointRIP WITH PER <- WORD, i <- iR

Ct == INSTANCE CtSqueeze WITH x <- slots, p <- power, u <- place, v <- found

ASSUME SqueezeAssumption == Ct!CtAssumption

allVars ==
  <<stream, pos, hashed, squeezed, tmp, j, iN, hashedN, counter, chunk, iR, output>>

ctVars == <<valid, slots, power, place, found>>

InStepInit == Init /\ NIST!Init /\ RIP!Init

InStepNext == Step /\ NIST!Next /\ RIP!Next

(* The one that does not run stays at one of its initial states.            *)
HashInit ==
  /\ \/ which = "in step" /\ valid = {}
     \/ which = "squeeze" /\ stream = [k \in 0 .. Samples - 1 |-> 0]
  /\ InStepInit /\ Ct!Init

HashNext ==
  \/ which = "in step" /\ InStepNext /\ UNCHANGED <<which, ctVars>>
  \/ which = "squeeze" /\ Ct!Next /\ UNCHANGED <<which, allVars>>

HashSpec == HashInit /\ [][HashNext]_<<which, allVars, ctVars>>

(***************************************************************************)
(* Properties                                                               *)
(***************************************************************************)

(* After every sample the three agree on the coefficients and, while the    *)
(* point is incomplete, on where in the stream they are: no sample is lost  *)
(* or read twice where a block or a word ends, and breaking out of two      *)
(* loops at once neither drops nor adds one.                                *)
SamePoint ==
  /\ hashed = NIST!Point /\ hashed = RIP!Point
  /\ Len(hashed) < n => NIST!Read = pos /\ RIP!Read = pos

(* The constant-time passes keep the samples in their order and leave the   *)
(* first n valid ones in the first n slots.                                 *)
Squeezed == Ct!DestinationFree /\ Ct!OrderKept /\ Ct!SqueezedOut

(* Each keeps its own house: the buffer is the last block squeezed, and the *)
(* inner loop over a word runs only while coefficients are missing.         *)
IInv == TypeOK /\ NIST!IInv /\ RIP!IInv /\ Ct!TypeOK

=============================================================================
