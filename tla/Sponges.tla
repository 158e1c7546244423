------------------------------ MODULE Sponges ------------------------------
(***************************************************************************)
(* The eager sponge of the contract and the Python code (Shake) and the     *)
(* lazy one of the C code (InnerShake), given the same calls.  A signature  *)
(* made with one is verified with the other.                                *)
(***************************************************************************)
EXTENDS Shake

VARIABLES
  stateC, top, dptr, inputC, todoC, absorbedC, flippedC, outC  (* of the lazy one *)

Lazy == INSTANCE InnerShake
          WITH state <- stateC, input <- inputC, todo <- todoC,
               absorbed <- absorbedC, flipped <- flippedC, out <- outC

allVars ==
  <<state, buff, i, input, todo, absorbed, flipped, out,
    stateC, top, dptr, inputC, todoC, absorbedC, flippedC, outC>>

BothInit == Init /\ Lazy!Init

BothUpdate == \E data \in Data : shake_update(data) /\ Lazy!inject(data)

BothAbsorb == AbsorbPass /\ Lazy!InjectPass

BothPad == shake_pad /\ Lazy!flip

BothSqueeze == \E n \in 0 .. MaxLength : shake_squeeze(n) /\ Lazy!extract(n)

(* shake_digest is what a caller of the C code does in two calls. *)
BothDigest ==
  \E n \in 0 .. MaxLength :
    /\ shake_digest(n)
    /\ Lazy!Flip
    /\ todoC' = n
    /\ UNCHANGED <<inputC, absorbedC, outC>>

BothPass == SqueezePass /\ Lazy!ExtractPass

BothNext ==
  \/ BothUpdate \/ BothAbsorb
  \/ BothPad \/ BothDigest
  \/ BothSqueeze \/ BothPass

(* The loops are not interrupted: they keep running. *)
BothSpec ==
  BothInit /\ [][BothNext]_allVars /\ WF_allVars(BothAbsorb \/ BothPass)

(***************************************************************************)
(* Properties                                                               *)
(***************************************************************************)

(* The lazy sponge owes a permutation: after flip, and after a read that    *)
(* took the last byte of a block.                                           *)
Owes == flippedC /\ dptr = RATE

(* Given the same calls the two return the same bytes, because the lazy     *)
(* state is the eager one, short of the one permutation it may owe: it      *)
(* never skips one and never owes two.                                      *)
SameSponge ==
  /\ Lazy!TypeOK
  /\ inputC = input /\ todoC = todo
  /\ absorbedC = absorbed /\ flippedC = flipped
  /\ outC = out
  /\ IF Owes
     THEN state = Permuted(stateC, top) /\ buff = ZeroBlock /\ i = 0
     ELSE state = stateC /\ buff = top /\ i = dptr

=============================================================================
