------------------------------- MODULE MCXofs -------------------------------
(* A small instance of the extendable-output functions for TLC: the two     *)
(* sponges in step, CtrPRNG, and KeccaXOF, one of them at a time.           *)
EXTENDS Sponges

CONSTANTS
  HASH_OUTPUT, MAX_BUFFER_SIZE, CtrPieces, MaxCtr,              (* CtrPRNG *)
  DIGEST, ChainPieces, MaxChained, MaxChain                    (* KeccaXOF *)

VARIABLES
  which,
  buffer, finalized, counter, out_buffer, out_buffer_pos, out_buffer_len,
  todoP, outP,                                                   (* CtrPRNG *)
  inputK, last, tmp, todoK, outK                                (* KeccaXOF *)

(* Pieces of every length up to one more than a block. *)
MCData == UNION {[1 .. k -> Byte] : k \in 0 .. RATE + 1}

(* Pieces of zero, one and two bytes for CtrPRNG, not of zero for KeccaXOF. *)
MCCtrPieces == {d \in MCData : Len(d) <= 2}

MCChainPieces == MCCtrPieces \ {<< >>}

Ctr ==
  INSTANCE CtrPRNG
    WITH Data <- CtrPieces, MaxTotal <- MaxCtr, todo <- todoP, out <- outP

Chain ==
  INSTANCE KeccaXOF
    WITH Data <- ChainPieces, MaxMessage <- MaxChained, MaxTotal <- MaxChain,
         input <- inputK, todo <- todoK, out <- outK

ASSUME XofsAssumption ==
  SpongeAssumption /\ ShakeAssumption /\ Ctr!CtrAssumption /\ Chain!ChainAssumption

ctrVars ==
  <<buffer, finalized, counter, out_buffer, out_buffer_pos, out_buffer_len, todoP, outP>>

chainVars == <<inputK, last, tmp, todoK, outK>>

XofInit == BothInit /\ Ctr!Init /\ Chain!Init /\ which \in {"sponges", "ctr", "chain"}

Both == which = "sponges" /\ BothNext /\ UNCHANGED <<which, ctrVars, chainVars>>

Counted == which = "ctr" /\ Ctr!Next /\ UNCHANGED <<which, allVars, chainVars>>

Chained == which = "chain" /\ Chain!Next /\ UNCHANGED <<which, allVars, ctrVars>>

XofNext == Both \/ Counted \/ Chained

(* The loops are not interrupted: they keep running. *)
XofSpec ==
  /\ XofInit /\ [][XofNext]_<<which, allVars, ctrVars, chainVars>>
  /\ WF_allVars(BothAbsorb \/ BothPass)
  /\ WF_ctrVars(Ctr!NextBlock)
  /\ WF_chainVars(Chain!HashAgain \/ Chain!Cut)

(***************************************************************************)
(* Properties                                                               *)
(***************************************************************************)

(* However updates and reads are split, the counter-mode PRNG               *)
(* (keccak_prng.py, blake2s_prng.py) and the chain of digests (keccaxof.py) *)
(* each are one extendable-output function of one message, as the sponge is. *)
AreXofs == Ctr!ImplementsXof /\ Chain!ImplementsXof

(* Every update and every read of the three returns: no pass of a loop     *)
(* leaves it where it was.                                                  *)
EveryCallReturns == CallsReturn /\ Ctr!ExtractReturns /\ (todoK > 0 ~> todoK = 0)

=============================================================================
