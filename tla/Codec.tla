-------------------------------- MODULE Codec --------------------------------
(***************************************************************************)
(* The codecs side by side.  A caller makes one call: a signature or key is *)
(* encoded, or bytes arrive and are decoded -- a signature by the C code    *)
(* and then, from the same memory, by the contract.                         *)
(***************************************************************************)
EXTENDS Compression

CONSTANTS
  q, positive, max_out_len, max_in_len,
  modq_bits, trim_bits, word_bits,   (* width: 14, 5 to 8, 16              *)
  LARGEST, MEMORY                    (* bounds                             *)

width ==
  [modq |-> modq_bits, trim |-> trim_bits, modq16 |-> word_bits, comp16 |-> word_bits]

Plain == -LARGEST .. LARGEST

(* As with the sizes of the code; a negative coefficient is told from a     *)
(* positive one, and what a signer writes is not too long for the contract. *)
ASSUME CodecAssumption ==
  /\ q \in Nat /\ {max_out_len, max_in_len, LARGEST, MEMORY} \subseteq Nat
  /\ 2 * MAX < q /\ max_out_len < max_in_len
  /\ n * (BYTE + (MAX + 1) \div 2^LOW) <= MEMORY * BYTE

(* A number mod q fits into its bits, two bytes have one to spare, and a    *)
(* byte completes one coefficient at most, but of the trimmed ones.         *)
ASSUME WidthAssumption ==
  /\ {modq_bits, word_bits} \subseteq Nat /\ LOW < modq_bits /\ LOW < word_bits
  /\ trim_bits \in Nat \ {0}
  /\ q <= 2^modq_bits /\ q <= 2^(word_bits - 1)
  /\ positive \in Nat /\ 2 * positive <= q + 1

VARIABLES
  xE, phase, accE, buf, u,           (* of CompEncode                      *)
  mem, len, pcC, accC, vC, sC, mC, xC, (* of CompDecode                    *)
  pcS, accS, vS, sS, mS, xS,         (* of DecompressSig                   *)
  kind, pcF, xF, bytes, accF, done   (* of FixedWidth                      *)

E == INSTANCE CompEncode WITH x <- xE, acc <- accE

C == INSTANCE CompDecode
       WITH pc <- pcC, acc <- accC, v <- vC, s <- sC, m <- mC, x <- xC

S == INSTANCE DecompressSig
       WITH pc <- pcS, acc <- accS, v <- vS, s <- sS, m <- mS, x <- xS

F == INSTANCE FixedWidth WITH pc <- pcF, x <- xF, acc <- accF

encoderVars == <<xE, phase, accE, buf, u>>

decoderVars == <<mem, len, pcC, accC, vC, sC, mC, xC>>

contractVars == <<pcS, accS, vS, sS, mS, xS>>

fixedVars == <<kind, pcF, xF, bytes, accF, done>>

vars == <<encoderVars, decoderVars, contractVars, fixedVars>>

Init == E!Init /\ C!Init /\ S!Init /\ F!Init

Idle == phase = "idle" /\ pcC = "idle" /\ pcF = "idle"

Memory == [1 .. MEMORY -> Byte]

EncodeSignature ==
  /\ Idle
  /\ \E p \in [1 .. n -> Plain] : E!comp_encode(p)
  /\ UNCHANGED <<decoderVars, contractVars, fixedVars>>

DecodeSignature ==
  /\ Idle
  /\ \E b \in Memory, k \in 0 .. MEMORY : C!comp_decode(b, k)
  /\ S!_decompress_sig
  /\ UNCHANGED <<encoderVars, fixedVars>>

(* Buffers of the length wanted, and one byte short of it. *)
EncodeFixed ==
  /\ Idle
  /\ \E k \in F!Kind, p \in [1 .. n -> Plain], short \in {0, 1} :
       F!Encode(k, p, F!ByteLength(k) - short)
  /\ UNCHANGED <<encoderVars, decoderVars, contractVars>>

DecodeFixed ==
  /\ Idle
  /\ \E k \in F!Kind : \E b \in [1 .. F!ByteLength(k) -> Byte], short \in {0, 1} :
       F!Decode(k, b, F!ByteLength(k) - short)
  /\ UNCHANGED <<encoderVars, decoderVars, contractVars>>

EncoderPass == E!Pass /\ UNCHANGED <<decoderVars, contractVars, fixedVars>>

DecoderPass == C!Pass /\ UNCHANGED <<encoderVars, contractVars, fixedVars>>

ContractPass ==
  /\ pcC \in {"done", "failed"}
  /\ S!Pass
  /\ UNCHANGED <<encoderVars, decoderVars, fixedVars>>

FixedPass == F!Pass /\ UNCHANGED <<encoderVars, decoderVars, contractVars>>

Next ==
  \/ EncodeSignature \/ DecodeSignature \/ EncodeFixed \/ DecodeFixed
  \/ EncoderPass \/ DecoderPass \/ ContractPass \/ FixedPass

Spec == Init /\ [][Next]_vars

(***************************************************************************)
(* Properties                                                               *)
(***************************************************************************)

TypeOK == E!TypeOK /\ C!TypeOK /\ S!TypeOK /\ F!TypeOK

(* The bits of the signature that arrived. *)
Received == FlattenSeq(SubSeq(mem, 1, len))

(* The signer in C and the one in Python make the same code, but for the    *)
(* padding; the C one fails exactly if a coefficient is too large or the    *)
(* code does not fit.                                                       *)
SameCode ==
  /\ phase = "written" =>
       LET bits == FlattenSeq(buf) IN
       /\ bits = ToBytes(CodeOf(xE))
       /\ Fits(xE) =>
            compress(xE) = bits \o Zeros(BYTE * slen - Len(bits))
  /\ phase = "failed" =>
       \/ \E k \in 1 .. n : Abs(xE[k]) > MAX
       \/ Len(ToBytes(CodeOf(xE))) > BYTE * max_out_len

(* A polynomial has one encoding, and every polynomial has it: what the C   *)
(* verifier accepts is what the signer makes of the result, and what it     *)
(* refuses is no signer's.                                                  *)
Codes == {ToBytes(CodeOf(p)) : p \in [1 .. n -> -MAX .. MAX]}

OneEncoding ==
  /\ pcC = "done" => Received = ToBytes(CodeOf(xC))
  /\ pcC = "failed" => Received \notin Codes

(* A signature that the C verifier reads is read the same by the contract   *)
(* and by the Python verifier, as far as their constants let it be as long. *)
ModQ(p) == [k \in DOMAIN p |-> IF p[k] < 0 THEN q + p[k] ELSE p[k]]

SameReading ==
  pcC = "done" =>
    /\ pcS = "done" => xS = ModQ(xC)
    /\ pcS = "reverted" => len >= max_in_len
    /\ len <= slen =>
         decompress(Received).verdict = "ok" /\ decompress(Received).v = xC

(* What more the contract accepts: "-0", other bits after the last          *)
(* coefficient, and memory after the signature.  But for these, what it     *)
(* returns is what the bits say.                                            *)
ContractReadsCode ==
  pcS = "done" /\ q \notin {xS[k] : k \in 1 .. n} =>
    LET p == [k \in 1 .. n |-> IF xS[k] > MAX THEN xS[k] - q ELSE xS[k]]
    IN  IsPrefix(CodeOf(p), FlattenSeq(mem))

(* "-0" is forbidden (the comment in _decompress_sig). *)
NoMinusZero == pcS = "done" => q \notin {xS[k] : k \in 1 .. n}

(* The fixed-width codecs of keys and of padded signatures write the codes  *)
(* of the coefficients end to end, in as many bytes as they said; a decoder *)
(* of keys accepts only what its encoder makes of the result, to the last   *)
(* bit of the last byte; and every decoder gives back what its encoder was  *)
(* given -- with comp_decode16, below `positive'.                           *)
FixedWidthCodes == F!EncodesAll /\ F!KeysHaveOneEncoding /\ F!ComesBack

=============================================================================
