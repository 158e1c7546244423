----------------------------- MODULE FixedWidth -----------------------------
(***************************************************************************)
(* The codecs of codec.c that give every coefficient the same number of     *)
(* bits, which differ in little but what they refuse:                       *)
(*   "modq"    modq_encode, modq_decode, and _ZKNOX_NTT_Decompress of the   *)
(*             contract: public keys                                        *)
(*   "trim"    trim_i8_encode, trim_i8_decode: f, g, F; and trim_i16_encode, *)
(*             trim_i16_decode                                              *)
(*   "modq16"  modq_encode16, modq_decode16: public keys, two bytes each    *)
(*   "comp16"  comp_encode16, comp_decode16: signatures, two bytes each     *)
(* A null buffer, which only asks how many bytes it takes, is left out.      *)
(***************************************************************************)
EXTENDS Compression

CONSTANTS
  q,        (* modulus                                                     *)
  width,    (* bits per coefficient: 14, 5 to 8, 16, 16                    *)
  positive, (* what comp_decode16 takes for positive lies below: 2047      *)
  Plain     (* bound: the coefficients encoded                             *)

Kind == {"modq", "trim", "modq16", "comp16"}

VARIABLES
  kind,
  pc,
  x,      (* the coefficients, to be encoded or decoded so far             *)
  bytes,  (* to be decoded, or encoded so far                              *)
  acc,    (* the acc_len low bits of acc                                   *)
  done    (* u, or the bytes read                                          *)

vars == <<kind, pc, x, bytes, acc, done>>

Control ==
  {"idle", "push", "emit", "encoded", "load", "take", "decoded", "failed"}

(* (n * bits + 7) >> 3 *)
ByteLength(k) == (n * width[k] + BYTE - 1) \div BYTE

TypeOK ==
  /\ kind \in Kind
  /\ pc \in Control
  /\ x \in Seq(Int) /\ Len(x) <= n
  /\ bytes \in Seq(Byte) /\ Len(bytes) <= ByteLength(kind)
  /\ acc \in Seq(Bit)
  /\ done \in Nat

Init ==
  /\ kind = "modq"
  /\ pc = "idle"
  /\ x = << >> /\ bytes = << >> /\ acc = << >>
  /\ done = 0

InRange(k, c) ==
  CASE k \in {"modq", "modq16"} -> c \in 0 .. q - 1
    [] k = "trim" -> Abs(c) < 2^(width[k] - 1)
    [] k = "comp16" -> Abs(c) < q

(* The bits of a coefficient: masked, or its representative mod q. *)
Raw(k, c) ==
  CASE k \in {"modq", "modq16"} -> c
    [] k = "trim" -> c % 2^width[k]
    [] k = "comp16" -> IF c < 0 THEN c + q ELSE c

(* Bits w read as a signed number. *)
Signed(k, w) == IF w >= 2^(width[k] - 1) THEN w - 2^width[k] ELSE w

Refused(k, w) ==
  CASE k \in {"modq", "modq16"} -> w >= q
    [] k = "trim" -> w = 2^(width[k] - 1)
    [] k = "comp16" -> Signed(k, w) >= q

(* A fault: all numbers from 0 to q - 1 are taken for positive. *)
ValueUnsigned(k, w) ==
  CASE k \in {"modq", "modq16"} -> w
    [] k = "trim" -> Signed(k, w)
    [] k = "comp16" -> Signed(k, w)

Value(k, w) ==
  CASE k \in {"modq", "modq16"} -> w
    [] k = "trim" -> Signed(k, w)
    [] k = "comp16" ->
         IF Signed(k, w) >= positive THEN Signed(k, w) - q ELSE Signed(k, w)

(* A call refuses at once a coefficient out of range, or too small a buffer. *)
Encode(k, p, max_out_len) ==
  /\ pc = "idle"
  /\ kind' = k
  /\ x' = p
  /\ pc' = IF /\ \A c \in 1 .. n : InRange(k, p[c])
              /\ ByteLength(k) <= max_out_len
           THEN "push" ELSE "failed"
  /\ UNCHANGED <<bytes, acc, done>>

Push ==
  /\ pc = "push"
  /\ done < n
  /\ acc' = acc \o Binary(Raw(kind, x[done + 1]), width[kind])
  /\ done' = done + 1
  /\ pc' = "emit"
  /\ UNCHANGED <<kind, x, bytes>>

Emit ==
  /\ pc = "emit"
  /\ IF Len(acc) >= BYTE
     THEN /\ bytes' = Append(bytes, SubSeq(acc, 1, BYTE))
          /\ acc' = SubSeq(acc, BYTE + 1, Len(acc))
          /\ UNCHANGED pc
     ELSE pc' = "push" /\ UNCHANGED <<bytes, acc>>
  /\ UNCHANGED <<kind, x, done>>

Flush ==
  /\ pc = "push"
  /\ done = n
  /\ bytes' = IF acc = << >> THEN bytes ELSE Append(bytes, ToBytes(acc))
  /\ pc' = "encoded"
  /\ UNCHANGED <<kind, x, acc, done>>

Decode(k, b, max_in_len) ==
  /\ pc = "idle"
  /\ kind' = k
  /\ bytes' = b
  /\ pc' = IF ByteLength(k) <= max_in_len THEN "load" ELSE "failed"
  /\ UNCHANGED <<x, acc, done>>

(* The next byte joins the accumulator. *)
Load ==
  /\ pc = "load"
  /\ Len(x) < n
  /\ acc' = acc \o bytes[done + 1]
  /\ done' = done + 1
  /\ pc' = "take"
  /\ UNCHANGED <<kind, x, bytes>>

(* A coefficient is taken from it; a "while" in the trim decoders, where a  *)
(* byte may complete more than one, an "if" in the others.                  *)
Take ==
  LET w == Number(SubSeq(acc, 1, width[kind])) IN
  /\ pc = "take"
  /\ IF Len(acc) >= width[kind] /\ Len(x) < n
     THEN IF Refused(kind, w)
          THEN pc' = "failed" /\ UNCHANGED <<x, acc>>
          ELSE /\ x' = Append(x, Value(kind, w))
               /\ acc' = SubSeq(acc, width[kind] + 1, Len(acc))
               /\ pc' = IF kind = "trim" THEN "take" ELSE "load"
     ELSE pc' = "load" /\ UNCHANGED <<x, acc>>
  /\ UNCHANGED <<kind, bytes, done>>

(* The bits left over must be zero. *)
Finish ==
  /\ pc = "load"
  /\ Len(x) = n
  /\ pc' = IF \A b \in DOMAIN acc : acc[b] = 0 THEN "decoded" ELSE "failed"
  /\ UNCHANGED <<kind, x, bytes, acc, done>>

Pass == Push \/ Emit \/ Flush \/ Load \/ Take \/ Finish

(***************************************************************************)
(* Properties                                                               *)
(***************************************************************************)

Packed(k, p) == ToBytes(FlattenSeq([c \in 1 .. n |-> Binary(Raw(k, p[c]), width[k])]))

(* What an encoder writes is the codes of the coefficients end to end, in   *)
(* as many bytes as it said it would take.                                  *)
EncodesAll ==
  pc = "encoded" => FlattenSeq(bytes) = Packed(kind, x) /\ Len(bytes) = ByteLength(kind)

(* A key has one encoding: what a decoder of keys accepts is what the       *)
(* encoder makes of the result, to the last bit of the last byte.           *)
KeysHaveOneEncoding ==
  pc = "decoded" /\ kind # "comp16" =>
    /\ \A c \in 1 .. n : InRange(kind, x[c])
    /\ FlattenSeq(bytes) = Packed(kind, x)

(* What an encoder makes of coefficients in range -- for signatures, below  *)
(* `positive' -- comes back as it was; what a decoder refuses is no         *)
(* encoder's.                                                               *)
Expected(k) ==
  IF k = "comp16" THEN -(positive - 1) .. positive - 1
  ELSE {c \in Plain : InRange(k, c)}

Codes == [k \in Kind |-> {Packed(k, p) : p \in [1 .. n -> Expected(k)]}]

ComesBack ==
  /\ pc = "decoded" /\ FlattenSeq(bytes) \in Codes[kind] =>
       /\ \A c \in 1 .. n : x[c] \in Expected(kind)
       /\ FlattenSeq(bytes) = Packed(kind, x)
  /\ pc = "failed" /\ done > 0 => FlattenSeq(bytes) \notin Codes[kind]

=============================================================================
