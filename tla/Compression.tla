---------------------------- MODULE Compression ----------------------------
(***************************************************************************)
(* compress and decompress (python-ref/encoding.py), which work on strings  *)
(* of bits: a coefficient is a sign, its low bits, and its high bits in     *)
(* unary.  The C code and the contract read and write the same format byte  *)
(* by byte (CompEncode, CompDecode, DecompressSig).                         *)
(***************************************************************************)
EXTENDS Integers, SequencesExt

CONSTANTS
  n,     (* coefficients: 512                                              *)
  LOW,   (* low bits: 7                                                    *)
  MAX,   (* the largest coefficient of the byte-wise codecs: 2047          *)
  slen   (* bytes of a compressed signature: 625                           *)

(* The sign and the low bits make a byte; MAX fills the high bits. *)
BYTE == LOW + 1

ASSUME CompressionAssumption ==
  /\ n \in Nat \ {0} /\ LOW \in Nat \ {0} /\ slen \in Nat
  /\ MAX \in Nat /\ (MAX + 1) % 2^LOW = 0

Bit == {0, 1}

Byte == [1 .. BYTE -> Bit]

Abs(c) == IF c < 0 THEN -c ELSE c

(* k in binary, w bits. *)
Binary(k, w) == [b \in 1 .. w |-> (k \div 2^(w - b)) % 2]

Number(bits) ==
  LET value[k \in 0 .. Len(bits)] == IF k = 0 THEN 0 ELSE 2 * value[k - 1] + bits[k]
  IN  value[Len(bits)]

Zeros(k) == [b \in 1 .. k |-> 0]

(* The code of a coefficient. *)
Code(c) ==
  <<IF c < 0 THEN 1 ELSE 0>> \o Binary(Abs(c) % 2^LOW, LOW)
    \o Zeros(Abs(c) \div 2^LOW) \o <<1>>

CodeOf(v) == FlattenSeq([k \in DOMAIN v |-> Code(v[k])])

(* Up to the end of a byte. *)
ToBytes(bits) == bits \o Zeros((-Len(bits)) % BYTE)

(* compress(v, slen), in bits: padded to slen bytes; False if it does not   *)
(* fit.                                                                     *)
Fits(v) == Len(CodeOf(v)) <= BYTE * slen

compress(v) == CodeOf(v) \o Zeros(BYTE * slen - Len(CodeOf(v)))

(* The bits without the zeros at their end. *)
Stripped(bits) ==
  LET ones == {b \in DOMAIN bits : bits[b] = 1}
  IN  IF ones = {} THEN << >> ELSE SubSeq(bits, 1, Max(ones))

(* A fault: the one that ends the high bits is counted with them. *)
HighBitsOneMore(i) == i - BYTE

(* The high bits, when the one that ends them is bit i. *)
HighBits(i) == i - BYTE - 1

(* One pass of the loop of decompress: a coefficient is taken off u.  A     *)
(* read beyond the end is an IndexError, which means False; int() of no     *)
(* bits at all is an error nobody catches.                                  *)
Parse(p) ==
  LET sign == p.u[1]
      low == Number(SubSeq(p.u, 2, BYTE))
      i == Min({b \in BYTE + 1 .. Len(p.u) : p.u[b] = 1})
      abs == low + 2^LOW * HighBits(i)
  IN
  IF Len(p.u) = 1 THEN [p EXCEPT !.verdict = "error"]
  ELSE IF Len(p.u) <= BYTE THEN [p EXCEPT !.verdict = "False"]
  ELSE IF abs = 0 /\ sign = 1 THEN [p EXCEPT !.verdict = "False"]
  ELSE [v |-> Append(p.v, IF sign = 1 THEN -abs ELSE abs),
        u |-> SubSeq(p.u, i + 1, Len(p.u)),
        verdict |-> "ok"]

(* decompress(x, slen, n): a polynomial v ("ok"), False, or an error: with  *)
(* nothing but zeros, the loop that strips them runs off the string.        *)
decompress(bits) ==
  LET start == [v |-> << >>, u |-> Stripped(bits),
                verdict |-> CASE Len(bits) > BYTE * slen -> "False"
                              [] Len(bits) <= BYTE * slen /\ Stripped(bits) = << >> -> "error"
                              [] OTHER -> "ok"]
      pass[k \in 0 .. n] ==
        IF k = 0 THEN start
        ELSE LET p == pass[k - 1]
             IN  IF p.verdict = "ok" /\ p.u # << >> THEN Parse(p) ELSE p
      end == pass[n]
  IN
  IF end.verdict = "ok" /\ Len(end.v) # n THEN [end EXCEPT !.verdict = "False"] ELSE end

=============================================================================
