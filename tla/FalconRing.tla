----------------------------- MODULE FalconRing -----------------------------
(***************************************************************************)
(* What signer, verifiers and contracts compute with: the ring, the         *)
(* parameter sets, the bytes of a signature and the point a message hashes  *)
(* to.                                                                      *)
(***************************************************************************)
EXTENDS Integers, FiniteSets, FiniteSetsExt, SequencesExt

CONSTANTS
  n, q,            (* the ring: x^n + 1 modulo q                           *)
  Hash(_, _),      (* the point that an XOF makes of what it absorbed      *)
  Blake2s(_)       (* the digest of a salt                                 *)

(* The parameter sets. *)
HEAD_LEN == 1

SALT_LEN == 40

Params ==
  LET Set(bound, bytes) == [sig_bound |-> bound, sig_bytelen |-> bytes]
      sets == <<Set(101498, 44), Set(208714, 47), Set(428865, 52), Set(892039, 63),
                Set(1852696, 82), Set(3842630, 122), Set(7959734, 200), Set(16468416, 356),
                Set(34034726, 666), Set(70265242, 1280)>>
  IN  [k \in {2^l : l \in DOMAIN sets} |-> sets[CHOOSE l \in DOMAIN sets : k = 2^l]]

logn == [k \in DOMAIN Params |-> CHOOSE l \in 1 .. 10 : k = 2^l]

ASSUME FalconRingAssumption == n \in DOMAIN Params /\ q \in Nat

signature_bound == Params[n].sig_bound

sig_bytelen == Params[n].sig_bytelen

(* Encodings: of one polynomial, and of a pair one after the other. *)
One == INSTANCE Compression WITH LOW <- 7, MAX <- 2047, slen <- sig_bytelen - HEAD_LEN - SALT_LEN

Two ==
  INSTANCE Compression
    WITH n <- 2 * n, LOW <- 7, MAX <- 2047, slen <- 2 * sig_bytelen - HEAD_LEN - SALT_LEN

ToBytes(bits) ==
  [i \in 1 .. Len(bits) \div 8 |-> One!Number(SubSeq(bits, 8 * i - 7, 8 * i))]

ToBits(bytes) == FlattenSeq([i \in DOMAIN bytes |-> One!Binary(bytes[i], 8)])

(* int.to_bytes(3, 'big') and int.from_bytes. *)
ThreeBytes(x) == <<x \div 65536, (x \div 256) % 256, x % 256>>

FromBytes(b) == FoldLeft(LAMBDA x, d : 256 * x + d, 0, b)

(* An expression evaluated once, for a body to use. *)
Given(y, Body(_)) == [v \in {y} |-> Body(v)][y]

(* The ring.  A polynomial is a sequence of coefficients. *)
Sum(f) == FoldLeft(LAMBDA a, b : a + b, 0, f)

Squares(f) == Sum([i \in DOMAIN f |-> f[i] * f[i]])

TimesModQ(a, b) == ((a % q) * (b % q)) % q

Times(f, g) ==
  [k \in 1 .. n |->
     Sum([i \in 1 .. n |-> IF i <= k THEN TimesModQ(f[i], g[k - i + 1])
                           ELSE TimesModQ(-f[i], g[n + k - i + 1])]) % q]

Minus(f, g) == [k \in 1 .. n |-> (f[k] - g[k]) % q]

Centred(f) == [k \in 1 .. n |-> ((f[k] + (q \div 2)) % q) - (q \div 2)]

(* Poly.ntt(): the values at the n roots of x^n + 1, and back. *)
Exp(r, k) ==
  FoldLeft(LAMBDA y, b : Given(y, LAMBDA x : TimesModQ(TimesModQ(x, x), IF b = 1 THEN r ELSE 1)),
           1, One!Binary(k, 15))

Roots == SetToSortSeq({r \in 1 .. q - 1 : Exp(r, n) = q - 1}, <)

InverseModQ(x) == Exp(x, q - 2)

ntt(f) == [j \in 1 .. n |-> Sum([i \in 1 .. n |-> TimesModQ(f[i], Exp(Roots[j], i - 1))]) % q]

intt(a) ==
  [i \in 1 .. n |->
     TimesModQ(InverseModQ(n),
               Sum([j \in 1 .. n |-> TimesModQ(a[j], Exp(InverseModQ(Roots[j]), i - 1))]))]

vec_mul(a, b) == [j \in 1 .. n |-> TimesModQ(a[j], b[j])]

(* What hash_to_point makes the XOF absorb, and in which order. *)
Absorbed(x, m, r) ==
  CASE x = "SHAKE" -> r \o m
    [] x \in {"KeccakPRNG", "KeccaXOF"} -> m \o r
    [] x = "Blake2sPRNG" -> m \o Blake2s(r)

hash_to_point(m, r, x) == Hash(x, Absorbed(x, m, r))

(* The address made of a polynomial, or of its transform: the last twenty   *)
(* bytes of a Keccak digest of its coefficients.                            *)
Address(p) == <<"address", p>>

(* A signature is a header, the salt, and what was encoded: one polynomial, *)
(* or two, and then the inverse of the second.                              *)
Header == <<48 + logn[n]>>

Short(s0, s1) == Squares(s0) + Squares(s1) <= signature_bound

Invertible(a) == \A j \in 1 .. n : a[j] # 0

InverseBytes(a) == FlattenSeq([j \in 1 .. n |-> ThreeBytes(InverseModQ(a[j]))])

SignatureOf(salt, s1) == Header \o salt \o ToBytes(One!compress(s1))

SignatureOfPair(salt, s0, s1) ==
  Header \o salt \o ToBytes(Two!compress(s0 \o s1)) \o InverseBytes(ntt(s1))

(* Slices of a signature. *)
Slice(x, from, to) == SubSeq(x, from, IF to < Len(x) THEN to ELSE Len(x))

SaltOf(x) == Slice(x, HEAD_LEN + 1, HEAD_LEN + SALT_LEN)

Rest(x) == Slice(x, HEAD_LEN + SALT_LEN + 1, Len(x))

RestUpToInverse(x) == Slice(x, HEAD_LEN + SALT_LEN + 1, Len(x) - 3 * n)

InverseOf(x) ==
  LET b == SubSeq(x, Len(x) - 3 * n + 1, Len(x))
  IN  [j \in 1 .. n |-> FromBytes(SubSeq(b, 3 * j - 2, 3 * j))]

(* PublicKey.verify: True, False, or the error raised. *)
verify(pk, m, s, x) ==
  Given(One!decompress(ToBits(Rest(s))), LAMBDA d :
    IF d.verdict # "ok" THEN <<d.verdict>>
    ELSE IF Short(Centred(Minus(hash_to_point(m, SaltOf(s), x), Times(d.v, pk))), d.v)
         THEN <<"True">>
         ELSE <<"False">>)

(* What the two recover() share: the pair sent is short, and the inverse is *)
(* that of s1; then Recovered makes the key of hashed - s0 and the inverse.  *)
RecoverIf(Checked(_, _), Recovered(_, _), m, s, x) ==
  Given(Two!decompress(ToBits(RestUpToInverse(s))), LAMBDA d :
    IF d.verdict # "ok" THEN <<d.verdict>>
    ELSE LET s0 == SubSeq(d.v, 1, n)
             s1 == SubSeq(d.v, n + 1, 2 * n)
         IN  IF ~Checked(s1, InverseOf(s)) \/ ~Short(s0, s1) THEN <<"False">>
             ELSE Address(Recovered(Minus(hash_to_point(m, SaltOf(s), x), s0), InverseOf(s))))

AreInverse(s1, inverse) == vec_mul(inverse, ntt(s1)) = [j \in 1 .. n |-> 1]

QuotientOf(p, inverse) == intt(vec_mul(ntt(p), inverse))

QuotientInNtt(p, inverse) == vec_mul(ntt(p), inverse)

(* A fault: the inverse sent is used before it is checked. *)
recoverUnchecked(m, s, x) ==
  RecoverIf(LAMBDA s1, inverse : TRUE, QuotientOf, m, s, x)

(* RecoveryModePublicKey.recover *)
recover(m, s, x) == RecoverIf(AreInverse, QuotientOf, m, s, x)

(* A fault: the address is made of h, as in the other variant. *)
recoverEpervierOfH(m, s, x) == RecoverIf(AreInverse, QuotientOf, m, s, x)

(* EpervierPublicKey.recover *)
recoverEpervier(m, s, x) == RecoverIf(AreInverse, QuotientInNtt, m, s, x)

=============================================================================
