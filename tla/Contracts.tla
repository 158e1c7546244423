----------------------------- MODULE Contracts -----------------------------
(***************************************************************************)
(* The verifier contracts as functions of the arguments of a call: what     *)
(* each answers.  The Python side calls them: its test vectors hold such    *)
(* calls, and its command line tool makes them.                             *)
(***************************************************************************)
EXTENDS FalconRing

CONSTANTS
  PER_WORD,           (* coefficients in a word of a compact polynomial: 16 *)
  Preimage(_, _, _)   (* the s1 that a key samples for a point with a seed  *)

ASSUME ContractsAssumption == PER_WORD \in Nat \ {0} /\ n % PER_WORD = 0

(* A fault: the first coefficient goes to the highest digit. *)
falcon_compactReversed(a) ==
  [w \in 1 .. n \div PER_WORD |-> Reverse(SubSeq(a, PER_WORD * (w - 1) + 1, PER_WORD * w))]

(* A word is its digits in base 2^16, the lowest first. *)
falcon_compact(a) ==
  [w \in 1 .. n \div PER_WORD |-> SubSeq(a, PER_WORD * (w - 1) + 1, PER_WORD * w)]

_ZKNOX_NTT_Expand(words) == FlattenSeq(words)

ZKNOX_NTT_HALFMUL(a, b_ntt) == intt(vec_mul(ntt(a), b_ntt))

hashToPointRIP(salt, msgs) == Hash("KeccakPRNG", msgs \o salt)

hashToPointNIST(salt, msgs) == Hash("SHAKE", salt \o msgs)

hashToPointTETRATION(salt, msgs) == Hash("KeccaXOF", msgs \o salt)

(* The absolute value of a coefficient, from 0 .. q - 1. *)
Magnitude(x) == IF x > q \div 2 THEN q - x ELSE x

(* Squares are summed of the coefficients 1 .. upto: the loops in assembly   *)
(* leave the last one out.                                                  *)
NormUpTo(upto, f) == Squares([i \in 1 .. upto |-> Magnitude(f[i])])

(* The sum over s2 compares the address of a coefficient with the bound of  *)
(* an offset.  s1 lies behind the n words of the point, so the address is   *)
(* the larger one, and no square of s2 is added.                            *)
falcon_normalize(s1, hashed) == NormUpTo(n - 1, Minus(hashed, s1)) < signature_bound

(* The two currently used verifiers differ in the hash only. *)
falcon_core(s2, ntth, hashed) ==
  falcon_normalize(ZKNOX_NTT_HALFMUL(_ZKNOX_NTT_Expand(s2), _ZKNOX_NTT_Expand(ntth)), hashed)

Bool(b) == IF b THEN <<"True">> ELSE <<"False">>

verifyOfCompact(salt, s2, ntth, hashed) ==
  IF Len(salt) # SALT_LEN \/ Len(s2) # n \div PER_WORD \/ Len(ntth) # n \div PER_WORD
  THEN <<"revert">>
  ELSE Bool(falcon_core(s2, ntth, hashed))

falcon_verify(h, salt, s2, ntth) == verifyOfCompact(salt, s2, ntth, hashToPointNIST(salt, h))

ethfalcon_verify(h, salt, s2, ntth) == verifyOfCompact(salt, s2, ntth, hashToPointRIP(salt, h))

(* The former verifier takes polynomials that are not compact, a key that   *)
(* is not transformed, and the hash to use.                                 *)
HashFor(h_zknox, salt, msgs) ==
  IF h_zknox THEN hashToPointRIP(salt, msgs) ELSE hashToPointTETRATION(salt, msgs)

falcon_old_verify(msgs, salt, s2, h, h_zknox) ==
  IF Len(h) # n \/ Len(salt) # SALT_LEN \/ Len(s2) # n THEN <<"False">>
  ELSE Bool(falcon_core(falcon_compact(s2), falcon_compact(ntt(h)), HashFor(h_zknox, salt, msgs)))

(* The inverses of all coefficients of a, from the inverse of their product. *)
FromHint(a, hint) ==
  [i \in 1 .. n |->
     FoldLeft(TimesModQ, hint, [j \in 1 .. n |-> IF j = i THEN 1 ELSE a[j]])]

(* Recovery: the pair is short, the inverse is that of s2; then Recovered   *)
(* makes the key.                                                           *)
recoverIf(norm, s1, s2, inverse, hashed, Recovered(_, _)) ==
  IF norm > signature_bound \/ Sum([i \in 1 .. n |-> 1 - vec_mul(ntt(s2), inverse)[i]]) # 0
  THEN <<"revert">>
  ELSE Address(Recovered(Minus(hashed, s1), inverse))

recoverOfHint(salt, cs1, cs2, hint, hashed) ==
  LET s1 == _ZKNOX_NTT_Expand(cs1)
      s2 == _ZKNOX_NTT_Expand(cs2)
  IN  IF Len(salt) # SALT_LEN \/ Len(cs1) # n \div PER_WORD \/ Len(cs2) # n \div PER_WORD
      THEN <<"revert">>
      ELSE recoverIf(NormUpTo(n - 1, s1) + NormUpTo(n - 1, s2), s1, s2,
                     FromHint(ntt(s2), hint), hashed, QuotientInNtt)

epervier_recover(msgs, salt, cs1, cs2, hint) ==
  recoverOfHint(salt, cs1, cs2, hint, hashToPointNIST(salt, msgs))

ethepervier_recover(msgs, salt, cs1, cs2, hint) ==
  recoverOfHint(salt, cs1, cs2, hint, hashToPointRIP(salt, msgs))

(* The former ones: all inverses are sent, and each is checked. *)
recoverOfInverses(msgs, salt, s1, s2, hint, hashed, Recovered(_, _)) ==
  IF Len(salt) # SALT_LEN \/ ~AreInverse(s2, hint) THEN <<"revert">>
  ELSE recoverIf(NormUpTo(n, s1) + NormUpTo(n, s2), s1, s2, hint, hashed, Recovered)

falconrec_recover(msgs, salt, s1, s2, hint, h_zknox) ==
  recoverOfInverses(msgs, salt, s1, s2, hint, HashFor(h_zknox, salt, msgs), QuotientOf)

falcon_epervier_recover(msgs, salt, s1, s2, hint, h_zknox) ==
  recoverOfInverses(msgs, salt, s1, s2, hint, HashFor(h_zknox, salt, msgs), QuotientInNtt)

falconrec_shorter_recover(msgs, salt, s1, s2, hint) ==
  recoverOfInverses(msgs, salt, s1, s2, FromHint(ntt(s2), hint),
                    hashToPointRIP(salt, msgs), QuotientOf)

=============================================================================
