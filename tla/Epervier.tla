------------------------------ MODULE Epervier ------------------------------
(***************************************************************************)
(* recover of ZKNOX_ethepervier.sol and ZKNOX_epervier.sol: the public key  *)
(* from a signature (s1, s2) and a hint, one value mod q, from which the    *)
(* inverses of all coefficients of ntt(s2) are to follow (Montgomery's      *)
(* trick), and which is checked by one sum at the end.                      *)
(*                                                                         *)
(* Multiplication mod q is a constant, of which the code needs no more than *)
(* the assumption below; so is the transform ntt.  A pass of a loop is an   *)
(* action.                                                                  *)
(***************************************************************************)
EXTENDS Integers

CONSTANTS
  n,          (* coefficients: 512                                         *)
  q,          (* modulus                                                   *)
  Mul(_, _),  (* mulmod(x, y, q)                                           *)
  NTT(_),     (* _ZKNOX_NTTFW_vectorized                                   *)
  Norm(_),    (* square of the centered representative of a coefficient    *)
  sigBound,
  Hint,       (* the values of the hint: any word                          *)
  Signature   (* bound: the signatures <<s1, s2>> and the hashed points    *)

Zq == 0 .. q - 1

Index == 0 .. n - 1

Poly == [Index -> Zq]

ASSUME EpervierAssumption ==
  /\ n \in Nat /\ n > 1 /\ q \in Nat /\ q > 1
  /\ sigBound \in Nat
  /\ Hint \subseteq Nat
  /\ Signature \subseteq [s1 : Poly, s2 : Poly, hashed : Poly]

Minus(a, b) == [k \in Index |-> (a[k] + (q - b[k])) % q]

ASSUME NTTAssumption ==
  \A g \in Signature :
    NTT(g.s2) \in Poly /\ NTT(Minus(g.hashed, g.s1)) \in Poly

ASSUME NormAssumption == \A c \in Zq : Norm(c) \in Nat

ASSUME MulAssumption ==
  /\ \A x, y \in Zq \cup Hint : Mul(x, y) \in Zq
  /\ \A x, y \in Zq \cup Hint : Mul(x, y) = Mul(y, x)
  /\ \A x, y, z \in Zq \cup Hint : Mul(Mul(x, y), z) = Mul(x, Mul(y, z))
  /\ \A x \in Zq : Mul(x, 1) = x

VARIABLES
  given,   (* the signature and the hashed point                           *)
  hint,
  pc,
  i,       (* the loop variable                                            *)
  norm,    (* the squared norm, and then the sum of the check              *)
  s2,      (* ntt(s2)                                                      *)
  prefix,
  inv,     (* s2_inverse_ntt                                               *)
  key      (* what is hashed to the address                                *)

vars == <<given, hint, pc, i, norm, s2, prefix, inv, key>>

Control ==
  {"norm", "prefix", "suffix", "combine", "check", "recovered", "reverted"}

TypeOK ==
  /\ given \in Signature
  /\ hint \in Hint
  /\ pc \in Control
  /\ i \in 0 .. n
  /\ norm \in Int
  /\ s2 \in Poly
  /\ prefix \in Poly
  /\ inv \in [Index -> Zq \cup Hint]
  /\ key \in Poly

ZeroPoly == [k \in Index |-> 0]

Init ==
  /\ given \in Signature
  /\ hint \in Hint
  /\ pc = "norm"
  /\ i = 0
  /\ norm = 0
  /\ s2 = ZeroPoly
  /\ prefix = ZeroPoly
  /\ inv = ZeroPoly
  /\ key = ZeroPoly

(* Both polynomials are summed in one loop: `gt(16384, offset)' from 32 on  *)
(* passes over n - 1 coefficients.                                          *)
SumNorm ==
  /\ pc = "norm"
  /\ i < n - 1
  /\ norm' = norm + Norm(given.s1[i]) + Norm(given.s2[i])
  /\ i' = i + 1
  /\ UNCHANGED <<given, hint, pc, s2, prefix, inv, key>>

NormTooLarge ==
  /\ pc = "norm"
  /\ i = n - 1
  /\ norm > sigBound
  /\ pc' = "reverted"
  /\ UNCHANGED <<given, hint, i, norm, s2, prefix, inv, key>>

(* s2 is transformed; prefix starts with s2[0], the inverses with the hint  *)
(* in the last place.                                                       *)
Transform ==
  /\ pc = "norm"
  /\ i = n - 1
  /\ norm <= sigBound
  /\ pc' = "prefix"
  /\ i' = 1
  /\ s2' = NTT(given.s2)
  /\ prefix' = [ZeroPoly EXCEPT ![0] = s2'[0]]
  /\ inv' = [ZeroPoly EXCEPT ![n - 1] = hint]
  /\ UNCHANGED <<given, hint, norm, key>>

(* Forward: the products of the first coefficients. *)
Prefix ==
  /\ pc = "prefix"
  /\ prefix' = [prefix EXCEPT ![i] = Mul(prefix[i - 1], s2[i])]
  /\ i' = IF i = n - 1 THEN n - 1 ELSE i + 1
  /\ pc' = IF i = n - 1 THEN "suffix" ELSE "prefix"
  /\ UNCHANGED <<given, hint, norm, s2, inv, key>>

(* Backward: the hint times the products of the last coefficients. *)
Suffix ==
  /\ pc = "suffix"
  /\ inv' = [inv EXCEPT ![i - 1] = Mul(inv[i], s2[i])]
  /\ i' = IF i = 1 THEN 1 ELSE i - 1
  /\ pc' = IF i = 1 THEN "combine" ELSE "suffix"
  /\ UNCHANGED <<given, hint, norm, s2, prefix, key>>

(* Forward again: the two products meet, leaving out coefficient i. *)
Combine ==
  /\ pc = "combine"
  /\ inv' = [inv EXCEPT ![i] = Mul(prefix[i - 1], inv[i])]
  /\ i' = IF i = n - 1 THEN 0 ELSE i + 1
  /\ pc' = IF i = n - 1 THEN "check" ELSE "combine"
  /\ norm' = IF i = n - 1 THEN 0 ELSE norm
  /\ UNCHANGED <<given, hint, s2, prefix, key>>

(* A fault: the products are not compared with 1. *)
CheckAdds ==
  /\ pc = "check"
  /\ i < n
  /\ norm' = norm + (1 + Mul(s2[i], inv[i]))
  /\ i' = i + 1
  /\ UNCHANGED <<given, hint, pc, s2, prefix, inv, key>>

(* The check: what is summed is how far each product is from 1.  A sum of   *)
(* 2^256 or beyond would wrap; n * q is far below.                          *)
Check ==
  /\ pc = "check"
  /\ i < n
  /\ norm' = norm + (1 - Mul(s2[i], inv[i]))
  /\ i' = i + 1
  /\ UNCHANGED <<given, hint, pc, s2, prefix, inv, key>>

WrongHint ==
  /\ pc = "check"
  /\ i = n
  /\ norm # 0
  /\ pc' = "reverted"
  /\ UNCHANGED <<given, hint, i, norm, s2, prefix, inv, key>>

(* A fault: whatever the hint, a key is recovered. *)
RecoverUnchecked ==
  /\ pc = "check"
  /\ i = n
  /\ pc' = "recovered"
  /\ key' = LET d == NTT(Minus(given.hashed, given.s1))
            IN  [k \in Index |-> Mul(d[k], inv[k])]
  /\ UNCHANGED <<given, hint, i, norm, s2, prefix, inv>>

(* A fault: the difference is taken the wrong way round. *)
RecoverReversed ==
  /\ pc = "check"
  /\ i = n
  /\ norm = 0
  /\ pc' = "recovered"
  /\ key' = LET d == NTT(Minus(given.s1, given.hashed))
            IN  [k \in Index |-> Mul(d[k], inv[k])]
  /\ UNCHANGED <<given, hint, i, norm, s2, prefix, inv>>

(* The key, in the NTT domain: ntt(hashed - s1) times the inverses. *)
Recover ==
  /\ pc = "check"
  /\ i = n
  /\ norm = 0
  /\ pc' = "recovered"
  /\ key' = LET d == NTT(Minus(given.hashed, given.s1))
            IN  [k \in Index |-> Mul(d[k], inv[k])]
  /\ UNCHANGED <<given, hint, i, norm, s2, prefix, inv>>

Next ==
  \/ SumNorm \/ NormTooLarge \/ Transform
  \/ Prefix \/ Suffix \/ Combine
  \/ Check \/ WrongHint \/ Recover

Spec == Init /\ [][Next]_vars /\ WF_vars(Next)

(***************************************************************************)
(* Properties                                                               *)
(***************************************************************************)

(* One sum is as good as n comparisons: when the key is recovered, every    *)
(* coefficient of s2_inverse_ntt is the inverse of its coefficient of s2    *)
(* ("ntt(s2)*ntt(s2^-1)==ntt(1)?") -- no two errors cancel in the sum.      *)
InverseChecked ==
  pc = "recovered" => \A k \in Index : Mul(s2[k], inv[k]) = 1

(* The key recovered is one the signature verifies under: key * s2 is the   *)
(* hashed point less s1, in the NTT domain.                                 *)
KeyFits ==
  pc = "recovered" =>
    \A k \in Index : Mul(key[k], s2[k]) = NTT(Minus(given.hashed, given.s1))[k]

(* A hint that fits is accepted: the call reverts only for a signature      *)
(* whose norm is too large, or a hint that is not the inverse of the        *)
(* product of all coefficients of ntt(s2).                                  *)
Product(f) ==
  LET prod[k \in 0 .. n] == IF k = 0 THEN 1 ELSE Mul(prod[k - 1], f[k - 1])
  IN  prod[n]

RightHintRecovers ==
  pc = "reverted" /\ i = n =>
    Mul(Product(NTT(given.s2)), hint) # 1

(* The inductive invariant.  The forward products chain up to place j, the  *)
(* backward ones from place j on; what a product before a place and one     *)
(* from it on make together is the same whole at every place, and so is     *)
(* what the check multiplies.                                               *)
PrefixUpTo(j) ==
  /\ prefix[0] = s2[0]
  /\ \A k \in 1 .. j : prefix[k] = Mul(prefix[k - 1], s2[k])

SuffixFrom(j) == \A k \in j .. n - 1 : inv[k - 1] = Mul(inv[k], s2[k])

Whole == Mul(s2[0], inv[0])

WholeUpTo(j) == \A k \in 0 .. j : Mul(s2[k], inv[k]) = Whole

(* The sum of k equal terms. *)
Times(k, c) == k * c

(* A hint is refused only if it is not the inverse of the product of all    *)
(* coefficients, which is where the forward products end.                   *)
RefusedIsWrong ==
  pc = "reverted" /\ i = n =>
    PrefixUpTo(n - 1) /\ Mul(prefix[n - 1], hint) # 1

IInv ==
  /\ TypeOK
  /\ pc = "norm" => i < n
  /\ pc = "prefix" => i \in 1 .. n - 1 /\ PrefixUpTo(i - 1) /\ inv[n - 1] = hint
  /\ pc = "suffix" =>
       /\ i \in 1 .. n - 1 /\ PrefixUpTo(n - 1) /\ SuffixFrom(i + 1)
       /\ inv[n - 1] = hint
  /\ pc = "combine" =>
       /\ i \in 1 .. n - 1 /\ PrefixUpTo(n - 1) /\ SuffixFrom(i + 1)
       /\ WholeUpTo(i - 1)
       /\ Mul(prefix[i], inv[i]) = Whole
       /\ inv[n - 1] = hint
  /\ pc = "check" =>
       /\ PrefixUpTo(n - 1) /\ WholeUpTo(n - 1)
       /\ norm = Times(i, 1 - Whole)
       /\ Whole = Mul(prefix[n - 1], hint)
  /\ InverseChecked
  /\ KeyFits
  /\ RefusedIsWrong

=============================================================================
