---------------------------- MODULE MCOnChain ----------------------------
(* Small instances for TLC of what the contracts do with a signature:       *)
(* Epervier, polynomials mod x^4 + 1 over Z_17, evaluated at the roots of   *)
(* x^4 + 1; and Normalize, four coefficients, 0 or -1 (mod 17), with two to *)
(* a word.  One of them at a time, with the same n, q and sigBound.         *)
EXTENDS Epervier, Sequences

CONSTANTS PACK, Coef, FREE     (* of Normalize *)

VARIABLES
  which,
  mem, pcN, offset, normN, result, givenN     (* of Normalize *)

Core ==
  INSTANCE Normalize
    WITH pc <- pcN, norm <- normN, given <- givenN

ASSUME CoreAssumption == Core!NormalizeAssumption

coreVars == <<mem, pcN, offset, normN, result, givenN>>

MCMul(x, y) == (x * y) % q

Roots == <<2, 8, 15, 9>>

MCNTT(a) ==
  [k \in 0 .. 3 |->
     LET r == Roots[k + 1]
     IN  (a[0] + r * a[1] + r * r * a[2] + r * r * r * a[3]) % q]

MCNorm(c) == LET r == IF c > q \div 2 THEN q - c ELSE c IN r * r

(* Arrays are indexed from 0. *)
Array(s) == [k \in 0 .. 3 |-> s[k + 1]]

MCPoly == {f \in [0 .. 3 -> {0, 1, 16}] : \A k \in 1 .. 3 : f[k] # 16}

(* Short s2, and s1 whose first and last coefficients count.               *)
MCSignature ==
  {[s1 |-> Array(<<a, 0, 0, b>>), s2 |-> f, hashed |-> Array(<<9, 2, 3, 4>>)] :
     a \in {0, 1}, b \in {0, 16}, f \in MCPoly}

(* The one that does not run has nothing in its variables.                  *)
OnChainInit ==
  \/ /\ which = "epervier" /\ Init
     /\ mem = << >> /\ pcN = "" /\ offset = 0 /\ normN = 0 /\ result = FALSE /\ givenN = << >>
  \/ /\ which = "core" /\ Core!Init
     /\ given = << >> /\ hint = 0 /\ pc = "" /\ i = 0 /\ norm = 0
     /\ s2 = << >> /\ prefix = << >> /\ inv = << >> /\ key = << >>

OnChainNext ==
  \/ which = "epervier" /\ Next /\ UNCHANGED <<which, coreVars>>
  \/ which = "core" /\ Core!Next /\ UNCHANGED <<which, vars>>

OnChainSpec == OnChainInit /\ [][OnChainNext]_<<which, vars, coreVars>>

(***************************************************************************)
(* Properties                                                               *)
(***************************************************************************)

(* Normalize writes where it means to, and turns no short signature away.   *)
WritesInS1 == which = "core" => Core!WritesInS1

AcceptsShort == which = "core" => Core!AcceptsShort

=============================================================================
