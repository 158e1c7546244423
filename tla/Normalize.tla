----------------------------- MODULE Normalize -----------------------------
(***************************************************************************)
(* falcon_core and falcon_normalize (ZKNOX_falcon_core.sol): is the pair    *)
(* (s1, s2) of a signature short?  The assembly walks raw memory, so the    *)
(* module keeps the memory: one cell per 32-byte word, arrays where the     *)
(* Solidity allocator puts them, each behind a word with its length.        *)
(*                                                                         *)
(* s2 arrives compacted, PACK coefficients to a word; its expansion is      *)
(* written over s1 once s1 has been summed.  The product s2 * h that gives  *)
(* s1 is any polynomial here.                                               *)
(***************************************************************************)
EXTENDS Integers, Sequences, FiniteSets

CONSTANTS
  n,         (* coefficients: 512                                          *)
  PACK,      (* chunk16Byword: 16                                          *)
  q,
  sigBound,
  Coef,      (* bound: the coefficients that occur                         *)
  FREE       (* the free memory pointer when verify() starts, in words     *)

NormalizeAssumption ==
  /\ n \in Nat \ {0} /\ PACK \in Nat \ {0} /\ n % PACK = 0
  /\ q \in Nat \ {0} /\ sigBound \in Nat /\ Coef \subseteq 0 .. q - 1
  /\ FREE \in Nat \ {0}

(* Where the arrays are: calldata is copied first, then the point is        *)
(* hashed, then s1 is expanded from the product.                            *)
s2 == FREE

hashed == s2 + 1 + n \div PACK

s1 == hashed + 1 + n

Poly == [0 .. n - 1 -> Coef]

VARIABLES
  mem,     (* the memory                                                   *)
  pc,
  offset,  (* the loop variable, an address or relative to an array        *)
  norm,
  result,
  given    (* the polynomials the memory held at the start                 *)

vars == <<mem, pc, offset, norm, result, given>>

(* A word of PACK coefficients. *)
Compact(poly, w) == [k \in 0 .. PACK - 1 |-> poly[w * PACK + k]]

Address == FREE .. s1 + n

TypeOK ==
  /\ DOMAIN mem = Address
  /\ pc \in {"hashed", "expand", "squares", "done"}
  /\ offset \in Nat
  /\ norm \in Nat
  /\ result \in BOOLEAN
  /\ given \in [s1 : Poly, s2 : Poly, hashed : Poly]

Loaded(g) ==
  [a \in Address |->
     IF a = s2 THEN n \div PACK
     ELSE IF a \in {hashed, s1} THEN n
     ELSE IF a < hashed THEN Compact(g.s2, a - s2 - 1)
     ELSE IF a < s1 THEN g.hashed[a - hashed - 1]
     ELSE g.s1[a - s1 - 1]]

Init ==
  /\ given \in [s1 : Poly, s2 : Poly, hashed : Poly]
  /\ mem = Loaded(given)
  /\ pc = "hashed"
  /\ offset = 1
  /\ norm = 0
  /\ result = FALSE

(* A fault: the coefficient is not centered. *)
NotCentered(c) == c * c

(* The square of a coefficient, taken between -q/2 and q/2. *)
Square(c) == LET r == IF c > q \div 2 THEN q - c ELSE c IN r * r

(* s1[i] = hashed[i] - s1[i], squared and summed. *)
SumHashed ==
  /\ pc = "hashed"
  /\ IF n > offset
     THEN LET c == (mem[hashed + offset] + (q - mem[s1 + offset])) % q IN
          /\ norm' = norm + Square(c)
          /\ offset' = offset + 1
          /\ UNCHANGED pc
     ELSE /\ pc' = "expand"
          /\ offset' = 0
          /\ UNCHANGED norm
  /\ UNCHANGED <<mem, result, given>>

(* A fault: the word with the length is not skipped. *)
ExpandOverLength ==
  /\ pc = "expand"
  /\ IF offset < n \div PACK
     THEN LET first == s1 + offset * PACK IN
          /\ mem' = [a \in Address |->
                       IF a \in first .. first + PACK - 1
                       THEN mem[s2 + 1 + offset][a - first] ELSE mem[a]]
          /\ offset' = offset + 1
          /\ UNCHANGED pc
     ELSE pc' = "squares" /\ offset' = s1 + 1 /\ UNCHANGED mem
  /\ UNCHANGED <<norm, result, given>>

(* Word i of s2 is expanded over s1. *)
Expand ==
  /\ pc = "expand"
  /\ IF offset < n \div PACK
     THEN LET first == s1 + 1 + offset * PACK IN
          /\ mem' = [a \in Address |->
                       IF a \in first .. first + PACK - 1
                       THEN mem[s2 + 1 + offset][a - first] ELSE mem[a]]
          /\ offset' = offset + 1
          /\ UNCHANGED pc
     ELSE /\ pc' = "squares"
          /\ offset' = s1 + 1
          /\ UNCHANGED mem
  /\ UNCHANGED <<norm, result, given>>

(* The third loop: offset is an address here, compared with the same bound. *)
SumExpanded ==
  /\ pc = "squares"
  /\ IF n > offset
     THEN /\ norm' = norm + Square(mem[offset])
          /\ offset' = offset + 1
          /\ UNCHANGED <<pc, result>>
     ELSE /\ result' = (sigBound > norm)
          /\ pc' = "done"
          /\ UNCHANGED <<norm, offset>>
  /\ UNCHANGED <<mem, given>>

Next == SumHashed \/ Expand \/ SumExpanded

Spec == Init /\ [][Next]_vars

(***************************************************************************)
(* Properties                                                               *)
(***************************************************************************)

SumOver(f, k) ==
  LET sum[j \in 0 .. k] == IF j = 0 THEN 0 ELSE sum[j - 1] + f[j - 1]
  IN  sum[k]

(* The squared norm of (s1, s2), as doc/specification.md defines it: s1 is  *)
(* the hashed point less the product, its coefficients the representatives  *)
(* nearest to 0.                                                            *)
Centered(c) == LET r == c % q IN IF 2 * r < q THEN r ELSE r - q

Norm2(c) == Centered(c) * Centered(c)

SquaredNorm ==
  SumOver([i \in 0 .. n - 1 |->
             Norm2(given.hashed[i] - given.s1[i]) + Norm2(given.s2[i])], n)

(* The memory is what it was, but for s1, which ends up holding s2: the     *)
(* loops write inside the array they mean to.                               *)
WritesInS1 ==
  /\ \A a \in Address : a <= s1 => mem[a] = Loaded(given)[a]
  /\ pc \in {"squares", "done"} =>
       \A i \in 0 .. n - 1 : mem[s1 + 1 + i] = given.s2[i]

(* No signature that is short is turned away. *)
AcceptsShort == pc = "done" /\ SquaredNorm < sigBound => result

(* "if (s1, s2) is short, accept, otherwise, reject"                        *)
(* (doc/specification.md): no pair whose squared norm is above the bound is *)
(* accepted.                                                                *)
AcceptsOnlyShort == pc = "done" /\ result => SquaredNorm <= sigBound

=============================================================================
