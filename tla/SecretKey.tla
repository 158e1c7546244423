------------------------------ MODULE SecretKey ------------------------------
(***************************************************************************)
(* SecretKey of falcon.py: the key made of what ntru_gen returns, with its  *)
(* basis in the Fourier domain and its tree, and sample_preimage, on which  *)
(* every signature rests.  The integers that samplerz returns are any.      *)
(***************************************************************************)
EXTENDS NtruGen, FfSampling

CONSTANTS
  Sigma2,   (* the square of the standard deviation sigma                  *)
  Points,   (* bound: the points to find a preimage of                     *)
  Tapes     (* bound: what samplerz returns, call by call                  *)

VARIABLES
  B0_fft, G0_fft,   (* the basis and its Gram matrix, in FFT form          *)
  T_fft,            (* the tree                                            *)
  h,                (* the public key                                      *)
  point,
  s,                (* the preimage sampled                                *)
  calls             (* the calls of samplerz it took                       *)

keyVars == <<B0_fft, G0_fft, T_fft, h, point, s, calls>>

vars == <<ntruVars, keyVars>>

(* An integer polynomial among the complex ones, and back: the model of     *)
(* int(round(x)), where the result is below P / 2.                          *)
Exact(a) == [i \in DOMAIN a |-> AsComplex(a[i])]

Rounded(a) == [i \in DOMAIN a |-> IF 2 * a[i][1] > P THEN a[i][1] - P ELSE a[i][1]]

Negated(a) == [i \in DOMAIN a |-> -a[i]]

(* A fault: the signs of the second row left out. *)
B0Unsigned == <<<<g0, Negated(f0)>>, <<G, F>>>>

B0 == <<<<g0, Negated(f0)>>, <<G, Negated(F)>>>>

(* poly_g / poly_f in the ring modulo q, through the values at the roots.   *)
OverModQ(a, b) == CHOOSE x \in 0 .. q - 1 : (x * b - a) % q = 0

Quotient(a, b) ==
  LET values == [r \in RootsModQ |-> OverModQ(ntt(a)[r], ntt(b)[r])]
      power(r, k) == FoldLeft(LAMBDA x, i : (x * r) % q, 1, [i \in 1 .. k |-> i])
  IN  [i \in 0 .. n - 1 |->
         OverModQ(Sum(RootsModQ, LAMBDA r : values[r] * power(r, 2 * n - i)), n)]

KeyInit ==
  /\ Init
  /\ B0_fft = << >> /\ G0_fft = << >> /\ T_fft = << >> /\ h = << >>
  /\ point = << >> /\ s = << >> /\ calls = << >>

Generate == ntru_gen /\ UNCHANGED keyVars

(* __init__, from what ntru_gen returned. *)
Basis ==
  /\ pc = "returned"
  /\ B0_fft' = [r, c \in 1 .. 2 |-> fft(Exact(B0[r][c]))]
  /\ LET G0 == gram([r \in 1 .. 2 |-> [c \in 1 .. 2 |-> Exact(B0[r][c])]])
     IN  G0_fft' = [r, c \in 1 .. 2 |-> fft(G0[r, c])]
  /\ pc' = "basis"
  /\ UNCHANGED <<fs, gs, F, G, passes, T_fft, h, point, s, calls>>

Tree ==
  /\ pc = "basis"
  /\ T_fft' = normalize_tree(ffldl_fft(G0_fft), AsComplex(Sigma2))
  /\ h' = Quotient(g0, f0)
  /\ pc' = "key"
  /\ UNCHANGED <<fs, gs, F, G, passes, B0_fft, G0_fft, point, s, calls>>

(* (fft(point), 0) over the basis, whose inverse has the determinant q. *)
Target(p) ==
  LET p_fft == fft(Exact(p))
      OverQ(a) == [i \in DOMAIN a |-> Over(a[i], AsComplex(q))]
  IN  <<OverQ(mul_fft(p_fft, B0_fft[2, 2])), OverQ(mul_fft(neg(p_fft), B0_fft[1, 2]))>>

sample_preimage ==
  /\ pc = "key"
  /\ \E p \in Points, tape \in Tapes :
       \E drawn \in {ffsampling_fft(Target(p), T_fft, [i \in DOMAIN tape |-> AsComplex(tape[i])])} :
         LET v(c) == Rounded(ifft(add_fft(mul_fft(drawn.z[1], B0_fft[1, c]),
                                          mul_fft(drawn.z[2], B0_fft[2, c]))))
         IN  /\ point' = p
             /\ s' = <<[i \in DOMAIN p |-> p[i] - v(1)[i]], Negated(v(2))>>
             /\ calls' = drawn.calls
  /\ pc' = "sampled"
  /\ UNCHANGED <<fs, gs, F, G, passes, B0_fft, G0_fft, T_fft, h>>

Next == Generate \/ Basis \/ Tree \/ sample_preimage

Spec == KeyInit /\ [][Next]_vars

(***************************************************************************)
(* Properties                                                               *)
(***************************************************************************)

(* Whatever the sampler returns, a preimage is one: s[0] + s[1]*h = point   *)
(* modulo q (the comment in sample_preimage).                               *)
PreimageFits ==
  pc = "sampled" =>
    \A i \in 0 .. n - 1 : (s[1][i] + Product(s[2], h)[i] - point[i]) % q = 0

(* The walk down the tree splits the length of the preimage among the calls *)
(* of samplerz: each contributes the square of how far it was from its      *)
(* centre, over the square of its standard deviation, times sigma^2.  That  *)
(* is why a good sampler makes a short signature; it takes the Gram matrix, *)
(* the tree, its leaves, the order of the walk and the transforms together. *)
CentreError(c) == Plus(c.mu, Minus(c.z))

LengthIsErrors ==
  pc = "sampled" =>
    AsComplex(sqnorm(s)) =
      FoldLeft(LAMBDA x, c : Plus(x, Times(Times(CentreError(c), CentreError(c)),
                                         Over(AsComplex(Sigma2), c.sigma2))),
               AsComplex(0), calls)

(* The algorithms that work on coefficients do what the ones in the Fourier *)
(* domain do: trees and nearest planes are transforms of each other,        *)
(* whatever rounding does.                                                  *)
AnyRounding(k) == [x \in Complex |-> AsComplex(x[1] * x[1] + k)]

RECURSIVE SameTree(_, _)
SameTree(T, Tf) ==
  IF IsLeaf(T) THEN fft(T) = Tf
  ELSE fft(T.l10) = Tf.l10 /\ SameTree(T.T0, Tf.T0) /\ SameTree(T.T1, Tf.T1)

SameInBothForms ==
  pc = "basis" =>
    \A T \in {ffldl([r, c \in 1 .. 2 |-> ifft(G0_fft[r, c])])}, Tf \in {ffldl_fft(G0_fft)} :
      LET t == <<Exact(f0), Exact(g0)>>
          z == ffnp(t, T, AnyRounding(q))
          z_fft == ffnp_fft(<<fft(t[1]), fft(t[2])>>, Tf, AnyRounding(q))
      IN  SameTree(T, Tf) /\ \A r \in 1 .. 2 : fft(z[r]) = z_fft[r]

(* Each table of fft_constants.py holds the roots of x^n + 1, each once, in *)
(* the order in which split and merge pair them with the table before: the  *)
(* two at 2k and 2k + 1 are square roots of the one at k.  As the comments  *)
(* there say, the one at 2k + 1 is the negation of the one at 2k, and the   *)
(* second half of a table is the conjugate of the first.                    *)
SameAngle(a, b) == (a - b) % (2 * N) = 0

TablesHoldRoots ==
  pc = "gen" =>
    \A m \in {2^k : k \in 1 .. 10} : LET t == roots_dict(m) IN
      /\ Len(t) = m /\ Cardinality({a % (2 * N) : a \in ToSet(t)}) = m
      /\ \A k \in 1 .. m : SameAngle(m * t[k], N)
      /\ \A k \in 1 .. m \div 2 : SameAngle(t[2 * k], t[2 * k - 1] + N)
      /\ \A k \in 1 .. m \div 2 : SameAngle(t[k + m \div 2], -t[k])
      /\ m > 2 => \A k \in 1 .. m : SameAngle(2 * t[k], roots_dict(m \div 2)[(k + 1) \div 2])

=============================================================================
