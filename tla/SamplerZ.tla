------------------------------ MODULE SamplerZ ------------------------------
(***************************************************************************)
(* samplerz.py: an integer near a centre, with random bytes that both       *)
(* generators of Rng hand out.  The floating-point numbers are fixed-point  *)
(* numbers of 63 bits, which is what the code makes of them in the end.     *)
(***************************************************************************)
EXTENDS Rng, SequencesExt

CONSTANTS
  Centres,     (* bound: the fractional parts r of centres                 *)
  Deviations,  (* bound: the standard deviations                           *)
  sigmin,      (* the smallest standard deviation                          *)
  Draws        (* bound: the 72 random bits of the base sampler            *)

(* The constants are fractions <<numerator, denominator>>. *)
MAX_SIGMA == <<3641, 2000>>

Below(x, y) == x[1] * y[2] < y[1] * x[2]

ASSUME SamplerZAssumption ==
  /\ WORD = 8
  /\ Centres \subseteq Nat \X Nat
  /\ Deviations \subseteq Nat \X Nat
  /\ sigmin \in Nat \X Nat
  /\ \A r \in Centres : 0 <= r[1] /\ r[1] < r[2]
  /\ \A d \in Deviations : Below(sigmin, d) /\ Below(d, MAX_SIGMA)

VARIABLES
  mu, sigma,   (* the arguments                                            *)
  z0, z,       (* the half-Gaussian sample, and the sample                 *)
  threshold,   (* z of berexp                                              *)
  remainder,   (* r of berexp, times 2^63                                  *)
  compared     (* the bytes that berexp has compared                       *)

sampler == <<mu, sigma, z0, z, threshold, remainder, compared>>

(***************************************************************************)
(* Python's integers, which are as wide as they need to be: digits to the   *)
(* base 4096, the lowest first; the last digit alone may be negative.       *)
(***************************************************************************)
Radix == 4096

(* Body(x), with x evaluated once. *)
Given(x, Body(_)) == [y \in {x} |-> Body(y)][x]

(* A number given by its columns, whose sums may be more than a digit. *)
Carried(columns) ==
  LET Carry(d, x) == [d EXCEPT ![Len(d)] = (@ + x) % Radix] \o <<(Last(d) + x) \div Radix>>
  IN  FoldLeft(LAMBDA d, x : Given(d, LAMBDA e : Carry(e, x)), <<0>>, columns)

At(a, i) == IF i \in DOMAIN a THEN a[i] ELSE 0

WideOf(k) == <<k % Radix, (k \div Radix) % Radix, k \div (Radix * Radix)>>

WideMinus(a, b) ==
  Carried([i \in 1 .. IF Len(a) > Len(b) THEN Len(a) ELSE Len(b) |-> At(a, i) - At(b, i)])

WideTimes(a, b) ==
  Carried([k \in 1 .. Len(a) + Len(b) - 1 |->
             FoldLeftDomain(LAMBDA t, i : t + a[i] * At(b, k + 1 - i), 0, a)])

WideLess(a, b) == Last(WideMinus(a, b)) < 0

(* Without the zeros before the highest digit. *)
Trimmed(a) == SubSeq(a, 1, Max({0} \cup {i \in DOMAIN a : a[i] # 0}))

(* a >> k *)
ShiftedRight(a, k) ==
  LET b == WideTimes(a, <<2^(12 - (k % 12))>>) IN Trimmed(SubSeq(b, k \div 12 + 2, Len(b)))

(* a // k, for small k. *)
WideOver(a, k) ==
  LET Divided(t, d) ==
        [rest |-> (t.rest * Radix + d) % k, out |-> <<(t.rest * Radix + d) \div k>> \o t.out]
  IN  FoldLeft(Divided, [rest |-> 0, out |-> << >>], Reverse(a)).out

(***************************************************************************)
(* The tables                                                               *)
(***************************************************************************)
RCDT ==
  <<<<2050, 913, 940, 749, 2036, 2623>>, <<2946, 2013, 3903, 385, 811, 1357>>,
    <<511, 668, 840, 3337, 3533, 551>>, <<2788, 2452, 1991, 1079, 373, 173>>,
    <<3951, 1009, 3827, 1738, 1412, 41>>, <<3423, 1867, 1261, 3189, 1866, 7>>,
    <<2788, 1910, 1067, 3541, 36, 1>>, <<986, 2774, 3173, 4093, 417>>,
    <<1064, 1974, 2186, 2061, 31>>, <<3177, 64, 3506, 3135, 1>>,
    <<507, 3331, 3876, 300>>, <<2335, 2224, 1183, 9>>, <<2456, 1498, 870>>,
    <<3771, 3062, 14>>, <<3454, 757>>, <<152, 7>>, <<198>>, <<1>>>>

C ==
  <<<<931, 280, 1140>>, <<3078, 2255, 1620, 3>>, <<1034, 3057, 4060, 36>>,
    <<69, 2526, 3475, 369>>, <<3972, 2294, 3317, 3328>>, <<1763, 3961, 2076, 2054, 6>>,
    <<4074, 1456, 2096, 2093, 45>>, <<4048, 102, 270, 273, 273>>,
    <<3840, 112, 1365, 1365, 1365>>, <<3840, 2079, 1365, 1365, 1365, 1>>,
    <<1024, 43, 0, 0, 0, 4>>, <<2048, 4084, 4095, 4095, 4095, 7>>, <<0, 0, 0, 0, 0, 8>>>>

(* 2^63, and LN2 times 2^63. *)
OneFixed == <<0, 0, 0, 0, 0, 8>>

LN2 == <<3909, 3830, 3048, 191, 2233, 5>>

(* k times 2^63, divided by each of a sequence of numbers. *)
Fixed(k, divisors) ==
  FoldLeft(LAMBDA a, d : WideOver(a, d), WideTimes(WideOf(k), OneFixed), divisors)

basesampler(u) == Cardinality({k \in DOMAIN RCDT : WideLess(u, RCDT[k])})

Horner(coefficients, x) ==
  LET Step(y, c) == Trimmed(WideMinus(c, ShiftedRight(WideTimes(x, y), 63)))
  IN  FoldLeft(LAMBDA y, c : Given(y, LAMBDA v : Step(v, c)), <<0>>, coefficients)

(* A fault: the coefficients are taken without the first. *)
approxexpShort(x, ccs) == ShiftedRight(WideTimes(WideTimes(ccs, <<2>>), Horner(Tail(C), x)), 63)

(* 2^64 * ccs * exp(-x); the arguments are given times 2^63. *)
approxexp(x, ccs) == ShiftedRight(WideTimes(WideTimes(ccs, <<2>>), Horner(C, x)), 63)

(* How often LN2 goes into x. *)
Halvings(x) ==
  FoldLeft(LAMBDA s, b : IF WideLess(x, WideTimes(LN2, <<s + b>>)) THEN s ELSE s + b,
           0, <<128, 64, 32, 16, 8, 4, 2, 1>>)

Threshold(r, s) ==
  ShiftedRight(WideMinus(approxexp(r, Fixed(sigmin[1] * sigma[2], <<sigmin[2], sigma[1]>>)), <<1>>),
               IF s < 63 THEN s ELSE 63)

(* A fault: the sample leans the other way. *)
SampleOtherWay(b) == -b + (1 - 2 * b) * z0

Sample(b) == b + (2 * b - 1) * z0

(* x, which is (z - r)^2 / 2 sigma^2 - z0^2 / 2 MAX_SIGMA^2. *)
Exponent(y) ==
  LET distance == (y * mu[2] - mu[1]) * sigma[2]
      scale == mu[2] * sigma[1]
      half == z0 * MAX_SIGMA[2]
  IN  WideMinus(Fixed(distance * distance, <<2, scale, scale>>),
                Fixed(half * half, <<2, MAX_SIGMA[1], MAX_SIGMA[1]>>))

(* The byte of the threshold that is compared next. *)
NextByte(t, i) == (Head(ShiftedRight(t, 8 * (i - 1)) \o <<0>>)) % 256

(* A fault: a byte that is equal accepts. *)
AcceptedIfEqual ==
  compared # << >> /\ Last(compared) <= NextByte(threshold, WORD + 1 - Len(compared))

Accepted ==
  compared # << >> /\ Last(compared) < NextByte(threshold, WORD + 1 - Len(compared))

SamplerInit ==
  /\ Init
  /\ mu \in Centres /\ sigma \in Deviations
  /\ z0 = 0 /\ z = 0 /\ threshold = << >> /\ remainder = << >> /\ compared = << >>

(* The next sample, or if the last was rejected the same one again. *)
Base ==
  /\ BaseSampler
  /\ IF Accepted THEN mu' \in Centres /\ sigma' \in Deviations ELSE UNCHANGED <<mu, sigma>>
  /\ \E u \in Draws : z0' = basesampler(u)
  /\ z' = 0 /\ threshold' = << >> /\ remainder' = << >> /\ compared' = << >>

Sign ==
  /\ SignBit
  /\ \E b \in {0, 1} :
       /\ z' = Sample(b)
       /\ \E x \in {Exponent(z')} : \E s \in {Halvings(x)} :
            /\ remainder' = Trimmed(WideMinus(x, WideTimes(LN2, <<s>>)))
            /\ threshold' = Threshold(remainder', s)
  /\ UNCHANGED <<mu, sigma, z0, compared>>

(* Bound: bytes at and around the one they are compared with.               *)
berexp ==
  /\ BerExp
  /\ \E w \in {NextByte(threshold, shift)} :
       \E p \in (w - 1 .. w + 1) \cap (0 .. 255) :
         /\ compared' = Append(compared, p)
         /\ pc' = IF p = w /\ shift > 1 THEN "berexp" ELSE "base"
  /\ UNCHANGED <<mu, sigma, z0, z, threshold, remainder>>

Again ==
  /\ NewAttempt
  /\ compared' = << >>
  /\ UNCHANGED <<mu, sigma, z0, z, threshold, remainder>>

SamplerNext == Base \/ Sign \/ berexp \/ Again

SamplerSpec == SamplerInit /\ [][SamplerNext]_<<vars, sampler>>

(***************************************************************************)
(* Properties                                                               *)
(***************************************************************************)

(* The exponent that berexp is called with is never negative, whatever the  *)
(* centre, the deviation and the sign drawn (its docstring requires it).    *)
ExponentNotNegative ==
  pc = "berexp" =>
    (IF z * mu[2] > mu[1] THEN z * mu[2] - mu[1] ELSE mu[1] - z * mu[2]) * sigma[2] * MAX_SIGMA[1]
      >= z0 * MAX_SIGMA[2] * mu[2] * sigma[1]

(* approxexp is an exponential: what it makes of r and of LN2 - r multiply  *)
(* to a half, but for 40 bits.                                              *)
ExponentialHalves ==
  pc = "berexp" /\ shift = WORD =>
    LET product == WideTimes(approxexp(remainder, OneFixed),
                             approxexp(Trimmed(WideMinus(LN2, remainder)), OneFixed))
        half == [i \in 1 .. 11 |-> IF i = 11 THEN 128 ELSE 0]
        error == [i \in 1 .. 8 |-> IF i = 8 THEN 8 ELSE 0]
    IN  /\ WideLess(WideMinus(half, error), product)
        /\ WideLess(WideMinus(product, error), half)

(* berexp stops at the first byte that differs and still decides what       *)
(* comparing 64 random bits with the whole threshold would.                 *)
Completed(rest) ==
  LET bytes == compared \o [i \in 1 .. WORD - Len(compared) |-> rest]
  IN  FoldLeft(LAMBDA a, b : Trimmed(WideMinus(WideTimes(a, <<256>>), <<-b>>)), <<0>>, bytes)

WholeComparison ==
  pc = "base" /\ compared # << >> =>
    IF Accepted THEN WideLess(Completed(255), threshold) ELSE ~WideLess(Completed(0), threshold)

=============================================================================
