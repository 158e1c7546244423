------------------------------ MODULE NtruGen ------------------------------
(***************************************************************************)
(* ntrugen.py: short f and g are drawn, and F and G found with              *)
(* f*G - g*F = q modulo x^n + 1; what cannot be solved is drawn again.      *)
(* ntru_solve goes down to integers by field norms and back up by lifts,    *)
(* one level an action; a pass of reduce() is an action too.  The quotient  *)
(* k of a pass comes out of floating-point arithmetic: the model takes any. *)
(***************************************************************************)
EXTENDS Integers, FiniteSets, FiniteSetsExt, SequencesExt

CONSTANTS
  n,           (* the degree, a power of two                               *)
  q,           (* the modulus: 12289                                       *)
  Short,       (* bound: the pairs f, g that gen_poly is to give           *)
  NormBound,   (* the largest square norm of f, g: 1.17^2 * q              *)
  Quotients,   (* bound: the coefficients of k in a pass of reduce()       *)
  MaxPasses,   (* bound: the passes that change F and G, at one level      *)
  PRECISION,   (* bits of a number that the transforms work with: 53       *)
  WORD         (* bitsize() counts in steps of so many bits: 8             *)

ASSUME NtruAssumption ==
  /\ n \in {2^k : k \in 1 .. 10} /\ q \in Nat \ {0, 1}
  /\ Short \subseteq [0 .. n - 1 -> Int] \X [0 .. n - 1 -> Int]
  /\ Quotients \subseteq Int
  /\ PRECISION \in Nat \ {0} /\ WORD \in Nat \ {0}

VARIABLES
  pc,
  fs, gs,   (* f, g and their field norms, down to the level reached       *)
  F, G,     (* the solution at the level reached on the way up             *)
  passes    (* passes of reduce() at this level                            *)

ntruVars == <<pc, fs, gs, F, G, passes>>

(* Polynomials with integer coefficients, as lists from 0 on. *)
Size(a) == Cardinality(DOMAIN a)

Sum(S, Term(_)) == FoldSet(LAMBDA i, s : s + Term(i), 0, S)

Polynomial(m) == [0 .. m - 1 -> Int]

Low(p, h) == [i \in 0 .. h - 1 |-> p[i]]

High(p, h) == [i \in 0 .. h - 1 |-> p[i + h]]

Both(p, h) == [i \in 0 .. h - 1 |-> p[i] + p[i + h]]

(* The product of a and b out of those of their halves, of h terms each.    *)
Together(h, a0b0, a1b1, axbx) ==
  LET At(p, i) == IF i \in 0 .. 2 * h - 1 THEN p[i] ELSE 0 IN
  [i \in 0 .. 4 * h - 1 |->
     At(a0b0, i) + At(a1b1, i - 2 * h)
       + At(axbx, i - h) - At(a0b0, i - h) - At(a1b1, i - h)]

karatsuba(a, b, m) ==
  LET times[l \in 1 .. m] ==
        [ab \in Polynomial(l) \X Polynomial(l) |->
           LET h == l \div 2
               of(Part(_, _)) == times[h][<<Part(ab[1], h), Part(ab[2], h)>>]
           IN  IF l = 1 THEN [i \in 0 .. 1 |-> IF i = 0 THEN ab[1][0] * ab[2][0] ELSE 0]
               ELSE Together(h, of(Low), of(High), of(Both))]
  IN  times[m][<<a, b>>]

karamul(a, b) ==
  LET ab == karatsuba(a, b, Size(a)) IN [i \in DOMAIN a |-> ab[i] - ab[i + Size(a)]]

(* a(-x) *)
galois_conjugate(a) == [i \in DOMAIN a |-> IF i % 2 = 0 THEN a[i] ELSE -a[i]]

(* a(x) * a(-x), which is a polynomial in x^2. *)
field_norm(a) ==
  LET n2 == Size(a) \div 2
      ae == [i \in 0 .. n2 - 1 |-> a[2 * i]]
      ao == [i \in 0 .. n2 - 1 |-> a[2 * i + 1]]
      odd == karamul(ao, ao)
  IN  [i \in 0 .. n2 - 1 |->
         karamul(ae, ae)[i] + (IF i = 0 THEN odd[n2 - 1] ELSE -odd[i - 1])]

(* a(x^2) *)
lift(a) == [i \in 0 .. 2 * Size(a) - 1 |-> IF i % 2 = 0 THEN a[i \div 2] ELSE 0]

Abs(a) == IF a < 0 THEN -a ELSE a

bitsize(a) ==
  LET size[v \in 0 .. Abs(a)] == IF v = 0 THEN 0 ELSE WORD + size[v \div 2^WORD]
  IN  size[Abs(a)]

(* size and Size of reduce(). *)
Bits(a, b) == Max({PRECISION} \cup {bitsize(a[i]) : i \in DOMAIN a}
                              \cup {bitsize(b[i]) : i \in DOMAIN b})

Remainders == [c : Int, x0 : Int, x1 : Int, y0 : Int, y1 : Int]

(* A fault: the loop ends one remainder early. *)
xgcdEarly(b, m) ==
  LET loop[r \in 0 .. m] ==
        [t \in Remainders |->
           IF r <= 1 THEN [d |-> t.c, u |-> t.x0, v |-> t.y0]
           ELSE LET k == t.c \div r
                IN  loop[t.c % r]
                      [[c |-> r, x0 |-> t.x1, x1 |-> t.x0 - k * t.x1,
                                 y0 |-> t.y1, y1 |-> t.y0 - k * t.y1]]]
  IN  loop[m][[c |-> b, x0 |-> 1, x1 |-> 0, y0 |-> 0, y1 |-> 1]]

(* d, u, v with d = u * b + v * m; m is a norm, and so not negative. *)
xgcd(b, m) ==
  LET loop[r \in 0 .. m] ==
        [t \in Remainders |->
           IF r = 0 THEN [d |-> t.c, u |-> t.x0, v |-> t.y0]
           ELSE LET k == t.c \div r
                IN  loop[t.c % r]
                      [[c |-> r, x0 |-> t.x1, x1 |-> t.x0 - k * t.x1,
                                 y0 |-> t.y1, y1 |-> t.y0 - k * t.y1]]]
  IN  loop[m][[c |-> b, x0 |-> 1, x1 |-> 0, y0 |-> 0, y1 |-> 1]]

sqnorm(v) == Sum(DOMAIN v, LAMBDA r : Sum(DOMAIN v[r], LAMBDA i : v[r][i] * v[r][i]))

(* The values of f at the roots of x^n + 1 modulo q: T.ntt(f), in some      *)
(* order.                                                                   *)
RootsModQ == {r \in 1 .. q - 1 : FoldSet(LAMBDA i, s : (s * r) % q, 1, 1 .. n) = q - 1}

ntt(f) == [r \in RootsModQ |->
             FoldLeft(LAMBDA s, i : (s * r + f[n - i]) % q, 0, [i \in 1 .. n |-> i])]

f0 == fs[1]

g0 == gs[1]

Init ==
  /\ pc = "gen"
  /\ fs = << >> /\ gs = << >>
  /\ F = << >> /\ G = << >>
  /\ passes = 0

Again ==
  /\ pc' = "gen"
  /\ fs' = << >> /\ gs' = << >>
  /\ F' = << >> /\ G' = << >>
  /\ passes' = 0

gen_poly ==
  /\ pc = "gen"
  /\ \E fg \in Short : fs' = <<fg[1]>> /\ gs' = <<fg[2]>>
  /\ pc' = "check"
  /\ UNCHANGED <<F, G, passes>>

(* gs_norm() is the larger of the square norms of (f, g) and of its dual;   *)
(* the second, which is no integer, may be too large or not.                *)
GsNormTooLarge ==
  /\ pc = "check"
  /\ Again

NotInvertible ==
  /\ pc = "check"
  /\ \E r \in RootsModQ : ntt(f0)[r] = 0
  /\ Again

(* ntru_gen, when f and g pass. *)
Solve ==
  /\ pc = "check"
  /\ sqnorm(<<f0, g0>>) <= NormBound
  /\ \A r \in RootsModQ : ntt(f0)[r] # 0
  /\ pc' = "down"
  /\ UNCHANGED <<fs, gs, F, G, passes>>

(* ntru_solve on the way down, *)
Down ==
  /\ pc = "down"
  /\ Size(Last(fs)) > 1
  /\ fs' = Append(fs, field_norm(Last(fs)))
  /\ gs' = Append(gs, field_norm(Last(gs)))
  /\ UNCHANGED <<pc, F, G, passes>>

(* at the bottom, *)
Bottom ==
  LET x == xgcd(Last(fs)[0], Last(gs)[0]) IN
  /\ pc = "down"
  /\ Size(Last(fs)) = 1
  /\ IF x.d # 1 THEN pc' = "ValueError" /\ UNCHANGED <<F, G>>
     ELSE /\ pc' = "up"
          /\ F' = [i \in {0} |-> -q * x.v]
          /\ G' = [i \in {0} |-> q * x.u]
  /\ UNCHANGED <<fs, gs, passes>>

(* and up one level.  The norms that level no longer needs are dropped. *)
Up ==
  /\ pc = "up"
  /\ Len(fs) > 1
  /\ fs' = Front(fs)
  /\ gs' = Front(gs)
  /\ F' = karamul(lift(F), galois_conjugate(Last(Front(gs))))
  /\ G' = karamul(lift(G), galois_conjugate(Last(Front(fs))))
  /\ pc' = "reduce"
  /\ passes' = 0

Subtracted(f, g, k, shift) ==
  /\ F' = [i \in DOMAIN F |-> F[i] - karamul(f, k)[i] * 2^shift]
  /\ G' = [i \in DOMAIN G |-> G[i] - karamul(g, k)[i] * 2^shift]

(* A pass of reduce(): it leaves when F and G are smaller than f and g, or  *)
(* when k is 0.                                                             *)
ReducePass ==
  LET f == Last(fs)
      g == Last(gs)
      shift == Bits(F, G) - Bits(f, g)
  IN
  /\ pc = "reduce"
  /\ shift >= 0
  /\ passes < MaxPasses
  /\ \E k \in [DOMAIN f -> Quotients] :
       /\ \E i \in DOMAIN k : k[i] # 0
       /\ Subtracted(f, g, k, shift)
  /\ passes' = passes + 1
  /\ UNCHANGED <<pc, fs, gs>>

ReduceEnds ==
  /\ pc = "reduce"
  /\ pc' = "up"
  /\ UNCHANGED <<fs, gs, F, G, passes>>

(* ntru_gen returns, or catches the error and starts again. *)
Return ==
  /\ pc = "up"
  /\ Len(fs) = 1
  /\ pc' = "returned"
  /\ UNCHANGED <<fs, gs, F, G, passes>>

Retry == pc = "ValueError" /\ Again

ntru_gen ==
  \/ gen_poly \/ GsNormTooLarge \/ NotInvertible \/ Solve
  \/ Down \/ Bottom \/ Up \/ ReducePass \/ ReduceEnds \/ Return \/ Retry

ntruSpec == Init /\ [][ntru_gen]_ntruVars

(***************************************************************************)
(* Properties                                                               *)
(***************************************************************************)

(* t[0] + ... + t[m - 1] *)
Total(t, m) ==
  LET sum[k \in 0 .. m] == IF k = 0 THEN 0 ELSE sum[k - 1] + t[k - 1] IN sum[m]

(* The product modulo x^m + 1, term by term. *)
Product(a, b) ==
  LET m == Size(a) IN
  [i \in 0 .. m - 1 |->
     Total([j \in 0 .. m - 1 |-> IF j <= i THEN a[j] * b[i - j] ELSE -a[j] * b[m + i - j]], m)]

(* ntru_solve has the equation f*G - g*F = q hold at every level on the way *)
(* up, whatever quotients the passes of reduce() take: karatsuba(), the     *)
(* field norm, the lift and the conjugates fit together.                    *)
NtruEquation ==
  pc \in {"up", "reduce", "returned"} =>
    \A i \in DOMAIN F :
      Product(Last(fs), G)[i] - Product(Last(gs), F)[i] = (IF i = 0 THEN q ELSE 0)

(* ntru_solve gives up on f and g only if there is nothing to solve: some   *)
(* prime divides the norms of both.                                         *)
GivesUpRightly ==
  pc = "ValueError" =>
    \/ Last(fs)[0] = 0 /\ Last(gs)[0] # 1
    \/ \E p \in 2 .. Max({2, Abs(Last(fs)[0]), Abs(Last(gs)[0])}) :
         Last(fs)[0] % p = 0 /\ Last(gs)[0] % p = 0

(* Whatever ntru_gen draws, ntru_solve either solves it, on every level, or *)
(* there was nothing to solve (ntrugen.py).                                 *)
SolvesRightly == NtruEquation /\ GivesUpRightly

=============================================================================
