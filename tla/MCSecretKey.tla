---------------------------- MODULE MCSecretKey ----------------------------
(* A small instance of SecretKey for TLC: degree 4, modulus 17. *)
EXTENDS SecretKey

MCUnit == <<2309, 3323>>

Poly(seq) == [i \in 0 .. n - 1 |-> seq[i + 1]]

(* Pairs that can be solved, one that cannot, one with f not invertible.    *)
MCShort ==
  {<<Poly(fg[1]), Poly(fg[2])>> : fg \in
     {<<<<1, 1, 0, 0>>, <<1, 0, -1, 1>>>>, <<<<2, -1, 0, 1>>, <<1, 1, 1, 0>>>>,
      <<<<1, 1, 1, 0>>, <<0, 1, 1, 1>>>>, <<<<0, 1, -1, 1>>, <<1, -1, 2, 0>>>>,
      <<<<1, 1, 0, 0>>, <<1, -1, 0, 0>>>>, <<<<2, 1, 0, 0>>, <<1, 0, 1, 1>>>>}}

MCQuotients == {0, 1}

MCPoints == {Poly(<<3, 0, 16, 5>>), Poly(<<0, 1, 0, 0>>)}

MCTapes == {<<0, 0, 0, 0, 0, 0, 0, 0>>, <<1, 0, -1, 2, 0, 1, -2, 1>>}

=============================================================================
