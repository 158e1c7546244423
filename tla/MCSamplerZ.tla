----------------------------- MODULE MCSamplerZ -----------------------------
(* A small instance of SamplerZ, with Rng, for TLC. *)
EXTENDS SamplerZ

MCCentres == {<<0, 1>>, <<3, 4>>}

MCDeviations == {<<46, 27>>, <<23, 18>>}

MCsigmin == <<1277, 1000>>

(* At and below an entry of the table, and the least. *)
MCDraws == {RCDT[1], WideMinus(RCDT[3], <<1>>), <<0>>}

=============================================================================
