------------------------------ MODULE MCFalcon ------------------------------
(* A small instance for TLC of everything that signs and verifies: Falcon   *)
(* itself, the scripts that make the tests of the contracts, and the        *)
(* command line tool, one of them at a time.  x^2 + 1 modulo 12289.         *)
EXTENDS Falcon, Vectors, SignCli

VARIABLE session

MCKeys == {<<60, 93>>}

MCMessage == {<<0>>, <<1, 3>>}

MCSalt == {[i \in 1 .. SALT_LEN |-> 5 * i]}

Mixed(start, factor, data, modulus) ==
  FoldLeft(LAMBDA a, b : (factor * a + b + 1) % modulus, start, data)

MCHash(x, data) ==
  LET start == CASE x = "SHAKE" -> 1 [] x = "KeccakPRNG" -> 2 [] x = "Blake2sPRNG" -> 4 [] OTHER -> 9
  IN  [k \in 1 .. n |-> Mixed(start + k, 1000 + 37 * k, data, q)]

MCBlake2s(r) == [i \in 1 .. 32 |-> (r[i] + r[i + 1]) % 256]

(* The point of <<5>> as ethfalcon signs it has a preimage <<133, 162>>,    *)
(* <<98, -219>>, whose squared norm is the bound itself.                    *)
MCPointAtBound == <<1802, 8425>>

(* The nearest point of the lattice, or one beside it; far off for some     *)
(* seeds.                                                                   *)
MCPreimage(key, point, seed) ==
  IF key = <<60, 93>> /\ point = MCPointAtBound THEN <<98, -219>>
  ELSE
  LET c == Centred(point)
      N == key[1] * key[1] + key[2] * key[2]
      Round(u) == (2 * u + N) \div (2 * N)
      e == <<<<0, 0>>, <<1, 0>>, <<4, 4>>, <<0, -1>>, <<-1, 0>>>>[((seed[1] + seed[7]) % 5) + 1]
  IN  <<Round(c[1] * key[1] + c[2] * key[2]) + e[1], Round(c[2] * key[1] - c[1] * key[2]) + e[2]>>

(* The nearest ones, one that has no inverse, and one that is too long.     *)
MCSampled ==
  {MCPreimage(key, hash_to_point(m, r, x), [i \in 1 .. 56 |-> 0]) :
     key \in MCKeys, m \in MCMessage, r \in MCSalt, x \in Xof}
    \cup {<<0, 0>>, <<300, 180>>}

MCSecretKeys == {<<60, 93>>, <<101, 45>>}

MCKey == <<60, 93>>

MCMessages == <<<<3, 1>>, <<2, 5>>>>

MCData == {<<5>>, <<2, 3>>}

MCStream(from, length) == [i \in 1 .. length |-> ((from + i) * (5 * (from + i) + 7)) % 251]

MCPermuted(whole, i) == (Mixed(i, 61, whole, 9973) * (i + 5)) % 256

AllInit ==
  /\ Init /\ MakeInit /\ CliInit
  /\ session \in (IF variant = "falcon" THEN {"falcon", "make", "cli"} ELSE {"falcon"})

Sign == session = "falcon" /\ Next /\ UNCHANGED <<makeVars, cliVars, session>>

Make == session = "make" /\ MakeNext /\ UNCHANGED <<vars, cliVars, session>>

Cli == session = "cli" /\ CliNext /\ UNCHANGED <<vars, makeVars, session>>

AllNext == Sign \/ Make \/ Cli

(* Make goes on, and is started again, until it is done; the rest comes as  *)
(* it pleases.  This is WF_makeVars(Make), with what enables Make written   *)
(* out, which is quicker to check than ENABLED.                             *)
MakeGoesOn == []<>(session # "make" \/ script = MADE) \/ []<><<TRUE>>_makeVars

AllSpec == AllInit /\ [][AllNext]_<<vars, makeVars, cliVars, session>> /\ MakeGoesOn

(* Make ends, though signing may have to be repeated and runs are killed.   *)
MakeSessionEnds == session = "make" => MakeEnds

=============================================================================
