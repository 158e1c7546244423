------------------------------ MODULE Vectors ------------------------------
(***************************************************************************)
(* The scripts that generate the Solidity tests from the Python signer, as  *)
(* `make generate_test_vectors` runs them.  Every script but the first      *)
(* imports the first for its messages, which runs it: its files are written *)
(* again.  Each run of a script reads the salts and seeds of all its        *)
(* signatures from one SHAKE stream of its own.  A run may be killed, and   *)
(* make started again; what an open file had buffered is then lost.         *)
(***************************************************************************)
EXTENDS Contracts

CONSTANTS
  sk_h,                 (* the public polynomial of the key in the scripts  *)
  list_of_messages,
  Stream(_, _),         (* so many bytes of SHAKE(b'') from a position      *)
  KILLS, KILLED         (* bound: how many runs are killed, in which scripts *)

ASSUME VectorsAssumption ==
  KILLS \in Nat /\ Len(sk_h) = n /\ list_of_messages \in Seq(Seq(0 .. 255))

VARIABLES
  disk,                 (* the test files                                   *)
  script,               (* which script of the makefile runs                *)
  importing,            (* its import of the first script runs              *)
  file, vector,         (* the indices of its loops                         *)
  read,                 (* how much of its stream is read                   *)
  signing,              (* the salt of the signature being made, or << >>   *)
  open,                 (* the files that are open                          *)
  kills,
  committed             (* history: each file as it was first completed     *)

makeVars == <<disk, script, importing, file, vector, read, signing, open, kills, committed>>

SEED_LEN == 56

Poly(f) == [i \in DOMAIN f |-> f[i] % q]

s1Of(sig) == Poly(One!decompress(ToBits(Rest(sig))).v)

PairOf(sig) == Two!decompress(ToBits(RestUpToInverse(sig))).v

FirstOf(sig) == Poly(SubSeq(PairOf(sig), 1, n))

SecondOf(sig) == Poly(SubSeq(PairOf(sig), n + 1, 2 * n))

Product(a) == FoldLeft(TimesModQ, 1, a)

Inverses(f) == [j \in 1 .. n |-> InverseModQ(ntt(f)[j])]

(* A vector: the call that the test makes, and what it asserts of it.       *)
Expect(answer, function, args) == [expected |-> answer, function |-> function, args |-> args]

(* The scripts.  Each has the class of its key, for each of its files the   *)
(* XOF, and makes a vector of a message m and its signature sig.            *)
File(name, xof) == [name |-> name, xof |-> xof]

generate_falcon_test_vectors ==
  [key |-> "falcon",
   files |-> <<File("ethfalcon", "KeccakPRNG"), File("falcon", "SHAKE"),
               File("zkfalcon", "Blake2sPRNG")>>]

(* A fault: the key is written as it is, not transformed.                   *)
falconVectorNoNtt(f, m, sig) ==
  Expect(<<"True">>, f.name, <<m, SaltOf(sig), falcon_compact(s1Of(sig)), falcon_compact(sk_h)>>)

falconVector(f, m, sig) ==
  Expect(<<"True">>, f.name, <<m, SaltOf(sig), falcon_compact(s1Of(sig)), falcon_compact(ntt(sk_h))>>)

generate_epervier_test_vectors ==
  [key |-> "epervier",
   files |-> <<File("ethepervier", "KeccakPRNG"), File("epervier", "SHAKE")>>]

epervierVector(f, m, sig) ==
  Expect(Address(ntt(sk_h)), f.name,
         <<m, SaltOf(sig), falcon_compact(FirstOf(sig)), falcon_compact(SecondOf(sig)),
           InverseModQ(Product(ntt(SecondOf(sig))))>>)

generate_hashtopoint_test_vectors ==
  [key |-> "none",
   files |-> <<File("hashToPointRIP", "KeccakPRNG"), File("hashToPointNIST", "SHAKE"),
               File("hashToPointZK", "Blake2sPRNG")>>]

hashVector(f, m, salt) == Expect(hash_to_point(m, salt, f.xof), f.name, <<salt, m>>)

generate_delegate == [key |-> "falcon", files |-> <<File("delegate", "KeccakPRNG")>>]

(* A call of ethfalcon, and the digest of a transaction with that data.      *)
delegateVector(f, m, sig) ==
  Expect(<<"True">>, "ethfalcon",
         <<m, SaltOf(sig), falcon_compact(s1Of(sig)), falcon_compact(ntt(sk_h))>>)

generate_shorter == [key |-> "recovery", files |-> <<File("falconrec_shorter", "KeccakPRNG")>>]

shorterVector(f, m, sig) ==
  Expect(Address(sk_h), f.name,
         <<m, SaltOf(sig), FirstOf(sig), SecondOf(sig), InverseModQ(Product(ntt(SecondOf(sig))))>>)

generate_deprecated_falcon ==
  [key |-> "falcon",
   files |-> <<File("falcon_old", "KeccakPRNG"), File("falcon_old_tetration", "KeccaXOF")>>]

oldVector(f, m, sig) ==
  Expect(<<"True">>, "falcon_old",
         <<m, SaltOf(sig), s1Of(sig), sk_h, f.xof = "KeccakPRNG">>)

generate_deprecated_recovery ==
  [key |-> "recovery",
   files |-> <<File("falconrec", "KeccakPRNG"), File("falconrec_tetration", "KeccaXOF")>>]

recoveryVector(f, m, sig) ==
  Expect(Address(sk_h), "falconrec",
         <<m, SaltOf(sig), FirstOf(sig), SecondOf(sig), Inverses(SecondOf(sig)),
           f.xof = "KeccakPRNG">>)

generate_deprecated_epervier ==
  [key |-> "epervier",
   files |-> <<File("epervier_old", "KeccakPRNG"), File("epervier_old_tetration", "KeccaXOF")>>]

oldEpervierVector(f, m, sig) ==
  Expect(Address(ntt(sk_h)), "falcon_epervier",
         <<m, SaltOf(sig), FirstOf(sig), SecondOf(sig), Inverses(SecondOf(sig)),
           f.xof = "KeccakPRNG">>)

generate_falcon_core ==
  [key |-> "falcon", files |-> <<File("ethfalcon_core", "KeccakPRNG"), File("falcon_core", "SHAKE")>>]

coreVector(f, m, sig) ==
  Expect(<<"True">>, "falcon_core",
         <<falcon_compact(s1Of(sig)), falcon_compact(ntt(sk_h)), hash_to_point(m, SaltOf(sig), f.xof)>>)

(* The makefile. *)
generate_test_vectors ==
  <<generate_falcon_test_vectors, generate_epervier_test_vectors,
    generate_hashtopoint_test_vectors, generate_delegate, generate_shorter,
    generate_deprecated_falcon, generate_deprecated_recovery, generate_deprecated_epervier,
    generate_falcon_core>>

Vector(k, f, m, sig) ==
  CASE k = 1 -> falconVector(f, m, sig)
    [] k = 2 -> epervierVector(f, m, sig)
    [] k = 3 -> hashVector(f, m, sig)
    [] k = 4 -> delegateVector(f, m, sig)
    [] k = 5 -> shorterVector(f, m, sig)
    [] k = 6 -> oldVector(f, m, sig)
    [] k = 7 -> recoveryVector(f, m, sig)
    [] k = 8 -> oldEpervierVector(f, m, sig)
    [] k = 9 -> coreVector(f, m, sig)

(***************************************************************************)
(* A run of the makefile.                                                   *)
(***************************************************************************)
Names == UNION {{f.name : f \in ToSet(s.files)} : s \in ToSet(generate_test_vectors)}

Empty == [vectors |-> << >>, done |-> FALSE]

MADE == Len(generate_test_vectors) + 1

MakeInit ==
  /\ disk = [f \in Names |-> Empty] /\ committed = [f \in Names |-> Empty]
  /\ script = 1 /\ importing = FALSE
  /\ file = 1 /\ vector = 0 /\ read = 0 /\ signing = << >> /\ open = {}
  /\ kills = 0

(* The script whose statements run, and the file that it writes.            *)
Running == IF importing THEN 1 ELSE script

Script == generate_test_vectors[Running]

Writing == Script.files[file]

InLoop == script \in 1 .. MADE - 1 /\ file <= Len(Script.files)

(* open(.., 'w') truncates; the file that the variable held is closed.      *)
OpenFile ==
  /\ InLoop /\ vector = 0
  /\ disk' = [disk EXCEPT ![Writing.name] = Empty]
  /\ open' = (open \ {f.name : f \in ToSet(Script.files)}) \cup {Writing.name}
  /\ vector' = 1
  /\ UNCHANGED <<script, importing, file, read, signing, kills, committed>>

InVector == InLoop /\ vector \in DOMAIN list_of_messages

Write(v) ==
  /\ disk' = [disk EXCEPT ![Writing.name].vectors = Append(@, v)]
  /\ vector' = vector + 1
  /\ UNCHANGED <<script, importing, file, open, kills, committed>>

(* A fault: the salt is from the system, and may be another one.            *)
ReadSaltUrandom ==
  /\ InVector /\ signing = << >> /\ Script.key # "none"
  /\ \E position \in {read, read + 1} : signing' = Stream(position, SALT_LEN)
  /\ read' = read + SALT_LEN
  /\ UNCHANGED <<disk, script, importing, file, vector, open, kills, committed>>

(* A salt is read: to sign with, or to hash with. *)
ReadSalt ==
  /\ InVector /\ signing = << >> /\ Script.key # "none"
  /\ signing' = Stream(read, SALT_LEN)
  /\ read' = read + SALT_LEN
  /\ UNCHANGED <<disk, script, importing, file, vector, open, kills, committed>>

WriteHash ==
  /\ InVector /\ Script.key = "none"
  /\ Write(Vector(script, Writing, list_of_messages[vector], Stream(read, SALT_LEN)))
  /\ read' = read + SALT_LEN
  /\ UNCHANGED signing

Signable(key, s0, s1) ==
  /\ Short(s0, s1)
  /\ IF key = "falcon" THEN One!Fits(s1) ELSE Invertible(ntt(s1)) /\ Two!Fits(s0 \o s1)

SignatureWith(key, salt, s0, s1) ==
  IF key = "falcon" THEN SignatureOf(salt, s1) ELSE SignatureOfPair(salt, s0, s1)

(* What a script asserts before it writes. *)
Asserted(key, xof, m, sig) ==
  CASE key = "falcon" -> verify(sk_h, m, sig, xof) = <<"True">>
    [] key = "recovery" -> recover(m, sig, xof) = Address(sk_h)
    [] key = "epervier" -> recoverEpervier(m, sig, xof) = Address(ntt(sk_h))

Stop ==
  /\ script' = 0 /\ importing' = FALSE /\ open' = {} /\ signing' = << >>
  /\ UNCHANGED <<file, vector, read, committed>>

(* A fault: signing starts over with its stream at its beginning.           *)
AttemptStartsOver ==
  /\ InVector /\ signing # << >>
  /\ \E point \in {hash_to_point(list_of_messages[vector], signing, Writing.xof)} :
     \E s1 \in {Preimage(sk_h, point, Stream(read, SEED_LEN))} :
     \E s0 \in {Centred(Minus(point, Times(s1, sk_h)))} :
       IF ~Signable(Script.key, s0, s1)
       THEN /\ read' = 0 /\ signing' = << >>
            /\ UNCHANGED <<disk, script, importing, file, vector, open, kills, committed>>
       ELSE \E sig \in {SignatureWith(Script.key, signing, s0, s1)} :
              IF Asserted(Script.key, Writing.xof, list_of_messages[vector], sig)
              THEN /\ Write(Vector(Running, Writing, list_of_messages[vector], sig))
                   /\ read' = read + SEED_LEN
                   /\ signing' = << >>
              ELSE Stop /\ UNCHANGED <<disk, kills>>

(* A pass of the loop of sign().  If it is the last, the signature is       *)
(* asserted, and a vector written; if not, more of the stream is read.      *)
Attempt ==
  /\ InVector /\ signing # << >>
  /\ \E point \in {hash_to_point(list_of_messages[vector], signing, Writing.xof)} :
     \E s1 \in {Preimage(sk_h, point, Stream(read, SEED_LEN))} :
     \E s0 \in {Centred(Minus(point, Times(s1, sk_h)))} :
       IF ~Signable(Script.key, s0, s1)
       THEN /\ read' = read + SEED_LEN
            /\ UNCHANGED <<disk, script, importing, file, vector, signing, open, kills, committed>>
       ELSE \E sig \in {SignatureWith(Script.key, signing, s0, s1)} :
              IF Asserted(Script.key, Writing.xof, list_of_messages[vector], sig)
              THEN /\ Write(Vector(Running, Writing, list_of_messages[vector], sig))
                   /\ read' = read + SEED_LEN
                   /\ signing' = << >>
              ELSE Stop /\ UNCHANGED <<disk, kills>>

(* The last line of a file; the file is still open.                         *)
EndFile ==
  /\ InLoop /\ vector > Len(list_of_messages)
  /\ disk' = [disk EXCEPT ![Writing.name].done = TRUE]
  /\ committed' = [committed EXCEPT ![Writing.name] = IF @.done THEN @ ELSE disk'[Writing.name]]
  /\ file' = file + 1 /\ vector' = 0
  /\ UNCHANGED <<script, importing, read, signing, open, kills>>

(* The script goes on after its import, with a stream of its own; or it     *)
(* exits, and the next one begins, with its import.                         *)
EndScript ==
  /\ script \in 1 .. MADE - 1 /\ file > Len(Script.files)
  /\ file' = 1 /\ read' = 0
  /\ IF importing
     THEN importing' = FALSE /\ UNCHANGED <<script, open>>
     ELSE /\ script' = script + 1
          /\ importing' = (script + 1 < MADE)
          /\ open' = {}
  /\ UNCHANGED <<disk, vector, signing, kills, committed>>

(* The process is killed: of each open file only some of what was written   *)
(* is on the disk.  Make stops, and may be started again.                   *)
Kill ==
  /\ kills < KILLS /\ script \in KILLED
  /\ kills' = kills + 1
  /\ \E flushed \in [open -> 0 .. Len(list_of_messages)] :
       /\ \A f \in open : flushed[f] <= Len(disk[f].vectors)
       /\ disk' = [f \in Names |->
                     IF f \notin open THEN disk[f]
                     ELSE [vectors |-> SubSeq(disk[f].vectors, 1, flushed[f]), done |-> FALSE]]
  /\ Stop

Again ==
  /\ script = 0
  /\ script' = 1 /\ file' = 1 /\ vector' = 0 /\ read' = 0
  /\ UNCHANGED <<disk, importing, signing, open, kills, committed>>

MakeNext ==
  OpenFile \/ ReadSalt \/ WriteHash \/ Attempt \/ EndFile \/ EndScript \/ Kill \/ Again

MakeSpec == MakeInit /\ [][MakeNext]_makeVars

(***************************************************************************)
(* Properties                                                               *)
(***************************************************************************)

(* What the contract answers in a test. *)
AnswerOf(function, a) ==
  CASE function = "falcon" -> falcon_verify(a[1], a[2], a[3], a[4])
    [] function = "ethfalcon" -> ethfalcon_verify(a[1], a[2], a[3], a[4])
    [] function = "falcon_old" -> falcon_old_verify(a[1], a[2], a[3], a[4], a[5])
    [] function = "falcon_core" -> Bool(falcon_core(a[1], a[2], a[3]))
    [] function = "epervier" -> epervier_recover(a[1], a[2], a[3], a[4], a[5])
    [] function = "ethepervier" -> ethepervier_recover(a[1], a[2], a[3], a[4], a[5])
    [] function = "falconrec" -> falconrec_recover(a[1], a[2], a[3], a[4], a[5], a[6])
    [] function = "falconrec_shorter" -> falconrec_shorter_recover(a[1], a[2], a[3], a[4], a[5])
    [] function = "falcon_epervier" -> falcon_epervier_recover(a[1], a[2], a[3], a[4], a[5], a[6])
    [] function = "hashToPointRIP" -> hashToPointRIP(a[1], a[2])
    [] function = "hashToPointNIST" -> hashToPointNIST(a[1], a[2])

(* The files for Blake2s, which no contract computes, are not run.          *)
Tests == Names \ {"zkfalcon", "hashToPointZK"}

(* Once make has ended every test file is complete, and every contract      *)
(* answers what the test of the Python signature asserts.                   *)
TestsPass ==
  script = MADE =>
    \A f \in Tests :
      /\ disk[f].done /\ Len(disk[f].vectors) = Len(list_of_messages)
      /\ \A v \in ToSet(disk[f].vectors) : AnswerOf(v.function, v.args) = v.expected

(* However often a file is written, by its script, by the imports of the    *)
(* first script and after a kill, when complete it is always the same.      *)
Reproducible == \A f \in Names : disk[f].done => disk[f] = committed[f]

(* Make ends, though signing may have to be repeated and runs are killed.   *)
MakeEnds == <>[](script = MADE /\ \A f \in Names : disk[f].done)

=============================================================================
