--------------------------- MODULE VectorsProofs ---------------------------
(***************************************************************************)
(* That the test vectors can be made again: whatever else runs, however     *)
(* often, and whenever runs are killed, a file that is complete holds what  *)
(* it held when it was first complete.  Every choice that a script makes    *)
(* follows from its stream; for any ring, hash, sampler and stream.         *)
(***************************************************************************)
EXTENDS Vectors, WellFoundedInduction, TLAPS

(***************************************************************************)
(* The run of a script by itself: where it is in its loops and its stream,  *)
(* and the vectors that it has made for its file.                           *)
(***************************************************************************)
FilesOf(k) == generate_test_vectors[k].files

KeyOf(k) == generate_test_vectors[k].key

State(f, v, r, salt, made) ==
  [file |-> f, vector |-> v, read |-> r, signing |-> salt, made |-> made]

Start == State(1, 0, 0, << >>, << >>)

AfterAttempt(k, c) ==
  LET f == FilesOf(k)[c.file]
      m == list_of_messages[c.vector]
      point == hash_to_point(m, c.signing, f.xof)
      s1 == Preimage(sk_h, point, Stream(c.read, SEED_LEN))
      s0 == Centred(Minus(point, Times(s1, sk_h)))
      sig == SignatureWith(KeyOf(k), c.signing, s0, s1)
  IN  IF ~Signable(KeyOf(k), s0, s1)
      THEN State(c.file, c.vector, c.read + SEED_LEN, c.signing, c.made)
      ELSE State(c.file, c.vector + 1, c.read + SEED_LEN, << >>,
                 Append(c.made, Vector(k, f, m, sig)))

AfterHash(k, c) ==
  LET v == Vector(k, FilesOf(k)[c.file], list_of_messages[c.vector], Stream(c.read, SALT_LEN))
  IN  State(c.file, c.vector + 1, c.read + SALT_LEN, c.signing, Append(c.made, v))

After(k, c) ==
  IF c.vector = 0 THEN State(c.file, 1, c.read, c.signing, << >>)
  ELSE IF c.vector > Len(list_of_messages) THEN State(c.file + 1, 0, c.read, c.signing, << >>)
  ELSE IF KeyOf(k) = "none" THEN AfterHash(k, c)
  ELSE IF c.signing = << >>
  THEN State(c.file, c.vector, c.read + SALT_LEN, Stream(c.read, SALT_LEN), c.made)
  ELSE AfterAttempt(k, c)

(* t is what script k does in its first m steps. *)
IsRun(k, t, m) ==
  /\ t[0] = Start
  /\ \A i \in 0 .. m - 1 : t[i + 1] = After(k, t[i])

(* Script k comes to c. *)
ComesTo(k, c) == \E m \in Nat : \E t : IsRun(k, t, m) /\ t[m] = c

(* Every set of numbers has a least one: what stands in for induction.      *)
Less == {w \in Nat \X Nat : w[1] < w[2]}

LEMMA Least ==
  ASSUME NEW T, T \subseteq Nat, T # {}
  PROVE  \E k \in T : \A l \in T : k <= l
<1>1. IsWellFoundedOn(Less, Nat)
  BY NatLessThanWellFounded DEF OpToRel, Less
<1>2. PICK k \in T : \A l \in T : ~ (<<l, k>> \in Less)
  BY <1>1, WFMin
<1>3. ASSUME NEW l \in T
      PROVE  k <= l
  <2>1. k \in Nat /\ l \in Nat /\ ~ (<<l, k>> \in Less)
    BY <1>2
  <2>2. ~ (l < k)
    BY <2>1 DEF Less
  <2>3. QED
    BY <2>1, <2>2
<1>4. QED
  BY <1>2, <1>3

LEMMA RunStarts ==
  ASSUME NEW k
  PROVE  ComesTo(k, Start)
<1> DEFINE t == [i \in {0} |-> Start]
<1>1. t[0] = Start /\ 0 \in Nat
  OBVIOUS
<1>2. \A i \in 0 .. 0 - 1 : t[i + 1] = After(k, t[i])
  OBVIOUS
<1>3. QED
  BY <1>1, <1>2 DEF ComesTo, IsRun

LEMMA RunGoesOn ==
  ASSUME NEW k, NEW c, ComesTo(k, c)
  PROVE  ComesTo(k, After(k, c))
<1>a. PICK m \in Nat : \E t : IsRun(k, t, m) /\ t[m] = c
  BY DEF ComesTo
<1>1. PICK t : IsRun(k, t, m) /\ t[m] = c
  BY <1>a
<1> DEFINE s == [i \in 0 .. m + 1 |-> IF i = m + 1 THEN After(k, c) ELSE t[i]]
<1>2. m + 1 \in Nat /\ s[m + 1] = After(k, c) /\ \A i \in 0 .. m : s[i] = t[i]
  OBVIOUS
<1>3. s[0] = Start
  BY <1>1, <1>2 DEF IsRun
<1> HIDE DEF s
<1>4. ASSUME NEW i \in 0 .. m + 1 - 1
      PROVE  s[i + 1] = After(k, s[i])
  <2>1. CASE i = m
    BY <1>1, <1>2, <2>1
  <2>2. CASE i # m
    <3>1. i \in 0 .. m - 1 /\ i \in 0 .. m /\ i + 1 \in 0 .. m
      BY <2>2
    <3>2. t[i + 1] = After(k, t[i])
      BY <1>1, <3>1 DEF IsRun
    <3>3. QED
      BY <1>2, <3>1, <3>2
  <2>3. QED
    BY <2>1, <2>2
<1>5. QED
  BY <1>2, <1>3, <1>4 DEF ComesTo, IsRun

(* Two runs of a script do the same, as far as both go. *)
LEMMA SameRun ==
  ASSUME NEW k, NEW m \in Nat, NEW l \in Nat, m <= l, NEW t, NEW s,
         IsRun(k, t, m), IsRun(k, s, l)
  PROVE  t[m] = s[m]
<1> DEFINE Differ == {i \in 0 .. m : t[i] # s[i]}
<1>1. SUFFICES ASSUME Differ # {} PROVE FALSE
  OBVIOUS
<1>2. PICK i \in Differ : \A j \in Differ : i <= j
  <2>1. Differ \subseteq Nat
    OBVIOUS
  <2>2. QED
    BY <1>1, <2>1, Least
<1>3. i # 0
  BY <1>2 DEF IsRun
<1>4. PICK j \in 0 .. m - 1 : i = j + 1
  <2>1. i - 1 \in 0 .. m - 1 /\ i = (i - 1) + 1
    BY <1>2, <1>3
  <2>2. QED
    BY <2>1
<1>5. t[j] = s[j]
  <2>1. j \in 0 .. m /\ ~ (i <= j)
    BY <1>4
  <2>2. QED
    BY <1>2, <2>1
<1>6. t[j + 1] = After(k, t[j]) /\ s[j + 1] = After(k, s[j])
  <2>1. j \in 0 .. l - 1
    OBVIOUS
  <2>2. QED
    BY <2>1 DEF IsRun
<1>7. QED
  BY <1>2, <1>4, <1>5, <1>6

(* The files are written one after the other. *)
LEMMA AfterFile ==
  ASSUME NEW k, NEW c
  PROVE  /\ After(k, c).file = c.file \/ After(k, c).file = c.file + 1
         /\ c.vector > Len(list_of_messages) => After(k, c).file = c.file + 1
<1>1. ASSUME c.vector = 0
      PROVE  ~ (c.vector > Len(list_of_messages))
  BY <1>1, VectorsAssumption DEF VectorsAssumption
<1>2. QED
  BY <1>1 DEF After, AfterAttempt, AfterHash, State

LEMMA FilesInOrder ==
  ASSUME NEW k, NEW m \in Nat, NEW t, IsRun(k, t, m), NEW i \in 0 .. m
  PROVE  t[i].file \in Nat \ {0} /\ t[i].file <= t[m].file
<1>1. ASSUME NEW j \in 0 .. m - 1
      PROVE  t[j + 1].file = t[j].file \/ t[j + 1].file = t[j].file + 1
  BY AfterFile DEF IsRun
<1>2. \A j \in 0 .. m : t[j].file \in Nat \ {0}
  <2> DEFINE Fails == {j \in 0 .. m : t[j].file \notin Nat \ {0}}
  <2>1. SUFFICES ASSUME Fails # {} PROVE FALSE
    OBVIOUS
  <2>2. PICK j \in Fails : \A l \in Fails : j <= l
    <3>1. Fails \subseteq Nat
      OBVIOUS
    <3>2. QED
      BY <2>1, <3>1, Least
  <2>3. j # 0
    BY <2>2 DEF IsRun, Start, State
  <2>4. PICK l \in 0 .. m - 1 : j = l + 1
    <3>1. j - 1 \in 0 .. m - 1 /\ j = (j - 1) + 1
      BY <2>2, <2>3
    <3>2. QED
      BY <3>1
  <2>5. t[l].file \in Nat \ {0}
    <3>1. l \in 0 .. m /\ ~ (j <= l)
      BY <2>4
    <3>2. QED
      BY <2>2, <3>1
  <2>6. QED
    BY <1>1, <2>2, <2>4, <2>5
<1>3. \A j \in i .. m : t[i].file <= t[j].file
  <2> DEFINE Fails == {j \in i .. m : ~ (t[i].file <= t[j].file)}
  <2>1. SUFFICES ASSUME Fails # {} PROVE FALSE
    OBVIOUS
  <2>2. PICK j \in Fails : \A l \in Fails : j <= l
    <3>1. Fails \subseteq Nat
      OBVIOUS
    <3>2. QED
      BY <2>1, <3>1, Least
  <2>3. j # i
    BY <1>2, <2>2
  <2>4. PICK l \in i .. m - 1 : j = l + 1
    <3>1. j - 1 \in i .. m - 1 /\ j = (j - 1) + 1
      BY <2>2, <2>3
    <3>2. QED
      BY <3>1
  <2>5. t[i].file <= t[l].file
    <3>1. l \in i .. m /\ ~ (j <= l)
      BY <2>4
    <3>2. QED
      BY <2>2, <3>1
  <2>6. l \in 0 .. m - 1 /\ l \in 0 .. m /\ i \in 0 .. m
    OBVIOUS
  <2>7. t[i].file \in Nat /\ t[l].file \in Nat
    BY <1>2, <2>6
  <2>8. t[j].file = t[l].file \/ t[j].file = t[l].file + 1
    BY <1>1, <2>4, <2>6
  <2>9. QED
    BY <2>2, <2>5, <2>7, <2>8
<1>4. QED
  BY <1>2, <1>3

(* A script comes to the end of a file once. *)
AtEnd(c) == c.vector > Len(list_of_messages)

LEMMA EndsOnce ==
  ASSUME NEW k, NEW m \in Nat, NEW t, IsRun(k, t, m),
         NEW l \in Nat, NEW s, IsRun(k, s, l),
         t[m].file = s[l].file, AtEnd(t[m]), m <= l
  PROVE  m = l
<1>1. SUFFICES ASSUME m < l PROVE FALSE
  OBVIOUS
<1>2. t[m] = s[m]
  BY SameRun
<1>3. m \in 0 .. l - 1 /\ m \in 0 .. l /\ m + 1 \in 0 .. l
  BY <1>1
<1>4. s[m + 1].file = s[m].file + 1
  BY <1>2, <1>3, AfterFile DEF IsRun, AtEnd
<1>5. s[m].file \in Nat /\ s[m + 1].file <= s[l].file
  BY <1>3, FilesInOrder
<1>6. QED
  BY <1>2, <1>4, <1>5

LEMMA OneEnd ==
  ASSUME NEW k, NEW c, NEW d, ComesTo(k, c), ComesTo(k, d),
         c.file = d.file, AtEnd(c), AtEnd(d)
  PROVE  c = d
<1>a. PICK m \in Nat : \E t : IsRun(k, t, m) /\ t[m] = c
  BY DEF ComesTo
<1>1. PICK t : IsRun(k, t, m) /\ t[m] = c
  BY <1>a
<1>b. PICK l \in Nat : \E s : IsRun(k, s, l) /\ s[l] = d
  BY DEF ComesTo
<1>2. PICK s : IsRun(k, s, l) /\ s[l] = d
  BY <1>b
<1>3. CASE m <= l
  <2>1. m = l
    BY <1>1, <1>2, <1>3, EndsOnce
  <2>2. QED
    BY <1>1, <1>2, <1>3, <2>1, SameRun
<1>4. CASE l <= m
  <2>1. m = l
    BY <1>1, <1>2, <1>4, EndsOnce
  <2>2. QED
    BY <1>1, <1>2, <1>4, <2>1, SameRun
<1>5. QED
  BY <1>3, <1>4

(***************************************************************************)
(* The files of the scripts: the script and the number of each.             *)
(***************************************************************************)
ScriptOf(f) ==
  CASE f \in {"ethfalcon", "falcon", "zkfalcon"} -> 1
    [] f \in {"ethepervier", "epervier"} -> 2
    [] f \in {"hashToPointRIP", "hashToPointNIST", "hashToPointZK"} -> 3
    [] f = "delegate" -> 4
    [] f = "falconrec_shorter" -> 5
    [] f \in {"falcon_old", "falcon_old_tetration"} -> 6
    [] f \in {"falconrec", "falconrec_tetration"} -> 7
    [] f \in {"epervier_old", "epervier_old_tetration"} -> 8
    [] f \in {"ethfalcon_core", "falcon_core"} -> 9

PlaceOf(f) ==
  CASE f \in {"ethfalcon", "ethepervier", "hashToPointRIP", "delegate", "falconrec_shorter",
               "falcon_old", "falconrec", "epervier_old", "ethfalcon_core"} -> 1
    [] f \in {"falcon", "epervier", "hashToPointNIST", "falcon_old_tetration",
               "falconrec_tetration", "epervier_old_tetration", "falcon_core"} -> 2
    [] f \in {"zkfalcon", "hashToPointZK"} -> 3

LEMMA ScriptsAre ==
  /\ MADE = 10 /\ Len(generate_test_vectors) = 9
  /\ generate_test_vectors[1] = generate_falcon_test_vectors
  /\ generate_test_vectors[2] = generate_epervier_test_vectors
  /\ generate_test_vectors[3] = generate_hashtopoint_test_vectors
  /\ generate_test_vectors[4] = generate_delegate
  /\ generate_test_vectors[5] = generate_shorter
  /\ generate_test_vectors[6] = generate_deprecated_falcon
  /\ generate_test_vectors[7] = generate_deprecated_recovery
  /\ generate_test_vectors[8] = generate_deprecated_epervier
  /\ generate_test_vectors[9] = generate_falcon_core
BY DEF generate_test_vectors, MADE

LEMMA FilesAre ==
  ASSUME NEW k \in 1 .. 9
  PROVE  /\ Len(FilesOf(k)) \in Nat /\ DOMAIN FilesOf(k) = 1 .. Len(FilesOf(k))
         /\ \A i \in 1 .. Len(FilesOf(k)) :
              ScriptOf(FilesOf(k)[i].name) = k /\ PlaceOf(FilesOf(k)[i].name) = i
         /\ KeyOf(k) = "none" <=> k = 3
<1>1. CASE k = 1
  BY <1>1, ScriptsAre DEF FilesOf, KeyOf, ScriptOf, PlaceOf, File, generate_falcon_test_vectors
<1>2. CASE k = 2
  BY <1>2, ScriptsAre DEF FilesOf, KeyOf, ScriptOf, PlaceOf, File, generate_epervier_test_vectors
<1>3. CASE k = 3
  BY <1>3, ScriptsAre DEF FilesOf, KeyOf, ScriptOf, PlaceOf, File, generate_hashtopoint_test_vectors
<1>4. CASE k = 4
  BY <1>4, ScriptsAre DEF FilesOf, KeyOf, ScriptOf, PlaceOf, File, generate_delegate
<1>5. CASE k = 5
  BY <1>5, ScriptsAre DEF FilesOf, KeyOf, ScriptOf, PlaceOf, File, generate_shorter
<1>6. CASE k = 6
  BY <1>6, ScriptsAre DEF FilesOf, KeyOf, ScriptOf, PlaceOf, File, generate_deprecated_falcon
<1>7. CASE k = 7
  BY <1>7, ScriptsAre DEF FilesOf, KeyOf, ScriptOf, PlaceOf, File, generate_deprecated_recovery
<1>8. CASE k = 8
  BY <1>8, ScriptsAre DEF FilesOf, KeyOf, ScriptOf, PlaceOf, File, generate_deprecated_epervier
<1>9. CASE k = 9
  BY <1>9, ScriptsAre DEF FilesOf, KeyOf, ScriptOf, PlaceOf, File, generate_falcon_core
<1>10. QED
  BY <1>1, <1>2, <1>3, <1>4, <1>5, <1>6, <1>7, <1>8, <1>9

LEMMA NamesAre ==
  ASSUME NEW k \in 1 .. 9, NEW i \in 1 .. Len(FilesOf(k))
  PROVE  FilesOf(k)[i].name \in Names
<1>1. generate_test_vectors[k] \in ToSet(generate_test_vectors)
  BY ScriptsAre DEF ToSet, generate_test_vectors
<1>2. FilesOf(k)[i] \in ToSet(FilesOf(k))
  BY FilesAre DEF ToSet
<1>3. QED
  BY <1>1, <1>2 DEF Names, FilesOf

(***************************************************************************)
(* The invariant                                                            *)
(***************************************************************************)
InMake == script \in 1 .. 9

Made == IF vector = 0 THEN << >> ELSE disk[Writing.name].vectors

Now == State(file, vector, read, signing, Made)

(* A complete file is what its script comes to at its end. *)
EndOf(r, f) ==
  r.done => \E k \in 1 .. 9 : \E c :
              /\ ComesTo(k, c) /\ AtEnd(c)
              /\ c.file \in 1 .. Len(FilesOf(k)) /\ FilesOf(k)[c.file].name = f
              /\ r.vectors = c.made

AreFiles(files) ==
  /\ files = [f \in Names |-> [vectors |-> files[f].vectors, done |-> files[f].done]]
  /\ \A f \in Names : files[f].done \in BOOLEAN

MakeTypes ==
  /\ script \in 0 .. 10 /\ importing \in BOOLEAN
  /\ file \in Nat \ {0} /\ vector \in Nat
  /\ AreFiles(disk) /\ AreFiles(committed)

(* No salt is left over, and no file is complete while it is written. *)
InItsPlace ==
  /\ script \in {0, 10} => importing = FALSE
  /\ script # 10 /\ (vector \notin 1 .. Len(list_of_messages) \/ KeyOf(Running) = "none" \/ ~InMake)
       => signing = << >>
  /\ InMake /\ file > Len(FilesOf(Running)) => vector = 0
  /\ InMake /\ vector # 0 => disk[Writing.name].done = FALSE

FilesKept ==
  /\ \A f \in Names : EndOf(committed[f], f)
  /\ \A f \in Names : disk[f].done => disk[f] = committed[f]

Making ==
  /\ MakeTypes /\ InItsPlace /\ FilesKept
  /\ InMake => ComesTo(Running, Now)

LEMMA MakeStarts ==
  ASSUME MakeInit
  PROVE  Making
<1>1. MakeTypes
  <2>1. ASSUME NEW files, files = [f \in Names |-> Empty]
        PROVE  AreFiles(files)
    BY <2>1 DEF AreFiles, Empty
  <2>2. AreFiles(disk) /\ AreFiles(committed)
    BY <2>1 DEF MakeInit
  <2>3. script = 1 /\ importing \in BOOLEAN /\ file = 1 /\ vector = 0
    BY DEF MakeInit
  <2>4. QED
    BY <2>2, <2>3 DEF MakeTypes
<1>2. FilesKept
  BY DEF MakeInit, FilesKept, EndOf, Empty
<1>3. Now = Start
  BY DEF MakeInit, Now, Made, Start
<1>4. InItsPlace
  BY ScriptsAre DEF MakeInit, InItsPlace, InMake
<1>5. QED
  BY <1>1, <1>2, <1>3, <1>4, RunStarts DEF Making

LEMMA Where ==
  ASSUME Making, InMake
  PROVE  /\ Running \in 1 .. 9
         /\ script \in 1 .. MADE - 1
         /\ Script.files = FilesOf(Running) /\ Script.key = KeyOf(Running)
         /\ DOMAIN list_of_messages = 1 .. Len(list_of_messages)
         /\ Len(list_of_messages) \in Nat
         /\ Len(FilesOf(Running)) \in Nat
         /\ InLoop => /\ file \in 1 .. Len(FilesOf(Running)) /\ Writing.name \in Names
                      /\ Writing = FilesOf(Running)[file]
<1>1. Running \in 1 .. 9 /\ script \in 1 .. MADE - 1 /\ file \in Nat \ {0}
  BY ScriptsAre DEF Making, MakeTypes, InMake, Running
<1>2. Script.files = FilesOf(Running) /\ Script.key = KeyOf(Running)
  BY DEF Script, FilesOf, KeyOf
<1>3. /\ DOMAIN list_of_messages = 1 .. Len(list_of_messages)
      /\ Len(list_of_messages) \in Nat
  BY VectorsAssumption DEF VectorsAssumption
<1>4. Len(FilesOf(Running)) \in Nat
  BY <1>1, FilesAre
<1>5. InLoop => file \in 1 .. Len(FilesOf(Running)) /\ Writing = FilesOf(Running)[file]
  BY <1>1, <1>2, <1>4 DEF InLoop, Writing
<1>6. InLoop => Writing.name \in Names
  BY <1>1, <1>5, NamesAre
<1>7. QED
  BY <1>1, <1>2, <1>3, <1>4, <1>5, <1>6

LEMMA InLoopIsInMake ==
  ASSUME InLoop
  PROVE  InMake
BY ScriptsAre DEF InLoop, InMake

(* What writing to a file does to the files. *)
LEMMA FileChanged ==
  ASSUME Making, NEW f \in Names, NEW vs, NEW done \in BOOLEAN, NEW r,
         r = [vectors |-> vs, done |-> done],
         disk' = [disk EXCEPT ![f] = r]
  PROVE  /\ AreFiles(disk') /\ disk'[f] = r
         /\ \A g \in Names \ {f} : disk'[g] = disk[g]
<1>1. AreFiles(disk)
  BY DEF Making, MakeTypes
<1>2. disk'[f] = r /\ \A g \in Names \ {f} : disk'[g] = disk[g]
  BY <1>1 DEF AreFiles
<1>3. DOMAIN disk' = Names /\ disk' = [g \in Names |-> disk'[g]]
  BY <1>1 DEF AreFiles
<1>4. \A g \in Names : disk'[g] = [vectors |-> disk'[g].vectors, done |-> disk'[g].done]
  <2>1. ASSUME NEW g \in Names
        PROVE  disk'[g] = [vectors |-> disk'[g].vectors, done |-> disk'[g].done]
    <3>1. CASE g = f
      BY <1>2, <3>1
    <3>2. CASE g # f
      BY <1>1, <1>2, <3>2 DEF AreFiles
    <3>3. QED
      BY <3>1, <3>2
  <2>2. QED
    BY <2>1
<1>5. \A g \in Names : disk'[g].done \in BOOLEAN
  BY <1>1, <1>2 DEF AreFiles
<1>6. QED
  BY <1>2, <1>3, <1>4, <1>5 DEF AreFiles

(***************************************************************************)
(* The steps.  Each is what its script does next.                           *)
(***************************************************************************)

(* A file is written, and its run goes on. *)
LEMMA RunGoesOnHere ==
  ASSUME Making, InMake, Running' = Running, Now' = After(Running, Now)
  PROVE  ComesTo(Running', Now')
BY RunGoesOn DEF Making

LEMMA OpenFileKeeps ==
  ASSUME Making, OpenFile
  PROVE  Making'
<1>1. InLoop /\ InMake /\ vector = 0
  BY InLoopIsInMake DEF OpenFile
<1> DEFINE f == Writing.name
<1>2. /\ disk' = [disk EXCEPT ![f] = Empty] /\ vector' = 1
      /\ script' = script /\ importing' = importing /\ file' = file /\ read' = read
      /\ signing' = signing /\ committed' = committed
  BY DEF OpenFile
<1>3. /\ Running \in 1 .. 9 /\ file \in 1 .. Len(FilesOf(Running)) /\ f \in Names
      /\ Writing = FilesOf(Running)[file] /\ Len(FilesOf(Running)) \in Nat
  BY <1>1, Where
<1>4. Running' = Running /\ Writing' = Writing /\ InMake' = InMake
  BY <1>2 DEF Running, Writing, Script, InMake
<1>5. /\ AreFiles(disk') /\ disk'[f] = Empty
      /\ \A g \in Names \ {f} : disk'[g] = disk[g]
  BY <1>2, <1>3, FileChanged DEF Empty
<1> HIDE DEF f
<1>6. MakeTypes'
  BY <1>2, <1>5 DEF Making, MakeTypes
<1>7. signing = << >>
  BY <1>1, ScriptsAre DEF Making, InItsPlace, InMake
<1>8. InItsPlace'
  <2>1. disk'[Writing'.name].done = FALSE
    BY <1>4, <1>5 DEF f, Empty
  <2>2. ~ (file' > Len(FilesOf(Running')))
    BY <1>2, <1>3, <1>4
  <2>3. QED
    BY <1>1, <1>2, <1>4, <1>7, <2>1, <2>2 DEF Making, InItsPlace, InMake
<1>9. FilesKept'
  BY <1>2, <1>5 DEF Making, FilesKept, Empty
<1>10. Now' = After(Running, Now)
  <2>1. Now = State(file, 0, read, signing, << >>)
    BY <1>1 DEF Now, Made
  <2>2. Now' = State(file, 1, read, signing, << >>)
    BY <1>2, <1>4, <1>5 DEF Now, Made, f, Empty
  <2>3. QED
    BY <2>1, <2>2 DEF After, State
<1>11. QED
  BY <1>1, <1>4, <1>6, <1>8, <1>9, <1>10, RunGoesOnHere DEF Making

LEMMA ReadSaltKeeps ==
  ASSUME Making, ReadSalt
  PROVE  Making'
<1>1. InLoop /\ InMake /\ vector \in DOMAIN list_of_messages /\ signing = << >> /\ Script.key # "none"
  BY InLoopIsInMake DEF ReadSalt, InVector
<1>2. /\ disk' = disk /\ vector' = vector /\ script' = script /\ importing' = importing
      /\ file' = file /\ read' = read + SALT_LEN /\ signing' = Stream(read, SALT_LEN)
      /\ committed' = committed
  BY DEF ReadSalt
<1>3. /\ KeyOf(Running) # "none" /\ vector \in 1 .. Len(list_of_messages)
      /\ Len(list_of_messages) \in Nat
  BY <1>1, Where
<1>4. Running' = Running /\ Writing' = Writing /\ InMake' = InMake
  BY <1>2 DEF Running, Writing, Script, InMake
<1>5. MakeTypes'
  BY <1>2 DEF Making, MakeTypes
<1>6. InItsPlace'
  BY <1>1, <1>2, <1>3, <1>4 DEF Making, InItsPlace
<1>7. FilesKept'
  BY <1>2 DEF Making, FilesKept
<1>8. Now' = After(Running, Now)
  <2>1. Now = State(file, vector, read, signing, Made) /\ Made' = Made
    BY <1>2, <1>4 DEF Now, Made
  <2>2. Now' = State(file, vector, read + SALT_LEN, Stream(read, SALT_LEN), Made)
    BY <1>2, <2>1 DEF Now
  <2>3. vector # 0 /\ ~ (vector > Len(list_of_messages))
    BY <1>3
  <2>4. QED
    BY <1>1, <1>3, <2>1, <2>2, <2>3 DEF After, State
<1>9. QED
  BY <1>1, <1>4, <1>5, <1>6, <1>7, <1>8, RunGoesOnHere DEF Making

LEMMA VectorsReplaced ==
  ASSUME NEW a, NEW b, NEW d, d = [vectors |-> a, done |-> b], NEW c
  PROVE  /\ [d EXCEPT !.vectors = c] = [vectors |-> c, done |-> b]
         /\ [d EXCEPT !.done = c] = [vectors |-> a, done |-> c]
OBVIOUS

(* A vector is written. *)
LEMMA WriteKeeps ==
  ASSUME Making, InVector, NEW v, Write(v), signing' = << >>,
         NEW r, read' = r,
         After(Running, Now) = State(file, vector + 1, r, << >>, Append(Made, v))
  PROVE  Making'
<1>1. InLoop /\ InMake /\ vector \in DOMAIN list_of_messages
  BY InLoopIsInMake DEF InVector
<1> DEFINE f == Writing.name
<1>2. /\ Running \in 1 .. 9 /\ file \in 1 .. Len(FilesOf(Running)) /\ f \in Names
      /\ Writing = FilesOf(Running)[file] /\ Len(FilesOf(Running)) \in Nat
      /\ vector \in 1 .. Len(list_of_messages) /\ vector # 0 /\ vector \in Nat
  BY <1>1, Where
<1>3. /\ vector' = vector + 1 /\ script' = script /\ importing' = importing
      /\ file' = file /\ committed' = committed
      /\ disk' = [disk EXCEPT ![f].vectors = Append(@, v)]
  BY DEF Write
<1>4. Running' = Running /\ Writing' = Writing /\ InMake' = InMake
  BY <1>3 DEF Running, Writing, Script, InMake
<1> DEFINE vs == Append(disk[f].vectors, v)
           e == [vectors |-> vs, done |-> FALSE]
<1>5. disk[f] = [vectors |-> disk[f].vectors, done |-> FALSE]
  <2>1. disk[f].done = FALSE
    BY <1>1, <1>2 DEF Making, InItsPlace
  <2>2. disk[f] = [vectors |-> disk[f].vectors, done |-> disk[f].done]
    BY <1>2 DEF Making, MakeTypes, AreFiles
  <2>3. QED
    BY <2>1, <2>2
<1>6. disk' = [disk EXCEPT ![f] = e]
  <2>1. disk' = [disk EXCEPT ![f] = [disk[f] EXCEPT !.vectors = vs]]
    BY <1>3
  <2>2. PICK d, a, b, no : d = disk[f] /\ a = disk[f].vectors /\ b = vs /\ no = FALSE
    OBVIOUS
  <2>3. d = [vectors |-> a, done |-> no]
    BY <1>5, <2>2
  <2>4. [d EXCEPT !.vectors = b] = [vectors |-> b, done |-> no]
    BY ONLY <2>3, VectorsReplaced
  <2>5. QED
    BY <2>1, <2>2, <2>4
<1>7. /\ AreFiles(disk') /\ disk'[f] = e
      /\ \A g \in Names \ {f} : disk'[g] = disk[g]
  BY <1>2, <1>6, FileChanged
<1> HIDE DEF f
<1>8. MakeTypes'
  BY <1>2, <1>3, <1>7 DEF Making, MakeTypes
<1>9. InItsPlace'
  <2>1. disk'[Writing'.name].done = FALSE
    BY <1>4, <1>7 DEF f
  <2>2. ~ (file' > Len(FilesOf(Running')))
    BY <1>2, <1>3, <1>4
  <2>3. script' \notin {0, 10}
    BY <1>1, <1>3 DEF InMake
  <2>4. signing' = << >>
    OBVIOUS
  <2>5. QED
    BY <2>1, <2>2, <2>3, <2>4 DEF InItsPlace
<1>10. FilesKept'
  BY <1>3, <1>7 DEF Making, FilesKept
<1>11. Now' = After(Running, Now)
  <2>1. vector' # 0 /\ Made = disk[f].vectors
    BY <1>2, <1>3 DEF Made, f
  <2>2. Made' = Append(Made, v)
    BY <1>4, <1>7, <2>1 DEF Made, f
  <2>3. QED
    BY <1>3, <2>2 DEF Now
<1>12. QED
  BY <1>1, <1>4, <1>8, <1>9, <1>10, <1>11, RunGoesOnHere DEF Making

LEMMA WriteHashKeeps ==
  ASSUME Making, WriteHash
  PROVE  Making'
<1>1. InVector /\ InLoop /\ InMake /\ Script.key = "none"
  BY InLoopIsInMake DEF WriteHash, InVector
<1>2. Running \in 1 .. 9 /\ KeyOf(Running) = "none"
  BY <1>1, Where
<1>3. script = Running
  <2>1. Running = 3
    BY <1>2, FilesAre
  <2>2. QED
    BY <2>1 DEF Running
<1>4. signing = << >>
  BY <1>1, <1>2, ScriptsAre DEF Making, InItsPlace, InMake
<1> DEFINE v == Vector(script, Writing, list_of_messages[vector], Stream(read, SALT_LEN))
<1>5. Write(v) /\ read' = read + SALT_LEN /\ signing' = << >>
  BY <1>4 DEF WriteHash
<1>6. /\ Writing = FilesOf(Running)[file]
      /\ vector # 0 /\ ~ (vector > Len(list_of_messages))
  <2>1. vector \in 1 .. Len(list_of_messages) /\ Len(list_of_messages) \in Nat
    BY <1>1, Where DEF InVector
  <2>2. QED
    BY <1>1, <2>1, Where
<1>7. After(Running, Now) = State(file, vector + 1, read + SALT_LEN, << >>, Append(Made, v))
  <2>1. After(Running, Now) = AfterHash(Running, Now)
    BY <1>2, <1>6 DEF After, Now, State
  <2>2. v = Vector(Running, FilesOf(Running)[file], list_of_messages[vector],
                   Stream(read, SALT_LEN))
    BY <1>3, <1>6
  <2>3. /\ Now.file = file /\ Now.vector = vector /\ Now.read = read
        /\ Now.signing = << >> /\ Now.made = Made
    BY <1>4 DEF Now, State
  <2> HIDE DEF v
  <2>4. QED
    BY <2>1, <2>2, <2>3 DEF AfterHash
<1> HIDE DEF v
<1>8. QED
  BY <1>1, <1>5, <1>7, WriteKeeps

LEMMA AttemptKeeps ==
  ASSUME Making, Attempt
  PROVE  Making'
<1>1. InVector /\ InLoop /\ InMake /\ signing # << >>
  BY InLoopIsInMake DEF Attempt, InVector
<1> DEFINE f == FilesOf(Running)[file]
           m == list_of_messages[vector]
           key == KeyOf(Running)
           point == hash_to_point(m, signing, f.xof)
           s1 == Preimage(sk_h, point, Stream(read, SEED_LEN))
           s0 == Centred(Minus(point, Times(s1, sk_h)))
           sig == SignatureWith(key, signing, s0, s1)
           v == Vector(Running, f, m, sig)
<1>2. /\ Running \in 1 .. 9 /\ Writing = f /\ Script.key = key /\ key # "none"
      /\ vector # 0 /\ ~ (vector > Len(list_of_messages))
  <2>1. vector \in 1 .. Len(list_of_messages) /\ Len(list_of_messages) \in Nat
    BY <1>1, Where DEF InVector
  <2>2. key # "none"
    BY <1>1 DEF Making, InItsPlace, InMake
  <2>3. Running \in 1 .. 9 /\ Writing = f /\ Script.key = key
    BY <1>1, Where
  <2>4. QED
    BY <2>1, <2>2, <2>3
<1>3. IF ~Signable(key, s0, s1)
      THEN /\ read' = read + SEED_LEN
           /\ UNCHANGED <<disk, script, importing, file, vector, signing, open, kills, committed>>
      ELSE IF Asserted(key, f.xof, m, sig)
      THEN Write(v) /\ read' = read + SEED_LEN /\ signing' = << >>
      ELSE Stop /\ UNCHANGED <<disk, kills>>
  BY <1>2 DEF Attempt
<1>4. /\ Now.file = file /\ Now.vector = vector /\ Now.read = read
      /\ Now.signing = signing /\ Now.made = Made
  BY DEF Now, State
<1>5. After(Running, Now) =
        IF ~Signable(key, s0, s1)
        THEN State(file, vector, read + SEED_LEN, signing, Made)
        ELSE State(file, vector + 1, read + SEED_LEN, << >>, Append(Made, v))
  <2>1. After(Running, Now) = AfterAttempt(Running, Now)
    BY <1>1, <1>2, <1>4 DEF After
  <2>2. QED
    BY <1>4, <2>1 DEF AfterAttempt
<1> HIDE DEF f, m, key, point, s1, s0, sig, v
<1>6. CASE ~Signable(key, s0, s1)
  <2>1. /\ disk' = disk /\ vector' = vector /\ script' = script /\ importing' = importing
        /\ file' = file /\ read' = read + SEED_LEN /\ signing' = signing
        /\ committed' = committed
    BY <1>3, <1>6
  <2>2. Running' = Running /\ Writing' = Writing /\ InMake' = InMake /\ Made' = Made
    BY <2>1 DEF Running, Writing, Script, InMake, Made
  <2>3. MakeTypes' /\ FilesKept' /\ InItsPlace'
    BY <2>1, <2>2 DEF Making, MakeTypes, FilesKept, InItsPlace
  <2>4. Now' = After(Running, Now)
    BY <1>5, <1>6, <2>1, <2>2 DEF Now
  <2>5. QED
    BY <1>1, <2>2, <2>3, <2>4, RunGoesOnHere DEF Making
<1>7. CASE Signable(key, s0, s1) /\ Asserted(key, f.xof, m, sig)
  BY <1>1, <1>3, <1>5, <1>7, WriteKeeps
<1>8. CASE Signable(key, s0, s1) /\ ~Asserted(key, f.xof, m, sig)
  <2>1. /\ disk' = disk /\ script' = 0 /\ importing' = FALSE /\ signing' = << >>
        /\ file' = file /\ vector' = vector /\ committed' = committed
    BY <1>3, <1>8 DEF Stop
  <2>2. ~InMake'
    BY <2>1 DEF InMake
  <2>3. MakeTypes' /\ FilesKept'
    <3>1. importing' \in BOOLEAN
      BY <2>1, Zenon
    <3>2. script' \in 0 .. 10
      BY <2>1
    <3>3. QED
      BY <2>1, <3>1, <3>2 DEF Making, MakeTypes, FilesKept
  <2>4. InItsPlace'
    BY <2>1, <2>2 DEF InItsPlace
  <2>5. QED
    BY <2>2, <2>3, <2>4 DEF Making
<1>9. QED
  BY <1>6, <1>7, <1>8

(* At its last line a file is complete: as it was before, if it was.        *)
LEMMA EndFileKeeps ==
  ASSUME Making, EndFile
  PROVE  Making'
<1>1. InLoop /\ InMake /\ vector > Len(list_of_messages)
  BY InLoopIsInMake DEF EndFile
<1> DEFINE f == Writing.name
           vs == disk[f].vectors
           e == [vectors |-> vs, done |-> TRUE]
<1>2. /\ Running \in 1 .. 9 /\ file \in 1 .. Len(FilesOf(Running)) /\ f \in Names
      /\ Writing = FilesOf(Running)[file] /\ Len(FilesOf(Running)) \in Nat
      /\ Len(list_of_messages) \in Nat
  BY <1>1, Where
<1>3. vector # 0 /\ vector \notin 1 .. Len(list_of_messages) /\ vector \in Nat
  BY <1>1, <1>2 DEF Making, MakeTypes
<1>4. /\ vector' = 0 /\ script' = script /\ importing' = importing
      /\ file' = file + 1 /\ read' = read /\ signing' = signing
      /\ disk' = [disk EXCEPT ![f].done = TRUE]
      /\ committed' = [committed EXCEPT ![f] = IF committed[f].done THEN committed[f] ELSE disk'[f]]
  BY DEF EndFile
<1>5. disk[f] = [vectors |-> vs, done |-> disk[f].done] /\ Made = vs
  BY <1>2, <1>3 DEF Making, MakeTypes, AreFiles, Made
<1>6. disk' = [disk EXCEPT ![f] = e]
  <2>1. disk' = [disk EXCEPT ![f] = [disk[f] EXCEPT !.done = TRUE]]
    BY <1>4
  <2>2. PICK d, a, b, yes : d = disk[f] /\ a = vs /\ b = disk[f].done /\ yes = TRUE
    OBVIOUS
  <2>3. d = [vectors |-> a, done |-> b]
    BY <1>5, <2>2
  <2>4. [d EXCEPT !.done = yes] = [vectors |-> a, done |-> yes]
    BY ONLY <2>3, VectorsReplaced
  <2>5. QED
    BY <2>1, <2>2, <2>4
<1>7. /\ AreFiles(disk') /\ disk'[f] = e
      /\ \A g \in Names \ {f} : disk'[g] = disk[g]
  <2>1. TRUE \in BOOLEAN
    OBVIOUS
  <2>2. QED
    BY <1>2, <1>6, <2>1, FileChanged
<1>8. ComesTo(Running, Now) /\ AtEnd(Now) /\ Now.file = file /\ Now.made = vs
  BY <1>1, <1>5 DEF Making, AtEnd, Now, State
(* What was complete is what is complete now: it comes of the same run.     *)
<1>9. committed[f].done => committed[f] = e
  <2>1. SUFFICES ASSUME committed[f].done PROVE committed[f] = e
    OBVIOUS
  <2>a. PICK k \in 1 .. 9 : \E c :
          /\ ComesTo(k, c) /\ AtEnd(c)
          /\ c.file \in 1 .. Len(FilesOf(k)) /\ FilesOf(k)[c.file].name = f
          /\ committed[f].vectors = c.made
    BY <1>2, <2>1 DEF Making, FilesKept, EndOf
  <2>2. PICK c :
          /\ ComesTo(k, c) /\ AtEnd(c)
          /\ c.file \in 1 .. Len(FilesOf(k)) /\ FilesOf(k)[c.file].name = f
          /\ committed[f].vectors = c.made
    BY <2>a
  <2>3. k = Running /\ c.file = file
    <3>1. ScriptOf(f) = Running /\ PlaceOf(f) = file
      BY <1>2, FilesAre
    <3>2. ScriptOf(f) = k /\ PlaceOf(f) = c.file
      BY <2>2, FilesAre
    <3>3. QED
      BY <3>1, <3>2
  <2>4. c = Now
    BY <1>8, <2>2, <2>3, OneEnd
  <2>5. committed[f].vectors = vs
    BY <1>8, <2>2, <2>4
  <2>6. committed[f] = [vectors |-> vs, done |-> committed[f].done] /\ committed[f].done \in BOOLEAN
    BY <1>2, <2>5 DEF Making, MakeTypes, AreFiles
  <2>7. committed[f].done = TRUE
    BY <2>1, <2>6
  <2>8. QED
    BY <2>6, <2>7
<1> HIDE DEF f, vs
<1>10. committed' = [committed EXCEPT ![f] = e]
  BY <1>4, <1>7, <1>9
<1>11. /\ committed'[f] = e
       /\ \A g \in Names \ {f} : committed'[g] = committed[g]
       /\ AreFiles(committed')
  <2>1. AreFiles(committed) /\ f \in Names
    BY <1>2 DEF Making, MakeTypes
  <2>2. committed'[f] = e /\ \A g \in Names \ {f} : committed'[g] = committed[g]
    BY <1>10, <2>1 DEF AreFiles
  <2>3. DOMAIN committed' = Names /\ committed' = [g \in Names |-> committed'[g]]
    BY <1>10, <2>1 DEF AreFiles
  <2>4. ASSUME NEW g \in Names
        PROVE  /\ committed'[g] = [vectors |-> committed'[g].vectors, done |-> committed'[g].done]
               /\ committed'[g].done \in BOOLEAN
    <3>1. CASE g = f
      <4>1. committed'[g] = e
        BY <2>2, <3>1
      <4>2. e = [vectors |-> e.vectors, done |-> e.done] /\ e.done = TRUE
        OBVIOUS
      <4>3. QED
        BY <4>1, <4>2, Zenon
    <3>2. CASE g # f
      BY <2>1, <2>2, <3>2 DEF AreFiles
    <3>3. QED
      BY <3>1, <3>2
  <2>5. QED
    BY <2>2, <2>3, <2>4 DEF AreFiles
<1>12. EndOf(e, f)
  BY <1>2, <1>8 DEF EndOf, f
<1>13. FilesKept'
  <2>1. ASSUME NEW g \in Names
        PROVE  EndOf(committed'[g], g) /\ (disk'[g].done => disk'[g] = committed'[g])
    <3>1. CASE g = f
      BY <1>7, <1>11, <1>12, <3>1
    <3>2. CASE g # f
      BY <1>7, <1>11, <3>2 DEF Making, FilesKept
    <3>3. QED
      BY <3>1, <3>2
  <2>2. QED
    BY <2>1 DEF FilesKept
<1>14. Running' = Running /\ InMake' = InMake
  BY <1>4 DEF Running, InMake
<1>15. signing = << >>
  BY <1>1, <1>3, ScriptsAre DEF Making, InItsPlace, InMake
<1>16. MakeTypes'
  BY <1>2, <1>4, <1>7, <1>11 DEF Making, MakeTypes
<1>17. InItsPlace'
  BY <1>1, <1>4, <1>14, <1>15 DEF InItsPlace, InMake
<1>18. Now' = After(Running, Now)
  <2>1. Now = State(file, vector, read, signing, Made)
    BY DEF Now
  <2>2. Now' = State(file + 1, 0, read, signing, << >>)
    BY <1>4 DEF Now, Made
  <2>3. QED
    BY <1>1, <1>3, <2>1, <2>2 DEF After, State
<1>19. QED
  BY <1>1, <1>13, <1>14, <1>16, <1>17, <1>18, RunGoesOnHere DEF Making

LEMMA EndScriptKeeps ==
  ASSUME Making, EndScript
  PROVE  Making'
<1>1. /\ script \in 1 .. 9 /\ InMake /\ file > Len(FilesOf(Running))
      /\ file' = 1 /\ read' = 0 /\ disk' = disk /\ vector' = vector /\ signing' = signing
      /\ committed' = committed
      /\ IF importing
         THEN importing' = FALSE /\ script' = script
         ELSE script' = script + 1 /\ importing' = (script + 1 < MADE)
  BY ScriptsAre DEF EndScript, InMake, Script, FilesOf
<1>2. vector = 0
  BY <1>1 DEF Making, InItsPlace
<1>3. signing = << >>
  BY <1>1, <1>2 DEF Making, InItsPlace
<1>4. /\ script' \in 1 .. 10 /\ importing' \in BOOLEAN /\ (script' = 10 => importing' = FALSE)
  <2>1. CASE importing
    <3>1. importing' = FALSE /\ script' = script
      BY <1>1, <2>1
    <3>2. importing' \in BOOLEAN
      BY <3>1, Zenon
    <3>3. script' \in 1 .. 10
      BY <1>1, <3>1
    <3>4. QED
      BY <3>1, <3>2, <3>3
  <2>2. CASE ~importing
    <3>1. script' = script + 1 /\ importing' = (script + 1 < MADE)
      BY <1>1, <2>2
    <3>2. script' \in 1 .. 10 /\ (script' = 10 => ~ (script + 1 < MADE))
      BY <1>1, <3>1, ScriptsAre
    <3>3. CASE script + 1 < MADE
      BY <3>1, <3>2, <3>3, Zenon
    <3>4. CASE ~ (script + 1 < MADE)
      <4>1. (script + 1 < MADE) = FALSE
        BY <3>4
      <4>2. importing' = FALSE
        BY <3>1, <4>1
      <4>3. QED
        BY <3>2, <4>2, Zenon
    <3>5. QED
      BY <3>3, <3>4
  <2>3. QED
    BY <2>1, <2>2
<1>5. MakeTypes'
  BY <1>1, <1>2, <1>4 DEF Making, MakeTypes
<1>6. FilesKept'
  BY <1>1 DEF Making, FilesKept
<1>7. InItsPlace'
  <2>1. InMake' => ~ (file' > Len(FilesOf(Running'))) \/ vector' = 0
    BY <1>1, <1>2
  <2>2. script' # 0 /\ vector' = 0 /\ signing' = << >>
    BY <1>1, <1>2, <1>3, <1>4
  <2>3. QED
    BY <1>4, <2>1, <2>2 DEF InItsPlace
<1>8. Now' = Start
  BY <1>1, <1>2, <1>3 DEF Now, Made, Start
<1>9. QED
  BY <1>5, <1>6, <1>7, <1>8, RunStarts DEF Making

(* A kill leaves no open file complete; the others stay as they were.       *)
LEMMA KillKeeps ==
  ASSUME Making, Kill
  PROVE  Making'
<1>1. /\ script' = 0 /\ importing' = FALSE /\ signing' = << >>
      /\ file' = file /\ vector' = vector /\ committed' = committed
  BY DEF Kill, Stop
<1>2. PICK flushed :
        disk' = [f \in Names |->
                   IF f \notin open THEN disk[f]
                   ELSE [vectors |-> SubSeq(disk[f].vectors, 1, flushed[f]), done |-> FALSE]]
  BY DEF Kill
<1>3. ASSUME NEW f \in Names
      PROVE  /\ disk'[f] = [vectors |-> disk'[f].vectors, done |-> disk'[f].done]
             /\ disk'[f].done \in BOOLEAN
             /\ disk'[f].done => disk'[f] = disk[f]
  <2>1. CASE f \notin open
    BY <1>2, <2>1 DEF Making, MakeTypes, AreFiles
  <2>2. CASE f \in open
    <3>1. PICK vs : disk'[f] = [vectors |-> vs, done |-> FALSE]
      BY <1>2, <2>2
    <3>2. disk'[f].done = FALSE /\ disk'[f].vectors = vs
      BY <3>1
    <3>3. QED
      BY <3>1, <3>2, Zenon
  <2>3. QED
    BY <2>1, <2>2
<1>4. AreFiles(disk')
  <2>1. DOMAIN disk' = Names /\ disk' = [f \in Names |-> disk'[f]]
    BY <1>2
  <2>2. QED
    BY <1>3, <2>1 DEF AreFiles
<1>5. ~InMake'
  BY <1>1 DEF InMake
<1>6. MakeTypes'
  <2>1. importing' \in BOOLEAN
    BY <1>1, Zenon
  <2>2. script' \in 0 .. 10
    BY <1>1
  <2>3. QED
    BY <1>1, <1>4, <2>1, <2>2 DEF Making, MakeTypes
<1>7. FilesKept'
  BY <1>1, <1>3 DEF Making, FilesKept
<1>8. InItsPlace'
  BY <1>1, <1>5 DEF InItsPlace
<1>9. QED
  BY <1>5, <1>6, <1>7, <1>8 DEF Making

LEMMA AgainKeeps ==
  ASSUME Making, Again
  PROVE  Making'
<1>1. /\ script = 0 /\ script' = 1 /\ file' = 1 /\ vector' = 0 /\ read' = 0
      /\ disk' = disk /\ importing' = importing /\ signing' = signing /\ committed' = committed
  BY DEF Again
<1>2. importing = FALSE /\ signing = << >>
  BY <1>1 DEF Making, InItsPlace, InMake
<1>3. MakeTypes' /\ FilesKept'
  BY <1>1 DEF Making, MakeTypes, FilesKept
<1>4. InItsPlace'
  BY <1>1, <1>2 DEF InItsPlace
<1>5. Now' = Start
  BY <1>1, <1>2 DEF Now, Made, Start
<1>6. QED
  BY <1>3, <1>4, <1>5, RunStarts DEF Making

(* The inductive invariant of the makefile: a script is where its stream    *)
(* has it be, and every complete file is what its script comes to.          *)
THEOREM Invariance == MakeSpec => []Making
<1>1. MakeInit => Making
  BY MakeStarts
<1>2. Making /\ [MakeNext]_makeVars => Making'
  <2>1. SUFFICES ASSUME Making, [MakeNext]_makeVars
                 PROVE  Making'
    OBVIOUS
  <2>2. CASE MakeNext
    BY <2>1, <2>2, OpenFileKeeps, ReadSaltKeeps, WriteHashKeeps, AttemptKeeps, EndFileKeeps,
       EndScriptKeeps, KillKeeps, AgainKeeps DEF MakeNext
  <2>3. CASE UNCHANGED makeVars
    <3>1. /\ disk' = disk /\ script' = script /\ importing' = importing /\ file' = file
          /\ vector' = vector /\ read' = read /\ signing' = signing /\ committed' = committed
      BY <2>3 DEF makeVars
    <3>2. /\ Running' = Running /\ Writing' = Writing /\ InMake' = InMake /\ Made' = Made
          /\ Now' = Now
      BY <3>1 DEF Running, Writing, Script, InMake, Made, Now
    <3>3. QED
      BY <2>1, <3>1, <3>2 DEF Making, MakeTypes, FilesKept, InItsPlace
  <2>4. QED
    BY <2>1, <2>2, <2>3
<1>3. QED
  BY <1>1, <1>2, PTL DEF MakeSpec

(* However often a file is written, by its script, by the imports of the    *)
(* first script and after a kill, when complete it is always the same       *)
(* (the makefile of python-ref, and the streams of its scripts).            *)
THEOREM ReproducibleAlways == MakeSpec => []Reproducible
<1>1. Making => Reproducible
  BY DEF Making, FilesKept, Reproducible
<1>2. QED
  BY <1>1, Invariance, PTL

=============================================================================
