------------------------------ MODULE SignCli ------------------------------
(***************************************************************************)
(* The command line tool sign_cli.py.  Its commands meet in three files,    *)
(* and in the contracts that some of them call.  A command may be killed    *)
(* while a file is open, which is then left without its last lines (an      *)
(* `empty' file), or after it has closed one and before it opens the next.  *)
(***************************************************************************)
EXTENDS Contracts

CONSTANTS
  SecretKeys,           (* bound: the public polynomials that genkeys draws *)
  DATA,                 (* bound: the data that is signed, byte strings     *)
  KEYS_GENERATED,       (* bound: how often genkeys is called               *)
  RATE,                 (* the rate of SHAKE: 136                           *)
  Permuted(_, _)        (* a byte of the sponge after so many whole blocks  *)


ASSUME SignCliAssumption == RATE \in Nat \ {0} /\ KEYS_GENERATED \in Nat

VARIABLES
  public_key, private_key, signature_file,   (* the files                   *)
  command,              (* what runs between two writes                     *)
  printed,              (* what the last command said, of what              *)
  generated,            (* how many keys were generated                     *)
  signed                (* history: which key signed what, for the file     *)

cliVars == <<public_key, private_key, signature_file, command, printed, generated, signed>>

Version == {"falcon", "ethfalcon", "falconrec", "epervier"}

NoFile == [state |-> "none"]

EmptyFile == [state |-> "empty"]

Idle == [action |-> "none"]

CliInit ==
  /\ public_key = NoFile /\ private_key = NoFile /\ signature_file = NoFile
  /\ command = Idle
  /\ printed = [action |-> "none", data |-> << >>, says |-> << >>]
  /\ generated = 0
  /\ signed = Idle

(* save_pk, save_sk and save_signature: what a file then holds.             *)
save_pk(pk, version) == [state |-> "saved", pk |-> pk, version |-> version]

save_sk(h, version) == [state |-> "saved", h |-> h, version |-> version]

save_signature(sig) == [state |-> "saved", sig |-> sig]

(* Every command is a process of its own, which starts when the one before  *)
(* has ended and what it printed has been read.                             *)
Ready == command = Idle /\ printed.action = "none"

Says(action, data, says) == printed' = [action |-> action, data |-> data, says |-> says]

Prompt ==
  /\ command = Idle /\ printed.action # "none"
  /\ Says("none", << >>, << >>)
  /\ UNCHANGED <<public_key, private_key, signature_file, command, generated, signed>>

(* The public key of a version: the polynomial, or an address.              *)
PkOf(h, version) ==
  CASE version \in {"falcon", "ethfalcon"} -> h
    [] version = "falconrec" -> Address(h)
    [] version = "epervier" -> Address(ntt(h))

(* generate_keys, and then the two files, each opened, which empties it,    *)
(* and complete once it is closed; the private key stays what it was until  *)
(* the public one is on file.  An unknown version gives None, which is not  *)
(* a pair.                                                                  *)
genkeys(version) ==
  /\ Ready /\ generated < KEYS_GENERATED
  /\ IF version \notin Version
     THEN Says("genkeys", << >>, <<"error">>) /\ UNCHANGED <<public_key, command, generated>>
     ELSE \E h \in SecretKeys :
            /\ public_key' = EmptyFile
            /\ command' = [action |-> "save_pk", h |-> h, version |-> version]
            /\ generated' = generated + 1
            /\ UNCHANGED printed
  /\ UNCHANGED <<private_key, signature_file, signed>>

genkeysPublic ==
  /\ command.action = "save_pk"
  /\ public_key' = save_pk(PkOf(command.h, command.version), command.version)
  /\ command' = [command EXCEPT !.action = "saved_pk"]
  /\ UNCHANGED <<private_key, signature_file, printed, generated, signed>>

genkeysPrivate ==
  /\ command.action = "saved_pk"
  /\ private_key' = EmptyFile
  /\ command' = [command EXCEPT !.action = "save_sk"]
  /\ UNCHANGED <<public_key, signature_file, printed, generated, signed>>

genkeysEnd ==
  /\ command.action = "save_sk"
  /\ private_key' = save_sk(command.h, command.version)
  /\ command' = Idle
  /\ Says("genkeys", << >>, <<"Keys generated and saved.">>)
  /\ UNCHANGED <<public_key, signature_file, generated, signed>>

(* The bytes with which signature() replaces urandom: a SHAKE that is read  *)
(* without having been padded, so that what it has not yet permuted stays   *)
(* where the next bytes come from, and is mixed in at the next permutation. *)
TwoBytes(x) == <<x \div 256, x % 256>>

Seeded(h, data) ==
  [i \in 1 .. 32 |-> 1] \o <<0>> \o FlattenSeq([i \in 1 .. n |-> TwoBytes(h[i])]) \o data

deterministic_bytes(h, data, from, length) ==
  LET all == Seeded(h, data)
      pending == Len(all) % RATE
      whole == SubSeq(all, 1, Len(all) - pending)
      Byte(k) == IF pending + k <= RATE THEN Permuted(whole, pending + k)
                 ELSE Permuted(all, pending + k - RATE)
  IN  [k \in 1 .. length |-> Byte(from + k)]

(* A fault: the XOF of epervier is that of ethfalcon.                       *)
XofOfFalconOnly(version) == IF version = "falcon" THEN "SHAKE" ELSE "KeccakPRNG"

XofOf(version) == IF version \in {"falcon", "epervier"} THEN "SHAKE" ELSE "KeccakPRNG"

(* sk.sign: the first pass of its loop that succeeds. *)
SignedWith(h, data, version, salt, pass) ==
  LET point == hash_to_point(data, salt, XofOf(version))
      s1 == Preimage(h, point, deterministic_bytes(h, data, SALT_LEN + 56 * (pass - 1), 56))
      s0 == Centred(Minus(point, Times(s1, h)))
      whole == version \in {"falcon", "ethfalcon"}
  IN  IF ~Short(s0, s1) THEN << >>
      ELSE IF whole THEN IF One!Fits(s1) THEN SignatureOf(salt, s1) ELSE << >>
      ELSE IF Invertible(ntt(s1)) /\ Two!Fits(s0 \o s1) THEN SignatureOfPair(salt, s0, s1)
      ELSE << >>

(* Bound: the loop succeeds within so many passes. *)
PASSES == 4

signature(h, data, version) ==
  Given(deterministic_bytes(h, data, 0, SALT_LEN), LAMBDA salt :
    Given([p \in 1 .. PASSES |-> SignedWith(h, data, version, salt, p)], LAMBDA made :
      made[CHOOSE p \in 1 .. PASSES :
             made[p] # << >> /\ \A r \in 1 .. p - 1 : made[r] = << >>]))

(* The command: load_sk, signature() and the file, opened and then written. *)
sign_command(data) ==
  /\ Ready
  /\ IF private_key.state # "saved"
     THEN Says("sign", data, <<"error">>) /\ UNCHANGED <<signature_file, command, signed>>
     ELSE /\ signature_file' = EmptyFile
          /\ command' = [action |-> "save_signature", h |-> private_key.h,
                         version |-> private_key.version, data |-> data]
          /\ signed' = Idle
          /\ UNCHANGED printed
  /\ UNCHANGED <<public_key, private_key, generated>>

signCommandEnd ==
  /\ command.action = "save_signature"
  /\ signature_file' = save_signature(signature(command.h, command.data, command.version))
  /\ signed' = command
  /\ command' = Idle
  /\ Says("sign", command.data, << >>)
  /\ UNCHANGED <<public_key, private_key, generated>>

(* The command is killed. *)
KillCommand ==
  /\ command # Idle
  /\ command' = Idle
  /\ Says("killed", << >>, << >>)
  /\ UNCHANGED <<public_key, private_key, signature_file, generated, signed>>

(* The other commands only read the files. *)
Reads(action, data, says) ==
  /\ Ready
  /\ Says(action, data, says)
  /\ UNCHANGED <<public_key, private_key, signature_file, command, generated, signed>>

(* load_pk fails on a file without its lines; load_signature does not.      *)
load_signature == IF signature_file.state = "saved" THEN signature_file.sig ELSE << >>

CanLoad == public_key.state = "saved" /\ signature_file.state # "none"

(* A fault: that something is recovered is enough.                          *)
verifyAnyRecovered(pk, data, sig) ==
  Given(recoverEpervier(data, sig, "SHAKE"), LAMBDA r :
    IF r = <<"error">> THEN r ELSE Bool(r # <<"False">>))

(* verify() of epervier: what is recovered is the key.                      *)
verifyRecovered(pk, data, sig) ==
  Given(recoverEpervier(data, sig, "SHAKE"), LAMBDA r :
    IF r = <<"error">> THEN r ELSE Bool(r = pk))

(* verify_signature: for falconrec no XOF is set.                           *)
verify_signature(pk, data, sig, version) ==
  CASE version \in {"falcon", "ethfalcon"} -> verify(pk, data, sig, XofOf(version))
    [] version = "epervier" -> verifyRecovered(pk, data, sig)
    [] version = "falconrec" -> <<"error">>

Verified(data) ==
  IF ~CanLoad THEN <<"error">>
  ELSE verify_signature(public_key.pk, data, load_signature, public_key.version)

verify_command(data) == Reads("verify", data, Verified(data))

(* sign_tx signs the hash of the transaction, and then calls                *)
(* verify_signature without a version: an error, as whatever failed before. *)
sign_tx(data) == Reads("sign_tx", data, <<"error">>)

(* A call of a contract through cast.  The contracts for Falcon have no     *)
(* recover, those for Epervier no verify.                                   *)
CastVerify(contract, data, salt, s2, pk) ==
  CASE contract = "falcon" -> falcon_verify(data, salt, s2, pk)
    [] contract = "ethfalcon" -> ethfalcon_verify(data, salt, s2, pk)
    [] contract \in {"epervier", "ethepervier"} -> <<"revert">>

CastRecover(contract, data, salt, s1, s2, hint) ==
  CASE contract = "epervier" -> epervier_recover(data, salt, s1, s2, hint)
    [] contract = "ethepervier" -> ethepervier_recover(data, salt, s1, s2, hint)
    [] contract \in {"falcon", "ethfalcon"} -> <<"revert">>

ModQ(f) == [i \in DOMAIN f |-> f[i] % q]

(* recover_on_chain: what does not decode, has no inverse or is reverted is *)
(* an error.                                                                *)
recover_on_chain(data, sig, contract, version) ==
  IF version # "epervier" THEN <<"error">>
  ELSE Given(Two!decompress(ToBits(RestUpToInverse(sig))), LAMBDA d :
         IF d.verdict # "ok" \/ ~Invertible(ntt(SubSeq(d.v, n + 1, 2 * n))) THEN <<"error">>
         ELSE LET s2 == ModQ(SubSeq(d.v, n + 1, 2 * n))
                  hint == FoldLeft(LAMBDA a, b : TimesModQ(a, InverseModQ(b)), 1, ntt(s2))
                  answer == CastRecover(contract, data, SaltOf(sig),
                                        falcon_compact(ModQ(SubSeq(d.v, 1, n))),
                                        falcon_compact(s2), hint)
              IN  IF answer = <<"revert">> THEN <<"error">> ELSE answer)

(* verify_signature_on_chain: True, or what else is printed.                *)
verify_signature_on_chain(pk, data, sig, contract, version) ==
  CASE version = "epervier" ->
         Given(recover_on_chain(data, sig, contract, version), LAMBDA r :
           IF r = <<"error">> THEN r ELSE IF r = pk THEN <<"True">> ELSE << >>)
    [] version \in {"falcon", "ethfalcon"} ->
         Given(One!decompress(ToBits(Rest(sig))), LAMBDA d :
           IF d.verdict # "ok" THEN <<"error">>
           ELSE CastVerify(contract, data, SaltOf(sig), falcon_compact(ModQ(d.v)),
                           falcon_compact(ntt(pk))))
    [] version = "falconrec" -> <<"This version is not implemented.">>

VerifiedOnChain(contract, data) ==
  IF ~CanLoad THEN <<"error">>
  ELSE verify_signature_on_chain(public_key.pk, data, load_signature, contract, public_key.version)

verifyonchain(contract, data) ==
  Reads("verifyonchain", data, VerifiedOnChain(contract, data))

recoveronchain(contract, data) ==
  Reads("recoveronchain", data,
        IF ~CanLoad THEN <<"error">>
        ELSE recover_on_chain(data, load_signature, contract, public_key.version))

(* The same in a transaction: what is printed is its receipt, whatever the  *)
(* contract answers.  Recovery never gets there: its command has a place    *)
(* more than arguments.                                                     *)
verify_signature_on_chain_with_transaction(sig, version) ==
  IF version \notin {"falcon", "ethfalcon"} THEN <<"error">>
  ELSE IF One!decompress(ToBits(Rest(sig))).verdict # "ok" THEN <<"error">>
  ELSE <<"receipt">>

verifyonchainsend(data) ==
  Reads("verifyonchainsend", data,
        IF ~CanLoad THEN <<"error">>
        ELSE verify_signature_on_chain_with_transaction(load_signature, public_key.version))

recover_on_chain_with_transaction == <<"error">>

recoveronchainsend(data) ==
  Reads("recoveronchainsend", data, recover_on_chain_with_transaction)

Deployed == {"falcon", "ethfalcon", "epervier", "ethepervier"}

CliNext ==
  \/ \E version \in Version \cup {"other"} : genkeys(version)
  \/ genkeysPublic
  \/ genkeysPrivate
  \/ genkeysEnd
  \/ signCommandEnd
  \/ KillCommand
  \/ Prompt
  \/ \E data \in DATA :
       \/ sign_command(data)
       \/ sign_tx(data)
       \/ verify_command(data)
       \/ \E contract \in Deployed : verifyonchain(contract, data) \/ recoveronchain(contract, data)
       \/ verifyonchainsend(data)
       \/ recoveronchainsend(data)

(***************************************************************************)
(* Properties                                                               *)
(***************************************************************************)

(* The history knows what the signature on file was made of. *)
IsKeyOf(pub, s) == pub.version = s.version /\ pub.pk = PkOf(s.h, s.version)

(* What was signed with the private key is valid under the public key that  *)
(* was saved with it, for the data signed, when the tool can verify at all. *)
SignedIsValid ==
  (/\ printed.action = "verify" /\ signed # Idle /\ public_key.state = "saved"
   /\ IsKeyOf(public_key, signed) /\ printed.data = signed.data
   /\ public_key.version # "falconrec")
    => printed.says = <<"True">>

(* Nothing else is: the signature on file is not valid for other data, nor  *)
(* after another genkeys, nor if it was made with the old private key that  *)
(* a genkeys killed between its two files left beside the new public one.   *)
OnlySignerVerifies ==
  printed.action = "verify" /\ printed.says = <<"True">>
    => signed # Idle /\ IsKeyOf(public_key, signed) /\ printed.data = signed.data

(* What is valid here is valid on the chain, when the contract asked is     *)
(* that of the version.  Python accepts a norm equal to the bound, and the  *)
(* contracts for Falcon do not; but s2 is not in their sum, which is        *)
(* therefore below the bound unless s2 = 0, the case that is left out.      *)
SecondIsZero ==
  /\ public_key.version \in {"falcon", "ethfalcon"}
  /\ ToSet(One!decompress(ToBits(Rest(load_signature))).v) = {0}

ValidOnChain ==
  printed.action = "verify" /\ printed.says = <<"True">> /\ ~SecondIsZero
    => VerifiedOnChain(public_key.version, printed.data) = <<"True">>

(* The command documented in doc/example.md. *)
SignTxPrints ==
  printed.action = "sign_tx" /\ private_key.state = "saved" => printed.says # <<"error">>

=============================================================================
