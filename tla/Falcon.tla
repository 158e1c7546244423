------------------------------- MODULE Falcon -------------------------------
(***************************************************************************)
(* Signing and verification in Python: falcon.py, and the two variants in   *)
(* which the key is recovered, falcon_recovery.py and falcon_epervier.py.   *)
(* A signature is a string of bytes, which the signer puts together and the *)
(* verifier takes apart; between them it may be changed.  The sampler may   *)
(* draw any s1; s0 is then what SecretKey shows that it is, a preimage.     *)
(***************************************************************************)
EXTENDS FalconRing

CONSTANTS
  Keys,            (* the public polynomials h                             *)
  Message, Salt,   (* bound: the messages signed, the salts drawn          *)
  Sampled          (* bound: the polynomials s1 that the sampler draws     *)

ASSUME FalconAssumption ==
  /\ Salt \subseteq [1 .. SALT_LEN -> 0 .. 255]
  /\ Keys \cup Sampled \subseteq [1 .. n -> Int]

VARIABLES
  variant,        (* which of the three classes is in use                  *)
  h,              (* the public polynomial of the signer                   *)
  pc,
  message, xof,   (* the arguments of sign()                               *)
  salt, hashed,   (* its variables                                         *)
  sig,            (* what it returned                                      *)
  received,       (* the arguments of verify(), or recover()               *)
  result          (* what that returned                                    *)

vars == <<variant, h, pc, message, xof, salt, hashed, sig, received, result>>

Variant == {"falcon", "recovery", "epervier"}

Xof == {"KeccakPRNG", "SHAKE", "Blake2sPRNG"}

(* The public key: h itself, or the address made of h, or of its transform. *)
pkFalcon == h

pkRecovery == Address(h)

pkEpervier == Address(ntt(h))

Init ==
  /\ variant \in Variant
  /\ h \in Keys
  /\ pc = "idle"
  /\ message = << >> /\ xof = "KeccakPRNG"
  /\ salt = << >> /\ hashed = << >> /\ sig = << >>
  /\ received = << >> /\ result = << >>

(* sign(), until its loop. *)
sign(m, x) ==
  /\ pc = "idle"
  /\ message' = m
  /\ xof' = x
  /\ \E r \in Salt : salt' = r /\ hashed' = hash_to_point(m, r, x)
  /\ pc' = "signing"
  /\ UNCHANGED <<variant, h, sig, received, result>>

(* One pass of the loop, when it is the last: the preimage is short and its *)
(* encoding fits; with recovery, s1 has an inverse, which is sent.          *)
signFalcon(s0, s1) ==
  /\ Short(s0, s1) /\ One!Fits(s1)
  /\ sig' = SignatureOf(salt, s1)

signRecovery(s0, s1) ==
  /\ Invertible(ntt(s1)) /\ Short(s0, s1) /\ Two!Fits(s0 \o s1)
  /\ sig' = SignatureOfPair(salt, s0, s1)

signEpervier(s0, s1) ==
  /\ Invertible(ntt(s1)) /\ Short(s0, s1) /\ Two!Fits(s0 \o s1)
  /\ sig' = SignatureOfPair(salt, s0, s1)

Signed ==
  /\ pc = "signing"
  /\ \E s1 \in Sampled, s0 \in {Centred(Minus(hashed, Times(s1, h))) : s1 \in Sampled} :
       /\ s0 = Centred(Minus(hashed, Times(s1, h)))
       /\ \/ variant = "falcon" /\ signFalcon(s0, s1)
          \/ variant = "recovery" /\ signRecovery(s0, s1)
          \/ variant = "epervier" /\ signEpervier(s0, s1)
  /\ pc' = "signed"
  /\ UNCHANGED <<variant, h, message, xof, salt, hashed, received, result>>

(* What reaches the verifier: the signature with its message and its XOF,   *)
(* or one of these changed; of the signature, one bit, or its last byte.    *)
(* Bound: of the salt, only its first and last bytes change.                *)
Flipped(s, i, b) == [s EXCEPT ![i] = IF (@ \div 2^b) % 2 = 1 THEN @ - 2^b ELSE @ + 2^b]

Deliver ==
  /\ pc = "signed"
  /\ received' \in
       {[message |-> m, xof |-> x, sig |-> sig] : m \in Message, x \in Xof}
         \cup {[message |-> message, xof |-> xof, sig |-> s] :
                 s \in {Flipped(sig, i, b) : i \in DOMAIN sig \ (3 .. SALT_LEN), b \in 0 .. 7}
                         \cup {SubSeq(sig, 1, Len(sig) - 1)}}
  /\ pc' = "received"
  /\ UNCHANGED <<variant, h, message, xof, salt, hashed, sig, result>>

Answer(r) ==
  /\ pc' = "answered"
  /\ result' = r
  /\ UNCHANGED <<variant, h, message, xof, salt, hashed, sig, received>>

Verify ==
  /\ pc = "received" /\ variant = "falcon"
  /\ Answer(verify(pkFalcon, received.message, received.sig, received.xof))

Recover ==
  /\ pc = "received" /\ variant = "recovery"
  /\ Answer(recover(received.message, received.sig, received.xof))

RecoverEpervier ==
  /\ pc = "received" /\ variant = "epervier"
  /\ Answer(recoverEpervier(received.message, received.sig, received.xof))

Next ==
  \/ \E m \in Message, x \in Xof : sign(m, x)
  \/ Signed
  \/ Deliver
  \/ Verify
  \/ Recover
  \/ RecoverEpervier

Spec == Init /\ [][Next]_vars

(***************************************************************************)
(* Properties                                                               *)
(***************************************************************************)

(* verify() of the variants: what is recovered is the key. *)
verifyRecovery == result = pkRecovery

verifyEpervier == result = pkEpervier

Accepted ==
  /\ pc = "answered"
  /\ CASE variant = "falcon" -> result = <<"True">>
       [] variant = "recovery" -> verifyRecovery
       [] variant = "epervier" -> verifyEpervier

(* A signature that arrives as it was made is accepted: the two sides agree *)
(* on the bytes, on the ring, on what is hashed and in which order, with    *)
(* each XOF.                                                                *)
SignedIsAccepted ==
  pc = "answered" /\ received = [message |-> message, xof |-> xof, sig |-> sig] => Accepted

(* Whatever arrives, what is accepted holds a short preimage, under the     *)
(* signer's key, of the point that the message hashes to.                   *)
AcceptedIsPreimage ==
  Accepted =>
    LET v == IF variant = "falcon" THEN One!decompress(ToBits(Rest(received.sig))).v
             ELSE Two!decompress(ToBits(RestUpToInverse(received.sig))).v
        s1 == SubSeq(v, Len(v) - n + 1, Len(v))
        hashedNow == hash_to_point(received.message, SaltOf(received.sig), received.xof)
        s0 == Centred(Minus(hashedNow, Times(s1, h)))
    IN  Short(s0, s1) /\ (variant # "falcon" => s0 = SubSeq(v, 1, n))

=============================================================================
