----------------------------- MODULE CompDecode -----------------------------
(***************************************************************************)
(* comp_decode (codec.c), called for a buffer that must be used up exactly  *)
(* (crypto_sign_open, nist.c).                                              *)
(***************************************************************************)
EXTENDS Compression

CONSTANT MEMORY  (* bytes of memory from the signature on                  *)

VARIABLES
  mem,   (* the memory from the signature on                               *)
  len,   (* max_in_len: the bytes of it that are the signature             *)
  pc,
  acc,   (* the acc_len low bits of acc                                    *)
  v,     (* bytes read                                                     *)
  s, m,  (* sign bit and absolute value of the coefficient being read      *)
  x      (* the coefficients read                                          *)

vars == <<mem, len, pc, acc, v, s, m, x>>

TypeOK ==
  /\ mem \in [1 .. MEMORY -> Byte] /\ len \in 0 .. MEMORY
  /\ pc \in {"idle", "head", "high", "done", "failed"}
  /\ acc \in Seq(Bit) /\ Len(acc) < BYTE
  /\ v \in 0 .. len
  /\ s \in Bit
  /\ m \in 0 .. MAX
  /\ x \in Seq(-MAX .. MAX) /\ Len(x) <= n

Init ==
  /\ mem = [k \in 1 .. MEMORY |-> Zeros(BYTE)] /\ len = 0
  /\ pc = "idle"
  /\ acc = << >>
  /\ v = 0
  /\ s = 0 /\ m = 0
  /\ x = << >>

comp_decode(bytes, k) ==
  /\ pc = "idle"
  /\ mem' = bytes
  /\ len' = k
  /\ pc' = "head"
  /\ UNCHANGED <<acc, v, s, m, x>>

Fail == pc' = "failed" /\ UNCHANGED <<acc, v, s, m, x>>

(* The sign and the low bits. *)
Low ==
  LET bits == acc \o mem[v + 1] IN
  /\ pc = "head" /\ Len(x) < n
  /\ IF v >= len
     THEN Fail
     ELSE /\ s' = bits[1]
          /\ m' = Number(SubSeq(bits, 2, BYTE))
          /\ acc' = SubSeq(bits, BYTE + 1, Len(bits))
          /\ v' = v + 1
          /\ pc' = "high"
          /\ UNCHANGED x
  /\ UNCHANGED <<mem, len>>

(* A fault: a negative zero is read as zero. *)
HighAnyZero ==
  LET bits == IF acc = << >> THEN mem[v + 1] ELSE acc IN
  /\ pc = "high"
  /\ IF \/ acc = << >> /\ v >= len
        \/ bits[1] = 0 /\ m + 2^LOW > MAX
     THEN Fail
     ELSE /\ acc' = Tail(bits)
          /\ v' = IF acc = << >> THEN v + 1 ELSE v
          /\ IF bits[1] = 0
             THEN m' = m + 2^LOW /\ UNCHANGED <<pc, x>>
             ELSE /\ x' = Append(x, IF s = 1 THEN -m ELSE m)
                  /\ pc' = "head"
                  /\ UNCHANGED m
          /\ UNCHANGED s
  /\ UNCHANGED <<mem, len>>

(* The high bits, one by one, up to a 1; "-0" is forbidden. *)
High ==
  LET bits == IF acc = << >> THEN mem[v + 1] ELSE acc IN
  /\ pc = "high"
  /\ IF \/ acc = << >> /\ v >= len
        \/ bits[1] = 0 /\ m + 2^LOW > MAX
        \/ bits[1] = 1 /\ s = 1 /\ m = 0
     THEN Fail
     ELSE /\ acc' = Tail(bits)
          /\ v' = IF acc = << >> THEN v + 1 ELSE v
          /\ IF bits[1] = 0
             THEN m' = m + 2^LOW /\ UNCHANGED <<pc, x>>
             ELSE /\ x' = Append(x, IF s = 1 THEN -m ELSE m)
                  /\ pc' = "head"
                  /\ UNCHANGED m
          /\ UNCHANGED s
  /\ UNCHANGED <<mem, len>>

(* Unused bits must be zero, and (in crypto_sign_open) all bytes read. *)
Finish ==
  /\ pc = "head" /\ Len(x) = n
  /\ pc' = IF v = len /\ \A b \in DOMAIN acc : acc[b] = 0 THEN "done" ELSE "failed"
  /\ UNCHANGED <<mem, len, acc, v, s, m, x>>

Pass == Low \/ High \/ Finish

=============================================================================
