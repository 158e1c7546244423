---------------------------- MODULE DecompressSig ----------------------------
(***************************************************************************)
(* _decompress_sig (ZKNOX_falcon_encodings.sol).  It reads memory without   *)
(* looking where the signature ends -- what lies behind it is read like the *)
(* signature -- and only at the end compares what it read with a constant.  *)
(***************************************************************************)
EXTENDS Compression

CONSTANTS
  q,           (* modulus                                                  *)
  MEMORY,      (* bytes of memory from the signature on                    *)
  max_in_len   (* 666                                                      *)

VARIABLES
  mem,   (* the memory from the signature on; it stays as it is            *)
  pc,
  acc,   (* the acc_len low bits of acc                                    *)
  v,     (* bytes read                                                     *)
  s, m,  (* sign bit and absolute value of the coefficient being read      *)
  x      (* the coefficients read                                          *)

vars == <<pc, acc, v, s, m, x>>

TypeOK ==
  /\ pc \in {"idle", "head", "high", "done", "reverted"}
  /\ acc \in Seq(Bit) /\ Len(acc) < BYTE
  /\ v \in 0 .. MEMORY
  /\ s \in Bit
  /\ m \in 0 .. MAX
  /\ x \in Seq(0 .. q) /\ Len(x) <= n

Init ==
  /\ pc = "idle"
  /\ acc = << >>
  /\ v = 0
  /\ s = 0 /\ m = 0
  /\ x = << >>

_decompress_sig ==
  /\ pc = "idle"
  /\ pc' = "head"
  /\ UNCHANGED <<acc, v, s, m, x>>

Low ==
  LET bits == acc \o mem[v + 1] IN
  /\ pc = "head" /\ Len(x) < n
  /\ s' = bits[1]
  /\ m' = Number(SubSeq(bits, 2, BYTE))
  /\ acc' = SubSeq(bits, BYTE + 1, Len(bits))
  /\ v' = v + 1
  /\ pc' = "high"
  /\ UNCHANGED x

(* A fault: the sign of a coefficient without high bits is lost. *)
HighSignLost ==
  LET bits == IF acc = << >> THEN mem[v + 1] ELSE acc IN
  /\ pc = "high"
  /\ acc' = Tail(bits)
  /\ v' = IF acc = << >> THEN v + 1 ELSE v
  /\ IF bits[1] = 0
     THEN IF m + 2^LOW > MAX
          THEN pc' = "reverted" /\ UNCHANGED <<m, x>>
          ELSE m' = m + 2^LOW /\ UNCHANGED <<pc, x>>
     ELSE /\ x' = Append(x, IF s = 1 /\ m >= 2^LOW THEN q - m ELSE m)
          /\ pc' = "head"
          /\ UNCHANGED m
  /\ UNCHANGED s

(* The test for "-0" is commented out: it is stored as q. *)
High ==
  LET bits == IF acc = << >> THEN mem[v + 1] ELSE acc IN
  /\ pc = "high"
  /\ acc' = Tail(bits)
  /\ v' = IF acc = << >> THEN v + 1 ELSE v
  /\ IF bits[1] = 0
     THEN IF m + 2^LOW > MAX
          THEN pc' = "reverted" /\ UNCHANGED <<m, x>>
          ELSE m' = m + 2^LOW /\ UNCHANGED <<pc, x>>
     ELSE /\ x' = Append(x, IF s = 1 THEN q - m ELSE m)
          /\ pc' = "head"
          /\ UNCHANGED m
  /\ UNCHANGED s

(* "too long" *)
Finish ==
  /\ pc = "head" /\ Len(x) = n
  /\ pc' = IF v >= max_in_len THEN "reverted" ELSE "done"
  /\ UNCHANGED <<acc, v, s, m, x>>

Pass == Low \/ High \/ Finish

=============================================================================
