---------------------------- MODULE AuthorizedLog ----------------------------
(***************************************************************************)
(* What a delegated account promises its owner: the operations it has      *)
(* carried out form, per account, a log that is only ever extended, every   *)
(* entry of which the owner of the account's key signed, at the position    *)
(* the signature names, under a key that never changes.                     *)
(*                                                                         *)
(* Transactions are atomic here.  Call frames, reentrancy and rollback are  *)
(* the concern of module Delegate, which implements this specification.     *)
(***************************************************************************)
EXTENDS Integers, Sequences

CONSTANTS
  Account,  (* the delegating accounts                                     *)
  Key,      (* the public keys                                             *)
  Op        (* the operations <<to, data, val>> an account can be asked    *)

VARIABLES
  log,      (* log[a] is the sequence of messages account a carried out    *)
  signed    (* the messages signed so far                                  *)

Message == [pk : Key, nonce : Nat, op : Op]

(* new is old followed by signed messages, each at the position it names. *)
ExtendsLog(old, new, S) ==
  /\ Len(old) <= Len(new)
  /\ \A i \in 1 .. Len(old) : new[i] = old[i]
  /\ \A i \in Len(old) + 1 .. Len(new) : new[i] \in S /\ new[i].nonce = i - 1
  /\ \A i, j \in 1 .. Len(new) : new[i].pk = new[j].pk

Init ==
  /\ log = [a \in Account |-> << >>]
  /\ signed = {}

Sign ==
  /\ signed \subseteq signed'
  /\ signed' \subseteq Message
  /\ UNCHANGED log

(* One transaction may carry out several operations, on several accounts. *)
Commit ==
  /\ log' \in [Account -> Seq(Message)]
  /\ \A a \in Account : ExtendsLog(log[a], log'[a], signed)
  /\ UNCHANGED signed

Next == Sign \/ Commit

Spec == Init /\ [][Next]_<<log, signed>>

=============================================================================
