------------------------------ MODULE NttConfig ------------------------------
(***************************************************************************)
(* The stateful part of ZKNOX_NTT.sol: the addresses of the precomputed     *)
(* powers of psi, the modulus, and an "antifuse" that is to make them       *)
(* final.  Every function is public, and anyone calls it.                   *)
(***************************************************************************)
EXTENDS Integers

CONSTANTS
  Address,  (* of contracts that hold a table                              *)
  Modulus   (* the pairs <<q, nm1modq>>                                    *)

VARIABLES
  tables,        (* o_psirev, o_psi_inv_rev, storage_q and storage_nm1modq *)
  is_immutable,
  sealed         (* has make_immutable() been called?                      *)

vars == <<tables, is_immutable, sealed>>

Tables == [o_psirev : Address, o_psi_inv_rev : Address, q_nm1modq : Modulus]

(* The constructor sets the antifuse. *)
Init ==
  /\ tables \in Tables
  /\ is_immutable = 1
  /\ sealed = FALSE

(* is_immutable > 0 lets the update through. *)
update(t) ==
  /\ is_immutable > 0
  /\ tables' = t
  /\ UNCHANGED <<is_immutable, sealed>>

make_immutable ==
  /\ is_immutable' = 1
  /\ sealed' = TRUE
  /\ UNCHANGED tables

Next == make_immutable \/ \E t \in Tables : update(t)

Spec == Init /\ [][Next]_vars

(* ZKNOX_NTT.sol on make_immutable: "by calling this function, the contract *)
(* storage variables cannot be modified".                                   *)
ImmutableTables == [][sealed => UNCHANGED tables]_vars

=============================================================================
