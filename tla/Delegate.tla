------------------------------ MODULE Delegate ------------------------------
(***************************************************************************)
(* ZKNOX_Verifier (src/ZKNOX_delegate_7702.sol): the contract an account    *)
(* delegates to (EIP-7702) so that a Falcon signature authorises what it    *)
(* does.                                                                    *)
(*                                                                         *)
(* The account's storage lives in a world the EVM can roll back.  `stack'   *)
(* holds, per open call frame, the world to return to if that frame         *)
(* reverts.  While a frame is open the code that runs is not the            *)
(* contract's: it may call any entry point of any account again, open       *)
(* frames of its own, return, or revert -- which is how transact() is       *)
(* re-entered from the call it makes, and how its effects are undone by a   *)
(* caller further out.                                                      *)
(*                                                                         *)
(* Abstracted: the polynomial arithmetic behind Core.verify (a message      *)
(* verifies under a key iff the holder of that key signed it), ether        *)
(* balances (a transfer that cannot be paid is one of the ways a call       *)
(* fails), and the views isValid, GetPublicKey and GetStorage.              *)
(***************************************************************************)
EXTENDS Integers, Sequences

CONSTANTS
  Account,   (* accounts that delegate to the contract                     *)
  Key,       (* addresses whose code is a public key polynomial            *)
  Op,        (* the triples <<to, data, val>>                              *)
  Verifier,  (* addresses of ISigVerifier contracts                        *)
  Empty,     (* an address without code (reads as the zero polynomial)     *)
  Zero,      (* address(0)                                                 *)
  AlgoID,    (* algorithm identifiers of ZKNOX_common.sol                  *)
  MaxNonce,  (* bound: messages are signed for nonces below it             *)
  MaxDepth   (* bound: the EVM limits nested calls to 1024                 *)

ASSUME DelegateAssumption ==
  /\ MaxNonce \in Nat
  /\ MaxDepth \in Nat
  /\ Empty # Zero
  /\ {Empty, Zero} \cap (Key \cup Verifier) = {}

VARIABLES
  world,   (* world[a] is the storage of account a, and the log of the     *)
           (* operations it carried out                                    *)
  stack,   (* the worlds the open call frames would revert to              *)
  signed   (* the messages key holders have signed, off chain              *)

vars == <<world, stack, signed>>

Message == [pk : Key, nonce : Nat, op : Op]

AccountState ==
  [CoreAddress : Verifier \cup {Empty, Zero},
   authorizedPublicKey : Key \cup {Empty, Zero},
   algoID : AlgoID \cup {0},
   nonce : Nat,
   log : Seq(Message)]

World == [Account -> AccountState]

TypeOK ==
  /\ world \in World
  /\ stack \in Seq(World)
  /\ signed \subseteq Message

Unset == [CoreAddress |-> Zero, authorizedPublicKey |-> Zero, algoID |-> 0,
          nonce |-> 0, log |-> << >>]

Init ==
  /\ world = [a \in Account |-> Unset]
  /\ stack = << >>
  /\ signed = {}

(***************************************************************************)
(* A key holder signs abi.encode(nonce, to, data, val).  Whatever a         *)
(* transaction uses is in its calldata, or on chain, before it starts: no   *)
(* signature appears while frames are open.                                 *)
(***************************************************************************)
Sign(k, n, op) ==
  /\ stack = << >>
  /\ signed' = signed \cup {[pk |-> k, nonce |-> n, op |-> op]}
  /\ UNCHANGED <<world, stack>>

(***************************************************************************)
(* A caller's contract opens a frame (CallExecutor.executeCall is one).     *)
(***************************************************************************)
Enter ==
  /\ Len(stack) < MaxDepth
  /\ stack' = Append(stack, world)
  /\ UNCHANGED <<world, signed>>

(* A fault: initialize() without its guard. *)
initializeAgain(a, iAlgoID, iCore, iPublicKey) ==
  /\ world' = [world EXCEPT ![a] = [CoreAddress |-> iCore,
                                    authorizedPublicKey |-> iPublicKey,
                                    algoID |-> iAlgoID,
                                    nonce |-> 0,
                                    log |-> world[a].log]]
  /\ UNCHANGED <<stack, signed>>

(***************************************************************************)
(* initialize(): guarded by the core address alone, so that a first call    *)
(* with iCore = 0 leaves the account open to another.                       *)
(***************************************************************************)
initialize(a, iAlgoID, iCore, iPublicKey) ==
  /\ world[a].CoreAddress = Zero
  /\ world' = [world EXCEPT ![a] = [CoreAddress |-> iCore,
                                    authorizedPublicKey |-> iPublicKey,
                                    algoID |-> iAlgoID,
                                    nonce |-> 0,
                                    log |-> world[a].log]]
  /\ UNCHANGED <<stack, signed>>

(* A fault: the signature is not checked. *)
AuthorizedUnverified(st, m) ==
  st.authorizedPublicKey # Zero /\ st.CoreAddress \in Verifier

(***************************************************************************)
(* What the requires of transact() let through.  A call to an address       *)
(* without code reverts; a key address without code extracts as zeros.      *)
(***************************************************************************)
Authorized(st, m) ==
  /\ st.authorizedPublicKey # Zero
  /\ st.CoreAddress \in Verifier
  /\ st.authorizedPublicKey # Empty
  /\ m.pk = st.authorizedPublicKey
  /\ m \in signed

(* A fault: the nonce is read and not advanced. *)
SpendNothing(st, m) == [st EXCEPT !.log = Append(st.log, m)]

(* nonce++, and the operation the account is about to carry out. *)
Spend(st, m) ==
  [st EXCEPT !.nonce = st.nonce + 1, !.log = Append(st.log, m)]

(***************************************************************************)
(* transact() up to its external call: the nonce is spent before the call,  *)
(* and the frame stays open while the callee runs.  A call that fails a     *)
(* require reverts at once and changes nothing: it is not a step.           *)
(***************************************************************************)
transact(a, op) ==
  LET st == world[a]
      digest == [pk |-> st.authorizedPublicKey, nonce |-> st.nonce, op |-> op]
  IN
  /\ Len(stack) < MaxDepth
  /\ Authorized(st, digest)
  /\ world' = [world EXCEPT ![a] = Spend(st, digest)]
  /\ stack' = Append(stack, world)
  /\ UNCHANGED signed

(***************************************************************************)
(* The innermost frame ends.  For a frame of transact() this is the return  *)
(* of to.call{value: val}(data): on success the function returns, on        *)
(* failure require(success) reverts the frame, the spent nonce included.    *)
(***************************************************************************)
Return ==
  /\ stack # << >>
  /\ stack' = SubSeq(stack, 1, Len(stack) - 1)
  /\ UNCHANGED <<world, signed>>

Revert ==
  /\ stack # << >>
  /\ world' = stack[Len(stack)]
  /\ stack' = SubSeq(stack, 1, Len(stack) - 1)
  /\ UNCHANGED signed

Next ==
  \/ \E k \in Key, n \in 0 .. MaxNonce - 1, op \in Op : Sign(k, n, op)
  \/ Enter
  \/ \E a \in Account, id \in AlgoID, c \in Verifier \cup {Empty, Zero},
        k \in Key \cup {Empty, Zero} : initialize(a, id, c, k)
  \/ \E a \in Account, op \in Op : transact(a, op)
  \/ Return
  \/ Revert

Spec == Init /\ [][Next]_vars

(***************************************************************************)
(* Properties                                                               *)
(***************************************************************************)

(* The world as the chain shows it: effects of open frames are not final. *)
Settled == IF stack = << >> THEN world ELSE stack[1]

(* Replay protection (the comment on `nonce'), also while a call made by    *)
(* transact() is running and may re-enter it: the n-th operation an account *)
(* carried out bears nonce n - 1, and the next free nonce is one that no    *)
(* carried out operation, finished or in progress, has used.                *)
NonceOnce(st) ==
  /\ Len(st.log) = st.nonce
  /\ \A i \in 1 .. Len(st.log) : st.log[i].nonce = i - 1

EachNonceOnce == \A a \in Account : NonceOnce(world[a])

(* Every operation an account carried out was signed, with that nonce, by   *)
(* the holder of the key the account is initialized with -- so a second     *)
(* initialize() never hands an account with a history to another key.       *)
LogSigned(st, S) ==
  \A i \in 1 .. Len(st.log) :
    st.log[i] \in S /\ st.log[i].pk = st.authorizedPublicKey

ExecutedWasSigned == \A a \in Account : LogSigned(world[a], signed)

(* An account without a verifier has never acted: the branch of             *)
(* initialize() that is still open cannot reset a spent nonce.              *)
UnusedUntilSet(st) == st.CoreAddress = Zero => st.nonce = 0

AL == INSTANCE AuthorizedLog
        WITH log <- [a \in Account |-> Settled[a].log]

(* Whatever frames open, re-enter and revert inside a transaction, the      *)
(* chain sees a log of signed operations that only grows.                   *)
ImplementsAuthorizedLog == AL!Spec

(* What open frames can fall back to is always a world the current one      *)
(* grew out of: rollback never loses more than the frame's own effects, and *)
(* never resurrects a nonce that an outer frame has spent.                  *)
Grew(w1, w2, S) ==
  \A a \in Account :
    /\ w1[a].nonce <= w2[a].nonce
    /\ AL!ExtendsLog(w1[a].log, w2[a].log, S)
    /\ w1[a].CoreAddress # Zero =>
         /\ w2[a].CoreAddress = w1[a].CoreAddress
         /\ w2[a].algoID = w1[a].algoID
         /\ w2[a].authorizedPublicKey = w1[a].authorizedPublicKey

FramesNest ==
  /\ \A i, j \in DOMAIN stack : i <= j => Grew(stack[i], stack[j], signed)
  /\ \A i \in DOMAIN stack : Grew(stack[i], world, signed)

(* The inductive invariant: what holds of the world holds of every world a  *)
(* revert can bring back, and those worlds nest.                            *)
GoodWorld(w, S) ==
  \A a \in Account :
    NonceOnce(w[a]) /\ LogSigned(w[a], S) /\ UnusedUntilSet(w[a])

IInv ==
  /\ TypeOK
  /\ GoodWorld(world, signed)
  /\ \A i \in DOMAIN stack : GoodWorld(stack[i], signed)
  /\ FramesNest

(* Once a verifier is set and the transaction is over, the verifier, the    *)
(* algorithm and the key are the account's for good.                        *)
InitializedForGood ==
  [][\A a \in Account : Settled[a].CoreAddress # Zero =>
       /\ Settled'[a].CoreAddress = Settled[a].CoreAddress
       /\ Settled'[a].algoID = Settled[a].algoID
       /\ Settled'[a].authorizedPublicKey = Settled[a].authorizedPublicKey]_vars

=============================================================================
