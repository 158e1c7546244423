--------------------------- MODULE DelegateProofs ---------------------------
(* Machine-checked proofs about Delegate, for every value of its constants. *)
EXTENDS Delegate, TLAPS

(***************************************************************************)
(* A log extension of a log extension is one.                               *)
(***************************************************************************)
LEMMA ExtendsLogTrans ==
  ASSUME NEW S, NEW s1 \in Seq(Message), NEW s2 \in Seq(Message),
         NEW s3 \in Seq(Message),
         AL!ExtendsLog(s1, s2, S), AL!ExtendsLog(s2, s3, S)
  PROVE  AL!ExtendsLog(s1, s3, S)
<1>1. Len(s1) <= Len(s3)
  BY DEF AL!ExtendsLog
<1>2. \A i \in 1 .. Len(s1) : s3[i] = s1[i]
  BY DEF AL!ExtendsLog
<1>3. ASSUME NEW i \in Len(s1) + 1 .. Len(s3)
      PROVE  s3[i] \in S /\ s3[i].nonce = i - 1
  <2>1. CASE i \in Len(s1) + 1 .. Len(s2)
    BY <2>1 DEF AL!ExtendsLog
  <2>2. CASE i \in Len(s2) + 1 .. Len(s3)
    BY <2>2 DEF AL!ExtendsLog
  <2>3. QED
    BY <2>1, <2>2
<1>4. QED
  BY <1>1, <1>2, <1>3 DEF AL!ExtendsLog

(***************************************************************************)
(* A good world is grown out of itself.                                     *)
(***************************************************************************)
LEMMA GrewRefl ==
  ASSUME NEW S, NEW w \in World, GoodWorld(w, S)
  PROVE  Grew(w, w, S)
<1> SUFFICES ASSUME NEW a \in Account
             PROVE  /\ w[a].nonce <= w[a].nonce
                    /\ AL!ExtendsLog(w[a].log, w[a].log, S)
  BY DEF Grew
<1>1. w[a].nonce \in Nat /\ w[a].log \in Seq(Message) /\ Len(w[a].log) \in Nat
  BY DEF World, AccountState
<1>2. \A i \in 1 .. Len(w[a].log) : w[a].log[i].pk = w[a].authorizedPublicKey
  BY DEF GoodWorld, LogSigned
<1>3. AL!ExtendsLog(w[a].log, w[a].log, S)
  BY <1>1, <1>2 DEF AL!ExtendsLog
<1>4. QED
  BY <1>1, <1>3

LEMMA GrewTrans ==
  ASSUME NEW S, NEW w1 \in World, NEW w2 \in World, NEW w3 \in World,
         Grew(w1, w2, S), Grew(w2, w3, S)
  PROVE  Grew(w1, w3, S)
<1> SUFFICES ASSUME NEW a \in Account
             PROVE  /\ w1[a].nonce <= w3[a].nonce
                    /\ AL!ExtendsLog(w1[a].log, w3[a].log, S)
                    /\ w1[a].CoreAddress # Zero =>
                         /\ w3[a].CoreAddress = w1[a].CoreAddress
                         /\ w3[a].algoID = w1[a].algoID
                         /\ w3[a].authorizedPublicKey = w1[a].authorizedPublicKey
  BY DEF Grew
<1>1. /\ w1[a].nonce \in Nat /\ w2[a].nonce \in Nat /\ w3[a].nonce \in Nat
      /\ w1[a].log \in Seq(Message) /\ w2[a].log \in Seq(Message)
      /\ w3[a].log \in Seq(Message)
  BY DEF World, AccountState
<1>2. AL!ExtendsLog(w1[a].log, w3[a].log, S)
  BY <1>1, ExtendsLogTrans DEF Grew
<1>3. QED
  BY <1>1, <1>2 DEF Grew

(***************************************************************************)
(* The two steps that change the world: each leaves a good world, grown out *)
(* of the one before.                                                       *)
(***************************************************************************)
LEMMA InitializeGrows ==
  ASSUME TypeOK, GoodWorld(world, signed),
         NEW a \in Account, NEW id \in AlgoID,
         NEW c \in Verifier \cup {Empty, Zero},
         NEW k \in Key \cup {Empty, Zero},
         initialize(a, id, c, k)
  PROVE  world' \in World /\ GoodWorld(world', signed) /\ Grew(world, world', signed)
<1>1. /\ world' \in World
      /\ world'[a] = [CoreAddress |-> c, authorizedPublicKey |-> k,
                      algoID |-> id, nonce |-> 0, log |-> world[a].log]
  BY DEF TypeOK, World, AccountState, initialize
<1>2. /\ world[a].nonce = 0 /\ world[a].log = << >>
      /\ world'[a].nonce = 0 /\ world'[a].log = << >>
  BY <1>1 DEF TypeOK, World, AccountState, initialize, GoodWorld, UnusedUntilSet, NonceOnce
<1>3. \A b \in Account \ {a} : world'[b] = world[b]
  BY DEF TypeOK, World, initialize
<1>4. GoodWorld(world', signed)
  BY <1>2, <1>3 DEF GoodWorld, NonceOnce, LogSigned, UnusedUntilSet
<1>5. ASSUME NEW b \in Account
      PROVE  /\ world[b].nonce <= world'[b].nonce
             /\ AL!ExtendsLog(world[b].log, world'[b].log, signed)
             /\ world[b].CoreAddress # Zero =>
                  /\ world'[b].CoreAddress = world[b].CoreAddress
                  /\ world'[b].algoID = world[b].algoID
                  /\ world'[b].authorizedPublicKey = world[b].authorizedPublicKey
  <2>1. CASE b = a
    BY <2>1, <1>2 DEF initialize, AL!ExtendsLog
  <2>2. CASE b # a
    BY <2>2, <1>3, GrewRefl DEF TypeOK, World, AccountState, Grew
  <2>3. QED
    BY <2>1, <2>2
<1>6. QED
  BY <1>1, <1>4, <1>5 DEF Grew

LEMMA TransactGrows ==
  ASSUME TypeOK, GoodWorld(world, signed), NEW a \in Account, NEW op \in Op,
         transact(a, op), DelegateAssumption
  PROVE  world' \in World /\ GoodWorld(world', signed) /\ Grew(world, world', signed)
<1> DEFINE m == [pk |-> world[a].authorizedPublicKey,
                 nonce |-> world[a].nonce, op |-> op]
           old == world[a].log
           new == world'[a].log
<1>1. /\ world[a] \in AccountState /\ old \in Seq(Message)
      /\ m \in signed /\ m \in Message /\ world[a].CoreAddress \in Verifier
  BY DEF TypeOK, World, AccountState, transact, Authorized
<1>2. world[a].CoreAddress # Zero
  BY <1>1 DEF DelegateAssumption
<1>3. world' = [world EXCEPT ![a] = Spend(world[a], m)]
  BY DEF transact
<1>4. Spend(world[a], m) \in AccountState
  <2>1. world[a].nonce + 1 \in Nat /\ Append(old, m) \in Seq(Message)
    BY <1>1 DEF AccountState
  <2>2. QED
    BY <1>1, <2>1 DEF AccountState, Spend
<1>5. world' \in World
  BY <1>3, <1>4 DEF TypeOK, World
<1>6. /\ world'[a] = Spend(world[a], m)
      /\ \A b \in Account \ {a} : world'[b] = world[b]
  BY <1>3 DEF TypeOK, World
<1>7. /\ world'[a].nonce = world[a].nonce + 1
      /\ new = Append(old, m)
      /\ world'[a].CoreAddress = world[a].CoreAddress
      /\ world'[a].algoID = world[a].algoID
      /\ world'[a].authorizedPublicKey = world[a].authorizedPublicKey
  BY <1>1, <1>6 DEF AccountState, Spend
<1>8. /\ Len(new) = Len(old) + 1
      /\ \A i \in 1 .. Len(old) : new[i] = old[i]
      /\ new[Len(old) + 1] = m
  BY <1>1, <1>7
<1>9. /\ Len(old) = world[a].nonce
      /\ \A i \in 1 .. Len(old) : /\ old[i].nonce = i - 1
                                  /\ old[i] \in signed
                                  /\ old[i].pk = world[a].authorizedPublicKey
  BY DEF GoodWorld, NonceOnce, LogSigned
<1>10. m.nonce = Len(old) /\ m.pk = world[a].authorizedPublicKey
  BY <1>9
<1>11. world[a].nonce \in Nat /\ Len(old) \in Nat
  BY <1>1 DEF AccountState
<1> HIDE DEF m, old, new
<1>12. \A i \in 1 .. Len(new) : /\ new[i].nonce = i - 1
                                /\ new[i] \in signed
                                /\ new[i].pk = world[a].authorizedPublicKey
  <2> SUFFICES ASSUME NEW i \in 1 .. Len(new)
               PROVE  /\ new[i].nonce = i - 1
                      /\ new[i] \in signed
                      /\ new[i].pk = world[a].authorizedPublicKey
    OBVIOUS
  <2>1. CASE i \in 1 .. Len(old)
    BY <2>1, <1>8, <1>9
  <2>2. CASE i = Len(old) + 1
    BY <2>2, <1>1, <1>8, <1>10, <1>11
  <2>3. QED
    BY <2>1, <2>2, <1>8, <1>11
<1>13. NonceOnce(world'[a]) /\ LogSigned(world'[a], signed) /\ UnusedUntilSet(world'[a])
  <2>1. NonceOnce(world'[a])
    BY <1>7, <1>8, <1>9, <1>12 DEF NonceOnce, new
  <2>2. LogSigned(world'[a], signed)
    BY <1>7, <1>12 DEF LogSigned, new
  <2>3. UnusedUntilSet(world'[a])
    BY <1>2, <1>7 DEF UnusedUntilSet
  <2>4. QED
    BY <2>1, <2>2, <2>3
<1>14. GoodWorld(world', signed)
  BY <1>6, <1>13 DEF GoodWorld
<1>15. AL!ExtendsLog(old, new, signed)
  BY <1>8, <1>11, <1>12 DEF AL!ExtendsLog
<1>16. Grew(world, world, signed)
  BY GrewRefl DEF TypeOK
<1>17. ASSUME NEW b \in Account
       PROVE  /\ world[b].nonce <= world'[b].nonce
              /\ AL!ExtendsLog(world[b].log, world'[b].log, signed)
              /\ world[b].CoreAddress # Zero =>
                   /\ world'[b].CoreAddress = world[b].CoreAddress
                   /\ world'[b].algoID = world[b].algoID
                   /\ world'[b].authorizedPublicKey = world[b].authorizedPublicKey
  <2>1. CASE b = a
    BY <2>1, <1>7, <1>11, <1>15 DEF old, new
  <2>2. CASE b # a
    BY <2>2, <1>6, <1>16 DEF Grew
  <2>3. QED
    BY <2>1, <2>2
<1>18. QED
  BY <1>5, <1>14, <1>17 DEF Grew

(***************************************************************************)
(* What a revert falls back to, and what stays on the stack.                *)
(***************************************************************************)
LEMMA PopStack ==
  ASSUME TypeOK, stack # << >>
  PROVE  /\ Len(stack) \in Nat \ {0}
         /\ SubSeq(stack, 1, Len(stack) - 1) \in Seq(World)
         /\ DOMAIN SubSeq(stack, 1, Len(stack) - 1) = 1 .. Len(stack) - 1
         /\ \A i \in 1 .. Len(stack) - 1 :
              SubSeq(stack, 1, Len(stack) - 1)[i] = stack[i]
         /\ \A i \in 1 .. Len(stack) : stack[i] \in World
BY DEF TypeOK

LEMMA PushStack ==
  ASSUME TypeOK
  PROVE  /\ Append(stack, world) \in Seq(World)
         /\ DOMAIN Append(stack, world) = 1 .. Len(stack) + 1
         /\ \A i \in 1 .. Len(stack) : Append(stack, world)[i] = stack[i]
         /\ Append(stack, world)[Len(stack) + 1] = world
         /\ \A i \in 1 .. Len(stack) : stack[i] \in World
         /\ Len(stack) \in Nat /\ DOMAIN stack = 1 .. Len(stack)
BY DEF TypeOK

(***************************************************************************)
(* Pushing the world on the stack and moving on to one grown out of it      *)
(* preserves the invariant.                                                 *)
(***************************************************************************)
LEMMA PushPreserves ==
  ASSUME IInv, signed' = signed, stack' = Append(stack, world),
         world' \in World, GoodWorld(world', signed), Grew(world, world', signed)
  PROVE  IInv'
<1> USE DEF IInv
<1>1. /\ DOMAIN stack' = 1 .. Len(stack) + 1
      /\ DOMAIN stack = 1 .. Len(stack)
      /\ Len(stack) \in Nat
      /\ \A i \in 1 .. Len(stack) : stack'[i] = stack[i] /\ stack[i] \in World
      /\ stack'[Len(stack) + 1] = world
      /\ world \in World
  BY PushStack DEF TypeOK
<1>2. TypeOK'
  BY PushStack DEF TypeOK
<1>3. \A i \in DOMAIN stack' : GoodWorld(stack'[i], signed')
  BY <1>1
<1>4. Grew(world, world, signed)
  BY <1>1, GrewRefl
<1>5. ASSUME NEW i \in DOMAIN stack'
      PROVE  Grew(stack'[i], world, signed)
  BY <1>1, <1>4 DEF FramesNest
<1>6. ASSUME NEW i \in DOMAIN stack'
      PROVE  Grew(stack'[i], world', signed')
  BY <1>1, <1>5, GrewTrans
<1>7. ASSUME NEW i \in DOMAIN stack', NEW j \in DOMAIN stack', i <= j
      PROVE  Grew(stack'[i], stack'[j], signed')
  <2>1. CASE j = Len(stack) + 1
    BY <2>1, <1>1, <1>5
  <2>2. CASE j # Len(stack) + 1
    <3>1. i \in DOMAIN stack /\ j \in DOMAIN stack
      BY <2>2, <1>1, <1>7
    <3>2. QED
      BY <3>1, <1>1, <1>7 DEF FramesNest
  <2>3. QED
    BY <2>1, <2>2
<1>8. FramesNest'
  BY <1>6, <1>7 DEF FramesNest
<1>9. QED
  BY <1>2, <1>3, <1>8

(***************************************************************************)
(* The steps that leave the stack alone: initialize and Sign.               *)
(***************************************************************************)
LEMMA InitializePreserves ==
  ASSUME IInv, signed' = signed, stack' = stack,
         world' \in World, GoodWorld(world', signed), Grew(world, world', signed)
  PROVE  IInv'
<1> USE DEF IInv
<1>1. TypeOK'
  BY DEF TypeOK
<1>2. ASSUME NEW i \in DOMAIN stack
      PROVE  Grew(stack[i], world', signed)
  <2>1. stack[i] \in World /\ world \in World
    BY DEF TypeOK
  <2>2. QED
    BY <2>1, GrewTrans DEF FramesNest
<1>3. FramesNest'
  BY <1>2 DEF FramesNest
<1>4. QED
  BY <1>1, <1>3

LEMMA SignPreserves ==
  ASSUME IInv, NEW k \in Key, NEW n \in 0 .. MaxNonce - 1, NEW op \in Op,
         Sign(k, n, op), DelegateAssumption
  PROVE  IInv'
<1> USE DEF IInv
<1>1. [pk |-> k, nonce |-> n, op |-> op] \in Message
  BY DEF Message, DelegateAssumption
<1>2. TypeOK'
  BY <1>1 DEF TypeOK, Sign
<1>3. GoodWorld(world', signed')
  BY DEF Sign, GoodWorld, LogSigned
<1>4. stack' = << >> /\ DOMAIN stack' = {}
  BY DEF Sign
<1>5. QED
  BY <1>2, <1>3, <1>4 DEF FramesNest

LEMMA ReturnPreserves ==
  ASSUME IInv, Return
  PROVE  IInv'
<1> USE DEF IInv, Return
<1>1. TypeOK'
  BY PopStack DEF TypeOK
<1>2. /\ DOMAIN stack' = 1 .. Len(stack) - 1
      /\ \A i \in DOMAIN stack' : stack'[i] = stack[i] /\ i \in DOMAIN stack
  BY PopStack DEF TypeOK
<1>3. QED
  BY <1>1, <1>2 DEF FramesNest

LEMMA RevertPreserves ==
  ASSUME IInv, Revert
  PROVE  IInv'
<1> USE DEF IInv, Revert
<1>1. TypeOK'
  BY PopStack DEF TypeOK
<1>2. /\ DOMAIN stack' = 1 .. Len(stack) - 1
      /\ \A i \in DOMAIN stack' : /\ stack'[i] = stack[i]
                                 /\ i \in DOMAIN stack
                                 /\ i <= Len(stack)
      /\ Len(stack) \in DOMAIN stack
  BY PopStack DEF TypeOK
<1>3. FramesNest'
  BY <1>2 DEF FramesNest
<1>4. QED
  BY <1>1, <1>2, <1>3

(***************************************************************************)
(* The invariant is inductive.                                              *)
(***************************************************************************)
LEMMA InitIInv == Init => IInv
<1> SUFFICES ASSUME Init PROVE IInv
  OBVIOUS
<1>1. Unset \in AccountState
  BY DEF Unset, AccountState
<1>2. TypeOK
  BY <1>1 DEF Init, TypeOK, World
<1>3. GoodWorld(world, signed)
  <2>1. ASSUME NEW a \in Account
        PROVE  world[a].nonce = 0 /\ world[a].log = << >>
    BY DEF Init, Unset
  <2>2. Len(<< >>) = 0
    OBVIOUS
  <2>3. \A a \in Account : 1 .. Len(world[a].log) = {} /\ Len(world[a].log) = 0
    <3>1. 1 .. 0 = {}
      OBVIOUS
    <3>2. QED
      BY <2>1, <2>2, <3>1, Zenon
  <2>4. QED
    BY <2>1, <2>3 DEF GoodWorld, NonceOnce, LogSigned, UnusedUntilSet
<1>4. QED
  BY <1>2, <1>3 DEF IInv, Init, FramesNest

LEMMA NextIInv == IInv /\ [Next]_vars => IInv'
<1> SUFFICES ASSUME IInv, [Next]_vars PROVE IInv'
  OBVIOUS
<1>1. TypeOK /\ GoodWorld(world, signed) /\ Grew(world, world, signed)
  BY GrewRefl DEF IInv, TypeOK
<1>2. ASSUME NEW k \in Key, NEW n \in 0 .. MaxNonce - 1, NEW op \in Op,
             Sign(k, n, op)
      PROVE  IInv'
  BY <1>2, SignPreserves, DelegateAssumption
<1>3. CASE Enter
  BY <1>1, <1>3, PushPreserves DEF Enter, TypeOK
<1>4. ASSUME NEW a \in Account, NEW id \in AlgoID,
             NEW c \in Verifier \cup {Empty, Zero},
             NEW k \in Key \cup {Empty, Zero}, initialize(a, id, c, k)
      PROVE  IInv'
  <2>1. signed' = signed /\ stack' = stack
    BY <1>4 DEF initialize
  <2>2. QED
    BY <2>1, <1>1, <1>4, InitializeGrows, InitializePreserves
<1>5. ASSUME NEW a \in Account, NEW op \in Op, transact(a, op)
      PROVE  IInv'
  <2>1. signed' = signed /\ stack' = Append(stack, world)
    BY <1>5 DEF transact
  <2>2. QED
    BY <2>1, <1>1, <1>5, TransactGrows, PushPreserves, DelegateAssumption
<1>6. CASE Return
  BY <1>6, ReturnPreserves
<1>7. CASE Revert
  BY <1>7, RevertPreserves
<1>8. CASE UNCHANGED vars
  BY <1>8 DEF vars, IInv, TypeOK, FramesNest
<1>9. QED
  BY <1>2, <1>3, <1>4, <1>5, <1>6, <1>7, <1>8 DEF Next

(* The invariant holds throughout, whatever the constants are. *)
THEOREM Invariance == Spec => []IInv
BY InitIInv, NextIInv, PTL DEF Spec

(* Every state variable keeps its type. *)
THEOREM TypeCorrect == Spec => []TypeOK
<1>1. IInv => TypeOK
  BY DEF IInv
<1>2. QED
  BY <1>1, Invariance, PTL

(* No nonce is spent twice, at any depth of reentrancy, through any revert. *)
THEOREM NonceSpentOnce == Spec => []EachNonceOnce
<1>1. IInv => EachNonceOnce
  BY DEF IInv, GoodWorld, EachNonceOnce
<1>2. QED
  BY <1>1, Invariance, PTL

(* Nothing is carried out that the key holder did not sign. *)
THEOREM OnlySignedExecuted == Spec => []ExecutedWasSigned
<1>1. IInv => ExecutedWasSigned
  BY DEF IInv, GoodWorld, ExecutedWasSigned
<1>2. QED
  BY <1>1, Invariance, PTL

(***************************************************************************)
(* How the settled world moves: it stays as it is while frames are open or  *)
(* are reverted, changes by initialize() outside any frame, and by the      *)
(* return of the outermost frame to a world grown out of it.                *)
(***************************************************************************)
LEMMA SettledStep ==
  ASSUME IInv, IInv', Next
  PROVE  \/ Settled' = Settled /\ (signed' = signed \/ stack = << >>)
         \/ Grew(Settled, Settled', signed) /\ signed' = signed
         \/ /\ stack = << >> /\ stack' = << >> /\ signed' = signed
            /\ \E a \in Account, id \in AlgoID, c \in Verifier \cup {Empty, Zero},
                 k \in Key \cup {Empty, Zero} : initialize(a, id, c, k)
<1> USE DEF Settled
<1>1. ASSUME stack' = Append(stack, world)
      PROVE  Settled' = Settled
  <2>1. stack' # << >> /\ stack'[1] = IF stack = << >> THEN world ELSE stack[1]
    BY <1>1, PushStack DEF IInv, TypeOK
  <2>2. QED
    BY <2>1
<1>2. ASSUME stack # << >>, stack' = SubSeq(stack, 1, Len(stack) - 1)
      PROVE  \/ stack' # << >> /\ stack'[1] = stack[1]
             \/ stack' = << >> /\ Len(stack) = 1
  <2>1. TypeOK
    BY DEF IInv
  <2>2. CASE Len(stack) = 1
    <3>1. Len(stack') = 0
      BY <2>1, <2>2, <1>2 DEF TypeOK
    <3>2. QED
      BY <3>1, <2>1, <2>2, <1>2, PopStack
  <2>3. CASE Len(stack) # 1
    <3>1. 1 \in 1 .. Len(stack) - 1
      <4>1. Len(stack) \in Nat \ {0}
        BY <2>1, <1>2, PopStack
      <4>2. \A n \in Nat \ {0} : n # 1 => 1 \in 1 .. n - 1
        OBVIOUS
      <4>3. QED
        BY <4>1, <4>2, <2>3
    <3>2. stack'[1] = stack[1] /\ DOMAIN stack' = 1 .. Len(stack) - 1
      BY <3>1, <2>1, <1>2, PopStack
    <3>3. stack' # << >>
      BY <3>1, <3>2
    <3>4. QED
      BY <3>2, <3>3
  <2>4. QED
    BY <2>2, <2>3
<1>3. ASSUME NEW k \in Key, NEW n \in 0 .. MaxNonce - 1, NEW op \in Op,
             Sign(k, n, op)
      PROVE  Settled' = Settled /\ stack = << >>
  BY <1>3 DEF Sign
<1>4. CASE Enter
  BY <1>4, <1>1 DEF Enter
<1>5. ASSUME NEW a \in Account, NEW id \in AlgoID,
             NEW c \in Verifier \cup {Empty, Zero},
             NEW k \in Key \cup {Empty, Zero}, initialize(a, id, c, k)
      PROVE  \/ Settled' = Settled /\ signed' = signed
             \/ stack = << >> /\ stack' = << >> /\ signed' = signed
  BY <1>5 DEF initialize
<1>6. ASSUME NEW a \in Account, NEW op \in Op, transact(a, op)
      PROVE  Settled' = Settled /\ signed' = signed
  BY <1>6, <1>1 DEF transact
<1>7. CASE Return
  <2>1. CASE Len(stack) = 1
    <3>1. 1 \in DOMAIN stack /\ stack # << >>
      BY <2>1, <1>7 DEF Return, IInv, TypeOK
    <3>2. Grew(stack[1], world, signed)
      BY <3>1 DEF IInv, FramesNest
    <3>3. stack' = << >>
      BY <2>1, <1>7, PopStack DEF Return, IInv, TypeOK
    <3>4. QED
      BY <3>1, <3>2, <3>3, <1>7 DEF Return
  <2>2. CASE Len(stack) # 1
    BY <2>2, <1>2, <1>7 DEF Return
  <2>3. QED
    BY <2>1, <2>2
<1>8. CASE Revert
  BY <1>2, <1>8 DEF Revert
<1>9. QED
  BY <1>3, <1>4, <1>5, <1>6, <1>7, <1>8 DEF Next, Enter

LEMMA SettledWorld == IInv => Settled \in World
<1> SUFFICES ASSUME IInv PROVE Settled \in World
  OBVIOUS
<1>1. CASE stack = << >>
  BY <1>1 DEF IInv, TypeOK, Settled
<1>2. CASE stack # << >>
  <2>1. 1 \in DOMAIN stack /\ stack \in Seq(World)
    BY <1>2 DEF IInv, TypeOK
  <2>2. QED
    BY <2>1, <1>2 DEF Settled
<1>3. QED
  BY <1>1, <1>2

(***************************************************************************)
(* Seen from outside its transactions, the contract implements the          *)
(* append-only log of signed operations.                                    *)
(***************************************************************************)
THEOREM Refinement == Spec => ImplementsAuthorizedLog
<1> DEFINE L == [a \in Account |-> Settled[a].log]
<1>1. Init => AL!Init
  BY DEF Init, AL!Init, Settled, Unset
<1>2. ASSUME IInv, IInv', Next
      PROVE  AL!Next \/ UNCHANGED <<L, signed>>
  <2>1. /\ Settled \in World /\ Settled' \in World
        /\ signed \subseteq Message /\ signed' \subseteq Message
        /\ Message = AL!Message
    <3>1. Settled \in World
      BY <1>2, SettledWorld
    <3>2. IInv' => (Settled \in World)'
      BY SettledWorld, PTL
    <3>3. QED
      BY <1>2, <3>1, <3>2 DEF IInv, TypeOK, Message, AL!Message
  <2>2. signed \subseteq signed'
    BY <1>2 DEF Next, Sign, Enter, initialize, transact, Return, Revert
  <2>3. CASE Settled' = Settled
    <3>1. L' = L
      BY <2>3
    <3>2. AL!Sign
      BY <3>1, <2>1, <2>2 DEF AL!Sign
    <3>3. QED
      BY <3>2 DEF AL!Next
  <2>4. CASE Grew(Settled, Settled', signed) /\ signed' = signed
    <3>1. L' \in [Account -> Seq(Message)]
      BY <2>1 DEF World, AccountState
    <3>2. \A a \in Account : AL!ExtendsLog(L[a], L'[a], signed)
      BY <2>4 DEF Grew
    <3>3. AL!Commit
      BY <3>1, <3>2, <2>1, <2>4 DEF AL!Commit
    <3>4. QED
      BY <3>3 DEF AL!Next
  <2>5. ASSUME stack = << >>, stack' = << >>, signed' = signed,
               NEW a \in Account, NEW id \in AlgoID,
               NEW c \in Verifier \cup {Empty, Zero},
               NEW k \in Key \cup {Empty, Zero}, initialize(a, id, c, k)
        PROVE  UNCHANGED <<L, signed>>
    <3>1. \A b \in Account : world'[b].log = world[b].log
      BY <2>5, <1>2 DEF initialize, IInv, TypeOK, World
    <3>2. QED
      BY <3>1, <2>5 DEF Settled
  <2>6. QED
    BY <1>2, <2>3, <2>4, <2>5, SettledStep
<1>3. UNCHANGED vars => UNCHANGED <<L, signed>>
  BY DEF vars, Settled
<1>4. IInv /\ IInv' /\ [Next]_vars => [AL!Next]_<<L, signed>>
  BY <1>2, <1>3
<1>5. QED
  BY <1>1, <1>4, Invariance, PTL DEF Spec, ImplementsAuthorizedLog, AL!Spec

(***************************************************************************)
(* Outside a transaction, an initialized account stays as it was            *)
(* initialized.                                                             *)
(***************************************************************************)
THEOREM KeyForGood == Spec => InitializedForGood
<1> DEFINE Kept == \A a \in Account : Settled[a].CoreAddress # Zero =>
                     /\ Settled'[a].CoreAddress = Settled[a].CoreAddress
                     /\ Settled'[a].algoID = Settled[a].algoID
                     /\ Settled'[a].authorizedPublicKey
                          = Settled[a].authorizedPublicKey
<1>1. ASSUME IInv, IInv', Next
      PROVE  Kept
  <2>1. CASE Grew(Settled, Settled', signed)
    BY <2>1 DEF Grew
  <2>2. ASSUME stack = << >>, stack' = << >>,
               NEW a \in Account, NEW id \in AlgoID,
               NEW c \in Verifier \cup {Empty, Zero},
               NEW k \in Key \cup {Empty, Zero}, initialize(a, id, c, k)
        PROVE  Kept
    BY <2>2, <1>1 DEF initialize, Settled, IInv, TypeOK, World
  <2>3. QED
    BY <1>1, <2>1, <2>2, SettledStep
<1>2. IInv /\ IInv' /\ [Next]_vars => [Kept]_vars
  BY <1>1
<1>3. QED
  BY <1>2, Invariance, PTL DEF Spec, InitializedForGood

=============================================================================
