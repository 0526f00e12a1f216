---------------------------- MODULE RecoverProofs ----------------------------
(***************************************************************************)
(* Proofs about Recover, for any number of keys, any balances, fees,       *)
(* faults and forgotten transfers.                                         *)
(***************************************************************************)
EXTENDS Recover, TLAPS

USE KeysAssumption, AmountAssumption, BoundAssumption DEF Keys, NoTx

(* The loop counter fits the place the process is in, and what is to be    *)
(* sent is never too low.                                                  *)
LoopInv ==
    /\ pc \in {"balance", "nonce", "send"} => i < stop
    /\ wait => stop = Count
    /\ pc \in {"wait", "done"} /\ wait => i = stop
    /\ pc \in {"nonce", "send"} => ~TooLow(balance)

(* A read value may be stale, but only in one direction: balances fall and *)
(* nonces rise.                                                            *)
ReadInv ==
    /\ pc \in {"nonce", "send"} => balance >= bal[i]
    /\ pc = "send" => txNonce <= nonce[i]

ChainInv ==
    \A a \in Keys :
        /\ pend[a] # NoTx =>
               pend[a] > 0 /\ pend[a] + Reserve = bal[a] /\ others[a] = NoTx /\ receipt[a] = "none"
        /\ receipt[a] = "ok" => payable /\ bal[a] <= Reserve /\ others[a] = NoTx
        /\ receipt[a] = "reverted" => ~payable
        /\ others[a] <= bal[a]

(* What a scan has passed is dust or sent, and what it no longer waits for *)
(* is included.                                                            *)
Left(a) == Dust(a) \/ (a \in recovered /\ Sent(a))

ScanInv ==
    /\ wait => \A a \in 0..(i - 1) : Left(a)
    /\ wait /\ pc \in {"wait", "done"} => \A a \in recovered \ pending : receipt[a] # "none"

Inv == TypeOK /\ LoopInv /\ ReadInv /\ ChainInv /\ ScanInv

LEMMA InitInv == Init => Inv
<1> SUFFICES ASSUME Init PROVE Inv
  OBVIOUS
<1>1. bal \in [Keys -> Nat]
  BY DEF Init
<1>2. TypeOK
  <2>1. /\ nonce \in [Keys -> Nat] /\ pend \in [Keys -> Nat \cup {NoTx}]
        /\ others \in [Keys -> Nat \cup {NoTx}] /\ payable \in BOOLEAN
        /\ receipt \in [Keys -> {"none", "ok", "reverted"}]
    BY DEF Init
  <2>2. /\ faults \in 0..MaxFaults /\ drops \in 0..MaxDrops /\ i \in 0..NumKeys
        /\ stop \in 0..NumKeys /\ balance \in Nat /\ txNonce \in Nat
    BY DEF Init
  <2>3. /\ pc \in Ended /\ wait \in BOOLEAN /\ dropped \subseteq Keys
        /\ recovered \subseteq Keys /\ pending \subseteq recovered
    BY DEF Init, Ended
  <2> QED
    BY <1>1, <2>1, <2>2, <2>3 DEF TypeOK
<1>3. LoopInv /\ ReadInv /\ ChainInv /\ ScanInv
  BY <1>1 DEF Init, LoopInv, ReadInv, ChainInv, ScanInv
<1> QED
  BY <1>2, <1>3 DEF Inv

-----------------------------------------------------------------------------
(* One lemma per group of actions.                                         *)

LEMMA StartStep ==
  ASSUME Inv, Scan \/ \E a \in Keys : SweepKey(a)
  PROVE  Inv'
<1> USE DEF Inv, chainVars
<1>1. /\ i' \in 0..NumKeys /\ stop' \in 0..NumKeys /\ i' <= stop'
      /\ wait' \in BOOLEAN /\ (wait' => i' = 0 /\ stop' = Count)
      /\ pc' = IF i' < stop' THEN "balance" ELSE "done"
      /\ recovered' = {} /\ pending' = {}
  <2>1. CASE Scan
    BY <2>1 DEF Scan, Start
  <2>2. ASSUME NEW a \in Keys, SweepKey(a)
        PROVE  /\ i' \in 0..NumKeys /\ stop' \in 0..NumKeys /\ i' <= stop'
               /\ wait' = FALSE
               /\ pc' = IF i' < stop' THEN "balance" ELSE "done"
               /\ recovered' = {} /\ pending' = {}
    BY <2>2 DEF SweepKey, Start
  <2> QED
    BY <2>1, <2>2
<1>2. UNCHANGED <<chainVars, faults, drops, balance, txNonce>>
  BY DEF Scan, SweepKey, Start, readVars
<1>3. TypeOK'
  BY <1>1, <1>2 DEF TypeOK, Ended
<1>4. LoopInv' /\ ReadInv'
  BY <1>1, <1>2 DEF TypeOK, LoopInv, ReadInv
<1>5. ChainInv'
  BY <1>2 DEF ChainInv
<1>6. ScanInv'
  <2>1. wait' => 0..(i' - 1) = {}
    BY <1>1
  <2>2. recovered' \ pending' = {}
    BY <1>1
  <2> QED
    BY <2>1, <2>2 DEF ScanInv
<1> QED
  BY <1>3, <1>4, <1>5, <1>6

LEMMA ReadStep ==
  ASSUME Inv, GetBalance \/ GetNonce
  PROVE  Inv'
<1> USE DEF Inv, chainVars, loopVars
<1>1. CASE GetNonce
  <2>0. TypeOK'
    BY <1>1, SMTT(30) DEF TypeOK, Ended, GetNonce, LoopInv
  <2>1. LoopInv'
    BY <1>1 DEF TypeOK, GetNonce, LoopInv
  <2>2. ReadInv' /\ ChainInv'
    BY <1>1 DEF TypeOK, GetNonce, ReadInv, ChainInv, LoopInv
  <2>3. ScanInv'
    BY <1>1 DEF TypeOK, GetNonce, ScanInv, Left, Dust, Sent
  <2> QED
    BY <2>0, <2>1, <2>2, <2>3
<1>2. CASE GetBalance /\ ~TooLow(bal[i])
  <2>0. TypeOK'
    <3>1. bal[i] \in Nat
      BY <1>2 DEF TypeOK, GetBalance, LoopInv
    <3> QED
      BY <1>2, <3>1 DEF TypeOK, GetBalance
  <2>1. LoopInv'
    BY <1>2 DEF TypeOK, GetBalance, LoopInv
  <2>2. ReadInv' /\ ChainInv'
    BY <1>2 DEF TypeOK, GetBalance, ReadInv, ChainInv, LoopInv
  <2>3. ScanInv'
    BY <1>2 DEF TypeOK, GetBalance, ScanInv, Left, Dust, Sent
  <2> QED
    BY <2>0, <2>1, <2>2, <2>3
<1>3. CASE GetBalance /\ TooLow(bal[i])
  <2>1. /\ i < stop /\ i' = i + 1 /\ UNCHANGED <<stop, wait, recovered, chainVars>>
        /\ pc' = IF i + 1 < stop THEN "balance" ELSE IF wait /\ recovered # {} THEN "wait" ELSE "done"
        /\ pending' = IF i + 1 < stop \/ ~wait THEN {} ELSE recovered
        /\ UNCHANGED <<faults, drops, txNonce>> /\ balance' = bal[i]
        /\ pc = "balance"
    BY <1>3 DEF GetBalance, Advance, LoopInv
  <2>2. TypeOK'
    BY <2>1 DEF TypeOK, Ended
  <2>3. LoopInv' /\ ReadInv'
    BY <2>1 DEF TypeOK, LoopInv, ReadInv
  <2>4. ChainInv'
    BY <2>1 DEF TypeOK, ChainInv
  <2>5. ScanInv'
    <3>1. ASSUME wait, NEW a \in 0..i PROVE Left(a)'
      <4>1. CASE a = i
        <5>1. bal[i] \in Nat
          BY <2>1 DEF TypeOK
        <5>2. Dust(i)
          BY <1>3, <5>1 DEF TooLow, Dust
        <5> QED
          BY <2>1, <4>1, <5>2 DEF Left, Dust
      <4>2. CASE a # i
        <5>1. a \in 0..(i - 1)
          BY <4>2, <2>1 DEF TypeOK
        <5>2. Left(a)
          BY <5>1, <3>1 DEF ScanInv
        <5> QED
          BY <5>2, <2>1 DEF Left, Dust, Sent
      <4> QED
        BY <4>1, <4>2
    <3>2. pc' \in {"wait", "done"} /\ wait => recovered' \ pending' = {}
      BY <2>1 DEF TypeOK
    <3> QED
      BY <2>1, <3>1, <3>2 DEF ScanInv, TypeOK
  <2> QED
    BY <2>2, <2>3, <2>4, <2>5
<1> QED
  BY <1>1, <1>2, <1>3

(* An acceptable transfer was built from values that are not stale.        *)
LEMMA AcceptableFresh ==
  ASSUME Inv, pc = "send", Acceptable
  PROVE  /\ i \in Keys /\ SweepValue(balance) > 0 /\ SweepValue(balance) \in Nat
         /\ SweepValue(balance) + Reserve = bal[i]
<1>1. i \in Keys /\ balance \in Nat /\ bal[i] \in Nat
  BY DEF Inv, TypeOK, LoopInv
<1>2. balance > Reserve /\ balance >= bal[i] /\ SweepValue(balance) + Reserve <= bal[i]
  BY <1>1 DEF Inv, LoopInv, TooLow, ReadInv, Acceptable
<1> QED
  BY <1>1, <1>2 DEF SweepValue

LEMMA BroadcastStep ==
  ASSUME Inv, SendAccepted \/ SendReplyLost
  PROVE  Inv'
<1> USE DEF Inv
<1> DEFINE v == SweepValue(balance)
<1>1. /\ pc = "send" /\ i \in Keys /\ i < stop /\ v > 0 /\ v \in Nat /\ v + Reserve = bal[i]
  BY AcceptableFresh DEF SendAccepted, SendListed, SendReplyLost, LoopInv
<1> HIDE DEF v
<1>2. /\ pend' = [pend EXCEPT ![i] = v] /\ others' = [others EXCEPT ![i] = NoTx]
      /\ receipt' = [receipt EXCEPT ![i] = "none"] /\ dropped' = dropped \ {i}
      /\ UNCHANGED <<payable, bal, nonce, drops, stop, wait, balance, txNonce>>
  BY DEF SendAccepted, SendListed, SendReplyLost, Broadcast, Advance, loopVars, readVars, v
<1>3. ChainInv'
  BY <1>1, <1>2 DEF TypeOK, ChainInv
<1>4. CASE SendReplyLost
  <2>1. pc' = "crashed" /\ faults' = faults + 1 /\ faults < MaxFaults
        /\ UNCHANGED <<i, recovered, pending>>
    BY <1>4 DEF SendReplyLost, loopVars
  <2>2. TypeOK' /\ LoopInv' /\ ReadInv'
    BY <1>1, <1>2, <2>1, SMTT(30) DEF TypeOK, Ended, LoopInv, ReadInv
  <2>3. ScanInv'
    <3>1. ASSUME NEW a \in 0..(i - 1), Left(a) PROVE Left(a)'
      BY <1>1, <1>2, <2>1, <3>1 DEF TypeOK, Left, Dust, Sent
    <3> QED
      BY <1>2, <2>1, <3>1 DEF ScanInv
  <2> QED
    BY <1>3, <2>2, <2>3
<1>5. CASE SendAccepted
  <2>1. /\ i' = i + 1 /\ recovered' = recovered \cup {i} /\ UNCHANGED faults
        /\ pc' = IF i + 1 < stop THEN "balance" ELSE IF wait THEN "wait" ELSE "done"
        /\ pending' = IF i + 1 < stop \/ ~wait THEN {} ELSE recovered'
    BY <1>5 DEF SendAccepted, SendListed, Advance
  <2>2. TypeOK'
    BY <1>1, <1>2, <2>1 DEF TypeOK, Ended
  <2>3. LoopInv' /\ ReadInv'
    BY <1>1, <1>2, <2>1 DEF TypeOK, LoopInv, ReadInv
  <2>4. ScanInv'
    <3>1. ASSUME wait, NEW a \in 0..i PROVE Left(a)'
      <4>1. CASE a = i
        BY <4>1, <1>1, <1>2, <2>1 DEF TypeOK, Left, Sent
      <4>2. CASE a # i
        <5>1. a \in 0..(i - 1) /\ a \in Keys
          BY <4>2, <1>1
        <5>2. Left(a)
          BY <5>1, <3>1, <1>1 DEF ScanInv
        <5> QED
          BY <5>1, <5>2, <4>2, <1>2, <2>1 DEF TypeOK, Left, Dust, Sent
      <4> QED
        BY <4>1, <4>2
    <3>2. pc' \in {"wait", "done"} /\ wait => recovered' \ pending' = {}
      BY <2>1
    <3> QED
      BY <1>1, <1>2, <2>1, <3>1, <3>2 DEF ScanInv, TypeOK
  <2> QED
    BY <1>3, <2>2, <2>3, <2>4
<1> QED
  BY <1>4, <1>5

(* A rejection ends the run and changes nothing on the chain.              *)
LEMMA RejectStep ==
  ASSUME Inv, SendRejected
  PROVE  Inv'
<1> USE DEF Inv, SendRejected, chainVars, loopVars, readVars
<1>1. faults' \in 0..MaxFaults
  BY DEF TypeOK
<1>2. TypeOK' /\ LoopInv' /\ ReadInv'
  BY <1>1 DEF TypeOK, Ended, LoopInv, ReadInv
<1>3. ChainInv' /\ ScanInv'
  BY DEF ChainInv, ScanInv, Left, Dust, Sent
<1> QED
  BY <1>2, <1>3

LEMMA WaitStep ==
  ASSUME Inv, RpcFails \/ Poll \/ Deadline
  PROVE  Inv'
<1> USE DEF Inv, chainVars, loopVars, readVars
<1>1. UNCHANGED <<chainVars, drops, i, stop, wait, balance, txNonce, recovered>>
  BY DEF RpcFails, Poll, Deadline
<1>2. TypeOK'
  <2>1. /\ faults' \in 0..MaxFaults /\ pending' \subseteq recovered
        /\ pc' \in {"wait", "done", "crashed"}
    <3>1. CASE RpcFails
      BY <3>1 DEF TypeOK, RpcFails
    <3>2. CASE Poll
      BY <3>2 DEF TypeOK, Poll, Unconfirmed
    <3>3. CASE Deadline
      BY <3>3 DEF TypeOK, Deadline
    <3> QED
      BY <3>1, <3>2, <3>3
  <2> QED
    BY <1>1, <2>1 DEF TypeOK, Ended
<1>3. LoopInv' /\ ReadInv'
  BY <1>1 DEF TypeOK, LoopInv, ReadInv, RpcFails, Poll, Deadline
<1>4. ChainInv'
  BY <1>1 DEF ChainInv
<1>5. ScanInv'
  <2>1. ASSUME NEW a PROVE Left(a) => Left(a)'
    BY <1>1 DEF Left, Dust, Sent
  <2>2. CASE RpcFails
    BY <1>1, <2>1, <2>2 DEF RpcFails, ScanInv
  <2>3. CASE Deadline
    BY <1>1, <2>1, <2>3 DEF Deadline, ScanInv
  <2>4. CASE Poll
    BY <1>1, <2>1, <2>4 DEF Poll, Unconfirmed, ScanInv, TypeOK
  <2> QED
    BY <2>2, <2>3, <2>4
<1> QED
  BY <1>2, <1>3, <1>4, <1>5

(* What the chain does to an account: it only ever gets poorer, a sweep    *)
(* that was sent stays sent, and a receipt stays there.                    *)
LEMMA ChainStep ==
  ASSUME Inv, NEW k \in Keys, TypeOK', ChainInv',
         UNCHANGED <<pc, i, stop, wait, balance, txNonce, recovered, pending>>,
         \A a \in Keys : bal'[a] <= bal[a] /\ nonce'[a] >= nonce[a],
         \A a \in Keys : Sent(a) => Sent(a)',
         \A a \in Keys : receipt[a] # "none" => receipt'[a] # "none"
  PROVE  Inv'
<1> USE DEF Inv
<1>1. LoopInv'
  BY DEF LoopInv, TooLow
<1>2. ReadInv'
  <2>1. pc \in {"nonce", "send"} => i \in Keys
    BY DEF TypeOK, LoopInv
  <2> QED
    BY <2>1, SMTT(30) DEF TypeOK, ReadInv
<1>3. ScanInv'
  <2>1. ASSUME NEW a \in Keys PROVE Left(a) => Left(a)'
    BY SMTT(30) DEF TypeOK, Left, Dust
  <2>2. \A a \in 0..(i - 1) : a \in Keys
    BY DEF TypeOK
  <2> QED
    BY <2>1, <2>2 DEF ScanInv, TypeOK
<1> QED
  BY <1>1, <1>2, <1>3

LEMMA MineStep ==
  ASSUME Inv, NEW k \in Keys, Mine(k)
  PROVE  Inv'
<1> USE DEF Inv
<1>1. /\ pend[k] \in Nat /\ pend[k] > 0 /\ pend[k] + Reserve = bal[k] /\ bal[k] \in Nat
      /\ others[k] = NoTx /\ receipt[k] = "none" /\ nonce[k] \in Nat
  BY DEF Mine, TypeOK, ChainInv
<1>2. PICK fee \in 1..Reserve : bal' = [bal EXCEPT ![k] = @ - fee - (IF payable THEN pend[k] ELSE 0)]
  BY DEF Mine
<1>3. /\ bal'[k] \in Nat /\ bal'[k] <= bal[k] /\ (payable => bal'[k] <= Reserve)
      /\ \A a \in Keys \ {k} : bal'[a] = bal[a]
      /\ bal' \in [Keys -> Nat]
  <2>1. fee \in Nat /\ fee <= Reserve
    BY <1>2
  <2>2. bal'[k] = bal[k] - fee - (IF payable THEN pend[k] ELSE 0)
    BY <1>2 DEF TypeOK
  <2>3. bal'[k] \in Nat /\ bal'[k] <= bal[k] /\ (payable => bal'[k] <= Reserve)
    BY <1>1, <2>1, <2>2
  <2> QED
    BY <1>2, <2>3 DEF TypeOK
<1>4. /\ nonce' = [nonce EXCEPT ![k] = @ + 1] /\ pend' = [pend EXCEPT ![k] = NoTx]
      /\ receipt' = [receipt EXCEPT ![k] = IF payable THEN "ok" ELSE "reverted"]
      /\ UNCHANGED <<payable, others, dropped, faults, drops>>
      /\ UNCHANGED <<pc, i, stop, wait, balance, txNonce, recovered, pending>>
  BY DEF Mine, loopVars, readVars
<1>5. TypeOK'
  <2>1. nonce' \in [Keys -> Nat] /\ pend' \in [Keys -> Nat \cup {NoTx}]
    BY <1>4 DEF TypeOK
  <2>2. receipt' \in [Keys -> {"none", "ok", "reverted"}]
    BY <1>4 DEF TypeOK
  <2> QED
    BY <1>3, <1>4, <2>1, <2>2 DEF TypeOK
<1>6. ChainInv'
  BY <1>1, <1>3, <1>4, SMTT(30) DEF TypeOK, ChainInv
<1>7. \A a \in Keys : bal'[a] <= bal[a] /\ nonce'[a] >= nonce[a]
  <2>1. ASSUME NEW a \in Keys PROVE bal'[a] <= bal[a]
    BY <1>3 DEF TypeOK
  <2>2. ASSUME NEW a \in Keys PROVE nonce'[a] >= nonce[a]
    BY <1>4 DEF TypeOK
  <2> QED
    BY <2>1, <2>2
<1>8. \A a \in Keys : (Sent(a) => Sent(a)') /\ (receipt[a] # "none" => receipt'[a] # "none")
  BY <1>4 DEF TypeOK, Sent
<1> QED
  BY <1>4, <1>5, <1>6, <1>7, <1>8, ChainStep

LEMMA DropStep ==
  ASSUME Inv, NEW k \in Keys, Drop(k)
  PROVE  Inv'
<1> USE DEF Inv
<1>1. /\ pend' = [pend EXCEPT ![k] = NoTx] /\ dropped' = dropped \cup {k}
      /\ drops' = drops + 1 /\ drops < MaxDrops
      /\ UNCHANGED <<payable, bal, nonce, others, receipt, faults>>
      /\ UNCHANGED <<pc, i, stop, wait, balance, txNonce, recovered, pending>>
  BY DEF Drop, loopVars, readVars
<1>2. TypeOK'
  BY <1>1, SMTT(30) DEF TypeOK
<1>3. ChainInv'
  BY <1>1 DEF TypeOK, ChainInv
<1>4. \A a \in Keys : bal'[a] <= bal[a] /\ nonce'[a] >= nonce[a]
  BY <1>1 DEF TypeOK
<1>5. \A a \in Keys : Sent(a) => Sent(a)'
  BY <1>1 DEF TypeOK, Sent
<1> QED
  BY <1>1, <1>2, <1>3, <1>4, <1>5, ChainStep

LEMMA MineOtherStep ==
  ASSUME Inv, NEW k \in Keys, MineOther(k)
  PROVE  Inv'
<1> USE DEF Inv
<1>1. /\ others[k] # NoTx /\ others' = [others EXCEPT ![k] = NoTx]
      /\ UNCHANGED <<payable, pend, receipt, dropped, faults, drops>>
      /\ UNCHANGED <<pc, i, stop, wait, balance, txNonce, recovered, pending>>
  BY DEF MineOther, loopVars, readVars
<1>2. /\ others[k] \in Nat /\ bal[k] \in Nat /\ nonce[k] \in Nat /\ others[k] <= bal[k]
      /\ pend[k] = NoTx /\ receipt[k] # "ok"
  BY <1>1 DEF TypeOK, ChainInv
<1>3. /\ bal' \in [Keys -> Nat] /\ nonce' \in [Keys -> Nat]
      /\ \A a \in Keys \ {k} : bal'[a] = bal[a]
      /\ \A a \in Keys : bal'[a] <= bal[a] /\ nonce'[a] >= nonce[a]
  <2>1. CASE UNCHANGED <<bal, nonce>>
    BY <2>1 DEF TypeOK
  <2>2. CASE /\ bal' = [bal EXCEPT ![k] = @ - others[k]]
             /\ nonce' = [nonce EXCEPT ![k] = @ + 1]
    BY <1>2, <2>2 DEF TypeOK
  <2> QED
    BY <2>1, <2>2 DEF MineOther
<1>4. TypeOK'
  BY <1>1, <1>3 DEF TypeOK
<1>5. ChainInv'
  BY <1>1, <1>2, <1>3, SMTT(30) DEF TypeOK, ChainInv
<1>6. \A a \in Keys : Sent(a) => Sent(a)'
  BY <1>1 DEF Sent
<1> QED
  BY <1>1, <1>3, <1>4, <1>5, <1>6, ChainStep

LEMMA NextInv == Inv /\ [Next]_vars => Inv'
<1> SUFFICES ASSUME Inv, [Next]_vars PROVE Inv'
  OBVIOUS
<1>1. CASE Scan \/ \E a \in Keys : SweepKey(a)
  BY <1>1, StartStep
<1>3. CASE Work \/ RpcFails \/ SendReplyLost
  BY <1>3, ReadStep, BroadcastStep, RejectStep, WaitStep DEF Work
<1>4. ASSUME NEW a \in Keys, Mine(a) \/ Drop(a) \/ MineOther(a) PROVE Inv'
  BY <1>4, MineStep, DropStep, MineOtherStep
<1>5. CASE UNCHANGED vars
  BY <1>5 DEF vars, chainVars, loopVars, readVars, Inv, TypeOK, LoopInv, ReadInv, ChainInv,
              ScanInv, Left, Dust, Sent, TooLow
<1> QED
  BY <1>1, <1>3, <1>4, <1>5 DEF Next

LEMMA Invariance == Spec => []Inv
BY InitInv, NextInv, PTL DEF Spec

-----------------------------------------------------------------------------
(* TypeOK: in particular balances never fall below zero.                   *)
THEOREM TypeCorrect == Spec => []TypeOK
<1>1. Inv => TypeOK
  BY DEF Inv
<1> QED
  BY <1>1, Invariance, PTL

(* SweptOnce: no rerun, crash or stale read sweeps an account twice.       *)
THEOREM NeverSweptTwice == Spec => []SweptOnce
<1>1. Inv => SweptOnce
  <2> SUFFICES ASSUME Inv, NEW a \in Keys
               PROVE  /\ receipt[a] = "ok" => bal[a] <= Reserve /\ pend[a] = NoTx
                      /\ pend[a] # NoTx => pend[a] > 0 /\ pend[a] + Reserve = bal[a]
    BY DEF SweptOnce
  <2> QED
    BY DEF Inv, ChainInv
<1> QED
  BY <1>1, Invariance, PTL

(* ImplementsSweep: of all steps only an accepted sweep, a forgotten one    *)
(* and a block that includes a transaction are seen by the accounts.        *)
THEOREM Refinement == Spec => ImplementsSweep
<1> USE DEF Inv
<1>1. Init => Ledger!Init
  BY DEF Init, Ledger!Init
<1>2. Inv /\ [Next]_vars => [Ledger!Next]_Ledger!vars
  <2> SUFFICES ASSUME Inv, [Next]_vars PROVE [Ledger!Next]_Ledger!vars
    OBVIOUS
  <2>1. CASE UNCHANGED <<bal, pend, receipt>>
    BY <2>1 DEF Ledger!vars
  <2>2. CASE SendAccepted \/ SendReplyLost
    <3>1. /\ pc = "send" /\ Acceptable /\ pend[i] = NoTx
          /\ pend' = [pend EXCEPT ![i] = SweepValue(balance)] /\ UNCHANGED bal
          /\ receipt' = [receipt EXCEPT ![i] = "none"]
      BY <2>2 DEF SendAccepted, SendListed, SendReplyLost, Broadcast, Acceptable
    <3>2. i \in Keys /\ bal[i] > Reserve /\ SweepValue(balance) = bal[i] - Reserve
      <4>1. /\ i \in Keys /\ bal[i] \in Nat /\ SweepValue(balance) \in Nat
            /\ SweepValue(balance) > 0 /\ SweepValue(balance) + Reserve = bal[i]
        BY <3>1, AcceptableFresh DEF TypeOK
      <4> QED
        BY <4>1
    <3>3. receipt[i] # "ok"
      BY <3>2 DEF ChainInv, TypeOK
    <3>4. {a \in Keys : receipt[a] = "ok"}' = {a \in Keys : receipt[a] = "ok"}
      BY <3>1, <3>2, <3>3 DEF TypeOK
    <3>5. Ledger!Send(i)
      BY <3>1, <3>2, <3>3, <3>4 DEF Ledger!Send
    <3> QED
      BY <3>2, <3>5 DEF Ledger!Next
  <2>3. ASSUME NEW a \in Keys, Mine(a) PROVE Ledger!Next
    <3>1. /\ pend[a] # NoTx /\ pend[a] + Reserve = bal[a] /\ bal[a] \in Nat /\ pend[a] \in Nat
          /\ receipt[a] = "none"
      BY <2>3 DEF Mine, ChainInv, TypeOK
    <3>2. PICK fee \in 1..Reserve : bal' = [bal EXCEPT ![a] = @ - fee - (IF payable THEN pend[a] ELSE 0)]
      BY <2>3 DEF Mine
    <3>3. fee \in Nat /\ 1 <= fee /\ fee <= Reserve
      BY <3>2
    <3>4. /\ pend' = [pend EXCEPT ![a] = NoTx]
          /\ receipt' = [receipt EXCEPT ![a] = IF payable THEN "ok" ELSE "reverted"]
      BY <2>3 DEF Mine
    <3>5. CASE payable
      <4>1. bal' = [bal EXCEPT ![a] = Reserve - fee] /\ Reserve - fee \in 0..(Reserve - 1)
        <5>1. Reserve - fee \in 0..(Reserve - 1)
          BY <3>3
        <5>2. bal[a] - fee - pend[a] = Reserve - fee
          BY <3>1, <3>3
        <5> QED
          BY <3>2, <3>5, <5>1, <5>2
      <4>2. {b \in Keys : receipt[b] = "ok"}' = {b \in Keys : receipt[b] = "ok"} \cup {a}
        BY <3>4, <3>5 DEF TypeOK
      <4>3. Ledger!Settle(a)
        BY <3>1, <3>4, <4>1, <4>2 DEF Ledger!Settle
      <4> QED
        BY <4>3 DEF Ledger!Next
    <3>6. CASE ~payable
      <4>1. bal' = [bal EXCEPT ![a] = @ - fee]
        <5>1. bal[a] - fee - 0 = bal[a] - fee
          BY <3>1, <3>3
        <5> QED
          BY <3>2, <3>6, <5>1
      <4>2. UNCHANGED {b \in Keys : receipt[b] = "ok"}
        BY <3>1, <3>4, <3>6 DEF TypeOK
      <4>3. Ledger!Bounce(a)
        BY <3>1, <3>2, <3>4, <4>1, <4>2 DEF Ledger!Bounce
      <4> QED
        BY <4>3 DEF Ledger!Next
    <3> QED
      BY <3>5, <3>6
  <2>4. ASSUME NEW a \in Keys, Drop(a) PROVE Ledger!Next
    <3>1. Ledger!Forget(a)
      BY <2>4 DEF Drop, Ledger!Forget
    <3> QED
      BY <3>1 DEF Ledger!Next
  <2>5. ASSUME NEW a \in Keys, MineOther(a), ~UNCHANGED bal PROVE Ledger!Next
    <3>1. /\ others[a] # NoTx /\ bal' = [bal EXCEPT ![a] = @ - others[a]]
          /\ UNCHANGED <<pend, receipt>>
      BY <2>5 DEF MineOther
    <3>2. pend[a] = NoTx /\ receipt[a] # "ok"
      BY <3>1 DEF ChainInv
    <3>3. bal[a] - others[a] \in 0..bal[a]
      BY <3>1 DEF ChainInv, TypeOK
    <3>4. Ledger!Spend(a)
      BY <3>1, <3>2, <3>3 DEF Ledger!Spend
    <3> QED
      BY <3>4 DEF Ledger!Next
  <2>6. \/ UNCHANGED <<bal, pend, receipt>> \/ SendAccepted \/ SendReplyLost
        \/ \E a \in Keys : Mine(a) \/ Drop(a) \/ (MineOther(a) /\ ~UNCHANGED bal)
    BY DEF Next, Work, Scan, SweepKey, Start, GetBalance, GetNonce, SendRejected, Poll, Deadline,
           RpcFails, MineOther, vars, chainVars
  <2> QED
    BY <2>1, <2>2, <2>3, <2>4, <2>5, <2>6
<1> QED
  BY <1>1, <1>2, Invariance, PTL DEF Spec, Ledger!Spec, ImplementsSweep

(* ScanComplete: no account a scan has been at holds more than the dust     *)
(* unless its sweep was sent, however the scan ended.                       *)
THEOREM ScanLeavesNothing == Spec => []ScanComplete
<1>1. Inv => ScanComplete
  BY DEF Inv, LoopInv, ScanInv, Left, Visited, ScanComplete
<1> QED
  BY <1>1, Invariance, PTL

(* ConfirmedIsSwept: when a wait ends before its deadline, a sweep of every *)
(* account the run lists is in a block.                                     *)
THEOREM ConfirmedReportsTrue == Spec => []ConfirmedIsSwept
<1>1. Inv => ConfirmedIsSwept
  <2> SUFFICES ASSUME Inv, pc = "done", wait, pending = {}, NEW a \in recovered
               PROVE  receipt[a] # "none" /\ (payable => bal[a] <= Reserve)
    BY DEF ConfirmedIsSwept
  <2>1. a \in Keys /\ receipt[a] \in {"none", "ok", "reverted"}
    BY DEF Inv, TypeOK
  <2> QED
    BY <2>1 DEF Inv, ScanInv, ChainInv
<1> QED
  BY <1>1, Invariance, PTL

==============================================================================
