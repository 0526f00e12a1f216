----------------------------- MODULE ReplayProofs -----------------------------
(***************************************************************************)
(* Proofs about Replay, for every fixture that is a chain, both ways of    *)
(* building, and every answer of the node.                                 *)
(***************************************************************************)
EXTENDS Replay, TLAPS

LEMMA FixtureFacts ==
  /\ Len(Fixture) \in Nat /\ Indices = 1..Len(Fixture)
  /\ Valid \subseteq Indices
  /\ \A k \in Indices : /\ Fixture[k] \in Payloads /\ Len(Fixture[k].txs) \in Nat
                        /\ TxSet(k) \subseteq Txs
                        /\ \A j \in 1..Len(Fixture[k].txs) : Fixture[k].txs[j] \in Txs
  /\ \A k \in Valid : Parent(k) \in Valid \cup {0}
<1>1. Len(Fixture) \in Nat /\ Indices = 1..Len(Fixture) /\ Valid \subseteq Indices
  BY PayloadsAssumption DEF Indices, Valid
<1>2. ASSUME NEW k \in Indices PROVE Fixture[k] \in Payloads
  BY <1>2, PayloadsAssumption DEF Indices
<1>3. ASSUME NEW k \in Indices PROVE Fixture[k].txs \in Seq(Txs)
  BY <1>2 DEF Payloads
<1>4. ASSUME NEW k \in Indices, NEW j \in 1..Len(Fixture[k].txs) PROVE Fixture[k].txs[j] \in Txs
  BY <1>3
<1>5. ASSUME NEW k \in Indices PROVE TxSet(k) \subseteq Txs /\ Len(Fixture[k].txs) \in Nat
  BY <1>3, <1>4 DEF TxSet
<1> QED
  BY <1>1, <1>2, <1>4, <1>5, ChainAssumption

Active == {"submit", "build", "sleep", "import", "advance"}

(* Where the loop is: what has been judged and imported so far, and that a *)
(* result without error was made at the end of the loop.                   *)
LoopInv ==
    /\ pc = "bootstrap" => idx = 1
    /\ pc \in Active => idx \in Valid
    /\ Judged = {k \in Valid : k < idx} \cup (IF pc \in {"import", "advance"} THEN {idx} ELSE {})
       \/ (pc = "returned" /\ result.error)
    /\ result.ready <=> pc = "returned"
    /\ pc = "returned" /\ ~result.error =>
           result.blocks = block_results /\ idx = Len(Fixture) + 1

NodeInv ==
    /\ 0 \in known
    /\ \A k \in Valid : k < idx => k \in known /\ k <= head
    /\ pc = "advance" => idx \in known

(* The mempool holds what the current payload has submitted, nothing else, *)
(* and so does a payload the node has filled.                              *)
PoolInv ==
    /\ pc \in {"bootstrap", "next"} => pool = {}
    /\ pc = "submit" => /\ sent <= Len(Fixture[idx].txs)
                        /\ pool = {Fixture[idx].txs[j] : j \in 1..sent}
    /\ pc \in {"build", "sleep", "import", "advance"} => pool = TxSet(idx)
    /\ payload.open => pc \in {"sleep", "returned"}
    /\ pc = "sleep" => payload.on = Parent(idx) /\ payload.open
    /\ pc = "sleep" /\ payload.filled => payload.txs = TxSet(idx)

(* A recorded result and the block it is about.                            *)
BuiltInv ==
    /\ \A b \in built : b.number \in Judged
    /\ \A k \in DOMAIN block_results :
           \E b \in built : /\ b.number = block_results[k].number /\ b.on = Parent(b.number)
                            /\ block_results[k].matched => b.txs = TxSet(b.number) /\ b.same

Inv == TypeOK /\ LoopInv /\ NodeInv /\ PoolInv /\ BuiltInv /\ NoFalseAlarm

LEMMA InitInv == Init => Inv
<1> SUFFICES ASSUME Init PROVE Inv
  OBVIOUS
<1> USE FixtureFacts
<1>1. block_results = <<>> /\ Judged = {}
  BY DEF Init, Judged
<1>2. TypeOK
  <2>1. /\ route \in Routes /\ idx \in 1..(Len(Fixture) + 1) /\ sent \in Nat
        /\ pc = "bootstrap" /\ head \in Valid \cup {0} /\ known \subseteq Valid \cup {0} /\ pool \subseteq Txs
    BY DEF Init
  <2>2. payload \in [on : Valid \cup {0}, txs : SUBSET Txs, filled : BOOLEAN, open : BOOLEAN]
    BY DEF Init, NoPayload
  <2>3. block_results \in Seq([number : Valid, matched : BOOLEAN])
    BY <1>1
  <2>4. result \in [error : BOOLEAN, ready : BOOLEAN, blocks : Seq([number : Valid, matched : BOOLEAN])]
    BY DEF Init, NoResult
  <2>5. built = {}
    BY DEF Init
  <2> QED
    BY <2>1, <2>2, <2>3, <2>4, <2>5 DEF TypeOK
<1>3. LoopInv
  <2>1. pc = "bootstrap" /\ idx = 1 /\ result.ready = FALSE
    BY DEF Init, NoResult
  <2>2. {k \in Valid : k < 1} = {}
    <3>1. \A k \in Valid : ~(k < 1)
      OBVIOUS
    <3> QED
      BY <3>1
  <2> QED
    BY <1>1, <2>1, <2>2 DEF LoopInv, Active
<1>4. NodeInv
  BY DEF Init, NodeInv
<1>5. PoolInv
  BY DEF Init, PoolInv, NoPayload
<1>6. BuiltInv /\ NoFalseAlarm
  BY <1>1 DEF Init, BuiltInv, NoFalseAlarm
<1> QED
  BY <1>2, <1>3, <1>4, <1>5, <1>6 DEF Inv

-----------------------------------------------------------------------------
(* What is kept when the results and the built blocks do not change.       *)
LEMMA SameBlocks ==
  ASSUME BuiltInv, NoFalseAlarm, UNCHANGED <<block_results, built>>
  PROVE  BuiltInv' /\ NoFalseAlarm' /\ Judged' = Judged
BY DEF BuiltInv, NoFalseAlarm, Judged

(* Every way out of the loop.                                              *)
LEMMA ReturnStep ==
  ASSUME Inv, BuildRefused \/ ImportRefused \/ FcuRefused \/ Raise \/ Finish
  PROVE  Inv'
<1> USE FixtureFacts DEF Inv, nodeVars
<1>1. /\ UNCHANGED <<route, idx, sent, block_results, head, known, pool, payload, built>>
      /\ pc' = "returned" /\ pc # "returned" /\ result'.ready = TRUE
      /\ result' \in [error : BOOLEAN, ready : BOOLEAN, blocks : Seq([number : Valid, matched : BOOLEAN])]
      /\ result'.error = FALSE => result'.blocks = block_results /\ pc = "next" /\ idx > Len(Fixture)
  <2>1. UNCHANGED <<route, idx, sent, block_results, head, known, pool, payload, built>>
        /\ pc' = "returned" /\ pc # "returned"
    BY DEF BuildRefused, ImportRefused, FcuRefused, Raise, Finish, Return
  <2>2. CASE Finish
    BY <2>1, <2>2 DEF Finish, Return, TypeOK
  <2>3. CASE BuildRefused \/ ImportRefused \/ FcuRefused
    <3>1. result' = [error |-> TRUE, blocks |-> block_results, ready |-> TRUE]
      BY <2>3 DEF BuildRefused, ImportRefused, FcuRefused, Return
    <3> QED
      BY <2>1, <3>1 DEF TypeOK
  <2>4. CASE Raise
    BY <2>1, <2>4 DEF Raise, Return
  <2> QED
    BY <2>2, <2>3, <2>4
<1>2. TypeOK'
  BY <1>1 DEF TypeOK
<1>3. BuiltInv' /\ NoFalseAlarm' /\ Judged' = Judged
  BY <1>1, SameBlocks
<1>4. LoopInv'
  BY <1>1, <1>3 DEF LoopInv, TypeOK, Active
<1>5. NodeInv' /\ PoolInv'
  BY <1>1 DEF NodeInv, PoolInv, TypeOK
<1> QED
  BY <1>2, <1>3, <1>4, <1>5

(* The steps between two results.                                          *)
LEMMA QuietStep ==
  ASSUME Inv, Bootstrap \/ Skip \/ Begin \/ SubmitTx \/ Submitted \/ RequestBuild
              \/ Import \/ AdvanceHead
  PROVE  Inv'
<1> USE FixtureFacts DEF Inv, nodeVars
<1>1. UNCHANGED <<route, block_results, result, built>> /\ pc # "returned" /\ pc' # "returned"
  BY DEF Bootstrap, Skip, Begin, SubmitTx, Submitted, RequestBuild, Import, AdvanceHead, Goto
<1>2. BuiltInv' /\ NoFalseAlarm' /\ Judged' = Judged
  BY <1>1, SameBlocks
<1>3. CASE Bootstrap \/ Submitted
  <2>1. UNCHANGED <<idx, sent, known, pool, payload>> /\ (head' = head \/ (pc = "bootstrap" /\ head' = 0))
    BY <1>3 DEF Bootstrap, Submitted, Goto, ForkchoiceUpdated
  <2>2. TypeOK'
    BY <1>1, <1>3, <2>1 DEF TypeOK, Bootstrap, Submitted, Goto
  <2>3. LoopInv' /\ PoolInv'
    BY <1>1, <1>2, <1>3, <2>1 DEF LoopInv, PoolInv, Active, Bootstrap, Submitted, Goto, TxSet
  <2>4. NodeInv'
    <3>1. CASE Submitted
      BY <3>1, <2>1 DEF NodeInv, Submitted, Goto
    <3>2. CASE Bootstrap
      <4>1. \A k \in Valid : ~(k < idx)
        BY <3>2 DEF Bootstrap, LoopInv
      <4> QED
        BY <3>2, <4>1, <2>1 DEF NodeInv, Bootstrap, Goto
    <3> QED
      BY <1>3, <3>1, <3>2
  <2> QED
    BY <1>2, <2>2, <2>3, <2>4
<1>4. CASE Skip \/ Begin
  <2>1. TypeOK'
    BY <1>4 DEF TypeOK, Skip, Begin
  <2>2. LoopInv'
    <3>1. idx \notin Valid => {k \in Valid : k < idx + 1} = {k \in Valid : k < idx}
      <4>1. idx \notin Valid => \A k \in Valid : k < idx + 1 <=> k < idx
        BY DEF TypeOK
      <4> QED
        BY <4>1
    <3> QED
      BY <1>1, <1>2, <1>4, <3>1 DEF LoopInv, Active, Skip, Begin
  <2>3. NodeInv'
    BY <1>4 DEF NodeInv, TypeOK, Skip, Begin
  <2>4. PoolInv'
    BY <1>4 DEF PoolInv, TypeOK, Skip, Begin
  <2> QED
    BY <1>2, <2>1, <2>2, <2>3, <2>4
<1>5. CASE SubmitTx
  <2>1. TypeOK'
    <3>1. idx \in Indices /\ sent \in Nat /\ sent + 1 \in 1..Len(Fixture[idx].txs)
      BY <1>5 DEF TypeOK, LoopInv, Active, SubmitTx
    <3>2. Fixture[idx].txs[sent + 1] \in Txs
      BY <3>1
    <3> QED
      BY <1>5, <3>1, <3>2 DEF TypeOK, SubmitTx
  <2>2. LoopInv' /\ NodeInv'
    BY <1>1, <1>2, <1>5 DEF LoopInv, NodeInv, Active, SubmitTx
  <2>3. PoolInv'
    BY <1>5 DEF PoolInv, TypeOK, LoopInv, Active, SubmitTx
  <2> QED
    BY <1>2, <2>1, <2>2, <2>3
<1>6. CASE RequestBuild
  <2>1. /\ pc = "build" /\ pc' = "sleep" /\ head' = Parent(idx) /\ idx \in Valid
        /\ payload' = [on |-> Parent(idx), txs |-> {}, filled |-> FALSE, open |-> TRUE]
        /\ UNCHANGED <<idx, sent, known, pool>>
    BY <1>6 DEF RequestBuild, ForkchoiceUpdated, Goto, LoopInv, Active
  <2>2. TypeOK'
    BY <1>1, <2>1 DEF TypeOK
  <2>3. LoopInv' /\ PoolInv'
    BY <1>1, <1>2, <2>1 DEF LoopInv, PoolInv, Active
  <2>4. NodeInv'
    <3>1. ASSUME NEW k \in Valid, k < idx PROVE k <= Parent(idx)
      <4>1. ~(Parent(idx) < k) /\ k \in Nat /\ Parent(idx) \in Nat
        BY <2>1, <3>1, ChainAssumption
      <4> QED
        BY <4>1
    <3> QED
      BY <2>1, <3>1 DEF NodeInv
  <2> QED
    BY <1>2, <2>2, <2>3, <2>4
<1>7. CASE Import
  <2>1. pc = "import" /\ pc' = "advance" /\ known' = known \cup {idx} /\ idx \in Valid
        /\ UNCHANGED <<idx, sent, head, pool, payload>>
    BY <1>7 DEF Import, Goto, LoopInv, Active
  <2>2. TypeOK'
    BY <1>1, <2>1 DEF TypeOK
  <2>3. LoopInv' /\ PoolInv' /\ NodeInv'
    BY <1>1, <1>2, <2>1 DEF LoopInv, PoolInv, NodeInv, Active
  <2> QED
    BY <1>2, <2>2, <2>3
<1>8. CASE AdvanceHead
  <2>1. /\ pc = "advance" /\ pc' = "next" /\ head' = idx /\ idx' = idx + 1 /\ idx \in Valid
        /\ pool' = {} /\ UNCHANGED <<sent, known, payload>>
    BY <1>8 DEF AdvanceHead, ForkchoiceUpdated, LoopInv, PoolInv, Active
  <2>2. TypeOK'
    BY <1>1, <2>1 DEF TypeOK
  <2>3. LoopInv'
    <3>1. {k \in Valid : k < idx + 1} = {k \in Valid : k < idx} \cup {idx}
      <4>1. \A k \in Valid : k < idx + 1 <=> k < idx \/ k = idx
        BY <2>1
      <4>2. idx < idx + 1
        BY <2>1
      <4> QED
        BY <2>1, <4>1, <4>2, Zenon
    <3> QED
      BY <1>1, <1>2, <2>1, <3>1 DEF LoopInv, Active
  <2>4. PoolInv' /\ NodeInv'
    BY <2>1 DEF PoolInv, NodeInv, TypeOK
  <2> QED
    BY <1>2, <2>2, <2>3, <2>4
<1> QED
  BY <1>3, <1>4, <1>5, <1>6, <1>7, <1>8

LEMMA FillStep ==
  ASSUME Inv, pc # "returned", Fill
  PROVE  Inv'
<1> USE DEF Inv
<1>0. PICK more \in SUBSET pool :
        payload' = [payload EXCEPT !.txs = more, !.filled = (more = pool)]
  BY DEF Fill
<1>1. /\ UNCHANGED <<route, pc, idx, sent, block_results, result, head, known, pool, built>>
      /\ payload' = [payload EXCEPT !.txs = more, !.filled = (more = pool)]
      /\ pc = "sleep" /\ pool = TxSet(idx)
  BY <1>0 DEF Fill, runnerVars, PoolInv
<1>2. TypeOK'
  BY <1>1 DEF TypeOK
<1>3. BuiltInv' /\ NoFalseAlarm' /\ Judged' = Judged
  BY <1>1, SameBlocks
<1>4. LoopInv' /\ NodeInv'
  BY <1>1, <1>3 DEF LoopInv, NodeInv
<1>5. PoolInv'
  BY <1>1 DEF PoolInv, TypeOK
<1> QED
  BY <1>2, <1>3, <1>4, <1>5

(* The comparison: what it records about the payload it got.               *)
LEMMA GetStep ==
  ASSUME Inv, GetPayload
  PROVE  /\ Inv' /\ idx \in Valid \ Judged /\ Judged' = Judged \cup {idx}
         /\ AllMatched(block_results)' => AllMatched(block_results)
         /\ result.ready = FALSE
<1> USE FixtureFacts DEF Inv
<1>1. PICK same \in BOOLEAN :
        /\ block_results' = Append(block_results,
                [number |-> idx, matched |-> NoMismatch(payload.txs, same)])
        /\ built' = built \cup
                {[number |-> idx, on |-> payload.on, txs |-> payload.txs,
                  filled |-> payload.filled, same |-> same]}
  BY DEF GetPayload
<1> DEFINE e == [number |-> idx, matched |-> NoMismatch(payload.txs, same)]
           nb == [number |-> idx, on |-> payload.on, txs |-> payload.txs,
                  filled |-> payload.filled, same |-> same]
<1>2. /\ pc = "sleep" /\ pc' = "import" /\ idx \in Valid
      /\ payload' = [payload EXCEPT !.open = FALSE]
      /\ UNCHANGED <<route, idx, sent, result, head, known, pool>>
  BY DEF GetPayload, LoopInv, Active
<1>3. /\ e.number = idx /\ nb.number = idx /\ nb.on = Parent(idx) /\ nb.same = same
      /\ e.matched <=> (same /\ payload.txs = TxSet(idx))
      /\ nb.txs = payload.txs /\ nb.filled = payload.filled
      /\ (payload.filled => payload.txs = TxSet(idx))
      /\ e \in [number : Valid, matched : BOOLEAN]
  BY <1>2 DEF NoMismatch, PoolInv
<1>4. nb \in [number : Valid, on : Valid \cup {0}, txs : SUBSET Txs, filled : BOOLEAN, same : BOOLEAN]
  BY <1>2 DEF TypeOK
<1>5. block_results' = Append(block_results, e) /\ built' = built \cup {nb}
  BY <1>1
<1> HIDE DEF e, nb
<1>6. /\ DOMAIN block_results' = DOMAIN block_results \cup {Len(block_results) + 1}
      /\ \A k \in DOMAIN block_results : block_results'[k] = block_results[k]
      /\ block_results'[Len(block_results) + 1] = e
      /\ block_results' \in Seq([number : Valid, matched : BOOLEAN])
      /\ Len(block_results) + 1 \notin DOMAIN block_results
  BY <1>3, <1>5 DEF TypeOK
<1>7. Judged' = Judged \cup {idx}
  BY <1>2, <1>3, <1>6 DEF Judged
<1>8. Judged = {k \in Valid : k < idx} /\ idx \notin Judged
  BY <1>2 DEF LoopInv, TypeOK
<1>9. TypeOK'
  BY <1>2, <1>4, <1>5, <1>6 DEF TypeOK
<1>10. LoopInv' /\ NodeInv' /\ PoolInv'
  <2>1. LoopInv'
    BY <1>2, <1>7, <1>8 DEF LoopInv, Active
  <2>2. NodeInv'
    BY <1>2 DEF NodeInv
  <2>3. PoolInv'
    BY <1>2 DEF PoolInv, TypeOK
  <2> QED
    BY <2>1, <2>2, <2>3
<1>11. BuiltInv'
  <2>1. \A b \in built' : b.number \in Judged'
    BY <1>3, <1>5, <1>7 DEF BuiltInv
  <2>2. ASSUME NEW k \in DOMAIN block_results'
        PROVE  \E b \in built' : /\ b.number = block_results'[k].number /\ b.on = Parent(b.number)
                                 /\ block_results'[k].matched => b.txs = TxSet(b.number) /\ b.same
    <3>1. CASE k \in DOMAIN block_results
      BY <3>1, <1>5, <1>6 DEF BuiltInv
    <3>2. CASE k = Len(block_results) + 1
      <4>1. nb \in built'
        BY <1>5
      <4>2. /\ nb.number = block_results'[k].number /\ nb.on = Parent(nb.number)
            /\ block_results'[k].matched => nb.txs = TxSet(nb.number) /\ nb.same
        BY <3>2, <1>3, <1>6
      <4> QED
        BY <4>1, <4>2
    <3> QED
      BY <3>1, <3>2, <1>6
  <2> QED
    BY <2>1, <2>2 DEF BuiltInv, Parent, TxSet
<1>12. NoFalseAlarm'
  <2> SUFFICES ASSUME NEW k \in DOMAIN block_results', NEW b \in built',
                      b.number = block_results'[k].number, b.filled, b.same
               PROVE  block_results'[k].matched
    BY DEF NoFalseAlarm
  <2>1. CASE k \in DOMAIN block_results
    <3>1. block_results[k].number \in Judged /\ block_results'[k] = block_results[k]
      BY <2>1, <1>6 DEF Judged
    <3>2. b # nb
      BY <3>1, <1>3, <1>8
    <3> QED
      BY <2>1, <3>1, <3>2, <1>5 DEF NoFalseAlarm
  <2>2. CASE k = Len(block_results) + 1
    <3>1. block_results'[k] = e /\ b.number = idx
      BY <2>2, <1>3, <1>6
    <3>2. b = nb
      BY <3>1, <1>5, <1>8 DEF BuiltInv
    <3> QED
      BY <3>1, <3>2, <1>3
  <2> QED
    BY <2>1, <2>2, <1>6
<1>13. AllMatched(block_results)' => AllMatched(block_results)
  BY <1>6 DEF AllMatched
<1>14. result.ready = FALSE
  BY <1>2 DEF LoopInv, TypeOK
<1> QED
  BY <1>2, <1>7, <1>8, <1>9, <1>10, <1>11, <1>12, <1>13, <1>14

LEMMA NextInv == Inv /\ [Next]_vars => Inv'
<1> SUFFICES ASSUME Inv, [Next]_vars PROVE Inv'
  OBVIOUS
<1>1. CASE Runner
  BY <1>1, ReturnStep, QuietStep, GetStep DEF Runner
<1>2. CASE pc # "returned" /\ Fill
  BY <1>2, FillStep
<1>3. CASE Terminated \/ UNCHANGED vars
  <2>1. UNCHANGED <<route, pc, idx, sent, block_results, result, head, known, pool, payload, built>>
    BY <1>3 DEF Terminated, vars, runnerVars, nodeVars
  <2>2. BuiltInv' /\ NoFalseAlarm' /\ Judged' = Judged
    BY <2>1, SameBlocks DEF Inv
  <2> QED
    BY <2>1, <2>2 DEF Inv, TypeOK, LoopInv, NodeInv, PoolInv
<1> QED
  BY <1>1, <1>2, <1>3 DEF Next

LEMMA Invariance == Spec => []Inv
BY InitInv, NextInv, PTL DEF Spec

-----------------------------------------------------------------------------
(* TypeOK.                                                                 *)
THEOREM TypeCorrect == Spec => []TypeOK
<1>1. Inv => TypeOK
  BY DEF Inv
<1> QED
  BY <1>1, Invariance, PTL

(* NoFalseAlarm: nothing left over in the mempool makes a block differ.    *)
THEOREM MismatchIsReal == Spec => []NoFalseAlarm
<1>1. Inv => NoFalseAlarm
  BY DEF Inv
<1> QED
  BY <1>1, Invariance, PTL

(* PassedIsEarned: a pass means every valid block was built as expected    *)
(* and the expected chain imported to its end.                             *)
THEOREM PassIsSound == Spec => []PassedIsEarned
<1>1. Inv => PassedIsEarned
  <2> SUFFICES ASSUME Inv, Passed
               PROVE  /\ \A k \in Valid : \E b \in built :
                             b.number = k /\ b.on = Parent(k) /\ b.txs = TxSet(k) /\ b.same
                      /\ Valid \subseteq known
                      /\ \A k \in Valid : k <= head
    BY DEF PassedIsEarned
  <2> USE FixtureFacts DEF Inv
  <2>1. pc = "returned" /\ ~result.error /\ idx = Len(Fixture) + 1 /\ AllMatched(block_results)
    BY DEF Passed, LoopInv
  <2>2. \A k \in Valid : k < idx
    BY <2>1
  <2>3. Judged = Valid
    BY <2>1, <2>2 DEF LoopInv
  <2>4. ASSUME NEW k \in Valid
        PROVE  \E b \in built : b.number = k /\ b.on = Parent(k) /\ b.txs = TxSet(k) /\ b.same
    <3>1. PICK n \in DOMAIN block_results : block_results[n].number = k
      BY <2>3, <2>4 DEF Judged
    <3> QED
      BY <2>1, <3>1 DEF BuiltInv, AllMatched
  <2> QED
    BY <2>2, <2>4 DEF NodeInv
<1> QED
  BY <1>1, Invariance, PTL

-----------------------------------------------------------------------------
(* ImplementsVerdict: every step of the replay is a step of the abstract   *)
(* verdict or none.  A comparison judges a block, a return without error   *)
(* concludes, and any other return aborts.                                 *)
THEOREM Refinement == Spec => ImplementsVerdict
<1>1. Init => V!Init
  <2> SUFFICES ASSUME Init PROVE V!Init
    OBVIOUS
  <2>1. block_results = <<>> /\ Judged = {} /\ result.ready = FALSE
    BY DEF Init, Judged, NoResult
  <2>2. AllMatched(block_results) = TRUE /\ Verdict = "none"
    BY <2>1 DEF AllMatched, Verdict
  <2> QED
    BY <2>1, <2>2 DEF V!Init
<1>2. Inv /\ [Next]_vars => [V!Next]_V!vars
  <2> SUFFICES ASSUME Inv, [Next]_vars PROVE [V!Next]_V!vars
    OBVIOUS
  <2>1. CASE GetPayload
    <3>1. /\ idx \in Valid \ Judged /\ Judged' = Judged \cup {idx} /\ result.ready = FALSE
          /\ AllMatched(block_results)' => AllMatched(block_results)
      BY <2>1, GetStep
    <3>2. Verdict = "none" /\ Verdict' = "none"
      BY <2>1, <3>1 DEF GetPayload, Verdict
    <3>3. (Valid \ Judged)' = (Valid \ Judged) \ {idx}
      BY <3>1
    <3> DEFINE matched == AllMatched(block_results)'
    <3>4. matched \in BOOLEAN /\ matched = (AllMatched(block_results) /\ matched)
      BY <3>1 DEF AllMatched
    <3>5. V!Judge(idx, matched)
      BY <3>1, <3>2, <3>3, <3>4 DEF V!Judge
    <3> QED
      BY <3>1, <3>4, <3>5 DEF V!Next
  <2>2. CASE BuildRefused \/ ImportRefused \/ FcuRefused \/ Raise \/ Finish
    <3>1. /\ UNCHANGED block_results /\ result.ready = FALSE /\ result'.ready = TRUE
          /\ \/ result'.error = TRUE
             \/ Finish /\ result'.error = FALSE /\ result'.blocks = block_results
      BY <2>2 DEF BuildRefused, ImportRefused, FcuRefused, Raise, Finish, Return, Inv, LoopInv, TypeOK
    <3>2. Judged' = Judged /\ AllMatched(block_results)' = AllMatched(block_results)
          /\ (Valid \ Judged)' = Valid \ Judged
      BY <3>1 DEF Judged, AllMatched
    <3>3. Verdict = "none"
      BY <3>1 DEF Verdict
    <3>4. CASE result'.error = TRUE
      BY <3>1, <3>2, <3>3, <3>4 DEF V!Next, V!Abort, Verdict
    <3>5. CASE Finish /\ result'.error = FALSE /\ result'.blocks = block_results
      <4>1. \A k \in Valid : k < idx
        BY <3>5, FixtureFacts DEF Finish, Inv, TypeOK
      <4>2. Valid \ Judged = {}
        BY <3>5, <4>1 DEF Finish, Inv, LoopInv
      <4>3. Verdict' = IF AllMatched(block_results) THEN "passed" ELSE "failed"
        BY <3>1, <3>5 DEF Verdict, AllMatched
      <4> QED
        BY <3>2, <3>3, <4>2, <4>3 DEF V!Next, V!Conclude
    <3> QED
      BY <3>1, <3>4, <3>5
  <2>3. CASE ~GetPayload /\ ~(BuildRefused \/ ImportRefused \/ FcuRefused \/ Raise \/ Finish)
    <3>1. UNCHANGED <<block_results, result>>
      BY <2>3 DEF Next, Runner, Bootstrap, Skip, Begin, SubmitTx, Submitted, RequestBuild, Import,
                  AdvanceHead, Fill, Terminated, Goto, vars, runnerVars
    <3> QED
      BY <3>1 DEF V!vars, Judged, AllMatched, Verdict
  <2> QED
    BY <2>1, <2>2, <2>3
<1> QED
  BY <1>1, <1>2, Invariance, PTL DEF Spec, ImplementsVerdict, V!Spec

===============================================================================
