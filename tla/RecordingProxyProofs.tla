------------------------ MODULE RecordingProxyProofs ------------------------
(***************************************************************************)
(* Proofs about RecordingProxy, for any set of requests, any bodies and    *)
(* any number of requests the client keeps open.                           *)
(***************************************************************************)
EXTENDS RecordingProxy, FiniteSetTheorems, TLAPS

USE DEF Over

(* The recording loop has nothing left to read: it is at the end of the     *)
(* body, or at a call it cannot read.                                       *)
ReadAll(r) ==
    \/ pos[r] = Len(Body[r])
    \/ /\ pos[r] < Len(Body[r])
       /\ Body[r][pos[r] + 1].method \in {"sendNamed", "sendScalar"}

(* The inductive invariant.  What urlopen did fits where the thread is, and *)
(* a thread whose answer goes back has nothing left to read of its body.    *)
HandlerInv ==
    \A r \in Reqs :
        /\ pc[r] \in {"idle", "forwarding"} => outcome[r] = "none"
        /\ pc[r] \in {"recording", "replying"} => outcome[r] = "answered"
        /\ pc[r] = "failing" => outcome[r] = "failed"
        /\ pos[r] > 0 => outcome[r] = "answered"
        /\ pos[r] <= Len(Body[r])
        /\ pc[r] = "replying" \/ Served(r) => ReadAll(r)

(* The list holds the submissions among the calls passed, and only those.  *)
RecordedWasPassed ==
    \A k \in DOMAIN raw_txs :
        LET e == raw_txs[k]
        IN e.call <= pos[e.req] /\ e.call \in SendsOf(e.req)

PassedIsRecorded ==
    \A r \in Reqs : \A j \in SendsOf(r) :
        j <= pos[r] => \E k \in DOMAIN raw_txs : raw_txs[k] = Entry(r, j)

(* The main thread takes its snapshot when the client is gone; after an    *)
(* exit no handler is left to record anything.                             *)
MainInv ==
    /\ client = "running" => ~taken
    /\ client = "exited" => Outstanding = {}
    /\ client = "exited" /\ taken => snap = raw_txs

Inv ==
    /\ TypeOK
    /\ HandlerInv
    /\ RecordedWasPassed
    /\ PassedIsRecorded
    /\ RecordedInBodyOrder
    /\ MainInv

-----------------------------------------------------------------------------
(* Every reachable state is well typed: TypeOK of the specification.       *)
LEMMA TypeInit == Init => TypeOK
<1> USE DEF TypeOK
<1> SUFFICES ASSUME Init PROVE TypeOK
  OBVIOUS
<1>1. pc \in [Reqs -> {"idle", "forwarding", "recording", "replying", "failing"} \cup Over]
  BY DEF Init
<1>2. raw_txs \in Seq(Entries) /\ snap \in Seq(Entries) /\ arrived \in Seq(Reqs)
  BY DEF Init
<1>3. /\ pos \in [Reqs -> Nat]
      /\ outcome \in [Reqs -> {"none", "answered", "failed"}]
      /\ wire \in [Reqs -> {"none", "inflight", "arrived", "refused", "lost"}]
  BY DEF Init
<1>4. before \in [Reqs -> SUBSET Reqs]
      /\ pool \subseteq Txs /\ client \in {"running", "exited", "killed"}
      /\ taken \in BOOLEAN /\ late = {}
  BY DEF Init
<1> QED
  BY <1>1, <1>2, <1>3, <1>4

(* Every step keeps it so. *)
LEMMA TypeNext == TypeOK /\ [Next]_vars => TypeOK'
<1> USE DEF TypeOK
<1> SUFFICES ASSUME TypeOK, [Next]_vars PROVE TypeOK'
  OBVIOUS
<1>1. ASSUME NEW r \in Reqs, Post(r) PROVE TypeOK'
  <2>1. Ended \subseteq Reqs
    BY DEF Ended
  <2> QED
    BY <1>1, <2>1 DEF Post, recorderVars
<1>2. ASSUME NEW r \in Reqs, Arrive(r) PROVE TypeOK'
  <2>1. TxsOf(r) \subseteq Txs
    <3>1. ASSUME NEW j \in 1..Len(Body[r]) PROVE Body[r][j].raw \in Txs
      <4>1. Body[r] \in Seq(Calls)
        BY BodyAssumption
      <4>2. Body[r][j] \in Calls
        BY <4>1
      <4> QED
        BY <4>2 DEF Calls
    <3> QED
      BY <3>1 DEF TxsOf, SendsOf
  <2> QED
    BY <1>2, <2>1 DEF Arrive, handlerVars, recorderVars
<1>3. ASSUME NEW r \in Reqs, Refuse(r) \/ Lose(r) PROVE TypeOK'
  BY ZenonT(40), <1>3 DEF Refuse, Lose, handlerVars, recorderVars
<1>4. ASSUME NEW r \in Reqs, UpstreamAnswered(r) \/ ErrorBodyTorn(r) \/ ForwardFailed(r)
      PROVE TypeOK'
  BY ZenonT(40), <1>4 DEF UpstreamAnswered, ErrorBodyTorn, ForwardFailed, Forwarded, recorderVars, nodeVars
<1>5. ASSUME NEW r \in Reqs, Record(r) PROVE TypeOK'
  BY SMTT(30), <1>5 DEF Record, Passed, Entries, Entry, nodeVars
<1>6. ASSUME NEW r \in Reqs, Skip(r) PROVE TypeOK'
  BY <1>6 DEF Skip, Passed, nodeVars
<1>7. ASSUME NEW r \in Reqs, ExtractRaises(r) \/ ExtractStops(r) \/ ExtractDone(r) \/ Send(r)
      PROVE  TypeOK'
  BY ZenonT(40), <1>7 DEF ExtractRaises, ExtractStops, Unreadable, ExtractDone, Send, Reply, recorderVars, nodeVars
<1>8. CASE ClientExit \/ ClientKill
  BY <1>8 DEF ClientExit, ClientKill, handlerVars, recorderVars, nodeVars
<1>9. CASE Snapshot
  <2>1. Outstanding \subseteq Reqs
    BY DEF Outstanding
  <2> QED
    BY <1>9, <2>1 DEF Snapshot, TakeSnapshot, handlerVars, nodeVars
<1>10. CASE UNCHANGED vars
  BY <1>10 DEF vars, handlerVars, recorderVars, nodeVars
<1> QED
  BY <1>1, <1>2, <1>3, <1>4, <1>5, <1>6, <1>7, <1>8, <1>9, <1>10 DEF Next, Handler

(* TypeOK of the specification, for every instance.                        *)
THEOREM TypeCorrect == Spec => []TypeOK
BY TypeInit, TypeNext, PTL DEF Spec


-----------------------------------------------------------------------------
(* The invariant is inductive, one action at a time.                       *)

LEMMA InitInv == Init => Inv
<1> SUFFICES ASSUME Init PROVE Inv
  OBVIOUS
<1>1. TypeOK
  BY TypeInit
<1>2. HandlerInv
  <2>1. ASSUME NEW r \in Reqs PROVE Len(Body[r]) \in Nat
    BY BodyAssumption
  <2> QED
    BY <2>1 DEF Init, HandlerInv, Served, ReadAll
<1>3. RecordedWasPassed /\ RecordedInBodyOrder
  BY DEF Init, RecordedWasPassed, RecordedInBodyOrder
<1>4. PassedIsRecorded
  BY DEF Init, PassedIsRecorded, SendsOf
<1>5. MainInv
  BY DEF Init, MainInv
<1> QED
  BY <1>1, <1>2, <1>3, <1>4, <1>5 DEF Inv

(* A step that leaves the list and the positions alone preserves what the  *)
(* list promises.                                                          *)
LEMMA SameList ==
  ASSUME RecordedWasPassed, PassedIsRecorded, RecordedInBodyOrder,
         UNCHANGED <<raw_txs, pos>>
  PROVE  RecordedWasPassed' /\ PassedIsRecorded' /\ RecordedInBodyOrder'
BY DEF RecordedWasPassed, PassedIsRecorded, RecordedInBodyOrder, SendsOf, IsSend

(* Lengths of bodies are naturals, and Len(Body[r]) is what bounds pos.    *)
LEMMA BodyLen == \A r \in Reqs : Len(Body[r]) \in Nat
BY BodyAssumption

(* Steps of the client, the network, the node and the main thread.         *)
LEMMA OutsideStep ==
  ASSUME Inv,
         \/ \E r \in Reqs : Post(r) \/ Arrive(r) \/ Refuse(r) \/ Lose(r)
         \/ ClientExit \/ ClientKill \/ Snapshot \/ UNCHANGED vars
  PROVE  HandlerInv' /\ RecordedWasPassed' /\ PassedIsRecorded'
         /\ RecordedInBodyOrder' /\ MainInv'
<1>1. UNCHANGED <<raw_txs, pos, outcome>>
  BY DEF Post, Arrive, Refuse, Lose, ClientExit, ClientKill, Snapshot, TakeSnapshot,
         vars, handlerVars, recorderVars
<1>2. RecordedWasPassed' /\ PassedIsRecorded' /\ RecordedInBodyOrder'
  BY <1>1, SameList DEF Inv
<1>3. CASE \E r \in Reqs : Post(r)
  <2> PICK r \in Reqs : Post(r)
    BY <1>3
  <2>1. HandlerInv'
    BY <1>1 DEF Inv, TypeOK, HandlerInv, Served, ReadAll, Post
  <2>2. MainInv'
    BY DEF Inv, MainInv, Post, recorderVars
  <2> QED
    BY <1>2, <2>1, <2>2
<1>4. CASE (\E r \in Reqs : Arrive(r) \/ Refuse(r) \/ Lose(r)) \/ UNCHANGED vars
  <2>1. UNCHANGED <<client, pc, taken, snap>>
    BY <1>4 DEF Arrive, Refuse, Lose, vars, handlerVars, recorderVars
  <2> QED
    BY <1>1, <1>2, <2>1 DEF Inv, HandlerInv, Served, ReadAll, MainInv, Outstanding
<1>5. CASE ClientExit \/ ClientKill \/ Snapshot
  <2>1. UNCHANGED pc
    BY <1>5 DEF ClientExit, ClientKill, Snapshot, TakeSnapshot, handlerVars
  <2>2. HandlerInv'
    BY <1>1, <2>1 DEF Inv, HandlerInv, Served, ReadAll
  <2>3. MainInv'
    BY <1>1, <1>5, <2>1 DEF Inv, MainInv, Outstanding, ClientExit, ClientKill, Snapshot,
                            TakeSnapshot, recorderVars
  <2> QED
    BY <1>2, <2>2, <2>3
<1> QED
  BY <1>3, <1>4, <1>5

(* Steps of a handler thread.  None is left after the client has exited.   *)
LEMMA HandlerStep ==
  ASSUME Inv, NEW r \in Reqs, Handler(r)
  PROVE  HandlerInv' /\ RecordedWasPassed' /\ PassedIsRecorded'
         /\ RecordedInBodyOrder' /\ MainInv'
<1>1. pc[r] \in {"forwarding", "recording", "replying", "failing"} /\ UNCHANGED <<client, taken, snap>>
  BY DEF Handler, UpstreamAnswered, ErrorBodyTorn, ForwardFailed, Forwarded, Record, Skip,
         Passed, ExtractRaises, ExtractStops, Unreadable, ExtractDone, Send, Reply, recorderVars
<1>2. client # "exited"
  BY <1>1 DEF Inv, MainInv, Outstanding
<1>3. MainInv'
  BY <1>1, <1>2 DEF Inv, MainInv
<1>4. HandlerInv'
  BY BodyLen, SMTT(30) DEF Inv, TypeOK, HandlerInv, Served, ReadAll, Handler, UpstreamAnswered, ErrorBodyTorn,
         ForwardFailed, Forwarded, Record, Skip, Passed, ExtractRaises, ExtractStops, Unreadable, ExtractDone, Send, Reply
<1>5. CASE ~Record(r) /\ ~Skip(r)
  <2>1. UNCHANGED <<raw_txs, pos>>
    BY <1>5 DEF Handler, UpstreamAnswered, ErrorBodyTorn, ForwardFailed, Forwarded,
           ExtractRaises, ExtractStops, Unreadable, ExtractDone, Send, Reply, recorderVars
  <2> QED
    BY <1>3, <1>4, <2>1, SameList DEF Inv
<1>6. CASE Skip(r)
  <2>1. raw_txs' = raw_txs /\ pos' = [pos EXCEPT ![r] = @ + 1] /\ ~IsSend(r, pos[r] + 1)
    BY <1>6 DEF Skip, Passed, IsSend
  <2>2. RecordedWasPassed'
    BY <2>1, SMTT(30) DEF Inv, TypeOK, RecordedWasPassed, SendsOf, Entries
  <2>3. PassedIsRecorded'
    BY <2>1, BodyLen DEF Inv, TypeOK, PassedIsRecorded, SendsOf
  <2>4. RecordedInBodyOrder'
    BY <2>1 DEF Inv, RecordedInBodyOrder
  <2> QED
    BY <1>3, <1>4, <2>2, <2>3, <2>4
<1>7. CASE Record(r)
  <2> DEFINE e == Entry(r, pos[r] + 1)
  <2>1. /\ raw_txs' = Append(raw_txs, e)
        /\ pos' = [pos EXCEPT ![r] = @ + 1]
        /\ pos[r] + 1 \in SendsOf(r)
    BY <1>7, BodyLen DEF Inv, TypeOK, Record, Passed, IsSend, SendsOf
  <2>2. /\ DOMAIN raw_txs' = DOMAIN raw_txs \cup {Len(raw_txs) + 1}
        /\ \A k \in DOMAIN raw_txs : raw_txs'[k] = raw_txs[k] /\ raw_txs[k] \in Entries
        /\ raw_txs'[Len(raw_txs) + 1] = e
        /\ DOMAIN raw_txs = 1..Len(raw_txs) /\ Len(raw_txs) \in Nat
    BY <2>1 DEF Inv, TypeOK
  <2>3. e.req = r /\ e.call = pos[r] + 1
    BY DEF Entry
  <2>4. RecordedWasPassed'
    BY <2>1, <2>2, <2>3, SMTT(30) DEF Inv, TypeOK, RecordedWasPassed, SendsOf, Entries
  <2>5. PassedIsRecorded'
    <3> SUFFICES ASSUME NEW q \in Reqs, NEW j \in SendsOf(q), j <= pos'[q]
                 PROVE  \E k \in DOMAIN raw_txs' : raw_txs'[k] = Entry(q, j)
      BY DEF PassedIsRecorded, SendsOf
    <3>1. CASE q = r /\ j = pos[r] + 1
      BY <3>1, <2>2
    <3>2. CASE j <= pos[q]
      BY <3>2, <2>2 DEF Inv, PassedIsRecorded
    <3> QED
      BY SMTT(30), <3>1, <3>2, <2>1 DEF Inv, TypeOK, SendsOf
  <2>6. RecordedInBodyOrder'
    BY <2>1, <2>2, <2>3 DEF Inv, TypeOK, RecordedInBodyOrder, RecordedWasPassed, Entries
  <2> QED
    BY <1>3, <1>4, <2>4, <2>5, <2>6
<1> QED
  BY <1>5, <1>6, <1>7

LEMMA NextInv == Inv /\ [Next]_vars => Inv'
BY TypeNext, OutsideStep, HandlerStep DEF Inv, Next

LEMMA Invariance == Spec => []Inv
BY InitInv, NextInv, PTL DEF Spec

-----------------------------------------------------------------------------
(* Every entry is a submission of an answered request.                     *)
LEMMA AnsweredEntries == Inv => RecordedWasAnswered
<1> SUFFICES ASSUME Inv, NEW k \in DOMAIN raw_txs
             PROVE  outcome[raw_txs[k].req] = "answered" /\ raw_txs[k].call \in SendsOf(raw_txs[k].req)
  BY DEF RecordedWasAnswered
<1> DEFINE e == raw_txs[k]
<1>1. e.req \in Reqs /\ e.call \in Nat \ {0}
  <2>1. e \in Entries
    BY DEF Inv, TypeOK
  <2> QED
    BY <2>1 DEF Entries
<1>2. e.call <= pos[e.req] /\ e.call \in SendsOf(e.req)
  BY DEF Inv, RecordedWasPassed
<1>3. pos[e.req] \in Nat /\ pos[e.req] > 0
  BY <1>1, <1>2 DEF Inv, TypeOK
<1> QED
  BY <1>1, <1>2, <1>3 DEF Inv, HandlerInv

(* RecordedWasAnswered: the recorder never holds a transaction of a        *)
(* request that got the 502, for any interleaving of any number of threads.*)
THEOREM OnlyAnsweredRecorded == Spec => []RecordedWasAnswered
BY AnsweredEntries, Invariance, PTL

(* RecordedInBodyOrder: a batch is recorded in its own order, once.        *)
THEOREM BatchesInOrder == Spec => []RecordedInBodyOrder
<1>1. Inv => RecordedInBodyOrder
  BY DEF Inv
<1> QED
  BY <1>1, Invariance, PTL

(* A request that has been served is in the list with every submission     *)
(* ahead of the first call that cannot be read.                            *)
LEMMA ServedIsHeld ==
  ASSUME Inv, NEW r \in Reqs, Served(r)
  PROVE  Holds(raw_txs, r)
<1> SUFFICES ASSUME NEW j \in ReadableSends(r)
             PROVE  \E k \in DOMAIN raw_txs : raw_txs[k] = Entry(r, j)
  BY DEF Holds
<1>1. /\ j \in SendsOf(r) /\ j \in 1..Len(Body[r])
      /\ \A i \in 1..j : Body[r][i].method \notin {"sendNamed", "sendScalar"}
  BY DEF ReadableSends, SendsOf
<1>2. ReadAll(r) /\ pos[r] \in Nat
  BY DEF Inv, HandlerInv, TypeOK
<1>3. j <= pos[r]
  BY <1>1, <1>2, BodyLen DEF ReadAll
<1> QED
  BY <1>1, <1>3 DEF Inv, PassedIsRecorded

(* What is still open once the snapshot is taken was open when it was:     *)
(* nothing is posted after the end of `execute`.                           *)
FinalInv == taken => Outstanding \subseteq late /\ SnapshotFinal

LEMMA NextFinalInv ==
  ASSUME Inv, FinalInv, [Next]_vars
  PROVE  FinalInv'
<1> USE DEF Inv, TypeOK
<1>1. ASSUME NEW r \in Reqs, Post(r) PROVE FinalInv'
  <2>1. ~taken'
    BY <1>1 DEF MainInv, Post, recorderVars
  <2> QED
    BY <2>1 DEF FinalInv
<1>2. CASE \/ \E r \in Reqs : Arrive(r) \/ Refuse(r) \/ Lose(r)
           \/ ClientExit \/ ClientKill \/ UNCHANGED vars
  <2>1. UNCHANGED <<pc, recorderVars>>
    BY <1>2 DEF Arrive, Refuse, Lose, ClientExit, ClientKill, vars, handlerVars
  <2> QED
    BY <2>1 DEF FinalInv, SnapshotFinal, Outstanding, recorderVars
<1>3. ASSUME NEW r \in Reqs, Handler(r), ~Record(r) PROVE FinalInv'
  <2>1. /\ UNCHANGED recorderVars
        /\ \A q \in Reqs : q # r => pc'[q] = pc[q]
        /\ pc[r] \notin Over \cup {"idle"}
    BY <1>3 DEF Handler, UpstreamAnswered, ErrorBodyTorn, ForwardFailed, Forwarded, Skip, Passed,
         ExtractRaises, ExtractStops, Unreadable, ExtractDone, Send, Reply, recorderVars
  <2>2. Outstanding' \subseteq Outstanding
    BY <2>1 DEF Outstanding
  <2> QED
    BY <2>1, <2>2 DEF FinalInv, SnapshotFinal, recorderVars
<1>4. ASSUME NEW r \in Reqs, Record(r) PROVE FinalInv'
  <2> SUFFICES ASSUME taken PROVE Outstanding' \subseteq late' /\ SnapshotFinal'
    BY <1>4 DEF Record, Passed, FinalInv
  <2>1. /\ raw_txs' = Append(raw_txs, Entry(r, pos[r] + 1))
        /\ UNCHANGED <<pc, taken, snap, late>> /\ pc[r] = "recording"
    BY <1>4 DEF Record, Passed
  <2>2. Outstanding' = Outstanding /\ r \in late
    BY <2>1 DEF FinalInv, Outstanding
  <2>3. /\ DOMAIN raw_txs' = DOMAIN raw_txs \cup {Len(raw_txs) + 1}
        /\ \A k \in DOMAIN raw_txs : raw_txs'[k] = raw_txs[k]
        /\ raw_txs'[Len(raw_txs) + 1].req = r
        /\ Len(raw_txs') = Len(raw_txs) + 1
        /\ DOMAIN raw_txs = 1..Len(raw_txs) /\ Len(raw_txs) \in Nat /\ Len(snap) \in Nat
    BY <2>1 DEF Entry
  <2>4. SnapshotFinal'
    BY <2>1, <2>2, <2>3 DEF FinalInv, SnapshotFinal
  <2> QED
    BY <2>1, <2>2, <2>4 DEF FinalInv
<1>5. CASE Snapshot
  <2>1. snap' = raw_txs /\ raw_txs' = raw_txs /\ late' = Outstanding /\ Outstanding' = Outstanding
    BY <1>5 DEF Snapshot, TakeSnapshot, handlerVars, Outstanding
  <2>2. Len(raw_txs) \in Nat /\ DOMAIN raw_txs = 1..Len(raw_txs)
    OBVIOUS
  <2> QED
    BY <2>1, <2>2 DEF FinalInv, SnapshotFinal
<1> QED
  BY <1>1, <1>2, <1>3, <1>4, <1>5 DEF Next

(* SnapshotFinal: behind the snapshot the list only grows by the requests   *)
(* that were open when it was taken.                                        *)
THEOREM SnapshotIsFinal == Spec => []SnapshotFinal
<1>1. Init => FinalInv
  BY DEF Init, FinalInv
<1>2. Inv /\ FinalInv /\ [Next]_vars => FinalInv'
  BY NextFinalInv
<1>3. Inv /\ FinalInv => SnapshotFinal
  BY DEF FinalInv, SnapshotFinal
<1> QED
  BY <1>1, <1>2, <1>3, Invariance, PTL DEF Spec

(* SnapshotCoversServed: even after a kill the snapshot misses nothing it   *)
(* could read of a request whose answer the proxy had.                      *)
THEOREM SnapshotMissesNothingServed == Spec => SnapshotCoversServed
<1> DEFINE Covers == ~taken /\ taken' => \A r \in Reqs : Served(r) => Holds(snap', r)
<1>1. Inv /\ [Next]_vars => [Covers]_vars
  <2> SUFFICES ASSUME Inv, Next, ~taken, taken' PROVE \A r \in Reqs : Served(r) => Holds(snap', r)
    OBVIOUS
  <2>1. snap' = raw_txs
    BY DEF Next, Handler, Post, Arrive, Refuse, Lose, UpstreamAnswered, ErrorBodyTorn,
           ForwardFailed, Forwarded, Record, Skip, Passed, ExtractRaises, ExtractStops,
           Unreadable, ExtractDone, Send, Reply, ClientExit, ClientKill, Snapshot,
           TakeSnapshot, recorderVars
  <2> QED
    BY <2>1, ServedIsHeld
<1> QED
  BY <1>1, Invariance, PTL DEF Spec, SnapshotCoversServed

-----------------------------------------------------------------------------
(* The order of the list.                                                  *)

(* A request has arrived at most once, and only as its wire says; one that *)
(* was answered cannot arrive any more.                                    *)
ArrivalInv ==
    /\ \A n \in DOMAIN arrived : wire[arrived[n]] = "arrived"
    /\ \A r \in Reqs : pc[r] = "idle" => wire[r] = "none"
    /\ \A r \in Reqs : outcome[r] = "answered" => wire[r] \in {"arrived", "refused"}

(* What was over when a request was posted stays over: its arrival, if it  *)
(* was answered, is before the request's own, and it records no more.      *)
BeforeInv ==
    \A r \in Reqs : \A q \in before[r] :
        /\ pc[q] \in Over
        /\ pc[r] # "idle"
        /\ \A m, n \in DOMAIN arrived :
               outcome[q] = "answered" /\ arrived[m] = q /\ arrived[n] = r => m < n

RecordedAfter ==
    \A k, l \in DOMAIN raw_txs : raw_txs[k].req \in before[raw_txs[l].req] => k < l

OrdInv == ArrivalInv /\ BeforeInv /\ RecordedAfter

LEMMA InitOrdInv == Init => OrdInv
BY DEF Init, OrdInv, ArrivalInv, BeforeInv, RecordedAfter

(* The entries name requests that are no longer idle.                      *)
LEMMA RecordedReqs ==
  ASSUME Inv, NEW k \in DOMAIN raw_txs
  PROVE  /\ raw_txs[k].req \in Reqs
         /\ outcome[raw_txs[k].req] = "answered"
         /\ pc[raw_txs[k].req] # "idle"
<1>1. raw_txs[k] \in Entries
  BY DEF Inv, TypeOK
<1>2. raw_txs[k].req \in Reqs
  BY <1>1 DEF Entries
<1>3. outcome[raw_txs[k].req] = "answered"
  BY AnsweredEntries DEF RecordedWasAnswered
<1> QED
  BY <1>2, <1>3 DEF Inv, HandlerInv

LEMMA NextOrdInv ==
  ASSUME Inv, OrdInv, [Next]_vars
  PROVE  OrdInv'
<1> USE DEF Inv, TypeOK
<1>1. ASSUME NEW r \in Reqs, Post(r) PROVE OrdInv'
  <2>1. /\ UNCHANGED <<arrived, raw_txs, outcome>>
        /\ before' = [before EXCEPT ![r] = Ended]
        /\ pc[r] = "idle" /\ wire[r] = "none"
        /\ pc' = [pc EXCEPT ![r] = "forwarding"]
        /\ wire' = [wire EXCEPT ![r] = "inflight"]
    BY <1>1 DEF Post, recorderVars, OrdInv, ArrivalInv
  <2>2. \A n \in DOMAIN arrived : arrived[n] # r
    BY <2>1 DEF OrdInv, ArrivalInv
  <2>3. \A k \in DOMAIN raw_txs : raw_txs[k].req # r /\ raw_txs[k].req \in Reqs
    BY <2>1, RecordedReqs
  <2>4. ArrivalInv'
    BY <2>1, <2>2 DEF OrdInv, ArrivalInv
  <2>5. BeforeInv'
    BY <2>1, <2>2 DEF OrdInv, BeforeInv, Ended
  <2>6. RecordedAfter'
    BY <2>1, <2>3 DEF OrdInv, RecordedAfter
  <2> QED
    BY <2>4, <2>5, <2>6 DEF OrdInv
<1>2. ASSUME NEW r \in Reqs, Arrive(r) PROVE OrdInv'
  <2>1. /\ DOMAIN arrived' = DOMAIN arrived \cup {Len(arrived) + 1}
        /\ \A n \in DOMAIN arrived : arrived'[n] = arrived[n] /\ arrived[n] \in Reqs
        /\ arrived'[Len(arrived) + 1] = r
        /\ DOMAIN arrived = 1..Len(arrived) /\ Len(arrived) \in Nat
    BY <1>2 DEF Arrive
  <2>2. /\ UNCHANGED <<raw_txs, outcome, pc, before>>
        /\ wire' = [wire EXCEPT ![r] = "arrived"] /\ wire[r] = "inflight"
    BY <1>2 DEF Arrive, handlerVars, recorderVars
  <2>3. outcome[r] # "answered"
    BY <2>2 DEF OrdInv, ArrivalInv
  <2>4. ArrivalInv'
    BY <2>1, <2>2 DEF OrdInv, ArrivalInv
  <2>5. BeforeInv'
    BY <2>1, <2>2, <2>3 DEF OrdInv, BeforeInv
  <2> QED
    BY <2>2, <2>4, <2>5 DEF OrdInv, RecordedAfter
<1>3. ASSUME NEW r \in Reqs, Refuse(r) \/ Lose(r) PROVE OrdInv'
  <2>1. UNCHANGED <<raw_txs, outcome, pc, arrived, before>> /\ wire[r] = "inflight"
        /\ \E w \in {"refused", "lost"} : wire' = [wire EXCEPT ![r] = w]
    BY <1>3 DEF Refuse, Lose, handlerVars, recorderVars
  <2>2. ArrivalInv'
    BY <2>1 DEF OrdInv, ArrivalInv
  <2> QED
    BY <2>1, <2>2 DEF OrdInv, BeforeInv, RecordedAfter
<1>4. ASSUME NEW r \in Reqs, UpstreamAnswered(r) \/ ErrorBodyTorn(r) \/ ForwardFailed(r)
      PROVE OrdInv'
  <2>1. /\ UNCHANGED <<raw_txs, wire, arrived, before>>
        /\ \A q \in Reqs : q # r => outcome'[q] = outcome[q] /\ pc'[q] = pc[q]
        /\ pc'[r] # "idle" /\ pc[r] \notin Over
        /\ outcome'[r] = "answered" => wire[r] \in {"arrived", "refused"}
    BY <1>4 DEF UpstreamAnswered, ErrorBodyTorn, ForwardFailed, Forwarded, recorderVars, nodeVars
  <2>2. ArrivalInv'
    BY <2>1 DEF OrdInv, ArrivalInv
  <2>3. BeforeInv'
    BY <2>1 DEF OrdInv, BeforeInv
  <2> QED
    BY <2>1, <2>2, <2>3 DEF OrdInv, RecordedAfter
<1>5. ASSUME NEW r \in Reqs,
             ExtractRaises(r) \/ ExtractStops(r) \/ ExtractDone(r) \/ Send(r) \/ Skip(r)
      PROVE OrdInv'
  <2>1. /\ UNCHANGED <<raw_txs, wire, arrived, outcome, before>>
        /\ \A q \in Reqs : q # r => pc'[q] = pc[q]
        /\ pc'[r] # "idle" /\ pc[r] \notin Over
    BY <1>5 DEF ExtractRaises, ExtractStops, Unreadable, ExtractDone, Send, Reply, Skip, Passed, recorderVars, nodeVars
  <2>2. ArrivalInv'
    BY <2>1 DEF OrdInv, ArrivalInv
  <2>3. BeforeInv'
    BY SMTT(30), <2>1 DEF OrdInv, BeforeInv
  <2> QED
    BY <2>1, <2>2, <2>3 DEF OrdInv, RecordedAfter
<1>6. ASSUME NEW r \in Reqs, Record(r) PROVE OrdInv'
  <2>1. /\ UNCHANGED <<wire, arrived, outcome, pc, before>>
        /\ raw_txs' = Append(raw_txs, Entry(r, pos[r] + 1))
        /\ pc[r] = "recording"
    BY <1>6 DEF Record, Passed, nodeVars
  <2>2. /\ DOMAIN raw_txs' = DOMAIN raw_txs \cup {Len(raw_txs) + 1}
        /\ \A k \in DOMAIN raw_txs : raw_txs'[k] = raw_txs[k] /\ raw_txs[k].req \in Reqs
        /\ raw_txs'[Len(raw_txs) + 1].req = r
        /\ DOMAIN raw_txs = 1..Len(raw_txs) /\ Len(raw_txs) \in Nat
    BY <2>1, RecordedReqs DEF Entry
  <2>3. \A q \in Reqs : r \notin before[q]
    BY <2>1 DEF OrdInv, BeforeInv
  <2>4. RecordedAfter'
    BY <2>1, <2>2, <2>3 DEF OrdInv, RecordedAfter
  <2> QED
    BY <2>1, <2>4 DEF OrdInv, ArrivalInv, BeforeInv
<1>7. CASE ClientExit \/ ClientKill \/ Snapshot \/ UNCHANGED vars
  <2>1. UNCHANGED <<raw_txs, wire, arrived, outcome, pc, before>>
    BY <1>7 DEF ClientExit, ClientKill, Snapshot, TakeSnapshot, vars, handlerVars, recorderVars, nodeVars
  <2> QED
    BY <2>1 DEF OrdInv, ArrivalInv, BeforeInv, RecordedAfter
<1> QED
  BY <1>1, <1>2, <1>3, <1>4, <1>5, <1>6, <1>7 DEF Next, Handler

LEMMA OrdInvariance == Spec => []OrdInv
<1>1. Inv /\ OrdInv /\ [Next]_vars => OrdInv'
  BY NextOrdInv
<1> QED
  BY <1>1, InitOrdInv, Invariance, PTL DEF Spec

(* What the two invariants say of the order.                               *)
LEMMA OrderHolds == Inv /\ OrdInv => SubmissionOrder
<1> SUFFICES ASSUME Inv, OrdInv, NEW k \in DOMAIN raw_txs, NEW l \in DOMAIN raw_txs,
                    raw_txs[k].req \in before[raw_txs[l].req]
             PROVE  /\ k < l
                    /\ \A m, n \in DOMAIN arrived :
                           arrived[m] = raw_txs[k].req /\ arrived[n] = raw_txs[l].req => m < n
  BY DEF SubmissionOrder
<1>1. k < l
  BY DEF OrdInv, RecordedAfter
<1>2. raw_txs[l].req \in Reqs /\ outcome[raw_txs[k].req] = "answered"
  BY RecordedReqs
<1> QED
  BY <1>1, <1>2 DEF OrdInv, BeforeInv

(* SubmissionOrder: whatever times out or comes late, and however many     *)
(* requests overlap, one that was over before another was posted is        *)
(* recorded before it and reached the node before it.                      *)
THEOREM RecordedInOrder == Spec => []SubmissionOrder
BY OrderHolds, Invariance, OrdInvariance, PTL

-----------------------------------------------------------------------------
(* A client that waits for each answer orders all its requests.            *)
Sequential ==
    \A q, r \in Reqs :
        pc[q] # "idle" /\ pc[r] # "idle" /\ q # r => q \in before[r] \/ r \in before[q]

(* A client that may only have one request open posts when none is.        *)
LEMMA PostAlone ==
  ASSUME MaxOutstanding = 1, NEW r \in Reqs, Post(r)
  PROVE  Outstanding = {}
<1>1. IsFiniteSet(Outstanding)
  BY ReqsAssumption, FS_Subset DEF Outstanding
<1>2. Cardinality(Outstanding) \in Nat /\ Cardinality(Outstanding) < 1
  BY <1>1, FS_CardinalityType DEF Post
<1> QED
  BY <1>1, <1>2, FS_EmptySet

LEMMA NextSequential ==
  ASSUME MaxOutstanding = 1, TypeOK, Sequential, [Next]_vars
  PROVE  Sequential'
<1> USE DEF TypeOK
<1>1. ASSUME NEW r \in Reqs, Post(r) PROVE Sequential'
  <2>1. Outstanding = {}
    BY <1>1, PostAlone
  <2>2. \A q \in Reqs : pc[q] # "idle" => q \in Ended
    BY <2>1 DEF Outstanding, Ended
  <2>3. pc' = [pc EXCEPT ![r] = "forwarding"] /\ before' = [before EXCEPT ![r] = Ended]
        /\ pc[r] = "idle"
    BY <1>1 DEF Post
  <2> QED
    BY <2>2, <2>3 DEF Sequential, Ended
<1>2. CASE (\E r \in Reqs : Arrive(r) \/ Refuse(r) \/ Lose(r) \/ Handler(r))
           \/ ClientExit \/ ClientKill \/ Snapshot \/ UNCHANGED vars
  <2>1. /\ UNCHANGED before
        /\ \A q \in Reqs : pc'[q] # "idle" => pc[q] # "idle"
    BY <1>2 DEF Arrive, Refuse, Lose, Handler, UpstreamAnswered, ErrorBodyTorn, ForwardFailed,
           Forwarded, Record, Skip, Passed, ExtractRaises, ExtractStops, Unreadable, ExtractDone, Send, Reply, ClientExit,
           ClientKill, Snapshot, TakeSnapshot, vars, handlerVars, recorderVars, nodeVars
  <2> QED
    BY <2>1 DEF Sequential
<1> QED
  BY <1>1, <1>2 DEF Next

(* With such a client the list is in the order in which the node received  *)
(* the requests.                                                           *)
THEOREM SequentialOrder ==
  ASSUME MaxOutstanding = 1
  PROVE  Spec => [](\A k, l \in DOMAIN raw_txs : \A m, n \in DOMAIN arrived :
                        /\ k < l
                        /\ arrived[m] = raw_txs[k].req
                        /\ arrived[n] = raw_txs[l].req
                        /\ raw_txs[k].req # raw_txs[l].req
                        => m < n)
<1> DEFINE Ordered == \A k, l \in DOMAIN raw_txs : \A m, n \in DOMAIN arrived :
                          /\ k < l
                          /\ arrived[m] = raw_txs[k].req
                          /\ arrived[n] = raw_txs[l].req
                          /\ raw_txs[k].req # raw_txs[l].req
                          => m < n
<1>1. Init => Sequential
  BY DEF Init, Sequential
<1>2. TypeOK /\ Sequential /\ [Next]_vars => Sequential'
  BY NextSequential
<1>3. Inv /\ Sequential /\ SubmissionOrder => Ordered
  <2> SUFFICES ASSUME Inv, Sequential, SubmissionOrder,
                      NEW k \in DOMAIN raw_txs, NEW l \in DOMAIN raw_txs,
                      NEW m \in DOMAIN arrived, NEW n \in DOMAIN arrived,
                      k < l, arrived[m] = raw_txs[k].req, arrived[n] = raw_txs[l].req,
                      raw_txs[k].req # raw_txs[l].req
               PROVE  m < n
    OBVIOUS
  <2>1. raw_txs[k].req \in before[raw_txs[l].req] \/ raw_txs[l].req \in before[raw_txs[k].req]
    BY RecordedReqs DEF Sequential
  <2>2. CASE raw_txs[l].req \in before[raw_txs[k].req]
    <3>1. l < k
      BY <2>2 DEF SubmissionOrder
    <3>2. k \in Nat /\ l \in Nat
      BY DEF Inv, TypeOK
    <3> QED
      BY <3>1, <3>2
  <2> QED
    BY <2>1, <2>2 DEF SubmissionOrder
<1> QED
  BY <1>1, <1>2, <1>3, TypeCorrect, RecordedInOrder, Invariance, PTL DEF Spec

=============================================================================
