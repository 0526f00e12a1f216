---------------------------- MODULE CaptureProofs ----------------------------
(***************************************************************************)
(* Proofs about Capture: the pipeline keeps what the proxy guarantees, for *)
(* any bodies, any number of requests and any interleaving of the main     *)
(* thread with handler threads that outlive `execute`.                     *)
(***************************************************************************)
EXTENDS Capture, RecordingProxyProofs

(* The pipeline does nothing to the proxy that the proxy's own              *)
(* specification does not allow.                                            *)
LEMMA RefinesProxy == CaptureSpec => Spec
<1>1. CaptureInit => Init
  BY DEF CaptureInit
<1>2. [CaptureNext]_allVars => [Next]_vars
  <2> SUFFICES ASSUME [CaptureNext]_allVars PROVE [Next]_vars
    OBVIOUS
  <2>1. CASE ProxyStep
    BY <2>1 DEF ProxyStep, Next
  <2>2. CASE ExecuteExits \/ ExecuteKilled
    BY <2>2 DEF ExecuteExits, ExecuteKilled, Next
  <2>3. CASE ExecuteReturned
    BY <2>3 DEF ExecuteReturned, SnapshotTaken, Next
  <2>4. CASE Enrich \/ Write
    BY <2>4 DEF Enrich, EnrichWith, Write, Written, WrittenWith
  <2>5. CASE UNCHANGED allVars
    BY <2>5 DEF allVars
  <2> QED
    BY <2>1, <2>2, <2>3, <2>4, <2>5 DEF CaptureNext, MainThread
<1> QED
  BY <1>1, <1>2, PTL DEF CaptureSpec, Spec

-----------------------------------------------------------------------------
(* The snapshot is a beginning of the list, and the rows one of the         *)
(* snapshot; the command believes of `execute` no better than what it was.  *)
RowRecords == [raw : Txs, info : {"blank", "decoded"}]

SnapInv ==
    /\ (stage = "executing") <=> ~taken
    /\ taken => Len(snap) <= Len(raw_txs) /\ \A k \in DOMAIN snap : snap[k] = raw_txs[k]

RowsInv ==
    /\ stage = "executing" => rows = <<>>
    /\ Len(rows) <= Len(snap)
    /\ \A k \in DOMAIN rows : rows[k].raw = Raw(snap[k])
    /\ stage = "ended" => csv = rows /\ Len(rows) = Len(snap)

VerdictInv ==
    /\ stage = "executing" => ~execute_ok
    /\ execute_ok => client = "exited" /\ returncode = 0
    /\ exit = 0 => execute_ok /\ (flow = "export" => rows # <<>>)
    /\ returncode # -1 => client # "running"

CaptureInv == CaptureTypeOK /\ SnapInv /\ RowsInv /\ VerdictInv

(* What is recorded is a transaction.                                      *)
LEMMA RawIsTx ==
  ASSUME Inv, NEW k \in DOMAIN raw_txs
  PROVE  Raw(raw_txs[k]) \in Txs
<1>1. raw_txs[k].req \in Reqs /\ raw_txs[k].call \in SendsOf(raw_txs[k].req)
  BY RecordedReqs, AnsweredEntries DEF RecordedWasAnswered
<1>2. Body[raw_txs[k].req] \in Seq(Calls) /\ raw_txs[k].call \in 1..Len(Body[raw_txs[k].req])
  BY <1>1, BodyAssumption DEF SendsOf
<1>3. Body[raw_txs[k].req][raw_txs[k].call] \in Calls
  BY <1>2
<1> QED
  BY <1>3 DEF Raw, Calls

(* The list only grows at its end, and the snapshot is taken once.          *)
LEMMA ListGrows ==
  ASSUME Inv, [Next]_vars
  PROVE  /\ Len(raw_txs) <= Len(raw_txs')
         /\ \A k \in DOMAIN raw_txs : raw_txs'[k] = raw_txs[k]
         /\ taken => taken' /\ snap' = snap
<1> USE DEF Inv, TypeOK
<1>1. ASSUME NEW r \in Reqs, Record(r)
      PROVE  /\ Len(raw_txs) <= Len(raw_txs')
             /\ \A k \in DOMAIN raw_txs : raw_txs'[k] = raw_txs[k]
  <2>1. raw_txs' = Append(raw_txs, Entry(r, pos[r] + 1))
    BY <1>1 DEF Record, Passed
  <2> QED
    BY <2>1
<1>2. raw_txs' = raw_txs \/ \E r \in Reqs : Record(r)
  BY DEF Next, Handler, Post, Arrive, Refuse, Lose, UpstreamAnswered, ErrorBodyTorn,
         ForwardFailed, Forwarded, Skip, Passed, ExtractRaises, ExtractStops, Unreadable, ExtractDone, Send,
         Reply, ClientExit, ClientKill, Snapshot, TakeSnapshot, recorderVars, vars
<1>3. taken => taken' /\ snap' = snap
  BY DEF Next, Handler, Post, Arrive, Refuse, Lose, UpstreamAnswered, ErrorBodyTorn,
         ForwardFailed, Forwarded, Record, Skip, Passed, ExtractRaises, ExtractStops, Unreadable, ExtractDone, Send,
         Reply, ClientExit, ClientKill, Snapshot, TakeSnapshot, recorderVars, vars
<1> QED
  BY <1>1, <1>2, <1>3

LEMMA CaptureInitInv == CaptureInit => CaptureInv
<1> SUFFICES ASSUME CaptureInit PROVE CaptureInv
  OBVIOUS
<1>1. rows = <<>> /\ csv = <<>> /\ snap = <<>> /\ ~taken /\ stage = "executing"
  BY DEF CaptureInit, Init
<1>2. CaptureTypeOK
  <2>1. exit = -1 /\ returncode = -1 /\ flow \in Flows /\ execute_ok = FALSE
    BY DEF CaptureInit
  <2>2. rows \in Seq(RowRecords) /\ csv \in Seq(RowRecords)
    BY <1>1
  <2>3. (exit = -1) = (stage # "ended")
    BY <1>1, <2>1
  <2> QED
    BY <1>1, <2>1, <2>2, <2>3 DEF CaptureTypeOK, RowRecords
<1> QED
  BY <1>1, <1>2 DEF CaptureInit, CaptureInv, SnapInv, RowsInv, VerdictInv

(* Handler threads, the network and the end of `execute`.                  *)
LEMMA AroundStep ==
  ASSUME Inv, Inv', CaptureInv, ProxyStep \/ ExecuteExits \/ ExecuteKilled \/ UNCHANGED allVars
  PROVE  CaptureInv'
<1> USE DEF CaptureInv
<1>1. UNCHANGED <<flow, stage, execute_ok, rows, csv, exit, taken, snap>>
  BY DEF ProxyStep, ExecuteExits, ExecuteKilled, captureVars, allVars, vars, recorderVars,
         ClientExit, ClientKill, Handler, Post, Arrive, Refuse, Lose, UpstreamAnswered, ErrorBodyTorn,
         ForwardFailed, Forwarded, Record, Skip, Passed, ExtractRaises, ExtractStops, Unreadable, ExtractDone, Send, Reply
<1>2. [Next]_vars
  BY DEF ProxyStep, ExecuteExits, ExecuteKilled, Next, allVars
<1>3. SnapInv'
  <2>1. /\ Len(raw_txs) <= Len(raw_txs')
        /\ \A k \in DOMAIN raw_txs : raw_txs'[k] = raw_txs[k]
    BY <1>2, ListGrows
  <2>2. /\ Len(raw_txs) \in Nat /\ Len(raw_txs') \in Nat /\ Len(snap) \in Nat
        /\ DOMAIN snap = 1..Len(snap) /\ DOMAIN raw_txs = 1..Len(raw_txs)
    BY DEF Inv, TypeOK
  <2> QED
    BY <1>1, <2>1, <2>2 DEF SnapInv
<1>4. RowsInv'
  BY <1>1 DEF RowsInv, Raw
<1>5. /\ client # "running" => client' = client /\ returncode' = returncode
      /\ returncode' # -1 => client' # "running"
      /\ returncode' \in {-1, 0, 1}
  BY DEF VerdictInv, CaptureTypeOK, ProxyStep, ExecuteExits, ExecuteKilled, captureVars, allVars, vars,
         ClientExit, ClientKill, Handler, Post, Arrive, Refuse, Lose, UpstreamAnswered, ErrorBodyTorn,
         ForwardFailed, Forwarded, Record, Skip, Passed, ExtractRaises, ExtractStops, Unreadable, ExtractDone, Send, Reply
<1>6. VerdictInv'
  BY <1>1, <1>5 DEF VerdictInv
<1>7. CaptureTypeOK'
  BY <1>1, <1>5 DEF CaptureTypeOK
<1> QED
  BY <1>3, <1>4, <1>6, <1>7

(* The main thread.                                                        *)
LEMMA MainStep ==
  ASSUME Inv, CaptureInv, MainThread
  PROVE  CaptureInv'
<1> USE DEF CaptureInv
<1>1. /\ Len(raw_txs) \in Nat /\ Len(snap) \in Nat /\ Len(rows) \in Nat
      /\ DOMAIN snap = 1..Len(snap) /\ DOMAIN raw_txs = 1..Len(raw_txs) /\ DOMAIN rows = 1..Len(rows)
  BY DEF Inv, TypeOK, CaptureTypeOK
<1>2. CASE ExecuteReturned
  <2>1. /\ stage = "executing" /\ ~taken /\ client # "running" /\ taken' /\ snap' = raw_txs
        /\ stage' = "enriching" /\ execute_ok' = (client = "exited" /\ returncode = 0)
        /\ UNCHANGED <<raw_txs, client, flow, returncode, rows, csv, exit>>
    BY <1>2 DEF ExecuteReturned, SnapshotTaken, Snapshot, TakeSnapshot
  <2>2. rows = <<>>
    BY <2>1 DEF RowsInv
  <2>3. SnapInv'
    BY <1>1, <2>1 DEF SnapInv
  <2>4. RowsInv'
    BY <1>1, <2>1, <2>2 DEF RowsInv
  <2>5. exit = -1
    BY <2>1 DEF CaptureTypeOK
  <2>6. VerdictInv'
    BY <2>1, <2>5 DEF VerdictInv
  <2>7. CaptureTypeOK'
    BY <2>1 DEF CaptureTypeOK
  <2> QED
    BY <2>3, <2>4, <2>6, <2>7
<1>3. CASE Enrich
  <2> DEFINE raw == Raw(snap[Len(rows) + 1])
  <2>1. /\ stage = "enriching" /\ Len(rows) < Len(snap)
        /\ UNCHANGED <<vars, flow, stage, returncode, execute_ok, csv, exit>>
    BY <1>3 DEF Enrich, EnrichWith
  <2>2. PICK info \in {"blank", "decoded"} : rows' = Append(rows, [raw |-> raw, info |-> info])
    BY <1>3 DEF Enrich, EnrichWith
  <2>3. raw \in Txs
    <3>1. Len(rows) + 1 \in DOMAIN snap /\ taken
      BY <1>1, <2>1 DEF SnapInv
    <3>2. Len(rows) + 1 \in DOMAIN raw_txs /\ snap[Len(rows) + 1] = raw_txs[Len(rows) + 1]
      BY <1>1, <3>1 DEF SnapInv
    <3> QED
      BY <3>2, RawIsTx
  <2>4. UNCHANGED <<raw_txs, snap, taken, client>>
    BY <2>1 DEF vars, recorderVars
  <2> HIDE DEF raw
  <2>5. /\ Len(rows') = Len(rows) + 1 /\ DOMAIN rows' = 1..(Len(rows) + 1)
        /\ \A k \in 1..Len(rows) : rows'[k] = rows[k]
        /\ rows'[Len(rows) + 1].raw = raw
        /\ rows' \in Seq(RowRecords)
    BY <1>1, <2>2, <2>3 DEF CaptureTypeOK, RowRecords
  <2>6. RowsInv'
    <3>1. \A k \in DOMAIN rows' : rows'[k].raw = Raw(snap[k])
      <4>1. ASSUME NEW k \in 1..Len(rows) PROVE rows'[k].raw = Raw(snap[k])
        BY <1>1, <2>5 DEF RowsInv
      <4>2. rows'[Len(rows) + 1].raw = Raw(snap[Len(rows) + 1])
        BY <2>5 DEF raw
      <4>3. \A k \in 1..(Len(rows) + 1) : k \in 1..Len(rows) \/ k = Len(rows) + 1
        BY <1>1
      <4> QED
        BY <2>5, <4>1, <4>2, <4>3
    <3>2. (\A k \in DOMAIN rows : rows[k].raw = Raw(snap[k]))'
      BY <3>1, <2>4 DEF Raw
    <3> QED
      BY <1>1, <2>1, <2>4, <2>5, <3>2 DEF RowsInv
  <2>7. SnapInv'
    BY <2>1, <2>4 DEF SnapInv
  <2>8. exit = -1
    BY <2>1 DEF CaptureTypeOK
  <2>9. VerdictInv'
    BY <2>1, <2>4, <2>8 DEF VerdictInv
  <2>10. CaptureTypeOK'
    BY <2>1, <2>5 DEF CaptureTypeOK, RowRecords
  <2> QED
    BY <2>6, <2>7, <2>9, <2>10
<1>4. CASE Write
  <2>1. /\ stage = "enriching" /\ Len(rows) = Len(snap) /\ stage' = "ended" /\ csv' = rows
        /\ execute_ok' = (execute_ok /\ (flow = "export" => rows # <<>>))
        /\ exit' = IF execute_ok /\ (flow = "export" => rows # <<>>) THEN 0 ELSE 1
        /\ UNCHANGED <<vars, flow, returncode, rows>>
    BY <1>4 DEF Write, Written, WrittenWith
  <2>2. UNCHANGED <<raw_txs, snap, taken, client>>
    BY <2>1 DEF vars, recorderVars
  <2>3. SnapInv'
    BY <2>1, <2>2 DEF SnapInv
  <2>4. RowsInv'
    BY <1>1, <2>1, <2>2 DEF RowsInv, Raw
  <2>5. VerdictInv'
    <3>1. execute_ok' => execute_ok
      BY <2>1
    <3>2. exit' = 0 => execute_ok' /\ (flow = "export" => rows # <<>>)
      <4>1. CASE execute_ok /\ (flow = "export" => rows # <<>>)
        BY <2>1, <4>1
      <4>2. CASE ~(execute_ok /\ (flow = "export" => rows # <<>>))
        <5>1. exit' = 1
          BY <2>1, <4>2
        <5> QED
          BY <5>1
      <4> QED
        BY <4>1, <4>2
    <3> QED
      BY <2>1, <2>2, <3>1, <3>2 DEF VerdictInv
  <2>6. CaptureTypeOK'
    BY <2>1 DEF CaptureTypeOK
  <2> QED
    BY <2>3, <2>4, <2>5, <2>6
<1> QED
  BY <1>2, <1>3, <1>4 DEF MainThread

LEMMA CaptureInvariance == CaptureSpec => [](Inv /\ CaptureInv)
<1>1. Inv /\ Inv' /\ CaptureInv /\ [CaptureNext]_allVars => CaptureInv'
  BY AroundStep, MainStep DEF CaptureNext
<1> QED
  BY <1>1, CaptureInitInv, RefinesProxy, Invariance, PTL DEF CaptureSpec

-----------------------------------------------------------------------------
(* CaptureTypeOK of the pipeline.                                          *)
THEOREM PipelineTypeCorrect == CaptureSpec => []CaptureTypeOK
<1>1. CaptureInv => CaptureTypeOK
  BY DEF CaptureInv
<1> QED
  BY <1>1, CaptureInvariance, PTL

(* ExitZeroIsWhole: exit code 0 is the capture of an `execute` that         *)
(* succeeded, in order, with what could be read of every request served.    *)
THEOREM ExitZeroHolds == CaptureSpec => []ExitZeroIsWhole
<1>1. Inv /\ CaptureInv => ExitZeroIsWhole
  <2> SUFFICES ASSUME Inv, CaptureInv, exit = 0
               PROVE  /\ returncode = 0
                      /\ Len(csv) = Len(raw_txs)
                      /\ \A k \in DOMAIN csv : csv[k].raw = Raw(raw_txs[k])
                      /\ \A r \in Reqs : Served(r) => Holds(raw_txs, r)
                      /\ flow = "export" => csv # <<>>
    BY DEF ExitZeroIsWhole
  <2>1. stage = "ended" /\ execute_ok
    BY DEF CaptureInv, CaptureTypeOK, VerdictInv
  <2>2. client = "exited" /\ taken /\ returncode = 0
    BY <2>1 DEF CaptureInv, VerdictInv, SnapInv
  <2>3. snap = raw_txs
    BY <2>2 DEF Inv, MainInv
  <2>4. csv = rows /\ Len(rows) = Len(raw_txs) /\ \A k \in DOMAIN rows : rows[k].raw = Raw(raw_txs[k])
    BY <2>1, <2>3 DEF CaptureInv, RowsInv
  <2>5. \A r \in Reqs : Served(r) => Holds(raw_txs, r)
    BY ServedIsHeld
  <2> QED
    BY <2>2, <2>4, <2>5 DEF CaptureInv, VerdictInv
<1> QED
  BY <1>1, CaptureInvariance, PTL

(* CsvIsPrefix: the CSV of a killed `execute` is a beginning of the list,   *)
(* whatever its handler threads go on recording.                            *)
THEOREM CsvHolds == CaptureSpec => []CsvIsPrefix
<1>1. Inv /\ CaptureInv => CsvIsPrefix
  <2> SUFFICES ASSUME Inv, CaptureInv, stage = "ended"
               PROVE  /\ Len(csv) <= Len(raw_txs)
                      /\ \A k \in DOMAIN csv : csv[k].raw = Raw(raw_txs[k])
    BY DEF CsvIsPrefix
  <2>1. taken /\ csv = rows /\ Len(rows) = Len(snap)
    BY DEF CaptureInv, SnapInv, RowsInv
  <2>2. DOMAIN rows = 1..Len(rows) /\ DOMAIN snap = 1..Len(snap)
    BY DEF Inv, TypeOK, CaptureInv, CaptureTypeOK
  <2>3. \A k \in DOMAIN rows : rows[k].raw = Raw(snap[k]) /\ snap[k] = raw_txs[k]
    BY <2>1, <2>2 DEF CaptureInv, SnapInv, RowsInv
  <2>4. \A k \in DOMAIN rows : rows[k].raw = Raw(raw_txs[k])
    BY <2>3
  <2> QED
    BY <2>1, <2>4 DEF CaptureInv, SnapInv
<1> QED
  BY <1>1, CaptureInvariance, PTL

-----------------------------------------------------------------------------
(* The refinement of CaptureLog.                                           *)

(* A recorded entry is a submission of the log, with its text.             *)
LEMMA RecordedIsSubmission ==
  ASSUME Inv, NEW k \in DOMAIN raw_txs
  PROVE  raw_txs[k] \in AllSends
<1>1. raw_txs[k] \in Entries
  BY DEF Inv, TypeOK
<1>2. /\ raw_txs[k].req \in Reqs /\ raw_txs[k].call \in SendsOf(raw_txs[k].req)
      /\ raw_txs[k] = Entry(raw_txs[k].req, raw_txs[k].call)
  BY <1>1 DEF Inv, RecordedWasPassed, Entries, Entry
<1> QED
  BY <1>2 DEF AllSends

(* A handler that records appends the next submission of its request, and   *)
(* the command has not exited with 0.                                       *)
LEMMA RecordRefines ==
  ASSUME Inv, CaptureInv, NEW r \in Reqs, Record(r), UNCHANGED captureVars
  PROVE  Log!Record
<1> DEFINE e == Entry(r, pos[r] + 1)
<1>1. /\ raw_txs' = Append(raw_txs, e) /\ UNCHANGED <<taken, snap, csv, exit>>
      /\ pc[r] = "recording" /\ pos[r] < Len(Body[r]) /\ Body[r][pos[r] + 1].method = "send"
  BY DEF Record, Passed, captureVars
<1>2. exit # 0
  <2>1. r \in Outstanding
    BY <1>1 DEF Outstanding, Over
  <2> QED
    BY <2>1 DEF Inv, MainInv, CaptureInv, VerdictInv
<1>3. pos[r] \in Nat /\ Len(Body[r]) \in Nat
  BY BodyAssumption DEF Inv, TypeOK
<1>4. e \in AllSends
  <2>1. pos[r] + 1 \in SendsOf(r)
    BY <1>1, <1>3 DEF SendsOf, IsSend
  <2> QED
    BY <2>1 DEF AllSends
<1>5. \A k \in DOMAIN raw_txs : raw_txs[k].req = e.req => raw_txs[k].call < e.call
  <2>1. e.req = r /\ e.call = pos[r] + 1
    BY DEF Entry
  <2>2. ASSUME NEW k \in DOMAIN raw_txs PROVE raw_txs[k].call \in Nat
    <3>1. raw_txs[k] \in Entries
      BY DEF Inv, TypeOK
    <3> QED
      BY <3>1 DEF Entries
  <2> QED
    BY <1>3, <2>1, <2>2 DEF Inv, RecordedWasPassed
<1> HIDE DEF e
<1>6. UNCHANGED [k \in DOMAIN csv |-> csv[k].raw]
  BY <1>1
<1> QED
  BY <1>1, <1>2, <1>4, <1>5, <1>6 DEF Log!Record

(* The other handler steps, the environment and the lookups are invisible.  *)
LEMMA AroundRefines ==
  ASSUME [CaptureNext]_allVars, ~ExecuteReturned, ~Write,
         \A r \in Reqs : ~(Record(r) /\ UNCHANGED captureVars)
  PROVE  UNCHANGED Log!vars
<1>1. UNCHANGED <<raw_txs, taken, snap, csv, exit>>
  BY DEF CaptureNext, MainThread, ProxyStep, ExecuteExits, ExecuteKilled, Enrich, EnrichWith,
         captureVars, allVars, vars, recorderVars,
         ClientExit, ClientKill, Handler, Post, Arrive, Refuse, Lose, UpstreamAnswered, ErrorBodyTorn,
         ForwardFailed, Forwarded, Skip, Passed, ExtractRaises, ExtractStops, Unreadable, ExtractDone, Send, Reply
<1> QED
  BY <1>1 DEF Log!vars

(* The table is the text of the snapshot, and code 0 is of an `execute`     *)
(* that ended by itself.                                                    *)
LEMMA WriteRefines ==
  ASSUME Inv, CaptureInv, Write
  PROVE  Log!Publish
<1>1. /\ stage = "enriching" /\ Len(rows) = Len(snap) /\ csv' = rows
      /\ exit' \in {0, 1} /\ (exit' = 0 => execute_ok)
      /\ UNCHANGED vars
  BY DEF Write, Written, WrittenWith
<1>2. UNCHANGED <<raw_txs, taken, snap>> /\ taken /\ exit = -1
  BY <1>1 DEF vars, recorderVars, CaptureInv, SnapInv, CaptureTypeOK
<1>3. exit' = 0 => snap = raw_txs
  BY <1>1, <1>2 DEF CaptureInv, VerdictInv, Inv, MainInv
<1>4. DOMAIN rows = DOMAIN snap
  BY <1>1 DEF Inv, TypeOK, CaptureInv, CaptureTypeOK
<1>5. ASSUME NEW k \in DOMAIN snap PROVE rows[k].raw = [e \in AllSends |-> Raw(e)][snap[k]]
  <2>1. k \in DOMAIN raw_txs /\ snap[k] = raw_txs[k]
    BY <1>2 DEF CaptureInv, SnapInv, Inv, TypeOK
  <2>2. snap[k] \in AllSends
    BY <2>1, RecordedIsSubmission
  <2> QED
    BY <1>4, <2>2 DEF CaptureInv, RowsInv
<1>6. [k \in DOMAIN csv |-> csv[k].raw]' = [k \in DOMAIN snap |-> [e \in AllSends |-> Raw(e)][snap[k]]]
  BY <1>1, <1>4, <1>5
<1> QED
  BY <1>1, <1>2, <1>3, <1>6 DEF Log!Publish

(* ImplementsLog: the capture pipeline, whatever its threads interleave,    *)
(* keeps the promise of CaptureLog.                                         *)
THEOREM Refinement == CaptureSpec => ImplementsLog
<1>1. CaptureInit => Log!Init
  BY DEF CaptureInit, Init, Log!Init
<1>2. Inv /\ CaptureInv /\ [CaptureNext]_allVars => [Log!Next]_Log!vars
  <2> SUFFICES ASSUME Inv, CaptureInv, [CaptureNext]_allVars PROVE [Log!Next]_Log!vars
    OBVIOUS
  <2>1. CASE \E r \in Reqs : Record(r) /\ UNCHANGED captureVars
    BY <2>1, RecordRefines DEF Log!Next
  <2>2. CASE ExecuteReturned
    <3>1. ~taken /\ taken' = TRUE /\ snap' = raw_txs /\ UNCHANGED <<raw_txs, csv, exit>>
      BY <2>2 DEF ExecuteReturned, SnapshotTaken, Snapshot, TakeSnapshot
    <3> QED
      BY <3>1 DEF Log!Next, Log!Read
  <2>3. CASE Write
    BY <2>3, WriteRefines DEF Log!Next
  <2> QED
    BY <2>1, <2>2, <2>3, AroundRefines
<1> QED
  BY <1>1, <1>2, CaptureInvariance, PTL DEF CaptureSpec, ImplementsLog, Log!Spec

=============================================================================
