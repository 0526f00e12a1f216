--------------------------- MODULE RecordingProxy ---------------------------
(***************************************************************************)
(* The recording JSON-RPC proxy of src/eest_replay/rpc_proxy.py: a         *)
(* threading HTTP server between EEST `execute` (the client) and the RPC   *)
(* endpoint of a node.  Every POST is served by a handler thread that      *)
(* forwards the body, and once the upstream has answered appends the raw   *)
(* transactions of the body, one lock acquisition each, to a shared list.  *)
(* The client, the network and the node are external: they are modelled    *)
(* from what the handler can observe of them.                              *)
(***************************************************************************)
EXTENDS Naturals, Sequences, FiniteSets

CONSTANTS
    Txs,            \* raw signed transactions
    Reqs,           \* HTTP requests the client may post, each posted once
    Body,           \* Body[r]: the JSON-RPC calls of r, more than one in a batch
    MaxOutstanding  \* how many unanswered requests the client may have (1: sequential)

(* A call submits a transaction in an array of parameters ("send"; of a    *)
(* bare string the loop would take the first character for it), or has     *)
(* parameters params[0] fails on: an object ("sendNamed") or a number or   *)
(* true ("sendScalar"; so does a body that is no JSON).  Anything else is  *)
(* passed over ("other"): another method, no or a non-string parameter.    *)
Calls == [method : {"send", "sendNamed", "sendScalar", "other"}, raw : Txs]

ASSUME ReqsAssumption == IsFiniteSet(Reqs)
ASSUME BodyAssumption == Body \in [Reqs -> Seq(Calls)]
ASSUME OutstandingAssumption == MaxOutstanding \in Nat \ {0}

VARIABLES
    client,    \* the `execute` process: running, exited by itself, or killed
    pc,        \* per request: where its handler thread is
    pos,       \* per request: how many calls of the body the recording loop has passed
    outcome,   \* per request: what urlopen did: none yet, answered, failed
    wire,      \* per request: how far the forwarded copy got
    raw_txs,   \* _Recorder.raw_txs; an entry names the request and the call it came from
    taken,     \* snapshot() has been called
    snap,      \* the list snapshot() returned
    late,      \* history: the requests open when it was called
    arrived,   \* history: requests in the order the node received them
    before,    \* history: per request, the requests that were over when it was posted
    pool       \* transactions the node has accepted and therefore broadcast

handlerVars == <<pc, pos, outcome>>
recorderVars == <<raw_txs, taken, snap, late>>
nodeVars == <<wire, arrived, before, pool>>
vars == <<client, handlerVars, recorderVars, nodeVars>>

Entries == [req : Reqs, call : Nat \ {0}]
Entry(r, j) == [req |-> r, call |-> j]

IsSend(r, j) == Body[r][j].method = "send"
SendsOf(r) == {j \in 1..Len(Body[r]) : IsSend(r, j)}

\* The submissions ahead of the first call the recording loop cannot read.
ReadableSends(r) ==
    {j \in SendsOf(r) : \A i \in 1..j : Body[r][i].method \notin {"sendNamed", "sendScalar"}}

TxsOf(r) == {Body[r][j].raw : j \in SendsOf(r)}
Raw(e) == Body[e.req][e.call].raw

(* A handler thread is over when it has replied, or when an exception no   *)
(* clause of do_POST catches has torn the connection.                      *)
Over == {"done", "torn"}
Ended == {r \in Reqs : pc[r] \in Over}
Outstanding == {r \in Reqs : pc[r] \notin Over \cup {"idle"}}

Init ==
    /\ client = "running"
    /\ pc = [r \in Reqs |-> "idle"]
    /\ pos = [r \in Reqs |-> 0]
    /\ outcome = [r \in Reqs |-> "none"]
    /\ wire = [r \in Reqs |-> "none"]
    /\ raw_txs = <<>>
    /\ taken = FALSE
    /\ snap = <<>>
    /\ late = {}
    /\ arrived = <<>>
    /\ before = [r \in Reqs |-> {}]
    /\ pool = {}

-----------------------------------------------------------------------------
(* The client (external).  It may keep MaxOutstanding requests open.       *)

\* The handler thread starts, reads the body and calls urlopen.
Post(r) ==
    /\ client = "running"
    /\ pc[r] = "idle"
    /\ Cardinality(Outstanding) < MaxOutstanding
    /\ pc' = [pc EXCEPT ![r] = "forwarding"]
    /\ wire' = [wire EXCEPT ![r] = "inflight"]
    /\ before' = [before EXCEPT ![r] = Ended]
    /\ UNCHANGED <<client, pos, outcome, recorderVars, arrived, pool>>

\* `execute` ends in order, after the answers to all its requests: it waits for
\* each of them.
ClientExit ==
    /\ client = "running"
    /\ Outstanding = {}
    /\ client' = "exited"
    /\ UNCHANGED <<handlerVars, recorderVars, nodeVars>>

\* _run_execute's timeout kills the process group, or `execute` dies, whatever is
\* in flight.
ClientKill ==
    /\ client = "running"
    /\ client' = "killed"
    /\ UNCHANGED <<handlerVars, recorderVars, nodeVars>>

-----------------------------------------------------------------------------
(* Network and node (external).  A forwarded copy may reach the node even  *)
(* after the handler has given up waiting for the answer.                  *)

\* The node receives the request; it accepts some of the transactions it
\* did not know and answers the others with a JSON-RPC error.
Arrive(r) ==
    /\ wire[r] = "inflight"
    /\ wire' = [wire EXCEPT ![r] = "arrived"]
    /\ arrived' = Append(arrived, r)
    /\ \E accepted \in SUBSET (TxsOf(r) \ pool) : pool' = pool \cup accepted
    /\ UNCHANGED <<client, handlerVars, recorderVars, before>>

\* A gateway in front of the node answers with an HTTP error status.
Refuse(r) ==
    /\ wire[r] = "inflight"
    /\ wire' = [wire EXCEPT ![r] = "refused"]
    /\ UNCHANGED <<client, handlerVars, recorderVars, arrived, before, pool>>

\* The copy never reaches anything that would answer it.
Lose(r) ==
    /\ wire[r] = "inflight"
    /\ wire' = [wire EXCEPT ![r] = "lost"]
    /\ UNCHANGED <<client, handlerVars, recorderVars, arrived, before, pool>>

-----------------------------------------------------------------------------
(* Handler.do_POST.  An operator "... fault" is a plausible defect of the  *)
(* operator after it; the specification does not use it.                   *)

\* urlopen ends with the given result and the thread goes on at next.
Forwarded(r, result, next) ==
    /\ pc[r] = "forwarding"
    /\ outcome' = [outcome EXCEPT ![r] = result]
    /\ pc' = [pc EXCEPT ![r] = next]
    /\ UNCHANGED <<client, pos, recorderVars, nodeVars>>

\* urlopen returned a response or raised HTTPError: both go on to record.
UpstreamAnswered(r) ==
    /\ wire[r] \in {"arrived", "refused"}
    /\ Forwarded(r, "answered", "recording")

\* Reading the body of the HTTPError raises inside the except clause.
ErrorBodyTorn(r) ==
    /\ wire[r] = "refused"
    /\ Forwarded(r, "failed", "torn")

\* Fault: a request whose forwarding failed is recorded all the same.
FailedRecorded(r) == Forwarded(r, "failed", "recording")

\* Fault: no timeout on urlopen, so a lost copy is waited for for ever.
ForwardFailedNoTimeout(r) == wire[r] = "arrived" /\ Forwarded(r, "failed", "failing")

\* urlopen raised anything else (connection error, DNS, its 120 s timeout):
\* the handler skips the recording.
ForwardFailed(r) == Forwarded(r, "failed", "failing")

\* The recording loop passes over the next call, leaving the list as given.
Passed(r, method, list) ==
    /\ pc[r] = "recording"
    /\ pos[r] < Len(Body[r])
    /\ Body[r][pos[r] + 1].method = method
    /\ raw_txs' = list
    /\ pos' = [pos EXCEPT ![r] = @ + 1]
    /\ UNCHANGED <<client, pc, outcome, taken, snap, late, nodeVars>>

\* Fault: the newest transaction goes to the front of the list.
RecordPrepended(r) == Passed(r, "send", <<Entry(r, pos[r] + 1)>> \o raw_txs)

\* Fault: the entry names the call before the one at hand.
RecordOffByOne(r) == Passed(r, "send", Append(raw_txs, Entry(r, pos[r])))

\* recorder.record(params[0]), under the recorder's lock.
Record(r) == Passed(r, "send", Append(raw_txs, Entry(r, pos[r] + 1)))

\* Any other call is passed over.
Skip(r) == Passed(r, "other", raw_txs)

\* params[0] raises on a call of the given kind, and the rest of the batch is
\* not looked at.
Unreadable(r, method, next) ==
    /\ pc[r] = "recording"
    /\ pos[r] < Len(Body[r])
    /\ Body[r][pos[r] + 1].method = method
    /\ pc' = [pc EXCEPT ![r] = next]
    /\ UNCHANGED <<client, pos, outcome, recorderVars, nodeVars>>

\* A KeyError, which the except clause around the recording does not catch.
ExtractRaises(r) == Unreadable(r, "sendNamed", "torn")

\* A TypeError, or a ValueError of json.loads, which it does: the answer goes back.
ExtractStops(r) == Unreadable(r, "sendScalar", "replying")

\* The loop over the calls ends.
ExtractDone(r) ==
    /\ pc[r] = "recording"
    /\ pos[r] = Len(Body[r])
    /\ pc' = [pc EXCEPT ![r] = "replying"]
    /\ UNCHANGED <<client, pos, outcome, recorderVars, nodeVars>>

\* _send, from one of the given places of do_POST.
Reply(r, from) ==
    /\ pc[r] \in from
    /\ pc' = [pc EXCEPT ![r] = "done"]
    /\ UNCHANGED <<client, pos, outcome, recorderVars, nodeVars>>

\* Fault: the answer goes back before the recording loop has finished.
SendEarly(r) == Reply(r, {"recording", "replying", "failing"})

\* The upstream's answer, or the 502 of a failed forward.  Writing to a dead
\* client raises, and the thread ends all the same.
Send(r) == Reply(r, {"replying", "failing"})

-----------------------------------------------------------------------------
(* The main thread.                                                        *)

TakeSnapshot ==
    /\ ~taken
    /\ taken' = TRUE
    /\ snap' = raw_txs
    /\ late' = Outstanding
    /\ UNCHANGED <<client, handlerVars, raw_txs, nodeVars>>

\* Fault: the snapshot does not wait for `execute` to end.
SnapshotEarly == TakeSnapshot

\* recorder.snapshot() once _run_execute has returned.  Handler threads of a
\* killed client are daemon threads nobody joins: they go on recording.
Snapshot == client # "running" /\ TakeSnapshot

Handler(r) ==
    \/ UpstreamAnswered(r) \/ ErrorBodyTorn(r) \/ ForwardFailed(r)
    \/ Record(r) \/ Skip(r)
    \/ ExtractRaises(r) \/ ExtractStops(r) \/ ExtractDone(r)
    \/ Send(r)

Next ==
    \/ \E r \in Reqs : Post(r) \/ Arrive(r) \/ Refuse(r) \/ Lose(r) \/ Handler(r)
    \/ ClientExit
    \/ ClientKill
    \/ Snapshot

Spec == Init /\ [][Next]_vars

(* A handler thread is never starved and urlopen has a timeout; nothing is *)
(* assumed of the client, the network or the node.                         *)
Fairness == \A r \in Reqs : WF_vars(Handler(r))

-----------------------------------------------------------------------------
(* Properties.                                                             *)

(* Every variable stays in its type: in particular the recorded list only  *)
(* ever names requests the client made.                                    *)
TypeOK ==
    /\ client \in {"running", "exited", "killed"}
    /\ pc \in [Reqs -> {"idle", "forwarding", "recording", "replying", "failing"} \cup Over]
    /\ pos \in [Reqs -> Nat]
    /\ outcome \in [Reqs -> {"none", "answered", "failed"}]
    /\ wire \in [Reqs -> {"none", "inflight", "arrived", "refused", "lost"}]
    /\ raw_txs \in Seq(Entries)
    /\ taken \in BOOLEAN
    /\ snap \in Seq(Entries)
    /\ late \subseteq Reqs
    /\ arrived \in Seq(Reqs)
    /\ before \in [Reqs -> SUBSET Reqs]
    /\ pool \subseteq Txs

(* Whatever the handler threads interleave, a recorded transaction is a    *)
(* submission of a request the upstream answered, never one that was given *)
(* the 502 (rpc_proxy.py 110-127: "do NOT record").                        *)
RecordedWasAnswered ==
    \A k \in DOMAIN raw_txs :
        LET e == raw_txs[k]
        IN outcome[e.req] = "answered" /\ e.call \in SendsOf(e.req)

(* The transactions of one batch are recorded once each and in the order   *)
(* of the batch, although other threads may append between them.           *)
RecordedInBodyOrder ==
    \A k, l \in DOMAIN raw_txs :
        k < l /\ raw_txs[k].req = raw_txs[l].req => raw_txs[k].call < raw_txs[l].call

(* The snapshot is final but for what was open when it was taken: the list  *)
(* only grows behind it, by handlers of a client that was killed, and no    *)
(* request is begun or resumed after it.                                    *)
SnapshotFinal ==
    taken =>
        /\ Len(snap) <= Len(raw_txs)
        /\ \A k \in DOMAIN raw_txs :
               IF k <= Len(snap) THEN raw_txs[k] = snap[k] ELSE raw_txs[k].req \in late

(* The snapshot misses nothing it could have: of every request that had its *)
(* answer, or its torn connection, it has each submission ahead of the      *)
(* first call that cannot be read (recording precedes _send).               *)
Holds(list, r) == \A j \in ReadableSends(r) : \E k \in DOMAIN list : list[k] = Entry(r, j)
Served(r) == pc[r] \in Over /\ outcome[r] = "answered"

SnapshotCoversServed ==
    [][~taken /\ taken' => \A r \in Reqs : Served(r) => Holds(snap', r)]_vars

(* The module's "in submission order": what was over before another request *)
(* was posted is recorded before it, and reached the node before it, however *)
(* late answers and copies come.  With a client that waits for each answer   *)
(* this orders the whole list.                                               *)
SubmissionOrder ==
    \A k, l \in DOMAIN raw_txs :
        raw_txs[k].req \in before[raw_txs[l].req] =>
            /\ k < l
            /\ \A m, n \in DOMAIN arrived :
                   arrived[m] = raw_txs[k].req /\ arrived[n] = raw_txs[l].req => m < n

(* Every request the client posts gets its answer or its torn connection,  *)
(* even when the upstream never answers: no handler hangs for ever.        *)
EveryPostEnds == \A r \in Reqs : pc[r] = "forwarding" ~> pc[r] \in Over

(* The comment at rpc_proxy.py 129-130: "the captured sequence never       *)
(* contains a never-broadcast transaction".                                *)
CapturedWasBroadcast == \A k \in DOMAIN raw_txs : Raw(raw_txs[k]) \in pool

(* The comment at rpc_proxy.py 112-113: of a request it could not forward  *)
(* the handler says "the tx was never broadcast".                          *)
FailedWasNeverBroadcast ==
    \A r \in Reqs : pc[r] = "done" /\ outcome[r] = "failed" => TxsOf(r) \cap pool = {}

=============================================================================
