------------------------------- MODULE Capture -------------------------------
(***************************************************************************)
(* `export`, and `submit --csv`: the pipeline of src/eest_replay/export.py *)
(* around the recording proxy.  The main thread runs `execute` behind the  *)
(* proxy, takes the snapshot when `execute` has ended or was killed, looks *)
(* every transaction up at the node, writes the CSV and decides the exit   *)
(* code, while handler threads of a killed `execute` may still be running. *)
(***************************************************************************)
EXTENDS RecordingProxy, Integers

CONSTANT Flows  \* which of "export" and "submit" are run

ASSUME FlowsAssumption == Flows \subseteq {"export", "submit"}

VARIABLES
    flow,        \* the command
    stage,       \* the main thread: executing, enriching, ended
    returncode,  \* of `execute`; 0 is success
    execute_ok,  \* what the command believes of `execute`
    rows,        \* [raw, info]: the rows built so far
    csv,         \* the file, once written
    exit         \* the exit code; -1 while the command runs

captureVars == <<flow, stage, returncode, execute_ok, rows, csv, exit>>
allVars == <<vars, captureVars>>

CaptureInit ==
    /\ Init
    /\ flow \in Flows
    /\ stage = "executing"
    /\ returncode = -1
    /\ execute_ok = FALSE
    /\ rows = <<>> /\ csv = <<>>
    /\ exit = -1

-----------------------------------------------------------------------------
\* `execute` ends by itself: all tests passed, or pytest reports a failure.
ExecuteExits ==
    /\ ClientExit
    /\ returncode' \in {0, 1}
    /\ UNCHANGED <<flow, stage, execute_ok, rows, csv, exit>>

\* Fault: communicate() without a timeout.
ExecuteNeverKilled == FALSE /\ UNCHANGED allVars

\* communicate() timed out and the process group is killed, or `execute` dies with
\* a nonzero return code: not ok, either way.
ExecuteKilled == ClientKill /\ UNCHANGED captureVars

\* _run_execute returns ok only for return code 0 of an `execute` that was not
\* killed; then the snapshot is taken.
SnapshotTaken(ok) ==
    /\ stage = "executing"
    /\ Snapshot
    /\ stage' = "enriching"
    /\ execute_ok' = ok
    /\ UNCHANGED <<flow, returncode, rows, csv, exit>>

\* Fault: the return code is not looked at.
ReturnCodeIgnored == SnapshotTaken(client = "exited")

ExecuteReturned == SnapshotTaken(client = "exited" /\ returncode = 0)

\* One iteration of _enrich: a lookup that fails, or finds nothing, leaves the
\* decoded columns blank; the row is there all the same.
EnrichWith(next) ==
    /\ stage = "enriching"
    /\ Len(rows) < Len(snap)
    /\ LET raw == Raw(next)
       IN \E info \in {"blank"} \cup (IF raw \in pool THEN {"decoded"} ELSE {}) :
              rows' = Append(rows, [raw |-> raw, info |-> info])
    /\ UNCHANGED <<vars, flow, stage, returncode, execute_ok, csv, exit>>

\* Fault: the rows are built newest first.
EnrichReversed == EnrichWith(snap[Len(snap) - Len(rows)])

Enrich == EnrichWith(snap[Len(rows) + 1])

\* The CSV is written whatever happened before; then the command exits.
WrittenWith(ok, code) ==
    /\ stage = "enriching"
    /\ Len(rows) = Len(snap)
    /\ stage' = "ended"
    /\ csv' = rows
    /\ execute_ok' = ok
    /\ exit' = code
    /\ UNCHANGED <<vars, flow, returncode, rows>>

\* Fault: the command exits with the return code of `execute`, killed or not.
WrittenWithCode(ok) == WrittenWith(ok, returncode)

\* sys.exit(0 if result.execute_ok else 1)
Written(ok) == WrittenWith(ok, IF ok THEN 0 ELSE 1)

\* A green `execute` that sent nothing is not a successful export; submit has
\* no such check.
Write == Written(execute_ok /\ (flow = "export" => rows # <<>>))

MainThread == ExecuteReturned \/ Enrich \/ Write

\* The proxy and its environment.  A step after the command has ended stands for
\* one just before: the handler threads end with the process.
ProxyStep ==
    /\ \E r \in Reqs : Post(r) \/ Arrive(r) \/ Refuse(r) \/ Lose(r) \/ Handler(r)
    /\ UNCHANGED captureVars

CaptureNext == ProxyStep \/ ExecuteExits \/ ExecuteKilled \/ MainThread

CaptureSpec == CaptureInit /\ [][CaptureNext]_allVars

(* The timeout of _run_execute ends an `execute` that does not end itself, *)
(* and the handler threads go on.                                          *)
CaptureFairSpec ==
    CaptureSpec /\ Fairness /\ WF_allVars(ExecuteKilled) /\ WF_allVars(MainThread)

-----------------------------------------------------------------------------
(* Properties.                                                             *)

(* Every variable of the pipeline stays in its type, and the command has an *)
(* exit code exactly when it has ended.                                     *)
CaptureTypeOK ==
    /\ flow \in Flows
    /\ stage \in {"executing", "enriching", "ended"}
    /\ returncode \in {-1, 0, 1}
    /\ exit \in {-1, 0, 1} /\ (exit = -1) = (stage # "ended")
    /\ execute_ok \in BOOLEAN
    /\ rows \in Seq([raw : Txs, info : {"blank", "decoded"}])
    /\ csv \in Seq([raw : Txs, info : {"blank", "decoded"}])

(* Exit code 0 is a whole capture: `execute` succeeded, the CSV has one row *)
(* per recorded transaction in the recorded order, nothing was recorded     *)
(* after it, and for an export it is not empty.  Of every request whose     *)
(* answer the proxy read, replied to or torn, it has each submission ahead  *)
(* of the first call that cannot be read.                                   *)
ExitZeroIsWhole ==
    exit = 0 =>
        /\ returncode = 0
        /\ Len(csv) = Len(raw_txs)
        /\ \A k \in DOMAIN csv : csv[k].raw = Raw(raw_txs[k])
        /\ \A r \in Reqs : Served(r) => Holds(raw_txs, r)
        /\ flow = "export" => csv # <<>>

(* Even the CSV of a killed or failed `execute` is in order: its rows are   *)
(* the first ones of what the proxy recorded.                               *)
CsvIsPrefix ==
    stage = "ended" =>
        /\ Len(csv) <= Len(raw_txs)
        /\ \A k \in DOMAIN csv : csv[k].raw = Raw(raw_txs[k])

(* The command ends, with its CSV, even when `execute` and the node hang.   *)
CommandEnds == <>(stage = "ended")

AllSends == UNION {{Entry(r, j) : j \in SendsOf(r)} : r \in Reqs}
Log == INSTANCE CaptureLog WITH
          Submissions <- AllSends, Text <- [e \in AllSends |-> Raw(e)],
          log <- raw_txs, read <- taken, copy <- snap,
          table <- [k \in DOMAIN csv |-> csv[k].raw], code <- exit

(* The pipeline implements the log: nothing recorded is lost, moved or      *)
(* recorded twice, the snapshot is one state of the list, and after exit    *)
(* code 0 no daemon thread appends anything (export.py 127-160).            *)
ImplementsLog == Log!Spec

==============================================================================
