--------------------------------- MODULE Batch ---------------------------------
(***************************************************************************)
(* `eest-replay run` (run_cmd of src/eest_replay/cli.py with fixture.py    *)
(* and report.py): walk the fixture files in order, replay the engine      *)
(* fixtures of each as a lazy iterator produces them, collect one result   *)
(* per fixture, and write the reports in a `finally` whatever ended the    *)
(* loop.  A fixture takes one step here; RunCommand.tla puts the verdict   *)
(* of Replay.tla in its place.                                             *)
(***************************************************************************)
EXTENDS Naturals, Sequences, FiniteSets

(* An entry of a file is an engine fixture, a fixture of another format,   *)
(* or one that makes the iterator raise (bad JSON, failed validation).     *)
CONSTANT Batches  \* the sequences of files a run may be given

Entries == {"engine", "other", "malformed"}
ASSUME BatchesAssumption == Batches \subseteq Seq(Seq(Entries))

VARIABLES
    batch,    \* fixture_files
    stop,     \* --stop-on-first-failure
    pc,       \* the loops, the finally clause, the end
    f, e,     \* the file and the entry the iterator is at
    results,  \* report.results: [file, entry, verdict]
    raised,   \* the exception that ended the loops, or "none"
    json, md, \* the report files: [there, results]
    exit      \* the exit code; 2 while the command runs

loopVars == <<f, e, results>>
vars == <<batch, stop, pc, loopVars, raised, json, md, exit>>

Verdicts == {"passed", "failed", "errored"}
Passes == {k \in DOMAIN results : results[k].verdict = "passed"}
NoReport == [there |-> FALSE, results |-> <<>>]

Init ==
    /\ batch \in Batches /\ stop \in BOOLEAN
    /\ pc = "discover"
    /\ f = 1 /\ e = 1 /\ results = <<>>
    /\ raised = "none"
    /\ json = NoReport /\ md = NoReport
    /\ exit = 2

-----------------------------------------------------------------------------
\* discover_fixture_files found nothing: no report, exit code 1.
NothingFound ==
    /\ pc = "discover"
    /\ batch = <<>>
    /\ pc' = "ended" /\ exit' = 1
    /\ UNCHANGED <<batch, stop, loopVars, raised, json, md>>

Found ==
    /\ pc = "discover"
    /\ batch # <<>>
    /\ pc' = "iterate"
    /\ UNCHANGED <<batch, stop, loopVars, raised, json, md, exit>>

\* The iterator is at an entry of this kind.
At(kind) ==
    /\ pc = "iterate"
    /\ e <= Len(batch[f])
    /\ batch[f][e] = kind

\* A fixture of another format is passed over.
PassOver ==
    /\ At("other")
    /\ e' = e + 1
    /\ UNCHANGED <<batch, stop, pc, f, results, raised, json, md, exit>>

\* report.add; a failure ends the loop over the file if the flag is set.
Add(v) ==
    /\ At("engine")
    /\ results' = Append(results, [file |-> f, entry |-> e, verdict |-> v])
    /\ pc' = IF stop /\ v # "passed" THEN "fileEnd" ELSE "iterate"
    /\ e' = e + 1
    /\ UNCHANGED <<batch, stop, f, raised, json, md, exit>>

\* replay() returns or crashes, either way there is a result.
Replayed == \E v \in Verdicts : Add(v)

FileDone ==
    /\ pc = "iterate"
    /\ e > Len(batch[f])
    /\ pc' = "fileEnd"
    /\ UNCHANGED <<batch, stop, loopVars, raised, json, md, exit>>

\* Fault: only the loop over the file is left.
StopsFileOnly == FALSE

\* report.failed + report.errored, after a file with the flag set.
StopsBatch == stop /\ Cardinality(Passes) < Len(results)

NextFile ==
    /\ pc = "fileEnd"
    /\ IF StopsBatch \/ f = Len(batch)
       THEN pc' = "json" /\ UNCHANGED <<f, e>>
       ELSE pc' = "iterate" /\ f' = f + 1 /\ e' = 1
    /\ UNCHANGED <<batch, stop, results, raised, json, md, exit>>

-----------------------------------------------------------------------------
\* An exception leaves the loops for the finally clause.
Leave(exception, to) ==
    /\ pc' = to
    /\ raised' = exception
    /\ UNCHANGED <<batch, stop, loopVars, json, md, exit>>

\* Fault: no finally, so the reports are skipped.
LoadRaisesUnreported == At("malformed") /\ Leave("load", "exit")

\* The iterator raises; nothing catches it and the batch is given up.
LoadRaises == At("malformed") /\ Leave("load", "json")

\* Ctrl-C, at any point of the loops.
Interrupt == pc \in {"iterate", "fileEnd"} /\ Leave("interrupt", "json")

\* A report file cannot be written: what follows is skipped.
WriteRaises == pc \in {"json", "md"} /\ Leave("write", "exit")

WriteJson ==
    /\ pc = "json"
    /\ json' = [there |-> TRUE, results |-> results]
    /\ pc' = "md"
    /\ UNCHANGED <<batch, stop, loopVars, raised, md, exit>>

WriteMarkdown ==
    /\ pc = "md"
    /\ md' = [there |-> TRUE, results |-> results]
    /\ pc' = "exit"
    /\ UNCHANGED <<batch, stop, loopVars, raised, json, exit>>

\* Fault: a crashed fixture does not count, only a mismatch does.
CleanButErrored == \A k \in DOMAIN results : results[k].verdict # "failed"

\* report.failed + report.errored == 0; an errored result is a failed one.
Clean == Cardinality(Passes) = Len(results)

\* sys.exit, or the traceback of the exception.
Exit ==
    /\ pc = "exit"
    /\ pc' = "ended"
    /\ exit' = IF raised = "none" /\ Clean THEN 0 ELSE 1
    /\ UNCHANGED <<batch, stop, loopVars, raised, json, md>>

Terminated == pc = "ended" /\ UNCHANGED vars

Next ==
    \/ NothingFound \/ Found \/ PassOver \/ Replayed \/ FileDone \/ NextFile
    \/ LoadRaises \/ Interrupt \/ WriteRaises \/ WriteJson \/ WriteMarkdown
    \/ Exit \/ Terminated

Spec == Init /\ [][Next]_vars

-----------------------------------------------------------------------------
(* Properties.                                                             *)

(* Exit code 0 means that every engine fixture of every file was replayed  *)
(* exactly once and passed, and that both reports say so: no order of a    *)
(* malformed file, an early stop, an interrupt or a failed write hides one. *)
ExitZeroIsClean ==
    exit = 0 =>
        /\ \A n \in DOMAIN batch : \A m \in DOMAIN batch[n] :
               batch[n][m] = "engine" =>
                   \E k \in DOMAIN results :
                       results[k] = [file |-> n, entry |-> m, verdict |-> "passed"]
        /\ \A k \in DOMAIN results : results[k].verdict = "passed"
        /\ \A k, l \in DOMAIN results :
               results[k].file = results[l].file /\ results[k].entry = results[l].entry => k = l
        /\ json = [there |-> TRUE, results |-> results]
        /\ md = json

(* With --stop-on-first-failure nothing is replayed after a fixture that   *)
(* did not pass, not even a fixture of a later file.                       *)
StopsAtFirst ==
    stop => \A k \in DOMAIN results : k < Len(results) => results[k].verdict = "passed"

(* A batch that was given up half way (a malformed file, Ctrl-C) still     *)
(* leaves both reports, with every result there was.                       *)
AbortedIsReported ==
    pc = "ended" /\ raised \in {"load", "interrupt"} =>
        json = [there |-> TRUE, results |-> results] /\ md = json
================================================================================
