------------------------------ MODULE RunCommand ------------------------------
(***************************************************************************)
(* `eest-replay run` as a whole: the loops of Batch.tla, with the replay   *)
(* of each engine fixture taking its time in them.  While a fixture is     *)
(* replayed it goes through the steps of FixtureVerdict.tla, which         *)
(* Replay.tla implements; then its result is added, or Ctrl-C throws away  *)
(* what has been judged of it.                                             *)
(***************************************************************************)
EXTENDS Batch

\* The valid blocks of the engine fixture at an entry of a file.
CONSTANT BlocksOf(_, _)

VARIABLES
    todo, clean, \* of the fixture at hand: see FixtureVerdict
    verdict,     \* its result, none while it is replayed; idle between fixtures
    judged       \* history: [file, entry, block, matched]

fixtureVars == <<todo, clean, verdict>>
runVars == <<vars, fixtureVars, judged>>

F == INSTANCE FixtureVerdict WITH Fixtures <- {BlocksOf(n, m) : n, m \in Nat}

RunInit ==
    /\ Init
    /\ todo = {} /\ clean = TRUE /\ verdict = "idle"
    /\ judged = {}

-----------------------------------------------------------------------------
\* Fault: what is known of the fixture before is kept.
BeginUncleared ==
    /\ At("engine")
    /\ verdict = "idle"
    /\ verdict' = "none"
    /\ todo' = BlocksOf(f, e)
    /\ UNCHANGED <<vars, clean, judged>>

\* replay() is called.
Begin ==
    /\ At("engine")
    /\ verdict = "idle"
    /\ verdict' = "none"
    /\ todo' = BlocksOf(f, e) /\ clean' = TRUE
    /\ UNCHANGED <<vars, judged>>

Judge ==
    /\ \E b \in todo, matched \in BOOLEAN :
           /\ F!Judge(b, matched)
           /\ judged' = judged \cup
                  {[file |-> f, entry |-> e, block |-> b, matched |-> matched]}
    /\ UNCHANGED vars

\* Fault: the result of a crash has no error, and no block that differs.
CrashPasses ==
    /\ verdict = "none"
    /\ \/ F!Conclude
       \/ verdict' = "passed" /\ UNCHANGED <<todo, clean>>
    /\ UNCHANGED <<vars, judged>>

\* replay() returns, or the exception it raises becomes a result.
Return == (F!Conclude \/ F!Abort) /\ UNCHANGED <<vars, judged>>

\* The result is added.
AddResult ==
    /\ verdict \in Verdicts
    /\ Add(verdict)
    /\ verdict' = "idle"
    /\ UNCHANGED <<todo, clean, judged>>

\* Fault: the fixture Ctrl-C interrupts is added as a crashed one.
InterruptedAdds ==
    /\ pc = "iterate" /\ verdict = "none"
    /\ pc' = "json" /\ raised' = "interrupt"
    /\ results' = Append(results, [file |-> f, entry |-> e, verdict |-> "errored"])
    /\ verdict' = "idle"
    /\ UNCHANGED <<batch, stop, f, e, json, md, exit, todo, clean, judged>>

\* Ctrl-C is no Exception: it leaves the replay and the loops.
Interrupted ==
    /\ Interrupt
    /\ verdict' = "idle"
    /\ UNCHANGED <<todo, clean, judged>>

\* The steps between fixtures.
Between ==
    /\ \/ NothingFound \/ Found \/ PassOver \/ FileDone \/ NextFile \/ LoadRaises
       \/ WriteRaises \/ WriteJson \/ WriteMarkdown \/ Exit \/ Terminated
    /\ UNCHANGED <<fixtureVars, judged>>

RunNext == Begin \/ Judge \/ Return \/ AddResult \/ Interrupted \/ Between

RunSpec == RunInit /\ [][RunNext]_runVars

-----------------------------------------------------------------------------
(* Properties.                                                             *)

Judgement(n, m, b, matched) == [file |-> n, entry |-> m, block |-> b, matched |-> matched]

\* What was judged justifies this result.
Earned(r) ==
    LET Has(b, matched) == Judgement(r.file, r.entry, b, matched) \in judged
    IN /\ r.verdict = "passed" =>
              \A b \in BlocksOf(r.file, r.entry) : Has(b, TRUE) /\ ~Has(b, FALSE)
       /\ r.verdict = "failed" =>
              /\ \A b \in BlocksOf(r.file, r.entry) : Has(b, TRUE) \/ Has(b, FALSE)
              /\ \E b \in BlocksOf(r.file, r.entry) : Has(b, FALSE)

(* The verdicts in the reports are those of the blocks: a fixture is given *)
(* as passed only if each of its valid blocks was built and matched, as    *)
(* failed only if each was built and one of them did not match.  What was  *)
(* judged of another fixture, or before a crash or Ctrl-C, never counts.   *)
ReportIsEarned == \A k \in DOMAIN results : Earned(results[k])

(* Exit code 0 of the whole command means that every valid block of every  *)
(* engine fixture of every file was built and matched, and that no block   *)
(* that was built at all did not match.                                    *)
ExitZeroIsEarned ==
    exit = 0 =>
        /\ \A n \in DOMAIN batch : \A m \in DOMAIN batch[n] :
               batch[n][m] = "engine" =>
                   \A b \in BlocksOf(n, m) : Judgement(n, m, b, TRUE) \in judged
        /\ \A j \in judged : j.matched

(* With fixtures that take their time the command is still the batch of    *)
(* Batch.tla: a fixture takes its one step there when its result is added. *)
ImplementsBatch == Spec

===============================================================================
