--------------------------- MODULE RunCommandProofs ---------------------------
(***************************************************************************)
(* Proofs about RunCommand: it implements Batch, so that what BatchProofs  *)
(* shows holds of it, and what the command reports is what was judged, for *)
(* any files and any fixtures in them.                                     *)
(***************************************************************************)
EXTENDS RunCommand, BatchProofs

(* ImplementsBatch: only the step that adds a result is one of the batch's. *)
THEOREM Refinement == RunSpec => ImplementsBatch
<1>1. RunInit => Init
  BY DEF RunInit
<1>2. [RunNext]_runVars => [Next]_vars
  <2> SUFFICES ASSUME [RunNext]_runVars PROVE [Next]_vars
    OBVIOUS
  <2>1. CASE Begin \/ Judge \/ Return \/ UNCHANGED runVars
    BY <2>1 DEF Begin, Judge, Return, runVars
  <2>2. CASE AddResult
    BY <2>2 DEF AddResult, Next, Replayed
  <2>3. CASE Interrupted \/ Between
    BY <2>3 DEF Interrupted, Between, Next
  <2> QED
    BY <2>1, <2>2, <2>3 DEF RunNext
<1> QED
  BY <1>1, <1>2, PTL DEF RunSpec, Spec, ImplementsBatch

LEMMA BatchHolds == RunSpec => []BatchInv
BY Refinement, BatchInvariance, PTL DEF ImplementsBatch

-----------------------------------------------------------------------------
AtCursor(j) == j.file = f /\ j.entry = e

(* The fixture at hand: what has been judged of it is what FixtureVerdict  *)
(* knows of it.                                                            *)
FixtureInv ==
    /\ verdict \in {"idle", "none"} \cup Verdicts
    /\ verdict # "idle" =>
           /\ At("engine")
           /\ todo \subseteq BlocksOf(f, e) /\ clean \in BOOLEAN
           /\ \A b \in BlocksOf(f, e) \ todo :
                  Judgement(f, e, b, TRUE) \in judged \/ Judgement(f, e, b, FALSE) \in judged
           /\ clean => \A j \in judged : AtCursor(j) => j.matched
           /\ ~clean => \E b \in BlocksOf(f, e) : Judgement(f, e, b, FALSE) \in judged
    /\ verdict \in {"passed", "failed"} => todo = {}
    /\ verdict = "passed" => clean
    /\ verdict = "failed" => ~clean

(* What was judged before the fixture at hand is behind the cursor.        *)
JudgedInv ==
    /\ \A j \in judged : j.file \in Nat /\ j.entry \in Nat
    /\ pc = "discover" => judged = {}
    /\ pc \in Loops =>
           \A j \in judged : \/ j.file < f \/ (j.file = f /\ j.entry < e)
                             \/ verdict # "idle" /\ AtCursor(j)

(* A block that did not match is of a fixture that did not pass, unless it *)
(* is of the one at hand, or of one that was interrupted.                  *)
MismatchInv ==
    \A j \in judged :
        ~j.matched =>
            \/ \E k \in DOMAIN results : /\ results[k].file = j.file /\ results[k].entry = j.entry
                                         /\ results[k].verdict # "passed"
            \/ verdict # "idle" /\ AtCursor(j)
            \/ raised # "none"

RunInv == FixtureInv /\ JudgedInv /\ MismatchInv /\ ReportIsEarned

LEMMA RunInitInv == RunInit => RunInv
BY DEF RunInit, Init, RunInv, FixtureInv, JudgedInv, MismatchInv, ReportIsEarned, Verdicts

LEMMA SameEarned ==
  ASSUME RunInv, UNCHANGED <<results, judged>>
  PROVE  ReportIsEarned'
BY DEF RunInv, ReportIsEarned, Earned, Judgement

-----------------------------------------------------------------------------
(* The steps of a fixture.                                                 *)
LEMMA BeginStep ==
  ASSUME BatchInv, RunInv, Begin
  PROVE  RunInv'
<1>1. /\ At("engine") /\ verdict = "idle" /\ verdict' = "none" /\ todo' = BlocksOf(f, e)
      /\ clean' = TRUE /\ judged' = judged
      /\ UNCHANGED <<batch, stop, pc, f, e, results, raised, json, md, exit>>
  BY DEF Begin, vars, loopVars
<1>2. f \in Nat /\ e \in Nat
  BY DEF BatchInv, TypeInv
<1>3. \A j \in judged : ~AtCursor(j)
  BY <1>1, <1>2 DEF RunInv, JudgedInv, AtCursor, At, Loops
<1>4. FixtureInv'
  <2>1. At("engine")' /\ BlocksOf(f, e)' = BlocksOf(f, e)
    BY <1>1 DEF At
  <2>2. \A j \in judged' : ~AtCursor(j)'
    BY <1>1, <1>3 DEF AtCursor
  <2> QED
    BY <1>1, <2>1, <2>2 DEF FixtureInv, Verdicts
<1>5. JudgedInv'
  BY <1>1, <1>3 DEF RunInv, JudgedInv, AtCursor
<1>6. MismatchInv' /\ ReportIsEarned'
  BY <1>1, SameEarned DEF RunInv, MismatchInv, AtCursor
<1> QED
  BY <1>4, <1>5, <1>6 DEF RunInv

LEMMA JudgeStep ==
  ASSUME BatchInv, RunInv, Judge
  PROVE  RunInv'
<1>1. PICK b \in todo, matched \in BOOLEAN :
          /\ F!Judge(b, matched)
          /\ judged' = judged \cup {Judgement(f, e, b, matched)}
  BY DEF Judge, Judgement
<1>2. /\ verdict = "none" /\ verdict' = "none" /\ todo' = todo \ {b}
      /\ clean' = (clean /\ matched)
      /\ UNCHANGED <<batch, stop, pc, f, e, results, raised, json, md, exit>>
  BY <1>1 DEF Judge, F!Judge, vars, loopVars
<1> DEFINE new == Judgement(f, e, b, matched)
<1>3. new.file = f /\ new.entry = e /\ new.matched = matched
  BY DEF Judgement
<1>4. f \in Nat /\ e \in Nat /\ b \in BlocksOf(f, e)
  BY <1>2 DEF BatchInv, TypeInv, RunInv, FixtureInv
<1>5. FixtureInv'
  <2>1. At("engine")' /\ BlocksOf(f, e)' = BlocksOf(f, e) /\ todo' \subseteq BlocksOf(f, e)
    BY <1>2 DEF At, RunInv, FixtureInv
  <2>2. \A c \in BlocksOf(f, e) \ todo' :
            Judgement(f, e, c, TRUE) \in judged' \/ Judgement(f, e, c, FALSE) \in judged'
    BY <1>1, <1>2 DEF RunInv, FixtureInv
  <2>3. clean' => \A j \in judged' : AtCursor(j) => j.matched
    BY <1>1, <1>2, <1>3 DEF RunInv, FixtureInv
  <2>4. ~clean' => \E c \in BlocksOf(f, e) : Judgement(f, e, c, FALSE) \in judged'
    <3>1. CASE clean
      BY <1>1, <1>2, <1>4, <3>1
    <3>2. CASE ~clean
      BY <1>1, <1>2, <3>2 DEF RunInv, FixtureInv
    <3> QED
      BY <3>1, <3>2
  <2>5. clean' \in BOOLEAN
    BY <1>2
  <2>6. \A j : AtCursor(j)' <=> AtCursor(j)
    BY <1>2 DEF AtCursor
  <2>7. \A c, m : Judgement(f, e, c, m)' = Judgement(f, e, c, m)
    BY <1>2 DEF Judgement
  <2> QED
    BY <1>2, <2>1, <2>2, <2>3, <2>4, <2>5, <2>6, <2>7 DEF FixtureInv, Verdicts
<1>6. JudgedInv'
  <2>1. pc' = "iterate"
    BY <1>2 DEF RunInv, FixtureInv, At
  <2> QED
    BY <1>1, <1>2, <1>3, <1>4, <2>1 DEF RunInv, JudgedInv, AtCursor
<1>7. MismatchInv'
  BY <1>1, <1>2, <1>3 DEF RunInv, MismatchInv, AtCursor
<1>8. ReportIsEarned'
  <2>1. ASSUME NEW k \in DOMAIN results, NEW c, NEW m
        PROVE  LET j == Judgement(results[k].file, results[k].entry, c, m)
               IN  j \in judged' <=> j \in judged
    <3>1. Judgement(results[k].file, results[k].entry, c, m) # new
      <4>1. ~(results[k].file = f /\ results[k].entry = e)
        BY <1>4, <2>1 DEF BatchInv, CursorInv, Behind
      <4> QED
        BY <4>1 DEF Judgement
    <3> QED
      BY <1>1, <3>1
  <2>2. ASSUME NEW k \in DOMAIN results PROVE Earned(results[k])'
    <3>1. Earned(results[k])
      BY DEF RunInv, ReportIsEarned
    <3> QED
      BY <1>2, <2>1, <3>1 DEF Earned, Judgement
  <2> QED
    BY <1>2, <2>2 DEF ReportIsEarned
<1> QED
  BY <1>5, <1>6, <1>7, <1>8 DEF RunInv

LEMMA ReturnStep ==
  ASSUME RunInv, Return
  PROVE  RunInv'
<1>1. /\ verdict = "none" /\ todo' = todo /\ clean' = clean /\ judged' = judged
      /\ \/ todo = {} /\ verdict' = IF clean THEN "passed" ELSE "failed"
         \/ verdict' = "errored"
      /\ UNCHANGED <<batch, stop, pc, f, e, results, raised, json, md, exit>>
  BY DEF Return, F!Conclude, F!Abort, vars, loopVars
<1>2. verdict' \in Verdicts /\ verdict # "idle" /\ verdict' # "idle"
  BY <1>1 DEF Verdicts
<1>3. FixtureInv'
  BY <1>1, <1>2 DEF RunInv, FixtureInv, At, AtCursor, Judgement
<1>4. JudgedInv' /\ MismatchInv' /\ ReportIsEarned'
  BY <1>1, <1>2, SameEarned DEF RunInv, JudgedInv, MismatchInv, AtCursor
<1> QED
  BY <1>3, <1>4 DEF RunInv

(* The result is added: what was judged of the fixture justifies it.        *)
LEMMA AddStep ==
  ASSUME BatchInv, RunInv, AddResult
  PROVE  RunInv'
<1>1. /\ verdict \in Verdicts /\ verdict' = "idle" /\ e' = e + 1 /\ pc' # "discover"
      /\ results' = Append(results, [file |-> f, entry |-> e, verdict |-> verdict])
      /\ UNCHANGED <<f, raised, judged>>
  BY DEF AddResult, Add
<1> DEFINE new == [file |-> f, entry |-> e, verdict |-> verdict]
<1>2. verdict # "idle" /\ f \in Nat /\ e \in Nat /\ new \in Results /\ results \in Seq(Results)
  BY <1>1 DEF BatchInv, TypeInv, Verdicts, Results
<1>3. /\ \A k \in DOMAIN results : k \in DOMAIN results' /\ results'[k] = results[k]
      /\ Len(results) + 1 \in DOMAIN results' /\ results'[Len(results) + 1] = new
      /\ \A k \in DOMAIN results' : k \in DOMAIN results \/ results'[k] = new
  BY <1>1, <1>2
<1>4. FixtureInv'
  BY <1>1 DEF FixtureInv, Verdicts
<1>5. JudgedInv'
  <2>1. pc \in Loops
    BY <1>2 DEF RunInv, FixtureInv, At, Loops
  <2>2. \A j \in judged : j.file \in Nat /\ j.entry \in Nat
    BY DEF RunInv, JudgedInv
  <2>3. \A j \in judged : j.file < f \/ (j.file = f /\ j.entry < e + 1)
    BY <1>2, <2>1, <2>2 DEF RunInv, JudgedInv, AtCursor
  <2> QED
    BY <1>1, <2>2, <2>3 DEF JudgedInv
<1>6. MismatchInv'
  <2>1. ASSUME NEW j \in judged, ~j.matched, AtCursor(j)
        PROVE  new.verdict # "passed" /\ new.file = j.file /\ new.entry = j.entry
    BY <1>2, <2>1 DEF RunInv, FixtureInv, AtCursor
  <2> QED
    BY <1>1, <1>3, <2>1 DEF RunInv, MismatchInv
<1>7. ReportIsEarned'
  <2>1. \A b : AtCursor(Judgement(f, e, b, FALSE)) /\ ~Judgement(f, e, b, FALSE).matched
    BY DEF AtCursor, Judgement
  <2>2. Earned(new)
    BY <1>2, <2>1 DEF RunInv, FixtureInv, Earned
  <2>3. ASSUME NEW k \in DOMAIN results' PROVE Earned(results[k])'
    <3>1. Earned(results'[k])
      BY <1>3, <2>2 DEF RunInv, ReportIsEarned
    <3> QED
      BY <1>1, <3>1 DEF Earned, Judgement
  <2> QED
    BY <2>3 DEF ReportIsEarned
<1> QED
  BY <1>4, <1>5, <1>6, <1>7 DEF RunInv

(* Ctrl-C leaves what was judged without a result, and is remembered.       *)
LEMMA InterruptStep ==
  ASSUME RunInv, Interrupted
  PROVE  RunInv'
<1>1. /\ verdict' = "idle" /\ pc' = "json" /\ raised' = "interrupt"
      /\ UNCHANGED <<f, e, results, judged>>
  BY DEF Interrupted, Interrupt, Leave, loopVars
<1>2. FixtureInv'
  BY <1>1 DEF FixtureInv
<1>3. JudgedInv' /\ MismatchInv'
  BY <1>1 DEF RunInv, JudgedInv, MismatchInv, Loops
<1>4. ReportIsEarned'
  BY <1>1, SameEarned
<1> QED
  BY <1>2, <1>3, <1>4 DEF RunInv

(* Between fixtures the cursor only moves forward.                          *)
LEMMA BetweenStep ==
  ASSUME BatchInv, RunInv, Between \/ UNCHANGED runVars
  PROVE  RunInv'
<1>1. UNCHANGED <<todo, clean, verdict, judged>>
  BY DEF Between, fixtureVars, runVars
<1>2. f \in Nat /\ e \in Nat
  BY DEF BatchInv, TypeInv
<1>3. CASE UNCHANGED runVars
  BY <1>1, <1>3, SameEarned DEF runVars, vars, loopVars, RunInv, FixtureInv, JudgedInv, MismatchInv,
                                At, AtCursor, Judgement
<1>4. CASE Between
  <2>1. verdict = "idle" \/ UNCHANGED vars
    <3> SUFFICES ASSUME verdict # "idle" PROVE UNCHANGED vars
      OBVIOUS
    <3>1. pc = "iterate" /\ e <= Len(batch[f]) /\ batch[f][e] = "engine"
      BY DEF RunInv, FixtureInv, At
    <3>2. Len(batch[f]) \in Nat
      BY <3>1 DEF BatchInv, TypeInv, CursorInv, Loops
    <3>3. ~FileDone
      BY <1>2, <3>1, <3>2 DEF FileDone
    <3>4. ~PassOver /\ ~LoadRaises
      BY <3>1 DEF PassOver, LoadRaises, At
    <3>5. /\ ~NothingFound /\ ~Found /\ ~NextFile /\ ~WriteRaises /\ ~WriteJson
          /\ ~WriteMarkdown /\ ~Exit
      BY <3>1 DEF NothingFound, Found, NextFile, WriteRaises, WriteJson, WriteMarkdown, Exit
    <3> QED
      BY <1>4, <3>3, <3>4, <3>5 DEF Between, Terminated
  <2>2. CASE UNCHANGED vars
    BY <1>1, <1>3, <2>2 DEF runVars, fixtureVars
  <2>3. CASE verdict = "idle"
    <3>1. /\ UNCHANGED results /\ (raised # "none" => raised' # "none")
          /\ pc' # "discover"
          /\ \/ pc' \notin Loops
             \/ /\ pc \in Loops
                /\ \/ f' = f /\ e' \in {e, e + 1}
                   \/ f' = f + 1
             \/ pc = "discover" /\ UNCHANGED <<f, e>>
      BY <1>4 DEF Between, NothingFound, Found, PassOver, FileDone, NextFile, LoadRaises, WriteRaises,
                WriteJson, WriteMarkdown, Exit, Terminated, At, Leave, Loops, loopVars, vars
    <3>2. FixtureInv'
      BY <1>1, <2>3 DEF FixtureInv
    <3>3. MismatchInv' /\ ReportIsEarned'
      BY <1>1, <2>3, <3>1, SameEarned DEF RunInv, MismatchInv
    <3>4. JudgedInv'
      <4>1. CASE pc' \notin Loops
        BY <1>1, <3>1, <4>1 DEF RunInv, JudgedInv
      <4>2. CASE pc \in Loops /\ ((f' = f /\ e' \in {e, e + 1}) \/ f' = f + 1)
        BY <1>1, <1>2, <2>3, <3>1, <4>2 DEF RunInv, JudgedInv
      <4>3. CASE pc = "discover" /\ UNCHANGED <<f, e>>
        BY <1>1, <4>3 DEF RunInv, JudgedInv
      <4> QED
        BY <3>1, <4>1, <4>2, <4>3
    <3> QED
      BY <3>2, <3>3, <3>4 DEF RunInv
  <2> QED
    BY <2>1, <2>2, <2>3
<1> QED
  BY <1>3, <1>4

LEMMA RunInvariance == RunSpec => [](BatchInv /\ RunInv)
<1>1. BatchInv /\ RunInv /\ [RunNext]_runVars => RunInv'
  BY BeginStep, JudgeStep, ReturnStep, AddStep, InterruptStep, BetweenStep DEF RunNext
<1> QED
  BY <1>1, RunInitInv, BatchHolds, PTL DEF RunSpec

-----------------------------------------------------------------------------
(* ReportIsEarned: the verdicts in the reports are those of the blocks.     *)
THEOREM ReportHolds == RunSpec => []ReportIsEarned
<1>1. RunInv => ReportIsEarned
  BY DEF RunInv
<1> QED
  BY <1>1, RunInvariance, PTL

(* ExitZeroIsEarned: exit code 0 of the command means that every valid      *)
(* block of every engine fixture was built and matched.                     *)
THEOREM EndToEnd == RunSpec => []ExitZeroIsEarned
<1>1. BatchInv /\ RunInv => ExitZeroIsEarned
  <2> SUFFICES ASSUME BatchInv, RunInv, exit = 0 PROVE ExitZeroIsEarned
    BY DEF ExitZeroIsEarned
  <2>1. pc = "ended" /\ raised = "none" /\ AllPassed
    BY DEF BatchInv, ReportInv
  <2>2. ASSUME NEW n \in DOMAIN batch, NEW m \in DOMAIN batch[n], batch[n][m] = "engine",
               NEW b \in BlocksOf(n, m)
        PROVE  Judgement(n, m, b, TRUE) \in judged
    <3>1. PICK k \in DOMAIN results : results[k].file = n /\ results[k].entry = m
      BY <2>1, <2>2 DEF BatchInv, CoverInv, HasResult
    <3> QED
      BY <2>1, <2>2, <3>1 DEF RunInv, ReportIsEarned, Earned, AllPassed
  <2>3. ASSUME NEW j \in judged PROVE j.matched
    <3>1. verdict = "idle"
      BY <2>1 DEF RunInv, FixtureInv, At
    <3> QED
      BY <2>1, <3>1 DEF RunInv, MismatchInv, AllPassed
  <2> QED
    BY <2>2, <2>3 DEF ExitZeroIsEarned
<1> QED
  BY <1>1, RunInvariance, PTL

===============================================================================
