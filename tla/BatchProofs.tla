----------------------------- MODULE BatchProofs -----------------------------
(***************************************************************************)
(* Proofs about Batch, for any number of files with any number of entries  *)
(* each.                                                                   *)
(***************************************************************************)
EXTENDS Batch, FiniteSetTheorems, TLAPS

Results == [file : Nat \ {0}, entry : Nat \ {0}, verdict : Verdicts]
Loops == {"iterate", "fileEnd"}

TypeInv ==
    /\ batch \in Seq(Seq(Entries)) /\ stop \in BOOLEAN
    /\ pc \in {"discover", "iterate", "fileEnd", "json", "md", "exit", "ended"}
    /\ f \in Nat \ {0} /\ e \in Nat \ {0}
    /\ results \in Seq(Results)
    /\ pc \in Loops => f \in 1..Len(batch)
    /\ pc = "discover" => f = 1 /\ e = 1

AllPassed == \A k \in DOMAIN results : results[k].verdict = "passed"

(* Results come in the order of the files and of their entries, each behind *)
(* the cursor.                                                              *)
Behind(k) == results[k].file < f \/ (results[k].file = f /\ results[k].entry < e)

CursorInv ==
    /\ \A k \in DOMAIN results : Behind(k)
    /\ \A k, l \in DOMAIN results :
           results[k].file = results[l].file /\ results[k].entry = results[l].entry => k = l

(* A fixture behind the cursor has its result.  A file is only left before  *)
(* its end, and a batch before its last file, after a failure or an         *)
(* exception.                                                               *)
HasResult(n, m) == \E k \in DOMAIN results : results[k].file = n /\ results[k].entry = m

CoverInv ==
    /\ pc \in Loops =>
           \A n \in DOMAIN batch : \A m \in DOMAIN batch[n] :
               batch[n][m] = "engine" /\ (n < f \/ (n = f /\ m < e)) => HasResult(n, m)
    /\ pc = "fileEnd" => e > Len(batch[f]) \/ (stop /\ ~AllPassed)
    /\ pc \in {"json", "md", "exit", "ended"} /\ raised = "none" /\ AllPassed =>
           \A n \in DOMAIN batch : \A m \in DOMAIN batch[n] :
               batch[n][m] = "engine" => HasResult(n, m)

StopInv ==
    stop => /\ \A k \in DOMAIN results : k < Len(results) => results[k].verdict = "passed"
            /\ pc \in {"discover", "iterate"} => AllPassed

Full == [there |-> TRUE, results |-> results]

ReportInv ==
    /\ pc \notin {"discover", "ended"} \/ raised # "none" => batch # <<>>
    /\ pc = "md" => json = Full
    /\ pc \in {"exit", "ended"} /\ raised # "write" /\ batch # <<>> => json = Full /\ md = Full
    /\ pc # "ended" => exit = 2
    /\ exit = 0 => pc = "ended" /\ raised = "none" /\ AllPassed /\ batch # <<>>

BatchInv == TypeInv /\ CursorInv /\ CoverInv /\ StopInv /\ ReportInv

-----------------------------------------------------------------------------
(* The counters of the report tell whether everything passed.              *)
LEMMA CountsTell ==
  ASSUME TypeInv
  PROVE  /\ Clean <=> AllPassed
         /\ Cardinality(Passes) < Len(results) <=> ~AllPassed
<1>1. DOMAIN results = 1..Len(results) /\ Len(results) \in Nat
  BY DEF TypeInv
<1>2. IsFiniteSet(1..Len(results)) /\ Cardinality(1..Len(results)) = Len(results)
  <2>1. /\ IsFiniteSet(1..Len(results))
        /\ Cardinality(1..Len(results)) = IF 1 > Len(results) THEN 0 ELSE Len(results) - 1 + 1
    BY <1>1, FS_Interval
  <2> QED
    BY <1>1, <2>1
<1>3. Passes \subseteq 1..Len(results)
  BY <1>1 DEF Passes
<1>4. /\ IsFiniteSet(Passes) /\ Cardinality(Passes) <= Len(results)
      /\ Cardinality(Passes) = Len(results) => Passes = 1..Len(results)
  BY <1>2, <1>3, FS_Subset
<1>5. Cardinality(Passes) \in Nat
  BY <1>4, FS_CardinalityType
<1>6. AllPassed <=> Passes = 1..Len(results)
  BY <1>1 DEF AllPassed, Passes
<1>7. AllPassed => Cardinality(Passes) = Len(results)
  BY <1>2, <1>6
<1> QED
  BY <1>1, <1>4, <1>5, <1>6, <1>7 DEF Clean

(* A step that leaves the batch, the cursor and the results.               *)
LEMMA SameResults ==
  ASSUME BatchInv, UNCHANGED <<batch, stop, f, e, results>>
  PROVE  /\ CursorInv' /\ (AllPassed' <=> AllPassed)
         /\ stop => \A k \in DOMAIN results' : k < Len(results') => results'[k].verdict = "passed"
         /\ \A n, m : HasResult(n, m)' <=> HasResult(n, m)
BY DEF BatchInv, CursorInv, Behind, AllPassed, StopInv, HasResult

LEMMA BatchInit == Init => BatchInv
<1> SUFFICES ASSUME Init PROVE BatchInv
  OBVIOUS
<1>1. results = <<>> /\ pc = "discover" /\ raised = "none" /\ exit = 2 /\ f = 1 /\ e = 1
  BY DEF Init
<1>2. TypeInv
  BY <1>1, BatchesAssumption DEF Init, TypeInv, Loops
<1> QED
  BY <1>1, <1>2 DEF BatchInv, CursorInv, CoverInv, StopInv, ReportInv, AllPassed, Loops

Report == {"json", "md", "exit", "ended"}

(* A step that leaves them keeps what is said of the loops, if it goes from *)
(* a place to one that follows it.                                          *)
LEMMA SameStep ==
  ASSUME BatchInv, UNCHANGED <<batch, stop, f, e, results>>,
         pc' \in {"discover", "iterate", "fileEnd"} \cup Report,
         pc' = "discover" => pc = "discover",
         pc' = "iterate" => pc = "iterate" \/ (pc = "discover" /\ batch # <<>>),
         pc' = "fileEnd" => pc = "fileEnd" \/ (pc = "iterate" /\ e > Len(batch[f])),
         pc' \in Report /\ raised' = "none" =>
             \/ pc \in Report /\ raised = "none"
             \/ batch = <<>>
             \/ pc = "fileEnd" /\ (StopsBatch \/ f = Len(batch))
  PROVE  TypeInv' /\ CursorInv' /\ CoverInv' /\ StopInv' /\ (AllPassed' <=> AllPassed)
<1> USE DEF BatchInv
<1>1. /\ CursorInv' /\ (AllPassed' <=> AllPassed)
      /\ stop => \A k \in DOMAIN results' : k < Len(results') => results'[k].verdict = "passed"
      /\ \A n, m : HasResult(n, m)' <=> HasResult(n, m)
  BY SameResults
<1>2. /\ Len(batch) \in Nat /\ DOMAIN batch = 1..Len(batch)
      /\ (batch # <<>> => 1 \in 1..Len(batch))
      /\ \A n \in DOMAIN batch : /\ Len(batch[n]) \in Nat
                                 /\ DOMAIN batch[n] = 1..Len(batch[n])
  BY DEF TypeInv
<1>3. TypeInv'
  BY <1>2 DEF TypeInv, Loops, Report
<1>4. StopInv'
  BY <1>1 DEF StopInv, Report
<1>5. pc' \in Loops =>
           \A n \in DOMAIN batch : \A m \in DOMAIN batch[n] :
               batch[n][m] = "engine" /\ (n < f \/ (n = f /\ m < e)) => HasResult(n, m)
  <2>1. CASE pc \in Loops
    BY <2>1 DEF CoverInv
  <2>2. CASE pc = "discover"
    BY <1>2, <2>2 DEF TypeInv
  <2> QED
    BY <2>1, <2>2 DEF Loops, Report
<1>6. pc' = "fileEnd" => e > Len(batch[f]) \/ (stop /\ ~AllPassed)
  BY DEF CoverInv
<1>7. ASSUME pc' \in Report, raised' = "none", AllPassed,
             NEW n \in DOMAIN batch, NEW m \in DOMAIN batch[n], batch[n][m] = "engine"
      PROVE  HasResult(n, m)
  <2>1. CASE pc \in Report /\ raised = "none"
    BY <1>7, <2>1 DEF CoverInv, Report
  <2>2. CASE pc = "fileEnd" /\ (StopsBatch \/ f = Len(batch))
    <3>1. ~StopsBatch
      BY <1>7, CountsTell DEF StopsBatch
    <3>2. f = Len(batch) /\ e > Len(batch[f]) /\ f \in DOMAIN batch
      BY <1>2, <1>7, <2>2, <3>1 DEF CoverInv, TypeInv, Loops
    <3>3. n < f \/ (n = f /\ m < e)
      BY <1>2, <3>2 DEF TypeInv
    <3> QED
      BY <1>7, <2>2, <3>3 DEF CoverInv, Loops
  <2>3. batch # <<>>
    BY <1>2
  <2> QED
    BY <1>7, <2>1, <2>2, <2>3
<1>8. CoverInv'
  BY <1>1, <1>5, <1>6, <1>7 DEF CoverInv, Report, Loops
<1> QED
  BY <1>1, <1>3, <1>4, <1>8

-----------------------------------------------------------------------------
(* The actions that leave the results.                                     *)
LEMMA ControlStep ==
  ASSUME BatchInv,
         \/ NothingFound \/ Found \/ FileDone \/ LoadRaises \/ Interrupt \/ WriteRaises
         \/ WriteJson \/ WriteMarkdown \/ Exit \/ UNCHANGED vars
         \/ NextFile /\ (StopsBatch \/ f = Len(batch))
  PROVE  BatchInv'
<1> USE DEF BatchInv
<1>1. UNCHANGED <<batch, stop, f, e, results>>
  BY DEF NothingFound, Found, FileDone, LoadRaises, Leave, Interrupt, WriteRaises, WriteJson,
         WriteMarkdown, Exit, NextFile, loopVars, vars
<1>2. /\ pc' \in {"discover", "iterate", "fileEnd"} \cup Report
      /\ pc' = "discover" => pc = "discover"
      /\ pc' = "iterate" => pc = "iterate" \/ (pc = "discover" /\ batch # <<>>)
      /\ pc' = "fileEnd" => pc = "fileEnd" \/ (pc = "iterate" /\ e > Len(batch[f]))
  BY DEF NothingFound, Found, FileDone, LoadRaises, Leave, At, Interrupt, WriteRaises, WriteJson,
         WriteMarkdown, Exit, NextFile, vars, TypeInv, Report
<1>3. pc' \in Report /\ raised' = "none" =>
             \/ pc \in Report /\ raised = "none"
             \/ batch = <<>>
             \/ pc = "fileEnd" /\ (StopsBatch \/ f = Len(batch))
  BY DEF NothingFound, Found, FileDone, LoadRaises, Leave, At, Interrupt, WriteRaises, WriteJson,
         WriteMarkdown, Exit, NextFile, vars, Report
<1>4. TypeInv' /\ CursorInv' /\ CoverInv' /\ StopInv' /\ (AllPassed' <=> AllPassed)
  BY <1>1, <1>2, <1>3, SameStep
<1>5. ReportInv'
  <2> USE <1>1, <1>4 DEF ReportInv, Full
  <2>1. CASE NothingFound
    BY <2>1 DEF NothingFound
  <2>2. CASE Found \/ FileDone
    BY <2>2 DEF Found, FileDone
  <2>3. CASE LoadRaises \/ Interrupt \/ WriteRaises
    BY <2>3 DEF LoadRaises, Interrupt, WriteRaises, Leave, At
  <2>4. CASE WriteJson \/ WriteMarkdown
    BY <2>4 DEF WriteJson, WriteMarkdown
  <2>5. CASE Exit
    <3>1. exit' = 0 => raised = "none" /\ AllPassed
      <4>1. CASE raised = "none" /\ Clean
        BY <4>1, CountsTell
      <4>2. CASE ~(raised = "none" /\ Clean)
        BY <2>5, <4>2 DEF Exit
      <4> QED
        BY <4>1, <4>2
    <3> QED
      BY <2>5, <3>1 DEF Exit
  <2>6. CASE UNCHANGED vars
    BY <2>6 DEF vars
  <2>7. CASE NextFile /\ (StopsBatch \/ f = Len(batch))
    BY <2>7 DEF NextFile
  <2> QED
    BY <2>1, <2>2, <2>3, <2>4, <2>5, <2>6, <2>7
<1> QED
  BY <1>4, <1>5

(* The next file, from its first entry.                                    *)
LEMMA NextFileStep ==
  ASSUME BatchInv, f < Len(batch), stop => AllPassed,
         pc = "fileEnd", pc' = "iterate", f' = f + 1, e' = 1,
         UNCHANGED <<batch, stop, results, raised, json, md, exit>>
  PROVE  BatchInv'
<1> USE DEF BatchInv
<1>1. /\ pc = "fileEnd" /\ pc' = "iterate" /\ f' = f + 1 /\ e' = 1
      /\ UNCHANGED <<batch, stop, results, raised, json, md, exit>>
  OBVIOUS
<1>2. /\ Len(batch) \in Nat /\ DOMAIN batch = 1..Len(batch) /\ f \in 1..Len(batch)
      /\ f \in Nat \ {0} /\ e \in Nat \ {0}
  BY <1>1 DEF TypeInv, Loops
<1>10. \A n \in DOMAIN batch : Len(batch[n]) \in Nat /\ DOMAIN batch[n] = 1..Len(batch[n])
  BY DEF TypeInv
<1>11. results \in Seq(Results)
  BY DEF TypeInv
<1>3. stop => AllPassed
  OBVIOUS
<1>4. e > Len(batch[f])
  BY <1>1, <1>3 DEF CoverInv
<1>5. TypeInv'
  <2>1. Len(batch) \in Nat /\ f \in 1..Len(batch)
    BY <1>2
  <2>2. f + 1 \in 1..Len(batch) /\ f + 1 \in Nat \ {0} /\ 1 \in Nat \ {0}
    BY <2>1
  <2> QED
    BY <1>1, <1>11, <2>2 DEF TypeInv, Loops
<1>6. CursorInv'
  <2>1. \A k \in DOMAIN results : results[k].file \in Nat /\ results[k].entry \in Nat
    <3>1. \A k \in DOMAIN results : results[k] \in Results
      BY <1>11
    <3> QED
      BY <3>1 DEF Results
  <2>2. \A k \in DOMAIN results : results[k].file < f + 1
    BY <1>2, <2>1 DEF CursorInv, Behind
  <2> QED
    BY <1>1, <2>2 DEF CursorInv, Behind
<1>7. CoverInv'
  <2>1. ASSUME NEW n \in DOMAIN batch, NEW m \in DOMAIN batch[n], batch[n][m] = "engine",
               n < f + 1 \/ (n = f + 1 /\ m < 1)
        PROVE  HasResult(n, m)
    <3>1. n < f \/ (n = f /\ m < e)
      <4>1. n \in Nat /\ m \in Nat /\ 1 <= m /\ m <= Len(batch[n]) /\ Len(batch[n]) \in Nat
        <5>1. n \in Nat
          BY <1>2
        <5>2. Len(batch[n]) \in Nat /\ m \in 1..Len(batch[n])
          BY <1>10
        <5> QED
          BY <5>1, <5>2
      <4>2. n < f \/ n = f
        <5>1. n <= f \/ m < 1
          BY <1>2, <2>1, <4>1
        <5> QED
          BY <1>2, <4>1, <5>1
      <4> QED
        BY <1>2, <1>4, <4>1, <4>2
    <3> QED
      BY <1>1, <2>1, <3>1 DEF CoverInv, Loops
  <2>2. \A n, m : HasResult(n, m)' <=> HasResult(n, m)
    BY <1>1 DEF HasResult
  <2> QED
    BY <1>1, <2>1, <2>2 DEF CoverInv
<1>8. AllPassed' <=> AllPassed
  BY <1>1 DEF AllPassed
<1>9. StopInv' /\ ReportInv'
  BY <1>1, <1>3, <1>8 DEF StopInv, ReportInv, Full
<1> QED
  BY <1>5, <1>6, <1>7, <1>9

(* An entry is passed over or replayed; the cursor goes on behind it.       *)
LEMMA EntryStep ==
  ASSUME BatchInv, PassOver \/ Replayed
  PROVE  BatchInv'
<1> USE DEF BatchInv
<1>1. /\ pc = "iterate" /\ e <= Len(batch[f]) /\ e' = e + 1
      /\ UNCHANGED <<batch, stop, f, raised, json, md, exit>>
      /\ pc' \in Loops
  BY DEF PassOver, Replayed, Add, At, Loops
<1>2. /\ Len(batch) \in Nat /\ DOMAIN batch = 1..Len(batch) /\ f \in 1..Len(batch)
      /\ f \in Nat \ {0} /\ e \in Nat \ {0} /\ Len(results) \in Nat /\ DOMAIN results = 1..Len(results)
      /\ results \in Seq(Results)
      /\ \A n \in DOMAIN batch : Len(batch[n]) \in Nat /\ DOMAIN batch[n] = 1..Len(batch[n])
  BY <1>1 DEF TypeInv, Loops
<1>3. \A k \in DOMAIN results : results[k].file \in Nat /\ results[k].entry \in Nat
  <2>1. \A k \in DOMAIN results : results[k] \in Results
    BY <1>2
  <2> QED
    BY <2>1 DEF Results
<1>4. \A n \in Nat, m \in Nat : n < f \/ (n = f /\ m < e + 1)
                                <=> (n < f \/ (n = f /\ m < e)) \/ (n = f /\ m = e)
  BY <1>2
<1>5. batch # <<>>
  BY <1>1 DEF ReportInv
<1>6. ReportInv'
  BY <1>1, <1>5 DEF ReportInv, Loops
<1>7. CASE PassOver
  <2>1. pc' = pc /\ results' = results /\ batch[f][e] = "other"
    BY <1>7 DEF PassOver, At
  <2>2. TypeInv'
    BY <1>1, <1>2, <2>1 DEF TypeInv, Loops
  <2>3. CursorInv'
    BY <1>1, <1>2, <1>3, <2>1 DEF CursorInv, Behind
  <2>4. CoverInv'
    <3>1. ASSUME NEW n \in DOMAIN batch, NEW m \in DOMAIN batch[n], batch[n][m] = "engine",
                 n < f \/ (n = f /\ m < e + 1)
          PROVE  HasResult(n, m)
      BY <1>1, <1>2, <1>4, <2>1, <3>1 DEF CoverInv, Loops
    <3>2. \A n, m : HasResult(n, m)' <=> HasResult(n, m)
      BY <2>1 DEF HasResult
    <3> QED
      BY <1>1, <2>1, <3>1, <3>2 DEF CoverInv
  <2>5. StopInv'
    BY <1>1, <2>1 DEF StopInv, AllPassed
  <2> QED
    BY <1>6, <2>2, <2>3, <2>4, <2>5
<1>8. CASE Replayed
  <2>1. PICK v \in Verdicts :
            /\ results' = Append(results, [file |-> f, entry |-> e, verdict |-> v])
            /\ pc' = IF stop /\ v # "passed" THEN "fileEnd" ELSE "iterate"
    BY <1>8 DEF Replayed, Add
  <2> DEFINE new == [file |-> f, entry |-> e, verdict |-> v]
  <2>2. new \in Results
    BY <1>2 DEF Results
  <2>3. /\ results' \in Seq(Results) /\ Len(results') = Len(results) + 1
        /\ DOMAIN results' = 1..(Len(results) + 1)
        /\ \A k \in DOMAIN results : results'[k] = results[k]
        /\ results'[Len(results) + 1] = new
        /\ \A k \in DOMAIN results' : k \in DOMAIN results \/ k = Len(results) + 1
    BY <1>2, <2>1, <2>2
  <2>4. TypeInv'
    BY <1>1, <1>2, <2>1, <2>3 DEF TypeInv, Loops
  <2>5. CursorInv'
    <3>1. \A k \in DOMAIN results : ~(results[k].file = f /\ results[k].entry = e)
      BY <1>2, <1>3 DEF CursorInv, Behind
    <3>2. \A k \in DOMAIN results' : Behind(k)'
      BY <1>1, <1>2, <1>3, <2>3 DEF CursorInv, Behind
    <3>3. \A k, l \in DOMAIN results' :
              results'[k].file = results'[l].file /\ results'[k].entry = results'[l].entry => k = l
      BY <2>3, <3>1 DEF CursorInv
    <3> QED
      BY <3>2, <3>3 DEF CursorInv
  <2>6. AllPassed' <=> AllPassed /\ v = "passed"
    BY <1>2, <2>3 DEF AllPassed
  <2>7. CoverInv'
    <3>1. \A n, m : HasResult(n, m) => HasResult(n, m)'
      BY <1>2, <2>3 DEF HasResult
    <3>2. \E k \in DOMAIN results' : results'[k].file = f /\ results'[k].entry = e
      <4>1. Len(results) + 1 \in DOMAIN results'
        BY <1>2, <2>3
      <4> QED
        BY <2>3, <4>1
    <3>3. ASSUME NEW n \in DOMAIN batch, NEW m \in DOMAIN batch[n], batch[n][m] = "engine",
                 n < f \/ (n = f /\ m < e + 1)
          PROVE  HasResult(n, m)'
      <4>1. CASE n = f /\ m = e
        BY <3>2, <4>1 DEF HasResult
      <4>2. CASE ~(n = f /\ m = e)
        BY <1>1, <1>2, <1>4, <3>1, <3>3, <4>2 DEF CoverInv, Loops
      <4> QED
        BY <4>1, <4>2
    <3>4. pc' = "fileEnd" => stop' /\ ~AllPassed'
      BY <1>1, <2>1, <2>6
    <3> QED
      BY <1>1, <3>3, <3>4 DEF CoverInv, Loops
  <2>8. StopInv'
    <3>1. stop => AllPassed
      BY <1>1 DEF StopInv
    <3>2. stop' => \A k \in DOMAIN results' : k < Len(results') => results'[k].verdict = "passed"
      BY <1>1, <1>2, <2>3, <3>1 DEF AllPassed
    <3>3. stop' /\ pc' = "iterate" => AllPassed'
      BY <1>1, <2>1, <2>6, <3>1
    <3> QED
      BY <1>1, <3>2, <3>3 DEF StopInv, Loops
  <2> QED
    BY <1>6, <2>4, <2>5, <2>7, <2>8
<1> QED
  BY <1>7, <1>8

LEMMA BatchInvariance == Spec => []BatchInv
<1>1. ASSUME BatchInv, NextFile, ~(StopsBatch \/ f = Len(batch)) PROVE BatchInv'
  <2>1. /\ pc = "fileEnd" /\ pc' = "iterate" /\ f' = f + 1 /\ e' = 1
        /\ UNCHANGED <<batch, stop, results, raised, json, md, exit>>
    BY <1>1 DEF NextFile
  <2>2. stop => AllPassed
    BY <1>1, CountsTell DEF StopsBatch, BatchInv
  <2>3. f < Len(batch)
    <3>1. f \in 1..Len(batch) /\ Len(batch) \in Nat
      BY <1>1, <2>1 DEF BatchInv, TypeInv, Loops
    <3> QED
      BY <1>1, <3>1
  <2> QED
    BY <1>1, <2>1, <2>2, <2>3, NextFileStep
<1>2. BatchInv /\ [Next]_vars => BatchInv'
  BY <1>1, ControlStep, EntryStep DEF Next, Terminated
<1> QED
  BY <1>2, BatchInit, PTL DEF Spec

-----------------------------------------------------------------------------
(* ExitZeroIsClean: exit code 0 of `run` means everything was replayed once *)
(* and passed, and both reports say so.                                     *)
THEOREM ExitZeroCleanHolds == Spec => []ExitZeroIsClean
<1>1. BatchInv => ExitZeroIsClean
  <2> SUFFICES ASSUME BatchInv, exit = 0 PROVE ExitZeroIsClean
    BY DEF ExitZeroIsClean
  <2>1. pc = "ended" /\ raised = "none" /\ AllPassed /\ batch # <<>>
    BY DEF BatchInv, ReportInv
  <2>2. json = Full /\ md = Full
    BY <2>1 DEF BatchInv, ReportInv
  <2>3. ASSUME NEW n \in DOMAIN batch, NEW m \in DOMAIN batch[n], batch[n][m] = "engine"
        PROVE  \E k \in DOMAIN results :
                   results[k] = [file |-> n, entry |-> m, verdict |-> "passed"]
    <3>1. PICK k \in DOMAIN results : results[k].file = n /\ results[k].entry = m
      BY <2>1, <2>3 DEF BatchInv, CoverInv, HasResult
    <3>2. results[k] \in Results /\ results[k].verdict = "passed"
      BY <2>1, <3>1 DEF BatchInv, TypeInv, AllPassed
    <3> QED
      BY <3>1, <3>2 DEF Results
  <2> QED
    BY <2>1, <2>2, <2>3 DEF ExitZeroIsClean, AllPassed, BatchInv, CursorInv, Full
<1> QED
  BY <1>1, BatchInvariance, PTL

(* StopsAtFirst: the flag stops the batch, not only the file.               *)
THEOREM StopHolds == Spec => []StopsAtFirst
<1>1. BatchInv => StopsAtFirst
  BY DEF BatchInv, StopInv, StopsAtFirst
<1> QED
  BY <1>1, BatchInvariance, PTL

(* AbortedIsReported: a batch given up half way leaves both reports.        *)
THEOREM AbortedHolds == Spec => []AbortedIsReported
<1>1. BatchInv => AbortedIsReported
  BY DEF BatchInv, ReportInv, AbortedIsReported, Full
<1> QED
  BY <1>1, BatchInvariance, PTL

=============================================================================
