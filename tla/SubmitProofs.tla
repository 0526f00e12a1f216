------------------------------ MODULE SubmitProofs ------------------------------
(***************************************************************************)
(* Proofs about Submit: for any number of overlapping runs, whatever dies  *)
(* in between, the funded EOAs stay recoverable as long as every run has a *)
(* sidecar file that no other run takes.                                   *)
(***************************************************************************)
EXTENDS Submit, TLAPS

(* What an unstarted `execute` implies, and what a run that saw the seed's *)
(* balance knows about the floor.                                          *)
Early == {"preflight", "meta", "start", "aborted"}
Overtaken(r) == \E q \in Runs \ {r} : child[q] # "none"

Inv ==
    /\ TypeOK
    /\ \A r \in Runs : pc[r] \in Early => child[r] = "none"
    /\ \A r \in Runs : pc[r] \in {"waiting", "reported"} => child[r] # "none"
    /\ \A r \in Runs : child[r] = "none" => eoas[r] = 0 /\ startedAt[r] = Unknown
    /\ \A r \in Runs : pc[r] = "preflight" => before[r] = Unknown
    /\ \A r \in Runs : pc[r] \in {"meta", "start"} /\ before[r] # Unknown =>
           before[r] >= Floor /\ (seed < Floor => Overtaken(r))
    /\ FloorOnlyOvertaken

USE FilesAssumption, MoneyAssumption DEF Unknown

LEMMA InitInv == Init => Inv
BY DEF Init, Inv, TypeOK, Early, FloorOnlyOvertaken

(* The steps of the tool, of `execute` and of recover keep the invariant.  *)
LEMMA LookStep ==
    ASSUME Inv, NEW r \in Runs, Preflight(r) \/ PreflightBlind(r)
    PROVE  Inv'
BY DEF Inv, TypeOK, Early, Overtaken, FloorOnlyOvertaken, Preflight, Looked,
       PreflightBlind, chainVars

LEMMA MetaStep ==
    ASSUME Inv, NEW r \in Runs, WriteMeta(r)
    PROVE  Inv'
<1>1. sidecar' \in [Files -> Runs \cup {NoRun}]
  BY DEF Inv, TypeOK, WriteMeta, WriteTo, SidecarOf
<1>2. QED
  BY <1>1 DEF Inv, TypeOK, Early, Overtaken, FloorOnlyOvertaken, WriteMeta, chainVars

LEMMA StartStep ==
    ASSUME Inv, NEW r \in Runs, Start(r)
    PROVE  Inv'
BY DEF Inv, TypeOK, Early, Overtaken, FloorOnlyOvertaken, Start, Started, chainVars

LEMMA EndStep ==
    ASSUME Inv, NEW r \in Runs, Wait(r) \/ ToolDies(r) \/ OrphanEnds(r)
    PROVE  Inv'
BY DEF Inv, TypeOK, Early, Overtaken, FloorOnlyOvertaken, Wait, ToolDies, OrphanEnds,
       toolVars, chainVars

LEMMA FundStep ==
    ASSUME Inv, NEW r \in Runs, Fund(r)
    PROVE  Inv'
BY DEF Inv, TypeOK, Early, Overtaken, FloorOnlyOvertaken, Fund, toolVars

LEMMA RefundStep ==
    ASSUME Inv, NEW r \in Runs, Refund(r)
    PROVE  Inv'
BY DEF Inv, TypeOK, Early, Overtaken, FloorOnlyOvertaken, Refund, toolVars

LEMMA RecoverStep ==
    ASSUME Inv, NEW f \in Files, RecoverFrom(f)
    PROVE  Inv'
<1>1. sidecar[f] \in Runs /\ UNCHANGED <<toolVars, child, startedAt>>
  BY DEF Inv, TypeOK, RecoverFrom
<1>2. PICK left \in 0..(eoas[sidecar[f]] - 1) : \E arrives \in 0..(eoas[sidecar[f]] - left) :
          eoas' = [eoas EXCEPT ![sidecar[f]] = left] /\ seed' = seed + arrives
  BY DEF RecoverFrom
<1>3. eoas[sidecar[f]] \in Nat /\ seed \in Nat /\ eoas[sidecar[f]] # 0
  BY <1>1, <1>2 DEF Inv, TypeOK
<1>4. left \in Nat /\ seed' \in Nat /\ seed' >= seed
  BY <1>2, <1>3
<1>5. child[sidecar[f]] # "none"
  BY <1>1, <1>3 DEF Inv
<1>6. QED
  BY <1>1, <1>2, <1>4, <1>5, SMTT(60) DEF Inv, TypeOK, Early, Overtaken, FloorOnlyOvertaken, toolVars

LEMMA NextInv == Inv /\ [Next]_vars => Inv'
<1>1. CASE UNCHANGED vars
  BY <1>1 DEF Inv, TypeOK, Early, Overtaken, FloorOnlyOvertaken, vars, toolVars, chainVars
<1>2. QED
  BY <1>1, LookStep, MetaStep, StartStep, EndStep, FundStep, RefundStep, RecoverStep
     DEF Next, Run

LEMMA Invariance == Spec => []Inv
BY InitInv, NextInv, PTL DEF Spec

(* No balance of the seed or of a run's EOAs is ever negative, and what is *)
(* written to a sidecar is the eoa_start of a run.                         *)
THEOREM TypeCorrect == Spec => []TypeOK
<1>1. Inv => TypeOK
  BY DEF Inv
<1>2. QED
  BY <1>1, Invariance, PTL

(* The only way past the floor, for a run whose balance lookup succeeded,  *)
(* is that another run's `execute` was started beside it.                  *)
THEOREM FloorHolds == Spec => []FloorOnlyOvertaken
<1>1. Inv => FloorOnlyOvertaken
  BY DEF Inv
<1>2. QED
  BY <1>1, Invariance, PTL

-----------------------------------------------------------------------------
(* The sidecar: from the moment it is written the file names its run, or   *)
(* another one that was given the same file.                               *)
EveryRunHasFile == \A r \in Runs : SidecarOf(r) # NoFile

Recorded ==
    \A r \in Runs : pc[r] = "start" \/ child[r] # "none" =>
        sidecar[SidecarOf(r)] = r \/ Overwritten(r)

LEMMA SidecarFile == EveryRunHasFile => \A r \in Runs : SidecarOf(r) \in Files
BY DEF EveryRunHasFile, SidecarOf

(* Every step keeps it so.                                                 *)
LEMMA RecordedNext == EveryRunHasFile /\ Inv /\ Recorded /\ [Next]_vars => Recorded'
<1> SUFFICES ASSUME EveryRunHasFile, Inv, Recorded, [Next]_vars PROVE Recorded'
  OBVIOUS
<1> USE SidecarFile DEF Inv, TypeOK, Recorded, Overwritten
<1> USE DEF SidecarOf
<1>1. ASSUME NEW r \in Runs, WriteMeta(r) PROVE Recorded'
  <2>1. sidecar' = [sidecar EXCEPT ![SidecarOf(r)] = r]
    BY <1>1 DEF WriteMeta, WriteTo, EveryRunHasFile
  <2>2. QED
    BY <1>1, <2>1 DEF WriteMeta, EveryRunHasFile
<1>2. ASSUME NEW r \in Runs, Preflight(r) \/ PreflightBlind(r) \/ Start(r) \/ Wait(r)
                             \/ ToolDies(r)
      PROVE  Recorded'
  BY <1>2 DEF Preflight, Looked, PreflightBlind, Start, Started, Wait, ToolDies, Early
<1>3. ASSUME NEW r \in Runs, Fund(r) \/ Refund(r) \/ OrphanEnds(r)
      PROVE  Recorded'
  BY <1>3 DEF Fund, Refund, OrphanEnds, toolVars
<1>4. ASSUME NEW f \in Files, RecoverFrom(f) PROVE Recorded'
  BY <1>4 DEF RecoverFrom, toolVars
<1>5. CASE UNCHANGED vars
  BY <1>5 DEF vars, toolVars
<1>6. QED
  BY <1>1, <1>2, <1>3, <1>4, <1>5 DEF Next, Run

(* FundsRecoverable: when every run has a sidecar file, the money it has    *)
(* moved into its EOAs can be found again, at every moment of any           *)
(* interleaving of runs, deaths, refunds and recoveries, unless another     *)
(* run was given the same file and has written it.                          *)
THEOREM MoneyIsRecoverable ==
    ASSUME EveryRunHasFile
    PROVE  Spec => []FundsRecoverable
<1>1. Init => Recorded
  BY DEF Init, Recorded
<1>2. Inv /\ Recorded /\ [Next]_vars => Recorded'
  BY RecordedNext
<1>3. Inv /\ Recorded => FundsRecoverable
  BY SidecarFile DEF Inv, TypeOK, Recorded, FundsRecoverable
<1>4. QED
  BY <1>1, <1>2, <1>3, Invariance, PTL DEF Spec
===============================================================================
