-------------------------------- MODULE Submit --------------------------------
(***************************************************************************)
(* `eest-replay submit` (submit_transactions of src/eest_replay/export.py) *)
(* and the seed's money: runs that may overlap, each with a pre-flight     *)
(* look at the seed's balance, a recovery sidecar that names the run's     *)
(* eoa_start, and `execute` as a child process of its own session that     *)
(* moves seed ETH into the run's EOAs and refunds it.  The runs draw their *)
(* eoa_start at random, so a run is its own eoa_start.  The chain and      *)
(* `execute` are external.                                                 *)
(***************************************************************************)
EXTENDS Integers, FiniteSets

CONSTANTS
    Runs,       \* invocations of submit
    Files,      \* files a sidecar may be written to
    MetaOut,    \* MetaOut[r]: --meta-out, or NoFile
    Csv,        \* Csv[r]: the sidecar's place next to --csv, or NoFile
    NoFile,
    NoRun,      \* in place of a run, in a sidecar not written yet
    Cleanup,    \* the runs without --no-cleanup
    Floor,      \* --min-seed-balance of every run; 0 is no floor
    SeedFunds,  \* what the seed holds at the start
    Funding     \* what a run moves into its EOAs

ASSUME FilesAssumption ==
    /\ NoFile \notin Files /\ NoRun \notin Runs
    /\ MetaOut \in [Runs -> Files \cup {NoFile}] /\ Csv \in [Runs -> Files \cup {NoFile}]
ASSUME MoneyAssumption ==
    /\ Cleanup \subseteq Runs
    /\ Floor \in Nat /\ SeedFunds \in Nat /\ Funding \in Nat \ {0}

Unknown == -1

VARIABLES
    pc,       \* per run: the tool itself
    before,   \* per run: balance_before, Unknown when the RPC failed
    child,    \* per run: `execute`: not started, running, over
    sidecar,  \* per file: the run whose eoa_start it holds
    seed,     \* chain: balance of the seed
    eoas,     \* chain: what the EOAs of a run hold
    startedAt \* history: the seed's balance when `execute` was started

toolVars == <<pc, before, sidecar>>
chainVars == <<seed, eoas>>
vars == <<toolVars, child, chainVars, startedAt>>

Init ==
    /\ pc = [r \in Runs |-> "preflight"]
    /\ before = [r \in Runs |-> Unknown]
    /\ child = [r \in Runs |-> "none"]
    /\ sidecar = [f \in Files |-> NoRun]
    /\ seed = SeedFunds
    /\ eoas = [r \in Runs |-> 0]
    /\ startedAt = [r \in Runs |-> Unknown]

-----------------------------------------------------------------------------
(* The tool.                                                               *)

\* get_balance of the seed, and what becomes of the run.
Looked(r, next) ==
    /\ pc[r] = "preflight"
    /\ before' = [before EXCEPT ![r] = seed]
    /\ pc' = [pc EXCEPT ![r] = next]
    /\ UNCHANGED <<child, sidecar, chainVars, startedAt>>

\* Fault: the floor is not enforced.
PreflightNoFloor(r) == Looked(r, "meta")

\* The run is given up when the seed is below the floor.
Preflight(r) == Looked(r, IF seed < Floor THEN "aborted" ELSE "meta")

\* The call fails: the balance "is advisory", the run goes on without it.
PreflightBlind(r) ==
    /\ pc[r] = "preflight"
    /\ pc' = [pc EXCEPT ![r] = "meta"]
    /\ UNCHANGED <<before, child, sidecar, chainVars, startedAt>>

\* The sidecar's place: --meta-out, else next to --csv, else nowhere.
SidecarOf(r) == IF MetaOut[r] # NoFile THEN MetaOut[r] ELSE Csv[r]

WriteTo(f, r) == IF f = NoFile THEN sidecar ELSE [sidecar EXCEPT ![f] = r]

\* Fault: swapped positional arguments put the path where eoa_start belongs.
WriteMetaSwapped(r) ==
    /\ pc[r] = "meta"
    /\ sidecar' = WriteTo(SidecarOf(r), SidecarOf(r))
    /\ pc' = [pc EXCEPT ![r] = "start"]
    /\ UNCHANGED <<before, child, chainVars, startedAt>>

\* _write_recovery_meta, before anything is spent.
WriteMeta(r) ==
    /\ pc[r] = "meta"
    /\ sidecar' = WriteTo(SidecarOf(r), r)
    /\ pc' = [pc EXCEPT ![r] = "start"]
    /\ UNCHANGED <<before, child, chainVars, startedAt>>

Started(r, from) ==
    /\ pc[r] = from
    /\ child' = [child EXCEPT ![r] = "running"]
    /\ startedAt' = [startedAt EXCEPT ![r] = seed]
    /\ pc' = [pc EXCEPT ![r] = "waiting"]
    /\ UNCHANGED <<before, sidecar, chainVars>>

\* Fault: `execute` is started before the sidecar is written.
StartUnrecorded(r) == Started(r, "meta")

\* _run_execute starts `execute`.
Start(r) == Started(r, "start")

\* `execute` is over by itself, or the timeout kills its process group; the
\* result is reported with the balance after it.
Wait(r) ==
    /\ pc[r] = "waiting"
    /\ child' = [child EXCEPT ![r] = "over"]
    /\ pc' = [pc EXCEPT ![r] = "reported"]
    /\ UNCHANGED <<before, sidecar, chainVars, startedAt>>

\* The tool itself dies (Ctrl-C, out of memory).  `execute` has a session of
\* its own and lives on.
ToolDies(r) ==
    /\ pc[r] \notin {"aborted", "reported", "dead"}
    /\ pc' = [pc EXCEPT ![r] = "dead"]
    /\ UNCHANGED <<before, child, sidecar, chainVars, startedAt>>

-----------------------------------------------------------------------------
(* `execute` and the chain (external).                                     *)

\* `execute` funds the EOAs of the run from the seed.
Fund(r) ==
    /\ child[r] = "running"
    /\ eoas[r] = 0
    /\ seed >= Funding
    /\ seed' = seed - Funding
    /\ eoas' = [eoas EXCEPT ![r] = Funding]
    /\ UNCHANGED <<toolVars, child, startedAt>>

\* The refund phase, unless --skip-cleanup, then `execute` ends; the gas of
\* the tests has been spent.
Refund(r) ==
    /\ child[r] = "running"
    /\ r \in Cleanup
    /\ \E gas \in 0..eoas[r] : seed' = seed + eoas[r] - gas
    /\ eoas' = [eoas EXCEPT ![r] = 0]
    /\ child' = [child EXCEPT ![r] = "over"]
    /\ UNCHANGED <<toolVars, startedAt>>

\* `execute` of a dead tool ends without a refund.
OrphanEnds(r) ==
    /\ pc[r] = "dead"
    /\ child[r] = "running"
    /\ child' = [child EXCEPT ![r] = "over"]
    /\ UNCHANGED <<toolVars, chainVars, startedAt>>

\* `recover --meta f`, at any time, takes something out of the EOAs of the run the
\* file names: what it leaves (an account beyond --count or not above the reserve,
\* a rejected sweep) and what arrives at the seed, behind the fees and for the
\* given --to, is left open (Recover.tla has the sweeps).
RecoverFrom(f) ==
    /\ sidecar[f] # NoRun
    /\ LET held == eoas[sidecar[f]]
       IN \E left \in 0..(held - 1) : \E arrives \in 0..(held - left) :
              /\ eoas' = [eoas EXCEPT ![sidecar[f]] = left]
              /\ seed' = seed + arrives
    /\ UNCHANGED <<toolVars, child, startedAt>>

Run(r) ==
    \/ Preflight(r) \/ PreflightBlind(r) \/ WriteMeta(r) \/ Start(r) \/ Wait(r)
    \/ ToolDies(r) \/ Fund(r) \/ Refund(r) \/ OrphanEnds(r)

Next == (\E r \in Runs : Run(r)) \/ (\E f \in Files : RecoverFrom(f))

Spec == Init /\ [][Next]_vars

-----------------------------------------------------------------------------
(* Properties.                                                             *)

(* Every variable stays in its type: no balance goes negative and a sidecar *)
(* that is written names a run.                                             *)
TypeOK ==
    /\ pc \in [Runs -> {"preflight", "meta", "start", "waiting", "aborted", "reported", "dead"}]
    /\ before \in [Runs -> Nat \cup {Unknown}]
    /\ child \in [Runs -> {"none", "running", "over"}]
    /\ sidecar \in [Files -> Runs \cup {NoRun}]
    /\ seed \in Nat
    /\ eoas \in [Runs -> Nat]
    /\ startedAt \in [Runs -> Nat \cup {Unknown}]

(* Whenever money sits in the EOAs of a run, whatever died in between, a    *)
(* sidecar with that run's eoa_start is on disk: it is written before       *)
(* anything is spent and only lost to another run given the same file.      *)
(* export.py 249-250 promises it of every run: "the recovery sidecar        *)
(* (always written) records eoa_start".                                     *)
Overwritten(r) ==
    /\ SidecarOf(r) # NoFile
    /\ \E q \in Runs \ {r} : SidecarOf(q) = SidecarOf(r) /\ sidecar[SidecarOf(r)] = q

FundsRecoverable ==
    \A r \in Runs : eoas[r] > 0 => Overwritten(r) \/ \E f \in Files : sidecar[f] = r

(* A run that saw the seed's balance and still found it below the floor     *)
(* when it started `execute` was overtaken by another run's spending.       *)
FloorOnlyOvertaken ==
    \A r \in Runs :
        startedAt[r] # Unknown /\ startedAt[r] < Floor /\ before[r] # Unknown =>
            before[r] >= Floor /\ \E q \in Runs \ {r} : child[q] # "none"

===============================================================================
