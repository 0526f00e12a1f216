------------------------------- MODULE ForkConfig -------------------------------
(***************************************************************************)
(* What the commands derive from the fork of a test: the genesis of the    *)
(* throwaway node (build_genesis of src/eest_replay/chainspec.py for a     *)
(* fixture, build_devnet_genesis of devnet_genesis.py for an export) and   *)
(* the gas of a benchmark run (export.py).  A genesis is abstracted to     *)
(* what it was made for (Tests), the timestamp forks it enables, the       *)
(* forks it has blob parameters for, and whether the header has the        *)
(* fields the block access list fork added.                                *)
(***************************************************************************)
EXTENDS Integers, Sequences, FiniteSets

CONSTANTS
    Forks,            \* names a fixture or --fork may carry
    TIMESTAMP_FORKS,  \* the code's list, in order of activation
    BalFork,          \* the fork with block access lists, "Amsterdam"
    BlobForks,        \* the timestamp forks with blob parameters
    AtGenesis,        \* external: AtGenesis[f], the forks active when a test of f begins
    CappedForks,      \* external: the forks with a per-transaction gas cap
    TxGasCap,         \* that cap
    Tests             \* what a genesis depends on besides the fork: for a fixture the test,
                      \* for an export or a bloat the chain id and the funded seed

Listed == {TIMESTAMP_FORKS[k] : k \in DOMAIN TIMESTAMP_FORKS}
ForkIndex(f) == CHOOSE k \in DOMAIN TIMESTAMP_FORKS : TIMESTAMP_FORKS[k] = f
UpTo(n) == {TIMESTAMP_FORKS[k] : k \in 1..n}

ASSUME ListAssumption ==
    /\ TIMESTAMP_FORKS \in Seq(Forks)
    /\ \A j, k \in DOMAIN TIMESTAMP_FORKS : TIMESTAMP_FORKS[j] = TIMESTAMP_FORKS[k] => j = k
    /\ BalFork \in Listed /\ BlobForks \subseteq Listed

(* The list is in the order in which the forks build on each other.        *)
ASSUME OrderAssumption ==
    /\ AtGenesis \in [Forks -> SUBSET Listed]
    /\ \A f \in Listed : AtGenesis[f] = UpTo(ForkIndex(f))

\* Whole millions for a fork without a cap, and the unit.
FALLBACK_BENCHMARK_GAS_MILLIONS == 16
Million == 1000000
None == -1

ASSUME GasAssumption ==
    /\ CappedForks \subseteq Forks
    /\ TxGasCap \in Nat /\ FALLBACK_BENCHMARK_GAS_MILLIONS * Million <= TxGasCap

Genesis == [test : Tests, forks : SUBSET Listed, blobs : SUBSET Listed, bal : BOOLEAN]

-----------------------------------------------------------------------------
\* Fault: the loop breaks before it enables the target.
FixtureForksShort(f) ==
    {TIMESTAMP_FORKS[k] : k \in {n \in DOMAIN TIMESTAMP_FORKS :
                                     \A j \in 1..n : TIMESTAMP_FORKS[j] # f}}

\* The loop of build_genesis: it breaks after the target fork, if it meets it.
FixtureForks(f) ==
    {TIMESTAMP_FORKS[k] : k \in {n \in DOMAIN TIMESTAMP_FORKS :
                                     \A j \in 1..(n - 1) : TIMESTAMP_FORKS[j] # f}}

\* A fixture brings its blob parameters and its header; what it has there is
\* what the forks of the fixture need.
FixtureGenesis(t, f) ==
    [test |-> t, forks |-> FixtureForks(f),
     blobs |-> AtGenesis[f] \cap BlobForks, bal |-> BalFork \in AtGenesis[f]]

\* Fault: an off-by-one in the test for the header fields.
DevnetGenesisPastBal(t, f) ==
    [test |-> t, forks |-> UpTo(ForkIndex(f)), blobs |-> UpTo(ForkIndex(f)) \cap BlobForks,
     bal |-> ForkIndex(f) > ForkIndex(BalFork)]

\* build_devnet_genesis, of a fork in the list.
DevnetGenesis(t, f) ==
    [test |-> t, forks |-> UpTo(ForkIndex(f)), blobs |-> UpTo(ForkIndex(f)) \cap BlobForks,
     bal |-> ForkIndex(f) >= ForkIndex(BalFork)]

\* What state-actor writes for a fork (external), into which the code does not look.
ActorGenesis(t, f) ==
    [test |-> t, forks |-> AtGenesis[f],
     blobs |-> AtGenesis[f] \cap BlobForks, bal |-> BalFork \in AtGenesis[f]]

\* What the node needs to boot (external): "geth refuses to re-decode its own
\* genesis without" the new header fields, and wants parameters of each blob fork.
Bootable(g) == (BalFork \in g.forks => g.bal) /\ g.forks \cap BlobForks \subseteq g.blobs

-----------------------------------------------------------------------------
\* fork_tx_gas_cap: None for a fork without a cap, and when the lookup fails.
ForkTxGasCap(f, found) == IF found /\ f \in CappedForks THEN TxGasCap ELSE None

DefaultGasBenchmarkValues(cap) ==
    IF cap # None THEN cap \div Million ELSE FALLBACK_BENCHMARK_GAS_MILLIONS

IsBenchmarkRun(o) == o.include \/ o.benchmarkPath

\* The default: the cap as a limit or, when there is none, whole millions, for
\* which the cap is looked up again.
DefaultGas(cap, again) ==
    IF cap # None THEN [values |-> None, limit |-> cap]
                  ELSE [values |-> DefaultGasBenchmarkValues(again), limit |-> None]

\* Fault: --transaction-gas-limit does not count as an override.
ResolveBenchmarkGasOverrides(o, cap, again) ==
    IF o.values = None /\ IsBenchmarkRun(o) THEN DefaultGas(cap, again)
    ELSE [values |-> o.values, limit |-> o.limit]

\* _resolve_benchmark_gas, on the options of a command.
ResolveBenchmarkGas(o, cap, again) ==
    IF o.values = None /\ o.limit = None /\ IsBenchmarkRun(o) THEN DefaultGas(cap, again)
    ELSE [values |-> o.values, limit |-> o.limit]

Options == [include : BOOLEAN, benchmarkPath : BOOLEAN,
            values : Nat \cup {None}, limit : Nat \cup {None}]
Gas == [values : Nat \cup {None}, limit : Nat \cup {None}]
NoGas == [values |-> None, limit |-> None]

\* The gas a transaction of the test then asks for.
GasOf(g) == IF g.limit # None THEN g.limit ELSE g.values * Million
===============================================================================
