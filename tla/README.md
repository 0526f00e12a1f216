# A TLA+ development of eest-replay

`eest-replay` turns EEST spec tests into transactions on a network (`submit`),
into a CSV (`export`), or into mempool-built blocks that are compared with the
expected ones (`run`), and takes the seed's money back (`recover`). It is a
small Python program, but most of its work is done *around* other processes: an
HTTP proxy with one thread per request, a killable child process, a node that
answers late or not at all, and money that must not get lost when any of them
dies. The modules here model that control; TLC checks them on small instances,
TLAPS proves the safety properties for every value of the constants.

Paths below are relative to the repository; line numbers are in
`PROJECT.json` (`map`), one entry per definition.

## 1. Inventory

| Component | State it keeps | Operations | Talks to |
|---|---|---|---|
| Recording proxy, `rpc_proxy.py` | `_Recorder.raw_txs` behind a lock; one handler thread per POST | `do_POST` (forward, record, reply), `record`, `snapshot` | `execute` before it, the node behind it, the main thread that takes the snapshot |
| Capture pipeline, `export.py` | snapshot, rows, `execute_ok`, CSV, exit code | `_run_execute`, `_enrich`, `_write_csv` | the proxy (shared recorder), `execute` (child process), the node |
| Submit safeguards, `export.py` | `balance_before`, sidecar file | pre-flight, `_write_recovery_meta`, `_run_execute` | seed account, `execute`, later `recover` (through the sidecar) |
| Recover, `sweep.py`, `recover_cmd` | loop index, list of sweeps, set of awaited hashes | `sweep_account`, `recover_funded_eoas` | the node, three calls per account, then receipt polling |
| Fixture replay, `runner.py` | payload index, `block_results` | `_submit_mempool`, build, `_diff_payload`, import, advance | the node (JSON-RPC and Engine API), simbuild |
| simbuild bridge, `buildoor_client.py`, `patches/cmd_simbuild.go` | a child process and its port; none between requests | start, health poll, stop; `request_build`, `handleBuild` | the runner and the node's Engine API |
| Batch, `cli.py` `run_cmd`, `fixture.py`, `report.py` | `report.results`, position in two nested loops | discover, load, replay, stop, report | replay, report files |
| Throwaway geth, `el.py` | container, docker client, ports, `genesis.json`, datadir | `geth` (write, `init`, start, poll, stop, reap), `geth_dev_datadir` | docker; other sessions through ports and directories |
| Genesis, `chainspec.py`, `devnet_genesis.py` | none | choose forks, blob parameters and header fields; render | replay, export |
| Benchmark gas, `export.py` 528-599 | none | choose a default | submit, export, bloat |
| Bloat, `state_actor.py`, `bloat_cmd` | datadir on disk | run state-actor, boot geth, submit | submit |

Hard behaviours, each listed with its line under `hazards` in `PROJECT.json`:

- handler threads interleave on the recorder, and outlive the client that the
  timeout killed while the main thread already reads the list;
- one call of a batch that cannot be read ends the recording of the rest of it;
- a forward that timed out may have reached the node; an answer may be an error;
- balance, nonce and transfer of a sweep are three calls, with mining, eviction,
  a lost answer or a crash in between, and the command is run again, over pending
  sweeps and over what the tests left pending;
- any answer without a result ends the whole scan, and any receipt counts as a sweep;
- the tool dies, its child `execute` (a session of its own) does not;
- two `submit`s share a seed, or a `--csv` and with it the sidecar file;
- the node fills a payload while the runner only sleeps;
- an exception half way through a fixture or a batch must not read as success;
- a port is found free and bound later, and whoever answers on it is taken for
  the node; a container may start after the poll gave up, or survive its
  `docker stop`;
- a work directory has a past: another genesis, or another session's blocks; and
  two sessions may write to it at the same time;
- Ctrl-C comes in the middle of a fixture.

What makes each component correct: the recorded list is explained by answered
requests, keeps each batch's order and misses nothing that could be read (proxy);
exit code 0 is a whole capture (capture); funded accounts can be found again
(submit); no account is swept twice and none in reach is forgotten (recover); a
pass is earned and a mismatch is real (replay); exit code 0 hides nothing (batch);
a session runs on its own node, on the chain of its own genesis, and what it
leaves running has a known cause (node session).

## 2. Modules

| Module | Models | EXTENDS / uses |
|---|---|---|
| `RecordingProxy` | proxy, with client, network and node as its environment | |
| `CaptureLog` | abstract: what a capture promises | |
| `Capture` | `export` and `submit --csv` around the proxy | extends `RecordingProxy`, implements `CaptureLog` |
| `Submit` | `submit`, its safeguards and the seed's money | |
| `Sweep` | abstract: what `recover` does to the accounts | |
| `Recover` | `recover`, scan and single key | implements `Sweep` |
| `FixtureVerdict` | abstract: what `run` promises of one fixture | |
| `Replay` | `_drive_chain`, both build routes | implements `FixtureVerdict` |
| `Batch` | `run_cmd`, iterator, reports; a fixture is one step | |
| `RunCommand` | `run` as a whole: `Batch` with the steps of each fixture in it | extends `Batch`, uses `FixtureVerdict`, implements `Batch` |
| `ForkConfig` | genesis of a fixture and of a devnet, benchmark gas: operators | |
| `NodeSession` | `el.py`, `state_actor.py`, start and stop of simbuild, the sessions of `run`, `export` and `bloat` on one host | extends `ForkConfig` |
| `RecordingProxyProofs`, `RecoverProofs`, `ReplayProofs`, `SubmitProofs`, `BatchProofs`, `NodeSessionProofs` | theorems | extend the module they are named after |
| `CaptureProofs` | theorems | extends `Capture` and `RecordingProxyProofs` |
| `RunCommandProofs` | theorems | extends `RunCommand` and `BatchProofs` |
| `MC*` | instances for TLC | extend the module they are named after |

Operators with a `Fault:` comment are defects a change could plausibly bring
in. No specification uses them; they are the mutants of `PROJECT.json`, each of
which must break the property it is listed with.

**RecordingProxy.** `Post` starts a handler thread (`pc`), `UpstreamAnswered`,
`ErrorBodyTorn` and `ForwardFailed` are the three ways `urlopen` ends, `Record`
and `Skip` are the steps of the loop in `_extract_raw_txs`, one step per lock
acquisition. The loop ends in one of three ways: after the last call
(`ExtractDone`); at a call whose `params[0]` is a `KeyError`, which no clause
catches and which tears the connection (`ExtractRaises`); or at one where it is a
`TypeError`, which is swallowed, so that the answer goes back with the rest of the
batch unrecorded (`ExtractStops`). `Send` is the reply and `Snapshot` the main
thread. `Arrive`, `Refuse` and `Lose` are the network and the
node and are independent of what the handler does, so a copy may arrive after the
handler gave up. A request is a sequence of abstract calls; a recorded entry is
named by request and call, so the same bytes sent twice stay apart. Handler
threads are daemon threads nobody joins: they run on after the snapshot. The
history variable `before` keeps, for each request, the requests that had ended
when the client posted it; the order a client can rely on is stated with it.
`late` keeps the requests open at the snapshot. `ClientExit` is an `execute` that
has had all its answers; one that leaves a request open, for whatever reason, is
`ClientKill`. What can be asked of the recording is put in terms of
`ReadableSends`, the submissions ahead of the first call that cannot be read.

**Capture** adds the main thread: `ExecuteReturned` (snapshot once `execute` is
over), `Enrich` (one row per transaction, whose lookup may fail), `Write` (CSV and
exit code; the zero-transaction check is in `export` only). It is assumed that an
`execute` that returns 0 has waited for its answers; one that gives up on a
request and passes all the same could still be recorded after the snapshot.
Recorded strings are taken to be hex, as `execute` sends them; `_enrich` would
raise on others. `CaptureLog` has three actions only (`Record`, `Read`,
`Publish`); the mapping takes the recorder's list for the log, the snapshot for
what was read, and the `raw` column of the CSV for the table.

**Recover.** `GetBalance`, `GetNonce`, `SendAccepted`/`SendRejected` are the
three calls of `sweep_account`; `Advance` is the loop of `recover_funded_eoas`;
`Poll` and `Deadline` the wait. `RpcFails` is any call that raises,
`SendReplyLost` one that was carried out all the same. `Start` begins a fresh
process, after any end of the one before.

The node may refuse a transfer for three reasons (`SendRejected`): it conflicts
with the state or with a pending sweep; a transaction of the tests is pending with
the same nonce and paid as much (`others`: a killed `execute` leaves them in the
pool); or any other, such as a rate limit or a fee below the base fee, which is
counted as a fault because it is not up to the state. A sweep that pays more
replaces the transaction of the tests, which may also be mined or forgotten
(`MineOther`). `payable` says whether the address of `--to` takes a transfer of
21000 gas. If it does not, the sweep is mined with status 0: the fee and the nonce
are gone, the value stays, there is a receipt (`receipt`), and the code, which
does not look at its status, takes it for a sweep. The chain mines and forgets
transfers at any time. It is assumed that the transactions that funded the
accounts are mined before `recover` is run. The fee is one constant: a second run
with another `--max-fee` is not modelled, and neither are concurrent `recover`
processes.

`Sweep` has the accounts only: `Send`, `Forget`, `Settle`, `Bounce` (a reverted
transfer costs its fee) and `Spend` (what the tests spend before the account
moves). The mapping takes the balances, the value of the pending transfer, and the
accounts whose last sweep has a receipt of status 1.

**Submit.** Per run: `Preflight`/`PreflightBlind`, `WriteMeta`, `Start`, `Wait`;
`ToolDies` at any point leaves the child running. `Fund` and `Refund` are what
`execute` does with the money. A run stands for its own random `eoa_start`.
`RecoverFrom` is `recover --meta`, at any time and any number of times: it takes
some of what the EOAs hold and leaves any rest, and any part of it arrives at the
seed. What a recovery takes is what `Recover` is about; here it matters only that
the file says whose EOAs to look at.

**Replay.** One action per RPC: `SubmitTx`, `RequestBuild`, `GetPayload`,
`Import`, `AdvanceHead`, with a refusal for each early return and `Raise` for any
exception, which the batch loop turns into a result without blocks. The node's
mempool, blocks, head and payload are kept, and `Fill` may put any growing part
of the mempool into the payload before `GetPayload` takes it. On the simbuild
route a refusal is an exception (`handleBuild` answers 500). A compared block is
its transactions plus one bit for all other compared fields.

**Batch.** Entries of a file are engine fixtures, fixtures of another format, or
ones that make the lazy iterator raise. `LoadRaises` and `Interrupt` leave both
loops for the `finally` clause; `WriteRaises` is a report that cannot be written.
Both report options are taken to be given. `Add` is `report.add` with the test
after it; `Replayed` adds any of `Replay`'s three verdicts.

**RunCommand** opens that step. `Begin` is the call of `replay`, `Judge` and
`Return` are the steps of `FixtureVerdict`, here an instance whose fixtures are
those of all files (`BlocksOf` gives their valid blocks), `AddResult` is `Add`
with the verdict that was reached. `Interrupted` is Ctrl-C, which is no
`Exception`: it leaves a fixture half judged and without a result. That a fixture
of the batch may take exactly these steps is what `Replay` shows with
`ImplementsVerdict`. `judged` is history: every block that was built and compared.

**ForkConfig.** A genesis is what it was made for, the set of enabled timestamp
forks, the forks it has blob parameters for, and one bit for the header fields
Amsterdam added. What it was made for is the test of a fixture, and of an export
or a bloat the chain id and the funded seed: two tests exported with the same
options share a genesis. `FixtureForks` is the loop of `build_genesis` as it
stands, with a break that an unlisted fork never meets; `DevnetGenesis` is only
applied to a listed fork. `ResolveBenchmarkGas` takes the outcome of both cap
lookups, since `fork_tx_gas_cap` turns any exception into "no cap" and is called
twice. Which forks a test begins with (`AtGenesis`), which forks have a cap and
what geth needs to boot (`Bootable`) are external.

**NodeSession.** A session is one `geth` or `geth_dev_datadir` context: a fixture
of `run`, an `export`, a `bloat`. `use` holds its arguments, and which sessions
end before it begins. `Plan` derives gas and genesis; `Prepare` writes
`genesis.json` and finds two ports; `GethInit`/`GethInitFails` is the checked
`docker run ... init`, which seeds an empty datadir and accepts one of the same
genesis; `OsError` and `LateOsError` are a write, a port or a `Popen` that fails,
before and after the disk has changed; `Ready`/`NotReady` the poll with its
deadline; `StartSim`, `SimReady`, `SimNotReady`, `StopSim` the simbuild inside;
`DockerStop`/`DockerStopFails` and `Reap` the `finally` clause. `Generate` and
`Check` are `bloat`'s way to a node. `ToolDies` at any point leaves container and
children. The daemon and the node are independent: `ContainerStarts` (late, or
never), `ContainerExits`, `Build`, `SimListens`, `SimExits`. `Ready` does not ask
whose node answers: that is what the properties are about. `raced` and
`stopFailed` are history. A `run` gives every fixture a directory of its own below
`--work-dir`; two commands with the same `--work-dir` meet in it, which is what a
named directory stands for. It holds one chain: `geth` keeps its own in `datadir`
and state-actor's is in `geth/chaindata`, so that an `export` and a `bloat` given
the same directory meet more often here than on disk.

## 3. Runs

| Run | Instance | What it shows |
|---|---|---|
| `proxy` | three requests (a batch whose recording ends at its second call, a retry of its transactions around another call, one whose second call tears the handler), two open | only answered requests are recorded, batches stay in order; the snapshot is final but for what was open, and misses no readable submission of a request that was served, even of a killed client; what had ended before a request was posted is recorded, and arrives, before it |
| `capture` | two batches with an unreadable call each, two open, both commands | exit 0 is a whole capture; the command ends and no request hangs; refinement of `CaptureLog`, so that a killed run's CSV is the log as it was read, in its order |
| `recover` | two accounts, `--count` 2, balances empty / the reserve / one above / more, with or without a pending transaction of the tests, `--to` a contract or not, two failing calls or refusals, one eviction | refinement of `Sweep` (so no account is swept twice), nothing a scan has passed is forgotten, confirmed means included and swept if `--to` takes it, and repeated scans then reclaim all |
| `submit` | three runs, two of them with one `--csv`, the third with `--meta-out` and a cleanup, floor 3, seed 4 | money stays recoverable unless another run has overwritten the file; the floor is only passed by a race |
| `replay` | a payload with two transactions, an invalid one, one with one, an empty one; both routes | passes are earned, mismatches real, refinement of `FixtureVerdict` |
| `run_command` | all batches of up to three files of up to two entries; fixtures with two valid blocks, with one and with none | exit 0, stop and abort; the verdicts in the reports are those of the blocks, and exit 0 means every block matched; refinement of `Batch` |
| `node_session` | two sessions, three ports, one directory to share; scenarios below | a session talks to its own node unless it lost a race for a port, on the chain of its genesis; leftovers are explained; derived genesis and gas fit the fork; every session ends |
| `proxy_never_broadcast` | violation | a refused transaction is recorded (comment at `rpc_proxy.py` 129-130) |
| `proxy_failed_broadcast` | violation | a timed-out one is broadcast but not recorded (`rpc_proxy.py` 112-113) |
| `recover_any_holding` | violation | one rejected sweep hides the accounts after it (`README.md` 109-110) |
| `submit_no_sidecar` | violation | no `--csv`, no `--meta-out`: no sidecar (`export.py` 249-250) |
| `fork_prefix` | violation | a Paris fixture gets every fork (`chainspec.py` 29-31) |

**Why the bounds are enough.** Two threads are enough to interleave two appends, a
third request adds the retry and a handler that is torn; the properties relate at
most two entries. Two accounts give one the scan has passed and the one at hand,
and the sweep of a single key beside it; two faults give a crash during recovery
from a crash, or one after a refusal. Accounts beyond `--count` are in
`recover_any_holding` only (three accounts); no property speaks of them, because
the code cannot know of them. Balances lie on both sides of the boundary `balance
<= reserve`, and the transaction of the tests, of cost 1, moves them across it.
Two runs of `submit` are enough to overtake each other, floor and funds are chosen
so that one run's funding takes the seed below the floor, and a third run shares
the file of the second; the two that share it are alike, hence the symmetry. The
fixture has a block after a skipped payload and a block without transactions. Two
files and the stop flag distinguish the inner from the outer `break`; the third is
one that must not be reached. `node_session` is a union of scenarios, because
their product is far larger: every fork for `run` and `export`, and every way to
give the benchmark options below and above Osaka, with one session; pairs in one
directory, one after the other (the same seed and chain id again, another seed, a
reused datadir of `export` or `bloat`); pairs in one directory at once (the same
seed, another seed, a `bloat` that generates its datadir there); in the last two
the second session is offered one port, so that its own node never comes up and
only its writes count; two nodes started side by side on two ports; one node with
a simbuild. A session is offered fewer ports than exist where the others are
equivalent to them. Three ports let two sessions collide and not collide. Two
simbuilds side by side are not in the run; the theorems cover them, for any number
of sessions and ports. `MaxFaults` and `MaxDrops` are the only bounds on
behaviours; they are constants of `Recover` and arbitrary in its proofs.
`MaxOutstanding` is what the client does (`execute` waits for each answer: 1), not
a bound of the proxy.

**Deadlock** is checked for `recover` (the user can always start it again),
`replay` and `run_command` (whose only ends are explicit). The proxy, capture,
submit and node session runs may really stop when all is done, so it is switched
off there.

**Fairness.** Capture: every handler thread goes on (the interpreter schedules it,
and `urlopen` has a timeout, so `ForwardFailed` is always possible; the timeout is
one per socket operation, so an upstream that keeps sending a byte now and then
for ever is outside the model), the main thread goes on, and the timeout of
`communicate` kills `execute`; a lookup has a timeout; nothing is assumed of
network, node or client. The command may end before a handler does: a step of the
proxy after that stands for one just before the process ends. The `proxy` run
states safety only. Recover: the process goes on, its deadline comes, what is
pending is included, or forgotten if it is the tests', and the user runs the scan
again and again (strong fairness of `Scan`); failures, refusals without a cause
and evictions are finite by their bounds. `Submit` states safety only. Node
session: a session takes its own steps (both polls have deadlines; that docker
commands and the body return is assumed, as the code does); nothing is assumed of
the daemon, the node and simbuild. `Replay` and `RunCommand` have no liveness
properties: a node that never answers blocks them as long as the RPC client's
timeout lets it.

## 4. Findings

- `CapturedWasBroadcast`: an HTTP error answer takes the same path as a success,
  and a JSON-RPC error is not looked at.
- `FailedWasNeverBroadcast`: a timeout or reset does not say the node did not get
  the transaction, so the CSV can also miss what is on chain.
- `SweepsAnyHolding`: `RuntimeError` of one rejected sweep ends the scan. A scan
  repeated after blocks have been mined gets past it (`EventuallyReclaimed`), for
  a pending transaction as the cause; nothing in the code gets past a refusal that
  stays.
- `FundsRecoverable` without a file: the sidecar is not "always written".
- `OnlyTargetPrefix`: the loop that should stop at the target fork does not meet a
  fork that is not listed. `runner.py` 37 has a getPayload version for Paris, so
  such fixtures are meant to be replayed. The branch for unlisted forks in
  `devnet_genesis.py` raises instead.

More are visible in the model but are not runs:

- a second `submit` to the same `--csv` overwrites the first one's sidecar, whose
  EOAs are then out of reach; it is the exception `FundsRecoverable` names
  (`Overwritten`);
- a sweep to a contract that wants more than 21000 gas is reverted, and all the
  same confirmed and reported as a swept EOA (`sweep.py` 98: "One swept test
  EOA"), because the receipt's status is not looked at; each scan then loses a fee
  per account until the accounts are dust. `ConfirmedIsSwept` therefore says
  "included", and "swept" only of a `--to` that takes plain transfers;
- a failed balance lookup skips the floor, which a comment in the code says is
  intended; `FloorOnlyOvertaken` is therefore about the runs that saw the balance;
- `params[0]` on a JSON object is a `KeyError`, which the `except` clause at
  `rpc_proxy.py` 133 does not list: the handler of an answered request dies
  (`ExtractRaises`), though the comment says "never let recording break the proxy";
- on a number or `true` it is a `TypeError`, which that clause swallows: the client
  gets its answer, the rest of the batch is missing from the CSV (`ExtractStops`),
  and the command may exit with 0, though the module's docstring says of every
  submission "including those inside JSON-RPC batches" that it is recorded
  (`rpc_proxy.py` 3-6). `SnapshotCoversServed` and `ExitZeroIsWhole` therefore speak
  of the submissions ahead of such a call;
- two sessions with one `--work-dir` at the same time may run on each other's
  genesis without an error, when one writes `genesis.json` between the other's
  write and its `geth init`, or state-actor fills the datadir the other is to
  use; `GenesisAsGiven` says that nothing else can cause it;
- a `run` with the `--work-dir` of an earlier one is not on "a fresh EL"
  (`runner.py` 126): `geth init` accepts the old datadir when the genesis is the
  same, and the old blocks stay; hence the first case of `StaleOnlyIfShared`;
- a failed `docker stop`, and a container that starts after the poll gave up,
  leave the node running (`LeftoverExplained` names both);
- a datadir state-actor did not finish passes the test of `geth_dev_datadir`.

## 5. Proofs

TLAPS checks every theorem below; all hold for arbitrary constants under the
named assumptions of the modules.

**RecordingProxyProofs** (any finite set of requests, any bodies, any
`MaxOutstanding`). `RecordedInBodyOrder` is not inductive: that the next call
appended is later than all recorded ones needs `RecordedWasPassed` (a recorded
call is below its thread's position), and completeness needs the converse,
`PassedIsRecorded`. `HandlerInv` ties a thread's place to what `urlopen` did and
to its position: one whose recording is over has passed every call, or stands at
the first that cannot be read (`ReadAll`). Hence a request that was served has all
its readable submissions in the list (`ServedIsHeld`). `MainInv` says when the
snapshot is taken. From `Inv` follow `OnlyAnsweredRecorded`, `BatchesInOrder` and
the action property `SnapshotMissesNothingServed`. `SnapshotIsFinal` needs, in
`FinalInv`, that what is open after the snapshot was open at it. `RecordedInOrder`
adds `OrdInv`: an answered request has arrived, so one that ended before another
was posted arrived before it, and a thread that ended records no more.
`SequentialOrder` then assumes `MaxOutstanding = 1`, under which any two requests
are ordered in that way, and concludes that the whole list is in the order of
arrival.

**CaptureProofs** (any requests, either command). Every step of the pipeline is a
step of the proxy or leaves it alone (`RefinesProxy`), so that the proxy's
invariants hold of the pipeline. `SnapInv` (the snapshot is a prefix of the list,
which only grows), `RowsInv` (a row per entry of the snapshot) and `VerdictInv`
(what `execute_ok` and exit code 0 presuppose) yield `PipelineTypeCorrect`,
`ExitZeroHolds` and `CsvHolds` (the CSV of a killed `execute` is a prefix of the
list; no run checks it by itself, it is what `CaptureLog` says too). That nothing
is recorded after the snapshot of an `execute` that ended by itself is the proxy's
`MainInv`, that the list holds what was served its `ServedIsHeld`. With the same
invariants `Refinement` maps every step to a step of `CaptureLog` or a stutter.

**RecoverProofs** (any number of accounts, balances, costs, positive reserve,
bounds). The heart is `ReadInv`: what has been read may be stale, but only in one
direction, since balances fall and nonces rise. With `ChainInv` (a pending sweep
leaves exactly the reserve and no transaction of the tests; an account whose sweep
succeeded is down to the reserve) a transfer the node accepts is fresh
(`AcceptableFresh`). `ChainStep` says what every step of the chain keeps, and
`ScanInv` carries what the loop has settled. They yield `Refinement` (an accepted
transfer is `Send` of `Sweep`, an eviction `Forget`, a block `Settle` or `Bounce`,
a transaction of the tests `Spend`, everything else a stutter), `NeverSweptTwice`,
`ScanLeavesNothing` and `ConfirmedReportsTrue`. Why a transfer is refused has no
theorem: the node may refuse anything.

**ReplayProofs** (any fixture that is a chain without repeated transactions).
`LoopInv` says which blocks are judged at each place, `PoolInv` that the mempool
holds exactly what the current payload has submitted (so an empty pool at the top
of the loop), `NodeInv` what is imported, `BuiltInv` links results to what was
built. They yield `MismatchIsReal`, `PassIsSound` and `Refinement`: every step is
a step of `FixtureVerdict` or a stutter.

**SubmitProofs** (any runs, files, amounts). `Inv` says that before `execute` is
started a run's EOAs are empty, and that a seed below the floor after a successful
lookup is another run's doing: `FloorHolds`. `Recorded` says that from the moment
it is written the sidecar names its run, or another one that was given the same
file. `MoneyIsRecoverable` assumes that every run has a file (`EveryRunHasFile`);
`submit_no_sidecar` shows that it has to.

**BatchProofs** (any files of any entries). `CursorInv` says that results are
behind the cursor, without repetition, `CoverInv` that what is behind the cursor
has its result, and that both loops are left early only after a failure or an
exception; `ReportInv` what the reports hold at each stage. That the counters of
the report tell whether everything passed (`CountsTell`) is a fact about finite
sets. They yield `ExitZeroCleanHolds`, `StopHolds` and `AbortedHolds`.

**RunCommandProofs** (any files, any number of valid blocks per fixture).
`Refinement` maps `AddResult` to `Replayed` and the steps of a fixture to
stutters, so that `BatchProofs`' invariants and theorems hold of `RunSpec`.
`ReportIsEarned` is not inductive: `FixtureInv` says that what `FixtureVerdict`
knows of the fixture at hand (`todo`, `clean`) is what is recorded as judged of
it, `JudgedInv` that nothing was judged of it before, because everything judged
lies behind the cursor, and `MismatchInv` that a block that differs shows in a
result, unless Ctrl-C has come. With `BatchProofs`' `CoverInv` (every fixture has
its result) follow `ReportHolds` and `EndToEnd`.

**NodeSessionProofs** (any sessions, directories, ports and list of forks, under
the assumption that the list is in the order in which forks build on each
other). `LoopIsPrefix` shows that the loop of `build_genesis` yields the prefix
for a listed fork; with `BuildersBoot` and `DefaultFits` and the invariant
`DerivedInv` (a session's genesis and gas are what was derived) follow
`ForksHold`, `BootHolds` and `GasHolds`. `PairInv` says that whoever is bound to
a port another session waits on came after it; it is inductive only together with
`Local`, what holds of one session at each stage, for example that a node known
to a session's own wait had a container. They yield `PeerHolds` and
`LeftoverHolds`. `OrderInv` and `DiskInv` say that a session finds in its
directory what it wrote unless another has disturbed it: one that is in no order
with it and has written another genesis there. `StillDisturbs` shows that this
cannot be undone, and `WriterDisk` that a session with the same genesis does no
harm, whatever it does in between: `GenesisHolds`, `StaleHolds`.

**Only model-checked:** every liveness property (`EveryPostEnds`, `CommandEnds`,
`EventuallyReclaimed`, `SessionEnds`), which TLAPS does not
reach with fairness. Every safety property a run checks has its theorem.

## 6. Not modelled

- The fields of the genesis that no property tells apart (alloc, header values).
- The choice of the getPayload version (`runner.py` 46-51), a table lookup; BPO1
  and BPO2 are not in the table and get the version of the first `newPayload`.
- `jwt.hex`: of two sessions in one directory the later one overwrites it, and the
  Engine API then refuses the other's calls, which is an error and no wrong result.
  What the same race does to `genesis.json` is modelled (`Disturbs`).
- Commands of docker that never return.
- Hex conversions, basic-auth splitting, the seed's YAML, option parsing, printing.
- Signatures, a `recover` run again with another `--max-fee`, reorganisations of the
  chain. That a transfer may cost less than the reserve is modelled (`Mine`).
- The patch of buildoor's engine client, which changes JSON tags only.

## 7. Plan

Done, in this order: `RecordingProxy`, `Recover`, `FixtureVerdict` and `Replay`,
`Capture` and `CaptureLog`, `Submit`, `Batch`, `ForkConfig` and `NodeSession`,
with the proofs above; then `RunCommand` over `Batch` and `FixtureVerdict`,
`Sweep`, and sessions that share a directory at the same time. What could follow:

1. The fixtures of `RunCommand` as sessions of `NodeSession`, so that a left over
   node or an old work directory meets the next fixture.
2. A `Submit` whose `RecoverFrom` is `Sweep`, account by account.
