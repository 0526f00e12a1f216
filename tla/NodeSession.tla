----------------------------- MODULE NodeSession -----------------------------
(***************************************************************************)
(* The throwaway node of `run`, `export` and `bloat`: geth in a docker     *)
(* container on ports found free a moment before (src/eest_replay/el.py),  *)
(* for `run` possibly a `buildoor simbuild` child beside it                *)
(* (buildoor_client.py), for `bloat` a datadir state-actor has generated   *)
(* (state_actor.py).  A session is one use of a node: a fixture of a batch *)
(* or a whole command.  Sessions share the host: its ports, the docker     *)
(* daemon and, if the user says so, a directory.  The daemon, geth and the *)
(* child processes are external, modelled from what a session can observe. *)
(***************************************************************************)
EXTENDS ForkConfig

CONSTANTS
    Sessions,
    Dirs,       \* directories the user names with --work-dir or --datadir
    Ports,
    Existing,   \* Existing[d]: the genesis of the chain in d at the start, or NoGenesis
    Scenarios,  \* what the sessions are used for, one function per behaviour
    NoGenesis, NoPort, NoDir, Nobody

(* A session is for one command, or unused; it begins after others have    *)
(* ended, and works in a named directory or in one of its own (mkdtemp);   *)
(* the kernel offers it some of the ports.                                 *)
Uses == [cmd : {"none", "run", "export", "bloat"}, test : Tests, fork : Forks,
         dir : Dirs \cup {NoDir}, simbuild : BOOLEAN, generate : BOOLEAN,
         after : SUBSET Sessions, options : Options, ports : SUBSET Ports]

AllDirs == Dirs \cup Sessions

ASSUME NamesAssumption ==
    /\ NoGenesis \notin Genesis /\ NoPort \notin Ports /\ NoDir \notin Dirs
    /\ Nobody \notin Sessions /\ Dirs \cap Sessions = {}
ASSUME ExistingAssumption == Existing \in [Dirs -> Genesis \cup {NoGenesis}]
ASSUME ScenariosAssumption == Scenarios \subseteq [Sessions -> Uses]

VARIABLES
    use,        \* use[s]: the arguments
    pc,         \* where the process of the session is
    raised,     \* an exception is on its way, or has ended the session
    genesis,    \* the genesis dict of the session
    gas,        \* the two gas arguments handed to `execute`
    file,       \* file[d]: genesis.json in d
    data,       \* data[d]: the chain in the datadir of d: its genesis, and who built blocks on it
    rpc, auth,  \* the host ports of the node
    client,     \* the `docker run` process: none, alive, over
    container,  \* none yet, up, gone
    sim,        \* the simbuild process: none, alive, listening, over
    simPort,
    node,       \* whose container answered _wait_for_rpc
    builder,    \* whose simbuild answered _wait_for_health
    stopFailed, \* history: `docker stop` had no effect on a container that was up
    raced       \* history: another process bound a port the session had found free

planVars == <<use, genesis, gas>>
diskVars == <<file, data>>
portVars == <<rpc, auth, simPort>>
procVars == <<client, container, sim>>
seenVars == <<node, builder>>
history == <<stopFailed, raced>>
vars == <<pc, raised, planVars, diskVars, portVars, procVars, seenVars, history>>

Stages == {"idle", "generate", "check", "prepare", "init", "waiting", "sim", "simwait",
           "body", "simstop", "stop", "reap", "ended", "dead"}

\* Fault: a directory nobody named is a fixed one.
DirOfFixed(s) == IF use[s].dir = NoDir THEN CHOOSE d \in Dirs : TRUE ELSE use[s].dir

\* work_dir or tempfile.mkdtemp(); `run` makes a directory per fixture in it.
DirOf(s) == IF use[s].dir = NoDir THEN s ELSE use[s].dir

Chain == [there : BOOLEAN, genesis : Genesis \cup {NoGenesis}, built : SUBSET Sessions]
ChainOf(s) == data[DirOf(s)]

Up(s) == container[s] = "up"
Bound == {p \in Ports : \E s \in Sessions : \/ Up(s) /\ p \in {rpc[s], auth[s]}
                                            \/ sim[s] = "listening" /\ p = simPort[s]}

\* Fault: the port is not tried.
FreePortAny(s) == use[s].ports

\* _free_port, bind(("", 0)): bound for a moment, so nobody else's now.
FreePort(s) == use[s].ports \ Bound

Init ==
    /\ use \in Scenarios
    /\ pc = [s \in Sessions |-> "idle"]
    /\ raised = [s \in Sessions |-> FALSE]
    /\ genesis = [s \in Sessions |-> NoGenesis]
    /\ gas = [s \in Sessions |-> NoGas]
    /\ file = [d \in AllDirs |-> NoGenesis]
    /\ data = [d \in AllDirs |->
                  LET g == IF d \in Dirs THEN Existing[d] ELSE NoGenesis
                  IN [there |-> g # NoGenesis, genesis |-> g, built |-> {}]]
    /\ rpc = [s \in Sessions |-> NoPort]
    /\ auth = [s \in Sessions |-> NoPort]
    /\ simPort = [s \in Sessions |-> NoPort]
    /\ client = [s \in Sessions |-> "none"]
    /\ container = [s \in Sessions |-> "none"]
    /\ sim = [s \in Sessions |-> "none"]
    /\ node = [s \in Sessions |-> Nobody]
    /\ builder = [s \in Sessions |-> Nobody]
    /\ stopFailed = [s \in Sessions |-> FALSE]
    /\ raced = {}

-----------------------------------------------------------------------------
(* A session.                                                              *)

Step(s, from, to) == pc[s] = from /\ pc' = [pc EXCEPT ![s] = to]

\* An exception: the session goes on at the finally clause, or ends.
Raise(s, from, to) == Step(s, from, to) /\ raised' = [raised EXCEPT ![s] = TRUE]

\* The command starts: benchmark gas, then the genesis.  `bloat` computes its gas
\* when its node is up, from the same arguments.
Plan(s) ==
    LET u == use[s] IN
    /\ u.cmd # "none"
    /\ \A t \in u.after : pc[t] \in {"ended", "dead"}
    /\ IF u.cmd = "run"
       THEN gas' = gas
       ELSE \E found, again \in BOOLEAN :
                gas' = [gas EXCEPT ![s] =
                           ResolveBenchmarkGas(u.options, ForkTxGasCap(u.fork, found),
                                               ForkTxGasCap(u.fork, again))]
    /\ \/ /\ u.cmd = "run"
          /\ genesis' = [genesis EXCEPT ![s] = FixtureGenesis(u.test, u.fork)]
          /\ Step(s, "idle", "prepare") /\ UNCHANGED raised
       \/ /\ u.cmd = "export" /\ u.fork \in Listed
          /\ genesis' = [genesis EXCEPT ![s] = DevnetGenesis(u.test, u.fork)]
          /\ Step(s, "idle", "prepare") /\ UNCHANGED raised
       \/ /\ u.cmd = "export" /\ u.fork \notin Listed  \* ValueError
          /\ Raise(s, "idle", "ended") /\ UNCHANGED genesis
       \/ /\ u.cmd = "bloat"
          /\ Step(s, "idle", IF u.generate THEN "generate" ELSE "check")
          /\ UNCHANGED <<raised, genesis>>
    /\ UNCHANGED <<use, diskVars, portVars, procVars, seenVars, history>>

\* run_state_actor succeeds (what it writes is external).
Generate(s) ==
    /\ Step(s, "generate", "check")
    /\ LET g == ActorGenesis(use[s].test, use[s].fork)
       IN /\ genesis' = [genesis EXCEPT ![s] = g]
          /\ data' = [data EXCEPT ![DirOf(s)] = [there |-> TRUE, genesis |-> g, built |-> {}]]
    /\ UNCHANGED <<use, gas, raised, file, portVars, procVars, seenVars, history>>

\* It exits nonzero or is killed by its timeout, in the middle of its work or before.
GenerateFails(s) ==
    /\ Raise(s, "generate", "ended")
    /\ data' \in {data, [data EXCEPT ![DirOf(s)] =
                            [there |-> TRUE, genesis |-> NoGenesis, built |-> {}]]}
    /\ UNCHANGED <<planVars, file, portVars, procVars, seenVars, history>>

\* geth_dev_datadir: there is a geth/chaindata, so a node is started.
Check(s) ==
    /\ Step(s, "check", "waiting")
    /\ ChainOf(s).there
    /\ \E p \in FreePort(s) : rpc' = [rpc EXCEPT ![s] = p]
    /\ client' = [client EXCEPT ![s] = "alive"]
    /\ UNCHANGED <<raised, planVars, diskVars, auth, simPort, container, sim, seenVars, history>>

\* FileNotFoundError.
CheckFails(s) ==
    /\ Raise(s, "check", "ended")
    /\ ~ChainOf(s).there
    /\ UNCHANGED <<planVars, diskVars, portVars, procVars, seenVars, history>>

\* geth: the genesis is written and two ports are found, one after the other.
Prepare(s) ==
    /\ Step(s, "prepare", "init")
    /\ file' = [file EXCEPT ![DirOf(s)] = genesis[s]]
    /\ \E p, q \in FreePort(s) : rpc' = [rpc EXCEPT ![s] = p] /\ auth' = [auth EXCEPT ![s] = q]
    /\ UNCHANGED <<raised, planVars, data, simPort, procVars, seenVars, history>>

\* OSError before the disk has changed: of a write, of a port, of Popen.
OsError(s) ==
    /\ pc[s] \in {"prepare", "check", "sim"}
    /\ Raise(s, pc[s], IF pc[s] = "sim" THEN "stop" ELSE "ended")
    /\ UNCHANGED <<planVars, diskVars, portVars, procVars, seenVars, history>>

\* `docker run ... init` is over, leaving the given chain; the node is started.
InitTo(s, chain) ==
    /\ Step(s, "init", "waiting")
    /\ data' = [data EXCEPT ![DirOf(s)] = chain]
    /\ client' = [client EXCEPT ![s] = "alive"]
    /\ UNCHANGED <<raised, planVars, file, portVars, container, sim, seenVars, history>>

\* geth init seeds an empty datadir, and accepts one that has this genesis.
Initialised(s) ==
    LET c == ChainOf(s)
        g == file[DirOf(s)]
    IN IF c.there THEN c ELSE [there |-> TRUE, genesis |-> g, built |-> {}]

\* Fault: check=True is missing, so that a refusal goes unnoticed.
GethInitUnchecked(s) == InitTo(s, Initialised(s))

GethInit(s) ==
    /\ ChainOf(s).there => ChainOf(s).genesis = file[DirOf(s)]
    /\ InitTo(s, Initialised(s))

\* It fails: another genesis, a datadir in use, no image.
GethInitFails(s) ==
    /\ Raise(s, "init", "ended")
    /\ UNCHANGED <<planVars, diskVars, portVars, procVars, seenVars, history>>

\* OSError after it: genesis.json is there, or geth init has succeeded, but the
\* rest of the ports and files, or the node, is not to be had.
LateOsError(s) ==
    /\ \/ /\ Raise(s, "prepare", "ended")
          /\ file' = [file EXCEPT ![DirOf(s)] = genesis[s]]
          /\ UNCHANGED data
       \/ /\ Raise(s, "init", "ended")
          /\ ChainOf(s).there => ChainOf(s).genesis = file[DirOf(s)]
          /\ data' = [data EXCEPT ![DirOf(s)] = Initialised(s)]
          /\ UNCHANGED file
    /\ UNCHANGED <<planVars, portVars, procVars, seenVars, history>>

AfterReady(s) == IF use[s].simbuild THEN "sim" ELSE "body"

\* _wait_for_rpc: a node answers on the port, whoever's it is.
Ready(s) ==
    /\ \E t \in Sessions : Up(t) /\ rpc[t] = rpc[s] /\ node' = [node EXCEPT ![s] = t]
    /\ Step(s, "waiting", AfterReady(s))
    /\ UNCHANGED <<raised, planVars, diskVars, portVars, procVars, builder, history>>

\* Fault: the poll has no deadline.
NotReadyNever(s) == pc[s] = "none" /\ UNCHANGED vars

\* The deadline of _wait_for_rpc.
NotReady(s) ==
    /\ Raise(s, "waiting", "stop")
    /\ UNCHANGED <<planVars, diskVars, portVars, procVars, seenVars, history>>

\* buildoor_simbuild: a port, then the child process.
StartSim(s) ==
    /\ Step(s, "sim", "simwait")
    /\ \E p \in FreePort(s) : simPort' = [simPort EXCEPT ![s] = p]
    /\ sim' = [sim EXCEPT ![s] = "alive"]
    /\ UNCHANGED <<raised, planVars, diskVars, rpc, auth, client, container, seenVars, history>>

\* _wait_for_health: a simbuild answers on the port.
SimReady(s) ==
    /\ Step(s, "simwait", "body")
    /\ \E t \in Sessions :
           sim[t] = "listening" /\ simPort[t] = simPort[s] /\ builder' = [builder EXCEPT ![s] = t]
    /\ UNCHANGED <<raised, planVars, diskVars, portVars, procVars, node, history>>

\* Its deadline.
SimNotReady(s) ==
    /\ Raise(s, "simwait", "simstop")
    /\ UNCHANGED <<planVars, diskVars, portVars, procVars, seenVars, history>>

AfterBody(s) == IF use[s].simbuild THEN "simstop" ELSE "stop"

\* The body of the with statement ends, or raises.
BodyEnds(s) ==
    /\ Step(s, "body", AfterBody(s))
    /\ raised' \in {raised, [raised EXCEPT ![s] = TRUE]}
    /\ UNCHANGED <<planVars, diskVars, portVars, procVars, seenVars, history>>

\* Fault: the child is not terminated.
StopSimNot(s) ==
    /\ Step(s, "simstop", "stop")
    /\ UNCHANGED <<raised, planVars, diskVars, portVars, procVars, seenVars, history>>

\* terminate, wait, kill.
StopSim(s) ==
    /\ Step(s, "simstop", "stop")
    /\ sim' = [sim EXCEPT ![s] = "over"]
    /\ UNCHANGED <<raised, planVars, diskVars, portVars, client, container, seenVars, history>>

\* `docker stop`: the container, if it is up, is removed and its client ends.
DockerStop(s) ==
    /\ Step(s, "stop", "reap")
    /\ IF Up(s)
       THEN /\ container' = [container EXCEPT ![s] = "gone"]
            /\ client' = [client EXCEPT ![s] = "over"]
       ELSE UNCHANGED <<container, client>>
    /\ UNCHANGED <<raised, planVars, diskVars, portVars, sim, seenVars, history>>

\* It fails; nobody looks at the return code.
DockerStopFails(s) ==
    /\ Step(s, "stop", "reap")
    /\ stopFailed' = [stopFailed EXCEPT ![s] = Up(s)]
    /\ UNCHANGED <<raised, planVars, diskVars, portVars, procVars, seenVars, raced>>

\* Fault: the client is waited for, but not killed.
ReapWaits(s) ==
    /\ Step(s, "reap", "ended")
    /\ UNCHANGED <<raised, planVars, diskVars, portVars, procVars, seenVars, history>>

\* proc.wait, and proc.kill after its timeout: the client is over, the container
\* is not touched.
Reap(s) ==
    /\ Step(s, "reap", "ended")
    /\ client' = [client EXCEPT ![s] = "over"]
    /\ UNCHANGED <<raised, planVars, diskVars, portVars, container, sim, seenVars, history>>

\* The tool is killed: no finally clause runs, its children live on.
ToolDies(s) ==
    /\ pc[s] \notin {"idle", "ended", "dead"}
    /\ pc' = [pc EXCEPT ![s] = "dead"]
    /\ UNCHANGED <<raised, planVars, diskVars, portVars, procVars, seenVars, history>>

Own(s) ==
    \/ Generate(s) \/ GenerateFails(s) \/ Check(s) \/ CheckFails(s)
    \/ Prepare(s) \/ OsError(s) \/ GethInit(s) \/ GethInitFails(s) \/ LateOsError(s)
    \/ Ready(s) \/ NotReady(s) \/ StartSim(s) \/ SimReady(s) \/ SimNotReady(s)
    \/ BodyEnds(s) \/ StopSim(s) \/ DockerStop(s) \/ DockerStopFails(s) \/ Reap(s)

-----------------------------------------------------------------------------
(* The docker daemon, geth and simbuild (external).                        *)

\* A port the session has found free and not bound yet is taken by another.
Racing(ports, s) ==
    {t \in Sessions \ {s} :
        \/ pc[t] \in {"init", "waiting"} /\ {rpc[t], auth[t]} \cap ports # {}
        \/ pc[t] = "simwait" /\ simPort[t] \in ports}

\* The node comes up: its ports can be bound, its datadir is not in use, and
\* the genesis in it can be booted.
ContainerStarts(s) ==
    /\ client[s] = "alive" /\ container[s] = "none"
    /\ {rpc[s], auth[s]} \cap Bound = {} /\ rpc[s] # auth[s]
    /\ \A t \in Sessions : Up(t) => DirOf(t) # DirOf(s)
    /\ ChainOf(s).genesis # NoGenesis => Bootable(ChainOf(s).genesis)
    /\ container' = [container EXCEPT ![s] = "up"]
    /\ raced' = raced \cup Racing({rpc[s], auth[s]} \cap Ports, s)
    /\ UNCHANGED <<pc, raised, planVars, diskVars, portVars, client, sim, seenVars, stopFailed>>

\* The container does not start, or exits; --rm removes it.
ContainerExits(s) ==
    /\ client[s] = "alive" \/ Up(s)
    /\ container' = [container EXCEPT ![s] = "gone"]
    /\ client' = [client EXCEPT ![s] = "over"]
    /\ UNCHANGED <<pc, raised, planVars, diskVars, portVars, sim, seenVars, history>>

\* The node builds a block: by itself (--dev), or for a session connected to it.
Build(t) ==
    /\ Up(t)
    /\ \E s \in Sessions :
           /\ \/ s = t /\ use[t].cmd = "bloat"
              \/ pc[s] = "body" /\ node[s] = t
           /\ data' = [data EXCEPT ![DirOf(t)].built = @ \cup {s}]
    /\ UNCHANGED <<pc, raised, planVars, file, portVars, procVars, seenVars, history>>

SimListens(s) ==
    /\ sim[s] = "alive"
    /\ simPort[s] \notin Bound
    /\ sim' = [sim EXCEPT ![s] = "listening"]
    /\ raced' = raced \cup Racing({simPort[s]}, s)
    /\ UNCHANGED <<pc, raised, planVars, diskVars, portVars, client, container, seenVars, stopFailed>>

SimExits(s) ==
    /\ sim[s] \in {"alive", "listening"}
    /\ sim' = [sim EXCEPT ![s] = "over"]
    /\ UNCHANGED <<pc, raised, planVars, diskVars, portVars, client, container, seenVars, history>>

Next ==
    \E s \in Sessions :
        \/ Plan(s) \/ Own(s) \/ ToolDies(s)
        \/ ContainerStarts(s) \/ ContainerExits(s) \/ Build(s) \/ SimListens(s) \/ SimExits(s)

Spec == Init /\ [][Next]_vars

(* A session goes on: its polls have deadlines, and it is assumed that the  *)
(* docker commands and the body return.  Nothing is assumed of the daemon,  *)
(* the node and simbuild.                                                   *)
FairSpec == Spec /\ \A s \in Sessions : WF_vars(Own(s))

-----------------------------------------------------------------------------
(* Properties.                                                             *)

Connected(s) == pc[s] \in {"sim", "simwait", "body"} /\ node[s] = s

(* Every variable stays in its type; a docker client is started when the    *)
(* session begins to wait for its node, and none outlives the session.      *)
TypeOK ==
    /\ use \in Scenarios
    /\ pc \in [Sessions -> Stages]
    /\ raised \in [Sessions -> BOOLEAN]
    /\ genesis \in [Sessions -> Genesis \cup {NoGenesis}]
    /\ gas \in [Sessions -> Gas]
    /\ file \in [AllDirs -> Genesis \cup {NoGenesis}]
    /\ data \in [AllDirs -> Chain]
    /\ rpc \in [Sessions -> Ports \cup {NoPort}]
    /\ auth \in [Sessions -> Ports \cup {NoPort}]
    /\ simPort \in [Sessions -> Ports \cup {NoPort}]
    /\ client \in [Sessions -> {"none", "alive", "over"}]
    /\ container \in [Sessions -> {"none", "up", "gone"}]
    /\ sim \in [Sessions -> {"none", "alive", "listening", "over"}]
    /\ node \in [Sessions -> Sessions \cup {Nobody}]
    /\ builder \in [Sessions -> Sessions \cup {Nobody}]
    /\ stopFailed \in [Sessions -> BOOLEAN]
    /\ raced \subseteq Sessions
    /\ \A s \in Sessions :
           /\ client[s] = "none" => container[s] = "none"
           /\ pc[s] = "ended" => client[s] # "alive"

(* What a session has written to its directory may be undone by another    *)
(* one that is at work there in no order with it, has come to write, and    *)
(* has another genesis, or state-actor's half of one.                       *)
Ordered(s, t) == s \in use[t].after \/ t \in use[s].after
Wrote(t) ==
    /\ pc[t] \notin {"idle", "generate", "prepare"}
    /\ genesis[t] # NoGenesis \/ (use[t].cmd = "bloat" /\ use[t].generate)
Disturbs(t, s) ==
    /\ t # s /\ DirOf(t) = DirOf(s) /\ ~Ordered(s, t)
    /\ Wrote(t) /\ genesis[t] # genesis[s]

(* What is replayed, or exported, runs on the chain of the genesis that was *)
(* derived for it, also when its directory was used before, by a session    *)
(* that failed, or whose node is still there, and also when others write    *)
(* there at the same time, unless they have another genesis (el.py 65-89,   *)
(* state_actor.py).                                                         *)
GenesisAsGiven ==
    \A s \in Sessions :
        Connected(s) /\ genesis[s] # NoGenesis =>
            \/ ChainOf(s).genesis = genesis[s]
            \/ \E t \in Sessions : Disturbs(t, s)

(* The blocks of another session are on the chain of a node only if the     *)
(* user named its directory, or a session was led to that node by a port.   *)
StaleOnlyIfShared ==
    \A s \in Sessions :
        Connected(s) /\ ~(ChainOf(s).built \subseteq {s})
            => use[s].dir # NoDir \/ \E t \in Sessions \ {s} : node[t] = s

(* A session talks to the node, or the simbuild, of another only if that    *)
(* one bound the port after the session had found it free: a server that    *)
(* was there before is never mistaken for its own (el.py 73, 141).          *)
WrongPeerOnlyRaced ==
    \A s \in Sessions :
        node[s] \notin {s, Nobody} \/ builder[s] \notin {s, Nobody} => s \in raced

(* "tears down on exit" (el.py 59), for what the code can know: when a      *)
(* session has ended its simbuild is over, and its node is not left up      *)
(* silently: docker stop failed, or the session raised because the node     *)
(* never answered in time, or it took another's node for its own.           *)
LeftoverExplained ==
    \A s \in Sessions :
        pc[s] = "ended" =>
            /\ sim[s] \in {"none", "over"}
            /\ Up(s) => stopFailed[s] \/ (node[s] # s /\ (raised[s] \/ s \in raced))

(* For a listed fork both builders enable exactly the forks the test starts *)
(* with.                                                                    *)
ForksAsTargeted ==
    \A s \in Sessions :
        genesis[s] # NoGenesis /\ use[s].fork \in Listed
            => genesis[s].forks = AtGenesis[use[s].fork]

(* A genesis derived for a listed fork can be booted.                       *)
GenesisBoots ==
    \A s \in Sessions :
        genesis[s] # NoGenesis /\ use[s].fork \in Listed => Bootable(genesis[s])

(* An explicit gas option is handed on as it is; without one a benchmark    *)
(* run gets exactly one default, which the cap of the fork allows even when *)
(* the lookup of the cap failed (export.py 565-594).                        *)
GasFits ==
    \A s \in Sessions :
        LET o == use[s].options
            g == gas[s]
        IN genesis[s] # NoGenesis /\ use[s].cmd # "run" =>
               IF o.values # None \/ o.limit # None \/ ~IsBenchmarkRun(o)
               THEN g.values = o.values /\ g.limit = o.limit
               ELSE /\ (g.values = None) # (g.limit = None)
                    /\ use[s].fork \in CappedForks => GasOf(g) <= TxGasCap

(* A session that has begun ends, whatever its node and simbuild do.        *)
SessionEnds == \A s \in Sessions : pc[s] # "idle" ~> pc[s] \in {"ended", "dead"}

(* The comment at chainspec.py 29-31: "We only enable the prefix up to the  *)
(* fixture's target fork".                                                  *)
OnlyTargetPrefix ==
    \A s \in Sessions :
        genesis[s] # NoGenesis /\ use[s].cmd = "run" => genesis[s].forks \subseteq AtGenesis[use[s].fork]

=============================================================================
