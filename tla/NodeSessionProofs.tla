-------------------------- MODULE NodeSessionProofs --------------------------
(***************************************************************************)
(* Proofs about ForkConfig and NodeSession, for any list of forks, any     *)
(* sessions, directories and ports, and any use the sessions are put to.   *)
(***************************************************************************)
EXTENDS NodeSession, TLAPS

(* The target of a listed fork is at its index, and only there.            *)
LEMMA IndexOf ==
  ASSUME NEW f \in Listed
  PROVE  /\ ForkIndex(f) \in 1..Len(TIMESTAMP_FORKS)
         /\ TIMESTAMP_FORKS[ForkIndex(f)] = f
         /\ DOMAIN TIMESTAMP_FORKS = 1..Len(TIMESTAMP_FORKS)
         /\ Len(TIMESTAMP_FORKS) \in Nat
<1>1. DOMAIN TIMESTAMP_FORKS = 1..Len(TIMESTAMP_FORKS) /\ Len(TIMESTAMP_FORKS) \in Nat
  BY ListAssumption
<1>2. \E k \in DOMAIN TIMESTAMP_FORKS : TIMESTAMP_FORKS[k] = f
  BY DEF Listed
<1>3. ForkIndex(f) \in DOMAIN TIMESTAMP_FORKS /\ TIMESTAMP_FORKS[ForkIndex(f)] = f
  BY <1>2 DEF ForkIndex
<1> QED
  BY <1>1, <1>3

(* The loop with the break enables the list up to the target.              *)
LEMMA LoopIsPrefix ==
  ASSUME NEW f \in Listed
  PROVE  FixtureForks(f) = UpTo(ForkIndex(f))
<1> DEFINE i == ForkIndex(f)
           D == DOMAIN TIMESTAMP_FORKS
           Reached == {n \in D : \A j \in 1..(n - 1) : TIMESTAMP_FORKS[j] # f}
<1> HIDE DEF i
<1>1. i \in 1..Len(TIMESTAMP_FORKS) /\ TIMESTAMP_FORKS[i] = f
      /\ D = 1..Len(TIMESTAMP_FORKS) /\ Len(TIMESTAMP_FORKS) \in Nat
  BY IndexOf DEF i
<1>2. \A j \in D : TIMESTAMP_FORKS[j] = f => j = i
  BY <1>1, ListAssumption
<1>3. ASSUME NEW n \in D PROVE n \in Reached <=> n \in 1..i
  <2>1. CASE n <= i
    <3>1. \A j \in 1..(n - 1) : j \in D /\ j # i
      BY <1>1, <2>1
    <3> QED
      BY <1>1, <1>2, <2>1, <3>1
  <2>2. CASE n > i
    <3>1. i \in 1..(n - 1)
      BY <1>1, <2>2
    <3> QED
      BY <1>1, <2>2, <3>1
  <2> QED
    BY <1>1, <2>1, <2>2
<1>4. Reached = 1..i
  BY <1>1, <1>3
<1>5. FixtureForks(f) = {TIMESTAMP_FORKS[k] : k \in Reached}
  BY DEF FixtureForks
<1> QED
  BY <1>4, <1>5 DEF UpTo, i

(* Both builders enable what a listed fork starts with.                    *)
LEMMA ForksOfBuilders ==
  ASSUME NEW f \in Listed, NEW t
  PROVE  /\ FixtureGenesis(t, f).forks = AtGenesis[f]
         /\ DevnetGenesis(t, f).forks = AtGenesis[f]
         /\ ActorGenesis(t, f).forks = AtGenesis[f]
<1>1. AtGenesis[f] = UpTo(ForkIndex(f))
  BY OrderAssumption
<1> QED
  BY <1>1, LoopIsPrefix DEF FixtureGenesis, DevnetGenesis, ActorGenesis

(* An enabled block access list fork is at or before the target.           *)
LEMMA BalBefore ==
  ASSUME NEW f \in Listed, BalFork \in UpTo(ForkIndex(f))
  PROVE  ForkIndex(f) >= ForkIndex(BalFork)
<1>1. PICK k \in 1..ForkIndex(f) : TIMESTAMP_FORKS[k] = BalFork
  BY DEF UpTo
<1>2. ForkIndex(f) \in 1..Len(TIMESTAMP_FORKS) /\ Len(TIMESTAMP_FORKS) \in Nat
      /\ DOMAIN TIMESTAMP_FORKS = 1..Len(TIMESTAMP_FORKS)
  BY IndexOf
<1>3. ForkIndex(BalFork) \in 1..Len(TIMESTAMP_FORKS) /\ TIMESTAMP_FORKS[ForkIndex(BalFork)] = BalFork
  BY IndexOf, ListAssumption
<1>4. k = ForkIndex(BalFork)
  BY <1>1, <1>2, <1>3, ListAssumption
<1> QED
  BY <1>1, <1>2, <1>4

(* What is derived for a listed fork boots.                                *)
LEMMA BuildersBoot ==
  ASSUME NEW f \in Listed, NEW t
  PROVE  /\ Bootable(FixtureGenesis(t, f))
         /\ Bootable(DevnetGenesis(t, f))
         /\ Bootable(ActorGenesis(t, f))
<1>1. AtGenesis[f] = UpTo(ForkIndex(f)) /\ FixtureForks(f) = UpTo(ForkIndex(f))
  BY OrderAssumption, LoopIsPrefix
<1>2. Bootable(FixtureGenesis(t, f)) /\ Bootable(ActorGenesis(t, f))
  BY <1>1 DEF Bootable, FixtureGenesis, ActorGenesis
<1>3. Bootable(DevnetGenesis(t, f))
  BY BalBefore DEF Bootable, DevnetGenesis
<1> QED
  BY <1>2, <1>3

(* The builders return genesis dicts.                                      *)
LEMMA BuildersType ==
  ASSUME NEW f \in Forks, NEW t \in Tests
  PROVE  /\ FixtureGenesis(t, f) \in Genesis
         /\ f \in Listed => DevnetGenesis(t, f) \in Genesis
         /\ ActorGenesis(t, f) \in Genesis
<1>1. FixtureForks(f) \subseteq Listed
  BY DEF FixtureForks, Listed
<1>2. AtGenesis[f] \subseteq Listed
  BY OrderAssumption
<1>3. FixtureGenesis(t, f) \in Genesis /\ ActorGenesis(t, f) \in Genesis
  BY <1>1, <1>2 DEF FixtureGenesis, ActorGenesis, Genesis
<1>4. ASSUME f \in Listed PROVE DevnetGenesis(t, f) \in Genesis
  <2>1. ForkIndex(f) \in 1..Len(TIMESTAMP_FORKS) /\ DOMAIN TIMESTAMP_FORKS = 1..Len(TIMESTAMP_FORKS)
        /\ Len(TIMESTAMP_FORKS) \in Nat
    BY <1>4, IndexOf
  <2>2. UpTo(ForkIndex(f)) \subseteq Listed
    BY <2>1 DEF UpTo, Listed
  <2>3. ForkIndex(BalFork) \in Nat
    BY IndexOf, ListAssumption
  <2>4. (ForkIndex(f) >= ForkIndex(BalFork)) \in BOOLEAN
    BY <2>1, <2>3
  <2> QED
    BY <2>2, <2>4 DEF DevnetGenesis, Genesis
<1> QED
  BY <1>3, <1>4

(* A default fits under the cap of a capped fork, whichever lookup failed. *)
LEMMA DefaultFits ==
  ASSUME NEW f \in Forks, NEW found \in BOOLEAN, NEW again \in BOOLEAN
  PROVE  LET g == DefaultGas(ForkTxGasCap(f, found), ForkTxGasCap(f, again))
         IN /\ g \in Gas
            /\ (g.values = None) # (g.limit = None)
            /\ f \in CappedForks => GasOf(g) <= TxGasCap
<1> DEFINE cap == ForkTxGasCap(f, found)
           second == ForkTxGasCap(f, again)
<1>1. TxGasCap \in Nat /\ 16 * 1000000 <= TxGasCap
  BY GasAssumption DEF FALLBACK_BENCHMARK_GAS_MILLIONS, Million
<1>2. cap \in {None, TxGasCap} /\ second \in {None, TxGasCap}
  BY DEF ForkTxGasCap
<1>3. CASE cap = TxGasCap
  BY <1>1, <1>3 DEF DefaultGas, Gas, GasOf, None
<1>4. CASE cap = None
  <2>1. DefaultGasBenchmarkValues(second) \in Nat /\ DefaultGasBenchmarkValues(second) * 1000000 <= TxGasCap
    <3>1. CASE second = TxGasCap
      BY <1>1, <3>1 DEF DefaultGasBenchmarkValues, None, Million
    <3>2. CASE second = None
      BY <1>1, <3>2 DEF DefaultGasBenchmarkValues, FALLBACK_BENCHMARK_GAS_MILLIONS, None
    <3> QED
      BY <1>2, <3>1, <3>2
  <2>2. DefaultGas(cap, second) = [values |-> DefaultGasBenchmarkValues(second), limit |-> None]
    BY <1>4 DEF DefaultGas
  <2> HIDE DEF cap, second
  <2>3. /\ DefaultGas(cap, second).values = DefaultGasBenchmarkValues(second)
        /\ DefaultGas(cap, second).limit = None
        /\ DefaultGas(cap, second) \in Gas
    BY <2>1, <2>2 DEF Gas, None
  <2>4. GasOf(DefaultGas(cap, second)) <= TxGasCap
    BY <2>1, <2>3 DEF GasOf, Million
  <2> QED
    BY <2>1, <2>3, <2>4 DEF None, cap, second
<1> QED
  BY <1>2, <1>3, <1>4

-----------------------------------------------------------------------------
(* Type correctness.  A session that has not started its node has no docker *)
(* client yet.                                                              *)
Early == {"idle", "generate", "check", "prepare", "init"}

ClientInv == \A s \in Sessions : pc[s] \in Early => client[s] = "none"

TypeInv == TypeOK /\ ClientInv

(* What a session is used for has the type of a use.                       *)
LEMMA UseType ==
  ASSUME TypeOK, NEW s \in Sessions
  PROVE  /\ use[s] \in Uses
         /\ use[s].test \in Tests /\ use[s].fork \in Forks /\ use[s].after \subseteq Sessions
         /\ use[s].options \in Options /\ use[s].ports \subseteq Ports
         /\ DirOf(s) \in AllDirs
         /\ ChainOf(s) \in Chain
<1>1. use[s] \in Uses
  BY ScenariosAssumption DEF TypeOK
<1>2. DirOf(s) \in AllDirs
  BY <1>1 DEF DirOf, AllDirs, Uses
<1>3. ChainOf(s) \in Chain
  BY <1>2 DEF TypeOK, ChainOf
<1> QED
  BY <1>1, <1>2, <1>3 DEF Uses

(* The gas of a command has its type.                                      *)
LEMMA GasType ==
  ASSUME NEW f \in Forks, NEW found \in BOOLEAN, NEW again \in BOOLEAN, NEW o \in Options
  PROVE  ResolveBenchmarkGas(o, ForkTxGasCap(f, found), ForkTxGasCap(f, again)) \in Gas
<1>1. [values |-> o.values, limit |-> o.limit] \in Gas
  BY DEF Options, Gas
<1>2. DefaultGas(ForkTxGasCap(f, found), ForkTxGasCap(f, again)) \in Gas
  BY DefaultFits
<1> QED
  BY <1>1, <1>2 DEF ResolveBenchmarkGas

LEMMA TypeInit == Init => TypeInv
<1> SUFFICES ASSUME Init PROVE TypeInv
  OBVIOUS
<1>1. data \in [AllDirs -> Chain]
  <2>1. \A d \in AllDirs : (IF d \in Dirs THEN Existing[d] ELSE NoGenesis) \in Genesis \cup {NoGenesis}
    BY ExistingAssumption
  <2> QED
    BY <2>1 DEF Init, Chain
<1>2. gas \in [Sessions -> Gas]
  BY DEF Init, NoGas, Gas, None
<1>3. /\ use \in Scenarios
      /\ pc \in [Sessions -> Stages]
      /\ raised \in [Sessions -> BOOLEAN] /\ stopFailed \in [Sessions -> BOOLEAN]
      /\ genesis \in [Sessions -> Genesis \cup {NoGenesis}]
      /\ file \in [AllDirs -> Genesis \cup {NoGenesis}]
  BY DEF Init, Stages
<1>4. /\ rpc \in [Sessions -> Ports \cup {NoPort}]
      /\ auth \in [Sessions -> Ports \cup {NoPort}]
      /\ simPort \in [Sessions -> Ports \cup {NoPort}]
  BY DEF Init
<1>5. /\ client \in [Sessions -> {"none", "alive", "over"}]
      /\ container \in [Sessions -> {"none", "up", "gone"}]
      /\ sim \in [Sessions -> {"none", "alive", "listening", "over"}]
      /\ node \in [Sessions -> Sessions \cup {Nobody}]
      /\ builder \in [Sessions -> Sessions \cup {Nobody}]
      /\ raced \subseteq Sessions
  BY DEF Init
<1>6. \A s \in Sessions : client[s] = "none" /\ container[s] = "none" /\ pc[s] = "idle"
  BY DEF Init
<1> QED
  BY <1>1, <1>2, <1>3, <1>4, <1>5, <1>6 DEF TypeInv, TypeOK, ClientInv

LEMMA TypeNext == TypeInv /\ [Next]_vars => TypeInv'
<1> USE DEF TypeInv, TypeOK, ClientInv, Early, Stages
<1> SUFFICES ASSUME TypeInv, [Next]_vars PROVE TypeInv'
  OBVIOUS
<1>1. ASSUME NEW s \in Sessions, Plan(s) PROVE TypeInv'
  <2>1. gas' \in [Sessions -> Gas]
    <3>1. CASE use[s].cmd = "run"
      BY <1>1, <3>1 DEF Plan
    <3>2. CASE use[s].cmd # "run"
      <4>1. PICK found \in BOOLEAN, again \in BOOLEAN :
               gas' = [gas EXCEPT ![s] = ResolveBenchmarkGas(use[s].options,
                           ForkTxGasCap(use[s].fork, found), ForkTxGasCap(use[s].fork, again))]
        BY <1>1, <3>2 DEF Plan
      <4>2. ResolveBenchmarkGas(use[s].options, ForkTxGasCap(use[s].fork, found),
                                ForkTxGasCap(use[s].fork, again)) \in Gas
        BY GasType, UseType
      <4> QED
        BY <4>1, <4>2
    <3> QED
      BY <3>1, <3>2
  <2>2. genesis' \in [Sessions -> Genesis \cup {NoGenesis}]
    BY <1>1, UseType, BuildersType DEF Plan
  <2>3. pc' \in [Sessions -> Stages] /\ raised' \in [Sessions -> BOOLEAN]
    BY ZenonT(40), <1>1 DEF Plan, Step, Raise
  <2>4. UNCHANGED <<use, diskVars, portVars, procVars, seenVars, history>> /\ pc[s] = "idle"
        /\ \A t \in Sessions \ {s} : pc'[t] = pc[t]
    BY <1>1 DEF Plan, Step, Raise
  <2> QED
    BY <2>1, <2>2, <2>3, <2>4 DEF diskVars, portVars, procVars, seenVars, history
<1>2. ASSUME NEW s \in Sessions, Generate(s) \/ GenerateFails(s) PROVE TypeInv'
  <2>1. ActorGenesis(use[s].test, use[s].fork) \in Genesis
    BY UseType, BuildersType
  <2>2. data' \in [AllDirs -> Chain]
    <3>1. \A g \in Genesis \cup {NoGenesis} : [there |-> TRUE, genesis |-> g, built |-> {}] \in Chain
      BY DEF Chain
    <3>2. CASE Generate(s)
      BY <3>2, <2>1, <3>1 DEF Generate
    <3>3. CASE GenerateFails(s)
      BY <3>3, <3>1 DEF GenerateFails
    <3> QED
      BY <1>2, <3>2, <3>3
  <2>5. genesis' \in [Sessions -> Genesis \cup {NoGenesis}]
    BY <1>2, <2>1 DEF Generate, GenerateFails, planVars
  <2>3. pc' \in [Sessions -> Stages] /\ raised' \in [Sessions -> BOOLEAN] /\ pc[s] = "generate"
        /\ \A t \in Sessions \ {s} : pc'[t] = pc[t]
    BY ZenonT(40), <1>2 DEF Generate, GenerateFails, Step, Raise
  <2>4. UNCHANGED <<use, gas, file, portVars, procVars, seenVars, history>>
    BY <1>2 DEF Generate, GenerateFails, planVars
  <2> QED
    BY <2>2, <2>3, <2>4, <2>5 DEF portVars, procVars, seenVars, history
<1>3. ASSUME NEW s \in Sessions, Check(s) \/ Prepare(s) \/ StartSim(s) PROVE TypeInv'
  <2>1. FreePort(s) \subseteq Ports
    BY UseType DEF FreePort
  <2> QED
    BY <1>3, <2>1 DEF Check, Prepare, StartSim, Step, planVars, diskVars, portVars, procVars, seenVars, history
<1>4. ASSUME NEW s \in Sessions, CheckFails(s) \/ GethInitFails(s) \/ OsError(s) \/ NotReady(s)
                                 \/ SimNotReady(s) \/ BodyEnds(s) \/ ToolDies(s)
      PROVE TypeInv'
  <2>1. UNCHANGED <<planVars, diskVars, portVars, procVars, seenVars, history>>
    BY <1>4 DEF CheckFails, GethInitFails, OsError, NotReady, SimNotReady, BodyEnds, ToolDies
  <2>2. pc' \in [Sessions -> Stages] /\ raised' \in [Sessions -> BOOLEAN]
    BY ZenonT(40), <1>4 DEF CheckFails, GethInitFails, OsError, NotReady, SimNotReady, BodyEnds, AfterBody, ToolDies,
                Raise, Step
  <2>3. /\ \A t \in Sessions : t # s => pc'[t] = pc[t]
        /\ pc'[s] \notin Early /\ (pc'[s] = "ended" => pc[s] \in Early)
    BY <1>4 DEF CheckFails, GethInitFails, OsError, NotReady, SimNotReady, BodyEnds, AfterBody, ToolDies,
                Raise, Step
  <2>4. \A t \in Sessions : /\ pc'[t] \in Early => client[t] = "none"
                            /\ pc'[t] = "ended" => client[t] # "alive"
    BY <2>3
  <2>5. UNCHANGED <<use, genesis, gas, file, data, rpc, auth, simPort, client, container, sim,
                    node, builder, stopFailed, raced>>
    BY <2>1 DEF planVars, diskVars, portVars, procVars, seenVars, history
  <2> QED
    BY <2>2, <2>4, <2>5
<1>5. ASSUME NEW s \in Sessions, GethInit(s) PROVE TypeInv'
  <2>1. Initialised(s) \in Chain
    <3>1. ChainOf(s) \in Chain /\ file[DirOf(s)] \in Genesis \cup {NoGenesis}
      BY UseType
    <3> QED
      BY <3>1 DEF Initialised, Chain
  <2> QED
    BY <1>5, <2>1 DEF GethInit, InitTo, Step, planVars, portVars, procVars, seenVars, history
<1>5a. ASSUME NEW s \in Sessions, LateOsError(s) PROVE TypeInv'
  <2>1. Initialised(s) \in Chain /\ genesis[s] \in Genesis \cup {NoGenesis}
    <3>1. ChainOf(s) \in Chain /\ file[DirOf(s)] \in Genesis \cup {NoGenesis}
      BY UseType
    <3> QED
      BY <3>1 DEF Initialised, Chain
  <2>2. file' \in [AllDirs -> Genesis \cup {NoGenesis}] /\ data' \in [AllDirs -> Chain]
    BY <1>5a, <2>1 DEF LateOsError
  <2>3. pc' \in [Sessions -> Stages] /\ raised' \in [Sessions -> BOOLEAN] /\ pc[s] \in Early
        /\ pc'[s] = "ended" /\ \A t \in Sessions \ {s} : pc'[t] = pc[t]
    BY ZenonT(40), <1>5a DEF LateOsError, Step, Raise, Early
  <2>4. UNCHANGED <<planVars, portVars, procVars, seenVars, history>>
    BY <1>5a DEF LateOsError
  <2> QED
    BY <2>2, <2>3, <2>4 DEF planVars, portVars, procVars, seenVars, history
<1>6. ASSUME NEW s \in Sessions, Ready(s) \/ SimReady(s) PROVE TypeInv'
  BY <1>6 DEF Ready, SimReady, AfterReady, Step, planVars, diskVars, portVars, procVars, seenVars, history
<1>7. ASSUME NEW s \in Sessions, StopSim(s) \/ DockerStop(s) \/ DockerStopFails(s) \/ Reap(s)
      PROVE TypeInv'
  <2>1. /\ pc' \in [Sessions -> Stages] /\ pc[s] \notin Early
        /\ \A t \in Sessions : t # s => pc'[t] = pc[t]
        /\ pc'[s] \notin Early /\ (pc'[s] = "ended" => Reap(s))
    BY <1>7 DEF StopSim, DockerStop, DockerStopFails, Reap, Step
  <2>2. UNCHANGED <<raised, planVars, diskVars, portVars, seenVars, raced>>
    BY <1>7 DEF StopSim, DockerStop, DockerStopFails, Reap, history
  <2>3. /\ client' \in [Sessions -> {"none", "alive", "over"}]
        /\ container' \in [Sessions -> {"none", "up", "gone"}]
        /\ sim' \in [Sessions -> {"none", "alive", "listening", "over"}]
        /\ stopFailed' \in [Sessions -> BOOLEAN]
    <3>1. CASE StopSim(s)
      BY <3>1 DEF StopSim, history
    <3>2. CASE DockerStop(s)
      BY <3>2 DEF DockerStop, history
    <3>3. CASE DockerStopFails(s)
      <4>1. Up(s) \in BOOLEAN
        BY DEF Up
      <4> QED
        BY <3>3, <4>1 DEF DockerStopFails, procVars
    <3>4. CASE Reap(s)
      BY <3>4 DEF Reap, history
    <3> QED
      BY <1>7, <3>1, <3>2, <3>3, <3>4
  <2>4. /\ \A t \in Sessions : client'[t] = client[t] \/ client'[t] = "over"
        /\ \A t \in Sessions : container'[t] = container[t] \/ (container[t] = "up" /\ client'[t] = "over")
        /\ \A t \in Sessions : client'[t] # client[t] => t = s
        /\ Reap(s) => client'[s] = "over"
    <3>1. CASE StopSim(s) \/ DockerStopFails(s)
      BY <3>1 DEF StopSim, DockerStopFails, Reap, Step, procVars
    <3>2. CASE DockerStop(s)
      BY <3>2 DEF DockerStop, Reap, Step, Up
    <3>3. CASE Reap(s)
      BY <3>3 DEF Reap
    <3> QED
      BY <1>7, <3>1, <3>2, <3>3
  <2>5. ClientInv'
    BY <2>1, <2>4
  <2>6. \A t \in Sessions : /\ client'[t] = "none" => container'[t] = "none"
                            /\ pc'[t] = "ended" => client'[t] # "alive"
    BY <2>1, <2>4
  <2>7. TypeOK'
    <3>1. UNCHANGED <<raised, use, genesis, gas, file, data, rpc, auth, simPort, node, builder, raced>>
      BY <2>2 DEF planVars, diskVars, portVars, seenVars
    <3>2. /\ use' \in Scenarios /\ raised' \in [Sessions -> BOOLEAN]
          /\ genesis' \in [Sessions -> Genesis \cup {NoGenesis}] /\ gas' \in [Sessions -> Gas]
          /\ file' \in [AllDirs -> Genesis \cup {NoGenesis}] /\ data' \in [AllDirs -> Chain]
      BY <3>1
    <3>3. /\ rpc' \in [Sessions -> Ports \cup {NoPort}] /\ auth' \in [Sessions -> Ports \cup {NoPort}]
          /\ simPort' \in [Sessions -> Ports \cup {NoPort}]
          /\ node' \in [Sessions -> Sessions \cup {Nobody}]
          /\ builder' \in [Sessions -> Sessions \cup {Nobody}] /\ raced' \subseteq Sessions
      BY <3>1
    <3> QED
      BY <3>2, <3>3, <2>1, <2>3, <2>6
  <2> QED
    BY <2>5, <2>7
<1>8. ASSUME NEW s \in Sessions, ContainerStarts(s) \/ ContainerExits(s) PROVE TypeInv'
  <2>1. raced' \subseteq Sessions
    BY <1>8 DEF ContainerStarts, ContainerExits, Racing, history
  <2>2. /\ container' \in [Sessions -> {"none", "up", "gone"}]
        /\ client' \in [Sessions -> {"none", "alive", "over"}]
    BY <1>8 DEF ContainerStarts, ContainerExits
  <2>3. client[s] # "none"
    BY <1>8 DEF ContainerStarts, ContainerExits, Up
  <2>4. UNCHANGED <<pc, raised, planVars, diskVars, portVars, sim, seenVars, stopFailed>>
    BY <1>8 DEF ContainerStarts, ContainerExits, history
  <2>5. /\ \A t \in Sessions : t # s => client'[t] = client[t] /\ container'[t] = container[t]
        /\ client'[s] # "none" /\ (client'[s] = client[s] \/ client'[s] = "over")
    BY <1>8, <2>3 DEF ContainerStarts, ContainerExits
  <2>6. \A t \in Sessions : /\ pc[t] \in Early => client'[t] = "none"
                            /\ client'[t] = "none" => container'[t] = "none"
                            /\ pc[t] = "ended" => client'[t] # "alive"
    BY <2>3, <2>5
  <2> QED
    BY <2>1, <2>2, <2>4, <2>6 DEF planVars, diskVars, portVars, seenVars
<1>11. ASSUME NEW s \in Sessions, SimListens(s) \/ SimExits(s) PROVE TypeInv'
  <2>1. raced' \subseteq Sessions
    BY <1>11 DEF SimListens, SimExits, Racing, history
  <2>2. sim' \in [Sessions -> {"none", "alive", "listening", "over"}]
    BY <1>11 DEF SimListens, SimExits
  <2>3. UNCHANGED <<pc, raised, planVars, diskVars, portVars, client, container, seenVars, stopFailed>>
    BY <1>11 DEF SimListens, SimExits, history
  <2> QED
    BY <2>1, <2>2, <2>3 DEF planVars, diskVars, portVars, seenVars
<1>9. ASSUME NEW s \in Sessions, Build(s) PROVE TypeInv'
  <2>1. PICK u \in Sessions : data' = [data EXCEPT ![DirOf(s)].built = @ \cup {u}]
    BY <1>9 DEF Build
  <2>2. data' \in [AllDirs -> Chain]
    <3>1. \A d \in AllDirs : data[d] \in Chain /\ [data[d] EXCEPT !.built = @ \cup {u}] \in Chain
      BY DEF Chain
    <3> QED
      BY <2>1, <3>1
  <2> QED
    BY <1>9, <2>2 DEF Build, planVars, portVars, procVars, seenVars, history
<1>10. CASE UNCHANGED vars
  BY <1>10 DEF vars, planVars, diskVars, portVars, procVars, seenVars, history
<1> QED
  BY <1>1, <1>2, <1>3, <1>4, <1>5, <1>5a, <1>6, <1>7, <1>8, <1>9, <1>10, <1>11 DEF Next, Own

(* TypeOK of the specification, for every instance.                        *)
THEOREM TypeCorrect == Spec => []TypeOK
<1>1. TypeInv => TypeOK
  BY DEF TypeInv
<1> QED
  BY <1>1, TypeInit, TypeNext, PTL DEF Spec

-----------------------------------------------------------------------------
(* What the commands derive.  The genesis and the gas of a session change   *)
(* in Plan and Generate only.                                               *)
LEMMA DerivedFrame ==
  ASSUME TypeOK, [Next]_vars
  PROVE  /\ use' = use
         /\ \/ \E s \in Sessions : Plan(s) \/ Generate(s)
            \/ /\ UNCHANGED <<genesis, gas>>
               /\ \A t \in Sessions : pc[t] = "idle" <=> pc'[t] = "idle"
<1>1. ASSUME NEW s \in Sessions, Plan(s) \/ Generate(s) PROVE use' = use
  BY <1>1 DEF Plan, Generate
<1>2. ASSUME NEW s \in Sessions,
             GenerateFails(s) \/ Check(s) \/ CheckFails(s) \/ Prepare(s) \/ OsError(s) \/ GethInit(s)
             \/ GethInitFails(s) \/ Ready(s) \/ NotReady(s) \/ StartSim(s) \/ SimReady(s)
             \/ SimNotReady(s) \/ BodyEnds(s) \/ StopSim(s) \/ DockerStop(s) \/ DockerStopFails(s)
             \/ Reap(s) \/ ToolDies(s) \/ LateOsError(s)
      PROVE  /\ UNCHANGED planVars
             /\ \A t \in Sessions : pc[t] = "idle" <=> pc'[t] = "idle"
  <2>1. UNCHANGED planVars
    BY <1>2 DEF GenerateFails, Check, CheckFails, Prepare, OsError, GethInit, InitTo, GethInitFails,
                Ready, NotReady, StartSim, SimReady, SimNotReady, BodyEnds, StopSim, DockerStop,
                DockerStopFails, Reap, ToolDies, LateOsError
  <2>2. \E to \in Stages \ {"idle"} : pc[s] # "idle" /\ pc' = [pc EXCEPT ![s] = to]
    BY <1>2 DEF GenerateFails, Check, CheckFails, Prepare, OsError, GethInit, InitTo, GethInitFails,
                Ready, NotReady, StartSim, SimReady, SimNotReady, BodyEnds, StopSim, DockerStop,
                DockerStopFails, Reap, ToolDies, LateOsError, AfterReady, AfterBody, Step, Raise, Stages
  <2> QED
    BY <2>1, <2>2 DEF TypeOK
<1>3. ASSUME NEW s \in Sessions,
             ContainerStarts(s) \/ ContainerExits(s) \/ Build(s) \/ SimListens(s) \/ SimExits(s)
      PROVE  UNCHANGED <<pc, planVars>>
  BY <1>3 DEF ContainerStarts, ContainerExits, Build, SimListens, SimExits
<1>4. CASE UNCHANGED vars
  BY <1>4 DEF vars, planVars
<1> QED
  BY <1>1, <1>2, <1>3, <1>4 DEF Next, Own, planVars

GenesisInv ==
    \A s \in Sessions :
        LET u == use[s] IN
        genesis[s] # NoGenesis =>
            \/ genesis[s] = FixtureGenesis(u.test, u.fork)
            \/ u.fork \in Listed /\ genesis[s] = DevnetGenesis(u.test, u.fork)
            \/ genesis[s] = ActorGenesis(u.test, u.fork)

GasGood(s) ==
    LET o == use[s].options
        g == gas[s]
    IN IF o.values # None \/ o.limit # None \/ ~IsBenchmarkRun(o)
       THEN g.values = o.values /\ g.limit = o.limit
       ELSE /\ (g.values = None) # (g.limit = None)
            /\ use[s].fork \in CappedForks => GasOf(g) <= TxGasCap

GasInv ==
    \A s \in Sessions :
        /\ pc[s] = "idle" => genesis[s] = NoGenesis
        /\ pc[s] # "idle" /\ use[s].cmd # "run" => GasGood(s)

DerivedInv == GenesisInv /\ GasInv

LEMMA DerivedNext == TypeOK /\ TypeOK' /\ DerivedInv /\ [Next]_vars => DerivedInv'
<1> SUFFICES ASSUME TypeOK, TypeOK', DerivedInv, [Next]_vars PROVE DerivedInv'
  OBVIOUS
<1>1. ASSUME NEW s \in Sessions, Plan(s) PROVE DerivedInv'
  <2>1. use' = use /\ pc[s] = "idle" /\ pc'[s] # "idle" /\ genesis[s] = NoGenesis
        /\ \A t \in Sessions \ {s} : pc'[t] = pc[t] /\ genesis'[t] = genesis[t] /\ gas'[t] = gas[t]
    BY <1>1 DEF Plan, Step, Raise, TypeOK, DerivedInv, GasInv
  <2>2. GenesisInv'
    <3>1. \/ genesis'[s] = NoGenesis
          \/ genesis'[s] = FixtureGenesis(use[s].test, use[s].fork)
          \/ use[s].fork \in Listed /\ genesis'[s] = DevnetGenesis(use[s].test, use[s].fork)
      BY <1>1, <2>1 DEF Plan, TypeOK
    <3> QED
      BY <2>1, <3>1 DEF GenesisInv, DerivedInv
  <2>3. GasInv'
    <3>1. ASSUME use[s].cmd # "run" PROVE GasGood(s)'
      <4>1. PICK found \in BOOLEAN, again \in BOOLEAN :
               gas' = [gas EXCEPT ![s] = ResolveBenchmarkGas(use[s].options,
                           ForkTxGasCap(use[s].fork, found), ForkTxGasCap(use[s].fork, again))]
        BY <1>1, <3>1 DEF Plan
      <4>2. gas'[s] = ResolveBenchmarkGas(use'[s].options,
                           ForkTxGasCap(use'[s].fork, found), ForkTxGasCap(use'[s].fork, again))
        BY <4>1, <2>1 DEF TypeOK
      <4>3. use'[s].fork \in Forks /\ use'[s].options \in Options
        BY <2>1, UseType
      <4>4. LET g == DefaultGas(ForkTxGasCap(use'[s].fork, found), ForkTxGasCap(use'[s].fork, again))
            IN /\ (g.values = None) # (g.limit = None)
               /\ use'[s].fork \in CappedForks => GasOf(g) <= TxGasCap
        BY <4>3, DefaultFits
      <4> QED
        BY <4>2, <4>3, <4>4 DEF GasGood, ResolveBenchmarkGas
    <3>2. \A t \in Sessions \ {s} : GasGood(t) => GasGood(t)'
      BY <2>1 DEF GasGood
    <3> QED
      BY <2>1, <3>1, <3>2 DEF GasInv, DerivedInv
  <2> QED
    BY <2>2, <2>3 DEF DerivedInv
<1>2. ASSUME NEW s \in Sessions, Generate(s) PROVE DerivedInv'
  <2>1. /\ use' = use /\ gas' = gas /\ pc[s] # "idle"
        /\ genesis' = [genesis EXCEPT ![s] = ActorGenesis(use[s].test, use[s].fork)]
        /\ \A t \in Sessions : pc'[t] = "idle" <=> pc[t] = "idle"
    BY <1>2 DEF Generate, Step, TypeOK
  <2>2. GenesisInv'
    BY <2>1 DEF GenesisInv, DerivedInv, TypeOK
  <2>3. \A t \in Sessions : GasGood(t) => GasGood(t)'
    BY <2>1 DEF GasGood
  <2>4. GasInv'
    BY <2>1, <2>3 DEF GasInv, DerivedInv, TypeOK
  <2> QED
    BY <2>2, <2>4 DEF DerivedInv
<1>3. CASE UNCHANGED <<use, genesis, gas>> /\ \A t \in Sessions : pc[t] = "idle" <=> pc'[t] = "idle"
  <2>1. GenesisInv'
    BY <1>3 DEF GenesisInv, DerivedInv
  <2>2. \A t \in Sessions : GasGood(t) => GasGood(t)'
    BY <1>3 DEF GasGood
  <2> QED
    BY <1>3, <2>1, <2>2 DEF GasInv, DerivedInv
<1> QED
  BY <1>1, <1>2, <1>3, DerivedFrame

(* DerivedInv holds throughout.                                            *)
LEMMA Derived == Spec => [](TypeOK /\ DerivedInv)
<1>1. Init => DerivedInv
  BY DEF Init, DerivedInv, GenesisInv, GasInv
<1> QED
  BY <1>1, TypeCorrect, DerivedNext, PTL DEF Spec

(* ForksAsTargeted: both builders, and the generated datadir of `bloat`,   *)
(* enable exactly the forks a listed target starts with.                   *)
THEOREM ForksHold == Spec => []ForksAsTargeted
<1>1. TypeOK /\ DerivedInv => ForksAsTargeted
  BY ForksOfBuilders DEF DerivedInv, GenesisInv, ForksAsTargeted
<1> QED
  BY <1>1, Derived, PTL

(* GenesisBoots: no session writes a genesis of a listed fork that the node *)
(* refuses.                                                                *)
THEOREM BootHolds == Spec => []GenesisBoots
<1>1. TypeOK /\ DerivedInv => GenesisBoots
  BY BuildersBoot DEF DerivedInv, GenesisInv, GenesisBoots
<1> QED
  BY <1>1, Derived, PTL

(* GasFits: options are kept, and the default gas of a benchmark run fits   *)
(* under the cap of its fork, for every outcome of the two cap lookups.     *)
THEOREM GasHolds == Spec => []GasFits
<1>1. TypeOK /\ DerivedInv => GasFits
  BY DEF DerivedInv, GasInv, GasGood, GasFits
<1> QED
  BY <1>1, Derived, PTL

-----------------------------------------------------------------------------
(* Who talks to whom, and what is left when a session has ended.            *)

(* What holds of one session at each stage: the simbuild is there only      *)
(* between `sim` and `simstop`, a session past its wait knows a node or has *)
(* raised, and a container that answered its own session is not up after    *)
(* docker stop unless that failed.                                          *)
Local(s) ==
    /\ pc[s] \in Early \cup {"waiting", "sim"} => sim[s] = "none"
    /\ pc[s] \in {"sim", "simwait"} => use[s].simbuild
    /\ pc[s] = "body" /\ ~use[s].simbuild => sim[s] = "none"
    /\ pc[s] \in {"stop", "reap", "ended"} => sim[s] \in {"none", "over"}
    /\ pc[s] \in {"init", "waiting"} => rpc[s] \in Ports
    /\ pc[s] \notin Early \cup {"ended", "dead"} => client[s] # "none"
    /\ pc[s] \in Early \cup {"waiting"} => node[s] = Nobody
    /\ node[s] = s => container[s] # "none"
    /\ pc[s] \in {"sim", "simwait", "body", "simstop"} => node[s] # Nobody
    /\ pc[s] \in {"stop", "reap", "ended"} /\ client[s] # "none" /\ node[s] = Nobody => raised[s]
    /\ pc[s] \in {"reap", "ended"} /\ Up(s) => stopFailed[s] \/ node[s] # s
    /\ node[s] \notin {s, Nobody} \/ builder[s] \notin {s, Nobody} => s \in raced

(* A port a session is waiting on, and another process is bound to, was     *)
(* taken after the session had found it free.                               *)
PairInv ==
    \A s, t \in Sessions :
        s # t =>
            /\ pc[s] \in {"init", "waiting"} /\ Up(t) /\ rpc[s] \in {rpc[t], auth[t]} => s \in raced
            /\ pc[s] = "simwait" /\ sim[t] = "listening" /\ simPort[s] = simPort[t] => s \in raced

PeerInv == PairInv /\ \A s \in Sessions : Local(s)

\* An action of s, or of its node or simbuild, is about s alone.
OthersKept(s) ==
    /\ use' = use /\ raced \subseteq raced'
    /\ \A t \in Sessions \ {s} :
           /\ pc'[t] = pc[t] /\ raised'[t] = raised[t] /\ stopFailed'[t] = stopFailed[t]
           /\ rpc'[t] = rpc[t] /\ client'[t] = client[t] /\ container'[t] = container[t]
           /\ sim'[t] = sim[t] /\ node'[t] = node[t] /\ builder'[t] = builder[t]

(* The state of the other sessions is as it was.                           *)
LEMMA LocalKept ==
  ASSUME NEW s \in Sessions, OthersKept(s), NEW t \in Sessions \ {s}, Local(t)
  PROVE  Local(t)'
<1>1. /\ use'[t] = use[t] /\ (t \in raced => t \in raced')
      /\ pc'[t] = pc[t] /\ raised'[t] = raised[t] /\ stopFailed'[t] = stopFailed[t]
      /\ rpc'[t] = rpc[t] /\ client'[t] = client[t] /\ container'[t] = container[t]
      /\ sim'[t] = sim[t] /\ node'[t] = node[t] /\ builder'[t] = builder[t]
  BY DEF OthersKept
<1> QED
  BY <1>1 DEF Local, Up

(* No new pair, unless a port is chosen or bound.                          *)
LEMMA PairKept ==
  ASSUME PairInv, UNCHANGED portVars, raced \subseteq raced',
         \A t \in Sessions : /\ pc'[t] \in {"init", "waiting"} => pc[t] \in {"init", "waiting"}
                             /\ pc'[t] = "simwait" => pc[t] = "simwait"
                             /\ container'[t] = "up" => container[t] = "up"
                             /\ sim'[t] = "listening" => sim[t] = "listening"
  PROVE  PairInv'
BY DEF PairInv, Up, portVars

(* Local of the session that acts, and no new pair, are enough.             *)
LEMMA PeerKept ==
  ASSUME PeerInv, NEW s \in Sessions, OthersKept(s), Local(s)', PairInv'
  PROVE  PeerInv'
BY LocalKept DEF PeerInv

(* The actions that change nothing but the stage, the exception, what the   *)
(* session derives and what is on disk.                                     *)
LEMMA ControlPeer ==
  ASSUME TypeInv, PeerInv, NEW s \in Sessions,
         \/ Plan(s) \/ Generate(s) \/ GenerateFails(s) \/ CheckFails(s) \/ OsError(s)
         \/ GethInitFails(s) \/ NotReady(s) \/ SimNotReady(s) \/ BodyEnds(s) \/ ToolDies(s)
         \/ LateOsError(s)
  PROVE  PeerInv'
<1> USE DEF TypeInv, TypeOK
<1>1. UNCHANGED <<use, rpc, auth, simPort, client, container, sim, node, builder, stopFailed, raced>>
  BY DEF Plan, Generate, GenerateFails, CheckFails, OsError, GethInitFails, NotReady, SimNotReady,
         BodyEnds, ToolDies, LateOsError, planVars, portVars, procVars, seenVars, history
<1>2. /\ \A t \in Sessions \ {s} : pc'[t] = pc[t] /\ raised'[t] = raised[t]
      /\ raised[s] => raised'[s]
  BY DEF Plan, Generate, GenerateFails, CheckFails, OsError, GethInitFails, NotReady, SimNotReady,
         BodyEnds, ToolDies, LateOsError, Step, Raise
<1>3. \/ pc[s] \in Early /\ pc'[s] \in {"generate", "check", "prepare", "ended"}
      \/ pc[s] = "sim" /\ pc'[s] = "stop"
      \/ pc[s] = "waiting" /\ pc'[s] = "stop" /\ raised'[s]
      \/ pc[s] = "simwait" /\ pc'[s] = "simstop"
      \/ pc[s] = "body" /\ pc'[s] = AfterBody(s)
      \/ pc'[s] = "dead"
  BY DEF Plan, Generate, GenerateFails, CheckFails, OsError, GethInitFails, NotReady, SimNotReady,
         BodyEnds, ToolDies, LateOsError, Step, Raise, Early
<1>4. OthersKept(s)
  BY <1>1, <1>2 DEF OthersKept
<1>5. Local(s)'
  BY <1>1, <1>2, <1>3 DEF PeerInv, Local, ClientInv, AfterBody, Early, Up
<1>6. PairInv'
  <2>1. \A t \in Sessions : /\ pc'[t] \in {"init", "waiting"} => pc[t] \in {"init", "waiting"}
                            /\ pc'[t] = "simwait" => pc[t] = "simwait"
    BY <1>2, <1>3 DEF AfterBody, Early
  <2> QED
    BY <1>1, <2>1, PairKept DEF PeerInv, portVars
<1> QED
  BY <1>4, <1>5, <1>6, PeerKept

(* The steps that choose ports: nobody else is bound to them.              *)
LEMMA PortPeer ==
  ASSUME TypeInv, PeerInv, NEW s \in Sessions, Check(s) \/ Prepare(s) \/ StartSim(s)
  PROVE  PeerInv'
<1> USE DEF TypeInv, TypeOK
<1>1. /\ UNCHANGED <<use, raised, container, node, builder, stopFailed, raced>>
      /\ FreePort(s) \subseteq Ports
  BY UseType DEF Check, Prepare, StartSim, planVars, procVars, seenVars, history, FreePort
<1>2. \A t \in Sessions \ {s} : /\ pc'[t] = pc[t] /\ rpc'[t] = rpc[t] /\ auth'[t] = auth[t]
                                /\ simPort'[t] = simPort[t] /\ client'[t] = client[t] /\ sim'[t] = sim[t]
  <2>1. CASE Check(s)
    BY <2>1 DEF Check, Step
  <2>2. CASE Prepare(s)
    BY <2>2 DEF Prepare, Step, procVars
  <2>3. CASE StartSim(s)
    BY <2>3 DEF StartSim, Step
  <2> QED
    BY <2>1, <2>2, <2>3
<1>3. OthersKept(s)
  BY <1>1, <1>2 DEF OthersKept
<1>4. CASE Check(s) \/ Prepare(s)
  <2>1. /\ UNCHANGED <<sim, simPort>> /\ pc[s] \in Early /\ pc'[s] \in {"init", "waiting"}
        /\ rpc'[s] \in FreePort(s) /\ (pc'[s] = "waiting" => client'[s] = "alive")
    BY <1>4 DEF Check, Prepare, Step, procVars, Early
  <2>2. Local(s)'
    BY <1>1, <2>1 DEF PeerInv, Local, Early, Up
  <2>3. container[s] # "up" /\ rpc'[s] \notin Bound
    BY <2>1 DEF ClientInv, FreePort
  <2>4. \A t \in Sessions \ {s} : Up(t) => rpc'[s] \notin {rpc[t], auth[t]}
    BY <1>1, <2>1, <2>3 DEF Bound
  <2>5. PairInv'
    BY <1>1, <1>2, <2>1, <2>3, <2>4 DEF PairInv, PeerInv, Up
  <2> QED
    BY <1>3, <2>2, <2>5, PeerKept
<1>5. CASE StartSim(s)
  <2>1. /\ UNCHANGED <<rpc, auth, client>> /\ pc[s] = "sim" /\ pc'[s] = "simwait"
        /\ simPort'[s] \in FreePort(s) /\ sim'[s] = "alive"
    BY <1>5 DEF StartSim, Step
  <2>2. Local(s)'
    BY <1>1, <2>1 DEF PeerInv, Local, Early, Up
  <2>3. \A t \in Sessions \ {s} : sim[t] = "listening" => simPort'[s] # simPort[t]
    BY <1>1, <2>1 DEF Bound, FreePort
  <2>4. PairInv'
    BY <1>1, <1>2, <2>1, <2>3 DEF PairInv, PeerInv, Up
  <2> QED
    BY <1>3, <2>2, <2>4, PeerKept
<1> QED
  BY <1>4, <1>5

(* The node is started, and the answers of the two polls: whoever answers   *)
(* in place of the session's own has taken its port.                        *)
LEMMA AnswerPeer ==
  ASSUME TypeInv, PeerInv, NEW s \in Sessions, GethInit(s) \/ Ready(s) \/ SimReady(s)
  PROVE  PeerInv'
<1> USE DEF TypeInv, TypeOK
<1>1. UNCHANGED <<use, raised, rpc, auth, simPort, container, sim, stopFailed, raced>>
  BY DEF GethInit, InitTo, Ready, SimReady, planVars, portVars, procVars, history
<1>2. \A t \in Sessions \ {s} : /\ pc'[t] = pc[t] /\ client'[t] = client[t]
                                /\ node'[t] = node[t] /\ builder'[t] = builder[t]
  BY DEF GethInit, InitTo, Ready, SimReady, Step, seenVars, procVars
<1>3. OthersKept(s)
  BY <1>1, <1>2 DEF OthersKept
<1>4. PairInv'
  <2>1. \A t \in Sessions : /\ pc'[t] \in {"init", "waiting"} => pc[t] \in {"init", "waiting"}
                            /\ pc'[t] = "simwait" => pc[t] = "simwait"
    <3>1. /\ pc'[s] \in {"init", "waiting"} => pc[s] \in {"init", "waiting"}
          /\ pc'[s] = "simwait" => pc[s] = "simwait"
      BY DEF GethInit, InitTo, Ready, SimReady, Step, AfterReady
    <3> QED
      BY <1>2, <3>1
  <2> QED
    BY <1>1, <2>1, PairKept DEF PeerInv, portVars
<1>5. Local(s)'
  <2>1. CASE GethInit(s)
    <3>1. /\ pc[s] = "init" /\ pc'[s] = "waiting" /\ node' = node /\ builder' = builder
          /\ client'[s] = "alive"
      BY <2>1 DEF GethInit, InitTo, Step, seenVars
    <3> QED
      BY <1>1, <3>1 DEF PeerInv, Local, Early, Up
  <2>2. CASE Ready(s)
    <3>1. PICK t \in Sessions : Up(t) /\ rpc[t] = rpc[s] /\ node'[s] = t
      BY <2>2 DEF Ready
    <3>2. /\ pc[s] = "waiting" /\ pc'[s] = IF use[s].simbuild THEN "sim" ELSE "body"
          /\ client' = client /\ builder' = builder
      BY <2>2 DEF Ready, Step, AfterReady, procVars
    <3>3. t # s => s \in raced
      BY <3>1, <3>2 DEF PeerInv, PairInv
    <3>4. t # Nobody
      BY NamesAssumption
    <3> QED
      BY <1>1, <3>1, <3>2, <3>3, <3>4 DEF PeerInv, Local, Early, Up
  <2>3. CASE SimReady(s)
    <3>1. PICK t \in Sessions : sim[t] = "listening" /\ simPort[t] = simPort[s] /\ builder'[s] = t
      BY <2>3 DEF SimReady
    <3>2. pc[s] = "simwait" /\ pc'[s] = "body" /\ client' = client /\ node' = node
      BY <2>3 DEF SimReady, Step, procVars
    <3>3. t # s => s \in raced
      BY <3>1, <3>2 DEF PeerInv, PairInv
    <3> QED
      BY <1>1, <3>1, <3>2, <3>3 DEF PeerInv, Local, Early, Up
  <2> QED
    BY <2>1, <2>2, <2>3
<1> QED
  BY <1>3, <1>4, <1>5, PeerKept

(* The finally clauses.                                                    *)
LEMMA TeardownPeer ==
  ASSUME TypeInv, PeerInv, NEW s \in Sessions,
         StopSim(s) \/ DockerStop(s) \/ DockerStopFails(s) \/ Reap(s)
  PROVE  PeerInv'
<1> USE DEF TypeInv, TypeOK
<1>1. UNCHANGED <<use, raised, rpc, auth, simPort, node, builder, raced>>
  BY DEF StopSim, DockerStop, DockerStopFails, Reap, planVars, portVars, seenVars, history
<1>2. /\ \A t \in Sessions \ {s} : /\ pc'[t] = pc[t] /\ client'[t] = client[t]
                                   /\ container'[t] = container[t] /\ sim'[t] = sim[t]
                                   /\ stopFailed'[t] = stopFailed[t]
  <2>1. CASE StopSim(s)
    BY <2>1 DEF StopSim, Step, history
  <2>2. CASE DockerStop(s)
    BY <2>2 DEF DockerStop, Step, history
  <2>3. CASE DockerStopFails(s)
    BY <2>3 DEF DockerStopFails, Step, procVars
  <2>4. CASE Reap(s)
    BY <2>4 DEF Reap, Step, history
  <2> QED
    BY <2>1, <2>2, <2>3, <2>4
<1>3. OthersKept(s)
  BY <1>1, <1>2 DEF OthersKept
<1>4. Local(s)'
  <2>1. CASE StopSim(s)
    <3>1. /\ UNCHANGED <<client, container, stopFailed>> /\ sim'[s] = "over"
          /\ pc[s] = "simstop" /\ pc'[s] = "stop"
      BY <2>1 DEF StopSim, Step, history
    <3> QED
      BY <1>1, <3>1 DEF PeerInv, Local, Early, Up
  <2>2. CASE DockerStop(s)
    <3>1. /\ UNCHANGED <<sim, stopFailed>> /\ pc[s] = "stop" /\ pc'[s] = "reap"
          /\ container'[s] # "up"
          /\ container[s] # "none" => container'[s] # "none"
          /\ client'[s] = "none" <=> client[s] = "none"
      BY <2>2 DEF DockerStop, Step, history, Up
    <3> QED
      BY <1>1, <3>1 DEF PeerInv, Local, Early, Up
  <2>3. CASE DockerStopFails(s)
    <3>1. /\ UNCHANGED <<sim, client, container>> /\ pc[s] = "stop" /\ pc'[s] = "reap"
          /\ Up(s) => stopFailed'[s]
      BY <2>3 DEF DockerStopFails, Step, procVars
    <3> QED
      BY <1>1, <3>1 DEF PeerInv, Local, Early, Up
  <2>4. CASE Reap(s)
    <3>1. UNCHANGED <<sim, container, stopFailed>> /\ pc[s] = "reap" /\ pc'[s] = "ended"
      BY <2>4 DEF Reap, Step, history
    <3> QED
      BY <1>1, <3>1 DEF PeerInv, Local, Early, Up
  <2> QED
    BY <2>1, <2>2, <2>3, <2>4
<1>5. PairInv'
  <2>1. /\ pc'[s] \in {"stop", "reap", "ended"} /\ (container'[s] = "up" => container[s] = "up")
        /\ (sim'[s] = "listening" => sim[s] = "listening")
    <3>1. CASE StopSim(s)
      BY <3>1 DEF StopSim, Step
    <3>2. CASE DockerStop(s)
      BY <3>2 DEF DockerStop, Step
    <3>3. CASE DockerStopFails(s)
      BY <3>3 DEF DockerStopFails, Step, procVars
    <3>4. CASE Reap(s)
      BY <3>4 DEF Reap, Step
    <3> QED
      BY <3>1, <3>2, <3>3, <3>4
  <2>2. \A t \in Sessions : /\ pc'[t] \in {"init", "waiting"} => pc[t] \in {"init", "waiting"}
                            /\ pc'[t] = "simwait" => pc[t] = "simwait"
                            /\ container'[t] = "up" => container[t] = "up"
                            /\ sim'[t] = "listening" => sim[t] = "listening"
    BY <1>2, <2>1
  <2> QED
    BY <1>1, <2>2, PairKept DEF PeerInv, portVars
<1> QED
  BY <1>3, <1>4, <1>5, PeerKept

(* Node and simbuild: who binds a port puts those that found it free among  *)
(* the raced.                                                               *)
LEMMA ServerPeer ==
  ASSUME TypeInv, PeerInv, NEW s \in Sessions,
         ContainerStarts(s) \/ ContainerExits(s) \/ Build(s) \/ SimListens(s) \/ SimExits(s)
  PROVE  PeerInv'
<1> USE DEF TypeInv, TypeOK
<1>1. UNCHANGED <<pc, use, raised, rpc, auth, simPort, node, builder, stopFailed>> /\ raced \subseteq raced'
  BY DEF ContainerStarts, ContainerExits, Build, SimListens, SimExits, planVars, portVars, seenVars, history
<1>2. \A t \in Sessions \ {s} : /\ client'[t] = client[t] /\ container'[t] = container[t]
                                /\ sim'[t] = sim[t]
  BY DEF ContainerStarts, ContainerExits, Build, SimListens, SimExits, procVars
<1>3. OthersKept(s)
  BY <1>1, <1>2 DEF OthersKept
<1>4. CASE ContainerStarts(s)
  <2>1. /\ client' = client /\ sim' = sim /\ client[s] = "alive" /\ container[s] = "none"
        /\ container'[s] = "up" /\ raced' = raced \cup Racing({rpc[s], auth[s]} \cap Ports, s)
    BY <1>4 DEF ContainerStarts
  <2>2. Local(s)'
    BY <1>1, <2>1 DEF PeerInv, Local, Early, Up
  <2>3. \A t \in Sessions \ {s} :
            pc[t] \in {"init", "waiting"} /\ rpc[t] \in {rpc[s], auth[s]} => t \in raced'
    BY <2>1 DEF PeerInv, Local, Racing
  <2>4. ASSUME NEW u \in Sessions, NEW t \in Sessions, u # t
        PROVE  /\ pc'[u] \in {"init", "waiting"} /\ Up(t)' /\ rpc'[u] \in {rpc'[t], auth'[t]} => u \in raced'
               /\ pc'[u] = "simwait" /\ sim'[t] = "listening" /\ simPort'[u] = simPort'[t] => u \in raced'
    <3>1. CASE t = s
      BY <1>1, <2>1, <2>3, <2>4, <3>1 DEF PairInv, PeerInv
    <3>2. CASE t # s
      BY <1>1, <1>2, <2>1, <2>4, <3>2 DEF PairInv, PeerInv, Up
    <3> QED
      BY <3>1, <3>2
  <2>5. PairInv'
    BY <2>4 DEF PairInv
  <2> QED
    BY <1>3, <2>2, <2>5, PeerKept
<1>5. CASE SimListens(s)
  <2>1. /\ client' = client /\ container' = container /\ sim[s] = "alive"
        /\ sim'[s] = "listening" /\ raced' = raced \cup Racing({simPort[s]}, s)
    BY <1>5 DEF SimListens
  <2>2. Local(s)'
    BY <1>1, <2>1 DEF PeerInv, Local, Early, Up
  <2>3. \A t \in Sessions \ {s} : pc[t] = "simwait" /\ simPort[t] = simPort[s] => t \in raced'
    BY <2>1 DEF Racing
  <2>4. PairInv'
    BY ZenonT(40), <1>1, <1>2, <2>1, <2>3 DEF PairInv, PeerInv, Up
  <2> QED
    BY <1>3, <2>2, <2>4, PeerKept
<1>6. CASE ContainerExits(s) \/ Build(s) \/ SimExits(s)
  <2>1. /\ container'[s] \in {container[s], "gone"} /\ sim'[s] \in {sim[s], "over"}
        /\ container[s] = "none" /\ container'[s] # "none" => client[s] # "none"
        /\ client'[s] = "none" <=> client[s] = "none"
        /\ sim'[s] # sim[s] => sim[s] # "none"
    BY <1>6 DEF ContainerExits, Build, SimExits, procVars, Up
  <2>2. Local(s)'
    BY <1>1, <2>1 DEF PeerInv, Local, Early, Up
  <2>3. PairInv'
    BY <1>1, <1>2, <2>1, PairKept DEF PeerInv, portVars
  <2> QED
    BY <1>3, <2>2, <2>3, PeerKept
<1> QED
  BY <1>4, <1>5, <1>6

LEMMA Peers == Spec => [](TypeInv /\ PeerInv)
<1>1. Init => PeerInv
  BY NamesAssumption DEF Init, PeerInv, PairInv, Local, Early, Up
<1>2. TypeInv /\ PeerInv /\ [Next]_vars => PeerInv'
  <2> SUFFICES ASSUME TypeInv, PeerInv, [Next]_vars PROVE PeerInv'
    OBVIOUS
  <2>1. CASE UNCHANGED vars
    <3>1. UNCHANGED <<pc, raised, use, rpc, auth, simPort, client, container, sim, node, builder,
                      stopFailed, raced>>
      BY <2>1 DEF vars, planVars, portVars, procVars, seenVars, history
    <3> QED
      BY <3>1 DEF PeerInv, PairInv, Local, Up
  <2>2. CASE Next
    BY <2>2, ControlPeer, PortPeer, AnswerPeer, TeardownPeer, ServerPeer DEF Next, Own
  <2> QED
    BY <2>1, <2>2
<1> QED
  BY <1>1, <1>2, TypeInit, TypeNext, PTL DEF Spec

(* WrongPeerOnlyRaced: a session only mistakes another's node or simbuild   *)
(* for its own when that one bound the port after it had been found free.   *)
THEOREM PeerHolds == Spec => []WrongPeerOnlyRaced
<1>1. PeerInv => WrongPeerOnlyRaced
  BY DEF PeerInv, Local, WrongPeerOnlyRaced
<1> QED
  BY <1>1, Peers, PTL

(* LeftoverExplained: every way a node can outlive its session.             *)
THEOREM LeftoverHolds == Spec => []LeftoverExplained
<1>1. TypeInv /\ PeerInv => LeftoverExplained
  BY DEF PeerInv, Local, LeftoverExplained, TypeInv, TypeOK, Up
<1> QED
  BY <1>1, Peers, PTL

-----------------------------------------------------------------------------
(* The directories.                                                         *)

\* The stages at which the datadir is the session's, and used or about to be.
Active == {"check", "waiting", "sim", "simwait", "body"}
Out == {"idle", "ended", "dead"}

(* Sessions keep the order they are given, and have no genesis before one   *)
(* is derived for them.                                                     *)
OrderInv ==
    \A s \in Sessions :
        /\ use[s].cmd = "none" => pc[s] = "idle"
        /\ pc[s] = "idle" => genesis[s] = NoGenesis
        /\ pc[s] = "generate" => genesis[s] = NoGenesis /\ use[s].cmd = "bloat" /\ use[s].generate
        /\ pc[s] \in {"prepare", "init"} => genesis[s] # NoGenesis
        /\ \A t \in use[s].after : pc[s] # "idle" => pc[t] \in {"ended", "dead"}

Alone(s) == ~\E t \in Sessions : Disturbs(t, s)

(* A session nobody disturbs finds in its directory what it has written,    *)
(* and what is built in a directory of its own is built by those it serves. *)
DiskInv ==
    \A s \in Sessions :
        /\ Alone(s) /\ genesis[s] # NoGenesis =>
               /\ pc[s] = "init" => file[DirOf(s)] = genesis[s]
               /\ pc[s] \in Active => ChainOf(s).there /\ ChainOf(s).genesis = genesis[s]
        /\ use[s].dir = NoDir => \A u \in data[s].built : u = s \/ node[u] = s

ShareInv == OrderInv /\ DiskInv

(* Two sessions in an order are not at work at the same time.               *)
LEMMA NotTogether ==
  ASSUME OrderInv, NEW s \in Sessions, NEW t \in Sessions, Ordered(s, t), pc[s] \notin Out
  PROVE  pc[t] \in Out
BY DEF OrderInv, Ordered, Out

(* A directory of its own belongs to one session.                          *)
LEMMA OwnDir ==
  ASSUME TypeOK, NEW s \in Sessions, NEW t \in Sessions
  PROVE  DirOf(t) = s <=> t = s /\ use[s].dir = NoDir
<1>1. use[t].dir \in Dirs \cup {NoDir} /\ use[s].dir \in Dirs \cup {NoDir}
  BY UseType DEF Uses
<1> QED
  BY <1>1, NamesAssumption DEF DirOf

(* Most actions write no file and keep what the session derived.           *)
LEMMA DiskFrame ==
  ASSUME TypeOK, [Next]_vars
  PROVE  \/ \E s \in Sessions : \/ Plan(s) \/ Generate(s) \/ GenerateFails(s)
                                \/ Prepare(s) \/ LateOsError(s) \/ GethInit(s) \/ Build(s)
         \/ /\ UNCHANGED <<genesis, file, data>>
            /\ \A t \in Sessions : /\ pc'[t] = "init" => pc[t] = "init"
                                   /\ pc'[t] \in Active => pc[t] \in Active
                                   /\ pc'[t] = "idle" <=> pc[t] = "idle"
                                   /\ pc'[t] \in {"generate", "prepare"} => pc'[t] = pc[t]
                                   /\ pc[t] \in {"ended", "dead"} => pc'[t] \in {"ended", "dead"}
<1> DEFINE Quiet ==
      /\ UNCHANGED <<genesis, file, data>>
      /\ \A t \in Sessions : /\ pc'[t] = "init" => pc[t] = "init"
                             /\ pc'[t] \in Active => pc[t] \in Active
                             /\ pc'[t] = "idle" <=> pc[t] = "idle"
                             /\ pc'[t] \in {"generate", "prepare"} => pc'[t] = pc[t]
                             /\ pc[t] \in {"ended", "dead"} => pc'[t] \in {"ended", "dead"}
<1>1. ASSUME NEW s \in Sessions,
             Check(s) \/ CheckFails(s) \/ OsError(s)
             \/ GethInitFails(s) \/ Ready(s) \/ NotReady(s) \/ StartSim(s) \/ SimReady(s)
             \/ SimNotReady(s) \/ BodyEnds(s) \/ StopSim(s) \/ DockerStop(s) \/ DockerStopFails(s)
             \/ Reap(s) \/ ToolDies(s)
      PROVE  Quiet
  <2>1. UNCHANGED <<planVars, diskVars>>
    BY <1>1 DEF Check, CheckFails, OsError, GethInitFails, Ready, NotReady, StartSim, SimReady,
                SimNotReady, BodyEnds, StopSim, DockerStop, DockerStopFails, Reap, ToolDies
  <2>2. \E to \in Stages :
            /\ pc' = [pc EXCEPT ![s] = to] /\ to \notin {"idle", "generate", "prepare", "init"}
            /\ pc[s] \notin Out /\ (to \in Active => pc[s] \in Active)
    BY <1>1 DEF Check, CheckFails, OsError, GethInitFails, Ready, NotReady, StartSim, SimReady,
                SimNotReady, BodyEnds, StopSim, DockerStop, DockerStopFails, Reap, ToolDies,
                AfterReady, AfterBody, Step, Raise, Stages, Active, Out
  <2> QED
    BY <2>1, <2>2 DEF TypeOK, planVars, diskVars, Out
<1>2. ASSUME NEW s \in Sessions,
             ContainerStarts(s) \/ ContainerExits(s) \/ SimListens(s) \/ SimExits(s)
      PROVE  Quiet
  BY <1>2 DEF ContainerStarts, ContainerExits, SimListens, SimExits, planVars, diskVars
<1>3. CASE UNCHANGED vars
  BY <1>3 DEF vars, planVars, diskVars
<1> QED
  BY <1>1, <1>2, <1>3 DEF Next, Own

LEMMA OrderNext == TypeOK /\ OrderInv /\ [Next]_vars => OrderInv'
<1> SUFFICES ASSUME TypeOK, OrderInv, [Next]_vars PROVE OrderInv'
  OBVIOUS
<1>1. use' = use
  BY DerivedFrame
<1>2. \A s \in Sessions : use[s].after \subseteq Sessions
  BY UseType
<1>3. ASSUME NEW s \in Sessions, Plan(s) PROVE OrderInv'
  <2>1. /\ pc[s] = "idle" /\ pc'[s] # "idle" /\ use[s].cmd # "none"
        /\ \A t \in use[s].after : pc[t] \in {"ended", "dead"}
        /\ \A t \in Sessions \ {s} : pc'[t] = pc[t] /\ genesis'[t] = genesis[t]
    BY <1>3 DEF Plan, Step, Raise, TypeOK
  <2>2. ASSUME NEW u \in Sessions, NEW t \in use[u].after, pc'[u] # "idle"
        PROVE  pc'[t] \in {"ended", "dead"}
    <3>1. pc[t] \in {"ended", "dead"}
      BY <2>1, <2>2 DEF OrderInv
    <3> QED
      BY <1>2, <2>1, <3>1
  <2>3. /\ pc'[s] = "generate" => genesis'[s] = NoGenesis /\ use[s].cmd = "bloat" /\ use[s].generate
        /\ pc'[s] \in {"prepare", "init"} => genesis'[s] # NoGenesis
    <3>1. genesis[s] = NoGenesis
      BY <2>1 DEF OrderInv
    <3>2. /\ FixtureGenesis(use[s].test, use[s].fork) # NoGenesis
          /\ use[s].fork \in Listed => DevnetGenesis(use[s].test, use[s].fork) # NoGenesis
      BY UseType, BuildersType, NamesAssumption
    <3> QED
      BY <1>3, <3>1, <3>2 DEF Plan, Step, Raise, TypeOK
  <2> QED
    BY <1>1, <2>1, <2>2, <2>3 DEF OrderInv
<1>4. ASSUME NEW s \in Sessions,
             Generate(s) \/ GenerateFails(s) \/ Prepare(s) \/ LateOsError(s) \/ GethInit(s) \/ Build(s)
      PROVE  OrderInv'
  <2>1. /\ \A t \in Sessions \ {s} : pc'[t] = pc[t] /\ genesis'[t] = genesis[t]
        /\ \/ pc'[s] = pc[s] /\ genesis'[s] = genesis[s]
           \/ pc[s] \notin {"idle", "ended", "dead"} /\ pc'[s] \in {"check", "waiting", "ended"}
           \/ pc[s] = "prepare" /\ pc'[s] = "init" /\ genesis'[s] = genesis[s]
    BY <1>4 DEF Generate, GenerateFails, Prepare, LateOsError, GethInit, InitTo, Build, Step, Raise, planVars, TypeOK
  <2>2. \A u \in Sessions : \A t \in use[u].after : pc'[u] # "idle" => pc'[t] \in {"ended", "dead"}
    BY <1>2, <2>1 DEF OrderInv
  <2> QED
    BY <1>1, <2>1, <2>2 DEF OrderInv
<1>5. CASE /\ UNCHANGED <<genesis, file, data>>
           /\ \A t \in Sessions : /\ pc'[t] = "init" => pc[t] = "init"
                                  /\ pc'[t] = "idle" <=> pc[t] = "idle"
                                  /\ pc'[t] \in {"generate", "prepare"} => pc'[t] = pc[t]
                                  /\ pc[t] \in {"ended", "dead"} => pc'[t] \in {"ended", "dead"}
  BY <1>1, <1>2, <1>5 DEF OrderInv
<1> QED
  BY <1>3, <1>4, <1>5, DiskFrame

(* Who has disturbed another session remains one that has.                 *)
LEMMA StillDisturbs ==
  ASSUME TypeOK, OrderInv, [Next]_vars, NEW s \in Sessions, genesis[s] # NoGenesis
  PROVE  genesis'[s] = genesis[s] /\ (Alone(s)' => Alone(s))
<1>1. use' = use
  BY DerivedFrame
<1>2. ASSUME NEW t \in Sessions, pc[t] \notin {"idle", "generate"}
      PROVE  genesis'[t] = genesis[t] /\ (Wrote(t) => Wrote(t)')
  <2>1. genesis'[t] = genesis[t]
    <3>1. \A u \in Sessions : Plan(u) \/ Generate(u) => u # t /\ genesis'[t] = genesis[t]
      BY <1>2 DEF Plan, Generate, Step, Raise, TypeOK
    <3> QED
      BY <3>1, DerivedFrame
  <2>2. pc[t] # "prepare" => pc'[t] \notin {"idle", "generate", "prepare"}
    <3>1. ASSUME NEW u \in Sessions,
                 Plan(u) \/ Generate(u) \/ GenerateFails(u) \/ Prepare(u)
                 \/ LateOsError(u) \/ GethInit(u) \/ Build(u)
          PROVE  pc'[t] = pc[t] \/ pc'[t] \notin {"idle", "generate", "prepare"}
      BY <1>2, <3>1 DEF Plan, Generate, GenerateFails, Prepare, LateOsError, GethInit, InitTo, Build, Step, Raise, TypeOK
    <3> QED
      BY <1>2, <3>1, DiskFrame
  <2> QED
    BY <1>1, <2>1, <2>2 DEF Wrote
<1>3. genesis'[s] = genesis[s]
  BY <1>2 DEF OrderInv
<1>4. ASSUME NEW t \in Sessions, Disturbs(t, s) PROVE Disturbs(t, s)'
  <2>1. pc[t] \notin {"idle", "generate"}
    BY <1>4 DEF Disturbs, Wrote
  <2> QED
    BY <1>1, <1>2, <1>3, <1>4, <2>1 DEF Disturbs, Ordered, DirOf
<1> QED
  BY <1>3, <1>4 DEF Alone

(* Nobody who has an answer asks again.                                    *)
LEMMA NodeKept ==
  ASSUME TypeInv, PeerInv, [Next]_vars, NEW u \in Sessions, NEW s \in Sessions, node[u] = s
  PROVE  node'[u] = s
<1>1. ASSUME NEW t \in Sessions, Ready(t) PROVE node'[u] = s
  <2>1. t # u
    BY <1>1, NamesAssumption DEF Ready, Step, PeerInv, Local, Early
  <2> QED
    BY <1>1, <2>1 DEF Ready, TypeInv, TypeOK
<1>2. CASE UNCHANGED node
  BY <1>2
<1>3. node' = node \/ \E t \in Sessions : Ready(t)
  <2>1. ASSUME NEW t \in Sessions,
               Plan(t) \/ Generate(t) \/ GenerateFails(t) \/ Check(t) \/ CheckFails(t) \/ Prepare(t)
               \/ OsError(t) \/ GethInit(t) \/ GethInitFails(t) \/ NotReady(t) \/ StartSim(t)
               \/ SimReady(t) \/ SimNotReady(t) \/ BodyEnds(t) \/ StopSim(t) \/ DockerStop(t)
               \/ DockerStopFails(t) \/ Reap(t) \/ ToolDies(t) \/ LateOsError(t)
        PROVE  node' = node
    BY <2>1 DEF Plan, Generate, GenerateFails, Check, CheckFails, Prepare, OsError, GethInit, InitTo,
                GethInitFails, NotReady, StartSim, SimReady, SimNotReady, BodyEnds, StopSim,
                DockerStop, DockerStopFails, Reap, ToolDies, LateOsError, seenVars
  <2>2. ASSUME NEW t \in Sessions,
               ContainerStarts(t) \/ ContainerExits(t) \/ Build(t) \/ SimListens(t) \/ SimExits(t)
        PROVE  node' = node
    BY <2>2 DEF ContainerStarts, ContainerExits, Build, SimListens, SimExits, seenVars
  <2>3. CASE UNCHANGED vars
    BY <2>3 DEF vars, seenVars
  <2> QED
    BY <2>1, <2>2, <2>3 DEF Next, Own
<1> QED
  BY <1>1, <1>2, <1>3

(* A session writes to a directory: the others keep what DiskInv says of    *)
(* theirs, because one that writes there at the same time writes the same.  *)
LEMMA WriterDisk ==
  ASSUME TypeInv, OrderInv, DiskInv, [Next]_vars, NEW s \in Sessions, pc[s] \notin Out,
         \A t \in Sessions \ {s} : pc'[t] = pc[t] /\ genesis'[t] = genesis[t],
         node' = node, Wrote(s)',
         \A d \in AllDirs \ {DirOf(s)} : data'[d] = data[d] /\ file'[d] = file[d],
         data'[DirOf(s)].built \in {{}, ChainOf(s).built},
         file'[DirOf(s)] \in {file[DirOf(s)], genesis'[s]},
         genesis'[s] # NoGenesis =>
             \/ data'[DirOf(s)] = ChainOf(s) \/ ~ChainOf(s).there
             \/ data'[DirOf(s)].there /\ data'[DirOf(s)].genesis = genesis'[s],
         Alone(s)' /\ genesis'[s] # NoGenesis =>
             /\ pc'[s] = "init" => file'[DirOf(s)] = genesis'[s]
             /\ pc'[s] \in Active => data'[DirOf(s)].there /\ data'[DirOf(s)].genesis = genesis'[s]
  PROVE  DiskInv'
<1>0. use' = use
  BY DerivedFrame DEF TypeInv
<1>1. \A t \in Sessions : (DirOf(t)' = DirOf(t)) /\ DirOf(t) \in AllDirs
  BY <1>0, UseType DEF DirOf, TypeInv
<1>2. ASSUME NEW t \in Sessions, Alone(t)', genesis'[t] # NoGenesis
      PROVE  /\ pc'[t] = "init" => file'[DirOf(t)] = genesis'[t]
             /\ pc'[t] \in Active => data'[DirOf(t)].there /\ data'[DirOf(t)].genesis = genesis'[t]
  <2>1. CASE t = s
    BY <1>1, <1>2, <2>1
  <2>2. CASE t # s /\ pc[t] \in {"init"} \cup Active
    <3>1. genesis[t] = genesis'[t] /\ pc'[t] = pc[t]
      BY <2>2
    <3>2. Alone(t)
      BY <1>2, <3>1, StillDisturbs DEF TypeInv
    <3>3. CASE DirOf(t) # DirOf(s)
      BY <1>1, <1>2, <2>2, <3>1, <3>2, <3>3 DEF DiskInv, ChainOf
    <3>4. CASE DirOf(t) = DirOf(s)
      <4>1. ~Ordered(t, s)
        BY <2>2, NotTogether DEF Active, Out, Ordered
      <4>2. ~Disturbs(s, t)'
        BY <1>2 DEF Alone
      <4>3. genesis'[s] = genesis'[t]
        BY <1>0, <1>1, <2>2, <3>4, <4>1, <4>2 DEF Disturbs, Ordered
      <4> QED
        BY <1>1, <1>2, <2>2, <3>1, <3>2, <3>4, <4>3 DEF DiskInv, ChainOf
    <3> QED
      BY <3>3, <3>4
  <2> QED
    BY <2>1, <2>2 DEF Active
<1>3. ASSUME NEW t \in Sessions, use[t].dir = NoDir, NEW u \in data'[t].built
      PROVE  u = t \/ node'[u] = t
  <2>1. t \in AllDirs /\ (t = DirOf(s) \/ data'[t] = data[t])
    BY DEF AllDirs
  <2>2. u \in data[t].built
    BY <1>3, <2>1 DEF ChainOf
  <2> QED
    BY <1>3, <2>2 DEF DiskInv
<1> QED
  BY <1>0, <1>1, <1>2, <1>3 DEF DiskInv, ChainOf

LEMMA DiskNext == TypeInv /\ PeerInv /\ ShareInv /\ [Next]_vars => DiskInv'
<1> SUFFICES ASSUME TypeInv, PeerInv, ShareInv, [Next]_vars PROVE DiskInv'
  OBVIOUS
<1> USE DEF TypeInv, TypeOK, ShareInv
<1>1. use' = use
  BY DerivedFrame
<1>2. \A t \in Sessions :
          /\ DirOf(t)' = DirOf(t) /\ DirOf(t) \in AllDirs
          /\ genesis[t] # NoGenesis /\ Alone(t)' => Alone(t)
  BY <1>1, UseType, StillDisturbs DEF DirOf
<1>3. ASSUME NEW s \in Sessions, Plan(s) PROVE DiskInv'
  <2>1. /\ \A t \in Sessions \ {s} : pc'[t] = pc[t] /\ genesis'[t] = genesis[t]
        /\ UNCHANGED <<file, data, node>>
        /\ pc'[s] # "init" /\ (pc'[s] \in Active => genesis'[s] = genesis[s])
        /\ pc[s] = "idle"
    BY <1>3 DEF Plan, Step, Raise, Active, diskVars, seenVars
  <2>2. genesis[s] = NoGenesis
    BY <2>1 DEF OrderInv
  <2> QED
    BY <1>1, <1>2, <2>1, <2>2 DEF DiskInv, ChainOf
<1>4. ASSUME NEW s \in Sessions, Generate(s) \/ GenerateFails(s) \/ Prepare(s) \/ LateOsError(s) \/ GethInit(s)
      PROVE  DiskInv'
  <2>1. /\ pc[s] \notin Out /\ node' = node
        /\ \A t \in Sessions \ {s} : pc'[t] = pc[t] /\ genesis'[t] = genesis[t]
    BY <1>4 DEF Generate, GenerateFails, Prepare, LateOsError, GethInit, InitTo, Step, Raise, Out, planVars, seenVars
  <2> DEFINE Effect ==
        /\ Wrote(s)'
        /\ \A d \in AllDirs \ {DirOf(s)} : data'[d] = data[d] /\ file'[d] = file[d]
        /\ data'[DirOf(s)].built \in {{}, ChainOf(s).built}
        /\ file'[DirOf(s)] \in {file[DirOf(s)], genesis'[s]}
        /\ genesis'[s] # NoGenesis =>
             \/ data'[DirOf(s)] = ChainOf(s) \/ ~ChainOf(s).there
             \/ data'[DirOf(s)].there /\ data'[DirOf(s)].genesis = genesis'[s]
        /\ Alone(s)' /\ genesis'[s] # NoGenesis =>
             /\ pc'[s] = "init" => file'[DirOf(s)] = genesis'[s]
             /\ pc'[s] \in Active => data'[DirOf(s)].there /\ data'[DirOf(s)].genesis = genesis'[s]
  <2>2. Effect
    <3>1. CASE Generate(s)
      <4>1. ActorGenesis(use[s].test, use[s].fork) # NoGenesis
        BY UseType, BuildersType, NamesAssumption
      <4> QED
        BY <1>2, <3>1, <4>1 DEF Generate, Step, Wrote
    <3>2. CASE GenerateFails(s)
      <4>1. use[s].cmd = "bloat" /\ use[s].generate /\ genesis[s] = NoGenesis
        BY <3>2 DEF GenerateFails, Raise, Step, OrderInv
      <4> QED
        BY <1>1, <1>2, <3>2, <4>1 DEF GenerateFails, Raise, Step, planVars, ChainOf, Active, Wrote
    <3>3. CASE Prepare(s)
      <4>1. genesis[s] # NoGenesis
        BY <3>3 DEF Prepare, Step, OrderInv
      <4> QED
        BY <1>1, <1>2, <3>3, <4>1 DEF Prepare, Step, planVars, ChainOf, Active, Wrote
    <3>4. CASE GethInit(s)
      <4>1. /\ data' = [data EXCEPT ![DirOf(s)] = Initialised(s)]
            /\ UNCHANGED <<file, genesis>> /\ pc[s] = "init" /\ pc'[s] = "waiting"
            /\ ChainOf(s).there => ChainOf(s).genesis = file[DirOf(s)]
        BY <3>4 DEF GethInit, InitTo, Step, planVars
      <4>2. /\ Initialised(s).genesis = file[DirOf(s)] /\ Initialised(s).there
            /\ Initialised(s).built \in {{}, ChainOf(s).built}
            /\ Initialised(s) = ChainOf(s) \/ ~ChainOf(s).there
        BY <4>1 DEF Initialised
      <4>3. genesis[s] # NoGenesis
        BY <4>1 DEF OrderInv
      <4>4. Alone(s)' => file[DirOf(s)] = genesis[s]
        BY <1>2, <4>1, <4>3 DEF DiskInv
      <4> QED
        BY <1>1, <1>2, <4>1, <4>2, <4>3, <4>4 DEF Wrote
    <3>5. CASE LateOsError(s)
      <4>1. genesis[s] # NoGenesis /\ pc'[s] = "ended" /\ genesis' = genesis
        BY <3>5 DEF LateOsError, Raise, Step, OrderInv, planVars
      <4>2. \/ UNCHANGED data /\ file' = [file EXCEPT ![DirOf(s)] = genesis[s]]
            \/ /\ UNCHANGED file /\ data' = [data EXCEPT ![DirOf(s)] = Initialised(s)]
               /\ ChainOf(s).there => Initialised(s) = ChainOf(s)
        BY <3>5 DEF LateOsError, Initialised
      <4>3. Initialised(s).built \in {{}, ChainOf(s).built}
        BY DEF Initialised
      <4>4. Wrote(s)'
        BY <4>1 DEF Wrote
      <4> QED
        BY <1>1, <1>2, <4>1, <4>2, <4>3, <4>4 DEF ChainOf, Active
    <3> QED
      BY <1>4, <3>1, <3>2, <3>3, <3>4, <3>5
  <2> QED
    BY <2>1, <2>2, WriterDisk
<1>5. ASSUME NEW t \in Sessions, Build(t) PROVE DiskInv'
  <2>1. PICK u \in Sessions : /\ u = t \/ node[u] = t
                              /\ data' = [data EXCEPT ![DirOf(t)].built = @ \cup {u}]
    BY <1>5 DEF Build
  <2>2. UNCHANGED <<pc, genesis, file, node>>
    BY <1>5 DEF Build, planVars, seenVars
  <2>3. \A d \in AllDirs : /\ data'[d].genesis = data[d].genesis /\ data'[d].there = data[d].there
                           /\ data'[d].built = IF d = DirOf(t) THEN data[d].built \cup {u} ELSE data[d].built
    <3>1. \A d \in AllDirs :
              data'[d] = IF d = DirOf(t) THEN [data[d] EXCEPT !.built = @ \cup {u}] ELSE data[d]
      BY <1>2, <2>1
    <3>2. \A d \in AllDirs : data[d] \in Chain
      OBVIOUS
    <3>3. \A d \in AllDirs : /\ [data[d] EXCEPT !.built = @ \cup {u}].genesis = data[d].genesis
                             /\ [data[d] EXCEPT !.built = @ \cup {u}].there = data[d].there
                             /\ [data[d] EXCEPT !.built = @ \cup {u}].built = data[d].built \cup {u}
      BY <3>2 DEF Chain
    <3> QED
      BY <3>1, <3>3
  <2>4. \A s \in Sessions : s \in AllDirs /\ (DirOf(t) = s => t = s)
    BY OwnDir DEF AllDirs
  <2>5. \A s \in Sessions : use[s].dir = NoDir => \A v \in data'[s].built : v = s \/ node[v] = s
    BY <2>1, <2>3, <2>4 DEF DiskInv
  <2>6. \A s \in Sessions : /\ data'[DirOf(s)].genesis = data[DirOf(s)].genesis
                            /\ data'[DirOf(s)].there = data[DirOf(s)].there
    BY <1>2, <2>3
  <2>7. \A s \in Sessions :
            Alone(s)' /\ genesis'[s] # NoGenesis =>
               /\ pc'[s] = "init" => file'[DirOf(s)'] = genesis'[s]
               /\ pc'[s] \in Active => data'[DirOf(s)'].there /\ data'[DirOf(s)'].genesis = genesis'[s]
    BY <1>2, <2>2, <2>6 DEF DiskInv, ChainOf
  <2> QED
    BY <1>1, <1>2, <2>2, <2>5, <2>7 DEF DiskInv, ChainOf
<1>6. CASE /\ UNCHANGED <<genesis, file, data>>
           /\ \A t \in Sessions : /\ pc'[t] = "init" => pc[t] = "init"
                                  /\ pc'[t] \in Active => pc[t] \in Active
  <2>1. ASSUME NEW s \in Sessions, use[s].dir = NoDir, NEW u \in data[s].built
        PROVE  u = s \/ node'[u] = s
    <3>1. u \in Sessions
      BY <2>1 DEF Chain, AllDirs
    <3> QED
      BY <2>1, <3>1, NodeKept DEF DiskInv
  <2> QED
    BY <1>1, <1>2, <1>6, <2>1 DEF DiskInv, ChainOf
<1> QED
  BY <1>3, <1>4, <1>5, <1>6, DiskFrame

LEMMA Shares == Spec => [](TypeInv /\ ShareInv)
<1>1. Init => ShareInv
  <2> SUFFICES ASSUME Init PROVE ShareInv
    OBVIOUS
  <2>1. \A s \in Sessions : s \notin Dirs /\ s \in AllDirs
    BY NamesAssumption DEF AllDirs
  <2>2. \A s \in Sessions : data[s].built = {}
    BY <2>1 DEF Init
  <2> QED
    BY <2>2 DEF Init, ShareInv, OrderInv, DiskInv, Active
<1>2. TypeInv /\ PeerInv /\ ShareInv /\ [Next]_vars => ShareInv'
  BY DiskNext, OrderNext DEF ShareInv, TypeInv
<1> QED
  BY <1>1, <1>2, TypeInit, TypeNext, Peers, PTL DEF Spec

(* GenesisAsGiven: a session runs on the chain of another genesis only if   *)
(* one that has that genesis wrote to its directory at the same time.       *)
THEOREM GenesisHolds == Spec => []GenesisAsGiven
<1>1. TypeInv /\ ShareInv => GenesisAsGiven
  BY DEF ShareInv, DiskInv, GenesisAsGiven, Connected, Active, Alone
<1> QED
  BY <1>1, Shares, PTL

(* StaleOnlyIfShared: a directory made for a session holds no blocks of     *)
(* another, but for one that was led there.                                 *)
THEOREM StaleHolds == Spec => []StaleOnlyIfShared
<1>1. TypeInv /\ ShareInv => StaleOnlyIfShared
  <2> SUFFICES ASSUME TypeInv, ShareInv, NEW s \in Sessions, use[s].dir = NoDir,
                      ~(ChainOf(s).built \subseteq {s})
               PROVE  \E t \in Sessions \ {s} : node[t] = s
    BY DEF StaleOnlyIfShared
  <2>1. DirOf(s) = s /\ s \in AllDirs
    BY DEF DirOf, AllDirs
  <2>2. PICK u \in data[s].built : u # s
    BY <2>1 DEF ChainOf
  <2>3. u \in Sessions
    BY <2>1, <2>2 DEF TypeInv, TypeOK, Chain
  <2> QED
    BY <2>2, <2>3 DEF ShareInv, DiskInv
<1> QED
  BY <1>1, Shares, PTL

=============================================================================
