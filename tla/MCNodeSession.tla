---------------------------- MODULE MCNodeSession ----------------------------
(* Instances of NodeSession for TLC: every fork and option with one session, *)
(* and pairs of sessions that overlap or follow each other.                  *)
EXTENDS NodeSession, TLC

CONSTANTS s1, s2, d1, p1, p2, p3, testA, testB

MCForks == {"Paris", "Shanghai", "Cancun", "Prague", "Osaka", "BPO1", "BPO2", "Amsterdam",
            "PragueToOsakaAtTime15k"}
MCTimestampForks == <<"Shanghai", "Cancun", "Prague", "Osaka", "BPO1", "BPO2", "Amsterdam">>
MCBlobForks == {"Cancun", "Prague", "Osaka", "BPO1", "BPO2", "Amsterdam"}
MCCappedForks == {"Osaka", "BPO1", "BPO2", "Amsterdam"}
MCTxGasCap == 16777216
MCAtGenesis ==
    [f \in MCForks |->
        IF f = "Paris" THEN {}
        ELSE LET last == IF f = "PragueToOsakaAtTime15k" THEN "Prague" ELSE f
             IN {MCTimestampForks[k] : k \in 1..(CHOOSE n \in 1..7 : MCTimestampForks[n] = last)}]

MCSessions == {s1, s2}
MCDirs == {d1}
MCPorts == {p1, p2, p3}
MCExisting == [d \in MCDirs |-> NoGenesis]

Plain == [include |-> FALSE, benchmarkPath |-> FALSE, values |-> None, limit |-> None]
Unused == [cmd |-> "none", test |-> testA, fork |-> "Prague", dir |-> NoDir, simbuild |-> FALSE,
           generate |-> FALSE, after |-> {}, options |-> Plain,
           ports |-> {p1, p2, p3}]

Run == [Unused EXCEPT !.cmd = "run"]
Export == [Unused EXCEPT !.cmd = "export"]
Bloat == [Unused EXCEPT !.cmd = "bloat", !.generate = TRUE, !.test = testB]

Alone(u) == (s1 :> u) @@ (s2 :> Unused)
Both(u, v) == (s1 :> u) @@ (s2 :> v)

\* Every fork, with every way to give the benchmark options.
MCOptions ==
    [include : BOOLEAN, benchmarkPath : {FALSE}, values : {None, 8}, limit : {None, 9000000}]
    \cup {[Plain EXCEPT !.benchmarkPath = TRUE]}
OfForks ==
    {Alone([c EXCEPT !.fork = f]) : c \in {Run, Export}, f \in MCForks}
    \cup {Alone([Export EXCEPT !.fork = f, !.options = o]) :
              f \in {"Prague", "Osaka"}, o \in MCOptions}

\* A session is given fewer ports than there are where the others are equivalent to
\* them, or play no part.
On(u, ports) == [u EXCEPT !.ports = ports]

\* One session after another in the same directory, a reused datadir among them.
First(u) == On([u EXCEPT !.dir = d1], {p1, p2})
Second(u) == On([u EXCEPT !.dir = d1, !.after = {s1}], {p1, p3})
Sequels ==
    {Both(First(u), Second(v)) :
        u \in {Export, Bloat},
        v \in {Export, [Export EXCEPT !.test = testB], [Bloat EXCEPT !.generate = FALSE]}}

\* Two at once in one directory: the same seed and chain id, and two that leave another
\* genesis there and whose own node plays no part.
Together ==
    {Both(On([Export EXCEPT !.dir = d1], {p1, p2}), v) :
        v \in {On([Export EXCEPT !.dir = d1], {p2, p3}),
               On([Export EXCEPT !.dir = d1, !.test = testB], {p3}),
               On([Bloat EXCEPT !.dir = d1], {p3})}}

\* Two nodes that are started side by side, and one with a simbuild.
Nodes == {Both(On(Run, {p1, p2}), On(Bloat, {p1})), Alone([Run EXCEPT !.simbuild = TRUE])}

MCScenarios == OfForks \cup Sequels \cup Together \cup Nodes

\* What the run about a comment of the source needs.
MCTargets == {Alone([Run EXCEPT !.fork = f]) : f \in {"Paris", "Prague"}}
=============================================================================
