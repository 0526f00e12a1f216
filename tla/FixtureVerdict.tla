---------------------------- MODULE FixtureVerdict ----------------------------
(***************************************************************************)
(* What `eest-replay run` promises of one fixture, as the "correctness     *)
(* oracle": every valid block is judged once, a fixture passes only when   *)
(* every one of them was judged a match, and a verdict is final.           *)
(***************************************************************************)
CONSTANT Fixtures  \* the fixtures it may be, each by its set of valid blocks

VARIABLES todo,    \* blocks not yet judged
          clean,   \* no judged block differed
          verdict  \* none, passed, failed or errored

vars == <<todo, clean, verdict>>

Init == todo \in Fixtures /\ clean = TRUE /\ verdict = "none"

\* A block is built and compared.
Judge(b, matched) ==
    /\ verdict = "none"
    /\ b \in todo
    /\ todo' = todo \ {b}
    /\ clean' = (clean /\ matched)
    /\ UNCHANGED verdict

\* All blocks are judged.
Conclude ==
    /\ verdict = "none"
    /\ todo = {}
    /\ verdict' = IF clean THEN "passed" ELSE "failed"
    /\ UNCHANGED <<todo, clean>>

\* The chain could not be driven to its end.
Abort ==
    /\ verdict = "none"
    /\ verdict' = "errored"
    /\ UNCHANGED <<todo, clean>>

Next == (\E b \in todo, matched \in BOOLEAN : Judge(b, matched)) \/ Conclude \/ Abort
Spec == Init /\ [][Next]_vars
===============================================================================
