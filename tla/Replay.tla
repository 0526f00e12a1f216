-------------------------------- MODULE Replay --------------------------------
(***************************************************************************)
(* Replay of one fixture (src/eest_replay/runner.py): for every valid      *)
(* payload submit its transactions to the mempool, have the node build a   *)
(* block on the expected parent, compare it with the expected block, then  *)
(* import the expected block and make it the head.  The build goes to the  *)
(* Engine API directly or through `buildoor simbuild` (buildoor_client.py  *)
(* and patches/cmd_simbuild.go).  The node is external: its mempool, its   *)
(* imported blocks, its head and the payload it fills while the runner     *)
(* sleeps.  Block k is the block of payload k, block 0 the genesis.        *)
(***************************************************************************)
EXTENDS Naturals, Sequences, FiniteSets

CONSTANTS
    Txs,      \* raw transactions
    Fixture,  \* fixture.payloads: [valid, parent, txs]
    Routes    \* how builds are requested: "direct", "simbuild"

Payloads == [valid : BOOLEAN, parent : Nat, txs : Seq(Txs)]
Indices == 1..Len(Fixture)
Valid == {k \in Indices : Fixture[k].valid}
Parent(k) == Fixture[k].parent
TxSet(k) == {Fixture[k].txs[j] : j \in 1..Len(Fixture[k].txs)}

(* A filled fixture is a chain: the parent of a valid block is the valid   *)
(* block before it, and no transaction is in two valid blocks.             *)
ASSUME PayloadsAssumption == Fixture \in Seq(Payloads) /\ Len(Fixture) > 0
ASSUME RoutesAssumption == Routes \subseteq {"direct", "simbuild"}
ASSUME ChainAssumption ==
    \A k \in Valid :
        /\ Parent(k) < k /\ Parent(k) \in Valid \cup {0}
        /\ \A j \in Valid : ~(Parent(k) < j /\ j < k)
ASSUME TxsAssumption == \A k, l \in Valid : k # l => TxSet(k) \cap TxSet(l) = {}

NoPayload == [on |-> 0, txs |-> {}, filled |-> FALSE, open |-> FALSE]

VARIABLES
    route,          \* buildoor_base_url is None or not
    pc,             \* where _drive_chain is
    idx,            \* the payload it is at
    sent,           \* transactions of it that were submitted
    block_results,  \* [number, matched]
    result,         \* what the batch loop gets: none, or [error, blocks]
    head, known,    \* node: head and imported blocks
    pool,           \* node: transactions in the mempool
    payload,        \* node: the payload being built
    built           \* history: what getPayload returned, per compared block

runnerVars == <<route, pc, idx, sent, block_results, result>>
nodeVars == <<head, known, pool, payload>>
vars == <<runnerVars, nodeVars, built>>

NoResult == [error |-> FALSE, blocks |-> <<>>, ready |-> FALSE]

Init ==
    /\ route \in Routes
    /\ pc = "bootstrap" /\ idx = 1 /\ sent = 0
    /\ block_results = <<>> /\ result = NoResult
    /\ head = 0 /\ known = {0} /\ pool = {} /\ payload = NoPayload
    /\ built = {}

Return(error, blocks) ==
    /\ pc' = "returned"
    /\ result' = [error |-> error, blocks |-> blocks, ready |-> TRUE]
    /\ UNCHANGED <<route, idx, sent, block_results>>

Goto(place) == pc' = place /\ UNCHANGED <<route, idx, sent, block_results, result>>

\* The Engine API answers VALID to a forkchoice update only for a block it has.
ForkchoiceUpdated(block) == block \in known /\ head' = block

-----------------------------------------------------------------------------
(* The bootstrap and the loop over the payloads.                           *)

Bootstrap ==
    /\ pc = "bootstrap"
    /\ ForkchoiceUpdated(0)
    /\ Goto("next")
    /\ UNCHANGED <<known, pool, payload, built>>

\* Fault: the transactions of a skipped payload are submitted.
SkipSubmits ==
    /\ pc = "next"
    /\ idx \in Indices \ Valid
    /\ idx' = idx + 1
    /\ pool' = pool \cup TxSet(idx)
    /\ UNCHANGED <<route, pc, sent, block_results, result, head, known, payload, built>>

\* A payload that is not valid() is skipped.
Skip ==
    /\ pc = "next"
    /\ idx \in Indices \ Valid
    /\ idx' = idx + 1
    /\ UNCHANGED <<route, pc, sent, block_results, result, nodeVars, built>>

\* Fault: valid() is not asked.
BeginInvalid ==
    /\ pc = "next"
    /\ idx \in Indices
    /\ pc' = "submit"
    /\ sent' = 0
    /\ UNCHANGED <<route, idx, block_results, result, nodeVars, built>>

\* A valid payload's turn.
Begin ==
    /\ pc = "next"
    /\ idx \in Valid
    /\ pc' = "submit"
    /\ sent' = 0
    /\ UNCHANGED <<route, idx, block_results, result, nodeVars, built>>

\* _submit_mempool: one accepted eth_sendRawTransaction.
SubmitTx ==
    /\ pc = "submit"
    /\ sent < Len(Fixture[idx].txs)
    /\ sent' = sent + 1
    /\ pool' = pool \cup {Fixture[idx].txs[sent + 1]}
    /\ UNCHANGED <<route, pc, idx, block_results, result, head, known, payload, built>>

Submitted ==
    /\ pc = "submit"
    /\ sent = Len(Fixture[idx].txs)
    /\ Goto("build")
    /\ UNCHANGED <<nodeVars, built>>

-----------------------------------------------------------------------------
(* The build, by the runner itself or by handleBuild of simbuild.          *)

\* forkchoiceUpdated(parent, attributes) is VALID with a payloadId.
RequestBuild ==
    /\ pc = "build"
    /\ ForkchoiceUpdated(Parent(idx))
    /\ payload' = [on |-> Parent(idx), txs |-> {}, filled |-> FALSE, open |-> TRUE]
    /\ Goto("sleep")
    /\ UNCHANGED <<known, pool, built>>

\* It is not VALID or has no payloadId: the runner returns an error and keeps
\* the results so far; handleBuild answers 500, which request_build raises.
BuildRefused ==
    /\ pc = "build"
    /\ route = "direct"
    /\ Return(TRUE, block_results)
    /\ UNCHANGED <<nodeVars, built>>

\* The node, while the runner or simbuild sleeps: more of the mempool goes
\* into the payload, until all of it is there.
Fill ==
    /\ payload.open
    /\ ~payload.filled
    /\ \E more \in SUBSET pool :
           /\ payload.txs \subseteq more
           /\ payload' = [payload EXCEPT !.txs = more, !.filled = (more = pool)]
    /\ UNCHANGED <<runnerVars, head, known, pool, built>>

\* Fault: a comparison that looks at the transactions only.
DiffTxsOnly(txs, same) == txs = TxSet(idx)

\* _diff_payload: every field but those the builder picks.  `same` says
\* whether the other fields and the order of the transactions agree.
NoMismatch(txs, same) == same /\ txs = TxSet(idx)

\* getPayload after the sleep, whatever the node has filled in by then, then
\* the comparison and its result.
GetPayload ==
    /\ pc = "sleep"
    /\ \E same \in BOOLEAN :
        /\ block_results' = Append(block_results,
                [number |-> idx, matched |-> NoMismatch(payload.txs, same)])
        /\ built' = built \cup
                {[number |-> idx, on |-> payload.on, txs |-> payload.txs,
                  filled |-> payload.filled, same |-> same]}
    /\ payload' = [payload EXCEPT !.open = FALSE]
    /\ pc' = "import"
    /\ UNCHANGED <<route, idx, sent, result, head, known, pool>>

-----------------------------------------------------------------------------
(* The chain advances along the expected block.                            *)

\* newPayload(expected) is VALID.
Import ==
    /\ pc = "import"
    /\ Parent(idx) \in known
    /\ known' = known \cup {idx}
    /\ Goto("advance")
    /\ UNCHANGED <<head, pool, payload, built>>

\* Fault: the status of newPayload is not looked at.
ImportRefusedIgnored ==
    /\ pc = "import"
    /\ pc' = "next" /\ idx' = idx + 1
    /\ UNCHANGED <<route, sent, block_results, result, nodeVars, built>>

ImportRefused ==
    /\ pc = "import"
    /\ Return(TRUE, block_results)
    /\ UNCHANGED <<nodeVars, built>>

\* forkchoiceUpdated(expected.block_hash) is VALID; the node drops the
\* block's transactions from its mempool.
AdvanceHead ==
    /\ pc = "advance"
    /\ ForkchoiceUpdated(idx)
    /\ pool' = pool \ TxSet(idx)
    /\ pc' = "next" /\ idx' = idx + 1
    /\ UNCHANGED <<route, sent, block_results, result, known, payload, built>>

\* The bootstrap's or the last forkchoice update is not VALID.
FcuRefused ==
    /\ pc \in {"bootstrap", "advance"}
    /\ Return(TRUE, block_results)
    /\ UNCHANGED <<nodeVars, built>>

\* Any call raises (a rejected transaction, a lost connection, a 400 or 500 of
\* simbuild, its client's 60 s): the batch loop's handler makes a result with
\* an error and without blocks.
Raise ==
    /\ pc \notin {"next", "returned"}
    /\ Return(TRUE, <<>>)
    /\ UNCHANGED <<nodeVars, built>>

\* Fault: the loop ends before the last payload.
FinishEarly ==
    /\ pc = "next"
    /\ idx >= Len(Fixture)
    /\ Return(FALSE, block_results)
    /\ UNCHANGED <<nodeVars, built>>

\* The loop has passed the last payload.
Finish ==
    /\ pc = "next"
    /\ idx > Len(Fixture)
    /\ Return(FALSE, block_results)
    /\ UNCHANGED <<nodeVars, built>>

\* The node is torn down with the `with` blocks; nothing happens any more.
Terminated == pc = "returned" /\ UNCHANGED vars

Runner ==
    \/ Bootstrap \/ Skip \/ Begin \/ SubmitTx \/ Submitted
    \/ RequestBuild \/ BuildRefused \/ GetPayload
    \/ Import \/ ImportRefused \/ AdvanceHead \/ FcuRefused \/ Raise \/ Finish

Next == Runner \/ (pc # "returned" /\ Fill) \/ Terminated

Spec == Init /\ [][Next]_vars

-----------------------------------------------------------------------------
(* Properties.                                                             *)

(* Every variable stays in its type: only valid payloads are ever judged,   *)
(* imported or made the head.                                               *)
TypeOK ==
    /\ route \in Routes
    /\ pc \in {"bootstrap", "next", "submit", "build", "sleep", "import", "advance", "returned"}
    /\ idx \in 1..(Len(Fixture) + 1)
    /\ sent \in Nat
    /\ block_results \in Seq([number : Valid, matched : BOOLEAN])
    /\ result \in [error : BOOLEAN, ready : BOOLEAN,
                   blocks : Seq([number : Valid, matched : BOOLEAN])]
    /\ head \in Valid \cup {0} /\ known \subseteq Valid \cup {0}
    /\ pool \subseteq Txs
    /\ payload \in [on : Valid \cup {0}, txs : SUBSET Txs, filled : BOOLEAN, open : BOOLEAN]
    /\ built \subseteq [number : Valid, on : Valid \cup {0}, txs : SUBSET Txs,
                        filled : BOOLEAN, same : BOOLEAN]

\* FixtureResult.passed.
AllMatched(blocks) == \A k \in DOMAIN blocks : blocks[k].matched
Passed == result.ready /\ ~result.error /\ AllMatched(result.blocks)

(* A fixture passes only if every valid block was really built, on its     *)
(* expected parent, with the expected content, and the node then imported  *)
(* the expected chain to its end.                                          *)
PassedIsEarned ==
    Passed =>
        /\ \A k \in Valid : \E b \in built :
               b.number = k /\ b.on = Parent(k) /\ b.txs = TxSet(k) /\ b.same
        /\ Valid \subseteq known
        /\ \A k \in Valid : k <= head

(* No false alarm: when the node had time to fill the payload and computes *)
(* the other fields as expected, the block is reported as a match.  Nothing *)
(* earlier blocks or skipped payloads left in the mempool gets in.         *)
NoFalseAlarm ==
    \A k \in DOMAIN block_results : \A b \in built :
        b.number = block_results[k].number /\ b.filled /\ b.same => block_results[k].matched

(* The replay implements the verdict: each valid block is judged once, and *)
(* no order of errors and mismatches turns into a pass.                    *)
Judged == {block_results[k].number : k \in DOMAIN block_results}
Verdict == IF ~result.ready THEN "none"
           ELSE IF result.error THEN "errored"
           ELSE IF AllMatched(result.blocks) THEN "passed" ELSE "failed"
V == INSTANCE FixtureVerdict WITH
        Fixtures <- {Valid}, todo <- Valid \ Judged,
        clean <- AllMatched(block_results), verdict <- Verdict
ImplementsVerdict == V!Spec

===============================================================================
