------------------------------- MODULE MCReplay -------------------------------
(* A fixture of two transactions, an invalid payload, one transaction, and  *)
(* an empty block.                                                          *)
EXTENDS Replay

CONSTANTS t1, t2, t3, t4

MCTxs == {t1, t2, t3, t4}
MCRoutes == {"direct", "simbuild"}
P(v, p, t) == [valid |-> v, parent |-> p, txs |-> t]
MCFixture == << P(TRUE, 0, <<t1, t2>>), P(FALSE, 1, <<t2, t4>>),
                P(TRUE, 1, <<t3>>), P(TRUE, 3, <<>>) >>
===============================================================================
