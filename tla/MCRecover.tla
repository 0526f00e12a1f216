------------------------------ MODULE MCRecover ------------------------------
(* Instance of Recover for TLC: empty, at the reserve, one above it, more. *)
EXTENDS Recover

MCBalances == {0, Reserve, Reserve + 1, Reserve + 3}
==============================================================================
