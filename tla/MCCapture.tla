------------------------------ MODULE MCCapture ------------------------------
(* Two batches, one that cannot be read beyond its first submission, one   *)
(* that cannot be read at its end; the client keeps up to two open.        *)
EXTENDS Capture, TLC

CONSTANTS r1, r2, t1, t2, t3

Call(m, t) == [method |-> m, raw |-> t]

MCTxs == {t1, t2, t3}
MCReqs == {r1, r2}
MCFlows == {"export", "submit"}
MCBody == (r1 :> <<Call("send", t1), Call("sendScalar", t1), Call("send", t2)>>)
          @@ (r2 :> <<Call("send", t2), Call("send", t3), Call("sendNamed", t3)>>)
==============================================================================
