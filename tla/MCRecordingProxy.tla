-------------------------- MODULE MCRecordingProxy --------------------------
(* Instances of RecordingProxy for TLC: a batch with a call that ends its   *)
(* recording before the last submission, one that submits the same          *)
(* transaction again after two other calls, and one whose second call       *)
(* carries its parameters in an object.                                     *)
EXTENDS RecordingProxy, TLC

CONSTANTS r1, r2, r3, t1, t2

Call(m, t) == [method |-> m, raw |-> t]

MCTxs == {t1, t2}
MCReqs == {r1, r2, r3}
MCBody == (r1 :> <<Call("send", t1), Call("sendScalar", t1), Call("send", t2)>>)
          @@ (r2 :> <<Call("send", t2), Call("other", t2), Call("send", t1)>>)
          @@ (r3 :> <<Call("send", t1), Call("sendNamed", t2)>>)

\* The two requests of the runs about a comment of the source.
MCReqs2 == {r1, r2}
MCBody2 == [r \in MCReqs2 |-> MCBody[r]]
=============================================================================
