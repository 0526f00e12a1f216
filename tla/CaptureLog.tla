------------------------------ MODULE CaptureLog ------------------------------
(***************************************************************************)
(* What a capture promises, without its threads, its child process and the *)
(* node: submissions are appended to a log, those of one request once and  *)
(* in its order; the log is read once; the table has what was read, in     *)
(* that order; and code 0 is for a table that misses nothing of the log,   *)
(* then or later.                                                          *)
(***************************************************************************)
EXTENDS Integers, Sequences

CONSTANTS Submissions,  \* [req, call]: each one the client may make
          Text          \* Text[e]: the signed transaction of a submission

VARIABLES log, read, copy, table, code  \* code is -1 until the command exits

vars == <<log, read, copy, table, code>>

Init == log = <<>> /\ read = FALSE /\ copy = <<>> /\ table = <<>> /\ code = -1

Record ==
    /\ code # 0
    /\ \E e \in Submissions :
           /\ \A k \in DOMAIN log : log[k].req = e.req => log[k].call < e.call
           /\ log' = Append(log, e)
    /\ UNCHANGED <<read, copy, table, code>>

Read ==
    /\ ~read
    /\ read' = TRUE /\ copy' = log
    /\ UNCHANGED <<log, table, code>>

Publish ==
    /\ read /\ code = -1
    /\ code' \in {0, 1}
    /\ code' = 0 => copy = log
    /\ table' = [k \in DOMAIN copy |-> Text[copy[k]]]
    /\ UNCHANGED <<log, read, copy>>

Next == Record \/ Read \/ Publish
Spec == Init /\ [][Next]_vars
===============================================================================
