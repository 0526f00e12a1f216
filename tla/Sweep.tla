--------------------------------- MODULE Sweep ---------------------------------
(***************************************************************************)
(* What `eest-replay recover` does to the accounts, without its calls, its *)
(* loop, its crashes and its reruns: an account that holds more than the   *)
(* reserve is sent away but for the reserve, the transfer may be forgotten *)
(* or bounce and be sent again, and once it is settled the account is      *)
(* never touched again.                                                    *)
(***************************************************************************)
EXTENDS Integers

CONSTANTS Accounts, Holdings, Reserve, Nothing

VARIABLES held,    \* what each account holds
          moving,  \* the value on its way out of it, or Nothing
          swept    \* the accounts that are settled

vars == <<held, moving, swept>>

Init ==
    /\ held \in [Accounts -> Holdings]
    /\ moving = [a \in Accounts |-> Nothing]
    /\ swept = {}

Send(a) ==
    /\ a \notin swept
    /\ moving[a] = Nothing
    /\ held[a] > Reserve
    /\ moving' = [moving EXCEPT ![a] = held[a] - Reserve]
    /\ UNCHANGED <<held, swept>>

Forget(a) ==
    /\ moving[a] # Nothing
    /\ moving' = [moving EXCEPT ![a] = Nothing]
    /\ UNCHANGED <<held, swept>>

\* The fee is taken from the reserve.
Settle(a) ==
    /\ moving[a] # Nothing
    /\ moving' = [moving EXCEPT ![a] = Nothing]
    /\ \E rest \in 0..(Reserve - 1) : held' = [held EXCEPT ![a] = rest]
    /\ swept' = swept \cup {a}

\* Only the fee is lost.
Bounce(a) ==
    /\ moving[a] # Nothing
    /\ moving' = [moving EXCEPT ![a] = Nothing]
    /\ \E fee \in 1..Reserve : held' = [held EXCEPT ![a] = @ - fee]
    /\ UNCHANGED swept

\* What the tests had left to spend, before anything of the account moves.
Spend(a) ==
    /\ a \notin swept
    /\ moving[a] = Nothing
    /\ \E rest \in 0..held[a] : held' = [held EXCEPT ![a] = rest]
    /\ UNCHANGED <<moving, swept>>

Next == \E a \in Accounts : Send(a) \/ Forget(a) \/ Settle(a) \/ Bounce(a) \/ Spend(a)
Spec == Init /\ [][Next]_vars
================================================================================
