------------------------------- MODULE Recover -------------------------------
(***************************************************************************)
(* `eest-replay recover` (src/eest_replay/sweep.py and recover_cmd of      *)
(* cli.py): sweep the accounts key = eoa_start + i back to one address.    *)
(* A scan reads balance and nonce and sends one transfer per account, with *)
(* three separate RPC calls, then waits for receipts until a deadline.     *)
(* The command may fail at any call and may be run again while transfers   *)
(* of an earlier run, or transactions of the tests, are still pending.     *)
(* The chain is external; the accounts have been funded before.            *)
(* A key is its offset from eoa_start; amounts are in abstract units.      *)
(***************************************************************************)
EXTENDS Integers, FiniteSets

CONSTANTS
    NumKeys,      \* accounts that exist: offsets 0 .. NumKeys - 1
    Count,        \* --count: how many offsets a scan visits
    Reserve,      \* GAS_TRANSFER * max_fee_per_gas
    MinSweepWei,  \* min_sweep_wei of sweep_account
    Balances,     \* the balances the tests may have left in an account
    Costs,        \* what a transaction of the tests still pending may cost
    MaxFaults,    \* bound: RPC calls that fail or are refused without a cause
    MaxDrops      \* bound: pending transfers the node forgets

ASSUME KeysAssumption == NumKeys \in Nat /\ Count \in 0..NumKeys
ASSUME AmountAssumption ==
    /\ Reserve \in Nat \ {0} /\ MinSweepWei \in Nat
    /\ Balances \subseteq Nat /\ Costs \subseteq Nat
ASSUME BoundAssumption == MaxFaults \in Nat /\ MaxDrops \in Nat

Keys == 0..(NumKeys - 1)
NoTx == -1

VARIABLES
    payable,      \* chain: the address of --to takes a plain transfer
    bal, nonce,   \* chain: balance and nonce (transactions mined) at "latest"
    others,       \* chain: cost of a pending transaction of the tests, or NoTx
    pend,         \* chain: value of the pending sweep with that nonce, or NoTx
    receipt,      \* chain: of the sweep accepted last: none yet, ok or reverted
    dropped,      \* history: keys whose accepted sweep the node forgot
    faults, drops,\* how much of the bounds is used up
    pc,           \* the process: where it is, or how its last run ended
    i, stop,      \* the next key and the end of the loop
    wait,         \* a scan waits for receipts, a single --key sweep does not
    balance, txNonce, \* what sweep_account has read for key i
    recovered,    \* keys in the list the run has built
    pending       \* keys whose receipt the run still waits for

chainVars == <<payable, bal, nonce, others, pend, receipt, dropped>>
loopVars == <<i, stop, wait>>
readVars == <<balance, txNonce>>
vars == <<chainVars, faults, drops, pc, loopVars, readVars, recovered, pending>>

Ended == {"idle", "done", "rejected", "crashed"}

(* The tests are over, but an `execute` that was killed leaves             *)
(* transactions of its accounts in the node's pool.                        *)
Init ==
    /\ payable \in BOOLEAN
    /\ bal \in [Keys -> Balances]
    /\ nonce = [a \in Keys |-> 0]
    /\ others \in [Keys -> Costs \cup {NoTx}]
    /\ \A a \in Keys : others[a] <= bal[a]
    /\ pend = [a \in Keys |-> NoTx]
    /\ receipt = [a \in Keys |-> "none"]
    /\ dropped = {}
    /\ faults = 0 /\ drops = 0
    /\ pc = "idle"
    /\ i = 0 /\ stop = 0 /\ wait = FALSE
    /\ balance = 0 /\ txNonce = 0
    /\ recovered = {} /\ pending = {}

-----------------------------------------------------------------------------
(* The command is started, for the first time or again.                    *)

\* A fresh process: its list and its set of hashes are empty.
Start(first, end, waits) ==
    /\ pc \in Ended
    /\ pc' = IF first < end THEN "balance" ELSE "done"
    /\ i' = first /\ stop' = end /\ wait' = waits
    /\ recovered' = {} /\ pending' = {}
    /\ UNCHANGED <<chainVars, faults, drops, readVars>>

\* Fault: range(count) misses the last key.
ScanShort == Start(0, Count - 1, TRUE)

\* recover --meta / --eoa-start: recover_funded_eoas with wait=True.
Scan == Start(0, Count, TRUE)

\* recover --key: one sweep_account, no waiting.
SweepKey(a) == Start(a, a + 1, FALSE)

-----------------------------------------------------------------------------
(* sweep_account, one action per RPC call, and the scan around it.         *)

\* The loop goes on with the next key; at its end a run that waits and has
\* something to wait for polls, any other is over.
Advance(list) ==
    /\ i' = i + 1
    /\ pc' = IF i + 1 < stop THEN "balance"
             ELSE IF wait /\ list # {} THEN "wait" ELSE "done"
    /\ pending' = IF i + 1 < stop \/ ~wait THEN {} ELSE list
    /\ UNCHANGED <<stop, wait>>

\* Fault: a balance of exactly the reserve is swept.
TooLowStrict(b) == b < Reserve \/ b - Reserve < MinSweepWei

TooLow(b) == b <= Reserve \/ b - Reserve < MinSweepWei

\* The value of the transfer.
SweepValue(b) == b - Reserve

\* eth_getBalance at latest.
GetBalance ==
    /\ pc = "balance"
    /\ balance' = bal[i]
    /\ IF TooLow(bal[i])
       THEN Advance(recovered)
       ELSE pc' = "nonce" /\ UNCHANGED <<loopVars, pending>>
    /\ UNCHANGED <<chainVars, faults, drops, txNonce, recovered>>

\* eth_getTransactionCount at latest, not pending.
GetNonce ==
    /\ pc = "nonce"
    /\ txNonce' = nonce[i]
    /\ pc' = "send"
    /\ UNCHANGED <<chainVars, faults, drops, loopVars, balance, recovered, pending>>

\* What a node accepts (external): the next nonce, not taken by a pending
\* sweep, and a balance that covers value and maximal fee.
Acceptable ==
    /\ txNonce = nonce[i]
    /\ pend[i] = NoTx
    /\ SweepValue(balance) + Reserve <= bal[i]

\* It is in the pool, in the place of a transaction of the tests that paid less.
Broadcast ==
    /\ pend' = [pend EXCEPT ![i] = SweepValue(balance)]
    /\ others' = [others EXCEPT ![i] = NoTx]
    /\ receipt' = [receipt EXCEPT ![i] = "none"]
    /\ dropped' = dropped \ {i}
    /\ UNCHANGED <<payable, bal, nonce>>

\* eth_sendRawTransaction answers with the hash, and the scan lists key a.
SendListed(a) ==
    /\ pc = "send"
    /\ Acceptable
    /\ Broadcast
    /\ recovered' = recovered \cup {a}
    /\ Advance(recovered \cup {a})
    /\ UNCHANGED <<faults, drops, readVars>>

\* Fault: the key is derived a second time for the list, and is the next one.
SendListsNext == SendListed(i + 1)

SendAccepted == SendListed(i)

\* Anything but a "result" is a RuntimeError: it ends the command, and the list
\* of what was already sent with it.  The node refuses what is not acceptable,
\* what would replace a transaction of the tests that paid as much, and at times
\* anything (a rate limit, a fee below the base fee).
SendRejected ==
    /\ pc = "send"
    /\ \/ (~Acceptable \/ others[i] # NoTx) /\ UNCHANGED faults
       \/ faults < MaxFaults /\ faults' = faults + 1
    /\ pc' = "rejected"
    /\ UNCHANGED <<chainVars, drops, loopVars, readVars, recovered, pending>>

\* Any call may raise (timeout, connection, an error without "result").
RpcFails ==
    /\ pc \in {"balance", "nonce", "send", "wait"}
    /\ faults < MaxFaults
    /\ faults' = faults + 1
    /\ pc' = "crashed"
    /\ UNCHANGED <<chainVars, drops, loopVars, readVars, recovered, pending>>

\* The transfer is accepted but the answer is lost.
SendReplyLost ==
    /\ pc = "send"
    /\ Acceptable
    /\ Broadcast
    /\ faults < MaxFaults
    /\ faults' = faults + 1
    /\ pc' = "crashed"
    /\ UNCHANGED <<drops, loopVars, readVars, recovered, pending>>

-----------------------------------------------------------------------------
(* Waiting for receipts.                                                   *)

\* The keys a polling round keeps: any receipt will do, of a reverted sweep too.
Unconfirmed(keys) == {a \in keys : receipt[a] = "none"}

\* Fault: the round drops a key whose receipt is not there yet.
PollForgets ==
    /\ pc = "wait"
    /\ pending # {}
    /\ \E a \in pending : pending' = Unconfirmed(pending) \ {a}
    /\ pc' = IF pending' = {} THEN "done" ELSE "wait"
    /\ UNCHANGED <<chainVars, faults, drops, loopVars, readVars, recovered>>

\* One round of eth_getTransactionReceipt over the pending hashes.
Poll ==
    /\ pc = "wait"
    /\ pending' = Unconfirmed(pending)
    /\ pc' = IF pending' = {} THEN "done" ELSE "wait"
    /\ UNCHANGED <<chainVars, faults, drops, loopVars, readVars, recovered>>

\* Fault: the loop has no deadline.
NoDeadline == FALSE /\ UNCHANGED vars

\* 180 s have passed: the list is returned whatever is confirmed.
Deadline ==
    /\ pc = "wait"
    /\ pc' = "done"
    /\ UNCHANGED <<chainVars, faults, drops, loopVars, readVars, recovered, pending>>

-----------------------------------------------------------------------------
(* The chain (external).                                                   *)

\* A block includes the pending sweep and takes a fee out of the reserve.  The
\* value moves unless the address of --to wants more than the gas of a transfer.
Mine(a) ==
    /\ pend[a] # NoTx
    /\ \E fee \in 1..Reserve :
           bal' = [bal EXCEPT ![a] = @ - fee - (IF payable THEN pend[a] ELSE 0)]
    /\ nonce' = [nonce EXCEPT ![a] = @ + 1]
    /\ receipt' = [receipt EXCEPT ![a] = IF payable THEN "ok" ELSE "reverted"]
    /\ pend' = [pend EXCEPT ![a] = NoTx]
    /\ UNCHANGED <<payable, others, dropped>>
    /\ UNCHANGED <<faults, drops, pc, loopVars, readVars, recovered, pending>>

\* The node forgets a pending sweep (eviction, restart).
Drop(a) ==
    /\ pend[a] # NoTx
    /\ drops < MaxDrops
    /\ drops' = drops + 1
    /\ pend' = [pend EXCEPT ![a] = NoTx]
    /\ dropped' = dropped \cup {a}
    /\ UNCHANGED <<payable, bal, nonce, others, receipt>>
    /\ UNCHANGED <<faults, pc, loopVars, readVars, recovered, pending>>

\* A block includes the transaction of the tests, or the node forgets it.
MineOther(a) ==
    /\ others[a] # NoTx
    /\ \/ /\ bal' = [bal EXCEPT ![a] = @ - others[a]]
          /\ nonce' = [nonce EXCEPT ![a] = @ + 1]
       \/ UNCHANGED <<bal, nonce>>
    /\ others' = [others EXCEPT ![a] = NoTx]
    /\ UNCHANGED <<payable, pend, receipt, dropped>>
    /\ UNCHANGED <<faults, drops, pc, loopVars, readVars, recovered, pending>>

-----------------------------------------------------------------------------
Work ==
    \/ GetBalance \/ GetNonce \/ SendAccepted \/ SendRejected
    \/ Poll \/ Deadline

Next ==
    \/ Scan \/ \E a \in Keys : SweepKey(a)
    \/ Work \/ RpcFails \/ SendReplyLost
    \/ \E a \in Keys : Mine(a) \/ Drop(a) \/ MineOther(a)

Spec == Init /\ [][Next]_vars

(* The process runs on and its deadline comes, blocks include what is      *)
(* pending, and the user runs the scan again and again.                    *)
Fairness ==
    /\ WF_vars(Work)
    /\ WF_vars(Deadline)
    /\ SF_vars(Scan)
    /\ \A a \in Keys : WF_vars(Mine(a)) /\ WF_vars(MineOther(a))
FairSpec == Spec /\ Fairness

-----------------------------------------------------------------------------
(* Properties.                                                             *)

(* Amounts stay natural (no account is overdrawn) and the process is in a  *)
(* known place of the scan.                                                *)
TypeOK ==
    /\ payable \in BOOLEAN
    /\ bal \in [Keys -> Nat]
    /\ nonce \in [Keys -> Nat]
    /\ others \in [Keys -> Nat \cup {NoTx}]
    /\ pend \in [Keys -> Nat \cup {NoTx}]
    /\ receipt \in [Keys -> {"none", "ok", "reverted"}]
    /\ dropped \subseteq Keys
    /\ faults \in 0..MaxFaults /\ drops \in 0..MaxDrops
    /\ pc \in {"balance", "nonce", "send", "wait"} \cup Ended
    /\ i \in 0..NumKeys /\ stop \in 0..NumKeys /\ wait \in BOOLEAN
    /\ balance \in Nat /\ txNonce \in Nat
    /\ recovered \subseteq Keys /\ pending \subseteq recovered

(* However often the command crashes and is run again, and whatever is     *)
(* mined between two of its reads, an account whose sweep succeeded is not  *)
(* swept again, and what a pending sweep leaves is exactly the reserve.     *)
SweptOnce ==
    \A a \in Keys :
        /\ receipt[a] = "ok" => bal[a] <= Reserve /\ pend[a] = NoTx
        /\ pend[a] # NoTx => pend[a] > 0 /\ pend[a] + Reserve = bal[a]

(* Whatever is read, sent, lost and run again, the accounts only see what   *)
(* Sweep allows: each is swept at most once, down to the reserve.           *)
Ledger == INSTANCE Sweep
              WITH Accounts <- Keys, Holdings <- Balances, Nothing <- NoTx,
                   held <- bal, moving <- pend, swept <- {a \in Keys : receipt[a] = "ok"}
ImplementsSweep == Ledger!Spec

(* A scan leaves no account behind it that would pay for a transfer, unless *)
(* it has sent one of it, which is pending, included or forgotten.  One that *)
(* reached its end has been at all accounts below --count, one that was      *)
(* rejected or crashed at those before.                                      *)
Dust(a) == bal[a] <= Reserve \/ bal[a] < Reserve + MinSweepWei
Sent(a) == pend[a] # NoTx \/ receipt[a] # "none" \/ a \in dropped
Visited == 0..((IF pc \in {"wait", "done"} THEN Count ELSE i) - 1)
ScanComplete == wait => \A a \in Visited : Dust(a) \/ (a \in recovered /\ Sent(a))

(* If the wait ended before its deadline, a sweep of every account the run  *)
(* reports has been included; they are empty if --to takes plain transfers. *)
ConfirmedIsSwept ==
    pc = "done" /\ wait /\ pending = {} =>
        \A a \in recovered : receipt[a] # "none" /\ (payable => bal[a] <= Reserve)

(* Whatever fails, is rejected or forgotten, running the scan again and     *)
(* again reclaims every account it reaches, if --to takes plain transfers.  *)
EventuallyReclaimed == payable => <>[](\A a \in 0..(Count - 1) : Dust(a))

(* README.md 109-110: recover "sweeps any holding more than the sweep gas  *)
(* cost".  Of a scan in which no RPC call failed this would mean:          *)
SweepsAnyHolding ==
    pc \in {"done", "rejected"} /\ wait /\ payable /\ faults = 0 =>
        \A a \in 0..(Count - 1) : Dust(a) \/ Sent(a)

==============================================================================
