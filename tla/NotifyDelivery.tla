--------------------------- MODULE NotifyDelivery ---------------------------
(***************************************************************************)
(* What the outbox promises of a committed transition, with no worker, row *)
(* or network in it: Notify fans it out once at most, and it is settled    *)
(* only after that and for good.                                           *)
(***************************************************************************)
EXTENDS Integers

CONSTANT Items

VARIABLES
    promised,  \* transitions committed with their check result
    fanout,    \* fanout[i]: notifications administrators received of i
    settled    \* transitions Monitor counts as delivered

vars == <<promised, fanout, settled>>

Init ==
    /\ promised = {}
    /\ fanout = [i \in Items |-> 0]
    /\ settled = {}

Promise(i) ==
    /\ i \notin promised
    /\ promised' = promised \cup {i}
    /\ UNCHANGED <<fanout, settled>>

FanOut(i) ==
    /\ i \in promised
    /\ fanout[i] = 0
    /\ fanout' = [fanout EXCEPT ![i] = 1]
    /\ UNCHANGED <<promised, settled>>

Settle(i) ==
    /\ fanout[i] = 1
    /\ i \notin settled
    /\ settled' = settled \cup {i}
    /\ UNCHANGED <<promised, fanout>>

Next == \E i \in Items : Promise(i) \/ FanOut(i) \/ Settle(i)

Spec == Init /\ [][Next]_vars
=============================================================================
