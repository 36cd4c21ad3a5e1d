----------------------------- MODULE AckFrontier ------------------------------
(***************************************************************************)
(* What the acknowledgement bookkeeping promises, on sets: a settled id    *)
(* stays settled, and the frontier is the end of the gapless run of        *)
(* settled ids.                                                            *)
(***************************************************************************)
EXTENDS Frontier

CONSTANT Ids    \* the log ids, positive numbers

VARIABLES
    acked,      \* the frontier
    waiting     \* ids settled beyond it

absVars == <<acked, waiting>>

Init == acked = 0 /\ waiting = {}

Settle(lo, hi) ==
    /\ hi > acked
    /\ IF Waits(acked, lo, hi)
       THEN waiting' = waiting \cup (lo .. hi) /\ UNCHANGED acked
       ELSE \E m \in Reach(waiting, hi) : acked' = m /\ waiting' = waiting \ (1 .. m)

Next == \E lo, hi \in Ids : lo <= hi /\ Settle(lo, hi)

Spec == Init /\ [][Next]_absVars
===============================================================================
