------------------------------- MODULE MCBudget -------------------------------
(* The instances of Budget: the configurations that TLC explores. *)
EXTENDS Budget

CONSTANTS a, b, w, s
TwoAdders == {a, b}
OneAdder == {a}
OneWorker == {w}
OneSender == {s}

Habits == [t \in {a, b} |-> {"batch", IF t = a THEN "keyed" ELSE "raw"}]
Keyed == [t \in {a} |-> {"keyed"}]

Policy(block, timed, ordered, linger) ==
    [block |-> block, timed |-> timed, ordered |-> ordered, linger |-> linger]
Waiting == {Policy(TRUE, TRUE, FALSE, TRUE)}
Everyday == {Policy(TRUE, TRUE, FALSE, TRUE), Policy(FALSE, FALSE, FALSE, FALSE)}
Ordered == {Policy(FALSE, FALSE, TRUE, TRUE)}
===============================================================================
