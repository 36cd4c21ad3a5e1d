------------------------------- MODULE Delivery -------------------------------
(***************************************************************************)
(* What the sending side promises about the batches of one hash key: they  *)
(* are delivered in the order in which they were accepted.  A batch may be *)
(* given up out of turn; each batch ends once.                             *)
(***************************************************************************)
EXTENDS Naturals, Sequences

CONSTANTS
    Keys,       \* the hash keys
    Batches,    \* the batches
    Endings     \* how a batch can end other than delivered

VARIABLES
    line,       \* per key: the accepted batches that have not ended
    outcome     \* per batch: "none", "ok" or one of Endings

Init ==
    /\ line = [k \in Keys |-> <<>>]
    /\ outcome = [b \in Batches |-> "none"]

Waiting == {b \in Batches : \E k \in Keys : \E i \in DOMAIN line[k] : line[k][i] = b}

Accept(k, b) ==
    /\ b \notin Waiting /\ outcome[b] = "none"
    /\ line' = [line EXCEPT ![k] = Append(@, b)]
    /\ UNCHANGED outcome

Deliver(k) ==
    /\ line[k] # <<>>
    /\ outcome' = [outcome EXCEPT ![Head(line[k])] = "ok"]
    /\ line' = [line EXCEPT ![k] = Tail(@)]

GiveUp(k, i) ==
    /\ i \in DOMAIN line[k]
    /\ \E e \in Endings : outcome' = [outcome EXCEPT ![line[k][i]] = e]
    /\ line' = [line EXCEPT ![k] = SubSeq(@, 1, i - 1) \o SubSeq(@, i + 1, Len(@))]

Next == \E k \in Keys :
    \/ \E b \in Batches : Accept(k, b)
    \/ Deliver(k)
    \/ \E i \in DOMAIN line[k] : GiveUp(k, i)

Spec == Init /\ [][Next]_<<line, outcome>>
===============================================================================
