------------------------------- MODULE Batching -------------------------------
(***************************************************************************)
(* From log ids to the frontier: how concurrent adds on several hash keys  *)
(* become batches, and how the final results of the batches become one     *)
(* number in the checkpoint.                                               *)
(*                                                                         *)
(* A batch only remembers its first and its last id.  Adds take their ids  *)
(* under producer->mutex, give the mutex up for the append to the log, and *)
(* reach the builder of their key in any order; so a range stands for the  *)
(* ids of the batch only if the builder is sealed before any id that does  *)
(* not follow its last one (ve_tls_ingress_task_merge_locked).  Completed  *)
(* ranges beyond the frontier are kept in a sorted list of nodes           *)
(* (ve_tls_persistent_record_completed_range_locked).                      *)
(***************************************************************************)
EXTENDS Integers, Sequences, FiniteSets, FiniteSetsExt

CONSTANTS
    Keys,       \* the hash keys
    MaxId,      \* bound: how many ids are handed out
    PackCount   \* log_count_per_package, 0 for no limit

ASSUME BatchingAssumption == MaxId \in Nat \ {0} /\ PackCount \in Nat

VARIABLES
    nextId,     \* producer->next_id
    appending,  \* ids whose append is in progress, with their keys
    builder,    \* per key: the open builder
    queue,      \* per key: the sealed batches, in sending order
    acked,      \* checkpoint.acked_log_id
    ranges,     \* persistent_ack_head: the completed ranges beyond acked
    delivered,  \* history: ids whose batch had an OK result
    failed      \* history: ids given up by this process

vars == <<nextId, appending, builder, queue, acked, ranges, delivered, failed>>

Ids == 1 .. MaxId
EmptyBuilder == [lo |-> 0, hi |-> 0, ids |-> {}]
Batch == [lo : Ids, hi : Ids, ids : SUBSET Ids]

-------------------------------------------------------------------------------
(* The ranges list *)

Smaller(a, b) == IF a <= b THEN a ELSE b
Larger(a, b)  == IF a >= b THEN a ELSE b

(* How many nodes lie before lo and do not touch it. *)
Before(lo) == Cardinality({i \in 1 .. Len(ranges) :
                              \A j \in 1 .. i : ranges[j].hi < lo - 1})

(* Does the range, which has grown over the nodes before i, reach node i?   *)
Reaches(from, hi, i) ==
    \/ ranges[i].lo <= hi + 1
    \/ \E j \in from + 1 .. i - 1 : ranges[i].lo <= ranges[j].hi + 1

(* Walk the list from node `from' on, absorbing every node that the growing  *)
(* range reaches, and stop at the first that it does not.                   *)
AbsorbNothing(from, lo, hi) == [lo |-> lo, hi |-> hi, n |-> from]
AbsorbAll(from, lo, hi) == [lo |-> lo, hi |-> hi, n |-> Len(ranges)]
Absorb(from, lo, hi) ==
    LET run == {i \in from + 1 .. Len(ranges) : \A j \in from + 1 .. i : Reaches(from, hi, j)}
    IN  [lo |-> Min({lo} \cup {ranges[i].lo : i \in run}),
         hi |-> Max({hi} \cup {ranges[i].hi : i \in run}),
         n |-> from + Cardinality(run)]

(* A completed range either becomes a node, merged with those it touches, or *)
(* moves the frontier and takes the nodes it reaches with it.               *)
RecordCompleted(start, end) ==
    IF end <= acked THEN UNCHANGED <<acked, ranges>>
    ELSE LET lo == Larger(start, acked + 1)
             from == IF lo > acked + 1 THEN Before(lo) ELSE 0
             w == Absorb(from, lo, end)
             rest == SubSeq(ranges, w.n + 1, Len(ranges))
         IN  IF lo > acked + 1
             THEN /\ ranges' = SubSeq(ranges, 1, from) \o <<[lo |-> w.lo, hi |-> w.hi]>> \o rest
                  /\ UNCHANGED acked
             ELSE /\ acked' = w.hi
                  /\ ranges' = rest

-------------------------------------------------------------------------------
Init ==
    /\ nextId = 1 /\ appending = {}
    /\ builder = [k \in Keys |-> EmptyBuilder]
    /\ queue = [k \in Keys |-> <<>>]
    /\ acked = 0 /\ ranges = <<>>
    /\ delivered = {} /\ failed = {}

(* The id is taken before the append, which then runs without the mutex.    *)
Begin(k) ==
    /\ nextId <= MaxId
    /\ nextId' = nextId + 1
    /\ appending' = appending \cup {[id |-> nextId, key |-> k]}
    /\ UNCHANGED <<builder, queue, acked, ranges, delivered, failed>>

(* The append failed, the producer closed meanwhile, or there was no buffer  *)
(* space: nothing of this id ever reaches a batch.                          *)
AddFails(a) ==
    /\ a \in appending
    /\ appending' = appending \ {a}
    /\ failed' = failed \cup {a.id}
    /\ UNCHANGED <<nextId, builder, queue, acked, ranges, delivered>>

FollowsAnyhow(b, id) == TRUE
FollowsLoosely(b, id) == b.ids = {} \/ id > b.hi
Follows(b, id) == b.ids = {} \/ id = b.hi + 1
GrowFromZero(b, id) == [lo |-> Smaller(b.lo, id), hi |-> Larger(b.hi, id), ids |-> b.ids \cup {id}]
Grow(b, id) == [lo |-> IF b.lo = 0 \/ id < b.lo THEN id ELSE b.lo,
                hi |-> IF id > b.hi THEN id ELSE b.hi,
                ids |-> b.ids \cup {id}]

(* The id joins the builder of its key; a builder it does not follow is      *)
(* sealed first, one that is full or was asked to flush is sealed after.    *)
Merge(a, flush) ==
    /\ a \in appending
    /\ appending' = appending \ {a}
    /\ LET old == builder[a.key]
           q == IF Follows(old, a.id) THEN queue[a.key] ELSE Append(queue[a.key], old)
           b == Grow(IF Follows(old, a.id) THEN old ELSE EmptyBuilder, a.id)
           full == PackCount > 0 /\ Cardinality(b.ids) >= PackCount
       IN  IF full \/ flush
           THEN /\ queue' = [queue EXCEPT ![a.key] = Append(q, b)]
                /\ builder' = [builder EXCEPT ![a.key] = EmptyBuilder]
           ELSE /\ queue' = [queue EXCEPT ![a.key] = q]
                /\ builder' = [builder EXCEPT ![a.key] = b]
    /\ UNCHANGED <<nextId, acked, ranges, delivered, failed>>

(* The worker seals a builder when a flush was asked for or its interval is  *)
(* over.                                                                    *)
Seal(k) ==
    /\ builder[k].ids # {}
    /\ queue' = [queue EXCEPT ![k] = Append(@, builder[k])]
    /\ builder' = [builder EXCEPT ![k] = EmptyBuilder]
    /\ UNCHANGED <<nextId, appending, acked, ranges, delivered, failed>>

(* The batch at the head of its key's queue ends with OK ...                *)
Deliver(k) ==
    /\ queue[k] # <<>>
    /\ LET b == Head(queue[k])
       IN  /\ RecordCompleted(b.lo, b.hi)
           /\ delivered' = delivered \cup b.ids
    /\ queue' = [queue EXCEPT ![k] = Tail(@)]
    /\ UNCHANGED <<nextId, appending, builder, failed>>

(* ... or with any other result, which leaves the ledger alone.  A batch     *)
(* that could not be prepared or pushed fails before it reaches the queue.  *)
GiveUp(k, i) ==
    /\ i \in 1 .. Len(queue[k])
    /\ failed' = failed \cup queue[k][i].ids
    /\ queue' = [queue EXCEPT ![k] = SubSeq(@, 1, i - 1) \o SubSeq(@, i + 1, Len(@))]
    /\ UNCHANGED <<nextId, appending, builder, acked, ranges, delivered>>

Arrive == \E a \in appending : \E flush \in BOOLEAN : Merge(a, flush)

Next == \/ \E k \in Keys : Begin(k) \/ Seal(k) \/ Deliver(k)
        \/ \E k \in Keys : \E i \in 1 .. Len(queue[k]) : GiveUp(k, i)
        \/ Arrive
        \/ \E a \in appending : AddFails(a)

Spec == Init /\ [][Next]_vars

(* An append returns; the worker wakes up at least every flush interval; the *)
(* sender pops the head of a key that is ready.                             *)
Fairness == /\ \A i \in Ids, k \in Keys :
                  WF_vars(\E flush \in BOOLEAN : Merge([id |-> i, key |-> k], flush))
            /\ \A k \in Keys : WF_vars(Seal(k)) /\ WF_vars(Deliver(k))
FairSpec == Spec /\ Fairness

-------------------------------------------------------------------------------
(* Properties *)

Node == [lo : Ids, hi : Ids]
TypeOK ==
    /\ nextId \in 1 .. (MaxId + 1)
    /\ appending \subseteq [id : Ids, key : Keys]
    /\ builder \in [Keys -> Batch \cup {EmptyBuilder}]
    /\ queue \in [Keys -> Seq(Batch)]
    /\ acked \in 0 .. MaxId
    /\ ranges \in Seq(Node)
    /\ delivered \subseteq Ids /\ failed \subseteq Ids

(* A range claims no id but those of its own batch: not one of another hash   *)
(* key, not one whose append is still in progress, and not one that failed.  *)
RangeIsOwn == \A k \in Keys : \A i \in 1 .. Len(queue[k]) :
                 queue[k][i].ids = queue[k][i].lo .. queue[k][i].hi

(* The checkpoint number never covers an id that was not delivered, in        *)
(* whatever order adds, seals, results and failures interleave.              *)
AckedDelivered == 1 .. acked \subseteq delivered

(* Nothing delivered is forgotten: it is below the frontier or in a node.     *)
WaitingIds == UNION {ranges[i].lo .. ranges[i].hi : i \in 1 .. Len(ranges)}
DeliveredKept == delivered = (1 .. acked) \cup WaitingIds

(* Every id is settled in the end, unless some id failed before it: then the  *)
(* gap keeps the frontier, and every record after it, for this process.      *)
GapBelow(id) == \E i \in failed : i <= id
EventuallyAcked == \A id \in Ids : (id < nextId) ~> (acked >= id \/ GapBelow(id))

(* The list implements the frontier on sets.                                  *)
Ledger == INSTANCE AckFrontier WITH waiting <- WaitingIds
ImplementsFrontier == Ledger!Spec
===============================================================================
