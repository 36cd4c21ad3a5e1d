-------------------------------- MODULE Budget --------------------------------
(***************************************************************************)
(* A memory-only producer from add to result: the buffer budget shared by  *)
(* the adding threads, the workers and the senders, the condition variable *)
(* producer->cond they sleep on, and how the producer is closed.           *)
(*                                                                         *)
(* The estimate of the size of a log is exact.  The                        *)
(* senders are those of the fast path.                                     *)
(***************************************************************************)
EXTENDS Naturals, FiniteSets, Sequences

CONSTANTS
    Adders, Workers, Senders,   \* the threads
    Paths,          \* per adder, how its logs may enter: "batch", "keyed", "raw"
    Policies,       \* the configurations: see policy below
    MaxLogs,        \* bound: calls of add and flush
    MaxBytes,       \* max_buffer_bytes
    RawBytes,       \* bytes of a raw item; any other log takes one byte
    PackLogs,       \* log_count_per_package
    PackBytes,      \* log_bytes_per_package, reached after PackLogs in a builder
    Envelope,       \* bytes move_to_send_task adds around the logs
    Packed,         \* bytes of a compressed body
    Slack,          \* how far the compression bound exceeds the body
    IngressCap, SendCap     \* capacities of the ingress and the send queue

Smaller(a, b) == IF a < b THEN a ELSE b

ASSUME BudgetAssumption ==
    /\ {MaxLogs, MaxBytes, RawBytes, Envelope, Packed, Slack} \subseteq Nat
    /\ {PackLogs, IngressCap, SendCap} \subseteq Nat \ {0}
    /\ IsFiniteSet(Adders) /\ IsFiniteSet(Workers) /\ IsFiniteSet(Senders)
    /\ Adders \cap Workers = {} /\ Workers \cap Senders = {} /\ Workers # {} /\ Senders # {}
    /\ PackBytes \in Nat /\ PackBytes >= PackLogs
    /\ Paths \in [Adders -> SUBSET {"batch", "keyed", "raw"}]
    /\ Policies \subseteq [block : BOOLEAN,    \* wait when the buffer or the queue is full
                           timed : BOOLEAN,    \* such a wait has a deadline
                           ordered : BOOLEAN,  \* ordered_send: no thread batches
                           linger : BOOLEAN]   \* flush_interval_ms > 0

VARIABLES
    policy,     \* the configuration, never changed
    phase,      \* "open", "closing" or "stopped"
    sendStop,   \* the send queue was stopped
    flush,      \* flush_requested
    pool,       \* the six byte counters
    builder,    \* logs in the default and in the hash-key builder
    sealed,     \* the sealed builders: their numbers of logs
    ingress,    \* the ingress queue: batches handed over by threads
    raw,        \* queue_count: raw items, one log each
    sendq,      \* the send queue: tasks
    call,       \* per adder: where its call is
    force,      \* per adder: the flush argument of that call
    closer,     \* the adders whose call is close
    batch,      \* per adder: logs in its thread batch
    cond,       \* per thread: "none", "asleep" on producer->cond, or "woken"
    at,         \* per worker and sender: where it is
    hand,       \* per worker: the sealed builders it took
    task,       \* per worker and sender: the task in hand
    inflight,   \* fast_inflight
    calls,      \* how often add and flush were called
    accepted,   \* logs for which add returned success
    ended,      \* logs whose batch got its final callback
    late        \* logs handed in after the producer had stopped

gates == <<policy, phase, sendStop>>
adding == <<call, force, closer, batch, calls, accepted, late>>
queues == <<builder, sealed, ingress, raw>>
running == <<at, hand, task, inflight, ended>>
vars == <<gates, flush, pool, queues, sendq, adding, cond, running>>

Threads == Adders \cup Workers
Pools == {"queue", "ingress", "send", "inflight", "scratch", "tls"}
NoTask == [logs |-> 0, mem |-> 0, held |-> 0, kind |-> "none", from |-> "none"]

(* What creation accepts: waiting needs a deadline and room for two packages. *)
Legal(p) == p.block => p.timed /\ PackBytes <= MaxBytes \div 2

Init ==
    /\ policy \in {p \in Policies : Legal(p)}
    /\ phase = "open" /\ sendStop = FALSE /\ flush = FALSE
    /\ pool = [p \in Pools |-> 0]
    /\ builder = [b \in {"default", "keyed"} |-> 0]
    /\ sealed = <<>> /\ ingress = <<>> /\ raw = 0 /\ sendq = <<>>
    /\ call = [t \in Adders |-> "idle"] /\ force = [t \in Adders |-> FALSE]
    /\ closer = {} /\ batch = [t \in Adders |-> 0]
    /\ cond = [t \in Threads |-> "none"]
    /\ at = [w \in Workers \cup Senders |-> IF w \in Workers THEN "look" ELSE "pop"]
    /\ hand = [w \in Workers |-> <<>>]
    /\ task = [t \in Workers \cup Senders |-> NoTask]
    /\ inflight = 0 /\ calls = 0 /\ accepted = 0 /\ ended = 0 /\ late = 0

--------------------------------------------------------------------------------
(* The budget. *)

SendReserved == Smaller(PackBytes * Cardinality(Senders), MaxBytes \div 2)
IngressBytes == pool["queue"] + pool["ingress"] + pool["tls"]
BufferedBytes == IngressBytes + pool["send"] + pool["inflight"] + pool["scratch"]

HasSpaceShared(need, forSend) == \* without the share of the senders
    (IF forSend THEN BufferedBytes ELSE IngressBytes) + need <= MaxBytes
HasSpace(need, forSend) ==
    IF forSend THEN BufferedBytes + need <= MaxBytes
               ELSE IngressBytes + need <= MaxBytes - SendReserved

(* The sum of a function or a sequence: the number of its units, unit n of    *)
(* the value at x being the pair <<x, n>>.                                   *)
Units(f) == UNION {{x} \X (1 .. f[x]) : x \in DOMAIN f}
Sum(f) == Cardinality(Units(f))
Logs(q) == Sum([i \in DOMAIN q |-> q[i].logs])
Mem(q) == Sum([i \in DOMAIN q |-> q[i].mem])

Less(a, b) == IF a < b THEN 0 ELSE a - b        \* every release saturates
Take(p, n) == [pool EXCEPT ![p] = @ + n]
Release(p, n) == [pool EXCEPT ![p] = Less(@, n)]
Move(from, to, n) == [pool EXCEPT ![from] = Less(@, n), ![to] = @ + n]

(* producer->cond.  The caller t is awake and out of the wait afterwards.   *)
Asleep == {t \in Threads : cond[t] = "asleep"}
Wake(ts, t) ==
    [u \in Threads |-> IF u = t THEN "none" ELSE IF u \in ts THEN "woken" ELSE cond[u]]
Quiet(t) == cond' = Wake({}, t)
Broadcast(t) == cond' = Wake(Asleep, t)
Signals(n, t) == \* n signals: each wakes one sleeper, whichever the system picks
    \E ts \in SUBSET (Asleep \ {t}) :
        /\ Cardinality(ts) = Smaller(n, Cardinality(Asleep \ {t}))
        /\ cond' = Wake(ts, t)
SignalsIf(p, t) == Signals(IF p THEN 1 ELSE 0, t)
Sleep(t) == cond' = [cond EXCEPT ![t] = "asleep"]

(* ve_tls_wait_buffer_space_locked for thread t: it returns with the space, *)
(* gives up, or asks the worker to flush and sleeps.  Only a thread that    *)
(* slept, or finds no space, looks at the phase.                            *)
GetsSpace(t, need, forSend) ==
    /\ cond[t] # "asleep" /\ HasSpace(need, forSend)
    /\ cond[t] = "none" \/ phase = "open"
Expires(t, need, forSend) ==
    /\ cond[t] = "woken" /\ policy.timed
    /\ phase = "open" /\ ~HasSpace(need, forSend)
NoSpace(t, need, forSend) ==
    /\ cond[t] # "asleep"
    /\ \/ ~HasSpace(need, forSend) /\ (~policy.block \/ phase # "open")
       \/ cond[t] = "woken" /\ phase # "open"
       \/ Expires(t, need, forSend)
Blocks(t, need, forSend) ==
    /\ cond[t] # "asleep" /\ ~HasSpace(need, forSend)
    /\ policy.block /\ phase = "open"
    /\ flush' = TRUE
    /\ \E ts \in SUBSET (Asleep \ {t}) :
          /\ Cardinality(ts) = Smaller(1, Cardinality(Asleep \ {t}))
          /\ cond' = [Wake(ts, t) EXCEPT ![t] = "asleep"]
    /\ UNCHANGED <<gates, pool, queues, sendq, adding, running>>

(* A wait for space or for a slot with a deadline ends by itself. *)
WaitEnds(t) ==
    /\ policy.timed /\ cond[t] = "asleep"
    /\ t \in Workers => at[t] \notin {"look", "linger"}
    /\ cond' = [cond EXCEPT ![t] = "woken"]
    /\ UNCHANGED <<gates, flush, pool, queues, sendq, adding, running>>

--------------------------------------------------------------------------------
(* Adding. *)

Return(t) == /\ call' = [call EXCEPT ![t] = "idle"]
             /\ force' = [force EXCEPT ![t] = FALSE]
             /\ closer' = closer \ {t}
Refuse(t) == Return(t) /\ UNCHANGED <<accepted, late>>
Accept(t, n) == \* and n logs are handed in
    /\ Return(t)
    /\ accepted' = accepted + 1
    /\ late' = IF phase = "stopped" THEN late + n ELSE late
Goto(t, where) ==
    /\ call' = [call EXCEPT ![t] = where]
    /\ UNCHANGED <<force, closer, accepted, late>>

(* A call: through the thread's batch (no hash key, ordered_send = 0), into *)
(* a builder under the mutex (a hash key or ordered_send), or raw.          *)
Add(t) ==
    /\ call[t] = "idle" /\ calls < MaxLogs
    /\ \E path \in Paths[t] :
          /\ path = "batch" => ~policy.ordered
          /\ call' = [call EXCEPT ![t] = path]
    /\ \E f \in BOOLEAN : force' = [force EXCEPT ![t] = f]
    /\ calls' = calls + 1
    /\ UNCHANGED <<gates, flush, pool, queues, sendq, closer, batch, accepted,
                   late, cond, running>>

(* ve_tls_producer_flush. *)
Flush(t) ==
    /\ call[t] = "idle" /\ calls < MaxLogs /\ calls' = calls + 1
    /\ flush' = TRUE /\ Broadcast(t)
    /\ UNCHANGED <<gates, pool, queues, sendq, call, force, closer, batch, accepted,
                   late, running>>

Asks(t) == call[t] \in {"batch", "keyed", "raw", "merge", "flush"}
Need(t) == CASE call[t] \in {"merge", "flush"} -> batch[t]
             [] call[t] = "raw" -> RawBytes
             [] OTHER -> 1

(* n logs join builder b, which is sealed when it is full or forced. *)
Fills(b, n, f) == f \/ builder[b] + n >= PackLogs
Join(b, n, f) ==
    /\ builder' = [builder EXCEPT ![b] = IF Fills(b, n, f) THEN 0 ELSE @ + n]
    /\ sealed' = IF Fills(b, n, f) THEN Append(sealed, builder[b] + n) ELSE sealed
    /\ flush' = (flush \/ Fills(b, n, f))

Closed(t) ==
    /\ call[t] \in {"batch", "keyed", "raw"} /\ cond[t] = "none" /\ phase # "open"
    /\ Refuse(t)
    /\ UNCHANGED <<gates, flush, pool, queues, sendq, batch, calls, cond, running>>

(* A log that cannot go on is taken back out of the thread's batch          *)
(* (ve_tls_tls_batch_rollback_append); close leaves the batch as it is.     *)
TakeBackUnpaid(t, signal) ==
    LET back == IF call[t] \in {"merge", "flush", "slot"} /\ t \notin closer THEN 1 ELSE 0
    IN  /\ batch' = [batch EXCEPT ![t] = @ - back] /\ UNCHANGED pool
        /\ SignalsIf(signal, t) /\ Refuse(t)
TakeBack(t, signal) ==
    LET back == IF call[t] \in {"merge", "flush", "slot"} /\ t \notin closer THEN 1 ELSE 0
    IN  /\ pool' = Release("tls", back)
        /\ batch' = [batch EXCEPT ![t] = @ - back]
        /\ IF back = 1 THEN Broadcast(t) ELSE SignalsIf(signal, t)
        /\ Refuse(t)

Rejected(t) ==
    /\ Asks(t) /\ NoSpace(t, Need(t), FALSE)
    /\ cond[t] = "none" /\ phase # "open" => call[t] \in {"merge", "flush"}
    /\ flush' = (flush \/ Expires(t, Need(t), FALSE))
    /\ TakeBack(t, Expires(t, Need(t), FALSE))
    /\ UNCHANGED <<gates, queues, sendq, calls, running>>

AdderBlocks(t) == Asks(t) /\ Blocks(t, Need(t), FALSE)

AddKeyed(t) ==
    /\ call[t] = "keyed" /\ phase = "open" /\ GetsSpace(t, 1, FALSE)
    /\ pool' = Take("queue", 1)
    /\ Join("keyed", 1, force[t]) /\ Accept(t, 1)
    /\ SignalsIf(Fills("keyed", 1, force[t]), t)
    /\ UNCHANGED <<gates, ingress, raw, sendq, batch, calls, running>>

(* Both other paths reserve, leave the mutex, and come back. *)
Reserve(t) ==
    /\ phase = "open" /\ GetsSpace(t, Need(t), FALSE) /\ Quiet(t)
    /\ \/ call[t] = "batch" /\ pool' = Take("tls", 1) /\ Goto(t, "append")
       \/ call[t] = "raw" /\ pool' = Take("queue", RawBytes) /\ Goto(t, "copy")
    /\ UNCHANGED <<gates, flush, queues, sendq, batch, calls, running>>

Enqueue(t) ==
    /\ call[t] = "copy"
    /\ IF phase # "open"
       THEN /\ pool' = Release("queue", RawBytes) /\ Broadcast(t) /\ Refuse(t)
            /\ UNCHANGED <<raw, flush>>
       ELSE LET wakes == force[t] \/ raw + 1 >= PackLogs \/ pool["queue"] >= PackBytes
            IN  /\ raw' = raw + 1 /\ Accept(t, 1)
                /\ flush' = (flush \/ wakes) /\ SignalsIf(wakes, t)
                /\ UNCHANGED pool
    /\ UNCHANGED <<gates, builder, sealed, ingress, sendq, batch, calls, running>>

(* Only a log that opens the thread's batch looks at the phase again. *)
Appends(t) ==
    /\ call[t] = "append"
    /\ IF batch[t] = 0 /\ phase # "open"
       THEN /\ pool' = Release("tls", 1) /\ Broadcast(t) /\ Refuse(t)
            /\ UNCHANGED batch
       ELSE /\ batch' = [batch EXCEPT ![t] = @ + 1]
            /\ IF force[t] \/ batch[t] + 1 >= PackLogs THEN Goto(t, "flush")
               ELSE IF policy.linger THEN Goto(t, "merge") ELSE Accept(t, 0)
            /\ UNCHANGED <<pool, cond>>
    /\ UNCHANGED <<gates, flush, queues, sendq, calls, running>>

(* With a linger the batch is merged at once: the worker waits on builders. *)
MergeBatch(t) ==
    /\ call[t] = "merge" /\ GetsSpace(t, batch[t], FALSE)
    /\ Join("default", batch[t], FALSE)
    /\ pool' = Move("tls", "queue", batch[t])
    /\ batch' = [batch EXCEPT ![t] = 0] /\ Accept(t, batch[t])
    /\ SignalsIf(Fills("default", batch[t], FALSE) \/ builder["default"] + batch[t] = 1, t)
    /\ UNCHANGED <<gates, ingress, raw, sendq, calls, running>>

(* One thread closes. *)
StartClose(t) ==
    /\ call[t] = "idle" /\ phase = "open" /\ closer = {}
    /\ IF batch[t] > 0
       THEN /\ call' = [call EXCEPT ![t] = "flush"] /\ closer' = closer \cup {t}
            /\ force' = [force EXCEPT ![t] = TRUE]
            /\ UNCHANGED <<phase, flush, cond>>
       ELSE /\ phase' = "closing" /\ flush' = TRUE /\ Broadcast(t)
            /\ UNCHANGED <<call, closer, force>>
    /\ UNCHANGED <<policy, sendStop, pool, queues, sendq, batch, calls, accepted,
                   late, running>>

(* A full or forced batch, or the batch of the closing thread, goes to the   *)
(* ingress queue, whose slot the thread may have to wait for.                *)
HasSlot(t) ==
    \/ call[t] = "flush" /\ GetsSpace(t, batch[t], FALSE)
    \/ call[t] = "slot" /\ cond[t] # "asleep"
FlushBatch(t) ==
    /\ HasSlot(t) /\ Len(ingress) < IngressCap
    /\ ingress' = Append(ingress, [logs |-> batch[t], force |-> force[t]])
    /\ pool' = Move("tls", "ingress", batch[t])
    /\ batch' = [batch EXCEPT ![t] = 0]
    /\ IF t \in closer
       THEN phase' = "closing" /\ flush' = TRUE /\ Broadcast(t) /\ Refuse(t)
       ELSE Signals(1, t) /\ Accept(t, batch[t]) /\ UNCHANGED <<phase, flush>>
    /\ UNCHANGED <<policy, sendStop, builder, sealed, raw, sendq, calls, running>>
IngressFull(t) ==
    /\ HasSlot(t) /\ Len(ingress) >= IngressCap
    /\ \/ /\ policy.block /\ phase = "open"
          /\ Sleep(t) /\ Goto(t, "slot")
          /\ UNCHANGED <<pool, batch>>
       \/ /\ \/ ~policy.block \/ phase # "open"
             \/ call[t] = "slot" /\ policy.timed
          /\ TakeBack(t, FALSE)
    /\ UNCHANGED <<gates, flush, queues, sendq, calls, running>>

--------------------------------------------------------------------------------
(* The worker. *)

Idle == /\ phase # "stopped" /\ raw = 0 /\ ingress = <<>> /\ sealed = <<>> /\ ~flush
Builders == {b \in DOMAIN builder : builder[b] > 0}

LookStopped(w) == \* leaves what is still in the builders and the queues
    /\ at[w] = "look" /\ cond[w] # "asleep"
    /\ \/ /\ Idle /\ Sleep(w)
          /\ at' = [at EXCEPT ![w] = IF Builders = {} THEN "look" ELSE "linger"]
       \/ phase = "stopped" /\ at' = [at EXCEPT ![w] = "gone"] /\ Quiet(w)
    /\ UNCHANGED <<gates, flush, pool, queues, sendq, adding, hand, task, inflight,
                   ended>>
Look(w) ==
    /\ at[w] = "look" /\ cond[w] # "asleep"
    /\ \/ /\ Idle /\ Sleep(w)
          /\ at' = [at EXCEPT ![w] = IF Builders = {} THEN "look" ELSE "linger"]
       \/ /\ phase = "stopped" /\ raw = 0 /\ ingress = <<>> /\ sealed = <<>>
          /\ Builders = {} /\ at' = [at EXCEPT ![w] = "gone"] /\ Quiet(w)
    /\ UNCHANGED <<gates, flush, pool, queues, sendq, adding, hand, task, inflight,
                   ended>>

(* The oldest builder reached flush_interval_ms. *)
LingerOver(w) ==
    /\ policy.linger /\ at[w] = "linger" /\ cond[w] = "asleep"
    /\ cond' = [cond EXCEPT ![w] = "woken"] /\ at' = [at EXCEPT ![w] = "due"]
    /\ UNCHANGED <<gates, flush, pool, queues, sendq, adding, hand, task, inflight,
                   ended>>

(* The batches of the ingress queue join the default builder one after the  *)
(* other; s counts the signals that sends.                                  *)
MergeOne(s, item) ==
    LET n == s.open + item.logs
        full == item.force \/ n >= PackLogs
    IN  [open |-> IF full THEN 0 ELSE n,
         sealed |-> IF full THEN Append(s.sealed, n) ELSE s.sealed,
         full |-> s.full \/ full,
         signals |-> s.signals + 1 +
                     (IF full \/ (policy.linger /\ n = 1) THEN 1 ELSE 0)]
Merged ==
    LET after[i \in 0 .. Len(ingress)] ==
            IF i = 0 THEN [open |-> builder["default"], sealed |-> sealed,
                           full |-> FALSE, signals |-> 0]
                     ELSE MergeOne(after[i - 1], ingress[i])
    IN  after[Len(ingress)]

(* One pass: merge, seal what is due or everything, take all sealed ones.   *)
Opened == [builder EXCEPT !["default"] = Merged.open]
Seal(w, seals) == \* and take them, behind what the merge sealed
    LET Taken(b) == IF b \in seals THEN <<Opened[b]>> ELSE <<>>
    IN  /\ hand' = [hand EXCEPT ![w] =
                       Merged.sealed \o Taken("default") \o Taken("keyed")]
        /\ builder' = [b \in DOMAIN Opened |-> IF b \in seals THEN 0 ELSE Opened[b]]
Collect(w) ==
    /\ cond[w] # "asleep"
    /\ \/ at[w] \in {"linger", "due"}
       \/ /\ at[w] = "look" /\ ~Idle
          /\ phase = "stopped" /\ raw = 0 /\ ingress = <<>> /\ sealed = <<>> => Builders # {}
    /\ \E due \in SUBSET (IF policy.linger THEN DOMAIN builder ELSE {}) :
          /\ at[w] = "due" /\ Builders # {} => due \cap Builders # {}
          /\ Seal(w, {b \in DOMAIN Opened :
                        /\ Opened[b] > 0
                        /\ flush \/ Merged.full \/ phase = "stopped" \/ b \in due})
    /\ sealed' = <<>> /\ ingress' = <<>> /\ flush' = FALSE
    /\ pool' = Move("ingress", "queue", Logs(ingress))
    /\ Signals(Merged.signals, w)
    /\ at' = [at EXCEPT ![w] = "raw"]
    /\ UNCHANGED <<gates, raw, sendq, adding, task, inflight, ended>>

(* A package becomes a task: from a raw item, whose byte leaves the queue,  *)
(* or from the sealed builder at the head, whose bytes stay until Settle.   *)
(* Its body is sent plain (none or small), compressed in a pooled buffer,   *)
(* or in memory the budget must have first.                                 *)
Pack(w, logs, body, from) ==
    \E kind \in {"plain", "pooled", "scratch"} :
        /\ task' = [task EXCEPT ![w] =
              [logs |-> logs, held |-> 0, kind |-> kind, from |-> from,
               mem |-> body + IF kind = "pooled" THEN Packed ELSE 0]]
        /\ at' = [at EXCEPT ![w] = IF kind = "scratch" THEN "compress" ELSE "packed"]
RawPop(w) ==
    /\ at[w] = "raw" /\ raw > 0
    /\ raw' = raw - 1 /\ pool' = Release("queue", RawBytes) /\ Signals(1, w)
    /\ Pack(w, 1, RawBytes, "raw")
    /\ UNCHANGED <<gates, flush, builder, sealed, ingress, sendq, adding, hand,
                   inflight, ended>>
RawDone(w) ==
    /\ at[w] = "raw" /\ raw = 0 /\ at' = [at EXCEPT ![w] = "hand"]
    /\ UNCHANGED <<gates, flush, pool, queues, sendq, adding, cond, hand, task,
                   inflight, ended>>
TakeSealed(w) ==
    /\ at[w] = "hand"
    /\ IF hand[w] = <<>>
       THEN at' = [at EXCEPT ![w] = "look"] /\ UNCHANGED task
       ELSE Pack(w, Head(hand[w]), Head(hand[w]) + Envelope, "builder")
    /\ UNCHANGED <<gates, flush, pool, queues, sendq, adding, cond, hand, inflight,
                   ended>>

(* The task leaves the worker; a builder's bytes are settled afterwards.    *)
Leave(w) ==
    /\ at' = [at EXCEPT ![w] = IF task[w].from = "raw" THEN "raw" ELSE "settle"]
    /\ task' = [task EXCEPT ![w] = NoTask]
(* manager_drop_range and send_task_free. *)
Drop(w, signal) ==
    /\ Leave(w) /\ ended' = ended + task[w].logs
    /\ pool' = Release("scratch", task[w].held)
    /\ IF task[w].held > 0 THEN Broadcast(w) ELSE SignalsIf(signal, w)

Bound(w) == task[w].mem + Slack
Compress(w) ==
    /\ at[w] = "compress" /\ GetsSpace(w, Bound(w), TRUE) /\ Quiet(w)
    /\ pool' = Take("scratch", Bound(w))
    /\ task' = [task EXCEPT ![w] = [task[w] EXCEPT !.held = Bound(w), !.mem = @ + Packed]]
    /\ at' = [at EXCEPT ![w] = "packed"]
    /\ UNCHANGED <<gates, flush, queues, sendq, adding, hand, inflight, ended>>

(* The codec fails, or the body is too large after compression. *)
Reject(w) ==
    /\ at[w] = "packed" /\ cond[w] = "none" /\ Drop(w, FALSE)
    /\ UNCHANGED <<gates, flush, queues, sendq, adding, hand, inflight>>

(* What the task takes beyond the scratch it holds must be free. *)
More(w) == IF at[w] = "compress" THEN Bound(w) ELSE Less(task[w].mem, task[w].held)
Swap(w) ==
    /\ at[w] = "packed"
    /\ IF More(w) = 0 THEN cond[w] # "asleep" ELSE GetsSpace(w, More(w), TRUE)
    /\ pool' = [pool EXCEPT !["scratch"] = Less(@, task[w].held),
                            !["send"] = @ + task[w].mem]
    /\ task' = [task EXCEPT ![w].held = 0]
    /\ Broadcast(w) /\ at' = [at EXCEPT ![w] = "push"]
    /\ UNCHANGED <<gates, flush, queues, sendq, adding, hand, inflight, ended>>
Refused(w) ==
    /\ at[w] \in {"compress", "packed"} /\ More(w) > 0 /\ NoSpace(w, More(w), TRUE)
    /\ flush' = (flush \/ Expires(w, More(w), TRUE))
    /\ Drop(w, Expires(w, More(w), TRUE))
    /\ UNCHANGED <<gates, queues, sendq, adding, hand, inflight>>
WorkerBlocks(w) ==
    /\ at[w] \in {"compress", "packed"} /\ More(w) > 0 /\ Blocks(w, More(w), TRUE)

Push(w) ==
    /\ at[w] = "push" /\ ~sendStop /\ Len(sendq) < SendCap
    /\ sendq' = Append(sendq, task[w]) /\ Leave(w)
    /\ UNCHANGED <<gates, flush, pool, queues, adding, cond, hand, inflight, ended>>
PushFails(w) ==
    /\ at[w] = "push"
    /\ sendStop \/ (Len(sendq) >= SendCap /\ (~policy.block \/ policy.timed))
    /\ pool' = Release("send", task[w].mem) /\ Broadcast(w)
    /\ ended' = ended + task[w].logs /\ Leave(w)
    /\ UNCHANGED <<gates, flush, queues, sendq, adding, hand, inflight>>
Settle(w) ==
    /\ at[w] = "settle"
    /\ pool' = Release("queue", Head(hand[w])) /\ Signals(1, w)
    /\ hand' = [hand EXCEPT ![w] = Tail(@)] /\ at' = [at EXCEPT ![w] = "hand"]
    /\ UNCHANGED <<gates, flush, queues, sendq, adding, task, inflight, ended>>

--------------------------------------------------------------------------------
(* A sender, and the end of the producer. *)

Pop(s) ==
    /\ at[s] = "pop"
    /\ IF sendq # <<>>
       THEN /\ task' = [task EXCEPT ![s] = Head(sendq)] /\ sendq' = Tail(sendq)
            /\ at' = [at EXCEPT ![s] = "popped"]
       ELSE /\ sendStop /\ at' = [at EXCEPT ![s] = "gone"]
            /\ UNCHANGED <<task, sendq>>
    /\ UNCHANGED <<gates, flush, pool, queues, adding, cond, hand, inflight, ended>>
(* The task is in no counter close looks at until fast_inflight is raised.  *)
StartUncounted(s) == \* fast_inflight is only lowered
    /\ at[s] = "popped" /\ at' = [at EXCEPT ![s] = "sending"]
    /\ pool' = Move("send", "inflight", task[s].mem) /\ UNCHANGED inflight
    /\ UNCHANGED <<gates, flush, queues, sendq, adding, cond, hand, task, ended>>
Start(s) ==
    /\ at[s] = "popped" /\ at' = [at EXCEPT ![s] = "sending"]
    /\ pool' = Move("send", "inflight", task[s].mem) /\ inflight' = inflight + 1
    /\ UNCHANGED <<gates, flush, queues, sendq, adding, cond, hand, task, ended>>
(* The last attempt ended: the callback runs and the task is released.      *)
Finish(s) ==
    /\ at[s] = "sending" /\ at' = [at EXCEPT ![s] = "pop"]
    /\ ended' = ended + task[s].logs
    /\ pool' = Release("inflight", task[s].mem) /\ Broadcast(s)
    /\ inflight' = inflight - 1 /\ task' = [task EXCEPT ![s] = NoTask]
    /\ UNCHANGED <<gates, flush, queues, sendq, adding, hand>>

Flushing(w) == at[w] \notin {"look", "linger", "due", "gone"}
Drained ==
    /\ raw = 0 /\ ingress = <<>> /\ sealed = <<>> /\ sendq = <<>>
    /\ Builders = {} /\ inflight = 0 /\ \A w \in Workers : ~Flushing(w)
StopSilently == /\ phase' = "stopped"
                /\ UNCHANGED <<policy, sendStop, flush, queues, sendq, cond, running>>
Stop == /\ phase' = "stopped" /\ cond' = Wake(Asleep, "nobody")
        /\ UNCHANGED <<policy, sendStop, flush, queues, sendq, running>>
FinishClose ==
    /\ phase = "closing" /\ Drained /\ Stop /\ UNCHANGED <<pool, adding>>
(* Destroy, with or without a close that succeeded, when no call is left:    *)
(* the batch of its own thread, if any, is thrown away.                     *)
Destroy ==
    /\ phase # "stopped" /\ \A t \in Adders : call[t] = "idle"
    /\ Stop
    /\ \E t \in Adders :
          /\ pool' = Release("tls", batch[t]) /\ batch' = [batch EXCEPT ![t] = 0]
          /\ accepted' = accepted - batch[t]
    /\ UNCHANGED <<call, force, closer, calls, late>>
StopSending ==
    /\ phase = "stopped" /\ ~sendStop /\ sendStop' = TRUE
    /\ UNCHANGED <<policy, phase, flush, pool, queues, sendq, adding, cond, running>>

Adding(t) ==
    \/ Closed(t) \/ Rejected(t) \/ AdderBlocks(t) \/ AddKeyed(t) \/ Reserve(t)
    \/ Enqueue(t) \/ Appends(t) \/ MergeBatch(t) \/ FlushBatch(t) \/ IngressFull(t)
    \/ WaitEnds(t)
Working(w) ==
    \/ Look(w) \/ LingerOver(w) \/ Collect(w) \/ RawPop(w) \/ RawDone(w)
    \/ TakeSealed(w) \/ Compress(w) \/ Reject(w) \/ Swap(w) \/ Refused(w)
    \/ WorkerBlocks(w) \/ WaitEnds(w) \/ Push(w) \/ PushFails(w) \/ Settle(w)
Sending(s) == Pop(s) \/ Start(s) \/ Finish(s)
Ending == FinishClose \/ StopSending

Gone == \A t \in Workers \cup Senders : at[t] = "gone"
Next ==
    \/ \E t \in Adders : Add(t) \/ Flush(t) \/ StartClose(t) \/ Adding(t)
    \/ \E w \in Workers : Working(w)
    \/ \E s \in Senders : Sending(s)
    \/ Ending \/ Destroy

(* Threads run; requests end; calls may or may not be made. *)
Fairness ==
    /\ \A t \in Adders : WF_vars(Adding(t))
    /\ \A w \in Workers : WF_vars(Working(w))
    /\ \A s \in Senders : WF_vars(Sending(s))
    /\ WF_vars(Ending)
Spec == Init /\ [][Next]_vars /\ Fairness

--------------------------------------------------------------------------------
(* Properties. *)

TypeOK ==
    /\ phase \in {"open", "closing", "stopped"} /\ sendStop \in BOOLEAN
    /\ flush \in BOOLEAN /\ pool \in [Pools -> Nat] /\ raw \in Nat
    /\ closer \subseteq Adders /\ cond \in [Threads -> {"none", "asleep", "woken"}]
    /\ inflight \in 0 .. Cardinality(Senders) /\ late \in 0 .. accepted

(* Every counter is the bytes somebody holds under it: nothing is released   *)
(* twice or never on the paths where an append, a merge, a compression, a    *)
(* push or a wait fails half-way.                                            *)
At(places, t) == IF at[t] \in places THEN task[t].mem ELSE 0
TlsBytes(t) == batch[t] + (IF call[t] = "append" THEN 1 ELSE 0)
Copying(t) == IF call[t] = "copy" THEN RawBytes ELSE 0
PoolsExact ==
    /\ pool["tls"] = Sum([t \in Adders |-> TlsBytes(t)])
    /\ pool["queue"] = builder["default"] + builder["keyed"] + Sum(sealed)
                       + RawBytes * raw + Sum([t \in Adders |-> Copying(t)])
                       + Sum([w \in Workers |-> Sum(hand[w])])
    /\ pool["ingress"] = Logs(ingress)
    /\ pool["scratch"] = Sum([w \in Workers |-> task[w].held])
    /\ pool["send"] = Mem(sendq) + Sum([w \in Workers |-> At({"push"}, w)])
                                 + Sum([s \in Senders |-> At({"popped"}, s)])
    /\ pool["inflight"] = Sum([s \in Senders |-> At({"sending"}, s)])

(* What adds hold never exceeds the buffer less the share of the senders,   *)
(* and what the workers and senders hold never exceeds the buffer: so       *)
(* memory stays below the sum of the two, not below max_buffer_bytes.       *)
WithinBudget ==
    /\ IngressBytes <= MaxBytes - SendReserved
    /\ BufferedBytes - IngressBytes <= MaxBytes

(* Once the threads are gone every accepted log got its callback, except    *)
(* those in batches of threads that never flushed them and those handed in   *)
(* after the end by a call that had already passed its check: its own log,   *)
(* and the whole batch that it flushed or merged.                            *)
Batched == Sum(batch)
Left == builder["default"] + builder["keyed"] + raw + Sum(sealed) + Logs(ingress)
ResultsComplete ==
    Gone /\ (\A t \in Adders : call[t] = "idle") =>
        /\ accepted = ended + Batched + Left
        /\ sendq = <<>> /\ Left <= late

(* Closing ends: every thread exits and no call stays blocked, whatever it  *)
(* waits for.                                                               *)
ClosingReleases ==
    phase # "open" ~> Gone /\ \A t \in Adders : call[t] = "idle"

(* A log does not wait in its builder for ever when a linger is configured. *)
LingerSeals == builder["keyed"] > 0 ~> builder["keyed"] = 0
===============================================================================
