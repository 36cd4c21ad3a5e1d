----------------------------- MODULE SendPipeline -----------------------------
(***************************************************************************)
(* From a sealed batch to its final result: the worker that hands batches  *)
(* to the send queue, the key queues with their ready, delayed and idle    *)
(* lists, the sender threads (ve_tls_sender_main), and close.              *)
(*                                                                         *)
(* One step is what a thread does under one hold of producer->mutex or of  *)
(* the mutex of the send queue.  A sender gives the mutex up between       *)
(* taking a batch from the send queue and putting it on its key queue,     *)
(* between a request and its result, and between the result and the        *)
(* release of the key queue.                                               *)
(***************************************************************************)
EXTENDS Naturals, Sequences, FiniteSets

CONSTANTS
    Keys,           \* the hash keys
    Senders,        \* the sender threads
    None,           \* no batch, no key
    MaxBatches,     \* bound: how many batches are opened
    MaxVersion,     \* bound: the last credential version
    Cap,            \* send_queue_size
    MaxActive,      \* key_queue_max_active; 0 is no limit
    IdleKept,       \* key_queue_idle_ttl_ms > 0
    Persistent,     \* there is a write-ahead log
    Retention,      \* memory_retry_retention_ms > 0
    RetainAuth,     \* persistent_auth_failure_policy is RETAIN
    Gated,          \* there are breakers or rate limits of the keys
    HalfOpenMax,    \* breaker_half_open_max_inflight; 0 is no breaker of the producer
    MaxTries,       \* retry_policy.max_attempts; 0 is neither a limit nor a budget
    Large           \* the batches whose bodies are above a rate limit, which never lets them pass

ASSUME SendAssumption ==
    /\ MaxBatches \in Nat /\ MaxVersion \in Nat /\ Cap \in Nat /\ MaxActive \in Nat
    /\ HalfOpenMax \in Nat /\ MaxTries \in Nat /\ Large \subseteq Keys \X (1 .. MaxBatches)
    /\ {IdleKept, Persistent, Retention, RetainAuth, Gated} \subseteq BOOLEAN
    /\ IsFiniteSet(Keys) /\ None \notin Keys /\ None \notin Keys \X (1 .. MaxBatches)

VARIABLES
    phase,      \* closing and stop; "closed" and "destroyed" both have stop
    sqStop,     \* send_queue.stop
    added,      \* per key: how many batches were opened
    builder,    \* per key: the open builder
    sealed,     \* per key: sealed_head
    work,       \* per key: what the worker took from the sealed list
    worker,     \* where the worker is
    slot,       \* the key whose queue the worker reserved
    sendQ,      \* send_queue
    tasks,      \* per key: the ring of the key queue
    live,       \* the keys that have a key queue in key_buckets
    ready,      \* keys on the ready list, in no particular order
    delayed,    \* keys on the delayed list
    due,        \* ... whose next_ready_ms has passed
    idle,       \* keys on the idle list
    inflight,   \* keys whose queue a sender holds
    pc,         \* where each sender is
    task,       \* the batch in a sender's hand
    key,        \* kq: the key whose queue a sender holds
    version,    \* the credential version of a sender's request
    tries,      \* attempt: of a sender's retry cycle; without a limit, whether there was one
    entered,    \* senders that hold a place of the half-open breaker
    leaked,     \* places of breaker_half_open_inflight that nobody gives back
    credVersion,\* static_cred_version
    retained,   \* batches with a retry cycle behind them
    expired,    \* ... whose memory_retry_deadline_ms has passed
    result,     \* how a batch ended
    refused,    \* history: credential versions the service refused
    doomed      \* history: retained batches in a key queue when closing began

buildVars == <<added, builder, sealed>>
workVars == <<work, worker, slot>>
listVars == <<ready, delayed, due, idle>>
credVars == <<credVersion, refused>>
endVars == <<phase, sqStop, doomed>>
passVars == <<tries, entered, leaked>>
senderVars == <<pc, task, key, version, passVars>>
queueVars == <<tasks, live, inflight>>
fateVars == <<retained, expired, result>>
vars == <<buildVars, workVars, sendQ, queueVars, listVars, senderVars, credVars,
          fateVars, endVars>>

Batches == Keys \X (1 .. MaxBatches)
KeyOf(b) == b[1]
Results == {"none", "ok", "failed", "closed", "kept"}

(* A batch is accepted with its first record.                               *)
Accepted == {b \in Batches : b[2] <= added[KeyOf(b)]}
Open == phase = "open"
Stopped == phase \in {"closed", "destroyed"}

-------------------------------------------------------------------------------
(* Key queues *)

(* ve_tls_key_queue_get_or_create finds the queue of a key or makes one,     *)
(* unless there are too many.                                               *)
HasSlot(k) == k \in live \/ MaxActive = 0 \/ Cardinality(live) < MaxActive
Claim(k) == live' = live \cup {k} /\ idle' = idle \ {k}

(* ve_tls_key_queue_remove_and_free takes the queue off every list and       *)
(* frees what is in it.                                                     *)
FreeAll(K) ==
    /\ live' = live \ K
    /\ ready' = ready \ K /\ delayed' = delayed \ K /\ due' = due \ K
    /\ idle' = idle \ K
    /\ tasks' = [k \in Keys |-> IF k \in K THEN <<>> ELSE tasks[k]]
    /\ builder' = [k \in Keys |-> IF k \in K THEN None ELSE builder[k]]

(* ve_tls_ready_add refuses a queue that is listed, held or empty.           *)
MayBeReadyHeld(k) == k \notin delayed
MayBeReady(k) == k \notin delayed /\ k \notin inflight

Settle(b, r) == result' = [result EXCEPT ![b] = r]
Release(b) == retained' = retained \ {b} /\ expired' = expired \ {b}

-------------------------------------------------------------------------------
Init ==
    /\ phase = "open" /\ sqStop = FALSE
    /\ added = [k \in Keys |-> 0]
    /\ builder = [k \in Keys |-> None]
    /\ sealed = [k \in Keys |-> <<>>]
    /\ work = [k \in Keys |-> <<>>] /\ worker = "idle" /\ slot = None
    /\ sendQ = <<>>
    /\ tasks = [k \in Keys |-> <<>>]
    /\ live = {} /\ ready = {} /\ delayed = {} /\ due = {} /\ idle = {} /\ inflight = {}
    /\ pc = [s \in Senders |-> "scan"]
    /\ task = [s \in Senders |-> None] /\ key = [s \in Senders |-> None]
    /\ version = [s \in Senders |-> 0] /\ credVersion = 1
    /\ tries = [s \in Senders |-> 0] /\ entered = {} /\ leaked = 0
    /\ retained = {} /\ expired = {} /\ result = [b \in Batches |-> "none"]
    /\ refused = {} /\ doomed = {}

-------------------------------------------------------------------------------
(* Adders and the worker *)

(* An accepted record opens the builder of its key.                         *)
Add(k) ==
    /\ Open /\ builder[k] = None /\ HasSlot(k)
    /\ Cardinality(Accepted) < MaxBatches
    /\ added' = [added EXCEPT ![k] = @ + 1]
    /\ builder' = [builder EXCEPT ![k] = <<k, added[k] + 1>>]
    /\ Claim(k)
    /\ UNCHANGED <<sealed, workVars, sendQ, tasks, inflight, ready, delayed, due,
                   senderVars, credVars, fateVars, endVars>>

(* ... and one that fills the builder seals it.                             *)
AddFills(k) ==
    /\ Open /\ builder[k] # None
    /\ sealed' = [sealed EXCEPT ![k] = Append(@, builder[k])]
    /\ builder' = [builder EXCEPT ![k] = None]
    /\ UNCHANGED <<added, workVars, sendQ, queueVars, listVars, senderVars, credVars,
                   fateVars, endVars>>

(* The worker seals the builders whose interval is over, all of them when a  *)
(* flush was asked for or the producer ends, and takes the sealed list.     *)
WorkerPass(K) ==
    /\ worker = "idle"
    /\ K \subseteq {k \in Keys : builder[k] # None}
    /\ ~Open => K = {k \in Keys : builder[k] # None}
    /\ K # {} \/ \E k \in Keys : sealed[k] # <<>>
    /\ work' = [k \in Keys |-> IF k \in K THEN Append(sealed[k], builder[k]) ELSE sealed[k]]
    /\ sealed' = [k \in Keys |-> <<>>]
    /\ builder' = [k \in Keys |-> IF k \in K THEN None ELSE builder[k]]
    /\ worker' = "flushing"
    /\ UNCHANGED <<added, slot, sendQ, queueVars, listVars, senderVars, credVars,
                   fateVars, endVars>>

(* The key queue is reserved first; without a slot the batch is dropped.    *)
Reserve(k) ==
    /\ worker = "flushing" /\ work[k] # <<>>
    /\ IF HasSlot(k)
       THEN /\ Claim(k)
            /\ worker' = "reserved" /\ slot' = k
            /\ UNCHANGED <<work, result>>
       ELSE /\ Settle(Head(work[k]), "failed")
            /\ work' = [work EXCEPT ![k] = Tail(@)]
            /\ UNCHANGED <<worker, slot, live, idle>>
    /\ UNCHANGED <<buildVars, sendQ, tasks, inflight, ready, delayed, due, senderVars,
                   credVars, retained, expired, endVars>>

HasRoomForOneMore == Len(sendQ) <= Cap
HasRoom == Len(sendQ) < Cap

Push ==
    /\ worker = "reserved" /\ ~sqStop /\ HasRoom
    /\ sendQ' = Append(sendQ, Head(work[slot]))
    /\ work' = [work EXCEPT ![slot] = Tail(@)]
    /\ worker' = "flushing" /\ slot' = None
    /\ UNCHANGED <<buildVars, queueVars, listVars, senderVars, credVars, fateVars, endVars>>

(* The buffer budget refuses the batch, or the send queue is stopped, or it  *)
(* is full and not waited for (DROP), or the wait timed out (BLOCK).        *)
PushFails ==
    /\ worker = "reserved"
    /\ Settle(Head(work[slot]), "failed")
    /\ work' = [work EXCEPT ![slot] = Tail(@)]
    /\ worker' = "rollback"
    /\ UNCHANGED <<buildVars, slot, sendQ, queueVars, listVars, senderVars, credVars,
                   retained, expired, endVars>>

(* ve_tls_key_queue_unreserve gives the slot back if nobody uses it.        *)
UnusedQueueLoose(k) == tasks[k] = <<>> /\ k \notin ready \cup delayed /\ builder[k] = None
UnusedTasks(k) == tasks[k] = <<>> /\ k \notin inflight \cup ready \cup delayed
UnusedQueue(k) ==
    tasks[k] = <<>> /\ k \notin inflight \cup ready \cup delayed /\ builder[k] = None

Rollback ==
    /\ worker = "rollback"
    /\ FreeAll({k \in {slot} : UnusedQueue(k)})
    /\ worker' = "flushing" /\ slot' = None
    /\ UNCHANGED <<added, sealed, work, sendQ, inflight, senderVars, credVars, fateVars, endVars>>

WorkerDone ==
    /\ worker = "flushing" /\ \A k \in Keys : work[k] = <<>>
    /\ worker' = "idle"
    /\ UNCHANGED <<buildVars, work, slot, sendQ, queueVars, listVars, senderVars, credVars,
                   fateVars, endVars>>

WorkerExit ==
    /\ worker = "idle" /\ Stopped
    /\ \A k \in Keys : sealed[k] = <<>> /\ builder[k] = None
    /\ worker' = "exited"
    /\ UNCHANGED <<buildVars, work, slot, sendQ, queueVars, listVars, senderVars, credVars,
                   fateVars, endVars>>

-------------------------------------------------------------------------------
(* Senders: looking for work *)

(* The delayed queues that are due, all of them once the producer closes,    *)
(* leave the delayed list for the ready list.                               *)
Promoted == IF Open THEN due ELSE delayed
ReadyAsBefore == ready
ReadyAfterPromotion ==
    ready \cup {k \in Promoted : k \notin inflight /\ tasks[k] # <<>>}

(* What the sender makes of the batch it popped: retained batches end here   *)
(* when the producer closes, and memory-only ones when they are too old.    *)
PoppedAlways(b) == "none"
Popped(b) ==
    IF b \in retained /\ ~Open THEN (IF Persistent THEN "kept" ELSE "closed")
    ELSE IF b \in retained \cap expired /\ ~Persistent THEN "failed"
    ELSE "none"

ScanReady(s, k) ==
    /\ pc[s] = "scan" /\ k \in ReadyAfterPromotion
    /\ delayed' = delayed \ Promoted /\ due' = due \ Promoted
    /\ ready' = ReadyAfterPromotion \ {k}
    /\ inflight' = inflight \cup {k} /\ key' = [key EXCEPT ![s] = k]
    /\ tasks' = [tasks EXCEPT ![k] = Tail(@)]
    /\ LET b == Head(tasks[k])
       IN  IF Popped(b) = "none"
           THEN /\ task' = [task EXCEPT ![s] = b]
                /\ pc' = [pc EXCEPT ![s] = "send"]
                /\ UNCHANGED fateVars
           ELSE /\ Settle(b, Popped(b)) /\ Release(b)
                /\ pc' = [pc EXCEPT ![s] = "finish"]
                /\ UNCHANGED task
    /\ UNCHANGED <<buildVars, workVars, sendQ, live, idle, version, passVars, credVars, endVars>>

(* No queue is ready: wait for the send queue, for ever unless something is  *)
(* delayed or the producer stops.                                           *)
WaitsAnyhow(d) == ~Stopped
WaitsForEver(d) == d = {} /\ ~Stopped

ScanNothing(s) ==
    /\ pc[s] = "scan" /\ ReadyAfterPromotion = {}
    /\ delayed' = delayed \ Promoted /\ due' = due \ Promoted
    /\ pc' = [pc EXCEPT ![s] = IF WaitsForEver(delayed') THEN "await" ELSE "poll"]
    /\ UNCHANGED <<buildVars, workVars, sendQ, queueVars, ready, idle, task, key, version, passVars,
                   credVars, fateVars, endVars>>

(* ve_tls_send_queue_pop, in its four uses: waiting, polling, and the last   *)
(* look of a sender that is about to leave.                                 *)
Take(s) ==
    /\ pc[s] \in {"await", "poll", "tail", "leave"} /\ sendQ # <<>>
    /\ task' = [task EXCEPT ![s] = Head(sendQ)]
    /\ sendQ' = Tail(sendQ)
    /\ pc' = [pc EXCEPT ![s] = "inbound"]
    /\ UNCHANGED <<buildVars, workVars, queueVars, listVars, key, version, passVars, credVars,
                   fateVars, endVars>>

(* A persistent producer wakes a waiting sender for the lease heartbeat.     *)
TakeNothing(s) ==
    /\ sendQ = <<>>
    /\ \/ pc[s] = "poll"
       \/ pc[s] = "await" /\ (sqStop \/ Persistent)
    /\ pc' = [pc EXCEPT ![s] = "relock"]
    /\ UNCHANGED <<buildVars, workVars, sendQ, queueVars, listVars, task, key, version, passVars,
                   credVars, fateVars, endVars>>

(* ve_tls_key_queue_push_task: the batch joins its key queue, which is ready *)
(* unless it was so before, is delayed, or is held.                         *)
Inbound(s) ==
    /\ pc[s] = "inbound"
    /\ LET b == task[s]
           k == KeyOf(b)
       IN  IF HasSlot(k)
           THEN /\ Claim(k)
                /\ tasks' = [tasks EXCEPT ![k] = Append(@, b)]
                /\ ready' = IF tasks[k] = <<>> /\ MayBeReady(k) THEN ready \cup {k} ELSE ready
                /\ UNCHANGED result
           ELSE /\ Settle(b, "failed")
                /\ UNCHANGED <<live, idle, tasks, ready>>
    /\ task' = [task EXCEPT ![s] = None]
    /\ pc' = [pc EXCEPT ![s] = "scan"]
    /\ UNCHANGED <<buildVars, workVars, sendQ, inflight, delayed, due, key, version, passVars,
                   credVars, retained, expired, endVars>>

(* Nothing came from the send queue.  A stopped sender with nothing ready    *)
(* looks whether any key queue is in use, and then once more at the send    *)
(* queue.  In all other cases it frees idle queues, waits for the earliest  *)
(* retry or a signal, and starts over: the wait has a timeout, so it is not *)
(* a state of its own.                                                      *)
InUse(k) == tasks[k] # <<>> \/ k \in inflight
Leaving == Stopped /\ ready = {} /\ delayed = {}

RelockLeaving(s) ==
    /\ pc[s] = "relock" /\ Leaving
    /\ pc' = [pc EXCEPT ![s] = IF \E k \in Keys : InUse(k) THEN "tail" ELSE "leave"]
    /\ UNCHANGED <<buildVars, workVars, sendQ, queueVars, listVars, task, key, version, passVars,
                   credVars, fateVars, endVars>>

Cleanable(k) == k \in idle /\ tasks[k] = <<>> /\ k \notin inflight /\ builder[k] = None

Again(s, K) ==
    /\ \/ pc[s] = "relock" /\ ~Leaving
       \/ pc[s] = "tail" /\ sendQ = <<>>
    /\ K \subseteq {k \in Keys : Cleanable(k)}
    /\ ~Open /\ delayed # {} => K = {}
    /\ FreeAll(K)
    /\ pc' = [pc EXCEPT ![s] = "scan"]
    /\ UNCHANGED <<added, sealed, workVars, sendQ, inflight, task, key, version, passVars, credVars,
                   fateVars, endVars>>

Leave(s) ==
    /\ pc[s] = "leave" /\ sendQ = <<>>
    /\ pc' = [pc EXCEPT ![s] = "exited"]
    /\ UNCHANGED <<buildVars, workVars, sendQ, queueVars, listVars, task, key, version, passVars,
                   credVars, fateVars, endVars>>

-------------------------------------------------------------------------------
(* Senders: sending *)

(* The task goes back to the head of its queue, the sender lets go of the    *)
(* queue, and the queue is listed as delayed.                               *)
Behind(b, q) == Append(q, b)
InFront(b, q) == <<b>> \o q

PutBack(s) ==
    LET k == key[s]
    IN  /\ tasks' = [tasks EXCEPT ![k] = InFront(task[s], @)]
        /\ inflight' = inflight \ {k}
        /\ ready' = ready \ {k} /\ idle' = idle \ {k}
        /\ delayed' = delayed \cup {k} /\ due' = due \ {k}
        /\ task' = [task EXCEPT ![s] = None] /\ key' = [key EXCEPT ![s] = None]
        /\ version' = [version EXCEPT ![s] = 0]
        /\ tries' = [tries EXCEPT ![s] = 0] /\ entered' = entered \ {s}
        /\ pc' = [pc EXCEPT ![s] = "scan"]

(* A final result: the callbacks run, the breaker is left and the task is    *)
(* released.  The key queue is let go of later, in Finish.                  *)
End(s, r) ==
    /\ Settle(task[s], r) /\ Release(task[s])
    /\ task' = [task EXCEPT ![s] = None] /\ version' = [version EXCEPT ![s] = 0]
    /\ tries' = [tries EXCEPT ![s] = 0] /\ entered' = entered \ {s} /\ UNCHANGED leaked
    /\ pc' = [pc EXCEPT ![s] = "finish"]

(* Every attempt has to pass the breaker and the rate limit of its key.      *)
PassGate(s) ==
    /\ pc[s] = "send"
    /\ pc' = [pc EXCEPT ![s] = IF HalfOpenMax > 0 /\ s \notin entered THEN "enter" ELSE "limit"]
    /\ UNCHANGED <<buildVars, workVars, sendQ, queueVars, listVars, task, key, version,
                   passVars, credVars, fateVars, endVars>>

(* They turn the batch back, a retry as well as a first attempt: a retry     *)
(* starts over, and the place that it holds in the half-open breaker is not  *)
(* given back.                                                              *)
Defer(s) ==
    /\ Gated /\ pc[s] = "send"
    /\ PutBack(s)
    /\ leaked' = IF s \in entered THEN leaked + 1 ELSE leaked
    /\ UNCHANGED <<buildVars, workVars, sendQ, live, credVars, fateVars, endVars>>

(* The first attempt waits for a place, in a loop that looks at nothing else. *)
PlaceFree == Cardinality(entered) + leaked < HalfOpenMax

EnterBreaker(s) ==
    /\ pc[s] = "enter" /\ PlaceFree
    /\ entered' = entered \cup {s}
    /\ pc' = [pc EXCEPT ![s] = "limit"]
    /\ UNCHANGED <<buildVars, workVars, sendQ, queueVars, listVars, task, key, version,
                   tries, leaked, credVars, fateVars, endVars>>

(* ve_tls_rate_limit_wait waits for the tokens of the body, or for stop.     *)
HasTokens(b) == b \notin Large \/ Stopped

TooOld(b) == ~Persistent /\ b \in retained \cap expired

EndsTooOld(s) ==
    /\ pc[s] = "limit" /\ HasTokens(task[s]) /\ TooOld(task[s])
    /\ End(s, "failed")
    /\ UNCHANGED <<buildVars, workVars, sendQ, queueVars, listVars, key, credVars, endVars>>

(* The request is signed with the installed credentials, whose version is    *)
(* remembered, and goes out.                                                *)
Request(s) ==
    /\ pc[s] = "limit" /\ HasTokens(task[s]) /\ ~TooOld(task[s])
    /\ version' = [version EXCEPT ![s] = credVersion]
    /\ tries' = [tries EXCEPT ![s] = IF MaxTries = 0 THEN 1 ELSE @ + 1]
    /\ pc' = [pc EXCEPT ![s] = "sent"]
    /\ UNCHANGED <<buildVars, workVars, sendQ, queueVars, listVars, task, key, entered,
                   leaked, credVars, fateVars, endVars>>

(* A failure that may pass is followed by another attempt while the limits   *)
(* allow it, whether or not the producer closes.                            *)
Retry(s) ==
    /\ pc[s] = "sent"
    /\ MaxTries = 0 \/ tries[s] < MaxTries
    /\ pc' = [pc EXCEPT ![s] = "send"]
    /\ UNCHANGED <<buildVars, workVars, sendQ, queueVars, listVars, task, key, version,
                   passVars, credVars, fateVars, endVars>>

(* Otherwise the retry cycle ends, in one of four ways.                     *)
Delivered(s) ==
    /\ pc[s] = "sent"
    /\ End(s, "ok")
    /\ UNCHANGED <<buildVars, workVars, sendQ, queueVars, listVars, key, credVars, endVars>>

Rejected(s) ==
    /\ pc[s] = "sent"
    /\ End(s, "failed")
    /\ UNCHANGED <<buildVars, workVars, sendQ, queueVars, listVars, key, credVars, endVars>>

(* The service refuses the credentials: a persistent producer that retains   *)
(* keeps the batch in the sender's hand until there are others.  The breaker *)
(* is left, and the attempts start over.                                    *)
RefusedVersionLate(s) == credVersion
RefusedVersion(s) == version[s]

Refused(s) ==
    /\ pc[s] = "sent" /\ Persistent /\ RetainAuth
    /\ refused' = refused \cup {version[s]}
    /\ version' = [version EXCEPT ![s] = RefusedVersion(s)]
    /\ tries' = [tries EXCEPT ![s] = 0] /\ entered' = entered \ {s}
    /\ pc' = [pc EXCEPT ![s] = "authwait"]
    /\ UNCHANGED <<buildVars, workVars, sendQ, queueVars, listVars, task, key, leaked,
                   credVersion, fateVars, endVars>>

(* The failure may pass, but the attempts or the budget are used up.  The     *)
(* batch is retained for another cycle, unless nothing retains it, or the    *)
(* producer closes.  To retain it is no result, and the application's        *)
(* callbacks do not run.                                                    *)
LearnsTwice(b) == Settle(b, "failed")
LearnsNothing(b) == UNCHANGED result

Retains(b) == Persistent \/ (Retention /\ b \notin expired)

TransientFailure(s) ==
    /\ pc[s] = "sent"
    /\ LET b == task[s]
       IN  IF ~Retains(b)
           THEN /\ End(s, "failed")
                /\ UNCHANGED <<tasks, inflight, ready, delayed, due, idle, key>>
           ELSE IF Open
           THEN /\ PutBack(s) /\ LearnsNothing(b)
                /\ retained' = retained \cup {b}
                /\ UNCHANGED <<expired, leaked>>
           ELSE /\ End(s, IF Persistent THEN "kept" ELSE "closed")
                /\ UNCHANGED <<tasks, inflight, ready, delayed, due, idle, key>>
    /\ UNCHANGED <<buildVars, workVars, sendQ, live, credVars, endVars>>

(* ve_tls_wait_for_static_credentials_update                                *)
WokenByUpdate(s) == credVersion # version[s]
Woken(s) == ~Open \/ credVersion # version[s]

AuthWaitEnds(s) ==
    /\ pc[s] = "authwait" /\ Woken(s)
    /\ IF Open
       THEN pc' = [pc EXCEPT ![s] = "send"] /\ UNCHANGED <<task, version, passVars, fateVars>>
       ELSE End(s, "kept")
    /\ UNCHANGED <<buildVars, workVars, sendQ, queueVars, listVars, key, credVars, endVars>>

(* ve_tls_key_queue_finish: the sender lets go of the key queue.  It is ready *)
(* again, or stays because of a builder, or is idle, or goes.                *)
HasBuilder(k) == builder[k] # None

Finish(s) ==
    /\ pc[s] = "finish"
    /\ LET k == key[s]
       IN  /\ inflight' = inflight \ {k}
           /\ \/ /\ tasks[k] # <<>>
                 /\ ready' = ready \cup {k}
                 /\ UNCHANGED <<delayed, due, idle, live, tasks, builder>>
              \/ /\ tasks[k] # <<>> /\ Gated
                 /\ delayed' = delayed \cup {k}
                 /\ UNCHANGED <<ready, due, idle, live, tasks, builder>>
              \/ /\ tasks[k] = <<>> /\ HasBuilder(k)
                 /\ UNCHANGED <<ready, delayed, due, idle, live, tasks, builder>>
              \/ /\ tasks[k] = <<>> /\ ~HasBuilder(k) /\ IdleKept
                 /\ idle' = idle \cup {k}
                 /\ UNCHANGED <<ready, delayed, due, live, tasks, builder>>
              \/ /\ tasks[k] = <<>> /\ ~HasBuilder(k) /\ ~IdleKept
                 /\ FreeAll({k})
    /\ key' = [key EXCEPT ![s] = None]
    /\ pc' = [pc EXCEPT ![s] = "scan"]
    /\ UNCHANGED <<added, sealed, workVars, sendQ, task, version, passVars, credVars, fateVars, endVars>>

-------------------------------------------------------------------------------
(* Time, the application, and close *)

(* The retry deadline of a delayed queue passes.                            *)
RetryDue(k) ==
    /\ k \in delayed \ due
    /\ due' = due \cup {k}
    /\ UNCHANGED <<buildVars, workVars, sendQ, queueVars, ready, delayed, idle, senderVars,
                   credVars, fateVars, endVars>>

(* The retention of a batch that was sent before runs out.                  *)
Expire(b) ==
    /\ Retention /\ ~Persistent
    /\ b \notin expired
    /\ b \in retained \/ \E s \in Senders : pc[s] = "sent" /\ task[s] = b
    /\ expired' = expired \cup {b}
    /\ UNCHANGED <<buildVars, workVars, sendQ, queueVars, listVars, senderVars, credVars,
                   retained, result, endVars>>

(* ve_tls_producer_notify_network_recovered: delayed queues whose first task *)
(* is retained are due now; one that waits for its gate is not.             *)
NetworkRecovered ==
    /\ Open /\ (Retention \/ Persistent)
    /\ due' = due \cup {k \in delayed : tasks[k] # <<>> /\ Head(tasks[k]) \in retained}
    /\ UNCHANGED <<buildVars, workVars, sendQ, queueVars, ready, delayed, idle, senderVars,
                   credVars, fateVars, endVars>>

UpdateCredentials ==
    /\ Open /\ credVersion < MaxVersion
    /\ credVersion' = credVersion + 1
    /\ UNCHANGED <<buildVars, workVars, sendQ, queueVars, listVars, senderVars, refused,
                   fateVars, endVars>>

WaitingRetained == {b \in retained : \E k \in Keys : \E i \in DOMAIN tasks[k] : tasks[k][i] = b}

CloseBegin ==
    /\ Open
    /\ phase' = "closing"
    /\ doomed' = WaitingRetained
    /\ UNCHANGED <<buildVars, workVars, sendQ, queueVars, listVars, senderVars, credVars,
                   fateVars, sqStop>>

(* ve_tls_producer_is_drained_locked                                        *)
DrainedQueues ==
    /\ sendQ = <<>> /\ inflight = {}
    /\ \A k \in Keys : sealed[k] = <<>> /\ builder[k] = None /\ tasks[k] = <<>>
Drained ==
    /\ worker \in {"idle", "exited"} /\ sendQ = <<>> /\ inflight = {}
    /\ \A k \in Keys : sealed[k] = <<>> /\ builder[k] = None /\ tasks[k] = <<>>

(* A close that times out changes nothing: it may be repeated, or the        *)
(* producer is destroyed.                                                   *)
CloseDrained ==
    /\ phase = "closing" /\ Drained
    /\ phase' = "closed"
    /\ UNCHANGED <<buildVars, workVars, sendQ, queueVars, listVars, senderVars, credVars,
                   fateVars, sqStop, doomed>>

Destroy ==
    /\ phase \in {"open", "closing"}
    /\ phase' = "destroyed"
    /\ doomed' = IF Open THEN WaitingRetained ELSE doomed
    /\ UNCHANGED <<buildVars, workVars, sendQ, queueVars, listVars, senderVars, credVars,
                   fateVars, sqStop>>

(* close and destroy stop the send queue after they set stop.               *)
StopSendQueue ==
    /\ Stopped /\ ~sqStop
    /\ sqStop' = TRUE
    /\ UNCHANGED <<buildVars, workVars, sendQ, queueVars, listVars, senderVars, credVars,
                   fateVars, phase, doomed>>

-------------------------------------------------------------------------------
WorkerStep ==
    \/ \E k \in Keys : Reserve(k)
    \/ Push \/ PushFails \/ Rollback \/ WorkerDone \/ WorkerExit
Work == (\E K \in SUBSET Keys : WorkerPass(K)) \/ WorkerStep

Answer(s) == Retry(s) \/ Delivered(s) \/ Rejected(s) \/ Refused(s) \/ TransientFailure(s)

Sender(s) ==
    \/ \E k \in Keys : ScanReady(s, k)
    \/ ScanNothing(s) \/ Take(s) \/ TakeNothing(s) \/ Inbound(s)
    \/ RelockLeaving(s) \/ (\E K \in SUBSET Keys : Again(s, K)) \/ Leave(s)
    \/ PassGate(s) \/ Defer(s) \/ EnterBreaker(s) \/ EndsTooOld(s) \/ Request(s)
    \/ Answer(s) \/ AuthWaitEnds(s) \/ Finish(s)

Environment ==
    \/ \E k \in Keys : Add(k) \/ AddFills(k) \/ RetryDue(k)
    \/ \E b \in Batches : Expire(b)
    \/ NetworkRecovered \/ UpdateCredentials
    \/ CloseBegin \/ CloseDrained \/ Destroy \/ StopSendQueue

Next == Work \/ (\E s \in Senders : Sender(s)) \/ Environment

Spec == Init /\ [][Next]_vars

(* Fairness.  A thread that can go on does, but the idle worker only when it *)
(* was woken: by a sealed builder or by the end of the producer, not by the  *)
(* first record of a builder.  Ready queues are served in turn, and a queue  *)
(* that was turned back is not due at once, so that the send queue is looked *)
(* at.  The gate of a key opens again and again, except for a body that is   *)
(* above the rate limit.  A request is answered or times out.  Clocks        *)
(* advance.  The application and the service owe nothing.                   *)
Woke == ~Open \/ \E k \in Keys : sealed[k] # <<>>
Passes(k) == \E s \in Senders : PassGate(s) /\ key[s] = k /\ task[s] \notin Large

FairSpec ==
    /\ Spec
    /\ WF_vars(Woke /\ \E K \in SUBSET Keys : WorkerPass(K)) /\ WF_vars(WorkerStep)
    /\ SF_vars(\E s \in Senders : ScanNothing(s))
    /\ \A s \in Senders :
          /\ WF_vars(ScanNothing(s))
          /\ WF_vars(Take(s)) /\ WF_vars(TakeNothing(s)) /\ WF_vars(Inbound(s))
          /\ WF_vars(RelockLeaving(s)) /\ WF_vars(\E K \in SUBSET Keys : Again(s, K))
          /\ WF_vars(Leave(s)) /\ WF_vars(Finish(s)) /\ WF_vars(AuthWaitEnds(s))
          /\ WF_vars(PassGate(s) \/ Defer(s)) /\ WF_vars(EnterBreaker(s))
          /\ WF_vars(Request(s) \/ EndsTooOld(s)) /\ WF_vars(Answer(s))
    /\ \A k \in Keys :
          /\ SF_vars(\E s \in Senders : ScanReady(s, k)) /\ SF_vars(Passes(k))
          /\ WF_vars(RetryDue(k))
    /\ \A b \in Batches : WF_vars(Expire(b))
    /\ WF_vars(CloseDrained) /\ WF_vars(StopSendQueue)

-------------------------------------------------------------------------------
SenderStates == {"scan", "await", "poll", "inbound", "relock", "tail", "leave", "exited",
                 "send", "enter", "limit", "sent", "authwait", "finish"}
Sending == {"send", "enter", "limit", "sent", "authwait"}
Holding == Sending \cup {"finish"}
HasTask == Sending \cup {"inbound"}

(* Every variable stays in its range.                                       *)
TypeOK ==
    /\ phase \in {"open", "closing", "closed", "destroyed"} /\ sqStop \in BOOLEAN
    /\ added \in [Keys -> 0 .. MaxBatches]
    /\ builder \in [Keys -> Batches \cup {None}]
    /\ sealed \in [Keys -> Seq(Batches)] /\ work \in [Keys -> Seq(Batches)]
    /\ worker \in {"idle", "flushing", "reserved", "rollback", "exited"}
    /\ slot \in Keys \cup {None}
    /\ sendQ \in Seq(Batches) /\ Len(sendQ) <= Cap
    /\ tasks \in [Keys -> Seq(Batches)]
    /\ live \subseteq Keys /\ ready \subseteq Keys /\ delayed \subseteq Keys
    /\ due \subseteq Keys /\ idle \subseteq Keys /\ inflight \subseteq Keys
    /\ pc \in [Senders -> SenderStates]
    /\ task \in [Senders -> Batches \cup {None}] /\ key \in [Senders -> Keys \cup {None}]
    /\ version \in [Senders -> Nat] /\ credVersion \in Nat /\ refused \subseteq Nat
    /\ tries \in [Senders -> Nat] /\ entered \subseteq Senders /\ leaked \in Nat
    /\ retained \subseteq Batches /\ expired \subseteq Batches /\ doomed \subseteq Batches
    /\ result \in [Batches -> Results]

(* Where a batch is.                                                        *)
In(name, q, b) == {<<name, k, i>> : k \in {x \in Keys : \E j \in DOMAIN q[x] : q[x][j] = b},
                                    i \in {j \in DOMAIN q[KeyOf(b)] : q[KeyOf(b)][j] = b}}
Places(b) ==
    {<<"builder", k>> : k \in {x \in Keys : builder[x] = b}}
    \cup In("sealed", sealed, b) \cup In("work", work, b) \cup In("tasks", tasks, b)
    \cup {<<"sendQ", i>> : i \in {j \in DOMAIN sendQ : sendQ[j] = b}}
    \cup {<<"sender", s>> : s \in {x \in Senders : task[x] = b}}

(* An accepted batch is in one place until it ends, and then nowhere: no     *)
(* hand-over between builder, worker, send queue, key queue and sender       *)
(* loses it or has it twice, and freeing a key queue frees no batch.  What   *)
(* finish, unreserve and the idle clean-up check is what makes it so         *)
(* (ve_tls_producer_queue.c:948).                                           *)
Conserved ==
    \A b \in Batches :
        Cardinality(Places(b)) = IF b \in Accepted /\ result[b] = "none" THEN 1 ELSE 0

(* Batches of one key are sent one at a time: a key queue is held by at most *)
(* one sender, by exactly one if it is marked in flight, and it is then on   *)
(* none of the lists from which another sender could take it.               *)
Exclusive ==
    /\ \A s, t \in Senders : s # t /\ key[s] # None => key[s] # key[t]
    /\ inflight = {key[s] : s \in {t \in Senders : pc[t] \in Holding}}
    /\ inflight \cap (ready \cup delayed \cup idle) = {}

(* No batch is forgotten in a key queue: a queue that has tasks is ready, or *)
(* delayed, or held by a sender that will list it; and it is on one list.    *)
Scheduled ==
    /\ {k \in Keys : tasks[k] # <<>>} \subseteq ready \cup delayed \cup inflight
    /\ \A k \in ready \cup delayed : tasks[k] # <<>>
    /\ ready \cap delayed = {} /\ due \subseteq delayed

(* A key queue that a list, a builder or a sender refers to is never freed,  *)
(* one on the idle list is unused, and there are never too many.            *)
SlotsHeld ==
    /\ \A k \in Keys : tasks[k] # <<>> \/ builder[k] # None
                       \/ k \in ready \cup delayed \cup idle \cup inflight => k \in live
    /\ \A k \in idle : tasks[k] = <<>> /\ builder[k] = None
    /\ MaxActive > 0 => Cardinality(live) <= MaxActive

(* When close has returned with success - every sender has left - every      *)
(* accepted batch has ended; although the drained predicate does not see the *)
(* batch that a sender took from the send queue and has not filed yet.       *)
ClosedMeansDone ==
    phase = "closed" /\ (\A s \in Senders : pc[s] = "exited")
        => \A b \in Accepted : result[b] # "none"

(* Closing ends retained batches that wait in a key queue without another    *)
(* request; only a memory-only producer reports them closed or expired, and  *)
(* a persistent one keeps them for recovery                                 *)
(* (docs/ios-delivery-policy-contract.md:44).                               *)
NoFinalRequest ==
    /\ \A s \in Senders : pc[s] \in Sending => task[s] \notin doomed
    /\ \A b \in doomed : result[b] \in {"none", IF Persistent THEN "kept" ELSE "closed"}

(* A sender suspends only for credentials that were refused.  If newer ones  *)
(* are installed while the request is out, it does not wait for still newer  *)
(* ones.                                                                    *)
SuspendedForRefused ==
    \A s \in Senders : pc[s] = "authwait" /\ version[s] = credVersion => credVersion \in refused

(* A batch ends once.                                                       *)
EndsOnce == [][\A b \in Batches : result[b] # "none" => result'[b] = result[b]]_vars

(* What keeps a sender or a batch for ever, and is not hidden in the         *)
(* fairness: attempts without any limit; all places of the breaker leaked;   *)
(* a body above the rate limit, in a sender's hand or at the gate of its     *)
(* key, where it holds up the batches behind it, and, since a closing        *)
(* producer promotes at once, then also the send queue.                     *)
Waits(b) == b \in Accepted /\ result[b] = "none"
LargeLeft == \E b \in Large : Waits(b)
NoWayOut ==
    \/ MaxTries = 0
    \/ HalfOpenMax > 0 /\ leaked = HalfOpenMax
    \/ \E s \in Senders : pc[s] = "limit" /\ ~HasTokens(task[s])
    \/ ~Open /\ LargeLeft
LargeAhead(b) ==
    \E c \in Large : Waits(c) /\ KeyOf(c) = KeyOf(b) /\ c[2] <= b[2]
Rewinds == \E s \in Senders : tries[s] > 0 /\ Defer(s)
RewindsForEver == HalfOpenMax = 0 /\ []<><<Rewinds>>_vars

(* A close without a timeout ends, unless the application destroys the       *)
(* producer meanwhile: suspended senders, retained and turned-back batches,  *)
(* and batches on their way from one queue to the next do not keep it        *)
(* waiting for ever.  What does: NoWayOut, if it is for good, and retries    *)
(* that the gate of their key turns back without end, which cannot go on     *)
(* where each costs a place of a breaker.                                   *)
CloseEnds ==
    \/ phase = "closing" ~> Stopped
    \/ <>[]NoWayOut
    \/ RewindsForEver

(* A sealed batch of a memory-only producer ends, whether the producer stays *)
(* open or is closed; only destroy may free it without a result.  It waits   *)
(* for ever only as CloseEnds says, or behind a body above the limit.  The   *)
(* open builder of a closing producer counts as sealed.                     *)
EveryBatchEnds ==
    \/ RewindsForEver
    \/ \A b \in Batches :
          \/ Waits(b) /\ (builder[KeyOf(b)] # b \/ ~Open)
                 ~> result[b] # "none" \/ phase = "destroyed"
          \/ <>[](NoWayOut \/ LargeAhead(b))

-------------------------------------------------------------------------------
(* With one sender the pipeline is a line per key.  With two, a sender may   *)
(* be overtaken between the send queue and the key queue.                   *)

(* Batches in the order in which they were accepted.                        *)
InOrder(S) ==
    [i \in 1 .. Cardinality(S) |->
        CHOOSE b \in S : Cardinality({c \in S : c[2] < b[2]}) = i - 1]
Unended(k) == {b \in Accepted : KeyOf(b) = k /\ result[b] = "none"}
Line == [k \in Keys |-> InOrder(Unended(k))]

D == INSTANCE Delivery WITH
        Endings <- Results \ {"none", "ok"}, line <- Line, outcome <- result

(* The batches of a key are delivered in the order they were accepted: a     *)
(* retried batch goes back to the head of its queue, and nothing passes it.  *)
ImplementsDelivery == D!Spec
===============================================================================
