# Verification of the TLS iOS producer

TLA+ models of the log producer in this repository: a C core
(`src/Producer/Sources/CTLSProducerCore`), an Objective-C bridge
(`TLSProducerBridge`) and a Swift API (`VolcengineTLSProducer`). The models are
translated from the source; the source lines of every definition are in
`PROJECT.json` under `map`. C paths below are relative to
`src/Producer/Sources/CTLSProducerCore/core/src`.

## The system

| Component | State | Operations | What makes it correct |
|---|---|---|---|
| Write-ahead log (`producer/ve_tls_persistent.c`, `ve_tls_segment_store.c`, `ve_tls_checkpoint.c`) | segment files, checkpoint file, segment table, running totals, reclaim cursor | open, append, ack range, flush, recover, close | an unsettled record survives a crash and is recovered; limits hold; totals are exact; nothing is deleted too early |
| Acknowledgement ledger (`ve_tls_producer.c` 889-1007) | the frontier, completed ranges beyond it | final result of a batch | the frontier covers completed ids only, and no completed id is forgotten |
| Batching (`ve_tls_producer.c` 687-791, 1107-1241, `ve_tls_producer_builder.c`, worker in `ve_tls_producer_manager.c`) | one builder per hash key | add, merge, seal, prepare, push | the id range of a batch names its own ids only |
| Key queues and sender (`ve_tls_producer_queue.c`, `ve_tls_producer_sender.c`) | per-key queues, ready, delayed and authentication-wait lists, circuit breaker | push, pop, send, retry, retain, finish | order within a key, one terminal callback per batch, no task forgotten |
| Buffer budget (`ve_tls_producer.c` 2637-2897) | reserved, queued, in-flight and scratch bytes | reserve, move, release, wait | bounded, exact on every failing path, every waiter is released |
| Life cycle (`ve_tls_producer.c` 1564-1658, 2315-2585) | accepting, closing, stop, joined threads | create, recover, close, close_split, destroy | close returns, and says OK only when everything was sent |
| Runtime updates and snapshots (`ve_tls_producer.c` 2019-2310, `ve_tls_snapshot.c`) | current snapshot and its references | update endpoint, credentials, API key | a request uses one consistent configuration |
| Directory lease (`producer/ve_tls_lease.c`) | lease file, owner, epoch | acquire, heartbeat, validate, release | one writer per directory |
| Shared environment (`producer/ve_tls_env.c`) | registered producers, queue of producers with work, sender threads | init, register, notify, tick, serve, unregister, destroy | no work is left unnoticed, nothing freed is used, destroy ends (the iOS adapter leaves it switched off) |
| Objective-C bridge (`TLSRealCoreAdapter.m`, `TLSTransport.m`, `TLSLifecycleManager.m`) | adapter state, pending requests | open, add, close, perform request | no call reaches a destroyed core; a request ends once |
| Swift API (`Producer.swift`, `RealCoreAdapter.swift`, `DiagnosticEmitter.swift`) | life cycle, close waiters, diagnostics queue | open, add, flush, close | close is idempotent; diagnostics stay bounded and never block |

How they interact. `add` takes an id under `producer->mutex`, drops the mutex
for the append to the log (under `persistent_mutex`), takes it again and merges
the log into the builder of its hash key. A worker thread seals builders and
pushes batches to key queues; a sender thread pops one batch per key, sends it
through the transport callback, and reports a final result. An OK result goes
back to the ledger, which moves the frontier in the log's checkpoint and lets
whole segments be reclaimed. Everything that is hard is in the seams: a crash
between two file operations, ids that overtake each other, results out of
order, a close that meets an append without the mutex, a thread that reads shared state
and goes on after another one has freed it. The list of hazards, each at its
line, is in `PROJECT.json`.

## Modules

| Module | Models |
|---|---|
| `Frontier` | `ve_tls_persistent_record_completed_range_locked` as arithmetic on sets of ids |
| `AckFrontier` | what the ledger promises: the abstract specification |
| `Batching` | adds on several hash keys, builders, batches, and the list of completed ranges node by node |
| `BatchingProofs` | theorems about `Batching`: its batches, its list, and that the list implements `AckFrontier` |
| `Wal` | the log: appends, capacity, rotation, sync, checkpoint, reclaim, overflow policies, close, crash, power loss, opening and recovery |
| `MCWal` | instances of `Wal` for TLC |
| `WalProofs` | theorems about `Wal` for all values of its constants: types, the frontier, nothing unsettled is lost, recovery hands all of it on |
| `WalDiskProofs` | what SYNC_WAL accepted is synced, segments go only when they may, totals are exact, limits hold |
| `SendPipeline` | from a sealed batch to its final result: worker, send queue, key queues, senders, retries, credentials, close |
| `Delivery` | what the pipeline promises about the batches of a key: the abstract specification |
| `MCSend` | the symmetry of `SendPipeline` for TLC, and which batches are above the rate limit |
| `SendProofs` | theorems about `SendPipeline` for all values of its constants: types, key queues, slots, credentials |
| `SendDeliveryProofs` | every batch is in one place and ends once, close, and that the pipeline implements `Delivery` |
| `Lease` | who may write in a log directory: lease file, locks, takeover, heartbeat, crash, fork |
| `LeaseProofs` | theorems about `Lease` |
| `Budget` | the byte counters and the condition variable from add to result, with adders, workers, senders and close |
| `BudgetProofs` | theorems about `Budget` for all values of its constants |
| `MCBudget` | instances of `Budget` for TLC |
| `SharedEnv` | several producers on the sender threads of one environment: registering, notices, turns, breaker places, snapshots, destroy |
| `MCSharedEnv` | the instance of `SharedEnv` for TLC |
| `SharedEnvProofs` | theorems about `SharedEnv` |

The modules look at one program from different sides, and meet in these
places. A batch that `SendPipeline` ends with `ok` is `Batching`'s `Deliver` and
`Wal`'s `Complete`; `Wal`'s and `Batching`'s ledger is the same code, once on sets
and once as the list, tied together by `ImplementsFrontier`. `Lease` decides whether
a step of `Wal` that touches the directory may happen at all. `Budget` and
`SendPipeline` model the same worker: the first counts bytes on the path of
memory-only producers, the second follows batches through key queues. The steps
of a sender in `SharedEnv` are those of `SendPipeline` run by a thread that
serves one producer after the other.

### Batching

`Begin` is the id allocation of `add_log_kv_persistent_locked`; between it and
`Merge` the append runs without the mutex, so adds overtake each other. `Merge`
is `ingress_task_merge_locked` with the contiguity check (`Follows`), the seal
of the old builder and the seal of a full one; `Seal` is the worker's flush.
`Deliver` and `GiveUp` are the two kinds of final result. `ranges` is the linked
list, `Before` and `Absorb` its two walks: the nodes that the first one passes, and
those that the second one merges because the range grown so far `Reaches` them, both
stated without recursion so that they can be proved about. `ImplementsFrontier`
shows that list to implement `AckFrontier`.

### Wal

State on disk: `files`, `disk` (records per segment), `synced` (the fsynced
prefix) and `ckpt`. State in memory mirrors `ve_tls_persistent`: `active`,
`fileDirty`, `meta`, `recs`, `segs`, `acked`, `lastSeg`, `durable`, `dirty`,
`pending`. `lock` is `persistent_mutex` together with the program counter of its
holder: every operation on the log is cut into one step per file operation, so
that a crash, a power loss or a step that needs no mutex can fall between any
two. `waiting` is the ledger as a set (`Frontier`). `pc` follows each event
through its process; `idOf`, `stored`, `accepted`, `done` and `excuse`
are history that only properties read (an id, once given, is also what a record
on disk carries).

An append is `AppendEnter`, then for a full log `ReclaimOne`*, `ReclaimDone`, and
`RoomFound`, `DropOldest`/`DropRemove` or `Refuse`; then `Rotate` and `Put`,
`SyncAppend` in SYNC_WAL mode, `RelieveOne`* down to the low watermark, and
`AppendDone`. `SaveTruncate` and `SaveWrite` are the in-place rewrite of the
checkpoint. `Open` is create and `ve_tls_persistent_open`: choice of the active
segment, scan of all segments up to it, reclaim. The `Recover` actions are
`ve_tls_producer_recover`, which takes the guard of the log per record only, so
that results and crashes fall between records. `Settle` either saves the
checkpoint at once or leaves it dirty: the 100 ms / 64 records window of
`checkpoint_should_save` is a nondeterministic choice.

Simplifications, all named in the modules: records have unit size, so byte
limits coincide with record limits; allocation, path and unlink failures do not
happen; the torn tail of a segment is cut at once; the validation of the lease
before every change always succeeds, which is the subject of `Lease`. Adds come
after recovery, as in the adapter, which recovers before it is exposed to
callers (`TLSRealCoreAdapter.h:194`); a C caller could add earlier.

### SendPipeline

One step is what a thread does under one hold of `producer->mutex`, or of the
mutex of the send queue; wherever the code lets go of it, another thread may
step in. A key stands for its key queue: `live` is the hash table, `tasks` the
rings, and `ready`, `delayed`, `idle` and `inflight` the flags of the same name.
Lists are sets: their order decides who is served first, which the model leaves
open. `due` are the delayed queues whose `next_ready_ms` has passed.

The worker (`ve_tls_worker_main_builder`, `ve_tls_manager_push_send_task`) takes
the sealed builders (`WorkerPass`), and for each batch reserves the key queue
(`Reserve`), pushes (`Push`), or fails and gives the slot back (`PushFails`,
`Rollback`). `work` is a line per key: builders of different keys are pushed in
any order. `PushFails` covers the policies DROP, DROP_SAMPLED and BLOCK with its
timeout, and the buffer budget.

A sender (`ve_tls_sender_main`) goes round `scan`, `await` or `poll`, `inbound`
and `relock` for work, and `send`, `enter`, `limit`, `sent`, `authwait` and
`finish` with a batch; `tail` and `leave` are the last looks of a stopped one.
`send` to `sent` is one attempt: the gate of the key (`PassGate`, or `Defer`), on
the first attempt a place in the half-open breaker of the producer
(`EnterBreaker`), its rate limit (`HasTokens`; a batch of `Large` never gets its
tokens, others may be slow to), and the `Request`. `Retry` goes back to `send`;
`tries` counts the attempts, and `MaxTries` stands for `max_attempts` and the total
timeout together. A retry that its gate turns back starts over, and its place in
the breaker is `leaked`: it is never given back. `PutBack` is shared by the deferral
for a gate and by the two retry cycles; `End` is a final result, and `Finish` is
`ve_tls_key_queue_finish` under a later hold of the mutex, as in the code. A result
is `ok`, `failed`, `closed` (a memory-only producer reports what it gives up at
close) or `kept` (a persistent one leaves it to recovery). Destroying the
producer is `Destroy`; closing is `CloseBegin`, `CloseDrained`, `StopSendQueue`.

Left out: several workers, the inner states of breakers and rate limits (`Gated`
lets a batch be deferred at any time, an open breaker of the producer is a delay,
and its half-open places are counted also while it is closed, as the code counts
them), allocation failures and the credentials callback. Gates, breakers and rate
limits are switched on by C callers only: they are off by default, and the adapter
does not set them. The fast path without key queues is in `Budget`, `ve_tls_sender_step`
in `SharedEnv`. Records without a hash key use a builder of their own in the
code; here they are one more key.

`Delivery` is a line of batches per key from which only the head is delivered.
`Line` maps the pipeline to it: the accepted batches of the key that have not
ended, in the order in which they were accepted. Where each of them is - builder,
sealed list, worker, send queue, ring or a sender's hand - does not matter to the
promise; that the next one to be delivered is always the first of the line is what
the refinement shows.

### Lease

An owner is one opening of the directory. `flock` is the lock on `lease.lock`,
`dirLock` the bridge's lock on the directory, `lease` the lease file with its
owner and fencing token, `token` what an owner remembers of it. Time is the set
`expired` of owners whose last heartbeat is further back than the timeout: that one
comparison decides both whether a lease may be taken over and whether an owner may
still trust its own. `log` counts the changes of the directory and `seen` the ones
an owner's cached state accounts for.

Opening is `LockDirectory` and `Adopt` for the bridge
(`TLSRealCoreAdapter.m`), then `OpenGuard`, `Acquire`, `FinishOpen` of
`ve_tls_persistent_open` and `ve_tls_lease_acquire_locked`. An operation is
`Enter`, `Heartbeat` or `InWindow`, and `Mutate`; closing is `CloseEnter`,
`CloseFlush`, `CloseRelease`, `Unlock`. Any of them can be cut off by `Crash`; a
`Fork` leaves copies of the descriptors, which keep a lock until `ChildClose`.
`TimePasses` lets any lease expire at any time and `ClockSetBack` undoes it. The
directory's lock on disk is released with the last descriptor, as flock does.

### Budget

`pool` holds the six byte counters of the producer: raw queue and builders,
ingress, send queue, in flight, compression scratch, thread batches. `cond` is
`producer->cond`: a signal wakes one of the sleepers, whichever the system picks,
be it an adder or a worker, and a sleeper that was woken looks at its condition
again (`GetsSpace`, `NoSpace`, `Blocks`, `WaitEnds`).

A call of add takes one of three paths: into the thread's batch (`Reserve`,
`Appends`, then `MergeBatch` or `FlushBatch`), into a builder under the mutex
(`AddKeyed`), or as a raw item whose copy is made without the mutex (`Reserve`,
`Enqueue`). Each of them can fail half-way: `Closed`, `Rejected`, `IngressFull`
and `TakeBack`. The worker goes through `look`, `linger` or `due`, `raw`, `hand`,
`compress`, `packed`, `push` and `settle`; its failures are `Reject`, `Refused` and
`PushFails`. A sender is `Pop`, `Start`, `Finish`; between the first two a task is
in no place that close looks at except the send budget. Closing is `StartClose`
(which first flushes the batch of its own thread), `FinishClose`, `StopSending`;
`Destroy` may come without a close. `policy` is chosen at the start and never
changes. Only one thread closes, once: a second close, beside the first or after it
timed out, is not modelled. In ordered mode the key queues behind the send
queue are left to `SendPipeline`.

### SharedEnv

`life` is the environment's `ready`/`destroying` pair, `listed` the registered
producers and `queue` those with work. `flag` is `env_in_queue`, the atomic that
keeps a producer from being queued twice; `ve_tls_env_notify` is cut where it may
be overtaken: `Load` (the exchange of the flag), `Begin` (entering the environment)
and `Push`. `NotifyThen` is a call of it from any thread, `back` its return address.

A sender of the environment is `Take`, `Unmark`, up to `Steps` steps of
`ve_tls_sender_step`, `After` and `Leave`. Its step gives up, takes, or moves a task
(`StepGivesUp`, `StepTakes`, `StepPops`, `StepFiles`; filing may end the task, when
there are too many key queues); a task in hand passes `Gate`, `Enter` (a place in
the half-open breaker), `Limit` (the rate limit), `Acquire` and `Copy` (the
configuration snapshot) and `Request`, which ends in `Final`, `Again`, `Suspends` or
`Cycle`. Tasks are counted, not told apart; `load` says how many a producer gets
and whether their bodies are above its rate limit. `MaxTries` is given per
producer, with 0 for unlimited attempts. Each producer has an owner thread
(`Register` to `Free`), a worker, which hands tasks over and notifies nobody
(`Arrive`), and a helper that stands for the callers of its updates
(`UpdateEndpoint`, `UpdateCredentials`, `UpdateFinish`). Destroying the
environment is `EnvDestroy`, `EnvTear`, `EnvWaits`, then `EnvStops` and `EnvGone`, or
`EnvAborts` at its timeout.

Left out: an open breaker is a delay, so only its half-open places are counted; a
snapshot that cannot be built; the retries with which a sender acquires one.

Definitions named after a mistake (`ReclaimableTooFar`, `NeverWaits`,
`LeftUnlessStopped`, ...) are variants of the definition that follows or precedes
them. Nothing uses them; each stands for a plausible bug, and the entry in
`PROJECT.json` under `mutants` names the property that finds it.

## What is checked

| Run | Question | Bounds | Distinct states |
|---|---|---|---|
| `batching` | Do ranges and the frontier stay honest under every interleaving, and is everything settled in the end? | 5 ids, 2 keys, 2 logs per package | 50,000 |
| `wal` | Does a crash, a power loss or a failing file operation anywhere lose a record, or are limits or totals wrong? | 4 adds, 2 openings, 1 fault, 3 records and 2 segments at most, two records per segment, SYNC_WAL, policy `sample` | 2,006,000 |
| `wal_drop` | Does drop-oldest keep the limits, and delete only what it has given up on disk? | 4 adds, one opening, 1 fault, 3 records, 2 segments, two records per segment | 782,000 |
| `send_queues` | Is every batch in one place, does it end once, are key queues held, listed and freed as they must be, and do suspended senders wait for the right credentials? | persistent; 3 batches, 2 keys, 2 senders, send queue of 1, 2 attempts, 2 credential versions, idle queues kept, symmetric | 3,172,000 |
| `send_close` | Does close end? | persistent; 2 batches, one of them above the rate limit, 2 keys but one key queue at most, 2 senders, 1 place in the breaker, 2 attempts | 230,000 |
| `send_live` | Are the batches of a key delivered in order, and does every batch get a result? | memory-only; 2 batches, one of them above the rate limit, 2 keys, 1 sender, send queue of 2, 1 place in the breaker, 2 attempts | 32,000 |
| `lease` | Does anybody write in a directory that has passed on, and can an abandoned one be opened again? | 1 opening of the core, 2 of the bridge, 2 writes, 1 fault | 402,000 |
| `budget` | Are the byte counters exact and bounded, does close release everybody, and has every accepted log a result? | 2 adders, 1 worker, 1 sender, 3 calls, 7 bytes, both queues of 1 | 635,000 |
| `shared_env` | Is work never forgotten, nothing freed used, and does destroy end? | 2 producers on 1 thread, 1 producer on 2, 1 task, 1 update, 2 or unlimited attempts, queue of 1 | 332,000 |
| `wal_stale`, `wal_stranded`, `linger` | Do documented guarantees hold? No: see Findings | 2-4 adds and 1-3 openings | stops at the counterexample |

Bounds. Four records with a limit of three in two segments of two is the smallest
log in which a segment is partly settled, its last record need not have its
highest id, a segment is reclaimed, an append is refused and a later one succeeds.
Two openings give a
recovery beside the initial run; a third would start from a state that a second
leaves. Five ids on
two keys allow two separate waiting nodes and a third range that joins them.
The policy `sample` of the main run refuses odd ids like `reject` and blocks even
ids like `block`. `MaxSeg` never stops a run: there are at least as many segment
numbers as events. Deadlock is not checked: a history ends when its adds and
openings are used up.

For the pipeline, two senders with three batches of two keys are enough for one
batch in flight, one waiting behind it in its ring and one on its way; a send
queue of one is full at once. Idle queues are kept in `send_queues`, so that they
are used again and cleaned up; one key queue for two keys makes reservations fail
in `send_close`. `send_queues` has no breaker: its places change neither where a
batch is nor who holds a queue. That the safety properties hold for a memory-only
producer too is what the theorems add: the run is a persistent one.
One place in the breaker is leaked by one retry that is
turned back; two attempts are one retry. `send_live` has one sender, which is what
the Swift API asks for unless told otherwise (`ProducerConfiguration.swift:177`); the
C core's own default is two to eight (`ve_tls_producer_config.c:60-68`), and with
two a sender may be overtaken between the send queue and the key queue.
`CloseEnds` and `EveryBatchEnds` also hold without a breaker (`HalfOpenMax = 0`) on
the same bounds; that is where they need `RewindsForEver`.

For the lease, three openings give a takeover from an owner that was itself a
taker, and a core instance on either side of the bridge; two writes let an owner
write after somebody else did. One fault is a failing write, a fork or a clock set
back. For the budget, seven bytes are two packages of three, which a policy with waits
must have, and one byte over: a worker with one package in compression
and an adder at the same time reach the limit; a second adder makes the choice of
`cond_signal` matter. `a` adds through its batch or with a key, `b`
through its batch or raw. `Everyday` has a policy with waits, deadlines and a linger, and
one with none of them. For the shared environment, one sender for two producers
makes one starve behind the other, two for one make it serve a producer twice at
once, and the update replaces the snapshot of a request; a queue of one overflows
at once. The loads are: both producers on one thread, with a task of the first (two
attempts and a gate), a task of the second (unlimited attempts), or a task of the
first whose body is above its rate limit; and the first alone on two threads, or
with an update. Deadlock is not checked there: a sender that waits for a place in
the breaker that has leaked, or for tokens, never moves (below).

Fairness. `batching` assumes that an append
returns and its merge happens (`producer->mutex` is always released, the append
has no wait of its own), that the worker wakes up at its flush interval
(`ve_tls_worker_main_builder` waits with a timeout), and that the sender
eventually delivers a batch that is not given up. `EventuallyAcked` is
conditional: an id is settled unless one at or below it failed. That condition
is the code's: an unsuccessful result leaves a gap for the life of the process.

`send_live` and `send_close` use `FairSpec`: threads are scheduled and
the mutex is always released (weak fairness of each step of the worker and the
senders). The idle worker moves only when it was woken (`Woke`): by a sealed builder
or the end of the producer, not by the first record of a builder, which in
ordered mode signals nobody (`ve_tls_producer.c:3129-3131`). A request is answered or
times out (weak fairness of the answer, not of success). Ready queues are served in
turn: the ready list is first in, first out (`ve_tls_producer_queue.c:528-541`, 697;
strong fairness of `ScanReady` per key). A queue that was turned back is not due
for at least 10 ms, so a sender finds nothing ready now and then and looks at the
send queue (strong fairness of `ScanNothing`). The gate of a key opens again and
again for bodies its rate limit can let pass (strong fairness of `Passes`); nothing
is assumed of the others. `EnterBreaker` moves when a place is free and `Request`
when there are tokens; that neither is ever so again is possible, and is what
the exceptions below name. Clocks advance (`RetryDue`, `Expire`); close looks at
the drained predicate every 50 ms (`CloseDrained`).
Nothing is assumed of the application: it need not add, close or renew
credentials. A waiting sender of a persistent producer wakes up for the lease
heartbeat (`ve_tls_producer_sender.c:3012`).

Exceptions of the liveness properties. The code lets a sender wait for ever in a few
places, and the properties name each of them instead of assuming it away.
`CloseEnds` and `EveryBatchEnds`: attempts without any limit, all places of the
breaker leaked, a body above the rate limit in a sender's hand, or, once the producer
closes and promotes all delayed queues at once, turned back at its gate without end
(`NoWayOut`); retries turned back without end where no breaker counts them
(`RewindsForEver`). `EveryBatchEnds` also excepts the batches behind a body above
the limit in the line of its key (`LargeAhead`). `DestroyEnds`: one of the
producer's own senders is stuck for one of these reasons, or the environment is
being torn down and any of its senders is (`Stuck`). Dropping an exception makes TLC
find the hang, on the bounds of `send_live` (`NoWayOut`, `LargeAhead`), of `send_close`
without a breaker (`RewindsForEver`) and of `shared_env` (`Stuck`); only unlimited
attempts are not among the bounds of the `send` runs. Nothing else hangs.

`lease`: whoever wants the directory keeps trying, and time passes; nobody needs to
close, and a crash may come at any point. `budget`: each thread takes its next
step, close looks again, waits with a deadline expire (`WaitEnds` is a step of its
thread); that a request ends is the sender's `Finish`. `shared_env`: each
thread takes its next step, requests are answered, and the waits of close and of the
destruction of the environment have finite timeouts. Unregistering needs strong
fairness: it can find the environment being torn down each time it looks, and
is signalled whenever that ends.

## Findings

- `wal_stale`: `next_id` starts at 1 on every create (`ve_tls_producer.c:1791`)
  and recovery advances it only past records above the checkpoint. After a clean
  reopening new ids lie at or below the frontier; if the process then crashes,
  accepted records are taken for settled and never recovered.
- `wal_stranded`: the checkpoint names the segment that was active when it was
  saved. If that segment has been reclaimed since, `ve_tls_segment_store_open`
  resumes at segment 1 and the later segments are neither scanned nor recovered.
- `linger`: the linger is documented as the longest a non-empty batch waits. In
  ordered mode, which the bridge always sets, the first log of a builder does not
  wake the worker (`ve_tls_producer.c:3129-3131`), and a worker that went to sleep
  with no builder sleeps without a deadline. The log waits until something else
  wakes the worker.

The safety properties of the passing runs exclude exactly the records these
cases touch (`Protected`) and nothing else. Two more deviations are excluded by
name: after a failed write behind a rotation `current_segments` is one too low
(`NoRotationLost`), and under `drop_oldest` the frontier jumps over ids of
appends still in progress. `RemovedWhenSettled` has two more exceptions of its own:
the records of the two defects above (`Defective`), and a failed save under
`drop_oldest` (`NoSaveLost`): the frontier that gives the records up then stays in
memory, and the next drop, which finds it already moved, removes the segment though
no checkpoint on disk covers it. A segment stranded by an opening may also be
continued by a later rotation, which takes the number of its file, and is then
reclaimed with its stranded records.

Also worth knowing; the models show each of them:

- A refused append has already consumed an id. The frontier never passes that id, so
  what is delivered after it is replayed at each opening (`Wal`).
- `max_buffer_bytes` bounds two sums, not their total: adds may use all but the
  senders' share while workers and senders hold up to the whole (`WithinBudget`).
  A worker that waits for space in BLOCK mode gives up when close begins, and the
  batch in its hand is dropped with a final callback. `cond_signal` may wake an
  adder where the worker was meant; what saves it is that adders that wait set
  `flush_requested` first. Batches of other threads are lost at close when no
  linger is configured (`Batched` in `ResultsComplete`). A flush or merge that
  passed its checks hands in its whole batch even when the producer has stopped
  meanwhile: all of its logs, those accepted earlier included, may get no callback
  (`late` in `ResultsComplete`).
- A retry that a gate of its key defers keeps its place in the half-open breaker
  (`producer/ve_tls_producer_sender.c:2204-2224`, `3215-3227`). With all places leaked every
  later request of that producer waits without a look at closing or stop
  (`3231-3245`), and with it the sender and all producers it serves (`NoWayOut` in
  `CloseEnds`, `Leaked` in `DestroyEnds`).
- `docs/http-retry-classification.md:19` says that the total timeout limits a retry
  cycle. Before each attempt the code asks the breaker and the rate limit of the key
  (`producer/ve_tls_producer_sender.c:3210-3228`); a retry that they turn back goes to
  the delayed list, and its attempts and its start time are forgotten
  (3179-3183). A batch may be requested and turned back without end
  (`RewindsForEver`).
- A body above the rate limit makes its sender wait until stop
  (`producer/ve_tls_producer_common.c:37-83`). Close sets stop once the queues are
  drained, which then never happens; destroy in the shared environment sets it only
  after no sender serves the producer any more (`ve_tls_producer.c:2435-2446`), and
  waits for ever (`HasTokens` in `NoWayOut` and `Stuck`). With `max_attempts = 0` and
  no total timeout a sender retries without a look at closing or stop.
- Senders of the environment look for unnoticed work only when the queue is empty
  (`producer/ve_tls_env.c:327-330`), and the worker notifies nobody on any path
  (`producer/ve_tls_producer_manager.c:304-309`; the call at 1030-1041 is compiled out):
  work of a quiet producer waits while others keep the queue busy.
- From reading, not modelled: a per-thread configuration cache is keyed by the
  producer's address and version and outlives it (`ve_tls_producer_sender.c:794-807`);
  `ve_tls_env_destroy` with an infinite timeout and a suspended
  task waits for ever.

## What is proved

`WalProofs`, for every set of events, every number of segments, every limit,
policy and fault budget (`WalAssumption`: limits are naturals, watermarks are
percentages with low below high, the set of events is finite):

- `TypeCorrect`: `Spec => []TypeOK`. `TypeOK` alone is not inductive: `TypeInv`
  adds that the mutex is held for an event during an append (`LockOK`) and
  that recovery reads from an existing position (`CursorOK`).
- `FrontierTightAlways`: `Spec => []FrontierTight`, and
  `FrontierStepAlways`: `Spec => FrontierStep`. The invariant `FrontierInv` adds
  that every waiting id belongs to an event that is done, that such an event
  never gets another id, and that nothing waits while no process runs. The core
  is `SettleAdvances`, about any completed range: the frontier moves over
  settled ids only and leaves a gap behind it. All other steps are `Calm`.

`WalProofs` (its second half) and `WalDiskProofs`, under the same assumption, any
number of crashes, power failures, failing writes, syncs and saves included:

- `NoLossAlways`: `Spec => []NoLoss` (`NoLoss` excepts `drop_oldest`, and the
  records its excuses name). The argument: a segment goes only when its highest
  id is at or below `durable`, `durable` never passes the frontier (`OrderInv`),
  the frontier and the checkpoint on disk stay below the id of every pending
  event (`AheadInv`), and the table's `max` covers the pending events of each
  segment (`LocatedInv`). `AheadInv` is kept because the frontier moves over ids
  of events that are done (`Advances` of `WalProofs`) and a pending event shares
  its id with none of them. That an opening's scan finds a segment's
  highest id rests on `TopsInv`, which carries as an invariant the existence of a
  maximum, a fact that would otherwise need induction over finite sets.
  `HolderInv` and `StoredInv` say who may hold the mutex when, and what is recorded.
- `RecoveryCompleteAlways`: `Spec => []RecoveryComplete`. `RecoveredInv`: while
  recovery reads, the record of every pending event of an earlier process lies
  at or past the cursor, in an existing segment that recovery gets to (`Unread`).
  A reclaim spares it (as above), a record passed over has a settled id, and
  at the end of the active segment nothing is left to read.
- `SyncedWhenAcceptedAlways`: `Spec => []SyncedWhenAccepted`, for all policies.
  `SyncedInv` strengthens it to records whose append is under way: its fsync
  is yet to come or has failed; `FreshInv` says that such a record was written by
  the append that holds the mutex, so that no second record of it is elsewhere.
- `RemovedWhenSettledAlways`: `Spec => RemovedWhenSettled`. `LogInv` says what a
  reclaim and a drop rely on: no event is recorded twice (`PlaceInv`), the table
  bounds the ids of every segment it knows (`KnownInv`), the checkpoint file equals
  `durable` while no save has failed (`SavedInv`), at each step of the holder of the
  mutex (`StageInv`), and the frontier passes an open event only under
  `drop_oldest`, and then either its save is the holder's next step or the
  checkpoint covers the event (`BehindInv`).
- `AccountingExactAlways`: `Spec => []AccountingExact` and `WithinLimitsAlways`:
  `Spec => []WithinLimits`. `TotalsInv` states the totals as cardinalities of what
  the files hold, the active segment being in the table except between a rotation
  and the append behind it. Counting (`HeldCount`) uses that no event is recorded
  twice, and that `Put` adds a new one. `LimitsInv` carries what the capacity check
  found across the rotation and the append, which are later steps. Both
  hold under `Exact`: the two defects named there, an opening that strands a segment
  (`StrandedInv`) and a write that fails behind a rotation, are what ends them.

`SendProofs`, for any number of senders, any finite set of keys and every
configuration (`SendAssumption`):

- `TypeCorrect`: `Spec => []TypeOK`. `TypeInv` adds that a sender that holds a key
  queue knows its key and has its batch (`HandsOK`), and that the worker has a
  batch for the slot it reserved (`SlotOK`).
- `ExclusiveAlways` and `ScheduledAlways`: `Spec => []Exclusive` and
  `Spec => []Scheduled`. Neither is inductive alone: that a sender may take a
  ready queue without holding it twice rests on listed queues not being in
  flight, and that it leaves no list behind rests on idle queues being empty.
  `QueueInv` states both, over the keys in the senders' hands (`HeldOnce`) and
  over the lists (`ScheduledOnce`). `LetGo` is the common part of all ways to
  release a queue.
- `SlotsHeldAlways`: `Spec => []SlotsHeld`. `SlotInv` adds the queues in use to
  `QueueInv`; `ClaimedSlot` and `FreedSlots` are the counting arguments.
- `SuspendedForRefusedAlways`: `Spec => []SuspendedForRefused`. `SuspendInv`: the
  version a suspended sender waits to see replaced was refused.

`Inv` is the conjunction, and `InvStep` shows every action to preserve it.

`SendDeliveryProofs`, under the same assumption:

- `ConservedAlways`: `Spec => []Conserved`, and `EndsOnceAlways`: `Spec => EndsOnce`.
  `PlaceInv` names the place of every pending batch and says that queues hold
  batches of their own key, each once, and that no two senders hold the same one.
  Every action either moves one batch, ends one, accepts one or leaves all where
  they are (`Moves`, `Ends`, `Still`), and each of these preserves `PlaceInv`.
- `ClosedMeansDoneAlways`: `Spec => []ClosedMeansDone`. The drained predicate
  does not see a batch in a sender's hand. What closes that gap: after a drained close
  nothing is left before the senders (`DrainedBefore`), and while a key queue has
  tasks some sender has not decided to leave (`SomeoneStays`).
- `NoFinalRequestAlways`: `Spec => []NoFinalRequest`. `DoomInv`: a retained batch
  that close found waiting stays retained in its key queue until it ends as kept or
  closed.
- `DeliveryImplemented`: `Spec => ImplementsDelivery`, under `OneSender`. `LineInv`:
  along the places of a key, from the sender's hand back to the builder, batches
  stand in the order in which they were accepted. `Ordered` turns that into the
  line of `Delivery`, and `Effect` says what each action does to it: nothing,
  appending a new last batch, or ending a batch - delivering only the first. With two
  senders the hypothesis cannot be dropped: one of them can be overtaken between
  the send queue and the key queue.

`BatchingProofs`, for any number of ids, keys and logs per package:

- `TypeCorrect`: `Spec => []TypeOK` and `RangeIsOwnAlways`: `Spec => []RangeIsOwn`.
  `OwnBatch`: builders and batches hold the ids of one interval, without holes; the
  contiguity check of the merge keeps it.
- `FrontierImplemented`: `Spec => ImplementsFrontier`, `DeliveredKeptAlways`:
  `Spec => []DeliveredKept` and `AckedDeliveredAlways`: `Spec => []AckedDelivered`.
  The list is sorted with a gap before each of its nodes (`Sorted`, `Beyond`).
  Because of that the walk which grows the new range node by node absorbs exactly the
  nodes that touch it, and what it leaves behind is sorted with gaps again. On sets
  that is the union of the list and the range, which is what `AckFrontier` allows.

`LeaseProofs`, for any number of openings, writes and faults (`LeaseAssumption`):

- `Fencing`: `Spec => Fenced`, `BridgeOwns`: `Spec => []ExclusiveOwns` and
  `OwnersView`: `Spec => []ViewCurrent`. The invariant joins types, `LockInv` (who
  is inside an operation holds the lock; the bridge holds both as long as it is
  open), `NamedInv` (whoever is inside, past its acquisition, is the one the lease
  names) and `ViewCurrent` itself. Time plays no part: an owner that
  trusts its window too long is stopped by the lock, not by the clock.

`SharedEnvProofs`, for any number of producers, any finite set of senders, any
loads, and queue and turns of any size (`EnvAssumption`):

- `NoticedAlways`: `Spec => []Noticed`. `ResetFlag` before the look and the reset
  after a failed push are the two steps it rests on; `TickQueues` says what a tick
  leaves in the queue.
- `NoStrayUseAlways`: `Spec => []NoStrayUse`. The invariant says where each kind of
  thread may be (`PlacesInv`), that `inflight` is the set of senders that serve a
  producer (`ServeInv`), that a torn-down environment has nobody inside
  (`EnvInv`), what an owner has behind it at each of its places (`OwnerInv`), and
  that the count of a snapshot is its copiers and its publication (`RefInv`, with
  the cardinality of the copying senders). Steps that only pass through other
  threads' business are grouped: quiet steps, steps of a notification, walks.

`BudgetProofs`, for any finite sets of adders, workers and senders, any number of
calls, any limits, sizes and queue capacities and every policy (`BudgetAssumption`):

- `TypeCorrect`: `Spec => []TypeOK`, `PoolsExactAlways`: `Spec => []PoolsExact`,
  `WithinBudgetAlways`: `Spec => []WithinBudget` and `ResultsCompleteAlways`:
  `Spec => []ResultsComplete`, all from `Invariance`: `Spec => []Inv`. None of the
  properties is inductive: `Inv` joins types (`TypeInv`), what a thread has at each of
  its places (`PlaceInv`: an adder that merges or flushes has a batch, a worker that
  settles holds the builder it packed, one that left held nothing), the six counters
  as sums over threads and queues (`Exact`), and a ledger (`Counted`): accepted logs and
  those about to be are exactly the ended ones and those in a batch, in a
  queue, or with a worker or sender; once the workers are gone, what is left in
  the queues came late. `WithinBudget` is part of it: a check of the space bounds
  the state after the step only because the counters are what they say.
- The subtractions of the code saturate, and the proof shows that they never do:
  what a thread releases is a summand of the counter it releases from.
- A sum is the number of its units (`Sum` counts the pairs `<<x, n>>` below the values of
  a function), so that its laws are facts about finite sets and need no
  induction: `SumUpdate` (one summand changes), and those for appending to,
  taking from and concatenating sequences. The merge of the whole ingress queue,
  a fold, is handled by the least counterexample (`NatMin`).
- Each step states what it changes in terms of the thread that moves
  (`AdderBalance`, `WorkerBalance`, `SenderBalance`); `AdderBooks`, `WorkerBooks` and
  `SenderBooks` carry that to the sums once and for all.

Only model-checked: liveness, which is beyond the prover: `EventuallyAcked`,
`EveryBatchEnds`, `CloseEnds`, `Reopens`, `ClosingReleases`, `DestroyEnds`. The
three findings are counterexamples and stay with TLC.

## Plan

Done: the log, its ledger and batching, the pipeline, the lease, the budget, the
shared environment, and the proofs above, which cover every safety property of the
passing runs. Next, in this order:

1. `Transport`, `Bridge`, `Diagnostics`: timeout against late answer, Swift close
   coordination, the bounded emitter.
2. Pure functions: retry interval and watermark arithmetic with their widths.

## Not modelled

The bridge and Swift layers (a serial queue and a life-cycle state behind a lock
each, above the core's own), the HTTP transport (the core only needs that a
request ends) and diagnostics are not modelled yet. Encodings, signing, hashing,
compression and configuration values are pure functions over bytes; object pools
and the platform adapter are thin wrappers; LZ4 is vendored. The reason for each
is in `PROJECT.json` under `components`.
