--------------------------------- MODULE Wal ----------------------------------
(***************************************************************************)
(* The write-ahead log of a persistent producer and the part of the        *)
(* producer that talks to it: appending records to segment files, the      *)
(* acknowledgement frontier and its checkpoint file, reclaiming settled    *)
(* segments, the overflow policies, closing, and recovery after a restart. *)
(*                                                                         *)
(* Every operation on the log runs under producer->persistent_mutex.  The  *)
(* holder's progress is `lock': one step of the model per file operation,  *)
(* so that a crash, or a step of a thread that does not need the mutex,    *)
(* can fall between any two of them.  What a crash leaves behind is in     *)
(* files, disk, synced and ckpt; everything else dies with the process.    *)
(*                                                                         *)
(* An event is one call of add.  Records have unit size, so the byte       *)
(* limits of the code coincide with its record limits.  Path and           *)
(* allocation failures and the removal of a file failing are left out.     *)
(***************************************************************************)
EXTENDS Integers, Sequences, FiniteSets, Frontier

CONSTANTS
    Events,        \* the add calls of the whole history
    NoEvent,       \* not an event
    MaxSeg,        \* bound: segment file numbers are 1..MaxSeg
    SegRecords,    \* segment_max_records
    MaxRecords,    \* max_records, 0 for no limit
    MaxSegments,   \* max_segments, 0 for no limit
    HighPct,       \* high_watermark_pct
    LowPct,        \* low_watermark_pct
    Policy,        \* overflow_policy
    SampleEvery,   \* sample_every_n
    SyncWal,       \* VE_TLS_PDURABILITY_SYNC_WAL
    MaxOpens,      \* bound: how often the directory is opened
    MaxFaults,     \* bound: how many environment faults happen
    FaultKinds     \* the faults that may happen

Policies == {"reject", "block", "drop_oldest", "sample"}

ASSUME WalAssumption ==
    /\ NoEvent \notin Events
    /\ IsFiniteSet(Events)
    /\ MaxSeg \in Nat \ {0} /\ SegRecords \in Nat \ {0} /\ SampleEvery \in Nat \ {0}
    /\ MaxRecords \in Nat /\ MaxSegments \in Nat
    /\ LowPct \in 1 .. 100 /\ HighPct \in 1 .. 100 /\ LowPct < HighPct
    /\ Policy \in Policies
    /\ SyncWal \in BOOLEAN
    /\ MaxOpens \in Nat /\ MaxFaults \in Nat
    /\ FaultKinds \subseteq {"write", "sync", "save", "power"}

VARIABLES
    files,      \* the segment files that exist
    disk,       \* the events recorded in each segment, in file order
    synced,     \* how many records of a segment an fsync has covered
    ckpt,       \* the checkpoint file: is it readable, and what it says
    up,         \* the life cycle of the process that owns the directory
    lock,       \* who holds persistent_mutex, at which step of what operation
    active,     \* store.active_segment_id
    fileDirty,  \* store.active_dirty
    meta,       \* segment_meta: exists, records, max_log_id
    recs,       \* current_records
    segs,       \* current_segments
    acked,      \* checkpoint.acked_log_id, the frontier
    lastSeg,    \* checkpoint.last_segment_id
    durable,    \* durable_checkpoint_acked_log_id
    dirty,      \* checkpoint_dirty
    pending,    \* reclaim_pending
    nextId,     \* producer->next_id
    waiting,    \* the ids in the completed ranges beyond the frontier
    pc,         \* where each event is in this process
    cursor,     \* where recovery reads next
    idOf,       \* history: the log id an event was given
    stored,     \* history: events whose record was written
    accepted,   \* history: events whose add returned OK
    done,       \* history: events delivered, or dropped by a policy that acks
    excuse,     \* history: why an event is no longer protected
    opens, faults

diskVars  == <<files, disk, synced, ckpt>>
usageVars == <<meta, recs, segs>>
ckptVars  == <<acked, lastSeg, durable, dirty, pending>>
addVars   == <<nextId, pc, idOf>>
histVars  == <<stored, accepted, done, excuse>>
vars == <<files, disk, synced, ckpt, up, lock, active, fileDirty, meta, recs, segs,
          acked, lastSeg, durable, dirty, pending, nextId, waiting, pc, cursor,
          idOf, stored, accepted, done, excuse, opens, faults>>

SegIds == 1 .. MaxSeg
NoMeta == [here |-> FALSE, n |-> 0, max |-> 0]
TornCheckpoint == [ok |-> FALSE, acked |-> 0, seg |-> 0]
FreeLock == [at |-> "free", who |-> NoEvent, why |-> "none"]
NoCursor == [seg |-> 0, pos |-> 0]
Running == {"recovering", "open", "closing"}

-------------------------------------------------------------------------------
(* Records, segments and limits *)

Held(s) == {disk[s][i] : i \in 1 .. Len(disk[s])}
OnDisk(e) == \E s \in files : e \in Held(s)

Highest(S) == IF \E x \in S : \A y \in S : y <= x
              THEN CHOOSE x \in S : \A y \in S : y <= x ELSE 0
ScanLast(s) == [here |-> TRUE, n |-> Len(disk[s]),
                max |-> IF disk[s] = <<>> THEN 0 ELSE idOf[disk[s][Len(disk[s])]]]
Scan(s) == [here |-> TRUE, n |-> Len(disk[s]), max |-> Highest({idOf[e] : e \in Held(s)})]

(* The oldest segment that is no longer written to, and whether every       *)
(* record in it is settled by a checkpoint known to be on disk.             *)
Oldest(s) == /\ meta[s].here /\ s < active
             /\ \A t \in SegIds : meta[t].here /\ t < active => s <= t
ReclaimableTooFar(s) == Oldest(s) /\ durable > 0 /\ meta[s].max \in 1 .. (durable + 1)
Reclaimable(s) == Oldest(s) /\ durable > 0 /\ meta[s].max \in 1 .. durable

NeedsRotate == Len(disk[active]) >= SegRecords
OverByOne(n, max) == max > 0 /\ n > max + 1
Over(n, max) == max > 0 /\ n > max
Saturated == \/ Over(recs + 1, MaxRecords)
             \/ Over(segs + (IF NeedsRotate THEN 1 ELSE 0), MaxSegments)
Pressed  == \/ MaxRecords > 0 /\ recs * 100 >= MaxRecords * HighPct
            \/ MaxSegments > 0 /\ segs * 100 >= MaxSegments * HighPct
AboveLow == \/ Over(recs * 100, MaxRecords * LowPct)
            \/ Over(segs * 100, MaxSegments * LowPct)

MinusSwapped(a, b) == b - a
MinusForgotten(a, b) == a
Minus(a, b) == IF a >= b THEN a - b ELSE 0

Remove(s) ==
    /\ files' = files \ {s}
    /\ disk' = [disk EXCEPT ![s] = <<>>]
    /\ synced' = [synced EXCEPT ![s] = 0]
    /\ meta' = [meta EXCEPT ![s] = NoMeta]
    /\ recs' = Minus(recs, meta[s].n)
    /\ segs' = Minus(segs, 1)
    /\ UNCHANGED ckpt

Fault(kind) == kind \in FaultKinds /\ faults < MaxFaults /\ faults' = faults + 1

(* The lock moves to the next step, or is released. *)
Step(at) == lock' = [lock EXCEPT !.at = at]
Release == lock' = FreeLock
Yield(result) == Release /\ pc' = [pc EXCEPT ![lock.who] = result]
Free == lock = FreeLock

-------------------------------------------------------------------------------
(* add: an id, then the append, then the hand-over to the send pipeline *)

(* An id at or below the frontier can never be told from a settled one.  Adds *)
(* come after recovery: the adapter recovers before it is exposed to callers *)
(* (TLSRealCoreAdapter.h:194); a C caller that adds before or during recovery *)
(* is not modelled.                                                         *)
AddBegin(e) ==
    /\ up = "open" /\ pc[e] = "new"
    /\ nextId' = nextId + 1
    /\ idOf' = [idOf EXCEPT ![e] = nextId]
    /\ pc' = [pc EXCEPT ![e] = "append"]
    /\ excuse' = [excuse EXCEPT ![e] = IF nextId <= acked THEN "stale" ELSE "none"]
    /\ UNCHANGED <<diskVars, up, lock, active, fileDirty, usageVars, ckptVars, waiting,
                   cursor, stored, accepted, done, opens, faults>>

AppendEnter(e) ==
    /\ up \in {"open", "closing"} /\ Free /\ pc[e] = "append"
    /\ lock' = [at |-> IF Saturated THEN "reclaim" ELSE "write", who |-> e, why |-> "append"]
    /\ UNCHANGED <<diskVars, up, active, fileDirty, usageVars, ckptVars, addVars, waiting,
                   cursor, histVars, opens, faults>>

RoomFound ==
    /\ lock.at = "room" /\ ~Saturated
    /\ Step("write")
    /\ UNCHANGED <<diskVars, up, active, fileDirty, usageVars, ckptVars, addVars, waiting,
                   cursor, histVars, opens, faults>>

Victim(s) == Policy = "drop_oldest" /\ Saturated /\ Oldest(s) /\ meta[s].max > 0

(* persist_drop_oldest_unacked: the frontier jumps over what is still        *)
(* unsettled in the victim, and the checkpoint is saved before it goes.      *)
DropOldestUnsaved(s) ==
    /\ lock.at = "room" /\ Victim(s)
    /\ acked' = Highest({acked, meta[s].max}) /\ lastSeg' = active
    /\ excuse' = [e \in Events |-> IF e \in Held(s) /\ e \notin done /\ excuse[e] = "none"
                                   THEN "dropped" ELSE excuse[e]]
    /\ Step("dropremove")
    /\ UNCHANGED <<diskVars, up, active, fileDirty, usageVars, durable, dirty, pending, addVars,
                   waiting, cursor, stored, accepted, done, opens, faults>>
DropOldest(s) ==
    /\ lock.at = "room" /\ Victim(s)
    /\ IF meta[s].max > acked
       THEN /\ acked' = meta[s].max
            /\ lastSeg' = active
            /\ excuse' = [e \in Events |->
                              IF e \in Held(s) /\ e \notin done /\ excuse[e] = "none"
                              THEN "dropped" ELSE excuse[e]]
            /\ lock' = [lock EXCEPT !.at = "save", !.why = "drop"]
       ELSE /\ Step("dropremove")
            /\ UNCHANGED <<acked, lastSeg, excuse>>
    /\ UNCHANGED <<diskVars, up, active, fileDirty, usageVars, durable, dirty, pending, addVars,
                   waiting, cursor, stored, accepted, done, opens, faults>>

DropRemove(s) ==
    /\ lock.at = "dropremove" /\ Oldest(s) /\ meta[s].max > 0
    /\ Remove(s)
    /\ lock' = [lock EXCEPT !.at = "room", !.why = "append"]
    /\ UNCHANGED <<up, active, fileDirty, ckptVars, addVars, waiting, cursor, histVars,
                   opens, faults>>

(* No room: BLOCKED makes the caller wait and retry, REJECT_NEW fails it.    *)
Refuse ==
    /\ lock.at = "room" /\ Saturated
    /\ \A s \in SegIds : ~Victim(s)
    /\ Yield(IF Policy = "block" \/ (Policy = "sample" /\ idOf[lock.who] % SampleEvery = 0)
             THEN "blocked" ELSE "failed")
    /\ UNCHANGED <<diskVars, up, active, fileDirty, usageVars, ckptVars, nextId, idOf, waiting,
                   cursor, histVars, opens, faults>>

(* A full segment is synced, closed and followed by the next file, which    *)
(* may already exist and is then continued.                                 *)
Rotate ==
    /\ lock.at = "write" /\ NeedsRotate /\ active < MaxSeg
    /\ active' = active + 1
    /\ files' = files \cup {active + 1}
    /\ synced' = IF fileDirty THEN [synced EXCEPT ![active] = Len(disk[active])] ELSE synced
    /\ fileDirty' = FALSE
    /\ Step("put")
    /\ UNCHANGED <<disk, ckpt, up, usageVars, ckptVars, addVars, waiting, cursor, histVars,
                   opens, faults>>

RotateFails ==
    /\ lock.at = "write" /\ NeedsRotate /\ fileDirty
    /\ Fault("sync")
    /\ Yield("failed")
    /\ UNCHANGED <<diskVars, up, active, fileDirty, usageVars, ckptVars, nextId, idOf, waiting,
                   cursor, histVars, opens>>

CanPut == lock.at = "put" \/ (lock.at = "write" /\ ~NeedsRotate)

Put ==
    /\ CanPut
    /\ disk' = [disk EXCEPT ![active] = Append(@, lock.who)]
    /\ fileDirty' = TRUE
    /\ LET id == idOf[lock.who]
           m == meta[active]
       IN  meta' = [meta EXCEPT ![active] =
                       [here |-> TRUE, n |-> m.n + 1, max |-> IF id > m.max THEN id ELSE m.max]]
    /\ recs' = recs + 1
    /\ segs' = IF segs = 0 THEN 1 ELSE IF lock.at = "put" THEN segs + 1 ELSE segs
    /\ stored' = stored \cup {lock.who}
    /\ Step(IF SyncWal THEN "sync" ELSE "relieve")
    /\ UNCHANGED <<files, synced, ckpt, up, active, ckptVars, addVars, waiting, cursor,
                   accepted, done, excuse, opens, faults>>

(* A short write is truncated away; a rotation made for it stays.           *)
PutFails ==
    /\ CanPut
    /\ Fault("write")
    /\ Yield("failed")
    /\ UNCHANGED <<diskVars, up, active, fileDirty, usageVars, ckptVars, nextId, idOf, waiting,
                   cursor, histVars, opens>>

SyncAppend ==
    /\ lock.at = "sync"
    /\ synced' = [synced EXCEPT ![active] = Len(disk[active])]
    /\ fileDirty' = FALSE
    /\ Step("relieve")
    /\ UNCHANGED <<files, disk, ckpt, up, active, usageVars, ckptVars, addVars, waiting, cursor,
                   histVars, opens, faults>>

(* The record stays in the file although the caller is told of a failure.   *)
SyncFails ==
    /\ lock.at = "sync"
    /\ Fault("sync")
    /\ lock' = [lock EXCEPT !.at = "relieve", !.why = "unsynced"]
    /\ UNCHANGED <<diskVars, up, active, fileDirty, usageVars, ckptVars, addVars, waiting, cursor,
                   histVars, opens>>

(* reclaim_to_low_watermark: once past the high mark, down to the low one.   *)
Relieving(s) == /\ \/ lock.at = "relieve" /\ Pressed
                   \/ lock.at = "low"
                /\ AboveLow /\ Reclaimable(s)

RelieveOne(s) ==
    /\ Relieving(s)
    /\ Remove(s)
    /\ Step("low")
    /\ UNCHANGED <<up, active, fileDirty, ckptVars, addVars, waiting, cursor, histVars,
                   opens, faults>>

AppendDoneUnchecked ==
    /\ lock.at \in {"relieve", "low"}
    /\ \A s \in SegIds : ~Relieving(s)
    /\ Yield("appended")
    /\ UNCHANGED <<diskVars, up, active, fileDirty, usageVars, ckptVars, nextId, idOf, waiting,
                   cursor, histVars, opens, faults>>
AppendDone ==
    /\ lock.at \in {"relieve", "low"}
    /\ \A s \in SegIds : ~Relieving(s)
    /\ Yield(IF lock.why = "append" THEN "appended" ELSE "failed")
    /\ UNCHANGED <<diskVars, up, active, fileDirty, usageVars, ckptVars, nextId, idOf, waiting,
                   cursor, histVars, opens, faults>>

(* A blocked append tries again, unless its time is up or the producer      *)
(* closes meanwhile.                                                        *)
Retry(e) ==
    /\ pc[e] = "blocked" /\ up \in {"open", "closing"}
    /\ \/ pc' = [pc EXCEPT ![e] = "failed"]
       \/ up = "open" /\ pc' = [pc EXCEPT ![e] = "append"]
    /\ UNCHANGED <<diskVars, up, lock, active, fileDirty, usageVars, ckptVars, nextId, idOf,
                   waiting, cursor, histVars, opens, faults>>

(* The append returned OK; the hand-over still fails if the producer closed *)
(* meanwhile, or finds no buffer space.                                     *)
AddReturn(e) ==
    /\ pc[e] = "appended" /\ up \in {"open", "closing"}
    /\ \/ /\ up = "open"
          /\ pc' = [pc EXCEPT ![e] = "queued"]
          /\ accepted' = accepted \cup {e}
       \/ /\ pc' = [pc EXCEPT ![e] = "failed"]
          /\ UNCHANGED accepted
    /\ UNCHANGED <<diskVars, up, lock, active, fileDirty, usageVars, ckptVars, nextId, idOf,
                   waiting, cursor, stored, done, excuse, opens, faults>>

-------------------------------------------------------------------------------
(* Final results: only an OK result settles ids *)

(* on_final_result(OK, lo, hi) under the mutex: the range waits, or the      *)
(* frontier moves and the checkpoint is saved now or left dirty.            *)
Settle(lo, hi) ==
    IF Waits(acked, lo, hi)
    THEN /\ waiting' = waiting \cup (lo .. hi)
         /\ UNCHANGED <<acked, lastSeg, dirty, lock>>
    ELSE IF hi > acked
    THEN \E m \in Reach(waiting, hi) :
            /\ acked' = m
            /\ waiting' = waiting \ (1 .. m)
            /\ lastSeg' = active
            /\ dirty' = TRUE
            /\ lock' \in {FreeLock, [at |-> "save", who |-> NoEvent, why |-> "ack"]}
    ELSE UNCHANGED <<waiting, acked, lastSeg, dirty, lock>>

(* A batch is sealed before an id that does not follow its last one, so its *)
(* range holds the ids of its own events and no other.                      *)
IsBatch(B, lo, hi) ==
    /\ {idOf[e] : e \in B} = lo .. hi
    /\ \A e, f \in B : idOf[e] = idOf[f] => e = f

Complete(B) ==
    /\ up \in Running /\ Free
    /\ B # {} /\ \A e \in B : pc[e] = "queued"
    /\ \E lo, hi \in {idOf[e] : e \in B} : IsBatch(B, lo, hi) /\ Settle(lo, hi)
    /\ pc' = [e \in Events |-> IF e \in B THEN "done" ELSE pc[e]]
    /\ done' = done \cup B
    /\ UNCHANGED <<diskVars, up, active, fileDirty, usageVars, durable, pending, nextId, idOf,
                   cursor, stored, accepted, excuse, opens, faults>>

(* Any other final result, or a task released without one, settles nothing. *)
GiveUp(e) ==
    /\ up \in Running /\ pc[e] = "queued"
    /\ pc' = [pc EXCEPT ![e] = "failed"]
    /\ UNCHANGED <<diskVars, up, lock, active, fileDirty, usageVars, ckptVars, nextId, idOf,
                   waiting, cursor, histVars, opens, faults>>

-------------------------------------------------------------------------------
(* Saving the checkpoint: the file is truncated in place, then rewritten *)

SaveTruncate ==
    /\ lock.at = "save"
    /\ ckpt' = TornCheckpoint
    /\ Step("saving")
    /\ UNCHANGED <<files, disk, synced, up, active, fileDirty, usageVars, ckptVars, addVars,
                   waiting, cursor, histVars, opens, faults>>

SaveWrite ==
    /\ lock.at = "saving"
    /\ ckpt' = [ok |-> TRUE, acked |-> acked, seg |-> lastSeg]
    /\ durable' = acked
    /\ pending' = (pending \/ acked > durable)
    /\ dirty' = FALSE
    /\ CASE lock.why = "ack" -> Release
         [] lock.why = "drop" -> Step("dropremove")
         [] OTHER -> Step("reclaim")
    /\ UNCHANGED <<files, disk, synced, up, active, fileDirty, usageVars, acked, lastSeg, addVars,
                   waiting, cursor, histVars, opens, faults>>

SaveFails ==
    /\ lock.at \in {"save", "saving"}
    /\ Fault("save")
    /\ IF lock.why = "drop" THEN Yield("failed")
       ELSE /\ IF lock.why = "close" THEN Step("end") ELSE Release
            /\ UNCHANGED pc
    /\ UNCHANGED <<diskVars, up, active, fileDirty, usageVars, ckptVars, nextId, idOf, waiting,
                   cursor, histVars, opens>>

-------------------------------------------------------------------------------
(* Reclaiming settled segments: on flush and close, on opening, and when an  *)
(* append finds a hard limit reached *)

MustReclaim == pending \/ lock.why = "append"

ReclaimOne(s) ==
    /\ lock.at = "reclaim" /\ MustReclaim /\ Reclaimable(s)
    /\ Remove(s)
    /\ UNCHANGED <<up, lock, active, fileDirty, ckptVars, addVars, waiting, cursor, histVars,
                   opens, faults>>

ReclaimDone ==
    /\ lock.at = "reclaim"
    /\ ~(MustReclaim /\ \E s \in SegIds : Reclaimable(s))
    /\ pending' = FALSE
    /\ CASE lock.why = "append" -> Step("room")
         [] lock.why = "close" -> Step("end")
         [] OTHER -> Release
    /\ UNCHANGED <<diskVars, up, active, fileDirty, usageVars, acked, lastSeg, durable, dirty,
                   addVars, waiting, cursor, histVars, opens, faults>>

(* persistent_flush_locked: sync the active file, save a dirty checkpoint,   *)
(* reclaim.                                                                 *)
FlushSync(why) ==
    /\ fileDirty' = FALSE
    /\ synced' = IF fileDirty THEN [synced EXCEPT ![active] = Len(disk[active])] ELSE synced
    /\ lock' = [at |-> IF dirty THEN "save" ELSE "reclaim", who |-> NoEvent, why |-> why]
    /\ UNCHANGED <<files, disk, ckpt, active, usageVars, ckptVars, addVars, waiting, cursor,
                   histVars, opens, faults>>

Flush ==
    /\ up \in {"open", "closing"} /\ Free
    /\ fileDirty \/ dirty \/ pending
    /\ FlushSync("flush")
    /\ UNCHANGED up

-------------------------------------------------------------------------------
(* Closing and destroying *)

CloseBegin ==
    /\ up = "open"
    /\ up' = "closing"
    /\ UNCHANGED <<diskVars, lock, active, fileDirty, usageVars, ckptVars, addVars, waiting,
                   cursor, histVars, opens, faults>>

(* Worker and sender are joined; what they still hold is released unsent.   *)
Stop ==
    /\ up' = "stopping"
    /\ pc' = [e \in Events |-> IF pc[e] = "queued" THEN "failed" ELSE pc[e]]
    /\ cursor' = NoCursor

Destroy ==
    /\ up = "closing" /\ Free
    /\ \A e \in Events : pc[e] \notin {"append", "blocked", "appended"}
    /\ Stop
    /\ UNCHANGED <<diskVars, lock, active, fileDirty, usageVars, ckptVars, nextId, idOf, waiting,
                   histVars, opens, faults>>

CloseFlush ==
    /\ up = "stopping" /\ Free
    /\ FlushSync("close")
    /\ UNCHANGED up

FlushSyncFails ==
    /\ up \in {"open", "closing", "stopping"} /\ Free /\ fileDirty
    /\ Fault("sync")
    /\ IF up = "stopping" THEN lock' = [at |-> "end", who |-> NoEvent, why |-> "close"]
       ELSE UNCHANGED lock
    /\ UNCHANGED <<diskVars, up, active, fileDirty, usageVars, ckptVars, addVars, waiting,
                   cursor, histVars, opens>>

(* The memory of the process is gone, and with it every event it held.      *)
Vanish ==
    /\ up' = "down"
    /\ lock' = FreeLock
    /\ active' = 1 /\ fileDirty' = FALSE
    /\ meta' = [s \in SegIds |-> NoMeta] /\ recs' = 0 /\ segs' = 0
    /\ acked' = 0 /\ lastSeg' = 0 /\ durable' = 0 /\ dirty' = FALSE /\ pending' = FALSE
    /\ nextId' = 1 /\ waiting' = {} /\ cursor' = NoCursor
    /\ pc' = [e \in Events |-> IF pc[e] = "new" THEN "new" ELSE "out"]
    /\ UNCHANGED <<files, ckpt, idOf, stored, accepted, done, opens>>

CloseEnd ==
    /\ lock.at = "end"
    /\ Vanish
    /\ UNCHANGED <<disk, synced, excuse, faults>>

Crash ==
    /\ up # "down"
    /\ Vanish
    /\ UNCHANGED <<disk, synced, excuse, faults>>

(* Power fails: of each segment at least the synced records remain.         *)
PowerLoss ==
    /\ Fault("power")
    /\ Vanish
    /\ \E keep \in [SegIds -> 0 .. SegRecords] :
          /\ \A s \in SegIds : keep[s] \in synced[s] .. Len(disk[s])
          /\ disk' = [s \in SegIds |-> SubSeq(disk[s], 1, keep[s])]
          /\ synced' = keep
          /\ excuse' = [e \in Events |->
                 IF excuse[e] = "none" /\ OnDisk(e) /\ \A s \in files : e \notin Held(s)'
                 THEN "power" ELSE excuse[e]]

-------------------------------------------------------------------------------
(* Opening the directory and recovering *)

(* find_last_existing_segment: the end of the run of files that starts at s. *)
LastOfRun(s) == {t \in files : s <= t /\ s .. t \subseteq files /\ t + 1 \notin files}

(* The active segment is found from the checkpoint's last segment, or else   *)
(* from segment 1.                                                          *)
ResumeAt(seg) == IF seg \in files THEN LastOfRun(seg)
                 ELSE IF 1 \in files THEN LastOfRun(1) ELSE {1}

(* A checkpoint that cannot be read starts over from nothing.  Only the      *)
(* segments up to the active one are known from here on.                    *)
Open ==
    /\ up = "down" /\ opens < MaxOpens
    /\ opens' = opens + 1
    /\ LET cp == IF ckpt.ok THEN ckpt ELSE TornCheckpoint
       IN  /\ ckpt' = [ok |-> TRUE, acked |-> cp.acked, seg |-> cp.seg]
           /\ acked' = cp.acked /\ durable' = cp.acked /\ lastSeg' = cp.seg
           /\ pending' = (cp.acked > 0)
           /\ \E a \in ResumeAt(cp.seg) :
                LET known == {s \in files \cup {a} : s <= a}
                    found == UNION {Held(s) : s \in known}
                IN  /\ active' = a
                    /\ files' = files \cup {a}
                    /\ meta' = [s \in SegIds |-> IF s \in known THEN Scan(s) ELSE NoMeta]
                    /\ recs' = Cardinality(found)
                    /\ segs' = Cardinality(known)
                    /\ excuse' = [e \in Events |-> IF OnDisk(e) /\ e \notin found
                                                    THEN "stranded" ELSE excuse[e]]
    /\ lock' = [at |-> "reclaim", who |-> NoEvent, why |-> "open"]
    /\ up' = "recovering"
    /\ cursor' = [seg |-> 1, pos |-> 1]
    /\ UNCHANGED <<disk, synced, fileDirty, dirty, addVars, waiting, stored, accepted, done,
                   faults>>

AtRecordButLast == cursor.pos < Len(disk[cursor.seg])
AtRecord == cursor.pos <= Len(disk[cursor.seg])

(* The next record below the frontier is skipped, any other is enqueued.     *)
RecoverRecord ==
    /\ up = "recovering" /\ Free /\ AtRecord
    /\ LET e == disk[cursor.seg][cursor.pos]
       IN  IF idOf[e] > acked
           THEN /\ pc' = [pc EXCEPT ![e] = "queued"]
                /\ nextId' = IF nextId > idOf[e] THEN nextId ELSE idOf[e] + 1
           ELSE UNCHANGED <<pc, nextId>>
    /\ cursor' = [cursor EXCEPT !.pos = @ + 1]
    /\ UNCHANGED <<diskVars, up, lock, active, fileDirty, usageVars, ckptVars, idOf, waiting,
                   histVars, opens, faults>>

(* persistent_expired_log_policy DROP: an expired record is settled unsent.  *)
RecoverExpired ==
    /\ up = "recovering" /\ Free /\ AtRecord
    /\ LET e == disk[cursor.seg][cursor.pos]
       IN  /\ idOf[e] > acked
           /\ Settle(idOf[e], idOf[e])
           /\ done' = done \cup {e}
           /\ pc' = [pc EXCEPT ![e] = "done"]
           /\ nextId' = IF nextId > idOf[e] THEN nextId ELSE idOf[e] + 1
    /\ cursor' = [cursor EXCEPT !.pos = @ + 1]
    /\ UNCHANGED <<diskVars, up, active, fileDirty, usageVars, durable, pending, idOf, stored,
                   accepted, excuse, opens, faults>>

(* The in-memory queue is full: recovery fails and the producer with it.     *)
RecoverFails ==
    /\ up = "recovering" /\ Free /\ AtRecord
    /\ idOf[disk[cursor.seg][cursor.pos]] > acked
    /\ Stop
    /\ UNCHANGED <<diskVars, lock, active, fileDirty, usageVars, ckptVars, nextId, idOf, waiting,
                   histVars, opens, faults>>

RecoverNextSegment ==
    /\ up = "recovering" /\ Free /\ ~AtRecord
    /\ IF cursor.seg < active
       THEN cursor' = [seg |-> cursor.seg + 1, pos |-> 1] /\ UNCHANGED up
       ELSE cursor' = NoCursor /\ up' = "open"
    /\ UNCHANGED <<diskVars, lock, active, fileDirty, usageVars, ckptVars, addVars, waiting,
                   histVars, opens, faults>>

-------------------------------------------------------------------------------
Init ==
    /\ files = {} /\ disk = [s \in SegIds |-> <<>>] /\ synced = [s \in SegIds |-> 0]
    /\ ckpt = TornCheckpoint
    /\ up = "down" /\ lock = FreeLock /\ active = 1 /\ fileDirty = FALSE
    /\ meta = [s \in SegIds |-> NoMeta] /\ recs = 0 /\ segs = 0
    /\ acked = 0 /\ lastSeg = 0 /\ durable = 0 /\ dirty = FALSE /\ pending = FALSE
    /\ nextId = 1 /\ waiting = {} /\ pc = [e \in Events |-> "new"] /\ cursor = NoCursor
    /\ idOf = [e \in Events |-> 0]
    /\ stored = {} /\ accepted = {} /\ done = {}
    /\ excuse = [e \in Events |-> "none"]
    /\ opens = 0 /\ faults = 0

AddStep(e) == AddBegin(e) \/ AppendEnter(e) \/ Retry(e) \/ AddReturn(e)
AppendStep == \/ RoomFound \/ Refuse \/ Rotate \/ RotateFails \/ Put \/ PutFails
              \/ SyncAppend \/ SyncFails \/ AppendDone
SegmentStep(s) == DropOldest(s) \/ DropRemove(s) \/ RelieveOne(s) \/ ReclaimOne(s)
SaveStep == SaveTruncate \/ SaveWrite \/ SaveFails
LifeStep == \/ CloseBegin \/ Destroy \/ CloseFlush \/ FlushSyncFails \/ CloseEnd
            \/ Crash \/ PowerLoss \/ Open
RecoverStep == RecoverRecord \/ RecoverExpired \/ RecoverFails \/ RecoverNextSegment

Next == \/ \E e \in Events : AddStep(e) \/ GiveUp(e)
        \/ \E B \in SUBSET Events : Complete(B)
        \/ \E s \in SegIds : SegmentStep(s)
        \/ AppendStep \/ SaveStep \/ ReclaimDone \/ Flush \/ LifeStep \/ RecoverStep

Spec == Init /\ [][Next]_vars

-------------------------------------------------------------------------------
(* Properties *)

Stages == {"free", "reclaim", "room", "dropremove", "save", "saving", "write", "put", "sync",
           "relieve", "low", "end"}
Reasons == {"none", "append", "unsynced", "ack", "drop", "flush", "close", "open"}
Places == {"new", "append", "blocked", "appended", "queued", "done", "failed", "out"}
Excuses == {"none", "stale", "stranded", "dropped", "power"}

(* The type of the whole state.                                             *)
TypeOK ==
    /\ files \subseteq SegIds
    /\ disk \in [SegIds -> Seq(Events)]
    /\ synced \in [SegIds -> Nat]
    /\ ckpt \in [ok : BOOLEAN, acked : Nat, seg : Nat]
    /\ up \in Running \cup {"down", "stopping"}
    /\ lock \in [at : Stages, who : Events \cup {NoEvent}, why : Reasons]
    /\ active \in SegIds /\ fileDirty \in BOOLEAN
    /\ meta \in [SegIds -> [here : BOOLEAN, n : Nat, max : Nat]]
    /\ recs \in Nat /\ segs \in Nat
    /\ acked \in Nat /\ lastSeg \in Nat /\ durable \in Nat
    /\ dirty \in BOOLEAN /\ pending \in BOOLEAN
    /\ nextId \in Nat /\ waiting \subseteq Nat
    /\ pc \in [Events -> Places]
    /\ cursor \in [seg : 0 .. MaxSeg, pos : Nat]
    /\ idOf \in [Events -> Nat]
    /\ stored \subseteq Events /\ accepted \subseteq Events /\ done \subseteq Events
    /\ excuse \in [Events -> Excuses]
    /\ opens \in Nat /\ faults \in Nat

(* A recorded event whose outcome is still open and whose record nothing the *)
(* code documents has given up: neither a drop policy nor a power failure,   *)
(* and not one of the two known defects (its id was handed out at or below   *)
(* the frontier, or its segment was left behind by an Open).                 *)
Twin(e) == \E f \in stored \ {e} : idOf[f] = idOf[e]
Protected(e) == e \in stored \ done /\ excuse[e] = "none" /\ ~Twin(e)

(* An unsettled record is never lost: its file exists and both the frontier  *)
(* in memory and the checkpoint on disk stay below its id, whatever is being *)
(* appended, completed, saved, reclaimed or recovered at the time.           *)
NoLoss ==
    Policy # "drop_oldest" =>
        \A e \in Events : Protected(e) =>
            /\ OnDisk(e)
            /\ acked < idOf[e]
            /\ ckpt.ok => ckpt.acked < idOf[e]

(* After an Open every unsettled record has been handed to the send pipeline *)
(* before the producer accepts the first new event.                          *)
RecoveryComplete ==
    Policy # "drop_oldest" =>
        \A e \in Events : Protected(e) /\ up \in {"open", "closing"} => pc[e] # "out"

(* The frontier and the waiting ids never touch: completing the id that      *)
(* closes a gap carries the frontier over everything that waited behind it.  *)
FrontierTight ==
    Policy # "drop_oldest" => \A id \in waiting : id > acked + 1

(* The limits hold for what is really on disk, across rotations, concurrent  *)
(* appends, reclaims and restarts.  (A rotation whose append then failed is  *)
(* not counted by the code, and an Open that misses files cannot count them.)*)
NoStranded == \A e \in Events : excuse[e] # "stranded"
NoRotationLost == "write" \notin FaultKinds \/ faults = 0
WithinLimits ==
    NoStranded /\ NoRotationLost =>
        /\ MaxRecords > 0 => Cardinality(UNION {Held(s) : s \in files}) <= MaxRecords
        /\ MaxSegments > 0 =>
              Cardinality({s \in files : Held(s) # {}}) <= MaxSegments

(* What the running totals and the segment table say is what the files hold, *)
(* so that a limit neither blocks a log with room nor is passed unnoticed.   *)
AccountingExact ==
    up \in Running /\ NoStranded /\ NoRotationLost =>
        /\ recs = Cardinality(UNION {Held(s) : s \in files})
        /\ segs = Cardinality({s \in files : meta[s].here})
        /\ \A s \in files : meta[s].here => meta[s] = Scan(s)
        /\ \A s \in files : ~meta[s].here => Held(s) = {}

(* In SYNC_WAL mode an event whose append returned OK is covered by an fsync  *)
(* as long as its record is on disk, also after a crash and a reopening that *)
(* forgot which writes were not synced.                                      *)
SyncedWhenAccepted ==
    SyncWal => \A s \in SegIds : \A i \in 1 .. Len(disk[s]) :
                  disk[s][i] \in accepted \/ pc[disk[s][i]] = "appended" => i <= synced[s]

(* While the process runs the frontier only moves over ids that completed in *)
(* it: it never skips an id that was handed out and whose fate is open, such *)
(* as that of an append still in progress.                                   *)
FrontierStep ==
    [][Policy # "drop_oldest" /\ up \in Running /\ up' \in Running =>
         acked <= acked' /\ (acked + 1) .. acked' \subseteq {idOf[e] : e \in done'}]_vars

(* A segment is removed only when each of its records was delivered.  Under *)
(* drop_oldest it may instead be covered by the checkpoint on disk: that     *)
(* policy saves the frontier that gives a record up before it deletes it     *)
(* (unless a save has failed: the next drop then skips it).  Excepted are    *)
(* the records of the two known defects, which Protected leaves out as well. *)
NoSaveLost == "save" \notin FaultKinds \/ faults = 0
Defective(e) == excuse[e] \in {"stale", "stranded"} \/ Twin(e)
RemovedWhenSettled ==
    [][\A s \in files : s \notin files' =>
          \A e \in Held(s) : e \notin done /\ ~Defective(e) =>
             /\ Policy = "drop_oldest"
             /\ NoSaveLost => ckpt.ok /\ idOf[e] <= ckpt.acked]_vars

(* "恢复尚未确认的数据": an accepted event that is neither settled nor given   *)
(* up is recovered when the directory is opened again.                       *)
Missed(e) == up = "open" /\ e \in accepted \ done /\ pc[e] = "out"
StaleRecovered == \A e \in Events : Missed(e) => excuse[e] # "stale"
StrandedRecovered == \A e \in Events : Missed(e) => excuse[e] # "stranded"
===============================================================================
