---------------------------- MODULE WalDiskProofs -----------------------------
(***************************************************************************)
(* What the files of the log hold, for every value of the constants of     *)
(* Wal: in SYNC_WAL mode an append that returned OK is on disk for good    *)
(* (SyncedWhenAccepted), a segment goes only when it is settled            *)
(* (RemovedWhenSettled), what is counted is what the files hold            *)
(* (AccountingExact), and its limits hold (WithinLimits).                  *)
(***************************************************************************)
EXTENDS WalProofs

Undecided == {"new", "append", "blocked"}
Recorded == {"sync", "relieve", "low"}

(* A record no fsync has covered.                                           *)
Unsynced(f, s) == \E i \in 1 .. Len(disk[s]) : disk[s][i] = f /\ ~(i <= synced[s])

(* The mutex belongs to an event whose append is under way.                 *)
OwnerInv ==
    /\ up = "down" => lock.at = "free" /\ lock.why = "none"
    /\ lock.who \in Events => pc[lock.who] = "append"
    /\ lock.why = "unsynced" => lock.at \in {"relieve", "low"}

(* What is recorded while its append is under way was recorded by the append *)
(* that holds the mutex now; and an accepted event is past its append.      *)
FreshInv ==
    /\ \A s \in SegIds : Held(s) \subseteq stored
    /\ \A e \in stored : pc[e] \in Undecided =>
          pc[e] = "append" /\ e = lock.who /\ lock.at \in Recorded
    /\ \A e \in accepted : pc[e] \notin Undecided \cup {"appended"}

(* A record without an fsync is neither accepted nor about to be; if its    *)
(* append is still under way, the fsync is to come or has failed.           *)
SyncedInv ==
    SyncWal => \A s \in SegIds : \A f \in Events : Unsynced(f, s) =>
        /\ f \notin accepted /\ pc[f] # "appended"
        /\ pc[f] = "append" => (lock.at = "sync" /\ s = active) \/ lock.why = "unsynced"

SyncInv == OwnerInv /\ FreshInv /\ SyncedInv

USE DEF Stages, Reasons, Places, AppendStages, SharedStages, Locks, Undecided, Recorded

-------------------------------------------------------------------------------
(* Records and fsyncs *)

(* The log grew no record and lost no fsync.                                *)
NoneUnsynced ==
    /\ \A s \in SegIds : Held(s)' \subseteq Held(s)
    /\ \A s \in SegIds : \A f \in Events : Unsynced(f, s)' => Unsynced(f, s)

LEMMA SameDisk ==
    ASSUME UNCHANGED disk, UNCHANGED synced PROVE NoneUnsynced
  BY DEF NoneUnsynced, Held, Unsynced

LEMMA SyncActive ==
    ASSUME TypeInv, UNCHANGED disk, synced' = [synced EXCEPT ![active] = Len(disk[active])]
    PROVE  NoneUnsynced /\ \A s \in SegIds : \A f \in Events : s = active => ~Unsynced(f, s)'
<1>1. /\ active \in SegIds /\ synced \in [SegIds -> Nat]
      /\ \A s \in SegIds : synced'[s] = IF s = active THEN Len(disk[s]) ELSE synced[s]
  BY DEF TypeInv, TypeOK
<1>2. ASSUME NEW s \in SegIds, NEW f \in Events, Unsynced(f, s)' PROVE s # active /\ Unsynced(f, s)
  <2>1. PICK i \in 1 .. Len(disk[s]) : disk[s][i] = f /\ ~(i <= synced'[s])
    BY <1>2 DEF Unsynced
  <2>2. disk[s] \in Seq(Events)
    BY DEF TypeInv, TypeOK
  <2>3. Len(disk[s]) \in Nat
    BY <2>2
  <2>4. s # active
    BY <1>1, <2>1, <2>3
  <2>5. synced'[s] = synced[s]
    BY <1>1, <2>4
  <2> QED
    BY <2>1, <2>4, <2>5 DEF Unsynced
<1>3. \A s \in SegIds : Held(s)' = Held(s)
  BY DEF Held
<1> QED
  BY <1>2, <1>3 DEF NoneUnsynced

-------------------------------------------------------------------------------
(* The steps that leave the log alone *)

LEMMA SyncAdds ==
    ASSUME TypeInv, SyncInv, NEW e \in Events, AddStep(e) \/ GiveUp(e) PROVE SyncInv'
<1>1. /\ pc \in [Events -> Places] /\ stored \subseteq Events /\ accepted \subseteq Events
      /\ NoEvent \notin Events
  BY WalAssumption DEF TypeInv, TypeOK
<1>2. NoneUnsynced /\ UNCHANGED <<active, stored, up>>
  BY SameDisk DEF AddStep, AddBegin, AppendEnter, Retry, AddReturn, GiveUp, diskVars, histVars
<1>3. \A f \in Events \ {e} : pc'[f] = pc[f]
  BY <1>1 DEF AddStep, AddBegin, AppendEnter, Retry, AddReturn, GiveUp, addVars
<1> USE DEF SyncInv, OwnerInv, FreshInv, SyncedInv, NoneUnsynced
<1>4. CASE AppendEnter(e)
  <2>1. /\ lock.at = "free" /\ lock.why = "none" /\ lock'.who = e /\ lock'.why = "append"
        /\ pc[e] = "append" /\ up # "down" /\ UNCHANGED <<pc, accepted>>
    BY <1>4 DEF AppendEnter, Free, FreeLock, addVars, histVars
  <2> QED
    BY <1>1, <1>2, <2>1
<1>5. CASE ~AppendEnter(e)
  <2>1. UNCHANGED lock
    BY <1>5 DEF AddStep, AddBegin, Retry, AddReturn, GiveUp
  <2>2. \/ pc[e] \in {"new", "blocked"} /\ pc'[e] \in {"append", "failed"} /\ accepted' = accepted
        \/ pc[e] = "appended" /\ pc'[e] = "queued" /\ accepted' = accepted \cup {e}
        \/ pc[e] \in {"appended", "queued"} /\ pc'[e] = "failed" /\ accepted' = accepted
    BY <1>1, <1>5 DEF AddStep, AddBegin, Retry, AddReturn, GiveUp, histVars
  <2>3. e \in stored => pc[e] \notin Undecided
    BY <2>2
  <2>4. \A s \in SegIds : Unsynced(e, s) => e \in stored
    BY DEF Unsynced, Held
  <2>5. OwnerInv'
    BY <1>2, <1>3, <2>1, <2>2
  <2>6. FreshInv'
    BY <1>1, <1>2, <1>3, <2>1, <2>2, <2>3
  <2>7. SyncedInv'
    BY <1>1, <1>2, <1>3, <2>1, <2>2, <2>3, <2>4
  <2> QED
    BY <2>5, <2>6, <2>7
<1> QED
  BY <1>4, <1>5

(* The mutex moves on, and no event does.                                   *)
LEMMA SyncMoves ==
    ASSUME TypeInv, SyncInv,
           RoomFound \/ Rotate \/ SyncAppend \/ SyncFails \/ SaveTruncate \/ SaveWrite
              \/ (SaveFails /\ lock.why # "drop") \/ ReclaimDone
              \/ Flush \/ CloseBegin \/ CloseFlush \/ FlushSyncFails
              \/ \E s \in SegIds : DropOldest(s)
    PROVE  SyncInv'
<1>1. /\ pc \in [Events -> Places] /\ stored \subseteq Events /\ accepted \subseteq Events
      /\ NoEvent \notin Events /\ lock \in Locks
  BY WalAssumption DEF TypeInv, TypeOK
<1>2. UNCHANGED <<disk, pc, stored, accepted>>
  BY DEF RoomFound, Rotate, SyncAppend, SyncFails, SaveTruncate, SaveWrite, SaveFails, ReclaimDone,
         Flush, FlushSync, CloseBegin, CloseFlush, FlushSyncFails, DropOldest, diskVars, addVars,
         histVars
<1> USE <1>1, <1>2 DEF SyncInv, OwnerInv, FreshInv, SyncedInv, NoneUnsynced
<1>3. CASE UNCHANGED synced
  <2>1. NoneUnsynced
    BY <1>3, SameDisk
  <2>2. CASE RoomFound \/ SaveTruncate \/ \E s \in SegIds : DropOldest(s)
    <3>1. /\ lock.at \in {"room", "save"} /\ UNCHANGED <<up, active>>
          /\ lock' = [lock EXCEPT !.at = "write"] \/ lock' = [lock EXCEPT !.at = "saving"]
             \/ lock' = [lock EXCEPT !.at = "save", !.why = "drop"]
             \/ lock' = [lock EXCEPT !.at = "dropremove"]
      BY <2>2 DEF RoomFound, SaveTruncate, DropOldest, Step
    <3> QED
      BY <2>1, <3>1
  <2>7. CASE SaveWrite \/ (SaveFails /\ lock.why # "drop") \/ ReclaimDone
    <3>1. /\ lock.at \in SharedStages /\ UNCHANGED <<up, active>>
          /\ lock' = FreeLock \/ lock' = [lock EXCEPT !.at = "end"]
             \/ lock' = [lock EXCEPT !.at = "dropremove"] \/ lock' = [lock EXCEPT !.at = "reclaim"]
             \/ lock' = [lock EXCEPT !.at = "room"]
      BY <2>7 DEF SaveWrite, SaveFails, ReclaimDone, Step, Release
    <3> QED
      BY <2>1, <3>1 DEF FreeLock
  <2>3. CASE Flush \/ CloseBegin \/ CloseFlush \/ FlushSyncFails
    BY <2>1, <2>3 DEF Flush, FlushSync, CloseBegin, CloseFlush, FlushSyncFails, Free, FreeLock
  <2>4. CASE SyncFails
    BY <2>1, <2>4 DEF SyncFails
  <2>5. CASE Rotate
    BY <2>1, <2>5 DEF Rotate, Step
  <2>6. CASE SyncAppend
    <3>1. synced' = [synced EXCEPT ![active] = Len(disk[active])]
      BY <2>6 DEF SyncAppend
    <3> QED
      BY <2>1, <2>6, <3>1, SyncActive DEF SyncAppend, Step
  <2> QED
    BY <2>2, <2>3, <2>4, <2>5, <2>6, <2>7
<1>4. CASE synced' = [synced EXCEPT ![active] = Len(disk[active])]
  <2>1. NoneUnsynced /\ \A s \in SegIds : \A f \in Events : s = active => ~Unsynced(f, s)'
    BY <1>4, SyncActive
  <2>2. CASE Rotate
    BY <2>1, <2>2 DEF Rotate, Step
  <2>3. CASE SyncAppend
    BY <2>1, <2>3 DEF SyncAppend, Step
  <2>4. CASE Flush \/ CloseFlush
    BY <2>1, <2>4 DEF Flush, FlushSync, CloseFlush, Free, FreeLock
  <2>5. CASE ~(Rotate \/ SyncAppend \/ Flush \/ CloseFlush)
    <3>1. UNCHANGED synced
      BY <2>5 DEF RoomFound, SyncFails, SaveTruncate, SaveWrite, SaveFails, ReclaimDone, CloseBegin,
            FlushSyncFails, DropOldest, diskVars
    <3> QED
      BY <1>3, <3>1
  <2> QED
    BY <2>2, <2>3, <2>4, <2>5
<1>5. UNCHANGED synced \/ synced' = [synced EXCEPT ![active] = Len(disk[active])]
  BY DEF RoomFound, Rotate, SyncAppend, SyncFails, SaveTruncate, SaveWrite, SaveFails, ReclaimDone,
         Flush, FlushSync, CloseBegin, CloseFlush, FlushSyncFails, DropOldest, diskVars
<1> QED
  BY <1>3, <1>4, <1>5

(* An append ends: in success only if the fsync did not fail.                *)
LEMMA SyncYields ==
    ASSUME TypeInv, SyncInv,
           Refuse \/ RotateFails \/ PutFails \/ AppendDone \/ (SaveFails /\ lock.why = "drop")
    PROVE  SyncInv'
<1>1. /\ pc \in [Events -> Places] /\ stored \subseteq Events /\ accepted \subseteq Events
      /\ NoEvent \notin Events /\ lock \in Locks /\ lock.who \in Events
  BY WalAssumption DEF TypeInv, TypeOK, LockOK, Refuse, RotateFails, PutFails, CanPut, AppendDone,
     SaveFails
<1>2. /\ UNCHANGED <<disk, synced, up, active, stored, accepted>> /\ lock' = FreeLock
      /\ \/ pc' = [pc EXCEPT ![lock.who] = "failed"]
         \/ pc' = [pc EXCEPT ![lock.who] = "blocked"] /\ lock.at = "room"
         \/ pc' = [pc EXCEPT ![lock.who] = "appended"] /\ lock.at \in {"relieve", "low"}
            /\ lock.why = "append"
  BY DEF Refuse, RotateFails, PutFails, AppendDone, SaveFails, Yield, Release, diskVars, histVars
<1>3. NoneUnsynced
  BY <1>2, SameDisk
<1>4. \A f \in Events \ {lock.who} : pc'[f] = pc[f]
  BY <1>1, <1>2
<1>5. pc[lock.who] = "append" /\ pc'[lock.who] \in {"failed", "blocked", "appended"}
  BY <1>1, <1>2 DEF SyncInv, OwnerInv
<1>6. \A s \in SegIds : Unsynced(lock.who, s) => lock.who \in stored
  BY DEF Unsynced, Held, SyncInv, FreshInv
<1> USE DEF SyncInv, OwnerInv, FreshInv, SyncedInv, NoneUnsynced
<1>7. OwnerInv'
  BY <1>1, <1>2 DEF FreeLock
<1>8. FreshInv'
  BY <1>1, <1>2, <1>3, <1>4, <1>5
<1>9. SyncedInv'
  <2> SUFFICES ASSUME SyncWal, NEW s \in SegIds, NEW f \in Events, Unsynced(f, s)
               PROVE  /\ f \notin accepted /\ pc'[f] # "appended" /\ pc'[f] # "append"
    BY <1>2, <1>3
  <2>1. /\ f \notin accepted /\ pc[f] # "appended"
        /\ pc[f] = "append" => (lock.at = "sync" /\ s = active) \/ lock.why = "unsynced"
    OBVIOUS
  <2>2. CASE f = lock.who
    BY <1>1, <1>2, <1>5, <2>1, <2>2
  <2>3. CASE f # lock.who
    <3>1. pc'[f] = pc[f] /\ f \in stored
      BY <1>4, <2>3 DEF Unsynced, Held
    <3> QED
      BY <2>1, <2>3, <3>1
  <2> QED
    BY <2>2, <2>3
<1> QED
  BY <1>7, <1>8, <1>9

-------------------------------------------------------------------------------
(* Records come and go *)

LEMMA SyncPut == ASSUME TypeInv, SyncInv, Put PROVE SyncInv'
<1> DEFINE e == lock.who
<1>1. /\ e \in Events /\ lock \in Locks /\ active \in SegIds /\ synced \in [SegIds -> Nat]
      /\ disk \in [SegIds -> Seq(Events)] /\ stored \subseteq Events
      /\ lock.at \in {"write", "put"}
  BY DEF Put, CanPut, TypeInv, TypeOK, LockOK
<1>2. /\ disk' = [disk EXCEPT ![active] = Append(@, e)] /\ stored' = stored \cup {e}
      /\ lock' = [lock EXCEPT !.at = IF SyncWal THEN "sync" ELSE "relieve"]
      /\ UNCHANGED <<synced, up, active, pc, accepted>>
  BY DEF Put, Step, addVars
<1>3. ASSUME NEW s \in SegIds, NEW i \in 1 .. Len(disk'[s])
      PROVE  (disk'[s][i] = e /\ s = active) \/ (i \in 1 .. Len(disk[s]) /\ disk'[s][i] = disk[s][i])
  <2>1. CASE s # active
    BY <1>1, <1>2, <2>1
  <2>2. CASE s = active
    <3>1. disk'[s] = Append(disk[s], e) /\ disk[s] \in Seq(Events)
      BY <1>1, <1>2, <2>2
    <3>2. /\ Len(disk'[s]) = Len(disk[s]) + 1 /\ disk'[s][Len(disk[s]) + 1] = e
          /\ Len(disk[s]) \in Nat /\ \A j \in 1 .. Len(disk[s]) : disk'[s][j] = disk[s][j]
      BY <1>1, <3>1
    <3> QED
      BY <2>2, <3>2
  <2> QED
    BY <2>1, <2>2
<1> HIDE DEF e
<1>4. \A s \in SegIds : Held(s)' \subseteq Held(s) \cup {e}
  BY <1>3 DEF Held
<1>5. \A s \in SegIds : \A f \in Events : Unsynced(f, s)' => Unsynced(f, s) \/ (f = e /\ s = active)
  BY <1>2, <1>3 DEF Unsynced
<1>6. \A s \in SegIds : \A f \in Events : Unsynced(f, s) => f \in stored
  BY DEF Unsynced, Held, SyncInv, FreshInv
<1> USE DEF SyncInv, OwnerInv, FreshInv, SyncedInv
<1>7. pc[e] = "append" /\ e \notin stored /\ e \notin accepted /\ lock.why # "unsynced"
  BY <1>1 DEF e
<1>8. \A f \in stored : pc[f] \notin Undecided
  BY <1>1
<1>9. OwnerInv'
  BY <1>1, <1>2, <1>7
<1>10. FreshInv'
  BY <1>1, <1>2, <1>4, <1>7, <1>8 DEF e
<1>11. SyncedInv'
  BY <1>1, <1>2, <1>5, <1>6, <1>7, <1>8
<1> QED
  BY <1>9, <1>10, <1>11

LEMMA SyncRemove ==
    ASSUME TypeInv, SyncInv, NEW s \in SegIds, DropRemove(s) \/ RelieveOne(s) \/ ReclaimOne(s)
    PROVE  SyncInv'
<1>1. /\ Remove(s) /\ UNCHANGED <<up, active, pc, stored, accepted>> /\ lock \in Locks
      /\ \/ UNCHANGED lock
         \/ lock.at \in {"relieve", "low"} /\ lock' = [lock EXCEPT !.at = "low"]
         \/ lock.at = "dropremove" /\ lock' = [lock EXCEPT !.at = "room", !.why = "append"]
  BY DEF DropRemove, RelieveOne, ReclaimOne, Relieving, Step, addVars, histVars, TypeInv, TypeOK
<1>2. /\ disk'[s] = <<>>
      /\ \A t \in SegIds \ {s} : disk'[t] = disk[t] /\ synced'[t] = synced[t]
  BY <1>1 DEF Remove, TypeInv, TypeOK
<1>3. NoneUnsynced
  BY <1>2 DEF NoneUnsynced, Held, Unsynced
<1> QED
  BY <1>1, <1>3 DEF SyncInv, OwnerInv, FreshInv, SyncedInv, NoneUnsynced

-------------------------------------------------------------------------------
(* Results, recovery, and the end of a process *)

(* With the mutex free no append is half done: any event may be moved on.    *)
LEMMA SyncResults ==
    ASSUME TypeInv, SyncInv,
           (\E B \in SUBSET Events : Complete(B)) \/ RecoverStep \/ Destroy
    PROVE  SyncInv'
<1>1. /\ UNCHANGED <<disk, synced, active, stored, accepted>> /\ lock = FreeLock /\ up' # "down"
      /\ \/ lock' = FreeLock
         \/ lock' = [at |-> "save", who |-> NoEvent, why |-> "ack"]
  BY DEF Complete, RecoverStep, RecoverRecord, RecoverExpired, RecoverFails, RecoverNextSegment,
     Destroy, Settle, Stop, Free, Running, diskVars, histVars
<1>2. \A f \in Events : pc'[f] = pc[f] \/ pc'[f] \in {"queued", "done", "failed"}
  <2>1. pc \in [Events -> Places]
    BY DEF TypeInv, TypeOK
  <2> QED
    BY <2>1 DEF Complete, RecoverStep, RecoverRecord, RecoverExpired, RecoverFails,
       RecoverNextSegment, Destroy, Stop, addVars
<1>3. NoneUnsynced
  BY <1>1, SameDisk
<1>4. stored \subseteq Events /\ accepted \subseteq Events /\ NoEvent \notin Events
  BY WalAssumption DEF TypeInv, TypeOK
<1> QED
  BY <1>1, <1>2, <1>3, <1>4 DEF SyncInv, OwnerInv, FreshInv, SyncedInv, NoneUnsynced, FreeLock

(* A crash leaves the log as it is; a power failure keeps what was synced,   *)
(* and whatever else it keeps is on disk for good.                          *)
LEMMA SyncEnds ==
    ASSUME TypeInv, SyncInv, CloseEnd \/ Crash \/ PowerLoss PROVE SyncInv'
<1>1. /\ up' = "down" /\ lock' = FreeLock /\ UNCHANGED <<stored, accepted>>
      /\ pc' = [f \in Events |-> IF pc[f] = "new" THEN "new" ELSE "out"]
  BY DEF CloseEnd, Crash, PowerLoss, Vanish
<1>2. NoneUnsynced
  <2>1. CASE CloseEnd \/ Crash
    BY <2>1, SameDisk DEF CloseEnd, Crash
  <2>2. CASE PowerLoss
    <3>1. PICK keep \in [SegIds -> 0 .. SegRecords] :
            /\ \A s \in SegIds : keep[s] \in synced[s] .. Len(disk[s])
            /\ disk' = [s \in SegIds |-> SubSeq(disk[s], 1, keep[s])]
            /\ synced' = keep
      BY <2>2 DEF PowerLoss
    <3>2. ASSUME NEW s \in SegIds
          PROVE  /\ Len(disk'[s]) = synced'[s]
                 /\ \A i \in 1 .. Len(disk'[s]) : i \in 1 .. Len(disk[s]) /\ disk'[s][i] = disk[s][i]
      <4>1. disk[s] \in Seq(Events) /\ keep[s] \in Nat /\ synced[s] \in Nat
        BY WalAssumption DEF TypeInv, TypeOK
      <4>2. keep[s] <= Len(disk[s]) /\ Len(disk[s]) \in Nat /\ disk'[s] = SubSeq(disk[s], 1, keep[s])
        BY <3>1, <4>1
      <4>3. Len(disk'[s]) = keep[s] /\ \A i \in 1 .. keep[s] : disk'[s][i] = disk[s][i]
        BY <4>1, <4>2
      <4> QED
        BY <3>1, <4>1, <4>2, <4>3
    <3>3. ASSUME NEW s \in SegIds, NEW i \in 1 .. Len(disk'[s]) PROVE i <= synced'[s]
      <4>1. synced'[s] \in Nat
        BY <3>1, WalAssumption
      <4> QED
        BY <3>2, <4>1
    <3> QED
      BY <3>2, <3>3 DEF NoneUnsynced, Held, Unsynced
  <2> QED
    BY <2>1, <2>2
<1>3. stored \subseteq Events /\ accepted \subseteq Events /\ NoEvent \notin Events
  BY WalAssumption DEF TypeInv, TypeOK
<1> QED
  BY <1>1, <1>2, <1>3 DEF SyncInv, OwnerInv, FreshInv, SyncedInv, NoneUnsynced, FreeLock

LEMMA SyncOpen == ASSUME TypeInv, SyncInv, Open PROVE SyncInv'
<1>1. /\ up = "down" /\ up' = "recovering" /\ UNCHANGED <<disk, synced, pc, stored, accepted>>
      /\ lock' = [at |-> "reclaim", who |-> NoEvent, why |-> "open"]
  BY DEF Open, addVars
<1>2. NoneUnsynced
  BY <1>1, SameDisk
<1>3. stored \subseteq Events /\ accepted \subseteq Events /\ NoEvent \notin Events
  BY WalAssumption DEF TypeInv, TypeOK
<1> QED
  BY <1>1, <1>2, <1>3 DEF SyncInv, OwnerInv, FreshInv, SyncedInv, NoneUnsynced

-------------------------------------------------------------------------------
LEMMA SyncInit == Init => SyncInv
<1> SUFFICES ASSUME Init PROVE SyncInv
  OBVIOUS
<1>1. \A s \in SegIds : disk[s] = <<>>
  BY DEF Init
<1>2. \A s \in SegIds : Held(s) = {} /\ \A f \in Events : ~Unsynced(f, s)
  BY <1>1 DEF Held, Unsynced
<1> QED
  BY <1>2, WalAssumption DEF Init, SyncInv, OwnerInv, FreshInv, SyncedInv, FreeLock

LEMMA SyncNext == ASSUME TypeInv, SyncInv, [Next]_vars PROVE SyncInv'
<1>1. CASE \E e \in Events : AddStep(e) \/ GiveUp(e)
  BY <1>1, SyncAdds
<1>2. CASE \E B \in SUBSET Events : Complete(B)
  BY <1>2, SyncResults
<1>3. ASSUME NEW s \in SegIds, SegmentStep(s) PROVE SyncInv'
  BY <1>3, SyncMoves, SyncRemove DEF SegmentStep
<1>4. CASE AppendStep
  <2>1. CASE Put
    BY <2>1, SyncPut
  <2>2. CASE RoomFound \/ Rotate \/ SyncAppend \/ SyncFails
    BY <2>2, SyncMoves
  <2>3. CASE Refuse \/ RotateFails \/ PutFails \/ AppendDone
    BY <2>3, SyncYields
  <2> QED
    BY <1>4, <2>1, <2>2, <2>3 DEF AppendStep
<1>5. CASE SaveStep \/ ReclaimDone \/ Flush
  <2>1. CASE SaveFails
    <3>1. CASE lock.why = "drop"
      BY <2>1, <3>1, SyncYields
    <3>2. CASE lock.why # "drop"
      BY <2>1, <3>2, SyncMoves
    <3> QED
      BY <3>1, <3>2
  <2>2. CASE SaveTruncate \/ SaveWrite \/ ReclaimDone \/ Flush
    BY <2>2, SyncMoves
  <2> QED
    BY <1>5, <2>1, <2>2 DEF SaveStep
<1>6. CASE LifeStep
  BY <1>6, SyncMoves, SyncResults, SyncEnds, SyncOpen DEF LifeStep
<1>7. CASE RecoverStep
  BY <1>7, SyncResults
<1>8. CASE UNCHANGED vars
  BY <1>8 DEF vars, SyncInv, OwnerInv, FreshInv, SyncedInv, Held, Unsynced
<1> QED
  BY <1>1, <1>2, <1>3, <1>4, <1>5, <1>6, <1>7, <1>8 DEF Next

(* With SYNC_WAL an accepted event's record, as long as it is on disk, is     *)
(* covered by an fsync: through rotations, concurrent appends, failing fsyncs *)
(* whose record stays in the file, drops, reclaims, crashes, power failures   *)
(* and reopenings, for any number of each.                                  *)
THEOREM SyncedWhenAcceptedAlways == Spec => []SyncedWhenAccepted
<1> DEFINE Inv == TypeInv /\ SyncInv
<1>1. Init => Inv
  BY TypeInit, SyncInit
<1>2. Inv /\ [Next]_vars => Inv'
  BY TypeNext, SyncNext
<1>3. Inv => SyncedWhenAccepted
  <2> SUFFICES ASSUME Inv, SyncWal, NEW s \in SegIds, NEW i \in 1 .. Len(disk[s]),
                      disk[s][i] \in accepted \/ pc[disk[s][i]] = "appended"
               PROVE  i <= synced[s]
    BY DEF SyncedWhenAccepted
  <2>1. disk[s][i] \in Events
    BY TypeHeld DEF Held
  <2> QED
    BY <2>1 DEF SyncInv, SyncedInv, Unsynced
<1> HIDE DEF Inv
<1> QED
  BY <1>1, <1>2, <1>3, PTL DEF Spec

-------------------------------------------------------------------------------
(* Removing segments *)

USE DEF Stages, Reasons, Places, AppendStages, SharedStages, Locks, Undecided, Recorded

(* The stages of a drop: until its frontier is saved (DropSaves) and before   *)
(* its segment goes.  What the oldest segment records is behind the frontier. *)
AwaitsSave == lock.why = "drop" /\ lock.at \in {"save", "saving"}
StageInv ==
    /\ lock.why = "drop" => lock.at \in {"save", "saving", "dropremove"}
    /\ lock.at = "dropremove" \/ lock.why = "drop" =>
          /\ Policy = "drop_oldest"
          /\ \A s \in SegIds : Oldest(s) => meta[s].max <= acked
    /\ lock.at = "dropremove" /\ lock.why = "drop" => durable = acked

(* As long as no save has failed, what is known to be saved is on disk, but   *)
(* while the file is rewritten.                                             *)
SavedInv ==
    up # "down" =>
        /\ durable <= acked /\ (ckpt.ok => ckpt.acked <= acked)
        /\ NoSaveLost /\ lock.at # "saving" => ckpt.ok /\ ckpt.acked = durable

(* The frontier passes an event whose outcome is open only under drop_oldest, *)
(* and then not unsaved.                                                    *)
Unsettled(e) == pc[e] # "new" /\ e \notin done /\ ~Defective(e)
Ahead(e) == acked < idOf[e] /\ (ckpt.ok => ckpt.acked < idOf[e])
GivenUp(e) == NoSaveLost => acked < idOf[e] \/ idOf[e] <= durable \/ AwaitsSave
BehindInv ==
    \A e \in Events : Unsettled(e) =>
        idOf[e] > 0 /\ (IF Policy = "drop_oldest" THEN GivenUp(e) ELSE Ahead(e))

FrontInv == nextId > 0 /\ StageInv /\ SavedInv /\ BehindInv

(* Past the write the holder of the mutex is recorded, and so is whatever is *)
(* on its way to the send pipeline or came out of it.                       *)
RecordedInv ==
    /\ lock.at \in Recorded => lock.who \in stored
    /\ \A e \in Events : pc[e] \in {"appended", "queued"} => e \in stored
    /\ done \subseteq stored

(* No event is recorded twice, a segment with records has a file, and the    *)
(* table knows each segment with records, and bounds their ids, unless an    *)
(* Open has left them behind.                                               *)
OnePlace ==
    \A s, t \in SegIds : \A i \in 1 .. Len(disk[s]), j \in 1 .. Len(disk[t]) :
        disk[s][i] = disk[t][j] => s = t /\ i = j
PlaceInv == OnePlace /\ \A s \in SegIds : Held(s) # {} => s \in files
KnownInv ==
    up # "down" =>
        /\ active \in files
        /\ \A s \in SegIds : \A e \in Held(s) :
              excuse[e] = "stranded" \/ (meta[s].here /\ idOf[e] <= meta[s].max)

-------------------------------------------------------------------------------
(* The frontier *)

(* A step that touches neither the frontier nor what it has passed.          *)
Keeps ==
    /\ UNCHANGED <<acked, durable, ckpt, idOf, done, excuse>>
    /\ nextId' >= nextId /\ nextId' \in Nat
    /\ stored \subseteq stored'
    /\ \A e \in Events : pc'[e] # "new" => pc[e] # "new"
    /\ NoSaveLost' => NoSaveLost
    /\ up' # "down" => up # "down"

LEMMA FrontKeeps ==
    ASSUME TypeInv, FrontInv, Keeps,
           \/ UNCHANGED <<lock, meta, active>>
           \/ ~AwaitsSave /\ lock.at # "saving" /\ lock'.why # "drop" /\ lock'.at # "dropremove"
    PROVE  FrontInv'
<1>1. nextId \in Nat
  BY DEF TypeInv, TypeOK
<1>2. \A e \in Events : Unsettled(e)' => Unsettled(e)
  BY DEF Keeps, Unsettled, Defective, Twin
<1>3. BehindInv'
  BY <1>2 DEF Keeps, FrontInv, BehindInv, Ahead, GivenUp, AwaitsSave
<1>4. SavedInv'
  BY DEF Keeps, FrontInv, SavedInv
<1>5. StageInv'
  BY DEF Keeps, FrontInv, StageInv, Oldest
<1> QED
  BY <1>1, <1>3, <1>4, <1>5 DEF FrontInv, Keeps

LEMMA FaultsGrow ==
    ASSUME TypeInv, [Next]_vars
    PROVE  (NoSaveLost' => NoSaveLost) /\ (NoRotationLost' => NoRotationLost)
<1>0. faults \in Nat
  BY DEF TypeInv, TypeOK
<1>1. SUFFICES faults' = faults \/ faults' = faults + 1
  <2>1. faults + 1 # 0
    BY <1>0
  <2> QED
    BY <2>1 DEF NoSaveLost, NoRotationLost
<1>2. CASE \E e \in Events : AddStep(e) \/ GiveUp(e)
  BY <1>2 DEF AddStep, AddBegin, AppendEnter, Retry, AddReturn, GiveUp
<1>3. CASE \E B \in SUBSET Events : Complete(B)
  BY <1>3 DEF Complete
<1>4. CASE \E s \in SegIds : SegmentStep(s)
  BY <1>4 DEF SegmentStep, DropOldest, DropRemove, RelieveOne, ReclaimOne
<1>5. CASE AppendStep
  BY <1>5 DEF AppendStep, RoomFound, Refuse, Rotate, RotateFails, Put, PutFails, SyncAppend,
     SyncFails, AppendDone, Fault
<1>6. CASE SaveStep \/ ReclaimDone \/ Flush
  BY <1>6 DEF SaveStep, SaveTruncate, SaveWrite, SaveFails, ReclaimDone, Flush, FlushSync, Fault
<1>7. CASE LifeStep
  BY <1>7 DEF LifeStep, CloseBegin, Destroy, CloseFlush, FlushSync, FlushSyncFails, CloseEnd, Crash,
     PowerLoss, Open, Fault
<1>8. CASE RecoverStep
  BY <1>8 DEF RecoverStep, RecoverRecord, RecoverExpired, RecoverFails, RecoverNextSegment
<1> QED
  BY <1>2, <1>3, <1>4, <1>5, <1>6, <1>7, <1>8 DEF Next, vars

LEMMA FrontAppend ==
    ASSUME TypeInv, SyncInv, FrontInv, AppendStep, NoSaveLost' => NoSaveLost
    PROVE  FrontInv'
<1>1. lock.why # "drop" /\ lock.at \notin {"saving", "dropremove"}
  BY DEF FrontInv, StageInv, AppendStep, RoomFound, Refuse, Rotate, RotateFails, Put, PutFails, CanPut,
     SyncAppend, SyncFails, AppendDone
<1>2. /\ UNCHANGED <<acked, durable, ckpt, idOf, done, excuse, up>>
      /\ nextId' = nextId /\ stored \subseteq stored'
      /\ \A e \in Events : pc'[e] # "new" => pc[e] # "new"
  <2>0. pc \in [Events -> Places] /\ (lock.who \in Events => pc[lock.who] # "new")
        /\ nextId \in Nat /\ stored \subseteq Events
    BY DEF TypeInv, TypeOK, SyncInv, OwnerInv
  <2>10. Refuse \/ RotateFails \/ PutFails \/ AppendDone => lock.who \in Events
    BY DEF Refuse, RotateFails, PutFails, CanPut, AppendDone, TypeInv, LockOK
  <2> USE <2>0, <2>10 DEF diskVars, ckptVars, addVars, histVars, Yield
  <2>1. CASE RoomFound
    BY <2>1 DEF RoomFound
  <2>2. CASE Refuse
    BY <2>2 DEF Refuse
  <2>3. CASE Rotate
    BY <2>3 DEF Rotate
  <2>4. CASE RotateFails
    BY <2>4 DEF RotateFails
  <2>5. CASE Put
    BY <2>5 DEF Put
  <2>6. CASE PutFails
    BY <2>6 DEF PutFails
  <2>7. CASE SyncAppend
    BY <2>7 DEF SyncAppend
  <2>8. CASE SyncFails
    BY <2>8 DEF SyncFails
  <2>9. CASE AppendDone
    BY <2>9 DEF AppendDone
  <2> QED
    BY <2>1, <2>2, <2>3, <2>4, <2>5, <2>6, <2>7, <2>8, <2>9 DEF AppendStep
<1>3. lock'.why # "drop" /\ lock'.at # "dropremove"
  <2>1. lock \in Locks
    BY DEF TypeInv, TypeOK
  <2>2. \/ lock' = FreeLock
        \/ lock' = [lock EXCEPT !.at = "relieve", !.why = "unsynced"]
        \/ \E w \in {"write", "put", "sync", "relieve"} : lock' = [lock EXCEPT !.at = w]
    <3>1. CASE Refuse \/ RotateFails \/ PutFails \/ AppendDone \/ SyncFails
      BY <3>1 DEF Refuse, RotateFails, PutFails, AppendDone, SyncFails, Yield, Release
    <3>2. CASE RoomFound \/ Rotate \/ Put \/ SyncAppend
      BY <3>2 DEF RoomFound, Rotate, Put, SyncAppend, Step
    <3> QED
      BY <3>1, <3>2 DEF AppendStep
  <2>3. CASE \E w \in {"write", "put", "sync", "relieve"} : lock' = [lock EXCEPT !.at = w]
    <3>1. PICK w \in {"write", "put", "sync", "relieve"} : lock' = [lock EXCEPT !.at = w]
      BY <2>3
    <3>2. lock'.why = lock.why /\ lock'.at = w
      BY <2>1, <3>1
    <3> QED
      BY <1>1, <3>2
  <2>4. CASE lock' = [lock EXCEPT !.at = "relieve", !.why = "unsynced"]
    BY <2>1, <2>4
  <2> QED
    BY <2>2, <2>3, <2>4 DEF FreeLock
<1>4. nextId \in Nat
  BY DEF TypeInv, TypeOK
<1> QED
  BY <1>1, <1>2, <1>3, <1>4, FrontKeeps DEF Keeps, AwaitsSave

LEMMA FrontAdds ==
    ASSUME TypeInv, SyncInv, FrontInv, NEW e \in Events,
           AppendEnter(e) \/ Retry(e) \/ AddReturn(e) \/ GiveUp(e)
    PROVE  FrontInv'
<1>1. /\ pc \in [Events -> Places] /\ nextId \in Nat
  BY DEF TypeInv, TypeOK
<1>2. Keeps
  BY <1>1 DEF Keeps, AppendEnter, Retry, AddReturn, GiveUp, diskVars, ckptVars, addVars, histVars,
     NoSaveLost
<1>3. UNCHANGED <<meta, active>>
  BY DEF AppendEnter, Retry, AddReturn, GiveUp, usageVars
<1>4. CASE AppendEnter(e)
  BY <1>2, <1>4, FrontKeeps DEF AppendEnter, Free, FreeLock, AwaitsSave
<1>5. CASE ~AppendEnter(e)
  <2>1. UNCHANGED lock
    BY <1>5 DEF Retry, AddReturn, GiveUp
  <2> QED
    BY <1>2, <1>3, <2>1, FrontKeeps
<1> QED
  BY <1>4, <1>5

LEMMA FrontLife ==
    ASSUME TypeInv, SyncInv, FrontInv, NoSaveLost' => NoSaveLost,
           ReclaimDone \/ Flush \/ CloseBegin \/ Destroy \/ CloseFlush \/ FlushSyncFails
              \/ RecoverRecord \/ RecoverFails \/ RecoverNextSegment
    PROVE  FrontInv'
<1>1. pc \in [Events -> Places] /\ nextId \in Nat /\ stored \subseteq Events /\ lock \in Locks
  BY DEF TypeInv, TypeOK
<1> USE DEF diskVars, usageVars, ckptVars, addVars, histVars
<1>2. CASE RecoverRecord
  <2> DEFINE e == disk[cursor.seg][cursor.pos]
  <2>1. e \in Events /\ e \in stored
    <3>1. cursor.seg \in SegIds /\ cursor.pos \in Nat \ {0} /\ e \in Events
      BY <1>2, TypeAtRecord DEF RecoverRecord, TypeInv, CursorOK
    <3>2. cursor.pos <= Len(disk[cursor.seg]) /\ disk[cursor.seg] \in Seq(Events)
      BY <1>2, <3>1 DEF RecoverRecord, AtRecord, TypeInv, TypeOK
    <3>3. cursor.pos \in 1 .. Len(disk[cursor.seg])
      BY <3>1, <3>2
    <3>4. e \in Held(cursor.seg)
      BY <3>3 DEF Held
    <3> QED
      BY <3>1, <3>4 DEF SyncInv, FreshInv
  <2>2. pc[e] # "new" /\ idOf[e] \in Nat
    BY <2>1 DEF SyncInv, FreshInv, TypeInv, TypeOK
  <2> HIDE DEF e
  <2>3. /\ pc' = pc \/ pc' = [pc EXCEPT ![e] = "queued"]
        /\ nextId' = nextId \/ nextId' = IF nextId > idOf[e] THEN nextId ELSE idOf[e] + 1
        /\ UNCHANGED <<acked, durable, ckpt, idOf, done, excuse, stored, faults, lock, meta, active>>
        /\ up' = up
    BY <1>2 DEF RecoverRecord, e
  <2>4. Keeps
    BY <1>1, <2>1, <2>2, <2>3 DEF Keeps, NoSaveLost
  <2> QED
    BY <2>3, <2>4, FrontKeeps
<1>3. CASE RecoverFails \/ RecoverNextSegment \/ CloseBegin \/ Destroy
  <2>1. Keeps /\ UNCHANGED <<lock, meta, active>>
    BY <1>1, <1>3 DEF Keeps, NoSaveLost, RecoverFails, RecoverNextSegment, CloseBegin, Destroy, Stop
  <2> QED
    BY <2>1, FrontKeeps
<1>4. CASE ReclaimDone \/ Flush \/ CloseFlush \/ FlushSyncFails
  <2>1. Keeps
    BY <1>1, <1>4 DEF Keeps, NoSaveLost, ReclaimDone, Flush, CloseFlush, FlushSync, FlushSyncFails
  <2>2. CASE ReclaimDone
    <3>1. lock.at = "reclaim" /\ lock.why # "drop"
      BY <2>2 DEF ReclaimDone, FrontInv, StageInv
    <3>2. lock' = FreeLock \/ \E w \in {"room", "end"} : lock' = [lock EXCEPT !.at = w]
      BY <2>2 DEF ReclaimDone, Step, Release
    <3>3. lock'.why # "drop" /\ lock'.at # "dropremove"
      BY <1>1, <3>1, <3>2 DEF FreeLock
    <3> QED
      BY <2>1, <3>1, <3>3, FrontKeeps DEF AwaitsSave
  <2>3. CASE Flush \/ CloseFlush
    BY <2>1, <2>3, FrontKeeps DEF Flush, CloseFlush, FlushSync, Free, FreeLock, AwaitsSave
  <2>4. CASE FlushSyncFails
    <3>1. lock = FreeLock /\ lock'.why # "drop" /\ lock'.at # "dropremove"
      BY <2>4 DEF FlushSyncFails, Free, FreeLock
    <3> QED
      BY <2>1, <3>1, FrontKeeps DEF FreeLock, AwaitsSave
  <2> QED
    BY <1>4, <2>2, <2>3, <2>4
<1> QED
  BY <1>2, <1>3, <1>4

(* The steps of a save: the file is torn, then carries the frontier.         *)
LEMMA FrontTruncate ==
    ASSUME TypeInv, FrontInv, SaveTruncate PROVE FrontInv'
<1>1. /\ lock.at = "save" /\ lock' = [lock EXCEPT !.at = "saving"] /\ lock \in Locks
      /\ ckpt' = TornCheckpoint
      /\ UNCHANGED <<acked, durable, idOf, done, excuse, stored, pc, nextId, faults, meta, active, up>>
  BY DEF SaveTruncate, Step, usageVars, ckptVars, addVars, histVars, TypeInv, TypeOK
<1>2. lock'.at = "saving" /\ lock'.why = lock.why /\ (AwaitsSave' <=> AwaitsSave) /\ ~ckpt'.ok
  BY <1>1 DEF AwaitsSave, TornCheckpoint
<1>3. \A e \in Events : Unsettled(e)' <=> Unsettled(e)
  BY <1>1 DEF Unsettled, Defective, Twin
<1>4. BehindInv'
  BY <1>1, <1>2, <1>3 DEF FrontInv, BehindInv, Ahead, GivenUp, NoSaveLost
<1>5. SavedInv'
  BY <1>1, <1>2 DEF FrontInv, SavedInv
<1>6. StageInv'
  BY <1>1, <1>2 DEF FrontInv, StageInv, Oldest
<1> QED
  BY <1>1, <1>4, <1>5, <1>6 DEF FrontInv

LEMMA FrontWrite ==
    ASSUME TypeInv, FrontInv, SaveWrite PROVE FrontInv'
<1>1. /\ lock.at = "saving" /\ lock \in Locks /\ acked \in Nat /\ idOf \in [Events -> Nat]
      /\ ckpt' = [ok |-> TRUE, acked |-> acked, seg |-> lastSeg] /\ durable' = acked
      /\ UNCHANGED <<acked, idOf, done, excuse, stored, pc, nextId, faults, meta, active, up>>
  BY DEF SaveWrite, usageVars, addVars, histVars, TypeInv, TypeOK
<1>2. \/ lock'.why # "drop" /\ lock'.at # "dropremove"
      \/ lock.why = "drop" /\ lock'.at = "dropremove" /\ lock'.why = "drop"
  <2>1. \/ lock' = FreeLock
        \/ lock' = [lock EXCEPT !.at = "dropremove"] /\ lock.why = "drop"
        \/ lock' = [lock EXCEPT !.at = "reclaim"] /\ lock.why # "drop"
    BY DEF SaveWrite, Step, Release
  <2> QED
    BY <1>1, <2>1 DEF FreeLock
<1>3. \A e \in Events : Unsettled(e)' <=> Unsettled(e)
  BY <1>1 DEF Unsettled, Defective, Twin
<1>4. BehindInv'
  <2> SUFFICES ASSUME NEW e \in Events, Unsettled(e)
               PROVE  idOf[e] > 0 /\ IF Policy = "drop_oldest" THEN GivenUp(e)' ELSE Ahead(e)'
    BY <1>1, <1>3 DEF BehindInv
  <2>1. idOf[e] \in Nat
    BY <1>1
  <2> QED
    BY <1>1, <2>1 DEF FrontInv, BehindInv, Ahead, GivenUp
<1>5. SavedInv'
  BY <1>1 DEF FrontInv, SavedInv
<1>6. StageInv'
  BY <1>1, <1>2 DEF FrontInv, StageInv, Oldest
<1> QED
  BY <1>1, <1>4, <1>5, <1>6 DEF FrontInv

LEMMA FrontFails ==
    ASSUME TypeInv, SyncInv, FrontInv, SaveFails PROVE FrontInv'
<1>1. /\ lock.at \in {"save", "saving"} /\ lock \in Locks /\ ~NoSaveLost'
      /\ UNCHANGED <<acked, durable, ckpt, idOf, done, excuse, stored, nextId, meta, active, up>>
  BY DEF SaveFails, Fault, NoSaveLost, diskVars, usageVars, ckptVars, histVars, TypeInv, TypeOK
<1>2. lock'.why # "drop" /\ lock'.at # "dropremove"
  <2>1. \/ lock' = FreeLock
        \/ lock' = [lock EXCEPT !.at = "end"] /\ lock.why = "close"
    BY DEF SaveFails, Step, Release, Yield
  <2> QED
    BY <1>1, <2>1 DEF FreeLock
<1>3. \A e \in Events : pc'[e] # "new" => pc[e] # "new"
  <2>1. CASE lock.why = "drop"
    <3>1. lock.who \in Events /\ pc \in [Events -> Places]
      BY <1>1, <2>1 DEF TypeInv, TypeOK, LockOK
    <3>2. pc[lock.who] # "new" /\ pc' = [pc EXCEPT ![lock.who] = "failed"]
      BY <2>1, <3>1 DEF SyncInv, OwnerInv, SaveFails, Yield
    <3> QED
      BY <3>1, <3>2
  <2> QED
    BY <2>1 DEF SaveFails
<1>4. \A e \in Events : Unsettled(e)' => Unsettled(e)
  BY <1>1, <1>3 DEF Unsettled, Defective, Twin
<1>5. BehindInv'
  BY <1>1, <1>4 DEF FrontInv, BehindInv, Ahead, GivenUp
<1>6. SavedInv'
  BY <1>1 DEF FrontInv, SavedInv
<1>7. StageInv'
  BY <1>1, <1>2 DEF FrontInv, StageInv
<1> QED
  BY <1>1, <1>5, <1>6, <1>7 DEF FrontInv

(* The frontier moves over ids of events that are done: what it passes is    *)
(* settled, or has a twin.                                                  *)
LEMMA FrontAdvances ==
    ASSUME TypeInv, TypeInv', FrontInv, Advances, lock = FreeLock,
           lock' = FreeLock \/ lock' = [at |-> "save", who |-> NoEvent, why |-> "ack"],
           done \subseteq done', done' \subseteq stored, nextId' >= nextId,
           \A e \in Events : pc'[e] # "new" => pc[e] # "new",
           UNCHANGED <<ckpt, durable, idOf, stored, excuse, faults, up>>
    PROVE  FrontInv'
<1>1. /\ acked \in Nat /\ acked' \in Nat /\ durable \in Nat /\ idOf \in [Events -> Nat]
      /\ nextId \in Nat /\ nextId' \in Nat /\ ckpt \in Checkpoints
  BY DEF TypeInv, TypeOK, Checkpoints
<1>2. acked <= acked' /\ \A i \in Nat : acked < i /\ i <= acked' => \E f \in done' : idOf[f] = i
  BY <1>1 DEF Advances
<1>3. \A e \in Events : Unsettled(e)' => Unsettled(e) /\ e \notin done'
  BY DEF Unsettled, Defective, Twin
<1>4. ASSUME NEW e \in Events, Unsettled(e)', acked < idOf[e] PROVE acked' < idOf[e]
  <2>1. e \notin done' /\ ~Twin(e)
    BY <1>3, <1>4 DEF Unsettled, Defective
  <2>2. ~\E f \in done' : idOf[f] = idOf[e]
    BY <2>1 DEF Twin
  <2> QED
    BY <1>1, <1>2, <1>4, <2>2
<1>5. lock.at = "free" /\ lock.why # "drop" /\ lock'.why # "drop" /\ lock'.at # "dropremove"
  BY DEF FreeLock
<1>6. BehindInv'
  BY <1>3, <1>4, <1>5 DEF FrontInv, BehindInv, Ahead, GivenUp, AwaitsSave, NoSaveLost
<1>7. SavedInv'
  <2>1. /\ durable <= acked => durable <= acked'
        /\ ckpt.acked <= acked => ckpt.acked <= acked'
    BY <1>1, <1>2 DEF Checkpoints
  <2> QED
    BY <1>5, <2>1 DEF FrontInv, SavedInv, NoSaveLost
<1>8. StageInv'
  BY <1>5 DEF StageInv
<1>9. nextId' > 0
  BY <1>1 DEF FrontInv
<1> QED
  BY <1>6, <1>7, <1>8, <1>9 DEF FrontInv

(* A drop moves the frontier past the oldest segment, and has it saved       *)
(* before the segment goes.                                                 *)
LEMMA FrontDrop ==
    ASSUME TypeInv, TypeInv', FrontInv, NEW s \in SegIds, DropOldest(s) PROVE FrontInv'
<1>1. /\ lock.at = "room" /\ lock \in Locks /\ Policy = "drop_oldest" /\ Oldest(s)
      /\ acked \in Nat /\ durable \in Nat /\ acked' \in Nat /\ ckpt.acked \in Nat
      /\ \A t \in SegIds : meta[t].max \in Nat
      /\ excuse \in [Events -> Excuses]
      /\ UNCHANGED <<durable, ckpt, idOf, done, stored, pc, nextId, faults, meta, active, up>>
  BY DEF DropOldest, Victim, diskVars, usageVars, ckptVars, addVars, histVars, TypeInv, TypeOK
<1>2. lock.why # "drop"
  BY <1>1 DEF FrontInv, StageInv
<1>3. \A e \in Events : Unsettled(e)' => Unsettled(e)
  <2>1. \A e \in Events : excuse'[e] = excuse[e] \/ excuse[e] = "none"
    BY DEF DropOldest
  <2> QED
    BY <1>1, <2>1 DEF Unsettled, Defective, Twin
<1>4. \A t \in SegIds : Oldest(t) => t = s
  BY <1>1 DEF Oldest, SegIds
<1>5. \A t \in SegIds : Oldest(t)' <=> Oldest(t)
  BY <1>1 DEF Oldest
<1>6. CASE meta[s].max > acked
  <2>1. acked' = meta[s].max /\ lock' = [lock EXCEPT !.at = "save", !.why = "drop"]
    BY <1>6 DEF DropOldest
  <2>2. AwaitsSave' /\ lock'.at = "save" /\ lock'.why = "drop" /\ acked < acked'
    BY <1>1, <1>6, <2>1 DEF AwaitsSave
  <2>3. BehindInv'
    BY <1>1, <1>3, <2>2 DEF FrontInv, BehindInv, GivenUp
  <2>4. SavedInv'
    <3>1. durable <= acked => durable <= acked'
      BY <1>1, <2>2
    <3>2. ckpt.acked <= acked => ckpt.acked <= acked'
      BY <1>1, <2>2
    <3> QED
      BY <1>1, <2>2, <3>1, <3>2 DEF FrontInv, SavedInv, NoSaveLost
  <2>5. StageInv'
    BY <1>1, <1>4, <1>5, <2>1, <2>2 DEF StageInv
  <2> QED
    BY <1>1, <2>3, <2>4, <2>5 DEF FrontInv
<1>7. CASE ~(meta[s].max > acked)
  <2>1. acked' = acked /\ lock' = [lock EXCEPT !.at = "dropremove"]
    BY <1>7 DEF DropOldest, Step
  <2>2. ~AwaitsSave /\ ~AwaitsSave' /\ lock'.at = "dropremove" /\ lock'.why # "drop"
    BY <1>1, <1>2, <2>1 DEF AwaitsSave
  <2>3. BehindInv'
    BY <1>1, <1>3, <2>1, <2>2 DEF FrontInv, BehindInv, GivenUp, NoSaveLost
  <2>4. SavedInv'
    BY <1>1, <2>1, <2>2 DEF FrontInv, SavedInv, NoSaveLost
  <2>5. meta[s].max <= acked
    BY <1>1, <1>7
  <2>6. StageInv'
    BY <1>1, <1>4, <1>5, <2>1, <2>2, <2>5 DEF StageInv
  <2> QED
    BY <1>1, <2>3, <2>4, <2>6 DEF FrontInv
<1> QED
  BY <1>6, <1>7

LEMMA FrontRemove ==
    ASSUME TypeInv, FrontInv, NEW s \in SegIds, DropRemove(s) \/ RelieveOne(s) \/ ReclaimOne(s)
    PROVE  FrontInv'
<1>1. /\ lock \in Locks /\ nextId \in Nat
      /\ UNCHANGED <<acked, durable, ckpt, idOf, done, excuse, stored, pc, nextId, faults, up>>
  BY DEF DropRemove, RelieveOne, ReclaimOne, Remove, ckptVars, addVars, histVars, TypeInv, TypeOK
<1>2. lock.at \in {"dropremove", "relieve", "low", "reclaim"}
  BY DEF DropRemove, RelieveOne, Relieving, ReclaimOne
<1>3. lock'.why # "drop" /\ lock'.at # "dropremove"
  <2>1. CASE DropRemove(s)
    BY <1>1, <2>1 DEF DropRemove
  <2>2. CASE RelieveOne(s) \/ ReclaimOne(s)
    <3>1. lock.at # "dropremove" /\ lock.why # "drop"
      BY <2>2 DEF RelieveOne, Relieving, ReclaimOne, FrontInv, StageInv
    <3>2. lock' = lock \/ lock' = [lock EXCEPT !.at = "low"]
      BY <2>2 DEF RelieveOne, ReclaimOne, Step
    <3> QED
      BY <1>1, <3>1, <3>2
  <2> QED
    BY <2>1, <2>2
<1> QED
  BY <1>1, <1>2, <1>3, FrontKeeps DEF Keeps, AwaitsSave, NoSaveLost

LEMMA FrontAddBegin ==
    ASSUME TypeInv, TypeInv', SyncInv, FrontInv, NEW e \in Events, AddBegin(e) PROVE FrontInv'
<1>1. /\ up = "open" /\ pc[e] = "new" /\ nextId' = nextId + 1 /\ idOf'[e] = nextId
      /\ excuse'[e] = IF nextId <= acked THEN "stale" ELSE "none"
      /\ \A f \in Events \ {e} : pc'[f] = pc[f] /\ idOf'[f] = idOf[f] /\ excuse'[f] = excuse[f]
      /\ UNCHANGED <<acked, durable, ckpt, done, stored, faults, lock, meta, active, up>>
  BY DEF AddBegin, diskVars, usageVars, ckptVars, TypeInv, TypeOK
<1>2. /\ nextId \in Nat /\ acked \in Nat /\ ckpt \in Checkpoints /\ stored \subseteq Events
      /\ e \notin stored /\ nextId > 0
  BY <1>1 DEF SyncInv, FreshInv, FrontInv, TypeInv, TypeOK, Checkpoints
<1>3. \A f \in Events \ {e} : Unsettled(f)' => Unsettled(f)
  BY <1>1, <1>2 DEF Unsettled, Defective, Twin
<1>4. Unsettled(e)' => Ahead(e)' /\ idOf'[e] > 0
  <2>1. Unsettled(e)' => acked < nextId
    BY <1>1, <1>2 DEF Unsettled, Defective
  <2>2. ckpt.ok => ckpt.acked <= acked
    BY <1>1 DEF FrontInv, SavedInv
  <2>3. ckpt.acked \in Nat
    BY <1>2 DEF Checkpoints
  <2> QED
    BY <1>1, <1>2, <2>1, <2>2, <2>3 DEF Ahead
<1>5. BehindInv'
  <2> SUFFICES ASSUME NEW f \in Events, Unsettled(f)'
               PROVE  idOf'[f] > 0 /\ IF Policy = "drop_oldest" THEN GivenUp(f)' ELSE Ahead(f)'
    BY DEF BehindInv
  <2>1. CASE f = e
    BY <1>4, <2>1 DEF Ahead, GivenUp
  <2>2. CASE f # e
    BY <1>1, <1>3, <2>2 DEF FrontInv, BehindInv, Ahead, GivenUp, AwaitsSave, NoSaveLost
  <2> QED
    BY <2>1, <2>2
<1>6. SavedInv' /\ StageInv'
  BY <1>1 DEF FrontInv, SavedInv, StageInv, NoSaveLost, Oldest
<1> QED
  BY <1>1, <1>2, <1>5, <1>6 DEF FrontInv

LEMMA FrontVanish ==
    ASSUME TypeInv, FrontInv, CloseEnd \/ Crash \/ PowerLoss PROVE FrontInv'
<1>1. /\ up' = "down" /\ lock' = FreeLock /\ acked' = 0 /\ nextId' = 1
      /\ pc' = [e \in Events |-> IF pc[e] = "new" THEN "new" ELSE "out"]
      /\ UNCHANGED <<ckpt, idOf, stored, done>>
  BY DEF CloseEnd, Crash, PowerLoss, Vanish
<1>2. \A e \in Events : excuse'[e] = excuse[e] \/ excuse[e] = "none"
  BY DEF CloseEnd, Crash, PowerLoss
<1>3. \A e \in Events : Unsettled(e)' => Unsettled(e)
  BY <1>1, <1>2 DEF Unsettled, Defective, Twin
<1>4. BehindInv'
  BY <1>1, <1>3 DEF FrontInv, BehindInv, Ahead, GivenUp
<1> QED
  BY <1>1, <1>4 DEF FrontInv, SavedInv, StageInv, FreeLock

LEMMA FrontOpen ==
    ASSUME TypeInv, FrontInv, Open PROVE FrontInv'
<1> DEFINE cp == IF ckpt.ok THEN ckpt ELSE TornCheckpoint
<1>1. /\ ckpt' = [ok |-> TRUE, acked |-> cp.acked, seg |-> cp.seg]
      /\ acked' = cp.acked /\ durable' = cp.acked
      /\ lock' = [at |-> "reclaim", who |-> NoEvent, why |-> "open"]
      /\ UNCHANGED <<nextId, pc, idOf, stored, done>>
  BY DEF Open, addVars
<1>2. cp.acked \in Nat /\ idOf \in [Events -> Nat]
  BY DEF TypeInv, TypeOK, TornCheckpoint
<1>3. \A e \in Events : excuse'[e] \in {excuse[e], "stranded"}
  BY DEF Open
<1>4. \A e \in Events : Unsettled(e)' => Unsettled(e)
  BY <1>1, <1>3 DEF Unsettled, Defective, Twin
<1>5. BehindInv'
  <2> SUFFICES ASSUME NEW e \in Events, Unsettled(e)'
               PROVE  idOf[e] > 0 /\ IF Policy = "drop_oldest" THEN GivenUp(e)' ELSE Ahead(e)'
    BY <1>1 DEF BehindInv
  <2>1. /\ idOf[e] \in Nat /\ idOf[e] > 0
        /\ Policy # "drop_oldest" => (ckpt.ok => ckpt.acked < idOf[e])
    BY <1>2, <1>4 DEF FrontInv, BehindInv, Ahead
  <2>2. Policy # "drop_oldest" => cp.acked < idOf[e]
    BY <2>1 DEF TornCheckpoint
  <2>3. cp.acked < idOf[e] \/ idOf[e] <= cp.acked
    BY <1>2, <2>1
  <2> HIDE DEF cp
  <2> QED
    BY <1>1, <2>1, <2>2, <2>3 DEF GivenUp, Ahead
<1> HIDE DEF cp
<1>6. SavedInv' /\ StageInv'
  BY <1>1, <1>2 DEF SavedInv, StageInv
<1> QED
  BY <1>1, <1>5, <1>6 DEF FrontInv

LEMMA ReadIsStored ==
    ASSUME TypeInv, SyncInv, up = "recovering", AtRecord
    PROVE  disk[cursor.seg][cursor.pos] \in stored
<1>1. cursor.seg \in SegIds /\ cursor.pos \in Nat \ {0}
  BY DEF TypeInv, CursorOK
<1>2. cursor.pos <= Len(disk[cursor.seg]) /\ disk[cursor.seg] \in Seq(Events)
  BY <1>1 DEF AtRecord, TypeInv, TypeOK
<1>3. cursor.pos \in 1 .. Len(disk[cursor.seg])
  BY <1>1, <1>2
<1>4. disk[cursor.seg][cursor.pos] \in Held(cursor.seg)
  BY <1>3 DEF Held
<1> QED
  BY <1>1, <1>4 DEF SyncInv, FreshInv

LEMMA RecordedKeeps ==
    ASSUME RecordedInv, stored \subseteq stored', done' = done,
           lock'.at \in Recorded => lock.at \in Recorded /\ lock'.who = lock.who,
           \A e \in Events : pc'[e] \in {"appended", "queued"} =>
               pc[e] \in {"appended", "queued"} \/ e \in stored'
    PROVE  RecordedInv'
  BY DEF RecordedInv

LEMMA RecordedNext ==
    ASSUME TypeInv, SyncInv, RecordedInv, [Next]_vars PROVE RecordedInv'
<1>1. /\ pc \in [Events -> Places] /\ lock \in Locks /\ stored \subseteq Events
      /\ done \subseteq Events
  BY DEF TypeInv, TypeOK
<1> USE <1>1 DEF RecordedInv, diskVars, ckptVars, addVars, histVars
<1>2. ASSUME NEW e \in Events, AddStep(e) \/ GiveUp(e) PROVE RecordedInv'
  BY <1>2, RecordedKeeps DEF AddStep, AddBegin, AppendEnter, Retry, AddReturn, GiveUp
<1>3. ASSUME NEW B \in SUBSET Events, Complete(B) PROVE RecordedInv'
  <2>1. lock'.at \notin Recorded
    BY <1>3 DEF Complete, Settle, Free, FreeLock
  <2> QED
    BY <1>3, <2>1 DEF Complete
<1>4. ASSUME NEW s \in SegIds, SegmentStep(s) PROVE RecordedInv'
  <2>1. CASE DropOldest(s)
    BY <2>1 DEF DropOldest, Step
  <2>2. CASE DropRemove(s)
    BY <2>2 DEF DropRemove
  <2>3. CASE RelieveOne(s)
    BY <2>3 DEF RelieveOne, Relieving, Step
  <2>4. CASE ReclaimOne(s)
    BY <2>4 DEF ReclaimOne
  <2> QED
    BY <1>4, <2>1, <2>2, <2>3, <2>4 DEF SegmentStep
<1>5. CASE AppendStep
  <2>1. CASE RoomFound \/ Rotate
    BY <2>1 DEF RoomFound, Rotate, Step
  <2>2. CASE Refuse \/ RotateFails \/ PutFails \/ AppendDone
    <3>1. /\ lock' = FreeLock /\ UNCHANGED <<stored, done>>
          /\ \/ pc' = [pc EXCEPT ![lock.who] = "failed"]
             \/ pc' = [pc EXCEPT ![lock.who] = "blocked"]
             \/ pc' = [pc EXCEPT ![lock.who] = "appended"] /\ lock.at \in Recorded
      BY <2>2 DEF Refuse, RotateFails, PutFails, AppendDone, Yield, Release
    <3> QED
      BY <3>1 DEF FreeLock
  <2>3. CASE Put
    BY <2>3 DEF Put, Step
  <2>4. CASE SyncAppend \/ SyncFails
    BY <2>4 DEF SyncAppend, SyncFails, Step
  <2> QED
    BY <1>5, <2>1, <2>2, <2>3, <2>4 DEF AppendStep
<1>6. CASE SaveStep
  <2>1. CASE SaveTruncate
    BY <2>1 DEF SaveTruncate, Step
  <2>2. CASE SaveWrite
    BY <2>2 DEF SaveWrite, Step, Release, FreeLock
  <2>3. CASE SaveFails
    BY <2>3 DEF SaveFails, Step, Yield, Release, FreeLock
  <2> QED
    BY <1>6, <2>1, <2>2, <2>3 DEF SaveStep
<1>7. CASE ReclaimDone
  BY <1>7 DEF ReclaimDone, Step, Release, FreeLock
<1>8. CASE Flush \/ CloseBegin \/ CloseFlush \/ FlushSyncFails
  BY <1>8 DEF Flush, FlushSync, CloseBegin, CloseFlush, FlushSyncFails, Free, FreeLock
<1>9. CASE Destroy \/ RecoverFails \/ RecoverNextSegment
  BY <1>9 DEF Destroy, RecoverFails, RecoverNextSegment, Stop, Free, FreeLock
<1>10. CASE CloseEnd \/ Crash \/ PowerLoss
  BY <1>10 DEF CloseEnd, Crash, PowerLoss, Vanish, FreeLock
<1>11. CASE Open
  BY <1>11 DEF Open
<1>12. CASE RecoverRecord \/ RecoverExpired
  <2>1. disk[cursor.seg][cursor.pos] \in stored
    BY <1>12, ReadIsStored DEF RecoverRecord, RecoverExpired
  <2>2. lock'.at \notin Recorded
    <3>1. lock' = FreeLock \/ lock' = [at |-> "save", who |-> NoEvent, why |-> "ack"]
      BY <1>12 DEF RecoverRecord, RecoverExpired, Settle, Free
    <3> QED
      BY <3>1 DEF FreeLock
  <2> QED
    BY <1>12, <2>1, <2>2 DEF RecoverRecord, RecoverExpired
<1>13. CASE UNCHANGED vars
  BY <1>13 DEF vars
<1> QED
  BY <1>2, <1>3, <1>4, <1>5, <1>6, <1>7, <1>8, <1>9, <1>10, <1>11, <1>12, <1>13
     DEF Next, LifeStep, RecoverStep

LEMMA FrontSettles ==
    ASSUME FrontierInv, SyncInv, RecordedInv, FrontInv,
           RecoverExpired \/ \E B \in SUBSET Events : Complete(B), TypeInv', RecordedInv'
    PROVE  FrontInv'
<1>1. TypeInv /\ Advances
  BY FrontierComplete, FrontierExpired DEF FrontierInv
<1>2. /\ lock = FreeLock
      /\ lock' = FreeLock \/ lock' = [at |-> "save", who |-> NoEvent, why |-> "ack"]
      /\ done \subseteq done' /\ UNCHANGED <<ckpt, durable, idOf, stored, excuse, faults, up>>
  BY DEF Complete, RecoverExpired, Settle, Free, diskVars, usageVars, histVars
<1>3. nextId \in Nat /\ pc \in [Events -> Places] /\ idOf \in [Events -> Nat]
  BY <1>1 DEF TypeInv, TypeOK
<1>4. CASE RecoverExpired
  <2>1. PICK e \in stored : e = disk[cursor.seg][cursor.pos]
    BY <1>1, <1>4, ReadIsStored DEF RecoverExpired
  <2>2. e \in Events /\ idOf[e] \in Nat /\ pc[e] # "new"
    BY <1>1, <1>3, <2>1 DEF TypeInv, TypeOK, SyncInv, FreshInv
  <2>3. /\ pc' = [pc EXCEPT ![e] = "done"]
        /\ nextId' = IF nextId > idOf[e] THEN nextId ELSE idOf[e] + 1
    BY <1>4, <2>1 DEF RecoverExpired
  <2>4. nextId' >= nextId /\ \A f \in Events : pc'[f] # "new" => pc[f] # "new"
    BY <1>3, <2>2, <2>3
  <2> QED
    BY <1>1, <1>2, <2>4, FrontAdvances DEF RecordedInv
<1>5. ASSUME NEW B \in SUBSET Events, Complete(B) PROVE FrontInv'
  <2>1. nextId' >= nextId /\ \A f \in Events : pc'[f] # "new" => pc[f] # "new"
    BY <1>3, <1>5 DEF Complete
  <2> QED
    BY <1>1, <1>2, <2>1, FrontAdvances DEF RecordedInv
<1> QED
  BY <1>4, <1>5

LEMMA FrontNext ==
    ASSUME FrontierInv, SyncInv, RecordedInv, FrontInv, [Next]_vars PROVE FrontInv'
<1>1. TypeInv /\ TypeInv' /\ RecordedInv' /\ (NoSaveLost' => NoSaveLost)
  BY TypeNext, RecordedNext, FaultsGrow DEF FrontierInv
<1>2. ASSUME NEW e \in Events, AddStep(e) \/ GiveUp(e) PROVE FrontInv'
  BY <1>1, <1>2, FrontAdds, FrontAddBegin DEF AddStep
<1>3. ASSUME NEW s \in SegIds, SegmentStep(s) PROVE FrontInv'
  BY <1>1, <1>3, FrontDrop, FrontRemove DEF SegmentStep
<1>4. CASE AppendStep
  BY <1>1, <1>4, FrontAppend
<1>5. CASE SaveStep
  BY <1>1, <1>5, FrontTruncate, FrontWrite, FrontFails DEF SaveStep
<1>6. CASE RecoverExpired \/ \E B \in SUBSET Events : Complete(B)
  BY <1>1, <1>6, FrontSettles
<1>7. CASE ReclaimDone \/ Flush \/ CloseBegin \/ Destroy \/ CloseFlush \/ FlushSyncFails
             \/ RecoverRecord \/ RecoverFails \/ RecoverNextSegment
  BY <1>1, <1>7, FrontLife
<1>8. CASE CloseEnd \/ Crash \/ PowerLoss
  BY <1>1, <1>8, FrontVanish
<1>9. CASE Open
  BY <1>1, <1>9, FrontOpen
<1>10. CASE UNCHANGED vars
  BY <1>10 DEF vars, FrontInv, StageInv, SavedInv, BehindInv, Oldest, Unsettled, Defective, Twin,
     Ahead, GivenUp, AwaitsSave, NoSaveLost
<1> QED
  BY <1>2, <1>3, <1>4, <1>5, <1>6, <1>7, <1>8, <1>9, <1>10 DEF Next, LifeStep, RecoverStep

-------------------------------------------------------------------------------
(* Where the records are, and what the table says of them *)

(* A step that leaves the records alone.                                    *)
SameRecords ==
    /\ UNCHANGED <<disk, meta>>
    /\ files \subseteq files' /\ active' \in files' \cup {active}
    /\ up' # "down" => up # "down"
    /\ \A e \in stored : idOf'[e] = idOf[e] /\ (excuse[e] = "stranded" => excuse'[e] = "stranded")

RecordStep ==
    \/ Put \/ CloseEnd \/ Crash \/ PowerLoss \/ Open
    \/ \E s \in SegIds : DropRemove(s) \/ RelieveOne(s) \/ ReclaimOne(s)

LEMMA RecordsStay ==
    ASSUME TypeInv, SyncInv, [Next]_vars, ~RecordStep PROVE SameRecords
<1>1. idOf \in [Events -> Nat] /\ excuse \in [Events -> Excuses] /\ stored \subseteq Events
  BY DEF TypeInv, TypeOK
<1> USE DEF SameRecords, diskVars, usageVars, addVars, histVars
<1>2. ASSUME NEW e \in Events, AddStep(e) \/ GiveUp(e) PROVE SameRecords
  <2>1. CASE AddBegin(e)
    <3>1. e \notin stored
      BY <2>1 DEF AddBegin, SyncInv, FreshInv
    <3> QED
      BY <1>1, <2>1, <3>1 DEF AddBegin
  <2>2. CASE AppendEnter(e) \/ Retry(e) \/ AddReturn(e) \/ GiveUp(e)
    BY <2>2 DEF AppendEnter, Retry, AddReturn, GiveUp
  <2> QED
    BY <1>2, <2>1, <2>2 DEF AddStep
<1>3. CASE \E B \in SUBSET Events : Complete(B)
  BY <1>3 DEF Complete
<1>4. CASE \E s \in SegIds : DropOldest(s)
  BY <1>1, <1>4 DEF DropOldest
<1>5. CASE RoomFound \/ Refuse \/ Rotate \/ RotateFails \/ PutFails \/ SyncAppend \/ SyncFails
             \/ AppendDone
  BY <1>5 DEF RoomFound, Refuse, Rotate, RotateFails, PutFails, SyncAppend, SyncFails, AppendDone
<1>6. CASE SaveStep \/ ReclaimDone \/ Flush
  BY <1>6 DEF SaveStep, SaveTruncate, SaveWrite, SaveFails, ReclaimDone, Flush, FlushSync
<1>7. CASE CloseBegin \/ Destroy \/ CloseFlush \/ FlushSyncFails
  BY <1>7 DEF CloseBegin, Destroy, Stop, CloseFlush, FlushSync, FlushSyncFails
<1>8. CASE RecoverStep
  BY <1>8 DEF RecoverStep, RecoverRecord, RecoverExpired, RecoverFails, RecoverNextSegment, Stop
<1>9. CASE UNCHANGED vars
  BY <1>9 DEF vars
<1> QED
  BY <1>2, <1>3, <1>4, <1>5, <1>6, <1>7, <1>8, <1>9
     DEF Next, SegmentStep, AppendStep, LifeStep, RecordStep

LEMMA PlaceSame ==
    ASSUME SyncInv, PlaceInv, KnownInv, SameRecords PROVE PlaceInv' /\ KnownInv'
<1>1. \A s \in SegIds : Held(s)' = Held(s) /\ Held(s) \subseteq stored
  BY DEF SameRecords, Held, SyncInv, FreshInv
<1>2. PlaceInv'
  BY <1>1 DEF PlaceInv, OnePlace, SameRecords
<1>3. KnownInv'
  BY <1>1 DEF KnownInv, SameRecords
<1> QED
  BY <1>2, <1>3

(* A record is written behind the others of the active segment.             *)
LEMMA PutAt ==
    ASSUME TypeInv, SyncInv, Put
    PROVE  /\ lock.who \in Events /\ lock.who \notin stored /\ active \in SegIds
           /\ disk' = [disk EXCEPT ![active] = Append(@, lock.who)]
           /\ disk'[active] = Append(disk[active], lock.who)
           /\ \A s \in SegIds : Len(disk[s]) \in Nat /\ disk[s] \in Seq(Events)
           /\ \A s \in SegIds \ {active} : disk'[s] = disk[s]
<1>1. /\ lock.who \in Events /\ lock.at \in {"write", "put"} /\ active \in SegIds
      /\ disk \in [SegIds -> Seq(Events)]
  BY DEF Put, CanPut, TypeInv, TypeOK, LockOK
<1>2. lock.who \notin stored
  BY <1>1 DEF SyncInv, OwnerInv, FreshInv
<1>3. disk' = [disk EXCEPT ![active] = Append(@, lock.who)]
  BY DEF Put
<1>4. \A s \in SegIds : Len(disk[s]) \in Nat
  BY <1>1
<1> QED
  BY <1>1, <1>2, <1>3, <1>4

LEMMA PlacePut ==
    ASSUME TypeInv, SyncInv, PlaceInv, KnownInv, Put PROVE PlaceInv' /\ KnownInv'
<1> DEFINE e == lock.who
<1>1. /\ e \in Events /\ e \notin stored /\ active \in SegIds
      /\ disk' = [disk EXCEPT ![active] = Append(@, e)]
      /\ disk'[active] = Append(disk[active], e)
      /\ \A s \in SegIds : Len(disk[s]) \in Nat /\ disk[s] \in Seq(Events)
      /\ \A s \in SegIds \ {active} : disk'[s] = disk[s]
  BY PutAt
<1> HIDE DEF e
<1>2. ASSUME NEW s \in SegIds, NEW i \in 1 .. Len(disk'[s])
      PROVE  \/ disk'[s][i] = e /\ s = active /\ i = Len(disk[active]) + 1
             \/ i \in 1 .. Len(disk[s]) /\ disk'[s][i] = disk[s][i] /\ disk[s][i] \in stored
  <2>1. \A j \in 1 .. Len(disk[s]) : disk[s][j] \in stored
    BY DEF SyncInv, FreshInv, Held
  <2>2. CASE s # active
    BY <1>1, <2>1, <2>2
  <2>3. CASE s = active
    <3>1. /\ Len(disk'[s]) = Len(disk[s]) + 1 /\ disk'[s][Len(disk[s]) + 1] = e
          /\ Len(disk[s]) \in Nat /\ \A j \in 1 .. Len(disk[s]) : disk'[s][j] = disk[s][j]
      BY <1>1, <2>3
    <3> QED
      BY <2>1, <2>3, <3>1
  <2> QED
    BY <2>2, <2>3
<1>3. OnePlace'
  BY <1>1, <1>2 DEF PlaceInv, OnePlace
<1>4. \A s \in SegIds : Held(s)' = IF s = active THEN Held(s) \cup {e} ELSE Held(s)
  BY <1>1, HeldAppend
<1>5. active \in files /\ UNCHANGED <<files, up, active, idOf, excuse>>
  BY DEF Put, CanPut, KnownInv, addVars, SyncInv, OwnerInv
<1>6. \A s \in SegIds : Held(s)' # {} => s \in files'
  BY <1>4, <1>5 DEF PlaceInv
<1>7. ASSUME up # "down", NEW s \in SegIds, NEW f \in Held(s)'
      PROVE  excuse[f] = "stranded" \/ (meta'[s].here /\ idOf[f] <= meta'[s].max)
  <2>1. meta \in [SegIds -> [here : BOOLEAN, n : Nat, max : Nat]] /\ idOf[e] \in Nat
    BY <1>1 DEF TypeInv, TypeOK
  <2>2. meta' = [meta EXCEPT ![active] =
                     [here |-> TRUE, n |-> meta[active].n + 1,
                      max |-> IF idOf[e] > meta[active].max THEN idOf[e] ELSE meta[active].max]]
    BY DEF Put, e
  <2>3. f \in Events /\ idOf[f] \in Nat
    <3>1. f \in Held(s) \/ f = e
      BY <1>4
    <3> QED
      BY <1>1, <3>1, TypeHeld DEF TypeInv, TypeOK
  <2>4. CASE s = active
    <3>1. /\ meta'[s].here
          /\ meta'[s].max = IF idOf[e] > meta[s].max THEN idOf[e] ELSE meta[s].max
      BY <2>1, <2>2, <2>4
    <3>2. CASE f = e
      BY <2>1, <3>1, <3>2
    <3>3. CASE f # e
      <4>1. excuse[f] = "stranded" \/ idOf[f] <= meta[s].max
        BY <1>4, <1>7, <3>3 DEF KnownInv
      <4>2. meta[s].max \in Nat
        BY <2>1
      <4> QED
        BY <2>1, <2>3, <3>1, <4>1, <4>2
    <3> QED
      BY <3>2, <3>3
  <2>5. CASE s # active
    BY <1>4, <1>7, <2>1, <2>2, <2>5 DEF KnownInv
  <2> QED
    BY <2>4, <2>5
<1>8. KnownInv'
  BY <1>5, <1>7 DEF KnownInv
<1> QED
  BY <1>3, <1>6, <1>8 DEF PlaceInv

LEMMA PlaceRemove ==
    ASSUME TypeInv, PlaceInv, KnownInv, NEW s \in SegIds,
           DropRemove(s) \/ RelieveOne(s) \/ ReclaimOne(s)
    PROVE  PlaceInv' /\ KnownInv'
<1>1. /\ Remove(s) /\ Oldest(s) /\ UNCHANGED <<up, active, idOf, excuse>>
  BY DEF DropRemove, RelieveOne, Relieving, ReclaimOne, Reclaimable, ckptVars, addVars, histVars
<1>2. /\ files' = files \ {s} /\ disk'[s] = <<>> /\ s # active
      /\ \A t \in SegIds \ {s} : disk'[t] = disk[t] /\ meta'[t] = meta[t]
  <2>1. active \in SegIds /\ disk \in [SegIds -> Seq(Events)]
        /\ meta \in [SegIds -> [here : BOOLEAN, n : Nat, max : Nat]]
    BY DEF TypeInv, TypeOK
  <2>2. s # active
    BY <1>1, <2>1 DEF Oldest, SegIds
  <2> QED
    BY <1>1, <2>1, <2>2 DEF Remove
<1>3. Held(s)' = {} /\ \A t \in SegIds \ {s} : Held(t)' = Held(t)
  BY <1>2 DEF Held
<1>4. PlaceInv'
  BY <1>2, <1>3 DEF PlaceInv, OnePlace
<1>5. KnownInv'
  BY <1>1, <1>2, <1>3 DEF KnownInv
<1> QED
  BY <1>4, <1>5

(* The end of a process leaves of each segment a prefix.                    *)
LEMMA VanishHeld ==
    ASSUME TypeInv, CloseEnd \/ Crash \/ PowerLoss
    PROVE  /\ \A s \in SegIds : \A i \in 1 .. Len(disk'[s]) :
                  i \in 1 .. Len(disk[s]) /\ disk'[s][i] = disk[s][i]
           /\ \A s \in SegIds : Held(s)' \subseteq Held(s)
<1>1. \A s \in SegIds : \A i \in 1 .. Len(disk'[s]) : i \in 1 .. Len(disk[s]) /\ disk'[s][i] = disk[s][i]
  <2>1. CASE CloseEnd \/ Crash
    BY <2>1 DEF CloseEnd, Crash
  <2>2. CASE PowerLoss
    <3>1. PICK keep \in [SegIds -> 0 .. SegRecords] :
            /\ \A s \in SegIds : keep[s] \in synced[s] .. Len(disk[s])
            /\ disk' = [s \in SegIds |-> SubSeq(disk[s], 1, keep[s])]
      BY <2>2 DEF PowerLoss
    <3> SUFFICES ASSUME NEW s \in SegIds
                 PROVE  \A i \in 1 .. Len(disk'[s]) : i \in 1 .. Len(disk[s]) /\ disk'[s][i] = disk[s][i]
      OBVIOUS
    <3>2. disk[s] \in Seq(Events) /\ keep[s] \in Nat /\ synced[s] \in Nat
      BY WalAssumption DEF TypeInv, TypeOK
    <3>3. keep[s] <= Len(disk[s]) /\ Len(disk[s]) \in Nat /\ disk'[s] = SubSeq(disk[s], 1, keep[s])
      BY <3>1, <3>2
    <3>4. Len(disk'[s]) = keep[s] /\ \A i \in 1 .. keep[s] : disk'[s][i] = disk[s][i]
      BY <3>2, <3>3
    <3> QED
      BY <3>2, <3>3, <3>4
  <2> QED
    BY <2>1, <2>2
<1> QED
  BY <1>1 DEF Held

LEMMA PlaceVanish ==
    ASSUME TypeInv, PlaceInv, CloseEnd \/ Crash \/ PowerLoss PROVE PlaceInv' /\ KnownInv'
<1>1. up' = "down" /\ files' = files
  BY DEF CloseEnd, Crash, PowerLoss, Vanish
<1>2. \A s \in SegIds : Held(s)' \subseteq Held(s)
  BY VanishHeld
<1>3. OnePlace'
  <2>1. \A s \in SegIds : \A i \in 1 .. Len(disk'[s]) : i \in 1 .. Len(disk[s]) /\ disk'[s][i] = disk[s][i]
    BY VanishHeld
  <2> QED
    BY <2>1 DEF PlaceInv, OnePlace
<1> QED
  BY <1>1, <1>2, <1>3 DEF PlaceInv, KnownInv

(* What an opening finds, it knows; what it does not find, it strands.       *)
LEMMA OpenFinds ==
    ASSUME TypeInv, Open
    PROVE  \E a \in SegIds :
             LET known == {s \in files \cup {a} : s <= a}
                 found == UNION {Held(s) : s \in known}
             IN  /\ active' = a /\ files' = files \cup {a}
                 /\ meta' = [s \in SegIds |-> IF s \in known THEN Scan(s) ELSE NoMeta]
                 /\ recs' = Cardinality(found) /\ segs' = Cardinality(known)
                 /\ excuse' = [e \in Events |-> IF OnDisk(e) /\ e \notin found
                                                 THEN "stranded" ELSE excuse[e]]
  BY TypeResumeAt DEF Open

LEMMA HeldOnce ==
    ASSUME OnePlace, NEW s \in SegIds, NEW t \in SegIds, NEW e \in Held(s), e \in Held(t)
    PROVE  s = t
  BY DEF OnePlace, Held

LEMMA PlaceOpen ==
    ASSUME TypeInv, TopsInv, PlaceInv, Open PROVE PlaceInv' /\ KnownInv'
<1>1. UNCHANGED <<disk, idOf>>
  BY DEF Open, addVars
<1>2. PICK a \in SegIds :
         LET known == {s \in files \cup {a} : s <= a}
             found == UNION {Held(s) : s \in known}
         IN  /\ active' = a /\ files' = files \cup {a}
             /\ meta' = [s \in SegIds |-> IF s \in known THEN Scan(s) ELSE NoMeta]
             /\ excuse' = [e \in Events |-> IF OnDisk(e) /\ e \notin found
                                             THEN "stranded" ELSE excuse[e]]
  BY OpenFinds
<1> DEFINE known == {s \in files \cup {a} : s <= a}
           found == UNION {Held(s) : s \in known}
<1>3. \A s \in SegIds : Held(s)' = Held(s)
  BY <1>1 DEF Held
<1>4. PlaceInv'
  BY <1>1, <1>2, <1>3 DEF PlaceInv, OnePlace
<1>5. ASSUME NEW s \in SegIds, NEW e \in Held(s)
      PROVE  excuse'[e] = "stranded" \/ (meta'[s].here /\ idOf[e] <= meta'[s].max)
  <2>1. CASE s \in known
    <3>1. meta'[s] = Scan(s)
      BY <1>2, <2>1
    <3> QED
      BY <3>1, ScanBounds DEF Scan
  <2>2. CASE s \notin known
    <3>1. e \in Events /\ OnDisk(e)
      BY TypeHeld DEF PlaceInv, OnDisk
    <3>2. known \subseteq SegIds
      BY DEF TypeInv, TypeOK
    <3>3. e \notin found
      BY <2>2, <3>2, HeldOnce DEF PlaceInv
    <3> QED
      BY <1>2, <3>1, <3>3
  <2> QED
    BY <2>1, <2>2
<1>6. KnownInv'
  <2>1. active' \in files'
    BY <1>2
  <2> QED
    BY <1>1, <1>3, <1>5, <2>1 DEF KnownInv
<1> QED
  BY <1>4, <1>6

LEMMA PlaceNext ==
    ASSUME TypeInv, SyncInv, TopsInv, PlaceInv, KnownInv, [Next]_vars PROVE PlaceInv' /\ KnownInv'
<1>1. CASE RecordStep
  BY <1>1, PlacePut, PlaceRemove, PlaceVanish, PlaceOpen DEF RecordStep
<1>2. CASE ~RecordStep
  BY <1>2, RecordsStay, PlaceSame
<1> QED
  BY <1>1, <1>2

LEMMA TopsNext == ASSUME TypeInv, TopsInv, [Next]_vars PROVE TopsInv'
<1>1. CASE \E e \in Events : AddBegin(e)
  BY <1>1, TopsAddBegin
<1>2. CASE ~\E e \in Events : AddBegin(e)
  <2>1. UNCHANGED idOf
    <3> USE DEF addVars
    <3>1. CASE \E e \in Events : AddStep(e) \/ GiveUp(e)
      BY <1>2, <3>1 DEF AddStep, AppendEnter, Retry, AddReturn, GiveUp
    <3>2. CASE \E B \in SUBSET Events : Complete(B)
      BY <3>2 DEF Complete
    <3>3. CASE \E s \in SegIds : SegmentStep(s)
      BY <3>3 DEF SegmentStep, DropOldest, DropRemove, RelieveOne, ReclaimOne
    <3>4. CASE AppendStep
      BY <3>4 DEF AppendStep, RoomFound, Refuse, Rotate, RotateFails, Put, PutFails, SyncAppend,
         SyncFails, AppendDone
    <3>5. CASE SaveStep \/ ReclaimDone \/ Flush
      BY <3>5 DEF SaveStep, SaveTruncate, SaveWrite, SaveFails, ReclaimDone, Flush, FlushSync
    <3>6. CASE LifeStep
      BY <3>6 DEF LifeStep, CloseBegin, Destroy, Stop, CloseFlush, FlushSync, FlushSyncFails, CloseEnd,
         Crash, PowerLoss, Vanish, Open
    <3>7. CASE RecoverStep
      BY <3>7 DEF RecoverStep, RecoverRecord, RecoverExpired, RecoverFails, RecoverNextSegment, Stop
    <3>8. CASE UNCHANGED vars
      BY <3>8 DEF vars
    <3> QED
      BY <3>1, <3>2, <3>3, <3>4, <3>5, <3>6, <3>7, <3>8 DEF Next
  <2> QED
    BY <2>1 DEF TopsInv
<1> QED
  BY <1>1, <1>2

-------------------------------------------------------------------------------
LogInv ==
    FrontierInv /\ SyncInv /\ TopsInv /\ RecordedInv /\ FrontInv /\ PlaceInv /\ KnownInv

LEMMA LogInit == Init => LogInv
<1> SUFFICES ASSUME Init PROVE LogInv
  OBVIOUS
<1>1. FrontierInv /\ SyncInv
  BY FrontierInit, SyncInit
<1>2. \A s \in SegIds : Held(s) = {} /\ Len(disk[s]) = 0
  BY DEF Init, Held
<1>3. PlaceInv /\ KnownInv /\ TopsInv /\ RecordedInv
  BY <1>2 DEF Init, PlaceInv, OnePlace, KnownInv, TopsInv, RecordedInv, FreeLock
<1>4. FrontInv
  BY DEF Init, FrontInv, StageInv, SavedInv, BehindInv, Unsettled, FreeLock
<1> QED
  BY <1>1, <1>3, <1>4 DEF LogInv

LEMMA LogNext == ASSUME LogInv, [Next]_vars PROVE LogInv'
<1>1. TypeInv
  BY DEF LogInv, FrontierInv
<1> QED
  BY <1>1, FrontierNext, SyncNext, TopsNext, RecordedNext, FrontNext, PlaceNext DEF LogInv

(* Only three steps remove a file.                                          *)
LEMMA FilesStay ==
    ASSUME TypeInv, SyncInv, [Next]_vars, NEW s \in files, s \notin files'
    PROVE  DropRemove(s) \/ RelieveOne(s) \/ ReclaimOne(s)
<1>1. RecordStep
  BY RecordsStay DEF SameRecords
<1>2. ~(Put \/ CloseEnd \/ Crash \/ PowerLoss)
  BY DEF Put, CloseEnd, Crash, PowerLoss, Vanish
<1>3. ~Open
  BY DEF Open
<1>4. \A t \in SegIds : DropRemove(t) \/ RelieveOne(t) \/ ReclaimOne(t) => t = s
  BY DEF DropRemove, RelieveOne, ReclaimOne, Remove
<1> QED
  BY <1>1, <1>2, <1>3, <1>4 DEF RecordStep

LEMMA RemovedSettled ==
    ASSUME LogInv, [Next]_vars, NEW s \in files, s \notin files', NEW e \in Held(s),
           e \notin done, ~Defective(e)
    PROVE  /\ Policy = "drop_oldest"
           /\ NoSaveLost => ckpt.ok /\ idOf[e] <= ckpt.acked
<1>1. TypeInv /\ SyncInv
  BY DEF LogInv, FrontierInv
<1>2. s \in SegIds /\ e \in stored /\ e \in Events
  BY <1>1, TypeHeld DEF TypeInv, TypeOK, SyncInv, FreshInv
<1>3. /\ idOf[e] \in Nat /\ meta[s].max \in Nat /\ acked \in Nat /\ durable \in Nat
      /\ Unsettled(e)
  BY <1>1, <1>2 DEF TypeInv, TypeOK, SyncInv, FreshInv, Unsettled
<1>4. /\ lock.at \in {"dropremove", "relieve", "low", "reclaim"} /\ Oldest(s)
      /\ lock.at = "dropremove" \/ meta[s].max <= durable
  <2>1. DropRemove(s) \/ RelieveOne(s) \/ ReclaimOne(s)
    BY <1>1, FilesStay
  <2> QED
    BY <1>3, <2>1 DEF DropRemove, RelieveOne, Relieving, ReclaimOne, Reclaimable
<1>5. up # "down"
  BY <1>1, <1>4 DEF SyncInv, OwnerInv
<1>6. idOf[e] <= meta[s].max
  BY <1>2, <1>5 DEF LogInv, KnownInv, Defective
<1>7. durable <= acked /\ meta[s].max <= acked
  BY <1>2, <1>3, <1>4, <1>5 DEF LogInv, FrontInv, SavedInv, StageInv
<1>8. Policy = "drop_oldest"
  BY <1>2, <1>3, <1>6, <1>7 DEF LogInv, FrontInv, BehindInv, Ahead
<1>9. idOf[e] <= durable \/ ~NoSaveLost
  <2>1. ~AwaitsSave
    BY <1>4 DEF AwaitsSave
  <2>2. NoSaveLost => acked < idOf[e] \/ idOf[e] <= durable
    BY <1>2, <1>3, <1>8, <2>1 DEF LogInv, FrontInv, BehindInv, GivenUp
  <2> QED
    BY <1>3, <1>6, <1>7, <2>2
<1>10. NoSaveLost => ckpt.ok /\ ckpt.acked = durable
  BY <1>4, <1>5 DEF LogInv, FrontInv, SavedInv
<1> QED
  BY <1>8, <1>9, <1>10

(* A segment file goes only when each of its records was delivered; under    *)
(* drop_oldest also when the checkpoint on disk covers the record, unless a  *)
(* save has failed. This holds for every way a segment is removed (by a      *)
(* flush, by an append at its hard limit or its watermark, at an opening, by *)
(* a drop), whatever crashes, failures and completions came before.          *)
THEOREM RemovedWhenSettledAlways == Spec => RemovedWhenSettled
<1>1. LogInv /\ [Next]_vars => LogInv'
  BY LogNext
<1>2. LogInv /\ [Next]_vars =>
        [\A s \in files : s \notin files' =>
            \A e \in Held(s) : e \notin done /\ ~Defective(e) =>
               /\ Policy = "drop_oldest"
               /\ NoSaveLost => ckpt.ok /\ idOf[e] <= ckpt.acked]_vars
  BY RemovedSettled
<1> QED
  BY LogInit, <1>1, <1>2, PTL DEF Spec, RemovedWhenSettled

-------------------------------------------------------------------------------
(* Counting what the files hold *)

Kept == UNION {Held(s) : s \in SegIds}
Known == {s \in SegIds : meta[s].here}
Filled == {s \in SegIds : Held(s) # {}}

(* Neither of the two ways for the totals to go wrong has happened.          *)
Exact == NoStranded /\ NoRotationLost

(* Only recorded events are ever stranded.                                  *)
StrandedInv == \A e \in Events : excuse[e] = "stranded" => e \in stored

(* The totals and the table are those of the files; the active segment is in *)
(* the table but between a rotation and the append it is for.               *)
TotalsInv ==
    up # "down" /\ Exact =>
        /\ recs = Cardinality(Kept)
        /\ segs = Cardinality(Known)
        /\ \A s \in SegIds : meta[s].here => s \in files /\ s <= active /\ meta[s] = Scan(s)
        /\ \A s \in SegIds : ~meta[s].here => Held(s) = {} /\ meta[s] = NoMeta
        /\ meta[active].here <=> lock.at # "put"

(* The limits hold, and still will after the append that is past its check.  *)
LimitsInv ==
    Exact =>
        /\ MaxRecords > 0 => Cardinality(Kept) <= MaxRecords
        /\ MaxSegments > 0 => Cardinality(Filled) <= MaxSegments
        /\ lock.at = "write" => ~Saturated
        /\ lock.at = "put" => ~Over(recs + 1, MaxRecords) /\ ~Over(segs + 1, MaxSegments)

LEMMA KeptFinite ==
    ASSUME TypeInv, NEW S \in SUBSET Kept
    PROVE  /\ IsFiniteSet(Kept) /\ Cardinality(Kept) \in Nat
           /\ IsFiniteSet(S) /\ Cardinality(S) \in Nat /\ Cardinality(S) <= Cardinality(Kept)
<1>1. Kept \subseteq Events
  BY TypeHeld DEF Kept
<1>2. IsFiniteSet(Kept)
  BY <1>1, WalAssumption, FS_Subset
<1>3. IsFiniteSet(S) /\ Cardinality(S) <= Cardinality(Kept)
  BY <1>2, FS_Subset
<1> QED
  BY <1>2, <1>3, FS_CardinalityType

LEMMA SegmentsFinite ==
    ASSUME NEW S \in SUBSET SegIds, NEW T \in SUBSET S
    PROVE  /\ IsFiniteSet(S) /\ Cardinality(S) \in Nat
           /\ Cardinality(T) \in Nat /\ Cardinality(T) <= Cardinality(S)
<1>1. IsFiniteSet(SegIds)
  BY FS_Interval, WalAssumption DEF SegIds
<1>2. IsFiniteSet(S)
  BY <1>1, FS_Subset
<1>3. IsFiniteSet(T) /\ Cardinality(T) <= Cardinality(S)
  BY <1>2, FS_Subset
<1> QED
  BY <1>2, <1>3, FS_CardinalityType

(* As no event is recorded twice, a segment holds as many events as records. *)
LEMMA HeldCount ==
    ASSUME TypeInv, OnePlace, NEW s \in SegIds
    PROVE  IsFiniteSet(Held(s)) /\ Cardinality(Held(s)) = Len(disk[s])
<1> DEFINE n == Len(disk[s])
           f == [i \in 1 .. n |-> disk[s][i]]
<1>1. n \in Nat
  BY DEF TypeInv, TypeOK
<1>2. IsFiniteSet(1 .. n) /\ Cardinality(1 .. n) = n
  BY <1>1, FS_Interval
<1>3. f \in Bijection(1 .. n, Held(s))
  <2>1. f \in [1 .. n -> Held(s)]
    BY DEF Held
  <2>2. \A i, j \in 1 .. n : f[i] = f[j] => i = j
    BY DEF OnePlace
  <2>3. \A e \in Held(s) : \E i \in 1 .. n : f[i] = e
    BY DEF Held
  <2> QED
    BY <2>1, <2>2, <2>3 DEF Bijection, Injection, Surjection, IsInjective
<1>4. ExistsBijection(1 .. n, Held(s))
  BY <1>3 DEF ExistsBijection
<1> QED
  BY <1>2, <1>4, FS_Bijection

LEMMA HighestAdd ==
    ASSUME NEW S \in SUBSET Nat, NEW x \in Nat,
           S # {} => \E m \in S : \A y \in S : y <= m
    PROVE  Highest(S \cup {x}) = IF x > Highest(S) THEN x ELSE Highest(S)
<1>1. CASE S = {}
  <2>1. Highest(S) = 0 /\ S \cup {x} = {x}
    BY <1>1 DEF Highest
  <2>2. Highest({x}) = x
    BY DEF Highest
  <2> QED
    BY <2>1, <2>2
<1>2. CASE S # {}
  <2>1. PICK m \in S : m = Highest(S) /\ \A y \in S : y <= m
    BY <1>2 DEF Highest
  <2>2. PICK h \in S \cup {x} : h = (IF x > m THEN x ELSE m) /\ \A y \in S \cup {x} : y <= h
    BY <2>1
  <2>3. \A z \in S \cup {x} : (\A y \in S \cup {x} : y <= z) => z = h
    BY <2>2
  <2>4. Highest(S \cup {x}) = CHOOSE z \in S \cup {x} : \A y \in S \cup {x} : y <= z
    BY <2>2 DEF Highest
  <2>5. Highest(S \cup {x}) = h
    BY <2>2, <2>3, <2>4
  <2> QED
    BY <2>1, <2>2, <2>5
<1> QED
  BY <1>1, <1>2

(* An event is stranded by an opening alone, and stays so.                   *)
LEMMA StrandedNext ==
    ASSUME TypeInv, SyncInv, StrandedInv, [Next]_vars
    PROVE  /\ StrandedInv'
           /\ \A e \in Events : excuse[e] = "stranded" => excuse'[e] = "stranded"
<1> DEFINE Only == /\ stored \subseteq stored'
                   /\ \A e \in Events : excuse'[e] = "stranded" => excuse[e] = "stranded"
                   /\ \A e \in stored : excuse[e] = "stranded" => excuse'[e] = "stranded"
<1>1. /\ stored \subseteq Events /\ excuse \in [Events -> Excuses]
  BY DEF TypeInv, TypeOK
<1>2. Only \/ Open
  <2> USE DEF histVars
  <2>1. ASSUME NEW e \in Events, AddStep(e) \/ GiveUp(e) PROVE Only
    <3>1. CASE AddBegin(e)
      <4>1. e \notin stored
        BY <3>1 DEF AddBegin, SyncInv, FreshInv
      <4>2. /\ excuse'[e] \in {"stale", "none"} /\ stored' = stored
            /\ \A f \in Events \ {e} : excuse'[f] = excuse[f]
        BY <1>1, <3>1 DEF AddBegin
      <4> QED
        BY <1>1, <4>1, <4>2
    <3>2. CASE AppendEnter(e) \/ Retry(e) \/ AddReturn(e) \/ GiveUp(e)
      BY <3>2 DEF AppendEnter, Retry, AddReturn, GiveUp
    <3> QED
      BY <2>1, <3>1, <3>2 DEF AddStep
  <2>2. CASE \E B \in SUBSET Events : Complete(B)
    BY <2>2 DEF Complete
  <2>3. ASSUME NEW s \in SegIds, SegmentStep(s) PROVE Only
    <3>1. CASE DropOldest(s)
      <4>1. \A e \in Events : excuse'[e] = excuse[e] \/ (excuse[e] = "none" /\ excuse'[e] = "dropped")
        BY <3>1 DEF DropOldest
      <4>2. stored' = stored
        BY <3>1 DEF DropOldest
      <4> QED
        BY <1>1, <4>1, <4>2
    <3>2. CASE DropRemove(s) \/ RelieveOne(s) \/ ReclaimOne(s)
      BY <3>2 DEF DropRemove, RelieveOne, ReclaimOne
    <3> QED
      BY <2>3, <3>1, <3>2 DEF SegmentStep
  <2>4. CASE AppendStep
    BY <2>4 DEF AppendStep, RoomFound, Refuse, Rotate, RotateFails, Put, PutFails, SyncAppend,
       SyncFails, AppendDone
  <2>5. CASE SaveStep \/ ReclaimDone \/ Flush
    BY <2>5 DEF SaveStep, SaveTruncate, SaveWrite, SaveFails, ReclaimDone, Flush, FlushSync
  <2>6. CASE PowerLoss
    <3>1. \A e \in Events : excuse'[e] = excuse[e] \/ (excuse[e] = "none" /\ excuse'[e] = "power")
      BY <2>6 DEF PowerLoss
    <3>2. stored' = stored
      BY <2>6 DEF PowerLoss, Vanish
    <3> QED
      BY <1>1, <3>1, <3>2
  <2>7. CASE LifeStep /\ ~PowerLoss
    BY <2>7 DEF LifeStep, CloseBegin, Destroy, CloseFlush, FlushSync, FlushSyncFails, CloseEnd, Crash,
       Vanish
  <2>8. CASE RecoverStep
    BY <2>8 DEF RecoverStep, RecoverRecord, RecoverExpired, RecoverFails, RecoverNextSegment
  <2>9. CASE UNCHANGED vars
    BY <2>9 DEF vars
  <2> QED
    BY <2>1, <2>2, <2>3, <2>4, <2>5, <2>6, <2>7, <2>8, <2>9 DEF Next
<1>3. CASE Only
  BY <1>1, <1>3 DEF StrandedInv
<1>4. CASE Open
  <2>1. /\ stored' = stored
        /\ \A e \in Events : excuse'[e] = excuse[e] \/ (OnDisk(e) /\ excuse'[e] = "stranded")
    BY <1>4 DEF Open
  <2>2. \A e \in Events : OnDisk(e) => e \in stored
    BY DEF OnDisk, TypeInv, TypeOK, SyncInv, FreshInv
  <2> QED
    BY <2>1, <2>2 DEF StrandedInv
<1> QED
  BY <1>2, <1>3, <1>4

LEMMA ExactBefore ==
    ASSUME TypeInv, SyncInv, StrandedInv, [Next]_vars, Exact' PROVE Exact
<1>1. NoRotationLost
  BY FaultsGrow DEF Exact
<1>2. NoStranded
  BY StrandedNext DEF Exact, NoStranded
<1> QED
  BY <1>1, <1>2 DEF Exact

(* A step that leaves the totals alone, and passes no check but the one for  *)
(* room.                                                                    *)
SameTotals ==
    /\ SameRecords /\ UNCHANGED <<recs, segs, active>>
    /\ lock'.at = "put" <=> lock.at = "put"
    /\ lock'.at = "write" => lock.at = "write" \/ ~Saturated

LEMMA TotalsStay ==
    ASSUME TypeInv, SyncInv, [Next]_vars, ~RecordStep, ~Rotate, NoRotationLost'
    PROVE  SameTotals
<1>0. SameRecords
  BY RecordsStay
<1>1. lock \in Locks /\ faults \in Nat
  BY DEF TypeInv, TypeOK
<1> USE <1>1 DEF usageVars
<1> DEFINE Goal == /\ UNCHANGED <<recs, segs, active>>
                   /\ lock'.at = "put" <=> lock.at = "put"
                   /\ lock'.at = "write" => lock.at = "write" \/ ~Saturated
<1>2. SUFFICES Goal
  BY <1>0 DEF SameTotals
<1>3. ASSUME NEW e \in Events, AddStep(e) \/ GiveUp(e) PROVE Goal
  <2>1. CASE AppendEnter(e)
    BY <2>1 DEF AppendEnter, Free, FreeLock
  <2>2. CASE AddBegin(e) \/ Retry(e) \/ AddReturn(e) \/ GiveUp(e)
    BY <2>2 DEF AddBegin, Retry, AddReturn, GiveUp
  <2> QED
    BY <1>3, <2>1, <2>2 DEF AddStep
<1>4. CASE \E B \in SUBSET Events : Complete(B)
  BY <1>4 DEF Complete, Settle, Free, FreeLock
<1>5. ASSUME NEW s \in SegIds, DropOldest(s) PROVE Goal
  <2>1. \/ lock' = [lock EXCEPT !.at = "save", !.why = "drop"]
        \/ lock' = [lock EXCEPT !.at = "dropremove"]
    BY <1>5 DEF DropOldest, Step
  <2>2. lock.at = "room" /\ UNCHANGED <<recs, segs, active>>
    BY <1>5 DEF DropOldest
  <2>3. lock'.at \in {"save", "dropremove"}
    BY <2>1
  <2> QED
    BY <2>2, <2>3
<1>6. CASE AppendStep
  <2>1. CASE RoomFound
    BY <2>1 DEF RoomFound, Step
  <2>2. CASE Refuse \/ RotateFails \/ AppendDone
    <3>1. lock' = FreeLock /\ lock.at # "put" /\ UNCHANGED <<recs, segs, active>>
      BY <2>2 DEF Refuse, RotateFails, AppendDone, Yield, Release
    <3> QED
      BY <3>1 DEF FreeLock
  <2>3. CASE PutFails
    <3>1. "write" \in FaultKinds /\ faults' = faults + 1
      BY <2>3 DEF PutFails, Fault
    <3>2. faults + 1 # 0
      BY <1>1
    <3> QED
      BY <3>1, <3>2 DEF NoRotationLost
  <2>4. CASE SyncAppend
    BY <2>4 DEF SyncAppend, Step
  <2>5. CASE SyncFails
    BY <2>5 DEF SyncFails
  <2> QED
    BY <1>6, <2>1, <2>2, <2>3, <2>4, <2>5 DEF AppendStep, RecordStep
<1>7. CASE SaveTruncate
  BY <1>7 DEF SaveTruncate, Step
<1>8. CASE SaveWrite
  <2>1. lock' = FreeLock \/ \E w \in {"dropremove", "reclaim"} : lock' = [lock EXCEPT !.at = w]
    BY <1>8 DEF SaveWrite, Step, Release
  <2>2. lock'.at \in {"free", "dropremove", "reclaim"}
    BY <2>1 DEF FreeLock
  <2> QED
    BY <1>8, <2>2 DEF SaveWrite
<1>9. CASE SaveFails
  <2>1. lock' = FreeLock \/ lock' = [lock EXCEPT !.at = "end"]
    BY <1>9 DEF SaveFails, Step, Yield, Release
  <2>2. lock'.at \in {"free", "end"}
    BY <2>1 DEF FreeLock
  <2> QED
    BY <1>9, <2>2 DEF SaveFails
<1>10. CASE ReclaimDone
  <2>1. lock' = FreeLock \/ \E w \in {"room", "end"} : lock' = [lock EXCEPT !.at = w]
    BY <1>10 DEF ReclaimDone, Step, Release
  <2>2. lock'.at \in {"free", "room", "end"}
    BY <2>1 DEF FreeLock
  <2> QED
    BY <1>10, <2>2 DEF ReclaimDone
<1>11. CASE Flush \/ CloseBegin \/ CloseFlush \/ FlushSyncFails \/ Destroy
  BY <1>11 DEF Flush, FlushSync, CloseBegin, CloseFlush, FlushSyncFails, Destroy, Stop, Free, FreeLock
<1>12. CASE RecoverStep
  BY <1>12 DEF RecoverStep, RecoverRecord, RecoverExpired, RecoverFails, RecoverNextSegment, Stop,
     Settle, Free, FreeLock
<1>13. CASE UNCHANGED vars
  BY <1>13 DEF vars
<1> QED
  BY <1>3, <1>4, <1>5, <1>6, <1>7, <1>8, <1>9, <1>10, <1>11, <1>12, <1>13
     DEF Next, SegmentStep, SaveStep, LifeStep, RecordStep

LEMMA ScanSame ==
    ASSUME NEW s \in SegIds, disk'[s] = disk[s], \A e \in Held(s) : idOf'[e] = idOf[e]
    PROVE  Held(s)' = Held(s) /\ Scan(s)' = Scan(s)
<1>1. Held(s)' = Held(s)
  BY DEF Held
<1>2. {idOf'[e] : e \in Held(s)'} = {idOf[e] : e \in Held(s)}
  BY <1>1
<1> QED
  BY <1>1, <1>2 DEF Scan

LEMMA TotalsSame ==
    ASSUME TypeInv, SyncInv, TotalsInv, Exact' => Exact, SameTotals PROVE TotalsInv'
<1> SUFFICES ASSUME up' # "down", Exact'
             PROVE  /\ recs' = Cardinality(Kept') /\ segs' = Cardinality(Known')
                    /\ \A s \in SegIds : meta'[s].here => s \in files' /\ s <= active' /\ meta'[s] = Scan(s)'
                    /\ \A s \in SegIds : ~meta'[s].here => Held(s)' = {} /\ meta'[s] = NoMeta
                    /\ meta'[active'].here <=> lock'.at # "put"
  BY DEF TotalsInv
<1>1. up # "down" /\ Exact
  BY DEF SameTotals, SameRecords
<1>2. \A s \in SegIds : Held(s)' = Held(s) /\ Scan(s)' = Scan(s)
  <2> SUFFICES ASSUME NEW s \in SegIds PROVE Held(s)' = Held(s) /\ Scan(s)' = Scan(s)
    OBVIOUS
  <2>1. disk'[s] = disk[s] /\ \A e \in Held(s) : idOf'[e] = idOf[e]
    BY DEF SameTotals, SameRecords, SyncInv, FreshInv
  <2> QED
    BY <2>1, ScanSame
<1>3. Kept' = Kept /\ Known' = Known
  BY <1>2 DEF Kept, Known, SameTotals, SameRecords
<1>4. UNCHANGED <<meta, recs, segs, active>> /\ files \subseteq files'
      /\ (lock'.at = "put" <=> lock.at = "put")
  BY DEF SameTotals, SameRecords
<1> QED
  BY <1>1, <1>2, <1>3, <1>4 DEF TotalsInv

(* The file a rotation starts is empty: nothing is known beyond the active   *)
(* segment.                                                                 *)
LEMMA TotalsRotate ==
    ASSUME TypeInv, SyncInv, TotalsInv, Exact' => Exact, Rotate PROVE TotalsInv'
<1>1. /\ active' = active + 1 /\ files' = files \cup {active + 1} /\ active \in SegIds
      /\ UNCHANGED <<disk, meta, recs, segs, idOf, up>>
  BY DEF Rotate, usageVars, addVars, TypeInv, TypeOK
<1>2. active' \in SegIds /\ active < active' /\ active \in Int /\ active' \in Int
  BY <1>1, WalAssumption DEF Rotate, SegIds
<1>3. lock'.at = "put"
  BY DEF Rotate, Step, TypeInv, TypeOK
<1>4. \A s \in SegIds : Held(s)' = Held(s) /\ Scan(s)' = Scan(s)
  BY <1>1, ScanSame
<1>5. Kept' = Kept /\ Known' = Known
  BY <1>1, <1>4 DEF Kept, Known
<1>6. up # "down" /\ Exact => ~meta[active'].here
  BY <1>2 DEF TotalsInv
<1>7. \A s \in SegIds : s <= active => s <= active'
  BY <1>2 DEF SegIds
<1> QED
  BY <1>1, <1>3, <1>4, <1>5, <1>6, <1>7 DEF TotalsInv

(* What the holder of the mutex writes is new to the totals.                 *)
LEMMA TotalsPut ==
    ASSUME TypeInv, TypeInv', SyncInv, TopsInv, KnownInv, TotalsInv, Exact, up # "down", Put
    PROVE  /\ recs' = recs + 1 /\ Cardinality(Kept') = recs + 1
           /\ segs' = IF lock.at = "put" THEN segs + 1 ELSE segs
           /\ TotalsInv'
<1>1. PICK e \in Events, a \in SegIds :
      /\ e = lock.who /\ a = active /\ e \notin stored
      /\ disk' = [disk EXCEPT ![a] = Append(@, e)]
      /\ disk'[a] = Append(disk[a], e)
      /\ \A s \in SegIds : Len(disk[s]) \in Nat /\ disk[s] \in Seq(Events)
      /\ \A s \in SegIds \ {a} : disk'[s] = disk[s]
  BY PutAt
<1>2. /\ meta' = [meta EXCEPT ![a] =
                     [here |-> TRUE, n |-> meta[a].n + 1,
                      max |-> IF idOf[e] > meta[a].max THEN idOf[e] ELSE meta[a].max]]
      /\ recs' = recs + 1
      /\ segs' = IF segs = 0 THEN 1 ELSE IF lock.at = "put" THEN segs + 1 ELSE segs
      /\ lock.at \in {"put", "write"} /\ lock'.at \in {"sync", "relieve"}
      /\ UNCHANGED <<files, active, idOf>>
  BY <1>1 DEF Put, CanPut, Step, addVars, TypeInv, TypeOK
<1>3. /\ recs = Cardinality(Kept) /\ segs = Cardinality(Known)
      /\ \A s \in SegIds : meta[s].here => s \in files /\ s <= a /\ meta[s] = Scan(s)
      /\ \A s \in SegIds : ~meta[s].here => Held(s) = {} /\ meta[s] = NoMeta
      /\ meta[a].here <=> lock.at # "put"
      /\ a \in files
  BY <1>1 DEF TotalsInv, KnownInv
<1>4. /\ meta \in Metas /\ idOf \in [Events -> Nat]
  BY DEF TypeInv, TypeOK, Metas
<1>5. \A s \in SegIds : Held(s)' = IF s = a THEN Held(s) \cup {e} ELSE Held(s)
  BY <1>1, HeldAppend
<1>6. Kept' = Kept \cup {e} /\ e \notin Kept
  <2>1. Kept \subseteq stored
    BY DEF Kept, SyncInv, FreshInv
  <2> QED
    BY <1>1, <1>5, <2>1 DEF Kept
<1>7. Cardinality(Kept') = recs + 1
  BY <1>3, <1>6, KeptFinite, FS_AddElement
<1>8. Known' = Known \cup {a}
  BY <1>1, <1>2, <1>4 DEF Known, Metas
<1>9. segs' = (IF lock.at = "put" THEN segs + 1 ELSE segs) /\ segs' = Cardinality(Known')
  <2>1. Known \in SUBSET SegIds /\ IsFiniteSet(Known) /\ segs \in Nat
    BY <1>3, SegmentsFinite DEF Known
  <2>2. CASE lock.at = "put"
    <3>1. a \notin Known
      BY <1>3, <2>2 DEF Known
    <3>2. Cardinality(Known') = segs + 1
      BY <1>3, <1>8, <2>1, <3>1, FS_AddElement
    <3> QED
      BY <1>2, <2>1, <2>2, <3>2
  <2>3. CASE lock.at # "put"
    <3>1. a \in Known
      BY <1>1, <1>3, <2>3 DEF Known
    <3>2. segs # 0
      BY <1>3, <2>1, <3>1, FS_EmptySet
    <3>3. Known' = Known
      BY <1>8, <3>1
    <3> QED
      BY <1>2, <1>3, <2>3, <3>2, <3>3
  <2> QED
    BY <2>2, <2>3
<1>10. meta'[a] = Scan(a)'
  <2> DEFINE S == {idOf[f] : f \in Held(a)}
  <2>1. Held(a) \subseteq Events /\ S \in SUBSET Nat /\ idOf[e] \in Nat
    BY <1>1, <1>4, TypeHeld
  <2>2. S # {} => \E m \in S : \A y \in S : y <= m
    <3> SUFFICES ASSUME S # {} PROVE \E m \in S : \A y \in S : y <= m
      OBVIOUS
    <3>1. Held(a) # {}
      OBVIOUS
    <3>2. PICK m \in Held(a) : \A f \in Held(a) : idOf[f] <= idOf[m]
      BY <2>1, <3>1 DEF TopsInv
    <3> QED
      BY <3>2
  <2>3. meta[a].n = Len(disk[a]) /\ meta[a].max = Highest(S)
    <3>1. CASE meta[a].here
      <4>1. Scan(a) = [here |-> TRUE, n |-> Len(disk[a]), max |-> Highest(S)]
        BY DEF Scan
      <4> HIDE DEF S
      <4> QED
        BY <1>3, <3>1, <4>1
    <3>2. CASE ~meta[a].here
      <4>1. Held(a) = {} /\ meta[a] = NoMeta
        BY <1>1, <1>3, <3>2
      <4>2. Len(disk[a]) = 0
        <5>1. \A i \in 1 .. Len(disk[a]) : disk[a][i] \in Held(a)
          BY DEF Held
        <5>2. ~(1 \in 1 .. Len(disk[a]))
          BY <4>1, <5>1
        <5> QED
          BY <1>1, <5>2
      <4>3. S = {}
        BY <4>1
      <4> HIDE DEF S
      <4>4. Highest(S) = 0
        BY <4>3 DEF Highest
      <4> QED
        BY <4>1, <4>2, <4>4 DEF NoMeta
    <3> QED
      BY <3>1, <3>2
  <2>4. {idOf'[f] : f \in Held(a)'} = S \cup {idOf[e]}
    <3>1. Held(a)' = Held(a) \cup {e} /\ idOf' = idOf
      BY <1>2, <1>5
    <3> QED
      BY <3>1
  <2> HIDE DEF S
  <2>5. Highest(S \cup {idOf[e]}) = IF idOf[e] > Highest(S) THEN idOf[e] ELSE Highest(S)
    BY <2>1, <2>2, HighestAdd
  <2>6. Len(disk'[a]) = Len(disk[a]) + 1
    BY <1>1
  <2>7. meta'[a] = [here |-> TRUE, n |-> meta[a].n + 1,
                    max |-> IF idOf[e] > meta[a].max THEN idOf[e] ELSE meta[a].max]
    BY <1>1, <1>2, <1>4 DEF Metas
  <2>8. Scan(a)' = [here |-> TRUE, n |-> Len(disk'[a]), max |-> Highest(S \cup {idOf[e]})]
    BY <2>4 DEF Scan
  <2> QED
    BY <2>3, <2>5, <2>6, <2>7, <2>8
<1>11. \A s \in SegIds \ {a} : meta'[s] = meta[s] /\ Held(s)' = Held(s) /\ Scan(s)' = Scan(s)
  <2>1. \A s \in SegIds \ {a} : meta'[s] = meta[s] /\ disk'[s] = disk[s]
    BY <1>1, <1>2, <1>4 DEF Metas
  <2> QED
    BY <1>2, <2>1, ScanSame
<1>12. meta'[a].here /\ active' = a /\ a <= a
  BY <1>1, <1>2, <1>4 DEF Metas, SegIds
<1>13. TotalsInv'
  BY <1>2, <1>3, <1>7, <1>9, <1>10, <1>11, <1>12 DEF TotalsInv
<1> QED
  BY <1>2, <1>7, <1>9, <1>13

(* A segment takes with it as many records as the table says.                *)
LEMMA TotalsRemove ==
    ASSUME TypeInv, PlaceInv, TotalsInv, Exact' => Exact, NEW s \in SegIds,
           DropRemove(s) \/ RelieveOne(s) \/ ReclaimOne(s)
    PROVE  TotalsInv'
<1>1. /\ Remove(s) /\ Oldest(s) /\ UNCHANGED <<up, active, idOf>>
      /\ lock.at \in {"dropremove", "relieve", "low", "reclaim"}
  BY DEF DropRemove, RelieveOne, Relieving, ReclaimOne, Reclaimable, ckptVars, addVars
<1>2. /\ files' = files \ {s} /\ disk'[s] = <<>> /\ meta'[s] = NoMeta /\ s # active
      /\ \A t \in SegIds \ {s} : disk'[t] = disk[t] /\ meta'[t] = meta[t]
      /\ recs' = Minus(recs, meta[s].n) /\ segs' = Minus(segs, 1)
      /\ meta[s].here /\ active \in SegIds
  <2>1. active \in SegIds /\ disk \in [SegIds -> Seq(Events)] /\ meta \in Metas
    BY DEF TypeInv, TypeOK, Metas
  <2>2. s # active
    BY <1>1, <2>1 DEF Oldest, SegIds
  <2> QED
    BY <1>1, <2>1, <2>2 DEF Remove, Metas, Oldest
<1>3. Held(s)' = {} /\ \A t \in SegIds \ {s} : Held(t)' = Held(t) /\ Scan(t)' = Scan(t)
  <2>1. Held(s)' = {}
    BY <1>2 DEF Held
  <2> QED
    BY <1>1, <1>2, <2>1, ScanSame
<1>4. Kept' = Kept \ Held(s) /\ Held(s) \subseteq Kept
  BY <1>3, HeldOnce DEF Kept, PlaceInv
<1>5. Known' = Known \ {s} /\ s \in Known
  BY <1>2 DEF Known, NoMeta
<1>6. lock'.at # "put"
  BY <1>1 DEF DropRemove, RelieveOne, ReclaimOne, Step, TypeInv, TypeOK
<1> SUFFICES ASSUME up' # "down", Exact'
             PROVE  /\ recs' = Cardinality(Kept') /\ segs' = Cardinality(Known')
                    /\ \A t \in SegIds : meta'[t].here => t \in files' /\ t <= active' /\ meta'[t] = Scan(t)'
                    /\ \A t \in SegIds : ~meta'[t].here => Held(t)' = {} /\ meta'[t] = NoMeta
                    /\ meta'[active'].here <=> lock'.at # "put"
  BY DEF TotalsInv
<1>7. /\ recs = Cardinality(Kept) /\ segs = Cardinality(Known)
      /\ \A t \in SegIds : meta[t].here => t \in files /\ t <= active /\ meta[t] = Scan(t)
      /\ \A t \in SegIds : ~meta[t].here => Held(t) = {} /\ meta[t] = NoMeta
      /\ meta[active].here
  BY <1>1 DEF TotalsInv
<1>8. recs' = Cardinality(Kept')
  <2>1. meta[s].n = Len(disk[s])
    <3>1. Scan(s).n = Len(disk[s])
      BY DEF Scan
    <3> QED
      BY <1>2, <1>7, <3>1
  <2>2. Cardinality(Held(s)) = meta[s].n
    BY <2>1, HeldCount DEF PlaceInv
  <2>3. /\ IsFiniteSet(Kept) /\ recs \in Nat /\ Cardinality(Held(s)) \in Nat
        /\ Cardinality(Held(s)) <= recs
    BY <1>4, <1>7, KeptFinite
  <2>4. Kept \cap Held(s) = Held(s)
    BY <1>4
  <2>5. Cardinality(Kept') = recs - Cardinality(Held(s))
    BY <1>4, <1>7, <2>3, <2>4, FS_Difference
  <2> QED
    BY <1>2, <2>2, <2>3, <2>5 DEF Minus
<1>9. segs' = Cardinality(Known')
  <2>1. IsFiniteSet(Known) /\ segs \in Nat
    BY <1>7, SegmentsFinite DEF Known
  <2>2. segs # 0 /\ Cardinality(Known') = segs - 1
    BY <1>5, <1>7, <2>1, FS_EmptySet, FS_RemoveElement
  <2> QED
    BY <1>2, <2>1, <2>2 DEF Minus
<1> QED
  BY <1>1, <1>2, <1>3, <1>6, <1>7, <1>8, <1>9 DEF NoMeta

(* Where no segment is left behind, an opening counts every record.          *)
LEMMA TotalsOpen ==
    ASSUME TypeInv, PlaceInv, Open PROVE TotalsInv'
<1> SUFFICES ASSUME Exact' PROVE TotalsInv'
  BY DEF TotalsInv
<1>1. UNCHANGED <<disk, idOf>> /\ lock'.at = "reclaim"
  BY DEF Open, addVars
<1>2. PICK a \in SegIds :
         LET known == {s \in files \cup {a} : s <= a}
             found == UNION {Held(s) : s \in known}
         IN  /\ active' = a /\ files' = files \cup {a}
             /\ meta' = [s \in SegIds |-> IF s \in known THEN Scan(s) ELSE NoMeta]
             /\ recs' = Cardinality(found) /\ segs' = Cardinality(known)
             /\ excuse' = [e \in Events |-> IF OnDisk(e) /\ e \notin found
                                             THEN "stranded" ELSE excuse[e]]
  BY OpenFinds
<1> DEFINE known == {s \in files \cup {a} : s <= a}
           found == UNION {Held(s) : s \in known}
<1>3. \A s \in SegIds : Held(s)' = Held(s) /\ Scan(s)' = Scan(s)
  BY <1>1, ScanSame
<1>4. known \subseteq SegIds
  BY DEF TypeInv, TypeOK
<1>5. \A s \in SegIds : meta'[s].here <=> s \in known
  BY <1>2 DEF Scan, NoMeta
<1>6. \A s \in SegIds : Held(s) \subseteq found
  <2> SUFFICES ASSUME NEW s \in SegIds, NEW e \in Held(s), e \notin found PROVE FALSE
    OBVIOUS
  <2>1. e \in Events /\ OnDisk(e)
    BY TypeHeld DEF PlaceInv, OnDisk
  <2>2. excuse'[e] = "stranded"
    BY <1>2, <2>1
  <2> QED
    BY <2>1, <2>2 DEF Exact, NoStranded
<1>7. Kept' = found
  BY <1>3, <1>4, <1>6 DEF Kept
<1>8. Known' = known
  BY <1>4, <1>5 DEF Known
<1>9. ASSUME NEW s \in SegIds \ known PROVE Held(s) = {}
  BY <1>4, <1>6, HeldOnce DEF PlaceInv
<1>10. a \in known /\ \A s \in known : s \in files' /\ s <= a
  BY <1>2 DEF SegIds
<1> QED
  BY <1>1, <1>2, <1>3, <1>5, <1>7, <1>8, <1>9, <1>10 DEF TotalsInv

LEMMA TotalsNext ==
    ASSUME LogInv, TypeInv', StrandedInv, TotalsInv, [Next]_vars PROVE TotalsInv'
<1>1. /\ TypeInv /\ SyncInv /\ TopsInv /\ PlaceInv /\ KnownInv
      /\ Exact' => Exact
  BY ExactBefore DEF LogInv, FrontierInv
<1>2. CASE Put
  <2>1. up # "down"
    BY <1>1, <1>2 DEF SyncInv, OwnerInv, Put, CanPut
  <2> QED
    BY <1>1, <1>2, <2>1, TotalsPut DEF TotalsInv
<1>3. CASE \E s \in SegIds : DropRemove(s) \/ RelieveOne(s) \/ ReclaimOne(s)
  BY <1>1, <1>3, TotalsRemove
<1>4. CASE CloseEnd \/ Crash \/ PowerLoss
  BY <1>4 DEF CloseEnd, Crash, PowerLoss, Vanish, TotalsInv
<1>5. CASE Open
  BY <1>1, <1>5, TotalsOpen
<1>6. CASE Rotate
  BY <1>1, <1>6, TotalsRotate
<1>7. CASE ~RecordStep /\ ~Rotate
  <2>1. CASE Exact'
    BY <1>1, <1>7, <2>1, TotalsStay, TotalsSame DEF Exact
  <2>2. CASE ~Exact'
    BY <2>2 DEF TotalsInv
  <2> QED
    BY <2>1, <2>2
<1> QED
  BY <1>2, <1>3, <1>4, <1>5, <1>6, <1>7 DEF RecordStep

(* A step after which less, or the same, is recorded, and past no check.     *)
LEMMA LimitsShrink ==
    ASSUME TypeInv, LimitsInv, Exact' => Exact, \A s \in SegIds : Held(s)' \subseteq Held(s),
           lock'.at \notin {"write", "put"}
    PROVE  LimitsInv'
<1>1. Kept' \subseteq Kept /\ Filled' \subseteq Filled
  BY DEF Kept, Filled
<1>2. /\ Cardinality(Kept) \in Nat /\ Cardinality(Kept') \in Nat
      /\ Cardinality(Kept') <= Cardinality(Kept)
  BY <1>1, KeptFinite
<1>3. /\ Cardinality(Filled) \in Nat /\ Cardinality(Filled') \in Nat
      /\ Cardinality(Filled') <= Cardinality(Filled)
  BY <1>1, SegmentsFinite DEF Filled
<1>4. MaxRecords \in Nat /\ MaxSegments \in Nat
  BY WalAssumption
<1> QED
  BY <1>2, <1>3, <1>4 DEF LimitsInv

LEMMA LimitsStay ==
    ASSUME SyncInv, LimitsInv, Exact' => Exact, SameTotals PROVE LimitsInv'
<1>1. \A s \in SegIds : Held(s)' = Held(s)
  BY DEF SameTotals, SameRecords, Held
<1>2. Kept' = Kept /\ Filled' = Filled
  BY <1>1 DEF Kept, Filled
<1>3. Saturated' = Saturated
  BY DEF SameTotals, SameRecords, Saturated, Over, NeedsRotate
<1> QED
  BY <1>2, <1>3 DEF LimitsInv, SameTotals

LEMMA LimitsRotate ==
    ASSUME TypeInv, LimitsInv, Exact' => Exact, Rotate PROVE LimitsInv'
<1>1. /\ lock.at = "write" /\ NeedsRotate /\ lock'.at = "put"
      /\ UNCHANGED <<disk, recs, segs>>
  BY DEF Rotate, Step, usageVars, TypeInv, TypeOK
<1>2. Kept' = Kept /\ Filled' = Filled
  BY <1>1 DEF Kept, Filled, Held
<1> QED
  BY <1>1, <1>2 DEF LimitsInv, Saturated, Over

(* The record was checked for, and the segment too if it takes a new one.    *)
LEMMA LimitsPut ==
    ASSUME TypeInv, TypeInv', SyncInv, TopsInv, KnownInv, TotalsInv, LimitsInv, Exact' => Exact, Put
    PROVE  LimitsInv'
<1> SUFFICES ASSUME Exact, Exact' PROVE LimitsInv'
  BY DEF LimitsInv
<1>1. up # "down" /\ up' = up
  BY DEF SyncInv, OwnerInv, Put, CanPut
<1>2. /\ recs' = recs + 1 /\ Cardinality(Kept') = recs + 1
      /\ segs' = IF lock.at = "put" THEN segs + 1 ELSE segs
      /\ TotalsInv'
  BY <1>1, TotalsPut
<1>3. lock.at = "put" \/ (lock.at = "write" /\ ~NeedsRotate)
  BY DEF Put, CanPut
<1>4. ~Over(recs', MaxRecords) /\ ~Over(segs', MaxSegments)
  <2>1. segs \in Nat /\ segs + 0 = segs
    BY DEF TypeInv, TypeOK
  <2>2. CASE lock.at = "put"
    BY <1>2, <2>2 DEF LimitsInv
  <2>3. CASE lock.at = "write" /\ ~NeedsRotate
    BY <1>2, <2>1, <2>3 DEF LimitsInv, Saturated
  <2> QED
    BY <1>3, <2>2, <2>3
<1>5. Cardinality(Filled') \in Nat /\ Cardinality(Filled') <= segs'
  <2>1. Filled' \subseteq Known' /\ segs' = Cardinality(Known')
    BY <1>1, <1>2 DEF TotalsInv, Filled, Known
  <2>2. Known' \subseteq SegIds
    BY DEF Known
  <2> QED
    BY <2>1, <2>2, SegmentsFinite
<1>6. lock'.at \in {"sync", "relieve"}
  BY DEF Put, Step, TypeInv, TypeOK
<1>7. recs' \in Nat /\ segs' \in Nat /\ MaxRecords \in Nat /\ MaxSegments \in Nat
  BY WalAssumption DEF TypeInv, TypeOK
<1> QED
  BY <1>2, <1>4, <1>5, <1>6, <1>7 DEF LimitsInv, Over

LEMMA LimitsNext ==
    ASSUME LogInv, TypeInv', StrandedInv, TotalsInv, LimitsInv, [Next]_vars PROVE LimitsInv'
<1>1. /\ TypeInv /\ SyncInv /\ TopsInv /\ PlaceInv /\ KnownInv
      /\ Exact' => Exact
  BY ExactBefore DEF LogInv, FrontierInv
<1>2. CASE Put
  BY <1>1, <1>2, LimitsPut
<1>3. ASSUME NEW s \in SegIds, DropRemove(s) \/ RelieveOne(s) \/ ReclaimOne(s) PROVE LimitsInv'
  <2>1. disk' = [disk EXCEPT ![s] = <<>>]
    BY <1>3 DEF DropRemove, RelieveOne, ReclaimOne, Remove
  <2>2. \A t \in SegIds : Held(t)' \subseteq Held(t)
    BY <1>1, <2>1 DEF Held, TypeInv, TypeOK
  <2>3. lock'.at \notin {"write", "put"}
    BY <1>1, <1>3 DEF DropRemove, RelieveOne, Relieving, ReclaimOne, Step, TypeInv, TypeOK
  <2> QED
    BY <1>1, <2>2, <2>3, LimitsShrink
<1>4. CASE CloseEnd \/ Crash \/ PowerLoss
  <2>1. lock'.at \notin {"write", "put"}
    BY <1>4 DEF CloseEnd, Crash, PowerLoss, Vanish, FreeLock
  <2> QED
    BY <1>1, <1>4, <2>1, VanishHeld, LimitsShrink
<1>5. CASE Open
  <2>1. lock'.at \notin {"write", "put"} /\ \A s \in SegIds : Held(s)' = Held(s)
    BY <1>5 DEF Open, Held
  <2> QED
    BY <1>1, <2>1, LimitsShrink
<1>6. CASE Rotate
  BY <1>1, <1>6, LimitsRotate
<1>7. CASE ~RecordStep /\ ~Rotate
  <2>1. CASE Exact'
    BY <1>1, <1>7, <2>1, TotalsStay, LimitsStay DEF Exact
  <2>2. CASE ~Exact'
    BY <2>2 DEF LimitsInv
  <2> QED
    BY <2>1, <2>2
<1> QED
  BY <1>2, <1>3, <1>4, <1>5, <1>6, <1>7 DEF RecordStep

CountInv == LogInv /\ StrandedInv /\ TotalsInv /\ LimitsInv

LEMMA CountInit == Init => CountInv
<1> SUFFICES ASSUME Init PROVE CountInv
  OBVIOUS
<1>1. \A s \in SegIds : Held(s) = {}
  BY DEF Init, Held
<1>2. Kept = {} /\ Filled = {}
  BY <1>1 DEF Kept, Filled
<1>3. Cardinality(Kept) = 0 /\ Cardinality(Filled) = 0
  BY <1>2, FS_EmptySet
<1>4. StrandedInv /\ TotalsInv
  BY DEF Init, StrandedInv, TotalsInv
<1>5. LimitsInv
  BY <1>3, WalAssumption DEF Init, LimitsInv, FreeLock
<1> QED
  BY <1>4, <1>5, LogInit DEF CountInv

LEMMA CountNext == ASSUME CountInv, [Next]_vars PROVE CountInv'
<1>1. LogInv' /\ TypeInv' /\ TypeInv /\ SyncInv
  BY LogNext DEF CountInv, LogInv, FrontierInv
<1> QED
  BY <1>1, StrandedNext, TotalsNext, LimitsNext DEF CountInv

(* What the running totals and the segment table say is what the files hold, *)
(* through appends, rotations, reclaims at every place, drops, crashes and   *)
(* restarts, for any number of each.                                        *)
THEOREM AccountingExactAlways == Spec => []AccountingExact
<1>1. CountInv /\ [Next]_vars => CountInv'
  BY CountNext
<1>2. CountInv => AccountingExact
  <2> SUFFICES ASSUME CountInv, up \in Running, NoStranded, NoRotationLost PROVE AccountingExact
    BY DEF AccountingExact
  <2>1. Exact /\ TotalsInv /\ PlaceInv /\ up # "down" /\ files \subseteq SegIds
    BY DEF CountInv, LogInv, FrontierInv, TypeInv, TypeOK, Exact, Running
  <2>2. Kept = UNION {Held(s) : s \in files}
    BY <2>1 DEF Kept, PlaceInv
  <2>3. Known = {s \in files : meta[s].here}
    BY <2>1 DEF Known, TotalsInv
  <2> QED
    BY <2>1, <2>2, <2>3 DEF TotalsInv, AccountingExact
<1> QED
  BY CountInit, <1>1, <1>2, PTL DEF Spec

(* The limits on records and segments hold for what is really on disk.       *)
THEOREM WithinLimitsAlways == Spec => []WithinLimits
<1>1. CountInv /\ [Next]_vars => CountInv'
  BY CountNext
<1>2. CountInv => WithinLimits
  <2> SUFFICES ASSUME CountInv, NoStranded, NoRotationLost PROVE WithinLimits
    BY DEF WithinLimits
  <2>1. Exact /\ LimitsInv /\ PlaceInv /\ files \subseteq SegIds
    BY DEF CountInv, LogInv, FrontierInv, TypeInv, TypeOK, Exact
  <2>2. Kept = UNION {Held(s) : s \in files} /\ Filled = {s \in files : Held(s) # {}}
    BY <2>1 DEF Kept, Filled, PlaceInv
  <2> QED
    BY <2>1, <2>2 DEF LimitsInv, WithinLimits
<1> QED
  BY CountInit, <1>1, <1>2, PTL DEF Spec
===============================================================================
