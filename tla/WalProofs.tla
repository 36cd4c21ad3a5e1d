------------------------------ MODULE WalProofs -------------------------------
(***************************************************************************)
(* Theorems about Wal for every value of its constants: types, the         *)
(* frontier, and, in the second half, that no unsettled record of the log  *)
(* is lost (NoLoss) and a recovered producer has every one of them in hand *)
(* again (RecoveryComplete).                                               *)
(***************************************************************************)
EXTENDS Wal, FiniteSetTheorems, TLAPS

AppendStages == {"room", "dropremove", "write", "put", "sync", "relieve", "low"}
SharedStages == {"reclaim", "save", "saving"}

Locks == [at : Stages, who : Events \cup {NoEvent}, why : Reasons]
Metas == [SegIds -> [here : BOOLEAN, n : Nat, max : Nat]]
Checkpoints == [ok : BOOLEAN, acked : Nat, seg : Nat]

(* The mutex is held on behalf of an event throughout an append.            *)
LockOK ==
    /\ lock.at \in AppendStages => lock.who \in Events
    /\ lock.at \in SharedStages /\ lock.why \in {"append", "drop"} => lock.who \in Events

(* Recovery reads from an existing position.                                *)
CursorOK == up = "recovering" => cursor.seg \in SegIds /\ cursor.pos \in Nat \ {0}

TypeInv == TypeOK /\ LockOK /\ CursorOK

USE DEF Stages, Reasons, Places, Excuses, AppendStages, SharedStages, Locks, Metas, Checkpoints

LEMMA TypeInit == Init => TypeInv
<1> SUFFICES ASSUME Init PROVE TypeInv
  OBVIOUS
<1> USE DEF Init
<1>1. TypeOK
  <2>1. disk \in [SegIds -> Seq(Events)] /\ synced \in [SegIds -> Nat]
    OBVIOUS
  <2>2. active \in SegIds
    BY WalAssumption DEF SegIds
  <2>3. ckpt \in Checkpoints
    BY DEF TornCheckpoint
  <2>4. cursor \in [seg : 0 .. MaxSeg, pos : Nat]
    BY WalAssumption DEF NoCursor
  <2>5. lock \in Locks
    BY DEF FreeLock
  <2>6. meta \in Metas
    BY DEF NoMeta
  <2> QED
    BY <2>1, <2>2, <2>3, <2>4, <2>5, <2>6 DEF TypeOK
<1>2. LockOK
  BY DEF LockOK, FreeLock
<1>3. CursorOK
  BY DEF CursorOK
<1> QED
  BY <1>1, <1>2, <1>3 DEF TypeInv

LEMMA TypeAddBegin == ASSUME TypeInv, NEW e \in Events, AddBegin(e) PROVE TypeInv'
<1> USE DEF AddBegin, TypeInv
<1>1. nextId' \in Nat
  BY DEF TypeOK
<1>2. idOf' \in [Events -> Nat] /\ pc' \in [Events -> Places]
  BY DEF TypeOK
<1>3. excuse' \in [Events -> Excuses]
  BY DEF TypeOK
<1>4. TypeOK'
  BY <1>1, <1>2, <1>3 DEF TypeOK, diskVars, usageVars, ckptVars
<1> QED
  BY <1>4 DEF LockOK, CursorOK

LEMMA TypeAppendEnter == ASSUME TypeInv, NEW e \in Events, AppendEnter(e) PROVE TypeInv'
  BY DEF AppendEnter, Free, FreeLock, TypeInv, TypeOK, LockOK, CursorOK,
         diskVars, usageVars, ckptVars, addVars, histVars

LEMMA TypeRoomFound == ASSUME TypeInv, RoomFound PROVE TypeInv'
  BY DEF RoomFound, Step, TypeInv, TypeOK, LockOK, CursorOK,
         diskVars, usageVars, ckptVars, addVars, histVars

LEMMA TypeRefuse == ASSUME TypeInv, Refuse PROVE TypeInv'
  BY DEF Refuse, Yield, Release, FreeLock, TypeInv, TypeOK, LockOK, CursorOK,
         diskVars, usageVars, ckptVars, addVars, histVars

LEMMA TypeRotateFails == ASSUME TypeInv, RotateFails PROVE TypeInv'
  BY DEF RotateFails, Fault, Yield, Release, FreeLock, TypeInv, TypeOK, LockOK, CursorOK,
         diskVars, usageVars, ckptVars, addVars, histVars

LEMMA TypeRotate == ASSUME TypeInv, Rotate PROVE TypeInv'
<1> USE DEF Rotate, Step, TypeInv
<1>1. lock' \in Locks
  BY DEF TypeOK, LockOK
<1>2. active \in 1 .. MaxSeg /\ active < MaxSeg /\ active' = active + 1 /\ MaxSeg \in Nat
  BY WalAssumption DEF TypeOK, SegIds
<1>3. active + 1 \in SegIds
  BY ONLY <1>2 DEF SegIds
<1>4. active' \in SegIds /\ files' \subseteq SegIds
  BY <1>3 DEF TypeOK
<1>5. synced' \in [SegIds -> Nat]
  BY DEF TypeOK
<1>6. TypeOK'
  BY <1>1, <1>4, <1>5 DEF TypeOK, diskVars, usageVars, ckptVars, addVars, histVars
<1> QED
  BY <1>6 DEF TypeOK, LockOK, CursorOK

LEMMA TypePutFails == ASSUME TypeInv, PutFails PROVE TypeInv'
  BY DEF PutFails, CanPut, Fault, Yield, Release, FreeLock, TypeInv, TypeOK, LockOK, CursorOK,
         diskVars, usageVars, ckptVars, addVars, histVars

LEMMA TypeAppendDone == ASSUME TypeInv, AppendDone PROVE TypeInv'
  BY DEF AppendDone, Yield, Release, FreeLock, TypeInv, TypeOK, LockOK, CursorOK,
         diskVars, usageVars, ckptVars, addVars, histVars

LEMMA TypeGiveUp == ASSUME TypeInv, NEW e \in Events, GiveUp(e) PROVE TypeInv'
  BY DEF GiveUp, TypeInv, TypeOK, LockOK, CursorOK,
         diskVars, usageVars, ckptVars, addVars, histVars

LEMMA TypeSaveTruncate == ASSUME TypeInv, SaveTruncate PROVE TypeInv'
  BY DEF SaveTruncate, Step, TornCheckpoint, TypeInv, TypeOK, LockOK, CursorOK,
         diskVars, usageVars, ckptVars, addVars, histVars

LEMMA TypePut == ASSUME TypeInv, Put PROVE TypeInv'
<1> USE DEF Put, CanPut, Step, TypeInv
<1>1. lock.who \in Events /\ active \in SegIds
  BY DEF TypeOK, LockOK
<1>2. lock' \in Locks
  BY DEF TypeOK
<1>3. disk' \in [SegIds -> Seq(Events)]
  BY <1>1 DEF TypeOK
<1>4. meta' \in Metas
  <2>1. meta \in Metas /\ idOf[lock.who] \in Nat
    BY <1>1 DEF TypeOK
  <2> QED
    BY <1>1, <2>1
<1>5. recs' \in Nat /\ segs' \in Nat
  <2>1. recs \in Nat /\ segs \in Nat
    BY DEF TypeOK
  <2>2. recs' = recs + 1 /\ segs' \in {1, segs, segs + 1}
    OBVIOUS
  <2> QED
    BY ONLY <2>1, <2>2
<1>6. stored' \subseteq Events
  BY <1>1 DEF TypeOK
<1>7. TypeOK'
  BY <1>2, <1>3, <1>4, <1>5, <1>6
     DEF TypeOK, diskVars, usageVars, ckptVars, addVars, histVars
<1>8. LockOK'
  BY <1>1, <1>2 DEF LockOK, TypeOK
<1>9. CursorOK'
  BY DEF CursorOK
<1> QED
  BY <1>7, <1>8, <1>9

LEMMA TypeSyncAppend == ASSUME TypeInv, SyncAppend PROVE TypeInv'
<1> USE DEF SyncAppend, Step, TypeInv
<1>1. lock' \in Locks
  BY DEF TypeOK
<1>2. synced' \in [SegIds -> Nat]
  BY DEF TypeOK
<1>3. TypeOK'
  BY <1>1, <1>2 DEF TypeOK, diskVars, usageVars, ckptVars, addVars, histVars
<1>4. LockOK'
  BY <1>1 DEF TypeOK, LockOK, diskVars, usageVars, ckptVars, addVars, histVars
<1>5. CursorOK'
  BY DEF CursorOK, diskVars, usageVars, ckptVars, addVars, histVars
<1> QED
  BY <1>3, <1>4, <1>5

LEMMA TypeSyncFails == ASSUME TypeInv, SyncFails PROVE TypeInv'
<1> USE DEF SyncFails, Fault, TypeInv
<1>1. lock' \in Locks
  BY DEF TypeOK
<1>2. faults' \in Nat
  BY DEF TypeOK
<1>3. TypeOK'
  BY <1>1, <1>2 DEF TypeOK, diskVars, usageVars, ckptVars, addVars, histVars
<1> QED
  BY <1>3 DEF TypeOK, LockOK, CursorOK, diskVars, usageVars, ckptVars, addVars, histVars

LEMMA TypeRetry == ASSUME TypeInv, NEW e \in Events, Retry(e) PROVE TypeInv'
<1> USE DEF Retry, TypeInv
<1>1. pc' \in [Events -> Places]
  BY DEF TypeOK
<1>2. TypeOK'
  BY <1>1 DEF TypeOK, diskVars, usageVars, ckptVars, addVars, histVars
<1>3. lock \in Locks
  BY DEF TypeOK
<1>4. LockOK'
  BY <1>3 DEF LockOK
<1>5. CursorOK'
  BY DEF CursorOK, NoCursor, addVars, ckptVars
<1> QED
  BY <1>2, <1>4, <1>5

LEMMA TypeAddReturn == ASSUME TypeInv, NEW e \in Events, AddReturn(e) PROVE TypeInv'
<1> USE DEF AddReturn, TypeInv
<1>1. pc' \in [Events -> Places]
  BY DEF TypeOK
<1>2. accepted' \subseteq Events
  BY DEF TypeOK
<1>3. TypeOK'
  BY <1>1, <1>2 DEF TypeOK, diskVars, usageVars, ckptVars, addVars, histVars
<1> QED
  BY <1>3 DEF TypeOK, LockOK, CursorOK, diskVars, usageVars, ckptVars, addVars, histVars

LEMMA TypeSaveWrite == ASSUME TypeInv, SaveWrite PROVE TypeInv'
<1> USE DEF TypeInv
<1>1. \/ lock.why = "drop" /\ lock' = [lock EXCEPT !.at = "dropremove"]
      \/ lock' = [lock EXCEPT !.at = "reclaim"] \/ lock' = FreeLock
  BY DEF SaveWrite, Release, Step
<1>2. lock \in Locks /\ lock.at = "saving"
  BY DEF TypeOK, SaveWrite
<1>3. lock' \in Locks
  BY <1>1, <1>2 DEF FreeLock
<1>4. ckpt' \in Checkpoints /\ durable' \in Nat
  BY DEF TypeOK, SaveWrite
<1>5. pending' \in BOOLEAN /\ dirty' = FALSE
  BY DEF SaveWrite, TypeOK
<1>6. TypeOK'
  BY <1>3, <1>4, <1>5 DEF TypeOK, SaveWrite, diskVars, usageVars, ckptVars, addVars, histVars
<1>7. LockOK'
  BY <1>1, <1>2 DEF LockOK, FreeLock
<1>8. CursorOK'
  BY DEF CursorOK, SaveWrite
<1> QED
  BY <1>6, <1>7, <1>8

LEMMA TypeSaveFails == ASSUME TypeInv, SaveFails PROVE TypeInv'
<1> USE DEF TypeInv
<1>1. lock' = FreeLock \/ lock' = [lock EXCEPT !.at = "end"]
  BY DEF SaveFails, Yield, Release, Step
<1>2. lock \in Locks
  BY DEF TypeOK
<1>3. lock' \in Locks
  BY <1>1, <1>2 DEF FreeLock
<1>4. pc' \in [Events -> Places]
  BY DEF TypeOK, SaveFails, Yield
<1>5. faults' \in Nat
  BY DEF SaveFails, Fault, TypeOK
<1>6. TypeOK'
  BY <1>3, <1>4, <1>5 DEF TypeOK, SaveFails, diskVars, usageVars, ckptVars, addVars, histVars
<1>7. LockOK'
  BY <1>1, <1>2 DEF LockOK, FreeLock
<1>8. CursorOK'
  BY DEF CursorOK, SaveFails
<1> QED
  BY <1>6, <1>7, <1>8

LEMMA TypeReclaimDone == ASSUME TypeInv, ReclaimDone PROVE TypeInv'
<1> USE DEF TypeInv
<1>1. \/ lock.why = "append" /\ lock' = [lock EXCEPT !.at = "room"]
      \/ lock' = [lock EXCEPT !.at = "end"] \/ lock' = FreeLock
  BY DEF ReclaimDone, Release, Step
<1>2. lock \in Locks /\ lock.at = "reclaim"
  BY DEF TypeOK, ReclaimDone
<1>3. lock' \in Locks
  BY <1>1, <1>2 DEF FreeLock
<1>4. TypeOK'
  BY <1>3 DEF TypeOK, ReclaimDone, diskVars, usageVars, ckptVars, addVars, histVars
<1>5. LockOK'
  BY <1>1, <1>2 DEF LockOK, FreeLock
<1>6. CursorOK'
  BY DEF CursorOK, ReclaimDone
<1> QED
  BY <1>4, <1>5, <1>6

LEMMA TypeFlush == ASSUME TypeInv, Flush PROVE TypeInv'
<1> USE DEF Flush, FlushSync, Free, FreeLock, TypeInv
<1>1. lock' \in Locks
  BY DEF TypeOK
<1>2. synced' \in [SegIds -> Nat]
  BY DEF TypeOK
<1>3. fileDirty' \in BOOLEAN
  BY DEF TypeOK
<1>4. TypeOK'
  BY <1>1, <1>2, <1>3 DEF TypeOK, diskVars, usageVars, ckptVars, addVars, histVars
<1>5. lock \in Locks
  BY DEF TypeOK
<1>6. LockOK'
  BY <1>5 DEF LockOK
<1>7. CursorOK'
  BY DEF CursorOK, NoCursor, addVars, ckptVars
<1> QED
  BY <1>4, <1>6, <1>7

LEMMA TypeCloseBegin == ASSUME TypeInv, CloseBegin PROVE TypeInv'
<1> USE DEF CloseBegin, TypeInv
<1>1. up' \in Running \cup {"down", "stopping"}
  BY DEF Running
<1>2. TypeOK'
  BY <1>1 DEF TypeOK, diskVars, usageVars, ckptVars, addVars, histVars
<1> QED
  BY <1>2 DEF TypeOK, LockOK, CursorOK, diskVars, usageVars, ckptVars, addVars, histVars

LEMMA TypeDestroy == ASSUME TypeInv, Destroy PROVE TypeInv'
<1> USE DEF Destroy, Stop, NoCursor, TypeInv
<1>1. up' \in Running \cup {"down", "stopping"}
  BY DEF Running
<1>2. pc' \in [Events -> Places]
  BY DEF TypeOK
<1>3. cursor' \in [seg : 0 .. MaxSeg, pos : Nat]
  BY WalAssumption DEF TypeOK
<1>4. TypeOK'
  BY <1>1, <1>2, <1>3 DEF TypeOK, diskVars, usageVars, ckptVars, addVars, histVars
<1> QED
  BY <1>4 DEF TypeOK, LockOK, CursorOK, diskVars, usageVars, ckptVars, addVars, histVars

LEMMA TypeCloseFlush == ASSUME TypeInv, CloseFlush PROVE TypeInv'
<1> USE DEF CloseFlush, FlushSync, Free, FreeLock, TypeInv
<1>1. lock' \in Locks
  BY DEF TypeOK
<1>2. synced' \in [SegIds -> Nat]
  BY DEF TypeOK
<1>3. fileDirty' \in BOOLEAN
  BY DEF TypeOK
<1>4. TypeOK'
  BY <1>1, <1>2, <1>3 DEF TypeOK, diskVars, usageVars, ckptVars, addVars, histVars
<1>5. lock \in Locks
  BY DEF TypeOK
<1>6. LockOK'
  BY <1>5 DEF LockOK
<1>7. CursorOK'
  BY DEF CursorOK, NoCursor, addVars, ckptVars
<1> QED
  BY <1>4, <1>6, <1>7

LEMMA TypeFlushSyncFails == ASSUME TypeInv, FlushSyncFails PROVE TypeInv'
<1> USE DEF FlushSyncFails, TypeInv
<1>1. lock' \in Locks
  BY DEF TypeOK
<1>2. faults' \in Nat
  BY DEF Fault, TypeOK
<1>3. TypeOK'
  BY <1>1, <1>2 DEF TypeOK, diskVars, usageVars, ckptVars, addVars, histVars
<1>4. LockOK'
  BY DEF LockOK, Free, FreeLock
<1>5. CursorOK'
  BY DEF CursorOK
<1> QED
  BY <1>3, <1>4, <1>5

LEMMA TypeRemove == ASSUME TypeInv, NEW s \in SegIds, Remove(s)
    PROVE /\ files' \subseteq SegIds
          /\ disk' \in [SegIds -> Seq(Events)]
          /\ synced' \in [SegIds -> Nat]
          /\ meta' \in Metas
          /\ recs' \in Nat /\ segs' \in Nat
          /\ ckpt' \in Checkpoints
<1>1. /\ files' \subseteq SegIds /\ disk' \in [SegIds -> Seq(Events)]
      /\ synced' \in [SegIds -> Nat] /\ meta' \in Metas
  BY DEF Remove, NoMeta, TypeInv, TypeOK
<1>2. recs' \in Nat /\ segs' \in Nat
  BY DEF Remove, Minus, TypeInv, TypeOK
<1>3. ckpt' \in Checkpoints
  BY DEF Remove, TypeInv, TypeOK
<1> QED
  BY <1>1, <1>2, <1>3

LEMMA TypeDropRemove == ASSUME TypeInv, NEW s \in SegIds, DropRemove(s) PROVE TypeInv'
<1> USE DEF DropRemove, Step, TypeInv
<1>1. Remove(s)
  OBVIOUS
<1>2. /\ files' \subseteq SegIds
       /\ disk' \in [SegIds -> Seq(Events)]
       /\ synced' \in [SegIds -> Nat]
       /\ meta' \in Metas
       /\ recs' \in Nat /\ segs' \in Nat
       /\ ckpt' \in Checkpoints
  BY <1>1, TypeRemove
<1>3. lock' \in Locks
  BY DEF TypeOK
<1>4. TypeOK'
  BY <1>1, <1>2, <1>3 DEF TypeOK, diskVars, usageVars, ckptVars, addVars, histVars
<1> QED
  BY <1>4 DEF TypeOK, LockOK, CursorOK, diskVars, usageVars, ckptVars, addVars, histVars

LEMMA TypeRelieveOne == ASSUME TypeInv, NEW s \in SegIds, RelieveOne(s) PROVE TypeInv'
<1> USE DEF RelieveOne, Step, TypeInv
<1>1. Remove(s)
  OBVIOUS
<1>2. /\ files' \subseteq SegIds
       /\ disk' \in [SegIds -> Seq(Events)]
       /\ synced' \in [SegIds -> Nat]
       /\ meta' \in Metas
       /\ recs' \in Nat /\ segs' \in Nat
       /\ ckpt' \in Checkpoints
  BY <1>1, TypeRemove
<1>3. lock' \in Locks
  BY DEF TypeOK
<1>4. TypeOK'
  BY <1>1, <1>2, <1>3 DEF TypeOK, diskVars, usageVars, ckptVars, addVars, histVars
<1>5. lock \in Locks
  BY DEF TypeOK
<1>6. LockOK'
  BY <1>5 DEF LockOK, Relieving
<1>7. CursorOK'
  BY DEF CursorOK, NoCursor, addVars, ckptVars
<1> QED
  BY <1>4, <1>6, <1>7

LEMMA TypeReclaimOne == ASSUME TypeInv, NEW s \in SegIds, ReclaimOne(s) PROVE TypeInv'
<1> USE DEF ReclaimOne, Step, TypeInv
<1>1. Remove(s)
  OBVIOUS
<1>2. /\ files' \subseteq SegIds
       /\ disk' \in [SegIds -> Seq(Events)]
       /\ synced' \in [SegIds -> Nat]
       /\ meta' \in Metas
       /\ recs' \in Nat /\ segs' \in Nat
       /\ ckpt' \in Checkpoints
  BY <1>1, TypeRemove
<1>3. lock' \in Locks
  BY DEF TypeOK
<1>4. TypeOK'
  BY <1>1, <1>2, <1>3 DEF TypeOK, diskVars, usageVars, ckptVars, addVars, histVars
<1> QED
  BY <1>4 DEF TypeOK, LockOK, CursorOK, diskVars, usageVars, ckptVars, addVars, histVars

LEMMA TypeDropOldest == ASSUME TypeInv, NEW s \in SegIds, DropOldest(s) PROVE TypeInv'
<1> USE DEF TypeInv
<1>1. \/ lock' = [lock EXCEPT !.at = "save", !.why = "drop"]
      \/ lock' = [lock EXCEPT !.at = "dropremove"]
  BY DEF DropOldest, Step
<1>2. lock \in Locks /\ lock.who \in Events
  BY DEF TypeOK, LockOK, DropOldest
<1>3. lock' \in Locks /\ lock'.who = lock.who
  BY <1>1, <1>2
<1>4. acked' \in Nat
  <2>1. acked \in Nat /\ meta[s].max \in Nat
    BY DEF TypeOK
  <2>2. acked' = acked \/ acked' = meta[s].max
    BY DEF DropOldest
  <2> QED
    BY <2>1, <2>2
<1>5. lastSeg' \in Nat
  <2>1. lastSeg \in Nat /\ active \in Nat
    BY DEF TypeOK, SegIds
  <2>2. lastSeg' = lastSeg \/ lastSeg' = active
    BY DEF DropOldest
  <2> QED
    BY <2>1, <2>2
<1>6. excuse' \in [Events -> Excuses]
  <2>1. excuse \in [Events -> Excuses]
    BY DEF TypeOK
  <2>2. \/ excuse' = excuse
        \/ excuse' = [e \in Events |-> IF e \in Held(s) /\ e \notin done /\ excuse[e] = "none"
                                       THEN "dropped" ELSE excuse[e]]
    BY DEF DropOldest
  <2> QED
    BY <2>1, <2>2
<1>7. TypeOK'
  BY <1>3, <1>4, <1>5, <1>6
     DEF TypeOK, DropOldest, diskVars, usageVars, ckptVars, addVars, histVars
<1>8. LockOK'
  BY <1>2, <1>3 DEF LockOK
<1>9. CursorOK'
  BY DEF CursorOK, DropOldest
<1> QED
  BY <1>7, <1>8, <1>9

LEMMA TypeSettle ==
    ASSUME TypeInv, NEW lo \in Nat, NEW hi \in Nat, Free, Settle(lo, hi)
    PROVE  /\ acked' \in Nat /\ lastSeg' \in Nat /\ dirty' \in BOOLEAN
           /\ waiting' \subseteq Nat /\ lock' \in Locks
           /\ lock'.at \in {"free", "save"} /\ lock'.why \in {"none", "ack"}
<1>1. /\ acked \in Nat /\ lastSeg \in Nat /\ active \in Nat /\ dirty \in BOOLEAN
      /\ waiting \subseteq Nat /\ lock = FreeLock
  BY DEF TypeInv, TypeOK, Free, SegIds
<1>2. FreeLock \in Locks /\ [at |-> "save", who |-> NoEvent, why |-> "ack"] \in Locks
  BY DEF FreeLock
<1>3. CASE Waits(acked, lo, hi)
  <2>1. waiting' = waiting \cup (lo .. hi) /\ UNCHANGED <<acked, lastSeg, dirty, lock>>
    BY <1>3 DEF Settle
  <2>2. lo .. hi \subseteq Nat
    OBVIOUS
  <2> QED
    BY <1>1, <1>2, <2>1, <2>2 DEF FreeLock
<1>4. CASE ~Waits(acked, lo, hi) /\ hi > acked
  <2>1. PICK m \in Reach(waiting, hi) :
           /\ acked' = m /\ waiting' = waiting \ (1 .. m) /\ lastSeg' = active /\ dirty' = TRUE
           /\ lock' \in {FreeLock, [at |-> "save", who |-> NoEvent, why |-> "ack"]}
    BY <1>4 DEF Settle
  <2>2. m \in Nat
    BY <1>1 DEF Reach
  <2> QED
    BY <1>1, <1>2, <2>1, <2>2 DEF FreeLock
<1>5. CASE ~Waits(acked, lo, hi) /\ ~(hi > acked)
  BY <1>1, <1>2, <1>5 DEF Settle, FreeLock
<1> QED
  BY <1>3, <1>4, <1>5

LEMMA TypeComplete == ASSUME TypeInv, NEW B \in SUBSET Events, Complete(B) PROVE TypeInv'
<1> USE DEF TypeInv
<1>1. PICK lo, hi \in {idOf[e] : e \in B} : Settle(lo, hi)
  BY DEF Complete
<1>2. lo \in Nat /\ hi \in Nat /\ Free
  BY DEF TypeOK, Complete
<1>3. /\ acked' \in Nat /\ lastSeg' \in Nat /\ dirty' \in BOOLEAN
      /\ waiting' \subseteq Nat /\ lock' \in Locks
      /\ lock'.at \in {"free", "save"} /\ lock'.why \in {"none", "ack"}
  BY <1>1, <1>2, TypeSettle
<1>4. pc' \in [Events -> Places]
  BY DEF Complete, TypeOK
<1>5. done' \subseteq Events
  BY DEF Complete, TypeOK
<1>6. TypeOK'
  BY <1>3, <1>4, <1>5 DEF TypeOK, Complete, diskVars, usageVars, ckptVars, addVars, histVars
<1>7. LockOK'
  BY <1>3 DEF LockOK
<1>8. CursorOK'
  BY DEF CursorOK, Complete
<1> QED
  BY <1>6, <1>7, <1>8

(* Where recovery reads there is an event with an id.                       *)
LEMMA TypeAtRecord == ASSUME TypeInv, up = "recovering", AtRecord
    PROVE /\ disk[cursor.seg][cursor.pos] \in Events
          /\ idOf[disk[cursor.seg][cursor.pos]] \in Nat
          /\ [cursor EXCEPT !.pos = @ + 1] \in [seg : SegIds, pos : Nat \ {0}]
<1>1. cursor.seg \in SegIds /\ cursor.pos \in Nat \ {0} /\ disk \in [SegIds -> Seq(Events)]
  BY DEF TypeInv, TypeOK, CursorOK
<1>2. disk[cursor.seg] \in Seq(Events) /\ cursor.pos \in 1 .. Len(disk[cursor.seg])
  BY <1>1 DEF AtRecord
<1>3. disk[cursor.seg][cursor.pos] \in Events
  BY <1>2
<1>4. cursor = [seg |-> cursor.seg, pos |-> cursor.pos] /\ cursor.pos + 1 \in Nat \ {0}
  BY <1>1 DEF TypeInv, TypeOK
<1>5. [cursor EXCEPT !.pos = @ + 1] \in [seg : SegIds, pos : Nat \ {0}]
  BY <1>1, <1>4
<1> QED
  BY <1>3, <1>5 DEF TypeInv, TypeOK

LEMMA TypeRecoverRecord == ASSUME TypeInv, RecoverRecord PROVE TypeInv'
<1> USE DEF TypeInv
<1> DEFINE e == disk[cursor.seg][cursor.pos]
<1>1. e \in Events /\ idOf[e] \in Nat /\ cursor' \in [seg : SegIds, pos : Nat \ {0}]
  BY TypeAtRecord DEF RecoverRecord
<1>2. \/ nextId' = nextId \/ nextId' = idOf[e] + 1
  BY DEF RecoverRecord
<1>3. \/ pc' = pc \/ pc' = [pc EXCEPT ![e] = "queued"]
  BY DEF RecoverRecord
<1> HIDE DEF e
<1>4. nextId' \in Nat /\ pc' \in [Events -> Places]
  <2>1. nextId \in Nat /\ idOf[e] + 1 \in Nat /\ pc \in [Events -> Places]
    BY <1>1 DEF TypeOK
  <2> QED
    BY <1>1, <1>2, <1>3, <2>1
<1>5. cursor' \in [seg : 0 .. MaxSeg, pos : Nat]
  BY <1>1, WalAssumption DEF SegIds
<1>6. UNCHANGED <<diskVars, up, lock, active, fileDirty, usageVars, ckptVars, idOf, waiting,
                  histVars, opens, faults>>
  BY DEF RecoverRecord
<1>7. TypeOK'
  BY <1>4, <1>5, <1>6 DEF TypeOK, diskVars, usageVars, ckptVars, addVars, histVars
<1>8. LockOK'
  BY <1>6 DEF LockOK
<1>9. CursorOK'
  BY <1>1 DEF CursorOK
<1> QED
  BY <1>7, <1>8, <1>9

LEMMA TypeRecoverExpired == ASSUME TypeInv, RecoverExpired PROVE TypeInv'
<1> USE DEF TypeInv
<1> DEFINE e == disk[cursor.seg][cursor.pos]
<1>1. e \in Events /\ idOf[e] \in Nat /\ cursor' \in [seg : SegIds, pos : Nat \ {0}]
  BY TypeAtRecord DEF RecoverExpired
<1>2. /\ Settle(idOf[e], idOf[e]) /\ Free
      /\ done' = done \cup {e} /\ pc' = [pc EXCEPT ![e] = "done"]
      /\ nextId' = IF nextId > idOf[e] THEN nextId ELSE idOf[e] + 1
  BY DEF RecoverExpired
<1> HIDE DEF e
<1>3. /\ acked' \in Nat /\ lastSeg' \in Nat /\ dirty' \in BOOLEAN
      /\ waiting' \subseteq Nat /\ lock' \in Locks
      /\ lock'.at \in {"free", "save"} /\ lock'.why \in {"none", "ack"}
  BY <1>1, <1>2, TypeSettle
<1>4. nextId' \in Nat /\ pc' \in [Events -> Places] /\ done' \subseteq Events
  BY <1>1, <1>2 DEF TypeOK
<1>5. cursor' \in [seg : 0 .. MaxSeg, pos : Nat]
  BY <1>1, WalAssumption DEF SegIds
<1>6. TypeOK'
  BY <1>3, <1>4, <1>5
     DEF TypeOK, RecoverExpired, diskVars, usageVars, ckptVars, addVars, histVars
<1>7. LockOK'
  BY <1>3 DEF LockOK
<1>8. CursorOK'
  BY <1>1 DEF CursorOK
<1> QED
  BY <1>6, <1>7, <1>8

LEMMA TypeRecoverFails == ASSUME TypeInv, RecoverFails PROVE TypeInv'
<1> USE DEF TypeInv
<1>1. up' = "stopping" /\ pc' \in [Events -> Places]
  BY DEF RecoverFails, Stop, TypeOK
<1>2. cursor' \in [seg : 0 .. MaxSeg, pos : Nat]
  BY WalAssumption DEF RecoverFails, Stop, NoCursor
<1>3. UNCHANGED <<diskVars, lock, active, fileDirty, usageVars, ckptVars, nextId, idOf, waiting,
                  histVars, opens, faults>>
  BY DEF RecoverFails
<1>4. TypeOK'
  BY <1>1, <1>2, <1>3 DEF TypeOK, diskVars, usageVars, ckptVars, histVars
<1>5. LockOK'
  BY <1>3 DEF LockOK
<1> QED
  BY <1>1, <1>4, <1>5 DEF CursorOK

LEMMA TypeRecoverNextSegment == ASSUME TypeInv, RecoverNextSegment PROVE TypeInv'
<1> USE DEF TypeInv
<1>1. cursor.seg \in SegIds /\ active \in SegIds
  BY DEF RecoverNextSegment, CursorOK, TypeOK
<1>2. CASE cursor.seg < active
  <2>1. cursor' = [seg |-> cursor.seg + 1, pos |-> 1] /\ up' = up
    BY <1>2 DEF RecoverNextSegment
  <2>2. cursor.seg + 1 \in SegIds
    BY <1>1, <1>2, WalAssumption DEF SegIds
  <2>3. cursor' \in [seg : 0 .. MaxSeg, pos : Nat]
    BY <2>1, <2>2, WalAssumption DEF SegIds
  <2>4. TypeOK'
    BY <2>1, <2>3 DEF TypeOK, RecoverNextSegment, diskVars, usageVars, ckptVars, addVars, histVars
  <2>5. LockOK'
    BY DEF LockOK, RecoverNextSegment
  <2>6. CursorOK'
    BY <2>1, <2>2 DEF CursorOK
  <2> QED
    BY <2>4, <2>5, <2>6
<1>3. CASE ~(cursor.seg < active)
  <2>1. cursor' = NoCursor /\ up' = "open"
    BY <1>3 DEF RecoverNextSegment
  <2>2. cursor' \in [seg : 0 .. MaxSeg, pos : Nat]
    BY <2>1, WalAssumption DEF NoCursor
  <2>3. up' \in Running \cup {"down", "stopping"}
    BY <2>1 DEF Running
  <2>4. TypeOK'
    BY <2>2, <2>3 DEF TypeOK, RecoverNextSegment, diskVars, usageVars, ckptVars, addVars, histVars
  <2>5. LockOK'
    BY DEF LockOK, RecoverNextSegment
  <2> QED
    BY <2>1, <2>4, <2>5 DEF CursorOK
<1> QED
  BY <1>2, <1>3

(* What dies with the process starts again from well-typed values.           *)
LEMMA TypeVanish ==
    ASSUME TypeInv, Vanish,
           disk' \in [SegIds -> Seq(Events)], synced' \in [SegIds -> Nat],
           excuse' \in [Events -> Excuses], faults' \in Nat
    PROVE  TypeInv'
<1> USE DEF TypeInv
<1>1. lock' = FreeLock /\ FreeLock \in Locks
  BY DEF Vanish, FreeLock
<1>2. active' \in SegIds
  BY WalAssumption DEF Vanish, SegIds
<1>3. meta' \in Metas
  BY DEF Vanish, NoMeta
<1>4. pc' \in [Events -> Places]
  BY DEF Vanish
<1>5. cursor' \in [seg : 0 .. MaxSeg, pos : Nat]
  BY WalAssumption DEF Vanish, NoCursor
<1>6. TypeOK'
  BY <1>1, <1>2, <1>3, <1>4, <1>5 DEF TypeOK, Vanish
<1>7. LockOK'
  BY <1>1 DEF LockOK, FreeLock
<1>8. CursorOK'
  BY DEF CursorOK, Vanish
<1> QED
  BY <1>6, <1>7, <1>8

LEMMA TypeCloseEnd == ASSUME TypeInv, CloseEnd PROVE TypeInv'
<1>1. /\ disk' \in [SegIds -> Seq(Events)] /\ synced' \in [SegIds -> Nat]
      /\ excuse' \in [Events -> Excuses] /\ faults' \in Nat
  BY DEF CloseEnd, TypeInv, TypeOK
<1> QED
  BY <1>1, TypeVanish DEF CloseEnd

LEMMA TypeCrash == ASSUME TypeInv, Crash PROVE TypeInv'
<1>1. /\ disk' \in [SegIds -> Seq(Events)] /\ synced' \in [SegIds -> Nat]
      /\ excuse' \in [Events -> Excuses] /\ faults' \in Nat
  BY DEF Crash, TypeInv, TypeOK
<1> QED
  BY <1>1, TypeVanish DEF Crash

LEMMA TypePowerLoss == ASSUME TypeInv, PowerLoss PROVE TypeInv'
<1> USE DEF TypeInv
<1>1. PICK keep \in [SegIds -> 0 .. SegRecords] :
        /\ \A s \in SegIds : keep[s] \in synced[s] .. Len(disk[s])
        /\ disk' = [s \in SegIds |-> SubSeq(disk[s], 1, keep[s])]
        /\ synced' = keep
        /\ excuse' = [e \in Events |->
              IF excuse[e] = "none" /\ OnDisk(e) /\ \A s \in files : e \notin Held(s)'
              THEN "power" ELSE excuse[e]]
  BY DEF PowerLoss
<1>2. \A s \in SegIds : disk[s] \in Seq(Events) /\ synced[s] \in Nat
  BY DEF TypeOK
<1>3. \A s \in SegIds : keep[s] \in Nat /\ keep[s] <= Len(disk[s])
  BY <1>1, <1>2
<1>4. \A s \in SegIds : SubSeq(disk[s], 1, keep[s]) \in Seq(Events)
  BY <1>2, <1>3
<1>5. disk' \in [SegIds -> Seq(Events)]
  BY <1>1, <1>4
<1>6. synced' \in [SegIds -> Nat]
  BY <1>1, <1>3
<1>7. excuse' \in [Events -> Excuses]
  BY <1>1 DEF TypeOK
<1>8. faults' \in Nat
  BY DEF PowerLoss, Fault, TypeOK
<1> QED
  BY <1>5, <1>6, <1>7, <1>8, TypeVanish DEF PowerLoss

LEMMA TypeHighest == ASSUME NEW S \in SUBSET Nat PROVE Highest(S) \in Nat
<1>1. CASE \E x \in S : \A y \in S : y <= x
  BY <1>1 DEF Highest
<1>2. CASE ~\E x \in S : \A y \in S : y <= x
  BY <1>2 DEF Highest
<1> QED
  BY <1>1, <1>2

LEMMA TypeHeld == ASSUME TypeInv, NEW s \in SegIds PROVE Held(s) \in SUBSET Events
<1>1. disk[s] \in Seq(Events)
  BY DEF TypeInv, TypeOK
<1>2. \A i \in 1 .. Len(disk[s]) : disk[s][i] \in Events
  BY <1>1
<1> QED
  BY <1>2 DEF Held

LEMMA TypeScan == ASSUME TypeInv, NEW s \in SegIds
    PROVE Scan(s) \in [here : BOOLEAN, n : Nat, max : Nat]
<1>1. Len(disk[s]) \in Nat
  BY DEF TypeInv, TypeOK
<1>2. {idOf[e] : e \in Held(s)} \in SUBSET Nat
  <2>1. Held(s) \in SUBSET Events /\ idOf \in [Events -> Nat]
    BY TypeHeld DEF TypeInv, TypeOK
  <2> QED
    BY <2>1
<1>3. Highest({idOf[e] : e \in Held(s)}) \in Nat
  BY <1>2, TypeHighest
<1> QED
  BY <1>1, <1>3 DEF Scan

(* An Open resumes at a segment number that can exist.                      *)
LEMMA TypeResumeAt == ASSUME TypeInv, NEW seg PROVE ResumeAt(seg) \subseteq SegIds
<1>1. files \subseteq SegIds /\ 1 \in SegIds
  BY WalAssumption DEF TypeInv, TypeOK, SegIds
<1> QED
  BY <1>1 DEF ResumeAt, LastOfRun

LEMMA SomeSegsFinite == ASSUME NEW S \in SUBSET SegIds PROVE Cardinality(S) \in Nat
<1>1. IsFiniteSet(SegIds)
  BY FS_Interval, WalAssumption DEF SegIds
<1> QED
  BY <1>1, FS_Subset, FS_CardinalityType

LEMMA SomeEventsFinite == ASSUME NEW S \in SUBSET Events PROVE Cardinality(S) \in Nat
  BY WalAssumption, FS_Subset, FS_CardinalityType

LEMMA TypeOpen == ASSUME TypeInv, Open PROVE TypeInv'
<1> USE DEF TypeInv
<1> DEFINE cp == IF ckpt.ok THEN ckpt ELSE TornCheckpoint
<1>1. cp.acked \in Nat /\ cp.seg \in Nat
  BY DEF TypeOK, TornCheckpoint
<1> DEFINE known(a) == {s \in files \cup {a} : s <= a}
           found(a) == UNION {Held(s) : s \in known(a)}
<1>2. /\ ckpt' = [ok |-> TRUE, acked |-> cp.acked, seg |-> cp.seg]
      /\ acked' = cp.acked /\ durable' = cp.acked /\ lastSeg' = cp.seg
      /\ pending' = (cp.acked > 0)
  BY DEF Open
<1>3. PICK a \in ResumeAt(cp.seg) :
        /\ active' = a
        /\ files' = files \cup {a}
        /\ meta' = [s \in SegIds |-> IF s \in known(a) THEN Scan(s) ELSE NoMeta]
        /\ recs' = Cardinality(found(a))
        /\ segs' = Cardinality(known(a))
        /\ excuse' = [e \in Events |-> IF OnDisk(e) /\ e \notin found(a)
                                        THEN "stranded" ELSE excuse[e]]
  BY DEF Open
<1> HIDE DEF cp
<1>4. a \in SegIds
  BY TypeResumeAt
<1>5. known(a) \in SUBSET SegIds
  BY <1>4 DEF TypeOK
<1>6. found(a) \in SUBSET Events
  BY <1>5, TypeHeld
<1> HIDE DEF known, found
<1>7. recs' \in Nat /\ segs' \in Nat
  BY <1>3, <1>5, <1>6, SomeSegsFinite, SomeEventsFinite
<1>8. meta' \in Metas
  <2>1. NoMeta \in [here : BOOLEAN, n : Nat, max : Nat]
    BY DEF NoMeta
  <2> QED
    BY <1>3, <2>1, TypeScan
<1>9. excuse' \in [Events -> Excuses]
  BY <1>3 DEF TypeOK
<1>10. ckpt' \in Checkpoints /\ pending' \in BOOLEAN
  BY <1>1, <1>2
<1>11. active' \in SegIds /\ files' \subseteq SegIds
  BY <1>3, <1>4 DEF TypeOK
<1>12. lock' \in Locks /\ lock'.at = "reclaim" /\ lock'.why = "open"
  BY DEF Open
<1>13. up' = "recovering" /\ up' \in Running
  BY DEF Open, Running
<1>14. cursor' = [seg |-> 1, pos |-> 1] /\ 1 \in SegIds
  BY WalAssumption DEF Open, SegIds
<1>15. cursor' \in [seg : 0 .. MaxSeg, pos : Nat]
  BY <1>14, WalAssumption DEF SegIds
<1>16. opens' \in Nat
  BY DEF Open, TypeOK
<1>17. UNCHANGED <<disk, synced, fileDirty, dirty, addVars, waiting, stored, accepted, done,
                   faults>>
  BY DEF Open
<1>18. TypeOK'
  BY <1>1, <1>2, <1>7, <1>8, <1>9, <1>10, <1>11, <1>12, <1>13, <1>15, <1>16, <1>17
     DEF TypeOK, addVars
<1>19. LockOK'
  BY <1>12 DEF LockOK
<1>20. CursorOK'
  BY <1>14 DEF CursorOK
<1> QED
  BY <1>18, <1>19, <1>20

(* Every step of the log keeps the type invariant.                          *)
LEMMA TypeNext == ASSUME TypeInv, [Next]_vars PROVE TypeInv'
<1>1. ASSUME NEW e \in Events, AddStep(e) PROVE TypeInv'
  BY <1>1, TypeAddBegin, TypeAppendEnter, TypeRetry, TypeAddReturn DEF AddStep
<1>2. ASSUME NEW e \in Events, GiveUp(e) PROVE TypeInv'
  BY <1>2, TypeGiveUp
<1>3. ASSUME NEW B \in SUBSET Events, Complete(B) PROVE TypeInv'
  BY <1>3, TypeComplete
<1>4. ASSUME NEW s \in SegIds, SegmentStep(s) PROVE TypeInv'
  BY <1>4, TypeDropOldest, TypeDropRemove, TypeRelieveOne, TypeReclaimOne DEF SegmentStep
<1>5. CASE AppendStep
  BY <1>5, TypeRoomFound, TypeRefuse, TypeRotate, TypeRotateFails, TypePut, TypePutFails,
     TypeSyncAppend, TypeSyncFails, TypeAppendDone DEF AppendStep
<1>6. CASE SaveStep
  BY <1>6, TypeSaveTruncate, TypeSaveWrite, TypeSaveFails DEF SaveStep
<1>7. CASE LifeStep
  BY <1>7, TypeCloseBegin, TypeDestroy, TypeCloseFlush, TypeFlushSyncFails, TypeCloseEnd,
     TypeCrash, TypePowerLoss, TypeOpen DEF LifeStep
<1>8. CASE RecoverStep
  BY <1>8, TypeRecoverRecord, TypeRecoverExpired, TypeRecoverFails, TypeRecoverNextSegment
     DEF RecoverStep
<1>9. CASE UNCHANGED vars
  BY <1>9 DEF vars, TypeInv, TypeOK, LockOK, CursorOK
<1> QED
  BY <1>1, <1>2, <1>3, <1>4, <1>5, <1>6, <1>7, <1>8, <1>9, TypeReclaimDone, TypeFlush DEF Next

(* The state of the log is well typed whatever the limits, the policy, the   *)
(* events and the faults: the type invariant of Wal holds in every state of  *)
(* every behaviour.                                                         *)
THEOREM TypeCorrect == Spec => []TypeOK
<1>1. Init => TypeInv
  BY TypeInit
<1>2. TypeInv /\ [Next]_vars => TypeInv'
  BY TypeNext
<1>3. TypeInv => TypeOK
  BY DEF TypeInv
<1> QED
  BY <1>1, <1>2, <1>3, PTL DEF Spec

-------------------------------------------------------------------------------
(* The frontier                                                             *)
(*                                                                         *)
(* FrontierTight is not inductive alone: an Open takes the frontier from    *)
(* the checkpoint, which needs that nothing waits while no process runs.    *)
(* FrontierStep needs that what waits has completed, and keeps its id.      *)

WaitingDone == waiting \subseteq {idOf[e] : e \in done}
DoneKeepsId == \A e \in done : pc[e] # "new"
DownIsEmpty == up = "down" => waiting = {}

FrontierInv == TypeInv /\ FrontierTight /\ WaitingDone /\ DoneKeepsId /\ DownIsEmpty

(* A step that leaves the frontier and all ids alone.                       *)
Calm == /\ UNCHANGED <<acked, waiting, done, idOf>>
        /\ \A e \in Events : pc'[e] = "new" => pc[e] = "new"
        /\ up' = "down" => up = "down"

LEMMA CalmKeeps == ASSUME FrontierInv, TypeInv', Calm PROVE FrontierInv' /\ acked' = acked
<1>1. done \subseteq Events
  BY DEF FrontierInv, TypeInv, TypeOK
<1>2. FrontierTight' /\ WaitingDone'
  BY DEF FrontierInv, Calm, FrontierTight, WaitingDone
<1>3. DoneKeepsId'
  BY <1>1 DEF FrontierInv, Calm, DoneKeepsId
<1>4. DownIsEmpty'
  BY DEF FrontierInv, Calm, DownIsEmpty
<1> QED
  BY <1>2, <1>3, <1>4 DEF FrontierInv, Calm

LEMMA CalmAppend == ASSUME TypeInv, AppendStep PROVE Calm
<1> USE DEF TypeInv, TypeOK, Calm, ckptVars, addVars, histVars
<1>1. CASE RoomFound
  BY <1>1 DEF RoomFound
<1>2. CASE Refuse
  BY <1>2 DEF Refuse, Yield
<1>3. CASE Rotate
  BY <1>3 DEF Rotate
<1>4. CASE RotateFails
  BY <1>4 DEF RotateFails, Yield
<1>5. CASE Put
  BY <1>5 DEF Put
<1>6. CASE PutFails
  BY <1>6 DEF PutFails, Yield
<1>7. CASE SyncAppend
  BY <1>7 DEF SyncAppend
<1>8. CASE SyncFails
  BY <1>8 DEF SyncFails
<1>9. CASE AppendDone
  BY <1>9 DEF AppendDone, Yield
<1> QED
  BY <1>1, <1>2, <1>3, <1>4, <1>5, <1>6, <1>7, <1>8, <1>9 DEF AppendStep

LEMMA CalmSave == ASSUME TypeInv, SaveStep PROVE Calm
<1> USE DEF TypeInv, TypeOK, Calm, ckptVars, addVars, histVars
<1>1. CASE SaveTruncate
  BY <1>1 DEF SaveTruncate
<1>2. CASE SaveWrite
  BY <1>2 DEF SaveWrite
<1>3. CASE SaveFails
  BY <1>3 DEF SaveFails, Yield
<1> QED
  BY <1>1, <1>2, <1>3 DEF SaveStep

LEMMA CalmLife ==
    ASSUME TypeInv, ReclaimDone \/ Flush \/ CloseBegin \/ Destroy \/ CloseFlush \/ FlushSyncFails
    PROVE  Calm
<1> USE DEF TypeInv, TypeOK, Calm, ckptVars, addVars, histVars
<1>1. CASE ReclaimDone
  BY <1>1 DEF ReclaimDone
<1>2. CASE Flush
  BY <1>2 DEF Flush, FlushSync
<1>3. CASE CloseBegin
  BY <1>3 DEF CloseBegin
<1>4. CASE Destroy
  BY <1>4 DEF Destroy, Stop
<1>5. CASE CloseFlush
  BY <1>5 DEF CloseFlush, FlushSync
<1>6. CASE FlushSyncFails
  BY <1>6 DEF FlushSyncFails
<1> QED
  BY <1>1, <1>2, <1>3, <1>4, <1>5, <1>6

LEMMA CalmRecover ==
    ASSUME TypeInv, RecoverRecord \/ RecoverFails \/ RecoverNextSegment PROVE Calm
<1> USE DEF TypeInv, TypeOK, Calm, ckptVars, addVars, histVars
<1>1. CASE RecoverRecord
  BY <1>1 DEF RecoverRecord
<1>2. CASE RecoverFails
  BY <1>2 DEF RecoverFails, Stop
<1>3. CASE RecoverNextSegment
  BY <1>3 DEF RecoverNextSegment
<1> QED
  BY <1>1, <1>2, <1>3

LEMMA CalmEvent ==
    ASSUME TypeInv, NEW e \in Events, AppendEnter(e) \/ Retry(e) \/ AddReturn(e) \/ GiveUp(e)
    PROVE  Calm
<1> USE DEF TypeInv, TypeOK, Calm, ckptVars, addVars, histVars
<1>1. CASE AppendEnter(e)
  BY <1>1 DEF AppendEnter
<1>2. CASE Retry(e)
  BY <1>2 DEF Retry
<1>3. CASE AddReturn(e)
  BY <1>3 DEF AddReturn
<1>4. CASE GiveUp(e)
  BY <1>4 DEF GiveUp
<1> QED
  BY <1>1, <1>2, <1>3, <1>4

LEMMA CalmRemove ==
    ASSUME TypeInv, NEW s \in SegIds, DropRemove(s) \/ RelieveOne(s) \/ ReclaimOne(s) PROVE Calm
<1> USE DEF TypeInv, TypeOK, Calm, ckptVars, addVars, histVars
<1>1. CASE DropRemove(s)
  BY <1>1 DEF DropRemove
<1>2. CASE RelieveOne(s)
  BY <1>2 DEF RelieveOne
<1>3. CASE ReclaimOne(s)
  BY <1>3 DEF ReclaimOne
<1> QED
  BY <1>1, <1>2, <1>3

(* Settling the ids lo .. hi carries the frontier over settled ids only and  *)
(* leaves a gap between it and whatever still waits.                        *)
LEMMA SettleAdvances ==
    ASSUME acked \in Nat, waiting \subseteq Nat, NEW lo \in Nat, NEW hi \in Nat,
           NEW D, waiting \subseteq D, lo .. hi \subseteq D, Settle(lo, hi)
    PROVE  /\ acked <= acked' /\ (acked + 1) .. acked' \subseteq D
           /\ waiting' \subseteq D
           /\ (\A id \in waiting : id > acked + 1) => \A id \in waiting' : id > acked' + 1
<1>1. CASE Waits(acked, lo, hi)
  <2>1. waiting' = waiting \cup (lo .. hi) /\ acked' = acked /\ lo > acked + 1
    BY <1>1 DEF Settle, Waits
  <2> QED
    BY <2>1
<1>2. CASE ~Waits(acked, lo, hi) /\ hi > acked
  <2>1. PICK m \in Reach(waiting, hi) : acked' = m /\ waiting' = waiting \ (1 .. m)
    BY <1>2 DEF Settle
  <2>2. m \in Nat /\ m >= hi /\ (hi + 1) .. m \subseteq waiting /\ m + 1 \notin waiting
    BY <2>1 DEF Reach
  <2>3. lo <= acked + 1
    BY <1>2 DEF Waits
  <2>4. (acked + 1) .. m \subseteq D
    <3>1. \A i \in (acked + 1) .. m : i \in lo .. hi \/ i \in (hi + 1) .. m
      BY <2>2, <2>3
    <3> QED
      BY <2>2, <3>1
  <2>5. \A id \in waiting \ (1 .. m) : id > acked => id > m + 1
    BY <1>2, <2>2
  <2>6. ASSUME \A id \in waiting : id > acked + 1 PROVE \A id \in waiting' : id > acked' + 1
    BY <2>1, <2>5, <2>6
  <2> QED
    BY <1>2, <2>1, <2>2, <2>4, <2>6
<1>3. CASE ~Waits(acked, lo, hi) /\ ~(hi > acked)
  <2>1. acked' = acked /\ waiting' = waiting
    BY <1>3 DEF Settle
  <2> QED
    BY <2>1
<1> QED
  BY <1>1, <1>2, <1>3

(* The frontier as FrontierStep sees it.                                    *)
Advances == acked <= acked' /\ (acked + 1) .. acked' \subseteq {idOf[e] : e \in done'}

LEMMA FrontierComplete ==
    ASSUME FrontierInv, TypeInv', NEW B \in SUBSET Events, Complete(B)
    PROVE  FrontierInv' /\ Advances
<1> DEFINE D == {idOf[e] : e \in done'}
<1>1. PICK lo, hi \in {idOf[e] : e \in B} : {idOf[e] : e \in B} = lo .. hi /\ Settle(lo, hi)
  BY DEF Complete, IsBatch
<1>2. acked \in Nat /\ waiting \subseteq Nat /\ lo \in Nat /\ hi \in Nat
  <2>1. \A e \in B : idOf[e] \in Nat
    BY DEF FrontierInv, TypeInv, TypeOK
  <2>2. lo \in Nat /\ hi \in Nat
    BY <2>1, <1>1
  <2> QED
    BY <2>2 DEF FrontierInv, TypeInv, TypeOK
<1>3. done' = done \cup B /\ idOf' = idOf /\ up' = up /\ up # "down"
  BY DEF Complete, Running
<1>4. waiting \subseteq D /\ lo .. hi \subseteq D
  BY <1>1, <1>3 DEF FrontierInv, WaitingDone
<1> HIDE DEF D
<1>5. /\ acked <= acked' /\ (acked + 1) .. acked' \subseteq D /\ waiting' \subseteq D
      /\ (\A id \in waiting : id > acked + 1) => \A id \in waiting' : id > acked' + 1
  BY <1>1, <1>2, <1>4, SettleAdvances
<1>6. FrontierTight'
  BY <1>5 DEF FrontierInv, FrontierTight
<1>7. WaitingDone' /\ Advances
  BY <1>3, <1>5 DEF WaitingDone, Advances, D
<1>8. DoneKeepsId'
  BY <1>3 DEF FrontierInv, DoneKeepsId, Complete, TypeInv, TypeOK
<1>9. DownIsEmpty'
  BY <1>3 DEF DownIsEmpty
<1> QED
  BY <1>6, <1>7, <1>8, <1>9 DEF FrontierInv

LEMMA FrontierExpired ==
    ASSUME FrontierInv, TypeInv', RecoverExpired PROVE FrontierInv' /\ Advances
<1> DEFINE e == disk[cursor.seg][cursor.pos]
           D == {idOf[f] : f \in done'}
<1>1. e \in Events /\ idOf[e] \in Nat
  BY TypeAtRecord DEF RecoverExpired, FrontierInv
<1>2. /\ Settle(idOf[e], idOf[e]) /\ done' = done \cup {e} /\ idOf' = idOf
      /\ pc' = [pc EXCEPT ![e] = "done"] /\ up' = "recovering"
  BY DEF RecoverExpired
<1> HIDE DEF e
<1>3. acked \in Nat /\ waiting \subseteq Nat
  BY DEF FrontierInv, TypeInv, TypeOK
<1>4. waiting \subseteq D /\ idOf[e] .. idOf[e] \subseteq D
  BY <1>1, <1>2 DEF FrontierInv, WaitingDone
<1> HIDE DEF D
<1>5. /\ acked <= acked' /\ (acked + 1) .. acked' \subseteq D /\ waiting' \subseteq D
      /\ (\A id \in waiting : id > acked + 1) => \A id \in waiting' : id > acked' + 1
  BY <1>1, <1>2, <1>3, <1>4, SettleAdvances
<1>6. FrontierTight'
  BY <1>5 DEF FrontierInv, FrontierTight
<1>7. WaitingDone' /\ Advances
  BY <1>2, <1>5 DEF WaitingDone, Advances, D
<1>8. DoneKeepsId'
  BY <1>1, <1>2 DEF FrontierInv, DoneKeepsId, TypeInv, TypeOK
<1>9. DownIsEmpty'
  BY <1>2 DEF DownIsEmpty
<1> QED
  BY <1>6, <1>7, <1>8, <1>9 DEF FrontierInv

LEMMA FrontierAddBegin ==
    ASSUME FrontierInv, TypeInv', NEW e \in Events, AddBegin(e)
    PROVE  FrontierInv' /\ acked' = acked
<1>1. /\ pc[e] = "new" /\ up' = up /\ acked' = acked /\ waiting' = waiting /\ done' = done
      /\ idOf' = [idOf EXCEPT ![e] = nextId] /\ pc' = [pc EXCEPT ![e] = "append"]
  BY DEF AddBegin, ckptVars
<1>2. e \notin done /\ done \subseteq Events
  BY <1>1 DEF FrontierInv, DoneKeepsId, TypeInv, TypeOK
<1>3. \A f \in done : idOf'[f] = idOf[f] /\ pc'[f] = pc[f]
  <2>1. idOf \in [Events -> Nat] /\ pc \in [Events -> Places]
    BY DEF FrontierInv, TypeInv, TypeOK
  <2> QED
    BY <1>1, <1>2, <2>1
<1>4. WaitingDone' /\ DoneKeepsId'
  BY <1>1, <1>3 DEF FrontierInv, WaitingDone, DoneKeepsId
<1> QED
  BY <1>1, <1>4 DEF FrontierInv, FrontierTight, DownIsEmpty

LEMMA FrontierVanish == ASSUME FrontierInv, TypeInv', Vanish PROVE FrontierInv' /\ up' = "down"
<1>1. waiting' = {} /\ done' = done /\ up' = "down"
  BY DEF Vanish
<1>2. DoneKeepsId'
  BY <1>1 DEF Vanish, FrontierInv, DoneKeepsId, TypeInv, TypeOK
<1> QED
  BY <1>1, <1>2 DEF FrontierInv, FrontierTight, WaitingDone, DownIsEmpty

LEMMA FrontierOpen == ASSUME FrontierInv, TypeInv', Open PROVE FrontierInv' /\ up = "down"
<1>1. /\ up = "down" /\ waiting' = waiting /\ waiting = {} /\ done' = done /\ pc' = pc
  BY DEF Open, FrontierInv, DownIsEmpty, addVars
<1> QED
  BY <1>1 DEF FrontierInv, FrontierTight, WaitingDone, DoneKeepsId, DownIsEmpty

LEMMA FrontierDrop ==
    ASSUME FrontierInv, TypeInv', NEW s \in SegIds, DropOldest(s)
    PROVE  FrontierInv' /\ Policy = "drop_oldest"
<1>1. /\ Policy = "drop_oldest" /\ waiting' = waiting /\ done' = done /\ up' = up
      /\ pc' = pc /\ idOf' = idOf
  BY DEF DropOldest, Victim, addVars
<1> QED
  BY <1>1 DEF FrontierInv, FrontierTight, WaitingDone, DoneKeepsId, DownIsEmpty

FrontierMoves ==
    Policy # "drop_oldest" /\ up \in Running /\ up' \in Running => Advances

LEMMA FrontierNext == ASSUME FrontierInv, [Next]_vars PROVE FrontierInv' /\ FrontierMoves
<1>1. TypeInv' /\ TypeInv
  BY TypeNext DEF FrontierInv
<1>2. acked \in Nat
  BY <1>1 DEF TypeInv, TypeOK
<1>3. ASSUME acked' = acked PROVE Advances
  BY <1>2, <1>3 DEF Advances
<1>4. "down" \notin Running
  BY DEF Running
<1>5. ASSUME Calm PROVE FrontierInv' /\ FrontierMoves
  BY <1>1, <1>3, <1>5, CalmKeeps DEF FrontierMoves
<1>6. ASSUME NEW e \in Events, AddStep(e) \/ GiveUp(e) PROVE FrontierInv' /\ FrontierMoves
  <2>1. CASE AddBegin(e)
    BY <1>1, <1>3, <2>1, FrontierAddBegin DEF FrontierMoves
  <2> QED
    BY <1>1, <1>5, <1>6, <2>1, CalmEvent DEF AddStep
<1>7. ASSUME NEW B \in SUBSET Events, Complete(B) PROVE FrontierInv' /\ FrontierMoves
  BY <1>1, <1>7, FrontierComplete DEF FrontierMoves
<1>8. ASSUME NEW s \in SegIds, SegmentStep(s) PROVE FrontierInv' /\ FrontierMoves
  <2>1. CASE DropOldest(s)
    BY <1>1, <2>1, FrontierDrop DEF FrontierMoves
  <2> QED
    BY <1>1, <1>5, <1>8, <2>1, CalmRemove DEF SegmentStep
<1>9. ASSUME Vanish PROVE FrontierInv' /\ FrontierMoves
  BY <1>1, <1>4, <1>9, FrontierVanish DEF FrontierMoves
<1>10. CASE LifeStep
  <2>1. CASE Open
    BY <1>1, <1>4, <2>1, FrontierOpen DEF FrontierMoves
  <2>2. CASE CloseEnd \/ Crash \/ PowerLoss
    BY <1>9, <2>2 DEF CloseEnd, Crash, PowerLoss
  <2> QED
    BY <1>1, <1>5, <1>10, <2>1, <2>2, CalmLife DEF LifeStep
<1>11. CASE RecoverStep
  <2>1. CASE RecoverExpired
    BY <1>1, <2>1, FrontierExpired DEF FrontierMoves
  <2> QED
    BY <1>1, <1>5, <1>11, <2>1, CalmRecover DEF RecoverStep
<1>12. CASE UNCHANGED vars
  BY <1>5, <1>12 DEF vars, Calm
<1>13. CASE AppendStep \/ SaveStep \/ ReclaimDone \/ Flush
  BY <1>1, <1>5, <1>13, CalmAppend, CalmSave, CalmLife
<1> QED
  BY <1>6, <1>7, <1>8, <1>10, <1>11, <1>12, <1>13 DEF Next

LEMMA FrontierInit == Init => FrontierInv
<1> SUFFICES ASSUME Init PROVE FrontierInv
  OBVIOUS
<1>1. waiting = {} /\ done = {}
  BY DEF Init
<1> QED
  BY <1>1, TypeInit DEF FrontierInv, FrontierTight, WaitingDone, DoneKeepsId, DownIsEmpty

(* Between the frontier and whatever waits beyond it there is always a gap,  *)
(* for every number of events and every order in which batches complete, the *)
(* process crashes and the directory is opened again: a completed id is      *)
(* never left behind a frontier that has reached it.                        *)
THEOREM FrontierTightAlways == Spec => []FrontierTight
<1>1. FrontierInv /\ [Next]_vars => FrontierInv'
  BY FrontierNext
<1>2. FrontierInv => FrontierTight
  BY DEF FrontierInv
<1> QED
  BY <1>1, <1>2, FrontierInit, PTL DEF Spec

(* While a process runs, the frontier only grows, and only over ids of       *)
(* events that are done: no add, completion, save or recovery makes it skip  *)
(* an id whose fate is open.                                                *)
THEOREM FrontierStepAlways == Spec => FrontierStep
<1>1. FrontierInv /\ [Next]_vars => FrontierInv'
  BY FrontierNext
<1>2. FrontierInv /\ [Next]_vars => [FrontierMoves]_vars
  BY FrontierNext
<1>3. [FrontierMoves]_vars <=> [Policy # "drop_oldest" /\ up \in Running /\ up' \in Running =>
         acked <= acked' /\ (acked + 1) .. acked' \subseteq {idOf[e] : e \in done'}]_vars
  BY DEF FrontierMoves, Advances
<1> QED
  BY <1>1, <1>2, <1>3, FrontierInit, PTL DEF Spec, FrontierStep

--------------------------------------------------------------------------------
(* Nothing unsettled is lost *)


(* The mutex is free while no process runs, is not held by an append before   *)
(* recovery is over, only by an add that is under way, and past the write the *)
(* holder is recorded.  (Only drop_oldest has the stages that drop a segment.) *)
RecoverStages == {"free", "reclaim", "save", "saving", "end"}
HolderInv ==
    /\ up = "down" => lock.at = "free"
    /\ lock.at # "dropremove" /\ lock.why # "drop"
    /\ up = "recovering" => lock.at \in RecoverStages /\ lock.why # "append"
    /\ lock.who \in Events => pc[lock.who] \notin {"new", "out"}
    /\ lock.at \in {"sync", "relieve", "low"} => lock.who \in stored

(* What is on its way to the send pipeline is recorded, what is new is not.  *)
StoredInv ==
    /\ \A e \in Events : pc[e] \in {"appended", "queued"} => e \in stored
    /\ \A e \in stored : pc[e] # "new"
    /\ done \subseteq stored
    /\ \A s \in SegIds : Held(s) \subseteq stored

(* The three notions of the frontier: what has been saved is never ahead of  *)
(* what is known to be saved, nor that ahead of the frontier in memory.     *)
OrderInv ==
    /\ up = "down" => acked = 0
    /\ up # "down" => active \in files /\ durable <= acked /\ (ckpt.ok => ckpt.acked <= acked)
    /\ nextId > 0
    /\ \A e \in Events : pc[e] # "new" => idOf[e] > 0

(* Every set of events has one with the highest id.                         *)
TopsInv == \A S \in SUBSET Events : S # {} => \E m \in S : \A f \in S : idOf[f] <= idOf[m]

(* An event whose outcome is open, whether its record is written yet or not. *)
Pending(e) == pc[e] # "new" /\ e \notin done /\ excuse[e] = "none" /\ ~Twin(e)

(* The frontier, in memory and on disk, is below every pending event...      *)
AheadInv ==
    \A e \in Events : Pending(e) => acked < idOf[e] /\ (ckpt.ok => ckpt.acked < idOf[e])

(* ... and the table knows the highest id of the segment that records it, so *)
(* that the segment cannot be reclaimed.                                    *)
At(e, s) == e \in Held(s) /\ (up # "down" => idOf[e] <= meta[s].max)
LocatedInv == \A e \in stored : Pending(e) => \E s \in files : At(e, s)

LossInv == HolderInv /\ StoredInv /\ OrderInv /\ TopsInv /\ AheadInv /\ LocatedInv

USE DEF Locks, Stages, Reasons, Places, RecoverStages

-------------------------------------------------------------------------------
(* Steps that change none of what the records and the frontiers are *)

Passive ==
    /\ UNCHANGED <<disk, meta, acked, durable, idOf, stored, done, excuse>>
    /\ files \subseteq files' /\ active' \in files'
    /\ ckpt' = ckpt \/ ~ckpt'.ok
    /\ nextId' >= nextId
    /\ \A e \in Events : pc'[e] = "new" <=> pc[e] = "new"
    /\ \A e \in Events : pc'[e] \in {"appended", "queued"} => e \in stored
    /\ \A e \in Events : pc'[e] = "out" => pc[e] = "out"
    /\ up # "down" /\ up' # "down"

LEMMA PassiveKeeps ==
    ASSUME TypeInv, TypeInv', StoredInv, OrderInv, TopsInv, AheadInv, LocatedInv, Passive
    PROVE  StoredInv' /\ OrderInv' /\ TopsInv' /\ AheadInv' /\ LocatedInv'
<1> USE DEF Passive
<1>1. /\ stored \subseteq Events /\ nextId \in Nat /\ nextId' \in Nat
      /\ acked \in Nat /\ durable \in Nat /\ idOf \in [Events -> Nat]
  BY DEF TypeInv, TypeOK
<1>2. OrderInv'
  BY <1>1 DEF OrderInv
<1>3. TopsInv'
  BY DEF TopsInv
<1>4. \A e \in Events : Pending(e)' <=> Pending(e)
  BY DEF Pending, Twin
<1>5. AheadInv'
  BY <1>4 DEF AheadInv
<1>6. \A e, s : At(e, s) => At(e, s)'
  BY DEF At, Held
<1>7. LocatedInv'
  BY <1>1, <1>4, <1>6 DEF LocatedInv
<1>8. StoredInv'
  BY <1>1 DEF StoredInv, Held
<1> QED
  BY <1>2, <1>3, <1>5, <1>7, <1>8

LEMMA PassiveAppend ==
    ASSUME TypeInv, TypeInv', HolderInv, StoredInv, OrderInv, Policy # "drop_oldest",
           RoomFound \/ Refuse \/ Rotate \/ RotateFails \/ PutFails \/ SyncAppend \/ SyncFails
              \/ AppendDone
    PROVE  Passive /\ HolderInv'
<1>1. /\ pc \in [Events -> Places] /\ lock \in Locks /\ stored \subseteq Events
      /\ nextId \in Nat /\ idOf \in [Events -> Nat] /\ NoEvent \notin Events
  BY WalAssumption DEF TypeInv, TypeOK
<1> USE <1>1 DEF Passive, HolderInv, StoredInv, OrderInv, diskVars, usageVars, ckptVars, addVars, histVars
<1>2. CASE RoomFound
  BY <1>2 DEF RoomFound, Step
<1>3. CASE Refuse
  BY <1>3 DEF Refuse, Yield, Release, FreeLock
<1>4. CASE Rotate
  BY <1>4 DEF Rotate, Step
<1>5. CASE RotateFails
  BY <1>5 DEF RotateFails, Yield, Release, FreeLock
<1>6. CASE PutFails
  BY <1>6 DEF PutFails, CanPut, Yield, Release, FreeLock
<1>7. CASE SyncAppend
  BY <1>7 DEF SyncAppend, Step
<1>8. CASE SyncFails
  BY <1>8 DEF SyncFails
<1>9. CASE AppendDone
  BY <1>9 DEF AppendDone, Yield, Release, FreeLock
<1> QED
  BY <1>2, <1>3, <1>4, <1>5, <1>6, <1>7, <1>8, <1>9

LEMMA PassiveEvent ==
    ASSUME TypeInv, TypeInv', HolderInv, StoredInv, OrderInv, Policy # "drop_oldest",
           NEW e \in Events, AppendEnter(e) \/ Retry(e) \/ AddReturn(e) \/ GiveUp(e)
    PROVE  Passive /\ HolderInv'
<1>1. /\ pc \in [Events -> Places] /\ lock \in Locks /\ stored \subseteq Events
      /\ nextId \in Nat /\ idOf \in [Events -> Nat] /\ NoEvent \notin Events
  BY WalAssumption DEF TypeInv, TypeOK
<1> USE <1>1 DEF Passive, HolderInv, StoredInv, OrderInv, diskVars, usageVars, ckptVars, addVars, histVars
<1>2. CASE AppendEnter(e)
  BY <1>2 DEF AppendEnter, Free, FreeLock
<1>3. CASE Retry(e)
  BY <1>3 DEF Retry
<1>4. CASE AddReturn(e)
  BY <1>4 DEF AddReturn
<1>5. CASE GiveUp(e)
  BY <1>5 DEF GiveUp, Running
<1> QED
  BY <1>2, <1>3, <1>4, <1>5

LEMMA PassiveLife ==
    ASSUME TypeInv, TypeInv', HolderInv, StoredInv, OrderInv, Policy # "drop_oldest",
           SaveTruncate \/ SaveFails \/ ReclaimDone \/ Flush \/ CloseBegin \/ Destroy \/ CloseFlush
              \/ FlushSyncFails
    PROVE  Passive /\ HolderInv'
<1>1. /\ pc \in [Events -> Places] /\ lock \in Locks /\ stored \subseteq Events
      /\ nextId \in Nat /\ idOf \in [Events -> Nat] /\ NoEvent \notin Events
  BY WalAssumption DEF TypeInv, TypeOK
<1> USE <1>1 DEF Passive, HolderInv, StoredInv, OrderInv, diskVars, usageVars, ckptVars, addVars, histVars
<1>2. CASE SaveTruncate
  BY <1>2 DEF SaveTruncate, Step, TornCheckpoint
<1>3. CASE SaveFails
  BY <1>3 DEF SaveFails, Step, Release, FreeLock
<1>4. CASE ReclaimDone
  BY <1>4 DEF ReclaimDone, Step, Release, FreeLock
<1>5. CASE Flush
  BY <1>5 DEF Flush, FlushSync, Free, FreeLock
<1>6. CASE CloseBegin
  BY <1>6 DEF CloseBegin
<1>7. CASE Destroy
  BY <1>7 DEF Destroy, Stop
<1>8. CASE CloseFlush
  BY <1>8 DEF CloseFlush, FlushSync, Free, FreeLock
<1>9. CASE FlushSyncFails
  BY <1>9 DEF FlushSyncFails, Free, FreeLock
<1> QED
  BY <1>2, <1>3, <1>4, <1>5, <1>6, <1>7, <1>8, <1>9

LEMMA PassiveRecover ==
    ASSUME TypeInv, TypeInv', HolderInv, StoredInv, OrderInv, Policy # "drop_oldest",
           RecoverRecord \/ RecoverFails \/ RecoverNextSegment
    PROVE  Passive /\ HolderInv'
<1>1. /\ pc \in [Events -> Places] /\ lock \in Locks /\ stored \subseteq Events
      /\ nextId \in Nat /\ idOf \in [Events -> Nat] /\ NoEvent \notin Events
  BY WalAssumption DEF TypeInv, TypeOK
<1> USE <1>1 DEF Passive, HolderInv, StoredInv, OrderInv, diskVars, usageVars, ckptVars, addVars, histVars
<1>2. CASE RecoverRecord
  <2> DEFINE e == disk[cursor.seg][cursor.pos]
  <2>1. e \in Events /\ e \in stored
    <3>1. cursor.seg \in SegIds /\ cursor.pos \in Nat \ {0} /\ e \in Events
      BY <1>2, TypeAtRecord DEF RecoverRecord, TypeInv, CursorOK
    <3>2. cursor.pos <= Len(disk[cursor.seg]) /\ disk[cursor.seg] \in Seq(Events)
      BY <1>2, <3>1 DEF RecoverRecord, AtRecord, TypeInv, TypeOK
    <3>3. cursor.pos \in 1 .. Len(disk[cursor.seg])
      BY <3>1, <3>2
    <3>4. e \in Held(cursor.seg)
      BY <3>3 DEF Held
    <3> QED
      BY <3>1, <3>4
  <2> QED
    BY <1>2, <2>1 DEF RecoverRecord
<1>3. CASE RecoverFails
  BY <1>3 DEF RecoverFails, Stop
<1>4. CASE RecoverNextSegment
  BY <1>4 DEF RecoverNextSegment
<1> QED
  BY <1>2, <1>3, <1>4

-------------------------------------------------------------------------------
(* The other steps of a running process *)

LEMMA HeldEvents == ASSUME TypeInv, NEW s \in SegIds PROVE Held(s) \subseteq Events
  BY TypeHeld

(* A segment goes only if its highest id is at or below durable, and with it *)
(* at or below the frontier: it holds no pending event.                     *)
LEMMA LossRemove ==
    ASSUME TypeInv, TypeInv', LossInv, Policy # "drop_oldest",
           NEW s \in SegIds, RelieveOne(s) \/ ReclaimOne(s)
    PROVE  LossInv'
<1> USE DEF LossInv, TypeInv
<1>1. /\ Remove(s) /\ meta[s].max <= durable /\ s # active /\ lock.at # "free"
      /\ UNCHANGED <<up, active, acked, durable, nextId, pc, idOf, stored, done, excuse>>
      /\ lock' = lock \/ (lock' = [lock EXCEPT !.at = "low"] /\ lock.at \in {"relieve", "low"})
  <2>1. Reclaimable(s) /\ Remove(s) /\ UNCHANGED <<up, active, ckptVars, addVars, histVars>>
    BY DEF RelieveOne, ReclaimOne, Relieving
  <2>2. meta[s].max <= durable /\ s # active
    <3>1. s < active /\ meta[s].max \in 1 .. durable
      BY <2>1 DEF Reclaimable, Oldest
    <3>2. s \in Int /\ active \in Int /\ durable \in Int
      BY DEF TypeOK, SegIds
    <3> QED
      BY <3>1, <3>2
  <2>3. /\ lock.at # "free"
        /\ lock' = lock \/ (lock' = [lock EXCEPT !.at = "low"] /\ lock.at \in {"relieve", "low"})
    BY DEF RelieveOne, ReclaimOne, Relieving, Step
  <2> QED
    BY <2>1, <2>2, <2>3 DEF ckptVars, addVars, histVars
<1>2. /\ files' = files \ {s} /\ ckpt' = ckpt /\ up # "down"
      /\ \A t \in SegIds \ {s} : disk'[t] = disk[t] /\ meta'[t] = meta[t]
      /\ disk'[s] = <<>>
  BY <1>1 DEF Remove, HolderInv, TypeOK
<1>3. HolderInv'
  BY <1>1 DEF HolderInv, TypeOK
<1>4. Held(s)' = {} /\ \A t \in SegIds \ {s} : Held(t)' = Held(t)
  BY <1>2 DEF Held
<1>5. StoredInv'
  BY <1>1, <1>4 DEF StoredInv
<1>6. OrderInv' /\ TopsInv'
  BY <1>1, <1>2 DEF OrderInv, TopsInv
<1>7. \A e \in Events : Pending(e)' <=> Pending(e)
  BY <1>1 DEF Pending, Twin
<1>8. AheadInv'
  BY <1>1, <1>2, <1>7 DEF AheadInv
<1>9. ASSUME NEW e \in stored, Pending(e) PROVE \E t \in files' : At(e, t)'
  <2>1. PICK t \in files : At(e, t)
    BY <1>9 DEF LocatedInv
  <2>2. e \in Events /\ idOf[e] \in Nat /\ t \in SegIds /\ acked \in Nat /\ durable \in Nat
        /\ meta[s].max \in Nat
    BY DEF TypeOK
  <2>3. t # s
    BY <1>1, <1>2, <1>9, <2>1, <2>2 DEF At, AheadInv, OrderInv
  <2> QED
    BY <1>1, <1>2, <1>4, <2>1, <2>2, <2>3 DEF At
<1>10. LocatedInv'
  BY <1>1, <1>7, <1>9 DEF LocatedInv, TypeOK
<1> QED
  BY <1>3, <1>5, <1>6, <1>8, <1>10

LEMMA HeldAppend ==
    ASSUME TypeInv, NEW e \in Events, NEW a \in SegIds,
           disk' = [disk EXCEPT ![a] = Append(@, e)]
    PROVE  \A s \in SegIds : Held(s)' = IF s = a THEN Held(s) \cup {e} ELSE Held(s)
<1>1. disk \in [SegIds -> Seq(Events)]
  BY DEF TypeInv, TypeOK
<1>2. ASSUME NEW s \in SegIds \ {a} PROVE Held(s)' = Held(s)
  BY <1>1 DEF Held
<1>3. /\ disk'[a] = Append(disk[a], e) /\ Len(disk'[a]) = Len(disk[a]) + 1
      /\ disk'[a][Len(disk[a]) + 1] = e /\ Len(disk[a]) \in Nat
      /\ \A i \in 1 .. Len(disk[a]) : disk'[a][i] = disk[a][i]
  BY <1>1
<1>4. Held(a)' = Held(a) \cup {e}
  BY <1>3 DEF Held
<1> QED
  BY <1>2, <1>4

(* A record is written to the active segment, and the table is raised to its id. *)
LEMMA LossPut ==
    ASSUME TypeInv, TypeInv', LossInv, Put
    PROVE  LossInv'
<1> USE DEF LossInv, TypeInv
<1> DEFINE e == lock.who
<1>1. /\ e \in Events /\ lock \in Locks /\ lock.at \in {"write", "put"}
      /\ meta \in Metas /\ active \in SegIds
      /\ idOf \in [Events -> Nat]
  BY DEF Put, CanPut, LockOK, TypeOK, AppendStages, Metas
<1>2. /\ disk' = [disk EXCEPT ![active] = Append(@, e)]
      /\ meta' = [meta EXCEPT ![active] =
                     [here |-> TRUE, n |-> meta[active].n + 1,
                      max |-> IF idOf[e] > meta[active].max THEN idOf[e] ELSE meta[active].max]]
      /\ stored' = stored \cup {e}
      /\ lock' = [lock EXCEPT !.at = IF SyncWal THEN "sync" ELSE "relieve"]
      /\ UNCHANGED <<files, ckpt, up, active, acked, durable, nextId, pc, idOf, done, excuse>>
  BY DEF Put, Step, ckptVars, addVars
<1>3. pc[e] \notin {"new", "out"} /\ up # "down" /\ up # "recovering" /\ active \in files
  BY <1>1 DEF HolderInv, OrderInv
<1>4. HolderInv'
  BY <1>1, <1>2, <1>3 DEF HolderInv
<1>5. \A s \in SegIds : Held(s)' = IF s = active THEN Held(s) \cup {e} ELSE Held(s)
  BY <1>1, <1>2, HeldAppend
<1>6. /\ \A s \in SegIds : meta[s].max \in Nat /\ meta'[s].max >= meta[s].max
      /\ meta'[active].max >= idOf[e]
  BY <1>1, <1>2 DEF Metas
<1> HIDE DEF e
<1>7. StoredInv'
  BY <1>1, <1>2, <1>3, <1>5 DEF StoredInv
<1>8. OrderInv' /\ TopsInv'
  BY <1>2 DEF OrderInv, TopsInv
<1>9. \A f \in Events : Pending(f)' => Pending(f)
  BY <1>2 DEF Pending, Twin
<1>10. AheadInv'
  BY <1>2, <1>9 DEF AheadInv
<1>11. ASSUME NEW f \in stored', Pending(f)' PROVE \E t \in files' : At(f, t)'
  <2>1. CASE f = e
    <3>1. PICK t \in SegIds : t = active
      BY <1>1
    <3>2. f \in Held(t)' /\ idOf'[f] <= meta'[t].max
      BY <1>1, <1>2, <1>5, <1>6, <2>1, <3>1 DEF TypeOK
    <3>3. t \in files'
      BY <1>2, <1>3, <3>1
    <3> QED
      BY <3>2, <3>3 DEF At
  <2>2. CASE f # e
    <3>1. f \in stored /\ f \in Events
      BY <1>2, <2>2 DEF TypeOK
    <3>2. PICK t \in files : At(f, t)
      BY <1>9, <1>11, <3>1 DEF LocatedInv
    <3>3. t \in SegIds /\ idOf[f] \in Nat
      BY <3>1 DEF TypeOK
    <3>4. idOf'[f] <= meta'[t].max
      <4>1. meta'[t].max \in Nat
        BY <3>3 DEF TypeOK
      <4> QED
        BY <1>2, <1>3, <1>6, <3>2, <3>3, <4>1 DEF At
    <3>5. f \in Held(t)'
      <4>1. f \in Held(t)
        BY <3>2 DEF At
      <4> QED
        BY <1>5, <2>2, <3>3, <4>1
    <3> QED
      BY <1>2, <3>2, <3>4, <3>5 DEF At
  <2> QED
    BY <2>1, <2>2
<1>12. LocatedInv'
  BY <1>11 DEF LocatedInv
<1> QED
  BY <1>4, <1>7, <1>8, <1>10, <1>12

(* A new id leaves every set of events with a highest id.                    *)
LEMMA TopsAddBegin ==
    ASSUME TypeInv, TopsInv, NEW e \in Events, AddBegin(e) PROVE TopsInv'
<1>1. idOf' = [idOf EXCEPT ![e] = nextId] /\ idOf \in [Events -> Nat] /\ nextId \in Nat
  BY DEF AddBegin, TypeInv, TypeOK
<1>2. idOf'[e] = nextId /\ \A f \in Events \ {e} : idOf'[f] = idOf[f]
  BY <1>1
<1> SUFFICES ASSUME NEW S \in SUBSET Events, S # {}
             PROVE  \E m \in S : \A f \in S : idOf'[f] <= idOf'[m]
  BY DEF TopsInv
<1>3. CASE S = {e}
  BY <1>1, <1>2, <1>3
<1>4. CASE S # {e}
  <2>1. PICK m \in S \ {e} : \A f \in S \ {e} : idOf[f] <= idOf[m]
    BY <1>4 DEF TopsInv
  <2>2. CASE e \in S /\ idOf[m] <= nextId
    BY <1>1, <1>2, <2>1, <2>2
  <2>3. CASE ~(e \in S /\ idOf[m] <= nextId)
    BY <1>1, <1>2, <2>1, <2>3
  <2> QED
    BY <2>2, <2>3
<1> QED
  BY <1>3, <1>4

(* A new event gets an id beyond the frontier, or is excused as stale.      *)
LEMMA LossAddBegin ==
    ASSUME TypeInv, TypeInv', LossInv, NEW e \in Events, AddBegin(e)
    PROVE  LossInv'
<1> USE DEF LossInv, TypeInv
<1>1. /\ up = "open" /\ pc[e] = "new" /\ nextId' = nextId + 1
      /\ idOf' = [idOf EXCEPT ![e] = nextId] /\ pc' = [pc EXCEPT ![e] = "append"]
      /\ excuse' = [excuse EXCEPT ![e] = IF nextId <= acked THEN "stale" ELSE "none"]
      /\ UNCHANGED <<files, disk, ckpt, up, lock, active, meta, acked, durable, stored, done>>
  BY DEF AddBegin, diskVars, usageVars, ckptVars
<1>2. /\ pc \in [Events -> Places] /\ idOf \in [Events -> Nat] /\ excuse \in [Events -> Excuses]
      /\ nextId \in Nat /\ acked \in Nat /\ stored \subseteq Events /\ done \subseteq Events
      /\ ckpt \in Checkpoints
  BY DEF TypeOK, Checkpoints
<1>3. e \notin stored /\ nextId > 0
  BY <1>1 DEF StoredInv, OrderInv
<1>4. \A f \in Events \ {e} : idOf'[f] = idOf[f] /\ excuse'[f] = excuse[f] /\ pc'[f] = pc[f]
  BY <1>1, <1>2
<1>5. pc'[e] = "append" /\ idOf'[e] = nextId
  BY <1>1, <1>2
<1>6. HolderInv'
  BY <1>1, <1>4, <1>5 DEF HolderInv
<1>7. StoredInv'
  BY <1>1, <1>2, <1>4, <1>5 DEF StoredInv, Held
<1>8. OrderInv'
  BY <1>1, <1>2, <1>3, <1>4, <1>5 DEF OrderInv
<1>9. TopsInv'
  BY <1>1, TopsAddBegin
<1>10. \A f \in Events \ {e} : Pending(f)' <=> Pending(f)
  BY <1>1, <1>2, <1>3, <1>4 DEF Pending, Twin
<1>11. Pending(e)' => acked < nextId /\ (ckpt.ok => ckpt.acked < nextId)
  <2>1. ckpt.ok => ckpt.acked <= acked
    BY <1>1 DEF OrderInv
  <2>2. Pending(e)' => ~(nextId <= acked)
    BY <1>1, <1>2 DEF Pending
  <2>3. ckpt.acked \in Nat
    BY <1>2 DEF Checkpoints
  <2> QED
    BY <1>2, <2>1, <2>2, <2>3
<1>12. AheadInv'
  BY <1>1, <1>4, <1>5, <1>10, <1>11 DEF AheadInv
<1>13. LocatedInv'
  <2>1. \A s : Held(s)' = Held(s)
    BY <1>1 DEF Held
  <2>2. ASSUME NEW f \in stored, Pending(f)' PROVE \E s \in files : At(f, s)'
    <3>1. f \in Events \ {e}
      BY <1>2, <1>3
    <3>2. PICK s \in files : At(f, s)
      BY <1>10, <2>2, <3>1 DEF LocatedInv
    <3>3. At(f, s)'
      BY <1>1, <1>4, <2>1, <3>1, <3>2 DEF At
    <3> QED
      BY <3>2, <3>3
  <2> QED
    BY <1>1, <2>2 DEF LocatedInv
<1> QED
  BY <1>6, <1>7, <1>8, <1>9, <1>12, <1>13

(* The frontier moves over ids of events that are done: an event that still  *)
(* waits and has one of these ids has a twin.                               *)
LEMMA LossAdvance ==
    ASSUME TypeInv, TypeInv', LossInv, Advances, done \subseteq done', done' \subseteq stored,
           UNCHANGED <<files, disk, ckpt, active, meta, durable, idOf, stored, excuse>>,
           up # "down", up' # "down", nextId' >= nextId,
           \A e \in Events : pc'[e] = pc[e] \/ (e \in done' /\ pc'[e] = "done"), HolderInv'
    PROVE  LossInv'
<1> USE DEF LossInv, TypeInv
<1>1. /\ acked \in Nat /\ acked' \in Nat /\ durable \in Nat /\ idOf \in [Events -> Nat]
      /\ nextId \in Nat /\ nextId' \in Nat /\ ckpt \in Checkpoints /\ stored \subseteq Events
  BY DEF TypeOK, Checkpoints
<1>2. acked <= acked' /\ \A i \in Nat : acked < i /\ i <= acked' => \E f \in done' : idOf[f] = i
  BY <1>1 DEF Advances
<1>3. \A e \in Events : pc'[e] = "new" <=> pc[e] = "new"
  BY DEF StoredInv
<1>4. StoredInv'
  BY <1>1, <1>3 DEF StoredInv, Held
<1>5. OrderInv' /\ TopsInv'
  <2>1. durable <= acked' /\ (ckpt.ok => ckpt.acked <= acked')
    BY <1>1, <1>2 DEF OrderInv, Checkpoints
  <2> QED
    BY <1>1, <1>3, <2>1 DEF OrderInv, TopsInv
<1>6. \A e \in Events : Pending(e)' => Pending(e) /\ e \notin done'
  BY <1>3 DEF Pending, Twin
<1>7. ASSUME NEW e \in Events, Pending(e)' PROVE acked' < idOf[e]
  <2>1. acked < idOf[e] /\ e \notin done' /\ ~Twin(e)
    BY <1>6, <1>7 DEF AheadInv, Pending
  <2>2. ~\E f \in done' : idOf[f] = idOf[e]
    BY <2>1 DEF Twin
  <2> QED
    BY <1>1, <1>2, <2>1, <2>2
<1>8. AheadInv'
  BY <1>6, <1>7 DEF AheadInv
<1>9. LocatedInv'
  BY <1>1, <1>6 DEF LocatedInv, At, Held
<1> QED
  BY <1>4, <1>5, <1>8, <1>9

LEMMA LossComplete ==
    ASSUME FrontierInv, TypeInv', LossInv, NEW B \in SUBSET Events, Complete(B)
    PROVE  LossInv'
<1>1. TypeInv /\ Advances
  BY FrontierComplete DEF FrontierInv
<1>2. /\ \A e \in B : pc[e] = "queued"
      /\ up # "down" /\ up' = up /\ done' = done \cup B
      /\ pc' = [e \in Events |-> IF e \in B THEN "done" ELSE pc[e]]
      /\ UNCHANGED <<files, disk, ckpt, active, meta, durable, nextId, idOf, stored, excuse>>
      /\ lock.at = "free" /\ lock.who = NoEvent /\ lock.why = "none"
  BY DEF Complete, Running, Free, FreeLock, diskVars, usageVars
<1>3. lock' = lock \/ lock' = FreeLock \/ lock' = [at |-> "save", who |-> NoEvent, why |-> "ack"]
  BY DEF Complete, Settle
<1>4. HolderInv'
  BY <1>2, <1>3, WalAssumption DEF HolderInv, LossInv, FreeLock
<1>5. B \subseteq stored /\ done \subseteq stored
  BY <1>2 DEF LossInv, StoredInv
<1>6. nextId' >= nextId
  BY <1>1, <1>2 DEF TypeInv, TypeOK
<1> QED
  BY <1>1, <1>2, <1>4, <1>5, <1>6, LossAdvance

LEMMA LossExpired ==
    ASSUME FrontierInv, TypeInv', LossInv, RecoverExpired PROVE LossInv'
<1> DEFINE e == disk[cursor.seg][cursor.pos]
<1>1. TypeInv /\ Advances
  BY FrontierExpired DEF FrontierInv
<1>2. e \in Events /\ e \in stored
  <2>1. cursor.seg \in SegIds /\ cursor.pos \in Nat \ {0} /\ e \in Events
    BY <1>1, TypeAtRecord DEF RecoverExpired, TypeInv, CursorOK
  <2>2. cursor.pos <= Len(disk[cursor.seg]) /\ disk[cursor.seg] \in Seq(Events)
    BY <1>1, <2>1 DEF RecoverExpired, AtRecord, TypeInv, TypeOK
  <2>3. cursor.pos \in 1 .. Len(disk[cursor.seg])
    BY <2>1, <2>2
  <2>4. e \in Held(cursor.seg)
    BY <2>3 DEF Held
  <2> QED
    BY <2>1, <2>4 DEF LossInv, StoredInv
<1>3. /\ up = "recovering" /\ up' = up /\ done' = done \cup {e}
      /\ pc' = [pc EXCEPT ![e] = "done"] /\ pc \in [Events -> Places]
      /\ nextId' = IF nextId > idOf[e] THEN nextId ELSE idOf[e] + 1
      /\ UNCHANGED <<files, disk, ckpt, active, meta, durable, idOf, stored, excuse>>
      /\ lock.at = "free" /\ lock.who = NoEvent /\ lock.why = "none"
      /\ lock' = lock \/ lock' = FreeLock \/ lock' = [at |-> "save", who |-> NoEvent, why |-> "ack"]
  BY <1>1 DEF RecoverExpired, Settle, Free, FreeLock, diskVars, usageVars, TypeInv, TypeOK
<1> HIDE DEF e
<1>4. HolderInv'
  BY <1>3, WalAssumption DEF HolderInv, LossInv, FreeLock
<1>5. done' \subseteq stored
  BY <1>2, <1>3 DEF LossInv, StoredInv
<1>6. nextId' >= nextId
  BY <1>1, <1>2, <1>3 DEF TypeInv, TypeOK
<1> QED
  BY <1>1, <1>2, <1>3, <1>4, <1>5, <1>6, LossAdvance

LEMMA LossSaveWrite ==
    ASSUME TypeInv, TypeInv', LossInv, SaveWrite PROVE LossInv'
<1> USE DEF LossInv, TypeInv
<1>1. /\ ckpt' = [ok |-> TRUE, acked |-> acked, seg |-> lastSeg] /\ durable' = acked
      /\ UNCHANGED <<files, disk, up, active, meta, acked, nextId, pc, idOf, stored, done, excuse>>
      /\ lock.at = "saving"
  BY DEF SaveWrite, usageVars, addVars, histVars
<1>2. acked \in Nat
  BY DEF TypeOK
<1>3. HolderInv'
  <2>1. lock' = FreeLock \/ lock' = [lock EXCEPT !.at = "reclaim"]
    BY DEF SaveWrite, HolderInv, Step, Release
  <2>2. lock \in Locks /\ up # "down"
    BY <1>1 DEF TypeOK, HolderInv
  <2> QED
    BY <1>1, <2>1, <2>2, WalAssumption DEF HolderInv, FreeLock
<1>4. StoredInv' /\ TopsInv' /\ OrderInv'
  BY <1>1, <1>2 DEF StoredInv, TopsInv, OrderInv, Held
<1>5. \A e \in Events : Pending(e)' <=> Pending(e)
  BY <1>1 DEF Pending, Twin
<1>6. AheadInv'
  BY <1>1, <1>5 DEF AheadInv
<1>7. LocatedInv'
  BY <1>1, <1>5 DEF LocatedInv, At, Held, TypeOK
<1> QED
  BY <1>3, <1>4, <1>6, <1>7

-------------------------------------------------------------------------------
(* The end of a process, and the next one *)

(* What happens to the disk when the process ends takes records away only    *)
(* with an excuse.                                                          *)
LEMMA LossVanish ==
    ASSUME TypeInv, TypeInv', LossInv, Vanish,
           \A s \in SegIds : Held(s)' \subseteq Held(s),
           \A e \in Events : excuse'[e] = "none" => excuse[e] = "none",
           \A e \in Events : excuse'[e] = "none" /\ OnDisk(e) => \E s \in files : e \in Held(s)'
    PROVE  LossInv'
<1> USE DEF LossInv, TypeInv
<1>1. /\ up' = "down" /\ lock' = FreeLock /\ acked' = 0 /\ nextId' = 1
      /\ pc' = [e \in Events |-> IF pc[e] = "new" THEN "new" ELSE "out"]
      /\ UNCHANGED <<files, ckpt, idOf, stored, done>>
  BY DEF Vanish
<1>2. stored \subseteq Events /\ files \subseteq SegIds /\ idOf \in [Events -> Nat]
  BY DEF TypeOK
<1>3. HolderInv'
  BY <1>1, WalAssumption DEF HolderInv, FreeLock
<1>4. StoredInv'
  BY <1>1, <1>2 DEF StoredInv
<1>5. OrderInv' /\ TopsInv'
  BY <1>1 DEF OrderInv, TopsInv
<1>6. \A e \in Events : Pending(e)' => Pending(e)
  BY <1>1 DEF Pending, Twin
<1>7. AheadInv'
  BY <1>1, <1>2, <1>6 DEF AheadInv, OrderInv, Pending
<1>8. ASSUME NEW e \in stored, Pending(e)' PROVE \E s \in files : e \in Held(s)'
  <2>1. OnDisk(e)
    BY <1>2, <1>6, <1>8 DEF LocatedInv, At, OnDisk
  <2> QED
    BY <1>2, <1>8, <2>1 DEF Pending
<1>9. LocatedInv'
  BY <1>1, <1>8 DEF LocatedInv, At
<1> QED
  BY <1>3, <1>4, <1>5, <1>7, <1>9

LEMMA LossCrash ==
    ASSUME TypeInv, TypeInv', LossInv, CloseEnd \/ Crash PROVE LossInv'
<1>1. Vanish /\ disk' = disk /\ excuse' = excuse
  BY DEF CloseEnd, Crash
<1>2. \A s \in SegIds : Held(s)' = Held(s)
  BY <1>1 DEF Held
<1>3. \A e \in Events : OnDisk(e) => \E s \in files : e \in Held(s)'
  BY <1>2 DEF OnDisk, TypeInv, TypeOK
<1> QED
  BY <1>1, <1>2, <1>3, LossVanish

LEMMA LossPower ==
    ASSUME TypeInv, TypeInv', LossInv, PowerLoss PROVE LossInv'
<1>1. Vanish
  BY DEF PowerLoss
<1>2. PICK keep \in [SegIds -> 0 .. SegRecords] :
         /\ \A s \in SegIds : keep[s] \in synced[s] .. Len(disk[s])
         /\ disk' = [s \in SegIds |-> SubSeq(disk[s], 1, keep[s])]
         /\ excuse' = [e \in Events |->
               IF excuse[e] = "none" /\ OnDisk(e) /\ \A s \in files : e \notin Held(s)'
               THEN "power" ELSE excuse[e]]
  BY DEF PowerLoss
<1>3. ASSUME NEW s \in SegIds PROVE Held(s)' \subseteq Held(s)
  <2>1. disk[s] \in Seq(Events) /\ keep[s] \in Nat /\ synced[s] \in Nat
    BY WalAssumption DEF TypeInv, TypeOK
  <2>2. keep[s] <= Len(disk[s]) /\ Len(disk[s]) \in Nat
    BY <1>2, <2>1
  <2>3. disk'[s] = SubSeq(disk[s], 1, keep[s])
    BY <1>2
  <2>4. Len(disk'[s]) = keep[s] /\ \A i \in 1 .. keep[s] : disk'[s][i] = disk[s][i]
    BY <2>1, <2>2, <2>3
  <2>5. 1 .. Len(disk'[s]) \subseteq 1 .. Len(disk[s])
    BY <2>1, <2>2, <2>4
  <2> QED
    BY <2>4, <2>5 DEF Held
<1>4. \A e \in Events : excuse'[e] = "none" => excuse[e] = "none"
  BY <1>2
<1>5. \A e \in Events : excuse'[e] = "none" /\ OnDisk(e) => \E s \in files : e \in Held(s)'
  BY <1>2
<1> QED
  BY <1>1, <1>3, <1>4, <1>5, LossVanish

(* The highest id a scan finds in a segment is one.                         *)
LEMMA ScanBounds ==
    ASSUME TypeInv, TopsInv, NEW s \in SegIds, NEW e \in Held(s)
    PROVE  idOf[e] <= Scan(s).max
<1> DEFINE S == {idOf[f] : f \in Held(s)}
<1>1. Held(s) \in SUBSET Events
  BY TypeHeld
<1>2. PICK m \in Held(s) : \A f \in Held(s) : idOf[f] <= idOf[m]
  BY <1>1 DEF TopsInv
<1>3. \E x \in S : \A y \in S : y <= x
  BY <1>2
<1>4. \A y \in S : y <= Highest(S)
  BY <1>3 DEF Highest
<1> QED
  BY <1>4 DEF Scan

(* An opening reads every segment that records a pending event, or excuses it. *)
LEMMA LossOpen ==
    ASSUME TypeInv, TypeInv', LossInv, Open PROVE LossInv'
<1> USE DEF LossInv, TypeInv
<1> DEFINE cp == IF ckpt.ok THEN ckpt ELSE TornCheckpoint
<1>1. /\ up = "down" /\ up' = "recovering"
      /\ ckpt' = [ok |-> TRUE, acked |-> cp.acked, seg |-> cp.seg]
      /\ acked' = cp.acked /\ durable' = cp.acked
      /\ lock' = [at |-> "reclaim", who |-> NoEvent, why |-> "open"]
      /\ UNCHANGED <<disk, nextId, pc, idOf, stored, done>>
  BY DEF Open, addVars
<1>2. PICK a \in ResumeAt(cp.seg) :
        LET known == {s \in files \cup {a} : s <= a}
            found == UNION {Held(s) : s \in known}
        IN  /\ active' = a /\ files' = files \cup {a}
            /\ meta' = [s \in SegIds |-> IF s \in known THEN Scan(s) ELSE NoMeta]
            /\ excuse' = [e \in Events |-> IF OnDisk(e) /\ e \notin found
                                            THEN "stranded" ELSE excuse[e]]
  BY DEF Open
<1> DEFINE known == {s \in files \cup {a} : s <= a}
           found == UNION {Held(s) : s \in known}
<1>3. /\ active' = a /\ files' = files \cup {a} /\ known \subseteq files' /\ known \subseteq SegIds
      /\ meta' = [s \in SegIds |-> IF s \in known THEN Scan(s) ELSE NoMeta]
      /\ \A e \in Events : excuse'[e] = "none" => excuse[e] = "none" /\ (OnDisk(e) => e \in found)
  <2>1. a \in SegIds /\ files \subseteq SegIds
    BY TypeResumeAt DEF TypeOK
  <2> QED
    BY <1>2, <2>1
<1>4. cp.acked \in Nat /\ stored \subseteq Events /\ idOf \in [Events -> Nat]
  BY DEF TypeOK, TornCheckpoint
<1>5. ckpt'.ok /\ ckpt'.acked = cp.acked /\ ((cp = ckpt /\ ckpt.ok) \/ cp.acked = 0)
  BY <1>1 DEF TornCheckpoint
<1> HIDE DEF cp, known, found
<1>6. HolderInv'
  BY <1>1, WalAssumption DEF HolderInv
<1>7. StoredInv' /\ TopsInv'
  BY <1>1 DEF StoredInv, TopsInv, Held
<1>8. OrderInv'
  BY <1>1, <1>3, <1>4, <1>5 DEF OrderInv
<1>9. \A e \in Events : Pending(e)' => Pending(e)
  BY <1>1, <1>3 DEF Pending, Twin
<1>10. AheadInv'
  BY <1>1, <1>4, <1>5, <1>9 DEF AheadInv, OrderInv, Pending
<1>11. ASSUME NEW e \in stored, Pending(e)' PROVE \E s \in files' : At(e, s)'
  <2>1. OnDisk(e) /\ e \in Events
    BY <1>4, <1>9, <1>11 DEF LocatedInv, At, OnDisk
  <2>2. PICK s \in known : e \in Held(s)
    BY <1>3, <1>11, <2>1 DEF Pending, found
  <2>3. s \in SegIds /\ s \in files' /\ e \in Held(s)'
    BY <1>1, <1>3, <2>2 DEF Held
  <2>4. idOf[e] <= meta'[s].max
    BY <1>3, <2>2, <2>3, ScanBounds
  <2> QED
    BY <1>1, <2>3, <2>4 DEF At
<1>12. LocatedInv'
  BY <1>1, <1>11 DEF LocatedInv
<1> QED
  BY <1>6, <1>7, <1>8, <1>10, <1>12

-------------------------------------------------------------------------------
LEMMA LossInit == Init => LossInv
<1> SUFFICES ASSUME Init PROVE LossInv
  OBVIOUS
<1>1. HolderInv
  BY WalAssumption DEF Init, HolderInv, FreeLock
<1>2. StoredInv
  <2>1. \A s \in SegIds : disk[s] = <<>>
    BY DEF Init
  <2>2. \A s \in SegIds : Held(s) = {}
    BY <2>1 DEF Held
  <2> QED
    BY <2>2 DEF Init, StoredInv
<1>3. OrderInv /\ TopsInv
  BY DEF Init, OrderInv, TopsInv
<1>4. AheadInv /\ LocatedInv
  BY DEF Init, AheadInv, LocatedInv, Pending
<1> QED
  BY <1>1, <1>2, <1>3, <1>4 DEF LossInv

LEMMA LossNext ==
    ASSUME FrontierInv, LossInv, Policy # "drop_oldest", [Next]_vars PROVE LossInv'
<1>1. TypeInv /\ TypeInv'
  BY TypeNext DEF FrontierInv
<1>2. ASSUME Passive /\ HolderInv' PROVE LossInv'
  BY <1>1, <1>2, PassiveKeeps DEF LossInv
<1>3. HolderInv /\ StoredInv /\ OrderInv
  BY DEF LossInv
<1>4. ASSUME NEW e \in Events, AddStep(e) \/ GiveUp(e) PROVE LossInv'
  <2>1. CASE AddBegin(e)
    BY <1>1, <2>1, LossAddBegin
  <2> QED
    BY <1>1, <1>2, <1>3, <1>4, <2>1, PassiveEvent DEF AddStep
<1>5. ASSUME NEW B \in SUBSET Events, Complete(B) PROVE LossInv'
  BY <1>1, <1>5, LossComplete
<1>6. ASSUME NEW s \in SegIds, SegmentStep(s) PROVE LossInv'
  <2>1. ~DropOldest(s) /\ ~DropRemove(s)
    BY <1>3 DEF DropOldest, Victim, DropRemove, HolderInv
  <2> QED
    BY <1>1, <1>6, <2>1, LossRemove DEF SegmentStep
<1>7. CASE AppendStep
  <2>1. CASE Put
    BY <1>1, <2>1, LossPut
  <2> QED
    BY <1>1, <1>2, <1>3, <1>7, <2>1, PassiveAppend DEF AppendStep
<1>8. CASE SaveStep \/ ReclaimDone \/ Flush
  <2>1. CASE SaveWrite
    BY <1>1, <2>1, LossSaveWrite
  <2> QED
    BY <1>1, <1>2, <1>3, <1>8, <2>1, PassiveLife DEF SaveStep
<1>9. CASE LifeStep
  <2>1. CASE Open
    BY <1>1, <2>1, LossOpen
  <2>2. CASE CloseEnd \/ Crash
    BY <1>1, <2>2, LossCrash
  <2>3. CASE PowerLoss
    BY <1>1, <2>3, LossPower
  <2> QED
    BY <1>1, <1>2, <1>3, <1>9, <2>1, <2>2, <2>3, PassiveLife DEF LifeStep
<1>10. CASE RecoverStep
  <2>1. CASE RecoverExpired
    BY <1>1, <2>1, LossExpired
  <2> QED
    BY <1>1, <1>2, <1>3, <1>10, <2>1, PassiveRecover DEF RecoverStep
<1>11. CASE UNCHANGED vars
  BY <1>11 DEF vars, LossInv, HolderInv, StoredInv, OrderInv, TopsInv, AheadInv, LocatedInv,
               Pending, Twin, At, Held
<1> QED
  BY <1>4, <1>5, <1>6, <1>7, <1>8, <1>9, <1>10, <1>11 DEF Next

(* No crash, power loss, failing file operation, concurrent append, early or  *)
(* late result, checkpoint save or reclaim ever costs a record whose outcome  *)
(* is open and that nothing excuses: its segment exists, and neither the      *)
(* frontier in memory nor the one on disk has reached its id.  Any number of  *)
(* events, openings and faults, any limits, watermarks and segment size.      *)
THEOREM NoLossAlways == Spec => []NoLoss
<1> DEFINE Kept == Policy # "drop_oldest" => LossInv
           Inv == FrontierInv /\ Kept
<1>1. Init => Inv
  BY FrontierInit, LossInit
<1>2. Inv /\ [Next]_vars => Inv'
  <2> SUFFICES ASSUME Inv, [Next]_vars PROVE Inv'
    OBVIOUS
  <2>1. FrontierInv'
    BY FrontierNext
  <2>2. CASE Policy # "drop_oldest"
    BY <2>1, <2>2, LossNext
  <2> QED
    BY <2>1, <2>2
<1>3. Inv => NoLoss
  <2> SUFFICES ASSUME Inv, Policy # "drop_oldest", NEW e \in Events, Protected(e)
               PROVE  OnDisk(e) /\ acked < idOf[e] /\ (ckpt.ok => ckpt.acked < idOf[e])
    BY DEF NoLoss
  <2>1. e \in stored /\ Pending(e)
    BY DEF Protected, Pending, LossInv, StoredInv
  <2> QED
    BY <2>1 DEF LossInv, AheadInv, LocatedInv, At, OnDisk
<1> HIDE DEF Inv
<1> QED
  BY <1>1, <1>2, <1>3, PTL DEF Spec

-------------------------------------------------------------------------------
(* Recovery: a recovered producer has every unsettled record in hand again.  *)
USE DEF Stages, Reasons, Places, AppendStages, RecoverStages

(* A recorded event of an earlier process whose outcome is open.             *)
Lost(e) == e \in stored /\ Pending(e) /\ pc[e] = "out"

(* Its record lies at or past the place where recovery reads next, in a      *)
(* segment recovery gets to and whose highest id the table knows.           *)
ToCome(s, i) == s <= active /\ (cursor.seg < s \/ (cursor.seg = s /\ cursor.pos <= i))
Unread(e) == \E s \in files : \E i \in 1 .. Len(disk[s]) :
                disk[s][i] = e /\ idOf[e] <= meta[s].max /\ ToCome(s, i)

RecoveredInv ==
    \A e \in Events : Lost(e) =>
        up \notin {"open", "closing"} /\ (up = "recovering" => Unread(e))

-------------------------------------------------------------------------------
(* Outside recovery it is enough that no event is lost anew, and that a      *)
(* producer does not become open.                                           *)
NoneLost == \A e \in Events : Lost(e)' => Lost(e)
Elsewhere == up' # "recovering" /\ (up' \in {"open", "closing"} => up \in {"open", "closing"})

LEMMA RecoveredElsewhere ==
    ASSUME RecoveredInv, NoneLost, Elsewhere PROVE RecoveredInv'
  BY DEF RecoveredInv, NoneLost, Elsewhere

(* During recovery, that the records and the cursor stay where they are.     *)
Parked == /\ UNCHANGED <<disk, meta, idOf, active, cursor>>
          /\ files \subseteq files' /\ up = "recovering" /\ up' = "recovering"

LEMMA RecoveredParked == ASSUME RecoveredInv, NoneLost, Parked PROVE RecoveredInv'
  BY DEF RecoveredInv, NoneLost, Parked, Unread, ToCome

LEMMA PassiveLost == ASSUME Passive PROVE NoneLost
  BY DEF Passive, NoneLost, Lost, Pending, Twin

(* The passive steps but those that read the log.                           *)
LEMMA RecoveredPassive ==
    ASSUME TypeInv, HolderInv, Passive, RecoveredInv,
           AppendStep \/ SaveTruncate \/ SaveFails \/ ReclaimDone \/ Flush \/ CloseBegin
              \/ Destroy \/ CloseFlush \/ FlushSyncFails \/ RecoverFails
              \/ \E e \in Events : AddStep(e) \/ GiveUp(e)
    PROVE  RecoveredInv'
<1> USE DEF Passive
<1>1. CASE AppendStep
  <2>1. up # "recovering" /\ up' = up
    BY <1>1 DEF AppendStep, RoomFound, Refuse, Rotate, RotateFails, Put, PutFails, CanPut, SyncAppend,
          SyncFails, AppendDone, HolderInv
  <2> QED
    BY <2>1, PassiveLost, RecoveredElsewhere DEF Elsewhere
<1>2. CASE SaveTruncate \/ SaveFails \/ ReclaimDone \/ Flush \/ FlushSyncFails
  <2>1. up' = up /\ UNCHANGED <<active, cursor>>
    BY <1>2 DEF SaveTruncate, SaveFails, ReclaimDone, Flush, FlushSync, FlushSyncFails
  <2> QED
    BY <2>1, PassiveLost, RecoveredElsewhere, RecoveredParked DEF Elsewhere, Parked
<1>3. CASE CloseBegin \/ Destroy \/ CloseFlush \/ RecoverFails
  <2>1. Elsewhere
    BY <1>3 DEF CloseBegin, Destroy, CloseFlush, FlushSync, RecoverFails, Stop, Elsewhere
  <2> QED
    BY <2>1, PassiveLost, RecoveredElsewhere
<1>4. ASSUME NEW e \in Events, AddStep(e) \/ GiveUp(e) PROVE RecoveredInv'
  <2>1. up' = up /\ UNCHANGED <<active, cursor>>
    BY <1>4 DEF AddStep, AddBegin, AppendEnter, Retry, AddReturn, GiveUp
  <2> QED
    BY <2>1, PassiveLost, RecoveredElsewhere, RecoveredParked DEF Elsewhere, Parked
<1> QED
  BY <1>1, <1>2, <1>3, <1>4

-------------------------------------------------------------------------------
(* The steps that write, complete or remove *)

LEMMA RecoveredAddBegin ==
    ASSUME TypeInv, LossInv, RecoveredInv, NEW e \in Events, AddBegin(e) PROVE RecoveredInv'
<1>1. /\ up' = up /\ up = "open" /\ stored' = stored /\ done' = done /\ e \notin stored
      /\ pc' = [pc EXCEPT ![e] = "append"] /\ pc \in [Events -> Places]
      /\ idOf \in [Events -> Nat] /\ excuse \in [Events -> Excuses] /\ stored \subseteq Events
      /\ \A f \in Events \ {e} : idOf'[f] = idOf[f] /\ excuse'[f] = excuse[f] /\ pc'[f] = pc[f]
  BY DEF AddBegin, LossInv, StoredInv, TypeInv, TypeOK
<1>2. NoneLost
  BY <1>1 DEF NoneLost, Lost, Pending, Twin
<1> QED
  BY <1>1, <1>2, RecoveredElsewhere DEF Elsewhere

LEMMA RecoveredPut ==
    ASSUME TypeInv, LossInv, RecoveredInv, Put PROVE RecoveredInv'
<1>1. /\ up' = up /\ up # "recovering" /\ stored' = stored \cup {lock.who}
      /\ pc[lock.who] # "out" /\ UNCHANGED <<pc, idOf, done, excuse>>
  BY DEF Put, CanPut, addVars, LossInv, HolderInv, TypeInv, LockOK
<1>2. NoneLost
  BY <1>1 DEF NoneLost, Lost, Pending, Twin
<1> QED
  BY <1>1, <1>2, RecoveredElsewhere DEF Elsewhere

LEMMA RecoveredComplete ==
    ASSUME RecoveredInv, NEW B \in SUBSET Events, Complete(B) PROVE RecoveredInv'
<1>1. /\ up' = up /\ up \in Running /\ done' = done \cup B
      /\ pc' = [e \in Events |-> IF e \in B THEN "done" ELSE pc[e]]
      /\ UNCHANGED <<files, disk, meta, active, cursor, idOf, stored, excuse>>
  BY DEF Complete, diskVars, usageVars
<1>2. NoneLost
  BY <1>1 DEF NoneLost, Lost, Pending, Twin
<1> QED
  BY <1>1, <1>2, RecoveredElsewhere, RecoveredParked DEF Elsewhere, Parked, Running

LEMMA RecoveredSaveWrite ==
    ASSUME RecoveredInv, SaveWrite PROVE RecoveredInv'
<1>1. /\ up' = up
      /\ UNCHANGED <<files, disk, meta, active, cursor, pc, idOf, stored, done, excuse>>
  BY DEF SaveWrite, usageVars, addVars, histVars
<1>2. NoneLost
  BY <1>1 DEF NoneLost, Lost, Pending, Twin
<1> QED
  BY <1>1, <1>2, RecoveredElsewhere, RecoveredParked DEF Elsewhere, Parked

(* A segment that holds an unread record cannot be reclaimed.               *)
LEMMA RecoveredRemove ==
    ASSUME TypeInv, LossInv, RecoveredInv, NEW s \in SegIds, RelieveOne(s) \/ ReclaimOne(s)
    PROVE  RecoveredInv'
<1>1. /\ Remove(s) /\ Reclaimable(s)
      /\ UNCHANGED <<up, active, cursor, acked, durable, pc, idOf, stored, done, excuse>>
  BY DEF RelieveOne, ReclaimOne, Relieving, ckptVars, addVars, histVars
<1>2. NoneLost
  BY <1>1 DEF NoneLost, Lost, Pending, Twin
<1>3. CASE up # "recovering"
  BY <1>1, <1>2, <1>3, RecoveredElsewhere DEF Elsewhere
<1>4. CASE up = "recovering"
  <2>1. /\ files' = files \ {s} /\ meta[s].max <= durable /\ durable <= acked
        /\ acked \in Nat /\ durable \in Nat /\ idOf \in [Events -> Nat] /\ meta[s].max \in Nat
        /\ \A t \in SegIds \ {s} : disk'[t] = disk[t] /\ meta'[t] = meta[t]
        /\ files \subseteq SegIds
    BY <1>1, <1>4 DEF Remove, Reclaimable, LossInv, OrderInv, TypeInv, TypeOK
  <2>2. ASSUME NEW e \in Events, Lost(e) PROVE Unread(e)'
    <3>1. PICK t \in files : \E i \in 1 .. Len(disk[t]) :
             disk[t][i] = e /\ idOf[e] <= meta[t].max /\ ToCome(t, i)
      BY <1>4, <2>2 DEF RecoveredInv, Unread
    <3>2. acked < idOf[e] /\ idOf[e] \in Nat
      BY <2>1, <2>2 DEF LossInv, AheadInv, Lost
    <3>3. t # s /\ t \in files' /\ t \in SegIds
      BY <2>1, <3>1, <3>2
    <3> QED
      BY <1>1, <2>1, <3>1, <3>3 DEF Unread, ToCome
  <2> QED
    BY <1>1, <1>2, <1>4, <2>2 DEF RecoveredInv, NoneLost
<1> QED
  BY <1>3, <1>4

-------------------------------------------------------------------------------
(* Opening, and reading the log *)

LEMMA RecoveredOpen ==
    ASSUME TypeInv, LossInv, Open PROVE RecoveredInv'
<1> DEFINE cp == IF ckpt.ok THEN ckpt ELSE TornCheckpoint
<1>1. /\ up' = "recovering" /\ cursor' = [seg |-> 1, pos |-> 1]
      /\ UNCHANGED <<disk, pc, idOf, stored, done>>
  BY DEF Open, addVars
<1>2. PICK a \in ResumeAt(cp.seg) :
        LET known == {s \in files \cup {a} : s <= a}
            found == UNION {Held(s) : s \in known}
        IN  /\ active' = a /\ files' = files \cup {a}
            /\ meta' = [s \in SegIds |-> IF s \in known THEN Scan(s) ELSE NoMeta]
            /\ excuse' = [e \in Events |-> IF OnDisk(e) /\ e \notin found
                                            THEN "stranded" ELSE excuse[e]]
  BY DEF Open
<1> DEFINE known == {s \in files \cup {a} : s <= a}
           found == UNION {Held(s) : s \in known}
<1>3. /\ active' = a /\ known \subseteq files' /\ known \subseteq SegIds /\ \A s \in known : s <= a
      /\ meta' = [s \in SegIds |-> IF s \in known THEN Scan(s) ELSE NoMeta]
      /\ \A e \in Events : excuse'[e] = "none" => excuse[e] = "none" /\ (OnDisk(e) => e \in found)
  <2>1. a \in SegIds /\ files \subseteq SegIds
    BY TypeResumeAt DEF TypeInv, TypeOK
  <2> QED
    BY <1>2, <2>1
<1> HIDE DEF cp, known, found
<1>4. ASSUME NEW e \in Events, Lost(e)' PROVE Unread(e)'
  <2>1. e \in stored /\ Pending(e) /\ excuse'[e] = "none"
    BY <1>1, <1>3, <1>4 DEF Lost, Pending, Twin
  <2>2. OnDisk(e)
    BY <2>1 DEF LossInv, LocatedInv, At, OnDisk
  <2>3. PICK s \in known : e \in Held(s)
    BY <1>3, <2>1, <2>2 DEF found
  <2>4. PICK i \in 1 .. Len(disk[s]) : disk[s][i] = e
    BY <2>3 DEF Held
  <2>5. s \in SegIds /\ s \in files' /\ s <= a
    BY <1>3
  <2>6. idOf[e] <= meta'[s].max
    BY <1>3, <2>3, <2>5, ScanBounds DEF LossInv
  <2>7. ToCome(s, i)'
    BY <1>1, <1>3, <2>4, <2>5, WalAssumption DEF ToCome, SegIds
  <2> QED
    BY <1>1, <2>4, <2>5, <2>6, <2>7 DEF Unread
<1> QED
  BY <1>1, <1>4 DEF RecoveredInv

(* The record at the cursor is skipped only if its id is settled; any other  *)
(* is queued, or settled on the spot.                                       *)
LEMMA RecoveredRead ==
    ASSUME TypeInv, LossInv, RecoveredInv, RecoverRecord \/ RecoverExpired PROVE RecoveredInv'
<1>0. PICK e \in Events : e = disk[cursor.seg][cursor.pos]
  BY TypeAtRecord DEF RecoverRecord, RecoverExpired
<1>1. /\ up = "recovering" /\ up' = up /\ cursor' = [cursor EXCEPT !.pos = @ + 1] /\ AtRecord
      /\ UNCHANGED <<files, disk, meta, active, idOf, stored, excuse>>
      /\ done \subseteq done'
  BY DEF RecoverRecord, RecoverExpired, diskVars, usageVars, histVars
<1>2. /\ cursor.seg \in SegIds /\ cursor.pos \in Nat \ {0}
      /\ pc \in [Events -> Places] /\ acked \in Nat /\ idOf \in [Events -> Nat]
      /\ cursor'.seg = cursor.seg /\ cursor'.pos = cursor.pos + 1
  BY <1>1 DEF TypeInv, TypeOK, CursorOK
<1>3. \/ pc' = pc /\ idOf[e] <= acked
      \/ pc' = [pc EXCEPT ![e] = "queued"]
      \/ pc' = [pc EXCEPT ![e] = "done"]
  BY <1>0, <1>2 DEF RecoverRecord, RecoverExpired
<1>4. \A f \in Events : Lost(f)' => Lost(f)
  BY <1>1, <1>2, <1>3 DEF Lost, Pending, Twin
<1>5. ~Lost(e)'
  <2>1. CASE pc' = pc /\ idOf[e] <= acked
    <3>1. ~Lost(e)
      BY <1>2, <2>1 DEF LossInv, AheadInv, Lost
    <3> QED
      BY <1>2, <1>4, <3>1
  <2>2. CASE pc' # pc \/ ~(idOf[e] <= acked)
    <3>1. pc'[e] \in {"queued", "done"}
      BY <1>2, <1>3, <2>2
    <3> QED
      BY <3>1 DEF Lost
  <2> QED
    BY <2>1, <2>2
<1>6. ASSUME NEW f \in Events, Lost(f)' PROVE Unread(f)'
  <2>1. f # e
    BY <1>5, <1>6
  <2>2. PICK s \in files : \E i \in 1 .. Len(disk[s]) :
           disk[s][i] = f /\ idOf[f] <= meta[s].max /\ ToCome(s, i)
    BY <1>1, <1>4, <1>6 DEF RecoveredInv, Unread
  <2>3. PICK i \in 1 .. Len(disk[s]) : disk[s][i] = f /\ idOf[f] <= meta[s].max /\ ToCome(s, i)
    BY <2>2
  <2>4. ~(cursor.seg = s /\ cursor.pos = i)
    BY <1>0, <2>1, <2>3
  <2>5. s \in SegIds /\ i \in Nat
    BY <2>3 DEF TypeInv, TypeOK
  <2>6. ToCome(s, i)'
    BY <1>1, <1>2, <2>3, <2>4, <2>5, WalAssumption DEF ToCome, SegIds
  <2> QED
    BY <1>1, <2>3, <2>6 DEF Unread
<1> QED
  BY <1>1, <1>6 DEF RecoveredInv

(* At the end of a segment what is unread lies in a later one; at the end of *)
(* the active segment nothing is unread.                                    *)
LEMMA RecoveredNextSegment ==
    ASSUME TypeInv, RecoveredInv, Passive, RecoverNextSegment PROVE RecoveredInv'
<1>1. /\ up = "recovering" /\ ~AtRecord /\ UNCHANGED <<active, disk, meta, idOf, files>>
      /\ \/ cursor.seg < active /\ cursor' = [seg |-> cursor.seg + 1, pos |-> 1] /\ up' = up
         \/ ~(cursor.seg < active) /\ up' = "open"
  BY DEF RecoverNextSegment, diskVars, usageVars, addVars
<1>2. cursor.seg \in SegIds /\ cursor.pos \in Nat \ {0} /\ active \in SegIds
      /\ disk \in [SegIds -> Seq(Events)]
  BY <1>1 DEF TypeInv, TypeOK, CursorOK
<1>3. ASSUME NEW e \in Events, Lost(e)' PROVE cursor.seg < active /\ Unread(e)'
  <2>1. PICK s \in files : \E i \in 1 .. Len(disk[s]) :
           disk[s][i] = e /\ idOf[e] <= meta[s].max /\ ToCome(s, i)
    BY <1>1, <1>3, PassiveLost DEF NoneLost, RecoveredInv, Unread
  <2>2. PICK i \in 1 .. Len(disk[s]) : disk[s][i] = e /\ idOf[e] <= meta[s].max /\ ToCome(s, i)
    BY <2>1
  <2>3. s \in SegIds /\ i \in Nat \ {0} /\ Len(disk[s]) \in Nat /\ i <= Len(disk[s])
    <3>1. s \in SegIds /\ disk[s] \in Seq(Events)
      BY <1>2 DEF TypeInv, TypeOK
    <3>2. Len(disk[s]) \in Nat
      BY <3>1
    <3> QED
      BY <3>1, <3>2
  <2>4. cursor.seg < s
    BY <1>1, <1>2, <2>2, <2>3, WalAssumption DEF ToCome, AtRecord, SegIds
  <2>5. cursor.seg < active /\ cursor' = [seg |-> cursor.seg + 1, pos |-> 1]
    BY <1>1, <1>2, <2>2, <2>3, <2>4, WalAssumption DEF ToCome, SegIds
  <2>6. ToCome(s, i)'
    BY <1>1, <1>2, <2>2, <2>3, <2>4, <2>5, WalAssumption DEF ToCome, SegIds
  <2> QED
    BY <1>1, <2>2, <2>5, <2>6 DEF Unread
<1> QED
  BY <1>1, <1>3 DEF RecoveredInv

-------------------------------------------------------------------------------
LEMMA RecoveredInit == Init => RecoveredInv
  BY DEF Init, RecoveredInv, Lost

LEMMA RecoveredNext ==
    ASSUME FrontierInv, LossInv, RecoveredInv, Policy # "drop_oldest", [Next]_vars
    PROVE  RecoveredInv'
<1>1. TypeInv /\ TypeInv' /\ HolderInv /\ StoredInv /\ OrderInv
  BY TypeNext DEF FrontierInv, LossInv
<1>2. ASSUME NEW e \in Events, AddStep(e) \/ GiveUp(e) PROVE RecoveredInv'
  <2>1. CASE AddBegin(e)
    BY <1>1, <2>1, RecoveredAddBegin
  <2>2. CASE ~AddBegin(e)
    <3>1. Passive
      BY <1>1, <1>2, <2>2, PassiveEvent DEF AddStep
    <3> QED
      BY <1>1, <1>2, <3>1, RecoveredPassive
  <2> QED
    BY <2>1, <2>2
<1>3. ASSUME NEW B \in SUBSET Events, Complete(B) PROVE RecoveredInv'
  BY <1>3, RecoveredComplete
<1>4. ASSUME NEW s \in SegIds, SegmentStep(s) PROVE RecoveredInv'
  <2>1. ~DropOldest(s) /\ ~DropRemove(s)
    BY <1>1 DEF DropOldest, Victim, DropRemove, HolderInv
  <2> QED
    BY <1>1, <1>4, <2>1, RecoveredRemove DEF SegmentStep
<1>5. CASE AppendStep
  <2>1. CASE Put
    BY <1>1, <2>1, RecoveredPut
  <2>2. CASE ~Put
    <3>1. Passive
      BY <1>1, <1>5, <2>2, PassiveAppend DEF AppendStep
    <3> QED
      BY <1>1, <1>5, <3>1, RecoveredPassive
  <2> QED
    BY <2>1, <2>2
<1>6. CASE SaveStep \/ ReclaimDone \/ Flush \/ CloseBegin \/ Destroy \/ CloseFlush \/ FlushSyncFails
  <2>1. CASE SaveWrite
    BY <2>1, RecoveredSaveWrite
  <2>2. CASE ~SaveWrite
    <3>1. Passive
      BY <1>1, <1>6, <2>2, PassiveLife DEF SaveStep
    <3> QED
      BY <1>1, <1>6, <2>2, <3>1, RecoveredPassive DEF SaveStep
  <2> QED
    BY <2>1, <2>2
<1>7. CASE CloseEnd \/ Crash \/ PowerLoss
  BY <1>7 DEF CloseEnd, Crash, PowerLoss, Vanish, RecoveredInv
<1>8. CASE Open
  BY <1>1, <1>8, RecoveredOpen
<1>9. CASE RecoverStep
  <2>1. CASE RecoverRecord \/ RecoverExpired
    BY <1>1, <2>1, RecoveredRead
  <2>2. CASE RecoverFails \/ RecoverNextSegment
    <3>1. Passive
      BY <1>1, <2>2, PassiveRecover
    <3> QED
      BY <1>1, <2>2, <3>1, RecoveredPassive, RecoveredNextSegment
  <2> QED
    BY <1>9, <2>1, <2>2 DEF RecoverStep
<1>10. CASE UNCHANGED vars
  BY <1>10 DEF vars, RecoveredInv, Lost, Unread, ToCome, Pending, Twin
<1> QED
  BY <1>2, <1>3, <1>4, <1>5, <1>6, <1>7, <1>8, <1>9, <1>10 DEF Next, LifeStep

(* Once a reopened producer accepts new events, every recorded event whose   *)
(* outcome is open and that nothing excuses has been handed to the send      *)
(* pipeline again: no segment reclaimed meanwhile, no checkpoint save, no    *)
(* result of a recovered batch makes recovery pass it by.                   *)
THEOREM RecoveryCompleteAlways == Spec => []RecoveryComplete
<1> DEFINE Kept == Policy # "drop_oldest" => LossInv /\ RecoveredInv
           Inv == FrontierInv /\ Kept
<1>1. Init => Inv
  BY FrontierInit, LossInit, RecoveredInit
<1>2. Inv /\ [Next]_vars => Inv'
  <2> SUFFICES ASSUME Inv, [Next]_vars PROVE Inv'
    OBVIOUS
  <2>1. FrontierInv'
    BY FrontierNext
  <2>2. CASE Policy # "drop_oldest"
    BY <2>1, <2>2, LossNext, RecoveredNext
  <2> QED
    BY <2>1, <2>2
<1>3. Inv => RecoveryComplete
  <2> SUFFICES ASSUME Inv, Policy # "drop_oldest", NEW e \in Events, Protected(e),
                      up \in {"open", "closing"}
               PROVE  pc[e] # "out"
    BY DEF RecoveryComplete
  <2>1. e \in stored /\ Pending(e)
    BY DEF Protected, Pending, LossInv, StoredInv
  <2> QED
    BY <2>1 DEF RecoveredInv, Lost
<1> HIDE DEF Inv
<1> QED
  BY <1>1, <1>2, <1>3, PTL DEF Spec
===============================================================================
