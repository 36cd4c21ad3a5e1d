------------------------------ MODULE LeaseProofs -----------------------------
(***************************************************************************)
(* For any number of owners of either kind: who writes owns the directory.  *)
(* The argument is that the lease file is only changed under lease.lock, by *)
(* its holder, and that an owner who has validated, or who keeps the lock   *)
(* for its lifetime, holds it.                                              *)
(***************************************************************************)
EXTENDS Lease, TLAPS

(* The owners that hold lease.lock.                                         *)
Inside(o) == \/ pc[o] \in {"acquire", "finish", "op", "checked", "flush", "release"}
             \/ o \in Bridge /\ pc[o] = "open"
LockInv == /\ \A o \in Owners : Inside(o) => flock = o
           /\ \A o \in Bridge : pc[o] \notin Gone => dirLock = o
           /\ \A o \in Owners : pc[o] \in {"locked", "adopted"} => o \in Bridge

(* Those among them that have the lease.                                    *)
NamedInv == \A o \in Owners : Inside(o) /\ pc[o] # "acquire" => Valid(o)

IInv == TypeOK /\ LockInv /\ NamedInv /\ ViewCurrent

USE DEF Goto, Exclusive, Gone, States

(* The fields of a lease written by Acquire or removed.                      *)
LEMMA NoLeaseType == NoLease \in [here : BOOLEAN, owner : Owners \cup {None}, token : Nat]
  BY DEF NoLease

LEMMA TypeInit == Init => TypeOK
  BY NoLeaseType DEF Init, TypeOK

LEMMA TypeStep == ASSUME TypeOK, NEW o \in Owners, Step(o) PROVE TypeOK'
<1> USE LeaseAssumption DEF TypeOK
<1>1. CASE LockDirectory(o)
  BY <1>1 DEF LockDirectory
<1>2. CASE Adopt(o)
  BY <1>2, NoLeaseType DEF Adopt
<1>3. CASE OpenGuard(o)
  BY <1>3 DEF OpenGuard
<1>4. CASE Acquire(o)
  <2>1. lease.token + 1 \in Nat
    OBVIOUS
  <2>2. lease' \in [here : BOOLEAN, owner : Owners \cup {None}, token : Nat]
        /\ token' \in [Owners -> Nat]
    BY <1>4, <2>1 DEF Acquire
  <2>3. expired' \subseteq Owners /\ pc' \in [Owners -> States]
    BY <1>4 DEF Acquire
  <2> QED
    BY <1>4, <2>2, <2>3 DEF Acquire
<1>5. CASE FinishOpen(o)
  <2>1. log' \in Nat
    BY <1>5 DEF FinishOpen
  <2> QED
    BY <1>5, <2>1 DEF FinishOpen, Leaves
<1>6. CASE AdoptFails(o)
  BY <1>6 DEF AdoptFails, Fault
<1>7. CASE OpenBusy(o)
  BY <1>7 DEF OpenBusy
<1>8. CASE AcquireFails(o)
  BY <1>8 DEF AcquireFails, Fault, Freed
<1>9. CASE FinishFails(o)
  BY <1>9, NoLeaseType DEF FinishFails, Fault, Freed
<1>10. CASE Enter(o)
  BY <1>10 DEF Enter, Enters
<1>11. CASE Heartbeat(o)
  BY <1>11 DEF Heartbeat, Renew, Leaves
<1>12. CASE HeartbeatFails(o)
  BY <1>12 DEF HeartbeatFails, Leaves, Fault
<1>13. CASE InWindow(o)
  BY <1>13 DEF InWindow
<1>14. CASE Mutate(o)
  BY <1>14 DEF Mutate, Write, Leaves
<1>15. CASE CloseEnter(o)
  BY <1>15 DEF CloseEnter
<1>16. CASE CloseFlush(o)
  BY <1>16 DEF CloseFlush, Write
<1>17. CASE CloseRelease(o)
  BY <1>17, NoLeaseType DEF CloseRelease, Fault
<1>18. CASE Unlock(o)
  BY <1>18 DEF Unlock, Freed
<1>19. CASE Crash(o)
  BY <1>19 DEF Crash, Freed
<1>20. CASE Fork(o)
  BY <1>20 DEF Fork, Fault
<1>21. CASE ChildClose(o)
  BY <1>21 DEF ChildClose, ChildCloses, Freed
<1> QED
  BY <1>1, <1>2, <1>3, <1>4, <1>5, <1>6, <1>7, <1>8, <1>9, <1>10, <1>11, <1>12, <1>13,
     <1>14, <1>15, <1>16, <1>17, <1>18, <1>19, <1>20, <1>21 DEF Step, Open

(* What a step of one owner does to the locks.  Others keep them.            *)
LEMMA LockStep == ASSUME TypeOK, LockInv, NEW o \in Owners, Step(o) PROVE LockInv'
<1> USE LeaseAssumption DEF TypeOK, LockInv, Inside
<1>1. \A p \in Owners \ {o} : pc'[p] = pc[p]
  BY DEF Step, Open, LockDirectory, Adopt, OpenGuard, Acquire, FinishOpen, AdoptFails,
         OpenBusy, AcquireFails, FinishFails, Enter, Heartbeat, HeartbeatFails, InWindow,
         Mutate, CloseEnter, CloseFlush, CloseRelease, Unlock, Crash, Fork, ChildClose
<1>2. \A p \in Owners \ {o} : flock = p /\ Inside(p) => flock' = p
  BY DEF Step, Open, LockDirectory, Adopt, OpenGuard, Acquire, FinishOpen, AdoptFails,
         OpenBusy, AcquireFails, FinishFails, Enter, Enters, Heartbeat, HeartbeatFails,
         InWindow, Mutate, CloseEnter, CloseFlush, CloseRelease, Unlock, Crash, Fork,
         ChildClose, ChildCloses, Leaves, Freed
<1>3. \A p \in Bridge \ {o} : dirLock = p => dirLock' = p
  <2> SUFFICES ASSUME NEW p \in Bridge \ {o}, dirLock = p PROVE dirLock' = p
    OBVIOUS
  <2>1. CASE LockDirectory(o) \/ AdoptFails(o) \/ OpenBusy(o)
    BY <2>1 DEF LockDirectory, AdoptFails, OpenBusy
  <2>2. CASE dirLock' \in {dirLock, Freed(dirLock, o)}
    BY <2>2 DEF Freed
  <2> QED
    BY <2>1, <2>2
       DEF Step, Open, Adopt, OpenGuard, Acquire, FinishOpen, AcquireFails, FinishFails,
           Enter, Heartbeat, HeartbeatFails, InWindow, Mutate, CloseEnter, CloseFlush,
           CloseRelease, Unlock, Crash, Fork, ChildClose, ChildCloses
<1>4. Inside(o)' => flock' = o
  <2>1. CASE pc'[o] \in Gone \cup {"locked", "adopted", "unlock"}
    BY <2>1
  <2>2. CASE OpenGuard(o) \/ Acquire(o) \/ FinishOpen(o)
    BY <2>2 DEF OpenGuard, Acquire, FinishOpen, Leaves
  <2>3. CASE Enter(o) \/ Heartbeat(o) \/ HeartbeatFails(o) \/ InWindow(o) \/ Mutate(o)
    BY <2>3 DEF Enter, Enters, Heartbeat, HeartbeatFails, InWindow, Mutate, Leaves
  <2>4. CASE CloseEnter(o) \/ CloseFlush(o)
    BY <2>4 DEF CloseEnter, CloseFlush
  <2>5. CASE Fork(o) \/ ChildClose(o)
    BY <2>5 DEF Fork, ChildClose, ChildCloses
  <2> QED
    BY <2>1, <2>2, <2>3, <2>4, <2>5
       DEF Step, Open, LockDirectory, Adopt, AdoptFails, OpenBusy, AcquireFails,
           FinishFails, CloseRelease, Unlock, Crash
<1>5. o \in Bridge /\ pc'[o] \notin Gone => dirLock' = o
  BY DEF Step, Open, LockDirectory, Adopt, OpenGuard, Acquire, FinishOpen, AdoptFails,
         OpenBusy, AcquireFails, FinishFails, Enter, Heartbeat, HeartbeatFails, InWindow,
         Mutate, CloseEnter, CloseFlush, CloseRelease, Unlock, Crash, Fork, ChildClose,
         ChildCloses, Freed
<1>6. pc'[o] \in {"locked", "adopted"} => o \in Bridge
  BY DEF Step, Open, LockDirectory, Adopt, OpenGuard, Acquire, FinishOpen, AdoptFails,
         OpenBusy, AcquireFails, FinishFails, Enter, Heartbeat, HeartbeatFails, InWindow,
         Mutate, CloseEnter, CloseFlush, CloseRelease, Unlock, Crash, Fork, ChildClose
<1>7. \A p \in Owners : p # o /\ Inside(p)' => flock' = p
  BY <1>1, <1>2
<1>8. \A p \in Bridge : pc'[p] \notin Gone => dirLock' = p
  BY <1>1, <1>3, <1>5
<1> QED
  BY <1>1, <1>4, <1>6, <1>7, <1>8

(* Whoever is inside holds the lock, so that no two are.                     *)
LEMMA Alone ==
    ASSUME LockInv, NEW o \in Owners, NEW p \in Owners, Inside(o), Inside(p)
    PROVE  o = p
  BY DEF LockInv

(* The lease is only changed by one who is inside, or while nobody is.       *)
LEMMA LeaseKept ==
    ASSUME TypeOK, LockInv, NEW o \in Owners, Step(o), NEW p \in Owners, p # o, Inside(p)
    PROVE  UNCHANGED lease /\ token'[p] = token[p] /\ pc'[p] = pc[p] /\ log' = log
           /\ seen'[p] = seen[p]
<1>1. flock = p /\ flock # None /\ ~Inside(o)
  BY LeaseAssumption, Alone DEF LockInv
<1>2. \/ LockDirectory(o) \/ AdoptFails(o) \/ OpenBusy(o) \/ Unlock(o) \/ Crash(o)
      \/ Fork(o) \/ ChildClose(o)
  BY <1>1 DEF Step, Open, Inside, Adopt, OpenGuard, Acquire, FinishOpen, AcquireFails,
              FinishFails, Enter, Enters, Heartbeat, HeartbeatFails, InWindow, Mutate,
              CloseEnter, CloseFlush, CloseRelease
<1> QED
  BY <1>2 DEF TypeOK, LockDirectory, AdoptFails, OpenBusy, Unlock, Crash, Fork, ChildClose

LEMMA NamedStep ==
    ASSUME TypeOK, LockInv, NamedInv, NEW o \in Owners, Step(o)
    PROVE  NamedInv'
<1>1. ASSUME NEW p \in Owners, p # o, Inside(p)', pc'[p] # "acquire"
      PROVE  Valid(p)'
  <2>1. pc'[p] = pc[p]
    BY <1>1 DEF TypeOK, Step, Open, LockDirectory, Adopt, OpenGuard, Acquire, FinishOpen,
         AdoptFails, OpenBusy, AcquireFails, FinishFails, Enter, Heartbeat, HeartbeatFails,
         InWindow, Mutate, CloseEnter, CloseFlush, CloseRelease, Unlock, Crash, Fork,
         ChildClose
  <2>2. Inside(p) /\ pc[p] # "acquire"
    BY <1>1, <2>1 DEF Inside
  <2>3. Valid(p)
    BY <2>2 DEF NamedInv
  <2> QED
    BY <1>1, <2>2, <2>3, LeaseKept DEF Valid
<1>2. ASSUME Inside(o)', pc'[o] # "acquire" PROVE Valid(o)'
  <2> USE DEF TypeOK, NamedInv, Inside, Valid
  <2>1. CASE Acquire(o)
    BY <2>1, <1>2 DEF Acquire
  <2>2. CASE FinishOpen(o)
    BY <2>2, <1>2 DEF FinishOpen
  <2>3. CASE Enter(o)
    BY <2>3, <1>2 DEF Enter, Enters
  <2>4. CASE Heartbeat(o) \/ HeartbeatFails(o) \/ InWindow(o) \/ Mutate(o)
    BY <2>4, <1>2 DEF Heartbeat, HeartbeatFails, InWindow, Mutate
  <2>5. CASE CloseEnter(o) \/ CloseFlush(o)
    BY <2>5, <1>2 DEF CloseEnter, CloseFlush
  <2>6. CASE Fork(o) \/ ChildClose(o)
    BY <2>6, <1>2 DEF Fork, ChildClose
  <2>7. CASE pc'[o] \in Gone \cup {"locked", "adopted", "acquire", "unlock"}
    BY <2>7, <1>2
  <2> QED
    BY <2>1, <2>2, <2>3, <2>4, <2>5, <2>6, <2>7
       DEF Step, Open, LockDirectory, Adopt, OpenGuard, AdoptFails, OpenBusy, AcquireFails,
           FinishFails, CloseRelease, Unlock, Crash
<1> QED
  BY <1>1, <1>2 DEF NamedInv

(* A write is the work of the owner the lease names, and of no other.        *)
LEMMA WriterOwns ==
    ASSUME TypeOK, LockInv, NamedInv, NEW o \in Owners, Step(o), log' # log
    PROVE  flock = o /\ Names(o) /\ lease' = lease /\ Inside(o) /\ pc[o] # "acquire"
<1>1. FinishOpen(o) \/ Mutate(o) \/ CloseFlush(o)
  BY DEF Step, Open, LockDirectory, Adopt, OpenGuard, Acquire, AdoptFails, OpenBusy,
         AcquireFails, FinishFails, Enter, Heartbeat, HeartbeatFails, InWindow,
         CloseEnter, CloseRelease, Unlock, Crash, Fork, ChildClose
<1>2. Inside(o) /\ pc[o] # "acquire" /\ lease' = lease
  BY <1>1 DEF Inside, FinishOpen, Mutate, CloseFlush
<1> QED
  BY <1>2 DEF LockInv, NamedInv, Valid, Names

LEMMA ViewStep ==
    ASSUME TypeOK, LockInv, NamedInv, ViewCurrent, NEW o \in Owners, Step(o)
    PROVE  ViewCurrent'
<1> SUFFICES ASSUME NEW p \in Owners, Names(p)', pc'[p] \in Opened
             PROVE  seen'[p] = log'
  BY DEF ViewCurrent
<1> USE DEF TypeOK
<1>1. CASE FinishOpen(o)
  <2>1. p = o
    <3>1. Names(o)
      BY <1>1 DEF FinishOpen, NamedInv, Inside, Valid, Names
    <3> QED
      BY <1>1, <3>1 DEF FinishOpen, Names
  <2> QED
    BY <1>1, <2>1 DEF FinishOpen
<1>2. CASE Mutate(o) \/ CloseFlush(o)
  <2>1. Names(o) /\ lease' = lease
    BY <1>2 DEF Mutate, CloseFlush, NamedInv, Inside, Valid, Names
  <2>2. p = o
    BY <2>1 DEF Names
  <2>3. seen[o] = log
    BY <1>2, <2>1 DEF ViewCurrent, Opened, Mutate, CloseFlush
  <2> QED
    BY <1>2, <2>2, <2>3 DEF Mutate, CloseFlush, Write
<1>3. CASE \/ LockDirectory(o) \/ OpenGuard(o) \/ AdoptFails(o) \/ OpenBusy(o)
           \/ AcquireFails(o) \/ Unlock(o) \/ Crash(o) \/ Fork(o) \/ ChildClose(o)
  BY <1>3 DEF LockDirectory, OpenGuard, AdoptFails, OpenBusy, AcquireFails, Unlock, Crash,
              Fork, ChildClose, ViewCurrent, Names, Opened
<1>4. CASE Enter(o) \/ Heartbeat(o) \/ HeartbeatFails(o) \/ InWindow(o) \/ CloseEnter(o)
  BY <1>4 DEF Enter, Heartbeat, HeartbeatFails, InWindow, CloseEnter, ViewCurrent, Names,
              Opened
<1>5. CASE Acquire(o)
  BY <1>5 DEF Acquire, Names, Opened
<1>6. CASE Adopt(o) \/ FinishFails(o)
  BY <1>6 DEF Adopt, FinishFails, NoLease, Names
<1>7. CASE CloseRelease(o)
  BY <1>7 DEF CloseRelease, NoLease, Names, ViewCurrent, Opened
<1> QED
  BY <1>1, <1>2, <1>3, <1>4, <1>5, <1>6, <1>7 DEF Step, Open

(* Time touches nothing the argument is about.                              *)
LEMMA ClockStep == ASSUME IInv, TimePasses \/ ClockSetBack \/ UNCHANGED vars PROVE IInv'
<1>1. UNCHANGED <<pc, flock, dirLock, children, lease, token, log, seen>>
  BY DEF TimePasses, ClockSetBack, vars
<1>2. expired' \subseteq Owners /\ faults' \in Nat
  BY DEF TimePasses, ClockSetBack, vars, Fault, IInv, TypeOK
<1>3. TypeOK'
  BY <1>1, <1>2 DEF IInv, TypeOK
<1>4. LockInv' /\ NamedInv' /\ ViewCurrent'
  BY <1>1 DEF IInv, LockInv, NamedInv, ViewCurrent, Inside, Valid, Names
<1> QED
  BY <1>3, <1>4 DEF IInv

LEMMA InitInv == Init => IInv
<1> SUFFICES ASSUME Init PROVE IInv
  OBVIOUS
<1>1. \A o \in Owners : pc[o] = "new" /\ ~Inside(o)
  BY DEF Init, Inside
<1>2. LockInv /\ NamedInv
  BY <1>1, LeaseAssumption DEF LockInv, NamedInv
<1>3. ViewCurrent
  BY DEF Init, ViewCurrent, NoLease, Names
<1> QED
  BY <1>2, <1>3, TypeInit DEF IInv

LEMMA NextInv == IInv /\ [Next]_vars => IInv'
<1> SUFFICES ASSUME IInv, [Next]_vars PROVE IInv'
  OBVIOUS
<1>1. ASSUME NEW o \in Owners, Step(o) PROVE IInv'
  BY <1>1, TypeStep, LockStep, NamedStep, ViewStep DEF IInv
<1> QED
  BY <1>1, ClockStep DEF Next

LEMMA AlwaysInv == Spec => []IInv
  BY InitInv, NextInv, PTL DEF Spec

-------------------------------------------------------------------------------
(* The variables of ve_tls_lease.c and of the locks keep their types.       *)
THEOREM LeaseTypes == Spec => []TypeOK
<1>1. IInv => TypeOK
  BY DEF IInv
<1> QED
  BY <1>1, AlwaysInv, PTL

(* An open instance of the bridge has both locks and the lease, although it *)
(* never looks: persistent_guard_enter only takes its mutex.                *)
THEOREM BridgeOwns == Spec => []ExclusiveOwns
<1>1. IInv => ExclusiveOwns
  BY LeaseAssumption
     DEF IInv, ExclusiveOwns, LockInv, NamedInv, Inside, Opened, Valid, Names
<1> QED
  BY <1>1, AlwaysInv, PTL

(* The cached state of the owner is the directory's: it may append where it *)
(* believes the last segment ends, and reclaim what it believes is settled. *)
THEOREM OwnersView == Spec => []ViewCurrent
<1>1. IInv => ViewCurrent
  BY DEF IInv
<1> QED
  BY <1>1, AlwaysInv, PTL

(* An owner that was superseded never writes again.                         *)
THEOREM Fencing == Spec => Fenced
<1> DEFINE ByOwner == log' # log => \E o \in Owners : flock = o /\ Names(o) /\ seen'[o] = log'
<1>1. IInv /\ IInv' /\ [Next]_vars => [ByOwner]_vars
  <2> SUFFICES ASSUME IInv, IInv', Next, log' # log
               PROVE  \E o \in Owners : flock = o /\ Names(o) /\ seen'[o] = log'
    BY DEF vars
  <2>1. PICK o \in Owners : Step(o)
    BY DEF Next, TimePasses, ClockSetBack
  <2>2. flock = o /\ Names(o) /\ lease' = lease
    BY <2>1, WriterOwns DEF IInv
  <2>3. seen'[o] = log'
    <3>1. FinishOpen(o) \/ Mutate(o) \/ CloseFlush(o)
      BY <2>1 DEF Step, Open, LockDirectory, Adopt, OpenGuard, Acquire, AdoptFails,
           OpenBusy, AcquireFails, FinishFails, Enter, Heartbeat, HeartbeatFails, InWindow,
           CloseEnter, CloseRelease, Unlock, Crash, Fork, ChildClose
    <3>2. CASE FinishOpen(o)
      BY <3>2 DEF FinishOpen, IInv, TypeOK
    <3>3. CASE Mutate(o) \/ CloseFlush(o)
      <4>1. seen[o] = log
        BY <2>2, <3>3 DEF IInv, ViewCurrent, Opened, Mutate, CloseFlush
      <4> QED
        BY <3>3, <4>1 DEF Mutate, CloseFlush, Write, IInv, TypeOK
    <3> QED
      BY <3>1, <3>2, <3>3
  <2> QED
    BY <2>2, <2>3
<1> QED
  BY <1>1, AlwaysInv, PTL DEF Spec, Fenced
===============================================================================
