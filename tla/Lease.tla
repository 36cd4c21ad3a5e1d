-------------------------------- MODULE Lease ---------------------------------
(***************************************************************************)
(* Who may write in a log directory.  An instance of the log owns it by     *)
(* naming itself in the lease file, which it only reads and writes under    *)
(* flock on lease.lock.  An instance of the C core holds that lock for one  *)
(* operation at a time and validates the lease in each; one created by the  *)
(* iOS bridge (ve_tls_producer_create_exclusive_persistence) holds it, and  *)
(* the bridge's own directory lock, as long as it lives, and validates only *)
(* with its heartbeats.                                                     *)
(*                                                                         *)
(* An owner is one opening of the directory: each has a nonce of its own    *)
(* (ve_tls_lease_create_owner), so owner_id stands for the process, its     *)
(* name and acquire_time_ms too.  Time is the wall clock, which may be set  *)
(* back; what is kept of it is which owners' last heartbeat is further back *)
(* than lease_timeout_ms.  That decides lease_is_stale, and the validity    *)
(* window an owner has published as well, for both compare the same two     *)
(* times.  The lease file is replaced by a rename: nobody sees half of it.  *)
(***************************************************************************)
EXTENDS Naturals, FiniteSets

CONSTANTS
    Owners,     \* the openings of the whole history
    Bridge,     \* ... those of the iOS bridge, with an exclusive lifetime lock
    Takeover,   \* ... those opened with TAKEOVER_IF_STALE
    None,       \* nobody
    MaxWrites,  \* bound: how often the directory's contents change
    MaxFaults   \* bound: failing file operations, forks and clocks set back

ASSUME LeaseAssumption ==
    /\ None \notin Owners
    /\ Bridge \subseteq Owners /\ Takeover \subseteq Owners
    /\ MaxWrites \in Nat /\ MaxFaults \in Nat

VARIABLES
    pc,         \* where each owner is
    flock,      \* whose descriptor of lease.lock holds the lock
    dirLock,    \* whose descriptor of .ios-producer.lock holds the lock
    children,   \* owners whose descriptors a forked process holds too
    lease,      \* the lease file: is there one, its owner and fencing_token
    token,      \* persistent->lease.fencing_token, 0 before acquire
    expired,    \* owners whose last heartbeat is more than the timeout ago
    log,        \* how often segments and checkpoint were written
    seen,       \* ... as far as an owner's cached state accounts for it
    faults      \* how many faults happened

vars == <<pc, flock, dirLock, children, lease, token, expired, log, seen, faults>>

NoLease == [here |-> FALSE, owner |-> None, token |-> 0]
Gone == {"new", "done", "dead"}

Init ==
    /\ pc = [o \in Owners |-> "new"]
    /\ flock = None /\ dirLock = None /\ children = {}
    /\ lease = NoLease /\ token = [o \in Owners |-> 0] /\ expired = {}
    /\ log = 0 /\ seen = [o \in Owners |-> 0] /\ faults = 0

Goto(o, at) == pc' = [pc EXCEPT ![o] = at]
Fault == faults < MaxFaults /\ faults' = faults + 1
Exclusive(o) == o \in Bridge

(* ve_tls_lease_validate_locked                                             *)
ValidToken(o) == lease.here /\ lease.token = token[o]
Valid(o) == lease.here /\ lease.token = token[o] /\ lease.owner = o

Freed(lock, o) == IF lock = o THEN None ELSE lock

(* persistent_guard_leave.  An exclusive instance keeps the lock.           *)
LeavesAlways(o) == flock' = None
Leaves(o) == flock' = IF Exclusive(o) THEN flock ELSE None

-------------------------------------------------------------------------------
(* Opening *)

(* The bridge takes its directory lock, without waiting.                    *)
LockDirectory(o) ==
    /\ o \in Bridge /\ pc[o] = "new" /\ dirLock = None
    /\ dirLock' = o
    /\ Goto(o, "locked")
    /\ UNCHANGED <<flock, children, lease, token, expired, log, seen, faults>>

(* Whoever left a lease behind is dead, or it would hold the directory lock: *)
(* the bridge removes it while it holds lease.lock, and lets the core open.  *)
Adopt(o) ==
    /\ pc[o] = "locked" /\ flock = None
    /\ lease' = NoLease
    /\ Goto(o, "adopted")
    /\ UNCHANGED <<flock, dirLock, children, token, expired, log, seen, faults>>

AdoptFails(o) ==
    /\ pc[o] = "locked"
    /\ (flock # None /\ UNCHANGED faults) \/ Fault
    /\ dirLock' = None
    /\ Goto(o, "new")
    /\ UNCHANGED <<flock, children, lease, token, expired, log, seen>>

(* ve_tls_persistent_open enters the guard without waiting.                  *)
OpenGuard(o) ==
    /\ pc[o] = (IF o \in Bridge THEN "adopted" ELSE "new") /\ flock = None
    /\ flock' = o
    /\ Goto(o, "acquire")
    /\ UNCHANGED <<dirLock, children, lease, token, expired, log, seen, faults>>

OpenBusy(o) ==
    /\ pc[o] = "adopted" /\ flock # None
    /\ dirLock' = None
    /\ Goto(o, "new")
    /\ UNCHANGED <<flock, children, lease, token, expired, log, seen, faults>>

(* ve_tls_lease_acquire_locked.  now_ms was read before the guard, so the    *)
(* lease may be old, and even stale, when it is written.                    *)
MayAcquireFree(o) == ~lease.here
Stale == lease.owner \in expired
MayAcquire(o) == lease.here => o \in Takeover /\ Stale

Acquire(o) ==
    /\ pc[o] = "acquire" /\ MayAcquire(o)
    /\ LET t == lease.token + 1
       IN  /\ lease' = [here |-> TRUE, owner |-> o, token |-> t]
           /\ token' = [token EXCEPT ![o] = t]
    /\ expired' \in {expired \ {o}, expired \cup {o}}
    /\ Goto(o, "finish")
    /\ UNCHANGED <<flock, dirLock, children, log, seen, faults>>

AcquireFails(o) ==
    /\ pc[o] = "acquire"
    /\ (~MayAcquire(o) /\ UNCHANGED faults) \/ Fault
    /\ flock' = None
    /\ dirLock' = Freed(dirLock, o)
    /\ Goto(o, "new")
    /\ UNCHANGED <<children, lease, token, expired, log, seen>>

(* Manifest, checkpoint and segments are read, and missing ones written.     *)
FinishOpen(o) ==
    /\ pc[o] = "finish"
    /\ log' = log \/ (log < MaxWrites /\ log' = log + 1)
    /\ seen' = [seen EXCEPT ![o] = log']
    /\ Leaves(o)
    /\ Goto(o, "open")
    /\ UNCHANGED <<dirLock, children, lease, token, expired, faults>>

(* A failing open gives the directory back, for it still has the guard.      *)
FinishFails(o) ==
    /\ pc[o] = "finish" /\ Fault
    /\ lease' = NoLease
    /\ flock' = None
    /\ dirLock' = Freed(dirLock, o)
    /\ Goto(o, "done")
    /\ UNCHANGED <<children, token, expired, log, seen>>

-------------------------------------------------------------------------------
(* Operations: append, acknowledge, flush and heartbeat *)

(* persistent_guard_enter: the instance mutex, then, unless it is held for   *)
(* the lifetime, the flock, and a validation.                               *)
Enters(o) == IF Exclusive(o) THEN UNCHANGED flock
             ELSE flock = None /\ Valid(o) /\ flock' = o

Enter(o) ==
    /\ pc[o] = "open" /\ Enters(o)
    /\ Goto(o, "op")
    /\ UNCHANGED <<dirLock, children, lease, token, expired, log, seen, faults>>

(* ve_tls_lease_heartbeat_locked, if the lease is still valid               *)
Renew(o) == Valid(o) /\ expired' = expired \ {o}

(* ve_tls_persistent_heartbeat_if_due_locked, by the heartbeat or by an      *)
(* operation whose window has passed.                                       *)
Heartbeat(o) ==
    /\ pc[o] = "op" /\ Renew(o)
    /\ \/ Goto(o, "open") /\ Leaves(o)
       \/ Goto(o, "checked") /\ UNCHANGED flock
    /\ UNCHANGED <<dirLock, children, lease, token, log, seen, faults>>

HeartbeatFails(o) ==
    /\ pc[o] = "op"
    /\ (~Valid(o) /\ UNCHANGED faults) \/ Fault
    /\ Leaves(o)
    /\ Goto(o, "open")
    /\ UNCHANGED <<dirLock, children, lease, token, expired, log, seen>>

(* persistent_validate_lease_for_mutation inside the published window        *)
Window(o) == o \notin expired

InWindow(o) ==
    /\ pc[o] = "op" /\ Window(o)
    /\ Goto(o, "checked")
    /\ UNCHANGED <<flock, dirLock, children, lease, token, expired, log, seen, faults>>

Write(o) ==
    /\ log < MaxWrites
    /\ log' = log + 1
    /\ seen' = [seen EXCEPT ![o] = @ + 1]

Mutate(o) ==
    /\ pc[o] = "checked" /\ Write(o)
    /\ Leaves(o)
    /\ Goto(o, "open")
    /\ UNCHANGED <<dirLock, children, lease, token, expired, faults>>

-------------------------------------------------------------------------------
(* Closing, dying, forking, time *)

(* ve_tls_persistent_close validates before it flushes.  A stale instance    *)
(* closes its descriptors and leaves the directory to the new owner.        *)
CloseEnter(o) ==
    /\ pc[o] = "open" /\ flock = (IF Exclusive(o) THEN o ELSE None)
    /\ IF Valid(o)
       THEN flock' = o /\ Goto(o, "flush")
       ELSE flock' = None /\ Goto(o, "unlock")
    /\ UNCHANGED <<dirLock, children, lease, token, expired, log, seen, faults>>

CloseFlush(o) ==
    /\ pc[o] = "flush"
    /\ Write(o) \/ UNCHANGED <<log, seen>>
    /\ Goto(o, "release")
    /\ UNCHANGED <<flock, dirLock, children, lease, token, expired, faults>>

(* ve_tls_lease_release_owned_locked, then the guard.  The removal may fail. *)
CloseRelease(o) ==
    /\ pc[o] = "release"
    /\ (lease' = NoLease /\ UNCHANGED faults) \/ (UNCHANGED lease /\ Fault)
    /\ flock' = None
    /\ Goto(o, "unlock")
    /\ UNCHANGED <<dirLock, children, token, expired, log, seen>>

(* The bridge's lock goes last.                                             *)
Unlock(o) ==
    /\ pc[o] = "unlock"
    /\ dirLock' = Freed(dirLock, o)
    /\ Goto(o, "done")
    /\ UNCHANGED <<flock, children, lease, token, expired, log, seen, faults>>

(* The kernel drops a lock with the last descriptor that shares it.          *)
Crash(o) ==
    /\ pc[o] \notin Gone
    /\ IF o \in children
       THEN UNCHANGED <<flock, dirLock>>
       ELSE flock' = Freed(flock, o) /\ dirLock' = Freed(dirLock, o)
    /\ Goto(o, "dead")
    /\ UNCHANGED <<children, lease, token, expired, log, seen, faults>>

Fork(o) ==
    /\ pc[o] \notin Gone /\ o \notin children /\ Fault
    /\ children' = children \cup {o}
    /\ UNCHANGED <<pc, flock, dirLock, lease, token, expired, log, seen>>

(* A forked process can do nothing with the instance but close it: that, or  *)
(* its exit, closes the descriptors and unlocks nothing its parent holds.    *)
ChildUnlocks(o) == flock' = Freed(flock, o) /\ dirLock' = Freed(dirLock, o)
ChildCloses(o) ==
    IF pc[o] = "dead" THEN flock' = Freed(flock, o) /\ dirLock' = Freed(dirLock, o)
    ELSE UNCHANGED <<flock, dirLock>>

ChildClose(o) ==
    /\ o \in children
    /\ children' = children \ {o}
    /\ ChildCloses(o)
    /\ UNCHANGED <<pc, lease, token, expired, log, seen, faults>>

TimePasses ==
    /\ expired' \in SUBSET Owners /\ expired \subseteq expired' /\ expired' # expired
    /\ UNCHANGED <<pc, flock, dirLock, children, lease, token, log, seen, faults>>

(* A lease from the future is not stale.                                    *)
ClockSetBack ==
    /\ Fault
    /\ expired' \in SUBSET expired
    /\ UNCHANGED <<pc, flock, dirLock, children, lease, token, log, seen>>

-------------------------------------------------------------------------------
Open(o) ==
    LockDirectory(o) \/ Adopt(o) \/ OpenGuard(o) \/ Acquire(o) \/ FinishOpen(o)

Step(o) ==
    \/ Open(o) \/ AdoptFails(o) \/ OpenBusy(o) \/ AcquireFails(o) \/ FinishFails(o)
    \/ Enter(o) \/ Heartbeat(o) \/ HeartbeatFails(o) \/ InWindow(o) \/ Mutate(o)
    \/ CloseEnter(o) \/ CloseFlush(o) \/ CloseRelease(o) \/ Unlock(o)
    \/ Crash(o) \/ Fork(o) \/ ChildClose(o)

Next == (\E o \in Owners : Step(o)) \/ TimePasses \/ ClockSetBack

Spec == Init /\ [][Next]_vars

(* An application that wants the directory keeps trying, and time passes.    *)
FairSpec ==
    /\ Spec
    /\ \A o \in Owners : WF_vars(Open(o)) /\ WF_vars(OpenBusy(o) \/ AdoptFails(o))
    /\ WF_vars(TimePasses)

-------------------------------------------------------------------------------
States == Gone \cup {"locked", "adopted", "acquire", "finish", "open", "op", "checked",
                     "flush", "release", "unlock"}

TypeOK ==
    /\ pc \in [Owners -> States]
    /\ flock \in Owners \cup {None} /\ dirLock \in Owners \cup {None}
    /\ children \subseteq Owners /\ expired \subseteq Owners
    /\ lease \in [here : BOOLEAN, owner : Owners \cup {None}, token : Nat]
    /\ token \in [Owners -> Nat]
    /\ log \in Nat /\ seen \in [Owners -> Nat] /\ faults \in Nat

(* The lease names o; o has a descriptor of lease.lock and uses the log.     *)
Names(o) == lease.here /\ lease.owner = o
Opened == {"open", "op", "checked", "flush"}

(* An instance of the bridge writes without looking at the lease.  It may:   *)
(* as long as it is open, the lease names it and both locks are its own,     *)
(* whatever other instances, forked children and the clock do               *)
(* (docs/guides/persistence-and-recovery.md:53).                            *)
ExclusiveOwns ==
    \A o \in Bridge : pc[o] \in Opened => Names(o) /\ flock = o /\ dirLock = o

(* What an instance has cached of the directory - its segments, the end of   *)
(* the last one, the checkpoint - is the directory's state whenever it may   *)
(* act on it: nobody else wrote since it opened.                            *)
ViewCurrent == \A o \in Owners : Names(o) /\ pc[o] \in Opened => seen[o] = log

(* Once the directory has passed to another instance, the earlier one never  *)
(* writes again, however late its operation runs: each write is by the       *)
(* instance the lease names, which holds lease.lock.                        *)
Fenced == [][log' # log => \E o \in Owners : flock = o /\ Names(o) /\ seen'[o] = log']_vars

(* A directory whose owners are all gone, by a crash or by a close, can be   *)
(* opened again by whoever keeps trying, without help: no lock and no lease  *)
(* is left behind that bars it for ever.                                    *)
Abandoned(o) == \A p \in Owners \ {o} : pc[p] \in {"done", "dead"} /\ p \notin children
Reopens ==
    \A o \in Takeover : pc[o] = "new" /\ Abandoned(o) ~> pc[o] \in {"open", "done", "dead"}
===============================================================================
