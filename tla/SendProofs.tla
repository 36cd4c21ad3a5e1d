------------------------------ MODULE SendProofs ------------------------------
(***************************************************************************)
(* Theorems about SendPipeline for every value of its constants.           *)
(***************************************************************************)
EXTENDS SendPipeline, SequenceTheorems, FiniteSetTheorems, TLAPS

(* A sender that holds a key queue knows which, and one that is busy with a  *)
(* batch has it in its hand.                                                *)
HandsOK ==
    \A s \in Senders :
        /\ pc[s] \in Holding <=> key[s] # None
        /\ pc[s] \in HasTask => task[s] \in Batches

(* The worker has a key and a batch while it pushes.                        *)
SlotOK ==
    /\ worker \in {"reserved", "rollback"} => slot \in Keys
    /\ worker = "reserved" => work[slot] # <<>>

TypeInv == TypeOK /\ HandsOK /\ SlotOK

(* A listed queue has tasks: what a sender pops is a batch.                 *)
ListedFull == \A k \in ready \cup delayed : tasks[k] # <<>>

USE DEF buildVars, workVars, queueVars, listVars, senderVars, passVars, Sending, credVars, fateVars, endVars

LEMMA Emptied == ASSUME NEW S, NEW q \in Seq(S), q # <<>>
                 PROVE  Head(q) \in S /\ Tail(q) \in Seq(S) /\ Len(Tail(q)) = Len(q) - 1
  BY HeadTailProperties

LEMMA Extended == ASSUME NEW S, NEW q \in Seq(S), NEW b \in S
                  PROVE  /\ Append(q, b) \in Seq(S) /\ Append(q, b) # <<>>
                         /\ Len(Append(q, b)) = Len(q) + 1
                         /\ <<b>> \o q \in Seq(S) /\ <<b>> \o q # <<>>
<1>1. Append(q, b) \in Seq(S) /\ Append(q, b) # <<>> /\ Len(Append(q, b)) = Len(q) + 1
  BY AppendProperties
<1>2. <<b>> \in Seq(S) /\ Len(<<b>>) = 1
  OBVIOUS
<1>3. <<b>> \o q \in Seq(S) /\ Len(<<b>> \o q) = 1 + Len(q) /\ Len(q) \in Nat
  BY <1>2, ConcatProperties, LenProperties
<1>4. <<b>> \o q # <<>>
  BY <1>3, EmptySeq
<1> QED
  BY <1>1, <1>3, <1>4

LEMMA KeyOfBatch == ASSUME NEW b \in Batches PROVE KeyOf(b) \in Keys
  BY DEF Batches, KeyOf

(* The bound on the batches is a bound on each key's.                       *)
LEMMA AcceptedBound ==
    ASSUME TypeInv, NEW k \in Keys, Cardinality(Accepted) < MaxBatches
    PROVE  added[k] + 1 \in 1 .. MaxBatches
<1>1. added[k] \in 0 .. MaxBatches /\ MaxBatches \in Nat
  BY SendAssumption DEF TypeInv, TypeOK
<1>2. SUFFICES added[k] # MaxBatches
  BY <1>1
<1>3. SUFFICES ASSUME added[k] = MaxBatches PROVE FALSE
  OBVIOUS
<1>4. IsFiniteSet(Batches) /\ Accepted \subseteq Batches
  <2>1. IsFiniteSet(1 .. MaxBatches)
    BY <1>1, FS_Interval
  <2> QED
    BY <2>1, SendAssumption, FS_Product DEF Batches, Accepted
<1>5. IsFiniteSet(Accepted)
  BY <1>4, FS_Subset
<1> DEFINE f == [i \in 1 .. MaxBatches |-> <<k, i>>]
<1>6. f \in Injection(1 .. MaxBatches, Accepted)
  <2>1. \A i \in 1 .. MaxBatches : f[i] \in Accepted
    BY <1>1, <1>3 DEF Accepted, Batches, KeyOf
  <2>2. \A i, j \in 1 .. MaxBatches : f[i] = f[j] => i = j
    OBVIOUS
  <2> QED
    BY <2>1, <2>2 DEF Injection, IsInjective
<1>7. Cardinality(1 .. MaxBatches) <= Cardinality(Accepted)
  BY <1>5, <1>6, FS_Injection
<1>8. Cardinality(1 .. MaxBatches) = MaxBatches
  BY <1>1, FS_Interval
<1>9. Cardinality(Accepted) \in Nat
  BY <1>5, FS_CardinalityType
<1> QED
  BY <1>1, <1>7, <1>8, <1>9

LEMMA TypeAdd == ASSUME TypeInv, NEW k \in Keys, Add(k) PROVE TypeInv'
<1>1. added[k] + 1 \in 1 .. MaxBatches
  BY AcceptedBound DEF Add
<1>2. <<k, added[k] + 1>> \in Batches
  BY <1>1 DEF Batches
<1>3. added' \in [Keys -> 0 .. MaxBatches]
  BY <1>1 DEF Add, TypeInv, TypeOK
<1>4. TypeOK'
  BY <1>2, <1>3 DEF Add, Claim, TypeInv, TypeOK
<1> QED
  BY <1>4 DEF Add, TypeInv, HandsOK, SlotOK

LEMMA TypeAddFills == ASSUME TypeInv, NEW k \in Keys, AddFills(k) PROVE TypeInv'
  BY Extended
     DEF AddFills, TypeInv, TypeOK, HandsOK, SlotOK

LEMMA TypeWorkerPass == ASSUME TypeInv, NEW K \in SUBSET Keys, WorkerPass(K) PROVE TypeInv'
<1>1. /\ \A k \in Keys : /\ sealed[k] \in Seq(Batches)
                         /\ k \in K => builder[k] \in Batches
      /\ <<>> \in Seq(Batches)
  BY SendAssumption DEF WorkerPass, TypeInv, TypeOK
<1>2. work' \in [Keys -> Seq(Batches)]
  <2>1. \A k \in Keys : k \in K => Append(sealed[k], builder[k]) \in Seq(Batches)
    BY <1>1, Extended
  <2> QED
    BY <1>1, <2>1 DEF WorkerPass
<1>3. sealed' \in [Keys -> Seq(Batches)] /\ builder' \in [Keys -> Batches \cup {None}]
  BY <1>1 DEF WorkerPass, TypeInv, TypeOK
<1>4. TypeOK'
  BY <1>2, <1>3 DEF WorkerPass, TypeInv, TypeOK
<1> QED
  BY <1>4 DEF WorkerPass, TypeInv, HandsOK, SlotOK

LEMMA TypeReserve == ASSUME TypeInv, NEW k \in Keys, Reserve(k) PROVE TypeInv'
<1> USE DEF Reserve, Claim, Settle, TypeInv, TypeOK, HandsOK, SlotOK, Holding,
           HasTask, SenderStates, Results
<1>1. work' \in [Keys -> Seq(Batches)] /\ result' \in [Batches -> Results]
  <2>1. Head(work[k]) \in Batches /\ Tail(work[k]) \in Seq(Batches)
    BY Emptied
  <2> QED
    BY <2>1
<1>2. worker' = "reserved" => slot' \in Keys /\ work'[slot'] # <<>>
  OBVIOUS
<1>0. /\ live' \subseteq Keys /\ idle' \subseteq Keys /\ slot' \in Keys \cup {None}
      /\ worker' \in {"idle", "flushing", "reserved", "rollback", "exited"}
  OBVIOUS
<1>3. TypeOK'
  <2>1. UNCHANGED <<buildVars, sendQ, tasks, inflight, ready, delayed, due, senderVars,
                    credVars, retained, expired, endVars>> /\ TypeOK
    OBVIOUS
  <2> HIDE DEF Reserve, TypeInv, HandsOK, SlotOK, Claim, Settle
  <2> QED
    BY <1>0, <1>1, <2>1
<1>4. SlotOK'
  BY <1>2
<1> QED
  BY <1>3, <1>4

LEMMA TypePush == ASSUME TypeInv, Push PROVE TypeInv'
<1> USE DEF Push, HasRoom, TypeInv, TypeOK, HandsOK, SlotOK, Holding,
           HasTask, SenderStates, Results
<1>1. slot \in Keys /\ work[slot] \in Seq(Batches) /\ work[slot] # <<>>
  OBVIOUS
<1>2. Head(work[slot]) \in Batches /\ Tail(work[slot]) \in Seq(Batches)
  BY <1>1, Emptied
<1>3. sendQ' \in Seq(Batches) /\ Len(sendQ') = Len(sendQ) + 1
  BY <1>2, Extended
<1>4. Len(sendQ') <= Cap
  BY <1>3, LenProperties, SendAssumption
<1>5. work' \in [Keys -> Seq(Batches)]
  BY <1>1, <1>2
<1>6. TypeOK'
  BY <1>3, <1>4, <1>5
<1> QED
  BY <1>6

LEMMA TypePushFails == ASSUME TypeInv, PushFails PROVE TypeInv'
  BY Emptied
     DEF PushFails, Settle, TypeInv, TypeOK, HandsOK, SlotOK, Results

LEMMA TypeRollback == ASSUME TypeInv, Rollback PROVE TypeInv'
  BY DEF Rollback, FreeAll, TypeInv, TypeOK, HandsOK, SlotOK

LEMMA TypeWorkerDone == ASSUME TypeInv, WorkerDone PROVE TypeInv'
  BY DEF WorkerDone, TypeInv, TypeOK, HandsOK, SlotOK

LEMMA TypeWorkerExit == ASSUME TypeInv, WorkerExit PROVE TypeInv'
  BY DEF WorkerExit, TypeInv, TypeOK, HandsOK, SlotOK

LEMMA TypeScanReady ==
    ASSUME TypeInv, ListedFull, NEW s \in Senders, NEW k \in Keys, ScanReady(s, k)
    PROVE  TypeInv'
<1> USE DEF ScanReady, TypeInv, TypeOK, HandsOK, SlotOK, Holding, HasTask,
           SenderStates
<1>1. tasks[k] \in Seq(Batches) /\ tasks[k] # <<>>
  BY DEF ReadyAfterPromotion, ListedFull
<1> DEFINE b == Head(tasks[k])
<1>2. b \in Batches /\ Tail(tasks[k]) \in Seq(Batches)
  BY <1>1, Emptied
<1>3. tasks' \in [Keys -> Seq(Batches)]
  BY <1>2
<1>4. /\ ready' \subseteq Keys /\ delayed' \subseteq Keys /\ due' \subseteq Keys
      /\ inflight' \subseteq Keys
  BY DEF ReadyAfterPromotion, Promoted
<1>5. key' \in [Senders -> Keys \cup {None}] /\ key'[s] # None
  BY SendAssumption
<1>6. /\ task' \in [Senders -> Batches \cup {None}]
      /\ pc' \in [Senders -> SenderStates] /\ pc'[s] \in Holding
      /\ pc'[s] \in HasTask => task'[s] \in Batches
      /\ \A t \in Senders \ {s} : pc'[t] = pc[t] /\ task'[t] = task[t] /\ key'[t] = key[t]
  BY <1>2
<1>7. retained' \subseteq Batches /\ expired' \subseteq Batches /\ result' \in [Batches -> Results]
  <2>1. CASE Popped(b) = "none"
    BY <2>1
  <2>2. CASE Popped(b) # "none"
    <3>1. Popped(b) \in Results
      BY DEF Popped, Results
    <3> QED
      BY <2>2, <3>1, <1>2 DEF Settle, Release
  <2> QED
    BY <2>1, <2>2
<1>8. TypeOK'
  BY <1>3, <1>4, <1>5, <1>6, <1>7
<1>9. HandsOK'
  BY <1>5, <1>6
<1> QED
  BY <1>8, <1>9

LEMMA TypeScanNothing == ASSUME TypeInv, NEW s \in Senders, ScanNothing(s) PROVE TypeInv'
  BY DEF ScanNothing, TypeInv, TypeOK, HandsOK, SlotOK, Holding, HasTask,
           SenderStates

LEMMA TypeTake == ASSUME TypeInv, NEW s \in Senders, Take(s) PROVE TypeInv'
<1> USE DEF Take, TypeInv, TypeOK, HandsOK, SlotOK, Holding,
           HasTask, SenderStates, Results
<1>1. Head(sendQ) \in Batches /\ Tail(sendQ) \in Seq(Batches) /\ Len(Tail(sendQ)) = Len(sendQ) - 1
  BY Emptied
<1>2. sendQ' \in Seq(Batches) /\ Len(sendQ') <= Cap
  BY <1>1, LenProperties, SendAssumption
<1>3. TypeOK'
  BY <1>1, <1>2
<1>4. HandsOK'
  BY <1>1
<1> QED
  BY <1>3, <1>4

LEMMA TypeTakeNothing == ASSUME TypeInv, NEW s \in Senders, TakeNothing(s) PROVE TypeInv'
  BY DEF TakeNothing, TypeInv, TypeOK, HandsOK, SlotOK, Holding, HasTask,
           SenderStates

LEMMA TypeInbound == ASSUME TypeInv, NEW s \in Senders, Inbound(s) PROVE TypeInv'
<1> USE DEF Inbound, TypeInv, TypeOK, HandsOK, SlotOK, Holding, HasTask,
           SenderStates
<1> DEFINE b == task[s]
<1> DEFINE k == KeyOf(b)
<1>1. b \in Batches /\ k \in Keys
  BY KeyOfBatch
<1>2. tasks' \in [Keys -> Seq(Batches)]
  <2>1. Append(tasks[k], b) \in Seq(Batches)
    BY <1>1, Extended
  <2> HIDE DEF b, k
  <2>2. tasks' = tasks \/ tasks' = [tasks EXCEPT ![k] = Append(@, b)]
    BY DEF b, k
  <2> QED
    <3>1. tasks \in [Keys -> Seq(Batches)]
      OBVIOUS
    <3> HIDE DEF Inbound, TypeInv, TypeOK, HandsOK
    <3> QED
      BY <2>1, <2>2, <1>1, <3>1
<1>3. live' \subseteq Keys /\ idle' \subseteq Keys /\ ready' \subseteq Keys
  BY <1>1 DEF Claim
<1>4. result' \in [Batches -> Results]
  BY <1>1 DEF Settle, Results
<1>5. task' \in [Senders -> Batches \cup {None}] /\ pc' \in [Senders -> SenderStates]
  OBVIOUS
<1>6. TypeOK'
  BY <1>2, <1>3, <1>4, <1>5
<1>7. HandsOK'
  OBVIOUS
<1> QED
  BY <1>6, <1>7

LEMMA TypeRelockLeaving == ASSUME TypeInv, NEW s \in Senders, RelockLeaving(s) PROVE TypeInv'
  BY DEF RelockLeaving, TypeInv, TypeOK, HandsOK, SlotOK, Holding, HasTask,
           SenderStates

LEMMA TypeAgain ==
    ASSUME TypeInv, NEW s \in Senders, NEW K \in SUBSET Keys, Again(s, K)
    PROVE  TypeInv'
<1> USE DEF Again, FreeAll, TypeInv, TypeOK, HandsOK, SlotOK, Holding, HasTask,
           SenderStates
<1>1. tasks' \in [Keys -> Seq(Batches)] /\ builder' \in [Keys -> Batches \cup {None}]
  OBVIOUS
<1>2. /\ live' \subseteq Keys /\ ready' \subseteq Keys /\ delayed' \subseteq Keys
      /\ due' \subseteq Keys /\ idle' \subseteq Keys
  OBVIOUS
<1>3. pc' \in [Senders -> SenderStates]
  OBVIOUS
<1>4. TypeOK'
  BY <1>1, <1>2, <1>3
<1>5. HandsOK'
  OBVIOUS
<1> QED
  BY <1>4, <1>5

LEMMA TypeLeave == ASSUME TypeInv, NEW s \in Senders, Leave(s) PROVE TypeInv'
  BY DEF Leave, TypeInv, TypeOK, HandsOK, SlotOK, Holding, HasTask,
           SenderStates

(* What End does to the sender and to its batch.                            *)
LEMMA Ended ==
    ASSUME TypeInv, NEW s \in Senders, pc[s] \in HasTask, pc[s] \in Holding,
           NEW r \in Results, End(s, r)
    PROVE  /\ result' \in [Batches -> Results]
           /\ retained' \subseteq Batches /\ expired' \subseteq Batches
           /\ task' \in [Senders -> Batches \cup {None}] /\ version' \in [Senders -> Nat]
           /\ tries' \in [Senders -> Nat] /\ entered' \subseteq Senders
           /\ pc' \in [Senders -> SenderStates] /\ leaked' = leaked
           /\ key' = key => HandsOK'
  BY DEF End, Settle, Release, TypeInv, TypeOK, HandsOK, Holding, HasTask, SenderStates

(* ... and PutBack to the queue.                                            *)
LEMMA PutBackTypes ==
    ASSUME TypeInv, NEW s \in Senders, pc[s] \in HasTask, pc[s] \in Holding, PutBack(s)
    PROVE  /\ tasks' \in [Keys -> Seq(Batches)]
           /\ inflight' \subseteq Keys /\ ready' \subseteq Keys /\ idle' \subseteq Keys
           /\ delayed' \subseteq Keys /\ due' \subseteq Keys
           /\ task' \in [Senders -> Batches \cup {None}] /\ version' \in [Senders -> Nat]
           /\ tries' \in [Senders -> Nat] /\ entered' \subseteq Senders
           /\ key' \in [Senders -> Keys \cup {None}]
           /\ pc' \in [Senders -> SenderStates] /\ HandsOK'
<1> USE DEF PutBack, InFront, TypeInv, TypeOK, HandsOK, Holding, HasTask, SenderStates
<1>1. key[s] \in Keys /\ task[s] \in Batches
  OBVIOUS
<1>2. <<task[s]>> \o tasks[key[s]] \in Seq(Batches)
  BY <1>1, Extended
<1>3. tasks' \in [Keys -> Seq(Batches)]
  BY <1>1, <1>2
<1> QED
  BY <1>1, <1>3

LEMMA TypePassGate == ASSUME TypeInv, NEW s \in Senders, PassGate(s) PROVE TypeInv'
  BY DEF PassGate, TypeInv, TypeOK, HandsOK, SlotOK, Holding, HasTask, SenderStates

LEMMA TypeEnterBreaker == ASSUME TypeInv, NEW s \in Senders, EnterBreaker(s) PROVE TypeInv'
  BY DEF EnterBreaker, TypeInv, TypeOK, HandsOK, SlotOK, Holding, HasTask, SenderStates

LEMMA TypeRetry == ASSUME TypeInv, NEW s \in Senders, Retry(s) PROVE TypeInv'
  BY DEF Retry, TypeInv, TypeOK, HandsOK, SlotOK, Holding, HasTask, SenderStates

LEMMA TypeDefer == ASSUME TypeInv, NEW s \in Senders, Defer(s) PROVE TypeInv'
<1>1. pc[s] \in HasTask /\ pc[s] \in Holding /\ PutBack(s)
  BY DEF Defer, HasTask, Holding
<1>2. leaked' \in Nat
  BY DEF Defer, TypeInv, TypeOK
<1>3. TypeOK'
  BY <1>1, <1>2, PutBackTypes DEF Defer, TypeInv, TypeOK
<1> QED
  BY <1>1, <1>3, PutBackTypes DEF Defer, TypeInv, SlotOK

LEMMA TypeEndsTooOld == ASSUME TypeInv, NEW s \in Senders, EndsTooOld(s) PROVE TypeInv'
<1>1. pc[s] \in HasTask /\ pc[s] \in Holding /\ "failed" \in Results /\ End(s, "failed")
  BY DEF EndsTooOld, HasTask, Holding, Results
<1>2. TypeOK'
  BY <1>1, Ended DEF EndsTooOld, TypeInv, TypeOK
<1> QED
  BY <1>1, <1>2, Ended DEF EndsTooOld, TypeInv, SlotOK

LEMMA TypeRequest == ASSUME TypeInv, NEW s \in Senders, Request(s) PROVE TypeInv'
  BY DEF Request, TypeInv, TypeOK, HandsOK, SlotOK, Holding, HasTask,
           SenderStates

LEMMA TypeDelivered == ASSUME TypeInv, NEW s \in Senders, Delivered(s) PROVE TypeInv'
<1>1. pc[s] \in HasTask /\ pc[s] \in Holding /\ "ok" \in Results /\ End(s, "ok")
  BY DEF Delivered, HasTask, Holding, Results
<1>2. TypeOK'
  BY <1>1, Ended DEF Delivered, TypeInv, TypeOK
<1> QED
  BY <1>1, <1>2, Ended DEF Delivered, TypeInv, SlotOK

LEMMA TypeRejected == ASSUME TypeInv, NEW s \in Senders, Rejected(s) PROVE TypeInv'
<1>1. pc[s] \in HasTask /\ pc[s] \in Holding /\ "failed" \in Results /\ End(s, "failed")
  BY DEF Rejected, HasTask, Holding, Results
<1>2. TypeOK'
  BY <1>1, Ended DEF Rejected, TypeInv, TypeOK
<1> QED
  BY <1>1, <1>2, Ended DEF Rejected, TypeInv, SlotOK

LEMMA TypeRefused == ASSUME TypeInv, NEW s \in Senders, Refused(s) PROVE TypeInv'
<1> USE DEF Refused, RefusedVersion, TypeInv, TypeOK, HandsOK, SlotOK, Holding, HasTask,
           SenderStates
<1>0. version[s] \in Nat /\ credVersion \in Nat
  OBVIOUS
<1>1. version' \in [Senders -> Nat] /\ refused' \subseteq Nat /\ pc' \in [Senders -> SenderStates]
  <2>1. version' \in [Senders -> Nat]
    BY <1>0
  <2>2. refused' \subseteq Nat
    BY <1>0
  <2>3. pc' \in [Senders -> SenderStates]
    OBVIOUS
  <2> QED
    BY <2>1, <2>2, <2>3
<1>2. TypeOK'
  BY <1>1
<1>3. HandsOK'
  OBVIOUS
<1> QED
  BY <1>2, <1>3

LEMMA TypeTransientFailure ==
    ASSUME TypeInv, NEW s \in Senders, TransientFailure(s)
    PROVE  TypeInv'
<1>1. pc[s] \in HasTask /\ pc[s] \in Holding
  BY DEF TransientFailure, HasTask, Holding
<1>2. CASE /\ PutBack(s) /\ LearnsNothing(task[s])
           /\ retained' = retained \cup {task[s]} /\ UNCHANGED <<expired, leaked>>
  <2>1. task[s] \in Batches
    BY <1>1 DEF TypeInv, HandsOK
  <2>2. TypeOK'
    BY <1>1, <1>2, <2>1, PutBackTypes DEF TransientFailure, LearnsNothing, TypeInv, TypeOK
  <2> QED
    BY <1>1, <1>2, <2>2, PutBackTypes DEF TransientFailure, TypeInv, SlotOK
<1>3. ASSUME NEW r \in Results, End(s, r),
             UNCHANGED <<tasks, inflight, ready, delayed, due, idle, key>>
      PROVE  TypeInv'
  <2>1. TypeOK'
    BY <1>1, <1>3, Ended DEF TransientFailure, TypeInv, TypeOK
  <2> QED
    BY <1>1, <1>3, <2>1, Ended DEF TransientFailure, TypeInv, SlotOK
<1>4. "failed" \in Results /\ "kept" \in Results /\ "closed" \in Results
  BY DEF Results
<1> QED
  BY <1>2, <1>3, <1>4 DEF TransientFailure

LEMMA TypeAuthWaitEnds == ASSUME TypeInv, NEW s \in Senders, AuthWaitEnds(s) PROVE TypeInv'
<1>1. pc[s] \in HasTask /\ pc[s] \in Holding /\ "kept" \in Results
  BY DEF AuthWaitEnds, HasTask, Holding, Results
<1>2. CASE Open
  BY <1>2 DEF AuthWaitEnds, TypeInv, TypeOK, HandsOK, SlotOK, Holding, HasTask,
           SenderStates
<1>3. CASE ~Open
  <2>1. End(s, "kept")
    BY <1>3 DEF AuthWaitEnds
  <2>2. TypeOK'
    BY <1>1, <2>1, Ended DEF AuthWaitEnds, TypeInv, TypeOK
  <2> QED
    BY <1>1, <2>1, <2>2, Ended DEF AuthWaitEnds, TypeInv, SlotOK
<1> QED
  BY <1>2, <1>3

LEMMA FreedTypes ==
    ASSUME TypeOK, NEW K \in SUBSET Keys, FreeAll(K)
    PROVE  /\ tasks' \in [Keys -> Seq(Batches)] /\ builder' \in [Keys -> Batches \cup {None}]
           /\ live' \subseteq Keys /\ ready' \subseteq Keys /\ delayed' \subseteq Keys
           /\ due' \subseteq Keys /\ idle' \subseteq Keys
<1>1. tasks' \in [Keys -> Seq(Batches)]
  <2>1. <<>> \in Seq(Batches) /\ \A k \in Keys : tasks[k] \in Seq(Batches)
    BY DEF TypeOK
  <2> QED
    BY <2>1 DEF FreeAll
<1>2. builder' \in [Keys -> Batches \cup {None}]
  BY DEF FreeAll, TypeOK
<1> QED
  BY <1>1, <1>2 DEF FreeAll, TypeOK

LEMMA TypeFinish == ASSUME TypeInv, NEW s \in Senders, Finish(s) PROVE TypeInv'
<1>1. key[s] \in Keys /\ TypeOK
  BY DEF Finish, TypeInv, TypeOK, HandsOK, Holding
<1>2. /\ tasks' \in [Keys -> Seq(Batches)] /\ builder' \in [Keys -> Batches \cup {None}]
      /\ live' \subseteq Keys /\ ready' \subseteq Keys /\ delayed' \subseteq Keys
      /\ due' \subseteq Keys /\ idle' \subseteq Keys
  <2>1. CASE UNCHANGED <<live, tasks, builder>>
    <3>1. /\ ready' \subseteq ready \cup {key[s]} /\ delayed' \subseteq delayed \cup {key[s]}
          /\ due' \subseteq due /\ idle' \subseteq idle \cup {key[s]}
      <4>1. CASE FreeAll({key[s]})
        <5>1. ready' = ready \ {key[s]} /\ delayed' = delayed \ {key[s]}
              /\ due' = due \ {key[s]} /\ idle' = idle \ {key[s]} /\ live' = live \ {key[s]}
          BY <4>1 DEF FreeAll
        <5> QED
          BY <5>1
      <4> QED
        BY <4>1 DEF Finish
    <3> QED
      BY <2>1, <3>1, <1>1 DEF TypeOK
  <2>2. CASE FreeAll({key[s]})
    BY <1>1, <2>2, FreedTypes
  <2> QED
    BY <2>1, <2>2 DEF Finish
<1>3. inflight' \subseteq Keys
  BY <1>1 DEF Finish, TypeOK
<1>4. key' \in [Senders -> Keys \cup {None}] /\ pc' \in [Senders -> SenderStates]
  BY <1>1 DEF Finish, TypeOK, SenderStates
<1>5. UNCHANGED <<added, sealed, workVars, sendQ, task, version, passVars, credVars, fateVars,
                  endVars>>
  BY DEF Finish
<1>6. TypeOK'
  BY <1>1, <1>2, <1>3, <1>4, <1>5 DEF TypeOK
<1>7. HandsOK'
  <2>1. pc'[s] = "scan" /\ key'[s] = None
    BY DEF Finish, TypeInv, TypeOK
  <2>2. \A t \in Senders \ {s} : pc'[t] = pc[t] /\ key'[t] = key[t] /\ task'[t] = task[t]
    BY DEF Finish, TypeInv, TypeOK
  <2> QED
    BY <2>1, <2>2 DEF TypeInv, HandsOK, Holding, HasTask
<1>8. SlotOK'
  BY <1>5 DEF TypeInv, SlotOK
<1> QED
  BY <1>6, <1>7, <1>8 DEF TypeInv

LEMMA TypeRetryDue == ASSUME TypeInv, NEW k \in Keys, RetryDue(k) PROVE TypeInv'
  BY DEF RetryDue, TypeInv, TypeOK, HandsOK, SlotOK

LEMMA TypeExpire == ASSUME TypeInv, NEW b \in Batches, Expire(b) PROVE TypeInv'
  BY DEF Expire, TypeInv, TypeOK, HandsOK, SlotOK

LEMMA TypeNetworkRecovered == ASSUME TypeInv, NetworkRecovered PROVE TypeInv'
  BY DEF NetworkRecovered, TypeInv, TypeOK, HandsOK, SlotOK

LEMMA TypeUpdateCredentials == ASSUME TypeInv, UpdateCredentials PROVE TypeInv'
  BY DEF UpdateCredentials, TypeInv, TypeOK, HandsOK, SlotOK

LEMMA TypeCloseBegin == ASSUME TypeInv, CloseBegin PROVE TypeInv'
  BY DEF CloseBegin, WaitingRetained, TypeInv, TypeOK, HandsOK, SlotOK

LEMMA TypeCloseDrained == ASSUME TypeInv, CloseDrained PROVE TypeInv'
  BY DEF CloseDrained, TypeInv, TypeOK, HandsOK, SlotOK

LEMMA TypeDestroy == ASSUME TypeInv, Destroy PROVE TypeInv'
  BY DEF Destroy, WaitingRetained, TypeInv, TypeOK, HandsOK, SlotOK

LEMMA TypeStopSendQueue == ASSUME TypeInv, StopSendQueue PROVE TypeInv'
  BY DEF StopSendQueue, TypeInv, TypeOK, HandsOK, SlotOK


LEMMA TypeInit == ASSUME Init PROVE TypeInv
<1>1. <<>> \in Seq(Batches) /\ Len(<<>>) = 0
  BY EmptySeq
<1>2. sendQ \in Seq(Batches) /\ Len(sendQ) <= Cap
  BY <1>1, SendAssumption DEF Init
<1>3. added \in [Keys -> 0 .. MaxBatches] /\ builder \in [Keys -> Batches \cup {None}]
  BY SendAssumption DEF Init
<1>4. /\ sealed \in [Keys -> Seq(Batches)] /\ work \in [Keys -> Seq(Batches)]
      /\ tasks \in [Keys -> Seq(Batches)]
  BY <1>1 DEF Init
<1>5. result \in [Batches -> Results]
  BY DEF Init, Results
<1>6. TypeOK
  BY <1>2, <1>3, <1>4, <1>5 DEF Init, TypeOK, SenderStates
<1>7. HandsOK /\ SlotOK
  BY DEF Init, HandsOK, SlotOK, Holding, HasTask
<1> QED
  BY <1>6, <1>7 DEF TypeInv

-------------------------------------------------------------------------------
(* Exclusive, in terms of the keys in the senders' hands alone.              *)
HeldOnce ==
    /\ \A s, t \in Senders : s # t /\ key[s] # None => key[s] # key[t]
    /\ \A s \in Senders : key[s] # None => key[s] \in inflight
    /\ \A k \in inflight : \E s \in Senders : key[s] = k
    /\ \A k \in inflight : k \notin ready /\ k \notin delayed /\ k \notin idle

ScheduledOnce ==
    /\ \A k \in Keys : tasks[k] # <<>> => k \in ready \/ k \in delayed \/ k \in inflight
    /\ \A k \in ready : tasks[k] # <<>> /\ k \notin delayed
    /\ \A k \in delayed : tasks[k] # <<>>
    /\ \A k \in due : k \in delayed
    /\ \A k \in idle : tasks[k] = <<>>

QueueInv == TypeInv /\ HeldOnce /\ ScheduledOnce

LEMMA QueueInvExclusive == ASSUME QueueInv PROVE Exclusive
<1> USE DEF QueueInv, HeldOnce
<1>1. {key[s] : s \in {t \in Senders : pc[t] \in Holding}} \subseteq inflight
  BY DEF TypeInv, HandsOK
<1>2. inflight \subseteq {key[s] : s \in {t \in Senders : pc[t] \in Holding}}
  BY SendAssumption DEF TypeInv, TypeOK, HandsOK
<1>3. inflight \cap (ready \cup delayed \cup idle) = {}
  OBVIOUS
<1> QED
  BY <1>1, <1>2, <1>3 DEF Exclusive

LEMMA QueueInvScheduled == ASSUME QueueInv PROVE Scheduled /\ ListedFull
  BY DEF QueueInv, ScheduledOnce, Scheduled, ListedFull

LEMMA QueueInit == ASSUME Init PROVE QueueInv
  BY TypeInit, SendAssumption DEF Init, QueueInv, HeldOnce, ScheduledOnce

(* Most steps touch no key queue, at most the idle list.                     *)
QueuesKept == UNCHANGED <<key, inflight, ready, delayed, due, tasks>> /\ idle' \subseteq idle

LEMMA KeptQueues == ASSUME QueueInv, TypeInv', QueuesKept PROVE QueueInv'
  BY DEF QueueInv, QueuesKept, HeldOnce, ScheduledOnce

(* What is freed is empty, and so it is on no list but the idle one.         *)
LEMMA FreedQueues ==
    ASSUME QueueInv, TypeInv', NEW K \in SUBSET Keys, \A k \in K : tasks[k] = <<>>,
           FreeAll(K), UNCHANGED <<key, inflight>>
    PROVE  QueueInv'
<1> USE DEF QueueInv, TypeInv, TypeOK, FreeAll
<1>1. tasks' = tasks
  OBVIOUS
<1>2. ready' = ready /\ delayed' = delayed /\ due' = due
  BY DEF ScheduledOnce
<1>3. idle' \subseteq idle
  OBVIOUS
<1> QED
  BY <1>1, <1>2, <1>3, KeptQueues DEF QueuesKept

(* The sender that lets go of a key was its only holder.                     *)
LEMMA LetGo ==
    ASSUME QueueInv, NEW s \in Senders, key[s] # None,
           key' = [key EXCEPT ![s] = None], inflight' = inflight \ {key[s]},
           \A k \in Keys \ {key[s]} : k \in ready' \/ k \in delayed' \/ k \in idle'
                                        => k \in ready \/ k \in delayed \/ k \in idle
    PROVE  HeldOnce'
<1> USE DEF QueueInv, TypeInv, TypeOK, HeldOnce
<1>1. key'[s] = None /\ \A t \in Senders \ {s} : key'[t] = key[t]
  OBVIOUS
<1>2. \A t \in Senders : key'[t] # None => key'[t] \in inflight'
  BY <1>1
<1>3. \A k \in inflight' : \E t \in Senders : key'[t] = k
  BY <1>1
<1>4. \A k \in inflight' : k \notin ready' /\ k \notin delayed' /\ k \notin idle'
  OBVIOUS
<1>5. \A t, u \in Senders : t # u /\ key'[t] # None => key'[t] # key'[u]
  BY <1>1
<1> QED
  BY <1>2, <1>3, <1>4, <1>5

LEMMA QueueScanReady ==
    ASSUME QueueInv, TypeInv', NEW s \in Senders, NEW k \in Keys, ScanReady(s, k)
    PROVE  QueueInv'
<1> USE DEF QueueInv, TypeInv, TypeOK, ScanReady
<1>1. k \notin inflight
  BY DEF ReadyAfterPromotion, HeldOnce
<1>2. key[s] = None
  BY DEF HandsOK, Holding
<1>3. key'[s] = k /\ \A t \in Senders \ {s} : key'[t] = key[t]
  OBVIOUS
<1>4. k # None
  BY SendAssumption
<1>5. k \notin idle' /\ k \notin ready' /\ k \notin delayed'
  <2>1. k \notin idle
    BY DEF ReadyAfterPromotion, HeldOnce, ScheduledOnce
  <2>2. k \notin delayed'
    BY DEF ReadyAfterPromotion, ScheduledOnce, Promoted
  <2> QED
    BY <2>1, <2>2
<1>6. HeldOnce'
  <2>1. \A t, u \in Senders : t # u /\ key'[t] # None => key'[t] # key'[u]
    <3>1. \A t \in Senders : key[t] # k
      BY <1>1, <1>4 DEF HeldOnce
    <3>2. \A t, u \in Senders : t # u /\ key[t] # None => key[t] # key[u]
      BY DEF HeldOnce
    <3> HIDE DEF QueueInv, TypeInv, TypeOK, ScanReady
    <3> QED
      BY <1>3, <3>1, <3>2
  <2>2. \A t \in Senders : key'[t] # None => key'[t] \in inflight'
    BY <1>3 DEF HeldOnce
  <2>3. \A j \in inflight' : \E t \in Senders : key'[t] = j
    BY <1>2, <1>3, SendAssumption DEF HeldOnce
  <2>4. \A j \in inflight' : j \notin ready' /\ j \notin delayed' /\ j \notin idle'
    BY <1>5 DEF HeldOnce, ReadyAfterPromotion
  <2> QED
    BY <2>1, <2>2, <2>3, <2>4 DEF HeldOnce
<1>7. ScheduledOnce'
  <2>1. \A j \in Keys \ {k} : tasks'[j] = tasks[j]
    OBVIOUS
  <2>2. \A j \in Keys : tasks'[j] # <<>> => j \in ready' \/ j \in delayed' \/ j \in inflight'
    BY <2>1 DEF ScheduledOnce, ReadyAfterPromotion
  <2>3. \A j \in ready' : tasks'[j] # <<>> /\ j \notin delayed'
    BY <2>1 DEF ScheduledOnce, ReadyAfterPromotion
  <2>4. \A j \in delayed' : tasks'[j] # <<>>
    BY <2>1, <1>5 DEF ScheduledOnce
  <2>5. \A j \in due' : j \in delayed'
    BY DEF ScheduledOnce
  <2>6. \A j \in idle' : tasks'[j] = <<>>
    BY <2>1, <1>5 DEF ScheduledOnce
  <2> QED
    BY <2>2, <2>3, <2>4, <2>5, <2>6 DEF ScheduledOnce
<1> QED
  BY <1>6, <1>7

LEMMA QueueScanNothing ==
    ASSUME QueueInv, TypeInv', NEW s \in Senders, ScanNothing(s) PROVE QueueInv'
<1> USE DEF QueueInv, ScanNothing, ReadyAfterPromotion
<1>1. HeldOnce'
  BY DEF HeldOnce
<1>2. \A k \in Promoted : k \in delayed
  BY DEF Promoted, ScheduledOnce
<1>3. delayed' = delayed /\ due' = due
  BY <1>2 DEF HeldOnce, ScheduledOnce
<1> QED
  BY <1>1, <1>3 DEF ScheduledOnce

LEMMA QueueInbound ==
    ASSUME QueueInv, TypeInv', NEW s \in Senders, Inbound(s) PROVE QueueInv'
<1> USE DEF QueueInv, TypeInv, TypeOK
<1> DEFINE b == task[s]
<1> DEFINE k == KeyOf(b)
<1>1. b \in Batches /\ k \in Keys
  BY KeyOfBatch DEF Inbound, HandsOK, HasTask
<1>2. CASE ~HasSlot(k)
  BY <1>2, KeptQueues DEF Inbound, QueuesKept
<1>3. CASE HasSlot(k)
  <2> HIDE DEF b, k
  <2>1. /\ tasks' = [tasks EXCEPT ![k] = Append(@, b)]
        /\ ready' = IF tasks[k] = <<>> /\ MayBeReady(k) THEN ready \cup {k} ELSE ready
        /\ idle' = idle \ {k}
        /\ UNCHANGED <<inflight, delayed, due, key>>
    BY <1>3 DEF Inbound, Claim, b, k
  <2>2. tasks'[k] # <<>> /\ \A j \in Keys \ {k} : tasks'[j] = tasks[j]
    BY <1>1, <2>1, Extended
  <2>3. HeldOnce'
    BY <2>1 DEF HeldOnce, MayBeReady
  <2>4. ScheduledOnce'
    <3>1. tasks[k] = <<>> => k \in ready' \/ k \in delayed \/ k \in inflight
      BY <2>1 DEF MayBeReady
    <3>2. ready' \subseteq ready \cup {k} /\ ready \subseteq ready'
      BY <2>1
    <3>3. k \in ready' => k \notin delayed
      BY <2>1, <1>1 DEF ScheduledOnce, MayBeReady
    <3>4. \A j \in Keys : tasks'[j] # <<>> => j \in ready' \/ j \in delayed' \/ j \in inflight'
      <4>1. \A j \in Keys : tasks[j] # <<>> => j \in ready \/ j \in delayed \/ j \in inflight
        BY DEF ScheduledOnce
      <4>2. tasks[k] # <<>> => k \in ready \/ k \in delayed \/ k \in inflight
        BY <1>1, <4>1
      <4>3. k \in ready' \/ k \in delayed' \/ k \in inflight'
        BY <2>1, <3>1, <3>2, <4>2
      <4> HIDE DEF QueueInv, TypeInv, TypeOK, Inbound
      <4> QED
        BY <2>1, <2>2, <3>2, <4>1, <4>3
    <3> QED
      BY <1>1, <2>1, <2>2, <3>2, <3>3, <3>4 DEF ScheduledOnce
  <2> QED
    BY <2>3, <2>4
<1> QED
  BY <1>2, <1>3

LEMMA QueuePutBack ==
    ASSUME QueueInv, TypeInv', NEW s \in Senders, pc[s] \in Holding, pc[s] \in HasTask,
           PutBack(s)
    PROVE  QueueInv'
<1> USE DEF QueueInv, TypeInv, TypeOK
<1> DEFINE k == key[s]
<1>1. k \in Keys /\ k # None /\ task[s] \in Batches
  BY DEF HandsOK
<1>2. tasks'[k] # <<>> /\ \A j \in Keys \ {k} : tasks'[j] = tasks[j]
  BY <1>1, Extended DEF PutBack, InFront
<1>3. HeldOnce'
  BY <1>1, LetGo DEF PutBack
<1>4. ScheduledOnce'
  BY <1>1, <1>2 DEF ScheduledOnce, PutBack
<1> QED
  BY <1>3, <1>4

LEMMA QueueFinish ==
    ASSUME QueueInv, TypeInv', NEW s \in Senders, Finish(s) PROVE QueueInv'
<1> USE DEF QueueInv, TypeInv, TypeOK
<1> DEFINE k == key[s]
<1>1. k \in Keys /\ k # None /\ k \in inflight
  BY DEF HandsOK, Holding, HeldOnce, Finish
<1>2. k \notin ready /\ k \notin delayed
  BY <1>1 DEF HeldOnce
<1>3. tasks' = tasks
  BY DEF Finish, FreeAll
<1>4. HeldOnce'
  <2>1. key' = [key EXCEPT ![s] = None] /\ inflight' = inflight \ {k}
    BY DEF Finish
  <2>2. \A j \in Keys \ {k} : j \in ready' \/ j \in delayed' \/ j \in idle'
                                => j \in ready \/ j \in delayed \/ j \in idle
    BY DEF Finish, FreeAll
  <2> QED
    BY <1>1, <2>1, <2>2, LetGo
<1>5. ScheduledOnce'
  <2>1. CASE tasks[k] # <<>>
    BY <1>1, <1>2, <1>3, <2>1 DEF ScheduledOnce, Finish
  <2>2. CASE tasks[k] = <<>>
    <3>1. k \notin due
      BY <1>2 DEF ScheduledOnce
    <3>2. FreeAll({k}) \/ UNCHANGED <<ready, delayed, due>>
      BY <2>2 DEF Finish
    <3>3. ready' = ready /\ delayed' = delayed /\ due' = due
      <4>1. ready \ {k} = ready /\ delayed \ {k} = delayed /\ due \ {k} = due
        BY <1>2, <3>1
      <4> QED
        BY <3>2, <4>1 DEF FreeAll
    <3>4. inflight' = inflight \ {k} /\ idle' \subseteq idle \cup {k}
      BY DEF Finish, FreeAll
    <3> QED
      BY <1>1, <1>3, <2>2, <3>3, <3>4 DEF ScheduledOnce
  <2> QED
    BY <2>1, <2>2
<1> QED
  BY <1>4, <1>5

-------------------------------------------------------------------------------
(* SlotsHeld, for the queues that are not known to have tasks.               *)
SlotsOnce ==
    /\ \A k \in Keys : tasks[k] # <<>> \/ builder[k] # None \/ k \in idle \/ k \in inflight
                         => k \in live
    /\ \A k \in idle : builder[k] = None
    /\ MaxActive > 0 => Cardinality(live) <= MaxActive

SlotInv == QueueInv /\ SlotsOnce

LEMMA SlotInvSlotsHeld == ASSUME SlotInv PROVE SlotsHeld
  BY DEF SlotInv, SlotsOnce, QueueInv, ScheduledOnce, SlotsHeld

LEMMA SlotInit == ASSUME Init PROVE SlotInv
<1>1. Cardinality({}) = 0
  BY FS_EmptySet
<1>2. MaxActive > 0 => Cardinality(live) <= MaxActive
  BY <1>1, SendAssumption DEF Init
<1>3. \A k \in Keys : tasks[k] = <<>> /\ builder[k] = None /\ k \notin idle /\ k \notin inflight
  BY DEF Init
<1>4. idle = {}
  BY DEF Init
<1> QED
  BY <1>2, <1>3, <1>4, QueueInit DEF SlotInv, SlotsOnce

LEMMA FewLive == ASSUME TypeInv PROVE IsFiniteSet(live) /\ Cardinality(live) \in Nat
<1>1. IsFiniteSet(live)
  BY SendAssumption, FS_Subset DEF TypeInv, TypeOK
<1> QED
  BY <1>1, FS_CardinalityType

(* A queue is made only while there are fewer than MaxActive ...              *)
LEMMA ClaimedSlot ==
    ASSUME TypeInv, MaxActive > 0 => Cardinality(live) <= MaxActive, NEW k \in Keys, HasSlot(k),
           live' = live \cup {k}
    PROVE  MaxActive > 0 => Cardinality(live') <= MaxActive
<1>1. CASE k \in live
  <2>1. live' = live
    BY <1>1
  <2> QED
    BY <2>1
<1>2. CASE k \notin live
  <2>1. Cardinality(live') = Cardinality(live) + 1
    BY <1>2, FewLive, FS_AddElement
  <2> QED
    BY <1>2, <2>1, FewLive, SendAssumption DEF HasSlot
<1> QED
  BY <1>1, <1>2

(* ... and freeing some leaves no more.                                      *)
LEMMA FreedSlots ==
    ASSUME TypeInv, MaxActive > 0 => Cardinality(live) <= MaxActive, NEW K, live' = live \ K
    PROVE  MaxActive > 0 => Cardinality(live') <= MaxActive
<1>1. live' \subseteq live
  OBVIOUS
<1>2. Cardinality(live') <= Cardinality(live) /\ Cardinality(live') \in Nat
  BY <1>1, FewLive, FS_Subset, FS_CardinalityType
<1> QED
  BY <1>2, FewLive, SendAssumption

(* Most steps make no use of a queue that was not in use before.              *)
LEMMA KeptSlots ==
    ASSUME SlotInv, live' = live, idle' \subseteq idle,
           \A k \in Keys : builder'[k] # None => builder[k] # None,
           \A k \in Keys : tasks'[k] # <<>> \/ k \in inflight'
                             => tasks[k] # <<>> \/ k \in inflight
    PROVE  SlotsOnce'
  BY DEF SlotInv, QueueInv, TypeInv, TypeOK, SlotsOnce

LEMMA SlotsAdd == ASSUME SlotInv, NEW k \in Keys, Add(k) PROVE SlotsOnce'
<1> USE DEF SlotInv, QueueInv, SlotsOnce, Add, Claim
<1>1. MaxActive > 0 => Cardinality(live') <= MaxActive
  BY ClaimedSlot
<1>2. \A j \in Keys \ {k} : builder'[j] = builder[j]
  BY DEF TypeInv, TypeOK
<1>3. \A j \in Keys : tasks'[j] # <<>> \/ builder'[j] # None \/ j \in idle' \/ j \in inflight'
                        => j \in live'
  BY <1>2
<1>4. \A j \in idle' : builder'[j] = None
  BY <1>2 DEF TypeInv, TypeOK
<1> QED
  BY <1>1, <1>3, <1>4

LEMMA SlotsReserve == ASSUME SlotInv, NEW k \in Keys, Reserve(k) PROVE SlotsOnce'
<1> USE DEF SlotInv, QueueInv
<1>1. CASE HasSlot(k)
  <2>1. live' = live \cup {k} /\ idle' = idle \ {k} /\ UNCHANGED <<tasks, builder, inflight>>
    BY <1>1 DEF Reserve, Claim
  <2>2. MaxActive > 0 => Cardinality(live') <= MaxActive
    BY <1>1, <2>1, ClaimedSlot DEF SlotsOnce
  <2> QED
    BY <2>1, <2>2 DEF SlotsOnce
<1>2. CASE ~HasSlot(k)
  BY <1>2, KeptSlots DEF Reserve
<1> QED
  BY <1>1, <1>2

LEMMA SlotsInbound == ASSUME SlotInv, NEW s \in Senders, Inbound(s) PROVE SlotsOnce'
<1> USE DEF SlotInv, QueueInv, TypeInv, TypeOK
<1> DEFINE b == task[s]
<1> DEFINE k == KeyOf(b)
<1>1. b \in Batches /\ k \in Keys
  BY KeyOfBatch DEF Inbound, HandsOK, HasTask
<1>2. CASE ~HasSlot(k)
  BY <1>2, KeptSlots DEF Inbound
<1>3. CASE HasSlot(k)
  <2> HIDE DEF b, k
  <2>1. /\ tasks' = [tasks EXCEPT ![k] = Append(@, b)]
        /\ live' = live \cup {k} /\ idle' = idle \ {k}
        /\ UNCHANGED <<inflight, builder>>
    BY <1>3 DEF Inbound, Claim, b, k
  <2>2. MaxActive > 0 => Cardinality(live') <= MaxActive
    BY <1>1, <1>3, <2>1, ClaimedSlot DEF SlotsOnce
  <2>3. \A j \in Keys \ {k} : tasks'[j] = tasks[j]
    BY <2>1
  <2>4. \A j \in Keys : tasks'[j] # <<>> \/ builder'[j] # None \/ j \in idle' \/ j \in inflight'
                          => j \in live'
    BY <2>1, <2>3 DEF SlotsOnce
  <2> QED
    BY <2>1, <2>2, <2>4 DEF SlotsOnce
<1> QED
  BY <1>2, <1>3

(* A queue that is freed has no tasks, no builder and no holder.              *)
LEMMA SlotsFreed ==
    ASSUME SlotInv, NEW K \in SUBSET Keys, FreeAll(K), inflight' \subseteq inflight,
           \A k \in K : k \notin inflight'
    PROVE  SlotsOnce'
<1> USE DEF SlotInv, QueueInv, TypeInv, TypeOK, FreeAll
<1>1. MaxActive > 0 => Cardinality(live') <= MaxActive
  BY FreedSlots DEF SlotsOnce
<1>2. \A k \in K : tasks'[k] = <<>> /\ builder'[k] = None /\ k \notin idle'
  OBVIOUS
<1>3. \A k \in Keys \ K : tasks'[k] = tasks[k] /\ builder'[k] = builder[k]
  OBVIOUS
<1>4. \A k \in Keys : tasks'[k] # <<>> \/ builder'[k] # None \/ k \in idle' \/ k \in inflight'
                        => k \in live'
  BY <1>2, <1>3 DEF SlotsOnce
<1>5. \A k \in idle' : builder'[k] = None
  BY <1>3 DEF SlotsOnce
<1> QED
  BY <1>1, <1>4, <1>5 DEF SlotsOnce

LEMMA SlotsFinish == ASSUME SlotInv, NEW s \in Senders, Finish(s) PROVE SlotsOnce'
<1> USE DEF SlotInv, QueueInv, TypeInv, TypeOK
<1> DEFINE k == key[s]
<1>1. k \in Keys /\ k \in inflight /\ inflight' = inflight \ {k}
  BY DEF HandsOK, Holding, HeldOnce, Finish
<1>2. CASE FreeAll({k})
  BY <1>1, <1>2, SlotsFreed
<1>3. CASE UNCHANGED <<live, tasks, builder, idle>>
  BY <1>1, <1>3, KeptSlots
<1>4. CASE idle' = idle \cup {k} /\ ~HasBuilder(k) /\ UNCHANGED <<live, tasks, builder>>
  BY <1>1, <1>4 DEF SlotsOnce, HasBuilder
<1> QED
  BY <1>2, <1>3, <1>4 DEF Finish

LEMMA SlotsScanReady ==
    ASSUME SlotInv, NEW s \in Senders, NEW k \in Keys, ScanReady(s, k) PROVE SlotsOnce'
<1> USE DEF SlotInv, QueueInv, TypeInv, TypeOK, ScanReady
<1>1. tasks[k] # <<>> /\ inflight' = inflight \cup {k}
  BY DEF ReadyAfterPromotion, ScheduledOnce
<1>2. \A j \in Keys \ {k} : tasks'[j] = tasks[j]
  OBVIOUS
<1>3. live' = live /\ idle' = idle /\ builder' = builder
  OBVIOUS
<1> QED
  BY <1>1, <1>2, <1>3, KeptSlots

LEMMA SlotsPutBack ==
    ASSUME SlotInv, NEW s \in Senders, pc[s] \in Holding, PutBack(s),
           UNCHANGED <<live, builder>>
    PROVE  SlotsOnce'
<1> USE DEF SlotInv, QueueInv, TypeInv, TypeOK, PutBack
<1>1. key[s] \in Keys /\ key[s] \in inflight
  BY DEF HandsOK, HeldOnce
<1>2. \A j \in Keys \ {key[s]} : tasks'[j] = tasks[j]
  BY <1>1
<1>3. live' = live /\ idle' \subseteq idle /\ builder' = builder /\ inflight' \subseteq inflight
  OBVIOUS
<1> QED
  BY <1>1, <1>2, <1>3, KeptSlots

-------------------------------------------------------------------------------
(* A sender is suspended for a version that was refused.                     *)
SuspendInv == \A s \in Senders : pc[s] = "authwait" => version[s] \in refused

Inv == SlotInv /\ SuspendInv

LEMMA InvInit == ASSUME Init PROVE Inv
  BY SlotInit DEF Init, Inv, SuspendInv

LEMMA TypeStep == ASSUME TypeInv, ListedFull, Next PROVE TypeInv'
<1>1. CASE Work
  BY <1>1, TypeWorkerPass, TypeReserve, TypePush, TypePushFails, TypeRollback, TypeWorkerDone,
     TypeWorkerExit DEF Work, WorkerStep
<1>2. ASSUME NEW s \in Senders, Sender(s) PROVE TypeInv'
  BY <1>2, TypeScanReady, TypeScanNothing, TypeTake, TypeTakeNothing, TypeInbound,
     TypeRelockLeaving, TypeAgain, TypeLeave, TypePassGate, TypeDefer, TypeEnterBreaker,
     TypeEndsTooOld, TypeRequest, TypeRetry, TypeDelivered, TypeRejected, TypeRefused, TypeTransientFailure, TypeAuthWaitEnds,
     TypeFinish DEF Sender, Answer
<1>3. CASE Environment
  BY <1>3, TypeAdd, TypeAddFills, TypeRetryDue, TypeExpire, TypeNetworkRecovered,
     TypeUpdateCredentials, TypeCloseBegin, TypeCloseDrained, TypeDestroy, TypeStopSendQueue
     DEF Environment
<1> QED
  BY <1>1, <1>2, <1>3 DEF Next

(* The steps that leave the key queues, or all but the idle list, alone.      *)
LEMMA KeptStep ==
    ASSUME SlotInv, TypeInv', QueuesKept, UNCHANGED <<live, builder>>
    PROVE  SlotInv'
  BY KeptQueues, KeptSlots DEF SlotInv, QueuesKept

LEMMA WorkStep == ASSUME SlotInv, TypeInv', Work PROVE SlotInv'
<1> USE DEF SlotInv
<1>1. ASSUME NEW K \in SUBSET Keys, WorkerPass(K) PROVE SlotInv'
  <2>1. QueueInv'
    BY <1>1, KeptQueues DEF WorkerPass, QueuesKept
  <2>2. \A k \in Keys : builder'[k] # None => builder[k] # None
    BY <1>1 DEF WorkerPass
  <2> QED
    BY <1>1, <2>1, <2>2, KeptSlots DEF WorkerPass
<1>2. ASSUME NEW k \in Keys, Reserve(k) PROVE SlotInv'
  <2>1. idle' \subseteq idle
    BY <1>2 DEF Reserve, Claim
  <2> QED
    BY <1>2, <2>1, KeptQueues, SlotsReserve DEF Reserve, QueuesKept
<1>3. CASE Push
  BY <1>3, KeptStep DEF Push, QueuesKept
<1>4. CASE PushFails
  BY <1>4, KeptStep DEF PushFails, QueuesKept
<1>5. CASE Rollback
  <2> DEFINE K == {k \in {slot} : UnusedQueue(k)}
  <2>1. K \in SUBSET Keys /\ FreeAll(K) /\ UNCHANGED <<key, inflight>>
    BY <1>5 DEF Rollback, QueueInv, TypeInv, SlotOK
  <2>2. \A k \in K : tasks[k] = <<>> /\ k \notin inflight'
    BY <2>1 DEF UnusedQueue
  <2> HIDE DEF K
  <2> QED
    BY <2>1, <2>2, FreedQueues, SlotsFreed
<1>6. CASE WorkerDone
  BY <1>6, KeptStep DEF WorkerDone, QueuesKept
<1>7. CASE WorkerExit
  BY <1>7, KeptStep DEF WorkerExit, QueuesKept
<1> QED
  BY <1>1, <1>2, <1>3, <1>4, <1>5, <1>6, <1>7 DEF Work, WorkerStep

LEMMA SenderStep == ASSUME SlotInv, TypeInv', NEW s \in Senders, Sender(s) PROVE SlotInv'
<1> USE DEF SlotInv
<1>1. ASSUME NEW k \in Keys, ScanReady(s, k) PROVE SlotInv'
  BY <1>1, QueueScanReady, SlotsScanReady
<1>2. CASE ScanNothing(s)
  <2>1. idle' = idle /\ live' = live /\ builder' = builder /\ tasks' = tasks
        /\ inflight' = inflight
    BY <1>2 DEF ScanNothing
  <2> QED
    BY <1>2, <2>1, QueueScanNothing, KeptSlots
<1>3. CASE Take(s)
  BY <1>3, KeptStep DEF Take, QueuesKept
<1>4. CASE TakeNothing(s)
  BY <1>4, KeptStep DEF TakeNothing, QueuesKept
<1>5. CASE Inbound(s)
  BY <1>5, QueueInbound, SlotsInbound
<1>6. CASE RelockLeaving(s)
  BY <1>6, KeptStep DEF RelockLeaving, QueuesKept
<1>7. ASSUME NEW K \in SUBSET Keys, Again(s, K) PROVE SlotInv'
  <2>1. \A k \in K : tasks[k] = <<>> /\ k \notin inflight
    BY <1>7 DEF Again, Cleanable
  <2>2. FreeAll(K) /\ UNCHANGED <<key, inflight>>
    BY <1>7 DEF Again
  <2> QED
    BY <2>1, <2>2, FreedQueues, SlotsFreed
<1>8. CASE Leave(s)
  BY <1>8, KeptStep DEF Leave, QueuesKept
<1>9. CASE Defer(s)
  <2>1. pc[s] \in Holding /\ pc[s] \in HasTask /\ PutBack(s) /\ UNCHANGED <<live, builder>>
    BY <1>9 DEF Defer, Holding, HasTask
  <2> QED
    BY <2>1, QueuePutBack, SlotsPutBack
<1>10. CASE EndsTooOld(s)
  BY <1>10, KeptStep DEF EndsTooOld, QueuesKept
<1>11. CASE Request(s)
  BY <1>11, KeptStep DEF Request, QueuesKept
<1>12. CASE Delivered(s)
  BY <1>12, KeptStep DEF Delivered, QueuesKept
<1>13. CASE Rejected(s)
  BY <1>13, KeptStep DEF Rejected, QueuesKept
<1>14. CASE Refused(s)
  BY <1>14, KeptStep DEF Refused, QueuesKept
<1>15. CASE TransientFailure(s)
  <2>1. pc[s] \in Holding /\ pc[s] \in HasTask /\ UNCHANGED <<live, builder>>
    BY <1>15 DEF TransientFailure, Holding, HasTask
  <2>2. CASE PutBack(s)
    BY <2>1, <2>2, QueuePutBack, SlotsPutBack
  <2>3. CASE UNCHANGED <<tasks, inflight, ready, delayed, due, idle, key>>
    BY <2>1, <2>3, KeptStep DEF QueuesKept
  <2> QED
    BY <1>15, <2>2, <2>3 DEF TransientFailure
<1>16. CASE AuthWaitEnds(s)
  BY <1>16, KeptStep DEF AuthWaitEnds, QueuesKept
<1>17. CASE Finish(s)
  BY <1>17, QueueFinish, SlotsFinish
<1>18. CASE PassGate(s)
  BY <1>18, KeptStep DEF PassGate, QueuesKept
<1>19. CASE EnterBreaker(s)
  BY <1>19, KeptStep DEF EnterBreaker, QueuesKept
<1>20. CASE Retry(s)
  BY <1>20, KeptStep DEF Retry, QueuesKept
<1> QED
  BY <1>1, <1>2, <1>3, <1>4, <1>5, <1>6, <1>7, <1>8, <1>9, <1>10, <1>11, <1>12, <1>13, <1>14,
     <1>15, <1>16, <1>17, <1>18, <1>19, <1>20 DEF Sender, Answer

LEMMA EnvironmentStep == ASSUME SlotInv, TypeInv', Environment PROVE SlotInv'
<1> USE DEF SlotInv
<1>1. ASSUME NEW k \in Keys, Add(k) PROVE SlotInv'
  <2>1. idle' \subseteq idle
    BY <1>1 DEF Add, Claim
  <2> QED
    BY <1>1, <2>1, KeptQueues, SlotsAdd DEF Add, QueuesKept
<1>2. ASSUME NEW k \in Keys, AddFills(k) PROVE SlotInv'
  <2>1. \A j \in Keys : builder'[j] # None => builder[j] # None
    BY <1>2 DEF AddFills, QueueInv, TypeInv, TypeOK
  <2> QED
    BY <1>2, <2>1, KeptQueues, KeptSlots DEF AddFills, QueuesKept
<1>3. ASSUME UNCHANGED <<live, inflight, tasks, builder, ready, delayed, idle, key>>,
             \A k \in due' : k \in delayed
      PROVE  SlotInv'
  <2>1. QueueInv'
    BY <1>3 DEF QueueInv, HeldOnce, ScheduledOnce
  <2> QED
    BY <1>3, <2>1, KeptSlots
<1>4. ASSUME NEW k \in Keys, RetryDue(k) PROVE SlotInv'
  <2>1. \A j \in due' : j \in delayed
    BY <1>4 DEF RetryDue, QueueInv, ScheduledOnce
  <2> QED
    BY <1>3, <1>4, <2>1 DEF RetryDue
<1>5. CASE NetworkRecovered
  <2>1. \A j \in due' : j \in delayed
    BY <1>5 DEF NetworkRecovered, QueueInv, ScheduledOnce
  <2> QED
    BY <1>3, <1>5, <2>1 DEF NetworkRecovered
<1>6. ASSUME NEW b \in Batches, Expire(b) PROVE SlotInv'
  BY <1>6, KeptStep DEF Expire, QueuesKept
<1>7. CASE UpdateCredentials
  BY <1>7, KeptStep DEF UpdateCredentials, QueuesKept
<1>8. CASE CloseBegin
  BY <1>8, KeptStep DEF CloseBegin, QueuesKept
<1>9. CASE CloseDrained
  BY <1>9, KeptStep DEF CloseDrained, QueuesKept
<1>10. CASE Destroy
  BY <1>10, KeptStep DEF Destroy, QueuesKept
<1>11. CASE StopSendQueue
  BY <1>11, KeptStep DEF StopSendQueue, QueuesKept
<1> QED
  BY <1>1, <1>2, <1>4, <1>5, <1>6, <1>7, <1>8, <1>9, <1>10, <1>11 DEF Environment

(* Only Refused suspends a sender, and while it is suspended its version      *)
(* stays.                                                                     *)
LEMMA SuspendStep == ASSUME TypeInv, SuspendInv, Next PROVE SuspendInv'
<1> USE DEF SuspendInv, TypeInv, TypeOK
<1>1. CASE Work
  BY <1>1 DEF Work, WorkerStep, WorkerPass, Reserve, Push, PushFails, Rollback, WorkerDone, WorkerExit
<1>2. ASSUME NEW s \in Senders, Sender(s) PROVE SuspendInv'
  <2>1. /\ \A t \in Senders \ {s} : pc'[t] = pc[t] /\ version'[t] = version[t]
        /\ refused \subseteq refused'
        /\ pc'[s] = "authwait" => version'[s] \in refused'
    <3>1. CASE Refused(s)
      BY <3>1 DEF Refused, RefusedVersion
    <3>2. CASE TransientFailure(s)
      BY <3>2 DEF TransientFailure, PutBack, End
    <3>3. CASE AuthWaitEnds(s) \/ Delivered(s) \/ Rejected(s) \/ EndsTooOld(s)
      BY <3>3 DEF AuthWaitEnds, Delivered, Rejected, EndsTooOld, End
    <3>4. CASE Defer(s) \/ Request(s) \/ Finish(s)
      BY <3>4 DEF Defer, Request, Finish, PutBack
    <3>5. CASE \E k \in Keys : ScanReady(s, k)
      BY <3>5 DEF ScanReady
    <3>6. CASE ScanNothing(s) \/ Take(s) \/ TakeNothing(s) \/ Inbound(s)
      BY <3>6 DEF ScanNothing, Take, TakeNothing, Inbound
    <3>7. CASE RelockLeaving(s) \/ (\E K \in SUBSET Keys : Again(s, K)) \/ Leave(s)
      BY <3>7 DEF RelockLeaving, Again, Leave
    <3>8. CASE PassGate(s) \/ EnterBreaker(s) \/ Retry(s)
      BY <3>8 DEF PassGate, EnterBreaker, Retry
    <3> QED
      BY <1>2, <3>1, <3>2, <3>3, <3>4, <3>5, <3>6, <3>7, <3>8 DEF Sender, Answer
  <2> QED
    BY <2>1
<1>3. CASE Environment
  BY <1>3 DEF Environment, Add, AddFills, RetryDue, Expire, NetworkRecovered,
     UpdateCredentials, CloseBegin, CloseDrained, Destroy, StopSendQueue
<1> QED
  BY <1>1, <1>2, <1>3 DEF Next

LEMMA InvStep == ASSUME Inv, [Next]_vars PROVE Inv'
<1>1. CASE Next
  <2>1. TypeInv'
    BY <1>1, TypeStep, QueueInvScheduled DEF Inv, SlotInv, QueueInv
  <2>2. SlotInv'
    BY <1>1, <2>1, WorkStep, SenderStep, EnvironmentStep DEF Inv, Next
  <2>3. SuspendInv'
    BY <1>1, SuspendStep DEF Inv, SlotInv, QueueInv
  <2> QED
    BY <2>2, <2>3 DEF Inv
<1>2. CASE UNCHANGED vars
  <2>1. TypeInv'
    BY <1>2 DEF vars, Inv, SlotInv, QueueInv, TypeInv, TypeOK, HandsOK, SlotOK
  <2>2. SlotInv'
    BY <1>2, <2>1, KeptStep DEF vars, Inv, QueuesKept
  <2> QED
    BY <1>2, <2>2 DEF vars, Inv, SuspendInv
<1> QED
  BY <1>1, <1>2

LEMMA InvAlways == Spec => []Inv
  BY InvInit, InvStep, PTL DEF Spec

-------------------------------------------------------------------------------
(* Theorems *)

(* Every variable of the pipeline stays in its range and the send queue       *)
(* within send_queue_size; what a sender pops from a ready queue and what the *)
(* worker pushes is a batch (ve_tls_ready_pop, ve_tls_send_queue_push).       *)
THEOREM TypeCorrect == Spec => []TypeOK
<1>1. Inv => TypeOK
  BY DEF Inv, SlotInv, QueueInv, TypeInv
<1> QED
  BY <1>1, InvAlways, PTL

(* However many keys and senders there are, a key queue is held by at most    *)
(* one sender, by exactly one if it is in flight, and is then on no list      *)
(* (ve_tls_sender_main, ve_tls_key_queue_finish).                             *)
THEOREM ExclusiveAlways == Spec => []Exclusive
<1>1. Inv => Exclusive
  BY QueueInvExclusive DEF Inv, SlotInv
<1> QED
  BY <1>1, InvAlways, PTL

(* A key queue with tasks is ready, delayed, or held by a sender: none of     *)
(* push_task, push_front, finish and the promotion of due queues forgets one. *)
THEOREM ScheduledAlways == Spec => []Scheduled
<1>1. Inv => Scheduled
  BY QueueInvScheduled DEF Inv, SlotInv
<1> QED
  BY <1>1, InvAlways, PTL

(* A key queue in use is not freed, an idle one is unused, and there are at   *)
(* most key_queue_max_active (get_or_create, unreserve, the idle clean-up).   *)
THEOREM SlotsHeldAlways == Spec => []SlotsHeld
<1>1. Inv => SlotsHeld
  BY SlotInvSlotsHeld DEF Inv
<1> QED
  BY <1>1, InvAlways, PTL

(* A sender that waits for new credentials while the installed ones are those *)
(* of its request waits because the service refused just these                *)
(* (ve_tls_wait_for_static_credentials_update).                               *)
THEOREM SuspendedForRefusedAlways == Spec => []SuspendedForRefused
<1>1. Inv => SuspendedForRefused
  BY DEF Inv, SuspendInv, SuspendedForRefused
<1> QED
  BY <1>1, InvAlways, PTL

===============================================================================
