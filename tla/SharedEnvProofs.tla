---------------------------- MODULE SharedEnvProofs ---------------------------
(***************************************************************************)
(* For any number of producers, sender threads and tasks: nothing that was *)
(* freed is used, and no work is left behind a forgotten flag.             *)
(***************************************************************************)
EXTENDS SharedEnv, Integers, FiniteSetTheorems, TLAPS

Lives == {"down", "ready", "destroying", "tearing"}
Notifying == {"load", "begin", "push"}
Free4All == {"none", "loop", "exited"}
Inner == {"step", "file", "gate", "enter", "limit", "acquire", "copy", "request"}
SenderPlaces == Free4All \cup Inner \cup Notifying \cup {"unmark", "leave"}
OwnerPlaces == {"none", "open", "closing", "unregister", "spin", "join", "gone"} \cup Notifying
HelperPlaces == {"idle", "finish"} \cup Notifying

Turns == [serves : Producers \cup {None}, left : Int, tries : Int, sees : Nat]

TypeOK ==
    /\ load \in Loads /\ life \in Lives
    /\ listed \subseteq Producers /\ registered = listed
    /\ flag \subseteq registered
    /\ queue \in Seq(Producers \cup {None})
    /\ inflight \in [Producers -> SUBSET Senders]
    /\ version \in [Producers -> Nat]
    /\ refs \in [Producers -> [Versions -> Int]]
    /\ pc \in [Threads -> SenderPlaces \cup OwnerPlaces \cup HelperPlaces]
    /\ back \in [Threads -> {"none", "step", "leave", "open", "closing", "idle", "finish"}]
    /\ turn \in [Senders -> Turns]

(* Each kind of thread has its places, also to return to.                  *)
PlacesInv ==
    /\ \A s \in Senders : pc[s] \in SenderPlaces /\ (pc[s] \in Notifying => back[s] \in {"step", "leave"})
    /\ \A p \in Producers :
          /\ pc[Owner(p)] \in OwnerPlaces
          /\ pc[Owner(p)] \in Notifying => back[Owner(p)] \in {"open", "closing"}
          /\ pc[Helper(p)] \in HelperPlaces
          /\ pc[Helper(p)] \in Notifying => back[Helper(p)] \in {"idle", "finish"}

(* env_inflight counts the senders that have a producer in hand.           *)
ServeInv ==
    /\ \A s \in Senders : turn[s].serves = None <=> pc[s] \in Free4All
    /\ \A p \in Producers : inflight[p] = Serving(p)

EnvInv ==
    /\ \A s \in Senders \ load.threads : pc[s] = "none"
    /\ life = "down" => listed = {} /\ queue = <<>> /\ \A s \in Senders : pc[s] = "none"
    /\ life \in {"down", "tearing"} => ActiveOps = {}

OwnerInv ==
    \A p \in Producers :
       /\ pc[Owner(p)] \in {"spin", "join", "gone"} => p \notin listed \cup Range(queue)
       /\ pc[Owner(p)] \in {"join", "gone"} => Serving(p) = {} /\ p \in stopped
       /\ pc[Owner(p)] = "gone" => pc[Helper(p)] = "idle"

Copying(p, v) == {s \in Senders : pc[s] = "copy" /\ turn[s].serves = p /\ turn[s].sees = v}
RefInv ==
    /\ \A p \in Producers :
          /\ version[p] = 0 <=> pc[Owner(p)] = "gone"
          /\ version[p] # 0 => version[p] \in Versions
          /\ \A v \in Versions :
                refs[p][v] = Cardinality(Copying(p, v)) + (IF v = version[p] THEN 1 ELSE 0)
    /\ \A s \in Senders : pc[s] = "copy" => turn[s].sees \in 1 .. version[turn[s].serves]

IInv == TypeOK /\ PlacesInv /\ ServeInv /\ EnvInv /\ OwnerInv /\ RefInv /\ Noticed
USE DEF Goto, NotifyThen, Return, StepOnly, OwnerOnly, EnvOnly, envVars, noticeVars,
        phaseVars, taskVars, snapVars, turnVars, Lives, Notifying, Free4All, Inner, SenderPlaces,
        OwnerPlaces, HelperPlaces, Turns
-----------------------------------------------------------------------------
(* Threads.                                                                 *)

(* The threads of a producer are told apart, and are no sender threads.     *)
LEMMA Kinds ==
    /\ Senders \subseteq Threads
    /\ \A p \in Producers :
          /\ Owner(p) \in Threads /\ Owner(p) \notin Senders
          /\ Helper(p) \in Threads /\ Helper(p) \notin Senders
          /\ Of(Owner(p)) = p /\ Of(Helper(p)) = p
    /\ \A p, q \in Producers :
          /\ Owner(p) # Helper(q)
          /\ Owner(p) = Owner(q) => p = q
          /\ Helper(p) = Helper(q) => p = q
    /\ \A t \in Threads : t \in Senders \/ \E p \in Producers : t = Owner(p) \/ t = Helper(p)
<1>1. \A p \in Producers : Owner(p) \notin Senders /\ Helper(p) \notin Senders
  BY EnvAssumption DEF Owner, Helper
<1> QED
  BY <1>1 DEF Threads, Owners, Helpers, Owner, Helper, Of

(* The steps of a sender between taking a producer and leaving it.          *)
InnerStep(s) ==
    \/ StepGivesUp(s) \/ StepTakes(s) \/ StepPops(s) \/ StepFiles(s) \/ After(s)
    \/ Gate(s) \/ Enter(s) \/ Limit(s) \/ Acquire(s) \/ Copy(s) \/ Answer(s)

(* A step of thread t that neither the environment nor the producers' flags *)
(* take part in.                                                            *)
Quiet(t) ==
    /\ UNCHANGED <<envVars, noticeVars>>
    /\ pc' = [pc EXCEPT ![t] = pc'[t]] /\ back' = [back EXCEPT ![t] = back'[t]]
    /\ pc[t] \notin Free4All \cup {"unmark", "begin", "push"}
    /\ pc'[t] \notin Free4All \cup {"begin", "push"}
    /\ turn' \in [Senders -> Turns]
    /\ \A s \in Senders : turn'[s].serves = turn[s].serves

LEMMA SpentKeeps ==
    ASSUME TypeOK, NEW s \in Senders, Spent(s)
    PROVE  turn' \in [Senders -> Turns] /\ \A r \in Senders : turn'[r].serves = turn[r].serves
  BY DEF TypeOK, Spent

LEMMA InnerQuiet ==
    ASSUME TypeOK, ServeInv, NEW s \in Senders, InnerStep(s)
    PROVE  /\ Quiet(s) /\ UNCHANGED phaseVars
           /\ pc[s] \in Inner /\ pc'[s] \in Inner \cup {"load", "leave"}
           /\ IF pc'[s] = "load" THEN back'[s] \in {"step", "leave"} ELSE UNCHANGED back
<1> USE Kinds DEF Quiet
<1>0. pc \in [Threads -> SenderPlaces \cup OwnerPlaces \cup HelperPlaces]
      /\ back \in [Threads -> {"none", "step", "leave", "open", "closing", "idle", "finish"}]
      /\ turn \in [Senders -> Turns] /\ s \in Threads
  BY DEF TypeOK
<1>1. CASE StepGivesUp(s)
  BY <1>0, <1>1, SpentKeeps DEF StepGivesUp
<1>2. CASE StepTakes(s)
  BY <1>0, <1>2, SpentKeeps DEF StepTakes
<1>3. CASE StepPops(s)
  BY <1>0, <1>3 DEF StepPops
<1>4. CASE StepFiles(s)
  BY <1>0, <1>4, SpentKeeps DEF StepFiles
<1>5. CASE After(s)
  BY <1>0, <1>5 DEF After
<1>6. CASE Gate(s)
  <2>1. CASE Spent(s) /\ NotifyThen(s, "step")
    BY <1>0, <1>6, <2>1, SpentKeeps DEF Gate
  <2>2. CASE /\ Goto(s, IF s \in entered THEN "limit" ELSE "enter")
             /\ turn' = [turn EXCEPT ![s].tries =
                             IF MaxTries[turn[s].serves] = 0 THEN @ ELSE @ + 1]
    BY <1>0, <1>6, <2>2 DEF Gate
  <2> QED
    BY <1>6, <2>1, <2>2 DEF Gate
<1>7. CASE Enter(s) \/ Limit(s)
  BY <1>0, <1>7 DEF Enter, Limit
<1>8. CASE Acquire(s)
  <2>1. turn[s].serves \in Producers
    BY <1>0, <1>8 DEF Acquire, ServeInv
  <2>2. version[turn[s].serves] \in Nat
    BY <2>1 DEF TypeOK
  <2> QED
    BY <1>0, <1>8, <2>2 DEF Acquire
<1>9. CASE Copy(s)
  BY <1>0, <1>9 DEF Copy
<1>10. CASE Answer(s)
  BY <1>0, <1>10, SpentKeeps DEF Answer, Final, Again, Suspends, Cycle, Request, EndStep
<1> QED
  BY <1>1, <1>2, <1>3, <1>4, <1>5, <1>6, <1>7, <1>8, <1>9, <1>10 DEF InnerStep
-----------------------------------------------------------------------------
(* Steps of the queue.                                                      *)

LEMMA RangeConcat ==
    ASSUME NEW S, NEW a \in Seq(S), NEW b \in Seq(S)
    PROVE  Range(a \o b) = Range(a) \cup Range(b)
<1>1. ASSUME NEW i \in 1 .. Len(a) PROVE (a \o b)[i] = a[i] /\ i \in 1 .. Len(a \o b)
  BY <1>1
<1>2. ASSUME NEW i \in 1 .. Len(b)
      PROVE (a \o b)[i + Len(a)] = b[i] /\ i + Len(a) \in 1 .. Len(a \o b)
  BY <1>2
<1>3. ASSUME NEW i \in 1 .. Len(a \o b)
      PROVE  \/ i \in 1 .. Len(a) /\ (a \o b)[i] = a[i]
             \/ i - Len(a) \in 1 .. Len(b) /\ (a \o b)[i] = b[i - Len(a)]
  BY <1>3
<1>4. DOMAIN a = 1 .. Len(a) /\ DOMAIN b = 1 .. Len(b) /\ DOMAIN (a \o b) = 1 .. Len(a \o b)
  OBVIOUS
<1>5. ASSUME NEW x \in Range(a \o b) PROVE x \in Range(a) \cup Range(b)
  <2>1. PICK i \in 1 .. Len(a \o b) : x = (a \o b)[i]
    BY <1>4, <1>5 DEF Range
  <2> QED
    BY <2>1, <1>3, <1>4 DEF Range
<1>6. ASSUME NEW x \in Range(a) PROVE x \in Range(a \o b)
  <2>1. PICK i \in 1 .. Len(a) : x = a[i]
    BY <1>4, <1>6 DEF Range
  <2> QED
    BY <2>1, <1>1, <1>4 DEF Range
<1>7. ASSUME NEW x \in Range(b) PROVE x \in Range(a \o b)
  <2>1. PICK i \in 1 .. Len(b) : x = b[i]
    BY <1>4, <1>7 DEF Range
  <2>2. x = (a \o b)[i + Len(a)] /\ i + Len(a) \in DOMAIN (a \o b)
    BY <2>1, <1>2, <1>4
  <2> QED
    BY <2>2 DEF Range
<1> QED
  BY <1>5, <1>6, <1>7

LEMMA RangeAppend ==
    ASSUME NEW S, NEW a \in Seq(S), NEW e \in S
    PROVE  Range(Append(a, e)) = Range(a) \cup {e}
<1>1. DOMAIN Append(a, e) = 1 .. Len(a) + 1 /\ DOMAIN a = 1 .. Len(a) /\ Len(a) \in Nat
  OBVIOUS
<1>2. \A i \in 1 .. Len(a) : Append(a, e)[i] = a[i]
  OBVIOUS
<1>3. Append(a, e)[Len(a) + 1] = e
  OBVIOUS
<1> QED
  BY <1>1, <1>2, <1>3 DEF Range

LEMMA RangeTail ==
    ASSUME NEW S, NEW a \in Seq(S), a # <<>>
    PROVE  Range(a) = {Head(a)} \cup Range(Tail(a)) /\ Tail(a) \in Seq(S) /\ Head(a) \in S
<1>1. Len(a) \in Nat /\ Len(a) > 0 /\ DOMAIN a = 1 .. Len(a)
      /\ DOMAIN Tail(a) = 1 .. Len(a) - 1 /\ Head(a) = a[1]
  OBVIOUS
<1>2. \A i \in 1 .. Len(a) - 1 : Tail(a)[i] = a[i + 1]
  OBVIOUS
<1>3. 1 \in DOMAIN a /\ Head(a) \in S /\ Tail(a) \in Seq(S)
  OBVIOUS
<1>4. ASSUME NEW x \in Range(a), x # Head(a) PROVE x \in Range(Tail(a))
  <2>1. PICK i \in 1 .. Len(a) : x = a[i]
    BY <1>1, <1>4 DEF Range
  <2>2. i - 1 \in 1 .. Len(a) - 1 /\ (i - 1) + 1 = i
    BY <2>1, <1>1, <1>4
  <2>3. x = Tail(a)[i - 1] /\ i - 1 \in DOMAIN Tail(a)
    BY <2>1, <2>2, <1>1, <1>2
  <2> QED
    BY <2>3 DEF Range
<1>5. ASSUME NEW x \in Range(Tail(a)) PROVE x \in Range(a)
  <2>1. PICK i \in 1 .. Len(a) - 1 : x = Tail(a)[i]
    BY <1>1, <1>5 DEF Range
  <2>2. x = a[i + 1] /\ i + 1 \in DOMAIN a
    BY <2>1, <1>1, <1>2
  <2> QED
    BY <2>2 DEF Range
<1>6. Head(a) \in Range(a)
  BY <1>1, <1>3 DEF Range
<1> QED
  BY <1>3, <1>4, <1>5, <1>6

(* Taking a producer out leaves the others where they are.                  *)
LEMMA RangeEmptied ==
    ASSUME TypeOK, NEW p \in Producers
    PROVE  /\ Emptied(p) \in Seq(Producers \cup {None})
           /\ p \notin Range(Emptied(p))
           /\ \A q \in Producers : q # p => (q \in Range(queue) <=> q \in Range(Emptied(p)))
<1>1. queue \in Seq(Producers \cup {None}) /\ DOMAIN queue = 1 .. Len(queue) /\ Len(queue) \in Nat
  BY DEF TypeOK
<1>2. Emptied(p) \in [1 .. Len(queue) -> Producers \cup {None}]
      /\ \A i \in 1 .. Len(queue) : Emptied(p)[i] = IF queue[i] = p THEN None ELSE queue[i]
  BY <1>1 DEF Emptied
<1>3. Emptied(p) \in Seq(Producers \cup {None})
  BY <1>1, <1>2
<1> QED
  BY <1>1, <1>2, <1>3, EnvAssumption DEF Range

(* A tick queues listed producers only, and each whose flag it sets.        *)
LEMMA TickQueues ==
    ASSUME TypeOK, TickLocked
    PROVE  /\ flag' \subseteq listed /\ flag \subseteq flag'
           /\ queue' \in Seq(Producers \cup {None})
           /\ Range(queue) \subseteq Range(queue')
           /\ \A p \in flag' : p \in flag \/ p \in Range(queue')
           /\ Range(queue') \subseteq Range(queue) \cup listed
<1> DEFINE found == {p \in listed : p \in registered /\ p \notin flag /\ HasPending(p)}
<1>0. PICK n \in 1 .. Cap - Len(queue) : \E pushed \in Injection(1 .. n, found) :
          queue' = queue \o pushed /\ flag' = flag \cup Range(pushed)
  BY DEF TickLocked
<1>1. PICK pushed \in Injection(1 .. n, found) :
          queue' = queue \o pushed /\ flag' = flag \cup Range(pushed)
  BY <1>0
<1>2. Len(queue) \in Nat /\ Cap \in Nat /\ n \in Nat
  BY <1>1, EnvAssumption DEF TypeOK
<1>3. pushed \in [1 .. n -> found] /\ pushed \in Seq(found) /\ Len(pushed) = n
  BY <1>1, <1>2 DEF Injection
<1>4. Range(pushed) \subseteq found
  BY <1>3 DEF Range
<1>5. found \subseteq Producers /\ found \subseteq listed
  BY DEF TypeOK
<1>6. queue \in Seq(Producers \cup {None}) /\ pushed \in Seq(Producers \cup {None})
  BY <1>3, <1>5 DEF TypeOK
<1>7. Range(queue') = Range(queue) \cup Range(pushed)
  BY <1>1, <1>6, RangeConcat
<1> HIDE DEF found
<1> QED
  BY <1>1, <1>4, <1>5, <1>6, <1>7 DEF TypeOK
-----------------------------------------------------------------------------
(* Quiet steps of owners and helpers.                                       *)

OwnerStep(p) ==
    Close(p) \/ CloseDrained(p) \/ CloseTimesOut(p) \/ Spin(p) \/ Free(p) \/ NetworkRecovers(p)
HelperStep(p) ==
    Arrive(p) \/ UpdateEndpoint(p) \/ UpdateCredentials(p) \/ UpdateFinish(p)

LEMMA OwnerQuiet ==
    ASSUME TypeOK, NEW p \in Producers, OwnerStep(p)
    PROVE  /\ Quiet(Owner(p)) /\ UNCHANGED turn
           /\ pc[Owner(p)] \in {"open", "closing", "spin", "join"}
           /\ pc'[Owner(p)] \in {"load", "unregister", "join", "gone"}
           /\ IF pc'[Owner(p)] = "load" THEN back'[Owner(p)] \in {"open", "closing"}
              ELSE UNCHANGED back
<1> USE Kinds DEF Quiet
<1>0. pc \in [Threads -> SenderPlaces \cup OwnerPlaces \cup HelperPlaces]
      /\ back \in [Threads -> {"none", "step", "leave", "open", "closing", "idle", "finish"}]
      /\ turn \in [Senders -> Turns] /\ Owner(p) \in Threads
  BY DEF TypeOK
<1>1. CASE Close(p)
  BY <1>0, <1>1 DEF Close
<1>2. CASE CloseDrained(p)
  BY <1>0, <1>2 DEF CloseDrained
<1>3. CASE CloseTimesOut(p)
  BY <1>0, <1>3 DEF CloseTimesOut
<1>4. CASE Spin(p)
  BY <1>0, <1>4 DEF Spin
<1>5. CASE Free(p)
  BY <1>0, <1>5 DEF Free
<1>6. CASE NetworkRecovers(p)
  BY <1>0, <1>6 DEF NetworkRecovers
<1> QED
  BY <1>1, <1>2, <1>3, <1>4, <1>5, <1>6 DEF OwnerStep

LEMMA HelperQuiet ==
    ASSUME TypeOK, NEW p \in Producers, HelperStep(p)
    PROVE  \/ UNCHANGED <<envVars, noticeVars, phaseVars, pc, back, turn, snapVars>>
           \/ /\ Quiet(Helper(p)) /\ UNCHANGED <<phaseVars, turn>>
              /\ pc[Helper(p)] \in {"idle", "finish"}
              /\ pc'[Helper(p)] \in {"load", "idle", "finish"}
              /\ IF pc'[Helper(p)] = "load" THEN back'[Helper(p)] \in {"idle", "finish"}
                 ELSE UNCHANGED back
<1> USE Kinds DEF Quiet
<1>0. pc \in [Threads -> SenderPlaces \cup OwnerPlaces \cup HelperPlaces]
      /\ back \in [Threads -> {"none", "step", "leave", "open", "closing", "idle", "finish"}]
      /\ turn \in [Senders -> Turns] /\ Helper(p) \in Threads
  BY DEF TypeOK
<1>1. CASE Arrive(p)
  BY <1>0, <1>1 DEF Arrive
<1>2. CASE UpdateEndpoint(p)
  BY <1>0, <1>2 DEF UpdateEndpoint, UpdateBegins
<1>3. CASE UpdateCredentials(p)
  BY <1>0, <1>3 DEF UpdateCredentials, UpdateBegins
<1>4. CASE UpdateFinish(p)
  BY <1>0, <1>4 DEF UpdateFinish
<1> QED
  BY <1>1, <1>2, <1>3, <1>4 DEF HelperStep

(* What a quiet step cannot disturb.                                        *)
LEMMA QuietKeeps ==
    ASSUME TypeOK, ServeInv, EnvInv, Noticed, NEW t \in Threads, Quiet(t)
    PROVE  ServeInv' /\ EnvInv' /\ Noticed'
<1>0. /\ pc' = [pc EXCEPT ![t] = pc'[t]] /\ UNCHANGED <<envVars, noticeVars>>
      /\ pc \in [Threads -> SenderPlaces \cup OwnerPlaces \cup HelperPlaces]
      /\ \A s \in Senders : turn'[s].serves = turn[s].serves
  BY DEF Quiet, TypeOK
<1>1. \A r \in Threads : r # t => pc'[r] = pc[r]
  BY <1>0
<1>2. pc[t] \notin Free4All \cup {"unmark", "begin", "push"}
      /\ pc'[t] \notin Free4All \cup {"begin", "push"}
  BY DEF Quiet
<1>3. \A r \in Threads : Of(r)' = Of(r)
  BY <1>0 DEF Of
<1>4. \A p \in Producers : Serving(p)' = Serving(p)
  BY <1>0 DEF Serving
<1>5. ServeInv'
  BY <1>0, <1>1, <1>2, <1>4, Kinds DEF ServeInv
<1>6. ActiveOps' = ActiveOps
  BY <1>1, <1>2 DEF ActiveOps
<1>7. \A s \in Senders : pc[s] = "none" => pc'[s] = "none"
  BY <1>1, <1>2, Kinds
<1>8. EnvInv'
  BY <1>0, <1>6, <1>7 DEF EnvInv
<1>9. Noticed'
  BY <1>0, <1>1, <1>2, <1>3, Kinds DEF Noticed
<1> QED
  BY <1>5, <1>8, <1>9
-----------------------------------------------------------------------------
(* Types and places.                                                        *)

(* The references and versions stay numbers.                                *)
SnapType == version \in [Producers -> Nat] /\ refs \in [Producers -> [Versions -> Int]]

LEMMA RefsType ==
    ASSUME SnapType, NEW p \in Producers, NEW v \in Versions, NEW n \in Int
    PROVE  [refs EXCEPT ![p][v] = n] \in [Producers -> [Versions -> Int]]
<1>1. refs[p] \in [Versions -> Int]
  BY DEF SnapType
<1>2. [refs[p] EXCEPT ![v] = n] \in [Versions -> Int]
  BY <1>1
<1> QED
  BY <1>2 DEF SnapType

(* Every version that was published before is a version.                    *)
LEMMA Earlier ==
    ASSUME NEW v \in Versions
    PROVE  v \in Nat \ {0} /\ \A w \in 1 .. v : w \in Versions
<1>1. PICK l \in Loads : v \in 1 .. l.updates + 1
  BY DEF Versions
<1>2. l.updates \in Nat
  BY EnvAssumption
<1>3. \A w \in 1 .. v : w \in 1 .. l.updates + 1
  BY <1>1, <1>2
<1> QED
  BY <1>1, <1>2, <1>3 DEF Versions

(* A published snapshot is referenced, and so is one that is being copied.  *)
LEMMA Referenced ==
    ASSUME TypeOK, RefInv, ServeInv
    PROVE  /\ \A p \in Producers : version[p] # 0 => version[p] \in Versions
           /\ \A s \in Senders : pc[s] = "copy" =>
                 turn[s].serves \in Producers /\ turn[s].sees \in Versions
<1>1. ASSUME NEW s \in Senders, pc[s] = "copy"
      PROVE  turn[s].serves \in Producers /\ turn[s].sees \in Versions
  <2>1. turn[s].serves \in Producers
    BY <1>1 DEF TypeOK, ServeInv
  <2>2. turn[s].sees \in 1 .. version[turn[s].serves] /\ version[turn[s].serves] \in Nat
    BY <1>1, <2>1 DEF RefInv, TypeOK
  <2>3. version[turn[s].serves] \in Versions
    BY <2>1, <2>2 DEF RefInv
  <2> QED
    BY <2>1, <2>2, <2>3, Earlier
<1> QED
  BY <1>1 DEF RefInv

(* An update has a version to publish.                                      *)
LEMMA NextVersion ==
    ASSUME TypeOK, RefInv, NEW p \in Producers, UpdateBegins(p)
    PROVE  version[p] \in Versions /\ version[p] + 1 \in Versions
<1>1. version[p] # 0 /\ version[p] \in Versions /\ version[p] <= load.updates
  BY DEF UpdateBegins, RefInv
<1>2. load \in Loads /\ load.updates \in Nat /\ version[p] \in Nat
  BY EnvAssumption DEF TypeOK
<1>3. version[p] + 1 \in 1 .. load.updates + 1
  BY <1>1, <1>2
<1> QED
  BY <1>1, <1>2, <1>3 DEF Versions

LEMMA SnapTypeStep ==
    ASSUME TypeOK, ServeInv, RefInv, Next
    PROVE  SnapType'
<1> USE DEF SnapType
<1>0. SnapType /\ turn \in [Senders -> Turns]
  BY DEF TypeOK
<1>1. CASE UNCHANGED <<version, refs>>
  BY <1>0, <1>1
<1>2. ASSUME NEW s \in Senders, Acquire(s) PROVE SnapType'
  <2> DEFINE p == turn[s].serves
  <2>1. p \in Producers
    BY <1>0, <1>2, ServeInv DEF Acquire, ServeInv
  <2>2. CASE UNCHANGED refs
    BY <1>0, <1>2, <2>2 DEF Acquire
  <2>3. CASE version[p] # 0 /\ refs' = [refs EXCEPT ![p][version[p]] = refs[p][version[p]] + 1]
    <3>1. version[p] \in Versions
      BY <2>1, <2>3, Referenced
    <3>2. refs[p][version[p]] + 1 \in Int
      BY <1>0, <2>1, <3>1
    <3> QED
      BY <1>0, <1>2, <2>1, <2>3, <3>1, <3>2, RefsType DEF Acquire
  <2> QED
    BY <1>2, <2>2, <2>3 DEF Acquire, Retained
<1>3. ASSUME NEW s \in Senders, Copy(s) PROVE SnapType'
  <2> DEFINE p == turn[s].serves  v == turn[s].sees
  <2>1. p \in Producers /\ v \in Versions
    BY <1>3, Referenced DEF Copy
  <2>2. refs[p][v] - 1 \in Int
    BY <1>0, <2>1
  <2>3. refs' = [refs EXCEPT ![p][v] = refs[p][v] - 1] /\ UNCHANGED version
    BY <1>3 DEF Copy, Released
  <2> QED
    BY <1>0, <2>1, <2>2, <2>3, RefsType
<1>4. ASSUME NEW p \in Producers, Publish(p), UpdateBegins(p) PROVE SnapType'
  <2> DEFINE v == version[p]
             first == [refs EXCEPT ![p][v] = refs[p][v] - 1]
  <2>1. v \in Versions /\ v + 1 \in Versions
    BY <1>4, NextVersion
  <2>2. refs[p][v] - 1 \in Int
    BY <1>0, <2>1
  <2>3. first \in [Producers -> [Versions -> Int]]
    BY <1>0, <2>1, <2>2, RefsType
  <2>4. refs' = [first EXCEPT ![p][v + 1] = 1]
    BY <1>4 DEF Publish, Released
  <2>5. first[p] \in [Versions -> Int]
    BY <2>3
  <2>6. [first[p] EXCEPT ![v + 1] = 1] \in [Versions -> Int]
    BY <2>1, <2>5
  <2>7. version' \in [Producers -> Nat]
    BY <1>0, <1>4 DEF Publish
  <2> QED
    BY <2>3, <2>4, <2>6, <2>7
<1>5. ASSUME NEW p \in Producers, Free(p) PROVE SnapType'
  <2>1. version[p] \in Versions
    BY <1>5, Referenced DEF Free, RefInv
  <2>2. refs[p][version[p]] - 1 \in Int
    BY <1>0, <2>1
  <2> QED
    BY <1>0, <1>5, <2>1, <2>2, RefsType DEF Free, Released
<1>6. ASSUME NEW s \in Senders, Sender(s), ~Acquire(s), ~Copy(s) PROVE UNCHANGED <<version, refs>>
  BY <1>6 DEF Sender, Tick, Exit, Take, Unmark, After, Leave, StepGivesUp, StepTakes, StepPops,
              StepFiles, Gate, Enter, Limit, Answer, Final, Again, Suspends, Cycle, Request
<1>7. ASSUME NEW t \in Threads, Notify(t) PROVE UNCHANGED <<version, refs>>
  BY <1>7 DEF Notify, Load, Begin, Push
<1>8. CASE EnvInit \/ EnvDestroy \/ EnvWaits \/ EnvEnds
  BY <1>1, <1>8 DEF EnvInit, EnvDestroy, EnvWaits, EnvEnds, EnvTear, EnvAborts, EnvStops, EnvGone
<1>9. ASSUME NEW p \in Producers,
             \/ Register(p) \/ Arrive(p) \/ UpdateFinish(p) \/ Close(p) \/ Unregister(p)
             \/ CloseDrained(p) \/ CloseTimesOut(p) \/ Spin(p) \/ Due(p) \/ NetworkRecovers(p)
      PROVE  UNCHANGED <<version, refs>>
  BY <1>9 DEF Register, Arrive, UpdateFinish, Close, Unregister, CloseDrained, CloseTimesOut,
              Spin, Due, NetworkRecovers
<1> QED
  BY <1>1, <1>2, <1>3, <1>4, <1>5, <1>6, <1>7, <1>8, <1>9
     DEF Next, OwnerEnds, UpdateEndpoint, UpdateCredentials

(* A place a thread of its kind may be at, and return to.                   *)
Places(t, place, after) ==
    \/ t \in Senders /\ place \in SenderPlaces /\ (place \in Notifying => after \in {"step", "leave"})
    \/ \E p \in Producers : t = Owner(p) /\ place \in OwnerPlaces
                            /\ (place \in Notifying => after \in {"open", "closing"})
    \/ \E p \in Producers : t = Helper(p) /\ place \in HelperPlaces
                            /\ (place \in Notifying => after \in {"idle", "finish"})

LEMMA Moved ==
    ASSUME TypeOK, PlacesInv, NEW t \in Threads,
           pc' = [pc EXCEPT ![t] = pc'[t]], back' = [back EXCEPT ![t] = back'[t]],
           Places(t, pc'[t], back'[t])
    PROVE  PlacesInv' /\ pc' \in [Threads -> SenderPlaces \cup OwnerPlaces \cup HelperPlaces]
<1>1. /\ pc \in [Threads -> SenderPlaces \cup OwnerPlaces \cup HelperPlaces]
      /\ \A r \in Threads : r # t => pc'[r] = pc[r] /\ back'[r] = back[r]
  BY DEF TypeOK
<1>2. pc'[t] \in SenderPlaces \cup OwnerPlaces \cup HelperPlaces
  BY DEF Places
<1>3. pc' \in [Threads -> SenderPlaces \cup OwnerPlaces \cup HelperPlaces]
  BY <1>1, <1>2
<1>4. ASSUME NEW s \in Senders
      PROVE  pc'[s] \in SenderPlaces /\ (pc'[s] \in Notifying => back'[s] \in {"step", "leave"})
  <2>1. CASE s = t
    BY <2>1, Kinds DEF Places
  <2>2. CASE s # t
    BY <2>2, <1>1, Kinds DEF PlacesInv
  <2> QED
    BY <2>1, <2>2
<1>5. ASSUME NEW p \in Producers
      PROVE  /\ pc'[Owner(p)] \in OwnerPlaces
             /\ pc'[Owner(p)] \in Notifying => back'[Owner(p)] \in {"open", "closing"}
  <2>1. CASE Owner(p) = t
    BY <2>1, Kinds DEF Places
  <2>2. CASE Owner(p) # t
    BY <2>2, <1>1, Kinds DEF PlacesInv
  <2> QED
    BY <2>1, <2>2
<1>6. ASSUME NEW p \in Producers
      PROVE  /\ pc'[Helper(p)] \in HelperPlaces
             /\ pc'[Helper(p)] \in Notifying => back'[Helper(p)] \in {"idle", "finish"}
  <2>1. CASE Helper(p) = t
    BY <2>1, Kinds DEF Places
  <2>2. CASE Helper(p) # t
    BY <2>2, <1>1, Kinds DEF PlacesInv
  <2> QED
    BY <2>1, <2>2
<1> QED
  BY <1>3, <1>4, <1>5, <1>6 DEF PlacesInv

Backs == {"none", "step", "leave", "open", "closing", "idle", "finish"}
LEMMA BackType ==
    ASSUME TypeOK, NEW t \in Threads, back' = [back EXCEPT ![t] = back'[t]],
           back'[t] \in Backs
    PROVE  back' \in [Threads -> Backs]
  BY DEF TypeOK, Backs

(* The invariants a quiet step keeps for the same reasons.                  *)
Core == TypeOK /\ PlacesInv /\ ServeInv /\ EnvInv /\ Noticed

LEMMA QuietCore ==
    ASSUME Core, SnapType', NEW t \in Threads, Quiet(t),
           Places(t, pc'[t], back'[t]), back'[t] \in Backs
    PROVE  Core'
<1>1. ServeInv' /\ EnvInv' /\ Noticed'
  BY QuietKeeps DEF Core
<1>2. PlacesInv' /\ pc' \in [Threads -> SenderPlaces \cup OwnerPlaces \cup HelperPlaces]
  BY Moved DEF Core, Quiet
<1>3. back' \in [Threads -> Backs]
  BY BackType DEF Core, Quiet
<1>4. TypeOK'
  BY <1>2, <1>3 DEF Core, TypeOK, Quiet, SnapType, Backs
<1> QED
  BY <1>1, <1>2, <1>4 DEF Core

(* A step that leaves all that the invariants are about.                    *)
LEMMA StillCore ==
    ASSUME Core, UNCHANGED <<envVars, noticeVars, pc, back, turn, version, refs>>
    PROVE  Core'
<1>1. TypeOK' /\ PlacesInv'
  BY DEF Core, TypeOK, PlacesInv
<1>2. \A p \in Producers : Serving(p)' = Serving(p)
  BY DEF Serving
<1>3. ServeInv'
  BY <1>2 DEF Core, ServeInv
<1>4. ActiveOps' = ActiveOps
  BY DEF ActiveOps
<1>5. EnvInv'
  BY <1>4 DEF Core, EnvInv
<1>6. \A t \in Threads : Of(t)' = Of(t)
  BY DEF Of
<1>7. Noticed'
  BY <1>6 DEF Core, Noticed
<1> QED
  BY <1>1, <1>3, <1>5, <1>7 DEF Core

LEMMA QuietCases ==
    ASSUME Core, SnapType',
           \/ \E s \in Senders : InnerStep(s)
           \/ \E p \in Producers : OwnerStep(p) \/ HelperStep(p)
    PROVE  Core'
<1>0. \A t \in Threads : back[t] \in Backs
  BY DEF Core, TypeOK, Backs
<1>1. ASSUME NEW s \in Senders, InnerStep(s) PROVE Core'
  <2>1. /\ Quiet(s) /\ pc'[s] \in Inner \cup {"load", "leave"}
        /\ IF pc'[s] = "load" THEN back'[s] \in {"step", "leave"} ELSE UNCHANGED back
    BY <1>1, InnerQuiet DEF Core
  <2>2. Places(s, pc'[s], back'[s]) /\ back'[s] \in Backs
    BY <1>0, <2>1, Kinds DEF Places, Backs
  <2> QED
    BY <2>1, <2>2, Kinds, QuietCore
<1>2. ASSUME NEW p \in Producers, OwnerStep(p) PROVE Core'
  <2>1. /\ Quiet(Owner(p)) /\ pc'[Owner(p)] \in {"load", "unregister", "join", "gone"}
        /\ IF pc'[Owner(p)] = "load" THEN back'[Owner(p)] \in {"open", "closing"}
           ELSE UNCHANGED back
    BY <1>2, OwnerQuiet DEF Core
  <2>2. Places(Owner(p), pc'[Owner(p)], back'[Owner(p)]) /\ back'[Owner(p)] \in Backs
    BY <1>0, <2>1, Kinds DEF Places, Backs
  <2> QED
    BY <2>1, <2>2, Kinds, QuietCore
<1>3. ASSUME NEW p \in Producers, HelperStep(p) PROVE Core'
  <2>1. CASE UNCHANGED <<envVars, noticeVars, phaseVars, pc, back, turn, snapVars>>
    BY <2>1, StillCore
  <2>2. CASE /\ Quiet(Helper(p)) /\ pc'[Helper(p)] \in {"load", "idle", "finish"}
             /\ IF pc'[Helper(p)] = "load" THEN back'[Helper(p)] \in {"idle", "finish"}
                ELSE UNCHANGED back
    <3>1. Places(Helper(p), pc'[Helper(p)], back'[Helper(p)]) /\ back'[Helper(p)] \in Backs
      BY <1>0, <2>2, Kinds DEF Places, Backs
    <3> QED
      BY <2>2, <3>1, Kinds, QuietCore
  <2> QED
    BY <1>3, <2>1, <2>2, HelperQuiet DEF Core
<1> QED
  BY <1>1, <1>2, <1>3
-----------------------------------------------------------------------------
(* Notifications.                                                           *)

(* Whoever notifies does so about a producer.                               *)
LEMMA OfProducer ==
    ASSUME Core, NEW t \in Threads, pc[t] \in Notifying
    PROVE  Of(t) \in Producers /\ Places(t, back[t], "none") /\ back[t] \in Backs
           /\ back[t] \notin {"none", "loop", "exited", "copy", "unmark", "gone"} \cup Notifying
<1>1. CASE t \in Senders
  <2>1. back[t] \in {"step", "leave"} /\ turn[t].serves # None /\ turn[t].serves \in Producers \cup {None}
    BY <1>1 DEF Core, PlacesInv, ServeInv, TypeOK
  <2> QED
    BY <1>1, <2>1 DEF Of, Places, Backs
<1>2. ASSUME NEW p \in Producers, t = Owner(p)
      PROVE  back[t] \in {"open", "closing"} /\ Of(t) = p
  BY <1>2, Kinds DEF Core, PlacesInv
<1>3. ASSUME NEW p \in Producers, t = Helper(p)
      PROVE  back[t] \in {"idle", "finish"} /\ Of(t) = p
  BY <1>3, Kinds DEF Core, PlacesInv
<1>4. t \in Senders \/ \E p \in Producers : t = Owner(p) \/ t = Helper(p)
  BY Kinds
<1> QED
  BY <1>1, <1>2, <1>3, <1>4 DEF Places, Backs

(* A step of a notification: where it may go, and what it leaves.           *)
Notifies(t) ==
    /\ pc[t] \in Notifying
    /\ UNCHANGED <<load, life, stop, listed, registered, inflight, turn>>
    /\ \/ /\ pc' = [pc EXCEPT ![t] = pc'[t]] /\ pc'[t] \in {"begin", "push"} /\ UNCHANGED back
       \/ Return(t)

LEMMA NotifiesKeeps ==
    ASSUME Core, NEW t \in Threads, Notifies(t)
    PROVE  /\ PlacesInv' /\ ServeInv'
           /\ pc' \in [Threads -> SenderPlaces \cup OwnerPlaces \cup HelperPlaces]
           /\ back' \in [Threads -> Backs]
           /\ \A r \in Threads : r # t => pc'[r] = pc[r]
           /\ pc'[t] \notin Free4All /\ pc[t] \notin Free4All
<1>1. pc' = [pc EXCEPT ![t] = pc'[t]] /\ back' = [back EXCEPT ![t] = back'[t]]
  BY DEF Notifies, Core, TypeOK
<1>2. /\ pc'[t] \in {"begin", "push"} /\ UNCHANGED back
      \/ /\ pc'[t] = back[t] /\ back'[t] = "none"
  BY DEF Notifies, Core, TypeOK
<1>3. Places(t, pc'[t], back'[t]) /\ back'[t] \in Backs /\ pc'[t] \notin Free4All
  BY <1>2, OfProducer, Kinds DEF Places, Core, TypeOK, PlacesInv, Backs, Notifies
<1>4. PlacesInv' /\ pc' \in [Threads -> SenderPlaces \cup OwnerPlaces \cup HelperPlaces]
  BY <1>1, <1>3, Moved DEF Core
<1>5. back' \in [Threads -> Backs]
  BY <1>1, <1>3, BackType DEF Core
<1>6. \A r \in Threads : r # t => pc'[r] = pc[r]
  BY <1>1 DEF Core, TypeOK
<1>7. pc[t] \notin Free4All
  BY DEF Notifies
<1>8. \A p \in Producers : Serving(p)' = Serving(p)
  BY DEF Serving, Notifies
<1>9. ServeInv'
  BY <1>3, <1>6, <1>7, <1>8, Kinds DEF ServeInv, Core, Notifies
<1> QED
  BY <1>3, <1>4, <1>5, <1>6, <1>7, <1>9

LEMMA NotifiesEnv ==
    ASSUME Core, NEW t \in Threads, Notifies(t), pc'[t] = "push" => life = "ready" \/ t \in ActiveOps,
           life = "down" => queue' = queue
    PROVE  EnvInv'
<1>1. \A r \in Threads : r # t => pc'[r] = pc[r]
  BY NotifiesKeeps
<1>2. pc[t] \notin Free4All
  BY NotifiesKeeps
<1>3. \A s \in Senders : pc[s] = "none" => pc'[s] = "none"
  BY <1>1, <1>2, Kinds
<1>4. ActiveOps' \subseteq ActiveOps \cup {r \in {t} : pc'[t] = "push"}
  BY <1>1 DEF ActiveOps
<1> QED
  BY <1>3, <1>4 DEF Core, EnvInv, Notifies

LEMMA LoadCore ==
    ASSUME Core, NEW t \in Threads, Load(t)
    PROVE  Core'
<1>1. Notifies(t) /\ UNCHANGED <<queue, refs, version>>
      /\ flag' \subseteq flag \cup ({Of(t)} \cap registered) /\ flag \subseteq flag'
      /\ (flag' # flag => pc'[t] = "begin")
      /\ pc'[t] # "push"
  BY OfProducer DEF Load, Notifies, Core, TypeOK
<1>2. TypeOK'
  BY <1>1, NotifiesKeeps, OfProducer DEF Core, TypeOK, Notifies, Backs
<1>3. EnvInv'
  BY <1>1, NotifiesEnv
<1>4. \A r \in Threads : Of(r)' = Of(r)
  BY <1>1 DEF Of, Notifies
<1>5. ASSUME NEW p \in registered' \cap flag'
      PROVE  \/ p \in Range(queue')
             \/ \E s \in Senders : pc'[s] = "unmark" /\ turn'[s].serves = p
             \/ \E r \in Threads : pc'[r] \in {"begin", "push"} /\ Of(r)' = p
  <2>1. CASE p \in flag
    <3>1. \A r \in Threads : r # t => pc'[r] = pc[r]
      BY <1>1, NotifiesKeeps
    <3>2. pc[t] = "load" /\ p \in registered
      BY <1>1, <1>5 DEF Load, Notifies
    <3> QED
      BY <1>1, <1>4, <2>1, <3>1, <3>2, Kinds DEF Core, Noticed, Notifies
  <2>2. CASE p \notin flag
    BY <1>1, <1>4, <1>5, <2>2
  <2> QED
    BY <2>1, <2>2
<1>6. Noticed'
  BY <1>5 DEF Noticed
<1> QED
  BY <1>1, <1>2, <1>3, <1>6, NotifiesKeeps DEF Core

(* Whoever resets the flag does so for its own producer.                    *)
LEMMA NotifiesNoticed ==
    ASSUME Core, NEW t \in Threads, Notifies(t), pc[t] \in {"begin", "push"},
           Range(queue) \subseteq Range(queue'), flag' \subseteq flag,
           Of(t) \notin flag' \/ Of(t) \in Range(queue') \/ pc'[t] = "push"
    PROVE  Noticed'
<1>1. \A r \in Threads : Of(r)' = Of(r)
  BY DEF Of, Notifies
<1>2. \A r \in Threads : r # t => pc'[r] = pc[r]
  BY NotifiesKeeps
<1>3. ASSUME NEW p \in registered' \cap flag'
      PROVE  \/ p \in Range(queue')
             \/ \E s \in Senders : pc'[s] = "unmark" /\ turn'[s].serves = p
             \/ \E r \in Threads : pc'[r] \in {"begin", "push"} /\ Of(r)' = p
  <2>1. CASE p = Of(t)
    BY <2>1, <1>1, <1>3
  <2>2. CASE p # Of(t)
    <3>1. p \in registered \cap flag
      BY <1>3 DEF Notifies
    <3> QED
      BY <2>2, <3>1, <1>1, <1>2, Kinds DEF Core, Noticed, Notifies
  <2> QED
    BY <2>1, <2>2
<1> QED
  BY <1>3 DEF Noticed

LEMMA BeginCore ==
    ASSUME Core, NEW t \in Threads, Begin(t)
    PROVE  Core'
<1>1. Notifies(t) /\ UNCHANGED <<queue, refs, version>>
      /\ flag' \subseteq flag /\ (Of(t) \in flag' => pc'[t] = "push")
      /\ (pc'[t] = "push" => life = "ready")
  BY OfProducer DEF Begin, Notifies, ResetFlag, Core, TypeOK
<1>2. TypeOK'
  BY <1>1, NotifiesKeeps DEF Core, TypeOK, Notifies, Backs
<1>3. EnvInv'
  BY <1>1, NotifiesEnv
<1>4. pc[t] = "begin"
  BY DEF Begin
<1>5. Noticed'
  BY <1>1, <1>4, NotifiesNoticed
<1> QED
  BY <1>1, <1>2, <1>3, <1>5, NotifiesKeeps DEF Core

LEMMA PushCore ==
    ASSUME Core, NEW t \in Threads, Push(t)
    PROVE  Core'
<1>0. pc[t] = "push" /\ t \in ActiveOps /\ life # "down"
  BY DEF Push, ActiveOps, Core, EnvInv
<1>1. Notifies(t) /\ UNCHANGED <<refs, version>> /\ flag' \subseteq flag
      /\ \/ queue' = Append(queue, Of(t))
         \/ queue' = queue /\ Of(t) \notin flag'
      /\ pc'[t] # "push"
  BY OfProducer DEF Push, Notifies, ResetFlag, Core, TypeOK
<1>2. queue' \in Seq(Producers \cup {None}) /\ Range(queue) \subseteq Range(queue')
      /\ (queue' = Append(queue, Of(t)) => Of(t) \in Range(queue'))
  <2>1. queue \in Seq(Producers \cup {None}) /\ Of(t) \in Producers \cup {None}
    BY <1>0, OfProducer DEF Core, TypeOK
  <2>2. Range(Append(queue, Of(t))) = Range(queue) \cup {Of(t)}
    BY <2>1, RangeAppend
  <2>3. Append(queue, Of(t)) \in Seq(Producers \cup {None})
    BY <2>1
  <2>4. CASE queue' = Append(queue, Of(t))
    BY <2>2, <2>3, <2>4
  <2>5. CASE queue' = queue
    BY <2>1, <2>2, <2>5
  <2> QED
    BY <1>1, <2>4, <2>5
<1>3. TypeOK'
  BY <1>1, <1>2, NotifiesKeeps DEF Core, TypeOK, Notifies, Backs
<1>4. EnvInv'
  BY <1>0, <1>1, NotifiesEnv
<1>5. Of(t) \notin flag' \/ Of(t) \in Range(queue')
  BY <1>1, <1>2
<1>6. Noticed'
  BY <1>0, <1>1, <1>2, <1>5, NotifiesNoticed
<1> QED
  BY <1>1, <1>3, <1>4, <1>6, NotifiesKeeps DEF Core
-----------------------------------------------------------------------------
(* The environment.                                                         *)

LEMMA EnvInitCore ==
    ASSUME Core, EnvInit
    PROVE  Core'
<1>1. \A s \in Senders : pc[s] = "none"
  BY DEF EnvInit, Core, EnvInv
<1>2. /\ \A t \in Threads : pc'[t] = IF t \in load.threads THEN "loop" ELSE pc[t]
      /\ load.threads \subseteq Senders
      /\ UNCHANGED <<load, noticeVars, back, turn, version, refs>>
      /\ life' = "ready" /\ listed' = {} /\ queue' = <<>> /\ listed = {}
  BY EnvAssumption DEF EnvInit, Core, EnvInv
<1>3. TypeOK'
  BY <1>1, <1>2 DEF Core, TypeOK, EnvInit
<1>4. PlacesInv'
  BY <1>1, <1>2, Kinds DEF Core, PlacesInv
<1>5. \A p \in Producers : Serving(p)' = Serving(p)
  BY <1>2 DEF Serving
<1>6. ServeInv'
  BY <1>1, <1>2, <1>5, Kinds DEF Core, ServeInv
<1>7. EnvInv'
  BY <1>1, <1>2, Kinds DEF EnvInv
<1>8. Noticed'
  BY <1>2 DEF Noticed, Core, TypeOK
<1> QED
  BY <1>3, <1>4, <1>6, <1>7, <1>8 DEF Core

EnvPlain == EnvDestroy \/ EnvTear \/ EnvAborts \/ EnvStops
LEMMA EnvPlainCore ==
    ASSUME Core, EnvPlain
    PROVE  Core'
<1>1. /\ UNCHANGED <<load, listed, queue, noticeVars, pc, back, turn, version, refs>>
      /\ life # "down" /\ life' \in {"ready", "destroying", "tearing"}
      /\ life' = "tearing" => life = "tearing" \/ ActiveOps = {}
  BY DEF EnvPlain, EnvDestroy, EnvTear, EnvAborts, EnvStops
<1>2. TypeOK' /\ PlacesInv'
  BY <1>1 DEF Core, TypeOK, PlacesInv
<1>3. \A p \in Producers : Serving(p)' = Serving(p)
  BY <1>1 DEF Serving
<1>4. ServeInv'
  BY <1>1, <1>3 DEF Core, ServeInv
<1>5. ActiveOps' = ActiveOps
  BY <1>1 DEF ActiveOps
<1>6. EnvInv'
  BY <1>1, <1>5 DEF Core, EnvInv
<1>7. \A t \in Threads : Of(t)' = Of(t)
  BY <1>1 DEF Of
<1>8. Noticed'
  BY <1>1, <1>7 DEF Core, Noticed
<1> QED
  BY <1>2, <1>4, <1>6, <1>8 DEF Core

LEMMA TickCore ==
    ASSUME Core, EnvWaits \/ \E s \in Senders : Tick(s)
    PROVE  Core'
<1>1. /\ UNCHANGED <<load, life, stop, listed, registered, inflight, pc, back, turn, version, refs>>
      /\ TickLocked /\ life # "down"
  BY DEF EnvWaits, Tick, Core, EnvInv
<1>2. /\ flag' \subseteq listed /\ flag \subseteq flag'
      /\ queue' \in Seq(Producers \cup {None})
      /\ Range(queue) \subseteq Range(queue')
      /\ \A p \in flag' : p \in flag \/ p \in Range(queue')
  BY <1>1, TickQueues DEF Core
<1>3. TypeOK' /\ PlacesInv'
  BY <1>1, <1>2 DEF Core, TypeOK, PlacesInv
<1>4. \A p \in Producers : Serving(p)' = Serving(p)
  BY <1>1 DEF Serving
<1>5. ServeInv'
  BY <1>1, <1>4 DEF Core, ServeInv
<1>6. ActiveOps' = ActiveOps
  BY <1>1 DEF ActiveOps
<1>7. EnvInv'
  BY <1>1, <1>6 DEF Core, EnvInv
<1>8. \A t \in Threads : Of(t)' = Of(t)
  BY <1>1 DEF Of
<1>9. Noticed'
  BY <1>1, <1>2, <1>8 DEF Core, Noticed
<1> QED
  BY <1>3, <1>5, <1>7, <1>9 DEF Core

LEMMA EnvGoneCore ==
    ASSUME Core, EnvGone
    PROVE  Core'
<1>1. \A s \in Senders : pc[s] \in {"none", "exited"}
  BY DEF EnvGone, Core, EnvInv
<1>2. /\ \A t \in Threads : pc'[t] = IF t \in Senders THEN "none" ELSE pc[t]
      /\ UNCHANGED <<load, inflight, back, turn, version, refs>>
      /\ life' = "down" /\ listed' = {} /\ queue' = <<>> /\ registered' = {} /\ flag' = {}
  BY DEF EnvGone, Core, TypeOK
<1>3. TypeOK'
  BY <1>2 DEF Core, TypeOK, EnvGone
<1>4. PlacesInv'
  BY <1>2, Kinds DEF Core, PlacesInv, EnvGone
<1>5. \A p \in Producers : Serving(p)' = Serving(p)
  BY <1>2 DEF Serving
<1>6. ServeInv'
  BY <1>1, <1>2, <1>5, Kinds DEF Core, ServeInv
<1>7. ActiveOps' = {}
  BY <1>2, Kinds DEF ActiveOps, Core, EnvInv, EnvGone
<1>8. EnvInv'
  BY <1>2, <1>7, Kinds DEF EnvInv
<1>9. Noticed'
  BY <1>2 DEF Noticed
<1> QED
  BY <1>3, <1>4, <1>6, <1>8, <1>9 DEF Core
-----------------------------------------------------------------------------
(* Producers.                                                               *)

LEMMA RegisterCore ==
    ASSUME Core, NEW p \in Producers, Register(p)
    PROVE  Core'
<1> DEFINE t == Owner(p)
<1>1. /\ UNCHANGED <<load, life, queue, flag, inflight, turn, version, refs>>
      /\ registered' = registered \cup {p} /\ listed' = listed \cup {p}
      /\ life = "ready" /\ pc[t] = "none" /\ flag \subseteq registered
      /\ pc' = [pc EXCEPT ![t] = "load"] /\ back' = [back EXCEPT ![t] = "open"]
  BY DEF Register, Core, TypeOK
<1>2. t \in Threads /\ t \notin Senders /\ pc'[t] = "load" /\ back'[t] = "open"
      /\ \A r \in Threads : r # t => pc'[r] = pc[r]
  BY <1>1, Kinds DEF Core, TypeOK
<1>3. Places(t, pc'[t], back'[t]) /\ back'[t] \in Backs
  BY <1>2 DEF Places, Backs
<1>4. PlacesInv' /\ pc' \in [Threads -> SenderPlaces \cup OwnerPlaces \cup HelperPlaces]
  BY <1>1, <1>2, <1>3, Moved DEF Core
<1>5. back' \in [Threads -> Backs]
  BY <1>1, <1>2, <1>3, BackType DEF Core
<1>6. TypeOK'
  BY <1>1, <1>4, <1>5 DEF Core, TypeOK, Backs
<1>7. \A q \in Producers : Serving(q)' = Serving(q)
  BY <1>1 DEF Serving
<1>8. \A s \in Senders : pc'[s] = pc[s]
  BY <1>2, Kinds
<1>9. ServeInv'
  BY <1>1, <1>7, <1>8 DEF Core, ServeInv
<1>10. ActiveOps' \subseteq ActiveOps
  BY <1>2 DEF ActiveOps
<1>11. EnvInv'
  BY <1>1, <1>8 DEF Core, EnvInv
<1>12. \A r \in Threads : Of(r)' = Of(r)
  BY <1>1 DEF Of
<1>13. Noticed'
  BY <1>1, <1>2, <1>8, <1>12 DEF Core, Noticed
<1> QED
  BY <1>4, <1>6, <1>9, <1>11, <1>13 DEF Core

LEMMA UnregisterCore ==
    ASSUME Core, NEW p \in Producers, Unregister(p)
    PROVE  Core'
<1> DEFINE t == Owner(p)
<1>1. /\ UNCHANGED <<load, life, inflight, turn, back, version, refs>>
      /\ registered' = registered \ {p} /\ listed' = listed \ {p} /\ flag' = flag \ {p}
      /\ queue' = Emptied(p) /\ pc[t] = "unregister"
      /\ pc' = [pc EXCEPT ![t] = "spin"]
  BY DEF Unregister, ResetFlag
<1>2. t \in Threads /\ t \notin Senders /\ pc'[t] = "spin" /\ back' = [back EXCEPT ![t] = back'[t]]
      /\ \A r \in Threads : r # t => pc'[r] = pc[r]
  BY <1>1, Kinds DEF Core, TypeOK
<1>3. Places(t, pc'[t], back'[t])
  BY <1>2 DEF Places
<1>4. PlacesInv' /\ pc' \in [Threads -> SenderPlaces \cup OwnerPlaces \cup HelperPlaces]
  BY <1>1, <1>2, <1>3, Moved DEF Core
<1>5. /\ queue' \in Seq(Producers \cup {None})
      /\ \A q \in Producers : q # p => (q \in Range(queue) <=> q \in Range(queue'))
  BY <1>1, RangeEmptied DEF Core
<1>6. TypeOK'
  BY <1>1, <1>4, <1>5 DEF Core, TypeOK
<1>7. \A q \in Producers : Serving(q)' = Serving(q)
  BY <1>1 DEF Serving
<1>8. \A s \in Senders : pc'[s] = pc[s]
  BY <1>2, Kinds
<1>9. ServeInv'
  BY <1>1, <1>7, <1>8 DEF Core, ServeInv
<1>10. ActiveOps' \subseteq ActiveOps
  BY <1>2 DEF ActiveOps
<1>11. queue = <<>> => queue' = <<>>
  BY <1>1 DEF Emptied
<1>12. EnvInv'
  BY <1>1, <1>8, <1>10, <1>11 DEF Core, EnvInv
<1>13. \A r \in Threads : Of(r)' = Of(r)
  BY <1>1 DEF Of
<1>14. Noticed'
  <2> SUFFICES ASSUME NEW q \in registered' \cap flag'
               PROVE  \/ q \in Range(queue')
                      \/ \E s \in Senders : pc'[s] = "unmark" /\ turn'[s].serves = q
                      \/ \E r \in Threads : pc'[r] \in {"begin", "push"} /\ Of(r)' = q
    BY DEF Noticed
  <2>1. q # p /\ q \in registered \cap flag /\ q \in Producers
    BY <1>1 DEF Core, TypeOK
  <2> QED
    BY <1>1, <1>2, <1>5, <1>8, <1>13, <2>1 DEF Core, Noticed
<1> QED
  BY <1>4, <1>6, <1>9, <1>12, <1>14 DEF Core
-----------------------------------------------------------------------------
(* Senders between two turns.                                               *)

(* A step in which a sender moves from one place to another, and no thread  *)
(* in env_notify does.                                                      *)
Walks(s) ==
    /\ pc[s] \in {"loop", "unmark", "leave"} /\ pc'[s] \in SenderPlaces \ (Notifying \cup {"none"})
    /\ pc' = [pc EXCEPT ![s] = pc'[s]]
    /\ UNCHANGED <<load, life, listed, registered, back, version, refs>>

LEMMA WalksKeeps ==
    ASSUME Core, NEW s \in Senders, Walks(s)
    PROVE  /\ PlacesInv' /\ pc' \in [Threads -> SenderPlaces \cup OwnerPlaces \cup HelperPlaces]
           /\ \A r \in Threads : r # s => pc'[r] = pc[r]
           /\ EnvInv'
<1>1. s \in Threads /\ back' = [back EXCEPT ![s] = back'[s]]
      /\ \A r \in Threads : r # s => pc'[r] = pc[r]
  BY Kinds DEF Walks, Core, TypeOK
<1>2. Places(s, pc'[s], back'[s])
  BY DEF Walks, Places
<1>3. PlacesInv' /\ pc' \in [Threads -> SenderPlaces \cup OwnerPlaces \cup HelperPlaces]
  BY <1>1, <1>2, Moved DEF Core, Walks
<1>4. ActiveOps' \subseteq ActiveOps
  BY <1>1 DEF ActiveOps, Walks
<1>5. life # "down"
  BY DEF Core, EnvInv, Walks
<1>6. \A r \in Senders : pc[r] = "none" => pc'[r] = "none"
  BY <1>1, Kinds DEF Walks
<1>7. EnvInv'
  BY <1>4, <1>5, <1>6 DEF Core, EnvInv, Walks
<1> QED
  BY <1>1, <1>3, <1>7

LEMMA ExitCore ==
    ASSUME Core, NEW s \in Senders, Exit(s)
    PROVE  Core'
<1>1. Walks(s) /\ pc[s] = "loop" /\ pc'[s] = "exited"
      /\ UNCHANGED <<queue, flag, inflight, turn>>
  BY Kinds DEF Exit, Walks, Core, TypeOK
<1>2. TypeOK'
  BY <1>1, WalksKeeps DEF Core, TypeOK, Walks
<1>3. \A p \in Producers : Serving(p)' = Serving(p)
  BY <1>1 DEF Serving
<1>4. ServeInv'
  BY <1>1, <1>3, WalksKeeps, Kinds DEF Core, ServeInv
<1>5. \A r \in Threads : Of(r)' = Of(r)
  BY <1>1 DEF Of
<1>6. Noticed'
  BY <1>1, <1>5, WalksKeeps, Kinds DEF Core, Noticed, Walks
<1> QED
  BY <1>1, <1>2, <1>4, <1>6, WalksKeeps DEF Core
LEMMA TakeCore ==
    ASSUME Core, NEW s \in Senders, Take(s)
    PROVE  Core'
<1> DEFINE p == Head(queue)
<1>1. queue # <<>> /\ queue' = Tail(queue) /\ pc[s] = "loop"
      /\ UNCHANGED <<load, life, listed, registered, flag, version, refs>>
  BY DEF Take
<1>2. Range(queue) = {p} \cup Range(queue') /\ queue' \in Seq(Producers \cup {None})
      /\ p \in Producers \cup {None}
  BY <1>1, RangeTail DEF Core, TypeOK
<1>3. CASE p = None
  <2>1. Walks(s) /\ pc'[s] = "loop" /\ UNCHANGED <<pc, back, inflight, turn>>
    BY <1>1, <1>3, Kinds DEF Take, Walks, Core, TypeOK
  <2>2. TypeOK'
    BY <1>1, <1>2, <2>1 DEF Core, TypeOK
  <2>3. \A q \in Producers : Serving(q)' = Serving(q)
    BY <2>1 DEF Serving
  <2>4. ServeInv'
    BY <2>1, <2>3 DEF Core, ServeInv
  <2>5. \A r \in Threads : Of(r)' = Of(r)
    BY <2>1 DEF Of
  <2>6. Noticed'
    <3>1. \A q \in registered : q # p
      BY <1>3, EnvAssumption DEF Core, TypeOK
    <3> QED
      BY <1>1, <1>2, <2>1, <2>5, <3>1 DEF Core, Noticed
  <2> QED
    BY <2>1, <2>2, <2>4, <2>6, WalksKeeps DEF Core
<1>4. CASE p # None
  <2>1. /\ p \in Producers
        /\ inflight' = [inflight EXCEPT ![p] = @ \cup {s}]
        /\ turn' = [turn EXCEPT ![s].serves = p]
        /\ pc' = [pc EXCEPT ![s] = "unmark"] /\ UNCHANGED back
    BY <1>2, <1>4 DEF Take
  <2>2. Walks(s) /\ pc'[s] = "unmark"
    BY <1>1, <2>1, Kinds DEF Walks, Core, TypeOK
  <2>3. turn' \in [Senders -> Turns] /\ turn'[s].serves = p
        /\ \A r \in Senders : r # s => turn'[r] = turn[r]
    BY <2>1 DEF Core, TypeOK
  <2>4. inflight' \in [Producers -> SUBSET Senders]
    BY <2>1 DEF Core, TypeOK
  <2>5. TypeOK'
    BY <1>1, <1>2, <2>1, <2>2, <2>3, <2>4, WalksKeeps DEF Core, TypeOK
  <2>6. turn[s].serves = None
    BY <1>1 DEF Core, ServeInv
  <2>7. ASSUME NEW q \in Producers PROVE inflight'[q] = Serving(q)'
    <3>1. inflight[q] = Serving(q) /\ inflight'[q] = IF q = p THEN inflight[q] \cup {s} ELSE inflight[q]
      BY <2>1 DEF Core, ServeInv, TypeOK
    <3>2. s \notin Serving(q)
      BY <2>6, EnvAssumption DEF Serving
    <3>3. Serving(q)' = IF q = p THEN Serving(q) \cup {s} ELSE Serving(q)
      BY <2>3, <3>2 DEF Serving
    <3> QED
      BY <3>1, <3>3
  <2>8. ServeInv'
    BY <1>4, <2>2, <2>3, <2>7, WalksKeeps, Kinds DEF Core, ServeInv
  <2>9. \A r \in Threads : r # s => Of(r)' = Of(r)
    BY <2>3 DEF Of
  <2>10. Noticed'
    <3> SUFFICES ASSUME NEW q \in registered' \cap flag'
                 PROVE  \/ q \in Range(queue')
                        \/ \E r \in Senders : pc'[r] = "unmark" /\ turn'[r].serves = q
                        \/ \E r \in Threads : pc'[r] \in {"begin", "push"} /\ Of(r)' = q
      BY DEF Noticed
    <3>1. CASE q = p
      BY <2>2, <2>3, <3>1
    <3>2. CASE q # p /\ q \in Range(queue)
      BY <1>2, <3>2
    <3>3. ASSUME NEW r \in Senders, pc[r] = "unmark", turn[r].serves = q
          PROVE  pc'[r] = "unmark" /\ turn'[r].serves = q
      BY <1>1, <2>2, <2>3, <3>3, WalksKeeps, Kinds
    <3>4. ASSUME NEW r \in Threads, pc[r] \in {"begin", "push"}, Of(r) = q
          PROVE  pc'[r] \in {"begin", "push"} /\ Of(r)' = q
      BY <1>1, <2>2, <2>9, <3>4, WalksKeeps
    <3>5. q \in registered \cap flag
      BY <1>1
    <3> QED
      BY <3>1, <3>2, <3>3, <3>4, <3>5 DEF Core, Noticed
  <2> QED
    BY <2>2, <2>5, <2>8, <2>10, WalksKeeps DEF Core
<1> QED
  BY <1>3, <1>4

LEMMA UnmarkCore ==
    ASSUME Core, NEW s \in Senders, Unmark(s)
    PROVE  Core'
<1> DEFINE p == turn[s].serves
<1>1. /\ pc[s] = "unmark" /\ UNCHANGED <<queue, inflight>>
      /\ flag' = flag \ {p}
      /\ turn' = [turn EXCEPT ![s].left = Steps]
  BY DEF Unmark, ResetFlag
<1>2. Walks(s) /\ pc'[s] \in {"leave", "step"}
  BY <1>1, Kinds DEF Unmark, Walks, Core, TypeOK
<1>3. turn' \in [Senders -> Turns] /\ \A r \in Senders : turn'[r].serves = turn[r].serves
  <2>1. Steps \in Int /\ turn \in [Senders -> Turns]
    BY EnvAssumption DEF Core, TypeOK
  <2> QED
    BY <1>1, <2>1
<1>4. TypeOK'
  BY <1>1, <1>2, <1>3, WalksKeeps DEF Core, TypeOK, Walks
<1>5. \A q \in Producers : Serving(q)' = Serving(q)
  BY <1>3 DEF Serving
<1>6. ServeInv'
  BY <1>1, <1>2, <1>3, <1>5, WalksKeeps, Kinds DEF Core, ServeInv
<1>7. \A r \in Threads : Of(r)' = Of(r)
  BY <1>3 DEF Of
<1>8. Noticed'
  BY <1>1, <1>2, <1>3, <1>7, WalksKeeps, Kinds DEF Core, Noticed, Walks
<1> QED
  BY <1>2, <1>4, <1>6, <1>8, WalksKeeps DEF Core

LEMMA LeaveCore ==
    ASSUME Core, NEW s \in Senders, Leave(s)
    PROVE  Core'
<1> DEFINE p == turn[s].serves
<1>1. /\ pc[s] = "leave" /\ UNCHANGED <<queue, flag>>
      /\ inflight' = [inflight EXCEPT ![p] = inflight[p] \ {s}]
      /\ turn' = [turn EXCEPT ![s] = Idle]
  BY DEF Leave, Left
<1>2. Walks(s) /\ pc'[s] = "loop"
  BY <1>1, Kinds DEF Leave, Walks, Core, TypeOK
<1>3. turn' \in [Senders -> Turns] /\ turn'[s].serves = None
      /\ \A r \in Senders : r # s => turn'[r] = turn[r]
  BY <1>1 DEF Core, TypeOK, Idle
<1>4. p \in Producers
  BY <1>1 DEF Core, ServeInv, TypeOK
<1>5. inflight' \in [Producers -> SUBSET Senders]
  BY <1>1, <1>4 DEF Core, TypeOK
<1>6. TypeOK'
  BY <1>1, <1>2, <1>3, <1>5, WalksKeeps DEF Core, TypeOK, Walks
<1>7. ASSUME NEW q \in Producers PROVE inflight'[q] = Serving(q)'
  <2>1. inflight[q] = Serving(q) /\ inflight'[q] = IF q = p THEN inflight[q] \ {s} ELSE inflight[q]
    BY <1>1, <1>4 DEF Core, ServeInv, TypeOK
  <2>2. Serving(q)' = Serving(q) \ {s}
    BY <1>3, EnvAssumption DEF Serving
  <2>3. q # p => s \notin Serving(q)
    BY DEF Serving
  <2> QED
    BY <2>1, <2>2, <2>3
<1>8. ServeInv'
  BY <1>2, <1>3, <1>7, WalksKeeps, Kinds DEF Core, ServeInv
<1>9. \A r \in Threads : r # s => Of(r)' = Of(r)
  BY <1>3 DEF Of
<1>10. Noticed'
  BY <1>1, <1>2, <1>3, <1>9, WalksKeeps, Kinds DEF Core, Noticed, Walks
<1> QED
  BY <1>2, <1>6, <1>8, <1>10, WalksKeeps DEF Core
-----------------------------------------------------------------------------
LEMMA CoreInit ==
    ASSUME Init
    PROVE  Core
<1>1. load \in Loads /\ turn = [s \in Senders |-> Idle]
      /\ pc = [t \in Threads |-> IF t \in Helpers THEN "idle" ELSE "none"]
  BY DEF Init
<1>2. \A s \in Senders : s \notin Helpers /\ pc[s] = "none"
  BY <1>1, Kinds, EnvAssumption DEF Helpers
<1>3. \A p \in Producers : pc[Owner(p)] = "none" /\ pc[Helper(p)] = "idle"
  BY <1>1, Kinds DEF Helpers, Owner, Helper
<1>4. refs \in [Producers -> [Versions -> Int]] /\ version \in [Producers -> Nat]
  BY DEF Init
<1>5. turn \in [Senders -> Turns] /\ \A s \in Senders : turn[s].serves = None
  BY <1>1 DEF Idle
<1>6. TypeOK
  BY <1>1, <1>4, <1>5 DEF Init, TypeOK
<1>7. PlacesInv
  BY <1>2, <1>3 DEF PlacesInv
<1>8. ServeInv
  BY <1>2, <1>5, EnvAssumption DEF ServeInv, Serving, Init
<1>9. EnvInv
  BY <1>1, <1>2 DEF EnvInv, Init, ActiveOps
<1>10. Noticed
  BY DEF Noticed, Init
<1> QED
  BY <1>6, <1>7, <1>8, <1>9, <1>10 DEF Core

LEMMA CoreStep ==
    ASSUME Core, RefInv, Next
    PROVE  Core'
<1>0. SnapType'
  BY SnapTypeStep DEF Core
<1>1. CASE EnvInit \/ EnvDestroy \/ EnvWaits \/ EnvEnds
  BY <1>1, EnvInitCore, EnvPlainCore, TickCore, EnvGoneCore DEF EnvEnds, EnvPlain
<1>2. ASSUME NEW s \in Senders, Sender(s) PROVE Core'
  <2>1. \/ Tick(s) \/ Exit(s) \/ Take(s) \/ Unmark(s) \/ Leave(s) \/ InnerStep(s)
    BY <1>2 DEF Sender, InnerStep
  <2> QED
    BY <1>0, <2>1, TickCore, ExitCore, TakeCore, UnmarkCore, LeaveCore, QuietCases
<1>3. ASSUME NEW t \in Threads, Notify(t) PROVE Core'
  BY <1>3, LoadCore, BeginCore, PushCore DEF Notify
<1>4. ASSUME NEW p \in Producers,
             \/ Register(p) \/ Arrive(p)
             \/ UpdateEndpoint(p) \/ UpdateCredentials(p) \/ UpdateFinish(p)
             \/ Close(p) \/ Unregister(p) \/ OwnerEnds(p)
             \/ Due(p) \/ NetworkRecovers(p)
      PROVE  Core'
  <2>1. CASE Due(p)
    BY <2>1, StillCore DEF Due
  <2>2. CASE OwnerStep(p) \/ HelperStep(p)
    BY <1>0, <2>2, QuietCases
  <2> QED
    BY <1>4, <2>1, <2>2, RegisterCore, UnregisterCore DEF OwnerEnds, OwnerStep, HelperStep
<1> QED
  BY <1>1, <1>2, <1>3, <1>4 DEF Next
-----------------------------------------------------------------------------
(* Owners.                                                                  *)

Late == {"spin", "join", "gone"}

(* What a step must not do to a producer whose owner is past unregistering. *)
LEMMA OwnerKeeps ==
    ASSUME OwnerInv,
           \A p \in Producers : pc'[Owner(p)] \in Late => pc'[Owner(p)] = pc[Owner(p)],
           \A p \in Producers : pc[Owner(p)] \in Late => p \notin listed' \cup Range(queue'),
           \A p \in Producers : p \in Range(queue) \/ Serving(p)' \subseteq Serving(p),
           stopped \subseteq stopped',
           \A p \in Producers : pc[Owner(p)] = "gone" => pc'[Helper(p)] = pc[Helper(p)]
    PROVE  OwnerInv'
  BY DEF OwnerInv, Late

LEMMA InnerOwner ==
    ASSUME Core, OwnerInv, NEW s \in Senders, InnerStep(s)
    PROVE  OwnerInv'
<1>1. Quiet(s) /\ UNCHANGED phaseVars
  BY InnerQuiet DEF Core
<1>2. \A r \in Threads : r # s => pc'[r] = pc[r]
  BY <1>1 DEF Quiet, Core, TypeOK
<1>3. \A p \in Producers : Serving(p)' = Serving(p)
  BY <1>1 DEF Quiet, Serving
<1> QED
  BY <1>1, <1>2, <1>3, Kinds, OwnerKeeps DEF Quiet, OwnerInv, Late

LEMMA HelperOwner ==
    ASSUME Core, OwnerInv, RefInv, NEW p \in Producers, HelperStep(p)
    PROVE  OwnerInv'
<1>1. CASE UNCHANGED <<envVars, noticeVars, phaseVars, pc, back, turn, snapVars>>
  <2>1. \A q \in Producers : Serving(q)' = Serving(q)
    BY <1>1 DEF Serving
  <2> QED
    BY <1>1, <2>1 DEF OwnerInv
<1>2. CASE Quiet(Helper(p)) /\ UNCHANGED <<phaseVars, turn>>
  <2>1. \A r \in Threads : r # Helper(p) => pc'[r] = pc[r]
    BY <1>2 DEF Quiet, Core, TypeOK
  <2>2. \A q \in Producers : Serving(q)' = Serving(q)
    BY <1>2 DEF Serving
  <2>3. pc[Owner(p)] # "gone"
    BY DEF HelperStep, Arrive, UpdateEndpoint, UpdateCredentials, UpdateFinish, UpdateBegins, OwnerInv
  <2> QED
    BY <1>2, <2>1, <2>2, <2>3, Kinds, OwnerKeeps DEF Quiet, OwnerInv, Late
<1> QED
  BY <1>1, <1>2, HelperQuiet DEF Core

LEMMA OwnerOwner ==
    ASSUME Core, OwnerInv, NEW p \in Producers, OwnerStep(p)
    PROVE  OwnerInv'
<1>1. Quiet(Owner(p)) /\ UNCHANGED turn
  BY OwnerQuiet DEF Core
<1>2. \A r \in Threads : r # Owner(p) => pc'[r] = pc[r]
  BY <1>1 DEF Quiet, Core, TypeOK
<1>3. \A q \in Producers : Serving(q)' = Serving(q)
  BY <1>1 DEF Serving
<1>4. \A q \in Producers : q # p => pc'[Owner(q)] = pc[Owner(q)]
  BY <1>2, Kinds
<1>5. \A q \in Producers : pc'[Helper(q)] = pc[Helper(q)]
  BY <1>2, Kinds
<1>6. stopped \subseteq stopped' /\ UNCHANGED <<listed, queue, inflight>>
  BY <1>1 DEF OwnerStep, Close, CloseDrained, CloseTimesOut, Spin, Free, NetworkRecovers, Quiet
<1>7. CASE pc'[Owner(p)] \notin Late
  BY <1>3, <1>4, <1>5, <1>6, <1>7 DEF OwnerInv, Late
<1>8. CASE Spin(p)
  <2>1. pc[Owner(p)] = "spin" /\ pc'[Owner(p)] = "join" /\ p \in stopped' /\ Serving(p) = {}
    BY <1>8, Kinds DEF Spin, Unserved, Core, TypeOK, ServeInv
  <2> QED
    BY <1>3, <1>4, <1>5, <1>6, <2>1 DEF OwnerInv
<1>9. CASE Free(p)
  <2>1. pc[Owner(p)] = "join" /\ pc'[Owner(p)] = "gone" /\ pc[Helper(p)] = "idle"
    BY <1>9, Kinds DEF Free, Core, TypeOK
  <2> QED
    BY <1>3, <1>4, <1>5, <1>6, <2>1 DEF OwnerInv
<1>10. Spin(p) \/ Free(p) \/ pc'[Owner(p)] \notin Late
  BY Kinds DEF OwnerStep, Close, CloseDrained, CloseTimesOut, NetworkRecovers, Core, TypeOK, Late
<1> QED
  BY <1>7, <1>8, <1>9, <1>10

LEMMA NotifyOwner ==
    ASSUME Core, OwnerInv, NEW t \in Threads, Notify(t)
    PROVE  OwnerInv'
<1>1. Notifies(t) /\ UNCHANGED stopped
  BY OfProducer DEF Notify, Load, Begin, Push, Notifies, Core, TypeOK
<1>2. \A r \in Threads : r # t => pc'[r] = pc[r]
  BY <1>1, NotifiesKeeps
<1>3. PlacesInv' /\ pc[t] \in Notifying /\ pc'[t] # "gone"
  BY <1>1, NotifiesKeeps, OfProducer DEF Notifies, Core, TypeOK
<1>4. \A q \in Producers : pc'[Owner(q)] \in Late => pc'[Owner(q)] = pc[Owner(q)]
  BY <1>1, <1>2, OfProducer, Kinds DEF Notifies, Core, PlacesInv, TypeOK, Late
<1>5. queue' = queue \/ (Of(t) \in registered /\ queue' = Append(queue, Of(t)))
  BY DEF Notify, Load, Begin, Push
<1>6. Range(queue') \subseteq Range(queue) \cup listed
  <2>1. queue \in Seq(Producers \cup {None}) /\ Of(t) \in Producers \cup {None} /\ registered = listed
    BY <1>3, OfProducer DEF Core, TypeOK
  <2>2. Range(Append(queue, Of(t))) = Range(queue) \cup {Of(t)}
    BY <2>1, RangeAppend
  <2> QED
    BY <1>5, <2>1, <2>2
<1>7. \A q \in Producers : Serving(q)' = Serving(q)
  BY <1>1 DEF Serving, Notifies
<1>8. \A q \in Producers : pc[Owner(q)] = "gone" => pc'[Helper(q)] = pc[Helper(q)]
  BY <1>2, <1>3, Kinds DEF OwnerInv
<1>9. \A q \in Producers : pc[Owner(q)] \in Late => q \notin listed' \cup Range(queue')
  BY <1>1, <1>6 DEF OwnerInv, Late, Notifies
<1> QED
  BY <1>1, <1>4, <1>7, <1>8, <1>9, OwnerKeeps
LEMMA EnvOwner ==
    ASSUME Core, OwnerInv, EnvInit \/ EnvDestroy \/ EnvWaits \/ EnvEnds
    PROVE  OwnerInv'
<1>1. UNCHANGED <<stopped, turn>>
  BY DEF EnvInit, EnvDestroy, EnvWaits, EnvEnds, EnvTear, EnvAborts, EnvStops, EnvGone
<1>2. \A p \in Producers : Serving(p)' = Serving(p)
  BY <1>1 DEF Serving
<1>3. \A p \in Producers : pc'[Owner(p)] = pc[Owner(p)] /\ pc'[Helper(p)] = pc[Helper(p)]
  <2>1. load.threads \subseteq Senders
    BY EnvAssumption DEF Core, TypeOK
  <2> QED
    BY <2>1, Kinds DEF EnvInit, EnvDestroy, EnvWaits, EnvEnds, EnvTear, EnvAborts, EnvStops, EnvGone
<1>4. listed' \subseteq listed /\ Range(queue') \subseteq Range(queue) \cup listed
  <2>1. CASE EnvInit \/ EnvGone
    <3>1. listed' = {} /\ queue' = <<>>
      BY <2>1 DEF EnvInit, EnvGone
    <3>2. Range(<<>>) = {}
      BY DEF Range
    <3> QED
      BY <3>1, <3>2
  <2>2. CASE EnvWaits
    BY <2>2, TickQueues DEF EnvWaits, Core
  <2>3. CASE UNCHANGED <<listed, queue>>
    BY <2>3
  <2> QED
    BY <2>1, <2>2, <2>3 DEF EnvDestroy, EnvEnds, EnvTear, EnvAborts, EnvStops
<1> QED
  BY <1>1, <1>2, <1>3, <1>4, OwnerKeeps DEF OwnerInv, Late

LEMMA SenderOwner ==
    ASSUME Core, OwnerInv, NEW s \in Senders,
           Tick(s) \/ Exit(s) \/ Take(s) \/ Unmark(s) \/ Leave(s)
    PROVE  OwnerInv'
<1>1. UNCHANGED <<listed, stopped>>
  BY DEF Tick, Exit, Take, Unmark, Leave
<1>2. \A p \in Producers : pc'[Owner(p)] = pc[Owner(p)] /\ pc'[Helper(p)] = pc[Helper(p)]
  BY Kinds DEF Tick, Exit, Take, Unmark, Leave, Core, TypeOK
<1>3. Range(queue') \subseteq Range(queue) \cup listed
  <2>1. CASE Tick(s)
    BY <2>1, TickQueues DEF Tick, Core
  <2>2. CASE Take(s)
    BY <2>2, RangeTail DEF Take, Core, TypeOK
  <2>3. CASE UNCHANGED queue
    BY <2>3
  <2> QED
    BY <2>1, <2>2, <2>3 DEF Exit, Unmark, Leave
<1>4. ASSUME NEW p \in Producers PROVE p \in Range(queue) \/ Serving(p)' \subseteq Serving(p)
  <2>1. CASE Take(s) /\ Head(queue) # None
    <3>1. Head(queue) \in Range(queue)
      BY <2>1, RangeTail DEF Take, Core, TypeOK
    <3>2. turn' = [turn EXCEPT ![s].serves = Head(queue)]
      BY <2>1 DEF Take
    <3>3. \A r \in Senders : turn'[r].serves = IF r = s THEN Head(queue) ELSE turn[r].serves
      BY <3>2 DEF Core, TypeOK
    <3> QED
      BY <3>1, <3>3 DEF Serving
  <2>2. CASE Leave(s)
    <3>1. \A r \in Senders : turn'[r].serves = IF r = s THEN None ELSE turn[r].serves
      BY <2>2 DEF Leave, Idle, Core, TypeOK
    <3> QED
      BY <3>1, EnvAssumption DEF Serving
  <2>3. CASE Unmark(s)
    <3>1. \A r \in Senders : turn'[r].serves = turn[r].serves
      BY <2>3 DEF Unmark, Core, TypeOK
    <3> QED
      BY <3>1 DEF Serving
  <2>4. CASE UNCHANGED turn
    BY <2>4 DEF Serving
  <2> QED
    BY <2>1, <2>2, <2>3, <2>4 DEF Tick, Exit, Take
<1>5. \A p \in Producers : pc[Owner(p)] \in Late => p \notin listed' \cup Range(queue')
  BY <1>1, <1>3 DEF OwnerInv, Late
<1> QED
  BY <1>1, <1>2, <1>4, <1>5, OwnerKeeps

LEMMA RegistryOwner ==
    ASSUME Core, OwnerInv, NEW p \in Producers, Register(p) \/ Unregister(p) \/ Due(p)
    PROVE  OwnerInv'
<1>1. UNCHANGED <<stopped, turn>>
  BY DEF Register, Unregister, Due
<1>2. \A q \in Producers : Serving(q)' = Serving(q)
  BY <1>1 DEF Serving
<1>3. CASE Register(p)
  <2>1. \A q \in Producers : pc'[Owner(q)] = (IF q = p THEN "load" ELSE pc[Owner(q)])
                             /\ pc'[Helper(q)] = pc[Helper(q)]
    BY <1>3, Kinds DEF Register, Core, TypeOK
  <2>2. listed' = listed \cup {p} /\ UNCHANGED queue /\ pc[Owner(p)] = "none"
    BY <1>3 DEF Register
  <2> QED
    BY <1>1, <1>2, <2>1, <2>2, OwnerKeeps DEF OwnerInv, Late
<1>4. CASE Unregister(p)
  <2>1. \A q \in Producers : pc'[Owner(q)] = (IF q = p THEN "spin" ELSE pc[Owner(q)])
                             /\ pc'[Helper(q)] = pc[Helper(q)]
    BY <1>4, Kinds DEF Unregister, Core, TypeOK
  <2>2. listed' = listed \ {p} /\ p \notin Range(queue')
        /\ \A q \in Producers : q # p => (q \in Range(queue) <=> q \in Range(queue'))
    BY <1>4, RangeEmptied DEF Unregister, Core
  <2> QED
    BY <1>1, <1>2, <2>1, <2>2 DEF OwnerInv
<1>5. CASE Due(p)
  BY <1>2, <1>5 DEF Due, OwnerInv
<1> QED
  BY <1>3, <1>4, <1>5

LEMMA OwnerInvStep ==
    ASSUME Core, OwnerInv, RefInv, Next
    PROVE  OwnerInv'
<1>1. ASSUME NEW s \in Senders, Sender(s) PROVE OwnerInv'
  <2>1. \/ Tick(s) \/ Exit(s) \/ Take(s) \/ Unmark(s) \/ Leave(s) \/ InnerStep(s)
    BY <1>1 DEF Sender, InnerStep
  <2> QED
    BY <2>1, SenderOwner, InnerOwner
<1>2. ASSUME NEW p \in Producers,
             \/ Register(p) \/ Arrive(p)
             \/ UpdateEndpoint(p) \/ UpdateCredentials(p) \/ UpdateFinish(p)
             \/ Close(p) \/ Unregister(p) \/ OwnerEnds(p)
             \/ Due(p) \/ NetworkRecovers(p)
      PROVE  OwnerInv'
  BY <1>2, RegistryOwner, OwnerOwner, HelperOwner DEF OwnerEnds, OwnerStep, HelperStep
<1> QED
  BY <1>1, <1>2, EnvOwner, NotifyOwner DEF Next
-----------------------------------------------------------------------------
(* References.                                                              *)

LEMMA Copies ==
    ASSUME NEW p, NEW v
    PROVE  IsFiniteSet(Copying(p, v)) /\ Cardinality(Copying(p, v)) \in Nat
<1>1. Copying(p, v) \subseteq Senders
  BY DEF Copying
<1>2. IsFiniteSet(Copying(p, v))
  BY <1>1, EnvAssumption, FS_Subset
<1> QED
  BY <1>2, FS_CardinalityType

(* A step that moves no thread to or from a copy and publishes nothing.     *)
LEMMA RefKeeps ==
    ASSUME RefInv, UNCHANGED <<version, refs>>,
           \A p \in Producers : pc[Owner(p)] = "gone" <=> pc'[Owner(p)] = "gone",
           \A s \in Senders : pc[s] = "copy" <=> pc'[s] = "copy",
           \A s \in Senders : pc[s] = "copy" => turn'[s] = turn[s]
    PROVE  RefInv'
<1>1. \A p \in Producers, v \in Versions : Copying(p, v)' = Copying(p, v)
  BY DEF Copying
<1> QED
  BY <1>1 DEF RefInv
LEMMA InnerRef ==
    ASSUME Core, RefInv, NEW s \in Senders, InnerStep(s), ~Acquire(s), ~Copy(s)
    PROVE  RefInv'
<1>1. Quiet(s)
  BY InnerQuiet DEF Core
<1>2. \A r \in Threads : r # s => pc'[r] = pc[r]
  BY <1>1 DEF Quiet, Core, TypeOK
<1>3. \A r \in Senders : r # s => turn'[r] = turn[r]
  BY DEF InnerStep, StepGivesUp, StepTakes, StepPops, StepFiles, After, Gate, Enter, Limit, Answer, Final,
         Again, Suspends, Cycle, Request, EndStep, Spent, Core, TypeOK
<1>4. UNCHANGED <<version, refs>>
  BY DEF InnerStep, StepGivesUp, StepTakes, StepPops, StepFiles, After, Gate, Enter, Limit, Answer, Final,
         Again, Suspends, Cycle, Request
<1>5. pc[s] # "copy" /\ pc'[s] # "copy"
  BY Kinds DEF InnerStep, StepGivesUp, StepTakes, StepPops, StepFiles, After, Gate, Enter, Limit, Answer,
         Final, Again, Suspends, Cycle, Request, EndStep, Core, TypeOK
<1> QED
  BY <1>2, <1>3, <1>4, <1>5, Kinds, RefKeeps

LEMMA AcquireRef ==
    ASSUME Core, RefInv, OwnerInv, NEW s \in Senders, Acquire(s)
    PROVE  RefInv'
<1>a. PICK p \in Producers : p = turn[s].serves
  BY DEF Acquire, Core, ServeInv, TypeOK
<1>b. PICK v \in Nat : v = version[p]
  BY <1>a DEF Core, TypeOK
<1> USE <1>a, <1>b
<1>1. p \in Producers /\ pc[s] = "acquire" /\ v \in Nat
  BY DEF Acquire
<1>2. turn'[s].sees = v /\ turn'[s].serves = p /\ \A r \in Senders : r # s => turn'[r] = turn[r]
  BY DEF Acquire, Core, TypeOK
<1>3. UNCHANGED version /\ \A r \in Threads : r # s => pc'[r] = pc[r]
  BY Kinds DEF Acquire, Core, TypeOK
<1>4. CASE UNCHANGED refs /\ pc'[s] = "request"
  BY <1>1, <1>2, <1>3, <1>4, Kinds, RefKeeps
<1>5. CASE v # 0 /\ refs' = [refs EXCEPT ![p][v] = refs[p][v] + 1] /\ pc'[s] = "copy"
  <2>1. v \in Versions /\ v \in 1 .. version[p]
    BY <1>1, <1>5, Referenced DEF Core
  <2>2. \A q \in Producers, w \in Versions :
           refs'[q][w] = IF q = p /\ w = v THEN refs[q][w] + 1 ELSE refs[q][w]
    BY <1>1, <1>5, <2>1 DEF Core, TypeOK
  <2>3. s \notin Copying(p, v)
    BY <1>1 DEF Copying
  <2>4. Copying(p, v)' = Copying(p, v) \cup {s}
    BY <1>2, <1>3, <1>5, Kinds DEF Copying
  <2>5. ASSUME NEW q \in Producers, NEW w \in Versions, q # p \/ w # v
        PROVE  Copying(q, w)' = Copying(q, w)
    BY <1>1, <1>2, <1>3, <1>5, <2>5, Kinds DEF Copying
  <2>6. Cardinality(Copying(p, v) \cup {s}) = Cardinality(Copying(p, v)) + 1
    BY <2>3, Copies, FS_AddElement
  <2>7. ASSUME NEW q \in Producers, NEW w \in Versions
        PROVE  refs'[q][w] = Cardinality(Copying(q, w)') + (IF w = version'[q] THEN 1 ELSE 0)
    <3>1. refs[q][w] = Cardinality(Copying(q, w)) + (IF w = version[q] THEN 1 ELSE 0)
      BY DEF RefInv
    <3>2. Cardinality(Copying(q, w)) \in Nat
      BY Copies
    <3>3. CASE q = p /\ w = v
      BY <1>3, <2>2, <2>4, <2>6, <3>1, <3>2, <3>3
    <3>4. CASE q # p \/ w # v
      BY <1>3, <2>2, <2>5, <3>1, <3>4
    <3> QED
      BY <3>3, <3>4
  <2>8. \A r \in Senders : pc'[r] = "copy" => turn'[r].sees \in 1 .. version'[turn'[r].serves]
    BY <1>2, <1>3, <2>1, Kinds DEF RefInv
  <2>9. \A q \in Producers : version'[q] = version[q] /\ pc'[Owner(q)] = pc[Owner(q)]
    BY <1>3, Kinds
  <2> QED
    BY <2>7, <2>8, <2>9 DEF RefInv
<1> QED
  BY <1>4, <1>5, Kinds DEF Acquire, Retained, Core, TypeOK

LEMMA CopyRef ==
    ASSUME Core, RefInv, NEW s \in Senders, Copy(s)
    PROVE  RefInv'
<1>a. PICK p \in Producers : p = turn[s].serves
  BY Referenced DEF Copy, Core
<1>b. PICK v \in Versions : v = turn[s].sees
  BY Referenced DEF Copy, Core
<1> USE <1>a, <1>b
<1>1. p \in Producers /\ v \in Versions /\ pc[s] = "copy"
  BY DEF Copy
<1>2. UNCHANGED <<version, turn>> /\ pc'[s] = "request"
      /\ \A r \in Threads : r # s => pc'[r] = pc[r]
  BY Kinds DEF Copy, Core, TypeOK
<1>3. refs' = [refs EXCEPT ![p][v] = refs[p][v] - 1]
  BY DEF Copy, Released
<1>4. \A q \in Producers, w \in Versions :
         refs'[q][w] = IF q = p /\ w = v THEN refs[q][w] - 1 ELSE refs[q][w]
  BY <1>1, <1>3 DEF Core, TypeOK
<1>5. s \in Copying(p, v)
  BY <1>1 DEF Copying
<1>6. Copying(p, v)' = Copying(p, v) \ {s}
  BY <1>2, Kinds DEF Copying
<1>7. ASSUME NEW q \in Producers, NEW w \in Versions, q # p \/ w # v
      PROVE  Copying(q, w)' = Copying(q, w)
  BY <1>2, <1>7, Kinds DEF Copying
<1>8. Cardinality(Copying(p, v) \ {s}) = Cardinality(Copying(p, v)) - 1
  BY <1>5, Copies, FS_RemoveElement
<1>9. ASSUME NEW q \in Producers, NEW w \in Versions
      PROVE  refs'[q][w] = Cardinality(Copying(q, w)') + (IF w = version'[q] THEN 1 ELSE 0)
  <2>1. refs[q][w] = Cardinality(Copying(q, w)) + (IF w = version[q] THEN 1 ELSE 0)
    BY DEF RefInv
  <2>2. Cardinality(Copying(q, w)) \in Nat
    BY Copies
  <2>3. CASE q = p /\ w = v
    <3>1. PICK one \in {0, 1} : one = IF w = version[q] THEN 1 ELSE 0
      OBVIOUS
    <3>2. refs'[q][w] = refs[q][w] - 1
      BY <1>4, <2>3
    <3>3. Cardinality(Copying(q, w)') = Cardinality(Copying(q, w)) - 1
      BY <1>6, <1>8, <2>3
    <3>4. one = IF w = version'[q] THEN 1 ELSE 0
      BY <1>2, <3>1
    <3>5. refs'[q][w] = Cardinality(Copying(q, w)') + one
      BY <2>1, <2>2, <3>1, <3>2, <3>3
    <3> QED
      BY <3>4, <3>5
  <2>4. CASE q # p \/ w # v
    <3>1. Copying(q, w)' = Copying(q, w)
      BY <1>7, <2>4
    <3>2. refs'[q][w] = refs[q][w]
      BY <1>4, <2>4
    <3> QED
      BY <1>2, <2>1, <3>1, <3>2
  <2> QED
    BY <2>3, <2>4
<1>10. \A r \in Senders : pc'[r] = "copy" => turn'[r].sees \in 1 .. version'[turn'[r].serves]
  BY <1>2, Kinds DEF RefInv
<1>11. \A q \in Producers : version'[q] = version[q] /\ pc'[Owner(q)] = pc[Owner(q)]
  BY <1>2, Kinds
<1> QED
  BY <1>9, <1>10, <1>11 DEF RefInv
LEMMA PublishRef ==
    ASSUME Core, RefInv, NEW p \in Producers, UpdateEndpoint(p) \/ UpdateCredentials(p)
    PROVE  RefInv'
<1>a. PICK v \in Nat : v = version[p]
  BY DEF Core, TypeOK
<1> USE <1>a
<1>1. v \in Versions /\ v + 1 \in Versions /\ UpdateBegins(p) /\ Publish(p) /\ UNCHANGED turn
  BY NextVersion DEF Core, UpdateEndpoint, UpdateCredentials
<1>2. \A s \in Senders : pc'[s] = pc[s]
  BY Kinds DEF UpdateEndpoint, UpdateCredentials, Core, TypeOK
<1>3. \A q \in Producers : pc'[Owner(q)] = pc[Owner(q)]
  BY Kinds DEF UpdateEndpoint, UpdateCredentials, Core, TypeOK
<1>4. \A q \in Producers : version'[q] = IF q = p THEN v + 1 ELSE version[q]
  BY <1>1 DEF Publish, Core, TypeOK
<1>5. \A q \in Producers, w \in Versions :
         refs'[q][w] = IF q # p THEN refs[q][w]
                       ELSE IF w = v + 1 THEN 1
                       ELSE IF w = v THEN refs[q][w] - 1 ELSE refs[q][w]
  BY <1>1 DEF Publish, Released, Core, TypeOK
<1>6. ASSUME NEW q \in Producers, NEW w \in Versions
      PROVE  Copying(q, w)' = Copying(q, w)
  BY <1>1, <1>2 DEF Copying
<1>7. Copying(p, v + 1) = {}
  <2> SUFFICES ASSUME NEW s \in Senders, pc[s] = "copy", turn[s].serves = p, turn[s].sees = v + 1
               PROVE  FALSE
    BY DEF Copying
  <2>1. v + 1 \in 1 .. v
    BY DEF RefInv
  <2> QED
    BY <2>1
<1>8. ASSUME NEW q \in Producers, NEW w \in Versions
      PROVE  refs'[q][w] = Cardinality(Copying(q, w)') + (IF w = version'[q] THEN 1 ELSE 0)
  <2>1. refs[q][w] = Cardinality(Copying(q, w)) + (IF w = version[q] THEN 1 ELSE 0)
    BY DEF RefInv
  <2>2. Cardinality(Copying(q, w)) \in Nat /\ Cardinality(Copying(q, w)') = Cardinality(Copying(q, w))
    BY <1>6, Copies
  <2>3. CASE q # p
    BY <1>4, <1>5, <2>1, <2>2, <2>3
  <2>4. CASE q = p /\ w = v + 1
    <3>1. Cardinality(Copying(q, w)) = 0
      BY <1>7, <2>4, FS_EmptySet
    <3> QED
      BY <1>4, <1>5, <2>2, <2>4, <3>1
  <2>5. CASE q = p /\ w = v
    <3>1. refs'[q][w] = refs[q][w] - 1 /\ refs[q][w] = Cardinality(Copying(q, w)) + 1
      BY <1>5, <2>1, <2>5
    <3>2. w # version'[q]
      BY <1>4, <2>5
    <3> QED
      BY <2>2, <3>1, <3>2
  <2>6. CASE q = p /\ w # v /\ w # v + 1
    BY <1>4, <1>5, <2>1, <2>2, <2>6
  <2> QED
    BY <2>3, <2>4, <2>5, <2>6
<1>9. ASSUME NEW s \in Senders, pc'[s] = "copy"
      PROVE  turn'[s].sees \in 1 .. version'[turn'[s].serves]
  <2>1. turn[s].serves \in Producers /\ version[turn[s].serves] \in Nat
        /\ turn[s].sees \in 1 .. version[turn[s].serves]
    BY <1>2, <1>9, Referenced DEF RefInv, Core, TypeOK
  <2>2. turn' = turn
    BY <1>1
  <2>3. CASE turn[s].serves = p
    BY <1>4, <2>1, <2>2, <2>3
  <2>4. CASE turn[s].serves # p
    BY <1>4, <2>1, <2>2, <2>4
  <2> QED
    BY <2>3, <2>4
<1>10. \A q \in Producers : /\ version'[q] = 0 <=> pc'[Owner(q)] = "gone"
                            /\ version'[q] # 0 => version'[q] \in Versions
  BY <1>1, <1>3, <1>4 DEF UpdateBegins, RefInv
<1> QED
  BY <1>8, <1>9, <1>10 DEF RefInv

LEMMA FreeRef ==
    ASSUME Core, OwnerInv, RefInv, NEW p \in Producers, Free(p)
    PROVE  RefInv'
<1>a. PICK v \in Versions : v = version[p]
  BY Referenced DEF Core, Free, RefInv
<1> USE <1>a
<1>1. v # 0 /\ UNCHANGED turn /\ Serving(p) = {}
  BY DEF Free, RefInv, OwnerInv
<1>2. \A s \in Senders : pc'[s] = pc[s]
  BY Kinds DEF Free, Core, TypeOK
<1>3. \A q \in Producers : pc'[Owner(q)] = IF q = p THEN "gone" ELSE pc[Owner(q)]
  BY Kinds DEF Free, Core, TypeOK
<1>4. \A q \in Producers : version'[q] = IF q = p THEN 0 ELSE version[q]
  BY DEF Free, Core, TypeOK
<1>5. \A q \in Producers, w \in Versions :
         refs'[q][w] = IF q = p /\ w = v THEN refs[q][w] - 1 ELSE refs[q][w]
  BY DEF Free, Released, Core, TypeOK
<1>6. ASSUME NEW q \in Producers, NEW w \in Versions
      PROVE  Copying(q, w)' = Copying(q, w)
  BY <1>1, <1>2 DEF Copying
<1>7. \A w \in Versions : Copying(p, w) = {} /\ w # 0
  BY <1>1, Earlier DEF Copying, Serving
<1>8. ASSUME NEW q \in Producers, NEW w \in Versions
      PROVE  refs'[q][w] = Cardinality(Copying(q, w)') + (IF w = version'[q] THEN 1 ELSE 0)
  <2>1. refs[q][w] = Cardinality(Copying(q, w)) + (IF w = version[q] THEN 1 ELSE 0)
    BY DEF RefInv
  <2>2. Cardinality(Copying(q, w)) \in Nat /\ Cardinality(Copying(q, w)') = Cardinality(Copying(q, w))
    BY <1>6, Copies
  <2>3. CASE q # p
    BY <1>4, <1>5, <2>1, <2>2, <2>3
  <2>4. CASE q = p
    <3>1. Cardinality(Copying(q, w)) = 0
      BY <1>7, <2>4, FS_EmptySet
    <3>2. w # version'[q]
      BY <1>4, <1>7, <2>4
    <3>3. refs'[q][w] = 0
      BY <1>5, <2>1, <2>4, <3>1
    <3> QED
      BY <2>2, <3>1, <3>2, <3>3
  <2> QED
    BY <2>3, <2>4
<1>9. ASSUME NEW s \in Senders, pc'[s] = "copy"
      PROVE  turn'[s].sees \in 1 .. version'[turn'[s].serves]
  <2>1. turn[s].serves # p /\ turn[s].serves \in Producers
    BY <1>1, <1>2, <1>9, Referenced DEF Serving, Core
  <2> QED
    BY <1>1, <1>2, <1>4, <1>9, <2>1 DEF RefInv
<1>10. \A q \in Producers : /\ version'[q] = 0 <=> pc'[Owner(q)] = "gone"
                            /\ version'[q] # 0 => version'[q] \in Versions
  BY <1>3, <1>4 DEF RefInv
<1> QED
  BY <1>8, <1>9, <1>10 DEF RefInv
LEMMA PeerRef ==
    ASSUME Core, RefInv, NEW p \in Producers,
           \/ Register(p) \/ Unregister(p) \/ Due(p) \/ Arrive(p) \/ UpdateFinish(p)
           \/ Close(p) \/ CloseDrained(p) \/ CloseTimesOut(p) \/ Spin(p) \/ NetworkRecovers(p)
    PROVE  RefInv'
<1>1. UNCHANGED <<version, refs, turn>>
  BY DEF Register, Unregister, Due, Arrive, UpdateFinish, Close, CloseDrained, CloseTimesOut, Spin,
         NetworkRecovers
<1>2. \A s \in Senders : pc'[s] = pc[s]
  BY Kinds DEF Register, Unregister, Due, Arrive, UpdateFinish, Close, CloseDrained, CloseTimesOut,
               Spin, NetworkRecovers, Core, TypeOK
<1>3. \A q \in Producers : pc[Owner(q)] = "gone" <=> pc'[Owner(q)] = "gone"
  BY Kinds DEF Register, Unregister, Due, Arrive, UpdateFinish, Close, CloseDrained, CloseTimesOut,
               Spin, NetworkRecovers, Core, TypeOK
<1> QED
  BY <1>1, <1>2, <1>3, RefKeeps

LEMMA NotifyRef ==
    ASSUME Core, RefInv, NEW t \in Threads, Notify(t)
    PROVE  RefInv'
<1>1. Notifies(t) /\ UNCHANGED <<version, refs>>
  BY OfProducer DEF Notify, Load, Begin, Push, Notifies, Core, TypeOK
<1>2. \A r \in Threads : r # t => pc'[r] = pc[r]
  BY <1>1, NotifiesKeeps
<1>3. pc[t] \notin {"copy", "gone"} /\ pc'[t] \notin {"copy", "gone"}
  BY <1>1, OfProducer DEF Notifies, Core, TypeOK
<1> QED
  BY <1>1, <1>2, <1>3, Kinds, RefKeeps DEF Notifies

LEMMA EnvRef ==
    ASSUME Core, RefInv, EnvInit \/ EnvDestroy \/ EnvWaits \/ EnvEnds
    PROVE  RefInv'
<1>1. UNCHANGED <<version, refs, turn>>
  BY DEF EnvInit, EnvDestroy, EnvWaits, EnvEnds, EnvTear, EnvAborts, EnvStops, EnvGone
<1>2. load.threads \subseteq Senders
  BY EnvAssumption DEF Core, TypeOK
<1>3. \A q \in Producers : pc'[Owner(q)] = pc[Owner(q)]
  BY <1>2, Kinds DEF EnvInit, EnvDestroy, EnvWaits, EnvEnds, EnvTear, EnvAborts, EnvStops, EnvGone
<1>4. \A s \in Senders : pc[s] = "copy" <=> pc'[s] = "copy"
  BY <1>2, Kinds DEF EnvInit, EnvDestroy, EnvWaits, EnvEnds, EnvTear, EnvAborts, EnvStops, EnvGone,
                     Core, EnvInv
<1> QED
  BY <1>1, <1>3, <1>4, RefKeeps

LEMMA SenderRef ==
    ASSUME Core, RefInv, NEW s \in Senders,
           Tick(s) \/ Exit(s) \/ Take(s) \/ Unmark(s) \/ Leave(s)
    PROVE  RefInv'
<1>1. UNCHANGED <<version, refs>> /\ pc[s] # "copy" /\ pc'[s] # "copy"
  BY Kinds DEF Tick, Exit, Take, Unmark, Leave, Core, TypeOK
<1>2. \A r \in Threads : r # s => pc'[r] = pc[r]
  BY DEF Tick, Exit, Take, Unmark, Leave, Core, TypeOK
<1>3. \A r \in Senders : r # s => turn'[r] = turn[r]
  BY DEF Tick, Exit, Take, Unmark, Leave, Core, TypeOK
<1> QED
  BY <1>1, <1>2, <1>3, Kinds, RefKeeps

LEMMA RefInvStep ==
    ASSUME Core, OwnerInv, RefInv, Next
    PROVE  RefInv'
<1>1. ASSUME NEW s \in Senders, Sender(s) PROVE RefInv'
  <2>1. \/ Tick(s) \/ Exit(s) \/ Take(s) \/ Unmark(s) \/ Leave(s) \/ InnerStep(s)
    BY <1>1 DEF Sender, InnerStep
  <2> QED
    BY <2>1, SenderRef, InnerRef, AcquireRef, CopyRef
<1>2. ASSUME NEW p \in Producers,
             \/ Register(p) \/ Arrive(p)
             \/ UpdateEndpoint(p) \/ UpdateCredentials(p) \/ UpdateFinish(p)
             \/ Close(p) \/ Unregister(p) \/ OwnerEnds(p)
             \/ Due(p) \/ NetworkRecovers(p)
      PROVE  RefInv'
  BY <1>2, PeerRef, PublishRef, FreeRef DEF OwnerEnds
<1> QED
  BY <1>1, <1>2, EnvRef, NotifyRef DEF Next

LEMMA RefInit ==
    ASSUME Init
    PROVE  OwnerInv /\ RefInv
<1>1. PICK l \in Loads : l = load
  BY DEF Init
<1>2. 1 \in 1 .. l.updates + 1
  BY EnvAssumption
<1>3. 1 \in Versions
  BY <1>2 DEF Versions
<1>4. \A s \in Senders : pc[s] = "none"
  BY Kinds, EnvAssumption DEF Init, Helpers
<1>5. \A p \in Producers : pc[Owner(p)] = "none"
  BY Kinds DEF Init, Helpers, Owner, Helper
<1>6. \A p \in Producers, v \in Versions : Cardinality(Copying(p, v)) = 0
  BY <1>4, FS_EmptySet DEF Copying
<1>7. \A p \in Producers, v \in Versions : refs[p][v] = IF v = 1 THEN 1 ELSE 0
  BY DEF Init
<1>8. \A p \in Producers : version[p] = 1
  BY DEF Init
<1>9. ASSUME NEW p \in Producers, NEW v \in Versions
      PROVE  refs[p][v] = Cardinality(Copying(p, v)) + (IF v = version[p] THEN 1 ELSE 0)
  BY <1>6, <1>7, <1>8
<1> QED
  BY <1>3, <1>4, <1>5, <1>8, <1>9 DEF OwnerInv, RefInv
-----------------------------------------------------------------------------
(* Theorems.                                                                *)

LEMMA IInvInit == Init => IInv
  BY CoreInit, RefInit DEF IInv, Core

LEMMA IInvNext == IInv /\ [Next]_vars => IInv'
<1>1. ASSUME IInv, Next PROVE IInv'
  BY <1>1, CoreStep, OwnerInvStep, RefInvStep DEF IInv, Core
<1>2. ASSUME IInv, UNCHANGED vars PROVE IInv'
  <2>1. Core'
    BY <1>2, StillCore DEF IInv, Core, vars
  <2>2. \A p \in Producers : Serving(p)' = Serving(p)
    BY <1>2 DEF Serving, vars
  <2>3. OwnerInv'
    BY <1>2, <2>2 DEF IInv, OwnerInv, vars
  <2>4. RefInv'
    BY <1>2, RefKeeps DEF IInv, vars
  <2> QED
    BY <2>1, <2>3, <2>4 DEF IInv, Core
<1> QED
  BY <1>1, <1>2

LEMMA IInvAlways == Spec => []IInv
  BY IInvInit, IInvNext, PTL DEF Spec

(* While a producer's flag is set, somebody will still look at it: no work  *)
(* is left behind (ve_tls_env_notify, ve_tls_env_sender_main).              *)
THEOREM NoticedAlways == Spec => []Noticed
<1>1. IInv => Noticed
  BY DEF IInv
<1> QED
  BY <1>1, IInvAlways, PTL

LEMMA NothingStray ==
    ASSUME IInv
    PROVE  NoStrayUse
<1>0. TypeOK /\ ServeInv /\ RefInv
  BY DEF IInv
<1>1. ASSUME NEW p \in Producers, pc[Owner(p)] = "gone"
      PROVE  /\ p \notin registered \cup listed \cup Range(queue)
             /\ Serving(p) = {} /\ pc[Helper(p)] = "idle"
             /\ \A v \in Versions : refs[p][v] = 0
  <2>1. /\ p \notin registered \cup listed \cup Range(queue)
        /\ Serving(p) = {} /\ pc[Helper(p)] = "idle"
    BY <1>1 DEF IInv, TypeOK, OwnerInv
  <2>2. version[p] = 0
    BY <1>1 DEF IInv, RefInv
  <2>3. ASSUME NEW v \in Versions PROVE refs[p][v] = 0
    <3>1. Copying(p, v) = {} /\ v # 0
      BY <2>1, Earlier DEF Copying, Serving
    <3>2. Cardinality(Copying(p, v)) = 0
      BY <3>1, FS_EmptySet
    <3>3. refs[p][v] = Cardinality(Copying(p, v)) + (IF v = version[p] THEN 1 ELSE 0)
      BY DEF IInv, RefInv
    <3> QED
      BY <2>2, <3>1, <3>2, <3>3
  <2> QED
    BY <2>1, <2>3
<1>2. ASSUME NEW s \in Senders, pc[s] = "copy" PROVE refs[turn[s].serves][turn[s].sees] > 0
  <2>1. PICK p \in Producers, v \in Versions : p = turn[s].serves /\ v = turn[s].sees
    BY <1>0, <1>2, Referenced
  <2>2. s \in Copying(p, v)
    BY <1>2, <2>1 DEF Copying
  <2>3. Cardinality(Copying(p, v)) # 0 /\ Cardinality(Copying(p, v)) \in Nat
    BY <2>2, Copies, FS_EmptySet
  <2>4. refs[p][v] = Cardinality(Copying(p, v)) + (IF v = version[p] THEN 1 ELSE 0)
    BY <1>0 DEF RefInv
  <2> QED
    BY <2>1, <2>3, <2>4
<1>3. life = "down" => ActiveOps = {} /\ \A s \in Senders : pc[s] = "none"
  BY DEF IInv, EnvInv
<1> QED
  BY <1>1, <1>2, <1>3 DEF NoStrayUse

(* Nothing that was freed is used: not a destroyed producer by the          *)
(* environment or its senders, not a snapshot by a sender that copies it,   *)
(* not the environment's queue by a thread that is inside                   *)
(* (ve_tls_producer_destroy, ve_tls_runtime_snapshot_release,               *)
(* ve_tls_env_lifecycle_begin).                                             *)
THEOREM NoStrayUseAlways == Spec => []NoStrayUse
<1>1. IInv => NoStrayUse
  BY NothingStray
<1> QED
  BY <1>1, IInvAlways, PTL
===============================================================================
