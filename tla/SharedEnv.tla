------------------------------ MODULE SharedEnv ------------------------------
(***************************************************************************)
(* Several producers share the sender threads of one environment: the      *)
(* environment's life cycle, its queue of producers with work, how a       *)
(* producer registers, is noticed, is served in turns and is destroyed,    *)
(* the circuit breaker every request passes, and the references that keep  *)
(* a configuration snapshot alive while a request copies it.               *)
(*                                                                         *)
(* Tasks are counted, not told apart: their keys and their order are       *)
(* SendPipeline's subject.                                                 *)
(***************************************************************************)
EXTENDS Naturals, FiniteSets, Sequences, Functions

CONSTANTS
    Producers,
    Senders,        \* the threads of the environment
    Loads,          \* bounds: see load below
    Steps,          \* sender_steps in one turn (64 in the code)
    MaxTries,       \* per producer: retry_policy.max_attempts; 0 is no limit
    Slots,          \* breaker_half_open_max_inflight
    Gated,          \* producers whose keys have a rate limit or a breaker
    Cap,            \* q_cap, the capacity of the queue (4096 in the code)
    None

ASSUME EnvAssumption ==
    /\ Loads \subseteq [threads : SUBSET Senders,       \* started by env_init
                        tasks : [Producers -> Nat],     \* handed over by its workers
                        large : SUBSET Producers,       \* bodies above the rate limit
                        updates : Nat,                  \* of a producer's configuration
                        created : SUBSET Producers]
    /\ {Steps, Slots, Cap} \subseteq Nat \ {0}
    /\ MaxTries \in [Producers -> Nat]
    /\ Gated \subseteq Producers
    /\ None \notin Producers
    /\ IsFiniteSet(Senders) /\ Senders \cap ({"owner", "helper"} \X Producers) = {}

VARIABLES
    load,       \* how much there is to do, never changed
    life,       \* the environment: "down", "ready", "destroying" or "tearing"
    stop,       \* g_env.stop
    listed,     \* g_env.producers, as a set: any order of the list
    queue,      \* g_env.q: producers with work; an unregistered one leaves None
    registered, \* producers whose env_registered is set
    flag,       \* producers whose env_in_queue is set
    inflight,   \* per producer: the senders its env_inflight counts
    closing, stopped,               \* producers whose flag of that name is set
    sendq, ready, later, suspended, \* per producer: tasks in the send queue, on the
                \* ready list, on the delayed list, retained for credentials
    handed,     \* per producer: tasks its workers handed over so far
    probes,     \* per producer: breaker_half_open_inflight
    version,    \* per producer: the version of the published snapshot, 0 if cleared
    rotated,    \* per producer: the first version with its present credentials
    refs,       \* per producer and version: refcnt, 0 once freed
    pc,         \* per thread: where it is
    back,       \* per thread: where it goes on after env_notify
    turn,       \* per sender: the producer it serves and the task in hand
    entered     \* senders whose task has entered the circuit breaker

envVars == <<load, life, stop, listed, queue>>
noticeVars == <<registered, flag, inflight>>
phaseVars == <<closing, stopped>>
taskVars == <<sendq, ready, later, suspended>>
snapVars == <<version, rotated, refs>>
turnVars == <<turn, entered>>
vars == <<envVars, noticeVars, phaseVars, taskVars, handed, probes, snapVars,
          pc, back, turnVars>>

(* Besides the senders each producer has the thread that owns it and one that *)
(* stands for the callers of its updates.                                     *)
Owners == {"owner"} \X Producers
Helpers == {"helper"} \X Producers
Threads == Senders \cup Owners \cup Helpers
Owner(p) == <<"owner", p>>
Helper(p) == <<"helper", p>>
Versions == UNION {1 .. l.updates + 1 : l \in Loads}

Idle == [serves |-> None, left |-> 0, tries |-> 0, sees |-> 0]
Of(t) == IF t \in Senders THEN turn[t].serves ELSE t[2]

Goto(t, place) == pc' = [pc EXCEPT ![t] = place] /\ UNCHANGED back
NotifyThen(t, place) ==
    /\ pc' = [pc EXCEPT ![t] = "load"]
    /\ back' = [back EXCEPT ![t] = place]
Return(t) ==
    /\ pc' = [pc EXCEPT ![t] = back[t]]
    /\ back' = [back EXCEPT ![t] = "none"]

Init ==
    /\ load \in Loads
    /\ life = "down" /\ stop = FALSE /\ listed = {} /\ queue = <<>>
    /\ registered = {} /\ flag = {} /\ inflight = [p \in Producers |-> {}]
    /\ closing = {} /\ stopped = {}
    /\ sendq = [p \in Producers |-> 0] /\ ready = sendq /\ later = sendq
    /\ suspended = sendq /\ handed = sendq
    /\ probes = sendq
    /\ version = [p \in Producers |-> 1] /\ rotated = version
    /\ refs = [p \in Producers |-> [v \in Versions |-> IF v = 1 THEN 1 ELSE 0]]
    /\ pc = [t \in Threads |-> IF t \in Helpers THEN "idle" ELSE "none"]
    /\ back = [t \in Threads |-> "none"]
    /\ turn = [s \in Senders |-> Idle] /\ entered = {}
-----------------------------------------------------------------------------
(* What the environment asks of a producer.                                 *)

(* ve_tls_producer_has_pending.  A delayed task whose time has come counts as *)
(* ready: see Due.                                                            *)
HasPending(p) == (p \notin stopped /\ ready[p] > 0) \/ sendq[p] > 0

HasTask == {"gate", "enter", "limit", "acquire", "copy", "request"}
Serving(p) == {s \in Senders : turn[s].serves = p}

(* ve_tls_producer_is_drained_locked: a task between the send queue and its  *)
(* key queue is in none of the places it looks at.                           *)
Drained(p) ==
    /\ sendq[p] + ready[p] + later[p] + suspended[p] = 0
    /\ \A s \in Serving(p) : pc[s] \notin HasTask

(* ve_tls_env_tick_locked: queue every producer with work that is not queued,  *)
(* as far as the queue goes.                                                   *)
TickLocked ==
    LET found == {p \in listed : p \in registered /\ p \notin flag /\ HasPending(p)}
        room == Cap - Len(queue)
    IN  \E n \in 1 .. room : \E pushed \in Injection(1 .. n, found) :
           /\ n = room \/ Range(pushed) = found
           /\ queue' = queue \o pushed
           /\ flag' = flag \cup Range(pushed)
-----------------------------------------------------------------------------
(* ve_tls_env_notify, called by any thread about the producer Of(t).        *)

(* The fast path: not registered, or queued already. *)
Load(t) ==
    /\ pc[t] = "load"
    /\ IF Of(t) \in registered \ flag
       THEN flag' = flag \cup {Of(t)} /\ Goto(t, "begin")
       ELSE UNCHANGED flag /\ Return(t)
    /\ UNCHANGED <<envVars, registered, inflight, phaseVars, taskVars, handed,
                   probes, snapVars, turnVars>>

KeepFlag(p) == flag
ResetFlag(p) == flag \ {p}

(* ve_tls_env_lifecycle_begin(0): when the environment is being destroyed the *)
(* flag is taken back, or nobody would ever queue the producer again.         *)
Begin(t) ==
    /\ pc[t] = "begin"
    /\ IF life = "ready"
       THEN UNCHANGED flag /\ Goto(t, "push")
       ELSE flag' = ResetFlag(Of(t)) /\ Return(t)
    /\ UNCHANGED <<envVars, registered, inflight, phaseVars, taskVars, handed,
                   probes, snapVars, turnVars>>

(* ve_tls_env_queue_push_locked, then lifecycle_end. *)
Push(t) ==
    /\ pc[t] = "push"
    /\ IF ~stop /\ Of(t) \in registered /\ Len(queue) < Cap
       THEN queue' = Append(queue, Of(t)) /\ UNCHANGED flag
       ELSE flag' = ResetFlag(Of(t)) /\ UNCHANGED queue
    /\ Return(t)
    /\ UNCHANGED <<load, life, stop, listed, registered, inflight, phaseVars, taskVars, handed,
                   probes, snapVars, turnVars>>

(* The threads inside the environment: active_ops. *)
ActiveOps == {t \in Threads : pc[t] = "push"}
-----------------------------------------------------------------------------
(* The environment's life cycle.                                            *)

EnvInit ==
    /\ load \in Loads
    /\ life = "down"
    /\ life' = "ready" /\ stop' = FALSE /\ listed' = {} /\ queue' = <<>>
    /\ pc' = [t \in Threads |-> IF t \in load.threads THEN "loop" ELSE pc[t]]
    /\ UNCHANGED <<load, noticeVars, phaseVars, taskVars, handed, probes, snapVars,
                   back, turnVars>>

EnvOnly == UNCHANGED <<noticeVars, phaseVars, taskVars, handed, probes, snapVars,
                       pc, back, turnVars>>

(* ve_tls_env_prepare_destroy: no new operation begins, the active ones end. *)
EnvDestroy == life = "ready" /\ life' = "destroying" /\ UNCHANGED <<load, stop, listed, queue>> /\ EnvOnly
EnvTear ==
    /\ life = "destroying" /\ ActiveOps = {}
    /\ life' = "tearing"
    /\ UNCHANGED <<load, stop, listed, queue>> /\ EnvOnly

(* ve_tls_env_destroy_prepared waits until every producer is drained... *)
AllDrained == queue = <<>> /\ \A p \in listed : Drained(p)

EnvWaits ==
    /\ life = "tearing" /\ ~stop /\ ~AllDrained
    /\ TickLocked
    /\ UNCHANGED <<load, life, stop, listed, registered, inflight, phaseVars, taskVars, handed,
                   probes, snapVars, pc, back, turnVars>>
(* ... for a time, ... *)
EnvAborts ==
    /\ life = "tearing" /\ ~stop /\ ~AllDrained
    /\ life' = "ready"
    /\ UNCHANGED <<load, stop, listed, queue>> /\ EnvOnly
(* ... then stops the senders, ... *)
EnvStops ==
    /\ life = "tearing" /\ ~stop /\ AllDrained
    /\ stop' = TRUE
    /\ UNCHANGED <<load, life, listed, queue>> /\ EnvOnly
(* ... joins them and lets go of the producers that are still registered.  *)
EnvGone ==
    /\ life = "tearing" /\ stop /\ \A s \in load.threads : pc[s] = "exited"
    /\ life' = "down" /\ stop' = FALSE /\ listed' = {} /\ queue' = <<>>
    /\ registered' = registered \ listed /\ flag' = flag \ listed
    /\ pc' = [t \in Threads |-> IF t \in Senders THEN "none" ELSE pc[t]]
    /\ UNCHANGED <<load, inflight, phaseVars, taskVars, handed, probes, snapVars, back,
                   turnVars>>
-----------------------------------------------------------------------------
(* A sender of the environment: ve_tls_env_sender_main.                     *)

(* With an empty queue it looks for work itself, every 50 ms. *)
Tick(s) ==
    /\ pc[s] = "loop" /\ ~stop /\ queue = <<>>
    /\ TickLocked
    /\ UNCHANGED <<load, life, stop, listed, registered, inflight, phaseVars, taskVars, handed,
                   probes, snapVars, pc, back, turnVars>>

Exit(s) ==
    /\ pc[s] = "loop" /\ stop
    /\ Goto(s, "exited")
    /\ UNCHANGED <<envVars, noticeVars, phaseVars, taskVars, handed, probes, snapVars, turnVars>>

Take(s) ==
    /\ pc[s] = "loop" /\ ~stop /\ queue # <<>>
    /\ queue' = Tail(queue)
    /\ LET p == Head(queue)
       IN  IF p = None
           THEN UNCHANGED <<inflight, pc, back, turn>>
           ELSE /\ inflight' = [inflight EXCEPT ![p] = @ \cup {s}]
                /\ turn' = [turn EXCEPT ![s].serves = p]
                /\ Goto(s, "unmark")
    /\ UNCHANGED <<load, life, stop, listed, registered, flag, phaseVars, taskVars, handed,
                   probes, snapVars, entered>>

(* env_in_queue is reset before the work is looked at: work that comes later *)
(* queues the producer again.                                                *)
Unmark(s) ==
    /\ pc[s] = "unmark"
    /\ LET p == turn[s].serves
       IN  /\ flag' = ResetFlag(p)
           /\ Goto(s, IF p \in stopped THEN "leave" ELSE "step")
    /\ turn' = [turn EXCEPT ![s].left = Steps]
    /\ UNCHANGED <<envVars, registered, inflight, phaseVars, taskVars, handed,
                   probes, snapVars, entered>>

(* One step of the turn is over. *)
Spent(s) ==
    /\ turn' = [turn EXCEPT ![s] = [serves |-> @.serves, left |-> @.left - 1,
                                     tries |-> 0, sees |-> 0]]
    /\ entered' = entered \ {s}
StepOnly == UNCHANGED <<envVars, noticeVars, phaseVars, handed>>

Ends(p) == p \in closing \cup stopped

(* ve_tls_sender_step: a closing producer first gives up what waits for new  *)
(* credentials, ...                                                          *)
StepGivesUp(s) ==
    LET p == turn[s].serves
    IN  /\ pc[s] = "step" /\ turn[s].left > 0
        /\ Ends(p) /\ suspended[p] > 0
        /\ suspended' = [suspended EXCEPT ![p] = @ - 1]
        /\ Spent(s)
        /\ StepOnly /\ UNCHANGED <<sendq, ready, later, probes, snapVars, pc, back>>

(* ... then the delayed tasks count as due; the first ready one is taken, and *)
(* released when its retry cycle has outlived the producer.                   *)
StepTakes(s) ==
    LET p == turn[s].serves
        promoted == IF Ends(p) THEN ready[p] + later[p] ELSE ready[p]
    IN  /\ pc[s] = "step" /\ turn[s].left > 0
        /\ ~(Ends(p) /\ suspended[p] > 0)
        /\ promoted > 0
        /\ ready' = [ready EXCEPT ![p] = promoted - 1]
        /\ later' = [later EXCEPT ![p] = IF Ends(p) THEN 0 ELSE @]
        /\ \/ Goto(s, "gate") /\ UNCHANGED turnVars
           \/ Ends(p) /\ Spent(s) /\ NotifyThen(s, "step")
        /\ StepOnly /\ UNCHANGED <<sendq, suspended, probes, snapVars>>

(* ... or a task is moved from the send queue to its key queue, in two       *)
(* critical sections.                                                        *)
StepPops(s) ==
    LET p == turn[s].serves
    IN  /\ pc[s] = "step" /\ turn[s].left > 0
        /\ ~(Ends(p) /\ suspended[p] + later[p] > 0)
        /\ ready[p] = 0 /\ sendq[p] > 0
        /\ sendq' = [sendq EXCEPT ![p] = @ - 1]
        /\ Goto(s, "file")
        /\ StepOnly /\ UNCHANGED <<ready, later, suspended, probes, snapVars, turnVars>>

(* ... or the task ends there, when there are too many key queues.           *)
StepFiles(s) ==
    /\ pc[s] = "file"
    /\ \/ ready' = [ready EXCEPT ![turn[s].serves] = @ + 1]
       \/ UNCHANGED ready
    /\ Spent(s) /\ NotifyThen(s, "step")
    /\ StepOnly /\ UNCHANGED <<sendq, later, suspended, probes, snapVars>>

(* The turn is over when a step found nothing or all of them are spent: a *)
(* producer with more work queues itself again.                           *)
After(s) ==
    LET p == turn[s].serves
    IN  /\ pc[s] = "step"
        /\ \/ turn[s].left = 0
           \/ ready[p] + sendq[p] = 0 /\ (Ends(p) => later[p] + suspended[p] = 0)
        /\ IF HasPending(p) THEN NotifyThen(s, "leave") ELSE Goto(s, "leave")
        /\ StepOnly /\ UNCHANGED <<taskVars, probes, snapVars, turnVars>>

LeftUnlessStopped(p, s) == IF p \in stopped THEN inflight[p] ELSE inflight[p] \ {s}
Left(p, s) == inflight[p] \ {s}
Leave(s) ==
    /\ pc[s] = "leave"
    /\ inflight' = [inflight EXCEPT ![turn[s].serves] = Left(turn[s].serves, s)]
    /\ turn' = [turn EXCEPT ![s] = Idle]
    /\ Goto(s, "loop")
    /\ UNCHANGED <<envVars, registered, flag, phaseVars, taskVars, handed, probes, snapVars,
                   entered>>
-----------------------------------------------------------------------------
(* A task in a sender's hand.                                               *)

(* ve_tls_gate_ensure_keyed: the gates a key may be given. *)
MayRefuse(p) == p \in Gated

(* The gates of the key, before every attempt: a refused task is deferred and *)
(* the step ends there; a place it had in the circuit breaker stays taken.    *)
Gate(s) ==
    LET p == turn[s].serves
    IN  /\ pc[s] = "gate"
        /\ \/ /\ Goto(s, IF s \in entered THEN "limit" ELSE "enter")
              /\ turn' = [turn EXCEPT ![s].tries = IF MaxTries[p] = 0 THEN @ ELSE @ + 1]
              /\ UNCHANGED <<later, entered>>
           \/ /\ MayRefuse(p)
              /\ later' = [later EXCEPT ![p] = @ + 1]
              /\ Spent(s) /\ NotifyThen(s, "step")
        /\ StepOnly /\ UNCHANGED <<sendq, ready, suspended, probes, snapVars>>

MayEnter(p) == probes[p] < Slots
(* ve_tls_breaker_wait_open and ve_tls_breaker_try_enter_half_open, tried     *)
(* every 10 ms: a breaker that is open is a delay, and the places of the half- *)
(* open one are counted in the closed one as well.                             *)
Enter(s) ==
    LET p == turn[s].serves
    IN  /\ pc[s] = "enter"
        /\ MayEnter(p)
        /\ probes' = [probes EXCEPT ![p] = @ + 1]
        /\ entered' = entered \cup {s}
        /\ Goto(s, "limit")
        /\ StepOnly /\ UNCHANGED <<taskVars, snapVars, turn>>

(* ve_tls_rate_limit_wait waits for the tokens of the body, or for stop.  A  *)
(* body above the limit never gets them.                                     *)
HasTokens(p) == p \notin load.large \/ p \in stopped
Limit(s) ==
    /\ pc[s] = "limit" /\ HasTokens(turn[s].serves)
    /\ Goto(s, "acquire")
    /\ StepOnly /\ UNCHANGED <<taskVars, probes, snapVars, turnVars>>

Retained(p, v) == refs[p][v] + 1
(* ve_tls_runtime_snapshot_acquire, unless this thread has a copy of it. *)
Acquire(s) ==
    LET p == turn[s].serves
    IN  /\ pc[s] = "acquire"
        /\ turn' = [turn EXCEPT ![s].sees = version[p]]
        /\ \/ /\ version[p] # 0
              /\ refs' = [refs EXCEPT ![p][version[p]] = Retained(p, version[p])]
              /\ Goto(s, "copy")
           \/ UNCHANGED refs /\ Goto(s, "request")
        /\ StepOnly /\ UNCHANGED <<taskVars, probes, version, rotated, entered>>

(* ve_tls_runtime_snapshot_release: the snapshot is freed with its last reference. *)
Released(count) == count - 1

(* ve_tls_send_cfg_cache_refresh copies the snapshot and releases it. *)
Copy(s) ==
    /\ pc[s] = "copy"
    /\ refs' = [refs EXCEPT ![turn[s].serves][turn[s].sees] = Released(@)]
    /\ Goto(s, "request")
    /\ StepOnly /\ UNCHANGED <<taskVars, probes, version, rotated, turnVars>>

LeavesBreaker(p) == probes' = [probes EXCEPT ![p] = IF @ > 0 THEN @ - 1 ELSE 0]

Request(s) == pc[s] = "request" /\ StepOnly /\ UNCHANGED <<sendq, snapVars>>
EndStep(s) == Spent(s) /\ NotifyThen(s, "step")

(* A final result, one way or the other. *)
Final(s) ==
    /\ Request(s)
    /\ LeavesBreaker(turn[s].serves)
    /\ EndStep(s)
    /\ UNCHANGED <<ready, later, suspended>>

(* Another attempt, whether or not the producer closes.                      *)
Again(s) ==
    /\ Request(s)
    /\ LET most == MaxTries[turn[s].serves] IN most = 0 \/ turn[s].tries < most
    /\ Goto(s, "gate")
    /\ UNCHANGED <<ready, later, suspended, probes, turnVars>>

SameCredentials(p, v) == rotated[p] <= v

(* An authentication failure: the task waits for other credentials than those *)
(* it was sent with, and a closing producer gives it up.                      *)
Suspends(s) ==
    LET p == turn[s].serves
    IN  /\ Request(s)
        /\ LeavesBreaker(p)
        /\ IF Ends(p) THEN UNCHANGED <<ready, suspended>>
           ELSE IF SameCredentials(p, turn[s].sees)
                THEN suspended' = [suspended EXCEPT ![p] = @ + 1] /\ UNCHANGED ready
                ELSE ready' = [ready EXCEPT ![p] = @ + 1] /\ UNCHANGED suspended
        /\ EndStep(s)
        /\ UNCHANGED later

(* The end of a retry cycle: the task waits for the next one, or is released *)
(* by a producer that closes.                                                *)
Cycle(s) ==
    LET p == turn[s].serves
    IN  /\ Request(s)
        /\ LeavesBreaker(p)
        /\ later' = [later EXCEPT ![p] = IF Ends(p) THEN @ ELSE @ + 1]
        /\ EndStep(s)
        /\ UNCHANGED <<ready, suspended>>

Answer(s) == Final(s) \/ Again(s) \/ Suspends(s) \/ Cycle(s)

(* Time passes: a delayed task is due. *)
Due(p) ==
    /\ later[p] > 0
    /\ later' = [later EXCEPT ![p] = @ - 1] /\ ready' = [ready EXCEPT ![p] = @ + 1]
    /\ UNCHANGED <<envVars, noticeVars, phaseVars, sendq, suspended, handed, probes,
                   snapVars, pc, back, turnVars>>
-----------------------------------------------------------------------------
(* A producer: its owner, its workers and its updates.                      *)

OwnerOnly == UNCHANGED <<taskVars, handed, probes, turnVars>>

(* ve_tls_env_register_producer, the last thing creation does; then the first *)
(* notification.                                                              *)
Register(p) ==
    /\ pc[Owner(p)] = "none" /\ p \in load.created
    /\ life = "ready" /\ ~stop
    /\ registered' = registered \cup {p}
    /\ listed' = listed \cup {p}
    /\ NotifyThen(Owner(p), "open")
    /\ OwnerOnly /\ UNCHANGED <<load, life, stop, queue, flag, inflight, phaseVars, snapVars>>

(* A worker hands over a task, and tells nobody.                             *)
Arrive(p) ==
    /\ pc[Owner(p)] # "none" /\ p \notin stopped
    /\ handed[p] < load.tasks[p]
    /\ handed' = [handed EXCEPT ![p] = @ + 1]
    /\ sendq' = [sendq EXCEPT ![p] = @ + 1]
    /\ UNCHANGED <<envVars, noticeVars, phaseVars, ready, later, suspended, probes,
                   snapVars, pc, back, turnVars>>

(* An update counts in runtime_updates_inflight until it is finished... *)
UpdateBegins(p) ==
    pc[Helper(p)] = "idle" /\ pc[Owner(p)] = "open" /\ ~Ends(p) /\ version[p] <= load.updates
(* ... ve_tls_runtime_snapshot_publish_locked lets go of the old snapshot.    *)
Publish(p) ==
    /\ version' = [version EXCEPT ![p] = @ + 1]
    /\ refs' = [refs EXCEPT ![p][version[p]] = Released(@), ![p][version[p] + 1] = 1]

UpdateEndpoint(p) ==
    /\ UpdateBegins(p) /\ Publish(p)
    /\ Goto(Helper(p), "finish")
    /\ UNCHANGED <<rotated, taskVars>>
    /\ UNCHANGED <<envVars, noticeVars, phaseVars, handed, probes, turnVars>>

(* New credentials, or a new key, also wake the tasks that wait for them. *)
UpdateCredentials(p) ==
    /\ UpdateBegins(p) /\ Publish(p)
    /\ rotated' = [rotated EXCEPT ![p] = version[p] + 1]
    /\ ready' = [ready EXCEPT ![p] = @ + suspended[p]]
    /\ suspended' = [suspended EXCEPT ![p] = 0]
    /\ NotifyThen(Helper(p), "finish")
    /\ UNCHANGED <<envVars, noticeVars, phaseVars, sendq, later, handed, probes, turnVars>>

UpdateFinish(p) ==
    /\ pc[Helper(p)] = "finish"
    /\ Goto(Helper(p), "idle")
    /\ OwnerOnly /\ UNCHANGED <<envVars, noticeVars, phaseVars, snapVars>>

(* The application says that the network is back: deferred retries are due. *)
NetworkRecovers(p) ==
    /\ pc[Owner(p)] = "open" /\ later[p] > 0
    /\ \E n \in 1 .. later[p] :
          /\ later' = [later EXCEPT ![p] = @ - n]
          /\ ready' = [ready EXCEPT ![p] = @ + n]
    /\ NotifyThen(Owner(p), "open")
    /\ UNCHANGED <<envVars, noticeVars, phaseVars, sendq, suspended, handed, probes,
                   snapVars, turnVars>>

(* ve_tls_producer_destroy begins with a close, which waits for drained queues *)
(* for a time.                                                                *)
Close(p) ==
    /\ pc[Owner(p)] = "open"
    /\ closing' = closing \cup {p}
    /\ NotifyThen(Owner(p), "closing")
    /\ OwnerOnly /\ UNCHANGED <<envVars, noticeVars, stopped, snapVars>>
CloseDrained(p) ==
    /\ pc[Owner(p)] = "closing" /\ Drained(p)
    /\ closing' = closing \ {p} /\ stopped' = stopped \cup {p}
    /\ Goto(Owner(p), "unregister")
    /\ OwnerOnly /\ UNCHANGED <<envVars, noticeVars, snapVars>>
CloseTimesOut(p) ==
    /\ pc[Owner(p)] = "closing" /\ ~Drained(p)
    /\ Goto(Owner(p), "unregister")
    /\ OwnerOnly /\ UNCHANGED <<envVars, noticeVars, phaseVars, snapVars>>

(* The producer is unregistered, once no environment is being taken down, ... *)
Emptied(p) == [i \in DOMAIN queue |-> IF queue[i] = p THEN None ELSE queue[i]]
Unregister(p) ==
    /\ pc[Owner(p)] = "unregister" /\ life # "tearing"
    /\ registered' = registered \ {p}
    /\ listed' = listed \ {p}
    /\ queue' = Emptied(p)
    /\ flag' = ResetFlag(p)
    /\ Goto(Owner(p), "spin")
    /\ OwnerOnly /\ UNCHANGED <<load, life, stop, inflight, phaseVars, snapVars>>

(* ... the senders that serve it leave, ... *)
Unlisted(p) == p \notin listed
Unserved(p) == inflight[p] = {}
Spin(p) ==
    /\ pc[Owner(p)] = "spin" /\ Unserved(p)
    /\ closing' = closing \ {p} /\ stopped' = stopped \cup {p}
    /\ Goto(Owner(p), "join")
    /\ OwnerOnly /\ UNCHANGED <<envVars, noticeVars, snapVars>>

(* ... its updates end, its workers are joined, and all of it is freed. *)
Free(p) ==
    /\ pc[Owner(p)] = "join" /\ pc[Helper(p)] = "idle"
    /\ version' = [version EXCEPT ![p] = 0]
    /\ refs' = [refs EXCEPT ![p][version[p]] = Released(@)]
    /\ Goto(Owner(p), "gone")
    /\ OwnerOnly /\ UNCHANGED <<envVars, noticeVars, phaseVars, rotated>>
-----------------------------------------------------------------------------
Sender(s) ==
    \/ Tick(s) \/ Exit(s) \/ Take(s) \/ Unmark(s) \/ After(s) \/ Leave(s)
    \/ StepGivesUp(s) \/ StepTakes(s) \/ StepPops(s) \/ StepFiles(s)
    \/ Gate(s) \/ Enter(s) \/ Limit(s) \/ Acquire(s) \/ Copy(s) \/ Answer(s)

Notify(t) == Load(t) \/ Begin(t) \/ Push(t)
EnvEnds == EnvTear \/ EnvAborts \/ EnvStops \/ EnvGone
OwnerEnds(p) == CloseDrained(p) \/ CloseTimesOut(p) \/ Spin(p) \/ Free(p)

Next ==
    \/ EnvInit \/ EnvDestroy \/ EnvWaits \/ EnvEnds
    \/ \E s \in Senders : Sender(s)
    \/ \E t \in Threads : Notify(t)
    \/ \E p \in Producers :
          \/ Register(p) \/ Arrive(p)
          \/ UpdateEndpoint(p) \/ UpdateCredentials(p) \/ UpdateFinish(p)
          \/ Close(p) \/ Unregister(p) \/ OwnerEnds(p)
          \/ Due(p) \/ NetworkRecovers(p)

Spec == Init /\ [][Next]_vars

(* Threads run, requests are answered, clocks advance and waits that have a  *)
(* deadline end.  Unregistering may find the environment in the middle of a  *)
(* destroy each time it looks, so it needs strong fairness: the condition    *)
(* variable is signalled whenever a destroy gives up or is through.          *)
FairSpec ==
    /\ Spec
    /\ WF_vars(EnvEnds)
    /\ \A s \in Senders : WF_vars(Sender(s) \/ Notify(s))
    /\ \A p \in Producers :
          /\ WF_vars(OwnerEnds(p) \/ Notify(Owner(p)))
          /\ WF_vars(UpdateFinish(p) \/ Notify(Helper(p)))
          /\ SF_vars(Unregister(p))
-----------------------------------------------------------------------------
(* Properties.                                                              *)

(* Nothing that was freed is used: once a producer is gone it is not in the  *)
(* environment's list or queue, no thread works for it and its snapshots are *)
(* all released; a snapshot that is being copied has not been freed; and the *)
(* queue and its mutex outlive the last thread that may touch them           *)
(* (ve_tls_producer_destroy, ve_tls_env_unregister_producer, env_inflight,   *)
(* refcnt, active_ops).                                                      *)
NoStrayUse ==
    /\ \A p \in Producers :
          pc[Owner(p)] = "gone" =>
             /\ p \notin registered \cup listed \cup Range(queue)
             /\ Serving(p) = {}
             /\ pc[Helper(p)] = "idle"
             /\ \A v \in Versions : refs[p][v] = 0
    /\ \A s \in Senders : pc[s] = "copy" => refs[turn[s].serves][turn[s].sees] > 0
    /\ life = "down" => ActiveOps = {} /\ \A s \in Senders : pc[s] = "none"

(* The flag that keeps a producer from being queued twice never outlives its *)
(* place in the queue: while it is set somebody will still look at the       *)
(* producer, so no work is left unnoticed (env_in_queue in                   *)
(* ve_tls_env_notify, ve_tls_env_queue_push_locked and                       *)
(* ve_tls_env_sender_main).                                                  *)
Noticed ==
    \A p \in registered \cap flag :
       \/ p \in Range(queue)
       \/ \E s \in Senders : pc[s] = "unmark" /\ turn[s].serves = p
       \/ \E t \in Threads : pc[t] \in {"begin", "push"} /\ Of(t) = p

(* What keeps a sender in its hands for ever: all places of a circuit        *)
(* breaker leaked to deferred retries; a body above the rate limit, while    *)
(* the producer is not stopped; attempts without a limit.                    *)
Leaked(p) == probes[p] - Cardinality(Serving(p) \cap entered)
Stuck(p) ==
    \E s \in Serving(p) :
       \/ pc[s] = "enter" /\ Leaked(p) = Slots
       \/ pc[s] = "limit" /\ ~HasTokens(p)
       \/ pc[s] \in HasTask /\ MaxTries[p] = 0

(* Destroying a producer ends: the environment lets it go and the senders    *)
(* leave it (ve_tls_producer_destroy).  It does not when a sender is stuck   *)
(* with one of its own tasks, or when the environment, which is taken down   *)
(* meanwhile, waits for a sender that is stuck with any producer's task.     *)
DestroyEnds ==
    \A p \in Producers :
       \/ pc[Owner(p)] = "closing" ~> pc[Owner(p)] = "gone"
       \/ <>[](\/ Stuck(p)
               \/ life = "tearing" /\ \E q \in Producers : Stuck(q))
==============================================================================
