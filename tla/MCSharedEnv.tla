----------------------------- MODULE MCSharedEnv -----------------------------
(* The instance of SharedEnv that TLC explores. *)
EXTENDS SharedEnv

CONSTANTS p1, p2, s1, s2
TwoProducers == {p1, p2}
TwoSenders == {s1, s2}

(* The keys of one producer have gates, and its tasks have two attempts; the *)
(* other's have any number.                                                  *)
First == {p1}
Attempts == [x \in {p1, p2} |-> IF x = p1 THEN 2 ELSE 0]

Work(threads, p, large, updates, created) ==
    [threads |-> threads, tasks |-> [x \in {p1, p2} |-> IF x = p THEN 1 ELSE 0],
     large |-> large, updates |-> updates, created |-> created]

(* Two producers share a thread, one of them with a task of any kind; two    *)
(* threads share a producer; a configuration changes while requests use it.  *)
SmallLoads ==
    {Work({s1}, p, {}, 0, {p1, p2}) : p \in {p1, p2}}
    \cup {Work({s1}, p1, {p1}, 0, {p1, p2}), Work({s1, s2}, p1, {}, 0, {p1}),
          Work({s1}, p1, {}, 1, {p1})}
==============================================================================
